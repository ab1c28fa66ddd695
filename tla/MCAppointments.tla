--------------------------- MODULE MCAppointments ---------------------------
(* Appointments.tla on a small instance: one viewing cancelled and one that *)
(* replaces it, two slots. *)
EXTENDS Appointments

CONSTANTS v1, v2, s1, s2, c1, c2
=============================================================================
