CONSTANTS
  c1 = c1
  c2 = c2
  NoAnswer = NoAnswer
  Error = Error
  Calls = {c1, c2}
  MaxVisits = 1
  MaxEvents = 1
SPECIFICATION Spec
SYMMETRY CallSymmetry
CHECK_DEADLOCK FALSE
INVARIANTS
  TypeOK
  OfferedIsAccepted
  OwnWritesShow
