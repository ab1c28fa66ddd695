CONSTANTS
  NoAnswer = NoAnswer
  Error = Error
  Absent = Absent
  q1 = q1
  q2 = q2
  Calls = {q1, q2}
  MaxRows = 3
  MaxForms = 2
  MaxEvents = 1
  Limit = 2
SPECIFICATION Spec
SYMMETRY CallSymmetry
CHECK_DEADLOCK FALSE
INVARIANTS
  ContactAsSet
