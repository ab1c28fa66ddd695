CONSTANTS
  NoAnswer = NoAnswer
  Error = Error
  None = None
  v1 = v1
  v2 = v2
  s1 = s1
  s2 = s2
  c1 = c1
  c2 = c2
  Viewings = {v1, v2}
  Slots = {s1, s2}
  Calls = {c1, c2}
  MaxEvents = 1
SPECIFICATION Spec
CHECK_DEADLOCK FALSE
INVARIANTS
  TypeOK
  OfferedIsAccepted

  
