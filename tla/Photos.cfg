CONSTANTS
  NoAnswer = NoAnswer
  Error = Error
  q1 = q1
  q2 = q2
  l1 = l1
  l2 = l2
  Gone = Gone
  MaxIds = 4
  MaxPhotos = 2
  Loops = {l1, l2}
  Calls = {q1, q2}
  MaxFaults = 2
SPECIFICATION Spec
SYMMETRY Symmetry
CHECK_DEADLOCK FALSE
INVARIANTS
  TypeOK
  OverByOverlapOnly
  RowsHaveObjects
  
PROPERTIES
  ParkedOnlyOvertaken
