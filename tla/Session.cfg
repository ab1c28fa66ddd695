CONSTANTS
  w1 = w1
  w2 = w2
  r1 = r1
  r2 = r2
  r3 = r3
  Tabs = {w1, w2}
  Requests = {r1, r2, r3}
  TabOf <- TwoTabs
  MaxTokens = 5
  MaxEvents = 1
SPECIFICATION Spec
CHECK_DEADLOCK FALSE
INVARIANTS
  TypeOK
  OneLiveToken
PROPERTIES
  BounceJustified
  RequestsSettle
