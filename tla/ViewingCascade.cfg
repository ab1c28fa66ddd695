CONSTANTS
  t1 = t1
  t2 = t2
  l1 = l1
  x1 = x1
  m1 = m1
  m2 = m2
  s1 = s1
  s2 = s2
  Tenants = {t1, t2}
  Landlords = {l1}
  Listings = {x1}
  Matches = {m1, m2}
  TenantOf <- RivalTenantOf
  ListingOf <- OneListingOf
  LandlordOf <- OneLandlordOf
  Slots = {s1}
  LockHash <- OwnKey
  Schedules <- Changing
  FirstSchedule <- Single
  Viewings = {v1, v2}
  Requests = {r1, r2}
  Leavers = {l1}
  Handlers = {"book", "attend", "schedule", "time", "rent", "deleteListing", "deleteAccount", "adminDelete", "crash"}
SPECIFICATION Spec
SYMMETRY Interchangeable
INVARIANTS
  TypeOK
PROPERTIES
  SlotsFit
