CONSTANTS
  t1 = t1
  t2 = t2
  l1 = l1
  p1 = p1
  x1 = x1
  Tenants = {t1}
  Landlords = {l1}
  Profiles = {p1}
  Listings = {x1}
  TenantOf <- OneTenantOf
  LandlordOf <- OneLandlordOf
  LockHash <- OwnKey
  Requests = {r1, r2}
  Handlers = {"express", "activate", "rent"}
  Leavers = {}
SPECIFICATION Spec
INVARIANTS
  RentedHasNoActiveMatch
