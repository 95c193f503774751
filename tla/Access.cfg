SPECIFICATION Spec
CONSTANTS
  u1 = u1
  u2 = u2
  l1 = l1
  l2 = l2
  k1 = k1
  b1 = b1
  b2 = b2
  c1 = c1
  c2 = c2
  Users = {u1, u2}
  Registered = {u1}
  UserCodes = {c1, c2}
  Logins = {l1, l2}
  WebKeys = {k1}
  Browsers = {b1}
  Expiration = 1
  Interval = 1
  MaxTime = 3
  MaxRequests = 2
INVARIANTS SavedKeyIsApprovers KeyOnDiskWorks KeyAccountedFor
PROPERTIES RevokedForGood LoginEnds ImplementsGrants
CHECK_DEADLOCK FALSE
