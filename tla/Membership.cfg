SPECIFICATION Spec
CONSTANTS
  u1 = u1
  u2 = u2
  o1 = o1
  o2 = o2
  s1 = s1
  s2 = s2
  i1 = i1
  p1 = p1
  p2 = p2
  Users = {u1, u2}
  Orgs = {o1, o2}
  Slugs = {s1, s2}
  Invs = {i1, i2}
  Procs = {p1, p2}
  Worlds <- ThreeWorlds
  MaxRequests = 3
SYMMETRY ProcSymmetry
INVARIANTS  DeletedAccountLeft
PROPERTIES SharedOrgKept LastAdminKept DuplicateOnlyWhenRaced AcceptedMeansMember
CHECK_DEADLOCK FALSE
