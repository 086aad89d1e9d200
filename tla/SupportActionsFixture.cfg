CONSTANTS
  t1 = t1
  t2 = t2
  c1 = c1
  c2 = c2
  m1 = m1
  m2 = m2
  d1 = d1
  d2 = d2
  k1 = k1
  k2 = k2
  o1 = o1
  p1 = p1
  p2 = p2
  None = None
  Token = {t1, t2}
  Conversation = {c1}
  Message = {m1, m2}
  Decision = {d1}
  Customer = {k1, k2}
  Order = {o1}
  OrderCustomer <- MCOrderCustomer
  FixtureState <- MCFixtureState
  Policy = {p1, p2}
  Permits <- MCPermits
  Faults = {"LateClient", "LostAbort", "Killed"}
  Unlucky = {m1, m2}
SYMMETRY Symmetry
SPECIFICATION ActionsSpec
INVARIANT OrderAccounting
INVARIANT FreshIsEligible
INVARIANT Isolation
CHECK_DEADLOCK FALSE
