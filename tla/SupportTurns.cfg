CONSTANTS
  t1 = t1
  t2 = t2
  c1 = c1
  c2 = c2
  m1 = m1
  m2 = m2
  d1 = d1
  None = None
  Token = {t1, t2}
  Conversation = {c1, c2}
  Message = {m1, m2}
  Decision = {d1}
  Faults = {"LateClient", "LostAbort", "Killed"}
  Unlucky = {m2}
SPECIFICATION FairSpec
INVARIANT Reservation
INVARIANT TurnsSerial
PROPERTY KeepsLifecycle
PROPERTY RunEnds
CHECK_DEADLOCK FALSE
