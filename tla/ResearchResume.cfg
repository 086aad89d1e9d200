CONSTANTS
  q1 = q1
  q2 = q2
  q3 = q3
  f1 = f1
  None = None
  Request = {q1, q2, q3}
  Fingerprint = {f1}
  Asks <- MCAsks
  Slots = 2
  Deadline = 1
  StaleAfter = 1
  MaxCrashes = 0
  Faults = {}
  Unlucky = {}
SPECIFICATION Spec
INVARIANT ReviewsKept
CHECK_DEADLOCK FALSE
