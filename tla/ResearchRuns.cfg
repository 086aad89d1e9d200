CONSTANTS
  q1 = q1
  q2 = q2
  q3 = q3
  f1 = f1
  None = None
  Request = {q1, q2, q3}
  Fingerprint = {f1}
  Asks <- MCAsks
  Slots = 2
  Deadline = 1
  StaleAfter = 1
  MaxCrashes = 1
  Faults = {"Lost", "Overrun"}
  Unlucky = {q1}
SPECIFICATION FairSpec
INVARIANT StatusesAgree
INVARIANT OneAttempt
INVARIANT OwnsAttempt
INVARIANT Lineage
PROPERTY KeepsLifecycle
PROPERTY Answered
PROPERTY AttemptEnds
CHECK_DEADLOCK FALSE
