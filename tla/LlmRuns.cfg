CONSTANTS
  r1 = r1
  r2 = r2
  s1 = s1
  s2 = s2
  s3 = s3
  Run <- MCRun
  Session <- MCSession
SYMMETRY Symmetry
SPECIFICATION Spec
INVARIANT WritesAhead
INVARIANT EndedOnce
PROPERTY KeepsLifecycle
