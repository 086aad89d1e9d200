--------------------------------- MODULE MCLlmRuns ---------------------------------
(* Two runs and three concurrent sessions.  Runs and sessions are interchangeable:  *)
(* no definition names one of them.                                                 *)
EXTENDS LlmRuns, TLC

CONSTANTS r1, r2, s1, s2, s3

MCRun == {r1, r2}
MCSession == {s1, s2, s3}

Symmetry == Permutations(MCRun) \cup Permutations(MCSession)

====
