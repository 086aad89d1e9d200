------------------------------- MODULE MCResearchRuns -------------------------------
(* Three requests for one briefing: two slots and a waiter, and a chain of up to two *)
(* resumed attempts.                                                                 *)
EXTENDS ResearchRuns, TLC

CONSTANTS q1, q2, q3, f1

MCAsks == [q \in {q1, q2, q3} |-> f1]

====
