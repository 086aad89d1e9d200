------------------------------- MODULE MCSupportTurns -------------------------------
(* Instances of SupportTurns.                                                        *)
EXTENDS SupportTurns, TLC

CONSTANTS t1, t2, c1, c2, m1, m2, d1


====
