------------------------------ MODULE MCSupportActions ------------------------------
(* Two sessions, two conversations, two messages and two decisions about one paid     *)
(* order.  The order belongs to one of two customers; the second version of the       *)
(* store's rules no longer allows its cancellation.                                   *)
EXTENDS SupportActions, TLC

CONSTANTS t1, t2, c1, c2, m1, m2, d1, d2, k1, k2, o1, p1, p2

MCOrderCustomer == [o \in {o1} |-> k1]
MCFixtureState == [o \in {o1} |-> "paid"]
MCPermits ==
  {permit \in {<<p1, "cancel", o1>>, <<p1, "address", o1>>, <<p2, "address", o1>>} :
     permit[1] \in Policy}

Symmetry ==
  Permutations({t1, t2}) \cup Permutations({c1, c2})
    \cup Permutations({m1, m2}) \cup Permutations({d1, d2})

====
