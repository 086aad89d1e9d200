------------------------------- MODULE ProposalLedger -------------------------------
(***********************************************************************************)
(* What customer support promises about order changes: a proposal is an offer made *)
(* on one version of an order, it gets one decision, and an order changes only by  *)
(* executing an undecided proposal that was made on the order's current version.   *)
(* Each decision is one atomic step with its receipt.                              *)
(***********************************************************************************)
EXTENDS Naturals

CONSTANTS Order,        \* order identifiers
          Offer,        \* identifiers of the proposals
          Decider,      \* identifiers of the decision requests
          Policy,       \* versions of the store policy and its rules
          FixtureState, \* [Order -> OrderState], the orders of the store fixture
          None

VARIABLES order,        \* [Order -> OrderRow]
          proposal,     \* [Offer -> Proposal \cup {None}]
          receipt       \* [Offer -> Receipt \cup {None}]

Kind == {"cancel", "address"}

OrderState == {"paid", "cancelled"}

\* Version 0 is an order that is not in the table yet.
OrderRow == [version : Nat, state : OrderState]

Proposal == [kind : Kind, order : Order, version : Nat, policy : Policy,
             state : {"pending", "confirmed", "rejected", "blocked"}]

Receipt == [decision : {"confirm", "reject"}, outcome : {"executed", "rejected", "blocked"},
            version : Nat, run : Decider]

\* The order that executing a proposal leaves behind.
Executed(row, kind) ==
  [version |-> row.version + 1,
   state   |-> IF kind = "cancel" THEN "cancelled" ELSE row.state]

Init ==
  /\ order = [o \in Order |-> [version |-> 0, state |-> FixtureState[o]]]
  /\ proposal = [p \in Offer |-> None]
  /\ receipt = [p \in Offer |-> None]

\* Orders appear; the ones that are there keep what has been done to them.
Seed ==
  /\ order' = [o \in Order |-> IF order[o].version = 0
                                 THEN [order[o] EXCEPT !.version = 1] ELSE order[o]]
  /\ UNCHANGED <<proposal, receipt>>

\* An offer on a version the order has or had.
Propose(p) ==
  /\ proposal[p] = None
  /\ LET offer == proposal'[p] IN
       /\ offer \in Proposal
       /\ offer.state = "pending"
       /\ offer.version \in 1 .. order[offer.order].version
       /\ proposal' = [proposal EXCEPT ![p] = offer]
  /\ UNCHANGED <<order, receipt>>

\* The one decision on an offer, and the receipt that records it.
Settle(p, decision, outcome, state) ==
  /\ proposal[p] # None
  /\ proposal[p].state = "pending"
  /\ receipt[p] = None
  /\ proposal' = [proposal EXCEPT ![p].state = state]
  /\ LET given == receipt'[p] IN
       /\ given \in Receipt
       /\ given.decision = decision
       /\ given.outcome = outcome
       /\ receipt' = [receipt EXCEPT ![p] = given]

\* A confirmed offer on the current version of an order that can still be changed; its
\* receipt names the version it made.
Execute(p) ==
  /\ Settle(p, "confirm", "executed", "confirmed")
  /\ LET o == proposal[p].order IN
       /\ order[o].version = proposal[p].version
       /\ order[o].state = "paid"
       /\ order' = [order EXCEPT ![o] = Executed(@, proposal[p].kind)]
       /\ receipt'[p].version = order'[o].version

\* A decision that leaves all orders alone.
Close(p) ==
  /\ \/ Settle(p, "confirm", "blocked", "blocked")
     \/ Settle(p, "reject", "rejected", "rejected")
  /\ receipt'[p].version \in 1 .. order[proposal[p].order].version
  /\ UNCHANGED order

Next ==
  \/ Seed
  \/ \E p \in Offer : Propose(p) \/ Execute(p) \/ Close(p)

Spec == Init /\ [][Next]_<<order, proposal, receipt>>

====
