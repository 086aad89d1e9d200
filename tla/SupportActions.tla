------------------------------- MODULE SupportActions -------------------------------
(***********************************************************************************)
(* Customer support: cases, proposals, their confirmation and the orders they      *)
(* change (customer_support/actions.py), on top of the turns of SupportTurns.      *)
(*                                                                                 *)
(* A finish transaction may save a case or a proposal with its output; a decision  *)
(* transaction claims a proposal, checks its order again, changes the order or     *)
(* opens a case, and saves a receipt with its output.  Each step here is a step of *)
(* SupportTurns with what it does to these tables.                                 *)
(*                                                                                 *)
(* A message makes at most one proposal, keyed by its run, so a proposal is named  *)
(* by its message.  Reads and the writes that depend on them are separate steps of *)
(* a transaction: transactions of other conversations commit in between.           *)
(***********************************************************************************)
EXTENDS SupportTurns, FiniteSets

CONSTANTS Customer,       \* customers of the store fixture
          Order,          \* orders of the store fixture
          OrderCustomer,  \* [Order -> Customer]
          FixtureState,   \* [Order -> OrderState], the state the fixture gives an order
          Policy,         \* contents of the fixture's policies and rules
          Permits         \* <<policy, kind, order>>: the rules allow that kind of change
                          \* in the order's fulfillment state

VARIABLES
  customer,   \* [Token -> Customer \cup {None}], demo_session.customer_id
  policy,     \* the policies and rules in the fixture file
  order,      \* [Order -> OrderRow]
  proposal,   \* [Message -> Proposal \cup {None}], by the message that saved it
  receipt,    \* [Message -> Receipt \cup {None}], by the proposal it settles
  ticket,     \* [CaseKey -> Nat], ticket number of a saved case, 0 without a case
  job,        \* [Message -> Job \cup {None}], local state of a message's handler
  deal        \* [Decision -> Deal \cup {None}], local state of a decision's handler

turnVars == vars
tables == <<order, proposal, receipt, ticket>>
allVars == <<turnVars, customer, policy, tables, job, deal>>

Ledger == INSTANCE ProposalLedger WITH Offer <- Message, Decider <- Decision

Kind == Ledger!Kind

\* The idempotency keys of cases: of a message's operation, of a blocked proposal.
CaseKey == {"support-operation", "blocked-proposal"} \X Message

\* What run_support approved: nothing, a case, or a change of an order.
Operation ==
  [kind : {"answer", "case"}, order : {None}] \cup [kind : Kind, order : Order]

\* What a finish transaction has decided to save: a case if number is positive, a
\* proposal if offer is there.
Plan == [number : Nat, offer : Ledger!Proposal \cup {None}]

Job == [store : Policy,                       \* the fixture it loaded
        operation : Operation \cup {None},    \* approved_operation of its result
        plan : Plan \cup {None}]

Outcome == {"executed", "rejected", "blocked"}

\* What a decision's recheck found: the order row, the outcome, the case it will open.
Check == [row : Ledger!OrderRow, outcome : Outcome, number : Nat]

Deal == [store : Policy,
         target : Message,                    \* the proposal it names
         choice : {"confirm", "reject"},
         stage : {"answered", "open", "checked", "changed"},
         check : Check \cup {None}]

ASSUME ActionsAssumption ==
  /\ IsFiniteSet(Message)
  /\ OrderCustomer \in [Order -> Customer]
  /\ FixtureState \in [Order -> Ledger!OrderState]
  /\ Permits \subseteq Policy \X Kind \X Order
  /\ None \notin Customer \cup Order
  /\ None \notin Ledger!Proposal
  /\ None \notin Ledger!Receipt
  /\ None \notin Operation
  /\ None \notin Plan
  /\ None \notin Job
  /\ None \notin Check
  /\ None \notin Deal

\* The customer a conversation acts for.
Identity(c) == customer[owner[c]]

\* A faulty owned_order: the row is found by its identifier alone.
OwnedOrderUnchecked(c, o) == order[o].version > 0

\* owned_order: the row exists and belongs to the conversation's customer.
OwnedOrder(c, o) == order[o].version > 0 /\ OrderCustomer[o] = Identity(c)

\* review_order: the flag of one kind of change, by the rules of a loaded fixture.
Eligible(row, o, kind, store) == row.state = "paid" /\ <<store, kind, o>> \in Permits

\* A faulty save_case: it counts the cases of all conversations.
TicketNumberGlobal(c, key) ==
  IF ticket[key] > 0 THEN ticket[key]
  ELSE Cardinality({k \in CaseKey : ticket[k] > 0}) + 1

\* save_case: the case saved under the key before, or the next ticket number of the
\* conversation.
TicketNumber(c, key) ==
  IF ticket[key] > 0 THEN ticket[key]
  ELSE Cardinality({k \in CaseKey : ticket[k] > 0 /\ conv[k[2]] = c}) + 1

\* A handler's local state goes when it is done.
Forget ==
  /\ job' = [m \in Message |-> IF pc'[m] = "done" THEN None ELSE job[m]]
  /\ deal' = [d \in Decision |-> IF pc'[d] = "done" THEN None ELSE deal[d]]

ActionsInit ==
  /\ Init
  /\ customer = [t \in Token |-> None]
  /\ policy \in Policy
  /\ Ledger!Init
  /\ ticket = [k \in CaseKey |-> 0]
  /\ job = [m \in Message |-> None]
  /\ deal = [d \in Decision |-> None]

-----------------------------------------------------------------------------------
(* Sessions, orders and the fixture.                                               *)

\* A faulty seed_orders: ON CONFLICT DO UPDATE.
SeededAgain == [o \in Order |-> [version |-> 1, state |-> FixtureState[o]]]

\* seed_orders: rows that exist already are left alone.
SeededOrders ==
  [o \in Order |-> IF order[o].version = 0
                     THEN [version |-> 1, state |-> FixtureState[o]] ELSE order[o]]

\* sign_in as one of the fixture's customers.
SignInAs(t, k) ==
  /\ SignIn(t)
  /\ customer' = [customer EXCEPT ![t] = k]
  /\ order' = SeededOrders
  /\ UNCHANGED <<policy, proposal, receipt, ticket, job, deal>>

\* The fixture file is replaced; handlers keep the one they have loaded.
ReplaceFixture ==
  /\ policy' \in Policy \ {policy}
  /\ UNCHANGED <<turnVars, customer, tables, job, deal>>

-----------------------------------------------------------------------------------
(* Messages.                                                                       *)

\* The runtime of a message loads the fixture before begin.
ArriveMessage(m, t, c) ==
  /\ Arrive(m, t, c)
  /\ job' = [job EXCEPT ![m] = [store |-> policy, operation |-> None, plan |-> None]]
  /\ UNCHANGED <<customer, policy, tables, deal>>

\* run_support returns; it approves changes of the customer's own orders only.
AgentProposes(m) ==
  /\ AgentReturns(m)
  /\ \E op \in Operation :
       /\ op.kind \in Kind => OwnedOrder(conv[m], op.order)
       /\ job' = [job EXCEPT ![m].operation = op]
  /\ UNCHANGED <<customer, policy, tables, deal>>

\* A faulty save_operation: the proposal is saved whatever the order's state.
PlannedUnchecked(m) ==
  LET op == job[m].operation
      number == TicketNumber(conv[m], <<"support-operation", m>>)
      row == order[op.order]
      case == [number |-> number, offer |-> None]
  IN CASE op.kind = "answer" -> [number |-> 0, offer |-> None]
       [] op.kind = "case" -> case
       [] OTHER ->
            [number |-> 0,
             offer |-> [kind |-> op.kind, order |-> op.order, version |-> row.version,
                        policy |-> job[m].store, state |-> "pending"]]

\* save_operation: a case for a case request, or for a change the order's state does
\* not allow; else a pending proposal on the version that was read.
Planned(m) ==
  LET op == job[m].operation
      number == TicketNumber(conv[m], <<"support-operation", m>>)
      row == order[op.order]
      case == [number |-> number, offer |-> None]
  IN CASE op.kind = "answer" -> [number |-> 0, offer |-> None]
       [] op.kind = "case" -> case
       [] op.kind \in Kind /\ ~Eligible(row, op.order, op.kind, job[m].store) -> case
       [] OTHER ->
            [number |-> 0,
             offer |-> [kind |-> op.kind, order |-> op.order, version |-> row.version,
                        policy |-> job[m].store, state |-> "pending"]]

\* finish, up to its writes: the order and the conversation's cases are read.
PlanFinish(m) ==
  /\ pc[m] = "saving"
  /\ job[m].plan = None
  /\ LET op == job[m].operation IN op.kind \in Kind => OwnedOrder(conv[m], op.order)
  /\ job' = [job EXCEPT ![m].plan = Planned(m)]
  /\ UNCHANGED <<turnVars, customer, policy, tables, deal>>

\* finish commits: case or proposal, output, run status and reservation at once.  A
\* result with a proposal completes the run, and so does the case of an ineligible change.
FinishOperation(m) ==
  /\ FinishResult(m)
  /\ LET plan == job[m].plan IN
       /\ plan # None
       /\ job[m].operation.kind \in Kind => run'[m] = "completed"
       /\ proposal' = IF plan.offer = None THEN proposal
                        ELSE [proposal EXCEPT ![m] = plan.offer]
       /\ ticket' = IF plan.number = 0 THEN ticket
                      ELSE [ticket EXCEPT ![<<"support-operation", m>>] = plan.number]
  /\ Forget
  /\ UNCHANGED <<customer, policy, order, receipt>>

-----------------------------------------------------------------------------------
(* Decisions.                                                                      *)

\* The proposal is there, and in the conversation the request names.
Visible(p, c) == proposal[p] # None /\ conv[p] = c

\* confirm loads its fixture and looks for the proposal and its receipt.
ArriveDecision(d, t, c, p, choice) ==
  /\ Arrive(d, t, c)
  /\ deal' = [deal EXCEPT ![d] =
       [store |-> policy, target |-> p, choice |-> choice,
        stage |-> IF Visible(p, c) /\ receipt[p] = None THEN "open" ELSE "answered",
        check |-> None]]
  /\ UNCHANGED <<customer, policy, tables, job>>

\* No proposal: refused.  A receipt: its saved output is returned, or the decision
\* conflicts with it and is refused.
AnswerSaved(d) ==
  /\ AnswerWithoutRun(d)
  /\ deal[d].stage = "answered"
  /\ Forget
  /\ UNCHANGED <<customer, policy, tables>>

ReserveDeal(d) ==
  /\ ReserveDecision(d)
  /\ deal[d].stage = "open"
  /\ UNCHANGED <<customer, policy, tables, job, deal>>

\* Decision e holds the row lock of proposal p: it has claimed it and not committed.
Claims(e, p) ==
  /\ deal[e] # None
  /\ deal[e].target = p
  /\ deal[e].stage \in {"checked", "changed"}

\* Decision e holds the row lock of order o.
Writes(e, o) ==
  /\ deal[e] # None
  /\ deal[e].stage = "changed"
  /\ proposal[deal[e].target].order = o

\* The claim UPDATE, once no other transaction holds the row, matches a pending row.
Claimable(d) ==
  /\ \A e \in Decision \ {d} : ~Claims(e, deal[d].target)
  /\ proposal[deal[d].target].state = "pending"

\* The order or the policies are not those the proposal was made on.
Stale(d, row) ==
  \/ row.version # proposal[deal[d].target].version
  \/ deal[d].store # proposal[deal[d].target].policy

\* What the recheck makes of a confirmation or a rejection.
OutcomeOf(d, row) ==
  LET offer == proposal[deal[d].target] IN
    IF deal[d].choice = "reject" THEN "rejected"
    ELSE IF Stale(d, row) \/ ~Eligible(row, offer.order, offer.kind, deal[d].store)
           THEN "blocked" ELSE "executed"

\* The claim and the recheck of the order; a blocked confirmation also opens a case.
\* A claim that matches no row, like any error, ends in GiveUp.
Recheck(d) ==
  /\ pc[d] = "deciding"
  /\ deal[d].stage = "open"
  /\ Claimable(d)
  /\ LET p == deal[d].target
         row == order[proposal[p].order]
         outcome == OutcomeOf(d, row)
         number == IF outcome = "blocked"
                     THEN TicketNumber(conv[d], <<"blocked-proposal", p>>) ELSE 0
     IN /\ OwnedOrder(conv[d], proposal[p].order)
        /\ deal' = [deal EXCEPT ![d].stage = "checked",
                                ![d].check = [row |-> row, outcome |-> outcome,
                                              number |-> number]]
  /\ UNCHANGED <<turnVars, customer, policy, tables, job>>

\* A faulty change: no version condition in the WHERE clause.
ChangeableUnconditional(d, o) == \A e \in Decision \ {d} : ~Writes(e, o)

\* The order UPDATE, once no other transaction holds the row, matches the version of
\* the proposal.
Changeable(d, o) ==
  /\ \A e \in Decision \ {d} : ~Writes(e, o)
  /\ order[o].version = proposal[deal[d].target].version

ChangeOrder(d) ==
  /\ pc[d] = "deciding"
  /\ deal[d].stage = "checked"
  /\ deal[d].check.outcome = "executed"
  /\ Changeable(d, proposal[deal[d].target].order)
  /\ deal' = [deal EXCEPT ![d].stage = "changed"]
  /\ UNCHANGED <<turnVars, customer, policy, tables, job>>

\* A faulty change: the version stays.
ReplacedInPlace(row, kind) ==
  [row EXCEPT !.state = IF kind = "cancel" THEN "cancelled" ELSE row.state]

\* The row a change leaves behind, made from the row the recheck read.
Replaced(row, kind) ==
  [version |-> row.version + 1,
   state |-> IF kind = "cancel" THEN "cancelled" ELSE row.state]

\* A faulty confirm: a blocked proposal keeps the state its claim gave it.
SettledKeepsClaim(outcome) == IF outcome = "rejected" THEN "rejected" ELSE "confirmed"

\* The state of a settled proposal: the claim's, except that blocking overwrites it.
Settled(outcome) ==
  CASE outcome = "executed" -> "confirmed"
    [] outcome = "rejected" -> "rejected"
    [] outcome = "blocked" -> "blocked"

\* confirm commits: the order, the proposal, the case, the receipt, the output, the
\* completed run and the released reservation.  Receipts are unique by proposal.
CommitDecision(d) ==
  /\ DecideCommit(d)
  /\ \/ deal[d].stage = "changed"
     \/ deal[d].stage = "checked" /\ deal[d].check.outcome # "executed"
  /\ LET p == deal[d].target
         o == proposal[p].order
         check == deal[d].check
         changed == Replaced(check.row, proposal[p].kind)
         after == IF check.outcome = "executed" THEN changed ELSE check.row
     IN /\ receipt[p] = None
        /\ order' = IF check.outcome = "executed" THEN [order EXCEPT ![o] = after] ELSE order
        /\ proposal' = [proposal EXCEPT ![p].state = Settled(check.outcome)]
        /\ ticket' = IF check.number = 0 THEN ticket
                       ELSE [ticket EXCEPT ![<<"blocked-proposal", p>>] = check.number]
        /\ receipt' = [receipt EXCEPT ![p] =
             [decision |-> deal[d].choice, outcome |-> check.outcome,
              version |-> after.version, run |-> d]]
  /\ Forget
  /\ UNCHANGED <<customer, policy>>

-----------------------------------------------------------------------------------

\* The steps of a turn that leave orders, proposals and cases alone.
TurnStep ==
  \/ \E q \in Request : GiveUp(q) \/ RefuseBusy(q)
  \/ \E q \in Request, t \in Token, c \in Conversation : RefuseUnowned(q, t, c)
  \/ \E m \in Message :
       \/ ReserveMessage(m)
       \/ BeginCommit(m)
       \/ OpenStream(m)
       \/ AgentRaises(m)
       \/ FinishException(m)
       \/ FinishFails(m)
       \/ Abort(m)
  \/ \E m \in Unlucky : LateClient(m) \/ LostAbort(m) \/ Killed(m)
  \/ \E t \in Token, c \in Conversation : CreateConversation(t, c)

ActionsNext ==
  \/ \E t \in Token, k \in Customer : SignInAs(t, k)
  \/ ReplaceFixture
  \/ TurnStep /\ Forget /\ UNCHANGED <<customer, policy, tables>>
  \/ \E m \in Message, t \in Token, c \in Conversation : ArriveMessage(m, t, c)
  \/ \E m \in Message : AgentProposes(m) \/ PlanFinish(m) \/ FinishOperation(m)
  \/ \E d \in Decision, t \in Token, c \in Conversation, p \in Message,
        choice \in {"confirm", "reject"} : ArriveDecision(d, t, c, p, choice)
  \/ \E d \in Decision :
       \/ AnswerSaved(d)
       \/ ReserveDeal(d)
       \/ Recheck(d)
       \/ ChangeOrder(d)
       \/ CommitDecision(d)

ActionsSpec == ActionsInit /\ [][ActionsNext]_allVars

-----------------------------------------------------------------------------------
(* Properties.                                                                     *)

ActionsTypeOK ==
  /\ customer \in [Token -> Customer \cup {None}]
  /\ policy \in Policy
  /\ order \in [Order -> Ledger!OrderRow]
  /\ proposal \in [Message -> Ledger!Proposal \cup {None}]
  /\ receipt \in [Message -> Ledger!Receipt \cup {None}]
  /\ ticket \in [CaseKey -> Nat]
  /\ job \in [Message -> Job \cup {None}]
  /\ deal \in [Decision -> Deal \cup {None}]

\* The proposals on order o that were executed.
ExecutedOn(o) ==
  {p \in Message : /\ receipt[p] # None
                   /\ receipt[p].outcome = "executed"
                   /\ proposal[p].order = o}

\* README: "Stable server-issued operation keys and unique receipts prevent duplicate
\* execution".  confirm changes an order once per executed receipt and loses no change:
\* the versions after the first are exactly those the receipts report, each by one
\* receipt, and an order that was paid is cancelled exactly if its last change was a
\* cancellation.
OrderAccounting ==
  \A o \in Order :
    /\ {receipt[p].version : p \in ExecutedOn(o)} = 2 .. order[o].version
    /\ \A p, q \in ExecutedOn(o) : receipt[p].version = receipt[q].version => p = q
    /\ FixtureState[o] = "paid" =>
         (order[o].state = "cancelled"
            <=> \E p \in ExecutedOn(o) :
                  proposal[p].kind = "cancel" /\ receipt[p].version = order[o].version)

\* confirm settles a proposal and answers for it in one transaction: a proposal has a
\* receipt exactly when it is no longer pending, they agree, and the decision's run has
\* completed with an output in the proposal's conversation, which is what a repeated
\* decision is answered with.
Accounted ==
  \A p \in Message : proposal[p] # None =>
    IF receipt[p] = None THEN proposal[p].state = "pending"
    ELSE /\ <<proposal[p].state, receipt[p].outcome>> \in
              {<<"confirmed", "executed">>, <<"rejected", "rejected">>, <<"blocked", "blocked">>}
         /\ receipt[p].outcome = "rejected" <=> receipt[p].decision = "reject"
         /\ run[receipt[p].run] = "completed"
         /\ \E i \in DOMAIN log[conv[p]] : log[conv[p]][i] = receipt[p].run

\* save_case counts to number a case and has no constraint that makes the number unique:
\* the cases of a conversation, from messages and from blocked decisions, still have the
\* numbers 1, 2, ... without a gap or a duplicate.
TicketsSequential ==
  \A c \in Conversation :
    LET cases == {k \in CaseKey : ticket[k] > 0 /\ conv[k[2]] = c}
    IN {ticket[k] : k \in cases} = 1 .. Cardinality(cases)

\* confirm records "ineligible_order" apart from "stale_state_or_policy", but a pending
\* proposal that is on the order's current version is still eligible under the policies
\* it was made on: a blocked confirmation is always a stale one.
FreshIsEligible ==
  \A p \in Message :
    LET offer == proposal[p] IN
      offer # None /\ offer.state = "pending" /\ offer.version = order[offer.order].version
        => Eligible(order[offer.order], offer.order, offer.kind, offer.policy)

\* Orders change only on behalf of their customer, whoever names them and whichever
\* session proposes and confirms.
Isolation ==
  \A o \in Order : \A p \in ExecutedOn(o) : OrderCustomer[o] = Identity(conv[p])

\* Decisions implement the abstract ledger of offers.
ImplementsLedger == Ledger!Spec

====
