----------------------------- MODULE SupportActionsProofs -----------------------------
(***********************************************************************************)
(* Proposals, decisions and orders, for any number of customers, orders, messages, *)
(* decisions and versions of the store's rules: every change of an order is        *)
(* accounted for by one receipt, receipts and proposals agree, and the decisions   *)
(* implement the abstract ledger of offers.                                        *)
(***********************************************************************************)
EXTENDS SupportActions, SupportTurnsProofs, FiniteSetTheorems

\* A conversation's session is signed in, and a handler under way serves a conversation
\* that has one.
SessionInv ==
  /\ \A c \in Conversation : owner[c] # None => owner[c] \in signed
  /\ \A q \in Request : pc[q] \notin {"idle", "done"} => owner[conv[q]] # None

\* An offer made in conversation c: it names a version the order has or had, an order of
\* the conversation's customer and a change its own rules permit; if the order has not
\* changed since, the order is still paid.
Sound(c, offer) ==
  /\ offer.version \in 1 .. order[offer.order].version
  /\ OrderCustomer[offer.order] = Identity(c)
  /\ <<offer.policy, offer.kind, offer.order>> \in Permits
  /\ offer.version = order[offer.order].version => order[offer.order].state = "paid"

\* A message under way has its local state; what it is about to propose is sound.
JobInvOf(m) ==
  /\ job[m] # None <=> pc[m] \notin {"idle", "done"}
  /\ pc[m] = "saving" => job[m].operation # None
  /\ job[m] # None /\ job[m].plan # None /\ job[m].plan.offer # None =>
       Sound(conv[m], job[m].plan.offer) /\ job[m].plan.offer.state = "pending"

JobInv == \A m \in Message : JobInvOf(m)

\* A saved proposal was made by a message that is done, and is sound.
OfferInv ==
  \A p \in Message : proposal[p] # None =>
    /\ pc[p] = "done"
    /\ conv[p] \in Conversation
    /\ owner[conv[p]] # None
    /\ Sound(conv[p], proposal[p])

\* A proposal has a receipt once it is settled.
ReceiptInv == \A p \in Message : receipt[p] # None => proposal[p] # None

\* The order of the proposal that decision d names.
OrderOf(d) == proposal[deal[d].target].order

\* A decision that has claimed its proposal has found it pending; what it read of the
\* order is the order's row unless the order has changed since; a checked confirmation
\* read the version of the proposal, and its own change keeps others from the order.
ClaimInv(d) ==
  /\ pc[d] = "deciding"
  /\ deal[d].check # None
  /\ proposal[deal[d].target].state = "pending"
  /\ LET row == deal[d].check.row
         outcome == deal[d].check.outcome
     IN /\ row.version \in 1 .. order[OrderOf(d)].version
        /\ row.version = order[OrderOf(d)].version => row = order[OrderOf(d)]
        /\ outcome = "rejected" <=> deal[d].choice = "reject"
        /\ outcome = "executed" =>
             row.version = proposal[deal[d].target].version /\ row.state = "paid"
        /\ deal[d].stage = "changed" =>
             outcome = "executed" /\ row.version = order[OrderOf(d)].version

\* A decision under way has its local state, and found its proposal in its conversation
\* unless it is answered without a run.
DealInvOf(d) ==
  /\ deal[d] # None <=> pc[d] \notin {"idle", "done"}
  /\ deal[d] # None /\ deal[d].stage # "answered" =>
       proposal[deal[d].target] # None /\ conv[deal[d].target] = conv[d]
  /\ deal[d] # None /\ deal[d].stage \in {"checked", "changed"} => ClaimInv(d)

DealInv == \A d \in Decision : DealInvOf(d)

\* Row locks: a proposal is claimed, and an order written, by one decision at a time.
RowInv ==
  \A d, e \in Decision : d # e =>
    /\ \A p \in Message : ~(Claims(d, p) /\ Claims(e, p))
    /\ \A o \in Order : ~(Writes(d, o) /\ Writes(e, o))

\* An order that is not in the table yet is as the fixture has it.
UnseededInv ==
  \A o \in Order : order[o].version = 0 => order[o].state = FixtureState[o]

AInv ==
  /\ ActionsTypeOK
  /\ UnseededInv
  /\ SessionInv
  /\ JobInv
  /\ OfferInv
  /\ ReceiptInv
  /\ DealInv
  /\ RowInv
  /\ Accounted
  /\ OrderAccounting

-----------------------------------------------------------------------------------
(* What every step of SupportTurns leaves in place.                                *)

\* Sessions stay signed in, conversations keep their owner, a request keeps its
\* conversation once it has arrived, and the logs grow.
TurnFrame ==
  /\ signed \subseteq signed'
  /\ \A c \in Conversation :
       /\ owner[c] # None => owner'[c] = owner[c]
       /\ owner'[c] # None => owner[c] # None \/ owner'[c] \in signed
       /\ log'[c] = log[c] \/ \E q \in Request : log'[c] = Append(log[c], q)
  /\ \A q \in Request :
       /\ pc[q] # "idle" => conv'[q] = conv[q] /\ pc'[q] # "idle"
       /\ pc[q] = "idle" /\ pc'[q] \notin {"idle", "done"} => owner'[conv'[q]] # None
       /\ pc[q] = "done" => pc'[q] = "done"
       /\ run[q] = "completed" => run'[q] = "completed"

LEMMA TurnFrameStep == IInv /\ Next => TurnFrame
<1> SUFFICES ASSUME IInv, Next PROVE TurnFrame
  OBVIOUS
<1> USE DEF Request, stored, Goto
<1>1. ASSUME NEW t \in Token, SignIn(t) PROVE TurnFrame
  BY <1>1 DEF SignIn, TurnFrame
<1>2. ASSUME NEW t \in Token, NEW c \in Conversation, CreateConversation(t, c)
      PROVE  TurnFrame
  BY <1>2 DEF CreateConversation, TurnFrame, IInv, TypeOK
<1>3. ASSUME NEW q \in Request, NEW t \in Token, NEW c \in Conversation, Arrive(q, t, c)
      PROVE  TurnFrame
  BY <1>3, RequestAssumption DEF Arrive, Owned, TurnFrame, IInv, TypeOK
<1>4. ASSUME NEW q \in Request, NEW phase \in Phase, phase # "idle", pc[q] # "done",
             phase = "done" \/ pc[q] # "idle",
             Goto(q, phase), UNCHANGED <<stored, conv>>
      PROVE  TurnFrame
  BY <1>4 DEF TurnFrame, IInv, TypeOK
<1>5. ASSUME NEW m \in Request, NEW phase \in Phase, phase # "idle", NEW status \in R!Status,
             Goto(m, phase), pc[m] \notin {"idle", "done"}, run[m] # "completed",
             UNCHANGED <<signed, owner, conv>>,
             run' = [run EXCEPT ![m] = status],
             UNCHANGED log \/ log' = [log EXCEPT ![conv[m]] = Append(@, m)]
      PROVE  TurnFrame
  <2>1. \A q \in Request :
          /\ pc[q] # "idle" => conv'[q] = conv[q] /\ pc'[q] # "idle"
          /\ pc[q] = "idle" => pc'[q] = "idle"
          /\ pc[q] = "done" => pc'[q] = "done"
          /\ run[q] = "completed" => run'[q] = "completed"
    BY <1>5 DEF IInv, TypeOK
  <2>2. \A c \in Conversation :
          log'[c] = log[c] \/ \E q \in Request : log'[c] = Append(log[c], q)
    BY <1>5 DEF IInv, TypeOK
  <2>3. QED
    BY <1>5, <2>1, <2>2 DEF TurnFrame
<1>6. ASSUME NEW q \in Request, NEW t \in Token, NEW c \in Conversation,
             GiveUp(q) \/ RefuseUnowned(q, t, c) \/ RefuseBusy(q)
      PROVE  TurnFrame
  BY <1>4, <1>6 DEF GiveUp, RefuseUnowned, RefuseBusy, Phase
<1>7. ASSUME NEW m \in Message, Serve(m) PROVE TurnFrame
  <2>1. CASE RefuseBusy(m)
    BY <1>4, <2>1 DEF RefuseBusy, Phase
  <2>2. CASE ReserveMessage(m)
    BY <1>4, <2>2 DEF ReserveMessage, Reserve, Phase
  <2>3. CASE OpenStream(m) \/ AgentReturns(m) \/ AgentRaises(m) \/ FinishFails(m)
    BY <1>4, <2>3 DEF OpenStream, AgentReturns, AgentRaises, FinishFails, Phase
  <2>4. CASE BeginCommit(m)
    <3>1. run[m] = "none"
      BY <2>4 DEF BeginCommit, IInv, HandlerInv, Fresh
    <3>2. QED
      BY <1>5, <2>4, <3>1 DEF BeginCommit, Phase, R!Status
  <2>5. CASE FinishResult(m) \/ FinishException(m)
    <3>1. PICK status \in {"completed", "failed"} : Finish(m, status)
      BY <2>5 DEF FinishResult, FinishException
    <3>2. run[m] = "running" /\ pc[m] \notin {"idle", "done"}
      BY <2>5 DEF FinishResult, FinishException, IInv, HandlerInv, Held
    <3>3. QED
      BY <1>5, <3>1, <3>2 DEF Finish, Phase, R!Status
  <2>6. CASE Abort(m)
    <3>1. /\ run[m] = "running" /\ active[conv[m]] = m
      BY <2>6 DEF Abort, IInv, HandlerInv, Reservation, Held
    <3>2. QED
      BY <1>5, <2>6, <3>1 DEF Abort, Phase, R!Status
  <2>7. QED
    BY <1>7, <2>1, <2>2, <2>3, <2>4, <2>5, <2>6 DEF Serve
<1>8. ASSUME NEW m \in Message, LateClient(m) \/ LostAbort(m) \/ Killed(m)
      PROVE  TurnFrame
  BY <1>4, <1>8 DEF LateClient, LostAbort, Killed, Phase
<1>9. ASSUME NEW d \in Decision, Decide(d) PROVE TurnFrame
  <2>1. CASE AnswerWithoutRun(d) \/ RefuseBusy(d)
    BY <1>4, <2>1 DEF AnswerWithoutRun, RefuseBusy, Phase
  <2>2. CASE ReserveDecision(d)
    BY <1>4, <2>2 DEF ReserveDecision, Reserve, Phase
  <2>3. CASE DecideCommit(d)
    <3>1. run[d] = "none"
      BY <2>3 DEF DecideCommit, IInv, HandlerInv, Fresh
    <3>2. QED
      BY <1>5, <2>3, <3>1 DEF DecideCommit, Phase, R!Status
  <2>4. QED
    BY <1>9, <2>1, <2>2, <2>3 DEF Decide
<1>10. QED
  <2>1. ASSUME NEW q \in Request, GiveUp(q) PROVE TurnFrame
    BY <1>4, <2>1 DEF GiveUp, Phase
  <2>2. ASSUME NEW q \in Request, NEW t \in Token, NEW c \in Conversation,
               Arrive(q, t, c) \/ RefuseUnowned(q, t, c)
        PROVE  TurnFrame
    BY <1>3, <1>6, <2>2
  <2>3. QED
    BY <1>1, <1>2, <1>7, <1>8, <1>9, <2>1, <2>2, RequestAssumption DEF Next

-----------------------------------------------------------------------------------
(* What every step leaves of customers, orders and offers.                         *)

\* Customers of signed-in sessions stay, an order changes only with its version, and a
\* proposal changes nothing but its state.
Frame ==
  /\ TurnFrame
  /\ \A t \in signed : customer'[t] = customer[t]
  /\ \A o \in Order :
       /\ order'[o].version >= order[o].version
       /\ order'[o].version = order[o].version => order'[o] = order[o]
  /\ \A p \in Message : proposal[p] # None =>
       /\ proposal'[p] # None
       /\ proposal'[p].kind = proposal[p].kind
       /\ proposal'[p].order = proposal[p].order
       /\ proposal'[p].version = proposal[p].version
       /\ proposal'[p].policy = proposal[p].policy

\* Sound(c, offer) in the next state, for a conversation and an offer of this one.
SoundNext(c, offer) ==
  /\ offer.version \in 1 .. order'[offer.order].version
  /\ OrderCustomer[offer.order] = customer'[owner'[c]]
  /\ <<offer.policy, offer.kind, offer.order>> \in Permits
  /\ offer.version = order'[offer.order].version => order'[offer.order].state = "paid"

\* The row of an order after an effect: a row again, one version later.
LEMMA ExecutedRow ==
  ASSUME NEW row \in Ledger!OrderRow, NEW kind
  PROVE  LET after == Ledger!Executed(row, kind) IN
         /\ after \in Ledger!OrderRow /\ after.version \in Nat /\ row.version \in Nat
         /\ after.version = row.version + 1
BY DEF Ledger!Executed, Ledger!OrderRow, Ledger!OrderState

LEMMA OrderTypes ==
  ASSUME ActionsTypeOK, NEW o \in Order
  PROVE  order[o] \in Ledger!OrderRow /\ order[o].version \in Nat
BY DEF ActionsTypeOK, Ledger!OrderRow

LEMMA ProposalTypes ==
  ASSUME ActionsTypeOK, NEW p \in Message, proposal[p] # None
  PROVE  /\ proposal[p] \in Ledger!Proposal
         /\ proposal[p].kind \in Kind
         /\ proposal[p].order \in Order
         /\ proposal[p].version \in Nat
         /\ proposal[p].policy \in Policy
BY DEF ActionsTypeOK, Ledger!Proposal, Kind

LEMMA DealTypes ==
  ASSUME ActionsTypeOK, NEW d \in Decision, deal[d] # None
  PROVE  /\ deal[d] \in Deal
         /\ deal[d].target \in Message
         /\ deal[d].check # None =>
              /\ deal[d].check \in Check
              /\ deal[d].check.row \in Ledger!OrderRow
              /\ deal[d].check.row.version \in Nat
              /\ deal[d].check.outcome \in Outcome
              /\ deal[d].check.number \in Nat
BY DEF ActionsTypeOK, Deal, Check, Ledger!OrderRow

\* A sound offer of an owned conversation stays sound.
LEMMA SoundStep ==
  ASSUME ActionsTypeOK, ActionsTypeOK', SessionInv, Frame,
         NEW c \in Conversation, owner[c] # None,
         NEW offer \in Ledger!Proposal, Sound(c, offer)
  PROVE  SoundNext(c, offer)
<1>1. offer.order \in Order /\ offer.version \in Nat
  BY DEF Ledger!Proposal
<1>2. order[offer.order].version \in Nat /\ order'[offer.order].version \in Nat
  BY <1>1 DEF ActionsTypeOK, Ledger!OrderRow
<1>3. customer'[owner'[c]] = customer[owner[c]]
  BY DEF Frame, TurnFrame, SessionInv
<1>4. QED
  BY <1>1, <1>2, <1>3 DEF Sound, SoundNext, Frame, Identity

\* Sessions stay signed in.
LEMMA SessionStep ==
  ASSUME SessionInv, HandlerInv, TurnFrame
  PROVE  SessionInv'
BY DEF SessionInv, HandlerInv, TurnFrame

\* Saved proposals stay sound; a new one has to be.
LEMMA OfferStep ==
  ASSUME ActionsTypeOK, ActionsTypeOK', SessionInv, OfferInv, Frame,
         \A p \in Message : proposal[p] = None /\ proposal'[p] # None =>
           /\ pc'[p] = "done"
           /\ conv'[p] \in Conversation
           /\ owner'[conv'[p]] # None
           /\ SoundNext(conv'[p], proposal'[p])
  PROVE  OfferInv'
<1> SUFFICES ASSUME NEW p \in Message, proposal'[p] # None
             PROVE  /\ pc'[p] = "done"
                    /\ conv'[p] \in Conversation
                    /\ owner'[conv'[p]] # None
                    /\ SoundNext(conv'[p], proposal'[p])
  BY DEF OfferInv, Sound, SoundNext, Identity
<1>1. CASE proposal[p] # None
  <2>1. /\ pc[p] = "done" /\ conv[p] \in Conversation /\ owner[conv[p]] # None
        /\ Sound(conv[p], proposal[p])
    BY <1>1 DEF OfferInv
  <2>2. p \in Request /\ conv'[p] = conv[p] /\ pc'[p] = "done"
    BY <2>1 DEF Frame, TurnFrame, Request
  <2>3. owner'[conv[p]] # None
    BY <2>1 DEF Frame, TurnFrame
  <2>4. SoundNext(conv[p], proposal[p])
    BY <1>1, <2>1, SoundStep, ProposalTypes
  <2>5. SoundNext(conv[p], proposal'[p])
    BY <1>1, <2>4 DEF SoundNext, Frame
  <2>6. QED
    BY <2>1, <2>2, <2>3, <2>5
<1>2. QED
  BY <1>1

\* Outputs stay where they are.
LEMMA LogGrows ==
  ASSUME TypeOK, TurnFrame, NEW c \in Conversation, NEW i \in DOMAIN log[c]
  PROVE  i \in DOMAIN log'[c] /\ log'[c][i] = log[c][i]
<1>1. CASE log'[c] = log[c]
  BY <1>1
<1>2. ASSUME NEW q \in Request, log'[c] = Append(log[c], q)
      PROVE  i \in DOMAIN log'[c] /\ log'[c][i] = log[c][i]
  BY <1>2, LogSequence, AppendProperties
<1>3. QED
  BY <1>1, <1>2 DEF TurnFrame

\* OrderAccounting of one order, with its set equality taken apart.
OrderAccountingOf(o) ==
  /\ \A p \in ExecutedOn(o) : receipt[p].version \in 2 .. order[o].version
  /\ \A v \in 2 .. order[o].version : \E p \in ExecutedOn(o) : receipt[p].version = v
  /\ \A p, q \in ExecutedOn(o) : receipt[p].version = receipt[q].version => p = q
  /\ FixtureState[o] = "paid" =>
       (order[o].state = "cancelled"
          <=> \E p \in ExecutedOn(o) :
                proposal[p].kind = "cancel" /\ receipt[p].version = order[o].version)

LEMMA AccountingParts ==
  /\ OrderAccounting <=> \A o \in Order : OrderAccountingOf(o)
  /\ OrderAccounting' <=> \A o \in Order : OrderAccountingOf(o)'
<1>1. ASSUME NEW S, NEW T, NEW given
      PROVE  {given[p].version : p \in S} = T
               <=> /\ \A p \in S : given[p].version \in T
                   /\ \A v \in T : \E p \in S : given[p].version = v
  OBVIOUS
<1>2. OrderAccounting <=> \A o \in Order : OrderAccountingOf(o)
  BY <1>1 DEF OrderAccounting, OrderAccountingOf
<1>3. OrderAccounting' <=> \A o \in Order : OrderAccountingOf(o)'
  BY <1>1 DEF OrderAccounting, OrderAccountingOf
<1>4. QED
  BY <1>2, <1>3

\* Nothing is settled: saved proposals and receipts stay, new proposals are pending, and
\* orders are seeded at most.
LEMMA SettledStep ==
  ASSUME TypeOK, ActionsTypeOK, OfferInv, ReceiptInv, Accounted, OrderAccounting, TurnFrame,
         receipt' = receipt,
         \A p \in Message :
           \/ proposal'[p] = proposal[p]
           \/ proposal[p] = None /\ proposal'[p] # None /\ proposal'[p].state = "pending",
         \A o \in Order :
           \/ order'[o] = order[o]
           \/ order[o].version = 0 /\ order'[o] = [version |-> 1, state |-> FixtureState[o]]
  PROVE  ReceiptInv' /\ Accounted' /\ OrderAccounting'
<1>1. ReceiptInv'
  BY DEF ReceiptInv
<1>2. Accounted'
  <2> SUFFICES ASSUME NEW p \in Message, proposal'[p] # None, receipt[p] # None
               PROVE  /\ <<proposal'[p].state, receipt[p].outcome>> \in
                           {<<"confirmed", "executed">>, <<"rejected", "rejected">>,
                            <<"blocked", "blocked">>}
                      /\ receipt[p].outcome = "rejected" <=> receipt[p].decision = "reject"
                      /\ run'[receipt[p].run] = "completed"
                      /\ \E i \in DOMAIN log'[conv'[p]] : log'[conv'[p]][i] = receipt[p].run
    BY DEF Accounted, ReceiptInv
  <2>1. proposal[p] # None /\ proposal'[p] = proposal[p]
    BY DEF ReceiptInv
  <2>2. pc[p] = "done" /\ conv[p] \in Conversation /\ conv'[p] = conv[p]
    BY <2>1 DEF OfferInv, TurnFrame, Request
  <2>3. receipt[p].run \in Decision
    BY DEF ActionsTypeOK, Ledger!Receipt
  <2>4. run[receipt[p].run] = "completed" /\ run'[receipt[p].run] = "completed"
    BY <2>1, <2>3 DEF Accounted, TurnFrame, Request
  <2>5. PICK i \in DOMAIN log[conv[p]] : log[conv[p]][i] = receipt[p].run
    BY <2>1 DEF Accounted
  <2>6. i \in DOMAIN log'[conv[p]] /\ log'[conv[p]][i] = receipt[p].run
    BY <2>2, <2>5, LogGrows
  <2>7. QED
    BY <2>1, <2>2, <2>4, <2>6 DEF Accounted
<1>3. OrderAccounting'
  <2> SUFFICES ASSUME NEW o \in Order
               PROVE  OrderAccountingOf(o)'
    BY AccountingParts DEF OrderAccounting
  <2>1. ExecutedOn(o)' = ExecutedOn(o)
    BY DEF ExecutedOn, ReceiptInv
  <2>2. \A p \in ExecutedOn(o) :
          /\ receipt[p] # None /\ proposal[p] # None /\ proposal'[p] = proposal[p]
          /\ order[o].version >= 1
    <3> SUFFICES ASSUME NEW p \in ExecutedOn(o)
                 PROVE  /\ receipt[p] # None /\ proposal[p] # None
                        /\ proposal'[p] = proposal[p]
                        /\ order[o].version >= 1
      OBVIOUS
    <3>1. p \in Message /\ receipt[p] # None /\ proposal[p] # None /\ proposal[p].order = o
      BY DEF ExecutedOn, ReceiptInv
    <3>2. proposal[p].version \in 1 .. order[o].version
      BY <3>1 DEF OfferInv, Sound
    <3>3. order[o].version \in Nat /\ proposal[p].version \in Nat
      BY <3>1, OrderTypes, ProposalTypes
    <3>4. QED
      BY <3>1, <3>2, <3>3
  <2>3. CASE order'[o] = order[o]
    BY <2>1, <2>2, <2>3, AccountingParts DEF OrderAccountingOf, OrderAccounting
  <2>4. CASE order[o].version = 0 /\ order'[o] = [version |-> 1, state |-> FixtureState[o]]
    <3>1. ExecutedOn(o) = {}
      BY <2>2, <2>4
    <3>2. FixtureState[o] = "paid" => order'[o].state = "paid"
      BY <2>4
    <3>3. order'[o].version = 1
      BY <2>4
    <3>4. QED
      BY <2>1, <3>1, <3>2, <3>3 DEF OrderAccountingOf
  <2>5. QED
    BY <2>3, <2>4
<1>4. QED
  BY <1>1, <1>2, <1>3

-----------------------------------------------------------------------------------
(* The local state of handlers.                                                    *)

LEMMA JobTypes ==
  ASSUME ActionsTypeOK, NEW m \in Message, job[m] # None
  PROVE  /\ job[m] \in Job
         /\ job[m].store \in Policy
         /\ job[m].operation \in Operation \cup {None}
         /\ job[m].plan # None =>
              /\ job[m].plan \in Plan
              /\ job[m].plan.number \in Nat
              /\ job[m].plan.offer # None => job[m].plan.offer \in Ledger!Proposal
BY DEF ActionsTypeOK, Job, Plan

\* What a message is about to propose stays sound while its handler is under way.
LEMMA PlanStep ==
  ASSUME ActionsTypeOK, ActionsTypeOK', SessionInv, JobInv, HandlerInv, Frame,
         NEW m \in Message, job[m] # None, job[m].plan # None, job[m].plan.offer # None
  PROVE  SoundNext(conv'[m], job[m].plan.offer) /\ job[m].plan.offer.state = "pending"
<1>1. m \in Request /\ pc[m] \notin {"idle", "done"}
  BY DEF JobInv, JobInvOf, Request
<1>2. conv[m] \in Conversation /\ conv'[m] = conv[m] /\ owner[conv[m]] # None
  BY <1>1 DEF HandlerInv, SessionInv, Frame, TurnFrame
<1>3. job[m].plan.offer \in Ledger!Proposal
  BY JobTypes
<1>4. Sound(conv[m], job[m].plan.offer) /\ job[m].plan.offer.state = "pending"
  BY DEF JobInv, JobInvOf
<1>5. QED
  BY <1>2, <1>3, <1>4, SoundStep

\* ClaimInv of a decision that goes on as it is.
LEMMA ClaimStep ==
  ASSUME ActionsTypeOK, ActionsTypeOK', DealInv, Frame,
         NEW d \in Decision, deal[d] # None, deal[d].stage \in {"checked", "changed"},
         deal'[d] = deal[d],
         pc'[d] = "deciding",
         proposal'[deal[d].target].state = "pending",
         deal[d].stage = "changed" => order'[OrderOf(d)] = order[OrderOf(d)]
  PROVE  ClaimInv(d)'
<1> DEFINE p == deal[d].target
           o == OrderOf(d)
<1>1. p \in Message /\ proposal[p] # None /\ ClaimInv(d)
  BY DealTypes DEF DealInv, DealInvOf
<1>2. o \in Order /\ OrderOf(d)' = o /\ proposal'[p].version = proposal[p].version
  BY <1>1, ProposalTypes DEF OrderOf, Frame
<1>3. /\ deal[d].check # None
      /\ deal[d].check.row.version \in Nat
      /\ order[o].version \in Nat /\ order'[o].version \in Nat
      /\ order'[o].version >= order[o].version
      /\ order'[o].version = order[o].version => order'[o] = order[o]
  BY <1>1, <1>2, DealTypes DEF ClaimInv, ActionsTypeOK, Ledger!OrderRow, Frame
<1>4. /\ deal[d].check.row.version \in 1 .. order'[o].version
      /\ deal[d].check.row.version = order'[o].version => deal[d].check.row = order'[o]
  BY <1>1, <1>2, <1>3 DEF ClaimInv
<1>5. QED
  BY <1>1, <1>2, <1>3, <1>4 DEF ClaimInv

\* A message that keeps its local state or is done.
LEMMA JobStep ==
  ASSUME ActionsTypeOK, ActionsTypeOK', HandlerInv, SessionInv, JobInv, Frame,
         NEW m \in Message,
         job'[m] = IF pc'[m] = "done" THEN None ELSE job[m],
         pc'[m] \notin {"idle", "done"} => pc[m] \notin {"idle", "done"},
         pc'[m] = "saving" => pc[m] = "saving"
  PROVE  JobInvOf(m)'
<1>1. /\ job'[m] # None <=> pc'[m] \notin {"idle", "done"}
      /\ pc'[m] = "saving" => job'[m].operation # None
      /\ job'[m] # None => job'[m] = job[m]
  BY DEF JobInv, JobInvOf, Frame, TurnFrame, Request
<1>2. ASSUME job'[m] # None, job'[m].plan # None, job'[m].plan.offer # None
      PROVE  SoundNext(conv'[m], job'[m].plan.offer) /\ job'[m].plan.offer.state = "pending"
  BY <1>1, <1>2, PlanStep
<1>3. QED
  BY <1>1, <1>2 DEF JobInvOf, Sound, SoundNext, Identity

\* A decision that keeps its local state or is done.
LEMMA DealStep ==
  ASSUME ActionsTypeOK, ActionsTypeOK', OfferInv, DealInv, Frame,
         NEW d \in Decision,
         deal'[d] = IF pc'[d] = "done" THEN None ELSE deal[d],
         pc'[d] \notin {"idle", "done"} => pc[d] \notin {"idle", "done"},
         pc[d] = "deciding" => pc'[d] \in {"deciding", "done"},
         deal[d] # None /\ pc'[d] # "done" /\ deal[d].stage \in {"checked", "changed"} =>
           /\ proposal'[deal[d].target].state = "pending"
           /\ deal[d].stage = "changed" => order'[OrderOf(d)] = order[OrderOf(d)]
  PROVE  DealInvOf(d)'
<1> USE DEF Request
<1>1. deal'[d] # None <=> pc'[d] \notin {"idle", "done"}
  BY DEF DealInv, DealInvOf, Frame, TurnFrame
<1>2. deal'[d] # None => deal'[d] = deal[d] /\ pc'[d] # "done"
  OBVIOUS
<1>3. ASSUME deal'[d] # None, deal'[d].stage # "answered"
      PROVE  proposal'[deal'[d].target] # None /\ conv'[deal'[d].target] = conv'[d]
  <2>1. /\ deal[d].target \in Message /\ proposal[deal[d].target] # None
        /\ conv[deal[d].target] = conv[d]
    BY <1>2, <1>3, DealTypes DEF DealInv, DealInvOf
  <2>2. conv'[d] = conv[d]
    BY <1>1, <1>3 DEF Frame, TurnFrame
  <2>3. pc[deal[d].target] # "idle"
    BY <2>1 DEF OfferInv
  <2>4. QED
    BY <1>2, <1>3, <2>1, <2>2, <2>3 DEF Frame, TurnFrame
<1>4. ASSUME deal'[d] # None, deal'[d].stage \in {"checked", "changed"}
      PROVE  ClaimInv(d)'
  <2>1. pc'[d] = "deciding"
    BY <1>1, <1>2, <1>4 DEF DealInv, DealInvOf, ClaimInv
  <2>2. QED
    BY <1>2, <1>4, <2>1, ClaimStep
<1>5. QED
  BY <1>1, <1>3, <1>4 DEF DealInvOf

\* A step in which no decision takes a row lock.
LEMMA RowStep ==
  ASSUME ActionsTypeOK, DealInv, RowInv, Frame,
         \A d \in Decision : deal'[d] # None =>
           deal'[d] = deal[d] \/ deal'[d].stage \in {"answered", "open"}
  PROVE  RowInv'
<1>1. \A d \in Decision : \A p \in Message : Claims(d, p)' => Claims(d, p)
  BY DEF Claims
<1>2. \A d \in Decision : \A o \in Order : Writes(d, o)' => Writes(d, o)
  BY DealTypes DEF Writes, DealInv, DealInvOf, Frame
<1>3. QED
  BY <1>1, <1>2 DEF RowInv

-----------------------------------------------------------------------------------
(* Steps that leave customers, orders, proposals, tickets and receipts alone.      *)

\* The committed part of AInv and what the local parts need.
LEMMA TablesStep ==
  ASSUME IInv, AInv, ActionsTypeOK', TurnFrame, UNCHANGED <<customer, tables>>
  PROVE  /\ Frame /\ SessionInv' /\ OfferInv' /\ ReceiptInv' /\ Accounted'
         /\ OrderAccounting' /\ UnseededInv'
         /\ HandlerInv
<1> USE DEF AInv, tables
<1>1. HandlerInv /\ TypeOK
  BY DEF IInv
<1>2. Frame
  BY OrderTypes DEF Frame
<1>3. SessionInv'
  BY <1>1, SessionStep
<1>4. OfferInv'
  BY <1>2, OfferStep
<1>5. ReceiptInv' /\ Accounted' /\ OrderAccounting'
  BY <1>1, SettledStep
<1>6. UnseededInv'
  BY DEF UnseededInv
<1>7. QED
  BY <1>1, <1>2, <1>3, <1>4, <1>5, <1>6

\* A request only stops, waits or goes on inside its turn.
LEMMA QuietStep ==
  ASSUME IInv, AInv, TurnFrame, UNCHANGED <<customer, tables>>, policy' \in Policy,
         job' = [m \in Message |-> IF pc'[m] = "done" THEN None ELSE job[m]],
         deal' = [d \in Decision |-> IF pc'[d] = "done" THEN None ELSE deal[d]],
         \A q \in Request :
           /\ pc'[q] \notin {"idle", "done"} => pc[q] \notin {"idle", "done"}
           /\ pc'[q] = "saving" => pc[q] = "saving"
           /\ q \in Decision /\ pc[q] = "deciding" => pc'[q] \in {"deciding", "done"}
  PROVE  AInv'
<1>1. ActionsTypeOK'
  BY DEF AInv, ActionsTypeOK, tables
<1>2. /\ Frame /\ SessionInv' /\ OfferInv' /\ ReceiptInv' /\ Accounted'
      /\ OrderAccounting' /\ UnseededInv' /\ HandlerInv
  BY <1>1, TablesStep
<1>3. JobInv'
  BY <1>1, <1>2, JobStep DEF AInv, JobInv, Request
<1>4. DealInv'
  BY <1>1, <1>2, DealStep DEF AInv, DealInv, DealInvOf, ClaimInv, tables, Request
<1>5. RowInv'
  BY <1>2, RowStep DEF AInv
<1>6. QED
  BY <1>1, <1>2, <1>3, <1>4, <1>5 DEF AInv

LEMMA TurnStepPhases ==
  ASSUME IInv, TurnStep
  PROVE  \A q \in Request :
           /\ pc'[q] \notin {"idle", "done"} => pc[q] \notin {"idle", "done"}
           /\ pc'[q] = "saving" => pc[q] = "saving"
           /\ q \in Decision /\ pc[q] = "deciding" => pc'[q] \in {"deciding", "done"}
<1> USE DEF IInv, TypeOK, Goto, Request
<1>1. ASSUME NEW q \in Request, GiveUp(q) \/ RefuseBusy(q)
      PROVE  pc' = [pc EXCEPT ![q] = "done"]
  BY <1>1 DEF GiveUp, RefuseBusy
<1>2. ASSUME NEW q \in Request, NEW t \in Token, NEW c \in Conversation,
             RefuseUnowned(q, t, c)
      PROVE  pc' = [pc EXCEPT ![q] = "done"]
  BY <1>2 DEF RefuseUnowned
<1>3. ASSUME NEW m \in Message,
             \/ ReserveMessage(m) \/ BeginCommit(m) \/ OpenStream(m) \/ AgentRaises(m)
             \/ FinishException(m) \/ FinishFails(m) \/ Abort(m)
             \/ LateClient(m) \/ LostAbort(m) \/ Killed(m)
      PROVE  /\ m \notin Decision
             /\ pc[m] \notin {"idle", "done"}
             /\ \E phase \in {"reserving", "opening", "working", "failing", "aborting", "done"} :
                  pc' = [pc EXCEPT ![m] = phase]
  BY <1>3, RequestAssumption
  DEF ReserveMessage, Reserve, BeginCommit, OpenStream, AgentRaises, FinishException,
      Finish, FinishFails, Abort, LateClient, LostAbort, Killed
<1>4. ASSUME NEW t \in Token, NEW c \in Conversation, CreateConversation(t, c)
      PROVE  pc' = pc
  BY <1>4 DEF CreateConversation
<1> DEFINE Kept(q) ==
      /\ pc'[q] \notin {"idle", "done"} => pc[q] \notin {"idle", "done"}
      /\ pc'[q] = "saving" => pc[q] = "saving"
      /\ q \in Decision /\ pc[q] = "deciding" => pc'[q] \in {"deciding", "done"}
<1>5. ASSUME NEW q \in Request, pc' = [pc EXCEPT ![q] = "done"]
      PROVE  \A r \in Request : Kept(r)
  BY <1>5
<1>6. ASSUME NEW m \in Message, m \notin Decision, pc[m] \notin {"idle", "done"},
             NEW phase \in {"reserving", "opening", "working", "failing", "aborting", "done"},
             pc' = [pc EXCEPT ![m] = phase]
      PROVE  \A r \in Request : Kept(r)
  BY <1>6
<1>7. ASSUME pc' = pc PROVE \A r \in Request : Kept(r)
  BY <1>7
<1> HIDE DEF Kept
<1>8. \A r \in Request : Kept(r)
  <2>1. ASSUME NEW q \in Request, GiveUp(q) \/ RefuseBusy(q)
        PROVE  \A r \in Request : Kept(r)
    BY <1>1, <1>5, <2>1
  <2>2. ASSUME NEW q \in Request, NEW t \in Token, NEW c \in Conversation,
               RefuseUnowned(q, t, c)
        PROVE  \A r \in Request : Kept(r)
    BY <1>2, <1>5, <2>2
  <2>3. ASSUME NEW m \in Message,
               \/ ReserveMessage(m) \/ BeginCommit(m) \/ OpenStream(m) \/ AgentRaises(m)
               \/ FinishException(m) \/ FinishFails(m) \/ Abort(m)
               \/ LateClient(m) \/ LostAbort(m) \/ Killed(m)
        PROVE  \A r \in Request : Kept(r)
    BY <1>3, <1>6, <2>3
  <2>4. ASSUME NEW t \in Token, NEW c \in Conversation, CreateConversation(t, c)
        PROVE  \A r \in Request : Kept(r)
    BY <1>4, <1>7, <2>4
  <2>5. Unlucky \subseteq Message
    BY RequestAssumption
  <2>6. QED
    BY <2>1, <2>2, <2>3, <2>4, <2>5 DEF TurnStep
<1>9. QED
  BY <1>8 DEF Kept

\* The messages, or the decisions, stand by.
LEMMA JobsAside ==
  ASSUME IInv, AInv, ActionsTypeOK', TurnFrame, UNCHANGED <<customer, tables, job>>,
         \A m \in Message : pc'[m] = pc[m]
  PROVE  JobInv'
<1>1. Frame /\ HandlerInv
  BY TablesStep
<1>2. QED
  BY <1>1, JobStep DEF AInv, JobInv, JobInvOf

LEMMA DealsAside ==
  ASSUME IInv, AInv, ActionsTypeOK', TurnFrame, UNCHANGED <<customer, tables, deal>>,
         \A d \in Decision : pc'[d] = pc[d]
  PROVE  DealInv' /\ RowInv'
<1>1. Frame
  BY TablesStep
<1>2. DealInv'
  BY <1>1, DealStep DEF AInv, DealInv, DealInvOf, ClaimInv, tables
<1>3. RowInv'
  BY <1>1, RowStep DEF AInv
<1>4. QED
  BY <1>2, <1>3

LEMMA ArriveMessageStep ==
  ASSUME IInv, AInv, TurnFrame, NEW m \in Message, NEW t \in Token, NEW c \in Conversation,
         ArriveMessage(m, t, c)
  PROVE  AInv'
<1> USE DEF ArriveMessage
<1> DEFINE new == [store |-> policy, operation |-> None, plan |-> None]
<1>1. new \in Job /\ new # None
  BY ActionsAssumption DEF AInv, ActionsTypeOK, Job
<1>2. ActionsTypeOK'
  BY <1>1 DEF AInv, ActionsTypeOK, tables
<1>3. \A q \in Request : pc'[q] = IF q = m THEN "beginning" ELSE pc[q]
  BY DEF Arrive, Goto, IInv, TypeOK
<1>4. \A n \in Message : job'[n] = IF n = m THEN new ELSE job[n]
  BY DEF AInv, ActionsTypeOK
<1>5. DealInv' /\ RowInv'
  BY <1>2, <1>3, RequestAssumption, DealsAside DEF Request
<1>6. /\ Frame /\ SessionInv' /\ OfferInv' /\ ReceiptInv' /\ Accounted'
      /\ OrderAccounting' /\ UnseededInv' /\ HandlerInv
  BY <1>2, TablesStep
<1>7. JobInv'
  <2>1. JobInvOf(m)'
    BY <1>1, <1>3, <1>4 DEF JobInvOf, Request
  <2>2. ASSUME NEW n \in Message, n # m PROVE JobInvOf(n)'
    BY <1>2, <1>3, <1>4, <1>6, <2>2, JobStep DEF AInv, JobInv, JobInvOf, Request
  <2>3. QED
    BY <2>1, <2>2 DEF JobInv
<1>8. QED
  BY <1>2, <1>5, <1>6, <1>7 DEF AInv

LEMMA AgentProposesStep ==
  ASSUME IInv, AInv, TurnFrame, NEW m \in Message, AgentProposes(m)
  PROVE  AInv'
<1> USE DEF AgentProposes
<1>1. PICK op \in Operation : job' = [job EXCEPT ![m].operation = op]
  OBVIOUS
<1>2. /\ pc[m] = "working" /\ m \in Request
      /\ \A q \in Request : pc'[q] = IF q = m THEN "saving" ELSE pc[q]
  BY DEF AgentReturns, Goto, IInv, TypeOK, Request
<1>3. job[m] # None /\ job[m] \in Job
  BY <1>2, JobTypes DEF AInv, JobInv, JobInvOf
<1>4. /\ job'[m] \in Job /\ job'[m] # None
      /\ job'[m].operation = op /\ op # None
      /\ job'[m].plan = job[m].plan
      /\ \A n \in Message : n # m => job'[n] = job[n]
  BY <1>1, <1>3, ActionsAssumption DEF AInv, ActionsTypeOK, Job
<1>5. ActionsTypeOK'
  BY <1>1, <1>4 DEF AInv, ActionsTypeOK, tables
<1>6. DealInv' /\ RowInv'
  BY <1>2, <1>5, RequestAssumption, DealsAside DEF Request
<1>7. /\ Frame /\ SessionInv' /\ OfferInv' /\ ReceiptInv' /\ Accounted'
      /\ OrderAccounting' /\ UnseededInv' /\ HandlerInv
  BY <1>5, TablesStep
<1>8. JobInv'
  <2>1. JobInvOf(m)'
    <3>1. ASSUME job'[m].plan # None, job'[m].plan.offer # None
          PROVE  /\ SoundNext(conv'[m], job'[m].plan.offer)
                 /\ job'[m].plan.offer.state = "pending"
      BY <1>3, <1>4, <1>5, <1>7, <3>1, PlanStep DEF AInv
    <3>2. QED
      BY <1>2, <1>4, <3>1 DEF JobInvOf, Sound, SoundNext, Identity
  <2>2. ASSUME NEW n \in Message, n # m PROVE JobInvOf(n)'
    BY <1>2, <1>4, <1>5, <1>7, <2>2, JobStep DEF AInv, JobInv, JobInvOf, Request
  <2>3. QED
    BY <2>1, <2>2 DEF JobInv
<1>9. QED
  BY <1>5, <1>6, <1>7, <1>8 DEF AInv

\* Ticket numbers are natural numbers.
LEMMA TicketNumberType ==
  ASSUME ActionsTypeOK, NEW c \in Conversation, NEW key \in CaseKey
  PROVE  TicketNumber(c, key) \in Nat
<1>1. IsFiniteSet({"support-operation", "blocked-proposal"})
  <2>1. {"support-operation", "blocked-proposal"}
          = {"support-operation"} \cup {"blocked-proposal"}
    OBVIOUS
  <2>2. IsFiniteSet({"support-operation"}) /\ IsFiniteSet({"blocked-proposal"})
    BY FS_Singleton
  <2>3. QED
    BY <2>1, <2>2, FS_Union
<1>2. IsFiniteSet(CaseKey)
  BY <1>1, ActionsAssumption, FS_Product DEF CaseKey
<1>3. Cardinality({k \in CaseKey : ticket[k] > 0 /\ conv[k[2]] = c}) \in Nat
  BY <1>2, FS_Subset, FS_CardinalityType
<1>4. QED
  BY <1>3 DEF TicketNumber, ActionsTypeOK

\* What finish plans to save is well formed, and a proposal it plans is sound.
LEMMA PlannedSound ==
  ASSUME ActionsTypeOK, NEW m \in Message, conv[m] \in Conversation,
         job[m] # None, job[m].operation # None,
         job[m].operation.kind \in Kind => OwnedOrder(conv[m], job[m].operation.order)
  PROVE  /\ Planned(m) \in Plan
         /\ Planned(m).offer # None =>
              Sound(conv[m], Planned(m).offer) /\ Planned(m).offer.state = "pending"
<1> DEFINE op == job[m].operation
           key == <<"support-operation", m>>
           number == TicketNumber(conv[m], key)
           row == order[op.order]
           offer == [kind |-> op.kind, order |-> op.order, version |-> row.version,
                     policy |-> job[m].store, state |-> "pending"]
<1>1. number \in Nat
  BY TicketNumberType DEF CaseKey
<1>2. op \in Operation /\ job[m].store \in Policy
  BY JobTypes
<1>3. CASE op.kind = "answer"
  <2>1. Planned(m) = [number |-> 0, offer |-> None]
    BY <1>3 DEF Planned, Kind, Ledger!Kind
  <2>2. QED
    BY <2>1 DEF Plan
<1>4. CASE \/ op.kind = "case"
           \/ /\ op.kind \in Kind
              /\ ~Eligible(row, op.order, op.kind, job[m].store)
  <2>1. Planned(m) = [number |-> number, offer |-> None]
    BY <1>4 DEF Planned, Kind, Ledger!Kind
  <2>2. QED
    BY <1>1, <2>1 DEF Plan
<1>5. CASE op.kind \in Kind /\ Eligible(row, op.order, op.kind, job[m].store)
  <2>1. Planned(m) = [number |-> 0, offer |-> offer]
    BY <1>5 DEF Planned, Kind, Ledger!Kind
  <2>2. op.order \in Order /\ op.kind \in Kind
    BY <1>2, <1>5 DEF Operation, Kind, Ledger!Kind
  <2>3. row.version \in Nat /\ row.version > 0 /\ OrderCustomer[op.order] = Identity(conv[m])
    BY <1>5, <2>2, OrderTypes DEF OwnedOrder
  <2>4. offer \in Ledger!Proposal
    BY <1>2, <2>2, <2>3 DEF Ledger!Proposal, Kind
  <2>5. Sound(conv[m], offer)
    BY <1>5, <2>2, <2>3 DEF Sound, Eligible
  <2>6. QED
    BY <2>1, <2>4, <2>5 DEF Plan
<1>6. op.kind = "answer" \/ op.kind = "case" \/ op.kind \in Kind
  BY <1>2 DEF Operation
<1>7. QED
  BY <1>3, <1>4, <1>5, <1>6

LEMMA PlanFinishStep ==
  ASSUME IInv, AInv, TurnFrame, NEW m \in Message, PlanFinish(m)
  PROVE  AInv'
<1> USE DEF PlanFinish
<1>1. m \in Request /\ conv[m] \in Conversation
  BY DEF IInv, HandlerInv, Request
<1>2. job[m] # None /\ job[m] \in Job /\ job[m].operation # None
  BY JobTypes DEF AInv, JobInv, JobInvOf
<1>3. /\ Planned(m) \in Plan
      /\ Planned(m).offer # None =>
           Sound(conv[m], Planned(m).offer) /\ Planned(m).offer.state = "pending"
  BY <1>1, <1>2, PlannedSound DEF AInv
<1>4. /\ job'[m] \in Job /\ job'[m] # None
      /\ job'[m].operation = job[m].operation
      /\ job'[m].plan = Planned(m)
      /\ \A n \in Message : n # m => job'[n] = job[n]
  BY <1>2, <1>3, ActionsAssumption DEF AInv, ActionsTypeOK, Job
<1>5. ActionsTypeOK'
  BY <1>4 DEF AInv, ActionsTypeOK, tables
<1>6. pc' = pc /\ conv' = conv /\ owner' = owner
  BY DEF turnVars, vars, stored
<1>7. DealInv' /\ RowInv'
  BY <1>5, <1>6, DealsAside
<1>8. /\ Frame /\ SessionInv' /\ OfferInv' /\ ReceiptInv' /\ Accounted'
      /\ OrderAccounting' /\ UnseededInv' /\ HandlerInv
  BY <1>5, TablesStep
<1>9. JobInv'
  <2>1. JobInvOf(m)'
    BY <1>2, <1>3, <1>4, <1>6 DEF AInv, JobInv, JobInvOf, Sound, Identity, tables
  <2>2. ASSUME NEW n \in Message, n # m PROVE JobInvOf(n)'
    BY <1>4, <1>5, <1>6, <1>8, <2>2, JobStep DEF AInv, JobInv, JobInvOf
  <2>3. QED
    BY <2>1, <2>2 DEF JobInv
<1>10. QED
  BY <1>5, <1>7, <1>8, <1>9 DEF AInv

\* Handlers that keep their local state keep it in the form of Forget.
LEMMA KeptLocals ==
  ASSUME AInv, UNCHANGED <<job, deal>>,
         \A q \in Request : pc[q] # "done" => pc'[q] # "done"
  PROVE  /\ job' = [m \in Message |-> IF pc'[m] = "done" THEN None ELSE job[m]]
         /\ deal' = [d \in Decision |-> IF pc'[d] = "done" THEN None ELSE deal[d]]
BY DEF AInv, ActionsTypeOK, JobInv, JobInvOf, DealInv, DealInvOf, Request

LEMMA ReserveDealStep ==
  ASSUME IInv, AInv, TurnFrame, NEW d \in Decision, ReserveDeal(d)
  PROVE  AInv'
<1>1. /\ pc[d] = "beginning" /\ d \in Request
      /\ \A q \in Request : pc'[q] = IF q = d THEN "deciding" ELSE pc[q]
  BY DEF ReserveDeal, ReserveDecision, Reserve, Goto, IInv, TypeOK, Request
<1>2. UNCHANGED <<customer, policy, tables, job, deal>> /\ policy' \in Policy
  BY DEF ReserveDeal, AInv, ActionsTypeOK
<1>3. QED
  BY <1>1, <1>2, KeptLocals, QuietStep

LEMMA ReplaceFixtureStep ==
  ASSUME IInv, AInv, TurnFrame, ReplaceFixture
  PROVE  AInv'
<1>1. UNCHANGED <<pc, customer, tables, job, deal>> /\ policy' \in Policy
  BY DEF ReplaceFixture, turnVars, vars
<1>2. QED
  BY <1>1, KeptLocals, QuietStep

LEMMA ArriveDecisionStep ==
  ASSUME IInv, AInv, TurnFrame, NEW d \in Decision, NEW t \in Token,
         NEW c \in Conversation, NEW p \in Message, NEW choice \in {"confirm", "reject"},
         ArriveDecision(d, t, c, p, choice)
  PROVE  AInv'
<1> USE DEF ArriveDecision
<1> DEFINE new ==
      [store |-> policy, target |-> p, choice |-> choice,
       stage |-> IF Visible(p, c) /\ receipt[p] = None THEN "open" ELSE "answered",
       check |-> None]
<1>1. new \in Deal /\ new # None
  BY ActionsAssumption DEF AInv, ActionsTypeOK, Deal
<1>2. ActionsTypeOK'
  BY <1>1 DEF AInv, ActionsTypeOK, tables
<1>3. /\ d \in Request
      /\ \A q \in Request : pc'[q] = IF q = d THEN "beginning" ELSE pc[q]
      /\ \A q \in Request : conv'[q] = IF q = d THEN c ELSE conv[q]
  BY DEF Arrive, Goto, IInv, TypeOK, Request
<1>4. \A e \in Decision : deal'[e] = IF e = d THEN new ELSE deal[e]
  BY DEF AInv, ActionsTypeOK
<1>5. JobInv'
  BY <1>2, <1>3, RequestAssumption, JobsAside DEF Request
<1>6. /\ Frame /\ SessionInv' /\ OfferInv' /\ ReceiptInv' /\ Accounted'
      /\ OrderAccounting' /\ UnseededInv' /\ HandlerInv
  BY <1>2, TablesStep
<1>7. DealInv'
  <2>1. DealInvOf(d)'
    <3>1. new.stage # "answered" => proposal'[p] # None /\ conv'[p] = c
      BY <1>3 DEF Visible, tables, Request
    <3>2. new.stage \notin {"checked", "changed"}
      OBVIOUS
    <3>3. QED
      BY <1>1, <1>3, <1>4, <3>1, <3>2 DEF DealInvOf
  <2>2. ASSUME NEW e \in Decision, e # d PROVE DealInvOf(e)'
    <3>1. deal'[e] = deal[e] /\ pc'[e] = pc[e]
      BY <1>3, <1>4, <2>2 DEF Request
    <3>2. UNCHANGED <<order, proposal>>
      BY DEF tables
    <3>3. DealInvOf(e)
      BY DEF AInv, DealInv
    <3>4. deal[e] # None => pc[e] \notin {"idle", "done"}
      BY <3>3 DEF DealInvOf
    <3>5. deal[e] # None /\ deal[e].stage \in {"checked", "changed"} =>
            proposal[deal[e].target].state = "pending"
      BY <3>3 DEF DealInvOf, ClaimInv
    <3>6. OrderOf(e)' = OrderOf(e)
      BY <3>1, <3>2 DEF OrderOf
    <3>7. deal'[e] = IF pc'[e] = "done" THEN None ELSE deal[e]
      BY <3>1, <3>4
    <3>8. deal[e] # None /\ pc'[e] # "done" /\ deal[e].stage \in {"checked", "changed"} =>
            /\ proposal'[deal[e].target].state = "pending"
            /\ deal[e].stage = "changed" => order'[OrderOf(e)] = order[OrderOf(e)]
      BY <3>2, <3>5
    <3>9. QED
      BY <1>2, <1>6, <3>1, <3>7, <3>8, DealStep DEF AInv
  <2>3. QED
    BY <2>1, <2>2 DEF DealInv
<1>8. RowInv'
  BY <1>4, <1>6, RowStep DEF AInv
<1>9. QED
  BY <1>2, <1>5, <1>6, <1>7, <1>8 DEF AInv

\* What a recheck finds.
LEMMA OutcomeFacts ==
  ASSUME ActionsTypeOK, NEW d \in Decision, deal[d] # None,
         proposal[deal[d].target] # None, NEW row
  PROVE  /\ OutcomeOf(d, row) \in Outcome
         /\ OutcomeOf(d, row) = "rejected" <=> deal[d].choice = "reject"
         /\ OutcomeOf(d, row) = "executed" =>
              row.version = proposal[deal[d].target].version /\ row.state = "paid"
BY DEF OutcomeOf, Outcome, Stale, Eligible

LEMMA RecheckStep ==
  ASSUME IInv, AInv, TurnFrame, NEW d \in Decision, Recheck(d)
  PROVE  AInv'
<1> DEFINE p == deal[d].target
           o == proposal[p].order
           row == order[o]
           outcome == OutcomeOf(d, row)
           number == IF outcome = "blocked"
                       THEN TicketNumber(conv[d], <<"blocked-proposal", p>>) ELSE 0
           check == [row |-> row, outcome |-> outcome, number |-> number]
<1>1. /\ pc[d] = "deciding" /\ deal[d].stage = "open"
      /\ Claimable(d)
      /\ OwnedOrder(conv[d], o)
      /\ deal' = [deal EXCEPT ![d].stage = "checked", ![d].check = check]
      /\ UNCHANGED <<turnVars, customer, policy, tables, job>>
  BY DEF Recheck
<1>2. d \in Request /\ conv[d] \in Conversation /\ deal[d] # None
  BY <1>1 DEF IInv, HandlerInv, AInv, DealInv, DealInvOf, Request
<1>3. /\ p \in Message /\ proposal[p] # None /\ o \in Order
      /\ row \in Ledger!OrderRow /\ row.version \in Nat /\ row.version > 0
      /\ proposal[p].state = "pending"
      /\ deal[d] \in Deal
  BY <1>1, <1>2, DealTypes, ProposalTypes, OrderTypes
  DEF AInv, DealInv, DealInvOf, OwnedOrder, Claimable
<1>4. check \in Check /\ check # None /\ check.row = row /\ check.outcome = outcome
  <2>1. number \in Nat
    BY <1>2, <1>3, TicketNumberType DEF AInv, CaseKey
  <2>2. outcome \in Outcome
    BY <1>2, <1>3, OutcomeFacts DEF AInv
  <2>3. QED
    BY <1>3, <2>1, <2>2, ActionsAssumption DEF Check
<1>5. /\ outcome = "rejected" <=> deal[d].choice = "reject"
      /\ outcome = "executed" => row.version = proposal[p].version /\ row.state = "paid"
  BY <1>2, <1>3, OutcomeFacts DEF AInv
<1>6. UNCHANGED <<pc, conv, proposal, order>>
  BY <1>1 DEF turnVars, vars, tables
<1> HIDE DEF check, number, outcome
<1>7. /\ deal'[d] = [deal[d] EXCEPT !.stage = "checked", !.check = check]
      /\ \A e \in Decision : e # d => deal'[e] = deal[e]
  BY <1>1 DEF AInv, ActionsTypeOK
<1>8. /\ deal'[d] \in Deal /\ deal'[d] # None
      /\ deal'[d].stage = "checked" /\ deal'[d].check = check
      /\ deal'[d].target = p /\ deal'[d].choice = deal[d].choice
  <2>1. /\ deal[d].store \in Policy /\ deal[d].target \in Message
        /\ deal[d].choice \in {"confirm", "reject"}
    BY <1>3 DEF Deal
  <2>2. deal'[d] = [store |-> deal[d].store, target |-> deal[d].target,
                    choice |-> deal[d].choice, stage |-> "checked", check |-> check]
    BY <1>3, <1>7 DEF Deal
  <2> HIDE DEF row, o, p
  <2>3. deal'[d] \in Deal /\ deal'[d].stage = "checked" /\ deal'[d].check = check
    BY <1>4, <2>1, <2>2 DEF Deal
  <2>4. deal'[d].target = deal[d].target /\ deal'[d].choice = deal[d].choice
    BY <2>2
  <2>5. QED
    BY <2>3, <2>4, ActionsAssumption DEF p
<1>9. ActionsTypeOK'
  <2>1. deal' \in [Decision -> Deal \cup {None}]
    BY <1>1, <1>7, <1>8 DEF AInv, ActionsTypeOK
  <2>2. QED
    BY <1>1, <2>1 DEF AInv, ActionsTypeOK, tables
<1>10. JobInv'
  BY <1>1, <1>6, <1>9, JobsAside
<1>11. /\ Frame /\ SessionInv' /\ OfferInv' /\ ReceiptInv' /\ Accounted'
       /\ OrderAccounting' /\ UnseededInv' /\ HandlerInv
  BY <1>1, <1>9, TablesStep
<1>12. DealInv'
  <2>1. ClaimInv(d)'
    <3>1. OrderOf(d)' = o
      BY <1>6, <1>8 DEF OrderOf
    <3>2. row = order'[o] /\ row.version \in 1 .. row.version
      BY <1>3, <1>6
    <3> HIDE DEF row, o, p
    <3>3. QED
      BY <1>1, <1>3, <1>4, <1>5, <1>6, <1>8, <3>1, <3>2 DEF ClaimInv
  <2>2. DealInvOf(d)'
    BY <1>1, <1>2, <1>6, <1>8, <2>1 DEF AInv, DealInv, DealInvOf
  <2>3. ASSUME NEW e \in Decision, e # d PROVE DealInvOf(e)'
    <3>1. deal'[e] = deal[e] /\ pc'[e] = pc[e]
      BY <1>6, <1>7, <2>3
    <3>2. DealInvOf(e) /\ DealInv /\ OfferInv /\ ActionsTypeOK
      BY DEF AInv, DealInv
    <3>3. deal'[e] = IF pc'[e] = "done" THEN None ELSE deal[e]
      BY <3>1, <3>2, <1>6 DEF DealInvOf
    <3>4. deal[e] # None /\ deal[e].stage \in {"checked", "changed"} =>
            proposal'[deal[e].target].state = "pending"
      BY <3>2, <1>6 DEF DealInvOf, ClaimInv
    <3>5. order'[OrderOf(e)] = order[OrderOf(e)]
      BY <1>6
    <3> HIDE DEF row, o, p
    <3>6. QED
      BY <1>6, <1>9, <1>11, <3>1, <3>2, <3>3, <3>4, <3>5, DealStep
  <2>4. QED
    BY <2>2, <2>3 DEF DealInv
<1>13. RowInv'
  <2>1. \A e \in Decision : \A q \in Message :
          Claims(e, q)' => Claims(e, q) \/ (e = d /\ q = p)
    BY <1>7, <1>8 DEF Claims
  <2>2. \A e \in Decision : \A u \in Order : Writes(e, u)' => Writes(e, u)
    BY <1>6, <1>7, <1>8 DEF Writes
  <2>3. \A e \in Decision \ {d} : ~Claims(e, p)
    BY <1>1 DEF Claimable
  <2>4. QED
    BY <2>1, <2>2, <2>3 DEF AInv, RowInv
<1>14. QED
  BY <1>9, <1>10, <1>11, <1>12, <1>13 DEF AInv

LEMMA ChangeOrderStep ==
  ASSUME IInv, AInv, TurnFrame, NEW d \in Decision, ChangeOrder(d)
  PROVE  AInv'
<1> USE DEF ChangeOrder
<1> DEFINE o == OrderOf(d)
<1>1. deal[d] # None /\ ClaimInv(d) /\ proposal[deal[d].target] # None
  BY DEF AInv, DealInv, DealInvOf
<1>2. /\ deal'[d] \in Deal /\ deal'[d] # None /\ deal'[d].stage = "changed"
      /\ deal'[d].check = deal[d].check
      /\ deal'[d].target = deal[d].target /\ deal'[d].choice = deal[d].choice
      /\ \A e \in Decision : e # d => deal'[e] = deal[e]
  BY <1>1, DealTypes, ActionsAssumption DEF AInv, ActionsTypeOK, Deal
<1>3. ActionsTypeOK'
  BY <1>2 DEF AInv, ActionsTypeOK, tables
<1>4. UNCHANGED <<pc, conv>>
  BY DEF turnVars, vars
<1>5. JobInv'
  BY <1>3, <1>4, JobsAside
<1>6. /\ Frame /\ SessionInv' /\ OfferInv' /\ ReceiptInv' /\ Accounted'
      /\ OrderAccounting' /\ UnseededInv' /\ HandlerInv
  BY <1>3, TablesStep
<1>7. DealInv'
  <2>1. deal[d].check.row.version = order[o].version
    BY <1>1 DEF ClaimInv, Changeable, OrderOf
  <2>2. OrderOf(d)' = o
    BY <1>2 DEF OrderOf, tables
  <2>3. ClaimInv(d)'
    BY <1>1, <1>2, <1>4, <2>1, <2>2 DEF ClaimInv, tables
  <2>4. DealInvOf(d)'
    BY <1>1, <1>2, <1>4, <2>3 DEF AInv, DealInv, DealInvOf, tables
  <2>5. ASSUME NEW e \in Decision, e # d PROVE DealInvOf(e)'
    <3>1. deal'[e] = deal[e] /\ pc'[e] = pc[e]
      BY <1>2, <1>4, <2>5
    <3>2. UNCHANGED <<order, proposal>>
      BY DEF tables
    <3>3. DealInvOf(e)
      BY DEF AInv, DealInv
    <3>4. deal[e] # None => pc[e] \notin {"idle", "done"}
      BY <3>3 DEF DealInvOf
    <3>5. deal[e] # None /\ deal[e].stage \in {"checked", "changed"} =>
            proposal[deal[e].target].state = "pending"
      BY <3>3 DEF DealInvOf, ClaimInv
    <3>6. deal'[e] = IF pc'[e] = "done" THEN None ELSE deal[e]
      BY <3>1, <3>4
    <3>7. deal[e] # None /\ pc'[e] # "done" /\ deal[e].stage \in {"checked", "changed"} =>
            /\ proposal'[deal[e].target].state = "pending"
            /\ deal[e].stage = "changed" => order'[OrderOf(e)] = order[OrderOf(e)]
      BY <3>2, <3>5
    <3>8. QED
      BY <1>3, <1>6, <3>1, <3>6, <3>7, DealStep DEF AInv
  <2>6. QED
    BY <2>4, <2>5 DEF DealInv
<1>8. RowInv'
  <2>1. \A e \in Decision : \A q \in Message : Claims(e, q)' => Claims(e, q)
    BY <1>1, <1>2 DEF Claims
  <2>2. \A e \in Decision : \A u \in Order :
          Writes(e, u)' => Writes(e, u) \/ (e = d /\ u = o)
    BY <1>2 DEF Writes, OrderOf, tables
  <2>3. \A e \in Decision \ {d} : ~Writes(e, o)
    BY DEF Changeable, OrderOf
  <2>4. QED
    BY <2>1, <2>2, <2>3 DEF AInv, RowInv
<1>9. QED
  BY <1>3, <1>5, <1>6, <1>7, <1>8 DEF AInv

-----------------------------------------------------------------------------------
(* Steps that change customers, orders, proposals or receipts.                     *)

ledgerVars == <<order, proposal, receipt>>

LEMMA SignInAsStep ==
  ASSUME IInv, AInv, TurnFrame, NEW t \in Token, NEW k \in Customer, SignInAs(t, k)
  PROVE  AInv' /\ Ledger!Next
<1>1. /\ t \notin signed
      /\ customer' = [customer EXCEPT ![t] = k]
      /\ order' = SeededOrders
      /\ UNCHANGED <<pc, policy, proposal, receipt, ticket, job, deal>>
  BY DEF SignInAs, SignIn
<1>2. \A o \in Order :
        /\ order'[o] \in Ledger!OrderRow
        /\ order[o].version \in Nat
        /\ order[o].version = 0 =>
             order'[o].version = 1 /\ order'[o].state = FixtureState[o]
        /\ order[o].version # 0 => order'[o] = order[o]
  <2> SUFFICES ASSUME NEW o \in Order
               PROVE  /\ order'[o] \in Ledger!OrderRow
                      /\ order[o].version \in Nat
                      /\ order[o].version = 0 =>
                           order'[o].version = 1 /\ order'[o].state = FixtureState[o]
                      /\ order[o].version # 0 => order'[o] = order[o]
    OBVIOUS
  <2>1. order[o] \in Ledger!OrderRow /\ order[o].version \in Nat
    BY OrderTypes DEF AInv
  <2>2. order'[o] = IF order[o].version = 0
                      THEN [version |-> 1, state |-> FixtureState[o]] ELSE order[o]
    BY <1>1 DEF SeededOrders
  <2>3. CASE order[o].version = 0
    <3>1. order'[o] = [version |-> 1, state |-> FixtureState[o]]
      BY <2>2, <2>3
    <3>2. QED
      BY <2>1, <2>2, <2>3, <3>1, ActionsAssumption DEF Ledger!OrderRow
  <2>4. CASE order[o].version # 0
    <3>1. order'[o] = order[o]
      BY <2>2, <2>4
    <3>2. QED
      BY <2>1, <2>2, <2>4, <3>1
  <2>5. QED
    BY <2>3, <2>4
<1>3. ActionsTypeOK'
  <2>1. order' \in [Order -> Ledger!OrderRow]
    BY <1>1, <1>2 DEF SeededOrders
  <2>2. QED
    BY <1>1, <2>1 DEF AInv, ActionsTypeOK
<1>4. Frame
  <2>1. \A u \in signed : customer'[u] = customer[u]
    BY <1>1 DEF IInv, TypeOK, AInv, ActionsTypeOK
  <2>2. \A o \in Order :
          /\ order'[o].version >= order[o].version
          /\ order'[o].version = order[o].version => order'[o] = order[o]
    <3> SUFFICES ASSUME NEW o \in Order
                 PROVE  /\ order'[o].version >= order[o].version
                        /\ order'[o].version = order[o].version => order'[o] = order[o]
      OBVIOUS
    <3>1. CASE order[o].version = 0
      BY <1>2, <3>1
    <3>2. CASE order[o].version # 0
      BY <1>2, <3>2
    <3>3. QED
      BY <3>1, <3>2
  <2>3. QED
    BY <1>1, <2>1, <2>2 DEF Frame
<1>5. HandlerInv /\ TypeOK
  BY DEF IInv
<1>6. SessionInv'
  BY <1>5, SessionStep DEF AInv
<1>7. OfferInv'
  BY <1>1, <1>3, <1>4, OfferStep DEF AInv
<1>8. ReceiptInv' /\ Accounted' /\ OrderAccounting'
  <2>1. \A o \in Order :
          \/ order'[o] = order[o]
          \/ order[o].version = 0 /\ order'[o] = [version |-> 1, state |-> FixtureState[o]]
    BY <1>1 DEF SeededOrders
  <2>2. QED
    BY <1>1, <1>5, <2>1, SettledStep DEF AInv
<1>9. JobInv'
  BY <1>1, <1>3, <1>4, <1>5, JobStep DEF AInv, JobInv, JobInvOf
<1>10. DealInv'
  <2> SUFFICES ASSUME NEW d \in Decision PROVE DealInvOf(d)'
    BY DEF DealInv
  <2>1. DealInvOf(d)
    BY DEF AInv, DealInv
  <2>2. ASSUME deal[d] # None, deal[d].stage \in {"checked", "changed"}
        PROVE  /\ proposal'[deal[d].target].state = "pending"
               /\ order'[OrderOf(d)] = order[OrderOf(d)]
    <3>1. /\ ClaimInv(d) /\ deal[d].target \in Message
          /\ proposal[deal[d].target] # None
      BY <2>1, <2>2, DealTypes DEF DealInvOf, AInv
    <3>2. OrderOf(d) \in Order
      BY <3>1, ProposalTypes DEF OrderOf, AInv
    <3>3. order[OrderOf(d)].version # 0
      BY <1>2, <3>1, <3>2 DEF ClaimInv
    <3>4. QED
      BY <1>1, <1>2, <3>1, <3>2, <3>3 DEF ClaimInv
  <2>3. deal'[d] = IF pc'[d] = "done" THEN None ELSE deal[d]
    BY <1>1, <2>1 DEF DealInvOf
  <2>4. QED
    BY <1>1, <1>3, <1>4, <2>2, <2>3, DealStep DEF AInv
<1>11. RowInv'
  BY <1>1, <1>4, RowStep DEF AInv
<1>12. Ledger!Next
  <2>1. Ledger!Seed
    <3>1. order = [o \in Order |-> order[o]]
      BY DEF AInv, ActionsTypeOK
    <3>2. \A o \in Order : order[o].version = 0 => order[o].state = FixtureState[o]
      BY DEF AInv, UnseededInv
    <3>3. \A o \in Order : order'[o] = IF order[o].version = 0
                                         THEN [order[o] EXCEPT !.version = 1] ELSE order[o]
      <4> SUFFICES ASSUME NEW o \in Order
                   PROVE  order'[o] = IF order[o].version = 0
                                        THEN [order[o] EXCEPT !.version = 1] ELSE order[o]
        OBVIOUS
      <4>1. /\ order[o] = [version |-> order[o].version, state |-> order[o].state]
            /\ order[o] \in [version : Nat, state : Ledger!OrderState]
        BY OrderTypes DEF Ledger!OrderRow, AInv
      <4>2. [order[o] EXCEPT !.version = 1] = [version |-> 1, state |-> order[o].state]
        BY <4>1
      <4>3. order'[o] = IF order[o].version = 0
                          THEN [version |-> 1, state |-> FixtureState[o]] ELSE order[o]
        BY <1>1 DEF SeededOrders
      <4>4. QED
        BY <3>2, <4>2, <4>3
    <3>4. order' = [o \in Order |-> order'[o]]
      BY <1>3 DEF ActionsTypeOK
    <3>5. QED
      BY <1>1, <3>3, <3>4 DEF Ledger!Seed
  <2>2. QED
    BY <2>1 DEF Ledger!Next
<1>13. UnseededInv'
  <2> SUFFICES ASSUME NEW o \in Order, order'[o].version = 0
               PROVE  order'[o].state = FixtureState[o]
    BY DEF UnseededInv
  <2>1. order[o].version # 0
    BY <1>2
  <2>2. QED
    BY <1>2, <2>1 DEF AInv, UnseededInv
<1>14. QED
  BY <1>3, <1>6, <1>7, <1>8, <1>9, <1>10, <1>11, <1>12, <1>13 DEF AInv

\* Ledger!Propose(m), with the offer named.
LEMMA ProposeStep ==
  ASSUME NEW m \in Message, NEW offer \in Ledger!Proposal,
         proposal \in [Message -> Ledger!Proposal \cup {None}],
         proposal[m] = None, offer.state = "pending",
         offer.version \in 1 .. order[offer.order].version,
         proposal' = [proposal EXCEPT ![m] = offer],
         UNCHANGED <<order, receipt>>
  PROVE  Ledger!Propose(m)
<1>1. proposal'[m] = offer
  OBVIOUS
<1>2. QED
  BY <1>1 DEF Ledger!Propose

LEMMA FinishOperationStep ==
  ASSUME IInv, AInv, TurnFrame, NEW m \in Message, FinishOperation(m)
  PROVE  AInv' /\ (Ledger!Next \/ UNCHANGED ledgerVars)
<1> DEFINE plan == job[m].plan
           key == <<"support-operation", m>>
<1>1. /\ FinishResult(m)
      /\ plan # None
      /\ proposal' = IF plan.offer = None THEN proposal
                       ELSE [proposal EXCEPT ![m] = plan.offer]
      /\ ticket' = IF plan.number = 0 THEN ticket
                     ELSE [ticket EXCEPT ![key] = plan.number]
      /\ job' = [n \in Message |-> IF pc'[n] = "done" THEN None ELSE job[n]]
      /\ deal' = [d \in Decision |-> IF pc'[d] = "done" THEN None ELSE deal[d]]
      /\ UNCHANGED <<customer, policy, order, receipt>>
  BY DEF FinishOperation, Forget
<1>2. /\ pc[m] = "saving" /\ m \in Request
      /\ \A q \in Request : pc'[q] = IF q = m THEN "done" ELSE pc[q]
  BY <1>1 DEF FinishResult, Finish, Goto, IInv, TypeOK, Request
<1>3. proposal[m] = None /\ job[m] # None
  BY <1>2 DEF AInv, OfferInv, JobInv, JobInvOf
<1>4. /\ plan \in Plan /\ plan.number \in Nat
      /\ plan.offer # None => plan.offer \in Ledger!Proposal
  BY <1>1, <1>3, JobTypes DEF AInv
<1>5. plan.offer # None => Sound(conv[m], plan.offer) /\ plan.offer.state = "pending"
  BY <1>1, <1>3 DEF AInv, JobInv, JobInvOf
<1>6. /\ proposal'[m] = plan.offer
      /\ \A p \in Message : p # m => proposal'[p] = proposal[p]
      /\ proposal' \in [Message -> Ledger!Proposal \cup {None}]
  BY <1>1, <1>3, <1>4 DEF AInv, ActionsTypeOK
<1>7. ActionsTypeOK'
  <2>1. ticket' \in [CaseKey -> Nat]
    BY <1>1, <1>4 DEF AInv, ActionsTypeOK
  <2>2. QED
    BY <1>1, <1>6, <2>1 DEF AInv, ActionsTypeOK
<1>8. HandlerInv /\ TypeOK
  BY DEF IInv
<1>9. Frame
  BY <1>1, <1>3, <1>6, OrderTypes DEF Frame, AInv
<1>10. SessionInv'
  BY <1>8, SessionStep DEF AInv
<1>11. OfferInv'
  <2>1. /\ pc'[m] = "done"
        /\ conv'[m] \in Conversation
        /\ owner'[conv'[m]] # None
    BY <1>2, <1>8 DEF HandlerInv, TurnFrame, AInv, SessionInv
  <2>2. plan.offer # None => SoundNext(conv'[m], plan.offer)
    BY <1>1, <1>3, <1>7, <1>8, <1>9, PlanStep DEF AInv
  <2>3. \A p \in Message : proposal[p] = None /\ proposal'[p] # None =>
          /\ pc'[p] = "done"
          /\ conv'[p] \in Conversation
          /\ owner'[conv'[p]] # None
          /\ SoundNext(conv'[p], proposal'[p])
    BY <1>6, <2>1, <2>2
  <2>4. QED
    BY <1>7, <1>9, <2>3, OfferStep DEF AInv
<1>12. ReceiptInv' /\ Accounted' /\ OrderAccounting'
  <2>1. \A p \in Message :
          \/ proposal'[p] = proposal[p]
          \/ proposal[p] = None /\ proposal'[p] # None /\ proposal'[p].state = "pending"
    BY <1>3, <1>5, <1>6
  <2>2. QED
    BY <1>1, <1>8, <2>1, SettledStep DEF AInv
<1>13. JobInv'
  BY <1>1, <1>2, <1>7, <1>8, <1>9, JobStep DEF AInv, JobInv, Request
<1>14. DealInv'
  <2> SUFFICES ASSUME NEW d \in Decision PROVE DealInvOf(d)'
    BY DEF DealInv
  <2>1. d \in Request /\ pc'[d] = pc[d] /\ deal'[d] = IF pc'[d] = "done" THEN None ELSE deal[d]
    BY <1>1, <1>2, RequestAssumption DEF Request
  <2>2. ASSUME deal[d] # None, deal[d].stage \in {"checked", "changed"}
        PROVE  /\ proposal'[deal[d].target].state = "pending"
               /\ order'[OrderOf(d)] = order[OrderOf(d)]
    <3>1. /\ ClaimInv(d) /\ deal[d].target \in Message
          /\ proposal[deal[d].target] # None
      BY <2>2, DealTypes DEF AInv, DealInv, DealInvOf
    <3>2. QED
      BY <1>1, <1>3, <1>6, <3>1 DEF ClaimInv
  <2>3. QED
    BY <1>7, <1>9, <2>1, <2>2, DealStep DEF AInv
<1>15. RowInv'
  BY <1>1, <1>9, RowStep DEF AInv
<1>16. UnseededInv'
  BY <1>1 DEF AInv, UnseededInv
<1>17. Ledger!Next \/ UNCHANGED ledgerVars
  <2>1. CASE plan.offer = None
    BY <1>1, <2>1 DEF ledgerVars
  <2>2. CASE plan.offer # None
    <3>1. Ledger!Propose(m)
      BY <1>1, <1>3, <1>4, <1>5, <2>2, ProposeStep DEF Sound, AInv, ActionsTypeOK
    <3>2. QED
      BY <3>1 DEF Ledger!Next
  <2>3. QED
    BY <2>1, <2>2
<1>18. QED
  BY <1>7, <1>10, <1>11, <1>12, <1>13, <1>14, <1>15, <1>16, <1>17 DEF AInv

\* What the commit of a decision does to its proposal and receipt.
Answered(d) ==
  LET p == deal[d].target
      check == deal[d].check
  IN /\ receipt[p] = None
     /\ receipt'[p] \in Ledger!Receipt
     /\ receipt'[p].decision = deal[d].choice
     /\ receipt'[p].outcome = check.outcome
     /\ receipt'[p].run = d
     /\ receipt' = [receipt EXCEPT ![p] = receipt'[p]]
     /\ proposal' = [proposal EXCEPT ![p].state = Settled(check.outcome)]

\* What it does to the orders.
Moved(d) ==
  LET p == deal[d].target
      o == proposal[p].order
      check == deal[d].check
  IN /\ \A u \in Order : u # o => order'[u] = order[u]
     /\ order' = [order EXCEPT ![o] = order'[o]]
     /\ \/ /\ check.outcome = "executed"
           /\ order[o].version = proposal[p].version
           /\ order[o].state = "paid"
           /\ order'[o] = Ledger!Executed(order[o], proposal[p].kind)
           /\ receipt'[p].version = order[o].version + 1
        \/ /\ check.outcome # "executed"
           /\ order' = order
           /\ receipt'[p].version \in 1 .. order[o].version

LEMMA CommitDecisionTables ==
  ASSUME AInv, NEW d \in Decision, CommitDecision(d)
  PROVE  /\ deal[d] # None /\ deal[d] \in Deal /\ ClaimInv(d)
         /\ deal[d].target \in Message
         /\ proposal[deal[d].target] # None
         /\ OrderOf(d) \in Order
         /\ Answered(d) /\ Moved(d)
<1> DEFINE p == deal[d].target
           o == proposal[p].order
           check == deal[d].check
           changed == Replaced(check.row, proposal[p].kind)
           after == IF check.outcome = "executed" THEN changed ELSE check.row
           new == [decision |-> deal[d].choice, outcome |-> check.outcome,
                   version |-> after.version, run |-> d]
<1>1. /\ DecideCommit(d)
      /\ \/ deal[d].stage = "changed"
         \/ deal[d].stage = "checked" /\ check.outcome # "executed"
      /\ receipt[p] = None
      /\ order' = IF check.outcome = "executed" THEN [order EXCEPT ![o] = after] ELSE order
      /\ proposal' = [proposal EXCEPT ![p].state = Settled(check.outcome)]
      /\ receipt' = [receipt EXCEPT ![p] = new]
  BY DEF CommitDecision
<1>2. deal[d] # None /\ ClaimInv(d) /\ proposal[p] # None
  BY <1>1 DEF DecideCommit, AInv, DealInv, DealInvOf, Request
<1>3. /\ deal[d] \in Deal /\ p \in Message /\ check # None /\ check \in Check
      /\ check.row \in Ledger!OrderRow /\ check.row.version \in Nat
      /\ check.outcome \in Outcome
      /\ deal[d].choice \in {"confirm", "reject"}
  BY <1>2, DealTypes DEF AInv, ClaimInv, Deal
<1>4. o \in Order /\ OrderOf(d) = o /\ proposal[p].version \in Nat
  BY <1>2, <1>3, ProposalTypes DEF AInv, OrderOf
<1>5. order[o] \in Ledger!OrderRow /\ order[o].version \in Nat
  BY <1>4, OrderTypes DEF AInv
<1>6. receipt'[p] = new
  BY <1>1, <1>3 DEF AInv, ActionsTypeOK
<1> HIDE DEF new
<1>7. ASSUME new \in Ledger!Receipt PROVE Answered(d)
  <2>1. receipt' = [receipt EXCEPT ![p] = receipt'[p]]
    BY <1>1, <1>6
  <2>2. /\ new.decision = deal[d].choice /\ new.outcome = check.outcome /\ new.run = d
    BY DEF new
  <2>3. QED
    BY <1>1, <1>6, <1>7, <2>1, <2>2 DEF Answered
<1>8. CASE check.outcome = "executed"
  <2>1. deal[d].stage = "changed"
    BY <1>1, <1>8
  <2>2. /\ check.row = order[o]
        /\ order[o].version = proposal[p].version
        /\ order[o].state = "paid"
    BY <1>2, <1>4, <1>8, <2>1 DEF ClaimInv
  <2>3. /\ after = Ledger!Executed(order[o], proposal[p].kind)
        /\ after.version = order[o].version + 1
    BY <1>8, <2>2 DEF Replaced, Ledger!Executed
  <2>4. order' = [order EXCEPT ![o] = after] /\ order'[o] = after
    BY <1>1, <1>4, <1>8 DEF AInv, ActionsTypeOK
  <2> HIDE DEF after
  <2>5. new \in Ledger!Receipt
    <3>1. after.version \in Nat
      BY <1>5, <2>3, ExecutedRow
    <3>2. /\ deal[d].choice \in {"confirm", "reject"}
          /\ check.outcome \in {"executed", "rejected", "blocked"}
      BY <1>3 DEF Outcome
    <3> HIDE DEF check
    <3>3. QED
      BY <3>1, <3>2 DEF Ledger!Receipt, new
  <2>6. \A u \in Order : u # o => order'[u] = order[u]
    BY <2>4 DEF AInv, ActionsTypeOK
  <2>7. receipt'[p].version = order[o].version + 1
    BY <1>6, <2>3 DEF new
  <2>8. Moved(d)
    BY <1>8, <2>2, <2>3, <2>4, <2>6, <2>7 DEF Moved
  <2>9. QED
    BY <1>2, <1>3, <1>4, <1>7, <2>5, <2>8
<1>9. CASE check.outcome # "executed"
  <2>1. after = check.row /\ order' = order
    BY <1>1, <1>9
  <2>2. after.version \in Nat /\ after.version \in 1 .. order[o].version
    BY <1>2, <1>3, <1>4, <2>1 DEF ClaimInv
  <2> HIDE DEF after
  <2>3. new \in Ledger!Receipt
    BY <1>3, <2>2 DEF Ledger!Receipt, Outcome, new
  <2>4. order' = [order EXCEPT ![o] = order'[o]]
    BY <2>1 DEF AInv, ActionsTypeOK
  <2>5. receipt'[p].version \in 1 .. order[o].version
    BY <1>6, <2>2 DEF new
  <2>6. Moved(d)
    BY <1>9, <2>1, <2>4, <2>5 DEF Moved
  <2>7. QED
    BY <1>2, <1>3, <1>4, <1>7, <2>3, <2>6
<1>10. QED
  BY <1>8, <1>9

\* The commit of a decision executes or closes an offer.
LEMMA CommitDecisionLedger ==
  ASSUME AInv, NEW d \in Decision, CommitDecision(d)
  PROVE  Ledger!Next
<1> DEFINE p == deal[d].target
           o == proposal[p].order
           outcome == deal[d].check.outcome
<1>1. /\ ClaimInv(d) /\ p \in Message /\ proposal[p] # None /\ o \in Order /\ Answered(d) /\ Moved(d)
      /\ deal[d] \in Deal /\ deal[d] # None
  BY CommitDecisionTables DEF OrderOf
<1>2. /\ proposal[p].state = "pending"
      /\ outcome = "rejected" <=> deal[d].choice = "reject"
      /\ deal[d].choice \in {"confirm", "reject"}
      /\ outcome \in Outcome
  BY <1>1, DealTypes DEF ClaimInv, Deal, AInv
<1>3. ASSUME NEW decision, NEW result, NEW state,
             decision = deal[d].choice, result = outcome, state = Settled(outcome)
      PROVE  Ledger!Settle(p, decision, result, state)
  BY <1>1, <1>2, <1>3 DEF Answered, Ledger!Settle
<1>4. CASE outcome = "executed"
  <2>1. deal[d].choice = "confirm" /\ Settled(outcome) = "confirmed"
    BY <1>2, <1>4 DEF Settled
  <2>2. Ledger!Settle(p, "confirm", "executed", "confirmed")
    BY <1>3, <1>4, <2>1
  <2>3. /\ order[o].version = proposal[p].version
        /\ order[o].state = "paid"
        /\ order' = [order EXCEPT ![o] = Ledger!Executed(order[o], proposal[p].kind)]
        /\ order'[o] = Ledger!Executed(order[o], proposal[p].kind)
        /\ receipt'[p].version = order[o].version + 1
    BY <1>1, <1>4 DEF Moved
  <2>4. receipt'[p].version = order'[o].version
    BY <2>3 DEF Ledger!Executed
  <2>5. Ledger!Execute(p)
    BY <2>2, <2>3, <2>4 DEF Ledger!Execute
  <2>6. QED
    BY <1>1, <2>5 DEF Ledger!Next
<1>5. CASE outcome = "blocked" \/ outcome = "rejected"
  <2>1. \/ deal[d].choice = "confirm" /\ outcome = "blocked" /\ Settled(outcome) = "blocked"
        \/ deal[d].choice = "reject" /\ outcome = "rejected" /\ Settled(outcome) = "rejected"
    BY <1>2, <1>5 DEF Settled
  <2>2. \/ Ledger!Settle(p, "confirm", "blocked", "blocked")
        \/ Ledger!Settle(p, "reject", "rejected", "rejected")
    BY <1>3, <2>1
  <2>3. order' = order /\ receipt'[p].version \in 1 .. order[o].version
    BY <1>1, <1>5 DEF Moved
  <2>4. Ledger!Close(p)
    BY <2>2, <2>3 DEF Ledger!Close
  <2>5. QED
    BY <1>1, <2>4 DEF Ledger!Next
<1>6. QED
  BY <1>2, <1>4, <1>5 DEF Outcome

\* The tables of proposals and receipts after the commit of a decision.
LEMMA AnsweredTables ==
  ASSUME AInv, NEW d \in Decision, CommitDecision(d)
  PROVE  LET p == deal[d].target
             outcome == deal[d].check.outcome
         IN /\ receipt' \in [Message -> Ledger!Receipt \cup {None}]
            /\ receipt'[p] \in Ledger!Receipt
            /\ receipt'[p] # None
            /\ receipt'[p].decision = deal[d].choice
            /\ receipt'[p].outcome = outcome
            /\ receipt'[p].run = d
            /\ \A q \in Message : q # p => receipt'[q] = receipt[q]
            /\ proposal' \in [Message -> Ledger!Proposal \cup {None}]
            /\ proposal'[p] # None
            /\ proposal'[p].state = Settled(outcome)
            /\ proposal'[p].kind = proposal[p].kind
            /\ proposal'[p].order = proposal[p].order
            /\ proposal'[p].version = proposal[p].version
            /\ proposal'[p].policy = proposal[p].policy
            /\ \A q \in Message : q # p => proposal'[q] = proposal[q]
<1> DEFINE p == deal[d].target
           outcome == deal[d].check.outcome
           state == Settled(outcome)
<1>1. /\ deal[d] # None /\ deal[d] \in Deal /\ ClaimInv(d)
      /\ p \in Message /\ proposal[p] # None /\ Answered(d)
  BY CommitDecisionTables
<1>2. /\ receipt' \in [Message -> Ledger!Receipt \cup {None}]
      /\ receipt'[p] \in Ledger!Receipt
      /\ receipt'[p] # None
      /\ receipt'[p].decision = deal[d].choice
      /\ receipt'[p].outcome = outcome
      /\ receipt'[p].run = d
      /\ \A q \in Message : q # p => receipt'[q] = receipt[q]
  BY <1>1, ActionsAssumption DEF Answered, AInv, ActionsTypeOK
<1>3. proposal' = [proposal EXCEPT ![p].state = state]
  BY <1>1 DEF Answered
<1>4. proposal[p] \in Ledger!Proposal
  BY <1>1, ProposalTypes DEF AInv
<1>5. outcome \in Outcome
  BY <1>1, DealTypes DEF AInv, ClaimInv
<1>6. state \in {"confirmed", "rejected", "blocked"}
  BY <1>5 DEF Outcome, Settled
<1> HIDE DEF state
<1>7. /\ proposal'[p] \in Ledger!Proposal
      /\ proposal'[p].state = state
      /\ proposal'[p].kind = proposal[p].kind
      /\ proposal'[p].order = proposal[p].order
      /\ proposal'[p].version = proposal[p].version
      /\ proposal'[p].policy = proposal[p].policy
  BY <1>1, <1>3, <1>4, <1>6 DEF AInv, ActionsTypeOK, Ledger!Proposal
<1>8. \A q \in Message : q # p => proposal'[q] = proposal[q]
  BY <1>3 DEF AInv, ActionsTypeOK
<1>9. proposal' \in [Message -> Ledger!Proposal \cup {None}]
  BY <1>1, <1>3, <1>7, <1>8 DEF AInv, ActionsTypeOK
<1>10. QED
  BY <1>2, <1>7, <1>8, <1>9, ActionsAssumption DEF state

\* The proposal of the decision is settled with its receipt; the others keep theirs.
LEMMA CommitAccounted ==
  ASSUME IInv, AInv, TurnFrame, NEW d \in Decision, CommitDecision(d)
  PROVE  ReceiptInv' /\ Accounted'
<1> DEFINE p == deal[d].target
           outcome == deal[d].check.outcome
<1>1. /\ deal[d] # None /\ deal[d] \in Deal /\ ClaimInv(d)
      /\ p \in Message /\ proposal[p] # None /\ Answered(d)
      /\ d \in Request
  BY CommitDecisionTables DEF Request
<1>2. /\ receipt'[p] # None
      /\ receipt'[p].decision = deal[d].choice
      /\ receipt'[p].outcome = outcome
      /\ receipt'[p].run = d
      /\ \A q \in Message : q # p => receipt'[q] = receipt[q]
  BY AnsweredTables
<1>3. /\ proposal'[p] # None /\ proposal'[p].state = Settled(outcome)
      /\ \A q \in Message : q # p => proposal'[q] = proposal[q]
  BY AnsweredTables
<1>4. ReceiptInv'
  BY <1>2, <1>3 DEF ReceiptInv, AInv
<1>5. /\ outcome \in Outcome
      /\ outcome = "rejected" <=> deal[d].choice = "reject"
  BY <1>1, DealTypes DEF AInv, ClaimInv
<1>6. <<Settled(outcome), outcome>> \in
        {<<"confirmed", "executed">>, <<"rejected", "rejected">>, <<"blocked", "blocked">>}
  BY <1>5 DEF Outcome, Settled
<1>7. /\ conv[p] = conv[d] /\ conv[p] \in Conversation
      /\ \A q \in Message : proposal[q] # None => conv'[q] = conv[q]
  BY <1>1 DEF AInv, DealInv, DealInvOf, ClaimInv, CommitDecision, OfferInv, TurnFrame, Request
<1>8. /\ run'[d] = "completed"
      /\ log'[conv[d]] = Append(log[conv[d]], d)
  BY <1>1, <1>7 DEF CommitDecision, DecideCommit, IInv, TypeOK
<1>9. \E i \in DOMAIN log'[conv[p]] : log'[conv[p]][i] = d
  <2>1. log[conv[p]] \in Seq(Request)
    BY <1>7, LogSequence DEF IInv
  <2>2. QED
    BY <1>1, <1>7, <1>8, <2>1, AppendProperties
<1>10. Accounted'
  <2> SUFFICES ASSUME NEW q \in Message, proposal'[q] # None, receipt'[q] # None
               PROVE  /\ <<proposal'[q].state, receipt'[q].outcome>> \in
                           {<<"confirmed", "executed">>, <<"rejected", "rejected">>,
                            <<"blocked", "blocked">>}
                      /\ receipt'[q].outcome = "rejected" <=> receipt'[q].decision = "reject"
                      /\ run'[receipt'[q].run] = "completed"
                      /\ \E i \in DOMAIN log'[conv'[q]] : log'[conv'[q]][i] = receipt'[q].run
    <3>1. \A q \in Message : proposal'[q] # None /\ receipt'[q] = None
                               => proposal'[q].state = "pending"
      BY <1>2, <1>3 DEF AInv, Accounted
    <3>2. QED
      BY <3>1 DEF Accounted
  <2>1. CASE q = p
    <3>1. conv'[q] = conv[p]
      BY <1>1, <1>7, <2>1
    <3>2. QED
      BY <1>2, <1>3, <1>5, <1>6, <1>8, <1>9, <2>1, <3>1
  <2>2. CASE q # p
    <3>1. /\ proposal[q] # None /\ proposal'[q] = proposal[q]
          /\ receipt[q] # None /\ receipt'[q] = receipt[q]
      BY <1>2, <1>3, <2>2
    <3>2. conv[q] \in Conversation /\ conv'[q] = conv[q]
      BY <1>7, <3>1 DEF AInv, OfferInv
    <3>3. receipt[q].run \in Request
      BY <3>1 DEF AInv, ActionsTypeOK, Ledger!Receipt, Request
    <3>4. run'[receipt[q].run] = "completed"
      BY <3>1, <3>3 DEF AInv, Accounted, TurnFrame
    <3>5. PICK i \in DOMAIN log[conv[q]] : log[conv[q]][i] = receipt[q].run
      BY <3>1 DEF AInv, Accounted
    <3>6. i \in DOMAIN log'[conv[q]] /\ log'[conv[q]][i] = receipt[q].run
      BY <3>2, <3>5, LogGrows DEF IInv
    <3>7. QED
      BY <3>1, <3>2, <3>4, <3>6 DEF AInv, Accounted
  <2>3. QED
    BY <2>1, <2>2
<1>11. QED
  BY <1>4, <1>10

\* The change of a decision is the one change of the version it makes.
LEMMA CommitOrders ==
  ASSUME AInv, NEW d \in Decision, CommitDecision(d)
  PROVE  OrderAccounting'
<1> DEFINE p == deal[d].target
           o == proposal[p].order
           outcome == deal[d].check.outcome
<1>1. /\ p \in Message /\ proposal[p] # None /\ o \in Order
      /\ Answered(d) /\ Moved(d)
  BY CommitDecisionTables DEF OrderOf
<1>2. /\ receipt[p] = None
      /\ receipt'[p] # None /\ receipt'[p].outcome = outcome
      /\ \A q \in Message : q # p => receipt'[q] = receipt[q]
      /\ \A q \in Message : proposal[q] # None =>
           proposal'[q].order = proposal[q].order /\ proposal'[q].kind = proposal[q].kind
      /\ \A q \in Message : receipt[q] # None => proposal[q] # None
  BY <1>1, AnsweredTables DEF Answered, AInv, ReceiptInv
<1> SUFFICES ASSUME NEW u \in Order PROVE OrderAccountingOf(u)'
  BY AccountingParts
<1>3. OrderAccountingOf(u) /\ order[u].version \in Nat
  BY AccountingParts, OrderTypes DEF AInv
<1>4. CASE u # o \/ outcome # "executed"
  <2>1. order'[u] = order[u]
    BY <1>1, <1>4 DEF Moved
  <2>2. ExecutedOn(u)' = ExecutedOn(u)
    BY <1>1, <1>2, <1>4 DEF ExecutedOn
  <2>3. \A q \in ExecutedOn(u) : receipt'[q] = receipt[q] /\ proposal'[q].kind = proposal[q].kind
    BY <1>2 DEF ExecutedOn
  <2>4. QED
    BY <1>3, <2>1, <2>2, <2>3 DEF OrderAccountingOf
<1>5. CASE u = o /\ outcome = "executed"
  <2>1. /\ order[u].state = "paid"
        /\ order'[u] = Ledger!Executed(order[u], proposal[p].kind)
        /\ receipt'[p].version = order[u].version + 1
    BY <1>1, <1>5 DEF Moved
  <2>2. /\ order'[u].version = order[u].version + 1
        /\ order'[u].state = "cancelled" <=> proposal[p].kind = "cancel"
    BY <2>1 DEF Ledger!Executed
  <2>3. p \notin ExecutedOn(u) /\ ExecutedOn(u)' = ExecutedOn(u) \cup {p}
    <3>1. p \notin ExecutedOn(u) /\ p \in ExecutedOn(u)'
      BY <1>1, <1>2, <1>5 DEF ExecutedOn
    <3>2. ASSUME NEW q \in Message, q # p
          PROVE  q \in ExecutedOn(u)' <=> q \in ExecutedOn(u)
      <4>1. receipt'[q] = receipt[q]
        BY <1>2, <3>2
      <4>2. receipt[q] # None => proposal'[q].order = proposal[q].order
        BY <1>2
      <4>3. QED
        BY <4>1, <4>2 DEF ExecutedOn
    <3>3. ExecutedOn(u) \subseteq Message /\ ExecutedOn(u)' \subseteq Message
      BY DEF ExecutedOn
    <3>4. QED
      BY <1>1, <3>1, <3>2, <3>3
  <2>4. \A q \in ExecutedOn(u) :
          /\ receipt'[q] = receipt[q]
          /\ receipt'[q].version \in 2 .. order[u].version
    BY <1>2, <1>3, <1>5 DEF ExecutedOn, OrderAccountingOf
  <2>4a. \A q \in ExecutedOn(u) :
           receipt'[q].version \in Nat /\ receipt'[q].version <= order[u].version
    BY <1>3, <2>4
  <2>5. order[u].version >= 1
    <3>1. ClaimInv(d) /\ OrderOf(d) = o /\ deal[d].check.row.version \in Nat
      BY CommitDecisionTables, DealTypes DEF OrderOf, ClaimInv, AInv
    <3>2. QED
      BY <1>3, <1>5, <3>1 DEF ClaimInv
  <2>6. \A q \in ExecutedOn(u)' : receipt'[q].version \in 2 .. order'[u].version
    <3> SUFFICES ASSUME NEW q \in ExecutedOn(u)'
                 PROVE  receipt'[q].version \in 2 .. order'[u].version
      OBVIOUS
    <3>1. CASE q = p
      BY <1>3, <2>1, <2>2, <2>5, <3>1
    <3>2. CASE q \in ExecutedOn(u)
      BY <1>3, <2>2, <2>4, <3>2
    <3>3. QED
      BY <2>3, <3>1, <3>2
  <2>7. \A v \in 2 .. order'[u].version : \E q \in ExecutedOn(u)' : receipt'[q].version = v
    <3> SUFFICES ASSUME NEW v \in 2 .. order'[u].version
                 PROVE  \E q \in ExecutedOn(u)' : receipt'[q].version = v
      OBVIOUS
    <3>1. CASE v = order[u].version + 1
      BY <2>1, <2>3, <3>1
    <3>2. CASE v \in 2 .. order[u].version
      <4>1. PICK q \in ExecutedOn(u) : receipt[q].version = v
        BY <1>3, <1>5, <3>2 DEF OrderAccountingOf
      <4>2. QED
        BY <2>3, <2>4, <4>1
    <3>3. v = order[u].version + 1 \/ v \in 2 .. order[u].version
      BY <1>3, <2>2
    <3>4. QED
      BY <3>1, <3>2, <3>3
  <2>8. \A q, r \in ExecutedOn(u)' : receipt'[q].version = receipt'[r].version => q = r
    <3>1. \A q \in ExecutedOn(u) : receipt'[q].version # receipt'[p].version
      BY <1>3, <2>1, <2>4a
    <3>2. \A q, r \in ExecutedOn(u) : receipt[q].version = receipt[r].version => q = r
      BY <1>3 DEF OrderAccountingOf
    <3>2a. \A q \in ExecutedOn(u) : receipt'[q].version = receipt[q].version
      BY <2>4
    <3>3. QED
      BY <2>3, <3>1, <3>2, <3>2a
  <2>9. \A q \in ExecutedOn(u)' : receipt'[q].version = order'[u].version => q = p
    BY <1>3, <2>2, <2>3, <2>4a
  <2>10. order'[u].state = "cancelled"
           <=> \E q \in ExecutedOn(u)' :
                 proposal'[q].kind = "cancel" /\ receipt'[q].version = order'[u].version
    <3>1. p \in ExecutedOn(u)' /\ receipt'[p].version = order'[u].version
      BY <2>1, <2>2, <2>3
    <3>2. proposal'[p].kind = proposal[p].kind
      BY <1>1, <1>2
    <3>3. QED
      BY <2>2, <2>9, <3>1, <3>2
  <2>11. QED
    BY <1>5, <2>6, <2>7, <2>8, <2>10 DEF OrderAccountingOf
<1>6. QED
  BY <1>4, <1>5

LEMMA CommitDecisionStep ==
  ASSUME IInv, AInv, TurnFrame, NEW d \in Decision, CommitDecision(d)
  PROVE  AInv'
<1> DEFINE p == deal[d].target
           o == proposal[p].order
           outcome == deal[d].check.outcome
<1>1. /\ deal[d] # None /\ deal[d] \in Deal /\ ClaimInv(d)
      /\ p \in Message /\ proposal[p] # None /\ o \in Order /\ OrderOf(d) = o
      /\ Answered(d) /\ Moved(d)
  BY CommitDecisionTables DEF OrderOf
<1>2. /\ DecideCommit(d)
      /\ ticket' = IF deal[d].check.number = 0 THEN ticket
                     ELSE [ticket EXCEPT ![<<"blocked-proposal", p>>] = deal[d].check.number]
      /\ job' = [m \in Message |-> IF pc'[m] = "done" THEN None ELSE job[m]]
      /\ deal' = [e \in Decision |-> IF pc'[e] = "done" THEN None ELSE deal[e]]
      /\ UNCHANGED <<customer, policy>>
  BY DEF CommitDecision, Forget
<1>3. /\ pc[d] = "deciding" /\ d \in Request
      /\ \A q \in Request : pc'[q] = IF q = d THEN "done" ELSE pc[q]
  BY <1>2 DEF DecideCommit, Goto, IInv, TypeOK, Request
<1>4. /\ receipt' \in [Message -> Ledger!Receipt \cup {None}]
      /\ proposal' \in [Message -> Ledger!Proposal \cup {None}]
      /\ \A q \in Message : q # p => proposal'[q] = proposal[q]
      /\ \A q \in Message : proposal[q] # None =>
           /\ proposal'[q] # None
           /\ proposal'[q].kind = proposal[q].kind
           /\ proposal'[q].order = proposal[q].order
           /\ proposal'[q].version = proposal[q].version
           /\ proposal'[q].policy = proposal[q].policy
      /\ \A q \in Message : proposal[q] = None => proposal'[q] = None
  BY <1>1, AnsweredTables
<1>5. \A u \in Order :
        /\ order'[u] \in Ledger!OrderRow
        /\ order'[u].version \in Nat
        /\ order[u].version \in Nat
        /\ order'[u] = order[u] \/ order'[u].version = order[u].version + 1
        /\ u # o \/ outcome # "executed" => order'[u] = order[u]
  <2> SUFFICES ASSUME NEW u \in Order
               PROVE  /\ order'[u] \in Ledger!OrderRow
                      /\ order'[u].version \in Nat
                      /\ order[u].version \in Nat
                      /\ order'[u] = order[u] \/ order'[u].version = order[u].version + 1
                      /\ u # o \/ outcome # "executed" => order'[u] = order[u]
    OBVIOUS
  <2>1. order[u] \in Ledger!OrderRow /\ order[u].version \in Nat
    BY OrderTypes DEF AInv
  <2>2. CASE u # o \/ outcome # "executed"
    BY <1>1, <2>1, <2>2 DEF Moved
  <2>3. CASE u = o /\ outcome = "executed"
    <3>1. order'[o] = Ledger!Executed(order[o], proposal[p].kind)
      BY <1>1, <2>3 DEF Moved
    <3>2. /\ order'[o] \in Ledger!OrderRow /\ order'[o].version \in Nat
          /\ order'[o].version = order[o].version + 1
      BY <2>1, <2>3, <3>1, ExecutedRow
    <3>3. QED
      BY <2>1, <2>3, <3>2
  <2>4. QED
    BY <2>2, <2>3
<1>6. ActionsTypeOK'
  <2>1. order' \in [Order -> Ledger!OrderRow]
    <3>1. order' = [order EXCEPT ![o] = order'[o]]
      BY <1>1 DEF Moved
    <3>2. QED
      BY <1>1, <1>5, <3>1 DEF AInv, ActionsTypeOK
  <2>2. ticket' \in [CaseKey -> Nat]
    <3>1. deal[d].check.number \in Nat
      BY <1>1, DealTypes DEF AInv, ClaimInv
    <3>2. QED
      BY <1>2, <3>1 DEF AInv, ActionsTypeOK
  <2>3. QED
    BY <1>2, <1>4, <2>1, <2>2 DEF AInv, ActionsTypeOK
<1>7. HandlerInv /\ TypeOK
  BY DEF IInv
<1>8. Frame
  <2>1. \A u \in Order :
          /\ order'[u].version >= order[u].version
          /\ order'[u].version = order[u].version => order'[u] = order[u]
    BY <1>5
  <2>2. QED
    BY <1>2, <1>4, <2>1 DEF Frame
<1>9. SessionInv'
  BY <1>7, SessionStep DEF AInv
<1>10. OfferInv'
  BY <1>4, <1>6, <1>8, OfferStep DEF AInv
<1>11. ReceiptInv' /\ Accounted' /\ OrderAccounting'
  BY CommitAccounted, CommitOrders
<1>12. JobInv'
  BY <1>2, <1>3, <1>6, <1>7, <1>8, RequestAssumption, JobStep
  DEF AInv, JobInv, JobInvOf, Request
<1>13. DealInv'
  <2> SUFFICES ASSUME NEW e \in Decision PROVE DealInvOf(e)'
    BY DEF DealInv
  <2>1. e \in Request /\ deal'[e] = IF pc'[e] = "done" THEN None ELSE deal[e]
    BY <1>2 DEF Request
  <2>2. ASSUME deal[e] # None, pc'[e] # "done", deal[e].stage \in {"checked", "changed"}
        PROVE  /\ proposal'[deal[e].target].state = "pending"
               /\ deal[e].stage = "changed" => order'[OrderOf(e)] = order[OrderOf(e)]
    <3>1. /\ e # d /\ ClaimInv(e) /\ deal[e].target \in Message
          /\ proposal[deal[e].target] # None
      BY <1>3, <2>1, <2>2, DealTypes DEF AInv, DealInv, DealInvOf
    <3>2. deal[d].stage \in {"checked", "changed"}
          /\ (outcome = "executed" => deal[d].stage = "changed")
      BY DEF CommitDecision
    <3>3. deal[e].target # p
      BY <1>1, <2>2, <3>1, <3>2 DEF AInv, RowInv, Claims
    <3>4. proposal'[deal[e].target].state = "pending"
      BY <1>4, <3>1, <3>3 DEF ClaimInv
    <3>5. OrderOf(e) \in Order
      BY <3>1, ProposalTypes DEF AInv, OrderOf
    <3>6. ASSUME deal[e].stage = "changed" PROVE order'[OrderOf(e)] = order[OrderOf(e)]
      <4>1. outcome = "executed" => OrderOf(e) # o
        BY <1>1, <2>2, <3>1, <3>2, <3>5, <3>6 DEF AInv, RowInv, Writes, OrderOf
      <4>2. QED
        BY <1>5, <3>5, <4>1
    <3>7. QED
      BY <3>4, <3>6
  <2>3. /\ pc'[e] \notin {"idle", "done"} => pc[e] \notin {"idle", "done"}
        /\ pc[e] = "deciding" => pc'[e] \in {"deciding", "done"}
    BY <1>3, <2>1
  <2>4. QED
    BY <1>6, <1>8, <2>1, <2>2, <2>3, DealStep DEF AInv
<1>14. RowInv'
  BY <1>2, <1>8, RowStep DEF AInv
<1>15. UnseededInv'
  BY <1>5 DEF AInv, UnseededInv
<1>16. QED
  BY <1>6, <1>9, <1>10, <1>11, <1>12, <1>13, <1>14, <1>15 DEF AInv

-----------------------------------------------------------------------------------
(* All steps.                                                                      *)

LEMMA InitAInv == ActionsInit => IInv /\ AInv
<1> SUFFICES ASSUME ActionsInit PROVE IInv /\ AInv
  OBVIOUS
<1>1. IInv
  BY InitIInv DEF ActionsInit
<1>2. /\ pc = [q \in Request |-> "idle"]
      /\ conv = [q \in Request |-> None]
      /\ owner = [c \in Conversation |-> None]
      /\ order = [o \in Order |-> [version |-> 0, state |-> FixtureState[o]]]
      /\ proposal = [p \in Message |-> None]
      /\ receipt = [p \in Message |-> None]
      /\ customer = [t \in Token |-> None]
      /\ policy \in Policy
      /\ ticket = [k \in CaseKey |-> 0]
      /\ job = [m \in Message |-> None]
      /\ deal = [d \in Decision |-> None]
  BY DEF ActionsInit, Init, Ledger!Init
<1>3. ActionsTypeOK
  BY <1>2, ActionsAssumption DEF ActionsTypeOK, Ledger!OrderRow
<1>4. UnseededInv
  BY <1>2 DEF UnseededInv
<1>5. SessionInv
  BY <1>2 DEF SessionInv
<1>6. JobInv /\ DealInv
  BY <1>2 DEF JobInv, JobInvOf, DealInv, DealInvOf, Request
<1>7. OfferInv /\ ReceiptInv /\ Accounted
  BY <1>2 DEF OfferInv, ReceiptInv, Accounted
<1>8. RowInv
  BY <1>2 DEF RowInv, Claims, Writes
<1>9. OrderAccounting
  <2> SUFFICES ASSUME NEW o \in Order PROVE OrderAccountingOf(o)
    BY AccountingParts
  <2>1. ExecutedOn(o) = {}
    BY <1>2 DEF ExecutedOn
  <2>2. order[o].version = 0 /\ order[o].state = FixtureState[o]
    BY <1>2
  <2>3. QED
    BY <2>1, <2>2 DEF OrderAccountingOf
<1>10. QED
  BY <1>1, <1>3, <1>4, <1>5, <1>6, <1>7, <1>8, <1>9 DEF AInv

\* Each step is a step of SupportTurns, or does not concern it.
LEMMA StepInTurns == ActionsNext => [Next]_vars
<1> SUFFICES ASSUME ActionsNext PROVE [Next]_vars
  OBVIOUS
<1>1. ASSUME NEW t \in Token, NEW k \in Customer, SignInAs(t, k) PROVE Next
  BY <1>1 DEF SignInAs, Next
<1>2. ASSUME ReplaceFixture PROVE UNCHANGED vars
  BY <1>2 DEF ReplaceFixture, turnVars
<1>3. ASSUME TurnStep PROVE Next
  <2>1. ASSUME NEW q \in Request, GiveUp(q) \/ RefuseBusy(q) PROVE Next
    BY <2>1 DEF Next, Serve, Decide, Request
  <2>2. ASSUME NEW q \in Request, NEW t \in Token, NEW c \in Conversation,
               RefuseUnowned(q, t, c)
        PROVE  Next
    BY <2>2 DEF Next
  <2>3. ASSUME NEW m \in Message,
               \/ ReserveMessage(m) \/ BeginCommit(m) \/ OpenStream(m) \/ AgentRaises(m)
               \/ FinishException(m) \/ FinishFails(m) \/ Abort(m)
        PROVE  Next
    BY <2>3 DEF Next, Serve
  <2>4. ASSUME NEW m \in Unlucky, LateClient(m) \/ LostAbort(m) \/ Killed(m) PROVE Next
    BY <2>4 DEF Next
  <2>5. ASSUME NEW t \in Token, NEW c \in Conversation, CreateConversation(t, c) PROVE Next
    BY <2>5 DEF Next
  <2>6. QED
    BY <1>3, <2>1, <2>2, <2>3, <2>4, <2>5 DEF TurnStep
<1>4. ASSUME NEW m \in Message, NEW t \in Token, NEW c \in Conversation,
             ArriveMessage(m, t, c)
      PROVE  Next
  BY <1>4 DEF ArriveMessage, Next, Request
<1>5. ASSUME NEW m \in Message, AgentProposes(m) \/ FinishOperation(m) PROVE Next
  BY <1>5 DEF AgentProposes, FinishOperation, Next, Serve
<1>6. ASSUME NEW m \in Message, PlanFinish(m) PROVE UNCHANGED vars
  BY <1>6 DEF PlanFinish, turnVars
<1>7. ASSUME NEW d \in Decision, NEW t \in Token, NEW c \in Conversation,
             NEW p \in Message, NEW choice \in {"confirm", "reject"},
             ArriveDecision(d, t, c, p, choice)
      PROVE  Next
  BY <1>7 DEF ArriveDecision, Next, Request
<1>8. ASSUME NEW d \in Decision, AnswerSaved(d) \/ ReserveDeal(d) \/ CommitDecision(d)
      PROVE  Next
  BY <1>8 DEF AnswerSaved, ReserveDeal, CommitDecision, Next, Decide
<1>9. ASSUME NEW d \in Decision, Recheck(d) \/ ChangeOrder(d) PROVE UNCHANGED vars
  BY <1>9 DEF Recheck, ChangeOrder, turnVars
<1>10. QED
  BY <1>1, <1>2, <1>3, <1>4, <1>5, <1>6, <1>7, <1>8, <1>9 DEF ActionsNext

LEMMA TurnStepStep ==
  ASSUME IInv, AInv, TurnFrame, TurnStep, Forget, UNCHANGED <<customer, policy, tables>>
  PROVE  AInv'
<1>1. \A q \in Request :
        /\ pc'[q] \notin {"idle", "done"} => pc[q] \notin {"idle", "done"}
        /\ pc'[q] = "saving" => pc[q] = "saving"
        /\ q \in Decision /\ pc[q] = "deciding" => pc'[q] \in {"deciding", "done"}
  BY TurnStepPhases
<1>2. policy' \in Policy
  BY DEF AInv, ActionsTypeOK
<1>3. QED
  BY <1>1, <1>2, QuietStep DEF Forget

LEMMA AnswerSavedStep ==
  ASSUME IInv, AInv, TurnFrame, NEW d \in Decision, AnswerSaved(d)
  PROVE  AInv'
<1>1. /\ d \in Request /\ pc[d] = "beginning"
      /\ \A q \in Request : pc'[q] = IF q = d THEN "done" ELSE pc[q]
  BY DEF AnswerSaved, AnswerWithoutRun, Goto, IInv, TypeOK, Request
<1>2. /\ Forget
      /\ UNCHANGED <<customer, tables>> /\ policy' \in Policy
  BY DEF AnswerSaved, AInv, ActionsTypeOK
<1>3. QED
  BY <1>1, <1>2, QuietStep DEF Forget

LEMMA NextAInv ==
  IInv /\ AInv /\ [ActionsNext]_allVars => IInv' /\ AInv' /\ [Ledger!Next]_ledgerVars
<1> SUFFICES ASSUME IInv, AInv, [ActionsNext]_allVars
             PROVE  IInv' /\ AInv' /\ [Ledger!Next]_ledgerVars
  OBVIOUS
<1>1. CASE UNCHANGED allVars
  <2>1. IInv'
    BY <1>1, NextIInv DEF allVars, turnVars
  <2>2. TurnFrame
    BY <1>1 DEF allVars, turnVars, vars, stored, TurnFrame
  <2>3. AInv'
    <3>1. UNCHANGED <<pc, customer, tables, job, deal>> /\ policy' \in Policy
      BY <1>1 DEF allVars, turnVars, vars, AInv, ActionsTypeOK
    <3>2. QED
      BY <2>2, <3>1, KeptLocals, QuietStep
  <2>4. QED
    BY <1>1, <2>1, <2>3 DEF allVars, tables, ledgerVars
<1>2. CASE ActionsNext
  <2>1. [Next]_vars
    BY <1>2, StepInTurns
  <2>2. IInv'
    BY <2>1, NextIInv
  <2>3. TurnFrame
    <3>1. CASE Next
      BY <3>1, TurnFrameStep
    <3>2. CASE UNCHANGED vars
      BY <3>2 DEF vars, stored, TurnFrame
    <3>3. QED
      BY <2>1, <3>1, <3>2
  <2>4. ASSUME UNCHANGED tables PROVE UNCHANGED ledgerVars
    BY <2>4 DEF tables, ledgerVars
  <2>5. ASSUME NEW t \in Token, NEW k \in Customer, SignInAs(t, k)
        PROVE  AInv' /\ [Ledger!Next]_ledgerVars
    BY <2>3, <2>5, SignInAsStep
  <2>6. ASSUME ReplaceFixture PROVE AInv' /\ [Ledger!Next]_ledgerVars
    BY <2>3, <2>4, <2>6, ReplaceFixtureStep DEF ReplaceFixture
  <2>7. ASSUME TurnStep, Forget, UNCHANGED <<customer, policy, tables>>
        PROVE  AInv' /\ [Ledger!Next]_ledgerVars
    BY <2>3, <2>4, <2>7, TurnStepStep
  <2>8. ASSUME NEW m \in Message, NEW t \in Token, NEW c \in Conversation,
               ArriveMessage(m, t, c)
        PROVE  AInv' /\ [Ledger!Next]_ledgerVars
    BY <2>3, <2>4, <2>8, ArriveMessageStep DEF ArriveMessage
  <2>9. ASSUME NEW m \in Message, AgentProposes(m)
        PROVE  AInv' /\ [Ledger!Next]_ledgerVars
    BY <2>3, <2>4, <2>9, AgentProposesStep DEF AgentProposes
  <2>10. ASSUME NEW m \in Message, PlanFinish(m)
         PROVE  AInv' /\ [Ledger!Next]_ledgerVars
    BY <2>3, <2>4, <2>10, PlanFinishStep DEF PlanFinish
  <2>11. ASSUME NEW m \in Message, FinishOperation(m)
         PROVE  AInv' /\ [Ledger!Next]_ledgerVars
    BY <2>3, <2>11, FinishOperationStep
  <2>12. ASSUME NEW d \in Decision, NEW t \in Token, NEW c \in Conversation,
                NEW p \in Message, NEW choice \in {"confirm", "reject"},
                ArriveDecision(d, t, c, p, choice)
         PROVE  AInv' /\ [Ledger!Next]_ledgerVars
    BY <2>3, <2>4, <2>12, ArriveDecisionStep DEF ArriveDecision
  <2>13. ASSUME NEW d \in Decision, AnswerSaved(d)
         PROVE  AInv' /\ [Ledger!Next]_ledgerVars
    BY <2>3, <2>4, <2>13, AnswerSavedStep DEF AnswerSaved
  <2>14. ASSUME NEW d \in Decision, ReserveDeal(d)
         PROVE  AInv' /\ [Ledger!Next]_ledgerVars
    BY <2>3, <2>4, <2>14, ReserveDealStep DEF ReserveDeal
  <2>15. ASSUME NEW d \in Decision, Recheck(d)
         PROVE  AInv' /\ [Ledger!Next]_ledgerVars
    BY <2>3, <2>4, <2>15, RecheckStep DEF Recheck
  <2>16. ASSUME NEW d \in Decision, ChangeOrder(d)
         PROVE  AInv' /\ [Ledger!Next]_ledgerVars
    BY <2>3, <2>4, <2>16, ChangeOrderStep DEF ChangeOrder
  <2>17. ASSUME NEW d \in Decision, CommitDecision(d)
         PROVE  AInv' /\ [Ledger!Next]_ledgerVars
    BY <2>3, <2>17, CommitDecisionStep, CommitDecisionLedger
  <2>18. AInv' /\ [Ledger!Next]_ledgerVars
    BY <1>2, <2>5, <2>6, <2>7, <2>8, <2>9, <2>10, <2>11, <2>12, <2>13, <2>14, <2>15,
       <2>16, <2>17
    DEF ActionsNext
  <2>19. QED
    BY <2>2, <2>18
<1>3. QED
  BY <1>1, <1>2

-----------------------------------------------------------------------------------

\* The invariants of turns and of actions are inductive.
THEOREM ActionsInvariance == ActionsSpec => [](IInv /\ AInv)
<1>1. QED
  BY InitAInv, NextAInv, PTL DEF ActionsSpec

\* Every change of an order is accounted for by exactly one receipt.
THEOREM OrdersAccounted == ActionsSpec => [](ActionsTypeOK /\ OrderAccounting)
<1>1. IInv /\ AInv => ActionsTypeOK /\ OrderAccounting
  BY DEF AInv
<1>2. QED
  BY <1>1, ActionsInvariance, PTL

\* Proposals, receipts, runs and outputs of decisions agree.
THEOREM DecisionsAccounted == ActionsSpec => []Accounted
<1>1. IInv /\ AInv => Accounted
  BY DEF AInv
<1>2. QED
  BY <1>1, ActionsInvariance, PTL

\* A pending proposal on the order's current version is eligible under its own rules.
THEOREM FreshProposalsEligible == ActionsSpec => []FreshIsEligible
<1>1. ASSUME IInv, AInv PROVE FreshIsEligible
  <2> SUFFICES ASSUME NEW p \in Message, proposal[p] # None,
                      proposal[p].version = order[proposal[p].order].version
               PROVE  Eligible(order[proposal[p].order], proposal[p].order,
                               proposal[p].kind, proposal[p].policy)
    BY DEF FreshIsEligible
  <2>1. Sound(conv[p], proposal[p])
    BY <1>1 DEF AInv, OfferInv
  <2>2. QED
    BY <2>1 DEF Sound, Eligible
<1>2. QED
  BY <1>1, ActionsInvariance, PTL

\* Orders change on behalf of their customer only.
THEOREM OrdersIsolated == ActionsSpec => []Isolation
<1>1. ASSUME IInv, AInv PROVE Isolation
  <2> SUFFICES ASSUME NEW o \in Order, NEW p \in ExecutedOn(o)
               PROVE  OrderCustomer[o] = Identity(conv[p])
    BY DEF Isolation
  <2>1. p \in Message /\ receipt[p] # None /\ proposal[p].order = o
    BY DEF ExecutedOn
  <2>2. Sound(conv[p], proposal[p])
    BY <1>1, <2>1 DEF AInv, OfferInv, ReceiptInv
  <2>3. QED
    BY <2>1, <2>2 DEF Sound
<1>2. QED
  BY <1>1, ActionsInvariance, PTL

\* The concurrent transactions of decisions implement the abstract ledger, in which each
\* decision is one atomic step.
THEOREM ActionsImplementLedger == ActionsSpec => ImplementsLedger
<1>1. ActionsInit => Ledger!Init
  BY DEF ActionsInit
<1>2. QED
  BY <1>1, InitAInv, NextAInv, PTL
  DEF ActionsSpec, ImplementsLedger, Ledger!Spec, ledgerVars

\* Turns keep their guarantees with everything that happens on top of them.
THEOREM ActionsKeepTurns == ActionsSpec => Spec
<1>1. ActionsInit => Init
  BY DEF ActionsInit
<1>2. [ActionsNext]_allVars => [Next]_vars
  BY StepInTurns DEF allVars, turnVars
<1>3. QED
  BY <1>1, <1>2, PTL DEF ActionsSpec, Spec

-----------------------------------------------------------------------------------
(* Tickets.                                                                        *)

CasesOf(c) == {k \in CaseKey : ticket[k] > 0 /\ conv[k[2]] = c}
NextTicket(c) == Cardinality(CasesOf(c)) + 1

\* A case of an operation is saved when its message is done, and the case of a blocked
\* proposal with its receipt.
KeyInv ==
  /\ \A m \in Message : ticket[<<"support-operation", m>>] > 0 => pc[m] = "done"
  /\ \A p \in Message : ticket[<<"blocked-proposal", p>>] > 0 => receipt[p] # None

\* The number that a handler has counted is still the next one of its conversation: it
\* has the conversation to itself.
PlanTicket(m) ==
  job[m] # None /\ job[m].plan # None =>
    /\ pc[m] \in {"saving", "aborting"}
    /\ pc[m] = "saving" => job[m].plan.number \in {0, NextTicket(conv[m])}

DealTicket(d) ==
  deal[d] # None /\ deal[d].stage \in {"checked", "changed"} =>
    deal[d].check.number \in {0, NextTicket(conv[d])}

TicketInv ==
  /\ KeyInv
  /\ TicketsSequential
  /\ \A m \in Message : PlanTicket(m)
  /\ \A d \in Decision : DealTicket(d)

LEMMA CaseKeysFinite == IsFiniteSet(CaseKey)
<1>1. {"support-operation", "blocked-proposal"}
        = {"support-operation"} \cup {"blocked-proposal"}
  OBVIOUS
<1>2. IsFiniteSet({"support-operation"}) /\ IsFiniteSet({"blocked-proposal"})
  BY FS_Singleton
<1>3. IsFiniteSet({"support-operation", "blocked-proposal"})
  BY <1>1, <1>2, FS_Union
<1>4. QED
  BY <1>3, ActionsAssumption, FS_Product DEF CaseKey

LEMMA CasesFinite ==
  ASSUME NEW c
  PROVE  IsFiniteSet(CasesOf(c)) /\ Cardinality(CasesOf(c)) \in Nat
BY CaseKeysFinite, FS_Subset, FS_CardinalityType DEF CasesOf

\* A saved case is that of a message that is done.
LEMMA CaseDone ==
  ASSUME AInv, KeyInv, NEW k \in CaseKey, ticket[k] > 0
  PROVE  k[2] \in Request /\ pc[k[2]] = "done"
<1>1. PICK kind \in {"support-operation", "blocked-proposal"}, m \in Message : k = <<kind, m>>
  BY DEF CaseKey
<1>2. CASE kind = "support-operation"
  BY <1>1, <1>2 DEF KeyInv, Request
<1>3. CASE kind = "blocked-proposal"
  BY <1>1, <1>3 DEF KeyInv, AInv, ReceiptInv, OfferInv, Request
<1>4. QED
  BY <1>1, <1>2, <1>3

LEMMA SameCases ==
  ASSUME AInv, KeyInv, TurnFrame, ticket' = ticket, NEW c
  PROVE  CasesOf(c)' = CasesOf(c)
<1>1. \A k \in CaseKey : ticket[k] > 0 => conv'[k[2]] = conv[k[2]]
  BY CaseDone DEF TurnFrame
<1>2. QED
  BY <1>1 DEF CasesOf

\* Only one request at a time is saving or deciding in a conversation.
LEMMA OneAtWork ==
  ASSUME IInv, NEW q \in Request, NEW r \in Request, q # r, conv[q] = conv[r],
         pc[q] \in {"saving", "deciding"}
  PROVE  pc[r] \notin {"saving", "deciding"}
<1>1. \A s \in Request :
        /\ pc[s] \in {"saving", "deciding"} => conv[s] \in Conversation
        /\ pc[s] = "saving" => active[conv[s]] = s
        /\ pc[s] = "deciding" => lock[conv[s]] = s
  BY DEF IInv, HandlerInv, Reservation, LockInv, Held, Locking
<1>2. \A c \in Conversation : lock[c] # None => active[c] = None
  BY DEF IInv, LockInv
<1>3. None \notin Request
  BY RequestAssumption
<1>4. QED
  BY <1>1, <1>2, <1>3

\* A step that saves no case.
LEMMA NoNewCase ==
  ASSUME IInv, AInv, TicketInv, TurnFrame, ticket' = ticket,
         \A p \in Message : receipt[p] # None => receipt'[p] # None,
         \A m \in Message : job'[m] # None /\ job'[m].plan # None =>
           /\ pc'[m] \in {"saving", "aborting"} /\ pc[m] # "idle"
           /\ pc'[m] = "saving" => job'[m].plan.number \in {0, NextTicket(conv[m])},
         \A d \in Decision : deal'[d] # None /\ deal'[d].stage \in {"checked", "changed"} =>
           /\ pc[d] # "idle"
           /\ deal'[d].check.number \in {0, NextTicket(conv[d])}
  PROVE  TicketInv'
<1>1. KeyInv
  BY DEF TicketInv
<1>2. \A c : CasesOf(c)' = CasesOf(c)
  BY <1>1, SameCases
<1>3. KeyInv'
  BY <1>1 DEF KeyInv, TurnFrame, Request
<1>4. TicketsSequential'
  <2>1. ASSUME NEW c \in Conversation
        PROVE  {ticket'[k] : k \in CasesOf(c)'} = 1 .. Cardinality(CasesOf(c)')
    <3>1. {ticket[k] : k \in CasesOf(c)} = 1 .. Cardinality(CasesOf(c))
      BY DEF TicketInv, TicketsSequential, CasesOf
    <3>2. QED
      BY <1>2, <3>1
  <2>2. QED
    BY <2>1 DEF TicketsSequential, CasesOf
<1>5. ASSUME NEW q \in Request, pc[q] # "idle"
      PROVE  NextTicket(conv[q])' = NextTicket(conv[q])
  BY <1>2, <1>5 DEF NextTicket, TurnFrame
<1>6. \A m \in Message : PlanTicket(m)'
  BY <1>5 DEF PlanTicket, Request
<1>7. \A d \in Decision : DealTicket(d)'
  BY <1>5 DEF DealTicket, Request
<1>8. QED
  BY <1>3, <1>4, <1>6, <1>7 DEF TicketInv

\* What is counted after a step, and not in conversation c.
OtherPlans(c) ==
  \A m \in Message : job'[m] # None /\ job'[m].plan # None =>
    /\ pc'[m] \in {"saving", "aborting"} /\ pc[m] # "idle"
    /\ pc'[m] = "saving" =>
         conv[m] # c /\ job'[m].plan.number \in {0, NextTicket(conv[m])}

OtherDeals(c) ==
  \A d \in Decision : deal'[d] # None /\ deal'[d].stage \in {"checked", "changed"} =>
    /\ pc[d] # "idle" /\ conv[d] # c
    /\ deal'[d].check.number \in {0, NextTicket(conv[d])}

\* A step that saves the next case of a conversation.
LEMMA NewCase ==
  ASSUME IInv, AInv, TicketInv, KeyInv', TurnFrame, NEW key \in CaseKey, NEW c,
         ticket[key] = 0, key[2] \in Request, pc[key[2]] # "idle", conv[key[2]] = c,
         ticket' = [ticket EXCEPT ![key] = NextTicket(c)],
         OtherPlans(c), OtherDeals(c)
  PROVE  TicketInv'
<1> DEFINE size == Cardinality(CasesOf(c))
<1>1. KeyInv /\ size \in Nat /\ IsFiniteSet(CasesOf(c))
  BY CasesFinite DEF TicketInv
<1>2. /\ ticket'[key] = size + 1
      /\ \A k \in CaseKey : k # key => ticket'[k] = ticket[k]
  BY DEF AInv, ActionsTypeOK, NextTicket
<1>3. \A k \in CaseKey : ticket[k] > 0 => conv'[k[2]] = conv[k[2]]
  BY <1>1, CaseDone DEF TurnFrame
<1>4. conv'[key[2]] = c
  BY DEF TurnFrame
<1>5. ASSUME NEW b, b # c PROVE CasesOf(b)' = CasesOf(b)
  BY <1>2, <1>3, <1>4, <1>5 DEF CasesOf
<1>6. CasesOf(c)' = CasesOf(c) \cup {key} /\ key \notin CasesOf(c)
  <2>1. key \notin CasesOf(c)
    BY DEF CasesOf
  <2>2. ticket'[key] > 0
    BY <1>1, <1>2
  <2>3. QED
    BY <1>2, <1>3, <1>4, <2>1, <2>2 DEF CasesOf
<1>7. Cardinality(CasesOf(c)') = size + 1
  <2>1. Cardinality(CasesOf(c) \cup {key}) = size + 1
    BY <1>1, <1>6, FS_AddElement
  <2>2. QED
    BY <1>6, <2>1
<1> HIDE DEF size
<1>8. TicketsSequential'
  <2>1. ASSUME NEW b \in Conversation
        PROVE  {ticket'[k] : k \in CasesOf(b)'} = 1 .. Cardinality(CasesOf(b)')
    <3>1. {ticket[k] : k \in CasesOf(b)} = 1 .. Cardinality(CasesOf(b))
      BY DEF TicketInv, TicketsSequential, CasesOf
    <3>2. CASE b # c
      <4>1. key \notin CasesOf(b) /\ CasesOf(b) \subseteq CaseKey
        BY DEF CasesOf
      <4>2. \A k \in CasesOf(b) : ticket'[k] = ticket[k]
        BY <1>2, <4>1
      <4>3. {ticket'[k] : k \in CasesOf(b)} = {ticket[k] : k \in CasesOf(b)}
        BY <4>2
      <4>4. QED
        BY <1>5, <3>1, <3>2, <4>3
    <3>3. CASE b = c
      <4>1. \A k \in CasesOf(c) : ticket'[k] = ticket[k]
        BY <1>2, <1>6 DEF CasesOf
      <4>2. {ticket'[k] : k \in CasesOf(c)'} = {ticket[k] : k \in CasesOf(c)} \cup {size + 1}
        BY <1>2, <1>6, <4>1
      <4>3. 1 .. (size + 1) = 1 .. size \cup {size + 1}
        BY <1>1
      <4>4. {ticket[k] : k \in CasesOf(c)} = 1 .. size
        BY <3>1, <3>3 DEF size
      <4>5. QED
        BY <1>7, <3>3, <4>2, <4>3, <4>4
    <3>4. QED
      BY <3>2, <3>3
  <2>2. QED
    BY <2>1 DEF TicketsSequential, CasesOf
<1>9. ASSUME NEW q \in Request, pc[q] # "idle", conv[q] # c
      PROVE  NextTicket(conv[q])' = NextTicket(conv[q])
  <2>1. conv'[q] = conv[q]
    BY <1>9 DEF TurnFrame
  <2>2. CasesOf(conv[q])' = CasesOf(conv[q])
    <3>1. PICK b : b = conv[q]
      OBVIOUS
    <3>2. CasesOf(b)' = CasesOf(b)
      BY <1>5, <1>9, <3>1
    <3>3. QED
      BY <2>1, <3>1, <3>2 DEF CasesOf
  <2>3. QED
    BY <2>2 DEF NextTicket
<1>10. \A m \in Message : PlanTicket(m)'
  BY <1>9 DEF OtherPlans, PlanTicket, Request
<1>11. \A d \in Decision : DealTicket(d)'
  BY <1>9 DEF OtherDeals, DealTicket, Request
<1>12. QED
  BY <1>8, <1>10, <1>11 DEF TicketInv

\* Where messages and decisions may go in the steps of a turn.
LEMMA TurnStepTickets ==
  ASSUME IInv, TurnStep
  PROVE  \A m \in Message :
           /\ pc'[m] = "saving" => pc[m] = "saving"
           /\ pc[m] \in {"saving", "aborting"} => pc'[m] \in {"saving", "aborting", "done"}
<1> USE DEF IInv, TypeOK, Goto, Request
<1>1. ASSUME NEW q \in Request, GiveUp(q) \/ RefuseBusy(q)
      PROVE  pc' = [pc EXCEPT ![q] = "done"]
  BY <1>1 DEF GiveUp, RefuseBusy
<1>2. ASSUME NEW q \in Request, NEW t \in Token, NEW c \in Conversation,
             RefuseUnowned(q, t, c)
      PROVE  pc' = [pc EXCEPT ![q] = "done"]
  BY <1>2 DEF RefuseUnowned
<1>3. ASSUME NEW m \in Message,
             ReserveMessage(m) \/ BeginCommit(m) \/ OpenStream(m) \/ AgentRaises(m)
      PROVE  /\ pc[m] \notin {"saving", "aborting"}
             /\ \E phase \in {"reserving", "opening", "working", "failing"} :
                  pc' = [pc EXCEPT ![m] = phase]
  BY <1>3 DEF ReserveMessage, Reserve, BeginCommit, OpenStream, AgentRaises
<1>4. ASSUME NEW m \in Message,
             \/ FinishException(m) \/ FinishFails(m) \/ Abort(m)
             \/ LateClient(m) \/ LostAbort(m) \/ Killed(m)
      PROVE  \E phase \in {"aborting", "done"} : pc' = [pc EXCEPT ![m] = phase]
  BY <1>4 DEF FinishException, Finish, FinishFails, Abort, LateClient, LostAbort, Killed
<1>5. ASSUME NEW t \in Token, NEW c \in Conversation, CreateConversation(t, c)
      PROVE  pc' = pc
  BY <1>5 DEF CreateConversation
<1>6. SUFFICES ASSUME NEW m \in Message
               PROVE  /\ pc'[m] = "saving" => pc[m] = "saving"
                      /\ pc[m] \in {"saving", "aborting"} =>
                           pc'[m] \in {"saving", "aborting", "done"}
  OBVIOUS
<1>7. CASE \E q \in Request : GiveUp(q) \/ RefuseBusy(q)
  BY <1>1, <1>7
<1>8. CASE \E q \in Request, t \in Token, c \in Conversation : RefuseUnowned(q, t, c)
  BY <1>2, <1>8
<1>9. CASE \E q \in Message :
             ReserveMessage(q) \/ BeginCommit(q) \/ OpenStream(q) \/ AgentRaises(q)
  BY <1>3, <1>9
<1>10. CASE \E q \in Message :
              \/ FinishException(q) \/ FinishFails(q) \/ Abort(q)
              \/ LateClient(q) \/ LostAbort(q) \/ Killed(q)
  BY <1>4, <1>10
<1>11. CASE \E t \in Token, c \in Conversation : CreateConversation(t, c)
  BY <1>5, <1>11
<1>12. QED
  BY <1>7, <1>8, <1>9, <1>10, <1>11, ActionsAssumption, RequestAssumption DEF TurnStep

\* What the requests that go on have counted is as it was.
LEMMA KeptCounts ==
  ASSUME AInv, TicketInv
  PROVE  /\ \A m \in Message : job[m] # None /\ job[m].plan # None =>
              /\ pc[m] \in {"saving", "aborting"} /\ pc[m] # "idle"
              /\ pc[m] = "saving" => job[m].plan.number \in {0, NextTicket(conv[m])}
         /\ \A d \in Decision : deal[d] # None /\ deal[d].stage \in {"checked", "changed"} =>
              /\ pc[d] = "deciding"
              /\ deal[d].check.number \in {0, NextTicket(conv[d])}
BY DEF AInv, DealInv, DealInvOf, ClaimInv, TicketInv, PlanTicket, DealTicket

\* A step that only stops requests, or lets them wait or go on.
LEMMA QuietTickets ==
  ASSUME IInv, AInv, TicketInv, TurnFrame, UNCHANGED <<ticket, receipt>>,
         \A m \in Message : job'[m] = None \/ job'[m] = job[m],
         \A m \in Message : pc'[m] = "done" => job'[m] = None,
         \A m \in Message :
           /\ pc'[m] = "saving" => pc[m] = "saving"
           /\ pc[m] \in {"saving", "aborting"} => pc'[m] \in {"saving", "aborting", "done"},
         \A d \in Decision : deal'[d] = None \/ deal'[d] = deal[d]
  PROVE  TicketInv'
BY KeptCounts, NoNewCase

LEMMA TurnStepKeepsTickets ==
  ASSUME IInv, AInv, TicketInv, TurnFrame, TurnStep, Forget, UNCHANGED tables
  PROVE  TicketInv'
<1>1. /\ \A m \in Message : job'[m] = IF pc'[m] = "done" THEN None ELSE job[m]
      /\ \A d \in Decision : deal'[d] = IF pc'[d] = "done" THEN None ELSE deal[d]
      /\ UNCHANGED <<ticket, receipt>>
  BY DEF Forget, tables
<1>2. QED
  BY <1>1, TurnStepTickets, QuietTickets

\* Decisions that arrive, are answered or reserve, sessions and fixtures.
LEMMA OtherStepsKeepTickets ==
  ASSUME IInv, AInv, TicketInv, TurnFrame,
         \/ \E t \in Token, k \in Customer : SignInAs(t, k)
         \/ ReplaceFixture
         \/ \E d \in Decision : AnswerSaved(d) \/ ReserveDeal(d)
         \/ UNCHANGED allVars
  PROVE  TicketInv'
<1> USE RequestAssumption DEF Request, IInv, TypeOK, Goto
<1>1. ASSUME NEW t \in Token, NEW k \in Customer, SignInAs(t, k)
      PROVE  UNCHANGED <<pc, ticket, receipt, job, deal>>
  BY <1>1 DEF SignInAs, SignIn
<1>2. ReplaceFixture \/ UNCHANGED allVars => UNCHANGED <<pc, ticket, receipt, job, deal>>
  BY DEF ReplaceFixture, allVars, turnVars, vars, tables
<1>3. ASSUME NEW d \in Decision, ReserveDeal(d)
      PROVE  /\ UNCHANGED <<ticket, receipt, job, deal>>
             /\ \A m \in Message : pc'[m] = pc[m]
  BY <1>3 DEF ReserveDeal, ReserveDecision, Reserve, tables
<1>4. ASSUME NEW d \in Decision, AnswerSaved(d)
      PROVE  /\ UNCHANGED <<ticket, receipt>> /\ Forget
             /\ \A m \in Message : pc'[m] = pc[m]
  BY <1>4 DEF AnswerSaved, AnswerWithoutRun, tables
<1>5. /\ \A m \in Message : pc'[m] = pc[m]
      /\ UNCHANGED <<ticket, receipt>>
      /\ UNCHANGED <<job, deal>> \/ Forget
  BY <1>1, <1>2, <1>3, <1>4
<1>6. \A m \in Message : pc[m] = "done" => job[m] = None
  BY DEF AInv, JobInv, JobInvOf
<1>7. QED
  BY <1>5, <1>6, QuietTickets DEF Forget

LEMMA ArriveKeepsTickets ==
  ASSUME IInv, AInv, TicketInv, TurnFrame, NEW t \in Token, NEW c \in Conversation,
         \/ \E m \in Message : ArriveMessage(m, t, c)
         \/ \E d \in Decision, p \in Message, choice \in {"confirm", "reject"} :
              ArriveDecision(d, t, c, p, choice)
  PROVE  TicketInv'
<1> USE RequestAssumption DEF Request, IInv, TypeOK, Goto, Arrive
<1>1. ASSUME NEW m \in Message, ArriveMessage(m, t, c)
      PROVE  TicketInv'
  <2>1. /\ UNCHANGED <<ticket, receipt, deal>>
        /\ \A n \in Message : n # m => job'[n] = job[n] /\ pc'[n] = pc[n]
        /\ job'[m].plan = None
    BY <1>1 DEF ArriveMessage, tables, AInv, ActionsTypeOK
  <2>2. QED
    BY <2>1, KeptCounts, NoNewCase
<1>2. ASSUME NEW d \in Decision, NEW p \in Message, NEW choice \in {"confirm", "reject"},
             ArriveDecision(d, t, c, p, choice)
      PROVE  TicketInv'
  <2>1. /\ UNCHANGED <<ticket, receipt, job>>
        /\ \A n \in Message : pc'[n] = pc[n]
        /\ \A e \in Decision : e # d => deal'[e] = deal[e]
        /\ deal'[d].stage \in {"open", "answered"}
    BY <1>2 DEF ArriveDecision, tables, AInv, ActionsTypeOK
  <2>2. QED
    BY <2>1, KeptCounts, NoNewCase
<1>3. QED
  BY <1>1, <1>2

LEMMA AgentKeepsTickets ==
  ASSUME IInv, AInv, TicketInv, TurnFrame, NEW m \in Message, AgentProposes(m)
  PROVE  TicketInv'
<1>1. PICK op \in Operation : job' = [job EXCEPT ![m].operation = op]
  BY DEF AgentProposes
<1>2. /\ pc[m] = "working" /\ \A n \in Message : n # m => pc'[n] = pc[n]
      /\ UNCHANGED <<ticket, receipt, deal>>
  BY DEF AgentProposes, AgentReturns, Goto, tables, IInv, TypeOK, Request
<1>3. job[m] # None /\ job[m] \in Job
  BY <1>2, JobTypes DEF AInv, JobInv, JobInvOf
<1>4. /\ job'[m].plan = job[m].plan
      /\ \A n \in Message : n # m => job'[n] = job[n]
  BY <1>1, <1>3 DEF AInv, ActionsTypeOK, Job
<1>5. job[m].plan = None
  BY <1>2, <1>3 DEF TicketInv, PlanTicket
<1>6. QED
  BY <1>2, <1>4, <1>5, KeptCounts, NoNewCase

\* The head of the finish transaction counts, and the conversation is its own.
LEMMA PlanKeepsTickets ==
  ASSUME IInv, AInv, TicketInv, TurnFrame, NEW m \in Message, PlanFinish(m)
  PROVE  TicketInv'
<1> DEFINE key == <<"support-operation", m>>
<1>1. /\ pc[m] = "saving" /\ pc' = pc /\ UNCHANGED <<ticket, receipt, deal>>
      /\ job' = [job EXCEPT ![m].plan = Planned(m)]
  BY DEF PlanFinish, turnVars, vars, tables
<1>2. job[m] # None /\ job[m] \in Job /\ job[m].operation # None
  BY <1>1, JobTypes DEF AInv, JobInv, JobInvOf
<1>3. /\ job'[m].plan = Planned(m)
      /\ \A n \in Message : n # m => job'[n] = job[n]
  BY <1>1, <1>2 DEF AInv, ActionsTypeOK, Job
<1>4. key \in CaseKey /\ ticket[key] = 0
  <2>1. key \in CaseKey
    BY DEF CaseKey
  <2>2. ~ ticket[key] > 0
    BY <1>1 DEF TicketInv, KeyInv
  <2>3. QED
    BY <2>1, <2>2 DEF AInv, ActionsTypeOK
<1>5. TicketNumber(conv[m], key) = NextTicket(conv[m])
  BY <1>4 DEF TicketNumber, NextTicket, CasesOf
<1>6. Planned(m).number \in {0, NextTicket(conv[m])}
  <2>1. job[m].operation.kind \in {"answer", "case"} \cup Kind
    BY <1>2, JobTypes DEF AInv, Operation
  <2>2. QED
    BY <1>5, <2>1 DEF Planned, Kind, Ledger!Kind
<1>7. QED
  BY <1>1, <1>3, <1>6, KeptCounts, NoNewCase

LEMMA RecheckKeepsTickets ==
  ASSUME IInv, AInv, TicketInv, TurnFrame, NEW d \in Decision, Recheck(d)
  PROVE  TicketInv'
<1> DEFINE p == deal[d].target
           key == <<"blocked-proposal", p>>
           row == order[proposal[p].order]
           outcome == OutcomeOf(d, row)
           number == IF outcome = "blocked" THEN TicketNumber(conv[d], key) ELSE 0
<1>1. /\ pc[d] = "deciding" /\ pc' = pc /\ UNCHANGED <<ticket, receipt, job>>
      /\ proposal[p].state = "pending" /\ deal[d].stage = "open"
  BY DEF Recheck, Claimable, turnVars, vars, tables
<1>2. deal[d] # None /\ deal[d] \in Deal /\ p \in Message /\ proposal[p] # None
  BY <1>1, DealTypes DEF AInv, DealInv, DealInvOf, ActionsTypeOK
<1>3. /\ deal'[d].check.number = number
      /\ \A e \in Decision : e # d => deal'[e] = deal[e]
  BY <1>2 DEF Recheck, AInv, ActionsTypeOK, Deal
<1>4. receipt[p] = None
  BY <1>1, <1>2 DEF AInv, Accounted
<1>5. key \in CaseKey /\ ticket[key] = 0
  <2>1. key \in CaseKey
    BY <1>2 DEF CaseKey
  <2>2. ~ ticket[key] > 0
    BY <1>2, <1>4 DEF TicketInv, KeyInv
  <2>3. QED
    BY <2>1, <2>2 DEF AInv, ActionsTypeOK
<1>6. TicketNumber(conv[d], key) = NextTicket(conv[d])
  BY <1>5 DEF TicketNumber, NextTicket, CasesOf
<1>7. number \in {0, NextTicket(conv[d])}
  BY <1>6
<1> HIDE DEF number
<1>8. QED
  BY <1>1, <1>3, <1>7, KeptCounts, NoNewCase

LEMMA ChangeKeepsTickets ==
  ASSUME IInv, AInv, TicketInv, TurnFrame, NEW d \in Decision, ChangeOrder(d)
  PROVE  TicketInv'
<1>1. /\ pc[d] = "deciding" /\ pc' = pc /\ UNCHANGED <<ticket, receipt, job>>
      /\ deal[d].stage = "checked" /\ deal' = [deal EXCEPT ![d].stage = "changed"]
  BY DEF ChangeOrder, turnVars, vars, tables
<1>2. deal[d] # None /\ deal[d] \in Deal
  BY <1>1, DealTypes DEF AInv, DealInv, DealInvOf
<1>3. /\ deal'[d].check = deal[d].check
      /\ \A e \in Decision : e # d => deal'[e] = deal[e]
  BY <1>1, <1>2 DEF AInv, ActionsTypeOK, Deal
<1>4. QED
  BY <1>1, <1>2, <1>3, KeptCounts, NoNewCase

\* The transaction that saves the case of a message, or nothing.
LEMMA FinishKeepsTickets ==
  ASSUME IInv, AInv, TicketInv, TurnFrame, NEW m \in Message, FinishOperation(m)
  PROVE  TicketInv'
<1> DEFINE plan == job[m].plan
           key == <<"support-operation", m>>
           c == conv[m]
<1>1. /\ pc[m] = "saving" /\ m \in Request /\ plan # None
      /\ \A q \in Request : pc'[q] = IF q = m THEN "done" ELSE pc[q]
      /\ ticket' = IF plan.number = 0 THEN ticket
                     ELSE [ticket EXCEPT ![key] = plan.number]
      /\ receipt' = receipt
      /\ \A n \in Message : job'[n] = IF pc'[n] = "done" THEN None ELSE job[n]
      /\ \A d \in Decision : deal'[d] = IF pc'[d] = "done" THEN None ELSE deal[d]
  BY DEF FinishOperation, FinishResult, Finish, Goto, Forget, IInv, TypeOK, Request
<1>2. job[m] # None
  BY <1>1 DEF AInv, JobInv, JobInvOf
<1>3. plan.number \in {0, NextTicket(c)}
  BY <1>1, <1>2 DEF TicketInv, PlanTicket
<1>4. \A n \in Message : n \in Request
  BY DEF Request
<1>5. \A d \in Decision : d \in Request
  BY DEF Request
<1>6. CASE plan.number = 0
  <2>1. ticket' = ticket
    BY <1>1, <1>6
  <2>2. QED
    BY <1>1, <1>4, <1>5, <2>1, QuietTickets
<1>7. CASE plan.number # 0
  <2>1. key \in CaseKey /\ key[2] = m
    BY DEF CaseKey
  <2>2. ticket[key] = 0
    <3>1. ~ ticket[key] > 0
      BY <1>1 DEF TicketInv, KeyInv
    <3>2. QED
      BY <2>1, <3>1 DEF AInv, ActionsTypeOK
  <2>3. ticket' = [ticket EXCEPT ![key] = NextTicket(c)]
    BY <1>1, <1>3, <1>7
  <2>4. KeyInv'
    <3>1. \A k \in CaseKey : k # key => ticket'[k] = ticket[k]
      BY <2>3 DEF AInv, ActionsTypeOK
    <3>2. ASSUME NEW n \in Message, ticket'[<<"support-operation", n>>] > 0
          PROVE  pc'[n] = "done"
      <4>1. CASE n = m
        BY <1>1, <4>1
      <4>2. CASE n # m
        <5>1. <<"support-operation", n>> \in CaseKey /\ <<"support-operation", n>> # key
          BY <4>2 DEF CaseKey
        <5>2. pc[n] = "done"
          BY <3>1, <3>2, <5>1 DEF TicketInv, KeyInv
        <5>3. QED
          BY <1>1, <1>4, <5>2
      <4>3. QED
        BY <4>1, <4>2
    <3>3. ASSUME NEW p \in Message, ticket'[<<"blocked-proposal", p>>] > 0
          PROVE  receipt'[p] # None
      <4>1. <<"blocked-proposal", p>> \in CaseKey /\ <<"blocked-proposal", p>> # key
        BY DEF CaseKey
      <4>2. QED
        BY <1>1, <3>1, <3>3, <4>1 DEF TicketInv, KeyInv
    <3>4. QED
      BY <3>2, <3>3 DEF KeyInv
  <2>5. ASSUME NEW n \in Message, job'[n] # None, job'[n].plan # None
        PROVE  /\ pc'[n] \in {"saving", "aborting"} /\ pc[n] # "idle"
               /\ pc'[n] = "saving" =>
                    conv[n] # c /\ job'[n].plan.number \in {0, NextTicket(conv[n])}
    <3>1. n # m /\ job'[n] = job[n] /\ pc'[n] = pc[n]
      BY <1>1, <1>4, <2>5
    <3>2. pc[n] = "saving" => conv[n] # c
      BY <1>1, <1>4, <3>1, OneAtWork
    <3>3. QED
      BY <2>5, <3>1, <3>2, KeptCounts
  <2>6. ASSUME NEW d \in Decision, deal'[d] # None, deal'[d].stage \in {"checked", "changed"}
        PROVE  /\ pc[d] # "idle" /\ conv[d] # c
               /\ deal'[d].check.number \in {0, NextTicket(conv[d])}
    <3>1. d # m /\ deal'[d] = deal[d]
      BY <1>1, <2>6, RequestAssumption
    <3>2. pc[d] = "deciding"
      BY <2>6, <3>1, KeptCounts
    <3>3. conv[d] # c
      BY <1>1, <1>5, <3>1, <3>2, OneAtWork
    <3>4. QED
      BY <2>6, <3>1, <3>2, <3>3, KeptCounts
  <2>7. pc[key[2]] # "idle" /\ conv[key[2]] = c /\ key[2] \in Request
    BY <1>1, <2>1
  <2>8. PICK b : b = c
    OBVIOUS
  <2>9. PICK k : k = key
    OBVIOUS
  <2> HIDE DEF key, c, plan
  <2>10. /\ k \in CaseKey /\ ticket[k] = 0 /\ k[2] \in Request
        /\ pc[k[2]] # "idle" /\ conv[k[2]] = b
        /\ ticket' = [ticket EXCEPT ![k] = NextTicket(b)]
    BY <2>1, <2>2, <2>3, <2>7, <2>8, <2>9
  <2>11. OtherPlans(b)
    BY <2>5, <2>8 DEF OtherPlans
  <2>12. OtherDeals(b)
    BY <2>6, <2>8 DEF OtherDeals
  <2>13. QED
    BY <2>4, <2>10, <2>11, <2>12, NewCase
<1>8. QED
  BY <1>6, <1>7

\* The transaction of a decision, which saves a case if the proposal was blocked.
LEMMA CommitKeepsTickets ==
  ASSUME IInv, AInv, TicketInv, TurnFrame, NEW d \in Decision, CommitDecision(d)
  PROVE  TicketInv'
<1> DEFINE p == deal[d].target
           number == deal[d].check.number
           key == <<"blocked-proposal", p>>
           c == conv[d]
<1>1. /\ deal[d] # None /\ p \in Message /\ proposal[p] # None
      /\ receipt[p] = None /\ receipt'[p] \in Ledger!Receipt
      /\ receipt' = [receipt EXCEPT ![p] = receipt'[p]]
      /\ deal[d].stage \in {"checked", "changed"}
  BY CommitDecisionTables DEF Answered, CommitDecision
<1>2. /\ pc[d] = "deciding" /\ d \in Request
      /\ \A q \in Request : pc'[q] = IF q = d THEN "done" ELSE pc[q]
      /\ ticket' = IF number = 0 THEN ticket ELSE [ticket EXCEPT ![key] = number]
      /\ \A n \in Message : job'[n] = IF pc'[n] = "done" THEN None ELSE job[n]
      /\ \A e \in Decision : deal'[e] = IF pc'[e] = "done" THEN None ELSE deal[e]
  BY DEF CommitDecision, DecideCommit, Goto, Forget, IInv, TypeOK, Request
<1>3. number \in {0, NextTicket(c)}
  BY <1>1 DEF TicketInv, DealTicket
<1>4. conv[p] = c /\ p \in Request /\ pc[p] = "done"
  BY <1>1 DEF AInv, DealInv, DealInvOf, OfferInv, Request
<1>5. \A q \in Message : receipt[q] # None => receipt'[q] # None
  BY <1>1 DEF AInv, ActionsTypeOK
<1>6. receipt'[p] # None
  BY <1>1, ActionsAssumption
<1>7. \A n \in Message : n \in Request /\ n # d
  BY RequestAssumption DEF Request
<1>8. \A e \in Decision : e \in Request
  BY DEF Request
<1>9. ASSUME NEW n \in Message, job'[n] # None, job'[n].plan # None
      PROVE  /\ pc'[n] \in {"saving", "aborting"} /\ pc[n] # "idle"
             /\ pc'[n] = "saving" =>
                  conv[n] # c /\ job'[n].plan.number \in {0, NextTicket(conv[n])}
  <2>1. n # d /\ job'[n] = job[n] /\ pc'[n] = pc[n]
    BY <1>2, <1>7, <1>9
  <2>2. pc[n] = "saving" => conv[n] # c
    BY <1>2, <1>7, <2>1, OneAtWork
  <2>3. QED
    BY <1>9, <2>1, <2>2, KeptCounts
<1>10. ASSUME NEW e \in Decision, deal'[e] # None, deal'[e].stage \in {"checked", "changed"}
       PROVE  /\ pc[e] # "idle" /\ conv[e] # c
              /\ deal'[e].check.number \in {0, NextTicket(conv[e])}
  <2>1. e # d /\ deal'[e] = deal[e]
    BY <1>2, <1>8, <1>10
  <2>2. pc[e] = "deciding"
    BY <1>10, <2>1, KeptCounts
  <2>3. conv[e] # c
    BY <1>2, <1>8, <2>1, <2>2, OneAtWork
  <2>4. QED
    BY <1>10, <2>1, <2>2, <2>3, KeptCounts
<1>11. CASE number = 0
  <2>1. ticket' = ticket
    BY <1>2, <1>11
  <2>2. QED
    BY <1>5, <1>9, <1>10, <2>1, NoNewCase
<1>12. CASE number # 0
  <2>1. key \in CaseKey /\ key[2] = p
    BY <1>1 DEF CaseKey
  <2>2. ticket[key] = 0
    <3>1. ~ ticket[key] > 0
      BY <1>1 DEF TicketInv, KeyInv
    <3>2. QED
      BY <2>1, <3>1 DEF AInv, ActionsTypeOK
  <2>3. ticket' = [ticket EXCEPT ![key] = NextTicket(c)]
    BY <1>2, <1>3, <1>12
  <2>4. KeyInv'
    <3>1. \A k \in CaseKey : k # key => ticket'[k] = ticket[k]
      BY <2>3 DEF AInv, ActionsTypeOK
    <3>2. ASSUME NEW n \in Message, ticket'[<<"support-operation", n>>] > 0
          PROVE  pc'[n] = "done"
      <4>1. <<"support-operation", n>> \in CaseKey /\ <<"support-operation", n>> # key
        BY DEF CaseKey
      <4>2. pc[n] = "done"
        BY <3>1, <3>2, <4>1 DEF TicketInv, KeyInv
      <4>3. QED
        BY <1>2, <1>7, <4>2
    <3>3. ASSUME NEW q \in Message, ticket'[<<"blocked-proposal", q>>] > 0
          PROVE  receipt'[q] # None
      <4>1. CASE q = p
        BY <1>6, <4>1
      <4>2. CASE q # p
        <5>1. <<"blocked-proposal", q>> \in CaseKey /\ <<"blocked-proposal", q>> # key
          BY <4>2 DEF CaseKey
        <5>2. QED
          BY <1>5, <3>1, <3>3, <5>1 DEF TicketInv, KeyInv
      <4>3. QED
        BY <4>1, <4>2
    <3>4. QED
      BY <3>2, <3>3 DEF KeyInv
  <2>5. pc[key[2]] # "idle" /\ conv[key[2]] = c /\ key[2] \in Request
    BY <1>4, <2>1
  <2>6. PICK b : b = c
    OBVIOUS
  <2>7. PICK k : k = key
    OBVIOUS
  <2> HIDE DEF key, c, p, number
  <2>8. /\ k \in CaseKey /\ ticket[k] = 0 /\ k[2] \in Request
        /\ pc[k[2]] # "idle" /\ conv[k[2]] = b
        /\ ticket' = [ticket EXCEPT ![k] = NextTicket(b)]
    BY <2>1, <2>2, <2>3, <2>5, <2>6, <2>7
  <2>9. OtherPlans(b)
    BY <1>9, <2>6 DEF OtherPlans
  <2>10. OtherDeals(b)
    BY <1>10, <2>6 DEF OtherDeals
  <2>11. QED
    BY <2>4, <2>8, <2>9, <2>10, NewCase
<1>13. QED
  BY <1>11, <1>12

LEMMA InitTickets == ActionsInit => TicketInv
<1> SUFFICES ASSUME ActionsInit PROVE TicketInv
  OBVIOUS
<1>1. /\ \A k \in CaseKey : ticket[k] = 0
      /\ \A m \in Message : job[m] = None
      /\ \A d \in Decision : deal[d] = None
  BY DEF ActionsInit
<1>2. KeyInv
  BY <1>1 DEF KeyInv, CaseKey
<1>3. \A c : CasesOf(c) = {}
  BY <1>1 DEF CasesOf
<1>4. TicketsSequential
  <2>1. Cardinality({}) = 0
    BY FS_EmptySet
  <2>2. ASSUME NEW c \in Conversation
        PROVE  {ticket[k] : k \in CasesOf(c)} = 1 .. Cardinality(CasesOf(c))
    BY <1>3, <2>1
  <2>3. QED
    BY <2>2 DEF TicketsSequential, CasesOf
<1>5. QED
  BY <1>1, <1>2, <1>4 DEF TicketInv, PlanTicket, DealTicket

LEMMA NextTickets == IInv /\ AInv /\ TicketInv /\ [ActionsNext]_allVars => TicketInv'
<1> SUFFICES ASSUME IInv, AInv, TicketInv, [ActionsNext]_allVars PROVE TicketInv'
  OBVIOUS
<1>1. TurnFrame
  <2>1. CASE UNCHANGED vars
    BY <2>1 DEF vars, stored, TurnFrame
  <2>2. [Next]_vars
    BY StepInTurns DEF allVars, turnVars
  <2>3. QED
    BY <2>1, <2>2, TurnFrameStep
<1>2. CASE UNCHANGED allVars
  BY <1>1, <1>2, OtherStepsKeepTickets
<1>3. CASE ActionsNext
  <2>1. CASE \/ \E t \in Token, k \in Customer : SignInAs(t, k)
             \/ ReplaceFixture
             \/ \E d \in Decision : AnswerSaved(d) \/ ReserveDeal(d)
    BY <1>1, <2>1, OtherStepsKeepTickets
  <2>2. CASE TurnStep /\ Forget /\ UNCHANGED <<customer, policy, tables>>
    BY <1>1, <2>2, TurnStepKeepsTickets
  <2>3. ASSUME NEW t \in Token, NEW c \in Conversation,
               \/ \E m \in Message : ArriveMessage(m, t, c)
               \/ \E d \in Decision, p \in Message, choice \in {"confirm", "reject"} :
                    ArriveDecision(d, t, c, p, choice)
        PROVE  TicketInv'
    BY <1>1, <2>3, ArriveKeepsTickets
  <2>4. ASSUME NEW m \in Message, AgentProposes(m) \/ PlanFinish(m) \/ FinishOperation(m)
        PROVE  TicketInv'
    BY <1>1, <2>4, AgentKeepsTickets, PlanKeepsTickets, FinishKeepsTickets
  <2>5. ASSUME NEW d \in Decision, Recheck(d) \/ ChangeOrder(d) \/ CommitDecision(d)
        PROVE  TicketInv'
    BY <1>1, <2>5, RecheckKeepsTickets, ChangeKeepsTickets, CommitKeepsTickets
  <2>6. QED
    BY <1>3, <2>1, <2>2, <2>3, <2>4, <2>5 DEF ActionsNext
<1>4. QED
  BY <1>2, <1>3

\* The cases of a conversation have the numbers 1, 2, ... although each was counted in a
\* step of its own: nobody else saves one while the conversation is reserved.
THEOREM TicketsAreSequential == ActionsSpec => []TicketsSequential
<1>1. TicketInv => TicketsSequential
  BY DEF TicketInv
<1>2. QED
  BY <1>1, InitTickets, NextTickets, ActionsInvariance, PTL DEF ActionsSpec

====
