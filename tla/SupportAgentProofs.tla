----------------------------- MODULE SupportAgentProofs -----------------------------
(***********************************************************************************)
(* The bounded agent of customer support, for any orders, tasks, budgets, tool     *)
(* calls and models, and any number of messages: what a turn works from is what    *)
(* its last transaction finds, only requests touch tasks, operations stay within   *)
(* their task's budget and rest on current evidence, and every card has its task.  *)
(***********************************************************************************)
EXTENDS SupportAgent, SequenceTheorems, FiniteSetTheorems, TLAPS

-----------------------------------------------------------------------------------
(* The inductive invariant.                                                        *)

IsSequence(s) == s \in Seq({s[i] : i \in DOMAIN s})

\* The rows of the database, as far as turns and decisions rely on their columns.
IsTask(row) ==
  /\ DOMAIN row = {"kind", "status", "target", "proposal", "policy", "cased", "version", "used"}
  /\ row.used.executions \in Nat /\ row.used.tokens \in Nat /\ row.cased \in BOOLEAN

IsCard(card) == DOMAIN card = {"kind", "order", "version", "rev", "state"}

RowsInv ==
  /\ IsSequence(tasks) /\ IsSequence(proposals)
  /\ \A i \in DOMAIN tasks : IsTask(tasks[i]) /\ tasks[i].proposal \in DOMAIN proposals \cup {None}
  /\ \A p \in DOMAIN proposals : IsCard(proposals[p])
  /\ "version" \in DOMAIN context

\* The memory of a turn.
IsTurn(t) ==
  /\ DOMAIN t = {"rev", "index", "tasks", "context", "asked", "ops", "catalog", "calls", "tools",
                 "final", "task", "directive", "change", "draft", "tokens", "lookups", "requests",
                 "repairs", "turns"}
  /\ t.tokens \in Nat

\* A turn that has not been judged yet.
Blank(t) == IsTurn(t) /\ t.task = None /\ ~ t.ops /\ ~ t.asked /\ t.catalog = {}

\* What a turn has read is what is committed, and the passages it holds are current.
ReadNow(t) ==
  /\ t.tasks = tasks
  /\ t.context # None => "version" \in DOMAIN t.context /\ t.context.version = context.version
  /\ \A e \in t.catalog : e[1] = "policy" => e \in Passages(t.rev)

\* The task of a turn is one a request has selected, as it is committed.
OnTask(t) ==
  t.task # None =>
    /\ t.ops /\ t.task.id \in DOMAIN tasks
    /\ t.task.checkpoint.version = tasks[t.task.id].version
    /\ t.task.checkpoint.used = tasks[t.task.id].used
    /\ t.task.checkpoint.kind = tasks[t.task.id].kind
    /\ t.task.checkpoint.status = tasks[t.task.id].status

BaseOf(t) == IsTurn(t) /\ ReadNow(t) /\ OnTask(t) /\ (t.ops => t.asked)

\* A turn goes on only without a card.
TurnOf(t) == BaseOf(t) /\ (t.task # None => ~ HasCard(t.task))

\* An order change rests on its order and on current policy.
Supported(op, cites, rev) ==
  /\ op.order # None
  /\ \E e \in cites : e[1] = "order" /\ e[2] = op.order
  /\ {e \in cites : e[1] = "policy"} # {}
  /\ {e \in cites : e[1] = "policy"} \subseteq Passages(rev)

\* What an operation needs before it is judged.
Backed(t, op, cites) ==
  /\ t.asked
  /\ t.task # None => t.task.checkpoint.kind = TaskKind(op)
  /\ Prior(t.task).executions < TaskLimits.executions
  /\ Prior(t.task).tokens < TaskLimits.tokens
  /\ op.kind \in ChangeKind => Supported(op, cites, t.rev)

DraftOf(t) ==
  t.draft.operation # None => Backed(t, t.draft.operation, t.draft.cites)

\* The committed resources of the task a response is about.
Spent(task) == IF task = None THEN Unused ELSE tasks[task.id].used

\* What finish may rely on.
ResponseOf(r) ==
  /\ r.tokens \in Nat
  /\ r.context # None => "version" \in DOMAIN r.context /\ r.context.version = context.version
  /\ r.task # None =>
       /\ r.asked /\ r.task.id \in DOMAIN tasks
       /\ r.task.checkpoint.version = tasks[r.task.id].version
       /\ tasks[r.task.id].status = "awaiting_approval" =>
            r.evidence = {} /\ r.operation = None /\ r.reason # "task_abandoned"
  /\ r.requested => r.asked
  /\ r.operation # None =>
       /\ r.asked /\ r.reason # "task_abandoned"
       /\ r.task # None => tasks[r.task.id].kind = TaskKind(r.operation)
       /\ Spent(r.task).executions < TaskLimits.executions
       /\ Spent(r.task).tokens + r.tokens <= TaskLimits.tokens
       /\ r.operation.kind \in ChangeKind => Supported(r.operation, r.evidence, r.rev)

TurnInv ==
  /\ pc \in Phase
  /\ pc = "reading" => Blank(turn)
  /\ pc = "classifying" => Blank(turn) /\ TurnOf(turn)
  /\ pc \in {"deciding", "acting"} => TurnOf(turn)
  /\ pc = "grounding" => TurnOf(turn) /\ DraftOf(turn)
  /\ pc = "finishing" => ResponseOf(response)

AInv == RowsInv /\ CardsMatchTasks /\ TurnInv

-----------------------------------------------------------------------------------
(* Turns and their results.                                                        *)

LEMMA SameRows ==
  ASSUME RowsInv, CardsMatchTasks, UNCHANGED saved
  PROVE  RowsInv' /\ CardsMatchTasks'
BY DEF RowsInv, IsSequence, IsTask, IsCard, CardsMatchTasks, saved

\* A step that only hands a result to finish.
LEMMA HandStep ==
  ASSUME AInv, NEW r, ResponseOf(r), Hand(r)
  PROVE  AInv'
<1>1. RowsInv' /\ CardsMatchTasks'
  BY SameRows DEF AInv, Hand
<1>2. response' = r /\ pc' = "finishing" /\ tasks' = tasks /\ context' = context
  BY DEF Hand, saved
<1>3. (ResponseOf(response))'
  BY <1>2 DEF ResponseOf, Spent, Supported
<1>4. QED
  BY <1>1, <1>2, <1>3 DEF AInv, TurnInv, Phase

\* A step that only goes on with the turn.
LEMMA MoveStep ==
  ASSUME AInv, NEW t, TurnOf(t),
         NEW phase \in {"classifying", "deciding", "acting", "grounding"}, Move(phase, t),
         phase = "classifying" => Blank(t),
         phase = "grounding" => DraftOf(t)
  PROVE  AInv'
<1>1. RowsInv' /\ CardsMatchTasks'
  BY SameRows DEF AInv, Move
<1>2. turn' = t /\ pc' = phase /\ tasks' = tasks /\ context' = context
  BY DEF Move, saved
<1>3. (TurnOf(turn))'
  BY <1>2 DEF TurnOf, BaseOf, IsTurn, ReadNow, OnTask, HasCard
<1>4. phase = "grounding" => (DraftOf(turn))'
  BY <1>2 DEF DraftOf, Backed, Prior, Supported
<1>5. phase = "classifying" => (Blank(turn))'
  BY <1>2 DEF Blank, IsTurn
<1>6. QED
  BY <1>1, <1>2, <1>3, <1>4, <1>5 DEF AInv, TurnInv, Phase

\* The task of a turn has spent what is committed of it.
LEMMA SpentPrior ==
  ASSUME NEW t, BaseOf(t)
  PROVE  Spent(t.task) = Prior(t.task)
BY DEF BaseOf, OnTask, Spent, Prior

LEMMA ResultResponse ==
  ASSUME NEW t, BaseOf(t), NEW disposition, NEW reason, NEW evidence, NEW operation, NEW change,
         t.task # None /\ HasCard(t.task) =>
           evidence = {} /\ operation = None /\ reason # "task_abandoned",
         operation # None =>
           /\ Backed(t, operation, evidence) /\ reason # "task_abandoned"
           /\ Prior(t.task).tokens + t.tokens <= TaskLimits.tokens
  PROVE  ResponseOf(Result(t, disposition, reason, evidence, operation, change))
<1> DEFINE r == Result(t, disposition, reason, evidence, operation, change)
<1>1. /\ r.reason = reason /\ r.evidence = evidence /\ r.operation = operation
      /\ r.task = t.task /\ r.context = t.context /\ r.asked = t.asked
      /\ r.requested = t.ops /\ r.rev = t.rev
      /\ r.tokens = IF Charges(t, reason, operation) THEN t.tokens ELSE 0
  BY DEF Result
<1>2. operation # None => r.tokens = t.tokens
  BY <1>1 DEF Charges
<1>3. r.tokens \in Nat
  BY <1>1 DEF BaseOf, IsTurn
<1> HIDE DEF r
<1>4. r.context # None => "version" \in DOMAIN r.context /\ r.context.version = context.version
  BY <1>1 DEF BaseOf, ReadNow
<1>5. r.task # None =>
       /\ r.asked /\ r.task.id \in DOMAIN tasks
       /\ r.task.checkpoint.version = tasks[r.task.id].version
       /\ tasks[r.task.id].status = "awaiting_approval" =>
            r.evidence = {} /\ r.operation = None /\ r.reason # "task_abandoned"
  BY <1>1 DEF BaseOf, OnTask, HasCard
<1>6. r.operation # None =>
       /\ r.asked /\ r.reason # "task_abandoned"
       /\ r.task # None => tasks[r.task.id].kind = TaskKind(r.operation)
       /\ Spent(r.task).executions < TaskLimits.executions
       /\ Spent(r.task).tokens + r.tokens <= TaskLimits.tokens
       /\ r.operation.kind \in ChangeKind => Supported(r.operation, r.evidence, r.rev)
  BY <1>1, <1>2, SpentPrior DEF BaseOf, OnTask, Backed
<1>7. r.requested => r.asked
  BY <1>1 DEF BaseOf
<1>8. ResponseOf(r)
  BY <1>3, <1>4, <1>5, <1>6, <1>7 DEF ResponseOf
<1>9. QED
  BY <1>8 DEF r

LEMMA FailedResponse ==
  ASSUME NEW t, BaseOf(t)
  PROVE  ResponseOf(Failed(t))
BY ResultResponse DEF Failed

LEMMA LostResponse ==
  ASSUME NEW t, IsTurn(t), t.ops => t.asked
  PROVE  ResponseOf(Lost(t))
<1> DEFINE u == [t EXCEPT !.task = None, !.context = None, !.directive = None]
<1>1. u.task = None /\ u.context = None /\ u.asked = t.asked /\ u.ops = t.ops /\ u.tokens = t.tokens
  BY DEF IsTurn
<1> HIDE DEF u
<1>2. ResponseOf(Failed(u))
  BY <1>1 DEF Failed, Result, ResponseOf, IsTurn
<1>3. QED
  BY <1>2 DEF Lost, u

\* A gate lets an operation through only within the budget of its task.
LEMMA WithinBudget ==
  ASSUME NEW t, BaseOf(t), RowsInv, NEW operation, operation # None,
         Prior(t.task).tokens < TaskLimits.tokens, ~ Overspent(t.task, t.tokens, operation)
  PROVE  Prior(t.task).tokens + t.tokens <= TaskLimits.tokens
<1>1. /\ Prior(t.task).tokens \in Nat /\ t.tokens \in Nat
      /\ TaskLimits.tokens \in Nat /\ MaxTokens \in Nat
  BY TasksAssumption DEF BaseOf, OnTask, IsTurn, RowsInv, IsTask, Prior, Unused
<1>2. t.tokens <= TokenLimit(t.task)
  BY <1>1 DEF Overspent, TokenLimit, Least, Left
<1>3. TokenLimit(t.task) <= TaskLimits.tokens - Prior(t.task).tokens
  BY <1>1 DEF TokenLimit, Least, Left
<1>4. TokenLimit(t.task) \in Nat
  BY <1>1 DEF TokenLimit, Least, Left
<1>5. QED
  BY <1>1, <1>2, <1>3, <1>4

\* Whatever finish, the closure, makes of a result, the transaction may rely on it.
LEMMA FinishedResponse ==
  ASSUME RowsInv, NEW t, BaseOf(t), NEW disposition, NEW reason, NEW evidence, NEW operation,
         t.task # None /\ HasCard(t.task) =>
           evidence = {} /\ operation = None /\ reason # "task_abandoned",
         operation # None => Backed(t, operation, evidence) /\ reason # "task_abandoned"
  PROVE  ResponseOf(Finished(t, disposition, reason, evidence, operation))
<1>1. CASE Overspent(t.task, t.tokens, operation)
  BY <1>1, ResultResponse DEF Finished
<1>2. CASE ~ Overspent(t.task, t.tokens, operation) /\ ChangeRaises(t.change, evidence, reason)
  BY <1>2, FailedResponse DEF Finished
<1>3. CASE ~ Overspent(t.task, t.tokens, operation) /\ ~ ChangeRaises(t.change, evidence, reason)
  <2>1. operation # None => Prior(t.task).tokens + t.tokens <= TaskLimits.tokens
    BY <1>3, WithinBudget DEF Backed
  <2>2. ResponseOf(Result(t, disposition, reason, evidence, operation,
                          FinalChange(t.change, evidence, reason)))
    BY <2>1, ResultResponse
  <2>3. QED
    BY <1>3, <2>2 DEF Finished
<1>4. QED
  BY <1>1, <1>2, <1>3

LEMMA StopStep ==
  ASSUME AInv, NEW t, BaseOf(t), NEW disposition, NEW reason,
         t.task # None /\ HasCard(t.task) => reason # "task_abandoned",
         Stop(t, disposition, reason)
  PROVE  AInv'
<1>1. ResponseOf(Finished(t, disposition, reason, {}, None))
  BY FinishedResponse DEF AInv
<1>2. QED
  BY <1>1, HandStep DEF Stop

\* ~BudgetExhausted says that the task has something left.
LEMMA BudgetLeft ==
  ASSUME RowsInv, NEW t, BaseOf(t), ~ BudgetExhausted(t.task, t.tokens)
  PROVE  /\ Prior(t.task).executions < TaskLimits.executions
         /\ Prior(t.task).tokens < TaskLimits.tokens
<1>1. /\ Prior(t.task).tokens \in Nat /\ Prior(t.task).executions \in Nat /\ t.tokens \in Nat
      /\ TaskLimits.tokens \in Nat /\ TaskLimits.executions \in Nat /\ MaxTokens \in Nat
  BY TasksAssumption DEF BaseOf, OnTask, IsTurn, RowsInv, IsTask, Prior, Unused
<1>2. QED
  BY <1>1 DEF BudgetExhausted, TokenLimit, Least, Left

-----------------------------------------------------------------------------------
(* A message arrives and is judged.                                                *)

LEMMA BeginStep == AInv /\ Begin => AInv'
<1> SUFFICES ASSUME AInv, Begin PROVE AInv'
  OBVIOUS
<1>1. RowsInv' /\ CardsMatchTasks'
  BY SameRows DEF AInv, Begin
<1>2. Blank(turn)'
  BY DEF Begin, Blank, IsTurn, NewTurn
<1>3. QED
  BY <1>1, <1>2 DEF AInv, TurnInv, Begin, Phase

\* What execute has read is current.
LEMMA ReadFacts ==
  ASSUME AInv, pc = "reading"
  PROVE  Blank(turn) /\ Blank(Read) /\ TurnOf(Read)
<1>1. Blank(turn) /\ "version" \in DOMAIN context
  BY DEF AInv, TurnInv, RowsInv
<1> DEFINE scoped == ScopeContext(context, turn.rev)
<1>2. "version" \in DOMAIN scoped /\ scoped.version = context.version
  BY <1>1 DEF ScopeContext
<1> HIDE DEF scoped
<1>3. Read = [turn EXCEPT !.tasks = tasks, !.context = scoped]
  BY DEF Read, scoped
<1>4. /\ DOMAIN Read = DOMAIN turn /\ Read.tasks = tasks /\ Read.context = scoped
      /\ Read.task = turn.task /\ Read.ops = turn.ops /\ Read.asked = turn.asked
      /\ Read.catalog = turn.catalog /\ Read.tokens = turn.tokens
  BY <1>1, <1>3 DEF Blank, IsTurn
<1>5. QED
  BY <1>1, <1>2, <1>4 DEF Blank, TurnOf, BaseOf, IsTurn, ReadNow, OnTask

LEMMA ReceiveStep == AInv /\ Receive => AInv'
<1> SUFFICES ASSUME AInv, Receive PROVE AInv'
  OBVIOUS
<1>1. pc = "reading"
  BY DEF Receive, UnknownHint, Unreadable, AnswerOrderList, ContextLimit, AskIntent
<1>2. Blank(turn) /\ Blank(Read) /\ TurnOf(Read) /\ BaseOf(Read) /\ Read.task = None
  BY <1>1, ReadFacts DEF TurnOf, Blank
<1>3. CASE UnknownHint
  <2>1. ResponseOf(Lost(turn))
    BY <1>2, LostResponse DEF Blank
  <2>2. QED
    BY <1>3, <2>1, HandStep DEF UnknownHint
<1>4. CASE Unreadable
  BY <1>2, <1>4, FailedResponse, HandStep DEF Unreadable
<1>5. CASE AnswerOrderList
  <2> DEFINE t == [Read EXCEPT !.requests = 1]
             found == {<<"order", o, "list">> : o \in Order}
  <2>1. /\ DOMAIN t = DOMAIN Read /\ t.tasks = Read.tasks /\ t.context = Read.context
        /\ t.task = None /\ t.ops = Read.ops /\ t.asked = Read.asked
        /\ t.catalog = Read.catalog /\ t.tokens = Read.tokens /\ t.rev = Read.rev
    BY <1>2 DEF Blank, IsTurn
  <2> HIDE DEF t, found
  <2>2. BaseOf(t)
    BY <1>2, <2>1 DEF BaseOf, IsTurn, ReadNow, OnTask
  <2>3. ResponseOf(Finished(t, "answered", "owned_order_list", found, None))
    BY <2>1, <2>2, FinishedResponse DEF AInv
  <2>4. QED
    BY <1>5, <2>3, HandStep DEF AnswerOrderList, t, found
<1>6. CASE ContextLimit
  BY <1>2, <1>6, StopStep DEF ContextLimit
<1>7. CASE AskIntent
  BY <1>2, <1>7, MoveStep DEF AskIntent
<1>8. QED
  BY <1>3, <1>4, <1>5, <1>6, <1>7 DEF Receive

\* Tokens, and whatever else only the loop looks at, may change in a turn.
LEMMA SameTurn ==
  ASSUME NEW t, NEW u, BaseOf(t), DOMAIN u = DOMAIN t, u.tokens \in Nat, u.tasks = t.tasks,
         u.context = t.context, u.rev = t.rev, u.task = t.task, u.ops = t.ops,
         u.asked = t.asked, \A e \in u.catalog : e[1] = "policy" => e \in Passages(t.rev)
  PROVE  BaseOf(u) /\ (TurnOf(t) => TurnOf(u))
BY DEF BaseOf, IsTurn, ReadNow, OnTask, TurnOf

LEMMA SpendFields ==
  ASSUME NEW t, IsTurn(t), NEW cost \in Nat
  PROVE  LET u == Spend(t, cost) IN
         /\ DOMAIN u = DOMAIN t /\ u.tokens = t.tokens + cost /\ u.tokens \in Nat
         /\ u.tasks = t.tasks /\ u.context = t.context /\ u.rev = t.rev /\ u.task = t.task
         /\ u.ops = t.ops /\ u.asked = t.asked /\ u.catalog = t.catalog
         /\ u.draft = t.draft /\ u.directive = t.directive
BY DEF Spend, IsTurn

LEMMA SpendTurn ==
  ASSUME NEW t, BaseOf(t), NEW cost \in Nat
  PROVE  /\ BaseOf(Spend(t, cost)) /\ (TurnOf(t) => TurnOf(Spend(t, cost)))
         /\ DraftOf(t) => DraftOf(Spend(t, cost))
<1> DEFINE u == Spend(t, cost)
<1>1. /\ DOMAIN u = DOMAIN t /\ u.tokens \in Nat /\ u.tasks = t.tasks /\ u.context = t.context
      /\ u.rev = t.rev /\ u.task = t.task /\ u.ops = t.ops /\ u.asked = t.asked
      /\ u.catalog = t.catalog /\ u.draft = t.draft
  BY SpendFields DEF BaseOf
<1> HIDE DEF u
<1>2. BaseOf(u) /\ (TurnOf(t) => TurnOf(u))
  BY <1>1, SameTurn DEF BaseOf, ReadNow
<1>3. DraftOf(t) => DraftOf(u)
  BY <1>1 DEF DraftOf, Backed
<1>4. QED
  BY <1>2, <1>3 DEF u

\* The judgment of the message decides what the turn may do.
LEMMA ClassifyStep ==
  ASSUME AInv, NEW judged \in [intent : Intent, confident : BOOLEAN], NEW cost \in Nat,
         Classify(judged, cost)
  PROVE  AInv'
<1> DEFINE t == [Spend(turn, cost) EXCEPT !.asked = ServiceRequest(judged)]
<1>1. pc = "classifying" /\ Blank(turn) /\ TurnOf(turn) /\ BaseOf(turn) /\ IsTurn(turn) /\ RowsInv
  BY DEF AInv, TurnInv, Classify, TurnOf, Blank
<1>2. /\ DOMAIN t = DOMAIN turn /\ t.tokens \in Nat /\ t.tasks = turn.tasks
      /\ t.context = turn.context /\ t.rev = turn.rev /\ t.task = None /\ t.ops = FALSE
      /\ t.asked = ServiceRequest(judged) /\ t.catalog = {}
  <2> DEFINE u == Spend(turn, cost)
  <2>1. /\ DOMAIN u = DOMAIN turn /\ u.tokens \in Nat /\ u.tasks = turn.tasks
        /\ u.context = turn.context /\ u.rev = turn.rev /\ u.task = None /\ ~ u.ops
        /\ u.ops = turn.ops /\ u.catalog = {}
    BY <1>1, SpendFields DEF Blank
  <2> HIDE DEF u
  <2>2. t = [u EXCEPT !.asked = ServiceRequest(judged)]
    BY DEF u
  <2>3. QED
    BY <1>1, <2>1, <2>2 DEF IsTurn
<1> HIDE DEF t
<1>3. BaseOf(t) /\ TurnOf(t)
  BY <1>1, <1>2 DEF BaseOf, IsTurn, ReadNow, OnTask, TurnOf
<1>4. CASE BudgetExhausted(None, t.tokens)
  <2>1. Stop(t, "handoff_needed", "task_resource_budget")
    BY <1>4 DEF Classify, StopExhausted, t
  <2>2. QED
    BY <1>2, <1>3, <2>1, StopStep
<1>5. CASE ~ BudgetExhausted(None, t.tokens)
  <2>1. CASE Branch(judged) = "clarify"
    <3>1. Stop(t, "clarification", "intent_uncertain")
      BY <1>5, <2>1 DEF Classify, t
    <3>2. QED
      BY <1>2, <1>3, <3>1, StopStep
  <2>2. CASE Branch(judged) = "unsupported"
    <3>1. Stop(t, "clarification", "unsupported_request")
      BY <1>5, <2>2 DEF Classify, t
    <3>2. QED
      BY <1>2, <1>3, <3>1, StopStep
  <2>3. CASE Branch(judged) = "human_review"
    <3>1. Hand(Finished(t, "handoff_needed", "case_request_validated", {}, HumanCase))
      BY <1>5, <2>3 DEF Classify, t
    <3>2. judged.confident /\ judged.intent = "human"
      BY <2>3 DEF Branch, Intent
    <3>3. Backed(t, HumanCase, {})
      BY <1>1, <1>2, <1>3, <1>5, <3>2, BudgetLeft
         DEF Backed, HumanCase, ChangeKind, ServiceRequest
    <3>4. ResponseOf(Finished(t, "handoff_needed", "case_request_validated", {}, HumanCase))
      BY <1>1, <1>2, <1>3, <3>3, FinishedResponse
    <3>5. QED
      BY <3>1, <3>4, HandStep
  <2>4. CASE Branch(judged) \in {"read_only", "proposal"}
    <3> DEFINE u == [Restored(t) EXCEPT !.ops = Branch(judged) = "proposal"]
    <3>1. Move("deciding", u)
      BY <1>5, <2>4 DEF Classify, t
    <3>2. /\ DOMAIN u = DOMAIN t /\ u.tokens = t.tokens /\ u.tasks = t.tasks
          /\ u.context = t.context /\ u.rev = t.rev /\ u.task = t.task
          /\ u.ops = (Branch(judged) = "proposal") /\ u.asked = t.asked
          /\ u.catalog = PolicyReuse(t.context.policy, t.rev)
      BY <1>3 DEF Restored, BaseOf, IsTurn
    <3> HIDE DEF u
    <3>3. u.ops => u.asked
      BY <1>2, <3>2 DEF Branch, ServiceRequest, Intent
    <3>4. \A e \in u.catalog : e[1] = "policy" => e \in Passages(u.rev)
      BY <3>2 DEF PolicyReuse
    <3>5. TurnOf(u)
      BY <1>2, <1>3, <3>2, <3>3, <3>4 DEF TurnOf, BaseOf, IsTurn, ReadNow, OnTask
    <3>6. QED
      BY <3>1, <3>5, MoveStep
  <2>5. QED
    BY <2>1, <2>2, <2>3, <2>4 DEF Branch, Intent
<1>6. QED
  BY <1>4, <1>5

-----------------------------------------------------------------------------------
(* The model is asked.                                                             *)

LEMMA TurnFacts ==
  ASSUME AInv, pc \in {"deciding", "acting", "grounding"}
  PROVE  /\ TurnOf(turn) /\ BaseOf(turn) /\ IsTurn(turn) /\ RowsInv
         /\ turn.task # None => ~ HasCard(turn.task)
         /\ turn.tasks = tasks
BY DEF AInv, TurnInv, TurnOf, BaseOf, ReadNow

LEMMA AskedTurn ==
  ASSUME AInv, pc = "deciding", NEW cost \in Nat, NEW d
  PROVE  LET u == Asked(cost, d) IN
         /\ TurnOf(u) /\ BaseOf(u) /\ IsTurn(u) /\ u.task = turn.task /\ u.ops = turn.ops
         /\ u.asked = turn.asked /\ DOMAIN u = DOMAIN turn
<1>1. TurnOf(turn) /\ BaseOf(turn) /\ IsTurn(turn)
  BY TurnFacts
<1> DEFINE s == Spend(turn, cost)
           u == Asked(cost, d)
<1>2. /\ DOMAIN s = DOMAIN turn /\ s.tokens \in Nat /\ s.tasks = turn.tasks
      /\ s.context = turn.context /\ s.rev = turn.rev /\ s.task = turn.task
      /\ s.ops = turn.ops /\ s.asked = turn.asked /\ s.catalog = turn.catalog
  BY <1>1, SpendFields
<1> HIDE DEF s
<1>3. u = [s EXCEPT !.turns = @ + 1, !.directive = IF d = None THEN @ ELSE d]
  BY DEF Asked, s
<1> HIDE DEF u
<1>4. /\ DOMAIN u = DOMAIN turn /\ u.tokens \in Nat /\ u.tasks = turn.tasks
      /\ u.context = turn.context /\ u.rev = turn.rev /\ u.task = turn.task
      /\ u.ops = turn.ops /\ u.asked = turn.asked /\ u.catalog = turn.catalog
  BY <1>1, <1>2, <1>3 DEF IsTurn
<1>5. TurnOf(u) /\ BaseOf(u)
  BY <1>1, <1>4, SameTurn DEF BaseOf, ReadNow
<1>6. QED
  BY <1>4, <1>5 DEF u, BaseOf

\* A directive of a turn that may work on a task selects it as it is committed.
LEMMA SelectedTurn ==
  ASSUME AInv, pc = "deciding", Directable(turn), NEW cost \in Nat,
         NEW d, d.mode \in Modes, Selectable(d)
  PROVE  LET u == Selected(cost, d) IN
         /\ BaseOf(u)
         /\ (u.task # None => ~ HasCard(u.task)) => TurnOf(u)
<1>1. TurnOf(turn) /\ BaseOf(turn) /\ IsTurn(turn) /\ turn.tasks = tasks /\ RowsInv
  BY TurnFacts
<1> DEFINE a == Asked(cost, d)
           u == Selected(cost, d)
           row == turn.tasks[d.id]
           now == IF d.mode = "correct" /\ row.status # "awaiting_approval"
                  THEN Corrected(row) ELSE row
<1>2. BaseOf(a) /\ a.ops = turn.ops /\ IsTurn(a)
  BY AskedTurn
<1>3. d.id \in DOMAIN tasks /\ row = tasks[d.id] /\ IsTask(row)
  BY <1>1 DEF Selectable, Candidates, RowsInv
<1> HIDE DEF row
<1>4. /\ now.version = row.version /\ now.used = row.used /\ now.kind = row.kind
      /\ now.status = row.status
  BY <1>3 DEF Corrected, IsTask
<1> HIDE DEF now, a
<1>5. u = [a EXCEPT !.task = [id |-> d.id, checkpoint |-> now]]
  BY DEF Selected, now, row, a
<1> HIDE DEF u
<1>6. /\ DOMAIN u = DOMAIN a /\ u.task = [id |-> d.id, checkpoint |-> now]
      /\ u.tokens = a.tokens /\ u.tasks = a.tasks
      /\ u.context = a.context /\ u.rev = a.rev
      /\ u.ops = a.ops /\ u.asked = a.asked /\ u.catalog = a.catalog
  BY <1>2, <1>5 DEF IsTurn
<1>7. BaseOf(u)
  BY <1>2, <1>3, <1>4, <1>6 DEF BaseOf, IsTurn, ReadNow, OnTask, Directable
<1>8. QED
  BY <1>6, <1>7 DEF TurnOf, u

\* An answer of the model that does not go on with a task.
LEMMA DropTask ==
  ASSUME NEW t, BaseOf(t)
  PROVE  LET u == [t EXCEPT !.task = None] IN TurnOf(u) /\ BaseOf(u) /\ u.task = None
<1> DEFINE u == [t EXCEPT !.task = None]
<1>1. /\ DOMAIN u = DOMAIN t /\ u.task = None /\ u.tokens = t.tokens /\ u.tasks = t.tasks
      /\ u.context = t.context /\ u.rev = t.rev
      /\ u.ops = t.ops /\ u.asked = t.asked /\ u.catalog = t.catalog
  BY DEF BaseOf, IsTurn
<1> HIDE DEF u
<1>2. BaseOf(u) /\ TurnOf(u)
  BY <1>1 DEF BaseOf, IsTurn, ReadNow, OnTask, TurnOf
<1>3. QED
  BY <1>1, <1>2 DEF u

LEMMA MoveWithinStep ==
  ASSUME AInv, NEW t, TurnOf(t), MoveWithin("acting", t)
  PROVE  AInv'
<1>1. CASE BudgetExhausted(t.task, t.tokens)
  BY <1>1, StopStep DEF MoveWithin, StopExhausted, TurnOf
<1>2. CASE ~ BudgetExhausted(t.task, t.tokens)
  <2>1. Move("acting", t)
    BY <1>2 DEF MoveWithin
  <2>2. QED
    BY <2>1, MoveStep
<1>3. QED
  BY <1>1, <1>2

LEMMA AskStep == AInv /\ Ask => AInv'
<1> SUFFICES ASSUME AInv, NEW cost \in ModelCosts,
                    \/ ModelTurn(cost)
                    \/ \E d \in IF Askable THEN Directives(turn.tasks) ELSE {} :
                         \/ DirectiveRefused(cost, d) \/ DirectNew(cost, d)
                         \/ DirectUnavailable(cost, d) \/ DirectCard(cost, d)
                         \/ DirectAbandon(cost, d) \/ DirectTask(cost, d)
             PROVE  AInv'
  BY DEF Ask
<1>1. cost \in Nat
  BY AgentAssumption
<1>2. CASE ModelTurn(cost)
  <2>1. TurnOf(Asked(cost, None)) /\ Move("acting", Asked(cost, None))
    BY <1>1, <1>2, AskedTurn DEF ModelTurn, Askable
  <2>2. QED
    BY <2>1, MoveStep
<1>3. ASSUME NEW d \in Directives(turn.tasks), Askable,
             \/ DirectiveRefused(cost, d) \/ DirectNew(cost, d)
             \/ DirectUnavailable(cost, d) \/ DirectCard(cost, d)
             \/ DirectAbandon(cost, d) \/ DirectTask(cost, d)
      PROVE  AInv'
  <2>1. pc = "deciding" /\ BaseOf(Asked(cost, d)) /\ TurnOf(Asked(cost, d))
    BY <1>1, <1>3, AskedTurn DEF Askable
  <2> DEFINE t == [Asked(cost, d) EXCEPT !.task = None]
             u == Selected(cost, d)
  <2>2. TurnOf(t) /\ BaseOf(t) /\ t.task = None
    BY <2>1, DropTask
  <2> HIDE DEF t
  <2>3. CASE DirectiveRefused(cost, d)
    BY <2>2, <2>3, StopStep DEF DirectiveRefused, t
  <2>4. CASE DirectNew(cost, d)
    BY <2>2, <2>4, MoveWithinStep DEF DirectNew, t
  <2>5. CASE DirectUnavailable(cost, d)
    BY <2>1, <2>5, FailedResponse, HandStep DEF DirectUnavailable
  <2>6. ASSUME Directable(turn), d.mode # "new", Selectable(d)
        PROVE  BaseOf(u) /\ ((u.task # None => ~ HasCard(u.task)) => TurnOf(u))
    <3>1. d.mode \in Modes /\ pc = "deciding"
      BY <2>1, <2>6 DEF Directives
    <3>2. QED
      BY <1>1, <2>6, <3>1, SelectedTurn
  <2> HIDE DEF u
  <2>7. CASE DirectCard(cost, d)
    <3>1. /\ BaseOf(u)
          /\ Stop(u, "clarification", IF d.mode = "resume" THEN "explicit_confirmation_required"
                                      ELSE "explicit_rejection_required")
      BY <2>6, <2>7 DEF DirectCard, u
    <3>2. QED
      BY <3>1, StopStep
  <2>8. CASE DirectAbandon(cost, d)
    <3>1. BaseOf(u) /\ ~ HasCard(u.task) /\ Stop(u, "answered", "task_abandoned")
      BY <2>6, <2>8 DEF DirectAbandon, u
    <3>2. QED
      BY <3>1, StopStep
  <2>9. CASE DirectTask(cost, d)
    <3>1. TurnOf(u) /\ MoveWithin("acting", u)
      BY <2>6, <2>9 DEF DirectTask, u
    <3>2. QED
      BY <3>1, MoveWithinStep
  <2>10. QED
    BY <1>3, <2>3, <2>4, <2>5, <2>7, <2>8, <2>9
<1>4. QED
  BY <1>2, <1>3

-----------------------------------------------------------------------------------
(* Lookups.                                                                        *)

\* What a lookup finds is of the turn's revision: nothing but a search finds passages.
LEMMA ResultsCurrent ==
  ASSUME NEW t, NEW call \in Call, call.name \in Tools,
         call.name = "policy_search" => IndexCurrent(t),
         NEW found \in Results(t, call)
  PROVE  \A e \in found : e[1] = "policy" => e \in Passages(t.rev)
BY DEF Results, IndexCurrent, Tools

\* The turn with its lookup counted.
LEMMA LookupTurn ==
  ASSUME AInv, pc = "acting"
  PROVE  /\ TurnOf(Lookup) /\ BaseOf(Lookup) /\ IsTurn(Lookup)
         /\ TurnOf(Requested) /\ BaseOf(Requested) /\ IsTurn(Requested)
         /\ Requested.index = turn.index /\ Requested.rev = turn.rev
         /\ Requested.task = turn.task /\ Requested.tools = turn.tools
         /\ Requested.catalog = turn.catalog /\ Lookup.catalog = turn.catalog
<1>1. TurnOf(turn) /\ BaseOf(turn) /\ IsTurn(turn)
  BY TurnFacts
<1>2. \A e \in turn.catalog : e[1] = "policy" => e \in Passages(turn.rev)
  BY <1>1 DEF BaseOf, ReadNow
<1>3. /\ DOMAIN Lookup = DOMAIN turn /\ Lookup.tokens \in Nat /\ Lookup.tasks = turn.tasks
      /\ Lookup.context = turn.context /\ Lookup.rev = turn.rev /\ Lookup.task = turn.task
      /\ Lookup.ops = turn.ops /\ Lookup.asked = turn.asked /\ Lookup.catalog = turn.catalog
      /\ Lookup.index = turn.index /\ Lookup.tools = turn.tools
  BY <1>1 DEF Lookup, IsTurn
<1>4. BaseOf(Lookup) /\ TurnOf(Lookup)
  BY <1>1, <1>2, <1>3, SameTurn
<1>5. /\ DOMAIN Requested = DOMAIN Lookup /\ Requested.tokens \in Nat
      /\ Requested.tasks = Lookup.tasks
      /\ Requested.context = Lookup.context /\ Requested.rev = Lookup.rev
      /\ Requested.task = Lookup.task
      /\ Requested.ops = Lookup.ops /\ Requested.asked = Lookup.asked
      /\ Requested.catalog = Lookup.catalog
      /\ Requested.index = Lookup.index /\ Requested.tools = Lookup.tools
  BY <1>1, <1>3 DEF Requested, IsTurn
<1>6. BaseOf(Requested) /\ TurnOf(Requested)
  BY <1>2, <1>3, <1>4, <1>5, SameTurn
<1>7. QED
  BY <1>3, <1>4, <1>5, <1>6 DEF BaseOf

LEMMA CloseTurn ==
  ASSUME NEW t, TurnOf(t)
  PROVE  TurnOf(Close(t)) /\ TurnOf([t EXCEPT !.tools = {"policy_search"}])
<1>1. BaseOf(t) /\ IsTurn(t) /\ \A e \in t.catalog : e[1] = "policy" => e \in Passages(t.rev)
  BY DEF TurnOf, BaseOf, ReadNow
<1>2. ASSUME NEW u, u \in {Close(t), [t EXCEPT !.tools = {"policy_search"}]} PROVE TurnOf(u)
  <2>1. /\ DOMAIN u = DOMAIN t /\ u.tokens \in Nat /\ u.tasks = t.tasks
        /\ u.context = t.context /\ u.rev = t.rev /\ u.task = t.task
        /\ u.ops = t.ops /\ u.asked = t.asked /\ u.catalog = t.catalog
    BY <1>1, <1>2 DEF Close, IsTurn
  <2>2. QED
    BY <1>1, <2>1, SameTurn
<1>3. QED
  BY <1>2

LEMMA FoundTurn ==
  ASSUME NEW t, TurnOf(t), NEW call, NEW found,
         \A e \in found : e[1] = "policy" => e \in Passages(t.rev)
  PROVE  TurnOf(Found(t, call, found))
<1> DEFINE tools == IF call.name = "order_list" THEN t.tools \ {"order_list", "order_detail"}
                    ELSE t.tools
           u == [t EXCEPT !.catalog = @ \cup found, !.calls = @ \cup {call}, !.tools = tools]
<1>1. BaseOf(t) /\ IsTurn(t) /\ \A e \in t.catalog : e[1] = "policy" => e \in Passages(t.rev)
  BY DEF TurnOf, BaseOf, ReadNow
<1> HIDE DEF tools
<1>2. /\ DOMAIN u = DOMAIN t /\ u.tokens \in Nat /\ u.tasks = t.tasks
      /\ u.context = t.context /\ u.rev = t.rev /\ u.task = t.task
      /\ u.ops = t.ops /\ u.asked = t.asked /\ u.catalog = t.catalog \cup found
  BY <1>1 DEF IsTurn
<1>3. Found(t, call, found) = IF Enough(t, call, found) THEN Close(u) ELSE u
  BY DEF Found, tools
<1> HIDE DEF u
<1>4. TurnOf(u)
  BY <1>1, <1>2, SameTurn
<1>5. QED
  BY <1>3, <1>4, CloseTurn

LEMMA LookUpStep == AInv /\ LookUp => AInv'
<1> SUFFICES ASSUME AInv, LookUp PROVE AInv'
  OBVIOUS
<1>1. pc = "acting"
  BY DEF LookUp, FinalLookup, ToolBudget, Looking
<1>2. /\ TurnOf(turn) /\ BaseOf(turn) /\ IsTurn(turn)
      /\ TurnOf(Lookup) /\ BaseOf(Lookup)
      /\ TurnOf(Requested) /\ BaseOf(Requested) /\ IsTurn(Requested)
      /\ Requested.index = turn.index /\ Requested.rev = turn.rev
  BY <1>1, TurnFacts, LookupTurn
<1>3. CASE FinalLookup
  BY <1>2, <1>3, StopStep DEF FinalLookup
<1>4. CASE ToolBudget
  BY <1>2, <1>4, StopStep DEF ToolBudget
<1>5. ASSUME NEW call \in Call, RepeatCall(call) PROVE AInv'
  <2>1. TurnOf(Repeated(Lookup))
    BY <1>2, CloseTurn DEF Repeated
  <2>2. QED
    BY <1>5, <2>1, MoveStep DEF RepeatCall
<1>6. ASSUME NEW call \in Call, UnavailableTool(call) PROVE AInv'
  BY <1>2, <1>6, StopStep DEF UnavailableTool
<1>7. ASSUME NEW call \in Call,
             InvalidArguments(call) \/ IndexUnavailable(call) \/ SearchExhausted(call)
      PROVE  AInv'
  BY <1>2, <1>7, StopStep DEF InvalidArguments, IndexUnavailable, SearchExhausted, StopExhausted
<1>8. ASSUME NEW call \in Call, SearchFails(call) PROVE AInv'
  BY <1>2, <1>8, FailedResponse, HandStep DEF SearchFails
<1>9. ASSUME NEW call \in Call, NEW found \in Results(turn, call), CallTool(call, found)
      PROVE  AInv'
  <2>1. \A e \in found : e[1] = "policy" => e \in Passages(turn.rev)
    BY <1>9, ResultsCurrent, AgentAssumption DEF CallTool
  <2>2. TurnOf(Found(Requested, call, found))
    BY <1>2, <2>1, FoundTurn
  <2>3. QED
    BY <1>9, <2>2, MoveStep DEF CallTool
<1>10. QED
  BY <1>3, <1>4, <1>5, <1>6, <1>7, <1>8, <1>9 DEF LookUp

-----------------------------------------------------------------------------------
(* The model proposes, asks or answers.                                            *)

\* The turn that has recognised the task its operation continues.
LEMMA AdoptedTurn ==
  ASSUME AInv, pc = "acting", NEW op, Acceptable(turn, op)
  PROVE  LET t == Adopted(turn, op) IN
         /\ BaseOf(t)
         /\ t.task # None => t.task.checkpoint.kind = TaskKind(op)
         /\ t.task = turn.task => TurnOf(t)
         /\ t.ops /\ t.rev = turn.rev /\ t.catalog = turn.catalog
<1>1. TurnOf(turn) /\ BaseOf(turn) /\ IsTurn(turn) /\ turn.tasks = tasks /\ RowsInv
  BY TurnFacts
<1> DEFINE m == Matching(turn, op)
           i == CHOOSE k \in m : TRUE
           task == IF turn.task = None /\ Cardinality(m) = 1
                   THEN [id |-> i, checkpoint |-> turn.tasks[i]] ELSE turn.task
           t == Adopted(turn, op)
<1>2. Cardinality(m) = 1 =>
        i \in DOMAIN tasks /\ tasks[i].kind = TaskKind(op)
  <2>1. Cardinality(m) = 1 => m # {}
    BY FS_EmptySet
  <2>2. Cardinality(m) = 1 => i \in m
    BY <2>1
  <2>3. QED
    BY <1>1, <2>2 DEF Matching, Candidates
<1>3. t = [turn EXCEPT !.task = task]
  BY DEF Adopted
<1> HIDE DEF m, i, t
<1>4. task # None =>
        \/ task = turn.task
        \/ /\ task.id \in DOMAIN tasks /\ task.checkpoint = tasks[task.id]
           /\ tasks[task.id].kind = TaskKind(op)
  BY <1>1, <1>2
<1> HIDE DEF task
<1>5. /\ DOMAIN t = DOMAIN turn /\ t.task = task /\ t.tokens = turn.tokens
      /\ t.tasks = turn.tasks /\ t.context = turn.context /\ t.rev = turn.rev
      /\ t.ops = turn.ops /\ t.asked = turn.asked /\ t.catalog = turn.catalog
  BY <1>1, <1>3 DEF IsTurn
<1>6. OnTask(t)
  BY <1>1, <1>4, <1>5 DEF OnTask, BaseOf, Acceptable
<1>7. BaseOf(t)
  BY <1>1, <1>5, <1>6 DEF BaseOf, IsTurn, ReadNow
<1>8. t.task # None => t.task.checkpoint.kind = TaskKind(op)
  BY <1>4, <1>5 DEF Acceptable
<1>9. t.task = turn.task => TurnOf(t)
  BY <1>1, <1>7 DEF TurnOf
<1>10. t.ops
  BY <1>5 DEF Acceptable
<1>11. QED
  BY <1>5, <1>7, <1>8, <1>9, <1>10 DEF t

\* An acceptable operation that has a budget left may be judged.
LEMMA DraftBacked ==
  ASSUME AInv, pc = "acting", NEW op \in Operation, Acceptable(turn, op),
         LET t == Adopted(turn, op) IN ~ BudgetExhausted(t.task, t.tokens)
  PROVE  Backed(Adopted(turn, op), op, op.cites)
<1> DEFINE t == Adopted(turn, op)
<1>1. /\ BaseOf(t) /\ (t.task # None => t.task.checkpoint.kind = TaskKind(op))
      /\ t.ops /\ t.rev = turn.rev /\ t.catalog = turn.catalog
      /\ ~ BudgetExhausted(t.task, t.tokens)
  BY AdoptedTurn
<1> HIDE DEF t
<1>2. RowsInv
  BY DEF AInv
<1>3. /\ Prior(t.task).executions < TaskLimits.executions
      /\ Prior(t.task).tokens < TaskLimits.tokens
  BY <1>1, <1>2, BudgetLeft
<1>4. \A e \in op.cites : e[1] = "policy" => e \in Passages(t.rev)
  BY <1>1 DEF BaseOf, ReadNow, Acceptable
<1>5. op.kind \in ChangeKind => Supported(op, op.cites, t.rev)
  BY <1>4, AgentAssumption DEF Supported, Acceptable, Cites
<1>6. Backed(t, op, op.cites)
  BY <1>1, <1>3, <1>5 DEF Backed, BaseOf
<1>7. QED
  BY <1>6 DEF t

LEMMA RepairStep ==
  ASSUME AInv, NEW t, TurnOf(t), Repair(t)
  PROVE  AInv'
<1>1. BaseOf(t) /\ (t.task # None => ~ HasCard(t.task))
  BY DEF TurnOf
<1>2. CASE t.repairs = MaxRepairs
  BY <1>1, <1>2, StopStep DEF Repair
<1>3. CASE t.repairs # MaxRepairs
  <2> DEFINE u == [t EXCEPT !.repairs = @ + 1, !.draft = None]
  <2>1. Move("deciding", u)
    BY <1>3 DEF Repair
  <2>2. /\ DOMAIN u = DOMAIN t /\ u.tokens \in Nat /\ u.tasks = t.tasks
        /\ u.context = t.context /\ u.rev = t.rev /\ u.task = t.task
        /\ u.ops = t.ops /\ u.asked = t.asked /\ u.catalog = t.catalog
    BY <1>1 DEF BaseOf, IsTurn
  <2>3. \A e \in t.catalog : e[1] = "policy" => e \in Passages(t.rev)
    BY <1>1 DEF BaseOf, ReadNow
  <2> HIDE DEF u
  <2>4. TurnOf(u)
    BY <1>1, <2>2, <2>3, SameTurn
  <2>5. QED
    BY <2>1, <2>4, MoveStep
<1>4. QED
  BY <1>2, <1>3

\* Nothing else of a turn is touched by the change it notes.
LEMMA NotedTurn ==
  ASSUME NEW t, BaseOf(t), NEW change
  PROVE  LET u == Noted(t, change) IN
         /\ BaseOf(u) /\ (TurnOf(t) => TurnOf(u))
         /\ u.task = t.task /\ u.ops = t.ops /\ u.asked = t.asked /\ u.rev = t.rev
<1> DEFINE u == Noted(t, change)
<1>1. IsTurn(t) /\ \A e \in t.catalog : e[1] = "policy" => e \in Passages(t.rev)
  BY DEF BaseOf, ReadNow
<1>2. /\ DOMAIN u = DOMAIN t /\ u.tokens \in Nat /\ u.tasks = t.tasks
      /\ u.context = t.context /\ u.rev = t.rev /\ u.task = t.task
      /\ u.ops = t.ops /\ u.asked = t.asked /\ u.catalog = t.catalog
  BY <1>1 DEF Noted, IsTurn
<1> HIDE DEF u
<1>3. BaseOf(u) /\ (TurnOf(t) => TurnOf(u))
  BY <1>1, <1>2, SameTurn
<1>4. QED
  BY <1>2, <1>3 DEF u

LEMMA DraftedTurn ==
  ASSUME NEW t, TurnOf(t), NEW operation, NEW cites,
         operation # None => Backed(t, operation, cites)
  PROVE  TurnOf(Drafted(t, operation, cites)) /\ DraftOf(Drafted(t, operation, cites))
<1> DEFINE u == Drafted(t, operation, cites)
<1>1. BaseOf(t) /\ \A e \in t.catalog : e[1] = "policy" => e \in Passages(t.rev)
  BY DEF TurnOf, BaseOf, ReadNow
<1>2. /\ DOMAIN u = DOMAIN t /\ u.tokens \in Nat /\ u.tasks = t.tasks
      /\ u.context = t.context /\ u.rev = t.rev /\ u.task = t.task
      /\ u.ops = t.ops /\ u.asked = t.asked /\ u.catalog = t.catalog
      /\ u.draft.operation = operation /\ u.draft.cites = cites
  BY <1>1 DEF Drafted, BaseOf, IsTurn
<1> HIDE DEF u
<1>3. TurnOf(u)
  BY <1>1, <1>2, SameTurn
<1>4. DraftOf(u)
  BY <1>2 DEF DraftOf, Backed
<1>5. QED
  BY <1>3, <1>4 DEF u

LEMMA ConcludeStep == AInv /\ Conclude => AInv'
<1> SUFFICES ASSUME AInv, pc = "acting", NEW change \in Change,
                    \/ ContextRefused(change)
                    \/ \E op \in Operation :
                         \/ ProposalRefused(op, change) \/ ProposalHasCard(op, change)
                         \/ ProposalExhausted(op, change) \/ ProposalBudget(op, change)
                         \/ ProposalChecked(op, change)
                    \/ \E safe \in BOOLEAN : Clarify(safe, change)
                    \/ AnswerUnverified(change) \/ AnswerBudget(change)
                    \/ \E cites \in CiteSets(turn.catalog) : AnswerChecked(cites, change)
             PROVE  AInv'
  BY DEF Conclude
<1>1. TurnOf(turn) /\ BaseOf(turn) /\ RowsInv /\ (turn.task # None => ~ HasCard(turn.task))
  BY TurnFacts
<1> DEFINE noted == Noted(turn, change)
<1>2. TurnOf(noted) /\ BaseOf(noted) /\ (noted.task # None => ~ HasCard(noted.task))
  BY <1>1, NotedTurn
<1> HIDE DEF noted
<1>3. CASE ContextRefused(change)
  BY <1>1, <1>3, FailedResponse, HandStep DEF ContextRefused
<1>4. ASSUME NEW op \in Operation,
             \/ ProposalRefused(op, change) \/ ProposalHasCard(op, change)
             \/ ProposalExhausted(op, change) \/ ProposalBudget(op, change)
             \/ ProposalChecked(op, change)
      PROVE  AInv'
  <2>1. CASE ProposalRefused(op, change)
    BY <1>2, <2>1, StopStep DEF ProposalRefused, noted
  <2> DEFINE t == Adopted(turn, op)
  <2>2. Acceptable(turn, op) =>
          /\ BaseOf(t) /\ (t.task = turn.task => TurnOf(t))
          /\ (t.task # None /\ ~ HasCard(t.task) => TurnOf(t))
    <3>1. Acceptable(turn, op) => BaseOf(t) /\ (t.task = turn.task => TurnOf(t))
      BY AdoptedTurn
    <3>2. QED
      BY <3>1 DEF TurnOf
  <2>3. CASE ProposalHasCard(op, change)
    <3>1. BaseOf(t) /\ Stop(Noted(t, change), "clarification", "explicit_confirmation_required")
      BY <2>2, <2>3 DEF ProposalHasCard
    <3> HIDE DEF t
    <3>2. BaseOf(Noted(t, change))
      BY <3>1, NotedTurn
    <3>3. QED
      BY <3>1, <3>2, StopStep
  <2>4. CASE ProposalExhausted(op, change)
    <3>1. BaseOf(t) /\ Stop(t, "handoff_needed", "task_resource_budget")
      BY <2>2, <2>4 DEF ProposalExhausted, StopExhausted
    <3> HIDE DEF t
    <3>2. QED
      BY <3>1, StopStep
  <2>5. CASE ProposalBudget(op, change)
    <3>1. BaseOf(t) /\ Stop(t, "handoff_needed", "proposal_budget")
      BY <2>2, <2>5 DEF ProposalBudget
    <3> HIDE DEF t
    <3>2. QED
      BY <3>1, StopStep
  <2>6. CASE ProposalChecked(op, change)
    <3> DEFINE n == Noted(t, change)
               u == Drafted(n, op, op.cites)
    <3>1. Acceptable(turn, op) /\ Continues(t) /\ ~ BudgetExhausted(t.task, t.tokens)
          /\ Move("grounding", u)
      BY <2>6 DEF ProposalChecked
    <3>2. TurnOf(t)
      BY <2>2, <3>1 DEF Continues, TurnOf
    <3>3. Backed(t, op, op.cites)
      BY <3>1, DraftBacked
    <3> HIDE DEF t
    <3>4. TurnOf(n) /\ n.task = t.task /\ n.asked = t.asked /\ n.rev = t.rev
      BY <3>2, NotedTurn DEF TurnOf
    <3> HIDE DEF n
    <3>6. Backed(n, op, op.cites)
      BY <3>3, <3>4 DEF Backed
    <3>7. TurnOf(u) /\ DraftOf(u)
      BY <3>4, <3>6, DraftedTurn
    <3> HIDE DEF u
    <3>8. QED
      BY <3>1, <3>7, MoveStep
  <2>7. QED
    BY <1>4, <2>1, <2>3, <2>4, <2>5, <2>6
<1>5. ASSUME NEW safe \in BOOLEAN, Clarify(safe, change) PROVE AInv'
  BY <1>2, <1>5, StopStep DEF Clarify, noted
<1>6. CASE AnswerUnverified(change)
  BY <1>2, <1>6, RepairStep DEF AnswerUnverified, noted
<1>7. CASE AnswerBudget(change)
  BY <1>1, <1>7, StopStep DEF AnswerBudget
<1>8. ASSUME NEW cites \in CiteSets(turn.catalog), AnswerChecked(cites, change) PROVE AInv'
  <2> DEFINE u == Drafted(noted, None, cites)
  <2>1. Move("grounding", u)
    BY <1>8 DEF AnswerChecked, noted
  <2>2. TurnOf(u) /\ DraftOf(u)
    BY <1>2, DraftedTurn
  <2> HIDE DEF u
  <2>3. QED
    BY <2>1, <2>2, MoveStep
<1>9. QED
  BY <1>3, <1>4, <1>5, <1>6, <1>7, <1>8

\* A turn that has spent more tokens is the same turn.
LEMMA SpentTurn ==
  ASSUME AInv, pc \in {"deciding", "acting", "grounding"}, NEW cost \in Nat
  PROVE  LET t == Spend(turn, cost) IN
         /\ TurnOf(t) /\ BaseOf(t) /\ t.draft = turn.draft
         /\ t.task = turn.task /\ t.asked = turn.asked /\ t.rev = turn.rev
<1> DEFINE t == Spend(turn, cost)
<1>1. TurnOf(turn) /\ BaseOf(turn) /\ IsTurn(turn)
      /\ \A e \in turn.catalog : e[1] = "policy" => e \in Passages(turn.rev)
  BY TurnFacts DEF BaseOf, ReadNow
<1>2. /\ DOMAIN t = DOMAIN turn /\ t.tokens \in Nat /\ t.tasks = turn.tasks
      /\ t.context = turn.context /\ t.rev = turn.rev /\ t.task = turn.task
      /\ t.ops = turn.ops /\ t.asked = turn.asked /\ t.catalog = turn.catalog
      /\ t.draft = turn.draft
  BY <1>1 DEF Spend, IsTurn
<1> HIDE DEF t
<1>3. TurnOf(t) /\ BaseOf(t)
  BY <1>1, <1>2, SameTurn
<1>4. QED
  BY <1>2, <1>3 DEF t

LEMMA JudgedStep ==
  ASSUME AInv, NEW cost \in JudgeCosts, Grounded(cost) \/ Rejected(cost)
  PROVE  AInv'
<1> DEFINE t == Spend(turn, cost)
<1>1. pc = "grounding" /\ cost \in Nat
  BY AgentAssumption DEF Grounded, Rejected
<1>2. /\ TurnOf(t) /\ BaseOf(t) /\ t.draft = turn.draft
      /\ t.task = turn.task /\ t.asked = turn.asked /\ t.rev = turn.rev
  BY <1>1, SpentTurn
<1>3. DraftOf(turn) /\ RowsInv
  BY <1>1 DEF AInv, TurnInv
<1> HIDE DEF t
<1>4. DraftOf(t)
  BY <1>2, <1>3 DEF DraftOf, Backed
<1>5. CASE Grounded(cost)
  <2> DEFINE disposition == IF t.draft.operation = None THEN "answered" ELSE "handoff_needed"
             reason == IF t.draft.operation = None THEN "verified" ELSE "proposal_validated"
             r == Finished(t, disposition, reason, t.draft.cites, t.draft.operation)
  <2>1. Hand(r)
    BY <1>5 DEF Grounded, t
  <2>. reason # "task_abandoned"
    OBVIOUS
  <2> HIDE DEF disposition, reason
  <2>2. ResponseOf(r)
    BY <1>2, <1>3, <1>4, FinishedResponse DEF TurnOf, DraftOf
  <2>3. QED
    BY <2>1, <2>2, HandStep
<1>6. CASE Rejected(cost)
  <2>1. CASE turn.draft.operation = None
    BY <1>2, <1>6, <2>1, RepairStep DEF Rejected, t
  <2>2. CASE turn.draft.operation # None
    <3>1. Stop(t, "clarification", "proposal_grounding_rejected")
      BY <1>6, <2>2 DEF Rejected, t
    <3>2. QED
      BY <1>2, <3>1, StopStep
  <2>3. QED
    BY <2>1, <2>2
<1>7. QED
  BY <1>5, <1>6

LEMMA JudgeStep == AInv /\ Judge => AInv'
<1> SUFFICES ASSUME AInv, Judge PROVE AInv'
  OBVIOUS
<1>1. PICK cost \in JudgeCosts :
        \/ \E i \in Intent, sure \in BOOLEAN : Classify([intent |-> i, confident |-> sure], cost)
        \/ Grounded(cost) \/ Rejected(cost)
  BY DEF Judge
<1>2. ASSUME NEW i \in Intent, NEW sure \in BOOLEAN,
             Classify([intent |-> i, confident |-> sure], cost)
      PROVE  AInv'
  <2>1. /\ cost \in Nat
        /\ [intent |-> i, confident |-> sure] \in [intent : Intent, confident : BOOLEAN]
    BY AgentAssumption
  <2>2. QED
    BY <1>2, <2>1, ClassifyStep
<1>3. QED
  BY <1>1, <1>2, JudgedStep

-----------------------------------------------------------------------------------
(* A turn ends early, and the files change.                                        *)

LEMMA LimitStep ==
  ASSUME AInv, TurnBudget \/ LoopLimit
  PROVE  AInv'
<1>1. pc = "deciding"
  BY DEF TurnBudget, LoopLimit
<1>2. BaseOf(turn)
  BY <1>1, TurnFacts
<1>3. QED
  BY <1>2, StopStep DEF TurnBudget, LoopLimit

LEMMA FailStep == AInv /\ Fail => AInv'
<1> SUFFICES ASSUME AInv, Fail PROVE AInv'
  OBVIOUS
<1>1. pc \in {"classifying", "deciding", "acting", "grounding"} =>
        BaseOf(turn) /\ TurnOf(turn)
  BY DEF AInv, TurnInv, TurnOf
<1>2. CASE Interrupted
  <2>1. IsTurn(turn) /\ (turn.ops => turn.asked)
    BY <1>1, <1>2 DEF Interrupted, BaseOf
  <2>2. QED
    BY <1>2, <2>1, LostResponse, HandStep DEF Interrupted
<1>3. ASSUME NEW cost \in ModelCosts \cup {0}, ProviderFails(cost) PROVE AInv'
  <2> DEFINE t == Spend(turn, cost)
  <2>1. cost \in Nat /\ pc \in {"classifying", "deciding", "acting", "grounding"}
    BY <1>3, AgentAssumption DEF ProviderFails, Askable
  <2>2. BaseOf(turn) /\ IsTurn(turn)
        /\ \A e \in turn.catalog : e[1] = "policy" => e \in Passages(turn.rev)
    BY <1>1, <2>1 DEF BaseOf, ReadNow
  <2>3. /\ DOMAIN t = DOMAIN turn /\ t.tokens \in Nat /\ t.tasks = turn.tasks
        /\ t.context = turn.context /\ t.rev = turn.rev /\ t.task = turn.task
        /\ t.ops = turn.ops /\ t.asked = turn.asked /\ t.catalog = turn.catalog
    BY <2>1, <2>2 DEF Spend, IsTurn
  <2>4. Hand(Failed(t))
    BY <1>3 DEF ProviderFails
  <2> HIDE DEF t
  <2>5. BaseOf(t)
    BY <2>2, <2>3, SameTurn
  <2>6. QED
    BY <2>4, <2>5, FailedResponse, HandStep
<1>4. QED
  BY <1>2, <1>3 DEF Fail

LEMMA IdleStep ==
  ASSUME AInv, \/ LostFinishFails \/ FinishFails \/ Abort \/ AbortFails
               \/ ReplaceFixture \/ Ingest
  PROVE  AInv'
<1>1. RowsInv' /\ CardsMatchTasks'
  BY SameRows DEF AInv, LostFinishFails, FinishFails, Abort, AbortFails, ReplaceFixture, Ingest
<1>2. pc' \in {"idle", "aborting", "held"}
  BY DEF LostFinishFails, FinishFails, Abort, AbortFails, ReplaceFixture, Ingest
<1>3. QED
  BY <1>1, <1>2 DEF AInv, TurnInv, Phase

-----------------------------------------------------------------------------------
(* finish saves the turn.                                                          *)

\* A function on an initial segment of the naturals is a sequence.
LEMMA SequenceOf ==
  ASSUME NEW n \in Nat, NEW s, s = [i \in 1 .. n |-> s[i]]
  PROVE  IsSequence(s) /\ Len(s) = n /\ DOMAIN s = 1 .. n
<1> DEFINE S == {s[i] : i \in DOMAIN s}
<1>1. DOMAIN s = 1 .. n
  OBVIOUS
<1>2. s \in [1 .. n -> S]
  BY <1>1
<1>3. s \in Seq(S)
  BY <1>2, SeqDef
<1>4. QED
  BY <1>1, <1>3, LenProperties DEF IsSequence

LEMMA Appended ==
  ASSUME NEW s, IsSequence(s), NEW x
  PROVE  LET u == Append(s, x) IN
         /\ Len(s) \in Nat /\ DOMAIN s = 1 .. Len(s)
         /\ IsSequence(u) /\ Len(u) = Len(s) + 1 /\ DOMAIN u = 1 .. (Len(s) + 1)
         /\ \A i \in DOMAIN s : u[i] = s[i]
         /\ u[Len(s) + 1] = x
<1> DEFINE S == {s[i] : i \in DOMAIN s} \cup {x}
           u == Append(s, x)
<1>1. s \in Seq(S) /\ x \in S
  BY SeqMonotonic DEF IsSequence
<1>2. Len(s) \in Nat /\ DOMAIN s = 1 .. Len(s)
  BY <1>1, LenProperties
<1>3. /\ u \in Seq(S) /\ Len(u) = Len(s) + 1
      /\ \A i \in 1 .. Len(s) : u[i] = s[i]
      /\ u[Len(s) + 1] = x
  BY <1>1, AppendProperties
<1> HIDE DEF S, u
<1>4. u \in [1 .. (Len(s) + 1) -> S]
  BY <1>3, LenProperties
<1>5. IsSequence(u) /\ DOMAIN u = 1 .. (Len(s) + 1)
  BY <1>2, <1>4, SequenceOf
<1>6. QED
  BY <1>2, <1>3, <1>5 DEF u

\* The row `new` is `row` with outcome o on it.
Checkpointed(row, o, new) ==
  LET cited == {e[2] : e \in {e \in o.evidence : e[1] = "order"}}
  IN /\ IsTask(new) /\ new.kind = row.kind
     /\ new.status = StatusAfter(row, o)
     /\ new.used.executions = row.used.executions + 1
     /\ new.used.tokens = row.used.tokens + o.tokens
     /\ new.proposal = IF o.proposal # None THEN o.proposal ELSE row.proposal
     /\ cited # {} => new.target = cited
     /\ cited = {} /\ row.status = "awaiting_approval" => new.target = row.target
     /\ new.cased = (row.cased \/ o.case)

\* What a turn or a decision leaves of a row it works on.
LEMMA CheckpointFields ==
  ASSUME NEW row, IsTask(row), NEW o, o.tokens \in Nat
  PROVE  Checkpointed(row, o, CheckpointResult(row, o))
<1> DEFINE saved0 == IF o.mode = "correct" /\ row.status # "awaiting_approval"
                     THEN Corrected(row) ELSE row
           cited == {e[2] : e \in {e \in o.evidence : e[1] = "order"}}
           status == StatusAfter(saved0, o)
           used == Charged(saved0.used, o)
           policy == SavedPolicies(saved0.policy, o.evidence)
           new == CheckpointResult(row, o)
<1>1. /\ DOMAIN saved0 = DOMAIN row /\ saved0.kind = row.kind /\ saved0.status = row.status
      /\ saved0.used = row.used /\ saved0.proposal = row.proposal /\ saved0.cased = row.cased
      /\ row.status = "awaiting_approval" => saved0.target = row.target
  BY DEF IsTask, Corrected
<1>2. status = StatusAfter(row, o)
  BY <1>1 DEF StatusAfter
<1>3. /\ used.executions = row.used.executions + 1 /\ used.executions \in Nat
      /\ used.tokens = row.used.tokens + o.tokens /\ used.tokens \in Nat
  BY <1>1 DEF Charged, IsTask
<1>4. new = [saved0 EXCEPT
               !.status = status, !.used = used, !.policy = policy, !.version = @ + 1,
               !.target = IF cited # {} THEN cited ELSE @,
               !.proposal = IF o.proposal # None THEN o.proposal ELSE @,
               !.cased = @ \/ o.case]
  BY DEF CheckpointResult
<1> HIDE DEF saved0, cited, status, used, policy, new
<1>5. /\ DOMAIN new = DOMAIN row /\ new.kind = row.kind /\ new.status = status
      /\ new.used = used
      /\ new.target = IF cited # {} THEN cited ELSE saved0.target
      /\ new.proposal = IF o.proposal # None THEN o.proposal ELSE row.proposal
  BY <1>1, <1>4 DEF IsTask
<1>6. new.cased = (row.cased \/ o.case)
  BY <1>1, <1>4 DEF IsTask
<1>7. IsTask(new)
  <2>1. new.cased \in BOOLEAN
    BY <1>6, Zenon
  <2>2. QED
    BY <1>3, <1>5, <2>1 DEF IsTask
<1>8. Checkpointed(row, o, new)
  BY <1>1, <1>2, <1>3, <1>5, <1>6, <1>7 DEF Checkpointed, cited
<1>9. QED
  BY <1>8 DEF new

\* The row a response is about, as finish finds it or opens it.
FoundRow(i, r) == IF i \in DOMAIN tasks THEN tasks[i] ELSE NewTask(OpenedKind(r))

\* The row finish works on; 0 when there is none.
Saved(r) == IF Opens(r) THEN Len(tasks) + 1 ELSE IF r.task = None THEN 0 ELSE r.task.id

LEMMA FinishFacts ==
  ASSUME AInv, Finish
  PROVE  /\ ResponseOf(response)
         /\ IsSequence(tasks') /\ DOMAIN tasks \subseteq DOMAIN tasks'
         /\ \A i \in DOMAIN tasks' :
              i # Saved(response) => i \in DOMAIN tasks /\ tasks'[i] = tasks[i]
         /\ Saved(response) \in DOMAIN tasks' =>
              tasks'[Saved(response)] =
                CheckpointResult(FoundRow(Saved(response), response), Outcome(response))
         /\ Saved(response) \in DOMAIN tasks =>
              response.task # None /\ response.task.id = Saved(response)
         /\ Opens(response) => Saved(response) \in DOMAIN tasks'
<1> DEFINE r == response
           rows == IF Opens(r) THEN Append(tasks, NewTask(OpenedKind(r))) ELSE tasks
           id == IF Opens(r) THEN Len(rows) ELSE IF r.task = None THEN 0 ELSE r.task.id
           out == CheckpointResult(rows[id], Outcome(r))
           n == IF Opens(r) THEN Len(tasks) + 1 ELSE Len(tasks)
<1>1. ResponseOf(r) /\ IsSequence(tasks)
  BY DEF AInv, TurnInv, RowsInv, Finish
<1>2. tasks' = [i \in DOMAIN rows |->
                  IF i = id THEN CheckpointResult(rows[i], Outcome(r)) ELSE rows[i]]
  BY DEF Finish
<1>3. Len(tasks) \in Nat /\ DOMAIN tasks = 1 .. Len(tasks)
  BY <1>1, Appended
<1>4. /\ DOMAIN rows = 1 .. n /\ \A i \in DOMAIN tasks : rows[i] = tasks[i]
      /\ Opens(r) => rows[Len(tasks) + 1] = NewTask(OpenedKind(r))
      /\ Opens(r) => Len(rows) = Len(tasks) + 1
  BY <1>1, <1>3, Appended
<1>5. id = Saved(r)
  BY <1>4 DEF Saved
<1> HIDE DEF rows, id, out, n, r
<1>6. DOMAIN tasks' = 1 .. n /\ n \in Nat
      /\ n = IF Opens(r) THEN Len(tasks) + 1 ELSE Len(tasks)
  BY <1>2, <1>3, <1>4 DEF n
<1>7. \A i \in 1 .. n :
        tasks'[i] = IF i = id THEN CheckpointResult(rows[i], Outcome(r)) ELSE rows[i]
  BY <1>2, <1>4
<1>8. IsSequence(tasks')
  <2>1. tasks' = [i \in 1 .. n |-> tasks'[i]]
    BY <1>2, <1>4
  <2>2. QED
    BY <1>6, <2>1, SequenceOf
<1>9. ASSUME NEW i \in DOMAIN tasks', i # Saved(r)
      PROVE  i \in DOMAIN tasks /\ tasks'[i] = tasks[i]
  <2>1. CASE Opens(r)
    <3>1. Saved(r) = Len(tasks) + 1 /\ n = Len(tasks) + 1
      BY <1>6, <2>1 DEF Saved
    <3>2. i \in 1 .. n /\ i # n
      BY <1>6, <1>9, <3>1
    <3>3. i \in 1 .. Len(tasks)
      BY <1>3, <3>1, <3>2
    <3>4. QED
      BY <1>3, <1>4, <1>5, <1>6, <1>7, <1>9, <3>3
  <2>2. CASE ~ Opens(r)
    BY <1>3, <1>4, <1>5, <1>6, <1>7, <1>9, <2>2
  <2>3. QED
    BY <2>1, <2>2
<1>10. Saved(r) \in DOMAIN tasks' => rows[id] = FoundRow(Saved(r), r)
  BY <1>3, <1>4, <1>5, <1>6 DEF Saved, FoundRow
<1>11. Saved(r) \in DOMAIN tasks' =>
         tasks'[Saved(r)] = CheckpointResult(FoundRow(Saved(r), r), Outcome(r))
  BY <1>5, <1>6, <1>7, <1>10
<1>12. Saved(r) \in DOMAIN tasks => r.task # None /\ r.task.id = Saved(r)
  BY <1>3 DEF Saved
<1>13. DOMAIN tasks \subseteq DOMAIN tasks' /\ (Opens(r) => Saved(r) \in DOMAIN tasks')
  <2>1. CASE Opens(r)
    <3>1. Saved(r) = Len(tasks) + 1 /\ n = Len(tasks) + 1
      BY <1>6, <2>1 DEF Saved
    <3>2. 1 .. Len(tasks) \subseteq 1 .. n /\ n \in 1 .. n
      BY <1>3, <3>1
    <3>3. QED
      BY <1>3, <1>6, <3>1, <3>2
  <2>2. CASE ~ Opens(r)
    BY <1>3, <1>6, <2>2
  <2>3. QED
    BY <2>1, <2>2
<1>14. QED
  BY <1>1, <1>8, <1>9, <1>11, <1>12, <1>13 DEF r

LEMMA OutcomeFields ==
  ASSUME AInv, pc = "finishing"
  PROVE  LET o == Outcome(response)
             r == response
         IN /\ o.reason = r.reason /\ o.evidence = r.evidence /\ o.tokens = r.tokens
            /\ o.tokens \in Nat /\ o.receipt = FALSE /\ o.case = Cases(r)
            /\ Proposes(r) => o.proposal = Len(proposals) + 1 /\ o.proposal # None
            /\ ~ Proposes(r) => o.proposal = None
            /\ Len(proposals) \in Nat /\ DOMAIN proposals = 1 .. Len(proposals)
<1>1. Len(proposals) \in Nat /\ DOMAIN proposals = 1 .. Len(proposals) /\ response.tokens \in Nat
  BY Appended DEF AInv, TurnInv, ResponseOf, RowsInv
<1>2. Len(proposals) + 1 # None
  BY <1>1, TasksAssumption
<1>3. QED
  BY <1>1, <1>2 DEF Outcome

\* The row finish saves: a card stays as it is, and a proposal makes one.
LEMMA FinishRow ==
  ASSUME AInv, Finish, Saved(response) \in DOMAIN tasks'
  PROVE  LET r == response
             row == FoundRow(Saved(r), r)
             new == tasks'[Saved(r)]
         IN /\ IsTask(row) /\ IsTask(new)
            /\ row.proposal \in DOMAIN proposals \cup {None}
            /\ new.used.executions = row.used.executions + 1
            /\ new.used.tokens = row.used.tokens + r.tokens
            /\ new.cased = (row.cased \/ Cases(r))
            /\ new.proposal = IF Proposes(r) THEN Len(proposals) + 1 ELSE row.proposal
            /\ row.status = "awaiting_approval" =>
                 /\ Saved(r) \in DOMAIN tasks /\ ~ Proposes(r)
                 /\ new.status = "awaiting_approval" /\ new.kind = row.kind
                 /\ new.target = row.target
            /\ Proposes(r) =>
                 /\ new.status = "awaiting_approval" /\ new.kind = r.operation.kind
                 /\ r.operation.order \in new.target
            /\ ~ Proposes(r) /\ row.status # "awaiting_approval" => new.status # "awaiting_approval"
<1> DEFINE r == response
           id == Saved(r)
           row == FoundRow(id, r)
           new == tasks'[id]
           o == Outcome(r)
           cited == {e[2] : e \in {e \in o.evidence : e[1] = "order"}}
<1>1. pc = "finishing" /\ ResponseOf(r) /\ new = CheckpointResult(row, o)
      /\ (id \in DOMAIN tasks => r.task # None /\ r.task.id = id)
  BY FinishFacts DEF Finish
<1>2. /\ o.reason = r.reason /\ o.evidence = r.evidence /\ o.tokens = r.tokens
      /\ o.tokens \in Nat /\ o.receipt = FALSE /\ o.case = Cases(r)
      /\ Proposes(r) => o.proposal = Len(proposals) + 1 /\ o.proposal # None
      /\ ~ Proposes(r) => o.proposal = None
  BY <1>1, OutcomeFields
<1>3. IsTask(row) /\ row.proposal \in DOMAIN proposals \cup {None}
      /\ (id \notin DOMAIN tasks => row = NewTask(OpenedKind(r)) /\ row.status = "active")
      /\ (id \in DOMAIN tasks => row = tasks[id])
  BY DEF FoundRow, NewTask, IsTask, Unused, AInv, RowsInv
<1> HIDE DEF o, row, new, id
<1>4. /\ IsTask(new) /\ new.kind = row.kind
      /\ new.status = StatusAfter(row, o)
      /\ new.used.executions = row.used.executions + 1
      /\ new.used.tokens = row.used.tokens + o.tokens
      /\ new.proposal = IF o.proposal # None THEN o.proposal ELSE row.proposal
      /\ cited # {} => new.target = cited
      /\ cited = {} /\ row.status = "awaiting_approval" => new.target = row.target
      /\ new.cased = (row.cased \/ o.case)
  <2>1. Checkpointed(row, o, CheckpointResult(row, o))
    BY <1>2, <1>3, CheckpointFields
  <2>2. Checkpointed(row, o, new)
    BY <1>1, <2>1
  <2>3. QED
    BY <2>2 DEF Checkpointed
<1>5. ASSUME row.status = "awaiting_approval"
      PROVE  /\ id \in DOMAIN tasks /\ ~ Proposes(r) /\ new.status = "awaiting_approval"
             /\ new.target = row.target
  <2>0. id \in DOMAIN tasks /\ row = tasks[id] /\ r.task # None /\ r.task.id = id
    BY <1>1, <1>3, <1>5
  <2>1. r.evidence = {} /\ r.operation = None /\ r.reason # "task_abandoned"
    BY <1>1, <1>5, <2>0 DEF ResponseOf
  <2>2. ~ Proposes(r) /\ ~ Cases(r)
    BY <2>1 DEF Proposes, Cases
  <2>3. new.status = "awaiting_approval"
    BY <1>2, <1>4, <1>5, <2>1, <2>2 DEF StatusAfter
  <2>4. cited = {}
    BY <1>2, <2>1
  <2>5. QED
    BY <1>4, <1>5, <2>0, <2>2, <2>3, <2>4
<1>6. ASSUME Proposes(r)
      PROVE  /\ new.status = "awaiting_approval" /\ new.kind = r.operation.kind
             /\ r.operation.order \in new.target
  <2>1. /\ r.operation # None /\ r.operation.kind \in ChangeKind /\ r.reason # "task_abandoned"
        /\ Supported(r.operation, r.evidence, r.rev)
        /\ r.task # None => tasks[r.task.id].kind = TaskKind(r.operation)
    BY <1>1, <1>6 DEF Proposes, ResponseOf
  <2>2. ~ Cases(r)
    BY <1>6 DEF Cases
  <2>3. new.status = "awaiting_approval"
    BY <1>2, <1>4, <1>6, <2>1, <2>2 DEF StatusAfter
  <2>4. row.kind = TaskKind(r.operation)
    BY <1>1, <1>3, <2>1 DEF NewTask, OpenedKind
  <2>5. r.operation.order \in cited
    BY <1>2, <2>1 DEF Supported
  <2>6. QED
    BY <1>4, <2>1, <2>3, <2>4, <2>5 DEF TaskKind, ChangeKind
<1>7. ASSUME ~ Proposes(r), row.status # "awaiting_approval"
      PROVE  new.status # "awaiting_approval"
  BY <1>2, <1>4, <1>7 DEF StatusAfter
<1>8. QED
  BY <1>2, <1>3, <1>4, <1>5, <1>6, <1>7 DEF row, new, id, o

\* A proposal is added after the others.
LEMMA FinishCards ==
  ASSUME AInv, Finish
  PROVE  /\ IsSequence(proposals') /\ DOMAIN proposals \subseteq DOMAIN proposals'
         /\ \A p \in DOMAIN proposals : proposals'[p] = proposals[p]
         /\ Proposes(response) =>
              /\ DOMAIN proposals' = DOMAIN proposals \cup {Len(proposals) + 1}
              /\ Len(proposals') = Len(proposals) + 1
              /\ proposals'[Len(proposals) + 1] = SavedProposal(response)
              /\ Len(proposals) + 1 \notin DOMAIN proposals \cup {None}
         /\ ~ Proposes(response) => proposals' = proposals
<1>1. IsSequence(proposals) /\ pc = "finishing"
  BY DEF AInv, RowsInv, Finish
<1>2. Len(proposals) \in Nat /\ DOMAIN proposals = 1 .. Len(proposals)
  BY <1>1, OutcomeFields
<1>3. proposals' = IF Proposes(response) THEN Append(proposals, SavedProposal(response))
                   ELSE proposals
  BY DEF Finish
<1>4. CASE Proposes(response)
  <2> DEFINE more == Append(proposals, SavedProposal(response))
             len == Len(proposals)
  <2>1. /\ IsSequence(more) /\ Len(more) = len + 1 /\ DOMAIN more = 1 .. (len + 1)
        /\ \A i \in DOMAIN proposals : more[i] = proposals[i]
        /\ more[len + 1] = SavedProposal(response)
    BY <1>1, Appended
  <2>2. proposals' = more
    BY <1>3, <1>4
  <2> HIDE DEF more, len
  <2>3. len \in Nat /\ DOMAIN proposals = 1 .. len
    BY <1>2 DEF len
  <2>4. 1 .. (len + 1) = (1 .. len) \cup {len + 1} /\ len + 1 \notin 1 .. len /\ len + 1 # None
    BY <2>3, TasksAssumption
  <2>5. QED
    BY <1>4, <2>1, <2>2, <2>3, <2>4 DEF len
<1>5. QED
  BY <1>1, <1>3, <1>4

\* Every card keeps its task, and a new card gets the task the operation went to.
LEMMA FinishMatch ==
  ASSUME AInv, Finish
  PROVE  CardsMatchTasks'
<1> DEFINE r == response
           id == Saved(r)
           row == FoundRow(id, r)
           c == Len(proposals) + 1
<1>1. /\ DOMAIN tasks \subseteq DOMAIN tasks'
      /\ \A i \in DOMAIN tasks' : i # id => i \in DOMAIN tasks /\ tasks'[i] = tasks[i]
      /\ id \in DOMAIN tasks => r.task # None /\ r.task.id = id
      /\ Opens(r) => id \in DOMAIN tasks'
      /\ ResponseOf(r)
  BY FinishFacts
<1>2. id \in DOMAIN tasks' =>
        /\ tasks'[id].proposal = IF Proposes(r) THEN c ELSE row.proposal
        /\ row.status = "awaiting_approval" =>
             /\ id \in DOMAIN tasks /\ ~ Proposes(r)
             /\ tasks'[id].status = "awaiting_approval" /\ tasks'[id].kind = row.kind
             /\ tasks'[id].target = row.target
        /\ Proposes(r) =>
             /\ tasks'[id].status = "awaiting_approval" /\ tasks'[id].kind = r.operation.kind
             /\ r.operation.order \in tasks'[id].target
        /\ ~ Proposes(r) /\ row.status # "awaiting_approval" =>
             tasks'[id].status # "awaiting_approval"
  BY FinishRow
<1>3. /\ DOMAIN proposals \subseteq DOMAIN proposals'
      /\ \A p \in DOMAIN proposals : proposals'[p] = proposals[p]
      /\ Proposes(r) =>
           /\ DOMAIN proposals' = DOMAIN proposals \cup {c}
           /\ proposals'[c] = SavedProposal(r)
           /\ c \notin DOMAIN proposals \cup {None}
      /\ ~ Proposes(r) => proposals' = proposals
  BY FinishCards
<1>4. /\ \A i \in DOMAIN tasks : tasks[i].proposal \in DOMAIN proposals \cup {None}
      /\ CardsMatch(tasks, proposals)
  BY DEF AInv, RowsInv, CardsMatchTasks
<1>5. /\ id \in DOMAIN tasks => row = tasks[id]
      /\ id \notin DOMAIN tasks => row.proposal = None /\ row.status = "active"
  BY DEF FoundRow, NewTask
<1>6. Proposes(r) => id \in DOMAIN tasks'
  BY <1>1 DEF Proposes, Opens, Saved, ResponseOf
<1>7. \A p \in DOMAIN proposals : p # None
  <2>1. DOMAIN proposals \subseteq Nat
    BY OutcomeFields DEF Finish
  <2>2. QED
    BY <2>1, TasksAssumption
<1>8. Proposes(r) => SavedProposal(r).kind = r.operation.kind
                     /\ SavedProposal(r).order = r.operation.order
                     /\ SavedProposal(r).state = "pending"
  BY DEF SavedProposal
<1> HIDE DEF r, id, row, c
<1>9. ASSUME NEW p \in DOMAIN proposals', proposals'[p].state = "pending"
      PROVE  \E i \in DOMAIN tasks' :
               /\ {j \in DOMAIN tasks' : tasks'[j].proposal = p} = {i}
               /\ tasks'[i].status = "awaiting_approval"
               /\ tasks'[i].kind = proposals'[p].kind
               /\ proposals'[p].order \in tasks'[i].target
  <2>1. CASE p \in DOMAIN proposals
    <3>1. proposals'[p] = proposals[p] /\ p # None
      BY <1>3, <1>7, <2>1
    <3>2. PICK i \in DOMAIN tasks :
            /\ {j \in DOMAIN tasks : tasks[j].proposal = p} = {i}
            /\ tasks[i].status = "awaiting_approval"
            /\ tasks[i].kind = proposals[p].kind
            /\ proposals[p].order \in tasks[i].target
      BY <1>4, <1>9, <2>1, <3>1 DEF CardsMatch
    <3>3. /\ i \in DOMAIN tasks' /\ tasks'[i].proposal = p
          /\ tasks'[i].status = "awaiting_approval" /\ tasks'[i].kind = proposals[p].kind
          /\ proposals[p].order \in tasks'[i].target
      BY <1>1, <1>2, <1>5, <3>2
    <3>4. ASSUME NEW j \in DOMAIN tasks', tasks'[j].proposal = p PROVE j = i
      BY <1>1, <1>2, <1>3, <1>5, <2>1, <3>1, <3>2, <3>4
    <3>5. QED
      BY <3>1, <3>3, <3>4
  <2>2. CASE p \notin DOMAIN proposals
    <3>1. Proposes(r) /\ p = c /\ proposals'[p] = SavedProposal(r)
      BY <1>3, <2>2
    <3>2. /\ id \in DOMAIN tasks' /\ tasks'[id].proposal = p
          /\ tasks'[id].status = "awaiting_approval" /\ tasks'[id].kind = proposals'[p].kind
          /\ proposals'[p].order \in tasks'[id].target
      BY <1>2, <1>6, <1>8, <3>1
    <3>3. ASSUME NEW j \in DOMAIN tasks', tasks'[j].proposal = p PROVE j = id
      BY <1>1, <1>3, <1>4, <3>1, <3>3
    <3>4. QED
      BY <3>2, <3>3
  <2>3. QED
    BY <2>1, <2>2
<1>10. ASSUME NEW i \in DOMAIN tasks', tasks'[i].status = "awaiting_approval"
       PROVE  /\ tasks'[i].proposal \in DOMAIN proposals'
              /\ proposals'[tasks'[i].proposal].state = "pending"
  <2>1. CASE i = id /\ Proposes(r)
    BY <1>2, <1>3, <1>8, <2>1
  <2>2. CASE ~ (i = id /\ Proposes(r))
    <3>1. i \in DOMAIN tasks /\ tasks'[i].proposal = tasks[i].proposal
          /\ tasks[i].status = "awaiting_approval"
      BY <1>1, <1>2, <1>5, <1>10, <2>2
    <3>2. tasks[i].proposal \in DOMAIN proposals /\ proposals[tasks[i].proposal].state = "pending"
      BY <1>4, <3>1 DEF CardsMatch
    <3>3. QED
      BY <1>3, <3>1, <3>2
  <2>3. QED
    BY <2>1, <2>2
<1>11. QED
  BY <1>9, <1>10 DEF CardsMatchTasks, CardsMatch

LEMMA FinishStep == AInv /\ Finish => AInv'
<1> SUFFICES ASSUME AInv, Finish PROVE AInv'
  OBVIOUS
<1>1. CardsMatchTasks'
  BY FinishMatch
<1>2. IsSequence(tasks') /\ IsSequence(proposals')
  BY FinishFacts, FinishCards
<1>3. \A i \in DOMAIN tasks' :
        IsTask(tasks'[i]) /\ tasks'[i].proposal \in DOMAIN proposals' \cup {None}
  <2>1. ASSUME NEW i \in DOMAIN tasks', i = Saved(response)
        PROVE  IsTask(tasks'[i]) /\ tasks'[i].proposal \in DOMAIN proposals' \cup {None}
    <3>1. /\ IsTask(tasks'[Saved(response)])
          /\ \/ Proposes(response) /\ tasks'[Saved(response)].proposal = Len(proposals) + 1
             \/ tasks'[Saved(response)].proposal \in DOMAIN proposals \cup {None}
      BY <2>1, FinishRow
    <3>2. QED
      BY <2>1, <3>1, FinishCards
  <2>2. ASSUME NEW i \in DOMAIN tasks', i # Saved(response)
        PROVE  IsTask(tasks'[i]) /\ tasks'[i].proposal \in DOMAIN proposals' \cup {None}
    <3>1. i \in DOMAIN tasks /\ tasks'[i] = tasks[i]
      BY <2>2, FinishFacts
    <3>2. IsTask(tasks[i]) /\ tasks[i].proposal \in DOMAIN proposals \cup {None}
      BY <3>1 DEF AInv, RowsInv
    <3>3. QED
      BY <3>1, <3>2, FinishCards
  <2>3. QED
    BY <2>1, <2>2
<1>4. \A p \in DOMAIN proposals' : IsCard(proposals'[p])
  <2>1. \A p \in DOMAIN proposals : IsCard(proposals[p])
    BY DEF AInv, RowsInv
  <2>2. IsCard(SavedProposal(response))
    BY DEF IsCard, SavedProposal
  <2>3. QED
    BY <2>1, <2>2, FinishCards
<1>5. "version" \in DOMAIN context'
  <2>1. "version" \in DOMAIN context
        /\ (response.context # None => "version" \in DOMAIN response.context)
    BY FinishFacts DEF AInv, RowsInv, ResponseOf
  <2>2. context' = context \/ \E told : context' = CommitContext(response.context, told)
                              /\ response.context # None
    BY DEF Finish
  <2>3. QED
    BY <2>1, <2>2 DEF CommitContext
<1>6. RowsInv'
  BY <1>2, <1>3, <1>4, <1>5 DEF RowsInv, IsTask, IsCard, IsSequence
<1>7. QED
  BY <1>1, <1>6 DEF AInv, TurnInv, Finish, Phase

-----------------------------------------------------------------------------------
(* A decision, and the start.                                                      *)

\* A decision closes its card together with the task that holds it.
LEMMA DecideStep ==
  ASSUME AInv, NEW p \in DOMAIN proposals, NEW decision, Decide(p, decision)
  PROVE  AInv'
<1> DEFINE state == DecidedState(p, decision)
           told == [reason |-> state, disposition |-> "action", evidence |-> {},
                    tokens |-> 0, requests |-> 0, mode |-> None, proposal |-> None,
                    case |-> state = "blocked", receipt |-> TRUE]
<1>1. /\ pc = "idle" /\ pc' = "idle" /\ context' = context
      /\ IsSequence(tasks) /\ IsSequence(proposals) /\ "version" \in DOMAIN context
      /\ \A i \in DOMAIN tasks :
           IsTask(tasks[i]) /\ tasks[i].proposal \in DOMAIN proposals \cup {None}
      /\ \A q \in DOMAIN proposals : IsCard(proposals[q])
      /\ CardsMatch(tasks, proposals)
  BY DEF Decide, Unreserved, saved, AInv, RowsInv, CardsMatchTasks
<1>2. /\ proposals' = [proposals EXCEPT ![p].state = state]
      /\ tasks' = [i \in DOMAIN tasks |->
                     IF i \in Carded(p) THEN CheckpointResult(tasks[i], told) ELSE tasks[i]]
  BY DEF Decide
<1>3. /\ told.tokens \in Nat /\ told.proposal = None /\ told.receipt = TRUE
      /\ told.reason = state
  OBVIOUS
<1>4. state \in {"rejected", "confirmed", "blocked"}
  BY DEF DecidedState
<1> HIDE DEF told, state
<1>5. /\ DOMAIN proposals' = DOMAIN proposals
      /\ \A q \in DOMAIN proposals : q # p => proposals'[q] = proposals[q]
      /\ proposals'[p] = [proposals[p] EXCEPT !.state = state]
  BY <1>2
<1>6. IsCard(proposals'[p]) /\ proposals'[p].state = state
  BY <1>1, <1>5 DEF IsCard
<1>7. /\ DOMAIN tasks' = DOMAIN tasks
      /\ \A i \in DOMAIN tasks : i \notin Carded(p) => tasks'[i] = tasks[i]
      /\ \A i \in Carded(p) : tasks'[i] = CheckpointResult(tasks[i], told)
  BY <1>2 DEF Carded
<1>8. ASSUME NEW i \in Carded(p)
      PROVE  /\ IsTask(tasks'[i]) /\ tasks'[i].proposal = tasks[i].proposal
             /\ tasks'[i].status = "completed"
  <2>1. IsTask(tasks[i])
    BY <1>1 DEF Carded
  <2>2. LET new == CheckpointResult(tasks[i], told) IN
        /\ IsTask(new) /\ new.status = StatusAfter(tasks[i], told)
        /\ new.proposal = IF told.proposal # None THEN told.proposal ELSE tasks[i].proposal
    <3>1. told.tokens \in Nat
      BY <1>3
    <3>2. Checkpointed(tasks[i], told, CheckpointResult(tasks[i], told))
      BY <2>1, <3>1, CheckpointFields
    <3>3. QED
      BY <3>2 DEF Checkpointed
  <2>3. StatusAfter(tasks[i], told) = "completed"
    BY <1>3, <1>4 DEF StatusAfter
  <2>4. QED
    BY <1>3, <1>7, <2>2, <2>3
<1>9. \A i \in DOMAIN tasks : IsTask(tasks'[i]) /\ tasks'[i].proposal = tasks[i].proposal
  BY <1>1, <1>7, <1>8
<1>10. IsSequence(tasks') /\ IsSequence(proposals')
  <2>1. Len(tasks) \in Nat /\ DOMAIN tasks = 1 .. Len(tasks)
        /\ Len(proposals) \in Nat /\ DOMAIN proposals = 1 .. Len(proposals)
    BY <1>1, Appended
  <2>2. tasks' = [i \in DOMAIN tasks |-> tasks'[i]]
        /\ proposals' = [q \in DOMAIN proposals |-> proposals'[q]]
    BY <1>2
  <2>3. QED
    BY <2>1, <2>2, SequenceOf
<1>11. ASSUME NEW q \in DOMAIN proposals', proposals'[q].state = "pending"
       PROVE  \E i \in DOMAIN tasks' :
                /\ {j \in DOMAIN tasks' : tasks'[j].proposal = q} = {i}
                /\ tasks'[i].status = "awaiting_approval"
                /\ tasks'[i].kind = proposals'[q].kind
                /\ proposals'[q].order \in tasks'[i].target
  <2>1. q # p /\ q \in DOMAIN proposals /\ proposals'[q] = proposals[q]
    BY <1>4, <1>5, <1>6, <1>11
  <2>2. PICK i \in DOMAIN tasks :
          /\ {j \in DOMAIN tasks : tasks[j].proposal = q} = {i}
          /\ tasks[i].status = "awaiting_approval"
          /\ tasks[i].kind = proposals[q].kind
          /\ proposals[q].order \in tasks[i].target
    BY <1>1, <1>11, <2>1 DEF CardsMatch
  <2>3. tasks[i].proposal = q /\ tasks'[i] = tasks[i]
    BY <1>7, <2>1, <2>2 DEF Carded
  <2>4. \A j \in DOMAIN tasks : tasks'[j].proposal = q => j = i
    BY <1>9, <2>2
  <2>5. {j \in DOMAIN tasks' : tasks'[j].proposal = q} = {i}
    BY <1>7, <2>3, <2>4
  <2>6. QED
    BY <1>7, <2>1, <2>2, <2>3, <2>5
<1>12. ASSUME NEW i \in DOMAIN tasks', tasks'[i].status = "awaiting_approval"
       PROVE  /\ tasks'[i].proposal \in DOMAIN proposals'
              /\ proposals'[tasks'[i].proposal].state = "pending"
  <2>1. i \in DOMAIN tasks /\ i \notin Carded(p) /\ tasks'[i] = tasks[i]
    BY <1>7, <1>8, <1>12
  <2>2. tasks[i].proposal # p /\ tasks[i].proposal \in DOMAIN proposals
        /\ proposals[tasks[i].proposal].state = "pending"
    BY <1>1, <1>12, <2>1 DEF Carded, CardsMatch
  <2>3. QED
    BY <1>5, <2>1, <2>2
<1>13. CardsMatchTasks'
  BY <1>11, <1>12 DEF CardsMatchTasks, CardsMatch
<1>14. RowsInv'
  BY <1>1, <1>5, <1>6, <1>7, <1>9, <1>10 DEF RowsInv, IsTask, IsCard, IsSequence
<1>15. QED
  BY <1>1, <1>13, <1>14 DEF AInv, TurnInv, Phase

LEMMA InitAInv == Init => AInv
<1> SUFFICES ASSUME Init PROVE AInv
  OBVIOUS
<1>1. PICK h \in History :
        /\ tasks = h.tasks /\ proposals = h.proposals
        /\ context = [version |-> 1, subjects |-> {}, pending |-> None, policy |-> h.policy]
  BY DEF Init
<1>2. /\ tasks \in Seq(Checkpoint) /\ proposals \in Seq(Proposal)
      /\ CardsMatch(tasks, proposals)
      /\ \A i \in DOMAIN tasks : tasks[i].proposal \in DOMAIN proposals \cup {None}
  BY <1>1, HistoryAssumption
<1>3. /\ Len(tasks) \in Nat /\ tasks \in [1 .. Len(tasks) -> Checkpoint]
      /\ Len(proposals) \in Nat /\ proposals \in [1 .. Len(proposals) -> Proposal]
  BY <1>2, LenProperties
<1>4. IsSequence(tasks) /\ IsSequence(proposals)
  <2>1. tasks = [i \in 1 .. Len(tasks) |-> tasks[i]]
        /\ proposals = [i \in 1 .. Len(proposals) |-> proposals[i]]
    BY <1>3
  <2>2. QED
    BY <1>3, <2>1, SequenceOf
<1>5. \A row \in Checkpoint : IsTask(row)
  BY DEF Checkpoint, IsTask
<1>6. \A card \in Proposal : IsCard(card)
  BY DEF Proposal, IsCard
<1>7. /\ \A i \in DOMAIN tasks : IsTask(tasks[i])
      /\ \A p \in DOMAIN proposals : IsCard(proposals[p])
  BY <1>3, <1>5, <1>6
<1>8. QED
  BY <1>1, <1>2, <1>4, <1>7 DEF AInv, RowsInv, TurnInv, CardsMatchTasks, Init, Phase

LEMMA NextAInv == AInv /\ [Next]_vars => AInv'
<1> SUFFICES ASSUME AInv, [Next]_vars PROVE AInv'
  OBVIOUS
<1>1. CASE Serve
  BY <1>1, ReceiveStep, JudgeStep, LimitStep, AskStep, LookUpStep, ConcludeStep, FinishStep,
     IdleStep DEF Serve
<1>2. CASE \/ Begin \/ Fail \/ LostFinishFails \/ FinishFails \/ AbortFails
           \/ ReplaceFixture \/ Ingest
  BY <1>2, BeginStep, FailStep, IdleStep
<1>3. ASSUME NEW p \in DOMAIN proposals, NEW decision \in {"confirm", "reject"}, Decide(p, decision)
      PROVE  AInv'
  BY <1>3, DecideStep
<1>4. CASE UNCHANGED vars
  <2>1. RowsInv' /\ CardsMatchTasks'
    BY <1>4, SameRows DEF AInv, vars
  <2>2. /\ tasks' = tasks /\ context' = context /\ turn' = turn /\ pc' = pc
        /\ response' = response /\ proposals' = proposals /\ order' = order
    BY <1>4 DEF vars, saved
  <2>3. TurnInv'
    BY <2>2 DEF AInv, TurnInv, Blank, TurnOf, BaseOf, IsTurn, ReadNow, OnTask, DraftOf, Backed,
                Prior, Supported, ResponseOf, Spent, HasCard
  <2>4. QED
    BY <2>1, <2>3 DEF AInv
<1>5. QED
  BY <1>1, <1>2, <1>3, <1>4 DEF Next

-----------------------------------------------------------------------------------
(* Which steps touch the rows.                                                     *)

\* Only finish and a decision write rows, and finish is all that does while it runs.
LEMMA WritingSteps ==
  ASSUME [Next]_vars
  PROVE  \/ Finish
         \/ /\ pc = "idle"
            /\ \E p \in DOMAIN proposals, decision \in {"confirm", "reject"} : Decide(p, decision)
         \/ UNCHANGED saved
<1>1. \A result : Hand(result) => UNCHANGED saved
  BY DEF Hand
<1>2. \A phase, t : Move(phase, t) => UNCHANGED saved
  BY DEF Move
<1>3. \A t, disposition, reason : Stop(t, disposition, reason) => UNCHANGED saved
  BY <1>1 DEF Stop
<1>4. \A t : StopExhausted(t) => UNCHANGED saved
  BY <1>3 DEF StopExhausted
<1>5. \A t : Repair(t) => UNCHANGED saved
  BY <1>2, <1>3 DEF Repair
<1>6. CASE Receive
  BY <1>1, <1>2, <1>3, <1>6
     DEF Receive, UnknownHint, Unreadable, AnswerOrderList, ContextLimit, AskIntent
<1>7. CASE Judge
  <2>1. ASSUME NEW judged \in [intent : Intent, confident : BOOLEAN], NEW cost,
               Classify(judged, cost)
        PROVE  UNCHANGED saved
    <3>1. Branch(judged) \in {"clarify", "human_review", "unsupported", "read_only", "proposal"}
      BY DEF Branch, Intent
    <3>2. QED
      BY <1>1, <1>2, <1>3, <1>4, <2>1, <3>1 DEF Classify
  <2>2. ASSUME NEW cost, Grounded(cost) \/ Rejected(cost) PROVE UNCHANGED saved
    BY <1>1, <1>3, <1>5, <2>2 DEF Grounded, Rejected
  <2>3. \A i \in Intent, sure \in BOOLEAN :
          [intent |-> i, confident |-> sure] \in [intent : Intent, confident : BOOLEAN]
    OBVIOUS
  <2>4. QED
    BY <1>7, <2>1, <2>2, <2>3 DEF Judge
<1>8. CASE TurnBudget \/ LoopLimit
  BY <1>3, <1>8 DEF TurnBudget, LoopLimit
<1>9. CASE Ask
  BY <1>1, <1>2, <1>3, <1>4, <1>9
     DEF Ask, ModelTurn, DirectiveRefused, DirectNew, DirectUnavailable, DirectCard, DirectAbandon,
         DirectTask, MoveWithin
<1>10. CASE LookUp
  BY <1>1, <1>2, <1>3, <1>4, <1>10
     DEF LookUp, FinalLookup, ToolBudget, RepeatCall, UnavailableTool, InvalidArguments,
         IndexUnavailable, SearchExhausted, SearchFails, CallTool
<1>11. CASE Conclude
  BY <1>1, <1>2, <1>3, <1>4, <1>5, <1>11
     DEF Conclude, ContextRefused, ProposalRefused, ProposalHasCard, ProposalExhausted,
         ProposalBudget, ProposalChecked, Clarify, AnswerUnverified, AnswerBudget, AnswerChecked
<1>12. CASE Fail
  BY <1>1, <1>12 DEF Fail, Interrupted, ProviderFails
<1>13. CASE \/ Begin \/ LostFinishFails \/ FinishFails \/ Abort \/ AbortFails
            \/ ReplaceFixture \/ Ingest
  BY <1>13 DEF Begin, LostFinishFails, FinishFails, Abort, AbortFails, ReplaceFixture, Ingest
<1>14. ASSUME NEW p \in DOMAIN proposals, NEW decision, Decide(p, decision) PROVE pc = "idle"
  BY <1>14 DEF Decide, Unreserved
<1>15. CASE UNCHANGED vars
  BY <1>15 DEF vars
<1>16. QED
  BY <1>6, <1>7, <1>8, <1>9, <1>10, <1>11, <1>12, <1>13, <1>14, <1>15 DEF Next, Serve

\* finish leaves the rows alone unless it works on one, and then for a request.
LEMMA FinishTouches ==
  ASSUME AInv, Finish, tasks' # tasks
  PROVE  Saved(response) \in DOMAIN tasks' /\ response.asked
<1>1. /\ IsSequence(tasks) /\ IsSequence(tasks') /\ ResponseOf(response)
      /\ DOMAIN tasks \subseteq DOMAIN tasks'
      /\ \A i \in DOMAIN tasks' : i # Saved(response) => i \in DOMAIN tasks /\ tasks'[i] = tasks[i]
  BY FinishFacts DEF AInv, RowsInv
<1>2. DOMAIN tasks' = 1 .. Len(tasks')
  BY <1>1, Appended
<1>3. Saved(response) \in DOMAIN tasks'
  <2>1. SUFFICES ASSUME Saved(response) \notin DOMAIN tasks' PROVE tasks' = tasks
    OBVIOUS
  <2>2. DOMAIN tasks' = DOMAIN tasks /\ \A i \in DOMAIN tasks : tasks'[i] = tasks[i]
    BY <1>1, <2>1
  <2>3. tasks = [i \in DOMAIN tasks |-> tasks[i]] /\ tasks' = [i \in DOMAIN tasks' |-> tasks'[i]]
    BY <1>1, LenProperties DEF IsSequence
  <2>4. QED
    BY <2>2, <2>3
<1>4. Opens(response) \/ response.task # None
  BY <1>2, <1>3 DEF Saved
<1>5. QED
  BY <1>1, <1>3, <1>4 DEF Opens, ResponseOf

\* An operation goes to a task that has executions and tokens for it.
LEMMA FinishCharges ==
  ASSUME AInv, Finish, NEW i \in DOMAIN tasks', TakesOperation(i)
  PROVE  /\ tasks'[i].used.executions <= TaskLimits.executions
         /\ tasks'[i].used.tokens <= TaskLimits.tokens
<1> DEFINE r == response
           row == FoundRow(i, r)
           new == tasks'[i]
<1>1. /\ ResponseOf(r)
      /\ \A j \in DOMAIN tasks' : j # Saved(r) => j \in DOMAIN tasks /\ tasks'[j] = tasks[j]
      /\ Saved(r) \in DOMAIN tasks => r.task # None /\ r.task.id = Saved(r)
  BY FinishFacts
<1>2. i = Saved(r)
  BY <1>1 DEF TakesOperation, Before
<1>3. /\ IsTask(row) /\ new.used.executions = row.used.executions + 1
      /\ new.used.tokens = row.used.tokens + r.tokens
      /\ new.cased = (row.cased \/ Cases(r))
      /\ new.proposal = IF Proposes(r) THEN Len(proposals) + 1 ELSE row.proposal
  BY <1>2, FinishRow
<1>4. row.proposal = Before(i).proposal /\ row.cased = Before(i).cased
  BY DEF FoundRow, Before, NewTask
<1>5. Proposes(r) \/ Cases(r)
  BY <1>3, <1>4 DEF TakesOperation, IsTask
<1>6. /\ r.operation # None /\ Spent(r.task).executions < TaskLimits.executions
      /\ Spent(r.task).tokens + r.tokens <= TaskLimits.tokens
  BY <1>1, <1>5 DEF Proposes, Cases, ResponseOf
<1>7. row.used = Spent(r.task)
  <2>1. CASE i \in DOMAIN tasks
    BY <1>1, <1>2, <2>1 DEF FoundRow, Spent
  <2>2. CASE i \notin DOMAIN tasks
    <3>1. r.task = None
      BY <1>1, <1>2, <2>2 DEF Saved, Opens, ResponseOf
    <3>2. QED
      BY <2>2, <3>1 DEF FoundRow, Spent, NewTask
  <2>3. QED
    BY <2>1, <2>2
<1> HIDE DEF r, row, new
<1>8. row.used.executions \in Nat /\ TaskLimits.executions \in Nat
  BY <1>3, TasksAssumption DEF IsTask
<1>9. new.used.executions <= TaskLimits.executions /\ new.used.tokens <= TaskLimits.tokens
  BY <1>3, <1>6, <1>7, <1>8
<1>10. QED
  BY <1>9 DEF new

\* A decision makes no proposal.
LEMMA DecideLen ==
  ASSUME AInv, NEW p \in DOMAIN proposals, NEW decision, Decide(p, decision)
  PROVE  Len(proposals') = Len(proposals) /\ Len(proposals) \in Nat
<1>1. Len(proposals) \in Nat /\ DOMAIN proposals = 1 .. Len(proposals)
  BY Appended DEF AInv, RowsInv
<1>2. proposals' = [proposals EXCEPT ![p].state = DecidedState(p, decision)]
  BY DEF Decide
<1>3. proposals' = [q \in 1 .. Len(proposals) |-> proposals'[q]]
  BY <1>1, <1>2
<1>4. QED
  BY <1>1, <1>3, SequenceOf

-----------------------------------------------------------------------------------
(* The theorems.                                                                   *)

\* The inductive invariant: rows, cards and the running turn agree with each other in
\* every reachable state, whatever a model, a judge and the customer do.
THEOREM AInvariance == Spec => []AInv
BY InitAInv, NextAInv, PTL DEF Spec

\* Every pending proposal is the card of exactly one task, of its kind and with its order
\* among the targets, and every task awaiting approval has one: no turn replaces,
\* retargets or abandons a task under its card, and a decision closes both.
THEOREM CardsHaveTasks == Spec => []CardsMatchTasks
<1>1. AInv => CardsMatchTasks
  BY DEF AInv
<1>2. QED
  BY <1>1, AInvariance, PTL

\* What a turn has read, once and for all, is what its last transaction finds: finish
\* never throws a result away as stale.
THEOREM NothingIsStale == Spec => []NothingStale
<1>1. AInv => NothingStale
  BY DEF AInv, TurnInv, NothingStale, Stale, ResponseOf
<1>2. QED
  BY <1>1, AInvariance, PTL

\* Only a message that was confidently judged to ask for something to be done changes or
\* charges a task.
THEOREM RequestsTouchTasks == Spec => OnlyRequestsTouchTasks
<1>1. AInv /\ [Next]_vars => [pc = "finishing" /\ tasks' # tasks => response.asked]_vars
  BY WritingSteps, FinishTouches DEF saved
<1>2. QED
  BY <1>1, AInvariance, PTL DEF Spec, OnlyRequestsTouchTasks

\* A task that is given a proposal or a case stays within its executions and tokens,
\* however the turn came to work on it.
THEOREM OperationsWithinBudget == Spec => OperationWithinBudget
<1>1. AInv /\ [Next]_vars =>
        [\A i \in DOMAIN tasks' : TakesOperation(i) =>
           /\ tasks'[i].used.executions <= TaskLimits.executions
           /\ tasks'[i].used.tokens <= TaskLimits.tokens]_vars
  <2>1. SUFFICES ASSUME AInv, [Next]_vars, NEW i \in DOMAIN tasks', TakesOperation(i)
                 PROVE  /\ tasks'[i].used.executions <= TaskLimits.executions
                        /\ tasks'[i].used.tokens <= TaskLimits.tokens
    OBVIOUS
  <2>2. Finish
    BY <2>1, WritingSteps DEF TakesOperation, Before, saved
  <2>3. QED
    BY <2>1, <2>2, FinishCharges
<1>2. QED
  BY <1>1, AInvariance, PTL DEF Spec, OperationWithinBudget

\* A proposal that is saved rests on the order it changes and on policy passages of the
\* very store revision it is stamped with.
THEOREM EvidenceIsCurrent == Spec => EvidenceCurrent
<1>1. AInv /\ [Next]_vars =>
        [Len(proposals') > Len(proposals) =>
           LET card == proposals'[Len(proposals')]
               policies == {e \in response.evidence : e[1] = "policy"}
           IN /\ \E e \in response.evidence : e[1] = "order" /\ e[2] = card.order
              /\ policies # {} /\ policies \subseteq Passages(card.rev)]_vars
  <2>1. SUFFICES ASSUME AInv, [Next]_vars, Len(proposals') > Len(proposals)
                 PROVE  LET card == proposals'[Len(proposals')]
                            policies == {e \in response.evidence : e[1] = "policy"}
                        IN /\ \E e \in response.evidence : e[1] = "order" /\ e[2] = card.order
                           /\ policies # {} /\ policies \subseteq Passages(card.rev)
    OBVIOUS
  <2>2. Len(proposals) \in Nat
    BY <2>1, Appended DEF AInv, RowsInv
  <2>3. Finish
    BY <2>1, <2>2, WritingSteps, DecideLen DEF saved
  <2>4. Proposes(response)
    BY <2>1, <2>2, <2>3, FinishCards
  <2>5. proposals'[Len(proposals')] = SavedProposal(response)
    BY <2>1, <2>3, <2>4, FinishCards
  <2>6. Supported(response.operation, response.evidence, response.rev)
    BY <2>1, <2>3, <2>4, FinishFacts DEF ResponseOf, Proposes
  <2>7. QED
    BY <2>5, <2>6 DEF Supported, SavedProposal
<1>2. QED
  BY <1>1, AInvariance, PTL DEF Spec, EvidenceCurrent

====
