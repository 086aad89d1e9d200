-------------------------------- MODULE SupportAgent --------------------------------
(***********************************************************************************)
(* Customer support: the bounded agent (customer_support/service.py run_support)   *)
(* between the two transactions of its message (api.execute, repository.finish),   *)
(* for one conversation, with the decisions on its proposals (actions.confirm).    *)
(*                                                                                 *)
(* `tasks`, `proposals`, `context` and `order` are committed database state;       *)
(* `fixture` and `index` are the files a request loads when it arrives.  `turn` is *)
(* the memory of the one running message, `response` the result it hands to        *)
(* finish.  What the model and the judge answer is chosen by the environment; the  *)
(* reservation that SupportTurns models is `pc # "idle"` here.                     *)
(***********************************************************************************)
EXTENDS SupportTasks, Sequences

CONSTANTS MaxTurns,        \* MAX_TURNS: model requests of one turn
          MaxRepairs,      \* repairs of an answer
          CandidateLimit,  \* tasks routing_candidates reads, newest first
          ModelCosts,      \* tokens a model request may report
          JudgeCosts,      \* tokens a judgment may report
          Call,            \* tool calls the model may make, [name, arg]
          Operation,       \* proposals it may make, [kind, order, cites]
          Change,          \* context updates it may make
          MaxCites,        \* bound on the evidence an answer cites
          History          \* what the conversation may hold at first, and the bound
                           \* on its messages to come, [tasks, proposals, policy, ahead]

\* The lookups the model is offered.
Tools == {"policy_search", "order_list", "order_detail", "catalog_list",
          "product_detail", "compatibility", "case_detail"}

ASSUME AgentAssumption ==
  /\ MaxTurns \in Nat \ {0} /\ CandidateLimit \in Nat \ {0}
  /\ ModelCosts \subseteq Nat /\ JudgeCosts \subseteq Nat
  /\ \A call \in Call : call.name \in Tools
  /\ \A c \in Change : (c.mode = "select") = (c.subjects # {})
  /\ \A op \in Operation : op.kind \in ChangeKind => op.order # None

\* A conversation that went on for a while was left by earlier turns and decisions.
ASSUME HistoryAssumption ==
  \A h \in History :
    /\ h.tasks \in Seq(Checkpoint) /\ h.proposals \in Seq(Proposal)
    /\ CardsMatch(h.tasks, h.proposals)
    /\ \A i \in DOMAIN h.tasks : h.tasks[i].proposal \in DOMAIN h.proposals \cup {None}

VARIABLES fixture, index, order, tasks, proposals, context, ahead, pc, turn, response

files == <<fixture, index>>
saved == <<order, tasks, proposals, context>>
vars == <<files, saved, ahead, pc, turn, response>>

Intent == {"information", "action", "human", "unsupported"}

Phase ==
  {"idle",        \* no message holds the reservation
   "reading",     \* execute: the reservation is committed
   "classifying", \* awaiting judge.classify
   "deciding",    \* the head of the loop, awaiting model.turn
   "acting",      \* the model's output is in
   "grounding",   \* awaiting judge.ground
   "finishing",   \* the finish transaction
   "aborting",    \* the abort transaction after a failed finish
   "held"}        \* nobody ends the run: the conversation keeps its reservation

NewTurn ==
  [rev |-> fixture, index |-> index, tasks |-> <<>>, context |-> None,
   asked |-> FALSE, ops |-> FALSE, catalog |-> {}, calls |-> {}, tools |-> {},
   final |-> FALSE, task |-> None, directive |-> None, change |-> None, draft |-> None,
   tokens |-> 0, lookups |-> 0, requests |-> 0, repairs |-> 0, turns |-> 0]

Init ==
  /\ fixture \in {r \in Revision : \A s \in Revision : r <= s}
  /\ index = fixture
  /\ order = [o \in Order |-> [version |-> 1, open |-> TRUE]]
  /\ \E h \in History :
       /\ tasks = h.tasks /\ proposals = h.proposals /\ ahead = h.ahead
       /\ context = [version |-> 1, subjects |-> {}, pending |-> None, policy |-> h.policy]
  /\ pc = "idle" /\ turn = None /\ response = None

-----------------------------------------------------------------------------------
(* Ends of a turn.                                                                 *)

\* Only the usage a task is charged with is kept: of the selected task, or of one that
\* finish opens.
Charges(t, reason, operation) ==
  \/ t.task # None \/ operation # None
  \/ t.ops /\ reason = "missing_reference"

\* The result of run_support; the task it reports is the one it has selected.
Result(t, disposition, reason, evidence, operation, change) ==
  [disposition |-> disposition, reason |-> reason, evidence |-> evidence,
   operation |-> operation, change |-> change, task |-> t.task,
   directive |-> t.directive, context |-> t.context, asked |-> t.asked,
   requested |-> t.ops, rev |-> t.rev,
   tokens |-> IF Charges(t, reason, operation) THEN t.tokens ELSE 0,
   requests |-> IF Charges(t, reason, operation) THEN t.requests ELSE 0]

\* The last exception handler: whatever was selected and spent is reported, nothing
\* else is.
Failed(t) ==
  Result(t, "handoff_needed", "provider_or_validation_failure", {}, None, None)

\* finish, the closure every return of run_support goes through; it takes the context
\* change of the last terminal output, one that was sent back for repair included.
Finished(t, disposition, reason, evidence, operation) ==
  IF Overspent(t.task, t.tokens, operation)
    THEN Result(t, "handoff_needed", "task_resource_budget", {}, None, None)
  ELSE IF ChangeRaises(t.change, evidence, reason) THEN Failed(t)
  ELSE Result(t, disposition, reason, evidence, operation,
              FinalChange(t.change, evidence, reason))

\* execute, when the exception is not run_support's to handle: a result without a
\* task and, alone among the results, without a context.
Lost(t) == Failed([t EXCEPT !.task = None, !.context = None, !.directive = None])

Hand(result) ==
  /\ response' = result
  /\ pc' = "finishing" /\ turn' = None
  /\ UNCHANGED <<files, saved, ahead>>

\* A return that neither cites nor changes anything.
Stop(t, disposition, reason) == Hand(Finished(t, disposition, reason, {}, None))

\* TaskBudgetReached
StopExhausted(t) == Stop(t, "handoff_needed", "task_resource_budget")

Move(phase, t) ==
  /\ pc' = phase /\ turn' = t
  /\ UNCHANGED <<files, saved, ahead, response>>

\* ensure_task_budget, then on.
MoveWithin(phase, t) ==
  IF BudgetExhausted(t.task, t.tokens) THEN StopExhausted(t) ELSE Move(phase, t)

Spend(t, cost) == [t EXCEPT !.tokens = @ + cost]

-----------------------------------------------------------------------------------
(* A message arrives.                                                              *)

\* runtime loads the files, begin commits the reservation.
Begin ==
  /\ pc = "idle" /\ ahead > 0
  /\ ahead' = ahead - 1
  /\ pc' = "reading" /\ turn' = NewTurn
  /\ UNCHANGED <<files, saved, response>>

\* routing_candidates: the newest tasks, without the abandoned ones.
Candidates(rows) ==
  {i \in DOMAIN rows : i + CandidateLimit > Len(rows) /\ rows[i].status # "abandoned"}

\* What execute reads once it holds the reservation.
Read == [turn EXCEPT !.tasks = tasks, !.context = ScopeContext(context, turn.rev)]

\* The task the customer's page was showing is not one of the candidates.
UnknownHint ==
  /\ pc = "reading"
  /\ Hand(Lost(turn))

\* precheck refuses a message without a readable character.
Unreadable ==
  /\ pc = "reading"
  /\ Hand(Failed(Read))

\* answer_order_list: no provider is asked.
AnswerOrderList ==
  /\ pc = "reading"
  /\ LET t == [Read EXCEPT !.requests = 1]
     IN Hand(Finished(t, "answered", "owned_order_list",
                      {<<"order", o, "list">> : o \in Order}, None))

\* The message with its history is longer than MAX_CONTEXT_CHARS.
ContextLimit ==
  /\ pc = "reading"
  /\ Stop(Read, "clarification", "context_limit")

AskIntent ==
  /\ pc = "reading"
  /\ Move("classifying", Read)

\* intent_branch
Branch(judged) ==
  CASE judged.intent = "information" -> "read_only"
    [] judged.intent = "action" -> IF judged.confident THEN "proposal" ELSE "read_only"
    [] judged.intent = "human" -> IF judged.confident THEN "human_review" ELSE "clarify"
    [] judged.intent = "unsupported" ->
         IF judged.confident THEN "unsupported" ELSE "clarify"

\* The case a customer gets who asks for a person.
HumanCase ==
  [kind |-> "create_case", order |-> None, cites |-> {}]

\* restore_policy: cached passages that are still current become evidence.
Restored(t) ==
  [t EXCEPT !.catalog = PolicyReuse(t.context.policy, t.rev), !.tools = Tools]

\* The customer is confidently judged to ask for something to be done, now.
ServiceRequest(judged) == judged.confident /\ judged.intent \in {"action", "human"}

Classify(judged, cost) ==
  /\ pc = "classifying"
  /\ LET t == [Spend(turn, cost) EXCEPT !.asked = ServiceRequest(judged)] IN
     IF BudgetExhausted(None, t.tokens) THEN StopExhausted(t)
     ELSE CASE Branch(judged) = "clarify" ->
                 Stop(t, "clarification", "intent_uncertain")
            [] Branch(judged) = "human_review" ->
                 Hand(Finished(t, "handoff_needed", "case_request_validated", {},
                               HumanCase))
            [] Branch(judged) = "unsupported" ->
                 Stop(t, "clarification", "unsupported_request")
            [] Branch(judged) \in {"read_only", "proposal"} ->
                 Move("deciding", [Restored(t) EXCEPT !.ops = Branch(judged) = "proposal"])

-----------------------------------------------------------------------------------
(* The loop: a request to the model.                                               *)

\* A faulty loop: its last request leaves it without a result.
TurnBudgetMissed ==
  /\ pc = "deciding" /\ turn.turns = MaxTurns + 1
  /\ Stop(turn, "handoff_needed", "turn_budget")

\* MAX_TURNS requests have not settled the message.
TurnBudget ==
  /\ pc = "deciding" /\ turn.turns = MaxTurns
  /\ Stop(turn, "handoff_needed", "turn_budget")

\* The state has grown beyond MAX_CONTEXT_CHARS, or the tokens are spent.
LoopLimit ==
  /\ pc = "deciding" /\ turn.turns < MaxTurns
  /\ Stop(turn, "handoff_needed", "context_or_token_budget")

\* The model answers: the turn after the request, with the directive it may carry.
Asked(cost, directive) ==
  [Spend(turn, cost) EXCEPT !.turns = @ + 1,
                            !.directive = IF directive = None THEN @ ELSE directive]

Askable ==
  /\ pc = "deciding" /\ turn.turns < MaxTurns
  /\ ~ BudgetExhausted(turn.task, turn.tokens)

\* The task loses its executions budget only by being selected, which checks it.
ModelTurn(cost) ==
  /\ Askable
  /\ Move("acting", Asked(cost, None))

Modes == {"resume", "correct", "abandon"}
Directives(rows) ==
  [mode : {"new"}, id : {0}, kind : {"cancel_order", "change_address", "human_review"}]
    \cup [mode : Modes, id : 0 .. Len(rows), kind : {None}]

\* A faulty choice: a directive of a turn that only reads is followed.
DirectableAlways(t) == TRUE

\* task_choice: only a confident action works on a task.
Directable(t) == t.ops

DirectiveRefused(cost, d) ==
  /\ Askable /\ ~ Directable(turn)
  /\ Stop([Asked(cost, d) EXCEPT !.task = None], "clarification",
          "task_action_not_authorized")

DirectNew(cost, d) ==
  /\ Askable /\ Directable(turn) /\ d.mode = "new"
  /\ MoveWithin("acting", [Asked(cost, d) EXCEPT !.task = None])

\* select_task raises: no such candidate, or a closed one.
Selectable(d) ==
  d.id \in Candidates(turn.tasks) /\ turn.tasks[d.id].status \notin Closed

DirectUnavailable(cost, d) ==
  /\ Askable /\ Directable(turn) /\ d.mode # "new" /\ ~ Selectable(d)
  /\ Hand(Failed(Asked(cost, d)))

Selected(cost, d) ==
  LET row == turn.tasks[d.id]
      now == IF d.mode = "correct" /\ row.status # "awaiting_approval"
             THEN Corrected(row) ELSE row
  IN [Asked(cost, d) EXCEPT !.task = [id |-> d.id, checkpoint |-> now]]

\* A faulty guard: the card of a proposal does not hold its task back.
HasCardNever(task) == FALSE

\* A proposal of the task waits for the customer's decision.
HasCard(task) == task.checkpoint.status = "awaiting_approval"

\* A task with a card is not worked on by words.
DirectCard(cost, d) ==
  /\ Askable /\ Directable(turn) /\ d.mode # "new" /\ Selectable(d)
  /\ LET t == Selected(cost, d) IN
     /\ HasCard(t.task)
     /\ Stop(t, "clarification", IF d.mode = "resume" THEN "explicit_confirmation_required"
                                 ELSE "explicit_rejection_required")

DirectAbandon(cost, d) ==
  /\ Askable /\ Directable(turn) /\ d.mode = "abandon" /\ Selectable(d)
  /\ LET t == Selected(cost, d) IN
     /\ ~ HasCard(t.task)
     /\ Stop(t, "answered", "task_abandoned")

DirectTask(cost, d) ==
  /\ Askable /\ Directable(turn) /\ d.mode \in {"resume", "correct"} /\ Selectable(d)
  /\ LET t == Selected(cost, d) IN
     /\ ~ HasCard(t.task)
     /\ MoveWithin("acting", t)

-----------------------------------------------------------------------------------
(* The model's output: lookups.                                                    *)

HasKind(catalog, kind) == \E e \in catalog : e[1] = kind

\* What a lookup returns; policy_search may find nothing, and finds what the index
\* holds.
Results(t, call) ==
  CASE call.name = "policy_search" -> {{}, Passages(t.index)}
    [] call.name = "order_list" -> {{<<"order", o, "list">> : o \in Order}}
    [] call.name = "order_detail" -> {{<<"order", o, "detail">> : o \in Order \cap {call.arg}}}
    [] call.name = "catalog_list" -> {{}}
    [] call.name = "product_detail" ->
         {{<<"catalog", p, "detail">> : p \in Sold[t.rev] \cap {call.arg}}}
    [] call.name = "compatibility" -> {{<<"compatibility", call.arg, "pair">>}}
    [] call.name = "case_detail" ->
         {{<<"case", n, "saved">> :
             n \in {n \in DOMAIN tasks \cap {call.arg} : tasks[n].cased}}}

\* Source selection is closed: the next output has to settle the message.
Close(t) == [t EXCEPT !.final = TRUE, !.tools = {}]

\* A repeated call leaves only the missing policy to look up, or nothing.
Repeated(t) ==
  IF t.ops /\ HasKind(t.catalog, "order") /\ ~ HasKind(t.catalog, "policy")
  THEN [t EXCEPT !.tools = {"policy_search"}] ELSE Close(t)

\* After a lookup: nothing new, a definite answer, the last one, or both halves of an
\* order change.
Enough(t, call, found) ==
  \/ found # {} /\ found \subseteq t.catalog
  \/ call.name \in {"compatibility", "case_detail"}
  \/ t.lookups >= ToolLimit(t.task)
  \/ /\ call.name \in {"order_detail", "order_list", "policy_search"}
     /\ HasKind(t.catalog \cup found, "order") /\ HasKind(t.catalog \cup found, "policy")

Found(t, call, found) ==
  LET seen == [t EXCEPT !.catalog = @ \cup found, !.calls = @ \cup {call},
                        !.tools = IF call.name = "order_list"
                                  THEN @ \ {"order_list", "order_detail"} ELSE @]
  IN IF Enough(t, call, found) THEN Close(seen) ELSE seen

\* A lookup after source selection was closed.
FinalLookup ==
  /\ pc = "acting" /\ turn.final
  /\ Stop(turn, "clarification", "invalid_final_decision")

\* The output asks for a lookup; it is counted before anything else is checked.
Lookup == [turn EXCEPT !.lookups = @ + 1]
Looking == pc = "acting" /\ ~ turn.final

ToolBudget ==
  /\ Looking /\ Lookup.lookups > ToolLimit(turn.task)
  /\ Stop(Lookup, "handoff_needed", "tool_budget")

Allowed == Looking /\ Lookup.lookups <= ToolLimit(turn.task)

RepeatCall(call) ==
  /\ Allowed /\ call \in turn.calls
  /\ Move("deciding", Repeated(Lookup))

UnavailableTool(call) ==
  /\ Allowed /\ call \notin turn.calls /\ call.name \notin turn.tools
  /\ Stop(Lookup, "clarification", "unavailable_tool")

Requestable(call) == Allowed /\ call \notin turn.calls /\ call.name \in turn.tools
Requested == [Lookup EXCEPT !.requests = @ + 1]

InvalidArguments(call) ==
  /\ Requestable(call)
  /\ Stop(Requested, "handoff_needed", "invalid_tool_arguments")

\* validate_index: built from this fixture, by this embedding provider.
IndexCurrent(t) == t.index = t.rev

IndexUnavailable(call) ==
  /\ Requestable(call) /\ call.name = "policy_search" /\ ~ IndexCurrent(turn)
  /\ turn.index = None \/ ~ BudgetExhausted(turn.task, turn.tokens)
  /\ Stop(Requested, "handoff_needed", "policy_index_unavailable")

\* A search embeds its query, which is a provider call.
SearchExhausted(call) ==
  /\ Requestable(call) /\ call.name = "policy_search" /\ turn.index # None
  /\ BudgetExhausted(turn.task, turn.tokens)
  /\ StopExhausted(Requested)

\* The embedding provider fails, or the search takes too long.
SearchFails(call) ==
  /\ Requestable(call) /\ call.name = "policy_search" /\ turn.index # None
  /\ Hand(Failed(Requested))

CallTool(call, found) ==
  /\ Requestable(call)
  /\ call.name = "policy_search" =>
       IndexCurrent(turn) /\ ~ BudgetExhausted(turn.task, turn.tokens)
  /\ Move("deciding", Found(Requested, call, found))

-----------------------------------------------------------------------------------
(* The model's output: a proposal, a question or an answer.                        *)

\* A terminal output names subjects it has not read.
ContextRefused(change) ==
  /\ pc = "acting" /\ ~ ValidChange(change, turn.catalog)
  /\ Hand(Failed(turn))

Settled(change) == pc = "acting" /\ ValidChange(change, turn.catalog)

\* The change is the turn's from here on.
Noted(t, change) == [t EXCEPT !.change = change]

Cites(op, kind) == {e \in op.cites : e[1] = kind}

\* proposal_problem, and the checks against the selected task.
Acceptable(t, op) ==
  /\ t.ops
  /\ op.cites \subseteq t.catalog
  /\ op.order # None => op.order \in Order
  /\ op.order # None => \E e \in Cites(op, "order") : e[2] = op.order
  /\ op.kind \in ChangeKind => Cites(op, "policy") # {}
  /\ t.task # None =>
       /\ t.task.checkpoint.kind = TaskKind(op)
       /\ t.task.checkpoint.target # {} => op.order \in t.task.checkpoint.target

\* Or its words and numbers are not those of the customer, which the model leaves open.
ProposalRefused(op, change) ==
  /\ Settled(change)
  /\ Stop(Noted(turn, change), "clarification", "proposal_refused")

\* The open candidate this operation continues, when there is exactly one.
Matching(t, op) ==
  {i \in Candidates(t.tasks) :
     /\ t.tasks[i].kind = TaskKind(op)
     /\ t.tasks[i].target = {op.order} \ {None}
     /\ t.tasks[i].status \notin Closed}

Adopted(t, op) ==
  [t EXCEPT !.task = IF @ = None /\ Cardinality(Matching(t, op)) = 1
                     THEN LET i == CHOOSE i \in Matching(t, op) : TRUE
                          IN [id |-> i, checkpoint |-> t.tasks[i]]
                     ELSE @]

ProposalHasCard(op, change) ==
  /\ Settled(change) /\ Acceptable(turn, op)
  /\ LET t == Adopted(turn, op) IN
     /\ t.task # turn.task /\ HasCard(t.task)
     /\ Stop(Noted(t, change), "clarification", "explicit_confirmation_required")

\* The adopted task has no budget left.
ProposalExhausted(op, change) ==
  /\ Settled(change) /\ Acceptable(turn, op)
  /\ LET t == Adopted(turn, op) IN
     /\ t.task # turn.task /\ ~ HasCard(t.task)
     /\ BudgetExhausted(t.task, t.tokens)
     /\ StopExhausted(t)

\* The proposal may go on: as a task of its own or as the one it continues.
Continues(t) ==
  t.task # turn.task => ~ HasCard(t.task) /\ ~ BudgetExhausted(t.task, t.tokens)

\* The grounding state is too long, or the tokens are spent.
ProposalBudget(op, change) ==
  /\ Settled(change) /\ Acceptable(turn, op)
  /\ Continues(Adopted(turn, op))
  /\ Stop(Adopted(turn, op), "handoff_needed", "proposal_budget")

\* What the judge is asked about.
Drafted(t, operation, cites) ==
  [t EXCEPT !.draft = [operation |-> operation, cites |-> cites]]

ProposalChecked(op, change) ==
  /\ Settled(change) /\ Acceptable(turn, op)
  /\ LET t == Adopted(turn, op) IN
     /\ Continues(t) /\ ~ BudgetExhausted(t.task, t.tokens)
     /\ Move("grounding", Drafted(Noted(t, change), op, op.cites))

Clarify(safe, change) ==
  /\ Settled(change)
  /\ Stop(Noted(turn, change), "clarification",
          IF safe THEN "missing_reference" ELSE "unsafe_clarification")

\* An answer is repaired once; its context change stays with the turn.
Repair(t) ==
  IF t.repairs = MaxRepairs THEN Stop(t, "handoff_needed", "answer_not_verified")
  ELSE Move("deciding", [t EXCEPT !.repairs = @ + 1, !.draft = None])

\* verify: an unknown citation, an unsupported number or a promise.
AnswerUnverified(change) ==
  /\ Settled(change)
  /\ Repair(Noted(turn, change))

AnswerBudget(change) ==
  /\ Settled(change)
  /\ Stop(turn, "handoff_needed", "token_budget")

\* The claims of an answer cite at least one item each.
CiteSets(catalog) == {c \in SUBSET catalog : c # {} /\ Cardinality(c) <= MaxCites}

AnswerChecked(cites, change) ==
  /\ Settled(change) /\ ~ BudgetExhausted(turn.task, turn.tokens)
  /\ Move("grounding", Drafted(Noted(turn, change), None, cites))

\* The judge supports the draft, at the threshold.
Grounded(cost) ==
  /\ pc = "grounding"
  /\ LET t == Spend(turn, cost) IN
     Hand(Finished(t, IF t.draft.operation = None THEN "answered" ELSE "handoff_needed",
                   IF t.draft.operation = None THEN "verified" ELSE "proposal_validated",
                   t.draft.cites, t.draft.operation))

Rejected(cost) ==
  /\ pc = "grounding"
  /\ IF turn.draft.operation = None THEN Repair(Spend(turn, cost))
     ELSE Stop(Spend(turn, cost), "clarification", "proposal_grounding_rejected")

-----------------------------------------------------------------------------------
(* Failures at an await.                                                           *)

\* A provider error, a timeout or the deadline; only a failed model reports its usage.
ProviderFails(cost) ==
  /\ \/ pc \in {"classifying", "grounding"} /\ cost = 0
     \/ Askable
  /\ Hand(Failed(Spend(turn, cost)))

\* The client leaves and its handler is cancelled at an await; a search is awaited
\* while acting.
Interrupted ==
  /\ pc \in {"classifying", "deciding", "acting", "grounding"}
  /\ Hand(Lost(turn))

-----------------------------------------------------------------------------------
(* finish: one transaction.                                                        *)

\* Another writer has moved what the turn has read.
Stale(r) ==
  \/ r.context # None /\ context.version # r.context.version
  \/ r.task # None /\ tasks[r.task.id].version # r.task.checkpoint.version

\* finish opens a task for an operation, or for a request whose details are missing.
Opens(r) ==
  /\ r.task = None
  /\ \/ r.operation # None
     \/ /\ r.requested /\ r.reason = "missing_reference"
        /\ r.directive # None /\ r.directive.mode = "new"

OpenedKind(r) == IF r.operation # None THEN TaskKind(r.operation) ELSE r.directive.kind

\* save_operation: an order change becomes a proposal if the order allows it now, and
\* anything else a case for a human.
Proposes(r) == r.operation # None /\ r.operation.kind \in ChangeKind /\ order[r.operation.order].open
Cases(r) == r.operation # None /\ ~ Proposes(r)

SavedProposal(r) ==
  [kind |-> r.operation.kind, order |-> r.operation.order,
   version |-> order[r.operation.order].version, rev |-> r.rev, state |-> "pending"]

\* What checkpoint_result sees of a response.
Outcome(r) ==
  [reason |-> r.reason, disposition |-> r.disposition, evidence |-> r.evidence,
   tokens |-> r.tokens, requests |-> r.requests,
   mode |-> IF r.directive = None THEN None ELSE r.directive.mode,
   proposal |-> IF Proposes(r) THEN Len(proposals) + 1 ELSE None,
   case |-> Cases(r), receipt |-> FALSE]

Finish ==
  /\ pc = "finishing" /\ ~ Stale(response)
  /\ LET r == response
         rows == IF Opens(r) THEN Append(tasks, NewTask(OpenedKind(r))) ELSE tasks
         id == IF Opens(r) THEN Len(rows) ELSE IF r.task = None THEN 0 ELSE r.task.id
         told == IF Cases(r) THEN [r EXCEPT !.change = Select({<<"case", id>>}),
                                            !.reason = "case_saved"] ELSE r
     IN /\ tasks' = [i \in DOMAIN rows |->
                       IF i = id THEN CheckpointResult(rows[i], Outcome(r)) ELSE rows[i]]
        /\ proposals' = IF Proposes(r) THEN Append(proposals, SavedProposal(r)) ELSE proposals
        /\ context' = IF r.context = None THEN context ELSE CommitContext(r.context, told)
  /\ pc' = "idle" /\ response' = None
  /\ UNCHANGED <<files, order, ahead, turn>>

\* The transaction of a lost response fails: its finish is itself in an exception
\* handler, and nothing aborts the run.
LostFinishFails ==
  /\ pc = "finishing" /\ response.context = None
  /\ pc' = "held" /\ response' = None
  /\ UNCHANGED <<files, saved, ahead, turn>>

\* A stale read, or the database: everything the transaction wrote is rolled back.
FinishFails ==
  /\ pc = "finishing" /\ response.context # None
  /\ pc' = "aborting" /\ response' = None
  /\ UNCHANGED <<files, saved, ahead, turn>>

\* abort: the run fails and the reservation is released.
Abort ==
  /\ pc = "aborting"
  /\ pc' = "idle"
  /\ UNCHANGED <<files, saved, ahead, turn, response>>

\* The abort fails as well.
AbortFails ==
  /\ pc = "aborting"
  /\ pc' = "held"
  /\ UNCHANGED <<files, saved, ahead, turn, response>>

-----------------------------------------------------------------------------------
(* confirm: a decision on a proposal, one transaction.                             *)

\* A faulty decision: it does not take the conversation's reservation.
UnreservedAlways == TRUE

\* The conditional UPDATE finds no active run.
Unreserved == pc = "idle"

Carded(p) == {i \in DOMAIN tasks : tasks[i].proposal = p}

Executable(p) ==
  /\ order[proposals[p].order].open
  /\ order[proposals[p].order].version = proposals[p].version
  /\ fixture = proposals[p].rev

DecidedState(p, decision) ==
  IF decision = "reject" THEN "rejected"
  ELSE IF Executable(p) THEN "confirmed" ELSE "blocked"

\* The order after the change; a cancelled order allows no further one.
ChangedOrder(p) ==
  [version |-> order[proposals[p].order].version + 1,
   open |-> proposals[p].kind # "cancel_order"]

Decide(p, decision) ==
  /\ Unreserved /\ proposals[p].state = "pending"
  /\ LET state == DecidedState(p, decision)
         told == [reason |-> state, disposition |-> "action", evidence |-> {},
                  tokens |-> 0, requests |-> 0, mode |-> None, proposal |-> None,
                  case |-> state = "blocked", receipt |-> TRUE]
     IN /\ proposals' = [proposals EXCEPT ![p].state = state]
        /\ order' = IF state = "confirmed"
                    THEN [order EXCEPT ![proposals[p].order] = ChangedOrder(p)] ELSE order
        /\ tasks' = [i \in DOMAIN tasks |->
                       IF i \in Carded(p) THEN CheckpointResult(tasks[i], told) ELSE tasks[i]]
  /\ UNCHANGED <<files, context, ahead, pc, turn, response>>

-----------------------------------------------------------------------------------
(* The files.  A request keeps what it loaded, so a change during a turn is one    *)
(* between two turns.                                                              *)

ReplaceFixture ==
  /\ pc = "idle" /\ fixture + 1 \in Revision
  /\ fixture' = fixture + 1
  /\ UNCHANGED <<index, saved, ahead, pc, turn, response>>

\* ingest: the index is rebuilt from the fixture, by hand.
Ingest ==
  /\ pc = "idle" /\ index # fixture
  /\ index' = fixture
  /\ UNCHANGED <<fixture, saved, ahead, pc, turn, response>>

-----------------------------------------------------------------------------------
Receive == UnknownHint \/ Unreadable \/ AnswerOrderList \/ ContextLimit \/ AskIntent

Judge == \E cost \in JudgeCosts :
  \/ \E i \in Intent, sure \in BOOLEAN : Classify([intent |-> i, confident |-> sure], cost)
  \/ Grounded(cost)
  \/ Rejected(cost)

Ask == \E cost \in ModelCosts :
  \/ ModelTurn(cost)
  \/ \E d \in IF Askable THEN Directives(turn.tasks) ELSE {} :
       \/ DirectiveRefused(cost, d)
       \/ DirectNew(cost, d)
       \/ DirectUnavailable(cost, d)
       \/ DirectCard(cost, d)
       \/ DirectAbandon(cost, d)
       \/ DirectTask(cost, d)

LookUp ==
  \/ FinalLookup
  \/ ToolBudget
  \/ \E call \in IF Looking THEN Call ELSE {} :
       \/ RepeatCall(call)
       \/ UnavailableTool(call)
       \/ InvalidArguments(call)
       \/ IndexUnavailable(call)
       \/ SearchExhausted(call)
       \/ SearchFails(call)
       \/ \E found \in Results(turn, call) : CallTool(call, found)

Conclude == \E change \in IF pc = "acting" THEN Change ELSE {} :
  \/ ContextRefused(change)
  \/ \E op \in Operation :
       \/ ProposalRefused(op, change)
       \/ ProposalHasCard(op, change)
       \/ ProposalExhausted(op, change)
       \/ ProposalBudget(op, change)
       \/ ProposalChecked(op, change)
  \/ \E safe \in BOOLEAN : Clarify(safe, change)
  \/ AnswerUnverified(change)
  \/ AnswerBudget(change)
  \/ \E cites \in CiteSets(turn.catalog) : AnswerChecked(cites, change)

Fail == Interrupted \/ \E cost \in ModelCosts \cup {0} : ProviderFails(cost)

\* What the server does for a message it has begun, when nothing goes wrong.
Serve ==
  \/ Receive \/ Judge \/ TurnBudget \/ LoopLimit \/ Ask \/ LookUp \/ Conclude
  \/ Finish \/ Abort

Next ==
  \/ Begin \/ Serve \/ Fail \/ LostFinishFails \/ FinishFails \/ AbortFails
  \/ ReplaceFixture \/ Ingest
  \/ \E p \in DOMAIN proposals, decision \in {"confirm", "reject"} : Decide(p, decision)

Spec == Init /\ [][Next]_vars

\* Every provider call answers or fails within its timeout and the event loop goes on;
\* nobody has to interrupt a turn to end it, and no transaction has to fail.
FairSpec == Spec /\ WF_vars(Serve)

-----------------------------------------------------------------------------------
(* Properties.                                                                     *)

\* A proposal that waits for the customer is the card of exactly one task, of its kind
\* and with its order among the targets, and every task that awaits approval has such
\* a card: decide finds the task by the proposal, and no later turn replaces, retargets
\* or abandons the task under the card.
CardsMatchTasks == CardsMatch(tasks, proposals)

\* What the turn works from is what finish finds: no message has its result thrown away
\* because a decision moved the task or the context under it.
NothingStale == pc = "finishing" => ~ Stale(response)

\* The task as it was before the step; one that did not exist had nothing.
Before(i) == IF i \in DOMAIN tasks THEN tasks[i] ELSE NewTask(None)

\* The step saves a turn whose operation went to task i.
TakesOperation(i) ==
  /\ pc = "finishing"
  /\ \/ tasks'[i].proposal # Before(i).proposal
     \/ tasks'[i].cased # Before(i).cased

\* A task that is given a proposal or a case is within its executions and its tokens
\* over all its turns, the calls that checked the operation included, however the turn
\* came to work on it: named first, named late, or recognised by its operation.
OperationWithinBudget ==
  [][\A i \in DOMAIN tasks' : TakesOperation(i) =>
       /\ tasks'[i].used.executions <= TaskLimits.executions
       /\ tasks'[i].used.tokens <= TaskLimits.tokens]_vars

\* A turn changes or charges a task only if its message was confidently judged to ask
\* for something to be done; a question, or a doubt, leaves every task as it is.
OnlyRequestsTouchTasks ==
  [][pc = "finishing" /\ tasks' # tasks => response.asked]_vars

\* A proposal rests on the order it changes and on a policy passage, and every passage
\* it rests on is of the store revision that the proposal is stamped with, whether it
\* was searched for in the index or taken from the conversation's cache.
EvidenceCurrent ==
  [][Len(proposals') > Len(proposals) =>
       LET card == proposals'[Len(proposals')]
           policies == {e \in response.evidence : e[1] = "policy"}
       IN /\ \E e \in response.evidence : e[1] = "order" /\ e[2] = card.order
          /\ policies # {} /\ policies \subseteq Passages(card.rev)]_vars

\* Every message ends: whatever the model keeps asking for, the turn, lookup, repair and
\* token budgets close the loop, and the reservation is released unless the transaction
\* that would have released it failed outside any handler (the finish of a lost response,
\* or the abort).
EveryTurnEnds == pc # "idle" ~> pc \in {"idle", "held"}
===================================================================================
