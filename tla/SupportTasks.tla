-------------------------------- MODULE SupportTasks --------------------------------
(***********************************************************************************)
(* Customer support: what a conversation keeps between its turns, and the rules    *)
(* that move it.  Task checkpoints and their resource budgets                      *)
(* (customer_support/task_resources.py, repository.checkpoint_result), the         *)
(* conversation context (conversation_context.py) and the saved policy passages.   *)
(* Everything here is an operator on records; SupportAgent applies them.           *)
(*                                                                                 *)
(* An evidence item is the tuple <<kind, source, locator>>: two reads of the same  *)
(* source at the same locator are one item.  The locator of a policy passage is    *)
(* the revision of the store fixture it belongs to.  A reference of the context is *)
(* the pair <<kind, record>>.                                                      *)
(***********************************************************************************)
EXTENDS Naturals, FiniteSets

CONSTANTS Order,        \* the orders of the signed-in customer
          Product,      \* catalog records
          Policy,       \* policy passages
          Revision,     \* revisions of the store fixture and of its policies
          Sold,         \* [Revision -> SUBSET Product], the catalog of a revision
          MaxTokens,    \* MAX_TOKENS: reported tokens of one turn
          MaxToolCalls, \* MAX_TOOL_CALLS: lookups of one turn
          TaskLimits,   \* TASK_LIMITS: [executions, tokens, toolCalls] over all turns
          None          \* no task, no operation, no proposal, no context change

ASSUME TasksAssumption ==
  /\ Revision \subseteq Nat
  /\ Sold \in [Revision -> SUBSET Product]
  /\ MaxTokens \in Nat /\ MaxToolCalls \in Nat
  /\ TaskLimits \in [executions : Nat, tokens : Nat, toolCalls : Nat]
  /\ None \notin Order \cup Product \cup Policy \cup Nat

ChangeKind == {"cancel_order", "change_address"}

\* A task is of the kind of the operation it works towards.
TaskKind(operation) ==
  IF operation.kind = "create_case" THEN "human_review" ELSE operation.kind

Status == {"active", "awaiting_clarification", "awaiting_customer_decision",
           "awaiting_approval", "completed", "failed", "abandoned"}

\* The columns of a saved task and of a saved proposal, as far as they are modelled.
Checkpoint ==
  [kind : ChangeKind \cup {"human_review"}, status : Status, target : SUBSET Order,
   proposal : Nat \cup {None}, policy : SUBSET ({"policy"} \X Policy \X Revision),
   cased : BOOLEAN, version : Nat, used : [executions : Nat, tokens : Nat, toolCalls : Nat]]

Proposal ==
  [kind : ChangeKind, order : Order, version : Nat, rev : Revision,
   state : {"pending", "rejected", "confirmed", "blocked"}]

\* A proposal that waits for the customer is the card of exactly one task, of its kind
\* and with its order among the targets, and every task that awaits approval has such
\* a card.
CardsMatch(rows, cards) ==
  /\ \A p \in DOMAIN cards : cards[p].state = "pending" =>
       \E i \in DOMAIN rows :
         /\ {j \in DOMAIN rows : rows[j].proposal = p} = {i}
         /\ rows[i].status = "awaiting_approval"
         /\ rows[i].kind = cards[p].kind
         /\ cards[p].order \in rows[i].target
  /\ \A i \in DOMAIN rows : rows[i].status = "awaiting_approval" =>
       /\ rows[i].proposal \in DOMAIN cards
       /\ cards[rows[i].proposal].state = "pending"

-----------------------------------------------------------------------------------
(* Resources.                                                                      *)

Unused == [executions |-> 0, tokens |-> 0, toolCalls |-> 0]

NewTask(kind) ==
  [kind |-> kind, status |-> "active", target |-> {}, proposal |-> None, policy |-> {},
   cased |-> FALSE, version |-> 1, used |-> Unused]

Least(a, b) == IF a < b THEN a ELSE b
Left(limit, used) == IF used < limit THEN limit - used ELSE 0

\* remaining_resources: what the tasks's earlier turns leave of the limits of a turn.
Prior(task) == IF task = None THEN Unused ELSE task.checkpoint.used
TokenLimit(task) == Least(MaxTokens, Left(TaskLimits.tokens, Prior(task).tokens))
ToolLimit(task) == Least(MaxToolCalls, Left(TaskLimits.toolCalls, Prior(task).toolCalls))

\* task_budget_exhausted
BudgetExhausted(task, tokens) ==
  \/ Prior(task).executions >= TaskLimits.executions
  \/ tokens >= TokenLimit(task)

\* A faulty gate on the result: it looks at the limit of a single turn.
UnboundedProposal(task, tokens, operation) == operation # None /\ tokens > MaxTokens

\* bound_proposal_result drops an operation that overspent the budget.
Overspent(task, tokens, operation) == operation # None /\ tokens > TokenLimit(task)

\* resource_totals: the turn counts as an execution whatever came of it.
Charged(used, response) ==
  [executions |-> used.executions + 1,
   tokens |-> used.tokens + response.tokens,
   toolCalls |-> used.toolCalls + response.requests]

-----------------------------------------------------------------------------------
(* Policy passages.                                                                *)

Passages(revision) == {<<"policy", p, revision>> : p \in Policy}

\* A faulty reuse: a passage is current as long as its source still exists.
ReusedBySource(saved, revision) == {e \in saved : e[2] \in Policy}

\* policy_reuse: the exact passage is the current one.
PolicyReuse(saved, revision) == saved \cap Passages(revision)

\* saved_policies adds the passages the answer cites.  The cache keeps the last
\* twelve, more than these instances ever hold.
SavedPolicies(saved, evidence) == saved \cup {e \in evidence : e[1] = "policy"}

-----------------------------------------------------------------------------------
(* Context: the subjects of the conversation.                                      *)

RefKind == [order |-> "order", catalog |-> "product", case |-> "case"]

\* evidence_references
References(evidence) ==
  {<<RefKind[e[1]], e[2]>> : e \in {e \in evidence : e[1] \in DOMAIN RefKind}}

Keep == [mode |-> "keep", subjects |-> {}, choices |-> {}]
Select(refs) ==
  [mode |-> IF refs = {} THEN "keep" ELSE "select", subjects |-> refs, choices |-> {}]

\* scope_context: the customer still owns the order, the catalog still lists the
\* product, the conversation has the case.
Scoped(refs, revision) ==
  {r \in refs : \/ r[1] = "order" /\ r[2] \in Order
                \/ r[1] = "product" /\ r[2] \in Sold[revision]
                \/ r[1] = "case"}

ScopeContext(context, revision) ==
  [context EXCEPT !.subjects = Scoped(@, revision),
                  !.pending = IF @ = None THEN None ELSE Scoped(@, revision)]

\* validate_change: the model names only records it has read in this turn.
ValidChange(change, catalog) ==
  change.subjects \cup change.choices \subseteq References(catalog)

Settling == {"verified", "owned_order_list", "proposal_validated", "missing_reference",
             "task_abandoned", "explicit_confirmation_required",
             "explicit_rejection_required"}

\* final_change raises: the answer does not cite its subjects, or choices are left
\* open by something other than a clarification.
ChangeRaises(change, evidence, reason) ==
  /\ reason \in Settling
  /\ change # None
  /\ \/ /\ reason = "verified" /\ change.mode = "select"
        /\ ~ change.subjects \subseteq References(evidence)
     \/ reason # "missing_reference" /\ change.choices # {}

FinalChange(change, evidence, reason) ==
  IF reason \notin Settling THEN None
  ELSE IF change # None THEN change
  ELSE Select(References(evidence))

\* commit_context
CommitContext(context, response) ==
  IF response.change = None THEN context
  ELSE LET change == response.change IN
    [version |-> context.version + 1,
     subjects |-> IF change.mode = "keep" THEN context.subjects ELSE change.subjects,
     pending |-> IF response.reason = "missing_reference" THEN change.choices
                 ELSE IF change.mode = "keep" THEN context.pending ELSE None,
     policy |-> IF change.mode = "clear" THEN {}
                ELSE SavedPolicies(context.policy, response.evidence)]

-----------------------------------------------------------------------------------
(* Checkpoints.                                                                    *)

\* A correction forgets the target and the cached passages of its task.
Corrected(checkpoint) == [checkpoint EXCEPT !.target = {}, !.policy = {}]

Closed == {"completed", "abandoned"}

\* checkpoint_result: the status a turn leaves its task with.
StatusAfter(saved, response) ==
  IF response.reason = "task_abandoned" THEN "abandoned"
  ELSE IF response.receipt \/ response.case THEN "completed"
  ELSE IF response.proposal # None \/ saved.status = "awaiting_approval"
    THEN "awaiting_approval"
  ELSE IF saved.status = "completed" /\ saved.cased THEN "completed"
  ELSE IF response.reason = "provider_or_validation_failure" THEN "failed"
  ELSE IF response.disposition = "clarification" THEN "awaiting_clarification"
  ELSE "awaiting_customer_decision"

\* checkpoint_result: the saved task after a turn that worked on it.
CheckpointResult(row, response) ==
  LET saved == IF response.mode = "correct" /\ row.status # "awaiting_approval"
               THEN Corrected(row) ELSE row
      cited == {e[2] : e \in {e \in response.evidence : e[1] = "order"}}
  IN [saved EXCEPT
       !.status = StatusAfter(saved, response),
       !.used = Charged(@, response),
       !.policy = SavedPolicies(@, response.evidence),
       !.version = @ + 1,
       !.target = IF cited # {} THEN cited ELSE @,
       !.proposal = IF response.proposal # None THEN response.proposal ELSE @,
       !.cased = @ \/ response.case]
===================================================================================
