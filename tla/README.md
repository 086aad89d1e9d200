# Verification of ai-systems

TLA+ models of this repository's backend, the TLC runs that check them, and
proofs that TLAPS checks. The repository is a FastAPI application of five
demos (customer support, internal knowledge with actions, incident
investigation, research briefings, and the contracts of a coding agent) over
one PostgreSQL database, with a shared registry of runs. What can go wrong in it
without a test noticing is concurrent and transactional: handlers that read in
one transaction and write in another, two requests for one conversation or one
order, a run whose handler dies, a repeated confirmation, an attempt that is
resumed. The models are about that, and about the budgets and checks with which the code
bounds what a language model may do. The text that models produce, and
the ranking and parsing around it, are outside them: a model may answer anything
that its contract admits.

Paths below are relative to `src/backend/` unless they say otherwise.

## How to run

    tlc -config SupportTurns.cfg MCSupportTurns      # one run; see the table below
    tlapm SupportActionsProofs.tla                   # one module of proofs

`PROJECT.json` lists the runs, the source lines of every definition, the seeded
faults that show each property can fail, the hazards and the theorems.

## The system

| Component | State it keeps | Operations | Status here |
|---|---|---|---|
| Run registry: `db/llm_runs.py`, `db/db_utils.py` | `llm_runs` rows with a status | `create_run`, `start_run`, `complete_run`, `fail_run`, inside a caller's transaction | modelled: `RunLifecycle`, `LlmRuns` |
| Support turns: `customer_support/repository.py`, `api.py` | demo sessions, conversations with `active_run_id`, saved outputs | `sign_in`, `create_conversation`, `begin`, `finish`, `abort`; handlers `execute`, `message`, `stream`, `decide` | partly: `SupportTurns` |
| Support actions: `customer_support/actions.py`, `store.py` | orders with a version, proposals, receipts, cases | `seed_orders`, `save_case`, `save_operation`, `confirm`, `review_order` | partly: `SupportActions`, `ProposalLedger` |
| Support tasks and context: `repository.py`, `task_resources.py`, `conversation_context.py` | checkpoints and a rolling context, both versioned; task budgets; saved policy passages | `checkpoint_result`, `finish`, `same_task`, usage accounting | modelled: `SupportTasks`, `SupportAgent` |
| Support agent: `customer_support/service.py`, `intent_*.py`, `contracts.py` | one turn's budgets, evidence and answers | `run_support`: intent routing, directives, tool loop, proposals, grounding, closing | partly: `SupportAgent` |
| Support retrieval: `customer_support/retrieval.py` | an index of policies and products, tied to the loaded store | `search` and its check of the index | partly: in `SupportAgent` |
| Knowledge answers: `internal_knowledge_action/answer_service.py`, `api.py` | runs, saved outputs with a proposal | `run_answer`, both branches | modelled: `KnowledgeActions` |
| Knowledge approvals: `action_approval.py` | the saved output, a mock task | `decide_action` | modelled: `ActionLedger`, `KnowledgeActions` |
| Knowledge index: `ingestion.py`, `retrieval.py` | an index file, replaced by renaming | incremental build, authorized search | modelled: `KnowledgeIndex` |
| Incident replay: `incident_investigation/detection.py`, `telemetry.py` | groups, clusters, aliases, emitted candidates; scoped telemetry | `replay_logs`, `build_summary`, the four queries | modelled: `IncidentReplay`, `IncidentTelemetry` |
| Incident runs: `simulation.py`, `service.py`, `agent.py`, `verification.py`, `api.py` | simulation output and its reviews, tool budgets, the investigation gate | simulate, investigate, verify, review | modelled: `IncidentRuns` |
| Research runs: `research_workflow/service/research.py`, `api.py` | attempts with a checkpoint, a semaphore | `run_research_workflow` | partly: `ResearchRuns` |
| Research recorder: `service/run_record.py` | sequence number under a lock | `emit` | planned: `ResearchRecorder` |
| Research agent and data adapters | evidence catalogue of one run | tool loop, classifiers, providers | not modelled: provider I/O |
| Coding agent, shared services, app shell, schema, front end, fixtures, evaluation | none of their own, or declarative | | not modelled |

How they interact: every demo creates its runs through the registry, inside its
own transactions, so that a run and what the demo saves about it commit
together. Support actions are called by turns: `finish` calls `save_operation`
in its transaction, and `confirm` is a turn of its own. A simulation calls the
investigation service, which calls back to record steps. A research attempt
shares its identifier with its run and keeps a status of its own beside it. Demos do
not call one another.

Which behaviours are hard, and what correctness means, component by component:

- **Run registry.** Sessions race on one row; the helpers' conditional UPDATE
  waits for the row lock and is evaluated afterwards. Correct: a run ends at
  most once and its committed status never goes back.
- **Support turns.** A turn reserves its conversation in one transaction, awaits
  an agent for up to two minutes, and releases it in another; the client may
  leave, the process may die, `finish` may fail and so may the transaction that
  would record the failure. Decisions run on a thread pool next to the event
  loop. Correct: reservation and run agree, turns are serial, runs end.
- **Support actions.** A proposal is made on a version of an order and confirmed
  later, in another transaction, perhaps twice, perhaps while a second
  conversation confirms another proposal on the order. Correct: each change is
  made once, accounted for by one receipt, and only while the proposal holds.
- **Research runs.** Two permits, a timeout, a staleness limit, a cache and a
  chain of resumed attempts in one handler. Correct: one attempt at a time per
  request, nobody takes a live attempt for dead, resumed attempts form a chain.
- **Support tasks.** Optimistic versions on two records written by one
  transaction, and a budget shared by the runs of a task. Correct: no update is
  lost, and the budget is spent once.
- **Support agent.** One loop in which a model decides what happens next, under
  limits of model requests, tokens, tool calls, repairs and executions that are
  tested in different places, some before the call that spends them and some
  after. A card of an earlier turn may be decided, and the store or its index
  replaced, between two turns. Correct: whatever the model answers, a turn
  ends, an operation is only proposed within its budgets and on current
  evidence, and tasks and cards go together.
- **Knowledge.** The requester's groups, the access lists and the sources may
  change between answer, proposal and approval; an approval may be repeated,
  refused, or come from somebody without authority; two builds write one
  temporary file. Correct: one task per proposal, only for evidence the requester
  may still read, and never an index with chunks of another text.
- **Incidents.** Clusters merge while logs arrive and keep aliases of absorbed
  ones; budgets have an exact limit; one investigation runs at a time, and those
  that wait may be cancelled; reviews refer to reports by incident, and two
  of them write one payload. Correct: a failure is one cluster and is reported
  once, a report rests on what was known at its detection, no review is lost.

The complete list of hazards, each at its line, is under `hazards` in
`PROJECT.json`; the one that no model reaches yet names the planned module.

## The modules

### RunLifecycle, LlmRuns

`RunLifecycle` is the abstract promise: one committed transaction moves runs
along `pending -> running -> completed | failed`, several transitions at a time
if the transaction holds several helper calls. Every other module of runs
instantiates it and shows that its committed statuses implement it
(`KeepsLifecycle`).

`LlmRuns` is `db/llm_runs.py`. `writes[s]` are the uncommitted row versions of
session `s`. A helper's UPDATE (`Transition`) waits while another session has
written the row (`Unlocked`) and tests the status it then finds (`Seen`), which
is how PostgreSQL evaluates a WHERE clause under READ COMMITTED after a lock wait. A
rejected helper raises, and `get_session` rolls back the whole transaction
(`TransitionRejected`, `CreateRejected`). `endings` is a history variable.

### SupportTurns

`repository.py` and the handlers of `api.py`. A request is a message or a
decision and creates at most one run, so the run has the request's name. The
variables `signed`, `owner`, `run`, `active` and `log` are committed tables;
`lock` is the row lock of an uncommitted UPDATE of a conversation; `pc` is where a
handler is; `read` and `base` note how many outputs it has seen. One action is
what a handler does up to the next point where another can act: the end of a
transaction, an await, or the lock wait of the reservation.

`Arrive` is the head of `begin` (ownership check and history read),
`ReserveMessage`/`RefuseBusy` the conditional UPDATE, `BeginCommit` its commit,
`OpenStream` the first iteration of a response body, `AgentReturns`/`AgentRaises`
the end of `run_support` (cancellation by a leaving client included),
`FinishResult`/`FinishException`/`FinishFails` the finish transaction and
`Abort` the fallback. A decision works in one transaction (`ReserveDecision`,
`DecideCommit`). Faults are actions of their own, for the messages in `Unlucky`
only: `LateClient`, `LostAbort`, `Killed`.

### ProposalLedger, SupportActions

`ProposalLedger` is the abstract specification: an order, a proposal and a
receipt, with each decision one atomic step. `SupportActions` EXTENDS
`SupportTurns`: each of its actions is one step of a turn with what that step
does to orders, proposals, receipts and cases. `PlanFinish` and
`FinishOperation` split the finish transaction after its reads of the order and
the tickets and before the writes; `ReserveDeal`, `Recheck`, `ChangeOrder` and
`CommitDecision` split `confirm` the same way: the claim of the proposal, the
recheck against the fixture, the conditional UPDATE of the order, and the commit
with receipt, output and run. Transactions of other conversations commit between those
steps. `ReplaceFixture` replaces the fixture file, which each handler loads once.

### ResearchRuns

`run_research_workflow` for requests of one server process. A handler is a
coroutine that uses the database synchronously, so it keeps the event loop from
one await to the next, over several transactions. `Busy` phases are those in which a
handler has the loop; other handlers' actions and time need `LoopFree`, and only
a crash can come in between. `Awaiting` phases are the awaits of providers. The
semaphore is modelled with its queue, because its permits are handed over before
the waiter resumes (`granted`). `created` and `ended` are the orders by
`created_at` and `completed_at` that the two lookups sort by. Time is counted
for the timeout (`elapsed`, since the permit) and the staleness limit (`age`,
since `started_at` or `created_at`). One action is one transaction or one await;
`Error` is a database error in any of them, `Fail` the exception handler,
`FailLost` an exception handler whose transaction fails.

`reviewed` says that the saved steps of an attempt have the decisions on web
passages, and `briefing` whether the saved briefing was written with them: it is
all that is kept of the content of a briefing.

### SupportTasks, SupportAgent

`SupportTasks` holds the rules of what a conversation keeps: whether two
operations are the same task (`same_task`), whether a task is out of budget, what
a finished turn does to its task (`checkpoint_result`) and to the context
(`conversation_context.py`), and which policy passages stay saved. They are
operators on records. `SupportAgent` applies them in one conversation: `tasks`,
`proposals`, `context` and `order` are its tables, `fixture` and `index` the two
files that a request loads, `turn` the memory of the running message.

One action is one answer of a model or judge, or one decision of the loop, with
everything the code does until the next: `Read` and `Classify` are the head of
`run_support` up to the routing of the judged intent; `ModelTurn` and its
refinements (`DirectNew`, `DirectCard`, `DirectTask`, ...) a model request and the
directive it carries; `CallTool` and the refusals before it (`RepeatCall`,
`InvalidArguments`, `ToolBudget`, ...) a lookup; `ProposalRefused`,
`ProposalHasCard`, `ProposalBudget` and `ProposalChecked` the checks of a proposed
operation in their order; `AnswerChecked`, `Grounded` and `Rejected` the grounding
judge and the one repair. `Finish` is the transaction of `repository.finish` with
checkpoint, case or card, context and charge. If it fails, `FinishFails` leads to
`Abort`, which releases the conversation; but the finish of a lost response (an unknown hint,
an interruption, any other exception that reaches `execute`) has no handler of
its own (`LostFinishFails`), and abort may fail as well (`AbortFails`): then the
conversation is `held`. An answer that is sent back for repair leaves its context change to the
turn (`Noted`, `Repair`). `Decide` is `actions.confirm` as one step, because its own interleavings
are in `SupportActions`, and so are the races of `begin` and `finish` in
`SupportTurns`: here the reservation is `pc # "idle"`,
and nothing is left to do in a held conversation.

### KnowledgeIndex, ActionLedger, KnowledgeActions

`KnowledgeIndex` is `ingestion.py`. `load_fixture` and the build are synchronous
and run in the endpoint's threads or in the command line tool, so that two builds
may race over one temporary file. Files have an identity of their own: `disk`
maps it to a content, and `indexFile` and `tempFile` are the two names. Opening the
temporary truncates it (`OpenTemporary`), writing replaces its content
(`WriteTemporary`), and `ReplaceIndex` renames it, which fails if another build
has renamed it already. A build reuses the chunks of the index it read
(`Reused`) if revision, text and model are those of the source.

`ActionLedger` is what the approval promises: one decision per proposal, a task
exactly for an executed one, each decision one atomic step. `KnowledgeActions`
EXTENDS `KnowledgeIndex` with the answer run and `decide_action`. An answer is
three transactions with awaits between them: `CreateRun`, `StartRun`, then
classification, search (`ReadFixture` and `Searched` read the corpus and the index
at different times), draft, judges, and the transaction that saves. A decision is
`ArriveDecision` (the corpus is loaded), `LockOutput`/`ReadOutput`, and one of
`Deny`, `Replay`, `Reject`, `Block` and `Execute`, which commit, or `RollBack`.
`HandlerGone` is a client that left, at any await.

### IncidentReplay, IncidentTelemetry, IncidentRuns

`IncidentReplay` is `replay_logs` as a recursive function: `Observe` is the
replay after one more log, with its groups, clusters, links, aliases and emitted
candidates. `Clustered` and `FirstCandidate` state what it should be, without
the tables: each error log is in exactly one cluster, two logs of related services that
share a group, a request or a trace within the window are in the same one,
however clusters merged in between, and a cluster is reported only if none of
the logs it has gathered was reported before. `IncidentTelemetry` is the
store's validation, the scope of an incident and the four queries.
`IncidentRuns` is the simulation (`StartSimulation`, `ReplayLog`, `Judged`,
`Save`, and the last callback, `TellLast` and `TellFails`), the investigation (`RequestInvestigation`, `Acquire` of the gate,
`CallTool`, `Draft` with `verify_report`, `Overrun`, `AgentStops`, `Leave`) and the
review (`ReadOutput` with the row lock, `Review`). The gate is modelled with its
queue. What a tool returns is what the store's caps leave of it, and of many metric
points the agent is shown, and may cite, only the condensed ones (`Shown`).
`scenario` is chosen once and holds the fixture and what users, models
and agents may do with it; `course` is the replay of its logs.

## The runs

| Run | Question | Instance | Distinct states |
|---|---|---|---|
| `llm_runs` | Does a run end once and keep its lifecycle when sessions race? | 2 runs, 3 sessions, symmetric | 150 |
| `support_turns` | Do reservation and run agree, are turns serial, do runs end? | 2 sessions, 2 conversations, 2 messages, 1 decision; every fault on `m2` | 84,680 |
| `support_turns_late_client` | Has every running run a handler? (no) | 1 session, 1 conversation, late clients | |
| `support_turns_history` | Does a turn see every output saved before it? (no) | the same without faults | |
| `support_actions` | Is every change made once and accounted for when two conversations decide on one order? | 2 conversations, 2 messages, 2 decisions, 1 order | 223,555 |
| `support_actions_fixture` | Do eligibility and ownership hold across customers and fixtures, with faults? | 2 customers, 2 sessions, 2 policies, 1 decision | 184,050 |
| `research_runs` | One attempt at a time, a chain of resumptions, everybody served? | 3 requests of one fingerprint, 2 permits, 1 crash; faults on `q1` | 114,248 |
| `research_resume` | Is every briefing written with the web decisions? (no) | the same without faults | |
| `knowledge_index` | Does an incremental build ever keep chunks of another text, and when is an index torn? | 3 builds, 2 models, 2 edits, 2 sources | 195,765 |
| `knowledge_actions` | Do evidence, proposals, tasks and runs agree while the corpus changes? | 2 requests for one run, 1 build, 1 edit, 2 decisions | 289,024 |
| `incident_runs` | Is a failure detected once, reported on what was known, and reviewed once? | 1250 replays of 5 logs; 6 scenarios with 3 simulations, 1 alert, 2 reviewers | 40,032 |
| `support_agent` | Do tasks, cards, budgets and context agree whatever the models answer? | 6 conversations, 2 orders, 4 operations, 1 or 2 messages | 215,687 |

Why these bounds are enough to be interesting:

- Three sessions are the smallest number with one that commits, one that waits
  for it and one that comes after. A run has one row and rows are independent.
- In the turns, two messages and a decision give every pair of kinds of turns on one
  conversation, and a second conversation gives a turn elsewhere. A fault on
  one message and a faultless other shows both that the safety properties
  survive the fault and that it does not keep the other run from ending.
- Two conversations, two proposals and two decisions are what a race for one
  order takes, and also what a repeated or contradictory decision takes. A
  second order would add no interaction: no transaction touches two orders.
- Three requests are two that hold the permits and one that waits, and a chain
  in which a resumed attempt is resumed again. One fingerprint is the worst
  case: requests of different fingerprints share the permits only. The code has
  a timeout of three minutes and a staleness limit of five; the model needs
  only that the first is not longer (`ResearchAssumption`), and checks the tight
  case, one unit each. Crashes are bounded by `MaxCrashes`; `age` and `elapsed`
  stop one unit after their limits, where every comparison has its final value.
- Three builds are two that race and one that reads what they left; the two
  edits are what it takes to change a source and to change it back. The corpora
  differ in a text without its revision, in an access list, and in a source.
- Two requests for one run are a client that repeats its request under the
  identifier it chose; two decisions are a repeated, a contradictory or an
  unauthorized one, and the edit, which closes the ticket to the requester,
  may come anywhere between them.
- The replays are all sequences of five logs of five templates, at two
  distances: five logs can open two clusters, merge them over a trace or a
  request, and let a group's window (2) expire. The other scenarios have two
  incidents, records before and after their detection, a gap, more metric points,
  spans and changes than a query returns (4, 1, 1) or a model is shown (3 points),
  a budget of two tool calls and up to three reports, so that the gate has two waiters and a budget
  ends in the middle of an investigation. One fixture has more logs than a replay takes (5).
  An investigation looks back 3 and a fixture is 12 long.
- A support turn has at most 7 tokens, 2 lookups, 3 model requests, one repair;
  a task 3 executions, 10 tokens, 3 lookups over all its turns. Every request costs
  one token and every judgment two, so each limit can be the first to be
  reached. The six conversations are a new one with two messages to come, a
  task out of executions, one almost out of tokens, two that are alike, a card,
  and a card older than the `CandidateLimit` tasks a turn looks at (2; 20 in the code).
- The identifiers are model values, symmetric where all of them play the same
  role. Runs that check liveness use no symmetry.

Deadlock checking is off where requests may simply all have been answered. It
is on in `llm_runs`, where a session can always begin again or roll back.

### What the properties say

- `EndedOnce`, `WritesAhead`: exactly the terminal runs have been ended, once,
  and no uncommitted status is behind the committed one.
- `Reservation`: a conversation is reserved for a run exactly as long as that
  run is running. `TurnsSerial`: nothing is saved in a conversation between
  a turn's reservation and its own output. `RunEnds`: a running run whose
  handler is not lost ends, and its conversation is free again.
- `OrderAccounting`: the versions of an order after the first are those its executed
  receipts report, each by one receipt; no change is lost or made twice.
  `Accounted`: proposal, receipt, decision run and saved output agree.
  `TicketsSequential`: ticket numbers have no gap although `save_case` counts to
  assign them. `FreshIsEligible`: a proposal on its order's current version is
  eligible under its own rules, so `ineligible_order` is never the whole reason.
  `Isolation`: orders change on behalf of their customer. `ImplementsLedger`:
  the multi-step transactions implement the atomic ledger.
- `StatusesAgree`: an attempt's own status is that of its run. `OneAttempt`: a
  fingerprint never has two attempts that have not failed. `OwnsAttempt`: no
  request fails an attempt whose handler is within its time. `Lineage`: resumed
  attempts are linked to failed ones with a checkpoint, and no checkpoint is
  resumed twice. `Answered`, `AttemptEnds`: waiters are served and attempts end
  although providers may never answer.

- `ChunksCurrent`: the chunks a whole index keeps for a source were cut from the
  text it records for it. `WholeIndex`: readers find a whole index, unless two builds had the
  temporary file open at once (`rivals`).
- `EvidenceAuthorized`: what a run has as evidence is of the revision of its
  corpus and granted by it to its requester, although it was found in an index of
  another time.
  `Accounts`: runs, outputs and tasks agree. `OffersApprovable`: the
  assistant's policy and the approval's policy, written twice, agree.
  `ImplementsLedger`: decisions implement the atomic ledger. `RunEnds`.
- `ClustersWhole`, `CandidateOnce`: the replay against its reference.
  `ReportsObservable`: a report cites what its tools have shown and what was
  known at the detection, and discloses the gaps. `StopReasonsAgree`: a
  simulation says of itself what its run and its investigations say.
  That is so also when the last callback raises after the run has been completed.
  `ReviewsKept`: no review is overwritten or doubled. `IncidentRunsEnd`: a run that has
  started ends.
- `CardsMatchTasks`: a card that waits for the customer belongs to exactly one
  task that awaits it. `NothingStale`: no finished turn is refused because of a
  version. `OperationWithinBudget`: a card or case only within the task's executions and tokens over all its turns.
  `OnlyRequestsTouchTasks`: a question changes no task. `EvidenceCurrent`: a
  card rests on passages of the store it is stamped with. `EveryTurnEnds`: every
  message ends and its reservation is released, unless the transaction that
  would do so on a path of failure fails too. A conversation in which that happens is
  held for good; `NoOrphan` shows the other way to get there.

The type invariants of the modules with proofs are proved and not run.

For each property of a passing run `PROJECT.json` has a mutant: a faulty
definition in the module (the comments call it faulty) with which TLC finds the property
violated, so none of them holds by the shape of the model.

### Fairness

`SupportTurns!Fairness` is weak fairness of what the server does for each
message and decision that has arrived: the event loop and the thread pool
schedule ready handlers, a lock wait ends with the transaction that causes it,
and `run_support` has a deadline of 120 seconds, so the await of the agent ends.
`ResearchRuns!Fairness` is weak fairness of what the server does for a request
without waiting for a provider, and of the clock. Providers get no fairness: the
timeout alone ends an await. Clients get none in either.

`KnowledgeActions!Fairness` is weak fairness of an answer that has begun and of each
decision: models have timeouts and transactions end. `IncidentRuns!FairSpec` is weak
fairness of each simulation, investigation and review; the classifier and the
agent have timeouts, and no client has to leave. `SupportAgent!FairSpec`
is weak fairness of `Serve`, which is every step of a turn except a
provider that fails and a transaction that fails (`FinishFails`,
`LostFinishFails`, `AbortFails`): every call is answered in
the end, and no turn needs a failure to end it. Nothing makes a client send a message
or a request.

### Findings

Three runs state what the documentation says and end in a counterexample.

1. `NoOrphan` (`support_turns_late_client`). `stream` commits the reservation and
   then returns a response whose body creates the task that ends the run. A
   client that is gone before the body is iterated leaves a running run and a
   conversation that refuses every later message.
2. `TurnSeesHistory` (`support_turns_history`). `begin` reads the history before
   it reserves. A decision can reserve, save its output and release in between;
   the message then works without that output.
3. `ReviewsKept` (`research_resume`). A resumed attempt reads the decisions on
   web passages from the steps of the attempt it resumes and does not save
   them in its own steps. The second resumption in a chain finds none, and its briefing
   reports reviewed passages as not selected.

Behaviour worth knowing that no run is about:

- *Support.* The tool limit of a task is tested when a directive names it; a
  task that is recognised only by its operation (a directive "new") may end above 24
  lookups, so `OperationWithinBudget` is about executions and tokens. A turn
  that is interrupted or raises is saved without a task and charges none. Two cards for
  one order are possible, if an operation cites two orders or the first card is older than the
  candidates, each with a task of its own. The end of the loop after `MAX_TURNS` requests is out of reach: six
  tool calls, the closing answer and its repair are the eight requests. The instance
  has one request less than that, so that the end of the loop is checked too. The version tests of
  `repository.py:84` and `repository.py:397` never fail while the reservation
  holds (`NothingStale`). A failed `correct` directive that names an unavailable task, after
  another was selected, clears the selected task's target.
- *Knowledge.* `decide_action` loads the corpus before it waits for the row
  lock. It tests the authority of the approver before the status of the proposal, so
  that a decision without authority overwrites the stop reason of an executed or rejected
  proposal, for which the page then shows "The proposal remains pending."
  (`src/frontend/src/knowledgeAnswerPresentation.ts:26`); the decision itself and its
  task stay as they are (`ImplementsLedger`). A rejection after the execution is
  answered like a repeated approval.
  A torn index, which two overlapping builds can leave, makes every later build
  fail, because a build loads the previous index first.
- *Incidents.* Two clusters that have both been reported may merge later. A
  candidate at the first instant of the fixture has an empty scope, which
  raises and fails the simulation. `inspect_trace` tells the agent of a gap that starts exactly at the
  end of the scope, which the report does not disclose.

Two checks turned out to be backed by a second one, so that dropping either
alone breaks no property: the condition that a claimed proposal is pending (the
receipt's unique key), and the staleness test before the order's UPDATE (its
version condition). The mutants therefore drop the second check of each pair or
another condition.

## The proofs

The theorems hold for every value of the constants that the named assumptions
admit: any number of runs, sessions, conversations, requests, orders, corpora,
fixtures. Every safety invariant and every action property of a passing run is
stated by a theorem. TLC has checked each inductive invariant on the runs before
it was proved.

- **LlmRunsProofs.** `IInv` is the type invariant with `OneWriter`, `WritesAhead`
  and `EndedOnce`. `EndedOnce` alone is not inductive: that a commit ends a run only
  once needs that what a session wrote is still ahead of the committed status,
  and that needs that nobody else wrote the row. `TerminalOnce`,
  `WritesStayAhead`, `Lifecycle`.
- **SupportTurnsProofs.** `IInv` adds to `Reservation` and `TurnsSerial` what the
  handlers know: `HandlerInv` (phase and run status of a request go together),
  `LockInv` (the row lock of a conversation belongs to a handler that has written and not
  committed, and then the conversation is free), `TurnInv` (a held turn's `base` is the length
  of the log). `ReservationHolds`, `TurnsAreSerial`, `SupportLifecycle`.
- **SupportActionsProofs.** Every action of `SupportActions` is a step of
  `SupportTurns` (`ActionsKeepTurns`), so the turn invariant is available. `AInv`
  adds, table by table, what a handler in the middle of a transaction may rely
  on: a plan of a finish transaction is sound for the order's version
  (`JobInv`), a checked deal still holds the row it read or will be refused
  (`DealInv`), receipts belong to proposals (`ReceiptInv`), proposals were
  eligible when made (`OfferInv`), versions are counted from the fixture
  (`RowInv`, `UnseededInv`) and sessions own what they proposed
  (`SessionInv`). From it: `OrdersAccounted`, `DecisionsAccounted`,
  `FreshProposalsEligible`, `OrdersIsolated`, and by a step simulation
  `ActionsImplementLedger`. `TicketInv` is on top of it: the number of a case is
  counted in one step and saved in a later one, and it is still the next one
  because the handler has the conversation to itself (`PlanTicket`,
  `DealTicket`); the case is a new one because a case of an operation is saved
  when its message is done and a case of a blocked proposal with its receipt
  (`KeyInv`). `TicketsAreSequential`.
- **ResearchRunsProofs.** `IInv` has the facts about the two tables (`Rows`), each
  kept by the three ways in which the code writes them: a new attempt
  (`CreateRow`), an update of a live one (`UpdateRow`), an attempt that fails
  (`FailRow`). `Ordered` is the strengthening that `Lineage` needs: in the order by
  `completed_at` each failed attempt is behind the one it resumed, hence the
  checkpoint that the lookup takes, the latest, has not been resumed yet.
  `OneAttempt` needs that the handler between the lookup and the creation still has
  the event loop (`OneBusy`, `Creating`), and `OwnsAttempt` that a live attempt
  is not older than the time its handler has had (`Handlers`). `Queueing`
  says who waits for a permit. `AttemptsAgree`, `OneAttemptPerFingerprint`,
  `AttemptsOwned`, `ResumptionsChain`, `ResearchLifecycle`.
- **KnowledgeIndexProofs.** `IndexInv` has what a build holds (`DraftInv`), what
  whole files say (`DiskInv`), that a file to be created is not in use
  (`FileInv`), and `AloneInv`, which `WholeIndex` needs: as long as no two
  builds have had the temporary open at once it is the file of the one build
  that has it open, and not the index. `IndexChunksCurrent`, `IndexWhole`.
  The steps of the index are steps of `KnowledgeActions`, which uses `IndexInv`.
- **KnowledgeActionsProofs.** `KInv` says what a request has in each phase
  (`AnswerInv`: evidence of the corpus it loaded, from sources its persona is
  granted, and nothing offered yet), what a saved result may be (`SoundResult`,
  `OutputInv`), that a request under way has its run to itself (`OwnerInv`), and
  that a decision with the row lock works on what is committed (`DealInv`);
  `Accounts` is inductive only with the last two. `KEvidenceAuthorized`,
  `KAccounts`, `KOffersApprovable`, and the refinement `KImplementsLedger`, in
  which only the commit of an answer and of a decision are steps of the ledger.
- **SupportAgentProofs.** `AInv` is `CardsMatchTasks` with `RowsInv`, about the
  tables, and `TurnInv`, about the memory of a turn in each phase: it has read
  what is committed (`ReadNow`), its task was selected by a request (`OnTask`),
  an operation is backed by an order, policy and a budget before it is judged
  (`Backed`), and a response is what `finish` will find true (`ResponseOf`).
  `CardsHaveTasks`, `NothingIsStale`, `RequestsTouchTasks`,
  `OperationsWithinBudget`, `EvidenceIsCurrent`.
- **IncidentRunsProofs**, runs. `RunsInv` ties the tables to the coroutines:
  `OwnInv` (a run belongs to one simulation and has no output before it is
  saved), `StoryOf` (all incidents but the one under investigation have a
  completed report, as long as the simulation goes on), `WorkOf` (what the agent
  has been shown is within its scope), `SavedOf` (the same of what is saved, as
  `Told` has it) and `ReadingOf` (a reviewer holds the row it has read). A callback
  that raises when everything is saved changes nothing because of `EndedInv`: a run whose last
  step is being shown has ended, and an ended run is never started again.
  `StopReasonsOfRunsAgree`, `ReportsRestOnTheObservable`, `ReviewsAreKept`.
- **IncidentRunsProofs**, replay. `CourseInv` says that every simulation is
  somewhere in the one replay of its fixture. What that replay is at each log is
  `ReplayInv`: the steps are the logs so far in order (`StepsInv`), a cluster
  has the logs of its groups (`ClustersInv`), a merged cluster has one alias and
  a live one none (`AliasInv`), every entry of the tables leads to the live
  cluster that it means (`TablesInv`), what detection correlates is together
  (`CorrelatedInv`), a candidate is shown with its cluster (`SummaryInv`), and
  `FirstCandidate`. One log keeps it, whichever clusters it merges; that it then
  holds at each log is a proof by the least counterexample, with the
  library's theorem that the order of the naturals is well-founded, because its
  induction theorem takes an operator. Before that, the recursive functions
  `canonical` and `replay_logs` are shown to exist and to satisfy their
  equations. `ReplaysAreClustered`, `CandidatesAreFirst`, for every finite set
  of logs.

The assumptions, which TLC evaluates on the runs:

- `RequestAssumption`, `ActionsAssumption`, `RowAssumption`: rows, messages and
  decisions are not `None`; messages are finitely many; the fixture has a customer and
  a state for each order.
- `ResearchAssumption`: essentially, the timeout is not longer than the
  staleness limit.
- `KnowledgeAssumption`, `IndexAssumption`: requests have a run and a persona,
  corpora are corpora, an empty or torn file is not a snapshot.
- `TasksAssumption`, `AgentAssumption`: limits are numbers, tool calls name a
  tool that is offered, a context change selects subjects if its mode is
  `select`, and an operation that changes an order names it, as the parsers
  require. `HistoryAssumption`: a conversation begins with tasks and
  cards that match, as earlier turns leave them.
- `TelemetryAssumption`, `ReplayAssumption`: windows, limits and caps are numbers, and
  no identifier is `None`.
- `IncidentAssumption`: fixtures are finite and valid (records have distinct
  identifiers, numbers that are ordered as the names in the files are), an
  investigation of the alert has a run of its own, a model is shown at least two
  points (the first and the last), models and agents answer
  within their types.

Model-checked and not proved are the liveness properties, which are out of the
prover's reach: `RunEnds` of turns and of answers, `Answered`, `AttemptEnds`,
`IncidentRunsEnd` and `EveryTurnEnds`. So are the counterexamples of the runs
that expect a violation.

## What the models assume

- PostgreSQL at READ COMMITTED, SQLAlchemy's default: an UPDATE takes the row
  lock, a second one waits and re-evaluates its WHERE clause on the committed row, and
  plain reads see what is committed. Commits are atomic.
- UUIDs and session tokens are fresh. Times of creation and of failure of research attempts
  are ordered like the events; two of one microsecond are not considered.
- The research server is one process (the semaphore is the process's), and its
  event loop is never held for minutes by database calls.
- Left out of the data: texts, evidence, usage, traces, timestamps for display,
  model calls other than by their outcome (returns, raises, is cancelled).
- In `SupportActions` a message makes at most one proposal, keyed by its run, as
  `save_operation` has it; a replay of `save_operation` under one run does not
  happen, since a run reaches its finish transaction once.
- `SupportAgent` is `run_support` as `execute` calls it: without `task_checkpoint` and
  `task_resumed`, with operations enabled and a context. Display caps (eight
  candidates, ten subjects) and the cache's cap of twelve passages are not
  reached in the model.
- In `KnowledgeActions` a source has one passage. A retrieval finds any part of what is
  authorized, and drafts cite anything.
- In `IncidentRuns` transactions answer, except the one of `SaveFails`. A callback
  raises only at the last step (`TellFails`): earlier, where the run is still
  running, it has the effect of `Leave`. Which points between the first and the last are
  shown depends on their values, which are left open. Creating and starting a run have no
  await between them; a tool runs to its end. The pause after a log is taken
  after every log, as with a positive replay delay.

## Plan

Done so far, in the order of importance: the registry, turns and actions, which
carry the effects; research runs; knowledge answers, approvals and index;
incident replay and runs; support tasks and agent. Left, in this order:

1. `ResearchRecorder`: `emit` from two threads, its sequence under the lock, its
   transaction, and the stream that reads behind it.
2. The research agent's evidence catalogue and the repair of findings.
3. Proofs of what these add.

## Not modelled

- The research agent's tool loop and classifiers, and the adapters of its
  providers: parsing and I/O around one coroutine; their outcome (returns, raises,
  times out) is what `ResearchRuns` has of them.
- The support parameters `task_checkpoint` and `task_resumed`, which no
  handler passes, `attach_trace`, and the endpoints that only read.
- `providers.py` and the other model clients, embeddings, ranking and scores.
- The coding agent, a scaffold of data types; shared services, application
  assembly and tracing; migrations; the React client; generators of fixtures and
  evaluation scripts.
