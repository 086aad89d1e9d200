-------------------------------- MODULE ResearchRuns --------------------------------
(***********************************************************************************)
(* Research briefings: run_research_workflow (research_workflow/service/           *)
(* research.py) as concurrent requests of one server process.                      *)
(*                                                                                 *)
(* A request waits for one of the semaphore's slots, then looks for an attempt     *)
(* with its fingerprint: an attempt that has not failed answers it; an attempt     *)
(* that stopped updating is failed and replaced; a failed attempt's checkpoint is  *)
(* resumed as a new attempt; otherwise a new attempt starts from nothing.  Each    *)
(* request makes at most one attempt, so an attempt is named by its request.       *)
(*                                                                                 *)
(* Handlers are coroutines that use the database synchronously: a handler keeps    *)
(* the event loop from one await to the next, over several transactions, and only  *)
(* a crash comes in between.  Time passes while handlers await, in units of which  *)
(* the workflow's timeout has Deadline and the staleness limit has StaleAfter.     *)
(***********************************************************************************)
EXTENDS Naturals, Sequences, FiniteSets

CONSTANTS Request,        \* requests, and the attempts they make
          Fingerprint,    \* request fingerprints
          Asks,           \* [Request -> Fingerprint], what each request asks
          Slots,          \* permits of RESEARCH_SEMAPHORE
          Deadline,       \* the workflow's timeout, after the slot was acquired
          StaleAfter,     \* an open attempt is stale when it is older than this
          MaxCrashes,     \* bound on the crashes of the server process
          Faults,         \* the faults that may happen, out of FaultKinds
          Unlucky,        \* the requests they may happen to
          None

\* Lost:    the transaction that would have failed the attempt fails itself.
\* Overrun: a tool's worker thread holds up the cancellation of its handler.
FaultKinds == {"Lost", "Overrun"}

ASSUME ResearchAssumption ==
  /\ Asks \in [Request -> Fingerprint]
  /\ Slots \in Nat \ {0}
  /\ Deadline \in Nat \ {0}
  /\ StaleAfter \in Nat
  /\ Deadline <= StaleAfter
  /\ MaxCrashes \in Nat
  /\ Faults \subseteq FaultKinds
  /\ Unlucky \subseteq Request
  /\ None \notin Request

VARIABLES
  run,       \* [Request -> Status], llm_runs.status
  attempt,   \* [Request -> Attempt], the research_runs rows
  created,   \* Seq(Request), attempts by created_at
  ended,     \* Seq(Request), failed attempts by completed_at
  age,       \* [Request -> Nat], now - (started_at or created_at), up to StaleAfter + 1
  pc,        \* [Request -> Phase], where the request's handler is
  queue,     \* Seq(Request), waiters of the semaphore
  holders,   \* requests that hold a slot
  elapsed,   \* [Request -> Nat], time since the handler acquired its slot, up to Deadline + 1
  reviews,   \* [Request -> BOOLEAN], the handler has the decisions on web passages
  crashes    \* crashes so far

stored == <<run, attempt, created, ended>>
gate == <<queue, holders>>
vars == <<stored, age, pc, gate, elapsed, reviews, crashes>>

R == INSTANCE RunLifecycle WITH Run <- Request

Open == {"pending", "running"}

Stage == {"none", "agent_completed", "verification_completed"}

\* reviewed: a saved step has the decisions on web passages.  briefing: the briefing is
\* saved, written with those decisions or without them.
Attempt == [status : R!Status, from : Request \cup {None}, stage : Stage,
            reviewed : BOOLEAN, briefing : {"none", "with", "without"}]

\* There is no row yet.
NoAttempt == [status |-> "none", from |-> None, stage |-> "none",
              reviewed |-> FALSE, briefing |-> "none"]

\* Phases in which a handler has the event loop.
Busy == {"looking", "creating", "resuming", "starting", "reviewing", "checkpointing",
         "completing", "reporting", "failing"}

\* Phases in which a handler that holds a slot awaits a provider, under the timeout.
Awaiting == {"preparing", "researching", "verifying"}

Phase == Busy \cup Awaiting \cup
  {"idle",       \* the request has not arrived
   "waiting",    \* for a slot
   "granted",    \* a slot was handed over, the coroutine has not resumed
   "done"}       \* answered, refused, or the process is gone

Init ==
  /\ R!Init
  /\ attempt = [q \in Request |-> NoAttempt]
  /\ created = <<>>
  /\ ended = <<>>
  /\ age = [q \in Request |-> 0]
  /\ pc = [q \in Request |-> "idle"]
  /\ queue = <<>>
  /\ holders = {}
  /\ elapsed = [q \in Request |-> 0]
  /\ reviews = [q \in Request |-> FALSE]
  /\ crashes = 0

LoopFree == \A q \in Request : pc[q] \notin Busy

Goto(q, phase) == pc' = [pc EXCEPT ![q] = phase]

-----------------------------------------------------------------------------------
(* The semaphore: first come, first served.  A released slot is handed to the first *)
(* waiter; arrivals queue behind waiters that have not resumed yet.                *)

\* Every slot is taken, or somebody is before us.
Locked == Cardinality(holders) >= Slots \/ queue # <<>> \/ \E r \in Request : pc[r] = "granted"

\* Request q acquires a slot or queues; in the first case it keeps the loop.
Arrive(q) ==
  /\ pc[q] = "idle"
  /\ LoopFree
  /\ IF Locked
       THEN Goto(q, "waiting") /\ queue' = Append(queue, q) /\ UNCHANGED holders
       ELSE Goto(q, "looking") /\ holders' = holders \cup {q} /\ UNCHANGED queue
  /\ UNCHANGED <<stored, age, elapsed, reviews, crashes>>

\* Request q goes on in a phase; the first n waiters get slots.
Wake(q, phase, held, n) ==
  LET woken == {queue[i] : i \in 1 .. n} IN
    /\ queue' = SubSeq(queue, n + 1, Len(queue))
    /\ holders' = held \cup woken
    /\ pc' = [r \in Request |-> IF r = q THEN phase
                                ELSE IF r \in woken THEN "granted" ELSE pc[r]]

\* A waiter resumes; it passes on the slots that came free before it did.
Resumed(q) ==
  /\ pc[q] = "granted"
  /\ LoopFree
  /\ LET free == Slots - Cardinality(holders)
     IN Wake(q, "looking", holders, IF free \in 0 .. Len(queue) THEN free ELSE Len(queue))
  /\ UNCHANGED <<stored, age, elapsed, reviews, crashes>>

\* The handler of q is done and its slot goes to the first waiter.
Release(q) == Wake(q, "done", holders \ {q}, IF queue = <<>> THEN 0 ELSE 1)

-----------------------------------------------------------------------------------
(* The lookup: one transaction.                                                    *)

\* The last request of a sequence that is in a set.
Latest(order, S) ==
  order[CHOOSE i \in DOMAIN order :
          order[i] \in S /\ \A j \in DOMAIN order : order[j] \in S => j <= i]

\* A faulty lookup: an attempt that is under way does not count.
HitsCompleted(q) == {r \in Request : Asks[r] = Asks[q] /\ attempt[r].status = "completed"}

\* The attempts with q's fingerprint that have not failed.
Hits(q) ==
  {r \in Request : Asks[r] = Asks[q] /\ attempt[r].status \in Open \cup {"completed"}}

\* A faulty _stale: the age at which the workflow may still be under way.
StaleEarly(r) == attempt[r].status \in Open /\ age[r] >= Deadline

\* _stale, of an attempt that has not reached a terminal status.
Stale(r) == attempt[r].status \in Open /\ age[r] > StaleAfter

\* cached_run: the newest hit, as a set of at most one attempt.
Cached(q) == IF Hits(q) = {} THEN {} ELSE {Latest(created, Hits(q))}

\* The attempt that answers the request, if any.
Answer(q) == {r \in Cached(q) : ~Stale(r)}

\* The stale attempt that the lookup fails, if any.
TakenOver(q) == {r \in Cached(q) : Stale(r)}

\* Both tables after the stale attempt has been failed.
FailStale(q) ==
  [r \in Request |-> IF r \in TakenOver(q) THEN [attempt[r] EXCEPT !.status = "failed"]
                     ELSE attempt[r]]

FailStaleRun(q) == [r \in Request |-> IF r \in TakenOver(q) THEN "failed" ELSE run[r]]

EndStale(q) == IF TakenOver(q) = {} THEN ended ELSE Append(ended, Latest(created, Hits(q)))

\* Failed attempts with q's fingerprint and a checkpoint after the agent.
Checkpointed(q) ==
  {r \in Request : /\ Asks[r] = Asks[q]
                   /\ FailStale(q)[r].status = "failed"
                   /\ FailStale(q)[r].stage = "agent_completed"}

\* A faulty order of the checkpoints: the oldest first.
CheckpointOldest(q) == EndStale(q)[CHOOSE i \in DOMAIN EndStale(q) :
  /\ EndStale(q)[i] \in Checkpointed(q)
  /\ \A j \in DOMAIN EndStale(q) : EndStale(q)[j] \in Checkpointed(q) => i <= j]

\* checkpointed_run: the one that failed last.
Checkpoint(q) == Latest(EndStale(q), Checkpointed(q))

\* An attempt answers the request, finished or not.
AnswerCached(q) ==
  /\ pc[q] = "looking"
  /\ Answer(q) # {}
  /\ Release(q)
  /\ UNCHANGED <<stored, age, elapsed, reviews, crashes>>

\* No attempt and no checkpoint: commit, a stale attempt failed or not.
Miss(q) ==
  /\ pc[q] = "looking"
  /\ Answer(q) = {}
  /\ Checkpointed(q) = {}
  /\ attempt' = FailStale(q)
  /\ run' = FailStaleRun(q)
  /\ ended' = EndStale(q)
  /\ Goto(q, "creating")
  /\ UNCHANGED <<created, age, gate, elapsed, reviews, crashes>>

\* _create_research_attempt for a checkpoint: linked, with its stage and payload.
ResumeCheckpoint(q) ==
  /\ pc[q] = "looking"
  /\ Answer(q) = {}
  /\ Checkpointed(q) # {}
  /\ attempt' = [FailStale(q) EXCEPT ![q] =
       [NoAttempt EXCEPT !.status = "pending", !.from = Checkpoint(q),
                         !.stage = FailStale(q)[Checkpoint(q)].stage]]
  /\ run' = [FailStaleRun(q) EXCEPT ![q] = "pending"]
  /\ ended' = EndStale(q)
  /\ created' = Append(created, q)
  /\ age' = [age EXCEPT ![q] = 0]
  /\ Goto(q, "resuming")
  /\ UNCHANGED <<gate, elapsed, reviews, crashes>>

-----------------------------------------------------------------------------------
(* An attempt.                                                                     *)

\* _create_research_attempt; the query precheck follows before the first await.
Create(q) ==
  /\ pc[q] = "creating"
  /\ attempt' = [attempt EXCEPT ![q] = [NoAttempt EXCEPT !.status = "pending"]]
  /\ run' = [run EXCEPT ![q] = "pending"]
  /\ created' = Append(created, q)
  /\ age' = [age EXCEPT ![q] = 0]
  /\ Goto(q, "preparing") \/ Goto(q, "failing")
  /\ UNCHANGED <<ended, gate, elapsed, reviews, crashes>>

\* A faulty start: only the shared run is started.
StartRunOnly(q, phase) ==
  /\ run' = [run EXCEPT ![q] = "running"]
  /\ age' = [age EXCEPT ![q] = 0]
  /\ Goto(q, phase)
  /\ UNCHANGED <<attempt, created, ended, gate, elapsed, crashes>>

\* start_run and the attempt's own status and started_at.
Begin(q, phase) ==
  /\ run' = [run EXCEPT ![q] = "running"]
  /\ attempt' = [attempt EXCEPT ![q].status = "running"]
  /\ age' = [age EXCEPT ![q] = 0]
  /\ Goto(q, phase)
  /\ UNCHANGED <<created, ended, gate, elapsed, crashes>>

\* A resumed attempt goes on to verification, with the decisions on web passages that
\* the steps of the attempt it resumes have.
BeginResumed(q) ==
  /\ pc[q] = "resuming"
  /\ reviews' = [reviews EXCEPT ![q] = attempt[attempt[q].from].reviewed]
  /\ Begin(q, "verifying")

\* The classifiers and the prefetch return: the query is relevant, or it is refused.
Prepared(q) ==
  /\ pc[q] = "preparing"
  /\ LoopFree
  /\ Goto(q, "starting") \/ Goto(q, "failing")
  /\ UNCHANGED <<stored, age, gate, elapsed, reviews, crashes>>

BeginAgent(q) ==
  /\ pc[q] = "starting"
  /\ Begin(q, "researching")
  /\ UNCHANGED reviews

\* The agent and the review of web passages return, or the agent fails.  Once cancelled,
\* they do not return.
Researched(q) ==
  /\ pc[q] = "researching"
  /\ elapsed[q] <= Deadline
  /\ LoopFree
  /\ Goto(q, "reviewing") \/ Goto(q, "failing")
  /\ UNCHANGED <<stored, age, gate, elapsed, reviews, crashes>>

\* The step with the decisions on web passages.
SaveReviews(q) ==
  /\ pc[q] = "reviewing"
  /\ attempt' = [attempt EXCEPT ![q].reviewed = TRUE]
  /\ reviews' = [reviews EXCEPT ![q] = TRUE]
  /\ Goto(q, "checkpointing")
  /\ UNCHANGED <<run, created, ended, age, gate, elapsed, crashes>>

SaveCheckpoint(q) ==
  /\ pc[q] = "checkpointing"
  /\ attempt' = [attempt EXCEPT ![q].stage = "agent_completed"]
  /\ Goto(q, "verifying")
  /\ UNCHANGED <<run, created, ended, age, gate, elapsed, reviews, crashes>>

\* Grounding, repair and narrative end with findings, or no finding remains.
Verified(q) ==
  /\ pc[q] = "verifying"
  /\ LoopFree
  /\ Goto(q, "completing") \/ Goto(q, "failing")
  /\ UNCHANGED <<stored, age, gate, elapsed, reviews, crashes>>

\* The briefing, the stage and both statuses are one transaction.
Complete(q) ==
  /\ pc[q] = "completing"
  /\ run[q] = "running"
  /\ run' = [run EXCEPT ![q] = "completed"]
  /\ attempt' = [attempt EXCEPT ![q].status = "completed",
                                ![q].stage = "verification_completed",
                                ![q].briefing = IF reviews[q] THEN "with" ELSE "without"]
  /\ Goto(q, "reporting")
  /\ UNCHANGED <<created, ended, age, gate, elapsed, reviews, crashes>>

\* The last step is saved and the request answered.
Report(q) ==
  /\ pc[q] = "reporting"
  /\ Release(q)
  /\ UNCHANGED <<stored, age, elapsed, reviews, crashes>>

-----------------------------------------------------------------------------------
(* Failures.                                                                       *)

\* A database error between two awaits: the transaction at hand is rolled back.
Error(q) ==
  /\ pc[q] \in Busy \ {"failing"}
  /\ Goto(q, "failing")
  /\ UNCHANGED <<stored, age, gate, elapsed, reviews, crashes>>

\* A faulty timeout: only the agent is under it.
TimeoutAgent(q) ==
  /\ pc[q] = "researching"
  /\ elapsed[q] >= Deadline
  /\ LoopFree
  /\ Goto(q, "failing")
  /\ UNCHANGED <<stored, age, gate, elapsed, reviews, crashes>>

\* asyncio.timeout: the await of the handler is cancelled.
Timeout(q) ==
  /\ pc[q] \in Awaiting
  /\ elapsed[q] >= Deadline
  /\ LoopFree
  /\ Goto(q, "failing")
  /\ UNCHANGED <<stored, age, gate, elapsed, reviews, crashes>>

\* A faulty failure path: it fails an attempt that is saved as completed.
FailAlways(q) ==
  /\ pc[q] = "failing"
  /\ run' = [run EXCEPT ![q] = IF @ = "none" THEN @ ELSE "failed"]
  /\ attempt' = [attempt EXCEPT ![q].status = IF @ = "none" THEN @ ELSE "failed"]
  /\ ended' = IF attempt[q].status \in Open THEN Append(ended, q) ELSE ended
  /\ Release(q)
  /\ UNCHANGED <<created, age, elapsed, reviews, crashes>>

\* A faulty failure path: the slot is kept.
FailKeepsSlot(q) ==
  /\ pc[q] = "failing"
  /\ IF run[q] \in Open
       THEN /\ run' = [run EXCEPT ![q] = "failed"]
            /\ attempt' = [attempt EXCEPT ![q].status = "failed"]
            /\ ended' = Append(ended, q)
       ELSE UNCHANGED <<run, attempt, ended>>
  /\ Goto(q, "done")
  /\ UNCHANGED <<created, age, gate, elapsed, reviews, crashes>>

\* The slot is released, then an attempt that is saved and not completed is failed in
\* both tables.  fail_run raises for an attempt that another request has failed.
Fail(q) ==
  /\ pc[q] = "failing"
  /\ IF attempt[q].status \notin {"none", "completed"} /\ run[q] \in Open
       THEN /\ run' = [run EXCEPT ![q] = "failed"]
            /\ attempt' = [attempt EXCEPT ![q].status = "failed"]
            /\ ended' = Append(ended, q)
       ELSE UNCHANGED <<run, attempt, ended>>
  /\ Release(q)
  /\ UNCHANGED <<created, age, elapsed, reviews, crashes>>

\* The transaction of the failure path fails: both statuses stay as they are.
FailLost(q) ==
  /\ "Lost" \in Faults
  /\ pc[q] = "failing"
  /\ Release(q)
  /\ UNCHANGED <<stored, age, elapsed, reviews, crashes>>

\* The process dies and starts again, with a fresh semaphore and no handlers.
Crash ==
  /\ crashes < MaxCrashes
  /\ crashes' = crashes + 1
  /\ pc' = [q \in Request |-> IF pc[q] = "idle" THEN "idle" ELSE "done"]
  /\ queue' = <<>>
  /\ holders' = {}
  /\ UNCHANGED <<stored, age, elapsed, reviews>>

-----------------------------------------------------------------------------------
(* Time.                                                                           *)

\* The handler of q lives on past its timeout, in the thread of a tool.
Overrunning(q) == "Overrun" \in Faults /\ q \in Unlucky /\ pc[q] = "researching"

\* Timeouts fire before more time passes, and the event loop is never held that long.
Tick ==
  /\ LoopFree
  /\ \A q \in Request : pc[q] # "granted"
  /\ \A q \in Request : pc[q] \in Awaiting /\ elapsed[q] >= Deadline => Overrunning(q)
  /\ elapsed' = [q \in Request |-> IF pc[q] \in Awaiting /\ elapsed[q] <= Deadline
                                     THEN elapsed[q] + 1 ELSE elapsed[q]]
  /\ age' = [q \in Request |-> IF attempt[q].status \in Open /\ age[q] <= StaleAfter
                                 THEN age[q] + 1 ELSE age[q]]
  /\ UNCHANGED <<stored, pc, gate, reviews, crashes>>

\* What the server does for a request without waiting for a provider.
Handle(q) ==
  \/ Resumed(q)
  \/ AnswerCached(q)
  \/ Miss(q)
  \/ ResumeCheckpoint(q)
  \/ Create(q)
  \/ BeginResumed(q)
  \/ BeginAgent(q)
  \/ SaveReviews(q)
  \/ SaveCheckpoint(q)
  \/ Complete(q)
  \/ Report(q)
  \/ Error(q)
  \/ Timeout(q)
  \/ Fail(q)

Next ==
  \/ \E q \in Request :
       \/ Arrive(q)
       \/ Handle(q)
       \/ Prepared(q)
       \/ Researched(q)
       \/ Verified(q)
  \/ \E q \in Unlucky : FailLost(q)
  \/ Crash
  \/ Tick

\* The event loop runs what is ready, and time passes.  Providers owe no answer, and
\* nobody has to send a request.
Fairness ==
  /\ \A q \in Request : WF_vars(Handle(q))
  /\ WF_vars(Tick)

Spec == Init /\ [][Next]_vars
FairSpec == Spec /\ Fairness

-----------------------------------------------------------------------------------
(* Properties.                                                                     *)

TypeOK ==
  /\ run \in [Request -> R!Status]
  /\ attempt \in [Request -> Attempt]
  /\ created \in Seq(Request)
  /\ ended \in Seq(Request)
  /\ age \in [Request -> 0 .. StaleAfter + 1]
  /\ pc \in [Request -> Phase]
  /\ queue \in Seq(Request)
  /\ holders \subseteq Request
  /\ elapsed \in [Request -> 0 .. Deadline + 1]
  /\ reviews \in [Request -> BOOLEAN]
  /\ crashes \in 0 .. MaxCrashes

\* README: "Research attempts share their UUID and lifecycle with llm_runs".  The two
\* tables are written by five transactions, one of another request; they never disagree.
StatusesAgree == \A q \in Request : attempt[q].status = run[q]

\* The lookup and the creation of an attempt are separate transactions, and an attempt
\* that is under way answers repeated requests: a fingerprint never has two attempts
\* that have not failed, so nobody pays for the same briefing twice.
OneAttempt ==
  \A q, r \in Request :
    Asks[q] = Asks[r] /\ run[q] \in Open \cup {"completed"}
                        /\ run[r] \in Open \cup {"completed"} => q = r

\* The timeout of the workflow and the staleness limit are set in different places: while
\* a handler is under way in its time, no other request takes its attempt for dead.
OwnsAttempt ==
  \A q \in Request :
    /\ pc[q] \in Awaiting \cup {"resuming", "starting", "reviewing", "checkpointing", "completing"}
    /\ elapsed[q] <= Deadline
    => run[q] \in Open

\* README: "A failed run can resume from the post-agent checkpoint as a new linked
\* attempt".  A resumed attempt is linked to a failed one for the same fingerprint that
\* has the checkpoint, and a checkpoint is never resumed from twice: what the later
\* attempt added is not passed over.
Lineage ==
  /\ \A q \in Request : attempt[q].from # None =>
       LET old == attempt[q].from IN
         /\ Asks[old] = Asks[q]
         /\ run[old] = "failed"
         /\ attempt[old].stage = "agent_completed"
         /\ attempt[q].stage # "none"
  /\ \A q, r \in Request :
       attempt[q].from # None /\ attempt[q].from = attempt[r].from => q = r

\* "the failed attempt remains terminal", and so does the completed one, even when the
\* step that follows its commit cannot be saved.
KeepsLifecycle == R!Spec

\* README: "The workflow has a 180-second timeout and concurrency limit".  Providers
\* that never answer hold no slot for ever: each request that waits is served.
Answered == \A q \in Request : pc[q] = "waiting" ~> pc[q] = "done"

\* Unless its handler is lost, an open attempt comes to an end.
AttemptEnds ==
  \A q \in Request \ Unlucky : run[q] \in Open ~> run[q] \in R!Terminal \/ crashes > 0

\* README: "Final cited, excluded, or failed-review decisions are saved and shown in the
\* Briefing".  A briefing is written with the decisions on the web passages.
ReviewsKept == \A q \in Request : attempt[q].briefing # "without"

====
