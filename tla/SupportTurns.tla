-------------------------------- MODULE SupportTurns --------------------------------
(***********************************************************************************)
(* Customer support: the conversation reservation (customer_support/repository.py) *)
(* and the request handlers that take and release it (customer_support/api.py).    *)
(*                                                                                 *)
(* A conversation takes one turn at a time.  A turn is a message, whose handler    *)
(* commits the reservation, runs the agent and saves the outcome in a second       *)
(* transaction, or a decision on a saved proposal, which reserves, works and       *)
(* releases inside one transaction.  Each request that gets that far creates one   *)
(* run, so a run is named by its request.                                          *)
(*                                                                                 *)
(* `run`, `active`, `log` and `owner` are committed database state.  `lock` is the *)
(* row lock an uncommitted UPDATE of the conversation holds: another UPDATE of the *)
(* row waits for it and evaluates its WHERE clause on the row it then finds.       *)
(* Handlers of different requests run concurrently: messages are coroutines of the *)
(* server's event loop, decisions run on its thread pool, and several server       *)
(* processes may share the database.                                               *)
(***********************************************************************************)
EXTENDS Naturals, Sequences

CONSTANTS Token,          \* demo session tokens
          Conversation,   \* conversation identifiers
          Message,        \* message requests, plain or streamed
          Decision,       \* confirm or reject requests
          Faults,         \* the faults that may happen, out of FaultKinds
          Unlucky,        \* the messages whose handler they may happen to
          None            \* no run, no token, no conversation

\* LateClient: the client of a stream is gone before the response body is iterated.
\* LostAbort:  the transaction that would have recorded a failure fails as well.
\* Killed:     the server process of the handler dies.
FaultKinds == {"LateClient", "LostAbort", "Killed"}

Request == Message \cup Decision

ASSUME RequestAssumption ==
  /\ Message \cap Decision = {}
  /\ None \notin Request \cup Token \cup Conversation
  /\ Faults \subseteq FaultKinds
  /\ Unlucky \subseteq Message

VARIABLES
  signed,    \* tokens of the saved demo sessions
  owner,     \* [Conversation -> Token \cup {None}], conversation.session_id
  run,       \* [Request -> Status], llm_runs.status
  active,    \* [Conversation -> Request \cup {None}], conversation.active_run_id
  log,       \* [Conversation -> Seq(Request)], runs with a saved output, oldest first
  lock,      \* [Conversation -> Request \cup {None}], holder of the row lock
  pc,        \* [Request -> Phase], where the request's handler is
  conv,      \* [Request -> Conversation \cup {None}], the conversation it names
  read,      \* [Request -> Nat], outputs that existed when begin read the history
  base       \* [Request -> Nat], outputs that existed when the reservation was taken

stored == <<signed, owner, run, active, log>>
vars == <<stored, lock, pc, conv, read, base>>

R == INSTANCE RunLifecycle WITH Run <- Request

Phase ==
  {"idle",        \* the request has not arrived
   "beginning",   \* begin or confirm: ownership checked, history read
   "reserving",   \* begin: the reservation is written, not committed
   "opening",     \* stream: begin has committed, the body generator has not started
   "working",     \* execute: awaiting run_support
   "saving",      \* execute: the finish transaction of a returned result
   "failing",     \* execute: the finish transaction of a raised exception
   "aborting",    \* execute: the abort transaction after a failed finish
   "deciding",    \* confirm: the reservation is written, not committed
   "done"}        \* answered, refused, or the handler is gone

\* Phases in which the handler's committed run is running.
Held == {"opening", "working", "saving", "failing", "aborting"}

Init ==
  /\ signed = {}
  /\ owner = [c \in Conversation |-> None]
  /\ R!Init
  /\ active = [c \in Conversation |-> None]
  /\ log = [c \in Conversation |-> <<>>]
  /\ lock = [c \in Conversation |-> None]
  /\ pc = [q \in Request |-> "idle"]
  /\ conv = [q \in Request |-> None]
  /\ read = [q \in Request |-> 0]
  /\ base = [q \in Request |-> 0]

Goto(q, phase) == pc' = [pc EXCEPT ![q] = phase]

\* Releases the row lock that request q holds, if any.
Unlock(q) == lock' = [c \in Conversation |-> IF lock[c] = q THEN None ELSE lock[c]]

-----------------------------------------------------------------------------------
(* Sessions and conversations.                                                     *)

\* sign_in: a demo session under a fresh token.
SignIn(t) ==
  /\ t \notin signed
  /\ signed' = signed \cup {t}
  /\ UNCHANGED <<owner, run, active, log, lock, pc, conv, read, base>>

\* create_conversation: a fresh conversation of a known session.
CreateConversation(t, c) ==
  /\ t \in signed
  /\ owner[c] = None
  /\ owner' = [owner EXCEPT ![c] = t]
  /\ UNCHANGED <<signed, run, active, log, lock, pc, conv, read, base>>

\* _identity and _owned: a known token, and a conversation of that session.
Owned(t, c) == t \in signed /\ owner[c] = t

-----------------------------------------------------------------------------------
(* Requests arrive.                                                                *)

\* The head of begin and of confirm: the ownership check and the reads that precede
\* the reservation.  begin reads the recent outputs here.
Arrive(q, t, c) ==
  /\ pc[q] = "idle"
  /\ Owned(t, c)
  /\ Goto(q, "beginning")
  /\ conv' = [conv EXCEPT ![q] = c]
  /\ read' = [read EXCEPT ![q] = Len(log[c])]
  /\ UNCHANGED <<stored, lock, base>>

\* LookupError: unknown token, or a conversation of another session.
RefuseUnowned(q, t, c) ==
  /\ pc[q] = "idle"
  /\ ~Owned(t, c)
  /\ Goto(q, "done")
  /\ UNCHANGED <<stored, lock, conv, read, base>>

\* A faulty reservation: no active_run_id IS NULL condition in the WHERE clause.
ReservableUnconditional(q) == lock[conv[q]] = None

\* The conditional UPDATE of the conversation row, once no other transaction holds
\* the row, matches: nobody has reserved the conversation.
Reservable(q) == lock[conv[q]] = None /\ active[conv[q]] = None

\* The reservation UPDATE matched one row; it is not committed yet.
Reserve(q, phase) ==
  /\ pc[q] = "beginning"
  /\ Reservable(q)
  /\ lock' = [lock EXCEPT ![conv[q]] = q]
  /\ base' = [base EXCEPT ![q] = Len(log[conv[q]])]
  /\ Goto(q, phase)
  /\ UNCHANGED <<stored, conv, read>>

\* ConversationBusy: rowcount is not one, and the run row is rolled back.
RefuseBusy(q) ==
  /\ pc[q] = "beginning"
  /\ lock[conv[q]] = None
  /\ ~Reservable(q)
  /\ Goto(q, "done")
  /\ UNCHANGED <<stored, lock, conv, read, base>>

\* Any error before the first commit rolls the transaction back.
GiveUp(q) ==
  /\ pc[q] \in {"beginning", "reserving", "deciding"}
  /\ Unlock(q)
  /\ Goto(q, "done")
  /\ UNCHANGED <<stored, conv, read, base>>

-----------------------------------------------------------------------------------
(* A message: begin, execute, finish.                                              *)

ReserveMessage(m) == Reserve(m, "reserving")

\* begin: start_run and commit.  A plain request goes on into execute; a streamed one
\* returns a StreamingResponse whose body has yet to be iterated.
BeginCommit(m) ==
  /\ pc[m] = "reserving"
  /\ run' = [run EXCEPT ![m] = "running"]
  /\ active' = [active EXCEPT ![conv[m]] = m]
  /\ Unlock(m)
  /\ Goto(m, "working") \/ Goto(m, "opening")
  /\ UNCHANGED <<signed, owner, log, conv, read, base>>

\* events() starts, creates the work task and so enters execute.
OpenStream(m) ==
  /\ pc[m] = "opening"
  /\ Goto(m, "working")
  /\ UNCHANGED <<stored, lock, conv, read, base>>

\* The response is cancelled before events() starts: neither work() nor its finally
\* clause exists yet, so nobody finishes the run.
LateClient(m) ==
  /\ "LateClient" \in Faults
  /\ pc[m] = "opening"
  /\ Goto(m, "done")
  /\ UNCHANGED <<stored, lock, conv, read, base>>

\* run_support returns a result.
AgentReturns(m) ==
  /\ pc[m] = "working"
  /\ Goto(m, "saving")
  /\ UNCHANGED <<stored, lock, conv, read, base>>

\* A faulty execute: `except Exception`, which a cancellation passes by.
AgentRaisesUncaught(m) ==
  /\ pc[m] = "working"
  /\ Goto(m, "failing") \/ Goto(m, "done")
  /\ UNCHANGED <<stored, lock, conv, read, base>>

\* run_support raises: a provider or validation failure, or the cancellation of the
\* task when the client of a stream leaves.
AgentRaises(m) ==
  /\ pc[m] = "working"
  /\ Goto(m, "failing")
  /\ UNCHANGED <<stored, lock, conv, read, base>>

\* A faulty finish: the reservation is not released.
FinishUnreleased(m, status) ==
  /\ active[conv[m]] = m
  /\ run' = [run EXCEPT ![m] = status]
  /\ log' = [log EXCEPT ![conv[m]] = Append(@, m)]
  /\ Goto(m, "done")
  /\ UNCHANGED <<signed, owner, active, lock, conv, read, base>>

\* finish: the run still owns the reservation; its output, its terminal status and the
\* release of the conversation are one transaction.
Finish(m, status) ==
  /\ active[conv[m]] = m
  /\ run' = [run EXCEPT ![m] = status]
  /\ log' = [log EXCEPT ![conv[m]] = Append(@, m)]
  /\ active' = [active EXCEPT ![conv[m]] = None]
  /\ Goto(m, "done")
  /\ UNCHANGED <<signed, owner, lock, conv, read, base>>

\* A returned result completes the run, or fails it if its stop reason is a failure.
FinishResult(m) ==
  /\ pc[m] = "saving"
  /\ Finish(m, "completed") \/ Finish(m, "failed")

\* The result of a raised exception fails the run.
FinishException(m) == pc[m] = "failing" /\ Finish(m, "failed")

\* A faulty finish: complete_run commits on its own before the output is saved.
FinishTorn(m) ==
  /\ pc[m] = "saving"
  /\ run' \in {run, [run EXCEPT ![m] = "completed"]}
  /\ Goto(m, "aborting")
  /\ UNCHANGED <<signed, owner, active, log, lock, conv, read, base>>

\* finish raises and is rolled back: lost connection, stale task or context version,
\* an operation that no longer validates.
FinishFails(m) ==
  /\ pc[m] = "saving"
  /\ Goto(m, "aborting")
  /\ UNCHANGED <<stored, lock, conv, read, base>>

\* abort: if the run still owns the reservation it fails, without an output, and the
\* conversation is released.
Abort(m) ==
  /\ pc[m] = "aborting"
  /\ LET owns == active[conv[m]] = m IN
       /\ run' = IF owns THEN [run EXCEPT ![m] = "failed"] ELSE run
       /\ active' = IF owns THEN [active EXCEPT ![conv[m]] = None] ELSE active
  /\ Goto(m, "done")
  /\ UNCHANGED <<signed, owner, log, lock, conv, read, base>>

\* The last transaction of the handler fails too: the finish of the exception path has
\* no handler around it, and neither has abort.
LostAbort(m) ==
  /\ "LostAbort" \in Faults
  /\ pc[m] \in {"failing", "aborting"}
  /\ Goto(m, "done")
  /\ UNCHANGED <<stored, lock, conv, read, base>>

-----------------------------------------------------------------------------------
(* A decision: confirm is one transaction.                                         *)

\* A saved receipt answers a repeated decision without a run; a different decision, an
\* unknown proposal or another conversation's proposal is refused.
AnswerWithoutRun(d) ==
  /\ pc[d] = "beginning"
  /\ Goto(d, "done")
  /\ UNCHANGED <<stored, lock, conv, read, base>>

ReserveDecision(d) == Reserve(d, "deciding")

\* confirm commits: output, completed run and released reservation at once.
DecideCommit(d) ==
  /\ pc[d] = "deciding"
  /\ run' = [run EXCEPT ![d] = "completed"]
  /\ log' = [log EXCEPT ![conv[d]] = Append(@, d)]
  /\ Unlock(d)
  /\ Goto(d, "done")
  /\ UNCHANGED <<signed, owner, active, conv, read, base>>

\* The server process dies in mid-request: the open transaction, if any, is rolled back
\* and nothing recovers the run.
Killed(m) ==
  /\ "Killed" \in Faults
  /\ pc[m] \notin {"idle", "done"}
  /\ Unlock(m)
  /\ Goto(m, "done")
  /\ UNCHANGED <<stored, conv, read, base>>

-----------------------------------------------------------------------------------

\* What the server does for a message once it has arrived.
Serve(m) ==
  \/ ReserveMessage(m)
  \/ RefuseBusy(m)
  \/ BeginCommit(m)
  \/ OpenStream(m)
  \/ AgentReturns(m)
  \/ AgentRaises(m)
  \/ FinishResult(m)
  \/ FinishException(m)
  \/ FinishFails(m)
  \/ Abort(m)

\* What the server does for a decision once it has arrived.
Decide(d) ==
  \/ AnswerWithoutRun(d)
  \/ ReserveDecision(d)
  \/ RefuseBusy(d)
  \/ DecideCommit(d)

Next ==
  \/ \E t \in Token : SignIn(t)
  \/ \E t \in Token, c \in Conversation : CreateConversation(t, c)
  \/ \E q \in Request, t \in Token, c \in Conversation :
       Arrive(q, t, c) \/ RefuseUnowned(q, t, c)
  \/ \E q \in Request : GiveUp(q)
  \/ \E m \in Message : Serve(m)
  \/ \E m \in Unlucky : LateClient(m) \/ LostAbort(m) \/ Killed(m)
  \/ \E d \in Decision : Decide(d)

\* Handlers that have arrived keep running: the event loop and the thread pool schedule
\* them, lock waits end with the transactions that cause them, and run_support has a
\* deadline of 120 seconds.  Nothing makes a client send a request.
Fairness ==
  /\ \A m \in Message : WF_vars(Serve(m))
  /\ \A d \in Decision : WF_vars(Decide(d))

Spec == Init /\ [][Next]_vars
FairSpec == Spec /\ Fairness

-----------------------------------------------------------------------------------
(* Properties.                                                                     *)

TypeOK ==
  /\ signed \subseteq Token
  /\ owner \in [Conversation -> Token \cup {None}]
  /\ run \in [Request -> R!Status]
  /\ active \in [Conversation -> Request \cup {None}]
  /\ log \in [Conversation -> Seq(Request)]
  /\ lock \in [Conversation -> Request \cup {None}]
  /\ pc \in [Request -> Phase]
  /\ conv \in [Request -> Conversation \cup {None}]
  /\ read \in [Request -> Nat]
  /\ base \in [Request -> Nat]

\* repository.begin, finish, abort and actions.confirm keep two records of a turn in
\* step: a conversation's active run is running, and a running run is the active run of
\* its conversation.  So no conversation has two running runs, none is reserved for a
\* run that ended, and no run is left running outside a reservation.
Reservation ==
  /\ \A c \in Conversation :
       active[c] # None => run[active[c]] = "running" /\ conv[active[c]] = c
  /\ \A q \in Request :
       run[q] = "running" => conv[q] # None /\ active[conv[q]] = q

\* README: "One active run per conversation prevents interleaved messages".  Between
\* the reservation of a turn and its own output no other turn of the conversation saves
\* an output: each saved output stands right after those its reservation found.
TurnsSerial ==
  \A c \in Conversation : \A i \in DOMAIN log[c] : base[log[c][i]] = i - 1

\* Committed runs move only along the registry's transitions.
KeepsLifecycle == R!Spec

\* README: "interruption saves a failed outcome and releases the reservation".  Unless
\* its handler is lost, a running run ends and its conversation is free again.
RunEnds ==
  \A q \in Request \ Unlucky :
    run[q] = "running" ~> run[q] \in R!Terminal /\ active[conv[q]] # q

\* A running run has a handler that can still end it.
NoOrphan ==
  \A q \in Request : run[q] = "running" => pc[q] \in Held

\* The history a turn works with is the history its reservation found: no turn answers
\* in ignorance of one that was saved before it began.
TurnSeesHistory ==
  \A q \in Request : pc[q] \in Held => read[q] = base[q]

====
