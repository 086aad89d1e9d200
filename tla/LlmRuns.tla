---------------------------------- MODULE LlmRuns ----------------------------------
(***********************************************************************************)
(* db/llm_runs.py: the transaction-scoped helpers of the shared run registry, used *)
(* by concurrent database sessions.                                                *)
(*                                                                                 *)
(* `run` is the committed table.  A session's uncommitted row versions are its     *)
(* `writes`; a row somebody has written and not committed is locked, and another   *)
(* session's UPDATE or INSERT of that row waits and then sees the committed row.   *)
(* Every helper runs inside `with get_session()`: a ValueError rolls back all the  *)
(* calls of the transaction.                                                       *)
(***********************************************************************************)
EXTENDS Naturals

CONSTANTS Run,       \* run identifiers
          Session    \* concurrently open database sessions

VARIABLES run,       \* [Run -> Status], committed status
          writes,    \* [Session -> [Run -> Status \cup {Untouched}]], uncommitted rows
          endings    \* [Run -> Nat], committed terminal transitions (history variable)

vars == <<run, writes, endings>>

R == INSTANCE RunLifecycle

Untouched == "untouched"

NoWrites == [r \in Run |-> Untouched]

Init ==
  /\ R!Init
  /\ writes = [s \in Session |-> NoWrites]
  /\ endings = [r \in Run |-> 0]

-----------------------------------------------------------------------------------
(* A row and its lock.                                                             *)

\* Session s need not wait for another session's uncommitted version of row r.
Unlocked(s, r) == \A t \in Session \ {s} : writes[t][r] = Untouched

\* The row as session s sees it: its own uncommitted version, or the committed one.
Seen(s, r) == IF writes[s][r] # Untouched THEN writes[s][r] ELSE run[r]

\* A faulty helper pair: a failed run may be completed.
FromStatusesLoose == [running   |-> {"pending"},
                      completed |-> {"running", "failed"},
                      failed    |-> {"pending", "running"}]

\* The statuses each helper accepts, by the status it sets.
FromStatuses == [running   |-> {"pending"},
                 completed |-> {"running"},
                 failed    |-> {"pending", "running"}]

-----------------------------------------------------------------------------------
(* The helpers.                                                                    *)

\* create_run: INSERT of a pending row; the caller may supply the identifier.
CreateRun(s, r) ==
  /\ Unlocked(s, r)
  /\ Seen(s, r) = "none"
  /\ writes' = [writes EXCEPT ![s][r] = "pending"]
  /\ UNCHANGED <<run, endings>>

\* create_run with an identifier that exists: the primary key rejects the INSERT.
CreateRejected(s, r) ==
  /\ Unlocked(s, r)
  /\ Seen(s, r) # "none"
  /\ writes' = [writes EXCEPT ![s] = NoWrites]
  /\ UNCHANGED <<run, endings>>

\* A faulty _transition: no status condition in the WHERE clause.
TransitionUnconditional(s, r, to) ==
  /\ Unlocked(s, r)
  /\ Seen(s, r) # "none"
  /\ writes' = [writes EXCEPT ![s][r] = to]
  /\ UNCHANGED <<run, endings>>

\* A faulty _transition: the status is read before the row lock is waited for, so the
\* condition is not evaluated again on the row another session has just committed.
TransitionUnlocked(s, r, to) ==
  /\ Seen(s, r) \in FromStatuses[to]
  /\ writes' = [writes EXCEPT ![s][r] = to]
  /\ UNCHANGED <<run, endings>>

\* _transition, called by start_run, complete_run and fail_run: the conditional
\* UPDATE matched one row.
Transition(s, r, to) ==
  /\ Unlocked(s, r)
  /\ Seen(s, r) \in FromStatuses[to]
  /\ writes' = [writes EXCEPT ![s][r] = to]
  /\ UNCHANGED <<run, endings>>

\* _transition when no row matched: ValueError, and the caller's transaction is
\* rolled back.
TransitionRejected(s, r, to) ==
  /\ Unlocked(s, r)
  /\ Seen(s, r) \notin FromStatuses[to]
  /\ writes' = [writes EXCEPT ![s] = NoWrites]
  /\ UNCHANGED <<run, endings>>

StartRun(s, r) == Transition(s, r, "running") \/ TransitionRejected(s, r, "running")
CompleteRun(s, r) == Transition(s, r, "completed") \/ TransitionRejected(s, r, "completed")
FailRun(s, r) == Transition(s, r, "failed") \/ TransitionRejected(s, r, "failed")

-----------------------------------------------------------------------------------
(* get_session: commit at the end of the block, roll back on any exception.        *)

Commit(s) ==
  /\ writes[s] # NoWrites
  /\ run' = [r \in Run |-> Seen(s, r)]
  /\ endings' = [r \in Run |-> IF writes[s][r] \in R!Terminal
                                 THEN endings[r] + 1 ELSE endings[r]]
  /\ writes' = [writes EXCEPT ![s] = NoWrites]

\* An exception of the caller, a lost connection, a deadlock victim.
Rollback(s) ==
  /\ writes[s] # NoWrites
  /\ writes' = [writes EXCEPT ![s] = NoWrites]
  /\ UNCHANGED <<run, endings>>

Next ==
  \E s \in Session :
    \/ Commit(s)
    \/ Rollback(s)
    \/ \E r \in Run :
         \/ CreateRun(s, r)
         \/ CreateRejected(s, r)
         \/ StartRun(s, r)
         \/ CompleteRun(s, r)
         \/ FailRun(s, r)

Spec == Init /\ [][Next]_vars

-----------------------------------------------------------------------------------
(* Properties.                                                                     *)

TypeOK ==
  /\ run \in [Run -> R!Status]
  /\ writes \in [Session -> [Run -> (R!Status \ {"none"}) \cup {Untouched}]]
  /\ endings \in [Run -> Nat]

\* No two sessions hold an uncommitted version of one row.
OneWriter ==
  \A s, t \in Session : \A r \in Run :
    writes[s][r] # Untouched /\ writes[t][r] # Untouched => s = t

\* What a session has written of a run is still ahead of the committed status, so
\* its commit cannot overwrite a later status that another session committed first.
WritesAhead ==
  \A s \in Session : \A r \in Run :
    writes[s][r] # Untouched => writes[s][r] \in R!Later[run[r]]

\* "Conditional updates reject repeated or conflicting terminal transitions": however
\* sessions interleave, exactly the terminal runs have been ended, and just once.
EndedOnce ==
  \A r \in Run : endings[r] = IF run[r] \in R!Terminal THEN 1 ELSE 0

\* The committed table keeps the promise of RunLifecycle.
KeepsLifecycle == R!Spec

====
