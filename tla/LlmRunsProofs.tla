------------------------------- MODULE LlmRunsProofs -------------------------------
(***********************************************************************************)
(* The shared run registry, for any number of runs and sessions: a session's       *)
(* uncommitted status is always ahead of the committed one, every terminal run has *)
(* been ended exactly once, and the committed table implements RunLifecycle.       *)
(***********************************************************************************)
EXTENDS LlmRuns, TLAPS

\* The inductive invariant: EndedOnce needs that a session which holds a terminal
\* status holds it over a run that is not terminal yet (WritesAhead), and that needs
\* that no second session can commit the row in between (OneWriter).
IInv == TypeOK /\ OneWriter /\ WritesAhead /\ EndedOnce

-----------------------------------------------------------------------------------

\* The helpers' transitions stay ahead: a status accepted by FromStatuses is followed
\* by one that every earlier status can still reach.
LEMMA StepAhead ==
  ASSUME NEW from \in R!Status, NEW seen \in R!Status, NEW to \in DOMAIN FromStatuses,
         seen \in FromStatuses[to],
         seen = from \/ seen \in R!Later[from]
  PROVE  to \in R!Later[from]
BY DEF FromStatuses, R!Status, R!Later

\* A terminal status is ahead only of a status that is not terminal.
LEMMA AheadOfTerminal ==
  ASSUME NEW from \in R!Status, NEW to \in R!Later[from]
  PROVE  from \notin R!Terminal
BY DEF R!Status, R!Later, R!Terminal

LEMMA InitIInv == Init => IInv
BY DEF Init, IInv, TypeOK, OneWriter, WritesAhead, EndedOnce, NoWrites, Untouched,
       R!Init, R!Status, R!Terminal

\* A helper that writes row r of session s keeps the invariant, if r is not locked and
\* the new status is ahead of the committed one.
LEMMA WriteIInv ==
  ASSUME IInv, NEW s \in Session, NEW r \in Run, NEW to \in R!Status \ {"none"},
         Unlocked(s, r), to \in R!Later[run[r]],
         writes' = [writes EXCEPT ![s][r] = to], UNCHANGED <<run, endings>>
  PROVE  IInv'
<1>1. TypeOK'
  BY DEF IInv, TypeOK
<1>2. \A t \in Session : \A q \in Run :
        writes'[t][q] = IF t = s /\ q = r THEN to ELSE writes[t][q]
  BY DEF IInv, TypeOK
<1>3. OneWriter'
  BY <1>2 DEF IInv, OneWriter, Unlocked
<1>4. WritesAhead'
  BY <1>2 DEF IInv, WritesAhead
<1>5. EndedOnce'
  BY DEF IInv, EndedOnce
<1>6. QED
  BY <1>1, <1>3, <1>4, <1>5 DEF IInv

\* A transaction that gives up its writes keeps the invariant.
LEMMA DropIInv ==
  ASSUME IInv, NEW s \in Session,
         writes' = [writes EXCEPT ![s] = NoWrites], UNCHANGED <<run, endings>>
  PROVE  IInv'
<1>1. TypeOK'
  BY DEF IInv, TypeOK, NoWrites
<1>2. \A t \in Session : \A q \in Run :
        writes'[t][q] = IF t = s THEN Untouched ELSE writes[t][q]
  BY DEF IInv, TypeOK, NoWrites
<1>3. OneWriter' /\ WritesAhead' /\ EndedOnce'
  BY <1>2 DEF IInv, OneWriter, WritesAhead, EndedOnce
<1>4. QED
  BY <1>1, <1>3 DEF IInv

\* What a commit does to one row: the run moves ahead or stays, and the history
\* variable counts the commit exactly when it ends the run.
LEMMA CommitRow ==
  ASSUME IInv, NEW s \in Session, Commit(s), NEW r \in Run
  PROVE  /\ run'[r] \in R!Status
         /\ run'[r] = run[r] \/ run'[r] \in R!Later[run[r]]
         /\ writes[s][r] = Untouched => run'[r] = run[r]
         /\ writes[s][r] # Untouched => run'[r] = writes[s][r]
BY DEF IInv, TypeOK, WritesAhead, Commit, Seen, R!Status

LEMMA CommitIInv ==
  ASSUME IInv, NEW s \in Session, Commit(s)
  PROVE  IInv'
<1>1. \A t \in Session : \A q \in Run :
        writes'[t][q] = IF t = s THEN Untouched ELSE writes[t][q]
  BY DEF IInv, TypeOK, Commit, NoWrites
<1>2. TypeOK'
  <2>1. run' \in [Run -> R!Status]
    BY CommitRow DEF Commit
  <2>2. writes' \in [Session -> [Run -> (R!Status \ {"none"}) \cup {Untouched}]]
    BY DEF IInv, TypeOK, Commit, NoWrites
  <2>3. endings' \in [Run -> Nat]
    BY DEF IInv, TypeOK, Commit
  <2>4. QED
    BY <2>1, <2>2, <2>3 DEF TypeOK
<1>3. OneWriter'
  BY <1>1 DEF IInv, OneWriter
<1>4. WritesAhead'
  <2> SUFFICES ASSUME NEW t \in Session, NEW q \in Run, writes'[t][q] # Untouched
               PROVE  writes'[t][q] \in R!Later[run'[q]]
    BY DEF WritesAhead
  <2>1. t # s /\ writes[t][q] # Untouched
    BY <1>1
  <2>2. writes[s][q] = Untouched
    BY <2>1 DEF IInv, OneWriter
  <2>3. QED
    BY <1>1, <2>1, <2>2, CommitRow DEF IInv, WritesAhead
<1>5. EndedOnce'
  <2> SUFFICES ASSUME NEW q \in Run
               PROVE  endings'[q] = IF run'[q] \in R!Terminal THEN 1 ELSE 0
    BY DEF EndedOnce
  <2>1. CASE writes[s][q] = Untouched
    BY <2>1, CommitRow DEF IInv, EndedOnce, Commit, Untouched, R!Terminal
  <2>2. CASE writes[s][q] # Untouched
    <3>1. writes[s][q] \in R!Later[run[q]] /\ run[q] \in R!Status
      BY <2>2 DEF IInv, TypeOK, WritesAhead
    <3>2. endings[q] = 0
      BY <3>1, AheadOfTerminal DEF IInv, EndedOnce
    <3>3. endings'[q] = IF writes[s][q] \in R!Terminal THEN 1 ELSE 0
      BY <3>2 DEF Commit
    <3>4. QED
      BY <2>2, <3>3, CommitRow
  <2>3. QED
    BY <2>1, <2>2
<1>6. QED
  BY <1>2, <1>3, <1>4, <1>5 DEF IInv

LEMMA TransitionAhead ==
  ASSUME IInv, NEW s \in Session, NEW r \in Run, NEW to \in DOMAIN FromStatuses,
         Transition(s, r, to)
  PROVE  IInv'
<1>1. /\ run[r] \in R!Status
      /\ Seen(s, r) \in R!Status
      /\ Seen(s, r) = run[r] \/ Seen(s, r) \in R!Later[run[r]]
  BY DEF IInv, TypeOK, WritesAhead, Seen
<1>2. to \in R!Later[run[r]]
  BY <1>1, StepAhead DEF Transition
<1>3. to \in R!Status \ {"none"}
  BY DEF FromStatuses, R!Status
<1>4. QED
  BY <1>2, <1>3, WriteIInv DEF Transition

LEMMA NextIInv == IInv /\ [Next]_vars => IInv'
<1> SUFFICES ASSUME IInv, [Next]_vars
             PROVE  IInv'
  OBVIOUS
<1>1. ASSUME NEW s \in Session, Commit(s)
      PROVE  IInv'
  BY <1>1, CommitIInv
<1>2. ASSUME NEW s \in Session, Rollback(s)
      PROVE  IInv'
  BY <1>2, DropIInv DEF Rollback
<1>3. ASSUME NEW s \in Session, NEW r \in Run, CreateRun(s, r)
      PROVE  IInv'
  <2>1. run[r] = "none"
    BY <1>3 DEF CreateRun, Seen, IInv, TypeOK, Untouched
  <2>2. "pending" \in R!Later[run[r]] /\ "pending" \in R!Status \ {"none"}
    BY <2>1 DEF R!Later, R!Status
  <2>3. QED
    BY <1>3, <2>2, WriteIInv DEF CreateRun
<1>4. ASSUME NEW s \in Session, NEW r \in Run, CreateRejected(s, r)
      PROVE  IInv'
  BY <1>4, DropIInv DEF CreateRejected
<1>5. ASSUME NEW s \in Session, NEW r \in Run, NEW to \in DOMAIN FromStatuses,
             Transition(s, r, to) \/ TransitionRejected(s, r, to)
      PROVE  IInv'
  BY <1>5, TransitionAhead, DropIInv DEF TransitionRejected
<1>6. ASSUME NEW s \in Session, NEW r \in Run,
             StartRun(s, r) \/ CompleteRun(s, r) \/ FailRun(s, r)
      PROVE  IInv'
  <2>1. {"running", "completed", "failed"} \subseteq DOMAIN FromStatuses
    BY DEF FromStatuses
  <2>2. QED
    BY <1>5, <1>6, <2>1 DEF StartRun, CompleteRun, FailRun
<1>7. CASE UNCHANGED vars
  BY <1>7 DEF vars, IInv, TypeOK, OneWriter, WritesAhead, EndedOnce
<1>8. QED
  BY <1>1, <1>2, <1>3, <1>4, <1>6, <1>7 DEF Next

\* The inductive invariant holds of every reachable state.
THEOREM Invariance == Spec => []IInv
BY InitIInv, NextIInv, PTL DEF Spec

\* db/llm_runs.py: a terminal transition commits exactly once for each terminal run,
\* whatever the interleaving of the sessions that race to end it.
THEOREM TerminalOnce == Spec => [](TypeOK /\ EndedOnce)
BY Invariance, PTL DEF IInv

\* db/llm_runs.py: what a session has written of a run is ahead of every status another
\* session commits before it, so its own commit overwrites no later status.
THEOREM WritesStayAhead == Spec => []WritesAhead
BY Invariance, PTL DEF IInv

\* db/llm_runs.py implements RunLifecycle: commits move a run only along the
\* documented transitions.
THEOREM Lifecycle == Spec => KeepsLifecycle
<1>1. Init => R!Init
  BY DEF Init
<1>2. IInv /\ [Next]_vars => [R!Next]_run
  <2> SUFFICES ASSUME IInv, [Next]_vars, run' # run
               PROVE  R!Next
    BY DEF R!Next
  <2>1. PICK s \in Session : Commit(s)
    BY DEF Next, vars, Rollback, CreateRun, CreateRejected, StartRun, CompleteRun,
           FailRun, Transition, TransitionRejected
  <2>2. run' \in [Run -> R!Status]
    BY <2>1, CommitRow DEF Commit
  <2>3. QED
    BY <2>1, <2>2, CommitRow DEF R!Next
<1>3. QED
  BY <1>1, <1>2, Invariance, PTL DEF Spec, R!Spec, KeepsLifecycle

====
