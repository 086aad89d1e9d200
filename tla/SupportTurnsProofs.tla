----------------------------- MODULE SupportTurnsProofs -----------------------------
(***********************************************************************************)
(* The conversation reservation, for any number of tokens, conversations, messages *)
(* and decisions, and whatever faults happen: reservations and running runs agree, *)
(* turns are serial, and committed runs keep the registry's lifecycle.             *)
(***********************************************************************************)
EXTENDS SupportTurns, SequenceTheorems, TLAPS

\* Phases in which a request has not committed anything.
Fresh == {"idle", "beginning", "reserving", "deciding"}

\* Phases in which a request holds the row lock of its conversation.
Locking == {"reserving", "deciding"}

\* Where a handler is agrees with what it has committed: it serves a conversation once
\* it has arrived, has no run before its first commit and a running one while it is Held.
HandlerInv ==
  \A q \in Request :
    /\ pc[q] \notin {"idle", "done"} => conv[q] \in Conversation
    /\ pc[q] \in Fresh => run[q] = "none"
    /\ pc[q] \in Held => run[q] = "running"

\* The row lock of a conversation is held by the one request that is reserving it, and
\* only while nobody has reserved it.
LockInv ==
  /\ \A q \in Request : pc[q] \in Locking => lock[conv[q]] = q
  /\ \A c \in Conversation :
       lock[c] # None => conv[lock[c]] = c /\ pc[lock[c]] \in Locking /\ active[c] = None

\* A turn under way still stands right behind the outputs its reservation found; a turn
\* that has an output has ended.
TurnInv ==
  /\ \A q \in Request :
       pc[q] \in Locking \/ run[q] = "running" => base[q] = Len(log[conv[q]])
  /\ \A c \in Conversation : \A i \in DOMAIN log[c] : run[log[c][i]] \in R!Terminal

IInv == TypeOK /\ HandlerInv /\ LockInv /\ Reservation /\ TurnInv /\ TurnsSerial

-----------------------------------------------------------------------------------

\* The logs are sequences of requests.
LEMMA LogSequence ==
  ASSUME TypeOK, NEW c \in Conversation
  PROVE  /\ log[c] \in Seq(Request)
         /\ Len(log[c]) \in Nat
         /\ DOMAIN log[c] = 1 .. Len(log[c])
         /\ \A i \in DOMAIN log[c] : log[c][i] \in Request
<1>1. log[c] \in Seq(Request)
  BY DEF TypeOK
<1>2. QED
  BY <1>1

LEMMA InitIInv == Init => IInv
<1> SUFFICES ASSUME Init PROVE IInv
  OBVIOUS
<1>1. TypeOK
  BY DEF Init, R!Init, TypeOK, R!Status, Phase
<1>2. HandlerInv /\ LockInv /\ Reservation
  BY DEF Init, R!Init, HandlerInv, LockInv, Reservation, Fresh, Held, Locking
<1>3. TurnInv /\ TurnsSerial
  BY DEF Init, R!Init, TurnInv, TurnsSerial, Locking
<1>4. QED
  BY <1>1, <1>2, <1>3 DEF IInv

\* A step that only moves handler q to a phase without lock and without commitments.
LEMMA MoveIInv ==
  ASSUME IInv, NEW q \in Request, NEW phase \in Phase,
         Goto(q, phase), UNCHANGED <<stored, lock, conv, read, base>>,
         pc[q] \notin Locking, phase \notin Fresh,
         phase \in Held => pc[q] \in Held
  PROVE  IInv'
<1> USE DEF Goto, stored
<1>1. TypeOK'
  BY DEF IInv, TypeOK
<1>2. \A p \in Request : pc'[p] = IF p = q THEN phase ELSE pc[p]
  BY DEF IInv, TypeOK
<1>3. HandlerInv'
  BY <1>2 DEF IInv, HandlerInv, Fresh, Held, Phase
<1>4. LockInv'
  BY <1>2, RequestAssumption DEF IInv, TypeOK, LockInv, Fresh, Locking
<1>5. Reservation' /\ TurnsSerial'
  BY DEF IInv, Reservation, TurnsSerial
<1>6. TurnInv'
  BY <1>2 DEF IInv, TurnInv, Fresh, Locking
<1>7. QED
  BY <1>1, <1>3, <1>4, <1>5, <1>6 DEF IInv

\* A step that gives up: it releases the lock the handler may hold and ends it.
LEMMA GiveUpIInv ==
  ASSUME IInv, NEW q \in Request, pc[q] # "idle",
         Unlock(q), Goto(q, "done"), UNCHANGED <<stored, conv, read, base>>
  PROVE  IInv'
<1> USE DEF Goto, Unlock, stored
<1>1. TypeOK'
  BY DEF IInv, TypeOK, Phase
<1>2. /\ \A p \in Request : pc'[p] = IF p = q THEN "done" ELSE pc[p]
      /\ \A c \in Conversation : lock'[c] = IF lock[c] = q THEN None ELSE lock[c]
  BY DEF IInv, TypeOK
<1>3. HandlerInv'
  BY <1>2 DEF IInv, HandlerInv, Fresh, Held
<1>4. LockInv'
  <2>1. ASSUME NEW p \in Request, pc'[p] \in Locking
        PROVE  lock'[conv[p]] = p
    <3>1. p # q /\ pc[p] \in Locking
      BY <1>2, <2>1 DEF Locking
    <3>2. conv[p] \in Conversation /\ lock[conv[p]] = p
      BY <3>1 DEF IInv, HandlerInv, LockInv, Locking
    <3>3. QED
      BY <1>2, <3>1, <3>2
  <2>2. ASSUME NEW c \in Conversation, lock'[c] # None
        PROVE  conv[lock'[c]] = c /\ pc'[lock'[c]] \in Locking /\ active[c] = None
    BY <1>2, <2>2 DEF IInv, TypeOK, LockInv
  <2>3. QED
    BY <2>1, <2>2 DEF LockInv
<1>5. Reservation' /\ TurnsSerial'
  BY DEF IInv, Reservation, TurnsSerial
<1>6. TurnInv'
  BY <1>2 DEF IInv, TurnInv, Locking
<1>7. QED
  BY <1>1, <1>3, <1>4, <1>5, <1>6 DEF IInv

\* Sessions and conversations are created beside the turns.
LEMMA CreateIInv ==
  ASSUME IInv, UNCHANGED <<run, active, log, lock, pc, conv, read, base>>,
         signed' \subseteq Token, owner' \in [Conversation -> Token \cup {None}]
  PROVE  IInv'
<1>1. TypeOK'
  BY DEF IInv, TypeOK
<1>2. HandlerInv' /\ LockInv' /\ Reservation' /\ TurnInv' /\ TurnsSerial'
  BY DEF IInv, HandlerInv, LockInv, Reservation, TurnInv, TurnsSerial
<1>3. QED
  BY <1>1, <1>2 DEF IInv

LEMMA ArriveIInv ==
  ASSUME IInv, NEW q \in Request, NEW t \in Token, NEW c \in Conversation,
         Arrive(q, t, c)
  PROVE  IInv'
<1> USE DEF Arrive, Goto, stored
<1>1. Len(log[c]) \in Nat
  BY LogSequence DEF IInv
<1>2. TypeOK'
  BY <1>1 DEF IInv, TypeOK, Phase
<1>3. /\ \A p \in Request : pc'[p] = IF p = q THEN "beginning" ELSE pc[p]
      /\ \A p \in Request : conv'[p] = IF p = q THEN c ELSE conv[p]
      /\ run[q] = "none"
  BY DEF IInv, TypeOK, HandlerInv, Fresh
<1>4. HandlerInv'
  BY <1>3 DEF IInv, HandlerInv, Fresh, Held
<1>5. LockInv'
  BY <1>3 DEF IInv, TypeOK, LockInv, Locking
<1>6. Reservation'
  BY <1>3 DEF IInv, TypeOK, Reservation
<1>7. TurnInv' /\ TurnsSerial'
  BY <1>3 DEF IInv, TurnInv, TurnsSerial, Locking
<1>8. QED
  BY <1>2, <1>4, <1>5, <1>6, <1>7 DEF IInv

LEMMA ReserveIInv ==
  ASSUME IInv, NEW q \in Request, NEW phase \in Locking, Reserve(q, phase)
  PROVE  IInv'
<1> USE DEF Reserve, Reservable, Goto, stored
<1>1. /\ conv[q] \in Conversation
      /\ lock[conv[q]] = None /\ active[conv[q]] = None
      /\ run[q] = "none"
      /\ Len(log[conv[q]]) \in Nat
  <2>1. conv[q] \in Conversation /\ run[q] = "none"
    BY DEF IInv, HandlerInv, Fresh
  <2>2. QED
    BY <2>1, LogSequence DEF IInv
<1>2. /\ \A p \in Request : pc'[p] = IF p = q THEN phase ELSE pc[p]
      /\ \A p \in Request : base'[p] = IF p = q THEN Len(log[conv[q]]) ELSE base[p]
      /\ \A c \in Conversation : lock'[c] = IF c = conv[q] THEN q ELSE lock[c]
  BY <1>1 DEF IInv, TypeOK
<1>3. TypeOK'
  BY <1>1 DEF IInv, TypeOK, Phase, Locking
<1>4. HandlerInv'
  BY <1>2 DEF IInv, HandlerInv, Fresh, Held, Locking
<1>5. LockInv'
  <2>1. ASSUME NEW p \in Request, pc'[p] \in Locking
        PROVE  lock'[conv[p]] = p
    <3>1. CASE p = q
      BY <1>1, <1>2, <3>1
    <3>2. CASE p # q
      <4>1. conv[p] \in Conversation /\ lock[conv[p]] = p
        BY <1>2, <2>1, <3>2 DEF IInv, HandlerInv, LockInv, Locking
      <4>2. conv[p] # conv[q]
        BY <1>1, <4>1, RequestAssumption
      <4>3. QED
        BY <1>2, <4>1, <4>2
    <3>3. QED
      BY <3>1, <3>2
  <2>2. ASSUME NEW c \in Conversation, lock'[c] # None
        PROVE  conv[lock'[c]] = c /\ pc'[lock'[c]] \in Locking /\ active[c] = None
    BY <1>1, <1>2, <2>2 DEF IInv, TypeOK, LockInv
  <2>3. QED
    BY <2>1, <2>2 DEF LockInv
<1>6. Reservation'
  BY DEF IInv, Reservation
<1>7. TurnInv'
  BY <1>1, <1>2 DEF IInv, TurnInv
<1>8. TurnsSerial'
  <2>1. \A c \in Conversation : \A i \in DOMAIN log[c] :
          log[c][i] \in Request /\ log[c][i] # q
    BY <1>1, LogSequence DEF IInv, TurnInv, R!Terminal
  <2>2. QED
    BY <1>2, <2>1 DEF IInv, TurnsSerial
<1>9. QED
  BY <1>3, <1>4, <1>5, <1>6, <1>7, <1>8 DEF IInv

\* A step of message m that commits: it leaves the row lock alone or releases its own.
LEMMA BeginCommitIInv ==
  ASSUME IInv, NEW m \in Message, BeginCommit(m)
  PROVE  IInv'
<1> USE DEF BeginCommit, Goto, Unlock
<1> DEFINE phase == pc'[m]
<1>1. m \in Request /\ m # None
  BY RequestAssumption DEF Request
<1>2. /\ conv[m] \in Conversation
      /\ lock[conv[m]] = m /\ active[conv[m]] = None
      /\ run[m] = "none"
      /\ base[m] = Len(log[conv[m]])
  BY <1>1 DEF IInv, HandlerInv, LockInv, TurnInv, Fresh, Locking
<1>3. /\ phase \in {"working", "opening"}
      /\ \A p \in Request : pc'[p] = IF p = m THEN phase ELSE pc[p]
      /\ \A p \in Request : run'[p] = IF p = m THEN "running" ELSE run[p]
      /\ \A c \in Conversation : active'[c] = IF c = conv[m] THEN m ELSE active[c]
      /\ \A c \in Conversation : lock'[c] = IF lock[c] = m THEN None ELSE lock[c]
  BY <1>1 DEF IInv, TypeOK
<1>4. TypeOK'
  BY <1>1 DEF IInv, TypeOK, Phase, R!Status
<1>5. HandlerInv'
  BY <1>2, <1>3 DEF IInv, HandlerInv, Fresh, Held
<1>6. LockInv'
  <2>1. ASSUME NEW p \in Request, pc'[p] \in Locking
        PROVE  lock'[conv[p]] = p
    <3>1. p # m /\ pc[p] \in Locking
      BY <1>3, <2>1 DEF Locking
    <3>2. conv[p] \in Conversation /\ lock[conv[p]] = p
      BY <3>1 DEF IInv, HandlerInv, LockInv, Locking
    <3>3. QED
      BY <1>3, <3>1, <3>2
  <2>2. ASSUME NEW c \in Conversation, lock'[c] # None
        PROVE  /\ conv[lock'[c]] = c
               /\ pc'[lock'[c]] \in Locking
               /\ active'[c] = None
    BY <1>2, <1>3, <2>2 DEF IInv, TypeOK, LockInv
  <2>3. QED
    BY <2>1, <2>2 DEF LockInv
<1>7. Reservation'
  BY <1>1, <1>2, <1>3, RequestAssumption DEF IInv, TypeOK, Reservation
<1>8. TurnInv'
  <2>1. \A p \in Request : pc'[p] \in Locking \/ run'[p] = "running" =>
          base[p] = Len(log[conv[p]])
    BY <1>2, <1>3 DEF IInv, TurnInv, Locking
  <2>2. \A c \in Conversation : \A i \in DOMAIN log[c] : run'[log[c][i]] \in R!Terminal
    BY <1>2, <1>3, LogSequence DEF IInv, TurnInv, R!Terminal
  <2>3. QED
    BY <2>1, <2>2 DEF TurnInv
<1>9. TurnsSerial'
  BY DEF IInv, TurnsSerial
<1>10. QED
  BY <1>4, <1>5, <1>6, <1>7, <1>8, <1>9 DEF IInv

\* Appending the output of q to the log of its conversation keeps the turns serial: no
\* other turn of the conversation is under way, and q stands right behind its base.
LEMMA AppendTurn ==
  ASSUME TypeOK, TurnInv, TurnsSerial, NEW q \in Request, conv[q] \in Conversation,
         base[q] = Len(log[conv[q]]), UNCHANGED <<base, conv>>,
         log' = [log EXCEPT ![conv[q]] = Append(@, q)],
         NEW status \in R!Terminal, run' = [run EXCEPT ![q] = status],
         \A p \in Request \ {q} : pc'[p] \in Locking \/ run[p] = "running" =>
           /\ pc[p] \in Locking \/ run[p] = "running"
           /\ conv[p] # conv[q],
         pc'[q] = "done"
  PROVE  TurnInv' /\ TurnsSerial' /\ log' \in [Conversation -> Seq(Request)]
<1>1. \A c \in Conversation : log'[c] = IF c = conv[q] THEN Append(log[c], q) ELSE log[c]
  BY DEF TypeOK
<1>2. \A p \in Request : run'[p] = IF p = q THEN status ELSE run[p]
  BY DEF TypeOK
<1>3. status # "running"
  BY DEF R!Terminal
<1>4. ASSUME NEW c \in Conversation, NEW i \in DOMAIN log'[c]
      PROVE  /\ log'[c][i] \in Request
             /\ run'[log'[c][i]] \in R!Terminal
             /\ base[log'[c][i]] = i - 1
  <2>1. CASE c # conv[q]
    BY <1>1, <1>2, <1>4, <2>1, LogSequence DEF TurnInv, TurnsSerial
  <2>2. CASE c = conv[q]
    <3>1. log[c] \in Seq(Request) /\ Len(log[c]) \in Nat
      BY LogSequence
    <3>2. /\ DOMAIN log'[c] = 1 .. Len(log[c]) + 1
          /\ \A k \in 1 .. Len(log[c]) : log'[c][k] = log[c][k]
          /\ log'[c][Len(log[c]) + 1] = q
      <4>1. log'[c] = Append(log[c], q)
        BY <1>1, <2>2
      <4>2. log'[c] \in Seq(Request) /\ Len(log'[c]) = Len(log[c]) + 1
        BY <3>1, <4>1, AppendProperties
      <4>3. QED
        BY <3>1, <4>1, <4>2, AppendProperties
    <3>3. CASE i = Len(log[c]) + 1
      BY <1>2, <2>2, <3>1, <3>2, <3>3
    <3>4. CASE i \in 1 .. Len(log[c])
      BY <1>2, <3>1, <3>2, <3>4, LogSequence DEF TurnInv, TurnsSerial
    <3>5. QED
      BY <1>4, <3>1, <3>2, <3>3, <3>4
  <2>3. QED
    BY <2>1, <2>2
<1>5. \A p \in Request : pc'[p] \in Locking \/ run'[p] = "running" =>
        base[p] = Len(log'[conv[p]])
  <2> SUFFICES ASSUME NEW p \in Request, pc'[p] \in Locking \/ run'[p] = "running"
               PROVE  base[p] = Len(log'[conv[p]])
    OBVIOUS
  <2>1. p # q
    BY <1>2, <1>3 DEF Locking
  <2>2. (pc[p] \in Locking \/ run[p] = "running") /\ conv[p] # conv[q]
    BY <1>2, <2>1
  <2>3. log'[conv[p]] = log[conv[p]]
    BY <2>2 DEF TypeOK
  <2>4. QED
    BY <2>2, <2>3 DEF TurnInv
<1>6. log' \in [Conversation -> Seq(Request)]
  BY <1>1, LogSequence DEF TypeOK
<1>7. QED
  BY <1>4, <1>5, <1>6 DEF TurnInv, TurnsSerial

LEMMA FinishIInv ==
  ASSUME IInv, NEW m \in Message, NEW status \in R!Terminal,
         pc[m] \in {"saving", "failing"}, Finish(m, status)
  PROVE  IInv'
<1> USE DEF Finish, Goto
<1>1. /\ m \in Request /\ m # None
      /\ status \in R!Status /\ status # "running" /\ status # "none"
  BY RequestAssumption DEF Request, R!Terminal, R!Status
<1>2. /\ conv[m] \in Conversation
      /\ run[m] = "running" /\ active[conv[m]] = m
      /\ base[m] = Len(log[conv[m]])
  BY <1>1 DEF IInv, HandlerInv, TurnInv, Held
<1>3. /\ \A p \in Request : pc'[p] = IF p = m THEN "done" ELSE pc[p]
      /\ \A p \in Request : run'[p] = IF p = m THEN status ELSE run[p]
      /\ \A c \in Conversation : active'[c] = IF c = conv[m] THEN None ELSE active[c]
  BY <1>1 DEF IInv, TypeOK
<1>4. TurnInv' /\ TurnsSerial' /\ log' \in [Conversation -> Seq(Request)]
  <2>1. ASSUME NEW p \in Request \ {m}, pc'[p] \in Locking \/ run[p] = "running"
        PROVE  (pc[p] \in Locking \/ run[p] = "running") /\ conv[p] # conv[m]
    <3>1. pc[p] \in Locking \/ run[p] = "running"
      BY <1>3, <2>1
    <3>2. CASE run[p] = "running"
      BY <1>2, <3>2 DEF IInv, Reservation
    <3>3. CASE pc[p] \in Locking
      BY <1>1, <1>2, <3>3, RequestAssumption DEF IInv, LockInv
    <3>4. QED
      BY <3>1, <3>2, <3>3
  <2>2. pc'[m] = "done"
    BY <1>1, <1>3
  <2>3. QED
    BY <1>1, <1>2, <2>1, <2>2, AppendTurn DEF IInv
<1>5. TypeOK'
  BY <1>1, <1>4 DEF IInv, TypeOK, Phase
<1>6. HandlerInv'
  BY <1>1, <1>2, <1>3 DEF IInv, HandlerInv, Fresh, Held
<1>7. LockInv'
  BY <1>2, <1>3, RequestAssumption DEF IInv, TypeOK, LockInv, Locking
<1>8. Reservation'
  BY <1>1, <1>2, <1>3, RequestAssumption DEF IInv, TypeOK, Reservation
<1>9. QED
  BY <1>4, <1>5, <1>6, <1>7, <1>8 DEF IInv

\* abort always finds the reservation its own: the ownership test guards no real case.
LEMMA AbortIInv ==
  ASSUME IInv, NEW m \in Message, Abort(m)
  PROVE  IInv' /\ run[m] = "running" /\ run'[m] = "failed"
               /\ (\A p \in Request \ {m} : run'[p] = run[p])
<1> USE DEF Abort, Goto
<1>1. m \in Request /\ m # None
  BY RequestAssumption DEF Request
<1>2. conv[m] \in Conversation /\ run[m] = "running" /\ active[conv[m]] = m
  BY <1>1 DEF IInv, HandlerInv, Reservation, Held
<1>3. /\ \A p \in Request : pc'[p] = IF p = m THEN "done" ELSE pc[p]
      /\ \A p \in Request : run'[p] = IF p = m THEN "failed" ELSE run[p]
      /\ \A c \in Conversation : active'[c] = IF c = conv[m] THEN None ELSE active[c]
  BY <1>1, <1>2 DEF IInv, TypeOK
<1>4. TypeOK'
  BY <1>1, <1>2 DEF IInv, TypeOK, Phase, R!Status
<1>5. HandlerInv'
  BY <1>1, <1>2, <1>3 DEF IInv, HandlerInv, Fresh, Held
<1>6. LockInv'
  BY <1>2, <1>3, RequestAssumption DEF IInv, TypeOK, LockInv, Locking
<1>7. Reservation'
  BY <1>1, <1>2, <1>3, RequestAssumption DEF IInv, TypeOK, Reservation
<1>8. TurnInv'
  <2>1. \A p \in Request : pc'[p] \in Locking \/ run'[p] = "running" =>
          base[p] = Len(log[conv[p]])
    BY <1>3 DEF IInv, TurnInv, Locking
  <2>2. \A c \in Conversation : \A i \in DOMAIN log[c] : run'[log[c][i]] \in R!Terminal
    BY <1>3, LogSequence DEF IInv, TurnInv, R!Terminal
  <2>3. QED
    BY <2>1, <2>2 DEF TurnInv
<1>9. TurnsSerial'
  BY DEF IInv, TurnsSerial
<1>10. QED
  BY <1>1, <1>2, <1>3, <1>4, <1>5, <1>6, <1>7, <1>8, <1>9 DEF IInv

LEMMA DecideCommitIInv ==
  ASSUME IInv, NEW d \in Decision, DecideCommit(d)
  PROVE  IInv' /\ run[d] = "none"
<1> USE DEF DecideCommit, Goto, Unlock
<1>1. d \in Request /\ d # None
  BY RequestAssumption DEF Request
<1>2. /\ conv[d] \in Conversation
      /\ lock[conv[d]] = d /\ active[conv[d]] = None
      /\ run[d] = "none"
      /\ base[d] = Len(log[conv[d]])
  BY <1>1 DEF IInv, HandlerInv, LockInv, TurnInv, Fresh, Locking
<1>3. /\ \A p \in Request : pc'[p] = IF p = d THEN "done" ELSE pc[p]
      /\ \A p \in Request : run'[p] = IF p = d THEN "completed" ELSE run[p]
      /\ \A c \in Conversation : lock'[c] = IF lock[c] = d THEN None ELSE lock[c]
  BY <1>1 DEF IInv, TypeOK
<1>4. TurnInv' /\ TurnsSerial' /\ log' \in [Conversation -> Seq(Request)]
  <2>1. ASSUME NEW p \in Request \ {d}, pc'[p] \in Locking \/ run[p] = "running"
        PROVE  (pc[p] \in Locking \/ run[p] = "running") /\ conv[p] # conv[d]
    <3>1. pc[p] \in Locking \/ run[p] = "running"
      BY <1>3, <2>1
    <3>2. CASE run[p] = "running"
      BY <1>2, <3>2, RequestAssumption DEF IInv, Reservation
    <3>3. CASE pc[p] \in Locking
      BY <1>2, <3>3 DEF IInv, LockInv
    <3>4. QED
      BY <3>1, <3>2, <3>3
  <2>2. pc'[d] = "done" /\ "completed" \in R!Terminal
    BY <1>1, <1>3 DEF R!Terminal
  <2>3. QED
    BY <1>1, <1>2, <2>1, <2>2, AppendTurn DEF IInv
<1>5. TypeOK'
  BY <1>1, <1>4 DEF IInv, TypeOK, Phase, R!Status
<1>6. HandlerInv'
  BY <1>2, <1>3 DEF IInv, HandlerInv, Fresh, Held
<1>7. LockInv'
  <2>1. ASSUME NEW p \in Request, pc'[p] \in Locking
        PROVE  lock'[conv[p]] = p
    <3>1. p # d /\ pc[p] \in Locking
      BY <1>3, <2>1 DEF Locking
    <3>2. conv[p] \in Conversation /\ lock[conv[p]] = p
      BY <3>1 DEF IInv, HandlerInv, LockInv, Locking
    <3>3. QED
      BY <1>3, <3>1, <3>2
  <2>2. ASSUME NEW c \in Conversation, lock'[c] # None
        PROVE  conv[lock'[c]] = c /\ pc'[lock'[c]] \in Locking /\ active[c] = None
    BY <1>2, <1>3, <2>2 DEF IInv, TypeOK, LockInv
  <2>3. QED
    BY <2>1, <2>2 DEF LockInv
<1>8. Reservation'
  BY <1>1, <1>2, <1>3 DEF IInv, TypeOK, Reservation
<1>9. QED
  BY <1>2, <1>4, <1>5, <1>6, <1>7, <1>8 DEF IInv

-----------------------------------------------------------------------------------

\* One step keeps the invariant and moves the committed runs along their lifecycle.
LEMMA NextIInv == IInv /\ [Next]_vars => IInv' /\ [R!Next]_run
<1> SUFFICES ASSUME IInv, [Next]_vars
             PROVE  IInv' /\ [R!Next]_run
  OBVIOUS
<1> USE DEF Request
<1>1. ASSUME NEW t \in Token, SignIn(t)
      PROVE  IInv' /\ UNCHANGED run
  BY <1>1, CreateIInv DEF SignIn, IInv, TypeOK
<1>2. ASSUME NEW t \in Token, NEW c \in Conversation, CreateConversation(t, c)
      PROVE  IInv' /\ UNCHANGED run
  BY <1>2, CreateIInv DEF CreateConversation, IInv, TypeOK
<1>3. ASSUME NEW q \in Request, NEW t \in Token, NEW c \in Conversation,
             Arrive(q, t, c) \/ RefuseUnowned(q, t, c)
      PROVE  IInv' /\ UNCHANGED run
  <2>1. CASE Arrive(q, t, c)
    BY <2>1, ArriveIInv DEF Arrive, stored
  <2>2. CASE RefuseUnowned(q, t, c)
    BY <2>2, MoveIInv DEF RefuseUnowned, stored, Phase, Fresh, Held, Locking
  <2>3. QED
    BY <1>3, <2>1, <2>2
<1>4. ASSUME NEW q \in Request, GiveUp(q) \/ RefuseBusy(q)
      PROVE  IInv' /\ UNCHANGED run
  <2>1. CASE GiveUp(q)
    BY <2>1, GiveUpIInv DEF GiveUp, stored
  <2>2. CASE RefuseBusy(q)
    BY <2>2, MoveIInv DEF RefuseBusy, stored, Phase, Fresh, Held, Locking
  <2>3. QED
    BY <1>4, <2>1, <2>2
<1>5. ASSUME NEW m \in Message, LateClient(m) \/ LostAbort(m) \/ Killed(m)
      PROVE  IInv' /\ UNCHANGED run
  <2>1. CASE LateClient(m) \/ LostAbort(m)
    BY <2>1, MoveIInv DEF LateClient, LostAbort, stored, Phase, Fresh, Held, Locking
  <2>2. CASE Killed(m)
    BY <2>2, GiveUpIInv DEF Killed, stored
  <2>3. QED
    BY <1>5, <2>1, <2>2
<1>6. ASSUME NEW q \in Request, ReserveMessage(q) \/ ReserveDecision(q)
      PROVE  IInv' /\ UNCHANGED run
  BY <1>6, ReserveIInv DEF ReserveMessage, ReserveDecision, Locking, Reserve, stored
<1>7. ASSUME NEW m \in Message,
             OpenStream(m) \/ AgentReturns(m) \/ AgentRaises(m) \/ FinishFails(m)
      PROVE  IInv' /\ UNCHANGED run
  BY <1>7, MoveIInv
  DEF OpenStream, AgentReturns, AgentRaises, FinishFails, stored, Phase, Fresh, Held,
      Locking
<1>8. ASSUME NEW m \in Message, BeginCommit(m)
      PROVE  IInv' /\ R!Next
  <2>1. IInv'
    BY <1>8, BeginCommitIInv
  <2>2. run[m] = "none"
    BY <1>8 DEF BeginCommit, IInv, HandlerInv, Fresh
  <2>3. QED
    BY <1>8, <2>1, <2>2 DEF BeginCommit, IInv, TypeOK, R!Next, R!Status, R!Later
<1>9. ASSUME NEW m \in Message, FinishResult(m) \/ FinishException(m)
      PROVE  IInv' /\ R!Next
  <2>1. PICK status \in R!Terminal : Finish(m, status) /\ pc[m] \in {"saving", "failing"}
    BY <1>9 DEF FinishResult, FinishException, R!Terminal
  <2>2. IInv'
    BY <2>1, FinishIInv
  <2>3. run[m] = "running"
    BY <2>1 DEF IInv, HandlerInv, Held
  <2>4. QED
    BY <2>1, <2>2, <2>3
    DEF Finish, IInv, TypeOK, R!Next, R!Status, R!Later, R!Terminal
<1>10. ASSUME NEW m \in Message, Abort(m)
       PROVE  IInv' /\ R!Next
  <2>1. IInv' /\ run[m] = "running" /\ run' \in [Request -> R!Status]
    BY <1>10, AbortIInv DEF IInv, TypeOK
  <2>2. \A p \in Request : run'[p] = IF p = m THEN "failed" ELSE run[p]
    BY <1>10, AbortIInv
  <2>3. QED
    BY <2>1, <2>2 DEF R!Next, R!Later
<1>11. ASSUME NEW d \in Decision, AnswerWithoutRun(d)
       PROVE  IInv' /\ UNCHANGED run
  BY <1>11, MoveIInv DEF AnswerWithoutRun, stored, Phase, Fresh, Held, Locking
<1>12. ASSUME NEW d \in Decision, DecideCommit(d)
       PROVE  IInv' /\ R!Next
  <2>1. IInv' /\ run[d] = "none" /\ run' \in [Request -> R!Status]
    BY <1>12, DecideCommitIInv DEF IInv, TypeOK
  <2>2. \A p \in Request : run'[p] = IF p = d THEN "completed" ELSE run[p]
    BY <1>12 DEF DecideCommit, IInv, TypeOK
  <2>3. QED
    BY <2>1, <2>2 DEF R!Next, R!Later
<1>13. CASE UNCHANGED vars
  BY <1>13
  DEF vars, stored, IInv, TypeOK, HandlerInv, LockInv, Reservation, TurnInv, TurnsSerial
<1>14. CASE Next
  <2>1. ASSUME NEW m \in Message, Serve(m)
        PROVE  IInv' /\ [R!Next]_run
    BY <2>1, <1>4, <1>6, <1>7, <1>8, <1>9, <1>10 DEF Serve
  <2>2. ASSUME NEW d \in Decision, Decide(d)
        PROVE  IInv' /\ [R!Next]_run
    BY <2>2, <1>4, <1>6, <1>11, <1>12 DEF Decide
  <2>3. QED
    BY <1>14, <1>1, <1>2, <1>3, <1>4, <1>5, <2>1, <2>2, RequestAssumption DEF Next
<1>15. QED
  BY <1>13, <1>14

\* The inductive invariant holds of every reachable state.
THEOREM Invariance == Spec => []IInv
BY InitIInv, NextIInv, PTL DEF Spec

\* begin, finish, abort and confirm keep reservations and running runs in agreement: no
\* conversation has two running runs, and no run runs outside a reservation.
THEOREM ReservationHolds == Spec => [](TypeOK /\ Reservation)
BY Invariance, PTL DEF IInv

\* One active run per conversation prevents interleaved messages: every saved output
\* stands right behind the outputs its reservation found.
THEOREM TurnsAreSerial == Spec => []TurnsSerial
BY Invariance, PTL DEF IInv

\* Support runs keep the registry's lifecycle, whatever handlers are lost on the way.
THEOREM SupportLifecycle == Spec => KeepsLifecycle
<1>1. Init => R!Init
  BY DEF Init
<1>2. QED
  BY <1>1, Invariance, NextIInv, PTL DEF Spec, R!Spec, KeepsLifecycle

====
