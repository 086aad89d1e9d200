----------------------------- MODULE ResearchRunsProofs -----------------------------
(***********************************************************************************)
(* Research attempts, for any number of requests, fingerprints and slots, and      *)
(* whatever faults happen: the two statuses of an attempt agree, a fingerprint has *)
(* one attempt at a time, nobody fails an attempt whose handler is in its time,    *)
(* resumed attempts form chains, and runs keep the registry's lifecycle.           *)
(***********************************************************************************)
EXTENDS ResearchRuns, NaturalsInduction, WellFoundedInduction, TLAPS

\* The statuses of an attempt that has not failed.
Alive == Open \cup {"completed"}

\* What two tables say, and two orders on their rows: att is research_runs, rn is
\* llm_runs.status, cr is by created_at and en by completed_at of failed attempts.
RowsType(att, rn, cr, en) ==
  /\ att \in [Request -> Attempt]
  /\ rn \in [Request -> R!Status]
  /\ cr \in Seq(Request)
  /\ en \in Seq(Request)

RowsAgree(att, rn) ==
  \A q \in Request :
    /\ att[q].status = rn[q]
    /\ rn[q] = "none" => att[q] = NoAttempt
    /\ att[q].stage = "verification_completed" <=> rn[q] = "completed"

OneAlive(rn) ==
  \A q, r \in Request : Asks[q] = Asks[r] /\ rn[q] \in Alive /\ rn[r] \in Alive => q = r

Linked(att, rn) ==
  \A q \in Request : att[q].from # None =>
    /\ att[q].from \in Request
    /\ Asks[att[q].from] = Asks[q]
    /\ rn[att[q].from] = "failed"
    /\ att[att[q].from].stage = "agent_completed"
    /\ att[q].stage # "none"

Unforked(att) ==
  \A q, r \in Request : att[q].from # None /\ att[q].from = att[r].from => q = r

\* Each saved attempt is in the order of creation, exactly the failed ones are in the
\* order of failing, and there each is behind the one it resumed.
Ordered(att, rn, cr, en) ==
  /\ \A q \in Request : rn[q] # "none" => \E i \in DOMAIN cr : cr[i] = q
  /\ \A q \in Request : rn[q] = "failed" <=> \E i \in DOMAIN en : en[i] = q
  /\ \A i, j \in DOMAIN en : att[en[j]].from = en[i] => i < j

Rows(att, rn, cr, en) ==
  /\ RowsType(att, rn, cr, en)
  /\ RowsAgree(att, rn)
  /\ OneAlive(rn)
  /\ Linked(att, rn)
  /\ Unforked(att)
  /\ Ordered(att, rn, cr, en)

-----------------------------------------------------------------------------------
(* Sequences and the rows they order.                                              *)

\* A set that has an element of a sequence has a last one.
LEMMA GreatestIndex ==
  ASSUME NEW S, NEW seq \in Seq(S), NEW T, NEW k \in DOMAIN seq, seq[k] \in T
  PROVE  \E i \in DOMAIN seq :
           seq[i] \in T /\ \A j \in DOMAIN seq : seq[j] \in T => j <= i
<1> DEFINE D == {n \in Nat : Len(seq) - n \in DOMAIN seq /\ seq[Len(seq) - n] \in T}
<1>1. Len(seq) - k \in D
  BY SMT
<1>2. D \subseteq Nat /\ D # {}
  BY <1>1
<1>3. PICK n \in D : \A m \in D : n <= m
  <2> DEFINE LT == {ss \in Nat \X Nat : ss[1] < ss[2]}
  <2>1. IsWellFoundedOn(LT, Nat)
    BY NatLessThanWellFounded DEF OpToRel
  <2>2. PICK n \in D : \A m \in D : <<m, n>> \notin LT
    <3> HIDE DEF D, LT
    <3> QED BY <1>2, <2>1, WFMin
  <2>3. \A m \in D : n <= m
    <3> SUFFICES ASSUME NEW m \in D, m < n PROVE FALSE
      BY <1>2, SMT
    <3>1. m \in Nat /\ n \in Nat
      BY <1>2
    <3>2. <<m, n>> \in LT
      BY <3>1, SMT
    <3> QED BY <2>2, <3>2
  <2> QED BY <2>3
<1>4. ASSUME NEW j \in DOMAIN seq, seq[j] \in T PROVE j <= Len(seq) - n
  <2>1. Len(seq) - j \in D
    BY <1>4, SMT
  <2> QED BY <2>1, <1>3, SMT
<1> QED BY <1>3, <1>4, SMT

\* Latest returns an element of the set, and no element of the set is behind it.
LEMMA LatestIsLast ==
  ASSUME NEW S, NEW seq \in Seq(S), NEW T, \E k \in DOMAIN seq : seq[k] \in T
  PROVE  \E i \in DOMAIN seq :
           /\ Latest(seq, T) = seq[i]
           /\ seq[i] \in T
           /\ \A j \in DOMAIN seq : seq[j] \in T => j <= i
<1> DEFINE Last(i) == seq[i] \in T /\ \A j \in DOMAIN seq : seq[j] \in T => j <= i
<1>1. \E i \in DOMAIN seq : Last(i)
  BY GreatestIndex
<1>2. (CHOOSE i \in DOMAIN seq : Last(i)) \in DOMAIN seq /\ Last(CHOOSE i \in DOMAIN seq : Last(i))
  <2> HIDE DEF Last
  <2> QED BY <1>1
<1> QED BY <1>2 DEF Latest

\* What an appended element adds.
LEMMA AppendFacts ==
  ASSUME NEW S, NEW seq \in Seq(S), NEW e \in S
  PROVE  /\ Append(seq, e) \in Seq(S)
         /\ Len(seq) \in Nat
         /\ DOMAIN seq = 1 .. Len(seq)
         /\ DOMAIN Append(seq, e) = 1 .. Len(seq) + 1
         /\ \A i \in 1 .. Len(seq) : Append(seq, e)[i] = seq[i] /\ seq[i] \in S
         /\ Append(seq, e)[Len(seq) + 1] = e
OBVIOUS

\* Rows still hold when one open attempt is failed.
LEMMA FailRow ==
  ASSUME NEW att, NEW rn, NEW cr, NEW en, Rows(att, rn, cr, en),
         NEW r \in Request, rn[r] \in Open
  PROVE  Rows([att EXCEPT ![r].status = "failed"], [rn EXCEPT ![r] = "failed"],
              cr, Append(en, r))
<1> DEFINE att2 == [att EXCEPT ![r].status = "failed"]
           rn2 == [rn EXCEPT ![r] = "failed"]
           en2 == Append(en, r)
<1>1. RowsType(att, rn, cr, en) /\ RowsAgree(att, rn) /\ OneAlive(rn)
      /\ Linked(att, rn) /\ Unforked(att) /\ Ordered(att, rn, cr, en)
  BY DEF Rows
<1>2. RowsType(att2, rn2, cr, en2)
  <2>1. att \in [Request -> Attempt] /\ rn \in [Request -> R!Status]
        /\ cr \in Seq(Request) /\ en \in Seq(Request)
    BY <1>1 DEF RowsType
  <2>2. [att[r] EXCEPT !.status = "failed"] \in Attempt
    BY <2>1 DEF Attempt, R!Status
  <2>3. att2 \in [Request -> Attempt] /\ rn2 \in [Request -> R!Status]
    BY <2>1, <2>2 DEF R!Status
  <2>4. en2 \in Seq(Request)
    BY <2>1, AppendFacts
  <2> QED BY <2>1, <2>3, <2>4 DEF RowsType
<1>3. /\ \A q \in Request : rn2[q] = IF q = r THEN "failed" ELSE rn[q]
      /\ \A q \in Request : att2[q].from = att[q].from /\ att2[q].stage = att[q].stage
      /\ \A q \in Request : q # r => att2[q] = att[q]
      /\ att2[r].status = "failed"
  BY <1>1 DEF RowsType, Attempt
<1>4. RowsAgree(att2, rn2)
  BY <1>1, <1>3 DEF RowsAgree, Open
<1>5. OneAlive(rn2)
  BY <1>1, <1>3 DEF OneAlive, Alive, Open
<1>6. Linked(att2, rn2) /\ Unforked(att2)
  BY <1>1, <1>3 DEF Linked, Unforked
<1>7. Ordered(att2, rn2, cr, en2)
  <2>1. en \in Seq(Request)
    BY <1>1 DEF RowsType
  <2>2. \A q \in Request : rn2[q] # "none" => \E i \in DOMAIN cr : cr[i] = q
    BY <1>1, <1>3 DEF Ordered, Open
  <2>3. \A q \in Request : rn2[q] = "failed" <=> \E i \in DOMAIN en2 : en2[i] = q
    BY <1>1, <1>3, <2>1, AppendFacts DEF Ordered
  <2>4. ASSUME NEW i \in DOMAIN en2, NEW j \in DOMAIN en2, att2[en2[j]].from = en2[i]
        PROVE  i < j
    <3>1. CASE i \in DOMAIN en /\ j \in DOMAIN en
      <4>1. en2[i] = en[i] /\ en2[j] = en[j] /\ en[j] \in Request
        BY <2>1, <3>1, AppendFacts
      <4> QED BY <1>1, <1>3, <2>4, <3>1, <4>1 DEF Ordered
    <3>2. CASE i \in DOMAIN en /\ j = Len(en) + 1
      BY <2>1, <3>2, AppendFacts
    <3>3. CASE i = Len(en) + 1
      <4>1. en2[i] = r /\ en2[j] \in Request
        BY <2>1, <2>4, <3>3, AppendFacts
      <4>2. att[en2[j]].from = r
        BY <1>3, <2>4, <4>1
      <4>3. rn[r] = "failed"
        BY <1>1, <4>1, <4>2, ResearchAssumption DEF Linked
      <4> QED BY <4>3 DEF Open
    <3> QED BY <2>1, <3>1, <3>2, <3>3, AppendFacts
  <2> QED BY <2>2, <2>3, <2>4 DEF Ordered
<1> QED BY <1>2, <1>4, <1>5, <1>6, <1>7 DEF Rows

\* Rows still hold when a new attempt is created: nobody else is alive for its
\* fingerprint, and what it resumes, if anything, is a failed attempt with a checkpoint
\* that has not been resumed.
LEMMA CreateRow ==
  ASSUME NEW att, NEW rn, NEW cr, NEW en, Rows(att, rn, cr, en),
         NEW q \in Request, rn[q] = "none",
         \A r \in Request : Asks[r] = Asks[q] => rn[r] \notin Alive,
         NEW row \in Attempt, row.status = "pending",
         row.stage \in {"none", "agent_completed"},
         row.from # None =>
           /\ row.from \in Request
           /\ Asks[row.from] = Asks[q]
           /\ rn[row.from] = "failed"
           /\ att[row.from].stage = "agent_completed"
           /\ row.stage # "none"
           /\ \A r \in Request : att[r].from # row.from
  PROVE  Rows([att EXCEPT ![q] = row], [rn EXCEPT ![q] = "pending"], Append(cr, q), en)
<1> DEFINE att2 == [att EXCEPT ![q] = row]
           rn2 == [rn EXCEPT ![q] = "pending"]
           cr2 == Append(cr, q)
<1>1. RowsType(att, rn, cr, en) /\ RowsAgree(att, rn) /\ OneAlive(rn)
      /\ Linked(att, rn) /\ Unforked(att) /\ Ordered(att, rn, cr, en)
  BY DEF Rows
<1>2. RowsType(att2, rn2, cr2, en)
  BY <1>1, AppendFacts DEF RowsType, R!Status
<1>3. /\ \A r \in Request : r # q => att2[r] = att[r] /\ rn2[r] = rn[r]
      /\ att2[q] = row /\ rn2[q] = "pending"
  BY <1>1 DEF RowsType
<1>4. RowsAgree(att2, rn2)
  BY <1>1, <1>3 DEF RowsAgree
<1>5. OneAlive(rn2)
  BY <1>1, <1>3 DEF OneAlive, Alive, Open
<1>6. att[q].from = None
  BY <1>1, ResearchAssumption DEF RowsAgree, NoAttempt
<1>7. Linked(att2, rn2)
  <2> SUFFICES ASSUME NEW x \in Request, att2[x].from # None
               PROVE  /\ att2[x].from \in Request
                      /\ Asks[att2[x].from] = Asks[x]
                      /\ rn2[att2[x].from] = "failed"
                      /\ att2[att2[x].from].stage = "agent_completed"
                      /\ att2[x].stage # "none"
    BY DEF Linked
  <2>1. CASE x = q
    BY <1>3, <2>1
  <2>2. CASE x # q
    BY <1>1, <1>3, <2>2 DEF Linked
  <2> QED BY <2>1, <2>2
<1>8. Unforked(att2)
  BY <1>1, <1>3 DEF Unforked
<1>9. Ordered(att2, rn2, cr2, en)
  <2>1. cr \in Seq(Request) /\ en \in Seq(Request)
    BY <1>1 DEF RowsType
  <2>2. \A r \in Request : rn2[r] # "none" => \E i \in DOMAIN cr2 : cr2[i] = r
    <3> TAKE r \in Request
    <3>1. CASE r = q
      <4>1. Len(cr) + 1 \in DOMAIN cr2 /\ cr2[Len(cr) + 1] = q
        BY <2>1, AppendFacts
      <4> QED BY <3>1, <4>1
    <3>2. CASE r # q
      <4>1. \A i \in DOMAIN cr : i \in DOMAIN cr2 /\ cr2[i] = cr[i]
        BY <2>1, AppendFacts
      <4> QED BY <1>1, <1>3, <3>2, <4>1 DEF Ordered
    <3> QED BY <3>1, <3>2
  <2>3. \A r \in Request : rn2[r] = "failed" <=> \E i \in DOMAIN en : en[i] = r
    BY <1>1, <1>3 DEF Ordered
  <2>4. \A i \in DOMAIN en : en[i] \in Request /\ en[i] # q
    BY <1>1, <2>1 DEF Ordered
  <2>5. \A i, j \in DOMAIN en : att2[en[j]].from = en[i] => i < j
    BY <1>1, <1>3, <2>4 DEF Ordered
  <2> QED BY <2>2, <2>3, <2>5 DEF Ordered
<1> QED BY <1>2, <1>4, <1>5, <1>7, <1>8, <1>9 DEF Rows

\* Rows still hold when an open attempt is updated, or completed with its last stage.
LEMMA UpdateRow ==
  ASSUME NEW att, NEW rn, NEW cr, NEW en, Rows(att, rn, cr, en),
         NEW q \in Request, rn[q] \in Open,
         NEW row \in Attempt, row.status \in Alive, row.from = att[q].from,
         row.stage = "verification_completed" <=> row.status = "completed",
         att[q].stage # "none" => row.stage # "none"
  PROVE  Rows([att EXCEPT ![q] = row], [rn EXCEPT ![q] = row.status], cr, en)
<1> DEFINE att2 == [att EXCEPT ![q] = row]
           rn2 == [rn EXCEPT ![q] = row.status]
<1>1. RowsType(att, rn, cr, en) /\ RowsAgree(att, rn) /\ OneAlive(rn)
      /\ Linked(att, rn) /\ Unforked(att) /\ Ordered(att, rn, cr, en)
  BY DEF Rows
<1>2. RowsType(att2, rn2, cr, en)
  BY <1>1 DEF RowsType, Attempt
<1>3. /\ \A r \in Request : r # q => att2[r] = att[r] /\ rn2[r] = rn[r]
      /\ att2[q] = row /\ rn2[q] = row.status
  BY <1>1 DEF RowsType
<1>4. rn[q] \notin {"none", "failed"} /\ row.status \notin {"none", "failed"}
  BY DEF Open, Alive
<1>5. RowsAgree(att2, rn2)
  BY <1>1, <1>3, <1>4 DEF RowsAgree
<1>6. OneAlive(rn2)
  BY <1>1, <1>3 DEF OneAlive, Alive, Open
<1>7. Linked(att2, rn2)
  <2> SUFFICES ASSUME NEW x \in Request, att2[x].from # None
               PROVE  /\ att2[x].from \in Request
                      /\ Asks[att2[x].from] = Asks[x]
                      /\ rn2[att2[x].from] = "failed"
                      /\ att2[att2[x].from].stage = "agent_completed"
                      /\ att2[x].stage # "none"
    BY DEF Linked
  <2>1. att2[x].from = att[x].from
    BY <1>3
  <2>2. att[x].from \in Request /\ rn[att[x].from] = "failed"
    BY <1>1, <2>1 DEF Linked
  <2>3. att[x].from # q
    BY <1>4, <2>2
  <2> QED BY <1>1, <1>3, <2>1, <2>2, <2>3 DEF Linked
<1>8. Unforked(att2)
  BY <1>1, <1>3 DEF Unforked
<1>9. Ordered(att2, rn2, cr, en)
  <2>1. \A r \in Request : att2[r].from = att[r].from
    BY <1>3
  <2>2. \A i \in DOMAIN en : en[i] \in Request
    BY <1>1 DEF RowsType
  <2> QED BY <1>1, <1>3, <1>4, <2>1, <2>2 DEF Ordered
<1> QED BY <1>2, <1>5, <1>6, <1>7, <1>8, <1>9 DEF Rows

-----------------------------------------------------------------------------------
(* The inductive invariant.                                                        *)

\* Phases before the attempt is saved.
Early == {"idle", "waiting", "granted", "looking", "creating"}

\* Phases of an attempt under way.
Live == Awaiting \cup {"resuming", "starting", "reviewing", "checkpointing", "completing"}

\* Where a handler is agrees with its attempt, except that a handler that overran its
\* time may have lost it; until then an attempt under way is no older than the time its
\* handler has had.
HandlerOf(q) ==
  /\ pc[q] \in Early => run[q] = "none"
  /\ pc[q] \in {"resuming", "preparing", "starting"} => run[q] = "pending"
  /\ pc[q] \in {"reviewing", "checkpointing", "verifying", "completing"} => run[q] = "running"
  /\ pc[q] = "researching" /\ elapsed[q] <= Deadline => run[q] = "running"
  /\ pc[q] = "resuming" => attempt[q].from # None
  /\ pc[q] \notin {"researching", "failing", "done"} => elapsed[q] <= Deadline
  /\ pc[q] \in Live /\ elapsed[q] <= Deadline => age[q] <= elapsed[q]

Handlers == \A q \in Request : HandlerOf(q)

\* One handler has the event loop.
OneBusy == \A q, r \in Request : pc[q] \in Busy /\ pc[r] \in Busy => q = r

\* The queue has the waiting requests, each once.
Queueing ==
  /\ \A i \in DOMAIN queue : pc[queue[i]] = "waiting"
  /\ \A i, j \in DOMAIN queue : queue[i] = queue[j] => i = j

\* What a lookup found out still holds when the attempt is created.
Creating ==
  \A q \in Request : pc[q] = "creating" =>
    \A r \in Request : Asks[r] = Asks[q] => run[r] \notin Alive

IInv ==
  /\ TypeOK
  /\ Rows(attempt, run, created, ended)
  /\ Handlers
  /\ OneBusy
  /\ Queueing
  /\ Creating

\* The values of the variables, one by one.
LEMMA Types ==
  ASSUME IInv
  PROVE  /\ run \in [Request -> R!Status]
         /\ attempt \in [Request -> Attempt]
         /\ age \in [Request -> 0 .. StaleAfter + 1]
         /\ pc \in [Request -> Phase]
         /\ queue \in Seq(Request)
         /\ holders \subseteq Request
         /\ elapsed \in [Request -> 0 .. Deadline + 1]
         /\ reviews \in [Request -> BOOLEAN]
         /\ Deadline \in Nat /\ StaleAfter \in Nat /\ Deadline <= StaleAfter
BY ResearchAssumption DEF IInv, TypeOK

LEMMA InitIInv == Init => IInv
<1> SUFFICES ASSUME Init PROVE IInv
  OBVIOUS
<1>1. TypeOK
  BY ResearchAssumption
  DEF Init, R!Init, TypeOK, R!Status, Phase, Busy, Awaiting, Attempt, NoAttempt, Stage
<1>2. /\ attempt = [q \in Request |-> NoAttempt] /\ run = [q \in Request |-> "none"]
      /\ ended = <<>>
  BY DEF Init, R!Init
<1>3. Rows(attempt, run, created, ended)
  <2>1. RowsType(attempt, run, created, ended)
    BY <1>1 DEF TypeOK, RowsType
  <2>2. RowsAgree(attempt, run)
    BY <1>2 DEF RowsAgree, NoAttempt
  <2>3. OneAlive(run) /\ Linked(attempt, run) /\ Unforked(attempt)
    BY <1>2 DEF OneAlive, Linked, Unforked, NoAttempt, Alive, Open
  <2>4. Ordered(attempt, run, created, ended)
    BY <1>2 DEF Ordered
  <2> QED BY <2>1, <2>2, <2>3, <2>4 DEF Rows
<1>4. Handlers
  BY ResearchAssumption DEF Init, R!Init, Handlers, HandlerOf, Early, Live, Awaiting
<1>5. OneBusy /\ Queueing /\ Creating
  BY DEF Init, OneBusy, Queueing, Creating, Busy
<1> QED BY <1>1, <1>3, <1>4, <1>5 DEF IInv

-----------------------------------------------------------------------------------
(* Handlers move.                                                                  *)

\* The handler of q goes to a phase; the others stay, or get a slot.
Moved(q, phase) ==
  /\ pc' \in [Request -> Phase]
  /\ queue' \in Seq(Request)
  /\ holders' \subseteq Request
  /\ OneBusy'
  /\ Queueing'
  /\ pc'[q] = phase
  /\ \A r \in Request : r # q =>
       /\ pc'[r] \notin Busy
       /\ pc'[r] = pc[r] \/ (pc[r] = "waiting" /\ pc'[r] = "granted")

\* Only the handler of q may have the loop, so no other one does.
LEMMA OthersIdle ==
  ASSUME IInv, NEW q \in Request, pc[q] \in Busy \/ LoopFree
  PROVE  \A r \in Request : r # q => pc[r] \notin Busy
BY DEF IInv, OneBusy, LoopFree

LEMMA GotoMoves ==
  ASSUME IInv, NEW q \in Request, pc[q] \in Busy \/ LoopFree, pc[q] # "waiting",
         NEW phase \in Phase, phase # "waiting", Goto(q, phase), UNCHANGED gate
  PROVE  Moved(q, phase)
<1>1. pc \in [Request -> Phase] /\ queue \in Seq(Request) /\ holders \subseteq Request
  BY Types
<1>2. queue' = queue /\ holders' = holders /\ pc' = [pc EXCEPT ![q] = phase]
  BY DEF Goto, gate
<1>3. \A r \in Request : r # q => pc'[r] = pc[r] /\ pc'[r] \notin Busy
  BY <1>1, <1>2, OthersIdle
<1>4. pc'[q] = phase /\ pc' \in [Request -> Phase]
  BY <1>1, <1>2
<1>5. OneBusy'
  BY <1>3 DEF OneBusy
<1>6. Queueing'
  <2>1. \A i \in DOMAIN queue : queue[i] \in Request
    BY <1>1
  <2>2. Queueing
    BY DEF IInv
  <2> QED BY <1>2, <1>3, <2>1, <2>2 DEF Queueing
<1> QED BY <1>1, <1>2, <1>3, <1>4, <1>5, <1>6 DEF Moved

LEMMA WakeMoves ==
  ASSUME IInv, NEW q \in Request, pc[q] \in Busy \/ LoopFree, pc[q] # "waiting",
         NEW phase \in Phase, phase # "waiting",
         NEW held \in SUBSET Request, NEW n \in 0 .. Len(queue), Wake(q, phase, held, n)
  PROVE  Moved(q, phase)
<1> DEFINE woken == {queue[i] : i \in 1 .. n}
<1>1. pc \in [Request -> Phase] /\ queue \in Seq(Request) /\ Queueing
  BY Types DEF IInv
<1>2. /\ queue' = SubSeq(queue, n + 1, Len(queue))
      /\ holders' = held \cup woken
      /\ pc' = [r \in Request |-> IF r = q THEN phase
                                  ELSE IF r \in woken THEN "granted" ELSE pc[r]]
  BY DEF Wake
<1>3. Len(queue) \in Nat /\ DOMAIN queue = 1 .. Len(queue)
      /\ \A i \in DOMAIN queue : queue[i] \in Request
  BY <1>1
<1>4. \A r \in woken : r \in Request /\ pc[r] = "waiting"
  BY <1>1, <1>3 DEF Queueing
<1>5. pc' \in [Request -> Phase] /\ pc'[q] = phase
  BY <1>1, <1>2 DEF Phase
<1>6. \A r \in Request : r # q =>
        /\ pc'[r] \notin Busy
        /\ pc'[r] = pc[r] \/ (pc[r] = "waiting" /\ pc'[r] = "granted")
  BY <1>1, <1>2, <1>4, OthersIdle DEF Busy
<1>7. OneBusy'
  BY <1>6 DEF OneBusy
<1>8. /\ queue' \in Seq(Request)
      /\ DOMAIN queue' = 1 .. Len(queue) - n
      /\ \A i \in DOMAIN queue' : queue'[i] = queue[i + n] /\ i + n \in DOMAIN queue
  BY <1>1, <1>2, <1>3
<1>9. Queueing'
  <2>1. ASSUME NEW i \in DOMAIN queue' PROVE pc'[queue'[i]] = "waiting"
    <3>1. /\ queue'[i] = queue[i + n] /\ i + n \in DOMAIN queue
          /\ pc[queue[i + n]] = "waiting" /\ i \in Nat \ {0}
      BY <1>1, <1>3, <1>8, <2>1 DEF Queueing
    <3>2. \A j \in 1 .. n : queue[j] # queue[i + n]
      BY <1>1, <1>3, <3>1 DEF Queueing
    <3> QED BY <1>2, <1>3, <3>1, <3>2
  <2>2. ASSUME NEW i \in DOMAIN queue', NEW j \in DOMAIN queue', queue'[i] = queue'[j]
        PROVE  i = j
    <3>1. i + n = j + n
      BY <1>1, <1>8, <2>2 DEF Queueing
    <3> QED BY <1>8, <3>1
  <2> QED BY <2>1, <2>2 DEF Queueing
<1>10. holders' \subseteq Request
  BY <1>2, <1>4
<1> QED BY <1>5, <1>6, <1>7, <1>8, <1>9, <1>10 DEF Moved

LEMMA ReleaseMoves ==
  ASSUME IInv, NEW q \in Request, pc[q] \in Busy \/ LoopFree, pc[q] # "waiting", Release(q)
  PROVE  Moved(q, "done")
<1>1. queue \in Seq(Request) /\ holders \ {q} \in SUBSET Request
  BY Types
<1>2. (IF queue = <<>> THEN 0 ELSE 1) \in 0 .. Len(queue)
  BY <1>1
<1> QED BY <1>1, <1>2, WakeMoves DEF Release, Phase

\* Handlers of the others: nothing changes for them, unless the attempt of one that
\* overran its time is failed.
LEMMA OthersHandle ==
  ASSUME IInv, NEW q \in Request, NEW phase, Moved(q, phase), elapsed' = elapsed,
         \A r \in Request : r # q =>
           /\ age'[r] = age[r]
           /\ attempt'[r].from = attempt[r].from
           /\ run'[r] = run[r] \/ (Stale(r) /\ run'[r] = "failed")
  PROVE  \A r \in Request : r # q => HandlerOf(r)'
<1> SUFFICES ASSUME NEW r \in Request, r # q PROVE HandlerOf(r)'
  OBVIOUS
<1>1. HandlerOf(r)
  BY DEF IInv, Handlers
<1>2. /\ pc'[r] \notin Busy
      /\ pc'[r] = pc[r] \/ (pc[r] = "waiting" /\ pc'[r] = "granted")
  BY DEF Moved
<1>3. age[r] \in Nat /\ elapsed[r] \in Nat /\ Deadline \in Nat /\ StaleAfter \in Nat
      /\ Deadline <= StaleAfter
  BY Types
<1>4. attempt[r].status = run[r]
  BY DEF IInv, Rows, RowsAgree
<1>5. CASE run'[r] = run[r]
  BY <1>1, <1>2, <1>5 DEF HandlerOf, Early, Live, Awaiting, Busy
<1>6. CASE Stale(r) /\ run'[r] = "failed"
  <2>1. run[r] \in Open /\ age[r] > StaleAfter
    BY <1>4, <1>6 DEF Stale
  <2>2. pc[r] \notin Early
    BY <1>1, <2>1 DEF HandlerOf, Open
  <2>3. pc'[r] = pc[r]
    BY <1>2, <2>2 DEF Early
  <2>4. ~(pc[r] \in Live /\ elapsed[r] <= Deadline)
    BY <1>1, <1>3, <2>1 DEF HandlerOf
  <2> QED BY <1>1, <1>2, <1>6, <2>2, <2>3, <2>4 DEF HandlerOf, Early, Live, Awaiting, Busy
<1> QED BY <1>5, <1>6

\* What a step of one handler has to show.
LEMMA HandlerStep ==
  ASSUME IInv, NEW q \in Request, NEW phase, Moved(q, phase),
         Rows(attempt, run, created, ended)', HandlerOf(q)',
         phase = "creating" => \A r \in Request : Asks[r] = Asks[q] => run'[r] \notin Alive,
         elapsed' = elapsed, crashes' = crashes,
         age' \in [Request -> 0 .. StaleAfter + 1], reviews' \in [Request -> BOOLEAN],
         \A r \in Request : r # q =>
           /\ age'[r] = age[r]
           /\ attempt'[r].from = attempt[r].from
           /\ run'[r] = run[r] \/ (Stale(r) /\ run'[r] = "failed")
  PROVE  IInv'
<1>1. \A r \in Request : HandlerOf(r)'
  BY OthersHandle
<1>2. Creating'
  BY DEF Creating, Moved, Busy
<1>3. TypeOK'
  BY DEF IInv, TypeOK, Moved, Rows, RowsType
<1> QED BY <1>1, <1>2, <1>3 DEF IInv, Handlers, Moved

\* A step that leaves the tables alone.
LEMMA QuietStep ==
  ASSUME IInv, NEW q \in Request, NEW phase, phase # "creating", Moved(q, phase),
         HandlerOf(q)', UNCHANGED <<stored, age, elapsed, reviews, crashes>>
  PROVE  IInv' /\ UNCHANGED run
<1>1. Rows(attempt, run, created, ended)'
  BY DEF IInv, stored, Rows, RowsType, RowsAgree, OneAlive, Linked, Unforked, Ordered
<1>2. /\ age' = age /\ elapsed' = elapsed /\ reviews' = reviews /\ crashes' = crashes
      /\ attempt' = attempt /\ run' = run
  BY DEF stored
<1>3. age' \in [Request -> 0 .. StaleAfter + 1] /\ reviews' \in [Request -> BOOLEAN]
  BY <1>2, Types
<1> QED BY <1>1, <1>2, <1>3, HandlerStep

-----------------------------------------------------------------------------------
(* Steps that leave the tables alone.                                              *)

LEMMA ArriveStep ==
  ASSUME IInv, NEW q \in Request, Arrive(q)
  PROVE  IInv' /\ UNCHANGED run
<1>1. pc \in [Request -> Phase] /\ queue \in Seq(Request) /\ holders \subseteq Request
      /\ Queueing /\ HandlerOf(q)
  BY Types DEF IInv, Handlers
<1>2. pc[q] = "idle" /\ LoopFree /\ UNCHANGED <<stored, age, elapsed, reviews, crashes>>
  BY DEF Arrive
<1>3. \A r \in Request : r # q => pc[r] \notin Busy
  BY <1>2, OthersIdle
<1>4. CASE Goto(q, "waiting") /\ queue' = Append(queue, q) /\ UNCHANGED holders
  <2>1. pc' = [pc EXCEPT ![q] = "waiting"]
    BY <1>4 DEF Goto
  <2>2. pc' \in [Request -> Phase] /\ pc'[q] = "waiting"
        /\ \A r \in Request : r # q => pc'[r] = pc[r]
    BY <1>1, <2>1 DEF Phase
  <2>3. \A i \in DOMAIN queue : queue[i] \in Request /\ queue[i] # q
    BY <1>1, <1>2 DEF Queueing
  <2>4. Queueing'
    BY <1>1, <1>4, <2>2, <2>3, AppendFacts DEF Queueing
  <2>5. OneBusy'
    BY <1>3, <2>2 DEF OneBusy, Busy
  <2>6. queue' \in Seq(Request)
    BY <1>1, <1>4, AppendFacts
  <2>7. Moved(q, "waiting")
    BY <1>1, <1>3, <1>4, <2>2, <2>4, <2>5, <2>6 DEF Moved
  <2>8. HandlerOf(q)'
    BY <1>1, <1>2, <2>2 DEF HandlerOf, Early, Live, Awaiting, stored
  <2> QED BY <1>2, <2>7, <2>8, QuietStep
<1>5. CASE Goto(q, "looking") /\ holders' = holders \cup {q} /\ UNCHANGED queue
  <2>1. pc' = [pc EXCEPT ![q] = "looking"]
    BY <1>5 DEF Goto
  <2>2. pc' \in [Request -> Phase] /\ pc'[q] = "looking"
        /\ \A r \in Request : r # q => pc'[r] = pc[r]
    BY <1>1, <2>1 DEF Phase, Busy
  <2>3. \A i \in DOMAIN queue : queue[i] \in Request /\ queue[i] # q
    BY <1>1, <1>2 DEF Queueing
  <2>4. Queueing'
    BY <1>1, <1>5, <2>2, <2>3 DEF Queueing
  <2>5. OneBusy'
    BY <1>3, <2>2 DEF OneBusy
  <2>6. Moved(q, "looking")
    BY <1>1, <1>3, <1>5, <2>2, <2>4, <2>5 DEF Moved
  <2>7. HandlerOf(q)'
    BY <1>1, <1>2, <2>2 DEF HandlerOf, Early, Live, Awaiting, stored
  <2> QED BY <1>2, <2>6, <2>7, QuietStep
<1> QED BY <1>4, <1>5 DEF Arrive

LEMMA ResumedStep ==
  ASSUME IInv, NEW q \in Request, Resumed(q)
  PROVE  IInv' /\ UNCHANGED run
<1> DEFINE free == Slots - Cardinality(holders)
           n == IF free \in 0 .. Len(queue) THEN free ELSE Len(queue)
<1>1. pc[q] = "granted" /\ LoopFree /\ UNCHANGED <<stored, age, elapsed, reviews, crashes>>
      /\ Wake(q, "looking", holders, n)
  BY DEF Resumed
<1>2. HandlerOf(q) /\ holders \in SUBSET Request
  BY Types DEF IInv, Handlers
<1>3. Moved(q, "looking")
  <2>1. CASE n \in 0 .. Len(queue)
    BY <1>1, <1>2, <2>1, WakeMoves DEF Phase, Busy
  <2> QED BY <2>1
<1>4. HandlerOf(q)'
  BY <1>1, <1>2, <1>3 DEF HandlerOf, Early, Live, Awaiting, stored, Moved
<1> QED BY <1>1, <1>3, <1>4, QuietStep

\* A handler that is done, or about to fail, owes nothing.
LEMMA FinalStep ==
  ASSUME IInv, NEW q \in Request, NEW phase \in {"done", "failing"}, Moved(q, phase),
         UNCHANGED <<stored, age, elapsed, reviews, crashes>>
  PROVE  IInv' /\ UNCHANGED run
<1>1. HandlerOf(q)'
  BY DEF Moved, HandlerOf, Early, Live, Awaiting
<1> QED BY <1>1, QuietStep

LEMMA QuietSteps ==
  ASSUME IInv, NEW q \in Request,
         \/ AnswerCached(q) \/ Report(q) \/ FailLost(q)
         \/ Error(q) \/ Timeout(q)
         \/ Prepared(q) \/ Researched(q) \/ Verified(q)
  PROVE  IInv' /\ UNCHANGED run
<1>1. pc \in [Request -> Phase] /\ HandlerOf(q)
  BY Types DEF IInv, Handlers
<1>2. CASE AnswerCached(q) \/ Report(q) \/ FailLost(q)
  <2>1. pc[q] \in Busy /\ pc[q] # "waiting" /\ Release(q)
        /\ UNCHANGED <<stored, age, elapsed, reviews, crashes>>
    BY <1>2 DEF AnswerCached, Report, FailLost, Busy
  <2> QED BY <2>1, ReleaseMoves, FinalStep
<1>3. ASSUME pc[q] \in Busy \/ LoopFree, pc[q] # "waiting", Goto(q, "failing"),
             UNCHANGED <<stored, age, gate, elapsed, reviews, crashes>>
      PROVE  IInv' /\ UNCHANGED run
  BY <1>3, GotoMoves, FinalStep DEF Phase, Busy
<1>4. CASE Error(q) \/ Timeout(q)
  BY <1>3, <1>4 DEF Error, Timeout, Busy, Awaiting
<1>5. ASSUME NEW phase \in {"starting", "reviewing", "completing"}, pc[q] # "waiting",
             LoopFree, Goto(q, phase),
             UNCHANGED <<stored, age, gate, elapsed, reviews, crashes>>,
             run[q] = IF phase = "starting" THEN "pending" ELSE "running",
             elapsed[q] <= Deadline, age[q] <= elapsed[q]
      PROVE  IInv' /\ UNCHANGED run
  <2>1. Moved(q, phase)
    BY <1>5, GotoMoves DEF Phase, Busy
  <2>2. pc'[q] = phase /\ run' = run /\ attempt' = attempt /\ age' = age /\ elapsed' = elapsed
    BY <1>5, <2>1 DEF Moved, stored
  <2>3. HandlerOf(q)'
    BY <1>5, <2>2 DEF HandlerOf, Early, Live, Awaiting
  <2> QED BY <1>5, <2>1, <2>3, QuietStep
<1>6. CASE Prepared(q)
  <2>1. /\ pc[q] = "preparing" /\ LoopFree
        /\ UNCHANGED <<stored, age, gate, elapsed, reviews, crashes>>
    BY <1>6 DEF Prepared
  <2>2. CASE Goto(q, "starting")
    <3>1. /\ run[q] = "pending"
          /\ elapsed[q] <= Deadline /\ age[q] <= elapsed[q]
      BY <1>1, <1>6, <2>1 DEF HandlerOf, Live, Awaiting, Prepared
    <3> QED BY <1>5, <2>1, <2>2, <3>1
  <2> QED BY <1>3, <1>6, <2>1, <2>2 DEF Prepared
<1>7. CASE Researched(q)
  <2>1. /\ pc[q] = "researching" /\ LoopFree
        /\ UNCHANGED <<stored, age, gate, elapsed, reviews, crashes>>
    BY <1>7 DEF Researched
  <2>2. CASE Goto(q, "reviewing")
    <3>1. /\ run[q] = "running"
          /\ elapsed[q] <= Deadline /\ age[q] <= elapsed[q]
      BY <1>1, <1>7, <2>1 DEF HandlerOf, Live, Awaiting, Researched
    <3> QED BY <1>5, <2>1, <2>2, <3>1
  <2> QED BY <1>3, <1>7, <2>1, <2>2 DEF Researched
<1>8. CASE Verified(q)
  <2>1. /\ pc[q] = "verifying" /\ LoopFree
        /\ UNCHANGED <<stored, age, gate, elapsed, reviews, crashes>>
    BY <1>8 DEF Verified
  <2>2. CASE Goto(q, "completing")
    <3>1. /\ run[q] = "running"
          /\ elapsed[q] <= Deadline /\ age[q] <= elapsed[q]
      BY <1>1, <1>8, <2>1 DEF HandlerOf, Live, Awaiting, Verified
    <3> QED BY <1>5, <2>1, <2>2, <3>1
  <2> QED BY <1>3, <1>8, <2>1, <2>2 DEF Verified
<1> QED BY <1>2, <1>4, <1>6, <1>7, <1>8

LEMMA CrashStep == IInv /\ Crash => IInv' /\ UNCHANGED run
<1> SUFFICES ASSUME IInv, Crash PROVE IInv' /\ UNCHANGED run
  OBVIOUS
<1>1. /\ pc' = [q \in Request |-> IF pc[q] = "idle" THEN "idle" ELSE "done"]
      /\ queue' = <<>> /\ holders' = {} /\ crashes' = crashes + 1 /\ crashes < MaxCrashes
      /\ UNCHANGED <<stored, age, elapsed, reviews>>
  BY DEF Crash
<1>2. \A q \in Request : pc'[q] \in {"idle", "done"} /\ (pc'[q] = "idle" => pc[q] = "idle")
  BY <1>1
<1>3. TypeOK'
  BY <1>1, ResearchAssumption DEF IInv, TypeOK, stored, Phase
<1>4. Rows(attempt, run, created, ended)'
  BY <1>1 DEF IInv, stored, Rows, RowsType, RowsAgree, OneAlive, Linked, Unforked, Ordered
<1>5. Handlers'
  BY <1>1, <1>2 DEF IInv, stored, Handlers, HandlerOf, Early, Live, Awaiting
<1>6. OneBusy' /\ Creating'
  BY <1>2 DEF OneBusy, Creating, Busy
<1>7. Queueing'
  BY <1>1 DEF Queueing
<1> QED BY <1>1, <1>3, <1>4, <1>5, <1>6, <1>7 DEF IInv, stored

LEMMA TickStep == IInv /\ Tick => IInv' /\ UNCHANGED run
<1> SUFFICES ASSUME IInv, Tick PROVE IInv' /\ UNCHANGED run
  OBVIOUS
<1>1. /\ LoopFree
      /\ \A q \in Request : pc[q] \in Awaiting /\ elapsed[q] >= Deadline => pc[q] = "researching"
      /\ elapsed' = [q \in Request |-> IF pc[q] \in Awaiting /\ elapsed[q] <= Deadline
                                         THEN elapsed[q] + 1 ELSE elapsed[q]]
      /\ age' = [q \in Request |-> IF attempt[q].status \in Open /\ age[q] <= StaleAfter
                                     THEN age[q] + 1 ELSE age[q]]
      /\ pc' = pc /\ queue' = queue /\ holders' = holders /\ run' = run /\ attempt' = attempt
      /\ created' = created /\ ended' = ended /\ reviews' = reviews /\ crashes' = crashes
  BY DEF Tick, Overrunning, stored, gate
<1>2. \A q \in Request :
        /\ elapsed[q] \in 0 .. Deadline + 1 /\ age[q] \in 0 .. StaleAfter + 1
        /\ elapsed'[q] = IF pc[q] \in Awaiting /\ elapsed[q] <= Deadline
                           THEN elapsed[q] + 1 ELSE elapsed[q]
        /\ age'[q] = IF attempt[q].status \in Open /\ age[q] <= StaleAfter
                       THEN age[q] + 1 ELSE age[q]
  BY <1>1, Types
<1>3. Deadline \in Nat /\ StaleAfter \in Nat
  BY Types
<1>4. elapsed' \in [Request -> 0 .. Deadline + 1] /\ age' \in [Request -> 0 .. StaleAfter + 1]
  <2>1. \A q \in Request : elapsed'[q] \in 0 .. Deadline + 1 /\ age'[q] \in 0 .. StaleAfter + 1
    BY <1>2, <1>3
  <2>2. elapsed' = [q \in Request |-> elapsed'[q]] /\ age' = [q \in Request |-> age'[q]]
    BY <1>1
  <2> QED BY <2>1, <2>2
<1>5. TypeOK'
  BY <1>1, <1>4 DEF IInv, TypeOK
<1>6. ASSUME NEW q \in Request PROVE HandlerOf(q)'
  <2>1. HandlerOf(q)
    BY DEF IInv, Handlers
  <2>2. pc'[q] = pc[q] /\ run'[q] = run[q] /\ attempt'[q] = attempt[q]
    BY <1>1
  <2>3. CASE pc[q] \in Awaiting
    BY <1>1, <1>2, <1>3, <2>1, <2>2, <2>3 DEF HandlerOf, Early, Live, Awaiting
  <2>4. CASE pc[q] \notin Awaiting
    <3>1. pc[q] \notin Live
      BY <1>1, <2>4 DEF Live, LoopFree, Busy, Awaiting
    <3>2. elapsed'[q] = elapsed[q]
      BY <1>2, <2>4
    <3> QED BY <2>1, <2>2, <2>4, <3>1, <3>2 DEF HandlerOf, Awaiting
  <2> QED BY <2>3, <2>4
<1>7. Rows(attempt, run, created, ended)'
  BY <1>1 DEF IInv, Rows, RowsType, RowsAgree, OneAlive, Linked, Unforked, Ordered
<1>8. OneBusy' /\ Queueing' /\ Creating'
  BY <1>1 DEF IInv, OneBusy, Queueing, Creating
<1> QED BY <1>1, <1>5, <1>6, <1>7, <1>8 DEF IInv, Handlers

-----------------------------------------------------------------------------------
(* Steps on the tables.                                                            *)

\* The lookup, when no attempt answers it: after a stale attempt has been failed, rows
\* hold and nobody is alive for the fingerprint.
LEMMA Lookup ==
  ASSUME IInv, NEW q \in Request, pc[q] = "looking", Answer(q) = {}
  PROVE  /\ Rows(FailStale(q), FailStaleRun(q), created, EndStale(q))
         /\ \A r \in Request : Asks[r] = Asks[q] => FailStaleRun(q)[r] \notin Alive
         /\ \A r \in Request :
              /\ FailStale(q)[r].from = attempt[r].from
              /\ \/ FailStaleRun(q)[r] = run[r]
                 \/ Stale(r) /\ run[r] \in Open /\ FailStaleRun(q)[r] = "failed"
         /\ FailStaleRun(q)[q] = "none" /\ FailStale(q)[q] = NoAttempt
<1>1. /\ RowsType(attempt, run, created, ended) /\ RowsAgree(attempt, run)
      /\ OneAlive(run) /\ Ordered(attempt, run, created, ended)
  BY DEF IInv, Rows
<1>2. run[q] = "none" /\ attempt[q] = NoAttempt
  BY <1>1 DEF IInv, Handlers, HandlerOf, Early, RowsAgree
<1>3. Hits(q) = {r \in Request : Asks[r] = Asks[q] /\ run[r] \in Alive}
  BY <1>1 DEF Hits, RowsAgree, Alive
<1>4. CASE Hits(q) = {}
  <2>1. TakenOver(q) = {}
    BY <1>4 DEF TakenOver, Cached
  <2>2. FailStale(q) = attempt /\ FailStaleRun(q) = run /\ EndStale(q) = ended
    BY <1>1, <2>1 DEF FailStale, FailStaleRun, EndStale, RowsType
  <2> QED BY <1>2, <1>3, <1>4, <2>2 DEF IInv
<1>5. CASE Hits(q) # {}
  <2>1. PICK h \in Request : Hits(q) = {h}
    BY <1>1, <1>3, <1>5 DEF OneAlive
  <2>2. Asks[h] = Asks[q] /\ run[h] \in Alive
    BY <1>3, <2>1
  <2>3. \E k \in DOMAIN created : created[k] \in Hits(q)
    BY <1>1, <2>1, <2>2 DEF Ordered, Alive, Open
  <2>4. Latest(created, Hits(q)) = h
    BY <1>1, <2>1, <2>3, LatestIsLast DEF RowsType
  <2>5. Stale(h) /\ TakenOver(q) = {h}
    BY <1>5, <2>4 DEF Answer, TakenOver, Cached
  <2>6. run[h] \in Open /\ h # q
    BY <1>1, <1>2, <2>5 DEF Stale, RowsAgree, Open
  <2>7. /\ FailStale(q) = [attempt EXCEPT ![h].status = "failed"]
        /\ FailStaleRun(q) = [run EXCEPT ![h] = "failed"]
        /\ EndStale(q) = Append(ended, h)
    <3>1. attempt \in [Request -> Attempt] /\ run \in [Request -> R!Status]
      BY <1>1 DEF RowsType
    <3>2. FailStale(q) = [attempt EXCEPT ![h].status = "failed"]
      BY <2>5, <3>1 DEF FailStale
    <3>3. FailStaleRun(q) = [run EXCEPT ![h] = "failed"]
      BY <2>5, <3>1 DEF FailStaleRun
    <3> QED BY <2>4, <2>5, <3>2, <3>3 DEF EndStale
  <2>8. Rows(FailStale(q), FailStaleRun(q), created, EndStale(q))
    <3>1. Rows(attempt, run, created, ended)
      BY DEF IInv
    <3>2. Rows([attempt EXCEPT ![h].status = "failed"], [run EXCEPT ![h] = "failed"],
               created, Append(ended, h))
      BY <2>6, <3>1, FailRow
    <3> QED BY <2>7, <3>2
  <2>9. \A r \in Request : Asks[r] = Asks[q] => FailStaleRun(q)[r] \notin Alive
    BY <1>1, <1>3, <2>1, <2>7 DEF RowsType, Alive, Open
  <2>10. \A r \in Request :
           /\ FailStale(q)[r].from = attempt[r].from
           /\ FailStaleRun(q)[r] = IF r = h THEN "failed" ELSE run[r]
    BY <1>1, <2>7 DEF RowsType, Attempt
  <2>11. FailStaleRun(q)[q] = "none" /\ FailStale(q)[q] = NoAttempt
    BY <1>1, <1>2, <2>6, <2>7 DEF RowsType
  <2> QED BY <2>5, <2>6, <2>8, <2>9, <2>10, <2>11
<1> QED BY <1>4, <1>5

\* What a step does to committed runs, as the registry allows.
LEMMA RunStep ==
  ASSUME IInv, Rows(attempt, run, created, ended)',
         \A r \in Request : run'[r] = run[r] \/ run'[r] \in R!Later[run[r]]
  PROVE  R!Next
BY DEF R!Next, Rows, RowsType

LEMMA MissStep ==
  ASSUME IInv, NEW q \in Request, Miss(q)
  PROVE  IInv' /\ R!Next
<1>1. /\ pc[q] = "looking" /\ Answer(q) = {}
      /\ attempt' = FailStale(q) /\ run' = FailStaleRun(q) /\ ended' = EndStale(q)
      /\ Goto(q, "creating") /\ created' = created /\ age' = age
      /\ UNCHANGED gate /\ elapsed' = elapsed /\ reviews' = reviews /\ crashes' = crashes
  BY DEF Miss
<1>2. Moved(q, "creating")
  BY <1>1, GotoMoves DEF Phase, Busy
<1>3. Rows(attempt, run, created, ended)'
  <2>1. Rows(attempt', run', created', ended')
    BY <1>1, Lookup
  <2> QED BY <2>1 DEF Rows, RowsType, RowsAgree, OneAlive, Linked, Unforked, Ordered
<1>4. HandlerOf(q)
  BY DEF IInv, Handlers
<1>5. HandlerOf(q)'
  BY <1>1, <1>2, <1>4, Lookup DEF HandlerOf, Moved, Early, Live, Awaiting
<1>6. \A r \in Request :
        /\ attempt'[r].from = attempt[r].from
        /\ run'[r] = run[r] \/ (Stale(r) /\ run[r] \in Open /\ run'[r] = "failed")
  BY <1>1, Lookup
<1>7. \A r \in Request : Asks[r] = Asks[q] => run'[r] \notin Alive
  BY <1>1, Lookup
<1>8. age' \in [Request -> 0 .. StaleAfter + 1] /\ reviews' \in [Request -> BOOLEAN]
  BY <1>1, Types
<1>9. IInv'
  BY <1>1, <1>2, <1>3, <1>5, <1>6, <1>7, <1>8, HandlerStep
<1>10. R!Next
  BY <1>3, <1>6, RunStep DEF R!Later, Open
<1> QED BY <1>9, <1>10

\* The checkpoint that is resumed: the last in its chain, so not resumed before.
LEMMA CheckpointFacts ==
  ASSUME IInv, NEW q \in Request, pc[q] = "looking", Answer(q) = {}, Checkpointed(q) # {}
  PROVE  LET att == FailStale(q)
             cp == Checkpoint(q)
         IN /\ cp \in Request
            /\ Asks[cp] = Asks[q]
            /\ FailStaleRun(q)[cp] = "failed"
            /\ att[cp].stage = "agent_completed"
            /\ \A r \in Request : att[r].from # cp
<1> DEFINE att == FailStale(q)
           rn == FailStaleRun(q)
           en == EndStale(q)
           cp == Checkpoint(q)
<1>1. /\ RowsType(att, rn, created, en) /\ RowsAgree(att, rn)
      /\ Linked(att, rn) /\ Ordered(att, rn, created, en)
      /\ \A r \in Request : Asks[r] = Asks[q] => rn[r] \notin Alive
  BY Lookup DEF Rows
<1>2. Checkpointed(q) = {r \in Request : /\ Asks[r] = Asks[q]
                                        /\ att[r].status = "failed"
                                        /\ att[r].stage = "agent_completed"}
  BY DEF Checkpointed
<1>3. \A r \in Checkpointed(q) : r \in Request /\ rn[r] = "failed" /\ \E k \in DOMAIN en : en[k] = r
  <2> HIDE DEF att, rn, en
  <2> QED BY <1>1, <1>2 DEF RowsAgree, Ordered
<1>4. PICK i \in DOMAIN en :
        /\ cp = en[i] /\ en[i] \in Checkpointed(q)
        /\ \A j \in DOMAIN en : en[j] \in Checkpointed(q) => j <= i
  <2>1. en \in Seq(Request)
    BY <1>1 DEF RowsType
  <2>2. \E k \in DOMAIN en : en[k] \in Checkpointed(q)
    BY <1>3
  <2> QED BY <2>1, <2>2, LatestIsLast DEF Checkpoint
<1> HIDE DEF att, rn, en, cp
<1>5. ASSUME NEW r \in Request, att[r].from = cp PROVE FALSE
  <2>1. att[r].from # None /\ Asks[r] = Asks[q] /\ att[r].stage # "none"
    BY <1>1, <1>2, <1>4, <1>5, ResearchAssumption DEF Linked
  <2>2. rn[r] # "none"
    BY <1>1, <2>1, ResearchAssumption DEF RowsAgree, NoAttempt
  <2>3. rn[r] = "failed"
    BY <1>1, <2>1, <2>2 DEF RowsType, R!Status, Alive, Open
  <2>4. att[r].stage = "agent_completed"
    BY <1>1, <2>1, <2>3 DEF RowsType, RowsAgree, Attempt, Stage
  <2>5. r \in Checkpointed(q)
    BY <1>1, <1>2, <2>1, <2>3, <2>4 DEF RowsAgree
  <2>6. PICK j \in DOMAIN en : en[j] = r
    BY <1>3, <2>5
  <2>7. i < j /\ j <= i
    BY <1>1, <1>4, <1>5, <2>5, <2>6 DEF Ordered
  <2>8. i \in Nat /\ j \in Nat
    BY <1>1 DEF RowsType
  <2> QED BY <2>7, <2>8
<1> QED BY <1>2, <1>3, <1>4, <1>5 DEF att, rn, cp

LEMMA ResumeStep ==
  ASSUME IInv, NEW q \in Request, ResumeCheckpoint(q)
  PROVE  IInv' /\ R!Next
<1> DEFINE att == FailStale(q)
           rn == FailStaleRun(q)
           en == EndStale(q)
           cp == Checkpoint(q)
           row == [NoAttempt EXCEPT !.status = "pending", !.from = cp, !.stage = att[cp].stage]
<1>1. /\ pc[q] = "looking" /\ Answer(q) = {} /\ Checkpointed(q) # {}
      /\ attempt' = [att EXCEPT ![q] = row] /\ run' = [rn EXCEPT ![q] = "pending"]
      /\ ended' = en /\ created' = Append(created, q) /\ age' = [age EXCEPT ![q] = 0]
      /\ Goto(q, "resuming")
      /\ UNCHANGED gate /\ elapsed' = elapsed /\ reviews' = reviews /\ crashes' = crashes
  BY DEF ResumeCheckpoint
<1>2. Moved(q, "resuming")
  BY <1>1, GotoMoves DEF Phase, Busy
<1>3. /\ Rows(att, rn, created, en)
      /\ \A r \in Request : Asks[r] = Asks[q] => rn[r] \notin Alive
      /\ \A r \in Request :
           /\ att[r].from = attempt[r].from
           /\ rn[r] = run[r] \/ (Stale(r) /\ run[r] \in Open /\ rn[r] = "failed")
      /\ rn[q] = "none"
  BY <1>1, Lookup
<1>4. /\ cp \in Request /\ Asks[cp] = Asks[q] /\ rn[cp] = "failed"
      /\ att[cp].stage = "agent_completed"
      /\ \A r \in Request : att[r].from # cp
  BY <1>1, CheckpointFacts
<1> HIDE DEF att, rn, en, cp
<1>5. /\ row \in Attempt /\ row.status = "pending" /\ row.from = cp
      /\ row.stage = "agent_completed"
  BY <1>4 DEF Attempt, NoAttempt, R!Status, Stage
<1> HIDE DEF row
<1>6. Rows(attempt, run, created, ended)'
  <2>1. Rows([att EXCEPT ![q] = row], [rn EXCEPT ![q] = "pending"], Append(created, q), en)
    BY <1>3, <1>4, <1>5, CreateRow
  <2>2. Rows(attempt', run', created', ended')
    BY <1>1, <2>1
  <2> QED BY <2>2 DEF Rows, RowsType, RowsAgree, OneAlive, Linked, Unforked, Ordered
<1>7. att \in [Request -> Attempt] /\ rn \in [Request -> R!Status]
  BY <1>3 DEF Rows, RowsType
<1>8. /\ attempt'[q] = row /\ run'[q] = "pending"
      /\ \A r \in Request : r # q =>
           /\ attempt'[r].from = attempt[r].from
           /\ run'[r] = run[r] \/ (Stale(r) /\ run[r] \in Open /\ run'[r] = "failed")
  BY <1>1, <1>3, <1>7
<1>9. age' \in [Request -> 0 .. StaleAfter + 1] /\ reviews' \in [Request -> BOOLEAN]
      /\ age'[q] = 0 /\ elapsed[q] \in Nat
      /\ \A r \in Request : r # q => age'[r] = age[r]
  BY <1>1, Types
<1>10. HandlerOf(q)
  BY DEF IInv, Handlers
<1>11. HandlerOf(q)'
  <2>1. pc'[q] = "resuming" /\ elapsed'[q] = elapsed[q] /\ elapsed[q] <= Deadline
    BY <1>1, <1>2, <1>10 DEF Moved, HandlerOf
  <2>2. attempt'[q].from # None
    BY <1>4, <1>5, <1>8, ResearchAssumption
  <2>3. age'[q] <= elapsed'[q]
    <3>1. age'[q] = 0 /\ elapsed'[q] \in Nat
      BY <1>9, <2>1
    <3> QED BY <3>1
  <2>4. elapsed'[q] <= Deadline /\ run'[q] = "pending" /\ pc'[q] = "resuming"
    BY <1>8, <2>1
  <2> QED BY <2>2, <2>3, <2>4 DEF HandlerOf, Early, Live, Awaiting
<1>12. IInv'
  BY <1>1, <1>2, <1>6, <1>8, <1>9, <1>11, HandlerStep
<1>13. run[q] = "none"
  BY <1>1, <1>10 DEF HandlerOf, Early
<1> QED BY <1>6, <1>8, <1>12, <1>13, RunStep DEF R!Later, Open

LEMMA CreateStep ==
  ASSUME IInv, NEW q \in Request, Create(q)
  PROVE  IInv' /\ R!Next
<1> DEFINE row == [NoAttempt EXCEPT !.status = "pending"]
<1>1. /\ pc[q] = "creating"
      /\ attempt' = [attempt EXCEPT ![q] = row] /\ run' = [run EXCEPT ![q] = "pending"]
      /\ created' = Append(created, q) /\ age' = [age EXCEPT ![q] = 0] /\ ended' = ended
      /\ UNCHANGED gate /\ elapsed' = elapsed /\ reviews' = reviews /\ crashes' = crashes
  BY DEF Create
<1>2. PICK phase \in {"preparing", "failing"} : Goto(q, phase)
  BY DEF Create
<1>3. Moved(q, phase)
  BY <1>1, <1>2, GotoMoves DEF Phase, Busy, Awaiting
<1>4. HandlerOf(q)
  BY DEF IInv, Handlers
<1>5. run[q] = "none" /\ elapsed[q] <= Deadline
  BY <1>1, <1>4 DEF HandlerOf, Early
<1>6. /\ row \in Attempt /\ row.status = "pending" /\ row.from = None /\ row.stage = "none"
  BY DEF Attempt, NoAttempt, R!Status, Stage
<1> HIDE DEF row
<1>7. Rows(attempt, run, created, ended)'
  <2>1. Rows(attempt, run, created, ended)
        /\ \A r \in Request : Asks[r] = Asks[q] => run[r] \notin Alive
    BY <1>1 DEF IInv, Creating
  <2>2. Rows([attempt EXCEPT ![q] = row], [run EXCEPT ![q] = "pending"],
             Append(created, q), ended)
    BY <1>5, <1>6, <2>1, CreateRow
  <2>3. Rows(attempt', run', created', ended')
    BY <1>1, <2>2
  <2> QED BY <2>3 DEF Rows, RowsType, RowsAgree, OneAlive, Linked, Unforked, Ordered
<1>8. /\ run'[q] = "pending"
      /\ \A r \in Request : r # q => attempt'[r] = attempt[r] /\ run'[r] = run[r]
  BY <1>1, Types
<1>9. age' \in [Request -> 0 .. StaleAfter + 1] /\ reviews' \in [Request -> BOOLEAN]
      /\ age'[q] = 0 /\ elapsed[q] \in Nat
      /\ \A r \in Request : r # q => age'[r] = age[r]
  BY <1>1, Types
<1>10. HandlerOf(q)'
  <2>1. pc'[q] = phase /\ elapsed'[q] = elapsed[q]
    BY <1>1, <1>3 DEF Moved
  <2>2. age'[q] <= elapsed'[q] /\ elapsed'[q] <= Deadline
    <3>1. age'[q] = 0 /\ elapsed'[q] \in Nat
      BY <1>9, <2>1
    <3> QED BY <1>5, <2>1, <3>1
  <2>3. run'[q] = "pending" /\ pc'[q] \in {"preparing", "failing"}
    BY <1>2, <1>8, <2>1
  <2> QED BY <2>2, <2>3 DEF HandlerOf, Early, Live, Awaiting
<1>11. IInv'
  BY <1>1, <1>2, <1>3, <1>7, <1>8, <1>9, <1>10, HandlerStep
<1> QED BY <1>5, <1>7, <1>8, <1>11, RunStep DEF R!Later

\* A step that updates the attempt of the handler that takes it.
LEMMA UpdateStep ==
  ASSUME IInv, NEW q \in Request, NEW phase, phase # "creating", Moved(q, phase),
         HandlerOf(q)', run[q] \in Open,
         NEW row \in Attempt, row.status \in Alive, row.from = attempt[q].from,
         row.stage = "verification_completed" <=> row.status = "completed",
         attempt[q].stage # "none" => row.stage # "none",
         row.status = run[q] \/ row.status \in R!Later[run[q]],
         attempt' = [attempt EXCEPT ![q] = row], run' = [run EXCEPT ![q] = row.status],
         created' = created, ended' = ended, elapsed' = elapsed, crashes' = crashes,
         age' \in [Request -> 0 .. StaleAfter + 1], reviews' \in [Request -> BOOLEAN],
         \A r \in Request : r # q => age'[r] = age[r]
  PROVE  IInv' /\ R!Next
<1>1. Rows(attempt, run, created, ended)'
  <2>1. Rows(attempt, run, created, ended)
    BY DEF IInv
  <2>2. Rows([attempt EXCEPT ![q] = row], [run EXCEPT ![q] = row.status], created, ended)
    BY <2>1, UpdateRow
  <2>3. Rows(attempt', run', created', ended')
    BY <2>2
  <2> QED BY <2>3 DEF Rows, RowsType, RowsAgree, OneAlive, Linked, Unforked, Ordered
<1>2. /\ run'[q] = row.status
      /\ \A r \in Request : r # q => attempt'[r] = attempt[r] /\ run'[r] = run[r]
  BY Types
<1>3. IInv'
  BY <1>1, <1>2, HandlerStep
<1> QED BY <1>1, <1>2, <1>3, RunStep

LEMMA BeginStep ==
  ASSUME IInv, NEW q \in Request, BeginResumed(q) \/ BeginAgent(q)
  PROVE  IInv' /\ R!Next
<1> DEFINE row == [attempt[q] EXCEPT !.status = "running"]
<1>1. /\ pc[q] \in {"resuming", "starting"}
      /\ Begin(q, "verifying") \/ Begin(q, "researching")
  <2>1. CASE BeginResumed(q)
    BY <2>1 DEF BeginResumed
  <2>2. CASE BeginAgent(q)
    BY <2>2 DEF BeginAgent
  <2> QED BY <2>1, <2>2
<1>2. PICK phase \in {"verifying", "researching"} : Begin(q, phase)
  BY <1>1
<1>3. /\ attempt' = [attempt EXCEPT ![q] = row] /\ run' = [run EXCEPT ![q] = "running"]
      /\ created' = created /\ age' = [age EXCEPT ![q] = 0] /\ ended' = ended
      /\ Goto(q, phase)
      /\ UNCHANGED gate /\ elapsed' = elapsed /\ crashes' = crashes
  BY <1>2 DEF Begin
<1>4. Moved(q, phase)
  BY <1>1, <1>2, <1>3, GotoMoves DEF Phase, Busy, Awaiting
<1>5. /\ run[q] = "pending" /\ elapsed[q] <= Deadline
      /\ pc[q] = "resuming" => attempt[q].from # None
  BY <1>1 DEF IInv, Handlers, HandlerOf
<1>6. /\ attempt \in [Request -> Attempt] /\ reviews \in [Request -> BOOLEAN]
      /\ age \in [Request -> 0 .. StaleAfter + 1] /\ elapsed[q] \in Nat /\ StaleAfter \in Nat
  BY Types
<1>7. /\ row \in Attempt /\ row.status = "running"
      /\ row.from = attempt[q].from /\ row.stage = attempt[q].stage
  BY <1>6 DEF Attempt, R!Status
<1>8. attempt[q].stage # "verification_completed"
  BY <1>5 DEF IInv, Rows, RowsAgree
<1> HIDE DEF row
<1>9. reviews' \in [Request -> BOOLEAN]
  <2>1. CASE BeginAgent(q)
    BY <1>6, <2>1 DEF BeginAgent
  <2>2. CASE BeginResumed(q)
    <3>1. attempt[q].from \in Request
      BY <1>5, <2>2 DEF BeginResumed, IInv, Rows, Linked
    <3>2. attempt[attempt[q].from].reviewed \in BOOLEAN
      BY <1>6, <3>1 DEF Attempt
    <3> QED BY <1>6, <2>2, <3>2 DEF BeginResumed
  <2> QED BY <2>1, <2>2
<1>10. /\ age' \in [Request -> 0 .. StaleAfter + 1]
       /\ age'[q] = 0
       /\ \A r \in Request : r # q => age'[r] = age[r]
  BY <1>3, <1>6
<1>11. HandlerOf(q)'
  <2>1. /\ pc'[q] \in {"verifying", "researching"} /\ run'[q] = "running"
        /\ elapsed'[q] <= Deadline /\ elapsed'[q] \in Nat /\ age'[q] = 0
    BY <1>2, <1>3, <1>4, <1>5, <1>6, <1>10, Types DEF Moved
  <2>2. age'[q] <= elapsed'[q]
    BY <2>1
  <2> QED BY <2>1, <2>2 DEF HandlerOf, Early, Live, Awaiting
<1>12. row.status = "running" /\ run[q] \in Open /\ row.status \in R!Later[run[q]]
       /\ row.status \in Alive
  BY <1>5, <1>7 DEF R!Later, Open, Alive
<1> QED BY <1>2, <1>3, <1>4, <1>7, <1>8, <1>9, <1>10, <1>11, <1>12, UpdateStep

LEMMA SaveStep ==
  ASSUME IInv, NEW q \in Request, SaveReviews(q) \/ SaveCheckpoint(q)
  PROVE  IInv' /\ R!Next
<1> DEFINE row == IF pc[q] = "reviewing" THEN [attempt[q] EXCEPT !.reviewed = TRUE]
                  ELSE [attempt[q] EXCEPT !.stage = "agent_completed"]
           phase == IF pc[q] = "reviewing" THEN "checkpointing" ELSE "verifying"
<1>1. pc[q] \in {"reviewing", "checkpointing"}
  BY DEF SaveReviews, SaveCheckpoint
<1>2. /\ attempt' = [attempt EXCEPT ![q] = row] /\ run' = run
      /\ created' = created /\ age' = age /\ ended' = ended /\ Goto(q, phase)
      /\ UNCHANGED gate /\ elapsed' = elapsed /\ crashes' = crashes
  BY DEF SaveReviews, SaveCheckpoint
<1>3. Moved(q, phase)
  BY <1>1, <1>2, GotoMoves DEF Phase, Busy, Awaiting
<1>4. HandlerOf(q) /\ run[q] = "running"
  BY <1>1 DEF IInv, Handlers, HandlerOf
<1>5. /\ attempt \in [Request -> Attempt] /\ reviews \in [Request -> BOOLEAN]
      /\ age \in [Request -> 0 .. StaleAfter + 1] /\ run \in [Request -> R!Status]
  BY Types
<1>6. attempt[q].status = "running" /\ attempt[q].stage # "verification_completed"
  BY <1>4 DEF IInv, Rows, RowsAgree
<1>7. /\ row \in Attempt /\ row.status = "running" /\ row.from = attempt[q].from
      /\ row.stage # "verification_completed"
      /\ attempt[q].stage # "none" => row.stage # "none"
  <2>1. CASE pc[q] = "reviewing"
    BY <1>5, <1>6, <2>1 DEF Attempt
  <2>2. CASE pc[q] # "reviewing"
    BY <1>5, <1>6, <2>2 DEF Attempt, Stage
  <2> QED BY <2>1, <2>2
<1>8. reviews' \in [Request -> BOOLEAN]
  BY <1>5 DEF SaveReviews, SaveCheckpoint
<1>9. pc'[q] = phase /\ run'[q] = "running" /\ age'[q] = age[q] /\ elapsed'[q] = elapsed[q]
  BY <1>2, <1>3, <1>4 DEF Moved
<1>10. HandlerOf(q)'
  BY <1>1, <1>4, <1>9 DEF HandlerOf, Early, Live, Awaiting
<1>11. phase # "creating"
  OBVIOUS
<1> HIDE DEF row, phase
<1>12. run' = [run EXCEPT ![q] = row.status]
  BY <1>2, <1>4, <1>5, <1>7
<1>13. run[q] \in Open /\ row.status = run[q] /\ row.status \in Alive
  BY <1>4, <1>7 DEF Open, Alive
<1>14. age' \in [Request -> 0 .. StaleAfter + 1]
       /\ \A r \in Request : r # q => age'[r] = age[r]
  BY <1>2, <1>5
<1> QED BY <1>2, <1>3, <1>7, <1>8, <1>10, <1>11, <1>12, <1>13, <1>14, UpdateStep

LEMMA CompleteStep ==
  ASSUME IInv, NEW q \in Request, Complete(q)
  PROVE  IInv' /\ R!Next
<1> DEFINE row == [attempt[q] EXCEPT !.status = "completed", !.stage = "verification_completed",
                                     !.briefing = IF reviews[q] THEN "with" ELSE "without"]
<1>1. /\ pc[q] = "completing" /\ run[q] = "running"
      /\ attempt' = [attempt EXCEPT ![q] = row] /\ run' = [run EXCEPT ![q] = "completed"]
      /\ created' = created /\ age' = age /\ ended' = ended /\ Goto(q, "reporting")
      /\ UNCHANGED gate /\ elapsed' = elapsed /\ reviews' = reviews /\ crashes' = crashes
  BY DEF Complete
<1>2. Moved(q, "reporting")
  BY <1>1, GotoMoves DEF Phase, Busy
<1>3. HandlerOf(q)
  BY DEF IInv, Handlers
<1>4. /\ attempt \in [Request -> Attempt] /\ reviews \in [Request -> BOOLEAN]
      /\ age \in [Request -> 0 .. StaleAfter + 1] /\ run \in [Request -> R!Status]
  BY Types
<1>5. /\ row \in Attempt /\ row.status = "completed" /\ row.from = attempt[q].from
      /\ row.stage = "verification_completed"
  BY <1>4 DEF Attempt, Stage, R!Status
<1> HIDE DEF row
<1>6. HandlerOf(q)'
  BY <1>1, <1>2, <1>3 DEF HandlerOf, Early, Live, Awaiting, Moved
<1>7. run[q] \in Open /\ row.status \in R!Later[run[q]] /\ row.status \in Alive
  BY <1>1, <1>5 DEF Open, Alive, R!Later
<1>8. /\ age' \in [Request -> 0 .. StaleAfter + 1] /\ reviews' \in [Request -> BOOLEAN]
      /\ run' = [run EXCEPT ![q] = row.status]
      /\ \A r \in Request : r # q => age'[r] = age[r]
  BY <1>1, <1>4, <1>5
<1> QED BY <1>1, <1>2, <1>5, <1>6, <1>7, <1>8, UpdateStep

LEMMA FailStep ==
  ASSUME IInv, NEW q \in Request, Fail(q)
  PROVE  IInv' /\ R!Next
<1>1. /\ pc[q] = "failing" /\ Release(q) /\ created' = created /\ age' = age
      /\ elapsed' = elapsed /\ reviews' = reviews /\ crashes' = crashes
  BY DEF Fail
<1>2. Moved(q, "done")
  BY <1>1, ReleaseMoves DEF Busy
<1>3. Rows(attempt, run, created, ended)
  BY DEF IInv
<1>4. CASE run[q] \in Open /\ attempt[q].status \notin {"none", "completed"}
  <2>1. /\ run' = [run EXCEPT ![q] = "failed"]
        /\ attempt' = [attempt EXCEPT ![q].status = "failed"]
        /\ ended' = Append(ended, q)
    BY <1>4 DEF Fail
  <2>2. Rows(attempt, run, created, ended)'
    <3>1. Rows([attempt EXCEPT ![q].status = "failed"], [run EXCEPT ![q] = "failed"],
               created, Append(ended, q))
      BY <1>3, <1>4, FailRow
    <3>2. Rows(attempt', run', created', ended')
      BY <1>1, <2>1, <3>1
    <3> QED BY <3>2 DEF Rows, RowsType, RowsAgree, OneAlive, Linked, Unforked, Ordered
  <2>3. /\ run'[q] = "failed"
        /\ \A r \in Request : r # q => attempt'[r] = attempt[r] /\ run'[r] = run[r]
    BY <2>1, Types
  <2>4. HandlerOf(q)'
    BY <1>2 DEF Moved, HandlerOf, Early, Live, Awaiting
  <2>5. age' \in [Request -> 0 .. StaleAfter + 1] /\ reviews' \in [Request -> BOOLEAN]
        /\ \A r \in Request : r # q => age'[r] = age[r]
    BY <1>1, Types
  <2>6. IInv'
    BY <1>1, <1>2, <2>2, <2>3, <2>4, <2>5, HandlerStep
  <2>7. R!Next
    BY <1>4, <2>2, <2>3, RunStep DEF R!Later, Open
  <2> QED BY <2>6, <2>7
<1>5. CASE ~(run[q] \in Open /\ attempt[q].status \notin {"none", "completed"})
  <2>1. UNCHANGED <<stored, age, elapsed, reviews, crashes>>
    BY <1>1, <1>5 DEF Fail, stored
  <2>2. IInv' /\ UNCHANGED run
    BY <1>2, <2>1, FinalStep
  <2>3. Rows(attempt, run, created, ended)' /\ run' = run
    BY <2>2 DEF IInv
  <2> QED BY <2>2, <2>3, RunStep
<1> QED BY <1>4, <1>5

-----------------------------------------------------------------------------------
(* The theorems.                                                                   *)

LEMMA NextIInv == IInv /\ [Next]_vars => IInv' /\ [R!Next]_run
<1> SUFFICES ASSUME IInv, [Next]_vars PROVE IInv' /\ [R!Next]_run
  OBVIOUS
<1>1. ASSUME NEW q \in Request, Arrive(q) PROVE IInv' /\ [R!Next]_run
  BY <1>1, ArriveStep
<1>2. ASSUME NEW q \in Request, Handle(q) PROVE IInv' /\ [R!Next]_run
  <2>1. CASE Resumed(q)
    BY <2>1, ResumedStep
  <2>2. CASE AnswerCached(q) \/ Report(q) \/ Error(q) \/ Timeout(q)
    BY <2>2, QuietSteps
  <2>3. CASE Miss(q)
    BY <2>3, MissStep
  <2>4. CASE ResumeCheckpoint(q)
    BY <2>4, ResumeStep
  <2>5. CASE Create(q)
    BY <2>5, CreateStep
  <2>6. CASE BeginResumed(q) \/ BeginAgent(q)
    BY <2>6, BeginStep
  <2>7. CASE SaveReviews(q) \/ SaveCheckpoint(q)
    BY <2>7, SaveStep
  <2>8. CASE Complete(q)
    BY <2>8, CompleteStep
  <2>9. CASE Fail(q)
    BY <2>9, FailStep
  <2> QED BY <1>2, <2>1, <2>2, <2>3, <2>4, <2>5, <2>6, <2>7, <2>8, <2>9 DEF Handle
<1>3. ASSUME NEW q \in Request, Prepared(q) \/ Researched(q) \/ Verified(q)
      PROVE  IInv' /\ [R!Next]_run
  BY <1>3, QuietSteps
<1>4. ASSUME NEW q \in Unlucky, FailLost(q) PROVE IInv' /\ [R!Next]_run
  BY <1>4, QuietSteps, ResearchAssumption
<1>5. CASE Crash
  BY <1>5, CrashStep
<1>6. CASE Tick
  BY <1>6, TickStep
<1>7. CASE UNCHANGED vars
  BY <1>7 DEF vars, stored, gate, IInv, TypeOK, Handlers, HandlerOf, OneBusy, Queueing, Creating,
    Rows, RowsType, RowsAgree, OneAlive, Linked, Unforked, Ordered
<1> QED BY <1>1, <1>2, <1>3, <1>4, <1>5, <1>6, <1>7 DEF Next

\* The inductive invariant of research attempts.
THEOREM Invariance == Spec => []IInv
<1> QED BY InitIInv, NextIInv, PTL DEF Spec

\* The own status of an attempt is the status of its run, and the variables have their
\* types: every transaction that writes one table writes the other.
THEOREM AttemptsAgree == Spec => [](TypeOK /\ StatusesAgree)
<1>1. IInv => TypeOK /\ StatusesAgree
  BY DEF IInv, Rows, RowsAgree, StatusesAgree
<1> QED BY <1>1, Invariance, PTL

\* A fingerprint never has two attempts that have not failed, although the lookup and the
\* creation of an attempt are separate transactions.
THEOREM OneAttemptPerFingerprint == Spec => []OneAttempt
<1>1. IInv => OneAttempt
  BY DEF IInv, Rows, OneAlive, OneAttempt, Alive
<1> QED BY <1>1, Invariance, PTL

\* No request fails an attempt whose handler is under way in its time.
THEOREM AttemptsOwned == Spec => []OwnsAttempt
<1>1. IInv => OwnsAttempt
  BY DEF IInv, Handlers, HandlerOf, OwnsAttempt, Awaiting, Open
<1> QED BY <1>1, Invariance, PTL

\* Resumed attempts form chains of failed ones, and no checkpoint is resumed twice.
THEOREM ResumptionsChain == Spec => []Lineage
<1>1. IInv => Lineage
  BY DEF IInv, Rows, Linked, Unforked, Lineage
<1> QED BY <1>1, Invariance, PTL

\* The runs of research attempts keep the registry's lifecycle: what failed stays failed,
\* and what is completed stays completed.
THEOREM ResearchLifecycle == Spec => KeepsLifecycle
<1>1. Init => R!Init
  BY DEF Init
<1> QED BY <1>1, InitIInv, NextIInv, PTL DEF Spec, KeepsLifecycle, R!Spec

====
