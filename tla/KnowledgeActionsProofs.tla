--------------------------- MODULE KnowledgeActionsProofs ---------------------------
(***********************************************************************************)
(* Answers and approvals of internal knowledge, for any number of requests, runs,  *)
(* decisions, corpora and builds of the index: evidence is what the loaded corpus  *)
(* grants the requester, runs, outputs and tasks agree, the policies of proposal   *)
(* and approval agree, and decisions implement the ledger of atomic decisions.     *)
(***********************************************************************************)
EXTENDS KnowledgeActions, KnowledgeIndexProofs

\* The sources of a corpus that a persona may read.
Granted(fix, p) ==
  {s \in DOMAIN fix.source : fix.source[s].groups \cap Groups(fix, p) # {}}

\* What a search adds: sources the corpus grants, and evidence that says what it says.
FoundInv(res) ==
  /\ res.under \in Fixtures
  /\ res.authorized \subseteq Granted(res.under, res.requester)
  /\ \A e \in res.evidence :
       /\ e.source \in res.authorized
       /\ res.under.source[e.source].revision = e.revision

\* An action request whose policy has passed: there is evidence, of tickets alone.
ActionInv(res) ==
  /\ Support \in Groups(res.under, res.requester)
  /\ res.evidence = Tickets(res.under, res.evidence)

\* What is made of a result that nothing has been concluded from.
Open(res) == res.offered = {} /\ res.proposal = {} /\ res.action = "none"

\* A result that may be saved, and one that has been: it has evidence only after a
\* search, and what it offers or proposes passes the policy of the approval.
SoundResult(res) ==
  /\ res.evidence # {} => FoundInv(res)
  /\ res.action = "pending_approval" => ScopeStillValid(res.under, res, res.proposal)
  /\ res.offered # {} => ScopeStillValid(res.under, res, res.offered)
  /\ res.action \in {"pending_approval", "rejected", "executed"} => res.proposal # {}

\* The phases of an answer that has searched, and those of one that has not.
Searching(q) == pc[q] \in {"proposing", "answering", "grounding"}
Fresh(q) == pc[q] \in {"idle", "starting", "checking", "classifying", "reading", "done"}

\* What a request has in each of its phases.
AnswerOf(q) ==
  /\ Fresh(q) => result[q] = FirstResult(q)
  /\ pc[q] = "searching" =>
       result[q].under \in Fixtures /\ result[q] = [FirstResult(q) EXCEPT !.under = result[q].under]
  /\ Searching(q) => result[q].requester = PersonaOf[q] /\ FoundInv(result[q]) /\ Open(result[q])
  /\ pc[q] = "proposing" => ActionInv(result[q])
  /\ pc[q] = "grounding" => \A i \in DOMAIN claims[q] : ClaimHolds(claims[q][i], result[q])
  /\ pc[q] = "saving" =>
       /\ SoundResult(result[q])
       /\ result[q].action \in {"none", "pending_approval", "blocked"}
       /\ result[q].proposal # {} => result[q].action = "pending_approval"

AnswerInv == \A q \in Request : AnswerOf(q)

OutputInv ==
  \A r \in Run : output[r] # None =>
    /\ SoundResult(output[r])
    /\ output[r].proposal # {} => output[r].action # "none"

\* A request under way has its run to itself.
Active(q) == pc[q] \notin {"idle", "done"}

OwnerInv ==
  /\ \A q \in Request : Active(q) =>
       run[RunOf[q]] = IF pc[q] = "starting" THEN "pending" ELSE "running"
  /\ \A p, q \in Request : Active(p) /\ Active(q) /\ RunOf[p] = RunOf[q] => p = q

\* What a decision was asked and has read.
Deal == [run : Run, authorized : BOOLEAN, verdict : {"approve", "reject"},
         under : Fixtures, seen : Result \cup {None}, repeated : BOOLEAN]

\* A decision that holds the row lock works on what is committed.
DealOf(d) ==
  /\ stage[d] \in {"locking", "deciding"} => deal[d] \in Deal
  /\ stage[d] = "deciding" =>
       /\ lock[deal[d].run] = d
       /\ HasProposal(deal[d].run)
       /\ deal[d].seen = output[deal[d].run]
       /\ deal[d].repeated <=> task[deal[d].run] # None

DealInv == \A d \in Decision : DealOf(d)

KInv == TypeOK /\ IndexInv /\ AnswerInv /\ OutputInv /\ OwnerInv /\ DealInv /\ Accounts

-----------------------------------------------------------------------------------
(* Results.                                                                        *)

LEMMA FirstResultSound ==
  ASSUME NEW q \in Request
  PROVE  /\ FirstResult(q) \in Result
         /\ SoundResult(FirstResult(q)) /\ Open(FirstResult(q))
         /\ FirstResult(q).requester = PersonaOf[q]
BY KnowledgeAssumption DEF FirstResult, Result, StopReason, SoundResult, Open

\* A search of an index that belongs to the corpus finds what the corpus says and grants.
\* The index is filtered by its own access lists; that it matches the corpus in sources,
\* revisions and lists carries this over.
LEMMA SearchFound ==
  ASSUME IndexInv, NEW q \in Request, NEW found, result[q] \in Result,
         result[q].under \in Fixtures, result[q].requester = PersonaOf[q],
         Open(result[q]), Searchable(q),
         found \in SUBSET Authorized(Loaded, result[q].under, PersonaOf[q])
  PROVE  /\ Searched(q, found) \in Result
         /\ FoundInv(Searched(q, found)) /\ Open(Searched(q, found))
         /\ Searched(q, found).requester = PersonaOf[q]
         /\ Searched(q, found).under = result[q].under
         /\ mode[q] = "action" =>
              Searched(q, found).evidence
                = Tickets(Searched(q, found).under, Searched(q, found).evidence)
<1> DEFINE fix == result[q].under
           res == Searched(q, found)
           passages == {Passage(Loaded, result[q].under, s) : s \in found}
<1>1. IsSnapshot(Loaded) /\ Current(Loaded)
  BY ReadableSnapshot DEF Searchable, IndexInv, DiskInv, Loaded, Missing, Readable
<1>2. /\ DOMAIN Loaded.source = DOMAIN fix.source
      /\ \A s \in DOMAIN fix.source :
           /\ Loaded.source[s].revision = fix.source[s].revision
           /\ Loaded.source[s].groups = fix.source[s].groups
  BY <1>1 DEF Searchable, IndexMatchesFixture, Current
<1>3. Authorized(Loaded, fix, PersonaOf[q]) = Granted(fix, PersonaOf[q])
  BY <1>2 DEF Authorized, Granted
<1>4. Granted(fix, PersonaOf[q]) \subseteq Source
  BY FixtureFields DEF Granted
<1>5. \A e \in passages : /\ e \in Evidence /\ e.source \in Granted(fix, PersonaOf[q])
                          /\ fix.source[e.source].revision = e.revision
  BY <1>2, <1>3, FixtureFields DEF Passage, Evidence, Granted
<1> DEFINE evidence == IF mode[q] = "action" THEN Tickets(fix, passages) ELSE passages
<1>6. res = [result[q] EXCEPT !.authorized = Granted(fix, PersonaOf[q]), !.evidence = evidence]
  BY <1>3 DEF Searched
<1>7. evidence \subseteq passages
  BY DEF Tickets
<1> HIDE DEF passages, evidence, res
<1>8. /\ res.authorized = Granted(fix, PersonaOf[q]) /\ res.evidence = evidence
      /\ res.under = fix /\ res.requester = PersonaOf[q]
      /\ res.offered = result[q].offered /\ res.proposal = result[q].proposal
      /\ res.action = result[q].action
  BY <1>6 DEF Result
<1>9. res \in Result
  BY <1>4, <1>5, <1>6, <1>7 DEF Result
<1>10. FoundInv(res)
  BY <1>5, <1>7, <1>8 DEF FoundInv
<1>11. Open(res)
  BY <1>8 DEF Open
<1>12. mode[q] = "action" => evidence = Tickets(fix, evidence)
  BY DEF evidence, Tickets
<1>13. QED
  BY <1>8, <1>9, <1>10, <1>11, <1>12 DEF res

\* A result with another outcome is as sound, if it still offers and proposes nothing.
LEMMA StoppedSound ==
  ASSUME NEW res \in Result, Open(res), res.evidence # {} => FoundInv(res),
         NEW status \in {"completed", "failed"}, NEW reason \in StopReason
  PROVE  /\ Stopped(res, status, reason) \in Result
         /\ SoundResult(Stopped(res, status, reason)) /\ Open(Stopped(res, status, reason))
         /\ [Stopped(res, status, reason) EXCEPT !.action = "blocked"] \in Result
         /\ SoundResult([Stopped(res, status, reason) EXCEPT !.action = "blocked"])
BY DEF Stopped, Result, Open, SoundResult, FoundInv

\* The policy of the assistant implies that of the approval, in the same corpus: a
\* ticket that a granted citation names is open to a requester who is in support.
LEMMA TicketsApprovable ==
  ASSUME NEW res \in Result, FoundInv(res), NEW ids \in SUBSET Source, ids # {},
         Support \in Groups(res.under, res.requester),
         ids \subseteq Cited(Tickets(res.under, res.evidence))
  PROVE  ScopeStillValid(res.under, res, ids)
<1>1. res.requester \in DOMAIN res.under.groups /\ Support \in res.under.groups[res.requester]
  BY DEF Groups
<1>2. ASSUME NEW s \in ids
      PROVE  /\ s \in res.authorized /\ s \in DOMAIN res.under.source
             /\ res.under.source[s].kind = "ticket"
             /\ res.under.source[s].groups \cap res.under.groups[res.requester] # {}
             /\ \E e \in res.evidence : e.source = s /\ e.revision = res.under.source[s].revision
  <2>1. PICK e \in Tickets(res.under, res.evidence) : e.source = s
    BY DEF Cited
  <2>2. e \in res.evidence /\ s \in res.authorized /\ s \in Granted(res.under, res.requester)
        /\ res.under.source[s].kind = "ticket" /\ res.under.source[s].revision = e.revision
    BY <2>1 DEF Tickets, FoundInv
  <2>3. QED
    BY <1>1, <2>1, <2>2 DEF Granted, Groups
<1>3. QED
  BY <1>1, <1>2 DEF ScopeStillValid

\* A draft that is proposed passes the policy of the approval.
LEMMA ProposalSound ==
  ASSUME NEW res \in Result, Open(res), FoundInv(res), ActionInv(res),
         NEW ids \in SUBSET Cited(res.evidence), ids # {},
         NEW out, out = [Stopped(res, "completed", "action_proposal_pending")
                         EXCEPT !.action = "pending_approval", !.proposal = ids]
  PROVE  out \in Result /\ SoundResult(out)
<1>1. ids \in SUBSET Source
  BY DEF Cited, Result, Evidence
<1>2. out \in Result
  BY <1>1 DEF Result, Stopped, StopReason
<1>3. /\ out.under = res.under /\ out.requester = res.requester /\ out.offered = {}
      /\ out.authorized = res.authorized /\ out.evidence = res.evidence
      /\ out.proposal = ids /\ out.action = "pending_approval"
  BY DEF Result, Stopped, Open
<1>4. ScopeStillValid(res.under, res, ids)
  BY <1>1, TicketsApprovable DEF ActionInv
<1>5. ScopeStillValid(out.under, out, out.proposal) /\ FoundInv(out)
  BY <1>3, <1>4 DEF ScopeStillValid, FoundInv
<1>6. QED
  BY <1>2, <1>3, <1>5 DEF SoundResult

\* An answer that is released offers actions that pass the policy of the approval.
LEMMA AnswerSound ==
  ASSUME NEW res \in Result, Open(res), FoundInv(res), NEW cited \in SUBSET Source,
         NEW out, out = [Stopped(res, "completed", "answered")
                         EXCEPT !.claims = cited, !.offered = Offered(res, cited)]
  PROVE  out \in Result /\ SoundResult(out) /\ out.action = "none" /\ out.proposal = {}
<1> DEFINE offered == Offered(res, cited)
<1>1. offered \in SUBSET Source
  BY DEF Offered
<1> HIDE DEF offered
<1>2. out = [Stopped(res, "completed", "answered") EXCEPT !.claims = cited, !.offered = offered]
  BY DEF offered
<1>3. out \in Result
  BY <1>1, <1>2 DEF Result, Stopped, StopReason
<1>4. /\ out.under = res.under /\ out.requester = res.requester /\ out.offered = offered
      /\ out.authorized = res.authorized /\ out.evidence = res.evidence
      /\ out.proposal = {} /\ out.action = "none"
  BY <1>2 DEF Result, Stopped, Open
<1>5. offered # {} => ScopeStillValid(res.under, res, offered)
  BY <1>1, TicketsApprovable DEF Offered, offered
<1>6. FoundInv(out) /\ (offered # {} => ScopeStillValid(out.under, out, offered))
  BY <1>4, <1>5 DEF ScopeStillValid, FoundInv
<1>7. QED
  BY <1>3, <1>4, <1>6 DEF SoundResult

\* The claims of a grounded draft cite sources.
LEMMA CitedSources ==
  ASSUME NEW q \in Request, result[q] \in Result,
         \A i \in DOMAIN claims[q] : ClaimHolds(claims[q][i], result[q])
  PROVE  UNION {claims[q][i] : i \in DOMAIN claims[q]} \in SUBSET Source
BY DEF ClaimHolds, Result

-----------------------------------------------------------------------------------
(* Answers.                                                                        *)

LEMMA InitKInv == Init => KInv
<1> SUFFICES ASSUME Init PROVE KInv
  OBVIOUS
<1>1. IndexInv
  BY InitIndexInv DEF Init
<1>2. TypeOK
  BY <1>1, FirstResultSound
     DEF Init, IndexInv, TypeOK, R!Init, R!Status, Phase, Stage
<1>3. AnswerInv
  BY DEF Init, AnswerInv, AnswerOf, Fresh, Searching
<1>4. OutputInv /\ OwnerInv /\ DealInv /\ Accounts
  BY DEF Init, OutputInv, OwnerInv, Active, DealInv, DealOf, Accounts, R!Init, R!Terminal
<1>5. QED
  BY <1>1, <1>2, <1>3, <1>4 DEF KInv

\* Nothing of the database or of decisions is touched, and the handler goes on or ends.
AnswerFrame(q) ==
  /\ UNCHANGED <<indexVars, output, task, decisionVars>>
  /\ pc' \in [Request -> Phase]
  /\ mode' \in [Request -> {"answer", "action"}]
  /\ result' \in [Request -> Result]
  /\ claims' \in [Request -> Drafts \cup {<<>>}]
  /\ rank' \in [Request -> Nat]
  /\ \A p \in Request \ {q} :
       pc'[p] = pc[p] /\ result'[p] = result[p] /\ claims'[p] = claims[p]

\* The parts of the invariant about the database, when an answer moves one run, if any.
LEMMA FrameStep ==
  ASSUME KInv, NEW q \in Request, AnswerFrame(q), run' \in [Run -> R!Status],
         \A r \in Run : (run'[r] \in R!Terminal) = (run[r] \in R!Terminal),
         \A r \in Run : run[r] \in R!Terminal => run'[r] = run[r],
         OwnerInv', (AnswerOf(q))'
  PROVE  KInv'
<1> USE DEF AnswerFrame
<1>1. IndexInv'
  BY DEF KInv, IndexInv, indexVars, IndexTypeOK, DraftInv, HasSnapshot, DiskInv, FileInv,
         AloneInv, Opened
<1>2. TypeOK'
  BY <1>1 DEF KInv, TypeOK, IndexInv, decisionVars
<1>3. ASSUME NEW p \in Request \ {q} PROVE (AnswerOf(p))'
  <2>1. pc'[p] = pc[p] /\ result'[p] = result[p] /\ claims'[p] = claims[p]
    OBVIOUS
  <2>2. AnswerOf(p)
    BY DEF KInv, AnswerInv
  <2>3. pc[p] = "grounding" =>
          \A i \in DOMAIN claims'[p] : ClaimHolds(claims'[p][i], result'[p])
    BY <2>1, <2>2 DEF AnswerOf
  <2>4. QED
    BY <2>1, <2>2, <2>3 DEF AnswerOf, Fresh, Searching
<1>4. AnswerInv'
  BY <1>3 DEF AnswerInv
<1>5. OutputInv' /\ Accounts'
  BY DEF KInv, OutputInv, Accounts
<1>6. DealInv'
  BY DEF KInv, DealInv, DealOf, decisionVars, HasProposal
<1>7. QED
  BY <1>1, <1>2, <1>4, <1>5, <1>6 DEF KInv

\* A step of an answer between its transactions.
LEMMA LocalStep ==
  ASSUME KInv, NEW q \in Request, AnswerFrame(q), UNCHANGED run, (AnswerOf(q))',
         Active(q), pc'[q] # "idle", pc'[q] = "done" \/ (pc[q] # "starting" /\ pc'[q] # "starting")
  PROVE  KInv'
<1>1. \A p \in Request \ {q} : pc'[p] = pc[p]
  BY DEF AnswerFrame
<1>2. OwnerInv'
  BY <1>1 DEF KInv, OwnerInv, Active
<1>3. QED
  BY <1>2, FrameStep DEF KInv, TypeOK

LEMMA CreateRunStep ==
  ASSUME KInv, NEW q \in Request, CreateRun(q)
  PROVE  KInv'
<1>1. /\ pc \in [Request -> Phase] /\ run \in [Run -> R!Status] /\ RunOf[q] \in Run
      /\ pc[q] = "idle" /\ run[RunOf[q]] = "none"
  BY KnowledgeAssumption DEF KInv, TypeOK, CreateRun
<1>2. /\ pc'[q] = "starting" /\ \A p \in Request \ {q} : pc'[p] = pc[p]
      /\ run'[RunOf[q]] = "pending" /\ \A r \in Run \ {RunOf[q]} : run'[r] = run[r]
      /\ pc' \in [Request -> Phase] /\ run' \in [Run -> R!Status]
  BY <1>1 DEF CreateRun, Goto, Phase, R!Status
<1>3. AnswerFrame(q)
  BY <1>2 DEF CreateRun, AnswerFrame, KInv, TypeOK
<1>4. (AnswerOf(q))'
  BY <1>1, <1>2 DEF KInv, AnswerInv, AnswerOf, Fresh, Searching, CreateRun
<1>5. \A p \in Request : Active(p) => RunOf[p] # RunOf[q]
  BY <1>1 DEF KInv, OwnerInv
<1>6. OwnerInv'
  BY <1>1, <1>2, <1>5, KnowledgeAssumption DEF KInv, OwnerInv, Active
<1>7. QED
  BY <1>1, <1>2, <1>3, <1>4, <1>6, FrameStep DEF R!Terminal

LEMMA StartRunStep ==
  ASSUME KInv, NEW q \in Request, StartRun(q)
  PROVE  KInv'
<1>1. /\ pc \in [Request -> Phase] /\ run \in [Run -> R!Status] /\ RunOf[q] \in Run
      /\ pc[q] = "starting" /\ run[RunOf[q]] = "pending"
  BY KnowledgeAssumption DEF KInv, TypeOK, StartRun
<1>2. /\ pc'[q] = "checking" /\ \A p \in Request \ {q} : pc'[p] = pc[p]
      /\ run'[RunOf[q]] = "running" /\ \A r \in Run \ {RunOf[q]} : run'[r] = run[r]
      /\ pc' \in [Request -> Phase] /\ run' \in [Run -> R!Status]
  BY <1>1 DEF StartRun, Goto, Phase, R!Status
<1>3. AnswerFrame(q)
  BY <1>2 DEF StartRun, AnswerFrame, KInv, TypeOK
<1>4. (AnswerOf(q))'
  BY <1>1, <1>2 DEF KInv, AnswerInv, AnswerOf, Fresh, Searching, StartRun
<1>5. \A p \in Request \ {q} : Active(p) => RunOf[p] # RunOf[q]
  BY <1>1 DEF KInv, OwnerInv, Active
<1>6. OwnerInv'
  BY <1>1, <1>2, <1>5, KnowledgeAssumption DEF KInv, OwnerInv, Active
<1>7. QED
  BY <1>1, <1>2, <1>3, <1>4, <1>6, FrameStep DEF R!Terminal

\* The name is taken: the request leaves nothing behind.
LEMMA CreateRejectedStep ==
  ASSUME KInv, NEW q \in Request, CreateRejected(q)
  PROVE  KInv'
<1>1. /\ pc'[q] = "done" /\ \A p \in Request \ {q} : pc'[p] = pc[p]
      /\ pc' \in [Request -> Phase] /\ pc[q] = "idle"
  BY DEF CreateRejected, Goto, Phase, KInv, TypeOK
<1>2. AnswerFrame(q) /\ UNCHANGED run
  BY <1>1 DEF CreateRejected, AnswerFrame, KInv, TypeOK
<1>3. (AnswerOf(q))'
  BY <1>1 DEF KInv, AnswerInv, AnswerOf, Fresh, Searching, CreateRejected
<1>4. OwnerInv'
  BY <1>1, <1>2 DEF KInv, OwnerInv, Active
<1>5. QED
  BY <1>2, <1>3, <1>4, FrameStep DEF KInv, TypeOK

\* What leaving a handler does to its variables.
LEMMA LeaveFrame ==
  ASSUME KInv, NEW q \in Request, Leave(q)
  PROVE  /\ pc' \in [Request -> Phase] /\ mode' \in [Request -> {"answer", "action"}]
         /\ result' \in [Request -> Result] /\ rank' \in [Request -> Nat]
         /\ claims' \in [Request -> Drafts \cup {<<>>}]
         /\ \A p \in Request \ {q} :
              pc'[p] = pc[p] /\ result'[p] = result[p] /\ claims'[p] = claims[p]
         /\ pc'[q] = "done" /\ result'[q] = FirstResult(q)
BY FirstResultSound DEF KInv, TypeOK, Leave, Goto, Phase

LEMMA HandlerGoneStep ==
  ASSUME KInv, NEW q \in Request, HandlerGone(q)
  PROVE  KInv'
<1>1. /\ AnswerFrame(q) /\ UNCHANGED run /\ Active(q)
      /\ pc'[q] = "done" /\ result'[q] = FirstResult(q)
  BY LeaveFrame DEF HandlerGone, AnswerFrame, Active, Awaiting
<1>2. (AnswerOf(q))'
  BY <1>1 DEF AnswerOf, Fresh, Searching
<1>3. QED
  BY <1>1, <1>2, LocalStep

\* A result that is sound and proposes or offers nothing is concluded.
LEMMA ConcludeStep ==
  ASSUME KInv, NEW q \in Request, NEW res, Conclude(q, res),
         res \in Result, SoundResult(res),
         res.action \in {"none", "pending_approval", "blocked"},
         res.proposal # {} => res.action = "pending_approval",
         Active(q), pc[q] # "starting",
         mode' \in [Request -> {"answer", "action"}], rank' \in [Request -> Nat],
         claims' \in [Request -> Drafts \cup {<<>>}],
         \A p \in Request \ {q} : claims'[p] = claims[p],
         UNCHANGED <<indexVars, run, output, task, decisionVars>>
  PROVE  KInv'
<1>1. /\ pc'[q] = "saving" /\ result'[q] = res
      /\ \A p \in Request \ {q} : pc'[p] = pc[p] /\ result'[p] = result[p]
      /\ pc' \in [Request -> Phase] /\ result' \in [Request -> Result]
  BY DEF Conclude, Goto, Phase, KInv, TypeOK
<1>2. AnswerFrame(q)
  BY <1>1 DEF AnswerFrame
<1>3. (AnswerOf(q))'
  BY <1>1 DEF AnswerOf, Fresh, Searching
<1>4. QED
  BY <1>1, <1>2, <1>3, LocalStep

\* A result in its phase, between the transactions of its run.
LEMMA AdvanceStep ==
  ASSUME KInv, NEW q \in Request, NEW phase \in Phase, Goto(q, phase),
         Active(q), pc[q] # "starting", phase \notin {"idle", "starting"},
         result' \in [Request -> Result], mode' \in [Request -> {"answer", "action"}],
         rank' \in [Request -> Nat],
         claims' \in [Request -> Drafts \cup {<<>>}],
         \A p \in Request \ {q} : result'[p] = result[p] /\ claims'[p] = claims[p],
         UNCHANGED <<indexVars, run, output, task, decisionVars>>,
         (AnswerOf(q))'
  PROVE  KInv'
<1>1. /\ pc'[q] = phase /\ \A p \in Request \ {q} : pc'[p] = pc[p]
      /\ pc' \in [Request -> Phase]
  BY DEF Goto, KInv, TypeOK
<1>2. AnswerFrame(q)
  BY <1>1 DEF AnswerFrame
<1>3. QED
  BY <1>1, <1>2, LocalStep

LEMMA CheckRequestStep ==
  ASSUME KInv, NEW q \in Request, CheckRequest(q)
  PROVE  KInv'
<1>1. TypeOK /\ AnswerOf(q) /\ Active(q) /\ pc[q] = "checking"
  BY DEF KInv, AnswerInv, Active, CheckRequest
<1>2. CASE Conclude(q, FirstResult(q))
  <2>1. /\ UNCHANGED <<indexVars, run, output, task, decisionVars>> /\ UNCHANGED <<mode, claims, rank>>
        /\ FirstResult(q).action = "none" /\ FirstResult(q).proposal = {}
    BY DEF CheckRequest, FirstResult
  <2>2. QED
    BY <1>1, <1>2, <2>1, FirstResultSound, ConcludeStep DEF TypeOK
<1>3. ASSUME NEW phase \in {"classifying", "reading"}, Goto(q, phase) /\ UNCHANGED result
      PROVE  KInv'
  <2>1. /\ UNCHANGED <<indexVars, run, output, task, decisionVars>> /\ UNCHANGED <<mode, claims, rank>>
    BY DEF CheckRequest
  <2>2. pc'[q] = phase /\ result'[q] = FirstResult(q)
    BY <1>1, <1>3 DEF Goto, TypeOK, AnswerOf, Fresh
  <2>3. (AnswerOf(q))'
    BY <2>2 DEF AnswerOf, Fresh, Searching
  <2>4. QED
    BY <1>1, <1>3, <2>1, <2>3, AdvanceStep DEF TypeOK, Phase
<1>4. QED
  BY <1>2, <1>3 DEF CheckRequest

LEMMA ClassifiedStep ==
  ASSUME KInv, NEW q \in Request, Classified(q)
  PROVE  KInv'
<1>1. /\ TypeOK /\ AnswerOf(q) /\ Active(q) /\ pc[q] = "classifying"
      /\ result[q] = FirstResult(q)
  BY DEF KInv, AnswerInv, AnswerOf, Fresh, Active, Classified
<1>2. /\ UNCHANGED <<indexVars, run, output, task, decisionVars>> /\ UNCHANGED <<claims, rank>>
      /\ mode' \in [Request -> {"answer", "action"}]
  BY <1>1 DEF Classified, TypeOK
<1>3. CASE Goto(q, "reading") /\ UNCHANGED result
  <2>1. pc'[q] = "reading" /\ result'[q] = FirstResult(q)
    BY <1>1, <1>3 DEF Goto, TypeOK
  <2>2. (AnswerOf(q))'
    BY <2>1 DEF AnswerOf, Fresh, Searching
  <2>3. QED
    BY <1>1, <1>2, <1>3, <2>2, AdvanceStep DEF TypeOK, Phase
<1>4. CASE Conclude(q, Stopped(result[q], "completed", "action_intent_unavailable"))
  <2> DEFINE res == Stopped(FirstResult(q), "completed", "action_intent_unavailable")
  <2>1. res \in Result /\ SoundResult(res) /\ Open(res)
    BY FirstResultSound, StoppedSound DEF FirstResult, StopReason
  <2>2. Conclude(q, res)
    BY <1>1, <1>4
  <2> HIDE DEF res
  <2>3. QED
    BY <1>1, <1>2, <2>1, <2>2, ConcludeStep DEF TypeOK, Open
<1>5. QED
  BY <1>3, <1>4 DEF Classified

LEMMA ReadFixtureStep ==
  ASSUME KInv, NEW q \in Request, ReadFixture(q)
  PROVE  KInv'
<1>1. /\ TypeOK /\ AnswerOf(q) /\ Active(q) /\ pc[q] = "reading"
      /\ result[q] = FirstResult(q) /\ fixture \in Fixtures
  BY DEF KInv, TypeOK, IndexTypeOK, AnswerInv, AnswerOf, Fresh, Active, ReadFixture
<1>2. /\ UNCHANGED <<indexVars, run, output, task, decisionVars>>
      /\ UNCHANGED <<mode, claims, rank>> /\ Goto(q, "searching")
  BY DEF ReadFixture
<1>3. /\ result'[q] = [FirstResult(q) EXCEPT !.under = fixture] /\ pc'[q] = "searching"
      /\ \A p \in Request \ {q} : result'[p] = result[p]
      /\ DOMAIN result' = Request
  BY <1>1 DEF ReadFixture, TypeOK, Goto
<1>4. /\ [FirstResult(q) EXCEPT !.under = fixture] \in Result
      /\ [FirstResult(q) EXCEPT !.under = fixture].under = fixture
  BY <1>1, FirstResultSound DEF Result
<1>5. result' \in [Request -> Result]
  BY <1>1, <1>3, <1>4 DEF ReadFixture, TypeOK
<1>6. (AnswerOf(q))'
  BY <1>1, <1>3, <1>4 DEF AnswerOf, Fresh, Searching
<1>7. QED
  BY <1>1, <1>2, <1>3, <1>5, <1>6, AdvanceStep DEF TypeOK, Phase

\* A request that searches has a fresh result, but for the corpus it has loaded.
LEMMA SearchingFacts ==
  ASSUME KInv, NEW q \in Request, pc[q] = "searching"
  PROVE  /\ TypeOK /\ IndexInv /\ Active(q) /\ result[q] \in Result /\ Open(result[q])
         /\ result[q].under \in Fixtures /\ result[q].requester = PersonaOf[q]
         /\ result[q].evidence = {}
<1>1. TypeOK /\ IndexInv /\ AnswerOf(q) /\ Active(q)
  BY DEF KInv, AnswerInv, Active
<1>2. /\ result[q].under \in Fixtures
      /\ result[q] = [FirstResult(q) EXCEPT !.under = result[q].under]
  BY <1>1 DEF AnswerOf
<1> DEFINE under == result[q].under
<1> HIDE DEF under
<1>3. result[q] = [FirstResult(q) EXCEPT !.under = under]
  BY <1>2 DEF under
<1>4. /\ result[q].offered = {} /\ result[q].proposal = {} /\ result[q].action = "none"
      /\ result[q].evidence = {} /\ result[q].requester = PersonaOf[q]
  BY <1>3 DEF FirstResult
<1>5. QED
  BY <1>1, <1>2, <1>4 DEF Open, TypeOK

LEMMA SearchFailsStep ==
  ASSUME KInv, NEW q \in Request, SearchFails(q)
  PROVE  KInv'
<1>1. /\ TypeOK /\ Active(q) /\ result[q] \in Result /\ Open(result[q])
      /\ result[q].evidence = {}
  BY SearchingFacts DEF SearchFails
<1>2. /\ UNCHANGED <<indexVars, run, output, task, decisionVars>> /\ UNCHANGED <<mode, claims, rank>>
      /\ pc[q] = "searching"
      /\ Conclude(q, Stopped(result[q], "failed", "retrieval_error"))
  BY DEF SearchFails
<1> DEFINE res == Stopped(result[q], "failed", "retrieval_error")
<1>3. res \in Result /\ SoundResult(res) /\ Open(res)
  BY <1>1, StoppedSound DEF StopReason
<1>4. Conclude(q, res)
  BY <1>2
<1> HIDE DEF res
<1>5. QED
  BY <1>1, <1>2, <1>3, <1>4, ConcludeStep DEF TypeOK, Open

\* The result of a search is in hand, and a model is asked next.
LEMMA SearchedStep ==
  ASSUME KInv, NEW q \in Request, NEW res, res \in Result, FoundInv(res), Open(res),
         res.requester = PersonaOf[q], pc[q] = "searching",
         NEW phase \in {"answering", "proposing"}, phase = "proposing" => ActionInv(res),
         Goto(q, phase), result' = [result EXCEPT ![q] = res],
         UNCHANGED <<indexVars, run, output, task, decisionVars>>, UNCHANGED <<mode, claims, rank>>
  PROVE  KInv'
<1>1. TypeOK /\ Active(q)
  BY DEF KInv, Active
<1>2. /\ pc'[q] = phase /\ result'[q] = res /\ result' \in [Request -> Result]
      /\ \A p \in Request \ {q} : result'[p] = result[p]
  BY <1>1 DEF Goto, TypeOK
<1>3. (AnswerOf(q))'
  BY <1>2 DEF AnswerOf, Fresh, Searching
<1>4. QED
  BY <1>1, <1>2, <1>3, AdvanceStep DEF TypeOK, Phase

LEMMA SearchAnswerStep ==
  ASSUME KInv, NEW q \in Request, SearchAnswer(q)
  PROVE  KInv'
<1>1. /\ TypeOK /\ IndexInv /\ Active(q) /\ result[q] \in Result /\ Open(result[q])
      /\ result[q].under \in Fixtures /\ result[q].requester = PersonaOf[q]
  BY SearchingFacts DEF SearchAnswer
<1>2. /\ UNCHANGED <<indexVars, run, output, task, decisionVars>> /\ UNCHANGED <<mode, claims, rank>>
      /\ pc[q] = "searching" /\ Searchable(q)
  BY DEF SearchAnswer
<1>3. PICK found \in SUBSET Authorized(Loaded, result[q].under, PersonaOf[q]) :
        LET res == Searched(q, found) IN
          IF res.evidence = {}
          THEN Conclude(q, Stopped(res, "completed", "no_relevant_passage"))
          ELSE Goto(q, "answering") /\ result' = [result EXCEPT ![q] = res]
  BY DEF SearchAnswer
<1> DEFINE res == Searched(q, found)
<1>4. res \in Result /\ FoundInv(res) /\ Open(res) /\ res.requester = PersonaOf[q]
  BY <1>1, <1>2, SearchFound
<1>5. \/ Conclude(q, Stopped(res, "completed", "no_relevant_passage"))
      \/ Goto(q, "answering") /\ result' = [result EXCEPT ![q] = res]
  BY <1>3
<1> HIDE DEF res
<1>6. CASE Conclude(q, Stopped(res, "completed", "no_relevant_passage"))
  <2> DEFINE out == Stopped(res, "completed", "no_relevant_passage")
  <2>1. out \in Result /\ SoundResult(out) /\ Open(out)
    BY <1>4, StoppedSound DEF StopReason
  <2>2. Conclude(q, out)
    BY <1>6
  <2> HIDE DEF out
  <2>3. QED
    BY <1>1, <1>2, <2>1, <2>2, ConcludeStep DEF TypeOK, Open
<1>7. CASE Goto(q, "answering") /\ result' = [result EXCEPT ![q] = res]
  BY <1>2, <1>4, <1>7, SearchedStep
<1>8. QED
  BY <1>5, <1>6, <1>7

LEMMA SearchActionStep ==
  ASSUME KInv, NEW q \in Request, SearchAction(q)
  PROVE  KInv'
<1>1. /\ TypeOK /\ IndexInv /\ Active(q) /\ result[q] \in Result /\ Open(result[q])
      /\ result[q].under \in Fixtures /\ result[q].requester = PersonaOf[q]
  BY SearchingFacts DEF SearchAction
<1>2. /\ UNCHANGED <<indexVars, run, output, task, decisionVars>> /\ UNCHANGED <<mode, claims, rank>>
      /\ pc[q] = "searching" /\ mode[q] = "action" /\ Searchable(q)
  BY DEF SearchAction
<1>3. PICK found \in SUBSET Authorized(Loaded, result[q].under, PersonaOf[q]) :
        LET res == Searched(q, found) IN
          IF Support \in Groups(res.under, PersonaOf[q]) /\ res.evidence # {}
          THEN Goto(q, "proposing") /\ result' = [result EXCEPT ![q] = res]
          ELSE Conclude(q, [Stopped(res, "completed", "action_policy_blocked")
                            EXCEPT !.action = "blocked"])
  BY DEF SearchAction
<1> DEFINE res == Searched(q, found)
<1>4. /\ res \in Result /\ FoundInv(res) /\ Open(res) /\ res.requester = PersonaOf[q]
      /\ res.evidence = Tickets(res.under, res.evidence)
  BY <1>1, <1>2, SearchFound
<1>5. \/ Conclude(q, [Stopped(res, "completed", "action_policy_blocked")
                      EXCEPT !.action = "blocked"])
      \/ /\ Goto(q, "proposing") /\ result' = [result EXCEPT ![q] = res]
         /\ Support \in Groups(res.under, PersonaOf[q])
  BY <1>3
<1> HIDE DEF res
<1>6. CASE Conclude(q, [Stopped(res, "completed", "action_policy_blocked")
                        EXCEPT !.action = "blocked"])
  <2> DEFINE out == [Stopped(res, "completed", "action_policy_blocked")
                     EXCEPT !.action = "blocked"]
  <2>1. out \in Result /\ SoundResult(out)
    BY <1>4, StoppedSound DEF StopReason
  <2>2. out.action = "blocked" /\ out.proposal = {}
    BY <1>4 DEF Stopped, Result, Open
  <2>3. Conclude(q, out)
    BY <1>6
  <2> HIDE DEF out
  <2>4. QED
    BY <1>1, <1>2, <2>1, <2>2, <2>3, ConcludeStep DEF TypeOK
<1>7. CASE /\ Goto(q, "proposing") /\ result' = [result EXCEPT ![q] = res]
           /\ Support \in Groups(res.under, PersonaOf[q])
  <2>1. ActionInv(res)
    BY <1>4, <1>7 DEF ActionInv
  <2>2. QED
    BY <1>2, <1>4, <1>7, <2>1, SearchedStep
<1>8. QED
  BY <1>5, <1>6, <1>7

\* A request that waits for a model has a result that evidence was found for.
LEMMA ModelFacts ==
  ASSUME KInv, NEW q \in Request, Searching(q)
  PROVE  /\ TypeOK /\ Active(q) /\ result[q] \in Result /\ Open(result[q])
         /\ FoundInv(result[q]) /\ pc[q] # "starting"
         /\ pc[q] = "proposing" => ActionInv(result[q])
BY DEF KInv, TypeOK, AnswerInv, AnswerOf, Searching, Active

LEMMA ProposedStep ==
  ASSUME KInv, NEW q \in Request, Proposed(q)
  PROVE  KInv'
<1>1. /\ TypeOK /\ Active(q) /\ result[q] \in Result /\ Open(result[q])
      /\ FoundInv(result[q]) /\ ActionInv(result[q]) /\ pc[q] # "starting"
  BY ModelFacts DEF Proposed, Searching
<1>2. UNCHANGED <<indexVars, run, output, task, decisionVars>> /\ UNCHANGED <<mode, claims, rank>>
  BY DEF Proposed
<1> DEFINE res == result[q]
           failed == Stopped(res, "failed", "action_proposal_error")
           blocked == [Stopped(res, "failed", "action_policy_blocked")
                       EXCEPT !.action = "blocked"]
<1>3. /\ failed \in Result /\ SoundResult(failed) /\ Open(failed)
      /\ blocked \in Result /\ SoundResult(blocked)
  BY <1>1, StoppedSound DEF StopReason
<1>4. blocked.action = "blocked" /\ blocked.proposal = {}
  BY <1>1 DEF Stopped, Result, Open
<1>5. ASSUME NEW ids \in (SUBSET Cited(res.evidence)) \ {{}}, NEW out, Conclude(q, out),
             out = [Stopped(res, "completed", "action_proposal_pending")
                    EXCEPT !.action = "pending_approval", !.proposal = ids]
      PROVE  KInv'
  <2>1. out \in Result /\ SoundResult(out)
    BY <1>1, <1>5, ProposalSound
  <2>2. out.action = "pending_approval"
    BY <1>1, <1>5 DEF Stopped, Result
  <2>3. QED
    BY <1>1, <1>2, <1>5, <2>1, <2>2, ConcludeStep DEF TypeOK
<1>6. \/ Conclude(q, failed) \/ Conclude(q, blocked)
      \/ \E ids \in (SUBSET Cited(res.evidence)) \ {{}} :
           Conclude(q, [Stopped(res, "completed", "action_proposal_pending")
                        EXCEPT !.action = "pending_approval", !.proposal = ids])
  BY DEF Proposed
<1> HIDE DEF failed, blocked, res
<1>7. CASE Conclude(q, failed)
  BY <1>1, <1>2, <1>3, <1>7, ConcludeStep DEF TypeOK, Open
<1>8. CASE Conclude(q, blocked)
  BY <1>1, <1>2, <1>3, <1>4, <1>8, ConcludeStep DEF TypeOK
<1>9. QED
  BY <1>5, <1>6, <1>7, <1>8

LEMMA AnsweredStep ==
  ASSUME KInv, NEW q \in Request, Answered(q)
  PROVE  KInv'
<1>1. /\ TypeOK /\ Active(q) /\ result[q] \in Result /\ Open(result[q])
      /\ FoundInv(result[q]) /\ pc[q] # "starting" /\ pc[q] = "answering"
  BY ModelFacts DEF Answered, Searching
<1>2. UNCHANGED <<indexVars, run, output, task, decisionVars>> /\ UNCHANGED <<mode, rank>>
  BY DEF Answered
<1>3. /\ claims' \in [Request -> Drafts \cup {<<>>}]
      /\ \A p \in Request \ {q} : claims'[p] = claims[p]
  BY <1>1 DEF Answered, TypeOK
<1>4. ASSUME NEW status \in {"completed", "failed"}, NEW reason \in StopReason,
             Conclude(q, Stopped(result[q], status, reason))
      PROVE  KInv'
  <2> DEFINE res == Stopped(result[q], status, reason)
  <2>1. res \in Result /\ SoundResult(res) /\ Open(res)
    BY <1>1, StoppedSound
  <2>2. Conclude(q, res)
    BY <1>4
  <2> HIDE DEF res
  <2>3. QED
    BY <1>1, <1>2, <1>3, <2>1, <2>2, ConcludeStep DEF TypeOK, Open
<1>5. ASSUME NEW drafted \in Drafts, claims' = [claims EXCEPT ![q] = drafted],
             \A i \in DOMAIN drafted : ClaimHolds(drafted[i], result[q]),
             Goto(q, "grounding"), UNCHANGED result
      PROVE  KInv'
  <2>1. pc'[q] = "grounding" /\ result'[q] = result[q] /\ claims'[q] = drafted
    BY <1>1, <1>3, <1>5 DEF Goto, TypeOK
  <2>2. result[q].requester = PersonaOf[q]
    BY <1>1 DEF KInv, AnswerInv, AnswerOf, Searching
  <2>3. \A i \in DOMAIN claims'[q] : ClaimHolds(claims'[q][i], result'[q])
    BY <1>5, <2>1
  <2>4. (AnswerOf(q))'
    BY <1>1, <2>1, <2>2, <2>3 DEF AnswerOf, Fresh, Searching
  <2>5. QED
    BY <1>1, <1>2, <1>3, <1>5, <2>4, AdvanceStep DEF TypeOK, Phase
<1>6. QED
  BY <1>4, <1>5 DEF Answered, StopReason

LEMMA JudgedStep ==
  ASSUME KInv, NEW q \in Request, Judged(q)
  PROVE  KInv'
<1>1. /\ TypeOK /\ Active(q) /\ result[q] \in Result /\ Open(result[q])
      /\ FoundInv(result[q]) /\ pc[q] # "starting" /\ pc[q] = "grounding" /\ AnswerOf(q)
  BY ModelFacts DEF Judged, Searching, KInv, AnswerInv
<1>2. /\ UNCHANGED <<indexVars, run, output, task, decisionVars>> /\ UNCHANGED <<mode, claims>>
      /\ rank' \in [Request -> Nat]
  BY <1>1 DEF Judged, TypeOK
<1>3. ASSUME NEW reason \in {"grounding_rejected", "grounding_unavailable"},
             Conclude(q, Stopped(result[q], "completed", reason))
      PROVE  KInv'
  <2> DEFINE res == Stopped(result[q], "completed", reason)
  <2>1. res \in Result /\ SoundResult(res) /\ Open(res)
    BY <1>1, StoppedSound DEF StopReason
  <2>2. Conclude(q, res)
    BY <1>3
  <2> HIDE DEF res
  <2>3. QED
    BY <1>1, <1>2, <2>1, <2>2, ConcludeStep DEF TypeOK, Open
<1>4. CASE UNCHANGED <<pc, result>>
  <2>1. (AnswerOf(q))'
    BY <1>1, <1>2, <1>4 DEF AnswerOf, Fresh, Searching
  <2>2. Goto(q, "grounding")
    BY <1>1, <1>4 DEF Goto, TypeOK
  <2>3. QED
    BY <1>1, <1>2, <1>4, <2>1, <2>2, AdvanceStep DEF TypeOK, Phase
<1> DEFINE cited == UNION {claims[q][i] : i \in DOMAIN claims[q]}
           out == [Stopped(result[q], "completed", "answered")
                   EXCEPT !.claims = cited, !.offered = Offered(result[q], cited)]
<1>5. CASE Conclude(q, out)
  <2>1. cited \in SUBSET Source
    BY <1>1, CitedSources DEF AnswerOf
  <2> HIDE DEF cited
  <2>2. out \in Result /\ SoundResult(out) /\ out.action = "none" /\ out.proposal = {}
    BY <1>1, <2>1, AnswerSound
  <2> HIDE DEF out
  <2>3. QED
    BY <1>1, <1>2, <1>5, <2>2, ConcludeStep DEF TypeOK
<1>6. QED
  BY <1>3, <1>4, <1>5 DEF Judged

\* The end of an answer: the first output of a run that only this request works on.
LEMMA SaveOutputStep ==
  ASSUME KInv, NEW q \in Request, SaveOutput(q)
  PROVE  KInv'
<1> DEFINE r == RunOf[q]
           res == result[q]
<1>1. /\ TypeOK /\ AnswerOf(q) /\ pc[q] = "saving" /\ Active(q) /\ r \in Run /\ run[r] = "running"
      /\ res \in Result
  BY KnowledgeAssumption DEF KInv, TypeOK, AnswerInv, Active, SaveOutput
<1>2. SoundResult(res) /\ res.action \in {"none", "pending_approval", "blocked"}
      /\ (res.proposal # {} => res.action = "pending_approval")
      /\ res.status \in {"completed", "failed"}
  BY <1>1 DEF AnswerOf, Result
<1>3. output[r] = None /\ task[r] = None
  BY <1>1 DEF KInv, Accounts, R!Terminal
<1>4. UNCHANGED <<indexVars, task, decisionVars>> /\ Leave(q)
      /\ output' = [output EXCEPT ![r] = res] /\ run' = [run EXCEPT ![r] = res.status]
  BY DEF SaveOutput
<1> HIDE DEF r, res
<1>5. /\ output'[r] = res /\ run'[r] = res.status /\ DOMAIN output' = Run
      /\ \A x \in Run \ {r} : output'[x] = output[x] /\ run'[x] = run[x]
      /\ run' \in [Run -> R!Status]
  BY <1>1, <1>2, <1>4 DEF TypeOK, R!Status
<1>6. /\ pc' \in [Request -> Phase] /\ mode' \in [Request -> {"answer", "action"}]
      /\ result' \in [Request -> Result] /\ rank' \in [Request -> Nat]
      /\ claims' \in [Request -> Drafts \cup {<<>>}]
      /\ \A p \in Request \ {q} :
           pc'[p] = pc[p] /\ result'[p] = result[p] /\ claims'[p] = claims[p]
      /\ pc'[q] = "done" /\ result'[q] = FirstResult(q)
  BY <1>4, LeaveFrame
<1>7. \A p \in Request \ {q} : Active(p) => RunOf[p] # r
  BY <1>1 DEF KInv, OwnerInv, r
<1>8. IndexInv'
  BY <1>4 DEF KInv, IndexInv, indexVars, IndexTypeOK, DraftInv, HasSnapshot, DiskInv, FileInv,
              AloneInv, Opened
<1>9. TypeOK'
  BY <1>1, <1>4, <1>5, <1>6, <1>8 DEF TypeOK, IndexInv, decisionVars
<1>10. AnswerInv'
  <2>1. ASSUME NEW p \in Request \ {q} PROVE (AnswerOf(p))'
    <3>1. AnswerOf(p) /\ pc'[p] = pc[p] /\ result'[p] = result[p] /\ claims'[p] = claims[p]
      BY <1>6 DEF KInv, AnswerInv
    <3>2. pc[p] = "grounding" =>
            \A i \in DOMAIN claims'[p] : ClaimHolds(claims'[p][i], result'[p])
      BY <3>1 DEF AnswerOf
    <3>3. QED
      BY <3>1, <3>2 DEF AnswerOf, Fresh, Searching
  <2>2. (AnswerOf(q))'
    BY <1>6 DEF AnswerOf, Fresh, Searching
  <2>3. QED
    BY <2>1, <2>2 DEF AnswerInv
<1>11. OutputInv'
  BY <1>2, <1>5 DEF KInv, OutputInv
<1>12. OwnerInv'
  <2>1. \A p \in Request : (Active(p))' => p # q /\ Active(p) /\ pc'[p] = pc[p] /\ RunOf[p] # r
    BY <1>6, <1>7 DEF Active
  <2>2. \A p \in Request : (Active(p))' => run'[RunOf[p]] = run[RunOf[p]]
    BY <1>5, <2>1, KnowledgeAssumption
  <2>3. QED
    BY <2>1, <2>2 DEF KInv, OwnerInv
<1>13. DealInv'
  <2>1. \A d \in Decision : stage[d] = "deciding" => deal[d].run \in Run \ {r}
    BY <1>3 DEF KInv, DealInv, DealOf, HasProposal, Deal
  <2>2. QED
    BY <1>4, <1>5, <2>1 DEF KInv, DealInv, DealOf, decisionVars, HasProposal
<1>14. Accounts'
  <2>1. output'[r] # None /\ output'[r].action # "executed" /\ task'[r] = None
    BY <1>1, <1>2, <1>3, <1>4, <1>5, RowAssumption
  <2>2. \A x \in Run \ {r} : output'[x] = output[x] /\ run'[x] = run[x] /\ task'[x] = task[x]
    BY <1>4, <1>5
  <2>3. QED
    BY <1>2, <1>5, <2>1, <2>2 DEF KInv, Accounts, R!Terminal
<1>15. QED
  BY <1>8, <1>9, <1>10, <1>11, <1>12, <1>13, <1>14 DEF KInv

-----------------------------------------------------------------------------------
(* Decisions.                                                                      *)

\* Decisions leave runs, answers and the index alone.
LEMMA DecisionFrame ==
  ASSUME KInv, UNCHANGED <<indexVars, run, answerVars>>
  PROVE  /\ IndexInv' /\ AnswerInv' /\ OwnerInv'
         /\ (DOMAIN output' = Run /\ \A r \in Run : output'[r] = None \/ output'[r] \in Result)
              /\ (DOMAIN task' = Run /\ \A r \in Run : task'[r] = None \/ task'[r] \in Task)
              /\ lock' \in [Run -> Decision \cup {None}] /\ stage' \in [Decision -> Stage]
              /\ DOMAIN deal' = Decision => TypeOK'
<1>1. IndexInv'
  BY DEF KInv, IndexInv, indexVars, IndexTypeOK, DraftInv, HasSnapshot, DiskInv, FileInv,
         AloneInv, Opened
<1>2. AnswerInv' /\ OwnerInv'
  BY DEF KInv, AnswerInv, AnswerOf, Fresh, Searching, OwnerInv, Active, answerVars
<1>3. (DOMAIN output' = Run /\ \A r \in Run : output'[r] = None \/ output'[r] \in Result)
        /\ (DOMAIN task' = Run /\ \A r \in Run : task'[r] = None \/ task'[r] \in Task)
        /\ lock' \in [Run -> Decision \cup {None}] /\ stage' \in [Decision -> Stage]
        /\ DOMAIN deal' = Decision => TypeOK'
  BY <1>1 DEF KInv, TypeOK, IndexInv, answerVars
<1>4. QED
  BY <1>1, <1>2, <1>3

\* What a decision relies on, when neither it nor what it has read and locked changes.
LEMMA DealFrame ==
  ASSUME NEW e, DealOf(e), stage'[e] = stage[e], deal'[e] = deal[e],
         stage[e] = "deciding" =>
           LET r == deal[e].run IN
             lock'[r] = e /\ output'[r] = output[r] /\ task'[r] = task[r]
  PROVE  (DealOf(e))'
BY DEF DealOf, HasProposal

LEMMA ArriveStep ==
  ASSUME KInv, NEW d \in Decision, ArriveDecision(d)
  PROVE  KInv'
<1>1. /\ TypeOK /\ UNCHANGED <<indexVars, run, output, task, answerVars, lock>>
      /\ fixture \in Fixtures
  BY DEF KInv, TypeOK, IndexTypeOK, ArriveDecision
<1>2. /\ deal'[d] \in Deal /\ stage'[d] = "locking" /\ DOMAIN deal' = Decision
      /\ stage' \in [Decision -> Stage]
      /\ \A e \in Decision \ {d} : stage'[e] = stage[e] /\ deal'[e] = deal[e]
  BY <1>1, KnowledgeAssumption DEF ArriveDecision, Deal, TypeOK, Stage
<1>3. DealInv'
  BY <1>1, <1>2 DEF KInv, DealInv, DealOf, HasProposal
<1>4. OutputInv' /\ Accounts'
  BY <1>1 DEF KInv, OutputInv, Accounts
<1>5. TypeOK' /\ IndexInv' /\ AnswerInv' /\ OwnerInv'
  BY <1>1, <1>2, DecisionFrame DEF TypeOK
<1>6. QED
  BY <1>3, <1>4, <1>5 DEF KInv

LEMMA DecideNothingStep ==
  ASSUME KInv, NEW d \in Decision, DecideNothing(d)
  PROVE  KInv'
<1>1. TypeOK /\ UNCHANGED <<indexVars, run, output, task, answerVars, lock>>
  BY DEF KInv, DecideNothing
<1>2. /\ stage'[d] = "done" /\ DOMAIN deal' = Decision /\ stage' \in [Decision -> Stage]
      /\ \A e \in Decision \ {d} : stage'[e] = stage[e] /\ deal'[e] = deal[e]
  BY <1>1 DEF DecideNothing, TypeOK, Stage
<1>3. DealInv'
  BY <1>1, <1>2 DEF KInv, DealInv, DealOf, HasProposal
<1>4. OutputInv' /\ Accounts'
  BY <1>1 DEF KInv, OutputInv, Accounts
<1>5. TypeOK' /\ IndexInv' /\ AnswerInv' /\ OwnerInv'
  BY <1>1, <1>2, DecisionFrame DEF TypeOK
<1>6. QED
  BY <1>3, <1>4, <1>5 DEF KInv

LEMMA LockOutputStep ==
  ASSUME KInv, NEW d \in Decision, LockOutput(d)
  PROVE  KInv'
<1> DEFINE r == deal[d].run
<1>1. /\ TypeOK /\ UNCHANGED <<indexVars, run, output, task, answerVars>>
      /\ deal[d] \in Deal /\ r \in Run /\ lock[r] = None /\ HasProposal(r)
  BY DEF KInv, DealInv, DealOf, Deal, LockOutput
<1>2. /\ deal'[d] = [deal[d] EXCEPT !.seen = output[r], !.repeated = task[r] # None]
      /\ DOMAIN deal' = Decision /\ stage'[d] = "deciding" /\ stage' \in [Decision -> Stage]
      /\ \A e \in Decision \ {d} : stage'[e] = stage[e] /\ deal'[e] = deal[e]
      /\ lock'[r] = d /\ \A x \in Run \ {r} : lock'[x] = lock[x]
      /\ lock' \in [Run -> Decision \cup {None}]
  BY <1>1 DEF LockOutput, TypeOK, Stage
<1> HIDE DEF r
<1>3. output[r] \in Result \cup {None}
  BY <1>1 DEF TypeOK
<1>4. /\ deal'[d] \in Deal /\ deal'[d].run = r /\ deal'[d].seen = output[r]
      /\ deal'[d].repeated = (task[r] # None)
  BY <1>1, <1>2, <1>3 DEF Deal, r
<1>5. \A e \in Decision : stage[e] = "deciding" =>
        deal[e].run \in Run \ {r} /\ lock[deal[e].run] = e
  BY <1>1, KnowledgeAssumption DEF KInv, DealInv, DealOf, Deal
<1>6. DealInv'
  <2>1. ASSUME NEW e \in Decision \ {d} PROVE (DealOf(e))'
    BY <1>1, <1>2, <1>5, DealFrame DEF KInv, DealInv
  <2>2. (DealOf(d))'
    BY <1>1, <1>2, <1>4 DEF DealOf, HasProposal
  <2>3. QED
    BY <2>1, <2>2 DEF DealInv
<1>7. OutputInv' /\ Accounts'
  BY <1>1 DEF KInv, OutputInv, Accounts
<1>8. TypeOK' /\ IndexInv' /\ AnswerInv' /\ OwnerInv'
  BY <1>1, <1>2, DecisionFrame DEF TypeOK
<1>9. QED
  BY <1>6, <1>7, <1>8 DEF KInv

\* A decision that holds the row lock, and what it has read under it.
LEMMA DecidingFacts ==
  ASSUME KInv, NEW d \in Decision, stage[d] = "deciding"
  PROVE  /\ deal[d] \in Deal /\ deal[d].run \in Run /\ lock[deal[d].run] = d
         /\ deal[d].seen = output[deal[d].run] /\ output[deal[d].run] \in Result
         /\ deal[d].repeated <=> task[deal[d].run] # None
         /\ SoundResult(output[deal[d].run]) /\ output[deal[d].run].proposal # {}
         /\ output[deal[d].run].action # "none"
BY DEF KInv, TypeOK, DealInv, DealOf, Deal, HasProposal, OutputInv

\* What the end of a decision does to the decisions: the lock goes to nobody.
LEMMA EndFrame ==
  ASSUME KInv, NEW d \in Decision, stage[d] = "deciding", EndDecision(d)
  PROVE  /\ UNCHANGED <<indexVars, run, answerVars>>
         /\ stage'[d] = "done" /\ stage' \in [Decision -> Stage] /\ DOMAIN deal' = Decision
         /\ \A e \in Decision \ {d} : stage'[e] = stage[e] /\ deal'[e] = deal[e]
         /\ lock' \in [Run -> Decision \cup {None}]
         /\ \A e \in Decision \ {d} : stage[e] = "deciding" =>
              /\ deal[e].run \in Run \ {deal[d].run}
              /\ lock'[deal[e].run] = e
<1>1. TypeOK /\ deal[d].run \in Run /\ lock[deal[d].run] = d
  BY DecidingFacts DEF KInv
<1>2. \A e \in Decision : stage[e] = "deciding" => deal[e].run \in Run /\ lock[deal[e].run] = e
  BY DecidingFacts
<1>3. /\ lock' \in [Run -> Decision \cup {None}]
      /\ \A r \in Run \ {deal[d].run} : lock'[r] = lock[r]
  BY <1>1 DEF EndDecision, TypeOK
<1>4. QED
  BY <1>1, <1>2, <1>3 DEF EndDecision, TypeOK, Stage

\* A decision that holds the row lock commits what it has made of the proposal: the other
\* decisions that have read anything hold other rows.
LEMMA CommitStep ==
  ASSUME KInv, NEW d \in Decision, stage[d] = "deciding", NEW r, r = deal[d].run,
         NEW out \in Result, Commit(d, out),
         SoundResult(out), out.proposal # {}, out.action # "none",
         out.status = output[r].status,
         DOMAIN task' = Run, \A x \in Run \ {r} : task'[x] = task[x],
         (task'[r] # None) <=> (out.action = "executed"),
         task'[r] # None => /\ task'[r] \in Task /\ task'[r].source \in out.proposal
                            /\ ScopeStillValid(task'[r].under, out, out.proposal)
  PROVE  KInv'
<1>1. TypeOK /\ r \in Run /\ output[r] \in Result
  BY DecidingFacts DEF KInv
<1>2. EndDecision(d) /\ output' = [output EXCEPT ![r] = out]
  BY DEF Commit
<1>3. /\ UNCHANGED <<indexVars, run, answerVars>>
      /\ stage'[d] = "done" /\ stage' \in [Decision -> Stage] /\ DOMAIN deal' = Decision
      /\ \A e \in Decision \ {d} : stage'[e] = stage[e] /\ deal'[e] = deal[e]
      /\ lock' \in [Run -> Decision \cup {None}]
      /\ \A e \in Decision \ {d} : stage[e] = "deciding" =>
           deal[e].run \in Run \ {r} /\ lock'[deal[e].run] = e
  BY <1>2, EndFrame
<1>4. /\ output'[r] = out /\ DOMAIN output' = Run
      /\ \A x \in Run \ {r} : output'[x] = output[x]
  BY <1>1, <1>2 DEF TypeOK
<1>5. IndexInv' /\ AnswerInv' /\ OwnerInv' /\ TypeOK'
  <2>1. /\ \A x \in Run : output'[x] = None \/ output'[x] \in Result
        /\ \A x \in Run : task'[x] = None \/ task'[x] \in Task
    BY <1>1, <1>4 DEF TypeOK
  <2>2. QED
    BY <1>3, <1>4, <2>1, DecisionFrame
<1>6. OutputInv'
  BY <1>4 DEF KInv, OutputInv
<1>7. DealInv'
  <2>1. ASSUME NEW e \in Decision \ {d} PROVE (DealOf(e))'
    BY <1>3, <1>4, DealFrame DEF KInv, DealInv
  <2>2. (DealOf(d))'
    BY <1>3 DEF DealOf
  <2>3. QED
    BY <2>1, <2>2 DEF DealInv
<1>8. Accounts'
  <2>1. ASSUME NEW x \in Run \ {r}
        PROVE  output'[x] = output[x] /\ run'[x] = run[x] /\ task'[x] = task[x]
    BY <1>3, <1>4
  <2>2. output[r] # None /\ out # None /\ run'[r] = run[r]
    BY <1>1, <1>3, RowAssumption
  <2>3. run[r] \in R!Terminal /\ output[r].status = run[r]
    BY <1>1, <2>2 DEF KInv, Accounts
  <2>4. /\ output'[r] # None /\ run'[r] \in R!Terminal /\ output'[r].status = run'[r]
        /\ (task'[r] # None) <=> (output'[r].action = "executed")
        /\ task'[r] # None => /\ task'[r].source \in output'[r].proposal
                              /\ ScopeStillValid(task'[r].under, output'[r], output'[r].proposal)
    BY <1>4, <2>2, <2>3 DEF R!Terminal
  <2>5. QED
    BY <2>1, <2>4 DEF KInv, Accounts, R!Terminal
<1>9. QED
  BY <1>5, <1>6, <1>7, <1>8 DEF KInv

LEMMA RollBackStep ==
  ASSUME KInv, NEW d \in Decision, RollBack(d)
  PROVE  KInv'
<1>1. TypeOK /\ stage[d] = "deciding" /\ EndDecision(d) /\ UNCHANGED <<output, task>>
  BY DEF KInv, RollBack
<1>2. /\ UNCHANGED <<indexVars, run, answerVars>>
      /\ stage'[d] = "done" /\ stage' \in [Decision -> Stage] /\ DOMAIN deal' = Decision
      /\ \A e \in Decision \ {d} : stage'[e] = stage[e] /\ deal'[e] = deal[e]
      /\ lock' \in [Run -> Decision \cup {None}]
      /\ \A e \in Decision \ {d} : stage[e] = "deciding" => lock'[deal[e].run] = e
  BY <1>1, EndFrame
<1>3. IndexInv' /\ AnswerInv' /\ OwnerInv' /\ TypeOK'
  BY <1>1, <1>2, DecisionFrame DEF TypeOK
<1>4. OutputInv' /\ Accounts'
  BY <1>1, <1>2 DEF KInv, OutputInv, Accounts
<1>5. DealInv'
  <2>1. ASSUME NEW e \in Decision \ {d} PROVE (DealOf(e))'
    BY <1>1, <1>2, DealFrame DEF KInv, DealInv
  <2>2. (DealOf(d))'
    BY <1>2 DEF DealOf
  <2>3. QED
    BY <2>1, <2>2 DEF DealInv
<1>6. QED
  BY <1>3, <1>4, <1>5 DEF KInv

\* What the policy of the approval looks at.
SameScope(seen, out) ==
  /\ out.status = seen.status /\ out.proposal = seen.proposal /\ out.under = seen.under
  /\ out.evidence = seen.evidence /\ out.offered = seen.offered
  /\ out.authorized = seen.authorized /\ out.requester = seen.requester

\* A decision that closes or executes a proposal keeps what made it sound.
LEMMA RecordStep ==
  ASSUME KInv, NEW d \in Decision, stage[d] = "deciding", NEW out \in Result,
         NEW seen, seen = deal[d].seen,
         out.action \in {"rejected", "blocked", "executed"}, SameScope(seen, out)
  PROVE  SoundResult(out) /\ out.proposal # {}
<1>1. seen \in Result /\ SoundResult(seen) /\ seen.proposal # {}
  BY DecidingFacts
<1>2. /\ out.status = seen.status /\ out.proposal = seen.proposal /\ out.under = seen.under
      /\ out.evidence = seen.evidence /\ out.offered = seen.offered
      /\ out.authorized = seen.authorized /\ out.requester = seen.requester
  BY DEF SameScope
<1>3. FoundInv(seen) => FoundInv(out)
  BY <1>2 DEF FoundInv
<1>4. \A fix : \A ids : ScopeStillValid(fix, seen, ids) => ScopeStillValid(fix, out, ids)
  BY <1>2 DEF ScopeStillValid
<1>5. QED
  BY <1>1, <1>2, <1>3, <1>4 DEF SoundResult

\* A result with another stop reason.
LEMMA Renamed ==
  ASSUME NEW res \in Result, NEW reason \in StopReason
  PROVE  [res EXCEPT !.stop = reason] \in Result
BY DEF Result

\* A decision that only names its stop reason.
LEMMA RenameStep ==
  ASSUME KInv, NEW d \in Decision, stage[d] = "deciding", NEW seen, seen = deal[d].seen,
         NEW reason \in StopReason, Commit(d, [seen EXCEPT !.stop = reason]), UNCHANGED task
  PROVE  KInv'
<1> DEFINE out == [seen EXCEPT !.stop = reason]
           r == deal[d].run
<1>1. /\ seen = output[r] /\ seen \in Result /\ SoundResult(seen) /\ seen.proposal # {}
      /\ seen.action # "none" /\ TypeOK /\ r \in Run
  BY DecidingFacts DEF KInv
<1>2. out \in Result /\ Commit(d, out)
  BY <1>1, Renamed
<1>3. /\ out.action = seen.action /\ out.status = seen.status /\ out.proposal = seen.proposal
      /\ out.under = seen.under /\ out.evidence = seen.evidence /\ out.offered = seen.offered
      /\ out.authorized = seen.authorized /\ out.requester = seen.requester
  BY <1>1 DEF Result
<1> HIDE DEF out
<1>4. /\ FoundInv(seen) => FoundInv(out)
      /\ \A fix : \A ids : ScopeStillValid(fix, seen, ids) => ScopeStillValid(fix, out, ids)
  <2>1. FoundInv(seen) => FoundInv(out)
    BY <1>3 DEF FoundInv
  <2>2. \A fix : \A ids : ScopeStillValid(fix, seen, ids) => ScopeStillValid(fix, out, ids)
    BY <1>3 DEF ScopeStillValid
  <2>3. QED
    BY <2>1, <2>2
<1>5. SoundResult(out)
  BY <1>1, <1>3, <1>4 DEF SoundResult
<1>6. /\ (task[r] # None) <=> (seen.action = "executed")
      /\ task[r] # None => /\ task[r] \in Task /\ task[r].source \in seen.proposal
                           /\ ScopeStillValid(task[r].under, seen, seen.proposal)
  BY <1>1, RowAssumption DEF KInv, Accounts, TypeOK
<1>7. /\ DOMAIN task' = Run /\ \A x \in Run \ {r} : task'[x] = task[x]
      /\ (task'[r] # None) <=> (out.action = "executed")
      /\ task'[r] # None => /\ task'[r] \in Task /\ task'[r].source \in out.proposal
                            /\ ScopeStillValid(task'[r].under, out, out.proposal)
  BY <1>1, <1>3, <1>4, <1>6 DEF TypeOK
<1> HIDE DEF r
<1>8. r = deal[d].run
  BY DEF r
<1>9. QED
  BY <1>1, <1>2, <1>3, <1>5, <1>7, <1>8, CommitStep

LEMMA DenyStep ==
  ASSUME KInv, NEW d \in Decision, Deny(d)
  PROVE  KInv'
BY RenameStep DEF Deny, StopReason

LEMMA ReplayStep ==
  ASSUME KInv, NEW d \in Decision, Replay(d)
  PROVE  KInv'
BY RenameStep DEF Replay, StopReason

LEMMA OutcomeFields ==
  ASSUME NEW seen \in Result, NEW action \in {"rejected", "blocked", "executed"},
         NEW reason \in StopReason
  PROVE  LET out == [seen EXCEPT !.action = action, !.stop = reason]
         IN  out \in Result /\ out.action = action /\ SameScope(seen, out)
BY DEF Result, SameScope

\* A proposal that is closed had no task, and gets none.
LEMMA CloseStep ==
  ASSUME KInv, NEW d \in Decision, stage[d] = "deciding", Undecided(d),
         NEW action \in {"rejected", "blocked"}, NEW reason \in StopReason,
         Commit(d, [deal[d].seen EXCEPT !.action = action, !.stop = reason]), UNCHANGED task
  PROVE  KInv'
<1> DEFINE r == deal[d].run
           seen == deal[d].seen
           out == [seen EXCEPT !.action = action, !.stop = reason]
<1>1. /\ seen = output[r] /\ seen \in Result /\ r \in Run /\ TypeOK
      /\ seen.action = "pending_approval"
  BY DecidingFacts DEF KInv, Undecided
<1>2. Commit(d, out) /\ seen = deal[d].seen /\ r = deal[d].run
  OBVIOUS
<1> HIDE DEF seen, r
<1>3. out \in Result /\ out.action = action /\ SameScope(seen, out)
  <2>1. action \in {"rejected", "blocked", "executed"}
    OBVIOUS
  <2>2. out = [seen EXCEPT !.action = action, !.stop = reason]
    BY DEF out
  <2> HIDE DEF out
  <2>3. QED
    BY <1>1, <2>1, <2>2 DEF Result, SameScope
<1> HIDE DEF out
<1>4. SoundResult(out) /\ out.proposal # {} /\ out.status = output[r].status
  BY <1>1, <1>2, <1>3, RecordStep DEF SameScope
<1>5. task[r] = None
  BY <1>1 DEF KInv, Accounts
<1>6. DOMAIN task' = Run /\ task'[r] = None /\ \A x \in Run \ {r} : task'[x] = task[x]
  BY <1>1, <1>5 DEF TypeOK
<1>7. QED
  BY <1>2, <1>3, <1>4, <1>6, CommitStep

LEMMA RejectStep ==
  ASSUME KInv, NEW d \in Decision, Reject(d)
  PROVE  KInv'
BY CloseStep DEF Reject, StopReason

LEMMA BlockStep ==
  ASSUME KInv, NEW d \in Decision, Block(d)
  PROVE  KInv'
BY CloseStep DEF Block, StopReason

LEMMA ExecuteStep ==
  ASSUME KInv, NEW d \in Decision, Execute(d)
  PROVE  KInv'
<1> DEFINE r == deal[d].run
           fix == deal[d].under
           seen == deal[d].seen
           out == [seen EXCEPT !.action = "executed", !.stop = "action_executed"]
<1>1. TypeOK /\ stage[d] = "deciding" /\ Undecided(d) /\ Approvable(d)
  BY DEF KInv, Execute
<1>2. /\ seen = output[r] /\ seen \in Result /\ r \in Run /\ fix \in Fixtures
      /\ seen.action = "pending_approval" /\ (deal[d].repeated <=> task[r] # None)
  BY <1>1, DecidingFacts DEF Undecided, Deal
<1>3. out \in Result /\ out.action = "executed" /\ SameScope(seen, out)
  BY <1>2, OutcomeFields DEF StopReason
<1>4. /\ Commit(d, out) /\ seen = deal[d].seen /\ r = deal[d].run
      /\ ScopeStillValid(fix, seen, seen.proposal)
  BY <1>1 DEF Execute, Approvable
<1>5. task[r] = None /\ seen.proposal \subseteq Source
  BY <1>2 DEF KInv, Accounts, Result
<1>6. \E s \in seen.proposal : task' = [task EXCEPT ![r] = [source |-> s, under |-> fix]]
  BY <1>2, <1>5 DEF Execute
<1> HIDE DEF out, seen, r, fix
<1>7. /\ SoundResult(out) /\ out.proposal = seen.proposal /\ out.proposal # {}
      /\ out.status = output[r].status /\ ScopeStillValid(fix, out, out.proposal)
  BY <1>1, <1>2, <1>3, <1>4, RecordStep DEF SameScope, ScopeStillValid
<1>8. PICK s \in seen.proposal : task' = [task EXCEPT ![r] = [source |-> s, under |-> fix]]
  BY <1>6
<1>9. /\ DOMAIN task' = Run /\ task'[r] = [source |-> s, under |-> fix]
      /\ \A x \in Run \ {r} : task'[x] = task[x]
  BY <1>1, <1>2, <1>8 DEF TypeOK
<1>10. /\ task'[r] \in Task /\ task'[r] # None /\ task'[r].source \in out.proposal
       /\ ScopeStillValid(task'[r].under, out, out.proposal)
  BY <1>2, <1>5, <1>7, <1>9, RowAssumption DEF Task
<1>11. QED
  BY <1>1, <1>3, <1>4, <1>7, <1>9, <1>10, CommitStep

-----------------------------------------------------------------------------------
(* The invariant.                                                                  *)

LEMMA IndexStep ==
  ASSUME KInv, [IndexNext]_indexVars, UNCHANGED <<run, output, task, answerVars, decisionVars>>
  PROVE  KInv'
<1>1. IndexInv'
  BY NextIndexInv DEF KInv
<1>2. TypeOK'
  BY <1>1 DEF KInv, TypeOK, IndexInv, answerVars, decisionVars
<1>3. AnswerInv' /\ OwnerInv'
  BY DEF KInv, AnswerInv, AnswerOf, Fresh, Searching, OwnerInv, Active, answerVars
<1>4. OutputInv' /\ DealInv' /\ Accounts'
  BY DEF KInv, OutputInv, DealInv, DealOf, HasProposal, Accounts, decisionVars
<1>5. QED
  BY <1>1, <1>2, <1>3, <1>4 DEF KInv

LEMMA NextKInv == KInv /\ [Next]_vars => KInv'
<1> SUFFICES ASSUME KInv, [Next]_vars PROVE KInv'
  OBVIOUS
<1>1. ASSUME NEW q \in Request, Answer(q) \/ HandlerGone(q) PROVE KInv'
  BY <1>1, CreateRunStep, CreateRejectedStep, StartRunStep, CheckRequestStep, ClassifiedStep,
     ReadFixtureStep, SearchFailsStep, SearchAnswerStep, SearchActionStep, ProposedStep,
     AnsweredStep, JudgedStep, SaveOutputStep, HandlerGoneStep DEF Answer
<1>2. ASSUME NEW d \in Decision, ArriveDecision(d) \/ Decide(d) PROVE KInv'
  BY <1>2, ArriveStep, DecideNothingStep, LockOutputStep, DenyStep, ReplayStep, RollBackStep,
     RejectStep, BlockStep, ExecuteStep DEF Decide
<1>3. CASE IndexNext /\ UNCHANGED <<run, output, task, answerVars, decisionVars>>
  BY <1>3, IndexStep
<1>4. CASE UNCHANGED vars
  BY <1>4, IndexStep DEF vars
<1>5. QED
  BY <1>1, <1>2, <1>3, <1>4 DEF Next

\* The invariant of answers and approvals holds throughout.
THEOREM KInvariance == Spec => []KInv
BY InitKInv, NextKInv, PTL DEF Spec

\* Every result, under way or saved, has evidence only from a search, and offers and
\* proposes what the approval would let through.
LEMMA ResultsSound ==
  ASSUME KInv, NEW res \in Results
  PROVE  /\ res.evidence # {} => FoundInv(res)
         /\ res.action = "pending_approval" => ScopeStillValid(res.under, res, res.proposal)
         /\ res.offered # {} => ScopeStillValid(res.under, res, res.offered)
<1>1. ASSUME NEW q \in Request, res = result[q]
      PROVE  (res.evidence # {} => FoundInv(res)) /\ (SoundResult(res) \/ Open(res))
  <2>1. AnswerOf(q) /\ pc[q] \in Phase
    BY DEF KInv, AnswerInv, TypeOK
  <2>2. CASE Fresh(q)
    BY <1>1, <2>1, <2>2, FirstResultSound DEF AnswerOf, FirstResult
  <2>3. CASE pc[q] = "searching"
    BY <1>1, <2>3, SearchingFacts
  <2>4. CASE Searching(q)
    BY <1>1, <2>4, ModelFacts
  <2>5. CASE pc[q] = "saving"
    BY <1>1, <2>1, <2>5 DEF AnswerOf, SoundResult
  <2>6. QED
    BY <2>1, <2>2, <2>3, <2>4, <2>5 DEF Phase, Fresh, Searching
<1>2. ASSUME NEW r \in Run, output[r] # None, res = output[r]
      PROVE  (res.evidence # {} => FoundInv(res)) /\ SoundResult(res)
  BY <1>2 DEF KInv, OutputInv, SoundResult
<1>3. QED
  BY <1>1, <1>2 DEF Results, SoundResult, Open

LEMMA KInvEvidence == KInv => EvidenceAuthorized
<1> SUFFICES ASSUME KInv, NEW res \in Results, NEW e \in res.evidence
             PROVE  /\ e.source \in Granted(res.under, res.requester)
                    /\ res.under.source[e.source].revision = e.revision
  BY DEF EvidenceAuthorized, Granted
<1>1. FoundInv(res)
  BY ResultsSound
<1>2. QED
  BY <1>1 DEF FoundInv

LEMMA KInvOffers == KInv => OffersApprovable
BY ResultsSound DEF OffersApprovable

\* Runs, results, tasks, answers and decisions stay of their types.
THEOREM KTypeCorrect == Spec => []TypeOK
BY KInvariance, PTL DEF KInv

\* retrieval.py, answer_service.py: whatever is found, drafted and saved, evidence says
\* what the corpus of its run says, in sources the corpus grants to the requester.
THEOREM KEvidenceAuthorized == Spec => []EvidenceAuthorized
BY KInvariance, KInvEvidence, PTL

\* The transactions of answers and decisions leave runs, outputs and tasks in agreement,
\* however many requests name a run and however many decisions race on a proposal.
THEOREM KAccounts == Spec => []Accounts
BY KInvariance, PTL DEF KInv

\* The policy on proposals and offers implies the policy of their approval.
THEOREM KOffersApprovable == Spec => []OffersApprovable
BY KInvariance, KInvOffers, PTL

-----------------------------------------------------------------------------------
(* The refinement.                                                                 *)

\* The ledger's state: what is saved of each run's proposal, and the runs with a task.
Ledger == [r \in Run |-> IF output[r] = None THEN "none"
                         ELSE IF output[r].proposal = {} THEN "none"
                         ELSE output[r].action]
Filed == {r \in Run : task[r] # None}

LEMMA InitLedger == Init => L!Init
BY DEF Init, L!Init

\* A decision changes the ledger as it changes the action of its output.
LEMMA LedgerCommit ==
  ASSUME KInv, NEW d \in Decision, stage[d] = "deciding", NEW r, r = deal[d].run,
         NEW out \in Result, Commit(d, out), out.proposal = output[r].proposal
  PROVE  /\ r \in Run /\ Ledger[r] = output[r].action
         /\ Ledger' = [Ledger EXCEPT ![r] = out.action]
<1>1. TypeOK /\ r \in Run /\ output[r] \in Result /\ output[r].proposal # {}
  BY DecidingFacts DEF KInv
<1>2. output[r] # None /\ out # None
  BY <1>1, RowAssumption
<1>3. output'[r] = out /\ \A x \in Run \ {r} : output'[x] = output[x]
  BY <1>1 DEF Commit, TypeOK
<1>4. QED
  BY <1>1, <1>2, <1>3 DEF Ledger

LEMMA StepLedger ==
  ASSUME KInv, [Next]_vars
  PROVE  [L!Next]_<<Ledger, Filed>>
<1>1. ASSUME UNCHANGED <<output, task>> PROVE UNCHANGED <<Ledger, Filed>>
  BY <1>1 DEF Ledger, Filed
<1>2. ASSUME NEW q \in Request, SaveOutput(q) PROVE [L!Next]_<<Ledger, Filed>>
  <2> DEFINE r == RunOf[q]
             res == result[q]
  <2>1. /\ r \in Run /\ res \in Result /\ run[r] = "running" /\ DOMAIN output = Run
        /\ res.proposal # {} => res.action = "pending_approval"
        /\ output' = [output EXCEPT ![r] = res] /\ UNCHANGED task
    BY <1>2, KnowledgeAssumption DEF KInv, TypeOK, AnswerInv, AnswerOf, SaveOutput
  <2> HIDE DEF r, res
  <2>2. output[r] = None /\ res # None
    BY <2>1, RowAssumption DEF KInv, Accounts, R!Terminal
  <2>3. /\ Ledger[r] = "none" /\ UNCHANGED Filed
        /\ Ledger' = [Ledger EXCEPT ![r] = IF res.proposal = {} THEN "none"
                                           ELSE "pending_approval"]
    BY <2>1, <2>2 DEF Ledger, Filed
  <2>4. CASE res.proposal = {}
    BY <2>1, <2>3, <2>4 DEF Ledger
  <2>5. CASE res.proposal # {}
    <3>1. L!Propose(r)
      BY <2>3, <2>5 DEF L!Propose, Ledger, Filed
    <3>2. QED
      BY <2>1, <3>1 DEF L!Next
  <2>6. QED
    BY <2>4, <2>5
<1>3. ASSUME NEW d \in Decision, NEW reason \in StopReason, stage[d] = "deciding",
             Commit(d, [deal[d].seen EXCEPT !.stop = reason]), UNCHANGED task
      PROVE  UNCHANGED <<Ledger, Filed>>
  <2> DEFINE seen == deal[d].seen
             out == [seen EXCEPT !.stop = reason]
  <2>1. seen = output[deal[d].run] /\ seen \in Result
    BY <1>3, DecidingFacts
  <2>2. out \in Result /\ out.proposal = seen.proposal /\ out.action = seen.action
        /\ Commit(d, out)
    BY <1>3, <2>1 DEF Result
  <2> HIDE DEF out, seen
  <2>3. Ledger' = [Ledger EXCEPT ![deal[d].run] = out.action]
        /\ Ledger[deal[d].run] = out.action /\ deal[d].run \in Run
    BY <1>3, <2>1, <2>2, LedgerCommit
  <2>4. QED
    BY <1>3, <2>3 DEF Ledger, Filed
<1>4. ASSUME NEW d \in Decision, NEW action \in {"rejected", "blocked"},
             NEW reason \in StopReason, stage[d] = "deciding", Undecided(d),
             Commit(d, [deal[d].seen EXCEPT !.action = action, !.stop = reason]), UNCHANGED task
      PROVE  [L!Next]_<<Ledger, Filed>>
  <2> DEFINE seen == deal[d].seen
             out == [seen EXCEPT !.action = action, !.stop = reason]
  <2>1. seen = output[deal[d].run] /\ seen \in Result /\ seen.action = "pending_approval"
    BY <1>4, DecidingFacts DEF Undecided
  <2>2. out \in Result /\ out.proposal = seen.proposal /\ out.action = action
        /\ Commit(d, out)
    BY <1>4, <2>1 DEF Result
  <2> HIDE DEF out, seen
  <2>3. Ledger' = [Ledger EXCEPT ![deal[d].run] = action]
        /\ Ledger[deal[d].run] = "pending_approval" /\ deal[d].run \in Run
    BY <1>4, <2>1, <2>2, LedgerCommit
  <2>4. PICK r \in Run : L!Close(r)
    BY <1>4, <2>3 DEF L!Close, Ledger, Filed
  <2>5. QED
    BY <2>4 DEF L!Next
<1>5. ASSUME NEW d \in Decision, Execute(d) PROVE [L!Next]_<<Ledger, Filed>>
  <2> DEFINE seen == deal[d].seen
             out == [seen EXCEPT !.action = "executed", !.stop = "action_executed"]
             r == deal[d].run
  <2>1. /\ seen = output[r] /\ seen \in Result /\ seen.action = "pending_approval"
        /\ TypeOK /\ r \in Run /\ (deal[d].repeated <=> task[r] # None)
    BY <1>5, DecidingFacts DEF Undecided, Execute, KInv
  <2>2. out \in Result /\ out.action = "executed" /\ SameScope(seen, out)
    BY <2>1, OutcomeFields DEF StopReason
  <2>3. stage[d] = "deciding" /\ Commit(d, out)
    BY <1>5 DEF Execute
  <2>4. task[r] = None
    BY <2>1 DEF KInv, Accounts
  <2>5. \E s \in seen.proposal : task' = [task EXCEPT ![r] = [source |-> s, under |-> deal[d].under]]
    BY <1>5, <2>1, <2>4 DEF Execute
  <2>6. \A s \in seen.proposal : [source |-> s, under |-> deal[d].under] \in Task
    BY <2>1, <2>3, DecidingFacts DEF Task, Deal, Result
  <2> HIDE DEF out, seen, r
  <2>7. PICK new : new \in Task /\ task' = [task EXCEPT ![r] = new]
    BY <2>5, <2>6
  <2>8. task'[r] # None /\ \A x \in Run \ {r} : task'[x] = task[x]
    BY <2>1, <2>7, RowAssumption DEF TypeOK
  <2>9. Filed' = Filed \cup {r}
    BY <2>1, <2>8 DEF Filed
  <2>10. Ledger' = [Ledger EXCEPT ![r] = "executed"] /\ Ledger[r] = "pending_approval"
    BY <2>1, <2>2, <2>3, LedgerCommit DEF SameScope, r
  <2>11. PICK x \in Run : L!Execute(x)
    BY <2>1, <2>9, <2>10 DEF L!Execute, Ledger, Filed
  <2>12. QED
    BY <2>11 DEF L!Next
<1>6. ASSUME NEW q \in Request, Answer(q) \/ HandlerGone(q) PROVE [L!Next]_<<Ledger, Filed>>
  BY <1>1, <1>2, <1>6 DEF Answer, HandlerGone, CreateRun, CreateRejected, StartRun, CheckRequest,
     Classified, ReadFixture, SearchFails, SearchAnswer, SearchAction, Proposed, Answered, Judged
<1>7. ASSUME NEW d \in Decision, ArriveDecision(d) \/ Decide(d)
      PROVE  [L!Next]_<<Ledger, Filed>>
  <2>1. CASE ArriveDecision(d) \/ DecideNothing(d) \/ LockOutput(d) \/ RollBack(d)
    BY <1>1, <2>1 DEF ArriveDecision, DecideNothing, LockOutput, RollBack
  <2>2. CASE Deny(d) \/ Replay(d)
    BY <1>3, <2>2 DEF Deny, Replay, StopReason
  <2>3. CASE Reject(d) \/ Block(d)
    BY <1>4, <2>3 DEF Reject, Block, StopReason
  <2>4. CASE Execute(d)
    BY <1>5, <2>4
  <2>5. QED
    BY <1>7, <2>1, <2>2, <2>3, <2>4 DEF Decide
<1>8. CASE UNCHANGED vars
  BY <1>1, <1>8 DEF vars
<1>9. QED
  BY <1>1, <1>6, <1>7, <1>8 DEF Next

\* action_approval.py: decisions under the row lock implement the ledger of atomic
\* decisions, in which a proposal is decided once and a task is one executed proposal's.
THEOREM KImplementsLedger == Spec => ImplementsLedger
<1>1. KInv /\ [Next]_vars => [L!Next]_<<Ledger, Filed>>
  BY StepLedger
<1>2. QED
  BY InitLedger, <1>1, KInvariance, PTL DEF Spec, ImplementsLedger, L!Spec, Ledger, Filed

====
