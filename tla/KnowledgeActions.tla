------------------------------ MODULE KnowledgeActions ------------------------------
(***********************************************************************************)
(* Internal knowledge: the answer run (internal_knowledge_action/answer_service.py *)
(* on retrieval.py) and the approval of the task it may propose                    *)
(* (action_approval.py), on top of the index that builds replace meanwhile.        *)
(*                                                                                 *)
(* An answer is a coroutine: three transactions (the run is created, is started,   *)
(* and ends with its output), awaits of models between them, and one place where   *)
(* it reads the corpus file and then the index.  A decision runs on the server's   *)
(* thread pool: it loads the corpus, takes the row lock of the saved output, and   *)
(* commits.  A client may name the run of its request, so two requests may ask     *)
(* for one run.                                                                    *)
(*                                                                                 *)
(* A question is what its retrieval and the models make of it: any part of the     *)
(* authorized sources is found, and drafts cite any of the identifiers.  There is  *)
(* one passage a source, so an evidence identifier is the source it stands for.    *)
(***********************************************************************************)
EXTENDS KnowledgeIndex, Sequences, FiniteSets

CONSTANTS Request,      \* answer requests
          Run,          \* run identifiers
          RunOf,        \* [Request -> Run], request.run_id
          PersonaOf,    \* [Request -> Persona]
          Unlucky,      \* the requests whose handler may be gone
          Support,      \* the group "support"
          Drafts,       \* answers a model may draft: the sources each claim cites
          Decision,     \* approval requests
          Choices       \* who may decide, and what

ASSUME KnowledgeAssumption ==
  /\ RunOf \in [Request -> Run]
  /\ PersonaOf \in [Request -> Persona]
  /\ Unlucky \subseteq Request
  /\ None \notin Source \cup Decision
  /\ Choices \subseteq [authorized : BOOLEAN, verdict : {"approve", "reject"}]
  /\ Drafts \subseteq Seq(SUBSET (Source \cup {None}))

VARIABLES
  run,        \* [Run -> Status], llm_runs.status
  output,     \* [Run -> Result \cup {None}], knowledge_answer_outputs
  task,       \* [Run -> Task \cup {None}], knowledge_mock_tasks
  pc,         \* [Request -> Phase]
  mode,       \* [Request -> {"answer", "action"}], what the classifier made of it
  result,     \* [Request -> Result], the result under construction
  claims,     \* [Request -> claims of the drafted answer]
  rank,       \* [Request -> Nat], claims judged so far
  lock,       \* [Run -> Decision \cup {None}], row lock of the output
  stage,      \* [Decision -> Stage]
  deal        \* [Decision -> what the decision was asked and has read]

answerVars == <<pc, mode, result, claims, rank>>
decisionVars == <<lock, stage, deal>>
vars == <<indexVars, run, output, task, answerVars, decisionVars>>

R == INSTANCE RunLifecycle

Phase == {"idle", "starting", "checking", "classifying", "reading", "searching",
          "proposing", "answering", "grounding", "saving", "done"}

\* The awaits of an answer.
Awaiting == {"classifying", "proposing", "answering", "grounding"}

Stage == {"idle", "locking", "deciding", "done"}

Evidence == [source : Source, revision : Revision, text : Body]

StopReason ==
  {"answered", "no_relevant_passage", "model_abstained", "citation_rejected",
   "grounding_rejected", "grounding_unavailable", "answer_model_error",
   "retrieval_error", "action_intent_unavailable", "action_proposal_pending",
   "action_proposal_rejected", "action_policy_blocked", "action_approval_denied",
   "action_executed", "action_proposal_error"}

\* `under` is the corpus that the run has loaded; of it the code saves the version.
Result ==
  [status     : {"completed", "failed"},
   stop       : StopReason,
   requester  : Persona,
   under      : Fixtures \cup {None},
   authorized : SUBSET Source,
   evidence   : SUBSET Evidence,
   claims     : SUBSET Source,
   offered    : SUBSET Source,
   action     : {"none", "pending_approval", "rejected", "blocked", "executed"},
   proposal   : SUBSET Source]

\* `under` is the corpus that the decision has loaded; it is not saved.
Task == [source : Source, under : Fixtures]

\* A row that is missing is told from every row.
ASSUME RowAssumption == None \notin Result /\ None \notin Task

FirstResult(q) ==
  [status |-> "failed", stop |-> "retrieval_error", requester |-> PersonaOf[q],
   under |-> None, authorized |-> {}, evidence |-> {}, claims |-> {}, offered |-> {},
   action |-> "none", proposal |-> {}]

NoDeal == [run |-> None, authorized |-> FALSE, verdict |-> "none", under |-> None,
           seen |-> None, repeated |-> FALSE]

Init ==
  /\ IndexInit
  /\ R!Init
  /\ output = [r \in Run |-> None]
  /\ task = [r \in Run |-> None]
  /\ pc = [q \in Request |-> "idle"]
  /\ mode = [q \in Request |-> "answer"]
  /\ result = [q \in Request |-> FirstResult(q)]
  /\ claims = [q \in Request |-> <<>>]
  /\ rank = [q \in Request |-> 0]
  /\ lock = [r \in Run |-> None]
  /\ stage = [d \in Decision |-> "idle"]
  /\ deal = [d \in Decision |-> NoDeal]

-----------------------------------------------------------------------------------
(* Authorization, citations and policy.                                            *)

Groups(fix, p) == IF p \in DOMAIN fix.groups THEN fix.groups[p] ELSE {}

\* retrieve_knowledge: the sources either search may see.
Authorized(index, fix, p) ==
  {s \in DOMAIN index.source : index.source[s].groups \cap Groups(fix, p) # {}}

\* The revision is that of the index, the excerpt a part of the body in the corpus.
Passage(index, fix, s) ==
  [source |-> s, revision |-> index.source[s].revision, text |-> fix.source[s].body]

Cited(evidence) == {e.source : e \in evidence}

\* A faulty form of Tickets: documents and policies count as well.
Known(fix, evidence) == {e \in evidence : e.source \in DOMAIN fix.source}

Tickets(fix, evidence) ==
  {e \in evidence : e.source \in DOMAIN fix.source /\ fix.source[e.source].kind = "ticket"}

\* _verify_claim.
ClaimHolds(ids, res) ==
  \A i \in ids :
    \E e \in res.evidence :
      /\ e.source = i
      /\ i \in res.authorized
      /\ i \in DOMAIN res.under.source
      /\ res.under.source[i].revision = e.revision
      /\ res.under.source[i].body = e.text

\* populate_available_actions.
Offered(res, cited) ==
  IF Support \in Groups(res.under, res.requester)
  THEN Cited(Tickets(res.under, res.evidence)) \cap cited \cap res.authorized
  ELSE {}

\* decide_action: the requester's membership, the access lists, the revisions and the
\* frozen citations, in the corpus the decision has loaded.
ScopeStillValid(fix, res, ids) ==
  /\ res.requester \in DOMAIN fix.groups
  /\ Support \in fix.groups[res.requester]
  /\ ids # {}
  /\ \A s \in ids :
       /\ s \in res.authorized
       /\ s \in DOMAIN fix.source
       /\ fix.source[s].kind = "ticket"
       /\ fix.source[s].groups \cap fix.groups[res.requester] # {}
       /\ \E e \in res.evidence : e.source = s /\ e.revision = fix.source[s].revision

-----------------------------------------------------------------------------------
(* Answer runs.                                                                    *)

Goto(q, phase) == pc' = [pc EXCEPT ![q] = phase]

\* The handler ends, and its variables with it.
Leave(q) ==
  /\ Goto(q, "done")
  /\ mode' = [mode EXCEPT ![q] = "answer"]
  /\ result' = [result EXCEPT ![q] = FirstResult(q)]
  /\ claims' = [claims EXCEPT ![q] = <<>>]
  /\ rank' = [rank EXCEPT ![q] = 0]

\* The result is complete and waits for its transaction.
Conclude(q, res) ==
  /\ Goto(q, "saving")
  /\ result' = [result EXCEPT ![q] = res]

Stopped(res, status, reason) == [res EXCEPT !.status = status, !.stop = reason]

\* create_run in a transaction of its own.
CreateRun(q) ==
  /\ pc[q] = "idle"
  /\ run[RunOf[q]] = "none"
  /\ run' = [run EXCEPT ![RunOf[q]] = "pending"]
  /\ Goto(q, "starting")
  /\ UNCHANGED <<indexVars, output, task, mode, result, claims, rank, decisionVars>>

\* The run of that name exists: the INSERT raises before any result is under way.
CreateRejected(q) ==
  /\ pc[q] = "idle"
  /\ run[RunOf[q]] # "none"
  /\ Goto(q, "done")
  /\ UNCHANGED <<indexVars, run, output, task, mode, result, claims, rank, decisionVars>>

\* start_run in a second transaction.
StartRun(q) ==
  /\ pc[q] = "starting"
  /\ run[RunOf[q]] = "pending"
  /\ run' = [run EXCEPT ![RunOf[q]] = "running"]
  /\ Goto(q, "checking")
  /\ UNCHANGED <<indexVars, output, task, mode, result, claims, rank, decisionVars>>

\* The question is normalized, which may raise, and searched for action keywords.
CheckRequest(q) ==
  /\ pc[q] = "checking"
  /\ \/ Conclude(q, FirstResult(q))
     \/ Goto(q, "classifying") /\ UNCHANGED result
     \/ Goto(q, "reading") /\ UNCHANGED result
  /\ UNCHANGED <<indexVars, run, output, task, mode, claims, rank, decisionVars>>

\* The classifier returns, or raises: a run that is completed without an answer.
Classified(q) ==
  /\ pc[q] = "classifying"
  /\ \/ /\ mode' = [mode EXCEPT ![q] = "action"]
        /\ Goto(q, "reading")
        /\ UNCHANGED result
     \/ /\ Goto(q, "reading")
        /\ UNCHANGED <<mode, result>>
     \/ /\ Conclude(q, Stopped(result[q], "completed", "action_intent_unavailable"))
        /\ UNCHANGED mode
  /\ UNCHANGED <<indexVars, run, output, task, claims, rank, decisionVars>>

\* load_fixture.
ReadFixture(q) ==
  /\ pc[q] = "reading"
  /\ Goto(q, "searching")
  /\ result' = [result EXCEPT ![q].under = fixture]
  /\ UNCHANGED <<indexVars, run, output, task, mode, claims, rank, decisionVars>>

\* The index that was loaded belongs to the corpus, and the persona is known.
Searchable(q) ==
  /\ Readable
  /\ IndexMatchesFixture(Loaded, result[q].under)
  /\ PersonaOf[q] \in DOMAIN result[q].under.groups

\* load_index, the check of the index, or the embedding of the question raises.
SearchFails(q) ==
  /\ pc[q] = "searching"
  /\ Conclude(q, Stopped(result[q], "failed", "retrieval_error"))
  /\ UNCHANGED <<indexVars, run, output, task, mode, claims, rank, decisionVars>>

\* What a search that found the sources `found` adds to the result.
Searched(q, found) ==
  LET evidence == {Passage(Loaded, result[q].under, s) : s \in found} IN
    [result[q] EXCEPT
       !.authorized = Authorized(Loaded, result[q].under, PersonaOf[q]),
       !.evidence = IF mode[q] = "action" THEN Tickets(result[q].under, evidence)
                    ELSE evidence]

\* The search of a question: without a passage there is nothing to ask a model about.
SearchAnswer(q) ==
  /\ pc[q] = "searching" /\ mode[q] = "answer"
  /\ Searchable(q)
  /\ \E found \in SUBSET Authorized(Loaded, result[q].under, PersonaOf[q]) :
       LET res == Searched(q, found) IN
         IF res.evidence = {}
         THEN Conclude(q, Stopped(res, "completed", "no_relevant_passage"))
         ELSE Goto(q, "answering") /\ result' = [result EXCEPT ![q] = res]
  /\ UNCHANGED <<indexVars, run, output, task, mode, claims, rank, decisionVars>>

\* The search of an action request, and the policy on who may ask for it.
SearchAction(q) ==
  /\ pc[q] = "searching" /\ mode[q] = "action"
  /\ Searchable(q)
  /\ \E found \in SUBSET Authorized(Loaded, result[q].under, PersonaOf[q]) :
       LET res == Searched(q, found) IN
         IF Support \in Groups(res.under, PersonaOf[q]) /\ res.evidence # {}
         THEN Goto(q, "proposing") /\ result' = [result EXCEPT ![q] = res]
         ELSE Conclude(q, [Stopped(res, "completed", "action_policy_blocked")
                           EXCEPT !.action = "blocked"])
  /\ UNCHANGED <<indexVars, run, output, task, mode, claims, rank, decisionVars>>

\* The proposal model raises, or returns a draft, which is saved if it cites what it was given.
Proposed(q) ==
  /\ pc[q] = "proposing"
  /\ LET res == result[q] IN
       \/ Conclude(q, Stopped(res, "failed", "action_proposal_error"))
       \/ Conclude(q, [Stopped(res, "failed", "action_policy_blocked")
                       EXCEPT !.action = "blocked"])
       \/ \E ids \in (SUBSET Cited(res.evidence)) \ {{}} :
            Conclude(q, [Stopped(res, "completed", "action_proposal_pending")
                         EXCEPT !.action = "pending_approval", !.proposal = ids])
  /\ UNCHANGED <<indexVars, run, output, task, mode, claims, rank, decisionVars>>

\* The answer model raises, abstains, or returns claims, whose citations are checked.
Answered(q) ==
  /\ pc[q] = "answering"
  /\ \/ /\ Conclude(q, Stopped(result[q], "failed", "answer_model_error"))
        /\ UNCHANGED claims
     \/ /\ Conclude(q, Stopped(result[q], "completed", "model_abstained"))
        /\ UNCHANGED claims
     \/ \E drafted \in Drafts :
          /\ claims' = [claims EXCEPT ![q] = drafted]
          /\ IF \A i \in DOMAIN drafted : ClaimHolds(drafted[i], result[q])
             THEN Goto(q, "grounding") /\ UNCHANGED result
             ELSE Conclude(q, Stopped(result[q], "completed", "citation_rejected"))
  /\ UNCHANGED <<indexVars, run, output, task, mode, rank, decisionVars>>

\* One claim has been judged: not supported, the judge is unavailable, or supported.  An
\* answer is released when all of its claims are.
Judged(q) ==
  /\ pc[q] = "grounding"
  /\ \/ /\ \E reason \in {"grounding_rejected", "grounding_unavailable"} :
             Conclude(q, Stopped(result[q], "completed", reason))
        /\ UNCHANGED rank
     \/ /\ rank[q] + 1 < Len(claims[q])
        /\ rank' = [rank EXCEPT ![q] = @ + 1]
        /\ UNCHANGED <<pc, result>>
     \/ /\ rank[q] + 1 = Len(claims[q])
        /\ LET cited == UNION {claims[q][i] : i \in DOMAIN claims[q]} IN
             Conclude(q, [Stopped(result[q], "completed", "answered")
                          EXCEPT !.claims = cited, !.offered = Offered(result[q], cited)])
        /\ rank' = [rank EXCEPT ![q] = @ + 1]
  /\ UNCHANGED <<indexVars, run, output, task, mode, claims, decisionVars>>

\* A faulty form of SaveOutput: a failed result is saved, and its run is left running.
SaveWithoutFailing(q) ==
  /\ pc[q] = "saving"
  /\ output' = [output EXCEPT ![RunOf[q]] = result[q]]
  /\ run' = IF result[q].status = "completed" THEN [run EXCEPT ![RunOf[q]] = "completed"]
            ELSE run
  /\ Leave(q)
  /\ UNCHANGED <<indexVars, task, decisionVars>>

\* The output is saved and the run is ended in one transaction.
SaveOutput(q) ==
  /\ pc[q] = "saving"
  /\ run[RunOf[q]] = "running"
  /\ output' = [output EXCEPT ![RunOf[q]] = result[q]]
  /\ run' = [run EXCEPT ![RunOf[q]] = result[q].status]
  /\ Leave(q)
  /\ UNCHANGED <<indexVars, task, decisionVars>>

\* The client of the stream leaves during an await, a transaction fails, or the process
\* stops: nothing catches that, and nothing else ends the run.
HandlerGone(q) ==
  /\ q \in Unlucky
  /\ pc[q] \in Awaiting \cup {"starting", "saving"}
  /\ Leave(q)
  /\ UNCHANGED <<indexVars, run, output, task, decisionVars>>

Answer(q) ==
  \/ CreateRun(q) \/ CreateRejected(q) \/ StartRun(q) \/ CheckRequest(q)
  \/ Classified(q) \/ ReadFixture(q) \/ SearchFails(q) \/ SearchAnswer(q)
  \/ SearchAction(q) \/ Proposed(q) \/ Answered(q) \/ Judged(q) \/ SaveOutput(q)

-----------------------------------------------------------------------------------
(* Decisions.                                                                      *)

\* A decision arrives; load_fixture is called before the row is locked.
ArriveDecision(d) ==
  /\ stage[d] = "idle"
  /\ \E r \in Run, choice \in Choices :
       deal' = [deal EXCEPT ![d] = [run |-> r, authorized |-> choice.authorized,
                                    verdict |-> choice.verdict, under |-> fixture,
                                    seen |-> None, repeated |-> FALSE]]
  /\ stage' = [stage EXCEPT ![d] = "locking"]
  /\ UNCHANGED <<indexVars, run, output, task, answerVars, lock>>

HasProposal(r) == output[r] # None /\ output[r].proposal # {}

\* The run has no output, or the output no proposal: 404 and 409.
DecideNothing(d) ==
  /\ stage[d] = "locking"
  /\ ~HasProposal(deal[d].run)
  /\ stage' = [stage EXCEPT ![d] = "done"]
  /\ deal' = [deal EXCEPT ![d] = NoDeal]
  /\ UNCHANGED <<indexVars, run, output, task, answerVars, lock>>

\* A faulty form of LockOutput: a plain SELECT.
ReadOutput(d) ==
  /\ stage[d] = "locking"
  /\ HasProposal(deal[d].run)
  /\ deal' = [deal EXCEPT ![d].seen = output[deal[d].run],
                          ![d].repeated = task[deal[d].run] # None]
  /\ stage' = [stage EXCEPT ![d] = "deciding"]
  /\ UNCHANGED <<indexVars, run, output, task, answerVars, lock>>

\* SELECT ... FOR UPDATE of the output, and the SELECT of a task with the key of the run.
LockOutput(d) ==
  LET r == deal[d].run IN
    /\ stage[d] = "locking"
    /\ HasProposal(r)
    /\ lock[r] = None
    /\ lock' = [lock EXCEPT ![r] = d]
    /\ deal' = [deal EXCEPT ![d].seen = output[r], ![d].repeated = task[r] # None]
    /\ stage' = [stage EXCEPT ![d] = "deciding"]
    /\ UNCHANGED <<indexVars, run, output, task, answerVars>>

\* The end of a decision's transaction: the row is unlocked, and a waiting decision reads
\* what is committed then.
EndDecision(d) ==
  /\ stage' = [stage EXCEPT ![d] = "done"]
  /\ lock' = [lock EXCEPT ![deal[d].run] = IF @ = d THEN None ELSE @]
  /\ deal' = [deal EXCEPT ![d] = NoDeal]
  /\ UNCHANGED <<indexVars, run, answerVars>>

\* The decision is committed with this output.
Commit(d, out) ==
  /\ EndDecision(d)
  /\ output' = [output EXCEPT ![deal[d].run] = out]

\* The approver may not decide on this type of action: only the stop reason is replaced,
\* whatever has become of the proposal.
Deny(d) ==
  /\ stage[d] = "deciding"
  /\ ~deal[d].authorized
  /\ Commit(d, [deal[d].seen EXCEPT !.stop = "action_approval_denied"])
  /\ UNCHANGED task

\* The proposal has been executed: the decision, whichever it is, gets the task.
Replay(d) ==
  /\ stage[d] = "deciding"
  /\ deal[d].authorized
  /\ deal[d].seen.action = "executed"
  /\ Commit(d, [deal[d].seen EXCEPT !.stop = "action_executed"])
  /\ UNCHANGED task

\* A faulty form of Undecided: rejected and blocked proposals may be decided again.
Unexecuted(d) == deal[d].authorized /\ deal[d].seen.action # "executed"

Undecided(d) == deal[d].authorized /\ deal[d].seen.action = "pending_approval"

\* The transaction is rolled back: the proposal is closed (409), or the database fails.
RollBack(d) ==
  /\ stage[d] = "deciding"
  /\ EndDecision(d)
  /\ UNCHANGED <<output, task>>

Reject(d) ==
  /\ stage[d] = "deciding"
  /\ Undecided(d)
  /\ deal[d].verdict = "reject"
  /\ Commit(d, [deal[d].seen EXCEPT !.action = "rejected", !.stop = "action_proposal_rejected"])
  /\ UNCHANGED task

Approvable(d) ==
  ScopeStillValid(deal[d].under, deal[d].seen, deal[d].seen.proposal)

Block(d) ==
  /\ stage[d] = "deciding"
  /\ Undecided(d)
  /\ deal[d].verdict = "approve"
  /\ ~Approvable(d)
  /\ Commit(d, [deal[d].seen EXCEPT !.action = "blocked", !.stop = "action_policy_blocked"])
  /\ UNCHANGED task

\* The task is created, unless there is one with the key; a task that has been committed
\* since the SELECT breaks the unique constraints, and RollBack is what is left.
Execute(d) ==
  LET r == deal[d].run IN
    /\ stage[d] = "deciding"
    /\ Undecided(d)
    /\ deal[d].verdict = "approve"
    /\ Approvable(d)
    /\ IF deal[d].repeated THEN UNCHANGED task
       ELSE /\ task[r] = None
            /\ \E s \in deal[d].seen.proposal :
                 task' = [task EXCEPT ![r] = [source |-> s, under |-> deal[d].under]]
    /\ Commit(d, [deal[d].seen EXCEPT !.action = "executed", !.stop = "action_executed"])

Decide(d) ==
  \/ DecideNothing(d) \/ LockOutput(d) \/ Deny(d) \/ Replay(d) \/ RollBack(d)
  \/ Reject(d) \/ Block(d) \/ Execute(d)

-----------------------------------------------------------------------------------

Next ==
  \/ IndexNext /\ UNCHANGED <<run, output, task, answerVars, decisionVars>>
  \/ \E q \in Request : Answer(q) \/ HandlerGone(q)
  \/ \E d \in Decision : ArriveDecision(d) \/ Decide(d)

Spec == Init /\ [][Next]_vars

\* Models have timeouts, transactions end, and ready handlers are scheduled; nothing makes
\* a client send a request.
Fairness ==
  /\ \A q \in Request : WF_vars(pc[q] # "idle" /\ Answer(q))
  /\ \A d \in Decision : WF_vars(Decide(d))

FairSpec == Spec /\ Fairness

-----------------------------------------------------------------------------------
(* Properties.                                                                     *)

TypeOK ==
  /\ IndexTypeOK
  /\ run \in [Run -> R!Status]
  /\ DOMAIN output = Run /\ \A r \in Run : output[r] = None \/ output[r] \in Result
  /\ DOMAIN task = Run /\ \A r \in Run : task[r] = None \/ task[r] \in Task
  /\ pc \in [Request -> Phase]
  /\ mode \in [Request -> {"answer", "action"}]
  /\ result \in [Request -> Result]
  /\ claims \in [Request -> Drafts \cup {<<>>}]
  /\ rank \in [Request -> Nat]
  /\ lock \in [Run -> Decision \cup {None}]
  /\ stage \in [Decision -> Stage]
  /\ DOMAIN deal = Decision

Results == {result[q] : q \in Request} \cup {output[r] : r \in {x \in Run : output[x] # None}}

\* README: "ACL filtering prevents unauthorized documents from entering ranking, model
\* context, saved payload, or output."  Evidence under way or saved is of sources, at their
\* revision, that the corpus the run loaded lets the requester read, although the index
\* that found it is another file, which builds and edits of the corpus leave behind.
EvidenceAuthorized ==
  \A res \in Results : \A e \in res.evidence :
    /\ e.source \in DOMAIN res.under.source
    /\ res.under.source[e.source].groups \cap Groups(res.under, res.requester) # {}
    /\ res.under.source[e.source].revision = e.revision

\* Runs, outputs and tasks agree after every commit: a run has ended exactly if its output
\* is saved, with the same status, and there is a task exactly for an executed proposal,
\* about a source the proposal cites and its requester could still read.
Accounts ==
  \A r \in Run :
    /\ output[r] # None <=> run[r] \in R!Terminal
    /\ output[r] # None => output[r].status = run[r]
    /\ task[r] # None <=> output[r] # None /\ output[r].action = "executed"
    /\ task[r] # None =>
         /\ task[r].source \in output[r].proposal
         /\ ScopeStillValid(task[r].under, output[r], output[r].proposal)

\* What the assistant proposes or offers passes the policy of the approval as long as the
\* corpus is the one it was made on: the two policies are written in different files, one
\* on the access lists of the index, the other on those of the corpus.
OffersApprovable ==
  \A res \in Results :
    /\ res.action = "pending_approval" => ScopeStillValid(res.under, res, res.proposal)
    /\ res.offered # {} => ScopeStillValid(res.under, res, res.offered)

L == INSTANCE ActionLedger WITH
       proposal <- [r \in Run |-> IF output[r] = None THEN "none"
                                  ELSE IF output[r].proposal = {} THEN "none"
                                  ELSE output[r].action],
       tasks <- {r \in Run : task[r] # None}

\* "Repeated approval returns the same task": decisions on one proposal, whoever makes
\* them, in whatever order and at whatever time, implement the ledger of atomic decisions.
ImplementsLedger == L!Spec

\* A run whose handler is not gone ends, and its output is saved.
RunEnds ==
  \A q \in Request \ Unlucky :
    pc[q] = "starting" ~> run[RunOf[q]] \in R!Terminal

====
