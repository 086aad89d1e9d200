-------------------------------- MODULE IncidentRuns --------------------------------
(***********************************************************************************)
(* Incident runs: simulations (incident_investigation/simulation.py) that replay   *)
(* the logs of a fixture, let a model judge the candidates and investigate those   *)
(* it takes for incidents; investigations (service.py, agent.py) that wait for the *)
(* one slot of the process, query telemetry and draft a report; and engineers who  *)
(* review the saved reports (api.py).                                              *)
(*                                                                                 *)
(* Simulations and investigations are coroutines of one event loop: between two    *)
(* awaits (the pause after a log, the classifier, the slot, the agent) they are    *)
(* alone, and a client that leaves its stream cancels its own at an await.         *)
(* Reviews run on the server's threads and meet at the row lock of the output.     *)
(***********************************************************************************)
EXTENDS IncidentTelemetry

CONSTANTS Simulation,     \* requests for a simulation
          Direct,         \* requests for an investigation of the fixture's alert
          Run,            \* run identifiers
          RunOf,          \* [Simulation \cup Direct -> Run]
          Leaver,         \* those of them whose clients may leave
          Reviewer,       \* review requests
          Scenarios,      \* the fixtures, and what users, models and agents do
          MaxToolCalls,   \* MAX_TOOL_CALLS
          MaxShownPoints, \* metric points of one answer that a model is shown
          Lookback        \* LOOKBACK

Caller == Simulation \cup Direct

Judgments == {"incident", "not_incident", "needs_review", "classifier_unavailable"}

\* A run named by a client may exist already; an investigation of the alert gets a
\* fresh one.
ASSUME IncidentAssumption ==
  /\ RunOf \in [Caller -> Run] /\ Leaver \subseteq Caller
  /\ Simulation \cap Direct = {}
  /\ \A d \in Direct, c \in Caller : RunOf[c] = RunOf[d] => c = d
  /\ None \notin Reviewer
  /\ MaxToolCalls \in Nat /\ Lookback \in Nat /\ MaxShownPoints \in Nat \ {0, 1}
  /\ \A s \in Scenarios :
       /\ ValidFixture(s.fixture) /\ s.fixture.alert = None
       /\ ValidFixture(s.alerts) /\ s.alerts.alert # None
       /\ s.maxReports \in 1..3
       /\ s.callers \subseteq Caller \cup Reviewer
       /\ IsFiniteSet(s.fixture.records)
       /\ s.judgments \subseteq Judgments
       /\ \A q \in s.queries : q.tool \in Tools

VARIABLES
  scenario,        \* one of Scenarios
  course,          \* the replay of its logs, after each number of them
  run,             \* [Run -> Status], llm_runs.status
  output,          \* [Run -> Saved \cup {None}], incident_simulation_outputs
  pc,              \* [Caller -> Phase]
  replayed,        \* [Simulation -> Nat], the logs replayed so far
  stop,            \* [Simulation -> StopReason], stop_reason
  detected,        \* [Simulation -> Seq(incident)], detected_incidents
  investigations,  \* [Simulation -> Seq(investigation)]
  gate,            \* Seq(Caller), INVESTIGATION_GATE: the holder, then the waiting
  work,            \* [Caller -> the investigation that is under way]
  lock,            \* [Run -> Reviewer \cup {None}], row lock of the output
  reading          \* [Reviewer -> Saved \cup {None}], the payload it has read

simulationVars == <<replayed, stop, detected, investigations>>
investigationVars == <<gate, work>>
reviewVars == <<lock, reading>>
vars == <<scenario, course, run, output, pc, simulationVars, investigationVars, reviewVars>>

R == INSTANCE RunLifecycle

Phase == {"idle", "advancing", "pausing", "classifying", "queued", "investigating",
          "saving",     \* the last transaction
          "telling",    \* the last on_step callback
          "done"}

\* The awaits at which a cancellation is delivered.
Awaiting == {"pausing", "classifying", "queued", "investigating"}

Failures == {"classifier_unavailable", "timeout", "budget_exhausted", "agent_error",
             "verification_failed"}

StopReason == Failures \cup {"no_incident", "needs_review", "completed"}

Logs == OfKind(scenario.fixture, "log")

NoWork == [scope |-> None, calls |-> 0, surfaced |-> {}, gaps |-> {}]

Init ==
  /\ scenario \in Scenarios
  /\ course = replay_logs(Logs, scenario.fixture.related)
  /\ R!Init
  /\ output = [r \in Run |-> None]
  /\ pc = [c \in Caller |-> "idle"]
  /\ replayed = [s \in Simulation |-> 0]
  /\ stop = [s \in Simulation |-> "no_incident"]
  /\ detected = [s \in Simulation |-> <<>>]
  /\ investigations = [s \in Simulation |-> <<>>]
  /\ gate = <<>>
  /\ work = [c \in Caller |-> NoWork]
  /\ lock = [r \in Run |-> None]
  /\ reading = [v \in Reviewer |-> None]

-----------------------------------------------------------------------------------
(* The replay loop of run_simulation.                                              *)

\* create_run and start_run; nothing is awaited between them.
StartSimulation(s) ==
  /\ pc[s] = "idle" /\ s \in scenario.callers
  /\ run[RunOf[s]] = "none"
  /\ run' = [run EXCEPT ![RunOf[s]] = "running"]
  /\ pc' = [pc EXCEPT ![s] = "advancing"]
  /\ UNCHANGED <<scenario, course, output, simulationVars, investigationVars, reviewVars>>

\* The client has named a run that exists: create_run raises, before there is a run
\* to be failed.
StartRejected(s) ==
  /\ pc[s] = "idle" /\ s \in scenario.callers
  /\ run[RunOf[s]] # "none"
  /\ pc' = [pc EXCEPT ![s] = "done"]
  /\ UNCHANGED <<scenario, course, run, output, simulationVars, investigationVars, reviewVars>>

\* The next log is replayed and shown, and the replay pauses.
ReplayLog(s) ==
  /\ pc[s] = "advancing" /\ replayed[s] < Cardinality(Logs) /\ ~ TooManyLogs(Logs)
  /\ replayed' = [replayed EXCEPT ![s] = @ + 1]
  /\ pc' = [pc EXCEPT ![s] = "pausing"]
  /\ UNCHANGED <<scenario, course, run, output, stop, detected, investigations,
                 investigationVars, reviewVars>>

\* A faulty form of FailRun: whatever the run is, it has failed.
FailRunAnyway(s) ==
  /\ run' = [run EXCEPT ![RunOf[s]] = "failed"]
  /\ pc' = [pc EXCEPT ![s] = "done"]

\* The handler of any exception fails the run; one that has ended it cannot, and raises
\* in its turn.
FailRun(s) ==
  /\ run' = [run EXCEPT ![RunOf[s]] = IF @ \in R!Terminal THEN @ ELSE "failed"]
  /\ pc' = [pc EXCEPT ![s] = "done"]

\* The replay raises when it is asked for the first log.
ReplayRefused(s) ==
  /\ pc[s] = "advancing" /\ TooManyLogs(Logs)
  /\ FailRun(s)
  /\ UNCHANGED <<scenario, course, output, simulationVars, investigationVars, reviewVars>>

ReplayEnds(s) ==
  /\ pc[s] = "advancing" /\ replayed[s] = Cardinality(Logs)
  /\ pc' = [pc EXCEPT ![s] = "saving"]
  /\ UNCHANGED <<scenario, course, run, output, simulationVars, investigationVars, reviewVars>>

LastStep(s) == course[replayed[s]].steps[replayed[s]]

\* After the pause a candidate goes to the classifier.
Resume(s) ==
  /\ pc[s] = "pausing"
  /\ pc' = [pc EXCEPT ![s] = IF LastStep(s).decision = "candidate"
                               THEN "classifying" ELSE "advancing"]
  /\ UNCHANGED <<scenario, course, run, output, simulationVars, investigationVars, reviewVars>>

\* detected_from: what is investigated is the time up to the trigger.
Incident(step) ==
  LET at == step.log.at
      start == scenario.fixture.start
  IN  [id |-> <<step.cluster, at>>, trigger |-> step.log, at |-> at,
       start |-> IF at >= start + Lookback THEN at - Lookback ELSE start]

\* A faulty form of Reviewable: the last word is kept.
AlwaysReviewable(s) == TRUE

\* needs_review is what a simulation ends with unless it has detected an incident.
Reviewable(s) == detected[s] = <<>>

\* classify_candidate and decide, or no judgment at all.
Judged(s, outcome) ==
  /\ pc[s] = "classifying" /\ outcome # "incident"
  /\ stop' = [stop EXCEPT ![s] =
       IF outcome = "classifier_unavailable"
         \/ (outcome = "needs_review" /\ Reviewable(s)) THEN outcome ELSE @]
  /\ pc' = [pc EXCEPT ![s] = IF outcome = "classifier_unavailable"
                               THEN "saving" ELSE "advancing"]
  /\ UNCHANGED <<scenario, course, run, output, replayed, detected, investigations,
                 investigationVars, reviewVars>>

\* detected_incidents after one more incident.
Listing(s) ==
  IF Len(investigations[s]) < scenario.maxReports
  THEN Append(detected[s], Incident(LastStep(s))) ELSE detected[s]

\* The incident is listed and its investigation asks for the slot; beyond the budget of
\* reports it is held for review.
JudgedIncident(s) ==
  /\ pc[s] = "classifying"
  /\ detected' = [detected EXCEPT ![s] = Listing(s)]
  /\ IF Len(investigations[s]) < scenario.maxReports
     THEN gate' = Append(gate, s) /\ pc' = [pc EXCEPT ![s] = "queued"]
     ELSE gate' = gate /\ pc' = [pc EXCEPT ![s] = "advancing"]
  /\ UNCHANGED <<scenario, course, run, output, replayed, stop, investigations, work, reviewVars>>

\* The last transaction: the run ends and its output is saved.
Save(s) ==
  /\ pc[s] = "saving"
  /\ LET status == IF stop[s] \in Failures THEN "failed" ELSE "completed" IN
       /\ run' = [run EXCEPT ![RunOf[s]] = status]
       /\ output' = [output EXCEPT ![RunOf[s]] =
            [status |-> status, stop |-> stop[s], detected |-> detected[s],
             investigations |-> investigations[s], reviews |-> {}]]
  /\ pc' = [pc EXCEPT ![s] = "telling"]
  /\ UNCHANGED <<scenario, course, simulationVars, investigationVars, reviewVars>>

\* The transaction raises, and nothing is saved.
SaveFails(s) ==
  /\ pc[s] = "saving"
  /\ FailRun(s)
  /\ UNCHANGED <<scenario, course, output, simulationVars, investigationVars, reviewVars>>

\* The last step is shown, and the simulation returns.
TellLast(s) ==
  /\ pc[s] = "telling"
  /\ pc' = [pc EXCEPT ![s] = "done"]
  /\ UNCHANGED <<scenario, course, run, output, simulationVars, investigationVars, reviewVars>>

\* The callback raises, when the run has ended and its output is committed.
TellFails(s) ==
  /\ pc[s] = "telling"
  /\ FailRun(s)
  /\ UNCHANGED <<scenario, course, output, simulationVars, investigationVars, reviewVars>>

-----------------------------------------------------------------------------------
(* Investigations.                                                                 *)

\* The store of an investigation: a simulation looks at a snapshot of the trigger.
StoreOf(c) ==
  IF c \in Simulation
  THEN Snapshot(scenario.fixture, detected[c][Len(detected[c])].at)
  ELSE scenario.alerts

ScopeFor(c) ==
  IF c \in Simulation
  THEN LET incident == detected[c][Len(detected[c])] IN
       ScopeForDetection(StoreOf(c), incident.trigger.service, incident.start, incident.at)
  ELSE ScopeForAlert(scenario.alerts, scenario.request)

\* A request to investigate the alert goes straight to the slot.
RequestInvestigation(c) ==
  /\ pc[c] = "idle" /\ c \in Direct \cap scenario.callers
  /\ gate' = Append(gate, c)
  /\ pc' = [pc EXCEPT ![c] = "queued"]
  /\ UNCHANGED <<scenario, course, run, output, simulationVars, work, reviewVars>>

HoldsSlot(c) == gate # <<>> /\ Head(gate) = c

\* A faulty form of Released: only the holder hands the slot on.
ReleasedByHolder(c) == IF HoldsSlot(c) THEN Tail(gate) ELSE gate

\* INVESTIGATION_GATE without a caller that ends, is refused or is cancelled.
Released(c) == SelectSeq(gate, LAMBDA other : other # c)

\* The slot is taken, the scope is computed and, for an alert, the run is created.
Acquire(c) ==
  /\ pc[c] = "queued" /\ HoldsSlot(c) /\ ScopeFor(c) # None
  /\ run' = IF c \in Direct THEN [run EXCEPT ![RunOf[c]] = "running"] ELSE run
  /\ work' = [work EXCEPT ![c] = [NoWork EXCEPT !.scope = ScopeFor(c)]]
  /\ pc' = [pc EXCEPT ![c] = "investigating"]
  /\ UNCHANGED <<scenario, course, output, simulationVars, gate, reviewVars>>

\* The trigger or its window is out of bounds: the investigation raises, which fails
\* the run of a simulation.
Refuse(c) ==
  /\ pc[c] = "queued" /\ HoldsSlot(c) /\ ScopeFor(c) = None
  /\ run' = IF c \in Simulation THEN [run EXCEPT ![RunOf[c]] = "failed"] ELSE run
  /\ gate' = Released(c)
  /\ pc' = [pc EXCEPT ![c] = "done"]
  /\ UNCHANGED <<scenario, course, output, simulationVars, work, reviewVars>>

\* compact_records: of many metric points the first and the last are shown, and some of
\* those between (the extremes, the largest changes), which their values decide.
Shown(records) ==
  IF (\A record \in records : record.kind = "metric") /\ Cardinality(records) > MaxShownPoints
  THEN {some \in SUBSET records :
          /\ Cardinality(some) <= MaxShownPoints
          /\ \A record \in records \ some :
               (\E a \in some : Before(a, record)) /\ \E b \in some : Before(record, b)}
  ELSE {records}

\* InvestigatorDeps.record: what is shown is surfaced.  A call beyond the budget is
\* recorded and answers nothing; the agent's usage limit allows one of them.
CallTool(c, q) ==
  /\ pc[c] = "investigating" /\ work[c].calls <= MaxToolCalls
  /\ LET answer == IF work[c].calls < MaxToolCalls
                   THEN Query(StoreOf(c), work[c].scope, q) ELSE None
         found  == IF answer = None THEN [records |-> {}, gaps |-> {}] ELSE answer
     IN  \E shown \in Shown(found.records) :
           work' = [work EXCEPT
                      ![c].calls = @ + 1,
                      ![c].surfaced = @ \cup {record.id : record \in shown},
                      ![c].gaps = @ \cup found.gaps]
  /\ UNCHANGED <<scenario, course, run, output, pc, simulationVars, gate, reviewVars>>

\* `seen` is what the tool steps of the investigation say: the evidence they returned and
\* the gaps they disclosed.  A review that rewrites the payload keeps them.
Investigation(c, reason, evidence, gaps) ==
  [stop |-> reason, evidence |-> evidence, gaps |-> gaps, seen |-> work[c]]

\* run_investigation returns: a simulation goes on, or ends with a failed investigation.
Return(c, reason, evidence, gaps) ==
  /\ gate' = Released(c)
  /\ work' = [work EXCEPT ![c] = NoWork]
  /\ IF c \in Simulation
     THEN /\ investigations' = [investigations EXCEPT
               ![c] = Append(@, Investigation(c, reason, evidence, gaps))]
          /\ stop' = [stop EXCEPT ![c] = reason]
          /\ pc' = [pc EXCEPT ![c] = IF reason \in Failures THEN "saving" ELSE "advancing"]
          /\ UNCHANGED run
     ELSE /\ run' = [run EXCEPT
               ![RunOf[c]] = IF reason \in Failures THEN "failed" ELSE "completed"]
          /\ pc' = [pc EXCEPT ![c] = "done"]
          /\ UNCHANGED <<investigations, stop>>
  /\ UNCHANGED <<scenario, course, output, replayed, detected, reviewVars>>

\* A tool call was refused for lack of budget.
Overrun(c) == work[c].calls > MaxToolCalls

\* The agent has drafted a report: it is verified, unless the budget was overrun.
Draft(c, draft) ==
  /\ pc[c] = "investigating"
  /\ IF Overrun(c) THEN Return(c, "budget_exhausted", {}, {})
     ELSE IF Verified(draft, StoreOf(c), work[c].scope, work[c].surfaced)
     THEN Return(c, "completed", draft.observations \cup draft.causes,
                 ReportGaps(StoreOf(c), work[c].scope))
     ELSE Return(c, "verification_failed", {}, {})

\* The agent runs out of time or of its other budgets, or fails.
AgentStops(c, reason) ==
  /\ pc[c] = "investigating"
  /\ reason \in {"timeout", "budget_exhausted", "agent_error"}
  /\ Return(c, reason, {}, {})

\* The client leaves its stream: the coroutine is cancelled where it waits, gives up
\* the slot or its place, and fails the run that it has started.
Leave(c) ==
  /\ c \in Leaver /\ pc[c] \in Awaiting
  /\ run' = IF c \in Simulation \/ pc[c] = "investigating"
              THEN [run EXCEPT ![RunOf[c]] = "failed"] ELSE run
  /\ gate' = Released(c)
  /\ work' = [work EXCEPT ![c] = NoWork]
  /\ pc' = [pc EXCEPT ![c] = "done"]
  /\ UNCHANGED <<scenario, course, output, simulationVars, reviewVars>>

-----------------------------------------------------------------------------------
(* Reviews: review_report.                                                         *)

\* A faulty form of ReadOutput: the row is read without its lock.
ReadUnlocked(v, r) ==
  /\ v \in scenario.callers /\ reading[v] = None
  /\ output[r] # None
  /\ reading' = [reading EXCEPT ![v] = [run |-> r, saved |-> output[r]]]
  /\ UNCHANGED <<scenario, course, run, output, pc, simulationVars, investigationVars, lock>>

\* The output is read with its row lock.
ReadOutput(v, r) ==
  /\ v \in scenario.callers /\ reading[v] = None
  /\ output[r] # None /\ lock[r] = None
  /\ lock' = [lock EXCEPT ![r] = v]
  /\ reading' = [reading EXCEPT ![v] = [run |-> r, saved |-> output[r]]]
  /\ UNCHANGED <<scenario, course, run, output, pc, simulationVars, investigationVars>>

\* The report of an incident is the one at the place of the incident.
Verifiable(saved, incident) ==
  LET places == {i \in DOMAIN saved.detected : saved.detected[i].id = incident} IN
  places # {} /\ saved.investigations[Min(places)].stop = "completed"

\* The review is added to the payload that was read, and the payload is written.  A
\* report that is unknown, not verified or reviewed already is refused.
Review(v, incident, decision) ==
  /\ reading[v] # None
  /\ LET r     == reading[v].run
         saved == reading[v].saved
     IN  /\ output' = IF /\ Verifiable(saved, incident)
                         /\ \A review \in saved.reviews : review[1] # incident
                      THEN [output EXCEPT ![r] = [saved EXCEPT !.reviews =
                                                    @ \cup {<<incident, decision>>}]]
                      ELSE output
         /\ lock' = [lock EXCEPT ![r] = None]
  /\ reading' = [reading EXCEPT ![v] = None]
  /\ UNCHANGED <<scenario, course, run, pc, simulationVars, investigationVars>>

-----------------------------------------------------------------------------------
SimulationStep(s) ==
  \/ ReplayLog(s)
  \/ ReplayRefused(s)
  \/ ReplayEnds(s)
  \/ Resume(s)
  \/ \E outcome \in scenario.judgments :
       IF outcome = "incident" THEN JudgedIncident(s) ELSE Judged(s, outcome)
  \/ Save(s) \/ SaveFails(s)
  \/ TellLast(s) \/ TellFails(s)

InvestigationStep(c) ==
  \/ Acquire(c)
  \/ Refuse(c)
  \/ \E q \in scenario.queries : CallTool(c, q)
  \/ \E draft \in scenario.drafts : Draft(c, draft)
  \/ \E reason \in Failures : AgentStops(c, reason)

Incidents == UNION {{d.id : d \in {detected[s][i] : i \in DOMAIN detected[s]}} :
                      s \in Simulation}

ReviewStep(v) ==
  \E incident \in Incidents, decision \in {"approved", "changes_requested"} :
    Review(v, incident, decision)

Next ==
  \/ \E s \in Simulation : \/ StartSimulation(s)
                           \/ StartRejected(s)
                           \/ SimulationStep(s)
  \/ \E c \in Direct : RequestInvestigation(c)
  \/ \E c \in Caller : InvestigationStep(c) \/ Leave(c)
  \/ \E v \in Reviewer : ReviewStep(v) \/ \E r \in Run : ReadOutput(v, r)

Spec == Init /\ [][Next]_vars

\* The event loop runs what is ready; the classifier (ten seconds) and the agent (ninety)
\* are bounded by timeouts; a transaction of a review ends.  No client has to leave.
FairSpec ==
  /\ Spec
  /\ \A s \in Simulation : WF_vars(SimulationStep(s))
  /\ \A c \in Caller : WF_vars(InvestigationStep(c))
  /\ \A v \in Reviewer : WF_vars(ReviewStep(v))

-----------------------------------------------------------------------------------
(* Properties.                                                                     *)

\* Detection, while any number of simulations replay: see Clustered.
ClustersWhole ==
  \A s \in Simulation : Clustered(course[replayed[s]], scenario.fixture.related)

\* Detection: see FirstCandidate.
CandidateOnce == \A s \in Simulation : FirstCandidate(course[replayed[s]])

\* A record that could be known of an incident when it was detected.
Observable(id, incident) ==
  \E record \in scenario.fixture.records :
    /\ record.id = id
    /\ record.end <= incident.at /\ record.at >= incident.start
    /\ record.service \in scenario.fixture.related[incident.trigger.service]

\* In a saved simulation the report at the place of an incident is about that incident:
\* whatever it cites was shown to the agent by a tool within its budget, and could be
\* known when the incident was detected; and it discloses every gap the agent was told
\* of that began before.
ReportsObservable ==
  \A r \in Run : output[r] # None =>
    /\ Len(output[r].detected) = Len(output[r].investigations)
    /\ \A i \in DOMAIN output[r].investigations :
         LET incident == output[r].detected[i]
             report   == output[r].investigations[i]
         IN  report.stop = "completed" =>
               /\ \A id \in report.evidence :
                    id \in report.seen.surfaced /\ Observable(id, incident)
               /\ report.seen.calls <= MaxToolCalls
               /\ {gap \in report.seen.gaps : gap.start < incident.at} \subseteq report.gaps

\* What a saved simulation says of itself agrees with its run and its investigations:
\* only the last of them may have failed, and only an unavailable classifier hides how
\* that one ended.
StopReasonsAgree ==
  \A r \in Run : output[r] # None =>
    LET saved == output[r]
        last  == Len(saved.investigations)
    IN  /\ run[r] = saved.status
        /\ \A i \in 1..(last - 1) : saved.investigations[i].stop = "completed"
        /\ last > 0 => saved.stop = saved.investigations[last].stop
                        \/ (saved.stop = "classifier_unavailable"
                              /\ saved.investigations[last].stop = "completed")

\* A review stays as it was recorded, whoever reviews another report of the simulation
\* at the same time, and it is the only one of its report.
ReviewsKept ==
  [][\A r \in Run : output[r] # None =>
       /\ output[r].reviews \subseteq output'[r].reviews
       /\ \A a, b \in output'[r].reviews : a[1] = b[1] => a = b]_vars

\* A run that has started ends, whoever waits for the slot and whoever leaves.
IncidentRunsEnd ==
  \A r \in Run : run[r] = "running" ~> run[r] \in {"completed", "failed"}

====
