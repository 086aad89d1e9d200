------------------------------ MODULE IncidentTelemetry -----------------------------
(***********************************************************************************)
(* The synthetic telemetry of an incident fixture and the scoped, read-only        *)
(* queries of the investigator (incident_investigation/telemetry.py).              *)
(*                                                                                 *)
(* A fixture holds records of four kinds.  A record is observed at `at`; only a    *)
(* trace span ends later, at `end`.  A query that the code refuses (ValueError)    *)
(* answers None.                                                                   *)
(***********************************************************************************)
EXTENDS IncidentReplay

CONSTANTS MaxWindow,       \* MAX_WINDOW
          MaxLogResults,   \* MAX_LOG_RESULTS
          MaxMetricPoints, \* MAX_METRIC_POINTS
          MaxTraceSpans,   \* MAX_TRACE_SPANS
          MaxChangeResults \* MAX_CHANGE_RESULTS

ASSUME TelemetryAssumption ==
  /\ MaxWindow \in Nat /\ MaxLogResults \in Nat
  /\ {MaxMetricPoints, MaxTraceSpans, MaxChangeResults} \subseteq Nat

Kind == {"log", "metric", "trace", "change"}

OfKind(store, kind) == {record \in store.records : record.kind = kind}

\* TelemetryStore._validate_fixture.
ValidFixture(fix) ==
  /\ DOMAIN fix = {"start", "end", "services", "related", "alert", "records", "gaps"}
  /\ {fix.start, fix.end} \subseteq Nat
  /\ fix.start < fix.end /\ fix.end - fix.start <= MaxWindow
  /\ fix.services # {}
  /\ DOMAIN fix.related = fix.services
  /\ \A s \in fix.services : s \in fix.related[s] /\ fix.related[s] \subseteq fix.services
  /\ fix.alert # None =>
       fix.alert.service \in fix.services /\ fix.alert.at \in fix.start..fix.end
  /\ \A a, b \in fix.records : a.id = b.id => a = b
  /\ \A record \in fix.records :
       /\ record.id \in Nat /\ record.service \in fix.services
       /\ record.at \in fix.start..fix.end
       /\ record.end \in Nat /\ record.end >= record.at
  /\ \A gap \in fix.gaps :
       /\ gap.kind \in Kind /\ gap.service \in fix.services
       /\ {gap.start, gap.end} \subseteq fix.start..fix.end /\ gap.start < gap.end

InWindow(fix, start, end) ==
  {start, end} \subseteq fix.start..fix.end /\ start < end /\ end - start <= MaxWindow

ScopeOf(fix, service, start, end) ==
  [services |-> fix.related[service], start |-> start, end |-> end]

\* scope_for_alert: an investigation of the alert of the fixture.
ScopeForAlert(fix, request) ==
  IF fix.alert # None /\ request.alert = fix.alert.id
       /\ InWindow(fix, request.start, request.end)
  THEN ScopeOf(fix, fix.alert.service, request.start, request.end)
  ELSE None

\* scope_for_detection.
ScopeForDetection(fix, service, start, end) ==
  IF service \in fix.services /\ InWindow(fix, start, end)
  THEN ScopeOf(fix, service, start, end) ELSE None

\* A faulty form of Snapshot: a span counts from its start.
SnapshotByStart(fix, cutoff) ==
  [fix EXCEPT !.records = {record \in fix.records : record.at <= cutoff}]

\* snapshot: the records that are fully observed at the cutoff.
Snapshot(fix, cutoff) ==
  [fix EXCEPT !.records = {record \in fix.records : record.end <= cutoff}]

-----------------------------------------------------------------------------------
(* Queries.                                                                        *)

\* _window refuses the services and the times outside the scope.
WindowAllowed(scope, q) ==
  /\ q.service \in scope.services
  /\ {q.start, q.end} \subseteq scope.start..scope.end /\ q.start < q.end

\* _gaps.
Gaps(store, kind, service, start, end) ==
  {gap \in store.gaps :
     gap.kind = kind /\ gap.service = service /\ gap.start < end /\ gap.end > start}

\* A result is sorted by time and identifier, and cut.
Earliest(records, limit) ==
  {record \in records : Cardinality({b \in records : Before(b, record)}) < limit}

Within(store, kind, q) ==
  {record \in OfKind(store, kind) :
     record.service = q.service /\ record.at \in q.start..q.end}

Answer(store, kind, q, records) ==
  [records |-> records, gaps |-> Gaps(store, kind, q.service, q.start, q.end)]

SearchLogs(store, scope, q) ==
  IF WindowAllowed(scope, q) /\ q.limit \in 1..MaxLogResults
  THEN Answer(store, "log", q,
              Earliest({log \in Within(store, "log", q) :
                          /\ q.level \in {None, log.level}
                          /\ q.trace \in {None, log.trace}}, q.limit))
  ELSE None

GetMetricSeries(store, scope, q) ==
  IF /\ WindowAllowed(scope, q)
     /\ \E point \in OfKind(store, "metric") : /\ point.service = q.service
                                               /\ point.metric = q.metric
  THEN Answer(store, "metric", q,
              Earliest({point \in Within(store, "metric", q) : point.metric = q.metric},
                       MaxMetricPoints))
  ELSE None

\* The spans of a trace that the scope may see.
TraceSpans(store, scope, q) ==
  {span \in OfKind(store, "trace") :
     /\ span.trace = q.trace
     /\ span.service \in scope.services
     /\ span.at \in scope.start..scope.end}

\* The gaps are those of all its spans, the ones that are cut off included.
InspectTrace(store, scope, q) ==
  LET spans == TraceSpans(store, scope, q) IN
  IF spans = {} THEN None
  ELSE [records |-> Earliest(spans, MaxTraceSpans),
        gaps    |-> {gap \in store.gaps :
                       /\ gap.kind = "trace" /\ gap.service \in scope.services
                       /\ \E span \in spans : gap.start <= span.at /\ span.at < gap.end}]

ListChanges(store, scope, q) ==
  IF WindowAllowed(scope, q)
  THEN Answer(store, "change", q, Earliest(Within(store, "change", q), MaxChangeResults))
  ELSE None

Tools == {"search_logs", "get_metric_series", "inspect_trace", "list_changes"}

Query(store, scope, q) ==
  CASE q.tool = "search_logs"       -> SearchLogs(store, scope, q)
    [] q.tool = "get_metric_series" -> GetMetricSeries(store, scope, q)
    [] q.tool = "inspect_trace"     -> InspectTrace(store, scope, q)
    [] q.tool = "list_changes"      -> ListChanges(store, scope, q)

-----------------------------------------------------------------------------------
(* verification.py: a draft is accepted with its citations or not at all.          *)

\* The records a claim may cite.
Citable(store, scope, surfaced) ==
  {record.id : record \in {x \in store.records : /\ x.id \in surfaced
                                                 /\ x.service \in scope.services
                                                 /\ x.at \in scope.start..scope.end}}

\* verify_report: `kinds` says whether observations and causes are of their kinds.
Verified(draft, store, scope, surfaced) ==
  /\ draft.observations # {}
  /\ draft.kinds
  /\ draft.observations \cup draft.causes \subseteq Citable(store, scope, surfaced)

\* The coverage gaps that a report discloses.
ReportGaps(store, scope) ==
  {gap \in store.gaps : /\ gap.service \in scope.services
                        /\ gap.start < scope.end /\ gap.end > scope.start}

====
