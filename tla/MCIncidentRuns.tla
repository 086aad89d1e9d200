------------------------------- MODULE MCIncidentRuns -------------------------------
(* Two services that are related and one that is not.  In the replay scenarios one   *)
(* simulation replays every sequence of four error logs that follow a first one;     *)
(* in the others simulations, an alert and reviewers meet over fixed logs.           *)
EXTENDS IncidentRuns, TLC

CONSTANTS s1, s2, s3, d1, v1, v2, r1, r2, rd, q1, q2, q3, t1

MCRelated == [s \in {"web", "pay", "mail"} |->
                IF s = "mail" THEN {"mail"} ELSE {"web", "pay"}]

MCRecord(kind, id, service, at) ==
  [kind |-> kind, id |-> id, service |-> service, at |-> at, end |-> at,
   level |-> None, shape |-> None, request |-> None, trace |-> None, metric |-> None]

MCError(id, at, service, shape, request, trace) ==
  [MCRecord("log", id, service, at) EXCEPT
     !.level = "ERROR", !.shape = shape, !.request = request, !.trace = trace]

MCSpan(id, at, end, service) ==
  [MCRecord("trace", id, service, at) EXCEPT !.end = end, !.trace = t1]

MCFixture(records, gaps, alert) ==
  [start |-> 0, end |-> 12, services |-> {"web", "pay", "mail"}, related |-> MCRelated,
   alert |-> alert, records |-> records, gaps |-> gaps]

\* Replays: web logs of three requests, one of them with pay's trace, and pay logs.
MCTemplate(k, id, at) ==
  CASE k = 1 -> MCError(id, at, "web", "down", q1, None)
    [] k = 2 -> MCError(id, at, "pay", "slow", q2, t1)
    [] k = 3 -> MCError(id, at, "web", "retry", q3, t1)
    [] k = 4 -> MCError(id, at, "web", "down", None, None)
    [] k = 5 -> MCError(id, at, "pay", "slow", q1, None)

\* The templates that the logs follow, a second or two apart.
MCReplayed(f, slow) ==
  LET at(i) == IF slow THEN (3 * i) \div 2 ELSE i
  IN  {MCTemplate(f[i], i, at(i)) : i \in DOMAIN f}

MCQuery(tool, service, start, end) ==
  [tool |-> tool, service |-> service, start |-> start, end |-> end, limit |-> 1,
   level |-> None, trace |-> t1, metric |-> "rate"]

MCGap == [kind |-> "metric", service |-> "web", start |-> 1, end |-> 3]

MCAlerts == MCFixture({MCRecord("change", 1, "web", 2)}, {},
                      [id |-> "alert", service |-> "web", at |-> 3])

MCRequest == [alert |-> "alert", start |-> 1, end |-> 4]

MCScenario(fixture, maxReports, callers, judgments, queries, drafts) ==
  [fixture |-> fixture, alerts |-> MCAlerts, request |-> MCRequest, callers |-> callers,
   maxReports |-> maxReports, judgments |-> judgments, queries |-> queries, drafts |-> drafts]

MCReplays ==
  {MCScenario(MCFixture(MCReplayed(f, slow), {}, None), 1, {s1}, {"not_incident"}, {}, {}) :
     f \in {g \in [1..5 -> 1..5] : g[1] = 1}, slow \in BOOLEAN}

MCDraft(observations, causes, kinds) ==
  [observations |-> observations, causes |-> causes, kinds |-> kinds]

MCDrafts == {MCDraft({11}, {13}, TRUE), MCDraft({12}, {}, TRUE), MCDraft({2}, {}, TRUE),
             MCDraft({16}, {15}, TRUE)}

MCQueries == {MCQuery("search_logs", "pay", 1, 3), MCQuery("get_metric_series", "web", 1, 3),
              MCQuery("inspect_trace", "web", 1, 3), MCQuery("list_changes", "web", 1, 3)}

MCShort == {MCQuery("get_metric_series", "web", 1, 3)}
MCSound == {MCDraft({11}, {}, TRUE)}

MCPoint(id, at) == [MCRecord("metric", id, "web", at) EXCEPT !.metric = "rate"]

\* Two incidents that both are candidates, with spans that end before and after them, and
\* more metric points, spans and changes than a query returns or a model is shown.
MCBusy ==
  MCFixture({MCError(1, 2, "web", "down", q1, None), MCError(2, 3, "web", "down", q2, t1),
             MCError(3, 6, "mail", "lost", q1, None), MCError(4, 6, "mail", "lost", q2, None),
             MCPoint(11, 2), MCPoint(16, 2), MCPoint(17, 2), MCPoint(18, 3), MCPoint(19, 3),
             MCSpan(12, 2, 5, "web"), MCSpan(13, 2, 3, "web"), MCSpan(14, 2, 3, "mail"),
             MCSpan(20, 2, 3, "pay"),
             MCRecord("change", 15, "web", 2), MCRecord("change", 21, "web", 3)},
            {MCGap}, None)

\* A trigger at the first instant of the fixture.
MCEarly == MCFixture({MCError(1, 0, "web", "down", q1, None),
                      MCError(2, 0, "web", "down", q2, None)}, {}, None)

\* More logs than a replay takes.
MCCrowded == MCFixture(MCReplayed([i \in 1..6 |-> 1], FALSE), {}, None)

MCAll == {"incident", "not_incident", "needs_review", "classifier_unavailable"}

MCScenarios ==
  MCReplays \cup
  {MCScenario(MCBusy, 1, {s1}, MCAll, MCQueries, MCDrafts),
   MCScenario(MCBusy, 2, {s1}, MCAll, MCShort, MCSound),
   MCScenario(MCBusy, 3, {s1, v1, v2}, {"incident"}, MCShort, MCSound),
   MCScenario(MCBusy, 1, {s1, s2, d1}, {"incident", "needs_review"}, {}, MCSound),
   MCScenario(MCEarly, 1, {s1, s3, d1}, {"incident"}, {}, {}),
   MCScenario(MCCrowded, 1, {s1, s2, s3}, {"incident"}, {}, {})}

MCRunOf == (s1 :> r1) @@ (s2 :> r2) @@ (s3 :> r1) @@ (d1 :> rd)

====
