------------------------------- MODULE IncidentReplay -------------------------------
(***********************************************************************************)
(* Incident detection (incident_investigation/detection.py): error logs, replayed  *)
(* in the order of their timestamps, fall into groups of one message shape and     *)
(* into clusters of logs that share a request, a trace or a group.  A cluster      *)
(* becomes an incident candidate when enough distinct requests failed in it.       *)
(*                                                                                 *)
(* A replay is a value: Observe(r, log) is the replay r after one more record.     *)
(* Groups and clusters are numbered by the log that opened them, which is how      *)
(* their names sort.  What normalize_message makes of a message is its `shape`.    *)
(***********************************************************************************)
EXTENDS Naturals, Sequences, FiniteSets, FiniteSetsExt

CONSTANTS GroupWindow,       \* GROUP_WINDOW
          MinErrorRequests,  \* MIN_ERROR_REQUESTS
          MaxReplayLogs,     \* MAX_REPLAY_LOGS
          None               \* no request, no trace, no value

ASSUME ReplayAssumption ==
  /\ GroupWindow \in Nat /\ MinErrorRequests \in Nat \ {0} /\ MaxReplayLogs \in Nat
  /\ None \notin Nat

\* replay_logs, its local tables: `groups` by service and shape, `clusters` by number,
\* `groupCluster`, the requests and traces seen in a cluster as `links`, `aliases`
\* of merged clusters, and the steps yielded so far.
EmptyReplay ==
  [groups |-> {}, clusters |-> {}, groupCluster |-> {}, links |-> {},
   aliases |-> {}, steps |-> <<>>]

\* The record that is replayed next.
Before(a, b) == a.at < b.at \/ (a.at = b.at /\ a.id < b.id)
Replayed(r) == {r.steps[i].log : i \in DOMAIN r.steps}
NextLog(r, logs) ==
  CHOOSE log \in logs \ Replayed(r) :
    \A other \in logs \ (Replayed(r) \cup {log}) : Before(log, other)

\* _request_key.
RequestKey(log) ==
  IF log.request # None THEN log.request
  ELSE IF log.trace # None THEN log.trace ELSE log.id

\* canonical: a merged cluster is renamed to an older one.
canonical(r, cluster) ==
  LET follow[c \in 1..Len(r.steps)] ==
        IF \E alias \in r.aliases : alias[1] = c
        THEN follow[(CHOOSE alias \in r.aliases : alias[1] = c)[2]]
        ELSE c
  IN  follow[cluster]

\* The group of an error log: the current one of its service and shape, unless that
\* one has been quiet for more than the window.
GroupOf(r, log) ==
  LET same == {g \in r.groups : /\ g.service = log.service /\ g.shape = log.shape
                                /\ log.at - g.last <= GroupWindow}
  IN  IF same = {} THEN Len(r.steps) + 1 ELSE (CHOOSE g \in same : TRUE).id

\* The live clusters a log may belong to: through its group, its request, its trace.
Possible(r, log, group) ==
  {canonical(r, c) :
     c \in {pair[2] : pair \in {p \in r.groupCluster : p[1] = group}}
           \cup {link[2] : link \in {l \in r.links : l[1] \in {log.request, log.trace}}}}

\* A faulty form of Matching: a cluster is left at five minutes to the second.
MatchingStrict(r, log, possible, related) ==
  {c \in r.clusters :
     /\ c.id \in possible
     /\ \E record \in c.records : /\ record.service \in related[log.service]
                                  /\ log.at - record.at < GroupWindow}

\* Those of them with a recent record of a related service.
Matching(r, log, possible, related) ==
  {c \in r.clusters :
     /\ c.id \in possible
     /\ \E record \in c.records : /\ record.service \in related[log.service]
                                  /\ log.at - record.at <= GroupWindow}

\* A faulty form of Merged: the oldest cluster keeps its own flag.
MergedFirstFlag(matching, id, group, log) ==
  [id      |-> id,
   groups  |-> (UNION {c.groups : c \in matching}) \cup {group},
   records |-> (UNION {c.records : c \in matching}) \cup {log},
   emitted |-> \E c \in matching : c.id = id /\ c.emitted]

\* The cluster of the log, with the clusters the log has brought together.
Merged(matching, id, group, log) ==
  [id      |-> id,
   groups  |-> (UNION {c.groups : c \in matching}) \cup {group},
   records |-> (UNION {c.records : c \in matching}) \cup {log},
   emitted |-> \E c \in matching : c.emitted]

\* The requests that failed in a cluster in the window that ends with the log.
DistinctErrors(cluster, log) ==
  {RequestKey(record) : record \in {e \in cluster.records :
                                      e.at + GroupWindow >= log.at /\ e.at <= log.at}}

Decision(cluster, log) ==
  IF Cardinality(DistinctErrors(cluster, log)) < MinErrorRequests THEN "below_threshold"
  ELSE IF cluster.emitted THEN "duplicate_candidate" ELSE "candidate"

ReplayStep(log, group, cluster, decision) ==
  [log |-> log, group |-> group, cluster |-> cluster.id,
   clusterGroups |-> cluster.groups, decision |-> decision,
   services |-> {record.service : record \in cluster.records}]

\* The body of the loop of replay_logs for an error log.
ObserveError(r, log, related) ==
  LET sequence == Len(r.steps) + 1
      group    == GroupOf(r, log)
      matching == Matching(r, log, Possible(r, log, group), related)
      id       == IF matching = {} THEN sequence ELSE Min({c.id : c \in matching})
      merged   == Merged(matching, id, group, log)
      decision == Decision(merged, log)
      cluster  == [merged EXCEPT !.emitted = @ \/ decision = "candidate"]
      others   == {g \in r.groups : g.service # log.service \/ g.shape # log.shape}
  IN  [groups       |-> others \cup {[id |-> group, service |-> log.service,
                                      shape |-> log.shape, last |-> log.at]},
       clusters     |-> (r.clusters \ matching) \cup {cluster},
       groupCluster |-> {pair \in r.groupCluster : pair[1] # group}
                          \cup {<<group, id>>},
       links        |-> r.links \cup ({log.request, log.trace} \ {None}) \X {id},
       aliases      |-> r.aliases \cup ({c.id : c \in matching} \ {id}) \X {id},
       steps        |-> Append(r.steps, ReplayStep(log, group, cluster, decision))]

\* Any other log is yielded as context.
Observe(r, log, related) ==
  IF log.level = "ERROR" THEN ObserveError(r, log, related)
  ELSE [r EXCEPT !.steps = Append(@, [log |-> log, group |-> None, cluster |-> None,
          clusterGroups |-> {}, decision |-> "routine", services |-> {}])]

\* replay_logs raises before it yields anything.
TooManyLogs(logs) == Cardinality(logs) > MaxReplayLogs

\* replay_logs: the replay after each number of logs.
replay_logs(logs, related) ==
  LET after[n \in 0..Cardinality(logs)] ==
        IF n = 0 THEN EmptyReplay
        ELSE LET r == after[n - 1] IN Observe(r, NextLog(r, logs), related)
  IN  after

\* build_summary: the error logs that the classifier is shown with a candidate.
SummaryLogs(r) ==
  LET trigger == r.steps[Len(r.steps)] IN
  {r.steps[i].log : i \in {i \in DOMAIN r.steps :
                             r.steps[i].group \in trigger.clusterGroups}}

-----------------------------------------------------------------------------------
(* What a replay promises.                                                         *)

Errors(r) == {r.steps[i] : i \in {i \in DOMAIN r.steps : r.steps[i].group # None}}

\* Two error logs, the second of them later, that detection correlates directly.
Correlated(a, b, related) ==
  /\ \/ a.group = b.group
     \/ a.log.request # None /\ a.log.request = b.log.request
     \/ a.log.trace # None /\ a.log.trace = b.log.trace
  /\ Before(a.log, b.log)
  /\ a.log.service \in related[b.log.service]
  /\ b.log.at - a.log.at <= GroupWindow

\* Every error log is in exactly one cluster; logs that share a request, a trace or a
\* group within the window are in the same one, however the clusters of other logs
\* were merged in between; what the tables name is a live cluster; and the logs that
\* are shown with a candidate are those of its cluster.
Clustered(r, related) ==
  /\ \A step \in Errors(r) :
       Cardinality({c \in r.clusters : step.log \in c.records}) = 1
  /\ \A a, b \in Errors(r) :
       Correlated(a, b, related) =>
         \E c \in r.clusters : {a.log, b.log} \subseteq c.records
  /\ \A link \in r.links : \E c \in r.clusters : c.id = canonical(r, link[2])
  /\ r.steps # <<>> /\ r.steps[Len(r.steps)].decision = "candidate" =>
       \E c \in r.clusters : c.records = SummaryLogs(r)

\* A log in a cluster with enough failed requests is a candidate exactly when none of
\* the logs the cluster has gathered, by merging or by itself, was one before.
FirstCandidate(r) ==
  \A i \in DOMAIN r.steps :
    r.steps[i].decision \in {"candidate", "duplicate_candidate"} =>
      (r.steps[i].decision = "candidate" <=>
         \A j \in 1..(i - 1) : ~ /\ r.steps[j].decision = "candidate"
                                 /\ r.steps[j].group \in r.steps[i].clusterGroups)

====
