----------------------------- MODULE IncidentRunsProofs -----------------------------
(***********************************************************************************)
(* Incident runs, for any fixtures, clients, classifiers, agents and reviewers:    *)
(* a saved simulation agrees with its run, its reports rest on what was observable *)
(* when their incidents were detected, no review of them is lost, and its replay   *)
(* keeps what it correlates in one cluster, which is a candidate once.             *)
(***********************************************************************************)
EXTENDS IncidentRuns, SequenceTheorems, FiniteSetTheorems, WellFoundedInduction, TLAPS

-----------------------------------------------------------------------------------
(* The inductive invariant.                                                        *)

IsSequence(s) == s \in Seq({s[i] : i \in DOMAIN s})

TypeInv ==
  /\ scenario \in Scenarios
  /\ DOMAIN run = Run /\ DOMAIN output = Run /\ DOMAIN lock = Run
  /\ DOMAIN reading = Reviewer
  /\ pc \in [Caller -> Phase]
  /\ DOMAIN stop = Simulation /\ DOMAIN detected = Simulation
  /\ DOMAIN investigations = Simulation
  /\ DOMAIN work = Caller

\* The report at the place of an incident is about it.
ReportOf(incident, report) ==
  report.stop = "completed" =>
    /\ \A id \in report.evidence : id \in report.seen.surfaced /\ Observable(id, incident)
    /\ report.seen.calls <= MaxToolCalls
    /\ {gap \in report.seen.gaps : gap.start < incident.at} \subseteq report.gaps

\* What a list of incidents and their investigations, and the reason it stopped for, say.
Told(incidents, reports, reason) ==
  /\ Len(incidents) = Len(reports)
  /\ \A i \in DOMAIN reports : ReportOf(incidents[i], reports[i])
  /\ \A i \in 1..(Len(reports) - 1) : reports[i].stop = "completed"
  /\ Len(reports) > 0 =>
       \/ reason = reports[Len(reports)].stop
       \/ reason = "classifier_unavailable" /\ reports[Len(reports)].stop = "completed"

\* An incident is listed while its investigation is under way.
Investigated(s) == pc[s] \in {"queued", "investigating"}

\* A simulation that goes on: nothing has failed yet.
StoryOf(s) ==
  /\ IsSequence(detected[s]) /\ IsSequence(investigations[s])
  /\ pc[s] = "saving" => Told(detected[s], investigations[s], stop[s])
  /\ pc[s] \notin {"saving", "telling", "done"} =>
       /\ Len(detected[s]) = Len(investigations[s]) + (IF Investigated(s) THEN 1 ELSE 0)
       /\ \A i \in DOMAIN investigations[s] :
            /\ ReportOf(detected[s][i], investigations[s][i])
            /\ investigations[s][i].stop = "completed"
       /\ Len(investigations[s]) > 0 => stop[s] = "completed"

\* What the agent has been shown is within the scope of the incident.
WorkOf(s) ==
  pc[s] = "investigating" =>
    /\ ScopeFor(s) # None /\ work[s].scope = ScopeFor(s)
    /\ DOMAIN work[s] = DOMAIN NoWork /\ work[s].calls \in Nat
    /\ \A gap \in work[s].gaps :
         /\ gap \in StoreOf(s).gaps /\ gap.service \in work[s].scope.services
         /\ gap.end > work[s].scope.start

Busy(s) == pc[s] \notin {"idle", "telling", "done"}

\* A run belongs to the one simulation that is replaying it, and has no output yet.
OwnInv ==
  /\ \A s \in Simulation : Busy(s) => run[RunOf[s]] = "running" /\ output[RunOf[s]] = None
  /\ \A s, t \in Simulation : Busy(s) /\ Busy(t) /\ RunOf[s] = RunOf[t] => s = t
  /\ \A c \in Direct : output[RunOf[c]] = None
  /\ \A r \in Run : run[r] = "none" => output[r] = None

\* What is saved of a run.
SavedOf(r) ==
  output[r] # None =>
    /\ DOMAIN output[r] = {"status", "stop", "detected", "investigations", "reviews"}
    /\ run[r] = output[r].status
    /\ Told(output[r].detected, output[r].investigations, output[r].stop)
    /\ \A a, b \in output[r].reviews : a[1] = b[1] => a = b

\* What a reviewer has read is what is saved, for as long as the row is locked.
ReadingOf(v) ==
  reading[v] # None =>
    /\ reading[v].run \in Run /\ lock[reading[v].run] = v
    /\ output[reading[v].run] # None /\ reading[v].saved = output[reading[v].run]

RunsInv ==
  /\ TypeInv /\ OwnInv
  /\ \A s \in Simulation : StoryOf(s) /\ WorkOf(s)
  /\ \A r \in Run : SavedOf(r)
  /\ \A v \in Reviewer : ReadingOf(v)

\* A simulation whose last step is being shown has ended its run.
EndedInv == \A s \in Simulation : pc[s] = "telling" => run[RunOf[s]] \in R!Terminal

-----------------------------------------------------------------------------------
(* Sequences.                                                                      *)

LEMMA SequenceOf ==
  ASSUME NEW n \in Nat, NEW s, s = [i \in 1 .. n |-> s[i]]
  PROVE  IsSequence(s) /\ Len(s) = n /\ DOMAIN s = 1 .. n
<1> DEFINE S == {s[i] : i \in DOMAIN s}
<1>1. DOMAIN s = 1 .. n
  OBVIOUS
<1>2. s \in [1 .. n -> S]
  BY <1>1
<1>3. s \in Seq(S)
  BY <1>2, SeqDef
<1>4. QED
  BY <1>1, <1>3, LenProperties DEF IsSequence

LEMMA Appended ==
  ASSUME NEW s, IsSequence(s), NEW x
  PROVE  LET u == Append(s, x) IN
         /\ Len(s) \in Nat /\ DOMAIN s = 1 .. Len(s)
         /\ IsSequence(u) /\ Len(u) = Len(s) + 1 /\ DOMAIN u = 1 .. (Len(s) + 1)
         /\ \A i \in DOMAIN s : u[i] = s[i]
         /\ u[Len(s) + 1] = x
<1> DEFINE S == {s[i] : i \in DOMAIN s} \cup {x}
           u == Append(s, x)
<1>1. s \in Seq(S) /\ x \in S
  BY SeqMonotonic DEF IsSequence
<1>2. Len(s) \in Nat /\ DOMAIN s = 1 .. Len(s)
  BY <1>1, LenProperties
<1>3. /\ u \in Seq(S) /\ Len(u) = Len(s) + 1
      /\ \A i \in 1 .. Len(s) : u[i] = s[i]
      /\ u[Len(s) + 1] = x
  BY <1>1, AppendProperties
<1> HIDE DEF S, u
<1>4. u \in [1 .. (Len(s) + 1) -> S]
  BY <1>3, LenProperties
<1>5. IsSequence(u) /\ DOMAIN u = 1 .. (Len(s) + 1)
  BY <1>2, <1>4, SequenceOf
<1>6. QED
  BY <1>2, <1>3, <1>5 DEF u

-----------------------------------------------------------------------------------
(* Recursion: the names of clusters and the replay, as tlapm sees them.            *)

\* The order of the natural numbers, as the library states that it is well-founded.
Less == {p \in Nat \X Nat : p[1] < p[2]}

\* Induction over the logs of a replay goes by its least counterexample.
LEMMA SmallestNat ==
  ASSUME NEW S, S \subseteq Nat, S # {}
  PROVE  \E n \in S : \A m \in S : n <= m
<1>1. IsWellFoundedOn(Less, Nat)
  BY NatLessThanWellFounded DEF OpToRel, Less
<1>2. PICK n \in S : \A m \in S : ~ (<<m, n>> \in Less)
  BY <1>1, WFMin
<1>3. ASSUME NEW m \in S PROVE n <= m
  <2>1. ~ (m < n) /\ m \in Nat /\ n \in Nat
    BY <1>2 DEF Less
  <2>2. QED
    BY <2>1
<1>4. QED
  BY <1>3

\* What `canonical` does with a cluster: it follows the alias of the cluster, if any.
Aim(r, c) == (CHOOSE alias \in r.aliases : alias[1] = c)[2]
Aliased(r, c) == \E alias \in r.aliases : alias[1] = c

\* Aliases lead down, so the function that follows them exists.
LEMMA FollowExists ==
  ASSUME NEW r,
         \A alias \in r.aliases : alias[1] \in Nat /\ alias[2] \in Nat \ {0} /\ alias[2] < alias[1]
  PROVE  \A n \in Nat : \E g : g = [c \in 1 .. n |-> IF Aliased(r, c) THEN g[Aim(r, c)] ELSE c]
<1> DEFINE Eq(g, n) == g = [c \in 1 .. n |-> IF Aliased(r, c) THEN g[Aim(r, c)] ELSE c]
           T == {n \in Nat : ~ \E g : Eq(g, n)}
<1>1. \A c \in Nat : Aliased(r, c) => Aim(r, c) \in Nat \ {0} /\ Aim(r, c) < c
  BY DEF Aliased, Aim
<1>2. SUFFICES ASSUME T # {} PROVE FALSE
  OBVIOUS
<1>3. PICK n \in T : \A m \in T : n <= m
  BY <1>2, SmallestNat
<1>4. CASE n = 0
  <2> DEFINE e == [c \in 1 .. 0 |-> 0]
  <2>1. Eq(e, 0)
    OBVIOUS
  <2>2. QED
    BY <1>3, <1>4, <2>1
<1>5. CASE n # 0
  <2>1. n - 1 \in Nat /\ n \in Nat /\ n - 1 \notin T
    BY <1>3, <1>5
  <2>2. PICK g : Eq(g, n - 1)
    BY <2>1
  <2> DEFINE h == [c \in 1 .. n |-> IF c = n THEN IF Aliased(r, n) THEN g[Aim(r, n)] ELSE n
                                              ELSE g[c]]
  <2>3. \A c \in 1 .. n - 1 : h[c] = g[c]
    BY <2>1
  <2>4. \A c \in 1 .. n - 1 : g[c] = IF Aliased(r, c) THEN g[Aim(r, c)] ELSE c
    BY <2>2
  <2>5. \A c \in 1 .. n : Aliased(r, c) => Aim(r, c) \in 1 .. n - 1
    BY <1>1, <2>1
  <2>6. h[n] = IF Aliased(r, n) THEN g[Aim(r, n)] ELSE n
    BY <2>1, <1>5
  <2>7. \A c \in 1 .. n : h[c] = IF Aliased(r, c) THEN h[Aim(r, c)] ELSE c
    <3>1. ASSUME NEW c \in 1 .. n PROVE h[c] = IF Aliased(r, c) THEN h[Aim(r, c)] ELSE c
      <4> HIDE DEF h
      <4>1. c = n \/ c \in 1 .. n - 1
        BY <2>1
      <4>2. QED
        BY <2>3, <2>4, <2>5, <2>6, <4>1
    <3>2. QED
      BY <3>1
  <2>8. Eq(h, n)
    BY <2>7
  <2>9. QED
    BY <1>3, <2>8
<1>6. QED
  BY <1>4, <1>5

\* Aliases are of the clusters of a replay, and lead to older ones.
AliasesInv(r) ==
  /\ Len(r.steps) \in Nat
  /\ \A alias \in r.aliases :
       alias[1] \in 1 .. Len(r.steps) /\ alias[2] \in 1 .. Len(r.steps) /\ alias[2] < alias[1]

\* A cluster is called what its alias is called.
LEMMA Canonical ==
  ASSUME NEW r, AliasesInv(r), NEW c \in 1 .. Len(r.steps)
  PROVE  canonical(r, c) = IF Aliased(r, c) THEN canonical(r, Aim(r, c)) ELSE c
<1> DEFINE n == Len(r.steps)
           Follow(g) == g = [x \in 1 .. n |-> IF Aliased(r, x) THEN g[Aim(r, x)] ELSE x]
           f == CHOOSE g : Follow(g)
<1>1. \E g : Follow(g)
  BY FollowExists DEF AliasesInv
<1>2. Follow(f)
  BY <1>1
<1>3. \A x : canonical(r, x) = f[x]
  BY DEF canonical, Aliased, Aim
<1>4. f[c] = IF Aliased(r, c) THEN f[Aim(r, c)] ELSE c
  BY <1>2
<1> HIDE DEF f, Follow
<1>5. QED
  BY <1>3, <1>4

\* Function g is the replay of the logs after each number of them, up to n.
CourseOf(g, n, logs, related) ==
  g = [i \in 0 .. n |-> IF i = 0 THEN EmptyReplay
                       ELSE Observe(g[i - 1], NextLog(g[i - 1], logs), related)]

\* There is such a function.
LEMMA ReplayExists ==
  ASSUME NEW logs, NEW related
  PROVE  \A n \in Nat : \E g : CourseOf(g, n, logs, related)
<1> DEFINE Step(r) == Observe(r, NextLog(r, logs), related)
           Eq(g, n) == g = [i \in 0 .. n |-> IF i = 0 THEN EmptyReplay ELSE Step(g[i - 1])]
           T == {n \in Nat : ~ \E g : CourseOf(g, n, logs, related)}
<1>1. \A g, n : CourseOf(g, n, logs, related) <=> Eq(g, n)
  BY DEF CourseOf
<1>2. SUFFICES ASSUME T # {} PROVE FALSE
  OBVIOUS
<1>3. PICK n \in T : \A m \in T : n <= m
  BY <1>2, SmallestNat
<1> HIDE DEF Step
<1>4. CASE n = 0
  <2> DEFINE e == [i \in 0 .. 0 |-> EmptyReplay]
  <2>1. Eq(e, 0)
    OBVIOUS
  <2>2. QED
    BY <1>1, <1>3, <1>4, <2>1
<1>5. CASE n # 0
  <2>1. n - 1 \in Nat /\ n \in Nat /\ n - 1 \notin T
    BY <1>3, <1>5
  <2>2. PICK g : Eq(g, n - 1)
    BY <1>1, <2>1
  <2> DEFINE h == [i \in 0 .. n |-> IF i = n THEN Step(g[n - 1]) ELSE g[i]]
  <2>3. \A i \in 0 .. n - 1 : h[i] = g[i]
    BY <2>1
  <2>4. \A i \in 0 .. n - 1 : g[i] = IF i = 0 THEN EmptyReplay ELSE Step(g[i - 1])
    BY <2>2
  <2>5. h[n] = Step(g[n - 1])
    BY <2>1
  <2>6. ASSUME NEW i \in 0 .. n
        PROVE  h[i] = IF i = 0 THEN EmptyReplay ELSE Step(h[i - 1])
    <3> HIDE DEF h
    <3>1. CASE i = n
      BY <1>5, <2>1, <2>3, <2>5, <3>1
    <3>2. CASE i # n
      <4>1. i \in 0 .. n - 1 /\ (i # 0 => i - 1 \in 0 .. n - 1)
        BY <2>1, <3>2
      <4>2. QED
        BY <2>3, <2>4, <4>1
    <3>3. QED
      BY <3>1, <3>2
  <2>7. Eq(h, n)
    BY <2>6
  <2>8. QED
    BY <1>1, <1>3, <2>7
<1>6. QED
  BY <1>4, <1>5

\* What replay_logs says of one log more.
LEMMA Course ==
  ASSUME NEW logs, NEW related, Cardinality(logs) \in Nat
  PROVE  /\ replay_logs(logs, related)[0] = EmptyReplay
         /\ \A n \in 1 .. Cardinality(logs) :
              replay_logs(logs, related)[n]
                = Observe(replay_logs(logs, related)[n - 1],
                          NextLog(replay_logs(logs, related)[n - 1], logs), related)
<1> DEFINE Step(r) == Observe(r, NextLog(r, logs), related)
           N == Cardinality(logs)
           Eq(g) == g = [i \in 0 .. N |-> IF i = 0 THEN EmptyReplay ELSE Step(g[i - 1])]
           f == CHOOSE g : CourseOf(g, N, logs, related)
<1>1. \E g : CourseOf(g, N, logs, related)
  BY ReplayExists
<1>2. CourseOf(f, N, logs, related)
  BY <1>1
<1>3. PICK g : g = replay_logs(logs, related)
  OBVIOUS
<1>4. Eq(g)
  BY <1>2, <1>3 DEF replay_logs, CourseOf
<1> HIDE DEF f, Step
<1>5. g[0] = EmptyReplay
  BY <1>4
<1>6. ASSUME NEW n \in 1 .. N
      PROVE  g[n] = Observe(g[n - 1], NextLog(g[n - 1], logs), related)
  <2>1. g[n] = Step(g[n - 1])
    BY <1>4
  <2>2. QED
    BY <2>1 DEF Step
<1>7. QED
  BY <1>3, <1>5, <1>6

\* The logs of a valid fixture: finitely many, told apart by their identifiers.
LogsOK(logs, related) ==
  /\ IsFiniteSet(logs)
  /\ \A a, b \in logs : a.id = b.id => a = b
  /\ \A log \in logs : log.at \in Nat /\ log.id \in Nat /\ log.service \in related[log.service]

\* The next log is the earliest of those that are left.
LEMMA NextLogIsFirst ==
  ASSUME NEW logs, NEW related, LogsOK(logs, related), NEW r, logs \ Replayed(r) # {}
  PROVE  /\ NextLog(r, logs) \in logs \ Replayed(r)
         /\ \A other \in logs \ (Replayed(r) \cup {NextLog(r, logs)}) :
              Before(NextLog(r, logs), other)
<1> DEFINE left == logs \ Replayed(r)
           First(log) == \A other \in logs \ (Replayed(r) \cup {log}) : Before(log, other)
<1>1. PICK t \in {log.at : log \in left} : \A u \in {log.at : log \in left} : t <= u
  <2>1. {log.at : log \in left} \subseteq Nat /\ {log.at : log \in left} # {}
    BY DEF LogsOK
  <2>2. QED
    BY <2>1, SmallestNat
<1>2. PICK k \in {log.id : log \in {x \in left : x.at = t}} :
        \A j \in {log.id : log \in {x \in left : x.at = t}} : k <= j
  <2>1. /\ {log.id : log \in {x \in left : x.at = t}} \subseteq Nat
        /\ {log.id : log \in {x \in left : x.at = t}} # {}
    BY <1>1 DEF LogsOK
  <2>2. QED
    BY <2>1, SmallestNat
<1>3. PICK log \in left : log.at = t /\ log.id = k
  BY <1>2
<1>4. ASSUME NEW other \in logs \ (Replayed(r) \cup {log}) PROVE Before(log, other)
  <2>1. /\ other \in left /\ other # log /\ other.at \in Nat /\ other.id \in Nat
        /\ log.at \in Nat /\ log.id \in Nat /\ other.id # log.id
    BY <1>3 DEF LogsOK
  <2>2. log.at <= other.at /\ (other.at = log.at => log.id <= other.id)
    BY <1>1, <1>2, <1>3, <2>1
  <2>3. QED
    BY <2>1, <2>2 DEF Before
<1>5. \E x \in left : First(x)
  BY <1>4
<1>6. NextLog(r, logs) \in left /\ First(NextLog(r, logs))
  BY <1>5 DEF NextLog
<1>7. QED
  BY <1>6

-----------------------------------------------------------------------------------
(* The invariant of a replay.                                                      *)

\* The steps are the logs so far, each once and before those that are left.
StepsInv(r, logs) ==
  /\ IsSequence(r.steps)
  /\ \A i \in DOMAIN r.steps :
       /\ r.steps[i].log \in logs
       /\ r.steps[i].group \in {None} \cup 1 .. Len(r.steps)
       /\ \A other \in logs \ Replayed(r) : Before(r.steps[i].log, other)
  /\ \A i, j \in DOMAIN r.steps : r.steps[i].log = r.steps[j].log => i = j

\* A cluster has the logs of its groups, and its flag is up when one was a candidate.
ClusterInv(r, c) ==
  /\ c.id \in 1 .. Len(r.steps) /\ c.groups \subseteq 1 .. Len(r.steps)
  /\ \A x : x \in c.records <=> \E i \in DOMAIN r.steps : /\ r.steps[i].log = x
                                                       /\ r.steps[i].group \in c.groups
  /\ c.emitted <=> \E i \in DOMAIN r.steps : /\ r.steps[i].decision = "candidate"
                                             /\ r.steps[i].group \in c.groups

\* No two clusters share a name or a group.
ClustersInv(r) ==
  /\ \A c \in r.clusters : ClusterInv(r, c)
  /\ \A c, d \in r.clusters : c.id = d.id \/ c.groups \cap d.groups # {} => c = d

\* A live cluster has its own name, a merged one has one alias.
AliasInv(r) ==
  /\ AliasesInv(r)
  /\ \A a, b \in r.aliases : a[1] = b[1] => a = b
  /\ \A c \in r.clusters : ~ Aliased(r, c.id)

\* Cluster c is what a table means by the number t.
Leads(r, t, c) == t \in 1 .. Len(r.steps) /\ canonical(r, t) = c.id

\* Cluster c has the group of a step, and the keys of its log lead to c.
Placed(r, step, c) ==
  /\ step.group \in c.groups
  /\ \A key \in {step.log.request, step.log.trace} \ {None} :
       \E link \in r.links : link[1] = key /\ Leads(r, link[2], c)

\* What the tables name is alive: the groups, requests and traces of the steps lead to
\* the cluster that has their logs, and a group was last seen in its own.
TablesInv(r) ==
  /\ \A link \in r.links \cup r.groupCluster : \E c \in r.clusters : Leads(r, link[2], c)
  /\ \A c \in r.clusters : \A k \in c.groups :
       \E pair \in r.groupCluster : pair[1] = k /\ Leads(r, pair[2], c)
  /\ \A g \in r.groups : \E c \in r.clusters :
       /\ g.id \in c.groups
       /\ \E x \in c.records : x.service = g.service /\ x.at = g.last
  /\ \A i \in DOMAIN r.steps : r.steps[i].group # None =>
       \E c \in r.clusters : Placed(r, r.steps[i], c)

\* What detection correlates is together.
CorrelatedInv(r, related) ==
  \A i, j \in DOMAIN r.steps :
    /\ r.steps[i].group # None /\ r.steps[j].group # None
    /\ Correlated(r.steps[i], r.steps[j], related)
    => \E c \in r.clusters : r.steps[i].group \in c.groups /\ r.steps[j].group \in c.groups

\* The groups shown with a candidate are those of its cluster, until the next log.
SummaryInv(r) ==
  r.steps # <<>> /\ r.steps[Len(r.steps)].decision = "candidate" =>
    \E c \in r.clusters : c.groups = r.steps[Len(r.steps)].clusterGroups

\* The invariant of a replay.
ReplayInv(r, logs, related) ==
  /\ DOMAIN r = {"groups", "clusters", "groupCluster", "links", "aliases", "steps"}
  /\ StepsInv(r, logs)
  /\ ClustersInv(r)
  /\ AliasInv(r)
  /\ TablesInv(r)
  /\ CorrelatedInv(r, related)
  /\ SummaryInv(r)
  /\ FirstCandidate(r)

\* In replay u the clusters of M have the name id.
RenamedTo(r, u, M, id) ==
  /\ AliasesInv(u)
  /\ \A a, b \in u.aliases : a[1] = b[1] => a = b
  /\ \A t : Aliased(u, t) <=> Aliased(r, t) \/ t \in M
  /\ \A t \in 1 .. Len(r.steps) :
       canonical(u, t) = IF canonical(r, t) \in M THEN id ELSE canonical(r, t)
  /\ canonical(u, Len(r.steps) + 1) = Len(r.steps) + 1

\* The effect of new aliases on the names: clusters of M are now called id.
LEMMA Renamed ==
  ASSUME NEW r, NEW u, AliasInv(r), Len(u.steps) = Len(r.steps) + 1,
         NEW M, NEW id \in 1 .. (Len(r.steps) + 1), ~ Aliased(r, id),
         M \subseteq 1 .. Len(r.steps),
         \A m \in M : id < m /\ ~ Aliased(r, m),
         u.aliases = r.aliases \cup (M \X {id})
  PROVE  RenamedTo(r, u, M, id)
<1> DEFINE n == Len(r.steps)
<1>1. n \in Nat /\ Len(u.steps) = n + 1
  BY DEF AliasInv, AliasesInv
<1>2. \A alias \in u.aliases :
        \/ alias \in r.aliases
        \/ \E m \in M : alias = <<m, id>> /\ alias[1] = m /\ alias[2] = id
  <2>1. ASSUME NEW alias \in M \X {id}
        PROVE  \E m \in M : alias = <<m, id>> /\ alias[1] = m /\ alias[2] = id
    <3>1. alias = <<alias[1], alias[2]>> /\ alias[1] \in M /\ alias[2] = id
      OBVIOUS
    <3>2. QED
      BY <3>1
  <2>2. QED
    BY <2>1
<1>3. \A m \in M : <<m, id>> \in u.aliases /\ <<m, id>>[1] = m
  OBVIOUS
<1>4. AliasesInv(u)
  <2>1. ASSUME NEW alias \in u.aliases
        PROVE  /\ alias[1] \in 1 .. (n + 1) /\ alias[2] \in 1 .. (n + 1)
               /\ alias[2] < alias[1]
    <3>1. CASE alias \in r.aliases
      BY <1>1, <3>1 DEF AliasInv, AliasesInv
    <3>2. CASE alias \notin r.aliases
      BY <1>1, <1>2, <3>2
    <3>3. QED
      BY <3>1, <3>2
  <2>2. QED
    BY <1>1, <2>1 DEF AliasesInv
<1>5. \A a, b \in u.aliases : a[1] = b[1] => a = b
  BY <1>2 DEF AliasInv, Aliased
<1>6. \A t : Aliased(u, t) <=> Aliased(r, t) \/ t \in M
  BY <1>2, <1>3 DEF Aliased
<1>7. \A t : Aliased(r, t) => Aim(u, t) = Aim(r, t)
  <2>1. ASSUME NEW t, Aliased(r, t) PROVE Aim(u, t) = Aim(r, t)
    <3>1. PICK a \in r.aliases : a[1] = t
      BY <2>1 DEF Aliased
    <3>2. a \in u.aliases
      OBVIOUS
    <3>3. (CHOOSE alias \in r.aliases : alias[1] = t) = a
      BY <3>1 DEF AliasInv
    <3>4. (CHOOSE alias \in u.aliases : alias[1] = t) = a
      BY <3>1, <3>2, <1>5
    <3>5. QED
      BY <3>3, <3>4 DEF Aim
  <2>2. QED
    BY <2>1
<1>8. \A m \in M : Aim(u, m) = id
  <2>1. ASSUME NEW m \in M PROVE Aim(u, m) = id
    <3>1. PICK a \in u.aliases : a[1] = m /\ a[2] = id
      BY <1>3
    <3>2. (CHOOSE alias \in u.aliases : alias[1] = m) = a
      BY <1>5, <3>1
    <3>3. QED
      BY <3>1, <3>2 DEF Aim
  <2>2. QED
    BY <2>1
<1>9. \A t \in 1 .. (n + 1) :
        canonical(u, t) = IF Aliased(u, t) THEN canonical(u, Aim(u, t)) ELSE t
  BY <1>1, <1>4, Canonical
<1>10. \A t \in 1 .. n :
         canonical(r, t) = IF Aliased(r, t) THEN canonical(r, Aim(r, t)) ELSE t
  BY Canonical DEF AliasInv
<1>11. \A t \in 1 .. n : Aliased(r, t) => Aim(r, t) \in 1 .. n /\ Aim(r, t) < t
  <2>1. ASSUME NEW t \in 1 .. n, Aliased(r, t) PROVE Aim(r, t) \in 1 .. n /\ Aim(r, t) < t
    <3>1. (CHOOSE alias \in r.aliases : alias[1] = t) \in r.aliases
          /\ (CHOOSE alias \in r.aliases : alias[1] = t)[1] = t
      BY <2>1 DEF Aliased
    <3>2. QED
      BY <3>1 DEF Aim, AliasInv, AliasesInv
  <2>2. QED
    BY <2>1
<1>12. \A t \in 1 .. n :
         canonical(u, t) = IF canonical(r, t) \in M THEN id ELSE canonical(r, t)
  <2> DEFINE T == {t \in 1 .. n :
                     canonical(u, t) # IF canonical(r, t) \in M THEN id ELSE canonical(r, t)}
  <2>1. SUFFICES ASSUME T # {} PROVE FALSE
    OBVIOUS
  <2>2. PICK t \in T : \A s \in T : t <= s
    <3>1. T \subseteq Nat
      BY <1>1
    <3>2. QED
      BY <2>1, <3>1, SmallestNat
  <2>3. t \in 1 .. n /\ t \in 1 .. (n + 1)
    BY <1>1, <2>2
  <2>4. CASE Aliased(r, t)
    <3>1. Aim(r, t) \notin T /\ Aim(r, t) \in 1 .. n
      BY <1>1, <1>11, <2>2, <2>3, <2>4
    <3>2. /\ canonical(u, t) = canonical(u, Aim(r, t))
          /\ canonical(r, t) = canonical(r, Aim(r, t))
      BY <1>6, <1>7, <1>9, <1>10, <2>3, <2>4
    <3>3. QED
      BY <2>2, <3>1, <3>2
  <2>5. CASE ~ Aliased(r, t) /\ t \in M
    <3>1. canonical(r, t) = t /\ canonical(u, t) = canonical(u, id)
      BY <1>6, <1>8, <1>9, <1>10, <2>3, <2>5
    <3>2. id \notin M /\ id \in 1 .. (n + 1)
      BY <1>1
    <3>3. canonical(u, id) = id
      BY <1>6, <1>9, <3>2
    <3>4. QED
      BY <2>2, <2>5, <3>1, <3>3
  <2>6. CASE ~ Aliased(r, t) /\ t \notin M
    BY <1>6, <1>9, <1>10, <2>2, <2>3, <2>6
  <2>7. QED
    BY <2>4, <2>5, <2>6
<1>13. canonical(u, n + 1) = n + 1
  <2>1. ~ Aliased(r, n + 1) /\ n + 1 \notin M /\ n + 1 \in 1 .. (n + 1)
    BY <1>1 DEF AliasInv, AliasesInv, Aliased
  <2>2. QED
    BY <1>6, <1>9, <2>1
<1>14. QED
  BY <1>1, <1>4, <1>5, <1>6, <1>12, <1>13 DEF RenamedTo

\* Replay u is replay r with an error log that joins the clusters of `matching`.
Joined(r, u, log, related, group, matching, id, cluster, step) ==
  /\ \/ group = Len(r.steps) + 1
     \/ \E g \in r.groups : /\ g.id = group /\ g.service = log.service
                            /\ log.at - g.last <= GroupWindow
  /\ matching = Matching(r, log, Possible(r, log, group), related)
  /\ \/ matching = {} /\ id = Len(r.steps) + 1
     \/ (\E c \in matching : id = c.id) /\ (\A c \in matching : id <= c.id)
  /\ cluster.id = id
  /\ \A k : k \in cluster.groups <=> k = group \/ \E c \in matching : k \in c.groups
  /\ \A x : x \in cluster.records <=> x = log \/ \E c \in matching : x \in c.records
  /\ cluster.emitted <=> step.decision = "candidate" \/ \E c \in matching : c.emitted
  /\ step.log = log /\ step.group = group /\ step.clusterGroups = cluster.groups
  /\ step.decision \in {"candidate", "duplicate_candidate"} =>
       (step.decision = "candidate" <=> ~ \E c \in matching : c.emitted)
  /\ u.steps = Append(r.steps, step)
  /\ u.clusters = (r.clusters \ matching) \cup {cluster}
  /\ u.groups = {g \in r.groups : g.service # log.service \/ g.shape # log.shape}
                  \cup {[id |-> group, service |-> log.service,
                         shape |-> log.shape, last |-> log.at]}
  /\ u.groupCluster = {pair \in r.groupCluster : pair[1] # group} \cup {<<group, id>>}
  /\ u.links = r.links \cup ({log.request, log.trace} \ {None}) \X {id}
  /\ u.aliases = r.aliases \cup ({c.id : c \in matching} \ {id}) \X {id}

\* Observing an error log is joining the clusters that match it.
LEMMA ErrorJoins ==
  ASSUME NEW r, NEW log, NEW related, ClustersInv(r), Len(r.steps) \in Nat
  PROVE  \E group, matching, id, cluster, step :
           Joined(r, ObserveError(r, log, related), log, related,
                  group, matching, id, cluster, step)
<1> DEFINE group    == GroupOf(r, log)
           matching == Matching(r, log, Possible(r, log, group), related)
           ids      == {c.id : c \in matching}
           id       == IF matching = {} THEN Len(r.steps) + 1 ELSE Min(ids)
           merged   == Merged(matching, id, group, log)
           decision == Decision(merged, log)
           cluster  == [merged EXCEPT !.emitted = @ \/ decision = "candidate"]
           step     == ReplayStep(log, group, cluster, decision)
           u        == ObserveError(r, log, related)
<1>1. \/ group = Len(r.steps) + 1
      \/ \E g \in r.groups : /\ g.id = group /\ g.service = log.service
                             /\ log.at - g.last <= GroupWindow
  <2> DEFINE same == {g \in r.groups : /\ g.service = log.service /\ g.shape = log.shape
                                       /\ log.at - g.last <= GroupWindow}
  <2>1. CASE same = {}
    BY <2>1 DEF GroupOf
  <2>2. CASE same # {}
    <3>1. (CHOOSE g \in same : TRUE) \in same
      BY <2>2
    <3>2. group = (CHOOSE g \in same : TRUE).id
      BY <2>2 DEF GroupOf
    <3>3. QED
      BY <3>1, <3>2
  <2>3. QED
    BY <2>1, <2>2
<1>2. matching \subseteq r.clusters
  BY DEF Matching
<1>3. \/ matching = {} /\ id = Len(r.steps) + 1
      \/ (\E c \in matching : id = c.id) /\ (\A c \in matching : id <= c.id)
  <2>1. CASE matching = {}
    BY <2>1
  <2>2. CASE matching # {}
    <3>1. ids \subseteq Nat /\ ids # {}
      BY <1>2, <2>2 DEF ClustersInv, ClusterInv
    <3>2. PICK m \in ids : \A k \in ids : m <= k
      <4> HIDE DEF ids
      <4>1. QED
        BY <3>1, SmallestNat
    <3>3. Min(ids) \in ids /\ \A k \in ids : Min(ids) <= k
      <4> HIDE DEF ids
      <4>1. QED
        BY <3>2 DEF Min
    <3>4. QED
      BY <2>2, <3>3
  <2>3. QED
    BY <2>1, <2>2
<1>4. /\ cluster.id = id
      /\ \A k : k \in cluster.groups <=> k = group \/ \E c \in matching : k \in c.groups
      /\ \A x : x \in cluster.records <=> x = log \/ \E c \in matching : x \in c.records
      /\ cluster.emitted <=> decision = "candidate" \/ \E c \in matching : c.emitted
  <2> HIDE DEF matching, id, group, decision
  <2>1. /\ cluster.id = id
        /\ cluster.groups = (UNION {c.groups : c \in matching}) \cup {group}
        /\ cluster.records = (UNION {c.records : c \in matching}) \cup {log}
        /\ cluster.emitted <=> decision = "candidate" \/ \E c \in matching : c.emitted
    BY DEF Merged
  <2> HIDE DEF cluster
  <2>2. ASSUME NEW k
        PROVE  k \in cluster.groups <=> k = group \/ \E c \in matching : k \in c.groups
    <3>1. k \in cluster.groups <=> k \in UNION {c.groups : c \in matching} \/ k = group
      BY <2>1
    <3>2. QED
      BY <3>1
  <2>3. ASSUME NEW x
        PROVE  x \in cluster.records <=> x = log \/ \E c \in matching : x \in c.records
    <3>1. x \in cluster.records <=> x \in UNION {c.records : c \in matching} \/ x = log
      BY <2>1
    <3>2. QED
      BY <3>1
  <2>4. QED
    BY <2>1, <2>2, <2>3
<1>5. decision \in {"candidate", "duplicate_candidate"} =>
        (decision = "candidate" <=> ~ \E c \in matching : c.emitted)
  <2> HIDE DEF matching, id, group
  <2>1. merged.emitted <=> \E c \in matching : c.emitted
    BY DEF Merged
  <2> HIDE DEF merged
  <2>2. QED
    BY <2>1 DEF Decision
<1>6. /\ step.log = log /\ step.group = group /\ step.decision = decision
      /\ step.clusterGroups = cluster.groups
  <2> HIDE DEF matching, id, group, decision, cluster
  <2>1. QED
    BY DEF ReplayStep
<1>7. /\ u.steps = Append(r.steps, step)
      /\ u.clusters = (r.clusters \ matching) \cup {cluster}
      /\ u.groups = {g \in r.groups : g.service # log.service \/ g.shape # log.shape}
                      \cup {[id |-> group, service |-> log.service,
                             shape |-> log.shape, last |-> log.at]}
      /\ u.groupCluster = {pair \in r.groupCluster : pair[1] # group} \cup {<<group, id>>}
      /\ u.links = r.links \cup ({log.request, log.trace} \ {None}) \X {id}
      /\ u.aliases = r.aliases \cup ({c.id : c \in matching} \ {id}) \X {id}
  BY DEF ObserveError
<1>8. Joined(r, u, log, related, group, matching, id, cluster, step)
  <2> HIDE DEF id, cluster, step, u
  <2>1. matching = Matching(r, log, Possible(r, log, group), related)
    OBVIOUS
  <2> HIDE DEF group, matching
  <2>2. QED
    BY <1>1, <1>3, <1>4, <1>5, <1>6, <1>7, <2>1 DEF Joined
<1>9. QED
  BY <1>8

\* The cluster that has the group of the log matches it.
LEMMA GroupMatches ==
  ASSUME NEW r, NEW u, NEW log, NEW related, NEW group, NEW matching, NEW id, NEW cluster,
         NEW step, Joined(r, u, log, related, group, matching, id, cluster, step),
         Len(r.steps) \in Nat, ClustersInv(r), TablesInv(r),
         log.service \in related[log.service],
         NEW c \in r.clusters, group \in c.groups
  PROVE  c \in matching
<1>1. group \in 1 .. Len(r.steps)
  BY DEF ClustersInv, ClusterInv
<1>2. PICK g \in r.groups : /\ g.id = group /\ g.service = log.service
                            /\ log.at - g.last <= GroupWindow
  BY <1>1 DEF Joined
<1>3. PICK d \in r.clusters : /\ g.id \in d.groups
                              /\ \E x \in d.records : x.service = g.service /\ x.at = g.last
  BY DEF TablesInv
<1>4. d = c
  BY <1>2, <1>3 DEF ClustersInv
<1>5. PICK x \in c.records : x.service = log.service /\ log.at - x.at <= GroupWindow
  BY <1>2, <1>3, <1>4
<1>6. PICK pair \in r.groupCluster : pair[1] = group /\ canonical(r, pair[2]) = c.id
  BY DEF TablesInv, Leads
<1>7. c.id \in Possible(r, log, group)
  BY <1>6 DEF Possible
<1>8. QED
  BY <1>5, <1>7 DEF Joined, Matching

\* A live cluster that shares a request or a trace with the log, and has a recent log of
\* a related service, matches it.
LEMMA LinkMatches ==
  ASSUME NEW r, NEW u, NEW log, NEW related, NEW group, NEW matching, NEW id, NEW cluster,
         NEW step, Joined(r, u, log, related, group, matching, id, cluster, step),
         NEW c \in r.clusters, NEW link \in r.links, Leads(r, link[2], c),
         link[1] \in {log.request, log.trace},
         NEW x \in c.records, x.service \in related[log.service],
         log.at - x.at <= GroupWindow
  PROVE  c \in matching
<1>1. c.id \in Possible(r, log, group)
  BY DEF Possible, Leads
<1>2. QED
  BY <1>1 DEF Joined, Matching

\* Replay r has observed log, the first of those it had not: u is what it has become.
Observes(r, u, log, logs, related, group, matching, id, cluster, step) ==
  /\ LogsOK(logs, related) /\ ReplayInv(r, logs, related)
  /\ log \in logs \ Replayed(r)
  /\ \A other \in logs \ (Replayed(r) \cup {log}) : Before(log, other)
  /\ Joined(r, u, log, related, group, matching, id, cluster, step)

\* Replay u has one step more than replay r.
Grown(r, u, step) ==
  /\ Len(r.steps) \in Nat /\ Len(u.steps) = Len(r.steps) + 1
  /\ DOMAIN r.steps = 1 .. Len(r.steps) /\ DOMAIN u.steps = 1 .. (Len(r.steps) + 1)
  /\ IsSequence(u.steps)
  /\ \A i \in 1 .. Len(r.steps) : u.steps[i] = r.steps[i]
  /\ u.steps[Len(r.steps) + 1] = step
  /\ Replayed(u) = Replayed(r) \cup {step.log}

\* One step is appended, its log is replayed.
LEMMA StepsGrow ==
  ASSUME NEW r, NEW u, NEW logs, NEW related, NEW step, ReplayInv(r, logs, related),
         u.steps = Append(r.steps, step)
  PROVE  Grown(r, u, step)
<1> DEFINE n == Len(r.steps)
<1>1. /\ n \in Nat /\ Len(u.steps) = n + 1
      /\ DOMAIN r.steps = 1 .. n /\ DOMAIN u.steps = 1 .. (n + 1)
      /\ IsSequence(u.steps)
      /\ \A i \in 1 .. n : u.steps[i] = r.steps[i]
      /\ u.steps[n + 1] = step
  <2>1. IsSequence(r.steps)
    BY DEF ReplayInv, StepsInv
  <2>2. QED
    BY <2>1, Appended
<1>2. ASSUME NEW x PROVE x \in Replayed(u) <=> x \in Replayed(r) \/ x = step.log
  <2>1. x \in Replayed(u) <=> \E i \in 1 .. (n + 1) : u.steps[i].log = x
    BY <1>1 DEF Replayed
  <2>2. x \in Replayed(r) <=> \E i \in 1 .. n : r.steps[i].log = x
    BY <1>1 DEF Replayed
  <2>3. \A i \in 1 .. (n + 1) : i = n + 1 \/ i \in 1 .. n
    BY <1>1
  <2>4. n + 1 \in 1 .. (n + 1) /\ \A i \in 1 .. n : i \in 1 .. (n + 1)
    BY <1>1
  <2>5. QED
    BY <1>1, <2>1, <2>2, <2>3, <2>4
<1>3. Replayed(u) = Replayed(r) \cup {step.log}
  BY <1>2
<1>4. QED
  BY <1>1, <1>3 DEF Grown

\* The steps after one more log.
LEMMA StepsObserved ==
  ASSUME NEW r, NEW u, NEW logs, NEW related, NEW step, ReplayInv(r, logs, related),
         u.steps = Append(r.steps, step), step.log \in logs \ Replayed(r),
         step.group \in {None} \cup 1 .. Len(u.steps),
         \A other \in logs \ (Replayed(r) \cup {step.log}) : Before(step.log, other)
  PROVE  StepsInv(u, logs)
<1> DEFINE n == Len(r.steps)
<1>1. /\ n \in Nat /\ Len(u.steps) = n + 1
      /\ DOMAIN r.steps = 1 .. n /\ DOMAIN u.steps = 1 .. (n + 1)
      /\ IsSequence(u.steps)
      /\ \A i \in 1 .. n : u.steps[i] = r.steps[i]
      /\ u.steps[n + 1] = step
      /\ Replayed(u) = Replayed(r) \cup {step.log}
  <2>1. Grown(r, u, step)
    BY StepsGrow
  <2>2. QED
    BY <2>1 DEF Grown
<1>2. \A i \in 1 .. n : r.steps[i].log \in Replayed(r)
  BY <1>1 DEF Replayed
<1>3. ASSUME NEW i \in 1 .. (n + 1)
      PROVE  /\ u.steps[i].log \in logs
             /\ u.steps[i].group \in {None} \cup 1 .. (n + 1)
             /\ \A other \in logs \ Replayed(u) : Before(u.steps[i].log, other)
  <2>1. CASE i = n + 1
    BY <1>1, <2>1
  <2>2. CASE i # n + 1
    <3>1. i \in 1 .. n
      BY <1>1, <2>2
    <3>2. /\ r.steps[i].log \in logs /\ r.steps[i].group \in {None} \cup 1 .. n
          /\ \A other \in logs \ Replayed(r) : Before(r.steps[i].log, other)
      BY <1>1, <3>1 DEF ReplayInv, StepsInv
    <3>3. QED
      BY <1>1, <3>1, <3>2
  <2>3. QED
    BY <2>1, <2>2
<1>4. ASSUME NEW i \in 1 .. (n + 1), NEW j \in 1 .. (n + 1), u.steps[i].log = u.steps[j].log
      PROVE  i = j
  <2>1. \A k \in 1 .. (n + 1) : k = n + 1 \/ k \in 1 .. n
    BY <1>1
  <2>2. \A k \in 1 .. n : u.steps[k].log # step.log
    BY <1>1, <1>2
  <2>3. \A k, l \in 1 .. n : r.steps[k].log = r.steps[l].log => k = l
    BY <1>1 DEF ReplayInv, StepsInv
  <2>4. QED
    BY <1>1, <1>4, <2>1, <2>2, <2>3
<1>5. QED
  BY <1>1, <1>3, <1>4 DEF StepsInv

\* A cluster with the name or the group of the log is one of those that are merged.
LEMMA ObservesBasics ==
  ASSUME NEW r, NEW u, NEW log, NEW logs, NEW related, NEW group, NEW matching, NEW id,
         NEW cluster, NEW step,
         Observes(r, u, log, logs, related, group, matching, id, cluster, step)
  PROVE  /\ matching \subseteq r.clusters
         /\ group \in 1 .. (Len(r.steps) + 1)
         /\ id \in 1 .. (Len(r.steps) + 1)
         /\ \A c \in r.clusters : group \in c.groups \/ c.id = id => c \in matching
<1>1. matching \subseteq r.clusters
  BY DEF Observes, Joined, Matching
<1>2. Len(r.steps) \in Nat
  BY StepsGrow DEF Observes, Joined, Grown
<1>3. \A c \in r.clusters : /\ c.id \in 1 .. Len(r.steps)
                            /\ \A k \in c.groups : k \in 1 .. Len(r.steps)
  BY DEF Observes, ReplayInv, ClustersInv, ClusterInv
<1>4. group \in 1 .. (Len(r.steps) + 1)
  <2>1. \A g \in r.groups : g.id \in 1 .. Len(r.steps)
    BY <1>3 DEF Observes, ReplayInv, TablesInv
  <2>2. QED
    BY <1>2, <2>1 DEF Observes, Joined
<1>5. \/ id = Len(r.steps) + 1
      \/ \E c \in matching : id = c.id
  BY DEF Observes, Joined
<1>6. \A c \in r.clusters : c.id = id => c \in matching
  <2>1. ASSUME NEW c \in r.clusters, c.id = id PROVE c \in matching
    <3>1. PICK d \in matching : id = d.id
      BY <1>2, <1>3, <1>5, <2>1
    <3>2. d = c
      BY <1>1, <2>1, <3>1 DEF Observes, ReplayInv, ClustersInv
    <3>3. QED
      BY <3>2
  <2>2. QED
    BY <2>1
<1>7. \A c \in r.clusters : group \in c.groups => c \in matching
  <2>1. log.service \in related[log.service]
    BY DEF Observes, LogsOK
  <2>2. ClustersInv(r) /\ TablesInv(r)
    BY DEF Observes, ReplayInv
  <2>3. Joined(r, u, log, related, group, matching, id, cluster, step)
    BY DEF Observes
  <2>4. QED
    BY <1>2, <2>1, <2>2, <2>3, GroupMatches
<1>8. QED
  BY <1>1, <1>2, <1>3, <1>4, <1>5, <1>6, <1>7

\* The names of the clusters after the log.
LEMMA NamesObserved ==
  ASSUME NEW r, NEW u, NEW log, NEW logs, NEW related, NEW group, NEW matching, NEW id,
         NEW cluster, NEW step,
         Observes(r, u, log, logs, related, group, matching, id, cluster, step)
  PROVE  /\ AliasInv(u)
         /\ canonical(u, id) = id
         /\ \A c \in r.clusters, t \in 1 .. Len(r.steps) : canonical(r, t) = c.id =>
              canonical(u, t) = IF c \in matching THEN id ELSE c.id
<1> DEFINE n == Len(r.steps)
           M == {c.id : c \in matching} \ {id}
<1>1. /\ n \in Nat /\ Len(u.steps) = n + 1
  BY StepsGrow DEF Observes, Joined, Grown
<1>2. /\ matching \subseteq r.clusters /\ id \in 1 .. (n + 1)
      /\ \A c \in r.clusters : c.id = id => c \in matching
  BY ObservesBasics
<1>3. AliasInv(r)
  BY DEF Observes, ReplayInv
<1>4. \A c \in r.clusters : c.id \in 1 .. n
  BY DEF Observes, ReplayInv, ClustersInv, ClusterInv
<1>5. M \subseteq 1 .. n
  BY <1>2, <1>4
<1>6. \/ matching = {} /\ id = n + 1
      \/ (\E c \in matching : id = c.id) /\ (\A c \in matching : id <= c.id)
  BY DEF Observes, Joined
<1>7. \A m \in M : id < m /\ ~ Aliased(r, m)
  <2>1. ASSUME NEW m \in M PROVE id < m /\ ~ Aliased(r, m)
    <3>1. PICK c \in matching : m = c.id /\ m # id
      OBVIOUS
    <3>2. id <= m /\ m \in Nat /\ id \in Nat
      BY <1>1, <1>2, <1>4, <1>6, <3>1
    <3>3. ~ Aliased(r, m)
      BY <1>2, <1>3, <3>1 DEF AliasInv
    <3>4. QED
      BY <3>1, <3>2, <3>3
  <2>2. QED
    BY <2>1
<1>8. ~ Aliased(r, id)
  <2>1. CASE id = n + 1
    BY <1>1, <1>3, <2>1 DEF AliasInv, AliasesInv, Aliased
  <2>2. CASE \E c \in matching : id = c.id
    BY <1>2, <1>3, <2>2 DEF AliasInv
  <2>3. QED
    BY <1>6, <2>1, <2>2
<1>9. u.aliases = r.aliases \cup (M \X {id})
  BY DEF Observes, Joined
<1> HIDE DEF M
<1>10. /\ AliasesInv(u)
       /\ \A a, b \in u.aliases : a[1] = b[1] => a = b
       /\ \A t : Aliased(u, t) <=> Aliased(r, t) \/ t \in M
       /\ \A t \in 1 .. n :
            canonical(u, t) = IF canonical(r, t) \in M THEN id ELSE canonical(r, t)
       /\ canonical(u, n + 1) = n + 1
  <2>1. RenamedTo(r, u, M, id)
    BY <1>1, <1>2, <1>3, <1>5, <1>7, <1>8, <1>9, Renamed
  <2>2. QED
    BY <1>1, <2>1 DEF RenamedTo
<1>11. id \notin M /\ \A c \in r.clusters : c \in matching /\ c.id # id <=> c.id \in M
  <2>1. \A c, d \in r.clusters : c.id = d.id => c = d
    BY DEF Observes, ReplayInv, ClustersInv
  <2>2. QED
    BY <1>2, <2>1 DEF M
<1>12. ASSUME NEW c \in u.clusters PROVE ~ Aliased(u, c.id)
  <2>1. CASE c \in r.clusters /\ c \notin matching
    BY <1>3, <1>10, <1>11, <2>1 DEF AliasInv
  <2>2. CASE c = cluster
    BY <1>8, <1>10, <1>11, <2>2 DEF Observes, Joined
  <2>3. QED
    BY <2>1, <2>2 DEF Observes, Joined
<1>13. canonical(u, id) = id
  <2>1. ~ Aliased(u, id)
    BY <1>8, <1>10, <1>11
  <2>2. QED
    BY <1>1, <1>2, <1>10, <2>1, Canonical
<1>14. ASSUME NEW c \in r.clusters, NEW t \in 1 .. n, canonical(r, t) = c.id
       PROVE  canonical(u, t) = IF c \in matching THEN id ELSE c.id
  BY <1>2, <1>10, <1>11, <1>14
<1>15. QED
  BY <1>10, <1>12, <1>13, <1>14 DEF AliasInv

\* A cluster goes on, as itself or in the cluster of the log.
LEMMA Carried ==
  ASSUME NEW r, NEW u, NEW log, NEW logs, NEW related, NEW group, NEW matching, NEW id,
         NEW cluster, NEW step,
         Observes(r, u, log, logs, related, group, matching, id, cluster, step),
         NEW c \in r.clusters
  PROVE  \E d \in u.clusters :
           /\ d = IF c \in matching THEN cluster ELSE c
           /\ c.groups \subseteq d.groups /\ c.records \subseteq d.records
           /\ \A t : Leads(r, t, c) => Leads(u, t, d)
<1> DEFINE d == IF c \in matching THEN cluster ELSE c
<1>1. d \in u.clusters
  BY DEF Observes, Joined
<1>2. c.groups \subseteq d.groups /\ c.records \subseteq d.records
  BY DEF Observes, Joined
<1>3. d.id = IF c \in matching THEN id ELSE c.id
  BY DEF Observes, Joined
<1>4. Len(r.steps) \in Nat /\ Len(u.steps) = Len(r.steps) + 1
  BY StepsGrow DEF Observes, Joined, Grown
<1>5. ASSUME NEW t, Leads(r, t, c) PROVE Leads(u, t, d)
  <2>1. t \in 1 .. Len(r.steps) /\ canonical(r, t) = c.id
    BY <1>5 DEF Leads
  <2>2. canonical(u, t) = d.id
    BY <1>3, <2>1, NamesObserved
  <2>3. QED
    BY <1>4, <2>1, <2>2 DEF Leads
<1>6. QED
  BY <1>1, <1>2, <1>5

\* A cluster after the log has the logs of its groups.
LEMMA ClustersObserved ==
  ASSUME NEW r, NEW u, NEW log, NEW logs, NEW related, NEW group, NEW matching, NEW id,
         NEW cluster, NEW step,
         Observes(r, u, log, logs, related, group, matching, id, cluster, step)
  PROVE  ClustersInv(u)
<1> DEFINE n == Len(r.steps)
<1>1. /\ n \in Nat /\ Len(u.steps) = n + 1
      /\ DOMAIN r.steps = 1 .. n /\ DOMAIN u.steps = 1 .. (n + 1)
      /\ \A i \in 1 .. n : u.steps[i] = r.steps[i]
      /\ u.steps[n + 1] = step
  <2>1. Grown(r, u, step)
    BY StepsGrow DEF Observes, Joined
  <2>2. QED
    BY <2>1 DEF Grown
<1>2. /\ matching \subseteq r.clusters
      /\ group \in 1 .. (n + 1) /\ id \in 1 .. (n + 1)
      /\ \A c \in r.clusters : group \in c.groups \/ c.id = id => c \in matching
  BY ObservesBasics
<1>3. /\ cluster.id = id
      /\ \A k : k \in cluster.groups <=> k = group \/ \E c \in matching : k \in c.groups
      /\ \A x : x \in cluster.records <=> x = log \/ \E c \in matching : x \in c.records
      /\ cluster.emitted <=> step.decision = "candidate" \/ \E c \in matching : c.emitted
      /\ step.log = log /\ step.group = group
      /\ u.clusters = (r.clusters \ matching) \cup {cluster}
  BY DEF Observes, Joined
<1>4. /\ \A c \in r.clusters : ClusterInv(r, c)
      /\ \A c, d \in r.clusters : c.id = d.id \/ c.groups \cap d.groups # {} => c = d
  BY DEF Observes, ReplayInv, ClustersInv
<1>5. \A i \in 1 .. n : r.steps[i].group # None =>
        \E c \in r.clusters : r.steps[i].group \in c.groups
  BY <1>1 DEF Observes, ReplayInv, TablesInv, Placed
<1>6. None \notin 1 .. (n + 1)
  BY <1>1, ReplayAssumption
<1>7. \A i \in 1 .. (n + 1) : i = n + 1 \/ i \in 1 .. n
  BY <1>1
<1>8. n + 1 \in 1 .. (n + 1) /\ \A i \in 1 .. n : i \in 1 .. (n + 1)
  BY <1>1
<1>9. ASSUME NEW c \in r.clusters, c \notin matching PROVE ClusterInv(u, c)
  <2>1. ClusterInv(r, c) /\ group \notin c.groups
    BY <1>2, <1>4, <1>9
  <2>2. c.id \in 1 .. n /\ c.groups \subseteq 1 .. n
    BY <2>1 DEF ClusterInv
  <2>3. ASSUME NEW x
        PROVE  x \in c.records <=> \E i \in 1 .. (n + 1) : /\ u.steps[i].log = x
                                                           /\ u.steps[i].group \in c.groups
    <3>1. x \in c.records <=> \E i \in 1 .. n : /\ r.steps[i].log = x
                                                /\ r.steps[i].group \in c.groups
      BY <1>1, <2>1 DEF ClusterInv
    <3>2. QED
      BY <1>1, <1>3, <1>7, <1>8, <2>1, <3>1
  <2>4. c.emitted <=> \E i \in 1 .. (n + 1) : /\ u.steps[i].decision = "candidate"
                                              /\ u.steps[i].group \in c.groups
    <3>1. c.emitted <=> \E i \in 1 .. n : /\ r.steps[i].decision = "candidate"
                                          /\ r.steps[i].group \in c.groups
      BY <1>1, <2>1 DEF ClusterInv
    <3>2. QED
      BY <1>1, <1>3, <1>7, <1>8, <2>1, <3>1
  <2>5. QED
    BY <1>1, <1>8, <2>2, <2>3, <2>4 DEF ClusterInv
<1>10. ClusterInv(u, cluster)
  <2>1. cluster.id \in 1 .. (n + 1)
    BY <1>2, <1>3
  <2>2. ASSUME NEW k \in cluster.groups PROVE k \in 1 .. (n + 1)
    <3>1. CASE k = group
      BY <1>2, <3>1
    <3>2. CASE \E c \in matching : k \in c.groups
      BY <1>2, <1>4, <1>8, <3>2 DEF ClusterInv
    <3>3. QED
      BY <1>3, <2>2, <3>1, <3>2
  \* An earlier log with a group of the cluster was in one of those that it comes from.
  <2>3. ASSUME NEW i \in 1 .. n, r.steps[i].group \in cluster.groups
        PROVE  \E c \in matching : r.steps[i].group \in c.groups
    <3>1. CASE r.steps[i].group = group
      <4>1. PICK c \in r.clusters : r.steps[i].group \in c.groups
        BY <1>2, <1>5, <1>6, <3>1
      <4>2. QED
        BY <1>2, <3>1, <4>1
    <3>2. CASE r.steps[i].group # group
      BY <1>3, <2>3, <3>2
    <3>3. QED
      BY <3>1, <3>2
  <2>4. ASSUME NEW x
        PROVE  x \in cluster.records <=>
                 \E i \in 1 .. (n + 1) : /\ u.steps[i].log = x
                                         /\ u.steps[i].group \in cluster.groups
    <3>1. \A c \in matching :
            x \in c.records <=> \E i \in 1 .. n : /\ r.steps[i].log = x
                                                  /\ r.steps[i].group \in c.groups
      BY <1>1, <1>2, <1>4 DEF ClusterInv
    <3>2. x \in cluster.records <=> x = log \/ \E i \in 1 .. n : /\ r.steps[i].log = x
                                                                 /\ r.steps[i].group \in cluster.groups
      BY <1>3, <2>3, <3>1
    <3>3. group \in cluster.groups
      BY <1>3
    <3>4. QED
      BY <1>1, <1>3, <1>7, <1>8, <3>2, <3>3
  <2>5. cluster.emitted <=>
          \E i \in 1 .. (n + 1) : /\ u.steps[i].decision = "candidate"
                                  /\ u.steps[i].group \in cluster.groups
    <3>1. \A c \in matching :
            c.emitted <=> \E i \in 1 .. n : /\ r.steps[i].decision = "candidate"
                                            /\ r.steps[i].group \in c.groups
      BY <1>1, <1>2, <1>4 DEF ClusterInv
    <3>2. cluster.emitted <=>
            \/ step.decision = "candidate"
            \/ \E i \in 1 .. n : /\ r.steps[i].decision = "candidate"
                                 /\ r.steps[i].group \in cluster.groups
      BY <1>3, <2>3, <3>1
    <3>3. group \in cluster.groups
      BY <1>3
    <3>4. QED
      BY <1>1, <1>3, <1>7, <1>8, <3>2, <3>3
  <2>6. QED
    BY <1>1, <2>1, <2>2, <2>4, <2>5 DEF ClusterInv
<1>11. ASSUME NEW c \in r.clusters, c \notin matching
       PROVE  c.id # cluster.id /\ c.groups \cap cluster.groups = {}
  <2>1. c.id # cluster.id
    BY <1>2, <1>3, <1>11
  <2>2. ASSUME NEW k \in c.groups, k \in cluster.groups PROVE FALSE
    <3>1. k # group
      BY <1>2, <1>11, <2>2
    <3>2. PICK d \in matching : k \in d.groups
      BY <1>3, <2>2, <3>1
    <3>3. c = d
      BY <1>2, <1>4, <2>2, <3>2
    <3>4. QED
      BY <1>11, <3>2, <3>3
  <2>3. QED
    BY <2>1, <2>2
<1>12. \A c \in u.clusters : ClusterInv(u, c)
  BY <1>3, <1>9, <1>10
<1>13. \A c, d \in u.clusters : c.id = d.id \/ c.groups \cap d.groups # {} => c = d
  BY <1>3, <1>4, <1>11
<1>14. QED
  BY <1>12, <1>13 DEF ClustersInv

\* Every name in the tables is that of a live cluster, and every group has one.
LEMMA TablesObserved ==
  ASSUME NEW r, NEW u, NEW log, NEW logs, NEW related, NEW group, NEW matching, NEW id,
         NEW cluster, NEW step,
         Observes(r, u, log, logs, related, group, matching, id, cluster, step)
  PROVE  TablesInv(u)
<1> DEFINE n == Len(r.steps)
<1>1. /\ n \in Nat /\ Len(u.steps) = n + 1
      /\ DOMAIN r.steps = 1 .. n /\ DOMAIN u.steps = 1 .. (n + 1)
      /\ \A i \in 1 .. n : u.steps[i] = r.steps[i]
      /\ u.steps[n + 1] = step
  <2>1. Grown(r, u, step)
    BY StepsGrow DEF Observes, Joined
  <2>2. QED
    BY <2>1 DEF Grown
<1>2. /\ matching \subseteq r.clusters
      /\ group \in 1 .. (n + 1) /\ id \in 1 .. (n + 1)
      /\ \A c \in r.clusters : group \in c.groups \/ c.id = id => c \in matching
  BY ObservesBasics
<1>3. /\ cluster.id = id
      /\ \A k : k \in cluster.groups <=> k = group \/ \E c \in matching : k \in c.groups
      /\ \A x : x \in cluster.records <=> x = log \/ \E c \in matching : x \in c.records
      /\ step.log = log /\ step.group = group
      /\ u.clusters = (r.clusters \ matching) \cup {cluster}
  BY DEF Observes, Joined
<1>4. Leads(u, id, cluster)
  BY <1>1, <1>2, <1>3, NamesObserved DEF Leads
<1>5. cluster \in u.clusters
  BY <1>3
<1>6. \A c \in r.clusters : \E d \in u.clusters :
        /\ d = IF c \in matching THEN cluster ELSE c
        /\ c.groups \subseteq d.groups /\ c.records \subseteq d.records
        /\ \A t : Leads(r, t, c) => Leads(u, t, d)
  BY Carried
<1>7. TablesInv(r)
  BY DEF Observes, ReplayInv
<1>8. u.groupCluster = {pair \in r.groupCluster : pair[1] # group} \cup {<<group, id>>}
  BY DEF Observes, Joined
<1>9. u.links = r.links \cup ({log.request, log.trace} \ {None}) \X {id}
  BY DEF Observes, Joined
<1>10. ASSUME NEW link \in u.links \cup u.groupCluster
       PROVE  \E c \in u.clusters : Leads(u, link[2], c)
  <2>1. CASE link \in r.links \cup r.groupCluster
    <3>1. PICK c \in r.clusters : Leads(r, link[2], c)
      BY <1>7, <2>1 DEF TablesInv
    <3>2. QED
      BY <1>6, <3>1
  <2>2. CASE link \notin r.links \cup r.groupCluster
    <3>1. link[2] = id
      BY <1>8, <1>9, <2>2
    <3>2. QED
      BY <1>4, <1>5, <3>1
  <2>3. QED
    BY <2>1, <2>2
<1>11. ASSUME NEW c \in u.clusters, NEW k \in c.groups
       PROVE  \E pair \in u.groupCluster : pair[1] = k /\ Leads(u, pair[2], c)
  <2>1. CASE k = group
    <3>1. c = cluster
      BY <1>2, <1>3, <2>1
    <3>2. <<group, id>> \in u.groupCluster /\ <<group, id>>[1] = group /\ <<group, id>>[2] = id
      BY <1>8
    <3>3. QED
      BY <1>4, <2>1, <3>1, <3>2
  <2>2. CASE k # group
    <3>1. PICK d \in r.clusters : k \in d.groups /\ c = IF d \in matching THEN cluster ELSE d
      BY <1>2, <1>3, <2>2
    <3>2. PICK pair \in r.groupCluster : pair[1] = k /\ Leads(r, pair[2], d)
      BY <1>7, <3>1 DEF TablesInv
    <3>3. pair \in u.groupCluster
      BY <1>8, <2>2, <3>2
    <3>4. Leads(u, pair[2], c)
      BY <1>6, <3>1, <3>2
    <3>5. QED
      BY <3>2, <3>3, <3>4
  <2>3. QED
    BY <2>1, <2>2
<1>12. ASSUME NEW g \in u.groups
       PROVE  \E c \in u.clusters : /\ g.id \in c.groups
                                    /\ \E x \in c.records : x.service = g.service /\ x.at = g.last
  <2>1. CASE g \in r.groups
    <3>1. PICK c \in r.clusters : /\ g.id \in c.groups
                                  /\ \E x \in c.records : x.service = g.service /\ x.at = g.last
      BY <1>7, <2>1 DEF TablesInv
    <3>2. QED
      BY <1>6, <3>1
  <2>2. CASE g \notin r.groups
    <3>1. g = [id |-> group, service |-> log.service, shape |-> log.shape, last |-> log.at]
      BY <2>2 DEF Observes, Joined
    <3>2. g.id = group /\ g.service = log.service /\ g.last = log.at
      BY <3>1
    <3>3. g.id \in cluster.groups /\ log \in cluster.records
      BY <1>3, <3>2
    <3>4. QED
      BY <1>5, <3>2, <3>3
  <2>3. QED
    BY <2>1, <2>2
<1>13. ASSUME NEW i \in 1 .. (n + 1), u.steps[i].group # None
       PROVE  \E c \in u.clusters : Placed(u, u.steps[i], c)
  <2>1. CASE i = n + 1
    <3>1. group \in cluster.groups
      BY <1>3
    <3>2. ASSUME NEW key \in {log.request, log.trace} \ {None}
          PROVE  \E link \in u.links : link[1] = key /\ Leads(u, link[2], cluster)
      <4>1. <<key, id>> \in u.links /\ <<key, id>>[1] = key /\ <<key, id>>[2] = id
        BY <1>9
      <4>2. QED
        BY <1>4, <4>1
    <3>3. Placed(u, step, cluster)
      BY <1>3, <3>1, <3>2 DEF Placed
    <3>4. QED
      BY <1>1, <1>5, <2>1, <3>3
  <2>2. CASE i # n + 1
    <3>1. i \in 1 .. n /\ u.steps[i] = r.steps[i]
      BY <1>1, <2>2
    <3>2. PICK c \in r.clusters : Placed(r, r.steps[i], c)
      BY <1>1, <1>7, <1>13, <3>1 DEF TablesInv
    <3>3. PICK d \in u.clusters :
            c.groups \subseteq d.groups /\ \A t : Leads(r, t, c) => Leads(u, t, d)
      BY <1>6
    <3>4. r.links \subseteq u.links
      BY <1>9
    <3>5. Placed(u, r.steps[i], d)
      BY <3>2, <3>3, <3>4 DEF Placed
    <3>6. QED
      BY <3>1, <3>5
  <2>3. QED
    BY <2>1, <2>2
<1>14. QED
  BY <1>1, <1>10, <1>11, <1>12, <1>13 DEF TablesInv

\* Two logs that are correlated are in one cluster.
LEMMA CorrelatedObserved ==
  ASSUME NEW r, NEW u, NEW log, NEW logs, NEW related, NEW group, NEW matching, NEW id,
         NEW cluster, NEW step,
         Observes(r, u, log, logs, related, group, matching, id, cluster, step)
  PROVE  CorrelatedInv(u, related)
<1> DEFINE n == Len(r.steps)
<1>1. /\ n \in Nat /\ Len(u.steps) = n + 1
      /\ DOMAIN r.steps = 1 .. n /\ DOMAIN u.steps = 1 .. (n + 1)
      /\ \A i \in 1 .. n : u.steps[i] = r.steps[i]
      /\ u.steps[n + 1] = step
  <2>1. Grown(r, u, step)
    BY StepsGrow DEF Observes, Joined
  <2>2. QED
    BY <2>1 DEF Grown
<1>2. /\ step.log = log /\ step.group = group
      /\ \A k : k \in cluster.groups <=> k = group \/ \E c \in matching : k \in c.groups
      /\ cluster \in u.clusters
  BY DEF Observes, Joined
<1>3. /\ ClustersInv(r) /\ TablesInv(r) /\ CorrelatedInv(r, related) /\ StepsInv(r, logs)
      /\ LogsOK(logs, related) /\ log \in logs \ Replayed(r)
      /\ Joined(r, u, log, related, group, matching, id, cluster, step)
  BY DEF Observes, ReplayInv
<1>4. \A c \in r.clusters : \E d \in u.clusters : c.groups \subseteq d.groups
  BY Carried
<1>5. ASSUME NEW i \in 1 .. n, NEW j \in 1 .. n,
             r.steps[i].group # None, r.steps[j].group # None,
             Correlated(r.steps[i], r.steps[j], related)
      PROVE  \E c \in u.clusters : r.steps[i].group \in c.groups /\ r.steps[j].group \in c.groups
  <2>1. PICK c \in r.clusters : r.steps[i].group \in c.groups /\ r.steps[j].group \in c.groups
    <3>1. i \in DOMAIN r.steps /\ j \in DOMAIN r.steps
      BY <1>1
    <3>2. QED
      BY <1>3, <1>5, <3>1 DEF CorrelatedInv
  <2>2. QED
    BY <1>4, <2>1
\* The log is later than those before it.
<1>6. ASSUME NEW i \in 1 .. (n + 1), Correlated(step, u.steps[i], related) PROVE FALSE
  <2>1. Before(log, u.steps[i].log)
    BY <1>2, <1>6 DEF Correlated
  <2>2. log.at \in Nat /\ log.id \in Nat
    BY <1>3 DEF LogsOK
  <2>3. CASE i = n + 1
    BY <1>1, <1>2, <2>1, <2>2, <2>3 DEF Before
  <2>4. CASE i # n + 1
    <3>1. i \in 1 .. n /\ u.steps[i] = r.steps[i]
      BY <1>1, <2>4
    <3>2. r.steps[i].log \in logs /\ Before(r.steps[i].log, log)
      BY <1>1, <1>3, <3>1 DEF StepsInv
    <3>3. r.steps[i].log.at \in Nat /\ r.steps[i].log.id \in Nat
      BY <1>3, <3>2 DEF LogsOK
    <3>4. QED
      BY <2>1, <2>2, <3>1, <3>2, <3>3 DEF Before
  <2>5. QED
    BY <2>3, <2>4
<1>7. ASSUME NEW i \in 1 .. n, r.steps[i].group # None,
             Correlated(r.steps[i], step, related)
      PROVE  r.steps[i].group \in cluster.groups
  <2>1. PICK c \in r.clusters : Placed(r, r.steps[i], c)
    BY <1>1, <1>3, <1>7 DEF TablesInv
  <2>2. /\ r.steps[i].log.service \in related[log.service]
        /\ log.at - r.steps[i].log.at <= GroupWindow
        /\ \/ r.steps[i].group = group
           \/ r.steps[i].log.request # None /\ r.steps[i].log.request = log.request
           \/ r.steps[i].log.trace # None /\ r.steps[i].log.trace = log.trace
    BY <1>2, <1>7 DEF Correlated
  <2>3. r.steps[i].group \in c.groups /\ r.steps[i].log \in c.records
    BY <1>1, <1>3, <2>1 DEF Placed, ClustersInv, ClusterInv
  <2>4. CASE r.steps[i].group = group
    BY <1>2, <2>4
  <2>5. CASE \E key \in {r.steps[i].log.request, r.steps[i].log.trace} \ {None} :
               key \in {log.request, log.trace}
    <3>1. PICK key \in {r.steps[i].log.request, r.steps[i].log.trace} \ {None} :
                 key \in {log.request, log.trace}
      BY <2>5
    <3>2. PICK link \in r.links : link[1] = key /\ Leads(r, link[2], c)
      BY <2>1 DEF Placed
    <3>3. c \in matching
      BY <1>3, <2>2, <2>3, <3>1, <3>2, LinkMatches
    <3>4. QED
      BY <1>2, <2>3, <3>3
  <2>6. QED
    BY <2>2, <2>4, <2>5
<1>8. ASSUME NEW i \in 1 .. (n + 1), NEW j \in 1 .. (n + 1),
             u.steps[i].group # None, u.steps[j].group # None,
             Correlated(u.steps[i], u.steps[j], related)
      PROVE  \E c \in u.clusters : u.steps[i].group \in c.groups /\ u.steps[j].group \in c.groups
  <2>1. i # n + 1
    BY <1>1, <1>6, <1>8
  <2>2. i \in 1 .. n /\ u.steps[i] = r.steps[i]
    BY <1>1, <2>1
  <2>3. CASE j = n + 1
    <3>1. u.steps[i].group \in cluster.groups /\ u.steps[j].group \in cluster.groups
      BY <1>1, <1>2, <1>7, <1>8, <2>2, <2>3
    <3>2. QED
      BY <1>2, <3>1
  <2>4. CASE j # n + 1
    <3>1. j \in 1 .. n /\ u.steps[j] = r.steps[j]
      BY <1>1, <2>4
    <3>2. QED
      BY <1>5, <1>8, <2>2, <3>1
  <2>5. QED
    BY <2>3, <2>4
<1>9. QED
  BY <1>1, <1>8 DEF CorrelatedInv

\* A log is a candidate if its cluster comes from none that had one.
LEMMA CandidatesObserved ==
  ASSUME NEW r, NEW u, NEW log, NEW logs, NEW related, NEW group, NEW matching, NEW id,
         NEW cluster, NEW step,
         Observes(r, u, log, logs, related, group, matching, id, cluster, step)
  PROVE  FirstCandidate(u) /\ SummaryInv(u)
<1> DEFINE n == Len(r.steps)
<1>1. /\ n \in Nat /\ Len(u.steps) = n + 1
      /\ DOMAIN r.steps = 1 .. n /\ DOMAIN u.steps = 1 .. (n + 1)
      /\ \A i \in 1 .. n : u.steps[i] = r.steps[i]
      /\ u.steps[n + 1] = step
  <2>1. Grown(r, u, step)
    BY StepsGrow DEF Observes, Joined
  <2>2. QED
    BY <2>1 DEF Grown
<1>2. /\ step.log = log /\ step.group = group /\ step.clusterGroups = cluster.groups
      /\ \A k : k \in cluster.groups <=> k = group \/ \E c \in matching : k \in c.groups
      /\ cluster \in u.clusters
      /\ step.decision \in {"candidate", "duplicate_candidate"} =>
           (step.decision = "candidate" <=> ~ \E c \in matching : c.emitted)
  BY DEF Observes, Joined
<1>3. /\ matching \subseteq r.clusters /\ group # None
      /\ \A c \in r.clusters : group \in c.groups => c \in matching
  BY <1>1, ObservesBasics, ReplayAssumption
<1>4. \A c \in matching : c.emitted <=>
        \E j \in 1 .. n : r.steps[j].decision = "candidate" /\ r.steps[j].group \in c.groups
  BY <1>1, <1>3 DEF Observes, ReplayInv, ClustersInv, ClusterInv
<1>5. ASSUME NEW j \in 1 .. n, r.steps[j].group = group
      PROVE  \E c \in matching : group \in c.groups
  <2>1. PICK c \in r.clusters : Placed(r, r.steps[j], c)
    BY <1>1, <1>3, <1>5 DEF Observes, ReplayInv, TablesInv
  <2>2. QED
    BY <1>3, <1>5, <2>1 DEF Placed
<1>6. (\E c \in matching : c.emitted) <=>
        \E j \in 1 .. n : /\ r.steps[j].decision = "candidate"
                          /\ r.steps[j].group \in step.clusterGroups
  BY <1>2, <1>4, <1>5
<1>7. ASSUME NEW i \in 1 .. (n + 1),
             u.steps[i].decision \in {"candidate", "duplicate_candidate"}
      PROVE  u.steps[i].decision = "candidate" <=>
               \A j \in 1 .. (i - 1) : ~ /\ u.steps[j].decision = "candidate"
                                         /\ u.steps[j].group \in u.steps[i].clusterGroups
  <2>1. CASE i = n + 1
    <3>1. 1 .. (i - 1) = 1 .. n
      BY <1>1, <2>1
    <3>2. QED
      BY <1>1, <1>2, <1>6, <1>7, <2>1, <3>1
  <2>2. CASE i # n + 1
    <3>1. i \in 1 .. n /\ \A j \in 1 .. (i - 1) : j \in 1 .. n
      BY <1>1, <2>2
    <3>2. u.steps[i] = r.steps[i] /\ \A j \in 1 .. (i - 1) : u.steps[j] = r.steps[j]
      BY <1>1, <3>1
    <3>3. r.steps[i].decision = "candidate" <=>
            \A j \in 1 .. (i - 1) : ~ /\ r.steps[j].decision = "candidate"
                                      /\ r.steps[j].group \in r.steps[i].clusterGroups
      BY <1>1, <1>7, <3>1, <3>2 DEF Observes, ReplayInv, FirstCandidate
    <3>4. QED
      BY <3>2, <3>3
  <2>3. QED
    BY <2>1, <2>2
<1>8. FirstCandidate(u)
  BY <1>1, <1>7 DEF FirstCandidate
<1>9. SummaryInv(u)
  BY <1>1, <1>2 DEF SummaryInv
<1>10. QED
  BY <1>8, <1>9

\* An error log.
LEMMA ErrorObserved ==
  ASSUME NEW r, NEW log, NEW logs, NEW related, LogsOK(logs, related),
         ReplayInv(r, logs, related), log \in logs \ Replayed(r),
         \A other \in logs \ (Replayed(r) \cup {log}) : Before(log, other)
  PROVE  ReplayInv(ObserveError(r, log, related), logs, related)
<1> DEFINE v == ObserveError(r, log, related)
<1>1. ClustersInv(r) /\ Len(r.steps) \in Nat
  BY DEF ReplayInv, AliasInv, AliasesInv
<1>2. PICK group, matching, id, cluster, step :
        Joined(r, v, log, related, group, matching, id, cluster, step)
  BY <1>1, ErrorJoins
<1>3. PICK u : u = v
  OBVIOUS
<1>4. Observes(r, u, log, logs, related, group, matching, id, cluster, step)
  BY <1>2, <1>3 DEF Observes
<1> HIDE DEF v
<1>5. StepsInv(u, logs)
  <2>1. u.steps = Append(r.steps, step) /\ step.log = log /\ step.group = group
    BY <1>4 DEF Observes, Joined
  <2>2. Grown(r, u, step)
    BY <2>1, StepsGrow
  <2>3. step.group \in {None} \cup 1 .. Len(u.steps)
    BY <1>4, <2>1, <2>2, ObservesBasics DEF Grown
  <2>4. /\ step.log \in logs \ Replayed(r)
        /\ \A other \in logs \ (Replayed(r) \cup {step.log}) : Before(step.log, other)
    BY <2>1
  <2>5. QED
    BY <2>1, <2>3, <2>4, StepsObserved
<1>6. AliasInv(u)
  BY <1>4, NamesObserved
<1>7. ClustersInv(u)
  BY <1>4, ClustersObserved
<1>8. TablesInv(u)
  BY <1>4, TablesObserved
<1>9. CorrelatedInv(u, related)
  BY <1>4, CorrelatedObserved
<1>10. FirstCandidate(u) /\ SummaryInv(u)
  BY <1>4, CandidatesObserved
<1>11. DOMAIN u = {"groups", "clusters", "groupCluster", "links", "aliases", "steps"}
  BY <1>3 DEF v, ObserveError
<1>12. ReplayInv(u, logs, related)
  BY <1>5, <1>6, <1>7, <1>8, <1>9, <1>10, <1>11 DEF ReplayInv
<1>13. QED
  BY <1>3, <1>12 DEF v

\* Any other log is only a step.
LEMMA RoutineObserved ==
  ASSUME NEW r, NEW log, NEW logs, NEW related, ReplayInv(r, logs, related),
         log.level # "ERROR", log \in logs \ Replayed(r),
         \A other \in logs \ (Replayed(r) \cup {log}) : Before(log, other)
  PROVE  ReplayInv(Observe(r, log, related), logs, related)
<1> DEFINE n == Len(r.steps)
<1>1. PICK step : step = [log |-> log, group |-> None, cluster |-> None,
                          clusterGroups |-> {}, decision |-> "routine", services |-> {}]
  OBVIOUS
<1>2. step.log = log /\ step.group = None /\ step.decision = "routine"
  BY <1>1
<1>3. PICK u : u = Observe(r, log, related)
  OBVIOUS
<1>4. u = [r EXCEPT !.steps = Append(r.steps, step)]
  BY <1>1, <1>3 DEF Observe
<1>5. DOMAIN r = {"groups", "clusters", "groupCluster", "links", "aliases", "steps"}
  BY DEF ReplayInv
<1>6. /\ DOMAIN u = DOMAIN r
      /\ u.steps = Append(r.steps, step) /\ u.clusters = r.clusters /\ u.groups = r.groups
      /\ u.links = r.links /\ u.groupCluster = r.groupCluster /\ u.aliases = r.aliases
  BY <1>4, <1>5
<1>7. Grown(r, u, step)
  BY <1>6, StepsGrow
<1>8. /\ n \in Nat /\ Len(u.steps) = n + 1
      /\ DOMAIN r.steps = 1 .. n /\ DOMAIN u.steps = 1 .. (n + 1)
      /\ \A i \in 1 .. n : u.steps[i] = r.steps[i]
      /\ u.steps[n + 1] = step
  BY <1>7 DEF Grown
<1>9. \A i \in 1 .. (n + 1) : i = n + 1 \/ i \in 1 .. n
  BY <1>8
<1>10. \A i \in 1 .. n : i \in 1 .. (n + 1)
  BY <1>8
<1>11. StepsInv(u, logs)
  BY <1>2, <1>6, StepsObserved
<1>12. /\ ClustersInv(r) /\ TablesInv(r) /\ AliasInv(r) /\ CorrelatedInv(r, related)
       /\ FirstCandidate(r)
  BY DEF ReplayInv
<1>13. ASSUME NEW c \in r.clusters PROVE ClusterInv(u, c)
  <2>1. ClusterInv(r, c)
    BY <1>12 DEF ClustersInv
  <2>2. c.id \in 1 .. n /\ c.groups \subseteq 1 .. n /\ None \notin c.groups
    BY <1>8, <2>1, ReplayAssumption DEF ClusterInv
  <2>3. ASSUME NEW x
        PROVE  x \in c.records <=> \E i \in 1 .. (n + 1) : /\ u.steps[i].log = x
                                                           /\ u.steps[i].group \in c.groups
    <3>1. x \in c.records <=> \E i \in 1 .. n : /\ r.steps[i].log = x
                                                /\ r.steps[i].group \in c.groups
      BY <1>8, <2>1 DEF ClusterInv
    <3>2. QED
      BY <1>2, <1>8, <1>9, <1>10, <2>2, <3>1
  <2>4. c.emitted <=> \E i \in 1 .. (n + 1) : /\ u.steps[i].decision = "candidate"
                                              /\ u.steps[i].group \in c.groups
    <3>1. c.emitted <=> \E i \in 1 .. n : /\ r.steps[i].decision = "candidate"
                                          /\ r.steps[i].group \in c.groups
      BY <1>8, <2>1 DEF ClusterInv
    <3>2. QED
      BY <1>2, <1>8, <1>9, <1>10, <2>2, <3>1
  <2>5. QED
    BY <1>8, <1>10, <2>2, <2>3, <2>4 DEF ClusterInv
<1>14. ClustersInv(u)
  BY <1>6, <1>12, <1>13 DEF ClustersInv
<1>15. RenamedTo(r, u, {}, n + 1)
  <2>1. ~ Aliased(r, n + 1)
    BY <1>8, <1>12 DEF AliasInv, AliasesInv, Aliased
  <2>2. n + 1 \in 1 .. (n + 1) /\ u.aliases = r.aliases \cup ({} \X {n + 1})
    BY <1>6, <1>8
  <2>3. QED
    BY <1>8, <1>12, <2>1, <2>2, Renamed
<1>16. AliasInv(u)
  BY <1>6, <1>12, <1>15 DEF AliasInv, RenamedTo
<1>17. \A t, c : Leads(r, t, c) => Leads(u, t, c)
  BY <1>8, <1>10, <1>15 DEF Leads, RenamedTo
<1>18. TablesInv(u)
  <2>1. \A i \in 1 .. n : \A c : Placed(r, r.steps[i], c) => Placed(u, r.steps[i], c)
    BY <1>6, <1>17 DEF Placed
  <2>2. ASSUME NEW i \in 1 .. (n + 1), u.steps[i].group # None
        PROVE  \E c \in u.clusters : Placed(u, u.steps[i], c)
    <3>1. i \in 1 .. n /\ u.steps[i] = r.steps[i]
      BY <1>2, <1>8, <1>9, <2>2
    <3>2. PICK c \in r.clusters : Placed(r, r.steps[i], c)
      BY <1>8, <1>12, <2>2, <3>1 DEF TablesInv
    <3>3. QED
      BY <1>6, <2>1, <3>1, <3>2
  <2>3. \A link \in u.links \cup u.groupCluster : \E c \in u.clusters : Leads(u, link[2], c)
    BY <1>6, <1>12, <1>17 DEF TablesInv
  <2>4. \A c \in u.clusters : \A k \in c.groups :
          \E pair \in u.groupCluster : pair[1] = k /\ Leads(u, pair[2], c)
    BY <1>6, <1>12, <1>17 DEF TablesInv
  <2>5. \A g \in u.groups : \E c \in u.clusters :
          /\ g.id \in c.groups
          /\ \E x \in c.records : x.service = g.service /\ x.at = g.last
    BY <1>6, <1>12 DEF TablesInv
  <2>6. QED
    BY <1>8, <2>2, <2>3, <2>4, <2>5 DEF TablesInv
<1>19. CorrelatedInv(u, related)
  <2>1. ASSUME NEW i \in 1 .. (n + 1), NEW j \in 1 .. (n + 1),
               u.steps[i].group # None, u.steps[j].group # None,
               Correlated(u.steps[i], u.steps[j], related)
        PROVE  \E c \in u.clusters : u.steps[i].group \in c.groups /\ u.steps[j].group \in c.groups
    <3>1. i \in 1 .. n /\ u.steps[i] = r.steps[i] /\ j \in 1 .. n /\ u.steps[j] = r.steps[j]
      BY <1>2, <1>8, <1>9, <2>1
    <3>2. PICK c \in r.clusters : r.steps[i].group \in c.groups /\ r.steps[j].group \in c.groups
      BY <1>8, <1>12, <2>1, <3>1 DEF CorrelatedInv
    <3>3. QED
      BY <1>6, <3>1, <3>2
  <2>2. QED
    BY <1>8, <2>1 DEF CorrelatedInv
<1>20. SummaryInv(u)
  BY <1>2, <1>8 DEF SummaryInv
<1>21. FirstCandidate(u)
  <2>1. ASSUME NEW i \in 1 .. (n + 1),
               u.steps[i].decision \in {"candidate", "duplicate_candidate"}
        PROVE  u.steps[i].decision = "candidate" <=>
                 \A j \in 1 .. (i - 1) : ~ /\ u.steps[j].decision = "candidate"
                                           /\ u.steps[j].group \in u.steps[i].clusterGroups
    <3>1. i \in 1 .. n /\ \A j \in 1 .. (i - 1) : j \in 1 .. n
      BY <1>2, <1>8, <1>9, <2>1
    <3>2. u.steps[i] = r.steps[i] /\ \A j \in 1 .. (i - 1) : u.steps[j] = r.steps[j]
      BY <1>8, <3>1
    <3>3. r.steps[i].decision = "candidate" <=>
            \A j \in 1 .. (i - 1) : ~ /\ r.steps[j].decision = "candidate"
                                      /\ r.steps[j].group \in r.steps[i].clusterGroups
      BY <1>8, <1>12, <2>1, <3>1, <3>2 DEF FirstCandidate
    <3>4. QED
      BY <3>2, <3>3
  <2>2. QED
    BY <1>8, <2>1 DEF FirstCandidate
<1>22. ReplayInv(u, logs, related)
  BY <1>5, <1>6, <1>11, <1>14, <1>16, <1>18, <1>19, <1>20, <1>21 DEF ReplayInv
<1>23. QED
  BY <1>3, <1>22

\* Before the first log.
LEMMA NothingReplayed ==
  ASSUME NEW logs, NEW related
  PROVE  ReplayInv(EmptyReplay, logs, related) /\ Replayed(EmptyReplay) = {}
<1>1. PICK r : r = EmptyReplay
  OBVIOUS
<1>2. /\ DOMAIN r = {"groups", "clusters", "groupCluster", "links", "aliases", "steps"}
      /\ r.groups = {} /\ r.clusters = {} /\ r.groupCluster = {} /\ r.links = {}
      /\ r.aliases = {} /\ r.steps = <<>>
  BY <1>1 DEF EmptyReplay
<1>3. IsSequence(<<>>) /\ Len(<<>>) = 0 /\ DOMAIN <<>> = {}
  BY EmptySeq DEF IsSequence
<1>4. StepsInv(r, logs) /\ Replayed(r) = {}
  BY <1>2, <1>3 DEF StepsInv, Replayed
<1>5. ClustersInv(r) /\ AliasInv(r)
  BY <1>2, <1>3 DEF ClustersInv, AliasInv, AliasesInv
<1>6. TablesInv(r)
  BY <1>2, <1>3 DEF TablesInv
<1>7. CorrelatedInv(r, related) /\ SummaryInv(r) /\ FirstCandidate(r)
  BY <1>2, <1>3 DEF CorrelatedInv, SummaryInv, FirstCandidate
<1>8. QED
  BY <1>1, <1>2, <1>4, <1>5, <1>6, <1>7 DEF ReplayInv

\* However many logs are replayed.
LEMMA Replays ==
  ASSUME NEW logs, NEW related, LogsOK(logs, related)
  PROVE  \A n \in 0 .. Cardinality(logs) : ReplayInv(replay_logs(logs, related)[n], logs, related)
<1>1. PICK after : after = replay_logs(logs, related)
  OBVIOUS
<1> DEFINE N == Cardinality(logs)
           Good(n) == /\ ReplayInv(after[n], logs, related)
                      /\ Replayed(after[n]) \subseteq logs
                      /\ Cardinality(Replayed(after[n])) = n
           T == {n \in 0 .. N : ~ Good(n)}
<1>2. IsFiniteSet(logs) /\ N \in Nat
  BY FS_CardinalityType DEF LogsOK
<1>3. /\ after[0] = EmptyReplay
      /\ \A n \in 1 .. N : after[n] = Observe(after[n - 1], NextLog(after[n - 1], logs), related)
  BY <1>1, <1>2, Course
<1>4. Good(0)
  BY <1>3, NothingReplayed, FS_EmptySet
<1>5. ASSUME NEW n \in 1 .. N, Good(n - 1) PROVE Good(n)
  <2>1. PICK r, u, log : r = after[n - 1] /\ u = after[n] /\ log = NextLog(r, logs)
    OBVIOUS
  <2>2. /\ ReplayInv(r, logs, related) /\ Replayed(r) \subseteq logs
        /\ Cardinality(Replayed(r)) = n - 1
    BY <1>5, <2>1
  <2>3. logs \ Replayed(r) # {}
    <3>1. ASSUME logs \ Replayed(r) = {} PROVE FALSE
      <4>1. logs = Replayed(r)
        BY <2>2, <3>1
      <4>2. QED
        BY <1>2, <2>2, <4>1
    <3>2. QED
      BY <3>1
  <2>4. /\ log \in logs \ Replayed(r)
        /\ \A other \in logs \ (Replayed(r) \cup {log}) : Before(log, other)
    BY <2>1, <2>3, NextLogIsFirst
  <2>5. u = Observe(r, log, related)
    BY <1>3, <2>1
  <2>6. ReplayInv(u, logs, related)
    <3>1. CASE log.level = "ERROR"
      <4>1. u = ObserveError(r, log, related)
        BY <2>5, <3>1 DEF Observe
      <4>2. QED
        BY <2>2, <2>4, <4>1, ErrorObserved
    <3>2. CASE log.level # "ERROR"
      BY <2>2, <2>4, <2>5, <3>2, RoutineObserved
    <3>3. QED
      BY <3>1, <3>2
  <2>7. Replayed(u) = Replayed(r) \cup {log}
    <3>1. PICK step : u.steps = Append(r.steps, step) /\ step.log = log
      <4>1. CASE log.level = "ERROR"
        <5>1. PICK v : v = ObserveError(r, log, related)
          OBVIOUS
        <5>2. ClustersInv(r) /\ Len(r.steps) \in Nat
          BY <2>2 DEF ReplayInv, AliasInv, AliasesInv
        <5>3. PICK group, matching, id, cluster, step :
                Joined(r, v, log, related, group, matching, id, cluster, step)
          BY <5>1, <5>2, ErrorJoins
        <5>4. u = v
          BY <2>5, <4>1, <5>1 DEF Observe
        <5>5. QED
          BY <5>3, <5>4 DEF Joined
      <4>2. CASE log.level # "ERROR"
        <5>1. PICK step : step = [log |-> log, group |-> None, cluster |-> None,
                                  clusterGroups |-> {}, decision |-> "routine", services |-> {}]
          OBVIOUS
        <5>2. u = [r EXCEPT !.steps = Append(r.steps, step)]
          BY <2>5, <4>2, <5>1 DEF Observe
        <5>3. "steps" \in DOMAIN r
          BY <2>2 DEF ReplayInv
        <5>4. u.steps = Append(r.steps, step) /\ step.log = log
          BY <5>1, <5>2, <5>3
        <5>5. QED
          BY <5>4
      <4>3. QED
        BY <4>1, <4>2
    <3>2. Grown(r, u, step)
      BY <2>2, <3>1, StepsGrow
    <3>3. QED
      BY <3>1, <3>2 DEF Grown
  <2>8. IsFiniteSet(Replayed(r))
    BY <1>2, <2>2, FS_Subset
  <2>9. Cardinality(Replayed(r) \cup {log}) = (n - 1) + 1
    BY <2>2, <2>4, <2>8, FS_AddElement
  <2>10. Cardinality(Replayed(u)) = n /\ Replayed(u) \subseteq logs
    BY <2>2, <2>4, <2>7, <2>9
  <2>11. QED
    BY <2>1, <2>6, <2>10
<1>6. T = {}
  <2>1. SUFFICES ASSUME T # {} PROVE FALSE
    OBVIOUS
  <2>2. PICK n \in T : \A m \in T : n <= m
    <3>1. T \subseteq Nat
      BY <1>2
    <3> HIDE DEF T
    <3>2. QED
      BY <2>1, <3>1, SmallestNat
  <2>3. n \in 0 .. N /\ ~ Good(n) /\ n # 0
    BY <1>4, <2>2
  <2>4. n \in 1 .. N /\ n - 1 \in 0 .. N /\ ~ (n <= n - 1)
    BY <1>2, <2>3
  <2>5. Good(n - 1)
    BY <2>2, <2>4
  <2>6. QED
    BY <1>5, <2>3, <2>4, <2>5
<1>7. \A n \in 0 .. N : ReplayInv(after[n], logs, related)
  BY <1>6
<1>8. QED
  BY <1>1, <1>7

\* What the invariant says of detection.
LEMMA ReplayIsClustered ==
  ASSUME NEW r, NEW logs, NEW related, ReplayInv(r, logs, related)
  PROVE  Clustered(r, related)
<1>1. StepsInv(r, logs) /\ ClustersInv(r) /\ TablesInv(r) /\ CorrelatedInv(r, related) /\ SummaryInv(r)
  BY DEF ReplayInv
<1>2. ASSUME NEW step \in Errors(r)
      PROVE  Cardinality({c \in r.clusters : step.log \in c.records}) = 1
  <2>1. PICK i \in DOMAIN r.steps : step = r.steps[i] /\ r.steps[i].group # None
    BY DEF Errors
  <2>2. PICK c \in r.clusters : r.steps[i].group \in c.groups
    BY <1>1, <2>1 DEF TablesInv, Placed
  <2>3. step.log \in c.records
    BY <1>1, <2>1, <2>2 DEF ClustersInv, ClusterInv
  <2>4. ASSUME NEW d \in r.clusters, step.log \in d.records PROVE d = c
    <3>1. PICK j \in DOMAIN r.steps : r.steps[j].log = step.log /\ r.steps[j].group \in d.groups
      BY <1>1, <2>4 DEF ClustersInv, ClusterInv
    <3>2. j = i
      BY <1>1, <2>1, <3>1 DEF StepsInv
    <3>3. QED
      BY <1>1, <2>2, <3>1, <3>2 DEF ClustersInv
  <2>5. {d \in r.clusters : step.log \in d.records} = {c}
    BY <2>3, <2>4
  <2>6. QED
    BY <2>5, FS_Singleton
<1>3. ASSUME NEW a \in Errors(r), NEW b \in Errors(r), Correlated(a, b, related)
      PROVE  \E c \in r.clusters : {a.log, b.log} \subseteq c.records
  <2>1. PICK i \in DOMAIN r.steps : a = r.steps[i] /\ r.steps[i].group # None
    BY DEF Errors
  <2>2. PICK j \in DOMAIN r.steps : b = r.steps[j] /\ r.steps[j].group # None
    BY DEF Errors
  <2>3. PICK c \in r.clusters : r.steps[i].group \in c.groups /\ r.steps[j].group \in c.groups
    BY <1>1, <1>3, <2>1, <2>2 DEF CorrelatedInv
  <2>4. a.log \in c.records /\ b.log \in c.records
    BY <1>1, <2>1, <2>2, <2>3 DEF ClustersInv, ClusterInv
  <2>5. QED
    BY <2>4
<1>4. ASSUME NEW link \in r.links
      PROVE  \E c \in r.clusters : c.id = canonical(r, link[2])
  <2>1. PICK c \in r.clusters : Leads(r, link[2], c)
    BY <1>1 DEF TablesInv
  <2>2. QED
    BY <2>1 DEF Leads
<1>5. ASSUME r.steps # <<>>, r.steps[Len(r.steps)].decision = "candidate"
      PROVE  \E c \in r.clusters : c.records = SummaryLogs(r)
  <2>1. PICK c \in r.clusters : c.groups = r.steps[Len(r.steps)].clusterGroups
    BY <1>1, <1>5 DEF SummaryInv
  <2>2. ASSUME NEW x PROVE x \in c.records <=> x \in SummaryLogs(r)
    <3>1. x \in c.records <=> \E i \in DOMAIN r.steps : /\ r.steps[i].log = x
                                                        /\ r.steps[i].group \in c.groups
      BY <1>1 DEF ClustersInv, ClusterInv
    <3>2. QED
      BY <2>1, <3>1 DEF SummaryLogs
  <2>3. c.records = SummaryLogs(r)
    BY <2>2
  <2>4. QED
    BY <2>3
<1>6. QED
  BY <1>2, <1>3, <1>4, <1>5 DEF Clustered

-----------------------------------------------------------------------------------
(* The replay of the scenario.                                                     *)

\* Every simulation is somewhere in the one replay of its fixture.
CourseInv ==
  /\ scenario \in Scenarios
  /\ course = replay_logs(Logs, scenario.fixture.related)
  /\ DOMAIN replayed = Simulation
  /\ \A s \in Simulation : replayed[s] \in 0 .. Cardinality(Logs)

\* The logs of a valid fixture can be put in order.
LEMMA LogsAreOK ==
  ASSUME scenario \in Scenarios
  PROVE  LogsOK(Logs, scenario.fixture.related)
<1> DEFINE fix == scenario.fixture
<1>1. ValidFixture(fix) /\ IsFiniteSet(fix.records)
  BY IncidentAssumption
<1>2. Logs \subseteq fix.records
  BY DEF Logs, OfKind
<1>3. IsFiniteSet(Logs)
  BY <1>1, <1>2, FS_Subset
<1>4. \A a, b \in Logs : a.id = b.id => a = b
  BY <1>1, <1>2 DEF ValidFixture
<1>5. ASSUME NEW log \in Logs
      PROVE  log.at \in Nat /\ log.id \in Nat /\ log.service \in fix.related[log.service]
  <2>1. /\ log.id \in Nat /\ log.service \in fix.services
        /\ log.at \in fix.start .. fix.end /\ {fix.start, fix.end} \subseteq Nat
        /\ \A s \in fix.services : s \in fix.related[s]
    BY <1>1, <1>2 DEF ValidFixture
  <2>2. QED
    BY <2>1
<1>6. QED
  BY <1>3, <1>4, <1>5 DEF LogsOK

LEMMA InitCourseInv == Init => CourseInv
<1> SUFFICES ASSUME Init PROVE CourseInv
  OBVIOUS
<1>1. scenario \in Scenarios
  BY DEF Init
<1>2. course = replay_logs(Logs, scenario.fixture.related)
  BY DEF Init
<1>3. Cardinality(Logs) \in Nat
  BY <1>1, LogsAreOK, FS_CardinalityType DEF LogsOK
<1>4. DOMAIN replayed = Simulation /\ \A s \in Simulation : replayed[s] = 0
  BY DEF Init
<1>5. \A s \in Simulation : replayed[s] \in 0 .. Cardinality(Logs)
  BY <1>3, <1>4
<1>6. QED
  BY <1>1, <1>2, <1>4, <1>5 DEF CourseInv

LEMMA NextCourseInv == CourseInv /\ [Next]_vars => CourseInv'
<1> SUFFICES ASSUME CourseInv, [Next]_vars PROVE CourseInv'
  OBVIOUS
<1> DEFINE Unmoved == UNCHANGED <<scenario, course, replayed>>
<1>1. /\ UNCHANGED <<scenario, course>>
      /\ replayed' = replayed \/ \E s \in Simulation : ReplayLog(s)
  <2>1. ASSUME NEW s \in Simulation, StartSimulation(s) \/ StartRejected(s) PROVE Unmoved
    BY <2>1 DEF StartSimulation, StartRejected, simulationVars
  <2>2. ASSUME NEW s \in Simulation, SimulationStep(s), ~ ReplayLog(s) PROVE Unmoved
    BY <2>2 DEF SimulationStep, ReplayEnds, ReplayRefused, Resume, JudgedIncident, Judged,
       Save, SaveFails, TellLast, TellFails, FailRun, simulationVars
  <2>3. ASSUME NEW c \in Caller, InvestigationStep(c) \/ Leave(c) PROVE Unmoved
    BY <2>3 DEF InvestigationStep, Acquire, Refuse, CallTool, Draft, AgentStops, Return, Leave,
       simulationVars
  <2>4. ASSUME NEW c \in Direct, RequestInvestigation(c) PROVE Unmoved
    BY <2>4 DEF RequestInvestigation, simulationVars
  <2>5. ASSUME NEW v \in Reviewer, ReviewStep(v) \/ \E r \in Run : ReadOutput(v, r)
        PROVE  Unmoved
    BY <2>5 DEF ReviewStep, Review, ReadOutput, simulationVars
  <2>6. ASSUME UNCHANGED vars PROVE Unmoved
    BY <2>6 DEF vars, simulationVars
  <2>7. ASSUME NEW s \in Simulation, ReplayLog(s) PROVE UNCHANGED <<scenario, course>>
    BY <2>7 DEF ReplayLog
  <2>8. QED
    BY <2>1, <2>2, <2>3, <2>4, <2>5, <2>6, <2>7 DEF Next
<1>2. Logs' = Logs
  BY <1>1 DEF Logs, OfKind
<1>3. CASE replayed' = replayed
  BY <1>1, <1>2, <1>3 DEF CourseInv
<1>4. ASSUME NEW s \in Simulation, ReplayLog(s) PROVE CourseInv'
  <2>1. Cardinality(Logs) \in Nat
    BY LogsAreOK, FS_CardinalityType DEF LogsOK, CourseInv
  <2>2. /\ replayed[s] \in 0 .. Cardinality(Logs) /\ replayed[s] < Cardinality(Logs)
        /\ replayed' = [replayed EXCEPT ![s] = replayed[s] + 1]
    BY <1>4 DEF CourseInv, ReplayLog
  <2>3. replayed[s] + 1 \in 0 .. Cardinality(Logs)
    BY <2>1, <2>2
  <2>4. \A t \in Simulation : replayed'[t] \in 0 .. Cardinality(Logs)
    BY <2>2, <2>3 DEF CourseInv
  <2>5. DOMAIN replayed' = Simulation
    BY <2>2 DEF CourseInv
  <2>6. QED
    BY <1>1, <1>2, <2>4, <2>5 DEF CourseInv
<1>5. QED
  BY <1>1, <1>3, <1>4

\* What a simulation has replayed.
LEMMA ReplayOf ==
  ASSUME CourseInv, NEW s \in Simulation
  PROVE  ReplayInv(course[replayed[s]], Logs, scenario.fixture.related)
<1>1. LogsOK(Logs, scenario.fixture.related)
  BY LogsAreOK DEF CourseInv
<1>2. \A n \in 0 .. Cardinality(Logs) :
        ReplayInv(replay_logs(Logs, scenario.fixture.related)[n], Logs, scenario.fixture.related)
  BY <1>1, Replays
<1>3. QED
  BY <1>2 DEF CourseInv

-----------------------------------------------------------------------------------
(* Telemetry.                                                                      *)

\* The scenario that was chosen is a valid one.
LEMMA ScenarioFacts ==
  ASSUME scenario \in Scenarios
  PROVE  /\ ValidFixture(scenario.fixture) /\ ValidFixture(scenario.alerts)
         /\ scenario.judgments \subseteq Judgments
         /\ \A q \in scenario.queries : q.tool \in Tools
BY IncidentAssumption

\* A snapshot keeps everything but records.
LEMMA SnapshotFacts ==
  ASSUME NEW fix, NEW at, ValidFixture(fix)
  PROVE  LET store == Snapshot(fix, at) IN
         /\ store.start = fix.start /\ store.end = fix.end /\ store.services = fix.services
         /\ store.related = fix.related /\ store.gaps = fix.gaps
         /\ store.records = {record \in fix.records : record.end <= at}
BY DEF Snapshot, ValidFixture


\* What a query of the scope answers is of the scope.
LEMMA QueryGaps ==
  ASSUME NEW store, NEW scope, NEW q, q.tool \in Tools,
         Query(store, scope, q) # None,
         \A gap \in store.gaps : gap.start \in Nat /\ gap.end \in Nat,
         scope.start \in Nat, scope.end \in Nat,
         NEW gap \in Query(store, scope, q).gaps
  PROVE  gap \in store.gaps /\ gap.service \in scope.services /\ gap.end > scope.start
<1>1. ASSUME NEW kind, NEW records, WindowAllowed(scope, q),
             gap \in Answer(store, kind, q, records).gaps
      PROVE  gap \in store.gaps /\ gap.service \in scope.services /\ gap.end > scope.start
  <2>1. gap \in store.gaps /\ gap.service = q.service /\ gap.end > q.start
    BY <1>1 DEF Answer, Gaps
  <2>2. q.start \in Nat /\ q.start >= scope.start /\ q.service \in scope.services
    BY <1>1 DEF WindowAllowed
  <2>3. QED
    BY <2>1, <2>2
<1>2. CASE q.tool = "search_logs"
  BY <1>1, <1>2 DEF Query, SearchLogs
<1>3. CASE q.tool = "get_metric_series"
  BY <1>1, <1>3 DEF Query, GetMetricSeries
<1>4. CASE q.tool = "list_changes"
  BY <1>1, <1>4 DEF Query, ListChanges
<1>5. CASE q.tool = "inspect_trace"
  <2>1. Query(store, scope, q) = InspectTrace(store, scope, q)
    BY <1>5 DEF Query
  <2>2. /\ gap \in store.gaps /\ gap.service \in scope.services
        /\ \E span \in TraceSpans(store, scope, q) : span.at < gap.end
    BY <2>1 DEF InspectTrace
  <2>3. \A span \in TraceSpans(store, scope, q) : span.at \in Nat /\ scope.start <= span.at
    BY DEF TraceSpans
  <2>4. QED
    BY <2>2, <2>3
<1>6. QED
  BY <1>2, <1>3, <1>4, <1>5 DEF Tools

\* The scope of a simulation's investigation is that of the incident it has detected.
LEMMA ScopeFacts ==
  ASSUME TypeInv, NEW s \in Simulation, ScopeFor(s) # None
  PROVE  LET incident == detected[s][Len(detected[s])]
             scope == ScopeFor(s)
         IN /\ scope.services = scenario.fixture.related[incident.trigger.service]
            /\ scope.start = incident.start /\ scope.end = incident.at
            /\ scope.start \in Nat /\ scope.end \in Nat
            /\ StoreOf(s).gaps = scenario.fixture.gaps
            /\ StoreOf(s).records = {record \in scenario.fixture.records :
                                       record.end <= incident.at}
            /\ \A gap \in StoreOf(s).gaps : gap.start \in Nat /\ gap.end \in Nat
<1> DEFINE incident == detected[s][Len(detected[s])]
           fix == scenario.fixture
           store == StoreOf(s)
<1>1. ValidFixture(fix)
  BY ScenarioFacts DEF TypeInv
<1>2. store = Snapshot(fix, incident.at)
  BY DEF StoreOf
<1>3. ScopeFor(s) = ScopeForDetection(store, incident.trigger.service, incident.start, incident.at)
  BY DEF ScopeFor
<1> HIDE DEF store, incident
<1>4. /\ store.start = fix.start /\ store.end = fix.end /\ store.related = fix.related
      /\ store.gaps = fix.gaps
      /\ store.records = {record \in fix.records : record.end <= incident.at}
  BY <1>1, <1>2, SnapshotFacts
<1>5. /\ {incident.start, incident.at} \subseteq store.start..store.end
      /\ ScopeFor(s) = ScopeOf(store, incident.trigger.service, incident.start, incident.at)
  BY <1>3 DEF ScopeForDetection, InWindow
<1>6. fix.start \in Nat /\ \A gap \in fix.gaps : gap.start \in Nat /\ gap.end \in Nat
  BY <1>1 DEF ValidFixture
<1>7. incident.start \in Nat /\ incident.at \in Nat
  BY <1>4, <1>5, <1>6
<1>8. QED
  BY <1>4, <1>5, <1>6, <1>7 DEF ScopeOf, store, incident

\* A draft that is verified rests on what was observable when the incident was detected.
LEMMA VerifiedReport ==
  ASSUME TypeInv, NEW s \in Simulation, WorkOf(s), pc[s] = "investigating", ~ Overrun(s),
         NEW draft, Verified(draft, StoreOf(s), work[s].scope, work[s].surfaced)
  PROVE  ReportOf(detected[s][Len(detected[s])],
                  Investigation(s, "completed", draft.observations \cup draft.causes,
                                ReportGaps(StoreOf(s), work[s].scope)))
<1> DEFINE incident == detected[s][Len(detected[s])]
           scope == work[s].scope
           store == StoreOf(s)
           report == Investigation(s, "completed", draft.observations \cup draft.causes,
                                   ReportGaps(store, scope))
<1>1. /\ ScopeFor(s) # None /\ scope = ScopeFor(s) /\ work[s].calls \in Nat
      /\ \A gap \in work[s].gaps :
           gap \in store.gaps /\ gap.service \in scope.services /\ gap.end > scope.start
  BY DEF WorkOf
<1>2. /\ scope.services = scenario.fixture.related[incident.trigger.service]
      /\ scope.start = incident.start /\ scope.end = incident.at
      /\ scope.start \in Nat /\ scope.end \in Nat
      /\ store.gaps = scenario.fixture.gaps
      /\ store.records = {record \in scenario.fixture.records : record.end <= incident.at}
  BY <1>1, ScopeFacts
<1>3. /\ report.evidence = draft.observations \cup draft.causes
      /\ report.seen = work[s] /\ report.gaps = ReportGaps(store, scope)
  BY DEF Investigation
<1> HIDE DEF incident, scope, store, report
<1>4. ASSUME NEW id \in report.evidence
      PROVE  id \in work[s].surfaced /\ Observable(id, incident)
  <2>1. id \in Citable(store, scope, work[s].surfaced)
    BY <1>3, <1>4 DEF Verified, scope, store
  <2>2. PICK record \in store.records :
          /\ record.id = id /\ record.id \in work[s].surfaced
          /\ record.service \in scope.services /\ record.at \in scope.start..scope.end
    BY <2>1 DEF Citable
  <2>3. QED
    BY <1>2, <2>2 DEF Observable
<1>5. work[s].calls <= MaxToolCalls
  BY <1>1, IncidentAssumption DEF Overrun
<1>6. {gap \in work[s].gaps : gap.start < incident.at} \subseteq report.gaps
  BY <1>1, <1>2, <1>3 DEF ReportGaps
<1>7. ReportOf(incident, report)
  BY <1>3, <1>4, <1>5, <1>6 DEF ReportOf
<1>8. QED
  BY <1>7 DEF report, incident, scope, store

-----------------------------------------------------------------------------------
(* What a step leaves alone.                                                       *)

\* A report is about an incident of the scenario.
LEMMA SameReports ==
  ASSUME scenario' = scenario
  PROVE  \A incident, report : ReportOf(incident, report)' <=> ReportOf(incident, report)
BY DEF ReportOf, Observable

\* Another simulation has the same story after the step.
LEMMA OtherSimulation ==
  ASSUME NEW s, s \in Simulation, StoryOf(s), WorkOf(s), scenario' = scenario,
         pc'[s] = pc[s], detected'[s] = detected[s], investigations'[s] = investigations[s],
         stop'[s] = stop[s], work'[s] = work[s]
  PROVE  StoryOf(s)' /\ WorkOf(s)'
<1>1. \A incident, report : ReportOf(incident, report)' <=> ReportOf(incident, report)
  BY SameReports
<1>2. Told(detected[s], investigations[s], stop[s]) =>
        Told(detected[s], investigations[s], stop[s])'
  BY <1>1 DEF Told
<1>3. StoryOf(s)'
  BY <1>1, <1>2 DEF StoryOf, IsSequence, Investigated
<1>4. ScopeFor(s)' = ScopeFor(s) /\ StoreOf(s)' = StoreOf(s)
  BY DEF ScopeFor, StoreOf
<1>5. WorkOf(s)'
  BY <1>4 DEF WorkOf
<1>6. QED
  BY <1>3, <1>5

\* A step of one caller keeps the invariant if it keeps that caller's part of it.
LEMMA CallerStep ==
  ASSUME RunsInv, NEW c \in Caller, TypeInv', scenario' = scenario,
         \A t \in Simulation : t # c =>
           /\ pc'[t] = pc[t] /\ detected'[t] = detected[t]
           /\ investigations'[t] = investigations[t] /\ stop'[t] = stop[t]
           /\ work'[t] = work[t],
         c \in Simulation => StoryOf(c)' /\ WorkOf(c)',
         OwnInv', \A r \in Run : SavedOf(r)', \A v \in Reviewer : ReadingOf(v)'
  PROVE  RunsInv'
<1>1. ASSUME NEW t \in Simulation PROVE StoryOf(t)' /\ WorkOf(t)'
  <2>1. CASE t = c
    BY <2>1
  <2>2. CASE t # c
    BY <2>2, OtherSimulation DEF RunsInv
  <2>3. QED
    BY <2>1, <2>2
<1>2. QED
  BY <1>1 DEF RunsInv

\* What was saved of a run stays true of it.
LEMMA SavedAgain ==
  ASSUME UNCHANGED scenario, NEW r \in Run, SavedOf(r), output'[r] = output[r],
         output[r] # None => run'[r] = run[r]
  PROVE  SavedOf(r)'
<1>1. \A incident, report : ReportOf(incident, report)' <=> ReportOf(incident, report)
  BY SameReports
<1>2. PICK saved : saved = output[r]
  OBVIOUS
<1>3. Told(saved.detected, saved.investigations, saved.stop)'
        <=> Told(saved.detected, saved.investigations, saved.stop)
  BY <1>1 DEF Told
<1>4. output'[r] = saved
  BY <1>2
<1>5. QED
  BY <1>2, <1>3, <1>4 DEF SavedOf

\* The rows and the reviews after a step that neither ends a run nor saves one.
LEMMA SameOwner ==
  ASSUME RunsInv, NEW c \in Caller, NEW phase \in Phase,
         pc' = [pc EXCEPT ![c] = phase], UNCHANGED <<scenario, output, reviewVars>>,
         \A r \in Run : run'[r] = run[r],
         phase \notin {"idle", "telling", "done"} /\ c \in Simulation => Busy(c)
  PROVE  OwnInv' /\ (\A r \in Run : SavedOf(r)') /\ (\A v \in Reviewer : ReadingOf(v)')
<1>1. \A t \in Simulation : pc'[t] = IF t = c THEN phase ELSE pc[t]
  BY DEF RunsInv, TypeInv, Caller
<1>2. \A t \in Simulation : Busy(t)' => Busy(t)
  BY <1>1 DEF Busy
<1>3. OwnInv'
  BY <1>2, IncidentAssumption DEF RunsInv, OwnInv, Caller
<1>4. \A r \in Run : SavedOf(r)'
  BY SavedAgain DEF RunsInv
<1>5. \A v \in Reviewer : ReadingOf(v)'
  BY DEF RunsInv, ReadingOf, reviewVars
<1>6. QED
  BY <1>3, <1>4, <1>5

\* The same after a step of a caller that gives its run another status.
LEMMA OwnerEnds ==
  ASSUME RunsInv, NEW c \in Caller, NEW phase \in Phase,
         NEW status \in {"running", "completed", "failed"},
         pc' = [pc EXCEPT ![c] = phase], run' = [run EXCEPT ![RunOf[c]] = status],
         UNCHANGED <<scenario, output, reviewVars>>,
         c \in Simulation => Busy(c) /\ phase = "done"
  PROVE  OwnInv' /\ (\A r \in Run : SavedOf(r)') /\ (\A v \in Reviewer : ReadingOf(v)')
<1>1. \A t \in Simulation : pc'[t] = IF t = c THEN phase ELSE pc[t]
  BY DEF RunsInv, TypeInv, Caller
<1>2. \A t \in Simulation : Busy(t)' => Busy(t) /\ RunOf[t] # RunOf[c]
  BY <1>1, IncidentAssumption DEF Busy, RunsInv, OwnInv, Caller
<1>3. output[RunOf[c]] = None /\ RunOf[c] \in Run
  BY IncidentAssumption DEF RunsInv, OwnInv, Caller
<1>4. \A r \in Run : run'[r] = IF r = RunOf[c] THEN status ELSE run[r]
  BY DEF RunsInv, TypeInv
<1>5. OwnInv'
  <2>1. \A t \in Simulation : RunOf[t] \in Run
    BY IncidentAssumption DEF Caller
  <2>2. OwnInv /\ status # "none"
    BY DEF RunsInv
  <2>3. \A t \in Simulation : Busy(t)' => run'[RunOf[t]] = "running" /\ output'[RunOf[t]] = None
    BY <1>2, <1>4, <2>1, <2>2 DEF OwnInv
  <2>4. \A t, u \in Simulation : Busy(t)' /\ Busy(u)' /\ RunOf[t] = RunOf[u] => t = u
    BY <1>2, <2>2 DEF OwnInv
  <2>5. \A r \in Run : run'[r] = "none" => output'[r] = None
    BY <1>3, <1>4, <2>2 DEF OwnInv
  <2>6. \A d \in Direct : output'[RunOf[d]] = None
    BY <2>2 DEF OwnInv
  <2>7. QED
    BY <2>3, <2>4, <2>5, <2>6 DEF OwnInv
<1>6. \A r \in Run : SavedOf(r)'
  BY <1>3, <1>4, SavedAgain DEF RunsInv
<1>7. \A v \in Reviewer : ReadingOf(v)'
  BY DEF RunsInv, ReadingOf, reviewVars
<1>8. QED
  BY <1>5, <1>6, <1>7

-----------------------------------------------------------------------------------
(* The replay of a simulation.                                                     *)

\* A simulation that goes on by itself, without touching its investigations.
LEMMA GoesOn ==
  ASSUME RunsInv, NEW s \in Simulation, NEW phase \in Phase, NEW reason,
         Busy(s), ~ Investigated(s), pc[s] # "saving",
         phase \notin {"idle", "queued", "investigating"},
         pc' = [pc EXCEPT ![s] = phase], DOMAIN stop' = Simulation,
         \A t \in Simulation : stop'[t] = IF t = s THEN reason ELSE stop[t],
         reason = stop[s] \/ Len(investigations[s]) = 0
           \/ (reason = "classifier_unavailable" /\ phase = "saving"),
         UNCHANGED <<scenario, run, output, detected, investigations, work, reviewVars>>
  PROVE  RunsInv'
<1>1. s \in Caller /\ TypeInv /\ StoryOf(s)
  BY DEF Caller, RunsInv
<1>2. /\ pc'[s] = phase /\ stop'[s] = reason
      /\ \A t \in Simulation : t # s => pc'[t] = pc[t] /\ stop'[t] = stop[t]
  BY <1>1 DEF TypeInv, Caller
<1>3. TypeInv'
  BY <1>1 DEF TypeInv, reviewVars
<1>4. OwnInv' /\ (\A r \in Run : SavedOf(r)') /\ (\A v \in Reviewer : ReadingOf(v)')
  BY <1>1, SameOwner
<1>5. WorkOf(s)'
  BY <1>2 DEF WorkOf
<1>6. /\ IsSequence(detected[s]) /\ IsSequence(investigations[s])
      /\ Len(detected[s]) = Len(investigations[s])
      /\ \A i \in DOMAIN investigations[s] :
           /\ ReportOf(detected[s][i], investigations[s][i])
           /\ investigations[s][i].stop = "completed"
      /\ Len(investigations[s]) > 0 => stop[s] = "completed"
      /\ Len(investigations[s]) \in Nat
      /\ DOMAIN investigations[s] = 1 .. Len(investigations[s])
  BY <1>1, Appended DEF StoryOf, Busy, Investigated
<1>7. phase = "saving" => Told(detected[s], investigations[s], reason)
  BY <1>6 DEF Told
<1>8. phase # "saving" /\ Len(investigations[s]) > 0 => reason = "completed"
  BY <1>6
<1>9. StoryOf(s)'
  <2>1. IsSequence(detected[s])' /\ IsSequence(investigations[s])'
    BY <1>6 DEF IsSequence
  <2>2. \A incident, report : ReportOf(incident, report)' <=> ReportOf(incident, report)
    BY SameReports
  <2>3. phase = "saving" => Told(detected[s], investigations[s], stop[s])'
    BY <1>2, <1>7, <2>2 DEF Told
  <2>4. ~ Investigated(s)'
    BY <1>2 DEF Investigated
  <2>5. QED
    BY <1>2, <1>6, <1>8, <2>1, <2>2, <2>3, <2>4 DEF StoryOf
<1>10. QED
  BY <1>1, <1>2, <1>3, <1>4, <1>5, <1>9, CallerStep

LEMMA StartSimulationStep ==
  ASSUME RunsInv, NEW s \in Simulation, StartSimulation(s)
  PROVE  RunsInv'
<1>1. s \in Caller /\ RunOf[s] \in Run /\ TypeInv /\ OwnInv /\ StoryOf(s)
  BY IncidentAssumption DEF Caller, RunsInv
<1>2. /\ pc[s] = "idle" /\ run[RunOf[s]] = "none" /\ output[RunOf[s]] = None
      /\ \A t \in Simulation : Busy(t) => RunOf[t] # RunOf[s]
  BY <1>1 DEF StartSimulation, OwnInv
<1>3. /\ \A t \in Simulation : pc'[t] = IF t = s THEN "advancing" ELSE pc[t]
      /\ \A r \in Run : run'[r] = IF r = RunOf[s] THEN "running" ELSE run[r]
      /\ UNCHANGED <<scenario, output, stop, detected, investigations, work, lock, reading>>
  BY <1>1 DEF StartSimulation, TypeInv, Caller, simulationVars, investigationVars, reviewVars
<1>4. TypeInv'
  BY <1>1, <1>3 DEF StartSimulation, TypeInv, Phase
<1>5. OwnInv'
  <2>1. \A t \in Simulation : Busy(t)' <=> Busy(t) \/ t = s
    BY <1>3 DEF Busy
  <2>2. \A t \in Simulation : RunOf[t] \in Run
    BY IncidentAssumption DEF Caller
  <2>3. \A t \in Simulation : Busy(t)' => run'[RunOf[t]] = "running" /\ output'[RunOf[t]] = None
    BY <1>1, <1>2, <1>3, <2>1, <2>2 DEF OwnInv
  <2>4. \A t, u \in Simulation : Busy(t)' /\ Busy(u)' /\ RunOf[t] = RunOf[u] => t = u
    BY <1>1, <1>2, <2>1 DEF OwnInv
  <2>5. /\ \A d \in Direct : output'[RunOf[d]] = None
        /\ \A r \in Run : run'[r] = "none" => output'[r] = None
    BY <1>1, <1>2, <1>3 DEF OwnInv
  <2>6. QED
    BY <2>3, <2>4, <2>5 DEF OwnInv
<1>6. \A r \in Run : SavedOf(r)'
  BY <1>2, <1>3, SavedAgain DEF RunsInv
<1>7. \A v \in Reviewer : ReadingOf(v)'
  BY <1>3 DEF RunsInv, ReadingOf
<1>8. StoryOf(s)' /\ WorkOf(s)'
  <2>1. \A incident, report : ReportOf(incident, report)' <=> ReportOf(incident, report)
    BY <1>3, SameReports
  <2>2. ~ Investigated(s) /\ ~ Investigated(s)'
    BY <1>2, <1>3 DEF Investigated
  <2>3. QED
    BY <1>1, <1>2, <1>3, <2>1, <2>2 DEF StoryOf, WorkOf, IsSequence
<1>9. QED
  BY <1>1, <1>3, <1>4, <1>5, <1>6, <1>7, <1>8, CallerStep

\* A simulation that is over has no more story to tell.
LEMMA SimulationOver ==
  ASSUME RunsInv, NEW s \in Simulation, pc'[s] \in {"telling", "done"},
         UNCHANGED <<detected, investigations>>
  PROVE  StoryOf(s)' /\ WorkOf(s)'
<1>1. IsSequence(detected[s]) /\ IsSequence(investigations[s])
  BY DEF RunsInv, StoryOf
<1>2. IsSequence(detected'[s]) /\ IsSequence(investigations'[s])
  BY <1>1
<1>3. QED
  BY <1>2 DEF StoryOf, WorkOf

\* A simulation that returns and changes nothing else.
LEMMA Returns ==
  ASSUME RunsInv, NEW s \in Simulation, pc' = [pc EXCEPT ![s] = "done"],
         DOMAIN run' = Run, \A r \in Run : run'[r] = run[r],
         UNCHANGED <<scenario, output, simulationVars, investigationVars, reviewVars>>
  PROVE  RunsInv'
<1>1. s \in Caller /\ TypeInv
  BY DEF Caller, RunsInv
<1>2. /\ UNCHANGED <<scenario, output, stop, detected, investigations, work>>
      /\ UNCHANGED <<lock, reading>> /\ UNCHANGED reviewVars
  BY DEF simulationVars, investigationVars, reviewVars
<1>3. pc'[s] = "done" /\ \A t \in Simulation : t # s => pc'[t] = pc[t]
  BY <1>1, <1>2 DEF TypeInv, Caller
<1>4. TypeInv'
  BY <1>1, <1>2 DEF TypeInv, Phase
<1>5. StoryOf(s)' /\ WorkOf(s)'
  BY <1>2, <1>3, SimulationOver
<1>6. "done" \in Phase
  BY DEF Phase
<1>7. OwnInv' /\ (\A r \in Run : SavedOf(r)') /\ (\A v \in Reviewer : ReadingOf(v)')
  BY <1>1, <1>2, <1>6, SameOwner
<1>8. QED
  BY <1>1, <1>2, <1>3, <1>4, <1>5, <1>7, CallerStep

LEMMA StartRejectedStep ==
  ASSUME RunsInv, NEW s \in Simulation, StartRejected(s)
  PROVE  RunsInv'
BY Returns DEF StartRejected, RunsInv, TypeInv

\* A callback that raises after the run has ended leaves it as it is.
LEMMA TellStep ==
  ASSUME RunsInv, EndedInv, NEW s \in Simulation, TellLast(s) \/ TellFails(s)
  PROVE  RunsInv'
<1>1. TypeInv
  BY DEF RunsInv
<1>2. DOMAIN run' = Run /\ \A r \in Run : run'[r] = run[r]
  BY <1>1 DEF TellLast, TellFails, FailRun, EndedInv, TypeInv
<1>3. QED
  BY <1>2, Returns DEF TellLast, TellFails, FailRun

LEMMA ReplayStepKeeps ==
  ASSUME RunsInv, NEW s \in Simulation, ReplayLog(s) \/ ReplayEnds(s) \/ Resume(s)
  PROVE  RunsInv'
<1> DEFINE phase == pc'[s]
<1>1. s \in Caller /\ TypeInv
  BY DEF Caller, RunsInv
<1>2. /\ pc[s] \in {"advancing", "pausing"}
      /\ phase \in {"advancing", "pausing", "classifying", "saving"}
      /\ pc' = [pc EXCEPT ![s] = phase]
  BY <1>1 DEF ReplayLog, ReplayEnds, Resume, TypeInv
<1>3. UNCHANGED <<scenario, run, output, stop, detected, investigations, work, reviewVars>>
  BY DEF ReplayLog, ReplayEnds, Resume, simulationVars, investigationVars
<1> HIDE DEF phase
<1>4. Busy(s) /\ ~ Investigated(s) /\ phase \in Phase
  BY <1>2 DEF Busy, Investigated, Phase
<1>5. QED
  BY <1>1, <1>2, <1>3, <1>4, GoesOn DEF TypeInv

LEMMA JudgedStep ==
  ASSUME RunsInv, NEW s \in Simulation, NEW outcome \in Judgments, Judged(s, outcome)
  PROVE  RunsInv'
<1> DEFINE phase == pc'[s]
           reason == stop'[s]
<1>1. s \in Caller /\ TypeInv /\ StoryOf(s)
  BY DEF Caller, RunsInv
<1>2. /\ pc[s] = "classifying"
      /\ phase = (IF outcome = "classifier_unavailable" THEN "saving" ELSE "advancing")
      /\ pc' = [pc EXCEPT ![s] = phase]
      /\ reason = IF outcome = "classifier_unavailable"
                    \/ (outcome = "needs_review" /\ Reviewable(s)) THEN outcome ELSE stop[s]
      /\ DOMAIN stop' = Simulation
      /\ \A t \in Simulation : stop'[t] = IF t = s THEN reason ELSE stop[t]
  BY <1>1 DEF Judged, TypeInv
<1>3. UNCHANGED <<scenario, run, output, detected, investigations, work, reviewVars>>
  BY DEF Judged, investigationVars
<1> HIDE DEF phase, reason
<1>4. Busy(s) /\ ~ Investigated(s) /\ phase \in Phase
  BY <1>2 DEF Busy, Investigated, Phase
<1>5. detected[s] = <<>> => Len(investigations[s]) = 0
  BY <1>1, <1>2, Appended DEF StoryOf, Investigated
<1>6. reason = stop[s] \/ Len(investigations[s]) = 0
        \/ (reason = "classifier_unavailable" /\ phase = "saving")
  BY <1>2, <1>5 DEF Reviewable
<1>7. phase \notin {"idle", "queued", "investigating"} /\ pc[s] # "saving"
  BY <1>2
<1>8. QED
  BY <1>2, <1>3, <1>4, <1>6, <1>7, GoesOn

LEMMA JudgedIncidentStep ==
  ASSUME RunsInv, NEW s \in Simulation, JudgedIncident(s)
  PROVE  RunsInv'
<1>1. s \in Caller /\ TypeInv /\ StoryOf(s)
  BY DEF Caller, RunsInv
<1>2. /\ pc[s] = "classifying"
      /\ UNCHANGED <<scenario, run, output, stop, investigations, work, lock, reading>>
      /\ UNCHANGED reviewVars
  BY DEF JudgedIncident, reviewVars
<1>3. CASE ~ Len(investigations[s]) < scenario.maxReports
  <2>1. pc' = [pc EXCEPT ![s] = "advancing"]
    BY <1>3 DEF JudgedIncident
  <2>2. detected' = [detected EXCEPT ![s] = detected[s]]
    BY <1>3 DEF JudgedIncident, Listing
  <2>3. StoryOf(s)'
    <3>1. \A incident, report : ReportOf(incident, report)' <=> ReportOf(incident, report)
      BY <1>2, SameReports
    <3>2. pc'[s] = "advancing" /\ detected'[s] = detected[s]
      BY <1>1, <2>1, <2>2 DEF TypeInv
    <3>3. ~ Investigated(s) /\ ~ Investigated(s)'
      BY <1>2, <3>2 DEF Investigated
    <3>4. QED
      BY <1>1, <1>2, <3>1, <3>2, <3>3 DEF StoryOf, IsSequence
  <2>4. WorkOf(s)'
    BY <1>1, <2>1 DEF WorkOf, TypeInv
  <2>5. TypeInv'
    BY <1>1, <1>2, <2>1, <2>2 DEF TypeInv, Phase
  <2>6. "advancing" \in Phase /\ Busy(s)
    BY <1>2 DEF Phase, Busy
  <2>7. OwnInv' /\ (\A r \in Run : SavedOf(r)') /\ (\A v \in Reviewer : ReadingOf(v)')
    BY <1>1, <1>2, <2>1, <2>6, SameOwner
  <2>8. \A t \in Simulation : t # s => pc'[t] = pc[t] /\ detected'[t] = detected[t]
    BY <1>1, <2>1, <2>2 DEF TypeInv, Caller
  <2>9. QED
    BY <1>1, <1>2, <2>3, <2>4, <2>5, <2>7, <2>8, CallerStep
<1>4. CASE Len(investigations[s]) < scenario.maxReports
  <2>1. pc' = [pc EXCEPT ![s] = "queued"]
    BY <1>4 DEF JudgedIncident
  <2>2. PICK incident : detected' = [detected EXCEPT ![s] = Append(detected[s], incident)]
    BY <1>4 DEF JudgedIncident, Listing
  <2>3. pc'[s] = "queued" /\ detected'[s] = Append(detected[s], incident)
    BY <1>1, <2>1, <2>2 DEF TypeInv
  <2>4. StoryOf(s)'
    <3>1. \A d, report : ReportOf(d, report)' <=> ReportOf(d, report)
      BY <1>2, SameReports
    <3>2. /\ IsSequence(detected[s]) /\ IsSequence(investigations[s])
          /\ Len(detected[s]) = Len(investigations[s])
          /\ \A i \in DOMAIN investigations[s] :
               /\ ReportOf(detected[s][i], investigations[s][i])
               /\ investigations[s][i].stop = "completed"
          /\ Len(investigations[s]) > 0 => stop[s] = "completed"
          /\ Len(investigations[s]) \in Nat
          /\ DOMAIN investigations[s] = 1 .. Len(investigations[s])
      BY <1>1, <1>2, Appended DEF StoryOf, Investigated
    <3>3. /\ IsSequence(detected'[s]) /\ Len(detected'[s]) = Len(detected[s]) + 1
          /\ \A i \in DOMAIN investigations[s] : detected'[s][i] = detected[s][i]
      BY <2>3, <3>2, Appended
    <3>4. Investigated(s)'
      BY <2>3 DEF Investigated
    <3>5. \A i \in DOMAIN investigations[s] :
            ReportOf(detected[s][i], investigations[s][i])'
      BY <1>2, <3>1, <3>2, <3>3
    <3>6. IsSequence(detected[s])' /\ IsSequence(investigations[s])'
      <4>1. IsSequence(detected'[s]) /\ IsSequence(investigations'[s])
        BY <1>2, <3>2, <3>3
      <4>2. QED
        BY <4>1 DEF IsSequence
    <3>7. QED
      BY <1>2, <2>3, <3>2, <3>3, <3>4, <3>5, <3>6 DEF StoryOf
  <2>5. WorkOf(s)'
    BY <2>3 DEF WorkOf
  <2>6. TypeInv'
    BY <1>1, <1>2, <2>1, <2>2 DEF TypeInv, Phase
  <2>7. "queued" \in Phase /\ Busy(s)
    BY <1>2 DEF Phase, Busy
  <2>8. OwnInv' /\ (\A r \in Run : SavedOf(r)') /\ (\A v \in Reviewer : ReadingOf(v)')
    BY <1>1, <1>2, <2>1, <2>7, SameOwner
  <2>9. \A t \in Simulation : t # s => pc'[t] = pc[t] /\ detected'[t] = detected[t]
    BY <1>1, <2>1, <2>2 DEF TypeInv, Caller
  <2>10. QED
    BY <1>1, <1>2, <2>4, <2>5, <2>6, <2>8, <2>9, CallerStep
<1>5. QED
  BY <1>3, <1>4

LEMMA SaveStep ==
  ASSUME RunsInv, NEW s \in Simulation, Save(s)
  PROVE  RunsInv'
<1> DEFINE status == IF stop[s] \in Failures THEN "failed" ELSE "completed"
           saved  == [status |-> status, stop |-> stop[s], detected |-> detected[s],
                      investigations |-> investigations[s], reviews |-> {}]
<1>1. s \in Caller /\ RunOf[s] \in Run /\ TypeInv /\ OwnInv /\ StoryOf(s)
  BY IncidentAssumption DEF Caller, RunsInv
<1>2. pc[s] = "saving" /\ Busy(s) /\ run[RunOf[s]] = "running" /\ output[RunOf[s]] = None
  BY <1>1 DEF Save, Busy, OwnInv
<1>3. /\ run' = [run EXCEPT ![RunOf[s]] = status]
      /\ output' = [output EXCEPT ![RunOf[s]] = saved]
      /\ pc' = [pc EXCEPT ![s] = "telling"]
      /\ UNCHANGED <<scenario, stop, detected, investigations, work, lock, reading>>
  BY DEF Save, simulationVars, investigationVars, reviewVars
<1>4. /\ status \in {"failed", "completed"}
      /\ DOMAIN saved = {"status", "stop", "detected", "investigations", "reviews"}
      /\ saved.status = status /\ saved.stop = stop[s] /\ saved.detected = detected[s]
      /\ saved.investigations = investigations[s] /\ saved.reviews = {}
  OBVIOUS
<1> HIDE DEF status, saved
<1>5. /\ \A t \in Simulation : pc'[t] = IF t = s THEN "telling" ELSE pc[t]
      /\ \A r \in Run : run'[r] = IF r = RunOf[s] THEN status ELSE run[r]
      /\ \A r \in Run : output'[r] = IF r = RunOf[s] THEN saved ELSE output[r]
  BY <1>1, <1>3 DEF TypeInv, Caller
<1>6. TypeInv'
  BY <1>1, <1>3 DEF TypeInv, Phase
<1>7. StoryOf(s)' /\ WorkOf(s)'
  BY <1>3, <1>5, SimulationOver
<1>8. OwnInv'
  <2>1. \A t \in Simulation : Busy(t)' => Busy(t) /\ RunOf[t] \in Run /\ RunOf[t] # RunOf[s]
    BY <1>1, <1>2, <1>5, IncidentAssumption DEF Busy, OwnInv, Caller
  <2>2. \A d \in Direct : RunOf[d] \in Run /\ RunOf[d] # RunOf[s]
    BY <1>1, IncidentAssumption DEF Caller
  <2>3. QED
    BY <1>1, <1>2, <1>4, <1>5, <2>1, <2>2 DEF OwnInv
<1>9. ASSUME NEW r \in Run PROVE SavedOf(r)'
  <2>1. \A incident, report : ReportOf(incident, report)' <=> ReportOf(incident, report)
    BY <1>3, SameReports
  <2>2. CASE r # RunOf[s]
    BY <1>3, <1>5, <2>2, SavedAgain DEF RunsInv
  <2>3. CASE r = RunOf[s]
    <3>1. Told(detected[s], investigations[s], stop[s])
      BY <1>1, <1>2 DEF StoryOf
    <3>2. Told(output[r].detected, output[r].investigations, output[r].stop)'
      <4>1. output'[r] = saved
        BY <1>5, <2>3
      <4>2. /\ output'[r].detected = detected[s] /\ output'[r].stop = stop[s]
            /\ output'[r].investigations = investigations[s]
        BY <1>4, <4>1
      <4>3. QED
        BY <2>1, <3>1, <4>2 DEF Told
    <3>3. QED
      BY <1>4, <1>5, <2>3, <3>2 DEF SavedOf
  <2>4. QED
    BY <2>2, <2>3
<1>10. \A v \in Reviewer : ReadingOf(v)'
  BY <1>2, <1>3, <1>5 DEF RunsInv, ReadingOf
<1>11. \A t \in Simulation : t # s => pc'[t] = pc[t]
  BY <1>5
<1>12. QED
  BY <1>1, <1>3, <1>6, <1>7, <1>8, <1>9, <1>10, <1>11, CallerStep

\* A simulation ends without an output, or a request that has no run is refused.
LEMMA Over ==
  ASSUME RunsInv, NEW c \in Caller, NEW status \in {"completed", "failed"},
         pc' = [pc EXCEPT ![c] = "done"],
         run' = [run EXCEPT ![RunOf[c]] = status] \/ (c \in Direct /\ run' = run),
         UNCHANGED <<scenario, output, detected, investigations, stop, reviewVars>>,
         DOMAIN work' = Caller, \A t \in Simulation : t # c => work'[t] = work[t],
         c \in Simulation => Busy(c)
  PROVE  RunsInv'
<1>1. TypeInv /\ UNCHANGED <<lock, reading>>
  BY DEF RunsInv, reviewVars
<1>2. pc'[c] = "done" /\ \A t \in Simulation : t # c => pc'[t] = pc[t]
  BY <1>1 DEF TypeInv, Caller
<1>3. TypeInv'
  BY <1>1 DEF TypeInv, Phase
<1>4. "done" \in Phase /\ (c \in Direct => c \notin Simulation)
  BY IncidentAssumption DEF Phase
<1>5. OwnInv' /\ (\A r \in Run : SavedOf(r)') /\ (\A v \in Reviewer : ReadingOf(v)')
  <2>1. CASE run' = [run EXCEPT ![RunOf[c]] = status]
    BY <1>4, <2>1, OwnerEnds
  <2>2. CASE c \in Direct /\ run' = run
    BY <1>4, <2>2, SameOwner
  <2>3. QED
    BY <2>1, <2>2
<1>6. c \in Simulation => StoryOf(c)' /\ WorkOf(c)'
  BY <1>2, SimulationOver
<1>7. QED
  BY <1>2, <1>3, <1>5, <1>6, CallerStep

\* The replay is refused, or the last transaction raises.
LEMMA FailRunStep ==
  ASSUME RunsInv, NEW s \in Simulation, ReplayRefused(s) \/ SaveFails(s)
  PROVE  RunsInv'
<1>1. s \in Caller /\ TypeInv /\ OwnInv
  BY DEF Caller, RunsInv
<1>2. /\ Busy(s) /\ FailRun(s)
      /\ UNCHANGED <<scenario, output, detected, investigations, stop, work, reviewVars>>
  BY DEF ReplayRefused, SaveFails, Busy, simulationVars, investigationVars
<1>3. run[RunOf[s]] = "running" /\ "running" \notin R!Terminal
  BY <1>1, <1>2 DEF OwnInv, R!Terminal
<1>4. pc' = [pc EXCEPT ![s] = "done"] /\ run' = [run EXCEPT ![RunOf[s]] = "failed"]
  BY <1>2, <1>3 DEF FailRun
<1>5. DOMAIN work' = Caller /\ work' = work
  BY <1>1, <1>2 DEF TypeInv
<1>6. QED
  BY <1>1, <1>2, <1>4, <1>5, Over

-----------------------------------------------------------------------------------
(* Investigations.                                                                 *)

LEMMA RequestStep ==
  ASSUME RunsInv, NEW c \in Direct, RequestInvestigation(c)
  PROVE  RunsInv'
<1>1. c \in Caller /\ c \notin Simulation /\ TypeInv
  BY IncidentAssumption DEF Caller, RunsInv
<1>2. /\ pc' = [pc EXCEPT ![c] = "queued"]
      /\ UNCHANGED <<scenario, run, output, stop, detected, investigations, work, lock, reading>>
      /\ UNCHANGED reviewVars
  BY DEF RequestInvestigation, simulationVars, reviewVars
<1>3. \A t \in Simulation : t # c => pc'[t] = pc[t]
  BY <1>1, <1>2 DEF TypeInv, Caller
<1>4. TypeInv'
  BY <1>1, <1>2 DEF TypeInv, Phase
<1>5. "queued" \in Phase
  BY DEF Phase
<1>6. OwnInv' /\ (\A r \in Run : SavedOf(r)') /\ (\A v \in Reviewer : ReadingOf(v)')
  BY <1>1, <1>2, <1>5, SameOwner
<1>7. QED
  BY <1>1, <1>2, <1>3, <1>4, <1>6, CallerStep

LEMMA AcquireStep ==
  ASSUME RunsInv, NEW c \in Caller, Acquire(c)
  PROVE  RunsInv'
<1> DEFINE fresh == [NoWork EXCEPT !.scope = ScopeFor(c)]
<1>1. TypeInv /\ (c \in Direct <=> c \notin Simulation)
  BY IncidentAssumption DEF RunsInv, Caller
<1>2. /\ pc[c] = "queued" /\ ScopeFor(c) # None
      /\ pc' = [pc EXCEPT ![c] = "investigating"]
      /\ work' = [work EXCEPT ![c] = fresh]
      /\ UNCHANGED <<scenario, output, stop, detected, investigations, lock, reading>>
      /\ UNCHANGED reviewVars
  BY DEF Acquire, simulationVars, reviewVars
<1>3. /\ fresh.scope = ScopeFor(c) /\ fresh.calls = 0 /\ fresh.gaps = {}
      /\ DOMAIN fresh = DOMAIN NoWork
  BY DEF NoWork
<1> HIDE DEF fresh
<1>4. /\ pc'[c] = "investigating" /\ work'[c] = fresh
      /\ \A t \in Simulation : t # c => pc'[t] = pc[t] /\ work'[t] = work[t]
  BY <1>1, <1>2 DEF TypeInv, Caller
<1>5. CASE c \in Simulation
  <2>1. run' = run /\ Busy(c) /\ "investigating" \in Phase
    BY <1>1, <1>2, <1>5 DEF Acquire, Busy, Phase
  <2>2. OwnInv' /\ (\A r \in Run : SavedOf(r)') /\ (\A v \in Reviewer : ReadingOf(v)')
    BY <1>2, <2>1, SameOwner
  <2>3. TypeInv'
    BY <1>1, <1>2, <2>1 DEF TypeInv, Phase
  <2>4. ScopeFor(c)' = ScopeFor(c)
    BY <1>2 DEF ScopeFor, StoreOf
  <2>5. WorkOf(c)'
    BY <1>2, <1>3, <1>4, <2>4 DEF WorkOf
  <2>6. StoryOf(c)'
    <3>1. \A incident, report : ReportOf(incident, report)' <=> ReportOf(incident, report)
      BY <1>2, SameReports
    <3>2. Investigated(c) /\ Investigated(c)'
      BY <1>2, <1>4 DEF Investigated
    <3>3. StoryOf(c)
      BY <1>5 DEF RunsInv
    <3>4. QED
      BY <1>2, <1>4, <3>1, <3>2, <3>3 DEF StoryOf, IsSequence
  <2>7. QED
    BY <1>2, <1>4, <2>2, <2>3, <2>5, <2>6, CallerStep
<1>6. CASE c \notin Simulation
  <2>1. run' = [run EXCEPT ![RunOf[c]] = "running"] /\ "investigating" \in Phase
    BY <1>1, <1>6 DEF Acquire, Phase
  <2>2. OwnInv' /\ (\A r \in Run : SavedOf(r)') /\ (\A v \in Reviewer : ReadingOf(v)')
    BY <1>2, <1>6, <2>1, OwnerEnds
  <2>3. TypeInv'
    BY <1>1, <1>2, <2>1 DEF TypeInv, Phase
  <2>4. QED
    BY <1>2, <1>4, <1>6, <2>2, <2>3, CallerStep
<1>7. QED
  BY <1>5, <1>6

LEMMA RefuseStep ==
  ASSUME RunsInv, NEW c \in Caller, Refuse(c)
  PROVE  RunsInv'
<1>1. TypeInv /\ (c \in Direct <=> c \notin Simulation)
  BY IncidentAssumption DEF RunsInv, Caller
<1>2. /\ Busy(c) /\ pc' = [pc EXCEPT ![c] = "done"]
      /\ run' = [run EXCEPT ![RunOf[c]] = "failed"] \/ (c \in Direct /\ run' = run)
      /\ UNCHANGED <<scenario, output, detected, investigations, stop, work, reviewVars>>
  BY <1>1 DEF Refuse, Busy, simulationVars
<1>3. DOMAIN work' = Caller /\ work' = work
  BY <1>1, <1>2 DEF TypeInv
<1>4. QED
  BY <1>2, <1>3, Over

LEMMA LeaveStep ==
  ASSUME RunsInv, NEW c \in Caller, Leave(c)
  PROVE  RunsInv'
<1>1. TypeInv /\ (c \in Direct <=> c \notin Simulation)
  BY IncidentAssumption DEF RunsInv, Caller
<1>2. /\ Busy(c) /\ pc' = [pc EXCEPT ![c] = "done"]
      /\ run' = [run EXCEPT ![RunOf[c]] = "failed"] \/ (c \in Direct /\ run' = run)
      /\ work' = [work EXCEPT ![c] = NoWork]
      /\ UNCHANGED <<scenario, output, detected, investigations, stop, reviewVars>>
  BY <1>1 DEF Leave, Busy, Awaiting, simulationVars
<1>3. DOMAIN work' = Caller /\ \A t \in Simulation : t # c => work'[t] = work[t]
  BY <1>1, <1>2 DEF TypeInv, Caller
<1>4. QED
  BY <1>2, <1>3, Over

LEMMA CallToolStep ==
  ASSUME RunsInv, NEW c \in Caller, NEW q \in scenario.queries, CallTool(c, q)
  PROVE  RunsInv'
<1> DEFINE answer == IF work[c].calls < MaxToolCalls
                     THEN Query(StoreOf(c), work[c].scope, q) ELSE None
           found == IF answer = None THEN [records |-> {}, gaps |-> {}] ELSE answer
<1>1. TypeInv /\ q.tool \in Tools
  BY ScenarioFacts DEF RunsInv, TypeInv
<1>0. PICK shown \in Shown(found.records) :
        work' = [work EXCEPT ![c].calls = @ + 1,
                             ![c].surfaced = @ \cup {record.id : record \in shown},
                             ![c].gaps = @ \cup found.gaps]
  BY DEF CallTool
<1> DEFINE after == [work[c] EXCEPT !.calls = @ + 1,
                                    !.surfaced = @ \cup {record.id : record \in shown},
                                    !.gaps = @ \cup found.gaps]
<1>2. /\ pc[c] = "investigating" /\ pc' = pc
      /\ UNCHANGED <<scenario, run, output, stop, detected, investigations, lock, reading>>
      /\ UNCHANGED reviewVars
      /\ work' = [work EXCEPT ![c] = after]
  BY <1>0, <1>1 DEF CallTool, simulationVars, reviewVars, TypeInv
<1>3. CASE c \notin Simulation
  <2>1. \A t \in Simulation : t # c /\ work'[t] = work[t]
    BY <1>1, <1>2, <1>3 DEF TypeInv, Caller
  <2>2. pc' = [pc EXCEPT ![c] = pc[c]] /\ pc[c] \in Phase
    BY <1>1, <1>2 DEF TypeInv
  <2>3. OwnInv' /\ (\A r \in Run : SavedOf(r)') /\ (\A v \in Reviewer : ReadingOf(v)')
    BY <1>2, <1>3, <2>2, SameOwner
  <2>4. TypeInv'
    BY <1>1, <1>2 DEF TypeInv
  <2>5. QED
    BY <1>2, <1>3, <2>1, <2>3, <2>4, CallerStep
<1>4. CASE c \in Simulation
  <2>1. WorkOf(c) /\ StoryOf(c)
    BY <1>4 DEF RunsInv
  <2>2. /\ ScopeFor(c) # None /\ work[c].scope = ScopeFor(c) /\ work[c].calls \in Nat
        /\ \A gap \in work[c].gaps :
             /\ gap \in StoreOf(c).gaps /\ gap.service \in work[c].scope.services
             /\ gap.end > work[c].scope.start
    BY <1>2, <2>1 DEF WorkOf
  <2>3. /\ ScopeFor(c).start \in Nat /\ ScopeFor(c).end \in Nat
        /\ \A gap \in StoreOf(c).gaps : gap.start \in Nat /\ gap.end \in Nat
    BY <1>1, <1>4, <2>2, ScopeFacts
  <2>4. ASSUME NEW gap \in found.gaps
        PROVE  /\ gap \in StoreOf(c).gaps /\ gap.service \in work[c].scope.services
               /\ gap.end > work[c].scope.start
    <3>1. answer # None /\ found = answer
      BY <2>4
    <3>2. answer = Query(StoreOf(c), work[c].scope, q)
      BY <3>1
    <3>3. /\ Query(StoreOf(c), work[c].scope, q) # None
          /\ gap \in Query(StoreOf(c), work[c].scope, q).gaps
      BY <2>4, <3>1, <3>2
    <3>4. QED
      BY <1>1, <2>2, <2>3, <3>3, QueryGaps
  <2>5. DOMAIN work[c] = DOMAIN NoWork
    BY <1>2, <2>1 DEF WorkOf
  <2>6. /\ after.scope = work[c].scope /\ after.calls = work[c].calls + 1
        /\ after.gaps = work[c].gaps \cup found.gaps /\ DOMAIN after = DOMAIN work[c]
    BY <2>5 DEF NoWork
  <2> HIDE DEF answer, found, after
  <2>7. work'[c] = after /\ \A t \in Simulation : t # c => work'[t] = work[t]
    BY <1>1, <1>2 DEF TypeInv, Caller
  <2>8. ScopeFor(c)' = ScopeFor(c) /\ StoreOf(c)' = StoreOf(c)
    BY <1>2 DEF ScopeFor, StoreOf
  <2>9. WorkOf(c)'
    BY <2>2, <2>4, <2>5, <2>6, <2>7, <2>8 DEF WorkOf
  <2>10. StoryOf(c)'
    <3>1. \A incident, report : ReportOf(incident, report)' <=> ReportOf(incident, report)
      BY <1>2, SameReports
    <3>2. Investigated(c)' <=> Investigated(c)
      BY <1>2 DEF Investigated
    <3>3. QED
      BY <1>2, <2>1, <3>1, <3>2 DEF StoryOf, IsSequence
  <2>11. pc' = [pc EXCEPT ![c] = pc[c]] /\ pc[c] \in Phase /\ Busy(c)
    BY <1>1, <1>2 DEF TypeInv, Busy
  <2>12. OwnInv' /\ (\A r \in Run : SavedOf(r)') /\ (\A v \in Reviewer : ReadingOf(v)')
    BY <1>2, <2>11, SameOwner
  <2>13. TypeInv'
    BY <1>1, <1>2 DEF TypeInv
  <2>14. QED
    BY <1>2, <2>7, <2>9, <2>10, <2>12, <2>13, CallerStep
<1>5. QED
  BY <1>3, <1>4

\* An investigation that returns has a report about the incident it was for, or failed.
LEMMA ReturnStep ==
  ASSUME RunsInv, NEW c \in Caller, pc[c] = "investigating",
         NEW reason, NEW evidence, NEW gaps, Return(c, reason, evidence, gaps),
         \/ reason \in Failures
         \/ /\ reason = "completed"
            /\ c \in Simulation => ReportOf(detected[c][Len(detected[c])],
                                            Investigation(c, reason, evidence, gaps))
  PROVE  RunsInv'
<1> DEFINE report == Investigation(c, reason, evidence, gaps)
<1>1. TypeInv
  BY DEF RunsInv
<1>2. /\ work' = [work EXCEPT ![c] = NoWork]
      /\ UNCHANGED <<scenario, output, detected, lock, reading>> /\ UNCHANGED reviewVars
  BY DEF Return, reviewVars
<1>3. DOMAIN work' = Caller /\ \A t \in Simulation : t # c => work'[t] = work[t]
  BY <1>1, <1>2 DEF TypeInv, Caller
<1>4. CASE c \notin Simulation
  <2>1. /\ run' = [run EXCEPT ![RunOf[c]] = IF reason \in Failures THEN "failed" ELSE "completed"]
        /\ pc' = [pc EXCEPT ![c] = "done"]
        /\ UNCHANGED <<stop, investigations>>
    BY <1>4 DEF Return
  <2>2. (IF reason \in Failures THEN "failed" ELSE "completed") \in {"completed", "failed"}
    OBVIOUS
  <2>3. QED
    BY <1>2, <1>3, <1>4, <2>1, <2>2, Over
<1>5. CASE c \in Simulation
  <2> DEFINE phase == IF reason \in Failures THEN "saving" ELSE "advancing"
  <2>1. /\ investigations' = [investigations EXCEPT ![c] = Append(investigations[c], report)]
        /\ stop' = [stop EXCEPT ![c] = reason]
        /\ pc' = [pc EXCEPT ![c] = phase]
        /\ run' = run
    BY <1>5 DEF Return
  <2>2. report.stop = reason
    BY DEF Investigation
  <2> HIDE DEF report
  <2>3. /\ investigations'[c] = Append(investigations[c], report)
        /\ stop'[c] = reason /\ pc'[c] = phase /\ detected'[c] = detected[c]
        /\ \A t \in Simulation : t # c =>
             pc'[t] = pc[t] /\ stop'[t] = stop[t] /\ investigations'[t] = investigations[t]
    BY <1>1, <1>2, <1>5, <2>1 DEF TypeInv
  <2>4. phase \in Phase /\ phase \in {"saving", "advancing"} /\ Busy(c)
    BY DEF Phase, Busy
  <2>5. OwnInv' /\ (\A r \in Run : SavedOf(r)') /\ (\A v \in Reviewer : ReadingOf(v)')
    BY <1>2, <2>1, <2>4, SameOwner
  <2>6. TypeInv'
    BY <1>1, <1>2, <1>3, <2>1, <2>4 DEF TypeInv
  <2>7. WorkOf(c)'
    BY <2>3, <2>4 DEF WorkOf
  <2>8. StoryOf(c)'
    <3> DEFINE n == Len(investigations[c])
    <3>1. /\ IsSequence(detected[c]) /\ IsSequence(investigations[c])
          /\ Len(detected[c]) = n + 1
          /\ \A i \in DOMAIN investigations[c] :
               /\ ReportOf(detected[c][i], investigations[c][i])
               /\ investigations[c][i].stop = "completed"
      BY <1>5 DEF RunsInv, StoryOf, Investigated
    <3>2. /\ IsSequence(investigations'[c]) /\ Len(investigations'[c]) = n + 1
          /\ DOMAIN investigations[c] = 1 .. n /\ n \in Nat
          /\ DOMAIN investigations'[c] = 1 .. (n + 1)
          /\ \A i \in 1 .. n : investigations'[c][i] = investigations[c][i]
          /\ investigations'[c][n + 1] = report
      BY <2>3, <3>1, Appended
    <3> HIDE DEF n
    <3>3. ReportOf(detected[c][n + 1], report)
      <4>1. CASE reason \in Failures
        BY <2>2, <4>1 DEF ReportOf, Failures
      <4>2. CASE reason \notin Failures
        BY <1>5, <3>1, <4>2 DEF report
      <4>3. QED
        BY <4>1, <4>2
    <3>4. \A incident, r : ReportOf(incident, r)' <=> ReportOf(incident, r)
      BY <1>2, SameReports
    <3>5. ASSUME NEW i \in 1 .. (n + 1)
          PROVE  ReportOf(detected[c][i], investigations[c][i])'
      <4>1. CASE i = n + 1
        BY <2>3, <3>2, <3>3, <3>4, <4>1
      <4>2. CASE i # n + 1
        <5>1. i \in 1 .. n
          BY <3>2, <3>5, <4>2
        <5>2. QED
          BY <2>3, <3>1, <3>2, <3>4, <5>1
      <4>3. QED
        BY <4>1, <4>2
    <3>6. \A i \in 1 .. n : investigations'[c][i].stop = "completed"
      BY <3>1, <3>2
    <3>7. IsSequence(detected[c])' /\ IsSequence(investigations[c])'
      <4>1. IsSequence(detected'[c]) /\ IsSequence(investigations'[c])
        BY <2>3, <3>1, <3>2
      <4>2. QED
        BY <4>1 DEF IsSequence
    <3>8. Len(detected'[c]) = n + 1 /\ (n + 1) - 1 = n /\ n + 1 > 0
      BY <2>3, <3>1, <3>2
    <3>9. ~ Investigated(c)'
      BY <2>3, <2>4 DEF Investigated
    <3>10. CASE reason \in Failures
      <4>1. Told(detected[c], investigations[c], stop[c])'
        BY <2>3, <3>2, <3>5, <3>6, <3>8, <2>2 DEF Told
      <4>2. QED
        BY <2>3, <3>7, <3>10, <4>1 DEF StoryOf
    <3>11. CASE reason \notin Failures
      <4>1. reason = "completed" /\ pc'[c] = "advancing"
        BY <2>3, <3>11
      <4>2. \A i \in 1 .. (n + 1) : investigations'[c][i].stop = "completed"
        <5>1. ASSUME NEW i \in 1 .. (n + 1), i # n + 1
              PROVE  i \in 1 .. n
          BY <3>2, <5>1
        <5>2. QED
          BY <2>2, <3>2, <3>6, <4>1, <5>1
      <4>3. QED
        BY <2>3, <3>2, <3>5, <3>7, <3>8, <3>9, <4>1, <4>2 DEF StoryOf
    <3>12. QED
      BY <3>10, <3>11
  <2>9. QED
    BY <1>2, <1>3, <2>3, <2>5, <2>6, <2>7, <2>8, CallerStep
<1>6. QED
  BY <1>4, <1>5

LEMMA DraftStep ==
  ASSUME RunsInv, NEW c \in Caller, NEW draft, Draft(c, draft)
  PROVE  RunsInv'
<1>1. pc[c] = "investigating" /\ "completed" \notin Failures
  BY DEF Draft, Failures
<1>2. CASE Overrun(c)
  <2>1. Return(c, "budget_exhausted", {}, {}) /\ "budget_exhausted" \in Failures
    BY <1>2 DEF Draft, Failures
  <2>2. QED
    BY <1>1, <2>1, ReturnStep
<1>3. CASE ~ Overrun(c) /\ ~ Verified(draft, StoreOf(c), work[c].scope, work[c].surfaced)
  <2>1. Return(c, "verification_failed", {}, {}) /\ "verification_failed" \in Failures
    BY <1>3 DEF Draft, Failures
  <2>2. QED
    BY <1>1, <2>1, ReturnStep
<1>4. CASE ~ Overrun(c) /\ Verified(draft, StoreOf(c), work[c].scope, work[c].surfaced)
  <2>1. Return(c, "completed", draft.observations \cup draft.causes,
               ReportGaps(StoreOf(c), work[c].scope))
    BY <1>4 DEF Draft
  <2>2. c \in Simulation =>
          ReportOf(detected[c][Len(detected[c])],
                   Investigation(c, "completed", draft.observations \cup draft.causes,
                                 ReportGaps(StoreOf(c), work[c].scope)))
    BY <1>1, <1>4, VerifiedReport DEF RunsInv
  <2>3. QED
    BY <1>1, <2>1, <2>2, ReturnStep
<1>5. QED
  BY <1>2, <1>3, <1>4

LEMMA AgentStopsStep ==
  ASSUME RunsInv, NEW c \in Caller, NEW reason, AgentStops(c, reason)
  PROVE  RunsInv'
<1>1. pc[c] = "investigating" /\ Return(c, reason, {}, {}) /\ reason \in Failures
  BY DEF AgentStops, Failures
<1>2. QED
  BY <1>1, ReturnStep

-----------------------------------------------------------------------------------
(* Reviews.                                                                        *)

\* A step of a reviewer leaves the simulations alone.
LEMMA ReviewerStep ==
  ASSUME RunsInv, NEW v \in Reviewer, TypeInv',
         UNCHANGED <<scenario, run, pc, stop, detected, investigations, work>>,
         \A r \in Run : output[r] = None => output'[r] = None,
         \A r \in Run : SavedOf(r)', \A w \in Reviewer : ReadingOf(w)'
  PROVE  RunsInv'
<1>1. \A s \in Simulation : StoryOf(s)' /\ WorkOf(s)'
  BY OtherSimulation DEF RunsInv
<1>2. \A s \in Simulation : Busy(s)' <=> Busy(s)
  BY DEF Busy
<1>3. \A c \in Caller : RunOf[c] \in Run
  BY IncidentAssumption
<1>4. OwnInv'
  BY <1>2, <1>3 DEF RunsInv, OwnInv, Caller
<1>5. QED
  BY <1>1, <1>4 DEF RunsInv

LEMMA ReadOutputStep ==
  ASSUME RunsInv, NEW v \in Reviewer, NEW r \in Run, ReadOutput(v, r)
  PROVE  RunsInv'
<1> DEFINE read == [run |-> r, saved |-> output[r]]
<1>1. TypeInv /\ None \notin Reviewer
  BY IncidentAssumption DEF RunsInv
<1>2. /\ output[r] # None /\ lock[r] = None
      /\ lock' = [lock EXCEPT ![r] = v] /\ reading' = [reading EXCEPT ![v] = read]
      /\ UNCHANGED <<scenario, run, output, pc, stop, detected, investigations, work>>
  BY DEF ReadOutput, simulationVars, investigationVars
<1>3. read.run = r /\ read.saved = output[r]
  OBVIOUS
<1> HIDE DEF read
<1>4. TypeInv'
  BY <1>1, <1>2 DEF TypeInv
<1>5. \A i \in Run : SavedOf(i)'
  BY <1>2, SavedAgain DEF RunsInv
<1>6. ASSUME NEW w \in Reviewer PROVE ReadingOf(w)'
  <2>1. /\ \A i \in Run : lock'[i] = IF i = r THEN v ELSE lock[i]
        /\ reading'[w] = IF w = v THEN read ELSE reading[w]
    BY <1>1, <1>2 DEF TypeInv
  <2>2. CASE w = v
    BY <1>2, <1>3, <2>1, <2>2 DEF ReadingOf
  <2>3. CASE w # v
    BY <1>1, <1>2, <2>1, <2>3 DEF RunsInv, ReadingOf
  <2>4. QED
    BY <2>2, <2>3
<1>7. QED
  BY <1>2, <1>4, <1>5, <1>6, ReviewerStep

\* A review adds itself to what is saved, and is the only one of its report.
LEMMA ReviewAdds ==
  ASSUME RunsInv, NEW v \in Reviewer, NEW incident, NEW decision,
         Review(v, incident, decision)
  PROVE  LET r == reading[v].run IN
         /\ r \in Run /\ lock[r] = v /\ output[r] # None
         /\ \A i \in Run : i # r => output'[i] = output[i]
         /\ DOMAIN output'[r] = DOMAIN output[r]
         /\ output'[r].status = output[r].status /\ output'[r].stop = output[r].stop
         /\ output'[r].detected = output[r].detected
         /\ output'[r].investigations = output[r].investigations
         /\ output[r].reviews \subseteq output'[r].reviews
         /\ \A a, b \in output'[r].reviews : a[1] = b[1] => a = b
<1> DEFINE r == reading[v].run
           added == [output[r] EXCEPT !.reviews = @ \cup {<<incident, decision>>}]
<1>1. /\ r \in Run /\ lock[r] = v /\ output[r] # None /\ reading[v].saved = output[r]
  BY DEF Review, RunsInv, ReadingOf
<1>2. /\ DOMAIN output[r] = {"status", "stop", "detected", "investigations", "reviews"}
      /\ \A a, b \in output[r].reviews : a[1] = b[1] => a = b
      /\ DOMAIN output = Run
  BY <1>1 DEF RunsInv, SavedOf, TypeInv
<1>3. CASE output' = output
  BY <1>1, <1>2, <1>3
<1>4. CASE output' # output
  <2>1. /\ output' = [output EXCEPT ![r] = added]
        /\ \A review \in output[r].reviews : review[1] # incident
    BY <1>1, <1>4 DEF Review
  <2>2. /\ DOMAIN added = DOMAIN output[r]
        /\ added.status = output[r].status /\ added.stop = output[r].stop
        /\ added.detected = output[r].detected
        /\ added.investigations = output[r].investigations
        /\ added.reviews = output[r].reviews \cup {<<incident, decision>>}
    BY <1>2
  <2> HIDE DEF added
  <2>3. /\ output'[r] = added
        /\ \A i \in Run : i # r => output'[i] = output[i]
    BY <1>1, <1>2, <2>1
  <2>4. \A a, b \in added.reviews : a[1] = b[1] => a = b
    BY <1>2, <2>1, <2>2
  <2>5. QED
    BY <1>1, <2>2, <2>3, <2>4
<1>5. QED
  BY <1>3, <1>4

LEMMA ReviewStepKeeps ==
  ASSUME RunsInv, NEW v \in Reviewer, NEW incident, NEW decision,
         Review(v, incident, decision)
  PROVE  RunsInv'
<1> PICK r : r = reading[v].run
  OBVIOUS
<1>1. TypeInv /\ reading[v] # None
  BY DEF RunsInv, Review
<1>2. /\ r \in Run /\ lock[r] = v /\ output[r] # None
      /\ \A i \in Run : i # r => output'[i] = output[i]
      /\ DOMAIN output'[r] = DOMAIN output[r]
      /\ output'[r].status = output[r].status /\ output'[r].stop = output[r].stop
      /\ output'[r].detected = output[r].detected
      /\ output'[r].investigations = output[r].investigations
      /\ \A a, b \in output'[r].reviews : a[1] = b[1] => a = b
  BY ReviewAdds
<1>3. /\ lock' = [lock EXCEPT ![r] = None] /\ reading' = [reading EXCEPT ![v] = None]
      /\ UNCHANGED <<scenario, run, pc, stop, detected, investigations, work>>
      /\ DOMAIN output' = Run
  BY <1>1 DEF Review, TypeInv, simulationVars, investigationVars
<1>4. TypeInv'
  BY <1>1, <1>3 DEF TypeInv
<1>5. ASSUME NEW i \in Run PROVE SavedOf(i)'
  <2>1. \A d, report : ReportOf(d, report)' <=> ReportOf(d, report)
    BY <1>3, SameReports
  <2>2. CASE i # r
    BY <1>2, <1>3, <2>1, <2>2 DEF RunsInv, SavedOf, Told
  <2>3. CASE i = r
    <3>1. /\ DOMAIN output[r] = {"status", "stop", "detected", "investigations", "reviews"}
          /\ run[r] = output[r].status
          /\ Told(output[r].detected, output[r].investigations, output[r].stop)
      BY <1>2 DEF RunsInv, SavedOf
    <3>2. Told(output[r].detected, output[r].investigations, output[r].stop)'
      <4>1. PICK saved : saved = output[r]
        OBVIOUS
      <4>2. Told(saved.detected, saved.investigations, saved.stop)'
        BY <2>1, <3>1, <4>1 DEF Told
      <4>3. /\ output'[r].stop = saved.stop /\ output'[r].detected = saved.detected
            /\ output'[r].investigations = saved.investigations
        BY <1>2, <4>1
      <4>4. QED
        BY <4>2, <4>3
    <3>3. QED
      BY <1>2, <1>3, <2>3, <3>1, <3>2 DEF SavedOf
  <2>4. QED
    BY <2>2, <2>3
<1>6. ASSUME NEW w \in Reviewer PROVE ReadingOf(w)'
  <2>1. /\ \A i \in Run : lock'[i] = IF i = r THEN None ELSE lock[i]
        /\ reading'[w] = IF w = v THEN None ELSE reading[w]
    BY <1>1, <1>3 DEF TypeInv
  <2>2. CASE w = v
    BY <2>1, <2>2 DEF ReadingOf
  <2>3. CASE w # v
    BY <1>2, <1>3, <2>1, <2>3 DEF RunsInv, ReadingOf
  <2>4. QED
    BY <2>2, <2>3
<1>7. QED
  BY <1>2, <1>3, <1>4, <1>5, <1>6, ReviewerStep

-----------------------------------------------------------------------------------
(* The theorems.                                                                   *)

LEMMA InitRunsInv == Init => RunsInv
<1> SUFFICES ASSUME Init PROVE RunsInv
  OBVIOUS
<1>1. TypeInv
  BY DEF Init, TypeInv, Phase, R!Init
<1>2. OwnInv
  <2>1. \A c \in Caller : RunOf[c] \in Run
    BY IncidentAssumption
  <2>2. QED
    BY <2>1 DEF Init, OwnInv, Busy, Caller
<1>3. ASSUME NEW s \in Simulation PROVE StoryOf(s) /\ WorkOf(s)
  <2>1. pc[s] = "idle" /\ detected[s] = <<>> /\ investigations[s] = <<>>
    BY DEF Init, Caller
  <2>2. IsSequence(<<>>) /\ Len(<<>>) = 0 /\ DOMAIN <<>> = {}
    BY EmptySeq DEF IsSequence
  <2>3. QED
    BY <2>1, <2>2 DEF StoryOf, WorkOf, Investigated
<1>4. \A r \in Run : SavedOf(r)
  BY DEF Init, SavedOf
<1>5. \A v \in Reviewer : ReadingOf(v)
  BY DEF Init, ReadingOf
<1>6. QED
  BY <1>1, <1>2, <1>3, <1>4, <1>5 DEF RunsInv

LEMMA NextRunsInv == RunsInv /\ EndedInv /\ [Next]_vars => RunsInv'
<1> SUFFICES ASSUME RunsInv, EndedInv, [Next]_vars PROVE RunsInv'
  OBVIOUS
<1>1. ASSUME NEW s \in Simulation, StartSimulation(s) \/ StartRejected(s) PROVE RunsInv'
  BY <1>1, StartSimulationStep, StartRejectedStep
<1>2. ASSUME NEW s \in Simulation, SimulationStep(s) PROVE RunsInv'
  <2>1. CASE ReplayLog(s) \/ ReplayEnds(s) \/ Resume(s)
    BY <2>1, ReplayStepKeeps
  <2>2. ASSUME NEW outcome \in scenario.judgments,
               IF outcome = "incident" THEN JudgedIncident(s) ELSE Judged(s, outcome)
        PROVE  RunsInv'
    <3>1. outcome \in Judgments
      BY ScenarioFacts DEF RunsInv, TypeInv
    <3>2. CASE outcome = "incident"
      BY <2>2, <3>2, JudgedIncidentStep
    <3>3. CASE outcome # "incident"
      BY <2>2, <3>1, <3>3, JudgedStep
    <3>4. QED
      BY <3>2, <3>3
  <2>3. CASE Save(s) \/ SaveFails(s) \/ ReplayRefused(s)
    BY <2>3, SaveStep, FailRunStep
  <2>4. CASE TellLast(s) \/ TellFails(s)
    BY <2>4, TellStep
  <2>5. QED
    BY <1>2, <2>1, <2>2, <2>3, <2>4 DEF SimulationStep
<1>3. ASSUME NEW c \in Direct, RequestInvestigation(c) PROVE RunsInv'
  BY <1>3, RequestStep
<1>4. ASSUME NEW c \in Caller, InvestigationStep(c) PROVE RunsInv'
  BY <1>4, AcquireStep, RefuseStep, CallToolStep, DraftStep, AgentStopsStep
     DEF InvestigationStep
<1>5. ASSUME NEW c \in Caller, Leave(c) PROVE RunsInv'
  BY <1>5, LeaveStep
<1>6. ASSUME NEW v \in Reviewer, ReviewStep(v) PROVE RunsInv'
  BY <1>6, ReviewStepKeeps DEF ReviewStep
<1>7. ASSUME NEW v \in Reviewer, NEW r \in Run, ReadOutput(v, r) PROVE RunsInv'
  BY <1>7, ReadOutputStep
<1>8. CASE UNCHANGED vars
  <2>1. UNCHANGED <<scenario, run, output, pc, stop, detected, investigations, work, lock, reading>>
    BY <1>8 DEF vars, simulationVars, investigationVars, reviewVars
  <2>2. TypeInv'
    BY <2>1 DEF RunsInv, TypeInv
  <2>3. \A s \in Simulation : StoryOf(s)' /\ WorkOf(s)'
    BY <2>1, OtherSimulation DEF RunsInv
  <2>4. OwnInv'
    BY <2>1 DEF RunsInv, OwnInv, Busy
  <2>5. \A r \in Run : SavedOf(r)'
    BY <2>1, SavedAgain DEF RunsInv
  <2>6. \A v \in Reviewer : ReadingOf(v)'
    BY <2>1 DEF RunsInv, ReadingOf
  <2>7. QED
    BY <2>2, <2>3, <2>4, <2>5, <2>6 DEF RunsInv
<1>9. QED
  BY <1>1, <1>2, <1>3, <1>4, <1>5, <1>6, <1>7, <1>8 DEF Next

\* A run that has ended is never started again: only a run that was not there is, and an
\* investigation of the alert has one of its own.
LEMMA NextEndedInv == RunsInv /\ EndedInv /\ [Next]_vars => EndedInv'
<1> SUFFICES ASSUME RunsInv, EndedInv, [Next]_vars, NEW s \in Simulation, pc'[s] = "telling"
             PROVE  run'[RunOf[s]] \in R!Terminal
  BY DEF EndedInv
<1>1. /\ TypeInv /\ RunOf[s] \in Run /\ s \in Caller
      /\ {"completed", "failed"} = R!Terminal
  BY IncidentAssumption DEF RunsInv, Caller, R!Terminal
<1>2. ASSUME NEW t \in Simulation, Save(t) PROVE run'[RunOf[s]] \in R!Terminal
  <2>1. pc[s] = "telling" \/ s = t
    BY <1>1, <1>2 DEF Save, TypeInv
  <2>2. PICK status \in R!Terminal : run' = [run EXCEPT ![RunOf[t]] = status]
    BY <1>1, <1>2 DEF Save
  <2>3. QED
    BY <1>1, <2>1, <2>2 DEF EndedInv, TypeInv
<1>3. ASSUME pc[s] = "telling" PROVE run[RunOf[s]] \in R!Terminal
  BY <1>3 DEF EndedInv
<1>4. ASSUME NEW t \in Simulation,
             StartSimulation(t) \/ StartRejected(t) \/ (SimulationStep(t) /\ ~ Save(t))
      PROVE  run'[RunOf[s]] \in R!Terminal
  <2>1. t \in Caller
    BY DEF Caller
  <2>2. pc[s] = "telling"
    BY <1>1, <1>4, <2>1 DEF StartSimulation, StartRejected, SimulationStep, ReplayLog, ReplayEnds,
       ReplayRefused, Resume, JudgedIncident, Judged, SaveFails, TellLast, TellFails, FailRun,
       TypeInv
  <2>3. CASE StartSimulation(t)
    BY <1>1, <1>3, <2>2, <2>3 DEF StartSimulation, TypeInv
  <2>4. CASE ~ StartSimulation(t)
    <3>1. run' = run \/ FailRun(t)
      BY <1>4, <2>4 DEF StartRejected, SimulationStep, ReplayLog, ReplayEnds, ReplayRefused,
         Resume, JudgedIncident, Judged, SaveFails, TellLast, TellFails
    <3>2. CASE FailRun(t)
      BY <1>1, <1>3, <2>2, <3>2 DEF FailRun, TypeInv
    <3>3. QED
      BY <1>3, <2>2, <3>1, <3>2
  <2>5. QED
    BY <2>3, <2>4
<1>5. ASSUME NEW c \in Caller,
             (c \in Direct /\ RequestInvestigation(c)) \/ InvestigationStep(c) \/ Leave(c)
      PROVE  run'[RunOf[s]] \in R!Terminal
  <2>1. pc[s] = "telling"
    <3>1. \/ pc' = pc
          \/ \E phase \in Phase \ {"telling"} : pc' = [pc EXCEPT ![c] = phase]
      BY <1>5 DEF RequestInvestigation, InvestigationStep, Acquire, Refuse, CallTool, Draft,
         AgentStops, Return, Leave, Phase
    <3>2. QED
      BY <1>1, <3>1 DEF TypeInv
  <2>2. \/ run' = run
        \/ \E status \in R!Terminal : run' = [run EXCEPT ![RunOf[c]] = status]
        \/ c \in Direct /\ run' = [run EXCEPT ![RunOf[c]] = "running"]
    BY <1>1, <1>5 DEF RequestInvestigation, InvestigationStep, Acquire, Refuse, CallTool, Draft,
       AgentStops, Return, Leave
  <2>3. c \in Direct => RunOf[c] # RunOf[s]
    BY <1>1, IncidentAssumption
  <2>4. QED
    BY <1>1, <1>3, <2>1, <2>2, <2>3 DEF TypeInv
<1>6. ASSUME \/ UNCHANGED vars
             \/ \E v \in Reviewer : ReviewStep(v) \/ \E r \in Run : ReadOutput(v, r)
      PROVE  run'[RunOf[s]] \in R!Terminal
  <2>1. UNCHANGED <<run, pc>>
    BY <1>6 DEF vars, ReviewStep, Review, ReadOutput
  <2>2. QED
    BY <1>3, <2>1
<1>7. QED
  BY <1>2, <1>4, <1>5, <1>6 DEF Next, Caller

\* The invariants of incident runs hold throughout.
THEOREM RunsInvariance == Spec => [](RunsInv /\ EndedInv)
<1>1. Init => EndedInv
  BY DEF Init, EndedInv, Caller
<1>2. QED
  BY <1>1, InitRunsInv, NextRunsInv, NextEndedInv, PTL DEF Spec

\* What a saved simulation says of itself agrees with its run and its investigations,
\* whichever of them failed, whoever left and whoever reviewed it.
THEOREM StopReasonsOfRunsAgree == Spec => []StopReasonsAgree
<1>1. RunsInv => StopReasonsAgree
  BY DEF RunsInv, SavedOf, Told, StopReasonsAgree
<1>2. QED
  BY <1>1, RunsInvariance, PTL

\* The report at the place of an incident rests on what a tool showed within the budget
\* and on what could be known when the incident was detected, and discloses the gaps.
THEOREM ReportsRestOnTheObservable == Spec => []ReportsObservable
<1>1. RunsInv => ReportsObservable
  BY DEF RunsInv, SavedOf, Told, ReportOf, ReportsObservable
<1>2. QED
  BY <1>1, RunsInvariance, PTL

\* Every simulation is somewhere in the one replay of its fixture.
THEOREM CourseInvariance == Spec => []CourseInv
BY InitCourseInv, NextCourseInv, PTL DEF Spec

\* At every point of every replay each error log is in one cluster, logs that detection
\* correlates are in the same one whatever was merged in between, the tables lead to live
\* clusters, and a candidate is shown with the logs of its cluster.
THEOREM ReplaysAreClustered == Spec => []ClustersWhole
<1>1. CourseInv => ClustersWhole
  BY ReplayOf, ReplayIsClustered DEF ClustersWhole
<1>2. QED
  BY <1>1, CourseInvariance, PTL

\* A cluster brings forth one candidate, however the clusters that had one are merged.
THEOREM CandidatesAreFirst == Spec => []CandidateOnce
<1>1. CourseInv => CandidateOnce
  BY ReplayOf DEF CandidateOnce, ReplayInv
<1>2. QED
  BY <1>1, CourseInvariance, PTL

\* No review is lost or doubled by another one of the same simulation.
THEOREM ReviewsAreKept == Spec => ReviewsKept
<1> DEFINE Kept(r) == output[r] # None =>
             /\ output[r].reviews \subseteq output'[r].reviews
             /\ \A a, b \in output'[r].reviews : a[1] = b[1] => a = b
<1>1. ASSUME RunsInv, RunsInv', [Next]_vars, NEW r \in Run PROVE Kept(r)
  <2>1. CASE output'[r] = output[r]
    BY <1>1, <2>1 DEF RunsInv, SavedOf
  <2>2. ASSUME NEW s \in Simulation, Save(s) PROVE Kept(r)
    <3>1. /\ RunOf[s] \in Run /\ output[RunOf[s]] = None /\ DOMAIN output = Run
      BY <1>1, <2>2, IncidentAssumption DEF RunsInv, OwnInv, TypeInv, Busy, Save, Caller
    <3>2. r # RunOf[s] => output'[r] = output[r]
      BY <2>2, <3>1 DEF Save
    <3>3. QED
      BY <2>1, <3>1, <3>2
  <2>3. ASSUME NEW v \in Reviewer, NEW incident, NEW decision, Review(v, incident, decision)
        PROVE  Kept(r)
    <3>1. CASE r = reading[v].run
      BY <1>1, <2>3, <3>1, ReviewAdds
    <3>2. CASE r # reading[v].run
      BY <1>1, <2>1, <2>3, <3>2, ReviewAdds
    <3>3. QED
      BY <3>1, <3>2
  <2>4. CASE output' = output
    BY <2>1, <2>4
  <2>5. \/ output' = output
        \/ \E s \in Simulation : Save(s)
        \/ \E v \in Reviewer : \E incident, decision : Review(v, incident, decision)
    <3>1. ASSUME NEW s \in Simulation,
                 StartSimulation(s) \/ StartRejected(s) \/ (SimulationStep(s) /\ ~ Save(s))
          PROVE  output' = output
      BY <3>1 DEF StartSimulation, StartRejected, SimulationStep, ReplayLog, ReplayEnds, Resume,
         JudgedIncident, Judged, ReplayRefused, SaveFails, TellLast, TellFails
    <3>2. ASSUME NEW c \in Caller,
                 (c \in Direct /\ RequestInvestigation(c)) \/ InvestigationStep(c) \/ Leave(c)
          PROVE  output' = output
      BY <3>2 DEF RequestInvestigation, InvestigationStep, Acquire, Refuse, CallTool, Draft,
         AgentStops, Return, Leave
    <3>3. ASSUME NEW v \in Reviewer, NEW i \in Run, ReadOutput(v, i)
          PROVE  output' = output
      BY <3>3 DEF ReadOutput
    <3>4. UNCHANGED vars => output' = output
      BY DEF vars
    <3>5. QED
      BY <1>1, <3>1, <3>2, <3>3, <3>4 DEF Next, ReviewStep, Caller
  <2>6. QED
    BY <2>2, <2>3, <2>4, <2>5
<1>2. RunsInv /\ RunsInv' /\ [Next]_vars => [\A r \in Run : Kept(r)]_vars
  BY <1>1
<1>3. QED
  BY <1>2, RunsInvariance, PTL DEF Spec, ReviewsKept

====
