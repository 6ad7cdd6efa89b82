----------------------------- MODULE ClusterHealth -----------------------------
(***************************************************************************)
(* The health that the cluster list and the dashboard show.  The collector *)
(* process reads how many brokers each cluster has and writes the count to *)
(* VictoriaMetrics (VM), which keeps the last sample for its look-back     *)
(* window and the greatest one of seven days.  A request takes the health  *)
(* of its clusters from one cache entry that all requests share, or from   *)
(* separate queries to VM, and asks the clusters themselves about those    *)
(* that VM does not know.                                                  *)
(***************************************************************************)
EXTENDS Naturals

CONSTANTS
  Clusters,
  Lists, Overviews,   \* requests: of the cluster list or of one cluster, of the dashboard
  Scope(_),           \* the clusters that a request is about: its user's, a page of them or one
  WithTopics,         \* clusters that have rows in the topics table
  None,               \* no sample, no entry, no answer
  MaxBrokers,         \* bound: brokers of a cluster
  MaxChanges,         \* bound: changes of the clusters and of the windows
  MaxHealthFaults     \* bound: failed reads, writes and queries

HealthAssumption ==
  /\ Lists \cap Overviews = {} /\ WithTopics \subseteq Clusters
  /\ \A r \in Lists \cup Overviews : Scope(r) \subseteq Clusters
  /\ None \notin Nat /\ None \notin {"healthy", "error", "unknown", "assumed"}
  /\ MaxBrokers \in Nat /\ MaxChanges \in Nat /\ MaxHealthFaults \in Nat

Requests == Lists \cup Overviews
Queries == {"current", "peak", "info"}

VARIABLES
  alive,    \* alive[c]: brokers that the cluster answers with, 0 when it does not answer
  sample,   \* sample[c]: the last kafka_broker_count in the look-back window
  most,     \* most[c]: the greatest kafka_broker_count of seven days
  seen,     \* seen[c]: the count that the collector is about to write
  cache,    \* the entry "monitor:dashboard_vm_data"
  page,     \* page[r]: the cached overview of the user behind r
  hpc,      \* hpc[r]: where request r is
  result,   \* result[r]: what the queries have returned so far
  reached,  \* reached[r]: clusters that have answered r
  toProbe,  \* toProbe[r]: clusters that r is still asking
  answer,   \* answer[r][c]: the health that r shows
  doubt,    \* history: doubt[r]: clusters for which r may say "error"
  changes, faults

healthVars == <<alive, sample, most, seen, cache, page, hpc, result, reached, toProbe,
                answer, doubt, changes, faults>>
vmVars == <<sample, most>>
requestVars == <<hpc, result, reached, toProbe, answer>>

Counts == 0..MaxBrokers
NoAnswer == [c \in Clusters |-> None]
NoResult == [q \in Queries |-> None]

Change == changes < MaxChanges /\ changes' = changes + 1
Fault == faults < MaxHealthFaults /\ faults' = faults + 1

Init ==
  /\ alive \in [Clusters -> Counts]
  /\ sample = [c \in Clusters |-> None] /\ most = sample
  /\ seen = [c \in Clusters |-> None]
  /\ cache = None /\ page = [r \in Overviews |-> None]
  /\ hpc = [r \in Requests |-> "idle"]
  /\ result = [r \in Requests |-> NoResult]
  /\ reached = [r \in Requests |-> {}] /\ toProbe = [r \in Requests |-> {}]
  /\ answer = [r \in Requests |-> NoAnswer]
  /\ doubt = [r \in Requests |-> {}]
  /\ changes = 0 /\ faults = 0

-----------------------------------------------------------------------------
(* The clusters, and the windows of VM                                      *)

BrokersChange(c, n) ==
  /\ n # alive[c] /\ Change
  /\ alive' = [alive EXCEPT ![c] = n]
  /\ UNCHANGED <<vmVars, seen, cache, page, requestVars, doubt, faults>>

\* The queries of a request may lie on both sides of a change.
Stir(c) == doubt' = [r \in Requests |-> IF hpc[r] = "query" THEN doubt[r] \cup {c} ELSE doubt[r]]

\* Nothing was written for c in the look-back window.
LookBackPasses(c) ==
  /\ sample[c] # None /\ Change
  /\ sample' = [sample EXCEPT ![c] = None]
  /\ Stir(c)
  /\ UNCHANGED <<alive, most, seen, cache, page, requestVars, faults>>

WeekPasses(c) ==
  /\ most[c] # sample[c] /\ Change
  /\ most' = [most EXCEPT ![c] = sample[c]]
  /\ Stir(c)
  /\ UNCHANGED <<alive, sample, seen, cache, page, requestVars, faults>>

-----------------------------------------------------------------------------
(* The collector                                                            *)

\* A cluster that does not answer counts no brokers, and its metrics are written all the same.
Read(c, n) ==
  /\ seen[c] = None
  /\ \/ n = alive[c] /\ UNCHANGED faults
     \/ n = 0 /\ alive[c] # 0 /\ Fault
  /\ seen' = [seen EXCEPT ![c] = n]
  /\ UNCHANGED <<alive, vmVars, cache, page, requestVars, doubt, changes>>

\* A broker is missing.
Short(c) == most[c] # None /\ sample[c] # None /\ sample[c] < most[c]

Write(c) ==
  /\ seen[c] # None
  /\ sample' = [sample EXCEPT ![c] = seen[c]]
  /\ most' = [most EXCEPT ![c] = IF @ = None \/ @ < seen[c] THEN seen[c] ELSE @]
  /\ seen' = [seen EXCEPT ![c] = None]
  /\ IF <<sample, most>>' = <<sample, most>> THEN UNCHANGED doubt ELSE Stir(c)
  /\ UNCHANGED <<alive, cache, page, requestVars, changes, faults>>

WriteFails(c) ==
  /\ seen[c] # None /\ Fault
  /\ seen' = [seen EXCEPT ![c] = None]
  /\ UNCHANGED <<alive, vmVars, cache, page, requestVars, doubt, changes>>

-----------------------------------------------------------------------------
(* A request                                                                *)

\* Go on with what VM knows of r's clusters. When there is one that it does not know, the
\* list asks the clusters; the dashboard takes the topic rows for a sign of life ("assumed",
\* which it shows as healthy).
GoOn(r, health) ==
  LET ids == Scope(r)
      unknown == {c \in ids : health[c] \in {None, "unknown"}}
      Guess(c) == IF r \in Overviews /\ c \in WithTopics THEN "assumed" ELSE "unknown"
  IN /\ answer' = [answer EXCEPT ![r] =
          [c \in Clusters |-> IF c \notin ids THEN None ELSE IF c \in unknown THEN Guess(c) ELSE health[c]]]
     /\ IF r \in Lists /\ unknown # {}
        THEN hpc' = [hpc EXCEPT ![r] = "probe"] /\ toProbe' = [toProbe EXCEPT ![r] = ids]
        ELSE hpc' = [hpc EXCEPT ![r] = "done"] /\ UNCHANGED toProbe

Keep(r, why) ==
  page' = IF r \in Overviews THEN [page EXCEPT ![r] = [health |-> answer'[r], doubt |-> why]] ELSE page

\* The entry is the one of any earlier request, about that request's clusters.
Hit(r) ==
  /\ hpc[r] = "idle" /\ cache # None
  /\ r \in Overviews => page[r] = None
  /\ GoOn(r, cache.health)
  /\ Keep(r, cache.doubt)
  /\ doubt' = [doubt EXCEPT ![r] = cache.doubt]
  /\ UNCHANGED <<alive, vmVars, seen, cache, result, reached, changes, faults>>

Miss(r) ==
  /\ hpc[r] = "idle" /\ cache = None
  /\ r \in Overviews => page[r] = None
  /\ hpc' = [hpc EXCEPT ![r] = "query"]
  /\ doubt' = [doubt EXCEPT ![r] = {c \in Clusters : Short(c)}]
  /\ UNCHANGED <<alive, vmVars, seen, cache, page, result, reached, toProbe, answer, changes, faults>>

\* The user's own page is still cached.
PageHit(r) ==
  /\ r \in Overviews /\ hpc[r] = "idle" /\ page[r] # None
  /\ answer' = [answer EXCEPT ![r] = page[r].health]
  /\ doubt' = [doubt EXCEPT ![r] = page[r].doubt]
  /\ hpc' = [hpc EXCEPT ![r] = "done"]
  /\ UNCHANGED <<alive, vmVars, seen, cache, page, result, reached, toProbe, changes, faults>>

\* What the queries tell of no cluster is nothing.
Open(r, q) == result[r][q] = None /\ Scope(r) # {}

\* The queries run concurrently and one that fails leaves no value. The series of brokers
\* that are gone stay in the window of kafka_broker_info for a while; what its query
\* returns matters for clusters without a count.
Query(r, q) ==
  LET Some(f) == [c \in Clusters |-> IF c \in Scope(r) THEN f[c] ELSE None] IN
  /\ hpc[r] = "query" /\ Open(r, q)
  /\ \/ /\ CASE q = "current" -> result' = [result EXCEPT ![r][q] = Some(sample)]
             [] q = "peak" -> result' = [result EXCEPT ![r][q] = Some(most)]
             [] q = "info" -> \E gone \in SUBSET {c \in Clusters : sample[c] = 0} :
                  result' = [result EXCEPT ![r][q] =
                    Some([c \in Clusters |-> IF c \in gone \/ sample[c] = None THEN None ELSE 1])]
        /\ UNCHANGED faults
     \/ result' = [result EXCEPT ![r][q] = NoAnswer] /\ Fault
  /\ UNCHANGED <<alive, vmVars, seen, cache, page, hpc, reached, toProbe, answer, doubt, changes>>

Verdict_Missing(current, peak, known) ==
  IF current = None THEN "error" ELSE IF peak # None /\ current < peak THEN "error" ELSE "healthy"

Verdict_OneMissing(current, peak, known) ==
  IF current # None THEN IF peak # None /\ current + 1 < peak THEN "error" ELSE "healthy"
  ELSE IF known # None THEN "healthy" ELSE "unknown"

\* A count below the greatest one of seven days means a broker is gone.
Verdict(current, peak, known) ==
  IF current # None THEN IF peak # None /\ current < peak THEN "error" ELSE "healthy"
  ELSE IF known # None THEN "healthy" ELSE "unknown"

Judge(r) ==
  LET Value(q, c) == IF result[r][q] = None THEN None ELSE result[r][q][c]
      health == [c \in Clusters |->
        IF c \in Scope(r) THEN Verdict(Value("current", c), Value("peak", c), Value("info", c)) ELSE None]
  IN /\ hpc[r] = "query" /\ \A q \in Queries : ~Open(r, q)
     /\ cache' = [health |-> health, doubt |-> doubt[r]]
     /\ GoOn(r, health)
     /\ Keep(r, doubt[r])
     /\ result' = [result EXCEPT ![r] = NoResult]
     /\ UNCHANGED <<alive, vmVars, seen, reached, doubt, changes, faults>>

\* A cluster is asked through an admin client of its own; it answers with its brokers or not.
Probe(r, c) ==
  /\ hpc[r] = "probe" /\ c \in toProbe[r]
  /\ toProbe' = [toProbe EXCEPT ![r] = @ \ {c}]
  /\ \/ alive[c] > 0 /\ reached' = [reached EXCEPT ![r] = @ \cup {c}] /\ UNCHANGED <<faults, doubt>>
     \/ alive[c] = 0 /\ doubt' = [doubt EXCEPT ![r] = @ \cup {c}] /\ UNCHANGED <<reached, faults>>
     \/ alive[c] > 0 /\ Fault /\ doubt' = [doubt EXCEPT ![r] = @ \cup {c}] /\ UNCHANGED reached
  /\ UNCHANGED <<alive, vmVars, seen, cache, page, hpc, result, answer, changes>>

Probed(r, c) == IF c \in reached[r] THEN "healthy" ELSE "error"

Answer(r) ==
  /\ hpc[r] = "probe" /\ toProbe[r] = {}
  /\ answer' = [answer EXCEPT ![r] = [c \in Clusters |-> IF @[c] = "unknown" THEN Probed(r, c) ELSE @[c]]]
  /\ hpc' = [hpc EXCEPT ![r] = "done"]
  /\ UNCHANGED <<alive, vmVars, seen, cache, page, result, reached, toProbe, doubt, changes, faults>>

Close(r) ==
  /\ hpc[r] = "done"
  /\ hpc' = [hpc EXCEPT ![r] = "idle"]
  /\ reached' = [reached EXCEPT ![r] = {}]
  /\ answer' = [answer EXCEPT ![r] = NoAnswer]
  /\ doubt' = [doubt EXCEPT ![r] = {}]
  /\ UNCHANGED <<alive, vmVars, seen, cache, page, result, toProbe, changes, faults>>

-----------------------------------------------------------------------------
(* The thirty seconds of the two caches                                     *)

CacheExpires ==
  /\ cache # None
  /\ cache' = None
  /\ UNCHANGED <<alive, vmVars, seen, page, requestVars, doubt, changes, faults>>

PageExpires(r) ==
  /\ page[r] # None
  /\ page' = [page EXCEPT ![r] = None]
  /\ UNCHANGED <<alive, vmVars, seen, cache, requestVars, doubt, changes, faults>>

-----------------------------------------------------------------------------
CollectStep(c) == (\E n \in Counts : Read(c, n)) \/ Write(c) \/ WriteFails(c)

Ask(r) == PageHit(r) \/ Hit(r) \/ Miss(r)

RequestStep(r) ==
  \/ \E q \in Queries : Query(r, q)
  \/ \E c \in Clusters : Probe(r, c)
  \/ Judge(r) \/ Answer(r) \/ Close(r)

Next ==
  \/ \E c \in Clusters : \/ \E n \in Counts : BrokersChange(c, n)
                         \/ LookBackPasses(c) \/ WeekPasses(c) \/ CollectStep(c)
  \/ \E r \in Requests : Ask(r) \/ RequestStep(r)
  \/ CacheExpires \/ \E r \in Overviews : PageExpires(r)

\* The collector's ticker, the requests that have begun, and the clock of the caches go on.
Fairness ==
  /\ \A c \in Clusters : WF_healthVars(CollectStep(c))
  /\ \A r \in Requests : WF_healthVars(RequestStep(r))
  /\ WF_healthVars(CacheExpires) /\ \A r \in Overviews : WF_healthVars(PageExpires(r))

Spec == Init /\ [][Next]_healthVars /\ Fairness

-----------------------------------------------------------------------------
Health == {"healthy", "error", "unknown", None}
Shown == Health \cup {"assumed"}
Entries == [health : [Clusters -> Health], doubt : SUBSET Clusters]
Pages == [health : [Clusters -> Shown], doubt : SUBSET Clusters]

TypeOK ==
  /\ alive \in [Clusters -> Counts]
  /\ sample \in [Clusters -> Counts \cup {None}] /\ most \in [Clusters -> Counts \cup {None}]
  /\ seen \in [Clusters -> Counts \cup {None}]
  /\ cache \in Entries \cup {None} /\ page \in [Overviews -> Pages \cup {None}]
  /\ hpc \in [Requests -> {"idle", "query", "probe", "done"}]
  /\ result \in [Requests -> [Queries -> {None} \cup [Clusters -> Counts \cup {1, None}]]]
  /\ reached \in [Requests -> SUBSET Clusters] /\ toProbe \in [Requests -> SUBSET Clusters]
  /\ answer \in [Requests -> [Clusters -> Shown]]
  /\ doubt \in [Requests -> SUBSET Clusters]
  /\ changes \in 0..MaxChanges /\ faults \in 0..MaxHealthFaults

\* Whoever filled the shared entry, and for whichever clusters: the list says of each of
\* its clusters whether it is healthy, and nobody says "error" of a cluster that had all
\* its brokers when the queries behind the answer began, unless its samples changed between
\* two of them, and that answered when it was asked.
AnswersHaveCause ==
  \A r \in Requests : hpc[r] = "done" =>
    /\ r \in Lists => \A c \in Scope(r) : answer[r][c] \in {"healthy", "error"}
    /\ \A c \in Clusters : answer[r][c] = "error" => c \in doubt[r]

\* Through the collector's samples, the entry that all requests share and the pages of the
\* dashboard: a cluster that had brokers in the last seven days and stays unreachable is in
\* the end found healthy by nobody, whether it has topic rows or not.  What stays possible
\* is that a dashboard finds an entry that does not tell of the cluster and, for its topic
\* rows alone, assumes that it is.
DownShows ==
  \A c \in Clusters :
    <>[](alive[c] = 0 /\ most[c] \notin {None, 0}) =>
      <>[](\A r \in Requests : answer[r][c] # "healthy")
=============================================================================
