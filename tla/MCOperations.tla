----------------------------- MODULE MCOperations -----------------------------
(***************************************************************************)
(* What serves the requests beside their handlers, side by side: the rate  *)
(* limiters, the audit log, the life of the sync worker, and the collector *)
(* with the health that it feeds.  What is modelled of the four shares no  *)
(* state, so that a behaviour exercises one of them, with that one's       *)
(* fairness, and leaves the others at a single initial state.              *)
(***************************************************************************)
EXTENDS RateLimiter

CONSTANTS
  Recorded, Writers, Buffer, NoRecord, RetentionDays, MaxLogFaults,
  Clusters, MaxClients, NoClient, Slots, MaxRetries, MaxWorkerFaults,
  Watched, Seeing, Casts, WithTopics, Lists, Overviews, Scope(_), None, MaxBrokers, MaxChanges, MaxHealthFaults

VARIABLES
  part,   \* what this behaviour is about
  cast,   \* the requests for health that it makes
  stage, channel, writing, age, cleaner, fate, order, jumped, logFaults,
  runner, todo, spc, tries, got, pool, open, sound, stray, cleanup, stopping, visit, deleting,
  late, workerFaults,
  alive, sample, most, seen, cache, page, hpc, result, reached, toProbe, answer, doubt, changes, faults

auditVars  == <<stage, channel, writing, age, cleaner, fate, order, jumped, logFaults>>
workerVars == <<runner, todo, spc, tries, got, pool, open, sound, stray, cleanup, stopping, visit,
                deleting, late, workerFaults>>
healthVars == <<alive, sample, most, seen, cache, page, hpc, result, reached, toProbe, answer, doubt,
                changes, faults>>
sumVars    == <<part, cast, vars, auditVars, workerVars, healthVars>>

\* For Scope: some users see the watched clusters, the others none.
MCScope(r) == IF r \in Seeing THEN Watched ELSE {}

\* For Casts: one of each kind, of which one or both see the watched clusters.
MCCasts == {{l, o} : l \in Lists, o \in Overviews} \ {(Lists \cup Overviews) \ Seeing}

Audit  == INSTANCE AuditTrail WITH Requests <- Recorded, Slots <- Buffer
Worker == INSTANCE SyncWorker
Health == INSTANCE ClusterHealth WITH Clusters <- Watched

ASSUME OperationsAssumption ==
  Audit!AuditTrailAssumption /\ Worker!SyncWorkerAssumption /\ Health!HealthAssumption

\* A part that is not the subject begins in one of its initial states.
SumInit ==
  /\ part \in {"limiter", "audit", "worker", "health"}
  /\ Init /\ (part # "limiter" => kind = "ip")
  /\ Audit!Init /\ Worker!Init
  /\ cast \in IF part = "health" THEN Casts ELSE {{}}
  /\ Health!Init /\ (part # "health" => \A c \in Watched : alive[c] = 0)

LimiterStep == part = "limiter" /\ Next /\ UNCHANGED <<auditVars, workerVars, healthVars>>
AuditStep   == part = "audit" /\ Audit!Next /\ UNCHANGED <<vars, workerVars, healthVars>>
WorkerStep  == part = "worker" /\ Worker!Next /\ UNCHANGED <<vars, auditVars, healthVars>>
\* Only the requests of the cast are made, and when both see the clusters nothing fails.
HealthStep  ==
  /\ part = "health" /\ Health!Next /\ UNCHANGED <<vars, auditVars, workerVars>>
  /\ \A r \in (Lists \cup Overviews) \ cast : hpc'[r] = "idle"
  /\ cast = Seeing => faults' = 0

SumNext == UNCHANGED <<part, cast>> /\ (LimiterStep \/ AuditStep \/ WorkerStep \/ HealthStep)

\* The fairness of each module, for the part that is the subject.
AuditFairness ==
  /\ WF_auditVars(part = "audit" /\ Audit!Night)
  /\ WF_auditVars(part = "audit" /\ Audit!CleanerStep)
  /\ \A w \in Writers : WF_auditVars(part = "audit" /\ Audit!WriterStep(w))

WorkerFairness ==
  /\ WF_workerVars(part = "worker" /\ Worker!RunnerStep)
  /\ SF_workerVars(part = "worker" /\ Worker!RunnerEnds)
  /\ WF_workerVars(part = "worker" /\ Worker!CleanupEnds)
  /\ WF_workerVars(part = "worker" /\ Worker!StopStep)
  /\ \A c \in Clusters : WF_workerVars(part = "worker" /\ Worker!SyncStep(c))

HealthFairness ==
  /\ \A c \in Watched : WF_healthVars(part = "health" /\ Health!CollectStep(c))
  /\ \A r \in Lists \cup Overviews : WF_healthVars(part = "health" /\ Health!RequestStep(r))
  /\ WF_healthVars(part = "health" /\ Health!CacheExpires)
  /\ \A r \in Overviews : WF_healthVars(part = "health" /\ Health!PageExpires(r))

SumSpec == SumInit /\ [][SumNext]_sumVars /\ AuditFairness /\ WorkerFairness /\ HealthFairness
-----------------------------------------------------------------------------
(* The properties of the parts, by their names                              *)

\* Each variable keeps its type, a record of the audit log is in one place at a time, and
\* between getLimiter and Allow a request holds a bucket that accounts for every token the
\* key has been given (RateLimiter, its IInv).
TypesOK ==
  /\ IInv
  /\ Audit!TypeOK /\ Audit!OnePlace
  /\ Worker!TypeOK /\ Health!TypeOK

\* A row of the audit log overtakes at most one earlier record for each other writer (AuditTrail).
BoundedOvertaking == Audit!BoundedOvertaking

\* A record in the channel is written or given up at last (AuditTrail).
RecordsSettle == Audit!RecordsSettle

\* A row older than the retention is deleted at last (AuditTrail).
OldRowsGoAtLast == Audit!OldRowsGoAtLast

\* An open admin client is in the pool or with a goroutine (SyncWorker).
ClientsAreOwned == Worker!ClientsAreOwned

\* Stop returns (SyncWorker).
StopReturns == Worker!StopReturns

\* Until Stop every cluster is synchronised again and again (SyncWorker).
KeepsSyncing == \A c \in Clusters : []<>(part = "worker" => Worker!Served(c))

\* Nobody says "error" of a cluster without a cause (ClusterHealth).
AnswersHaveCause == Health!AnswersHaveCause

\* A cluster that stays unreachable is in the end shown as healthy to nobody (ClusterHealth).
DownShows == Health!DownShows
=============================================================================
