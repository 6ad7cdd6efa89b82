------------------------------- MODULE SyncWorker -------------------------------
(***************************************************************************)
(* The life of the sync worker: rounds over all clusters with retries, the *)
(* pool of admin clients that the rounds share, and Stop, which empties    *)
(* the pool while a round may still be running and only then tells the     *)
(* goroutines to end.  What a synchronisation does to topics and ACLs is   *)
(* the subject of TopicSync and AclSync.                                   *)
(***************************************************************************)
EXTENDS Naturals, FiniteSets

CONSTANTS
  Clusters,         \* clusters that the table lists
  MaxClients,       \* bound: clients of one cluster that exist at a time
  NoClient,
  Slots,            \* maxSyncConcurrency
  MaxRetries,       \* maxRetries
  MaxWorkerFaults   \* bound: connections that break, calls and statements that fail

\* An admin client and the cluster it is connected to.
Clients == Clusters \X (1..MaxClients)

SyncWorkerAssumption ==
  /\ NoClient \notin Clients
  /\ IsFiniteSet(Clusters)
  /\ Slots \in Nat \ {0} /\ MaxRetries \in Nat \ {0} /\ MaxWorkerFaults \in Nat

VARIABLES
  runner,    \* runScheduledSync
  todo,      \* the round's clusters that have no goroutine yet
  spc,       \* spc[c]: the next step of c's goroutine
  tries,     \* tries[c]: failed attempts in this round
  got,       \* got[c]: the client that c's goroutine works with
  pool,      \* adminPool
  open,      \* admin clients that have been made and not been closed
  sound,     \* open clients whose connection works
  stray,     \* history: clients that NewAdminClient gave up half-made
  cleanup,   \* runLogCleanup
  stopping,  \* Stop
  visit,     \* keys that Range may still visit
  deleting,  \* the key whose client Range has closed and not deleted yet
  late,      \* history: clusters that were being synchronised since Stop began
  workerFaults

runVars  == <<runner, todo>>
syncVars == <<spc, tries, got>>
poolVars == <<pool, open, sound, stray>>
stopVars == <<stopping, visit, deleting>>
workerVars == <<runVars, syncVars, poolVars, cleanup, stopVars, late, workerFaults>>

-----------------------------------------------------------------------------
Init ==
  /\ runner = "round" /\ todo = {}
  /\ spc = [c \in Clusters |-> "idle"]
  /\ tries = [c \in Clusters |-> 0]
  /\ got = [c \in Clusters |-> NoClient]
  /\ pool = [c \in Clusters |-> NoClient]
  /\ open = {} /\ sound = {} /\ stray = {}
  /\ cleanup = "waiting"
  /\ stopping = "no" /\ visit = {} /\ deleting = {}
  /\ late = {}
  /\ workerFaults = 0

Fault == workerFaults < MaxWorkerFaults /\ workerFaults' = workerFaults + 1

Busy == {c \in Clusters : spc[c] # "idle"}

Signalled_AfterWait == stopping = "stopped"

\* stopCh is closed.
Signalled == stopping \in {"waiting", "stopped"}

-----------------------------------------------------------------------------
(* runScheduledSync, syncAllClustersWithRetry                               *)

\* When the list cannot be read, the round is over.
List ==
  /\ runner = "round"
  /\ runner' = "launching"
  /\ \/ todo' = Clusters /\ UNCHANGED workerFaults
     \/ todo' = {} /\ Fault
  /\ UNCHANGED <<syncVars, poolVars, cleanup, stopVars, late>>

FreeSlot_Short == Cardinality(Busy) + 1 < Slots

FreeSlot == Cardinality(Busy) < Slots

\* A goroutine for the next cluster.
Launch(c) ==
  /\ runner = "launching" /\ c \in todo /\ FreeSlot
  /\ todo' = todo \ {c}
  /\ spc' = [spc EXCEPT ![c] = "load"]
  /\ late' = IF stopping = "no" THEN late ELSE late \cup {c}
  /\ UNCHANGED <<runner, tries, got, poolVars, cleanup, stopVars, workerFaults>>

\* wg.Wait
RoundEnds ==
  /\ runner = "launching" /\ todo = {} /\ Busy = {}
  /\ runner' = "waiting"
  /\ UNCHANGED <<todo, syncVars, poolVars, cleanup, stopVars, late, workerFaults>>

\* The select of ticker and stopCh: when both are ready it takes either.
NextRound ==
  /\ runner = "waiting"
  /\ runner' = "round"
  /\ UNCHANGED <<todo, syncVars, poolVars, cleanup, stopVars, late, workerFaults>>

RunnerEnds ==
  /\ runner = "waiting" /\ Signalled
  /\ runner' = "ended"
  /\ UNCHANGED <<todo, syncVars, poolVars, cleanup, stopVars, late, workerFaults>>

\* runLogCleanup waits in a select with stopCh all its life.
CleanupEnds ==
  /\ cleanup = "waiting" /\ Signalled
  /\ cleanup' = "ended"
  /\ UNCHANGED <<runVars, syncVars, poolVars, stopVars, late, workerFaults>>

-----------------------------------------------------------------------------
(* SyncCluster, getAdminClient, RemoveAdminClient                           *)

Go(c, step) == spc' = [spc EXCEPT ![c] = step]

Hold(c, k) == got' = [got EXCEPT ![c] = k]

Close(k) == open' = open \ {k} /\ sound' = sound \ {k}

LastTry(c) == tries[c] + 1 >= MaxRetries

\* An attempt has failed: after a pause the next one begins, or the round gives c up.
Retry(c) ==
  /\ tries' = [tries EXCEPT ![c] = IF LastTry(c) THEN 0 ELSE @ + 1]
  /\ Go(c, IF LastTry(c) THEN "idle" ELSE "load")
  /\ Hold(c, NoClient)

\* The cluster has been deleted, or the statement failed.
FindFails(c) ==
  /\ spc[c] = "load" /\ Fault
  /\ Retry(c)
  /\ UNCHANGED <<runVars, poolVars, cleanup, stopVars, late>>

Load(c) ==
  /\ spc[c] = "load"
  /\ Hold(c, pool[c])
  /\ Go(c, IF pool[c] = NoClient THEN "create" ELSE "test")
  /\ UNCHANGED <<runVars, tries, poolVars, cleanup, stopVars, late, workerFaults>>

\* TestConnection
TestClient(c) ==
  /\ spc[c] = "test"
  /\ Go(c, IF got[c] \in sound THEN "topics" ELSE "closeStale")
  /\ UNCHANGED <<runVars, tries, got, poolVars, cleanup, stopVars, late, workerFaults>>

Discarded_None(c) == {}

Discarded(c) == {got[c]}

CloseStale(c) ==
  /\ spc[c] = "closeStale"
  /\ open' = open \ Discarded(c) /\ sound' = sound \ Discarded(c)
  /\ Go(c, "deleteStale")
  /\ UNCHANGED <<runVars, tries, got, pool, stray, cleanup, stopVars, late, workerFaults>>

DeleteStale(c) ==
  /\ spc[c] = "deleteStale"
  /\ pool' = [pool EXCEPT ![c] = NoClient]
  /\ Hold(c, NoClient)
  /\ Go(c, "create")
  /\ UNCHANGED <<runVars, tries, open, sound, stray, cleanup, stopVars, late, workerFaults>>

Unused(c) ==
  {k \in Clients : k[1] = c} \ (open \cup {pool[d] : d \in Clusters} \cup {got[d] : d \in Clusters})

\* A client of c that is not in use.
Fresh(c) == CHOOSE k \in Unused(c) : TRUE

Create(c) ==
  /\ spc[c] = "create" /\ Unused(c) # {}
  /\ open' = open \cup {Fresh(c)} /\ sound' = sound \cup {Fresh(c)}
  /\ Hold(c, Fresh(c))
  /\ Go(c, "store")
  /\ UNCHANGED <<runVars, tries, pool, stray, cleanup, stopVars, late, workerFaults>>

\* When only its second half fails, NewAdminClient leaves its first connection open.
CreateFails(c) ==
  /\ spc[c] = "create" /\ Unused(c) # {} /\ Fault
  /\ Retry(c)
  /\ \/ UNCHANGED <<open, stray>>
     \/ open' = open \cup {Fresh(c)} /\ stray' = stray \cup {Fresh(c)}
  /\ UNCHANGED <<runVars, pool, sound, cleanup, stopVars, late>>

Store(c) ==
  /\ spc[c] = "store"
  /\ pool' = [pool EXCEPT ![c] = got[c]]
  /\ Go(c, "topics")
  /\ UNCHANGED <<runVars, tries, got, open, sound, stray, cleanup, stopVars, late, workerFaults>>

\* syncTopics and syncACLs, each by calls to Kafka.
Topics(c) ==
  /\ spc[c] = "topics" /\ got[c] \in sound
  /\ Go(c, "acls")
  /\ UNCHANGED <<runVars, tries, got, poolVars, cleanup, stopVars, late, workerFaults>>

Acls(c) ==
  /\ spc[c] = "acls" /\ got[c] \in sound
  /\ Go(c, "idle") /\ Hold(c, NoClient)
  /\ tries' = [tries EXCEPT ![c] = 0]
  /\ UNCHANGED <<runVars, poolVars, cleanup, stopVars, late, workerFaults>>

\* The connection is gone, or a call or a statement fails.
WorkFails(c) ==
  /\ spc[c] \in {"topics", "acls"}
  /\ (got[c] \notin sound /\ UNCHANGED workerFaults) \/ Fault
  /\ Go(c, "remove")
  /\ UNCHANGED <<runVars, tries, got, poolVars, cleanup, stopVars, late>>

\* LoadAndDelete, then Close of what was there.
RemoveClient(c) ==
  /\ spc[c] = "remove"
  /\ pool' = [pool EXCEPT ![c] = NoClient]
  /\ Hold(c, pool[c])
  /\ Go(c, "closeRemoved")
  /\ UNCHANGED <<runVars, tries, open, sound, stray, cleanup, stopVars, late, workerFaults>>

CloseRemoved(c) ==
  /\ spc[c] = "closeRemoved"
  /\ Close(got[c])
  /\ Retry(c)
  /\ UNCHANGED <<runVars, pool, stray, cleanup, stopVars, late, workerFaults>>

\* The brokers drop a connection.
Break(k) ==
  /\ k \in sound /\ Fault
  /\ sound' = sound \ {k}
  /\ UNCHANGED <<runVars, syncVars, pool, open, stray, cleanup, stopVars, late>>

-----------------------------------------------------------------------------
(* Stop                                                                     *)

BeginStop ==
  /\ stopping = "no"
  /\ stopping' = "emptying" /\ visit' = Clusters
  /\ late' = Busy
  /\ UNCHANGED <<runVars, syncVars, poolVars, cleanup, deleting, workerFaults>>

\* The function given to Range returns true: it goes on to the other keys.
Rest(c) == visit \ {c}

\* Range comes to the key c and closes the client it finds there ...
VisitClose(c) ==
  /\ stopping = "emptying" /\ deleting = {} /\ c \in visit
  /\ visit' = Rest(c)
  /\ IF pool[c] = NoClient
     THEN UNCHANGED <<open, sound, deleting>>
     ELSE Close(pool[c]) /\ deleting' = {c}
  /\ UNCHANGED <<runVars, syncVars, pool, stray, cleanup, stopping, late, workerFaults>>

\* ... and deletes what is there by then.
VisitDelete(c) ==
  /\ c \in deleting
  /\ pool' = [pool EXCEPT ![c] = NoClient]
  /\ deleting' = {}
  /\ UNCHANGED <<runVars, syncVars, open, sound, stray, cleanup, stopping, visit, late, workerFaults>>

\* close(stopCh), then wg.Wait
Signal ==
  /\ stopping = "emptying" /\ visit = {} /\ deleting = {}
  /\ stopping' = "waiting"
  /\ UNCHANGED <<runVars, syncVars, poolVars, cleanup, visit, deleting, late, workerFaults>>

Stopped ==
  /\ stopping = "waiting" /\ runner = "ended" /\ cleanup = "ended"
  /\ stopping' = "stopped"
  /\ UNCHANGED <<runVars, syncVars, poolVars, cleanup, visit, deleting, late, workerFaults>>

-----------------------------------------------------------------------------
SyncStep(c) ==
  \/ FindFails(c) \/ Load(c) \/ TestClient(c) \/ CloseStale(c) \/ DeleteStale(c)
  \/ Create(c) \/ CreateFails(c) \/ Store(c) \/ Topics(c) \/ Acls(c) \/ WorkFails(c)
  \/ RemoveClient(c) \/ CloseRemoved(c)

RunnerStep == List \/ RoundEnds \/ NextRound \/ RunnerEnds \/ \E c \in Clusters : Launch(c)

StopStep == Signal \/ Stopped \/ \E c \in Clusters : VisitClose(c) \/ VisitDelete(c)

Next ==
  \/ RunnerStep \/ CleanupEnds \/ BeginStop \/ StopStep
  \/ \E c \in Clusters : SyncStep(c)
  \/ \E k \in Clients : Break(k)

\* Goroutines go on, calls time out, and a select that finds stopCh ready again and
\* again takes it at last, since it picks among what is ready at random.
Fairness ==
  /\ WF_workerVars(RunnerStep) /\ SF_workerVars(RunnerEnds)
  /\ WF_workerVars(CleanupEnds) /\ WF_workerVars(StopStep)
  /\ \A c \in Clusters : WF_workerVars(SyncStep(c))

Spec == Init /\ [][Next]_workerVars /\ Fairness

-----------------------------------------------------------------------------
Steps == {"idle", "load", "test", "closeStale", "deleteStale", "create", "store",
          "topics", "acls", "remove", "closeRemoved"}

TypeOK ==
  /\ runner \in {"round", "launching", "waiting", "ended"} /\ todo \in SUBSET Clusters
  /\ spc \in [Clusters -> Steps]
  /\ tries \in [Clusters -> 0..(MaxRetries - 1)]
  /\ got \in [Clusters -> Clients \cup {NoClient}]
  /\ pool \in [Clusters -> Clients \cup {NoClient}]
  /\ open \in SUBSET Clients /\ sound \in SUBSET open /\ stray \in SUBSET open
  /\ cleanup \in {"waiting", "ended"}
  /\ stopping \in {"no", "emptying", "waiting", "stopped"}
  /\ visit \in SUBSET Clusters /\ deleting \in SUBSET Clusters /\ late \in SUBSET Clusters
  /\ workerFaults \in 0..MaxWorkerFaults

\* getAdminClient and RemoveAdminClient, whose steps the pool does not hold together: a
\* client that is open is in the pool or with the goroutine that made or removed it, but
\* for those that NewAdminClient gave up half-made and for what is left when Stop
\* overlaps a synchronisation; nobody works with a client that has been closed before.
ClientsAreOwned ==
  /\ stopping = "no" =>
       /\ \A c \in Clusters : spc[c] \in {"topics", "acls"} => got[c] \in open
       /\ \A k \in open \ stray : pool[k[1]] = k \/ got[k[1]] = k
  /\ stopping = "stopped" => \A k \in open \ stray : k[1] \in late

\* It is Stop's turn, or c's.
Served(c) == stopping # "no" \/ spc[c] = "load"

\* Stop returns, however its steps fall among those of a round (Stop, runScheduledSync,
\* runLogCleanup): time and again none is on its way, of which there is but one.
StopReturns == []<>(stopping \in {"no", "stopped"})

\* Until Stop begins every cluster is tried again and again, whatever fails
\* (syncAllClustersWithRetry, syncClusterWithRetry).
KeepsSyncing == \A c \in Clusters : []<>Served(c)
=============================================================================
