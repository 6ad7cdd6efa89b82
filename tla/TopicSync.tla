------------------------------ MODULE TopicSync ------------------------------
(***************************************************************************)
(* The topics of one Kafka cluster and the rows the platform keeps of them *)
(* in its database.                                                        *)
(*                                                                         *)
(* Kafka is the truth; the table `topic` is a copy that also carries a     *)
(* description the users wrote.  Three kinds of process touch it, without  *)
(* a lock or a transaction between them:                                   *)
(*                                                                         *)
(*   - the SyncWorker, which on every tick lists Kafka, lists the table,   *)
(*     and then writes the difference row by row;                          *)
(*   - API requests: CreateTopic, DeleteTopic, UpdateTopicDescription and  *)
(*     SyncTopics, each a sequence of Kafka calls and SQL statements;      *)
(*   - other administrators of the cluster, who change Kafka directly.     *)
(*                                                                         *)
(* One step of the model is one Kafka call or one SQL statement, which is  *)
(* where processes interleave.  The server may crash between any two.      *)
(***************************************************************************)
EXTENDS Naturals, FiniteSets

CONSTANTS
  Topics,       \* topic names
  Shapes,       \* (partitions, replication factor) pairs, told apart only by equality
  Descs,        \* descriptions
  NoDesc,       \* the empty description of a row a sync created
  Requests,     \* slots of concurrent API requests
  Worker,       \* the SyncWorker's goroutine for this cluster
  Absent,       \* what Kafka answers for a topic it does not have
  NoRow,        \* no row with that (cluster_id, topic_name)
  NoReq,        \* the slot serves no request
  Dialect,      \* the database: "mysql" or "postgres"
  MaxRetries,   \* attempts of syncClusterWithRetry per tick
  MaxOps,       \* bound: API requests that are started
  MaxExternal,  \* bound: changes other administrators make in Kafka
  MaxFaults     \* bound: failed calls and crashes

Procs == Requests \cup {Worker}
Row   == [id : Nat, shape : Shapes, desc : Descs]
Req   == [topic : Topics, shape : Shapes \cup {Absent}, desc : Descs]

ASSUME SentinelsAssumption ==
  /\ Absent \notin Shapes
  /\ NoRow \notin Row
  /\ NoReq \notin Req
  /\ NoDesc \in Descs
  /\ Worker \notin Requests

ASSUME BoundsAssumption ==
  /\ Dialect \in {"mysql", "postgres"}
  /\ MaxRetries \in Nat \ {0}
  /\ MaxOps \in Nat /\ MaxExternal \in Nat /\ MaxFaults \in Nat

VARIABLES
  kafka,     \* kafka[t]: the shape of topic t in the cluster, or Absent
  db,        \* db[t]: the row of t, or NoRow; (cluster_id, topic_name) is unique
  nextId,    \* the table's AUTO_INCREMENT
  seen,      \* history: every <<t, x>> such that Kafka's t was, or became, x
  pc,        \* pc[p]: the next call of process p
  req,       \* req[r]: the parameters of the request slot r serves
  ksnap,     \* ksnap[p]: what ListTopics returned to p
  dsnap,     \* dsnap[p]: the rows p read and holds in memory
  todo,      \* todo[p]: the topics p's sync still has to write or delete
  dirty,     \* history: a step outside p's sync, or a failed write of it, came between
  result,    \* result[r]: how the last request of slot r ended
  attempt,   \* the worker's attempt number in syncClusterWithRetry
  ops, external, faults

shared == <<kafka, db, nextId, seen>>
locals == <<req, ksnap, dsnap, todo>>
counts == <<ops, external, faults>>
vars   == <<shared, pc, locals, dirty, result, attempt, counts>>

NoTopics == [t \in Topics |-> Absent]
NoRows   == [t \in Topics |-> NoRow]
Syncing  == {"list_db", "apply"}

-----------------------------------------------------------------------------
(* The database, as the repository's GORM calls use it.                    *)

\* Create: a row of the same name violates uk_cluster_topic.
CanInsert(t) == db[t] = NoRow

InsertRow(t, s, d) ==
  /\ db' = IF CanInsert(t)
             THEN [db EXCEPT ![t] = [id |-> nextId, shape |-> s, desc |-> d]]
             ELSE db
  /\ nextId' = IF CanInsert(t) THEN nextId + 1 ELSE nextId

\* Save: UPDATE by primary key; when that touches no row, INSERT with that key,
\* and on a duplicate UPDATE.  MySQL takes any unique key for a duplicate, so the
\* row of the same name is overwritten; Postgres names the primary key only, so
\* the statement fails on the name.  Names are never updated.
SaveFails(t, row) ==
  /\ Dialect = "postgres"
  /\ db[t] # NoRow
  /\ db[t].id # row.id

SaveRow(t, row) ==
  db' = IF SaveFails(t, row) THEN db
        ELSE [db EXCEPT ![t] = [row EXCEPT !.id =
                                  IF db[t] = NoRow THEN row.id ELSE db[t].id]]

\* Delete: by primary key; deleting nothing is no error.
DeleteRow(id) ==
  db' = [t \in Topics |-> IF db[t] # NoRow /\ db[t].id = id THEN NoRow ELSE db[t]]

SetKafka(t, x) ==
  /\ kafka' = [kafka EXCEPT ![t] = x]
  /\ seen' = seen \cup {<<t, x>>}

\* A change of Kafka or of the table falls into every running sync but the writer's own.
Disturb(own) ==
  dirty' = [q \in Procs |-> dirty[q] \/ (q \notin own /\ pc[q] \in Syncing)]

-----------------------------------------------------------------------------
Init ==
  /\ kafka \in [Topics -> Shapes \cup {Absent}]
  /\ db = NoRows
  /\ nextId = 1
  /\ seen = {<<t, kafka[t]>> : t \in {u \in Topics : kafka[u] # Absent}}
  /\ pc = [p \in Procs |-> "idle"]
  /\ req = [r \in Requests |-> NoReq]
  /\ ksnap = [p \in Procs |-> NoTopics]
  /\ dsnap = [p \in Procs |-> NoRows]
  /\ todo = [p \in Procs |-> {}]
  /\ dirty = [p \in Procs |-> FALSE]
  /\ result = [r \in Requests |-> "none"]
  /\ attempt = 0
  /\ ops = 0 /\ external = 0 /\ faults = 0

\* p returns: what it held in memory is gone.
Forget(p) ==
  /\ pc' = [pc EXCEPT ![p] = "idle"]
  /\ ksnap' = [ksnap EXCEPT ![p] = NoTopics]
  /\ dsnap' = [dsnap EXCEPT ![p] = NoRows]
  /\ todo' = [todo EXCEPT ![p] = {}]

Return(r, how) ==
  /\ Forget(r)
  /\ req' = [req EXCEPT ![r] = NoReq]
  /\ result' = [result EXCEPT ![r] = how]

Fault == faults < MaxFaults /\ faults' = faults + 1

NoFault == UNCHANGED faults

-----------------------------------------------------------------------------
(* One synchronisation, by the worker (syncTopics) or by a request          *)
(* (SyncTopics).                                                            *)

\* The ticker fires, or the worker has just started.
Tick ==
  /\ pc[Worker] = "idle"
  /\ pc' = [pc EXCEPT ![Worker] = "list_kafka"]
  /\ attempt' = 1
  /\ UNCHANGED <<shared, locals, dirty, result, counts>>

StartSync(r) ==
  /\ pc[r] = "idle" /\ ops < MaxOps
  /\ ops' = ops + 1
  /\ pc' = [pc EXCEPT ![r] = "list_kafka"]
  /\ UNCHANGED <<shared, locals, dirty, result, attempt, external, faults>>

\* adminClient.ListTopics()
ListKafka(p) ==
  /\ pc[p] = "list_kafka"
  /\ ksnap' = [ksnap EXCEPT ![p] = kafka]
  /\ dirty' = [dirty EXCEPT ![p] = FALSE]
  /\ pc' = [pc EXCEPT ![p] = "list_db"]
  /\ UNCHANGED <<shared, req, dsnap, todo, result, attempt, counts>>

\* The topics of either map: what Kafka listed is written, the rest is cleaned up.
ToHandle_NoCleanup(p) == {t \in Topics : ksnap[p][t] # Absent}

ToHandle(p) == {t \in Topics : ksnap[p][t] # Absent \/ db[t] # NoRow}

\* topicRepo.ListByCluster()
ListDB(p) ==
  /\ pc[p] = "list_db"
  /\ dsnap' = [dsnap EXCEPT ![p] = db]
  /\ todo' = [todo EXCEPT ![p] = ToHandle(p)]
  /\ pc' = [pc EXCEPT ![p] = "apply"]
  /\ UNCHANGED <<shared, req, ksnap, dirty, result, attempt, counts>>

\* The topics of the Kafka map come first, in the order of Go's map iteration;
\* what is left of the table's map is deleted after them.
IsNext(p, t) ==
  /\ pc[p] = "apply"
  /\ t \in todo[p]
  /\ ksnap[p][t] = Absent => \A u \in todo[p] : ksnap[p][u] = Absent

Done(p, t) ==
  /\ todo' = [todo EXCEPT ![p] = @ \ {t}]
  /\ UNCHANGED <<kafka, seen, pc, req, ksnap, dsnap, result, attempt, ops, external>>

\* The worker writes a known topic only when its shape changed; the API's
\* SyncTopics always saves it.
NeedsSave_ByName(p, t) == p # Worker

NeedsSave(p, t) == p # Worker \/ dsnap[p][t].shape # ksnap[p][t]

\* A topic the table did not have: Create.  A duplicate is only logged.
SyncInsert(p, t) ==
  /\ IsNext(p, t) /\ ksnap[p][t] # Absent /\ dsnap[p][t] = NoRow
  /\ InsertRow(t, ksnap[p][t], NoDesc)
  /\ Done(p, t) /\ Disturb({p}) /\ NoFault

Refreshed_NewRow(p, t) ==
  [id |-> dsnap[p][t].id, shape |-> ksnap[p][t], desc |-> NoDesc]

Refreshed(p, t) == [dsnap[p][t] EXCEPT !.shape = ksnap[p][t]]

\* A topic the table had: Save the whole row as it was read, with Kafka's shape.
SyncUpdate(p, t) ==
  /\ IsNext(p, t) /\ ksnap[p][t] # Absent /\ dsnap[p][t] # NoRow
  /\ NeedsSave(p, t)
  /\ SaveRow(t, Refreshed(p, t))
  /\ Done(p, t) /\ Disturb({p}) /\ NoFault /\ UNCHANGED nextId

SyncKeep(p, t) ==
  /\ IsNext(p, t) /\ ksnap[p][t] # Absent /\ dsnap[p][t] # NoRow
  /\ ~NeedsSave(p, t)
  /\ Done(p, t) /\ NoFault /\ UNCHANGED <<db, nextId, dirty>>

\* A row whose topic Kafka did not list: Delete.
SyncDelete(p, t) ==
  /\ IsNext(p, t) /\ ksnap[p][t] = Absent
  /\ DeleteRow(dsnap[p][t].id)
  /\ Done(p, t) /\ Disturb({p}) /\ NoFault /\ UNCHANGED nextId

\* The statement fails (or the sync's deadline has passed): logged, and the loop goes on.
SyncWriteFails(p, t) ==
  /\ IsNext(p, t) /\ Fault
  /\ dirty' = [dirty EXCEPT ![p] = TRUE]
  /\ Done(p, t) /\ UNCHANGED <<db, nextId>>

\* syncTopics returns nil; the worker goes on to the ACLs.
SyncEnd(p) ==
  /\ pc[p] = "apply" /\ todo[p] = {}
  /\ IF p = Worker
       THEN /\ pc' = [pc EXCEPT ![p] = "acls"]
            /\ UNCHANGED <<locals, result>>
       ELSE Return(p, "ok")
  /\ UNCHANGED <<shared, dirty, attempt, counts>>

SyncACLs ==
  /\ pc[Worker] = "acls"
  /\ Forget(Worker)
  /\ attempt' = 0
  /\ UNCHANGED <<shared, req, dirty, result, counts>>

MoreAttempts == attempt < MaxRetries

\* The cluster cannot be reached, a list fails, or the ACLs do: the worker tries
\* again up to MaxRetries times and then waits for the next tick.
WorkerRetries ==
  /\ pc[Worker] \in {"list_kafka", "list_db", "acls"} /\ Fault
  /\ IF MoreAttempts
       THEN /\ pc' = [pc EXCEPT ![Worker] = "list_kafka"]
            /\ attempt' = attempt + 1
            /\ ksnap' = [ksnap EXCEPT ![Worker] = NoTopics]
            /\ dsnap' = [dsnap EXCEPT ![Worker] = NoRows]
            /\ UNCHANGED todo
       ELSE Forget(Worker) /\ attempt' = 0
  /\ UNCHANGED <<shared, req, dirty, result, ops, external>>

-----------------------------------------------------------------------------
(* The other API requests.                                                  *)

CreateFirst_Database == "create_db"

CreateFirst == "create_kafka"

\* CreateTopic up to its Exists check; Kafka comes before the table.
StartCreate(r, t, s, d) ==
  /\ pc[r] = "idle" /\ ops < MaxOps
  /\ ops' = ops + 1
  /\ IF db[t] # NoRow
       THEN Return(r, "exists")
       ELSE /\ pc' = [pc EXCEPT ![r] = CreateFirst]
            /\ req' = [req EXCEPT ![r] = [topic |-> t, shape |-> s, desc |-> d]]
            /\ UNCHANGED <<ksnap, dsnap, todo, result>>
  /\ UNCHANGED <<shared, dirty, attempt, external, faults>>

\* adminClient.CreateTopic: Kafka refuses a topic it has.
CreateInKafka(r) ==
  /\ pc[r] = "create_kafka"
  /\ IF kafka[req[r].topic] # Absent
       THEN Return(r, "error") /\ UNCHANGED <<kafka, seen, dirty>>
       ELSE /\ SetKafka(req[r].topic, req[r].shape)
            /\ pc' = [pc EXCEPT ![r] = "create_db"]
            /\ Disturb({r})
            /\ UNCHANGED <<locals, result>>
  /\ UNCHANGED <<db, nextId, attempt, counts>>

\* topicRepo.Create: if a sync has inserted the topic meanwhile, the request fails
\* on the unique key and its description is lost.
CreateInDB(r) ==
  /\ pc[r] = "create_db"
  /\ InsertRow(req[r].topic, req[r].shape, req[r].desc)
  /\ Return(r, IF CanInsert(req[r].topic) THEN "ok" ELSE "error")
  /\ Disturb({r})
  /\ UNCHANGED <<kafka, seen, attempt, counts>>

\* DeleteTopic up to adminClient.DeleteTopic, which fails for an unknown topic.
StartDelete(r, t) ==
  /\ pc[r] = "idle" /\ ops < MaxOps
  /\ ops' = ops + 1
  /\ IF kafka[t] = Absent
       THEN Return(r, "error") /\ UNCHANGED <<kafka, seen, dirty>>
       ELSE /\ SetKafka(t, Absent)
            /\ pc' = [pc EXCEPT ![r] = "delete_find"]
            /\ req' = [req EXCEPT ![r] =
                         [topic |-> t, shape |-> Absent, desc |-> NoDesc]]
            /\ Disturb({r})
            /\ UNCHANGED <<ksnap, dsnap, todo, result>>
  /\ UNCHANGED <<db, nextId, attempt, external, faults>>

AlreadyGone_NotFound == "error"

AlreadyGone == "ok"

\* topicRepo.FindByName: a row that is gone already counts as deleted.
DeleteFind(r) ==
  /\ pc[r] = "delete_find"
  /\ LET t == req[r].topic IN
       IF db[t] = NoRow
         THEN Return(r, AlreadyGone)
         ELSE /\ dsnap' = [dsnap EXCEPT ![r] = [NoRows EXCEPT ![t] = db[t]]]
              /\ pc' = [pc EXCEPT ![r] = "delete_row"]
              /\ UNCHANGED <<req, ksnap, todo, result>>
  /\ UNCHANGED <<shared, dirty, attempt, counts>>

DeleteInDB(r) ==
  /\ pc[r] = "delete_row"
  /\ DeleteRow(dsnap[r][req[r].topic].id)
  /\ Return(r, "ok")
  /\ Disturb({r})
  /\ UNCHANGED <<kafka, nextId, seen, attempt, counts>>

\* UpdateTopicDescription: FindByName, then Save of the whole row.
StartDescribe(r, t, d) ==
  /\ pc[r] = "idle" /\ ops < MaxOps
  /\ ops' = ops + 1
  /\ IF db[t] = NoRow
       THEN Return(r, "error")
       ELSE /\ dsnap' = [dsnap EXCEPT ![r] = [NoRows EXCEPT ![t] = db[t]]]
            /\ req' = [req EXCEPT ![r] = [topic |-> t, shape |-> Absent, desc |-> d]]
            /\ pc' = [pc EXCEPT ![r] = "save_desc"]
            /\ UNCHANGED <<ksnap, todo, result>>
  /\ UNCHANGED <<shared, dirty, attempt, external, faults>>

SaveDescription(r) ==
  /\ pc[r] = "save_desc"
  /\ LET t   == req[r].topic
         row == [dsnap[r][t] EXCEPT !.desc = req[r].desc]
     IN  /\ SaveRow(t, row)
         /\ Return(r, IF SaveFails(t, row) THEN "error" ELSE "ok")
  /\ Disturb({r})
  /\ UNCHANGED <<kafka, nextId, seen, attempt, counts>>

\* Any call of a request fails, and the request with it.
RequestFails(r) ==
  /\ pc[r] \notin {"idle", "apply"} /\ Fault
  /\ Return(r, "fault")
  /\ UNCHANGED <<shared, dirty, attempt, ops, external>>

\* Kafka creates the topic, but the answer does not arrive in time.
CreateReplyLost(r) ==
  /\ pc[r] = "create_kafka" /\ kafka[req[r].topic] = Absent /\ Fault
  /\ SetKafka(req[r].topic, req[r].shape)
  /\ Return(r, "fault")
  /\ Disturb({r})
  /\ UNCHANGED <<db, nextId, attempt, ops, external>>

\* Kafka deletes the topic, but the answer does not arrive in time.
DeleteReplyLost(r, t) ==
  /\ pc[r] = "idle" /\ ops < MaxOps /\ kafka[t] # Absent /\ Fault
  /\ ops' = ops + 1
  /\ SetKafka(t, Absent)
  /\ Return(r, "fault")
  /\ Disturb({r})
  /\ UNCHANGED <<db, nextId, attempt, external>>

-----------------------------------------------------------------------------
(* The world around the server.                                             *)

\* Another administrator creates, reshapes or deletes a topic.
ExternalChange(t, x) ==
  /\ external < MaxExternal /\ kafka[t] # x
  /\ external' = external + 1
  /\ SetKafka(t, x)
  /\ Disturb({})
  /\ UNCHANGED <<db, nextId, pc, locals, result, attempt, ops, faults>>

\* The server stops and starts again: Kafka and the database survive.
Crash ==
  /\ Fault
  /\ pc' = [p \in Procs |-> "idle"]
  /\ req' = [r \in Requests |-> NoReq]
  /\ ksnap' = [p \in Procs |-> NoTopics]
  /\ dsnap' = [p \in Procs |-> NoRows]
  /\ todo' = [p \in Procs |-> {}]
  /\ dirty' = [p \in Procs |-> FALSE]
  /\ result' = [r \in Requests |-> "none"]
  /\ attempt' = 0
  /\ UNCHANGED <<shared, ops, external>>

-----------------------------------------------------------------------------
Apply(p, t) ==
  \/ SyncInsert(p, t) \/ SyncUpdate(p, t) \/ SyncKeep(p, t) \/ SyncDelete(p, t)

\* What the worker does by itself; each is an iteration of a running goroutine.
WorkerStep ==
  \/ Tick \/ ListKafka(Worker) \/ ListDB(Worker)
  \/ \E t \in Topics : Apply(Worker, t)
  \/ SyncEnd(Worker) \/ SyncACLs

\* A handler that has started runs to its end.
RequestStep(r) ==
  \/ ListKafka(r) \/ ListDB(r)
  \/ \E t \in Topics : Apply(r, t)
  \/ SyncEnd(r)
  \/ CreateInKafka(r) \/ CreateInDB(r)
  \/ DeleteFind(r) \/ DeleteInDB(r)
  \/ SaveDescription(r)

StartRequest(r) ==
  \/ StartSync(r)
  \/ \E t \in Topics :
       \/ StartDelete(r, t)
       \/ \E d \in Descs : StartDescribe(r, t, d)
       \/ \E s \in Shapes, d \in Descs : StartCreate(r, t, s, d)

Failure ==
  \/ WorkerRetries \/ Crash
  \/ \E p \in Procs, t \in Topics : SyncWriteFails(p, t)
  \/ \E r \in Requests :
       \/ RequestFails(r) \/ CreateReplyLost(r)
       \/ \E t \in Topics : DeleteReplyLost(r, t)

Next ==
  \/ WorkerStep
  \/ \E r \in Requests : RequestStep(r) \/ StartRequest(r)
  \/ \E t \in Topics, x \in Shapes \cup {Absent} : ExternalChange(t, x)
  \/ Failure

Fairness == WF_vars(WorkerStep) /\ \A r \in Requests : WF_vars(RequestStep(r))

Spec == Init /\ [][Next]_vars /\ Fairness

-----------------------------------------------------------------------------
(* Properties.                                                              *)

TypeOK ==
  /\ kafka \in [Topics -> Shapes \cup {Absent}]
  /\ db \in [Topics -> Row \cup {NoRow}]
  /\ nextId \in Nat
  /\ seen \in SUBSET (Topics \X (Shapes \cup {Absent}))
  /\ pc \in [Procs -> {"idle", "list_kafka", "list_db", "apply", "acls",
                        "create_kafka", "create_db", "delete_find", "delete_row", "save_desc"}]
  /\ req \in [Requests -> Req \cup {NoReq}]
  /\ ksnap \in [Procs -> [Topics -> Shapes \cup {Absent}]]
  /\ dsnap \in [Procs -> [Topics -> Row \cup {NoRow}]]
  /\ todo \in [Procs -> SUBSET Topics]
  /\ dirty \in [Procs -> BOOLEAN]
  /\ result \in [Requests -> {"none", "ok", "exists", "error", "fault"}]
  /\ attempt \in 0..MaxRetries
  /\ ops \in 0..MaxOps /\ external \in 0..MaxExternal /\ faults \in 0..MaxFaults

Entry(t) == IF db[t] = NoRow THEN Absent ELSE db[t].shape

Mirrors == \A t \in Topics : Entry(t) = kafka[t]

\* A row never shows what Kafka never had: every (topic, shape) the table holds is
\* one that Kafka held for that very topic at some time, whatever stale snapshots,
\* saves of old rows and half-done requests wrote it.
RowsWereInKafka ==
  \A t \in Topics : db[t] # NoRow => <<t, db[t].shape>> \in seen

\* Deletion by primary key hits the topic it is meant for: no two names share an id,
\* although a late Save may insert a row again under the id it once had.
OneTopicPerId ==
  \A t, u \in Topics :
    db[t] # NoRow /\ db[u] # NoRow /\ db[t].id = db[u].id => t = u

\* A synchronisation works: if nothing changed Kafka or the table since it listed
\* Kafka, and none of its own writes failed, then when it has handled every topic
\* the table is Kafka's list (syncTopics of the worker, SyncTopics of the API).
CleanSyncMirrors ==
  \A p \in Procs : pc[p] = "apply" /\ todo[p] = {} /\ ~dirty[p] => Mirrors

\* A synchronisation nobody disturbs keeps what the users wrote: a row it updates
\* keeps its description (and its identity).  A disturbed one may write back an old
\* description, because it saves the whole row as it read it.
CleanSyncKeepsDescriptions ==
  [][\A p \in Procs, t \in Topics :
       /\ pc[p] = "apply" /\ ~dirty[p] /\ t \in todo[p] \ todo'[p]
       /\ db[t] # NoRow /\ ksnap[p][t] # Absent
       => /\ db'[t] # NoRow
          /\ db'[t].desc = db[t].desc /\ db'[t].id = db[t].id]_vars

\* A request that has deleted the topic in Kafka does not fail because a sync has
\* removed the row before it: "idempotent: if SyncWorker has already cleaned it
\* up, it counts as success" (topic_service.go:193).  Nor does it leave the row it found.
DeleteIsIdempotent ==
  [][\A r \in Requests :
       pc[r] \in {"delete_find", "delete_row"} /\ result'[r] \in {"ok", "error", "exists"}
         /\ pc'[r] = "idle"
       => /\ result'[r] = "ok"
          /\ LET t == req[r].topic IN
              db'[t] # NoRow => dsnap[r][t] # NoRow /\ db'[t].id # dsnap[r][t].id]_vars

\* The platform recovers from every interleaving, lost reply, failed write and crash:
\* once changes and failures stop, the next ticks bring the table to Kafka's list for good.
Converges == <>[]Mirrors

\* The table implements the abstract catalogue, its fairness included.
Catalog == INSTANCE TopicCatalog WITH
  catalog <- [t \in Topics |-> Entry(t)],
  held    <- seen
ImplementsCatalog == Catalog!Spec

\* What the worker's clean-up says of itself: "clean up topics already deleted"
\* (sync_worker.go:328).  It removes the row only of a topic that was once deleted in Kafka.
CleanupOnlyDeletedTopics ==
  [][\A t \in Topics : SyncDelete(Worker, t) /\ db[t] # NoRow /\ db'[t] = NoRow
       => <<t, Absent>> \in seen]_vars
-----------------------------------------------------------------------------
(* The inductive invariant behind the safety properties.                    *)

\* What a process that is about to make a call holds in memory.
PhaseInv ==
  /\ pc[Worker] \in {"idle", "list_kafka", "list_db", "apply", "acls"}
  /\ \A p \in Procs : pc[p] = "apply" =>
       \A t \in todo[p] : ksnap[p][t] # Absent \/ dsnap[p][t] # NoRow
  /\ \A r \in Requests :
       /\ pc[r] # "acls"
       /\ pc[r] \in {"create_kafka", "create_db"} =>
            req[r] \in Req /\ req[r].shape # Absent
       /\ pc[r] \in {"delete_find", "delete_row", "save_desc"} => req[r] \in Req
       /\ pc[r] \in {"delete_row", "save_desc"} => dsnap[r][req[r].topic] # NoRow

\* The ids under which the table, or the memory of a process, knows topic t.
KnownIds(t) ==
  {row.id : row \in ({db[t]} \cup {dsnap[p][t] : p \in Procs}) \ {NoRow}}

IdInv ==
  \A t \in Topics : \A i \in KnownIds(t) :
    i < nextId /\ \A u \in Topics : i \in KnownIds(u) => t = u

\* Whatever is known of a topic's shape, Kafka had it.
SeenInv ==
  /\ \A t \in Topics : kafka[t] # Absent => <<t, kafka[t]>> \in seen
  /\ \A t \in Topics : db[t] # NoRow => <<t, db[t].shape>> \in seen
  /\ \A p \in Procs, t \in Topics :
       /\ ksnap[p][t] # Absent => <<t, ksnap[p][t]>> \in seen
       /\ dsnap[p][t] # NoRow => <<t, dsnap[p][t].shape>> \in seen
  /\ \A r \in Requests :
       pc[r] = "create_db" => <<req[r].topic, req[r].shape>> \in seen

\* A sync that nothing has come between has the truth in its memory.
CleanInv ==
  \A p \in Procs : ~dirty[p] =>
    /\ pc[p] \in Syncing => ksnap[p] = kafka
    /\ pc[p] = "apply" => \A t \in Topics :
         IF t \in todo[p] THEN db[t] = dsnap[p][t] ELSE Entry(t) = kafka[t]

IInv == TypeOK /\ PhaseInv /\ IdInv /\ SeenInv /\ CleanInv
=============================================================================
