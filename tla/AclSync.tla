-------------------------------- MODULE AclSync --------------------------------
(***************************************************************************)
(* The access control lists of one Kafka cluster and the rows the platform *)
(* keeps of them in its table `acl`.                                       *)
(*                                                                         *)
(* The table has no unique key but its id.  The SyncWorker recognises an   *)
(* ACL by a string of its seven fields and writes sarama's numbers into    *)
(* the row; the API writes names, and its own SyncACLs recognises an ACL   *)
(* by six names.  A row is therefore an ACL in one of two spellings, and   *)
(* what a process finds, keeps or deletes depends on the spelling.         *)
(*                                                                         *)
(* One step is one Kafka call or one SQL statement, as in TopicSync, whose *)
(* worker calls syncACLs after each syncTopics that succeeds.              *)
(***************************************************************************)
EXTENDS Naturals, FiniteSets

CONSTANTS
  Subjects,     \* (resource name, principal, host): spelled alike everywhere
  Patterns,     \* "literal", and "prefixed" or not
  Actions,      \* (resource type, operation, permission)
  Unnamed,      \* the actions the platform has no names for, such as transactional ids
  Default,      \* the action that stands for those when they are named
  Copies,       \* bound: what the ids of rows of one ACL and spelling tell apart; a
                \* number is used again when nobody holds its row any more
  Requests,     \* slots of concurrent API requests
  Worker,       \* the SyncWorker's goroutine for this cluster
  None,
  MaxOps,       \* bound: API requests that are started
  MaxExternal,  \* bound: changes other administrators make in Kafka
  MaxFaults     \* bound: failed calls and crashes

Procs == Requests \cup {Worker}
Acl   == [subject : Subjects, pattern : Patterns, action : Actions]
Row   == [acl : Acl, coded : BOOLEAN, copy : Copies]

ASSUME AclAssumption ==
  /\ Unnamed \subseteq Actions /\ Default \in Actions \ Unnamed
  /\ Worker \notin Requests
  /\ None \notin Acl \cup Row
  /\ "literal" \in Patterns /\ Patterns \subseteq {"literal", "prefixed"}

ASSUME AclBoundsAssumption == MaxOps \in Nat /\ MaxExternal \in Nat /\ MaxFaults \in Nat

VARIABLES
  kafka,    \* the ACLs of the cluster
  rows,     \* the table's rows of the cluster
  pc,       \* pc[p]: the next call of process p
  snap,     \* snap[p]: what ListACLs returned to p
  todo,     \* todo[p]: the ACLs p still has to write
  listed,   \* the worker's dbACLMap: the rows it still has to delete
  wanted,   \* wanted[r]: the ACL that r creates
  doomed,   \* doomed[r]: the row that r deletes
  dirty,    \* history: something else happened since the worker listed Kafka
  ops, external, faults

locals == <<snap, todo, listed, wanted, doomed>>
counts == <<ops, external, faults>>
vars   == <<kafka, rows, pc, locals, dirty, counts>>

-----------------------------------------------------------------------------
(* How an ACL is spelled.                                                   *)

\* convertResourceTypeFromSarama and its kin.
FromSarama(b) == IF b.action \in Unnamed THEN [b EXCEPT !.action = Default] ELSE b

\* buildACLKey prints the row's columns; buildKafkaACLKeyFromResourceAndAcl prints
\* sarama's numeric types with %s.
RowKey(row) == [acl |-> row.acl, form |-> IF row.coded THEN "code" ELSE "name"]

KafkaKey_WithoutAction(b) == [acl |-> [b EXCEPT !.action = Default], form |-> "code"]

KafkaKey(b) == [acl |-> b, form |-> "number"]

\* The key of the service's SyncACLs: six names, without the pattern.
NameKey(b) == <<b.subject, FromSarama(b).action>>

NameKeys == {<<row.acl.subject, row.acl.action>> : row \in {x \in rows : ~x.coded}}

\* What DeleteACL's filter matches: a code converts to "any", a pattern's code to literal.
Filter(row) ==
  {b \in Acl :
    /\ b.subject = row.acl.subject
    /\ b.pattern = IF row.coded THEN "literal" ELSE row.acl.pattern
    /\ row.coded \/ b.action = row.acl.action}

Acls(table) == {row.acl : row \in table}

-----------------------------------------------------------------------------
(* The table.                                                               *)

Held == rows \cup listed \cup {doomed[r] : r \in {q \in Requests : doomed[q] # None}}

IsNew(row) == row \notin Held

InsertRow(b, coded) ==
  LET copies == {n \in Copies : IsNew([acl |-> b, coded |-> coded, copy |-> n])} IN
  /\ copies # {}
  /\ rows' = rows \cup {[acl |-> b, coded |-> coded, copy |-> CHOOSE n \in copies : TRUE]}

DeleteRow(row) == rows' = rows \ {row}

\* Someone other than the worker did something, or a write of the worker's failed.
Disturb == dirty' = TRUE

Fault == faults < MaxFaults /\ faults' = faults + 1 /\ Disturb

Init ==
  /\ kafka \in SUBSET Acl
  /\ rows = {}
  /\ pc = [p \in Procs |-> "idle"]
  /\ snap = [p \in Procs |-> {}]
  /\ todo = [p \in Procs |-> {}]
  /\ listed = {}
  /\ wanted = [r \in Requests |-> None]
  /\ doomed = [r \in Requests |-> None]
  /\ dirty = TRUE
  /\ ops = 0 /\ external = 0 /\ faults = 0

-----------------------------------------------------------------------------
(* syncACLs.                                                                *)

WorkerListKafka ==
  /\ pc[Worker] = "idle"
  /\ snap' = [snap EXCEPT ![Worker] = kafka]
  /\ pc' = [pc EXCEPT ![Worker] = "list_db"]
  /\ dirty' = FALSE
  /\ UNCHANGED <<kafka, rows, todo, listed, wanted, doomed, counts>>

\* dbACLMap keeps one row of each key, the last one the query returned.
OneRowPerKey_NoCleanup == {{}}

OneRowPerKey ==
  {m \in SUBSET rows :
    \A row \in rows : Cardinality({x \in m : RowKey(x) = RowKey(row)}) = 1}

WorkerListDB ==
  /\ pc[Worker] = "list_db"
  /\ listed' \in OneRowPerKey
  /\ todo' = [todo EXCEPT ![Worker] = snap[Worker]]
  /\ pc' = [pc EXCEPT ![Worker] = "apply"]
  /\ UNCHANGED <<kafka, rows, snap, wanted, doomed, dirty, counts>>

\* An ACL with a row of its key has that row saved again; the others get a new row.
WorkerWrite(b) ==
  /\ pc[Worker] = "apply" /\ b \in todo[Worker]
  /\ LET found == {row \in listed : RowKey(row) = KafkaKey(b)} IN
       /\ listed' = listed \ found
       /\ IF found # {}
          THEN rows' = rows \cup found
          ELSE InsertRow(b, TRUE)
  /\ todo' = [todo EXCEPT ![Worker] = @ \ {b}]
  /\ UNCHANGED <<kafka, pc, snap, wanted, doomed, dirty, counts>>

\* The loop over dbACLMap comes after the loop over Kafka's ACLs.
MayDelete_AtOnce == TRUE

MayDelete == todo[Worker] = {}

WorkerDelete(row) ==
  /\ pc[Worker] = "apply" /\ MayDelete /\ row \in listed
  /\ DeleteRow(row)
  /\ listed' = listed \ {row}
  /\ UNCHANGED <<kafka, pc, snap, todo, wanted, doomed, dirty, counts>>

\* A failed write is logged and the loop goes on.
WorkerWriteFails ==
  /\ pc[Worker] = "apply" /\ Fault
  /\ \/ /\ \E b \in todo[Worker] : todo' = [todo EXCEPT ![Worker] = @ \ {b}]
        /\ UNCHANGED listed
     \/ /\ MayDelete
        /\ \E row \in listed : listed' = listed \ {row}
        /\ UNCHANGED todo
  /\ UNCHANGED <<kafka, rows, pc, snap, wanted, doomed, ops, external>>

\* The table cannot be listed: syncACLs returns the error.
WorkerFails ==
  /\ pc[Worker] = "list_db" /\ Fault
  /\ pc' = [pc EXCEPT ![Worker] = "idle"]
  /\ snap' = [snap EXCEPT ![Worker] = {}]
  /\ UNCHANGED <<kafka, rows, todo, listed, wanted, doomed, ops, external>>

WorkerEnd ==
  /\ pc[Worker] = "apply" /\ todo[Worker] = {} /\ listed = {}
  /\ pc' = [pc EXCEPT ![Worker] = "idle"]
  /\ snap' = [snap EXCEPT ![Worker] = {}]
  /\ UNCHANGED <<kafka, rows, todo, listed, wanted, doomed, dirty, counts>>

-----------------------------------------------------------------------------
(* The API requests.                                                        *)

Return(r) ==
  /\ pc' = [pc EXCEPT ![r] = "idle"]
  /\ wanted' = [wanted EXCEPT ![r] = None]
  /\ doomed' = [doomed EXCEPT ![r] = None]

\* CreateACL, of an ACL that the platform has names for.
StartCreate(r, b) ==
  /\ pc[r] = "idle" /\ ops < MaxOps /\ b.action \notin Unnamed
  /\ ops' = ops + 1
  /\ wanted' = [wanted EXCEPT ![r] = b]
  /\ pc' = [pc EXCEPT ![r] = "create_kafka"]
  /\ UNCHANGED <<kafka, rows, snap, todo, listed, doomed, dirty, external, faults>>

CreateInKafka(r) ==
  /\ pc[r] = "create_kafka"
  /\ kafka' = kafka \cup {wanted[r]}
  /\ pc' = [pc EXCEPT ![r] = "create_db"]
  /\ Disturb
  /\ UNCHANGED <<rows, locals, counts>>

CreateInDB(r) ==
  /\ pc[r] = "create_db"
  /\ InsertRow(wanted[r], FALSE)
  /\ Return(r) /\ Disturb
  /\ UNCHANGED <<kafka, snap, todo, listed, counts>>

\* DeleteACL, and each round of BatchDeleteACL.
StartDelete(r, row) ==
  /\ pc[r] = "idle" /\ ops < MaxOps
  /\ ops' = ops + 1
  /\ doomed' = [doomed EXCEPT ![r] = row]
  /\ pc' = [pc EXCEPT ![r] = "delete_kafka"]
  /\ UNCHANGED <<kafka, rows, snap, todo, listed, wanted, dirty, external, faults>>

DeleteInKafka(r) ==
  /\ pc[r] = "delete_kafka"
  /\ kafka' = kafka \ Filter(doomed[r])
  /\ pc' = [pc EXCEPT ![r] = "delete_db"]
  /\ Disturb
  /\ UNCHANGED <<rows, locals, counts>>

DeleteInDB(r) ==
  /\ pc[r] = "delete_db"
  /\ DeleteRow(doomed[r])
  /\ Return(r) /\ Disturb
  /\ UNCHANGED <<kafka, snap, todo, listed, counts>>

\* SyncACLs
StartSync(r) ==
  /\ pc[r] = "idle" /\ ops < MaxOps
  /\ ops' = ops + 1
  /\ snap' = [snap EXCEPT ![r] = kafka]
  /\ pc' = [pc EXCEPT ![r] = "sync_db"]
  /\ UNCHANGED <<kafka, rows, todo, listed, wanted, doomed, dirty, external, faults>>

\* Which ACLs are new is decided by the rows as they are now.
SyncListDB(r) ==
  /\ pc[r] = "sync_db"
  /\ todo' = [todo EXCEPT ![r] = {b \in snap[r] : NameKey(b) \notin NameKeys}]
  /\ pc' = [pc EXCEPT ![r] = "sync_apply"]
  /\ UNCHANGED <<kafka, rows, snap, listed, wanted, doomed, dirty, counts>>

SyncInsert(r) ==
  /\ pc[r] = "sync_apply"
  /\ \E b \in todo[r] :
       /\ InsertRow(FromSarama(b), FALSE)
       /\ todo' = [todo EXCEPT ![r] = @ \ {b}]
  /\ Disturb
  /\ UNCHANGED <<kafka, pc, snap, listed, wanted, doomed, counts>>

SyncInsertFails(r) ==
  /\ pc[r] = "sync_apply" /\ Fault
  /\ \E b \in todo[r] : todo' = [todo EXCEPT ![r] = @ \ {b}]
  /\ UNCHANGED <<kafka, rows, pc, snap, listed, wanted, doomed, ops, external>>

SyncEnd(r) ==
  /\ pc[r] = "sync_apply" /\ todo[r] = {}
  /\ Return(r)
  /\ snap' = [snap EXCEPT ![r] = {}]
  /\ UNCHANGED <<kafka, rows, todo, listed, dirty, counts>>

\* A Kafka call or a statement fails: the handler returns an error.
RequestFails(r) ==
  /\ pc[r] \in {"create_kafka", "create_db", "delete_kafka", "delete_db", "sync_db"}
  /\ Fault
  /\ Return(r)
  /\ snap' = [snap EXCEPT ![r] = {}]
  /\ UNCHANGED <<kafka, rows, todo, listed, ops, external>>

\* Kafka does the work and the answer is lost: the handler returns an error.
ReplyLost(r) ==
  /\ \/ pc[r] = "create_kafka" /\ kafka' = kafka \cup {wanted[r]}
     \/ pc[r] = "delete_kafka" /\ kafka' = kafka \ Filter(doomed[r])
  /\ Fault
  /\ Return(r)
  /\ UNCHANGED <<rows, snap, todo, listed, ops, external>>

-----------------------------------------------------------------------------
(* The world around the server.                                             *)

\* DeleteACLFromKafka, which leaves the table alone, or another administrator.
RemoveFromKafka(b) ==
  /\ external < MaxExternal /\ b \in kafka
  /\ external' = external + 1
  /\ kafka' = kafka \ {b}
  /\ Disturb
  /\ UNCHANGED <<rows, pc, locals, ops, faults>>

AddToKafka(b) ==
  /\ external < MaxExternal /\ b \notin kafka
  /\ external' = external + 1
  /\ kafka' = kafka \cup {b}
  /\ Disturb
  /\ UNCHANGED <<rows, pc, locals, ops, faults>>

Crash ==
  /\ Fault
  /\ pc' = [p \in Procs |-> "idle"]
  /\ snap' = [p \in Procs |-> {}]
  /\ todo' = [p \in Procs |-> {}]
  /\ listed' = {}
  /\ wanted' = [r \in Requests |-> None]
  /\ doomed' = [r \in Requests |-> None]
  /\ UNCHANGED <<kafka, rows, ops, external>>

-----------------------------------------------------------------------------
WorkerStep ==
  \/ WorkerListKafka \/ WorkerListDB \/ WorkerEnd
  \/ \E b \in Acl : WorkerWrite(b)
  \/ \E row \in listed : WorkerDelete(row)

RequestStep(r) ==
  \/ CreateInKafka(r) \/ CreateInDB(r) \/ DeleteInKafka(r) \/ DeleteInDB(r)
  \/ SyncListDB(r) \/ SyncInsert(r) \/ SyncEnd(r)

StartRequest(r) ==
  \/ \E b \in Acl : StartCreate(r, b)
  \/ \E row \in rows : StartDelete(r, row)
  \/ StartSync(r)

RequestFailure(r) == RequestFails(r) \/ ReplyLost(r) \/ SyncInsertFails(r)

Next ==
  \/ WorkerStep \/ WorkerWriteFails \/ WorkerFails
  \/ \E r \in Requests : RequestStep(r) \/ StartRequest(r) \/ RequestFailure(r)
  \/ \E b \in Acl : RemoveFromKafka(b) \/ AddToKafka(b)
  \/ Crash

Fairness == WF_vars(WorkerStep) /\ \A r \in Requests : WF_vars(RequestStep(r))

Spec == Init /\ [][Next]_vars /\ Fairness

-----------------------------------------------------------------------------
(* Properties.                                                              *)

TypeOK ==
  /\ kafka \subseteq Acl
  /\ rows \subseteq Row
  /\ pc \in [Procs -> {"idle", "list_db", "apply", "create_kafka", "create_db",
                       "delete_kafka", "delete_db", "sync_db", "sync_apply"}]
  /\ snap \in [Procs -> SUBSET Acl]
  /\ todo \in [Procs -> SUBSET Acl]
  /\ listed \subseteq Row
  /\ wanted \in [Requests -> Acl \cup {None}]
  /\ doomed \in [Requests -> Row \cup {None}]
  /\ dirty \in BOOLEAN
  /\ ops \in 0..MaxOps /\ external \in 0..MaxExternal /\ faults \in 0..MaxFaults

\* A synchronisation replaces rows by other rows of the same ACL, and never leaves an
\* ACL that Kafka keeps without one in between: readers of the table always see it.
\* (While syncACLs runs and nothing else happens and no write fails.)
SyncLeavesNoGap ==
  [][pc[Worker] # "idle" /\ ~dirty' =>
       \A b \in kafka : b \in Acls(rows) => b \in Acls(rows')]_vars

\* Every ACL of Kafka has a row in the worker's spelling after a synchronisation that
\* nothing disturbed.
CleanSyncCovers ==
  pc[Worker] = "idle" /\ ~dirty => kafka \subseteq Acls({row \in rows : row.coded})

\* When requests, changes and failures have stopped, the table comes to tell which ACLs
\* Kafka has, and goes on to: ACLs without a row get one, and the rows that no ACL of Kafka
\* stands behind, those of a wrong name included, are gone.  How many rows an ACL has it
\* does not say: a second row of an ACL stays, replaced at each tick as the first one is.
Converges == <>[](Acls(rows) = kafka)

\* What buildACLKey says (sync_worker.go:411): the key is a complete match of seven
\* fields.  The worker deletes no row whose seven fields Kafka has just listed.
MatchedRowsStay ==
  [][\A row \in rows \ rows' :
       pc[Worker] = "apply" /\ row \in listed \ listed' => row.acl \notin snap[Worker]]_vars

\* What DeleteACL says (acl_service.go:166): it deletes the ACL.  The request takes no
\* ACL from Kafka but the one of its row.
DeleteTakesOneAcl ==
  [][\A r \in Requests : pc[r] = "delete_kafka" /\ pc'[r] = "delete_db" =>
       kafka \ kafka' \subseteq {doomed[r].acl}]_vars

-----------------------------------------------------------------------------
(* The inductive invariant behind the safety properties.                    *)

\* A request that creates knows what.
PhaseInv ==
  \A r \in Requests : pc[r] \in {"create_kafka", "create_db"} => wanted[r] # None

\* What has been written, and that deletions only follow.
SyncInv ==
  ~dirty =>
    /\ pc[Worker] # "idle" => kafka = snap[Worker]
    /\ pc[Worker] = "apply" =>
         /\ todo[Worker] \subseteq snap[Worker]
         /\ listed \subseteq rows
         /\ snap[Worker] \ todo[Worker] \subseteq Acls({row \in rows \ listed : row.coded})
    /\ pc[Worker] = "idle" => kafka \subseteq Acls({row \in rows : row.coded})

IInv == TypeOK /\ PhaseInv /\ SyncInv
=============================================================================
