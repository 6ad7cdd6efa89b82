---------------------------- MODULE AclSyncProofs ----------------------------
(***************************************************************************)
(* The safety of syncACLs, for any sets of ACLs, row numbers and requests. *)
(*                                                                         *)
(* The argument is SyncInv: as long as nothing disturbs it, what the       *)
(* worker has written is covered by rows that it is not going to delete,   *)
(* and it deletes only when everything is written.                         *)
(***************************************************************************)
EXTENDS AclSync, TLAPS

USE AclAssumption, AclBoundsAssumption

Calls == {"idle", "list_db", "apply", "create_kafka", "create_db",
          "delete_kafka", "delete_db", "sync_db", "sync_apply"}

LEMMA InitInv == Init => IInv
  BY DEF Init, IInv, TypeOK, PhaseInv, SyncInv, Procs

\* A new row is well typed, and nobody holds it yet.
LEMMA InsertRowFacts ==
  ASSUME NEW b \in Acl, NEW coded \in BOOLEAN, InsertRow(b, coded)
  PROVE  \E row \in Row :
           /\ row.acl = b /\ row.coded = coded /\ row \notin Held
           /\ rows' = rows \cup {row}
<1> DEFINE copies == {n \in Copies : IsNew([acl |-> b, coded |-> coded, copy |-> n])}
           n == CHOOSE m \in copies : TRUE
           row == [acl |-> b, coded |-> coded, copy |-> n]
<1>1. copies # {} /\ rows' = rows \cup {row}
  BY DEF InsertRow
<1>2. n \in copies
  BY <1>1
<1>3. row \in Row /\ row \notin Held
  BY <1>2 DEF IsNew, Row
<1> QED BY <1>1, <1>3

LEMMA FromSaramaType == ASSUME NEW b \in Acl PROVE FromSarama(b) \in Acl
  BY DEF FromSarama, Acl

-----------------------------------------------------------------------------
(* The worker's steps.                                                      *)

LEMMA WorkerListKafkaInv == ASSUME IInv, WorkerListKafka PROVE IInv'
<1>1. TypeOK'
  BY DEF WorkerListKafka, IInv, TypeOK, Procs, counts
<1>2. SyncInv'
  BY DEF WorkerListKafka, IInv, TypeOK, SyncInv, Procs
<1>3. PhaseInv'
  BY DEF WorkerListKafka, IInv, TypeOK, PhaseInv, Procs
<1> QED BY <1>1, <1>2, <1>3 DEF IInv

LEMMA WorkerListDBInv == ASSUME IInv, WorkerListDB PROVE IInv'
<1>1. listed' \subseteq rows
  BY DEF WorkerListDB, OneRowPerKey
<1>2. TypeOK'
  BY <1>1 DEF WorkerListDB, IInv, TypeOK, Procs, counts
<1>3. todo'[Worker] = snap[Worker] /\ snap' = snap /\ pc'[Worker] = "apply"
  BY DEF WorkerListDB, IInv, TypeOK, Procs
<1>4. SyncInv'
  BY <1>1, <1>3 DEF WorkerListDB, IInv, SyncInv
<1>5. PhaseInv'
  BY DEF WorkerListDB, IInv, TypeOK, PhaseInv, Procs
<1> QED BY <1>2, <1>4, <1>5 DEF IInv

\* An ACL of Kafka is never found among the rows, so it gets a new one.
LEMMA WorkerWriteInv ==
  ASSUME IInv, NEW b \in Acl, WorkerWrite(b)
  PROVE  IInv'
<1>1. {row \in listed : RowKey(row) = KafkaKey(b)} = {}
  BY DEF RowKey, KafkaKey
<1>2. listed' = listed /\ InsertRow(b, TRUE)
  BY <1>1 DEF WorkerWrite
<1>3. PICK row \in Row : /\ row.acl = b /\ row.coded = TRUE /\ row \notin Held
                         /\ rows' = rows \cup {row}
  BY <1>2, InsertRowFacts
<1>4. TypeOK'
  BY <1>2, <1>3 DEF WorkerWrite, IInv, TypeOK, Procs, counts
<1>5. /\ todo'[Worker] = todo[Worker] \ {b} /\ snap' = snap /\ pc' = pc
      /\ pc[Worker] = "apply" /\ kafka' = kafka /\ dirty' = dirty
  BY DEF WorkerWrite, IInv, TypeOK, Procs
<1>6. row \notin listed
  BY <1>3 DEF Held
<1>7. SyncInv'
  BY <1>2, <1>3, <1>5, <1>6 DEF IInv, SyncInv, Acls
<1>8. PhaseInv'
  BY DEF WorkerWrite, IInv, TypeOK, PhaseInv, Procs
<1> QED BY <1>4, <1>7, <1>8 DEF IInv

LEMMA WorkerDeleteInv ==
  ASSUME IInv, NEW row \in listed, WorkerDelete(row)
  PROVE  IInv'
<1>1. rows' = rows \ {row} /\ listed' = listed \ {row}
  BY DEF WorkerDelete, DeleteRow
<1>2. TypeOK'
  BY <1>1 DEF WorkerDelete, IInv, TypeOK, Procs, counts
<1>3. rows' \ listed' = rows \ listed
  BY <1>1
<1>4. SyncInv'
  BY <1>1, <1>3 DEF WorkerDelete, IInv, SyncInv, Acls
<1>5. PhaseInv'
  BY DEF WorkerDelete, IInv, TypeOK, PhaseInv, Procs
<1> QED BY <1>2, <1>4, <1>5 DEF IInv

LEMMA WorkerWriteFailsInv == ASSUME IInv, WorkerWriteFails PROVE IInv'
<1>1. TypeOK'
  BY DEF WorkerWriteFails, Fault, Disturb, IInv, TypeOK, Procs
<1>2. SyncInv'
  BY DEF WorkerWriteFails, Fault, Disturb, SyncInv
<1>3. PhaseInv'
  BY DEF WorkerWriteFails, IInv, TypeOK, PhaseInv, Procs
<1> QED BY <1>1, <1>2, <1>3 DEF IInv

LEMMA WorkerFailsInv == ASSUME IInv, WorkerFails PROVE IInv'
<1>1. TypeOK'
  BY DEF WorkerFails, Fault, Disturb, IInv, TypeOK, Procs
<1>2. SyncInv'
  BY DEF WorkerFails, Fault, Disturb, SyncInv
<1>3. PhaseInv'
  BY DEF WorkerFails, IInv, TypeOK, PhaseInv, Procs
<1> QED BY <1>1, <1>2, <1>3 DEF IInv

LEMMA WorkerEndInv == ASSUME IInv, WorkerEnd PROVE IInv'
<1>1. TypeOK'
  BY DEF WorkerEnd, IInv, TypeOK, Procs, counts
<1>2. SyncInv'
  BY DEF WorkerEnd, IInv, TypeOK, SyncInv, Procs
<1>3. PhaseInv'
  BY DEF WorkerEnd, IInv, TypeOK, PhaseInv, Procs
<1> QED BY <1>1, <1>2, <1>3 DEF IInv

-----------------------------------------------------------------------------
(* The other steps either disturb, or change nothing that SyncInv reads.    *)

\* A worker that has been disturbed promises nothing.
LEMMA DisturbedInv == ASSUME TypeOK', PhaseInv', dirty' = TRUE PROVE IInv'
  BY DEF IInv, SyncInv

\* A step that leaves Kafka, the table and the worker's memory keeps what it remembers.
LEMMA UndisturbedInv ==
  ASSUME IInv, TypeOK', PhaseInv', UNCHANGED <<kafka, rows, listed, dirty>>,
         pc'[Worker] = pc[Worker], snap'[Worker] = snap[Worker],
         todo'[Worker] = todo[Worker]
  PROVE  IInv'
  BY DEF IInv, SyncInv

\* What the end of a request leaves behind.
LEMMA ReturnFacts ==
  ASSUME IInv, NEW r \in Requests, Return(r)
  PROVE  /\ pc' \in [Procs -> Calls] /\ pc'[Worker] = pc[Worker]
         /\ wanted' \in [Requests -> Acl \cup {None}]
         /\ doomed' \in [Requests -> Row \cup {None}]
         /\ PhaseInv'
<1>1. /\ pc' \in [Procs -> Calls] /\ pc'[Worker] = pc[Worker]
      /\ wanted' \in [Requests -> Acl \cup {None}]
      /\ doomed' \in [Requests -> Row \cup {None}]
  BY DEF Return, IInv, TypeOK, Procs, Calls
<1>2. PhaseInv'
  BY DEF Return, IInv, TypeOK, PhaseInv, Procs
<1> QED BY <1>1, <1>2

LEMMA StartRequestInv ==
  ASSUME IInv, NEW r \in Requests, StartRequest(r)
  PROVE  IInv'
<1>1. ASSUME NEW b \in Acl, StartCreate(r, b) PROVE IInv'
  <2>1. TypeOK'
    BY <1>1 DEF StartCreate, IInv, TypeOK, Procs
  <2>2. PhaseInv'
    BY <1>1 DEF StartCreate, IInv, TypeOK, PhaseInv, Procs
  <2> QED BY <1>1, <2>1, <2>2, UndisturbedInv DEF StartCreate, IInv, TypeOK, Procs
<1>2. ASSUME NEW row \in rows, StartDelete(r, row) PROVE IInv'
  <2>1. TypeOK'
    BY <1>2 DEF StartDelete, IInv, TypeOK, Procs
  <2>2. PhaseInv'
    BY <1>2 DEF StartDelete, IInv, TypeOK, PhaseInv, Procs
  <2> QED BY <1>2, <2>1, <2>2, UndisturbedInv DEF StartDelete, IInv, TypeOK, Procs
<1>3. CASE StartSync(r)
  <2>1. TypeOK'
    BY <1>3 DEF StartSync, IInv, TypeOK, Procs
  <2>2. PhaseInv'
    BY <1>3 DEF StartSync, IInv, TypeOK, PhaseInv, Procs
  <2> QED BY <1>3, <2>1, <2>2, UndisturbedInv DEF StartSync, IInv, TypeOK, Procs
<1> QED BY <1>1, <1>2, <1>3 DEF StartRequest

LEMMA CreateStepInv ==
  ASSUME IInv, NEW r \in Requests, CreateInKafka(r) \/ CreateInDB(r)
  PROVE  IInv'
<1>1. wanted[r] \in Acl
  BY DEF CreateInKafka, CreateInDB, IInv, TypeOK, PhaseInv
<1>2. CASE CreateInKafka(r)
  <2>1. TypeOK'
    BY <1>1, <1>2 DEF CreateInKafka, Disturb, IInv, TypeOK, Procs, locals, counts
  <2>2. PhaseInv'
    BY <1>1, <1>2 DEF CreateInKafka, IInv, TypeOK, PhaseInv, Procs, locals
  <2> QED BY <1>2, <2>1, <2>2, DisturbedInv DEF CreateInKafka, Disturb
<1>3. CASE CreateInDB(r)
  <2>1. InsertRow(wanted[r], FALSE) /\ Return(r)
    BY <1>3 DEF CreateInDB
  <2>2. PICK row \in Row : rows' = rows \cup {row}
    BY <1>1, <2>1, InsertRowFacts
  <2>3. TypeOK'
    BY <1>3, <2>1, <2>2, ReturnFacts
    DEF CreateInDB, Disturb, IInv, TypeOK, Calls, counts
  <2> QED BY <1>3, <2>1, <2>3, ReturnFacts, DisturbedInv DEF CreateInDB, Disturb
<1> QED BY <1>2, <1>3

LEMMA DeleteStepInv ==
  ASSUME IInv, NEW r \in Requests, DeleteInKafka(r) \/ DeleteInDB(r)
  PROVE  IInv'
<1>1. CASE DeleteInKafka(r)
  <2>1. TypeOK'
    BY <1>1 DEF DeleteInKafka, Disturb, IInv, TypeOK, Procs, locals, counts
  <2>2. PhaseInv'
    BY <1>1 DEF DeleteInKafka, IInv, TypeOK, PhaseInv, Procs, locals
  <2> QED BY <1>1, <2>1, <2>2, DisturbedInv DEF DeleteInKafka, Disturb
<1>2. CASE DeleteInDB(r)
  <2>1. Return(r) /\ rows' \subseteq rows
    BY <1>2 DEF DeleteInDB, DeleteRow
  <2>2. TypeOK'
    BY <1>2, <2>1, ReturnFacts DEF DeleteInDB, Disturb, IInv, TypeOK, Calls, counts
  <2> QED BY <1>2, <2>1, <2>2, ReturnFacts, DisturbedInv DEF DeleteInDB, Disturb
<1> QED BY <1>1, <1>2

LEMMA SyncStepInv ==
  ASSUME IInv, NEW r \in Requests, SyncListDB(r) \/ SyncInsert(r) \/ SyncEnd(r)
  PROVE  IInv'
<1>1. CASE SyncListDB(r)
  <2>1. TypeOK'
    BY <1>1 DEF SyncListDB, IInv, TypeOK, Procs, counts
  <2>2. PhaseInv'
    BY <1>1 DEF SyncListDB, IInv, TypeOK, PhaseInv, Procs
  <2> QED BY <1>1, <2>1, <2>2, UndisturbedInv DEF SyncListDB, IInv, TypeOK, Procs
<1>2. CASE SyncInsert(r)
  <2>1. PICK b \in todo[r] : /\ InsertRow(FromSarama(b), FALSE)
                             /\ todo' = [todo EXCEPT ![r] = @ \ {b}]
    BY <1>2 DEF SyncInsert
  <2>2. b \in Acl
    BY <2>1 DEF IInv, TypeOK, Procs
  <2>3. FromSarama(b) \in Acl
    BY <2>2, FromSaramaType
  <2>4. PICK row \in Row : rows' = rows \cup {row}
    BY <2>1, <2>3, InsertRowFacts
  <2>5. TypeOK'
    BY <1>2, <2>1, <2>4 DEF SyncInsert, Disturb, IInv, TypeOK, Procs, counts
  <2>6. PhaseInv'
    BY <1>2 DEF SyncInsert, IInv, PhaseInv
  <2> QED BY <1>2, <2>5, <2>6, DisturbedInv DEF SyncInsert, Disturb
<1>3. CASE SyncEnd(r)
  <2>1. Return(r)
    BY <1>3 DEF SyncEnd
  <2>2. TypeOK'
    BY <1>3, <2>1, ReturnFacts DEF SyncEnd, IInv, TypeOK, Procs, Calls, counts
  <2> QED BY <1>3, <2>1, <2>2, ReturnFacts, UndisturbedInv DEF SyncEnd, IInv, TypeOK, Procs
<1> QED BY <1>1, <1>2, <1>3

LEMMA FailureInv ==
  ASSUME IInv, NEW r \in Requests, RequestFailure(r)
  PROVE  IInv'
<1>1. dirty' = TRUE
  BY DEF RequestFailure, SyncInsertFails, RequestFails, ReplyLost, Fault, Disturb
<1>2. CASE SyncInsertFails(r)
  <2>1. TypeOK'
    BY <1>2 DEF SyncInsertFails, Fault, Disturb, IInv, TypeOK, Procs
  <2>2. PhaseInv'
    BY <1>2 DEF SyncInsertFails, IInv, PhaseInv
  <2> QED BY <1>1, <2>1, <2>2, DisturbedInv
<1>3. CASE RequestFails(r)
  <2>1. TypeOK'
    BY <1>3, ReturnFacts DEF RequestFails, Fault, Disturb, IInv, TypeOK, Procs, Calls
  <2> QED BY <1>1, <1>3, <2>1, ReturnFacts, DisturbedInv DEF RequestFails
<1>4. CASE ReplyLost(r)
  <2>1. kafka' \subseteq Acl
    <3>1. pc[r] = "create_kafka" => wanted[r] \in Acl
      BY DEF IInv, TypeOK, PhaseInv
    <3> QED BY <1>4, <3>1 DEF ReplyLost, IInv, TypeOK
  <2>2. TypeOK'
    BY <1>4, <2>1, ReturnFacts DEF ReplyLost, Fault, Disturb, IInv, TypeOK, Procs, Calls
  <2> QED BY <1>1, <1>4, <2>2, ReturnFacts, DisturbedInv DEF ReplyLost
<1> QED BY <1>2, <1>3, <1>4 DEF RequestFailure

LEMMA CrashInv == ASSUME IInv, Crash PROVE IInv'
<1>1. TypeOK'
  BY DEF Crash, Fault, Disturb, IInv, TypeOK, Procs
<1>2. PhaseInv'
  BY DEF Crash, PhaseInv, Procs
<1> QED BY <1>1, <1>2, DisturbedInv DEF Crash, Fault, Disturb

LEMMA ExternalInv ==
  ASSUME IInv, NEW b \in Acl, RemoveFromKafka(b) \/ AddToKafka(b)
  PROVE  IInv'
<1>1. TypeOK'
  <2>1. kafka' \subseteq Acl
    BY DEF RemoveFromKafka, AddToKafka, IInv, TypeOK
  <2>2. external' \in 0..MaxExternal
    BY DEF RemoveFromKafka, AddToKafka, IInv, TypeOK
  <2> QED BY <2>1, <2>2 DEF RemoveFromKafka, AddToKafka, Disturb, IInv, TypeOK, locals
<1>2. PhaseInv'
  BY DEF RemoveFromKafka, AddToKafka, IInv, PhaseInv, locals
<1> QED BY <1>1, <1>2, DisturbedInv DEF RemoveFromKafka, AddToKafka, Disturb

-----------------------------------------------------------------------------
LEMMA NextInv == IInv /\ [Next]_vars => IInv'
<1> SUFFICES ASSUME IInv, [Next]_vars PROVE IInv'
  OBVIOUS
<1>1. CASE WorkerStep \/ WorkerWriteFails \/ WorkerFails
  BY <1>1, WorkerFailsInv, WorkerListKafkaInv, WorkerListDBInv, WorkerEndInv, WorkerWriteInv,
     WorkerDeleteInv, WorkerWriteFailsInv DEF WorkerStep
<1>2. ASSUME NEW r \in Requests,
             RequestStep(r) \/ StartRequest(r) \/ RequestFailure(r)
      PROVE  IInv'
  BY <1>2, CreateStepInv, DeleteStepInv, SyncStepInv, StartRequestInv, FailureInv
  DEF RequestStep
<1>3. CASE \E b \in Acl : RemoveFromKafka(b) \/ AddToKafka(b)
  BY <1>3, ExternalInv
<1>4. CASE Crash
  BY <1>4, CrashInv
<1>5. CASE UNCHANGED vars
  BY <1>5 DEF vars, locals, counts, IInv, TypeOK, PhaseInv, SyncInv
<1> QED BY <1>1, <1>2, <1>3, <1>4, <1>5 DEF Next

\* The invariant of syncACLs (sync_worker.go:339-409) among the requests of the ACL
\* service, whatever fails: what is written stays covered until the loops end.
THEOREM AclSafety == Spec => []IInv
<1> QED BY InitInv, NextInv, PTL DEF Spec

\* After a synchronisation that nothing disturbed, every ACL of Kafka has a row that
\* the worker wrote.
THEOREM CleanSyncCoversAlways == Spec => []CleanSyncCovers
<1>1. IInv => CleanSyncCovers
  BY DEF IInv, SyncInv, CleanSyncCovers
<1> QED BY <1>1, AclSafety, PTL

\* syncACLs replaces rows without a gap: it creates before it deletes
\* (sync_worker.go:367-406), so no ACL of Kafka is ever missing in between.
THEOREM SyncLeavesNoGapAlways == Spec => SyncLeavesNoGap
<1> DEFINE NoGap == pc[Worker] # "idle" /\ ~dirty' =>
                      \A b \in kafka : b \in Acls(rows) => b \in Acls(rows')
<1>1. IInv /\ [Next]_vars => [NoGap]_vars
  <2> SUFFICES ASSUME IInv, Next, pc[Worker] # "idle", ~dirty',
                      NEW b \in kafka, b \in Acls(rows)
               PROVE  b \in Acls(rows')
    OBVIOUS
  <2>1. CASE rows \subseteq rows'
    BY <2>1 DEF Acls
  <2>2. ASSUME NEW row \in listed, WorkerDelete(row) PROVE b \in Acls(rows')
    <3>1. /\ rows' = rows \ {row} /\ todo[Worker] = {} /\ pc[Worker] = "apply" /\ ~dirty
      BY <2>2 DEF WorkerDelete, DeleteRow, MayDelete
    <3>2. b \in Acls({x \in rows \ listed : x.coded})
      BY <3>1 DEF IInv, SyncInv
    <3> QED BY <3>1, <3>2 DEF Acls
  <2>3. CASE WorkerStep
    <3>1. CASE WorkerListKafka \/ WorkerListDB \/ WorkerEnd
      BY <2>1, <3>1 DEF WorkerListKafka, WorkerListDB, WorkerEnd
    <3>2. ASSUME NEW c \in Acl, WorkerWrite(c) PROVE rows \subseteq rows'
      BY <3>2 DEF WorkerWrite, InsertRow
    <3> QED BY <2>1, <2>2, <2>3, <3>1, <3>2 DEF WorkerStep
  <2>4. CASE WorkerWriteFails \/ WorkerFails \/ Crash
    BY <2>4 DEF WorkerWriteFails, WorkerFails, Crash, Fault, Disturb
  <2>5. ASSUME NEW r \in Requests,
               RequestStep(r) \/ StartRequest(r) \/ RequestFailure(r)
        PROVE  b \in Acls(rows')
    <3>1. CASE StartRequest(r)
      BY <2>1, <3>1 DEF StartRequest, StartCreate, StartDelete, StartSync
    <3>2. CASE RequestFailure(r)
      BY <3>2 DEF RequestFailure, RequestFails, ReplyLost, SyncInsertFails, Fault, Disturb
    <3>3. CASE RequestStep(r)
      BY <2>1, <3>3 DEF RequestStep, CreateInKafka, CreateInDB, DeleteInKafka, DeleteInDB,
                        SyncListDB, SyncInsert, SyncEnd, Disturb
    <3> QED BY <2>5, <3>1, <3>2, <3>3
  <2>6. ASSUME NEW c \in Acl, RemoveFromKafka(c) \/ AddToKafka(c)
        PROVE  b \in Acls(rows')
    BY <2>6 DEF RemoveFromKafka, AddToKafka, Disturb
  <2> QED BY <2>3, <2>4, <2>5, <2>6 DEF Next
<1> QED BY <1>1, AclSafety, PTL DEF Spec, SyncLeavesNoGap
=============================================================================
