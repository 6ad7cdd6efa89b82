--------------------------- MODULE TopicSyncProofs ---------------------------
(* Safety of TopicSync, for any topics, shapes, descriptions, requests and   *)
(* bounds, and for both databases.                                           *)
EXTENDS TopicSync, TLAPS

USE SentinelsAssumption, BoundsAssumption

Phases == {"idle", "list_kafka", "list_db", "apply", "acls",
           "create_kafka", "create_db", "delete_find", "delete_row", "save_desc"}

\* The types, and what the phase of a process says of its memory.
TypeInv == TypeOK /\ PhaseInv

LEMMA InitTypeInv == Init => TypeInv
  BY DEF Init, TypeInv, TypeOK, PhaseInv, Procs, NoTopics, NoRows, Row

\* A row built from typed parts is a row, and what SaveRow writes is one.
LEMMA SaveRowType ==
  ASSUME TypeOK, NEW t \in Topics, NEW row \in Row, SaveRow(t, row)
  PROVE  db' \in [Topics -> Row \cup {NoRow}]
  BY DEF TypeOK, SaveRow, SaveFails, Row

\* An insertion keeps the table's type.
LEMMA InsertRowType ==
  ASSUME TypeOK, NEW t \in Topics, NEW s \in Shapes, NEW d \in Descs, InsertRow(t, s, d)
  PROVE  db' \in [Topics -> Row \cup {NoRow}] /\ nextId' \in Nat
  BY DEF TypeOK, InsertRow, CanInsert, Row

\* So does a deletion by id.
LEMMA DeleteRowType ==
  ASSUME TypeOK, NEW id, DeleteRow(id)
  PROVE  db' \in [Topics -> Row \cup {NoRow}]
  BY DEF TypeOK, DeleteRow

\* Returning empties the memory of the process and leaves the others'.
LEMMA ReturnType ==
  ASSUME TypeInv, NEW r \in Requests,
         NEW how \in {"ok", "exists", "error", "fault"}, Return(r, how)
  PROVE  /\ pc' \in [Procs -> Phases]
         /\ req' \in [Requests -> Req \cup {NoReq}]
         /\ ksnap' \in [Procs -> [Topics -> Shapes \cup {Absent}]]
         /\ dsnap' \in [Procs -> [Topics -> Row \cup {NoRow}]]
         /\ todo' \in [Procs -> SUBSET Topics]
         /\ result' \in [Requests -> {"none", "ok", "exists", "error", "fault"}]
         /\ PhaseInv'
  BY DEF TypeInv, TypeOK, PhaseInv, Return, Forget, Procs, NoTopics, NoRows, Phases

LEMMA DisturbType ==
  ASSUME NEW S, TypeOK, Disturb(S)
  PROVE  dirty' \in [Procs -> BOOLEAN]
  BY DEF TypeOK, Disturb
LEMMA StepTypeInv ==
  ASSUME TypeInv, [Next]_vars
  PROVE  TypeInv'
<1> USE DEF TypeInv, shared, locals, counts
<1>1. CASE Tick
  BY <1>1 DEF Tick, TypeOK, PhaseInv, Procs
<1>2. ASSUME NEW r \in Requests, StartSync(r) PROVE TypeInv'
  BY <1>2 DEF StartSync, TypeOK, PhaseInv, Procs
<1>3. ASSUME NEW p \in Procs, ListKafka(p) PROVE TypeInv'
  BY <1>3 DEF ListKafka, TypeOK, PhaseInv, Procs
<1>4. ASSUME NEW p \in Procs, ListDB(p) PROVE TypeInv'
  BY <1>4 DEF ListDB, ToHandle, TypeOK, PhaseInv, Procs
<1>5. ASSUME NEW p \in Procs, NEW t \in Topics, SyncInsert(p, t) PROVE TypeInv'
  <2>1. db' \in [Topics -> Row \cup {NoRow}] /\ nextId' \in Nat
    <3>1. ksnap[p][t] \in Shapes
      BY <1>5 DEF SyncInsert, TypeOK
    <3>2. QED
      BY <1>5, <3>1, InsertRowType DEF SyncInsert
  <2>2. dirty' \in [Procs -> BOOLEAN]
    BY <1>5, DisturbType DEF SyncInsert
  <2> QED
    BY <1>5, <2>1, <2>2 DEF SyncInsert, Done, NoFault, TypeOK, PhaseInv, Procs
<1>6. ASSUME NEW p \in Procs, NEW t \in Topics, SyncUpdate(p, t) PROVE TypeInv'
  <2>1. Refreshed(p, t) \in Row
    BY <1>6 DEF SyncUpdate, Refreshed, TypeOK, Row
  <2>2. db' \in [Topics -> Row \cup {NoRow}]
    BY <1>6, <2>1, SaveRowType DEF SyncUpdate
  <2>3. dirty' \in [Procs -> BOOLEAN]
    BY <1>6, DisturbType DEF SyncUpdate
  <2> QED
    BY <1>6, <2>2, <2>3 DEF SyncUpdate, Done, NoFault, TypeOK, PhaseInv, Procs
<1>7. ASSUME NEW p \in Procs, NEW t \in Topics, SyncKeep(p, t) PROVE TypeInv'
  BY <1>7 DEF SyncKeep, Done, NoFault, TypeOK, PhaseInv, Procs
<1>8. ASSUME NEW p \in Procs, NEW t \in Topics, SyncDelete(p, t) PROVE TypeInv'
  <2>1. db' \in [Topics -> Row \cup {NoRow}]
    BY <1>8, DeleteRowType DEF SyncDelete
  <2>2. dirty' \in [Procs -> BOOLEAN]
    BY <1>8, DisturbType DEF SyncDelete
  <2> QED
    BY <1>8, <2>1, <2>2 DEF SyncDelete, Done, NoFault, TypeOK, PhaseInv, Procs
<1>9. ASSUME NEW p \in Procs, NEW t \in Topics, SyncWriteFails(p, t) PROVE TypeInv'
  BY <1>9 DEF SyncWriteFails, Done, Fault, TypeOK, PhaseInv, Procs
<1>10. ASSUME NEW p \in Procs, SyncEnd(p) PROVE TypeInv'
  <2>1. CASE p = Worker
    BY <1>10, <2>1 DEF SyncEnd, TypeOK, PhaseInv, Procs
  <2>2. CASE p # Worker
    <3>1. p \in Requests /\ Return(p, "ok")
      BY <1>10, <2>2 DEF SyncEnd, Procs
    <3>2. QED
      BY <1>10, <3>1, ReturnType DEF SyncEnd, TypeOK, Phases
  <2> QED
    BY <2>1, <2>2
<1>11. CASE SyncACLs
  BY <1>11 DEF SyncACLs, Forget, NoTopics, NoRows, TypeOK, PhaseInv, Procs
<1>12. CASE WorkerRetries
  <2>1. CASE MoreAttempts
    BY <1>12, <2>1 DEF WorkerRetries, MoreAttempts, Fault, NoTopics, NoRows, TypeOK, PhaseInv, Procs
  <2>2. CASE ~MoreAttempts
    BY <1>12, <2>2 DEF WorkerRetries, Forget, Fault, NoTopics, NoRows, TypeOK, PhaseInv, Procs
  <2> QED
    BY <2>1, <2>2
<1>13. ASSUME NEW r \in Requests, NEW t \in Topics, NEW s \in Shapes, NEW d \in Descs,
              StartCreate(r, t, s, d)
       PROVE  TypeInv'
  <2>1. CASE db[t] # NoRow
    <3>1. Return(r, "exists")
      BY <1>13, <2>1 DEF StartCreate
    <3>2. QED
      BY <1>13, <3>1, ReturnType DEF StartCreate, TypeOK, Phases
  <2>2. CASE db[t] = NoRow
    <3> DEFINE new == [topic |-> t, shape |-> s, desc |-> d]
    <3>1. new \in Req /\ new.shape # Absent
      BY DEF Req
    <3>2. req' = [req EXCEPT ![r] = new]
      BY <1>13, <2>2 DEF StartCreate
    <3> HIDE DEF new
    <3>3. /\ req' \in [Requests -> Req \cup {NoReq}]
          /\ req'[r] \in Req /\ req'[r].shape # Absent
          /\ \A q \in Requests \ {r} : req'[q] = req[q]
      BY <3>1, <3>2 DEF TypeOK
    <3>4. /\ pc' = [pc EXCEPT ![r] = "create_kafka"] /\ ops < MaxOps /\ ops' = ops + 1
          /\ UNCHANGED <<kafka, db, nextId, seen, ksnap, dsnap, todo, result, dirty,
                         attempt, external, faults>>
      BY <1>13, <2>2 DEF StartCreate, CreateFirst
    <3>5. TypeOK'
      BY <3>3, <3>4 DEF TypeOK, Procs
    <3>6. PhaseInv'
      BY <3>3, <3>4 DEF TypeOK, PhaseInv, Procs
    <3>7. QED
      BY <3>5, <3>6
  <2> QED
    BY <2>1, <2>2
<1>14. ASSUME NEW r \in Requests, CreateInKafka(r) PROVE TypeInv'
  <2>0. req[r] \in Req /\ req[r].shape # Absent
    BY <1>14 DEF CreateInKafka, PhaseInv
  <2>1. CASE kafka[req[r].topic] # Absent
    <3>1. Return(r, "error")
      BY <1>14, <2>1 DEF CreateInKafka
    <3>2. QED
      BY <1>14, <2>1, <3>1, ReturnType DEF CreateInKafka, TypeOK, Phases
  <2>2. CASE kafka[req[r].topic] = Absent
    <3>1. dirty' \in [Procs -> BOOLEAN]
      BY <1>14, <2>2, DisturbType DEF CreateInKafka
    <3>2. /\ req[r].topic \in Topics /\ req[r].shape \in Shapes
      BY <2>0 DEF Req
    <3>3. /\ pc' = [pc EXCEPT ![r] = "create_db"]
          /\ kafka' = [kafka EXCEPT ![req[r].topic] = req[r].shape]
          /\ seen' = seen \cup {<<req[r].topic, req[r].shape>>}
          /\ UNCHANGED <<db, nextId, req, ksnap, dsnap, todo, result,
                         attempt, ops, external, faults>>
      BY <1>14, <2>2 DEF CreateInKafka, SetKafka
    <3>4. TypeOK'
      BY <3>1, <3>2, <3>3 DEF TypeOK, Procs
    <3>5. PhaseInv'
      BY <2>0, <3>3 DEF TypeOK, PhaseInv, Procs
    <3>6. QED
      BY <3>4, <3>5
  <2> QED
    BY <2>1, <2>2
<1>15. ASSUME NEW r \in Requests, CreateInDB(r) PROVE TypeInv'
  <2>1. req[r] \in Req /\ req[r].shape \in Shapes
    BY <1>15 DEF CreateInDB, PhaseInv, Req
  <2>2. db' \in [Topics -> Row \cup {NoRow}] /\ nextId' \in Nat
    BY <1>15, <2>1, InsertRowType DEF CreateInDB, Req
  <2>3. dirty' \in [Procs -> BOOLEAN]
    BY <1>15, DisturbType DEF CreateInDB
  <2>4. PICK how \in {"ok", "exists", "error", "fault"} : Return(r, how)
    BY <1>15 DEF CreateInDB
  <2> QED
    BY <1>15, <2>2, <2>3, <2>4, ReturnType DEF CreateInDB, TypeOK, Phases
<1>16. ASSUME NEW r \in Requests, NEW t \in Topics, StartDelete(r, t) PROVE TypeInv'
  <2>1. CASE kafka[t] = Absent
    <3>1. Return(r, "error")
      BY <1>16, <2>1 DEF StartDelete
    <3>2. QED
      BY <1>16, <2>1, <3>1, ReturnType DEF StartDelete, TypeOK, Phases
  <2>2. CASE kafka[t] # Absent
    <3>1. dirty' \in [Procs -> BOOLEAN]
      BY <1>16, <2>2, DisturbType DEF StartDelete
    <3> DEFINE new == [topic |-> t, shape |-> Absent, desc |-> NoDesc]
    <3>2. new \in Req
      BY DEF Req
    <3>3. req' = [req EXCEPT ![r] = new]
      BY <1>16, <2>2 DEF StartDelete
    <3> HIDE DEF new
    <3>4. /\ req' \in [Requests -> Req \cup {NoReq}]
          /\ req'[r] \in Req
          /\ \A q \in Requests \ {r} : req'[q] = req[q]
      BY <3>2, <3>3 DEF TypeOK
    <3>5. /\ pc' = [pc EXCEPT ![r] = "delete_find"] /\ ops < MaxOps /\ ops' = ops + 1
          /\ kafka' = [kafka EXCEPT ![t] = Absent] /\ seen' = seen \cup {<<t, Absent>>}
          /\ UNCHANGED <<db, nextId, ksnap, dsnap, todo, result, attempt, external, faults>>
      BY <1>16, <2>2 DEF StartDelete, SetKafka
    <3>6. TypeOK'
      BY <3>1, <3>4, <3>5 DEF TypeOK, Procs
    <3>7. PhaseInv'
      BY <3>4, <3>5 DEF TypeOK, PhaseInv, Procs
    <3>8. QED
      BY <3>6, <3>7
  <2> QED
    BY <2>1, <2>2
<1>17. ASSUME NEW r \in Requests, DeleteFind(r) PROVE TypeInv'
  <2>1. req[r] \in Req
    BY <1>17 DEF DeleteFind, PhaseInv
  <2>2. CASE db[req[r].topic] = NoRow
    <3>1. Return(r, "ok")
      BY <1>17, <2>2 DEF DeleteFind, AlreadyGone
    <3>2. QED
      BY <1>17, <3>1, ReturnType DEF DeleteFind, TypeOK, Phases
  <2>3. CASE db[req[r].topic] # NoRow
    <3>1. req[r].topic \in Topics
      BY <2>1 DEF Req
    <3>2. /\ pc' = [pc EXCEPT ![r] = "delete_row"]
          /\ dsnap' = [dsnap EXCEPT ![r] =
                         [NoRows EXCEPT ![req[r].topic] = db[req[r].topic]]]
          /\ UNCHANGED <<kafka, db, nextId, seen, req, ksnap, todo, result, dirty,
                         attempt, ops, external, faults>>
      BY <1>17, <2>3 DEF DeleteFind
    <3>3. /\ dsnap' \in [Procs -> [Topics -> Row \cup {NoRow}]]
          /\ dsnap'[r][req[r].topic] # NoRow
          /\ \A q \in Procs \ {r} : dsnap'[q] = dsnap[q]
      BY <2>3, <3>1, <3>2 DEF NoRows, TypeOK, Procs
    <3>4. TypeOK'
      BY <3>2, <3>3 DEF TypeOK, Procs
    <3>5. PhaseInv'
      BY <2>1, <3>2, <3>3 DEF TypeOK, PhaseInv, Procs
    <3>6. QED
      BY <3>4, <3>5
  <2> QED
    BY <2>2, <2>3
<1>18. ASSUME NEW r \in Requests, DeleteInDB(r) PROVE TypeInv'
  <2>1. db' \in [Topics -> Row \cup {NoRow}]
    BY <1>18, DeleteRowType DEF DeleteInDB
  <2>2. dirty' \in [Procs -> BOOLEAN]
    BY <1>18, DisturbType DEF DeleteInDB
  <2>3. Return(r, "ok")
    BY <1>18 DEF DeleteInDB
  <2> QED
    BY <1>18, <2>1, <2>2, <2>3, ReturnType DEF DeleteInDB, TypeOK, Phases
<1>19. ASSUME NEW r \in Requests, NEW t \in Topics, NEW d \in Descs, StartDescribe(r, t, d)
       PROVE  TypeInv'
  <2>1. CASE db[t] = NoRow
    <3>1. Return(r, "error")
      BY <1>19, <2>1 DEF StartDescribe
    <3>2. QED
      BY <1>19, <3>1, ReturnType DEF StartDescribe, TypeOK, Phases
  <2>2. CASE db[t] # NoRow
    <3> DEFINE new == [topic |-> t, shape |-> Absent, desc |-> d]
    <3>1. new \in Req /\ new.topic = t
      BY DEF Req
    <3>2. req' = [req EXCEPT ![r] = new]
      BY <1>19, <2>2 DEF StartDescribe
    <3> HIDE DEF new
    <3>3. /\ req' \in [Requests -> Req \cup {NoReq}]
          /\ req'[r] \in Req /\ req'[r].topic = t
          /\ \A q \in Requests \ {r} : req'[q] = req[q]
      BY <3>1, <3>2 DEF TypeOK
    <3>4. /\ pc' = [pc EXCEPT ![r] = "save_desc"] /\ ops < MaxOps /\ ops' = ops + 1
          /\ dsnap' = [dsnap EXCEPT ![r] = [NoRows EXCEPT ![t] = db[t]]]
          /\ UNCHANGED <<kafka, db, nextId, seen, ksnap, todo, result, dirty,
                         attempt, external, faults>>
      BY <1>19, <2>2 DEF StartDescribe
    <3>5. /\ dsnap' \in [Procs -> [Topics -> Row \cup {NoRow}]]
          /\ dsnap'[r][t] # NoRow
          /\ \A q \in Procs \ {r} : dsnap'[q] = dsnap[q]
      BY <2>2, <3>4 DEF NoRows, TypeOK, Procs
    <3>6. TypeOK'
      BY <3>3, <3>4, <3>5 DEF TypeOK, Procs
    <3>7. PhaseInv'
      BY <3>3, <3>4, <3>5 DEF TypeOK, PhaseInv, Procs
    <3>8. QED
      BY <3>6, <3>7
  <2> QED
    BY <2>1, <2>2
<1>20. ASSUME NEW r \in Requests, SaveDescription(r) PROVE TypeInv'
  <2> DEFINE t   == req[r].topic
             row == [dsnap[r][t] EXCEPT !.desc = req[r].desc]
  <2>1. t \in Topics /\ row \in Row
    <3>1. req[r] \in Req /\ dsnap[r][t] # NoRow
      BY <1>20 DEF SaveDescription, PhaseInv
    <3>2. t \in Topics /\ req[r].desc \in Descs
      BY <3>1 DEF Req
    <3>3. dsnap[r][t] \in Row
      BY <3>1, <3>2 DEF TypeOK, Procs
    <3>4. QED
      BY <3>2, <3>3 DEF Row
  <2>2. db' \in [Topics -> Row \cup {NoRow}]
    <3>1. SaveRow(t, row)
      BY <1>20 DEF SaveDescription
    <3> HIDE DEF t, row
    <3>2. QED
      BY <2>1, <3>1, SaveRowType
  <2>3. dirty' \in [Procs -> BOOLEAN]
    BY <1>20, DisturbType DEF SaveDescription
  <2>4. PICK how \in {"ok", "exists", "error", "fault"} : Return(r, how)
    BY <1>20 DEF SaveDescription
  <2> QED
    BY <1>20, <2>2, <2>3, <2>4, ReturnType DEF SaveDescription, TypeOK, Phases
<1>21. ASSUME NEW r \in Requests, RequestFails(r) PROVE TypeInv'
  <2>1. Return(r, "fault")
    BY <1>21 DEF RequestFails
  <2> QED
    BY <1>21, <2>1, ReturnType DEF RequestFails, Fault, TypeOK, Phases
<1>22. ASSUME NEW r \in Requests, CreateReplyLost(r) PROVE TypeInv'
  <2>1. req[r] \in Req
    BY <1>22 DEF CreateReplyLost, PhaseInv
  <2>2. Return(r, "fault")
    BY <1>22 DEF CreateReplyLost
  <2>3. dirty' \in [Procs -> BOOLEAN]
    BY <1>22, DisturbType DEF CreateReplyLost
  <2> QED
    BY <1>22, <2>1, <2>2, <2>3, ReturnType DEF CreateReplyLost, SetKafka, Fault, TypeOK, Phases, Req
<1>23. ASSUME NEW r \in Requests, NEW t \in Topics, DeleteReplyLost(r, t) PROVE TypeInv'
  <2>1. Return(r, "fault")
    BY <1>23 DEF DeleteReplyLost
  <2>2. dirty' \in [Procs -> BOOLEAN]
    BY <1>23, DisturbType DEF DeleteReplyLost
  <2> QED
    BY <1>23, <2>1, <2>2, ReturnType DEF DeleteReplyLost, SetKafka, Fault, TypeOK, Phases
<1>24. ASSUME NEW t \in Topics, NEW x \in Shapes \cup {Absent}, ExternalChange(t, x)
       PROVE  TypeInv'
  <2>1. dirty' \in [Procs -> BOOLEAN]
    BY <1>24, DisturbType DEF ExternalChange
  <2> QED
    BY <1>24, <2>1 DEF ExternalChange, SetKafka, TypeOK, PhaseInv, Procs
<1>25. CASE Crash
  BY <1>25 DEF Crash, Fault, NoTopics, NoRows, TypeOK, PhaseInv, Procs
<1>26. CASE UNCHANGED vars
  BY <1>26 DEF vars, TypeOK, PhaseInv
<1>27. QED
  BY <1>1, <1>2, <1>3, <1>4, <1>5, <1>6, <1>7, <1>8, <1>9, <1>10, <1>11, <1>12, <1>13,
     <1>14, <1>15, <1>16, <1>17, <1>18, <1>19, <1>20, <1>21, <1>22, <1>23, <1>24, <1>25, <1>26
  DEF Next, WorkerStep, RequestStep, StartRequest, Failure, Apply, Procs

\* The types of TopicSync's variables, always: what a call finds in the memory of its
\* process is what the calls before it put there.
THEOREM TypeCorrect == Spec => []TypeOK
<1>1. Spec => []TypeInv
  BY InitTypeInv, StepTypeInv, PTL DEF Spec
<1>2. TypeInv => TypeOK
  BY DEF TypeInv
<1> QED
  BY <1>1, <1>2, PTL
-----------------------------------------------------------------------------
(* Every step changes Kafka, or the table by one statement, or neither; what it
   writes to the table, and what a process remembers, Kafka once had.         *)

TableEffect ==
  \/ UNCHANGED <<db, nextId>>
  \/ \E t \in Topics, s \in Shapes, d \in Descs : <<t, s>> \in seen /\ InsertRow(t, s, d)
  \/ /\ UNCHANGED nextId
     /\ \E t \in Topics, row \in Row :
          row.id \in KnownIds(t) /\ <<t, row.shape>> \in seen /\ SaveRow(t, row)
  \/ UNCHANGED nextId /\ \E id \in Nat : DeleteRow(id)

SharedEffect ==
  \/ UNCHANGED <<kafka, seen>> /\ TableEffect
  \/ UNCHANGED <<db, nextId>> /\ \E t \in Topics, x \in Shapes \cup {Absent} : SetKafka(t, x)

MemoryEffect ==
  \A p \in Procs, t \in Topics :
    /\ ksnap'[p][t] \in {Absent, ksnap[p][t], kafka[t]}
    /\ dsnap'[p][t] \in {NoRow, dsnap[p][t], db[t]}

RequestEffect ==
  \A r \in Requests : pc'[r] = "create_db" =>
    \/ pc[r] = "create_db" /\ req'[r] = req[r]
    \/ <<req'[r].topic, req'[r].shape>> \in seen'

StepEffect == SharedEffect /\ MemoryEffect /\ RequestEffect

\* A process that returns remembers nothing and is in no phase.
LEMMA ReturnEffect ==
  ASSUME TypeInv, NEW r \in Requests, NEW how, Return(r, how)
  PROVE  MemoryEffect /\ RequestEffect
  BY DEF TypeInv, TypeOK, Return, Forget, MemoryEffect, RequestEffect, Procs, NoTopics, NoRows

\* The ids in memory are known, as long as the row is there.
LEMMA MemoryKnown ==
  /\ \A p \in Procs, t \in Topics : dsnap[p][t] # NoRow => dsnap[p][t].id \in KnownIds(t)
  /\ \A t \in Topics : db[t] # NoRow => db[t].id \in KnownIds(t)
  BY DEF KnownIds

\* Each step changes Kafka, the table and the memories in one of the few ways of StepEffect.
LEMMA StepHasEffect ==
  ASSUME TypeInv, SeenInv, [Next]_vars
  PROVE  StepEffect
<1> USE DEF TypeInv, shared, locals, counts, StepEffect
<1> DEFINE Quiet == UNCHANGED <<kafka, seen, db, nextId>>
<1>0. Quiet => SharedEffect
  BY DEF SharedEffect, TableEffect
<1>1. CASE Tick
  BY <1>0, <1>1 DEF Tick, TypeOK, MemoryEffect, RequestEffect, Procs
<1>2. ASSUME NEW r \in Requests, StartSync(r) PROVE StepEffect
  BY <1>0, <1>2 DEF StartSync, TypeOK, MemoryEffect, RequestEffect, Procs
<1>3. ASSUME NEW p \in Procs, ListKafka(p) PROVE StepEffect
  BY <1>0, <1>3 DEF ListKafka, TypeOK, MemoryEffect, RequestEffect, Procs
<1>4. ASSUME NEW p \in Procs, ListDB(p) PROVE StepEffect
  BY <1>0, <1>4 DEF ListDB, TypeOK, MemoryEffect, RequestEffect, Procs
<1>5. ASSUME NEW p \in Procs, NEW t \in Topics, SyncInsert(p, t) PROVE StepEffect
  <2>1. ksnap[p][t] \in Shapes /\ <<t, ksnap[p][t]>> \in seen /\ NoDesc \in Descs
    <3>1. ksnap[p][t] # Absent
      BY <1>5 DEF SyncInsert
    <3>2. ksnap[p][t] \in Shapes
      BY <3>1 DEF TypeOK
    <3>3. <<t, ksnap[p][t]>> \in seen
      BY <3>1 DEF SeenInv
    <3>4. QED
      BY <3>2, <3>3
  <2>2. InsertRow(t, ksnap[p][t], NoDesc) /\ UNCHANGED <<kafka, seen>>
    BY <1>5 DEF SyncInsert, Done
  <2>3. SharedEffect
    BY <2>1, <2>2 DEF SharedEffect, TableEffect
  <2> QED
    BY <1>5, <2>3 DEF SyncInsert, Done, MemoryEffect, RequestEffect
<1>6. ASSUME NEW p \in Procs, NEW t \in Topics, SyncUpdate(p, t) PROVE StepEffect
  <2>1. /\ dsnap[p][t] \in Row /\ dsnap[p][t].id \in KnownIds(t)
        /\ ksnap[p][t] \in Shapes /\ <<t, ksnap[p][t]>> \in seen
    <3>1. ksnap[p][t] # Absent /\ dsnap[p][t] # NoRow
      BY <1>6 DEF SyncUpdate
    <3>2. ksnap[p][t] \in Shapes /\ dsnap[p][t] \in Row
      BY <3>1 DEF TypeOK
    <3>3. <<t, ksnap[p][t]>> \in seen
      BY <3>1 DEF SeenInv
    <3>4. QED
      BY <3>1, <3>2, <3>3, MemoryKnown
  <2>2. /\ Refreshed(p, t) \in Row
        /\ Refreshed(p, t).id = dsnap[p][t].id
        /\ Refreshed(p, t).shape = ksnap[p][t]
    BY <2>1 DEF Refreshed, Row
  <2>3. SaveRow(t, Refreshed(p, t)) /\ UNCHANGED <<kafka, seen, nextId>>
    BY <1>6 DEF SyncUpdate, Done
  <2>4. SharedEffect
    BY <2>1, <2>2, <2>3 DEF SharedEffect, TableEffect
  <2> QED
    BY <1>6, <2>4 DEF SyncUpdate, Done, MemoryEffect, RequestEffect
<1>7. ASSUME NEW p \in Procs, NEW t \in Topics, SyncKeep(p, t) PROVE StepEffect
  BY <1>0, <1>7 DEF SyncKeep, Done, MemoryEffect, RequestEffect
<1>8. ASSUME NEW p \in Procs, NEW t \in Topics, SyncDelete(p, t) PROVE StepEffect
  <2>1. dsnap[p][t].id \in Nat
    BY <1>8 DEF SyncDelete, IsNext, TypeOK, PhaseInv, Row
  <2>2. DeleteRow(dsnap[p][t].id) /\ UNCHANGED <<kafka, seen, nextId>>
    BY <1>8 DEF SyncDelete, Done
  <2>3. SharedEffect
    BY <2>1, <2>2 DEF SharedEffect, TableEffect
  <2> QED
    BY <1>8, <2>3 DEF SyncDelete, Done, MemoryEffect, RequestEffect
<1>9. ASSUME NEW p \in Procs, NEW t \in Topics, SyncWriteFails(p, t) PROVE StepEffect
  BY <1>0, <1>9 DEF SyncWriteFails, Done, MemoryEffect, RequestEffect
<1>10. ASSUME NEW p \in Procs, SyncEnd(p) PROVE StepEffect
  <2>1. CASE p = Worker
    BY <1>0, <1>10, <2>1 DEF SyncEnd, TypeOK, MemoryEffect, RequestEffect, Procs
  <2>2. CASE p # Worker
    BY <1>0, <1>10, <2>2, ReturnEffect DEF SyncEnd, Procs
  <2> QED
    BY <2>1, <2>2
<1>11. CASE SyncACLs
  BY <1>0, <1>11 DEF SyncACLs, Forget, NoTopics, NoRows, TypeOK, MemoryEffect, RequestEffect, Procs
<1>12. CASE WorkerRetries
  <2>1. /\ ksnap' = [ksnap EXCEPT ![Worker] = NoTopics]
        /\ dsnap' = [dsnap EXCEPT ![Worker] = NoRows]
        /\ pc' = [pc EXCEPT ![Worker] = IF MoreAttempts THEN "list_kafka" ELSE "idle"]
        /\ UNCHANGED <<kafka, seen, db, nextId, req>>
    BY <1>12 DEF WorkerRetries, Forget
  <2> QED
    BY <1>0, <2>1 DEF NoTopics, NoRows, TypeOK, MemoryEffect, RequestEffect, Procs
<1>13. ASSUME NEW r \in Requests, NEW t \in Topics, NEW s \in Shapes, NEW d \in Descs,
              StartCreate(r, t, s, d)
       PROVE  StepEffect
  <2>0. SharedEffect
    BY <1>0, <1>13 DEF StartCreate
  <2>1. CASE db[t] # NoRow
    BY <1>13, <2>0, <2>1, ReturnEffect DEF StartCreate
  <2>2. CASE db[t] = NoRow
    <3>1. /\ pc' = [pc EXCEPT ![r] = "create_kafka"] /\ UNCHANGED <<ksnap, dsnap>>
          /\ req' = [req EXCEPT ![r] = [topic |-> t, shape |-> s, desc |-> d]]
      BY <1>13, <2>2 DEF StartCreate, CreateFirst
    <3>2. QED
      BY <2>0, <3>1 DEF TypeOK, MemoryEffect, RequestEffect, Procs
  <2> QED
    BY <2>1, <2>2
<1>14. ASSUME NEW r \in Requests, CreateInKafka(r) PROVE StepEffect
  <2>1. CASE kafka[req[r].topic] # Absent
    BY <1>0, <1>14, <2>1, ReturnEffect DEF CreateInKafka
  <2>2. CASE kafka[req[r].topic] = Absent
    <3>1. req[r].topic \in Topics /\ req[r].shape \in Shapes
      BY <1>14 DEF CreateInKafka, PhaseInv, Req
    <3>2. /\ pc' = [pc EXCEPT ![r] = "create_db"]
          /\ SetKafka(req[r].topic, req[r].shape)
          /\ UNCHANGED <<db, nextId, req, ksnap, dsnap>>
      BY <1>14, <2>2 DEF CreateInKafka
    <3>3. SharedEffect
      BY <3>1, <3>2 DEF SharedEffect
    <3>4. QED
      BY <3>2, <3>3 DEF SetKafka, TypeOK, MemoryEffect, RequestEffect, Procs
  <2> QED
    BY <2>1, <2>2
<1>15. ASSUME NEW r \in Requests, CreateInDB(r) PROVE StepEffect
  <2>1. /\ req[r].topic \in Topics /\ req[r].shape \in Shapes /\ req[r].desc \in Descs
        /\ <<req[r].topic, req[r].shape>> \in seen
    BY <1>15 DEF CreateInDB, PhaseInv, Req, SeenInv
  <2>2. InsertRow(req[r].topic, req[r].shape, req[r].desc) /\ UNCHANGED <<kafka, seen>>
    BY <1>15 DEF CreateInDB
  <2>3. SharedEffect
    BY <2>1, <2>2 DEF SharedEffect, TableEffect
  <2> QED
    BY <1>15, <2>3, ReturnEffect DEF CreateInDB
<1>16. ASSUME NEW r \in Requests, NEW t \in Topics, StartDelete(r, t) PROVE StepEffect
  <2>1. CASE kafka[t] = Absent
    BY <1>0, <1>16, <2>1, ReturnEffect DEF StartDelete
  <2>2. CASE kafka[t] # Absent
    <3>1. /\ pc' = [pc EXCEPT ![r] = "delete_find"] /\ SetKafka(t, Absent)
          /\ UNCHANGED <<db, nextId, ksnap, dsnap>>
          /\ \A q \in Requests \ {r} : req'[q] = req[q]
      BY <1>16, <2>2 DEF StartDelete, TypeOK
    <3>2. SharedEffect
      BY <3>1 DEF SharedEffect
    <3>3. QED
      BY <3>1, <3>2 DEF TypeOK, MemoryEffect, RequestEffect, Procs
  <2> QED
    BY <2>1, <2>2
<1>17. ASSUME NEW r \in Requests, DeleteFind(r) PROVE StepEffect
  <2>0. SharedEffect
    BY <1>0, <1>17 DEF DeleteFind
  <2>1. CASE db[req[r].topic] = NoRow
    BY <1>17, <2>0, <2>1, ReturnEffect DEF DeleteFind
  <2>2. CASE db[req[r].topic] # NoRow
    <3>1. /\ pc' = [pc EXCEPT ![r] = "delete_row"] /\ UNCHANGED <<req, ksnap>>
          /\ dsnap' = [dsnap EXCEPT ![r] =
                         [NoRows EXCEPT ![req[r].topic] = db[req[r].topic]]]
      BY <1>17, <2>2 DEF DeleteFind
    <3>2. QED
      BY <2>0, <3>1 DEF NoRows, TypeOK, MemoryEffect, RequestEffect, Procs
  <2> QED
    BY <2>1, <2>2
<1>18. ASSUME NEW r \in Requests, DeleteInDB(r) PROVE StepEffect
  <2>1. dsnap[r][req[r].topic] \in Row
    BY <1>18 DEF DeleteInDB, TypeOK, PhaseInv, Procs, Req
  <2>2. dsnap[r][req[r].topic].id \in Nat
    BY <2>1 DEF Row
  <2>3. DeleteRow(dsnap[r][req[r].topic].id) /\ UNCHANGED <<kafka, seen, nextId>>
    BY <1>18 DEF DeleteInDB
  <2>4. SharedEffect
    BY <2>2, <2>3 DEF SharedEffect, TableEffect
  <2> QED
    BY <1>18, <2>4, ReturnEffect DEF DeleteInDB
<1>19. ASSUME NEW r \in Requests, NEW t \in Topics, NEW d \in Descs, StartDescribe(r, t, d)
       PROVE  StepEffect
  <2>0. SharedEffect
    BY <1>0, <1>19 DEF StartDescribe
  <2>1. CASE db[t] = NoRow
    BY <1>19, <2>0, <2>1, ReturnEffect DEF StartDescribe
  <2>2. CASE db[t] # NoRow
    <3>1. /\ pc' = [pc EXCEPT ![r] = "save_desc"] /\ UNCHANGED ksnap
          /\ dsnap' = [dsnap EXCEPT ![r] = [NoRows EXCEPT ![t] = db[t]]]
          /\ \A q \in Requests \ {r} : req'[q] = req[q]
      BY <1>19, <2>2 DEF StartDescribe, TypeOK
    <3>2. QED
      BY <2>0, <3>1 DEF NoRows, TypeOK, MemoryEffect, RequestEffect, Procs
  <2> QED
    BY <2>1, <2>2
<1>20. ASSUME NEW r \in Requests, SaveDescription(r) PROVE StepEffect
  <2> DEFINE t   == req[r].topic
             row == [dsnap[r][t] EXCEPT !.desc = req[r].desc]
  <2>1. req[r] \in Req /\ dsnap[r][t] # NoRow
    BY <1>20 DEF SaveDescription, PhaseInv
  <2>2. t \in Topics /\ req[r].desc \in Descs
    BY <2>1 DEF Req
  <2>3. /\ dsnap[r][t] \in Row /\ dsnap[r][t].id \in KnownIds(t)
        /\ <<t, dsnap[r][t].shape>> \in seen
    <3>1. r \in Procs
      BY DEF Procs
    <3>2. dsnap[r][t] \in Row
      BY <2>1, <2>2, <3>1 DEF TypeOK
    <3>3. <<t, dsnap[r][t].shape>> \in seen
      BY <2>1, <2>2, <3>1 DEF SeenInv
    <3>4. QED
      BY <2>1, <2>2, <3>1, <3>2, <3>3, MemoryKnown
  <2>4. row \in Row /\ row.id = dsnap[r][t].id /\ row.shape = dsnap[r][t].shape
    BY <2>2, <2>3 DEF Row
  <2>5. SaveRow(t, row) /\ UNCHANGED <<kafka, seen, nextId>>
    BY <1>20 DEF SaveDescription
  <2>6. SharedEffect
    <3> HIDE DEF t, row
    <3>1. row.id \in KnownIds(t) /\ <<t, row.shape>> \in seen
      BY <2>3, <2>4 DEF t
    <3>2. TableEffect
      BY <2>2, <2>4, <2>5, <3>1 DEF TableEffect
    <3>3. QED
      BY <2>5, <3>2 DEF SharedEffect
  <2>7. PICK how : Return(r, how)
    BY <1>20 DEF SaveDescription
  <2> QED
    BY <2>6, <2>7, ReturnEffect
<1>21. ASSUME NEW r \in Requests, RequestFails(r) PROVE StepEffect
  BY <1>0, <1>21, ReturnEffect DEF RequestFails
<1>22. ASSUME NEW r \in Requests, CreateReplyLost(r) PROVE StepEffect
  <2>1. req[r].topic \in Topics /\ req[r].shape \in Shapes
    BY <1>22 DEF CreateReplyLost, PhaseInv, Req
  <2>2. SharedEffect
    BY <1>22, <2>1 DEF CreateReplyLost, SharedEffect
  <2> QED
    BY <1>22, <2>2, ReturnEffect DEF CreateReplyLost
<1>23. ASSUME NEW r \in Requests, NEW t \in Topics, DeleteReplyLost(r, t) PROVE StepEffect
  BY <1>23, ReturnEffect DEF DeleteReplyLost, SharedEffect
<1>24. ASSUME NEW t \in Topics, NEW x \in Shapes \cup {Absent}, ExternalChange(t, x)
       PROVE  StepEffect
  BY <1>24 DEF ExternalChange, SharedEffect, MemoryEffect, RequestEffect
<1>25. CASE Crash
  BY <1>0, <1>25 DEF Crash, NoTopics, NoRows, MemoryEffect, RequestEffect, Procs
<1>26. CASE UNCHANGED vars
  BY <1>0, <1>26 DEF vars, MemoryEffect, RequestEffect
<1>27. QED
  BY <1>1, <1>2, <1>3, <1>4, <1>5, <1>6, <1>7, <1>8, <1>9, <1>10, <1>11, <1>12, <1>13,
     <1>14, <1>15, <1>16, <1>17, <1>18, <1>19, <1>20, <1>21, <1>22, <1>23, <1>24, <1>25, <1>26
  DEF Next, WorkerStep, RequestStep, StartRequest, Failure, Apply, Procs

-----------------------------------------------------------------------------
(* Ids and shapes follow from the effect.                                     *)

\* What a statement leaves in the table: a row of before, a new row under the next
\* id (then nothing else changes), or a row under an id known for that topic.
RowsEffect ==
  /\ nextId' \in Nat /\ nextId' >= nextId
  /\ \A t \in Topics : db'[t] # NoRow =>
       \/ db'[t].id \in KnownIds(t)
       \/ /\ db'[t].id = nextId /\ nextId' = nextId + 1
          /\ \A u \in Topics \ {t} : db'[u] = db[u]
  /\ \A t \in Topics : db'[t] # NoRow =>
       db'[t] = db[t] \/ <<t, db'[t].shape>> \in seen

\* A row keeps an id that is known of its topic, or is the one new row, with the next id.
LEMMA TableRows ==
  ASSUME TypeInv, TableEffect
  PROVE  RowsEffect
<1> USE MemoryKnown
<1> USE DEF TypeInv, RowsEffect
<1>0. nextId \in Nat
  BY DEF TypeOK
<1>1. CASE UNCHANGED <<db, nextId>>
  BY <1>0, <1>1
<1>2. ASSUME NEW t \in Topics, NEW s \in Shapes, NEW d \in Descs,
             <<t, s>> \in seen, InsertRow(t, s, d)
      PROVE  RowsEffect
  <2>1. CASE CanInsert(t)
    <3>1. /\ db' = [db EXCEPT ![t] = [id |-> nextId, shape |-> s, desc |-> d]]
          /\ nextId' = nextId + 1 /\ db \in [Topics -> Row \cup {NoRow}]
      BY <1>2, <2>1 DEF InsertRow, TypeOK
    <3>2. QED
      BY <1>0, <1>2, <3>1
  <2>2. CASE ~CanInsert(t)
    BY <1>0, <1>2, <2>2 DEF InsertRow
  <2> QED
    BY <2>1, <2>2
<1>3. ASSUME UNCHANGED nextId, NEW t \in Topics, NEW row \in Row,
             row.id \in KnownIds(t), <<t, row.shape>> \in seen, SaveRow(t, row)
      PROVE  RowsEffect
  <2>1. CASE SaveFails(t, row)
    BY <1>0, <1>3, <2>1 DEF SaveRow
  <2>2. CASE ~SaveFails(t, row)
    <3> DEFINE new == [row EXCEPT !.id = IF db[t] = NoRow THEN row.id ELSE db[t].id]
    <3>1. new.shape = row.shape /\ new.id \in KnownIds(t)
      BY <1>3 DEF Row
    <3>2. db' = [db EXCEPT ![t] = new]
      BY <1>3, <2>2 DEF SaveRow
    <3> HIDE DEF new
    <3>3. db \in [Topics -> Row \cup {NoRow}]
      BY DEF TypeOK
    <3>4. QED
      BY <1>0, <1>3, <3>1, <3>2, <3>3
  <2> QED
    BY <2>1, <2>2
<1>4. ASSUME UNCHANGED nextId, NEW id \in Nat, DeleteRow(id)
      PROVE  RowsEffect
  BY <1>0, <1>4 DEF DeleteRow, TypeOK
<1> QED
  <2> HIDE DEF RowsEffect
  <2> QED
    BY <1>1, <1>2, <1>3, <1>4 DEF TableEffect

LEMMA StepIdInv ==
  ASSUME TypeInv, SeenInv, IdInv, [Next]_vars
  PROVE  IdInv'
<1>1. StepEffect
  BY StepHasEffect
<1>2. TypeInv'
  BY StepTypeInv
<1>3. /\ nextId \in Nat /\ nextId' \in Nat /\ nextId' >= nextId
      /\ \A t \in Topics : db'[t] # NoRow =>
           \/ db'[t].id \in KnownIds(t)
           \/ /\ db'[t].id = nextId /\ nextId' = nextId + 1
              /\ \A u \in Topics \ {t} : db'[u] = db[u]
  <2>1. CASE TableEffect
    BY <2>1, TableRows DEF TypeInv, TypeOK, RowsEffect
  <2>2. CASE UNCHANGED <<db, nextId>>
    BY <2>2, MemoryKnown DEF TypeInv, TypeOK
  <2> QED
    BY <1>1, <2>1, <2>2 DEF StepEffect, SharedEffect
<1>4. ASSUME NEW t \in Topics, NEW i \in KnownIds(t)'
      PROVE  \/ i \in KnownIds(t)
             \/ /\ i = nextId /\ nextId' = nextId + 1 /\ i = db'[t].id /\ db'[t] # NoRow
                /\ \A u \in Topics \ {t} : db'[u] = db[u]
  <2>1. PICK row \in ({db'[t]} \cup {dsnap'[p][t] : p \in Procs}) \ {NoRow} : i = row.id
    BY <1>4 DEF KnownIds
  <2>2. CASE row = db'[t]
    BY <1>3, <2>1, <2>2
  <2>3. ASSUME NEW p \in Procs, row = dsnap'[p][t] PROVE i \in KnownIds(t)
    BY <1>1, <2>1, <2>3, MemoryKnown DEF StepEffect, MemoryEffect
  <2> QED
    BY <2>1, <2>2, <2>3
<1>5. ASSUME NEW t \in Topics, NEW i \in KnownIds(t) PROVE i < nextId /\ i \in Nat
  BY <1>5 DEF IdInv, KnownIds, TypeInv, TypeOK, Row
<1>6. SUFFICES ASSUME NEW t \in Topics, NEW i \in KnownIds(t)'
               PROVE  i < nextId' /\ \A u \in Topics : i \in KnownIds(u)' => t = u
  BY DEF IdInv
<1>7. i < nextId'
  BY <1>3, <1>4, <1>5
<1>8. ASSUME NEW u \in Topics, i \in KnownIds(u)', t # u PROVE FALSE
  <2>1. CASE i \in KnownIds(t)
    <3>1. i < nextId /\ i \in Nat
      BY <1>5, <2>1
    <3>2. i \in KnownIds(u)
      BY <1>3, <1>4, <1>8, <3>1
    <3>3. QED
      BY <1>8, <2>1, <3>2 DEF IdInv
  <2>2. CASE i \notin KnownIds(t)
    <3>1. i = nextId /\ \A w \in Topics \ {t} : db'[w] = db[w]
      BY <1>4, <2>2
    <3>2. i \notin KnownIds(u)
      BY <1>3, <1>5, <3>1
    <3>3. db'[u] = db[u] /\ db'[u] # NoRow /\ i = db'[u].id
      BY <1>4, <1>8, <3>1, <3>2
    <3>4. QED
      BY <3>2, <3>3, MemoryKnown
  <2> QED
    BY <2>1, <2>2
<1> QED
  BY <1>7, <1>8

LEMMA StepSeenInv ==
  ASSUME TypeInv, SeenInv, [Next]_vars
  PROVE  SeenInv'
<1>1. StepEffect
  BY StepHasEffect
<1>2. seen \subseteq seen'
  BY <1>1 DEF StepEffect, SharedEffect, SetKafka
<1>3. ASSUME NEW t \in Topics, kafka'[t] # Absent PROVE <<t, kafka'[t]>> \in seen'
  BY <1>1, <1>3 DEF StepEffect, SharedEffect, SetKafka, SeenInv, TypeInv, TypeOK
<1>4. ASSUME NEW t \in Topics, db'[t] # NoRow PROVE <<t, db'[t].shape>> \in seen'
  <2>1. CASE TableEffect
    <3>1. db'[t] = db[t] \/ <<t, db'[t].shape>> \in seen
      BY <1>4, <2>1, TableRows DEF RowsEffect
    <3>2. QED
      BY <1>2, <1>4, <3>1 DEF SeenInv
  <2>2. CASE UNCHANGED db
    BY <1>2, <1>4, <2>2 DEF SeenInv
  <2> QED
    BY <1>1, <2>1, <2>2 DEF StepEffect, SharedEffect
<1>5. ASSUME NEW p \in Procs, NEW t \in Topics
      PROVE  /\ ksnap'[p][t] # Absent => <<t, ksnap'[p][t]>> \in seen'
             /\ dsnap'[p][t] # NoRow => <<t, dsnap'[p][t].shape>> \in seen'
  BY <1>1, <1>2 DEF StepEffect, MemoryEffect, SeenInv
<1>6. ASSUME NEW r \in Requests, pc'[r] = "create_db"
      PROVE  <<req'[r].topic, req'[r].shape>> \in seen'
  BY <1>1, <1>2, <1>6 DEF StepEffect, RequestEffect, SeenInv
<1> QED
  BY <1>3, <1>4, <1>5, <1>6 DEF SeenInv

LEMMA InitKnowledge == Init => SeenInv /\ IdInv
<1> SUFFICES ASSUME Init PROVE SeenInv /\ IdInv
  OBVIOUS
<1>1. \A t \in Topics : KnownIds(t) = {}
  BY DEF Init, KnownIds, NoRows, Procs
<1>2. IdInv
  BY <1>1 DEF IdInv
<1>3. SeenInv
  BY DEF Init, SeenInv, NoTopics, NoRows, Procs
<1> QED
  BY <1>2, <1>3

\* What the memory and the table know, with the types it needs.
KnowledgeInv == TypeInv /\ SeenInv /\ IdInv

LEMMA StepKnowledge == KnowledgeInv /\ [Next]_vars => KnowledgeInv'
  BY StepTypeInv, StepSeenInv, StepIdInv DEF KnowledgeInv

LEMMA Knowledge == Spec => []KnowledgeInv
<1>1. Init => KnowledgeInv
  BY InitTypeInv, InitKnowledge DEF KnowledgeInv
<1> QED
  BY <1>1, StepKnowledge, PTL DEF Spec

\* A row never shows a shape Kafka never had for that topic: neither a sync that
\* writes from a stale list, nor a save of an old row, nor a half-done CreateTopic
\* can put one into the table.
THEOREM RowsWereInKafkaAlways == Spec => []RowsWereInKafka
<1>1. KnowledgeInv => RowsWereInKafka
  BY DEF KnowledgeInv, SeenInv, RowsWereInKafka
<1> QED
  BY <1>1, Knowledge, PTL

\* Two topics never share a primary key, so a DELETE or UPDATE by the id of a row
\* read earlier touches the topic it is meant for and no other.
THEOREM OneTopicPerIdAlways == Spec => []OneTopicPerId
<1>1. KnowledgeInv => OneTopicPerId
  BY MemoryKnown DEF KnowledgeInv, IdInv, OneTopicPerId
<1> QED
  BY <1>1, Knowledge, PTL

-----------------------------------------------------------------------------
(* The table implements the catalogue, fairness apart.                        *)

\* A statement changes the entry of at most one topic.
LEMMA TableRecords ==
  ASSUME KnowledgeInv, TableEffect
  PROVE  \A t, u \in Topics : Entry(t)' # Entry(t) /\ Entry(u)' # Entry(u) => t = u
<1> USE DEF Entry
<1>1. CASE UNCHANGED <<db, nextId>>
  BY <1>1
<1>2. ASSUME NEW t \in Topics, NEW s \in Shapes, NEW d \in Descs, InsertRow(t, s, d)
      PROVE  \A u \in Topics \ {t} : db'[u] = db[u]
  BY <1>2 DEF InsertRow, KnowledgeInv, TypeInv, TypeOK
<1>3. ASSUME NEW t \in Topics, NEW row \in Row, SaveRow(t, row)
      PROVE  \A u \in Topics \ {t} : db'[u] = db[u]
  BY <1>3 DEF SaveRow, KnowledgeInv, TypeInv, TypeOK
<1>4. ASSUME NEW id \in Nat, DeleteRow(id),
             NEW t \in Topics, NEW u \in Topics, db'[t] # db[t], db'[u] # db[u]
      PROVE  t = u
  <2>1. db[t] # NoRow /\ db[t].id = id /\ db[u] # NoRow /\ db[u].id = id
    BY <1>4 DEF DeleteRow, KnowledgeInv, TypeInv, TypeOK
  <2> QED
    BY <2>1, MemoryKnown DEF KnowledgeInv, IdInv
<1> QED
  BY <1>1, <1>2, <1>3, <1>4 DEF TableEffect

\* The initial states are initial states of the catalogue.
LEMMA InitImplements == Init => Catalog!Init
  BY DEF Init, Catalog!Init, Entry, NoRows

\* Each step is a step of the catalogue, or stutters.
LEMMA StepImplements ==
  ASSUME KnowledgeInv, [Next]_vars
  PROVE  [Catalog!Next]_(Catalog!vars)
<1> DEFINE cat == [t \in Topics |-> Entry(t)]
<1>1. StepEffect
  BY StepHasEffect DEF KnowledgeInv
<1>2. ASSUME UNCHANGED <<db, nextId>>, NEW t \in Topics, NEW x \in Shapes \cup {Absent},
             SetKafka(t, x)
      PROVE  Catalog!Next
  <2>1. cat' = cat
    BY <1>2 DEF Entry
  <2>2. Catalog!Change(t, x)
    BY <1>2, <2>1 DEF Catalog!Change, SetKafka
  <2> QED
    BY <1>2, <2>2 DEF Catalog!Next
<1>3. ASSUME UNCHANGED <<kafka, seen>>, TableEffect
      PROVE  Catalog!Next \/ UNCHANGED Catalog!vars
  <2>1. CASE \A t \in Topics : Entry(t)' = Entry(t)
    <3>1. cat' = cat
      BY <2>1
    <3>2. QED
      BY <1>3, <3>1 DEF Catalog!vars
  <2>2. ASSUME NEW t \in Topics, Entry(t)' # Entry(t)
        PROVE  Catalog!Next
    <3>1. \A u \in Topics \ {t} : Entry(u)' = Entry(u)
      BY <1>3, <2>2, TableRecords
    <3>2. cat' = [cat EXCEPT ![t] = Entry(t)']
      BY <3>1
    <3>3. Entry(t)' \in Shapes \cup {Absent}
      BY StepTypeInv DEF KnowledgeInv, TypeInv, TypeOK, Entry, Row
    <3>4. Entry(t)' # Absent => <<t, Entry(t)'>> \in seen
      BY StepSeenInv, <1>3 DEF KnowledgeInv, SeenInv, Entry
    <3>5. Catalog!Record(t, Entry(t)')
      BY <1>3, <3>2, <3>4 DEF Catalog!Record
    <3>6. QED
      BY <3>3, <3>5 DEF Catalog!Next
  <2> QED
    BY <2>1, <2>2
<1> QED
  BY <1>1, <1>2, <1>3 DEF StepEffect, SharedEffect

\* The table implements the catalogue: whatever the interleaving of syncs, requests,
\* other administrators, failed calls and crashes, every step changes Kafka, or puts
\* something Kafka once had into one entry, or drops one entry.
THEOREM ImplementsCatalogSafely == Spec => Catalog!SafeSpec
<1>1. KnowledgeInv /\ [Next]_vars => [Catalog!Next]_(Catalog!vars)
  BY StepImplements
<1> QED
  BY <1>1, InitImplements, Knowledge, PTL DEF Spec, Catalog!SafeSpec
=============================================================================
