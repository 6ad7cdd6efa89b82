------------------------- MODULE TopicSyncCleanProofs -------------------------
(* What a synchronisation achieves when nothing comes between: it leaves the  *)
(* table as Kafka's list, and the users' descriptions in it.                  *)
EXTENDS TopicSyncProofs

USE SentinelsAssumption, BoundsAssumption

\* CleanInv of one process.
CleanAt(p) ==
  ~dirty[p] =>
    /\ pc[p] \in Syncing => ksnap[p] = kafka
    /\ pc[p] = "apply" => \A t \in Topics :
         IF t \in todo[p] THEN db[t] = dsnap[p][t] ELSE Entry(t) = kafka[t]

\* CleanInv says the same of each process by itself.
LEMMA CleanByProcess == CleanInv <=> \A p \in Procs : CleanAt(p)
  BY DEF CleanInv, CleanAt

\* A step that is none of p's and touches neither Kafka nor the table.
LEMMA QuietKeepsClean ==
  ASSUME NEW p \in Procs, CleanAt(p), UNCHANGED <<kafka, db>>,
         pc'[p] = pc[p], dirty'[p] = dirty[p],
         ksnap'[p] = ksnap[p], dsnap'[p] = dsnap[p], todo'[p] = todo[p]
  PROVE  CleanAt(p)'
  BY DEF CleanAt, Entry, Syncing

\* A step of another that does touch them makes p's sync dirty.
LEMMA DisturbedIsClean ==
  ASSUME NEW p \in Procs, NEW own, p \notin own, Disturb(own), pc'[p] = pc[p]
  PROVE  CleanAt(p)'
<1>1. pc[p] \in Syncing => dirty'[p]
  BY DEF Disturb
<1> QED
  BY <1>1 DEF CleanAt, Syncing

\* A process that is not in a synchronisation has nothing to remember.
LEMMA NotSyncingIsClean ==
  ASSUME NEW p \in Procs, pc'[p] \notin Syncing
  PROVE  CleanAt(p)'
  BY DEF CleanAt, Syncing

\* A request that returns is in no sync; the other processes stay where they are.
LEMMA ReturnLeaves ==
  ASSUME TypeInv, NEW r \in Requests, NEW how, Return(r, how)
  PROVE  /\ pc'[r] = "idle"
         /\ \A q \in Procs \ {r} :
              /\ pc'[q] = pc[q] /\ todo'[q] = todo[q]
              /\ ksnap'[q] = ksnap[q] /\ dsnap'[q] = dsnap[q]
  BY DEF TypeInv, TypeOK, Return, Forget, Procs

\* A request's step that returns keeps every sync clean, if it disturbs the
\* others whenever it touches Kafka or the table.
LEMMA ReturnKeepsClean ==
  ASSUME TypeInv, CleanInv, NEW r \in Requests, NEW how, Return(r, how),
         Disturb({r}) \/ UNCHANGED <<kafka, db, dirty>>
  PROVE  CleanInv'
<1>1. SUFFICES ASSUME NEW p \in Procs PROVE CleanAt(p)'
  BY DEF CleanInv, CleanAt
<1>2. CASE p = r
  BY <1>2, ReturnLeaves, NotSyncingIsClean DEF Syncing
<1>3. CASE p # r /\ Disturb({r})
  BY <1>3, ReturnLeaves, DisturbedIsClean
<1>4. CASE p # r /\ UNCHANGED <<kafka, db, dirty>>
  BY <1>4, ReturnLeaves, QuietKeepsClean, CleanByProcess
<1> QED
  BY <1>2, <1>3, <1>4

\* The same for a step of p that goes on outside a sync.
LEMMA MoveKeepsClean ==
  ASSUME TypeInv, CleanInv, NEW p \in Procs, NEW next, next \notin Syncing,
         pc' = [pc EXCEPT ![p] = next],
         \A q \in Procs \ {p} :
           todo'[q] = todo[q] /\ ksnap'[q] = ksnap[q] /\ dsnap'[q] = dsnap[q],
         Disturb({p}) \/ UNCHANGED <<kafka, db, dirty>>
  PROVE  CleanInv'
<1>1. SUFFICES ASSUME NEW q \in Procs PROVE CleanAt(q)'
  BY DEF CleanInv, CleanAt
<1>2. pc'[p] = next /\ \A u \in Procs \ {p} : pc'[u] = pc[u]
  BY DEF TypeInv, TypeOK
<1>3. CASE q = p
  BY <1>2, <1>3, NotSyncingIsClean
<1>4. CASE q # p /\ Disturb({p})
  BY <1>2, <1>4, DisturbedIsClean
<1>5. CASE q # p /\ UNCHANGED <<kafka, db, dirty>>
  BY <1>2, <1>5, QuietKeepsClean, CleanByProcess
<1> QED
  BY <1>3, <1>4, <1>5

\* A write of p's sync: topic t is handled, and what it changes in the table is t's row.
LEMMA WriteKeepsClean ==
  ASSUME TypeInv, CleanInv, NEW p \in Procs, NEW t \in Topics, Done(p, t), pc[p] = "apply",
         Disturb({p}) \/ UNCHANGED <<db, dirty>>,
         ~dirty[p] => /\ \A u \in Topics \ {t} : db'[u] = db[u]
                      /\ Entry(t)' = ksnap[p][t]
  PROVE  CleanInv'
<1>1. SUFFICES ASSUME NEW q \in Procs PROVE CleanAt(q)'
  BY DEF CleanInv, CleanAt
<1>2. /\ UNCHANGED <<kafka, pc, ksnap, dsnap>>
      /\ todo'[p] = todo[p] \ {t}
      /\ \A u \in Procs \ {p} : todo'[u] = todo[u]
  BY DEF Done, TypeInv, TypeOK
<1>3. CASE q # p /\ Disturb({p})
  BY <1>2, <1>3, DisturbedIsClean
<1>4. CASE q # p /\ UNCHANGED <<db, dirty>>
  BY <1>2, <1>4, QuietKeepsClean, CleanByProcess
<1>5. CASE q = p
  <2>1. dirty'[p] = dirty[p]
    BY DEF Disturb, TypeInv, TypeOK
  <2>2. CASE dirty[p]
    BY <1>5, <2>1, <2>2 DEF CleanAt
  <2>3. CASE ~dirty[p]
    <3>1. ksnap[p] = kafka
      BY <2>3, CleanByProcess DEF CleanAt, Syncing
    <3>2. \A u \in Topics : IF u \in todo[p] THEN db[u] = dsnap[p][u] ELSE Entry(u) = kafka[u]
      BY <2>3, CleanByProcess DEF CleanAt
    <3>3. ASSUME NEW u \in Topics
          PROVE  IF u \in todo'[p] THEN db'[u] = dsnap'[p][u] ELSE Entry(u)' = kafka'[u]
      <4>1. CASE u = t
        BY <1>2, <2>3, <3>1, <4>1
      <4>2. CASE u # t
        BY <1>2, <2>3, <3>2, <4>2 DEF Entry
      <4> QED
        BY <4>1, <4>2
    <3>4. ksnap'[p] = kafka'
      BY <1>2, <3>1
    <3>5. QED
      BY <1>5, <3>3, <3>4 DEF CleanAt
  <2> QED
    BY <2>2, <2>3
<1> QED
  BY <1>3, <1>4, <1>5

\* What p's sync knows of the topic it is about to handle, if nothing came between.
LEMMA CleanWriteSees ==
  ASSUME KnowledgeInv, CleanInv, NEW p \in Procs, NEW t \in Topics, IsNext(p, t), ~dirty[p]
  PROVE  /\ db[t] = dsnap[p][t] /\ ksnap[p] = kafka
         /\ ksnap[p][t] = Absent => db[t] # NoRow
<1>1. pc[p] = "apply" /\ t \in todo[p]
  BY DEF IsNext
<1>2. db[t] = dsnap[p][t] /\ ksnap[p] = kafka
  BY <1>1, CleanByProcess DEF CleanAt, Syncing
<1>3. ksnap[p][t] = Absent => dsnap[p][t] # NoRow
  BY <1>1 DEF KnowledgeInv, TypeInv, PhaseInv
<1> QED
  BY <1>2, <1>3

\* What a write of p's sync does to the table when nothing came between: it puts
\* Kafka's shape into t's row and keeps the rest of a row that was there.
LEMMA CleanWriteDoes ==
  ASSUME KnowledgeInv, CleanInv, NEW p \in Procs, NEW t \in Topics, Apply(p, t), ~dirty[p]
  PROVE  /\ \A u \in Topics \ {t} : db'[u] = db[u]
         /\ Entry(t)' = ksnap[p][t]
         /\ db[t] # NoRow /\ ksnap[p][t] # Absent =>
              db'[t] # NoRow /\ db'[t].desc = db[t].desc /\ db'[t].id = db[t].id
<1>0. /\ db \in [Topics -> Row \cup {NoRow}] /\ ksnap[p][t] \in Shapes \cup {Absent}
      /\ nextId \in Nat
  BY DEF KnowledgeInv, TypeInv, TypeOK
<1>1. CASE SyncInsert(p, t)
  <2>1. db[t] = NoRow /\ ksnap[p][t] \in Shapes
    BY <1>0, <1>1, CleanWriteSees DEF SyncInsert
  <2>2. db' = [db EXCEPT ![t] = [id |-> nextId, shape |-> ksnap[p][t], desc |-> NoDesc]]
    BY <1>1, <2>1 DEF SyncInsert, InsertRow, CanInsert
  <2>3. db'[t] \in Row
    BY <1>0, <2>1, <2>2 DEF Row
  <2> QED
    BY <1>0, <2>1, <2>2, <2>3 DEF Entry
<1>2. CASE SyncUpdate(p, t)
  <2>1. /\ db[t] # NoRow /\ db[t] \in Row /\ ksnap[p][t] \in Shapes
        /\ SaveRow(t, Refreshed(p, t)) /\ Refreshed(p, t) = [db[t] EXCEPT !.shape = ksnap[p][t]]
    BY <1>0, <1>2, CleanWriteSees DEF SyncUpdate, Refreshed
  <2> DEFINE new == [db[t] EXCEPT !.shape = ksnap[p][t]]
  <2>2. /\ new \in Row /\ new.id = db[t].id /\ new.desc = db[t].desc
        /\ new.shape = ksnap[p][t] /\ [new EXCEPT !.id = db[t].id] = new
    BY <2>1 DEF Row
  <2>3. SaveRow(t, new)
    BY <2>1
  <2> HIDE DEF new
  <2>4. db' = [db EXCEPT ![t] = [new EXCEPT !.id = db[t].id]]
    BY <2>1, <2>2, <2>3 DEF SaveRow, SaveFails
  <2>5. db' = [db EXCEPT ![t] = new]
    BY <2>2, <2>4
  <2> QED
    BY <1>0, <2>1, <2>2, <2>5 DEF Entry
<1>3. CASE SyncKeep(p, t)
  <2>1. db[t] # NoRow /\ db[t].shape = ksnap[p][t] /\ db' = db
    BY <1>3, CleanWriteSees DEF SyncKeep, NeedsSave
  <2> QED
    BY <2>1 DEF Entry
<1>4. CASE SyncDelete(p, t)
  <2>1. db[t] # NoRow /\ ksnap[p][t] = Absent /\ DeleteRow(db[t].id)
    BY <1>4, CleanWriteSees DEF SyncDelete
  <2>2. ASSUME NEW u \in Topics \ {t}, db[u] # NoRow PROVE db[u].id # db[t].id
    BY <2>1, <2>2, MemoryKnown DEF KnowledgeInv, IdInv
  <2> QED
    BY <2>1, <2>2 DEF DeleteRow, Entry
<1> QED
  BY <1>1, <1>2, <1>3, <1>4 DEF Apply

LEMMA StepCleanInv ==
  ASSUME KnowledgeInv, CleanInv, [Next]_vars
  PROVE  CleanInv'
<1>0. TypeInv
  BY DEF KnowledgeInv
<1> USE <1>0 DEF shared, locals, counts
<1>1. CASE Tick
  BY <1>1, MoveKeepsClean DEF Tick, Procs, Syncing
<1>2. ASSUME NEW r \in Requests, StartSync(r) PROVE CleanInv'
  BY <1>2, MoveKeepsClean DEF StartSync, Procs, Syncing
<1>3. ASSUME NEW p \in Procs, ListKafka(p) PROVE CleanInv'
  <2>1. SUFFICES ASSUME NEW q \in Procs PROVE CleanAt(q)'
    BY DEF CleanInv, CleanAt
  <2>2. CASE q = p
    BY <1>3, <2>2 DEF ListKafka, CleanAt, TypeInv, TypeOK
  <2>3. CASE q # p
    <3>1. /\ UNCHANGED <<kafka, db>> /\ pc'[q] = pc[q] /\ dirty'[q] = dirty[q]
          /\ ksnap'[q] = ksnap[q] /\ dsnap'[q] = dsnap[q] /\ todo'[q] = todo[q]
      BY <1>3, <2>3 DEF ListKafka, TypeInv, TypeOK
    <3> QED
      BY <3>1, QuietKeepsClean, CleanByProcess
  <2> QED
    BY <2>2, <2>3
<1>4. ASSUME NEW p \in Procs, ListDB(p) PROVE CleanInv'
  <2>1. SUFFICES ASSUME NEW q \in Procs PROVE CleanAt(q)'
    BY DEF CleanInv, CleanAt
  <2>2. CASE q = p
    <3>1. /\ UNCHANGED <<kafka, db, ksnap, dirty>>
          /\ dsnap'[p] = db /\ todo'[p] = ToHandle(p)
      BY <1>4 DEF ListDB, TypeInv, TypeOK
    <3>2. ~dirty[p] => ksnap[p] = kafka
      BY <1>4, CleanByProcess DEF ListDB, CleanAt, Syncing
    <3> QED
      BY <2>2, <3>1, <3>2 DEF CleanAt, ToHandle, Entry
  <2>3. CASE q # p
    <3>1. /\ UNCHANGED <<kafka, db>> /\ pc'[q] = pc[q] /\ dirty'[q] = dirty[q]
          /\ ksnap'[q] = ksnap[q] /\ dsnap'[q] = dsnap[q] /\ todo'[q] = todo[q]
      BY <1>4, <2>3 DEF ListDB, TypeInv, TypeOK
    <3> QED
      BY <3>1, QuietKeepsClean, CleanByProcess
  <2> QED
    BY <2>2, <2>3
<1>5. ASSUME NEW p \in Procs, NEW t \in Topics, Apply(p, t) PROVE CleanInv'
  <2>1. /\ Done(p, t) /\ pc[p] = "apply" /\ IsNext(p, t)
        /\ Disturb({p}) \/ UNCHANGED <<db, dirty>>
    BY <1>5 DEF Apply, SyncInsert, SyncUpdate, SyncKeep, SyncDelete, IsNext
  <2>2. ~dirty[p] => (\A u \in Topics \ {t} : db'[u] = db[u]) /\ Entry(t)' = ksnap[p][t]
    BY <1>5, CleanWriteDoes
  <2> QED
    BY <2>1, <2>2, WriteKeepsClean
<1>6. ASSUME NEW p \in Procs, NEW t \in Topics, SyncWriteFails(p, t) PROVE CleanInv'
  <2>1. SUFFICES ASSUME NEW q \in Procs PROVE CleanAt(q)'
    BY DEF CleanInv, CleanAt
  <2>2. /\ UNCHANGED <<kafka, db, pc, ksnap, dsnap>> /\ dirty'[p] = TRUE
        /\ \A u \in Procs \ {p} : dirty'[u] = dirty[u] /\ todo'[u] = todo[u]
    BY <1>6 DEF SyncWriteFails, Done, TypeInv, TypeOK
  <2>3. CASE q = p
    BY <2>2, <2>3 DEF CleanAt
  <2>4. CASE q # p
    BY <2>2, <2>4, QuietKeepsClean, CleanByProcess
  <2> QED
    BY <2>3, <2>4
<1>7. ASSUME NEW p \in Procs, SyncEnd(p) PROVE CleanInv'
  <2>1. CASE p = Worker
    BY <1>7, <2>1, MoveKeepsClean DEF SyncEnd, Procs, Syncing
  <2>2. CASE p # Worker
    BY <1>7, <2>2, ReturnKeepsClean DEF SyncEnd, Procs
  <2> QED
    BY <2>1, <2>2
<1>8. ASSUME SyncACLs \/ WorkerRetries PROVE CleanInv'
  <2>1. /\ UNCHANGED <<kafka, db, dirty>>
        /\ \E next \in {"idle", "list_kafka"} : pc' = [pc EXCEPT ![Worker] = next]
        /\ \A q \in Procs \ {Worker} :
             todo'[q] = todo[q] /\ ksnap'[q] = ksnap[q] /\ dsnap'[q] = dsnap[q]
    BY <1>8 DEF SyncACLs, WorkerRetries, Forget, TypeInv, TypeOK
  <2>2. PICK next \in {"idle", "list_kafka"} : pc' = [pc EXCEPT ![Worker] = next]
    BY <2>1
  <2>3. next \notin Syncing /\ Worker \in Procs
    BY DEF Syncing, Procs
  <2> QED
    BY <2>1, <2>2, <2>3, MoveKeepsClean
<1>9. ASSUME NEW r \in Requests, NEW t \in Topics, NEW s \in Shapes, NEW d \in Descs,
             StartCreate(r, t, s, d)
      PROVE  CleanInv'
  <2>1. CASE db[t] # NoRow
    BY <1>9, <2>1, ReturnKeepsClean DEF StartCreate
  <2>2. CASE db[t] = NoRow
    BY <1>9, <2>2, MoveKeepsClean DEF StartCreate, CreateFirst, Procs, Syncing
  <2> QED
    BY <2>1, <2>2
<1>10. ASSUME NEW r \in Requests, CreateInKafka(r) PROVE CleanInv'
  <2>1. CASE kafka[req[r].topic] # Absent
    BY <1>10, <2>1, ReturnKeepsClean DEF CreateInKafka
  <2>2. CASE kafka[req[r].topic] = Absent
    BY <1>10, <2>2, MoveKeepsClean DEF CreateInKafka, Procs, Syncing
  <2> QED
    BY <2>1, <2>2
<1>11. ASSUME NEW r \in Requests, NEW t \in Topics, StartDelete(r, t) PROVE CleanInv'
  <2>1. CASE kafka[t] = Absent
    BY <1>11, <2>1, ReturnKeepsClean DEF StartDelete
  <2>2. CASE kafka[t] # Absent
    BY <1>11, <2>2, MoveKeepsClean DEF StartDelete, Procs, Syncing
  <2> QED
    BY <2>1, <2>2
<1>12. ASSUME NEW r \in Requests, DeleteFind(r) PROVE CleanInv'
  <2>1. CASE db[req[r].topic] = NoRow
    BY <1>12, <2>1, ReturnKeepsClean DEF DeleteFind
  <2>2. CASE db[req[r].topic] # NoRow
    <3>1. /\ pc' = [pc EXCEPT ![r] = "delete_row"] /\ UNCHANGED <<kafka, db, dirty>>
          /\ \A q \in Procs \ {r} :
               todo'[q] = todo[q] /\ ksnap'[q] = ksnap[q] /\ dsnap'[q] = dsnap[q]
      BY <1>12, <2>2 DEF DeleteFind, TypeInv, TypeOK
    <3>2. "delete_row" \notin Syncing /\ r \in Procs
      BY DEF Syncing, Procs
    <3> QED
      BY <3>1, <3>2, MoveKeepsClean
  <2> QED
    BY <2>1, <2>2
<1>13. ASSUME NEW r \in Requests, NEW t \in Topics, NEW d \in Descs, StartDescribe(r, t, d)
       PROVE  CleanInv'
  <2>1. CASE db[t] = NoRow
    BY <1>13, <2>1, ReturnKeepsClean DEF StartDescribe
  <2>2. CASE db[t] # NoRow
    <3>1. /\ pc' = [pc EXCEPT ![r] = "save_desc"] /\ UNCHANGED <<kafka, db, dirty>>
          /\ \A q \in Procs \ {r} :
               todo'[q] = todo[q] /\ ksnap'[q] = ksnap[q] /\ dsnap'[q] = dsnap[q]
      BY <1>13, <2>2 DEF StartDescribe, TypeInv, TypeOK
    <3>2. "save_desc" \notin Syncing /\ r \in Procs
      BY DEF Syncing, Procs
    <3> QED
      BY <3>1, <3>2, MoveKeepsClean
  <2> QED
    BY <2>1, <2>2
<1>14. ASSUME NEW r \in Requests,
              \/ CreateInDB(r) \/ DeleteInDB(r) \/ SaveDescription(r)
              \/ RequestFails(r) \/ CreateReplyLost(r)
              \/ \E t \in Topics : DeleteReplyLost(r, t)
       PROVE  CleanInv'
  <2>1. (\E how : Return(r, how)) /\ (Disturb({r}) \/ UNCHANGED <<kafka, db, dirty>>)
    BY <1>14 DEF CreateInDB, DeleteInDB, SaveDescription, RequestFails, CreateReplyLost,
                 DeleteReplyLost
  <2> QED
    BY <2>1, ReturnKeepsClean
<1>15. ASSUME NEW t \in Topics, NEW x \in Shapes \cup {Absent}, ExternalChange(t, x)
       PROVE  CleanInv'
  <2>1. SUFFICES ASSUME NEW q \in Procs PROVE CleanAt(q)'
    BY DEF CleanInv, CleanAt
  <2> QED
    BY <1>15, DisturbedIsClean DEF ExternalChange
<1>16. CASE Crash
  BY <1>16 DEF Crash, CleanInv, Syncing
<1>17. CASE UNCHANGED vars
  <2>1. SUFFICES ASSUME NEW q \in Procs PROVE CleanAt(q)'
    BY DEF CleanInv, CleanAt
  <2> QED
    BY <1>17, QuietKeepsClean, CleanByProcess DEF vars
<1> QED
  BY <1>1, <1>2, <1>3, <1>4, <1>5, <1>6, <1>7, <1>8, <1>9, <1>10, <1>11, <1>12, <1>13,
     <1>14, <1>15, <1>16, <1>17
  DEF Next, WorkerStep, RequestStep, StartRequest, Failure, Procs

-----------------------------------------------------------------------------
(* The properties.                                                            *)

LEMMA StepIInv == IInv /\ [Next]_vars => IInv'
<1> SUFFICES ASSUME IInv, [Next]_vars PROVE IInv'
  OBVIOUS
<1>1. KnowledgeInv /\ CleanInv
  BY DEF IInv, KnowledgeInv, TypeInv
<1>2. KnowledgeInv' /\ CleanInv'
  BY <1>1, StepKnowledge, StepCleanInv
<1> QED
  BY <1>2 DEF IInv, KnowledgeInv, TypeInv

\* The inductive invariant: types, phases, ids, what Kafka was seen to have, and what
\* an undisturbed sync holds in memory.
THEOREM Safety == Spec => []IInv
<1>1. Init => IInv
  <2>1. Init => CleanInv
    BY DEF Init, CleanInv, Syncing
  <2> QED
    BY <2>1, InitTypeInv, InitKnowledge DEF IInv, TypeInv
<1> QED
  BY <1>1, StepIInv, PTL DEF Spec

\* A synchronisation that ran to its end with nothing in between, and no failed write,
\* has made the table Kafka's list, for the worker's syncTopics and the API's SyncTopics.
THEOREM CleanSyncMirrorsAlways == Spec => []CleanSyncMirrors
<1>1. IInv => CleanSyncMirrors
  BY DEF IInv, CleanInv, CleanSyncMirrors, Mirrors
<1> QED
  BY <1>1, Safety, PTL

\* A topic leaves the worklist of a sync in that sync's own write, or without any
\* write to the table.
LEMMA TopicHandled ==
  ASSUME TypeInv, [Next]_vars, NEW p \in Procs, NEW t \in Topics,
         pc[p] = "apply", t \in todo[p] \ todo'[p]
  PROVE  Apply(p, t) \/ UNCHANGED db
<1> USE DEF TypeInv, shared, locals, counts
<1>1. ASSUME NEW q \in Procs, NEW u \in Topics, Apply(q, u) PROVE Apply(p, t)
  <2>1. Done(q, u)
    BY <1>1 DEF Apply, SyncInsert, SyncUpdate, SyncKeep, SyncDelete
  <2>2. q = p /\ u = t
    BY <2>1 DEF Done, TypeOK
  <2> QED
    BY <1>1, <2>2
<1>2. ASSUME NEW r \in Requests, CreateInDB(r) \/ DeleteInDB(r) \/ SaveDescription(r)
      PROVE  FALSE
  <2>1. pc[r] # "apply" /\ \E how : Return(r, how)
    BY <1>2 DEF CreateInDB, DeleteInDB, SaveDescription
  <2> QED
    BY <2>1, ReturnLeaves
<1>3. ASSUME NEW q \in Procs, ListKafka(q) \/ ListDB(q) \/ SyncEnd(q) PROVE UNCHANGED db
  BY <1>3 DEF ListKafka, ListDB, SyncEnd
<1>4. CASE Tick \/ SyncACLs \/ WorkerRetries \/ Crash \/ UNCHANGED vars
  BY <1>4 DEF Tick, SyncACLs, WorkerRetries, Crash, vars
<1>5. ASSUME NEW r \in Requests,
             \/ StartSync(r) \/ CreateInKafka(r) \/ DeleteFind(r)
             \/ RequestFails(r) \/ CreateReplyLost(r)
      PROVE  UNCHANGED db
  BY <1>5 DEF StartSync, CreateInKafka, DeleteFind, RequestFails, CreateReplyLost
<1>6. ASSUME NEW r \in Requests, NEW u \in Topics,
             \/ StartDelete(r, u) \/ DeleteReplyLost(r, u)
             \/ \E d \in Descs : StartDescribe(r, u, d)
             \/ \E s \in Shapes, d \in Descs : StartCreate(r, u, s, d)
      PROVE  UNCHANGED db
  BY <1>6 DEF StartDelete, DeleteReplyLost, StartDescribe, StartCreate
<1>7. ASSUME NEW u \in Topics, NEW x \in Shapes \cup {Absent}, ExternalChange(u, x)
      PROVE  UNCHANGED db
  BY <1>7 DEF ExternalChange
<1>8. ASSUME NEW q \in Procs, NEW u \in Topics, SyncWriteFails(q, u) PROVE UNCHANGED db
  BY <1>8 DEF SyncWriteFails
<1> QED
  BY <1>1, <1>2, <1>3, <1>4, <1>5, <1>6, <1>7, <1>8
  DEF Next, WorkerStep, RequestStep, StartRequest, Failure, Procs

\* A synchronisation nobody disturbs keeps the description and the id of every row
\* whose topic Kafka still has.
THEOREM CleanSyncKeepsDescriptionsAlways == Spec => CleanSyncKeepsDescriptions
<1> DEFINE Keeps ==
      \A p \in Procs, t \in Topics :
        /\ pc[p] = "apply" /\ ~dirty[p] /\ t \in todo[p] \ todo'[p]
        /\ db[t] # NoRow /\ ksnap[p][t] # Absent
        => /\ db'[t] # NoRow
           /\ db'[t].desc = db[t].desc /\ db'[t].id = db[t].id
<1>1. IInv /\ [Next]_vars => [Keeps]_vars
  <2>1. SUFFICES ASSUME IInv, [Next]_vars, NEW p \in Procs, NEW t \in Topics,
                        pc[p] = "apply", ~dirty[p], t \in todo[p] \ todo'[p],
                        db[t] # NoRow, ksnap[p][t] # Absent
                 PROVE  /\ db'[t] # NoRow
                        /\ db'[t].desc = db[t].desc /\ db'[t].id = db[t].id
    OBVIOUS
  <2>2. KnowledgeInv /\ CleanInv /\ TypeInv
    BY <2>1 DEF IInv, KnowledgeInv, TypeInv
  <2>3. Apply(p, t) \/ UNCHANGED db
    BY <2>1, <2>2, TopicHandled
  <2> QED
    BY <2>1, <2>2, <2>3, CleanWriteDoes
<1> QED
  BY <1>1, Safety, PTL DEF Spec, CleanSyncKeepsDescriptions

\* A request leaves DeleteTopic, other than by a failure or with the server, by its own
\* steps.
LEMMA DeletionEnds ==
  ASSUME TypeInv, [Next]_vars, NEW r \in Requests,
         pc[r] \in {"delete_find", "delete_row"}, pc'[r] = "idle", result'[r] \in {"ok", "error", "exists"}
  PROVE  DeleteFind(r) \/ DeleteInDB(r)
<1> USE DEF TypeInv, shared, locals, counts
<1>1. \A how : \A q \in Requests : Return(q, how) => q = r /\ result'[r] = how
  BY DEF Return, Forget, TypeOK
<1>2. \A q \in Procs : pc' = [pc EXCEPT ![q] = "idle"] => q = r
  BY DEF TypeOK, Procs
<1>3. \A next : \A q \in Procs : pc' = [pc EXCEPT ![q] = next] => q = r
  BY DEF TypeOK, Procs
<1>4. ~UNCHANGED pc
  OBVIOUS
<1>5. ASSUME NEW q \in Procs, ListKafka(q) \/ ListDB(q) \/ SyncEnd(q) \/ \E t \in Topics : Apply(q, t) \/ SyncWriteFails(q, t)
      PROVE  FALSE
  BY <1>1, <1>3, <1>4, <1>5 DEF ListKafka, ListDB, SyncEnd, Apply, SyncInsert, SyncUpdate, SyncKeep, SyncDelete,
     SyncWriteFails, Done, IsNext, Procs
<1>6. CASE Tick \/ SyncACLs \/ WorkerRetries \/ Crash \/ UNCHANGED vars
  <2>0. Worker # r
    BY DEF PhaseInv
  <2>1. Worker \in Procs /\ Worker # r /\ ~UNCHANGED vars
    BY <1>4, <2>0 DEF Procs, vars
  <2>2. ~Crash
    BY DEF Crash, TypeOK
  <2> QED
    BY <1>3, <1>6, <2>1, <2>2 DEF Tick, SyncACLs, WorkerRetries, Forget
<1>7. ASSUME NEW q \in Requests,
             \/ StartSync(q) \/ CreateInKafka(q) \/ CreateInDB(q) \/ SaveDescription(q)
             \/ RequestFails(q) \/ CreateReplyLost(q)
             \/ \E t \in Topics :
                  \/ StartDelete(q, t) \/ DeleteReplyLost(q, t)
                  \/ \E d \in Descs : StartDescribe(q, t, d)
                  \/ \E s \in Shapes, d \in Descs : StartCreate(q, t, s, d)
      PROVE  FALSE
  <2>1. ~StartSync(q) /\ ~CreateInKafka(q) /\ ~CreateInDB(q) /\ ~SaveDescription(q)
    BY <1>1, <1>3 DEF StartSync, CreateInKafka, CreateInDB, SaveDescription, Procs
  <2>2. ~RequestFails(q) /\ ~CreateReplyLost(q)
    BY <1>1 DEF RequestFails, CreateReplyLost
  <2>3. \A t \in Topics : ~StartDelete(q, t) /\ ~DeleteReplyLost(q, t)
    BY <1>1, <1>3 DEF StartDelete, DeleteReplyLost, Procs
  <2>4. \A t \in Topics, d \in Descs : ~StartDescribe(q, t, d)
    BY <1>1, <1>3 DEF StartDescribe, Procs
  <2>5. \A t \in Topics, s \in Shapes, d \in Descs : ~StartCreate(q, t, s, d)
    BY <1>1, <1>3 DEF StartCreate, Procs
  <2> QED
    BY <1>7, <2>1, <2>2, <2>3, <2>4, <2>5
<1>8. ASSUME NEW t \in Topics, NEW x \in Shapes \cup {Absent}, ExternalChange(t, x) PROVE FALSE
  BY <1>4, <1>8 DEF ExternalChange
<1>9. ASSUME NEW q \in Requests, DeleteFind(q) \/ DeleteInDB(q) PROVE DeleteFind(r) \/ DeleteInDB(r)
  BY <1>1, <1>3, <1>9 DEF DeleteFind, DeleteInDB, Procs
<1> QED
  BY <1>5, <1>6, <1>7, <1>8, <1>9
  DEF Next, WorkerStep, RequestStep, StartRequest, Failure, Procs

\* DeleteTopic after Kafka has deleted the topic: whatever a synchronisation, another
\* request or another administrator does between its two statements, the request succeeds,
\* and what the table has of the topic then is not the row that it found.
THEOREM DeleteIsIdempotentAlways == Spec => DeleteIsIdempotent
<1> DEFINE Ends ==
      \A r \in Requests :
        pc[r] \in {"delete_find", "delete_row"} /\ result'[r] \in {"ok", "error", "exists"}
          /\ pc'[r] = "idle"
        => /\ result'[r] = "ok"
           /\ LET t == req[r].topic IN
               db'[t] # NoRow => dsnap[r][t] # NoRow /\ db'[t].id # dsnap[r][t].id
<1>1. TypeInv /\ [Next]_vars => [Ends]_vars
  <2> SUFFICES ASSUME TypeInv, [Next]_vars, NEW r \in Requests,
                      pc[r] \in {"delete_find", "delete_row"}, pc'[r] = "idle",
                      result'[r] \in {"ok", "error", "exists"}
               PROVE  /\ result'[r] = "ok"
                      /\ db'[req[r].topic] # NoRow =>
                           /\ dsnap[r][req[r].topic] # NoRow
                           /\ db'[req[r].topic].id # dsnap[r][req[r].topic].id
    OBVIOUS
  <2>1. req[r].topic \in Topics
    BY DEF TypeInv, TypeOK, PhaseInv, Req
  <2>2. CASE DeleteFind(r)
    <3>1. db[req[r].topic] = NoRow /\ Return(r, "ok") /\ db' = db
      BY <2>2 DEF DeleteFind, AlreadyGone, TypeInv, TypeOK, Procs, shared
    <3> QED
      BY <3>1 DEF Return, TypeInv, TypeOK
  <2>3. CASE DeleteInDB(r)
    <3>1. DeleteRow(dsnap[r][req[r].topic].id) /\ Return(r, "ok") /\ dsnap[r][req[r].topic] # NoRow
      BY <2>3 DEF DeleteInDB, TypeInv, PhaseInv
    <3>2. db'[req[r].topic] # NoRow => db'[req[r].topic].id # dsnap[r][req[r].topic].id
      BY <2>1, <3>1 DEF DeleteRow
    <3> QED
      BY <3>1, <3>2 DEF Return, TypeInv, TypeOK
  <2> QED
    BY <2>2, <2>3, DeletionEnds
<1>2. Spec => []TypeInv
  BY InitTypeInv, StepTypeInv, PTL DEF Spec
<1> QED
  BY <1>1, <1>2, PTL DEF Spec, DeleteIsIdempotent

====
