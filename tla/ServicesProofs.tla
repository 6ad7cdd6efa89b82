----------------------------- MODULE ServicesProofs -----------------------------
(***************************************************************************)
(* For any number of clusters, keytabs, users, consumer groups and         *)
(* concurrent requests.                                                    *)
(*                                                                         *)
(* Clusters: a Kerberos cluster has its files, the table cluster behaves,  *)
(* for the rest of the program, as ClusterRows says, and two clusters      *)
(* share a name only by requests that overlapped.  A row may be deleted    *)
(* and put back by an update that read it before, so that the invariant    *)
(* speaks of the rows that updates hold as well as of those in the table;  *)
(* and a creation must carry the keytab's bytes from before the insert to  *)
(* the files.                                                              *)
(*                                                                         *)
(* SCRAM users: a row has its credential, and a synchronisation leaves out *)
(* no user.  The first needs what a request that no other overlaps knows   *)
(* of its user, the second what SyncUsers still misses.                    *)
(*                                                                         *)
(* The lag report: a lag covers what was waiting and a backlog has an age, *)
(* from what each of the calls read against what is there by now.          *)
(***************************************************************************)
EXTENDS MCServices, TLAPS

\* The files of c are there, are being written, or could not be written.
Safe(c) == Usable(c) \/ Filing(c) \/ c \in broken

\* What the requests hold at each step.
JobOK(r) ==
  /\ cpc[r] \in {"prepare", "insert", "save"} => job[r].row \in Rows
  /\ cpc[r] = "prepare" => job[r].keytab \in Keytabs
  /\ cpc[r] = "insert" /\ job[r].row.kerberos => job[r].data /\ job[r].keytab \in Keytabs
  /\ cpc[r] \in {"saveConf", "saveKeytab", "dropTemp"} =>
       job[r].id \in Ids /\ job[r].data /\ job[r].keytab \in Keytabs
  /\ cpc[r] = "save" => job[r].id \in Ids /\ (job[r].row.kerberos => Safe(job[r].id))

ClustersInv == TypeOK /\ (\A r \in Requests : JobOK(r)) /\ KeytabSurvives

-----------------------------------------------------------------------------
LEMMA ClustersInit ==
  ASSUME ClustersAssumption, Init
  PROVE  ClustersInv
<1>. USE DEF ClustersAssumption
<1>1. TypeOK
  BY DEF Init, TypeOK, Empty, Jobs, NoJob, Steps
<1>2. \A r \in Requests : JobOK(r)
  BY DEF Init, JobOK
<1>3. KeytabSurvives
  BY DEF Init, KeytabSurvives, Existing
<1>. QED BY <1>1, <1>2, <1>3 DEF ClustersInv

\* The other requests, when only r goes on and no files are lost.
LEMMA OthersStay ==
  ASSUME ClustersInv, NEW r \in Requests, JobOK(r)',
         \A d \in Requests \ {r} : cpc'[d] = cpc[d] /\ job'[d] = job[d],
         \A c \in Ids : Safe(c) => Safe(c)'
  PROVE  \A d \in Requests : JobOK(d)'
<1>. SUFFICES ASSUME NEW d \in Requests \ {r} PROVE JobOK(d)'
  OBVIOUS
<1>1. JobOK(d) /\ cpc'[d] = cpc[d] /\ job'[d] = job[d]
  BY DEF ClustersInv
<1>. QED BY <1>1 DEF JobOK

\* A request that is not writing files changes none, and no other does.
LEMMA SafeElsewhere ==
  ASSUME ClustersInv, NEW r \in Requests, UNCHANGED <<files, broken>>,
         cpc[r] \notin {"saveConf", "saveKeytab"},
         \A d \in Requests \ {r} : cpc'[d] = cpc[d] /\ job'[d] = job[d]
  PROVE  \A c \in Ids : Safe(c) => Safe(c)'
  BY DEF Safe, Usable, Filing

\* Rows that are as they were still have their files.
LEMMA RowsStay ==
  ASSUME ClustersInv, \A c \in Ids : Safe(c) => Safe(c)',
         \A c \in Ids : cluster'[c] \in {cluster[c], NoRow}
  PROVE  KeytabSurvives'
  BY DEF ClustersInv, KeytabSurvives, Safe, Existing

-----------------------------------------------------------------------------
\* A request that answers, or fails, from a step that writes no file.
LEMMA FinishStep ==
  ASSUME ClustersAssumption, ClustersInv, NEW r \in Requests, Finish(r),
         cpc[r] \notin {"saveConf", "saveKeytab"},
         UNCHANGED <<cluster, used, files, verified, saved, broken, clusterFaults>>,
         temp' \in [Keytabs -> 0..Empty]
  PROVE  ClustersInv'
<1>1. \A d \in Requests \ {r} : cpc'[d] = cpc[d] /\ job'[d] = job[d]
  BY DEF Finish, ClustersInv, TypeOK
<1>2. \A c \in Ids : Safe(c) => Safe(c)'
  BY <1>1, SafeElsewhere
<1>3. cpc'[r] = "idle"
  BY DEF Finish, ClustersInv, TypeOK
<1>4. JobOK(r)'
  BY <1>3 DEF JobOK
<1>5. TypeOK'
  BY DEF Finish, ClustersInv, TypeOK, Jobs, NoJob, Steps, ClustersAssumption
<1>6. KeytabSurvives'
  BY <1>2, RowsStay
<1>. QED BY <1>1, <1>2, <1>4, <1>5, <1>6, OthersStay DEF ClustersInv

\* Uploads, deletions, expiry: only the store of keytabs changes.
LEMMA StoreStep ==
  ASSUME ClustersAssumption, ClustersInv, temp' \in [Keytabs -> 0..Empty],
         UNCHANGED <<cluster, used, files, cpc, job, verified, saved, broken, clusterFaults>>
  PROVE  ClustersInv'
<1>1. TypeOK'
  BY DEF ClustersInv, TypeOK
<1>2. \A c \in Ids : Safe(c) => Safe(c)'
  BY DEF Safe, Usable, Filing
<1>3. \A r \in Requests : JobOK(r)'
  BY <1>2 DEF ClustersInv, JobOK
<1>4. KeytabSurvives'
  BY <1>2, RowsStay
<1>. QED BY <1>1, <1>3, <1>4 DEF ClustersInv

LEMMA KeytabStep ==
  ASSUME ClustersAssumption, ClustersInv,
         \/ \E k \in Keytabs : UploadKeytab(k) \/ DeleteTempKeytab(k)
         \/ Sweep \/ Tick
  PROVE  ClustersInv'
<1>. temp \in [Keytabs -> 0..Empty] /\ KeytabTTL \in Nat
  BY DEF ClustersInv, TypeOK, ClustersAssumption
<1>1. ASSUME NEW k \in Keytabs, UploadKeytab(k) \/ DeleteTempKeytab(k)
      PROVE  temp' \in [Keytabs -> 0..Empty]
  BY <1>1 DEF UploadKeytab, DeleteTempKeytab, Empty
<1>2. CASE Sweep
  BY <1>2, StoreStep DEF Sweep, Empty
<1>3. CASE Tick
  <2>1. temp' \in [Keytabs -> 0..Empty]
    BY <1>3 DEF Tick, Held, Empty
  <2>. QED BY <1>3, <2>1, StoreStep DEF Tick
<1>4. ASSUME NEW k \in Keytabs, UploadKeytab(k) \/ DeleteTempKeytab(k)
      PROVE  ClustersInv'
  BY <1>1, <1>4, StoreStep DEF UploadKeytab, DeleteTempKeytab
<1>. QED BY <1>2, <1>3, <1>4

-----------------------------------------------------------------------------
LEMMA BeginCreateStep ==
  ASSUME ClustersAssumption, ClustersInv, NEW r \in Requests, NEW n \in Names,
         NEW k \in Keytabs \cup {NoKeytab}, BeginCreate(r, n, k)
  PROVE  ClustersInv'
<1>. DEFINE seen == IF clusterFaults' = clusterFaults THEN Existing ELSE {}
            new  == [name |-> n, kerberos |-> k # NoKeytab]
            j    == [NoJob EXCEPT !.row = new, !.keytab = k, !.seen = seen]
            step == IF k = NoKeytab THEN "insert" ELSE "prepare"
<1>1. /\ cpc[r] = "idle" /\ cpc' = [cpc EXCEPT ![r] = step] /\ job' = [job EXCEPT ![r] = j]
      /\ UNCHANGED <<cluster, used, files, temp, verified, saved, broken>>
  BY DEF BeginCreate, Go
<1>2. clusterFaults' \in 0..MaxClusterFaults
  BY DEF BeginCreate, Fault, ClustersInv, TypeOK, ClustersAssumption
<1>3. new \in Rows /\ (new.kerberos => k \in Keytabs) /\ (k # NoKeytab => k \in Keytabs)
  BY DEF Rows
<1>4. seen \in SUBSET Ids
  BY DEF Existing
<1>. HIDE DEF seen
<1>5. /\ j \in Jobs /\ j.row = new /\ j.keytab = k
  BY <1>3, <1>4 DEF NoJob, Jobs
<1>. HIDE DEF j
<1>6. TypeOK'
  BY <1>1, <1>2, <1>5 DEF ClustersInv, TypeOK, Steps
<1>7. \A d \in Requests \ {r} : cpc'[d] = cpc[d] /\ job'[d] = job[d]
  BY <1>1 DEF ClustersInv, TypeOK
<1>8. \A c \in Ids : Safe(c) => Safe(c)'
  BY <1>1, <1>7, SafeElsewhere
<1>9. cpc'[r] = step /\ job'[r] = j
  BY <1>1 DEF ClustersInv, TypeOK
<1>10. JobOK(r)'
  <2>1. CASE k = NoKeytab
    <3>1. k \notin Keytabs
      BY <2>1 DEF ClustersAssumption
    <3>2. cpc'[r] = "insert" /\ job'[r].row \in Rows /\ ~job'[r].row.kerberos
      BY <1>3, <1>5, <1>9, <2>1, <3>1
    <3>. QED BY <3>2 DEF JobOK
  <2>2. CASE k # NoKeytab
    <3>1. cpc'[r] = "prepare" /\ job'[r].row \in Rows /\ job'[r].keytab \in Keytabs
      BY <1>3, <1>5, <1>9, <2>2
    <3>. QED BY <3>1 DEF JobOK
  <2>. QED BY <2>1, <2>2
<1>11. KeytabSurvives'
  BY <1>1, <1>8, RowsStay
<1>. QED BY <1>6, <1>7, <1>8, <1>10, <1>11, OthersStay DEF ClustersInv

\* The bytes are taken before anything else is done.
LEMMA PrepareStep ==
  ASSUME ClustersAssumption, ClustersInv, NEW r \in Requests, Prepare(r)
  PROVE  ClustersInv'
<1>1. cpc[r] = "prepare" /\ UNCHANGED <<cluster, used, files, temp, verified, saved, broken, clusterFaults>>
  BY DEF Prepare
<1>2. CASE Finish(r)
  BY <1>1, <1>2, FinishStep DEF ClustersInv, TypeOK
<1>3. CASE Go(r, "insert") /\ job' = [job EXCEPT ![r].data = TRUE]
  <2>1. \A d \in Requests \ {r} : cpc'[d] = cpc[d] /\ job'[d] = job[d]
    BY <1>3 DEF Go, ClustersInv, TypeOK
  <2>2. \A c \in Ids : Safe(c) => Safe(c)'
    BY <1>1, <2>1, SafeElsewhere
  <2>3. job[r] \in Jobs /\ job' = [job EXCEPT ![r] = [job[r] EXCEPT !.data = TRUE]]
    BY <1>3 DEF ClustersInv, TypeOK
  <2>. DEFINE j == [job[r] EXCEPT !.data = TRUE]
  <2>4. j \in Jobs /\ j.row = job[r].row /\ j.keytab = job[r].keytab /\ j.data
    BY <2>3 DEF Jobs
  <2>. HIDE DEF j
  <2>5. TypeOK' /\ cpc'[r] = "insert" /\ job'[r] = j
    BY <1>1, <1>3, <2>3, <2>4 DEF Go, ClustersInv, TypeOK, Steps, j
  <2>6. JobOK(r)'
    BY <1>1, <2>4, <2>5 DEF JobOK, ClustersInv
  <2>7. KeytabSurvives'
    BY <1>1, <2>2, RowsStay
  <2>. QED BY <2>1, <2>2, <2>5, <2>6, <2>7, OthersStay DEF ClustersInv
<1>. QED BY <1>2, <1>3 DEF Prepare

\* A Kerberos row is inserted by a request that goes on to its files.
LEMMA InsertStep ==
  ASSUME ClustersAssumption, ClustersInv, NEW r \in Requests, InsertRow(r)
  PROVE  ClustersInv'
<1>1. PICK c \in FreshIds :
        /\ cluster' = [cluster EXCEPT ![c] = job[r].row]
        /\ used' = used \cup {c}
        /\ verified' = [verified EXCEPT ![c] = job[r].seen]
        /\ IF job[r].row.kerberos
           THEN Go(r, "saveConf") /\ job' = [job EXCEPT ![r].id = c]
           ELSE Finish(r)
  BY DEF InsertRow
<1>2. cpc[r] = "insert" /\ UNCHANGED <<files, temp, saved, broken, clusterFaults>>
  BY DEF InsertRow
<1>3. c \in Ids /\ job[r] \in Jobs /\ job[r].row \in Rows /\ job[r].seen \in SUBSET Ids
  BY <1>2 DEF ClustersInv, TypeOK, JobOK, FreshIds, Jobs
<1>4. \A d \in Requests \ {r} : cpc'[d] = cpc[d] /\ job'[d] = job[d]
  BY <1>1 DEF Go, Finish, ClustersInv, TypeOK
<1>5. \A d \in Ids : Safe(d) => Safe(d)'
  BY <1>2, <1>4, SafeElsewhere
<1>6. /\ cluster' \in [Ids -> Rows \cup {NoRow}] /\ used' \in SUBSET Ids
      /\ verified' \in [Ids -> SUBSET Ids]
  BY <1>1, <1>3 DEF ClustersInv, TypeOK
<1>7. \A d \in Ids \ {c} : cluster'[d] = cluster[d]
  BY <1>1 DEF ClustersInv, TypeOK
<1>8. cluster'[c] = job[r].row
  BY <1>1, <1>3 DEF ClustersInv, TypeOK
<1>9. CASE job[r].row.kerberos
  <2>. DEFINE j == [job[r] EXCEPT !.id = c]
  <2>1. cpc' = [cpc EXCEPT ![r] = "saveConf"] /\ job' = [job EXCEPT ![r] = j]
    BY <1>1, <1>9 DEF Go, ClustersInv, TypeOK
  <2>2. j \in Jobs /\ j.id = c /\ j.keytab = job[r].keytab /\ j.data = job[r].data
    BY <1>3 DEF Jobs
  <2>. HIDE DEF j
  <2>3. TypeOK' /\ cpc'[r] = "saveConf" /\ job'[r] = j
    BY <1>2, <1>6, <2>1, <2>2 DEF ClustersInv, TypeOK, Steps
  <2>4. JobOK(r)'
    BY <1>2, <1>3, <1>9, <2>2, <2>3 DEF JobOK, ClustersInv
  <2>5. Safe(c)'
    BY <2>2, <2>3 DEF Safe, Filing
  <2>6. KeytabSurvives'
    BY <1>5, <1>7, <2>5 DEF ClustersInv, KeytabSurvives, Existing, Safe
  <2>. QED BY <1>4, <1>5, <2>3, <2>4, <2>6, OthersStay DEF ClustersInv
<1>10. CASE ~job[r].row.kerberos
  <2>1. Finish(r)
    BY <1>1, <1>10
  <2>2. TypeOK' /\ cpc'[r] = "idle"
    BY <1>2, <1>6, <2>1 DEF Finish, ClustersInv, TypeOK, Steps, NoJob, Jobs
  <2>3. JobOK(r)'
    BY <2>2 DEF JobOK
  <2>4. KeytabSurvives'
    BY <1>5, <1>7, <1>8, <1>10 DEF ClustersInv, KeytabSurvives, Existing, Safe
  <2>. QED BY <1>4, <1>5, <2>2, <2>3, <2>4, OthersStay DEF ClustersInv
<1>. QED BY <1>9, <1>10

-----------------------------------------------------------------------------
(* The files                                                                *)

\* A request goes from one step of the files to the next.
LEMMA FileStep ==
  ASSUME ClustersAssumption, ClustersInv, NEW r \in Requests,
         cpc[r] \in {"saveConf", "saveKeytab"}, NEW step \in {"saveKeytab", "dropTemp"},
         Go(r, step), files' \in [Ids -> {"none", "conf", "complete"}],
         broken' \in SUBSET Ids, clusterFaults' \in 0..MaxClusterFaults,
         UNCHANGED <<cluster, used, temp, job, verified, saved>>,
         \A c \in Ids : Safe(c) => Safe(c)'
  PROVE  ClustersInv'
<1>1. TypeOK' /\ cpc'[r] = step
  BY DEF Go, ClustersInv, TypeOK, Steps
<1>2. \A d \in Requests \ {r} : cpc'[d] = cpc[d] /\ job'[d] = job[d]
  BY DEF Go, ClustersInv, TypeOK
<1>3. JobOK(r)'
  BY <1>1 DEF ClustersInv, JobOK
<1>4. KeytabSurvives'
  BY RowsStay
<1>. QED BY <1>1, <1>2, <1>3, <1>4, OthersStay DEF ClustersInv

LEMMA SaveStep ==
  ASSUME ClustersAssumption, ClustersInv, NEW r \in Requests,
         SaveConf(r) \/ SaveKeytab(r) \/ SaveFails(r)
  PROVE  ClustersInv'
<1>. DEFINE c == job[r].id
<1>1. cpc[r] \in {"saveConf", "saveKeytab"}
  BY DEF SaveConf, SaveKeytab, SaveFails
<1>2. c \in Ids /\ job[r].data
  BY <1>1 DEF ClustersInv, JobOK
<1>. HIDE DEF c
<1>3. UNCHANGED <<cluster, used, temp, job, verified, saved>>
  BY DEF SaveConf, SaveKeytab, SaveFails
<1>8. c' = c
  BY <1>3 DEF c
<1>4. CASE SaveConf(r)
  <2>1. /\ Go(r, "saveKeytab") /\ files' = [files EXCEPT ![c] = "conf"]
        /\ UNCHANGED <<broken, clusterFaults>>
    BY <1>4 DEF SaveConf, c
  <2>2. cpc'[r] = "saveKeytab" /\ \A d \in Requests \ {r} : cpc'[d] = cpc[d]
    BY <2>1 DEF Go, ClustersInv, TypeOK
  <2>3. \A i \in Ids : Filing(i) => Filing(i)'
    BY <1>3, <2>2 DEF Filing
  <2>4. Safe(c)'
    BY <1>3, <2>2 DEF Safe, Filing, c
  <2>5. \A i \in Ids \ {c} : files'[i] = files[i]
    BY <2>1 DEF ClustersInv, TypeOK
  <2>6. \A i \in Ids \ {c} : Safe(i) => Safe(i)'
    BY <2>1, <2>3, <2>5 DEF Safe, Usable
  <2>7. \A i \in Ids : Safe(i) => Safe(i)'
    BY <2>4, <2>6, <1>8
  <2>. QED BY <1>1, <1>2, <1>3, <2>1, <2>7, FileStep DEF ClustersInv, TypeOK
<1>5. CASE SaveKeytab(r)
  <2>1. /\ Go(r, "dropTemp") /\ files' = [files EXCEPT ![c] = "complete"]
        /\ UNCHANGED <<broken, clusterFaults>>
    BY <1>2, <1>5 DEF SaveKeytab, HasData, c
  <2>2. \A d \in Requests \ {r} : cpc'[d] = cpc[d]
    BY <2>1 DEF Go, ClustersInv, TypeOK
  <2>3. files'[c] = "complete"
    BY <1>2, <2>1 DEF ClustersInv, TypeOK
  <2>4. \A i \in Ids \ {c} : Filing(i) => Filing(i)'
    BY <1>3, <2>2 DEF Filing, c
  <2>5. \A i \in Ids \ {c} : files'[i] = files[i]
    BY <2>1 DEF ClustersInv, TypeOK
  <2>6. \A i \in Ids : Safe(i) => Safe(i)'
    BY <2>1, <2>3, <2>4, <2>5 DEF Safe, Usable
  <2>. QED BY <1>1, <1>2, <1>3, <2>1, <2>6, FileStep DEF ClustersInv, TypeOK
<1>6. CASE SaveFails(r)
  <2>1. Go(r, "dropTemp") /\ broken' = broken \cup {c} /\ files' = files
    BY <1>6 DEF SaveFails, c
  <2>2. clusterFaults' \in 0..MaxClusterFaults
    BY <1>6 DEF SaveFails, Fault, ClustersInv, TypeOK, ClustersAssumption
  <2>3. \A d \in Requests \ {r} : cpc'[d] = cpc[d]
    BY <2>1 DEF Go, ClustersInv, TypeOK
  <2>4. \A i \in Ids \ {c} : Filing(i) => Filing(i)'
    BY <1>3, <2>3 DEF Filing, c
  <2>5. \A i \in Ids : Safe(i) => Safe(i)'
    BY <2>1, <2>4 DEF Safe, Usable
  <2>. QED BY <1>1, <1>2, <1>3, <2>1, <2>2, <2>5, FileStep DEF ClustersInv, TypeOK
<1>. QED BY <1>4, <1>5, <1>6

LEMMA EndStep ==
  ASSUME ClustersAssumption, ClustersInv, NEW r \in Requests, CreationFails(r) \/ DropTemp(r)
  PROVE  ClustersInv'
<1>1. CASE CreationFails(r)
  BY <1>1, FinishStep DEF CreationFails, ClustersInv, TypeOK
<1>2. CASE DropTemp(r)
  <2>1. Empty \in 0..Empty /\ temp \in [Keytabs -> 0..Empty]
    BY DEF ClustersInv, TypeOK, Empty, ClustersAssumption
  <2>2. temp' \in [Keytabs -> 0..Empty]
    BY <1>2, <2>1 DEF DropTemp
  <2>. QED BY <1>2, <2>2, FinishStep DEF DropTemp
<1>. QED BY <1>1, <1>2

-----------------------------------------------------------------------------
(* Updates, deletions, restarts                                             *)

\* A row that is read has its files, and keeps them until it is saved.
LEMMA BeginUpdateStep ==
  ASSUME ClustersAssumption, ClustersInv, NEW r \in Requests, NEW c \in Ids, NEW n \in Names,
         BeginUpdate(r, c, n)
  PROVE  ClustersInv'
<1>. DEFINE new == [cluster[c] EXCEPT !.name = n]
            j   == [NoJob EXCEPT !.id = c, !.row = new]
<1>1. /\ cpc[r] = "idle" /\ c \in Existing
      /\ cpc' = [cpc EXCEPT ![r] = "save"] /\ job' = [job EXCEPT ![r] = j]
      /\ UNCHANGED <<cluster, used, files, temp, verified, saved, broken, clusterFaults>>
  BY DEF BeginUpdate, Go
<1>2. cluster[c] \in Rows
  BY <1>1 DEF Existing, ClustersInv, TypeOK
<1>3. new \in Rows /\ new.kerberos = cluster[c].kerberos
  BY <1>2 DEF Rows
<1>. HIDE DEF new
<1>4. j \in Jobs /\ j.id = c /\ j.row = new
  BY <1>3 DEF NoJob, Jobs
<1>. HIDE DEF j
<1>5. TypeOK' /\ cpc'[r] = "save" /\ job'[r] = j
  BY <1>1, <1>4 DEF ClustersInv, TypeOK, Steps
<1>6. \A d \in Requests \ {r} : cpc'[d] = cpc[d] /\ job'[d] = job[d]
  BY <1>1 DEF ClustersInv, TypeOK
<1>7. \A d \in Ids : Safe(d) => Safe(d)'
  BY <1>1, <1>6, SafeElsewhere
<1>8. new.kerberos => Safe(c)
  BY <1>1, <1>3 DEF ClustersInv, KeytabSurvives, Safe
<1>9. new.kerberos => Safe(c)'
  BY <1>7, <1>8
<1>10. JobOK(r)'
  BY <1>3, <1>4, <1>5, <1>9 DEF JobOK
<1>11. KeytabSurvives'
  BY <1>1, <1>7, RowsStay
<1>. QED BY <1>5, <1>6, <1>7, <1>10, <1>11, OthersStay DEF ClustersInv

LEMMA SaveRowStep ==
  ASSUME ClustersAssumption, ClustersInv, NEW r \in Requests, SaveRow(r)
  PROVE  ClustersInv'
<1>. DEFINE c == job[r].id
<1>1. /\ c \in Ids /\ job[r].row \in Rows
      /\ job[r].row.kerberos => Safe(c)
  BY DEF SaveRow, ClustersInv, JobOK
<1>2. /\ cluster' = [cluster EXCEPT ![c] = job[r].row] /\ saved' = saved \cup {c}
      /\ Finish(r) /\ cpc[r] = "save"
      /\ UNCHANGED <<used, files, temp, verified, broken, clusterFaults>>
  BY DEF SaveRow
<1>. HIDE DEF c
<1>3. TypeOK' /\ cpc'[r] = "idle"
  BY <1>1, <1>2 DEF Finish, ClustersInv, TypeOK, Steps, NoJob, Jobs
<1>4. \A d \in Requests \ {r} : cpc'[d] = cpc[d] /\ job'[d] = job[d]
  BY <1>2 DEF Finish, ClustersInv, TypeOK
<1>5. \A d \in Ids : Safe(d) => Safe(d)'
  BY <1>2, <1>4, SafeElsewhere
<1>6. JobOK(r)'
  BY <1>3 DEF JobOK
<1>7. \A d \in Ids \ {c} : cluster'[d] = cluster[d]
  BY <1>2 DEF ClustersInv, TypeOK
<1>8. cluster'[c] = job[r].row
  BY <1>1, <1>2 DEF ClustersInv, TypeOK
<1>9. KeytabSurvives'
  BY <1>1, <1>5, <1>7, <1>8 DEF ClustersInv, KeytabSurvives, Existing, Safe
<1>. QED BY <1>3, <1>4, <1>5, <1>6, <1>9, OthersStay DEF ClustersInv

LEMMA DeleteStep ==
  ASSUME ClustersAssumption, ClustersInv, NEW c \in Ids, DeleteCluster(c)
  PROVE  ClustersInv'
<1>1. /\ cluster' = [cluster EXCEPT ![c] = NoRow]
      /\ UNCHANGED <<used, files, temp, cpc, job, verified, saved, broken, clusterFaults>>
  BY DEF DeleteCluster
<1>2. TypeOK'
  BY <1>1 DEF ClustersInv, TypeOK
<1>3. \A d \in Ids : Safe(d) => Safe(d)'
  BY <1>1 DEF Safe, Usable, Filing
<1>4. \A r \in Requests : JobOK(r)'
  BY <1>1, <1>3 DEF ClustersInv, JobOK
<1>5. KeytabSurvives'
  BY <1>1, <1>3, RowsStay DEF ClustersInv, TypeOK
<1>. QED BY <1>2, <1>4, <1>5 DEF ClustersInv

\* What a restart cuts off among its files is noted as broken.
LEMMA RestartStep ==
  ASSUME ClustersAssumption, ClustersInv, Restart
  PROVE  ClustersInv'
<1>. DEFINE cut == {q \in Requests : cpc[q] \in {"saveConf", "saveKeytab"}}
<1>1. /\ temp' = [k \in Keytabs |-> Empty] /\ cpc' = [r \in Requests |-> "idle"]
      /\ job' = [r \in Requests |-> NoJob]
      /\ broken' = broken \cup {job[r].id : r \in cut}
      /\ UNCHANGED <<cluster, used, files, verified, saved>>
  BY DEF Restart
<1>2. clusterFaults' \in 0..MaxClusterFaults
  BY DEF Restart, Fault, ClustersInv, TypeOK, ClustersAssumption
<1>3. \A q \in cut : job[q].id \in Ids
  BY DEF ClustersInv, JobOK
<1>4. broken' \in SUBSET Ids
  BY <1>1, <1>3 DEF ClustersInv, TypeOK
<1>5. NoJob \in Jobs /\ Empty \in 0..Empty
  BY DEF NoJob, Jobs, Empty, ClustersAssumption
<1>6. TypeOK'
  BY <1>1, <1>2, <1>4, <1>5 DEF ClustersInv, TypeOK, Steps
<1>7. \A c \in Ids : Safe(c) => Safe(c)'
  BY <1>1 DEF Safe, Usable, Filing
<1>8. \A r \in Requests : JobOK(r)'
  BY <1>1 DEF JobOK
<1>9. KeytabSurvives'
  BY <1>1, <1>7, RowsStay
<1>. QED BY <1>6, <1>8, <1>9 DEF ClustersInv

-----------------------------------------------------------------------------
LEMMA ClustersInvStep ==
  ASSUME ClustersAssumption, ClustersInv, [Next]_clusterVars
  PROVE  ClustersInv'
<1>1. ASSUME NEW r \in Requests, RequestStep(r) PROVE ClustersInv'
  <2>1. ASSUME NEW n \in Names, NEW k \in Keytabs \cup {NoKeytab}, BeginCreate(r, n, k)
        PROVE  ClustersInv'
    BY <2>1, BeginCreateStep
  <2>2. ASSUME NEW c \in Ids, NEW n \in Names, BeginUpdate(r, c, n)
        PROVE  ClustersInv'
    BY <2>2, BeginUpdateStep
  <2>3. Prepare(r) \/ InsertRow(r) \/ SaveRow(r) => ClustersInv'
    BY PrepareStep, InsertStep, SaveRowStep
  <2>4. SaveConf(r) \/ SaveKeytab(r) \/ SaveFails(r) => ClustersInv'
    BY SaveStep
  <2>5. CreationFails(r) \/ DropTemp(r) => ClustersInv'
    BY EndStep
  <2>. QED BY <1>1, <2>1, <2>2, <2>3, <2>4, <2>5 DEF RequestStep
<1>2. CASE (\E k \in Keytabs : UploadKeytab(k) \/ DeleteTempKeytab(k)) \/ Sweep \/ Tick
  BY <1>2, KeytabStep
<1>3. CASE UNCHANGED clusterVars
  BY <1>3, StoreStep DEF clusterVars, ClustersInv, TypeOK
<1>. QED BY <1>1, <1>2, <1>3, DeleteStep, RestartStep DEF Next

\* CreateCluster, UpdateCluster: a Kerberos cluster of which no write failed has its files
\* once its creation has ended, whatever becomes of the keytab it was created from.
THEOREM KeytabSurvivesAlways ==
  Spec => []KeytabSurvives
<1>1. Init => ClustersInv
  BY ClustersInit, ClustersAssumption
<1>2. ClustersInv /\ [Next]_clusterVars => ClustersInv'
  BY ClustersInvStep, ClustersAssumption
<1>3. ClustersInv => KeytabSurvives
  BY DEF ClustersInv
<1>. QED BY <1>1, <1>2, <1>3, PTL DEF Spec

-----------------------------------------------------------------------------
(* The table cluster as the rest of the program sees it                     *)

Reading == [r \in Requests |-> IF cpc[r] = "save" THEN job[r].id ELSE NoId]

LEMMA RowsAtFirst ==
  ASSUME Init
  PROVE  Abstract!RowsInit
<1>1. Existing = {} /\ used = {}
  BY DEF Init, Existing
<1>2. Reading = [r \in Requests |-> NoId]
  BY DEF Init, Reading
<1>. QED BY <1>1, <1>2 DEF Abstract!RowsInit, Reading

\* Steps of a request that touch no row and are not part of an update.
LEMMA ReadingStays ==
  ASSUME ClustersInv, NEW r \in Requests, cpc[r] # "save", cpc'[r] # "save",
         \A d \in Requests \ {r} : cpc'[d] = cpc[d] /\ job'[d] = job[d]
  PROVE  Reading' = Reading
  BY DEF Reading

\* A step that leaves the rows, the ids given and what updates hold is a stutter of ClusterRows.
LEMMA RowsStutter ==
  ASSUME Reading' = Reading, UNCHANGED <<cluster, used>>
  PROVE  UNCHANGED Abstract!rowVars
<1>1. Existing' = Existing
  BY DEF Existing
<1>. QED BY <1>1 DEF Abstract!rowVars, Reading

\* A creation touches the abstract table at its INSERT only.
LEMMA CreationStutters ==
  ASSUME ClustersInv, NEW r \in Requests,
         \/ \E n \in Names, k \in Keytabs \cup {NoKeytab} : BeginCreate(r, n, k)
         \/ Prepare(r) \/ CreationFails(r)
         \/ SaveConf(r) \/ SaveKeytab(r) \/ SaveFails(r) \/ DropTemp(r)
  PROVE  UNCHANGED Abstract!rowVars
<1>1. UNCHANGED <<cluster, used>>
  BY DEF BeginCreate, Prepare, CreationFails, SaveConf, SaveKeytab, SaveFails, DropTemp
<1>2. cpc[r] # "save"
  BY DEF BeginCreate, Prepare, CreationFails, SaveConf, SaveKeytab, SaveFails, DropTemp
<1>3. /\ \E step \in Steps \ {"save"} : cpc' = [cpc EXCEPT ![r] = step]
      /\ \/ job' = job
         \/ \E j : job' = [job EXCEPT ![r] = j]
  <2>1. CASE \E n \in Names, k \in Keytabs \cup {NoKeytab} : BeginCreate(r, n, k)
    BY <2>1 DEF BeginCreate, Go, Steps
  <2>2. CASE Prepare(r)
    BY <2>2 DEF Prepare, Go, Finish, Steps
  <2>3. CASE CreationFails(r) \/ DropTemp(r)
    BY <2>3 DEF CreationFails, DropTemp, Finish, Steps
  <2>4. CASE SaveConf(r) \/ SaveKeytab(r) \/ SaveFails(r)
    BY <2>4 DEF SaveConf, SaveKeytab, SaveFails, Go, Steps
  <2>. QED BY <2>1, <2>2, <2>3, <2>4
<1>4. cpc'[r] # "save" /\ \A d \in Requests \ {r} : cpc'[d] = cpc[d] /\ job'[d] = job[d]
  BY <1>3 DEF ClustersInv, TypeOK
<1>. QED BY <1>1, <1>2, <1>4, ReadingStays, RowsStutter

\* The INSERT is the abstract one: its id has never been given.
LEMMA InsertInserts ==
  ASSUME ClustersAssumption, ClustersInv, NEW r \in Requests, InsertRow(r)
  PROVE  \E c \in Ids : Abstract!Insert(c)
<1>1. PICK c \in FreshIds :
        /\ cluster' = [cluster EXCEPT ![c] = job[r].row] /\ used' = used \cup {c}
        /\ \/ Go(r, "saveConf") /\ job' = [job EXCEPT ![r].id = c]
           \/ Finish(r)
  BY DEF InsertRow
<1>2. cpc[r] = "insert" /\ job[r].row \in Rows /\ NoRow \notin Rows
  BY DEF InsertRow, ClustersInv, JobOK, ClustersAssumption, Rows
<1>3. cpc'[r] # "save" /\ \A d \in Requests \ {r} : cpc'[d] = cpc[d] /\ job'[d] = job[d]
  BY <1>1 DEF Go, Finish, ClustersInv, TypeOK
<1>4. Reading' = Reading
  BY <1>2, <1>3, ReadingStays
<1>5. c \in Ids \ used /\ Existing' = Existing \cup {c}
  BY <1>1, <1>2 DEF FreshIds, Existing, ClustersInv, TypeOK
<1>. QED BY <1>1, <1>4, <1>5 DEF Abstract!Insert, Reading

\* UpdateCluster's read of the row begins to hold its id.
LEMMA UpdateReads ==
  ASSUME ClustersInv, NEW r \in Requests, NEW c \in Ids, NEW n \in Names, BeginUpdate(r, c, n)
  PROVE  Abstract!Read(r, c)
<1>1. /\ cpc[r] = "idle" /\ c \in Existing /\ UNCHANGED <<cluster, used>>
      /\ cpc' = [cpc EXCEPT ![r] = "save"]
      /\ \E w : job' = [job EXCEPT ![r] = [NoJob EXCEPT !.id = c, !.row = w]]
  BY DEF BeginUpdate, Go
<1>2. cpc'[r] = "save" /\ job'[r].id = c
  BY <1>1 DEF ClustersInv, TypeOK, NoJob
<1>3. \A d \in Requests \ {r} : cpc'[d] = cpc[d] /\ job'[d] = job[d]
  BY <1>1 DEF ClustersInv, TypeOK
<1>4. Reading' = [Reading EXCEPT ![r] = c]
  BY <1>2, <1>3 DEF Reading
<1>5. Reading[r] = NoId /\ Existing' = Existing
  BY <1>1 DEF Reading, Existing
<1>. QED BY <1>1, <1>4, <1>5 DEF Abstract!Read, Reading

\* Save writes the row, or brings it back, and holds it no longer.
LEMMA SaveSaves ==
  ASSUME ClustersAssumption, ClustersInv, NEW r \in Requests, SaveRow(r)
  PROVE  Abstract!Save(r)
<1>1. cpc[r] = "save" /\ job[r].id \in Ids /\ job[r].row \in Rows /\ NoRow \notin Rows
  BY DEF SaveRow, ClustersInv, JobOK, ClustersAssumption, Rows
<1>2. /\ cluster' = [cluster EXCEPT ![job[r].id] = job[r].row] /\ used' = used
      /\ cpc' = [cpc EXCEPT ![r] = "idle"] /\ job' = [job EXCEPT ![r] = NoJob]
  BY DEF SaveRow, Finish
<1>3. cpc'[r] = "idle" /\ \A d \in Requests \ {r} : cpc'[d] = cpc[d] /\ job'[d] = job[d]
  BY <1>2 DEF ClustersInv, TypeOK
<1>4. Reading' = [Reading EXCEPT ![r] = NoId]
  BY <1>3 DEF Reading
<1>5. Reading[r] = job[r].id /\ Reading[r] # NoId
  BY <1>1 DEF Reading, ClustersAssumption
<1>6. Existing' = Existing \cup {job[r].id}
  BY <1>1, <1>2 DEF Existing, ClustersInv, TypeOK
<1>. QED BY <1>2, <1>4, <1>5, <1>6 DEF Abstract!Save, Reading

\* DeleteCluster removes the abstract row.
LEMMA DeleteRemoves ==
  ASSUME ClustersInv, NEW c \in Ids, DeleteCluster(c)
  PROVE  Abstract!Remove(c)
<1>1. c \in Existing /\ cluster' = [cluster EXCEPT ![c] = NoRow] /\ UNCHANGED <<used, cpc, job>>
  BY DEF DeleteCluster
<1>2. Existing' = Existing \ {c}
  BY <1>1 DEF Existing, ClustersInv, TypeOK
<1>3. Reading' = Reading
  BY <1>1 DEF Reading
<1>. QED BY <1>1, <1>2, <1>3 DEF Abstract!Remove, Reading

\* A restart drops what updates hold.
LEMMA RestartDrops ==
  ASSUME Restart
  PROVE  \E rs \in SUBSET Requests : Abstract!Drop(rs)
<1>1. UNCHANGED <<cluster, used>> /\ cpc' = [r \in Requests |-> "idle"]
  BY DEF Restart
<1>2. Reading' = [r \in Requests |-> NoId]
  BY <1>1 DEF Reading
<1>3. Existing' = Existing
  BY <1>1 DEF Existing
<1>4. Abstract!Drop(Requests)
  BY <1>1, <1>2, <1>3 DEF Abstract!Drop, Reading
<1>. QED BY <1>4

\* Every step of the creations, updates, deletions and restarts is a step of the table
\* as ClusterRows describes it, or none.
LEMMA StepImplements ==
  ASSUME ClustersAssumption, ClustersInv, [Next]_clusterVars
  PROVE  [Abstract!RowsNext]_(Abstract!rowVars)
<1>1. ASSUME NEW r \in Requests, RequestStep(r) PROVE [Abstract!RowsNext]_(Abstract!rowVars)
  <2>1. CASE \/ \E n \in Names, k \in Keytabs \cup {NoKeytab} : BeginCreate(r, n, k)
             \/ Prepare(r) \/ CreationFails(r)
             \/ SaveConf(r) \/ SaveKeytab(r) \/ SaveFails(r) \/ DropTemp(r)
    BY <2>1, CreationStutters
  <2>2. CASE InsertRow(r)
    BY <2>2, InsertInserts DEF Abstract!RowsNext
  <2>3. ASSUME NEW c \in Ids, NEW n \in Names, BeginUpdate(r, c, n)
        PROVE  Abstract!RowsNext
    BY <2>3, UpdateReads DEF Abstract!RowsNext
  <2>4. CASE SaveRow(r)
    BY <2>4, SaveSaves DEF Abstract!RowsNext
  <2>. QED BY <1>1, <2>1, <2>2, <2>3, <2>4 DEF RequestStep
<1>2. ASSUME NEW c \in Ids, DeleteCluster(c) PROVE Abstract!RowsNext
  BY <1>2, DeleteRemoves DEF Abstract!RowsNext
<1>3. CASE Restart
  BY <1>3, RestartDrops DEF Abstract!RowsNext
<1>4. CASE (\E k \in Keytabs : UploadKeytab(k) \/ DeleteTempKeytab(k)) \/ Sweep \/ Tick
  <2>1. UNCHANGED <<cluster, used, cpc, job>>
    BY <1>4 DEF UploadKeytab, DeleteTempKeytab, Sweep, Tick
  <2>2. Reading' = Reading
    BY <2>1 DEF Reading
  <2>. QED BY <2>1, <2>2, RowsStutter
<1>5. CASE UNCHANGED clusterVars
  <2>1. UNCHANGED <<cluster, used, cpc, job>> /\ Reading' = Reading
    BY <1>5 DEF clusterVars, Reading
  <2>. QED BY <2>1, RowsStutter
<1>. QED BY <1>1, <1>2, <1>3, <1>4, <1>5 DEF Next

\* cluster_service.go implements the table that ClusterRows promises: an id is given once,
\* and a deleted row comes back only by an update that had read it.
THEOREM ImplementsRowsAlways ==
  Spec => ImplementsRows
<1>1. Init => ClustersInv /\ Abstract!RowsInit
  BY ClustersInit, RowsAtFirst, ClustersAssumption
<1>2. ClustersInv /\ [Next]_clusterVars => ClustersInv' /\ [Abstract!RowsNext]_(Abstract!rowVars)
  BY ClustersInvStep, StepImplements, ClustersAssumption
<1>. QED BY <1>1, <1>2, PTL DEF Spec, ImplementsRows, Abstract!RowsSpec

-----------------------------------------------------------------------------
(* Names of clusters                                                        *)

\* The rows that a creation has seen have other names, or have been renamed since.
SeenOK(r) ==
  /\ job[r].seen \subseteq used
  /\ cpc[r] = "save" => job[r].id \in used
  /\ cpc[r] \in {"prepare", "insert"} =>
       \A d \in (job[r].seen \cap Existing) \ saved : cluster[d].name # job[r].row.name

NamesInv ==
  /\ ClustersInv
  /\ Existing \subseteq used
  /\ \A r \in Requests : SeenOK(r)
  /\ \A c \in Ids : verified[c] \subseteq used
  /\ NamesClash

\* No row that was there changes but by being saved, and no other row has its number.
OldRowsStay ==
  /\ used \subseteq used' /\ Existing' \subseteq used'
  /\ \A d \in used \cap (Existing' \ saved') : d \in Existing \ saved /\ cluster'[d] = cluster[d]

\* Steps that touch no row.
LEMMA UntouchedStay ==
  ASSUME NamesInv, UNCHANGED <<cluster, used, saved>>
  PROVE  OldRowsStay
  BY DEF NamesInv, OldRowsStay, Existing

\* Only Save changes a row that was there before.
LEMMA RowsOfOthersStay ==
  ASSUME ClustersAssumption, NamesInv, [Next]_clusterVars
  PROVE  OldRowsStay
<1>. USE DEF NamesInv, ClustersInv, TypeOK
<1>1. ASSUME NEW r \in Requests, InsertRow(r) PROVE OldRowsStay
  <2>1. PICK c \in FreshIds : cluster' = [cluster EXCEPT ![c] = job[r].row] /\ used' = used \cup {c}
    BY <1>1 DEF InsertRow
  <2>2. saved' = saved /\ c \in Ids \ used
    BY <1>1 DEF InsertRow, FreshIds
  <2>. QED BY <2>1, <2>2 DEF OldRowsStay, Existing
<1>2. ASSUME NEW r \in Requests, SaveRow(r) PROVE OldRowsStay
  <2>1. /\ cluster' = [cluster EXCEPT ![job[r].id] = job[r].row] /\ saved' = saved \cup {job[r].id}
        /\ used' = used /\ job[r].id \in used
    BY <1>2 DEF SaveRow, SeenOK
  <2>. QED BY <2>1 DEF OldRowsStay, Existing
<1>3. ASSUME NEW c \in Ids, DeleteCluster(c) PROVE OldRowsStay
  BY <1>3 DEF DeleteCluster, OldRowsStay, Existing
<1>4. ASSUME NEW r \in Requests, RequestStep(r), ~InsertRow(r), ~SaveRow(r) PROVE OldRowsStay
  <2>1. UNCHANGED <<cluster, used, saved>>
    BY <1>4 DEF RequestStep, BeginCreate, Prepare, CreationFails, SaveConf, SaveKeytab, SaveFails,
         DropTemp, BeginUpdate
  <2>. QED BY <2>1, UntouchedStay
<1>5. CASE \/ \E k \in Keytabs : UploadKeytab(k) \/ DeleteTempKeytab(k)
           \/ Sweep \/ Tick \/ Restart \/ UNCHANGED clusterVars
  <2>1. UNCHANGED <<cluster, used, saved>>
    BY <1>5 DEF UploadKeytab, DeleteTempKeytab, Sweep, Tick, Restart, clusterVars
  <2>. QED BY <2>1, UntouchedStay
<1>. QED BY <1>1, <1>2, <1>3, <1>4, <1>5 DEF Next

\* What a creation has seen stays true of the rows that nobody saves.
LEMMA SeenStays ==
  ASSUME NamesInv, OldRowsStay, NEW r \in Requests, cpc'[r] = cpc[r], job'[r] = job[r]
  PROVE  SeenOK(r)'
<1>1. SeenOK(r)
  BY DEF NamesInv
<1>. QED BY <1>1 DEF SeenOK, OldRowsStay

\* The request that takes the step.
LEMMA SeenMoves ==
  ASSUME ClustersAssumption, NamesInv, OldRowsStay, NEW r \in Requests, RequestStep(r)
  PROVE  SeenOK(r)'
<1>. USE DEF NamesInv, ClustersInv, TypeOK
<1>1. SeenOK(r)
  OBVIOUS
<1>2. ASSUME Finish(r) PROVE SeenOK(r)'
  BY <1>2 DEF Finish, SeenOK, NoJob
<1>3. ASSUME NEW n \in Names, NEW k \in Keytabs \cup {NoKeytab}, BeginCreate(r, n, k) PROVE SeenOK(r)'
  <2>1. /\ job'[r].seen = {} \/ (job'[r].seen = Existing /\ ~NameTaken(n))
        /\ job'[r].row.name = n
        /\ cpc'[r] # "save" /\ UNCHANGED <<cluster, used, saved>>
    <3>. DEFINE looked == IF clusterFaults' = clusterFaults THEN Existing ELSE {}
                new == [name |-> n, kerberos |-> k # NoKeytab]
    <3>1. /\ job'[r] = [[[NoJob EXCEPT !.row = new] EXCEPT !.keytab = k] EXCEPT !.seen = looked]
          /\ cpc'[r] # "save" /\ UNCHANGED <<cluster, used, saved>>
      BY <1>3 DEF BeginCreate, Go
    <3>2. clusterFaults' = clusterFaults => ~NameTaken(n)
      BY <1>3 DEF BeginCreate, Fault
    <3>. HIDE DEF looked, new
    <3>3. job'[r].seen = looked /\ job'[r].row = new
      BY <3>1 DEF NoJob
    <3>. QED BY <3>1, <3>2, <3>3 DEF looked, new
  <2>. QED BY <2>1 DEF SeenOK, NameTaken, Existing
<1>4. CASE Prepare(r)
  <2>1. CASE Held(job[r].keytab)
    <3>1. /\ cpc[r] = "prepare" /\ cpc'[r] = "insert"
          /\ job'[r] = [job[r] EXCEPT !.data = TRUE] /\ job[r] \in Jobs
      BY <1>4, <2>1 DEF Prepare, Go
    <3>2. job'[r].seen = job[r].seen /\ job'[r].row = job[r].row
      BY <3>1 DEF Jobs
    <3>. QED BY <1>1, <3>1, <3>2 DEF SeenOK, OldRowsStay
  <2>2. CASE ~Held(job[r].keytab)
    BY <1>2, <1>4, <2>2 DEF Prepare
  <2>. QED BY <2>1, <2>2
<1>5. CASE InsertRow(r)
  <2>1. CASE Finish(r)
    BY <1>2, <2>1
  <2>2. CASE ~Finish(r)
    <3>1. PICK c \in FreshIds : cpc'[r] = "saveConf" /\ job'[r] = [job[r] EXCEPT !.id = c]
      BY <1>5, <2>2 DEF InsertRow, Go
    <3>2. job'[r].seen = job[r].seen
      BY <3>1 DEF Jobs
    <3>. QED BY <1>1, <3>1, <3>2 DEF SeenOK, OldRowsStay
  <2>. QED BY <2>1, <2>2
<1>6. CASE SaveConf(r) \/ SaveKeytab(r) \/ SaveFails(r)
  <2>1. job' = job /\ cpc'[r] \in {"saveKeytab", "dropTemp"}
    BY <1>6 DEF SaveConf, SaveKeytab, SaveFails, Go
  <2>. QED BY <1>1, <2>1 DEF SeenOK, OldRowsStay
<1>7. ASSUME NEW c \in Ids, NEW n \in Names, BeginUpdate(r, c, n) PROVE SeenOK(r)'
  <2>1. job'[r].seen = {} /\ job'[r].id = c /\ cpc'[r] = "save" /\ c \in Existing /\ used' = used
    BY <1>7 DEF BeginUpdate, Go, NoJob
  <2>. QED BY <2>1 DEF SeenOK
<1>8. CASE CreationFails(r) \/ DropTemp(r) \/ SaveRow(r)
  BY <1>2, <1>8 DEF CreationFails, DropTemp, SaveRow
<1>. QED BY <1>3, <1>4, <1>5, <1>6, <1>7, <1>8 DEF RequestStep

\* Requests move alone.
LEMMA ClusterMovesAlone ==
  ASSUME ClustersInv, NEW r \in Requests, RequestStep(r), NEW d \in Requests \ {r}
  PROVE  cpc'[d] = cpc[d] /\ job'[d] = job[d]
<1>. USE DEF ClustersInv, TypeOK
<1>1. ASSUME NEW step, Go(r, step) PROVE cpc'[d] = cpc[d]
  BY <1>1 DEF Go
<1>2. ASSUME Finish(r) PROVE cpc'[d] = cpc[d] /\ job'[d] = job[d]
  BY <1>2 DEF Finish
<1>3. ASSUME NEW n, NEW k, BeginCreate(r, n, k) PROVE cpc'[d] = cpc[d] /\ job'[d] = job[d]
  BY <1>1, <1>3 DEF BeginCreate
<1>4. ASSUME NEW c, NEW n, BeginUpdate(r, c, n) PROVE cpc'[d] = cpc[d] /\ job'[d] = job[d]
  BY <1>1, <1>4 DEF BeginUpdate
<1>5. CASE \/ Prepare(r) \/ InsertRow(r) \/ CreationFails(r) \/ SaveConf(r) \/ SaveKeytab(r)
           \/ SaveFails(r) \/ DropTemp(r) \/ SaveRow(r)
  BY <1>1, <1>2, <1>5 DEF Prepare, InsertRow, CreationFails, SaveConf, SaveKeytab, SaveFails,
       DropTemp, SaveRow
<1>. QED BY <1>3, <1>4, <1>5 DEF RequestStep

\* Each step of a creation carries on what its check of the name has seen.
LEMMA SeenStep ==
  ASSUME ClustersAssumption, NamesInv, [Next]_clusterVars, NEW d \in Requests
  PROVE  SeenOK(d)'
<1>1. OldRowsStay
  BY RowsOfOthersStay
<1>2. ASSUME NEW r \in Requests, RequestStep(r) PROVE SeenOK(d)'
  <2>1. CASE r = d
    BY <1>1, <1>2, <2>1, SeenMoves
  <2>2. CASE r # d
    BY <1>1, <1>2, <2>2, ClusterMovesAlone, SeenStays DEF NamesInv
  <2>. QED BY <2>1, <2>2
<1>3. CASE Restart
  BY <1>3 DEF Restart, SeenOK, NoJob
<1>4. CASE \/ \E k \in Keytabs : UploadKeytab(k) \/ DeleteTempKeytab(k)
           \/ \E c \in Ids : DeleteCluster(c)
           \/ Sweep \/ Tick \/ UNCHANGED clusterVars
  <2>1. UNCHANGED <<cpc, job>>
    BY <1>4 DEF UploadKeytab, DeleteTempKeytab, DeleteCluster, Sweep, Tick, clusterVars
  <2>. QED BY <1>1, <2>1, SeenStays
<1>. QED BY <1>2, <1>3, <1>4 DEF Next

\* What a new row was compared with is what its creation had seen.
LEMMA ClashStep ==
  ASSUME ClustersAssumption, NamesInv, [Next]_clusterVars
  PROVE  NamesClash' /\ \A c \in Ids : verified'[c] \subseteq used'
<1>. USE DEF NamesInv, ClustersInv, TypeOK
<1>1. OldRowsStay
  BY RowsOfOthersStay
<1>2. ASSUME NEW r \in Requests, InsertRow(r)
      PROVE  NamesClash' /\ \A c \in Ids : verified'[c] \subseteq used'
  <2>1. PICK x \in FreshIds :
          /\ cluster' = [cluster EXCEPT ![x] = job[r].row]
          /\ used' = used \cup {x} /\ verified' = [verified EXCEPT ![x] = job[r].seen]
    BY <1>2 DEF InsertRow
  <2>2. x \in Ids \ used /\ cpc[r] = "insert" /\ SeenOK(r) /\ saved' = saved
    BY <1>2 DEF InsertRow, FreshIds
  <2>3. \A c \in Ids : verified'[c] \subseteq used'
    BY <2>1, <2>2 DEF SeenOK
  <2>4. ASSUME NEW c \in Existing' \ saved', NEW d \in Existing' \ saved', c # d, d \in verified'[c]
        PROVE  cluster'[c].name # cluster'[d].name
    <3>1. c \in Ids /\ d \in Ids
      BY <2>4 DEF Existing
    <3>2. CASE c = x
      <4>1. verified'[c] = job[r].seen /\ cluster'[c] = job[r].row
        BY <2>1, <2>2, <3>2
      <4>2. d \in job[r].seen /\ d \in used
        BY <2>2, <2>4, <4>1 DEF SeenOK
      <4>3. d \in Existing \ saved /\ cluster'[d] = cluster[d]
        BY <1>1, <2>4, <4>2 DEF OldRowsStay
      <4>. QED BY <2>2, <4>1, <4>2, <4>3 DEF SeenOK
    <3>3. CASE c # x
      <4>1. verified'[c] = verified[c] /\ d \in used /\ c \in used
        BY <1>1, <2>1, <2>2, <2>4, <3>1, <3>3 DEF OldRowsStay
      <4>2. /\ c \in Existing \ saved /\ cluster'[c] = cluster[c]
            /\ d \in Existing \ saved /\ cluster'[d] = cluster[d]
        BY <1>1, <2>4, <4>1 DEF OldRowsStay
      <4>. QED BY <2>4, <4>1, <4>2 DEF NamesClash
    <3>. QED BY <3>2, <3>3
  <2>. QED BY <2>3, <2>4 DEF NamesClash
<1>3. CASE ~\E r \in Requests : InsertRow(r)
  <2>1. UNCHANGED <<verified, used>>
    <3>1. ASSUME NEW r \in Requests, RequestStep(r) PROVE UNCHANGED <<verified, used>>
      BY <1>3, <3>1 DEF RequestStep, BeginCreate, Prepare, CreationFails, SaveConf, SaveKeytab,
           SaveFails, DropTemp, BeginUpdate, SaveRow
    <3>. QED BY <3>1 DEF Next, UploadKeytab, DeleteTempKeytab, DeleteCluster, Sweep, Tick, Restart,
           clusterVars
  <2>2. \A c \in Existing' \ saved' : c \in Existing \ saved /\ cluster'[c] = cluster[c]
    BY <1>1, <2>1 DEF OldRowsStay
  <2>. QED BY <2>1, <2>2 DEF NamesClash
<1>. QED BY <1>2, <1>3

\* ErrClusterNameExists: a creation looks for the name in one statement and inserts its row
\* in a later one, so that two creations may use one name; but no row has the name of one
\* that its creation looked at, unless the lookup failed or the row was saved afterwards.
THEOREM NamesClashAlways == Spec => []NamesClash
<1>. USE ClustersAssumption
<1>1. Init => NamesInv
  <2>. SUFFICES ASSUME Init PROVE NamesInv
    OBVIOUS
  <2>1. Existing = {}
    BY DEF Init, Existing
  <2>. QED BY <2>1, ClustersInit DEF Init, NamesInv, SeenOK, NoJob, NamesClash
<1>2. NamesInv /\ [Next]_clusterVars => NamesInv'
  <2>. SUFFICES ASSUME NamesInv, [Next]_clusterVars PROVE NamesInv'
    OBVIOUS
  <2>1. ClustersInv'
    BY ClustersInvStep DEF NamesInv
  <2>2. Existing' \subseteq used'
    BY RowsOfOthersStay DEF OldRowsStay
  <2>. QED BY <2>1, <2>2, SeenStep, ClashStep DEF NamesInv
<1>3. NamesInv => NamesClash
  BY DEF NamesInv
<1>. QED BY <1>1, <1>2, <1>3, PTL DEF Spec

-----------------------------------------------------------------------------
(* SCRAM users: types                                                       *)

\* What a request works on at each of its steps.
TaskOK(r) ==
  /\ upc[r] \in {"upsert", "insertRow", "deleteKafka", "deleteRow"} => asked[r].user \in Users
  /\ upc[r] \in {"listKafka", "listRows", "insert"} => asked[r].user = NoUser

ScramTypes == Scram!TypeOK /\ \A r \in Requests : TaskOK(r)

ScramSteps == {"idle", "upsert", "insertRow", "deleteKafka", "deleteRow",
               "listKafka", "listRows", "insert"}

Tasks == [user : Users \cup {NoUser}, mechanism : Mechanisms, id : 0..MaxRows]

-----------------------------------------------------------------------------
LEMMA NoTaskIsTask ==
  ASSUME Scram!ScramAssumption
  PROVE  /\ Scram!NoTask \in Tasks /\ Scram!NoTask.user = NoUser /\ NoUser \notin Users
         /\ NoRow \notin Scram!Rows /\ MaxRows \in Nat /\ 0 \in 0..MaxRows /\ 0 \in 0..MaxOutside
<1>1. PICK some \in Mechanisms : TRUE
  BY DEF Scram!ScramAssumption
<1>2. (CHOOSE m \in Mechanisms : TRUE) \in Mechanisms
  BY <1>1
<1>. DEFINE c == CHOOSE m \in Mechanisms : TRUE
<1>. HIDE DEF c
<1>3. c \in Mechanisms
  BY <1>2 DEF c
<1>4. MaxRows \in Nat /\ MaxOutside \in Nat /\ NoUser \notin Users /\ NoRow \notin Scram!Rows
  BY DEF Scram!ScramAssumption, Scram!Rows
<1>5. Scram!NoTask = [user |-> NoUser, mechanism |-> c, id |-> 0]
  BY DEF Scram!NoTask, c
<1>. QED BY <1>3, <1>4, <1>5 DEF Tasks

LEMMA BeginTypes ==
  ASSUME ScramTypes, NEW r \in Requests, NEW step \in ScramSteps, NEW task \in Tasks,
         Scram!Begin(r, step, task),
         step \in {"upsert", "insertRow", "deleteKafka", "deleteRow"} => task.user \in Users,
         step \in {"listKafka", "listRows", "insert"} => task.user = NoUser
  PROVE  ScramTypes'
<1>. USE DEF ScramTypes, Scram!TypeOK, Scram!Begin
<1>1. alone' \in [Requests -> BOOLEAN]
  <2>. DEFINE a(q) == IF q = r THEN \A p \in Requests \ {r} : Scram!About(p) \cap Scram!About(r)' = {}
                      ELSE alone[q] /\ Scram!About(q) \cap Scram!About(r)' = {}
  <2>1. alone' = [q \in Requests |-> a(q)]
    OBVIOUS
  <2>2. \A q \in Requests : a(q) \in BOOLEAN
    OBVIOUS
  <2>. QED BY <2>1, <2>2
<1>2. upc' \in [Requests -> ScramSteps]
  BY DEF ScramSteps
<1>3. asked' \in [Requests -> Tasks]
  BY DEF Tasks
<1>4. steady' \in [Requests -> SUBSET Users]
  OBVIOUS
<1>5. Scram!TypeOK'
  BY <1>1, <1>2, <1>3, <1>4 DEF ScramSteps, Tasks
<1>6. \A q \in Requests : TaskOK(q)'
  BY DEF TaskOK
<1>. QED BY <1>5, <1>6

\* The variables that Clear writes.
LEMMA ClearTypes ==
  ASSUME Scram!ScramAssumption, ScramTypes, NEW r \in Requests, Scram!Clear(r)
  PROVE  /\ upc' \in [Requests -> ScramSteps] /\ asked' \in [Requests -> Tasks]
         /\ listed' \in [Requests -> [Users -> SUBSET Mechanisms]]
         /\ missing' \in [Requests -> SUBSET Users]
         /\ alone' \in [Requests -> BOOLEAN] /\ steady' \in [Requests -> SUBSET Users]
         /\ \A q \in Requests : TaskOK(q)'
<1>. USE NoTaskIsTask DEF ScramTypes, Scram!TypeOK, Scram!Clear, Scram!Go
<1>1. upc' \in [Requests -> ScramSteps]
  BY DEF ScramSteps
<1>2. asked' \in [Requests -> Tasks]
  BY DEF Tasks
<1>3. \A q \in Requests : TaskOK(q)'
  BY DEF TaskOK
<1>. QED BY <1>1, <1>2, <1>3

\* The variables that a change of a credential writes.
LEMMA CredentialTypes ==
  ASSUME ScramTypes, NEW u \in Users, NEW ms \in SUBSET Mechanisms, Scram!Credentials(u, ms)
  PROVE  kafka' \in [Users -> SUBSET Mechanisms] /\ steady' \in [Requests -> SUBSET Users]
  BY DEF ScramTypes, Scram!TypeOK, Scram!Credentials

LEMMA RowTypes ==
  ASSUME Scram!ScramAssumption, ScramTypes, NEW u, NEW m \in Mechanisms, Scram!InsertRow(u, m)
  PROVE  row' \in [Users -> Scram!Rows \cup {NoRow}] /\ numbered' \in 0..MaxRows
<1>1. numbered + 1 \in 1..MaxRows /\ numbered + 1 \in 0..MaxRows
  BY NoTaskIsTask DEF ScramTypes, Scram!TypeOK, Scram!InsertRow
<1>. QED BY <1>1 DEF ScramTypes, Scram!TypeOK, Scram!InsertRow, Scram!Rows

\* A request goes on with the same task.
LEMMA GoTypes ==
  ASSUME ScramTypes, NEW r \in Requests, NEW step \in ScramSteps, Scram!Go(r, step), asked' = asked,
         step \in {"upsert", "insertRow", "deleteKafka", "deleteRow"} => asked[r].user \in Users,
         step \in {"listKafka", "listRows", "insert"} => asked[r].user = NoUser
  PROVE  upc' \in [Requests -> ScramSteps] /\ \A q \in Requests : TaskOK(q)'
<1>1. upc' \in [Requests -> ScramSteps]
  BY DEF ScramTypes, Scram!TypeOK, Scram!Go, ScramSteps
<1>2. \A q \in Requests : TaskOK(q)'
  BY DEF ScramTypes, Scram!TypeOK, Scram!Go, TaskOK
<1>. QED BY <1>1, <1>2

LEMMA ScramTypesOfRequest ==
  ASSUME Scram!ScramAssumption, ScramTypes, NEW r \in Requests, Scram!RequestStep(r)
  PROVE  ScramTypes'
<1>. USE NoTaskIsTask DEF Tasks, ScramSteps
<1>0. /\ Scram!TypeOK /\ \A q \in Requests : TaskOK(q)
      /\ MaxOutside \in Nat
  BY DEF ScramTypes, Scram!ScramAssumption
<1>a. ASSUME Scram!Count PROVE outside' \in 0..MaxOutside
  BY <1>0, <1>a DEF Scram!Count, Scram!TypeOK
<1>1. ASSUME NEW u \in Users, NEW m \in Mechanisms, Scram!BeginCreate(r, u, m) PROVE ScramTypes'
  BY <1>1, BeginTypes DEF Scram!BeginCreate, Scram!FirstWrite
<1>2. ASSUME NEW u \in Users, Scram!BeginDelete(r, u) PROVE ScramTypes'
  <2>. DEFINE task == [user |-> u, mechanism |-> row[u].mechanism, id |-> row[u].id]
  <2>1. row[u] \in Scram!Rows
    BY <1>0, <1>2 DEF Scram!BeginDelete, Scram!TypeOK
  <2>2. task \in Tasks /\ task.user \in Users
    BY <2>1 DEF Scram!Rows
  <2>3. Scram!Begin(r, "deleteKafka", task)
    BY <1>2 DEF Scram!BeginDelete
  <2>. HIDE DEF task
  <2>. QED BY <2>2, <2>3, BeginTypes
<1>3. CASE Scram!BeginSync(r)
  BY <1>3, BeginTypes DEF Scram!BeginSync
<1>4. CASE Scram!Upsert(r)
  <2>1. asked[r].user \in Users /\ asked[r].mechanism \in Mechanisms
    BY <1>0, <1>4 DEF Scram!Upsert, TaskOK, Scram!TypeOK
  <2>2. upc' \in [Requests -> ScramSteps] /\ \A q \in Requests : TaskOK(q)'
    BY <1>4, <2>1, GoTypes DEF Scram!Upsert
  <2>3. kafka[asked[r].user] \cup {asked[r].mechanism} \in SUBSET Mechanisms
    BY <1>0, <2>1 DEF Scram!TypeOK
  <2>4. kafka' \in [Users -> SUBSET Mechanisms] /\ steady' \in [Requests -> SUBSET Users]
    BY <1>4, <2>1, <2>3, CredentialTypes DEF Scram!Upsert
  <2>. QED BY <1>0, <1>4, <2>2, <2>4 DEF Scram!Upsert, ScramTypes, Scram!TypeOK
<1>5. CASE Scram!InsertCreated(r)
  <2>1. asked[r].mechanism \in Mechanisms
    BY <1>0 DEF Scram!TypeOK
  <2>. QED BY <1>0, <1>5, <2>1, RowTypes, ClearTypes DEF Scram!InsertCreated, ScramTypes, Scram!TypeOK
<1>6. CASE Scram!DeleteKafka(r)
  <2>1. asked[r].user \in Users
    BY <1>0, <1>6 DEF Scram!DeleteKafka, TaskOK
  <2>2. upc' \in [Requests -> ScramSteps] /\ \A q \in Requests : TaskOK(q)'
    BY <1>6, <2>1, GoTypes DEF Scram!DeleteKafka
  <2>3. kafka[asked[r].user] \ {asked[r].mechanism} \in SUBSET Mechanisms
    BY <1>0, <2>1 DEF Scram!TypeOK
  <2>4. kafka' \in [Users -> SUBSET Mechanisms] /\ steady' \in [Requests -> SUBSET Users]
    BY <1>6, <2>1, <2>3, CredentialTypes DEF Scram!DeleteKafka
  <2>. QED BY <1>0, <1>6, <2>1, <2>2, <2>4 DEF Scram!DeleteKafka, ScramTypes, Scram!TypeOK
<1>7. CASE Scram!DeleteRow(r)
  <2>1. asked[r].user \in Users
    BY <1>0, <1>7 DEF Scram!DeleteRow, TaskOK
  <2>2. row' \in [Users -> Scram!Rows \cup {NoRow}]
    BY <1>0, <1>7, <2>1 DEF Scram!DeleteRow, Scram!TypeOK
  <2>3. rowGone' \in [Requests -> SUBSET Users]
    BY <1>0, <1>7, <2>1 DEF Scram!DeleteRow, Scram!TypeOK
  <2>. QED BY <1>0, <1>7, <2>2, <2>3, ClearTypes DEF Scram!DeleteRow, ScramTypes, Scram!TypeOK
<1>8. CASE Scram!ListKafka(r) \/ Scram!ListRows(r)
  <2>1. asked[r].user = NoUser /\ asked' = asked
    BY <1>0, <1>8 DEF Scram!ListKafka, Scram!ListRows, TaskOK
  <2>2. upc' \in [Requests -> ScramSteps] /\ \A q \in Requests : TaskOK(q)'
    BY <1>8, <2>1, GoTypes DEF Scram!ListKafka, Scram!ListRows
  <2>3. /\ listed' \in [Requests -> [Users -> SUBSET Mechanisms]]
        /\ missing' \in [Requests -> SUBSET Users]
    <3>1. CASE Scram!ListKafka(r)
      BY <1>0, <3>1 DEF Scram!ListKafka, Scram!TypeOK
    <3>2. CASE Scram!ListRows(r)
      BY <1>0, <3>2 DEF Scram!ListRows, Scram!TypeOK
    <3>. QED BY <1>8, <3>1, <3>2
  <2>. QED BY <1>0, <1>8, <2>2, <2>3 DEF Scram!ListKafka, Scram!ListRows, ScramTypes, Scram!TypeOK
<1>9. ASSUME NEW u \in Users, Scram!InsertListed(r, u) PROVE ScramTypes'
  <2>1. PICK m \in listed[r][u] : Scram!InsertRow(u, m)
    BY <1>9 DEF Scram!InsertListed
  <2>2. m \in Mechanisms
    BY <1>0, <2>1 DEF Scram!TypeOK
  <2>3. row' \in [Users -> Scram!Rows \cup {NoRow}] /\ numbered' \in 0..MaxRows
    BY <2>1, <2>2, RowTypes
  <2>. QED BY <1>0, <1>9, <2>3 DEF Scram!InsertListed, ScramTypes, Scram!TypeOK, TaskOK
<1>10. ASSUME NEW u \in Users, Scram!InsertRefused(r, u) PROVE ScramTypes'
  <2>1. missing' \in [Requests -> SUBSET Users] /\ rowGone' \in [Requests -> SUBSET Users]
        /\ outside' \in 0..MaxOutside
    <3>1. missing' \in [Requests -> SUBSET Users]
      BY <1>0, <1>10 DEF Scram!InsertRefused, Scram!TypeOK, Scram!AfterError
    <3>2. CASE UNCHANGED <<rowGone, outside>>
      BY <1>0, <3>1, <3>2 DEF Scram!TypeOK
    <3>3. CASE Scram!Count /\ rowGone' = [rowGone EXCEPT ![r] = @ \cup {u}]
      BY <1>0, <1>a, <3>1, <3>3 DEF Scram!TypeOK
    <3>. QED BY <1>10, <3>2, <3>3 DEF Scram!InsertRefused
  <2>. QED BY <1>0, <1>10, <2>1 DEF Scram!InsertRefused, ScramTypes, Scram!TypeOK, TaskOK
<1>11. CASE Scram!Synced(r)
  BY <1>0, <1>11, ClearTypes DEF Scram!Synced, ScramTypes, Scram!TypeOK
<1>12. CASE Scram!Abort(r)
  <2>1. excused' \in SUBSET Users
    BY <1>0, <1>12 DEF Scram!Abort, Scram!TypeOK, TaskOK
  <2>. QED BY <1>0, <1>12, <2>1, ClearTypes DEF Scram!Abort, ScramTypes, Scram!TypeOK
<1>. QED BY <1>1, <1>2, <1>3, <1>4, <1>5, <1>6, <1>7, <1>8, <1>9, <1>10, <1>11, <1>12 DEF Scram!RequestStep

LEMMA ScramTypesStep ==
  ASSUME Scram!ScramAssumption, ScramTypes, [Scram!Next]_(Scram!scramVars)
  PROVE  ScramTypes'
<1>1. ASSUME NEW u \in Users, NEW ms \in SUBSET Mechanisms, Scram!ChangeOutside(u, ms) PROVE ScramTypes'
  <2>1. outside' \in 0..MaxOutside
    BY <1>1 DEF Scram!ChangeOutside, Scram!Count, ScramTypes, Scram!TypeOK, Scram!ScramAssumption
  <2>. QED BY <1>1, <2>1, CredentialTypes DEF Scram!ChangeOutside, ScramTypes, Scram!TypeOK, TaskOK
<1>2. CASE UNCHANGED Scram!scramVars
  BY <1>2 DEF Scram!scramVars, ScramTypes, Scram!TypeOK, TaskOK
<1>. QED BY <1>1, <1>2, ScramTypesOfRequest DEF Scram!Next

LEMMA ScramTypesInit ==
  ASSUME Scram!ScramAssumption, Scram!Init
  PROVE  ScramTypes
  BY NoTaskIsTask DEF Scram!Init, ScramTypes, Scram!TypeOK, TaskOK, Tasks

-----------------------------------------------------------------------------
(* SCRAM users: SyncUsers                                                   *)

\* SyncUsers, as the user sees it who has had a credential since it began.
SteadyOK(r) ==
  /\ \A u \in steady[r] : kafka[u] # {}
  /\ upc[r] \in {"listRows", "insert"} => \A u \in steady[r] : listed[r][u] # {}

Covered(r) == upc[r] = "insert" => \A u \in steady[r] \ (missing[r] \cup rowGone[r]) : row[u] # NoRow

SyncInv == ScramTypes /\ \A r \in Requests : SteadyOK(r) /\ Covered(r)

\* Requests move alone.
LEMMA ScramMovesAlone ==
  ASSUME ScramTypes, NEW r \in Requests, Scram!RequestStep(r), NEW q \in Requests \ {r}
  PROVE  /\ UNCHANGED <<upc[q], asked[q], listed[q], missing[q]>>
         /\ steady'[q] \subseteq steady[q]
<1>. USE DEF ScramTypes, Scram!TypeOK
<1>. DEFINE Goal == /\ UNCHANGED <<upc[q], asked[q], listed[q], missing[q]>>
                    /\ steady'[q] \subseteq steady[q]
<1>1. ASSUME NEW step, NEW task, Scram!Begin(r, step, task) PROVE Goal
  BY <1>1 DEF Scram!Begin
<1>2. ASSUME Scram!Clear(r) PROVE Goal
  BY <1>2 DEF Scram!Clear, Scram!Go
<1>3. ASSUME NEW u, NEW ms, Scram!Credentials(u, ms) PROVE steady'[q] \subseteq steady[q]
  BY <1>3 DEF Scram!Credentials
<1>4. ASSUME NEW step, Scram!Go(r, step) PROVE upc'[q] = upc[q]
  BY <1>4 DEF Scram!Go
<1>5. (\E u \in Users, m \in Mechanisms : Scram!BeginCreate(r, u, m)) => Goal
  BY <1>1 DEF Scram!BeginCreate
<1>6. (\E u \in Users : Scram!BeginDelete(r, u)) \/ Scram!BeginSync(r) => Goal
  BY <1>1 DEF Scram!BeginDelete, Scram!BeginSync
<1>7. Scram!Upsert(r) \/ Scram!DeleteKafka(r) => Goal
  BY <1>3, <1>4 DEF Scram!Upsert, Scram!DeleteKafka
<1>8. Scram!InsertCreated(r) \/ Scram!DeleteRow(r) \/ Scram!Synced(r) \/ Scram!Abort(r) => Goal
  BY <1>2 DEF Scram!InsertCreated, Scram!DeleteRow, Scram!Synced, Scram!Abort
<1>9. Scram!ListKafka(r) => Goal
  BY <1>4 DEF Scram!ListKafka
<1>10. Scram!ListRows(r) => Goal
  BY <1>4 DEF Scram!ListRows
<1>11. ASSUME NEW u \in Users, Scram!InsertListed(r, u) \/ Scram!InsertRefused(r, u) PROVE Goal
  BY <1>11 DEF Scram!InsertListed, Scram!InsertRefused
<1>. HIDE DEF Goal
<1>12. Goal
  BY <1>5, <1>6, <1>7, <1>8, <1>9, <1>10, <1>11 DEF Scram!RequestStep
<1>. QED BY <1>12 DEF Goal

\* A row that goes is remembered by the requests that are running.
LEMMA RowGoneTells ==
  ASSUME ScramTypes, NEW r \in Requests, Scram!RequestStep(r), NEW q \in Requests \ {r}, upc[q] # "idle"
  PROVE  /\ rowGone[q] \subseteq rowGone'[q]
         /\ \A u \in Users : row[u] # NoRow /\ row'[u] = NoRow => u \in rowGone'[q]
<1>. USE DEF ScramTypes, Scram!TypeOK
<1>1. CASE Scram!DeleteRow(r)
  BY <1>1 DEF Scram!DeleteRow
<1>2. ASSUME ~Scram!DeleteRow(r) PROVE rowGone[q] \subseteq rowGone'[q]
  BY <1>2 DEF Scram!RequestStep, Scram!BeginCreate, Scram!BeginDelete, Scram!BeginSync, Scram!Begin,
       Scram!Upsert, Scram!InsertCreated, Scram!DeleteKafka, Scram!ListKafka, Scram!ListRows,
       Scram!InsertListed, Scram!InsertRefused, Scram!Synced, Scram!Abort
<1>3. ASSUME NEW u, NEW m, Scram!InsertRow(u, m) PROVE \A w \in Users : row[w] # NoRow => row'[w] # NoRow
  BY <1>3 DEF Scram!InsertRow
<1>4. ASSUME ~Scram!DeleteRow(r) PROVE \A w \in Users : row[w] # NoRow => row'[w] # NoRow
  BY <1>3, <1>4 DEF Scram!RequestStep, Scram!BeginCreate, Scram!BeginDelete, Scram!BeginSync, Scram!Begin,
       Scram!Upsert, Scram!InsertCreated, Scram!DeleteKafka, Scram!ListKafka, Scram!ListRows,
       Scram!InsertListed, Scram!InsertRefused, Scram!Synced, Scram!Abort
<1>. QED BY <1>1, <1>2, <1>4

\* Who is left among those with a credential has one.
LEMMA SteadyHolds ==
  ASSUME ScramTypes, NEW q \in Requests, SteadyOK(q), [Scram!Next]_(Scram!scramVars)
  PROVE  \A u \in steady'[q] : kafka'[u] # {}
<1>. USE DEF ScramTypes, Scram!TypeOK
<1>0. \A u \in steady[q] : kafka[u] # {}
  BY DEF SteadyOK
<1>. DEFINE Goal == \A u \in steady'[q] : kafka'[u] # {}
<1>1. ASSUME NEW u \in Users, NEW ms, Scram!Credentials(u, ms) PROVE Goal
  BY <1>0, <1>1 DEF Scram!Credentials
<1>2. ASSUME NEW r \in Requests, NEW step, NEW task, Scram!Begin(r, step, task) PROVE Goal
  BY <1>0, <1>2 DEF Scram!Begin
<1>3. ASSUME NEW r \in Requests, Scram!Clear(r), kafka' = kafka PROVE Goal
  BY <1>0, <1>3 DEF Scram!Clear
<1>4. ASSUME UNCHANGED <<kafka, steady>> PROVE Goal
  BY <1>0, <1>4
<1>. HIDE DEF Goal
<1>5. ASSUME NEW r \in Requests, Scram!RequestStep(r) PROVE Goal
  <2>1. CASE Scram!Upsert(r) \/ Scram!DeleteKafka(r)
    <3>1. asked[r].user \in Users
      BY <2>1 DEF Scram!Upsert, Scram!DeleteKafka, TaskOK
    <3>. QED BY <1>1, <2>1, <3>1 DEF Scram!Upsert, Scram!DeleteKafka
  <2>2. CASE \/ \E u \in Users : (\E m \in Mechanisms : Scram!BeginCreate(r, u, m)) \/ Scram!BeginDelete(r, u)
             \/ Scram!BeginSync(r)
    BY <1>2, <2>2 DEF Scram!BeginCreate, Scram!BeginDelete, Scram!BeginSync
  <2>3. CASE Scram!InsertCreated(r) \/ Scram!DeleteRow(r) \/ Scram!Synced(r) \/ Scram!Abort(r)
    BY <1>3, <2>3 DEF Scram!InsertCreated, Scram!DeleteRow, Scram!Synced, Scram!Abort
  <2>4. CASE \/ Scram!ListKafka(r) \/ Scram!ListRows(r)
             \/ \E u \in Users : Scram!InsertListed(r, u) \/ Scram!InsertRefused(r, u)
    BY <1>4, <2>4 DEF Scram!ListKafka, Scram!ListRows, Scram!InsertListed, Scram!InsertRefused
  <2>. QED BY <1>5, <2>1, <2>2, <2>3, <2>4 DEF Scram!RequestStep
<1>6. ASSUME NEW u \in Users, NEW ms \in SUBSET Mechanisms, Scram!ChangeOutside(u, ms) PROVE Goal
  BY <1>1, <1>6 DEF Scram!ChangeOutside
<1>7. ASSUME UNCHANGED Scram!scramVars PROVE Goal
  BY <1>4, <1>7 DEF Scram!scramVars
<1>8. Goal
  BY <1>5, <1>6, <1>7 DEF Scram!Next
<1>. QED BY <1>8 DEF Goal

\* A synchronisation that does not move.
LEMMA SyncElsewhere ==
  ASSUME SyncInv, NEW q \in Requests, UNCHANGED <<upc[q], listed[q], missing[q]>>,
         steady'[q] \subseteq steady[q], \A u \in steady'[q] : kafka'[u] # {},
         upc[q] # "idle" =>
           /\ rowGone[q] \subseteq rowGone'[q]
           /\ \A u \in Users : row[u] # NoRow /\ row'[u] = NoRow => u \in rowGone'[q]
  PROVE  SteadyOK(q)' /\ Covered(q)'
<1>1. SteadyOK(q) /\ Covered(q) /\ steady[q] \subseteq Users
  BY DEF SyncInv, ScramTypes, Scram!TypeOK
<1>2. SteadyOK(q)'
  BY <1>1 DEF SteadyOK
<1>3. Covered(q)'
  BY <1>1 DEF Covered
<1>. QED BY <1>2, <1>3

\* An insert gives the user a row that numbers its mechanism, and leaves the others.
LEMMA InsertedRow ==
  ASSUME Scram!ScramAssumption, ScramTypes, NEW u \in Users, NEW m \in Mechanisms, Scram!InsertRow(u, m)
  PROVE  /\ row[u] = NoRow /\ row'[u] # NoRow /\ row'[u].mechanism = m /\ row'[u].id = numbered + 1
         /\ \A w \in Users \ {u} : row'[w] = row[w]
         /\ \A w \in Users : row[w] # NoRow => row'[w] # NoRow
<1>1. numbered + 1 \in 1..MaxRows
  BY NoTaskIsTask DEF ScramTypes, Scram!TypeOK, Scram!InsertRow
<1>. DEFINE new == [id |-> numbered + 1, mechanism |-> m]
<1>2. new \in Scram!Rows /\ new.id = numbered + 1 /\ new.mechanism = m
  BY <1>1 DEF Scram!Rows
<1>3. row[u] = NoRow /\ row' = [row EXCEPT ![u] = new]
  BY DEF Scram!InsertRow
<1>. HIDE DEF new
<1>4. new # NoRow /\ row' \in [Users -> Scram!Rows \cup {NoRow}]
  BY <1>2, <1>3, NoTaskIsTask DEF ScramTypes, Scram!TypeOK
<1>. QED BY <1>2, <1>3, <1>4 DEF ScramTypes, Scram!TypeOK

\* A synchronisation that does.
LEMMA SyncMoves ==
  ASSUME Scram!ScramAssumption, SyncInv, NEW r \in Requests, Scram!RequestStep(r),
         \A u \in steady'[r] : kafka'[u] # {}
  PROVE  SteadyOK(r)' /\ Covered(r)'
<1>. USE DEF SyncInv, ScramTypes, Scram!TypeOK
<1>1. SteadyOK(r) /\ Covered(r) /\ steady[r] \subseteq Users
  OBVIOUS
<1>2. ASSUME upc'[r] \notin {"listRows", "insert"} PROVE SteadyOK(r)' /\ Covered(r)'
  BY <1>2 DEF SteadyOK, Covered
<1>3. CASE Scram!ListKafka(r)
  <2>1. upc'[r] = "listRows" /\ listed'[r] = kafka /\ UNCHANGED <<steady, kafka>>
    BY <1>3 DEF Scram!ListKafka, Scram!Go
  <2>. QED BY <1>1, <2>1 DEF SteadyOK, Covered
<1>4. CASE Scram!ListRows(r)
  <2>1. /\ upc[r] = "listRows" /\ upc'[r] = "insert" /\ UNCHANGED <<steady, kafka, listed, row>>
        /\ missing'[r] = {u \in Users : listed[r][u] # {} /\ row[u] = NoRow}
    BY <1>4 DEF Scram!ListRows, Scram!Go
  <2>. QED BY <1>1, <2>1 DEF SteadyOK, Covered
<1>5. ASSUME NEW u \in Users, Scram!InsertListed(r, u) PROVE SteadyOK(r)' /\ Covered(r)'
  <2>1. /\ upc[r] = "insert" /\ UNCHANGED <<upc, steady, kafka, listed, rowGone>>
        /\ missing'[r] = missing[r] \ {u}
    BY <1>5 DEF Scram!InsertListed
  <2>2. PICK m \in listed[r][u] : Scram!InsertRow(u, m)
    BY <1>5 DEF Scram!InsertListed
  <2>a. m \in Mechanisms
    BY <2>2
  <2>3. row'[u] # NoRow /\ \A w \in Users : row[w] # NoRow => row'[w] # NoRow
    BY <2>2, <2>a, InsertedRow
  <2>. QED BY <1>1, <2>1, <2>3 DEF SteadyOK, Covered
<1>6. ASSUME NEW u \in Users, Scram!InsertRefused(r, u) PROVE SteadyOK(r)' /\ Covered(r)'
  <2>1. /\ upc[r] = "insert" /\ UNCHANGED <<upc, steady, kafka, listed, row>>
        /\ missing'[r] = missing[r] \ {u}
        /\ (row[u] # NoRow /\ rowGone' = rowGone) \/ rowGone'[r] = rowGone[r] \cup {u}
    BY <1>6 DEF Scram!InsertRefused, Scram!AfterError
  <2>. QED BY <1>1, <2>1 DEF SteadyOK, Covered
<1>7. ASSUME NEW u \in Users, NEW m \in Mechanisms, Scram!BeginCreate(r, u, m)
      PROVE  upc'[r] \notin {"listRows", "insert"}
  BY <1>7 DEF Scram!BeginCreate, Scram!Begin, Scram!FirstWrite
<1>8. ASSUME NEW u \in Users, Scram!BeginDelete(r, u) PROVE upc'[r] \notin {"listRows", "insert"}
  BY <1>8 DEF Scram!BeginDelete, Scram!Begin
<1>9. \/ Scram!BeginSync(r) \/ Scram!Upsert(r) \/ Scram!DeleteKafka(r)
      \/ Scram!InsertCreated(r) \/ Scram!DeleteRow(r) \/ Scram!Synced(r) \/ Scram!Abort(r)
      => upc'[r] \notin {"listRows", "insert"}
  BY DEF Scram!BeginSync, Scram!Begin, Scram!Upsert, Scram!DeleteKafka, Scram!InsertCreated,
         Scram!DeleteRow, Scram!Synced, Scram!Abort, Scram!Clear, Scram!Go
<1>. QED BY <1>2, <1>3, <1>4, <1>5, <1>6, <1>7, <1>8, <1>9 DEF Scram!RequestStep

LEMMA SyncInvStep ==
  ASSUME Scram!ScramAssumption, SyncInv, [Scram!Next]_(Scram!scramVars)
  PROVE  SyncInv'
<1>1. ScramTypes'
  BY ScramTypesStep DEF SyncInv
<1>2. ASSUME NEW q \in Requests PROVE SteadyOK(q)' /\ Covered(q)'
  <2>1. ScramTypes /\ SteadyOK(q)
    BY DEF SyncInv
  <2>2. \A u \in steady'[q] : kafka'[u] # {}
    BY <2>1, SteadyHolds
  <2>3. ASSUME NEW r \in Requests, Scram!RequestStep(r) PROVE SteadyOK(q)' /\ Covered(q)'
    <3>1. CASE r = q
      BY <2>2, <2>3, <3>1, SyncMoves
    <3>2. CASE r # q
      BY <2>1, <2>2, <2>3, <3>2, ScramMovesAlone, RowGoneTells, SyncElsewhere
    <3>. QED BY <3>1, <3>2
  <2>4. ASSUME NEW u \in Users, NEW ms \in SUBSET Mechanisms, Scram!ChangeOutside(u, ms)
        PROVE  SteadyOK(q)' /\ Covered(q)'
    <3>1. UNCHANGED <<upc, listed, missing, rowGone, row>> /\ steady'[q] \subseteq steady[q]
      BY <2>4 DEF Scram!ChangeOutside, Scram!Credentials
    <3>. QED BY <2>2, <3>1, SyncElsewhere
  <2>5. CASE UNCHANGED Scram!scramVars
    BY <2>2, <2>5, SyncElsewhere DEF Scram!scramVars
  <2>. QED BY <2>3, <2>4, <2>5 DEF Scram!Next
<1>. QED BY <1>1, <1>2 DEF SyncInv

\* SyncUsers compares two lists that may both be stale by the time it inserts: when its
\* loop is over, whoever had a credential in Kafka all the while has a row, unless that row
\* was deleted meanwhile or its insert failed.
THEOREM SyncCoversAlways == Scram!Spec => []SyncCovers
<1>. USE ServicesAssumption
<1>1. Scram!Init => SyncInv
  BY ScramTypesInit DEF Scram!Init, SyncInv, SteadyOK, Covered
<1>2. SyncInv /\ [Scram!Next]_(Scram!scramVars) => SyncInv'
  BY SyncInvStep
<1>3. SyncInv => SyncCovers
  BY DEF SyncInv, Covered, SyncCovers, Scram!SyncCovers
<1>. QED BY <1>1, <1>2, <1>3, PTL DEF Scram!Spec

-----------------------------------------------------------------------------
(* SCRAM users: CreateUser and DeleteUser                                   *)

\* A request that is alone shares its user with no other, and finds the row that it read.
Apart(r) == alone[r] => \A q \in Requests \ {r} : Scram!About(q) \cap Scram!About(r) = {}

KeepsRow(r) ==
  alone[r] /\ upc[r] = "deleteKafka" =>
    LET u == asked[r].user IN
    row[u] # NoRow /\ row[u].id = asked[r].id /\ row[u].mechanism = asked[r].mechanism

\* What a request is about to insert is still in Kafka.
Fresh(r) ==
  /\ upc[r] = "insertRow" => asked[r].mechanism \in kafka[asked[r].user] \/ asked[r].user \in excused
  /\ upc[r] \in {"listRows", "insert"} => \A u \in Users : listed[r][u] \subseteq kafka[u] \/ u \in excused

\* A row without its credential is about to be deleted.
Backed(u) ==
  row[u] # NoRow /\ row[u].mechanism \notin kafka[u] =>
    u \in excused \/ \E r \in Requests : upc[r] = "deleteRow" /\ asked[r].user = u /\ asked[r].id = row[u].id

CredentialsInv ==
  /\ ScramTypes
  /\ \A r \in Requests : Apart(r) /\ KeepsRow(r) /\ Fresh(r)
  /\ \A u \in Users : Backed(u)

\* A request begins, or goes on about no more users.
Begins(r) == \E step \in ScramSteps \ {"idle"}, task \in Tasks : Scram!Begin(r, step, task)

\* A request that goes on is about no more users than before, and lets nobody be alone who was not.
LEMMA BeginsOrGoesOn ==
  ASSUME Scram!ScramAssumption, ScramTypes, NEW r \in Requests, Scram!RequestStep(r)
  PROVE  \/ Begins(r)
         \/ /\ upc[r] # "idle" /\ Scram!About(r)' \subseteq Scram!About(r)
            /\ \A q \in Requests : alone'[q] => alone[q]
<1>. DEFINE On == /\ upc[r] # "idle" /\ Scram!About(r)' \subseteq Scram!About(r)
                  /\ \A q \in Requests : alone'[q] => alone[q]
<1>. USE DEF ScramTypes, Scram!TypeOK
<1>1. ASSUME Scram!Clear(r), upc[r] # "idle" PROVE On
  BY <1>1 DEF Scram!Clear, Scram!Go, Scram!About
<1>2. ASSUME NEW step \in ScramSteps \ {"idle"}, Scram!Go(r, step), asked' = asked, alone' = alone, upc[r] # "idle"
      PROVE  On
  BY <1>2 DEF Scram!Go, Scram!About
<1>3. ASSUME UNCHANGED <<upc, asked, alone>>, upc[r] # "idle" PROVE On
  BY <1>3 DEF Scram!About
<1>. HIDE DEF On
<1>4. ASSUME NEW u \in Users, NEW m \in Mechanisms, Scram!BeginCreate(r, u, m) PROVE Begins(r)
  <2>1. [user |-> u, mechanism |-> m, id |-> 0] \in Tasks
    BY NoTaskIsTask DEF Tasks
  <2>. QED BY <1>4, <2>1 DEF Scram!BeginCreate, Scram!FirstWrite, Begins, ScramSteps
<1>5. ASSUME NEW u \in Users, Scram!BeginDelete(r, u) PROVE Begins(r)
  <2>1. row[u] \in Scram!Rows
    BY <1>5 DEF Scram!BeginDelete
  <2>2. [user |-> u, mechanism |-> row[u].mechanism, id |-> row[u].id] \in Tasks
    BY <2>1, NoTaskIsTask DEF Scram!Rows, Tasks
  <2>. QED BY <1>5, <2>2 DEF Scram!BeginDelete, Begins, ScramSteps
<1>6. ASSUME Scram!BeginSync(r) PROVE Begins(r)
  BY <1>6, NoTaskIsTask DEF Scram!BeginSync, Begins, ScramSteps
<1>7. Scram!Upsert(r) => On
  BY <1>2 DEF Scram!Upsert, ScramSteps
<1>8. Scram!InsertCreated(r) \/ Scram!DeleteRow(r) \/ Scram!Synced(r) \/ Scram!Abort(r) => On
  BY <1>1 DEF Scram!InsertCreated, Scram!DeleteRow, Scram!Synced, Scram!Abort
<1>9. Scram!DeleteKafka(r) => On
  BY <1>2 DEF Scram!DeleteKafka, ScramSteps
<1>10. Scram!ListKafka(r) \/ Scram!ListRows(r) => On
  BY <1>2 DEF Scram!ListKafka, Scram!ListRows, ScramSteps
<1>11. ASSUME NEW u \in Users, Scram!InsertListed(r, u) \/ Scram!InsertRefused(r, u) PROVE On
  BY <1>3, <1>11 DEF Scram!InsertListed, Scram!InsertRefused
<1>12. Begins(r) \/ On
  BY <1>4, <1>5, <1>6, <1>7, <1>8, <1>9, <1>10, <1>11 DEF Scram!RequestStep
<1>. QED BY <1>12 DEF On

\* The users of another request stay.
LEMMA AboutElsewhere ==
  ASSUME ScramTypes, NEW r \in Requests, Scram!RequestStep(r), NEW q \in Requests \ {r}
  PROVE  Scram!About(q)' = Scram!About(q)
  BY ScramMovesAlone DEF Scram!About

\* A request that is alone stays the only one about its users.
LEMMA ApartStep ==
  ASSUME Scram!ScramAssumption, ScramTypes, \A q \in Requests : Apart(q),
         NEW r \in Requests, Scram!RequestStep(r), NEW q \in Requests
  PROVE  Apart(q)' /\ (q # r /\ alone'[q] => alone[q])
<1>1. CASE Begins(r)
  <2>1. PICK step \in ScramSteps, task \in Tasks : Scram!Begin(r, step, task)
    BY <1>1 DEF Begins
  <2>. DEFINE a(p) == IF p = r THEN \A s \in Requests \ {r} : Scram!About(s) \cap Scram!About(r)' = {}
                      ELSE alone[p] /\ Scram!About(p) \cap Scram!About(r)' = {}
  <2>2. alone' = [p \in Requests |-> a(p)]
    BY <2>1 DEF Scram!Begin
  <2>3. alone'[q] = a(q)
    BY <2>2
  <2>4. \A p \in Requests \ {r} : Scram!About(p)' = Scram!About(p)
    BY AboutElsewhere
  <2>5. CASE q = r
    BY <2>3, <2>4, <2>5 DEF Apart
  <2>6. CASE q # r
    BY <2>3, <2>4, <2>6 DEF Apart
  <2>. QED BY <2>5, <2>6
<1>2. CASE ~Begins(r)
  <2>1. \A p \in Requests : (alone'[p] => alone[p]) /\ Scram!About(p)' \subseteq Scram!About(p)
    BY <1>2, BeginsOrGoesOn, AboutElsewhere
  <2>. QED BY <2>1 DEF Apart
<1>. QED BY <1>1, <1>2

\* A row changes only for users that the request is about.
LEMMA RowsOfRequest ==
  ASSUME Scram!ScramAssumption, ScramTypes, NEW r \in Requests, Scram!RequestStep(r), NEW u \in Users,
         row'[u] # row[u]
  PROVE  u \in Scram!About(r)
<1>. USE DEF ScramTypes, Scram!TypeOK
<1>1. CASE Scram!InsertCreated(r) \/ Scram!DeleteRow(r)
  <2>1. asked[r].user = u /\ asked[r].user # NoUser
    BY <1>1, NoTaskIsTask DEF Scram!InsertCreated, Scram!InsertRow, Scram!DeleteRow, TaskOK
  <2>. QED BY <1>1, <2>1 DEF Scram!About, Scram!InsertCreated, Scram!DeleteRow
<1>2. CASE \E w \in Users : Scram!InsertListed(r, w)
  BY <1>2 DEF Scram!About, Scram!InsertListed, TaskOK
<1>. QED BY <1>1, <1>2 DEF Scram!RequestStep, Scram!BeginCreate, Scram!BeginDelete, Scram!BeginSync, Scram!Begin,
       Scram!Upsert, Scram!DeleteKafka, Scram!ListKafka, Scram!ListRows, Scram!InsertRefused, Scram!Synced, Scram!Abort

\* The row that a lone deletion has read stays as it was.
LEMMA KeepsRowStep ==
  ASSUME Scram!ScramAssumption, CredentialsInv, NEW r \in Requests, Scram!RequestStep(r), NEW q \in Requests
  PROVE  KeepsRow(q)'
<1>. USE DEF CredentialsInv, ScramTypes, Scram!TypeOK
<1>1. ASSUME q # r, alone'[q], upc'[q] = "deleteKafka" PROVE KeepsRow(q)'
  <2>1. upc[q] = "deleteKafka" /\ asked'[q] = asked[q] /\ alone[q]
    BY <1>1, ScramMovesAlone, ApartStep
  <2>2. asked[q].user \in Users /\ asked[q].user \in Scram!About(q)
    BY <2>1, NoTaskIsTask DEF TaskOK, Scram!About
  <2>3. asked[q].user \notin Scram!About(r)
    BY <1>1, <2>1, <2>2 DEF Apart
  <2>4. row'[asked[q].user] = row[asked[q].user]
    BY <2>2, <2>3, RowsOfRequest
  <2>. QED BY <2>1, <2>4 DEF KeepsRow
<1>2. ASSUME q = r, upc'[r] = "deleteKafka" PROVE KeepsRow(r)'
  <2>1. PICK u \in Users : Scram!BeginDelete(r, u)
    BY <1>2 DEF Scram!RequestStep, Scram!BeginCreate, Scram!FirstWrite, Scram!BeginSync, Scram!Begin,
         Scram!Upsert, Scram!DeleteKafka, Scram!ListKafka, Scram!ListRows, Scram!InsertListed,
         Scram!InsertRefused, Scram!Synced, Scram!Abort, Scram!InsertCreated, Scram!DeleteRow, Scram!Clear, Scram!Go
  <2>2. /\ row[u] # NoRow /\ row' = row
        /\ asked'[r] = [user |-> u, mechanism |-> row[u].mechanism, id |-> row[u].id]
    BY <2>1 DEF Scram!BeginDelete, Scram!Begin
  <2>. QED BY <2>2 DEF KeepsRow
<1>. QED BY <1>1, <1>2 DEF KeepsRow

\* A credential that goes in a request is that of its user, who is then excused or has his
\* row deleted next.
LEMMA CredentialsOfRequest ==
  ASSUME CredentialsInv, NEW r \in Requests, Scram!RequestStep(r)
  PROVE  /\ excused \subseteq excused'
         /\ \A u \in Users : kafka[u] \subseteq kafka'[u] \/ u \in excused' \/
              /\ Scram!DeleteKafka(r) /\ asked[r].user = u /\ alone[r]
              /\ kafka'[u] = kafka[u] \ {asked[r].mechanism}
<1>. USE DEF CredentialsInv, ScramTypes, Scram!TypeOK
<1>. DEFINE Goal == /\ excused \subseteq excused'
                    /\ \A u \in Users : kafka[u] \subseteq kafka'[u] \/ u \in excused' \/
                         /\ Scram!DeleteKafka(r) /\ asked[r].user = u /\ alone[r]
                         /\ kafka'[u] = kafka[u] \ {asked[r].mechanism}
<1>1. ASSUME Scram!Upsert(r) PROVE Goal
  BY <1>1 DEF Scram!Upsert, Scram!Credentials
<1>2. ASSUME Scram!DeleteKafka(r) PROVE Goal
  BY <1>2 DEF Scram!DeleteKafka, Scram!Credentials
<1>3. ASSUME kafka' = kafka, excused \subseteq excused' PROVE Goal
  BY <1>3
<1>. HIDE DEF Goal
<1>4. Goal
  BY <1>1, <1>2, <1>3 DEF Scram!RequestStep, Scram!BeginCreate, Scram!BeginDelete, Scram!BeginSync, Scram!Begin,
         Scram!ListKafka, Scram!ListRows, Scram!InsertListed,
         Scram!InsertRefused, Scram!Synced, Scram!Abort, Scram!InsertCreated, Scram!DeleteRow
<1>. QED BY <1>4 DEF Goal

\* What a lone request is about to insert stays in Kafka, but for another tool.
LEMMA FreshStep ==
  ASSUME Scram!ScramAssumption, CredentialsInv, NEW r \in Requests, Scram!RequestStep(r), NEW q \in Requests
  PROVE  Fresh(q)'
<1>. USE DEF CredentialsInv, ScramTypes, Scram!TypeOK
<1>1. CASE q # r
  <2>1. UNCHANGED <<upc[q], asked[q], listed[q]>>
    BY <1>1, ScramMovesAlone
  <2>2. ASSUME NEW u \in Users, Scram!DeleteKafka(r), asked[r].user = u, alone[r]
        PROVE  u \notin Scram!About(q)
    BY <1>1, <2>2, NoTaskIsTask DEF Apart, Scram!About, Scram!DeleteKafka
  <2>3. ASSUME NEW u \in Scram!About(q) \cap Users PROVE kafka[u] \subseteq kafka'[u] \/ u \in excused'
    BY <2>2, <2>3, CredentialsOfRequest
  <2>4. upc[q] = "insertRow" => asked[q].user \in Scram!About(q) \cap Users
    BY NoTaskIsTask DEF Scram!About, TaskOK
  <2>5. upc[q] \in {"listRows", "insert"} => Scram!About(q) = Users
    BY DEF Scram!About, TaskOK
  <2>6. excused \subseteq excused' /\ Fresh(q)
    BY CredentialsOfRequest
  <2>7. upc'[q] = "insertRow" => asked'[q].mechanism \in kafka'[asked'[q].user] \/ asked'[q].user \in excused'
    BY <2>1, <2>3, <2>4, <2>6 DEF Fresh
  <2>8. upc'[q] \in {"listRows", "insert"} => \A u \in Users : listed'[q][u] \subseteq kafka'[u] \/ u \in excused'
    BY <2>1, <2>3, <2>5, <2>6 DEF Fresh
  <2>. QED BY <2>7, <2>8 DEF Fresh
<1>2. CASE q = r
  <2>1. ASSUME upc'[r] \notin {"insertRow", "listRows", "insert"} PROVE Fresh(r)'
    BY <2>1 DEF Fresh
  <2>2. CASE Scram!Upsert(r)
    <3>1. /\ asked[r].user \in Users /\ asked' = asked /\ upc'[r] = "insertRow"
          /\ kafka' = [kafka EXCEPT ![asked[r].user] = kafka[asked[r].user] \cup {asked[r].mechanism}]
      BY <2>2 DEF Scram!Upsert, Scram!Credentials, Scram!Go, TaskOK
    <3>. QED BY <1>2, <3>1 DEF Fresh
  <2>3. CASE Scram!ListKafka(r)
    BY <2>3 DEF Scram!ListKafka, Scram!Go, Fresh
  <2>4. CASE Scram!ListRows(r)
    BY <2>4 DEF Scram!ListRows, Scram!Go, Fresh
  <2>5. CASE \E u \in Users : Scram!InsertListed(r, u) \/ Scram!InsertRefused(r, u)
    BY <2>5 DEF Scram!InsertListed, Scram!InsertRefused, Fresh
  <2>6. ASSUME NEW u \in Users, NEW m \in Mechanisms, Scram!BeginCreate(r, u, m)
        PROVE  upc'[r] \notin {"insertRow", "listRows", "insert"}
    BY <2>6 DEF Scram!BeginCreate, Scram!Begin, Scram!FirstWrite
  <2>7. ASSUME NEW u \in Users, Scram!BeginDelete(r, u) PROVE upc'[r] \notin {"insertRow", "listRows", "insert"}
    BY <2>7 DEF Scram!BeginDelete, Scram!Begin
  <2>8. \/ Scram!BeginSync(r) \/ Scram!DeleteKafka(r)
        \/ Scram!InsertCreated(r) \/ Scram!DeleteRow(r) \/ Scram!Synced(r) \/ Scram!Abort(r)
        => upc'[r] \notin {"insertRow", "listRows", "insert"}
    BY DEF Scram!BeginSync, Scram!Begin, Scram!DeleteKafka, Scram!InsertCreated,
           Scram!DeleteRow, Scram!Synced, Scram!Abort, Scram!Clear, Scram!Go
  <2>. QED BY <1>2, <2>1, <2>2, <2>3, <2>4, <2>5, <2>6, <2>7, <2>8 DEF Scram!RequestStep
<1>. QED BY <1>1, <1>2

\* A row that is there or comes: the same as before, or one whose credential is there.
LEMMA RowsThatCome ==
  ASSUME Scram!ScramAssumption, CredentialsInv, NEW r \in Requests, Scram!RequestStep(r), NEW u \in Users,
         row'[u] # NoRow, row'[u] # row[u]
  PROVE  row'[u].mechanism \in kafka'[u] \/ u \in excused'
<1>. USE DEF CredentialsInv, ScramTypes, Scram!TypeOK
<1>1. CASE Scram!InsertCreated(r)
  <2>1. Scram!InsertRow(asked[r].user, asked[r].mechanism) /\ UNCHANGED <<kafka, excused>>
        /\ asked[r].user \in Users /\ asked[r].mechanism \in Mechanisms /\ upc[r] = "insertRow"
    BY <1>1 DEF Scram!InsertCreated, TaskOK
  <2>2. asked[r].user = u /\ row'[u].mechanism = asked[r].mechanism
    BY <2>1, InsertedRow
  <2>. QED BY <2>1, <2>2 DEF Fresh
<1>2. ASSUME NEW w \in Users, Scram!InsertListed(r, w) PROVE row'[u].mechanism \in kafka'[u] \/ u \in excused'
  <2>1. PICK m \in listed[r][w] : Scram!InsertRow(w, m)
    BY <1>2 DEF Scram!InsertListed
  <2>2. m \in Mechanisms /\ UNCHANGED <<kafka, excused>> /\ upc[r] = "insert"
    BY <1>2, <2>1 DEF Scram!InsertListed
  <2>3. w = u /\ row'[u].mechanism = m
    BY <2>1, <2>2, InsertedRow
  <2>. QED BY <2>1, <2>2, <2>3 DEF Fresh
<1>3. CASE Scram!DeleteRow(r)
  BY <1>3 DEF Scram!DeleteRow, TaskOK
<1>. QED BY <1>1, <1>2, <1>3 DEF Scram!RequestStep, Scram!BeginCreate, Scram!BeginDelete, Scram!BeginSync, Scram!Begin,
       Scram!Upsert, Scram!DeleteKafka, Scram!ListKafka, Scram!ListRows, Scram!InsertRefused, Scram!Synced, Scram!Abort

\* A request that is about to delete a row does, or leaves its user excused.
LEMMA DeletionGoesOn ==
  ASSUME CredentialsInv, NEW r \in Requests, Scram!RequestStep(r), NEW q \in Requests, upc[q] = "deleteRow",
         row[asked[q].user] # NoRow, asked[q].id = row[asked[q].user].id
  PROVE  \/ row'[asked[q].user] = NoRow \/ asked[q].user \in excused'
         \/ upc'[q] = "deleteRow" /\ asked'[q] = asked[q]
<1>. USE DEF CredentialsInv, ScramTypes, Scram!TypeOK
<1>1. CASE q # r
  BY <1>1, ScramMovesAlone
<1>2. CASE q = r
  <2>1. Scram!DeleteRow(r) \/ Scram!Abort(r)
    BY <1>2 DEF Scram!RequestStep, Scram!BeginCreate, Scram!BeginDelete, Scram!BeginSync, Scram!Begin,
         Scram!Upsert, Scram!InsertCreated, Scram!DeleteKafka, Scram!ListKafka, Scram!ListRows,
         Scram!InsertListed, Scram!InsertRefused, Scram!Synced
  <2>2. Scram!DeleteRow(r) => row'[asked[q].user] = NoRow
    BY <1>2 DEF Scram!DeleteRow, TaskOK
  <2>3. Scram!Abort(r) => asked[q].user \in excused'
    BY <1>2 DEF Scram!Abort
  <2>. QED BY <2>1, <2>2, <2>3
<1>. QED BY <1>1, <1>2

\* No step leaves a row without its credential, other than those excused.
LEMMA BackedStep ==
  ASSUME Scram!ScramAssumption, CredentialsInv, NEW r \in Requests, Scram!RequestStep(r), NEW u \in Users
  PROVE  Backed(u)'
<1>. USE DEF CredentialsInv, ScramTypes, Scram!TypeOK
<1>. SUFFICES ASSUME row'[u] # NoRow, row'[u].mechanism \notin kafka'[u], u \notin excused'
              PROVE  \E q \in Requests : upc'[q] = "deleteRow" /\ asked'[q].user = u /\ asked'[q].id = row'[u].id
  BY DEF Backed
<1>1. row'[u] = row[u] /\ u \notin excused
  BY RowsThatCome, CredentialsOfRequest
<1>2. CASE row[u].mechanism \notin kafka[u]
  <2>1. PICK q \in Requests : upc[q] = "deleteRow" /\ asked[q].user = u /\ asked[q].id = row[u].id
    BY <1>1, <1>2 DEF Backed
  <2>. QED BY <1>1, <2>1, DeletionGoesOn
<1>3. CASE row[u].mechanism \in kafka[u]
  <2>1. Scram!DeleteKafka(r) /\ asked[r].user = u /\ alone[r]
    BY <1>1, <1>3, CredentialsOfRequest
  <2>2. upc'[r] = "deleteRow" /\ asked'[r] = asked[r] /\ upc[r] = "deleteKafka"
    BY <2>1 DEF Scram!DeleteKafka, Scram!Go
  <2>3. row[u].id = asked[r].id
    BY <2>1, <2>2 DEF KeepsRow
  <2>. QED BY <1>1, <2>1, <2>2, <2>3
<1>. QED BY <1>2, <1>3

LEMMA CredentialsStep ==
  ASSUME Scram!ScramAssumption, CredentialsInv, [Scram!Next]_(Scram!scramVars)
  PROVE  CredentialsInv'
<1>1. ScramTypes'
  BY ScramTypesStep DEF CredentialsInv
<1>2. ASSUME NEW r \in Requests, Scram!RequestStep(r) PROVE CredentialsInv'
  <2>1. \A q \in Requests : Apart(q)' /\ KeepsRow(q)' /\ Fresh(q)'
    BY <1>2, ApartStep, KeepsRowStep, FreshStep DEF CredentialsInv
  <2>. QED BY <1>1, <1>2, <2>1, BackedStep DEF CredentialsInv
<1>3. ASSUME NEW u \in Users, NEW ms \in SUBSET Mechanisms, Scram!ChangeOutside(u, ms) PROVE CredentialsInv'
  <2>1. /\ kafka' = [kafka EXCEPT ![u] = ms] /\ UNCHANGED <<row, upc, asked, listed, alone>>
        /\ excused' = IF kafka[u] \ ms # {} THEN excused \cup {u} ELSE excused
    BY <1>3 DEF Scram!ChangeOutside, Scram!Credentials
  <2>2. excused \subseteq excused' /\ \A w \in Users : kafka[w] \subseteq kafka'[w] \/ w \in excused'
    BY <2>1 DEF CredentialsInv, ScramTypes, Scram!TypeOK
  <2>3. \A q \in Requests : Apart(q)' /\ KeepsRow(q)'
    BY <2>1 DEF CredentialsInv, Apart, KeepsRow, Scram!About
  <2>4. \A q \in Requests : upc[q] = "insertRow" => asked[q].user \in Users
    BY DEF CredentialsInv, ScramTypes, TaskOK
  <2>5. \A q \in Requests : Fresh(q)'
    BY <2>1, <2>2, <2>4 DEF CredentialsInv, Fresh
  <2>6. \A w \in Users : Backed(w)'
    BY <2>1, <2>2 DEF CredentialsInv, Backed
  <2>. QED BY <1>1, <2>3, <2>5, <2>6 DEF CredentialsInv
<1>4. CASE UNCHANGED Scram!scramVars
  BY <1>1, <1>4 DEF CredentialsInv, Apart, KeepsRow, Fresh, Backed, Scram!About, Scram!scramVars
<1>. QED BY <1>2, <1>3, <1>4 DEF Scram!Next

\* CreateUser, DeleteUser and SyncUsers write Kafka before the table, each from what it
\* read before: a row is without its credential only while its deletion is at the second
\* write, or after another tool, a deletion that failed between its writes, or one that
\* overlapped another request about the user.
THEOREM RowsHaveCredentialsAlways == Scram!Spec => []RowsHaveCredentials
<1>. USE ServicesAssumption
<1>1. Scram!Init => CredentialsInv
  BY ScramTypesInit DEF Scram!Init, CredentialsInv, Apart, KeepsRow, Fresh, Backed
<1>2. CredentialsInv /\ [Scram!Next]_(Scram!scramVars) => CredentialsInv'
  BY CredentialsStep
<1>3. CredentialsInv => RowsHaveCredentials
  BY DEF CredentialsInv, Backed, RowsHaveCredentials, Scram!RowsHaveCredentials
<1>. QED BY <1>1, <1>2, <1>3, PTL DEF Scram!Spec

-----------------------------------------------------------------------------
(* The lag report                                                           *)

\* What the report has read so far, by its step.
Phases ==
  /\ lpc = "idle" => \A g \in Groups, p \in Partitions : offsets[g][p] = None /\ endThen[g][p] = 0
  /\ lpc \in {"idle", "offsets"} => \A p \in Partitions : ends[p] = None
  /\ lpc \in {"idle", "offsets", "ends"} => \A p \in Partitions : starts[p] = None
  /\ lpc # "lags" => \A g \in Groups, p \in Partitions : report[g][p] = None
  /\ lpc \in {"starts", "lags"} => \A p \in Lag!Wanted : ends[p] # None
  /\ lpc = "lags" /\ ages => \A p \in Lag!Wanted : starts[p] # None

\* What was read of a partition against what is there.
Reads ==
  \A p \in Partitions :
    /\ first[p] <= last[p]
    /\ p \notin recreated =>
         /\ \A g \in Groups : endThen[g][p] <= last[p]
         /\ ends[p] \notin {None, 0} => ends[p] <= last[p] /\ \A g \in Groups : endThen[g][p] <= ends[p]
         /\ starts[p] # None => starts[p] <= first[p]

\* The lines of the report.
Lines ==
  \A g \in Groups, p \in Partitions :
    report[g][p] # None =>
      /\ offsets[g][p] # None
      /\ report[g][p].lag = Lag!Lag(g, p)
      /\ ages /\ p \notin recreated /\ faults = 0 /\ report[g][p].lag > 0 /\ offsets[g][p] >= first[p]
           => report[g][p].age # None

LagInv == Lag!TypeOK /\ Phases /\ Reads /\ Lines

-----------------------------------------------------------------------------
LEMMA LagConstants ==
  ASSUME Lag!LagAssumption
  PROVE  None \notin Lag!Offsets /\ 0 \in Lag!Offsets /\ Lag!Offsets \subseteq Nat
         /\ MaxOffset \in Nat /\ MaxLagFaults \in Nat /\ MaxRecreations \in Nat
  BY DEF Lag!LagAssumption, Lag!Offsets

LEMMA ProduceKeepsLag ==
  ASSUME Lag!LagAssumption, LagInv, NEW p \in Partitions, NEW n \in 1..2, Lag!Produce(p, n)
  PROVE  LagInv'
<1>. USE LagConstants DEF LagInv, Lag!Produce, Lag!reportVars
<1>1. Lag!TypeOK'
  BY DEF Lag!TypeOK
<1>2. Phases' /\ Lines'
  BY DEF Phases, Lines, Lag!Wanted, Lag!Lag
<1>3. Reads'
  BY DEF Reads, Lag!TypeOK
<1>. QED BY <1>1, <1>2, <1>3

LEMMA CommitKeepsLag ==
  ASSUME Lag!LagAssumption, LagInv, NEW g \in Groups, NEW p \in Partitions, NEW o \in Lag!Offsets,
         Lag!Commit(g, p, o)
  PROVE  LagInv'
<1>. USE LagConstants DEF LagInv, Lag!Commit, Lag!reportVars
<1>1. Lag!TypeOK'
  BY DEF Lag!TypeOK
<1>2. Phases' /\ Lines' /\ Reads'
  BY DEF Phases, Lines, Reads, Lag!Wanted, Lag!Lag
<1>. QED BY <1>1, <1>2

\* Retention moves the start on, never past the end.
LEMMA RetentionKeepsLag ==
  ASSUME Lag!LagAssumption, LagInv, NEW p \in Partitions, NEW o \in Lag!Offsets, Lag!Retention(p, o)
  PROVE  LagInv'
<1>. USE LagConstants DEF LagInv, Lag!Retention, Lag!reportVars
<1>1. Lag!TypeOK'
  BY DEF Lag!TypeOK
<1>2. Phases'
  BY DEF Phases, Lag!Wanted
<1>3. Reads'
  BY DEF Reads, Lag!TypeOK
<1>4. Lines'
  BY DEF Lines, Lag!Lag, Lag!TypeOK
<1>. QED BY <1>1, <1>2, <1>3, <1>4

\* A partition made anew starts from zero; nothing read of it before is compared.
LEMMA RecreateKeepsLag ==
  ASSUME Lag!LagAssumption, LagInv, NEW p \in Partitions, Lag!Recreate(p)
  PROVE  LagInv'
<1>. USE LagConstants DEF LagInv, Lag!Recreate, Lag!reportVars
<1>1. Lag!TypeOK'
  <2>1. commit' \in [Groups -> [Partitions -> Lag!Offsets \cup {None}]]
    BY DEF Lag!TypeOK
  <2>2. recreations' \in 0..MaxRecreations /\ recreated' \in SUBSET Partitions
    BY DEF Lag!TypeOK
  <2>. QED BY <2>1, <2>2 DEF Lag!TypeOK
<1>2. Phases'
  BY DEF Phases, Lag!Wanted
<1>3. Reads'
  BY DEF Reads, Phases, Lag!TypeOK
<1>4. Lines'
  BY DEF Lines, Phases, Lag!Lag, Lag!TypeOK
<1>. QED BY <1>1, <1>2, <1>3, <1>4

\* Failed calls are counted: if the count is 0, none has failed.
LEMMA FaultCounts ==
  ASSUME Lag!LagAssumption, Lag!TypeOK, Lag!Fault \/ UNCHANGED faults
  PROVE  faults' \in 0..MaxLagFaults /\ (faults' = 0 => faults = 0 /\ ~Lag!Fault)
  BY LagConstants DEF Lag!TypeOK, Lag!Fault

LEMMA BeginKeepsLag ==
  ASSUME Lag!LagAssumption, LagInv, NEW described \in SUBSET Groups, NEW all \in BOOLEAN,
         Lag!Begin(described, all)
  PROVE  LagInv'
<1>. USE LagConstants DEF LagInv, Lag!Begin, Lag!logVars
<1>0. faults' \in 0..MaxLagFaults
  BY FaultCounts
<1>1. Lag!TypeOK'
  BY <1>0 DEF Lag!TypeOK
<1>2. Phases'
  BY DEF Phases, Lag!Wanted
<1>3. Reads' /\ Lines'
  BY DEF Reads, Lines, Phases
<1>. QED BY <1>1, <1>2, <1>3

LEMMA ReadOffsetsKeepsLag ==
  ASSUME Lag!LagAssumption, LagInv, NEW g \in Groups, Lag!ReadOffsets(g)
  PROVE  LagInv'
<1>. USE LagConstants DEF LagInv, Lag!ReadOffsets, Lag!logVars
<1>0. faults' \in 0..MaxLagFaults
  BY FaultCounts
<1>1. Lag!TypeOK'
  BY <1>0 DEF Lag!TypeOK
<1>2. Phases'
  BY DEF Phases, Lag!Wanted
<1>3. Reads'
  <2>1. \A h \in Groups, p \in Partitions : endThen'[h][p] = endThen[h][p] \/ endThen'[h][p] = last[p]
    BY DEF Lag!TypeOK
  <2>. QED BY <2>1 DEF Reads, Phases, Lag!TypeOK
<1>4. Lines'
  BY DEF Lines, Phases
<1>. QED BY <1>1, <1>2, <1>3, <1>4

LEMMA ReadEndKeepsLag ==
  ASSUME Lag!LagAssumption, LagInv, NEW p \in Partitions, Lag!ReadEnd(p)
  PROVE  LagInv'
<1>. USE LagConstants DEF LagInv, Lag!ReadEnd, Lag!logVars
<1>0. faults' \in 0..MaxLagFaults
  BY FaultCounts
<1>1. Lag!TypeOK'
  BY <1>0 DEF Lag!TypeOK
<1>2. Phases'
  BY DEF Phases, Lag!Wanted
<1>3. Reads'
  <2>1. ends'[p] \in {last[p], 0} /\ \A q \in Partitions \ {p} : ends'[q] = ends[q]
    BY DEF Lag!TypeOK
  <2>2. last[p] \in Lag!Offsets
    BY DEF Lag!TypeOK
  <2>. QED BY <2>1, <2>2 DEF Reads
<1>4. Lines'
  BY DEF Lines, Phases
<1>. QED BY <1>1, <1>2, <1>3, <1>4

LEMMA ReadStartKeepsLag ==
  ASSUME Lag!LagAssumption, LagInv, NEW p \in Partitions, Lag!ReadStart(p)
  PROVE  LagInv'
<1>. USE LagConstants DEF LagInv, Lag!ReadStart, Lag!logVars
<1>0. faults' \in 0..MaxLagFaults
  BY FaultCounts
<1>1. Lag!TypeOK'
  BY <1>0 DEF Lag!TypeOK
<1>2. Phases'
  BY DEF Phases, Lag!Wanted
<1>3. Reads'
  BY DEF Reads, Lag!TypeOK
<1>4. Lines'
  BY DEF Lines, Phases
<1>. QED BY <1>1, <1>2, <1>3, <1>4

\* The next step of a report that has read what the last one reads.
LEMMA PhaseKeepsLag ==
  ASSUME LagInv, Lag!AllRead \/ Lag!EndsRead \/ Lag!StartsRead
  PROVE  LagInv'
<1>. USE DEF LagInv, Lag!AllRead, Lag!EndsRead, Lag!StartsRead, Lag!logVars
<1>1. Lag!TypeOK'
  BY DEF Lag!TypeOK
<1>2. Phases'
  BY DEF Phases, Lag!Wanted
<1>3. Reads' /\ Lines'
  BY DEF Reads, Lines, Phases
<1>. QED BY <1>1, <1>2, <1>3

LEMMA ClearKeepsLag ==
  ASSUME Lag!LagAssumption, LagInv, Lag!Clear, Lag!Fault \/ UNCHANGED faults
  PROVE  LagInv'
<1>. USE LagConstants DEF LagInv, Lag!Clear, Lag!logVars, Lag!NoTable, Lag!NoValue
<1>0. faults' \in 0..MaxLagFaults
  BY FaultCounts
<1>1. Lag!TypeOK'
  BY <1>0 DEF Lag!TypeOK
<1>2. Phases'
  BY DEF Phases, Lag!Wanted
<1>3. Reads'
  BY DEF Reads, Lag!TypeOK
<1>4. Lines'
  BY DEF Lines
<1>. QED BY <1>1, <1>2, <1>3, <1>4

\* A line of the report follows from the readings, by GetConsumerGroupLag's rules.
LEMMA ComputeKeepsLag ==
  ASSUME Lag!LagAssumption, LagInv, NEW g \in Groups, NEW p \in Partitions, Lag!Compute(g, p)
  PROVE  LagInv'
<1>. USE LagConstants DEF LagInv, Lag!logVars
<1>. DEFINE o == offsets[g][p]
<1>1. PICK age \in Lag!Offsets \cup {None} :
        /\ report' = [report EXCEPT ![g][p] = [lag |-> Lag!Lag(g, p), age |-> age]]
        /\ \/ /\ ages /\ Lag!Lag(g, p) > 0 /\ ~Lag!Expired(g, p)
              /\ \/ o \in first[p]..(last[p] - 1) /\ Lag!IsTimestamp(p, o, age) /\ UNCHANGED faults
                 \/ o \notin first[p]..(last[p] - 1) /\ age = None /\ UNCHANGED faults
                 \/ age = None /\ Lag!Fault
           \/ ~(ages /\ Lag!Lag(g, p) > 0 /\ ~Lag!Expired(g, p)) /\ age = None /\ UNCHANGED faults
  BY DEF Lag!Compute
<1>2. /\ lpc = "lags" /\ o # None
      /\ UNCHANGED <<Lag!logVars, lpc, ages, toRead, offsets, ends, starts, endThen, recreated, recreations>>
  BY DEF Lag!Compute
<1>3. o \in Lag!Offsets /\ ends[p] \in Lag!Offsets /\ (ages => starts[p] \in Lag!Offsets)
  BY <1>2 DEF Phases, Lag!Wanted, Lag!TypeOK
<1>4. Lag!Lag(g, p) \in Lag!Offsets
  BY <1>3 DEF Lag!Lag, Lag!Offsets
<1>5. faults' \in 0..MaxLagFaults /\ (faults' = 0 => faults = 0 /\ ~Lag!Fault)
  BY <1>1, FaultCounts
<1>. DEFINE line == [lag |-> Lag!Lag(g, p), age |-> age]
<1>6. line \in [lag : Lag!Offsets, age : Lag!Offsets \cup {None}] /\ line.lag = Lag!Lag(g, p) /\ line.age = age
  BY <1>4
<1>7. report' = [report EXCEPT ![g][p] = line]
  BY <1>1
<1>. HIDE DEF line
<1>8. Lag!TypeOK'
  BY <1>2, <1>5, <1>6, <1>7 DEF Lag!TypeOK
<1>9. Phases' /\ Reads'
  BY <1>2 DEF Phases, Reads, Lag!Wanted
<1>10. report'[g][p] = line /\ \A h \in Groups, q \in Partitions : <<h, q>> # <<g, p>> => report'[h][q] = report[h][q]
  BY <1>7 DEF Lag!TypeOK
<1>11. ASSUME ages, p \notin recreated, faults' = 0, Lag!Lag(g, p) > 0, o >= first[p]
       PROVE  age # None
  <2>1. o < ends[p] /\ ends[p] <= last[p]
    BY <1>3, <1>11 DEF Lag!Lag, Reads, Lag!Offsets
  <2>2. ~Lag!Expired(g, p)
    <3>1. starts[p] # None /\ starts[p] \in Lag!Offsets /\ first[p] \in Lag!Offsets
      BY <1>3, <1>11 DEF Lag!TypeOK
    <3>2. starts[p] <= first[p]
      BY <1>11, <3>1 DEF Reads
    <3>. QED BY <1>3, <1>11, <3>1, <3>2 DEF Lag!Expired
  <2>3. o \in first[p]..(last[p] - 1)
    BY <1>3, <1>11, <2>1 DEF Lag!Offsets, Lag!TypeOK
  <2>4. Lag!IsTimestamp(p, o, age)
    BY <1>1, <1>5, <1>11, <2>2, <2>3
  <2>. QED BY <2>4 DEF Lag!IsTimestamp, Lag!TypeOK
<1>12. Lines'
  <2>1. /\ offsets'[g][p] # None /\ line.lag = Lag!Lag(g, p)'
        /\ ages' /\ p \notin recreated' /\ faults' = 0 /\ line.lag > 0 /\ offsets'[g][p] >= first'[p]
             => line.age # None
    BY <1>2, <1>6, <1>11 DEF Lag!Lag
  <2>2. ASSUME NEW h \in Groups, NEW q \in Partitions, <<h, q>> # <<g, p>>, report'[h][q] # None
        PROVE  /\ offsets'[h][q] # None /\ report'[h][q].lag = Lag!Lag(h, q)'
               /\ ages' /\ q \notin recreated' /\ faults' = 0 /\ report'[h][q].lag > 0
                    /\ offsets'[h][q] >= first'[q] => report'[h][q].age # None
    BY <1>2, <1>5, <1>10, <2>2 DEF Lines, Lag!Lag
  <2>. QED BY <1>10, <2>1, <2>2 DEF Lines
<1>. QED BY <1>8, <1>9, <1>12

LEMMA LagInvStep ==
  ASSUME Lag!LagAssumption, LagInv, [Lag!Next]_(Lag!lagVars)
  PROVE  LagInv'
<1>1. CASE Lag!ReportStep
  <2>1. ASSUME NEW g \in Groups, Lag!Begin({g}, FALSE) PROVE LagInv'
    BY <2>1, BeginKeepsLag
  <2>2. Lag!Refused \/ Lag!Close => LagInv'
    BY ClearKeepsLag DEF Lag!Refused, Lag!Close
  <2>. QED BY <1>1, <2>1, <2>2, BeginKeepsLag, ReadOffsetsKeepsLag, PhaseKeepsLag, ReadEndKeepsLag,
              ReadStartKeepsLag, ComputeKeepsLag DEF Lag!ReportStep
<1>2. CASE UNCHANGED Lag!lagVars
  <2>. USE DEF Lag!lagVars, LagInv
  <2>1. Lag!TypeOK'
    BY <1>2 DEF Lag!TypeOK
  <2>2. Phases' /\ Reads' /\ Lines'
    BY <1>2 DEF Phases, Reads, Lines, Lag!Lag, Lag!Wanted
  <2>. QED BY <2>1, <2>2
<1>. QED BY <1>1, <1>2, ProduceKeepsLag, CommitKeepsLag, RetentionKeepsLag, RecreateKeepsLag DEF Lag!Next

LEMMA LagInvInit ==
  ASSUME Lag!LagAssumption, Lag!Init
  PROVE  LagInv
<1>. USE LagConstants DEF Lag!Init, Lag!NoTable, Lag!NoValue
<1>1. Lag!TypeOK
  <2>1. commit \in [Groups -> [Partitions -> Lag!Offsets \cup {None}]] /\ offsets = commit
    OBVIOUS
  <2>2. report \in [Groups -> [Partitions -> [lag : Lag!Offsets, age : Lag!Offsets \cup {None}] \cup {None}]]
    OBVIOUS
  <2>3. first \in [Partitions -> Lag!Offsets] /\ endThen \in [Groups -> [Partitions -> Lag!Offsets]]
    OBVIOUS
  <2>4. recreations \in 0..MaxRecreations /\ faults \in 0..MaxLagFaults
    OBVIOUS
  <2>. QED BY <2>1, <2>2, <2>3, <2>4 DEF Lag!TypeOK
<1>2. Phases /\ Reads /\ Lines
  BY DEF Phases, Reads, Lines
<1>. QED BY <1>1, <1>2 DEF LagInv

LEMMA LagInvAlways == Lag!Spec => []LagInv
<1>. USE ServicesAssumption
<1>1. Lag!Init => LagInv
  BY LagInvInit
<1>2. LagInv /\ [Lag!Next]_(Lag!lagVars) => LagInv'
  BY LagInvStep
<1>. QED BY <1>1, <1>2, PTL DEF Lag!Spec

\* The lag is computed from commits, ends and starts that were read one after the other
\* while the log moved: it covers what was waiting when the commits were read and counts
\* no message that is not there.
THEOREM BacklogShownAlways == Lag!Spec => []BacklogShown
<1>1. LagInv => BacklogShown
  <2>. SUFFICES ASSUME LagInv, NEW g \in Groups, NEW p \in Partitions,
                       report[g][p] # None, p \notin recreated, ends[p] # 0
                PROVE  /\ offsets[g][p] + report[g][p].lag >= endThen[g][p]
                       /\ report[g][p].lag > 0 => offsets[g][p] + report[g][p].lag <= last[p]
    BY DEF BacklogShown, Lag!BacklogShown
  <2>. USE ServicesAssumption, LagConstants
  <2>1. lpc = "lags" /\ offsets[g][p] # None /\ report[g][p].lag = Lag!Lag(g, p)
    BY DEF LagInv, Lines, Phases
  <2>2. ends[p] # None
    BY <2>1 DEF LagInv, Phases, Lag!Wanted
  <2>3. ends[p] <= last[p] /\ endThen[g][p] <= ends[p]
    BY <2>2 DEF LagInv, Reads
  <2>4. /\ ends[p] \in Lag!Offsets /\ offsets[g][p] \in Lag!Offsets /\ endThen[g][p] \in Lag!Offsets
        /\ last[p] \in Lag!Offsets
    BY <2>1, <2>2 DEF LagInv, Lag!TypeOK
  <2>. QED BY <2>1, <2>3, <2>4 DEF Lag!Lag
<1>. QED BY <1>1, LagInvAlways, PTL

\* Retention moves the start between the calls and after them: a backlog whose first
\* message is still there has an age, unless a call failed.
THEOREM BacklogHasAgeAlways == Lag!Spec => []BacklogHasAge
<1>1. LagInv => BacklogHasAge
  BY DEF LagInv, Lines, BacklogHasAge, Lag!BacklogHasAge
<1>. QED BY <1>1, LagInvAlways, PTL

-----------------------------------------------------------------------------
(* The three services together                                             *)

\* A service that a behaviour is not about does not move.
LEMMA ServicesParts ==
  ASSUME [SumNext]_<<part, clusterVars, usersVars, reportVars>>
  PROVE  [Next]_clusterVars /\ [Scram!Next]_(Scram!scramVars) /\ [Lag!Next]_(Lag!lagVars)
  BY DEF SumNext, ClustersStep, ScramStep, LagStep, usersVars, reportVars, Scram!scramVars, Lag!lagVars

\* Every variable of the three services keeps its type.
THEOREM ServicesTypes == SumSpec => []TypesOK
<1>. USE ClustersAssumption, ServicesAssumption
<1>. DEFINE Inv == ClustersInv /\ ScramTypes /\ LagInv
<1>1. SumInit => Inv
  BY ClustersInit, ScramTypesInit, LagInvInit DEF SumInit
<1>2. Inv /\ [SumNext]_<<part, clusterVars, usersVars, reportVars>> => Inv'
  BY ServicesParts, ClustersInvStep, ScramTypesStep, LagInvStep
<1>3. Inv => TypesOK
  BY DEF ClustersInv, ScramTypes, LagInv, TypesOK
<1>. QED BY <1>1, <1>2, <1>3, PTL DEF SumSpec
=============================================================================
