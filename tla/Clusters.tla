-------------------------------- MODULE Clusters --------------------------------
(***************************************************************************)
(* Kafka clusters: their rows, the Kerberos files kept in a directory for  *)
(* each, and the uploaded keytabs that wait in memory to be used by a      *)
(* creation.                                                               *)
(*                                                                         *)
(* A creation looks for the name, takes the keytab's bytes, inserts the    *)
(* row once the connection has been tested, and then writes the files,     *)
(* each as a step of its own; the keytab may expire or be deleted in       *)
(* between, and another creation may use the same keytab or the same name. *)
(***************************************************************************)
EXTENDS Naturals, FiniteSets

CONSTANTS
  Ids, NoId,            \* cluster ids
  Names,                \* cluster names
  Keytabs, NoKeytab,    \* identities of uploads; a cluster without Kerberos
  Requests,             \* slots of concurrent requests
  NoRow,
  KeytabTTL,            \* lifetime of an upload, in ticks
  MaxClusterFaults      \* bound: failed lookups and file writes, restarts

ASSUME ClustersAssumption ==
  /\ NoId \notin Ids /\ NoKeytab \notin Keytabs
  /\ NoRow \notin [name : Names, kerberos : BOOLEAN]
  /\ KeytabTTL \in Nat \ {0} /\ MaxClusterFaults \in Nat

\* No entry in the store; an entry with no ticks left has expired.
Empty == KeytabTTL + 1

Rows == [name : Names, kerberos : BOOLEAN]

VARIABLES
  cluster,   \* cluster[c]: the row
  used,      \* ids that the table has given
  files,     \* files[c]: what the directory of c holds
  temp,      \* temp[k]: ticks that globalTempKeytabStore keeps k, or Empty
  cpc,       \* cpc[r]: the next step of request r
  job,       \* job[r]: what r works on
  verified,  \* history: verified[c]: rows that c's creation compared its name with
  saved,     \* history: rows that UpdateCluster has saved
  broken,    \* history: clusters whose files could not be written
  clusterFaults

clusterVars ==
  <<cluster, used, files, temp, cpc, job, verified, saved, broken, clusterFaults>>

NoJob == [id |-> NoId, row |-> NoRow, keytab |-> NoKeytab, data |-> FALSE, seen |-> {}]

Existing == {c \in Ids : cluster[c] # NoRow}

-----------------------------------------------------------------------------
Init ==
  /\ cluster = [c \in Ids |-> NoRow]
  /\ used = {}
  /\ files = [c \in Ids |-> "none"]
  /\ temp = [k \in Keytabs |-> Empty]
  /\ cpc = [r \in Requests |-> "idle"]
  /\ job = [r \in Requests |-> NoJob]
  /\ verified = [c \in Ids |-> {}]
  /\ saved = {} /\ broken = {}
  /\ clusterFaults = 0

Fault == clusterFaults < MaxClusterFaults /\ clusterFaults' = clusterFaults + 1

\* The request answers.
Finish(r) ==
  /\ cpc' = [cpc EXCEPT ![r] = "idle"]
  /\ job' = [job EXCEPT ![r] = NoJob]

Go(r, step) == cpc' = [cpc EXCEPT ![r] = step]

-----------------------------------------------------------------------------
(* Temporary keytabs                                                        *)

\* UploadKeytab: the id is the time of the upload.
UploadKeytab(k) ==
  /\ temp[k] = Empty /\ \A r \in Requests : job[r].keytab # k
  /\ temp' = [temp EXCEPT ![k] = KeytabTTL]
  /\ UNCHANGED <<cluster, used, files, cpc, job, verified, saved, broken, clusterFaults>>

DeleteTempKeytab(k) ==
  /\ temp[k] # Empty
  /\ temp' = [temp EXCEPT ![k] = Empty]
  /\ UNCHANGED <<cluster, used, files, cpc, job, verified, saved, broken, clusterFaults>>

\* tempKeytabStore.get
Held(k) == temp[k] \in 1..KeytabTTL

\* cleanupLoop
Sweep ==
  /\ \E k \in Keytabs : temp[k] = 0
  /\ temp' = [k \in Keytabs |-> IF temp[k] = 0 THEN Empty ELSE temp[k]]
  /\ UNCHANGED <<cluster, used, files, cpc, job, verified, saved, broken, clusterFaults>>

Tick ==
  /\ \E k \in Keytabs : Held(k)
  /\ temp' = [k \in Keytabs |-> IF Held(k) THEN temp[k] - 1 ELSE temp[k]]
  /\ UNCHANGED <<cluster, used, files, cpc, job, verified, saved, broken, clusterFaults>>

-----------------------------------------------------------------------------
(* CreateCluster                                                            *)

NameTaken_Never(n) == FALSE

NameTaken(n) == \E c \in Existing : cluster[c].name = n

\* FindByName; any error counts as "no such name".
BeginCreate(r, n, k) ==
  /\ cpc[r] = "idle"
  /\ \/ ~NameTaken(n) /\ UNCHANGED clusterFaults
     \/ Fault
  /\ Go(r, IF k = NoKeytab THEN "insert" ELSE "prepare")
  /\ job' = [job EXCEPT ![r] =
               [NoJob EXCEPT !.row = [name |-> n, kerberos |-> k # NoKeytab], !.keytab = k,
                             !.seen = IF clusterFaults' = clusterFaults THEN Existing ELSE {}]]
  /\ UNCHANGED <<cluster, used, files, temp, verified, saved, broken>>

\* prepareKerberosAuthConfigForCreate takes the bytes of the keytab; the store keeps them.
Prepare(r) ==
  /\ cpc[r] = "prepare"
  /\ IF Held(job[r].keytab)
     THEN Go(r, "insert") /\ job' = [job EXCEPT ![r].data = TRUE]
     ELSE Finish(r)
  /\ UNCHANGED <<cluster, used, files, temp, verified, saved, broken, clusterFaults>>

\* The table numbers its rows itself, and gives no number twice.
FreshIds_Free == Ids \ Existing

FreshIds == Ids \ used

InsertRow(r) ==
  /\ cpc[r] = "insert"
  /\ \E c \in FreshIds :
       /\ cluster' = [cluster EXCEPT ![c] = job[r].row]
       /\ used' = used \cup {c}
       /\ verified' = [verified EXCEPT ![c] = job[r].seen]
       /\ IF job[r].row.kerberos
          THEN Go(r, "saveConf") /\ job' = [job EXCEPT ![r].id = c]
          ELSE Finish(r)
  /\ UNCHANGED <<files, temp, saved, broken, clusterFaults>>

\* The connection that the new cluster is tested with, the encryption or the insert fails.
CreationFails(r) ==
  /\ cpc[r] = "insert"
  /\ Finish(r)
  /\ UNCHANGED <<cluster, used, files, temp, verified, saved, broken, clusterFaults>>

\* saveKerberosFiles: krb5.conf, then the keytab, from the bytes taken before the test.
SaveConf(r) ==
  /\ cpc[r] = "saveConf"
  /\ files' = [files EXCEPT ![job[r].id] = "conf"]
  /\ Go(r, "saveKeytab")
  /\ UNCHANGED <<cluster, used, temp, job, verified, saved, broken, clusterFaults>>

HasData_Stored(r) == Held(job[r].keytab)

HasData(r) == job[r].data

SaveKeytab(r) ==
  /\ cpc[r] = "saveKeytab"
  /\ files' = [files EXCEPT ![job[r].id] = IF HasData(r) THEN "complete" ELSE @]
  /\ Go(r, "dropTemp")
  /\ UNCHANGED <<cluster, used, temp, job, verified, saved, broken, clusterFaults>>

\* A failed write is logged; the cluster stays.
SaveFails(r) ==
  /\ cpc[r] \in {"saveConf", "saveKeytab"} /\ Fault
  /\ broken' = broken \cup {job[r].id}
  /\ Go(r, "dropTemp")
  /\ UNCHANGED <<cluster, used, files, temp, job, verified, saved>>

DropTemp(r) ==
  /\ cpc[r] = "dropTemp"
  /\ temp' = [temp EXCEPT ![job[r].keytab] = Empty]
  /\ Finish(r)
  /\ UNCHANGED <<cluster, used, files, verified, saved, broken, clusterFaults>>

-----------------------------------------------------------------------------
(* UpdateCluster and DeleteCluster                                          *)

BeginUpdate(r, c, n) ==
  /\ cpc[r] = "idle" /\ c \in Existing
  /\ job' = [job EXCEPT ![r] = [NoJob EXCEPT !.id = c, !.row = [cluster[c] EXCEPT !.name = n]]]
  /\ Go(r, "save")
  /\ UNCHANGED <<cluster, used, files, temp, verified, saved, broken, clusterFaults>>

\* Save writes the whole row, and inserts it when it is no longer there.
SaveRow(r) ==
  /\ cpc[r] = "save"
  /\ cluster' = [cluster EXCEPT ![job[r].id] = job[r].row]
  /\ saved' = saved \cup {job[r].id}
  /\ Finish(r)
  /\ UNCHANGED <<used, files, temp, verified, broken, clusterFaults>>

\* The row goes; the directory with its files stays.
DeleteCluster(c) ==
  /\ c \in Existing
  /\ cluster' = [cluster EXCEPT ![c] = NoRow]
  /\ UNCHANGED <<used, files, temp, cpc, job, verified, saved, broken, clusterFaults>>

\* The store is in memory; a creation may be cut off among its files.
Restart ==
  /\ Fault
  /\ temp' = [k \in Keytabs |-> Empty]
  /\ cpc' = [r \in Requests |-> "idle"]
  /\ job' = [r \in Requests |-> NoJob]
  /\ broken' = broken \cup {job[r].id : r \in {q \in Requests : cpc[q] \in {"saveConf", "saveKeytab"}}}
  /\ UNCHANGED <<cluster, used, files, verified, saved>>

-----------------------------------------------------------------------------
RequestStep(r) ==
  \/ \E n \in Names, k \in Keytabs \cup {NoKeytab} : BeginCreate(r, n, k)
  \/ Prepare(r) \/ InsertRow(r) \/ CreationFails(r)
  \/ SaveConf(r) \/ SaveKeytab(r) \/ SaveFails(r) \/ DropTemp(r)
  \/ \E c \in Ids, n \in Names : BeginUpdate(r, c, n)
  \/ SaveRow(r)

Next ==
  \/ \E r \in Requests : RequestStep(r)
  \/ \E k \in Keytabs : UploadKeytab(k) \/ DeleteTempKeytab(k)
  \/ \E c \in Ids : DeleteCluster(c)
  \/ Sweep \/ Tick \/ Restart

Spec == Init /\ [][Next]_clusterVars

-----------------------------------------------------------------------------
Jobs == [id : Ids \cup {NoId}, row : Rows \cup {NoRow}, keytab : Keytabs \cup {NoKeytab},
         data : BOOLEAN, seen : SUBSET Ids]

Steps == {"idle", "prepare", "insert",
          "saveConf", "saveKeytab", "dropTemp", "save"}

TypeOK ==
  /\ cluster \in [Ids -> Rows \cup {NoRow}]
  /\ used \in SUBSET Ids
  /\ files \in [Ids -> {"none", "conf", "complete"}]
  /\ temp \in [Keytabs -> 0..Empty]
  /\ cpc \in [Requests -> Steps] /\ job \in [Requests -> Jobs]
  /\ verified \in [Ids -> SUBSET Ids]
  /\ saved \in SUBSET Ids /\ broken \in SUBSET Ids
  /\ clusterFaults \in 0..MaxClusterFaults

\* prepareKerberosRuntimeConfig finds krb5.conf and a keytab in the directory.
Usable(c) == files[c] = "complete"

Filing(c) == \E r \in Requests : job[r].id = c /\ cpc[r] \in {"saveConf", "saveKeytab"}

\* CreateCluster, UpdateCluster: a Kerberos cluster whose creation has ended, and of
\* which no write failed, has its files, even if its keytab expired, was deleted or used
\* by another creation after it was read, and if the row was deleted and put back.
KeytabSurvives ==
  \A c \in Existing : cluster[c].kerberos => Usable(c) \/ Filing(c) \/ c \in broken

\* ErrClusterNameExists: two clusters have one name only when each was inserted while
\* the other was being created, when the lookup of the name failed, or when a row was
\* renamed or put back by UpdateCluster.
NamesClash ==
  \A c, d \in Existing \ saved :
    c # d /\ cluster[c].name = cluster[d].name => d \notin verified[c]

-----------------------------------------------------------------------------
\* What the rest of the program sees of it.
Abstract ==
  INSTANCE ClusterRows
    WITH rows <- Existing,
         Updates <- Requests,
         held <- [r \in Requests |-> IF cpc[r] = "save" THEN job[r].id ELSE NoId]

\* Creations, updates, deletions and restarts (cluster_service.go) are, for the rest of
\* the program, the steps of ClusterRows.
ImplementsRows == Abstract!RowsSpec
=============================================================================
