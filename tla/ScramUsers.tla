------------------------------- MODULE ScramUsers -------------------------------
(***************************************************************************)
(* SCRAM users of one Kafka cluster: the credentials that Kafka keeps, one *)
(* per user and mechanism, and the rows of scram_users, one per user.      *)
(* CreateUser and DeleteUser write to Kafka first and to the table second; *)
(* SyncUsers reads both lists and inserts the rows that are missing.       *)
(***************************************************************************)
EXTENDS Naturals

CONSTANTS
  Users, Mechanisms,
  Requests,      \* slots of concurrent requests
  NoUser, NoRow,
  MaxRows,       \* bound: rows that the table numbers
  MaxOutside     \* bound: changes that other tools make in Kafka, and failed inserts of a sync

ScramAssumption ==
  /\ NoUser \notin Users /\ Mechanisms # {}
  /\ NoRow \notin [id : 1..MaxRows, mechanism : Mechanisms]
  /\ MaxRows \in Nat /\ MaxOutside \in Nat

Rows == [id : 1..MaxRows, mechanism : Mechanisms]

VARIABLES
  kafka,     \* kafka[u]: the mechanisms for which u has a credential
  row,       \* row[u]
  numbered,  \* ids that the table has given
  upc,       \* upc[r]: the next step of request r
  asked,     \* asked[r]: the user, the mechanism and the row that r works on
  listed,    \* listed[r]: what SyncUsers read from Kafka
  missing,   \* missing[r]: users that SyncUsers has yet to insert
  alone,     \* history: alone[r]: no other request about r's user has overlapped r
  steady,    \* history: users that have had a credential ever since r began
  rowGone,   \* history: users whose row has been deleted, or whose insert failed, since r began
  excused,   \* history: users whose credential went while its row stayed, by no fault of the order
  outside

scramVars ==
  <<kafka, row, numbered, upc, asked, listed, missing, alone, steady, rowGone, excused, outside>>

NoTask == [user |-> NoUser, mechanism |-> CHOOSE m \in Mechanisms : TRUE, id |-> 0]

-----------------------------------------------------------------------------
Init ==
  /\ kafka \in [Users -> SUBSET Mechanisms]
  /\ row = [u \in Users |-> NoRow] /\ numbered = 0
  /\ upc = [r \in Requests |-> "idle"]
  /\ asked = [r \in Requests |-> NoTask]
  /\ listed = [r \in Requests |-> [u \in Users |-> {}]]
  /\ missing = [r \in Requests |-> {}]
  /\ alone = [r \in Requests |-> FALSE]
  /\ steady = [r \in Requests |-> {}] /\ rowGone = [r \in Requests |-> {}]
  /\ excused = {}
  /\ outside = 0

Count == outside < MaxOutside /\ outside' = outside + 1

\* The users whom a request is about.
About(r) == IF upc[r] = "idle" THEN {} ELSE IF asked[r].user = NoUser THEN Users ELSE {asked[r].user}

Begin(r, step, task) ==
  /\ upc[r] = "idle"
  /\ upc' = [upc EXCEPT ![r] = step]
  /\ asked' = [asked EXCEPT ![r] = task]
  /\ alone' = [q \in Requests |->
       IF q = r THEN \A p \in Requests \ {r} : About(p) \cap About(r)' = {}
       ELSE alone[q] /\ About(q) \cap About(r)' = {}]
  /\ steady' = [steady EXCEPT ![r] = {u \in Users : kafka[u] # {}}]
  /\ UNCHANGED <<kafka, row, numbered, listed, missing, rowGone, excused, outside>>

Go(r, step) == upc' = [upc EXCEPT ![r] = step]

Clear(r) ==
  /\ Go(r, "idle")
  /\ asked' = [asked EXCEPT ![r] = NoTask]
  /\ listed' = [listed EXCEPT ![r] = [u \in Users |-> {}]]
  /\ missing' = [missing EXCEPT ![r] = {}]
  /\ alone' = [alone EXCEPT ![r] = FALSE]
  /\ steady' = [steady EXCEPT ![r] = {}]

\* A statement, the connection or a call fails, or the process stops.
Abort(r) ==
  /\ upc[r] # "idle"
  /\ Clear(r)
  /\ rowGone' = [rowGone EXCEPT ![r] = {}]
  /\ excused' = IF upc[r] = "deleteRow" THEN excused \cup {asked[r].user} ELSE excused
  /\ UNCHANGED <<kafka, row, numbered, outside>>

Credentials(u, ms) ==
  /\ kafka' = [kafka EXCEPT ![u] = ms]
  /\ steady' = [r \in Requests |-> IF ms = {} THEN steady[r] \ {u} ELSE steady[r]]

InsertRow(u, m) ==
  /\ row[u] = NoRow /\ numbered < MaxRows
  /\ row' = [row EXCEPT ![u] = [id |-> numbered + 1, mechanism |-> m]]
  /\ numbered' = numbered + 1

-----------------------------------------------------------------------------
(* CreateUser                                                               *)

FirstWrite_Row == "insertRow"

\* Kafka first: the row is inserted when the credential is there.
FirstWrite == "upsert"

BeginCreate(r, u, m) ==
  /\ row[u] = NoRow      \* Exists
  /\ Begin(r, FirstWrite, [user |-> u, mechanism |-> m, id |-> 0])

Upsert(r) ==
  /\ upc[r] = "upsert"
  /\ Credentials(asked[r].user, kafka[asked[r].user] \cup {asked[r].mechanism})
  /\ Go(r, "insertRow")
  /\ UNCHANGED <<row, numbered, asked, listed, missing, alone, rowGone, excused, outside>>

\* The row of another creation makes this one fail (Abort).
InsertCreated(r) ==
  /\ upc[r] = "insertRow"
  /\ InsertRow(asked[r].user, asked[r].mechanism)
  /\ Clear(r)
  /\ rowGone' = [rowGone EXCEPT ![r] = {}]
  /\ UNCHANGED <<kafka, excused, outside>>

-----------------------------------------------------------------------------
(* DeleteUser                                                               *)

BeginDelete(r, u) ==
  /\ row[u] # NoRow      \* FindByUsername
  /\ Begin(r, "deleteKafka", [user |-> u, mechanism |-> row[u].mechanism, id |-> row[u].id])

\* Kafka refuses to delete a credential that is not there (Abort).
DeleteKafka(r) ==
  LET u == asked[r].user IN
  /\ upc[r] = "deleteKafka" /\ asked[r].mechanism \in kafka[u]
  /\ Credentials(u, kafka[u] \ {asked[r].mechanism})
  /\ excused' = IF alone[r] THEN excused ELSE excused \cup {u}
  /\ Go(r, "deleteRow")
  /\ UNCHANGED <<row, numbered, asked, listed, missing, alone, rowGone, outside>>

\* Delete by the id that was read.
DeleteRow(r) ==
  LET u == asked[r].user IN
  /\ upc[r] = "deleteRow"
  /\ row' = [row EXCEPT ![u] = IF @ # NoRow /\ @.id = asked[r].id THEN NoRow ELSE @]
  /\ rowGone' = [q \in Requests |-> IF q = r THEN {} ELSE IF upc[q] = "idle" THEN {} ELSE rowGone[q] \cup {u}]
  /\ Clear(r)
  /\ UNCHANGED <<kafka, numbered, excused, outside>>

-----------------------------------------------------------------------------
(* SyncUsers                                                                *)

BeginSync(r) == Begin(r, "listKafka", NoTask)

ListKafka(r) ==
  /\ upc[r] = "listKafka"
  /\ listed' = [listed EXCEPT ![r] = kafka]
  /\ Go(r, "listRows")
  /\ UNCHANGED <<kafka, row, numbered, asked, missing, alone, steady, rowGone, excused, outside>>

ListRows(r) ==
  /\ upc[r] = "listRows"
  /\ missing' = [missing EXCEPT ![r] = {u \in Users : listed[r][u] # {} /\ row[u] = NoRow}]
  /\ Go(r, "insert")
  /\ UNCHANGED <<kafka, row, numbered, asked, listed, alone, steady, rowGone, excused, outside>>

\* The mechanism is the first that Kafka lists.
InsertListed(r, u) ==
  /\ upc[r] = "insert" /\ u \in missing[r]
  /\ \E m \in listed[r][u] : InsertRow(u, m)
  /\ missing' = [missing EXCEPT ![r] = @ \ {u}]
  /\ UNCHANGED <<kafka, upc, asked, listed, alone, steady, rowGone, excused, outside>>

AfterError_Stop(r, u) == {}

\* An insert that fails is logged and the loop goes on.
AfterError(r, u) == missing[r] \ {u}

\* The user has a row by now, or the statement fails.
InsertRefused(r, u) ==
  /\ upc[r] = "insert" /\ u \in missing[r]
  /\ \/ row[u] # NoRow /\ UNCHANGED <<rowGone, outside>>
     \/ Count /\ rowGone' = [rowGone EXCEPT ![r] = @ \cup {u}]
  /\ missing' = [missing EXCEPT ![r] = AfterError(r, u)]
  /\ UNCHANGED <<kafka, row, numbered, upc, asked, listed, alone, steady, excused>>

Synced(r) ==
  /\ upc[r] = "insert" /\ missing[r] = {}
  /\ Clear(r)
  /\ rowGone' = [rowGone EXCEPT ![r] = {}]
  /\ UNCHANGED <<kafka, row, numbered, excused, outside>>

-----------------------------------------------------------------------------
\* Other tools change the credentials.
ChangeOutside(u, ms) ==
  /\ ms # kafka[u] /\ Count
  /\ Credentials(u, ms)
  /\ excused' = IF kafka[u] \ ms # {} THEN excused \cup {u} ELSE excused
  /\ UNCHANGED <<row, numbered, upc, asked, listed, missing, alone, rowGone>>

RequestStep(r) ==
  \/ \E u \in Users : (\E m \in Mechanisms : BeginCreate(r, u, m)) \/ BeginDelete(r, u)
  \/ BeginSync(r) \/ Upsert(r) \/ InsertCreated(r) \/ DeleteKafka(r) \/ DeleteRow(r)
  \/ ListKafka(r) \/ ListRows(r) \/ Synced(r) \/ Abort(r)
  \/ \E u \in Users : InsertListed(r, u) \/ InsertRefused(r, u)

Next ==
  \/ \E r \in Requests : RequestStep(r)
  \/ \E u \in Users, ms \in SUBSET Mechanisms : ChangeOutside(u, ms)

Spec == Init /\ [][Next]_scramVars

-----------------------------------------------------------------------------
TypeOK ==
  /\ kafka \in [Users -> SUBSET Mechanisms]
  /\ row \in [Users -> Rows \cup {NoRow}] /\ numbered \in 0..MaxRows
  /\ upc \in [Requests -> {"idle", "upsert", "insertRow", "deleteKafka", "deleteRow",
                           "listKafka", "listRows", "insert"}]
  /\ asked \in [Requests -> [user : Users \cup {NoUser}, mechanism : Mechanisms, id : 0..MaxRows]]
  /\ listed \in [Requests -> [Users -> SUBSET Mechanisms]]
  /\ missing \in [Requests -> SUBSET Users]
  /\ alone \in [Requests -> BOOLEAN]
  /\ steady \in [Requests -> SUBSET Users] /\ rowGone \in [Requests -> SUBSET Users]
  /\ excused \in SUBSET Users
  /\ outside \in 0..MaxOutside

\* CreateUser, DeleteUser and SyncUsers write Kafka before the table: a row without its
\* credential, which DeleteUser can never delete nor CreateUser replace, comes only from
\* another tool, from a deletion that failed between its two writes, or from one that
\* overlapped another request about the user.
RowsHaveCredentials ==
  \A u \in Users :
    row[u] # NoRow /\ row[u].mechanism \notin kafka[u] =>
      u \in excused \/ \E r \in Requests : upc[r] = "deleteRow" /\ asked[r].user = u

\* SyncUsers works from two lists that are stale when it inserts: when its loop is over,
\* each user who had a credential all the while has a row, if that was not deleted
\* meanwhile and its insert did not fail.
SyncCovers ==
  \A r \in Requests :
    upc[r] = "insert" => \A u \in steady[r] \ (missing[r] \cup rowGone[r]) : row[u] # NoRow
=============================================================================
