--------------------------------- MODULE Access ---------------------------------
(***************************************************************************)
(* Who may see and change what: the relation of users and clusters, the    *)
(* topic permissions of normal users, and the requests that check them.    *)
(* Every check is a statement of its own, apart from what it guards; the   *)
(* role is the token's, and the table's once GetAllowedTopics reads it.    *)
(*                                                                         *)
(* Rows of both tables refer to a row of the table cluster and go with it; *)
(* ClusterRows says how such a row comes, goes and comes back.             *)
(***************************************************************************)
EXTENDS ClusterRows, Naturals

CONSTANTS
  Users, NoUser,
  Topics,
  Requests,     \* slots of concurrent requests
  MaxAccessOps  \* bound: requests begun, clusters changed and users changed

ASSUME AccessAssumption == NoUser \notin Users /\ MaxAccessOps \in Nat

Roles == {"super_admin", "cluster_admin", "normal_user"}
All      == [restricted |-> FALSE, to |-> {}]
Only(ts) == [restricted |-> TRUE, to |-> ts]

VARIABLES
  role,      \* role[u]: the role in the table user
  was,       \* history: was[u]: the roles for which u may hold a token
  relation,  \* cluster_user_relation
  perm,      \* user_topic_permission
  apc,       \* apc[r]: the next step of request r
  areq,      \* areq[r]: what r asks for, and its answer
  during,    \* history: during[r]: what was so at some moment since r began
  lost,      \* history: pairs whose relation was deleted and not made again
  accessOps

accessVars == <<role, was, relation, perm, apc, areq, during, lost, accessOps>>
vars       == <<rowVars, accessVars>>

NoRequest ==
  [op |-> "none", user |-> NoUser, as |-> "normal_user", cluster |-> NoId,
   target |-> NoUser, topics |-> {}, answer |-> All]

Nothing == [granted |-> FALSE, normal |-> FALSE, topics |-> {}]

-----------------------------------------------------------------------------
Init ==
  /\ rows \in SUBSET Ids /\ used = rows /\ held = [r \in Updates |-> NoId]
  /\ role \in [Users -> Roles]
  /\ was = [u \in Users |-> {role[u]}]
  /\ relation = {} /\ perm = {}
  /\ apc = [r \in Requests |-> "idle"]
  /\ areq = [r \in Requests |-> NoRequest]
  /\ during = [r \in Requests |-> Nothing]
  /\ lost = {}
  /\ accessOps = 0

Count == accessOps < MaxAccessOps /\ accessOps' = accessOps + 1

Go(r, step) == apc' = [apc EXCEPT ![r] = step] /\ UNCHANGED areq

\* The request answers, with an error when it had more to do.
Finish(r) ==
  /\ apc[r] # "idle"
  /\ apc' = [apc EXCEPT ![r] = "idle"]
  /\ areq' = [areq EXCEPT ![r] = NoRequest]
  /\ UNCHANGED <<rowVars, role, was, relation, perm, lost, accessOps>>

\* HasAccess of clusterUserRepository
HasAccess(u, c) == <<u, c>> \in relation

\* ListTopicsByUserCluster
Permitted(u, c) == {t \in Topics : <<u, c, t>> \in perm}

-----------------------------------------------------------------------------
(* ListTopics of a cluster                                                  *)

\* A view names a cluster or none.  The middleware lets one without a cluster pass for any
\* role, and ListTopics then answers with the topics of all clusters, unfiltered.
BeginView(r, u, as, c) ==
  /\ apc[r] = "idle" /\ Count /\ as \in was[u]
  /\ areq' = [areq EXCEPT ![r] =
                [NoRequest EXCEPT !.op = "view", !.user = u, !.as = as, !.cluster = c]]
  /\ apc' = [apc EXCEPT ![r] = IF c = NoId \/ as = "super_admin" THEN "answer" ELSE "check"]
  /\ UNCHANGED <<rowVars, role, was, relation, perm, lost>>

\* CheckClusterPermission, CheckClusterReadPermission for a role other than super_admin.
Allowed_AdminAlways(r) == areq[r].as = "cluster_admin" \/ HasAccess(areq[r].user, areq[r].cluster)

Allowed(r) == HasAccess(areq[r].user, areq[r].cluster)

\* clusterAccessMiddleware; for GrantAccess and RevokeAccess, the handler.  A view by an
\* administrator's token is answered with every topic.
Check(r) ==
  /\ apc[r] = "check" /\ Allowed(r)
  /\ Go(r, IF areq[r].op # "view" THEN "write"
           ELSE IF areq[r].as = "normal_user" THEN "readRole" ELSE "answer")
  /\ UNCHANGED <<rowVars, role, was, relation, perm, lost, accessOps>>

Answer(r, what) ==
  /\ apc' = [apc EXCEPT ![r] = "answer"]
  /\ areq' = [areq EXCEPT ![r].answer = what]

\* GetAllowedTopics: the user's row, then the rows of the permissions.  For one whose row
\* says administrator by now it returns nil, and ListTopics answers with no topic.
ReadRole(r) ==
  /\ apc[r] = "readRole"
  /\ IF role[areq[r].user] = "normal_user" THEN Go(r, "readTopics") ELSE Answer(r, Only({}))
  /\ UNCHANGED <<rowVars, role, was, relation, perm, lost, accessOps>>

ReadTopics(r) ==
  /\ apc[r] = "readTopics"
  /\ Answer(r, Only(Permitted(areq[r].user, areq[r].cluster)))
  /\ UNCHANGED <<rowVars, role, was, relation, perm, lost, accessOps>>

-----------------------------------------------------------------------------
(* GrantAccess, RevokeAccess, AssignTopicPermission, BatchAssignTopicPermission *)

BeginChange(r, op, u, as, c, v, ts) ==
  /\ apc[r] = "idle" /\ Count
  /\ as \in was[u] \cap {"super_admin", "cluster_admin"}
  /\ areq' = [areq EXCEPT ![r] = [NoRequest EXCEPT !.op = op, !.user = u, !.as = as,
                                                    !.cluster = c, !.target = v, !.topics = ts]]
  /\ apc' = [apc EXCEPT ![r] = IF op = "assign" THEN "findUser"
                               ELSE IF as = "cluster_admin" THEN "check" ELSE "write"]
  /\ UNCHANGED <<rowVars, role, was, relation, perm, lost>>

\* A duplicate, or a cluster without a row, is refused by the table.
AddRelation(u, c) ==
  /\ c \in rows /\ <<u, c>> \notin relation
  /\ relation' = relation \cup {<<u, c>>}
  /\ lost' = lost \ {<<u, c>>}

Grant(r) ==
  /\ apc[r] = "write" /\ areq[r].op = "grant"
  /\ AddRelation(areq[r].target, areq[r].cluster)
  /\ Go(r, "answer")
  /\ UNCHANGED <<rowVars, role, was, perm, accessOps>>

\* The topic permissions stay.
Revoke(r) ==
  LET pair == <<areq[r].target, areq[r].cluster>> IN
  /\ apc[r] = "write" /\ areq[r].op = "revoke"
  /\ relation' = relation \ {pair}
  /\ lost' = lost \cup (relation \cap {pair})
  /\ Go(r, "answer")
  /\ UNCHANGED <<rowVars, role, was, perm, accessOps>>

FindUser(r) ==
  /\ apc[r] = "findUser" /\ role[areq[r].target] = "normal_user"
  /\ Go(r, "findCluster")
  /\ UNCHANGED <<rowVars, role, was, relation, perm, lost, accessOps>>

FindCluster(r) ==
  /\ apc[r] = "findCluster" /\ areq[r].cluster \in rows
  /\ Go(r, "findAccess")
  /\ UNCHANGED <<rowVars, role, was, relation, perm, lost, accessOps>>

NeedsAccess_Never(r) == FALSE

NeedsAccess(r) == ~HasAccess(areq[r].target, areq[r].cluster)

FindAccess(r) ==
  /\ apc[r] = "findAccess"
  /\ Go(r, IF NeedsAccess(r) THEN "addAccess" ELSE "addTopics")
  /\ UNCHANGED <<rowVars, role, was, relation, perm, lost, accessOps>>

AddAccess(r) ==
  /\ apc[r] = "addAccess"
  /\ AddRelation(areq[r].target, areq[r].cluster)
  /\ Go(r, "addTopics")
  /\ UNCHANGED <<rowVars, role, was, perm, accessOps>>

\* One transaction: no row is inserted when one of them is there.
AddTopics(r) ==
  LET new == {<<areq[r].target, areq[r].cluster, t>> : t \in areq[r].topics} IN
  /\ apc[r] = "addTopics"
  /\ areq[r].cluster \in rows /\ new \cap perm = {}
  /\ perm' = perm \cup new
  /\ Go(r, "answer")
  /\ UNCHANGED <<rowVars, role, was, relation, lost, accessOps>>

RevokeTopic(u, c, t) ==
  /\ <<u, c, t>> \in perm /\ Count
  /\ perm' = perm \ {<<u, c, t>>}
  /\ UNCHANGED <<rowVars, role, was, relation, apc, areq, lost>>

-----------------------------------------------------------------------------
(* Clusters and users change                                                *)

\* Foreign keys: the rows that refer to the cluster go with it.
RemoveCluster(c) ==
  /\ Remove(c) /\ Count
  /\ relation' = {p \in relation : p[2] # c}
  /\ perm' = {p \in perm : p[2] # c}
  /\ lost' = lost \cup (relation \ relation')
  /\ UNCHANGED <<role, was, apc, areq>>

ChangeCluster ==
  /\ \/ \E c \in Ids : Insert(c) \/ \E r \in Updates : Read(r, c)
     \/ \E r \in Updates : Save(r)
  /\ Count
  /\ UNCHANGED <<role, was, relation, perm, apc, areq, lost>>

\* UpdateUser; tokens keep the role of their login.
ChangeRole(u, to) ==
  /\ role[u] # to /\ Count
  /\ role' = [role EXCEPT ![u] = to]
  /\ was' = [was EXCEPT ![u] = @ \cup {to}]
  /\ UNCHANGED <<rowVars, relation, perm, apc, areq, lost>>

\* What was so while the request ran.
Now(r) ==
  [granted |-> HasAccess(areq[r].user, areq[r].cluster),
   normal |-> areq[r].op = "assign" /\ role[areq[r].target] = "normal_user",
   topics |-> Permitted(areq[r].user, areq[r].cluster)]

Observe ==
  during' = [r \in Requests |->
    IF apc'[r] = "idle" THEN Nothing
    ELSE [granted |-> during[r].granted \/ Now(r)'.granted,
          normal |-> during[r].normal \/ Now(r)'.normal,
          topics |-> during[r].topics \cup Now(r)'.topics]]

RequestStep(r) ==
  \/ \E u \in Users, as \in Roles, c \in Ids \cup {NoId} : BeginView(r, u, as, c)
  \/ \E op \in {"grant", "revoke"}, u, v \in Users, as \in Roles, c \in Ids :
       BeginChange(r, op, u, as, c, v, {})
  \/ \E u, v \in Users, as \in Roles, c \in Ids, ts \in (SUBSET Topics) \ {{}} :
       BeginChange(r, "assign", u, as, c, v, ts)
  \/ Check(r) \/ ReadRole(r) \/ ReadTopics(r)
  \/ Grant(r) \/ Revoke(r)
  \/ FindUser(r) \/ FindCluster(r) \/ FindAccess(r) \/ AddAccess(r) \/ AddTopics(r)
  \/ Finish(r)

Next ==
  /\ \/ \E r \in Requests : RequestStep(r)
     \/ \E u \in Users, c \in Ids, t \in Topics : RevokeTopic(u, c, t)
     \/ \E c \in Ids : RemoveCluster(c)
     \/ ChangeCluster
     \/ \E u \in Users, to \in Roles : ChangeRole(u, to)
  /\ Observe

Spec == Init /\ [][Next]_vars

-----------------------------------------------------------------------------
Requested ==
  [op : {"none", "view", "grant", "revoke", "assign"}, user : Users \cup {NoUser}, as : Roles,
   cluster : Ids \cup {NoId}, target : Users \cup {NoUser}, topics : SUBSET Topics,
   answer : [restricted : BOOLEAN, to : SUBSET Topics]]

Steps == {"idle", "check", "readRole", "readTopics", "write", "findUser", "findCluster",
          "findAccess", "addAccess", "addTopics", "answer"}

TypeOK ==
  /\ rows \in SUBSET Ids /\ used \in SUBSET Ids /\ held \in [Updates -> Ids \cup {NoId}]
  /\ role \in [Users -> Roles] /\ was \in [Users -> SUBSET Roles]
  /\ relation \in SUBSET (Users \X Ids) /\ perm \in SUBSET (Users \X Ids \X Topics)
  /\ apc \in [Requests -> Steps] /\ areq \in [Requests -> Requested]
  /\ lost \in SUBSET (Users \X Ids)
  /\ accessOps \in 0..MaxAccessOps

\* The checks of a request are statements apart from what they guard (GetAllowedTopics,
\* clusterAccessMiddleware, GrantAccess, AssignTopicPermission).  An answered request was
\* entitled to each thing at some moment since it began: to the cluster, unless its token
\* says super_admin; to every topic shown, unless its token says administrator; and what
\* was assigned was assigned to one who was then a normal user.  Only a view that names no
\* cluster was entitled to nothing: nobody checks it, and its answer is of all clusters.
ActsInTime ==
  \A r \in Requests :
    apc[r] = "answer" =>
      LET q == areq[r]
          named == q.op = "view" /\ q.cluster # NoId
      IN  /\ named /\ q.as # "super_admin" => during[r].granted
          /\ q.op \in {"grant", "revoke"} /\ q.as = "cluster_admin" => during[r].granted
          /\ named /\ q.as = "normal_user" =>
               q.answer.restricted /\ q.answer.to \subseteq during[r].topics
          /\ q.op = "assign" => during[r].normal

\* AssignTopicPermission makes the relation first and the permission second, against
\* revocations, deleted clusters and failures in between: who has a topic permission has
\* access to the cluster, unless that was taken away and not granted again.
PermissionBringsAccess == \A p \in perm : <<p[1], p[2]>> \in relation \cup lost
=============================================================================
