------------------------------ MODULE GatewayProofs ------------------------------
(***************************************************************************)
(* What a request passes before its handler.  Whoever has a topic          *)
(* permission has access to the cluster, or has lost it; an answered       *)
(* request was entitled to what it did; a cluster that is gone stays gone; *)
(* a token that was logged out is refused; and the tokens of a session     *)
(* end.  All for any number of users, clusters, topics, tokens, lifetimes, *)
(* failures and concurrent requests.                                       *)
(*                                                                         *)
(* AssignTopicPermission makes the relation in one step and the permission *)
(* in another, so that the first invariant needs Committed: a request that *)
(* is about to write the permission has seen or made the relation.  The    *)
(* one of the blacklist needs Kept, that a copy lasts as long as the       *)
(* promise, and Caught, that a lookup which missed the memory has a row to *)
(* find in the table.                                                      *)
(***************************************************************************)
EXTENDS MCGateway, TLAPS

\* A relation that has once been made is there, or was taken away.
Made(p) == p \in relation \cup lost

\* AssignTopicPermission does not come to the permissions without the relation.
Committed == \A r \in Requests : apc[r] = "addTopics" => Made(<<areq[r].target, areq[r].cluster>>)

\* What the requests are, as far as Committed needs it.
RequestsOK == apc \in [Requests -> Steps] /\ areq \in [Requests -> Requested]

AccessInv == RequestsOK /\ Committed /\ PermissionBringsAccess

\* No step makes a relation unmade.
KeepsMade == relation \cup lost \subseteq relation' \cup lost'

-----------------------------------------------------------------------------
LEMMA AccessInit == Init => AccessInv
<1>. SUFFICES ASSUME Init PROVE AccessInv
  OBVIOUS
<1>1. /\ apc = [r \in Requests |-> "idle"] /\ areq = [r \in Requests |-> NoRequest]
      /\ perm = {}
  BY DEF Init
<1>2. NoRequest \in Requested
  BY DEF NoRequest, Requested, Roles, All
<1>3. RequestsOK
  BY <1>1, <1>2 DEF RequestsOK, Steps
<1>4. Committed /\ PermissionBringsAccess
  BY <1>1 DEF Committed, PermissionBringsAccess
<1>. QED BY <1>3, <1>4 DEF AccessInv

\* A step of one request that does not come to its permissions, and writes none.
LEMMA OtherStep ==
  ASSUME AccessInv, NEW r \in Requests, NEW step \in Steps \ {"addTopics"},
         NEW q \in Requested,
         apc' = [apc EXCEPT ![r] = step], areq' = [areq EXCEPT ![r] = q],
         KeepsMade, perm' \subseteq perm
  PROVE  AccessInv'
<1>1. RequestsOK'
  BY DEF AccessInv, RequestsOK
<1>2. ASSUME NEW d \in Requests, apc'[d] = "addTopics"
      PROVE  apc[d] = "addTopics" /\ areq'[d] = areq[d]
  BY <1>2 DEF AccessInv, RequestsOK
<1>3. Committed'
  BY <1>2 DEF AccessInv, Committed, Made, KeepsMade
<1>4. PermissionBringsAccess'
  BY DEF AccessInv, PermissionBringsAccess, KeepsMade
<1>. QED BY <1>1, <1>3, <1>4 DEF AccessInv

\* Steps that leave the requests alone.
LEMMA OutsideStep ==
  ASSUME AccessInv, UNCHANGED <<apc, areq>>, KeepsMade, perm' \subseteq perm
  PROVE  AccessInv'
  BY DEF AccessInv, RequestsOK, Committed, Made, PermissionBringsAccess, KeepsMade

\* A step of one request that goes on without a new answer.
LEMMA GoStep ==
  ASSUME AccessInv, NEW r \in Requests, NEW step \in Steps \ {"addTopics"}, Go(r, step),
         KeepsMade, perm' \subseteq perm
  PROVE  AccessInv'
<1>1. areq[r] \in Requested /\ areq' = [areq EXCEPT ![r] = areq[r]]
  BY DEF AccessInv, RequestsOK, Go
<1>. QED BY <1>1, OtherStep DEF Go

-----------------------------------------------------------------------------
LEMMA BeginViewStep ==
  ASSUME AccessInv, NEW r \in Requests, NEW u \in Users, NEW as \in Roles,
         NEW c \in Ids \cup {NoId}, BeginView(r, u, as, c)
  PROVE  AccessInv'
<1>. DEFINE q == [NoRequest EXCEPT !.op = "view", !.user = u, !.as = as, !.cluster = c]
            step == IF c = NoId \/ as = "super_admin" THEN "answer" ELSE "check"
<1>1. q \in Requested
  BY DEF NoRequest, Requested, Roles, All
<1>2. step \in Steps \ {"addTopics"}
  BY DEF Steps
<1>3. apc' = [apc EXCEPT ![r] = step] /\ areq' = [areq EXCEPT ![r] = q]
  BY DEF BeginView
<1>4. KeepsMade /\ perm' \subseteq perm
  BY DEF BeginView, KeepsMade
<1>. HIDE DEF q, step
<1>. QED BY <1>1, <1>2, <1>3, <1>4, OtherStep

LEMMA BeginChangeStep ==
  ASSUME AccessInv, NEW r \in Requests, NEW o \in {"grant", "revoke", "assign"},
         NEW u \in Users, NEW v \in Users, NEW as \in Roles, NEW c \in Ids,
         NEW ts \in SUBSET Topics, BeginChange(r, o, u, as, c, v, ts)
  PROVE  AccessInv'
<1>. DEFINE q == [NoRequest EXCEPT !.op = o, !.user = u, !.as = as, !.cluster = c,
                                   !.target = v, !.topics = ts]
            step == IF o = "assign" THEN "findUser"
                    ELSE IF as = "cluster_admin" THEN "check" ELSE "write"
<1>1. q \in Requested
  BY DEF NoRequest, Requested, Roles, All
<1>2. step \in Steps \ {"addTopics"}
  BY DEF Steps
<1>3. apc' = [apc EXCEPT ![r] = step] /\ areq' = [areq EXCEPT ![r] = q]
  BY DEF BeginChange
<1>4. KeepsMade /\ perm' \subseteq perm
  BY DEF BeginChange, KeepsMade
<1>. HIDE DEF q, step
<1>. QED BY <1>1, <1>2, <1>3, <1>4, OtherStep

\* The checks read, and let the request go on or have its answer.
LEMMA CheckStep ==
  ASSUME AccessInv, NEW r \in Requests, Check(r) \/ ReadRole(r) \/ ReadTopics(r)
  PROVE  AccessInv'
<1>1. KeepsMade /\ perm' \subseteq perm
  BY DEF Check, ReadRole, ReadTopics, KeepsMade
<1>2. ASSUME NEW step \in {"write", "readRole", "answer", "readTopics"}, Go(r, step)
      PROVE  AccessInv'
  BY <1>1, <1>2, GoStep DEF Steps
<1>3. ASSUME NEW ts \in SUBSET Topics, Answer(r, Only(ts))
      PROVE  AccessInv'
  <2>. DEFINE q == [areq[r] EXCEPT !.answer = Only(ts)]
  <2>1. areq[r] \in Requested
    BY DEF AccessInv, RequestsOK
  <2>2. q \in Requested
    BY <2>1 DEF Requested, Only
  <2>3. apc' = [apc EXCEPT ![r] = "answer"] /\ areq' = [areq EXCEPT ![r] = q]
    BY <1>3 DEF Answer
  <2>. HIDE DEF q
  <2>. QED BY <1>1, <2>2, <2>3, OtherStep DEF Steps
<1>4. CASE Check(r)
  BY <1>2, <1>4 DEF Check
<1>5. CASE ReadRole(r)
  BY <1>2, <1>3, <1>5 DEF ReadRole
<1>6. CASE ReadTopics(r)
  BY <1>3, <1>6 DEF ReadTopics, Permitted
<1>. QED BY <1>4, <1>5, <1>6

LEMMA FinishStep ==
  ASSUME AccessInv, NEW r \in Requests, Finish(r)
  PROVE  AccessInv'
<1>1. NoRequest \in Requested
  BY DEF NoRequest, Requested, Roles, All
<1>2. KeepsMade /\ perm' \subseteq perm
  BY DEF Finish, KeepsMade
<1>. QED BY <1>1, <1>2, OtherStep DEF Finish, Steps

-----------------------------------------------------------------------------
\* A relation that is made again is no longer lost, and one that is deleted is.
LEMMA AddKeepsMade ==
  ASSUME NEW u, NEW c, AddRelation(u, c)
  PROVE  KeepsMade /\ <<u, c>> \in relation'
  BY DEF AddRelation, KeepsMade

\* GrantAccess makes a relation; RevokeAccess takes one away and counts it as lost.
LEMMA GrantStep ==
  ASSUME AccessInv, NEW r \in Requests, Grant(r) \/ Revoke(r)
  PROVE  AccessInv'
<1>1. Go(r, "answer") /\ perm' = perm
  BY DEF Grant, Revoke
<1>2. KeepsMade
  BY AddKeepsMade DEF Grant, Revoke, KeepsMade
<1>. QED BY <1>1, <1>2, GoStep DEF Steps

\* The checks before an assignment.
LEMMA FindStep ==
  ASSUME AccessInv, NEW r \in Requests, FindUser(r) \/ FindCluster(r)
  PROVE  AccessInv'
<1>1. KeepsMade /\ perm' \subseteq perm
  BY DEF FindUser, FindCluster, KeepsMade
<1>2. Go(r, "findCluster") \/ Go(r, "findAccess")
  BY DEF FindUser, FindCluster
<1>. QED BY <1>1, <1>2, GoStep DEF Steps

\* A request comes to its permissions when the relation has been made.
LEMMA CommitStep ==
  ASSUME AccessInv, NEW r \in Requests, Go(r, "addTopics"), KeepsMade, perm' = perm,
         Made(<<areq[r].target, areq[r].cluster>>)'
  PROVE  AccessInv'
<1>1. RequestsOK'
  BY DEF AccessInv, RequestsOK, Go, Steps
<1>2. \A d \in Requests \ {r} : apc'[d] = apc[d]
  BY DEF AccessInv, RequestsOK, Go
<1>3. Committed'
  BY <1>2 DEF AccessInv, Committed, Made, KeepsMade, Go
<1>4. PermissionBringsAccess'
  BY DEF AccessInv, PermissionBringsAccess, KeepsMade
<1>. QED BY <1>1, <1>3, <1>4 DEF AccessInv

\* ensureClusterAccess: the relation is there, or is made, before a topic row is written.
LEMMA EnsureStep ==
  ASSUME AccessInv, NEW r \in Requests, FindAccess(r) \/ AddAccess(r)
  PROVE  AccessInv'
<1>1. CASE AddAccess(r)
  <2>1. Go(r, "addTopics") /\ perm' = perm /\ areq' = areq
    BY <1>1 DEF AddAccess, Go
  <2>2. KeepsMade /\ Made(<<areq[r].target, areq[r].cluster>>)'
    BY <1>1, <2>1, AddKeepsMade DEF AddAccess, Made
  <2>. QED BY <2>1, <2>2, CommitStep
<1>2. CASE FindAccess(r)
  <2>1. KeepsMade /\ perm' = perm /\ UNCHANGED <<relation, lost, areq>>
    BY <1>2 DEF FindAccess, KeepsMade, Go
  <2>2. CASE NeedsAccess(r)
    BY <1>2, <2>1, <2>2, GoStep DEF FindAccess, Steps
  <2>3. CASE ~NeedsAccess(r)
    <3>1. Made(<<areq[r].target, areq[r].cluster>>)'
      BY <2>1, <2>3 DEF NeedsAccess, HasAccess, Made
    <3>2. Go(r, "addTopics")
      BY <1>2, <2>3 DEF FindAccess
    <3>. QED BY <2>1, <3>1, <3>2, CommitStep
  <2>. QED BY <2>2, <2>3
<1>. QED BY <1>1, <1>2

\* The permissions are written for a pair that is Committed.
LEMMA AddTopicsStep ==
  ASSUME AccessInv, NEW r \in Requests, AddTopics(r)
  PROVE  AccessInv'
<1>. DEFINE u == areq[r].target
            c == areq[r].cluster
<1>1. Made(<<u, c>>)
  BY DEF AddTopics, AccessInv, Committed
<1>2. /\ UNCHANGED <<relation, lost, areq>> /\ apc' = [apc EXCEPT ![r] = "answer"]
      /\ perm' = perm \cup {<<u, c, t>> : t \in areq[r].topics}
  BY DEF AddTopics, Go
<1>3. RequestsOK'
  BY <1>2 DEF AccessInv, RequestsOK, Steps
<1>4. Committed'
  BY <1>2 DEF AccessInv, RequestsOK, Committed, Made
<1>. HIDE DEF u, c
<1>5. ASSUME NEW p \in perm' PROVE <<p[1], p[2]>> \in relation \cup lost
  BY <1>1, <1>2, <1>5 DEF AccessInv, PermissionBringsAccess, Made
<1>. QED BY <1>2, <1>3, <1>4, <1>5 DEF AccessInv, PermissionBringsAccess

\* The rows that refer to a deleted cluster go with it; its relations are lost.
LEMMA RemoveStep ==
  ASSUME AccessInv, NEW c \in Ids, RemoveCluster(c)
  PROVE  AccessInv'
<1>1. KeepsMade /\ perm' \subseteq perm /\ UNCHANGED <<apc, areq>>
  BY DEF RemoveCluster, KeepsMade
<1>. QED BY <1>1, OutsideStep

LEMMA AccessInvStep == AccessInv /\ [Next]_vars => AccessInv'
<1>. SUFFICES ASSUME AccessInv, [Next]_vars PROVE AccessInv'
  OBVIOUS
<1>1. ASSUME NEW r \in Requests, RequestStep(r) PROVE AccessInv'
  <2>1. ASSUME NEW o \in {"grant", "revoke"}, NEW u \in Users, NEW v \in Users,
               NEW as \in Roles, NEW c \in Ids, BeginChange(r, o, u, as, c, v, {})
        PROVE  AccessInv'
    <3>. o \in {"grant", "revoke", "assign"} /\ {} \in SUBSET Topics
      OBVIOUS
    <3>. QED BY <2>1, BeginChangeStep
  <2>2. ASSUME NEW u \in Users, NEW v \in Users, NEW as \in Roles, NEW c \in Ids,
               NEW ts \in (SUBSET Topics) \ {{}}, BeginChange(r, "assign", u, as, c, v, ts)
        PROVE  AccessInv'
    BY <2>2, BeginChangeStep
  <2>3. ASSUME NEW u \in Users, NEW as \in Roles, NEW c \in Ids \cup {NoId}, BeginView(r, u, as, c)
        PROVE  AccessInv'
    BY <2>3, BeginViewStep
  <2>4. Check(r) \/ ReadRole(r) \/ ReadTopics(r) => AccessInv'
    BY CheckStep
  <2>5. Grant(r) \/ Revoke(r) => AccessInv'
    BY GrantStep
  <2>6. FindUser(r) \/ FindCluster(r) => AccessInv'
    BY FindStep
  <2>7. FindAccess(r) \/ AddAccess(r) => AccessInv'
    BY EnsureStep
  <2>8. AddTopics(r) \/ Finish(r) => AccessInv'
    BY AddTopicsStep, FinishStep
  <2>9. (\E u \in Users, as \in Roles, c \in Ids \cup {NoId} : BeginView(r, u, as, c)) => AccessInv'
    BY <2>3
  <2>10. (\E o \in {"grant", "revoke"}, u, v \in Users, as \in Roles, c \in Ids :
            BeginChange(r, o, u, as, c, v, {})) => AccessInv'
    BY <2>1
  <2>11. (\E u, v \in Users, as \in Roles, c \in Ids, ts \in (SUBSET Topics) \ {{}} :
            BeginChange(r, "assign", u, as, c, v, ts)) => AccessInv'
    BY <2>2
  <2>. QED BY <1>1, <2>4, <2>5, <2>6, <2>7, <2>8, <2>9, <2>10, <2>11 DEF RequestStep
<1>2. ASSUME NEW u \in Users, NEW c \in Ids, NEW t \in Topics, RevokeTopic(u, c, t)
      PROVE  AccessInv'
  BY <1>2, OutsideStep DEF RevokeTopic, KeepsMade
<1>3. ASSUME ChangeCluster PROVE AccessInv'
  BY <1>3, OutsideStep DEF ChangeCluster, KeepsMade
<1>4. ASSUME NEW u \in Users, NEW to \in Roles, ChangeRole(u, to) PROVE AccessInv'
  BY <1>4, OutsideStep DEF ChangeRole, KeepsMade
<1>5. CASE UNCHANGED vars
  BY <1>5, OutsideStep DEF vars, accessVars, KeepsMade
<1>. QED BY <1>1, <1>2, <1>3, <1>4, <1>5, RemoveStep DEF Next

\* AssignTopicPermission against RevokeAccess, DeleteCluster and its own failures: who has
\* a topic permission has the relation, unless that was taken away and not granted again.
THEOREM PermissionBringsAccessAlways == Spec => []PermissionBringsAccess
<1>1. AccessInv => PermissionBringsAccess
  BY DEF AccessInv
<1>. QED BY <1>1, AccessInit, AccessInvStep, PTL DEF Spec

-----------------------------------------------------------------------------
(* What a request does, it was entitled to                                  *)

\* What has been so since r began, by the step that r has come to.
Entitled(r) ==
  LET q == areq[r]
      named == q.op = "view" /\ q.cluster # NoId
  IN
  /\ apc[r] = "check" => q.op \in {"view", "grant", "revoke"}
  /\ apc[r] \in {"readRole", "readTopics"} => q.op = "view" /\ during[r].granted
  /\ apc[r] = "write" => /\ q.op \in {"grant", "revoke"}
                         /\ q.as = "cluster_admin" => during[r].granted
  /\ apc[r] = "findUser" => q.op = "assign"
  /\ apc[r] \in {"findCluster", "findAccess", "addAccess", "addTopics"} =>
       q.op = "assign" /\ during[r].normal
  /\ apc[r] = "answer" =>
       /\ named /\ q.as # "super_admin" => during[r].granted
       /\ q.op \in {"grant", "revoke"} /\ q.as = "cluster_admin" => during[r].granted
       /\ named /\ q.as = "normal_user" =>
            q.answer.restricted /\ q.answer.to \subseteq during[r].topics
       /\ q.op = "assign" => during[r].normal

EntitledInv == AccessInv /\ \A r \in Requests : Entitled(r)

\* What was so stays so, and what is so now is added.
LEMMA ObserveAdds ==
  ASSUME Observe, NEW r \in Requests, apc'[r] # "idle"
  PROVE  /\ during[r].granted => during'[r].granted
         /\ <<areq'[r].user, areq'[r].cluster>> \in relation' => during'[r].granted
         /\ during[r].normal => during'[r].normal
         /\ areq'[r].op = "assign" /\ role'[areq'[r].target] = "normal_user" => during'[r].normal
         /\ during[r].topics \subseteq during'[r].topics
         /\ {t \in Topics : <<areq'[r].user, areq'[r].cluster, t>> \in perm'}
              \subseteq during'[r].topics
<1>1. during'[r] = [granted |-> during[r].granted \/ Now(r)'.granted,
                    normal |-> during[r].normal \/ Now(r)'.normal,
                    topics |-> during[r].topics \cup Now(r)'.topics]
  BY DEF Observe
<1>2. /\ Now(r)'.granted = (<<areq'[r].user, areq'[r].cluster>> \in relation')
      /\ Now(r)'.normal = (areq'[r].op = "assign" /\ role'[areq'[r].target] = "normal_user")
      /\ Now(r)'.topics = {t \in Topics : <<areq'[r].user, areq'[r].cluster, t>> \in perm'}
  BY DEF Now, HasAccess, Permitted
<1>. DEFINE G == during[r].granted \/ Now(r)'.granted
            N == during[r].normal \/ Now(r)'.normal
            T == during[r].topics \cup Now(r)'.topics
<1>3. during'[r] = [granted |-> G, normal |-> N, topics |-> T]
  BY <1>1
<1>. HIDE DEF G, N, T
<1>4. during'[r].granted = G /\ during'[r].normal = N /\ during'[r].topics = T
  BY <1>3
<1>5. /\ during[r].granted => G
      /\ <<areq'[r].user, areq'[r].cluster>> \in relation' => G
  BY <1>2 DEF G
<1>6. /\ during[r].normal => N
      /\ areq'[r].op = "assign" /\ role'[areq'[r].target] = "normal_user" => N
  BY <1>2 DEF N
<1>7. /\ during[r].topics \subseteq T
      /\ {t \in Topics : <<areq'[r].user, areq'[r].cluster, t>> \in perm'} \subseteq T
  BY <1>2 DEF T
<1>. QED BY <1>4, <1>5, <1>6, <1>7

\* A request that does not move remains entitled.
LEMMA UnmovedStep ==
  ASSUME Observe, NEW r \in Requests, Entitled(r), apc'[r] = apc[r], areq'[r] = areq[r]
  PROVE  Entitled(r)'
<1>1. CASE apc[r] = "idle"
  BY <1>1 DEF Entitled
<1>2. CASE apc[r] # "idle"
  BY <1>2, ObserveAdds DEF Entitled
<1>. QED BY <1>1, <1>2

\* A request that begins, and one that ends.
LEMMA BeginEntitled ==
  ASSUME AccessInv, Observe, NEW r \in Requests,
         \/ Finish(r)
         \/ \E u \in Users, as \in Roles, c \in Ids \cup {NoId} : BeginView(r, u, as, c)
         \/ \E o \in {"grant", "revoke"}, u, v \in Users, as \in Roles, c \in Ids :
              BeginChange(r, o, u, as, c, v, {})
         \/ \E u, v \in Users, as \in Roles, c \in Ids, ts \in (SUBSET Topics) \ {{}} :
              BeginChange(r, "assign", u, as, c, v, ts)
  PROVE  Entitled(r)'
<1>1. CASE Finish(r)
  <2>1. apc'[r] = "idle"
    BY <1>1 DEF Finish, AccessInv, RequestsOK
  <2>. QED BY <2>1 DEF Entitled
<1>2. ASSUME NEW u \in Users, NEW as \in Roles, NEW c \in Ids \cup {NoId}, BeginView(r, u, as, c)
      PROVE  Entitled(r)'
  <2>1. /\ areq'[r].op = "view" /\ areq'[r].as = as /\ areq'[r].cluster = c
        /\ apc'[r] = IF c = NoId \/ as = "super_admin" THEN "answer" ELSE "check"
    BY <1>2 DEF BeginView, AccessInv, RequestsOK, NoRequest
  <2>. QED BY <2>1 DEF Entitled
<1>3. ASSUME NEW o \in {"grant", "revoke", "assign"}, NEW u \in Users, NEW v \in Users,
             NEW as \in Roles, NEW c \in Ids, NEW ts, BeginChange(r, o, u, as, c, v, ts)
      PROVE  Entitled(r)'
  <2>1. /\ areq'[r].op = o /\ areq'[r].as = as
        /\ apc'[r] = IF o = "assign" THEN "findUser"
                     ELSE IF as = "cluster_admin" THEN "check" ELSE "write"
    BY <1>3 DEF BeginChange, AccessInv, RequestsOK, NoRequest
  <2>. QED BY <2>1 DEF Entitled
<1>4. (\E u \in Users, as \in Roles, c \in Ids \cup {NoId} : BeginView(r, u, as, c)) => Entitled(r)'
  BY <1>2
<1>5. (\E o \in {"grant", "revoke"}, u, v \in Users, as \in Roles, c \in Ids :
         BeginChange(r, o, u, as, c, v, {})) => Entitled(r)'
  BY <1>3
<1>6. (\E u, v \in Users, as \in Roles, c \in Ids, ts \in (SUBSET Topics) \ {{}} :
         BeginChange(r, "assign", u, as, c, v, ts)) => Entitled(r)'
  BY <1>3
<1>. QED BY <1>1, <1>4, <1>5, <1>6

\* A check finds the user entitled, and the rest of the request remembers it.
LEMMA CheckEntitled ==
  ASSUME AccessInv, Observe, NEW r \in Requests, Entitled(r),
         Check(r) \/ ReadRole(r) \/ ReadTopics(r)
  PROVE  Entitled(r)'
<1>1. CASE Check(r)
  <2>1. /\ areq' = areq /\ UNCHANGED <<relation, role, perm>> /\ apc[r] = "check"
        /\ <<areq[r].user, areq[r].cluster>> \in relation
        /\ apc'[r] = IF areq[r].op # "view" THEN "write"
                     ELSE IF areq[r].as = "normal_user" THEN "readRole" ELSE "answer"
    BY <1>1 DEF Check, Go, Allowed, HasAccess, AccessInv, RequestsOK
  <2>2. during'[r].granted
    BY <2>1, ObserveAdds
  <2>. QED BY <2>1, <2>2 DEF Entitled
<1>2. CASE ReadRole(r)
  <2>1. CASE role[areq[r].user] = "normal_user"
    <3>1. areq' = areq /\ apc[r] = "readRole" /\ apc'[r] = "readTopics"
      BY <1>2, <2>1 DEF ReadRole, Go, AccessInv, RequestsOK
    <3>. QED BY <3>1, ObserveAdds DEF Entitled
  <2>2. CASE role[areq[r].user] # "normal_user"
    <3>1. /\ apc[r] = "readRole" /\ apc'[r] = "answer"
          /\ areq'[r] = [areq[r] EXCEPT !.answer = Only({})] /\ areq[r] \in Requested
      BY <1>2, <2>2 DEF ReadRole, Answer, AccessInv, RequestsOK
    <3>2. /\ areq'[r].op = areq[r].op /\ areq'[r].as = areq[r].as
          /\ areq'[r].answer = Only({})
      BY <3>1 DEF Requested
    <3>3. areq'[r].answer.restricted /\ areq'[r].answer.to = {}
      BY <3>2 DEF Only
    <3>4. areq[r].op = "view" /\ during[r].granted
      BY <3>1 DEF Entitled
    <3>5. during'[r].granted
      BY <3>1, <3>4, ObserveAdds
    <3>. QED BY <3>1, <3>2, <3>3, <3>4, <3>5 DEF Entitled
  <2>. QED BY <2>1, <2>2
<1>3. CASE ReadTopics(r)
  <2>. DEFINE ts == {t \in Topics : <<areq[r].user, areq[r].cluster, t>> \in perm}
  <2>1. /\ apc[r] = "readTopics" /\ apc'[r] = "answer" /\ perm' = perm
        /\ areq'[r] = [areq[r] EXCEPT !.answer = Only(ts)] /\ areq[r] \in Requested
    BY <1>3 DEF ReadTopics, Answer, Permitted, AccessInv, RequestsOK
  <2>2. /\ areq'[r].op = areq[r].op /\ areq'[r].as = areq[r].as
        /\ areq'[r].user = areq[r].user /\ areq'[r].cluster = areq[r].cluster
        /\ areq'[r].answer = Only(ts)
    BY <2>1 DEF Requested
  <2>3. ts \subseteq during'[r].topics
    BY <2>1, <2>2, ObserveAdds
  <2>. HIDE DEF ts
  <2>4. areq'[r].answer.restricted /\ areq'[r].answer.to = ts
    BY <2>2 DEF Only
  <2>5. areq[r].op = "view" /\ during[r].granted
    BY <2>1 DEF Entitled
  <2>6. during'[r].granted
    BY <2>1, <2>5, ObserveAdds
  <2>. QED BY <2>1, <2>2, <2>3, <2>4, <2>5, <2>6 DEF Entitled
<1>. QED BY <1>1, <1>2, <1>3

\* The steps of a change keep what its check found.
LEMMA ChangeEntitled ==
  ASSUME AccessInv, Observe, NEW r \in Requests, Entitled(r),
         \/ Grant(r) \/ Revoke(r) \/ FindUser(r) \/ FindCluster(r)
         \/ FindAccess(r) \/ AddAccess(r) \/ AddTopics(r)
  PROVE  Entitled(r)'
<1>1. CASE FindUser(r)
  <2>1. /\ areq' = areq /\ role' = role /\ apc[r] = "findUser" /\ apc'[r] = "findCluster"
        /\ role[areq[r].target] = "normal_user"
    BY <1>1 DEF FindUser, Go, AccessInv, RequestsOK
  <2>2. areq[r].op = "assign"
    BY <2>1 DEF Entitled
  <2>3. during'[r].normal
    BY <2>1, <2>2, ObserveAdds
  <2>. QED BY <2>1, <2>2, <2>3 DEF Entitled
<1>2. CASE Grant(r) \/ Revoke(r)
  <2>1. areq' = areq /\ apc[r] = "write" /\ apc'[r] = "answer"
    BY <1>2 DEF Grant, Revoke, Go, AccessInv, RequestsOK
  <2>. QED BY <2>1, ObserveAdds DEF Entitled
<1>3. CASE FindCluster(r) \/ FindAccess(r) \/ AddAccess(r) \/ AddTopics(r)
  <2>1. /\ areq' = areq /\ apc[r] \in {"findCluster", "findAccess", "addAccess", "addTopics"}
        /\ apc'[r] \in {"findAccess", "addAccess", "addTopics", "answer"}
    BY <1>3 DEF FindCluster, FindAccess, AddAccess, AddTopics, Go, AccessInv, RequestsOK
  <2>2. areq[r].op = "assign" /\ during[r].normal
    BY <2>1 DEF Entitled
  <2>3. during'[r].normal
    BY <2>1, <2>2, ObserveAdds
  <2>. QED BY <2>1, <2>2, <2>3 DEF Entitled
<1>. QED BY <1>1, <1>2, <1>3

\* A request moves alone.
LEMMA MovesAlone ==
  ASSUME AccessInv, NEW r \in Requests, RequestStep(r), NEW d \in Requests \ {r}
  PROVE  apc'[d] = apc[d] /\ areq'[d] = areq[d]
<1>. USE DEF AccessInv, RequestsOK
<1>1. ASSUME NEW u, NEW as, NEW c, BeginView(r, u, as, c)
      PROVE  apc'[d] = apc[d] /\ areq'[d] = areq[d]
  BY <1>1 DEF BeginView
<1>2. ASSUME NEW o, NEW u, NEW as, NEW c, NEW v, NEW ts, BeginChange(r, o, u, as, c, v, ts)
      PROVE  apc'[d] = apc[d] /\ areq'[d] = areq[d]
  BY <1>2 DEF BeginChange
<1>3. ASSUME NEW step, Go(r, step) PROVE apc'[d] = apc[d] /\ areq'[d] = areq[d]
  BY <1>3 DEF Go
<1>4. ASSUME NEW what, Answer(r, what) PROVE apc'[d] = apc[d] /\ areq'[d] = areq[d]
  BY <1>4 DEF Answer
<1>5. Check(r) \/ ReadRole(r) \/ ReadTopics(r) => apc'[d] = apc[d] /\ areq'[d] = areq[d]
  BY <1>3, <1>4 DEF Check, ReadRole, ReadTopics
<1>6. \/ Grant(r) \/ Revoke(r) \/ FindUser(r) \/ FindCluster(r)
      \/ FindAccess(r) \/ AddAccess(r) \/ AddTopics(r)
      => apc'[d] = apc[d] /\ areq'[d] = areq[d]
  BY <1>3 DEF Grant, Revoke, FindUser, FindCluster, FindAccess, AddAccess, AddTopics
<1>7. Finish(r) => apc'[d] = apc[d] /\ areq'[d] = areq[d]
  BY DEF Finish
<1>. QED BY <1>1, <1>2, <1>5, <1>6, <1>7 DEF RequestStep

LEMMA EntitledStep ==
  ASSUME EntitledInv, [Next]_vars
  PROVE  EntitledInv'
<1>1. AccessInv'
  BY AccessInvStep DEF EntitledInv
<1>2. ASSUME NEW d \in Requests PROVE Entitled(d)'
  <2>. Entitled(d) /\ AccessInv
    BY DEF EntitledInv
  <2>1. CASE UNCHANGED vars
    BY <2>1 DEF vars, accessVars, Entitled
  <2>2. ASSUME UNCHANGED <<apc, areq>>, Observe PROVE Entitled(d)'
    BY <2>2, UnmovedStep
  <2>3. ASSUME Observe, NEW r \in Requests, RequestStep(r) PROVE Entitled(d)'
    <3>1. CASE d # r
      BY <2>3, <3>1, MovesAlone, UnmovedStep
    <3>2. CASE d = r
      <4>. Entitled(r) /\ RequestStep(r) /\ Observe
        BY <2>3 DEF EntitledInv
      <4>. SUFFICES Entitled(r)'
        BY <3>2
      <4>1. CASE Check(r) \/ ReadRole(r) \/ ReadTopics(r)
        BY <4>1, CheckEntitled
      <4>2. CASE \/ Grant(r) \/ Revoke(r) \/ FindUser(r) \/ FindCluster(r)
                 \/ FindAccess(r) \/ AddAccess(r) \/ AddTopics(r)
        BY <4>2, ChangeEntitled
      <4>3. CASE ~ \/ Check(r) \/ ReadRole(r) \/ ReadTopics(r)
                   \/ Grant(r) \/ Revoke(r) \/ FindUser(r) \/ FindCluster(r)
                   \/ FindAccess(r) \/ AddAccess(r) \/ AddTopics(r)
        <5>1. \/ Finish(r)
              \/ \E u \in Users, as \in Roles, c \in Ids \cup {NoId} : BeginView(r, u, as, c)
              \/ \E o \in {"grant", "revoke"}, u, v \in Users, as \in Roles, c \in Ids :
                   BeginChange(r, o, u, as, c, v, {})
              \/ \E u, v \in Users, as \in Roles, c \in Ids, ts \in (SUBSET Topics) \ {{}} :
                   BeginChange(r, "assign", u, as, c, v, ts)
          BY <4>3 DEF RequestStep
        <5>. QED BY <5>1, BeginEntitled
      <4>. QED BY <4>1, <4>2, <4>3
    <3>. QED BY <3>1, <3>2
  <2>4. ASSUME NEW u \in Users, NEW c \in Ids, NEW t \in Topics, RevokeTopic(u, c, t)
        PROVE  UNCHANGED <<apc, areq>>
    BY <2>4 DEF RevokeTopic
  <2>5. ASSUME NEW c \in Ids, RemoveCluster(c) PROVE UNCHANGED <<apc, areq>>
    BY <2>5 DEF RemoveCluster
  <2>6. ASSUME NEW u \in Users, NEW to \in Roles, ChangeRole(u, to)
        PROVE  UNCHANGED <<apc, areq>>
    BY <2>6 DEF ChangeRole
  <2>7. ChangeCluster => UNCHANGED <<apc, areq>>
    BY DEF ChangeCluster
  <2>8. CASE Next
    <3>1. Observe
      BY <2>8 DEF Next
    <3>2. CASE \E r \in Requests : RequestStep(r)
      BY <2>3, <3>1, <3>2
    <3>3. CASE ~\E r \in Requests : RequestStep(r)
      <4>1. UNCHANGED <<apc, areq>>
        BY <2>4, <2>5, <2>6, <2>7, <2>8, <3>3 DEF Next
      <4>. QED BY <2>2, <3>1, <4>1
    <3>. QED BY <3>2, <3>3
  <2>. QED BY <2>1, <2>8
<1>. QED BY <1>1, <1>2 DEF EntitledInv

\* The checks of a request against grants, revocations, changed roles and deleted clusters
\* between any two of its statements: an answered request, other than a view that names no
\* cluster, was entitled to each thing it did or showed at some moment since it began.
THEOREM ActsInTimeAlways == Spec => []ActsInTime
<1>1. Init => EntitledInv
  <2>. SUFFICES ASSUME Init PROVE \A r \in Requests : Entitled(r)
    BY AccessInit DEF EntitledInv
  <2>. QED BY DEF Init, Entitled
<1>2. EntitledInv /\ [Next]_vars => EntitledInv'
  BY EntitledStep
<1>3. EntitledInv => ActsInTime
  BY DEF EntitledInv, Entitled, ActsInTime
<1>. QED BY <1>1, <1>2, <1>3, PTL DEF Spec

-----------------------------------------------------------------------------
(* Clusters that are gone                                                   *)

HeldOK == held \in [Updates -> Ids \cup {NoId}]

\* An update holds one id, or none.
LEMMA HeldStep ==
  ASSUME HeldOK, [RowsNext]_rowVars
  PROVE  HeldOK'
<1>1. ASSUME NEW c \in Ids, Insert(c) \/ Remove(c) PROVE HeldOK'
  BY <1>1 DEF HeldOK, Insert, Remove
<1>2. ASSUME NEW c \in Ids, NEW r \in Updates, Read(r, c) PROVE HeldOK'
  BY <1>2 DEF HeldOK, Read
<1>3. ASSUME NEW r \in Updates, Save(r) PROVE HeldOK'
  BY <1>3 DEF HeldOK, Save
<1>4. ASSUME NEW rs \in SUBSET Updates, Drop(rs) PROVE HeldOK'
  BY <1>4 DEF HeldOK, Drop
<1>5. CASE UNCHANGED rowVars
  BY <1>5 DEF HeldOK, rowVars
<1>. QED BY <1>1, <1>2, <1>3, <1>4, <1>5 DEF RowsNext

\* Only an update that has read the row brings it back, and none has.
LEMMA GoneStep ==
  ASSUME HeldOK, NEW c \in Ids, Gone(c), [RowsNext]_rowVars
  PROVE  Gone(c)'
<1>. USE ClusterRowsAssumption
<1>1. ASSUME NEW d \in Ids, Insert(d) \/ Remove(d) PROVE Gone(c)'
  BY <1>1 DEF Gone, Insert, Remove
<1>2. ASSUME NEW d \in Ids, NEW r \in Updates, Read(r, d) PROVE Gone(c)'
  BY <1>2 DEF HeldOK, Gone, Read
<1>3. ASSUME NEW r \in Updates, Save(r) PROVE Gone(c)'
  BY <1>3 DEF HeldOK, Gone, Save
<1>4. ASSUME NEW rs \in SUBSET Updates, Drop(rs) PROVE Gone(c)'
  BY <1>4 DEF HeldOK, Gone, Drop
<1>5. CASE UNCHANGED rowVars
  BY <1>5 DEF Gone, rowVars
<1>. QED BY <1>1, <1>2, <1>3, <1>4, <1>5 DEF RowsNext

\* DeleteCluster against UpdateCluster: what Access assumes of the table cluster, and
\* Clusters is shown to implement, brings back no cluster that was deleted while no update
\* was between its read and its save.
THEOREM DeletedClustersStayGone == RowsSpec => StaysGone
<1>1. RowsInit => HeldOK
  BY DEF RowsInit, HeldOK
<1>2. HeldOK /\ [RowsNext]_rowVars => HeldOK'
  BY HeldStep
<1>3. HeldOK /\ [RowsNext]_rowVars => [\A c \in Ids : Gone(c) => Gone(c)']_rowVars
  BY GoneStep
<1>. QED BY <1>1, <1>2, <1>3, PTL DEF RowsSpec, StaysGone

-----------------------------------------------------------------------------
(* Tokens and sessions                                                      *)

\* The logout of t has tried to write its row.
Tried(t) == tbl[t] # NoRow \/ t \in unsaved

\* What a logout has already tried when it comes to its answer.
Standing(r) ==
  /\ spc[r] \in {"addCookieMemory", "addCookieRow", "answer"} => Tried(shown[r])
  /\ spc[r] = "answer" /\ cookie[r] # NoToken => Tried(cookie[r])

\* The row, or the memory alone, lasts as long as was promised.
Kept(t) ==
  \/ tbl[t] # NoRow /\ tbl[t] >= shield[t]
  \/ tbl[t] = NoRow /\ t \in unsaved /\ mem[t] >= shield[t]

\* A request whose token is promised to be refused has not come past the table.
Caught(r) ==
  guarded[r] =>
    /\ spc[r] \in {"memory", "table"} /\ shield[shown[r]] > 0
    /\ spc[r] = "table" => tbl[shown[r]] # NoRow

Bounded(c) ==
  /\ c.left > 0 /\ c.kind = "refresh" => c.age + c.left = RefreshTTL
  /\ c.left > 0 /\ c.kind = "access" => c.age + c.left <= AccessTTL + RefreshTTL

\* A request shows tokens that have been issued.
Showing(r) ==
  /\ spc[r] # "idle" => shown[r] \in Session!Issued
  /\ cookie[r] # NoToken => cookie[r] \in Session!Issued
  /\ spc[r] \in {"addCookieMemory", "addCookieRow"} => cookie[r] # NoToken

SessionTypes == Session!TypeOK /\ \A r \in Requests : Showing(r)

ShieldInv ==
  /\ SessionTypes /\ ~slipped
  /\ \A r \in Requests : Standing(r) /\ Caught(r)
  /\ \A t \in Tokens : shield[t] > 0 => Kept(t)

AgeInv == SessionTypes /\ \A t \in Tokens : tok[t] # NoToken => Bounded(tok[t])

LEMMA TimeTypes ==
  ASSUME Session!SessionsAssumption
  PROVE  /\ BlacklistTTL \in Nat /\ BlacklistTTL > 0
         /\ NoToken \notin Tokens /\ NoToken \notin Session!Claims
         /\ NoRow \notin 0..BlacklistTTL
         /\ \A n \in 0..BlacklistTTL : Session!Less(n) \in 0..BlacklistTTL
         /\ BlacklistTTL \in 0..BlacklistTTL /\ 0 \in 0..BlacklistTTL
  BY DEF Session!SessionsAssumption, Session!Less

\* Time passing leaves a token's claims what they may be.
LEMMA OlderIsClaim ==
  ASSUME Session!SessionsAssumption, NEW c \in Session!Claims
  PROVE  [c EXCEPT !.left = Session!Less(@), !.age = Session!Older(c)] \in Session!Claims
<1>1. Session!Older(c) \in 0..Session!MaxSession
  BY DEF Session!SessionsAssumption, Session!Claims, Session!Older, Session!MaxSession
<1>2. Session!Less(c.left) \in 0..Session!MaxSession
  BY DEF Session!SessionsAssumption, Session!Claims, Session!Less, Session!MaxSession
<1>. QED BY <1>1, <1>2 DEF Session!Claims

LEMMA TickTypes ==
  ASSUME Session!SessionsAssumption, Session!TypeOK, Session!Tick
  PROVE  Session!TypeOK'
<1>. USE TimeTypes DEF Session!TypeOK
<1>2. tok' \in [Tokens -> Session!Claims \cup {NoToken}]
  BY OlderIsClaim DEF Session!Tick
<1>3. mem' \in [Tokens -> 0..BlacklistTTL]
  BY DEF Session!Tick
<1>4. tbl' \in [Tokens -> 0..BlacklistTTL \cup {NoRow}]
  BY DEF Session!Tick
<1>5. shield' \in [Tokens -> 0..BlacklistTTL]
  BY DEF Session!Tick
<1>6. guarded' \in [Requests -> BOOLEAN]
  BY DEF Session!Tick
<1>. QED BY <1>2, <1>3, <1>4, <1>5, <1>6 DEF Session!Tick

\* What a request leaves behind when it goes on, or ends.
LEMMA ContinueTypes ==
  ASSUME Session!TypeOK, NEW r \in Requests, NEW step \in Session!Steps, Session!Continue(r, step)
  PROVE  /\ spc' \in [Requests -> Session!Steps]
         /\ op' \in [Requests -> {"use", "refresh", "logout"}]
         /\ shown' \in [Requests -> Tokens \cup {NoToken}]
         /\ cookie' \in [Requests -> Tokens \cup {NoToken}]
         /\ guarded' \in [Requests -> BOOLEAN]
<1>1. CASE step = "idle"
  BY <1>1 DEF Session!TypeOK, Session!Continue
<1>2. CASE step # "idle"
  BY <1>2 DEF Session!TypeOK, Session!Continue
<1>. QED BY <1>1, <1>2

LEMMA FaultTypes ==
  ASSUME Session!SessionsAssumption, Session!TypeOK, Session!Fault
  PROVE  tokenFaults' \in 0..MaxTokenFaults
  BY DEF Session!SessionsAssumption, Session!TypeOK, Session!Fault

\* The claims that Login signs, and the ones that a refresh does.
LEMMA NewClaims ==
  ASSUME Session!SessionsAssumption
  PROVE  /\ Session!NewToken(AccessTTL, "access") \in Session!Claims
         /\ Session!NewToken(RefreshTTL, "refresh") \in Session!Claims
         /\ \A c \in Session!Claims : Session!Exchanged(c) \in Session!Claims
<1>1. AccessTTL \in 0..Session!MaxSession /\ RefreshTTL \in 0..Session!MaxSession
      /\ 0 \in 0..Session!MaxSession
  BY DEF Session!SessionsAssumption, Session!MaxSession
<1>2. ASSUME NEW c \in Session!Claims PROVE Session!Exchanged(c) \in Session!Claims
  <2>1. Session!Exchanged(c) =
          [[c EXCEPT !.kind = IF c.kind = "refresh" THEN "access" ELSE "renewed"] EXCEPT !.left = AccessTTL]
    BY DEF Session!Exchanged
  <2>. DEFINE k == IF c.kind = "refresh" THEN "access" ELSE "renewed"
  <2>2. k \in {"access", "refresh", "renewed"}
    OBVIOUS
  <2>. HIDE DEF k
  <2>. QED BY <1>1, <2>1, <2>2 DEF Session!Claims, k
<1>. QED BY <1>1, <1>2 DEF Session!Claims, Session!NewToken

LEMMA RequestTypes ==
  ASSUME Session!SessionsAssumption, SessionTypes, NEW r \in Requests, Session!RequestStep(r)
  PROVE  Session!TypeOK'
<1>. USE TimeTypes DEF SessionTypes, Session!TypeOK, Session!Steps, Session!Issued, Session!Cookies
<1>1. ASSUME NEW k \in {"use", "refresh", "logout"}, NEW t \in Session!Issued,
             NEW c \in Session!Cookies \cup {NoToken}, Session!Begin(r, k, t, c)
      PROVE  Session!TypeOK'
  BY <1>1 DEF Session!Begin
<1>2. CASE Session!CheckMemory(r)
  <2>1. CASE mem[shown[r]] > 0
    BY <1>2, <2>1, ContinueTypes DEF Session!CheckMemory
  <2>2. CASE ~(mem[shown[r]] > 0)
    BY <1>2, <2>2 DEF Session!CheckMemory
  <2>. QED BY <2>1, <2>2
<1>3. CASE Session!CheckTable(r)
  <2>1. CASE Session!InTable(shown[r])
    <3>1. mem' \in [Tokens -> 0..BlacklistTTL]
      BY <1>3, <2>1 DEF Session!CheckTable, Session!SessionsAssumption
    <3>. QED BY <1>3, <2>1, <3>1, ContinueTypes DEF Session!CheckTable
  <2>2. CASE ~Session!InTable(shown[r])
    BY <1>3, <2>2 DEF Session!CheckTable
  <2>. QED BY <2>1, <2>2
<1>4. CASE Session!CheckTableFails(r)
  BY <1>4, FaultTypes DEF Session!CheckTableFails
<1>5. CASE Session!Admit(r)
  <2>1. slipped' \in BOOLEAN
    BY <1>5 DEF Session!Admit
  <2>. QED BY <1>5, <2>1, ContinueTypes DEF Session!Admit
<1>6. CASE Session!Refuse(r)
  BY <1>6, ContinueTypes DEF Session!Refuse
<1>8. CASE Session!AddMemory(r)
  <2>1. mem' \in [Tokens -> 0..BlacklistTTL]
    BY <1>8 DEF Session!AddMemory, Session!SessionsAssumption
  <2>. QED BY <1>8, <2>1 DEF Session!AddMemory
<1>9. CASE Session!AddRow(r)
  <2>1. tbl' \in [Tokens -> 0..BlacklistTTL \cup {NoRow}]
    BY <1>9 DEF Session!AddRow, Session!SessionsAssumption
  <2>2. spc' \in [Requests -> Session!Steps]
    BY <1>9 DEF Session!AddRow, Session!AfterRow
  <2>. QED BY <1>9, <2>1, <2>2 DEF Session!AddRow
<1>11. CASE Session!Answer(r)
  <2>1. shield' \in [Tokens -> 0..BlacklistTTL]
    BY <1>11 DEF Session!Answer, Session!SessionsAssumption
  <2>. QED BY <1>11, <2>1, ContinueTypes DEF Session!Answer
<1>7. CASE Session!Refresh(r)
  <2>1. ASSUME NEW a \in Tokens, tok' = [tok EXCEPT ![a] = Session!Exchanged(tok[shown[r]])]
        PROVE  tok' \in [Tokens -> Session!Claims \cup {NoToken}]
    <3>1. tok[shown[r]] \in Session!Claims
      BY <1>7 DEF Session!Refresh, Showing
    <3>. QED BY <2>1, <3>1, NewClaims
  <2>. QED BY <1>7, <2>1, ContinueTypes DEF Session!Refresh
<1>10. CASE Session!AddRowFails(r)
  <2>2. spc' \in [Requests -> Session!Steps]
    BY <1>10 DEF Session!AddRowFails, Session!AfterRow
  <2>3. Session!Adding(r) \in Tokens
    BY <1>10 DEF Session!AddRowFails, Session!Adding, Showing
  <2>. QED BY <1>10, <2>2, <2>3, FaultTypes DEF Session!AddRowFails
<1>. QED BY <1>1, <1>2, <1>3, <1>4, <1>5, <1>6, <1>7, <1>8, <1>9, <1>10, <1>11 DEF Session!RequestStep

LEMMA SessionTypesInit == 
  ASSUME Session!SessionsAssumption, Session!Init
  PROVE  SessionTypes
<1>. USE TimeTypes, FaultTypes
<1>1. 0 \in 0..MaxTokenFaults
  BY DEF Session!SessionsAssumption
<1>. QED BY <1>1 DEF Session!Init, SessionTypes, Session!TypeOK, Showing, Session!Steps

LEMMA OtherTypes ==
  ASSUME Session!SessionsAssumption, SessionTypes,
         Session!Login \/ Session!Restart \/ \E t \in Tokens : Session!Evict(t)
  PROVE  Session!TypeOK'
<1>. USE TimeTypes DEF SessionTypes, Session!TypeOK, Session!Steps
<1>1. CASE Session!Login
  BY <1>1, NewClaims DEF Session!Login, Session!Issued, Session!requests
<1>2. CASE Session!Restart
  BY <1>2, FaultTypes DEF Session!Restart, Session!Loaded
<1>3. ASSUME NEW t \in Tokens, Session!Evict(t) PROVE Session!TypeOK'
  <2>1. mem' \in [Tokens -> 0..BlacklistTTL] /\ tokenFaults' \in 0..MaxTokenFaults
    BY <1>3, FaultTypes DEF Session!Evict
  <2>2. shield' \in [Tokens -> 0..BlacklistTTL] /\ guarded' \in [Requests -> BOOLEAN]
    <3>1. CASE t \in unsaved
      <4>1. /\ shield' = [shield EXCEPT ![t] = 0]
            /\ guarded' = [r \in Requests |-> guarded[r] /\ shown[r] # t]
        BY <1>3, <3>1 DEF Session!Evict
      <4>2. shield' \in [Tokens -> 0..BlacklistTTL]
        BY <4>1
      <4>3. \A r \in Requests : (guarded[r] /\ shown[r] # t) \in BOOLEAN
        OBVIOUS
      <4>. QED BY <4>1, <4>2, <4>3
    <3>2. CASE t \notin unsaved
      BY <1>3, <3>2 DEF Session!Evict
    <3>. QED BY <3>1, <3>2
  <2>. QED BY <1>3, <2>1, <2>2 DEF Session!Evict
<1>. QED BY <1>1, <1>2, <1>3

\* A token that was issued stays issued.
LEMMA IssuedStays ==
  ASSUME Session!SessionsAssumption, SessionTypes, [Session!Next]_(Session!vars)
  PROVE  Session!Issued \subseteq Session!Issued'
<1>. USE TimeTypes DEF SessionTypes, Session!TypeOK, Session!Issued
<1>1. CASE Session!Login
  BY <1>1, NewClaims DEF Session!Login
<1>2. CASE Session!Tick
  <2>1. ASSUME NEW t \in Tokens, tok[t] # NoToken PROVE tok'[t] \in Session!Claims
    BY <1>2, <2>1, OlderIsClaim DEF Session!Tick
  <2>. QED BY <2>1
<1>3. ASSUME NEW r \in Requests, Session!Refresh(r) PROVE Session!Issued \subseteq Session!Issued'
  <2>1. tok[shown[r]] \in Session!Claims
    BY <1>3 DEF Session!Refresh, Showing
  <2>. QED BY <1>3, <2>1, NewClaims DEF Session!Refresh
<1>4. ASSUME NEW r \in Requests, Session!RequestStep(r), ~Session!Refresh(r) PROVE tok' = tok
  BY <1>4 DEF Session!RequestStep, Session!Begin, Session!CheckMemory, Session!CheckTable,
       Session!CheckTableFails, Session!Admit, Session!Refuse, Session!AddMemory, Session!AddRow,
       Session!AddRowFails, Session!Answer
<1>5. CASE Session!Restart \/ \E t \in Tokens : Session!Evict(t)
  BY <1>5 DEF Session!Restart, Session!Evict
<1>6. CASE UNCHANGED Session!vars
  BY <1>6 DEF Session!vars
<1>. QED BY <1>1, <1>2, <1>3, <1>4, <1>5, <1>6 DEF Session!Next

\* r answers.
Ends(r) == spc'[r] = "idle" /\ shown'[r] = NoToken /\ cookie'[r] = NoToken /\ ~guarded'[r]

\* r goes on with the tokens it has.
GoesOn(r) ==
  /\ spc[r] # "idle" /\ spc'[r] # "idle" /\ shown'[r] = shown[r] /\ cookie'[r] = cookie[r]
  /\ spc'[r] \in {"addCookieMemory", "addCookieRow"} =>
       spc[r] \in {"addCookieMemory", "addCookieRow"} \/ cookie[r] # NoToken

\* A request moves alone, and keeps its tokens until it answers.
LEMMA RequestMoves ==
  ASSUME SessionTypes, NEW r \in Requests, Session!RequestStep(r)
  PROVE  /\ \A d \in Requests \ {r} : UNCHANGED <<spc[d], shown[d], cookie[d], guarded[d]>>
         /\ \/ Ends(r) \/ GoesOn(r)
            \/ \E k \in {"use", "refresh", "logout"}, t \in Session!Issued,
                  c \in Session!Cookies \cup {NoToken} : Session!Begin(r, k, t, c)
<1>. USE DEF SessionTypes, Session!TypeOK, Ends, GoesOn
<1>1. ASSUME NEW k \in {"use", "refresh", "logout"}, NEW t \in Session!Issued,
             NEW c \in Session!Cookies \cup {NoToken}, Session!Begin(r, k, t, c)
      PROVE  \A d \in Requests \ {r} : UNCHANGED <<spc[d], shown[d], cookie[d], guarded[d]>>
  BY <1>1 DEF Session!Begin
<1>2. ASSUME Session!Continue(r, "idle")
      PROVE  /\ \A d \in Requests \ {r} : UNCHANGED <<spc[d], shown[d], cookie[d], guarded[d]>>
             /\ Ends(r)
  BY <1>2 DEF Session!Continue
<1>3. CASE Session!CheckMemory(r)
  <2>1. CASE mem[shown[r]] > 0
    BY <1>2, <1>3, <2>1 DEF Session!CheckMemory
  <2>2. CASE ~(mem[shown[r]] > 0)
    BY <1>3, <2>2 DEF Session!CheckMemory
  <2>. QED BY <2>1, <2>2
<1>4. CASE Session!CheckTable(r)
  <2>1. CASE Session!InTable(shown[r])
    BY <1>2, <1>4, <2>1 DEF Session!CheckTable
  <2>2. CASE ~Session!InTable(shown[r])
    BY <1>4, <2>2 DEF Session!CheckTable
  <2>. QED BY <2>1, <2>2
<1>5. CASE Session!CheckTableFails(r)
  BY <1>5 DEF Session!CheckTableFails
<1>6. CASE Session!Admit(r)
  <2>1. CASE op[r] = "use"
    BY <1>2, <1>6, <2>1 DEF Session!Admit
  <2>2. CASE op[r] # "use"
    BY <1>6, <2>2 DEF Session!Admit, Session!Continue
  <2>. QED BY <2>1, <2>2
<1>7. CASE Session!Refuse(r) \/ Session!Refresh(r) \/ Session!Answer(r)
  BY <1>2, <1>7 DEF Session!Refuse, Session!Refresh, Session!Answer
<1>8. CASE Session!AddMemory(r)
  BY <1>8 DEF Session!AddMemory
<1>9. CASE Session!AddRow(r) \/ Session!AddRowFails(r)
  BY <1>9 DEF Session!AddRow, Session!AddRowFails, Session!AfterRow
<1>. QED BY <1>1, <1>3, <1>4, <1>5, <1>6, <1>7, <1>8, <1>9 DEF Session!RequestStep

\* A request goes on showing tokens that have been issued.
LEMMA ShowingStep ==
  ASSUME Session!SessionsAssumption, SessionTypes, [Session!Next]_(Session!vars), NEW d \in Requests
  PROVE  Showing(d)'
<1>. USE DEF SessionTypes, Session!TypeOK, Showing
<1>1. ASSUME UNCHANGED <<spc[d], shown[d], cookie[d]>> PROVE Showing(d)'
  BY <1>1, IssuedStays
<1>2. ASSUME NEW r \in Requests, Session!RequestStep(r), r # d PROVE Showing(d)'
  BY <1>1, <1>2, RequestMoves
<1>3. CASE Session!RequestStep(d)
  <2>1. CASE Ends(d)
    BY <2>1 DEF Ends
  <2>2. CASE GoesOn(d)
    BY <2>2, IssuedStays DEF GoesOn
  <2>3. ASSUME NEW k \in {"use", "refresh", "logout"}, NEW t \in Session!Issued,
               NEW c \in Session!Cookies \cup {NoToken}, Session!Begin(d, k, t, c)
        PROVE  Showing(d)'
    BY <2>3, IssuedStays DEF Session!Begin, Session!Cookies
  <2>. QED BY <1>3, <2>1, <2>2, <2>3, RequestMoves
<1>4. CASE Session!Login \/ Session!Tick
  BY <1>1, <1>4 DEF Session!Login, Session!Tick, Session!requests
<1>5. CASE Session!Restart
  BY <1>5 DEF Session!Restart
<1>6. ASSUME NEW t \in Tokens, Session!Evict(t) PROVE Showing(d)'
  BY <1>1, <1>6 DEF Session!Evict
<1>7. CASE UNCHANGED Session!vars
  BY <1>1, <1>7 DEF Session!vars, Session!requests
<1>. QED BY <1>2, <1>3, <1>4, <1>5, <1>6, <1>7 DEF Session!Next

LEMMA SessionTypesStep ==
  ASSUME Session!SessionsAssumption, SessionTypes, [Session!Next]_(Session!vars)
  PROVE  SessionTypes'
<1>1. CASE UNCHANGED Session!vars
  <2>1. Session!TypeOK'
    BY <1>1 DEF SessionTypes, Session!TypeOK, Session!vars, Session!requests
  <2>. QED BY <2>1, ShowingStep DEF SessionTypes
<1>2. CASE Session!Next
  <2>1. Session!TypeOK'
    BY <1>2, RequestTypes, OtherTypes, TickTypes DEF Session!Next, SessionTypes
  <2>. QED BY <2>1, ShowingStep DEF SessionTypes
<1>. QED BY <1>1, <1>2

-----------------------------------------------------------------------------
\* A row is never taken out of the table, and a failure is remembered.
LEMMA TriedStays ==
  ASSUME Session!SessionsAssumption, SessionTypes, [Session!Next]_(Session!vars), NEW t \in Tokens
  PROVE  /\ tbl[t] # NoRow => tbl'[t] # NoRow
         /\ t \in unsaved => t \in unsaved'
<1>. USE TimeTypes DEF SessionTypes, Session!TypeOK
<1>1. CASE Session!Tick
  <2>1. ASSUME tbl[t] # NoRow PROVE tbl'[t] # NoRow
    <3>1. tbl'[t] = Session!Less(tbl[t]) /\ tbl[t] \in 0..BlacklistTTL
      BY <1>1, <2>1 DEF Session!Tick
    <3>. QED BY <3>1
  <2>. QED BY <1>1, <2>1 DEF Session!Tick
<1>2. ASSUME NEW r \in Requests, Session!AddRow(r) \/ Session!AddRowFails(r)
      PROVE  (tbl[t] # NoRow => tbl'[t] # NoRow) /\ (t \in unsaved => t \in unsaved')
  BY <1>2 DEF Session!AddRow, Session!AddRowFails
<1>3. ASSUME NEW r \in Requests, Session!RequestStep(r), ~(Session!AddRow(r) \/ Session!AddRowFails(r))
      PROVE  UNCHANGED <<tbl, unsaved>>
  BY <1>3 DEF Session!RequestStep, Session!Begin, Session!CheckMemory, Session!CheckTable,
       Session!CheckTableFails, Session!Admit, Session!Refuse, Session!Refresh, Session!AddMemory,
       Session!Answer
<1>4. CASE Session!Login \/ Session!Restart \/ \E e \in Tokens : Session!Evict(e)
  BY <1>4 DEF Session!Login, Session!Restart, Session!Evict
<1>5. CASE UNCHANGED Session!vars
  BY <1>5 DEF Session!vars
<1>. QED BY <1>1, <1>2, <1>3, <1>4, <1>5 DEF Session!Next

\* The row of the token that is being added is there afterwards, or has failed.
LEMMA AddingTries ==
  ASSUME Session!SessionsAssumption, SessionTypes, NEW r \in Requests, NEW a \in Tokens,
         a = Session!Adding(r), Session!AddRow(r) \/ Session!AddRowFails(r)
  PROVE  Tried(a)'
<1>. USE TimeTypes DEF SessionTypes, Session!TypeOK, Tried
<1>1. CASE Session!AddRow(r)
  <2>1. tbl' = [tbl EXCEPT ![a] = IF @ = NoRow THEN BlacklistTTL ELSE @]
    BY <1>1 DEF Session!AddRow
  <2>2. BlacklistTTL # NoRow
    OBVIOUS
  <2>3. tbl'[a] # NoRow
    BY <2>1, <2>2
  <2>. QED BY <2>3
<1>2. CASE Session!AddRowFails(r)
  BY <1>2 DEF Session!AddRowFails
<1>. QED BY <1>1, <1>2

\* A logout comes to its answer by both writes, each tried once.
LEMMA StandingStep ==
  ASSUME Session!SessionsAssumption, SessionTypes, NEW d \in Requests, Standing(d),
         [Session!Next]_(Session!vars)
  PROVE  Standing(d)'
<1>. USE DEF Standing
<1>1. /\ spc[d] # "idle" => shown[d] \in Tokens
      /\ cookie[d] # NoToken => cookie[d] \in Tokens
  BY DEF SessionTypes, Showing, Session!Issued
<1>2. ASSUME NEW t \in Tokens, Tried(t) PROVE Tried(t)'
  BY <1>2, TriedStays DEF Tried
<1>3. ASSUME UNCHANGED <<spc[d], shown[d], cookie[d]>> PROVE Standing(d)'
  BY <1>1, <1>2, <1>3
<1>4. ASSUME NEW r \in Requests, Session!RequestStep(r), r # d PROVE Standing(d)'
  BY <1>3, <1>4, RequestMoves
<1>5. CASE Session!AddRow(d) \/ Session!AddRowFails(d)
  <2>1. UNCHANGED <<shown, cookie>> /\ spc[d] \in {"addRow", "addCookieRow"}
        /\ spc'[d] = Session!AfterRow(d)
    BY <1>5 DEF Session!AddRow, Session!AddRowFails, SessionTypes, Session!TypeOK
  <2>2. CASE spc[d] = "addRow"
    <3>1. Tried(shown[d])'
      BY <1>1, <1>5, <2>1, <2>2, AddingTries DEF Session!Adding
    <3>. QED BY <2>1, <2>2, <3>1 DEF Session!AfterRow
  <2>3. CASE spc[d] = "addCookieRow"
    <3>1. cookie[d] # NoToken
      BY <2>3 DEF SessionTypes, Showing
    <3>2. Tried(cookie[d])'
      BY <1>1, <1>5, <2>1, <2>3, <3>1, AddingTries DEF Session!Adding
    <3>3. Tried(shown[d])'
      BY <1>1, <1>2, <2>1, <2>3
    <3>. QED BY <2>1, <3>2, <3>3
  <2>. QED BY <2>1, <2>2, <2>3
<1>6. CASE Session!AddMemory(d)
  <2>1. /\ UNCHANGED <<shown, cookie>>
        /\ spc'[d] = IF spc[d] = "addMemory" THEN "addRow" ELSE "addCookieRow"
        /\ spc[d] \in {"addMemory", "addCookieMemory"}
    BY <1>6 DEF Session!AddMemory, SessionTypes, Session!TypeOK
  <2>. QED BY <1>1, <1>2, <2>1
<1>7. CASE Session!RequestStep(d) /\ ~(Session!AddRow(d) \/ Session!AddRowFails(d) \/ Session!AddMemory(d))
  <2>1. spc'[d] \in {"idle", "memory", "table", "validate", "addMemory"}
    BY <1>7 DEF Session!RequestStep, Session!Begin, Session!CheckMemory, Session!CheckTable,
         Session!CheckTableFails, Session!Admit, Session!Refuse, Session!Refresh, Session!Answer,
         Session!Continue, SessionTypes, Session!TypeOK
  <2>. QED BY <2>1
<1>8. CASE Session!Login \/ Session!Tick \/ \E t \in Tokens : Session!Evict(t)
  BY <1>3, <1>8 DEF Session!Login, Session!Tick, Session!Evict, Session!requests
<1>9. CASE Session!Restart
  BY <1>9 DEF Session!Restart
<1>10. CASE UNCHANGED Session!vars
  BY <1>3, <1>10 DEF Session!vars, Session!requests
<1>. QED BY <1>4, <1>5, <1>6, <1>7, <1>8, <1>9, <1>10 DEF Session!Next

-----------------------------------------------------------------------------
\* What was promised is kept as long as the copies only become newer.
LEMMA NewerKeeps ==
  ASSUME Session!SessionsAssumption, SessionTypes, NEW t \in Tokens, shield[t] > 0 => Kept(t),
         tbl'[t] = tbl[t] \/ (tbl[t] = NoRow /\ tbl'[t] = BlacklistTTL),
         mem'[t] \in {mem[t], BlacklistTTL}, unsaved \subseteq unsaved', shield'[t] = shield[t]
  PROVE  shield'[t] > 0 => Kept(t)'
<1>1. /\ shield[t] \in 0..BlacklistTTL /\ mem[t] \in 0..BlacklistTTL
      /\ BlacklistTTL \in Nat /\ BlacklistTTL # NoRow
  BY TimeTypes DEF SessionTypes, Session!TypeOK
<1>. QED BY <1>1 DEF Kept

\* A request's own step keeps every promise; its answer makes the new ones.
LEMMA RequestKeeps ==
  ASSUME Session!SessionsAssumption, SessionTypes, NEW t \in Tokens, shield[t] > 0 => Kept(t),
         NEW r \in Requests, Session!RequestStep(r), Standing(r)
  PROVE  shield'[t] > 0 => Kept(t)'
<1>. USE DEF SessionTypes, Session!TypeOK
<1>1. CASE Session!CheckTable(r)
  <2>1. mem'[t] \in {mem[t], BlacklistTTL} /\ UNCHANGED <<tbl, unsaved, shield>>
    BY <1>1 DEF Session!CheckTable
  <2>. QED BY <2>1, NewerKeeps
<1>2. CASE Session!AddMemory(r)
  <2>1. mem'[t] \in {mem[t], BlacklistTTL} /\ UNCHANGED <<tbl, unsaved, shield>>
    BY <1>2 DEF Session!AddMemory
  <2>. QED BY <2>1, NewerKeeps
<1>3. CASE Session!AddRow(r)
  <2>1. tbl'[t] = tbl[t] \/ (tbl[t] = NoRow /\ tbl'[t] = BlacklistTTL)
    BY <1>3 DEF Session!AddRow
  <2>2. UNCHANGED <<mem, unsaved, shield>>
    BY <1>3 DEF Session!AddRow
  <2>. QED BY <2>1, <2>2, NewerKeeps
<1>4. CASE Session!AddRowFails(r)
  <2>1. unsaved \subseteq unsaved' /\ UNCHANGED <<mem, tbl, shield>>
    BY <1>4 DEF Session!AddRowFails
  <2>. QED BY <2>1, NewerKeeps
<1>5. CASE Session!Answer(r)
  <2>1. UNCHANGED <<mem, tbl, unsaved>>
    BY <1>5 DEF Session!Answer
  <2>2. CASE t \in {shown[r], cookie[r]} /\ Session!Promised(t)
    <3>1. Tried(t)
      BY <1>5, <2>2, TimeTypes DEF Session!Answer, Standing
    <3>2. shield'[t] = BlacklistTTL
      BY <1>5, <2>2 DEF Session!Answer
    <3>. QED BY <2>1, <2>2, <3>1, <3>2, TimeTypes DEF Session!Promised, Kept, Tried
  <2>3. CASE ~(t \in {shown[r], cookie[r]} /\ Session!Promised(t))
    <3>1. shield'[t] = shield[t]
      BY <1>5, <2>3 DEF Session!Answer
    <3>. QED BY <2>1, <3>1, NewerKeeps
  <2>. QED BY <2>2, <2>3
<1>6. CASE ~ (\/ Session!CheckTable(r) \/ Session!AddMemory(r) \/ Session!AddRow(r)
              \/ Session!AddRowFails(r) \/ Session!Answer(r))
  <2>1. UNCHANGED <<mem, tbl, unsaved, shield>>
    BY <1>6 DEF Session!RequestStep, Session!Begin, Session!CheckMemory, Session!CheckTableFails,
         Session!Admit, Session!Refuse, Session!Refresh
  <2>. QED BY <2>1, NewerKeeps
<1>. QED BY <1>1, <1>2, <1>3, <1>4, <1>5, <1>6

\* So does every other step: an eviction ends the promise of a copy that was the only one, a
\* restart likewise, and time runs alike for the copies and the promise.
LEMMA KeptStep ==
  ASSUME Session!SessionsAssumption, SessionTypes, NEW t \in Tokens, shield[t] > 0 => Kept(t),
         \A r \in Requests : Standing(r), [Session!Next]_(Session!vars)
  PROVE  shield'[t] > 0 => Kept(t)'
<1>. USE DEF SessionTypes, Session!TypeOK
<1>1. CASE \E r \in Requests : Session!RequestStep(r)
  BY <1>1, RequestKeeps
<1>2. CASE Session!Tick
  <2>1. /\ shield'[t] = Session!Less(shield[t]) /\ mem'[t] = Session!Less(mem[t])
        /\ tbl'[t] = IF tbl[t] = NoRow THEN NoRow ELSE Session!Less(tbl[t])
        /\ unsaved' = unsaved
    BY <1>2 DEF Session!Tick
  <2>2. /\ shield[t] \in 0..BlacklistTTL /\ mem[t] \in 0..BlacklistTTL
        /\ tbl[t] # NoRow => tbl[t] \in 0..BlacklistTTL
        /\ tbl[t] # NoRow => Session!Less(tbl[t]) # NoRow
    BY TimeTypes
  <2>3. CASE tbl[t] = NoRow
    BY <2>1, <2>2, <2>3, TimeTypes DEF Kept, Session!Less
  <2>4. CASE tbl[t] # NoRow
    <3>1. tbl'[t] = Session!Less(tbl[t]) /\ tbl'[t] # NoRow
      BY <2>1, <2>2, <2>4
    <3>2. shield[t] > 0 => tbl[t] >= shield[t]
      BY <2>4 DEF Kept
    <3>3. shield'[t] > 0 => Session!Less(tbl[t]) >= shield'[t]
      BY <2>1, <2>2, <2>4, <3>2, TimeTypes DEF Session!Less
    <3>. QED BY <3>1, <3>3 DEF Kept
  <2>. QED BY <2>3, <2>4
<1>3. ASSUME NEW e \in Tokens, Session!Evict(e) PROVE shield'[t] > 0 => Kept(t)'
  <2>1. UNCHANGED <<tbl, unsaved>> /\ mem' = [mem EXCEPT ![e] = 0]
    BY <1>3 DEF Session!Evict
  <2>2. CASE e \in unsaved
    BY <1>3, <2>1, <2>2 DEF Session!Evict, Kept
  <2>3. CASE e \notin unsaved
    BY <1>3, <2>1, <2>3 DEF Session!Evict, Kept
  <2>. QED BY <2>2, <2>3
<1>4. CASE Session!Restart
  BY <1>4 DEF Session!Restart, Session!Loaded, Kept
<1>5. CASE Session!Login \/ UNCHANGED Session!vars
  BY <1>5, NewerKeeps DEF Session!Login, Session!vars
<1>. QED BY <1>1, <1>2, <1>3, <1>4, <1>5 DEF Session!Next

\* The shield of a token goes up, unless the time goes on or a copy is lost.
LEMMA CaughtElsewhere ==
  ASSUME Session!SessionsAssumption, SessionTypes, NEW d \in Requests, Caught(d),
         UNCHANGED <<spc[d], shown[d], guarded[d]>>, [Session!Next]_(Session!vars),
         \A t \in Tokens : shield[t] > 0 => shield'[t] > 0
  PROVE  Caught(d)'
<1>1. CASE ~guarded[d]
  BY <1>1 DEF Caught
<1>2. CASE guarded[d]
  <2>1. shown[d] \in Tokens
    BY <1>2 DEF Caught, SessionTypes, Showing, Session!Issued
  <2>. QED BY <1>2, <2>1, TriedStays DEF Caught
<1>. QED BY <1>1, <1>2

\* No request ends a promise.
LEMMA ShieldGrows ==
  ASSUME Session!SessionsAssumption, SessionTypes, NEW r \in Requests, Session!RequestStep(r), NEW t \in Tokens
  PROVE  shield[t] > 0 => shield'[t] > 0
<1>1. CASE Session!Answer(r)
  BY <1>1, TimeTypes DEF Session!Answer, SessionTypes, Session!TypeOK
<1>2. CASE ~Session!Answer(r)
  BY <1>2 DEF Session!RequestStep, Session!Begin, Session!CheckMemory, Session!CheckTable,
       Session!CheckTableFails, Session!Admit, Session!Refuse, Session!Refresh, Session!AddMemory,
       Session!AddRow, Session!AddRowFails
<1>. QED BY <1>1, <1>2

\* A guarded request does not come past the table.
LEMMA CaughtMoves ==
  ASSUME Session!SessionsAssumption, ShieldInv, NEW d \in Requests, Session!RequestStep(d)
  PROVE  Caught(d)' /\ slipped' = slipped
<1>. USE DEF ShieldInv, SessionTypes, Session!TypeOK
<1>1. Caught(d) /\ (spc[d] # "idle" => shown[d] \in Tokens)
  BY DEF Showing, Session!Issued
<1>2. ASSUME NEW k, NEW t \in Tokens, NEW c, Session!Begin(d, k, t, c)
      PROVE  Caught(d)' /\ slipped' = slipped
  BY <1>2 DEF Session!Begin, Caught
<1>3. CASE Session!CheckMemory(d)
  <2>1. CASE mem[shown[d]] > 0
    BY <1>3, <2>1 DEF Session!CheckMemory, Session!Continue, Caught
  <2>2. CASE ~(mem[shown[d]] > 0)
    <3>1. /\ spc[d] = "memory" /\ spc'[d] = "table"
          /\ UNCHANGED <<shown, guarded, shield, tbl, slipped>>
      BY <1>3, <2>2 DEF Session!CheckMemory
    <3>2. ASSUME guarded[d] PROVE tbl[shown[d]] # NoRow
      <4>1. shield[shown[d]] > 0 /\ shown[d] \in Tokens
        BY <1>1, <3>1, <3>2 DEF Caught
      <4>2. Kept(shown[d]) /\ mem[shown[d]] \in Nat /\ shield[shown[d]] \in Nat
        BY <4>1, TimeTypes
      <4>. QED BY <2>2, <4>1, <4>2 DEF Kept
    <3>. QED BY <1>1, <3>1, <3>2 DEF Caught
  <2>. QED BY <2>1, <2>2
<1>4. CASE Session!CheckTable(d)
  <2>1. CASE Session!InTable(shown[d])
    BY <1>4, <2>1 DEF Session!CheckTable, Session!Continue, Caught
  <2>2. CASE ~Session!InTable(shown[d])
    <3>1. spc[d] = "table" /\ shown[d] \in Tokens /\ UNCHANGED <<guarded, slipped>>
      BY <1>1, <1>4, <2>2 DEF Session!CheckTable
    <3>2. ~guarded[d]
      <4>1. SUFFICES ASSUME guarded[d] PROVE FALSE
        OBVIOUS
      <4>2. shield[shown[d]] > 0 /\ tbl[shown[d]] # NoRow
        BY <1>1, <3>1, <4>1 DEF Caught
      <4>3. tbl[shown[d]] \in 0..BlacklistTTL /\ shield[shown[d]] \in 0..BlacklistTTL /\ BlacklistTTL \in Nat
        BY <3>1, <4>2, TimeTypes
      <4>4. tbl[shown[d]] >= shield[shown[d]]
        BY <3>1, <4>2 DEF Kept
      <4>. QED BY <2>2, <4>2, <4>3, <4>4 DEF Session!InTable
    <3>. QED BY <3>1, <3>2 DEF Caught
  <2>. QED BY <2>1, <2>2
<1>5. CASE Session!CheckTableFails(d)
  BY <1>5 DEF Session!CheckTableFails, Caught
<1>6. CASE Session!Admit(d) \/ Session!Refresh(d)
  <2>1. ~guarded[d]
    BY <1>1, <1>6 DEF Caught, Session!Admit, Session!Refresh
  <2>2. slipped' = (slipped \/ guarded[d])
    BY <1>6 DEF Session!Admit, Session!Refresh
  <2>3. slipped' = slipped
    BY <2>1, <2>2
  <2>4. ~guarded'[d]
    BY <1>6 DEF Session!Admit, Session!Refresh, Session!Continue
  <2>. QED BY <2>3, <2>4 DEF Caught
<1>7. CASE Session!Refuse(d) \/ Session!Answer(d)
  BY <1>7 DEF Session!Refuse, Session!Answer, Session!Continue, Caught
<1>8. CASE Session!AddMemory(d) \/ Session!AddRow(d) \/ Session!AddRowFails(d)
  <2>1. ~guarded[d] /\ UNCHANGED <<guarded, slipped>>
    BY <1>1, <1>8 DEF Caught, Session!AddMemory, Session!AddRow, Session!AddRowFails
  <2>. QED BY <2>1 DEF Caught
<1>. QED BY <1>2, <1>3, <1>4, <1>5, <1>6, <1>7, <1>8 DEF Session!RequestStep, Session!Issued, Session!Cookies

\* A request under a promise finds the row when it comes to the table.
LEMMA CaughtStep ==
  ASSUME Session!SessionsAssumption, ShieldInv, NEW d \in Requests, [Session!Next]_(Session!vars)
  PROVE  Caught(d)'
<1>. USE DEF ShieldInv
<1>1. ASSUME NEW r \in Requests, Session!RequestStep(r), r # d PROVE Caught(d)'
  BY <1>1, RequestMoves, ShieldGrows, CaughtElsewhere
<1>2. CASE Session!Tick
  <2>1. SUFFICES ASSUME guarded'[d] PROVE Caught(d)'
    BY DEF Caught
  <2>2. /\ guarded[d] /\ shield[shown[d]] > 1 /\ UNCHANGED <<spc, shown>>
        /\ shown[d] \in Tokens
    BY <1>2, <2>1 DEF Session!Tick, Caught, SessionTypes, Session!TypeOK, Showing, Session!Issued
  <2>3. shield'[shown[d]] = Session!Less(shield[shown[d]]) /\ shield[shown[d]] \in 0..BlacklistTTL
    BY <1>2, <2>2 DEF Session!Tick, SessionTypes, Session!TypeOK
  <2>4. shield'[shown[d]] > 0
    BY <2>2, <2>3, TimeTypes DEF Session!Less
  <2>. QED BY <2>2, <2>4, TriedStays DEF Caught
<1>3. ASSUME NEW t \in Tokens, Session!Evict(t) PROVE Caught(d)'
  <2>1. CASE t \in unsaved
    <3>1. UNCHANGED <<spc, shown, tbl>> /\ shield' = [shield EXCEPT ![t] = 0]
          /\ guarded'[d] = (guarded[d] /\ shown[d] # t)
      BY <1>3, <2>1 DEF Session!Evict
    <3>. QED BY <3>1 DEF Caught, SessionTypes, Session!TypeOK
  <2>2. CASE t \notin unsaved
    BY <1>3, <2>2 DEF Session!Evict, Caught
  <2>. QED BY <2>1, <2>2
<1>4. CASE Session!Restart
  BY <1>4 DEF Session!Restart, Caught
<1>5. CASE Session!Login \/ UNCHANGED Session!vars
  BY <1>5 DEF Session!Login, Session!vars, Session!requests, Caught
<1>. QED BY <1>1, <1>2, <1>3, <1>4, <1>5, CaughtMoves DEF Session!Next

LEMMA ShieldInvStep ==
  ASSUME Session!SessionsAssumption, ShieldInv, [Session!Next]_(Session!vars)
  PROVE  ShieldInv'
<1>. USE DEF ShieldInv
<1>1. slipped' = slipped
  <2>1. ASSUME NEW r \in Requests, Session!RequestStep(r) PROVE slipped' = slipped
    BY <2>1, CaughtMoves
  <2>2. CASE Session!Login \/ Session!Tick \/ Session!Restart \/ \E t \in Tokens : Session!Evict(t)
    BY <2>2 DEF Session!Login, Session!Tick, Session!Restart, Session!Evict
  <2>3. CASE UNCHANGED Session!vars
    BY <2>3 DEF Session!vars
  <2>. QED BY <2>1, <2>2, <2>3 DEF Session!Next
<1>2. SessionTypes'
  BY SessionTypesStep
<1>3. \A r \in Requests : Standing(r)' /\ Caught(r)'
  BY StandingStep, CaughtStep
<1>4. \A t \in Tokens : (shield'[t] > 0 => Kept(t)')
  BY KeptStep
<1>. QED BY <1>1, <1>2, <1>3, <1>4

\* Logout, IsBlacklisted and the two copies of the blacklist, through expiry, eviction and
\* a restart between any two of their steps: a token that was logged out is refused, for
\* as long as one copy was left to ask and the table could be read.
THEOREM RevokedStaysOutAlways == Session!Spec => []RevokedStaysOut
<1>. USE SessionsAssumption
<1>1. Session!Init => ShieldInv
  <2>. SUFFICES ASSUME Session!Init PROVE ShieldInv
    OBVIOUS
  <2>1. \A r \in Requests : Standing(r) /\ Caught(r)
    BY DEF Session!Init, Standing, Caught
  <2>2. \A t \in Tokens : shield[t] > 0 => Kept(t)
    BY DEF Session!Init
  <2>3. ~slipped
    BY DEF Session!Init
  <2>. QED BY <2>1, <2>2, <2>3, SessionTypesInit DEF ShieldInv
<1>2. ShieldInv /\ [Session!Next]_(Session!vars) => ShieldInv'
  BY ShieldInvStep
<1>3. ShieldInv => RevokedStaysOut
  BY DEF ShieldInv, RevokedStaysOut, Session!RevokedStaysOut
<1>. QED BY <1>1, <1>2, <1>3, PTL DEF Session!Spec

-----------------------------------------------------------------------------
\* What a token's age gains in a tick, the time it has left loses.
LEMMA OlderBounded ==
  ASSUME Session!SessionsAssumption, NEW c \in Session!Claims, Bounded(c)
  PROVE  Bounded([c EXCEPT !.left = Session!Less(@), !.age = Session!Older(c)])
<1>. DEFINE l == Session!Less(c.left)
            a == Session!Older(c)
            n == [c EXCEPT !.left = l, !.age = a]
<1>1. /\ AccessTTL \in Nat /\ RefreshTTL \in Nat /\ c.left \in Nat /\ c.age \in Nat
      /\ Session!MaxSession = AccessTTL + RefreshTTL
  BY DEF Session!SessionsAssumption, Session!Claims, Session!MaxSession
<1>2. l > 0 => c.left > 1 /\ l = c.left - 1
  BY <1>1 DEF Session!Less
<1>3. l > 0 /\ c.kind \in {"access", "refresh"} => a = c.age + 1
  BY <1>1, <1>2 DEF Session!Older, Bounded
<1>4. n.left = l /\ n.age = a /\ n.kind = c.kind
  BY DEF Session!Claims
<1>. HIDE DEF n, l, a
<1>5. Bounded(n)
  BY <1>1, <1>2, <1>3, <1>4 DEF Bounded
<1>. QED BY <1>5 DEF n, l, a

\* The tokens of a login are within their bounds.
LEMMA NewBounded ==
  ASSUME Session!SessionsAssumption
  PROVE  /\ Bounded(Session!NewToken(AccessTTL, "access"))
         /\ Bounded(Session!NewToken(RefreshTTL, "refresh"))
  BY DEF Session!SessionsAssumption, Session!NewToken, Bounded

\* The access token that a valid refresh token is exchanged for.
LEMMA ExchangedBounded ==
  ASSUME Session!SessionsAssumption, NEW c \in Session!Claims, Bounded(c), c.left > 0
  PROVE  Bounded(Session!Exchanged(c))
<1>. DEFINE k == IF c.kind = "refresh" THEN "access" ELSE "renewed"
            n == [[c EXCEPT !.kind = k] EXCEPT !.left = AccessTTL]
<1>1. /\ AccessTTL \in Nat /\ RefreshTTL \in Nat /\ c.left \in Nat /\ c.age \in Nat
  BY DEF Session!SessionsAssumption, Session!Claims, Session!MaxSession
<1>2. n.left = AccessTTL /\ n.age = c.age /\ n.kind = k
  BY DEF Session!Claims
<1>3. Session!Exchanged(c) = n
  BY DEF Session!Exchanged
<1>. HIDE DEF n
<1>4. Bounded(n)
  BY <1>1, <1>2 DEF Bounded
<1>. QED BY <1>3, <1>4

LEMMA AgeInvStep ==
  ASSUME Session!SessionsAssumption, AgeInv, [Session!Next]_(Session!vars)
  PROVE  AgeInv'
<1>. USE TimeTypes DEF AgeInv
<1>1. SessionTypes'
  BY SessionTypesStep
<1>2. ASSUME NEW t \in Tokens, tok'[t] # NoToken PROVE Bounded(tok'[t])
  <2>. USE DEF SessionTypes, Session!TypeOK
  <2>1. CASE Session!Login
    BY <1>2, <2>1, NewBounded DEF Session!Login
  <2>2. CASE Session!Tick
    <3>1. /\ tok[t] # NoToken
          /\ tok'[t] = [tok[t] EXCEPT !.left = Session!Less(@), !.age = Session!Older(tok[t])]
      BY <1>2, <2>2 DEF Session!Tick
    <3>2. tok[t] \in Session!Claims /\ Bounded(tok[t])
      BY <3>1
    <3>3. Bounded([tok[t] EXCEPT !.left = Session!Less(@), !.age = Session!Older(tok[t])])
      BY <3>2, OlderBounded
    <3>. QED BY <3>1, <3>3
  <2>3. ASSUME NEW r \in Requests, Session!Refresh(r) PROVE Bounded(tok'[t])
    <3>1. tok[shown[r]] \in Session!Claims /\ tok[shown[r]].left > 0 /\ Bounded(tok[shown[r]])
      BY <2>3 DEF Session!Refresh, Session!Valid, Showing, Session!Issued
    <3>. QED BY <1>2, <2>3, <3>1, ExchangedBounded DEF Session!Refresh
  <2>4. ASSUME NEW r \in Requests, Session!RequestStep(r), ~Session!Refresh(r) PROVE tok' = tok
    BY <2>4 DEF Session!RequestStep, Session!Begin, Session!CheckMemory, Session!CheckTable,
         Session!CheckTableFails, Session!Admit, Session!Refuse, Session!AddMemory, Session!AddRow,
         Session!AddRowFails, Session!Answer
  <2>5. CASE Session!Restart \/ \E e \in Tokens : Session!Evict(e)
    BY <1>2, <2>5 DEF Session!Restart, Session!Evict
  <2>6. CASE UNCHANGED Session!vars
    BY <1>2, <2>6 DEF Session!vars
  <2>. QED BY <1>2, <2>1, <2>2, <2>3, <2>4, <2>5, <2>6 DEF Session!Next
<1>. QED BY <1>1, <1>2

\* Login and RefreshAccessToken: a refresh token dates from a login, and an access token
\* that came of it carries a role that is at most the two lifetimes old.
THEOREM SessionsEndAlways == Session!Spec => []SessionsEnd
<1>. USE SessionsAssumption
<1>1. Session!Init => AgeInv
  BY SessionTypesInit DEF Session!Init, AgeInv
<1>2. AgeInv /\ [Session!Next]_(Session!vars) => AgeInv'
  BY AgeInvStep
<1>3. AgeInv => SessionsEnd
  <2>. SUFFICES ASSUME AgeInv, NEW t \in Session!Issued, Session!Valid(t), tok[t].kind # "renewed"
       PROVE  /\ tok[t].age + tok[t].left <= Session!MaxSession
              /\ tok[t].kind = "refresh" => tok[t].age + tok[t].left = RefreshTTL
    BY DEF SessionsEnd, Session!SessionsEnd
  <2>1. tok[t] \in Session!Claims /\ Bounded(tok[t]) /\ tok[t].left > 0
    BY DEF AgeInv, SessionTypes, Session!TypeOK, Session!Issued, Session!Valid
  <2>2. tok[t].kind \in {"access", "refresh"} /\ AccessTTL \in Nat /\ RefreshTTL \in Nat
        /\ tok[t].age \in Nat /\ tok[t].left \in Nat
    BY <2>1 DEF Session!Claims, Session!SessionsAssumption, Session!MaxSession
  <2>. QED BY <2>1, <2>2 DEF Bounded, Session!MaxSession
<1>. QED BY <1>1, <1>2, <1>3, PTL DEF Session!Spec

-----------------------------------------------------------------------------
(* The types of both parts                                                  *)

\* A change has a target.
Targeted(r) == apc[r] # "idle" /\ areq[r].op # "view" => areq[r].target \in Users

AccessTypes == EntitledInv /\ TypeOK /\ \A r \in Requests : Targeted(r)

LEMMA TargetStep ==
  ASSUME AccessInv, NEW d \in Requests, Targeted(d), [Next]_vars
  PROVE  Targeted(d)'
<1>. USE DEF AccessInv, RequestsOK, Targeted
<1>1. ASSUME UNCHANGED <<apc, areq>> PROVE Targeted(d)'
  BY <1>1
<1>2. ASSUME NEW r \in Requests, RequestStep(r) PROVE Targeted(d)'
  <2>1. CASE r # d
    BY <1>2, <2>1, MovesAlone
  <2>2. ASSUME NEW u, NEW as, NEW c, BeginView(d, u, as, c) PROVE Targeted(d)'
    BY <2>2 DEF BeginView, NoRequest
  <2>3. ASSUME NEW o \in {"grant", "revoke", "assign"}, NEW u, NEW v \in Users, NEW as, NEW c, NEW ts,
               BeginChange(d, o, u, as, c, v, ts)
        PROVE  Targeted(d)'
    BY <2>3 DEF BeginChange, NoRequest
  <2>4. ASSUME NEW step, Go(d, step), apc[d] # "idle" PROVE Targeted(d)'
    BY <2>4 DEF Go
  <2>5. ASSUME NEW what, Answer(d, what), apc[d] # "idle" PROVE Targeted(d)'
    <3>1. areq'[d] = [areq[d] EXCEPT !.answer = what] /\ areq[d] \in Requested
      BY <2>5 DEF Answer
    <3>2. areq'[d].op = areq[d].op /\ areq'[d].target = areq[d].target
      BY <3>1 DEF Requested
    <3>. QED BY <2>5, <3>2
  <2>6. CASE RequestStep(d)
    <3>1. Check(d) \/ ReadRole(d) \/ ReadTopics(d) => Targeted(d)'
      BY <2>4, <2>5 DEF Check, ReadRole, ReadTopics
    <3>2. \/ Grant(d) \/ Revoke(d) \/ FindUser(d) \/ FindCluster(d)
          \/ FindAccess(d) \/ AddAccess(d) \/ AddTopics(d)
          => Targeted(d)'
      BY <2>4 DEF Grant, Revoke, FindUser, FindCluster, FindAccess, AddAccess, AddTopics
    <3>3. Finish(d) => Targeted(d)'
      BY DEF Finish
    <3>. QED BY <2>2, <2>3, <2>6, <3>1, <3>2, <3>3 DEF RequestStep
  <2>. QED BY <1>2, <2>1, <2>6
<1>3. CASE UNCHANGED vars
  BY <1>1, <1>3 DEF vars, accessVars
<1>4. CASE Next /\ ~\E r \in Requests : RequestStep(r)
  BY <1>1, <1>4 DEF Next, RevokeTopic, RemoveCluster, ChangeCluster, ChangeRole
<1>. QED BY <1>2, <1>3, <1>4

LEMMA CountTypes ==
  ASSUME TypeOK, Count
  PROVE  accessOps' \in 0..MaxAccessOps
  BY AccessAssumption DEF TypeOK, Count

\* What a request writes into the tables.
LEMMA TableTypes ==
  ASSUME AccessTypes, NEW r \in Requests, RequestStep(r)
  PROVE  /\ relation' \in SUBSET (Users \X Ids) /\ lost' \in SUBSET (Users \X Ids)
         /\ perm' \in SUBSET (Users \X Ids \X Topics)
         /\ accessOps' \in 0..MaxAccessOps /\ UNCHANGED <<rowVars, role, was>>
<1>. USE DEF AccessTypes, TypeOK
<1>1. apc[r] \in {"write", "addAccess", "addTopics"} =>
        areq[r].target \in Users /\ areq[r].topics \in SUBSET Topics
  BY DEF EntitledInv, Entitled, Targeted, Requested
<1>2. ASSUME NEW u, NEW as, NEW c, BeginView(r, u, as, c)
      PROVE  accessOps' \in 0..MaxAccessOps /\ UNCHANGED <<rowVars, role, was, relation, perm, lost>>
  BY <1>2, CountTypes DEF BeginView
<1>3. ASSUME NEW o, NEW u, NEW as, NEW c, NEW v, NEW ts, BeginChange(r, o, u, as, c, v, ts)
      PROVE  accessOps' \in 0..MaxAccessOps /\ UNCHANGED <<rowVars, role, was, relation, perm, lost>>
  BY <1>3, CountTypes DEF BeginChange
<1>4. CASE \/ Check(r) \/ ReadRole(r) \/ ReadTopics(r) \/ FindUser(r) \/ FindCluster(r)
           \/ FindAccess(r) \/ Finish(r)
  BY <1>4 DEF Check, ReadRole, ReadTopics, FindUser, FindCluster, FindAccess, Finish
<1>5. CASE Grant(r) \/ AddAccess(r)
  BY <1>1, <1>5 DEF Grant, AddAccess, AddRelation
<1>6. CASE Revoke(r)
  BY <1>1, <1>6 DEF Revoke
<1>7. CASE AddTopics(r)
  BY <1>1, <1>7 DEF AddTopics
<1>. QED BY <1>2, <1>3, <1>4, <1>5, <1>6, <1>7 DEF RequestStep

LEMMA AccessTypesStep ==
  ASSUME AccessTypes, [Next]_vars
  PROVE  AccessTypes'
<1>. USE DEF AccessTypes, TypeOK
<1>1. EntitledInv' /\ \A r \in Requests : Targeted(r)'
  BY EntitledStep, TargetStep DEF EntitledInv
<1>2. apc' \in [Requests -> Steps] /\ areq' \in [Requests -> Requested]
  BY <1>1 DEF EntitledInv, AccessInv, RequestsOK
<1>3. ASSUME NEW r \in Requests, RequestStep(r) PROVE TypeOK'
  BY <1>2, <1>3, TableTypes DEF rowVars
<1>4. ASSUME NEW u \in Users, NEW c \in Ids, NEW t \in Topics, RevokeTopic(u, c, t) PROVE TypeOK'
  BY <1>2, <1>4, CountTypes DEF RevokeTopic, rowVars
<1>5. ASSUME NEW c \in Ids, RemoveCluster(c) PROVE TypeOK'
  BY <1>2, <1>5, CountTypes DEF RemoveCluster, Remove
<1>6. ASSUME ChangeCluster PROVE TypeOK'
  <2>1. rows' \in SUBSET Ids /\ used' \in SUBSET Ids /\ held' \in [Updates -> Ids \cup {NoId}]
    BY <1>6 DEF ChangeCluster, Insert, Read, Save
  <2>2. Count /\ UNCHANGED <<role, was, relation, perm, lost>>
    BY <1>6 DEF ChangeCluster
  <2>. QED BY <1>2, <2>1, <2>2, CountTypes
<1>7. ASSUME NEW u \in Users, NEW to \in Roles, ChangeRole(u, to) PROVE TypeOK'
  BY <1>2, <1>7, CountTypes DEF ChangeRole, rowVars
<1>8. ASSUME UNCHANGED vars PROVE TypeOK'
  <2>1. UNCHANGED <<rows, used, held>> /\ UNCHANGED <<role, was, relation, perm, lost, accessOps>>
    BY <1>8 DEF vars, accessVars, rowVars
  <2>. QED BY <1>2, <2>1
<1>9. TypeOK'
  BY <1>3, <1>4, <1>5, <1>6, <1>7, <1>8 DEF Next
<1>. QED BY <1>1, <1>9

\* The part that a behaviour is not about does not move.
LEMMA GatewayParts ==
  ASSUME [SumNext]_<<part, vars, sessionsVars>>
  PROVE  [Next]_vars /\ [Session!Next]_(Session!vars)
  BY DEF SumNext, AccessStep, SessionsStep, sessionsVars, Session!vars, Session!requests

\* Every variable of the two parts keeps its type.
THEOREM GatewayTypes == SumSpec => []TypesOK
<1>. USE SessionsAssumption, AccessAssumption
<1>. DEFINE Inv == AccessTypes /\ SessionTypes
<1>1. SumInit => Inv
  <2>. SUFFICES ASSUME SumInit PROVE Inv
    OBVIOUS
  <2>1. EntitledInv
    BY AccessInit DEF SumInit, Init, EntitledInv, Entitled
  <2>2. TypeOK
    BY <2>1 DEF SumInit, Init, TypeOK, EntitledInv, AccessInv, RequestsOK
  <2>3. \A r \in Requests : Targeted(r)
    BY DEF SumInit, Init, Targeted
  <2>4. SessionTypes
    BY SessionTypesInit DEF SumInit
  <2>. QED BY <2>1, <2>2, <2>3, <2>4 DEF AccessTypes
<1>2. Inv /\ [SumNext]_<<part, vars, sessionsVars>> => Inv'
  BY GatewayParts, AccessTypesStep, SessionTypesStep
<1>3. Inv => TypesOK
  BY DEF AccessTypes, SessionTypes, TypesOK
<1>. QED BY <1>1, <1>2, <1>3, PTL DEF SumSpec
=============================================================================
