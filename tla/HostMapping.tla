------------------------------ MODULE HostMapping ------------------------------
(***************************************************************************)
(* Host mappings: the table `host_mappings`, the two instances of the      *)
(* service in the server, each with a cache of its own, the API requests,  *)
(* and the resolution of one host when a Kafka cluster is dialled.         *)
(*                                                                         *)
(* The API works on the instance of the router; the dialer asks the one    *)
(* that main made, which sees a change when it next lists the table.  A    *)
(* refresh works from a listing that may be older than the cache, and its  *)
(* mutex is not taken by the requests, which change the table and the      *)
(* cache in separate steps.                                                *)
(***************************************************************************)
EXTENDS Naturals, FiniteSets

CONSTANTS
  Keys,      \* hosts with or without a cluster: what cacheKey tells apart
  Specific,  \* the dialled host's key for the cluster
  Global,    \* the dialled host's key for all clusters
  IPs,
  NoIP,      \* no mapping: the cache has no such key
  Api,       \* the instance the API works on
  Dialer,    \* the instance the dialer asks
  Requests,  \* slots of concurrent API requests
  NoRow,     \* the table has no such row
  Dialect,   \* the database: "mysql" or "postgres"
  MaxOps,    \* bound: API requests
  MaxFaults  \* bound: failed statements and listings, and restarts

Services == {Api, Dialer}
Values   == [key : Keys, ip : IPs]
Rows     == [id : Nat, ip : IPs]

ASSUME HostAssumption ==
  /\ IsFiniteSet(Keys)
  /\ Specific \in Keys /\ Global \in Keys
  /\ NoIP \notin IPs
  /\ NoRow \notin Rows /\ NoRow \notin Values
  /\ MaxOps \in Nat /\ MaxFaults \in Nat

VARIABLES
  db,       \* db[k]: the row; (hostname, cluster_name) is unique
  nextId,   \* AUTO_INCREMENT
  cache,    \* cache[s][k]: the value of s.cache under k
  pc,       \* pc[s]: the next step of s's refresh
  newCache, \* newCache[s]: what s's refresh has listed
  oldKeys,  \* oldKeys[s]: the keys it found in the cache
  todo,     \* todo[s]: the keys its current loop has yet to visit
  rpc,      \* rpc[r]: the next step of request r
  rid,      \* rid[r]: the id r works on
  mapping,  \* mapping[r]: what r stores
  old,      \* old[r]: the row r has read
  dpc,      \* the next step of ResolveForCluster
  answer,   \* its result
  seen,     \* history: the mappings the table has had
  quiet,    \* history: quiet[s]: keys nothing happened to since s's refresh listed
  settled,  \* history: settled[s]: the same since s's last complete refresh listed
  calm,     \* history: the host's keys are settled since its resolution began
  ops, faults

refreshes  == <<pc, newCache, oldKeys, todo>>
requests   == <<rpc, rid, mapping, old>>
resolution == <<dpc, answer>>
history    == <<seen, quiet, settled, calm>>
vars == <<db, nextId, cache, refreshes, requests, resolution, history, ops, faults>>

NoMap == [k \in Keys |-> NoIP]

\* The addresses of table d by key: List, and the map built from its rows.
Listed(d) == [k \in Keys |-> IF d[k] = NoRow THEN NoIP ELSE d[k].ip]

Mappings(d) == {[key |-> k, ip |-> d[k].ip] : k \in {j \in Keys : d[j] # NoRow}}

Fault == faults < MaxFaults /\ faults' = faults + 1

-----------------------------------------------------------------------------
Init ==
  /\ db \in [Keys -> {NoRow} \cup [id : 1..Cardinality(Keys), ip : IPs]]
  /\ \A j, k \in Keys : db[j] # NoRow /\ db[k] # NoRow /\ db[j].id = db[k].id => j = k
  /\ nextId = Cardinality(Keys) + 1
  /\ cache = [s \in Services |-> Listed(db)]
  /\ pc = [s \in Services |-> "idle"]
  /\ newCache = [s \in Services |-> NoMap]
  /\ oldKeys = [s \in Services |-> {}]
  /\ todo = [s \in Services |-> {}]
  /\ rpc = [r \in Requests |-> "idle"]
  /\ rid = [r \in Requests |-> 0]
  /\ mapping = [r \in Requests |-> NoRow]
  /\ old = [r \in Requests |-> NoRow]
  /\ dpc = "idle" /\ answer = NoIP
  /\ seen = Mappings(db)
  /\ quiet = [s \in Services |-> {}]
  /\ settled = [s \in Services |-> Keys]
  /\ calm = FALSE
  /\ ops = 0 /\ faults = 0

\* Something other than the refreshes happens to the keys touched[s] of each instance s.
Touch(touched) ==
  /\ quiet' = [s \in Services |-> quiet[s] \ touched[s]]
  /\ settled' = [s \in Services |-> settled[s] \ touched[s]]
  /\ calm' = (calm /\ {Specific, Global} \cap touched[Dialer] = {})

SetTable(d) ==
  /\ db' = d
  /\ seen' = seen \cup Mappings(d)
  /\ Touch([s \in Services |-> {k \in Keys : Listed(d)[k] # Listed(db)[k]}])

SetCache(k, ip) ==
  /\ cache' = [cache EXCEPT ![Api][k] = ip]
  /\ seen' = seen
  /\ Touch([s \in Services |-> IF s = Api THEN {k} ELSE {}])

-----------------------------------------------------------------------------
(* refreshCache, at start and every 30 seconds.                             *)

ListTable_IfCountChanged(s) ==
  /\ pc[s] = "idle"
  /\ Cardinality({k \in Keys : cache[s][k] # NoIP}) # Cardinality({k \in Keys : Listed(db)[k] # NoIP})
  /\ newCache' = [newCache EXCEPT ![s] = Listed(db)]
  /\ todo' = [todo EXCEPT ![s] = Keys]
  /\ pc' = [pc EXCEPT ![s] = "range"]
  /\ quiet' = [quiet EXCEPT ![s] = Keys]
  /\ UNCHANGED <<db, nextId, cache, oldKeys, requests, resolution, seen, settled, calm, ops, faults>>

ListTable(s) ==
  /\ pc[s] = "idle"
  /\ newCache' = [newCache EXCEPT ![s] = Listed(db)]
  /\ todo' = [todo EXCEPT ![s] = Keys]
  /\ pc' = [pc EXCEPT ![s] = "range"]
  /\ quiet' = [quiet EXCEPT ![s] = Keys]
  /\ UNCHANGED <<db, nextId, cache, oldKeys, requests, resolution, seen, settled, calm, ops, faults>>

\* The refresh returns and leaves the cache as it is.
ListFails(s) ==
  /\ pc[s] = "idle" /\ Fault
  /\ UNCHANGED <<db, nextId, cache, refreshes, requests, resolution, history, ops>>

\* sync.Map's Range visits the keys one by one, others change them meanwhile.
RangeKey(s, k) ==
  /\ pc[s] = "range" /\ k \in todo[s]
  /\ oldKeys' = [oldKeys EXCEPT ![s] = IF cache[s][k] = NoIP THEN @ ELSE @ \cup {k}]
  /\ todo' = [todo EXCEPT ![s] = @ \ {k}]
  /\ UNCHANGED <<db, nextId, cache, pc, newCache, requests, resolution, history, ops, faults>>

ToStore(s) == {k \in Keys : newCache[s][k] # NoIP}

ToDelete_Nothing(s) == {}

ToDelete(s) == {k \in oldKeys[s] : newCache[s][k] = NoIP}

StoreKey(s, k) ==
  /\ pc[s] = "store" /\ k \in todo[s]
  /\ cache' = [cache EXCEPT ![s][k] = newCache[s][k]]
  /\ todo' = [todo EXCEPT ![s] = @ \ {k}]
  /\ UNCHANGED <<db, nextId, pc, newCache, oldKeys, requests, resolution, history, ops, faults>>

DeleteKey(s, k) ==
  /\ pc[s] = "delete" /\ k \in todo[s]
  /\ cache' = [cache EXCEPT ![s][k] = NoIP]
  /\ todo' = [todo EXCEPT ![s] = @ \ {k}]
  /\ UNCHANGED <<db, nextId, pc, newCache, oldKeys, requests, resolution, history, ops, faults>>

\* A loop ends and the next one begins: collect, store, delete.
NextLoop(s) ==
  /\ todo[s] = {}
  /\ \/ /\ pc[s] = "range"
        /\ pc' = [pc EXCEPT ![s] = "store"]
        /\ todo' = [todo EXCEPT ![s] = ToStore(s)]
     \/ /\ pc[s] = "store"
        /\ pc' = [pc EXCEPT ![s] = "delete"]
        /\ todo' = [todo EXCEPT ![s] = ToDelete(s)]
  /\ UNCHANGED <<db, nextId, cache, newCache, oldKeys, requests, resolution, history, ops,
                 faults>>

RefreshEnds(s) ==
  /\ pc[s] = "delete" /\ todo[s] = {}
  /\ pc' = [pc EXCEPT ![s] = "idle"]
  /\ newCache' = [newCache EXCEPT ![s] = NoMap]
  /\ oldKeys' = [oldKeys EXCEPT ![s] = {}]
  /\ settled' = [settled EXCEPT ![s] = quiet[s]]
  /\ quiet' = [quiet EXCEPT ![s] = {}]
  /\ UNCHANGED <<db, nextId, cache, todo, requests, resolution, seen, calm, ops, faults>>

-----------------------------------------------------------------------------
(* The API.                                                                 *)

\* The request goes on with the given step, or ends.
Goto(r, step) ==
  /\ rpc' = [rpc EXCEPT ![r] = step]
  /\ IF step = "idle"
       THEN /\ rid' = [rid EXCEPT ![r] = 0]
            /\ mapping' = [mapping EXCEPT ![r] = NoRow]
            /\ old' = [old EXCEPT ![r] = NoRow]
       ELSE UNCHANGED <<rid, mapping, old>>

Start(r) ==
  /\ rpc[r] = "idle" /\ ops < MaxOps /\ ops' = ops + 1
  /\ UNCHANGED <<db, nextId, cache, refreshes, resolution, history, faults>>

StartCreate(r, m) ==
  /\ Start(r)
  /\ mapping' = [mapping EXCEPT ![r] = m]
  /\ rpc' = [rpc EXCEPT ![r] = "insert"]
  /\ UNCHANGED <<rid, old>>

\* The handler of Update reads the row and replaces the fields the request names.
StartUpdate(r, k, m) ==
  /\ Start(r) /\ db[k] # NoRow
  /\ rid' = [rid EXCEPT ![r] = db[k].id]
  /\ mapping' = [mapping EXCEPT ![r] = m]
  /\ rpc' = [rpc EXCEPT ![r] = "find"]
  /\ UNCHANGED old

\* Delete reads the row, whose key it will drop from the cache.
StartDelete(r, k) ==
  /\ Start(r) /\ db[k] # NoRow
  /\ rid' = [rid EXCEPT ![r] = db[k].id]
  /\ mapping' = [mapping EXCEPT ![r] = NoRow]
  /\ old' = [old EXCEPT ![r] = [key |-> k, ip |-> db[k].ip]]
  /\ rpc' = [rpc EXCEPT ![r] = "delete"]

OnError == "idle"

\* repo.Create: fails on a duplicate key.
Insert(r) ==
  /\ rpc[r] = "insert"
  /\ LET m == mapping[r] IN
     IF db[m.key] = NoRow
       THEN /\ SetTable([db EXCEPT ![m.key] = [id |-> nextId, ip |-> m.ip]])
            /\ nextId' = nextId + 1
            /\ Goto(r, "store")
       ELSE Goto(r, OnError) /\ UNCHANGED <<db, nextId, history>>
  /\ UNCHANGED <<cache, refreshes, resolution, ops, faults>>

\* The service reads the row again, for its old key; an error counts as no row.
FindOld(r) ==
  /\ rpc[r] = "find"
  /\ rpc' = [rpc EXCEPT ![r] = "save"]
  /\ \/ \E k \in Keys : /\ db[k] # NoRow /\ db[k].id = rid[r]
                        /\ old' = [old EXCEPT ![r] = [key |-> k, ip |-> db[k].ip]]
                        /\ faults' = faults
     \/ /\ \A k \in Keys : db[k] # NoRow => db[k].id # rid[r]
        /\ old' = [old EXCEPT ![r] = NoRow]
        /\ faults' = faults
     \/ /\ Fault
        /\ old' = [old EXCEPT ![r] = NoRow]
  /\ UNCHANGED <<db, nextId, cache, refreshes, rid, mapping, resolution, history, ops>>

\* Save: UPDATE by id; when no row has the id, INSERT and on a duplicate UPDATE.  A row
\* of the same key and another id refuses the first, and takes the second with MySQL
\* only, as Postgres names the id as the conflict.
Exists(id) == \E k \in Keys : db[k] # NoRow /\ db[k].id = id

SaveFails(id, key) ==
  /\ db[key] # NoRow /\ db[key].id # id
  /\ Exists(id) \/ Dialect = "postgres"

Saved_SameKey(id, m) ==
  [k \in Keys |-> IF db[k] # NoRow /\ db[k].id = id THEN [id |-> id, ip |-> m.ip] ELSE db[k]]

Saved(id, m) ==
  [k \in Keys |->
     IF k = m.key
       THEN [id |-> IF db[k] # NoRow THEN db[k].id ELSE id, ip |-> m.ip]
     ELSE IF db[k] # NoRow /\ db[k].id = id THEN NoRow
     ELSE db[k]]

Save(r) ==
  /\ rpc[r] = "save"
  /\ IF SaveFails(rid[r], mapping[r].key)
       THEN Goto(r, OnError) /\ UNCHANGED <<db, history>>
       ELSE /\ SetTable(Saved(rid[r], mapping[r]))
            /\ Goto(r, IF old[r] # NoRow /\ old[r].key # mapping[r].key
                         THEN "forget" ELSE "store")
  /\ UNCHANGED <<nextId, cache, refreshes, resolution, ops, faults>>

\* repo.Delete; deleting nothing is no error.
Delete(r) ==
  /\ rpc[r] = "delete"
  /\ SetTable([k \in Keys |-> IF db[k] # NoRow /\ db[k].id = rid[r] THEN NoRow ELSE db[k]])
  /\ Goto(r, "forget")
  /\ UNCHANGED <<nextId, cache, refreshes, resolution, ops, faults>>

\* cache.Delete of the old key: Delete ends, Update goes on.
Forget(r) ==
  /\ rpc[r] = "forget"
  /\ SetCache(old[r].key, NoIP)
  /\ Goto(r, IF mapping[r] = NoRow THEN "idle" ELSE "store")
  /\ UNCHANGED <<db, nextId, refreshes, resolution, ops, faults>>

Store(r) ==
  /\ rpc[r] = "store"
  /\ SetCache(mapping[r].key, mapping[r].ip)
  /\ Goto(r, "idle")
  /\ UNCHANGED <<db, nextId, refreshes, resolution, ops, faults>>

\* The statement fails, or it succeeds and its answer is lost.
RequestFails(r) ==
  /\ rpc[r] \in {"insert", "save", "delete", "forget", "store"} /\ Fault
  /\ Goto(r, "idle")
  /\ UNCHANGED <<db, nextId, cache, refreshes, resolution, history, ops>>

-----------------------------------------------------------------------------
(* ResolveForCluster, on the dialer's instance.                             *)

FirstKey_Global == Global

FirstKey == Specific

LookupFirst ==
  /\ dpc = "idle"
  /\ answer' = cache[Dialer][FirstKey]
  /\ dpc' = IF cache[Dialer][FirstKey] = NoIP THEN "global" ELSE "idle"
  /\ calm' = ({Specific, Global} \subseteq settled[Dialer])
  /\ UNCHANGED <<db, nextId, cache, refreshes, requests, seen, quiet, settled, ops, faults>>

LookupGlobal ==
  /\ dpc = "global"
  /\ answer' = cache[Dialer][Global]
  /\ dpc' = "idle"
  /\ UNCHANGED <<db, nextId, cache, refreshes, requests, history, ops, faults>>

-----------------------------------------------------------------------------
\* The server stops and starts: for each instance NewService lists the table before the
\* instance is used, and leaves its cache empty when that fails.  Nothing writes the table
\* between the dialer's listing in main and that of the router, which serves only then.
Restart ==
  /\ Fault
  /\ \E listing \in SUBSET Services :
       /\ cache' = [s \in Services |-> IF s \in listing THEN Listed(db) ELSE NoMap]
       /\ settled' = [s \in Services |-> IF s \in listing THEN Keys ELSE {}]
  /\ pc' = [s \in Services |-> "idle"]
  /\ newCache' = [s \in Services |-> NoMap]
  /\ oldKeys' = [s \in Services |-> {}]
  /\ todo' = [s \in Services |-> {}]
  /\ quiet' = [s \in Services |-> {}]
  /\ rpc' = [r \in Requests |-> "idle"]
  /\ rid' = [r \in Requests |-> 0]
  /\ mapping' = [r \in Requests |-> NoRow]
  /\ old' = [r \in Requests |-> NoRow]
  /\ dpc' = "idle" /\ calm' = FALSE
  /\ UNCHANGED <<db, nextId, answer, seen, ops>>

RefreshStep(s) ==
  \/ ListTable(s) \/ NextLoop(s) \/ RefreshEnds(s)
  \/ \E k \in Keys : RangeKey(s, k) \/ StoreKey(s, k) \/ DeleteKey(s, k)

RequestStep(r) == Insert(r) \/ FindOld(r) \/ Save(r) \/ Delete(r) \/ Forget(r) \/ Store(r)

StartRequest(r) ==
  \/ \E m \in Values : StartCreate(r, m)
  \/ \E k \in Keys : StartDelete(r, k) \/ \E m \in Values : StartUpdate(r, k, m)

Next ==
  \/ \E s \in Services : RefreshStep(s) \/ ListFails(s)
  \/ \E r \in Requests : StartRequest(r) \/ RequestStep(r) \/ RequestFails(r)
  \/ LookupFirst \/ LookupGlobal
  \/ Restart

\* The ticker fires and a refresh that has begun ends; a handler that runs finishes.
Fairness ==
  /\ \A s \in Services : WF_vars(RefreshStep(s))
  /\ \A r \in Requests : WF_vars(RequestStep(r))

Spec == Init /\ [][Next]_vars /\ Fairness

-----------------------------------------------------------------------------
(* Properties.                                                              *)

TypeOK ==
  /\ db \in [Keys -> Rows \cup {NoRow}]
  /\ nextId \in Nat
  /\ cache \in [Services -> [Keys -> IPs \cup {NoIP}]]
  /\ pc \in [Services -> {"idle", "range", "store", "delete"}]
  /\ newCache \in [Services -> [Keys -> IPs \cup {NoIP}]]
  /\ oldKeys \in [Services -> SUBSET Keys] /\ todo \in [Services -> SUBSET Keys]
  /\ rpc \in [Requests -> {"idle", "insert", "find", "save", "delete", "forget", "store"}]
  /\ rid \in [Requests -> Nat]
  /\ mapping \in [Requests -> Values \cup {NoRow}] /\ old \in [Requests -> Values \cup {NoRow}]
  /\ dpc \in {"idle", "global"} /\ answer \in IPs \cup {NoIP}
  /\ seen \subseteq Values
  /\ quiet \in [Services -> SUBSET Keys] /\ settled \in [Services -> SUBSET Keys]
  /\ calm \in BOOLEAN
  /\ ops \in 0..MaxOps /\ faults \in 0..MaxFaults

\* Once a refresh has ended, an instance resolves a key as the table does, before, in
\* and after each later refresh, until a request changes the key's row or its cache
\* entry: the three loops never leave a gap and never bring back an old address.
SettledMirrors ==
  \A s \in Services : \A k \in settled[s] : cache[s][k] = Listed(db)[k]

\* No instance ever resolves a host to an address the table has not had for it, however
\* requests fail or race with refreshes.
OnlyFromTable ==
  \A s \in Services, k \in Keys :
    cache[s][k] # NoIP => [key |-> k, ip |-> cache[s][k]] \in seen

\* The table's answer for the host: the cluster's mapping before the global one.
Answer(d) == IF Listed(d)[Specific] # NoIP THEN Listed(d)[Specific] ELSE Listed(d)[Global]

\* A resolution whose two keys are settled from its start returns the table's answer,
\* although it reads them in two steps and a refresh may run in between.
CalmResolution == dpc = "idle" /\ calm => answer = Answer(db)

\* When requests and failures have stopped, every instance resolves as the table says
\* for good, whatever races left in its cache.
Converges == <>[](\A s \in Services : cache[s] = Listed(db))

-----------------------------------------------------------------------------
(* The inductive invariants.                                                *)

\* What a refresh has listed of a quiet key is the truth, and its loops have done, or
\* will do, what the key needs.
RefreshInv ==
  \A s \in Services :
    /\ pc[s] # "idle" => settled[s] \subseteq quiet[s]
    /\ pc[s] # "idle" => \A k \in quiet[s] :
         /\ newCache[s][k] = Listed(db)[k]
         /\ pc[s] = "range" /\ k \notin todo[s] /\ cache[s][k] # NoIP => k \in oldKeys[s]
         /\ pc[s] = "store" /\ cache[s][k] # NoIP /\ newCache[s][k] = NoIP => k \in oldKeys[s]
         /\ pc[s] = "store" /\ k \notin todo[s] /\ newCache[s][k] # NoIP
              => cache[s][k] = newCache[s][k]
         /\ pc[s] = "delete" /\ k \notin todo[s] => cache[s][k] = newCache[s][k]
    /\ pc[s] = "delete" => \A k \in todo[s] : newCache[s][k] = NoIP
    /\ pc[s] = "store" => \A k \in todo[s] : newCache[s][k] # NoIP

\* Listings hold mappings that the table has had.
SeenInv ==
  /\ Mappings(db) \subseteq seen
  /\ \A s \in Services : pc[s] # "idle" => \A k \in Keys :
       newCache[s][k] # NoIP => [key |-> k, ip |-> newCache[s][k]] \in seen

\* A request that is about to write the cache stores a mapping the table has had.
RequestInv ==
  \A r \in Requests :
    /\ rpc[r] \in {"insert", "find", "save"} => mapping[r] # NoRow
    /\ rpc[r] = "store" => mapping[r] \in seen
    /\ rpc[r] = "forget" => old[r] # NoRow /\ (mapping[r] # NoRow => mapping[r] \in seen)
    /\ rpc[r] = "delete" => old[r] # NoRow /\ mapping[r] = NoRow

ResolveInv ==
  /\ calm => {Specific, Global} \subseteq settled[Dialer]
  /\ calm /\ dpc = "global" => Listed(db)[Specific] = NoIP

IInv ==
  /\ TypeOK /\ RefreshInv /\ SeenInv /\ RequestInv /\ ResolveInv
  /\ SettledMirrors /\ OnlyFromTable /\ CalmResolution
=============================================================================
