--------------------------- MODULE HostMappingProofs ---------------------------
(***************************************************************************)
(* Safety of the host mapping service, for any hosts, addresses, requests, *)
(* one instance or two, and both databases.  A step changes the table, or  *)
(* the cache of the API's instance, or belongs to a refresh, or to a       *)
(* resolution, or concerns a request only; each kind has a lemma.          *)
(***************************************************************************)
EXTENDS HostMapping, FiniteSetTheorems, TLAPS

\* What does not mention the requests.
Core ==
  RefreshInv /\ SeenInv /\ ResolveInv /\ SettledMirrors /\ OnlyFromTable /\ CalmResolution

CoreVars == <<db, cache, refreshes, resolution, history>>

USE HostAssumption DEF Services

\* The addresses of a table are addresses, and its mappings are those of its rows.
LEMMA ListedType ==
  ASSUME NEW d \in [Keys -> Rows \cup {NoRow}]
  PROVE  /\ Listed(d) \in [Keys -> IPs \cup {NoIP}]
         /\ Mappings(d) \subseteq Values
         /\ \A k \in Keys : Listed(d)[k] # NoIP => [key |-> k, ip |-> Listed(d)[k]] \in Mappings(d)
         /\ \A k \in Keys : d[k] # NoRow => [key |-> k, ip |-> d[k].ip] \in Mappings(d)
<1>1. \A k \in Keys : d[k] # NoRow => d[k].ip \in IPs
  BY DEF Rows
<1>2. Listed(d) \in [Keys -> IPs \cup {NoIP}]
  BY <1>1 DEF Listed
<1>3. Mappings(d) \subseteq Values
  BY <1>1 DEF Mappings, Values
<1>4. \A k \in Keys : d[k] # NoRow => [key |-> k, ip |-> d[k].ip] \in Mappings(d)
  BY DEF Mappings
<1>5. \A k \in Keys : Listed(d)[k] # NoIP => [key |-> k, ip |-> Listed(d)[k]] \in Mappings(d)
  BY <1>4 DEF Listed
<1> QED BY <1>2, <1>3, <1>4, <1>5

\* A statement that changes the table.
LEMMA TableChange ==
  ASSUME TypeOK, Core, NEW d \in [Keys -> Rows \cup {NoRow}], SetTable(d),
         UNCHANGED <<cache, refreshes, resolution>>
  PROVE  Core' /\ seen' \subseteq Values /\ calm' \in BOOLEAN
           /\ quiet' \in [Services -> SUBSET Keys] /\ settled' \in [Services -> SUBSET Keys]
<1> USE DEF TypeOK, SetTable, Touch, refreshes, resolution
<1>1. /\ Mappings(d) \subseteq Values
      /\ db' = d /\ seen' = seen \cup Mappings(d)
  BY ListedType
<1>2. \A s \in Services :
        /\ quiet'[s] = {k \in quiet[s] : Listed(d)[k] = Listed(db)[k]}
        /\ settled'[s] = {k \in settled[s] : Listed(d)[k] = Listed(db)[k]}
  OBVIOUS
<1>3. calm' => calm /\ Listed(d)[Specific] = Listed(db)[Specific]
                    /\ Listed(d)[Global] = Listed(db)[Global]
  OBVIOUS
<1>4. RefreshInv'
  BY <1>1, <1>2 DEF Core, RefreshInv
<1>5. SeenInv'
  BY <1>1 DEF Core, SeenInv
<1>6. ResolveInv'
  BY <1>1, <1>2, <1>3 DEF Core, ResolveInv
<1>7. SettledMirrors'
  BY <1>1, <1>2 DEF Core, SettledMirrors
<1>8. OnlyFromTable'
  BY <1>1 DEF Core, OnlyFromTable
<1>9. CalmResolution'
  BY <1>1, <1>3 DEF Core, CalmResolution, Answer
<1> QED BY <1>1, <1>4, <1>5, <1>6, <1>7, <1>8, <1>9 DEF Core

\* A request's write to the cache of its instance.
LEMMA CacheChange ==
  ASSUME TypeOK, Core, NEW k \in Keys, NEW ip \in IPs \cup {NoIP}, SetCache(k, ip),
         ip # NoIP => [key |-> k, ip |-> ip] \in seen,
         UNCHANGED <<db, refreshes, resolution>>
  PROVE  Core' /\ seen' \subseteq Values /\ calm' \in BOOLEAN
           /\ quiet' \in [Services -> SUBSET Keys] /\ settled' \in [Services -> SUBSET Keys]
           /\ cache' \in [Services -> [Keys -> IPs \cup {NoIP}]]
<1> USE DEF TypeOK, SetCache, Touch, refreshes, resolution
<1>1. cache' \in [Services -> [Keys -> IPs \cup {NoIP}]]
  OBVIOUS
<1>2. \A s \in Services :
        /\ quiet'[s] \subseteq quiet[s] /\ settled'[s] \subseteq settled[s]
        /\ settled[s] \subseteq quiet[s] => settled'[s] \subseteq quiet'[s]
        /\ \A j \in Keys : cache'[s][j] # cache[s][j] => j \notin quiet'[s] /\ j \notin settled'[s]
  OBVIOUS
<1>3. calm' => calm /\ ({Specific, Global} \subseteq settled[Dialer]
                          => {Specific, Global} \subseteq settled'[Dialer])
  OBVIOUS
<1>4. RefreshInv'
  BY <1>2 DEF Core, RefreshInv
<1>5. SeenInv'
  BY DEF Core, SeenInv
<1>6. ResolveInv'
  BY <1>3 DEF Core, ResolveInv
<1>7. SettledMirrors'
  BY <1>2 DEF Core, SettledMirrors
<1>8. OnlyFromTable'
  BY DEF Core, OnlyFromTable
<1>9. CalmResolution'
  BY <1>3 DEF Core, CalmResolution, Answer
<1> QED BY <1>1, <1>4, <1>5, <1>6, <1>7, <1>8, <1>9 DEF Core

-----------------------------------------------------------------------------
(* Requests.                                                                *)

\* The types of what only requests have, and of what they share with the rest.
RequestTypes ==
  /\ nextId \in Nat
  /\ rpc \in [Requests -> {"idle", "insert", "find", "save", "delete", "forget", "store"}]
  /\ rid \in [Requests -> Nat]
  /\ mapping \in [Requests -> Values \cup {NoRow}] /\ old \in [Requests -> Values \cup {NoRow}]
  /\ ops \in 0..MaxOps /\ faults \in 0..MaxFaults

\* A step that leaves the table, the caches and everything about them alone.
LEMMA CoreKept ==
  ASSUME TypeOK, Core, UNCHANGED CoreVars, RequestTypes'
  PROVE  TypeOK' /\ Core'
  BY DEF TypeOK, Core, CoreVars, RequestTypes, refreshes, resolution, history, RefreshInv,
         SeenInv, ResolveInv, SettledMirrors, OnlyFromTable, CalmResolution, Answer

\* A request that has started holds what it was given, and nothing else changes.
LEMMA StartStep ==
  ASSUME IInv, NEW r \in Requests, StartRequest(r)
  PROVE  IInv'
<1> USE DEF IInv, Start
<1>1. TypeOK /\ Core /\ RequestInv
  BY DEF Core
<1>2. UNCHANGED CoreVars
  BY DEF StartRequest, StartCreate, StartUpdate, StartDelete, CoreVars
<1>3. RequestTypes' /\ RequestInv'
  <2>1. CASE \E m \in Values : StartCreate(r, m)
    <3>1. PICK m \in Values : StartCreate(r, m)
      BY <2>1
    <3>2. RequestTypes'
      BY <3>1 DEF StartCreate, RequestTypes, TypeOK
    <3>3. RequestInv'
      BY <3>1 DEF StartCreate, RequestInv, TypeOK, history
    <3> QED BY <3>2, <3>3
  <2>2. CASE \E k \in Keys : \E m \in Values : StartUpdate(r, k, m)
    <3>1. PICK k \in Keys, m \in Values : StartUpdate(r, k, m)
      BY <2>2
    <3>2. RequestTypes'
      BY <3>1 DEF StartUpdate, RequestTypes, TypeOK, Rows
    <3>3. RequestInv'
      BY <3>1 DEF StartUpdate, RequestInv, TypeOK, history
    <3> QED BY <3>2, <3>3
  <2>3. CASE \E k \in Keys : StartDelete(r, k)
    <3>1. PICK k \in Keys : StartDelete(r, k)
      BY <2>3
    <3>2. db[k].id \in Nat /\ [key |-> k, ip |-> db[k].ip] \in Values
      BY <3>1 DEF StartDelete, TypeOK, Rows, Values
    <3>3. RequestTypes'
      BY <3>1, <3>2 DEF StartDelete, RequestTypes, TypeOK
    <3>4. RequestInv'
      BY <3>1, <3>2 DEF StartDelete, RequestInv, TypeOK, history
    <3> QED BY <3>3, <3>4
  <2> QED BY <2>1, <2>2, <2>3 DEF StartRequest
<1> QED BY <1>1, <1>2, <1>3, CoreKept DEF Core

\* Ending a request, or going on with one, keeps the types.
LEMMA GotoTypes ==
  ASSUME TypeOK, NEW r \in Requests,
         NEW step \in {"idle", "insert", "find", "save", "delete", "forget", "store"},
         Goto(r, step)
  PROVE  /\ rpc' \in [Requests -> {"idle", "insert", "find", "save", "delete", "forget", "store"}]
         /\ rid' \in [Requests -> Nat]
         /\ mapping' \in [Requests -> Values \cup {NoRow}]
         /\ old' \in [Requests -> Values \cup {NoRow}]
         /\ rpc'[r] = step
         /\ step # "idle" => mapping' = mapping /\ old' = old
         /\ \A q \in Requests \ {r} :
              rpc'[q] = rpc[q] /\ mapping'[q] = mapping[q] /\ old'[q] = old[q]
  BY DEF TypeOK, Goto

LEMMA InsertStep ==
  ASSUME IInv, NEW r \in Requests, Insert(r)
  PROVE  IInv'
<1> USE DEF IInv
<1>1. TypeOK /\ Core /\ RequestInv /\ mapping[r] \in Values /\ rpc[r] = "insert"
  BY DEF Core, Insert, RequestInv, TypeOK
<1> DEFINE m == mapping[r]
           d == [db EXCEPT ![m.key] = [id |-> nextId, ip |-> m.ip]]
<1>2. CASE db[m.key] = NoRow
  <2>1. /\ SetTable(d) /\ nextId' = nextId + 1 /\ Goto(r, "store")
        /\ UNCHANGED <<cache, refreshes, resolution, ops, faults>>
    BY <1>2 DEF Insert
  <2>2. d \in [Keys -> Rows \cup {NoRow}] /\ d[m.key] # NoRow /\ d[m.key].ip = m.ip
    BY <1>1 DEF TypeOK, Rows, Values
  <2> HIDE DEF d
  <2>3. Core' /\ seen' \subseteq Values /\ calm' \in BOOLEAN
          /\ quiet' \in [Services -> SUBSET Keys] /\ settled' \in [Services -> SUBSET Keys]
    BY <1>1, <2>1, <2>2, TableChange
  <2>4. TypeOK'
    BY <1>1, <2>1, <2>2, <2>3, GotoTypes DEF TypeOK, SetTable, refreshes, resolution
  <2>5. m \in seen'
    <3>1. [key |-> m.key, ip |-> d[m.key].ip] \in Mappings(d)
      BY <1>1, <2>2, ListedType DEF Values
    <3> QED BY <1>1, <2>1, <2>2, <3>1 DEF SetTable, Values
  <2>6. RequestInv'
    BY <1>1, <2>1, <2>5, GotoTypes DEF RequestInv, SetTable
  <2> QED BY <2>3, <2>4, <2>6 DEF Core
<1>3. CASE db[m.key] # NoRow
  <2>1. Goto(r, "idle") /\ UNCHANGED <<nextId, ops, faults>> /\ UNCHANGED CoreVars
    BY <1>3 DEF Insert, OnError, CoreVars
  <2>2. RequestTypes'
    BY <1>1, <2>1, GotoTypes DEF RequestTypes, TypeOK
  <2>3. RequestInv'
    BY <1>1, <2>1, GotoTypes DEF RequestInv, CoreVars, history
  <2> QED BY <1>1, <2>1, <2>2, <2>3, CoreKept DEF Core
<1> QED BY <1>2, <1>3

LEMMA FindOldStep ==
  ASSUME IInv, NEW r \in Requests, FindOld(r)
  PROVE  IInv'
<1>1. TypeOK /\ Core /\ RequestInv /\ rpc[r] = "find"
  BY DEF IInv, Core, FindOld
<1>2. /\ rpc' = [rpc EXCEPT ![r] = "save"]
      /\ UNCHANGED <<nextId, rid, mapping, ops>> /\ UNCHANGED CoreVars
  BY DEF FindOld, CoreVars
<1>3. faults' \in 0..MaxFaults
  BY <1>1 DEF FindOld, Fault, TypeOK
<1>4. \E v \in Values \cup {NoRow} : old' = [old EXCEPT ![r] = v]
  BY <1>1 DEF FindOld, TypeOK, Rows, Values
<1>5. RequestTypes'
  BY <1>1, <1>2, <1>3, <1>4 DEF RequestTypes, TypeOK
<1>6. RequestInv'
  BY <1>1, <1>2, <1>4 DEF RequestInv, TypeOK, CoreVars, history
<1> QED BY <1>1, <1>2, <1>5, <1>6, CoreKept DEF Core, IInv

\* Save changes the row by id, or inserts it, and takes its keys from the quiet ones.
LEMMA SaveStep ==
  ASSUME IInv, NEW r \in Requests, Save(r)
  PROVE  IInv'
<1>1. TypeOK /\ Core /\ RequestInv /\ mapping[r] \in Values /\ rpc[r] = "save"
  BY DEF IInv, Core, Save, RequestInv, TypeOK
<1> DEFINE m == mapping[r]
           d == Saved(rid[r], m)
           step == IF old[r] # NoRow /\ old[r].key # m.key THEN "forget" ELSE "store"
<1>2. CASE ~SaveFails(rid[r], m.key)
  <2>1. /\ SetTable(d) /\ Goto(r, step)
        /\ UNCHANGED <<nextId, cache, refreshes, resolution, ops, faults>>
    BY <1>2 DEF Save
  <2>2. d \in [Keys -> Rows \cup {NoRow}] /\ d[m.key] # NoRow /\ d[m.key].ip = m.ip
    BY <1>1 DEF TypeOK, Rows, Values, Saved
  <2>3. step \in {"forget", "store"} /\ (step = "forget" => old[r] # NoRow)
    OBVIOUS
  <2> HIDE DEF d, step
  <2>4. Core' /\ seen' \subseteq Values /\ calm' \in BOOLEAN
          /\ quiet' \in [Services -> SUBSET Keys] /\ settled' \in [Services -> SUBSET Keys]
    BY <1>1, <2>1, <2>2, TableChange
  <2>5. TypeOK'
    BY <1>1, <2>1, <2>2, <2>3, <2>4, GotoTypes DEF TypeOK, SetTable, refreshes, resolution
  <2>6. m \in seen'
    <3>1. [key |-> m.key, ip |-> d[m.key].ip] \in Mappings(d)
      BY <1>1, <2>2, ListedType DEF Values
    <3> QED BY <1>1, <2>1, <2>2, <3>1 DEF SetTable, Values
  <2>7. RequestInv'
    BY <1>1, <2>1, <2>3, <2>6, GotoTypes DEF RequestInv, SetTable
  <2> QED BY <2>4, <2>5, <2>7 DEF Core, IInv
<1>3. CASE SaveFails(rid[r], m.key)
  <2>1. Goto(r, "idle") /\ UNCHANGED <<nextId, ops, faults>> /\ UNCHANGED CoreVars
    BY <1>3 DEF Save, OnError, CoreVars
  <2>2. RequestTypes'
    BY <1>1, <2>1, GotoTypes DEF RequestTypes, TypeOK
  <2>3. RequestInv'
    BY <1>1, <2>1, GotoTypes DEF RequestInv, CoreVars, history
  <2> QED BY <1>1, <2>1, <2>2, <2>3, CoreKept DEF Core, IInv
<1> QED BY <1>2, <1>3

LEMMA DeleteStep ==
  ASSUME IInv, NEW r \in Requests, Delete(r)
  PROVE  IInv'
<1>1. TypeOK /\ Core /\ RequestInv /\ rpc[r] = "delete"
  BY DEF IInv, Core, Delete
<1> DEFINE d == [k \in Keys |-> IF db[k] # NoRow /\ db[k].id = rid[r] THEN NoRow ELSE db[k]]
<1>2. /\ SetTable(d) /\ Goto(r, "forget")
      /\ UNCHANGED <<nextId, cache, refreshes, resolution, ops, faults>>
  BY DEF Delete
<1>3. d \in [Keys -> Rows \cup {NoRow}]
  BY <1>1 DEF TypeOK
<1> HIDE DEF d
<1>4. Core' /\ seen' \subseteq Values /\ calm' \in BOOLEAN
        /\ quiet' \in [Services -> SUBSET Keys] /\ settled' \in [Services -> SUBSET Keys]
  BY <1>1, <1>2, <1>3, TableChange
<1>5. TypeOK'
  BY <1>1, <1>2, <1>3, <1>4, GotoTypes DEF TypeOK, SetTable, refreshes, resolution
<1>6. RequestInv'
  BY <1>1, <1>2, GotoTypes DEF RequestInv, SetTable
<1> QED BY <1>4, <1>5, <1>6 DEF Core, IInv

LEMMA ForgetStep ==
  ASSUME IInv, NEW r \in Requests, Forget(r)
  PROVE  IInv'
<1>1. TypeOK /\ Core /\ RequestInv /\ rpc[r] = "forget" /\ old[r] \in Values
  BY DEF IInv, Core, Forget, RequestInv, TypeOK
<1> DEFINE step == IF mapping[r] = NoRow THEN "idle" ELSE "store"
<1>2. /\ SetCache(old[r].key, NoIP) /\ Goto(r, step)
      /\ UNCHANGED <<db, nextId, refreshes, resolution, ops, faults>>
  BY DEF Forget
<1>3. step \in {"idle", "store"} /\ (step = "store" => mapping[r] \in seen)
  BY <1>1 DEF RequestInv
<1> HIDE DEF step
<1>4. old[r].key \in Keys
  BY <1>1 DEF Values
<1>5. Core' /\ seen' \subseteq Values /\ calm' \in BOOLEAN
        /\ quiet' \in [Services -> SUBSET Keys] /\ settled' \in [Services -> SUBSET Keys]
        /\ cache' \in [Services -> [Keys -> IPs \cup {NoIP}]]
  BY <1>1, <1>2, <1>4, CacheChange
<1>6. TypeOK'
  BY <1>1, <1>2, <1>3, <1>5, GotoTypes DEF TypeOK, refreshes, resolution
<1>7. RequestInv'
  BY <1>1, <1>2, <1>3, GotoTypes DEF RequestInv, SetCache
<1> QED BY <1>5, <1>6, <1>7 DEF Core, IInv

LEMMA StoreStep ==
  ASSUME IInv, NEW r \in Requests, Store(r)
  PROVE  IInv'
<1>1. TypeOK /\ Core /\ RequestInv /\ rpc[r] = "store" /\ mapping[r] \in Values
        /\ mapping[r] \in seen
  BY DEF IInv, Core, Store, RequestInv, TypeOK
<1>2. /\ SetCache(mapping[r].key, mapping[r].ip) /\ Goto(r, "idle")
      /\ UNCHANGED <<db, nextId, refreshes, resolution, ops, faults>>
  BY DEF Store
<1>3. /\ mapping[r].key \in Keys /\ mapping[r].ip \in IPs
      /\ [key |-> mapping[r].key, ip |-> mapping[r].ip] \in seen
  BY <1>1 DEF Values
<1>4. Core' /\ seen' \subseteq Values /\ calm' \in BOOLEAN
        /\ quiet' \in [Services -> SUBSET Keys] /\ settled' \in [Services -> SUBSET Keys]
        /\ cache' \in [Services -> [Keys -> IPs \cup {NoIP}]]
  BY <1>1, <1>2, <1>3, CacheChange
<1>5. TypeOK'
  BY <1>1, <1>2, <1>4, GotoTypes DEF TypeOK, refreshes, resolution
<1>6. RequestInv'
  BY <1>1, <1>2, GotoTypes DEF RequestInv, SetCache
<1> QED BY <1>4, <1>5, <1>6 DEF Core, IInv

LEMMA RequestFailsStep ==
  ASSUME IInv, NEW r \in Requests, RequestFails(r)
  PROVE  IInv'
<1>1. TypeOK /\ Core /\ RequestInv
  BY DEF IInv, Core
<1>2. Goto(r, "idle") /\ Fault /\ UNCHANGED <<nextId, ops>> /\ UNCHANGED CoreVars
  BY DEF RequestFails, CoreVars
<1>3. RequestTypes'
  BY <1>1, <1>2, GotoTypes DEF RequestTypes, TypeOK, Fault
<1>4. RequestInv'
  BY <1>1, <1>2, GotoTypes DEF RequestInv, CoreVars, history
<1> QED BY <1>1, <1>2, <1>3, <1>4, CoreKept DEF Core, IInv

-----------------------------------------------------------------------------
(* Refreshes, resolutions, restarts.                                        *)

\* A refresh changes neither the table nor a request, nor what is known of the host.
RefreshKeeps == UNCHANGED <<db, nextId, requests, resolution, seen, calm, ops>>

\* A refresh's step keeps the types if it keeps those of the variables it writes.
LEMMA RefreshTypes ==
  ASSUME IInv, RefreshKeeps,
         cache' \in [Services -> [Keys -> IPs \cup {NoIP}]],
         pc' \in [Services -> {"idle", "range", "store", "delete"}],
         newCache' \in [Services -> [Keys -> IPs \cup {NoIP}]],
         oldKeys' \in [Services -> SUBSET Keys], todo' \in [Services -> SUBSET Keys],
         quiet' \in [Services -> SUBSET Keys], settled' \in [Services -> SUBSET Keys],
         faults' \in 0..MaxFaults,
         settled[Dialer] \subseteq settled'[Dialer]
  PROVE  TypeOK' /\ RequestInv' /\ ResolveInv' /\ CalmResolution'
<1> USE DEF IInv, RefreshKeeps, requests, resolution
<1>1. TypeOK'
  BY DEF TypeOK
<1>2. RequestInv'
  BY DEF RequestInv
<1>3. ResolveInv'
  BY DEF ResolveInv
<1>4. CalmResolution'
  BY DEF CalmResolution, Answer
<1> QED BY <1>1, <1>2, <1>3, <1>4

LEMMA ListTableStep ==
  ASSUME IInv, NEW s \in Services, ListTable(s)
  PROVE  IInv'
<1> USE DEF ListTable
<1>1. Listed(db) \in [Keys -> IPs \cup {NoIP}]
  BY ListedType DEF IInv, TypeOK
<1>2. TypeOK' /\ RequestInv' /\ ResolveInv' /\ CalmResolution'
  BY <1>1, RefreshTypes DEF IInv, TypeOK, RefreshKeeps
<1>3. RefreshInv'
  BY <1>1 DEF IInv, TypeOK, RefreshInv
<1>4. SeenInv'
  BY <1>1, ListedType DEF IInv, TypeOK, SeenInv
<1>5. SettledMirrors' /\ OnlyFromTable'
  BY DEF IInv, SettledMirrors, OnlyFromTable
<1> QED BY <1>2, <1>3, <1>4, <1>5 DEF IInv

LEMMA RangeKeyStep ==
  ASSUME IInv, NEW s \in Services, NEW k \in Keys, RangeKey(s, k)
  PROVE  IInv'
<1> USE DEF RangeKey, history
<1>1. TypeOK' /\ RequestInv' /\ ResolveInv' /\ CalmResolution'
  BY RefreshTypes DEF IInv, TypeOK, RefreshKeeps
<1>2. RefreshInv'
  BY DEF IInv, TypeOK, RefreshInv
<1>3. SeenInv' /\ SettledMirrors' /\ OnlyFromTable'
  BY DEF IInv, SeenInv, SettledMirrors, OnlyFromTable
<1> QED BY <1>1, <1>2, <1>3 DEF IInv

LEMMA StoreKeyStep ==
  ASSUME IInv, NEW s \in Services, NEW k \in Keys, StoreKey(s, k)
  PROVE  IInv'
<1> USE DEF StoreKey, history
<1>1. TypeOK' /\ RequestInv' /\ ResolveInv' /\ CalmResolution'
  BY RefreshTypes DEF IInv, TypeOK, RefreshKeeps
<1>2. RefreshInv'
  BY DEF IInv, TypeOK, RefreshInv
<1>3. SeenInv'
  BY DEF IInv, SeenInv
<1>4. SettledMirrors'
  BY DEF IInv, TypeOK, RefreshInv, SettledMirrors
<1>5. OnlyFromTable'
  BY DEF IInv, TypeOK, SeenInv, OnlyFromTable
<1> QED BY <1>1, <1>2, <1>3, <1>4, <1>5 DEF IInv

LEMMA DeleteKeyStep ==
  ASSUME IInv, NEW s \in Services, NEW k \in Keys, DeleteKey(s, k)
  PROVE  IInv'
<1> USE DEF DeleteKey, history
<1>1. TypeOK' /\ RequestInv' /\ ResolveInv' /\ CalmResolution'
  BY RefreshTypes DEF IInv, TypeOK, RefreshKeeps
<1>2. RefreshInv'
  BY DEF IInv, TypeOK, RefreshInv
<1>3. SeenInv'
  BY DEF IInv, SeenInv
<1>4. SettledMirrors'
  BY DEF IInv, TypeOK, RefreshInv, SettledMirrors
<1>5. OnlyFromTable'
  BY DEF IInv, TypeOK, SeenInv, OnlyFromTable
<1> QED BY <1>1, <1>2, <1>3, <1>4, <1>5 DEF IInv

\* A loop that has visited every key has done its part for the quiet ones.
LEMMA NextLoopStep ==
  ASSUME IInv, NEW s \in Services, NextLoop(s)
  PROVE  IInv'
<1> USE DEF NextLoop, history, ToStore, ToDelete
<1>1. TypeOK' /\ RequestInv' /\ ResolveInv' /\ CalmResolution'
  BY RefreshTypes DEF IInv, TypeOK, RefreshKeeps
<1>2. RefreshInv'
  <2>1. CASE pc[s] = "range"
    BY <2>1 DEF IInv, TypeOK, RefreshInv
  <2>2. CASE pc[s] = "store"
    BY <2>2 DEF IInv, TypeOK, RefreshInv
  <2> QED BY <2>1, <2>2
<1>3. SeenInv' /\ SettledMirrors' /\ OnlyFromTable'
  BY DEF IInv, TypeOK, SeenInv, SettledMirrors, OnlyFromTable
<1> QED BY <1>1, <1>2, <1>3 DEF IInv

\* At the end of the third loop the quiet keys are settled.
LEMMA RefreshEndsStep ==
  ASSUME IInv, NEW s \in Services, RefreshEnds(s)
  PROVE  IInv'
<1> USE DEF RefreshEnds
<1>1. settled[s] \subseteq quiet[s] /\ \A k \in quiet[s] : cache[s][k] = Listed(db)[k]
  BY DEF IInv, TypeOK, RefreshInv
<1>2. TypeOK' /\ RequestInv' /\ ResolveInv' /\ CalmResolution'
  BY <1>1, RefreshTypes DEF IInv, TypeOK, RefreshKeeps, NoMap
<1>3. RefreshInv'
  BY DEF IInv, TypeOK, RefreshInv
<1>4. SeenInv'
  BY DEF IInv, TypeOK, SeenInv
<1>5. SettledMirrors' /\ OnlyFromTable'
  BY <1>1 DEF IInv, TypeOK, SettledMirrors, OnlyFromTable
<1> QED BY <1>2, <1>3, <1>4, <1>5 DEF IInv

\* A refresh whose listing failed has done nothing.
LEMMA ListFailsStep ==
  ASSUME IInv, NEW s \in Services, ListFails(s)
  PROVE  IInv'
<1>1. UNCHANGED CoreVars /\ RequestTypes' /\ UNCHANGED requests
  BY DEF ListFails, CoreVars, IInv, TypeOK, RequestTypes, requests, Fault
<1>2. TypeOK' /\ Core'
  BY <1>1, CoreKept DEF IInv, Core
<1>3. RequestInv'
  BY <1>1 DEF IInv, RequestInv, requests, CoreVars, history
<1> QED BY <1>2, <1>3 DEF IInv, Core

LEMMA LookupFirstStep ==
  ASSUME IInv, LookupFirst
  PROVE  IInv'
<1> USE DEF LookupFirst, FirstKey, refreshes, requests
<1>1. Dialer \in Services
  OBVIOUS
<1>2. calm' => /\ {Specific, Global} \subseteq settled[Dialer]
               /\ cache[Dialer][Specific] = Listed(db)[Specific]
  BY DEF IInv, SettledMirrors
<1>3. TypeOK'
  BY <1>1 DEF IInv, TypeOK
<1>4. RefreshInv' /\ SeenInv' /\ RequestInv' /\ SettledMirrors' /\ OnlyFromTable'
  BY DEF IInv, RefreshInv, SeenInv, RequestInv, SettledMirrors, OnlyFromTable
<1>5. ResolveInv'
  BY <1>2 DEF ResolveInv
<1>6. CalmResolution'
  BY <1>2 DEF CalmResolution, Answer
<1> QED BY <1>3, <1>4, <1>5, <1>6 DEF IInv

LEMMA LookupGlobalStep ==
  ASSUME IInv, LookupGlobal
  PROVE  IInv'
<1> USE DEF LookupGlobal, refreshes, requests, history
<1>1. calm => /\ cache[Dialer][Global] = Listed(db)[Global]
              /\ Listed(db)[Specific] = NoIP
  BY DEF IInv, ResolveInv, SettledMirrors
<1>2. TypeOK'
  BY DEF IInv, TypeOK
<1>3. RefreshInv' /\ SeenInv' /\ RequestInv' /\ SettledMirrors' /\ OnlyFromTable'
  BY DEF IInv, RefreshInv, SeenInv, RequestInv, SettledMirrors, OnlyFromTable
<1>4. ResolveInv' /\ CalmResolution'
  BY <1>1 DEF IInv, ResolveInv, CalmResolution, Answer
<1> QED BY <1>2, <1>3, <1>4 DEF IInv

LEMMA RestartStep ==
  ASSUME IInv, Restart
  PROVE  IInv'
<1> USE DEF Restart
<1>1. /\ Listed(db) \in [Keys -> IPs \cup {NoIP}]
      /\ \A k \in Keys : Listed(db)[k] # NoIP => [key |-> k, ip |-> Listed(db)[k]] \in seen
  BY ListedType DEF IInv, TypeOK, SeenInv
<1>2. NoMap \in [Keys -> IPs \cup {NoIP}] /\ \A k \in Keys : NoMap[k] = NoIP
  BY DEF NoMap
<1> HIDE DEF NoMap
<1>0. PICK listing \in SUBSET Services :
        /\ cache' = [s \in Services |-> IF s \in listing THEN Listed(db) ELSE NoMap]
        /\ settled' = [s \in Services |-> IF s \in listing THEN Keys ELSE {}]
  OBVIOUS
<1>3. cache' \in [Services -> [Keys -> IPs \cup {NoIP}]] /\ settled' \in [Services -> SUBSET Keys]
  BY <1>0, <1>1, <1>2
<1>4. faults' \in 0..MaxFaults
  BY DEF Fault, IInv, TypeOK
<1>5. TypeOK'
  BY <1>2, <1>3, <1>4 DEF IInv, TypeOK
<1>6. RefreshInv' /\ RequestInv' /\ ResolveInv' /\ CalmResolution'
  BY DEF RefreshInv, RequestInv, ResolveInv, CalmResolution
<1>7. SeenInv'
  BY DEF IInv, SeenInv
<1>8. SettledMirrors'
  BY <1>0 DEF SettledMirrors
<1>9. OnlyFromTable'
  BY <1>0, <1>1, <1>2 DEF OnlyFromTable
<1> QED BY <1>5, <1>6, <1>7, <1>8, <1>9 DEF IInv

-----------------------------------------------------------------------------
(* The theorems.                                                            *)

LEMMA InitInv ==
  ASSUME Init
  PROVE  IInv
<1> USE DEF Init
<1>1. Cardinality(Keys) \in Nat
  BY FS_CardinalityType
<1>2. db \in [Keys -> Rows \cup {NoRow}]
  <2>1. 1..Cardinality(Keys) \subseteq Nat
    BY <1>1
  <2>2. [id : 1..Cardinality(Keys), ip : IPs] \subseteq Rows
    BY <2>1 DEF Rows
  <2> DEFINE R == [id : 1..Cardinality(Keys), ip : IPs]
  <2>3. db \in [Keys -> {NoRow} \cup R]
    OBVIOUS
  <2>4. R \subseteq Rows
    BY <2>2
  <2> HIDE DEF R
  <2> QED BY <2>3, <2>4
<1>3. /\ Listed(db) \in [Keys -> IPs \cup {NoIP}] /\ seen \subseteq Values
      /\ \A k \in Keys : Listed(db)[k] # NoIP => [key |-> k, ip |-> Listed(db)[k]] \in seen
  BY <1>2, ListedType
<1>4. TypeOK
  <2>1. nextId \in Nat /\ ops \in 0..MaxOps /\ faults \in 0..MaxFaults
    BY <1>1
  <2>2. /\ cache = [s \in Services |-> Listed(db)]
        /\ newCache = [s \in Services |-> NoMap]
        /\ settled = [s \in Services |-> Keys]
        /\ \A x \in {oldKeys, todo, quiet} : x = [s \in Services |-> {}]
        /\ pc = [s \in Services |-> "idle"] /\ rpc = [r \in Requests |-> "idle"]
        /\ mapping = [r \in Requests |-> NoRow] /\ old = [r \in Requests |-> NoRow]
        /\ rid = [r \in Requests |-> 0]
        /\ dpc = "idle" /\ answer = NoIP /\ calm = FALSE
    OBVIOUS
  <2>3. NoMap \in [Keys -> IPs \cup {NoIP}]
    BY DEF NoMap
  <2> HIDE DEF Init, NoMap
  <2> QED BY <1>2, <1>3, <2>1, <2>2, <2>3 DEF TypeOK
<1>5. RefreshInv /\ SeenInv /\ RequestInv /\ ResolveInv /\ CalmResolution
  BY DEF RefreshInv, SeenInv, RequestInv, ResolveInv, CalmResolution
<1>6. SettledMirrors /\ OnlyFromTable
  BY <1>3 DEF SettledMirrors, OnlyFromTable
<1> QED BY <1>4, <1>5, <1>6 DEF IInv

\* Every step keeps the invariant.
LEMMA StepInv ==
  ASSUME IInv, [Next]_vars
  PROVE  IInv'
<1>1. CASE UNCHANGED vars
  <2>1. UNCHANGED CoreVars /\ RequestTypes' /\ UNCHANGED requests
    BY <1>1 DEF vars, CoreVars, IInv, TypeOK, RequestTypes, requests
  <2>2. TypeOK' /\ Core'
    BY <2>1, CoreKept DEF IInv, Core
  <2>3. RequestInv'
    BY <2>1 DEF IInv, RequestInv, requests, CoreVars, history
  <2> QED BY <2>2, <2>3 DEF IInv, Core
<1>2. ASSUME NEW s \in Services, RefreshStep(s) \/ ListFails(s)
      PROVE  IInv'
  BY <1>2, ListTableStep, NextLoopStep, RefreshEndsStep, RangeKeyStep, StoreKeyStep,
     DeleteKeyStep, ListFailsStep DEF RefreshStep
<1>3. ASSUME NEW r \in Requests, StartRequest(r) \/ RequestStep(r) \/ RequestFails(r)
      PROVE  IInv'
  BY <1>3, StartStep, InsertStep, FindOldStep, SaveStep, DeleteStep, ForgetStep, StoreStep,
     RequestFailsStep DEF RequestStep
<1>4. CASE LookupFirst \/ LookupGlobal \/ Restart
  BY <1>4, LookupFirstStep, LookupGlobalStep, RestartStep
<1> QED BY <1>1, <1>2, <1>3, <1>4 DEF Next

\* The inductive invariant holds in every reachable state.
THEOREM HostSafety == Spec => []IInv
<1>1. Init => IInv
  BY InitInv
<1>2. IInv /\ [Next]_vars => IInv'
  BY StepInv
<1> QED BY <1>1, <1>2, PTL DEF Spec

\* After its first refresh an instance resolves every key as the table does, until the
\* key is changed, and through all further refreshes.
THEOREM SettledMirrorsAlways == Spec => []SettledMirrors
<1>1. IInv => SettledMirrors
  BY DEF IInv
<1> QED BY <1>1, HostSafety, PTL

\* No cache ever holds an address that the table has not had for the key.
THEOREM OnlyFromTableAlways == Spec => []OnlyFromTable
<1>1. IInv => OnlyFromTable
  BY DEF IInv
<1> QED BY <1>1, HostSafety, PTL

\* The two lookups of a resolution give one table's answer while its keys are settled.
THEOREM CalmResolutionAlways == Spec => []CalmResolution
<1>1. IInv => CalmResolution
  BY DEF IInv
<1> QED BY <1>1, HostSafety, PTL
=============================================================================
