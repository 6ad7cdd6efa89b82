---------------------------- MODULE AccountsProofs ----------------------------
(***************************************************************************)
(* The safety of the authentication middleware's status cache, for any     *)
(* number of requests, administrators, changes and failures and any time   *)
(* to live: the inductive invariant IInv and the two properties it gives.  *)
(*                                                                         *)
(* Every action is taken through the three parts of IInv in turn.  The     *)
(* actions of a request change its own slot and the cache; those of an     *)
(* administrator change the row, and Observe brings the histories along.   *)
(***************************************************************************)
EXTENDS Accounts, TLAPS

USE AccountsAssumption

LEMMA InitInv == Init => IInv
<1>1. Init => TypeOK
  BY DEF Init, TypeOK, Rows, Entries, Kinds, Wants
<1>2. Init => OffInv /\ OnInv
  BY DEF Init, OffInv, OnInv
<1> QED BY <1>1, <1>2 DEF IInv

-----------------------------------------------------------------------------
(* What a request does.                                                     *)

LEMMA LookupInv ==
  ASSUME IInv, NEW r \in Requests, Lookup(r)
  PROVE  IInv'
<1>1. entry' = entry /\ row' = row /\ enabled' = enabled /\ active' = active
  BY DEF Lookup, AfterHit
<1>2. /\ Fresh /\ ~entry.active => /\ verdict'[r] = "rejected" /\ pc'[r] = "idle"
      /\ ~(Fresh /\ ~entry.active) => verdict'[r] = "none" /\ pc'[r] \in {"drop", "find"}
      /\ off'[r] = (row # "active") /\ on'[r] = enabled
  BY DEF Lookup, CachedVerdict, IInv, TypeOK
<1>3. \A s \in Requests \ {r} :
        verdict'[s] = verdict[s] /\ pc'[s] = pc[s] /\ off'[s] = off[s] /\ on'[s] = on[s]
  BY DEF Lookup, IInv, TypeOK
<1>4. TypeOK'
  BY <1>1 DEF Lookup, CachedVerdict, IInv, TypeOK, admins
<1>5. OffInv'
  BY <1>1, <1>2, <1>3 DEF IInv, OffInv
<1>6. OnInv'
  <2>1. enabled = "clean" /\ Fresh => entry.active
    BY DEF IInv, OnInv, Fresh
  <2>2. enabled # "no" => row = "active"
    BY DEF IInv, OnInv
  <2> QED BY <1>1, <1>2, <1>3, <2>1, <2>2 DEF IInv, OnInv
<1> QED BY <1>4, <1>5, <1>6 DEF IInv

LEMMA DropInv ==
  ASSUME IInv, NEW r \in Requests, Drop(r)
  PROVE  IInv'
<1>1. TypeOK'
  BY DEF Drop, IInv, TypeOK, admins
<1>2. OffInv'
  BY DEF Drop, IInv, TypeOK, OffInv
<1>3. OnInv'
  BY DEF Drop, IInv, TypeOK, OnInv
<1> QED BY <1>1, <1>2, <1>3 DEF IInv

LEMMA FindInv ==
  ASSUME IInv, NEW r \in Requests, Find(r)
  PROVE  IInv'
<1>1. TypeOK'
  BY DEF Find, IInv, TypeOK, admins
<1>2. OffInv'
  BY DEF Find, IInv, TypeOK, OffInv
<1>3. OnInv'
  BY DEF Find, IInv, TypeOK, OnInv
<1> QED BY <1>1, <1>2, <1>3 DEF IInv

LEMMA FindFailsInv ==
  ASSUME IInv, NEW r \in Requests, FindFails(r)
  PROVE  IInv'
<1>1. TypeOK'
  BY DEF FindFails, Fault, IInv, TypeOK, admins
<1>2. OffInv'
  BY DEF FindFails, Fault, IInv, TypeOK, OffInv
<1>3. OnInv'
  BY DEF FindFails, Fault, IInv, TypeOK, OnInv
<1> QED BY <1>1, <1>2, <1>3 DEF IInv

\* What a request caches is the status that it has read, whose histories it brings along.
LEMMA SetInv ==
  ASSUME IInv, NEW r \in Requests, Set(r)
  PROVE  IInv'
<1>1. TypeOK'
  BY DEF Set, IInv, TypeOK, Entries, admins
<1>2. OffInv'
  BY DEF Set, IInv, TypeOK, OffInv
<1>3. OnInv'
  BY DEF Set, IInv, TypeOK, OnInv
<1> QED BY <1>1, <1>2, <1>3 DEF IInv

-----------------------------------------------------------------------------
(* What an administrator does.                                              *)

\* The histories keep up with the row, whatever it becomes.
LEMMA ObserveInv ==
  ASSUME IInv, NEW x \in Rows, row' = x, Observe(x),
         UNCHANGED <<entry, pc, active, verdict>>
  PROVE  /\ off' \in [Requests -> BOOLEAN]
         /\ enabled' \in {"no", "raced", "clean"}
         /\ on' \in [Requests -> {"no", "raced", "clean"}]
         /\ OffInv' /\ OnInv'
<1>1. /\ off' \in [Requests -> BOOLEAN]
      /\ enabled' \in {"no", "raced", "clean"}
      /\ on' \in [Requests -> {"no", "raced", "clean"}]
  BY DEF Observe, IInv, TypeOK
<1>2. OffInv'
  BY DEF Observe, IInv, TypeOK, OffInv
<1>3. OnInv'
  BY DEF Observe, IInv, TypeOK, OnInv
<1> QED BY <1>1, <1>2, <1>3

LEMMA StartChangeInv ==
  ASSUME IInv, NEW a \in Admins, NEW w \in Change, StartChange(a, w)
  PROVE  IInv'
<1>1. w \in [kind : Kinds, status : Wants]
  BY DEF Change, Kinds, Wants
<1>2. TypeOK'
  BY <1>1 DEF StartChange, IInv, TypeOK, requests
<1>3. OffInv' /\ OnInv'
  BY DEF StartChange, IInv, OffInv, OnInv, requests
<1> QED BY <1>2, <1>3 DEF IInv

\* Save writes the copy back, whatever became of the row.
LEMMA SaveInv ==
  ASSUME IInv, NEW a \in Admins, Save(a)
  PROVE  IInv'
<1>1. Changed(a) \in Rows
  BY DEF Changed, Rows, Wants, IInv, TypeOK
<1>2. /\ off' \in [Requests -> BOOLEAN]
      /\ enabled' \in {"no", "raced", "clean"}
      /\ on' \in [Requests -> {"no", "raced", "clean"}]
      /\ OffInv' /\ OnInv'
  BY <1>1, ObserveInv DEF Save
<1>3. TypeOK'
  BY <1>1, <1>2 DEF Save, IInv, TypeOK
<1> QED BY <1>2, <1>3 DEF IInv

\* The one step that makes an account "clean".
LEMMA InvalidateInv ==
  ASSUME IInv, NEW a \in Admins, Invalidate(a)
  PROVE  IInv'
<1>1. TypeOK'
  BY DEF Invalidate, Invalidated, IInv, TypeOK, requests
<1>2. OffInv'
  BY DEF Invalidate, IInv, OffInv, requests
<1>3. OnInv'
  <2>1. enabled' # "no" => row = "active"
    BY DEF Invalidate
  <2>2. enabled' = "clean" => \A r \in Requests : pc[r] = "set" => active[r]
    BY DEF Invalidate
  <2>3. enabled # "no" => enabled' # "no"
    BY DEF Invalidate, IInv, OnInv
  <2> QED BY <2>1, <2>2, <2>3 DEF Invalidate, Invalidated, IInv, OnInv, requests
<1> QED BY <1>1, <1>2, <1>3 DEF IInv

LEMMA SaveFailsInv ==
  ASSUME IInv, NEW a \in Admins, SaveFails(a)
  PROVE  IInv'
<1>1. TypeOK'
  BY DEF SaveFails, Fault, IInv, TypeOK
<1>2. OffInv' /\ OnInv'
  BY DEF SaveFails, Fault, IInv, OffInv, OnInv
<1> QED BY <1>1, <1>2 DEF IInv

LEMMA DeleteInv ==
  ASSUME IInv, NEW a \in Admins, Delete(a)
  PROVE  IInv'
<1>1. "gone" \in Rows
  BY DEF Rows
<1>2. /\ off' \in [Requests -> BOOLEAN]
      /\ enabled' \in {"no", "raced", "clean"}
      /\ on' \in [Requests -> {"no", "raced", "clean"}]
      /\ OffInv' /\ OnInv'
  BY <1>1, ObserveInv DEF Delete
<1>3. TypeOK'
  BY <1>1, <1>2 DEF Delete, IInv, TypeOK, admins
<1> QED BY <1>2, <1>3 DEF IInv

-----------------------------------------------------------------------------
(* Time, room and restarts.                                                 *)

LEMMA TickInv == ASSUME IInv, Tick PROVE IInv'
<1>1. PICK b \in BOOLEAN, n \in 1..TTL : entry = [active |-> b, left |-> n]
  BY DEF Tick, Fresh, IInv, TypeOK, Entries
<1>2. entry' = [active |-> b, left |-> n - 1] /\ entry'.active = entry.active
  BY <1>1 DEF Tick
<1>3. TypeOK'
  BY <1>1, <1>2 DEF Tick, IInv, TypeOK, Entries, requests, admins
<1>4. OffInv'
  BY DEF Tick, IInv, OffInv, requests
<1>5. OnInv'
  BY <1>2 DEF Tick, Fresh, IInv, OnInv, requests
<1> QED BY <1>3, <1>4, <1>5 DEF IInv

LEMMA EvictInv == ASSUME IInv, Evict PROVE IInv'
<1>1. TypeOK'
  BY DEF Evict, IInv, TypeOK, requests, admins
<1>2. OffInv' /\ OnInv'
  BY DEF Evict, IInv, OffInv, OnInv, requests
<1> QED BY <1>1, <1>2 DEF IInv

LEMMA CrashInv == ASSUME IInv, Crash PROVE IInv'
<1>1. TypeOK'
  BY DEF Crash, Fault, IInv, TypeOK
<1>2. OffInv' /\ OnInv'
  BY DEF Crash, Fault, IInv, OffInv, OnInv
<1> QED BY <1>1, <1>2 DEF IInv

-----------------------------------------------------------------------------
LEMMA NextInv == IInv /\ [Next]_vars => IInv'
<1> SUFFICES ASSUME IInv, [Next]_vars PROVE IInv'
  OBVIOUS
<1>1. CASE \E r \in Requests : Lookup(r) \/ RequestStep(r) \/ FindFails(r)
  BY <1>1, LookupInv, DropInv, FindInv, SetInv, FindFailsInv DEF RequestStep
<1>2. CASE \E a \in Admins :
             \/ AdminStep(a) \/ SaveFails(a) \/ Delete(a)
             \/ \E w \in Change : StartChange(a, w)
  BY <1>2, SaveInv, InvalidateInv, SaveFailsInv, DeleteInv, StartChangeInv
  DEF AdminStep
<1>3. CASE Tick \/ Evict \/ Crash
  BY <1>3, TickInv, EvictInv, CrashInv
<1>4. CASE UNCHANGED vars
  BY <1>4 DEF vars, requests, admins, IInv, TypeOK, OffInv, OnInv
<1> QED BY <1>1, <1>2, <1>3, <1>4 DEF Next

\* The cache's histories are told truthfully in every reachable state: the inductive
\* invariant of AuthMiddleware (auth.go:78-111) beside the user service's changes.
THEOREM AccountsSafety == Spec => []IInv
<1> QED BY InitInv, NextInv, PTL DEF Spec

\* A request that began when its account was disabled or deleted, and that saw no
\* enabling meanwhile, is not let through by AuthMiddleware, for any cache content.
THEOREM DisabledStaysOutAlways == Spec => []DisabledStaysOut
<1>1. IInv => DisabledStaysOut
  BY DEF IInv, OffInv, DisabledStaysOut
<1> QED BY <1>1, AccountsSafety, PTL

\* After EnableUser has dropped the cache entry, and no request was about to cache
\* an older "inactive", AuthMiddleware refuses no later request of the account.
THEOREM EnabledGetsInAlways == Spec => []EnabledGetsIn
<1>1. IInv => EnabledGetsIn
  BY DEF IInv, OnInv, EnabledGetsIn
<1> QED BY <1>1, AccountsSafety, PTL
=============================================================================
