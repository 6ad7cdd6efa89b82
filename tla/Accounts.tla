------------------------------- MODULE Accounts -------------------------------
(***************************************************************************)
(* One user account: its row in the table `user`, the entry that the       *)
(* authentication middleware keeps of its status in a memory cache, the    *)
(* API requests that pass the middleware, and the administrators' requests *)
(* that change the account.                                                *)
(*                                                                         *)
(* Only a cached "inactive" is trusted; everything else is read from the   *)
(* table and written to the cache.  Nothing holds a lock from the read to  *)
(* the write, neither in the middleware nor in the user service, so a      *)
(* status may be cached, or saved, that is no longer the account's.        *)
(***************************************************************************)
EXTENDS Naturals

CONSTANTS
  Requests,    \* slots of concurrent requests of the user
  Admins,      \* slots of concurrent requests that change the account
  NoEntry,     \* the cache has no such key
  TTL,         \* the cache's default time to live, in ticks
  MaxChanges,  \* bound: requests that change the account
  MaxFaults    \* bound: failed reads, failed writes and crashes

Kinds   == {"disable", "enable", "update"}
Wants   == {"active", "inactive", "keep"}
Rows    == {"active", "inactive", "gone"}
Entries == [active : BOOLEAN, left : 0..TTL]

ASSUME AccountsAssumption ==
  /\ NoEntry \notin Entries
  /\ TTL \in Nat \ {0}
  /\ MaxChanges \in Nat /\ MaxFaults \in Nat

VARIABLES
  row,      \* users.status, or "gone" when the row is deleted
  entry,    \* the cache item "user_status:<id>": its value and the time it has left
  pc,       \* pc[r]: the next step of request r in AuthMiddleware
  active,   \* active[r]: what r made of the row it read
  verdict,  \* verdict[r]: whether r's request went through
  apc,      \* apc[a]: the next step of a's request
  held,     \* held[a]: the status of the row a read
  want,     \* want[a]: what a's request does
  off,      \* history: off[r]: the account was never active since r began
  enabled,  \* history: the account is active since it was enabled and its entry dropped
  on,       \* history: on[r]: enabled, when r began
  changes, faults

requests == <<pc, active, verdict, off, on>>
admins   == <<apc, held, want>>
vars     == <<row, entry, requests, admins, enabled, changes, faults>>

-----------------------------------------------------------------------------
Init ==
  /\ row \in {"active", "inactive"}
  /\ entry = NoEntry
  /\ pc = [r \in Requests |-> "idle"]
  /\ active = [r \in Requests |-> FALSE]
  /\ verdict = [r \in Requests |-> "none"]
  /\ apc = [a \in Admins |-> "idle"]
  /\ held = [a \in Admins |-> "gone"]
  /\ want = [a \in Admins |-> [kind |-> "update", status |-> "keep"]]
  /\ off = [r \in Requests |-> FALSE]
  /\ enabled = "no"
  /\ on = [r \in Requests |-> "no"]
  /\ changes = 0 /\ faults = 0

\* After a failure the account need not be let in for a while.
Fault ==
  /\ faults < MaxFaults /\ faults' = faults + 1
  /\ enabled' = "no"
  /\ on' = [r \in Requests |-> "no"]

-----------------------------------------------------------------------------
(* AuthMiddleware, after the token was found valid.                         *)

Fresh == entry # NoEntry /\ entry.left > 0

\* What the cache alone decides.
CachedVerdict_Trusted ==
  IF Fresh THEN (IF entry.active THEN "admitted" ELSE "rejected") ELSE "none"

CachedVerdict == IF Fresh /\ ~entry.active THEN "rejected" ELSE "none"

\* A hit leaves the item as it is.
AfterHit_Renewed == IF Fresh THEN [entry EXCEPT !.left = TTL] ELSE entry

AfterHit == entry

\* userStatusCache.Get, under the read lock.
Lookup(r) ==
  /\ pc[r] = "idle"
  /\ entry' = AfterHit
  /\ verdict' = [verdict EXCEPT ![r] = CachedVerdict]
  /\ pc' = [pc EXCEPT ![r] =
              IF CachedVerdict # "none" THEN "idle"
              ELSE IF entry # NoEntry /\ ~Fresh THEN "drop" ELSE "find"]
  /\ off' = [off EXCEPT ![r] = row # "active"]
  /\ on' = [on EXCEPT ![r] = enabled]
  /\ UNCHANGED <<row, active, admins, enabled, changes, faults>>

\* Get found an expired item, gave up the read lock and deletes the key under the
\* write lock, whatever is there by now.
Drop(r) ==
  /\ pc[r] = "drop"
  /\ entry' = NoEntry
  /\ pc' = [pc EXCEPT ![r] = "find"]
  /\ UNCHANGED <<row, active, verdict, off, on, admins, enabled, changes, faults>>

\* userRepo.FindByID
Find(r) ==
  /\ pc[r] = "find"
  /\ active' = [active EXCEPT ![r] = row = "active"]
  /\ pc' = [pc EXCEPT ![r] = "set"]
  /\ UNCHANGED <<row, entry, verdict, off, on, admins, enabled, changes, faults>>

\* An error of the database counts as inactive, and is cached like it.
FindFails(r) ==
  /\ pc[r] = "find" /\ Fault
  /\ active' = [active EXCEPT ![r] = FALSE]
  /\ pc' = [pc EXCEPT ![r] = "set"]
  /\ UNCHANGED <<row, entry, verdict, off, admins, changes>>

\* userStatusCache.Set, and the request goes on or is refused.
Set(r) ==
  /\ pc[r] = "set"
  /\ entry' = [active |-> active[r], left |-> TTL]
  /\ verdict' = [verdict EXCEPT ![r] = IF active[r] THEN "admitted" ELSE "rejected"]
  /\ pc' = [pc EXCEPT ![r] = "idle"]
  /\ UNCHANGED <<row, active, off, on, admins, enabled, changes, faults>>

-----------------------------------------------------------------------------
(* Administrators.                                                          *)

\* The histories after the row has become x.
Observe(x) ==
  /\ off' = [r \in Requests |-> off[r] /\ (pc[r] = "idle" \/ x # "active")]
  /\ enabled' = IF x = "active" THEN enabled ELSE "no"
  /\ on' = [r \in Requests |-> IF pc[r] = "idle" \/ x = "active" THEN on[r] ELSE "no"]

\* DisableUser, EnableUser, UpdateUser (with or without a status) and UpdatePassword
\* begin with FindByID; what follows works on that copy.
StartChange(a, w) ==
  /\ apc[a] = "idle" /\ changes < MaxChanges /\ row # "gone"
  /\ changes' = changes + 1
  /\ held' = [held EXCEPT ![a] = row]
  /\ want' = [want EXCEPT ![a] = w]
  /\ apc' = [apc EXCEPT ![a] = "save"]
  /\ UNCHANGED <<row, entry, requests, enabled, faults>>

Changed(a) == IF want[a].status = "keep" THEN held[a] ELSE want[a].status

\* userRepo.Update saves every column of the copy, and inserts the row again if it
\* was deleted meanwhile.  Only disabling and enabling drop the cache entry.
Save(a) ==
  /\ apc[a] = "save"
  /\ row' = Changed(a)
  /\ apc' = [apc EXCEPT ![a] = IF want[a].kind = "update" THEN "idle" ELSE "invalidate"]
  /\ Observe(Changed(a))
  /\ UNCHANGED <<entry, pc, active, verdict, held, want, changes, faults>>

Invalidated_Forgotten == entry

Invalidated == NoEntry

\* InvalidateUserStatusCache.  A request that has read "inactive" and not yet cached
\* it overlaps the change.
Invalidate(a) ==
  /\ apc[a] = "invalidate"
  /\ entry' = Invalidated
  /\ apc' = [apc EXCEPT ![a] = "idle"]
  /\ enabled' = IF row # "active" THEN "no"
                ELSE IF \E r \in Requests : pc[r] = "set" /\ ~active[r] THEN "raced"
                ELSE "clean"
  /\ UNCHANGED <<row, requests, held, want, changes, faults>>

SaveFails(a) ==
  /\ apc[a] = "save" /\ Fault
  /\ apc' = [apc EXCEPT ![a] = "idle"]
  /\ UNCHANGED <<row, entry, pc, active, verdict, off, held, want, changes>>

\* DeleteUser: one statement, and the cache keeps its entry.
Delete(a) ==
  /\ apc[a] = "idle" /\ changes < MaxChanges /\ row # "gone"
  /\ changes' = changes + 1
  /\ row' = "gone"
  /\ Observe("gone")
  /\ UNCHANGED <<entry, pc, active, verdict, admins, faults>>

-----------------------------------------------------------------------------
(* Time, room and restarts.                                                 *)

Tick ==
  /\ Fresh
  /\ entry' = [entry EXCEPT !.left = @ - 1]
  /\ UNCHANGED <<row, requests, admins, enabled, changes, faults>>

\* The sweep of expired items, or the keys of other users have filled the cache.
Evict ==
  /\ entry # NoEntry
  /\ entry' = NoEntry
  /\ UNCHANGED <<row, requests, admins, enabled, changes, faults>>

\* The server stops and starts again: the cache is empty, the requests are gone.
Crash ==
  /\ Fault
  /\ entry' = NoEntry
  /\ pc' = [r \in Requests |-> "idle"]
  /\ verdict' = [r \in Requests |-> "none"]
  /\ apc' = [a \in Admins |-> "idle"]
  /\ UNCHANGED <<row, active, off, held, want, changes>>

-----------------------------------------------------------------------------
RequestStep(r) == Drop(r) \/ Find(r) \/ Set(r)

AdminStep(a) == Save(a) \/ Invalidate(a)

\* The changes the user service offers.
Change ==
  {[kind |-> "disable", status |-> "inactive"], [kind |-> "enable", status |-> "active"]}
    \cup {[kind |-> "update", status |-> s] : s \in Wants}

Next ==
  \/ \E r \in Requests : Lookup(r) \/ RequestStep(r) \/ FindFails(r)
  \/ \E a \in Admins :
       \/ AdminStep(a) \/ SaveFails(a) \/ Delete(a)
       \/ \E w \in Change : StartChange(a, w)
  \/ Tick \/ Evict \/ Crash

\* A handler that has started runs to its end, and time passes.
Fairness ==
  /\ \A r \in Requests : WF_vars(RequestStep(r))
  /\ \A a \in Admins : WF_vars(AdminStep(a))
  /\ WF_vars(Tick)

Spec == Init /\ [][Next]_vars /\ Fairness

-----------------------------------------------------------------------------
(* Properties.                                                              *)

TypeOK ==
  /\ row \in Rows
  /\ entry \in Entries \cup {NoEntry}
  /\ pc \in [Requests -> {"idle", "drop", "find", "set"}]
  /\ active \in [Requests -> BOOLEAN]
  /\ verdict \in [Requests -> {"none", "admitted", "rejected"}]
  /\ apc \in [Admins -> {"idle", "save", "invalidate"}]
  /\ held \in [Admins -> Rows]
  /\ want \in [Admins -> [kind : Kinds, status : Wants]]
  /\ off \in [Requests -> BOOLEAN]
  /\ enabled \in {"no", "raced", "clean"}
  /\ on \in [Requests -> {"no", "raced", "clean"}]
  /\ changes \in 0..MaxChanges /\ faults \in 0..MaxFaults

\* A disabled or deleted account stays out, whatever the cache holds and whether or
\* not the change dropped its entry: no request goes through that began when the
\* account was not active and during which it did not become active.
DisabledStaysOut == \A r \in Requests : verdict[r] = "admitted" => ~off[r]

\* An enabled account gets in at once, if no request that had read it as inactive
\* was still on its way when the entry was dropped: no later request is refused while
\* the account stays active and the database answers.
EnabledGetsIn == \A r \in Requests : verdict[r] = "rejected" => on[r] # "clean"

\* Nobody is locked out for good: when changes and failures have stopped, an active
\* account has no entry that refuses it, however often its user keeps trying.
LockoutEnds == <>[](row = "active" => CachedVerdict # "rejected")

\* What InvalidateUserStatusCache says of itself: "so that disabling/enabling a user
\* takes effect immediately" (auth.go:123).  No request that begins after an enabled
\* account's entry was dropped is refused while the account stays active.
EnableTakesEffect == \A r \in Requests : verdict[r] = "rejected" => on[r] = "no"

-----------------------------------------------------------------------------
(* The inductive invariants behind the two safety properties.               *)

OffInv ==
  \A r \in Requests :
    /\ off[r] /\ pc[r] # "idle" => row # "active"
    /\ off[r] /\ pc[r] = "set" => ~active[r]
    /\ verdict[r] = "admitted" => ~off[r]

\* While an enabled account stays active, nothing says it is not.
OnInv ==
  /\ enabled # "no" => row = "active"
  /\ enabled = "clean" =>
       /\ entry # NoEntry => entry.active
       /\ \A r \in Requests : pc[r] = "set" => active[r]
  /\ \A r \in Requests : on[r] = "clean" =>
       /\ pc[r] # "idle" => row = "active" /\ enabled # "no"
       /\ pc[r] = "set" => active[r]
       /\ verdict[r] # "rejected"

IInv == TypeOK /\ OffInv /\ OnInv
=============================================================================
