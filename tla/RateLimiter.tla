------------------------------ MODULE RateLimiter ------------------------------
(***************************************************************************)
(* One key of a rate limiter of the HTTP server: the map's entry for the   *)
(* key, the token buckets that have been handed out, the requests between  *)
(* getLimiter and Allow, and the cleanup loop that drops idle entries.     *)
(*                                                                         *)
(* The server has two kinds.  RateLimiter guards every request and drops   *)
(* an entry by the time of its last access, which getLimiter notes under   *)
(* the lock.  IPRateLimiter guards login and refresh and drops an entry    *)
(* whose bucket is full, which says nothing of a request that has taken    *)
(* the bucket out of the map and has yet to draw from it.                  *)
(***************************************************************************)
EXTENDS Naturals, FiniteSets

CONSTANTS
  Callers,    \* slots of concurrent requests with this key
  Buckets,    \* identities of rate.Limiter objects
  NoBucket,   \* the map has no entry for the key
  Burst,      \* burst
  Refill,     \* tokens that a bucket gains in a tick
  IdleLimit,  \* ticks without access after which RateLimiter drops an entry
  MaxStrays   \* bound: after so many draws from a dropped bucket there is no cleanup

ASSUME RateLimiterAssumption ==
  /\ IsFiniteSet(Callers) /\ IsFiniteSet(Buckets)
  /\ NoBucket \notin Buckets
  /\ Burst \in Nat \ {0} /\ Refill \in Nat /\ IdleLimit \in Nat
  /\ IdleLimit * Refill >= Burst      \* ten minutes refill any bucket
  /\ MaxStrays \in Nat

VARIABLES
  kind,       \* which of the two limiters this is
  entry,      \* limiters[key]
  tokens,     \* tokens[b]: what bucket b holds
  idle,       \* ticks since entry.lastAccess
  lpc,        \* lpc[c]: the next step of c's request
  holds,      \* holds[c]: the limiter that getLimiter returned to c
  budget,     \* history: what one bucket for the key, never dropped, would hold
  overdraft,  \* history: requests let through that such a bucket would have refused
  strays      \* history: tokens drawn from buckets that were no longer in the map

vars == <<kind, entry, tokens, idle, lpc, holds, budget, overdraft, strays>>

AtMostBurst(n) == IF n > Burst THEN Burst ELSE n

-----------------------------------------------------------------------------
Init ==
  /\ kind \in {"request", "ip"}
  /\ entry = NoBucket
  /\ tokens = [b \in Buckets |-> Burst]
  /\ idle = 0
  /\ lpc = [c \in Callers |-> "idle"]
  /\ holds = [c \in Callers |-> NoBucket]
  /\ budget = Burst /\ overdraft = 0 /\ strays = 0

\* The first half of getLimiter, under the read lock.
Lookup(c) ==
  /\ lpc[c] = "idle"
  /\ holds' = [holds EXCEPT ![c] = entry]
  /\ lpc' = [lpc EXCEPT ![c] = IF entry = NoBucket THEN "create" ELSE "allow"]
  /\ idle' = IF entry = NoBucket THEN idle ELSE 0
  /\ UNCHANGED <<kind, entry, tokens, budget, overdraft, strays>>

\* The second half, under the lock: it looks again, since another request may have
\* made the entry meanwhile.
Recheck == entry # NoBucket

CreateOrReuse(c) ==
  /\ lpc[c] = "create"
  /\ \/ /\ Recheck
        /\ holds' = [holds EXCEPT ![c] = entry]
        /\ UNCHANGED <<entry, tokens>>
     \/ \E b \in Buckets \ ({entry} \cup {holds[d] : d \in Callers}) :
          /\ ~Recheck
          /\ entry' = b
          /\ tokens' = [tokens EXCEPT ![b] = Burst]
          /\ holds' = [holds EXCEPT ![c] = b]
  /\ idle' = 0
  /\ lpc' = [lpc EXCEPT ![c] = "allow"]
  /\ UNCHANGED <<kind, budget, overdraft, strays>>

\* Allow draws a token from the bucket that the request holds, if there is one.
Allow(c) ==
  /\ lpc[c] = "allow"
  /\ lpc' = [lpc EXCEPT ![c] = "idle"]
  /\ holds' = [holds EXCEPT ![c] = NoBucket]
  /\ IF tokens[holds[c]] = 0
     THEN UNCHANGED <<tokens, budget, overdraft, strays>>
     ELSE /\ tokens' = [tokens EXCEPT ![holds[c]] = @ - 1]
          /\ budget' = IF budget = 0 THEN 0 ELSE budget - 1
          /\ overdraft' = IF budget = 0 THEN overdraft + 1 ELSE overdraft
          /\ strays' = IF holds[c] = entry THEN strays ELSE strays + 1
  /\ UNCHANGED <<kind, entry, idle>>

-----------------------------------------------------------------------------
\* What the cleanup loops look at.
Stale_Early == IF kind = "request" THEN idle > 0 ELSE tokens[entry] = Burst

Stale == IF kind = "request" THEN idle > IdleLimit ELSE tokens[entry] = Burst

\* One round of cleanupLoop, under the lock.
Cleanup ==
  /\ entry # NoBucket /\ Stale
  /\ strays < MaxStrays
  /\ entry' = NoBucket
  /\ UNCHANGED <<kind, tokens, idle, lpc, holds, budget, overdraft, strays>>

\* A tick is long beside the few instructions from getLimiter to Allow.
Tick ==
  /\ \A c \in Callers : lpc[c] # "allow"
  /\ tokens' = [b \in Buckets |-> AtMostBurst(tokens[b] + Refill)]
  /\ budget' = AtMostBurst(budget + Refill)
  /\ idle' = IF idle > IdleLimit THEN idle ELSE idle + 1
  /\ UNCHANGED <<kind, entry, lpc, holds, overdraft, strays>>

Request(c) == Lookup(c) \/ CreateOrReuse(c) \/ Allow(c)

Next == (\E c \in Callers : Request(c)) \/ Cleanup \/ Tick

Spec == Init /\ [][Next]_vars

-----------------------------------------------------------------------------
TypeOK ==
  /\ kind \in {"request", "ip"}
  /\ entry \in Buckets \cup {NoBucket}
  /\ tokens \in [Buckets -> 0..Burst]
  /\ idle \in 0..(IdleLimit + 1)
  /\ lpc \in [Callers -> {"idle", "create", "allow"}]
  /\ holds \in [Callers -> Buckets \cup {NoBucket}]
  /\ budget \in 0..Burst /\ overdraft \in Nat /\ strays \in Nat

\* The map with its cleanup is as strict as one bucket for the key that is never
\* dropped (NewRateLimiter, NewIPRateLimiter): RateLimiter lets through no request
\* such a bucket would refuse, and IPRateLimiter no more of them than requests drew
\* from a bucket that the cleanup had dropped in between.
KeepsTheRate ==
  /\ overdraft <= strays
  /\ kind = "request" => overdraft = 0

\* What a request holds, and what the entry has left.
Held ==
  \A c \in Callers :
    /\ lpc[c] = "allow" => holds[c] # NoBucket
    /\ kind = "request" /\ lpc[c] = "allow" => holds[c] = entry /\ idle = 0

NoCredit ==
  /\ entry # NoBucket => tokens[entry] + overdraft <= budget + strays
  /\ entry = NoBucket => Burst + overdraft <= budget + strays

Refilled == kind = "request" /\ entry # NoBucket => tokens[entry] >= AtMostBurst(idle * Refill)

IInv == TypeOK /\ Held /\ NoCredit /\ Refilled /\ (kind = "request" => strays = 0)
=============================================================================
