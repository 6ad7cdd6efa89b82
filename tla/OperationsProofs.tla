---------------------------- MODULE OperationsProofs ----------------------------
(***************************************************************************)
(* The four parts of what serves the requests beside their handlers, for   *)
(* any number of requests, writers, clusters and clients.                  *)
(*                                                                         *)
(* Rate limiter: dropping idle entries does not loosen the rate.  The      *)
(* invariant compares the bucket in the map with one that is never         *)
(* dropped: it has no more tokens than that one, but for those that        *)
(* requests have drawn from dropped buckets.  For RateLimiter that needs   *)
(* Refilled: an entry idle long enough to be dropped is full.              *)
(*                                                                         *)
(* Audit log: a row overtakes at most one earlier record for each other    *)
(* writer.  The channel is the end of the order in which the records were  *)
(* sent, so that whatever is earlier than a record that a writer holds,    *)
(* and not yet written, is with another writer.                            *)
(*                                                                         *)
(* Sync worker: an admin client is open, in the pool or with a goroutine.  *)
(* A goroutine that waits for its first cluster, or has lost one, has      *)
(* none; the pool and the goroutines never share one.                      *)
(*                                                                         *)
(* Cluster health: "error" has a cause.  What is true of a request is      *)
(* proved for each step of its way; what it keeps for others, the shared   *)
(* entry and the pages, carries the causes along.                          *)
(***************************************************************************)
EXTENDS MCOperations, Integers, Sequences, FiniteSets, FiniteSetTheorems, TLAPS

-----------------------------------------------------------------------------
(* The rate limiters                                                        *)

\* The invariant, with what it is for: a step that lets through a request which the
\* bucket that is never dropped would refuse finds that bucket empty.
RateInv == IInv /\ KeepsTheRate

-----------------------------------------------------------------------------
\* RateLimiter drops an entry only when its bucket is full (cleanupStaleEntries).
LEMMA StaleIsFull ==
  ASSUME RateLimiterAssumption, IInv, entry # NoBucket, Stale
  PROVE  tokens[entry] = Burst
<1>. USE DEF RateLimiterAssumption
<1>1. CASE kind # "request"
  BY <1>1 DEF Stale
<1>2. CASE kind = "request"
  <2>1. idle = IdleLimit + 1
    BY <1>2 DEF Stale, IInv, TypeOK
  <2>2. idle * Refill = IdleLimit * Refill + Refill
    BY <2>1
  <2>3. idle * Refill >= Burst /\ idle * Refill \in Int
    BY <2>2
  <2>4. tokens[entry] >= AtMostBurst(idle * Refill)
    BY <1>2 DEF IInv, Refilled
  <2>5. AtMostBurst(idle * Refill) = Burst
    BY <2>3 DEF AtMostBurst
  <2>. QED BY <2>4, <2>5 DEF IInv, TypeOK
<1>. QED BY <1>1, <1>2

-----------------------------------------------------------------------------
\* A bucket that fills up keeps the order of what is compared with it.
LEMMA Exchange ==
  ASSUME NEW m \in Nat, NEW n \in Nat, NEW k \in Nat, NEW l \in Nat, NEW j \in Nat,
         m + k <= n + l, n <= j
  PROVE  m + k <= j + l
  OBVIOUS

LEMMA RateInit ==
  ASSUME RateLimiterAssumption, Init
  PROVE  RateInv
<1>. USE DEF RateLimiterAssumption
<1>1. TypeOK
  BY DEF Init, TypeOK
<1>2. Held /\ NoCredit /\ Refilled
  BY DEF Init, Held, NoCredit, Refilled
<1>3. KeepsTheRate /\ (kind = "request" => strays = 0)
  BY DEF Init, KeepsTheRate
<1>. QED BY <1>1, <1>2, <1>3 DEF RateInv, IInv

LEMMA LookupStep ==
  ASSUME RateLimiterAssumption, RateInv, NEW c \in Callers, Lookup(c)
  PROVE  RateInv'
<1>. USE DEF RateLimiterAssumption, RateInv, IInv
<1>1. TypeOK'
  BY DEF Lookup, TypeOK
<1>2. Held'
  BY DEF Lookup, TypeOK, Held
<1>3. (NoCredit /\ KeepsTheRate)' /\ (kind' = "request" => strays' = 0)
  BY DEF Lookup, NoCredit, KeepsTheRate
<1>4. Refilled'
  <2>1. CASE entry = NoBucket
    BY <2>1 DEF Lookup, Refilled
  <2>2. CASE entry # NoBucket
    <3>1. idle' = 0 /\ entry' = entry /\ tokens' = tokens
      BY <2>2 DEF Lookup
    <3>2. AtMostBurst(idle' * Refill) = 0
      BY <3>1 DEF AtMostBurst
    <3>. QED BY <2>2, <3>1, <3>2 DEF Refilled, TypeOK, AtMostBurst
  <2>. QED BY <2>1, <2>2
<1>. QED BY <1>1, <1>2, <1>3, <1>4

\* What a request holds when it leaves the lock is the bucket in the map.
LEMMA CreateStep ==
  ASSUME RateLimiterAssumption, RateInv, NEW c \in Callers, CreateOrReuse(c)
  PROVE  RateInv'
<1>. USE DEF RateLimiterAssumption, RateInv, IInv
<1>1. idle' = 0 /\ UNCHANGED <<kind, budget, overdraft, strays>>
  BY DEF CreateOrReuse
<1>2. AtMostBurst(idle' * Refill) = 0
  BY <1>1 DEF AtMostBurst
<1>3. CASE Recheck /\ holds' = [holds EXCEPT ![c] = entry] /\ UNCHANGED <<entry, tokens>>
  <2>1. TypeOK'
    BY <1>1, <1>3 DEF CreateOrReuse, TypeOK
  <2>2. Held'
    BY <1>1, <1>3 DEF CreateOrReuse, TypeOK, Held, Recheck
  <2>3. (NoCredit /\ KeepsTheRate)' /\ (kind' = "request" => strays' = 0)
    BY <1>1, <1>3 DEF NoCredit, KeepsTheRate
  <2>4. Refilled'
    BY <1>1, <1>2, <1>3 DEF Refilled, TypeOK
  <2>. QED BY <2>1, <2>2, <2>3, <2>4
<1>4. ASSUME NEW b \in Buckets, ~Recheck, entry' = b,
             tokens' = [tokens EXCEPT ![b] = Burst], holds' = [holds EXCEPT ![c] = b]
      PROVE  RateInv'
  <2>1. TypeOK'
    BY <1>1, <1>4 DEF CreateOrReuse, TypeOK
  <2>2. Held'
    BY <1>1, <1>4 DEF CreateOrReuse, TypeOK, Held, Recheck
  <2>3. tokens'[entry'] = Burst
    BY <1>4 DEF TypeOK
  <2>4. (NoCredit /\ KeepsTheRate)' /\ (kind' = "request" => strays' = 0)
    BY <1>1, <1>4, <2>3 DEF NoCredit, KeepsTheRate, Recheck
  <2>5. Refilled'
    BY <1>1, <1>2, <2>3 DEF Refilled
  <2>. QED BY <2>1, <2>2, <2>4, <2>5
<1>. QED BY <1>3, <1>4 DEF CreateOrReuse

\* A token is drawn from the bucket in the map, or from one that was dropped.
LEMMA AllowStep ==
  ASSUME RateLimiterAssumption, RateInv, NEW c \in Callers, Allow(c)
  PROVE  RateInv'
<1>. USE DEF RateLimiterAssumption, RateInv, IInv
<1>1. UNCHANGED <<kind, entry, idle>> /\ lpc[c] = "allow" /\ holds[c] \in Buckets
  BY DEF Allow, Held, TypeOK
<1>2. (\A d \in Callers : lpc'[d] = "allow" => lpc[d] = "allow" /\ holds'[d] = holds[d])
  BY DEF Allow, TypeOK
<1>3. Held'
  BY <1>1, <1>2 DEF Held
<1>4. CASE tokens[holds[c]] = 0
  <2>1. UNCHANGED <<tokens, budget, overdraft, strays>>
    BY <1>4 DEF Allow
  <2>2. TypeOK'
    BY <1>1, <2>1 DEF Allow, TypeOK
  <2>. QED BY <1>1, <1>3, <2>1, <2>2 DEF NoCredit, Refilled, KeepsTheRate
<1>5. CASE tokens[holds[c]] # 0
  <2>. DEFINE drawn == holds[c]
  <2>1. /\ tokens' = [tokens EXCEPT ![drawn] = @ - 1]
        /\ budget' = IF budget = 0 THEN 0 ELSE budget - 1
        /\ overdraft' = IF budget = 0 THEN overdraft + 1 ELSE overdraft
        /\ strays' = IF drawn = entry THEN strays ELSE strays + 1
    BY <1>5 DEF Allow
  <2>2. tokens[drawn] \in 1..Burst /\ drawn \in Buckets
    BY <1>1, <1>5 DEF TypeOK
  <2>. HIDE DEF drawn
  <2>3. TypeOK'
    BY <1>1, <2>1, <2>2 DEF Allow, TypeOK
  <2>4. CASE drawn = entry
    <3>1. tokens'[entry'] = tokens[entry] - 1 /\ strays' = strays /\ entry # NoBucket
      BY <1>1, <2>1, <2>2, <2>4 DEF TypeOK
    <3>2. (NoCredit /\ KeepsTheRate)' /\ (kind' = "request" => strays' = 0)
      BY <1>1, <2>1, <2>2, <2>4, <3>1 DEF NoCredit, KeepsTheRate, TypeOK
    <3>3. Refilled'
      <4>1. kind = "request" => idle = 0
        BY <1>1 DEF Held
      <4>2. kind = "request" => AtMostBurst(idle * Refill) = 0
        BY <4>1 DEF AtMostBurst
      <4>. QED BY <1>1, <2>2, <2>4, <3>1, <4>2 DEF Refilled, TypeOK
    <3>. QED BY <1>3, <2>3, <3>2, <3>3
  <2>5. CASE drawn # entry
    <3>1. kind # "request"
      BY <1>1, <2>5 DEF Held, drawn
    <3>2. entry # NoBucket => tokens'[entry'] = tokens[entry]
      BY <1>1, <2>1, <2>2, <2>5 DEF TypeOK
    <3>3. strays' = strays + 1
      BY <2>1, <2>5
    <3>4. (NoCredit /\ KeepsTheRate)'
      BY <1>1, <2>1, <3>1, <3>2, <3>3 DEF NoCredit, KeepsTheRate, TypeOK
    <3>. QED BY <1>1, <1>3, <2>3, <3>1, <3>4 DEF Refilled
  <2>. QED BY <2>4, <2>5
<1>. QED BY <1>4, <1>5

\* An entry is dropped only when its bucket is full, so that the next one holds no more.
LEMMA CleanupStep ==
  ASSUME RateLimiterAssumption, RateInv, Cleanup
  PROVE  RateInv'
<1>. USE DEF RateLimiterAssumption, RateInv, IInv
<1>1. tokens[entry] = Burst
  BY StaleIsFull DEF Cleanup
<1>2. TypeOK'
  BY DEF Cleanup, TypeOK
<1>3. Held'
  BY DEF Cleanup, Stale, Held, TypeOK
<1>4. (NoCredit /\ Refilled /\ KeepsTheRate)' /\ (kind' = "request" => strays' = 0)
  BY <1>1 DEF Cleanup, NoCredit, Refilled, KeepsTheRate
<1>. QED BY <1>2, <1>3, <1>4

\* A tick refills each bucket by no more than the one that is never dropped.
LEMMA TickStep ==
  ASSUME RateLimiterAssumption, RateInv, Tick
  PROVE  RateInv'
<1>. USE DEF RateLimiterAssumption, RateInv, IInv
<1>1. TypeOK'
  BY DEF Tick, TypeOK, AtMostBurst
<1>2. Held'
  BY DEF Tick, Held
<1>3. (KeepsTheRate)' /\ (kind' = "request" => strays' = 0)
  BY DEF Tick, KeepsTheRate
<1>4. budget' >= budget /\ (budget' = Burst \/ budget' = budget + Refill)
  BY DEF Tick, TypeOK, AtMostBurst
<1>5. ASSUME entry # NoBucket
      PROVE  /\ entry' = entry /\ tokens'[entry] = AtMostBurst(tokens[entry] + Refill)
             /\ tokens'[entry] <= Burst /\ tokens'[entry] <= tokens[entry] + Refill
  BY <1>5 DEF Tick, TypeOK, AtMostBurst
<1>6. NoCredit'
  <2>1. budget \in Nat /\ budget' \in Nat /\ overdraft \in Nat /\ strays \in Nat /\ Burst \in Nat
    BY <1>1 DEF TypeOK
  <2>4. UNCHANGED <<entry, overdraft, strays>> /\ overdraft <= strays
    BY DEF Tick, KeepsTheRate
  <2>2. CASE entry = NoBucket
    <3>1. Burst + overdraft <= budget + strays /\ budget <= budget'
      BY <1>4, <2>1, <2>2 DEF NoCredit
    <3>2. Burst + overdraft <= budget' + strays
      BY <2>1, <3>1, Exchange
    <3>. QED BY <2>2, <2>4, <3>2 DEF NoCredit
  <2>3. CASE entry # NoBucket
    <3>1. tokens[entry] \in Nat /\ tokens'[entry] \in Nat
      BY <1>1, <2>3, <2>4 DEF TypeOK
    <3>2. tokens'[entry] + overdraft <= budget' + strays
      BY <1>4, <1>5, <2>1, <2>3, <2>4, <3>1 DEF NoCredit
    <3>. QED BY <2>3, <2>4, <3>2 DEF NoCredit
  <2>. QED BY <2>2, <2>3
<1>7. Refilled'
  <2>. SUFFICES ASSUME kind = "request", entry # NoBucket
       PROVE  tokens'[entry] >= AtMostBurst(idle' * Refill)
    BY <1>5 DEF Tick, Refilled
  <2>1. tokens[entry] >= AtMostBurst(idle * Refill)
    BY DEF Refilled
  <2>2. idle \in Nat /\ tokens[entry] \in 0..Burst
    BY DEF TypeOK
  <2>3. idle * Refill \in Nat
    BY <2>2
  <2>4. CASE idle' = idle
    BY <1>5, <2>1, <2>2, <2>3, <2>4 DEF AtMostBurst
  <2>5. CASE idle' = idle + 1
    <3>1. idle' * Refill = idle * Refill + Refill
      BY <2>2, <2>5
    <3>. QED BY <1>5, <2>1, <2>2, <2>3, <3>1 DEF AtMostBurst
  <2>. QED BY <2>4, <2>5 DEF Tick
<1>. QED BY <1>1, <1>2, <1>3, <1>6, <1>7

LEMMA RateStep ==
  ASSUME RateLimiterAssumption, RateInv, [Next]_vars
  PROVE  RateInv'
<1>1. ASSUME NEW c \in Callers, Request(c) PROVE RateInv'
  BY <1>1, LookupStep, CreateStep, AllowStep DEF Request
<1>2. CASE UNCHANGED vars
  BY <1>2 DEF vars, RateInv, IInv, TypeOK, Held, NoCredit, Refilled, KeepsTheRate
<1>. QED BY <1>1, <1>2, CleanupStep, TickStep DEF Next

-----------------------------------------------------------------------------
\* The invariant of both limiters: between getLimiter and Allow a request of RateLimiter
\* holds the bucket in the map, and that bucket accounts for every token.
THEOREM LimiterSafety ==
  Spec => []IInv
<1>1. Init => RateInv
  BY RateInit, RateLimiterAssumption
<1>2. RateInv /\ [Next]_vars => RateInv'
  BY RateStep, RateLimiterAssumption
<1>3. RateInv => IInv
  BY DEF RateInv
<1>. QED BY <1>1, <1>2, <1>3, PTL DEF Spec

\* Dropping idle entries lets no key of RateLimiter exceed its rate, and a key of
\* IPRateLimiter by no more than requests drew from dropped buckets.
THEOREM KeepsTheRateAlways ==
  Spec => []KeepsTheRate
<1>1. Init => RateInv
  BY RateInit, RateLimiterAssumption
<1>2. RateInv /\ [Next]_vars => RateInv'
  BY RateStep, RateLimiterAssumption
<1>3. RateInv => KeepsTheRate
  BY DEF RateInv
<1>. QED BY <1>1, <1>2, <1>3, PTL DEF Spec

-----------------------------------------------------------------------------
(* The audit log                                                            *)

\* The records that have left the channel, and the queue: the channel is the end of what
\* was ever sent, and what a writer has received comes before it.
Received == Len(order) - Len(channel)

Queue ==
  /\ \A i, j \in 1..Len(order) : order[i] = order[j] => i = j
  /\ \A i \in 1..Len(order) : stage[order[i]] = "done"
  /\ Len(channel) <= Len(order)
  /\ \A i \in 1..Len(channel) : channel[i] = order[Received + i]
  /\ \A w \in Writers : writing[w] # NoRecord => \E i \in 1..Received : order[i] = writing[w]

AuditInv == Audit!TypeOK /\ Audit!OnePlace /\ Queue /\ jumped < Cardinality(Writers)

-----------------------------------------------------------------------------
\* Finite sets of AuditTrail are those of this module.
LEMMA SameCardinality ==
  ASSUME NEW S
  PROVE  Audit!Cardinality(S) = Cardinality(S) /\ (Audit!IsFiniteSet(S) <=> IsFiniteSet(S))
<1>1. Audit!Cardinality(S) = Cardinality(S)
  BY DEF Audit!Cardinality, Cardinality
<1>2. Audit!IsFiniteSet(S) <=> IsFiniteSet(S)
  BY DEF Audit!IsFiniteSet, IsFiniteSet
<1>. QED BY <1>1, <1>2

LEMMA AuditConstants ==
  ASSUME Audit!AuditTrailAssumption
  PROVE  /\ NoRecord \notin Recorded /\ IsFiniteSet(Writers) /\ Cardinality(Writers) \in Nat \ {0}
         /\ Buffer \in Nat \ {0} /\ RetentionDays \in Nat \ {0} /\ MaxLogFaults \in Nat
         /\ Audit!NoRow = -1 /\ Audit!MaxAge = RetentionDays + 2
<1>1. IsFiniteSet(Writers) /\ Writers # {}
  BY SameCardinality DEF Audit!AuditTrailAssumption
<1>2. Cardinality(Writers) \in Nat /\ Cardinality(Writers) # 0
  BY <1>1, FS_CardinalityType, FS_EmptySet
<1>. QED BY <1>1, <1>2 DEF Audit!AuditTrailAssumption, Audit!NoRow, Audit!MaxAge

LEMMA AuditFaultCounts ==
  ASSUME Audit!AuditTrailAssumption, Audit!TypeOK, Audit!Fault \/ UNCHANGED logFaults
  PROVE  logFaults' \in 0..MaxLogFaults
  BY AuditConstants DEF Audit!TypeOK, Audit!Fault

\* The records that were sent before a writer's and are still on their way are with the
\* other writers, one with each.
LEMMA OvertakesTheOthers ==
  ASSUME Audit!AuditTrailAssumption, AuditInv, NEW w \in Writers, writing[w] # NoRecord
  PROVE  /\ Audit!Cardinality(Audit!Overtaken(writing[w])) \in Nat
         /\ Audit!Cardinality(Audit!Overtaken(writing[w])) < Cardinality(Writers)
<1>. DEFINE q == writing[w]
            place == CHOOSE i \in DOMAIN order : order[i] = q
            before == {p \in {order[i] : i \in 1..(place - 1)} : fate[p] = "queued"}
            others == Writers \ {w}
            f == [v \in others |-> writing[v]]
            T == {writing[v] : v \in others}
<1>1. DOMAIN order = 1..Len(order) /\ Len(order) \in Nat /\ Len(channel) \in Nat
      /\ DOMAIN channel = 1..Len(channel) /\ Received \in Nat /\ Received <= Len(order)
  BY DEF AuditInv, Audit!TypeOK, Queue, Received
<1>2. PICK i \in 1..Received : order[i] = q
  BY DEF AuditInv, Queue
<1>3. place \in DOMAIN order /\ order[place] = q
  BY <1>1, <1>2
<1>. HIDE DEF place
<1>4. place = i
  BY <1>1, <1>2, <1>3 DEF AuditInv, Queue
<1>5. before \subseteq T
  <2>. SUFFICES ASSUME NEW k \in 1..(place - 1), fate[order[k]] = "queued"
                PROVE  order[k] \in T
    OBVIOUS
  <2>1. k \in 1..Received /\ k # place /\ k \in 1..Len(order) /\ order[k] # q
    BY <1>1, <1>2, <1>3, <1>4 DEF AuditInv, Queue
  <2>2. order[k] \in Recorded
    BY <2>1, <1>1 DEF AuditInv, Audit!TypeOK
  <2>3. (\E v \in Writers : writing[v] = order[k]) \/ (\E m \in DOMAIN channel : channel[m] = order[k])
    BY <2>2 DEF AuditInv, Audit!OnePlace
  <2>4. ASSUME NEW m \in DOMAIN channel, channel[m] = order[k] PROVE FALSE
    <3>1. order[Received + m] = order[k] /\ Received + m \in 1..Len(order) /\ Received + m # k
      BY <1>1, <2>1, <2>4 DEF AuditInv, Queue, Received
    <3>. QED BY <2>1, <3>1 DEF AuditInv, Queue
  <2>. QED BY <2>1, <2>3, <2>4
<1>6. Audit!Overtaken(q) = before
  BY DEF Audit!Overtaken, place
<1>7. IsFiniteSet(others) /\ Cardinality(others) = Cardinality(Writers) - 1
  BY AuditConstants, FS_RemoveElement
<1>8. f \in Surjection(others, T)
  BY DEF Surjection
<1>9. IsFiniteSet(T) /\ Cardinality(T) <= Cardinality(others)
  BY <1>7, <1>8, FS_Surjection
<1>10. IsFiniteSet(before) /\ Cardinality(before) <= Cardinality(T)
  BY <1>5, <1>9, FS_Subset
<1>11. Cardinality(before) \in Nat /\ Cardinality(T) \in Nat
  BY <1>9, <1>10, FS_CardinalityType
<1>12. Cardinality(before) < Cardinality(Writers)
  BY <1>7, <1>9, <1>10, <1>11, AuditConstants
<1>. QED BY <1>6, <1>11, <1>12, SameCardinality

\* A request without a record has none anywhere.
LEMMA NotYetSent ==
  ASSUME Audit!AuditTrailAssumption, AuditInv, NEW q \in Recorded, stage[q] # "done"
  PROVE  /\ fate[q] = "none" /\ age[q] = Audit!NoRow
         /\ \A i \in 1..Len(channel) : channel[i] # q
         /\ \A i \in 1..Len(order) : order[i] # q
         /\ \A w \in Writers : writing[w] # q
<1>1. fate[q] = "none"
  BY DEF AuditInv, Audit!OnePlace
<1>2. DOMAIN channel = 1..Len(channel)
  BY DEF AuditInv, Audit!TypeOK
<1>. QED BY <1>1, <1>2 DEF AuditInv, Audit!OnePlace, Queue

\* Requests that make no record, or write it themselves.
LEMMA RequestsKeepAudit ==
  ASSUME Audit!AuditTrailAssumption, AuditInv, NEW q \in Recorded,
         Audit!Handle(q) \/ Audit!Skip(q) \/ Audit!Panic(q) \/ Audit!LogLogin(q)
  PROVE  AuditInv'
<1>. USE AuditConstants DEF AuditInv
<1>1. /\ UNCHANGED <<channel, writing, cleaner, order, jumped>> /\ stage[q] # "done"
      /\ stage' = [stage EXCEPT ![q] = stage'[q]] /\ stage'[q] \in {"handling", "done"}
      /\ fate' = [fate EXCEPT ![q] = fate'[q]] /\ fate'[q] \in {"none", "skipped", "lost", "stored", "failed"}
      /\ age' = [age EXCEPT ![q] = age'[q]] /\ age'[q] \in {Audit!NoRow, 0}
      /\ fate'[q] = "stored" <=> age'[q] # Audit!NoRow
      /\ fate'[q] # "none" => stage'[q] = "done"
      /\ Audit!Fault \/ UNCHANGED logFaults
  BY NotYetSent DEF Audit!Handle, Audit!Skip, Audit!Panic, Audit!LogLogin, Audit!TypeOK
<1>2. Audit!TypeOK'
  <2>1. stage' \in [Recorded -> {"new", "handling", "done"}]
    BY <1>1 DEF Audit!TypeOK
  <2>2. fate' \in [Recorded -> Audit!Fates]
    BY <1>1 DEF Audit!TypeOK, Audit!Fates
  <2>3. age' \in [Recorded -> {Audit!NoRow} \cup 0..Audit!MaxAge]
    BY <1>1 DEF Audit!TypeOK
  <2>. QED BY <1>1, <2>1, <2>2, <2>3, AuditFaultCounts DEF Audit!TypeOK
<1>3. Audit!OnePlace'
  BY <1>1, NotYetSent DEF Audit!OnePlace, Audit!TypeOK
<1>4. Queue'
  <2>1. \A i \in 1..Len(order) : order[i] # q
    BY <1>1, NotYetSent
  <2>2. \A p \in Recorded \ {q} : stage'[p] = stage[p]
    BY <1>1 DEF Audit!TypeOK
  <2>3. \A i \in 1..Len(order) : order[i] \in Recorded
    BY DEF Audit!TypeOK
  <2>4. \A i \in 1..Len(order) : stage'[order[i]] = "done"
    BY <2>1, <2>2, <2>3 DEF Queue
  <2>5. Received' = Received
    BY <1>1 DEF Received
  <2>. QED BY <1>1, <2>4, <2>5 DEF Queue
<1>. QED BY <1>1, <1>2, <1>3, <1>4

\* A sequence and the one with e at its end.
LEMMA Appended ==
  ASSUME NEW S, NEW s \in Seq(S), NEW e \in S, NEW t, t = Append(s, e)
  PROVE  /\ t \in Seq(S) /\ Len(t) = Len(s) + 1 /\ Len(s) \in Nat
         /\ DOMAIN s = 1..Len(s) /\ DOMAIN t = 1..Len(t) /\ t[Len(t)] = e
         /\ \A i \in 1..Len(s) : i \in 1..Len(t) /\ t[i] = s[i]
         /\ \A i \in 1..Len(t) : IF i = Len(t) THEN t[i] = e ELSE i \in 1..Len(s) /\ t[i] = s[i]
<1>1. t \in Seq(S) /\ Len(t) = Len(s) + 1 /\ Len(s) \in Nat /\ DOMAIN s = 1..Len(s) /\ t[Len(t)] = e
  OBVIOUS
<1>2. \A i \in 1..Len(s) : i \in 1..Len(t) /\ t[i] = s[i]
  BY <1>1
<1>3. \A i \in 1..Len(t) : i # Len(t) => i \in 1..Len(s)
  BY <1>1
<1>. QED BY <1>1, <1>2, <1>3

\* A record goes to the channel's end, or is dropped when the channel is full.
LEMMA SendKeepsAudit ==
  ASSUME Audit!AuditTrailAssumption, AuditInv, NEW q \in Recorded, Audit!Send(q)
  PROVE  AuditInv'
<1>. USE AuditConstants DEF AuditInv
<1>1. /\ stage[q] = "handling" /\ stage' = [stage EXCEPT ![q] = "done"]
      /\ UNCHANGED <<writing, age, cleaner, jumped, logFaults>>
  BY DEF Audit!Send
<1>2. CASE ~Audit!HasRoom
  <2>1. fate' = [fate EXCEPT ![q] = "dropped"] /\ UNCHANGED <<channel, order>>
    BY <1>2 DEF Audit!Send
  <2>2. Audit!TypeOK'
    BY <1>1, <2>1 DEF Audit!TypeOK, Audit!Fates
  <2>3. Audit!OnePlace'
    BY <1>1, <2>1, NotYetSent DEF Audit!OnePlace, Audit!TypeOK
  <2>4. Queue'
    BY <1>1, <2>1, NotYetSent DEF Queue, Received, Audit!TypeOK
  <2>. QED BY <1>1, <2>2, <2>3, <2>4
<1>3. CASE Audit!HasRoom
  <2>1. channel' = Append(channel, q) /\ order' = Append(order, q) /\ fate' = [fate EXCEPT ![q] = "queued"]
    BY <1>3 DEF Audit!Send
  <2>2. channel \in Seq(Recorded) /\ order \in Seq(Recorded) /\ Len(channel) < Buffer
    BY <1>3 DEF Audit!TypeOK, Audit!HasRoom
  <2>3. /\ channel' \in Seq(Recorded) /\ order' \in Seq(Recorded)
        /\ Len(channel') = Len(channel) + 1 /\ Len(order') = Len(order) + 1
        /\ Len(channel) \in Nat /\ Len(order) \in Nat
        /\ DOMAIN channel = 1..Len(channel) /\ DOMAIN channel' = 1..Len(channel')
        /\ channel'[Len(channel')] = q /\ \A i \in 1..Len(channel) : channel'[i] = channel[i]
        /\ order'[Len(order')] = q /\ \A i \in 1..Len(order) : order'[i] = order[i]
    BY <2>1, <2>2, Appended
  <2>4. Audit!TypeOK'
    BY <1>1, <2>1, <2>2, <2>3 DEF Audit!TypeOK, Audit!Fates
  <2>5. /\ \A i \in 1..Len(channel') : IF i = Len(channel') THEN channel'[i] = q
                                       ELSE i \in 1..Len(channel) /\ channel'[i] = channel[i]
        /\ \A i \in 1..Len(order') : IF i = Len(order') THEN order'[i] = q
                                     ELSE i \in 1..Len(order) /\ order'[i] = order[i]
    BY <2>1, <2>2, Appended
  <2>6. \A i \in 1..Len(order) : i \in 1..Len(order') /\ order'[i] = order[i]
    BY <2>1, <2>2, Appended
  <2>7. Audit!OnePlace'
    <3>1. stage[q] # "done"
      BY <1>1
    <3>2. fate[q] = "none" /\ \A i \in 1..Len(channel) : channel[i] # q
      BY <3>1, NotYetSent
    <3>3. \A w \in Writers : writing[w] # q
      BY <3>1, NotYetSent
    <3>4. \A i, j \in DOMAIN channel' : channel'[i] = channel'[j] => i = j
      BY <2>3, <2>5, <3>2 DEF Audit!OnePlace
    <3>5. \A w \in Writers : \A i \in DOMAIN channel' : channel'[i] # writing[w]
      BY <2>3, <2>5, <3>3 DEF Audit!OnePlace
    <3>6. \A p \in Recorded : (\E i \in DOMAIN channel' : channel'[i] = p) <=> p = q \/ \E i \in DOMAIN channel : channel[i] = p
      <4>1. Len(channel') \in DOMAIN channel' /\ \A i \in DOMAIN channel : i \in DOMAIN channel'
        BY <2>3
      <4>. QED BY <2>3, <2>5, <4>1
    <3>7. \A p \in Recorded :
            /\ fate'[p] = "queued" <=> (\E w \in Writers : writing[w] = p) \/ (\E i \in DOMAIN channel' : channel'[i] = p)
            /\ fate'[p] = "stored" <=> age[p] # Audit!NoRow
            /\ fate'[p] # "none" => stage'[p] = "done"
      <4>1. /\ fate'[q] = "queued" /\ stage'[q] = "done" /\ age[q] = Audit!NoRow
            /\ \A p \in Recorded \ {q} : fate'[p] = fate[p] /\ stage'[p] = stage[p]
        BY <1>1, <2>1, <3>2 DEF Audit!OnePlace, Audit!TypeOK
      <4>2. fate'[q] = "queued" <=> (\E w \in Writers : writing[w] = q) \/ (\E i \in DOMAIN channel' : channel'[i] = q)
        BY <3>6, <4>1
      <4>3. \A p \in Recorded \ {q} :
              fate'[p] = "queued" <=> (\E w \in Writers : writing[w] = p) \/ (\E i \in DOMAIN channel' : channel'[i] = p)
        BY <3>6, <4>1 DEF Audit!OnePlace
      <4>4. \A p \in Recorded : (fate'[p] = "stored" <=> age[p] # Audit!NoRow) /\ (fate'[p] # "none" => stage'[p] = "done")
        BY <4>1 DEF Audit!OnePlace
      <4>. QED BY <4>2, <4>3, <4>4
    <3>. QED BY <1>1, <3>4, <3>5, <3>7 DEF Audit!OnePlace
  <2>8. Queue'
    <3>1. \A i \in 1..Len(order) : order[i] # q
      BY <1>1, NotYetSent
    <3>2. Received' = Received /\ Received \in 0..Len(order)
      BY <2>3 DEF Received, Queue
    <3>3. \A i, j \in 1..Len(order') : order'[i] = order'[j] => i = j
      <4>. SUFFICES ASSUME NEW i \in 1..Len(order'), NEW j \in 1..Len(order'), order'[i] = order'[j]
                    PROVE  i = j
        OBVIOUS
      <4>1. i # Len(order') => i \in 1..Len(order) /\ order'[i] = order[i]
        BY <2>5
      <4>2. j # Len(order') => j \in 1..Len(order) /\ order'[j] = order[j]
        BY <2>5
      <4>. QED BY <2>3, <3>1, <4>1, <4>2 DEF Queue
    <3>4. \A i \in 1..Len(order') : stage'[order'[i]] = "done"
      BY <1>1, <2>2, <2>5 DEF Queue, Audit!TypeOK
    <3>5. \A i \in 1..Len(channel') : channel'[i] = order'[Received + i]
      <4>1. Received + Len(channel') = Len(order')
        BY <2>3 DEF Received
      <4>2. \A i \in 1..Len(channel) : Received + i \in 1..Len(order)
        BY <2>3, <3>2 DEF Received
      <4>. QED BY <2>3, <2>5, <4>1, <4>2 DEF Queue
    <3>6. \A w \in Writers : writing[w] # NoRecord => \E i \in 1..Received : order'[i] = writing[w]
      <4>1. \A i \in 1..Received : order'[i] = order[i]
        BY <2>3, <3>2
      <4>2. \A w \in Writers : writing[w] # NoRecord => \E i \in 1..Received : order[i] = writing[w]
        BY DEF Queue
      <4>. QED BY <4>1, <4>2
    <3>. QED BY <1>1, <2>3, <3>2, <3>3, <3>4, <3>5, <3>6 DEF Queue
  <2>. QED BY <1>1, <2>4, <2>7, <2>8
<1>. QED BY <1>2, <1>3

\* A writer takes the first record of the channel, the next of the order.
LEMMA ReceiveKeepsAudit ==
  ASSUME Audit!AuditTrailAssumption, AuditInv, NEW w \in Writers, Audit!Receive(w)
  PROVE  AuditInv'
<1>. USE AuditConstants DEF AuditInv
<1>1. /\ writing[w] = NoRecord /\ channel # <<>>
      /\ writing' = [writing EXCEPT ![w] = Head(channel)] /\ channel' = Tail(channel)
      /\ UNCHANGED <<stage, age, cleaner, fate, order, jumped, logFaults>>
  BY DEF Audit!Receive, Audit!NextTask
<1>2. /\ channel \in Seq(Recorded) /\ channel' \in Seq(Recorded) /\ Len(channel) \in Nat \ {0}
      /\ Len(channel') = Len(channel) - 1 /\ Len(order) \in Nat
      /\ DOMAIN channel = 1..Len(channel) /\ DOMAIN channel' = 1..Len(channel')
      /\ Head(channel) = channel[1] /\ Head(channel) \in Recorded
      /\ \A i \in 1..Len(channel') : channel'[i] = channel[i + 1]
  BY <1>1 DEF Audit!TypeOK
<1>3. Audit!TypeOK'
  BY <1>1, <1>2 DEF Audit!TypeOK
<1>4. /\ 1 \in DOMAIN channel
      /\ \A i \in DOMAIN channel' : i + 1 \in DOMAIN channel /\ i + 1 # 1 /\ channel'[i] = channel[i + 1]
      /\ \A i \in DOMAIN channel \ {1} : i - 1 \in DOMAIN channel' /\ channel'[i - 1] = channel[i]
  BY <1>2
<1>5. Audit!OnePlace'
  <2>1. \A i, j \in DOMAIN channel' : channel'[i] = channel'[j] => i = j
    <3>. SUFFICES ASSUME NEW i \in DOMAIN channel', NEW j \in DOMAIN channel', channel'[i] = channel'[j]
                  PROVE  i = j
      OBVIOUS
    <3>0. i \in Nat /\ j \in Nat
      BY <1>2
    <3>1. channel[i + 1] = channel[j + 1] /\ i + 1 \in DOMAIN channel /\ j + 1 \in DOMAIN channel
      BY <1>4
    <3>2. i + 1 = j + 1
      BY <3>1 DEF Audit!OnePlace
    <3>. QED BY <3>0, <3>2
  <2>2. \A u, v \in Writers : writing'[u] = writing'[v] => u = v \/ writing'[u] = NoRecord
    BY <1>1, <1>2, <1>4 DEF Audit!OnePlace, Audit!TypeOK
  <2>3. \A v \in Writers : \A i \in DOMAIN channel' : channel'[i] # writing'[v]
    <3>1. \A i \in DOMAIN channel' : channel'[i] # Head(channel)
      BY <1>2, <1>4 DEF Audit!OnePlace
    <3>. QED BY <1>1, <1>4, <3>1 DEF Audit!OnePlace, Audit!TypeOK
  <2>4. \A p \in Recorded :
          ((\E v \in Writers : writing[v] = p) \/ (\E i \in DOMAIN channel : channel[i] = p))
          <=> ((\E v \in Writers : writing'[v] = p) \/ (\E i \in DOMAIN channel' : channel'[i] = p))
    <3>. SUFFICES ASSUME NEW p \in Recorded
                  PROVE  ((\E v \in Writers : writing[v] = p) \/ (\E i \in DOMAIN channel : channel[i] = p))
                         <=> ((\E v \in Writers : writing'[v] = p) \/ (\E i \in DOMAIN channel' : channel'[i] = p))
      OBVIOUS
    <3>1. writing'[w] = Head(channel) /\ \A v \in Writers \ {w} : writing'[v] = writing[v]
      BY <1>1 DEF Audit!TypeOK
    <3>2. ASSUME NEW v \in Writers, writing[v] = p PROVE writing'[v] = p
      BY <1>1, <3>1, <3>2
    <3>3. ASSUME NEW i \in DOMAIN channel, channel[i] = p
          PROVE  writing'[w] = p \/ (\E j \in DOMAIN channel' : channel'[j] = p)
      BY <1>2, <1>4, <3>1, <3>3
    <3>4. ASSUME NEW v \in Writers, writing'[v] = p
          PROVE  writing[v] = p \/ channel[1] = p
      BY <1>2, <3>1, <3>4
    <3>. QED BY <1>4, <3>2, <3>3, <3>4
  <2>. QED BY <1>1, <2>1, <2>2, <2>3, <2>4 DEF Audit!OnePlace
<1>6. Queue'
  <2>1. Received' = Received + 1 /\ Received \in Nat
    BY <1>1, <1>2 DEF Received, Queue
  <2>2. channel[1] = order[Received + 1]
    BY <1>4, <1>2 DEF Queue
  <2>3. \A i \in 1..Len(channel') : channel'[i] = order[Received' + i]
    <3>1. \A i \in 1..Len(channel') : i + 1 \in 1..Len(channel) /\ Received + (i + 1) = Received' + i
      BY <1>2, <2>1
    <3>. QED BY <1>2, <3>1 DEF Queue
  <2>4. \A v \in Writers : writing'[v] # NoRecord => \E i \in 1..Received' : order[i] = writing'[v]
    <3>1. writing'[w] = Head(channel) /\ \A v \in Writers \ {w} : writing'[v] = writing[v]
      BY <1>1 DEF Audit!TypeOK
    <3>2. Received + 1 \in 1..Received' /\ \A i \in 1..Received : i \in 1..Received'
      BY <2>1
    <3>. QED BY <1>2, <2>2, <3>1, <3>2 DEF Queue
  <2>. QED BY <1>1, <1>2, <2>3, <2>4 DEF Queue
<1>. QED BY <1>1, <1>3, <1>5, <1>6

\* A record that a writer is done with, written or given up.
LEMMA WrittenKeepsAudit ==
  ASSUME Audit!AuditTrailAssumption, AuditInv, NEW w \in Writers, Audit!Store(w) \/ Audit!StoreFails(w)
  PROVE  AuditInv'
<1>. USE AuditConstants DEF AuditInv
<1>. DEFINE q == writing[w]
            n == Audit!Cardinality(Audit!Overtaken(q))
<1>1. /\ q # NoRecord /\ UNCHANGED <<stage, channel, cleaner, order>>
      /\ writing' = [writing EXCEPT ![w] = NoRecord]
      /\ \/ /\ age' = [age EXCEPT ![q] = 0] /\ fate' = [fate EXCEPT ![q] = "stored"] /\ UNCHANGED logFaults
            /\ jumped' = IF n > jumped THEN n ELSE jumped
         \/ UNCHANGED <<age, jumped>> /\ fate' = [fate EXCEPT ![q] = "failed"] /\ Audit!Fault
  BY DEF Audit!Store, Audit!StoreFails
<1>2. n \in Nat /\ n < Cardinality(Writers)
  BY <1>1, OvertakesTheOthers
<1>3. q \in Recorded /\ fate[q] = "queued" /\ stage[q] = "done" /\ age[q] = Audit!NoRow
  BY <1>1 DEF Audit!TypeOK, Audit!OnePlace
<1>4. /\ \A v \in Writers \ {w} : writing[v] # q /\ writing'[v] = writing[v]
      /\ \A i \in DOMAIN channel : channel[i] # q
      /\ writing'[w] = NoRecord
  BY <1>1 DEF Audit!TypeOK, Audit!OnePlace
<1>. HIDE DEF q, n
<1>5. Audit!TypeOK' /\ jumped' < Cardinality(Writers)
  <2>1. jumped' \in Nat /\ jumped' < Cardinality(Writers)
    BY <1>1, <1>2 DEF Audit!TypeOK
  <2>2. fate' \in [Recorded -> Audit!Fates] /\ age' \in [Recorded -> {Audit!NoRow} \cup 0..Audit!MaxAge]
    BY <1>1, <1>3 DEF Audit!TypeOK, Audit!Fates
  <2>3. writing' \in [Writers -> Recorded \cup {NoRecord}]
    BY <1>1 DEF Audit!TypeOK
  <2>. QED BY <1>1, <2>1, <2>2, <2>3, AuditFaultCounts DEF Audit!TypeOK
<1>6. Audit!OnePlace'
  <2>1. \A u, v \in Writers : writing'[u] = writing'[v] => u = v \/ writing'[u] = NoRecord
    BY <1>4 DEF Audit!OnePlace
  <2>2. \A v \in Writers : \A i \in DOMAIN channel : channel[i] # writing'[v]
    BY <1>4 DEF Audit!OnePlace, Audit!TypeOK
  <2>3. \A p \in Recorded \ {q} : (\E v \in Writers : writing'[v] = p) <=> (\E v \in Writers : writing[v] = p)
    BY <1>4 DEF q
  <2>4. ~(\E v \in Writers : writing'[v] = q)
    BY <1>3, <1>4
  <2>5. \A p \in Recorded \ {q} : fate'[p] = fate[p] /\ age'[p] = age[p]
    BY <1>1, <1>3 DEF Audit!TypeOK
  <2>6. fate'[q] # "queued" /\ (fate'[q] = "stored" <=> age'[q] # Audit!NoRow)
    BY <1>1, <1>3 DEF Audit!TypeOK
  <2>. QED BY <1>1, <1>3, <1>4, <2>1, <2>2, <2>3, <2>4, <2>5, <2>6 DEF Audit!OnePlace
<1>7. Queue'
  BY <1>1, <1>4 DEF Queue, Received
<1>. QED BY <1>5, <1>6, <1>7

\* Rows that are deleted.
LEMMA DeleteKeepsAudit ==
  ASSUME Audit!AuditTrailAssumption, AuditInv, NEW gone, \A q \in gone : q \in Recorded /\ age[q] # Audit!NoRow,
         Audit!DeleteRows(gone), UNCHANGED <<stage, channel, writing, order, jumped, logFaults>>,
         cleaner' \in {"waiting", "ticking", "due"}
  PROVE  AuditInv'
<1>. USE AuditConstants DEF AuditInv, Audit!DeleteRows
<1>1. Audit!TypeOK'
  BY DEF Audit!TypeOK, Audit!Fates
<1>2. Audit!OnePlace'
  BY DEF Audit!OnePlace
<1>3. Queue'
  BY DEF Queue, Received
<1>. QED BY <1>1, <1>2, <1>3

LEMMA NightsKeepAudit ==
  ASSUME Audit!AuditTrailAssumption, AuditInv,
         Audit!Night \/ Audit!CleanerStep \/ \E days \in 0..RetentionDays : Audit!CleanLogs(days)
  PROVE  AuditInv'
<1>. USE AuditConstants DEF AuditInv
<1>0. \A n \in Nat : \A q \in Audit!OlderThan(n) : q \in Recorded /\ age[q] # Audit!NoRow
  BY DEF Audit!OlderThan
<1>1. CASE Audit!Night
  <2>1. UNCHANGED <<stage, channel, writing, fate, order, jumped, logFaults>> /\ cleaner' \in {"waiting", "ticking", "due"}
    BY <1>1 DEF Audit!Night, Audit!AtNight, Audit!TypeOK
  <2>2. /\ age' \in [Recorded -> {Audit!NoRow} \cup 0..Audit!MaxAge]
        /\ \A q \in Recorded : age'[q] # Audit!NoRow <=> age[q] # Audit!NoRow
    BY <1>1 DEF Audit!Night, Audit!TypeOK
  <2>3. Audit!TypeOK'
    BY <2>1, <2>2 DEF Audit!TypeOK
  <2>4. Audit!OnePlace'
    BY <2>1, <2>2 DEF Audit!OnePlace
  <2>5. Queue'
    BY <2>1 DEF Queue, Received
  <2>. QED BY <2>1, <2>3, <2>4, <2>5
<1>2. CASE Audit!CleanUp
  BY <1>0, <1>2, DeleteKeepsAudit DEF Audit!CleanUp
<1>3. CASE Audit!CleanUpFails
  <2>1. Audit!TypeOK'
    BY <1>3, AuditFaultCounts DEF Audit!CleanUpFails, Audit!TypeOK
  <2>. QED BY <1>3, <2>1 DEF Audit!CleanUpFails, Audit!OnePlace, Queue, Received
<1>4. ASSUME NEW days \in 0..RetentionDays, Audit!CleanLogs(days) PROVE AuditInv'
  <2>. DEFINE limit == IF days <= 0 THEN RetentionDays ELSE days
  <2>1. limit \in Nat /\ limit - 1 \in Nat
    OBVIOUS
  <2>2. PICK more \in SUBSET (Audit!OlderThan(limit - 1) \ Audit!OlderThan(limit)) :
          /\ Audit!DeleteRows(Audit!OlderThan(limit) \cup more)
          /\ UNCHANGED <<stage, channel, writing, cleaner, order, jumped, logFaults>>
    BY <1>4 DEF Audit!CleanLogs
  <2>. HIDE DEF limit
  <2>3. \A q \in Audit!OlderThan(limit) \cup more : q \in Recorded /\ age[q] # Audit!NoRow
    BY <1>0, <2>1, <2>2
  <2>. QED BY <2>2, <2>3, DeleteKeepsAudit DEF Audit!TypeOK
<1>. QED BY <1>1, <1>2, <1>3, <1>4 DEF Audit!CleanerStep

\* The process stops: nothing is on its way any more.
LEMMA RestartKeepsAudit ==
  ASSUME Audit!AuditTrailAssumption, AuditInv, Audit!Restart
  PROVE  AuditInv'
<1>. USE AuditConstants DEF AuditInv
<1>1. PICK done \in SUBSET ({writing[w] : w \in Writers} \ {NoRecord}) :
        /\ age' = [q \in Recorded |-> IF q \in done THEN 0 ELSE age[q]]
        /\ fate' = [q \in Recorded |->
                      IF q \in done THEN "stored"
                      ELSE IF fate[q] = "queued" \/ stage[q] = "handling" THEN "lost"
                      ELSE fate[q]]
  BY DEF Audit!Restart
<1>2. /\ stage' = [q \in Recorded |-> IF stage[q] = "handling" THEN "done" ELSE stage[q]]
      /\ channel' = <<>> /\ writing' = [w \in Writers |-> NoRecord] /\ cleaner' = "waiting"
      /\ UNCHANGED <<order, jumped>> /\ Audit!Fault
  BY DEF Audit!Restart
<1>3. channel' \in Seq(Recorded) /\ Len(channel') = 0 /\ DOMAIN channel' = {}
  BY <1>2
<1>4. \A q \in done : q \in Recorded /\ fate[q] = "queued" /\ stage[q] = "done"
  BY <1>1 DEF Audit!TypeOK, Audit!OnePlace
<1>5. Audit!TypeOK'
  <2>1. fate' \in [Recorded -> Audit!Fates]
    BY <1>1 DEF Audit!TypeOK, Audit!Fates
  <2>2. age' \in [Recorded -> {Audit!NoRow} \cup 0..Audit!MaxAge]
    BY <1>1 DEF Audit!TypeOK
  <2>3. stage' \in [Recorded -> {"new", "handling", "done"}] /\ writing' \in [Writers -> Recorded \cup {NoRecord}]
    BY <1>2 DEF Audit!TypeOK
  <2>4. Len(channel') <= Buffer /\ logFaults' \in 0..MaxLogFaults
    BY <1>2, <1>3, AuditFaultCounts
  <2>. QED BY <1>2, <1>3, <2>1, <2>2, <2>3, <2>4 DEF Audit!TypeOK
<1>6. Audit!OnePlace'
  <2>1. \A q \in Recorded : stage[q] = "handling" => age[q] = Audit!NoRow
    BY NotYetSent
  <2>2. \A q \in Recorded : fate'[q] # "queued" /\ (fate'[q] = "stored" <=> age'[q] # Audit!NoRow)
    BY <1>1, <2>1 DEF Audit!OnePlace
  <2>3. \A q \in Recorded : fate'[q] # "none" => stage'[q] = "done"
    BY <1>1, <1>2, <1>4 DEF Audit!OnePlace
  <2>. QED BY <1>2, <1>3, <2>2, <2>3 DEF Audit!OnePlace
<1>7. Queue'
  <2>1. \A i \in 1..Len(order) : order[i] \in Recorded
    BY DEF Audit!TypeOK
  <2>. QED BY <1>2, <1>3, <2>1 DEF Queue, Received, Audit!TypeOK
<1>. QED BY <1>2, <1>5, <1>6, <1>7

LEMMA AuditInvStep ==
  ASSUME Audit!AuditTrailAssumption, AuditInv, [Audit!Next]_(Audit!vars)
  PROVE  AuditInv'
<1>1. ASSUME NEW q \in Recorded, Audit!RequestStep(q) PROVE AuditInv'
  BY <1>1, RequestsKeepAudit, SendKeepsAudit DEF Audit!RequestStep
<1>2. ASSUME NEW w \in Writers, Audit!WriterStep(w) PROVE AuditInv'
  BY <1>2, ReceiveKeepsAudit, WrittenKeepsAudit DEF Audit!WriterStep
<1>3. CASE UNCHANGED Audit!vars
  BY <1>3 DEF Audit!vars, AuditInv, Audit!TypeOK, Audit!OnePlace, Queue, Received
<1>. QED BY <1>1, <1>2, <1>3, NightsKeepAudit, RestartKeepsAudit DEF Audit!Next

LEMMA AuditInvInit ==
  ASSUME Audit!AuditTrailAssumption, Audit!Init
  PROVE  AuditInv
<1>. USE AuditConstants DEF Audit!Init
<1>1. channel \in Seq(Recorded) /\ Len(channel) = 0 /\ order \in Seq(Recorded) /\ Len(order) = 0 /\ DOMAIN channel = {}
  OBVIOUS
<1>2. Audit!TypeOK
  BY <1>1 DEF Audit!TypeOK, Audit!Fates
<1>3. Audit!OnePlace /\ Queue
  BY <1>1 DEF Audit!OnePlace, Queue, Received
<1>. QED BY <1>1, <1>2, <1>3 DEF AuditInv

\* AuditMiddleware's channel and its workers: a row of the audit log overtakes at most one
\* earlier record for each other worker, whatever the channel drops, whichever inserts
\* fail and whenever the server restarts.
THEOREM BoundedOvertakingAlways == Audit!Spec => []BoundedOvertaking
<1>. USE OperationsAssumption
<1>1. Audit!Init => AuditInv
  BY AuditInvInit
<1>2. AuditInv /\ [Audit!Next]_(Audit!vars) => AuditInv'
  BY AuditInvStep
<1>3. AuditInv => BoundedOvertaking
  BY SameCardinality DEF AuditInv, BoundedOvertaking, Audit!BoundedOvertaking
<1>. QED BY <1>1, <1>2, <1>3, PTL DEF Audit!Spec

-----------------------------------------------------------------------------
(* The sync worker                                                          *)

\* The clients of c that are open, but for those that were given up half-made.
Mine(c) == {k \in open \ stray : k[1] = c}

\* A client in the pool or with a goroutine is one of that cluster's.
Keys ==
  \A c \in Clusters :
    /\ pool[c] # NoClient => pool[c][1] = c
    /\ got[c] # NoClient => got[c][1] = c
    /\ pool[c] \notin stray /\ got[c] \notin stray

\* Until Stop, by the step of c's goroutine.
Owned(c) ==
  stopping = "no" =>
    /\ Mine(c) \subseteq {pool[c], got[c]}
    /\ spc[c] \in {"idle", "load"} => got[c] = NoClient
    /\ spc[c] = "create" => got[c] = NoClient /\ pool[c] = NoClient
    /\ spc[c] \in {"test", "topics", "acls", "closeStale", "remove"} => got[c] = pool[c] /\ got[c] \in open
    /\ spc[c] = "deleteStale" => got[c] = pool[c] /\ got[c] \notin open
    /\ spc[c] = "store" => pool[c] = NoClient /\ got[c] \in open
    /\ spc[c] = "closeRemoved" => pool[c] = NoClient
    /\ spc[c] # "deleteStale" => pool[c] = NoClient \/ pool[c] \in open

\* Since Stop, of a cluster that no synchronisation is about.
Left(c) ==
  stopping # "no" /\ c \notin late =>
    /\ spc[c] = "idle" /\ Mine(c) \subseteq {pool[c]}
    /\ c \notin visit => Mine(c) = {}

\* Range visits a key once.
Walk ==
  /\ deleting \cap visit = {}
  /\ stopping = "no" => deleting = {}
  /\ stopping \in {"waiting", "stopped"} => visit = {}

\* No goroutine outlives its round, and a round begins one for each cluster.
Rounds ==
  /\ runner # "launching" => \A c \in Clusters : spc[c] = "idle"
  /\ runner = "launching" => \A c \in todo : spc[c] = "idle"

WorkerInv == Worker!TypeOK /\ Keys /\ Walk /\ Rounds /\ \A c \in Clusters : Owned(c) /\ Left(c)

-----------------------------------------------------------------------------
LEMMA WorkerConstants ==
  ASSUME Worker!SyncWorkerAssumption
  PROVE  /\ NoClient \notin Worker!Clients /\ MaxRetries \in Nat \ {0} /\ MaxWorkerFaults \in Nat
         /\ \A k \in Worker!Clients : k[1] \in Clusters
  BY DEF Worker!SyncWorkerAssumption, Worker!Clients

LEMMA WorkerFaultCounts ==
  ASSUME Worker!SyncWorkerAssumption, Worker!TypeOK, Worker!Fault \/ UNCHANGED workerFaults
  PROVE  workerFaults' \in 0..MaxWorkerFaults
  BY WorkerConstants DEF Worker!TypeOK, Worker!Fault

\* A new client is of its cluster and nobody has it.
LEMMA FreshIsNew ==
  ASSUME NEW c \in Clusters, Worker!Unused(c) # {}
  PROVE  /\ Worker!Fresh(c) \in Worker!Clients /\ Worker!Fresh(c)[1] = c /\ Worker!Fresh(c) \notin open
         /\ \A d \in Clusters : pool[d] # Worker!Fresh(c) /\ got[d] # Worker!Fresh(c)
<1>1. Worker!Fresh(c) \in Worker!Unused(c)
  BY DEF Worker!Fresh
<1>. HIDE DEF Worker!Fresh
<1>. QED BY <1>1 DEF Worker!Unused

\* A failed attempt begins anew without a client, or ends the cluster's turn.
LEMMA RetryTypes ==
  ASSUME Worker!SyncWorkerAssumption, WorkerInv, NEW c \in Clusters, Worker!Retry(c)
  PROVE  /\ tries' \in [Clusters -> 0..(MaxRetries - 1)] /\ spc' \in [Clusters -> Worker!Steps]
         /\ got' = [got EXCEPT ![c] = NoClient]
         /\ spc'[c] \in {"idle", "load"} /\ \A d \in Clusters \ {c} : spc'[d] = spc[d]
<1>. DEFINE n == IF Worker!LastTry(c) THEN 0 ELSE tries[c] + 1
<1>1. n \in 0..(MaxRetries - 1)
  BY WorkerConstants DEF WorkerInv, Worker!TypeOK, Worker!LastTry
<1>2. tries' = [tries EXCEPT ![c] = n]
  BY DEF Worker!Retry
<1>. HIDE DEF n
<1>3. tries' \in [Clusters -> 0..(MaxRetries - 1)]
  BY <1>1, <1>2 DEF WorkerInv, Worker!TypeOK
<1>. QED BY <1>3 DEF WorkerInv, Worker!TypeOK, Worker!Retry, Worker!Go, Worker!Hold, Worker!Steps

\* What one goroutine does, seen from the other clusters and from Stop.
Alone(c) ==
  /\ UNCHANGED <<Worker!runVars, Worker!stopVars, late>>
  /\ \A d \in Clusters \ {c} : UNCHANGED <<spc[d], got[d], pool[d]>>
  /\ \A k \in Worker!Clients : k[1] # c => (k \in open' <=> k \in open) /\ (k \in stray' <=> k \in stray)

\* A step about one cluster disturbs the clients of no other.
LEMMA ElsewhereOwned ==
  ASSUME Worker!SyncWorkerAssumption, WorkerInv, NEW c \in Clusters, Alone(c), open' \subseteq Worker!Clients,
         NEW d \in Clusters \ {c}
  PROVE  Owned(d)' /\ Left(d)'
<1>1. Mine(d)' = Mine(d)
  BY DEF Mine, Alone, WorkerInv, Worker!TypeOK
<1>2. pool[d] \in Worker!Clients \cup {NoClient} /\ got[d] \in Worker!Clients \cup {NoClient}
      /\ NoClient \notin open /\ NoClient \notin open'
  BY WorkerConstants DEF WorkerInv, Worker!TypeOK
<1>3. (pool[d] \in open' <=> pool[d] \in open) /\ (got[d] \in open' <=> got[d] \in open)
  BY <1>2 DEF WorkerInv, Keys, Alone
<1>4. Owned(d) /\ Left(d)
  BY DEF WorkerInv
<1>5. UNCHANGED <<stopping, visit, late, spc[d], got[d], pool[d]>>
  BY DEF Alone, Worker!stopVars
<1>6. Owned(d)'
  BY <1>1, <1>3, <1>4, <1>5 DEF Owned
<1>7. Left(d)'
  BY <1>1, <1>4, <1>5 DEF Left
<1>. QED BY <1>6, <1>7

\* A step of c's goroutine that keeps the types, the keys and the others keeps the
\* invariant if c is owned after it.
LEMMA GoroutineStep ==
  ASSUME Worker!SyncWorkerAssumption, WorkerInv, NEW c \in Clusters, spc[c] # "idle",
         Worker!TypeOK', Keys', Alone(c), Owned(c)'
  PROVE  WorkerInv'
<1>1. \A d \in Clusters \ {c} : Owned(d)' /\ Left(d)'
  BY ElsewhereOwned DEF Worker!TypeOK
<1>2. Left(c)'
  BY DEF WorkerInv, Left, Alone, Worker!stopVars
<1>3. Walk'
  BY DEF WorkerInv, Walk, Alone, Worker!stopVars
<1>4. Rounds'
  BY DEF WorkerInv, Rounds, Alone, Worker!runVars, Worker!TypeOK
<1>. QED BY <1>1, <1>2, <1>3, <1>4 DEF WorkerInv

\* An attempt that failed before it had a client.
LEMMA FindFailsStep ==
  ASSUME Worker!SyncWorkerAssumption, WorkerInv, NEW c \in Clusters, Worker!FindFails(c)
  PROVE  WorkerInv'
<1>. USE DEF WorkerInv, Worker!FindFails, Worker!runVars, Worker!poolVars, Worker!stopVars
<1>1. workerFaults' \in 0..MaxWorkerFaults
  BY WorkerFaultCounts
<1>2. Worker!TypeOK'
  BY <1>1, RetryTypes DEF Worker!TypeOK, Worker!Steps
<1>3. Keys' /\ Alone(c)
  BY <1>2, RetryTypes, WorkerConstants DEF Keys, Alone, Worker!TypeOK
<1>4. Owned(c)'
  BY RetryTypes DEF Owned, Mine, Worker!TypeOK
<1>. QED BY <1>2, <1>3, <1>4, GoroutineStep

\* Steps that leave the clients where they are.
LEMMA QuietStep ==
  ASSUME Worker!SyncWorkerAssumption, WorkerInv, NEW c \in Clusters,
         Worker!TestClient(c) \/ Worker!Topics(c) \/ Worker!WorkFails(c)
  PROVE  WorkerInv'
<1>. USE DEF WorkerInv, Worker!runVars, Worker!poolVars, Worker!stopVars, Worker!Go
<1>1. /\ spc' = [spc EXCEPT ![c] = spc'[c]] /\ spc'[c] \in {"topics", "closeStale", "acls", "remove"}
      /\ spc[c] \in {"test", "topics", "acls"}
      /\ UNCHANGED <<runner, todo, tries, got, pool, open, sound, stray, cleanup, stopping, visit, deleting, late>>
      /\ Worker!Fault \/ UNCHANGED workerFaults
  BY DEF Worker!TestClient, Worker!Topics, Worker!WorkFails, Worker!TypeOK
<1>2. Worker!TypeOK'
  BY <1>1, WorkerFaultCounts DEF Worker!TypeOK, Worker!Steps
<1>3. Keys' /\ Alone(c)
  BY <1>1 DEF Keys, Alone, Worker!TypeOK
<1>4. Owned(c)'
  BY <1>1 DEF Owned, Mine, Worker!TypeOK
<1>. QED BY <1>1, <1>2, <1>3, <1>4, GoroutineStep

LEMMA LoadStep ==
  ASSUME Worker!SyncWorkerAssumption, WorkerInv, NEW c \in Clusters, Worker!Load(c) \/ Worker!Acls(c)
  PROVE  WorkerInv'
<1>. USE DEF WorkerInv, Worker!Load, Worker!Acls, Worker!runVars, Worker!poolVars, Worker!stopVars,
             Worker!Go, Worker!Hold
<1>1. Worker!TypeOK'
  BY WorkerConstants DEF Worker!TypeOK, Worker!Steps
<1>2. Keys'
  BY WorkerConstants DEF Keys, Worker!TypeOK
<1>3. Alone(c)
  BY DEF Alone, Worker!TypeOK
<1>4. Owned(c)'
  BY WorkerConstants DEF Owned, Mine, Worker!TypeOK
<1>. QED BY <1>1, <1>2, <1>3, <1>4, GoroutineStep

LEMMA CloseStep ==
  ASSUME Worker!SyncWorkerAssumption, WorkerInv, NEW c \in Clusters, Worker!CloseStale(c)
  PROVE  WorkerInv'
<1>. USE DEF WorkerInv, Worker!CloseStale, Worker!Discarded, Worker!runVars, Worker!stopVars, Worker!Go
<1>1. got[c] \notin stray /\ (got[c] \in Worker!Clients => got[c][1] = c)
  BY WorkerConstants DEF Keys
<1>2. Worker!TypeOK'
  BY <1>1 DEF Worker!TypeOK, Worker!Steps
<1>3. Keys' /\ Alone(c)
  BY <1>1 DEF Keys, Alone, Worker!TypeOK
<1>4. Owned(c)'
  BY <1>1 DEF Owned, Mine, Worker!TypeOK
<1>. QED BY <1>2, <1>3, <1>4, GoroutineStep

\* The steps that write the pool.
LEMMA PoolStep ==
  ASSUME Worker!SyncWorkerAssumption, WorkerInv, NEW c \in Clusters,
         Worker!DeleteStale(c) \/ Worker!Store(c) \/ Worker!RemoveClient(c)
  PROVE  WorkerInv'
<1>. USE DEF WorkerInv, Worker!DeleteStale, Worker!Store, Worker!RemoveClient,
             Worker!runVars, Worker!stopVars, Worker!Go, Worker!Hold
<1>1. Worker!TypeOK'
  BY WorkerConstants DEF Worker!TypeOK, Worker!Steps
<1>2. Keys'
  BY WorkerConstants DEF Keys, Worker!TypeOK
<1>3. Alone(c)
  BY DEF Alone, Worker!TypeOK
<1>4. Owned(c)'
  BY WorkerConstants DEF Owned, Mine, Worker!TypeOK
<1>. QED BY <1>1, <1>2, <1>3, <1>4, GoroutineStep

LEMMA CreateClientStep ==
  ASSUME Worker!SyncWorkerAssumption, WorkerInv, NEW c \in Clusters, Worker!Create(c)
  PROVE  WorkerInv'
<1>. DEFINE k == Worker!Fresh(c)
<1>1. k \in Worker!Clients /\ k[1] = c /\ k \notin open /\ \A d \in Clusters : pool[d] # k /\ got[d] # k
  BY FreshIsNew DEF Worker!Create
<1>2. /\ spc[c] = "create" /\ open' = open \cup {k} /\ sound' = sound \cup {k}
      /\ got' = [got EXCEPT ![c] = k] /\ spc' = [spc EXCEPT ![c] = "store"]
      /\ UNCHANGED <<runner, todo, tries, pool, stray, cleanup, stopping, visit, deleting, late, workerFaults>>
  BY DEF Worker!Create, Worker!runVars, Worker!stopVars, Worker!Go, Worker!Hold
<1>. HIDE DEF k
<1>. USE DEF WorkerInv
<1>3. Worker!TypeOK'
  BY <1>1, <1>2 DEF Worker!TypeOK, Worker!Steps
<1>4. Keys' /\ Alone(c)
  BY <1>1, <1>2 DEF Keys, Alone, Worker!TypeOK, Worker!runVars, Worker!stopVars
<1>5. Owned(c)'
  BY <1>1, <1>2 DEF Owned, Mine, Worker!TypeOK
<1>. QED BY <1>2, <1>3, <1>4, <1>5, GoroutineStep

LEMMA CreateFailsStep ==
  ASSUME Worker!SyncWorkerAssumption, WorkerInv, NEW c \in Clusters, Worker!CreateFails(c)
  PROVE  WorkerInv'
<1>. DEFINE k == Worker!Fresh(c)
<1>1. k \in Worker!Clients /\ k[1] = c /\ k \notin open /\ \A d \in Clusters : pool[d] # k /\ got[d] # k
  BY FreshIsNew DEF Worker!CreateFails
<1>2. /\ spc[c] = "create" /\ Worker!Fault /\ Worker!Retry(c)
      /\ \/ open' = open /\ stray' = stray
         \/ open' = open \cup {k} /\ stray' = stray \cup {k}
      /\ UNCHANGED <<runner, todo, pool, sound, cleanup, stopping, visit, deleting, late>>
  BY DEF Worker!CreateFails, Worker!runVars, Worker!stopVars
<1>. HIDE DEF k
<1>. USE DEF WorkerInv
<1>3. Worker!TypeOK'
  BY <1>1, <1>2, RetryTypes, WorkerFaultCounts DEF Worker!TypeOK, Worker!Steps
<1>4. Keys' /\ Alone(c)
  BY <1>1, <1>2, RetryTypes, WorkerConstants DEF Keys, Alone, Worker!TypeOK, Worker!runVars, Worker!stopVars
<1>5. Owned(c)'
  BY <1>1, <1>2, RetryTypes DEF Owned, Mine, Worker!TypeOK
<1>. QED BY <1>2, <1>3, <1>4, <1>5, GoroutineStep

\* A removed client is closed by the goroutine that removed it.
LEMMA CloseRemovedStep ==
  ASSUME Worker!SyncWorkerAssumption, WorkerInv, NEW c \in Clusters, Worker!CloseRemoved(c)
  PROVE  WorkerInv'
<1>. USE DEF WorkerInv, Worker!CloseRemoved, Worker!Close, Worker!runVars, Worker!stopVars
<1>1. got[c] \notin stray /\ (got[c] \in Worker!Clients => got[c][1] = c)
  BY WorkerConstants DEF Keys
<1>2. Worker!TypeOK'
  BY <1>1, RetryTypes DEF Worker!TypeOK, Worker!Steps
<1>3. Keys' /\ Alone(c)
  BY <1>1, <1>2, RetryTypes, WorkerConstants DEF Keys, Alone, Worker!TypeOK
<1>4. Owned(c)'
  BY <1>1, RetryTypes DEF Owned, Mine, Worker!TypeOK
<1>. QED BY <1>2, <1>3, <1>4, GoroutineStep

\* The round, and what breaks connections: no cluster is given up that was not late.
LEMMA RoundStep ==
  ASSUME Worker!SyncWorkerAssumption, WorkerInv,
         \/ Worker!List \/ Worker!RoundEnds \/ Worker!NextRound \/ Worker!RunnerEnds \/ Worker!CleanupEnds
         \/ \E k \in Worker!Clients : Worker!Break(k)
  PROVE  WorkerInv'
<1>. USE DEF WorkerInv
<1>1. /\ UNCHANGED <<spc, tries, got, pool, open, stray, stopping, visit, deleting, late>>
      /\ runner' \in {"round", "launching", "waiting", "ended"} /\ todo' \in SUBSET Clusters
      /\ cleanup' \in {"waiting", "ended"} /\ sound' \subseteq sound
      /\ Worker!Fault \/ UNCHANGED workerFaults
  BY DEF Worker!TypeOK, Worker!List, Worker!RoundEnds, Worker!NextRound, Worker!RunnerEnds, Worker!CleanupEnds,
         Worker!Break, Worker!syncVars, Worker!poolVars, Worker!stopVars, Worker!runVars
<1>2. Worker!TypeOK'
  BY <1>1, WorkerFaultCounts DEF Worker!TypeOK, Worker!Steps
<1>3. Keys' /\ Walk' /\ \A c \in Clusters : Owned(c)' /\ Left(c)'
  BY <1>1 DEF Keys, Walk, Owned, Left, Mine
<1>4. Rounds'
  BY <1>1 DEF Rounds, Worker!List, Worker!RoundEnds, Worker!NextRound, Worker!RunnerEnds, Worker!CleanupEnds,
         Worker!Break, Worker!Busy, Worker!runVars, Worker!TypeOK
<1>. QED BY <1>2, <1>3, <1>4

\* A round begins a cluster's goroutine once.
LEMMA LaunchStep ==
  ASSUME Worker!SyncWorkerAssumption, WorkerInv, NEW c \in Clusters, Worker!Launch(c)
  PROVE  WorkerInv'
<1>. USE DEF WorkerInv
<1>1. /\ UNCHANGED <<runner, tries, got, pool, open, sound, stray, cleanup, stopping, visit, deleting, workerFaults>>
      /\ runner = "launching" /\ spc[c] = "idle" /\ todo' = todo \ {c} /\ spc' = [spc EXCEPT ![c] = "load"]
      /\ late' = IF stopping = "no" THEN late ELSE late \cup {c}
  BY DEF Worker!Launch, Rounds, Worker!poolVars, Worker!stopVars
<1>2. Worker!TypeOK'
  BY <1>1 DEF Worker!TypeOK, Worker!Steps
<1>3. Keys' /\ Walk' /\ Rounds'
  BY <1>1 DEF Keys, Walk, Rounds, Worker!TypeOK
<1>4. \A d \in Clusters : Owned(d)' /\ Left(d)'
  BY <1>1 DEF Owned, Left, Mine, Worker!TypeOK
<1>. QED BY <1>2, <1>3, <1>4

LEMMA BeginStopStep ==
  ASSUME Worker!SyncWorkerAssumption, WorkerInv, Worker!BeginStop
  PROVE  WorkerInv'
<1>. USE DEF WorkerInv, Worker!BeginStop, Worker!runVars, Worker!syncVars, Worker!poolVars
<1>1. Worker!TypeOK'
  BY DEF Worker!TypeOK, Worker!Busy
<1>2. Keys' /\ Walk' /\ Rounds'
  BY DEF Keys, Walk, Rounds
<1>3. \A c \in Clusters : Left(c)'
  BY WorkerConstants DEF Left, Owned, Mine, Worker!Busy, Worker!TypeOK
<1>4. \A c \in Clusters : Owned(c)'
  BY DEF Owned
<1>. QED BY <1>1, <1>2, <1>3, <1>4

\* Stop closes each client it visits, then deletes it.
LEMMA VisitStep ==
  ASSUME Worker!SyncWorkerAssumption, WorkerInv, NEW c \in Clusters,
         Worker!VisitClose(c) \/ Worker!VisitDelete(c)
  PROVE  WorkerInv'
<1>. USE DEF WorkerInv, Worker!runVars, Worker!syncVars
<1>1. stopping # "no"
  BY DEF Worker!VisitClose, Worker!VisitDelete, Walk
<1>2. CASE Worker!VisitClose(c)
  <2>1. /\ stopping = "emptying" /\ deleting = {} /\ visit' = visit \ {c}
        /\ UNCHANGED <<runner, todo, spc, tries, got, pool, stray, cleanup, stopping, late, workerFaults>>
        /\ IF pool[c] = NoClient THEN UNCHANGED <<open, sound, deleting>>
           ELSE open' = open \ {pool[c]} /\ sound' = sound \ {pool[c]} /\ deleting' = {c}
    BY <1>2 DEF Worker!VisitClose, Worker!Rest, Worker!Close
  <2>2. pool[c] \notin stray /\ (pool[c] # NoClient => pool[c][1] = c) /\ NoClient \notin open
    BY WorkerConstants DEF Keys, Worker!TypeOK
  <2>3. Worker!TypeOK'
    BY <2>1, <2>2 DEF Worker!TypeOK, Worker!Steps
  <2>4. Keys' /\ Walk' /\ Rounds'
    BY <2>1 DEF Keys, Walk, Rounds
  <2>5. \A d \in Clusters : Mine(d)' \subseteq Mine(d)
    BY <2>1 DEF Mine
  <2>6. pool[c] \notin open'
    BY <2>1, <2>2
  <2>7. \A d \in Clusters : Left(d)'
    BY <2>1, <2>5, <2>6 DEF Left, Mine
  <2>. QED BY <1>1, <2>1, <2>3, <2>4, <2>7 DEF Owned
<1>3. CASE Worker!VisitDelete(c)
  <2>1. /\ c \in deleting /\ deleting' = {} /\ pool' = [pool EXCEPT ![c] = NoClient]
        /\ UNCHANGED <<runner, todo, spc, tries, got, open, sound, stray, cleanup, stopping, visit, late, workerFaults>>
    BY <1>3 DEF Worker!VisitDelete
  <2>2. Worker!TypeOK'
    BY <2>1 DEF Worker!TypeOK, Worker!Steps
  <2>3. Keys' /\ Walk' /\ Rounds'
    BY <2>1, WorkerConstants DEF Keys, Walk, Rounds, Worker!TypeOK
  <2>4. c \notin visit
    BY <2>1 DEF Walk
  <2>5. \A d \in Clusters : Left(d)'
    BY <1>1, <2>1, <2>4 DEF Left, Mine, Worker!TypeOK
  <2>. QED BY <1>1, <2>1, <2>2, <2>3, <2>5 DEF Owned
<1>. QED BY <1>2, <1>3

LEMMA SignalStep ==
  ASSUME Worker!SyncWorkerAssumption, WorkerInv, Worker!Signal \/ Worker!Stopped
  PROVE  WorkerInv'
<1>. USE DEF WorkerInv, Worker!Signal, Worker!Stopped, Worker!runVars, Worker!syncVars, Worker!poolVars
<1>1. Worker!TypeOK'
  BY DEF Worker!TypeOK
<1>2. Keys' /\ Walk' /\ Rounds'
  BY DEF Keys, Walk, Rounds
<1>3. \A c \in Clusters : Owned(c)' /\ Left(c)'
  BY DEF Owned, Left, Mine
<1>. QED BY <1>1, <1>2, <1>3

LEMMA WorkerInvStep ==
  ASSUME Worker!SyncWorkerAssumption, WorkerInv, [Worker!Next]_(Worker!workerVars)
  PROVE  WorkerInv'
<1>1. ASSUME NEW c \in Clusters, Worker!SyncStep(c) PROVE WorkerInv'
  BY <1>1, FindFailsStep, QuietStep, LoadStep, CloseStep, PoolStep, CreateClientStep, CreateFailsStep,
     CloseRemovedStep DEF Worker!SyncStep
<1>2. CASE UNCHANGED Worker!workerVars
  <2>. USE DEF Worker!workerVars, Worker!runVars, Worker!syncVars, Worker!poolVars, Worker!stopVars, WorkerInv
  <2>1. Worker!TypeOK'
    BY <1>2 DEF Worker!TypeOK, Worker!Steps
  <2>2. Keys' /\ Walk' /\ Rounds' /\ \A c \in Clusters : Owned(c)' /\ Left(c)'
    BY <1>2 DEF Keys, Walk, Rounds, Owned, Left, Mine
  <2>. QED BY <2>1, <2>2
<1>3. Worker!RunnerStep => WorkerInv'
  BY RoundStep, LaunchStep DEF Worker!RunnerStep
<1>4. Worker!StopStep => WorkerInv'
  BY SignalStep, VisitStep DEF Worker!StopStep
<1>. QED BY <1>1, <1>2, <1>3, <1>4, RoundStep, BeginStopStep DEF Worker!Next

LEMMA WorkerInvInit ==
  ASSUME Worker!SyncWorkerAssumption, Worker!Init
  PROVE  WorkerInv
<1>. USE WorkerConstants DEF Worker!Init
<1>1. Worker!TypeOK
  BY DEF Worker!TypeOK, Worker!Steps
<1>2. Keys /\ Walk /\ Rounds /\ \A c \in Clusters : Owned(c) /\ Left(c)
  BY DEF Keys, Walk, Rounds, Owned, Left, Mine
<1>. QED BY <1>1, <1>2 DEF WorkerInv

\* A client that the worker has open: in the pool, with its goroutine, half-made, or left
\* by a Stop that overlapped a synchronisation.
LEMMA OwnedIsOwned ==
  ASSUME Worker!SyncWorkerAssumption, WorkerInv
  PROVE  ClientsAreOwned
<1>1. ASSUME stopping = "no"
      PROVE  /\ \A c \in Clusters : spc[c] \in {"topics", "acls"} => got[c] \in open
             /\ \A k \in open \ stray : pool[k[1]] = k \/ got[k[1]] = k
  <2>1. \A c \in Clusters : Mine(c) \subseteq {pool[c], got[c]} /\ (spc[c] \in {"topics", "acls"} => got[c] \in open)
    BY <1>1 DEF WorkerInv, Owned
  <2>2. \A k \in open \ stray : k[1] \in Clusters /\ k \in Mine(k[1])
    BY WorkerConstants DEF WorkerInv, Worker!TypeOK, Mine
  <2>. QED BY <2>1, <2>2
<1>2. ASSUME stopping = "stopped", NEW k \in open \ stray PROVE k[1] \in late
  <2>1. k[1] \in Clusters /\ k \in Mine(k[1]) /\ visit = {}
    BY <1>2, WorkerConstants DEF WorkerInv, Worker!TypeOK, Mine, Walk
  <2>. QED BY <1>2, <2>1 DEF WorkerInv, Left
<1>. QED BY <1>1, <1>2 DEF ClientsAreOwned, Worker!ClientsAreOwned

\* getAdminClient, RemoveAdminClient and Stop, whose steps on the pool nothing holds
\* together: no client is left open and forgotten, and nobody works with a closed one.
THEOREM ClientsAreOwnedAlways == Worker!Spec => []ClientsAreOwned
<1>. USE OperationsAssumption
<1>1. Worker!Init => WorkerInv
  BY WorkerInvInit
<1>2. WorkerInv /\ [Worker!Next]_(Worker!workerVars) => WorkerInv'
  BY WorkerInvStep
<1>3. WorkerInv => ClientsAreOwned
  BY OwnedIsOwned
<1>. QED BY <1>1, <1>2, <1>3, PTL DEF Worker!Spec

-----------------------------------------------------------------------------
(* The health of the clusters                                               *)

\* An entry of a cache says "error" only of clusters for which it has a cause.
EntryOK(e) == \A c \in Watched : e.health[c] = "error" => c \in e.doubt

\* The queries of r have returned what VM knows of c, unless that changed meanwhile.
Steady(r, c) ==
  /\ ~Health!Short(c)
  /\ result[r]["current"] # None => result[r]["current"][c] \in {None, sample[c]}
  /\ result[r]["peak"] # None => result[r]["peak"][c] \in {None, most[c]}

\* A request at each of its steps.
Grounded(r) ==
  /\ hpc[r] # "query" => \A q \in Health!Queries : result[r][q] = None
  /\ hpc[r] = "query" => \A c \in Watched : c \notin doubt[r] => Steady(r, c)
  /\ hpc[r] = "probe" =>
       /\ r \in Lists
       /\ \A c \in Scope(r) : answer[r][c] # None /\ c \in toProbe[r] \cup reached[r] \cup doubt[r]
       /\ \A c \in Watched : answer[r][c] = "unknown" => c \in Scope(r)
       /\ \A c \in Watched : answer[r][c] # "assumed"
  /\ hpc[r] = "done" /\ r \in Lists => \A c \in Scope(r) : answer[r][c] \in {"healthy", "error"}
  /\ hpc[r] \in {"probe", "done"} => \A c \in Watched : answer[r][c] = "error" => c \in doubt[r]

HealthInv ==
  /\ Health!TypeOK
  /\ cache # None => EntryOK(cache)
  /\ \A r \in Overviews : page[r] # None => EntryOK(page[r])
  /\ \A r \in Health!Requests : Grounded(r)

-----------------------------------------------------------------------------
LEMMA HealthConstants ==
  ASSUME Health!HealthAssumption
  PROVE  /\ None \notin Nat /\ None \notin {"healthy", "error", "unknown", "assumed"}
         /\ Lists \cap Overviews = {} /\ \A r \in Health!Requests : Scope(r) \subseteq Watched
         /\ MaxBrokers \in Nat /\ MaxChanges \in Nat /\ MaxHealthFaults \in Nat
         /\ Health!Counts = 0..MaxBrokers /\ 0 \in Health!Counts
         /\ Health!Requests = Lists \cup Overviews
  BY DEF Health!HealthAssumption, Health!Requests, Health!Counts

LEMMA HealthCounts ==
  ASSUME Health!HealthAssumption, Health!TypeOK
  PROVE  /\ Health!Change \/ UNCHANGED changes => changes' \in 0..MaxChanges
         /\ Health!Fault \/ UNCHANGED faults => faults' \in 0..MaxHealthFaults
  BY HealthConstants DEF Health!TypeOK, Health!Change, Health!Fault

\* A step that is about no request: clusters, samples, and what the collector reads.
Outside ==
  /\ UNCHANGED <<cache, page, hpc, result, reached, toProbe, answer>>
  /\ \A r \in Health!Requests : doubt[r] \subseteq doubt'[r]
  /\ \A r \in Health!Requests, c \in Watched :
       hpc[r] = "query" /\ c \notin doubt'[r] => UNCHANGED <<sample[c], most[c]>>

\* What happens outside the requests keeps the invariant, once it has cast its doubt.
LEMMA OutsideKeepsHealth ==
  ASSUME HealthInv, Outside, Health!TypeOK'
  PROVE  HealthInv'
<1>. USE DEF HealthInv, Outside
<1>1. (cache' # None => EntryOK(cache)') /\ \A r \in Overviews : page'[r] # None => EntryOK(page[r])'
  BY DEF EntryOK
<1>2. ASSUME NEW r \in Health!Requests PROVE Grounded(r)'
  <2>1. Grounded(r) /\ doubt[r] \subseteq doubt'[r]
    OBVIOUS
  <2>2. ASSUME hpc[r] = "query", NEW c \in Watched, c \notin doubt'[r] PROVE Steady(r, c)'
    <3>1. Steady(r, c) /\ UNCHANGED <<sample[c], most[c]>>
      BY <2>1, <2>2 DEF Grounded
    <3>. QED BY <3>1 DEF Steady, Health!Short
  <2>. QED BY <2>1, <2>2 DEF Grounded
<1>. QED BY <1>1, <1>2

\* The requests whose queries are under way learn of a change of c's samples.
LEMMA StirTells ==
  ASSUME Health!HealthAssumption, HealthInv, NEW c \in Watched, Health!Stir(c),
         UNCHANGED <<cache, page, hpc, result, reached, toProbe, answer>>,
         \A d \in Watched \ {c} : UNCHANGED <<sample[d], most[d]>>
  PROVE  Outside /\ doubt' \in [Health!Requests -> SUBSET Watched]
  BY DEF HealthInv, Health!TypeOK, Health!Stir, Outside

\* A change of the brokers or of a window gives every open request its doubt.
LEMMA WindowsKeepHealth ==
  ASSUME Health!HealthAssumption, HealthInv, NEW c \in Watched,
         \/ \E n \in Health!Counts : Health!BrokersChange(c, n)
         \/ Health!LookBackPasses(c) \/ Health!WeekPasses(c)
  PROVE  HealthInv'
<1>. USE HealthConstants DEF HealthInv, Health!requestVars, Health!vmVars
<1>1. changes' \in 0..MaxChanges
  BY HealthCounts DEF Health!BrokersChange, Health!LookBackPasses, Health!WeekPasses
<1>2. CASE \E n \in Health!Counts : Health!BrokersChange(c, n)
  <2>1. Health!TypeOK' /\ Outside
    BY <1>1, <1>2 DEF Health!BrokersChange, Health!TypeOK, Outside
  <2>. QED BY <2>1, OutsideKeepsHealth
<1>3. CASE Health!LookBackPasses(c)
  <2>1. Outside /\ doubt' \in [Health!Requests -> SUBSET Watched]
    BY <1>3, StirTells DEF Health!LookBackPasses, Health!TypeOK
  <2>2. Health!TypeOK'
    BY <1>1, <1>3, <2>1 DEF Health!LookBackPasses, Health!TypeOK
  <2>. QED BY <2>1, <2>2, OutsideKeepsHealth
<1>4. CASE Health!WeekPasses(c)
  <2>1. Outside /\ doubt' \in [Health!Requests -> SUBSET Watched]
    BY <1>4, StirTells DEF Health!WeekPasses, Health!TypeOK
  <2>2. Health!TypeOK'
    BY <1>1, <1>4, <2>1 DEF Health!WeekPasses, Health!TypeOK
  <2>. QED BY <2>1, <2>2, OutsideKeepsHealth
<1>. QED BY <1>2, <1>3, <1>4

LEMMA CollectorKeepsHealth ==
  ASSUME Health!HealthAssumption, HealthInv, NEW c \in Watched, Health!CollectStep(c)
  PROVE  HealthInv'
<1>. USE HealthConstants DEF HealthInv, Health!requestVars, Health!vmVars
<1>1. CASE Health!Write(c)
  <2>1. seen[c] \in Health!Counts
    BY <1>1 DEF Health!Write, Health!TypeOK
  <2>2. sample' \in [Watched -> Health!Counts \cup {None}] /\ \A d \in Watched \ {c} : sample'[d] = sample[d]
    BY <1>1, <2>1 DEF Health!Write, Health!TypeOK
  <2>3. most' \in [Watched -> Health!Counts \cup {None}] /\ \A d \in Watched \ {c} : most'[d] = most[d]
    BY <1>1, <2>1 DEF Health!Write, Health!TypeOK
  <2>4. UNCHANGED <<alive, cache, page, hpc, result, reached, toProbe, answer, changes, faults>>
    BY <1>1 DEF Health!Write
  <2>5. seen' \in [Watched -> Health!Counts \cup {None}]
    BY <1>1 DEF Health!Write, Health!TypeOK
  <2>6. Outside /\ doubt' \in [Health!Requests -> SUBSET Watched]
    <3>1. CASE <<sample, most>>' = <<sample, most>>
      BY <1>1, <2>4, <3>1 DEF Health!Write, Outside, Health!TypeOK
    <3>2. CASE <<sample, most>>' # <<sample, most>>
      BY <1>1, <2>2, <2>3, <2>4, <3>2, StirTells DEF Health!Write
    <3>. QED BY <3>1, <3>2
  <2>7. Health!TypeOK'
    BY <2>2, <2>3, <2>4, <2>5, <2>6 DEF Health!TypeOK
  <2>. QED BY <2>6, <2>7, OutsideKeepsHealth
<1>2. CASE (\E n \in Health!Counts : Health!Read(c, n)) \/ Health!WriteFails(c)
  <2>1. faults' \in 0..MaxHealthFaults
    BY <1>2, HealthCounts DEF Health!Read, Health!WriteFails
  <2>2. Health!TypeOK' /\ Outside
    BY <1>2, <2>1 DEF Health!Read, Health!WriteFails, Health!TypeOK, Outside
  <2>. QED BY <2>2, OutsideKeepsHealth
<1>. QED BY <1>1, <1>2 DEF Health!CollectStep

-----------------------------------------------------------------------------
\* A step of r as the other requests see it.
Own(r) ==
  /\ UNCHANGED <<alive, sample, most, seen, changes>>
  /\ \A s \in Health!Requests \ {r} :
       UNCHANGED <<hpc[s], result[s], reached[s], toProbe[s], answer[s], doubt[s]>>

\* A request's step need only be looked at for that request and what it stores.
LEMMA OwnKeepsHealth ==
  ASSUME HealthInv, NEW r \in Health!Requests, Own(r), Health!TypeOK', Grounded(r)',
         cache' # None => EntryOK(cache)', \A s \in Overviews : page'[s] # None => EntryOK(page[s])'
  PROVE  HealthInv'
<1>1. ASSUME NEW s \in Health!Requests \ {r} PROVE Grounded(s)'
  BY DEF HealthInv, Own, Grounded, Steady, Health!Short
<1>. QED BY <1>1 DEF HealthInv

\* What r shows after it goes on with an entry.
LEMMA GoOnAnswers ==
  ASSUME Health!HealthAssumption, HealthInv, NEW r \in Health!Requests,
         NEW health \in [Watched -> Health!Health], Health!GoOn(r, health)
  PROVE  /\ answer' \in [Health!Requests -> [Watched -> Health!Shown]]
         /\ \A s \in Health!Requests \ {r} : UNCHANGED <<answer[s], hpc[s], toProbe[s]>>
         /\ \A c \in Watched : answer'[r][c] = "error" => health[c] = "error"
         /\ \A c \in Watched : answer'[r][c] = "unknown" => c \in Scope(r)
         /\ \A c \in Scope(r) : answer'[r][c] # None
         /\ r \in Lists => \A c \in Watched : answer'[r][c] # "assumed"
         /\ hpc' \in [Health!Requests -> {"idle", "query", "probe", "done"}]
         /\ toProbe' \in [Health!Requests -> SUBSET Watched]
         /\ \/ hpc'[r] = "probe" /\ r \in Lists /\ toProbe'[r] = Scope(r)
            \/ hpc'[r] = "done" /\ (r \in Lists => \A c \in Scope(r) : answer'[r][c] \in {"healthy", "error"})
<1>. USE HealthConstants
<1>. DEFINE ids == Scope(r)
            unknown == {c \in ids : health[c] \in {None, "unknown"}}
            Guess(c) == IF r \in Overviews /\ c \in WithTopics THEN "assumed" ELSE "unknown"
            shown == [c \in Watched |-> IF c \notin ids THEN None ELSE IF c \in unknown THEN Guess(c) ELSE health[c]]
<1>1. /\ answer' = [answer EXCEPT ![r] = shown]
      /\ IF r \in Lists /\ unknown # {}
         THEN hpc' = [hpc EXCEPT ![r] = "probe"] /\ toProbe' = [toProbe EXCEPT ![r] = ids]
         ELSE hpc' = [hpc EXCEPT ![r] = "done"] /\ UNCHANGED toProbe
  BY DEF Health!GoOn
<1>2. shown \in [Watched -> Health!Shown]
  BY DEF Health!Shown, Health!Health
<1>3. ids \subseteq Watched /\ unknown \subseteq ids
  OBVIOUS
<1>4. /\ \A c \in Watched : shown[c] = "error" => health[c] = "error"
      /\ \A c \in Watched : shown[c] = "unknown" => c \in ids
      /\ \A c \in ids : shown[c] # None
      /\ unknown = {} => \A c \in ids : shown[c] \in {"healthy", "error"}
      /\ r \in Lists => \A c \in Watched : shown[c] # "assumed"
  <2>1. \A c \in ids : c \in Watched /\ shown[c] = IF c \in unknown THEN Guess(c) ELSE health[c]
    BY <1>3
  <2>2. \A c \in ids \ unknown : health[c] \in {"healthy", "error"}
    BY <1>3 DEF Health!Health
  <2>3. \A c \in Watched \ ids : shown[c] = None
    OBVIOUS
  <2>4. \A c \in Watched : shown[c] = "assumed" => c \in unknown /\ r \in Overviews
    BY <2>1, <2>2, <2>3
  <2>5. \A c \in Watched : shown[c] = "error" => c \in ids \ unknown
    BY <2>1, <2>3
  <2>. QED BY <2>1, <2>2, <2>3, <2>4, <2>5
<1>5. answer \in [Health!Requests -> [Watched -> Health!Shown]] /\ toProbe \in [Health!Requests -> SUBSET Watched]
      /\ hpc \in [Health!Requests -> {"idle", "query", "probe", "done"}]
  BY DEF HealthInv, Health!TypeOK
<1>. HIDE DEF shown, unknown, ids
<1>6. answer'[r] = shown /\ answer' \in [Health!Requests -> [Watched -> Health!Shown]]
      /\ \A s \in Health!Requests \ {r} : answer'[s] = answer[s]
  BY <1>1, <1>2, <1>5
<1>7. /\ hpc' \in [Health!Requests -> {"idle", "query", "probe", "done"}]
      /\ toProbe' \in [Health!Requests -> SUBSET Watched]
      /\ \A s \in Health!Requests \ {r} : UNCHANGED <<hpc[s], toProbe[s]>>
      /\ \/ hpc'[r] = "probe" /\ r \in Lists /\ toProbe'[r] = ids
         \/ hpc'[r] = "done" /\ (r \in Lists => unknown = {})
  BY <1>1, <1>3, <1>5
<1>. QED BY <1>4, <1>6, <1>7 DEF ids

\* Going on with an entry that has its causes, and keeping the page.
LEMMA GoOnGrounded ==
  ASSUME Health!HealthAssumption, HealthInv, NEW r \in Health!Requests,
         NEW health \in [Watched -> Health!Health], NEW why \in SUBSET Watched,
         \A c \in Watched : health[c] = "error" => c \in why,
         Health!GoOn(r, health), Health!Keep(r, why), doubt' = [doubt EXCEPT ![r] = why],
         reached' = reached, \A q \in Health!Queries : result'[r][q] = None
  PROVE  /\ Grounded(r)' /\ page' \in [Overviews -> Health!Pages \cup {None}]
         /\ \A s \in Overviews : page'[s] # None => EntryOK(page[s])'
<1>0. answer'[r] \in [Watched -> Health!Shown] /\ \A c \in Watched : answer'[r][c] = "error" => c \in why
  <2>1. /\ answer' \in [Health!Requests -> [Watched -> Health!Shown]]
        /\ \A c \in Watched : answer'[r][c] = "error" => health[c] = "error"
    BY GoOnAnswers
  <2>. QED BY <2>1
<1>. USE HealthConstants DEF HealthInv, Health!TypeOK
<1>1. doubt'[r] = why
  OBVIOUS
<1>2. Grounded(r)'
  <2>1. hpc'[r] \in {"probe", "done"} /\ \A c \in Watched : answer'[r][c] = "error" => c \in why
    BY GoOnAnswers
  <2>2. hpc'[r] = "probe" => /\ r \in Lists /\ toProbe'[r] = Scope(r)
                             /\ \A c \in Scope(r) : answer'[r][c] # None
                             /\ \A c \in Watched : answer'[r][c] = "unknown" => c \in Scope(r)
                             /\ \A c \in Watched : answer'[r][c] # "assumed"
    BY GoOnAnswers
  <2>3. hpc'[r] = "done" /\ r \in Lists => \A c \in Scope(r) : answer'[r][c] \in {"healthy", "error"}
    BY GoOnAnswers
  <2>. QED BY <1>1, <2>1, <2>2, <2>3 DEF Grounded
<1>3. CASE r \notin Overviews
  <2>1. page' = page
    BY <1>3 DEF Health!Keep
  <2>. QED BY <1>2, <2>1 DEF EntryOK
<1>4. CASE r \in Overviews
  <2>. DEFINE e == [health |-> answer'[r], doubt |-> why]
  <2>1. page' = [page EXCEPT ![r] = e]
    BY <1>4 DEF Health!Keep
  <2>2. answer'[r] \in [Watched -> Health!Shown] /\ \A c \in Watched : answer'[r][c] = "error" => c \in why
    BY <1>0
  <2>3. e \in Health!Pages /\ e.health = answer'[r] /\ e.doubt = why
    BY <2>2 DEF Health!Pages
  <2>. HIDE DEF e
  <2>4. page' \in [Overviews -> Health!Pages \cup {None}]
    BY <2>1, <2>3
  <2>5. ASSUME NEW s \in Overviews, page'[s] # None PROVE EntryOK(page[s])'
    <3>1. CASE s = r
      BY <1>4, <2>1, <2>2, <2>3, <3>1 DEF EntryOK
    <3>2. CASE s # r
      BY <2>1, <2>5, <3>2 DEF EntryOK
    <3>. QED BY <3>1, <3>2
  <2>. QED BY <1>2, <2>4, <2>5
<1>. QED BY <1>2, <1>3, <1>4

\* A cached entry brings its own causes along.
LEMMA HitKeepsHealth ==
  ASSUME Health!HealthAssumption, HealthInv, NEW r \in Health!Requests, Health!Hit(r)
  PROVE  HealthInv'
<1>. USE HealthConstants DEF HealthInv, Health!vmVars
<1>1. cache \in Health!Entries /\ EntryOK(cache)
  BY DEF Health!Hit, Health!TypeOK
<1>2. cache.health \in [Watched -> Health!Health] /\ cache.doubt \in SUBSET Watched
      /\ \A c \in Watched : cache.health[c] = "error" => c \in cache.doubt
  BY <1>1 DEF Health!Entries, EntryOK
<1>3. /\ Health!GoOn(r, cache.health) /\ Health!Keep(r, cache.doubt)
      /\ doubt' = [doubt EXCEPT ![r] = cache.doubt] /\ hpc[r] = "idle"
      /\ UNCHANGED <<alive, sample, most, seen, cache, result, reached, changes, faults>>
  BY DEF Health!Hit
<1>4. \A q \in Health!Queries : result'[r][q] = None
  BY <1>3 DEF Grounded
<1>5. Grounded(r)' /\ page' \in [Overviews -> Health!Pages \cup {None}]
      /\ \A s \in Overviews : page'[s] # None => EntryOK(page[s])'
  BY <1>2, <1>3, <1>4, GoOnGrounded
<1>6. Own(r)
  <2>1. doubt' \in [Health!Requests -> SUBSET Watched] /\ \A s \in Health!Requests \ {r} : doubt'[s] = doubt[s]
    BY <1>2, <1>3 DEF Health!TypeOK
  <2>2. \A s \in Health!Requests \ {r} : UNCHANGED <<answer[s], hpc[s], toProbe[s]>>
    BY <1>2, <1>3, GoOnAnswers
  <2>. QED BY <1>3, <2>1, <2>2 DEF Own
<1>7. Health!TypeOK'
  <2>1. doubt' \in [Health!Requests -> SUBSET Watched]
    BY <1>2, <1>3 DEF Health!TypeOK
  <2>2. /\ answer' \in [Health!Requests -> [Watched -> Health!Shown]]
        /\ hpc' \in [Health!Requests -> {"idle", "query", "probe", "done"}]
        /\ toProbe' \in [Health!Requests -> SUBSET Watched]
    BY <1>2, <1>3, GoOnAnswers
  <2>. QED BY <1>3, <1>5, <2>1, <2>2 DEF Health!TypeOK
<1>8. (cache' # None => EntryOK(cache)')
  BY <1>1, <1>3 DEF EntryOK
<1>. QED BY <1>5, <1>6, <1>7, <1>8, OwnKeepsHealth

\* What the queries returned is the cause of each "error".
LEMMA JudgeKeepsHealth ==
  ASSUME Health!HealthAssumption, HealthInv, NEW r \in Health!Requests, Health!Judge(r)
  PROVE  HealthInv'
<1>. USE HealthConstants DEF HealthInv, Health!vmVars
<1>. DEFINE Value(q, c) == IF result[r][q] = None THEN None ELSE result[r][q][c]
            health == [c \in Watched |->
              IF c \in Scope(r) THEN Health!Verdict(Value("current", c), Value("peak", c), Value("info", c)) ELSE None]
<1>1. /\ hpc[r] = "query" /\ cache' = [health |-> health, doubt |-> doubt[r]]
      /\ Health!GoOn(r, health) /\ Health!Keep(r, doubt[r])
      /\ result' = [result EXCEPT ![r] = Health!NoResult]
      /\ UNCHANGED <<alive, sample, most, seen, reached, doubt, changes, faults>>
  BY DEF Health!Judge
<1>2. health \in [Watched -> Health!Health]
  BY DEF Health!Verdict, Health!Health
<1>3. ASSUME NEW c \in Watched, health[c] = "error" PROVE c \in doubt[r]
  <2>. DEFINE current == Value("current", c)
              peak == Value("peak", c)
  <2>1. Health!Verdict(current, peak, Value("info", c)) = "error"
    BY <1>3
  <2>2. current # None /\ peak # None /\ current < peak
    BY <2>1 DEF Health!Verdict
  <2>3. /\ result[r]["current"] # None /\ current = result[r]["current"][c]
        /\ result[r]["peak"] # None /\ peak = result[r]["peak"][c]
    BY <2>2
  <2>. HIDE DEF current, peak
  <2>4. ASSUME Steady(r, c) PROVE FALSE
    <3>1. current = sample[c] /\ peak = most[c]
      BY <2>2, <2>3, <2>4 DEF Steady
    <3>. QED BY <2>2, <2>4, <3>1 DEF Steady, Health!Short
  <2>. QED BY <1>1, <2>4 DEF Grounded
<1>. HIDE DEF health
<1>4. doubt[r] \in SUBSET Watched /\ doubt' = [doubt EXCEPT ![r] = doubt[r]]
  BY <1>1 DEF Health!TypeOK
<1>5. result' \in [Health!Requests -> [Health!Queries -> {None} \cup [Watched -> Health!Counts \cup {1, None}]]]
      /\ \A q \in Health!Queries : result'[r][q] = None
      /\ \A s \in Health!Requests \ {r} : result'[s] = result[s]
  BY <1>1 DEF Health!TypeOK, Health!NoResult
<1>6. Grounded(r)' /\ page' \in [Overviews -> Health!Pages \cup {None}]
      /\ \A s \in Overviews : page'[s] # None => EntryOK(page[s])'
  BY <1>1, <1>2, <1>3, <1>4, <1>5, GoOnGrounded
<1>7. Own(r)
  BY <1>1, <1>2, <1>5, GoOnAnswers DEF Own
<1>8. cache' \in Health!Entries /\ EntryOK(cache)'
  BY <1>1, <1>2, <1>3, <1>4 DEF Health!Entries, EntryOK
<1>9. Health!TypeOK'
  <2>2. /\ answer' \in [Health!Requests -> [Watched -> Health!Shown]]
        /\ hpc' \in [Health!Requests -> {"idle", "query", "probe", "done"}]
        /\ toProbe' \in [Health!Requests -> SUBSET Watched]
    BY <1>1, <1>2, GoOnAnswers
  <2>. QED BY <1>1, <1>5, <1>6, <1>8, <2>2 DEF Health!TypeOK
<1>. QED BY <1>6, <1>7, <1>8, <1>9, OwnKeepsHealth

LEMMA MissKeepsHealth ==
  ASSUME Health!HealthAssumption, HealthInv, NEW r \in Health!Requests, Health!Miss(r)
  PROVE  HealthInv'
<1>. USE HealthConstants DEF HealthInv, Health!vmVars
<1>1. /\ hpc[r] = "idle" /\ hpc' = [hpc EXCEPT ![r] = "query"]
      /\ doubt' = [doubt EXCEPT ![r] = {c \in Watched : Health!Short(c)}]
      /\ UNCHANGED <<alive, sample, most, seen, cache, page, result, reached, toProbe, answer, changes, faults>>
  BY DEF Health!Miss
<1>2. Health!TypeOK'
  BY <1>1 DEF Health!TypeOK
<1>3. Own(r)
  BY <1>1 DEF Own, Health!TypeOK
<1>4. Grounded(r)'
  <2>1. \A q \in Health!Queries : result[r][q] = None
    BY <1>1 DEF Grounded
  <2>2. hpc'[r] = "query" /\ doubt'[r] = {c \in Watched : Health!Short(c)}
    BY <1>1 DEF Health!TypeOK
  <2>. QED BY <1>1, <2>1, <2>2 DEF Grounded, Steady, Health!Short, Health!Queries
<1>. QED BY <1>1, <1>2, <1>3, <1>4, OwnKeepsHealth DEF EntryOK

LEMMA PageHitKeepsHealth ==
  ASSUME Health!HealthAssumption, HealthInv, NEW r \in Health!Requests, Health!PageHit(r)
  PROVE  HealthInv'
<1>. USE HealthConstants DEF HealthInv, Health!vmVars
<1>1. /\ r \in Overviews /\ hpc[r] = "idle" /\ page[r] # None /\ hpc' = [hpc EXCEPT ![r] = "done"]
      /\ answer' = [answer EXCEPT ![r] = page[r].health] /\ doubt' = [doubt EXCEPT ![r] = page[r].doubt]
      /\ UNCHANGED <<alive, sample, most, seen, cache, page, result, reached, toProbe, changes, faults>>
  BY DEF Health!PageHit
<1>2. page[r].health \in [Watched -> Health!Shown] /\ page[r].doubt \in SUBSET Watched /\ EntryOK(page[r])
  BY <1>1 DEF Health!TypeOK, Health!Pages
<1>3. Health!TypeOK'
  BY <1>1, <1>2 DEF Health!TypeOK
<1>4. Own(r)
  BY <1>1 DEF Own, Health!TypeOK
<1>5. Grounded(r)'
  <2>1. hpc'[r] = "done" /\ answer'[r] = page[r].health /\ doubt'[r] = page[r].doubt /\ r \notin Lists
    BY <1>1 DEF Health!TypeOK
  <2>. QED BY <1>1, <1>2, <2>1 DEF Grounded, EntryOK
<1>. QED BY <1>1, <1>3, <1>4, <1>5, OwnKeepsHealth DEF EntryOK

LEMMA QueryKeepsHealth ==
  ASSUME Health!HealthAssumption, HealthInv, NEW r \in Health!Requests, NEW q \in Health!Queries,
         Health!Query(r, q)
  PROVE  HealthInv'
<1>. USE HealthConstants DEF HealthInv, Health!vmVars
<1>. DEFINE Some(f) == [c \in Watched |-> IF c \in Scope(r) THEN f[c] ELSE None]
<1>1. /\ hpc[r] = "query" /\ UNCHANGED <<alive, sample, most, seen, cache, page, hpc, reached, toProbe, answer, doubt, changes>>
      /\ \/ /\ CASE q = "current" -> result' = [result EXCEPT ![r][q] = Some(sample)]
                 [] q = "peak" -> result' = [result EXCEPT ![r][q] = Some(most)]
                 [] q = "info" -> \E gone \in SUBSET {c \in Watched : sample[c] = 0} :
                      result' = [result EXCEPT ![r][q] =
                        Some([c \in Watched |-> IF c \in gone \/ sample[c] = None THEN None ELSE 1])]
            /\ UNCHANGED faults
         \/ result' = [result EXCEPT ![r][q] = Health!NoAnswer] /\ Health!Fault
  BY DEF Health!Query
<1>2. PICK v \in [Watched -> Health!Counts \cup {1, None}] :
        /\ result' = [result EXCEPT ![r][q] = v]
        /\ q = "current" => \A c \in Watched : v[c] \in {None, sample[c]}
        /\ q = "peak" => \A c \in Watched : v[c] \in {None, most[c]}
  <2>1. CASE Health!Fault /\ result' = [result EXCEPT ![r][q] = Health!NoAnswer]
    <3>1. Health!NoAnswer \in [Watched -> Health!Counts \cup {1, None}] /\ \A c \in Watched : Health!NoAnswer[c] = None
      BY DEF Health!NoAnswer
    <3>. QED BY <2>1, <3>1
  <2>2. CASE q = "current" /\ result' = [result EXCEPT ![r][q] = Some(sample)]
    <3>1. Some(sample) \in [Watched -> Health!Counts \cup {1, None}] /\ \A c \in Watched : Some(sample)[c] \in {None, sample[c]}
      BY DEF Health!TypeOK
    <3>. QED BY <2>2, <3>1
  <2>3. CASE q = "peak" /\ result' = [result EXCEPT ![r][q] = Some(most)]
    <3>1. Some(most) \in [Watched -> Health!Counts \cup {1, None}] /\ \A c \in Watched : Some(most)[c] \in {None, most[c]}
      BY DEF Health!TypeOK
    <3>. QED BY <2>3, <3>1
  <2>4. ASSUME q = "info", NEW gone,
               result' = [result EXCEPT ![r][q] =
                 Some([c \in Watched |-> IF c \in gone \/ sample[c] = None THEN None ELSE 1])]
        PROVE  \E v \in [Watched -> Health!Counts \cup {1, None}] : result' = [result EXCEPT ![r][q] = v]
    <3>. DEFINE v == Some([c \in Watched |-> IF c \in gone \/ sample[c] = None THEN None ELSE 1])
    <3>1. v \in [Watched -> Health!Counts \cup {1, None}]
      OBVIOUS
    <3>. HIDE DEF v
    <3>. QED BY <2>4, <3>1 DEF v
  <2>5. CASE q = "info" /\ ~Health!Fault
    BY <1>1, <2>4, <2>5
  <2>. QED BY <1>1, <2>1, <2>2, <2>3, <2>4 DEF Health!Queries
<1>3. faults' \in 0..MaxHealthFaults
  BY <1>1, HealthCounts
<1>4. /\ result' \in [Health!Requests -> [Health!Queries -> {None} \cup [Watched -> Health!Counts \cup {1, None}]]]
      /\ \A s \in Health!Requests \ {r} : result'[s] = result[s]
      /\ result'[r][q] = v /\ \A p \in Health!Queries \ {q} : result'[r][p] = result[r][p]
  BY <1>2 DEF Health!TypeOK
<1>5. Health!TypeOK'
  BY <1>1, <1>3, <1>4 DEF Health!TypeOK
<1>6. Own(r)
  BY <1>1, <1>4 DEF Own
<1>7. Grounded(r)'
  <2>1. ASSUME NEW c \in Watched, c \notin doubt[r] PROVE Steady(r, c)'
    <3>1. Steady(r, c)
      BY <1>1, <2>1 DEF Grounded
    <3>2. "current" \in Health!Queries /\ "peak" \in Health!Queries
      BY DEF Health!Queries
    <3>. QED BY <1>1, <1>2, <1>4, <3>1, <3>2 DEF Steady, Health!Short
  <2>. QED BY <1>1, <2>1 DEF Grounded
<1>. QED BY <1>1, <1>5, <1>6, <1>7, OwnKeepsHealth DEF EntryOK

\* Asking the clusters.
LEMMA ProbeKeepsHealth ==
  ASSUME Health!HealthAssumption, HealthInv, NEW r \in Health!Requests, NEW c \in Watched, Health!Probe(r, c)
  PROVE  HealthInv'
<1>. USE HealthConstants DEF HealthInv, Health!vmVars
<1>1. /\ hpc[r] = "probe" /\ toProbe' = [toProbe EXCEPT ![r] = toProbe[r] \ {c}]
      /\ \/ reached' = [reached EXCEPT ![r] = reached[r] \cup {c}] /\ UNCHANGED <<faults, doubt>>
         \/ /\ doubt' = [doubt EXCEPT ![r] = doubt[r] \cup {c}] /\ UNCHANGED reached
            /\ Health!Fault \/ UNCHANGED faults
      /\ UNCHANGED <<alive, sample, most, seen, cache, page, hpc, result, answer, changes>>
  BY DEF Health!Probe
<1>2. faults' \in 0..MaxHealthFaults
  BY <1>1, HealthCounts DEF Health!TypeOK
<1>3. Health!TypeOK'
  <2>1. toProbe' \in [Health!Requests -> SUBSET Watched]
    BY <1>1 DEF Health!TypeOK
  <2>2. reached' \in [Health!Requests -> SUBSET Watched]
    <3>1. reached \in [Health!Requests -> SUBSET Watched]
          /\ (reached' = [reached EXCEPT ![r] = reached[r] \cup {c}] \/ reached' = reached)
      BY <1>1 DEF Health!TypeOK
    <3>. QED BY <3>1
  <2>3. doubt' \in [Health!Requests -> SUBSET Watched]
    <3>1. doubt \in [Health!Requests -> SUBSET Watched]
          /\ (doubt' = [doubt EXCEPT ![r] = doubt[r] \cup {c}] \/ doubt' = doubt)
      BY <1>1 DEF Health!TypeOK
    <3>. QED BY <3>1
  <2>. QED BY <1>1, <1>2, <2>1, <2>2, <2>3 DEF Health!TypeOK
<1>4. Own(r)
  BY <1>1 DEF Own, Health!TypeOK
<1>5. /\ toProbe[r] \subseteq toProbe'[r] \cup {c} /\ reached[r] \subseteq reached'[r] /\ doubt[r] \subseteq doubt'[r]
      /\ c \in reached'[r] \cup doubt'[r]
  BY <1>1 DEF Health!TypeOK
<1>6. Grounded(r)'
  <2>1. Grounded(r) /\ hpc'[r] = "probe"
    BY <1>1
  <2>. QED BY <1>1, <1>5, <2>1 DEF Grounded
<1>. QED BY <1>1, <1>3, <1>4, <1>6, OwnKeepsHealth DEF EntryOK

\* The list answers "error" of clusters that did not answer the probe.
LEMMA AnswerKeepsHealth ==
  ASSUME Health!HealthAssumption, HealthInv, NEW r \in Health!Requests, Health!Answer(r)
  PROVE  HealthInv'
<1>. USE HealthConstants DEF HealthInv, Health!vmVars
<1>. DEFINE shown == [c \in Watched |-> IF answer[r][c] = "unknown" THEN Health!Probed(r, c) ELSE answer[r][c]]
<1>1. /\ hpc[r] = "probe" /\ toProbe[r] = {} /\ answer' = [answer EXCEPT ![r] = shown]
      /\ hpc' = [hpc EXCEPT ![r] = "done"]
      /\ UNCHANGED <<alive, sample, most, seen, cache, page, result, reached, toProbe, doubt, changes, faults>>
  BY DEF Health!Answer
<1>2. /\ shown \in [Watched -> Health!Shown]
      /\ \A c \in Watched : shown[c] = IF answer[r][c] = "unknown" THEN Health!Probed(r, c) ELSE answer[r][c]
  BY DEF Health!TypeOK, Health!Probed, Health!Shown, Health!Health
<1>. HIDE DEF shown
<1>3. Health!TypeOK'
  BY <1>1, <1>2 DEF Health!TypeOK
<1>4. Own(r)
  BY <1>1 DEF Own, Health!TypeOK
<1>5. hpc'[r] = "done" /\ answer'[r] = shown
  BY <1>1 DEF Health!TypeOK
<1>6. Grounded(r)
  OBVIOUS
<1>7. \A c \in Watched : shown[c] = "error" => c \in doubt[r]
  BY <1>1, <1>2, <1>6 DEF Grounded, Health!Probed
<1>8. \A c \in Scope(r) : shown[c] \in {"healthy", "error"}
  <2>1. \A c \in Scope(r) : c \in Watched /\ answer[r][c] \in {"healthy", "error", "unknown"}
    BY <1>1, <1>6 DEF Grounded, Health!TypeOK, Health!Shown, Health!Health
  <2>. QED BY <1>2, <2>1 DEF Health!Probed
<1>9. Grounded(r)'
  BY <1>1, <1>5, <1>6, <1>7, <1>8 DEF Grounded
<1>. QED BY <1>1, <1>3, <1>4, <1>9, OwnKeepsHealth DEF EntryOK

LEMMA CloseKeepsHealth ==
  ASSUME Health!HealthAssumption, HealthInv, NEW r \in Health!Requests, Health!Close(r)
  PROVE  HealthInv'
<1>. USE HealthConstants DEF HealthInv, Health!vmVars
<1>1. /\ hpc[r] = "done" /\ hpc' = [hpc EXCEPT ![r] = "idle"] /\ reached' = [reached EXCEPT ![r] = {}]
      /\ answer' = [answer EXCEPT ![r] = Health!NoAnswer] /\ doubt' = [doubt EXCEPT ![r] = {}]
      /\ UNCHANGED <<alive, sample, most, seen, cache, page, result, toProbe, changes, faults>>
  BY DEF Health!Close
<1>2. Health!NoAnswer \in [Watched -> Health!Shown]
  BY DEF Health!NoAnswer, Health!Shown, Health!Health
<1>3. Health!TypeOK'
  BY <1>1, <1>2 DEF Health!TypeOK
<1>4. Own(r)
  BY <1>1 DEF Own, Health!TypeOK
<1>5. hpc'[r] = "idle" /\ Grounded(r)
  BY <1>1 DEF Health!TypeOK
<1>6. Grounded(r)'
  BY <1>1, <1>5 DEF Grounded
<1>. QED BY <1>1, <1>3, <1>4, <1>6, OwnKeepsHealth DEF EntryOK

LEMMA ExpiryKeepsHealth ==
  ASSUME Health!HealthAssumption, HealthInv,
         Health!CacheExpires \/ \E r \in Overviews : Health!PageExpires(r)
  PROVE  HealthInv'
<1>. USE HealthConstants DEF HealthInv, Health!vmVars, Health!requestVars
<1>1. /\ cache' \in {cache, None} /\ page' \in [Overviews -> Health!Pages \cup {None}]
      /\ \A r \in Overviews : page'[r] \in {page[r], None}
      /\ UNCHANGED <<alive, sample, most, seen, hpc, result, reached, toProbe, answer, doubt, changes, faults>>
  BY DEF Health!CacheExpires, Health!PageExpires, Health!TypeOK
<1>2. Health!TypeOK'
  BY <1>1 DEF Health!TypeOK
<1>3. \A r \in Health!Requests : Grounded(r)'
  BY <1>1 DEF Grounded, Steady, Health!Short
<1>4. (cache' # None => EntryOK(cache)') /\ \A r \in Overviews : page'[r] # None => EntryOK(page[r])'
  BY <1>1 DEF EntryOK
<1>. QED BY <1>2, <1>3, <1>4

LEMMA HealthInvStep ==
  ASSUME Health!HealthAssumption, HealthInv, [Health!Next]_(Health!healthVars)
  PROVE  HealthInv'
<1>1. ASSUME NEW c \in Watched,
             \/ \E n \in Health!Counts : Health!BrokersChange(c, n)
             \/ Health!LookBackPasses(c) \/ Health!WeekPasses(c) \/ Health!CollectStep(c)
      PROVE  HealthInv'
  BY <1>1, WindowsKeepHealth, CollectorKeepsHealth
<1>2. ASSUME NEW r \in Health!Requests, Health!Ask(r) PROVE HealthInv'
  BY <1>2, PageHitKeepsHealth, HitKeepsHealth, MissKeepsHealth DEF Health!Ask
<1>3. ASSUME NEW r \in Health!Requests, Health!RequestStep(r) PROVE HealthInv'
  BY <1>3, QueryKeepsHealth, ProbeKeepsHealth, JudgeKeepsHealth, AnswerKeepsHealth, CloseKeepsHealth
     DEF Health!RequestStep
<1>4. CASE UNCHANGED Health!healthVars
  <2>1. Health!TypeOK'
    BY <1>4 DEF Health!healthVars, HealthInv, Health!TypeOK
  <2>2. \A r \in Health!Requests : Grounded(r)'
    BY <1>4 DEF Health!healthVars, HealthInv, Grounded, Steady, Health!Short
  <2>. QED BY <1>4, <2>1, <2>2 DEF Health!healthVars, HealthInv, EntryOK
<1>. QED BY <1>1, <1>2, <1>3, <1>4, ExpiryKeepsHealth DEF Health!Next

LEMMA HealthInvInit ==
  ASSUME Health!HealthAssumption, Health!Init
  PROVE  HealthInv
<1>. USE HealthConstants DEF Health!Init
<1>1. /\ result \in [Health!Requests -> [Health!Queries -> {None} \cup [Watched -> Health!Counts \cup {1, None}]]]
      /\ \A r \in Health!Requests, q \in Health!Queries : result[r][q] = None
  BY DEF Health!NoResult
<1>2. answer \in [Health!Requests -> [Watched -> Health!Shown]]
  BY DEF Health!NoAnswer, Health!Shown, Health!Health
<1>3. Health!TypeOK
  BY <1>1, <1>2 DEF Health!TypeOK
<1>4. \A r \in Health!Requests : Grounded(r)
  BY <1>1 DEF Grounded
<1>. QED BY <1>3, <1>4 DEF HealthInv

\* GetClusterHealth, GetOverview and their shared entry: whoever filled it and whatever
\* changed between the queries, an answer "error" has its cause, and the list leaves no
\* cluster open.
THEOREM AnswersHaveCauseAlways == Health!Spec => []AnswersHaveCause
<1>. USE OperationsAssumption
<1>1. Health!Init => HealthInv
  BY HealthInvInit
<1>2. HealthInv /\ [Health!Next]_(Health!healthVars) => HealthInv'
  BY HealthInvStep
<1>3. HealthInv => AnswersHaveCause
  BY DEF HealthInv, Grounded, AnswersHaveCause, Health!AnswersHaveCause
<1>. QED BY <1>1, <1>2, <1>3, PTL DEF Health!Spec

-----------------------------------------------------------------------------
(* The four parts together                                                 *)

\* A part that a behaviour is not about does not move.
LEMMA OperationsParts ==
  ASSUME [SumNext]_sumVars
  PROVE  /\ [Next]_vars /\ [Audit!Next]_(Audit!vars)
         /\ [Worker!Next]_(Worker!workerVars) /\ [Health!Next]_(Health!healthVars)
<1>1. [Next]_vars
  BY DEF SumNext, LimiterStep, AuditStep, WorkerStep, HealthStep, sumVars
<1>2. [Audit!Next]_(Audit!vars)
  BY DEF SumNext, LimiterStep, AuditStep, WorkerStep, HealthStep, sumVars, auditVars, Audit!vars
<1>3. [Worker!Next]_(Worker!workerVars)
  BY DEF SumNext, LimiterStep, AuditStep, WorkerStep, HealthStep, sumVars, workerVars, Worker!workerVars,
         Worker!runVars, Worker!syncVars, Worker!poolVars, Worker!stopVars
<1>4. [Health!Next]_(Health!healthVars)
  BY DEF SumNext, LimiterStep, AuditStep, WorkerStep, HealthStep, sumVars, healthVars, Health!healthVars
<1>. QED BY <1>1, <1>2, <1>3, <1>4

\* Every variable of the four parts keeps its type, and what RateLimiter and AuditTrail
\* call theirs: a bucket accounts for every token of its key, a record is in one place.
THEOREM OperationsTypes == SumSpec => []TypesOK
<1>. USE RateLimiterAssumption, OperationsAssumption
<1>. DEFINE Inv == RateInv /\ AuditInv /\ WorkerInv /\ HealthInv
<1>1. SumInit => Inv
  BY RateInit, AuditInvInit, WorkerInvInit, HealthInvInit DEF SumInit
<1>2. Inv /\ [SumNext]_sumVars => Inv'
  BY OperationsParts, RateStep, AuditInvStep, WorkerInvStep, HealthInvStep
<1>3. Inv => TypesOK
  BY DEF RateInv, AuditInv, WorkerInv, HealthInv, TypesOK
<1>. QED BY <1>1, <1>2, <1>3, PTL DEF SumSpec
=============================================================================
