------------------------------ MODULE AuditTrail ------------------------------
(***************************************************************************)
(* The audit log: requests that pass AuditMiddleware, the channel their    *)
(* records are put in, the workers that write them to the table, the login *)
(* handler that writes its record itself, and what deletes old rows: the   *)
(* sync worker's nightly cleanup and an administrator's request.           *)
(*                                                                         *)
(* A record is made when its request has been handled.  It is dropped when *)
(* the channel is full, lost when the process stops before it is written,  *)
(* and written at the time a worker comes to it.                           *)
(***************************************************************************)
EXTENDS Integers, Sequences, FiniteSets, SequencesExt

CONSTANTS
  Requests,       \* requests, each of which makes at most one record
  Writers,        \* the goroutines running auditWorker
  Slots,          \* auditChannelSize
  NoRecord,       \* a writer waits for the channel
  RetentionDays,  \* retentionDays of cleanupLogs
  MaxLogFaults    \* bound: failed statements, panics and restarts

AuditTrailAssumption ==
  /\ NoRecord \notin Requests
  /\ IsFiniteSet(Writers) /\ Writers # {}
  /\ Slots \in Nat \ {0} /\ RetentionDays \in Nat \ {0} /\ MaxLogFaults \in Nat

\* What has become of a request's record.
Fates == {"none", "skipped", "queued", "dropped", "failed", "lost", "stored", "removed"}

\* A row's age in nights; no row; older than any limit.
NoRow  == -1
MaxAge == RetentionDays + 2

VARIABLES
  stage,      \* stage[q]: where request q is in the middleware
  channel,    \* ch
  writing,    \* writing[w]: the record that writer w has received
  age,        \* age[q]: nights since q's row was created, or NoRow
  cleaner,    \* where runLogCleanup is
  fate,       \* history: fate[q]
  order,      \* history: the requests whose records entered the channel, in that order
  jumped,     \* history: the most records that were sent before a row's and not yet settled
  logFaults

vars == <<stage, channel, writing, age, cleaner, fate, order, jumped, logFaults>>

-----------------------------------------------------------------------------
Init ==
  /\ stage = [q \in Requests |-> "new"]
  /\ channel = <<>>
  /\ writing = [w \in Writers |-> NoRecord]
  /\ age = [q \in Requests |-> NoRow]
  /\ cleaner = "waiting"
  /\ fate = [q \in Requests |-> "none"]
  /\ order = <<>> /\ jumped = 0
  /\ logFaults = 0

Fault == logFaults < MaxLogFaults /\ logFaults' = logFaults + 1

\* c.Next: the request is being handled, its record is not yet made.
Handle(q) ==
  /\ stage[q] = "new"
  /\ stage' = [stage EXCEPT ![q] = "handling"]
  /\ UNCHANGED <<channel, writing, age, cleaner, fate, order, jumped, logFaults>>

\* A query of metrics is not recorded.
Skip(q) ==
  /\ stage[q] = "new"
  /\ stage' = [stage EXCEPT ![q] = "done"]
  /\ fate' = [fate EXCEPT ![q] = "skipped"]
  /\ UNCHANGED <<channel, writing, age, cleaner, order, jumped, logFaults>>

HasRoom_Unbounded == TRUE

HasRoom == Len(channel) < Slots

\* select { case ch <- task: default: }
Send(q) ==
  /\ stage[q] = "handling"
  /\ stage' = [stage EXCEPT ![q] = "done"]
  /\ IF HasRoom
     THEN /\ channel' = Append(channel, q)
          /\ order' = Append(order, q)
          /\ fate' = [fate EXCEPT ![q] = "queued"]
     ELSE /\ fate' = [fate EXCEPT ![q] = "dropped"]
          /\ UNCHANGED <<channel, order>>
  /\ UNCHANGED <<writing, age, cleaner, jumped, logFaults>>

\* A handler that panics is caught outside AuditMiddleware, which then makes no record.
Panic(q) ==
  /\ stage[q] = "handling" /\ Fault
  /\ stage' = [stage EXCEPT ![q] = "done"]
  /\ fate' = [fate EXCEPT ![q] = "lost"]
  /\ UNCHANGED <<channel, writing, age, cleaner, order, jumped>>

\* Login is outside the middleware and writes its record before it answers.
LogLogin(q) ==
  /\ stage[q] = "new"
  /\ stage' = [stage EXCEPT ![q] = "done"]
  /\ \/ /\ age' = [age EXCEPT ![q] = 0]
        /\ fate' = [fate EXCEPT ![q] = "stored"]
        /\ UNCHANGED logFaults
     \/ /\ Fault
        /\ fate' = [fate EXCEPT ![q] = "failed"]
        /\ UNCHANGED age
  /\ UNCHANGED <<channel, writing, cleaner, order, jumped>>

-----------------------------------------------------------------------------
(* auditWorker                                                              *)

NextTask_Newest == [record |-> Last(channel), rest |-> Front(channel)]

NextTask_Drained == [record |-> Head(channel), rest |-> <<>>]

NextTask == [record |-> Head(channel), rest |-> Tail(channel)]

\* for task := range ch
Receive(w) ==
  /\ writing[w] = NoRecord /\ channel # <<>>
  /\ writing' = [writing EXCEPT ![w] = NextTask.record]
  /\ channel' = NextTask.rest
  /\ UNCHANGED <<stage, age, cleaner, fate, order, jumped, logFaults>>

\* The records sent before q's that are still on their way.
Overtaken(q) ==
  LET place == CHOOSE i \in DOMAIN order : order[i] = q
  IN  {p \in {order[i] : i \in 1..(place - 1)} : fate[p] = "queued"}

\* auditSvc.Log: the row's created_at is the time of the insert.
Store(w) ==
  LET q == writing[w] IN
  /\ q # NoRecord
  /\ age' = [age EXCEPT ![q] = 0]
  /\ fate' = [fate EXCEPT ![q] = "stored"]
  /\ writing' = [writing EXCEPT ![w] = NoRecord]
  /\ jumped' = IF Cardinality(Overtaken(q)) > jumped THEN Cardinality(Overtaken(q)) ELSE jumped
  /\ UNCHANGED <<stage, channel, cleaner, order, logFaults>>

\* The error of a failed insert is logged and the record forgotten.
StoreFails(w) ==
  LET q == writing[w] IN
  /\ q # NoRecord /\ Fault
  /\ fate' = [fate EXCEPT ![q] = "failed"]
  /\ writing' = [writing EXCEPT ![w] = NoRecord]
  /\ UNCHANGED <<stage, channel, age, cleaner, order, jumped>>

-----------------------------------------------------------------------------
(* Deleting old rows                                                        *)

\* Every row of gone is deleted.
DeleteRows(gone) ==
  /\ age' = [q \in Requests |-> IF q \in gone THEN NoRow ELSE age[q]]
  /\ fate' = [q \in Requests |-> IF q \in gone THEN "removed" ELSE fate[q]]

OlderThan(days) == {q \in Requests : age[q] > days}

\* At three o'clock runLogCleanup, which has waited for it since the process began,
\* only starts its ticker; from then on each tick of it is a cleanup.
AtNight_Never == cleaner

AtNight == IF cleaner = "waiting" THEN "ticking" ELSE "due"

Night ==
  /\ cleaner # "due"
  /\ cleaner' = AtNight
  /\ age' = [q \in Requests |->
               IF age[q] \in {NoRow, MaxAge} THEN age[q] ELSE age[q] + 1]
  /\ UNCHANGED <<stage, channel, writing, fate, order, jumped, logFaults>>

\* cleanupLogs
CleanUp ==
  /\ cleaner = "due"
  /\ cleaner' = "ticking"
  /\ DeleteRows(OlderThan(RetentionDays))
  /\ UNCHANGED <<stage, channel, writing, order, jumped, logFaults>>

\* The failure is logged, and the next cleanup is the next night's.
CleanUpFails ==
  /\ cleaner = "due" /\ Fault
  /\ cleaner' = "ticking"
  /\ UNCHANGED <<stage, channel, writing, age, fate, order, jumped>>

\* CleanExpiredLogs for an administrator: 180 days when the number is not positive.
\* At other times of the day, of the rows that are just that old some are older.
CleanLogs(days) ==
  LET limit == IF days <= 0 THEN RetentionDays ELSE days
  IN  \E more \in SUBSET (OlderThan(limit - 1) \ OlderThan(limit)) :
        /\ DeleteRows(OlderThan(limit) \cup more)
        /\ UNCHANGED <<stage, channel, writing, cleaner, order, jumped, logFaults>>

\* Nothing closes the channel or waits for the writers when the server stops: what is
\* queued is lost, and of the inserts under way some are done.
Restart ==
  /\ Fault
  /\ stage' = [q \in Requests |-> IF stage[q] = "handling" THEN "done" ELSE stage[q]]
  /\ channel' = <<>>
  /\ writing' = [w \in Writers |-> NoRecord]
  /\ \E done \in SUBSET ({writing[w] : w \in Writers} \ {NoRecord}) :
       /\ age' = [q \in Requests |-> IF q \in done THEN 0 ELSE age[q]]
       /\ fate' = [q \in Requests |->
                     IF q \in done THEN "stored"
                     ELSE IF fate[q] = "queued" \/ stage[q] = "handling" THEN "lost"
                     ELSE fate[q]]
  /\ cleaner' = "waiting"
  /\ UNCHANGED <<order, jumped>>

-----------------------------------------------------------------------------
RequestStep(q) == Handle(q) \/ Skip(q) \/ Send(q) \/ Panic(q) \/ LogLogin(q)
WriterStep(w)  == Receive(w) \/ Store(w) \/ StoreFails(w)
CleanerStep    == CleanUp \/ CleanUpFails

Next ==
  \/ \E q \in Requests : RequestStep(q)
  \/ \E w \in Writers : WriterStep(w)
  \/ Night \/ CleanerStep \/ Restart
  \/ \E days \in 0..RetentionDays : CleanLogs(days)

\* The writers and the cleanup are goroutines that nothing blocks for ever.
Fairness == WF_vars(Night) /\ WF_vars(CleanerStep) /\ \A w \in Writers : WF_vars(WriterStep(w))

Spec == Init /\ [][Next]_vars /\ Fairness

-----------------------------------------------------------------------------
TypeOK ==
  /\ stage \in [Requests -> {"new", "handling", "done"}]
  /\ channel \in Seq(Requests) /\ Len(channel) <= Slots
  /\ writing \in [Writers -> Requests \cup {NoRecord}]
  /\ age \in [Requests -> {NoRow} \cup 0..MaxAge]
  /\ cleaner \in {"waiting", "ticking", "due"}
  /\ fate \in [Requests -> Fates]
  /\ order \in Seq(Requests)
  /\ jumped \in Nat /\ logFaults \in 0..MaxLogFaults

\* Sending without waiting, receiving by several writers and a restart between any two
\* of their steps (AuditMiddleware, auditWorker): a record is in one place at a time, in
\* the channel or with one writer, and never in the table while it is still on its way.
OnePlace ==
  /\ \A i, j \in DOMAIN channel : channel[i] = channel[j] => i = j
  /\ \A v, w \in Writers : writing[v] = writing[w] => v = w \/ writing[v] = NoRecord
  /\ \A w \in Writers : \A i \in DOMAIN channel : channel[i] # writing[w]
  /\ \A q \in Requests :
       /\ fate[q] = "queued" <=> (\E w \in Writers : writing[w] = q)
                                   \/ (\E i \in DOMAIN channel : channel[i] = q)
       /\ fate[q] = "stored" <=> age[q] # NoRow
       /\ fate[q] # "none" => stage[q] = "done"

\* The table lists rows by the time of their insert, which is not the time of the
\* request: of the records sent before a stored one (channel and workers of
\* AuditMiddleware), at most one for each other writer is still on its way.
BoundedOvertaking == jumped < Cardinality(Writers)

\* Every record in the channel is written or given up at last (auditWorker).  No request
\* makes a second record, so that it is the same to say that time and again none is there.
RecordsSettle == []<>(\A q \in Requests : fate[q] # "queued")

\* A row older than the retention is deleted at last, however the process is restarted or
\* a cleanup fails before (runLogCleanup): time and again there is none.
OldRowsGoAtLast == []<>(OlderThan(RetentionDays) = {})
=============================================================================
