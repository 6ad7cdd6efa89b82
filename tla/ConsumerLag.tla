------------------------------ MODULE ConsumerLag ------------------------------
(***************************************************************************)
(* The lag report of one Kafka cluster.  GetAllConsumerGroupLags describes *)
(* the groups, reads the committed offsets of each, then the end and the   *)
(* start of each partition, and last the age of the first message that     *)
(* each group has yet to read; GetConsumerGroupInfo reports one group,     *)
(* without ages.  Producers, consumers, retention and the re-creation of   *)
(* topics go on between any two of these calls.                            *)
(***************************************************************************)
EXTENDS Naturals

CONSTANTS
  Groups, Partitions,
  None,             \* no commit, no value
  MaxOffset,        \* bound: messages of a partition
  MaxRecreations,   \* bound: partitions deleted and created again
  MaxLagFaults      \* bound: failed calls

LagAssumption ==
  /\ None \notin Nat
  /\ MaxOffset \in Nat /\ MaxRecreations \in Nat /\ MaxLagFaults \in Nat

Offsets == 0..MaxOffset

VARIABLES
  first, last,   \* offsets of the first message of a partition and of the next one
  heads,         \* heads[p]: offsets at which a batch of messages begins
  commit,        \* commit[g][p]
  lpc,           \* the next step of the report
  ages,          \* is it the report of all groups, which tells ages
  toRead,        \* groups whose offsets are still to be read
  offsets,       \* offsets[g][p]: commits that were read
  ends, starts,  \* results of the calls for each partition, None when not there
  report,        \* report[g][p]: lag, and the offset whose timestamp gives the age
  endThen,       \* history: last when the offsets of g were read
  recreated,     \* history: partitions created again since the report began
  recreations, faults

lagVars == <<first, last, heads, commit, lpc, ages, toRead, offsets, ends, starts, report,
             endThen, recreated, recreations, faults>>
logVars == <<first, last, heads, commit>>
reportVars == <<lpc, ages, toRead, offsets, ends, starts, report, endThen>>

NoValue == [p \in Partitions |-> None]
NoTable == [g \in Groups |-> NoValue]

Init ==
  /\ first = [p \in Partitions |-> 0] /\ last = first
  /\ heads = [p \in Partitions |-> {}]
  /\ commit = NoTable
  /\ lpc = "idle" /\ ages = FALSE /\ toRead = {}
  /\ offsets = NoTable /\ ends = NoValue /\ starts = NoValue /\ report = NoTable
  /\ endThen = [g \in Groups |-> [p \in Partitions |-> 0]]
  /\ recreated = {}
  /\ recreations = 0 /\ faults = 0

Fault == faults < MaxLagFaults /\ faults' = faults + 1

-----------------------------------------------------------------------------
(* The cluster                                                              *)

Produce(p, n) ==
  /\ last[p] + n \in Offsets
  /\ last' = [last EXCEPT ![p] = @ + n]
  /\ heads' = [heads EXCEPT ![p] = @ \cup {last[p]}]
  /\ UNCHANGED <<first, commit, reportVars, recreated, recreations, faults>>

Commit(g, p, o) ==
  /\ o \in first[p]..last[p]
  /\ commit[g][p] # None => commit[g][p] < o
  /\ commit' = [commit EXCEPT ![g][p] = o]
  /\ UNCHANGED <<first, last, heads, reportVars, recreated, recreations, faults>>

Retention(p, o) ==
  /\ o \in (first[p] + 1)..last[p]
  /\ first' = [first EXCEPT ![p] = o]
  /\ UNCHANGED <<last, heads, commit, reportVars, recreated, recreations, faults>>

\* The commits may outlive the topic.
Recreate(p) ==
  /\ recreations < MaxRecreations /\ recreations' = recreations + 1
  /\ first' = [first EXCEPT ![p] = 0] /\ last' = [last EXCEPT ![p] = 0]
  /\ heads' = [heads EXCEPT ![p] = {}]
  /\ \/ commit' = [g \in Groups |-> [commit[g] EXCEPT ![p] = None]]
     \/ UNCHANGED commit
  /\ recreated' = IF lpc = "idle" THEN recreated ELSE recreated \cup {p}
  /\ UNCHANGED <<reportVars, faults>>

-----------------------------------------------------------------------------
(* The report                                                               *)

\* The groups that Kafka describes without an error.
Begin(described, all) ==
  /\ lpc = "idle"
  /\ IF all /\ described # Groups THEN Fault ELSE UNCHANGED faults
  /\ lpc' = "offsets" /\ ages' = all /\ toRead' = described
  /\ UNCHANGED <<logVars, offsets, ends, starts, report, endThen, recreated, recreations>>

ReadOffsets(g) ==
  /\ lpc = "offsets" /\ g \in toRead
  /\ toRead' = toRead \ {g}
  /\ \/ offsets' = [offsets EXCEPT ![g] = commit[g]] /\ UNCHANGED faults
     \/ Fault /\ ages /\ UNCHANGED offsets
  /\ endThen' = [endThen EXCEPT ![g] = last]
  /\ UNCHANGED <<logVars, lpc, ages, ends, starts, report, recreated, recreations>>

\* The partitions for which some group has a commit.
Wanted == {p \in Partitions : \E g \in Groups : offsets[g][p] # None}

AllRead ==
  /\ lpc = "offsets" /\ toRead = {}
  /\ lpc' = "ends"
  /\ UNCHANGED <<logVars, ages, toRead, offsets, ends, starts, report, endThen, recreated, recreations, faults>>

ReadEnd_Early(p) ==
  /\ lpc = "offsets" /\ ends[p] = None
  /\ ends' = [ends EXCEPT ![p] = last[p]]
  /\ UNCHANGED <<logVars, lpc, ages, toRead, offsets, starts, report, endThen, recreated, recreations, faults>>

\* A call that fails leaves the partition out of the result, which reads as 0 later on.
ReadEnd(p) ==
  /\ lpc = "ends" /\ p \in Wanted /\ ends[p] = None
  /\ \/ ends' = [ends EXCEPT ![p] = last[p]] /\ UNCHANGED faults
     \/ ends' = [ends EXCEPT ![p] = 0] /\ Fault
  /\ UNCHANGED <<logVars, lpc, ages, toRead, offsets, starts, report, endThen, recreated, recreations>>

EndsRead ==
  /\ lpc = "ends" /\ \A p \in Wanted : ends[p] # None
  /\ lpc' = IF ages THEN "starts" ELSE "lags"
  /\ UNCHANGED <<logVars, ages, toRead, offsets, ends, starts, report, endThen, recreated, recreations, faults>>

ReadStart(p) ==
  /\ lpc = "starts" /\ p \in Wanted /\ starts[p] = None
  /\ \/ starts' = [starts EXCEPT ![p] = first[p]] /\ UNCHANGED faults
     \/ starts' = [starts EXCEPT ![p] = 0] /\ Fault
  /\ UNCHANGED <<logVars, lpc, ages, toRead, offsets, ends, report, endThen, recreated, recreations>>

StartsRead ==
  /\ lpc = "starts" /\ \A p \in Wanted : starts[p] # None
  /\ lpc' = "lags"
  /\ UNCHANGED <<logVars, ages, toRead, offsets, ends, starts, report, endThen, recreated, recreations, faults>>

Lag_Negative(g, p) == ends[p] - offsets[g][p]

\* A commit beyond the end, as after a failed call, counts as no lag.
Lag(g, p) == IF ends[p] > offsets[g][p] THEN ends[p] - offsets[g][p] ELSE 0

Expired_Boundary(g, p) == offsets[g][p] <= starts[p]

\* The message has left the log.
Expired(g, p) == offsets[g][p] < starts[p]

\* The timestamp is the one of the first message of the batch that holds the offset.
IsTimestamp(p, o, h) == h \in heads[p] /\ h <= o /\ \A i \in heads[p] : i <= o => i <= h

Compute(g, p) ==
  LET o == offsets[g][p] IN
  /\ lpc = "lags" /\ o # None /\ report[g][p] = None
  /\ \E age \in Offsets \cup {None} :
       /\ report' = [report EXCEPT ![g][p] = [lag |-> Lag(g, p), age |-> age]]
       /\ \/ /\ ages /\ Lag(g, p) > 0 /\ ~Expired(g, p)
             /\ \/ o \in first[p]..(last[p] - 1) /\ IsTimestamp(p, o, age) /\ UNCHANGED faults
                \/ o \notin first[p]..(last[p] - 1) /\ age = None /\ UNCHANGED faults
                \/ age = None /\ Fault
          \/ ~(ages /\ Lag(g, p) > 0 /\ ~Expired(g, p)) /\ age = None /\ UNCHANGED faults
  /\ UNCHANGED <<logVars, lpc, ages, toRead, offsets, ends, starts, endThen, recreated, recreations>>

Reported == \A g \in Groups, p \in Partitions : offsets[g][p] # None => report[g][p] # None

Clear ==
  /\ lpc' = "idle" /\ ages' = FALSE /\ toRead' = {}
  /\ offsets' = NoTable /\ ends' = NoValue /\ starts' = NoValue /\ report' = NoTable
  /\ endThen' = [g \in Groups |-> [p \in Partitions |-> 0]]
  /\ recreated' = {}
  /\ UNCHANGED <<logVars, recreations>>

\* The report of one group fails as a whole when its offsets cannot be read.
Refused == lpc = "offsets" /\ ~ages /\ toRead # {} /\ Fault /\ Clear

Close == lpc = "lags" /\ Reported /\ Clear /\ UNCHANGED faults

-----------------------------------------------------------------------------
ReportStep ==
  \/ \E described \in SUBSET Groups : Begin(described, TRUE)
  \/ \E g \in Groups : Begin({g}, FALSE) \/ ReadOffsets(g)
  \/ AllRead \/ EndsRead \/ StartsRead \/ Refused \/ Close
  \/ \E p \in Partitions : ReadEnd(p) \/ ReadStart(p)
  \/ \E g \in Groups, p \in Partitions : Compute(g, p)

Next ==
  \/ \E p \in Partitions : \/ \E n \in 1..2 : Produce(p, n)
                           \/ \E o \in Offsets : Retention(p, o) \/ \E g \in Groups : Commit(g, p, o)
                           \/ Recreate(p)
  \/ ReportStep

Spec == Init /\ [][Next]_lagVars

-----------------------------------------------------------------------------
TypeOK ==
  /\ first \in [Partitions -> Offsets] /\ last \in [Partitions -> Offsets]
  /\ heads \in [Partitions -> SUBSET Offsets]
  /\ commit \in [Groups -> [Partitions -> Offsets \cup {None}]]
  /\ lpc \in {"idle", "offsets", "ends", "starts", "lags"} /\ ages \in BOOLEAN
  /\ toRead \in SUBSET Groups
  /\ offsets \in [Groups -> [Partitions -> Offsets \cup {None}]]
  /\ ends \in [Partitions -> Offsets \cup {None}] /\ starts \in [Partitions -> Offsets \cup {None}]
  /\ report \in [Groups -> [Partitions -> [lag : Offsets, age : Offsets \cup {None}] \cup {None}]]
  /\ endThen \in [Groups -> [Partitions -> Offsets]]
  /\ recreated \in SUBSET Partitions
  /\ recreations \in 0..MaxRecreations /\ faults \in 0..MaxLagFaults

\* The end of a partition is read after the commits, so that no message that was waiting
\* when the commit was read is left out of the lag, and none is counted that is not there:
\* unless the call for the end failed or the topic was created again meanwhile.
BacklogShown ==
  \A g \in Groups, p \in Partitions :
    report[g][p] # None /\ p \notin recreated /\ ends[p] # 0 =>
      /\ offsets[g][p] + report[g][p].lag >= endThen[g][p]
      /\ report[g][p].lag > 0 => offsets[g][p] + report[g][p].lag <= last[p]

\* While retention moves the start between the calls: the report of all groups tells the
\* age of each backlog whose first message is still there, if no call failed.
BacklogHasAge ==
  \A g \in Groups, p \in Partitions :
    report[g][p] # None /\ ages /\ p \notin recreated /\ faults = 0 =>
      (report[g][p].lag > 0 /\ offsets[g][p] >= first[p] => report[g][p].age # None)
=============================================================================
