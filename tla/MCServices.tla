------------------------------ MODULE MCServices ------------------------------
(***************************************************************************)
(* Three services behind the handlers, side by side: clusters and their    *)
(* files, SCRAM users and the lag report.  What is modelled of the three   *)
(* shares no state, so that a behaviour exercises one of them and leaves   *)
(* the others at a single initial state.                                   *)
(***************************************************************************)
EXTENDS Clusters, TLC

CONSTANTS
  Users, NoUser, Mechanisms, MaxRows, MaxOutside,
  Groups, Partitions, None, MaxOffset, MaxRecreations, MaxLagFaults

VARIABLES
  part,   \* the service that this behaviour is about
  kafka, row, numbered, upc, asked, listed, missing, alone, steady, rowGone, excused, outside,
  first, last, heads, commit, lpc, ages, toRead, offsets, ends, starts, report, endThen,
  recreated, recreations, faults

usersVars    == <<kafka, row, numbered, upc, asked, listed, missing, alone, steady, rowGone, excused, outside>>
reportVars   == <<first, last, heads, commit, lpc, ages, toRead, offsets, ends, starts, report, endThen,
                  recreated, recreations, faults>>

Scram == INSTANCE ScramUsers
Lag   == INSTANCE ConsumerLag

ASSUME ServicesAssumption == Scram!ScramAssumption /\ Lag!LagAssumption

\* The values that stand for users also stand for names of clusters and consumer groups.
Symmetry == Permutations(Requests) \cup Permutations(Users) \cup Permutations(Ids)

\* A service that is not the subject begins in one of its initial states.
SumInit ==
  /\ part \in {"clusters", "scram", "lag"}
  /\ Init /\ Lag!Init
  /\ Scram!Init /\ (part # "scram" => kafka = [u \in Users |-> {}])

ClustersStep == part = "clusters" /\ Next /\ UNCHANGED <<usersVars, reportVars>>
ScramStep    == part = "scram" /\ Scram!Next /\ UNCHANGED <<clusterVars, reportVars>>
LagStep      == part = "lag" /\ Lag!Next /\ UNCHANGED <<clusterVars, usersVars>>

SumNext == UNCHANGED part /\ (ClustersStep \/ ScramStep \/ LagStep)

SumSpec == SumInit /\ [][SumNext]_<<part, clusterVars, usersVars, reportVars>>
-----------------------------------------------------------------------------
(* The properties of the parts, by their names                              *)

\* Each variable keeps its type.
TypesOK == TypeOK /\ Scram!TypeOK /\ Lag!TypeOK

\* A row of scram_users has its credential in Kafka (ScramUsers).
RowsHaveCredentials == Scram!RowsHaveCredentials

\* A synchronisation of users leaves out none that was there throughout (ScramUsers).
SyncCovers == Scram!SyncCovers

\* The lag counts every message that was waiting (ConsumerLag).
BacklogShown == Lag!BacklogShown

\* A backlog has an age (ConsumerLag).
BacklogHasAge == Lag!BacklogHasAge
=============================================================================
