---------------------------- MODULE TopicCatalog ----------------------------
(***************************************************************************)
(* What the platform promises of the topics it lists, apart from how the   *)
(* copy is kept: an entry was at some time the topic Kafka had, an entry   *)
(* may be dropped at any time, and a wrong entry is eventually put right   *)
(* (README: metadata is kept in the database and synchronised with Kafka). *)
(***************************************************************************)
CONSTANTS Topics, Shapes, Absent

VARIABLES
  kafka,    \* what Kafka has
  catalog,  \* what the platform lists: a shape, or Absent
  held      \* every <<t, x>> such that Kafka's t was x

vars == <<kafka, catalog, held>>

Init ==
  /\ kafka \in [Topics -> Shapes \cup {Absent}]
  /\ catalog = [t \in Topics |-> Absent]
  /\ held = {<<t, kafka[t]>> : t \in {u \in Topics : kafka[u] # Absent}}

\* Kafka changes, through the platform or past it.
Change(t, x) ==
  /\ kafka' = [kafka EXCEPT ![t] = x]
  /\ held' = held \cup {<<t, x>>}
  /\ UNCHANGED catalog

\* The entry of t becomes something Kafka had; it need not be the latest.
Record(t, x) ==
  /\ x # Absent => <<t, x>> \in held
  /\ catalog' = [catalog EXCEPT ![t] = x]
  /\ UNCHANGED <<kafka, held>>

Next ==
  \E t \in Topics, x \in Shapes \cup {Absent} : Change(t, x) \/ Record(t, x)

\* The entry of t becomes what Kafka has now.
CatchUp(t) == catalog[t] # kafka[t] /\ Record(t, kafka[t])

SafeSpec == Init /\ [][Next]_vars

Spec == SafeSpec /\ \A t \in Topics : WF_vars(CatchUp(t))
=============================================================================
