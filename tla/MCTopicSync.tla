----------------------------- MODULE MCTopicSync -----------------------------
(* Instances of TopicSync for TLC.                                           *)
EXTENDS TopicSync, TLC

\* The properties tell topics, shapes and request slots apart by equality only.
Symmetry == Permutations(Topics) \cup Permutations(Shapes) \cup Permutations(Requests)
=============================================================================
