------------------------------ MODULE ClusterRows ------------------------------
(***************************************************************************)
(* What the rest of the program can rely on of the table cluster: an id is *)
(* given to one cluster, DeleteCluster removes its row, and UpdateCluster  *)
(* reads the row and later saves it whole, which puts it back when it has  *)
(* been deleted in between.                                                *)
(***************************************************************************)
CONSTANTS
  Ids,      \* cluster ids
  NoId,
  Updates   \* slots of concurrent updates

ASSUME ClusterRowsAssumption == NoId \notin Ids

VARIABLES
  rows,  \* the ids that have a row
  used,  \* the ids that have been given
  held   \* held[r]: the row that update r has read and not yet saved

rowVars == <<rows, used, held>>

RowsInit ==
  /\ rows = {} /\ used = {}
  /\ held = [r \in Updates |-> NoId]

Insert(c) ==
  /\ c \in Ids \ used
  /\ rows' = rows \cup {c} /\ used' = used \cup {c}
  /\ UNCHANGED held

Remove(c) ==
  /\ c \in rows
  /\ rows' = rows \ {c}
  /\ UNCHANGED <<used, held>>

Read(r, c) ==
  /\ held[r] = NoId /\ c \in rows
  /\ held' = [held EXCEPT ![r] = c]
  /\ UNCHANGED <<rows, used>>

Save(r) ==
  /\ held[r] # NoId
  /\ rows' = rows \cup {held[r]}
  /\ held' = [held EXCEPT ![r] = NoId]
  /\ UNCHANGED used

\* Updates fail, or the process stops.
Drop(rs) ==
  /\ held' = [r \in Updates |-> IF r \in rs THEN NoId ELSE held[r]]
  /\ UNCHANGED <<rows, used>>

RowsNext ==
  \/ \E c \in Ids : Insert(c) \/ Remove(c) \/ \E r \in Updates : Read(r, c)
  \/ \E r \in Updates : Save(r)
  \/ \E rs \in SUBSET Updates : Drop(rs)

RowsSpec == RowsInit /\ [][RowsNext]_rowVars

-----------------------------------------------------------------------------
\* Nothing can bring c's row back.
Gone(c) == c \in used \ rows /\ \A r \in Updates : held[r] # c

\* DeleteCluster against UpdateCluster: a cluster that is deleted while no update of it
\* is between its read and its save never comes back.
StaysGone == [][\A c \in Ids : Gone(c) => Gone(c)']_rowVars
=============================================================================
