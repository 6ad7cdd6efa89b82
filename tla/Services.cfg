CONSTANTS
  Requests = {r1, r2}
  Users = {u1, u2}
  NoUser = nouser
  Ids = {i1, i2}
  NoId = noid
  Names = {u1, u2}
  Keytabs = {y1}
  NoKeytab = nokeytab
  NoRow = norow
  KeytabTTL = 1
  MaxClusterFaults = 1
  Mechanisms = {m1}
  MaxRows = 2
  MaxOutside = 1
  Groups = {u1, u2}
  Partitions = {p1}
  None = none
  MaxOffset = 2
  MaxRecreations = 1
  MaxLagFaults = 1
SPECIFICATION SumSpec
SYMMETRY Symmetry
INVARIANTS
  TypesOK KeytabSurvives NamesClash RowsHaveCredentials SyncCovers BacklogShown BacklogHasAge
PROPERTIES ImplementsRows
CHECK_DEADLOCK FALSE
