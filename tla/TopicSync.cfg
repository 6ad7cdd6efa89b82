CONSTANTS
  Topics = {t1, t2}
  Shapes = {s1}
  Descs = {none, d1}
  NoDesc = none
  Requests = {r1, r2}
  Worker = worker
  Absent = absent
  NoRow = norow
  NoReq = noreq
  Dialect = "mysql"
  MaxRetries = 2
  MaxOps = 2
  MaxExternal = 1
  MaxFaults = 1
SPECIFICATION Spec
SYMMETRY Symmetry
INVARIANTS RowsWereInKafka CleanSyncMirrors
PROPERTIES DeleteIsIdempotent CleanSyncKeepsDescriptions
