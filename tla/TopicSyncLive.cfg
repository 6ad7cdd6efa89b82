CONSTANTS
  Topics = {t1}
  Shapes = {s1, s2}
  Descs = {none}
  NoDesc = none
  Requests = {r1}
  Worker = worker
  Absent = absent
  NoRow = norow
  NoReq = noreq
  Dialect = "postgres"
  MaxRetries = 2
  MaxOps = 2
  MaxExternal = 1
  MaxFaults = 2
SPECIFICATION Spec
INVARIANTS IInv
PROPERTIES Converges ImplementsCatalog
