CONSTANTS
  Topics = {t1}
  Shapes = {s1, s2}
  Descs = {none}
  NoDesc = none
  Requests = {r1}
  Worker = worker
  Absent = absent
  NoRow = norow
  NoReq = noreq
  Dialect = "mysql"
  MaxRetries = 2
  MaxOps = 2
  MaxExternal = 0
  MaxFaults = 0
SPECIFICATION Spec
PROPERTIES CleanupOnlyDeletedTopics
