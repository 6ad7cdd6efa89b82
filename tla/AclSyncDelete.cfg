CONSTANTS
  Subjects = {s}
  Actions = {read, write}
  Patterns = {"literal"}
  Unnamed = {}
  Default = read
  Copies = {1, 2}
  Requests = {r1}
  Worker = worker
  None = none
  MaxOps = 1
  MaxExternal = 0
  MaxFaults = 0
SPECIFICATION Spec
PROPERTIES DeleteTakesOneAcl
