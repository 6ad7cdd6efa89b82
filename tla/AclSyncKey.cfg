CONSTANTS
  Subjects = {s}
  Actions = {read, write}
  Patterns = {"literal", "prefixed"}
  Unnamed = {}
  Default = read
  Copies = {1, 2}
  Requests = {r1}
  Worker = worker
  None = none
  MaxOps = 0
  MaxExternal = 0
  MaxFaults = 0
SPECIFICATION Spec
PROPERTIES MatchedRowsStay
