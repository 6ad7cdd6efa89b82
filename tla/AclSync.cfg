CONSTANTS
  Subjects = {s}
  Actions = {read, txn}
  Unnamed = {txn}
  Default = read
  Patterns = {"literal"}
  Copies = {1, 2, 3, 4, 5}
  Requests = {r1}
  Worker = worker
  None = none
  MaxOps = 2
  MaxExternal = 1
  MaxFaults = 1
SPECIFICATION Spec
INVARIANTS CleanSyncCovers
PROPERTIES SyncLeavesNoGap Converges
