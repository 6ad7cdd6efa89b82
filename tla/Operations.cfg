CONSTANTS
  Callers = {r1, r2}
  Buckets = {b1, b2, b3}
  NoBucket = nobucket
  Burst = 2
  Refill = 1
  IdleLimit = 2
  MaxStrays = 2
  Recorded = {q1, q2, q3}
  Writers = {w1, w2}
  Buffer = 2
  NoRecord = norecord
  RetentionDays = 1
  MaxLogFaults = 1
  Clusters = {c1, c2}
  MaxClients = 4
  NoClient = noclient
  Slots = 1
  MaxRetries = 2
  MaxWorkerFaults = 1
  Watched = {c1}
  WithTopics = {c1}
  Lists = {list, listOfNone}
  Overviews = {overview, overviewOfNone}
  Seeing = {list, overview}
  Casts <- MCCasts
  Scope <- MCScope
  None = none
  MaxBrokers = 1
  MaxChanges = 1
  MaxHealthFaults = 1
SPECIFICATION SumSpec
INVARIANTS TypesOK KeepsTheRate BoundedOvertaking ClientsAreOwned AnswersHaveCause
PROPERTIES RecordsSettle OldRowsGoAtLast StopReturns KeepsSyncing DownShows
CHECK_DEADLOCK FALSE
