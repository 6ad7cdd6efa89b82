CONSTANTS
  Requests = {r1, r2}
  Admins = {a1, a2}
  NoEntry = noentry
  TTL = 2
  MaxChanges = 2
  MaxFaults = 1
SPECIFICATION Spec
INVARIANTS DisabledStaysOut EnabledGetsIn
PROPERTIES LockoutEnds
