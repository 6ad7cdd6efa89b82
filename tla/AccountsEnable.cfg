CONSTANTS
  Requests = {r1, r2}
  Admins = {a1}
  NoEntry = noentry
  TTL = 2
  MaxChanges = 1
  MaxFaults = 0
SPECIFICATION Spec
INVARIANTS EnableTakesEffect
