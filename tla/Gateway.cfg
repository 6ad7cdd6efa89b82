CONSTANTS
  Requests = {r1, r2}
  Users = {u1, u2}
  NoUser = nouser
  Ids = {i1}
  NoId = noid
  Updates = {w1}
  Topics = {t1, t2}
  MaxAccessOps = 3
  Tokens = {k1, k2, k3}
  NoToken = notoken
  NoRow = norow
  AccessTTL = 1
  RefreshTTL = 3
  BlacklistTTL = 1
  MaxTokenFaults = 1
SPECIFICATION SumSpec
SYMMETRY Symmetry
INVARIANTS
  TypesOK ActsInTime PermissionBringsAccess RevokedStaysOut SessionsEnd
CHECK_DEADLOCK FALSE
