CONSTANTS
  Keys = {specific, global}
  Specific = specific
  Global = global
  IPs = {ip1}
  NoIP = noip
  Api = service
  Dialer = service
  Requests = {r1, r2}
  NoRow = norow
  Dialect = "postgres"
  MaxOps = 2
  MaxFaults = 1
SPECIFICATION Spec
INVARIANTS SettledMirrors OnlyFromTable CalmResolution
PROPERTIES Converges
