\* Two clients and two concurrent requests; two windows of two ticks, and stamps
\* older than a whole window.
CONSTANTS
  Requests = {r1, r2}
  Clients = {ip1, ip2}
  Limit = 2
  Window = 2
  Horizon = 3
  NoEntry = NoEntry
  Nobody = Nobody
SYMMETRY Symmetry
SPECIFICATION Spec
INVARIANTS
  TypeOK
  BurstBound
  WindowBound
PROPERTY
  RefusalsAreEarned
