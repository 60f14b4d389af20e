\* One client, one request at a time.
CONSTANTS
  Requests = {r1}
  Clients = {ip1}
  Limit = 2
  Window = 2
  Horizon = 4
  NoEntry = NoEntry
  Nobody = Nobody
SPECIFICATION Spec
INVARIANT SlidingWindow
CHECK_DEADLOCK FALSE
