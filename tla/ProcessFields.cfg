\* One goroutine; a name may have two characters.
CONSTANTS
  Requests = {r1}
  Modulus = 8
  HistorySize = 1
  Uids = {u1}
  MaxTicks = 1
  MaxRequests = 1
  MaxSize = 1
  MaxName = 2
  Nobody = Nobody
  Unknown = Unknown
SPECIFICATION Spec
INVARIANT RowsShowTheTimes
