\* Two requests at a time, three of Metrics in all, over a history of two; the CPU counters
\* have room to wrap round below zero.
CONSTANTS
  Requests = {r1, r2}
  Modulus = 8
  HistorySize = 2
  Uids = {u1}
  MaxTicks = 2
  MaxRequests = 3
  MaxSize = 2
  MaxName = 2
  Nobody = Nobody
  Unknown = Unknown
SPECIFICATION Spec
INVARIANTS
  TypeOK
  QuietSharesAreSane
  MemoryAddsUp
  DiskAddsUp
  CutNamesShiftNumbers
PROPERTIES
  HistorySpec
  SettledNamesStay
SYMMETRY Symmetry
