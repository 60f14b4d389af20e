\* One chunk in each buffer of the terminal; an address in the one network that a
\* whitelist names, and text that is none; every request.
CONSTANTS
  OutputCap = 1
  InputCap = 1
  Settings = {"totp", "secret"}
  Parsed = {"totp"}
  Ranged = {"secret"}
  Clients = {"inside", "unknown"}
  Subnet = {"inside"}
SPECIFICATION PanelSpec
INVARIANTS
  RequestTypeOK
  ProtectedNeedToken
  ShellsHaveRequests
  TypeOK
  DoneSignalsTheEnd
  ReturnsClean
  OnlyTheShellIsAwaited
PROPERTIES
  DisconnectIsNoticed
  TeardownCompletes
\* A panel whose load failed, or that has had its session, stops.
CHECK_DEADLOCK FALSE
