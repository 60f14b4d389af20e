\* One client, one setting; every request.
CONSTANTS
  Settings = {"secret"}
  Parsed = {}
  Ranged = {"secret"}
  Clients = {"inside"}
  Subnet = {"inside"}
SPECIFICATION RequestSpec
CHECK_DEADLOCK FALSE
INVARIANT VerbsAreServed
