\* Two accounts, file faults and crashes anywhere, two changes of each kind;
\* the clock stands still, so that a lock, once set, stays.
CONSTANTS
  Names = {admin, bob}
  Admin = admin
  MaxAttempts = 1
  Lockout = 1
  DiskFaults = TRUE
  MaxPassword = 1
  MaxSecret = 1
  Horizon = 0
  NoAccount = NoAccount
  NoFile = NoFile
  Idle = Idle
VIEW ViewWithoutStrikes
SPECIFICATION Spec
INVARIANTS
  TypeOK
  AckedIsDurable
  AckedIsLive
PROPERTY
  StoreSpec
