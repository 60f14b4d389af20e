\* One account, its clock running over two lockouts, crashes and file
\* faults anywhere: a failed save of the counter is ignored by the code.
\* Two TOTP secrets, so that one replaces another that was verified.
CONSTANTS
  Names = {admin}
  Admin = admin
  MaxAttempts = 2
  Lockout = 2
  DiskFaults = TRUE
  MaxPassword = 0
  MaxSecret = 2
  Horizon = 4
  NoAccount = NoAccount
  NoFile = NoFile
  Idle = Idle
SPECIFICATION Spec
INVARIANTS
  LockoutBounds
  VerifiedIsEnforced
