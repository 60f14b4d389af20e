---------------------------- MODULE AuthManager ----------------------------
(***************************************************************************)
(* The user manager of internal/auth/auth.go: the accounts it keeps in     *)
(* memory under m.mu, the users file it rewrites after every change, and   *)
(* the process that holds them, which may stop at any step.                *)
(*                                                                         *)
(* An operation takes m.mu, changes memory in one step and then saves the  *)
(* whole map: write users.json.tmp, rename it over users.json, return.     *)
(* These are separate steps, because the process can die between them and  *)
(* either file operation can fail.  `op` is the operation that holds the   *)
(* lock; every other caller waits for it, so one is enough.                *)
(*                                                                         *)
(* A password and a TOTP secret are numbered by how often the account has  *)
(* replaced them, so that `newer` is `greater`; whether a client supplies  *)
(* the right one is an input.  LastLogin and Role are data no decision of  *)
(* this component reads, and are left out.                                 *)
(***************************************************************************)
EXTENDS Naturals, Sequences

CONSTANTS
  Names,         \* the usernames requests carry
  Admin,         \* "admin", the account the bootstrap creates
  MaxAttempts,   \* m.max: failed attempts before an account is locked
  Lockout,       \* m.lock: how long it stays locked, in ticks of the clock
  DiskFaults,    \* whether writing or renaming the users file may fail
  MaxPassword,   \* bound: how often an account changes its password
  MaxSecret,     \* bound: how often an account generates a TOTP secret
  Horizon,       \* bound: the last tick of the clock
  NoAccount,     \* the map has no such user
  NoFile,        \* there is no users.json.tmp, or only part of one
  Idle           \* nobody holds m.mu

NoSecret        == 0        \* the empty TOTPSecret
DefaultPassword == 0        \* the password an account is created with

Account == [pw          : Nat,      \* PasswordHash
            secret      : Nat,      \* TOTPSecret
            verified    : BOOLEAN,  \* TOTPVerified
            require     : BOOLEAN,  \* RequireTOTP
            failed      : Nat,      \* FailedAttempts
            lockedUntil : Nat]      \* LockedUntil

Credentials == [pw : Nat, secret : Nat, verified : BOOLEAN, require : BOOLEAN]

Image == [Names -> Account \cup {NoAccount}]     \* a users map, or a users file

(* The operations of the manager, by what they do once they hold the lock. *)
Changes == {"boot", "register", "setTOTP", "verifyTOTP", "changePassword"}
Logins  == {"login", "strike"}
Kinds   == Changes \cup Logins \cup {"refuse"}

Operation == [kind : Kinds, name : Names, at : Nat,
              stage : {"write", "rename", "return"}, err : BOOLEAN]

ASSUME AdminIsAName      == Admin \in Names
ASSUME LimitsArePositive == MaxAttempts \in Nat \ {0} /\ Lockout \in Nat \ {0}
ASSUME FlagIsBoolean     == DiskFaults \in BOOLEAN
ASSUME BoundsAreNumbers  == MaxPassword \in Nat /\ MaxSecret \in Nat /\ Horizon \in Nat
ASSUME NoAccountIsNone   == NoAccount \notin Account \cup Credentials
ASSUME NoFileIsNone      == NoFile \notin Image
ASSUME IdleIsNone        == Idle \notin Operation

VARIABLES
  phase,     \* "down", "booting" (inside NewManager) or "up"
  users,     \* m.users, the accounts in memory
  disk,      \* users.json; an image without accounts when missing or empty
  tmp,       \* users.json.tmp
  op,        \* the operation that holds m.mu, or Idle
  now,       \* the wall clock
  acked,     \* history: each account's credentials at its last acknowledged change
  strikes,   \* history: when the answered wrong attempts since the last right one were made
  unsaved    \* history: accounts of which an answered wrong attempt is in no users file yet

vars == <<phase, users, disk, tmp, op, now, acked, strikes, unsaved>>

-----------------------------------------------------------------------------
(* Accounts. *)

NewAccount(require) ==
  [pw |-> DefaultPassword, secret |-> NoSecret, verified |-> FALSE,
   require |-> require, failed |-> 0, lockedUntil |-> 0]

CredentialsOf(a) ==
  IF a = NoAccount THEN NoAccount
  ELSE [pw |-> a.pw, secret |-> a.secret, verified |-> a.verified, require |-> a.require]

Blank == [u \in Names |-> NoAccount]

Present(img) == {u \in Names : img[u] # NoAccount}

(* A plausible slip: the threshold tested with > lets one more attempt in. *)
StrikeLate(a, t) ==
  IF a.failed + 1 > MaxAttempts
  THEN [a EXCEPT !.failed = 0, !.lockedUntil = t + Lockout]
  ELSE [a EXCEPT !.failed = @ + 1]

(* A plausible slip: the lock is dated into the past. *)
StrikeBackwards(a, t) == [StrikeLate(a, t) EXCEPT !.lockedUntil = t - Lockout]

(* A failure counted at t: the one that reaches the limit locks the account. *)
Strike(a, t) ==
  IF a.failed + 1 >= MaxAttempts
  THEN [a EXCEPT !.failed = 0, !.lockedUntil = t + Lockout]
  ELSE [a EXCEPT !.failed = @ + 1]

(* A plausible slip: the verified secret is not made mandatory. *)
EnrolledLoosely(a) == [a EXCEPT !.verified = TRUE]

Enrolled(a) == [a EXCEPT !.verified = TRUE, !.require = TRUE]

(* Whether a login must bring a TOTP code. *)
NeedsCode(a) == a.require \/ (a.verified /\ a.secret # NoSecret)

(* The early returns of Authenticate, in the order the code takes them.    *)
Verdict(a, rightPassword, code) ==
  IF      a = NoAccount                         THEN "unknown user"
  ELSE IF now < a.lockedUntil                   THEN "locked"
  ELSE IF ~rightPassword                        THEN "wrong password"
  ELSE IF ~NeedsCode(a)                         THEN "welcome"
  ELSE IF code = "none"                         THEN "code required"
  ELSE IF a.secret = NoSecret                   THEN "not configured"
  ELSE IF code = "wrong"                        THEN "wrong code"
  ELSE                                               "welcome"

-----------------------------------------------------------------------------
(* Operations take the lock, change memory and go on to save ...           *)

Ready == phase = "up" /\ op = Idle

Hold(kind, u, stage, err, t) ==
  op' = [kind |-> kind, name |-> u, at |-> t, stage |-> stage, err |-> err]

(* ... or return early with an error, memory untouched. *)
Refuse(u) ==
  /\ Hold("refuse", u, "return", TRUE, now)
  /\ UNCHANGED <<phase, users, disk, tmp, now, acked, strikes, unsaved>>

ChangeAndSave(kind, u, account, t) ==
  /\ users' = [users EXCEPT ![u] = account]
  /\ Hold(kind, u, "write", FALSE, t)
  /\ now' = t
  /\ UNCHANGED <<phase, disk, tmp, acked, unsaved>>

(* The lock is tested on one reading of the clock and set on a second one,  *)
(* after the password and the code have been checked: time passes between. *)
Authenticate(u, rightPassword, code) ==
  LET verdict == Verdict(users[u], rightPassword, code) IN
  /\ Ready
  /\ \/ /\ verdict = "welcome"
        /\ ChangeAndSave("login", u, [users[u] EXCEPT !.failed = 0, !.lockedUntil = 0], now)
        /\ strikes' = [strikes EXCEPT ![u] = <<>>]
     \/ /\ verdict \in {"wrong password", "wrong code"}
        /\ \E t \in now .. Horizon : ChangeAndSave("strike", u, Strike(users[u], t), t)
        /\ UNCHANGED strikes
     \/ /\ verdict \in {"unknown user", "locked", "code required", "not configured"}
        /\ Refuse(u)

(* passwordFits: bcrypt takes the password, which must have 72 bytes or fewer. *)
RegisterUser(u, requireTOTP, passwordFits) ==
  LET acceptable == users[u] = NoAccount /\ passwordFits IN
  /\ Ready
  /\ \/ /\ acceptable
        /\ ChangeAndSave("register", u, NewAccount(requireTOTP), now)
        /\ UNCHANGED strikes
     \/ /\ ~acceptable
        /\ Refuse(u)

(* EnsureBootstrap is silent when the admin exists and creates it otherwise. *)
EnsureBootstrap ==
  /\ Ready
  /\ users[Admin] = NoAccount
  /\ ChangeAndSave("register", Admin, NewAccount(FALSE), now)
  /\ UNCHANGED strikes

(* A fresh secret replaces the old one, verified or not; RequireTOTP stays. *)
SetTOTPSecret(u) ==
  /\ Ready
  /\ \/ /\ users[u] # NoAccount
        /\ users[u].secret < MaxSecret
        /\ ChangeAndSave("setTOTP", u, [users[u] EXCEPT !.secret = @ + 1, !.verified = FALSE], now)
        /\ UNCHANGED strikes
     \/ /\ users[u] = NoAccount
        /\ Refuse(u)

VerifyTOTP(u, rightCode) ==
  LET verifiable == users[u] # NoAccount /\ users[u].secret # NoSecret /\ rightCode IN
  /\ Ready
  /\ \/ /\ verifiable
        /\ ChangeAndSave("verifyTOTP", u, Enrolled(users[u]), now)
        /\ UNCHANGED strikes
     \/ /\ ~verifiable
        /\ Refuse(u)

(* newPasswordFits: at least 8 bytes, and no more than bcrypt takes. *)
ChangePassword(u, rightPassword, newPasswordFits) ==
  LET acceptable == users[u] # NoAccount /\ rightPassword /\ newPasswordFits IN
  /\ Ready
  /\ \/ /\ acceptable
        /\ users[u].pw < MaxPassword
        /\ ChangeAndSave("changePassword", u, [users[u] EXCEPT !.pw = @ + 1], now)
        /\ UNCHANGED strikes
     \/ /\ ~acceptable
        /\ Refuse(u)

-----------------------------------------------------------------------------
(* ... the save itself, saveLocked: a new file beside the old one ...      *)

(* A plausible slip: users.json is rewritten in place, so that a write that
   fails half-way leaves a file the next start takes for an empty one.     *)
WriteInPlace(ok) ==
  /\ op # Idle /\ op.stage = "write"
  /\ \/ /\ ok
        /\ disk' = users
        /\ op' = [op EXCEPT !.stage = "return"]
     \/ /\ ~ok /\ DiskFaults
        /\ disk' = Blank
        /\ op' = [op EXCEPT !.stage = "return", !.err = TRUE]
  /\ UNCHANGED <<phase, users, tmp, now, acked, strikes, unsaved>>

WriteTmp(ok) ==
  /\ op # Idle /\ op.stage = "write"
  /\ \/ /\ ok
        /\ tmp' = users
        /\ op' = [op EXCEPT !.stage = "rename"]
     \/ /\ ~ok /\ DiskFaults
        /\ tmp' \in {tmp, NoFile}
        /\ op' = [op EXCEPT !.stage = "return", !.err = TRUE]
  /\ UNCHANGED <<phase, users, disk, now, acked, strikes, unsaved>>

(* ... which takes the old one's place in one step, or not at all.         *)
Rename(ok) ==
  /\ op # Idle /\ op.stage = "rename"
  /\ \/ /\ ok
        /\ disk' = tmp
        /\ tmp' = NoFile
        /\ unsaved' = {}
        /\ op' = [op EXCEPT !.stage = "return"]
     \/ /\ ~ok /\ DiskFaults
        /\ op' = [op EXCEPT !.stage = "return", !.err = TRUE]
        /\ UNCHANGED <<disk, tmp, unsaved>>
  /\ UNCHANGED <<phase, users, now, acked, strikes>>

(* A plausible slip: a failed save is swallowed, as Authenticate does. *)
AcknowledgesAlways(o) == o.kind \in Changes

(* Every operation but Authenticate returns saveLocked's error, so the     *)
(* caller is told "done" exactly when the save went through.               *)
Acknowledges(o) == o.kind \in Changes /\ ~o.err

(* Bound: of the strikes, the latest are kept, up to the first one too many. *)
Latest(s) == IF Len(s) > MaxAttempts + 1 THEN Tail(s) ELSE s

(* The operation answers its caller and releases the lock.  NewManager     *)
(* instead gives up when its first save fails, and the process ends.       *)
Return ==
  LET u == op.name IN
  /\ op # Idle /\ op.stage = "return"
  /\ op' = Idle
  /\ acked' = IF Acknowledges(op) THEN [acked EXCEPT ![u] = CredentialsOf(users[u])] ELSE acked
  /\ strikes' = IF op.kind = "strike"
                THEN [strikes EXCEPT ![u] = Latest(Append(@, op.at))]
                ELSE strikes
  /\ unsaved' = IF op.kind = "strike" /\ op.err THEN unsaved \cup {u} ELSE unsaved
  /\ \/ /\ op.kind = "boot" /\ op.err
        /\ phase' = "down"
        /\ users' = Blank
     \/ /\ ~(op.kind = "boot" /\ op.err)
        /\ phase' = "up"
        /\ users' = users
  /\ UNCHANGED <<disk, tmp, now>>

-----------------------------------------------------------------------------
(* The process: NewManager at start, and a stop at any step.               *)

(* A plausible slip: the bootstrap looks for users before the file is read. *)
StartUnread ==
  /\ phase = "down"
  /\ users' = [Blank EXCEPT ![Admin] = NewAccount(FALSE)]
  /\ phase' = "booting"
  /\ Hold("boot", Admin, "write", FALSE, now)
  /\ UNCHANGED <<disk, tmp, now, acked, strikes, unsaved>>

(* load, then the bootstrap of a default admin when it found no user.  A   *)
(* file that cannot be read or parsed leaves the process down, unchanged.  *)
Start ==
  /\ phase = "down"
  /\ \/ /\ Present(disk) # {}
        /\ users' = disk
        /\ phase' = "up"
        /\ op' = Idle
     \/ /\ Present(disk) = {}
        /\ users' = [disk EXCEPT ![Admin] = NewAccount(FALSE)]
        /\ phase' = "booting"
        /\ Hold("boot", Admin, "write", FALSE, now)
  /\ UNCHANGED <<disk, tmp, now, acked, strikes, unsaved>>

(* The process stops.  A write cut short leaves part of a temporary file.  *)
(* The history of an account of which the file lacks a strike starts again. *)
Crash ==
  /\ phase # "down"
  /\ phase' = "down"
  /\ users' = Blank
  /\ op' = Idle
  /\ tmp' \in IF op # Idle /\ op.stage = "write" THEN {tmp, NoFile} ELSE {tmp}
  /\ strikes' = [u \in Names |-> IF u \in unsaved THEN <<>> ELSE strikes[u]]
  /\ unsaved' = {}
  /\ UNCHANGED <<disk, now, acked>>

Tick ==
  /\ now < Horizon
  /\ now' = now + 1
  /\ UNCHANGED <<phase, users, disk, tmp, op, acked, strikes, unsaved>>

-----------------------------------------------------------------------------
(* The file may be missing, or hold accounts an operator provisioned. *)
Init ==
  /\ \E provisioned \in SUBSET Names :
       disk = [u \in Names |-> IF u \in provisioned THEN NewAccount(FALSE) ELSE NoAccount]
  /\ acked = [u \in Names |-> CredentialsOf(disk[u])]
  /\ phase = "down"
  /\ users = Blank
  /\ tmp = NoFile
  /\ op = Idle
  /\ now = 0
  /\ strikes = [u \in Names |-> <<>>]
  /\ unsaved = {}

Request(u) ==
  \/ \E right \in BOOLEAN, code \in {"none", "right", "wrong"} : Authenticate(u, right, code)
  \/ \E requireTOTP, fits \in BOOLEAN : RegisterUser(u, requireTOTP, fits)
  \/ SetTOTPSecret(u)
  \/ \E right \in BOOLEAN : VerifyTOTP(u, right)
  \/ \E right, fits \in BOOLEAN : ChangePassword(u, right, fits)

Next ==
  \/ \E u \in Names : Request(u)
  \/ EnsureBootstrap
  \/ \E ok \in BOOLEAN : WriteTmp(ok) \/ Rename(ok)
  \/ Return
  \/ Start
  \/ Crash
  \/ Tick

Spec == Init /\ [][Next]_vars

-----------------------------------------------------------------------------
(* Properties. *)

TypeOK ==
  /\ phase \in {"down", "booting", "up"}
  /\ users \in Image
  /\ disk \in Image
  /\ tmp \in Image \cup {NoFile}
  /\ op \in Operation \cup {Idle}
  /\ now \in Nat
  /\ acked \in [Names -> Credentials \cup {NoAccount}]
  /\ strikes \in [Names -> Seq(Nat)]
  /\ unsaved \in SUBSET Names

(* b holds everything a does, or has replaced it: nothing a says is undone. *)
AtLeast(b, a) ==
  a # NoAccount =>
    /\ b # NoAccount
    /\ a.pw <= b.pw
    /\ a.secret <= b.secret
    /\ a.require => b.require
    /\ (a.verified /\ a.secret = b.secret) => b.verified

(* A change whose caller was told it is done is in the users file from then
   on, whatever fails, stops or is saved later: no acknowledged registration,
   password, secret or enrolment is lost, and no restart brings the default
   admin back over an account that exists. *)
AckedIsDurable == \A u \in Names : AtLeast(disk[u], acked[u])

(* A running server never answers from memory that is behind what it has
   acknowledged, before or after a restart. *)
AckedIsLive == phase = "up" => \A u \in Names : AtLeast(users[u], acked[u])

(* An account whose TOTP was verified has a secret and demands its codes at
   every later login, in memory and in the file a restart reads. *)
VerifiedIsEnforced ==
  \A u \in Names : \A a \in {users[u], disk[u]} :
    (a # NoAccount /\ a.verified) => (a.require /\ a.secret # NoSecret)

(* Lockout: of the wrong attempts answered since the last right one, no
   MaxAttempts + 1 in a row were counted in less than a lockout.  A save of the
   counter that fails, which Authenticate does not notice, takes nothing from
   that while the process runs, nor once any later save has gone through; a
   restart starts anew only for an account it finds behind its strikes. *)
LockoutBounds ==
  \A u \in Names : \A first, last \in DOMAIN strikes[u] :
    last = first + MaxAttempts => strikes[u][first] + Lockout <= strikes[u][last]

(* The users file is only ever a whole image of the accounts that were in
   memory, and a restart shows it: the store of CrashStore. *)
Store == INSTANCE CrashStore WITH
           Empty   <- Blank,
           running <- phase # "down",
           live    <- IF phase = "down" THEN disk ELSE users,
           durable <- disk

StoreSpec == Store!Spec

(* For TLC: no step reads the history of strikes, nor a temporary file that is
   not about to be renamed, so states that differ only there are the same.  *)
ViewWithoutStrikes ==
  <<phase, users, disk, op, now, acked,
    IF op # Idle /\ op.stage = "rename" THEN tmp ELSE NoFile>>
=============================================================================
