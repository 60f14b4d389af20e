------------------------- MODULE AuthManagerProofs -------------------------
(***************************************************************************)
(* For any accounts, limits and bounds, with file faults and crashes at    *)
(* any step: the type invariant, the durability of acknowledged changes,   *)
(* and that the users file is the store of CrashStore.                     *)
(***************************************************************************)
EXTENDS AuthManager, TLAPS

-----------------------------------------------------------------------------
(* The type invariant. *)

LEMMA NewAccountType ==
  ASSUME NEW r \in BOOLEAN PROVE NewAccount(r) \in Account
BY DEF NewAccount, Account, DefaultPassword, NoSecret

LEMMA AccountIsSome ==
  ASSUME NEW a \in Account \cup {NoAccount} PROVE a # NoAccount <=> a \in Account
BY NoAccountIsNone

LEMMA CredentialsType ==
  ASSUME NEW a \in Account \cup {NoAccount}
  PROVE  CredentialsOf(a) \in Credentials \cup {NoAccount}
BY DEF CredentialsOf, Account, Credentials

LEMMA StrikeType ==
  ASSUME NEW a \in Account, NEW t \in Nat PROVE Strike(a, t) \in Account
<1>1. t + Lockout \in Nat /\ a.failed + 1 \in Nat
  BY LimitsArePositive DEF Account
<1>2. /\ [a EXCEPT !.failed = 0, !.lockedUntil = t + Lockout] \in Account
      /\ [a EXCEPT !.failed = a.failed + 1] \in Account
  BY <1>1 DEF Account
<1> QED
  BY <1>2 DEF Strike

LEMMA Ahead ==
  ASSUME NEW a \in Account, NEW b \in Account,
         a.pw <= b.pw, a.secret <= b.secret, a.require => b.require,
         (a.verified /\ a.secret = b.secret) => b.verified
  PROVE  AtLeast(b, a)
BY NoAccountIsNone DEF AtLeast

LEMMA BlankType == Blank \in Image
BY DEF Blank, Image

LEMMA StrikesType ==
  ASSUME NEW s \in Seq(Nat), NEW t \in Nat
  PROVE  Latest(Append(s, t)) \in Seq(Nat)
BY LimitsArePositive DEF Latest

(* What a change of u's account to b does to its lock, by the operation that makes it. *)
KeepsLock(b, a) ==
  IF a = NoAccount THEN b.failed = 0
  ELSE b.failed = a.failed /\ b.lockedUntil = a.lockedUntil

LockStep(k, u, b, t) ==
  \/ /\ k = "strike"
     /\ users[u] # NoAccount /\ ~(now < users[u].lockedUntil)
     /\ b = Strike(users[u], t)
     /\ UNCHANGED strikes
  \/ /\ k = "login"
     /\ b.failed = 0
     /\ strikes' = [strikes EXCEPT ![u] = <<>>]
  \/ /\ k \in Changes
     /\ KeepsLock(b, users[u])
     /\ UNCHANGED strikes

(* Every request either leaves memory alone and answers, or changes one     *)
(* account and goes on to save: what the proofs below need of a request.   *)
ChangeStep(u) ==
  /\ Ready
  /\ \E a \in Account, k \in Kinds, t \in Nat :
       /\ k # "boot"
       /\ now <= t /\ now' = t
       /\ AtLeast(a, users[u])
       /\ (a.verified => \/ a.require /\ a.secret # NoSecret
                         \/ users[u] # NoAccount /\ users[u].verified
                              /\ a.require = users[u].require /\ a.secret = users[u].secret)
       /\ users' = [users EXCEPT ![u] = a]
       /\ Hold(k, u, "write", FALSE, t)
       /\ LockStep(k, u, a, t)
  /\ UNCHANGED <<phase, disk, tmp, acked, unsaved>>

RefuseStep(u) == Ready /\ Refuse(u)

LEMMA Requests ==
  ASSUME TypeOK, NEW u \in Names, Request(u)
  PROVE  ChangeStep(u) \/ RefuseStep(u)
<1> DEFINE a == users[u]
<1>0. a \in Account \cup {NoAccount} /\ now \in Nat /\ now <= now
  BY DEF TypeOK, Image
<1>1. ASSUME NEW right \in BOOLEAN, NEW code \in {"none", "right", "wrong"},
             Authenticate(u, right, code)
      PROVE  ChangeStep(u) \/ RefuseStep(u)
  <2> DEFINE verdict == Verdict(a, right, code)
  <2>1. CASE verdict = "welcome"
    <3> DEFINE b == [a EXCEPT !.failed = 0, !.lockedUntil = 0]
    <3>1. a \in Account
      BY <2>1, <1>0, AccountIsSome DEF Verdict
    <3>2. b \in Account
      BY <3>1 DEF Account
    <3>3. /\ b.verified = a.verified /\ b.require = a.require /\ b.secret = a.secret
          /\ a.pw <= b.pw /\ a.secret <= b.secret
      BY <3>1 DEF Account
    <3>4. b \in Account /\ AtLeast(b, a)
      BY <3>1, <3>2, <3>3, Ahead
    <3>5. a # NoAccount
      BY <3>1, <1>0, AccountIsSome
    <3>6. Ready /\ ChangeAndSave("login", u, b, now) /\ strikes' = [strikes EXCEPT ![u] = <<>>]
      BY <1>1, <2>1 DEF Authenticate
    <3>7. LockStep("login", u, b, now)
      BY <3>1, <3>6 DEF LockStep, Account
    <3> QED
      BY <1>0, <3>4, <3>3, <3>5, <3>6, <3>7 DEF ChangeStep, ChangeAndSave, Kinds, Logins
  <2>2. CASE verdict \in {"wrong password", "wrong code"}
    <3>0. PICK t \in now .. Horizon :
            ChangeAndSave("strike", u, Strike(a, t), t) /\ UNCHANGED strikes
      BY <1>1, <2>2 DEF Authenticate
    <3>t. t \in Nat /\ now <= t
      BY <1>0, BoundsAreNumbers
    <3> DEFINE b == Strike(a, t)
    <3>1. a \in Account
      BY <2>2, <1>0, AccountIsSome DEF Verdict
    <3>2. b \in Account
      BY <3>1, <3>t, StrikeType
    <3>3. /\ b.verified = a.verified /\ b.require = a.require /\ b.secret = a.secret
          /\ a.pw <= b.pw /\ a.secret <= b.secret
      BY <3>1 DEF Account, Strike
    <3>4. b \in Account /\ AtLeast(b, a)
      BY <3>1, <3>2, <3>3, Ahead
    <3>5. a # NoAccount
      BY <3>1, <1>0, AccountIsSome
    <3>6. Ready /\ ChangeAndSave("strike", u, b, t) /\ UNCHANGED strikes
      BY <1>1, <3>0 DEF Authenticate
    <3>7. LockStep("strike", u, b, t)
      <4>1. ~(now < a.lockedUntil)
        BY <2>2, <3>5 DEF Verdict
      <4> QED
        BY <3>5, <3>6, <4>1 DEF LockStep
    <3> HIDE DEF b
    <3> QED
      BY <3>t, <3>4, <3>3, <3>5, <3>6, <3>7 DEF ChangeStep, ChangeAndSave, Kinds, Logins
  <2>3. CASE verdict \in {"unknown user", "locked", "code required", "not configured"}
    BY <1>1, <2>3 DEF Authenticate, RefuseStep
  <2> QED
    BY <1>1, <2>1, <2>2, <2>3 DEF Authenticate
<1>2. ASSUME NEW r \in BOOLEAN, NEW fits \in BOOLEAN, RegisterUser(u, r, fits)
      PROVE  ChangeStep(u) \/ RefuseStep(u)
  <2>1. CASE a = NoAccount /\ fits
    <3>1. AtLeast(NewAccount(r), a) /\ NewAccount(r).verified = FALSE
      BY <2>1 DEF AtLeast, NewAccount
    <3>2. LockStep("register", u, NewAccount(r), now)
      BY <1>2, <2>1 DEF RegisterUser, LockStep, KeepsLock, NewAccount, Changes
    <3> QED
      BY <1>0, <1>2, <2>1, <3>1, <3>2, NewAccountType
      DEF RegisterUser, ChangeStep, ChangeAndSave, Kinds, Changes
  <2> QED
    BY <1>2, <2>1 DEF RegisterUser, RefuseStep
<1>3. ASSUME SetTOTPSecret(u) PROVE ChangeStep(u) \/ RefuseStep(u)
  <2> DEFINE b == [a EXCEPT !.secret = @ + 1, !.verified = FALSE]
  <2>1. CASE a # NoAccount
    <3>1. a \in Account
      BY <2>1, <1>0, AccountIsSome
    <3>2. a.secret + 1 \in Nat
      BY <3>1 DEF Account
    <3>3. b \in Account
      BY <3>1, <3>2 DEF Account
    <3>4. /\ a.pw <= b.pw /\ a.secret <= b.secret /\ a.secret # b.secret
          /\ a.require = b.require /\ b.verified = FALSE
      BY <3>1 DEF Account
    <3>5. AtLeast(b, a)
      <4> HIDE DEF a, b
      <4> QED BY <3>1, <3>3, <3>4, Ahead
    <3>6. b \in Account /\ AtLeast(b, a) /\ b.verified = FALSE
      BY <3>3, <3>4, <3>5
    <3>7. Ready /\ ChangeAndSave("setTOTP", u, b, now) /\ UNCHANGED strikes
      BY <1>3, <2>1 DEF SetTOTPSecret
    <3>8. LockStep("setTOTP", u, b, now)
      BY <2>1, <3>1, <3>7 DEF LockStep, KeepsLock, Account, Changes
    <3> QED
      BY <1>0, <3>6, <3>7, <3>8 DEF ChangeStep, ChangeAndSave, Kinds, Changes
  <2> QED
    BY <1>3, <2>1 DEF SetTOTPSecret, RefuseStep
<1>4. ASSUME NEW right \in BOOLEAN, VerifyTOTP(u, right)
      PROVE  ChangeStep(u) \/ RefuseStep(u)
  <2> DEFINE b == Enrolled(a)
  <2>1. CASE a # NoAccount /\ a.secret # NoSecret /\ right
    <3>1. a \in Account
      BY <2>1, <1>0, AccountIsSome
    <3>2. b \in Account
      BY <3>1 DEF Account, Enrolled
    <3>3. a.pw <= b.pw /\ a.secret = b.secret /\ b.require /\ b.verified
      BY <3>1 DEF Account, Enrolled
    <3>4. b \in Account /\ AtLeast(b, a) /\ b.require /\ b.secret # NoSecret
      BY <2>1, <3>1, <3>2, <3>3, Ahead DEF Account
    <3>5. Ready /\ ChangeAndSave("verifyTOTP", u, b, now) /\ UNCHANGED strikes
      BY <1>4, <2>1 DEF VerifyTOTP
    <3>6. LockStep("verifyTOTP", u, b, now)
      BY <2>1, <3>1, <3>5 DEF LockStep, KeepsLock, Account, Changes, Enrolled
    <3> QED
      BY <1>0, <3>4, <3>5, <3>6 DEF ChangeStep, ChangeAndSave, Kinds, Changes
  <2> QED
    BY <1>4, <2>1 DEF VerifyTOTP, RefuseStep
<1>5. ASSUME NEW right \in BOOLEAN, NEW fits \in BOOLEAN, ChangePassword(u, right, fits)
      PROVE  ChangeStep(u) \/ RefuseStep(u)
  <2> DEFINE b == [a EXCEPT !.pw = @ + 1]
  <2>1. CASE a # NoAccount /\ right /\ fits
    <3>1. a \in Account
      BY <2>1, <1>0, AccountIsSome
    <3>2. b \in Account
      BY <3>1 DEF Account
    <3>3. /\ b.verified = a.verified /\ b.require = a.require /\ b.secret = a.secret
          /\ a.pw <= b.pw /\ a.secret <= b.secret
      BY <3>1 DEF Account
    <3>4. b \in Account /\ AtLeast(b, a)
      BY <3>1, <3>2, <3>3, Ahead
    <3>5. Ready /\ ChangeAndSave("changePassword", u, b, now) /\ UNCHANGED strikes
      BY <1>5, <2>1 DEF ChangePassword
    <3>6. LockStep("changePassword", u, b, now)
      BY <2>1, <3>1, <3>5 DEF LockStep, KeepsLock, Account, Changes
    <3> QED
      BY <1>0, <2>1, <3>4, <3>3, <3>5, <3>6 DEF ChangeStep, ChangeAndSave, Kinds, Changes
  <2> QED
    BY <1>5, <2>1 DEF ChangePassword, RefuseStep
<1> QED
  BY <1>1, <1>2, <1>3, <1>4, <1>5 DEF Request

LEMMA Bootstraps ==
  ASSUME TypeOK, EnsureBootstrap PROVE ChangeStep(Admin)
<1>1. AtLeast(NewAccount(FALSE), users[Admin]) /\ NewAccount(FALSE).verified = FALSE
  BY DEF EnsureBootstrap, AtLeast, NewAccount
<1>2. LockStep("register", Admin, NewAccount(FALSE), now)
  BY DEF EnsureBootstrap, LockStep, KeepsLock, NewAccount, Changes
<1>3. now \in Nat /\ now <= now
  BY DEF TypeOK
<1> QED
  BY <1>1, <1>2, <1>3, NewAccountType, AdminIsAName
  DEF EnsureBootstrap, ChangeStep, ChangeAndSave, Kinds, Changes

(* Every step of the manager, requests by their two outcomes. *)
LEMMA Steps ==
  ASSUME TypeOK, [Next]_vars
  PROVE  \/ \E u \in Names : ChangeStep(u) \/ RefuseStep(u)
         \/ \E ok \in BOOLEAN : WriteTmp(ok) \/ Rename(ok)
         \/ Return \/ Start \/ Crash \/ Tick \/ UNCHANGED vars
BY Requests, Bootstraps, AdminIsAName DEF Next

LEMMA HoldType ==
  ASSUME NEW k \in Kinds, NEW u \in Names, NEW stage \in {"write", "rename", "return"},
         NEW err \in BOOLEAN, NEW t \in Nat, Hold(k, u, stage, err, t)
  PROVE  /\ op' \in Operation /\ op' # Idle /\ op'.at = t
         /\ op'.kind = k /\ op'.name = u /\ op'.stage = stage /\ op'.err = err
BY IdleIsNone DEF Hold, Operation

LEMMA OperationIsSome ==
  ASSUME op \in Operation \cup {Idle}, op # Idle
  PROVE  /\ op \in Operation
         /\ \A stage \in {"write", "rename", "return"} : [op EXCEPT !.stage = stage] \in Operation
         /\ \A stage \in {"write", "rename", "return"}, err \in BOOLEAN :
               [op EXCEPT !.stage = stage, !.err = err] \in Operation
BY IdleIsNone DEF Operation

-----------------------------------------------------------------------------
(* The inductive invariant.  AckedIsDurable is not inductive by itself: the *)
(* acknowledgement follows the rename, so the proof needs what the steps of *)
(* one save have established by the time the next one is taken.             *)

TmpHoldsUsers == (op # Idle /\ op.stage = "rename") => tmp = users

SavedWhenTold == (op # Idle /\ op.stage = "return" /\ Acknowledges(op)) => disk = users

StoppedHoldsNothing == op # Idle => phase # "down"

MemoryIsAhead == phase # "down" => \A u \in Names : AtLeast(users[u], disk[u])

SaveInv == /\ TmpHoldsUsers
           /\ SavedWhenTold
           /\ StoppedHoldsNothing
           /\ MemoryIsAhead
           /\ AckedIsDurable

Inv == TypeOK /\ SaveInv

LEMMA TypeStep == TypeOK /\ TmpHoldsUsers /\ [Next]_vars => TypeOK'
<1> SUFFICES ASSUME TypeOK, TmpHoldsUsers, [Next]_vars PROVE TypeOK'
  OBVIOUS
<1>1. ASSUME NEW u \in Names, ChangeStep(u) PROVE TypeOK'
  <2>1. PICK a \in Account, k \in Kinds, t \in Nat :
          /\ users' = [users EXCEPT ![u] = a]
          /\ Hold(k, u, "write", FALSE, t)
          /\ now' = t
    BY <1>1 DEF ChangeStep
  <2>2. users' \in Image
    BY <2>1 DEF TypeOK, Image
  <2>3. op' \in Operation
    BY <2>1, HoldType DEF TypeOK
  <2>4. strikes' \in [Names -> Seq(Nat)]
    <3>1. <<>> \in Seq(Nat)
      OBVIOUS
    <3> QED
      BY <1>1, <3>1 DEF ChangeStep, LockStep, TypeOK
  <2> QED
    BY <1>1, <2>2, <2>3, <2>4 DEF ChangeStep, TypeOK
<1>2. ASSUME NEW u \in Names, RefuseStep(u) PROVE TypeOK'
  <2>1. op' \in Operation
    BY <1>2, HoldType DEF RefuseStep, Refuse, Kinds, TypeOK
  <2> QED
    BY <1>2, <2>1 DEF RefuseStep, Refuse, TypeOK
<1>3. ASSUME NEW ok \in BOOLEAN, WriteTmp(ok) PROVE TypeOK'
  BY <1>3, OperationIsSome DEF WriteTmp, TypeOK
<1>4. ASSUME NEW ok \in BOOLEAN, Rename(ok) PROVE TypeOK'
  <2>1. ok => tmp \in Image
    BY <1>4 DEF Rename, TypeOK, TmpHoldsUsers
  <2> QED
    BY <1>4, <2>1, OperationIsSome DEF Rename, TypeOK
<1>5. CASE Return
  <2>1. op \in Operation /\ op.name \in Names
    BY <1>5, OperationIsSome DEF Return, TypeOK, Operation
  <2>2. acked' \in [Names -> Credentials \cup {NoAccount}]
    BY <1>5, <2>1, CredentialsType DEF Return, TypeOK, Image
  <2>3. strikes' \in [Names -> Seq(Nat)]
    <3>1. op.at \in Nat
      BY <2>1 DEF Operation
    <3>2. Latest(Append(strikes[op.name], op.at)) \in Seq(Nat)
      BY <2>1, <3>1, StrikesType DEF TypeOK
    <3> QED
      BY <1>5, <2>1, <3>2 DEF Return, TypeOK
  <2>4. users' \in Image
    BY <1>5, BlankType DEF Return, TypeOK
  <2> QED
    BY <1>5, <2>2, <2>3, <2>4 DEF Return, TypeOK
<1>6. CASE Start
  <2>1. users' \in Image
    BY <1>6, NewAccountType DEF Start, TypeOK, Image
  <2>2. op' \in Operation \cup {Idle}
    BY <1>6, HoldType, AdminIsAName DEF Start, TypeOK, Kinds, Changes
  <2> QED
    BY <1>6, <2>1, <2>2 DEF Start, TypeOK
<1>7. CASE Crash
  BY <1>7, BlankType DEF Crash, TypeOK
<1>8. CASE Tick
  BY <1>8 DEF Tick, TypeOK
<1>9. CASE UNCHANGED vars
  BY <1>9 DEF vars, TypeOK
<1> QED
  BY <1>1, <1>2, <1>3, <1>4, <1>5, <1>6, <1>7, <1>8, <1>9, Steps


LEMMA InitType == Init => TypeOK
<1> SUFFICES ASSUME Init PROVE TypeOK
  OBVIOUS
<1>1. disk \in Image /\ users \in Image
  BY NewAccountType, BlankType DEF Init, Image
<1>2. acked \in [Names -> Credentials \cup {NoAccount}]
  BY <1>1, CredentialsType DEF Init, Image
<1>3. strikes \in [Names -> Seq(Nat)]
  BY DEF Init
<1> QED
  BY <1>1, <1>2, <1>3 DEF Init, TypeOK

LEMMA AtLeastRefl ==
  ASSUME NEW a \in Account \cup {NoAccount}
  PROVE  AtLeast(a, a) /\ AtLeast(a, CredentialsOf(a))
BY NoAccountIsNone DEF AtLeast, CredentialsOf, Account

LEMMA AtLeastTrans ==
  ASSUME NEW a \in Account \cup Credentials \cup {NoAccount},
         NEW b \in Account \cup {NoAccount}, NEW c \in Account \cup {NoAccount},
         AtLeast(b, a), AtLeast(c, b)
  PROVE  AtLeast(c, a)
BY DEF AtLeast, Account, Credentials

(* A change goes forward in memory, away from the users file. *)
LEMMA InvChange ==
  ASSUME Inv, NEW u \in Names, ChangeStep(u) PROVE SaveInv'
<1>1. PICK a \in Account, k \in Kinds, t \in Nat :
        /\ AtLeast(a, users[u])
        /\ users' = [users EXCEPT ![u] = a]
        /\ Hold(k, u, "write", FALSE, t)
  BY DEF ChangeStep
<1>2. op' # Idle /\ op'.stage = "write"
  BY <1>1, HoldType DEF Inv, SaveInv, TypeOK
<1>3. TmpHoldsUsers' /\ SavedWhenTold'
  BY <1>2 DEF TmpHoldsUsers, SavedWhenTold
<1>4. StoppedHoldsNothing' /\ phase = "up"
  BY DEF ChangeStep, Ready, StoppedHoldsNothing
<1>5. MemoryIsAhead'
  <2> SUFFICES ASSUME NEW v \in Names PROVE AtLeast(users'[v], disk[v])
    BY DEF ChangeStep, MemoryIsAhead
  <2>1. AtLeast(users[v], disk[v]) /\ AtLeast(users'[v], users[v])
    BY <1>1, <1>4, AtLeastRefl DEF Inv, SaveInv, MemoryIsAhead, TypeOK, Image
  <2>2. users'[v] \in Account \cup {NoAccount}
    BY <1>1 DEF Inv, SaveInv, TypeOK, Image
  <2> QED
    BY <2>1, <2>2, AtLeastTrans DEF Inv, SaveInv, TypeOK, Image
<1>6. AckedIsDurable'
  BY DEF ChangeStep, Inv, SaveInv, AckedIsDurable
<1> QED
  BY <1>3, <1>4, <1>5, <1>6 DEF Inv, SaveInv

LEMMA InvInit == Init => Inv
<1> SUFFICES ASSUME Init PROVE Inv
  OBVIOUS
<1>1. TypeOK
  BY InitType
<1>2. AckedIsDurable
  BY <1>1, AtLeastRefl DEF Init, AckedIsDurable, TypeOK, Image
<1> QED
  BY <1>1, <1>2
  DEF Init, Inv, SaveInv, TmpHoldsUsers, SavedWhenTold, StoppedHoldsNothing, MemoryIsAhead

LEMMA InvReturn ==
  ASSUME Inv, Return PROVE SaveInv'
<1> DEFINE u == op.name
<1>1. op \in Operation /\ u \in Names /\ phase # "down"
  BY OperationIsSome DEF Return, Inv, SaveInv, TypeOK, StoppedHoldsNothing, Operation
<1>2. TmpHoldsUsers' /\ SavedWhenTold' /\ StoppedHoldsNothing'
  BY DEF Return, TmpHoldsUsers, SavedWhenTold, StoppedHoldsNothing
<1>3. MemoryIsAhead'
  BY <1>1 DEF Return, Inv, SaveInv, MemoryIsAhead
<1>4. AckedIsDurable'
  <2>1. CASE Acknowledges(op)
    <3>1. disk = users
      BY <2>1 DEF Return, Inv, SaveInv, SavedWhenTold
    <3>2. AtLeast(disk[u], CredentialsOf(users[u]))
      BY <1>1, <3>1, AtLeastRefl DEF Inv, TypeOK, Image
    <3>3. acked' = [acked EXCEPT ![u] = CredentialsOf(users[u])] /\ disk' = disk
      BY <2>1 DEF Return
    <3> QED
      BY <1>1, <3>2, <3>3 DEF Inv, SaveInv, TypeOK, AckedIsDurable
  <2>2. CASE ~Acknowledges(op)
    BY <2>2 DEF Return, Inv, SaveInv, AckedIsDurable
  <2> QED
    BY <2>1, <2>2
<1> QED
  BY <1>2, <1>3, <1>4 DEF SaveInv

(* A restart finds nothing newer than the file, and a bootstrap happens only
   where the file has no account to lose. *)
LEMMA InvStart ==
  ASSUME Inv, Start PROVE SaveInv'
<1>1. TmpHoldsUsers' /\ SavedWhenTold' /\ StoppedHoldsNothing'
  <2>1. CASE op' = Idle
    BY <2>1 DEF TmpHoldsUsers, SavedWhenTold, StoppedHoldsNothing
  <2>2. CASE Hold("boot", Admin, "write", FALSE, now) /\ phase' = "booting"
    <3>1. op'.stage = "write"
      BY <2>2, HoldType, AdminIsAName DEF Inv, TypeOK, Kinds, Changes
    <3> QED
      BY <2>2, <3>1 DEF TmpHoldsUsers, SavedWhenTold, StoppedHoldsNothing
  <2> QED
    BY <2>1, <2>2 DEF Start
<1>2. MemoryIsAhead'
  <2> SUFFICES ASSUME NEW v \in Names PROVE AtLeast(users'[v], disk[v])
    BY DEF Start, MemoryIsAhead
  <2>1. CASE users' = disk
    BY <2>1, AtLeastRefl DEF Inv, TypeOK, Image
  <2>2. CASE Present(disk) = {}
    BY <2>2 DEF Present, AtLeast
  <2> QED
    BY <2>1, <2>2 DEF Start
<1>3. AckedIsDurable'
  BY DEF Start, Inv, SaveInv, AckedIsDurable
<1> QED
  BY <1>1, <1>2, <1>3 DEF SaveInv

LEMMA InvStep == Inv /\ [Next]_vars => Inv'
<1> SUFFICES ASSUME Inv, [Next]_vars PROVE Inv'
  OBVIOUS
<1>0. TypeOK'
  BY TypeStep DEF Inv, SaveInv
<1>1. ASSUME NEW u \in Names, ChangeStep(u) PROVE SaveInv'
  BY <1>1, InvChange
<1>2. ASSUME NEW u \in Names, RefuseStep(u) PROVE SaveInv'
  <2>1. op'.stage = "return" /\ op'.err = TRUE
    BY <1>2, HoldType DEF RefuseStep, Refuse, Inv, TypeOK, Kinds
  <2>2. TmpHoldsUsers' /\ SavedWhenTold'
    BY <2>1 DEF TmpHoldsUsers, SavedWhenTold, Acknowledges
  <2> QED
    BY <1>2, <2>2 DEF RefuseStep, Refuse, Ready, Inv, SaveInv, StoppedHoldsNothing,
                      MemoryIsAhead, AckedIsDurable
<1>3. ASSUME NEW ok \in BOOLEAN, WriteTmp(ok) PROVE SaveInv'
  <2>1. op \in Operation /\ phase # "down"
    BY <1>3, OperationIsSome DEF WriteTmp, Inv, SaveInv, TypeOK, StoppedHoldsNothing
  <2>2. \/ op'.stage = "rename" /\ tmp' = users
        \/ op'.stage = "return" /\ op'.err = TRUE
    BY <1>3, <2>1 DEF WriteTmp, Operation
  <2>3. TmpHoldsUsers' /\ SavedWhenTold'
    BY <1>3, <2>2 DEF WriteTmp, TmpHoldsUsers, SavedWhenTold, Acknowledges
  <2> QED
    BY <1>3, <2>1, <2>3 DEF WriteTmp, Inv, SaveInv, StoppedHoldsNothing, MemoryIsAhead,
                            AckedIsDurable
<1>4. ASSUME NEW ok \in BOOLEAN, Rename(ok) PROVE SaveInv'
  <2>1. op \in Operation /\ phase # "down" /\ tmp = users
    BY <1>4, OperationIsSome
    DEF Rename, Inv, SaveInv, TypeOK, StoppedHoldsNothing, TmpHoldsUsers
  <2>2. CASE disk' = tmp /\ op' = [op EXCEPT !.stage = "return"]
    <3>1. TmpHoldsUsers' /\ SavedWhenTold'
      BY <1>4, <2>1, <2>2 DEF Rename, Operation, TmpHoldsUsers, SavedWhenTold
    <3>2. MemoryIsAhead'
      BY <1>4, <2>1, <2>2, AtLeastRefl DEF Rename, Inv, TypeOK, Image, MemoryIsAhead
    <3>3. AckedIsDurable'
      <4> SUFFICES ASSUME NEW v \in Names PROVE AtLeast(users[v], acked[v])
        BY <1>4, <2>1, <2>2 DEF Rename, AckedIsDurable
      <4>1. AtLeast(users[v], disk[v]) /\ AtLeast(disk[v], acked[v])
        BY <2>1 DEF Inv, SaveInv, MemoryIsAhead, AckedIsDurable
      <4> QED
        BY <4>1, AtLeastTrans DEF Inv, TypeOK, Image
    <3> QED
      BY <1>4, <2>1, <3>1, <3>2, <3>3 DEF Rename, SaveInv, StoppedHoldsNothing
  <2>3. CASE disk' = disk /\ op' = [op EXCEPT !.stage = "return", !.err = TRUE]
    <3>1. TmpHoldsUsers' /\ SavedWhenTold'
      BY <2>1, <2>3 DEF Operation, TmpHoldsUsers, SavedWhenTold, Acknowledges
    <3> QED
      BY <1>4, <2>1, <2>3, <3>1 DEF Rename, Inv, SaveInv, StoppedHoldsNothing, MemoryIsAhead,
                                    AckedIsDurable
  <2> QED
    BY <1>4, <2>2, <2>3 DEF Rename
<1>5. ASSUME Return PROVE SaveInv'
  BY <1>5, InvReturn
<1>6. ASSUME Start PROVE SaveInv'
  BY <1>6, InvStart
<1>7. ASSUME Crash PROVE SaveInv'
  BY <1>7 DEF Crash, Inv, SaveInv, TmpHoldsUsers, SavedWhenTold, StoppedHoldsNothing,
              MemoryIsAhead, AckedIsDurable
<1>8. ASSUME Tick PROVE SaveInv'
  BY <1>8 DEF Tick, Inv, SaveInv, TmpHoldsUsers, SavedWhenTold, StoppedHoldsNothing,
              MemoryIsAhead, AckedIsDurable
<1>9. ASSUME UNCHANGED vars PROVE SaveInv'
  BY <1>9 DEF vars, Inv, SaveInv, TmpHoldsUsers, SavedWhenTold, StoppedHoldsNothing,
              MemoryIsAhead, AckedIsDurable
<1>10. SaveInv'
  BY <1>1, <1>2, <1>3, <1>4, <1>5, <1>6, <1>7, <1>8, <1>9, Steps DEF Inv
<1> QED
  BY <1>0, <1>10 DEF Inv

(* The invariant of every reachable state, with faults and crashes anywhere. *)
THEOREM Invariant == Spec => []Inv
BY InvInit, InvStep, PTL DEF Spec

-----------------------------------------------------------------------------
(* What a reader should know of. *)

(* Every reachable state is of its type, whatever fails and stops. *)
THEOREM TypeCorrect == Spec => []TypeOK
<1>1. Inv => TypeOK
  BY DEF Inv
<1> QED
  BY <1>1, Invariant, PTL

(* No change a caller was told is done is ever lost from the users file. *)
THEOREM Durability == Spec => []AckedIsDurable
<1>1. Inv => AckedIsDurable
  BY DEF Inv, SaveInv
<1> QED
  BY <1>1, Invariant, PTL

(* No running server answers from memory behind what it acknowledged. *)
THEOREM NothingForgotten == Spec => []AckedIsLive
<1>1. Inv => AckedIsLive
  <2> SUFFICES ASSUME Inv, phase = "up", NEW u \in Names PROVE AtLeast(users[u], acked[u])
    BY DEF AckedIsLive
  <2>1. AtLeast(users[u], disk[u]) /\ AtLeast(disk[u], acked[u])
    BY DEF Inv, SaveInv, MemoryIsAhead, AckedIsDurable
  <2> QED
    BY <2>1, AtLeastTrans DEF Inv, TypeOK, Image
<1> QED
  BY <1>1, Invariant, PTL

(* A verified account demands a code of its secret, in memory and on disk. *)
THEOREM EnrolmentHolds == Spec => []VerifiedIsEnforced
<1> DEFINE Enforced(a) == (a # NoAccount /\ a.verified) => (a.require /\ a.secret # NoSecret)
<1>1. Init => VerifiedIsEnforced
  BY DEF Init, Blank, NewAccount, VerifiedIsEnforced
<1>2. Inv /\ VerifiedIsEnforced /\ [Next]_vars => VerifiedIsEnforced'
  <2> SUFFICES ASSUME Inv, VerifiedIsEnforced, [Next]_vars, NEW u \in Names
               PROVE  Enforced(users'[u]) /\ Enforced(disk'[u])
    BY DEF VerifiedIsEnforced
  <2>0. Enforced(users[u]) /\ Enforced(disk[u])
    BY DEF VerifiedIsEnforced
  <2>1. ASSUME NEW v \in Names, ChangeStep(v)
        PROVE  Enforced(users'[u]) /\ Enforced(disk'[u])
    <3>1. PICK a \in Account :
            /\ a.verified => \/ a.require /\ a.secret # NoSecret
                             \/ users[v] # NoAccount /\ users[v].verified
                                  /\ a.require = users[v].require /\ a.secret = users[v].secret
            /\ users' = [users EXCEPT ![v] = a]
      BY <2>1 DEF ChangeStep
    <3>2. Enforced(a)
      BY <3>1 DEF VerifiedIsEnforced
    <3> HIDE DEF Enforced
    <3> QED
      BY <2>0, <2>1, <3>1, <3>2 DEF ChangeStep, Inv, TypeOK, Image
  <2>2. ASSUME NEW v \in Names, RefuseStep(v) PROVE UNCHANGED <<users, disk>>
    BY <2>2 DEF RefuseStep, Refuse
  <2>3. ASSUME NEW ok \in BOOLEAN, WriteTmp(ok) PROVE UNCHANGED <<users, disk>>
    BY <2>3 DEF WriteTmp
  <2>4. ASSUME NEW ok \in BOOLEAN, Rename(ok) PROVE users' = users /\ disk' \in {disk, users}
    BY <2>4 DEF Rename, Inv, SaveInv, TmpHoldsUsers
  <2>5. ASSUME Return \/ Crash \/ Tick \/ UNCHANGED vars
        PROVE  users' \in {users, Blank} /\ disk' = disk
    BY <2>5 DEF Return, Crash, Tick, vars
  <2>6. ASSUME Start
        PROVE  disk' = disk /\ \/ users' = disk
                               \/ users' = [disk EXCEPT ![Admin] = NewAccount(FALSE)]
    BY <2>6 DEF Start
  <2>7. Enforced(Blank[u]) /\ Enforced(NewAccount(FALSE))
    BY DEF Blank, NewAccount
  <2> HIDE DEF Enforced
  <2>8. Start => Enforced(users'[u])
    BY <2>0, <2>6, <2>7, AdminIsAName DEF Inv, TypeOK, Image
  <2> QED
    BY <2>0, <2>1, <2>2, <2>3, <2>4, <2>5, <2>6, <2>7, <2>8, Steps DEF Inv
<1> QED
  BY <1>1, <1>2, Invariant, PTL DEF Spec

(* The users file and the memory it is saved from are a CrashStore. *)
THEOREM IsACrashStore == Spec => StoreSpec
<1> DEFINE running == phase # "down"
           live    == IF running THEN users ELSE disk
<1>1. Init => Store!Init
  <2> SUFFICES ASSUME Init PROVE Store!Init
    OBVIOUS
  <2>1. TypeOK
    BY InitType
  <2> QED
    BY <2>1 DEF Init, TypeOK, Store!Init
<1>2. Inv /\ Inv' /\ [Next]_vars => [Store!Next]_Store!vars
  <2> SUFFICES ASSUME Inv, Inv', [Next]_vars PROVE [Store!Next]_Store!vars
    OBVIOUS
  <2> USE DEF Store!Next, Store!vars
  <2>0. users' \in Image
    BY DEF Inv, TypeOK
  <2>1. ASSUME NEW u \in Names, ChangeStep(u) PROVE Store!Change
    BY <2>0, <2>1 DEF ChangeStep, Ready, Store!Change
  <2>2. ASSUME NEW u \in Names, RefuseStep(u) PROVE UNCHANGED Store!vars
    BY <2>2 DEF RefuseStep, Refuse
  <2>3. ASSUME NEW ok \in BOOLEAN, WriteTmp(ok) PROVE UNCHANGED Store!vars
    BY <2>3 DEF WriteTmp
  <2>4. ASSUME NEW ok \in BOOLEAN, Rename(ok) PROVE Store!Save \/ UNCHANGED Store!vars
    BY <2>4 DEF Rename, Inv, SaveInv, StoppedHoldsNothing, TmpHoldsUsers, Store!Save
  <2>5. ASSUME Return PROVE Store!Stop \/ UNCHANGED Store!vars
    BY <2>5 DEF Return, Inv, SaveInv, StoppedHoldsNothing, Store!Stop
  <2>6. ASSUME Start PROVE Store!Start
    <3>1. Present(disk) = {} => disk = Blank
      BY DEF Present, Blank, Inv, TypeOK, Image
    <3> QED
      BY <2>0, <2>6, <3>1 DEF Start, Store!Start
  <2>7. ASSUME Crash PROVE Store!Stop
    BY <2>7 DEF Crash, Store!Stop
  <2>8. ASSUME Tick \/ UNCHANGED vars PROVE UNCHANGED Store!vars
    BY <2>8 DEF Tick, vars
  <2> QED
    BY <2>1, <2>2, <2>3, <2>4, <2>5, <2>6, <2>7, <2>8, Steps DEF Inv
<1> QED
  BY <1>1, <1>2, Invariant, PTL DEF Spec, StoreSpec, Store!Spec

=============================================================================
