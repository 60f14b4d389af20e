------------------------- MODULE AuthLockoutProofs -------------------------
(***************************************************************************)
(* Lockout, for any accounts and limits, file faults at any save and a     *)
(* process that may stop at any step.                                      *)
(*                                                                         *)
(* An account's counter and its LockedUntil together account for every     *)
(* strike against it, in memory and, unless a strike is not saved yet, in  *)
(* the file a restart reads: all but the counted ones were made a whole    *)
(* lockout before the lock ends.  So a strike that a lock lets through is  *)
(* that far from the MaxAttempts-th one before it.                         *)
(***************************************************************************)
EXTENDS AuthManagerProofs

-----------------------------------------------------------------------------
(* What an account tells of the strikes s against it. *)

Covers(a, s) ==
  IF a = NoAccount THEN s = <<>>
  ELSE \A i \in DOMAIN s : i + a.failed <= Len(s) => s[i] + Lockout <= a.lockedUntil

Counting(a) == a # NoAccount => a.failed < MaxAttempts

Apart(s) ==
  \A first, last \in DOMAIN s : last = first + MaxAttempts => s[first] + Lockout <= s[last]

Past(s) == \A i \in DOMAIN s : s[i] <= now

(* The strikes against u, the one being saved included. *)
Made(u) ==
  IF op # Idle /\ op.kind = "strike" /\ op.name = u THEN Append(strikes[u], op.at)
  ELSE strikes[u]

(* A strike that is about to be answered is in the users file. *)
StrikesAreSaved ==
  (op # Idle /\ op.kind = "strike" /\ op.stage = "return" /\ ~op.err) => disk = users

(* A process that has not answered yet has nothing unsaved. *)
StartsSaved == (phase # "up" \/ (op # Idle /\ op.kind = "boot")) => unsaved = {}

LockInv(u) ==
  /\ Counting(users[u]) /\ Counting(disk[u])
  /\ u \notin unsaved => Covers(disk[u], strikes[u])
  /\ phase # "down" => Covers(users[u], Made(u))
  /\ Past(Made(u))
  /\ Apart(Made(u))

LockoutInv == Inv /\ StrikesAreSaved /\ StartsSaved /\ \A u \in Names : LockInv(u)

-----------------------------------------------------------------------------
(* Strikes added at the end and forgotten at the front. *)

LEMMA Appended ==
  ASSUME NEW s \in Seq(Nat), NEW t \in Nat
  PROVE  /\ Append(s, t) \in Seq(Nat)
         /\ Len(Append(s, t)) = Len(s) + 1 /\ Len(s) \in Nat
         /\ DOMAIN s = 1 .. Len(s) /\ DOMAIN Append(s, t) = 1 .. Len(s) + 1
         /\ \A i \in DOMAIN s : Append(s, t)[i] = s[i]
         /\ Append(s, t)[Len(s) + 1] = t
OBVIOUS

LEMMA Forgotten ==
  ASSUME NEW s \in Seq(Nat)
  PROVE  \/ Latest(s) = s
         \/ /\ Latest(s) \in Seq(Nat)
            /\ Len(Latest(s)) = Len(s) - 1 /\ Len(s) \in Nat
            /\ \A i \in DOMAIN Latest(s) : i + 1 \in DOMAIN s /\ Latest(s)[i] = s[i + 1]
<1>1. CASE Len(s) > MaxAttempts + 1
  <2>1. s # <<>> /\ Latest(s) = Tail(s)
    BY <1>1, LimitsArePositive DEF Latest
  <2> QED
    BY <2>1
<1> QED
  BY <1>1 DEF Latest

(* Forgetting the oldest strike changes nothing that is known of the others. *)
LEMMA LatestKeeps ==
  ASSUME NEW s \in Seq(Nat), NEW a \in Account
  PROVE  /\ Covers(a, s) => Covers(a, Latest(s))
         /\ Apart(s) => Apart(Latest(s))
         /\ Past(s) => Past(Latest(s))
<1> DEFINE l == Latest(s)
<1>1. CASE l = s
  BY <1>1
<1>2. CASE /\ l \in Seq(Nat)
           /\ Len(l) = Len(s) - 1 /\ Len(s) \in Nat
           /\ \A i \in DOMAIN l : i + 1 \in DOMAIN s /\ l[i] = s[i + 1]
  <2> HIDE DEF l
  <2>1. DOMAIN l \subseteq Nat /\ a.failed \in Nat /\ a # NoAccount
    BY <1>2, NoAccountIsNone DEF Account
  <2>2. Covers(a, s) => Covers(a, l)
    <3> SUFFICES ASSUME Covers(a, s), NEW i \in DOMAIN l, i + a.failed <= Len(l)
                 PROVE  l[i] + Lockout <= a.lockedUntil
      BY <2>1 DEF Covers
    <3>1. i + 1 \in DOMAIN s /\ (i + 1) + a.failed <= Len(s) /\ l[i] = s[i + 1]
      BY <1>2, <2>1
    <3> QED
      BY <2>1, <3>1 DEF Covers
  <2>3. Apart(s) => Apart(l)
    <3> SUFFICES ASSUME Apart(s), NEW first \in DOMAIN l, NEW last \in DOMAIN l,
                        last = first + MaxAttempts
                 PROVE  l[first] + Lockout <= l[last]
      BY DEF Apart
    <3>1. last + 1 = (first + 1) + MaxAttempts
      BY <2>1, LimitsArePositive
    <3> QED
      BY <1>2, <3>1 DEF Apart
  <2>4. Past(s) => Past(l)
    BY <1>2 DEF Past
  <2> QED
    BY <2>2, <2>3, <2>4 DEF l
<1> QED
  BY <1>1, <1>2, Forgotten

(* An account that covers a strike covers those before it. *)
LEMMA CoversFewer ==
  ASSUME NEW a \in Account \cup {NoAccount}, NEW s \in Seq(Nat), NEW t \in Nat,
         Covers(a, Append(s, t))
  PROVE  Covers(a, s) /\ a \in Account
<1> DEFINE l == Append(s, t)
<1>1. /\ Len(l) = Len(s) + 1 /\ Len(s) \in Nat /\ DOMAIN s = 1 .. Len(s)
      /\ DOMAIN l = 1 .. Len(s) + 1 /\ \A i \in DOMAIN s : l[i] = s[i]
  BY Appended
<1>2. l # <<>>
  BY <1>1
<1> HIDE DEF l
<1>3. a \in Account /\ a # NoAccount /\ a.failed \in Nat
  BY <1>2, NoAccountIsNone DEF Covers, Account, l
<1>4. ASSUME NEW i \in DOMAIN s, i + a.failed <= Len(s)
      PROVE  s[i] + Lockout <= a.lockedUntil
  <2>1. i \in DOMAIN l /\ i + a.failed <= Len(l) /\ l[i] = s[i]
    BY <1>1, <1>3, <1>4
  <2> QED
    BY <1>3, <2>1 DEF Covers, l
<1> QED
  BY <1>3, <1>4 DEF Covers

(* A strike that no lock kept out is counted, and comes a whole lockout after *)
(* the MaxAttempts-th one before it.                                          *)
LEMMA StrikeIsCovered ==
  ASSUME now \in Nat, NEW t \in Nat, now <= t, NEW a \in Account, NEW s \in Seq(Nat),
         Covers(a, s), Counting(a), Apart(s), Past(s), ~(now < a.lockedUntil)
  PROVE  /\ Covers(Strike(a, t), Append(s, t))
         /\ Counting(Strike(a, t))
         /\ Apart(Append(s, t))
         /\ \A i \in DOMAIN Append(s, t) : Append(s, t)[i] <= t
<1> DEFINE l == Append(s, t)
<1>1. /\ l \in Seq(Nat) /\ Len(l) = Len(s) + 1 /\ Len(s) \in Nat /\ DOMAIN s = 1 .. Len(s)
      /\ DOMAIN l = 1 .. Len(s) + 1 /\ \A i \in DOMAIN s : l[i] = s[i]
      /\ l[Len(s) + 1] = t
  BY Appended
<1>2. /\ a # NoAccount /\ a.failed \in Nat /\ a.lockedUntil \in Nat
      /\ a.failed < MaxAttempts /\ MaxAttempts \in Nat /\ Lockout \in Nat
  BY NoAccountIsNone, LimitsArePositive DEF Account, Counting
<1>3. \A i \in DOMAIN s : s[i] \in Nat
  BY <1>1
<1> HIDE DEF l
<1>4. \A i \in DOMAIN l : l[i] <= t
  BY <1>1, <1>3 DEF Past
<1>5. Apart(l)
  <2> SUFFICES ASSUME NEW first \in DOMAIN l, NEW last \in DOMAIN l,
                      last = first + MaxAttempts
               PROVE  l[first] + Lockout <= l[last]
    BY DEF Apart
  <2>1. first \in DOMAIN s
    BY <1>1, LimitsArePositive
  <2>2. CASE last \in DOMAIN s
    BY <1>1, <2>1, <2>2 DEF Apart
  <2>3. CASE last = Len(s) + 1
    <3>1. first + a.failed <= Len(s)
      BY <1>1, <1>2, <2>1, <2>3
    <3>2. s[first] + Lockout <= a.lockedUntil
      BY <1>2, <2>1, <3>1 DEF Covers
    <3>3. l[first] = s[first] /\ l[last] = t /\ s[first] \in Nat
      BY <1>1, <1>3, <2>1, <2>3
    <3> QED
      BY <1>2, <3>2, <3>3
  <2> QED
    BY <1>1, <2>2, <2>3
<1>6. CASE a.failed + 1 >= MaxAttempts
  <2> DEFINE b == [a EXCEPT !.failed = 0, !.lockedUntil = t + Lockout]
  <2>1. b = Strike(a, t) /\ b \in Account /\ b.failed = 0 /\ b.lockedUntil = t + Lockout
    BY <1>6, StrikeType DEF Strike, Account
  <2>2. \A i \in DOMAIN l : l[i] \in Nat /\ l[i] <= t
    BY <1>1, <1>4
  <2> HIDE DEF b
  <2>3. Covers(b, l)
    BY <1>2, <2>1, <2>2, NoAccountIsNone DEF Covers
  <2>4. Counting(b)
    BY <2>1, LimitsArePositive DEF Counting
  <2> QED
    BY <1>4, <1>5, <2>1, <2>3, <2>4 DEF l
<1>7. CASE ~(a.failed + 1 >= MaxAttempts)
  <2> DEFINE b == [a EXCEPT !.failed = @ + 1]
  <2>1. /\ b = Strike(a, t) /\ b \in Account
        /\ b.failed = a.failed + 1 /\ b.lockedUntil = a.lockedUntil
    BY <1>7, StrikeType DEF Strike, Account
  <2> HIDE DEF b
  <2>2. Covers(b, l)
    <3> SUFFICES ASSUME NEW i \in DOMAIN l, i + b.failed <= Len(l)
                 PROVE  l[i] + Lockout <= b.lockedUntil
      BY <2>1, NoAccountIsNone DEF Covers
    <3>1. PICK n \in Nat, f \in Nat : n = Len(s) /\ f = a.failed
      BY <1>1, <1>2
    <3>2. i \in 1 .. n + 1 /\ i + (f + 1) <= n + 1
      BY <1>1, <2>1, <3>1
    <3>3. i \in 1 .. n /\ i + f <= n
      BY <3>2
    <3> QED
      BY <1>1, <1>2, <2>1, <3>1, <3>3 DEF Covers
  <2>3. Counting(b)
    BY <1>2, <1>7, <2>1 DEF Counting
  <2> QED
    BY <1>4, <1>5, <2>1, <2>2, <2>3 DEF l
<1> QED
  BY <1>6, <1>7
-----------------------------------------------------------------------------
(* The steps. *)

LEMMA LockTypes ==
  ASSUME TypeOK, NEW u \in Names
  PROVE  /\ users[u] \in Account \cup {NoAccount} /\ disk[u] \in Account \cup {NoAccount}
         /\ strikes[u] \in Seq(Nat) /\ now \in Nat
         /\ op # Idle => op.at \in Nat
         /\ Made(u) \in Seq(Nat)
<1>1. op # Idle => op.at \in Nat
  BY DEF TypeOK, Operation
<1>2. strikes[u] \in Seq(Nat)
  BY DEF TypeOK
<1>3. Made(u) \in Seq(Nat)
  BY <1>1, <1>2, Appended DEF Made
<1> QED
  BY <1>1, <1>2, <1>3 DEF TypeOK, Image

LEMMA NoStrikesYet ==
  ASSUME NEW a
  PROVE  Covers(a, <<>>) /\ Apart(<<>>) /\ Past(<<>>)
BY DEF Covers, Apart, Past

(* A request changes the lock of one account, with its strikes, or of none. *)
LEMMA LockoutChange ==
  ASSUME LockoutInv, NEW v \in Names, ChangeStep(v)
  PROVE  StrikesAreSaved' /\ StartsSaved' /\ \A u \in Names : LockInv(u)'
<1>1. PICK b \in Account, k \in Kinds, t \in Nat :
        /\ k # "boot" /\ now <= t /\ now' = t
        /\ users' = [users EXCEPT ![v] = b]
        /\ Hold(k, v, "write", FALSE, t)
        /\ LockStep(k, v, b, t)
  BY DEF ChangeStep
<1>2. /\ op = Idle /\ phase = "up" /\ UNCHANGED <<phase, disk, unsaved>>
      /\ op' # Idle /\ op'.kind = k /\ op'.name = v /\ op'.stage = "write" /\ op'.at = t
  BY <1>1, HoldType DEF ChangeStep, Ready, Hold, LockoutInv, Inv, TypeOK
<1>3. StrikesAreSaved'
  BY <1>2 DEF StrikesAreSaved
<1>s. StartsSaved'
  BY <1>1, <1>2 DEF StartsSaved
<1>p. ASSUME NEW s \in Seq(Nat), Past(s) PROVE Past(s)'
  <2>1. \A i \in DOMAIN s : s[i] \in Nat
    OBVIOUS
  <2> QED
    BY <1>1, <1>p, <2>1 DEF Past, LockoutInv, Inv, TypeOK
<1>4. ASSUME NEW u \in Names, u # v PROVE LockInv(u)'
  <2>1. users'[u] = users[u] /\ strikes'[u] = strikes[u]
    BY <1>1, <1>4 DEF LockoutInv, Inv, TypeOK, Image, LockStep
  <2>2. Made(u) = strikes[u] /\ Made(u)' = strikes[u]
    BY <1>2, <1>4, <2>1 DEF Made
  <2>3. strikes[u] \in Seq(Nat) /\ LockInv(u)
    BY DEF LockoutInv, Inv, TypeOK
  <2>4. Past(Made(u))'
    BY <1>p, <2>2, <2>3 DEF LockInv, Past
  <2> QED
    BY <1>2, <2>1, <2>2, <2>3, <2>4 DEF LockInv
<1>5. LockInv(v)'
  <2> DEFINE a == users[v]  s == strikes[v]
  <2>0. /\ TypeOK /\ LockInv(v) /\ Made(v) = s
    BY <1>2 DEF LockoutInv, Inv, Made
  <2>1. /\ Counting(a) /\ Counting(disk[v]) /\ (v \notin unsaved => Covers(disk[v], s)) /\ Covers(a, s)
        /\ Past(s) /\ Apart(s)
        /\ s \in Seq(Nat) /\ now \in Nat /\ a \in Account \cup {NoAccount}
        /\ users'[v] = b
    BY <1>1, <1>2, <2>0, LockTypes DEF LockInv, TypeOK, Image
  <2>2. CASE /\ k = "strike"
             /\ a # NoAccount /\ ~(now < a.lockedUntil)
             /\ b = Strike(a, t)
             /\ UNCHANGED strikes
    <3>1. a \in Account
      BY <2>1, <2>2
    <3>2. /\ Covers(b, Append(s, t)) /\ Counting(b) /\ Apart(Append(s, t))
          /\ \A i \in DOMAIN Append(s, t) : Append(s, t)[i] <= t
      BY <1>1, <2>1, <2>2, <3>1, StrikeIsCovered
    <3>3. Made(v)' = Append(s, t) /\ strikes'[v] = s
      BY <1>2, <2>2 DEF Made
    <3>4. Past(Made(v))'
      BY <1>1, <3>2, <3>3 DEF Past
    <3> QED
      BY <1>2, <2>1, <3>2, <3>3, <3>4 DEF LockInv
  <2>3. CASE k = "login" /\ b.failed = 0 /\ strikes' = [strikes EXCEPT ![v] = <<>>]
    <3>1. strikes'[v] = <<>> /\ Made(v)' = <<>>
      BY <1>2, <2>0, <2>3 DEF Made, TypeOK
    <3>2. Counting(b)
      BY <2>3, LimitsArePositive DEF Counting
    <3> QED
      BY <1>2, <2>1, <3>1, <3>2, NoStrikesYet DEF LockInv, Past
  <2>4. CASE k \in Changes /\ KeepsLock(b, a) /\ UNCHANGED strikes
    <3>1. Made(v)' = s /\ strikes'[v] = s
      BY <1>2, <2>4 DEF Made, Changes
    <3>2. Covers(b, s) /\ Counting(b)
      <4>1. CASE a = NoAccount
        BY <2>1, <2>4, <4>1, NoStrikesYet, LimitsArePositive DEF Covers, Counting, KeepsLock
      <4>2. CASE a # NoAccount
        BY <2>1, <2>4, <4>2, NoAccountIsNone DEF Covers, Counting, KeepsLock
      <4> QED
        BY <4>1, <4>2
    <3>3. Past(Made(v))'
      BY <1>p, <2>1, <3>1 DEF Past
    <3> QED
      BY <1>2, <2>1, <3>1, <3>2, <3>3 DEF LockInv
  <2> QED
    BY <1>1, <2>2, <2>3, <2>4 DEF LockStep
<1> QED
  BY <1>3, <1>s, <1>4, <1>5

(* An answer adds the strike that memory and the file already count. *)
LEMMA LockoutReturn ==
  ASSUME LockoutInv, Return
  PROVE  StrikesAreSaved' /\ StartsSaved' /\ \A u \in Names : LockInv(u)'
<1>1. /\ op # Idle /\ op.stage = "return" /\ op' = Idle /\ UNCHANGED <<disk, now>>
      /\ TypeOK /\ op \in Operation /\ op.name \in Names /\ phase # "down"
  BY OperationIsSome DEF Return, LockoutInv, Inv, SaveInv, StoppedHoldsNothing, TypeOK, Operation
<1>2. StrikesAreSaved'
  BY <1>1 DEF StrikesAreSaved
<1>s. StartsSaved'
  <2>1. phase' # "up" => op.kind = "boot"
    BY DEF Return
  <2>2. op.kind = "boot" => unsaved = {} /\ op.kind # "strike"
    BY <1>1 DEF LockoutInv, StartsSaved
  <2> QED
    BY <1>1, <2>1, <2>2 DEF StartsSaved, Return
<1>3. ASSUME NEW u \in Names PROVE LockInv(u)'
  <2>0. /\ LockInv(u) /\ Made(u)' = strikes'[u]
        /\ phase' # "down" => users' = users
        /\ users'[u] \in {users[u], NoAccount}
    BY <1>1 DEF LockoutInv, Made, Return, Blank, Inv, TypeOK, Image
  <2>1. /\ users[u] \in Account \cup {NoAccount} /\ disk[u] \in Account \cup {NoAccount}
        /\ strikes[u] \in Seq(Nat) /\ Made(u) \in Seq(Nat) /\ op.at \in Nat
    BY <1>1, LockTypes
  <2>2. Counting(users'[u]) /\ Counting(disk'[u])
    BY <1>1, <2>0 DEF LockInv, Counting
  <2>3. CASE op.kind = "strike" /\ op.name = u
    <3>1. strikes'[u] = Latest(Made(u)) /\ (u \notin unsaved' => disk[u] = users[u])
      BY <1>1, <2>3 DEF Return, Made, TypeOK, LockoutInv, StrikesAreSaved
    <3>2. Covers(users[u], Made(u)) /\ Past(Made(u)) /\ Apart(Made(u))
      BY <1>1, <2>0 DEF LockInv
    <3>3. users[u] \in Account
      BY <2>1, <2>3, <1>1, <3>2, CoversFewer DEF Made
    <3>4. Covers(users[u], strikes'[u]) /\ Past(strikes'[u]) /\ Apart(strikes'[u])
      BY <2>1, <3>1, <3>2, <3>3, LatestKeeps
    <3> QED
      BY <1>1, <2>0, <2>2, <3>1, <3>4 DEF LockInv, Past
  <2>4. CASE ~(op.kind = "strike" /\ op.name = u)
    <3>1. /\ strikes'[u] = strikes[u] /\ Made(u) = strikes[u]
          /\ u \notin unsaved' => u \notin unsaved
      BY <1>1, <2>4 DEF Return, Made, TypeOK
    <3> QED
      BY <1>1, <2>0, <2>2, <3>1 DEF LockInv, Past
  <2> QED
    BY <2>3, <2>4
<1> QED
  BY <1>2, <1>s, <1>3

(* A rename installs what memory says of every account. *)
LEMMA LockoutRename ==
  ASSUME LockoutInv, NEW ok \in BOOLEAN, Rename(ok),
         disk' = tmp, unsaved' = {}, op' = [op EXCEPT !.stage = "return"]
  PROVE  StrikesAreSaved' /\ StartsSaved' /\ \A u \in Names : LockInv(u)'
<1>1. /\ op # Idle /\ op \in Operation /\ op.stage = "rename" /\ phase # "down" /\ TypeOK
      /\ disk' = users /\ op' = [op EXCEPT !.stage = "return"]
      /\ UNCHANGED <<phase, users, now, strikes>>
  BY OperationIsSome
  DEF Rename, LockoutInv, Inv, SaveInv, TypeOK, StoppedHoldsNothing, TmpHoldsUsers
<1>2. op' # Idle /\ op'.kind = op.kind /\ op'.name = op.name /\ op'.at = op.at
  <2>1. op' \in Operation
    BY <1>1, OperationIsSome DEF TypeOK
  <2> QED
    BY <1>1, <2>1, IdleIsNone DEF Operation
<1>3. StrikesAreSaved'
  BY <1>1 DEF StrikesAreSaved
<1>s. StartsSaved'
  BY DEF StartsSaved
<1>4. ASSUME NEW u \in Names PROVE LockInv(u)'
  <2>1. Made(u)' = Made(u) /\ LockInv(u)
    BY <1>1, <1>2 DEF Made, LockoutInv
  <2>2. Covers(users[u], strikes[u])
    BY <1>1, <2>1, LockTypes, CoversFewer DEF LockInv, Made
  <2> QED
    BY <1>1, <2>1, <2>2 DEF LockInv, Past
<1> QED
  BY <1>3, <1>s, <1>4

(* A restart is left with what the file says of every account. *)
LEMMA LockoutStart ==
  ASSUME LockoutInv, Start
  PROVE  StrikesAreSaved' /\ StartsSaved' /\ \A u \in Names : LockInv(u)'
<1>1. /\ op = Idle /\ UNCHANGED <<disk, now, strikes, unsaved>> /\ TypeOK /\ unsaved = {}
      /\ op' = Idle \/ op'.kind # "strike"
  <2>1. Hold("boot", Admin, "write", FALSE, now) => op'.kind = "boot"
    BY DEF Hold
  <2>2. op' = Idle \/ Hold("boot", Admin, "write", FALSE, now)
    BY DEF Start
  <2> QED
    BY <2>1, <2>2 DEF Start, LockoutInv, Inv, SaveInv, StoppedHoldsNothing, StartsSaved
<1>2. StrikesAreSaved'
  BY <1>1 DEF StrikesAreSaved
<1>s. StartsSaved'
  BY <1>1 DEF StartsSaved
<1>3. ASSUME NEW u \in Names PROVE LockInv(u)'
  <2>1. Made(u)' = strikes[u] /\ Made(u) = strikes[u] /\ LockInv(u)
    BY <1>1 DEF Made, LockoutInv
  <2>2. Counting(users'[u]) /\ Covers(users'[u], strikes[u])
    <3>1. CASE users'[u] = disk[u]
      BY <1>1, <2>1, <3>1 DEF LockInv
    <3>2. CASE disk[u] = NoAccount /\ users'[u] = NewAccount(FALSE)
      BY <1>1, <2>1, <3>2, NoStrikesYet, LimitsArePositive
      DEF LockInv, Covers, Counting, NewAccount
    <3> QED
      BY <1>1, <3>1, <3>2 DEF Start, Present, TypeOK, Image
  <2> QED
    BY <1>1, <2>1, <2>2 DEF LockInv, Past
<1> QED
  BY <1>2, <1>s, <1>3

(* The other steps move neither a lock nor a strike of an account. *)
LEMMA LockoutRest ==
  ASSUME LockoutInv, NEW u \in Names,
         UNCHANGED disk, strikes'[u] = strikes[u], now' \in {now, now + 1},
         \/ UNCHANGED <<users, phase>> \/ (phase' = "down" /\ users' = Blank),
         u \in unsaved => u \in unsaved',
         Made(u)' \in {Made(u), strikes[u]}
  PROVE  LockInv(u)'
<1>1. LockInv(u) /\ TypeOK
  BY DEF LockoutInv, Inv
<1>2. /\ strikes[u] \in Seq(Nat) /\ Made(u) \in Seq(Nat) /\ now \in Nat
      /\ users[u] \in Account \cup {NoAccount}
  BY <1>1, LockTypes
<1>3. /\ Covers(users[u], Made(u)) => Covers(users[u], strikes[u])
      /\ Apart(Made(u)) => Apart(strikes[u])
      /\ Past(Made(u)) => Past(strikes[u])
  <2>1. CASE Made(u) = strikes[u]
    BY <2>1
  <2>2. CASE op # Idle /\ Made(u) = Append(strikes[u], op.at)
    <3>1. op.at \in Nat
      BY <1>1, <2>2, LockTypes
    <3>2. Covers(users[u], Made(u)) => Covers(users[u], strikes[u])
      BY <1>2, <2>2, <3>1, CoversFewer
    <3>3. /\ DOMAIN strikes[u] \subseteq DOMAIN Made(u)
          /\ \A i \in DOMAIN strikes[u] : Made(u)[i] = strikes[u][i]
      BY <1>2, <2>2, <3>1, Appended
    <3> QED
      BY <3>2, <3>3 DEF Apart, Past
  <2> QED
    BY <2>1, <2>2 DEF Made
<1>4. PICK m \in {Made(u), strikes[u]} : Made(u)' = m
  OBVIOUS
<1>5. Past(m) /\ Apart(m) /\ (phase # "down" => Covers(users[u], m))
  BY <1>1, <1>3 DEF LockInv
<1>6. Past(Made(u))'
  <2>1. \A i \in DOMAIN m : m[i] \in Nat /\ m[i] <= now'
    BY <1>2, <1>5 DEF Past
  <2> QED
    BY <1>4, <2>1 DEF Past
<1>7. Counting(users'[u]) /\ (phase' # "down" => Covers(users'[u], Made(u)'))
  BY <1>1, <1>4, <1>5 DEF LockInv, Counting, Blank
<1> QED
  BY <1>1, <1>4, <1>5, <1>6, <1>7 DEF LockInv

(* So does a save that fails: the counter stays in memory. *)
LEMMA LockoutFailure ==
  ASSUME LockoutInv, op # Idle,
         op' = [op EXCEPT !.stage = "return", !.err = TRUE],
         UNCHANGED <<users, phase, disk, strikes, now, unsaved>>
  PROVE  StrikesAreSaved' /\ StartsSaved' /\ \A u \in Names : LockInv(u)'
<1>1. /\ op' # Idle /\ op'.kind = op.kind /\ op'.name = op.name /\ op'.at = op.at
      /\ op'.err
  BY OperationIsSome, IdleIsNone DEF LockoutInv, Inv, TypeOK, Operation
<1>2. StrikesAreSaved' /\ \A u \in Names : Made(u)' = Made(u)
  BY <1>1 DEF StrikesAreSaved, Made
<1>3. StartsSaved'
  BY <1>1 DEF LockoutInv, StartsSaved
<1> QED
  BY <1>2, <1>3, LockoutRest

(* A stop leaves what the file says, and forgets the strikes it lacks. *)
LEMMA LockoutCrash ==
  ASSUME LockoutInv, Crash
  PROVE  StrikesAreSaved' /\ StartsSaved' /\ \A u \in Names : LockInv(u)'
<1>1. /\ op' = Idle /\ phase' = "down" /\ users' = Blank /\ unsaved' = {}
      /\ UNCHANGED <<disk, now>>
  BY DEF Crash
<1>2. StrikesAreSaved' /\ StartsSaved'
  BY <1>1 DEF StrikesAreSaved, StartsSaved
<1>3. ASSUME NEW u \in Names PROVE LockInv(u)'
  <2>1. Made(u)' = strikes'[u]
    BY <1>1 DEF Made
  <2>2. CASE u \in unsaved
    <3>1. strikes'[u] = <<>> /\ LockInv(u)
      BY <2>2 DEF Crash, LockoutInv
    <3>2. Counting(users'[u])
      BY <1>1 DEF Counting, Blank
    <3> QED
      BY <1>1, <2>1, <3>1, <3>2, NoStrikesYet DEF LockInv, Past
  <2>3. CASE u \notin unsaved
    <3>1. strikes'[u] = strikes[u]
      BY <2>3 DEF Crash
    <3> QED
      BY <1>1, <2>1, <2>3, <3>1, LockoutRest
  <2> QED
    BY <2>2, <2>3
<1> QED
  BY <1>2, <1>3

LEMMA LockoutStep == LockoutInv /\ [Next]_vars => LockoutInv'
<1> SUFFICES ASSUME LockoutInv, [Next]_vars PROVE LockoutInv'
  OBVIOUS
<1> DEFINE Goal == StrikesAreSaved' /\ StartsSaved' /\ \A u \in Names : LockInv(u)'
<1>0. Inv' /\ TypeOK
  BY InvStep DEF LockoutInv, Inv
<1>1. ASSUME NEW u \in Names, ChangeStep(u) PROVE Goal
  BY <1>1, LockoutChange
<1>2. ASSUME NEW v \in Names, RefuseStep(v) PROVE Goal
  <2>1. /\ op'.kind = "refuse" /\ op = Idle /\ phase = "up"
        /\ UNCHANGED <<users, phase, disk, strikes, now, unsaved>>
    BY <1>2, HoldType, <1>0 DEF RefuseStep, Refuse, Ready, Kinds, TypeOK
  <2>2. StrikesAreSaved' /\ StartsSaved' /\ \A u \in Names : Made(u)' = strikes[u]
    BY <2>1 DEF StrikesAreSaved, StartsSaved, Made
  <2> QED
    BY <2>1, <2>2, LockoutRest
<1>3. ASSUME NEW ok \in BOOLEAN, WriteTmp(ok) PROVE Goal
  <2>1. /\ op # Idle /\ op \in Operation /\ UNCHANGED <<users, phase, disk, strikes, now, unsaved>>
        /\ \/ op' = [op EXCEPT !.stage = "rename"]
           \/ op' = [op EXCEPT !.stage = "return", !.err = TRUE]
    BY <1>0, <1>3, OperationIsSome DEF WriteTmp, TypeOK
  <2>2. CASE op' = [op EXCEPT !.stage = "rename"]
    <3>1. /\ op' # Idle /\ op'.kind = op.kind /\ op'.name = op.name /\ op'.at = op.at
          /\ op'.stage = "rename"
      BY <1>0, <2>1, <2>2, OperationIsSome, IdleIsNone DEF Operation, TypeOK
    <3>2. StrikesAreSaved' /\ StartsSaved' /\ \A u \in Names : Made(u)' = Made(u)
      BY <2>1, <3>1 DEF StrikesAreSaved, StartsSaved, LockoutInv, Made
    <3> QED
      BY <2>1, <3>2, LockoutRest
  <2> QED
    BY <2>1, <2>2, LockoutFailure
<1>4. ASSUME NEW ok \in BOOLEAN, Rename(ok) PROVE Goal
  <2>1. CASE disk' = tmp /\ unsaved' = {} /\ op' = [op EXCEPT !.stage = "return"]
    BY <1>4, <2>1, LockoutRename
  <2>2. CASE /\ op' = [op EXCEPT !.stage = "return", !.err = TRUE]
             /\ UNCHANGED <<disk, tmp, unsaved>>
    BY <1>4, <2>2, LockoutFailure DEF Rename
  <2> QED
    BY <1>4, <2>1, <2>2 DEF Rename
<1>5. ASSUME Return PROVE Goal
  BY <1>5, LockoutReturn
<1>6. ASSUME Start PROVE Goal
  BY <1>6, LockoutStart
<1>7. ASSUME Crash PROVE Goal
  BY <1>7, LockoutCrash
<1>8. ASSUME Tick \/ UNCHANGED vars PROVE Goal
  <2>1. UNCHANGED <<users, phase, disk, strikes, op, unsaved>> /\ now' \in {now, now + 1}
    BY <1>8 DEF Tick, vars
  <2>2. StrikesAreSaved' /\ StartsSaved' /\ \A u \in Names : Made(u)' = Made(u)
    BY <2>1 DEF StrikesAreSaved, StartsSaved, Made, LockoutInv
  <2> QED
    BY <2>1, <2>2, LockoutRest
<1>9. Goal
  BY <1>0, <1>1, <1>2, <1>3, <1>4, <1>5, <1>6, <1>7, <1>8, Steps
<1> QED
  BY <1>0, <1>9 DEF LockoutInv

LEMMA LockoutInit == Init => LockoutInv
<1> SUFFICES ASSUME Init PROVE LockoutInv
  OBVIOUS
<1>1. StrikesAreSaved /\ StartsSaved
  BY DEF Init, StrikesAreSaved, StartsSaved
<1>2. ASSUME NEW u \in Names PROVE LockInv(u)
  <2>1. strikes[u] = <<>> /\ Made(u) = <<>> /\ users[u] = NoAccount /\ phase = "down"
    BY DEF Init, Made, Blank
  <2>2. disk[u] = NoAccount \/ disk[u] = NewAccount(FALSE)
    BY DEF Init
  <2>3. Counting(users[u]) /\ Counting(disk[u])
    BY <2>1, <2>2, LimitsArePositive DEF Counting, NewAccount
  <2> QED
    BY <2>1, <2>3, NoStrikesYet DEF LockInv
<1> QED
  BY <1>1, <1>2, InvInit DEF LockoutInv

LEMMA BoundedStrikes == LockoutInv => LockoutBounds
<1> SUFFICES ASSUME LockoutInv, NEW u \in Names PROVE Apart(strikes[u])
  BY DEF LockoutBounds, Apart
<1>1. Apart(Made(u)) /\ TypeOK
  BY DEF LockoutInv, LockInv, Inv
<1>2. CASE Made(u) = strikes[u]
  BY <1>1, <1>2
<1>3. CASE op # Idle /\ Made(u) = Append(strikes[u], op.at)
  <2>1. strikes[u] \in Seq(Nat) /\ op.at \in Nat
    BY <1>1, <1>3, LockTypes
  <2>2. /\ DOMAIN strikes[u] \subseteq DOMAIN Made(u)
        /\ \A i \in DOMAIN strikes[u] : Made(u)[i] = strikes[u][i]
    BY <1>3, <2>1, Appended
  <2> QED
    BY <1>1, <2>2 DEF Apart
<1> QED
  BY <1>2, <1>3 DEF Made

-----------------------------------------------------------------------------
(* No MaxAttempts + 1 wrong attempts in a row, with no right one between, are *)
(* counted in less than a lockout, whatever save fails and wherever and how   *)
(* often the process stops: only a restart that finds a users file behind an  *)
(* account's strikes, because Authenticate ignored that their save failed and *)
(* no later one went through, starts that account's history anew.             *)
THEOREM LockoutHolds == Spec => []LockoutBounds
BY LockoutInit, LockoutStep, BoundedStrikes, PTL DEF Spec
=============================================================================
