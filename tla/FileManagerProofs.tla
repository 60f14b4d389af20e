------------------------- MODULE FileManagerProofs -------------------------
(***************************************************************************)
(* What internal/handlers/file_handler.go promises, for any number of      *)
(* requests, paths, inodes and blocks.                                     *)
(*                                                                         *)
(* The invariant says of every operation under way what its answer will    *)
(* rest on: a write, what of its own the file holds; a read, how much of   *)
(* the file it has; a listing, what it has looked at and what is left; a   *)
(* delete, where its directory stands.  Each goes on while the others take *)
(* their steps: an inode that is open is neither reused nor turned into a  *)
(* directory, what was there all the time is there now, and what stays     *)
(* where it is stays in the same directory.                                *)
(***************************************************************************)
EXTENDS FileManager, WellFoundedInduction, SequenceTheorems, TLAPS

-----------------------------------------------------------------------------
(* Cleaning a path. *)

(* A set of numbers that has 0 and, with every n below m, its successor too, has *)
(* all up to m.                                                                  *)
LEMMA UpTo ==
  ASSUME NEW m \in Nat, NEW S, 0 \in S, \A n \in 0 .. m : n # m /\ n \in S => n + 1 \in S
  PROVE  0 .. m \subseteq S
<1>. DEFINE T == {n \in 0 .. m : n \notin S}
            R == OpToRel(<, Nat)
<1>. SUFFICES ASSUME T # {} PROVE FALSE
  OBVIOUS
<1>1. IsWellFoundedOn(R, Nat)
  BY NatLessThanWellFounded
<1>2. \A i, j \in Nat : <<j, i>> \in R <=> j < i
  BY DEF OpToRel
<1>. HIDE DEF R
<1>3. PICK i \in T : \A j \in T : <<j, i>> \notin R
  <2>. T \subseteq Nat
    OBVIOUS
  <2>. HIDE DEF T
  <2>. QED
    BY <1>1, WFMin
<1>4. i \in Nat \ {0} /\ i <= m /\ i \notin S
  OBVIOUS
<1>5. PICK j \in 0 .. m : j # m /\ j + 1 = i /\ j < i
  <2>. i - 1 \in 0 .. m /\ i - 1 # m /\ (i - 1) + 1 = i /\ i - 1 < i
    BY <1>4
  <2>. QED
    OBVIOUS
<1>6. j \notin T
  <2>1. i \in Nat /\ j \in Nat
    BY <1>4
  <2>2. <<j, i>> \in R
    BY <1>2, <1>5, <2>1
  <2>. HIDE DEF T
  <2>. QED
    BY <1>3, <2>2
<1>. QED
  BY <1>4, <1>5, <1>6

(* One name more or less: "." and ".." are never among the names. *)
LEMMA EnterStays ==
  ASSUME NEW S, NEW path \in Seq(S), NEW name, name \notin {".", ".."} => name \in S
  PROVE  Enter(path, name) \in Seq(S)
<1>1. CASE name = "."
  BY <1>1 DEF Enter
<1>2. CASE name = ".."
  <2>1. CASE path = Base
    BY <1>2, <2>1 DEF Enter
  <2>2. CASE path # Base
    <3>1. Front(path) \in Seq(S)
      <4>1. Len(path) \in Nat \ {0} /\ \A i \in 1 .. Len(path) : path[i] \in S
        BY <2>2 DEF Base
      <4>2. PICK n \in Nat : n = Len(path) - 1
        BY <4>1
      <4>3. \A i \in 1 .. n : path[i] \in S
        BY <4>1, <4>2
      <4>. QED
        BY <4>2, <4>3, SubSeqProperties DEF Front
    <3>. QED
      BY <1>2, <2>2, <3>1 DEF Enter
  <2>. QED
    BY <2>1, <2>2
<1>3. CASE name \notin {".", ".."}
  BY <1>3 DEF Enter
<1>. QED
  BY <1>1, <1>2, <1>3

(* The path that Clean makes of what a client has sent consists of the names it  *)
(* was given, without "." and "..": it stays below the base directory.           *)
THEOREM CleanStaysBelow ==
  ASSUME NEW raw \in Path
  PROVE  Clean(raw) \in Seq(Names \ {".", ".."})
<1>. DEFINE m == Len(raw)
            Walks(w, n) == w = [k \in 0 .. n |-> IF k = 0 THEN Base ELSE Enter(w[k - 1], raw[k])]
            walk[n \in 0 .. m] == IF n = 0 THEN Base ELSE Enter(walk[n - 1], raw[n])
<1>1. m \in Nat /\ \A i \in 1 .. m : raw[i] \in Names
  BY DEF Path
<1>2. Clean(raw) = walk[m]
  BY DEF Clean
<1>. DEFINE S == {n \in 0 .. m : \E w : Walks(w, n)}
<1>3. 0 \in S
  <2>. DEFINE w == [k \in 0 .. 0 |-> Base]
  <2>1. Walks(w, 0)
    OBVIOUS
  <2>2. 0 \in 0 .. m
    BY <1>1
  <2>. HIDE DEF Walks, m, w
  <2>. QED
    BY <2>1, <2>2
<1>4. ASSUME NEW n \in 0 .. m, n # m, n \in S
      PROVE  n + 1 \in S
  <2>1. PICK w : Walks(w, n)
    BY <1>4
  <2>. DEFINE v == [k \in 0 .. n + 1 |-> IF k = n + 1 THEN Enter(w[n], raw[n + 1]) ELSE w[k]]
  <2>2. \A k \in 0 .. n + 1 : v[k] = IF k = 0 THEN Base ELSE Enter(v[k - 1], raw[k])
    <3>. TAKE k \in 0 .. n + 1
    <3>1. CASE k = n + 1
      BY <1>1, <3>1
    <3>2. CASE k \in 0 .. n
      <4>1. v[k] = w[k] /\ (k # 0 => k - 1 \in 0 .. n /\ v[k - 1] = w[k - 1])
        BY <1>1, <3>2
      <4>2. w[k] = IF k = 0 THEN Base ELSE Enter(w[k - 1], raw[k])
        BY <2>1, <3>2
      <4>. QED
        BY <4>1, <4>2
    <3>. QED
      BY <1>1, <3>1, <3>2
  <2>3. Walks(v, n + 1)
    BY <2>2
  <2>4. n + 1 \in 0 .. m
    BY <1>1, <1>4
  <2>. QED
    BY <2>3, <2>4
<1>5. \E w : Walks(w, m)
  <2>. HIDE DEF Walks, m
  <2>1. 0 .. m \subseteq S
    <3>. HIDE DEF S
    <3>. QED
      BY <1>1, <1>3, <1>4, UpTo
  <2>. QED
    BY <1>1, <2>1
<1>6. Walks(walk, m)
  BY <1>5
<1>. HIDE DEF walk
<1>7. /\ walk[0] = Base
      /\ \A n \in 0 .. m : n # m => walk[n + 1] = Enter(walk[n], raw[n + 1])
  BY <1>1, <1>6
<1>. DEFINE G == {n \in 0 .. m : walk[n] \in Seq(Names \ {".", ".."})}
<1>8. 0 .. m \subseteq G
  <2>1. 0 \in G
    <3>1. 0 \in 0 .. m /\ Base \in Seq(Names \ {".", ".."})
      BY <1>1 DEF Base
    <3>. QED
      BY <1>7, <3>1
  <2>2. ASSUME NEW n \in 0 .. m, n # m, n \in G
        PROVE  n + 1 \in G
    <3>1. n + 1 \in 1 .. m /\ n + 1 \in 0 .. m /\ walk[n] \in Seq(Names \ {".", ".."})
      BY <1>1, <2>2
    <3>. QED
      BY <1>1, <1>7, <2>2, <3>1, EnterStays
  <2>. HIDE DEF G, m
  <2>. QED
    BY <1>1, <2>1, <2>2, UpTo
<1>. QED
  BY <1>1, <1>2, <1>8

-----------------------------------------------------------------------------
(* Paths: a prefix, the parent, and a path that has been moved. *)
LEMMA PrefixByPlace ==
  ASSUME NEW S, NEW p \in Seq(S), NEW q \in Seq(S)
  PROVE  IsPrefix(p, q) <=> Len(p) <= Len(q) /\ \A i \in 1 .. Len(p) : p[i] = q[i]
<1>1. ASSUME Len(p) <= Len(q)
      PROVE  /\ SubSeq(p, 1, Len(p)) = p
             /\ SubSeq(q, 1, Len(p)) = [i \in 1 .. Len(p) |-> q[i]]
             /\ p = [i \in 1 .. Len(p) |-> p[i]]
  BY <1>1
<1>. QED
  BY <1>1 DEF IsPrefix

LEMMA FrontIsParent ==
  ASSUME NEW q \in Path, q # Base
  PROVE  /\ Front(q) \in Path /\ Len(Front(q)) = Len(q) - 1 /\ Len(q) \in Nat \ {0}
         /\ \A i \in 1 .. Len(q) - 1 : Front(q)[i] = q[i]
         /\ IsStrictPrefix(Front(q), q)
<1>1. Len(q) \in Nat \ {0}
  BY DEF Path, Base
<1>2. /\ Front(q) \in Path /\ Len(Front(q)) = Len(q) - 1
      /\ \A i \in 1 .. Len(q) - 1 : Front(q)[i] = q[i]
  <2>1. PICK n \in Nat : n = Len(q) - 1
    BY <1>1
  <2>2. \A i \in 1 .. n : q[i] \in Names /\ 1 + i - 1 = i
    BY <1>1, <2>1 DEF Path
  <2>3. /\ SubSeq(q, 1, n) \in Seq(Names)
        /\ Len(SubSeq(q, 1, n)) = IF 1 <= n THEN n - 1 + 1 ELSE 0
        /\ \A i \in 1 .. n - 1 + 1 : SubSeq(q, 1, n)[i] = q[1 + i - 1]
    BY <2>2, SubSeqProperties
  <2>4. n - 1 + 1 = n /\ (IF 1 <= n THEN n - 1 + 1 ELSE 0) = n
    BY <2>1
  <2>5. Len(SubSeq(q, 1, n)) = n /\ \A i \in 1 .. n : SubSeq(q, 1, n)[i] = q[i]
    BY <2>2, <2>3, <2>4
  <2>. QED
    BY <2>1, <2>3, <2>5 DEF Front, Path
<1>3. Front(q) # q
  BY <1>1, <1>2
<1>4. IsPrefix(Front(q), q)
  BY <1>1, <1>2, PrefixByPlace DEF Path
<1>. QED
  BY <1>1, <1>2, <1>3, <1>4 DEF IsStrictPrefix

LEMMA SamePlaces ==
  ASSUME NEW p \in Path, NEW q \in Path, Len(p) = Len(q), \A i \in 1 .. Len(p) : p[i] = q[i]
  PROVE  p = q
BY DEF Path

(* Who stands strictly below p has p or somebody below p for a parent. *)
LEMMA ParentBelow ==
  ASSUME NEW p \in Path, NEW q \in Path, IsStrictPrefix(p, q)
  PROVE  /\ q # Base /\ IsPrefix(p, Front(q)) /\ Len(p) < Len(q)
         /\ Len(q) = Len(p) + 1 => Front(q) = p
<1>1. Len(p) \in Nat /\ Len(q) \in Nat
  BY DEF Path
<1>2. Len(p) <= Len(q) /\ (\A i \in 1 .. Len(p) : p[i] = q[i]) /\ p # q
  BY PrefixByPlace DEF IsStrictPrefix, Path
<1>3. Len(p) # Len(q)
  BY <1>2, SamePlaces
<1>4. Len(p) < Len(q) /\ q # Base
  BY <1>1, <1>2, <1>3 DEF Base
<1>5. IsPrefix(p, Front(q))
  BY <1>1, <1>2, <1>4, FrontIsParent, PrefixByPlace DEF Path
<1>6. Len(q) = Len(p) + 1 => Front(q) = p
  BY <1>1, <1>2, <1>4, FrontIsParent, SamePlaces
<1>. QED
  BY <1>4, <1>5, <1>6

LEMMA PrefixOrder ==
  ASSUME NEW p \in Path, NEW q \in Path, NEW r \in Path, IsPrefix(p, q), IsPrefix(q, r)
  PROVE  IsPrefix(p, r)
<1>1. Len(p) \in Nat /\ Len(q) \in Nat /\ Len(r) \in Nat
  BY DEF Path
<1>. QED
  BY <1>1, PrefixByPlace DEF Path

LEMMA PrefixItself ==
  ASSUME NEW p \in Path
  PROVE  IsPrefix(p, p) /\ Len(p) \in Nat
BY PrefixByPlace DEF Path

LEMMA SameEntry ==
  ASSUME NEW p \in Path, NEW q \in Path, p # Base, q # Base, Front(p) = Front(q), Last(p) = Last(q)
  PROVE  p = q
<1>1. Len(p) = Len(q) /\ Len(p) \in Nat \ {0} /\ p[Len(p)] = q[Len(p)]
  BY FrontIsParent DEF Last
<1>2. ASSUME NEW i \in 1 .. Len(p) PROVE p[i] = q[i]
  <2>1. CASE i = Len(p)
    BY <1>1, <2>1
  <2>2. CASE i # Len(p)
    <3>1. i \in 1 .. Len(p) - 1
      BY <1>1, <2>2
    <3>. QED
      BY <1>1, <3>1, FrontIsParent
  <2>. QED
    BY <2>1, <2>2
<1>. QED
  BY <1>1, <1>2, SamePlaces

(* The path q, at or below p, after p has been renamed to. *)
Renamed(q, p, to) == to \o SubSeq(q, Len(p) + 1, Len(q))

LEMMA RenamedByPlace ==
  ASSUME NEW p \in Path, NEW q \in Path, NEW to \in Path, IsPrefix(p, q)
  PROVE  LET r == Renamed(q, p, to) IN
         /\ r \in Path /\ Len(r) = Len(to) + Len(q) - Len(p) /\ Len(p) <= Len(q)
         /\ \A i \in 1 .. Len(to) : r[i] = to[i]
         /\ \A i \in 1 .. Len(q) - Len(p) : r[Len(to) + i] = q[Len(p) + i]
         /\ IsPrefix(to, r)
<1>. DEFINE r == Renamed(q, p, to)
            e == SubSeq(q, Len(p) + 1, Len(q))
<1>1. Len(p) \in Nat /\ Len(q) \in Nat /\ Len(to) \in Nat /\ Len(p) <= Len(q)
  BY PrefixByPlace DEF Path
<1>2. /\ e \in Path /\ Len(e) = Len(q) - Len(p)
      /\ \A i \in 1 .. Len(q) - Len(p) : e[i] = q[Len(p) + i]
  BY <1>1 DEF Path
<1>. HIDE DEF e
<1>3. /\ to \o e \in Path /\ Len(to \o e) = Len(to) + Len(e)
      /\ \A i \in 1 .. Len(to) : (to \o e)[i] = to[i]
      /\ \A i \in 1 .. Len(e) : (to \o e)[Len(to) + i] = e[i]
  <2>1. /\ to \o e \in Seq(Names) /\ Len(to \o e) = Len(to) + Len(e)
        /\ \A i \in 1 .. Len(to) + Len(e) :
             (to \o e)[i] = IF i <= Len(to) THEN to[i] ELSE e[i - Len(to)]
    BY <1>2, ConcatProperties DEF Path
  <2>2. \A i \in 1 .. Len(to) : i \in 1 .. Len(to) + Len(e) /\ i <= Len(to)
    BY <1>1, <1>2
  <2>3. \A i \in 1 .. Len(e) : /\ Len(to) + i \in 1 .. Len(to) + Len(e)
                               /\ ~(Len(to) + i <= Len(to)) /\ (Len(to) + i) - Len(to) = i
    BY <1>1, <1>2
  <2>. HIDE DEF e
  <2>. QED
    BY <2>1, <2>2, <2>3 DEF Path
<1>4. r = to \o e
  BY DEF Renamed, e
<1>. HIDE DEF r
<1>5. /\ r \in Path /\ Len(r) = Len(to) + Len(q) - Len(p)
      /\ \A i \in 1 .. Len(to) : r[i] = to[i]
      /\ \A i \in 1 .. Len(q) - Len(p) : r[Len(to) + i] = q[Len(p) + i]
  BY <1>1, <1>2, <1>3, <1>4
<1>6. IsPrefix(to, r)
  BY <1>1, <1>5, PrefixByPlace DEF Path
<1>. QED
  BY <1>1, <1>5, <1>6 DEF r

LEMMA RenamedApart ==
  ASSUME NEW p \in Path, NEW to \in Path, NEW q \in Path, NEW s \in Path,
         IsPrefix(p, q), IsPrefix(p, s), Renamed(q, p, to) = Renamed(s, p, to)
  PROVE  q = s
<1>1. Len(p) \in Nat /\ Len(q) \in Nat /\ Len(s) \in Nat /\ Len(to) \in Nat
  BY DEF Path
<1>2. Len(q) = Len(s) /\ Len(p) <= Len(q)
  BY <1>1, RenamedByPlace
<1>3. \A i \in 1 .. Len(p) : q[i] = p[i] /\ s[i] = p[i]
  BY PrefixByPlace DEF Path
<1>4. ASSUME NEW i \in 1 .. Len(q) - Len(p) PROVE q[Len(p) + i] = s[Len(p) + i]
  <2>. DEFINE r == Renamed(q, p, to)
  <2>1. r[Len(to) + i] = q[Len(p) + i]
    BY RenamedByPlace
  <2>2. Renamed(s, p, to)[Len(to) + i] = s[Len(p) + i]
    <3>. DEFINE v == Renamed(s, p, to)
    <3>1. \A j \in 1 .. Len(s) - Len(p) : v[Len(to) + j] = s[Len(p) + j]
      BY RenamedByPlace
    <3>. QED
      BY <1>2, <3>1
  <2>. QED
    BY <2>1, <2>2
<1>5. ASSUME NEW i \in 1 .. Len(q) PROVE q[i] = s[i]
  <2>1. CASE i <= Len(p)
    BY <1>1, <1>3, <2>1
  <2>2. CASE i > Len(p)
    <3>1. i - Len(p) \in 1 .. Len(q) - Len(p) /\ Len(p) + (i - Len(p)) = i
      BY <1>1, <2>2
    <3>. QED
      BY <1>4, <3>1
  <2>. QED
    BY <1>1, <2>1, <2>2
<1>. QED
  BY <1>2, <1>5, SamePlaces

LEMMA RenamedSelf ==
  ASSUME NEW p \in Path, NEW to \in Path
  PROVE  Renamed(p, p, to) = to
<1>1. Len(p) \in Nat /\ Len(to) \in Nat
  BY DEF Path
<1>2. Renamed(p, p, to) \in Path /\ Len(Renamed(p, p, to)) = Len(to)
      /\ \A i \in 1 .. Len(to) : Renamed(p, p, to)[i] = to[i]
  <2>1. IsPrefix(p, p)
    BY PrefixItself
  <2>2. LET r == Renamed(p, p, to) IN
        /\ r \in Path /\ Len(r) = Len(to) + Len(p) - Len(p)
        /\ \A i \in 1 .. Len(to) : r[i] = to[i]
    BY <2>1, RenamedByPlace
  <2>3. Len(to) + Len(p) - Len(p) = Len(to)
    BY <1>1
  <2>. QED
    BY <2>2, <2>3
<1>. QED
  BY <1>2, SamePlaces

LEMMA RenamedToItself ==
  ASSUME NEW p \in Path, NEW q \in Path, IsPrefix(p, q)
  PROVE  Renamed(q, p, p) = q
<1>. DEFINE r == Renamed(q, p, p)
<1>1. Len(p) \in Nat /\ Len(q) \in Nat
  BY DEF Path
<1>2. /\ r \in Path /\ Len(r) = Len(q) /\ Len(p) <= Len(q)
      /\ \A i \in 1 .. Len(p) : r[i] = q[i]
      /\ \A i \in 1 .. Len(q) - Len(p) : r[Len(p) + i] = q[Len(p) + i]
  <2>1. /\ r \in Path /\ Len(r) = Len(p) + Len(q) - Len(p) /\ Len(p) <= Len(q)
        /\ \A i \in 1 .. Len(p) : r[i] = p[i]
        /\ \A i \in 1 .. Len(q) - Len(p) : r[Len(p) + i] = q[Len(p) + i]
    BY RenamedByPlace
  <2>2. \A i \in 1 .. Len(p) : p[i] = q[i]
    BY PrefixByPlace DEF Path
  <2>3. Len(p) + Len(q) - Len(p) = Len(q)
    BY <1>1
  <2>. HIDE DEF r
  <2>. QED
    BY <2>1, <2>2, <2>3
<1>. HIDE DEF r
<1>3. ASSUME NEW i \in 1 .. Len(r) PROVE r[i] = q[i]
  <2>1. CASE i <= Len(p)
    BY <1>1, <1>2, <2>1
  <2>2. CASE i > Len(p)
    <3>1. i - Len(p) \in 1 .. Len(q) - Len(p) /\ Len(p) + (i - Len(p)) = i
      BY <1>1, <1>2, <2>2
    <3>. QED
      BY <1>2, <3>1
  <2>. QED
    BY <1>1, <1>2, <2>1, <2>2
<1>. QED
  BY <1>2, <1>3, SamePlaces DEF r

LEMMA RenamedParent ==
  ASSUME NEW p \in Path, NEW q \in Path, NEW to \in Path, IsStrictPrefix(p, q)
  PROVE  /\ Renamed(q, p, to) # Base
         /\ Front(Renamed(q, p, to)) = Renamed(Front(q), p, to)
<1>. DEFINE r == Renamed(q, p, to)
            s == Renamed(Front(q), p, to)
<1>1. Len(p) \in Nat /\ Len(q) \in Nat /\ Len(to) \in Nat
  BY DEF Path
<1>2. q # Base /\ IsPrefix(p, Front(q)) /\ Len(p) < Len(q) /\ IsPrefix(p, q)
  BY ParentBelow DEF IsStrictPrefix
<1>3. /\ Front(q) \in Path /\ Len(Front(q)) = Len(q) - 1
      /\ \A i \in 1 .. Len(q) - 1 : Front(q)[i] = q[i]
  BY <1>2, FrontIsParent
<1>4. /\ r \in Path /\ Len(r) = Len(to) + Len(q) - Len(p)
      /\ \A i \in 1 .. Len(to) : r[i] = to[i]
      /\ \A i \in 1 .. Len(q) - Len(p) : r[Len(to) + i] = q[Len(p) + i]
  BY <1>2, RenamedByPlace
<1>5. /\ s \in Path /\ Len(s) = Len(to) + (Len(q) - 1) - Len(p)
      /\ \A i \in 1 .. Len(to) : s[i] = to[i]
      /\ \A i \in 1 .. (Len(q) - 1) - Len(p) : s[Len(to) + i] = Front(q)[Len(p) + i]
  <2>. DEFINE f == Front(q)
  <2>1. f \in Path /\ IsPrefix(p, f) /\ Len(f) = Len(q) - 1
    BY <1>2, <1>3
  <2>. HIDE DEF f
  <2>2. LET u == Renamed(f, p, to) IN
        /\ u \in Path /\ Len(u) = Len(to) + Len(f) - Len(p)
        /\ \A i \in 1 .. Len(to) : u[i] = to[i]
        /\ \A i \in 1 .. Len(f) - Len(p) : u[Len(to) + i] = f[Len(p) + i]
    BY <2>1, RenamedByPlace
  <2>. QED
    BY <2>1, <2>2 DEF f
<1>. HIDE DEF r, s
<1>6. r # Base /\ Front(r) \in Path /\ Len(Front(r)) = Len(s)
      /\ \A i \in 1 .. Len(s) : Front(r)[i] = r[i]
  <2>1. Len(r) > 0 /\ Len(s) = Len(r) - 1
    BY <1>1, <1>2, <1>4, <1>5
  <2>2. r # Base
    BY <2>1 DEF Base
  <2>. QED
    BY <1>4, <2>1, <2>2, FrontIsParent
<1>7. ASSUME NEW i \in 1 .. Len(s) PROVE r[i] = s[i]
  <2>1. CASE i <= Len(to)
    BY <1>1, <1>4, <1>5, <2>1
  <2>2. CASE i > Len(to)
    <3>. DEFINE j == i - Len(to)
    <3>1. /\ j \in 1 .. (Len(q) - 1) - Len(p) /\ j \in 1 .. Len(q) - Len(p)
          /\ Len(to) + j = i /\ Len(p) + j \in 1 .. Len(q) - 1
      BY <1>1, <1>2, <1>5, <2>2
    <3>. HIDE DEF j
    <3>2. r[Len(to) + j] = q[Len(p) + j] /\ s[Len(to) + j] = Front(q)[Len(p) + j]
      BY <1>4, <1>5, <3>1
    <3>. QED
      BY <1>3, <3>1, <3>2
  <2>. QED
    BY <1>1, <1>5, <2>1, <2>2
<1>. QED
  BY <1>5, <1>6, <1>7, SamePlaces DEF r, s

-----------------------------------------------------------------------------
(* The tree: every entry stands in a directory, under one path only. *)
Stored(d, t) ==
  /\ t \in [DOMAIN t -> Nodes]
  /\ DOMAIN t \subseteq Path /\ Base \in DOMAIN t
  /\ \A p \in DOMAIN t : p = Base \/ (Front(p) \in DOMAIN t /\ d[t[Front(p)]] = Dir)
  /\ IsInjective(t)
  /\ d \in [Nodes -> {Dir} \cup Seq(Writers)]

(* An entry that stays where it is stays in the same directory. *)
Steady(t) == \A q \in DOMAIN tree \cap DOMAIN t : q # Base => t[Front(q)] = tree[Front(q)]

LEMMA Least ==
  ASSUME NEW S \in SUBSET Nat, S # {}
  PROVE  \E n \in S : \A m \in S : n <= m
<1>. DEFINE R == OpToRel(<, Nat)
<1>1. IsWellFoundedOn(R, Nat)
  BY NatLessThanWellFounded
<1>2. \A i, j \in Nat : <<j, i>> \in R <=> j < i
  BY DEF OpToRel
<1>. HIDE DEF R
<1>3. PICK n \in S : \A m \in S : <<m, n>> \notin R
  BY <1>1, WFMin
<1>4. ASSUME NEW m \in S PROVE n <= m
  <2>1. n \in Nat /\ m \in Nat /\ ~(m < n)
    BY <1>2, <1>3
  <2>. QED
    BY <2>1
<1>. QED
  BY <1>4

(* Nothing stands below what is not there. *)
LEMMA Closed ==
  ASSUME NEW d, NEW t, Stored(d, t), NEW p \in Path, NEW q \in DOMAIN t, IsPrefix(p, q)
  PROVE  p \in DOMAIN t
<1>. DEFINE above == {r \in DOMAIN t : IsPrefix(p, r)}
            sizes == {Len(r) : r \in above}
<1>1. sizes \in SUBSET Nat /\ sizes # {} /\ DOMAIN t \subseteq Path
  <2>1. DOMAIN t \subseteq Path /\ q \in above
    BY DEF Stored
  <2>2. \A r \in Path : Len(r) \in Nat
    BY DEF Path
  <2>. QED
    BY <2>1, <2>2
<1>2. PICK n \in sizes : \A m \in sizes : n <= m
  BY <1>1, Least
<1>3. PICK r \in above : Len(r) = n
  BY <1>2
<1>4. CASE r # p
  <2>1. r \in Path /\ IsStrictPrefix(p, r)
    BY <1>1, <1>3, <1>4 DEF IsStrictPrefix
  <2>2. r # Base /\ IsPrefix(p, Front(r)) /\ Len(Front(r)) = n - 1 /\ n \in Nat
    BY <1>3, <2>1, ParentBelow, FrontIsParent
  <2>3. Front(r) \in above
    BY <1>3, <2>2 DEF Stored
  <2>4. n - 1 \in sizes
    BY <2>2, <2>3
  <2>. HIDE DEF sizes
  <2>5. n <= n - 1
    BY <1>2, <2>4
  <2>. QED
    BY <2>2, <2>5
<1>. QED
  BY <1>3, <1>4

LEMMA Childless ==
  ASSUME Stored(data, tree), NEW p \in Path, Children(p) = {}
  PROVE  Below(p) = {}
<1>. SUFFICES ASSUME NEW q \in Below(p) PROVE FALSE
  OBVIOUS
<1>1. q \in DOMAIN tree /\ q \in Path /\ IsStrictPrefix(p, q)
  BY DEF Below, Stored
<1>2. Len(p) \in Nat /\ Len(q) \in Nat /\ Len(p) < Len(q) /\ \A i \in 1 .. Len(p) : p[i] = q[i]
  BY <1>1, ParentBelow, PrefixByPlace DEF Path, IsStrictPrefix
<1>. DEFINE c == [i \in 1 .. Len(p) + 1 |-> q[i]]
<1>3. /\ c \in Path /\ Len(c) = Len(p) + 1 /\ Len(c) <= Len(q)
      /\ \A i \in 1 .. Len(c) : c[i] = q[i]
  BY <1>1, <1>2 DEF Path
<1>. HIDE DEF c
<1>4. IsPrefix(c, q)
  BY <1>1, <1>2, <1>3, PrefixByPlace DEF Path
<1>5. IsPrefix(p, c)
  BY <1>2, <1>3, PrefixByPlace DEF Path
<1>6. c \in DOMAIN tree /\ c # p
  BY <1>1, <1>2, <1>3, <1>4, Closed
<1>. QED
  BY <1>3, <1>5, <1>6 DEF Children, Below, IsStrictPrefix

(* Other content of the inodes in use, and the same directories. *)
LEMMA SameDirectories ==
  ASSUME NEW d, NEW e, NEW t, Stored(d, t), e \in [Nodes -> {Dir} \cup Seq(Writers)],
         \A p \in DOMAIN t : d[t[p]] = Dir => e[t[p]] = Dir
  PROVE  Stored(e, t)
BY DEF Stored

LEMMA SteadySame == Stored(data, tree) => Steady(tree)
BY DEF Steady

LEMMA WithIsStored ==
  ASSUME NEW d, NEW p \in Path, NEW n \in Nodes, Stored(d, tree),
         n \notin {tree[q] : q \in DOMAIN tree}, ~Exists(p),
         p # Base, Front(p) \in DOMAIN tree, d[tree[Front(p)]] = Dir
  PROVE  Stored(d, With(p, n)) /\ Steady(With(p, n))
<1>. DEFINE t == With(p, n)
<1>1. /\ DOMAIN t = DOMAIN tree \cup {p} /\ t[p] = n
      /\ \A q \in DOMAIN tree : t[q] = tree[q]
      /\ t \in [DOMAIN t -> Nodes]
  BY DEF With, Exists, Stored
<1>. HIDE DEF t
<1>2. DOMAIN t \subseteq Path
  BY <1>1 DEF Stored
<1>3. ASSUME NEW q \in DOMAIN t, q # Base
      PROVE  Front(q) \in DOMAIN tree /\ t[Front(q)] = tree[Front(q)] /\ d[t[Front(q)]] = Dir
  BY <1>1, <1>3 DEF Stored
<1>4. IsInjective(t)
  BY <1>1 DEF Stored, IsInjective
<1>5. Steady(t)
  BY <1>3 DEF Steady
<1>. QED
  BY <1>1, <1>2, <1>3, <1>4, <1>5 DEF Stored, t

LEMMA WithoutIsStored ==
  ASSUME NEW p \in Path, p # Base, Stored(data, tree), Children(p) = {}
  PROVE  Stored(data, Without(p)) /\ Steady(Without(p)) /\ Within(p, Without(p)) = {}
<1>. DEFINE t == Without(p)
<1>1. /\ DOMAIN t = DOMAIN tree \ {p} /\ \A q \in DOMAIN t : t[q] = tree[q]
      /\ t \in [DOMAIN t -> Nodes] /\ Base \in DOMAIN t
  BY DEF Without, Stored
<1>. HIDE DEF t
<1>2. Below(p) = {}
  BY Childless
<1>3. ASSUME NEW q \in DOMAIN t, q # Base
      PROVE  Front(q) \in DOMAIN t /\ data[t[Front(q)]] = Dir
  <2>1. q \in Path /\ q \in DOMAIN tree /\ Front(q) \in DOMAIN tree /\ data[tree[Front(q)]] = Dir
    BY <1>1, <1>3 DEF Stored
  <2>2. IsStrictPrefix(Front(q), q)
    BY <1>3, <2>1, FrontIsParent
  <2>3. Front(q) # p
    BY <1>2, <2>1, <2>2 DEF Below
  <2>. QED
    BY <1>1, <2>1, <2>3
<1>4. IsInjective(t)
  BY <1>1 DEF Stored, IsInjective
<1>5. Steady(t)
  BY <1>1, <1>3 DEF Steady
<1>6. Within(p, t) = {}
  BY <1>1, <1>2 DEF Within, Below, IsStrictPrefix
<1>. QED
  BY <1>1, <1>3, <1>4, <1>5, <1>6 DEF Stored, t

LEMMA MovedIsStored ==
  ASSUME NEW p \in Path, NEW to \in Path, Stored(data, tree), Renames(p, to)
  PROVE  Stored(data, Moved(p, to)) /\ Steady(Moved(p, to))
<1>. DEFINE t == Moved(p, to)
            W == Within(p, tree)
            New(q) == Renamed(q, p, to)
            Old(r) == CHOOSE q \in W : New(q) = r
            stay == DOMAIN tree \ (W \cup {to})
<1>1. /\ p # Base /\ p \in DOMAIN tree /\ to # Base /\ ~IsStrictPrefix(p, to)
      /\ Front(to) \in DOMAIN tree /\ data[tree[Front(to)]] = Dir
      /\ to \in DOMAIN tree => p = to \/ Children(to) = {}
  BY DEF Renames, Exists, HasRoom, IsDir
<1>2. /\ DOMAIN t = stay \cup {New(q) : q \in W}
      /\ t = [r \in DOMAIN t |-> IF r \in stay THEN tree[r] ELSE tree[Old(r)]]
  BY DEF Moved, Renamed
<1>3. \A q \in W : q \in Path /\ q \in DOMAIN tree /\ IsPrefix(p, q)
  BY DEF Within, Stored
<1>4. p # to => Below(to) = {}
  <2>1. CASE to \in DOMAIN tree
    BY <1>1, <2>1, Childless
  <2>2. CASE to \notin DOMAIN tree
    <3>. SUFFICES ASSUME NEW q \in Below(to) PROVE FALSE
      OBVIOUS
    <3>1. q \in DOMAIN tree /\ IsPrefix(to, q)
      BY DEF Below, IsStrictPrefix
    <3>. QED
      BY <2>2, <3>1, Closed
  <2>. QED
    BY <2>1, <2>2
<1>5. ASSUME NEW q \in W
      PROVE  New(q) \in Path /\ IsPrefix(to, New(q)) /\ (p = to => New(q) = q)
  BY <1>3, RenamedByPlace, RenamedToItself
<1>6. ASSUME NEW q \in W, New(q) \in DOMAIN tree
      PROVE  p = to \/ New(q) = to
  BY <1>4, <1>5, <1>6 DEF Below, IsStrictPrefix
<1>7. ASSUME NEW q \in W PROVE New(q) \notin stay
  BY <1>5, <1>6
<1>8. ASSUME NEW q \in W PROVE New(q) \in DOMAIN t /\ t[New(q)] = tree[q]
  <2>1. New(q) \in DOMAIN t /\ t[New(q)] = tree[Old(New(q))]
    BY <1>2, <1>7
  <2>2. Old(New(q)) \in W /\ New(Old(New(q))) = New(q)
    OBVIOUS
  <2>3. Old(New(q)) = q
    BY <1>3, <2>2, RenamedApart
  <2>. QED
    BY <2>1, <2>3
<1>9. \A r \in stay : r \in DOMAIN t /\ t[r] = tree[r] /\ r \in DOMAIN tree /\ r \in Path
  BY <1>2 DEF Stored
<1>10. \A r \in DOMAIN t : r \in stay \/ \E q \in W : r = New(q)
  BY <1>2
<1>. HIDE DEF t, New, Old
<1>11. Front(to) \in stay
  <2>1. Front(to) \in Path /\ IsPrefix(Front(to), to) /\ Front(to) # to
    BY <1>1, FrontIsParent DEF IsStrictPrefix
  <2>2. IsPrefix(p, Front(to)) => IsStrictPrefix(p, to)
    <3>. SUFFICES ASSUME IsPrefix(p, Front(to)) PROVE p # to /\ IsPrefix(p, to)
      BY DEF IsStrictPrefix
    <3>1. IsPrefix(p, to)
      BY <2>1, PrefixOrder
    <3>2. Len(p) <= Len(Front(to)) /\ Len(Front(to)) = Len(to) - 1 /\ Len(to) \in Nat
      BY <1>1, <2>1, PrefixByPlace, FrontIsParent DEF Path
    <3>. QED
      BY <3>1, <3>2
  <2>. QED
    BY <1>1, <2>1, <2>2 DEF Within
<1>12. ASSUME NEW r \in stay, r # Base
       PROVE  Front(r) \in stay /\ data[tree[Front(r)]] = Dir
  <2>1. Front(r) \in DOMAIN tree /\ data[tree[Front(r)]] = Dir /\ r \in Path
    BY <1>9, <1>12 DEF Stored
  <2>2. Front(r) \in Path /\ IsStrictPrefix(Front(r), r)
    BY <1>12, <2>1, FrontIsParent
  <2>3. Front(r) \notin W
    BY <1>9, <2>1, <2>2, PrefixOrder DEF Within, IsStrictPrefix
  <2>4. Front(r) # to
    <3>1. CASE p = to
      BY <1>1, <2>3, <3>1, PrefixItself DEF Within
    <3>2. CASE p # to
      BY <1>4, <1>9, <2>2, <3>2 DEF Below
    <3>. QED
      BY <3>1, <3>2
  <2>. QED
    BY <2>1, <2>3, <2>4
<1>13. ASSUME NEW q \in W, q # p
       PROVE  /\ Front(q) \in W /\ New(q) # Base
              /\ Front(New(q)) = New(Front(q)) /\ data[tree[Front(q)]] = Dir
  <2>1. q \in Path /\ q \in DOMAIN tree /\ IsStrictPrefix(p, q)
    BY <1>3, <1>13 DEF IsStrictPrefix
  <2>2. q # Base /\ IsPrefix(p, Front(q))
    BY <2>1, ParentBelow
  <2>3. Front(q) \in DOMAIN tree /\ data[tree[Front(q)]] = Dir
    BY <2>1, <2>2 DEF Stored
  <2>. QED
    BY <2>1, <2>2, <2>3, RenamedParent DEF Within, New
<1>14. p \in W /\ New(p) = to
  BY <1>1, PrefixItself, RenamedSelf DEF Within, New
<1>15. ASSUME NEW r \in DOMAIN t, r # Base
       PROVE  Front(r) \in DOMAIN t /\ data[t[Front(r)]] = Dir
  <2>1. CASE r \in stay
    BY <1>9, <1>12, <1>15, <2>1
  <2>2. ASSUME NEW q \in W, r = New(q) PROVE Front(r) \in DOMAIN t /\ data[t[Front(r)]] = Dir
    <3>1. CASE q = p
      BY <1>1, <1>9, <1>11, <1>14, <2>2, <3>1
    <3>2. CASE q # p
      BY <1>8, <1>13, <2>2, <3>2
    <3>. QED
      BY <3>1, <3>2
  <2>. QED
    BY <1>10, <2>1, <2>2
<1>16. /\ t \in [DOMAIN t -> Nodes] /\ DOMAIN t \subseteq Path
  <2>1. \A r \in DOMAIN t : r \in Path /\ t[r] \in Nodes
    BY <1>3, <1>5, <1>8, <1>9, <1>10 DEF Stored
  <2>2. t = [r \in DOMAIN t |-> t[r]]
    BY <1>2
  <2>. QED
    BY <2>1, <2>2
<1>17. IsInjective(t)
  <2>. SUFFICES ASSUME NEW r \in DOMAIN t, NEW s \in DOMAIN t, t[r] = t[s] PROVE r = s
    BY DEF IsInjective
  <2>0. \A x, y \in DOMAIN tree : tree[x] = tree[y] => x = y
    BY DEF Stored, IsInjective
  <2>1. CASE r \in stay /\ s \in stay
    BY <1>9, <2>0, <2>1
  <2>2. ASSUME NEW q \in W, r = New(q), s \in stay PROVE FALSE
    BY <1>3, <1>8, <1>9, <2>0, <2>2
  <2>3. ASSUME NEW q \in W, s = New(q), r \in stay PROVE FALSE
    BY <1>3, <1>8, <1>9, <2>0, <2>3
  <2>4. ASSUME NEW q \in W, NEW u \in W, r = New(q), s = New(u) PROVE r = s
    BY <1>3, <1>8, <2>0, <2>4
  <2>. QED
    BY <1>10, <2>1, <2>2, <2>3, <2>4
<1>18. ASSUME NEW r \in DOMAIN tree \cap DOMAIN t, r # Base
       PROVE  t[Front(r)] = tree[Front(r)]
  <2>1. CASE r \in stay
    BY <1>9, <1>12, <1>18, <2>1
  <2>2. ASSUME NEW q \in W, r = New(q) PROVE t[Front(r)] = tree[Front(r)]
    <3>1. CASE r = to
      BY <1>9, <1>11, <3>1
    <3>2. CASE r # to
      <4>1. p = to /\ r = q /\ q # p
        BY <1>5, <1>6, <1>14, <2>2, <3>2
      <4>2. Front(q) \in W /\ New(Front(q)) = Front(q)
        BY <1>5, <1>13, <4>1
      <4>. QED
        BY <1>8, <4>1, <4>2
    <3>. QED
      BY <3>1, <3>2
  <2>. QED
    BY <1>10, <2>1, <2>2
<1>19. Base \in stay
  <2>1. Base \in Path /\ Len(Base) = 0 /\ Len(p) \in Nat \ {0}
    BY <1>1, FrontIsParent DEF Stored, Base
  <2>2. ~IsPrefix(p, Base)
    <3>. SUFFICES ASSUME IsPrefix(p, Base) PROVE FALSE
      OBVIOUS
    <3>1. Len(p) <= Len(Base)
      BY <2>1, PrefixByPlace DEF Path
    <3>. QED
      BY <2>1, <3>1
  <2>. QED
    BY <1>1, <2>1, <2>2 DEF Stored, Within
<1>. QED
  BY <1>9, <1>15, <1>16, <1>17, <1>18, <1>19 DEF Stored, Steady, t

-----------------------------------------------------------------------------
(* The invariant. *)
Fields == {"kind", "path", "to", "phase", "node", "parent", "pos", "size", "got",
           "found", "names", "alone", "made", "always", "ever"}

Own(g, n) == [i \in 1 .. n |-> g]

IsFile(n, d) == n \in Nodes /\ d[n] \in Seq(Writers)

(* An operation o of g, when d is the content and t the tree. *)
Writing(g, o, d) ==
  o.kind \in {"write", "upload"} =>
    /\ o.size \in Nat /\ o.pos \in 0 .. o.size
    /\ \/ o.phase = "start" /\ o.node = None /\ o.pos = 0
       \/ /\ o.phase = "copy" /\ IsFile(o.node, d)
          /\ o.alone => d[o.node] = Own(g, o.pos)

Reading(o, d) ==
  o.kind \in {"read", "download"} =>
    /\ o.got \in Seq(Writers)
    /\ \/ o.phase \in {"start", "open"} /\ o.node = None /\ o.got = <<>>
       \/ /\ o.phase = "copy" /\ IsFile(o.node, d)
          /\ o.size \in Nat /\ Len(o.got) <= o.size
          /\ o.kind = "read" => o.size = MaxRead + 1
          /\ o.alone => /\ Len(o.got) <= Len(d[o.node])
                        /\ \A i \in 1 .. Len(o.got) : o.got[i] = d[o.node][i]
                        /\ o.kind = "download" => o.size = Len(d[o.node])

Entries(o) == {q \in o.always : Len(q) = Len(o.path) + 1}

Listing(o, t) ==
  o.kind = "list" =>
    /\ Within(o.path, t) \subseteq o.ever
    /\ o.found \subseteq o.ever
    /\ o.phase = "read" => \A q \in Entries(o) : t[Front(q)] = o.node
    /\ o.phase = "info" => /\ \A q \in o.names : IsPrefix(o.path, q)
                           /\ Entries(o) \subseteq o.found \cup o.names

Deleting(o, t) ==
  o.kind = "delete" =>
    /\ o.names \subseteq Nodes
    /\ o.always # {} => o.path \in o.always
    /\ o.phase \in {"entry", "open"} => o.path # Base
    /\ o.phase \in {"entry", "open", "unlink"} /\ o.path \in o.always /\ o.path # Base => t[Front(o.path)] = o.parent

Making(o) ==
  o.kind = "mkdir" =>
    /\ o.pos \in Int
    /\ o.phase = "up" /\ o.pos > Len(o.path) => o.made
    /\ o.phase \in {"start", "check"} => o.pos <= Len(o.path)

Shaped(o) ==
  /\ DOMAIN o = Fields
  /\ o.kind \in Kinds /\ o.path \in Path /\ o.to \in Path
  /\ o.node \in Nodes \cup {None} /\ o.parent \in Nodes \cup {None}

Sound(g, o, d, t) ==
  /\ Shaped(o)
  /\ o.always \subseteq Within(o.path, t)
  /\ Writing(g, o, d)
  /\ Reading(o, d)
  /\ Listing(o, t)
  /\ Deleting(o, t)
  /\ Making(o)

Told == /\ WritesAreAllOrPrefix /\ ReadsAreWhole /\ ListingsAreTrue
        /\ DeletesAreComplete /\ MadeDirectoriesExist

Inv ==
  /\ Stored(data, tree)
  /\ \A g \in Requests : ops[g] # Nobody => Sound(g, ops[g], data, tree)
  /\ DOMAIN ops = Requests
  /\ Told

USE NodesAreNumbered, SizesAreNumbers, ContentIsNoDir

-----------------------------------------------------------------------------
(* What watching the others changes in an operation. *)
LEMMA SawChanges ==
  ASSUME NEW o, NEW t, NEW d, DOMAIN o = Fields
  PROVE  LET s == Saw(o, t, d) IN
         /\ DOMAIN s = Fields
         /\ s.kind = o.kind /\ s.path = o.path /\ s.to = o.to /\ s.phase = o.phase /\ s.node = o.node
         /\ s.pos = o.pos /\ s.size = o.size /\ s.got = o.got /\ s.found = o.found
         /\ s.names = o.names /\ s.alone = o.alone /\ s.parent = o.parent
         /\ s.always = o.always \cap DOMAIN t
         /\ s.ever = o.ever \cup Within(o.path, t)
         /\ s.made <=> o.made \/ (o.path \in DOMAIN t /\ d[t[o.path]] = Dir)
BY DEF Saw, Fields

LEMMA SawWritesChanges ==
  ASSUME NEW o, NEW t, NEW d, DOMAIN o = Fields
  PROVE  LET s == SawWrites(o, t, d) IN
         /\ DOMAIN s = Fields
         /\ s.kind = o.kind /\ s.path = o.path /\ s.to = o.to /\ s.phase = o.phase /\ s.node = o.node
         /\ s.pos = o.pos /\ s.size = o.size /\ s.got = o.got /\ s.found = o.found
         /\ s.names = o.names /\ s.parent = o.parent
         /\ s.always = o.always \cap DOMAIN t
         /\ s.ever = o.ever \cup Within(o.path, t)
         /\ s.made <=> o.made \/ (o.path \in DOMAIN t /\ d[t[o.path]] = Dir)
         /\ s.alone <=> o.alone /\ (o.node = None \/ d[o.node] = data[o.node])
<1>. DEFINE r == Saw(o, t, d)
<1>1. DOMAIN r = Fields
  BY SawChanges
<1>2. /\ DOMAIN SawWrites(o, t, d) = Fields
      /\ \A f \in Fields \ {"alone"} : SawWrites(o, t, d)[f] = r[f]
      /\ SawWrites(o, t, d).alone <=> r.alone /\ (o.node = None \/ d[o.node] = data[o.node])
  BY <1>1 DEF SawWrites, Fields
<1>. QED
  BY <1>2, SawChanges DEF Fields

(* What a step may do to the content: a file that is open stays a file. *)
Spares(d) == \A n \in Nodes : data[n] \in Seq(Writers) /\ (\E g \in Requests : Uses(g, n)) =>
               d[n] \in Seq(Writers)

(* Looking on keeps what a listing and a delete know of the tree. *)
LEMMA Watching ==
  ASSUME NEW o, NEW s, NEW d, NEW t, Stored(d, t), Steady(t),
         o.path \in Path, o.always \subseteq Within(o.path, tree),
         Listing(o, tree), Deleting(o, tree),
         s.kind = o.kind, s.path = o.path, s.phase = o.phase, s.names = o.names,
         s.found = o.found, s.parent = o.parent, s.node = o.node,
         s.always = o.always \cap DOMAIN t, s.ever = o.ever \cup Within(o.path, t)
  PROVE  s.always \subseteq Within(s.path, t) /\ Listing(s, t) /\ Deleting(s, t)
<1>1. s.always \subseteq Within(s.path, t)
  BY DEF Within
<1>2. Listing(s, t)
  <2>. SUFFICES ASSUME s.kind = "list" PROVE Listing(s, t)
    BY DEF Listing
  <2>1. Entries(s) = Entries(o) \cap DOMAIN t /\ Entries(o) \subseteq DOMAIN tree
    BY DEF Entries, Within
  <2>2. ASSUME s.phase = "read", NEW q \in Entries(s) PROVE t[Front(q)] = s.node
    <3>1. tree[Front(q)] = o.node /\ q \in DOMAIN tree \cap DOMAIN t
      BY <2>1, <2>2 DEF Listing
    <3>2. q # Base
      BY <2>2, PrefixItself DEF Entries, Base
    <3>. QED
      BY <3>1, <3>2 DEF Steady
  <2>3. Within(s.path, t) \subseteq s.ever /\ s.found \subseteq s.ever
    BY DEF Listing
  <2>4. s.phase = "info" => /\ \A q \in s.names : IsPrefix(s.path, q)
                            /\ Entries(s) \subseteq s.found \cup s.names
    BY <2>1 DEF Listing
  <2>. QED
    BY <2>2, <2>3, <2>4 DEF Listing
<1>3. ASSUME s.kind = "delete" PROVE Deleting(s, t)
  <2>1. s.always # {} => s.path \in DOMAIN t
    BY <1>1, Closed DEF Within
  <2>2. s.always # {} => s.path \in s.always
    BY <1>3, <2>1 DEF Deleting
  <2>3. ASSUME s.phase \in {"entry", "open", "unlink"}, s.path \in s.always, s.path # Base
        PROVE  t[Front(s.path)] = s.parent
    <3>1. s.path \in DOMAIN tree \cap DOMAIN t
      BY <2>3 DEF Within
    <3>. QED
      BY <1>3, <2>3, <3>1 DEF Steady, Deleting
  <2>. QED
    BY <1>3, <2>2, <2>3 DEF Deleting
<1>. QED
  BY <1>1, <1>2, <1>3 DEF Deleting

(* The operation h is not disturbed by what another one does. *)
LEMMA OthersGoOn ==
  ASSUME Inv, NEW h \in Requests, ops[h] # Nobody,
         NEW t, NEW d, Stored(d, t), Steady(t), Spares(d)
  PROVE  Sound(h, SawWrites(ops[h], t, d), d, t)
<1>. DEFINE o == ops[h]
            s == SawWrites(o, t, d)
<1>1. Sound(h, o, data, tree) /\ Shaped(o)
  BY DEF Inv, Sound
<1>2. DOMAIN o = Fields
  BY <1>1 DEF Shaped
<1>3. /\ DOMAIN s = Fields
      /\ s.kind = o.kind /\ s.path = o.path /\ s.to = o.to /\ s.phase = o.phase /\ s.node = o.node
      /\ s.pos = o.pos /\ s.size = o.size /\ s.got = o.got /\ s.found = o.found
      /\ s.names = o.names /\ s.parent = o.parent
      /\ s.always = o.always \cap DOMAIN t
      /\ s.ever = o.ever \cup Within(o.path, t)
      /\ s.made <=> o.made \/ (o.path \in DOMAIN t /\ d[t[o.path]] = Dir)
      /\ s.alone <=> o.alone /\ (o.node = None \/ d[o.node] = data[o.node])
  BY <1>2, SawWritesChanges
<1>4. IsFile(o.node, data) => IsFile(o.node, d) /\ (s.alone => o.alone /\ d[o.node] = data[o.node])
  BY <1>3 DEF IsFile, Spares, Uses
<1>. HIDE DEF o, s
<1>5. Writing(h, s, d)
  BY <1>1, <1>3, <1>4 DEF Sound, Writing
<1>6. Reading(s, d)
  BY <1>1, <1>3, <1>4 DEF Sound, Reading
<1>7. s.always \subseteq Within(s.path, t) /\ Listing(s, t) /\ Deleting(s, t)
  BY <1>1, <1>3, Watching DEF Sound, Shaped
<1>8. Making(s)
  BY <1>1, <1>3 DEF Sound, Making
<1>9. Shaped(s)
  BY <1>1, <1>3 DEF Shaped
<1>. QED
  BY <1>5, <1>6, <1>7, <1>8, <1>9 DEF Sound, o, s

(* An inode that nobody has open and no path leads to is wiped. *)
LEMMA WipingIsNotSeen ==
  ASSUME NEW g, NEW o, NEW d, NEW t, NEW e, Sound(g, o, d, t),
         o.node \in Nodes => e[o.node] = d[o.node]
  PROVE  Sound(g, o, e, t)
BY DEF Sound, Writing, Reading, IsFile

(* A step whose own operation is in order, or over, keeps the invariant. *)
LEMMA StepKeeps ==
  ASSUME Inv, NEW g \in Requests, NEW op, NEW t, NEW d, Step(g, op, t, d),
         op # Nobody => Sound(g, op, d, t), Stored(d, t), Steady(t), Spares(d)
  PROVE  /\ Stored(data, tree)' /\ DOMAIN ops' = Requests
         /\ \A h \in Requests : ops'[h] # Nobody => Sound(h, ops'[h], data', tree')
<1>. DEFINE used == {t[p] : p \in DOMAIN t}
                      \cup {n \in Nodes : \E h \in Requests \ {g} : Uses(h, n)}
                      \cup (IF op = Nobody THEN {} ELSE {op.node, op.parent} \cup Opened(op))
<1>1. /\ tree' = t
      /\ data' = [n \in Nodes |-> IF n \in used THEN d[n] ELSE <<>>]
      /\ ops' = [h \in Requests |-> IF h = g THEN op
                    ELSE IF ops[h] = Nobody THEN Nobody ELSE SawWrites(ops[h], t, d)]
  BY DEF Step
<1>2. \A n \in used \cap Nodes : data'[n] = d[n]
  BY <1>1
<1>3. Stored(data, tree)'
  <2>1. d \in [Nodes -> {Dir} \cup Seq(Writers)] /\ <<>> \in Seq(Writers)
    BY DEF Stored
  <2>2. data' \in [Nodes -> {Dir} \cup Seq(Writers)]
    BY <1>1, <2>1
  <2>3. \A p \in DOMAIN t : data'[t[p]] = d[t[p]]
    BY <1>2 DEF Stored
  <2>4. Stored(data', t)
    BY <2>2, <2>3, SameDirectories
  <2>. QED
    BY <1>1, <2>4 DEF Stored
<1>4. ASSUME NEW h \in Requests, ops'[h] # Nobody PROVE Sound(h, ops'[h], data', tree')
  <2>1. CASE h = g
    <3>1. op # Nobody /\ ops'[h] = op
      BY <1>1, <1>4, <2>1
    <3>2. op.node \in Nodes => data'[op.node] = d[op.node]
      BY <3>1, <1>2
    <3>. QED
      BY <1>1, <2>1, <3>1, <3>2, WipingIsNotSeen
  <2>2. CASE h # g
    <3>1. ops[h] # Nobody /\ ops'[h] = SawWrites(ops[h], t, d)
      BY <1>1, <1>4, <2>2
    <3>2. Sound(h, ops'[h], d, t)
      BY <3>1, OthersGoOn
    <3>3. DOMAIN ops[h] = Fields
      BY <3>1 DEF Inv, Sound, Shaped
    <3>4. ops'[h].node = ops[h].node
      BY <3>1, <3>3, SawWritesChanges
    <3>5. ops'[h].node \in Nodes => data'[ops'[h].node] = d[ops'[h].node]
      BY <2>2, <3>1, <3>4, <1>2 DEF Uses
    <3>. QED
      BY <1>1, <3>2, <3>5, WipingIsNotSeen
  <2>. QED
    BY <2>1, <2>2
<1>. QED
  BY <1>1, <1>3, <1>4

LEMMA SilenceTellsNothing == answer' = Silence => Told'
BY DEF Told, WritesAreAllOrPrefix, ReadsAreWhole, ListingsAreTrue, DeletesAreComplete,
       MadeDirectoriesExist, Answered

LEMMA GoesKeeps ==
  ASSUME Inv, NEW g \in Requests, NEW o, NEW t, NEW d, Goes(g, o, t, d),
         Sound(g, Saw(o, t, d), d, t), Stored(d, t), Steady(t), Spares(d)
  PROVE  Inv'
<1>1. Step(g, Saw(o, t, d), t, d) /\ Told'
  BY SilenceTellsNothing DEF Goes
<1>. QED
  BY <1>1, StepKeeps DEF Inv

(* When an operation may end well, leaving the tree t. *)
Complete(o, t) ==
  /\ o.kind \in {"write", "upload"} => o.phase = "copy" /\ o.pos = o.size
  /\ o.kind \in {"read", "download"} =>
       /\ o.phase = "copy"
       /\ Len(o.got) + 1 > o.size \/ Len(o.got) + 1 > Len(data[o.node])
       /\ o.kind = "read" \/ Len(o.got) = o.size
  /\ o.kind = "list" => o.phase = "info" /\ o.names = {}
  /\ o.kind = "delete" => o.always \cap DOMAIN t = {}
  /\ o.kind = "mkdir" => o.phase = "up" /\ o.pos > Len(o.path)

LEMMA EndsKeeps ==
  ASSUME Inv, NEW g \in Requests, ops[g] # Nobody, NEW ok \in BOOLEAN, NEW t, Ends(g, ok, t),
         Stored(data, t), Steady(t), ok => Complete(ops[g], t)
  PROVE  Inv'
<1>. DEFINE o == ops[g]
            s == Saw(o, t, data)
            left == IF o.node = None THEN <<>> ELSE data[o.node]
<1>1. Sound(g, o, data, tree) /\ DOMAIN o = Fields
  BY DEF Inv, Sound, Shaped
<1>2. /\ Step(g, Nobody, t, data)
      /\ answer' = [ok |-> ok, op |-> s, left |-> left]
  BY DEF Ends
<1>3. /\ s.kind = o.kind /\ s.path = o.path /\ s.phase = o.phase /\ s.node = o.node
      /\ s.pos = o.pos /\ s.size = o.size /\ s.got = o.got /\ s.found = o.found
      /\ s.names = o.names /\ s.alone = o.alone
      /\ s.always = o.always \cap DOMAIN t
      /\ s.ever = o.ever \cup Within(o.path, t)
      /\ s.made <=> o.made \/ (o.path \in DOMAIN t /\ data[t[o.path]] = Dir)
  BY <1>1, SawChanges
<1>4. Stored(data, tree)' /\ DOMAIN ops' = Requests
      /\ \A h \in Requests : ops'[h] # Nobody => Sound(h, ops'[h], data', tree')
  BY <1>2, StepKeeps DEF Spares
<1>. HIDE DEF s, left
<1>5. answer'.ok = ok /\ answer'.op = s /\ answer'.left = left
  BY <1>2
<1>. HIDE DEF o
<1>6. WritesAreAllOrPrefix'
  <2>. SUFFICES ASSUME s.kind \in {"write", "upload"}, s.alone, s.node # None
                PROVE  /\ left = [i \in 1 .. Len(left) |-> g]
                       /\ Len(left) <= s.size
                       /\ ok => Len(left) = s.size
    BY <1>5 DEF WritesAreAllOrPrefix, Answered
  <2>1. /\ o.size \in Nat /\ o.pos \in 0 .. o.size
        /\ o.node \in Nodes /\ data[o.node] = Own(g, o.pos)
    BY <1>1, <1>3 DEF Sound, Writing, IsFile
  <2>2. left = [i \in 1 .. o.pos |-> g]
    BY <1>3, <2>1 DEF left, Own
  <2>3. Len(left) = o.pos
    BY <2>1, <2>2
  <2>4. ok => o.pos = o.size
    BY <1>3 DEF Complete, o
  <2>. QED
    BY <1>3, <2>1, <2>2, <2>3, <2>4
<1>7. ReadsAreWhole'
  <2>. SUFFICES ASSUME s.kind \in {"read", "download"}, ok, s.alone
                PROVE  /\ IsPrefix(s.got, left)
                       /\ s.kind = "read" => (SaysTruncated(s) <=> Len(left) > MaxRead)
                       /\ s.kind = "download" \/ ~SaysTruncated(s) => s.got = left
    BY <1>5 DEF ReadsAreWhole, Answered, SaysTruncated
  <2>1. /\ o.got \in Seq(Writers) /\ o.size \in Nat /\ Len(o.got) <= o.size
        /\ IsFile(o.node, data)
        /\ o.kind = "read" => o.size = MaxRead + 1
        /\ Len(o.got) <= Len(data[o.node])
        /\ \A i \in 1 .. Len(o.got) : o.got[i] = data[o.node][i]
        /\ o.kind = "download" => o.size = Len(data[o.node])
        /\ Len(o.got) + 1 > o.size \/ Len(o.got) + 1 > Len(data[o.node])
        /\ o.kind = "read" \/ Len(o.got) = o.size
    BY <1>1, <1>3 DEF Sound, Reading, Complete, o
  <2>2. left = data[o.node] /\ left \in Seq(Writers)
    BY <1>3, <2>1 DEF left, IsFile
  <2>3. IsPrefix(s.got, left)
    BY <1>3, <2>1, <2>2 DEF IsPrefix
  <2>4. Len(o.got) = Len(left) => o.got = left
    BY <2>1, <2>2, SeqEqual
  <2>5. Len(o.got) \in Nat /\ Len(left) \in Nat
    BY <2>1, <2>2
  <2>. QED
    BY <1>3, <2>1, <2>2, <2>3, <2>4, <2>5 DEF SaysTruncated
<1>8. ListingsAreTrue'
  <2>. SUFFICES ASSUME s.kind = "list", ok
                PROVE  /\ {q \in s.always : Len(q) = Len(s.path) + 1} \subseteq s.found
                       /\ s.found \subseteq s.ever
    BY <1>5 DEF ListingsAreTrue, Answered
  <2>1. Entries(o) \subseteq o.found /\ o.found \subseteq o.ever
    BY <1>1, <1>3 DEF Sound, Listing, Complete, o
  <2>. QED
    BY <1>3, <2>1 DEF Entries
<1>9. DeletesAreComplete'
  <2>. SUFFICES ASSUME s.kind = "delete", ok PROVE s.always = {}
    BY <1>5 DEF DeletesAreComplete, Answered
  <2>. QED
    BY <1>3 DEF Complete, o
<1>10. MadeDirectoriesExist'
  <2>. SUFFICES ASSUME s.kind = "mkdir", ok PROVE s.made
    BY <1>5 DEF MadeDirectoriesExist, Answered
  <2>. QED
    BY <1>1, <1>3 DEF Sound, Making, Complete, o
<1>. QED
  BY <1>4, <1>6, <1>7, <1>8, <1>9, <1>10 DEF Inv, Told


LEMMA NewNodeIsFree ==
  ASSUME Stored(data, tree), Free # {}
  PROVE  /\ NewNode \in Nodes /\ (\A g \in Requests : ~Uses(g, NewNode))
         /\ NewNode \notin {tree[q] : q \in DOMAIN tree}
<1>1. Free \subseteq Nodes /\ Free \in SUBSET Nat
  BY DEF Free
<1>2. NewNode \in Free
  BY <1>1, Least DEF NewNode
<1>. QED
  BY <1>1, <1>2 DEF Free, PathsOf

-----------------------------------------------------------------------------
(* What an action has to show about the operation it leaves. *)
Arriving(o, d, t) ==
  o.kind = "mkdir" =>
    /\ o.pos \in Int
    /\ o.phase = "up" /\ o.pos > Len(o.path) =>
         o.made \/ (o.path \in DOMAIN t /\ d[t[o.path]] = Dir)
    /\ o.phase \in {"start", "check"} => o.pos <= Len(o.path)

LEMMA OwnStep ==
  ASSUME NEW g, NEW o, NEW d, NEW t, Shaped(o), o.always \subseteq Within(o.path, tree),
         Writing(g, o, d), Reading(o, d), Listing(o, tree), Deleting(o, tree), Arriving(o, d, t),
         Stored(d, t), Steady(t)
  PROVE  Sound(g, Saw(o, t, d), d, t)
<1>. DEFINE s == Saw(o, t, d)
<1>1. /\ DOMAIN s = Fields
      /\ s.kind = o.kind /\ s.path = o.path /\ s.to = o.to /\ s.phase = o.phase /\ s.node = o.node
      /\ s.pos = o.pos /\ s.size = o.size /\ s.got = o.got /\ s.found = o.found
      /\ s.names = o.names /\ s.alone = o.alone /\ s.parent = o.parent
      /\ s.always = o.always \cap DOMAIN t
      /\ s.ever = o.ever \cup Within(o.path, t)
      /\ s.made <=> o.made \/ (o.path \in DOMAIN t /\ d[t[o.path]] = Dir)
  BY SawChanges DEF Shaped
<1>. HIDE DEF s
<1>2. Writing(g, s, d) /\ Reading(s, d)
  BY <1>1 DEF Writing, Reading
<1>3. s.always \subseteq Within(s.path, t) /\ Listing(s, t) /\ Deleting(s, t)
  BY <1>1, Watching DEF Shaped
<1>4. Making(s)
  BY <1>1 DEF Making, Arriving
<1>5. Shaped(s)
  BY <1>1 DEF Shaped
<1>. QED
  BY <1>2, <1>3, <1>4, <1>5 DEF Sound, s

LEMMA DataSpared == Spares(data)
BY DEF Spares

LEMMA BeginKeeps ==
  ASSUME Inv, NEW g \in Requests, Begin(g)
  PROVE  Inv'
<1>1. PICK kind \in Kinds, raw \in RawPaths, to \in RawPaths, size \in 0 .. Blocks :
        ops' = [ops EXCEPT ![g] =
            [kind |-> kind, path |-> Clean(raw), to |-> Clean(to), phase |-> "start",
             node |-> None, parent |-> None, pos |-> IF kind = "mkdir" THEN Len(Clean(raw)) ELSE 0,
             size |-> size, got |-> <<>>, found |-> {}, names |-> {}, alone |-> TRUE,
             made |-> IsDir(Clean(raw)), always |-> Within(Clean(raw), tree),
             ever |-> Within(Clean(raw), tree)]]
  BY DEF Begin
<1>2. answer' = Silence /\ UNCHANGED <<tree, data>>
  BY DEF Begin
<1>. DEFINE path == Clean(raw)
            o == [kind |-> kind, path |-> path, to |-> Clean(to), phase |-> "start",
             node |-> None, parent |-> None, pos |-> IF kind = "mkdir" THEN Len(path) ELSE 0,
             size |-> size, got |-> <<>>, found |-> {}, names |-> {}, alone |-> TRUE,
             made |-> IsDir(path), always |-> Within(path, tree),
             ever |-> Within(path, tree)]
<1>3. path \in Path /\ Len(path) \in Nat /\ Clean(to) \in Path
  <2>1. raw \in Path /\ to \in Path
    BY PathsAreSequences
  <2>2. \A p \in Seq(Names \ {".", ".."}) : p \in Path /\ Len(p) \in Nat
    BY DEF Path
  <2>. QED
    BY <2>1, <2>2, CleanStaysBelow
<1>. HIDE DEF path
<1>4. Sound(g, o, data, tree)
  <2>1. Within(path, tree) # {} => path \in Within(path, tree)
    BY <1>3, Closed, PrefixItself DEF Inv, Within
  <2>. QED
    BY <1>3, <2>1 DEF Sound, Shaped, Fields, Writing, Reading, Listing, Deleting, Making
<1>. HIDE DEF o
<1>5. ops' = [ops EXCEPT ![g] = o]
  BY <1>1 DEF o, path
<1>6. Told'
  BY <1>2, SilenceTellsNothing
<1>. QED
  BY <1>2, <1>4, <1>5, <1>6 DEF Inv, Stored

LEMMA RefuseKeeps ==
  ASSUME Inv, NEW g \in Requests, Refuse(g)
  PROVE  Inv'
<1>1. Told'
  BY SilenceTellsNothing DEF Refuse
<1>. QED
  BY <1>1 DEF Refuse, Inv, Stored

LEMMA FailKeeps ==
  ASSUME Inv, NEW g \in Requests, ops[g] # Nobody, Fail(g)
  PROVE  Inv'
BY EndsKeeps, SteadySame DEF Fail, Inv

LEMMA DoneKeeps ==
  ASSUME Inv, NEW g \in Requests, ops[g] # Nobody, NEW t, Done(g, t), Stored(data, t), Steady(t),
         Complete(ops[g], t)
  PROVE  Inv'
BY EndsKeeps DEF Done

-----------------------------------------------------------------------------
(* Write and Upload. *)
LEMMA CreateKeeps ==
  ASSUME Inv, NEW g \in Requests, Create(g)
  PROVE  Inv'
<1>. DEFINE o == ops[g]
            p == o.path
            n == IF Exists(p) THEN tree[p] ELSE NewNode
            t == With(p, n)
            d == Truncated(n)
            opened == [o EXCEPT !.phase = "copy", !.node = n]
<1>1. /\ o # Nobody /\ o.kind \in {"write", "upload"} /\ o.phase = "start"
      /\ Sound(g, o, data, tree) /\ Shaped(o) /\ Stored(data, tree)
  BY DEF Create, At, Inv, Sound
<1>2. \/ Fail(g)
      \/ /\ ~IsDir(p) /\ HasRoom(p) /\ (Exists(p) \/ Free # {})
         /\ Goes(g, opened, t, d)
  BY DEF Create
<1>3. ASSUME ~IsDir(p), HasRoom(p), Exists(p) \/ Free # {}, Goes(g, opened, t, d)
      PROVE  Inv'
  <2>1. /\ n \in Nodes
        /\ \A q \in DOMAIN tree : data[tree[q]] = Dir => tree[q] # n
        /\ ~Exists(p) => n \notin {tree[q] : q \in DOMAIN tree}
    <3>1. CASE Exists(p)
      BY <1>1, <1>3, <3>1 DEF Exists, IsDir, Stored
    <3>2. CASE ~Exists(p)
      BY <1>1, <1>3, <3>2, NewNodeIsFree
    <3>. QED
      BY <3>1, <3>2
  <2>2. /\ DOMAIN opened = Fields /\ Shaped(opened)
        /\ opened.kind = o.kind /\ opened.path = o.path /\ opened.phase = "copy" /\ opened.node = n
        /\ opened.pos = o.pos /\ opened.size = o.size /\ opened.always = o.always
    BY <1>1, <2>1 DEF Shaped, Fields
  <2>3. o.size \in Nat /\ o.pos = 0 /\ o.always \subseteq Within(o.path, tree)
    BY <1>1 DEF Sound, Writing
  <2>4. <<>> \in Seq(Writers) /\ Own(g, 0) = <<>>
    BY DEF Own
  <2>5. /\ d[n] = <<>> /\ Spares(d) /\ d \in [Nodes -> {Dir} \cup Seq(Writers)]
        /\ \A m \in Nodes \ {n} : d[m] = data[m]
    BY <1>1, <2>1, <2>4 DEF Stored, Truncated, Spares
  <2>6. \A q \in DOMAIN tree : data[tree[q]] = Dir => d[tree[q]] = Dir
    BY <1>1, <2>1, <2>5 DEF Stored
  <2>7. Stored(d, tree)
    BY <1>1, <2>5, <2>6, SameDirectories
  <2>8. Stored(d, t) /\ Steady(t)
    <3>1. CASE Exists(p)
      <4>1. t = tree
        BY <1>1, <3>1 DEF With, Exists, Stored
      <4>. QED
        BY <1>1, <2>7, <4>1, SteadySame
    <3>2. CASE ~Exists(p)
      <4>1. p \in Path /\ p # Base /\ Front(p) \in DOMAIN tree /\ d[tree[Front(p)]] = Dir
        BY <1>1, <1>3, <2>6 DEF HasRoom, IsDir, Exists, Shaped
      <4>. HIDE DEF d, n, o
      <4>. QED
        BY <2>1, <2>7, <3>2, <4>1, WithIsStored
    <3>. QED
      BY <3>1, <3>2
  <2>. HIDE DEF opened, n, o, d, t
  <2>9. Writing(g, opened, d)
    BY <2>1, <2>2, <2>3, <2>4, <2>5 DEF Writing, IsFile
  <2>10. /\ Reading(opened, d) /\ Listing(opened, tree)
         /\ Deleting(opened, tree) /\ Arriving(opened, d, t)
    BY <1>1, <2>2 DEF Reading, Listing, Deleting, Arriving
  <2>11. Sound(g, Saw(opened, t, d), d, t)
    BY <2>2, <2>3, <2>8, <2>9, <2>10, OwnStep
  <2>. QED
    BY <1>3, <2>5, <2>8, <2>11, GoesKeeps
<1>. QED
  BY <1>1, <1>2, <1>3, FailKeeps

LEMMA PutKeeps ==
  ASSUME Inv, NEW g \in Requests, Put(g)
  PROVE  Inv'
<1>. DEFINE o == ops[g]
            next == [o EXCEPT !.pos = @ + 1]
            d == [data EXCEPT ![o.node] = Written(@, o.pos + 1, g)]
<1>1. /\ o # Nobody /\ o.kind \in {"write", "upload"} /\ o.phase = "copy"
      /\ Sound(g, o, data, tree) /\ Shaped(o) /\ Stored(data, tree)
  BY DEF Put, At, Inv, Sound
<1>2. \/ o.pos = o.size /\ Done(g, tree)
      \/ o.pos # o.size /\ Goes(g, next, tree, d)
      \/ Fail(g)
  BY DEF Put
<1>3. CASE o.pos = o.size /\ Done(g, tree)
  BY <1>1, <1>3, DoneKeeps, SteadySame DEF Complete
<1>4. CASE o.pos # o.size /\ Goes(g, next, tree, d)
  <2>1. /\ DOMAIN next = Fields /\ Shaped(next)
        /\ next.kind = o.kind /\ next.path = o.path /\ next.phase = "copy" /\ next.node = o.node
        /\ next.pos = o.pos + 1 /\ next.size = o.size /\ next.alone = o.alone
        /\ next.always = o.always
    BY <1>1 DEF Shaped, Fields
  <2>2. /\ o.size \in Nat /\ o.pos \in Nat /\ o.pos + 1 \in 0 .. o.size
        /\ o.node \in Nodes /\ data[o.node] \in Seq(Writers)
        /\ o.alone => data[o.node] = Own(g, o.pos)
    BY <1>1, <1>4 DEF Sound, Writing, IsFile
  <2>3. d[o.node] = Written(data[o.node], o.pos + 1, g)
    BY <1>1, <2>2 DEF Stored
  <2>4. ASSUME NEW old \in Seq(Writers) PROVE Written(old, o.pos + 1, g) \in Seq(Writers)
    <3>1. Len(old) \in Nat /\ o.pos + 1 \in Nat
      BY <2>2
    <3>2. PICK m \in Nat : m = IF Len(old) > o.pos + 1 THEN Len(old) ELSE o.pos + 1
      BY <3>1
    <3>3. \A j \in 1 .. m : (IF j = o.pos + 1 THEN g ELSE IF j <= Len(old) THEN old[j] ELSE Nobody)
                            \in Writers
      BY <3>1 DEF Writers
    <3>4. Written(old, o.pos + 1, g) =
            [j \in 1 .. m |-> IF j = o.pos + 1 THEN g ELSE IF j <= Len(old) THEN old[j] ELSE Nobody]
      BY <3>2 DEF Written
    <3>. HIDE DEF o
    <3>. QED
      BY <3>2, <3>3, <3>4
  <2>5. o.alone => d[o.node] = Own(g, o.pos + 1)
    <3>. SUFFICES ASSUME o.alone PROVE Written(Own(g, o.pos), o.pos + 1, g) = Own(g, o.pos + 1)
      BY <2>2, <2>3
    <3>1. Len(Own(g, o.pos)) = o.pos
      BY <2>2 DEF Own
    <3>2. \A j \in 1 .. o.pos : Own(g, o.pos)[j] = g
      BY <2>2 DEF Own
    <3>. HIDE DEF o
    <3>. QED
      BY <2>2, <3>1, <3>2 DEF Written, Own
  <2>6. /\ Spares(d) /\ d[o.node] \in Seq(Writers) /\ d \in [Nodes -> {Dir} \cup Seq(Writers)]
        /\ \A m \in Nodes \ {o.node} : d[m] = data[m]
    BY <1>1, <2>2, <2>3, <2>4 DEF Stored, Spares
  <2>7. Stored(d, tree) /\ Steady(tree)
    <3>1. \A q \in DOMAIN tree : data[tree[q]] = Dir => d[tree[q]] = Dir
      BY <1>1, <2>2, <2>6 DEF Stored
    <3>. HIDE DEF d
    <3>. QED
      BY <1>1, <2>6, <3>1, SameDirectories, SteadySame
  <2>. HIDE DEF o, next, d
  <2>8. Writing(g, next, d)
    BY <2>1, <2>2, <2>5, <2>6 DEF Writing, IsFile
  <2>9. /\ Reading(next, d) /\ Listing(next, tree)
        /\ Deleting(next, tree) /\ Arriving(next, d, tree)
    BY <1>1, <2>1 DEF Reading, Listing, Deleting, Arriving
  <2>10. Sound(g, Saw(next, tree, d), d, tree)
    BY <1>1, <2>1, <2>7, <2>8, <2>9, OwnStep DEF Sound
  <2>. QED
    BY <1>4, <2>6, <2>7, <2>10, GoesKeeps
<1>. QED
  BY <1>1, <1>2, <1>3, <1>4, FailKeeps

-----------------------------------------------------------------------------
(* Read, Download and List. *)
LEMMA StatKeeps ==
  ASSUME Inv, NEW g \in Requests, Stat(g)
  PROVE  Inv'
<1>. DEFINE o == ops[g]
            next == [o EXCEPT !.phase = "open"]
<1>1. /\ o # Nobody /\ o.kind \in {"read", "list"} /\ o.phase = "start"
      /\ Sound(g, o, data, tree) /\ Shaped(o) /\ Stored(data, tree)
      /\ Steady(tree) /\ o.always \subseteq Within(o.path, tree)
  BY SteadySame DEF Stat, At, Inv, Sound
<1>2. Fail(g) \/ Goes(g, next, tree, data)
  BY DEF Stat
<1>3. CASE Goes(g, next, tree, data)
  <2>1. /\ DOMAIN next = Fields /\ Shaped(next)
        /\ next.kind = o.kind /\ next.path = o.path /\ next.phase = "open" /\ next.node = o.node
        /\ next.always = o.always /\ next.ever = o.ever /\ next.found = o.found /\ next.got = o.got
    BY <1>1 DEF Shaped, Fields
  <2>. HIDE DEF o, next
  <2>2. Listing(next, tree)
    BY <1>1, <2>1 DEF Sound, Listing
  <2>3. Reading(next, data)
    BY <1>1, <2>1 DEF Sound, Reading
  <2>4. Writing(g, next, data) /\ Deleting(next, tree) /\ Arriving(next, data, tree)
    BY <1>1, <2>1 DEF Writing, Deleting, Arriving
  <2>5. Sound(g, Saw(next, tree, data), data, tree)
    BY <1>1, <2>1, <2>2, <2>3, <2>4, OwnStep
  <2>. QED
    BY <1>1, <1>3, <2>5, GoesKeeps, DataSpared
<1>. QED
  BY <1>1, <1>2, <1>3, FailKeeps

LEMMA OpenKeeps ==
  ASSUME Inv, NEW g \in Requests, Open(g)
  PROVE  Inv'
<1>. DEFINE o == ops[g]
            n == tree[o.path]
            next == [o EXCEPT !.phase = "copy", !.node = n, !.size = Limit(o.kind, n)]
<1>1. /\ o # Nobody /\ o.kind \in {"read", "download"} /\ o.phase \in {"start", "open"}
      /\ Sound(g, o, data, tree) /\ Shaped(o) /\ Stored(data, tree)
      /\ Steady(tree) /\ o.always \subseteq Within(o.path, tree)
  BY SteadySame DEF Open, At, Inv, Sound
<1>2. Fail(g) \/ (Exists(o.path) /\ ~IsDir(o.path) /\ Goes(g, next, tree, data))
  BY DEF Open
<1>3. CASE Exists(o.path) /\ ~IsDir(o.path) /\ Goes(g, next, tree, data)
  <2>1. n \in Nodes /\ data[n] \in Seq(Writers)
    BY <1>1, <1>3 DEF Stored, Exists, IsDir
  <2>2. /\ DOMAIN next = Fields /\ Shaped(next)
        /\ next.kind = o.kind /\ next.path = o.path /\ next.always = o.always
        /\ next.phase = "copy" /\ next.node = n
        /\ next.size = Limit(o.kind, n) /\ next.got = o.got
    BY <1>1, <2>1 DEF Shaped, Fields
  <2>3. o.got = <<>>
    BY <1>1 DEF Sound, Reading
  <2>4. /\ o.kind = "read" => next.size = MaxRead + 1
        /\ o.kind = "download" => next.size = Len(data[n])
        /\ next.size \in Nat
    BY <1>1, <2>1, <2>2 DEF Limit
  <2>. HIDE DEF o, next, n
  <2>5. Reading(next, data)
    BY <1>1, <2>1, <2>2, <2>3, <2>4 DEF Reading, IsFile
  <2>6. /\ Writing(g, next, data) /\ Listing(next, tree)
        /\ Deleting(next, tree) /\ Arriving(next, data, tree)
    BY <1>1, <2>2 DEF Writing, Listing, Deleting, Arriving
  <2>7. Sound(g, Saw(next, tree, data), data, tree)
    BY <1>1, <2>2, <2>5, <2>6, OwnStep
  <2>. QED
    BY <1>1, <1>3, <2>7, GoesKeeps, DataSpared
<1>. QED
  BY <1>1, <1>2, <1>3, FailKeeps

LEMMA GetKeeps ==
  ASSUME Inv, NEW g \in Requests, Get(g)
  PROVE  Inv'
<1>. DEFINE o == ops[g]
            i == Len(o.got) + 1
            next == [o EXCEPT !.got = Append(@, data[o.node][i])]
<1>1. /\ o # Nobody /\ o.kind \in {"read", "download"} /\ o.phase = "copy"
      /\ Sound(g, o, data, tree) /\ Shaped(o) /\ Stored(data, tree)
      /\ Steady(tree) /\ o.always \subseteq Within(o.path, tree)
  BY SteadySame DEF Get, At, Inv, Sound
<1>2. /\ o.got \in Seq(Writers) /\ o.node \in Nodes /\ data[o.node] \in Seq(Writers)
      /\ o.size \in Nat /\ Len(o.got) <= o.size
  BY <1>1 DEF Sound, Reading, IsFile
<1>3. CASE i <= o.size /\ i <= Len(data[o.node])
  <2>1. Goes(g, next, tree, data)
    BY <1>3 DEF Get
  <2>2. /\ DOMAIN next = Fields /\ Shaped(next)
        /\ next.kind = o.kind /\ next.path = o.path /\ next.always = o.always
        /\ next.phase = "copy" /\ next.node = o.node
        /\ next.size = o.size /\ next.alone = o.alone
        /\ next.got = Append(o.got, data[o.node][i])
    BY <1>1 DEF Shaped, Fields
  <2>3. data[o.node][i] \in Writers /\ Len(o.got) \in Nat
    BY <1>2, <1>3
  <2>4. /\ next.got \in Seq(Writers) /\ Len(next.got) = Len(o.got) + 1
        /\ \A j \in 1 .. Len(o.got) : next.got[j] = o.got[j]
        /\ next.got[i] = data[o.node][i]
    BY <1>2, <2>2, <2>3
  <2>. HIDE DEF o, next
  <2>5. Reading(next, data)
    BY <1>1, <1>2, <1>3, <2>2, <2>3, <2>4 DEF Sound, Reading, IsFile
  <2>6. /\ Writing(g, next, data) /\ Listing(next, tree)
        /\ Deleting(next, tree) /\ Arriving(next, data, tree)
    BY <1>1, <2>2 DEF Writing, Listing, Deleting, Arriving
  <2>7. Sound(g, Saw(next, tree, data), data, tree)
    BY <1>1, <2>2, <2>5, <2>6, OwnStep
  <2>. QED
    BY <1>1, <2>1, <2>7, GoesKeeps, DataSpared
<1>4. CASE ~(i <= o.size /\ i <= Len(data[o.node]))
  <2>1. Ends(g, o.kind = "read" \/ Len(o.got) = o.size, tree)
    BY <1>4 DEF Get
  <2>2. o.kind = "read" \/ Len(o.got) = o.size => Complete(o, tree)
    BY <1>1, <1>2, <1>4 DEF Complete
  <2>. DEFINE ok == (o.kind = "read" \/ Len(o.got) = o.size)
  <2>3. ok \in BOOLEAN /\ Ends(g, ok, tree) /\ (ok => Complete(ops[g], tree))
    BY <2>1, <2>2
  <2>. HIDE DEF ok
  <2>. QED
    BY <1>1, <2>3, EndsKeeps
<1>. QED
  BY <1>3, <1>4

-----------------------------------------------------------------------------
(* List. *)
LEMMA OpenDirKeeps ==
  ASSUME Inv, NEW g \in Requests, OpenDir(g)
  PROVE  Inv'
<1>. DEFINE o == ops[g]
            next == [o EXCEPT !.phase = "read", !.node = tree[o.path]]
<1>1. /\ o # Nobody /\ o.kind = "list"
      /\ Sound(g, o, data, tree) /\ Shaped(o) /\ Stored(data, tree)
      /\ Steady(tree) /\ o.always \subseteq Within(o.path, tree)
  BY SteadySame DEF OpenDir, At, Inv, Sound
<1>2. Fail(g) \/ (IsDir(o.path) /\ Goes(g, next, tree, data))
  BY DEF OpenDir
<1>3. CASE IsDir(o.path) /\ Goes(g, next, tree, data)
  <2>1. tree[o.path] \in Nodes
    BY <1>1, <1>3 DEF IsDir, Exists, Stored
  <2>2. /\ DOMAIN next = Fields /\ Shaped(next)
        /\ next.kind = "list" /\ next.path = o.path /\ next.node = tree[o.path]
        /\ next.phase = "read" /\ next.found = o.found
        /\ next.always = o.always /\ next.ever = o.ever
    BY <1>1, <2>1 DEF Shaped, Fields
  <2>3. Listing(o, tree) /\ o.path \in Path /\ Len(o.path) \in Nat
    BY <1>1, PrefixItself DEF Sound, Shaped
  <2>4. \A q \in Entries(next) : tree[Front(q)] = next.node
    <3>. SUFFICES ASSUME NEW q \in o.always, Len(q) = Len(o.path) + 1
                  PROVE  Front(q) = o.path
      BY <2>2 DEF Entries
    <3>1. q \in Path /\ IsStrictPrefix(o.path, q)
      BY <1>1, <2>3 DEF Within, Stored, IsStrictPrefix
    <3>. QED
      BY <2>3, <3>1, ParentBelow
  <2>. HIDE DEF o, next
  <2>5. Listing(next, tree)
    BY <1>1, <2>2, <2>3, <2>4 DEF Listing
  <2>6. /\ Writing(g, next, data) /\ Reading(next, data)
        /\ Deleting(next, tree) /\ Arriving(next, data, tree)
    BY <2>2 DEF Writing, Reading, Deleting, Arriving
  <2>7. Sound(g, Saw(next, tree, data), data, tree)
    BY <1>1, <2>2, <2>5, <2>6, OwnStep
  <2>. QED
    BY <1>1, <1>3, <2>7, GoesKeeps, DataSpared
<1>. QED
  BY <1>1, <1>2, <1>3, FailKeeps

(* A path is its parent and its last name. *)
LEMMA Rejoined ==
  ASSUME NEW q \in Path, q # Base, NEW p \in Path
  PROVE  /\ Append(p, Last(q)) \in Path /\ IsPrefix(p, Append(p, Last(q)))
         /\ Front(q) = p => Append(p, Last(q)) = q
<1>1. Last(q) \in Names /\ Len(p) \in Nat /\ Last(q) = q[Len(q)] /\ Len(q) \in Nat \ {0}
  BY FrontIsParent DEF Path, Last
<1>. DEFINE r == Append(p, Last(q))
<1>2. /\ r \in Path /\ Len(r) = Len(p) + 1
      /\ \A i \in 1 .. Len(p) : r[i] = p[i]
      /\ r[Len(p) + 1] = Last(q)
  BY <1>1, AppendProperties DEF Path
<1>. HIDE DEF r
<1>3. IsPrefix(p, r)
  BY <1>1, <1>2, PrefixByPlace DEF Path
<1>4. ASSUME Front(q) = p PROVE r = q
  <2>1. Len(r) = Len(q) /\ Len(p) = Len(q) - 1
    BY <1>1, <1>2, <1>4, FrontIsParent
  <2>2. ASSUME NEW i \in 1 .. Len(r) PROVE r[i] = q[i]
    <3>1. CASE i = Len(p) + 1
      BY <1>1, <1>2, <2>1, <3>1
    <3>2. CASE i # Len(p) + 1
      <4>1. i \in 1 .. Len(p) /\ i \in 1 .. Len(q) - 1
        BY <1>1, <1>2, <2>1, <3>2
      <4>. QED
        BY <1>2, <1>4, <4>1, FrontIsParent
    <3>. QED
      BY <3>1, <3>2
  <2>. QED
    BY <1>2, <2>1, <2>2, SamePlaces
<1>. QED
  BY <1>2, <1>3, <1>4 DEF r

LEMMA ReadDirKeeps ==
  ASSUME Inv, NEW g \in Requests, ReadDir(g)
  PROVE  Inv'
<1>. DEFINE o == ops[g]
            entries == {q \in DOMAIN tree \ {Base} : tree[Front(q)] = o.node}
            names == {Append(o.path, Last(q)) : q \in entries}
            next == [o EXCEPT !.phase = "info", !.node = None, !.names = names]
<1>1. /\ o # Nobody /\ o.kind = "list" /\ o.phase = "read"
      /\ Sound(g, o, data, tree) /\ Shaped(o) /\ Stored(data, tree)
      /\ Steady(tree) /\ o.always \subseteq Within(o.path, tree)
  BY SteadySame DEF ReadDir, At, Inv, Sound
<1>2. Goes(g, next, tree, data)
  BY DEF ReadDir
<1>3. Listing(o, tree) /\ o.path \in Path /\ Len(o.path) \in Nat
  BY <1>1, PrefixItself DEF Sound, Shaped
<1>4. \A q \in names : IsPrefix(o.path, q)
  <2>. SUFFICES ASSUME NEW q \in entries PROVE IsPrefix(o.path, Append(o.path, Last(q)))
    OBVIOUS
  <2>1. q \in Path /\ q # Base
    BY <1>1 DEF Stored
  <2>. QED
    BY <1>3, <2>1, Rejoined
<1>5. Entries(o) \subseteq names
  <2>. SUFFICES ASSUME NEW q \in Entries(o) PROVE q \in names
    OBVIOUS
  <2>1. q \in DOMAIN tree /\ q \in Path /\ IsStrictPrefix(o.path, q) /\ Len(q) = Len(o.path) + 1
    BY <1>1, <1>3 DEF Entries, Within, Stored, IsStrictPrefix
  <2>2. q # Base /\ Front(q) = o.path /\ tree[Front(q)] = o.node
    BY <1>1, <1>3, <2>1, ParentBelow DEF Listing
  <2>3. q \in entries /\ Append(o.path, Last(q)) = q
    BY <1>3, <2>1, <2>2, Rejoined
  <2>. QED
    BY <2>3
<1>. HIDE DEF names
<1>6. /\ DOMAIN next = Fields /\ Shaped(next)
      /\ next.kind = "list" /\ next.path = o.path /\ next.phase = "info"
      /\ next.names = names /\ next.found = o.found
      /\ next.always = o.always /\ next.ever = o.ever
  BY <1>1 DEF Shaped, Fields
<1>. HIDE DEF o, next
<1>7. Listing(next, tree)
  BY <1>1, <1>3, <1>4, <1>5, <1>6 DEF Listing, Entries
<1>8. /\ Writing(g, next, data) /\ Reading(next, data)
      /\ Deleting(next, tree) /\ Arriving(next, data, tree)
  BY <1>6 DEF Writing, Reading, Deleting, Arriving
<1>9. Sound(g, Saw(next, tree, data), data, tree)
  BY <1>1, <1>6, <1>7, <1>8, OwnStep
<1>. QED
  BY <1>1, <1>2, <1>9, GoesKeeps, DataSpared

LEMMA InfoKeeps ==
  ASSUME Inv, NEW g \in Requests, Info(g)
  PROVE  Inv'
<1>. DEFINE o == ops[g]
            next(q) == [o EXCEPT !.names = Skipping(@, q),
                                 !.found = IF Exists(q) THEN @ \cup {q} ELSE @]
<1>1. /\ o # Nobody /\ o.kind = "list" /\ o.phase = "info"
      /\ Sound(g, o, data, tree) /\ Shaped(o) /\ Stored(data, tree)
      /\ Steady(tree) /\ o.always \subseteq Within(o.path, tree)
  BY SteadySame DEF Info, At, Inv, Sound
<1>2. (o.names = {} /\ Done(g, tree)) \/ \E q \in o.names : Goes(g, next(q), tree, data)
  BY DEF Info
<1>3. CASE o.names = {} /\ Done(g, tree)
  BY <1>1, <1>3, DoneKeeps DEF Complete
<1>4. ASSUME NEW q \in o.names, Goes(g, next(q), tree, data) PROVE Inv'
  <2>. DEFINE s == next(q)
  <2>1. /\ DOMAIN s = Fields /\ Shaped(s)
        /\ s.kind = "list" /\ s.path = o.path /\ s.node = o.node /\ s.phase = "info"
        /\ s.names = o.names \ {q}
        /\ s.found = IF Exists(q) THEN o.found \cup {q} ELSE o.found
        /\ s.always = o.always /\ s.ever = o.ever
    BY <1>1 DEF Shaped, Fields, Skipping
  <2>2. Listing(o, tree)
    BY <1>1 DEF Sound
  <2>. HIDE DEF o, s
  <2>3. s.found \subseteq s.ever
    BY <1>1, <1>4, <2>1, <2>2 DEF Listing, Exists, Within
  <2>4. Entries(s) \subseteq s.found \cup s.names
    <3>1. Entries(s) = Entries(o) /\ Entries(o) \subseteq o.always
      BY <2>1 DEF Entries
    <3>2. q \in Entries(o) => Exists(q)
      BY <1>1, <2>2, <3>1 DEF Listing, Exists, Within
    <3>. QED
      BY <1>1, <2>1, <2>2, <3>1, <3>2 DEF Listing
  <2>5. Listing(s, tree)
    BY <1>1, <2>1, <2>2, <2>3, <2>4 DEF Listing
  <2>6. /\ Writing(g, s, data) /\ Reading(s, data)
        /\ Deleting(s, tree) /\ Arriving(s, data, tree)
    BY <2>1 DEF Writing, Reading, Deleting, Arriving
  <2>7. Sound(g, Saw(s, tree, data), data, tree)
    BY <1>1, <2>1, <2>5, <2>6, OwnStep
  <2>. QED
    BY <1>1, <1>4, <2>7, GoesKeeps, DataSpared DEF s
<1>. QED
  BY <1>2, <1>3, <1>4

-----------------------------------------------------------------------------
(* DeleteEntry. *)
LEMMA DeleteGoes ==
  ASSUME Inv, NEW g \in Requests, NEW o, NEW t, Goes(g, o, t, data), Stored(data, t), Steady(t),
         Shaped(o), o.kind = "delete", o.always \subseteq Within(o.path, tree), Deleting(o, tree)
  PROVE  Inv'
<1>1. Writing(g, o, data) /\ Reading(o, data) /\ Listing(o, tree) /\ Arriving(o, data, t)
  BY DEF Writing, Reading, Listing, Arriving
<1>2. Sound(g, Saw(o, t, data), data, t)
  BY <1>1, OwnStep
<1>. QED
  BY <1>2, GoesKeeps, DataSpared

LEMMA DeleteDone ==
  ASSUME Inv, NEW g \in Requests, ops[g] # Nobody, ops[g].kind = "delete",
         NEW t, Done(g, t), Stored(data, t), Steady(t), ops[g].always \cap DOMAIN t = {}
  PROVE  Inv'
BY DoneKeeps DEF Complete

(* What every step of a delete may count on. *)
LEMMA DeleteKnows ==
  ASSUME Inv, NEW g \in Requests, ops[g] # Nobody, ops[g].kind = "delete"
  PROVE  LET o == ops[g] IN
         /\ Shaped(o) /\ Stored(data, tree) /\ Steady(tree) /\ Deleting(o, tree)
         /\ o.path \in Path /\ o.always \subseteq Within(o.path, tree)
         /\ o.phase \in {"entry", "open", "unlink"} /\ o.always # {} /\ o.path # Base =>
              o.path \in EntryOf(g)
<1>. DEFINE o == ops[g]
<1>1. /\ Shaped(o) /\ Stored(data, tree) /\ Steady(tree) /\ Deleting(o, tree)
      /\ o.path \in Path /\ o.always \subseteq Within(o.path, tree)
  BY SteadySame DEF Inv, Sound, Shaped
<1>2. ASSUME o.phase \in {"entry", "open", "unlink"}, o.always # {}, o.path # Base
      PROVE  o.path \in EntryOf(g)
  BY <1>1, <1>2 DEF Deleting, Within, EntryOf
<1>. QED
  BY <1>1, <1>2

(* A delete that goes on, knowing of the parent what it knew. *)
LEMMA DeleteGoesOn ==
  ASSUME Inv, NEW g \in Requests, ops[g] # Nobody, ops[g].kind = "delete",
         NEW o, NEW t, Goes(g, o, t, data), Stored(data, t), Steady(t), DOMAIN o = Fields,
         o.kind = "delete", o.path = ops[g].path, o.to = ops[g].to, o.always = ops[g].always,
         o.parent = ops[g].parent, o.names \subseteq Nodes, o.node \in Nodes \cup {None},
         \/ ops[g].phase \in {"entry", "open", "unlink"}
         \/ o.phase = "parent" \/ o.path = Base,
         o.phase \in {"entry", "open"} => o.path # Base
  PROVE  Inv'
<1>1. Shaped(ops[g]) /\ Deleting(ops[g], tree) /\ ops[g].always \subseteq Within(ops[g].path, tree)
  BY DeleteKnows
<1>2. Shaped(o)
  BY <1>1 DEF Shaped
<1>3. Deleting(o, tree)
  BY <1>1 DEF Deleting
<1>. QED
  BY <1>1, <1>2, <1>3, DeleteGoes

(* An entry without children, of the name that is deleted, goes. *)
LEMMA EntryGoes ==
  ASSUME Inv, NEW g \in Requests, ops[g] # Nobody, ops[g].kind = "delete",
         ops[g].phase \in {"entry", "open", "unlink"}, ops[g].path # Base,
         NEW q \in EntryOf(g), Children(q) = {}, Done(g, Without(q))
  PROVE  Inv'
<1>. DEFINE o == ops[g]
            p == o.path
<1>1. /\ Stored(data, tree) /\ p \in Path /\ o.always \subseteq Within(p, tree)
      /\ o.always # {} => p \in EntryOf(g)
  BY DeleteKnows
<1>2. /\ q \in DOMAIN tree /\ q \in Path /\ q # Base /\ Front(q) \in DOMAIN tree
      /\ tree[Front(q)] = o.parent /\ Last(q) = Last(p)
  BY <1>1 DEF Stored, EntryOf
<1>3. Stored(data, Without(q)) /\ Steady(Without(q)) /\ Within(q, Without(q)) = {}
  BY <1>1, <1>2, WithoutIsStored
<1>4. o.always # {} => q = p
  <2>. SUFFICES ASSUME o.always # {} PROVE q = p
    OBVIOUS
  <2>1. p \in DOMAIN tree /\ Front(p) \in DOMAIN tree /\ tree[Front(p)] = o.parent
    BY <1>1 DEF Stored, EntryOf
  <2>2. Front(p) = Front(q)
    BY <1>1, <1>2, <2>1 DEF Stored, IsInjective
  <2>. QED
    BY <1>1, <1>2, <2>2, SameEntry
<1>5. o.always \cap DOMAIN Without(q) = {}
  BY <1>1, <1>3, <1>4 DEF Within
<1>. QED
  BY <1>3, <1>5, DeleteDone

(* Without such an entry, nothing is left of what was there. *)
LEMMA NoEntryLeft ==
  ASSUME Inv, NEW g \in Requests, ops[g] # Nobody, ops[g].kind = "delete",
         ops[g].phase \in {"entry", "open", "unlink"}, ops[g].path # Base,
         EntryOf(g) = {}, Done(g, tree)
  PROVE  Inv'
<1>1. ops[g].always = {} /\ Stored(data, tree) /\ Steady(tree)
  BY DeleteKnows
<1>. QED
  BY <1>1, DeleteDone

(* Nor when the path leads to nothing. *)
LEMMA NothingToDelete ==
  ASSUME Inv, NEW g \in Requests, ops[g] # Nobody, ops[g].kind = "delete",
         ~Exists(ops[g].path), Done(g, tree)
  PROVE  Inv'
<1>1. /\ Stored(data, tree) /\ Steady(tree) /\ ops[g].path \in Path
      /\ ops[g].always \subseteq Within(ops[g].path, tree)
  BY DeleteKnows
<1>2. Within(ops[g].path, tree) = {}
  BY <1>1, Closed DEF Within, Exists
<1>. QED
  BY <1>1, <1>2, DeleteDone

LEMMA FilesHaveNoChildren ==
  ASSUME Stored(data, tree), NEW q \in DOMAIN tree, ~IsDir(q)
  PROVE  Children(q) = {}
<1>. SUFFICES ASSUME NEW r \in Children(q) PROVE FALSE
  OBVIOUS
<1>1. q \in Path /\ r \in Path /\ r \in DOMAIN tree /\ IsStrictPrefix(q, r) /\ Len(r) = Len(q) + 1
  BY DEF Children, Below, Stored
<1>2. r # Base /\ Front(r) = q
  BY <1>1, ParentBelow
<1>. QED
  BY <1>1, <1>2 DEF Stored, IsDir, Exists

LEMMA RemoveEntryKeeps ==
  ASSUME Inv, NEW g \in Requests, RemoveEntry(g)
  PROVE  Inv'
<1>. DEFINE o == ops[g]
            p == o.path
            next == [o EXCEPT !.phase = "parent"]
<1>1. o # Nobody /\ o.kind = "delete"
  BY DEF RemoveEntry, At
<1>2. /\ Shaped(o) /\ Stored(data, tree) /\ Steady(tree) /\ Deleting(o, tree)
      /\ p \in Path /\ o.always \subseteq Within(p, tree)
  BY <1>1, DeleteKnows
<1>3. \/ ~Exists(p) /\ Done(g, tree)
      \/ p # Base /\ Children(p) = {} /\ Done(g, Without(p))
      \/ Goes(g, next, tree, data)
  BY DEF RemoveEntry
<1>4. CASE p # Base /\ Children(p) = {} /\ Done(g, Without(p))
  <2>1. Stored(data, Without(p)) /\ Steady(Without(p)) /\ Within(p, Without(p)) = {}
    BY <1>2, <1>4, WithoutIsStored
  <2>2. o.always \cap DOMAIN Without(p) = {}
    BY <1>2, <2>1 DEF Within
  <2>. QED
    BY <1>1, <1>4, <2>1, <2>2, DeleteDone
<1>5. CASE Goes(g, next, tree, data)
  <2>1. /\ DOMAIN next = Fields /\ next.kind = "delete" /\ next.path = p /\ next.to = o.to
        /\ next.always = o.always /\ next.parent = o.parent /\ next.phase = "parent"
        /\ next.names = o.names /\ next.node = o.node
        /\ next.names \subseteq Nodes /\ next.node \in Nodes \cup {None}
    BY <1>1, <1>2 DEF Shaped, Fields, Deleting
  <2>. HIDE DEF next
  <2>. QED
    BY <1>1, <1>2, <1>5, <2>1, DeleteGoesOn
<1>. QED
  BY <1>1, <1>3, <1>4, <1>5, NothingToDelete

(* What Opening changes. *)
LEMMA OpeningChanges ==
  ASSUME NEW g, NEW n \in Nodes, Shaped(ops[g]), ops[g].kind = "delete"
  PROVE  LET o == Opening(g, n) IN
         /\ DOMAIN o = Fields /\ o.kind = "delete" /\ o.path = ops[g].path /\ o.to = ops[g].to
         /\ o.always = ops[g].always /\ o.parent = ops[g].parent /\ o.phase = "unlink"
         /\ o.names \subseteq Nodes /\ o.node \in Nodes \cup {None}
BY DEF Opening, Shaped, Fields

LEMMA OpenParentKeeps ==
  ASSUME Inv, NEW g \in Requests, OpenParent(g)
  PROVE  Inv'
<1>. DEFINE o == ops[g]
            p == o.path
            next == [o EXCEPT !.phase = "entry", !.parent = tree[Front(p)]]
<1>1. o # Nobody /\ o.kind = "delete"
  BY DEF OpenParent, At
<1>2. /\ Shaped(o) /\ Stored(data, tree) /\ Steady(tree) /\ Deleting(o, tree)
      /\ p \in Path /\ o.always \subseteq Within(p, tree)
  BY <1>1, DeleteKnows
<1>3. \/ p = Base /\ Goes(g, Opening(g, tree[Base]), tree, data)
      \/ p # Base /\ Exists(Front(p)) /\ Goes(g, next, tree, data)
      \/ Fail(g)
      \/ p # Base /\ ~Exists(Front(p)) /\ Done(g, tree)
  BY DEF OpenParent
<1>4. CASE p = Base /\ Goes(g, Opening(g, tree[Base]), tree, data)
  <2>1. tree[Base] \in Nodes
    BY <1>2 DEF Stored
  <2>. QED
    BY <1>1, <1>2, <1>4, <2>1, OpeningChanges, DeleteGoesOn
<1>5. CASE p # Base /\ Exists(Front(p)) /\ Goes(g, next, tree, data)
  <2>1. tree[Front(p)] \in Nodes
    BY <1>2, <1>5 DEF Stored, Exists
  <2>2. /\ Shaped(next) /\ next.kind = "delete" /\ next.path = p /\ next.always = o.always
        /\ next.parent = tree[Front(p)] /\ next.names = o.names
    BY <1>1, <1>2, <2>1 DEF Shaped, Fields
  <2>. HIDE DEF next, o
  <2>3. Deleting(next, tree)
    BY <1>1, <1>2, <1>5, <2>2 DEF Deleting
  <2>. QED
    BY <1>2, <1>5, <2>2, <2>3, DeleteGoes
<1>6. CASE p # Base /\ ~Exists(Front(p)) /\ Done(g, tree)
  <2>1. p \in DOMAIN tree => Front(p) \in DOMAIN tree
    BY <1>2, <1>6 DEF Stored
  <2>. QED
    BY <1>1, <1>6, <2>1, NothingToDelete DEF Exists
<1>. QED
  BY <1>1, <1>3, <1>4, <1>5, <1>6, FailKeeps

LEMMA NeverAtBase ==
  ASSUME Inv, NEW g \in Requests, At(g, {"delete"}, "entry") \/ At(g, {"delete"}, "open")
  PROVE  ops[g].path # Base
BY DEF At, Inv, Sound, Deleting

LEMMA UnlinkEntryKeeps ==
  ASSUME Inv, NEW g \in Requests, UnlinkEntry(g)
  PROVE  Inv'
<1>. DEFINE o == ops[g]
            next == [o EXCEPT !.phase = "open"]
<1>1. o # Nobody /\ o.kind = "delete" /\ o.phase = "entry" /\ o.path # Base
  BY NeverAtBase DEF UnlinkEntry, At
<1>2. Shaped(o) /\ Stored(data, tree) /\ Steady(tree) /\ Deleting(o, tree)
  BY <1>1, DeleteKnows
<1>3. \/ Fail(g)
      \/ EntryOf(g) = {} /\ Done(g, tree)
      \/ Goes(g, next, tree, data)
      \/ \E q \in EntryOf(g) : ~IsDir(q) /\ Done(g, Without(q))
  BY DEF UnlinkEntry
<1>4. CASE Goes(g, next, tree, data)
  <2>1. /\ DOMAIN next = Fields /\ next.kind = "delete" /\ next.path = o.path /\ next.to = o.to
        /\ next.always = o.always /\ next.parent = o.parent /\ next.phase = "open"
        /\ next.names = o.names /\ next.node = o.node
        /\ next.names \subseteq Nodes /\ next.node \in Nodes \cup {None}
    BY <1>1, <1>2 DEF Shaped, Fields, Deleting
  <2>. HIDE DEF next
  <2>. QED
    BY <1>1, <1>2, <1>4, <2>1, DeleteGoesOn
<1>5. ASSUME NEW q \in EntryOf(g), ~IsDir(q), Done(g, Without(q)) PROVE Inv'
  <2>1. Children(q) = {}
    BY <1>2, <1>5, FilesHaveNoChildren DEF EntryOf
  <2>. QED
    BY <1>1, <1>5, <2>1, EntryGoes
<1>. QED
  BY <1>1, <1>3, <1>4, <1>5, FailKeeps, NoEntryLeft

LEMMA OpenEntryKeeps ==
  ASSUME Inv, NEW g \in Requests, OpenEntry(g)
  PROVE  Inv'
<1>. DEFINE o == ops[g]
<1>1. o # Nobody /\ o.kind = "delete" /\ o.phase = "open" /\ o.path # Base
  BY NeverAtBase DEF OpenEntry, At
<1>2. Shaped(o) /\ Stored(data, tree) /\ Steady(tree)
  BY <1>1, DeleteKnows
<1>3. \/ Fail(g)
      \/ EntryOf(g) = {} /\ Done(g, tree)
      \/ \E q \in EntryOf(g) : Goes(g, Opening(g, tree[q]), tree, data)
  BY DEF OpenEntry
<1>4. ASSUME NEW q \in EntryOf(g), Goes(g, Opening(g, tree[q]), tree, data) PROVE Inv'
  <2>1. tree[q] \in Nodes
    BY <1>2 DEF Stored, EntryOf
  <2>. QED
    BY <1>1, <1>2, <1>4, <2>1, OpeningChanges, DeleteGoesOn
<1>. QED
  BY <1>1, <1>3, <1>4, FailKeeps, NoEntryLeft

LEMMA RemoveChildKeeps ==
  ASSUME Inv, NEW g \in Requests, RemoveChild(g)
  PROVE  Inv'
<1>. DEFINE o == ops[g]
            next(q) == [o EXCEPT !.names = @ \cup {tree[q]}]
<1>1. o # Nobody /\ o.kind = "delete" /\ o.phase = "unlink"
  BY DEF RemoveChild, At
<1>2. /\ Shaped(o) /\ Stored(data, tree) /\ Steady(tree) /\ Deleting(o, tree)
      /\ o.always \subseteq Within(o.path, tree)
  BY <1>1, DeleteKnows
<1>3. PICK q \in DOMAIN tree : \/ Goes(g, next(q), tree, data)
                               \/ q # Base /\ Children(q) = {} /\ Goes(g, o, Without(q), data)
  BY DEF RemoveChild
<1>4. CASE Goes(g, next(q), tree, data)
  <2>. DEFINE s == next(q)
  <2>1. /\ DOMAIN s = Fields /\ s.kind = "delete" /\ s.path = o.path /\ s.to = o.to
        /\ s.always = o.always /\ s.parent = o.parent /\ s.phase = "unlink"
        /\ s.names = o.names \cup {tree[q]} /\ s.node = o.node
    BY <1>1, <1>2 DEF Shaped, Fields
  <2>2. s.names \subseteq Nodes /\ s.node \in Nodes \cup {None}
    BY <1>1, <1>2, <2>1 DEF Shaped, Deleting, Stored
  <2>. HIDE DEF s
  <2>. QED
    BY <1>1, <1>2, <1>4, <2>1, <2>2, DeleteGoesOn DEF s
<1>5. CASE q # Base /\ Children(q) = {} /\ Goes(g, o, Without(q), data)
  <2>1. q \in Path
    BY <1>2 DEF Stored
  <2>. QED
    BY <1>1, <1>2, <1>5, <2>1, DeleteGoes, WithoutIsStored
<1>. QED
  BY <1>3, <1>4, <1>5

LEMMA RemoveSelfKeeps ==
  ASSUME Inv, NEW g \in Requests, RemoveSelf(g)
  PROVE  Inv'
<1>. DEFINE o == ops[g]
<1>1. o # Nobody /\ o.kind = "delete" /\ o.phase = "unlink"
  BY DEF RemoveSelf, At
<1>2. \/ Fail(g)
      \/ o.path # Base /\ EntryOf(g) = {} /\ Done(g, tree)
      \/ o.path # Base /\ \E q \in EntryOf(g) : Children(q) = {} /\ Done(g, Without(q))
  BY DEF RemoveSelf, Removed
<1>. QED
  BY <1>1, <1>2, FailKeeps, EntryGoes, NoEntryLeft

-----------------------------------------------------------------------------
(* Rename. *)
LEMMA RenameKeeps ==
  ASSUME Inv, NEW g \in Requests, Rename(g)
  PROVE  Inv'
<1>. DEFINE o == ops[g]
            next == [o EXCEPT !.phase = "move"]
<1>1. /\ o # Nobody /\ o.kind = "rename" /\ Shaped(o) /\ Stored(data, tree) /\ Steady(tree)
      /\ o.always \subseteq Within(o.path, tree)
  BY SteadySame DEF Rename, CheckTarget, Move, At, Inv, Sound
<1>2. \/ Fail(g)
      \/ Goes(g, next, tree, data)
      \/ Renames(o.path, o.to) /\ Done(g, Moved(o.path, o.to))
  BY DEF Rename, CheckTarget, Move
<1>3. CASE Goes(g, next, tree, data)
  <2>1. Shaped(next) /\ next.kind = "rename" /\ next.path = o.path /\ next.always = o.always
    BY <1>1 DEF Shaped, Fields
  <2>. HIDE DEF next, o
  <2>2. /\ Writing(g, next, data) /\ Reading(next, data) /\ Listing(next, tree)
        /\ Deleting(next, tree) /\ Arriving(next, data, tree)
    BY <2>1 DEF Writing, Reading, Listing, Deleting, Arriving
  <2>3. Sound(g, Saw(next, tree, data), data, tree)
    BY <1>1, <2>1, <2>2, OwnStep
  <2>. QED
    BY <1>1, <1>3, <2>3, GoesKeeps, DataSpared
<1>4. CASE Renames(o.path, o.to) /\ Done(g, Moved(o.path, o.to))
  <2>1. o.path \in Path /\ o.to \in Path /\ Complete(o, Moved(o.path, o.to))
    BY <1>1 DEF Shaped, Complete
  <2>. QED
    BY <1>1, <1>4, <2>1, MovedIsStored, DoneKeeps
<1>. QED
  BY <1>1, <1>2, <1>3, <1>4, FailKeeps

-----------------------------------------------------------------------------
(* Mkdir. *)
LEMMA ReachedIsPath ==
  ASSUME NEW g, ops[g].path \in Path, ops[g].pos \in Int, ops[g].pos <= Len(ops[g].path)
  PROVE  Reached(g) \in Path /\ (ops[g].pos = Len(ops[g].path) => Reached(g) = ops[g].path)
<1>. DEFINE p == ops[g].path
            n == ops[g].pos
<1>1. Len(p) \in Nat /\ \A i \in 1 .. n : p[i] \in Names
  BY DEF Path
<1>2. SubSeq(p, 1, n) \in Seq(Names)
  BY <1>1, SubSeqProperties
<1>3. n = Len(p) => SubSeq(p, 1, n) = p
  BY SubSeqFull DEF Path
<1>. QED
  BY <1>2, <1>3 DEF Reached, Path

LEMMA MkdirGoes ==
  ASSUME Inv, NEW g \in Requests, NEW o, NEW t, NEW d, Goes(g, o, t, d),
         Stored(d, t), Steady(t), Spares(d),
         Shaped(o), o.kind = "mkdir", o.always \subseteq Within(o.path, tree), Arriving(o, d, t)
  PROVE  Inv'
<1>1. Writing(g, o, d) /\ Reading(o, d) /\ Listing(o, tree) /\ Deleting(o, tree)
  BY DEF Writing, Reading, Listing, Deleting
<1>. QED
  BY <1>1, OwnStep, GoesKeeps

LEMMA DescendKeeps ==
  ASSUME Inv, NEW g \in Requests, Descend(g)
  PROVE  Inv'
<1>. DEFINE o    == ops[g]
            up   == [o EXCEPT !.phase = "up", !.pos = @ + 1]
            down == [o EXCEPT !.pos = @ - 1]
<1>1. /\ o # Nobody /\ o.kind = "mkdir" /\ o.phase = "start" /\ Shaped(o)
      /\ Making(o) /\ Stored(data, tree) /\ Steady(tree) /\ o.always \subseteq Within(o.path, tree)
  BY SteadySame DEF Descend, At, Inv, Sound
<1>2. /\ o.path \in Path /\ o.pos \in Int /\ o.pos <= Len(o.path) /\ Len(o.path) \in Nat
  BY <1>1, PrefixItself DEF Making, Shaped
<1>3. \/ Fail(g)
      \/ IsDir(Reached(g)) /\ Goes(g, up, tree, data)
      \/ Goes(g, down, tree, data)
  BY DEF Descend
<1>4. /\ Shaped(up) /\ up.kind = "mkdir" /\ up.phase = "up" /\ up.always = o.always
      /\ up.path = o.path /\ up.pos = o.pos + 1
      /\ Shaped(down) /\ down.kind = "mkdir" /\ down.phase = "start" /\ down.always = o.always
      /\ down.path = o.path /\ down.pos = o.pos - 1
  BY <1>1 DEF Shaped, Fields
<1>5. up.pos > Len(up.path) => Reached(g) = o.path
  BY <1>2, <1>4, ReachedIsPath
<1>. HIDE DEF o, up, down
<1>6. IsDir(Reached(g)) => Arriving(up, data, tree)
  BY <1>2, <1>4, <1>5 DEF Arriving, IsDir, Exists
<1>7. Arriving(down, data, tree)
  BY <1>2, <1>4 DEF Arriving
<1>8. CASE IsDir(Reached(g)) /\ Goes(g, up, tree, data)
  BY <1>1, <1>4, <1>6, <1>8, MkdirGoes, DataSpared
<1>9. CASE Goes(g, down, tree, data)
  BY <1>1, <1>4, <1>7, <1>9, MkdirGoes, DataSpared
<1>. QED
  BY <1>1, <1>3, <1>8, <1>9, FailKeeps DEF o

LEMMA AscendKeeps ==
  ASSUME Inv, NEW g \in Requests, Ascend(g)
  PROVE  Inv'
<1>. DEFINE o    == ops[g]
            q    == Reached(g)
            next == [o EXCEPT !.pos = @ + 1]
            met  == [o EXCEPT !.phase = "check"]
            d    == [data EXCEPT ![NewNode] = Dir]
<1>1. /\ o # Nobody /\ o.kind = "mkdir" /\ o.phase = "up" /\ Shaped(o)
      /\ Making(o) /\ Stored(data, tree) /\ Steady(tree) /\ o.always \subseteq Within(o.path, tree)
  BY SteadySame DEF Ascend, At, Inv, Sound
<1>2. o.path \in Path /\ o.pos \in Int /\ Len(o.path) \in Nat
  BY <1>1, PrefixItself DEF Making, Shaped
<1>3. \/ o.pos > Len(o.path) /\ Done(g, tree)
      \/ ~(o.pos > Len(o.path)) /\ Goes(g, met, tree, data)
      \/ ~(o.pos > Len(o.path)) /\ ~Exists(q) /\ HasRoom(q) /\ Free # {}
         /\ Goes(g, next, With(q, NewNode), d)
  BY DEF Ascend
<1>4. /\ Shaped(next) /\ next.kind = "mkdir" /\ next.phase = "up" /\ next.always = o.always
      /\ next.path = o.path /\ next.pos = o.pos + 1
      /\ Shaped(met) /\ met.kind = "mkdir" /\ met.phase = "check" /\ met.always = o.always
      /\ met.path = o.path /\ met.pos = o.pos
  BY <1>1 DEF Shaped, Fields
<1>5. o.pos <= Len(o.path) /\ next.pos > Len(next.path) => q = o.path
  BY <1>2, <1>4, ReachedIsPath
<1>6. CASE o.pos > Len(o.path) /\ Done(g, tree)
  BY <1>1, <1>6, DoneKeeps, SteadySame DEF Complete
<1>. HIDE DEF o, next, met, q
<1>7. CASE o.pos <= Len(o.path) /\ Goes(g, met, tree, data)
  <2>1. Arriving(met, data, tree)
    BY <1>2, <1>4, <1>7 DEF Arriving
  <2>. QED
    BY <1>1, <1>4, <1>7, <2>1, MkdirGoes, DataSpared
<1>8. CASE /\ o.pos <= Len(o.path) /\ ~Exists(q) /\ HasRoom(q) /\ Free # {}
           /\ Goes(g, next, With(q, NewNode), d)
  <2>1. /\ NewNode \in Nodes /\ (\A h \in Requests : ~Uses(h, NewNode))
        /\ NewNode \notin {tree[r] : r \in DOMAIN tree}
    BY <1>1, <1>8, NewNodeIsFree
  <2>2. /\ Spares(d) /\ d[NewNode] = Dir /\ d \in [Nodes -> {Dir} \cup Seq(Writers)]
        /\ \A r \in DOMAIN tree : d[tree[r]] = data[tree[r]]
    BY <1>1, <2>1 DEF Stored, Spares
  <2>. HIDE DEF d
  <2>3. Stored(d, With(q, NewNode)) /\ Steady(With(q, NewNode))
    <3>1. Stored(d, tree)
      BY <1>1, <2>2, SameDirectories
    <3>2. q \in Path
      BY <1>2, <1>8, ReachedIsPath DEF o, q
    <3>3. q # Base /\ Front(q) \in DOMAIN tree /\ d[tree[Front(q)]] = Dir
      BY <1>8, <2>2 DEF HasRoom, IsDir, Exists
    <3>. QED
      BY <1>8, <2>1, <3>1, <3>2, <3>3, WithIsStored
  <2>4. q \in DOMAIN With(q, NewNode) /\ With(q, NewNode)[q] = NewNode
    BY DEF With
  <2>5. Arriving(next, d, With(q, NewNode))
    BY <1>2, <1>4, <1>5, <1>8, <2>2, <2>4 DEF Arriving
  <2>. QED
    BY <1>1, <1>4, <1>8, <2>2, <2>3, <2>5, MkdirGoes
<1>9. ~(o.pos > Len(o.path)) => o.pos <= Len(o.path)
  BY <1>2
<1>. QED
  BY <1>3, <1>6, <1>7, <1>8, <1>9 DEF o

LEMMA CheckKeeps ==
  ASSUME Inv, NEW g \in Requests, Check(g)
  PROVE  Inv'
<1>. DEFINE o    == ops[g]
            next == [o EXCEPT !.phase = "up", !.pos = @ + 1]
<1>1. /\ o # Nobody /\ o.kind = "mkdir" /\ o.phase = "check" /\ Shaped(o)
      /\ Making(o) /\ Stored(data, tree) /\ Steady(tree) /\ o.always \subseteq Within(o.path, tree)
  BY SteadySame DEF Check, At, Inv, Sound
<1>2. o.path \in Path /\ o.pos \in Int /\ o.pos <= Len(o.path) /\ Len(o.path) \in Nat
  BY <1>1, PrefixItself DEF Making, Shaped
<1>3. Fail(g) \/ (IsDir(Reached(g)) /\ Goes(g, next, tree, data))
  BY DEF Check, WillDo
<1>4. /\ Shaped(next) /\ next.kind = "mkdir" /\ next.phase = "up" /\ next.always = o.always
      /\ next.path = o.path /\ next.pos = o.pos + 1
  BY <1>1 DEF Shaped, Fields
<1>5. next.pos > Len(next.path) => Reached(g) = o.path
  BY <1>2, <1>4, ReachedIsPath
<1>. HIDE DEF o, next
<1>6. IsDir(Reached(g)) => Arriving(next, data, tree)
  BY <1>2, <1>4, <1>5 DEF Arriving, IsDir, Exists
<1>7. CASE IsDir(Reached(g)) /\ Goes(g, next, tree, data)
  BY <1>1, <1>4, <1>6, <1>7, MkdirGoes, DataSpared
<1>. QED
  BY <1>1, <1>3, <1>7, FailKeeps DEF o

-----------------------------------------------------------------------------
(* The invariant holds, and the promises with it. *)
LEMMA StartingPaths ==
  /\ Len(Base) = 0 /\ Len(Home) = 1 /\ Len(File) = 2
  /\ Base \in Path /\ Home \in Path /\ File \in Path
  /\ Front(Home) = Base /\ Front(File) = Home
<1>1. Len(Base) = 0 /\ Len(Home) = 1 /\ Len(File) = 2
  BY DEF Base, Home, File
<1>2. Base \in Path /\ Home \in Path /\ File \in Path
  <2>1. \A S : \A x, y \in S : <<>> \in Seq(S) /\ <<x>> \in Seq(S) /\ <<x, y>> \in Seq(S)
    OBVIOUS
  <2>2. "a" \in Names /\ "x" \in Names
    <3>1. File[1] = "a" /\ File[2] = "x" /\ DOMAIN File = 1 .. 2
      BY DEF File
    <3>2. \A i \in DOMAIN File : File[i] \in Names
      BY DEF Names
    <3>3. 1 \in DOMAIN File /\ 2 \in DOMAIN File
      BY <3>1
    <3>. QED
      BY <3>1, <3>2, <3>3
  <2>. QED
    BY <2>1, <2>2 DEF Base, Home, File, Path
<1>3. Home[1] = "a" /\ File[1] = "a"
  BY DEF Home, File
<1>4. Home # Base /\ File # Base
  BY DEF Home, File, Base
<1>5. Front(Home) \in Path /\ Len(Front(Home)) = 1 - 1
  BY <1>1, <1>2, <1>4, FrontIsParent
<1>6. /\ Front(File) \in Path /\ Len(Front(File)) = 2 - 1
      /\ \A i \in 1 .. 2 - 1 : Front(File)[i] = File[i]
  BY <1>1, <1>2, <1>4, FrontIsParent
<1>7. Front(Home) = Base
  BY <1>1, <1>2, <1>5, SamePlaces
<1>8. Front(File) = Home
  BY <1>1, <1>2, <1>3, <1>6, SamePlaces
<1>. QED
  BY <1>1, <1>2, <1>7, <1>8

LEMMA InitEstablishes == Init => Inv
<1>. SUFFICES ASSUME Init PROVE Inv
  OBVIOUS
<1>. DEFINE d == [n \in Nodes |-> IF n <= 2 THEN Dir ELSE IF n = 3 THEN <<Disk, Disk>> ELSE <<>>]
<1>1. tree = [p \in {Base, Home, File} |-> Len(p) + 1] /\ data = d
      /\ ops = [g \in Requests |-> Nobody] /\ answer = Silence
  BY DEF Init
<1>2. /\ tree[Base] = 1 /\ tree[Home] = 2 /\ tree[File] = 3
      /\ DOMAIN tree = {Base, Home, File}
  <2>1. \A p \in {Base, Home, File} : \A n : Len(p) = n => tree[p] = n + 1
    BY <1>1
  <2>2. tree[Base] = 0 + 1 /\ tree[Home] = 1 + 1 /\ tree[File] = 2 + 1
    BY <2>1, StartingPaths
  <2>. QED
    BY <1>1, <2>2
<1>3. tree \in [DOMAIN tree -> Nodes] /\ IsInjective(tree)
  BY <1>1, <1>2, StartingPaths DEF IsInjective
<1>4. data \in [Nodes -> {Dir} \cup Seq(Writers)]
  <2>1. <<Disk, Disk>> \in Seq(Writers) /\ <<>> \in Seq(Writers)
    BY DEF Writers
  <2>. QED
    BY <1>1, <2>1
<1>5. \A p \in DOMAIN tree : p = Base \/ (Front(p) \in DOMAIN tree /\ data[tree[Front(p)]] = Dir)
  BY <1>1, <1>2, StartingPaths
<1>6. Told
  BY <1>1 DEF Told, WritesAreAllOrPrefix, ReadsAreWhole, ListingsAreTrue, DeletesAreComplete,
              MadeDirectoriesExist, Answered
<1>. QED
  BY <1>1, <1>2, <1>3, <1>4, <1>5, <1>6, StartingPaths DEF Inv, Stored

LEMMA NextKeeps == Inv /\ [Next]_vars => Inv'
<1>. SUFFICES ASSUME Inv, [Next]_vars PROVE Inv'
  OBVIOUS
<1>1. CASE Next
  <2>1. PICK g \in Requests :
          \/ Begin(g) \/ Refuse(g) \/ WriteOrUpload(g) \/ ReadOrDownload(g)
          \/ List(g) \/ DeleteEntry(g) \/ Mkdir(g) \/ Rename(g)
    BY <1>1 DEF Next
  <2>. QED
    BY <2>1, BeginKeeps, RefuseKeeps, CreateKeeps, PutKeeps, StatKeeps, OpenKeeps, GetKeeps, OpenDirKeeps,
       ReadDirKeeps, InfoKeeps, RemoveEntryKeeps, OpenParentKeeps, UnlinkEntryKeeps, OpenEntryKeeps,
       RemoveChildKeeps, RemoveSelfKeeps, DescendKeeps, AscendKeeps, CheckKeeps, RenameKeeps
       DEF WriteOrUpload, ReadOrDownload, List, DeleteEntry, Mkdir
<1>2. CASE UNCHANGED vars
  <2>1. Told'
    BY <1>2 DEF vars, Inv, Told, WritesAreAllOrPrefix, ReadsAreWhole, ListingsAreTrue,
                DeletesAreComplete, MadeDirectoriesExist, Answered
  <2>. QED
    BY <1>2, <2>1 DEF vars, Inv, Stored
<1>. QED
  BY <1>1, <1>2

LEMMA Invariance == Spec => []Inv
BY InitEstablishes, NextKeeps, PTL DEF Spec

(* Every entry of the tree stands in a directory and under one path only, and
   no inode gets content that nobody wrote. *)
THEOREM TypeCorrect == Spec => []TypeOK
<1>1. Inv => TypeOK
  <2>. SUFFICES ASSUME Inv PROVE TypeOK
    OBVIOUS
  <2>1. ASSUME NEW g \in Requests, ops[g] # Nobody
        PROVE  /\ ops[g].kind \in Kinds
               /\ ops[g].kind = "delete" => ops[g].names \subseteq Nodes
               /\ {ops[g].node, ops[g].parent} \subseteq Nodes \cup {None}
    BY <2>1 DEF Inv, Sound, Shaped, Deleting
  <2>2. \A p \in DOMAIN tree : p = Base \/ HasRoom(p)
    BY DEF Inv, Stored, HasRoom, IsDir, Exists
  <2>. QED
    BY <2>1, <2>2 DEF TypeOK, Inv, Stored
<1>. QED
  BY <1>1, Invariance, PTL

(* os.WriteFile and io.Copy: what a write or an upload leaves in a file that
   nobody else wrote to is all its own, and all of it if it is acknowledged. *)
THEOREM WritesLeaveTheirOwn == Spec => []WritesAreAllOrPrefix
<1>1. Inv => WritesAreAllOrPrefix
  BY DEF Inv, Told
<1>. QED
  BY <1>1, Invariance, PTL

(* io.LimitReader and http.ServeFile: a read returns the beginning of the file,
   and "truncated" says truly whether that is all. *)
THEOREM ReadsReturnTheFile == Spec => []ReadsAreWhole
<1>1. Inv => ReadsAreWhole
  BY DEF Inv, Told
<1>. QED
  BY <1>1, Invariance, PTL

(* os.ReadDir and one Info after another: a listing misses nothing that was
   there throughout, and invents nothing. *)
THEOREM ListingsAreComplete == Spec => []ListingsAreTrue
<1>1. Inv => ListingsAreTrue
  BY DEF Inv, Told
<1>. QED
  BY <1>1, Invariance, PTL

(* os.RemoveAll: an acknowledged delete has left nothing of what stood at or
   below the path throughout, whatever others moved or added there. *)
THEOREM DeletesRemoveAll == Spec => []DeletesAreComplete
<1>1. Inv => DeletesAreComplete
  BY DEF Inv, Told
<1>. QED
  BY <1>1, Invariance, PTL

(* os.MkdirAll: an acknowledged path has been a directory since the request began. *)
THEOREM MkdirMakes == Spec => []MadeDirectoriesExist
<1>1. Inv => MadeDirectoriesExist
  BY DEF Inv, Told
<1>. QED
  BY <1>1, Invariance, PTL
=============================================================================
