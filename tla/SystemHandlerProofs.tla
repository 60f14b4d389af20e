------------------------ MODULE SystemHandlerProofs ------------------------
(***************************************************************************)
(* For any number of requests: what readCPU shows in spite of races, that  *)
(* the history is always the newest snapshots, and how the sizes of memory *)
(* and disks add up.                                                       *)
(***************************************************************************)
EXTENDS SystemHandler, FiniteSetTheorems, SequenceTheorems, WellFoundedInduction, TLAPS

(* Counters only grow: from a to b the column gains no more than the total. *)
Grows(a, b) ==
  /\ a["column"] <= b["column"] /\ a["total"] <= b["total"]
  /\ b["column"] - a["column"] <= b["total"] - a["total"]

(* Whoever has been alone in readCPU still is. *)
Solitary == \A g, h \in Requests : (InReadCPU(g) /\ InReadCPU(h) /\ calls[g].alone) => g = h

(* What was read of /proc/stat is behind it, and so is what was stored whole. *)
Behind ==
  /\ kernel["total"] <= MaxTicks
  /\ Grows(Zero, kernel)
  /\ \A g \in Requests : InReadCPU(g) => Grows(calls[g].t, kernel)
  /\ whole => Grows(last, kernel)

(* A request alone in readCPU finds lastCPUTime as it was when it came ... *)
Undisturbed ==
  \A g \in Requests : (At(g, "load") /\ calls[g].alone /\ calls[g].clean) =>
    /\ whole
    /\ Grows(last, calls[g].t)
    /\ \A f \in Fields \ calls[g].left : calls[g].seen[f] = last[f]

(* ... and leaves it as what it read. *)
StoresAll ==
  \A g \in Requests : (At(g, "store") /\ calls[g].alone) =>
    \A f \in Fields \ calls[g].left : last[f] = calls[g].t[f]

CPUInv == Solitary /\ Behind /\ Undisturbed /\ StoresAll

(* What the properties say of the last reading. *)
Readings == /\ QuietSharesAreSane /\ MemoryAddsUp /\ DiskAddsUp
            /\ CutNamesShiftNumbers

(* The history is the newest of what was added. *)
HistoryInv == buffer = History!Newest(HistorySize, log)

Inv == TypeOK /\ CPUInv /\ Readings /\ HistoryInv
-----------------------------------------------------------------------------
(* Unsigned differences. *)

LEMMA Remainders ==
  ASSUME NEW n \in Int, -Modulus <= n, n < Modulus
  PROVE  n % Modulus = IF n >= 0 THEN n ELSE n + Modulus
<1>. Modulus \in Nat \ {0}
  BY SizesArePositive
<1>. QED
  BY Z3

LEMMA MinusIs ==
  ASSUME NEW a \in 0 .. Modulus - 1, NEW b \in 0 .. Modulus - 1
  PROVE  Minus(a, b) = IF a >= b THEN a - b ELSE a - b + Modulus
<1>. Modulus \in Nat \ {0}
  BY SizesArePositive
<1>. a - b \in Int /\ -Modulus <= a - b /\ a - b < Modulus
  OBVIOUS
<1>. QED
  BY Remainders DEF Minus

LEMMA MinusType ==
  ASSUME NEW a \in 0 .. Modulus - 1, NEW b \in 0 .. Modulus - 1
  PROVE  Minus(a, b) \in 0 .. Modulus - 1
<1>1. CASE a >= b
  BY <1>1, MinusIs, SizesArePositive
<1>2. CASE ~(a >= b)
  BY <1>2, MinusIs, SizesArePositive
<1>. QED
  BY <1>1, <1>2

(* Two shares of 64 bits each. *)
LEMMA StatsType ==
  ASSUME NEW t \in Times, NEW old \in Times
  PROVE  CPUStats(t, old) \in [share : 0 .. Modulus - 1, of : 0 .. Modulus - 1]
<1>. DEFINE c == t["column"]
            d == old["column"]
            x == t["total"]
            y == old["total"]
<1>1. c \in 0 .. Modulus - 1 /\ d \in 0 .. Modulus - 1 /\ x \in 0 .. Modulus - 1 /\ y \in 0 .. Modulus - 1
  BY DEF Times, Fields
<1>2. Modulus \in Nat /\ 1 < Modulus
  BY SizesArePositive, SizesFit
<1>3. Minus(c, d) \in 0 .. Modulus - 1 /\ Minus(x, y) \in 0 .. Modulus - 1
  BY <1>1, MinusType
<1>. HIDE DEF c, d, x, y
<1>4. CPUStats(t, old) = IF x = y THEN [share |-> 0, of |-> 1]
                         ELSE [share |-> Minus(c, d), of |-> Minus(x, y)]
  BY DEF CPUStats, c, d, x, y
<1>. QED
  BY <1>2, <1>3, <1>4

(* A column's share of an interval in which counters only grew. *)
LEMMA GrowingIsSane ==
  ASSUME NEW t \in Times, NEW old \in Times, Grows(old, t)
  PROVE  CPUStats(t, old).share <= CPUStats(t, old).of
<1>. DEFINE c == t["column"]
            d == old["column"]
            x == t["total"]
            y == old["total"]
<1>1. c \in 0 .. Modulus - 1 /\ d \in 0 .. Modulus - 1 /\ x \in 0 .. Modulus - 1 /\ y \in 0 .. Modulus - 1
  BY DEF Times, Fields
<1>2. d <= c /\ y <= x /\ c - d <= x - y
  BY DEF Grows
<1>. HIDE DEF c, d, x, y
<1>3. Minus(c, d) = c - d /\ Minus(x, y) = x - y
  BY <1>1, <1>2, MinusIs
<1>4. CPUStats(t, old) = IF x = y THEN [share |-> 0, of |-> 1]
                         ELSE [share |-> Minus(c, d), of |-> Minus(x, y)]
  BY DEF CPUStats, c, d, x, y
<1>. QED
  BY <1>1, <1>2, <1>3, <1>4, SizesArePositive

-----------------------------------------------------------------------------
(* The shapes of requests. *)

LEMMA Shapes ==
  ASSUME TypeOK, NEW g \in Requests
  PROVE  /\ InReadCPU(g) => calls[g] \in ReadsCPU
         /\ (At(g, "user") \/ At(g, "id")) => calls[g].uid \in Uids
         /\ calls[g] # Nobody => calls[g] \in Call
<1>1. calls[g] \in Call \cup {Nobody}
  BY DEF TypeOK
<1>2. calls[g] # Nobody => calls[g] \in Call
  BY <1>1
<1>3. InReadCPU(g) => calls[g] \in ReadsCPU
  BY <1>2 DEF InReadCPU, Call, ReadsCPU
<1>4. (At(g, "user") \/ At(g, "id")) => calls[g].uid \in Uids
  BY <1>2 DEF At, Call, ReadsCPU
<1>. QED
  BY <1>2, <1>3, <1>4

LEMMA RecordsAreCalls ==
  /\ \A c \in ReadsCPU : c \in Call /\ c # Nobody /\ c.phase \in {"load", "store"}
  /\ \A ph \in {"memory", "disks", "add"} : [phase |-> ph] \in Call /\ [phase |-> ph] # Nobody
  /\ \A ph \in {"user", "id"}, u \in Uids :
       [phase |-> ph, uid |-> u] \in Call /\ [phase |-> ph, uid |-> u] # Nobody
<1>1. \A c \in ReadsCPU : c \in Call /\ c.phase \in {"load", "store"}
  BY DEF Call, ReadsCPU
<1>2. \A ph \in {"memory", "disks", "add"} : [phase |-> ph] \in Call
  BY DEF Call
<1>3. \A ph \in {"user", "id"}, u \in Uids : [phase |-> ph, uid |-> u] \in Call
  BY DEF Call
<1>. QED
  BY <1>1, <1>2, <1>3, NobodyIsNone

LEMMA ZeroIsTimes == Zero \in Times /\ Zero["column"] = 0 /\ Zero["total"] = 0
<1>. 0 \in 0 .. Modulus - 1
  BY SizesArePositive
<1>. QED
  BY DEF Zero, Times, Fields

(* A step that changes nothing of readCPU: of what is read, stored or under way. *)
OutsideCPU(g) ==
  /\ UNCHANGED <<kernel, last, whole>>
  /\ ~InReadCPU(g) /\ ~InReadCPU(g)'
  /\ \A h \in Requests \ {g} : calls'[h] = calls[h]

LEMMA OutsideKeepsCPU ==
  ASSUME CPUInv, NEW g \in Requests, OutsideCPU(g)
  PROVE  CPUInv'
<1>1. \A h \in Requests : InReadCPU(h)' => (InReadCPU(h) /\ calls'[h] = calls[h])
  BY DEF OutsideCPU, InReadCPU
<1>2. \A h \in Requests, ph \in {"load", "store"} : At(h, ph)' => (At(h, ph) /\ calls'[h] = calls[h])
  BY <1>1 DEF At, InReadCPU
<1>3. Solitary'
  BY <1>1 DEF CPUInv, Solitary
<1>4. Behind'
  BY <1>1 DEF CPUInv, Behind, OutsideCPU
<1>5. Undisturbed'
  BY <1>2 DEF CPUInv, Undisturbed, OutsideCPU
<1>6. StoresAll'
  BY <1>2 DEF CPUInv, StoresAll, OutsideCPU
<1>. QED
  BY <1>3, <1>4, <1>5, <1>6 DEF CPUInv

-----------------------------------------------------------------------------
(* The steps of readCPU. *)

LEMMA Tick_Step ==
  ASSUME TypeOK, CPUInv, Tick
  PROVE  TypeOK' /\ CPUInv' /\ Readings'
<1>. PICK f \in Fields :
       kernel' = [c \in Fields |-> IF c \in {f, "total"} THEN kernel[c] + 1 ELSE kernel[c]]
  BY DEF Tick
<1>. UNCHANGED <<last, calls, buffer, uidCache, log, whole>> /\ reading' = Nothing
  BY DEF Tick
<1>1. /\ kernel["total"] < MaxTicks /\ MaxTicks < Modulus /\ MaxTicks \in Nat /\ Modulus \in Nat
      /\ kernel["column"] \in 0 .. Modulus - 1 /\ kernel["total"] \in 0 .. Modulus - 1
      /\ kernel["column"] <= kernel["total"]
  BY ZeroIsTimes, CountersFit, SizesArePositive DEF Tick, CPUInv, Behind, Grows, TypeOK, Times, Fields
<1>2. /\ kernel'["total"] = kernel["total"] + 1
      /\ kernel'["column"] \in {kernel["column"], kernel["column"] + 1}
  BY <1>1 DEF Fields
<1>3. kernel' \in Times
  <2>. kernel'["total"] \in 0 .. Modulus - 1 /\ kernel'["column"] \in 0 .. Modulus - 1
    BY <1>1, <1>2
  <2>. \A c \in Fields : kernel'[c] \in 0 .. Modulus - 1
    BY DEF Fields
  <2>. QED
    BY DEF Times
<1>4. TypeOK'
  BY <1>3 DEF TypeOK, Reading, Nothing
<1>5. \A x \in Times : Grows(x, kernel) => Grows(x, kernel')
  <2>. TAKE x \in Times
  <2>. x["column"] \in Int /\ x["total"] \in Int
    BY SizesArePositive DEF Times, Fields
  <2>. QED
    BY <1>1, <1>2 DEF Grows
<1>6. \A g \in Requests : InReadCPU(g) => calls[g].t \in Times
  BY Shapes DEF ReadsCPU
<1>7. Behind'
  <2>1. kernel'["total"] <= MaxTicks
    BY <1>1, <1>2
  <2>2. Grows(Zero, kernel')
    BY <1>5, ZeroIsTimes DEF CPUInv, Behind
  <2>3. \A g \in Requests : InReadCPU(g) => Grows(calls[g].t, kernel')
    BY <1>5, <1>6 DEF CPUInv, Behind
  <2>4. whole => Grows(last, kernel')
    BY <1>5 DEF CPUInv, Behind, TypeOK
  <2>. QED
    BY <2>1, <2>2, <2>3, <2>4 DEF Behind, InReadCPU, Grows
<1>8. Solitary' /\ Undisturbed' /\ StoresAll'
  BY DEF CPUInv, Solitary, Undisturbed, StoresAll, InReadCPU, At, Grows
<1>9. Readings'
  BY DEF Readings, QuietSharesAreSane, MemoryAddsUp, DiskAddsUp,
    CutNamesShiftNumbers, Nothing
<1>. QED
  BY <1>4, <1>7, <1>8, <1>9 DEF CPUInv

LEMMA Sample_Step ==
  ASSUME TypeOK, CPUInv, NEW g \in Requests, Sample(g)
  PROVE  TypeOK' /\ CPUInv' /\ Readings'
<1>. PICK t \in {kernel, Zero} :
       calls' = [h \in Requests |->
         IF h = g THEN [phase |-> "load", t |-> t, seen |-> Zero, left |-> Fields,
                        alone |-> \A i \in Requests : ~InReadCPU(i),
                        clean |-> whole /\ t = kernel]
         ELSE IF InReadCPU(h) THEN [calls[h] EXCEPT !.alone = FALSE]
         ELSE calls[h]]
  BY DEF Sample
<1>. DEFINE alone == \A i \in Requests : ~InReadCPU(i)
            clean == whole /\ t = kernel
<1>. UNCHANGED <<kernel, last, buffer, uidCache, log, whole>> /\ reading' = Nothing /\ calls[g] = Nobody
  BY DEF Sample
<1>1. t \in Times /\ Grows(t, kernel)
  <2>. kernel \in Times
    BY DEF TypeOK
  <2>. Grows(kernel, kernel)
    BY SizesArePositive DEF Grows, Times, Fields
  <2>. QED
    BY ZeroIsTimes DEF CPUInv, Behind
<1>2. /\ calls'[g] \in ReadsCPU /\ calls'[g].phase = "load" /\ calls'[g].t = t
      /\ calls'[g].left = Fields /\ calls'[g].alone = alone /\ calls'[g].clean = clean
  <2>. alone \in BOOLEAN /\ clean \in BOOLEAN
    BY DEF TypeOK
  <2>. HIDE DEF alone, clean
  <2>. calls'[g] = [phase |-> "load", t |-> t, seen |-> Zero, left |-> Fields,
                    alone |-> alone, clean |-> clean]
    BY DEF alone, clean
  <2>. QED
    BY <1>1, ZeroIsTimes DEF ReadsCPU
<1>. HIDE DEF clean
<1>3. \A h \in Requests \ {g} : InReadCPU(h) =>
        /\ calls'[h] \in ReadsCPU /\ calls'[h].alone = FALSE /\ calls'[h].t = calls[h].t
  BY Shapes DEF ReadsCPU
<1>4. \A h \in Requests \ {g} : ~InReadCPU(h) => calls'[h] = calls[h]
  OBVIOUS
<1>5. \A h \in Requests \ {g} : InReadCPU(h)' <=> InReadCPU(h)
  BY <1>3, <1>4, RecordsAreCalls DEF InReadCPU
<1>6. TypeOK'
  <2>. \A h \in Requests : calls'[h] \in Call \cup {Nobody}
    BY <1>2, <1>3, <1>4, RecordsAreCalls DEF TypeOK
  <2>. calls' \in [Requests -> Call \cup {Nobody}]
    OBVIOUS
  <2>. QED
    BY DEF TypeOK, Reading, Nothing
<1>7. Solitary'
  <2>. SUFFICES ASSUME NEW h \in Requests, NEW i \in Requests,
                       InReadCPU(h)', InReadCPU(i)', calls'[h].alone
                PROVE  h = i
    BY DEF Solitary
  <2>1. h = g
    BY <1>3, <1>5
  <2>2. alone
    BY <1>2, <2>1
  <2>3. i = g
    BY <1>5, <2>2
  <2>. QED
    BY <2>1, <2>3
<1>8. Behind'
  <2>. \A h \in Requests : InReadCPU(h)' => Grows(calls'[h].t, kernel)
    BY <1>1, <1>2, <1>3, <1>5 DEF CPUInv, Behind
  <2>. QED
    BY DEF CPUInv, Behind
<1>9. Undisturbed'
  <2>. SUFFICES ASSUME NEW h \in Requests, At(h, "load")', calls'[h].alone, calls'[h].clean
                PROVE  /\ whole /\ Grows(last, calls'[h].t)
                       /\ \A f \in Fields \ calls'[h].left : calls'[h].seen[f] = last[f]
    BY DEF Undisturbed
  <2>1. h = g
    <3>. InReadCPU(h)'
      BY DEF At, InReadCPU
    <3>. QED
      BY <1>3, <1>5
  <2>2. clean
    BY <1>2, <2>1
  <2>. QED
    BY <1>2, <2>1, <2>2 DEF clean, CPUInv, Behind
<1>10. StoresAll'
  <2>. SUFFICES ASSUME NEW h \in Requests, At(h, "store")', calls'[h].alone
                PROVE  FALSE
    BY DEF StoresAll
  <2>. InReadCPU(h)'
    BY DEF At, InReadCPU
  <2>. h # g
    BY <1>2 DEF At
  <2>. QED
    BY <1>3, <1>5
<1>11. Readings'
  BY DEF Readings, QuietSharesAreSane, MemoryAddsUp, DiskAddsUp,
    CutNamesShiftNumbers, Nothing
<1>. QED
  BY <1>6, <1>7, <1>8, <1>9, <1>10, <1>11 DEF CPUInv

(* A request in readCPU goes on, in it or to the memory. *)
LEMMA StaysTyped ==
  ASSUME TypeOK, NEW g \in Requests, NEW c \in Call, calls' = [calls EXCEPT ![g] = c]
  PROVE  /\ calls' \in [Requests -> Call \cup {Nobody}]
         /\ calls'[g] = c
         /\ \A h \in Requests \ {g} : calls'[h] = calls[h]
BY DEF TypeOK

LEMMA Load_Step ==
  ASSUME TypeOK, CPUInv, NEW g \in Requests, NEW f \in Fields, Load(g, f)
  PROVE  TypeOK' /\ CPUInv' /\ Readings'
<1>. DEFINE c    == calls[g]
            seen == [c.seen EXCEPT ![f] = last[f]]
            left == c.left \ {f}
            more == [c EXCEPT !.seen = seen, !.left = left]
            done == [c EXCEPT !.phase = "store", !.seen = Zero, !.left = Fields]
<1>1. At(g, "load") /\ InReadCPU(g) /\ f \in c.left
  BY DEF Load, At, InReadCPU
<1>2. UNCHANGED <<kernel, last, buffer, uidCache, log, whole>>
  BY DEF Load
<1>3. c \in ReadsCPU /\ c.phase = "load"
  BY <1>1, Shapes DEF At
<1>4. /\ seen \in Times /\ seen[f] = last[f]
      /\ \A e \in Fields \ {f} : seen[e] = c.seen[e]
  BY <1>3 DEF ReadsCPU, TypeOK, Times
<1>5. /\ more \in ReadsCPU /\ more.phase = "load" /\ more.seen = seen /\ more.left = left
      /\ more.alone = c.alone /\ more.clean = c.clean /\ more.t = c.t
  BY <1>3, <1>4 DEF ReadsCPU
<1>6. /\ done \in ReadsCPU /\ done.phase = "store" /\ done.left = Fields
      /\ done.alone = c.alone /\ done.clean = c.clean /\ done.t = c.t
  BY <1>3, ZeroIsTimes DEF ReadsCPU
<1>7. \/ calls' = [calls EXCEPT ![g] = more] /\ reading' = Nothing
      \/ /\ calls' = [calls EXCEPT ![g] = done] /\ left = {}
         /\ reading' = [kind |-> "cpu", cpu |-> CPUStats(c.t, seen), clean |-> c.alone /\ c.clean]
  BY DEF Load
<1>8. PICK new \in {more, done} : calls' = [calls EXCEPT ![g] = new]
  BY <1>7
<1>9. (c.alone /\ c.clean) =>
        /\ whole /\ Grows(last, c.t)
        /\ \A e \in Fields \ left : seen[e] = last[e]
  BY <1>1, <1>4 DEF CPUInv, Undisturbed
<1>. HIDE DEF c, seen, left, more, done
<1>10. /\ calls' \in [Requests -> Call \cup {Nobody}]
       /\ calls'[g] = new
       /\ \A h \in Requests \ {g} : calls'[h] = calls[h]
  BY <1>5, <1>6, <1>8, StaysTyped, RecordsAreCalls
<1>11. \A h \in Requests : InReadCPU(h)' <=> InReadCPU(h)
  BY <1>1, <1>5, <1>6, <1>10, RecordsAreCalls DEF InReadCPU
<1>12. \A h \in Requests : InReadCPU(h) => calls'[h].t = calls[h].t /\ calls'[h].alone = calls[h].alone
  BY <1>5, <1>6, <1>10 DEF c
<1>13. TypeOK'
  <2>1. reading' \in Reading
    <3>1. CASE reading' = Nothing
      BY <3>1 DEF Reading, Nothing
    <3>2. CASE reading' = [kind |-> "cpu", cpu |-> CPUStats(c.t, seen), clean |-> c.alone /\ c.clean]
      <4>1. CPUStats(c.t, seen) \in [share : 0 .. Modulus - 1, of : 0 .. Modulus - 1]
        BY <1>3, <1>4, StatsType DEF ReadsCPU
      <4>2. (c.alone /\ c.clean) \in BOOLEAN
        OBVIOUS
      <4>. QED
        BY <3>2, <4>1, <4>2 DEF Reading
    <3>. QED
      BY <1>7, <3>1, <3>2
  <2>. QED
    BY <1>2, <1>10, <2>1 DEF TypeOK
<1>14. Solitary'
  BY <1>11, <1>12 DEF CPUInv, Solitary
<1>15. Behind'
  BY <1>2, <1>11, <1>12 DEF CPUInv, Behind
<1>16. Undisturbed'
  <2>. SUFFICES ASSUME NEW h \in Requests, At(h, "load")', calls'[h].alone, calls'[h].clean
                PROVE  /\ whole /\ Grows(last, calls'[h].t)
                       /\ \A e \in Fields \ calls'[h].left : calls'[h].seen[e] = last[e]
    BY <1>2 DEF Undisturbed
  <2>1. CASE h = g
    <3>. new = more
      BY <1>6, <1>10, <2>1 DEF At
    <3>. QED
      BY <1>5, <1>9, <1>10, <2>1
  <2>2. CASE h # g
    BY <1>10, <2>2 DEF CPUInv, Undisturbed, At
  <2>. QED
    BY <2>1, <2>2
<1>17. StoresAll'
  <2>. SUFFICES ASSUME NEW h \in Requests, At(h, "store")', calls'[h].alone,
                       NEW e \in Fields \ calls'[h].left
                PROVE  last[e] = calls'[h].t[e]
    BY <1>2 DEF StoresAll
  <2>1. CASE h = g
    BY <1>5, <1>6, <1>10, <2>1 DEF At
  <2>2. CASE h # g
    BY <1>10, <2>2 DEF CPUInv, StoresAll, At
  <2>. QED
    BY <2>1, <2>2
<1>18. Readings'
  <2>1. CASE reading' = Nothing
    BY <2>1 DEF Readings, QuietSharesAreSane, MemoryAddsUp, DiskAddsUp,
    CutNamesShiftNumbers, Nothing
  <2>2. CASE left = {} /\ reading' = [kind |-> "cpu", cpu |-> CPUStats(c.t, seen), clean |-> c.alone /\ c.clean]
    <3>1. (c.alone /\ c.clean) => CPUStats(c.t, seen).share <= CPUStats(c.t, seen).of
      <4>. SUFFICES ASSUME c.alone, c.clean
                    PROVE  CPUStats(c.t, seen).share <= CPUStats(c.t, seen).of
        OBVIOUS
      <4>1. seen["column"] = last["column"] /\ seen["total"] = last["total"]
        BY <1>9, <2>2 DEF Fields
      <4>2. Grows(seen, c.t)
        BY <1>9, <4>1 DEF Grows
      <4>. QED
        BY <1>3, <1>4, <4>2, GrowingIsSane DEF ReadsCPU
    <3>. QED
      BY <2>2, <3>1 DEF Readings, QuietSharesAreSane, MemoryAddsUp, DiskAddsUp,
    CutNamesShiftNumbers
  <2>. QED
    BY <1>7, <2>1, <2>2
<1>. QED
  BY <1>13, <1>14, <1>15, <1>16, <1>17, <1>18 DEF CPUInv

LEMMA Store_Step ==
  ASSUME TypeOK, CPUInv, NEW g \in Requests, NEW f \in Fields, Store(g, f)
  PROVE  TypeOK' /\ CPUInv' /\ Readings'
<1>. DEFINE c    == calls[g]
            left == c.left \ {f}
            more == [c EXCEPT !.left = left]
            done == [phase |-> "memory"]
<1>1. At(g, "store") /\ InReadCPU(g) /\ f \in c.left
  BY DEF Store, At, InReadCPU
<1>2. /\ UNCHANGED <<kernel, buffer, uidCache, log>> /\ reading' = Nothing
      /\ last' = [last EXCEPT ![f] = c.t[f]]
  BY DEF Store, Stored
<1>3. c \in ReadsCPU /\ c.phase = "store"
  BY <1>1, Shapes DEF At
<1>4. /\ more \in ReadsCPU /\ more.phase = "store" /\ more.left = left
      /\ more.alone = c.alone /\ more.clean = c.clean /\ more.t = c.t
  BY <1>3 DEF ReadsCPU
<1>5. /\ last' \in Times /\ last'[f] = c.t[f]
      /\ \A e \in Fields \ {f} : last'[e] = last[e]
  BY <1>2, <1>3 DEF ReadsCPU, TypeOK, Times
<1>6. \/ calls' = [calls EXCEPT ![g] = more] /\ whole' = FALSE
      \/ calls' = [calls EXCEPT ![g] = done] /\ whole' = c.alone /\ left = {}
  BY DEF Store, Goto
<1>7. PICK new \in {more, done} : calls' = [calls EXCEPT ![g] = new]
  BY <1>6
<1>8. c.alone => \A e \in Fields \ left : last'[e] = c.t[e]
  BY <1>1, <1>5 DEF CPUInv, StoresAll
<1>9. \A h \in Requests \ {g} : (InReadCPU(h) /\ calls[h].alone) => FALSE
  BY <1>1 DEF CPUInv, Solitary
<1>10. Grows(c.t, kernel) /\ c.alone \in BOOLEAN
  BY <1>1, <1>3 DEF CPUInv, Behind, ReadsCPU
<1>11. done \in Call
  BY RecordsAreCalls
<1>. HIDE DEF c, left, more
<1>12. /\ calls' \in [Requests -> Call \cup {Nobody}]
       /\ calls'[g] = new
       /\ \A h \in Requests \ {g} : calls'[h] = calls[h]
  BY <1>4, <1>7, <1>11, StaysTyped, RecordsAreCalls
<1>13. \A h \in Requests : InReadCPU(h)' => InReadCPU(h)
  BY <1>1, <1>12 DEF InReadCPU
<1>14. InReadCPU(g)' => new = more
  BY <1>12 DEF InReadCPU
<1>15. TypeOK'
  <2>. whole' \in BOOLEAN
    BY <1>6, <1>10
  <2>. QED
    BY <1>2, <1>5, <1>12 DEF TypeOK, Reading, Nothing
<1>16. \A h \in Requests : InReadCPU(h)' =>
         calls'[h].t = calls[h].t /\ calls'[h].alone = calls[h].alone
  BY <1>4, <1>12, <1>14 DEF c
<1>17. Solitary'
  BY <1>13, <1>16 DEF CPUInv, Solitary
<1>18. Behind'
  <2>1. \A h \in Requests : InReadCPU(h)' => Grows(calls'[h].t, kernel')
    BY <1>2, <1>13, <1>16 DEF CPUInv, Behind
  <2>2. whole' => Grows(last', kernel')
    <3>. SUFFICES ASSUME whole'
                  PROVE  Grows(last', kernel')
      OBVIOUS
    <3>1. last'["column"] = c.t["column"] /\ last'["total"] = c.t["total"]
      BY <1>6, <1>8 DEF Fields
    <3>. QED
      BY <1>2, <1>10, <3>1 DEF Grows
  <2>3. kernel'["total"] <= MaxTicks /\ Grows(Zero, kernel')
    BY <1>2 DEF CPUInv, Behind
  <2>. QED
    BY <2>1, <2>2, <2>3 DEF Behind, Grows, InReadCPU
<1>19. Undisturbed'
  <2>. SUFFICES ASSUME NEW h \in Requests, At(h, "load")', calls'[h].alone
                PROVE  FALSE
    BY DEF Undisturbed
  <2>1. InReadCPU(h)'
    BY DEF At, InReadCPU
  <2>2. h # g
    BY <1>4, <1>12, <1>14, <2>1 DEF At
  <2>. QED
    BY <1>9, <1>13, <1>16, <2>1, <2>2
<1>20. StoresAll'
  <2>. SUFFICES ASSUME NEW h \in Requests, At(h, "store")', calls'[h].alone,
                       NEW e \in Fields \ calls'[h].left
                PROVE  last'[e] = calls'[h].t[e]
    BY DEF StoresAll
  <2>1. InReadCPU(h)'
    BY DEF At, InReadCPU
  <2>2. h = g
    BY <1>9, <1>13, <1>16, <2>1
  <2>3. calls'[h].left = left /\ calls'[h].alone = c.alone /\ calls'[h].t = c.t
    BY <1>4, <1>12, <1>14, <2>1, <2>2
  <2>. QED
    BY <1>8, <2>3
<1>21. Readings'
  BY <1>2 DEF Readings, QuietSharesAreSane, MemoryAddsUp, DiskAddsUp,
    CutNamesShiftNumbers, Nothing
<1>. QED
  BY <1>15, <1>17, <1>18, <1>19, <1>20, <1>21 DEF CPUInv

-----------------------------------------------------------------------------
(* The steps after readCPU, and those of the process list. *)

(* What is used and free makes up the total unless more is free than there is. *)
LEMMA UsageAddsUp ==
  ASSUME NEW total \in 0 .. Modulus - 1, NEW free \in 0 .. Modulus - 1
  PROVE  /\ Usage(total, free) \in [total : Nat, used : Nat, free : Nat]
         /\ Usage(total, free).total = total /\ Usage(total, free).free = free
         /\ Usage(total, free).used + free = total <=> free <= total
         /\ free <= total => Usage(total, free).used = total - free
<1>1. Modulus \in Nat \ {0} /\ total \in Nat /\ free \in Nat
  BY SizesArePositive
<1>2. Minus(total, free) = IF total >= free THEN total - free ELSE total - free + Modulus
  BY MinusIs
<1>3. Minus(total, free) \in Nat
  BY <1>1, MinusType
<1>. QED
  BY <1>1, <1>2, <1>3 DEF Usage

(* What is available: what the kernel says, and else the free and the cached. *)
LEMMA AvailableIs ==
  ASSUME NEW m \in MemInfo
  PROVE  /\ m.total \in 0 .. Modulus - 1 /\ Available(m) \in 0 .. Modulus - 1
         /\ m.total \in Nat /\ m.free \in Nat /\ m.available \in Nat
         /\ Available(m) < m.free => m.available \in 1 .. m.free - 1
<1>. DEFINE f == m.free
            c == m.cached
            a == m.available
<1>1. m.total \in 0 .. MaxSize /\ f \in 0 .. MaxSize /\ c \in 0 .. MaxSize /\ a \in 0 .. MaxSize
  BY DEF MemInfo, Sizes
<1>2. MaxSize \in Nat /\ Modulus \in Nat /\ 2 * MaxSize + 1 < Modulus
  BY SizesFit, SizesArePositive
<1>. HIDE DEF f, c, a
<1>3. f + c \in Nat /\ f + c < Modulus
  BY <1>1, <1>2
<1>4. (f + c) % Modulus = f + c
  BY <1>2, <1>3, Remainders
<1>5. Available(m) = IF a = 0 THEN f + c ELSE a
  BY <1>4 DEF Available, f, c, a
<1>6. Available(m) \in 0 .. Modulus - 1
  BY <1>1, <1>2, <1>3, <1>5
<1>7. Available(m) < f => a \in 1 .. f - 1
  BY <1>1, <1>2, <1>5
<1>. QED
  BY <1>1, <1>2, <1>6, <1>7 DEF f, a

(* The used part of a disk is the larger difference, or one that has wrapped. *)
LEMMA DiskIsSane ==
  ASSUME NEW s \in StatFS
  PROVE  /\ s.blocks \in Nat /\ DiskUsed(s) \in Nat /\ s.bavail \in Nat /\ s.bfree \in Nat
         /\ DiskUsed(s) <= s.blocks <=> s.bfree <= s.blocks /\ s.bavail <= s.blocks
         /\ DiskUsed(s) <= s.blocks =>
              /\ DiskUsed(s) + s.bavail >= s.blocks
              /\ DiskUsed(s) + s.bavail = s.blocks <=> s.bavail <= s.bfree
<1>. DEFINE b == s.blocks
            f == s.bfree
            v == s.bavail
            u == Minus(b, v)
            w == Minus(b, f)
<1>1. b \in 0 .. MaxSize /\ f \in 0 .. MaxSize /\ v \in 0 .. MaxSize
  BY DEF StatFS, Sizes
<1>2. MaxSize \in Nat /\ Modulus \in Nat /\ 2 * MaxSize + 1 < Modulus
  BY SizesFit, SizesArePositive
<1>3. DiskUsed(s) = IF w > u THEN w ELSE u
  BY DEF DiskUsed
<1>. HIDE DEF b, f, v
<1>4. b \in 0 .. Modulus - 1 /\ f \in 0 .. Modulus - 1 /\ v \in 0 .. Modulus - 1
  BY <1>1, <1>2
<1>5. /\ u = IF b >= v THEN b - v ELSE b - v + Modulus
      /\ w = IF b >= f THEN b - f ELSE b - f + Modulus
  BY <1>4, MinusIs
<1>. HIDE DEF u, w
<1>6. u \in Nat /\ w \in Nat /\ b \in Nat /\ f \in Nat /\ v \in Nat
  BY <1>1, <1>2, <1>5
<1>7. DiskUsed(s) <= b <=> f <= b /\ v <= b
  BY <1>1, <1>2, <1>3, <1>5
<1>8. DiskUsed(s) <= b => DiskUsed(s) = IF v > f THEN b - f ELSE b - v
  BY <1>1, <1>2, <1>3, <1>5, <1>7
<1>9. DiskUsed(s) <= b =>
        DiskUsed(s) + v >= b /\ (DiskUsed(s) + v = b <=> v <= f)
  BY <1>6, <1>8
<1>. QED
  BY <1>3, <1>6, <1>7, <1>9 DEF b, f, v

(* The name of a process may be empty. *)
LEMMA NoChars == <<>> \in [1 .. 0 -> Chars]
BY DEF Chars

LEMMA TuplesAreSequences ==
  ASSUME NEW X, NEW n \in Nat, NEW s \in [1 .. n -> X]
  PROVE  s \in Seq(X) /\ Len(s) = n
<1>. DEFINE t == SubSeq(s, 1, n)
<1>1. t \in Seq(X) /\ Len(t) = n /\ \A i \in 1 .. n : t[i] = s[i]
  <2>1. \A i \in 1 .. n : s[i] \in X
    OBVIOUS
  <2>2. /\ SubSeq(s, 1, n) \in Seq(X)
        /\ Len(SubSeq(s, 1, n)) = IF 1 <= n THEN n - 1 + 1 ELSE 0
        /\ \A i \in 1 .. n - 1 + 1 : SubSeq(s, 1, n)[i] = s[1 + i - 1]
    BY <2>1, SubSeqProperties
  <2>. QED
    BY <2>2
<1>. HIDE DEF t
<1>2. t \in [1 .. n -> X]
  BY <1>1, LenProperties
<1>3. s = t
  BY <1>1, <1>2
<1>. QED
  BY <1>1, <1>3

(* Every set of positions has a first one. *)
LEMMA FirstPosition ==
  ASSUME NEW S \in SUBSET Nat, S # {}
  PROVE  \E i \in S : \A j \in S : i <= j
<1>. DEFINE R == OpToRel(<, Nat)
<1>1. IsWellFoundedOn(R, Nat)
  BY NatLessThanWellFounded
<1>2. \A i, j \in Nat : <<j, i>> \in R <=> j < i
  BY DEF OpToRel
<1>. HIDE DEF R
<1>3. PICK i \in S : \A j \in S : <<j, i>> \notin R
  BY <1>1, WFMin
<1>4. ASSUME NEW j \in S PROVE i <= j
  <2>1. i \in Nat /\ j \in Nat
    OBVIOUS
  <2>2. ~(j < i)
    BY <1>2, <1>3, <2>1
  <2>. QED
    BY <2>1, <2>2
<1>. QED
  BY <1>4

(* The text of a process ends its name at the first bracket, which is its own *)
(* or the one the kernel adds.                                                *)
LEMMA NamesEnd ==
  ASSUME NEW comm \in Comms
  PROVE  /\ comm \in Seq(Chars) /\ Len(comm) \in Nat
         /\ Append(comm, ")") \in Seq(Chars) /\ Len(Append(comm, ")")) = Len(comm) + 1
         /\ Append(comm, ")")[Len(comm) + 1] = ")"
         /\ Close(comm) \in 1 .. Len(comm) + 1
<1>1. PICK n \in 0 .. MaxName : comm \in [1 .. n -> Chars]
  BY DEF Comms
<1>. n \in Nat /\ n + 1 \in Nat
  BY NamesHaveLength
<1>. DEFINE text    == Append(comm, ")")
            Ends(i) == text[i] = ")" /\ \A j \in 1 .. i - 1 : comm[j] # ")"
<1>2. comm \in Seq(Chars) /\ Len(comm) = n
  BY <1>1, TuplesAreSequences
<1>2a. ")" \in Chars
  BY DEF Chars
<1>3. text \in Seq(Chars) /\ Len(text) = n + 1
  BY <1>2, <1>2a, AppendProperties
<1>4. text[n + 1] = ")" /\ \A j \in 1 .. n : text[j] = comm[j]
  BY <1>2, <1>2a, AppendProperties
<1>. HIDE DEF text
<1>5. \E i \in 1 .. n + 1 : Ends(i)
  <2>. DEFINE S == {i \in 1 .. n + 1 : text[i] = ")"}
  <2>1. S \in SUBSET Nat /\ n + 1 \in S
    BY <1>4
  <2>2. PICK i \in S : \A j \in S : i <= j
    <3>. HIDE DEF S
    <3>. QED
      BY <2>1, FirstPosition
  <2>3. ASSUME NEW j \in 1 .. i - 1 PROVE comm[j] # ")"
    <3>1. j \in 1 .. n /\ j < i /\ j \in 1 .. n + 1
      BY <2>2
    <3>2. j \notin S
      BY <2>2, <3>1
    <3>. QED
      BY <1>4, <3>1, <3>2
  <2>. QED
    BY <2>2, <2>3
<1>6. Close(comm) = CHOOSE i \in 1 .. n + 1 : Ends(i)
  BY <1>2 DEF Close, text
<1>7. Close(comm) \in 1 .. n + 1
  BY <1>5, <1>6
<1>. QED
  BY <1>2, <1>3, <1>4, <1>7 DEF text

(* The words the name leaves to the fields after it are none exactly when its *)
(* own brackets are none: what follows a bracket of its own ends in another,  *)
(* which is the last letter of a word.                                        *)
LEMMA SurplusOfCutNames ==
  ASSUME NEW comm \in Comms
  PROVE  /\ Surplus(comm) \in Nat
         /\ Surplus(comm) = 0 <=> Close(comm) = Len(comm) + 1
<1>. DEFINE n     == Len(comm)
            c     == Close(comm)
            text  == Append(comm, ")")
            rest  == SubSeq(text, c + 1, n + 1)
            words == {i \in DOMAIN rest : rest[i] # " " /\ (i = 1 \/ rest[i - 1] = " ")}
<1>1. /\ n \in Nat /\ c \in 1 .. n + 1
      /\ text \in Seq(Chars) /\ Len(text) = n + 1 /\ text[n + 1] = ")"
  BY NamesEnd
<1>2. Surplus(comm) = Cardinality(words)
  BY DEF Surplus
<1>3. \A i \in c + 1 .. n + 1 : text[i] \in Chars
  BY <1>1, ElementOfSeq
<1>. HIDE DEF text, n, c
<1>4. /\ rest \in Seq(Chars)
      /\ Len(rest) = IF c + 1 <= n + 1 THEN n + 1 - (c + 1) + 1 ELSE 0
      /\ \A i \in 1 .. n + 1 - (c + 1) + 1 : rest[i] = text[c + 1 + i - 1]
  BY <1>1, <1>3, SubSeqProperties
<1>5. DOMAIN rest = 1 .. Len(rest) /\ Len(rest) \in Nat
  BY <1>4, LenProperties
<1>. HIDE DEF rest
<1>6. IsFiniteSet(words)
  <2>1. words \subseteq DOMAIN rest
    OBVIOUS
  <2>. HIDE DEF words
  <2>2. IsFiniteSet(1 .. Len(rest))
    BY <1>5, FS_Interval
  <2>. QED
    BY <1>5, <2>1, <2>2, FS_Subset
<1>7. CASE c = n + 1
  <2>1. Len(rest) = 0
    BY <1>1, <1>4, <1>7
  <2>2. words = {}
    BY <1>5, <2>1
  <2>. QED
    BY <1>2, <1>6, <1>7, <2>2, FS_EmptySet, FS_CardinalityType DEF c, n
<1>8. CASE c # n + 1
  <2>1. c \in 1 .. n /\ Len(rest) = n + 1 - c
    BY <1>1, <1>4, <1>8
  <2>2. rest[Len(rest)] = ")" /\ Len(rest) \in DOMAIN rest
    <3>1. n + 1 - c \in 1 .. n + 1 - (c + 1) + 1 /\ c + 1 + (n + 1 - c) - 1 = n + 1
      BY <1>1, <2>1
    <3>. QED
      BY <1>1, <1>4, <1>5, <2>1, <3>1
  <2>. DEFINE S == {i \in DOMAIN rest : rest[i] # " "}
  <2>3. S \in SUBSET Nat /\ S # {}
    <3>1. DOMAIN rest \subseteq Nat
      BY <1>5
    <3>2. Len(rest) \in S
      BY <2>2
    <3>. QED
      BY <3>1, <3>2
  <2>4. PICK i \in S : \A j \in S : i <= j
    <3>. HIDE DEF S
    <3>. QED
      BY <2>3, FirstPosition
  <2>5. i = 1 \/ rest[i - 1] = " "
    <3>. SUFFICES ASSUME i # 1 PROVE rest[i - 1] = " "
      OBVIOUS
    <3>1. i - 1 \in DOMAIN rest /\ ~(i <= i - 1)
      <4>1. PICK k \in Nat : k = Len(rest)
        BY <1>5
      <4>2. i \in 1 .. k
        BY <1>5, <2>4, <4>1
      <4>. HIDE DEF S
      <4>3. i - 1 \in 1 .. k /\ ~(i <= i - 1)
        BY <4>1, <4>2
      <4>. QED
        BY <1>5, <4>1, <4>3
    <3>. QED
      BY <2>4, <3>1
  <2>6. words # {}
    BY <2>4, <2>5
  <2>. QED
    BY <1>2, <1>6, <1>8, <2>6, FS_EmptySet, FS_CardinalityType DEF c, n
<1>. QED
  BY <1>7, <1>8

(* The name that is shown is the whole name under the same condition. *)
LEMMA ShownNames ==
  ASSUME NEW comm \in Comms
  PROVE  /\ SubSeq(comm, 1, Close(comm) - 1) \in Seq(Chars)
         /\ SubSeq(comm, 1, Close(comm) - 1) = comm <=> Close(comm) = Len(comm) + 1
<1>. DEFINE n    == Len(comm)
            c    == Close(comm)
            name == SubSeq(comm, 1, c - 1)
<1>1. comm \in Seq(Chars) /\ n \in Nat /\ c \in 1 .. n + 1
  BY NamesEnd
<1>2. \A i \in 1 .. c - 1 : comm[i] \in Chars
  BY <1>1, ElementOfSeq
<1>. HIDE DEF c
<1>3. name \in Seq(Chars) /\ Len(name) = IF 1 <= c - 1 THEN c - 1 - 1 + 1 ELSE 0
  BY <1>1, <1>2, SubSeqProperties
<1>4. Len(name) = c - 1
  BY <1>1, <1>3
<1>5. c = n + 1 => name = comm
  BY <1>1, SubSeqFull
<1>6. name = comm => c = n + 1
  BY <1>1, <1>4
<1>. QED
  BY <1>3, <1>5, <1>6 DEF c

LEMMA ReadMemory_Step ==
  ASSUME TypeOK, CPUInv, NEW g \in Requests, ReadMemory(g)
  PROVE  TypeOK' /\ CPUInv' /\ Readings'
<1>1. \/ \E m \in MemInfo :
           reading' = [kind |-> "memory", of |-> m, shown |-> Usage(m.total, Available(m))]
      \/ \E m \in SwapInfo :
           reading' = [kind |-> "swap", of |-> m, shown |-> Usage(m.total, m.free)]
  BY DEF ReadMemory
<1>2. calls' = [calls EXCEPT ![g] = [phase |-> "disks"]] /\ [phase |-> "disks"] \in Call
  BY RecordsAreCalls DEF ReadMemory, Goto
<1>3. /\ calls' \in [Requests -> Call \cup {Nobody}]
      /\ calls'[g] = [phase |-> "disks"]
      /\ \A h \in Requests \ {g} : calls'[h] = calls[h]
  BY <1>2, StaysTyped
<1>4. UNCHANGED <<kernel, last, buffer, uidCache, log, whole>> /\ At(g, "memory")
  BY DEF ReadMemory
<1>5. reading' \in Reading /\ reading'.kind \in {"memory", "swap"} /\ MemoryAddsUp'
  <2>1. ASSUME NEW m \in MemInfo,
               reading' = [kind |-> "memory", of |-> m, shown |-> Usage(m.total, Available(m))]
        PROVE  reading' \in Reading /\ reading'.kind \in {"memory", "swap"} /\ MemoryAddsUp'
    <3>. DEFINE shown == Usage(m.total, Available(m))
    <3>1. /\ m.total \in 0 .. Modulus - 1 /\ Available(m) \in 0 .. Modulus - 1
          /\ m.total \in Nat /\ m.free \in Nat /\ m.available \in Nat
          /\ Available(m) < m.free => m.available \in 1 .. m.free - 1
      BY AvailableIs
    <3>2. /\ shown \in [total : Nat, used : Nat, free : Nat]
          /\ shown.total = m.total /\ shown.free = Available(m)
          /\ shown.used + Available(m) = m.total <=> Available(m) <= m.total
          /\ Available(m) <= m.total => shown.used = m.total - Available(m)
      BY <3>1, UsageAddsUp
    <3>. HIDE DEF shown
    <3>3. Available(m) <= m.total /\ shown.used > m.total - m.free => Available(m) < m.free
      BY <3>1, <3>2
    <3>4. reading'.kind = "memory" /\ reading'.of = m /\ reading'.shown = shown
      BY <2>1 DEF shown
    <3>5. MemoryAddsUp'
      BY <3>1, <3>2, <3>3, <3>4 DEF MemoryAddsUp
    <3>. QED
      BY <2>1, <3>2, <3>4, <3>5 DEF Reading, shown
  <2>2. ASSUME NEW m \in SwapInfo,
               reading' = [kind |-> "swap", of |-> m, shown |-> Usage(m.total, m.free)]
        PROVE  reading' \in Reading /\ reading'.kind \in {"memory", "swap"} /\ MemoryAddsUp'
    <3>. DEFINE shown == Usage(m.total, m.free)
    <3>1. m.total \in 0 .. Modulus - 1 /\ m.free \in 0 .. Modulus - 1
      BY SizesFit, SizesArePositive DEF SwapInfo, Sizes
    <3>2. /\ shown \in [total : Nat, used : Nat, free : Nat]
          /\ shown.total = m.total /\ shown.free = m.free
          /\ shown.used + m.free = m.total <=> m.free <= m.total
      BY <3>1, UsageAddsUp
    <3>. HIDE DEF shown
    <3>3. reading'.kind = "swap" /\ reading'.of = m /\ reading'.shown = shown
      BY <2>2 DEF shown
    <3>4. MemoryAddsUp'
      BY <3>2, <3>3 DEF MemoryAddsUp
    <3>. QED
      BY <2>2, <3>2, <3>3, <3>4 DEF Reading, shown
  <2>. QED
    BY <1>1, <2>1, <2>2
<1>6. TypeOK'
  BY <1>3, <1>4, <1>5 DEF TypeOK
<1>7. CPUInv'
  <2>. OutsideCPU(g)
    BY <1>3, <1>4 DEF OutsideCPU, InReadCPU, At
  <2>. QED
    BY OutsideKeepsCPU
<1>8. Readings'
  BY <1>5 DEF Readings, QuietSharesAreSane, DiskAddsUp, CutNamesShiftNumbers
<1>. QED
  BY <1>5, <1>6, <1>7, <1>8

LEMMA ReadDisks_Step ==
  ASSUME TypeOK, CPUInv, NEW g \in Requests, ReadDisks(g)
  PROVE  TypeOK' /\ CPUInv' /\ Readings'
<1>1. PICK s \in StatFS :
        reading' = [kind |-> "disk", of |-> s,
                    shown |-> [total |-> s.blocks, used |-> DiskUsed(s), free |-> s.bavail]]
  BY DEF ReadDisks
<1>2. calls' = [calls EXCEPT ![g] = [phase |-> "add"]] /\ [phase |-> "add"] \in Call
  BY RecordsAreCalls DEF ReadDisks, Goto
<1>3. /\ calls' \in [Requests -> Call \cup {Nobody}]
      /\ calls'[g] = [phase |-> "add"]
      /\ \A h \in Requests \ {g} : calls'[h] = calls[h]
  BY <1>2, StaysTyped
<1>4. UNCHANGED <<kernel, last, buffer, uidCache, log, whole>> /\ At(g, "disks")
  BY DEF ReadDisks
<1>5. reading' \in Reading
  BY <1>1, DiskIsSane DEF Reading
<1>6. TypeOK'
  BY <1>3, <1>4, <1>5 DEF TypeOK
<1>7. CPUInv'
  <2>. OutsideCPU(g)
    BY <1>3, <1>4 DEF OutsideCPU, InReadCPU, At
  <2>. QED
    BY OutsideKeepsCPU
<1>8. DiskAddsUp'
  BY <1>1, DiskIsSane DEF DiskAddsUp
<1>9. Readings'
  BY <1>1, <1>8 DEF Readings, QuietSharesAreSane, MemoryAddsUp, CutNamesShiftNumbers
<1>. QED
  BY <1>6, <1>7, <1>9

LEMMA Add_Step ==
  ASSUME TypeOK, CPUInv, NEW g \in Requests, Add(g)
  PROVE  TypeOK' /\ CPUInv' /\ Readings'
<1>1. /\ calls' \in [Requests -> Call \cup {Nobody}]
      /\ calls'[g] = Nobody
      /\ \A h \in Requests \ {g} : calls'[h] = calls[h]
  BY DEF Add, TypeOK
<1>2. UNCHANGED <<kernel, last, uidCache, whole>> /\ At(g, "add") /\ reading' = Nothing
  BY DEF Add
<1>3. log' \in Seq(Requests) /\ Append(buffer, g) \in Seq(Requests)
  BY AppendProperties DEF Add, TypeOK
<1>4. buffer' \in Seq(Requests)
  <2>. DEFINE s == Append(buffer, g)
  <2>1. Len(s) \in Nat /\ \A i \in 1 .. Len(s) : s[i] \in Requests
    BY <1>3, LenProperties, ElementOfSeq
  <2>2. Len(s) > HistorySize =>
          SubSeq(s, Len(s) - HistorySize + 1, Len(s)) \in Seq(Requests)
    <3>. HIDE DEF s
    <3>. SUFFICES ASSUME Len(s) > HistorySize
                  PROVE  SubSeq(s, Len(s) - HistorySize + 1, Len(s)) \in Seq(Requests)
      OBVIOUS
    <3>1. /\ Len(s) - HistorySize + 1 \in Int /\ Len(s) \in Int
          /\ \A i \in Len(s) - HistorySize + 1 .. Len(s) : s[i] \in Requests
      BY <2>1, SizesArePositive
    <3>. QED
      BY <3>1, SubSeqProperties
  <2>. QED
    BY <1>3, <2>2 DEF Add, Trimmed
<1>5. TypeOK'
  BY <1>1, <1>2, <1>3, <1>4 DEF TypeOK, Reading, Nothing
<1>6. CPUInv'
  <2>. OutsideCPU(g)
    BY <1>1, <1>2 DEF OutsideCPU, InReadCPU, At
  <2>. QED
    BY OutsideKeepsCPU
<1>7. Readings'
  BY <1>2 DEF Readings, QuietSharesAreSane, MemoryAddsUp, DiskAddsUp,
    CutNamesShiftNumbers, Nothing
<1>. QED
  BY <1>5, <1>6, <1>7

(* What the steps of the process list have in common. *)
LEMMA Processes_Step ==
  ASSUME TypeOK, CPUInv, NEW g \in Requests, Processes(g)
  PROVE  TypeOK' /\ CPUInv' /\ Readings'
<1>1. UNCHANGED <<kernel, last, buffer, log, whole>>
  BY DEF Processes, ReadStat, UserCached, UserMissed, UserFound
<1>2. /\ calls' \in [Requests -> Call \cup {Nobody}]
      /\ \A h \in Requests \ {g} : calls'[h] = calls[h]
      /\ ~InReadCPU(g) /\ ~InReadCPU(g)'
  <2>1. CASE ReadStat(g)
    <3>. calls[g] = Nobody
      BY <2>1 DEF ReadStat
    <3>1. CASE UNCHANGED calls
      BY <3>1 DEF TypeOK, InReadCPU
    <3>2. ASSUME NEW u \in Uids, calls' = [calls EXCEPT ![g] = [phase |-> "user", uid |-> u]]
          PROVE  /\ calls' \in [Requests -> Call \cup {Nobody}]
                 /\ \A h \in Requests \ {g} : calls'[h] = calls[h]
                 /\ ~InReadCPU(g) /\ ~InReadCPU(g)'
      BY <3>2, RecordsAreCalls, StaysTyped DEF InReadCPU
    <3>. QED
      BY <2>1, <3>1, <3>2 DEF ReadStat
  <2>2. CASE UserCached(g) \/ UserFound(g)
    <3>. calls' = [calls EXCEPT ![g] = Nobody] /\ (At(g, "user") \/ At(g, "id"))
      BY <2>2 DEF UserCached, UserFound
    <3>. QED
      BY DEF TypeOK, InReadCPU, At
  <2>3. CASE UserMissed(g)
    <3>1. calls' = [calls EXCEPT ![g] = [calls[g] EXCEPT !.phase = "id"]] /\ At(g, "user")
      BY <2>3 DEF UserMissed, TypeOK
    <3>2. /\ [calls[g] EXCEPT !.phase = "id"] \in Call
          /\ [calls[g] EXCEPT !.phase = "id"].phase = "id"
      BY <3>1, Shapes DEF At, Call, ReadsCPU
    <3>. QED
      BY <3>1, <3>2, StaysTyped DEF InReadCPU, At
  <2>. QED
    BY <2>1, <2>2, <2>3 DEF Processes
<1>3. reading' \in Reading /\ reading'.kind \in {"none", "row", "user"}
  <2>1. CASE ReadStat(g)
    <3>1. PICK comm \in Comms :
            reading' = [kind |-> "row", comm |-> comm, name |-> SubSeq(comm, 1, Close(comm) - 1),
                        utime |-> Field(comm, 13), stime |-> Field(comm, 14),
                        starttime |-> Field(comm, 21)]
      BY <2>1 DEF ReadStat
    <3>2. \A i \in {13, 14, 21} : Field(comm, i) \in Int
      BY SurplusOfCutNames DEF Field
    <3>. QED
      BY <3>1, <3>2, ShownNames DEF Reading
  <2>2. CASE UserMissed(g)
    BY <2>2 DEF UserMissed, Reading, Nothing
  <2>3. CASE UserCached(g)
    <3>. calls[g].uid \in Uids /\ uidCache[calls[g].uid] # Unknown
      BY <2>3, Shapes DEF UserCached, Hit
    <3>. uidCache[calls[g].uid] \in {"name", "number"}
      BY DEF TypeOK
    <3>. QED
      BY <2>3 DEF UserCached, Reading
  <2>4. CASE UserFound(g)
    BY <2>4 DEF UserFound, Reading
  <2>. QED
    BY <2>1, <2>2, <2>3, <2>4 DEF Processes
<1>4. uidCache' \in [Uids -> {"name", "number", Unknown}]
  <2>1. CASE UNCHANGED uidCache
    BY <2>1 DEF TypeOK
  <2>2. CASE UserFound(g)
    BY <2>2 DEF UserFound, TypeOK
  <2>. QED
    BY <2>1, <2>2 DEF Processes, ReadStat, UserCached, UserMissed
<1>5. TypeOK'
  BY <1>1, <1>2, <1>3, <1>4 DEF TypeOK
<1>6. CPUInv'
  <2>. OutsideCPU(g)
    BY <1>1, <1>2 DEF OutsideCPU
  <2>. QED
    BY OutsideKeepsCPU
<1>7. Readings'
  <2>1. reading'.kind # "row" => CutNamesShiftNumbers'
    BY DEF CutNamesShiftNumbers
  <2>2. reading'.kind = "row" => CutNamesShiftNumbers'
    <3>. SUFFICES ASSUME reading'.kind = "row" PROVE CutNamesShiftNumbers'
      OBVIOUS
    <3>1. ReadStat(g)
      <4>1. \A u \in Uids : uidCache[u] \in {"name", "number", Unknown}
        BY DEF TypeOK
      <4>. QED
        BY DEF Processes, UserCached, UserMissed, UserFound, Nothing
    <3>2. PICK comm \in Comms :
            reading' = [kind |-> "row", comm |-> comm, name |-> SubSeq(comm, 1, Close(comm) - 1),
                        utime |-> Field(comm, 13), stime |-> Field(comm, 14),
                        starttime |-> Field(comm, 21)]
      BY <3>1 DEF ReadStat
    <3>3. Surplus(comm) \in Nat
      BY SurplusOfCutNames
    <3>4. Surplus(<<>>) = 0
      <4>1. <<>> \in Comms /\ Len(<<>>) = 0
        BY NamesHaveLength, NoChars DEF Comms
      <4>2. Close(<<>>) \in 1 .. 1
        BY <4>1, NamesEnd
      <4>. QED
        BY <4>1, <4>2, SurplusOfCutNames
    <3>5. /\ Field(comm, 13) = Field(<<>>, 13) <=> Surplus(comm) = 0
          /\ Field(comm, 14) - Field(comm, 13) = 1 /\ Field(comm, 21) - Field(comm, 13) = 8
      BY <3>3, <3>4 DEF Field
    <3>. QED
      BY <3>2, <3>5, SurplusOfCutNames, ShownNames DEF CutNamesShiftNumbers
  <2>. QED
    BY <1>3, <2>1, <2>2
    DEF Readings, QuietSharesAreSane, MemoryAddsUp, DiskAddsUp
<1>. QED
  BY <1>5, <1>6, <1>7

-----------------------------------------------------------------------------
(* The history. *)

(* The last n elements of a sequence. *)
Last(n, s) == SubSeq(s, Len(s) - n + 1, Len(s))

LEMMA LastIs ==
  ASSUME NEW X, NEW s \in Seq(X), NEW n \in Nat \ {0}, n <= Len(s)
  PROVE  /\ Last(n, s) \in Seq(X)
         /\ Len(Last(n, s)) = n
         /\ \A i \in 1 .. n : Last(n, s)[i] = s[Len(s) - n + i]
<1>. DEFINE m == Len(s) - n + 1
            k == Len(s)
<1>1. m \in Int /\ k \in Int /\ m <= k /\ \A i \in m .. k : s[i] \in X
  BY ElementOfSeq, LenProperties
<1>2. /\ SubSeq(s, m, k) \in Seq(X)
      /\ Len(SubSeq(s, m, k)) = IF m <= k THEN k - m + 1 ELSE 0
      /\ \A i \in 1 .. k - m + 1 : SubSeq(s, m, k)[i] = s[m + i - 1]
  <2>. HIDE DEF m, k
  <2>. QED
    BY <1>1, SubSeqProperties
<1>3. k \in Nat
  BY LenProperties
<1>. QED
  BY <1>1, <1>2, <1>3 DEF Last

(* The first element of a longer sequence does not matter. *)
LEMMA LastOfAppended ==
  ASSUME NEW X, NEW s \in Seq(X), NEW x \in X, NEW n \in Nat \ {0}, n <= Len(s)
  PROVE  Last(n, Append(Last(n, s), x)) = Last(n, Append(s, x))
<1>. DEFINE k == Len(s)
            a == Append(s, x)
            b == Append(Last(n, s), x)
<1>1. k \in Nat /\ n <= k
  BY LenProperties
<1>2. a \in Seq(X) /\ Len(a) = k + 1 /\ a[k + 1] = x /\ \A i \in 1 .. k : a[i] = s[i]
  BY AppendProperties
<1>3. /\ b \in Seq(X) /\ Len(b) = n + 1 /\ b[n + 1] = x
      /\ \A i \in 1 .. n : b[i] = s[k - n + i]
  BY LastIs, AppendProperties
<1>. HIDE DEF a, b, k
<1>4. /\ Last(n, b) \in Seq(X) /\ Len(Last(n, b)) = n
      /\ \A i \in 1 .. n : Last(n, b)[i] = b[n + 1 - n + i]
  BY <1>3, LastIs
<1>5. /\ Last(n, a) \in Seq(X) /\ Len(Last(n, a)) = n
      /\ \A i \in 1 .. n : Last(n, a)[i] = a[k + 1 - n + i]
  <2>1. n <= Len(a)
    BY <1>1, <1>2
  <2>2. /\ Last(n, a) \in Seq(X) /\ Len(Last(n, a)) = n
        /\ \A i \in 1 .. n : Last(n, a)[i] = a[Len(a) - n + i]
    BY <1>2, <2>1, LastIs
  <2>. QED
    BY <1>1, <1>2, <2>2
<1>6. ASSUME NEW i \in 1 .. n
      PROVE  b[n + 1 - n + i] = a[k + 1 - n + i]
  <2>1. CASE i = n
    BY <1>1, <1>2, <1>3, <2>1
  <2>2. CASE i # n
    <3>1. i + 1 \in 1 .. n /\ k - n + (i + 1) \in 1 .. k
      BY <1>1, <2>2
    <3>2. n + 1 - n + i = i + 1 /\ k + 1 - n + i = k - n + (i + 1)
      BY <1>1
    <3>. QED
      BY <1>2, <1>3, <3>1, <3>2
  <2>. QED
    BY <2>1, <2>2
<1>7. Last(n, b) = Last(n, a)
  BY <1>4, <1>5, <1>6, SeqEqual
<1>. QED
  BY <1>7 DEF a, b

(* Cutting after each snapshot, or once at the end, comes to the same. *)
LEMMA TrimmedIsNewest ==
  ASSUME NEW X, NEW s \in Seq(X), NEW x \in X
  PROVE  Trimmed(Append(History!Newest(HistorySize, s), x)) = History!Newest(HistorySize, Append(s, x))
<1>1. /\ HistorySize \in Nat \ {0} /\ Len(s) \in Nat
      /\ Append(s, x) \in Seq(X) /\ Len(Append(s, x)) = Len(s) + 1
  BY SizesArePositive, LenProperties, AppendProperties
<1>2. CASE Len(s) <= HistorySize
  BY <1>1, <1>2 DEF Trimmed, History!Newest
<1>3. CASE Len(s) > HistorySize
  <2>1. History!Newest(HistorySize, s) = Last(HistorySize, s)
    BY <1>1, <1>3 DEF History!Newest, Last
  <2>2. History!Newest(HistorySize, Append(s, x)) = Last(HistorySize, Append(s, x))
    BY <1>1, <1>3 DEF History!Newest, Last
  <2>3. Last(HistorySize, s) \in Seq(X) /\ Len(Last(HistorySize, s)) = HistorySize
    BY <1>1, <1>3, LastIs
  <2>4. Len(Append(Last(HistorySize, s), x)) = HistorySize + 1
    BY <2>3, AppendProperties
  <2>5. Trimmed(Append(Last(HistorySize, s), x)) = Last(HistorySize, Append(Last(HistorySize, s), x))
    BY <1>1, <2>4 DEF Trimmed, Last
  <2>. QED
    BY <1>1, <1>3, <2>1, <2>2, <2>5, LastOfAppended
<1>. QED
  BY <1>1, <1>2, <1>3

(* Add is the abstract Add, and no other step touches the history. *)
LEMMA HistoryStep ==
  ASSUME TypeOK, HistoryInv, Next
  PROVE  HistoryInv' /\ (History!Add \/ UNCHANGED <<log, buffer>>)
<1>1. ASSUME NEW g \in Requests, Add(g)
      PROVE  HistoryInv' /\ History!Add
  <2>1. log' = Append(log, g) /\ buffer' = Trimmed(Append(buffer, g)) /\ log \in Seq(Requests)
    BY <1>1 DEF Add, TypeOK
  <2>2. buffer' = History!Newest(HistorySize, Append(log, g))
    BY <2>1, TrimmedIsNewest DEF HistoryInv
  <2>. QED
    BY <2>1, <2>2 DEF HistoryInv, History!Add
<1>2. ASSUME UNCHANGED <<log, buffer>>
      PROVE  HistoryInv'
  BY <1>2 DEF HistoryInv, History!Newest
<1>3. ASSUME NEW g \in Requests, Metrics(g), ~Add(g)
      PROVE  UNCHANGED <<log, buffer>>
  BY <1>3 DEF Metrics, Sample, Load, Store, ReadMemory, ReadDisks
<1>4. ASSUME NEW g \in Requests, Processes(g)
      PROVE  UNCHANGED <<log, buffer>>
  BY <1>4 DEF Processes, ReadStat, UserCached, UserMissed, UserFound
<1>5. Tick => UNCHANGED <<log, buffer>>
  BY DEF Tick
<1>. QED
  BY <1>1, <1>2, <1>3, <1>4, <1>5 DEF Next, Metrics

-----------------------------------------------------------------------------
(* The inductive invariant. *)

LEMMA Init_Inv == Init => Inv
<1>. SUFFICES ASSUME Init PROVE Inv
  OBVIOUS
<1>1. TypeOK
  <2>1. reading \in Reading
    BY DEF Init, Nothing, Reading
  <2>2. buffer \in Seq(Requests) /\ log \in Seq(Requests)
    BY DEF Init
  <2>. QED
    BY <2>1, <2>2, ZeroIsTimes DEF Init, TypeOK
<1>2. CPUInv
  <2>1. \A g \in Requests : ~InReadCPU(g) /\ ~At(g, "load") /\ ~At(g, "store")
    BY DEF Init, InReadCPU, At
  <2>2. Grows(Zero, Zero)
    BY ZeroIsTimes DEF Grows
  <2>. QED
    BY <2>1, <2>2, ZeroIsTimes, CountersFit
    DEF CPUInv, Solitary, Behind, Undisturbed, StoresAll, Init
<1>3. Readings
  BY DEF Init, Nothing, Readings, QuietSharesAreSane, MemoryAddsUp, DiskAddsUp,
    CutNamesShiftNumbers
<1>4. HistoryInv
  <2>. Len(<<>>) = 0 /\ HistorySize \in Nat
    BY SizesArePositive
  <2>. QED
    BY DEF Init, HistoryInv, History!Newest
<1>. QED
  BY <1>1, <1>2, <1>3, <1>4 DEF Inv

LEMMA Next_Inv == Inv /\ [Next]_vars => Inv'
<1>. SUFFICES ASSUME Inv, [Next]_vars PROVE Inv'
  OBVIOUS
<1>. TypeOK /\ CPUInv /\ HistoryInv
  BY DEF Inv
<1>1. CASE Next
  <2>1. TypeOK' /\ CPUInv' /\ Readings'
    <3>1. CASE Tick
      BY <3>1, Tick_Step
    <3>2. ASSUME NEW g \in Requests, Metrics(g)
          PROVE  TypeOK' /\ CPUInv' /\ Readings'
      BY <3>2, Sample_Step, Load_Step, Store_Step, ReadMemory_Step, ReadDisks_Step, Add_Step
      DEF Metrics
    <3>3. ASSUME NEW g \in Requests, Processes(g)
          PROVE  TypeOK' /\ CPUInv' /\ Readings'
      BY <3>3, Processes_Step
    <3>. QED
      BY <1>1, <3>1, <3>2, <3>3 DEF Next
  <2>2. HistoryInv'
    BY <1>1, HistoryStep
  <2>. QED
    BY <2>1, <2>2 DEF Inv
<1>2. CASE UNCHANGED vars
  <2>1. TypeOK'
    BY <1>2 DEF TypeOK, vars
  <2>2. CPUInv'
    <3>. UNCHANGED <<kernel, last, calls, whole>>
      BY <1>2 DEF vars
    <3>1. Solitary'
      BY DEF CPUInv, Solitary, InReadCPU
    <3>2. Behind'
      BY DEF CPUInv, Behind, InReadCPU, Grows
    <3>3. Undisturbed'
      BY DEF CPUInv, Undisturbed, At, Grows
    <3>4. StoresAll'
      BY DEF CPUInv, StoresAll, At
    <3>. QED
      BY <3>1, <3>2, <3>3, <3>4 DEF CPUInv
  <2>3. Readings'
    BY <1>2 DEF Inv, Readings, QuietSharesAreSane, MemoryAddsUp, DiskAddsUp,
    CutNamesShiftNumbers, vars
  <2>4. HistoryInv'
    BY <1>2 DEF HistoryInv, History!Newest, vars
  <2>. QED
    BY <2>1, <2>2, <2>3, <2>4 DEF Inv
<1>. QED
  BY <1>1, <1>2

LEMMA InvHolds == Spec => []Inv
BY Init_Inv, Next_Inv, PTL DEF Spec

-----------------------------------------------------------------------------
(* Every reachable state is well typed, however requests interleave and *)
(* whatever they read; in particular no unsigned number is negative.    *)
THEOREM TypeCorrect == Spec => []TypeOK
<1>. Inv => TypeOK
  BY DEF Inv
<1>. QED
  BY InvHolds, PTL

(* A request that read /proc/stat alone, after one that did the same, shows *)
(* at most the whole CPU, whatever raced or failed before the two.          *)
THEOREM QuietIsSane == Spec => []QuietSharesAreSane
<1>. Inv => QuietSharesAreSane
  BY DEF Inv, Readings
<1>. QED
  BY InvHolds, PTL

(* Used and free make up the memory and the swap space, whatever /proc/meminfo *)
(* says, unless it says that more is free than there is.                       *)
THEOREM MemoryIsWhole == Spec => []MemoryAddsUp
<1>. Inv => MemoryAddsUp
  BY DEF Inv, Readings
<1>. QED
  BY InvHolds, PTL

(* A disk is more than full exactly when statfs says that more blocks are free *)
(* or available than there are; otherwise the reserve for root is used space,  *)
(* for a disk and a reserve of any size.                                       *)
THEOREM DisksAreWhole == Spec => []DiskAddsUp
<1>. Inv => DiskAddsUp
  BY DEF Inv, Readings
<1>. QED
  BY InvHolds, PTL

(* A row of the process list takes its numbers from other fields than the row *)
(* of a nameless process exactly when its name is cut, for names of any length. *)
THEOREM CutNamesTell == Spec => []CutNamesShiftNumbers
<1>. Inv => CutNamesShiftNumbers
  BY DEF Inv, Readings
<1>. QED
  BY InvHolds, PTL

(* MetricsHistory implements a log that always shows the newest snapshots. *)
THEOREM HistoryIsALog == Spec => HistorySpec
<1>1. Init => History!Init
  BY DEF Init, History!Init
<1>2. Inv /\ [Next]_vars => [History!Add]_<<log, buffer>>
  BY HistoryStep DEF Inv, vars
<1>. QED
  BY <1>1, <1>2, InvHolds, PTL DEF Spec, HistorySpec, History!Spec

(* Loading and storing leave a request in readCPU, or at the memory. *)
LEMMA LoadGoesOn ==
  ASSUME TypeOK, NEW g \in Requests, NEW f \in Fields, Load(g, f)
  PROVE  \E c \in Call : c.phase # "id" /\ calls' = [calls EXCEPT ![g] = c]
<1>. DEFINE c    == calls[g]
            seen == [c.seen EXCEPT ![f] = last[f]]
            left == c.left \ {f}
            more == [c EXCEPT !.seen = seen, !.left = left]
            done == [c EXCEPT !.phase = "store", !.seen = Zero, !.left = Fields]
<1>1. c \in ReadsCPU /\ c.phase = "load"
  BY Shapes DEF Load, At, InReadCPU
<1>2. seen \in Times
  BY <1>1 DEF ReadsCPU, TypeOK, Times
<1>3. more \in ReadsCPU
  BY <1>1, <1>2 DEF ReadsCPU
<1>4. done \in ReadsCPU
  BY <1>1, ZeroIsTimes DEF ReadsCPU
<1>5. calls' = [calls EXCEPT ![g] = more] \/ calls' = [calls EXCEPT ![g] = done]
  BY DEF Load
<1>. HIDE DEF more, done
<1>. QED
  BY <1>3, <1>4, <1>5, RecordsAreCalls

LEMMA StoreGoesOn ==
  ASSUME TypeOK, NEW g \in Requests, NEW f \in Fields, Store(g, f)
  PROVE  \E c \in Call : c.phase # "id" /\ calls' = [calls EXCEPT ![g] = c]
<1>. DEFINE more == [calls[g] EXCEPT !.left = calls[g].left \ {f}]
<1>1. calls[g] \in ReadsCPU
  BY Shapes DEF Store, At, InReadCPU
<1>2. more \in ReadsCPU
  BY <1>1 DEF ReadsCPU
<1>3. calls' = [calls EXCEPT ![g] = more] \/ calls' = [calls EXCEPT ![g] = [phase |-> "memory"]]
  BY DEF Store, Goto
<1>. HIDE DEF more
<1>. QED
  BY <1>2, <1>3, RecordsAreCalls

(* A user name or number that is cached and is not being looked up again is *)
(* shown for good: a slow failing `id` cannot replace it.                   *)
THEOREM NamesSettle == Spec => SettledNamesStay
<1>1. ASSUME Inv, [Next]_vars, NEW u \in Uids, Settled(u)
      PROVE  Settled(u)' /\ uidCache'[u] = uidCache[u]
  <2>. calls \in [Requests -> Call \cup {Nobody}] /\ uidCache \in [Uids -> {"name", "number", Unknown}]
    BY <1>1 DEF Inv, TypeOK
  <2>. TypeOK
    BY <1>1 DEF Inv
  <2>1. ASSUME uidCache'[u] = uidCache[u],
               \A g \in Requests : At(g, "id")' => At(g, "id") /\ calls'[g].uid = calls[g].uid
        PROVE  Settled(u)' /\ uidCache'[u] = uidCache[u]
    BY <1>1, <2>1 DEF Settled
  <2>2. ASSUME UNCHANGED <<calls, uidCache>>
        PROVE  Settled(u)' /\ uidCache'[u] = uidCache[u]
    BY <1>1, <2>2 DEF Settled, At
  <2>3. ASSUME NEW g \in Requests, NEW c \in Call \cup {Nobody}, c = Nobody \/ c.phase # "id",
               calls' = [calls EXCEPT ![g] = c], uidCache'[u] = uidCache[u]
        PROVE  Settled(u)' /\ uidCache'[u] = uidCache[u]
    <3>1. calls'[g] = c /\ \A h \in Requests \ {g} : calls'[h] = calls[h]
      BY <2>3
    <3>2. ~At(g, "id")'
      BY <2>3, <3>1 DEF At
    <3>3. \A h \in Requests : At(h, "id")' => At(h, "id") /\ calls'[h].uid = calls[h].uid
      BY <3>1, <3>2 DEF At
    <3>. QED
      BY <2>1, <2>3, <3>3
  <2>4. ASSUME NEW g \in Requests, Metrics(g)
        PROVE  Settled(u)' /\ uidCache'[u] = uidCache[u]
    <3>1. CASE Sample(g)
      <4>1. ASSUME NEW h \in Requests, At(h, "id")'
            PROVE  At(h, "id") /\ calls'[h].uid = calls[h].uid
        BY <3>1, <4>1, Shapes DEF Sample, At, InReadCPU, ReadsCPU
      <4>. QED
        BY <2>1, <3>1, <4>1 DEF Sample
    <3>2. ASSUME NEW f \in Fields, Load(g, f)
          PROVE  Settled(u)' /\ uidCache'[u] = uidCache[u]
      BY <2>3, <3>2, LoadGoesOn DEF Load
    <3>3. ASSUME NEW f \in Fields, Store(g, f)
          PROVE  Settled(u)' /\ uidCache'[u] = uidCache[u]
      BY <2>3, <3>3, StoreGoesOn DEF Store
    <3>4. CASE ReadMemory(g) \/ ReadDisks(g)
      BY <2>3, <3>4, RecordsAreCalls DEF ReadMemory, ReadDisks, Goto
    <3>5. CASE Add(g)
      BY <2>3, <3>5 DEF Add
    <3>. QED
      BY <2>4, <3>1, <3>2, <3>3, <3>4, <3>5 DEF Metrics
  <2>5. ASSUME NEW g \in Requests, Processes(g)
        PROVE  Settled(u)' /\ uidCache'[u] = uidCache[u]
    <3>1. CASE ReadStat(g)
      <4>1. CASE UNCHANGED calls
        BY <2>2, <3>1, <4>1 DEF ReadStat
      <4>2. ASSUME NEW v \in Uids, calls' = [calls EXCEPT ![g] = [phase |-> "user", uid |-> v]]
            PROVE  Settled(u)' /\ uidCache'[u] = uidCache[u]
        BY <2>3, <3>1, <4>2, RecordsAreCalls DEF ReadStat
      <4>. QED
        BY <3>1, <4>1, <4>2 DEF ReadStat
    <3>2. CASE UserCached(g)
      BY <2>3, <3>2 DEF UserCached
    <3>3. CASE UserMissed(g)
      <4>1. /\ At(g, "user") /\ calls[g].uid # u
            /\ calls' = [calls EXCEPT ![g] = [calls[g] EXCEPT !.phase = "id"]]
        BY <1>1, <3>3 DEF UserMissed, Hit, Settled
      <4>2. calls'[g].uid = calls[g].uid /\ \A h \in Requests \ {g} : calls'[h] = calls[h]
        BY <4>1, Shapes DEF At, Call, ReadsCPU
      <4>3. \A h \in Requests : At(h, "id")' => calls'[h].uid # u
        BY <1>1, <4>1, <4>2 DEF Settled, At
      <4>. QED
        BY <1>1, <3>3, <4>3 DEF Settled, UserMissed
    <3>4. CASE UserFound(g)
      <4>1. calls[g].uid # u /\ calls[g].uid \in Uids
        BY <1>1, <3>4, Shapes DEF UserFound, Settled
      <4>2. uidCache'[u] = uidCache[u]
        BY <3>4, <4>1 DEF UserFound
      <4>. QED
        BY <2>3, <3>4, <4>2 DEF UserFound
    <3>. QED
      BY <2>5, <3>1, <3>2, <3>3, <3>4 DEF Processes
  <2>6. CASE Tick \/ UNCHANGED vars
    BY <2>2, <2>6 DEF Tick, vars
  <2>. QED
    BY <1>1, <2>4, <2>5, <2>6 DEF Next
<1>2. Inv /\ [Next]_vars =>
        [\A u \in Uids : Settled(u) => Settled(u)' /\ uidCache'[u] = uidCache[u]]_vars
  BY <1>1
<1>. QED
  BY <1>2, InvHolds, PTL DEF Spec, SettledNamesStay
=============================================================================
