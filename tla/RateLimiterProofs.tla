------------------------- MODULE RateLimiterProofs -------------------------
(***************************************************************************)
(* For any limit, window and number of concurrent requests: no window lets *)
(* through more than the limit, any Window ticks let through at most twice *)
(* the limit, and a refusal is always earned.                              *)
(***************************************************************************)
EXTENDS RateLimiter, FiniteSetTheorems, TLAPS

(* What the limiter's entry says of the requests it has let through.        *)

(* Windows of a client follow each other, a Window or more apart. *)
WindowsApart(c) ==
  \A g \in granted[c] :
    /\ entries[c] # NoEntry
    /\ g.window = entries[c].windowStart \/ g.window + Window <= entries[c].windowStart
    /\ \A h \in granted[c] : g.window < h.window => g.window + Window <= h.window

(* The requests of one window are numbered 1, 2, ... up to its count. *)
Numbered(c) ==
  \A g \in granted[c] :
    /\ g.nth \in 1 .. Limit
    /\ g.window = entries[c].windowStart => g.nth <= entries[c].count
    /\ \A h \in granted[c] : (g.window = h.window /\ g.nth = h.nth) => g = h

(* A request is let through after its window started, on a stamp before the end. *)
InTime(c) ==
  \A g \in granted[c] :
    /\ g.window <= g.at /\ g.at <= clock
    /\ g.stamp < g.window + Window

(* While a window runs, each request it counted up to Limit was let through. *)
Complete(c) ==
  (entries[c] # NoEntry /\ clock < entries[c].windowStart + Window) =>
    \A n \in 1 .. Limit : n <= entries[c].count =>
      \E g \in granted[c] : g.window = entries[c].windowStart /\ g.nth = n

(* Nothing read from the clock is ahead of it. *)
NoFuture ==
  /\ \A r \in Requests : calls[r] # Nobody => calls[r].now <= clock
  /\ \A c \in Clients : entries[c] # NoEntry => entries[c].windowStart <= clock
                                                /\ entries[c].count >= 1

Inv == /\ TypeOK
       /\ NoFuture
       /\ \A c \in Clients : /\ IsFiniteSet(granted[c])
                             /\ WindowsApart(c)
                             /\ Numbered(c)
                             /\ InTime(c)
                             /\ Complete(c)

(* One client's part of the invariant depends on its own entry and grants. *)
ClientInv(c) == /\ IsFiniteSet(granted[c])
                /\ WindowsApart(c)
                /\ Numbered(c)
                /\ InTime(c)
                /\ Complete(c)

LEMMA Others ==
  ASSUME NEW c \in Clients, ClientInv(c), clock' = clock,
         entries'[c] = entries[c], granted'[c] = granted[c]
  PROVE  ClientInv(c)'
BY DEF ClientInv, WindowsApart, Numbered, InTime, Complete

LEMMA InvInit == Init => Inv
BY FS_EmptySet DEF Init, Inv, TypeOK, NoFuture, WindowsApart, Numbered, InTime, Complete

LEMMA OpenStep ==
  ASSUME Inv, NEW r \in Requests, Open(r) PROVE Inv'
<1>0. PICK c \in Clients, t \in Nat : calls[r].client = c /\ calls[r].now = t
  BY NobodyIsNone DEF Open, Inv, TypeOK, Call
<1>a. PICK at \in Nat : at = clock
  BY DEF Inv, TypeOK
<1> DEFINE new == [window |-> t, nth |-> 1, stamp |-> t, at |-> at]
<1>1. t <= clock /\ clock \in Nat
  BY <1>0 DEF Open, Inv, TypeOK, NoFuture
<1>2. /\ entries' = [entries EXCEPT ![c] = FreshEntry(t)]
      /\ granted' = [granted EXCEPT ![c] = @ \cup {new}]
      /\ calls' = [calls EXCEPT ![r] = Nobody]
      /\ clock' = clock
      /\ ~Running(c, t)
  BY <1>0, <1>a DEF Open, Record, Leave
<1>3. new \in Grant /\ FreshEntry(t) \in Entry
  BY <1>1 DEF Grant, FreshEntry, Entry
<1>4. TypeOK'
  BY <1>1, <1>2, <1>3 DEF Inv, TypeOK
<1>5. NoFuture'
  BY <1>1, <1>2 DEF Inv, TypeOK, NoFuture, FreshEntry
<1>6. entries'[c] = FreshEntry(t) /\ entries'[c] # NoEntry /\ granted'[c] = granted[c] \cup {new}
  BY <1>1, <1>2, <1>3, NoEntryIsNone DEF Inv, TypeOK
<1>7. \A g \in granted[c] : g \in Grant /\ g.window + Window <= t
  <2>1. entries[c] = NoEntry \/ (entries[c] \in Entry /\ t - entries[c].windowStart >= Window)
    BY <1>1, <1>2, WindowIsPositive DEF Running, Inv, TypeOK, Entry
  <2>2. \A g \in granted[c] : g \in Grant /\ entries[c] # NoEntry
                              /\ g.window <= entries[c].windowStart
    BY <1>1, WindowIsPositive DEF Inv, TypeOK, WindowsApart, Grant, Entry
  <2> QED
    BY <1>1, <2>1, <2>2, WindowIsPositive DEF Grant, Entry
<1>8. ClientInv(c)'
  <2>1. IsFiniteSet(granted'[c])
    BY <1>1, <1>6, FS_AddElement DEF Inv
  <2>2. WindowsApart(c)'
    BY <1>1, <1>6, <1>7, WindowIsPositive DEF Inv, WindowsApart, FreshEntry, Grant
  <2>3. Numbered(c)'
    BY <1>1, <1>6, <1>7, WindowIsPositive, LimitIsPositive DEF Inv, Numbered, FreshEntry, Grant
  <2>4. InTime(c)'
    BY <1>1, <1>a, <1>2, <1>6, <1>7, WindowIsPositive DEF Inv, InTime, Grant
  <2>5. Complete(c)'
    <3>1. new \in granted'[c] /\ new.window = entries'[c].windowStart /\ new.nth = 1
      BY <1>6 DEF FreshEntry
    <3>2. \A n \in 1 .. Limit : n <= entries'[c].count => n = 1
      BY <1>6, LimitIsPositive DEF FreshEntry
    <3> QED
      BY <3>1, <3>2 DEF Complete
  <2> QED
    BY <2>1, <2>2, <2>3, <2>4, <2>5 DEF ClientInv
<1>9. ASSUME NEW d \in Clients, d # c PROVE ClientInv(d)'
  <2>1. ClientInv(d) /\ entries'[d] = entries[d] /\ granted'[d] = granted[d]
    BY <1>2, <1>9 DEF Inv, TypeOK, ClientInv
  <2> QED
    BY <1>2, <2>1, Others
<1> QED
  BY <1>4, <1>5, <1>8, <1>9 DEF Inv, ClientInv
LEMMA AcceptStep ==
  ASSUME Inv, NEW r \in Requests, Accept(r) PROVE Inv'
<1>0. PICK c \in Clients, t \in Nat : calls[r].client = c /\ calls[r].now = t
  BY NobodyIsNone DEF Accept, Inv, TypeOK, Call
<1>a. PICK at \in Nat : at = clock
  BY DEF Inv, TypeOK
<1>b. /\ entries[c] # NoEntry /\ entries[c] \in Entry
      /\ t - entries[c].windowStart < Window
  BY <1>0 DEF Accept, Running, Inv, TypeOK
<1>c. PICK ws \in Nat, n \in Nat : ws = entries[c].windowStart /\ n = entries[c].count + 1
  BY <1>b DEF Entry
<1> DEFINE new == [window |-> ws, nth |-> n, stamp |-> t, at |-> at]
           e   == [entries[c] EXCEPT !.count = n]
<1>1. t <= clock /\ clock \in Nat /\ ws <= clock /\ n \in 1 .. Limit /\ n >= 2
  BY <1>0, <1>b, <1>c, LimitIsPositive DEF Accept, Fits, Inv, TypeOK, NoFuture, Entry
<1>2. /\ entries' = [entries EXCEPT ![c] = e]
      /\ granted' = [granted EXCEPT ![c] = @ \cup {new}]
      /\ calls' = [calls EXCEPT ![r] = Nobody]
      /\ clock' = clock
  BY <1>0, <1>a, <1>c DEF Accept, Record, Leave
<1>3. new \in Grant /\ e \in Entry /\ e.windowStart = ws /\ e.count = n
  BY <1>1, <1>b, <1>c DEF Grant, Entry
<1> HIDE DEF e
<1>4. TypeOK'
  BY <1>1, <1>2, <1>3 DEF Inv, TypeOK
<1>5. NoFuture'
  BY <1>1, <1>2, <1>3 DEF Inv, TypeOK, NoFuture
<1>6. entries'[c] = e /\ e # NoEntry /\ granted'[c] = granted[c] \cup {new}
  BY <1>1, <1>2, <1>3, NoEntryIsNone DEF Inv, TypeOK
<1>7. \A g \in granted[c] : g \in Grant /\ g.window <= ws
  BY <1>b, <1>c, WindowIsPositive DEF Inv, TypeOK, WindowsApart, Grant
<1>8. ClientInv(c)'
  <2>1. IsFiniteSet(granted'[c])
    BY <1>1, <1>6, FS_AddElement DEF Inv
  <2>2. WindowsApart(c)'
    BY <1>1, <1>3, <1>6, <1>7, <1>c, WindowIsPositive DEF Inv, WindowsApart, Grant
  <2>3. Numbered(c)'
    BY <1>1, <1>3, <1>6, <1>7, <1>b, <1>c, LimitIsPositive DEF Inv, Numbered, Grant, Entry
  <2>4. InTime(c)'
    BY <1>1, <1>a, <1>b, <1>c, <1>2, <1>6, <1>7, WindowIsPositive DEF Inv, InTime, Grant, Entry
  <2>5. Complete(c)'
    <3>1. new \in granted'[c] /\ new.window = entries'[c].windowStart /\ new.nth = n
      BY <1>3, <1>6
    <3>2. \A m \in 1 .. Limit : m <= entries'[c].count => m = n \/ m <= entries[c].count
      BY <1>3, <1>6, <1>b, <1>c, LimitIsPositive DEF Entry
    <3> QED
      BY <1>2, <1>3, <1>6, <1>b, <1>c, <3>1, <3>2 DEF Complete, Inv
  <2> QED
    BY <2>1, <2>2, <2>3, <2>4, <2>5 DEF ClientInv
<1>9. ASSUME NEW d \in Clients, d # c PROVE ClientInv(d)'
  <2>1. ClientInv(d) /\ entries'[d] = entries[d] /\ granted'[d] = granted[d]
    BY <1>2, <1>9 DEF Inv, TypeOK, ClientInv
  <2> QED
    BY <1>2, <2>1, Others
<1> QED
  BY <1>4, <1>5, <1>8, <1>9 DEF Inv, ClientInv

LEMMA RefuseStep ==
  ASSUME Inv, NEW r \in Requests, Refuse(r) PROVE Inv'
<1>0. PICK c \in Clients : calls[r].client = c
  BY NobodyIsNone DEF Refuse, Inv, TypeOK, Call
<1>1. entries[c] \in Entry
  BY <1>0 DEF Refuse, Running, Inv, TypeOK
<1>2. PICK m \in Nat :
        /\ entries' = [entries EXCEPT ![c].count = m]
        /\ m = entries[c].count \/ m = entries[c].count + 1
        /\ entries[c].count <= m
        /\ entries[c].count >= Limit
  <2> DEFINE n == entries[c].count
             k == IF Fits(n) THEN n + 1 ELSE n
  <2>1. n \in Nat /\ n >= Limit
    BY <1>0, <1>1, LimitIsPositive DEF Refuse, Fits, Entry
  <2>2. k \in Nat /\ (k = n \/ k = n + 1) /\ n <= k
    BY <2>1
  <2>3. entries' = [entries EXCEPT ![c].count = k]
    BY <1>0 DEF Refuse
  <2> QED
    BY <2>1, <2>2, <2>3
<1>3. calls' = [calls EXCEPT ![r] = Nobody] /\ clock' = clock /\ granted' = granted
  BY DEF Refuse, Leave
<1> DEFINE e == [entries[c] EXCEPT !.count = m]
<1>4. e \in Entry /\ e.windowStart = entries[c].windowStart /\ e.count = m
  BY <1>1 DEF Entry
<1>5. entries'[c] = e /\ entries' = [entries EXCEPT ![c] = e] /\ e # NoEntry
  BY <1>2, <1>4, NoEntryIsNone DEF Inv, TypeOK
<1> HIDE DEF e
<1>6. TypeOK'
  BY <1>3, <1>4, <1>5 DEF Inv, TypeOK
<1>7. NoFuture'
  BY <1>1, <1>2, <1>3, <1>4, <1>5, NoEntryIsNone DEF Inv, TypeOK, NoFuture, Entry
<1>8. ClientInv(c)'
  <2>1. entries[c] # NoEntry
    BY <1>1, NoEntryIsNone
  <2>2. WindowsApart(c)' /\ InTime(c)'
    BY <1>3, <1>4, <1>5, <2>1 DEF Inv, WindowsApart, InTime
  <2>3. Numbered(c)'
    BY <1>1, <1>2, <1>3, <1>4, <1>5, LimitIsPositive DEF Inv, TypeOK, Numbered, Grant, Entry
  <2>4. Complete(c)'
    <3>1. \A n \in 1 .. Limit : n <= entries[c].count
      BY <1>1, <1>2, LimitIsPositive DEF Entry
    <3> QED
      BY <1>3, <1>4, <1>5, <2>1, <3>1 DEF Inv, Complete
  <2> QED
    BY <1>3, <2>2, <2>3, <2>4 DEF Inv, ClientInv
<1>9. ASSUME NEW d \in Clients, d # c PROVE ClientInv(d)'
  <2>1. ClientInv(d) /\ entries'[d] = entries[d] /\ granted'[d] = granted[d]
    BY <1>3, <1>5, <1>9 DEF Inv, TypeOK, ClientInv
  <2> QED
    BY <1>3, <2>1, Others
<1> QED
  BY <1>6, <1>7, <1>8, <1>9 DEF Inv, ClientInv

(* A tick only ages what was let through, and may end a window. *)
LEMMA TickStep ==
  ASSUME Inv, Tick PROVE Inv'
<1>1. /\ clock \in Nat /\ clock' = clock + 1
      /\ entries' = entries /\ calls' = calls /\ granted' = granted
  BY DEF Tick, Inv, TypeOK
<1>2. TypeOK' /\ NoFuture'
  <2>1. \A r \in Requests : calls[r] # Nobody => calls[r].now \in Nat
    BY NobodyIsNone DEF Inv, TypeOK, Call
  <2>2. \A c \in Clients : entries[c] # NoEntry => entries[c].windowStart \in Nat
    BY NoEntryIsNone DEF Inv, TypeOK, Entry
  <2>3. TypeOK'
    BY <1>1 DEF Inv, TypeOK
  <2>4. NoFuture'
    BY <1>1, <2>1, <2>2 DEF Inv, NoFuture
  <2> QED
    BY <2>3, <2>4
<1>3. ASSUME NEW c \in Clients PROVE ClientInv(c)'
  <2>1. IsFiniteSet(granted'[c]) /\ WindowsApart(c)' /\ Numbered(c)'
    BY <1>1 DEF Inv, WindowsApart, Numbered
  <2>2. InTime(c)'
    BY <1>1 DEF Inv, TypeOK, InTime, Grant
  <2>3. Complete(c)'
    <3>1. entries[c] # NoEntry => entries[c].windowStart \in Nat
      BY NoEntryIsNone DEF Inv, TypeOK, Entry
    <3> QED
      BY <1>1, <3>1, WindowIsPositive DEF Inv, Complete
  <2> QED
    BY <2>1, <2>2, <2>3 DEF ClientInv
<1> QED
  BY <1>2, <1>3 DEF Inv, ClientInv

(* The invariant of every reachable state, for any limit and window. *)
THEOREM Invariant == Spec => []Inv
<1>1. Inv /\ [Next]_vars => Inv'
  <2> SUFFICES ASSUME Inv, [Next]_vars PROVE Inv'
    OBVIOUS
  <2>1. ASSUME NEW r \in Requests, NEW c \in Clients, Arrive(r, c) PROVE Inv'
    <3>1. [client |-> c, now |-> clock] \in Call
      BY DEF Inv, TypeOK, Call
    <3>2. TypeOK' /\ NoFuture'
      BY <2>1, <3>1 DEF Arrive, Inv, TypeOK, NoFuture
    <3>3. \A d \in Clients : ClientInv(d)'
      BY <2>1, Others DEF Arrive, Inv, ClientInv
    <3> QED
      BY <3>2, <3>3 DEF Inv, ClientInv
  <2>2. CASE UNCHANGED vars
    BY <2>2 DEF vars, Inv, TypeOK, NoFuture, WindowsApart, Numbered, InTime, Complete
  <2> QED
    BY <2>1, <2>2, OpenStep, AcceptStep, RefuseStep, TickStep DEF Next
<1> QED
  BY <1>1, InvInit, PTL DEF Spec

-----------------------------------------------------------------------------
(* What a reader should know of. *)

(* Every reachable state is of its type. *)
THEOREM TypeCorrect == Spec => []TypeOK
<1>1. Inv => TypeOK
  BY DEF Inv
<1> QED
  BY <1>1, Invariant, PTL

(* Requests let through in one window are told apart by a number up to Limit. *)
LEMMA OneWindow ==
  ASSUME Inv, NEW c \in Clients, NEW S \in SUBSET granted[c],
         \A g \in S, h \in S : g.window = h.window
  PROVE  IsFiniteSet(S) /\ Cardinality(S) \in Nat /\ Cardinality(S) <= Limit
<1> DEFINE nth == [g \in S |-> g.nth]
<1>1. nth \in [S -> 1 .. Limit]
  BY DEF Inv, Numbered
<1>2. \A g \in S, h \in S : nth[g] = nth[h] => g = h
  BY DEF Inv, Numbered
<1>3. nth \in Injection(S, 1 .. Limit)
  BY <1>1, <1>2 DEF Injection, IsInjective
<1>4. IsFiniteSet(1 .. Limit) /\ Cardinality(1 .. Limit) = Limit
  BY FS_Interval, LimitIsPositive
<1>5. IsFiniteSet(S) /\ Cardinality(S) <= Limit
  BY <1>3, <1>4, FS_Injection
<1> QED
  BY <1>5, FS_CardinalityType

(* No window of a client lets through more than the limit, in its whole
   history and however old the stamps of its requests are. *)
THEOREM WindowsAreBounded == Spec => []WindowBound
<1>1. Inv => WindowBound
  BY OneWindow DEF WindowBound
<1> QED
  BY <1>1, Invariant, PTL

(* Any Window ticks let through at most twice the limit: prompt requests of  *)
(* that time belong to the current window or to one and the same before it. *)
THEOREM BurstsAreBounded == Spec => []BurstBound
<1>1. Inv => BurstBound
  <2> SUFFICES ASSUME Inv, NEW c \in Clients PROVE Cardinality(Prompt(c)) <= 2 * Limit
    BY DEF BurstBound
  <2> DEFINE ws == entries[c].windowStart
             A  == {g \in Prompt(c) : g.window = ws}
             B  == {g \in Prompt(c) : g.window # ws}
  <2>1. \A g \in Prompt(c) : /\ g \in granted[c] /\ g \in Grant
                             /\ g.at < g.window + Window /\ clock - Window < g.at
    BY DEF Prompt, Recent, Inv, TypeOK, InTime
  <2>2. \A g \in B : g.window + Window <= ws /\ ws \in Nat /\ ws <= clock
    BY <2>1, NoEntryIsNone DEF Inv, TypeOK, WindowsApart, NoFuture, Entry
  <2>3. \A g \in B, h \in B : g.window = h.window
    <3> SUFFICES ASSUME NEW g \in B, NEW h \in B, g.window < h.window PROVE FALSE
      BY <2>1 DEF Grant
    <3>1. g.window + Window <= h.window
      BY <2>1 DEF Inv, WindowsApart
    <3>2. clock \in Nat /\ h.window + Window <= clock /\ clock - Window < g.window + Window
      BY <2>1, <2>2, WindowIsPositive DEF Grant, Inv, TypeOK
    <3> QED
      BY <2>1, <3>1, <3>2, WindowIsPositive DEF Grant
  <2>4. /\ IsFiniteSet(A) /\ Cardinality(A) \in Nat /\ Cardinality(A) <= Limit
        /\ IsFiniteSet(B) /\ Cardinality(B) \in Nat /\ Cardinality(B) <= Limit
    BY <2>1, <2>3, OneWindow
  <2>5. Prompt(c) = A \cup B
    OBVIOUS
  <2>6. IsFiniteSet(A \cap B) /\ Cardinality(A \cap B) \in Nat
    BY <2>4, FS_Intersection, FS_CardinalityType
  <2>7. Cardinality(A \cup B) = Cardinality(A) + Cardinality(B) - Cardinality(A \cap B)
    BY <2>4, FS_Union
  <2> HIDE DEF A, B
  <2> QED
    BY <2>4, <2>5, <2>6, <2>7, LimitIsPositive
<1> QED
  BY <1>1, Invariant, PTL

(* A prompt refusal comes after Limit grants to the same client in the last
   Window ticks. *)
THEOREM Refusals == Spec => RefusalsAreEarned
<1>1. Inv /\ [Next]_vars =>
        [\A r \in Requests : (Refuse(r) /\ calls[r].now = clock)
            => Cardinality(Recent(calls[r].client)) >= Limit]_vars
  <2> SUFFICES ASSUME Inv, NEW r \in Requests, Refuse(r), calls[r].now = clock
               PROVE  Cardinality(Recent(calls[r].client)) >= Limit
    OBVIOUS
  <2>1. PICK c \in Clients : calls[r].client = c
    BY NobodyIsNone DEF Refuse, Inv, TypeOK, Call
  <2>2. /\ entries[c] # NoEntry /\ entries[c] \in Entry
        /\ clock < entries[c].windowStart + Window
        /\ entries[c].count >= Limit
    BY <2>1, LimitIsPositive, WindowIsPositive DEF Refuse, Running, Fits, Inv, TypeOK, Entry
  <2> DEFINE T   == {g \in granted[c] : g.window = entries[c].windowStart}
             nth == [g \in T |-> g.nth]
  <2>3. nth \in [T -> 1 .. Limit]
    BY DEF Inv, Numbered
  <2>4. \A n \in 1 .. Limit : \E g \in T : nth[g] = n
    BY <2>2, LimitIsPositive DEF Inv, Complete, Entry
  <2>5. nth \in Surjection(T, 1 .. Limit)
    BY <2>3, <2>4 DEF Surjection
  <2>a. \A g \in T : g.at > clock - Window
    BY <2>2, WindowIsPositive DEF Inv, TypeOK, InTime, Entry, Grant
  <2>6. IsFiniteSet(Recent(c)) /\ T \in SUBSET Recent(c)
    <3>1. IsFiniteSet(granted[c]) /\ Recent(c) \in SUBSET granted[c]
      BY DEF Inv, Recent
    <3> QED
      BY <2>a, <3>1, FS_Subset DEF Recent
  <2>7. IsFiniteSet(T) /\ Cardinality(T) <= Cardinality(Recent(c))
    BY <2>6, FS_Subset
  <2>8. Cardinality(1 .. Limit) <= Cardinality(T)
    BY <2>5, <2>7, FS_Surjection
  <2>9. Cardinality(1 .. Limit) = Limit
    BY FS_Interval, LimitIsPositive
  <2>10. Cardinality(T) \in Nat /\ Cardinality(Recent(c)) \in Nat
    BY <2>6, <2>7, FS_CardinalityType
  <2> HIDE DEF T
  <2> QED
    BY <2>1, <2>7, <2>8, <2>9, <2>10, LimitIsPositive
<1> QED
  BY <1>1, Invariant, PTL DEF Spec, RefusalsAreEarned

=============================================================================
