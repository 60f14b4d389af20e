---------------------------- MODULE RateLimiter ----------------------------
(***************************************************************************)
(* The per-client rate limiter of internal/middleware/middleware.go, with  *)
(* the requests that go through it at the same time.                       *)
(*                                                                         *)
(* `allow` reads the clock BEFORE it takes the mutex, so a request decides *)
(* with a stamp that may be old by the time it holds the lock: the reading *)
(* and the decision are two steps here, and the clock may move between     *)
(* them.  Everything under the mutex is one step.                          *)
(***************************************************************************)
EXTENDS Integers, FiniteSets

CONSTANTS
  Requests,    \* goroutines serving requests, one at a time each
  Clients,     \* the keys: client IPs
  Limit,       \* rl.limit
  Window,      \* rl.window, in ticks of the clock
  Horizon,     \* bound: the last tick of the clock
  NoEntry,     \* the map has no such key
  Nobody       \* the goroutine is not in `allow`

Entry == [count : Nat, windowStart : Nat]         \* requestInfo
Call  == [client : Clients, now : Nat]            \* allow(key), after time.Now()
Grant == [window : Nat, nth : Nat, stamp : Nat, at : Nat]

(* NewRateLimiter replaces a limit or a window that is not positive by a default. *)
ASSUME LimitIsPositive  == Limit \in Nat \ {0}
ASSUME WindowIsPositive == Window \in Nat \ {0}
ASSUME HorizonIsANumber == Horizon \in Nat
ASSUME NoEntryIsNone    == NoEntry \notin Entry
ASSUME NobodyIsNone     == Nobody \notin Call

VARIABLES
  clock,       \* the wall clock
  entries,     \* rl.entries; nothing ever removes a key
  calls,       \* what each goroutine inside `allow` has read before locking
  granted      \* history: every request ever let through; no action reads it

vars == <<clock, entries, calls, granted>>

-----------------------------------------------------------------------------
(* A request reads the clock, before rl.mu.Lock(). *)
Arrive(r, c) ==
  /\ calls[r] = Nobody
  /\ calls' = [calls EXCEPT ![r] = [client |-> c, now |-> clock]]
  /\ UNCHANGED <<clock, entries, granted>>

(* A plausible slip: a request stamped before the window opens another one. *)
RunningInOrder(c, now) ==
  entries[c] # NoEntry /\ entries[c].windowStart <= now /\ now - entries[c].windowStart < Window

(* A plausible slip: a window that has just ended counts as running. *)
RunningLong(c, now) == entries[c] # NoEntry /\ now - entries[c].windowStart <= Window

(* The client's window has not ended.  For a stamp older than the window's *)
(* start the difference is negative, and the request counts in it.         *)
Running(c, now) == entries[c] # NoEntry /\ now - entries[c].windowStart < Window

(* A plausible slip: the count is tested before it is incremented. *)
FitsBefore(n) == n - 1 <= Limit

Fits(n) == n <= Limit

(* A plausible slip: the window starts when it would have to end. *)
BackdatedEntry(t) == [count |-> 1, windowStart |-> t - Window]

FreshEntry(t) == [count |-> 1, windowStart |-> t]

Record(c, window, nth, stamp) ==
  granted' = [granted EXCEPT ![c] =
                @ \cup {[window |-> window, nth |-> nth, stamp |-> stamp, at |-> clock]}]

Leave(r) == calls' = [calls EXCEPT ![r] = Nobody]

(* The rest of `allow`, under the mutex.  It opens a window ... *)
Open(r) ==
  LET c == calls[r].client
      t == calls[r].now IN
  /\ calls[r] # Nobody
  /\ ~Running(c, t)
  /\ entries' = [entries EXCEPT ![c] = FreshEntry(t)]
  /\ Record(c, t, 1, t)
  /\ Leave(r)
  /\ UNCHANGED clock

(* ... or counts the request in the one that runs, and lets it through ... *)
Accept(r) ==
  LET c == calls[r].client
      n == entries[c].count + 1 IN
  /\ calls[r] # Nobody
  /\ Running(c, calls[r].now)
  /\ Fits(n)
  /\ entries' = [entries EXCEPT ![c].count = n]
  /\ Record(c, entries[c].windowStart, n, calls[r].now)
  /\ Leave(r)
  /\ UNCHANGED clock

(* ... or not.  A refused request has been counted; the bound is that the  *)
(* count stops at the first one too many, as no decision depends on more.  *)
Refuse(r) ==
  LET c == calls[r].client
      n == entries[c].count + 1 IN
  /\ calls[r] # Nobody
  /\ Running(c, calls[r].now)
  /\ ~Fits(n)
  /\ entries' = [entries EXCEPT ![c].count = IF Fits(@) THEN n ELSE @]
  /\ Leave(r)
  /\ UNCHANGED <<clock, granted>>

Tick ==
  /\ clock < Horizon
  /\ clock' = clock + 1
  /\ UNCHANGED <<entries, calls, granted>>

Init ==
  /\ clock = 0
  /\ entries = [c \in Clients |-> NoEntry]
  /\ calls = [r \in Requests |-> Nobody]
  /\ granted = [c \in Clients |-> {}]

Next ==
  \/ \E r \in Requests, c \in Clients : Arrive(r, c)
  \/ \E r \in Requests : Open(r) \/ Accept(r) \/ Refuse(r)
  \/ Tick

Spec == Init /\ [][Next]_vars

-----------------------------------------------------------------------------
(* Properties. *)

TypeOK ==
  /\ clock \in Nat
  /\ entries \in [Clients -> Entry \cup {NoEntry}]
  /\ calls \in [Requests -> Call \cup {Nobody}]
  /\ granted \in [Clients -> SUBSET Grant]

(* The requests let through in the last Window ticks ... *)
Recent(c) == {g \in granted[c] : g.at > clock - Window}

(* ... and those decided in the tick they were stamped in: no wait for the mutex. *)
Prompt(c) == {g \in Recent(c) : g.stamp = g.at}

(* A fixed window lets a client through at most twice its limit within any
   Window ticks: the end of one window and the start of the next. *)
BurstBound == \A c \in Clients : Cardinality(Prompt(c)) <= 2 * Limit

(* However long its requests wait for the mutex, no window of a client ever
   lets through more than the limit: one let through on a stamp older than a
   whole window, long after its window has ended, is counted too. *)
WindowBound ==
  \A c \in Clients : \A g \in granted[c] :
    Cardinality({h \in granted[c] : h.window = g.window}) <= Limit

(* A prompt request is refused only when Limit requests of the same client
   were let through during the last Window ticks: refused requests do not
   prolong the wait, and no client pays for another one's. *)
RefusalsAreEarned ==
  [][\A r \in Requests :
       (Refuse(r) /\ calls[r].now = clock)
         => Cardinality(Recent(calls[r].client)) >= Limit]_vars

(* middleware.go:87 "implements a sliding-window rate limiter per IP": within
   any Window ticks a client gets at most Limit requests through. *)
SlidingWindow == \A c \in Clients : Cardinality(Prompt(c)) <= Limit
=============================================================================
