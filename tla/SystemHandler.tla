--------------------------- MODULE SystemHandler ---------------------------
(***************************************************************************)
(* The metrics and process endpoints of internal/handlers/                 *)
(* system_handler.go, served by concurrent goroutines.                     *)
(*                                                                         *)
(* readCPU compares /proc/stat with the package variable lastCPUTime and   *)
(* replaces it without a lock: its fields are loaded and stored one by one *)
(* here, in any order.  MetricsHistory has a mutex and uidCache is a       *)
(* sync.Map; what a request keeps to itself between two of them is one     *)
(* step.  A counter is a number modulo Modulus, a percentage a fraction.   *)
(***************************************************************************)
EXTENDS Integers, Sequences, FiniteSets

CONSTANTS
  Requests,      \* goroutines, each serving one request at a time
  Modulus,       \* 2^64
  HistorySize,   \* MetricsHistory.max
  Uids,          \* owners of processes
  MaxTicks,      \* bound: the CPU time accounted for
  MaxRequests,   \* bound: the Metrics requests served
  MaxSize,       \* bound: the size of a memory or a disk
  MaxName,       \* bound: the length of a process's name, 15 on Linux
  Nobody,        \* the goroutine serves no request
  Unknown        \* no such key in uidCache

ASSUME SizesArePositive == HistorySize \in Nat \ {0} /\ Modulus \in Nat \ {0}
ASSUME CountersFit      == MaxTicks \in Nat /\ MaxTicks < Modulus
ASSUME SizesFit         == MaxSize \in Nat /\ 2 * MaxSize + 1 < Modulus

Fields == {"column", "total"}            \* one of the columns shown, the sum of all
Times  == [Fields -> 0 .. Modulus - 1]   \* cpuTimes
Zero   == [f \in Fields |-> 0]

(* A request in readCPU, in the rest of Metrics, or at the user of a process. *)
ReadsCPU == [phase : {"load", "store"}, t : Times, seen : Times, left : SUBSET Fields,
             alone : BOOLEAN,     \* no other request has been in readCPU with it
             clean : BOOLEAN]     \* it has read /proc/stat, and found `whole`
Call == ReadsCPU \cup [phase : {"memory", "disks", "add"}] \cup [phase : {"user", "id"}, uid : Uids]

ASSUME NamesHaveLength == MaxName \in Nat
ASSUME NobodyIsNone   == Nobody \notin Call
ASSUME UnknownIsNone  == Unknown \notin {"name", "number"}

VARIABLES
  kernel,        \* the first line of /proc/stat
  last,          \* lastCPUTime
  calls,         \* what each goroutine is doing
  buffer,        \* MetricsHistory.buffer; a snapshot is the request that took it
  uidCache,
  reading,       \* what the last step has computed, for its caller or for the answer
  log,           \* history: every snapshot ever added
  whole          \* history: last is what one request, alone in readCPU, has stored

vars == <<kernel, last, calls, buffer, uidCache, reading, log, whole>>

Nothing == [kind |-> "none"]

(* A plausible slip: signed differences. *)
SignedMinus(a, b) == a - b

Minus(a, b) == (a - b) % Modulus

InReadCPU(g) == calls[g] # Nobody /\ calls[g].phase \in {"load", "store"}
At(g, phase) == calls[g] # Nobody /\ calls[g].phase = phase
Goto(g, phase) == calls' = [calls EXCEPT ![g] = [phase |-> phase]]

-----------------------------------------------------------------------------
(* The CPU: a tick goes to one of the columns of /proc/stat. *)
Tick ==
  /\ kernel["total"] < MaxTicks
  /\ \E f \in Fields :     \* "total" alone: some other column
       kernel' = [c \in Fields |-> IF c \in {f, "total"} THEN kernel[c] + 1 ELSE kernel[c]]
  /\ reading' = Nothing
  /\ UNCHANGED <<last, calls, buffer, uidCache, log, whole>>

(* Metrics calls readCPU, which reads /proc/stat; all zeros if it cannot. *)
Sample(g) ==
  /\ calls[g] = Nobody
  /\ Len(log) + Cardinality({h \in Requests : calls[h] # Nobody}) < MaxRequests
  /\ \E t \in {kernel, Zero} :
       calls' = [h \in Requests |->
         IF h = g THEN [phase |-> "load", t |-> t, seen |-> Zero, left |-> Fields,
                        alone |-> \A i \in Requests : ~InReadCPU(i),
                        clean |-> whole /\ t = kernel]
         ELSE IF InReadCPU(h) THEN [calls[h] EXCEPT !.alone = FALSE]
         ELSE calls[h]]
  /\ reading' = Nothing
  /\ UNCHANGED <<kernel, last, buffer, uidCache, log, whole>>

(* The fraction share/of of one column; zero when no time has passed. *)
CPUStats(t, old) ==
  IF t["total"] = old["total"] THEN [share |-> 0, of |-> 1]
  ELSE [share |-> Minus(t["column"], old["column"]), of |-> Minus(t["total"], old["total"])]

(* One field of lastCPUTime is loaded; after the last one the result is known. *)
Load(g, f) ==
  /\ At(g, "load")
  /\ f \in calls[g].left
  /\ LET seen == [calls[g].seen EXCEPT ![f] = last[f]]
         left == calls[g].left \ {f} IN
     IF left # {}
     THEN /\ calls' = [calls EXCEPT ![g].seen = seen, ![g].left = left]
          /\ reading' = Nothing
     ELSE /\ calls' = [calls EXCEPT ![g].phase = "store", ![g].seen = Zero, ![g].left = Fields]
          /\ reading' = [kind |-> "cpu", cpu |-> CPUStats(calls[g].t, seen),
                         clean |-> calls[g].alone /\ calls[g].clean]
  /\ UNCHANGED <<kernel, last, buffer, uidCache, log, whole>>

(* A plausible slip: the column is not stored. *)
StoredTotal(g, f) == IF f = "column" THEN last[f] ELSE calls[g].t[f]

Stored(g, f) == calls[g].t[f]

(* lastCPUTime = t, field by field. *)
Store(g, f) ==
  /\ At(g, "store")
  /\ f \in calls[g].left
  /\ last' = [last EXCEPT ![f] = Stored(g, f)]
  /\ LET left == calls[g].left \ {f} IN
     IF left # {}
     THEN calls' = [calls EXCEPT ![g].left = left] /\ whole' = FALSE
     ELSE Goto(g, "memory") /\ whole' = calls[g].alone
  /\ reading' = Nothing
  /\ UNCHANGED <<kernel, buffer, uidCache, log>>

-----------------------------------------------------------------------------
(* Memory and disks. *)
Usage(total, free) == [total |-> total, used |-> Minus(total, free), free |-> free]

(* A plausible slip: an old kernel without MemAvailable has no memory left. *)
AvailableOnly(m) == m.available

(* Kernels before 3.14 have no MemAvailable. *)
Available(m) == IF m.available = 0 THEN (m.free + m.cached) % Modulus ELSE m.available

Sizes == 0 .. MaxSize

(* /proc/meminfo, whatever the kernel puts there: MemAvailable may be less than *)
(* MemFree and more than free and cached.  Buffers and Cached are one number.   *)
MemInfo  == [total : Sizes, free : Sizes, cached : Sizes, available : Sizes]
SwapInfo == [total : Sizes, free : Sizes]

(* The reading shows the memory or the swap space: neither depends on the other. *)
ReadMemory(g) ==
  /\ At(g, "memory")
  /\ \/ \E m \in MemInfo :
          reading' = [kind |-> "memory", of |-> m, shown |-> Usage(m.total, Available(m))]
     \/ \E m \in SwapInfo :
          reading' = [kind |-> "swap", of |-> m, shown |-> Usage(m.total, m.free)]
  /\ Goto(g, "disks")
  /\ UNCHANGED <<kernel, last, buffer, uidCache, log, whole>>

(* statfs, whatever the file system answers: f_bavail is what f_bfree leaves *)
(* after the reserve for root, on most of them.                              *)
StatFS == [blocks : Sizes, bfree : Sizes, bavail : Sizes]

(* A plausible slip: the reserve for root does not count as used. *)
DiskUsedByBlocks(s) == Minus(s.blocks, s.bfree)

(* The larger one of total - free and blocks - bfree. *)
DiskUsed(s) ==
  LET used    == Minus(s.blocks, s.bavail)
      usedAll == Minus(s.blocks, s.bfree) IN
  IF usedAll > used THEN usedAll ELSE used

ReadDisks(g) ==
  /\ At(g, "disks")
  /\ \E s \in StatFS :
       reading' = [kind |-> "disk", of |-> s,
                   shown |-> [total |-> s.blocks, used |-> DiskUsed(s), free |-> s.bavail]]
  /\ Goto(g, "add")
  /\ UNCHANGED <<kernel, last, buffer, uidCache, log, whole>>

(* A plausible slip: the buffer is cut before it grows. *)
TrimmedBefore(s) == IF Len(s) > HistorySize + 1 THEN SubSeq(s, 2, Len(s)) ELSE s

(* The surplus at the front is dropped, whatever its length. *)
Trimmed(s) ==
  IF Len(s) > HistorySize THEN SubSeq(s, Len(s) - HistorySize + 1, Len(s)) ELSE s

(* MetricsHistory.Add, under its mutex; then the answer. *)
Add(g) ==
  /\ At(g, "add")
  /\ buffer' = Trimmed(Append(buffer, g))
  /\ log' = Append(log, g)
  /\ calls' = [calls EXCEPT ![g] = Nobody]
  /\ reading' = Nothing
  /\ UNCHANGED <<kernel, last, uidCache, whole>>

-----------------------------------------------------------------------------
(* Processes: one row of the list, for a process whose name is `comm`. *)
Chars == {"a", " ", ")"}
Comms == UNION {[1 .. n -> Chars] : n \in 0 .. MaxName}

(* Where the text "comm) ..." has its first bracket. *)
Close(comm) ==
  CHOOSE i \in 1 .. Len(comm) + 1 :
    /\ Append(comm, ")")[i] = ")"
    /\ \A j \in 1 .. i - 1 : comm[j] # ")"

(* Words between that bracket and the third field of /proc/<pid>/stat. *)
Surplus(comm) ==
  LET rest == SubSeq(Append(comm, ")"), Close(comm) + 1, Len(comm) + 1) IN
  Cardinality({i \in DOMAIN rest : rest[i] # " " /\ (i = 1 \/ rest[i - 1] = " ")})

(* A plausible slip: the words of the name are skipped for one field only. *)
UnevenField(comm, i) == IF i = 21 THEN 3 + i ELSE 3 + i - Surplus(comm)

(* The field, numbered as in proc(5), that rest[i] holds. *)
Field(comm, i) == 3 + i - Surplus(comm)

(* One /proc/<pid>/stat: the name, and the fields that are taken for utime, *)
(* stime and starttime (in proc(5) those are the fields 14, 15 and 22).      *)
(* The process may be gone before its owner is read.                        *)
ReadStat(g) ==
  /\ calls[g] = Nobody
  /\ \E comm \in Comms :
       reading' = [kind |-> "row", comm |-> comm, name |-> SubSeq(comm, 1, Close(comm) - 1),
                   utime |-> Field(comm, 13), stime |-> Field(comm, 14),
                   starttime |-> Field(comm, 21)]
  /\ \/ \E u \in Uids : calls' = [calls EXCEPT ![g] = [phase |-> "user", uid |-> u]]
     \/ UNCHANGED calls
  /\ UNCHANGED <<kernel, last, buffer, uidCache, log, whole>>

(* A plausible slip: a cached name is looked up again. *)
ForgetfulHit(u) == uidCache[u] = "name"

Hit(u) == uidCache[u] # Unknown

(* userForUID: the cached answer ... *)
UserCached(g) ==
  /\ At(g, "user")
  /\ Hit(calls[g].uid)
  /\ calls' = [calls EXCEPT ![g] = Nobody]
  /\ reading' = [kind |-> "user", user |-> uidCache[calls[g].uid]]
  /\ UNCHANGED <<kernel, last, buffer, uidCache, log, whole>>

(* ... or a run of `id` ... *)
UserMissed(g) ==
  /\ At(g, "user")
  /\ ~Hit(calls[g].uid)
  /\ calls' = [calls EXCEPT ![g].phase = "id"]
  /\ reading' = Nothing
  /\ UNCHANGED <<kernel, last, buffer, uidCache, log, whole>>

(* ... whose answer, or the number when it fails, is kept for good. *)
UserFound(g) ==
  /\ At(g, "id")
  /\ \E user \in {"name", "number"} :
       /\ uidCache' = [uidCache EXCEPT ![calls[g].uid] = user]
       /\ reading' = [kind |-> "user", user |-> user]
  /\ calls' = [calls EXCEPT ![g] = Nobody]
  /\ UNCHANGED <<kernel, last, buffer, log, whole>>

-----------------------------------------------------------------------------
Init ==
  /\ kernel = Zero
  /\ last = Zero
  /\ calls = [g \in Requests |-> Nobody]
  /\ buffer = <<>>
  /\ uidCache = [u \in Uids |-> Unknown]
  /\ reading = Nothing
  /\ log = <<>>
  /\ whole = TRUE

Metrics(g) ==
  \/ Sample(g)
  \/ \E f \in Fields : Load(g, f) \/ Store(g, f)
  \/ ReadMemory(g)
  \/ ReadDisks(g)
  \/ Add(g)

Processes(g) == ReadStat(g) \/ UserCached(g) \/ UserMissed(g) \/ UserFound(g)

Next == Tick \/ \E g \in Requests : Metrics(g) \/ Processes(g)

Spec == Init /\ [][Next]_vars
-----------------------------------------------------------------------------
(* Properties. *)

Reading ==
  [kind : {"none"}]
    \cup [kind : {"cpu"}, clean : BOOLEAN,
          cpu : [share : 0 .. Modulus - 1, of : 0 .. Modulus - 1]]
    \cup [kind : {"memory"}, of : MemInfo, shown : [total : Nat, used : Nat, free : Nat]]
    \cup [kind : {"swap"}, of : SwapInfo, shown : [total : Nat, used : Nat, free : Nat]]
    \cup [kind : {"disk"}, of : StatFS, shown : [total : Nat, used : Nat, free : Nat]]
    \cup [kind : {"row"}, comm : Comms, name : Seq(Chars),
          utime : Int, stime : Int, starttime : Int]
    \cup [kind : {"user"}, user : {"name", "number"}]

TypeOK ==
  /\ kernel \in Times
  /\ last \in Times
  /\ calls \in [Requests -> Call \cup {Nobody}]
  /\ buffer \in Seq(Requests)
  /\ log \in Seq(Requests)
  /\ uidCache \in [Uids -> {"name", "number", Unknown}]
  /\ reading \in Reading
  /\ whole \in BOOLEAN

(* A request that read /proc/stat, met no other one in readCPU, and found
   lastCPUTime as one such request left it, shows a share of at most the
   whole CPU.  The requests before those two may have raced or failed. *)
QuietSharesAreSane ==
  reading.kind = "cpu" /\ reading.clean => reading.cpu.share <= reading.cpu.of

(* What is shown as used and as free makes up the memory or the swap space,
   unless more is free than there is: the difference wraps round then.  Free
   memory is shown as used only by a kernel that says itself that less than
   the free memory is available, never for want of MemAvailable. *)
MemoryAddsUp ==
  reading.kind \in {"memory", "swap"} =>
    LET shown == reading.shown
        m     == reading.of IN
    /\ shown.used + shown.free = shown.total <=> shown.free <= shown.total
    /\ reading.kind = "memory" /\ shown.free <= shown.total /\ shown.used > m.total - m.free
         => m.available \in 1 .. m.free - 1

(* A disk is shown as more than full only when statfs reports more blocks
   free or available than there are.  Otherwise used and available blocks make
   up at least the disk - the reserve for root counts as used - and more than
   it only when more blocks are available than free. *)
DiskAddsUp ==
  reading.kind = "disk" =>
    LET shown == reading.shown
        s     == reading.of IN
    /\ shown.used <= shown.total <=> s.bfree <= s.blocks /\ s.bavail <= s.blocks
    /\ shown.used <= shown.total =>
         /\ shown.used + shown.free >= shown.total
         /\ shown.used + shown.free = shown.total <=> s.bavail <= s.bfree

(* All the numbers of a row keep their distances in /proc/<pid>/stat, and they
   are the fields that a process with an empty name gets exactly when the row
   shows the whole name: a name that holds a bracket is cut there, and its row
   takes its numbers from other fields than every other row. *)
CutNamesShiftNumbers ==
  reading.kind = "row" =>
    /\ reading.name = reading.comm <=> reading.utime = Field(<<>>, 13)
    /\ reading.stime - reading.utime = 1 /\ reading.starttime - reading.utime = 8

(* The numbers of a process whose name is plain are its utime, stime and
   starttime, the fields 14, 15 and 22 of proc(5).  The comment at
   system_handler.go:475 gives these names to what the code takes. *)
RowsShowTheTimes ==
  reading.kind = "row" /\ reading.name = reading.comm =>
    /\ reading.utime = 14 /\ reading.stime = 15 /\ reading.starttime = 22

(* MetricsHistory shows the newest snapshots in the order they were added, at
   most its maximum of them, whatever requests run at the same time. *)
History == INSTANCE BoundedLog
             WITH Items <- Requests, Size <- HistorySize, recorded <- log, shown <- buffer
HistorySpec == History!Spec

(* When no lookup of a user is under way, what is cached for it - a name, or
   the number after an `id` that failed once - is shown from then on. *)
Settled(u) ==
  uidCache[u] # Unknown /\ \A g \in Requests : At(g, "id") => calls[g].uid # u
SettledNamesStay ==
  [][\A u \in Uids : Settled(u) => Settled(u)' /\ uidCache'[u] = uidCache[u]]_vars
=============================================================================
