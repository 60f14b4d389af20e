-------------------------- MODULE TerminalProofs --------------------------
(***************************************************************************)
(* For buffers of any size: a session signals its end once, and when its   *)
(* handler returns the shell is reaped and all is closed but, of a shell   *)
(* that was started, the server's handle of the slave.                     *)
(***************************************************************************)
EXTENDS Terminal, TLAPS

(* No goroutine runs before the shell was started ... *)
NotStarted ==
  /\ reader = "off" /\ writer = "off"
  /\ shell = "none"

(* ... and both after, until the handler takes the session down. *)
Started ==
  /\ reader \in {"top", "reading", "sending", "done"}
  /\ writer \in {"top", "writing", "done"}
  /\ master \in {"open", "closing", "destroyed"}
  /\ shell \in {"alive", "exited", "reaped"}

(* What exists of a session when its handler is at each of its steps: an
   attempt opens the master, then the slave, and its shell has both. *)
Progress ==
  /\ main \in {"openMaster", "openSlave", "startShell"} => NotStarted /\ conn = "open"
  /\ main = "openMaster" => master = "none" /\ slave = "none"
  /\ main = "openSlave" => master = "open" /\ slave = "none"
  /\ main = "startShell" => master = "open" /\ slave = "open"
  /\ main \in {"serve", "signal", "closeMaster"} => Started /\ master = "open" /\ conn = "open"
  /\ main = "closeConn" => Started /\ master # "open" /\ conn = "open"
  /\ main \in {"join", "reap"} => Started /\ master # "open" /\ conn = "closed"
  /\ main = "reap" => reader = "done" /\ writer = "done"
  /\ main # "returned" => shell # "reaped"
  /\ main = "returned" =>
       /\ conn = "closed"
       /\ \/ NotStarted /\ master = "none" /\ slave = "none"
          \/ /\ reader = "done" /\ writer = "done"
             /\ master = "destroyed" /\ shell = "reaped"

(* A master that was closed is there as long as somebody is inside a Read or
   a Write on it, and no longer: Close does not wait, the last one out does. *)
HeldOpen ==
  /\ master = "closing" => reader = "reading" \/ writer = "writing"
  /\ master = "destroyed" => reader # "reading" /\ writer # "writing"

Inv == TypeOK /\ DoneSignalsTheEnd /\ Progress /\ HeldOpen

LEMMA InvInit == Init => Inv
BY CapsArePositive DEF Init, Inv, TypeOK, DoneSignalsTheEnd, Progress, HeldOpen, NotStarted

(* Signalling twice is signalling once. *)
LEMMA Signals ==
  ASSUME DoneSignalsTheEnd, SignalDone PROVE closes' = 1
BY DEF DoneSignalsTheEnd, SignalDone

LEMMA HandlerStep == Inv /\ Handler => Inv'
<1> SUFFICES ASSUME Inv, Handler PROVE Inv'
  OBVIOUS
<1> USE DEF Inv, TypeOK, DoneSignalsTheEnd, Progress, HeldOpen, NotStarted, Started,
            startVars, ptyVars, clientVars
<1>1. CASE OpenMaster \/ OpenSlave \/ StartShell
  BY <1>1 DEF OpenMaster, OpenSlave, StartShell
<1>2. CASE OpenMasterFails \/ OpenSlaveFails \/ StartShellFails
  BY <1>2 DEF OpenMasterFails, OpenSlaveFails, StartShellFails, GiveUpAttempt, FallBack, NoShell
<1>3. CASE WaitDone
  BY <1>3 DEF WaitDone
<1>4. CASE Interrupt
  BY <1>4 DEF Interrupt
<1>5. CASE CloseMaster
  BY <1>5 DEF CloseMaster
<1>6. CASE CloseConn
  BY <1>6 DEF CloseConn
<1>7. CASE Join
  BY <1>7 DEF Join
<1>8. CASE Reap
  BY <1>8 DEF Reap
<1> QED
  BY <1>1, <1>2, <1>3, <1>4, <1>5, <1>6, <1>7, <1>8 DEF Handler, Starting

LEMMA ReaderStep == Inv /\ Reader => Inv'
<1> SUFFICES ASSUME Inv, Reader PROVE Inv'
  OBVIOUS
<1> USE DEF Inv, Progress, HeldOpen, NotStarted, Started, startVars, ptyVars, clientVars
<1>1. CASE ReadBegins
  BY <1>1 DEF ReadBegins, TypeOK, DoneSignalsTheEnd
<1>2. CASE ReadsClosed
  BY <1>2, Signals DEF ReadsClosed, TypeOK, DoneSignalsTheEnd
<1>3. CASE ReadReturns
  BY <1>3, CapsArePositive DEF ReadReturns, ReleaseMaster, TypeOK, DoneSignalsTheEnd
<1>4. CASE Sends
  BY <1>4 DEF Sends, TypeOK, DoneSignalsTheEnd
<1>5. CASE SendFails
  BY <1>5, Signals DEF SendFails, TypeOK, DoneSignalsTheEnd
<1> QED
  BY <1>1, <1>2, <1>3, <1>4, <1>5 DEF Reader

LEMMA WriterStep == Inv /\ Writer => Inv'
<1> SUFFICES ASSUME Inv, Writer PROVE Inv'
  OBVIOUS
<1> USE DEF Inv, Progress, HeldOpen, NotStarted, Started, startVars, ptyVars, clientVars
<1>1. CASE ReceivesInput
  BY <1>1 DEF ReceivesInput, TypeOK, DoneSignalsTheEnd
<1>2. CASE ReceivesOther
  BY <1>2 DEF ReceivesOther, TypeOK, DoneSignalsTheEnd
<1>3. CASE WriteReturns
  BY <1>3, CapsArePositive DEF WriteReturns, ReleaseMaster, TypeOK, DoneSignalsTheEnd
<1>4. CASE ReceiveFails
  BY <1>4, Signals DEF ReceiveFails, TypeOK, DoneSignalsTheEnd
<1> QED
  BY <1>1, <1>2, <1>3, <1>4 DEF Writer

LEMMA ShellStep == Inv /\ Shell => Inv'
<1> SUFFICES ASSUME Inv, Shell PROVE Inv'
  OBVIOUS
<1> USE CapsArePositive
    DEF Inv, TypeOK, DoneSignalsTheEnd, Progress, HeldOpen, NotStarted, Started, startVars, clientVars
<1>1. CASE ShellPrints
  BY <1>1 DEF ShellPrints
<1>2. CASE ShellReads
  BY <1>2 DEF ShellReads
<1>3. CASE ShellExits
  BY <1>3 DEF ShellExits
<1> QED
  BY <1>1, <1>2, <1>3 DEF Shell

LEMMA ClientStep == Inv /\ Client => Inv'
<1> SUFFICES ASSUME Inv, Client PROVE Inv'
  OBVIOUS
<1> USE DEF Inv, TypeOK, DoneSignalsTheEnd, Progress, HeldOpen, NotStarted, Started, startVars, ptyVars
<1>1. CASE ClientLeaves
  BY <1>1 DEF ClientLeaves
<1>2. ASSUME NEW kind \in {"input", "other"}, ClientSends(kind) PROVE Inv'
  BY <1>2 DEF ClientSends
<1> QED
  BY <1>1, <1>2 DEF Client

LEMMA CollectStep == Inv /\ Collect => Inv'
BY DEF Collect, Inv, TypeOK, DoneSignalsTheEnd, Progress, HeldOpen, NotStarted, Started,
       ptyVars, clientVars

LEMMA InvStep == Inv /\ [Next]_vars => Inv'
<1> SUFFICES ASSUME Inv, [Next]_vars PROVE Inv'
  OBVIOUS
<1>1. CASE UNCHANGED vars
  BY <1>1 DEF vars, Inv, TypeOK, DoneSignalsTheEnd, Progress, HeldOpen, NotStarted, Started
<1> QED
  BY <1>1, HandlerStep, ReaderStep, WriterStep, ShellStep, ClientStep, CollectStep DEF Next

(* The invariant of every reachable state; fairness plays no part in it. *)
THEOREM Invariant == Spec => []Inv
BY InvInit, InvStep, PTL DEF Spec

-----------------------------------------------------------------------------
(* What a reader should know of. *)

(* Every reachable state is of its type; the buffers never overflow. *)
THEOREM TypeCorrect == Spec => []TypeOK
<1>1. Inv => TypeOK
  BY DEF Inv
<1> QED
  BY <1>1, Invariant, PTL

(* The channel `done` is closed once, when the first of the goroutines ends. *)
THEOREM EndIsSignalled == Spec => []DoneSignalsTheEnd
<1>1. Inv => DoneSignalsTheEnd
  BY DEF Inv
<1> QED
  BY <1>1, Invariant, PTL

(* An attempt that fails closes what it opened, and a handler that has returned
   has left no goroutine, shell, master or connection behind - only, after a
   shell that ran, the slave side that the code leaves to the collector. *)
THEOREM OnlyTheSlaveIsLeft == Spec => []ReturnsClean
<1>1. Inv => ReturnsClean
  BY DEF Inv, Progress, NotStarted, ReturnsClean
<1> QED
  BY <1>1, Invariant, PTL

(* When the end of a session makes no progress it is for the shell's sake: the *)
(* goroutines and the handler of ServeHTTP never wait on each other in a ring, *)
(* nor for a browser whose connection has been closed.                         *)
THEOREM NoOtherWait == Spec => []OnlyTheShellIsAwaited
<1>1. Inv => OnlyTheShellIsAwaited
  <2>. SUFFICES ASSUME Inv, closes > 0, HandlerWaits, ReaderWaits, WriterWaits
                PROVE  \/ master = "closing" /\ (reader = "reading" \/ writer = "writing")
                       \/ master = "destroyed" /\ main = "reap" /\ shell = "alive"
    BY DEF OnlyTheShellIsAwaited
  <2>. USE DEF Inv, Progress, Started
  <2>1. CASE main = "join"
    <3>1. conn = "closed" /\ master \in {"closing", "destroyed"}
      BY <2>1
    <3>2. reader = "reading" \/ writer = "writing"
      BY <2>1, <3>1 DEF HandlerWaits, ReaderWaits, WriterWaits
    <3>3. master # "destroyed"
      BY <3>2 DEF HeldOpen
    <3>. QED
      BY <3>1, <3>2, <3>3
  <2>2. CASE main = "reap"
    BY <2>2 DEF HandlerWaits, HeldOpen
  <2>3. main \in {"join", "reap"}
    BY DEF HandlerWaits
  <2>. QED
    BY <2>1, <2>2, <2>3
<1>. QED
  BY <1>1, Invariant, PTL
=============================================================================
