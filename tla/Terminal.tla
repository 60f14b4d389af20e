------------------------------ MODULE Terminal ------------------------------
(***************************************************************************)
(* One terminal session of internal/terminal/terminal.go: the handler      *)
(* goroutine of ServeHTTP, the two goroutines that copy between the        *)
(* pseudo-terminal and the WebSocket, the shell, and the browser.          *)
(* Sessions share nothing, so one is enough.                               *)
(*                                                                         *)
(* Of the pseudo-terminal (external: the kernel's pty and Go's os.File):   *)
(*   - openPTY and setWinSize call master.Fd(), which makes the file       *)
(*     blocking.  Close then does not interrupt a Read or Write that is    *)
(*     under way: it marks the file closed, and the descriptor goes only   *)
(*     when the last of them returns ("closing", then "destroyed").        *)
(*   - a Read of the master fails with EIO once NO process has the slave   *)
(*     open.  buildAndStart closes the slave only when cmd.Start fails;    *)
(*     after that the server keeps it open, through cmd.Stdin, for as long *)
(*     as the session lasts, and no Read here ever ends that way.          *)
(*   - the shell is hung up when the master is destroyed.                  *)
(* What is printed and typed is counted, not spelled.                      *)
(***************************************************************************)
EXTENDS Naturals

CONSTANTS
  OutputCap,    \* bound: chunks of output the pty holds
  InputCap      \* bound: chunks of input the pty holds; a Write blocks when full

ASSUME CapsArePositive == OutputCap \in Nat \ {0} /\ InputCap \in Nat \ {0}

VARIABLES
  main,      \* where ServeHTTP is
  attempt,   \* what buildAndStart tries: a shell with a controlling "tty", or "plain"
  reader,    \* the PTY -> WebSocket goroutine
  writer,    \* the WebSocket -> PTY goroutine
  closes,    \* how often the channel `done` was closed
  master,    \* the master side: "none", "open", "closing", "destroyed"
  slave,     \* the slave side, as the server holds it: "none", "open"
  shell,     \* the shell process: "none", "alive", "exited", "reaped"
  output,    \* chunks printed and not yet read from the master
  input,     \* chunks written to the master and not yet read by the shell
  conn,      \* the server's end of the WebSocket: "open", "closed"
  client,    \* the browser's end: "here", "gone"
  inbox      \* the message the browser sent last, or "none"

vars == <<main, attempt, reader, writer, closes, master, slave, shell, output, input,
          conn, client, inbox>>

startVars  == <<attempt, slave>>
ptyVars    == <<shell, output, input>>
clientVars == <<client, inbox>>

-----------------------------------------------------------------------------
(* startPTY: with a controlling terminal, and if that fails without one.   *)
(* Each attempt opens a pseudo-terminal of its own and starts a shell on   *)
(* it; one that fails closes what it has opened so far.                    *)

OpenMaster ==
  /\ main = "openMaster"
  /\ main' = "openSlave"
  /\ master' = "open"
  /\ UNCHANGED <<attempt, slave, reader, writer, closes, ptyVars, conn, clientVars>>

OpenSlave ==
  /\ main = "openSlave"
  /\ main' = "startShell"
  /\ slave' = "open"
  /\ UNCHANGED <<attempt, master, reader, writer, closes, ptyVars, conn, clientVars>>

StartShell ==
  /\ main = "startShell"
  /\ main' = "serve"
  /\ shell' = "alive"
  /\ reader' = "top"
  /\ writer' = "top"
  /\ UNCHANGED <<attempt, master, slave, closes, output, input, conn, clientVars>>

(* After a failure: the second attempt ... *)
FallBack ==
  /\ attempt = "tty"
  /\ attempt' = "plain"
  /\ main' = "openMaster"
  /\ UNCHANGED conn

(* ... or the return, with the connection closed. *)
NoShell ==
  /\ attempt = "plain"
  /\ main' = "returned"
  /\ conn' = "closed"
  /\ UNCHANGED attempt

GiveUpAttempt ==
  /\ FallBack \/ NoShell
  /\ UNCHANGED <<reader, writer, closes, ptyVars, clientVars>>

OpenMasterFails ==
  /\ main = "openMaster"
  /\ GiveUpAttempt
  /\ UNCHANGED <<master, slave>>

(* A plausible slip: the master stays open when the slave cannot be opened. *)
OpenSlaveFailsOpen ==
  /\ main = "openSlave"
  /\ GiveUpAttempt
  /\ UNCHANGED <<master, slave>>

(* Unlocking and naming the slave, or opening it. *)
OpenSlaveFails ==
  /\ main = "openSlave"
  /\ master' = "none"
  /\ GiveUpAttempt
  /\ UNCHANGED slave

StartShellFails ==
  /\ main = "startShell"
  /\ master' = "none"
  /\ slave' = "none"
  /\ GiveUpAttempt

-----------------------------------------------------------------------------
(* A plausible slip: each goroutine closes `done` itself. *)
SignalDoneEach == closes' = closes + 1

(* signalDone: the channel is closed by whichever goroutine ends first. *)
SignalDone == closes' = IF closes = 0 THEN 1 ELSE closes

(* A Read or a Write on the master that was under way has returned. *)
ReleaseMaster(otherHolds) ==
  master' = IF master = "closing" /\ ~otherHolds THEN "destroyed" ELSE master

(* The loop of the reader: master.Read, conn.WriteMessage. *)
ReadBegins ==
  /\ reader = "top"
  /\ master = "open"
  /\ reader' = "reading"
  /\ UNCHANGED <<main, writer, closes, master, ptyVars, conn, clientVars, startVars>>

ReadsClosed ==
  /\ reader = "top"
  /\ master # "open"
  /\ reader' = "done"
  /\ SignalDone
  /\ UNCHANGED <<main, writer, master, ptyVars, conn, clientVars, startVars>>

ReadReturns ==
  /\ reader = "reading"
  /\ output > 0
  /\ output' = output - 1
  /\ reader' = "sending"
  /\ ReleaseMaster(writer = "writing")
  /\ UNCHANGED <<main, writer, closes, shell, input, conn, clientVars, startVars>>

(* A write to a peer that has left may still seem to succeed. *)
Sends ==
  /\ reader = "sending"
  /\ conn = "open"
  /\ reader' = "top"
  /\ UNCHANGED <<main, writer, closes, master, ptyVars, conn, clientVars, startVars>>

SendFails ==
  /\ reader = "sending"
  /\ conn = "closed" \/ client = "gone"
  /\ reader' = "done"
  /\ SignalDone
  /\ UNCHANGED <<main, writer, master, ptyVars, conn, clientVars, startVars>>

-----------------------------------------------------------------------------
(* The loop of the writer: conn.ReadMessage, master.Write.  A message that *)
(* arrived is read even after either end was closed.                       *)
ReceivesInput ==
  /\ writer = "top"
  /\ inbox = "input"
  /\ inbox' = "none"
  /\ writer' = IF master = "open" THEN "writing" ELSE "top"
  /\ UNCHANGED <<main, reader, closes, master, ptyVars, conn, client, startVars>>

(* A resize, a message that does not parse, or one of another type. *)
ReceivesOther ==
  /\ writer = "top"
  /\ inbox = "other"
  /\ inbox' = "none"
  /\ UNCHANGED <<main, reader, writer, closes, master, ptyVars, conn, client, startVars>>

(* A plausible slip: a Write never waits for the shell. *)
WriteReturnsAtOnce ==
  /\ writer = "writing"
  /\ input' = input + 1
  /\ writer' = "top"
  /\ ReleaseMaster(reader = "reading")
  /\ UNCHANGED <<main, reader, closes, shell, output, conn, clientVars, startVars>>

WriteReturns ==
  /\ writer = "writing"
  /\ input < InputCap
  /\ input' = input + 1
  /\ writer' = "top"
  /\ ReleaseMaster(reader = "reading")
  /\ UNCHANGED <<main, reader, closes, shell, output, conn, clientVars, startVars>>

(* A plausible slip: the goroutine ends without telling the handler. *)
ReceiveFailsSilently ==
  /\ writer = "top"
  /\ conn = "closed" \/ (client = "gone" /\ inbox = "none")
  /\ writer' = "done"
  /\ UNCHANGED <<main, reader, closes, master, ptyVars, conn, clientVars, startVars>>

ReceiveFails ==
  /\ writer = "top"
  /\ conn = "closed" \/ (client = "gone" /\ inbox = "none")
  /\ writer' = "done"
  /\ SignalDone
  /\ UNCHANGED <<main, reader, master, ptyVars, conn, clientVars, startVars>>

-----------------------------------------------------------------------------
(* The handler: <-done, then the clean-up.                                 *)

WaitDone ==
  /\ main = "serve"
  /\ closes > 0
  /\ main' = "signal"
  /\ UNCHANGED <<reader, writer, closes, master, ptyVars, conn, clientVars, startVars>>

(* SIGINT; the select that follows has a default case, which it takes at   *)
(* once: the second is never waited for and Kill is never reached.  What   *)
(* the shell does on SIGINT - exit, print a prompt, nothing - is its own   *)
(* step, as it is without the signal.                                      *)
Interrupt ==
  /\ main = "signal"
  /\ main' = "closeMaster"
  /\ UNCHANGED <<reader, writer, closes, master, ptyVars, conn, clientVars, startVars>>

(* A plausible slip: the master is left to the deferred Close. *)
CloseMasterLater ==
  /\ main = "closeMaster"
  /\ main' = "closeConn"
  /\ UNCHANGED <<reader, writer, closes, master, ptyVars, conn, clientVars, startVars>>

CloseMaster ==
  /\ main = "closeMaster"
  /\ main' = "closeConn"
  /\ master' = IF reader = "reading" \/ writer = "writing" THEN "closing" ELSE "destroyed"
  /\ UNCHANGED <<reader, writer, closes, ptyVars, conn, clientVars, startVars>>

CloseConn ==
  /\ main = "closeConn"
  /\ main' = "join"
  /\ conn' = "closed"
  /\ UNCHANGED <<reader, writer, closes, master, ptyVars, clientVars, startVars>>

(* wg.Wait *)
Join ==
  /\ main = "join"
  /\ reader = "done" /\ writer = "done"
  /\ main' = "reap"
  /\ UNCHANGED <<reader, writer, closes, master, ptyVars, conn, clientVars, startVars>>

(* cmd.Wait, and the return; the deferred Closes find both ends closed. *)
Reap ==
  /\ main = "reap"
  /\ shell = "exited"
  /\ shell' = "reaped"
  /\ main' = "returned"
  /\ UNCHANGED <<reader, writer, closes, master, output, input, conn, clientVars, startVars>>

-----------------------------------------------------------------------------
(* The shell and the programs it runs, and the browser: external. *)

ShellPrints ==
  /\ shell = "alive" /\ master # "destroyed"
  /\ output < OutputCap
  /\ output' = output + 1
  /\ UNCHANGED <<main, reader, writer, closes, master, shell, input, conn, clientVars, startVars>>

ShellReads ==
  /\ shell = "alive"
  /\ input > 0
  /\ input' = input - 1
  /\ UNCHANGED <<main, reader, writer, closes, master, shell, output, conn, clientVars, startVars>>

ShellExits ==
  /\ shell = "alive"
  /\ shell' = "exited"
  /\ UNCHANGED <<main, reader, writer, closes, master, output, input, conn, clientVars, startVars>>

HangUp == master = "destroyed" /\ ShellExits

ClientSends(kind) ==
  /\ client = "here" /\ inbox = "none" /\ conn = "open"
  /\ inbox' = kind
  /\ UNCHANGED <<main, reader, writer, closes, master, ptyVars, conn, client, startVars>>

ClientLeaves ==
  /\ client = "here"
  /\ client' = "gone"
  /\ UNCHANGED <<main, reader, writer, closes, master, ptyVars, conn, inbox, startVars>>

-----------------------------------------------------------------------------
(* After the return nothing refers to the slave's *os.File any more: the   *)
(* garbage collector closes it, when it comes to it.                       *)
Collect ==
  /\ main = "returned"
  /\ slave = "open"
  /\ slave' = "none"
  /\ UNCHANGED <<main, attempt, reader, writer, closes, master, ptyVars, conn, clientVars>>

-----------------------------------------------------------------------------
(* The state after a successful upgrade. *)
Init ==
  /\ main = "openMaster" /\ attempt = "tty"
  /\ reader = "off" /\ writer = "off"
  /\ closes = 0
  /\ master = "none" /\ slave = "none"
  /\ shell = "none" /\ output = 0 /\ input = 0
  /\ conn = "open" /\ client = "here" /\ inbox = "none"

Starting == OpenMaster \/ OpenSlave \/ StartShell
              \/ OpenMasterFails \/ OpenSlaveFails \/ StartShellFails
Handler  == Starting \/ WaitDone \/ Interrupt \/ CloseMaster \/ CloseConn \/ Join \/ Reap
Reader  == ReadBegins \/ ReadsClosed \/ ReadReturns \/ Sends \/ SendFails
Writer  == ReceivesInput \/ ReceivesOther \/ WriteReturns \/ ReceiveFails
Shell   == ShellPrints \/ ShellReads \/ ShellExits
Client  == ClientLeaves \/ \E kind \in {"input", "other"} : ClientSends(kind)

Next == Handler \/ Reader \/ Writer \/ Shell \/ Client \/ Collect

(* Each goroutine that can take a step eventually does, and a shell whose  *)
(* terminal is destroyed eventually exits.                                 *)
Fairness == /\ WF_vars(Handler)
            /\ WF_vars(Reader)
            /\ WF_vars(Writer)
            /\ WF_vars(HangUp)

Spec == Init /\ [][Next]_vars /\ Fairness

(* In addition, a shell that reads what is typed and prints now and then.  *)
(* Nothing in the code makes a shell do so.                                *)
TalkativeSpec == Spec /\ WF_vars(ShellReads) /\ WF_vars(ShellPrints)

-----------------------------------------------------------------------------
(* Properties. *)

TypeOK ==
  /\ main \in {"openMaster", "openSlave", "startShell", "serve", "signal", "closeMaster",
               "closeConn", "join", "reap", "returned"}
  /\ attempt \in {"tty", "plain"}
  /\ slave \in {"none", "open"}
  /\ reader \in {"off", "top", "reading", "sending", "done"}
  /\ writer \in {"off", "top", "writing", "done"}
  /\ closes \in Nat
  /\ master \in {"none", "open", "closing", "destroyed"}
  /\ shell \in {"none", "alive", "exited", "reaped"}
  /\ output \in 0 .. OutputCap
  /\ input \in 0 .. InputCap
  /\ conn \in {"open", "closed"}
  /\ client \in {"here", "gone"}
  /\ inbox \in {"none", "input", "other"}

(* The channel `done` is closed once, by whichever goroutine ends first, and
   not before: an end that is not signalled leaves the handler waiting, and a
   second close would panic and take the whole server down. *)
DoneSignalsTheEnd == closes = IF reader = "done" \/ writer = "done" THEN 1 ELSE 0

(* An attempt to start a shell finds nothing of an earlier one open.  When the
   handler returns, both goroutines have ended, the shell has been reaped, the
   terminal is destroyed and the connection closed - also when no shell could be
   started.  What may be left is the server's own handle of the slave, and only
   of a shell that was started: the code closes it nowhere on that path. *)
ReturnsClean ==
  /\ main = "openMaster" => master = "none" /\ slave = "none"
  /\ main = "returned" =>
       /\ reader \in {"off", "done"} /\ writer \in {"off", "done"}
       /\ shell \in {"none", "reaped"}
       /\ master \in {"none", "destroyed"}
       /\ slave = "open" => shell = "reaped"
       /\ conn = "closed"

(* What each goroutine may wait for. *)
ReaderWaits  == \/ reader \in {"off", "done"}
                \/ reader = "reading" /\ output = 0
WriterWaits  == \/ writer \in {"off", "done"}
                \/ writer = "writing" /\ input = InputCap
                \/ writer = "top" /\ inbox = "none" /\ conn = "open" /\ client = "here"
HandlerWaits == \/ main = "serve" /\ closes = 0
                \/ main = "join" /\ ~(reader = "done" /\ writer = "done")
                \/ main = "reap" /\ shell # "exited"

(* When a session that has begun to end stands still, none of its goroutines
   waits for another one or for the browser: one is inside a call on the master
   that was closed under it, which only the shell can end, or all that is left is
   the shell's own exit after its terminal was destroyed. *)
OnlyTheShellIsAwaited ==
  closes > 0 /\ HandlerWaits /\ ReaderWaits /\ WriterWaits =>
    \/ master = "closing" /\ (reader = "reading" \/ writer = "writing")
    \/ master = "destroyed" /\ main = "reap" /\ shell = "alive"

(* A browser that leaves is noticed, as long as the shell lives to empty the
   terminal's input: a writer stuck in master.Write reads no message. *)
DisconnectIsNoticed == client = "gone" ~> (closes > 0 \/ shell # "alive" \/ main = "returned")

(* A goroutine waits on the terminal of a shell that is gone: no output will
   come and no input be read, while the server itself holds the slave open. *)
Wedged ==
  /\ shell = "exited"
  /\ reader = "reading" \/ writer = "writing"

(* A session that has begun to end is cleaned up and reaped, unless its shell
   exited first and left a goroutine waiting on the terminal - provided the
   shell says something, which is what frees the reader. *)
TeardownCompletes == closes > 0 ~> (main = "returned" \/ Wedged)

(* terminal.go:143 "Wait until either the client disconnects or the shell
   exits.": when the shell exits the handler stops waiting. *)
ShellExitEndsSession == shell = "exited" ~> main # "serve"

(* terminal.go:153 "Close both ends to unblock the I/O goroutines.": once both
   ends are closed the goroutines end. *)
ClosingUnblocks == main = "join" ~> (reader = "done" /\ writer = "done")
=============================================================================
