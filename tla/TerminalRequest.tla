-------------------------- MODULE TerminalRequest --------------------------
(***************************************************************************)
(* The terminal behind the router.  A request for /api/terminal goes the   *)
(* way of every other request (RequestPath); the handler that it reaches,  *)
(* terminal.Handler.ServeHTTP, is one session of Terminal, and the request *)
(* is being served until that handler returns.                             *)
(*                                                                         *)
(* Bound: the panel serves any requests, one at a time, up to and          *)
(* including the first that has a session.                                 *)
(***************************************************************************)
EXTENDS RequestPath, Terminal

panelVars == <<vars, requestVars>>

InSession == served.result.handler = "Terminal"

PanelInit == RequestInit /\ Init

(* Any request, and how far the middlewares let it. *)
Arrive ==
  /\ Load \/ Serve
  /\ main # "returned"
  /\ UNCHANGED vars

(* A plausible slip: the request is over while its session goes on. *)
LeaveEarly ==
  /\ Finish
  /\ UNCHANGED vars

(* The handler returns; that of the terminal at once when the upgrade fails, *)
(* before anything of a session has begun.                                   *)
Leave ==
  /\ Finish
  /\ InSession => Init \/ main = "returned"
  /\ UNCHANGED vars

(* A step of the session that the request being served has. *)
During(step) ==
  /\ InSession
  /\ step
  /\ UNCHANGED requestVars

PanelNext ==
  \/ Arrive
  \/ Leave
  \/ During(Handler \/ Reader \/ Writer \/ Shell \/ Client)
  \/ Collect /\ UNCHANGED requestVars

(* Terminal's fairness, while there is a session. *)
PanelFairness ==
  /\ WF_panelVars(During(Handler))
  /\ WF_panelVars(During(Reader))
  /\ WF_panelVars(During(Writer))
  /\ WF_panelVars(During(HangUp))
  /\ WF_panelVars(During(ShellReads))
  /\ WF_panelVars(During(ShellPrints))

PanelSpec == PanelInit /\ [][PanelNext]_panelVars /\ PanelFairness

-----------------------------------------------------------------------------
(* Properties. *)

(* As long as there is a shell, and whatever it, the browser and the goroutines
   of its session do, the request that started it is still being served, and it
   is one that a middleware has let pass with an accepted token. *)
ShellsHaveRequests ==
  shell \in {"alive", "exited"} =>
    /\ InSession
    /\ Token(served.rq) = "good" /\ ~served.rq.crowded
=============================================================================
