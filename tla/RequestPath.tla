---------------------------- MODULE RequestPath ----------------------------
(***************************************************************************)
(* The way of one HTTP request to its handler: config.Load, the route      *)
(* table of handlers.Router, and the middlewares around a handler.         *)
(*                                                                         *)
(* What the panel does with a request depends on the loaded configuration  *)
(* and on nothing an earlier request left behind, except the verdicts of   *)
(* the JWT check and the rate limiter, which are inputs here and modelled  *)
(* in AuthSessions and RateLimiter.                                        *)
(***************************************************************************)
EXTENDS Naturals, Sequences, FiniteSets

CONSTANTS
  Settings,    \* what can make Load fail: port, attempts, lockout, secret, totp (the data
               \* directory, which only the file can leave empty, is left out)
  Parsed,      \* those whose environment variable must be a number, a boolean or a duration
  Ranged,      \* those that validate checks: all but totp
  Clients,     \* what clientIP may return; "unknown" is text that is no address
  Subnet       \* the clients in the one network that a whitelist may name

VARIABLES
  conf,        \* the loaded configuration
  served       \* the last request and what became of it

requestVars == <<conf, served>>

-----------------------------------------------------------------------------
(* Configuration.  "bad" is a value that parses and is out of range,  *)
(* "garbled" one that does not parse: for jwt_secret, a []byte, any   *)
(* text in the file.  Defaults are valid.                             *)
Items     == Clients \cup {"subnet", ""}    \* between the commas of a list
Files     == [Settings -> {"unset", "ok", "bad", "garbled"}]
Texts     == UNION {[1 .. n -> Items] : n \in 1 .. 2}
EmptyText == <<"">>

Environments ==
  {e \in [Settings -> {"unset", "ok", "bad", "garbled"}] :
     \A s \in Settings \ Parsed : e[s] # "garbled"}

(* A non-empty environment variable replaces what the file says. *)
Overlaid(file, env, s) == IF env[s] # "unset" THEN env[s] ELSE file[s]

(* A plausible slip: an empty item is kept. *)
SplitKeepingEmpty(text) == {text[i] : i \in DOMAIN text}

(* splitCSV: empty items are dropped, blanks around an item are not. *)
SplitCSV(text) == {text[i] : i \in DOMAIN text} \ {""}

AllowedIPs(inFile, text) == IF text # EmptyText THEN SplitCSV(text) ELSE inFile

(* Load: the YAML file, if there is one, then the environment, then validate. *)
Loads(file, env) ==
  /\ \A s \in Settings : "garbled" \notin {file[s], env[s]}
  /\ \A s \in Ranged : Overlaid(file, env, s) # "bad"

Load ==
  /\ conf = [state |-> "unread"]
  /\ \E file \in Files, env \in Environments, inFile \in SUBSET (Items \ {""}), text \in Texts :
       /\ Cardinality(inFile) < 2
       /\ conf' = IF Loads(file, env)
                  THEN [state |-> "running", allowed |-> AllowedIPs(inFile, text)]
                  ELSE [state |-> "failed"]
  /\ UNCHANGED served

-----------------------------------------------------------------------------
(* Routes in the order of their registration; "*" is a variable. *)
Methods == {"GET", "POST", "DELETE", "OPTIONS"}

On(under, methods, path, handler) ==
  [under |-> under, methods |-> methods, path |-> path, handler |-> handler, verbs |-> {}]
Api(method, path, handler) == On("api", {method}, <<"api">> \o path, handler)
Acts(path, handler) ==
  [Api("POST", path, handler) EXCEPT !.verbs = {"start", "stop", "restart"}]

Routes == <<
  On("root", {"GET"},  <<"api", "health">>, "Health"),
  On("root", {"POST"}, <<"api", "auth", "login">>, "Login"),
  On("root", {"POST"}, <<"api", "auth", "refresh">>, "Refresh"),
  Api("POST", <<"auth", "logout">>, "Logout"),
  Api("POST", <<"auth", "setup-totp">>, "SetupTOTP"),
  Api("POST", <<"auth", "verify-totp">>, "VerifyTOTP"),
  Api("GET",  <<"auth", "me">>, "Me"),
  Api("POST", <<"auth", "change-password">>, "ChangePassword"),
  Api("GET",  <<"system", "info">>, "Info"),
  Api("GET",  <<"system", "metrics">>, "Metrics"),
  Api("GET",  <<"system", "metrics", "history">>, "MetricsHistory"),
  Api("GET",  <<"system", "network">>, "Network"),
  Api("GET",  <<"system", "processes">>, "Processes"),
  Api("GET",  <<"docker", "containers">>, "Containers"),
  Api("GET",  <<"docker", "containers", "*", "logs">>, "ContainerLogs"),
  Acts(<<"docker", "containers", "*", "*">>, "ContainerAction"),
  Api("DELETE", <<"docker", "containers", "*">>, "Remove"),
  Api("GET",  <<"docker", "images">>, "Images"),
  Api("GET",  <<"docker", "stats">>, "Stats"),
  Api("GET",  <<"services">>, "Services"),
  Api("GET",  <<"services", "*", "logs">>, "ServiceLogs"),
  Api("GET",  <<"services", "*">>, "Service"),
  Acts(<<"services", "*", "*">>, "ServiceAction"),
  Api("GET",  <<"files", "list">>, "List"),
  Api("GET",  <<"files", "read">>, "Read"),
  Api("GET",  <<"files", "download">>, "Download"),
  Api("POST", <<"files", "write">>, "Write"),
  Api("POST", <<"files", "upload">>, "Upload"),
  Api("POST", <<"files", "mkdir">>, "Mkdir"),
  Api("POST", <<"files", "rename">>, "Rename"),
  Api("DELETE", <<"files", "delete">>, "DeleteEntry"),
  On("api", Methods, <<"api", "terminal">>, "Terminal"),
  On("root", Methods, <<"static", "*">>, "Static"),
  On("root", Methods, <<>>, "Index") >>

(* Requests that fit the path of some route. *)
Names == {"x", "start", "logs"}
Paths == UNION {{[i \in DOMAIN r.path |-> IF r.path[i] # "*" THEN r.path[i]
                                          ELSE IF i = Len(r.path) THEN last ELSE inner] :
                   inner \in Names, last \in Names} : r \in {Routes[i] : i \in DOMAIN Routes}}

Fits(r, rq) ==
  /\ rq.method \in r.methods
  /\ DOMAIN rq.path = DOMAIN r.path
  /\ \A i \in DOMAIN r.path : r.path[i] \in {"*", rq.path[i]}

(* mux.Vars of a request is empty until a route has been chosen. *)
VerbWhileMatching(rq) == ""

Matches(r, rq) == Fits(r, rq) /\ (r.verbs # {} => VerbWhileMatching(rq) \in r.verbs)

(* The first route that matches; without one the answer is 404 or 405. *)
RouteOf(rq) ==
  LET matching == {i \in DOMAIN Routes : Matches(Routes[i], rq)} IN
  IF matching = {} THEN <<>>
  ELSE <<Routes[CHOOSE i \in matching : \A j \in matching : i <= j]>>

-----------------------------------------------------------------------------
(* Middlewares.  mux wraps those of the subrouter in those of the router. *)

(* A plausible slip: a subrouter without the JWT check. *)
UncheckedChain(r) ==
  IF r.under = "api" THEN <<"cors", "log", "whitelist", "limit", "secure">> ELSE <<"cors", "log">>

Chain(r) ==
  IF r.under = "api" THEN <<"cors", "log", "whitelist", "auth", "limit", "secure">>
  ELSE <<"cors", "log">>

(* The first of X-Forwarded-For, whoever sends it, and else the peer. *)
ClientIP(rq) == IF rq.forwarded # "none" THEN rq.forwarded ELSE rq.peer

IPAllowed(ip, allowed) ==
  ip # "unknown" /\ (ip \in allowed \/ ("subnet" \in allowed /\ ip \in Subnet))

(* The header is taken before the cookie, whatever it holds. *)
Token(rq) == IF rq.header # "none" THEN rq.header ELSE rq.cookie

(* The status a middleware answers with, or 0 when it calls the next one. *)
Verdict(mw, rq) ==
  CASE mw = "cors"      -> IF rq.method = "OPTIONS" THEN 204 ELSE 0
    [] mw = "whitelist" -> IF conf.allowed # {} /\ ~IPAllowed(ClientIP(rq), conf.allowed) THEN 403 ELSE 0
    [] mw = "auth"      -> IF Token(rq) # "good" THEN 401 ELSE 0
    [] mw = "limit"     -> IF rq.crowded THEN 429 ELSE 0
    [] OTHER            -> 0       \* they only add headers, or log

Unserved == [handler |-> "none", status |-> 404]

(* The handler that runs, or the status of the first middleware that answers. *)
Result(r, rq) ==
  LET chain == Chain(r)
      stops == {i \in DOMAIN chain : Verdict(chain[i], rq) # 0}
      stop  == CHOOSE i \in stops : \A j \in stops : i <= j IN
  IF stops = {} THEN [handler |-> r.handler, status |-> 0]     \* the handler's own
  ELSE [handler |-> "none", status |-> Verdict(chain[stop], rq)]

Request == [method : Methods, path : Paths, peer : Clients, forwarded : Clients \cup {"none"},
            header : {"none", "good", "bad"}, cookie : {"none", "good"}, crowded : BOOLEAN]

Idle == [result |-> Unserved]

Serve ==
  /\ conf.state = "running"
  /\ served = Idle
  /\ \E rq \in Request :
       served' = [rq |-> rq,
                  result |-> IF RouteOf(rq) = <<>> THEN Unserved ELSE Result(RouteOf(rq)[1], rq)]
  /\ UNCHANGED conf

Finish ==
  /\ served # Idle
  /\ served' = Idle
  /\ UNCHANGED conf

RequestInit ==
  /\ conf = [state |-> "unread"]
  /\ served = Idle

RequestNext == Load \/ Serve \/ Finish

RequestSpec == RequestInit /\ [][RequestNext]_requestVars

-----------------------------------------------------------------------------
(* Properties. *)

Handlers == {Routes[i].handler : i \in DOMAIN Routes}

RequestTypeOK ==
  /\ conf \in [state : {"unread", "failed"}]
               \cup [state : {"running"}, allowed : SUBSET (Items \ {""})]
  /\ served.result \in [handler : Handlers, status : {0}]
                        \cup [handler : {"none"}, status : {204, 401, 403, 404, 429}]
  /\ served # Idle => served.rq \in Request

Reached(handlers) == served.result.handler \in handlers

Protected == Handlers \ {"Health", "Login", "Refresh", "Static", "Index"}

(* Wherever a protected handler stands in the route table, it runs only with
   an accepted token and within the rate limit; a bad header is not made good
   by a good cookie. *)
ProtectedNeedToken ==
  Reached(Protected) =>
    /\ ~served.rq.crowded
    /\ served.rq.header = "good" \/ (served.rq.header = "none" /\ served.rq.cookie = "good")

(* A request that fits the method and the path of a route is answered by that
   route, with no earlier one in its way, unless it is one of the two routes
   with a verb: those have a matcher that accepts nothing. *)
OnlyVerbsAreUnserved ==
  served # Idle =>
    \A i \in DOMAIN Routes :
      Fits(Routes[i], served.rq) =>
        (RouteOf(served.rq) = <<Routes[i]>> <=> Routes[i].verbs = {})

(* README.md:242 "Start a container", README.md:243 "Stop a container", and
   router.go:138 "restricts an {action} route variable to the given verbs": a
   POST that ends in one of the verbs reaches the handler of the containers' or
   of the services' actions, when all the middlewares around it let it pass. *)
VerbsAreServed ==
  served # Idle =>
    \A i \in DOMAIN Routes :
      LET r  == Routes[i]
          rq == served.rq IN
      /\ Fits(r, rq)
      /\ r.verbs # {} /\ rq.path[Len(rq.path)] \in r.verbs
      /\ \A j \in DOMAIN Chain(r) : Verdict(Chain(r)[j], rq) = 0
      => served.result.handler = r.handler
=============================================================================
