------------------------- MODULE RequestPathProofs -------------------------
(***************************************************************************)
(* For any settings, clients and networks: what must be true of a request  *)
(* before a protected handler sees it, and which routes answer anybody.    *)
(***************************************************************************)
EXTENDS RequestPath, WellFoundedInduction, TLAPS

(* What the panel answers. *)
Answer(rq) == IF RouteOf(rq) = <<>> THEN Unserved ELSE Result(RouteOf(rq)[1], rq)

AnsweredWhileRunning == served # Idle => conf.state = "running" /\ served.rq \in Request

(* What the properties say of the last answer. *)
Inv == AnsweredWhileRunning /\ ProtectedNeedToken /\ OnlyVerbsAreUnserved
-----------------------------------------------------------------------------
(* The route table. *)
Public == {"Health", "Login", "Refresh", "Static", "Index"}

(* The handler of a route has a name; it is public, or its route is below /api. *)
EveryRoute(r) == r.handler # "none" /\ (r.under = "api" \/ r.handler \in Public)

LEMMA TableIsSound == \A i \in DOMAIN Routes : EveryRoute(Routes[i])
<1>1. /\ EveryRoute(Routes[1]) /\ EveryRoute(Routes[2]) /\ EveryRoute(Routes[3]) /\ EveryRoute(Routes[4])
      /\ EveryRoute(Routes[5]) /\ EveryRoute(Routes[6]) /\ EveryRoute(Routes[7]) /\ EveryRoute(Routes[8])
  BY SMTT(60) DEF Routes, On, Api, Acts, Public, EveryRoute
<1>2. /\ EveryRoute(Routes[9]) /\ EveryRoute(Routes[10]) /\ EveryRoute(Routes[11]) /\ EveryRoute(Routes[12])
      /\ EveryRoute(Routes[13]) /\ EveryRoute(Routes[14]) /\ EveryRoute(Routes[15]) /\ EveryRoute(Routes[16])
  BY SMTT(60) DEF Routes, On, Api, Acts, Public, EveryRoute
<1>3. /\ EveryRoute(Routes[17]) /\ EveryRoute(Routes[18]) /\ EveryRoute(Routes[19]) /\ EveryRoute(Routes[20])
      /\ EveryRoute(Routes[21]) /\ EveryRoute(Routes[22]) /\ EveryRoute(Routes[23]) /\ EveryRoute(Routes[24])
  BY SMTT(60) DEF Routes, On, Api, Acts, Public, EveryRoute
<1>4. /\ EveryRoute(Routes[25]) /\ EveryRoute(Routes[26]) /\ EveryRoute(Routes[27]) /\ EveryRoute(Routes[28])
      /\ EveryRoute(Routes[29]) /\ EveryRoute(Routes[30]) /\ EveryRoute(Routes[31]) /\ EveryRoute(Routes[32])
      /\ EveryRoute(Routes[33]) /\ EveryRoute(Routes[34])
  BY SMTT(60) DEF Routes, On, Api, Acts, Public, EveryRoute
<1>5. DOMAIN Routes = 1 .. 34
  BY DEF Routes
<1>. HIDE DEF Routes, EveryRoute
<1>. QED
  BY <1>1, <1>2, <1>3, <1>4, <1>5

(* Every set of positions has a first one. *)
LEMMA FirstPosition ==
  ASSUME NEW S \in SUBSET Nat, S # {}
  PROVE  \E i \in S : \A j \in S : i <= j
<1>. DEFINE R == OpToRel(<, Nat)
<1>1. IsWellFoundedOn(R, Nat)
  BY NatLessThanWellFounded
<1>2. \A i, j \in Nat : <<j, i>> \in R <=> j < i
  BY DEF OpToRel
<1>. HIDE DEF R
<1>3. PICK i \in S : \A j \in S : <<j, i>> \notin R
  BY <1>1, WFMin
<1>4. ASSUME NEW j \in S PROVE i <= j
  <2>1. i \in Nat /\ j \in Nat
    OBVIOUS
  <2>2. ~(j < i)
    BY <1>2, <1>3, <2>1
  <2>. QED
    BY <2>1, <2>2
<1>. QED
  BY <1>4

(* An answer comes from a route, or from none. *)
LEMMA RoutesAnswer ==
  ASSUME NEW rq, RouteOf(rq) # <<>>
  PROVE  \E i \in DOMAIN Routes : Answer(rq) = Result(Routes[i], rq)
<1>. DEFINE matching == {i \in DOMAIN Routes : Matches(Routes[i], rq)}
            first    == CHOOSE i \in matching : \A j \in matching : i <= j
<1>1. matching # {} /\ RouteOf(rq) = <<Routes[first]>>
  BY DEF RouteOf
<1>2. first \in matching
  <2>. DOMAIN Routes \subseteq Nat
    BY DEF Routes
  <2>. QED
    BY <1>1, FirstPosition
<1>. HIDE DEF first
<1>3. Answer(rq) = Result(Routes[first], rq)
  BY <1>1 DEF Answer
<1>. QED
  BY <1>2, <1>3

LEMMA NamedAnswer ==
  ASSUME NEW rq, Answer(rq).handler # "none"
  PROVE  \E i \in DOMAIN Routes : Answer(rq) = Result(Routes[i], rq)
BY RoutesAnswer DEF Answer, Unserved

-----------------------------------------------------------------------------
(* Every request has its route: no two of those without a verb share a path.   *)
(* The position of a route in the table is read off the path it takes.         *)
Verbs == {"start", "stop", "restart"}

Row(i, path, verbs) == Routes[i].path = path /\ Routes[i].verbs = verbs

(* The route of three names that ends in name. *)
Third(name) ==
  CASE name = "login" -> 2
    [] name = "refresh" -> 3
    [] name = "logout" -> 4
    [] name = "setup-totp" -> 5
    [] name = "verify-totp" -> 6
    [] name = "me" -> 7
    [] name = "change-password" -> 8
    [] name = "info" -> 9
    [] name = "metrics" -> 10
    [] name = "network" -> 12
    [] name = "processes" -> 13
    [] name = "containers" -> 14
    [] name = "images" -> 18
    [] name = "stats" -> 19
    [] name = "list" -> 24
    [] name = "read" -> 25
    [] name = "download" -> 26
    [] name = "write" -> 27
    [] name = "upload" -> 28
    [] name = "mkdir" -> 29
    [] name = "rename" -> 30
    [] name = "delete" -> 31

(* The position of the one route without a verb whose path p fits. *)
Place(p) ==
  IF      5 \in DOMAIN p THEN 15
  ELSE IF 4 \in DOMAIN p THEN IF p[2] = "system" THEN 11 ELSE IF p[2] = "docker" THEN 17 ELSE 21
  ELSE IF 3 \in DOMAIN p THEN IF p[2] = "services" THEN 22 ELSE Third(p[3])
  ELSE IF 2 \in DOMAIN p THEN IF p[1] = "static" THEN 33 ELSE IF p[2] = "health" THEN 1
                             ELSE IF p[2] = "services" THEN 20 ELSE 32
  ELSE 34

(* The table, spelled out. *)
LEMMA AuthRows ==
  /\ Row(1, <<"api", "health">>, {})
  /\ Row(2, <<"api", "auth", "login">>, {})
  /\ Row(3, <<"api", "auth", "refresh">>, {})
  /\ Row(4, <<"api", "auth", "logout">>, {})
  /\ Row(5, <<"api", "auth", "setup-totp">>, {})
  /\ Row(6, <<"api", "auth", "verify-totp">>, {})
  /\ Row(7, <<"api", "auth", "me">>, {})
  /\ Row(8, <<"api", "auth", "change-password">>, {})
BY SMTT(60) DEF Routes, On, Api, Acts, Row, Verbs

LEMMA SystemRows ==
  /\ Row(9, <<"api", "system", "info">>, {})
  /\ Row(10, <<"api", "system", "metrics">>, {})
  /\ Row(11, <<"api", "system", "metrics", "history">>, {})
  /\ Row(12, <<"api", "system", "network">>, {})
  /\ Row(13, <<"api", "system", "processes">>, {})
BY SMTT(60) DEF Routes, On, Api, Acts, Row, Verbs

LEMMA DockerRows ==
  /\ Row(14, <<"api", "docker", "containers">>, {})
  /\ Row(15, <<"api", "docker", "containers", "*", "logs">>, {})
  /\ Row(16, <<"api", "docker", "containers", "*", "*">>, Verbs)
  /\ Row(17, <<"api", "docker", "containers", "*">>, {})
  /\ Row(18, <<"api", "docker", "images">>, {})
  /\ Row(19, <<"api", "docker", "stats">>, {})
BY SMTT(60) DEF Routes, On, Api, Acts, Row, Verbs

LEMMA ServiceRows ==
  /\ Row(20, <<"api", "services">>, {})
  /\ Row(21, <<"api", "services", "*", "logs">>, {})
  /\ Row(22, <<"api", "services", "*">>, {})
  /\ Row(23, <<"api", "services", "*", "*">>, Verbs)
BY SMTT(60) DEF Routes, On, Api, Acts, Row, Verbs

LEMMA FileAndPageRows ==
  /\ Row(24, <<"api", "files", "list">>, {})
  /\ Row(25, <<"api", "files", "read">>, {})
  /\ Row(26, <<"api", "files", "download">>, {})
  /\ Row(27, <<"api", "files", "write">>, {})
  /\ Row(28, <<"api", "files", "upload">>, {})
  /\ Row(29, <<"api", "files", "mkdir">>, {})
  /\ Row(30, <<"api", "files", "rename">>, {})
  /\ Row(31, <<"api", "files", "delete">>, {})
  /\ Row(32, <<"api", "terminal">>, {})
  /\ Row(33, <<"static", "*">>, {})
  /\ Row(34, <<>>, {})
BY SMTT(60) DEF Routes, On, Api, Acts, Row, Verbs

(* A route of three names whose last is no variable. *)
EndsInName(i) ==
  LET p == Routes[i].path IN
  DOMAIN p = 1 .. 3 /\ p[2] \notin {"*", "services"} /\ p[3] # "*" /\ Third(p[3]) = i

LEMMA ThreeNames == \A i \in (2 .. 10) \cup (12 .. 14) \cup {18, 19} \cup (24 .. 31) : EndsInName(i)
<1>1. \A i \in 2 .. 8 : EndsInName(i)
  BY AuthRows, SMTT(60) DEF Row, EndsInName, Third
<1>2. \A i \in {9, 10, 12, 13} : EndsInName(i)
  BY SystemRows, SMTT(60) DEF Row, EndsInName, Third
<1>3. \A i \in {14, 18, 19} : EndsInName(i)
  BY DockerRows, SMTT(60) DEF Row, EndsInName, Third
<1>4. \A i \in 24 .. 31 : EndsInName(i)
  BY FileAndPageRows, SMTT(60) DEF Row, EndsInName, Third
<1>. QED
  BY <1>1, <1>2, <1>3, <1>4

(* The other routes: of no name, of two, of three with a variable, of four and *)
(* of five.                                                                    *)
LEMMA OtherRoutes ==
  /\ Routes[1].path = <<"api", "health">> /\ Routes[20].path = <<"api", "services">>
  /\ Routes[32].path = <<"api", "terminal">> /\ Routes[33].path = <<"static", "*">>
  /\ Routes[34].path = <<>> /\ Routes[22].path = <<"api", "services", "*">>
  /\ Routes[11].path = <<"api", "system", "metrics", "history">>
  /\ Routes[17].path = <<"api", "docker", "containers", "*">>
  /\ Routes[21].path = <<"api", "services", "*", "logs">>
  /\ Routes[15].path = <<"api", "docker", "containers", "*", "logs">>
BY AuthRows, SystemRows, DockerRows, ServiceRows, FileAndPageRows DEF Row

(* Exactly the routes of a container's and of a service's action have a verb. *)
LEMMA TwoHaveVerbs ==
  \A i \in DOMAIN Routes : IF i \in {16, 23} THEN Routes[i].verbs = Verbs ELSE Routes[i].verbs = {}
<1>1. DOMAIN Routes = 1 .. 34
  BY DEF Routes
<1>. QED
  BY <1>1, AuthRows, SystemRows, DockerRows, ServiceRows, FileAndPageRows, SMTT(60)
  DEF Row

(* A name that a route spells out stands in the path it takes. *)
LEMMA TakesPath ==
  ASSUME NEW p, NEW q, DOMAIN q = DOMAIN p, \A k \in DOMAIN p : p[k] \in {"*", q[k]}
  PROVE  \A k \in DOMAIN p : p[k] # "*" => q[k] = p[k]
OBVIOUS

LEMMA OneRoute ==
  ASSUME NEW i \in DOMAIN Routes, NEW rq, Fits(Routes[i], rq), Routes[i].verbs = {}
  PROVE  Place(rq.path) = i
<1>. DEFINE q == rq.path
            p == Routes[i].path
<1>1. DOMAIN Routes = 1 .. 34 /\ Verbs # {}
  BY DEF Routes, Verbs
<1>2. i \in 1 .. 34 \ {16, 23}
  BY <1>1, TwoHaveVerbs
<1>3. DOMAIN q = DOMAIN p /\ \A k \in DOMAIN p : p[k] # "*" => q[k] = p[k]
  BY TakesPath DEF Fits
<1>4. CASE i \in (2 .. 10) \cup (12 .. 14) \cup {18, 19} \cup (24 .. 31)
  <2>1. EndsInName(i)
    BY <1>4, ThreeNames
  <2>2. DOMAIN p = 1 .. 3 /\ p[2] \notin {"*", "services"} /\ p[3] # "*" /\ Third(p[3]) = i
    BY <2>1 DEF EndsInName
  <2>. HIDE DEF p, q
  <2>3. DOMAIN q = 1 .. 3 /\ q[2] # "services" /\ Third(q[3]) = i
    BY <1>3, <2>2
  <2>4. Place(q) = Third(q[3])
    BY <2>3 DEF Place
  <2>. QED
    BY <2>3, <2>4 DEF q
<1>5. CASE i = 1
  <2>1. p = <<"api", "health">>
    BY <1>5, OtherRoutes
  <2>. HIDE DEF p, q
  <2>. QED
    BY <1>5, <1>3, <2>1 DEF Place, q
<1>6. CASE i = 11
  <2>1. p = <<"api", "system", "metrics", "history">>
    BY <1>6, OtherRoutes
  <2>. HIDE DEF p, q
  <2>. QED
    BY <1>6, <1>3, <2>1 DEF Place, q
<1>7. CASE i = 15
  <2>1. p = <<"api", "docker", "containers", "*", "logs">>
    BY <1>7, OtherRoutes
  <2>. HIDE DEF p, q
  <2>. QED
    BY <1>7, <1>3, <2>1 DEF Place, q
<1>8. CASE i = 17
  <2>1. p = <<"api", "docker", "containers", "*">>
    BY <1>8, OtherRoutes
  <2>. HIDE DEF p, q
  <2>. QED
    BY <1>8, <1>3, <2>1 DEF Place, q
<1>9. CASE i = 20
  <2>1. p = <<"api", "services">>
    BY <1>9, OtherRoutes
  <2>. HIDE DEF p, q
  <2>. QED
    BY <1>9, <1>3, <2>1 DEF Place, q
<1>10. CASE i = 21
  <2>1. p = <<"api", "services", "*", "logs">>
    BY <1>10, OtherRoutes
  <2>. HIDE DEF p, q
  <2>. QED
    BY <1>10, <1>3, <2>1 DEF Place, q
<1>11. CASE i = 22
  <2>1. p = <<"api", "services", "*">>
    BY <1>11, OtherRoutes
  <2>. HIDE DEF p, q
  <2>. QED
    BY <1>11, <1>3, <2>1 DEF Place, q
<1>12. CASE i = 32
  <2>1. p = <<"api", "terminal">>
    BY <1>12, OtherRoutes
  <2>. HIDE DEF p, q
  <2>. QED
    BY <1>12, <1>3, <2>1 DEF Place, q
<1>13. CASE i = 33
  <2>1. p = <<"static", "*">>
    BY <1>13, OtherRoutes
  <2>. HIDE DEF p, q
  <2>. QED
    BY <1>13, <1>3, <2>1 DEF Place, q
<1>14. CASE i = 34
  <2>1. p = <<>>
    BY <1>14, OtherRoutes
  <2>. HIDE DEF p, q
  <2>. QED
    BY <1>14, <1>3, <2>1 DEF Place, q
<1>. QED
  BY <1>2, <1>4, <1>5, <1>6, <1>7, <1>8, <1>9, <1>10, <1>11, <1>12, <1>13, <1>14

(* A route without a verb matches what it fits, one with a verb nothing. *)
LEMMA OnlyVerbsFail ==
  ASSUME NEW i \in DOMAIN Routes, NEW rq
  PROVE  Matches(Routes[i], rq) <=> Fits(Routes[i], rq) /\ Routes[i].verbs = {}
<1>1. "" \notin Verbs /\ Verbs # {}
  BY DEF Verbs
<1>2. Routes[i].verbs \in {Verbs, {}}
  BY TwoHaveVerbs
<1>. HIDE DEF Routes, Verbs
<1>. QED
  BY <1>1, <1>2 DEF Matches, VerbWhileMatching

(* So a route answers exactly what it fits, unless it has a verb. *)
LEMMA EachRouteAnswers ==
  ASSUME NEW i \in DOMAIN Routes, NEW rq, Fits(Routes[i], rq)
  PROVE  RouteOf(rq) = <<Routes[i]>> <=> Routes[i].verbs = {}
<1>. DEFINE matching == {j \in DOMAIN Routes : Matches(Routes[j], rq)}
            first    == CHOOSE j \in matching : \A k \in matching : j <= k
<1>1. RouteOf(rq) = IF matching = {} THEN <<>> ELSE <<Routes[first]>>
  BY DEF RouteOf
<1>2. \A j \in matching : Routes[j].verbs = {} /\ Place(rq.path) = j
  BY OnlyVerbsFail, OneRoute
<1>3. matching # {} => first \in matching
  <2>. DOMAIN Routes \subseteq Nat
    BY DEF Routes
  <2>. QED
    BY FirstPosition
<1>4. Routes[i].verbs = {} => i \in matching
  BY OnlyVerbsFail
<1>. HIDE DEF matching, first
<1>5. CASE Routes[i].verbs = {}
  BY <1>1, <1>2, <1>3, <1>4, <1>5
<1>6. CASE Routes[i].verbs # {}
  BY <1>1, <1>2, <1>3, <1>6
<1>. QED
  BY <1>5, <1>6

-----------------------------------------------------------------------------
(* One answer. *)

(* A handler runs when every middleware around it has called the next one. *)
LEMMA HandlerRuns ==
  ASSUME NEW r, NEW rq, Result(r, rq).handler # "none"
  PROVE  /\ Result(r, rq).handler = r.handler
         /\ \A i \in DOMAIN Chain(r) : Verdict(Chain(r)[i], rq) = 0
BY DEF Result

LEMMA ProtectedRuns ==
  ASSUME NEW rq, Answer(rq).handler \in Protected
  PROVE  Token(rq) = "good" /\ ~rq.crowded
<1>1. Answer(rq).handler # "none" /\ Answer(rq).handler \notin Public
  <2>. \A h \in Handlers : h # "none"
    BY TableIsSound DEF Handlers, EveryRoute
  <2>. QED
    BY DEF Protected, Public
<1>2. PICK i \in DOMAIN Routes : Answer(rq) = Result(Routes[i], rq)
  BY <1>1, NamedAnswer
<1>3. /\ Routes[i].handler \notin Public
      /\ \A j \in DOMAIN Chain(Routes[i]) : Verdict(Chain(Routes[i])[j], rq) = 0
  BY <1>1, <1>2, HandlerRuns
<1>4. Chain(Routes[i]) = <<"cors", "log", "whitelist", "auth", "limit", "secure">>
  BY <1>3, TableIsSound DEF EveryRoute, Chain
<1>5. Verdict("auth", rq) = 0 /\ Verdict("limit", rq) = 0
  <2>. DEFINE c == <<"cors", "log", "whitelist", "auth", "limit", "secure">>
  <2>1. 4 \in DOMAIN c /\ 5 \in DOMAIN c /\ c[4] = "auth" /\ c[5] = "limit"
    OBVIOUS
  <2>. HIDE DEF c
  <2>. QED
    BY <1>3, <1>4, <2>1 DEF c
<1>. QED
  BY <1>5 DEF Verdict

(* A middleware that answers does so with one of four statuses; the first that *)
(* answers decides.                                                            *)
LEMMA StopDecides ==
  ASSUME NEW r, NEW rq
  PROVE  LET chain == Chain(r)
             stops == {i \in DOMAIN chain : Verdict(chain[i], rq) # 0}
             stop  == CHOOSE i \in stops : \A j \in stops : i <= j IN
         stops # {} => /\ stop \in DOMAIN chain
                       /\ Verdict(chain[stop], rq) \in {204, 401, 403, 429}
<1>. DEFINE chain == Chain(r)
            stops == {i \in DOMAIN chain : Verdict(chain[i], rq) # 0}
            stop  == CHOOSE i \in stops : \A j \in stops : i <= j
<1>. SUFFICES ASSUME stops # {}
              PROVE  /\ stop \in DOMAIN chain
                     /\ Verdict(chain[stop], rq) \in {204, 401, 403, 429}
  OBVIOUS
<1>1. DOMAIN chain \subseteq Nat
  BY DEF Chain
<1>2. stop \in stops
  BY <1>1, FirstPosition
<1>3. \A mw : Verdict(mw, rq) \in {0, 204, 401, 403, 429}
  BY DEF Verdict
<1>. HIDE DEF stop, chain
<1>. QED
  BY <1>2, <1>3

LEMMA ResultType ==
  ASSUME NEW i \in DOMAIN Routes, NEW rq
  PROVE  Result(Routes[i], rq) \in [handler : Handlers, status : {0}]
                                     \cup [handler : {"none"}, status : {204, 401, 403, 404, 429}]
<1>. DEFINE r     == Routes[i]
            chain == Chain(r)
            stops == {j \in DOMAIN chain : Verdict(chain[j], rq) # 0}
            stop  == CHOOSE j \in stops : \A k \in stops : j <= k
<1>1. r.handler \in Handlers
  BY DEF Handlers
<1>2. stops # {} => /\ stop \in DOMAIN chain
                    /\ Verdict(chain[stop], rq) \in {204, 401, 403, 429}
  BY StopDecides
<1>3. Result(r, rq) = IF stops = {} THEN [handler |-> r.handler, status |-> 0]
                      ELSE [handler |-> "none", status |-> Verdict(chain[stop], rq)]
  BY DEF Result
<1>. HIDE DEF r, chain, stops, stop
<1>. QED
  BY <1>1, <1>2, <1>3 DEF r

-----------------------------------------------------------------------------
(* The inductive invariant. *)

LEMMA NoneIsNoHandler == "none" \notin Protected
BY TableIsSound DEF Protected, Handlers, EveryRoute

(* A panel that has answered nothing has let nobody in. *)
LEMMA IdleIsSafe == served = Idle => Inv
<1>1. Idle.result = Unserved /\ Unserved.handler = "none"
  BY DEF Idle, Unserved
<1>. QED
  BY <1>1, NoneIsNoHandler
  DEF Inv, AnsweredWhileRunning, ProtectedNeedToken, OnlyVerbsAreUnserved, Reached

LEMMA NextIdleIsSafe == served' = Idle => Inv'
<1>1. (served = Idle => Inv)'
  BY IdleIsSafe, PTL
<1>. QED
  BY <1>1 DEF Idle, Unserved

LEMMA Serve_Step == Inv /\ Serve => Inv'
<1>. SUFFICES ASSUME Inv, Serve PROVE Inv'
  OBVIOUS
<1>1. PICK rq \in Request : served' = [rq |-> rq, result |-> Answer(rq)]
  BY DEF Serve, Answer
<1>2. AnsweredWhileRunning'
  BY <1>1 DEF Serve, AnsweredWhileRunning
<1>3. ProtectedNeedToken'
  <2>. SUFFICES ASSUME Reached(Protected)'
                PROVE  /\ ~rq.crowded
                       /\ rq.header = "good" \/ (rq.header = "none" /\ rq.cookie = "good")
    BY <1>1 DEF ProtectedNeedToken
  <2>1. Token(rq) = "good" /\ ~rq.crowded
    BY <1>1, ProtectedRuns DEF Reached
  <2>. QED
    BY <2>1 DEF Token
<1>4. OnlyVerbsAreUnserved'
  BY <1>1, EachRouteAnswers DEF OnlyVerbsAreUnserved
<1>. QED
  BY <1>2, <1>3, <1>4 DEF Inv

LEMMA Next_Inv == Inv /\ [RequestNext]_requestVars => Inv'
<1>1. CASE Load
  <2>. SUFFICES ASSUME Inv PROVE Inv'
    BY <1>1
  <2>1. served = Idle
    BY <1>1 DEF Inv, AnsweredWhileRunning, Load
  <2>. QED
    BY <1>1, <2>1, NextIdleIsSafe DEF Load
<1>2. CASE Finish
  BY <1>2, NextIdleIsSafe DEF Finish
<1>3. CASE UNCHANGED requestVars
  BY <1>3 DEF requestVars, Inv, AnsweredWhileRunning, Idle, Unserved, ProtectedNeedToken,
     OnlyVerbsAreUnserved, Reached
<1>. QED
  BY <1>1, <1>2, <1>3, Serve_Step DEF RequestNext

LEMMA InvHolds == RequestSpec => []Inv
<1>1. RequestInit => Inv
  BY IdleIsSafe DEF RequestInit
<1>. QED
  BY <1>1, Next_Inv, PTL DEF RequestSpec

-----------------------------------------------------------------------------
LEMMA SplitIsOfItems ==
  ASSUME NEW inFile \in SUBSET (Items \ {""}), NEW text \in Texts
  PROVE  AllowedIPs(inFile, text) \in SUBSET (Items \ {""})
<1>1. PICK n \in 1 .. 2 : text \in [1 .. n -> Items]
  BY DEF Texts
<1>2. \A i \in DOMAIN text : text[i] \in Items
  BY <1>1
<1>. QED
  BY <1>2 DEF AllowedIPs, SplitCSV

ConfTyped == conf \in [state : {"unread", "failed"}]
                        \cup [state : {"running"}, allowed : SUBSET (Items \ {""})]
ServedTyped ==
  /\ served.result \in [handler : Handlers, status : {0}]
                        \cup [handler : {"none"}, status : {204, 401, 403, 404, 429}]
  /\ served # Idle => served.rq \in Request

LEMMA TypedIs == RequestTypeOK <=> ConfTyped /\ ServedTyped
BY DEF RequestTypeOK, ConfTyped, ServedTyped

LEMMA IdleTyped == served = Idle => ServedTyped
<1>. Idle.result = Unserved
  BY DEF Idle
<1>. QED
  BY DEF ServedTyped, Unserved

LEMMA NextIdleTyped == served' = Idle => ServedTyped'
<1>1. (served = Idle => ServedTyped)'
  BY IdleTyped, PTL
<1>. QED
  BY <1>1 DEF Idle, Unserved

LEMMA NextTypedIs == RequestTypeOK' <=> ConfTyped' /\ ServedTyped'
BY TypedIs, PTL

LEMMA Typed == RequestTypeOK /\ [RequestNext]_requestVars => RequestTypeOK'
<1>. SUFFICES ASSUME RequestTypeOK, [RequestNext]_requestVars PROVE RequestTypeOK'
  OBVIOUS
<1>. ConfTyped /\ ServedTyped
  BY TypedIs
<1>1. ASSUME UNCHANGED conf
      PROVE  ConfTyped'
  BY <1>1 DEF ConfTyped
<1>2. ASSUME UNCHANGED served
      PROVE  ServedTyped'
  BY <1>2 DEF ServedTyped, Idle, Unserved
<1>3. CASE Load
  <2>1. PICK file \in Files, env \in Environments, inFile \in SUBSET (Items \ {""}), text \in Texts :
          conf' = IF Loads(file, env)
                  THEN [state |-> "running", allowed |-> AllowedIPs(inFile, text)]
                  ELSE [state |-> "failed"]
    BY <1>3 DEF Load
  <2>2. AllowedIPs(inFile, text) \in SUBSET (Items \ {""})
    BY SplitIsOfItems
  <2>3. ConfTyped'
    BY <2>1, <2>2 DEF ConfTyped
  <2>. QED
    BY <1>2, <1>3, <2>3, NextTypedIs DEF Load
<1>4. CASE Serve
  <2>1. PICK rq \in Request : served' = [rq |-> rq, result |-> Answer(rq)]
    BY <1>4 DEF Serve, Answer
  <2>2. Answer(rq) \in [handler : Handlers, status : {0}]
                          \cup [handler : {"none"}, status : {204, 401, 403, 404, 429}]
    <3>1. CASE RouteOf(rq) = <<>>
      BY <3>1 DEF Answer, Unserved
    <3>2. CASE RouteOf(rq) # <<>>
      BY <3>2, RoutesAnswer, ResultType
    <3>. QED
      BY <3>1, <3>2
  <2>3. ServedTyped'
    BY <2>1, <2>2 DEF ServedTyped
  <2>. QED
    BY <1>1, <1>4, <2>3, NextTypedIs DEF Serve
<1>5. CASE Finish
  BY <1>1, <1>5, NextIdleTyped, NextTypedIs DEF Finish
<1>6. CASE UNCHANGED requestVars
  BY <1>1, <1>2, <1>6, NextTypedIs DEF requestVars
<1>. QED
  BY <1>3, <1>4, <1>5, <1>6 DEF RequestNext

-----------------------------------------------------------------------------
(* Every loaded configuration and every answer is well typed: a request gets *)
(* either one handler or the status of a middleware, never both and never    *)
(* neither.                                                                  *)
THEOREM TypeCorrect == RequestSpec => []RequestTypeOK
<1>1. RequestInit => RequestTypeOK
  BY DEF RequestInit, RequestTypeOK, Idle, Unserved
<1>. QED
  BY <1>1, Typed, PTL DEF RequestSpec

(* The JWT check and the rate limiter stand before every protected handler of *)
(* the route table.                                                           *)
THEOREM TokenHolds == RequestSpec => []ProtectedNeedToken
<1>. Inv => ProtectedNeedToken
  BY DEF Inv
<1>. QED
  BY InvHolds, PTL

(* Of the routes in Router's table, in the order it registers them, none takes *)
(* a request from another, for any names in its path: a request that fits one  *)
(* is answered by it, and only the two with a verb answer nobody.              *)
THEOREM RoutesAreServed == RequestSpec => []OnlyVerbsAreUnserved
<1>. Inv => OnlyVerbsAreUnserved
  BY DEF Inv
<1>. QED
  BY InvHolds, PTL

=============================================================================
