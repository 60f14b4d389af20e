---------------------------- MODULE AuthSessions ----------------------------
(***************************************************************************)
(* Sessions: the login, refresh and logout handlers of                     *)
(* internal/handlers/auth_handler.go, running concurrently on RefreshStore *)
(* - a Go map that no lock protects - and the JWTs they hand out, which    *)
(* are kept nowhere on the server.                                         *)
(*                                                                         *)
(* A handler's access to the map has a beginning and an end.  If another   *)
(* access overlaps and one of the two writes, what happens is undefined:   *)
(* here the access takes effect or is lost, or the runtime notices and     *)
(* ends the process (Restart, which may come at any time anyway).          *)
(* Logout's loop deletes every key; the Go compiler turns it into one      *)
(* clearing of the map, so it is one access.                               *)
(*                                                                         *)
(* Whose session it is makes no difference to any step and is left out:    *)
(* Manager.Get always succeeds, as no operation removes an account.        *)
(***************************************************************************)
EXTENDS Integers, FiniteSets

CONSTANTS
  Handlers,     \* goroutines serving requests, one at a time each
  JwtLife,      \* 24 hours, in ticks of the clock
  RefreshLife,  \* 14 days
  MaxLogins,    \* bound: how many logins succeed
  Horizon,      \* bound: the last tick of the clock
  Nobody,       \* the goroutine serves none of the three requests
  NoJwt         \* the request was refused

Token == [login : Nat, expires : Nat]      \* auth.RefreshToken
Jwt   == [login : Nat, expires : Nat]      \* the login it descends from, exp

Call == [kind   : {"login", "refresh", "logout"},
         stage  : {"map", "mint", "answer"},
         tokens : SUBSET Token,            \* login: the new one; refresh: the one presented;
                                           \* logout: history, those handed out before
         jwt    : Jwt \cup {NoJwt},        \* the one to answer with; logout: the one presented
         racy   : BOOLEAN,                 \* the map access overlaps with a conflicting one
         late   : BOOLEAN]                 \* history: refresh of a revoked token

ASSUME LivesArePositive == JwtLife \in Nat \ {0} /\ RefreshLife \in Nat \ {0}
ASSUME BoundsAreNumbers == MaxLogins \in Nat /\ Horizon \in Nat
ASSUME NobodyIsNone     == Nobody \notin Call
ASSUME NoJwtIsNone      == NoJwt \notin Jwt

VARIABLES
  now,        \* the wall clock
  store,      \* RefreshStore; an expired token stays until a logout or a restart
  calls,      \* what each handler is doing
  logins,     \* how many refresh tokens were generated
  handed,     \* the refresh tokens clients hold
  jwts,       \* the JWTs clients hold and that have not expired
  revoked,    \* history: refresh tokens handed out before a logout that was answered
  swept,      \* history: refresh tokens removed by a logout or a restart
  raced       \* history: map accesses have conflicted since the process started

vars == <<now, store, calls, logins, handed, jwts, revoked, swept, raced>>

history == <<revoked, swept>>

-----------------------------------------------------------------------------
(* ParseJWT: the signature is right for every JWT a client was given. *)
Valid(j) == now < j.expires

At(h, kind, stage) == calls[h] # Nobody /\ calls[h].kind = kind /\ calls[h].stage = stage

(* The handlers inside a map access that one of this kind conflicts with. *)
Conflicts(kind) ==
  {g \in Handlers : /\ calls[g] # Nobody /\ calls[g].stage = "map"
                    /\ "refresh" \notin {kind} \cap {calls[g].kind}}

BeginAccess(h, kind, tokens, jwt) ==
  LET rivals == Conflicts(kind)
      call   == [kind |-> kind, stage |-> "map", tokens |-> tokens, jwt |-> jwt,
                 racy |-> rivals # {}, late |-> kind = "refresh" /\ tokens \cap revoked # {}] IN
  /\ calls[h] = Nobody
  /\ calls' = [g \in Handlers |-> IF g = h THEN call
                                  ELSE IF g \in rivals THEN [calls[g] EXCEPT !.racy = TRUE]
                                  ELSE calls[g]]
  /\ raced' = (raced \/ rivals # {})

Leave(h) == calls' = [calls EXCEPT ![h] = Nobody]

-----------------------------------------------------------------------------
(* Login: the password was right; GenerateJWT, GenerateRefresh, insert.    *)
Login(h) ==
  /\ logins < MaxLogins
  /\ logins' = logins + 1
  /\ BeginAccess(h, "login", {[login |-> logins + 1, expires |-> now + RefreshLife]},
                 [login |-> logins + 1, expires |-> now + JwtLife])
  /\ UNCHANGED <<now, store, handed, jwts, history>>

Inserted(h) ==
  /\ At(h, "login", "map")
  /\ store' \in {store \cup calls[h].tokens} \cup IF calls[h].racy THEN {store} ELSE {}
  /\ calls' = [calls EXCEPT ![h].stage = "answer"]
  /\ UNCHANGED <<now, logins, handed, jwts, history, raced>>

AnswerLogin(h) ==
  /\ At(h, "login", "answer")
  /\ handed' = handed \cup calls[h].tokens
  /\ jwts' = jwts \cup {calls[h].jwt}
  /\ Leave(h)
  /\ UNCHANGED <<now, store, logins, history, raced>>

-----------------------------------------------------------------------------
(* Refresh: look the token up, check its age, then generate a JWT.  The    *)
(* clock is read once for the check and once more for the JWT's expiry.    *)
Refresh(h) ==
  /\ \E t \in handed : BeginAccess(h, "refresh", {t}, NoJwt)
  /\ UNCHANGED <<now, store, logins, handed, jwts, history>>

(* A plausible slip: a refresh token serves only once. *)
LookedUpOnce(h) ==
  /\ At(h, "refresh", "map")
  /\ \E t \in calls[h].tokens :
       calls' = [calls EXCEPT ![h].stage =
                   IF t \in store /\ now <= t.expires THEN "mint" ELSE "answer"]
  /\ store' = store \ calls[h].tokens
  /\ UNCHANGED <<now, logins, handed, jwts, history, raced>>

LookedUp(h) ==
  /\ At(h, "refresh", "map")
  /\ \E t \in calls[h].tokens, found \in BOOLEAN :
       /\ found = (t \in store) \/ calls[h].racy
       /\ calls' = [calls EXCEPT ![h].stage =
                      IF found /\ now <= t.expires THEN "mint" ELSE "answer"]
  /\ UNCHANGED <<now, store, logins, handed, jwts, history, raced>>

(* A plausible slip: the lifetime is subtracted. *)
MintBackdated(h) ==
  /\ At(h, "refresh", "mint")
  /\ \E t \in calls[h].tokens :
       calls' = [calls EXCEPT ![h].stage = "answer",
                              ![h].jwt = [login |-> t.login, expires |-> now - JwtLife]]
  /\ UNCHANGED <<now, store, logins, handed, jwts, history, raced>>

Mint(h) ==
  /\ At(h, "refresh", "mint")
  /\ \E t \in calls[h].tokens :
       calls' = [calls EXCEPT ![h].stage = "answer",
                              ![h].jwt = [login |-> t.login, expires |-> now + JwtLife]]
  /\ UNCHANGED <<now, store, logins, handed, jwts, history, raced>>

AnswerRefresh(h) ==
  /\ At(h, "refresh", "answer")
  /\ jwts' = jwts \cup ({calls[h].jwt} \ {NoJwt})
  /\ Leave(h)
  /\ UNCHANGED <<now, store, logins, handed, history, raced>>

-----------------------------------------------------------------------------
(* Logout: AuthMiddleware accepts the JWT, and everybody's refresh tokens  *)
(* are deleted.  The client is told to drop its cookie; the JWT in it      *)
(* stays what it was.                                                      *)
Logout(h) ==
  /\ \E j \in jwts : Valid(j) /\ BeginAccess(h, "logout", handed, j)
  /\ UNCHANGED <<now, store, logins, handed, jwts, history>>

(* A plausible slip: only the tokens of the session that logs out go. *)
ClearedOwn(h) ==
  /\ At(h, "logout", "map")
  /\ store' = {t \in store : t.login # calls[h].jwt.login}
  /\ swept' = swept \cup (store \ store')
  /\ calls' = [calls EXCEPT ![h].stage = "answer"]
  /\ UNCHANGED <<now, logins, handed, jwts, revoked, raced>>

Cleared(h) ==
  /\ At(h, "logout", "map")
  /\ store' \in IF calls[h].racy THEN SUBSET store ELSE {{}}
  /\ swept' = swept \cup (store \ store')
  /\ calls' = [calls EXCEPT ![h].stage = "answer"]
  /\ UNCHANGED <<now, logins, handed, jwts, revoked, raced>>

AnswerLogout(h) ==
  /\ At(h, "logout", "answer")
  /\ revoked' = revoked \cup calls[h].tokens
  /\ Leave(h)
  /\ UNCHANGED <<now, store, logins, handed, jwts, swept, raced>>

-----------------------------------------------------------------------------
(* The process stops, or the runtime stops it over a conflict, and a new   *)
(* one starts with an empty map and the same JWT secret.                   *)
Restart ==
  /\ store' = {}
  /\ calls' = [h \in Handlers |-> Nobody]
  /\ swept' = swept \cup store \cup handed
  /\ raced' = FALSE
  /\ UNCHANGED <<now, logins, handed, jwts, revoked>>

(* A JWT that has expired is forgotten: nothing accepts it any more. *)
Tick ==
  LET fresh(js) == {j \in js : now + 1 < j.expires} IN
  /\ now < Horizon
  /\ now' = now + 1
  /\ jwts' = fresh(jwts)
  /\ UNCHANGED <<store, calls, logins, handed, revoked, swept, raced>>

Init ==
  /\ now = 0 /\ logins = 0
  /\ store = {} /\ handed = {} /\ jwts = {}
  /\ revoked = {} /\ swept = {}
  /\ calls = [h \in Handlers |-> Nobody]
  /\ raced = FALSE

Serve(h) ==
  \/ Login(h)   \/ Inserted(h) \/ AnswerLogin(h)
  \/ Refresh(h) \/ LookedUp(h) \/ Mint(h) \/ AnswerRefresh(h)
  \/ Logout(h)  \/ Cleared(h)  \/ AnswerLogout(h)

Next == (\E h \in Handlers : Serve(h)) \/ Restart \/ Tick

Spec == Init /\ [][Next]_vars

-----------------------------------------------------------------------------
(* Properties. *)

TypeOK ==
  /\ now \in Nat /\ logins \in Nat
  /\ store \subseteq Token /\ handed \subseteq Token
  /\ jwts \subseteq Jwt
  /\ revoked \subseteq handed /\ swept \subseteq Token
  /\ calls \in [Handlers -> Call \cup {Nobody}]
  /\ raced \in BOOLEAN

(* A refresh that begins after a logout was answered gets no JWT for a refresh
   token handed out before that logout began - whichever other logins and
   refreshes were under way, and as long as no map accesses conflicted. *)
LogoutRevokes ==
  ~raced => \A h \in Handlers :
    (calls[h] # Nobody /\ calls[h].kind = "refresh" /\ calls[h].late)
      => calls[h].stage # "mint" /\ calls[h].jwt = NoJwt

(* A refresh token a client was given is in the store for as long as no logout
   and no restart has removed it, provided map accesses did not conflict: one
   handler's login is not undone by another handler's refresh. *)
HandedTokensWork == ~raced => handed \subseteq store \cup swept
=============================================================================
