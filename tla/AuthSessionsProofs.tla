------------------------ MODULE AuthSessionsProofs ------------------------
(***************************************************************************)
(* For any number of handlers and any lifetimes: what a logout cuts off,   *)
(* and that nothing else does, as long as no map accesses have conflicted. *)
(***************************************************************************)
EXTENDS AuthSessions, TLAPS

(* What the requests under way carry: a login its JWT, a refresh one token *)
(* that a client holds, a logout its JWT and tokens that clients hold.     *)
Shape ==
  \A h \in Handlers : calls[h] # Nobody =>
    /\ calls[h].kind = "login"   => calls[h].jwt \in Jwt
    /\ calls[h].kind = "refresh" => /\ \E t \in handed : calls[h].tokens = {t}
                                    /\ calls[h].stage # "answer" => calls[h].jwt = NoJwt
    /\ calls[h].kind = "logout"  => calls[h].jwt \in Jwt /\ calls[h].tokens \subseteq handed

(* The token of a login that has not been answered is nobody else's yet. *)
Unshared ==
  /\ \A t \in handed : t.login <= logins
  /\ \A h \in Handlers : (calls[h] # Nobody /\ calls[h].kind = "login") =>
       \A t \in calls[h].tokens :
         /\ t.login <= logins
         /\ \A u \in handed : u.login # t.login
         /\ \A g \in Handlers \ {h} : (calls[g] # Nobody /\ calls[g].kind = "login") =>
              \A u \in calls[g].tokens : u.login # t.login

(* Until map accesses conflict: *)

(* no handler is in a conflicting one; *)
Calm == ~raced => \A h \in Handlers : calls[h] # Nobody => ~calls[h].racy

(* what was revoked, or is about to be, is not in the store; and the refresh
   of a revoked token finds nothing; *)
CutOff ==
  ~raced =>
    /\ revoked \cap store = {}
    /\ \A h \in Handlers : At(h, "logout", "answer") => calls[h].tokens \cap store = {}
    /\ \A h \in Handlers : (calls[h] # Nobody /\ calls[h].late) => calls[h].tokens \subseteq revoked

(* what clients hold, or are about to, is there unless it was swept. *)
Kept ==
  ~raced =>
    /\ handed \subseteq store \cup swept
    /\ \A h \in Handlers : At(h, "login", "answer") => calls[h].tokens \subseteq store \cup swept

Inv == TypeOK /\ Shape /\ Unshared /\ Calm /\ CutOff /\ LogoutRevokes /\ Kept

-----------------------------------------------------------------------------
LEMMA CallIsSome ==
  ASSUME NEW c \in Call \cup {Nobody}
  PROVE  c # Nobody <=> c \in Call
BY NobodyIsNone

(* What an access that begins changes: the caller's own entry, and whether *)
(* its rivals' accesses are racy.                                          *)
Begun(h, kind, tokens, jwt) ==
  /\ calls[h] = Nobody
  /\ calls' \in [Handlers -> Call \cup {Nobody}]
  /\ raced' \in BOOLEAN
  /\ calls'[h] # Nobody /\ calls'[h].kind = kind /\ calls'[h].stage = "map"
  /\ calls'[h].tokens = tokens /\ calls'[h].jwt = jwt
  /\ calls'[h].late = (kind = "refresh" /\ tokens \cap revoked # {})
  /\ \A g \in Handlers \ {h} :
       /\ calls'[g] # Nobody <=> calls[g] # Nobody
       /\ calls[g] # Nobody =>
            /\ calls'[g].kind = calls[g].kind /\ calls'[g].stage = calls[g].stage
            /\ calls'[g].tokens = calls[g].tokens /\ calls'[g].jwt = calls[g].jwt
            /\ calls'[g].late = calls[g].late
  /\ ~raced' => /\ ~raced
                /\ ~calls'[h].racy
                /\ \A g \in Handlers \ {h} : calls'[g] = calls[g]

(* What a handler changes that goes on to the next stage of its request. *)
Advanced(h, stage, jwt) ==
  /\ calls' \in [Handlers -> Call \cup {Nobody}]
  /\ calls'[h] # Nobody /\ calls'[h].stage = stage /\ calls'[h].jwt = jwt
  /\ calls'[h].kind = calls[h].kind /\ calls'[h].tokens = calls[h].tokens
  /\ calls'[h].racy = calls[h].racy /\ calls'[h].late = calls[h].late
  /\ \A g \in Handlers \ {h} : calls'[g] = calls[g]

Left(h) ==
  /\ calls' \in [Handlers -> Call \cup {Nobody}]
  /\ calls'[h] = Nobody
  /\ \A g \in Handlers \ {h} : calls'[g] = calls[g]

LEMMA Begins ==
  ASSUME TypeOK, NEW h \in Handlers, NEW kind \in {"login", "refresh", "logout"},
         NEW tokens \in SUBSET Token, NEW jwt \in Jwt \cup {NoJwt},
         BeginAccess(h, kind, tokens, jwt)
  PROVE  Begun(h, kind, tokens, jwt)
<1> DEFINE rivals == Conflicts(kind)
           call   == [kind |-> kind, stage |-> "map", tokens |-> tokens, jwt |-> jwt,
                      racy |-> rivals # {}, late |-> kind = "refresh" /\ tokens \cap revoked # {}]
<1>1. /\ calls[h] = Nobody
      /\ calls' = [g \in Handlers |-> IF g = h THEN call
                                      ELSE IF g \in rivals THEN [calls[g] EXCEPT !.racy = TRUE]
                                      ELSE calls[g]]
      /\ raced' = (raced \/ rivals # {})
  BY DEF BeginAccess
<1>2. call \in Call
  BY DEF Call
<1>3. \A g \in Handlers : g \in rivals => calls[g] \in Call
  BY CallIsSome DEF Conflicts, TypeOK
<1>4. \A c \in Call : [c EXCEPT !.racy = TRUE] \in Call
  BY DEF Call
<1>5. call # Nobody /\ \A c \in Call : c # Nobody
  BY <1>2, NobodyIsNone
<1>6. calls' \in [Handlers -> Call \cup {Nobody}]
  <2> HIDE DEF rivals, call
  <2> QED BY <1>1, <1>2, <1>3, <1>4 DEF TypeOK
<1>7. /\ calls'[h] = call /\ call.kind = kind /\ call.stage = "map"
      /\ call.tokens = tokens /\ call.jwt = jwt /\ call.racy = (rivals # {})
      /\ call.late = (kind = "refresh" /\ tokens \cap revoked # {})
  BY <1>1
<1>8. ASSUME NEW g \in Handlers \ {h}
      PROVE  /\ calls'[g] # Nobody <=> calls[g] # Nobody
             /\ calls[g] # Nobody =>
                  /\ calls'[g].kind = calls[g].kind /\ calls'[g].stage = calls[g].stage
                  /\ calls'[g].tokens = calls[g].tokens /\ calls'[g].jwt = calls[g].jwt
                  /\ calls'[g].late = calls[g].late
             /\ rivals = {} => calls'[g] = calls[g]
  <2>1. CASE g \in rivals
    <3>1. calls'[g] = [calls[g] EXCEPT !.racy = TRUE] /\ calls[g] \in Call
      BY <1>1, <1>3, <2>1
    <3> QED
      BY <3>1, <1>4, <1>5, <2>1 DEF Call
  <2>2. CASE g \notin rivals
    BY <1>1, <2>2
  <2> QED
    BY <2>1, <2>2
<1> QED
  <2> HIDE DEF rivals, call
  <2> QED BY <1>1, <1>5, <1>6, <1>7, <1>8 DEF TypeOK, Begun

LEMMA Advances ==
  ASSUME TypeOK, NEW h \in Handlers, calls[h] # Nobody,
         NEW stage \in {"map", "mint", "answer"}, NEW jwt \in Jwt \cup {NoJwt},
         \/ calls' = [calls EXCEPT ![h].stage = stage] /\ jwt = calls[h].jwt
         \/ calls' = [calls EXCEPT ![h].stage = stage, ![h].jwt = jwt]
  PROVE  Advanced(h, stage, jwt)
<1>1. calls[h] \in Call
  BY CallIsSome DEF TypeOK
<1>2. \A c \in Call : /\ [c EXCEPT !.stage = stage] \in Call
                      /\ [c EXCEPT !.stage = stage, !.jwt = jwt] \in Call
  BY DEF Call
<1>3. \/ calls'[h] = [calls[h] EXCEPT !.stage = stage] /\ jwt = calls[h].jwt
      \/ calls'[h] = [calls[h] EXCEPT !.stage = stage, !.jwt = jwt]
  BY DEF TypeOK
<1>4. calls'[h] \in Call
  BY <1>1, <1>2, <1>3
<1>5. calls'[h] # Nobody
  BY <1>4, NobodyIsNone
<1>6. \A g \in Handlers \ {h} : calls'[g] = calls[g]
  BY DEF TypeOK
<1>7. /\ calls'[h].stage = stage /\ calls'[h].jwt = jwt
      /\ calls'[h].kind = calls[h].kind /\ calls'[h].tokens = calls[h].tokens
      /\ calls'[h].racy = calls[h].racy /\ calls'[h].late = calls[h].late
  BY <1>1, <1>3 DEF Call
<1>8. calls' \in [Handlers -> Call \cup {Nobody}]
  BY <1>4, <1>6 DEF TypeOK
<1> QED
  BY <1>5, <1>6, <1>7, <1>8 DEF Advanced

LEMMA Leaves ==
  ASSUME TypeOK, NEW h \in Handlers, Leave(h)
  PROVE  Left(h)
BY DEF Leave, TypeOK, Left

-----------------------------------------------------------------------------
(* Each action preserves the invariant.                                    *)

LEMMA LoginStep ==
  ASSUME Inv, NEW h \in Handlers, Login(h) PROVE Inv'
<1> DEFINE token == [login |-> logins + 1, expires |-> now + RefreshLife]
           jwt   == [login |-> logins + 1, expires |-> now + JwtLife]
<1>1. TypeOK /\ Shape /\ Unshared /\ Calm /\ CutOff /\ LogoutRevokes /\ Kept
  BY DEF Inv
<1>2. /\ BeginAccess(h, "login", {token}, jwt)
      /\ logins' = logins + 1
      /\ UNCHANGED <<now, store, handed, jwts, revoked, swept>>
  BY DEF Login, history
<1>3. /\ token \in Token /\ token.login = logins + 1 /\ jwt \in Jwt
      /\ logins \in Nat /\ handed \subseteq Token
  BY <1>1, LivesArePositive DEF TypeOK, Token, Jwt
<1> HIDE DEF token, jwt
<1>4. Begun(h, "login", {token}, jwt)
  BY <1>1, <1>2, <1>3, Begins
<1>5. TypeOK'
  BY <1>1, <1>2, <1>4 DEF TypeOK, Begun
<1>6. Shape'
  BY <1>1, <1>2, <1>3, <1>4 DEF Shape, Begun
<1>7. Unshared'
  <2>1. \A t \in handed : t.login \in Nat
    BY <1>3 DEF Token
  <2>2. \A g \in Handlers : calls[g] # Nobody => \A t \in calls[g].tokens : t.login \in Nat
    BY <1>1, CallIsSome DEF TypeOK, Call, Token
  <2> QED
    BY <1>1, <1>2, <1>3, <1>4, <2>1, <2>2 DEF Unshared, Begun
<1>8. Calm'
  BY <1>1, <1>2, <1>4 DEF Calm, Begun
<1>9. CutOff'
  BY <1>1, <1>2, <1>4 DEF CutOff, Begun, At
<1>10. LogoutRevokes'
  BY <1>1, <1>2, <1>4 DEF LogoutRevokes, Begun
<1>11. Kept'
  BY <1>1, <1>2, <1>4 DEF Kept, Begun, At
<1> QED
  BY <1>5, <1>6, <1>7, <1>8, <1>9, <1>10, <1>11 DEF Inv

LEMMA InsertedStep ==
  ASSUME Inv, NEW h \in Handlers, Inserted(h) PROVE Inv'
<1>1. TypeOK /\ Shape /\ Unshared /\ Calm /\ CutOff /\ LogoutRevokes /\ Kept
  BY DEF Inv
<1>2. /\ calls[h] # Nobody /\ calls[h].kind = "login" /\ calls[h].stage = "map"
      /\ store' \in {store \cup calls[h].tokens} \cup (IF calls[h].racy THEN {store} ELSE {})
      /\ calls' = [calls EXCEPT ![h].stage = "answer"]
      /\ UNCHANGED <<now, logins, handed, jwts, revoked, swept, raced>>
  BY DEF Inserted, At, history
<1>3. calls[h] \in Call
  BY <1>1, <1>2, CallIsSome DEF TypeOK
<1>4. Advanced(h, "answer", calls[h].jwt)
  BY <1>1, <1>2, <1>3, Advances DEF Call
<1>5. TypeOK'
  BY <1>1, <1>2, <1>3, <1>4 DEF TypeOK, Advanced, Call
<1>6. Shape'
  BY <1>1, <1>2, <1>4 DEF Shape, Advanced
<1>7. Unshared'
  BY <1>1, <1>2, <1>4 DEF Unshared, Advanced
<1>8. Calm'
  BY <1>1, <1>2, <1>4 DEF Calm, Advanced
<1>9. calls[h].tokens \cap handed = {}
  BY <1>1, <1>2 DEF Unshared
<1>10. CutOff'
  BY <1>1, <1>2, <1>4, <1>9 DEF TypeOK, Shape, CutOff, Advanced, At
<1>11. LogoutRevokes'
  BY <1>1, <1>2, <1>4 DEF LogoutRevokes, Advanced
<1>12. Kept'
  BY <1>1, <1>2, <1>4 DEF Kept, Calm, Advanced, At
<1> QED
  BY <1>5, <1>6, <1>7, <1>8, <1>10, <1>11, <1>12 DEF Inv

LEMMA AnswerLoginStep ==
  ASSUME Inv, NEW h \in Handlers, AnswerLogin(h) PROVE Inv'
<1>1. TypeOK /\ Shape /\ Unshared /\ Calm /\ CutOff /\ LogoutRevokes /\ Kept
  BY DEF Inv
<1>2. /\ calls[h] # Nobody /\ calls[h].kind = "login" /\ calls[h].stage = "answer"
      /\ handed' = handed \cup calls[h].tokens
      /\ jwts' = jwts \cup {calls[h].jwt}
      /\ Leave(h)
      /\ UNCHANGED <<now, store, logins, revoked, swept, raced>>
  BY DEF AnswerLogin, At, history
<1>3. calls[h] \in Call
  BY <1>1, <1>2, CallIsSome DEF TypeOK
<1>4. Left(h)
  BY <1>1, <1>2, Leaves
<1>5. TypeOK'
  BY <1>1, <1>2, <1>3, <1>4 DEF TypeOK, Shape, Left, Call
<1>6. Shape'
  BY <1>1, <1>2, <1>4 DEF Shape, Left
<1>7. Unshared'
  BY <1>1, <1>2, <1>4 DEF Unshared, Left
<1>8. Calm'
  BY <1>1, <1>2, <1>4 DEF Calm, Left
<1>9. CutOff'
  BY <1>1, <1>2, <1>4 DEF CutOff, Left, At
<1>10. LogoutRevokes'
  BY <1>1, <1>2, <1>4 DEF LogoutRevokes, Left
<1>11. Kept'
  BY <1>1, <1>2, <1>4 DEF Kept, Left, At
<1> QED
  BY <1>5, <1>6, <1>7, <1>8, <1>9, <1>10, <1>11 DEF Inv

LEMMA RefreshStep ==
  ASSUME Inv, NEW h \in Handlers, Refresh(h) PROVE Inv'
<1>1. TypeOK /\ Shape /\ Unshared /\ Calm /\ CutOff /\ LogoutRevokes /\ Kept
  BY DEF Inv
<1>2. PICK t \in handed : BeginAccess(h, "refresh", {t}, NoJwt)
  BY DEF Refresh
<1>3. UNCHANGED <<now, store, logins, handed, jwts, revoked, swept>>
  BY DEF Refresh, history
<1>4. Begun(h, "refresh", {t}, NoJwt)
  BY <1>1, <1>2, Begins DEF TypeOK
<1>5. TypeOK'
  BY <1>1, <1>3, <1>4 DEF TypeOK, Begun
<1>6. Shape'
  BY <1>1, <1>3, <1>4 DEF Shape, Begun
<1>7. Unshared'
  BY <1>1, <1>3, <1>4 DEF Unshared, Begun
<1>8. Calm'
  BY <1>1, <1>3, <1>4 DEF Calm, Begun
<1>9. CutOff'
  BY <1>1, <1>3, <1>4 DEF CutOff, At, Begun
<1>10. LogoutRevokes'
  BY <1>1, <1>3, <1>4 DEF LogoutRevokes, Begun
<1>11. Kept'
  BY <1>1, <1>3, <1>4 DEF Kept, At, Begun
<1> QED
  BY <1>5, <1>6, <1>7, <1>8, <1>9, <1>10, <1>11 DEF Inv

LEMMA LookedUpStep ==
  ASSUME Inv, NEW h \in Handlers, LookedUp(h) PROVE Inv'
<1>1. TypeOK /\ Shape /\ Unshared /\ Calm /\ CutOff /\ LogoutRevokes /\ Kept
  BY DEF Inv
<1>2. PICK t \in calls[h].tokens, found \in BOOLEAN :
        /\ found = (t \in store) \/ calls[h].racy
        /\ calls' = [calls EXCEPT ![h].stage =
                       IF found /\ now <= t.expires THEN "mint" ELSE "answer"]
  BY DEF LookedUp
<1>3. /\ calls[h] # Nobody /\ calls[h].kind = "refresh" /\ calls[h].stage = "map"
      /\ UNCHANGED <<now, store, logins, handed, jwts, revoked, swept, raced>>
  BY DEF LookedUp, At, history
<1>4. PICK stage \in {"mint", "answer"} :
        /\ calls' = [calls EXCEPT ![h].stage = stage]
        /\ stage = "mint" => found
  BY <1>2
<1>5. calls[h] \in Call
  BY <1>1, <1>3, CallIsSome DEF TypeOK
<1>6. Advanced(h, stage, calls[h].jwt)
  BY <1>1, <1>3, <1>4, <1>5, Advances DEF Call
<1>7. (~raced /\ calls[h].late) => stage = "answer"
  BY <1>1, <1>2, <1>3, <1>4 DEF Calm, CutOff
<1>8. calls[h].jwt = NoJwt
  BY <1>1, <1>3 DEF Shape
<1>9. TypeOK'
  BY <1>1, <1>3, <1>6 DEF TypeOK, Advanced
<1>10. Shape'
  BY <1>1, <1>3, <1>6, <1>8 DEF Shape, Advanced
<1>11. Unshared'
  BY <1>1, <1>3, <1>6 DEF Unshared, Advanced
<1>12. Calm'
  BY <1>1, <1>3, <1>6 DEF Calm, Advanced
<1>13. CutOff'
  BY <1>1, <1>3, <1>6 DEF CutOff, At, Advanced
<1>14. LogoutRevokes'
  BY <1>1, <1>3, <1>6, <1>7, <1>8 DEF LogoutRevokes, Advanced
<1>15. Kept'
  BY <1>1, <1>3, <1>6 DEF Kept, At, Advanced
<1> QED
  BY <1>9, <1>10, <1>11, <1>12, <1>13, <1>14, <1>15 DEF Inv

LEMMA MintStep ==
  ASSUME Inv, NEW h \in Handlers, Mint(h) PROVE Inv'
<1>1. TypeOK /\ Shape /\ Unshared /\ Calm /\ CutOff /\ LogoutRevokes /\ Kept
  BY DEF Inv
<1>2. PICK t \in calls[h].tokens :
        calls' = [calls EXCEPT ![h].stage = "answer",
                               ![h].jwt = [login |-> t.login, expires |-> now + JwtLife]]
  BY DEF Mint
<1>3. /\ calls[h] # Nobody /\ calls[h].kind = "refresh" /\ calls[h].stage = "mint"
      /\ UNCHANGED <<now, store, logins, handed, jwts, revoked, swept, raced>>
  BY DEF Mint, At, history
<1>4. calls[h] \in Call
  BY <1>1, <1>3, CallIsSome DEF TypeOK
<1> DEFINE jwt == [login |-> t.login, expires |-> now + JwtLife]
<1>5. jwt \in Jwt
  BY <1>1, <1>4, LivesArePositive DEF TypeOK, Call, Token, Jwt
<1> HIDE DEF jwt
<1>6. calls' = [calls EXCEPT ![h].stage = "answer", ![h].jwt = jwt]
  BY <1>2 DEF jwt
<1>7. Advanced(h, "answer", jwt)
  BY <1>1, <1>3, <1>5, <1>6, Advances
<1>8. TypeOK'
  BY <1>1, <1>3, <1>7 DEF TypeOK, Advanced
<1>9. Shape'
  BY <1>1, <1>3, <1>7 DEF Shape, Advanced
<1>10. Unshared'
  BY <1>1, <1>3, <1>7 DEF Unshared, Advanced
<1>11. Calm'
  BY <1>1, <1>3, <1>7 DEF Calm, Advanced
<1>12. CutOff'
  BY <1>1, <1>3, <1>7 DEF CutOff, At, Advanced
<1>13. LogoutRevokes'
  BY <1>1, <1>3, <1>7 DEF LogoutRevokes, Advanced
<1>14. Kept'
  BY <1>1, <1>3, <1>7 DEF Kept, At, Advanced
<1> QED
  BY <1>8, <1>9, <1>10, <1>11, <1>12, <1>13, <1>14 DEF Inv

LEMMA AnswerRefreshStep ==
  ASSUME Inv, NEW h \in Handlers, AnswerRefresh(h) PROVE Inv'
<1>1. TypeOK /\ Shape /\ Unshared /\ Calm /\ CutOff /\ LogoutRevokes /\ Kept
  BY DEF Inv
<1>2. /\ calls[h] # Nobody /\ calls[h].kind = "refresh"
      /\ jwts' = jwts \cup ({calls[h].jwt} \ {NoJwt})
      /\ Leave(h)
      /\ UNCHANGED <<now, store, logins, handed, revoked, swept, raced>>
  BY DEF AnswerRefresh, At, history
<1>3. calls[h].jwt \in Jwt \cup {NoJwt}
  BY <1>1, <1>2, CallIsSome DEF TypeOK, Call
<1>4. Left(h)
  BY <1>1, <1>2, Leaves
<1>5. TypeOK'
  BY <1>1, <1>2, <1>4, <1>3 DEF TypeOK, Left
<1>6. Shape'
  BY <1>1, <1>2, <1>4 DEF Shape, Left
<1>7. Unshared'
  BY <1>1, <1>2, <1>4 DEF Unshared, Left
<1>8. Calm'
  BY <1>1, <1>2, <1>4 DEF Calm, Left
<1>9. CutOff'
  BY <1>1, <1>2, <1>4 DEF CutOff, At, Left
<1>10. LogoutRevokes'
  BY <1>1, <1>2, <1>4 DEF LogoutRevokes, Left
<1>11. Kept'
  BY <1>1, <1>2, <1>4 DEF Kept, At, Left
<1> QED
  BY <1>5, <1>6, <1>7, <1>8, <1>9, <1>10, <1>11 DEF Inv

LEMMA LogoutStep ==
  ASSUME Inv, NEW h \in Handlers, Logout(h) PROVE Inv'
<1>1. TypeOK /\ Shape /\ Unshared /\ Calm /\ CutOff /\ LogoutRevokes /\ Kept
  BY DEF Inv
<1>2. PICK j \in jwts : BeginAccess(h, "logout", handed, j)
  BY DEF Logout
<1>3. UNCHANGED <<now, store, logins, handed, jwts, revoked, swept>>
  BY DEF Logout, history
<1>4. j \in Jwt /\ handed \in SUBSET Token
  BY <1>1, <1>2 DEF TypeOK
<1>5. Begun(h, "logout", handed, j)
  BY <1>1, <1>2, <1>4, Begins
<1>6. TypeOK'
  BY <1>1, <1>3, <1>4, <1>5 DEF TypeOK, Begun
<1>7. Shape'
  BY <1>1, <1>3, <1>4, <1>5 DEF Shape, Begun
<1>8. Unshared'
  BY <1>1, <1>3, <1>4, <1>5 DEF Unshared, Begun
<1>9. Calm'
  BY <1>1, <1>3, <1>4, <1>5 DEF Calm, Begun
<1>10. CutOff'
  BY <1>1, <1>3, <1>4, <1>5 DEF CutOff, At, Begun
<1>11. LogoutRevokes'
  BY <1>1, <1>3, <1>4, <1>5 DEF LogoutRevokes, Begun
<1>12. Kept'
  BY <1>1, <1>3, <1>4, <1>5 DEF Kept, At, Begun
<1> QED
  BY <1>6, <1>7, <1>8, <1>9, <1>10, <1>11, <1>12 DEF Inv

LEMMA ClearedStep ==
  ASSUME Inv, NEW h \in Handlers, Cleared(h) PROVE Inv'
<1>1. TypeOK /\ Shape /\ Unshared /\ Calm /\ CutOff /\ LogoutRevokes /\ Kept
  BY DEF Inv
<1>2. /\ calls[h] # Nobody /\ calls[h].kind = "logout" /\ calls[h].stage = "map"
      /\ store' \in IF calls[h].racy THEN SUBSET store ELSE {{}}
      /\ swept' = swept \cup (store \ store')
      /\ calls' = [calls EXCEPT ![h].stage = "answer"]
      /\ UNCHANGED <<now, logins, handed, jwts, revoked, raced>>
  BY DEF Cleared, At
<1>3. calls[h] \in Call
  BY <1>1, <1>2, CallIsSome DEF TypeOK
<1>4. Advanced(h, "answer", calls[h].jwt)
  BY <1>1, <1>2, <1>3, Advances DEF Call
<1>5. store' \subseteq store
  BY <1>2
<1>6. ~raced => store' = {}
  BY <1>1, <1>2 DEF Calm
<1>7. TypeOK'
  BY <1>1, <1>2, <1>4, <1>5, <1>6 DEF TypeOK, Advanced
<1>8. Shape'
  BY <1>1, <1>2, <1>4, <1>5, <1>6 DEF Shape, Advanced
<1>9. Unshared'
  BY <1>1, <1>2, <1>4, <1>5, <1>6 DEF Unshared, Advanced
<1>10. Calm'
  BY <1>1, <1>2, <1>4, <1>5, <1>6 DEF Calm, Advanced
<1>11. CutOff'
  BY <1>1, <1>2, <1>4, <1>5, <1>6 DEF CutOff, At, Advanced
<1>12. LogoutRevokes'
  BY <1>1, <1>2, <1>4, <1>5, <1>6 DEF LogoutRevokes, Advanced
<1>13. Kept'
  BY <1>1, <1>2, <1>4, <1>5, <1>6 DEF Kept, At, Advanced
<1> QED
  BY <1>7, <1>8, <1>9, <1>10, <1>11, <1>12, <1>13 DEF Inv

LEMMA AnswerLogoutStep ==
  ASSUME Inv, NEW h \in Handlers, AnswerLogout(h) PROVE Inv'
<1>1. TypeOK /\ Shape /\ Unshared /\ Calm /\ CutOff /\ LogoutRevokes /\ Kept
  BY DEF Inv
<1>2. /\ calls[h] # Nobody /\ calls[h].kind = "logout" /\ calls[h].stage = "answer"
      /\ revoked' = revoked \cup calls[h].tokens
      /\ Leave(h)
      /\ UNCHANGED <<now, store, logins, handed, jwts, swept, raced>>
  BY DEF AnswerLogout, At
<1>3. Left(h)
  BY <1>1, <1>2, Leaves
<1>4. calls[h].tokens \subseteq handed
  BY <1>1, <1>2 DEF Shape
<1>5. TypeOK'
  BY <1>1, <1>2, <1>3, <1>4 DEF TypeOK, Left
<1>6. Shape'
  BY <1>1, <1>2, <1>3 DEF Shape, Left
<1>7. Unshared'
  BY <1>1, <1>2, <1>3 DEF Unshared, Left
<1>8. Calm'
  BY <1>1, <1>2, <1>3 DEF Calm, Left
<1>9. CutOff'
  BY <1>1, <1>2, <1>3 DEF CutOff, At, Left
<1>10. LogoutRevokes'
  BY <1>1, <1>2, <1>3 DEF LogoutRevokes, Left
<1>11. Kept'
  BY <1>1, <1>2, <1>3 DEF Kept, At, Left
<1> QED
  BY <1>5, <1>6, <1>7, <1>8, <1>9, <1>10, <1>11 DEF Inv

LEMMA RestartStep == Inv /\ Restart => Inv'
<1> SUFFICES ASSUME Inv, Restart PROVE Inv'
  OBVIOUS
<1>1. TypeOK /\ Unshared
  BY DEF Inv
<1>2. /\ store' = {} /\ raced' = FALSE /\ swept' = swept \cup store \cup handed
      /\ calls' = [h \in Handlers |-> Nobody]
      /\ UNCHANGED <<now, logins, handed, jwts, revoked>>
  BY DEF Restart
<1>3. TypeOK'
  BY <1>1, <1>2 DEF TypeOK
<1>4. Shape' /\ Unshared' /\ Calm' /\ LogoutRevokes'
  BY <1>1, <1>2 DEF Shape, Unshared, Calm, LogoutRevokes
<1>5. CutOff' /\ Kept'
  BY <1>2 DEF CutOff, Kept, At
<1> QED
  BY <1>3, <1>4, <1>5 DEF Inv

LEMMA TickStep == Inv /\ Tick => Inv'
<1> SUFFICES ASSUME Inv, Tick PROVE Inv'
  OBVIOUS
<1>1. TypeOK /\ Shape /\ Unshared /\ Calm /\ CutOff /\ LogoutRevokes /\ Kept
  BY DEF Inv
<1>2. /\ now' = now + 1
      /\ jwts' = {j \in jwts : now + 1 < j.expires}
      /\ UNCHANGED <<store, calls, logins, handed, revoked, swept, raced>>
  BY DEF Tick
<1>3. TypeOK'
  BY <1>1, <1>2 DEF TypeOK
<1>4. Shape' /\ Unshared' /\ Calm' /\ LogoutRevokes'
  BY <1>1, <1>2 DEF Shape, Unshared, Calm, LogoutRevokes
<1>5. CutOff' /\ Kept'
  BY <1>1, <1>2 DEF CutOff, Kept, At
<1> QED
  BY <1>3, <1>4, <1>5 DEF Inv

LEMMA InvInit == Init => Inv
<1> SUFFICES ASSUME Init PROVE Inv
  OBVIOUS
<1>1. TypeOK
  BY DEF Init, TypeOK
<1>2. \A h \in Handlers : calls[h] = Nobody
  BY DEF Init
<1>3. Shape /\ Calm /\ LogoutRevokes
  BY <1>2 DEF Shape, Calm, LogoutRevokes
<1>4. Unshared
  BY <1>2 DEF Init, Unshared
<1>5. CutOff /\ Kept
  BY <1>2 DEF Init, CutOff, Kept, At
<1> QED
  BY <1>1, <1>3, <1>4, <1>5 DEF Inv

LEMMA InvStep == Inv /\ [Next]_vars => Inv'
<1> SUFFICES ASSUME Inv, [Next]_vars PROVE Inv'
  OBVIOUS
<1>1. ASSUME NEW h \in Handlers, Serve(h) PROVE Inv'
  BY <1>1, LoginStep, InsertedStep, AnswerLoginStep, RefreshStep, LookedUpStep, MintStep,
     AnswerRefreshStep, LogoutStep, ClearedStep, AnswerLogoutStep DEF Serve
<1>2. CASE UNCHANGED vars
  BY <1>2 DEF vars, Inv, TypeOK, Shape, Unshared, Calm, CutOff, LogoutRevokes, Kept, At
<1> QED
  BY <1>1, <1>2, RestartStep, TickStep DEF Next

(* The invariant of every reachable state, for any handlers and lifetimes. *)
THEOREM Invariant == Spec => []Inv
BY InvInit, InvStep, PTL DEF Spec

-----------------------------------------------------------------------------
(* What a reader should know of. *)

(* Every reachable state is of its type; what was logged out or revoked is
   among what clients were given. *)
THEOREM TypeCorrect == Spec => []TypeOK
<1>1. Inv => TypeOK
  BY DEF Inv
<1> QED
  BY <1>1, Invariant, PTL

(* No refresh that begins after a logout was answered gets a JWT for a token
   handed out before it, as long as no map accesses have conflicted. *)
THEOREM LogoutCutsOff == Spec => []LogoutRevokes
<1>1. Inv => LogoutRevokes
  BY DEF Inv
<1> QED
  BY <1>1, Invariant, PTL

(* Nothing but a logout or a restart makes a token that was handed out
   disappear, as long as no map accesses have conflicted. *)
THEOREM TokensLast == Spec => []HandedTokensWork
<1>1. Inv => HandedTokensWork
  BY DEF Inv, Kept, HandedTokensWork
<1> QED
  BY <1>1, Invariant, PTL
=============================================================================
