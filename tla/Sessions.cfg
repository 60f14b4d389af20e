\* Two concurrent requests over two logins, restarts, and every token growing old.
CONSTANTS
  Handlers = {h1, h2}
  JwtLife = 1
  RefreshLife = 1
  MaxLogins = 2
  Horizon = 2
  Nobody = Nobody
  NoJwt = NoJwt
SYMMETRY Symmetry
SPECIFICATION Spec
INVARIANTS
  TypeOK
  LogoutRevokes
  HandedTokensWork
