\* Two users, two browsers, two requests at a time; the limiter lets 2 calls
\* through in 2 ticks, an access token and a reset link live 2 ticks.
CONSTANTS
    Users = {u1, u2}
    Emails = {e1, e2}
    Roles = {"admin", "operator"}
    Clients = {c1, c2}
    Requests = {r1, r2}
    NULL = NULL
    Limit = 2
    Window = 2
    AccessTtl = 2
    ResetTtl = 2
    MaxTime = 2
    MaxOps = 3
SPECIFICATION AccessSpec
SYMMETRY Symm
CHECK_DEADLOCK FALSE
INVARIANTS  IssuedTokenLives SignInLimit
