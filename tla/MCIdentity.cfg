SPECIFICATION IdentitySpec
CONSTANTS
  Sessions = {s1, s2}
  Tokens = {t1, t2}
  Callers = {c1, c2}
  NoCall = NoCall
  MaxPasswords = 2
  Accounts = {t1, t2}
  Servers = {s1, s2}
  Requests = {c1, c2}
  NoServer = NoServer
  NoRequest = NoRequest
SYMMETRY IdentitySymmetry
INVARIANTS LinkWorksOnce LiveSessionIsCurrent OneBootstrap OwnerUnlessRaced
CHECK_DEADLOCK FALSE
