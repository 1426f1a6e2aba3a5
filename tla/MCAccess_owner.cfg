SPECIFICATION Spec
CONSTANTS
  Accounts = {p1, p2}
  Servers = {s1}
  Requests = {r1, r2}
  NoServer = NoServer
  NoRequest = NoRequest
INVARIANT AlwaysAnOwner
