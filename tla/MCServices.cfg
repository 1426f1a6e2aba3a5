SPECIFICATION ServicesSpec
CONSTANTS
  Requests = {r1, r2}
  RedirectIds = {"x", "y", "z"}
  RedirectInputs <- MCRedirects
  RevisionCap = 2
  Terms = {"a", "b", "c"}
  TermDocuments <- MCTermDocuments
  Items = {"a", "b"}
  ItemDocuments <- MCItemDocuments
  First = "first"
  Second = "second"
  NoUser = "nobody"
  Entries = {"e1", "e2"}
  New = "new"
  List = "list"
  NoEntry = "none"
  RequestCap = 2
  Workers = {w1, w2}
  Event = "event"
  Announced = {"a1", "a2"}
  Mailable = {"event"}
  MailCap = 2
  MaxAttempts = 1
INVARIANTS
  NoLoop
  EnabledIsTested
  MailedOnce
  NothingForgotten
  Forest
  ItemsMatchType
  AccountIsOfSession
  ShownIsAllowed
  DoneAtItsAddress
CHECK_DEADLOCK FALSE
SYMMETRY ServiceSymmetry
