SPECIFICATION FairSpec
CONSTANTS
  j1 = j1
  j2 = j2
  NoWorker = NoWorker
  NoRow = NoRow
  NoRequest = NoRequest
  MaxAttempts <- MCOneAttempt
  AttemptCap = 2
  BackoffBase = 1
  BackoffCap = 1
  Horizon = 1
  Jobs = {j1, j2}
  Priority <- MCPriority
  Delays = {0}
  StaleAfter = 1
  Workers = {w1, w2}
  Admins = {}
PROPERTIES LockReleased PendingIsTaken
