SPECIFICATION Spec
CONSTANTS
  j1 = j1
  j2 = j2
  NoWorker = NoWorker
  NoRow = NoRow
  NoRequest = NoRequest
  MaxAttempts <- MCMaxAttempts
  AttemptCap = 3
  BackoffBase = 1
  BackoffCap = 2
  Horizon = 2
  Jobs = {j1}
  Priority <- MCPriority
  Delays = {0, 1}
  StaleAfter = 1
  Workers = {w1, w2}
  Admins = {a1, a2}
PROPERTY ExhaustedFailureDies
