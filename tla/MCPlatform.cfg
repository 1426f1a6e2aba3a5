SPECIFICATION Spec
CONSTANTS
  Systems <- MCSystems
  Resting <- MCResting
  Processes = {p, q}
  Builds <- MCBuilds
  Requests = {r1, r2}
  Values = {"u", "v"}
  VersionCap = 2
  Events = {"e", "f"}
INVARIANTS
  SortIsRight
  ExecutedOnce
  HistoryIsComplete
  EndedIsNotHealthy
PROPERTIES
  AfterDependencies
  JobGetsATurn
  StopEnds
CHECK_DEADLOCK FALSE
