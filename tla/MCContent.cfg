SPECIFICATION FairSpec
CONSTANTS
  Requests = {r1, r2}
  Workers = {w1}
  Inputs <- MCInputs
  Blank <- MCBlank
  Times <- MCTimes
  Horizon = 2
  VersionCap = 2
  MaxAttempts = 1
INVARIANTS
  LatestSnapshotIsLive
  OnlyDraftsAreScheduled
  ScheduleHasJob
PROPERTY ScheduleRuns
CHECK_DEADLOCK FALSE
