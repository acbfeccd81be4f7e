SPECIFICATION FairSpec
CONSTANTS
  Total = 3
  WorkerCounts = {0, 1, 2, 3}
  Processes = {0, 1, 2, 3}
  SwitchedOn = {"log", "status"}
  TestPlugins <- MCTestPlugins
INVARIANT TypeOK TestsRunOnce RequestsAreWaitedFor ReportIsHonest NobodyLeft NothingLeftOn HooksNest LostOnlyToLog FlagOutlivesStop OneLateStatus
PROPERTY RunsEnd
CHECK_DEADLOCK FALSE
