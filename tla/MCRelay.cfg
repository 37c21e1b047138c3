SPECIFICATION FairSpec
CHECK_DEADLOCK FALSE
CONSTANTS
  a1 = a1
  v1 = v1
  r1 = r1
  r2 = r2
  r3 = r3
  Requests = {r1, r2, r3}
  Accounts = {a1}
  Job <- MCJob
  Limit <- MCLimit
  DeployedAtStart = {a1}
  PendingAtStart = 1
  MAX_PENDING = 1
  DailyCap = 2
  Treasury = 0
  MaxOutside = 1
  MaxLost = 1
  MaxCrashes = 1
  MaxWindows = 0
INVARIANT NothingLeaked OneAtATime WastedOnlyByOthers FreeRidesDefend
PROPERTY NothingStuck
