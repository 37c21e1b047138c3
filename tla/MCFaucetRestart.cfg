SPECIFICATION Spec
CHECK_DEADLOCK FALSE
CONSTANTS
  a1 = a1
  a2 = a2
  v1 = v1
  r1 = r1
  r2 = r2
  r3 = r3
  r4 = r4
  Requests = {r1, r2, r3, r4}
  Accounts = {a1, a2}
  Job <- MCJob
  Limit <- MCLimit
  DeployedAtStart = {a1}
  PendingAtStart = 0
  MAX_PENDING = 1
  DailyCap = 0
  Treasury = 2
  MaxOutside = 0
  MaxLost = 0
  MaxCrashes = 1
  MaxWindows = 0
INVARIANT GrantedOnce
