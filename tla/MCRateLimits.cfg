SPECIFICATION Spec
CHECK_DEADLOCK FALSE
CONSTANTS
  v1 = v1
  v2 = v2
  Visitors = {v1, v2}
  Weights = {1, 2}
  Routes <- MCRoutes
  DAY = 4
  SWEEP_AT = 2
  MaxTime = 6
INVARIANT LimitsHold RefusedForOwn
