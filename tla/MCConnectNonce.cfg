SPECIFICATION Spec
CHECK_DEADLOCK FALSE
CONSTANTS
  l1 = l1
  l2 = l2
  s1 = s1
  s2 = s2
  p1 = p1
  p2 = p2
  o1 = o1
  Calls = {l1, l2, s1, s2, p1, p2, o1}
  Kind <- MCKind
  Visits <- MCVisits
  NoCall = none
  MaxMishaps = 1
  Calm <- MCCalm
INVARIANT PendingNamesPayment
