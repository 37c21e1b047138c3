SPECIFICATION Spec
CHECK_DEADLOCK FALSE
CONSTANTS
  p1 = p1
  p2 = p2
  alice = alice
  n1 = n1
  i1 = i1
  i2 = i2
  o1 = o1
  g1 = g1
  g2 = g2
  Processes = {p1, p2}
  Players = {alice}
  Nonces = {n1}
  Payments = {}
  Requests = {i1, g1}
  Job <- MCJob
  SignedInAtStart = {}
  Payer <- MCPayer
  NONCE_TTL = 1
  NONCE_CLAIM = 2
  SESSION_TTL = 4
  OwnerCheck = 1
  OWNER_CHECK_TIMEOUT = 1
  OWNER_RETRY = 1
  MAX_OWNER_ENTRIES = 1
  StoreDelay = 1
  MaxTime = 4
  MaxFailures = 0
  MaxCrashes = 0
INVARIANT RemovedWithinOwnerCheck
