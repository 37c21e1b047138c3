SPECIFICATION Spec
CHECK_DEADLOCK FALSE
CONSTANTS
  p1 = p1
  p2 = p2
  alice = alice
  n1 = n1
  n2 = n2
  i1 = i1
  i2 = i2
  b1 = b1
  b2 = b2
  b3 = b3
  g1 = g1
  h1 = h1
  Processes = {p1, p2}
  Players = {alice}
  Nonces = {n1, n2}
  Payments = {h1}
  Requests = {i1, i2, b1, b2, b3, g1}
  Job <- MCJob
  SignedInAtStart = {i1, i2}
  Payer <- MCPayer
  NONCE_TTL = 1
  NONCE_CLAIM = 1
  SESSION_TTL = 3
  OwnerCheck = 1
  OWNER_CHECK_TIMEOUT = 1
  OWNER_RETRY = 1
  MAX_OWNER_ENTRIES = 1
  StoreDelay = 0
  MaxTime = 0
  MaxFailures = 1
  MaxCrashes = 1
INVARIANT TypeOK PaymentKept PayingOwned
PROPERTY PaymentsImplementOnce
SYMMETRY Alike
