SPECIFICATION FairSpec
CHECK_DEADLOCK FALSE
CONSTANTS
  k1 = k1
  k2 = k2
  g1 = g1
  zero = zero
  Nullifiers = {k1, k2}
  ZeroNullifier = zero
  FirstOwner = k1
  Guardians = {g1}
  NoGuardian = none
  Addresses = {}
  ZeroAddress = zero
  Account = account
  Changes <- MCChanges
  Amounts = {}
  Fees = {0}
  PerTxCap = 1
  DailyCap = 1
  NewPayeeCap = 1
  MaxFee = 0
  ChangeDelay = 1
  RecoveryDelay = 2
  MAX_U128 = 1
  MAX_PENDING = 2
  MAX_DEADLINE_WINDOW = 0
  SECONDS_PER_DAY = 100
  MaxTime = 7
  MaxNonce = 5
  MaxEpoch = 1
  MaxBalance = 0
INVARIANT ScheduledChangesApply OwnersCounted
PROPERTY GuardianCannotVetoItsReplacement GuardianActsInTime SlotsAreFreed ImplementsControl
