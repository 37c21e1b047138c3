SPECIFICATION Spec
CHECK_DEADLOCK FALSE
CONSTANTS
  k1 = k1
  g1 = g1
  r1 = r1
  zero = zero
  self = self
  Nullifiers = {k1}
  ZeroNullifier = zero
  FirstOwner = k1
  Guardians = {g1}
  NoGuardian = none
  Addresses = {r1, zero, self}
  ZeroAddress = zero
  Account = self
  Changes <- MCChanges
  Amounts = {1, 2, 3}
  Fees = {0, 2, 3}
  PerTxCap = 2
  DailyCap = 3
  NewPayeeCap = 1
  MaxFee = 2
  ChangeDelay = 1
  RecoveryDelay = 1
  MAX_U128 = 4
  MAX_PENDING = 1
  MAX_DEADLINE_WINDOW = 0
  SECONDS_PER_DAY = 3
  MaxTime = 5
  MaxNonce = 3
  MaxEpoch = 1
  MaxBalance = 4
INVARIANT TypeOK FeesPayable DefenceNeverRefused
PROPERTY SpendingBounded OnlyTheTimelockLoosens
