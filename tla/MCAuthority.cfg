\* Everything one passkey signs, against everyone who accepts an assertion.
SPECIFICATION Spec
CONSTANTS
  k1 = k1
  k2 = k2
  w1 = w1
  w2 = w2
  Keys = {k1, k2}
  Wallets = {w1, w2}
  game = game
  shop = shop
  Apps = {game, shop}
  Chains = {"one", "two"}
  FACTORY = "factory"
  RpId = "verakey.app"
  ORIGIN <- MCOrigin
  MAX_CLIENT_DATA_LEN = 24
  Policy <- MCPolicy
  Doings <- MCDoings
  Ceremonies <- MCCeremonies
  MaxPlaces = 2
  MaxSigned = 2
  MaxAccepted = 2
SYMMETRY Alike
CHECK_DEADLOCK FALSE
INVARIANT MadeForThis MadeAsAccepted AcceptedOnce Placed ReadersAgree GenuineAccepted
PROPERTY RemovedStaysOut
