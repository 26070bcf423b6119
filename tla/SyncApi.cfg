\* Two objects, one server, a clock that is set forward and back.
CONSTANTS
  Objects = {p, q}
  Coins <- MCCoins
  Replies <- MCReplies
  Markets <- MCMarkets
  Times = {3, 5, 6}
  Hour = 2
  U64 = 16
  U256 = 64
SPECIFICATION Spec
INVARIANTS
  SyncTypeOK
  CrossPrices
  DeafOnlyAfterTimeout
  NeverShowsMoreThanHeld
PROPERTIES
  ServesFreshPrices
  FetchedMeansAnswered
  CallsReturn
