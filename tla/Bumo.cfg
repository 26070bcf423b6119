\* Two payments of one process, by either of two accounts; a reply to a submission may
\* have no results.
CONSTANTS
  Addresses = {a1, a2}
  GasPrices = {1, 2}
  ItemsAnswered = FALSE
  MaxPayments = 2
SPECIFICATION Spec
INVARIANTS
  BumoTypeOK
  NeverAheadOfAccount
PROPERTIES
  ReturnsTheAnswer
  ReturnsAfterClose
  HangsOnlyOnNetwork
\* No payment is left, a crash, or a request that waits for good.
CHECK_DEADLOCK FALSE
