\* As Bumo, for one claim, on a server that answers every submission with a result.
CONSTANTS
  Addresses = {a1, a2}
  GasPrices = {1, 2}
  ItemsAnswered = TRUE
  MaxPayments = 2
SPECIFICATION Spec
INVARIANT OkMeansAccepted
CHECK_DEADLOCK FALSE
