\* Two good orders and bad ones of each coin, one more action for EOS.
CONSTANTS
  EosOrders <- MCEosOrders
  EthOrders <- MCEthOrders
  TrxOrders <- MCTrxOrders
  EosActions = {"a", "b", "more"}
  AddedActions = {"more"}
  MaxEos = 5
SPECIFICATION Spec
INVARIANTS
  TxObjectTypeOK
  OrderlyGetsSigned
  CrashesOnlyWhenMisused
  NeverAnEarlierOrder
  JsonReadsBack
CHECK_DEADLOCK FALSE
