\* Two clients, four keys, three calls.
CONSTANTS
  Clients = {c1, c2}
  Keys = {1, 2, 3, 4}
  Accounts <- MCAccounts
  MaxCalls = 3
SPECIFICATION Spec
INVARIANTS
  BindTypeOK
  ImportsAreAccepted
PROPERTIES
  KeysChangeOnlyAsRead
CHECK_DEADLOCK FALSE
