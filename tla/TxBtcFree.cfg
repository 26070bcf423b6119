\* One object, two orders, every order of calls.
CONSTANTS
  h1 = h1
  h2 = h2
  o1 = o1
  o2 = o2
  NoKey = NoKey
  NoOrder = NoOrder
  U64 = 4096
  Hashes <- MCHashes
  Outpoints <- MCOutpoints
  WalletKey = h1
  Requests <- MCRequests
  MaxCreates = 2
  MaxSigs = 2
SPECIFICATION Spec
INVARIANTS
  TypeOK
  TransactionOfOrder
  HonoursOrder
  FreshMessages
PROPERTIES
  ShowsPayee
  SignCompletes
  MakeSignedTxCompletes
  OnePlanPerOrder
CHECK_DEADLOCK FALSE
