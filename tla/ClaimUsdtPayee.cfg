\* USDT to a script address.
CONSTANTS
  h1 = h1
  h2 = h2
  o1 = o1
  o2 = o2
  NoKey = NoKey
  NoOrder = NoOrder
  U64 = 4096
  Hashes <- MCHashes
  Outpoints <- MCOutpoints
  WalletKey = h1
  Requests <- MCScriptRequests
  MaxCreates = 2
  MaxSigs = 2
SPECIFICATION Spec
INVARIANTS
  UsdtReachesPayee
CHECK_DEADLOCK FALSE
