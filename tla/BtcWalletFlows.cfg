\* All four flows of BTCTest.cpp, with every failure of the server and the wallet.
CONSTANTS
  h1 = h1
  h2 = h2
  o1 = o1
  o2 = o2
  o3 = o3
  NoKey = NoKey
  U64 = 16384
  U256 = 100000
  Hashes <- MCHashes
  Outpoints <- MCOutpoints
  UtxoLists <- MCUtxoLists
  Balances = {0, 5000}
  Prices = {1, 2, 3}
  Payees <- MCPayees
  Amounts = {700, 4400, 9000}
  WalletKey = h1
SPECIFICATION Spec
INVARIANTS
  WalletTypeOK
  PrintedIsPayable
  LoopSignsInOrder
PROPERTIES
  EndsOrWaitsForCode
