------------------------------- MODULE MCTxBtc ------------------------------
(***************************************************************************)
(* Orders for the Java object: one that needs a single input and returns   *)
(* change, one that needs both and leaves exactly the dust limit, one      *)
(* beyond the balance by a single satoshi, two to addresses nothing can    *)
(* be paid to, and USDT transfers with change, without a change address,   *)
(* and to an address that does not decode.                                 *)
(***************************************************************************)
EXTENDS TxBtcProps

CONSTANTS h1, h2, o1, o2

MCHashes == {h1, h2}
MCOutpoints == {o1, o2}

Addr(kind, hash) == [kind |-> kind, hash |-> hash]
Coin1 == [prev |-> o1, value |-> 2000, script |-> Lock("p2pkh", h1)]
Coin2 == [prev |-> o2, value |-> 1000, script |-> Lock("p2pkh", h1)]

Order(coin, to, change, pay, fee) ==
  [coin |-> coin, pay |-> pay, fee |-> fee, to_address |-> to,
   change_address |-> change, utxo_list |-> <<Coin1, Coin2>>]

Mine == Addr("p2pkh", h1)
None == Addr("empty", h1)

OneInput == Order("BTC", Addr("p2pkh", h2), Mine, 1200, 100)
DustLeft == Order("BTC", Addr("p2sh", h2), Mine, 2300, 200)
TooMuch == Order("BTC", Addr("p2pkh", h2), Mine, 2950, 51)
NoPayee == Order("BTC", Addr("foreign", h2), Mine, 1000, 100)
BrokenChange ==
  Order("BTC", Addr("p2pkh", h2), Addr("broken", h1), 1200, 100)
BrokenPayee == Order("BTC", Addr("broken", h2), Mine, 1000, 100)
Tokens == Order("USDT", Addr("p2pkh", h2), Mine, 3500, 1500)
TokensNoChange == Order("USDT", Addr("p2pkh", h2), None, 5, 1000)
TokensNoPayee == Order("USDT", Addr("foreign", h2), Mine, 5, 100)

MCRequests == {OneInput, DustLeft, TooMuch, NoPayee, BrokenChange, BrokenPayee,
               Tokens, TokensNoChange, TokensNoPayee}

\* Payees and change locked by a script rather than by a key.
MCScriptRequests ==
  {Order("USDT", Addr("p2sh", h2), change, 5, 100) : change \in {Mine, None}}

=============================================================================
