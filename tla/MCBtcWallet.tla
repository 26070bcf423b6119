---------------------------- MODULE MCBtcWallet -----------------------------
(***************************************************************************)
(* A wallet with two or three unspent outputs, or none it hears of; one    *)
(* payee that can be paid and one that cannot; amounts that take one       *)
(* output, take the next one because of the fee, and exceed them all.      *)
(***************************************************************************)
EXTENDS BtcWallet

CONSTANTS h1, h2, o1, o2, o3

MCHashes == {h1, h2}
MCOutpoints == {o1, o2, o3}
Coin1(o, v) == [prev |-> o, value |-> v, script |-> Lock("p2pkh", h1)]
MCUtxoLists == {<<>>, <<Coin1(o1, 5000), Coin1(o2, 1500)>>,
                <<Coin1(o1, 1100), Coin1(o2, 1100), Coin1(o3, 3000)>>}
MCPayees == {[kind |-> "p2pkh", hash |-> h2], [kind |-> "foreign", hash |-> h2]}

=============================================================================
