----------------------------- MODULE TxBtcProps -----------------------------
(***************************************************************************)
(* The properties of the transaction object of TxBtc, and the abstract     *)
(* PaymentOrder it implements.                                             *)
(***************************************************************************)
EXTENDS TxBtc

CONSTANT NoOrder   \* stands for no order in the abstract view

ASSUME NoOrderAssumption ==
  \A r \in Requests : NoOrder # OrderOf(r.coin, NewUserTransaction(r))

PreparedData ==
  [index : Nat, data : [pay_index : {0, 1}, change_index : {1, 2}, tx : Message]]

Answer == [index : Nat, key : Hashes, sig : SignatureData]

\* The type invariant of the Java object, the native object behind it and what
\* is under way to and from the hardware wallet.
TypeOK ==
  /\ handle \in {"null", "open", "bad", "aborted"}
  /\ isUsdt \in BOOLEAN
  /\ ut \in UserTransaction
  /\ prepareIndex \in Nat
  /\ prepared \subseteq PreparedData
  /\ answers \subseteq Answer
  /\ creates \in Nat

\* Whatever the application called in whatever order, the transaction string of
\* an open object spends the first unspent outputs it needs, pays the payee what
\* was ordered, returns the change and leaves the miner the ordered fee
\* (make_unsign_tx, and what the signing calls do to its result).
HonoursOrder ==
  handle = "open" /\ ut.tx_str # NoTx => Honours(Coin, ut, ut.tx_str)

\* The transaction string of an open object is the one the builder makes of the
\* order it was created for, with or without unlocking scripts; there is none for
\* an order the builder refuses (the UserTransaction behind btc.cpp, whose input
\* fields nothing writes after _createTx).
TransactionOfOrder ==
  handle = "open" =>
    /\ \E r \in Requests :
         /\ isUsdt = (r.coin = "USDT")
         /\ OrderOf(Coin, ut) = OrderOf(Coin, NewUserTransaction(r))
    /\ ut.tx_str # NoTx =>
         /\ MakeUnsignRet(Coin, ut) = 0
         /\ ut.input_count = InputCount(Coin, ut)
         /\ Skeleton(ut.tx_str) = UnsignedTx(Coin, ut)

\* No message the hardware wallet is ever given holds an earlier unlocking
\* script, and a locking script only in the input it is to sign: a retry after
\* make_sign_tx has rewritten tx_str is as good as the first attempt, because
\* firmwarePrepareData builds the transaction anew (btc.cpp:80).
FreshMessages ==
  \A p \in prepared : \A j \in DOMAIN p.data.tx.inputs :
    /\ p.data.tx.inputs[j].script.type # "unlock"
    /\ p.data.tx.inputs[j].script # NoScript => j = p.index + 1

\* The output the hardware wallet is told to show as the payee's is the payee's,
\* with the ordered amount (firmware_prepare_data against make_unsign_tx).
ShowsPayee ==
  [][\A p \in prepared' \ prepared :
       p.data.tx.outputs[p.data.pay_index + 1] =
         Output(PaysTo(ut.to_address),
                IF isUsdt THEN OmniOutput ELSE ut.pay)]_vars

OwnedBy(u, key) ==
  \A i \in 1..Len(u.utxo_list) : u.utxo_list[i].script = Lock("p2pkh", key)

\* sign returning 0 leaves a transaction the network accepts, whatever signatures
\* and scripts earlier calls had left in the object.
SignCompletes ==
  [][\A key \in Hashes :
       SignSucceeds(key) /\ OwnedBy(ut, key) => Complete(ut'.tx_str, ut')]_vars

\* The signatures of the open order's inputs, in the order of the inputs.
SignedInOrder(u) ==
  /\ u.tx_str # NoTx
  /\ OwnedBy(u, u.public_key)
  /\ \A i \in 0..(Len(u.tx_str.inputs) - 1) :
       /\ i < Len(u.sig_data)
       /\ u.sig_data[i + 1] =
            Signature(u.public_key, SignedMessage(u.tx_str, u, i))

\* makeSignedTx completes the transaction when the wallet's answers were handed
\* back in the order of the inputs, however often the transaction was prepared,
\* signed or finished in between.
MakeSignedTxCompletes ==
  [][MakeSignedTx /\ handle' = "open" /\ SignedInOrder(ut)
       => Complete(ut'.tx_str, ut')]_vars

CarriesOut(o, tx) == Honours(o.coin, o, tx)

\* The object as a PaymentOrder.  Of a transaction only what the signatures cover
\* is seen there.
Payment == INSTANCE PaymentOrder WITH
  Orders <- {OrderOf(r.coin, NewUserTransaction(r)) : r \in Requests},
  NoPlan <- NoTx,
  order <- IF handle = "open" THEN OrderOf(Coin, ut) ELSE NoOrder,
  plan <- IF handle = "open" THEN Skeleton(ut.tx_str) ELSE NoTx

\* The object implements PaymentOrder: no call replaces the transaction of an
\* order by another one.
OnePlanPerOrder == Payment!Spec

(***************************************************************************)
(* What comments and interfaces of the code say of it, and the code does   *)
(* not keep.                                                               *)
(***************************************************************************)
\* to_address is the payee's address (TokenCommon.h:188), whichever of the
\* supported kinds it is.
UsdtReachesPayee ==
  handle = "open" /\ isUsdt /\ ut.tx_str # NoTx /\ Decodes(ut.to_address)
    => PaysPayee(Coin, ut, ut.tx_str)

=============================================================================
