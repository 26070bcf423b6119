------------------------------- MODULE TxBtc -------------------------------
(***************************************************************************)
(* The Bitcoin/USDT transaction object an Android application works with:  *)
(* TxBtc.java, its native half btc.cpp, and the hardware wallet that signs *)
(* over Bluetooth.  The native object is one UserTransaction; the order in *)
(* which the application calls the methods is free, and the wallet's       *)
(* answers come back late, in any order, and may be delivered twice.       *)
(***************************************************************************)
EXTENDS BtcTx

CONSTANTS
  Requests,     \* the JSON orders passed to init
  WalletKey,    \* the key of the hardware wallet
  MaxCreates,   \* bound: how often init is called on one object
  MaxSigs       \* bound: length of sig_data

Request == [coin : Coins, to_address : Address, change_address : Address,
            pay : 0..(U64 - 1), fee : Nat, utxo_list : Seq(Utxo)]

ASSUME RequestsAssumption == Requests \subseteq Request

\* All the bitcoin there is, in satoshi, fits a uint64_t.
ASSUME SupplyAssumption == \A r \in Requests : Supplied(r.utxo_list)

ASSUME WalletKeyAssumption == WalletKey \in Hashes

ASSUME BoundsAssumption == MaxCreates \in Nat /\ MaxSigs \in Nat

VARIABLES
  handle,       \* _tx: "null", "open", "bad" (-1), or the process "aborted"
  isUsdt,       \* set by init from coin_id
  ut,           \* the UserTransaction behind the handle
  prepareIndex, \* firmwarePrepareDataIndex
  prepared,     \* what firmwarePrepareData has returned, with its index
  answers,      \* what the hardware wallet has answered
  creates       \* counts init

vars == <<handle, isUsdt, ut, prepareIndex, prepared, answers, creates>>

Coin == IF isUsdt THEN "USDT" ELSE "BTC"

\* _createTx: fee_count is 1, so the fee of the order is its fee_price.
NewUserTransaction(r) ==
  [to_address |-> r.to_address, change_address |-> r.change_address,
   pay |-> r.pay, fee_count |-> 1, fee_price |-> r.fee,
   utxo_list |-> r.utxo_list,
   input_count |-> 0, public_key |-> NoKey, sig_data |-> <<>>, tx_str |-> NoTx]

\* What stands for the object when there is none.
NoAddress == [kind |-> "empty", hash |-> WalletKey]

NoUserTransaction ==
  NewUserTransaction([coin |-> "BTC", to_address |-> NoAddress,
    change_address |-> NoAddress, pay |-> 0, fee |-> 0, utxo_list |-> <<>>])

Init ==
  /\ handle = "null"
  /\ isUsdt = FALSE
  /\ ut = NoUserTransaction
  /\ prepareIndex = 0
  /\ prepared = {}
  /\ answers = {}
  /\ creates = 0

\* An exception or a fault ends the process.
Abort == handle' = "aborted" /\ ut' = NoUserTransaction

\* init does not look at the handle it has: the object behind it is lost.
CreateTx(r) ==
  /\ handle # "aborted" /\ creates < MaxCreates
  /\ handle' = "open"
  /\ isUsdt' = (r.coin = "USDT")
  /\ ut' = NewUserTransaction(r)
  /\ creates' = creates + 1
  /\ UNCHANGED <<prepareIndex, prepared, answers>>

\* JSON that does not parse or lacks a field: _createTx returns -1 and init
\* keeps that as the handle.  A value of the wrong type throws instead.
CreateTxFails ==
  /\ handle # "aborted" /\ creates < MaxCreates
  /\ handle' \in {"bad", "aborted"}
  /\ ut' = NoUserTransaction
  /\ isUsdt' \in BOOLEAN
  /\ creates' = creates + 1
  /\ UNCHANGED <<prepareIndex, prepared, answers>>

\* Every native method dereferences the handle; only 0 is tested for.
UseBadHandle ==
  /\ handle = "bad"
  /\ Abort
  /\ UNCHANGED <<isUsdt, prepareIndex, prepared, answers, creates>>

\* make_unsign_tx, its result ignored, then firmware_prepare_data.  Without a
\* transaction string the latter throws; with an index the string has no input
\* for, it writes beyond the inputs, which faults or leaves the string as it is.
PrepareData(i) ==
  /\ handle = "open" /\ i < Len(ut.utxo_list)
  /\ prepareIndex' = i
  /\ LET u == MakeUnsignTx(Coin, ut)
     IN  \/ /\ MakeUnsignRet(Coin, ut) = Thrown \/ ~HasInput(u, i)
            /\ Abort
            /\ UNCHANGED prepared
         \/ /\ MakeUnsignRet(Coin, ut) # Thrown /\ u.tx_str # NoTx
            /\ ut' = u
            /\ prepared' = prepared \cup
                 {[index |-> i,
                   data |-> IF HasInput(u, i) THEN FirmwareData(Coin, u, i)
                            ELSE [FirmwareData(Coin, u, 0) EXCEPT !.tx = u.tx_str]]}
            /\ UNCHANGED handle
  /\ UNCHANGED <<isUsdt, answers, creates>>

DeviceSigns(p) ==
  /\ p \in prepared
  /\ answers' = answers \cup {[index |-> p.index, key |-> WalletKey,
                               sig |-> Signature(WalletKey, p.data.tx)]}
  /\ UNCHANGED <<handle, isUsdt, ut, prepareIndex, prepared, creates>>

\* The index the answer belongs to is passed down and not used.
ProcessResult(a) ==
  /\ handle = "open" /\ a \in answers /\ Len(ut.sig_data) < MaxSigs
  /\ ut' = FirmwareProcessResult(ut, a)
  /\ UNCHANGED <<handle, isUsdt, prepareIndex, prepared, answers, creates>>

\* Without a transaction string make_sign_tx throws; with too few signatures it
\* reads beyond sig_data, which faults or fills the scripts with garbage.
MakeSignedTx ==
  /\ handle = "open"
  /\ \/ /\ ut.tx_str = NoTx \/ ~SignaturesSuffice(ut)
        /\ Abort
     \/ /\ ut.tx_str # NoTx
        /\ ut' = MakeSignTx(ut)
        /\ UNCHANGED handle
  /\ UNCHANGED <<isUsdt, prepareIndex, prepared, answers, creates>>

SignSucceeds(key) ==
  /\ handle = "open"
  /\ MakeUnsignRet(Coin, ut) = 0
  /\ ut' = MakeSignTx(SignTx(MakeUnsignTx(Coin, ut), key))
  /\ UNCHANGED <<handle, isUsdt, prepareIndex, prepared, answers, creates>>

\* sign returns -2, or an exception ends the process.
SignFails ==
  /\ handle = "open"
  /\ MakeUnsignRet(Coin, ut) # 0
  /\ IF MakeUnsignRet(Coin, ut) = Thrown
       THEN Abort
       ELSE ut' = MakeUnsignTx(Coin, ut) /\ UNCHANGED handle
  /\ UNCHANGED <<isUsdt, prepareIndex, prepared, answers, creates>>

\* close deletes the object; init can be called again.
Close ==
  /\ handle = "open"
  /\ handle' = "null" /\ ut' = NoUserTransaction
  /\ UNCHANGED <<isUsdt, prepareIndex, prepared, answers, creates>>

Next ==
  \/ \E r \in Requests : CreateTx(r)
  \/ CreateTxFails
  \/ UseBadHandle
  \/ \E i \in 0..(Len(ut.utxo_list) - 1) : PrepareData(i)
  \/ \E p \in prepared : DeviceSigns(p)
  \/ \E a \in answers : ProcessResult(a)
  \/ MakeSignedTx
  \/ \E key \in Hashes : SignSucceeds(key)
  \/ SignFails
  \/ Close

Spec == Init /\ [][Next]_vars

=============================================================================
