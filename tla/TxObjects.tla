----------------------------- MODULE TxObjects -----------------------------
(***************************************************************************)
(* An object that Tx.createTxByCoinMajor made for EOS, Ethereum or TRON,   *)
(* used by a caller in any order, with a device that answers what it was   *)
(* last given, an answer that is cut off, or nothing.                      *)
(***************************************************************************)
EXTENDS TxEos, TxEth, TxTrx

CONSTANTS
  EosOrders, EthOrders, TrxOrders,   \* the parameters of init
  EosActions, AddedActions,          \* what EOS transactions do, and what is added
  MaxEos       \* a bound: the actions and signatures of an EOS transaction

ASSUME OrderAssumption ==
  /\ \A o \in EosOrders : /\ o = EosOrder(o.well, o.actions, o.signatures)
                            /\ o.actions \in Seq(EosActions)
  /\ \A o \in EthOrders : o = EthOrder(o.well, o.request)
  /\ \A o \in TrxOrders : o = TrxOrder(o.well, o.way, o.request)
  /\ AddedActions \subseteq EosActions /\ MaxEos \in Nat

Init ==
  /\ major \in {"EOS", "ETH", "TRX"}
  /\ handle = "null" /\ native = <<>> /\ signResult = {} /\ shown = {} /\ order = {}
  /\ stage = "spoilt" /\ ret = Void /\ down = FALSE

Room == handle = "tx" => Len(native.content) + Len(native.signatures) < MaxEos

Eos ==
  \/ \E o \in EosOrders : EosInit(o)
  \/ EosPrepare
  \/ shown # {} /\ \E form \in Answers : EosProcess(form)
  \/ Room /\ EosMakeSigned
  \/ Room /\ \E goodKey \in BOOLEAN : EosSign(goodKey)
  \/ EosGetResult
  \/ Room /\ \E action \in AddedActions : EosAddAction(action)
  \/ EosClose

Eth ==
  \/ \E o \in EthOrders : EthInit(o)
  \/ EthPrepare
  \/ shown # {} /\ \E form \in Answers : EthProcess(form)
  \/ EthText("makeSignedTx") \/ EthText("getSignResult")
  \/ \E goodKey \in BOOLEAN : EthSign(goodKey)
  \/ EthSignGame("play")
  \/ EthClose

Trx ==
  \/ \E o \in TrxOrders : TrxInit(o)
  \/ TrxPrepare
  \/ shown # {} /\ \E form \in Answers : TrxProcess(form)
  \/ TrxMakeSigned
  \/ \E goodKey \in BOOLEAN : TrxSign(goodKey)
  \/ TrxGetResult
  \/ TrxClose

Next ==
  \/ major = "EOS" /\ Eos
  \/ major = "ETH" /\ Eth
  \/ major = "TRX" /\ Trx

Spec == Init /\ [][Next]_vars

(***************************************************************************)
(* Properties.                                                             *)
(***************************************************************************)
\* The type invariant of the objects.
Stages ==
  {"fresh", "shown", "answered", "signed", "done", "refused", "spoilt"}
Given == CASE major = "EOS" -> EosOrders [] major = "ETH" -> EthOrders [] OTHER -> TrxOrders
TxObjectTypeOK ==
  /\ handle \in {"null", "tx"} \cup (IF major = "ETH" THEN {"bad"} ELSE {})
  /\ handle # "null" => DOMAIN native =
       CASE major = "EOS" -> {"content", "signatures"}
         [] major = "ETH" -> {"order", "eth_tx", "tx_str"}
         [] OTHER -> {"token_name", "tx_unsigned", "signature"}
  /\ \A a \in signResult : a.form \in Answers /\ (a.signature # {} => a.form = "intact")
  /\ order \in SUBSET Given /\ (handle # "null" => order # {})
  /\ stage \in Stages /\ down \in BOOLEAN

\* The contents that are of an order, and the one it asks for.
OfOrder(c, o) ==
  CASE major = "EOS" -> Len(c) >= Len(o.actions) /\ SubSeq(c, 1, Len(o.actions)) = o.actions
    [] major = "ETH" -> c = <<>> \/ c[1] = o.request
    [] OTHER -> \E raw \in Built(o) : c = <<raw>>
Asked(o) ==
  CASE major = "EOS" -> {o.actions}
    [] major = "ETH" -> {<<o.request>>}
    [] OTHER -> {<<raw>> : raw \in Built(o)}
Brought(o) == IF major = "EOS" THEN o.signatures ELSE <<>>

\* A caller who makes the calls of Tx in their order, each once, gets the transaction
\* of this order with one signature, valid for it, besides those the order brought,
\* whatever was done with the object before (signResult is never reset).
OrderlyGetsSigned ==
  stage = "done" =>
    /\ ret.what = "tx"
    /\ \E o \in order :
         ret.content \in Asked(o) /\ ret.signatures = Append(Brought(o), {ret.content})

\* The application goes down only at what an order that is not well formed leaves, at
\* makeSignedTx before any answer, and at an answer too short for Ethereum; so never
\* after close, but for TRON's makeSignedTx, and never on a caller who keeps the order.
CrashesOnlyWhenMisused ==
  down =>
    \/ \E o \in order : IF major = "TRX" THEN o.well /\ Throws(o) ELSE major = "ETH" /\ ~o.well
    \/ /\ stage = "spoilt"
       /\ CASE major = "EOS" -> signResult = {} /\ handle = "tx"
            [] major = "ETH" -> handle = "tx"
            [] OTHER -> signResult = {}

\* Whatever the order of the calls, no call returns anything of an earlier order, or
\* of what the native object was before init (one object is used for many orders).
NeverAnEarlierOrder ==
  ret.what \in {"data", "tx"} => \E o \in order : OfOrder(ret.content, o)

\* What TRON's signed transactions are shown as gives the same transaction when read
\* again, for transfers of TRX and calls of contracts; other orders read from JSON
\* are shown as calls of contracts, which they are not (trx20_to_json).
Readable(o) ==
  \/ o.way = "token" /\ o.request.token = "TRX"
  \/ o.way = "contract"
  \/ o.way = "transaction" /\ o.request.type = "TriggerSmartContract"
JsonReadsBack ==
  major = "TRX" /\ ret.what = "tx" =>
    \A o \in order : Readable(o) =>
      \A j \in ret.json : ~JsonThrows(j) /\ make_unsigned_tx_from_json(j) = {ret.content[1]}

=============================================================================
