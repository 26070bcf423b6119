-------------------------- MODULE TxObjectsProofs --------------------------
(***************************************************************************)
(* The safety of the EOS, Ethereum and TRON objects, for all orders and    *)
(* all sequences of calls.  Each coin has an invariant of its own, which   *)
(* ties what the object holds, at each stage of a caller, to the order of  *)
(* the last init.                                                          *)
(***************************************************************************)
EXTENDS TxObjects, TLAPS

\* What holds for each coin: no order yet, or one.
SharedInv ==
  /\ stage \in Stages /\ down \in BOOLEAN
  /\ \A a \in signResult : a.form \in Answers /\ (a.signature # {} => a.form = "intact")
  /\ order = {} => handle = "null" /\ stage = "spoilt" /\ ret.what \notin {"data", "tx"}
  /\ order = {} \/ \E o \in Given : order = {o}

Intact(content) == [form |-> "intact", signature |-> {content}]

(***************************************************************************)
(* EOS.                                                                    *)
(***************************************************************************)
Extends(content, o) ==
  /\ content \in Seq(EosActions)
  /\ Len(content) >= Len(o.actions) /\ SubSeq(content, 1, Len(o.actions)) = o.actions

EosFresh(o) == handle = "tx" /\ native.content = o.actions /\ native.signatures = o.signatures

EosOf(o) ==
  /\ handle = "tx" => /\ native = [content |-> native.content, signatures |-> native.signatures]
                      /\ Extends(native.content, o)
  /\ ret.what \in {"data", "tx"} => Extends(ret.content, o)
  /\ stage = "fresh" => handle = "null" \/ EosFresh(o)
  /\ stage \in {"shown", "answered"} => EosFresh(o) /\ shown = {o.actions}
  /\ stage = "answered" => signResult = {Intact(o.actions)}
  /\ stage = "signed" =>
       /\ handle = "tx" /\ native.content = o.actions
       /\ native.signatures = Append(o.signatures, {o.actions})
  /\ stage = "done" =>
       /\ ret.what = "tx" /\ ret.content = o.actions
       /\ ret.signatures = Append(o.signatures, {o.actions})

EosInv ==
  /\ SharedInv /\ major = "EOS" /\ handle \in {"null", "tx"}
  /\ \A o \in order : EosOf(o)
  /\ down => stage = "spoilt" /\ signResult = {} /\ handle = "tx"

LEMMA EosInitInv == ASSUME EosInv, NEW o \in EosOrders, EosInit(o) PROVE EosInv'
<1>. USE DEF EosInv, EosInit, Return, Returns, Goes, Code, Result
<1>1. o.actions \in Seq(EosActions)
  BY OrderAssumption
<1>2. SubSeq(o.actions, 1, Len(o.actions)) = o.actions
  BY <1>1
<1>3. SharedInv'
  BY DEF SharedInv, Stages, Given
<1>4. EosOf(o)'
  BY <1>1, <1>2 DEF EosOf, Extends, EosFresh
<1>. QED  BY <1>3, <1>4

LEMMA EosPrepareInv == ASSUME EosInv, EosPrepare PROVE EosInv'
<1>. USE DEF EosInv, EosPrepare, Return, Returns, Goes, Data, Null, Result
<1>1. SharedInv'
  BY DEF SharedInv, Stages, Given
<1>2. ASSUME NEW o \in order  PROVE EosOf(o)'
  BY <1>2 DEF EosOf, Extends, EosFresh
<1>. QED  BY <1>1, <1>2

LEMMA EosProcessInv ==
  ASSUME EosInv, NEW form \in Answers, EosProcess(form)  PROVE EosInv'
<1>. USE DEF EosInv, EosProcess, Returns, Goes, Void, Result, Answer
<1>1. SharedInv'
  BY DEF SharedInv, Stages, Given, Answers
<1>2. ASSUME NEW o \in order  PROVE EosOf(o)'
  BY <1>2 DEF EosOf, EosFresh, Intact
<1>. QED  BY <1>1, <1>2

\* The answer is there when the caller keeps to the order of the calls.
LEMMA EosMakeSignedInv == ASSUME EosInv, EosMakeSigned PROVE EosInv'
<1>. USE DEF EosInv, Return, Returns, Goes, Result
<1>1. CASE handle = "null"
  <2>1. SharedInv'
    BY <1>1 DEF SharedInv, EosMakeSigned, Stages, Given, Null
  <2>2. ASSUME NEW o \in order  PROVE EosOf(o)'
    BY <1>1, <2>2 DEF EosOf, EosFresh, EosMakeSigned, Null
  <2>. QED  BY <1>1, <2>1, <2>2 DEF EosMakeSigned
<1>2. CASE handle # "null" /\ signResult = {}
  <2>1. Crash("makeSignedTx") /\ UNCHANGED order
    BY <1>2 DEF EosMakeSigned
  <2>2. SharedInv'
    BY <1>2, <2>1 DEF SharedInv, Crash, Stages, Given, Void
  <2>3. ASSUME NEW o \in order  PROVE EosOf(o)'
    BY <1>2, <2>1 DEF EosOf, EosFresh, Crash, Void
  <2>4. stage # "answered"
    BY <1>2 DEF SharedInv, EosOf
  <2>. QED  BY <1>2, <2>1, <2>2, <2>3, <2>4 DEF Crash
<1>3. CASE handle # "null" /\ signResult # {}
  <2>1. PICK a \in signResult :
          /\ native' = SetSignatures(native, a)
          /\ Return("makeSignedTx", Tx(native'.content, native'.signatures))
          /\ UNCHANGED <<handle, signResult, shown, order>>
    BY <1>3 DEF EosMakeSigned
  <2>2. SharedInv'
    BY <1>3, <2>1 DEF SharedInv, Stages, Given, Tx
  <2>3. ASSUME NEW o \in order  PROVE EosOf(o)'
    <3>1. EosOf(o) /\ handle = "tx"
      BY <1>3, <2>1
    <3>2. /\ native' = [content |-> native.content, signatures |-> native'.signatures]
          /\ native'.signatures = IF a.form = "intact"
                                  THEN Append(native.signatures, a.signature)
                                  ELSE native.signatures
      BY <2>1, <3>1 DEF EosOf, SetSignatures
    <3>3. /\ ret' = Tx(native.content, native'.signatures)
          /\ stage' = IF stage = "answered" THEN "done" ELSE "spoilt"
      BY <2>1, <3>2
    <3>4. Extends(native.content, o)
      BY <3>1 DEF EosOf
    <3>5. stage = "answered" =>
            /\ native.content = o.actions
            /\ native'.signatures = Append(o.signatures, {o.actions})
      BY <2>1, <3>1, <3>2 DEF EosOf, EosFresh, Intact
    <3>. QED  BY <2>1, <3>1, <3>2, <3>3, <3>4, <3>5 DEF EosOf, EosFresh, Tx
  <2>. QED  BY <1>3, <2>1, <2>2, <2>3
<1>. QED  BY <1>1, <1>2, <1>3

LEMMA EosSignInv == ASSUME EosInv, NEW goodKey \in BOOLEAN, EosSign(goodKey) PROVE EosInv'
<1>. USE DEF EosInv, EosSign, Return, Returns, Goes, Code, Result
<1>1. SharedInv'
  BY DEF SharedInv, Stages, Given
<1>2. ASSUME NEW o \in order  PROVE EosOf(o)'
  BY <1>2 DEF EosOf, Extends, EosFresh
<1>. QED  BY <1>1, <1>2

LEMMA EosGetResultInv == ASSUME EosInv, EosGetResult PROVE EosInv'
<1>. USE DEF EosInv, EosGetResult, Return, Returns, Goes, Tx, Empty, Result
<1>1. SharedInv'
  BY DEF SharedInv, Stages, Given
<1>2. ASSUME NEW o \in order  PROVE EosOf(o)'
  BY <1>2 DEF EosOf, Extends, EosFresh
<1>. QED  BY <1>1, <1>2

\* An action more leaves the actions of the order in front.
LEMMA ExtendsAppend ==
  ASSUME NEW o \in EosOrders, NEW content, Extends(content, o), NEW a \in EosActions
  PROVE  Extends(Append(content, a), o)
<1>. DEFINE n == Len(o.actions)
            more == Append(content, a)
<1>1. /\ content \in Seq(EosActions) /\ o.actions \in Seq(EosActions)
      /\ Len(content) >= n /\ SubSeq(content, 1, n) = o.actions
  BY OrderAssumption DEF Extends
<1>2. more \in Seq(EosActions) /\ Len(more) = Len(content) + 1 /\ n \in Nat
  BY <1>1
<1>3. \A i \in 1..n : more[i] = content[i]
  BY <1>1
<1>4. SubSeq(more, 1, n) = SubSeq(content, 1, n)
  BY <1>1, <1>2, <1>3
<1>. QED  BY <1>1, <1>2, <1>4 DEF Extends

LEMMA EosAddActionInv ==
  ASSUME EosInv, NEW a \in AddedActions, EosAddAction(a)  PROVE EosInv'
<1>. USE DEF EosInv, EosAddAction, Return, Returns, Goes, Code, Result
<1>1. SharedInv'
  BY DEF SharedInv, Stages, Given
<1>2. ASSUME NEW o \in order  PROVE EosOf(o)'
  <2>1. CASE handle = "null"
    BY <1>2, <2>1 DEF EosOf, EosFresh
  <2>2. CASE handle # "null"
    <3>1. /\ EosOf(o) /\ Extends(native.content, o) /\ handle = "tx" /\ o \in EosOrders
          /\ a \in EosActions
      BY <1>2, <2>2, OrderAssumption DEF EosOf, SharedInv, Given
    <3>2. native' = [content |-> Append(native.content, a),
                     signatures |-> native.signatures]
      BY <2>2, <3>1 DEF EosOf
    <3>3. Extends(native'.content, o)
      <4>1. Extends(Append(native.content, a), o)
        BY <3>1, ExtendsAppend
      <4>. QED  BY <3>2, <4>1
    <3>4. ret' = Code(0) /\ stage' = "spoilt" /\ order' = order /\ handle' = handle
      BY <2>2
    <3>. QED  BY <3>1, <3>2, <3>3, <3>4 DEF EosOf, EosFresh
  <2>. QED  BY <2>1, <2>2
<1>. QED  BY <1>1, <1>2

LEMMA EosCloseInv == ASSUME EosInv, EosClose PROVE EosInv'
<1>. USE DEF EosInv, EosClose, Return, Returns, Goes, Void, Result
<1>1. SharedInv'
  BY DEF SharedInv, Stages, Given
<1>2. ASSUME NEW o \in order  PROVE EosOf(o)'
  BY <1>2 DEF EosOf, EosFresh
<1>. QED  BY <1>1, <1>2

LEMMA EosStep == ASSUME EosInv, Eos PROVE EosInv'
BY EosInitInv, EosPrepareInv, EosProcessInv, EosMakeSignedInv, EosSignInv, EosGetResultInv,
   EosAddActionInv, EosCloseInv DEF Eos

(***************************************************************************)
(* Ethereum.                                                               *)
(***************************************************************************)
OfRequest(content, o) == content = <<>> \/ content[1] = o.request

Signed(content) == Tx(content, <<{content}>>)

EthOf(o) ==
  /\ handle = "tx" =>
       /\ native = [order |-> <<o.request>>, eth_tx |-> native.eth_tx, tx_str |-> native.tx_str]
       /\ native.eth_tx \in {<<>>, <<o.request>>}
       /\ native.tx_str.what \in {"data", "tx"} => OfRequest(native.tx_str.content, o)
  /\ handle = "bad" => ~o.well
  /\ ret.what \in {"data", "tx"} => OfRequest(ret.content, o)
  /\ stage = "shown" =>
       handle = "tx" /\ native.eth_tx = <<o.request>> /\ shown = {<<o.request>>}
  /\ stage \in {"answered", "signed"} => handle = "tx" /\ native.tx_str = Signed(<<o.request>>)
  /\ stage = "done" => ret = Signed(<<o.request>>)

EthInv ==
  /\ SharedInv /\ major = "ETH" /\ handle \in {"null", "tx", "bad"}
  /\ handle # "null" => DOMAIN native = {"order", "eth_tx", "tx_str"}
  /\ \A o \in order : EthOf(o)
  /\ down => handle = "bad" \/ (stage = "spoilt" /\ handle = "tx")

LEMMA EthInitInv == ASSUME EthInv, NEW o \in EthOrders, EthInit(o) PROVE EthInv'
<1>. USE DEF EthInv, EthInit, Return, Returns, Goes, Code, Empty, Result
<1>1. SharedInv'
  BY DEF SharedInv, Stages, Given
<1>2. EthOf(o)'
  BY DEF EthOf, OfRequest
<1>. QED  BY <1>1, <1>2

\* A crash at a bad handle, or at an answer that is too short.
LEMMA EthCrashInv ==
  ASSUME EthInv, NEW op, Crash(op), UNCHANGED order,
         handle = "bad" \/ (handle = "tx" /\ op = "firmwareProcessResult")
  PROVE  EthInv'
<1>. USE DEF EthInv, Crash, Goes, Void, Result
<1>1. SharedInv'
  BY DEF SharedInv, Stages, Given
<1>2. ASSUME NEW o \in order  PROVE EthOf(o)'
  BY <1>2 DEF EthOf
<1>. QED  BY <1>1, <1>2

\* A call on no object.
LEMMA EthNullInv ==
  ASSUME EthInv, handle = "null", NEW op, op # "init", NEW r, Return(op, r),
         r.what \in {"void", "null", "empty", "error"},
         UNCHANGED <<handle, native, signResult, shown, order>>
  PROVE  EthInv'
<1>. USE DEF EthInv, Return, Returns, Goes
<1>1. SharedInv'
  BY DEF SharedInv, Stages, Given
<1>2. ASSUME NEW o \in order  PROVE EthOf(o)'
  BY <1>2 DEF EthOf
<1>. QED  BY <1>1, <1>2

\* A call on a transaction: what is left to show is what it makes of it.
LEMMA EthTxInv ==
  ASSUME EthInv, handle = "tx", handle' = "tx", NEW op, op # "init", NEW r, NEW good,
         Returns(op, r, good), UNCHANGED <<signResult, order>>,
         DOMAIN native' = {"order", "eth_tx", "tx_str"},
         \A o \in order : EthOf(o)'
  PROVE  EthInv'
<1>1. SharedInv'
  BY DEF EthInv, SharedInv, Returns, Goes, Stages, Given
<1>. QED  BY <1>1 DEF EthInv, Returns

LEMMA EthPrepareInv == ASSUME EthInv, EthPrepare PROVE EthInv'
<1>1. CASE handle = "null"
  BY <1>1, EthNullInv DEF EthPrepare, Null, Result
<1>2. CASE handle = "bad"
  BY <1>2, EthCrashInv DEF EthPrepare
<1>3. CASE handle = "tx"
  <2>1. /\ Return("firmwarePrepareData", Data(native.order))
        /\ native' = [native EXCEPT !.eth_tx = native.order] /\ shown' = {native.order}
        /\ UNCHANGED <<handle, signResult, order>>
    BY <1>3 DEF EthPrepare
  <2>2. ASSUME NEW o \in order  PROVE EthOf(o)'
    <3>1. /\ native.order = <<o.request>>
          /\ native' = [order |-> <<o.request>>, eth_tx |-> <<o.request>>,
                         tx_str |-> native.tx_str]
          /\ native.tx_str.what \in {"data", "tx"} => OfRequest(native.tx_str.content, o)
          /\ handle' = "tx"
      BY <1>3, <2>1 DEF EthInv, EthOf
    <3>2. /\ ret' = Data(<<o.request>>)
          /\ stage' = IF stage = "fresh" THEN "shown" ELSE "spoilt"
      BY <2>1, <3>1 DEF Return, Returns, Goes, Data, Result
    <3>3. OfRequest(<<o.request>>, o)
      BY DEF OfRequest
    <3>. QED  BY <2>1, <3>1, <3>2, <3>3 DEF EthOf, Data, Result
  <2>3. DOMAIN native' = {"order", "eth_tx", "tx_str"}
    BY <1>3, <2>1 DEF EthInv
  <2>. QED  BY <1>3, <2>1, <2>2, <2>3, EthTxInv DEF Return
<1>. QED  BY <1>1, <1>2, <1>3 DEF EthInv

LEMMA EthTextInv == ASSUME EthInv, NEW op \in {"makeSignedTx", "getSignResult"}, EthText(op) PROVE EthInv'
<1>1. CASE handle = "null"
  BY <1>1, EthNullInv DEF EthText, Null, Result
<1>2. CASE handle = "bad"
  BY <1>2, EthCrashInv DEF EthText
<1>3. CASE handle = "tx"
  <2>1. /\ Return(op, native.tx_str)
        /\ UNCHANGED <<handle, native, signResult, shown, order>>
    BY <1>3 DEF EthText
  <2>2. ASSUME NEW o \in order  PROVE EthOf(o)'
    BY <1>3, <2>1 DEF EthInv, EthOf, Return, Returns, Goes
  <2>. QED  BY <1>3, <2>1, <2>2, EthTxInv DEF Return, EthInv
<1>. QED  BY <1>1, <1>2, <1>3 DEF EthInv

LEMMA EthOrderHeld ==
  ASSUME EthInv, handle = "tx", NEW o \in order
  PROVE  native.order = <<o.request>> /\ OfRequest(native.order, o)
<1>1. native = [order |-> <<o.request>>, eth_tx |-> native.eth_tx, tx_str |-> native.tx_str]
  BY DEF EthInv, EthOf
<1>2. native.order = <<o.request>>
  BY <1>1
<1>. QED  BY <1>2 DEF OfRequest

\* Signing a content puts it, signed, in place of the text there was.
LEMMA EthSignsInv ==
  ASSUME EthInv, handle = "tx", NEW op \in {"sign", "sign_game"}, NEW r, NEW good \in BOOLEAN,
         Returns(op, r, good), NEW content, EthSigns(content, good),
         \A o \in order : OfRequest(content, o) /\ (op = "sign" => content = <<o.request>>),
         r = Code(0) \/ (op = "sign_game" /\ r = native'.tx_str),
         UNCHANGED <<handle, signResult, shown, order>>
  PROVE  EthInv'
<1>. DEFINE text == Tx(content, <<IF good THEN {content} ELSE {}>>)
<1>0. text.what = "tx" /\ text.content = content
  BY DEF Tx, Result
<1>1. ASSUME NEW o \in order  PROVE EthOf(o)'
  <2>1. /\ native' = [order |-> <<o.request>>, eth_tx |-> native.eth_tx, tx_str |-> text]
        /\ native.eth_tx \in {<<>>, <<o.request>>} /\ handle' = "tx"
    BY DEF EthInv, EthOf, EthSigns
  <2>2. stage' = IF op = "sign" /\ stage = "fresh" /\ good THEN "signed"
                 ELSE IF op = "sign" /\ stage = "fresh" THEN "refused" ELSE "spoilt"
    BY DEF Returns, Goes
  <2>3. ret'.what \in {"data", "tx"} => ret'.content = content
    BY <1>0, <2>1 DEF Returns, Code, Result
  <2>4. stage' = "signed" => text = Signed(<<o.request>>)
    BY <1>1, <2>2 DEF Signed
  <2>5. OfRequest(content, o)
    BY <1>1
  <2>. HIDE DEF text
  <2>. QED  BY <1>0, <2>1, <2>2, <2>3, <2>4, <2>5 DEF EthOf
<1>2. DOMAIN native' = {"order", "eth_tx", "tx_str"}
  BY DEF EthInv, EthSigns
<1>. QED  BY <1>1, <1>2, EthTxInv

LEMMA EthSignInv == ASSUME EthInv, NEW goodKey \in BOOLEAN, EthSign(goodKey) PROVE EthInv'
<1>1. CASE handle = "null"
  BY <1>1, EthNullInv DEF EthSign, Code, Result
<1>2. CASE handle = "bad"
  BY <1>2, EthCrashInv DEF EthSign
<1>3. CASE handle = "tx"
  <2>1. /\ Returns("sign", Code(0), goodKey) /\ EthSigns(native.order, goodKey)
        /\ UNCHANGED <<handle, signResult, shown, order>>
    BY <1>3 DEF EthSign
  <2>2. \A o \in order : native.order = <<o.request>> /\ OfRequest(native.order, o)
    BY <1>3, EthOrderHeld
  <2>. QED  BY <1>3, <2>1, <2>2, EthSignsInv
<1>. QED  BY <1>1, <1>2, <1>3 DEF EthInv

LEMMA EthSignGameInv == ASSUME EthInv, NEW payload, EthSignGame(payload) PROVE EthInv'
<1>1. CASE handle = "null"
  BY <1>1, EthNullInv DEF EthSignGame, Null, Result
<1>2. CASE handle = "bad"
  BY <1>2, EthCrashInv DEF EthSignGame
<1>3. CASE handle = "tx"
  <2>1. /\ EthSigns(Append(native.order, payload), TRUE)
        /\ Return("sign_game", native'.tx_str)
        /\ UNCHANGED <<handle, signResult, shown, order>>
    BY <1>3 DEF EthSignGame
  <2>2. native'.tx_str.what = "tx"
    BY <1>3, <2>1 DEF EthInv, EthSigns, Tx, Result
  <2>3. ASSUME NEW o \in order  PROVE OfRequest(Append(native.order, payload), o)
    <3>1. native.order = <<o.request>>
      BY <1>3, <2>3, EthOrderHeld
    <3>2. Append(<<o.request>>, payload)[1] = o.request
      OBVIOUS
    <3>. QED  BY <3>1, <3>2 DEF OfRequest
  <2>. QED  BY <1>3, <2>1, <2>2, <2>3, EthSignsInv DEF Return
<1>. QED  BY <1>1, <1>2, <1>3 DEF EthInv

\* The answer of the device makes the text that is sent.
LEMMA EthProcessInv == ASSUME EthInv, NEW form \in Answers, EthProcess(form) PROVE EthInv'
<1>1. CASE handle = "null"
  BY <1>1, EthNullInv DEF EthProcess, Void, Result
<1>2. CASE handle = "bad"
  BY <1>2, EthCrashInv DEF EthProcess
<1>3. CASE handle = "tx"
  <2>1. CASE form # "intact" /\ Crash("firmwareProcessResult") /\ UNCHANGED order
    BY <1>3, <2>1, EthCrashInv
  <2>2. CASE /\ Returns("firmwareProcessResult", Void, form = "intact")
             /\ native' = [native EXCEPT !.tx_str =
                             Tx(native.eth_tx, <<Answer(form).signature>>)]
             /\ UNCHANGED <<handle, signResult, shown, order>>
    <3>. DEFINE text == Tx(native.eth_tx, <<Answer(form).signature>>)
    <3>0. text.what = "tx" /\ text.content = native.eth_tx
      BY DEF Tx, Result
    <3>1. ASSUME NEW o \in order  PROVE EthOf(o)'
      <4>1. /\ native' = [order |-> <<o.request>>, eth_tx |-> native.eth_tx, tx_str |-> text]
            /\ native.eth_tx \in {<<>>, <<o.request>>} /\ handle' = "tx"
            /\ shown' = shown /\ EthOf(o)
        BY <1>3, <2>2 DEF EthInv, EthOf
      <4>2. stage' = IF stage = "shown" /\ form = "intact" THEN "answered" ELSE "spoilt"
        BY <2>2 DEF Returns, Goes
      <4>3. ret'.what = "void"
        BY <2>2 DEF Returns, Void, Result
      <4>4. stage' = "answered" => text = Signed(<<o.request>>)
        BY <4>1, <4>2 DEF EthOf, Signed, Answer
      <4>5. OfRequest(native.eth_tx, o)
        BY <4>1 DEF OfRequest
      <4>. HIDE DEF text
      <4>. QED  BY <3>0, <4>1, <4>2, <4>3, <4>4, <4>5 DEF EthOf
    <3>2. DOMAIN native' = {"order", "eth_tx", "tx_str"}
      BY <1>3, <2>2 DEF EthInv
    <3>. QED  BY <1>3, <2>2, <3>1, <3>2, EthTxInv
  <2>. QED  BY <1>3, <2>1, <2>2 DEF EthProcess
<1>. QED  BY <1>1, <1>2, <1>3 DEF EthInv

LEMMA EthCloseInv == ASSUME EthInv, EthClose PROVE EthInv'
<1>1. CASE handle = "bad"
  BY <1>1, EthCrashInv DEF EthClose
<1>2. CASE handle # "bad"
  <2>. USE DEF EthInv, EthClose, Return, Returns, Goes, Void, Result
  <2>1. SharedInv'
    BY <1>2 DEF SharedInv, Stages, Given
  <2>2. ASSUME NEW o \in order  PROVE EthOf(o)'
    BY <1>2, <2>2 DEF EthOf
  <2>. QED  BY <1>2, <2>1, <2>2
<1>. QED  BY <1>1, <1>2

LEMMA EthStep == ASSUME EthInv, Eth PROVE EthInv'
BY EthInitInv, EthPrepareInv, EthProcessInv, EthTextInv, EthSignInv, EthSignGameInv,
   EthCloseInv DEF Eth

(***************************************************************************)
(* TRON.                                                                   *)
(***************************************************************************)
First(o) == CHOOSE raw \in Built(o) : TRUE
Shown(o) == IF Token(o) = {} THEN trx20_to_json(First(o))
            ELSE trx10_to_json(CHOOSE token \in Token(o) : TRUE, First(o))

\* A transaction of the order with one signature.
TrxTx(o, signature) == Result("tx", <<First(o)>>, <<signature>>, {Shown(o)})

TrxNative(tx, o) ==
  /\ DOMAIN tx = {"token_name", "tx_unsigned", "signature"}
  /\ tx.token_name = Token(o) /\ tx.tx_unsigned = Built(o)

TrxOf(o) ==
  /\ handle = "tx" => TrxNative(native, o)
  /\ ret.what \in {"data", "tx"} => Built(o) # {} /\ ret.content = <<First(o)>>
  /\ ret.what = "tx" => ret.json = {Shown(o)}
  /\ stage \in {"shown", "answered", "signed"} => handle = "tx" /\ Built(o) # {}
  /\ stage \in {"shown", "answered"} => shown = {<<First(o)>>}
  /\ stage = "answered" => signResult = {Intact(<<First(o)>>)}
  /\ stage = "signed" => native.signature = <<Intact(<<First(o)>>)>>
  /\ stage = "done" => Built(o) # {} /\ ret = TrxTx(o, {<<First(o)>>})

\* After a crash within init the object still has what there was before.
TrxInv ==
  /\ SharedInv /\ major = "TRX" /\ handle \in {"null", "tx"}
  /\ handle # "null" => DOMAIN native = {"token_name", "tx_unsigned", "signature"}
  /\ ~down => \A o \in order : TrxOf(o)
  /\ down => /\ ret.what = "void" /\ stage \in {"fresh", "spoilt"}
             /\ \/ \E o \in order : o.well /\ Throws(o)
                \/ stage = "spoilt" /\ signResult = {}

\* What TxGetTransacton returns.
LEMMA GetTransacton ==
  ASSUME NEW tx, NEW none, NEW o, TrxNative(tx, o)
  PROVE  /\ \/ TxGetTransacton(tx, none) = none
            \/ /\ Built(o) # {}
               /\ TxGetTransacton(tx, none) = TrxTx(o, tx.signature[1].signature)
         /\ Built(o) # {} /\ tx.signature = <<Intact(<<First(o)>>)>> =>
              TxGetTransacton(tx, none) = TrxTx(o, {<<First(o)>>})
<1>. DEFINE made == TrxTx(o, tx.signature[1].signature)
<1>1. tx.token_name = Token(o) /\ tx.tx_unsigned = Built(o)
  BY DEF TrxNative
<1>2. TxGetTransacton(tx, none) =
        IF Built(o) = {} \/ tx.signature = <<>> THEN none
        ELSE IF tx.signature[1].form # "intact" THEN none ELSE made
  BY <1>1 DEF TxGetTransacton, Content, TrxTx, First, Shown
<1>3. tx.signature = <<Intact(<<First(o)>>)>> =>
        /\ tx.signature # <<>> /\ tx.signature[1].form = "intact"
        /\ tx.signature[1].signature = {<<First(o)>>}
  BY DEF Intact
<1>. QED  BY <1>2, <1>3

\* A call that returns on an object with an order.
LEMMA TrxReturnInv ==
  ASSUME TrxInv, NEW op, op # "init", NEW r, NEW good, Returns(op, r, good),
         handle' \in {"null", "tx"}, UNCHANGED order,
         handle' # "null" => handle = "tx" /\ DOMAIN native' = DOMAIN native,
         \A a \in signResult' : a.form \in Answers /\ (a.signature # {} => a.form = "intact"),
         order = {} => r.what \notin {"data", "tx"} /\ handle' = "null",
         \A o \in order : TrxOf(o)'
  PROVE  TrxInv'
<1>1. SharedInv'
  BY DEF TrxInv, SharedInv, Returns, Goes, Stages, Given
<1>2. ~down /\ ~down'
  BY DEF Returns
<1>3. major' = "TRX"
  BY DEF TrxInv, Returns
<1>. QED  BY <1>1, <1>2, <1>3 DEF TrxInv

LEMMA TrxInitInv == ASSUME TrxInv, NEW o \in TrxOrders, TrxInit(o) PROVE TrxInv'
<1>1. CASE o.well /\ Throws(o)
  <2>1. Crash("init") /\ order' = {o}
    BY <1>1 DEF TrxInit
  <2>2. SharedInv'
    BY <2>1 DEF TrxInv, SharedInv, Crash, Goes, Stages, Given, Void, Result
  <2>3. down' /\ ret'.what = "void" /\ stage' = "fresh" /\ UNCHANGED <<major, handle, native>>
    BY <2>1 DEF Crash, Goes, Void, Result
  <2>. QED  BY <1>1, <2>1, <2>2, <2>3 DEF TrxInv
<1>2. CASE ~(o.well /\ Throws(o))
  <2>. DEFINE tx == IF o.well
                    THEN [token_name |-> Token(o), tx_unsigned |-> Built(o),
                          signature |-> <<>>]
                    ELSE [token_name |-> {}, tx_unsigned |-> {}, signature |-> <<>>]
  <2>1. /\ Return("init", Code(0)) /\ order' = {o}
        /\ handle' = IF o.well THEN "tx" ELSE "null"
        /\ native' = tx /\ UNCHANGED <<signResult, shown>>
    BY <1>2 DEF TrxInit
  <2>2. SharedInv'
    BY <2>1 DEF TrxInv, SharedInv, Return, Returns, Goes, Stages, Given, Code, Result
  <2>3. DOMAIN tx = {"token_name", "tx_unsigned", "signature"}
    OBVIOUS
  <2>4. o.well => TrxNative(tx, o)
    BY DEF TrxNative
  <2>. HIDE DEF tx
  <2>5. ret'.what = "ok" /\ stage' = "fresh" /\ ~down /\ ~down' /\ major' = major
    BY <2>1 DEF Return, Returns, Goes, Code, Result
  <2>6. TrxOf(o)'
    BY <2>1, <2>4, <2>5 DEF TrxOf
  <2>. QED  BY <2>1, <2>2, <2>3, <2>5, <2>6 DEF TrxInv
<1>. QED  BY <1>1, <1>2

LEMMA TrxPrepareInv == ASSUME TrxInv, TrxPrepare PROVE TrxInv'
<1>. DEFINE r == IF handle = "null" \/ native.tx_unsigned = {} THEN Empty
                 ELSE Data(Content(native.tx_unsigned))
<1>1. /\ Return("firmwarePrepareData", r) /\ UNCHANGED <<handle, native, signResult, order>>
      /\ r = Empty \/ (handle # "null" /\ shown' = {Content(native.tx_unsigned)})
  BY DEF TrxPrepare
<1>2. ~down
  BY <1>1 DEF Return, Returns
<1>3. ASSUME NEW o \in order  PROVE TrxOf(o)'
  <2>1. TrxOf(o) /\ (handle = "tx" => native.tx_unsigned = Built(o)) /\ handle \in {"null", "tx"}
    BY <1>2 DEF TrxInv, TrxOf, TrxNative
  <2>2. ret' = r
    BY <1>1 DEF Return, Returns
  <2>3. CASE r = Empty
    <3>1. stage' \in {"refused", "spoilt"} /\ ret'.what = "empty"
      BY <1>1, <2>2, <2>3 DEF Return, Returns, Goes, Empty, Result
    <3>. QED  BY <1>1, <2>1, <3>1 DEF TrxOf
  <2>4. CASE r # Empty
    <3>1. /\ handle = "tx" /\ Built(o) # {} /\ Content(native.tx_unsigned) = <<First(o)>>
          /\ r = Data(<<First(o)>>)
      BY <2>1, <2>4 DEF Content, First
    <3>2. stage' \in {"shown", "spoilt"} /\ ret'.what = "data" /\ ret'.content = <<First(o)>>
      BY <1>1, <2>2, <3>1 DEF Return, Returns, Goes, Data, Result
    <3>. QED  BY <1>1, <2>1, <2>4, <3>1, <3>2 DEF TrxOf
  <2>. QED  BY <2>3, <2>4
<1>4. order = {} => r.what \notin {"data", "tx"} /\ handle' = "null"
  BY <1>1 DEF TrxInv, SharedInv, Empty, Result
<1>. HIDE DEF r
<1>. QED  BY <1>1, <1>3, <1>4, TrxReturnInv DEF Return, TrxInv, SharedInv

LEMMA TrxProcessInv == ASSUME TrxInv, NEW form \in Answers, TrxProcess(form) PROVE TrxInv'
<1>1. /\ Returns("firmwareProcessResult", Void, form = "intact")
      /\ signResult' = {Answer(form)} /\ UNCHANGED <<handle, native, shown, order>>
  BY DEF TrxProcess
<1>2. Answer(form).form \in Answers /\ (Answer(form).signature # {} => form = "intact")
      /\ Answer(form).form = form
  BY DEF Answer
<1>3. ASSUME NEW o \in order  PROVE TrxOf(o)'
  <2>1. TrxOf(o)
    BY <1>1 DEF TrxInv, Returns
  <2>2. stage' = IF stage = "shown" /\ form = "intact" THEN "answered" ELSE "spoilt"
    BY <1>1 DEF Returns, Goes
  <2>3. ret'.what = "void"
    BY <1>1 DEF Returns, Void, Result
  <2>. QED  BY <1>1, <2>1, <2>2, <2>3 DEF TrxOf, Answer, Intact
<1>4. Void.what = "void"
  BY DEF Void, Result
<1>. QED  BY <1>1, <1>2, <1>3, <1>4, TrxReturnInv DEF TrxInv, SharedInv

\* The answer is there when the caller keeps to the order of the calls.
LEMMA TrxMakeSignedInv == ASSUME TrxInv, TrxMakeSigned PROVE TrxInv'
<1>1. CASE signResult = {}
  <2>1. Crash("makeSignedTx") /\ UNCHANGED order
    BY <1>1 DEF TrxMakeSigned
  <2>2. stage # "answered"
    BY <1>1, <2>1 DEF TrxInv, SharedInv, TrxOf, Crash
  <2>3. /\ stage' = "spoilt" /\ down' /\ ret'.what = "void"
        /\ UNCHANGED <<major, handle, native, signResult, shown>>
    BY <2>1, <2>2 DEF Crash, Goes, Void, Result
  <2>4. SharedInv'
    BY <2>1, <2>3 DEF TrxInv, SharedInv, Stages, Given
  <2>. QED  BY <1>1, <2>1, <2>3, <2>4 DEF TrxInv
<1>2. CASE signResult # {}
  <2>1. PICK a \in signResult :
          /\ IF handle = "null" \/ a.form = "empty"
             THEN Return("makeSignedTx", Null) /\ UNCHANGED native
             ELSE /\ native' = TxSetSignature(native, a)
                  /\ Return("makeSignedTx", TxGetTransacton(native', Null))
          /\ UNCHANGED <<handle, signResult, shown, order>>
    BY <1>2 DEF TrxMakeSigned
  <2>2. Null.what = "null"
    BY DEF Null, Result
  <2>3. ~down
    BY <2>1 DEF Return, Returns
  <2>4. CASE handle = "null" \/ a.form = "empty"
    <3>1. ASSUME NEW o \in order  PROVE TrxOf(o)'
      <4>1. TrxOf(o)
        BY <2>3 DEF TrxInv
      <4>2. stage' = "spoilt"
        BY <2>1, <2>4, <4>1 DEF Return, Returns, Goes, TrxOf, Intact
      <4>3. ret'.what = "null"
        BY <2>1, <2>2, <2>4 DEF Return, Returns
      <4>. QED  BY <2>1, <2>4, <4>1, <4>2, <4>3 DEF TrxOf
    <3>. QED  BY <2>1, <2>2, <2>4, <3>1, TrxReturnInv DEF Return, TrxInv, SharedInv
  <2>5. CASE ~(handle = "null" \/ a.form = "empty")
    <3>. DEFINE r == TxGetTransacton(native', Null)
    <3>1. /\ native' = [native EXCEPT !.signature = <<a>>]
          /\ Return("makeSignedTx", r)
      BY <2>1, <2>5 DEF TxSetSignature
    <3>2. handle = "tx" /\ DOMAIN native' = DOMAIN native /\ order # {}
      BY <2>5, <3>1 DEF TrxInv, SharedInv
    <3>3. ASSUME NEW o \in order  PROVE TrxOf(o)'
      <4>1. TrxOf(o) /\ TrxNative(native, o)
        BY <2>3, <3>2 DEF TrxInv, TrxOf
      <4>2. TrxNative(native', o) /\ native'.signature = <<a>>
        BY <3>1, <4>1 DEF TrxNative
      <4>3. \/ r = Null
            \/ Built(o) # {} /\ r = TrxTx(o, a.signature)
        <5>1. r = Null \/ (Built(o) # {} /\ r = TrxTx(o, native'.signature[1].signature))
          BY <4>2, GetTransacton
        <5>2. native'.signature[1] = a
          BY <4>2
        <5>. QED  BY <5>1, <5>2
      <4>4. stage = "answered" => Built(o) # {} /\ r = TrxTx(o, {<<First(o)>>})
        BY <2>1, <4>1, <4>2, GetTransacton DEF TrxOf
      <4>. HIDE DEF r
      <4>5. ret' = r /\ stage' = IF stage = "answered" THEN "done" ELSE "spoilt"
        BY <3>1 DEF Return, Returns, Goes
      <4>6. \A x : /\ TrxTx(o, x).what = "tx" /\ TrxTx(o, x).content = <<First(o)>>
                   /\ TrxTx(o, x).json = {Shown(o)}
        BY DEF TrxTx, Result
      <4>. QED  BY <2>1, <2>2, <4>2, <4>3, <4>4, <4>5, <4>6 DEF TrxOf
    <3>. HIDE DEF r
    <3>. QED  BY <2>1, <3>1, <3>2, <3>3, TrxReturnInv DEF Return, TrxInv, SharedInv
  <2>. QED  BY <2>4, <2>5
<1>. QED  BY <1>1, <1>2

LEMMA TrxSignInv == ASSUME TrxInv, NEW goodKey \in BOOLEAN, TrxSign(goodKey) PROVE TrxInv'
<1>1. CASE handle = "null" \/ ~goodKey \/ native.tx_unsigned = {}
  <2>1. Return("sign", Code(-1)) /\ UNCHANGED <<handle, native, signResult, shown, order>>
    BY <1>1 DEF TrxSign
  <2>2. Code(-1).what = "error"
    BY DEF Code, Result
  <2>3. ASSUME NEW o \in order  PROVE TrxOf(o)'
    <3>1. TrxOf(o)
      BY <2>1 DEF TrxInv, Return, Returns
    <3>2. stage' \in {"refused", "spoilt"} /\ ret'.what = "error"
      BY <2>1, <2>2 DEF Return, Returns, Goes
    <3>. QED  BY <2>1, <3>1, <3>2 DEF TrxOf
  <2>. QED  BY <2>1, <2>2, <2>3, TrxReturnInv DEF Return, TrxInv, SharedInv
<1>2. CASE ~(handle = "null" \/ ~goodKey \/ native.tx_unsigned = {})
  <2>. DEFINE a == [form |-> "intact", signature |-> {Content(native.tx_unsigned)}]
  <2>1. /\ Return("sign", Code(0)) /\ native' = [native EXCEPT !.signature = <<a>>]
        /\ UNCHANGED <<handle, signResult, shown, order>> /\ handle = "tx"
    BY <1>2 DEF TrxSign, TrxInv
  <2>2. Code(0).what = "ok"
    BY DEF Code, Result
  <2>3. ASSUME NEW o \in order  PROVE TrxOf(o)'
    <3>1. TrxOf(o) /\ TrxNative(native, o)
      BY <2>1 DEF TrxInv, TrxOf, Return, Returns
    <3>2. Built(o) # {} /\ a = Intact(<<First(o)>>)
      BY <1>2, <3>1 DEF TrxNative, Content, First, Intact
    <3>3. TrxNative(native', o) /\ native'.signature = <<a>>
      BY <2>1, <3>1 DEF TrxNative
    <3>. HIDE DEF a
    <3>4. stage' \in {"signed", "spoilt"} /\ ret'.what = "ok"
      BY <2>1, <2>2 DEF Return, Returns, Goes
    <3>. QED  BY <2>1, <3>2, <3>3, <3>4 DEF TrxOf
  <2>4. DOMAIN native' = DOMAIN native
    BY <2>1
  <2>. HIDE DEF a
  <2>. QED  BY <2>1, <2>2, <2>3, <2>4, TrxReturnInv DEF Return, TrxInv, SharedInv
<1>. QED  BY <1>1, <1>2

LEMMA TrxGetResultInv == ASSUME TrxInv, TrxGetResult PROVE TrxInv'
<1>. DEFINE r == IF handle = "null" THEN Empty ELSE TxGetTransacton(native, Empty)
<1>1. Return("getSignResult", r) /\ UNCHANGED <<handle, native, signResult, shown, order>>
  BY DEF TrxGetResult
<1>2. Empty.what = "empty" /\ ~down
  BY <1>1 DEF Empty, Result, Return, Returns
<1>3. ASSUME NEW o \in order  PROVE TrxOf(o)'
  <2>1. TrxOf(o) /\ handle \in {"null", "tx"} /\ (handle = "tx" => TrxNative(native, o))
    BY <1>2 DEF TrxInv, TrxOf
  <2>2. \/ r = Empty
        \/ Built(o) # {} /\ r = TrxTx(o, native.signature[1].signature)
    BY <2>1, GetTransacton
  <2>3. stage = "signed" => Built(o) # {} /\ r = TrxTx(o, {<<First(o)>>})
    BY <2>1, GetTransacton DEF TrxOf
  <2>. HIDE DEF r
  <2>4. ret' = r /\ stage' = IF stage = "signed" THEN "done" ELSE "spoilt"
    BY <1>1 DEF Return, Returns, Goes
  <2>5. \A x : /\ TrxTx(o, x).what = "tx" /\ TrxTx(o, x).content = <<First(o)>>
               /\ TrxTx(o, x).json = {Shown(o)}
    BY DEF TrxTx, Result
  <2>. QED  BY <1>1, <1>2, <2>1, <2>2, <2>3, <2>4, <2>5 DEF TrxOf
<1>4. order = {} => r.what \notin {"data", "tx"} /\ handle' = "null"
  BY <1>1, <1>2 DEF TrxInv, SharedInv
<1>. HIDE DEF r
<1>. QED  BY <1>1, <1>3, <1>4, TrxReturnInv DEF Return, TrxInv, SharedInv

LEMMA TrxCloseInv == ASSUME TrxInv, TrxClose PROVE TrxInv'
<1>1. /\ Return("close", Void) /\ handle' = "null"
      /\ UNCHANGED <<native, signResult, shown, order>>
  BY DEF TrxClose
<1>2. Void.what = "void"
  BY DEF Void, Result
<1>3. ASSUME NEW o \in order  PROVE TrxOf(o)'
  <2>1. stage' = "spoilt" /\ ret'.what = "void"
    BY <1>1, <1>2 DEF Return, Returns, Goes
  <2>. QED  BY <1>1, <2>1 DEF TrxOf
<1>. QED  BY <1>1, <1>2, <1>3, TrxReturnInv DEF Return, TrxInv, SharedInv

LEMMA TrxStep == ASSUME TrxInv, Trx PROVE TrxInv'
BY TrxInitInv, TrxPrepareInv, TrxProcessInv, TrxMakeSignedInv, TrxSignInv, TrxGetResultInv,
   TrxCloseInv DEF Trx

(***************************************************************************)
(* The three coins together.                                               *)
(***************************************************************************)
ObjectInv ==
  /\ major \in {"EOS", "ETH", "TRX"}
  /\ major = "EOS" => EosInv
  /\ major = "ETH" => EthInv
  /\ major = "TRX" => TrxInv

LEMMA ObjectInit == ASSUME Init PROVE ObjectInv
<1>1. SharedInv
  BY DEF Init, SharedInv, Stages, Void, Result
<1>. QED  BY <1>1 DEF Init, ObjectInv, EosInv, EthInv, TrxInv

LEMMA ObjectNext == ASSUME ObjectInv, Next PROVE ObjectInv'
<1>1. CASE major = "EOS" /\ Eos
  <2>1. EosInv'
    BY <1>1, EosStep DEF ObjectInv
  <2>. QED  BY <2>1 DEF ObjectInv, EosInv
<1>2. CASE major = "ETH" /\ Eth
  <2>1. EthInv'
    BY <1>2, EthStep DEF ObjectInv
  <2>. QED  BY <2>1 DEF ObjectInv, EthInv
<1>3. CASE major = "TRX" /\ Trx
  <2>1. TrxInv'
    BY <1>3, TrxStep DEF ObjectInv
  <2>. QED  BY <2>1 DEF ObjectInv, TrxInv
<1>. QED  BY <1>1, <1>2, <1>3 DEF Next

LEMMA ObjectStutter == ASSUME ObjectInv, UNCHANGED vars PROVE ObjectInv'
BY DEF ObjectInv, vars, EosInv, EthInv, TrxInv, SharedInv, Given, EosOf, EosFresh, EthOf, TrxOf

LEMMA ObjectHolds == Spec => []ObjectInv
BY ObjectInit, ObjectNext, ObjectStutter, PTL DEF Spec

(***************************************************************************)
(* What follows from it.                                                   *)
(***************************************************************************)
\* The objects keep their types: the handle is null, an address, or for Ethereum
\* what createTx refused with, and there is no transaction without an order.
LEMMA TypeOKFollows == ObjectInv => TxObjectTypeOK
<1>. SUFFICES ASSUME ObjectInv PROVE TxObjectTypeOK
  OBVIOUS
<1>1. SharedInv /\ handle \in {"null", "tx"} \cup (IF major = "ETH" THEN {"bad"} ELSE {})
  BY DEF ObjectInv, EosInv, EthInv, TrxInv
<1>2. handle # "null" => order # {}
  BY <1>1 DEF SharedInv
<1>3. order \in SUBSET Given
  BY <1>1 DEF SharedInv
<1>4. handle # "null" => DOMAIN native =
       CASE major = "EOS" -> {"content", "signatures"}
         [] major = "ETH" -> {"order", "eth_tx", "tx_str"}
         [] OTHER -> {"token_name", "tx_unsigned", "signature"}
  <2>1. CASE major = "EOS"
    BY <1>2, <2>1 DEF ObjectInv, EosInv, EosOf
  <2>2. CASE major = "ETH"
    BY <2>2 DEF ObjectInv, EthInv
  <2>3. CASE major = "TRX"
    BY <2>3 DEF ObjectInv, TrxInv
  <2>. QED  BY <2>1, <2>2, <2>3 DEF ObjectInv
<1>. QED  BY <1>1, <1>2, <1>3, <1>4 DEF TxObjectTypeOK, SharedInv

LEMMA OrderlyFollows == ObjectInv => OrderlyGetsSigned
<1>. SUFFICES ASSUME ObjectInv, stage = "done"
              PROVE  /\ ret.what = "tx"
                     /\ \E o \in order : /\ ret.content \in Asked(o)
                                         /\ ret.signatures = Append(Brought(o), {ret.content})
  BY DEF OrderlyGetsSigned
<1>0. SharedInv
  BY DEF ObjectInv, EosInv, EthInv, TrxInv
<1>1. PICK o : o \in order
  BY <1>0 DEF SharedInv
<1>2. CASE major = "EOS"
  BY <1>1, <1>2 DEF ObjectInv, EosInv, EosOf, Asked, Brought
<1>3. CASE major = "ETH"
  <2>1. ret = Signed(<<o.request>>)
    BY <1>1, <1>3 DEF ObjectInv, EthInv, EthOf
  <2>2. /\ ret.what = "tx" /\ ret.content = <<o.request>>
        /\ ret.signatures = <<{<<o.request>>}>>
    BY <2>1 DEF Signed, Tx, Result
  <2>3. \A x : Append(<<>>, x) = <<x>>
    OBVIOUS
  <2>. QED  BY <1>1, <1>3, <2>2, <2>3 DEF Asked, Brought
<1>4. CASE major = "TRX"
  <2>1. Built(o) # {} /\ ret = TrxTx(o, {<<First(o)>>})
    BY <1>1, <1>4 DEF ObjectInv, TrxInv, TrxOf
  <2>2. First(o) \in Built(o)
    BY <2>1 DEF First
  <2>3. /\ ret.what = "tx" /\ ret.content = <<First(o)>>
        /\ ret.signatures = <<{<<First(o)>>}>>
    BY <2>1 DEF TrxTx, Result
  <2>4. \A x : Append(<<>>, x) = <<x>>
    OBVIOUS
  <2>. QED  BY <1>1, <1>4, <2>2, <2>3, <2>4 DEF Asked, Brought
<1>. QED  BY <1>2, <1>3, <1>4 DEF ObjectInv

LEMMA CrashesFollows == ObjectInv => CrashesOnlyWhenMisused
<1>. SUFFICES ASSUME ObjectInv, down PROVE CrashesOnlyWhenMisused
  BY DEF CrashesOnlyWhenMisused
<1>1. CASE major = "EOS"
  BY <1>1 DEF ObjectInv, EosInv, CrashesOnlyWhenMisused
<1>2. CASE major = "ETH"
  <2>1. handle = "bad" => \E o \in order : ~o.well
    BY <1>2 DEF ObjectInv, EthInv, SharedInv, EthOf
  <2>. QED  BY <1>2, <2>1 DEF ObjectInv, EthInv, CrashesOnlyWhenMisused
<1>3. CASE major = "TRX"
  BY <1>3 DEF ObjectInv, TrxInv, CrashesOnlyWhenMisused
<1>. QED  BY <1>1, <1>2, <1>3 DEF ObjectInv

LEMMA NeverEarlierFollows == ObjectInv => NeverAnEarlierOrder
<1>. SUFFICES ASSUME ObjectInv, ret.what \in {"data", "tx"}
              PROVE  \E o \in order : OfOrder(ret.content, o)
  BY DEF NeverAnEarlierOrder
<1>0. SharedInv
  BY DEF ObjectInv, EosInv, EthInv, TrxInv
<1>1. PICK o : o \in order
  BY <1>0 DEF SharedInv
<1>2. CASE major = "EOS"
  BY <1>1, <1>2 DEF ObjectInv, EosInv, EosOf, Extends, OfOrder
<1>3. CASE major = "ETH"
  BY <1>1, <1>3 DEF ObjectInv, EthInv, EthOf, OfRequest, OfOrder
<1>4. CASE major = "TRX"
  <2>1. Built(o) # {} /\ ret.content = <<First(o)>>
    BY <1>1, <1>4 DEF ObjectInv, TrxInv, TrxOf
  <2>2. First(o) \in Built(o)
    BY <2>1 DEF First
  <2>. QED  BY <1>1, <1>4, <2>1, <2>2 DEF OfOrder
<1>. QED  BY <1>2, <1>3, <1>4 DEF ObjectInv

\* Whatever the caller and the device do, the object's fields keep their types, and
\* there is no transaction without an order (Tx.java, TxEOS.java, TxEth.java, TxTRX.java).
THEOREM TxObjectTypeOKHolds == Spec => []TxObjectTypeOK
BY ObjectHolds, TypeOKFollows, PTL

\* A caller who makes the calls of Tx in their order gets the transaction of the last
\* init with one valid signature more, though signResult is never reset and one object
\* is used for many orders.
THEOREM OrderlyGetsSignedHolds == Spec => []OrderlyGetsSigned
BY ObjectHolds, OrderlyFollows, PTL

\* The application goes down only at an order that is not well formed, at makeSignedTx
\* before any answer, and at an answer too short for Ethereum.
THEOREM CrashesOnlyWhenMisusedHolds == Spec => []CrashesOnlyWhenMisused
BY ObjectHolds, CrashesFollows, PTL

\* No call returns anything of an order before the last init.
THEOREM NeverAnEarlierOrderHolds == Spec => []NeverAnEarlierOrder
BY ObjectHolds, NeverEarlierFollows, PTL

(***************************************************************************)
(* TRON's JSON.                                                            *)
(***************************************************************************)
\* No two fields of a message have the same number.
Numbered(type) ==
  \A f, g \in Fields(type) : Schema[type][f] = Schema[type][g] => f = g

\* A message that is parsed and serialized again is the same.
LEMMA SerializeParse ==
  ASSUME NEW type, Numbered(type), NEW value, DOMAIN value \subseteq Fields(type)
  PROVE  LET message == Serialize(type, value)
         IN  Serialize(type, Parse(type, message)) = message
<1>. DEFINE schema == Schema[type]
            Unset(f) == Default(schema[f][2])
            message == Serialize(type, value)
            parsed == Parse(type, message)
            There(f) == f \in DOMAIN value /\ value[f] # Unset(f)
<1>1. \A m : m \in message <=> \E f : There(f) /\ m = <<schema[f], value[f]>>
  BY DEF Serialize
<1>2. DOMAIN parsed = Fields(type)
  BY DEF Parse
<1>3. ASSUME NEW f \in Fields(type), There(f)  PROVE parsed[f] = value[f]
  <2>1. <<schema[f], value[f]>> \in message /\ <<schema[f], value[f]>>[1] = schema[f]
    BY <1>1, <1>3
  <2>2. ASSUME NEW m \in message, m[1] = schema[f]  PROVE m[2] = value[f]
    <3>1. PICK g : There(g) /\ m = <<schema[g], value[g]>>
      BY <1>1, <2>2
    <3>2. g \in Fields(type) /\ schema[g] = schema[f]
      BY <2>2, <3>1
    <3>3. g = f
      BY <3>2 DEF Numbered
    <3>. QED  BY <3>1, <3>3
  <2>3. \E m \in message : m[1] = schema[f]
    BY <2>1
  <2>4. parsed[f] = (CHOOSE m \in message : m[1] = schema[f])[2]
    BY <1>3, <2>3 DEF Parse
  <2>. HIDE DEF message, schema, parsed
  <2>. QED  BY <2>2, <2>3, <2>4
<1>4. ASSUME NEW f \in Fields(type), ~There(f)  PROVE parsed[f] = Unset(f)
  <2>1. ASSUME NEW m \in message, m[1] = schema[f]  PROVE FALSE
    <3>1. PICK g : There(g) /\ m = <<schema[g], value[g]>>
      BY <1>1, <2>1
    <3>2. g \in Fields(type) /\ schema[g] = schema[f]
      BY <2>1, <3>1
    <3>3. g = f
      BY <3>2 DEF Numbered
    <3>. QED  BY <1>4, <3>1, <3>3
  <2>. QED  BY <2>1 DEF Parse
<1>5. \A m : m \in Serialize(type, parsed) <=>
               \E f : /\ f \in DOMAIN parsed /\ parsed[f] # Unset(f)
                      /\ m = <<schema[f], parsed[f]>>
  BY DEF Serialize
<1>. HIDE DEF schema, Unset, message, parsed
<1>6. \A m : m \in Serialize(type, parsed) <=> m \in message
  BY <1>1, <1>2, <1>3, <1>4, <1>5
<1>. QED  BY <1>6 DEF message, parsed

LEMMA Numbers == Numbered("TransferContract") /\ Numbered("TriggerSmartContract")
BY DEF Numbered, Fields, Schema, Bytes, Varint

\* A transaction shown with all that its type has gives itself when it is read.
LEMMA JsonRoundTrip ==
  ASSUME NEW type \in {"TransferContract", "TriggerSmartContract"},
         NEW frame, NEW limit, NEW value, DOMAIN value \subseteq Fields(type)
  PROVE  LET raw == Raw(frame, limit, type, value)
             j == Json(raw, limit, Parse(type, raw.parameter))
         IN  ~JsonThrows(j) /\ make_unsigned_tx_from_json(j) = {raw}
<1>. DEFINE raw == Raw(frame, limit, type, value)
            parsed == Parse(type, raw.parameter)
            j == Json(raw, limit, parsed)
<1>1. Reads[type] = Fields(type) /\ type \in DOMAIN Reads
  BY DEF Reads
<1>2. /\ raw.type = type /\ raw.parameter = Serialize(type, value)
      /\ raw.fee_limit = limit
  BY DEF Raw
<1>3. /\ j.texts = Texts /\ j.type = type /\ j.value = parsed /\ j.ref_block = raw.ref_block
      /\ j.expiration = raw.expiration /\ j.timestamp = raw.timestamp /\ j.fee_limit = limit
  BY <1>2 DEF Json
<1>4. DOMAIN parsed = Fields(type) /\ parsed = [f \in Fields(type) |-> parsed[f]]
  BY DEF Parse
<1>5. Serialize(type, parsed) = raw.parameter
  BY <1>2, Numbers, SerializeParse
<1>6. /\ raw.ref_block = frame.ref_block /\ raw.expiration = frame.expiration
      /\ raw.timestamp = frame.timestamp
  BY DEF Raw
<1>7. ~JsonThrows(j)
  <2>. HIDE DEF parsed, j
  <2>1. TextsOf(type) \subseteq DOMAIN parsed
    BY <1>1, <1>4 DEF TextsOf
  <2>. QED  BY <1>1, <1>3, <2>1 DEF JsonThrows, Texts
<1>8. Raw(j, limit, type, parsed) = raw
  <2>1. Raw(j, limit, type, parsed) =
          [ref_block |-> raw.ref_block, expiration |-> raw.expiration, fee_limit |-> limit,
           timestamp |-> raw.timestamp, type |-> type, parameter |-> raw.parameter]
    <3>. HIDE DEF parsed, j
    <3>. QED  BY <1>3, <1>5 DEF Raw
  <2>. QED  BY <1>2, <1>6, <2>1 DEF Raw
<1>9. make_unsigned_tx_from_json(j) = {Raw(j, limit, type, parsed)}
  <2>. HIDE DEF parsed, j
  <2>1. Reads[type] \cap DOMAIN parsed = Fields(type)
    BY <1>1, <1>4
  <2>. QED  BY <1>1, <1>3, <1>4, <2>1 DEF make_unsigned_tx_from_json
<1>. QED  BY <1>7, <1>8, <1>9

LEMMA ReadsBackFollows == ObjectInv => JsonReadsBack
<1>. SUFFICES ASSUME ObjectInv, major = "TRX", ret.what = "tx", NEW o \in order, Readable(o),
                     NEW j \in ret.json
              PROVE  ~JsonThrows(j) /\ make_unsigned_tx_from_json(j) = {ret.content[1]}
  BY DEF JsonReadsBack
<1>1. Built(o) # {} /\ ret.content = <<First(o)>> /\ j = Shown(o)
  BY DEF ObjectInv, TrxInv, TrxOf
<1>2. ret.content[1] = First(o)
  BY <1>1
<1>3. CASE o.way = "token" /\ o.request.token = "TRX"
  <2>. DEFINE r == o.request
              transfer == [owner_address |-> r.from, to_address |-> r.to, amount |-> r.amount]
              raw == Raw(Frame(r.block_id), 0, "TransferContract", transfer)
  <2>1. Built(o) = {raw}
    BY <1>1, <1>3 DEF Built, make_unsigned_tx_trc10
  <2>2. First(o) = raw
    BY <2>1 DEF First
  <2>3. Token(o) = {"TRX"}
    BY <1>3 DEF Token
  <2>4. Shown(o) = Json(raw, 0, Parse("TransferContract", raw.parameter))
    BY <2>2, <2>3 DEF Shown, trx10_to_json
  <2>5. DOMAIN transfer \subseteq Fields("TransferContract")
    BY DEF Fields, Schema
  <2>. QED  BY <1>1, <1>2, <2>2, <2>4, <2>5, JsonRoundTrip
<1>4. CASE o.way = "contract"
  <2>. DEFINE r == o.request
              call == [owner_address |-> r.from, contract_address |-> r.contract,
                       data |-> <<"transfer(address,uint256)", r.to, r.amount>>]
              raw == Raw(Frame(r.block_id), FeeLimit, "TriggerSmartContract", call)
  <2>1. Built(o) = {raw}
    BY <1>1, <1>4 DEF Built, make_unsigned_tx_trc20
  <2>2. First(o) = raw /\ raw.fee_limit = FeeLimit
    BY <2>1 DEF First, Raw
  <2>3. Token(o) = {}
    BY <1>4 DEF Token
  <2>4. Shown(o) = Json(raw, FeeLimit, Parse("TriggerSmartContract", raw.parameter))
    BY <2>2, <2>3 DEF Shown, trx20_to_json
  <2>5. DOMAIN call \subseteq Fields("TriggerSmartContract")
    BY DEF Fields, Schema
  <2>. HIDE DEF call, r
  <2>6. LET json == Json(raw, FeeLimit, Parse("TriggerSmartContract", raw.parameter))
        IN  ~JsonThrows(json) /\ make_unsigned_tx_from_json(json) = {raw}
    BY <2>5, JsonRoundTrip
  <2>. HIDE DEF raw
  <2>. QED  BY <1>1, <1>2, <2>2, <2>4, <2>6
<1>5. CASE o.way = "transaction" /\ o.request.type = "TriggerSmartContract"
  <2>. DEFINE r == o.request
              call == [f \in Reads["TriggerSmartContract"] \cap DOMAIN r.value |-> r.value[f]]
              raw == Raw(r, r.fee_limit, "TriggerSmartContract", call)
  <2>1. Built(o) = {raw}
    BY <1>1, <1>5 DEF Built, make_unsigned_tx_from_json
  <2>2. First(o) = raw /\ raw.fee_limit = r.fee_limit
    BY <2>1 DEF First, Raw
  <2>3. Token(o) = {}
    BY <1>5 DEF Token
  <2>4. Shown(o) = Json(raw, r.fee_limit, Parse("TriggerSmartContract", raw.parameter))
    BY <2>2, <2>3 DEF Shown, trx20_to_json
  <2>5. DOMAIN call \subseteq Fields("TriggerSmartContract")
    BY DEF Reads
  <2>. HIDE DEF call, r
  <2>6. LET json == Json(raw, r.fee_limit, Parse("TriggerSmartContract", raw.parameter))
        IN  ~JsonThrows(json) /\ make_unsigned_tx_from_json(json) = {raw}
    BY <2>5, JsonRoundTrip
  <2>. HIDE DEF raw
  <2>. QED  BY <1>1, <1>2, <2>2, <2>4, <2>6
<1>. QED  BY <1>3, <1>4, <1>5 DEF Readable

\* What TRON's signed transactions are shown as gives the same transaction when read
\* again, for transfers of TRX and calls of contracts (trx10_to_json, trx20_to_json).
THEOREM JsonReadsBackHolds == Spec => []JsonReadsBack
BY ObjectHolds, ReadsBackFollows, PTL

=============================================================================
