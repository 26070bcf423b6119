------------------------------- MODULE TxTrx -------------------------------
(***************************************************************************)
(* TxTRX.java over cpp/trx.cpp and the TRX_API of TronApi.cpp.             *)
(***************************************************************************)
EXTENDS TxObject, TronTx

\* way: what the parameter asks TxCreate for; request: the parameters of the builder.
TrxOrder(well, way, request) == [well |-> well, way |-> way, request |-> request]

Built(o) ==
  CASE o.way = "token" -> make_unsigned_tx_trc10(o.request)
    [] o.way = "contract" -> make_unsigned_tx_trc20(o.request)
    [] o.way = "transaction" -> make_unsigned_tx_from_json(o.request)

\* The part of the id of the block that is referred to is missing, or a text is.
Throws(o) ==
  IF o.way = "transaction" THEN JsonThrows(o.request)
  ELSE o.request.addresses /\ o.request.block_id = <<>>

Token(o) == IF o.way = "token" THEN {o.request.token} ELSE {}

\* A builder that fails leaves tx_unsigned empty, and TxCreate succeeds.
TrxInit(o) ==
  IF o.well /\ Throws(o) THEN Crash("init") /\ order' = {o}
  ELSE /\ Return("init", Code(0))
       /\ order' = {o}
       /\ handle' = IF o.well THEN "tx" ELSE "null"
       /\ native' = IF o.well
                    THEN [token_name |-> Token(o), tx_unsigned |-> Built(o), signature |-> <<>>]
                    ELSE [token_name |-> {}, tx_unsigned |-> {}, signature |-> <<>>]
       /\ UNCHANGED <<signResult, shown>>

\* tx_unsigned as a content.
Content(unsigned) == <<CHOOSE raw \in unsigned : TRUE>>

\* GetUnsignedTx
TrxPrepare ==
  /\ IF handle = "null" \/ native.tx_unsigned = {}
     THEN Return("firmwarePrepareData", Empty) /\ UNCHANGED shown
     ELSE /\ Return("firmwarePrepareData", Data(Content(native.tx_unsigned)))
          /\ shown' = {Content(native.tx_unsigned)}
  /\ UNCHANGED <<handle, native, signResult, order>>

TrxProcess(form) ==
  /\ Returns("firmwareProcessResult", Void, form = "intact")
  /\ signResult' = {Answer(form)}
  /\ UNCHANGED <<handle, native, shown, order>>

\* TxGetTransacton: none when there is no transaction or no signature of 65 bytes.
TxGetTransacton(tx, none) ==
  IF tx.tx_unsigned = {} \/ tx.signature = <<>> THEN none
  ELSE IF tx.signature[1].form # "intact" THEN none
  ELSE LET raw == CHOOSE raw \in tx.tx_unsigned : TRUE
       IN  Result("tx", Content(tx.tx_unsigned), <<tx.signature[1].signature>>,
                  {IF tx.token_name = {} THEN trx20_to_json(raw)
                   ELSE trx10_to_json(CHOOSE token \in tx.token_name : TRUE, raw)})

TxSetSignature(tx, a) == IF a.form = "empty" THEN tx ELSE [tx EXCEPT !.signature = <<a>>]

\* The Java field is read before the handle is looked at.
TrxMakeSigned ==
  IF signResult = {} THEN Crash("makeSignedTx") /\ UNCHANGED order
  ELSE \E a \in signResult :
         /\ IF handle = "null" \/ a.form = "empty"
            THEN Return("makeSignedTx", Null) /\ UNCHANGED native
            ELSE /\ native' = TxSetSignature(native, a)
                 /\ Return("makeSignedTx", TxGetTransacton(native', Null))
         /\ UNCHANGED <<handle, signResult, shown, order>>

TrxSign(goodKey) ==
  /\ IF handle = "null" \/ ~goodKey \/ native.tx_unsigned = {}
     THEN Return("sign", Code(-1)) /\ UNCHANGED native
     ELSE /\ Return("sign", Code(0))
          /\ native' = [native EXCEPT !.signature =
               <<[form |-> "intact", signature |-> {Content(native.tx_unsigned)}]>>]
  /\ UNCHANGED <<handle, signResult, shown, order>>

TrxGetResult ==
  /\ Return("getSignResult",
            IF handle = "null" THEN Empty ELSE TxGetTransacton(native, Empty))
  /\ UNCHANGED <<handle, native, signResult, shown, order>>

TrxClose ==
  /\ Return("close", Void)
  /\ handle' = "null"
  /\ UNCHANGED <<native, signResult, shown, order>>

=============================================================================
