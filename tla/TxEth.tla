------------------------------- MODULE TxEth -------------------------------
(***************************************************************************)
(* TxEth.java over cpp/eth.cpp and EthApi.cpp.  The native object keeps    *)
(* the user's order, the transaction made for the device (eth_tx, zeroes   *)
(* before), and the text of the last transaction that was signed (tx_str). *)
(***************************************************************************)
EXTENDS TxObject

EthOrder(well, request) == [well |-> well, request |-> request]

\* Slip: a native object that is there is filled in again.
EthInitReuses(o) ==
  /\ Return("init", Code(0))
  /\ order' = {o}
  /\ handle' = IF o.well THEN "tx" ELSE "bad"
  /\ native' = IF handle = "tx" THEN [native EXCEPT !.order = <<o.request>>]
               ELSE [order |-> <<o.request>>, eth_tx |-> <<>>, tx_str |-> Empty]
  /\ UNCHANGED <<signResult, shown>>

\* createTx refuses with -1 to -4, and init takes that for the address.
EthInit(o) ==
  /\ Return("init", Code(0))
  /\ order' = {o}
  /\ handle' = IF o.well THEN "tx" ELSE "bad"
  /\ native' = [order |-> <<o.request>>, eth_tx |-> <<>>, tx_str |-> Empty]
  /\ UNCHANGED <<signResult, shown>>

EthPrepare ==
  CASE handle = "null" ->
         Return("firmwarePrepareData", Null)
         /\ UNCHANGED <<handle, native, signResult, shown, order>>
    [] handle = "bad" -> Crash("firmwarePrepareData") /\ UNCHANGED order
    [] OTHER ->
         /\ Return("firmwarePrepareData", Data(native.order))
         /\ native' = [native EXCEPT !.eth_tx = native.order]
         /\ shown' = {native.order}
         /\ UNCHANGED <<handle, signResult, order>>

\* firmware_process_result takes 65 bytes, those beyond the end of a short answer
\* included: whatever is there, or the end of the application.
EthProcess(form) ==
  CASE handle = "null" ->
         Return("firmwareProcessResult", Void)
         /\ UNCHANGED <<handle, native, signResult, shown, order>>
    [] handle = "bad" -> Crash("firmwareProcessResult") /\ UNCHANGED order
    [] OTHER ->
         \/ /\ Returns("firmwareProcessResult", Void, form = "intact")
            /\ native' = [native EXCEPT !.tx_str = Tx(native.eth_tx, <<Answer(form).signature>>)]
            /\ UNCHANGED <<handle, signResult, shown, order>>
         \/ form # "intact" /\ Crash("firmwareProcessResult") /\ UNCHANGED order

\* Slip: the handle is not compared with null.
EthTextUnchecked(op) ==
  IF handle # "tx" THEN Crash(op) /\ UNCHANGED order
  ELSE /\ Return(op, native.tx_str)
       /\ UNCHANGED <<handle, native, signResult, shown, order>>

\* make_signed_tx and get_sign_result return tx_str.
EthText(op) ==
  IF handle = "bad" THEN Crash(op) /\ UNCHANGED order
  ELSE /\ Return(op, IF handle = "null" THEN Null ELSE native.tx_str)
       /\ UNCHANGED <<handle, native, signResult, shown, order>>

\* A key that is no key signs with whatever its bytes are.
EthSigns(content, goodKey) ==
  native' = [native EXCEPT !.tx_str = Tx(content, <<IF goodKey THEN {content} ELSE {}>>)]

EthSign(goodKey) ==
  CASE handle = "null" ->
         Return("sign", Code(-1))
         /\ UNCHANGED <<handle, native, signResult, shown, order>>
    [] handle = "bad" -> Crash("sign") /\ UNCHANGED order
    [] OTHER ->
         /\ Returns("sign", Code(0), goodKey)
         /\ EthSigns(native.order, goodKey)
         /\ UNCHANGED <<handle, signResult, shown, order>>

\* sign_game signs a call of a contract and returns it.
EthSignGame(payload) ==
  CASE handle = "null" ->
         Return("sign_game", Null)
         /\ UNCHANGED <<handle, native, signResult, shown, order>>
    [] handle = "bad" -> Crash("sign_game") /\ UNCHANGED order
    [] OTHER ->
         /\ EthSigns(Append(native.order, payload), TRUE)
         /\ Return("sign_game", native'.tx_str)
         /\ UNCHANGED <<handle, signResult, shown, order>>

EthClose ==
  IF handle = "bad" THEN Crash("close") /\ UNCHANGED order
  ELSE /\ Return("close", Void)
       /\ handle' = "null"
       /\ UNCHANGED <<native, signResult, shown, order>>

=============================================================================
