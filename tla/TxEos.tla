------------------------------- MODULE TxEos -------------------------------
(***************************************************************************)
(* TxEOS.java over cpp/eos.cpp, EosApi.cpp and Eos/signedtransaction.cpp.  *)
(* The content of a transaction is the sequence of its actions.            *)
(***************************************************************************)
EXTENDS TxObject

\* well: TxCreate accepts the parameter; a transaction read from JSON brings its
\* signatures along.
EosOrder(well, actions, signatures) ==
  [well |-> well, actions |-> actions, signatures |-> signatures]

\* Slip: a second init keeps the signatures of the first.
EosInitKeeps(o) ==
  /\ Return("init", Code(0))
  /\ order' = {o}
  /\ handle' = IF o.well THEN "tx" ELSE "null"
  /\ native' = [content |-> o.actions,
                signatures |-> IF "signatures" \in DOMAIN native THEN native.signatures
                               ELSE o.signatures]
  /\ UNCHANGED <<signResult, shown>>

\* Slip: the code of TxCreate is taken for the address.
EosInitCode(o) ==
  /\ Return("init", Code(0))
  /\ order' = {o}
  /\ handle' = IF o.well THEN "tx" ELSE "bad"
  /\ native' = [content |-> o.actions, signatures |-> o.signatures]
  /\ UNCHANGED <<signResult, shown>>

\* init: 0 whatever TxCreate says; the transaction the object had is not released.
EosInit(o) ==
  /\ Return("init", Code(0))
  /\ order' = {o}
  /\ handle' = IF o.well THEN "tx" ELSE "null"
  /\ native' = [content |-> o.actions, signatures |-> o.signatures]
  /\ UNCHANGED <<signResult, shown>>

EosPrepare ==
  /\ IF handle = "null" THEN Return("firmwarePrepareData", Null) /\ UNCHANGED shown
     ELSE Return("firmwarePrepareData", Data(native.content)) /\ shown' = {native.content}
  /\ UNCHANGED <<handle, native, signResult, order>>

EosProcess(form) ==
  /\ Returns("firmwareProcessResult", Void, form = "intact")
  /\ signResult' = {Answer(form)}
  /\ UNCHANGED <<handle, native, shown, order>>

\* setSignatures appends an answer of 65 bytes, and ignores any other.
SetSignatures(tx, a) ==
  IF a.form = "intact" THEN [tx EXCEPT !.signatures = Append(@, a.signature)] ELSE tx

\* make_sign_tx lists all the signatures there are.
EosMakeSigned ==
  IF handle = "null"
  THEN Return("makeSignedTx", Null) /\ UNCHANGED <<handle, native, signResult, shown, order>>
  ELSE IF signResult = {} THEN Crash("makeSignedTx") /\ UNCHANGED order
  ELSE \E a \in signResult :
         /\ native' = SetSignatures(native, a)
         /\ Return("makeSignedTx", Tx(native'.content, native'.signatures))
         /\ UNCHANGED <<handle, signResult, shown, order>>

\* sign appends a signature; goodKey: the text is a key.
EosSign(goodKey) ==
  /\ IF handle = "null" \/ ~goodKey THEN Return("sign", Code(-1)) /\ UNCHANGED native
     ELSE /\ Return("sign", Code(0))
          /\ native' = [native EXCEPT !.signatures = Append(@, {native.content})]
  /\ UNCHANGED <<handle, signResult, shown, order>>

\* getSignResult: a transaction even when it has no signature.
EosGetResult ==
  /\ Return("getSignResult",
            IF handle = "null" THEN Empty ELSE Tx(native.content, native.signatures))
  /\ UNCHANGED <<handle, native, signResult, shown, order>>

\* addAction leaves the signatures of what the transaction was before.
EosAddAction(action) ==
  /\ IF handle = "null" THEN Return("addAction", Code(-1)) /\ UNCHANGED native
     ELSE /\ Return("addAction", Code(0))
          /\ native' = [native EXCEPT !.content = Append(@, action)]
  /\ UNCHANGED <<handle, signResult, shown, order>>

EosClose ==
  /\ Return("close", Void)
  /\ handle' = "null"
  /\ UNCHANGED <<native, signResult, shown, order>>

=============================================================================
