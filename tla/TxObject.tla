------------------------------ MODULE TxObject ------------------------------
(***************************************************************************)
(* What the Android transaction objects of EOS, Ethereum and TRON have in  *)
(* common (Tx.java): an object with a handle to a native transaction, one  *)
(* hardware device, and a caller that may call the methods in any order.   *)
(*                                                                         *)
(* The content of a transaction is a sequence, <<>> for a transaction that *)
(* was never filled; a signature is the set of the content it is valid     *)
(* for, {} if it is valid for none.                                        *)
(***************************************************************************)
EXTENDS Integers, Sequences

VARIABLES
  major,       \* the coin, by which createTxByCoinMajor chose the class
  handle,      \* _tx: null, the address of a transaction, or some other number
  native,      \* the transaction it is the address of
  signResult,  \* the Java field: none or one answer of the device
  shown,       \* what the device was given to sign: nothing or one content
  order,       \* the parameter of the last init: none or one
  stage,       \* how far a caller who keeps to the order of the calls has come
  ret,         \* what the last call returned
  down         \* whether the application has crashed

vars == <<major, handle, native, signResult, shown, order, stage, ret, down>>

Answers == {"intact", "cut", "empty"}   \* what comes back from the device
Answer(form) == [form |-> form, signature |-> IF form = "intact" THEN shown ELSE {}]

Result(what, content, signatures, json) ==
  [what |-> what, content |-> content, signatures |-> signatures, json |-> json]
Void == Result("void", <<>>, <<>>, {})
Null == Result("null", <<>>, <<>>, {})
Empty == Result("empty", <<>>, <<>>, {})
Code(n) == Result(IF n = 0 THEN "ok" ELSE "error", <<>>, <<>>, {})
Data(content) == Result("data", content, <<>>, {})
Tx(content, signatures) == Result("tx", content, signatures, {})

\* Each call in its place, once, after none that failed.
Goes(op, good) ==
  stage' = CASE op = "init" -> "fresh"
             [] op = "firmwarePrepareData" /\ stage = "fresh" /\ good -> "shown"
             [] op = "firmwareProcessResult" /\ stage = "shown" /\ good -> "answered"
             [] op = "sign" /\ stage = "fresh" /\ good -> "signed"
             [] op = "makeSignedTx" /\ stage = "answered" -> "done"
             [] op = "getSignResult" /\ stage = "signed" -> "done"
             [] op \in {"firmwarePrepareData", "sign"} /\ stage = "fresh" /\ ~good -> "refused"
             [] OTHER -> "spoilt"

\* A call that dereferences what is none, or throws through the native interface.
Crash(op) ==
  /\ ~down /\ down' = TRUE /\ ret' = Void /\ Goes(op, FALSE)
  /\ UNCHANGED <<major, handle, native, signResult, shown>>

Returns(op, r, good) == ~down /\ ret' = r /\ Goes(op, good) /\ UNCHANGED <<major, down>>
Return(op, r) == Returns(op, r, r.what \in {"data", "ok", "tx"})

=============================================================================
