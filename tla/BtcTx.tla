------------------------------- MODULE BtcTx -------------------------------
(***************************************************************************)
(* The transaction builder of TokenCore/BtcApi.cpp, namespaces BTCAPI and  *)
(* USDTAPI, as operators on a UserTransaction (TokenCommon.h).             *)
(*                                                                         *)
(* Data abstraction.  A transaction string is the record it encodes; the   *)
(* empty string is NoTx.  An address is its kind (which prefix it has) and *)
(* the key or script hash it carries; a locking script is its template and *)
(* that hash.  A signature is the key that made it and the message it is   *)
(* over.  Amounts are integers; a cast to uint64_t is ToU64.               *)
(***************************************************************************)
EXTENDS Integers, Sequences, FiniteSets

CONSTANTS
  U64,         \* 2^64, the number of values of a uint64_t
  Hashes,      \* the key and script hashes; a key is named by its hash
  Outpoints,   \* what an input can refer to: a transaction and an output of it
  NoKey        \* the empty public_key

ASSUME U64Assumption == U64 \in Nat /\ U64 > 546

ASSUME NoKeyAssumption == NoKey \notin Hashes

Coins == {"BTC", "USDT"}

Dust == 500         \* change of at most this much is left to the miner
OmniOutput == 546   \* what a USDT transfer pays to the payee in bitcoin

ToU64(x) == x % U64

(***************************************************************************)
(* Scripts and transactions.                                               *)
(***************************************************************************)
NoScript == [type |-> "none"]
Garbage == [type |-> "garbage"]
Lock(template, hash) == [hash |-> hash, type |-> template]
Payload(amount) == [type |-> "omni", amount |-> amount]
Unlock(key, sig) == [type |-> "unlock", key |-> key, sig |-> sig]

LockScripts == [type : {"p2pkh", "p2sh", "witness", "push"}, hash : Hashes]

TxOutput == [script : LockScripts \cup [type : {"omni"}, amount : 0..(U64 - 1)],
             value : 0..(U64 - 1)]

TxInput(scripts) == [prev : Outpoints, script : scripts]

Message ==
  [inputs : Seq(TxInput({NoScript, [type |-> "unlock"]} \cup LockScripts)),
   outputs : Seq(TxOutput)]

SignatureData == [key : Hashes, digest : Message]

UnlockScripts ==
  {Garbage} \cup
  [type : {"unlock"}, key : Hashes \cup {NoKey}, sig : SignatureData]

Transaction ==
  [inputs : Seq(TxInput({NoScript} \cup UnlockScripts)), outputs : Seq(TxOutput)]

Utxo == [prev : Outpoints, value : 0..(U64 - 1),
         script : [type : {"p2pkh", "p2sh", "witness"}, hash : Hashes]]

NoTx == [inputs |-> <<>>, outputs |-> <<>>]

Output(script, value) == [script |-> script, value |-> value]

\* The unlocking scripts of a transaction play a part in a message to sign only
\* by being there or not.
Digest(tx) ==
  [inputs |-> [i \in DOMAIN tx.inputs |->
     [prev |-> tx.inputs[i].prev,
      script |-> IF tx.inputs[i].script.type \in {"unlock", "garbage"}
                   THEN [type |-> "unlock"] ELSE tx.inputs[i].script]],
   outputs |-> tx.outputs]

Signature(key, tx) == [key |-> key, digest |-> Digest(tx)]

\* encode_script_ drops every opcode up to OP_16: a witness program loses its
\* version and is left as a bare push of the hash.
EncodeScript(script) ==
  IF script.type = "witness" THEN Lock("push", script.hash) ELSE script

(***************************************************************************)
(* Addresses.  "p2pkh" stands for the prefixes 1, m and n, "p2sh" for 3    *)
(* and 2, "broken" for a text with one of these prefixes that is not       *)
(* base58, "foreign" for any other text (not base58 either), "empty" for   *)
(* the empty string.                                                       *)
(***************************************************************************)
AddressKinds == {"p2pkh", "p2sh", "broken", "foreign", "empty"}

Address == [kind : AddressKinds, hash : Hashes]

\* What an output has to be locked with for the owner of the address to get it.
PaysTo(address) == Lock(address.kind, address.hash)

\* get_output_script: NoScript is its empty result for an unsupported address;
\* for a broken one there is no result, it throws.
OutputScript(address) ==
  IF address.kind \in {"p2pkh", "p2sh"} THEN PaysTo(address) ELSE NoScript

\* The script USDTAPI::make_unsign_tx writes, whatever the prefix is.
HashScript(address) == Lock("p2pkh", address.hash)

\* get_pubkey_hash_from_base58check throws std::out_of_range for the others.
Decodes(address) == address.kind \in {"p2pkh", "p2sh"}

UserTransaction ==
  [to_address : Address, change_address : Address, pay : 0..(U64 - 1),
   fee_count : Nat, fee_price : Nat, utxo_list : Seq(Utxo),
   input_count : Nat, public_key : Hashes \cup {NoKey},
   sig_data : Seq(SignatureData), tx_str : Transaction]

(***************************************************************************)
(* make_unsign_tx of both namespaces.                                      *)
(***************************************************************************)
\* The value of the first n unspent outputs of a list.
ValueSum(list, n) ==
  LET sum[k \in 0..n] == IF k = 0 THEN 0 ELSE sum[k - 1] + list[k].value
  IN  sum[n]

\* No part of the list is worth more than a uint64_t holds.
Supplied(list) == \A n \in 0..Len(list) : ValueSum(list, n) \in 0..(U64 - 1)

Fee(u) == u.fee_count * u.fee_price

\* What the inputs have to reach.
Target(coin, u) == (IF coin = "USDT" THEN OmniOutput ELSE u.pay) + Fee(u)

\* The iterations of the selection loop: the i-th runs unless an earlier one
\* has reached the target and left the loop.
Selected(list, target) ==
  {i \in 1..Len(list) : \A k \in 1..(i - 1) : ValueSum(list, k) < target}

InputCount(coin, u) == Cardinality(Selected(u.utxo_list, Target(coin, u)))

\* Slip: the change of all the unspent outputs, taken or not.
ChangeOfWholeList(coin, u) ==
  ValueSum(u.utxo_list, Len(u.utxo_list)) - Target(coin, u)

Change(coin, u) ==
  ValueSum(u.utxo_list, InputCount(coin, u)) - Target(coin, u)

HasChange(coin, u) ==
  u.change_address.kind # "empty" /\ Change(coin, u) > Dust

ChangeOutput(coin, u) ==
  Output(IF coin = "USDT" THEN HashScript(u.change_address)
                          ELSE OutputScript(u.change_address),
         ToU64(Change(coin, u)))

\* The outputs before the change.
PaymentOutputs(coin, u) ==
  IF coin = "USDT"
    THEN << Output(Payload(ToU64(u.pay)), 0),
            Output(HashScript(u.to_address), OmniOutput) >>
    ELSE << Output(OutputScript(u.to_address), ToU64(u.pay)) >>

Outputs(coin, u) ==
  IF HasChange(coin, u)
    THEN Append(PaymentOutputs(coin, u), ChangeOutput(coin, u))
    ELSE PaymentOutputs(coin, u)

UnsignedInputs(list, n) ==
  [i \in 1..n |-> [prev |-> list[i].prev, script |-> NoScript]]

UnsignedTx(coin, u) ==
  [inputs |-> UnsignedInputs(u.utxo_list, InputCount(coin, u)),
   outputs |-> Outputs(coin, u)]

Insufficient == -1
Unsupported == -2
Thrown == -99     \* an exception leaves the function; no return code

\* Whether an output can be written for the address at all.
Supports(coin, address) ==
  IF coin = "USDT" THEN Decodes(address) ELSE OutputScript(address) # NoScript

\* What becomes of the others.
Refusal(coin, address) ==
  IF coin = "USDT" \/ address.kind = "broken" THEN Thrown ELSE Unsupported

\* Slip: the balance is not checked.
RetWithoutBalance(coin, u) ==
  IF ~Supports(coin, u.to_address) THEN Refusal(coin, u.to_address)
  ELSE IF HasChange(coin, u) /\ ~Supports(coin, u.change_address)
    THEN Refusal(coin, u.change_address)
  ELSE 0

MakeUnsignRet(coin, u) ==
  IF Change(coin, u) < 0 THEN Insufficient
  ELSE IF ~Supports(coin, u.to_address) THEN Refusal(coin, u.to_address)
  ELSE IF HasChange(coin, u) /\ ~Supports(coin, u.change_address)
    THEN Refusal(coin, u.change_address)
  ELSE 0

\* Slips: tx_str written for an order that is refused, input_count not reset
\* before it is counted up, every output counted as an input, and tx_str kept
\* where there is one already.
WritesRefusedTx(coin, u) ==
  [u EXCEPT !.input_count = InputCount(coin, u), !.tx_str = UnsignedTx(coin, u)]

KeepsCounting(coin, u) ==
  [u EXCEPT !.input_count = u.input_count + InputCount(coin, u),
            !.tx_str = IF MakeUnsignRet(coin, u) = 0 THEN UnsignedTx(coin, u)
                                                     ELSE u.tx_str]

KeepsOldTx(coin, u) ==
  [u EXCEPT !.input_count = InputCount(coin, u),
            !.tx_str = IF MakeUnsignRet(coin, u) = 0 /\ u.tx_str = NoTx
                         THEN UnsignedTx(coin, u) ELSE u.tx_str]

\* input_count is written whatever the outcome, tx_str only on success.
MakeUnsignTx(coin, u) ==
  [u EXCEPT !.input_count = InputCount(coin, u),
            !.tx_str = IF MakeUnsignRet(coin, u) = 0 THEN UnsignedTx(coin, u)
                                                     ELSE @]

(***************************************************************************)
(* Signing.  Inputs are numbered from 0, as in the code.                   *)
(***************************************************************************)
WithScript(tx, i, script) == [tx EXCEPT !.inputs[i + 1].script = script]

\* tx_decode throws on the empty string, and inputs[i] is only defined for
\* the inputs the string has.
HasInput(u, i) == u.tx_str # NoTx /\ i < Len(u.tx_str.inputs)

PreparedTx(u, i) ==
  WithScript(u.tx_str, i, EncodeScript(u.utxo_list[i + 1].script))

\* Slip: the payee is looked for in the first output, whatever the coin.
PayeeAlwaysFirst(coin, u, i) ==
  [pay_index |-> 0, change_index |-> IF coin = "USDT" THEN 2 ELSE 1,
   tx |-> PreparedTx(u, i)]

\* What firmware_prepare_data hands to the hardware wallet: the positions of the
\* payee's and of the change output, and the transaction to sign.
FirmwareData(coin, u, i) ==
  [pay_index |-> IF coin = "USDT" THEN 1 ELSE 0,
   change_index |-> IF coin = "USDT" THEN 2 ELSE 1,
   tx |-> PreparedTx(u, i)]

\* Slip: the newest signature is put first.
NewestFirst(u, answer) ==
  [u EXCEPT !.public_key = answer.key, !.sig_data = <<answer.sig>> \o u.sig_data]

FirmwareProcessResult(u, answer) ==
  [u EXCEPT !.public_key = answer.key, !.sig_data = Append(@, answer.sig)]

\* Slip: the signatures of an earlier call are not cleared.
SignsOnTop(u, key) ==
  [u EXCEPT !.public_key = key,
            !.sig_data = u.sig_data \o [i \in 1..u.input_count |->
                                         Signature(key, PreparedTx(u, i - 1))]]

\* sign_tx, for a transaction string that has all of its inputs.
SignTx(u, key) ==
  [u EXCEPT !.public_key = key,
            !.sig_data = [i \in 1..u.input_count |->
                            Signature(key, PreparedTx(u, i - 1))]]

\* make_sign_tx fills the scripts of the first input_count inputs with sig_data
\* and public_key.  Where it reads beyond sig_data, in a build where that does not
\* fault, the script holds whatever lies there.
SignaturesSuffice(u) == u.input_count <= Len(u.sig_data)

\* Slip: the first signature is put into every input.
ReusesFirstSignature(u, i) ==
  IF i > u.input_count THEN u.tx_str.inputs[i].script
  ELSE IF u.sig_data = <<>> THEN Garbage
  ELSE Unlock(u.public_key, u.sig_data[1])

FilledScript(u, i) ==
  IF i > u.input_count THEN u.tx_str.inputs[i].script
  ELSE IF i > Len(u.sig_data) THEN Garbage
  ELSE Unlock(u.public_key, u.sig_data[i])

\* Slip: only the inputs there is a signature for are written.
SignedInputsOnly(u) ==
  [u EXCEPT !.tx_str =
     [inputs |-> [i \in DOMAIN u.tx_str.inputs \cap DOMAIN u.sig_data |->
                    [prev |-> u.tx_str.inputs[i].prev,
                     script |-> FilledScript(u, i)]],
      outputs |-> u.tx_str.outputs]]

MakeSignTx(u) ==
  [u EXCEPT !.tx_str =
     [inputs |-> [i \in DOMAIN u.tx_str.inputs |->
                    [prev |-> u.tx_str.inputs[i].prev,
                     script |-> FilledScript(u, i)]],
      outputs |-> u.tx_str.outputs]]

(***************************************************************************)
(* get_tx_len: the length of a transaction of the same payment built with  *)
(* no fee, to and from fixed addresses, and signed with a fixed key.       *)
(***************************************************************************)
\* A signature and its hash type take 71 to 73 bytes; all are taken to be alike.
SignatureLen == 72

ScriptLen(script) ==
  CASE script.type = "p2pkh" -> 25
    [] script.type = "p2sh" -> 23
    [] script.type = "omni" -> 22
    [] script.type = "unlock" -> 1 + SignatureLen + 1 + 33
    [] OTHER -> 0

OutputLen(outputs, i) ==
  IF i <= Len(outputs) THEN 8 + 1 + ScriptLen(outputs[i].script) ELSE 0

TxLen(tx) ==
  4 + 1 + Len(tx.inputs) * (32 + 4 + 1 + ScriptLen([type |-> "unlock"]) + 4)
    + 1 + OutputLen(tx.outputs, 1) + OutputLen(tx.outputs, 2)
    + OutputLen(tx.outputs, 3) + 4

SampleAddress == [kind |-> "p2pkh", hash |-> CHOOSE h \in Hashes : TRUE]

Sample(u) ==
  [u EXCEPT !.to_address = SampleAddress, !.change_address = SampleAddress,
            !.fee_count = 0, !.fee_price = 0]

GetTxLen(coin, u) ==
  IF MakeUnsignRet(coin, Sample(u)) # 0 THEN MakeUnsignRet(coin, Sample(u))
  ELSE TxLen(UnsignedTx(coin, Sample(u)))

(***************************************************************************)
(* What a transaction is to the network.                                   *)
(***************************************************************************)
\* The transaction with nothing in its unlocking scripts: what every signature
\* of it has to agree on.
Skeleton(tx) ==
  [inputs |-> [i \in DOMAIN tx.inputs |->
                 [prev |-> tx.inputs[i].prev, script |-> NoScript]],
   outputs |-> tx.outputs]

\* What a signature for input i (from 0) has to be over.
SignedMessage(tx, u, i) ==
  WithScript(Skeleton(tx), i, u.utxo_list[i + 1].script)

\* The network accepts input i only with the key the spent output is locked to
\* and that key's signature.
Unlocks(tx, u, i) ==
  LET lock == u.utxo_list[i + 1].script
  IN  /\ lock.type = "p2pkh"
      /\ tx.inputs[i + 1].script =
           Unlock(lock.hash, Signature(lock.hash, SignedMessage(tx, u, i)))

Complete(tx, u) == \A i \in 0..(Len(tx.inputs) - 1) : Unlocks(tx, u, i)

(***************************************************************************)
(* What a transaction owes to the order it was built from.                 *)
(***************************************************************************)
ValueAt(outputs, i) == IF i <= Len(outputs) THEN outputs[i].value ELSE 0

\* No transaction of this builder has more than three outputs.
OutputTotal(tx) ==
  ValueAt(tx.outputs, 1) + ValueAt(tx.outputs, 2) + ValueAt(tx.outputs, 3)

\* The fields of a UserTransaction that the user fills in.
OrderOf(coin, u) ==
  [coin |-> coin, to_address |-> u.to_address,
   change_address |-> u.change_address, pay |-> u.pay,
   fee_count |-> u.fee_count, fee_price |-> u.fee_price,
   utxo_list |-> u.utxo_list]

\* What the inputs bring and no output takes.
FeePaid(tx, u) == ValueSum(u.utxo_list, Len(tx.inputs)) - OutputTotal(tx)

\* The inputs are the first unspent outputs of the order, and the last one of
\* them is needed.
SpendsFirstCoins(coin, u, tx) ==
  /\ Len(tx.inputs) <= Len(u.utxo_list)
  /\ \A i \in 1..Len(tx.inputs) : tx.inputs[i].prev = u.utxo_list[i].prev
  /\ Len(tx.inputs) > 1 =>
       ValueSum(u.utxo_list, Len(tx.inputs) - 1) < Target(coin, u)

\* How many outputs come before the change.
PaymentLen(coin) == IF coin = "USDT" THEN 2 ELSE 1

\* The payee, and in a USDT transfer the token amount, get what was ordered.
PaysPayee(coin, u, tx) ==
  IF coin = "USDT"
    THEN /\ Len(tx.outputs) >= 2
         /\ tx.outputs[1] = Output(Payload(u.pay), 0)
         /\ tx.outputs[2] = Output(PaysTo(u.to_address), OmniOutput)
    ELSE /\ Len(tx.outputs) >= 1
         /\ tx.outputs[1] = Output(PaysTo(u.to_address), u.pay)

\* The miner gets the fee of the order, and beyond it at most dust or what there
\* is no address to return to.
PaysFee(coin, u, tx) ==
  /\ FeePaid(tx, u) >= Fee(u)
  /\ u.change_address.kind # "empty" => FeePaid(tx, u) <= Fee(u) + Dust

\* Whatever else is paid goes to the change address.
OnlyChangeBesides(coin, u, tx) ==
  \A i \in DOMAIN tx.outputs :
    i > PaymentLen(coin) => tx.outputs[i].script = PaysTo(u.change_address)

Honours(coin, u, tx) ==
  /\ SpendsFirstCoins(coin, u, tx)
  /\ PaysPayee(coin, u, tx)
  /\ PaysFee(coin, u, tx)
  /\ OnlyChangeBesides(coin, u, tx)

=============================================================================
