---------------------------- MODULE BtcTxLemmas -----------------------------
(***************************************************************************)
(* What the operators of BtcTx return, for every order.                    *)
(***************************************************************************)
EXTENDS BtcTx, FiniteSetTheorems, SequenceTheorems, TLAPS

\* What a UserTransaction has to be for the builder: its input fields.
InputFields(u) ==
  /\ u.to_address \in Address
  /\ u.change_address \in Address
  /\ u.pay \in 0..(U64 - 1)
  /\ u.fee_count \in Nat
  /\ u.fee_price \in Nat
  /\ u.utxo_list \in Seq(Utxo)
  /\ Supplied(u.utxo_list)

\* The fee and the target of the selection are amounts.
LEMMA TargetType ==
  ASSUME NEW u, InputFields(u), NEW coin
  PROVE  Fee(u) \in Nat /\ Target(coin, u) \in Nat
<1>1. Fee(u) \in Nat
  BY DEF InputFields, Fee
<1>. QED  BY <1>1, U64Assumption DEF InputFields, Target, OmniOutput

\* The selection loop (BtcApi.cpp:467) takes no more inputs than there are.
LEMMA InputCountType ==
  ASSUME NEW u, InputFields(u), NEW coin
  PROVE  InputCount(coin, u) \in 0..Len(u.utxo_list)
<1>. DEFINE S == Selected(u.utxo_list, Target(coin, u))
            n == Len(u.utxo_list)
<1>1. n \in Nat
  BY DEF InputFields
<1>2. IsFiniteSet(1..n) /\ Cardinality(1..n) = n
  BY <1>1, FS_Interval
<1>3. S \subseteq 1..n
  BY DEF Selected
<1>4. Cardinality(S) \in Nat /\ Cardinality(S) <= n
  BY <1>2, <1>3, FS_Subset, FS_CardinalityType
<1>. QED  BY <1>1, <1>4 DEF InputCount

\* The loop stops at the first input that reaches the target, so without the
\* last input it takes it has not reached it.
LEMMA LastInputIsNeeded ==
  ASSUME NEW u, InputFields(u), NEW coin, InputCount(coin, u) > 1
  PROVE  ValueSum(u.utxo_list, InputCount(coin, u) - 1) < Target(coin, u)
<1>. DEFINE S == Selected(u.utxo_list, Target(coin, u))
            n == InputCount(coin, u)
<1>1. n \in 0..Len(u.utxo_list) /\ n = Cardinality(S) /\ Len(u.utxo_list) \in Nat
  BY InputCountType DEF InputCount, InputFields
<1>2. PICK i \in S : i >= n
  <2>1. SUFFICES ASSUME \A i \in S : ~(i >= n)  PROVE FALSE
    OBVIOUS
  <2>2. n - 1 \in Nat /\ S \subseteq 1..(n - 1)
    <3>1. S \subseteq 1..Len(u.utxo_list)
      BY DEF Selected
    <3>2. n \in Nat /\ n > 1
      BY <1>1
    <3>. HIDE DEF S, n
    <3>. QED  BY <1>1, <2>1, <3>1, <3>2
  <2>3. IsFiniteSet(1..(n - 1)) /\ Cardinality(1..(n - 1)) = n - 1
    BY <2>2, FS_Interval
  <2>4. Cardinality(S) <= n - 1
    BY <2>2, <2>3, FS_Subset
  <2>. QED  BY <1>1, <2>2, <2>4
<1>3. i \in 1..Len(u.utxo_list) /\ n - 1 \in 1..(i - 1)
  BY <1>1, <1>2 DEF Selected
<1>. QED  BY <1>2, <1>3 DEF Selected

\* An amount that fits a uint64_t is what it is cast to.
LEMMA ToU64Fits ==
  ASSUME NEW x \in 0..(U64 - 1)
  PROVE  ToU64(x) = x
BY U64Assumption DEF ToU64

\* What is left over is an amount that fits, if the selection reached the target.
LEMMA ChangeType ==
  ASSUME NEW u, InputFields(u), NEW coin
  PROVE  /\ ValueSum(u.utxo_list, InputCount(coin, u)) \in 0..(U64 - 1)
         /\ Change(coin, u) \in Int
         /\ Change(coin, u) >= 0 => /\ Change(coin, u) \in 0..(U64 - 1)
                                    /\ ToU64(Change(coin, u)) = Change(coin, u)
<1>1. ValueSum(u.utxo_list, InputCount(coin, u)) \in 0..(U64 - 1)
  BY InputCountType DEF InputFields, Supplied
<1>2. Target(coin, u) \in Nat
  BY TargetType
<1>3. Change(coin, u) = ValueSum(u.utxo_list, InputCount(coin, u)) - Target(coin, u)
  BY DEF Change
<1>4. Change(coin, u) \in Int
  BY <1>1, <1>2, <1>3, U64Assumption
<1>5. Change(coin, u) >= 0 => Change(coin, u) \in 0..(U64 - 1)
  BY <1>1, <1>2, <1>3, U64Assumption
<1>. QED  BY <1>1, <1>4, <1>5, ToU64Fits

\* Sequences of one and of two elements, and what Append makes of a sequence.
LEMMA ShortSequences ==
  ASSUME NEW S, NEW a \in S, NEW b \in S
  PROVE  /\ <<a>> \in Seq(S) /\ Len(<<a>>) = 1 /\ <<a>>[1] = a
         /\ <<a, b>> \in Seq(S) /\ Len(<<a, b>>) = 2
         /\ <<a, b>>[1] = a /\ <<a, b>>[2] = b
OBVIOUS

\* A function on 1..n is a sequence of length n.
LEMMA FunctionIsSeq ==
  ASSUME NEW S, NEW n \in Nat, NEW f \in [1..n -> S]
  PROVE  f \in Seq(S) /\ Len(f) = n /\ DOMAIN f = 1..n
<1>1. f \in Seq(S)
  BY SeqDef
<1>. QED  BY <1>1, LenProperties

LEMMA AppendShape ==
  ASSUME NEW S, NEW s \in Seq(S), NEW e \in S
  PROVE  /\ Append(s, e) \in Seq(S)
         /\ Len(Append(s, e)) = Len(s) + 1
         /\ \A i \in 1..Len(s) : Append(s, e)[i] = s[i]
         /\ Append(s, e)[Len(s) + 1] = e
OBVIOUS

\* A script can be written for an address that passes the check of the coin.
LEMMA SupportedScripts ==
  ASSUME NEW coin \in Coins, NEW a \in Address, Supports(coin, a)
  PROVE  /\ a.kind \in {"p2pkh", "p2sh"}
         /\ coin = "BTC" => OutputScript(a) = PaysTo(a)
         /\ PaysTo(a) \in LockScripts
         /\ HashScript(a) \in LockScripts
BY DEF Supports, Decodes, OutputScript, PaysTo, HashScript, Lock,
       LockScripts, Address, Coins

\* What make_unsign_tx returning 0 says of the order.
LEMMA Accepted ==
  ASSUME NEW u, InputFields(u), NEW coin, MakeUnsignRet(coin, u) = 0
  PROVE  /\ Change(coin, u) \in 0..(U64 - 1)
         /\ ToU64(Change(coin, u)) = Change(coin, u)
         /\ ToU64(u.pay) = u.pay
         /\ Supports(coin, u.to_address)
         /\ HasChange(coin, u) => Supports(coin, u.change_address)
<1>1. Change(coin, u) >= 0
  BY ChangeType DEF MakeUnsignRet, Insufficient
<1>2. /\ Supports(coin, u.to_address)
      /\ HasChange(coin, u) => Supports(coin, u.change_address)
  BY DEF MakeUnsignRet, Insufficient, Refusal, Thrown, Unsupported
<1>3. ToU64(u.pay) = u.pay
  BY ToU64Fits DEF InputFields
<1>. QED  BY <1>1, <1>2, <1>3, ChangeType

\* The outputs before the change, for an order make_unsign_tx accepts.
LEMMA PaymentOutputsShape ==
  ASSUME NEW u, InputFields(u), NEW coin \in Coins, MakeUnsignRet(coin, u) = 0
  PROVE  /\ PaymentOutputs(coin, u) \in Seq(TxOutput)
         /\ Len(PaymentOutputs(coin, u)) = PaymentLen(coin)
         /\ coin = "USDT" =>
              /\ PaymentOutputs(coin, u)[1] = Output(Payload(u.pay), 0)
              /\ PaymentOutputs(coin, u)[2]
                   = Output(HashScript(u.to_address), OmniOutput)
         /\ coin = "BTC" =>
              PaymentOutputs(coin, u)[1] = Output(PaysTo(u.to_address), u.pay)
<1>1. ToU64(u.pay) = u.pay /\ Supports(coin, u.to_address)
  BY Accepted
<1>2. u.pay \in 0..(U64 - 1) /\ u.to_address \in Address
  BY DEF InputFields
<1>3. CASE coin = "USDT"
  <2>. DEFINE tokens == Output(Payload(u.pay), 0)
              carrier == Output(HashScript(u.to_address), OmniOutput)
  <2>1. tokens \in TxOutput
    BY <1>2, U64Assumption DEF Output, Payload, TxOutput
  <2>2. carrier \in TxOutput
    BY <1>1, <1>2, SupportedScripts, U64Assumption DEF Output, TxOutput, OmniOutput
  <2>3. PaymentOutputs(coin, u) = << tokens, carrier >>
    BY <1>1, <1>3 DEF PaymentOutputs
  <2>. HIDE DEF tokens, carrier
  <2>4. /\ PaymentOutputs(coin, u) \in Seq(TxOutput)
        /\ Len(PaymentOutputs(coin, u)) = 2
        /\ PaymentOutputs(coin, u)[1] = tokens
        /\ PaymentOutputs(coin, u)[2] = carrier
    BY <2>1, <2>2, <2>3, ShortSequences
  <2>. QED  BY <1>3, <2>4 DEF PaymentLen, tokens, carrier
<1>4. CASE coin = "BTC"
  <2>1. PaymentOutputs(coin, u) = << Output(PaysTo(u.to_address), u.pay) >>
    BY <1>1, <1>2, <1>4, SupportedScripts DEF PaymentOutputs
  <2>2. Output(PaysTo(u.to_address), u.pay) \in TxOutput
    BY <1>1, <1>2, SupportedScripts DEF Output, TxOutput
  <2>. QED  BY <1>4, <2>1, <2>2, ShortSequences DEF PaymentLen
<1>. QED  BY <1>3, <1>4 DEF Coins

\* The change, which is the last output if there is any.
LEMMA OutputsShape ==
  ASSUME NEW u, InputFields(u), NEW coin \in Coins, MakeUnsignRet(coin, u) = 0
  PROVE  /\ Outputs(coin, u) \in Seq(TxOutput)
         /\ Len(Outputs(coin, u)) =
              PaymentLen(coin) + (IF HasChange(coin, u) THEN 1 ELSE 0)
         /\ \A i \in 1..PaymentLen(coin) :
              Outputs(coin, u)[i] = PaymentOutputs(coin, u)[i]
         /\ HasChange(coin, u) =>
              Outputs(coin, u)[PaymentLen(coin) + 1] =
                Output(IF coin = "USDT" THEN HashScript(u.change_address)
                       ELSE PaysTo(u.change_address), Change(coin, u))
<1>. DEFINE change == Output(IF coin = "USDT" THEN HashScript(u.change_address)
                             ELSE PaysTo(u.change_address), Change(coin, u))
<1>1. /\ PaymentOutputs(coin, u) \in Seq(TxOutput)
      /\ Len(PaymentOutputs(coin, u)) = PaymentLen(coin)
      /\ PaymentLen(coin) \in Nat
  BY PaymentOutputsShape DEF PaymentLen
<1>2. CASE HasChange(coin, u)
  <2>1. /\ Change(coin, u) \in 0..(U64 - 1)
        /\ ToU64(Change(coin, u)) = Change(coin, u)
        /\ Supports(coin, u.change_address)
        /\ u.change_address \in Address
    BY <1>2, Accepted DEF InputFields
  <2>2. change \in TxOutput
    BY <2>1, SupportedScripts DEF Output, TxOutput
  <2>3. ChangeOutput(coin, u) = change
    BY <2>1, SupportedScripts DEF ChangeOutput, Coins
  <2>4. Outputs(coin, u) = Append(PaymentOutputs(coin, u), change)
    BY <1>2, <2>3 DEF Outputs
  <2>. HIDE DEF change
  <2>5. /\ Outputs(coin, u) \in Seq(TxOutput)
        /\ Len(Outputs(coin, u)) = PaymentLen(coin) + 1
        /\ \A i \in 1..PaymentLen(coin) :
             Outputs(coin, u)[i] = PaymentOutputs(coin, u)[i]
        /\ Outputs(coin, u)[PaymentLen(coin) + 1] = change
    BY <1>1, <2>2, <2>4, AppendShape
  <2>. QED  BY <1>2, <2>5 DEF change
<1>3. CASE ~HasChange(coin, u)
  BY <1>1, <1>3 DEF Outputs
<1>. QED  BY <1>2, <1>3

\* The order and its transaction: what the builder promises, apart from scripts
\* of addresses that USDTAPI writes as if they were keys.
KeyAddress(address) == address.kind # "p2sh"

UsdtToKeys(coin, u) ==
  coin = "USDT" => KeyAddress(u.to_address) /\ KeyAddress(u.change_address)

LEMMA UnsignedInputsShape ==
  ASSUME NEW u, InputFields(u), NEW coin
  PROVE  LET ins == UnsignedTx(coin, u).inputs
         IN  /\ ins \in Seq(TxInput({NoScript}))
             /\ Len(ins) = InputCount(coin, u)
             /\ DOMAIN ins = 1..InputCount(coin, u)
             /\ \A i \in 1..InputCount(coin, u) :
                  ins[i] = [prev |-> u.utxo_list[i].prev, script |-> NoScript]
<1>. DEFINE n == InputCount(coin, u)
            ins == UnsignedInputs(u.utxo_list, n)
<1>1. n \in Nat /\ n <= Len(u.utxo_list) /\ u.utxo_list \in Seq(Utxo)
  BY InputCountType DEF InputFields
<1>2. UnsignedTx(coin, u).inputs = ins
  BY DEF UnsignedTx
<1>. HIDE DEF n
<1>3. \A i \in 1..n : u.utxo_list[i].prev \in Outpoints
  <2>1. \A i \in 1..n : u.utxo_list[i] \in Utxo
    BY <1>1
  <2>. QED  BY <2>1 DEF Utxo
<1>4. \A i \in 1..n : [prev |-> u.utxo_list[i].prev, script |-> NoScript]
                         \in TxInput({NoScript})
  BY <1>3 DEF TxInput
<1>5. ins \in Seq(TxInput({NoScript})) /\ Len(ins) = n /\ DOMAIN ins = 1..n
  <2>1. ins \in [1..n -> TxInput({NoScript})]
    BY <1>4 DEF UnsignedInputs
  <2>. HIDE DEF ins
  <2>. QED  BY <1>1, <2>1, FunctionIsSeq
<1>6. \A i \in 1..n :
        ins[i] = [prev |-> u.utxo_list[i].prev, script |-> NoScript]
  BY DEF UnsignedInputs
<1>. QED  BY <1>2, <1>5, <1>6 DEF n

\* The payee, the change and the miner get what the order says, and only the
\* inputs that are needed are spent.
THEOREM UnsignedTxHonours ==
  ASSUME NEW u, InputFields(u), NEW coin \in Coins,
         MakeUnsignRet(coin, u) = 0, UsdtToKeys(coin, u)
  PROVE  Honours(coin, u, UnsignedTx(coin, u))
<1>. DEFINE tx == UnsignedTx(coin, u)
            n == InputCount(coin, u)
            outs == Outputs(coin, u)
<1>1. tx.outputs = outs
  BY DEF UnsignedTx
<1>2. SpendsFirstCoins(coin, u, tx)
  <2>1. n \in 0..Len(u.utxo_list)
    BY InputCountType
  <2>2. n > 1 => ValueSum(u.utxo_list, n - 1) < Target(coin, u)
    BY LastInputIsNeeded
  <2>3. Len(tx.inputs) = n /\ \A i \in 1..n : tx.inputs[i].prev = u.utxo_list[i].prev
    <3>1. /\ Len(tx.inputs) = n
          /\ \A i \in 1..n :
               tx.inputs[i] = [prev |-> u.utxo_list[i].prev, script |-> NoScript]
      BY UnsignedInputsShape
    <3>. HIDE DEF tx, n
    <3>2. ASSUME NEW i \in 1..n  PROVE tx.inputs[i].prev = u.utxo_list[i].prev
      <4>1. tx.inputs[i] = [prev |-> u.utxo_list[i].prev, script |-> NoScript]
        BY <3>1
      <4>. QED  BY <4>1
    <3>. QED  BY <3>1, <3>2
  <2>4. Len(u.utxo_list) \in Nat
    BY DEF InputFields
  <2>. HIDE DEF n, tx
  <2>. QED  BY <2>1, <2>2, <2>3, <2>4 DEF SpendsFirstCoins
<1>3. /\ HasChange(coin, u) => Supports(coin, u.change_address)
      /\ Supports(coin, u.to_address)
      /\ Change(coin, u) \in 0..(U64 - 1)
      /\ u.to_address \in Address /\ u.change_address \in Address
  BY Accepted DEF InputFields
<1>4. /\ coin = "USDT" => HashScript(u.to_address) = PaysTo(u.to_address)
      /\ coin = "USDT" /\ HasChange(coin, u) =>
           HashScript(u.change_address) = PaysTo(u.change_address)
  BY <1>3, SupportedScripts DEF UsdtToKeys, KeyAddress, HashScript, PaysTo
<1>5. /\ Len(outs) = PaymentLen(coin) + (IF HasChange(coin, u) THEN 1 ELSE 0)
      /\ PaymentLen(coin) = IF coin = "USDT" THEN 2 ELSE 1
      /\ DOMAIN outs = 1..Len(outs)
  BY OutputsShape DEF PaymentLen
<1>6. /\ coin = "USDT" =>
           /\ outs[1] = Output(Payload(u.pay), 0)
           /\ outs[2] = Output(PaysTo(u.to_address), OmniOutput)
      /\ coin = "BTC" => outs[1] = Output(PaysTo(u.to_address), u.pay)
  BY <1>4, OutputsShape, PaymentOutputsShape DEF PaymentLen, Coins
<1>7. HasChange(coin, u) =>
        outs[PaymentLen(coin) + 1] =
          Output(PaysTo(u.change_address), Change(coin, u))
  BY <1>4, OutputsShape
<1>8. PaysPayee(coin, u, tx)
  <2>. HIDE DEF outs, tx
  <2>. QED  BY <1>1, <1>5, <1>6 DEF PaysPayee, Coins
<1>9. OnlyChangeBesides(coin, u, tx)
  <2>. SUFFICES ASSUME NEW i \in 1..Len(outs), i > PaymentLen(coin)
                PROVE  outs[i].script = PaysTo(u.change_address)
    BY <1>1, <1>5 DEF OnlyChangeBesides
  <2>. HIDE DEF outs
  <2>1. HasChange(coin, u) /\ i = PaymentLen(coin) + 1
    BY <1>5
  <2>. QED  BY <1>7, <2>1 DEF Output
<1>10. OutputTotal(tx) =
         (IF coin = "USDT" THEN OmniOutput ELSE u.pay)
         + (IF HasChange(coin, u) THEN Change(coin, u) ELSE 0)
  <2>. HIDE DEF outs, tx
  <2>1. CASE coin = "USDT"
    BY <1>1, <1>3, <1>5, <1>6, <1>7, <2>1
       DEF OutputTotal, ValueAt, Output, OmniOutput
  <2>2. CASE coin = "BTC"
    BY <1>1, <1>3, <1>5, <1>6, <1>7, <2>2
       DEF OutputTotal, ValueAt, Output, InputFields
  <2>. QED  BY <2>1, <2>2 DEF Coins
<1>11. PaysFee(coin, u, tx)
  <2>1. ValueSum(u.utxo_list, Len(tx.inputs)) = Target(coin, u) + Change(coin, u)
    <3>1. Len(tx.inputs) = n
      BY UnsignedInputsShape
    <3>. QED  BY <3>1, ChangeType, TargetType DEF Change
  <2>2. Target(coin, u) = (IF coin = "USDT" THEN OmniOutput ELSE u.pay) + Fee(u)
    BY DEF Target
  <2>3. Fee(u) \in Nat /\ u.pay \in Nat
    BY TargetType DEF InputFields
  <2>4. FeePaid(tx, u) = Fee(u) + (IF HasChange(coin, u) THEN 0 ELSE Change(coin, u))
    BY <1>3, <1>10, <2>1, <2>2, <2>3 DEF FeePaid, OmniOutput
  <2>5. u.change_address.kind # "empty" /\ ~HasChange(coin, u)
          => Change(coin, u) <= Dust
    BY <1>3 DEF HasChange, Dust
  <2>. QED  BY <1>3, <2>3, <2>4, <2>5 DEF PaysFee, Dust
<1>. QED  BY <1>2, <1>8, <1>9, <1>11 DEF Honours

(***************************************************************************)
(* make_unsign_tx and the signing calls keep the order of a UserTransaction *)
(* and its type.                                                           *)
(***************************************************************************)
\* The builder looks at the order only.
LEMMA SameOrder ==
  ASSUME NEW coin, NEW u, NEW v, OrderOf(coin, u) = OrderOf(coin, v)
  PROVE  /\ InputCount(coin, u) = InputCount(coin, v)
         /\ MakeUnsignRet(coin, u) = MakeUnsignRet(coin, v)
         /\ UnsignedTx(coin, u) = UnsignedTx(coin, v)
         /\ InputFields(u) = InputFields(v)
         /\ UsdtToKeys(coin, u) = UsdtToKeys(coin, v)
         /\ u.utxo_list = v.utxo_list
<1>1. /\ u.to_address = v.to_address
      /\ u.change_address = v.change_address
      /\ u.pay = v.pay
      /\ u.fee_count = v.fee_count
      /\ u.fee_price = v.fee_price
      /\ u.utxo_list = v.utxo_list
  BY DEF OrderOf
<1>2. Fee(u) = Fee(v)
  BY <1>1 DEF Fee
<1>3. Target(coin, u) = Target(coin, v)
  BY <1>1, <1>2 DEF Target
<1>4. InputCount(coin, u) = InputCount(coin, v)
  BY <1>1, <1>3 DEF InputCount
<1>5. Change(coin, u) = Change(coin, v)
  BY <1>1, <1>3, <1>4 DEF Change
<1>6. HasChange(coin, u) = HasChange(coin, v)
  BY <1>1, <1>5 DEF HasChange
<1>7. MakeUnsignRet(coin, u) = MakeUnsignRet(coin, v)
  BY <1>1, <1>5, <1>6 DEF MakeUnsignRet
<1>8. Outputs(coin, u) = Outputs(coin, v)
  BY <1>1, <1>5, <1>6 DEF Outputs, PaymentOutputs, ChangeOutput
<1>9. UnsignedTx(coin, u) = UnsignedTx(coin, v)
  BY <1>1, <1>4, <1>8 DEF UnsignedTx
<1>. QED  BY <1>1, <1>4, <1>7, <1>9 DEF InputFields, UsdtToKeys

\* A sequence is one over any larger set.
LEMMA SeqWiden ==
  ASSUME NEW S, NEW T, S \subseteq T, NEW s \in Seq(S)
  PROVE  s \in Seq(T)
BY SeqMonotonic

\* What make_unsign_tx builds is a transaction, and its own skeleton.
LEMMA UnsignedTxType ==
  ASSUME NEW u, InputFields(u), NEW coin \in Coins, MakeUnsignRet(coin, u) = 0
  PROVE  /\ UnsignedTx(coin, u) \in Transaction
         /\ UnsignedTx(coin, u) \in Message
         /\ UnsignedTx(coin, u) # NoTx
         /\ Len(UnsignedTx(coin, u).inputs) = InputCount(coin, u)
         /\ Skeleton(UnsignedTx(coin, u)) = UnsignedTx(coin, u)
<1>. DEFINE tx == UnsignedTx(coin, u)
            n == InputCount(coin, u)
<1>1. /\ tx = [inputs |-> tx.inputs, outputs |-> tx.outputs]
      /\ tx.outputs = Outputs(coin, u)
  BY DEF UnsignedTx
<1>2. /\ tx.outputs \in Seq(TxOutput)
      /\ Len(tx.outputs) > 0
  BY <1>1, OutputsShape DEF PaymentLen
<1>3. /\ tx.inputs \in Seq(TxInput({NoScript}))
      /\ Len(tx.inputs) = n
      /\ DOMAIN tx.inputs = 1..n
      /\ \A i \in 1..n :
           tx.inputs[i] = [prev |-> u.utxo_list[i].prev, script |-> NoScript]
  BY UnsignedInputsShape
<1>. HIDE DEF tx, n
<1>4. tx.inputs \in Seq(TxInput({NoScript} \cup UnlockScripts))
  <2>1. TxInput({NoScript}) \subseteq TxInput({NoScript} \cup UnlockScripts)
    BY DEF TxInput
  <2>. QED  BY <1>3, <2>1, SeqWiden
<1>5. tx.inputs \in Seq(TxInput({NoScript, [type |-> "unlock"]} \cup LockScripts))
  <2>1. TxInput({NoScript})
          \subseteq TxInput({NoScript, [type |-> "unlock"]} \cup LockScripts)
    BY DEF TxInput
  <2>. QED  BY <1>3, <2>1, SeqWiden
<1>6. tx \in Transaction /\ tx \in Message
  BY <1>1, <1>2, <1>4, <1>5 DEF Transaction, Message
<1>7. tx # NoTx
  BY <1>2 DEF NoTx
<1>8. Skeleton(tx) = tx
  <2>1. \A i \in 1..n : tx.inputs[i] = [prev |-> tx.inputs[i].prev,
                                       script |-> NoScript]
    <3>1. SUFFICES ASSUME NEW i \in 1..n
                   PROVE  tx.inputs[i] = [prev |-> tx.inputs[i].prev,
                                          script |-> NoScript]
      OBVIOUS
    <3>2. tx.inputs[i] = [prev |-> u.utxo_list[i].prev, script |-> NoScript]
      BY <1>3
    <3>. QED  BY <3>2
  <2>2. tx.inputs = [i \in 1..n |-> tx.inputs[i]]
    BY <1>3, LenProperties
  <2>3. [i \in DOMAIN tx.inputs |-> [prev |-> tx.inputs[i].prev,
                                    script |-> NoScript]] = tx.inputs
    BY <1>3, <2>1, <2>2
  <2>. QED  BY <1>1, <2>3 DEF Skeleton
<1>. QED  BY <1>3, <1>6, <1>7, <1>8 DEF tx, n

\* make_unsign_tx writes input_count and, if it accepts, tx_str; nothing else.
LEMMA MakeUnsignTxShape ==
  ASSUME NEW u \in UserTransaction, InputFields(u), NEW coin \in Coins
  PROVE  LET v == MakeUnsignTx(coin, u)
         IN  /\ v \in UserTransaction
             /\ OrderOf(coin, v) = OrderOf(coin, u)
             /\ v.input_count = InputCount(coin, u)
             /\ v.sig_data = u.sig_data
             /\ v.public_key = u.public_key
             /\ v.tx_str = IF MakeUnsignRet(coin, u) = 0 THEN UnsignedTx(coin, u)
                                                        ELSE u.tx_str
<1>. DEFINE str == IF MakeUnsignRet(coin, u) = 0 THEN UnsignedTx(coin, u)
                                                 ELSE u.tx_str
<1>1. InputCount(coin, u) \in Nat
  BY InputCountType DEF InputFields
<1>2. str \in Transaction
  BY UnsignedTxType DEF UserTransaction
<1>3. MakeUnsignTx(coin, u) =
        [u EXCEPT !.input_count = InputCount(coin, u), !.tx_str = str]
  BY DEF MakeUnsignTx
<1>. HIDE DEF str
<1>4. MakeUnsignTx(coin, u) \in UserTransaction
  BY <1>1, <1>2, <1>3 DEF UserTransaction
<1>. QED  BY <1>3, <1>4 DEF UserTransaction, OrderOf, str

\* A signature over a message that holds no more than marks of unlocking scripts.
LEMMA SignatureType ==
  ASSUME NEW tx \in Message, NEW key \in Hashes
  PROVE  Signature(key, tx) \in SignatureData
<1>. DEFINE Scripts == {NoScript, [type |-> "unlock"]} \cup LockScripts
            n == Len(tx.inputs)
            blank(i) == IF tx.inputs[i].script.type \in {"unlock", "garbage"}
                          THEN [type |-> "unlock"] ELSE tx.inputs[i].script
            ins == [i \in DOMAIN tx.inputs |-> [prev |-> tx.inputs[i].prev,
                                               script |-> blank(i)]]
<1>1. tx.inputs \in Seq(TxInput(Scripts)) /\ tx.outputs \in Seq(TxOutput)
  BY DEF Message
<1>2. n \in Nat /\ DOMAIN tx.inputs = 1..n
  BY <1>1
<1>3. ASSUME NEW i \in 1..n
      PROVE  [prev |-> tx.inputs[i].prev, script |-> blank(i)] \in TxInput(Scripts)
  <2>. HIDE DEF Scripts
  <2>1. tx.inputs[i] \in TxInput(Scripts)
    BY <1>1, <1>3
  <2>2. tx.inputs[i].prev \in Outpoints /\ tx.inputs[i].script \in Scripts
    BY <2>1 DEF TxInput
  <2>3. [type |-> "unlock"] \in Scripts
    BY DEF Scripts
  <2>. QED  BY <2>2, <2>3 DEF TxInput
<1>4. ins \in Seq(TxInput(Scripts))
  <2>. HIDE DEF Scripts, blank
  <2>1. ins \in [1..n -> TxInput(Scripts)]
    BY <1>2, <1>3
  <2>. HIDE DEF ins
  <2>. QED  BY <1>2, <2>1, FunctionIsSeq
<1>5. Digest(tx) = [inputs |-> ins, outputs |-> tx.outputs]
  BY DEF Digest
<1>. QED  BY <1>1, <1>4, <1>5 DEF Signature, SignatureData, Message

\* encode_script_ gives a locking script again.
LEMMA EncodeScriptType ==
  ASSUME NEW s \in [type : {"p2pkh", "p2sh", "witness"}, hash : Hashes]
  PROVE  EncodeScript(s) \in LockScripts
BY DEF EncodeScript, Lock, LockScripts

\* What is to be signed for an input of a fresh transaction.
LEMMA PreparedTxType ==
  ASSUME NEW u, InputFields(u), NEW coin \in Coins, MakeUnsignRet(coin, u) = 0,
         u.tx_str = UnsignedTx(coin, u),
         NEW i \in Nat, i < InputCount(coin, u)
  PROVE  PreparedTx(u, i) \in Message
<1>. DEFINE Scripts == {NoScript, [type |-> "unlock"]} \cup LockScripts
            tx == u.tx_str
            lock == EncodeScript(u.utxo_list[i + 1].script)
<1>1. tx \in Message /\ Len(tx.inputs) = InputCount(coin, u)
  BY UnsignedTxType
<1>2. InputCount(coin, u) \in Nat /\ i + 1 \in 1..Len(tx.inputs)
      /\ i + 1 \in 1..Len(u.utxo_list)
  BY <1>1, InputCountType DEF InputFields
<1>3. lock \in Scripts
  <2>1. u.utxo_list[i + 1] \in Utxo
    BY <1>2 DEF InputFields
  <2>2. u.utxo_list[i + 1].script \in [type : {"p2pkh", "p2sh", "witness"},
                                       hash : Hashes]
    BY <2>1 DEF Utxo
  <2>. QED  BY <2>2, EncodeScriptType
<1>. HIDE DEF lock
<1>4. tx.inputs \in Seq(TxInput(Scripts))
  BY <1>1 DEF Message
<1>5. tx.inputs[i + 1] \in TxInput(Scripts)
  BY <1>2, <1>4
<1>. HIDE DEF Scripts
<1>6. [tx.inputs[i + 1] EXCEPT !.script = lock] \in TxInput(Scripts)
  BY <1>3, <1>5 DEF TxInput
<1>7. [tx.inputs EXCEPT ![i + 1] = [tx.inputs[i + 1] EXCEPT !.script = lock]]
        \in Seq(TxInput(Scripts))
  BY <1>2, <1>4, <1>6, ExceptSeq
<1>8. PreparedTx(u, i) =
        [tx EXCEPT !.inputs =
           [tx.inputs EXCEPT ![i + 1] = [tx.inputs[i + 1] EXCEPT !.script = lock]]]
  BY DEF PreparedTx, WithScript, lock
<1>. QED  BY <1>1, <1>7, <1>8 DEF Message, Scripts

\* sign_tx makes as many signatures as there are inputs.
LEMMA SignTxShape ==
  ASSUME NEW u \in UserTransaction, InputFields(u), NEW coin \in Coins,
         MakeUnsignRet(coin, u) = 0, u.tx_str = UnsignedTx(coin, u),
         u.input_count = InputCount(coin, u), NEW key \in Hashes
  PROVE  LET v == SignTx(u, key)
         IN  /\ v \in UserTransaction
             /\ OrderOf(coin, v) = OrderOf(coin, u)
             /\ v.input_count = u.input_count
             /\ v.tx_str = u.tx_str
             /\ Len(v.sig_data) = u.input_count
<1>. DEFINE n == u.input_count
            sigs == [i \in 1..n |-> Signature(key, PreparedTx(u, i - 1))]
<1>1. n \in Nat
  BY DEF UserTransaction
<1>2. ASSUME NEW i \in 1..n
      PROVE  Signature(key, PreparedTx(u, i - 1)) \in SignatureData
  BY <1>1, PreparedTxType, SignatureType
<1>3. sigs \in Seq(SignatureData) /\ Len(sigs) = n
  <2>1. sigs \in [1..n -> SignatureData]
    BY <1>2
  <2>. HIDE DEF sigs
  <2>. QED  BY <1>1, <2>1, FunctionIsSeq
<1>4. SignTx(u, key) = [u EXCEPT !.public_key = key, !.sig_data = sigs]
  BY DEF SignTx
<1>. HIDE DEF sigs
<1>. QED  BY <1>3, <1>4 DEF UserTransaction, OrderOf

\* make_sign_tx writes unlocking scripts and nothing else.
LEMMA MakeSignTxShape ==
  ASSUME NEW u \in UserTransaction, NEW coin
  PROVE  LET v == MakeSignTx(u)
         IN  /\ v \in UserTransaction
             /\ OrderOf(coin, v) = OrderOf(coin, u)
             /\ v.input_count = u.input_count
             /\ Skeleton(v.tx_str) = Skeleton(u.tx_str)
<1>. DEFINE Scripts == {NoScript} \cup UnlockScripts
            tx == u.tx_str
            n == Len(tx.inputs)
            ins == [i \in DOMAIN tx.inputs |-> [prev |-> tx.inputs[i].prev,
                                               script |-> FilledScript(u, i)]]
            w == [inputs |-> ins, outputs |-> tx.outputs]
<1>1. /\ tx.inputs \in Seq(TxInput(Scripts)) /\ tx.outputs \in Seq(TxOutput)
      /\ u.sig_data \in Seq(SignatureData) /\ u.input_count \in Nat
      /\ u.public_key \in Hashes \cup {NoKey}
  BY DEF UserTransaction, Transaction
<1>2. n \in Nat /\ DOMAIN tx.inputs = 1..n
  BY <1>1
<1>. HIDE DEF Scripts
<1>3. ASSUME NEW i \in 1..n
      PROVE  /\ tx.inputs[i].prev \in Outpoints
             /\ FilledScript(u, i) \in Scripts
  <2>1. tx.inputs[i] \in TxInput(Scripts)
    BY <1>1, <1>3
  <2>2. tx.inputs[i].prev \in Outpoints /\ tx.inputs[i].script \in Scripts
    BY <2>1 DEF TxInput
  <2>3. Garbage \in Scripts
    BY DEF Scripts, UnlockScripts
  <2>4. i <= Len(u.sig_data) => Unlock(u.public_key, u.sig_data[i]) \in Scripts
    <3>1. i <= Len(u.sig_data) => u.sig_data[i] \in SignatureData
      BY <1>1, <1>2
    <3>. QED  BY <1>1, <3>1 DEF Scripts, UnlockScripts, Unlock
  <2>5. i <= Len(u.sig_data) <=> ~(i > Len(u.sig_data))
    BY <1>1, <1>2
  <2>. QED  BY <2>2, <2>3, <2>4, <2>5 DEF FilledScript
<1>4. ins \in Seq(TxInput(Scripts)) /\ DOMAIN ins = 1..n
  <2>1. ins \in [1..n -> TxInput(Scripts)]
    BY <1>2, <1>3 DEF TxInput
  <2>. HIDE DEF ins
  <2>. QED  BY <1>2, <2>1, FunctionIsSeq
<1>5. w \in Transaction
  BY <1>1, <1>4 DEF Transaction, Scripts
<1>6. Skeleton(w) = Skeleton(tx)
  BY <1>2 DEF Skeleton
<1>7. MakeSignTx(u) = [u EXCEPT !.tx_str = w]
  BY DEF MakeSignTx
<1>. HIDE DEF w
<1>. QED  BY <1>5, <1>6, <1>7 DEF UserTransaction, OrderOf

\* Only a transaction string with outputs has a skeleton with outputs.
LEMMA SkeletonOfNoTx == Skeleton(NoTx) = NoTx
BY DEF Skeleton, NoTx

\* Unlocking scripts have no part in what a transaction owes to the order.
LEMMA HonoursSkeleton ==
  ASSUME NEW coin, NEW u, NEW tx \in Transaction, Honours(coin, u, Skeleton(tx))
  PROVE  Honours(coin, u, tx)
<1>. DEFINE sk == Skeleton(tx)
<1>1. tx.inputs \in Seq(TxInput({NoScript} \cup UnlockScripts))
  BY DEF Transaction
<1>2. sk.outputs = tx.outputs
  BY DEF Skeleton
<1>3. DOMAIN sk.inputs = DOMAIN tx.inputs /\ Len(sk.inputs) = Len(tx.inputs)
  BY <1>1, LenProperties DEF Skeleton
<1>4. \A i \in 1..Len(tx.inputs) : sk.inputs[i].prev = tx.inputs[i].prev
  BY <1>1, LenProperties DEF Skeleton
<1>. HIDE DEF sk
<1>5. SpendsFirstCoins(coin, u, sk) => SpendsFirstCoins(coin, u, tx)
  BY <1>3, <1>4 DEF SpendsFirstCoins
<1>6. /\ PaysPayee(coin, u, sk) => PaysPayee(coin, u, tx)
      /\ OnlyChangeBesides(coin, u, sk) => OnlyChangeBesides(coin, u, tx)
  BY <1>2 DEF PaysPayee, OnlyChangeBesides
<1>7. FeePaid(sk, u) = FeePaid(tx, u)
  BY <1>2, <1>3 DEF FeePaid, OutputTotal
<1>8. PaysFee(coin, u, sk) => PaysFee(coin, u, tx)
  BY <1>7 DEF PaysFee
<1>9. Honours(coin, u, sk)
  BY DEF sk
<1>. QED  BY <1>5, <1>6, <1>8, <1>9 DEF Honours

(***************************************************************************)
(* Complete transactions.                                                  *)
(***************************************************************************)
LEMMA SkeletonLen ==
  ASSUME NEW tx \in Transaction
  PROVE  Len(Skeleton(tx).inputs) = Len(tx.inputs)
<1>1. tx.inputs \in Seq(TxInput({NoScript} \cup UnlockScripts))
  BY DEF Transaction
<1>. QED  BY <1>1, LenProperties DEF Skeleton

\* make_sign_tx completes a transaction that there are signatures for, one for each
\* input and in the order of the inputs.
LEMMA FilledCompletes ==
  ASSUME NEW u \in UserTransaction, NEW n, n = Len(u.tx_str.inputs), u.input_count = n,
         \A i \in 1..n :
           /\ u.utxo_list[i].script = Lock("p2pkh", u.public_key)
           /\ i <= Len(u.sig_data)
           /\ u.sig_data[i] = Signature(u.public_key, SignedMessage(u.tx_str, u, i - 1))
  PROVE  Complete(MakeSignTx(u).tx_str, MakeSignTx(u))
<1>. DEFINE v == MakeSignTx(u)
            key == u.public_key
<1>1. n \in Nat /\ DOMAIN u.tx_str.inputs = 1..n /\ Len(u.sig_data) \in Nat
  BY DEF UserTransaction, Transaction
<1>2. /\ DOMAIN v.tx_str.inputs = 1..n /\ v.utxo_list = u.utxo_list
      /\ \A i \in 1..n : v.tx_str.inputs[i].script = FilledScript(u, i)
  BY <1>1 DEF MakeSignTx, UserTransaction
<1>3. Skeleton(v.tx_str) = Skeleton(u.tx_str) /\ v \in UserTransaction
  BY MakeSignTxShape
<1>4. Len(v.tx_str.inputs) = n
  <2>1. v.tx_str.inputs \in Seq(TxInput({NoScript} \cup UnlockScripts))
    BY <1>3 DEF UserTransaction, Transaction
  <2>. QED  BY <1>1, <1>2, <2>1, LenProperties
<1>. HIDE DEF v
<1>5. ASSUME NEW i \in 0..(n - 1)  PROVE Unlocks(v.tx_str, v, i)
  <2>1. i + 1 \in 1..n /\ (i + 1) - 1 = i
    BY <1>1
  <2>2. v.utxo_list[i + 1].script = Lock("p2pkh", key)
    BY <1>2, <2>1
  <2>3. FilledScript(u, i + 1) = Unlock(key, u.sig_data[i + 1])
    BY <1>1, <2>1 DEF FilledScript
  <2>4. SignedMessage(v.tx_str, v, i) = SignedMessage(u.tx_str, u, i)
    BY <1>2, <1>3 DEF SignedMessage
  <2>5. u.sig_data[i + 1] = Signature(key, SignedMessage(u.tx_str, u, i))
    BY <2>1
  <2>6. v.tx_str.inputs[i + 1].script = FilledScript(u, i + 1)
    BY <1>2, <2>1
  <2>7. Lock("p2pkh", key).type = "p2pkh" /\ Lock("p2pkh", key).hash = key
    BY DEF Lock
  <2>. QED  BY <2>2, <2>3, <2>4, <2>5, <2>6, <2>7 DEF Unlocks
<1>. QED  BY <1>4, <1>5 DEF Complete, v

\* What is signed for an input of a fresh transaction that a key has locked is what the
\* network looks at.
LEMMA PreparedIsSigned ==
  ASSUME NEW u, InputFields(u), NEW coin \in Coins, MakeUnsignRet(coin, u) = 0,
         u.tx_str = UnsignedTx(coin, u), NEW i, NEW key,
         u.utxo_list[i + 1].script = Lock("p2pkh", key)
  PROVE  PreparedTx(u, i) = SignedMessage(u.tx_str, u, i)
<1>1. Skeleton(u.tx_str) = u.tx_str
  BY UnsignedTxType
<1>2. EncodeScript(u.utxo_list[i + 1].script) = u.utxo_list[i + 1].script
  BY DEF EncodeScript, Lock
<1>. QED  BY <1>1, <1>2 DEF PreparedTx, SignedMessage

\* sign_tx and make_sign_tx complete a fresh transaction of outputs the key has locked.
LEMMA SignTxCompletes ==
  ASSUME NEW u \in UserTransaction, InputFields(u), NEW coin \in Coins,
         MakeUnsignRet(coin, u) = 0, u.tx_str = UnsignedTx(coin, u),
         u.input_count = InputCount(coin, u), NEW key \in Hashes,
         \A i \in 1..Len(u.utxo_list) : u.utxo_list[i].script = Lock("p2pkh", key)
  PROVE  LET v == MakeSignTx(SignTx(u, key)) IN Complete(v.tx_str, v)
<1>. DEFINE v == SignTx(u, key)
            n == InputCount(coin, u)
<1>1. n \in 0..Len(u.utxo_list) /\ Len(u.utxo_list) \in Nat
  BY InputCountType DEF InputFields
<1>2. Len(u.tx_str.inputs) = n
  BY UnsignedTxType
<1>3. v \in UserTransaction /\ v.tx_str = u.tx_str /\ v.input_count = n /\ Len(v.sig_data) = n
  BY SignTxShape
<1>4. /\ v.public_key = key /\ v.utxo_list = u.utxo_list
      /\ \A i \in 1..n : v.sig_data[i] = Signature(key, PreparedTx(u, i - 1))
  BY DEF SignTx, UserTransaction
<1>. HIDE DEF v, n
<1>5. ASSUME NEW i \in 1..n
      PROVE  /\ v.utxo_list[i].script = Lock("p2pkh", v.public_key)
             /\ i <= Len(v.sig_data)
             /\ v.sig_data[i] = Signature(v.public_key, SignedMessage(v.tx_str, v, i - 1))
  <2>1. i \in 1..Len(u.utxo_list) /\ (i - 1) + 1 = i /\ i <= n
    BY <1>1
  <2>2. u.utxo_list[(i - 1) + 1].script = Lock("p2pkh", key)
    BY <2>1
  <2>3. PreparedTx(u, i - 1) = SignedMessage(u.tx_str, u, i - 1)
    BY <2>2, PreparedIsSigned
  <2>4. SignedMessage(v.tx_str, v, i - 1) = SignedMessage(u.tx_str, u, i - 1)
    BY <1>3, <1>4 DEF SignedMessage
  <2>. QED  BY <1>3, <1>4, <2>1, <2>2, <2>3, <2>4
<1>. QED  BY <1>2, <1>3, <1>5, FilledCompletes DEF v

=============================================================================
