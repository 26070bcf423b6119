-------------------------- MODULE BtcWalletProofs ---------------------------
(***************************************************************************)
(* The payment flows of the test client, for all replies of the server,    *)
(* all amounts and payees, and all answers of the hardware wallet.         *)
(***************************************************************************)
EXTENDS BtcWallet, BtcTxLemmas

Early == {"balance", "utxo", "fee", "connect", "build"}
Loop == {"asked", "code", "verify"}

Built(u) ==
  /\ MakeUnsignRet(Coin, u) = 0
  /\ u.tx_str = UnsignedTx(Coin, u)
  /\ u.input_count = InputCount(Coin, u)

OwnedByWallet(u) ==
  \A i \in 1..Len(u.utxo_list) : u.utxo_list[i].script = Lock("p2pkh", WalletKey)

\* The answers the loop has had are for the inputs before index.
SignedSoFar ==
  /\ Len(ut.sig_data) = index
  /\ \A k \in 1..index : ut.sig_data[k] = Signature(WalletKey, PreparedTx(ut, k - 1))
  /\ index > 0 => /\ ut.public_key = WalletKey /\ ut.tx_str # NoTx
                  /\ index <= ut.input_count

Printed ==
  /\ MakeUnsignRet(Coin, ut) = 0
  /\ Skeleton(ut.tx_str) = UnsignedTx(Coin, ut)
  /\ OwnedByWallet(ut) => Complete(ut.tx_str, ut)

\* The fields of the flow, the list of the server and the order.
FlowType ==
  /\ pc \in Early \cup {"sign"} \cup Loop \cup Final
  /\ flow \in Flows /\ amount \in Amounts /\ index \in Nat /\ device \in Message
  /\ ut \in UserTransaction
  /\ ut.utxo_list \in UtxoLists \cup {<<>>}
  /\ ut.to_address \in Payees /\ ut.change_address = WalletAddress

WalletInv ==
  /\ FlowType
  /\ pc \in Early => index = 0 /\ ut.sig_data = <<>> /\ ut.tx_str = NoTx
  /\ pc \in {"balance", "utxo"} => ut.utxo_list = <<>>
  /\ pc \in {"connect", "build", "sign", "printed"} \cup Loop => ut.pay = amount
  /\ ut.tx_str # NoTx /\ pc # "printed" => Built(ut)
  /\ pc = "sign" /\ flow # "firmware" => ut.tx_str # NoTx
  /\ pc \in Loop => /\ flow = "firmware" /\ ut.tx_str # NoTx
                    /\ index < ut.input_count /\ device = PreparedTx(ut, index)
  /\ flow = "firmware" /\ pc \notin {"printed", "crashed"} => SignedSoFar
  /\ pc = "printed" => Printed

\* The list of the server is one the builder can work with.
LEMMA FlowFields ==
  ASSUME FlowType
  PROVE  InputFields(ut) /\ Coin \in Coins /\ Supplied(ut.utxo_list)
<1>1. Supplied(<<>>)
  <2>1. ValueSum(<<>>, 0) = 0
    <3>. DEFINE zero == [k \in 0..0 |-> 0]
                Is(f) == f = [k \in 0..0 |-> IF k = 0 THEN 0 ELSE f[k - 1] + <<>>[k].value]
    <3>1. Is(zero)
      OBVIOUS
    <3>2. \A f : Is(f) => f[0] = 0
      OBVIOUS
    <3>3. ValueSum(<<>>, 0) = (CHOOSE f : Is(f))[0]
      BY DEF ValueSum
    <3>. HIDE DEF Is, zero
    <3>. QED  BY <3>1, <3>2, <3>3
  <2>2. 0..Len(<<>>) = {0} /\ 0 \in 0..(U64 - 1)
    BY U64Assumption
  <2>. QED  BY <2>1, <2>2 DEF Supplied
<1>2. Supplied(ut.utxo_list)
  BY <1>1, AmountsAssumption DEF FlowType
<1>. QED  BY <1>2 DEF FlowType, InputFields, UserTransaction, Coin, Coins

\* The length get_tx_len returns is a number or one of the codes of make_unsign_tx.
LEMMA GetTxLenType ==
  ASSUME NEW u \in UserTransaction, Supplied(u.utxo_list), NEW coin \in Coins
  PROVE  ToU256(GetTxLen(coin, u)) \in Nat
<1>. DEFINE s == Sample(u)
            tx == UnsignedTx(coin, s)
<1>1. InputFields(s)
  <2>1. SampleAddress \in Address
    BY WalletAssumption DEF SampleAddress, Address, AddressKinds
  <2>. HIDE DEF SampleAddress
  <2>. QED  BY <2>1 DEF Sample, InputFields, UserTransaction
<1>2. MakeUnsignRet(coin, s) \in {0, -1, -2, -99}
  BY DEF MakeUnsignRet, Refusal, Insufficient, Unsupported, Thrown
<1>. HIDE DEF s
<1>3. Len(tx.inputs) \in Nat
  BY <1>1, UnsignedInputsShape, InputCountType DEF InputFields
<1>. HIDE DEF tx
<1>4. \A script : ScriptLen(script) \in Nat
  BY DEF ScriptLen, SignatureLen
<1>5. \A i : OutputLen(tx.outputs, i) \in Nat
  BY <1>4 DEF OutputLen
<1>6. TxLen(tx) \in Nat
  <2>1. \A a, b, c, d, e \in Nat :
          4 + 1 + a * (32 + 4 + 1 + b + 4) + 1 + c + d + e + 4 \in Nat
    OBVIOUS
  <2>. QED  BY <1>3, <1>4, <1>5, <2>1 DEF TxLen
<1>7. GetTxLen(coin, u) \in {-1, -2, -99} \/ GetTxLen(coin, u) \in Nat
  BY <1>2, <1>6 DEF GetTxLen, s, tx
<1>. QED  BY <1>7, WalletAssumption, U64Assumption DEF ToU256

LEMMA WalletInit == Init => WalletInv
<1>. SUFFICES ASSUME Init PROVE WalletInv
  OBVIOUS
<1>1. NoTx \in Transaction /\ NoTx \in Message
  BY EmptySeq DEF NoTx, Transaction, Message
<1>2. <<>> \in Seq(SignatureData) /\ <<>> \in Seq(Utxo)
  BY EmptySeq
<1>3. PICK to \in Payees :
        ut = [to_address |-> to, change_address |-> WalletAddress,
              pay |-> IF flow \in {"usdt", "sp"} THEN amount ELSE 0,
              fee_count |-> 0, fee_price |-> 0, utxo_list |-> <<>>,
              input_count |-> 0, public_key |-> NoKey, sig_data |-> <<>>,
              tx_str |-> NoTx]
  BY DEF Init
<1>4. amount \in 0..(U64 - 1) /\ 0 \in 0..(U64 - 1)
  BY AmountsAssumption, U64Assumption DEF Init
<1>5. WalletAddress \in Address /\ to \in Address
  BY WalletAssumption, InputsAssumption DEF WalletAddress, Address, AddressKinds
<1>6. ut \in UserTransaction
  BY <1>1, <1>2, <1>3, <1>4, <1>5 DEF UserTransaction
<1>7. /\ ut.utxo_list = <<>> /\ ut.sig_data = <<>> /\ ut.tx_str = NoTx
      /\ ut.to_address = to /\ ut.change_address = WalletAddress
  BY <1>3
<1>8. pc = "balance" /\ flow \in Flows /\ amount \in Amounts /\ index = 0 /\ device = NoTx
  BY DEF Init
<1>9. Len(<<>>) = 0
  OBVIOUS
<1>. QED
  BY <1>1, <1>6, <1>7, <1>8, <1>9
     DEF WalletInv, FlowType, Early, Loop, Final, SignedSoFar

\* Steps that go on or end without a change of the order.
LEMMA WalletMoves ==
  ASSUME WalletInv, UNCHANGED <<flow, amount, ut, index>>,
         \/ pc \in Early /\ pc' \in Early \cup {"returned"}
         \/ pc \in Loop /\ pc' \in Loop \cup {"returned"}
         \/ pc = "sign" /\ pc' = "crashed",
         pc' = "build" => pc = "connect",
         pc' = "connect" => FALSE,
         pc' \in {"balance", "utxo"} => pc \in {"balance", "utxo"},
         device' = device \/ (device' = NoTx /\ pc' = "returned")
  PROVE  WalletInv'
<1>1. NoTx \in Message
  BY EmptySeq DEF NoTx, Message
<1>2. FlowType'
  BY <1>1 DEF WalletInv, FlowType, Early, Loop, Final
<1>3. /\ Built(ut)' = Built(ut) /\ SignedSoFar' = SignedSoFar
      /\ pc' # "printed" /\ pc # "printed"
  BY DEF Built, SignedSoFar, Coin, Early, Loop
<1>. QED  BY <1>2, <1>3 DEF WalletInv, Early, Loop

LEMMA GetUTXOInv == ASSUME WalletInv, NEW list \in UtxoLists, GetUTXO(list) PROVE WalletInv'
<1>1. list \in Seq(Utxo) /\ <<>> \o list = list
  BY InputsAssumption
<1>2. /\ pc = "utxo" /\ pc' \in {"returned", "fee"}
      /\ ut' = [ut EXCEPT !.utxo_list = ut.utxo_list \o list]
      /\ UNCHANGED <<flow, amount, index, device>>
  BY DEF GetUTXO, Go
<1>3. /\ ut' = [ut EXCEPT !.utxo_list = list] /\ ut \in UserTransaction
      /\ index = 0 /\ ut.sig_data = <<>> /\ ut.tx_str = NoTx
  BY <1>1, <1>2 DEF WalletInv, FlowType, Early
<1>4. /\ ut' \in UserTransaction /\ ut'.utxo_list = list
      /\ ut'.sig_data = <<>> /\ ut'.tx_str = NoTx
      /\ ut'.to_address = ut.to_address /\ ut'.change_address = ut.change_address
  BY <1>1, <1>3 DEF UserTransaction
<1>5. FlowType'
  BY <1>2, <1>4 DEF WalletInv, FlowType, Early, Final
<1>6. Len(<<>>) = 0
  OBVIOUS
<1>. QED  BY <1>2, <1>3, <1>4, <1>5, <1>6 DEF WalletInv, Early, Loop, SignedSoFar

LEMMA FetchFeeInv == ASSUME WalletInv, NEW price \in Prices, FetchFee(price) PROVE WalletInv'
<1>. DEFINE u == [ut EXCEPT !.pay = amount]
            count == ToU256(GetTxLen(Coin, u))
<1>1. /\ pc = "fee" /\ pc' \in {"connect", "build"}
      /\ ut' = [u EXCEPT !.fee_count = count, !.fee_price = price]
      /\ UNCHANGED <<flow, amount, index, device>>
  BY DEF FetchFee, Go
<1>2. FlowType /\ InputFields(ut) /\ Coin \in Coins /\ Supplied(ut.utxo_list)
  BY FlowFields DEF WalletInv
<1>3. u \in UserTransaction /\ u.utxo_list = ut.utxo_list /\ u.pay = amount
  BY <1>2, AmountsAssumption DEF FlowType, UserTransaction
<1>4. count \in Nat
  BY <1>2, <1>3, GetTxLenType
<1>5. price \in Nat
  BY PricesAssumption
<1>6. index = 0 /\ ut.sig_data = <<>> /\ ut.tx_str = NoTx
  BY <1>1 DEF WalletInv, Early
<1>7. /\ u.sig_data = ut.sig_data /\ u.tx_str = ut.tx_str
      /\ u.to_address = ut.to_address /\ u.change_address = ut.change_address
  BY <1>2 DEF FlowType, UserTransaction
<1>. HIDE DEF u, count
<1>8. /\ ut' \in UserTransaction /\ ut'.utxo_list = ut.utxo_list /\ ut'.pay = amount
      /\ ut'.sig_data = <<>> /\ ut'.tx_str = NoTx
      /\ ut'.to_address = ut.to_address /\ ut'.change_address = ut.change_address
  BY <1>1, <1>3, <1>4, <1>5, <1>6, <1>7 DEF UserTransaction
<1>9. FlowType'
  BY <1>1, <1>2, <1>8 DEF FlowType, Early
<1>10. Len(<<>>) = 0
  OBVIOUS
<1>. QED  BY <1>1, <1>6, <1>8, <1>9, <1>10 DEF WalletInv, Early, Loop, SignedSoFar

LEMMA BuildInv == ASSUME WalletInv, Build PROVE WalletInv'
<1>. DEFINE ret == MakeUnsignRet(Coin, ut)
<1>1. /\ pc = "build" /\ ut' = MakeUnsignTx(Coin, ut)
      /\ UNCHANGED <<flow, amount, index, device>>
      /\ pc' \in {"sign", "crashed", "returned"}
      /\ pc' = "sign" => flow = "firmware" \/ ret = 0
      /\ pc' \in {"crashed", "returned"} => flow # "firmware"
  BY DEF Build, Go
<1>2. FlowType /\ InputFields(ut) /\ Coin \in Coins /\ ut \in UserTransaction
  BY FlowFields DEF WalletInv, FlowType
<1>3. index = 0 /\ ut.sig_data = <<>> /\ ut.tx_str = NoTx /\ ut.pay = amount
  BY <1>1 DEF WalletInv, Early
<1>4. /\ ut' \in UserTransaction
      /\ OrderOf(Coin, ut') = OrderOf(Coin, ut)
      /\ ut'.input_count = InputCount(Coin, ut)
      /\ ut'.sig_data = <<>>
      /\ ut'.tx_str = IF ret = 0 THEN UnsignedTx(Coin, ut) ELSE NoTx
  BY <1>1, <1>2, <1>3, MakeUnsignTxShape
<1>5. /\ ut'.pay = amount /\ ut'.utxo_list = ut.utxo_list
      /\ ut'.to_address = ut.to_address /\ ut'.change_address = ut.change_address
  BY <1>3, <1>4 DEF OrderOf
<1>6. Coin' = Coin
  BY <1>1 DEF Coin
<1>7. ut'.tx_str # NoTx => Built(ut)'
  BY <1>4, <1>6, SameOrder DEF Built
<1>8. ret = 0 => ut'.tx_str # NoTx
  BY <1>2, <1>4, UnsignedTxType
<1>. HIDE DEF ret
<1>9. FlowType'
  BY <1>1, <1>2, <1>4, <1>5 DEF FlowType, Final
<1>10. Len(<<>>) = 0
  OBVIOUS
<1>. QED
  BY <1>1, <1>3, <1>4, <1>5, <1>7, <1>8, <1>9, <1>10
     DEF WalletInv, Early, Loop, SignedSoFar

\* A transaction that is signed for every input is what is printed.
LEMMA PrintedInv ==
  ASSUME WalletInv, pc = "sign", pc' = "printed", NEW u \in UserTransaction,
         Built(u), OrderOf(Coin, u) = OrderOf(Coin, ut), ut' = MakeSignTx(u),
         OwnedByWallet(u) => Complete(ut'.tx_str, ut'),
         UNCHANGED <<flow, amount, index, device>>
  PROVE  WalletInv'
<1>1. FlowType /\ InputFields(ut) /\ Coin \in Coins /\ ut.pay = amount
  BY FlowFields DEF WalletInv
<1>2. /\ ut' \in UserTransaction
      /\ OrderOf(Coin, ut') = OrderOf(Coin, u)
      /\ Skeleton(ut'.tx_str) = Skeleton(u.tx_str)
  BY MakeSignTxShape
<1>3. InputFields(u)
  BY <1>1, SameOrder
<1>4. Skeleton(u.tx_str) = UnsignedTx(Coin, u)
  BY <1>1, <1>3, UnsignedTxType DEF Built
<1>5. /\ MakeUnsignRet(Coin, ut') = 0 /\ UnsignedTx(Coin, ut') = UnsignedTx(Coin, u)
      /\ ut'.utxo_list = u.utxo_list
  BY <1>2, SameOrder DEF Built
<1>6. Coin' = Coin
  BY DEF Coin
<1>7. Printed'
  BY <1>2, <1>4, <1>5, <1>6 DEF Printed, OwnedByWallet
<1>8. /\ ut'.pay = ut.pay /\ ut'.utxo_list = ut.utxo_list
      /\ ut'.to_address = ut.to_address /\ ut'.change_address = ut.change_address
  BY <1>2 DEF OrderOf
<1>9. FlowType'
  BY <1>1, <1>2, <1>8 DEF FlowType, Final
<1>. QED  BY <1>1, <1>7, <1>8, <1>9 DEF WalletInv, Early, Loop

LEMMA SoftSignInv == ASSUME WalletInv, SoftSign PROVE WalletInv'
<1>. DEFINE u == SignTx(ut, WalletKey)
<1>1. /\ pc = "sign" /\ pc' = "printed" /\ flow # "firmware" /\ ut' = MakeSignTx(u)
      /\ UNCHANGED <<flow, amount, index, device>>
  BY DEF SoftSign, Go
<1>2. FlowType /\ InputFields(ut) /\ Coin \in Coins /\ ut \in UserTransaction
  BY FlowFields DEF WalletInv, FlowType
<1>3. Built(ut)
  BY <1>1 DEF WalletInv
<1>4. /\ u \in UserTransaction
      /\ OrderOf(Coin, u) = OrderOf(Coin, ut)
      /\ u.input_count = ut.input_count
      /\ u.tx_str = ut.tx_str
  BY <1>2, <1>3, SignTxShape, WalletAssumption DEF Built
<1>5. OwnedByWallet(ut) => Complete(MakeSignTx(u).tx_str, MakeSignTx(u))
  BY <1>2, <1>3, SignTxCompletes, WalletAssumption DEF Built, OwnedByWallet
<1>. HIDE DEF u
<1>6. Built(u)
  BY <1>3, <1>4, SameOrder DEF Built
<1>7. u.utxo_list = ut.utxo_list
  BY <1>4, SameOrder
<1>. QED  BY <1>1, <1>4, <1>5, <1>6, <1>7, PrintedInv DEF OwnedByWallet

\* The loop's signatures are what make_sign_tx needs.
LEMMA LoopSigned ==
  ASSUME WalletInv, flow = "firmware", pc \notin {"printed", "crashed"}, OwnedByWallet(ut),
         NEW k \in 1..index
  PROVE  /\ ut.utxo_list[k].script = Lock("p2pkh", WalletKey)
         /\ ut.sig_data[k] = Signature(WalletKey, SignedMessage(ut.tx_str, ut, k - 1))
<1>1. SignedSoFar /\ index \in Nat
  BY DEF WalletInv, FlowType
<1>2. ut.tx_str # NoTx /\ index <= ut.input_count /\ Built(ut)
  BY <1>1 DEF SignedSoFar, WalletInv
<1>3. InputFields(ut) /\ Coin \in Coins
  BY FlowFields DEF WalletInv
<1>4. ut.input_count \in 0..Len(ut.utxo_list) /\ Len(ut.utxo_list) \in Nat
  BY <1>2, <1>3, InputCountType DEF Built, InputFields
<1>5. k \in 1..Len(ut.utxo_list) /\ (k - 1) + 1 = k
  BY <1>1, <1>2, <1>4
<1>6. ut.utxo_list[(k - 1) + 1].script = Lock("p2pkh", WalletKey)
  BY <1>5 DEF OwnedByWallet
<1>7. PreparedTx(ut, k - 1) = SignedMessage(ut.tx_str, ut, k - 1)
  BY <1>2, <1>3, <1>6, PreparedIsSigned DEF Built
<1>. QED  BY <1>1, <1>5, <1>6, <1>7 DEF SignedSoFar

LEMMA FinishInv == ASSUME WalletInv, Finish PROVE WalletInv'
<1>1. /\ pc = "sign" /\ flow = "firmware" /\ index >= ut.input_count
      /\ UNCHANGED <<flow, amount, index, device>>
  BY DEF Finish, Go
<1>2. CASE ut.tx_str = NoTx
  <2>1. pc' = "crashed" /\ ut' = ut
    BY <1>2 DEF Finish, Go
  <2>. QED  BY <1>1, <2>1, WalletMoves
<1>3. CASE ut.tx_str # NoTx
  <2>1. pc' = "printed" /\ ut' = MakeSignTx(ut)
    BY <1>3 DEF Finish, Go
  <2>2. Built(ut) /\ SignedSoFar /\ ut \in UserTransaction /\ index \in Nat
    BY <1>1, <1>3 DEF WalletInv, FlowType
  <2>3. InputFields(ut) /\ Coin \in Coins
    BY FlowFields DEF WalletInv
  <2>4. Len(ut.tx_str.inputs) = ut.input_count /\ ut.input_count \in Nat
    BY <2>2, <2>3, UnsignedTxType DEF Built, UserTransaction
  <2>5. ASSUME OwnedByWallet(ut)  PROVE Complete(ut'.tx_str, ut')
    <3>1. ASSUME NEW i \in 1..ut.input_count
          PROVE  /\ ut.utxo_list[i].script = Lock("p2pkh", ut.public_key)
                 /\ i <= Len(ut.sig_data)
                 /\ ut.sig_data[i] =
                      Signature(ut.public_key, SignedMessage(ut.tx_str, ut, i - 1))
      <4>1. i \in 1..index /\ i <= index /\ index > 0
        BY <1>1, <2>2, <2>4
      <4>2. ut.public_key = WalletKey /\ Len(ut.sig_data) = index
        BY <2>2, <4>1 DEF SignedSoFar
      <4>. QED  BY <1>1, <2>5, <4>1, <4>2, LoopSigned
    <3>. QED  BY <2>1, <2>2, <2>4, <3>1, FilledCompletes
  <2>. QED  BY <1>1, <2>1, <2>2, <2>5, PrintedInv
<1>. QED  BY <1>2, <1>3

LEMMA AskInv == ASSUME WalletInv, Ask PROVE WalletInv'
<1>1. /\ pc = "sign" /\ flow = "firmware" /\ index < ut.input_count
      /\ UNCHANGED <<flow, amount, ut, index>>
  BY DEF Ask, Go
<1>2. CASE ~HasInput(ut, index)
  <2>1. pc' = "crashed" /\ device' = device
    BY <1>2 DEF Ask, Go
  <2>. QED  BY <1>1, <2>1, WalletMoves
<1>3. CASE HasInput(ut, index)
  <2>1. pc' = "asked" /\ device' = PreparedTx(ut, index)
    BY <1>3 DEF Ask, Go, FirmwareData
  <2>2. ut.tx_str # NoTx /\ Built(ut) /\ index \in Nat
    BY <1>1, <1>3 DEF HasInput, WalletInv, FlowType
  <2>3. InputFields(ut) /\ Coin \in Coins
    BY FlowFields DEF WalletInv
  <2>4. PreparedTx(ut, index) \in Message
    BY <1>1, <2>2, <2>3, PreparedTxType DEF Built
  <2>5. FlowType'
    BY <1>1, <2>1, <2>4 DEF WalletInv, FlowType, Loop
  <2>6. Built(ut)' = Built(ut) /\ SignedSoFar' = SignedSoFar
    BY <1>1 DEF Built, SignedSoFar, Coin
  <2>. QED  BY <1>1, <2>1, <2>2, <2>5, <2>6 DEF WalletInv, Early, Loop
<1>. QED  BY <1>2, <1>3

LEMMA AnswerInv == ASSUME WalletInv, Answer PROVE WalletInv'
<1>. DEFINE sig == Signature(WalletKey, PreparedTx(ut, index))
<1>1. /\ pc \in Loop /\ pc' = "sign" /\ index' = index + 1 /\ device' = NoTx
      /\ UNCHANGED <<flow, amount>>
      /\ ut' = [ut EXCEPT !.public_key = WalletKey,
                          !.sig_data = Append(ut.sig_data, Signature(WalletKey, device))]
  BY DEF Answer, Loop, FirmwareProcessResult
<1>2. /\ flow = "firmware" /\ ut.tx_str # NoTx /\ index < ut.input_count
      /\ device = PreparedTx(ut, index) /\ Built(ut) /\ SignedSoFar /\ FlowType
      /\ ut.pay = amount
  BY <1>1 DEF WalletInv, Loop
<1>3. sig \in SignatureData
  BY <1>2, SignatureType, WalletAssumption DEF FlowType
<1>4. ut' = [ut EXCEPT !.public_key = WalletKey, !.sig_data = Append(ut.sig_data, sig)]
  BY <1>1, <1>2
<1>. HIDE DEF sig
<1>5. Append(ut.sig_data, sig) \in Seq(SignatureData)
  BY <1>2, <1>3 DEF FlowType, UserTransaction
<1>6. /\ ut' \in UserTransaction /\ OrderOf(Coin, ut') = OrderOf(Coin, ut)
      /\ ut'.sig_data = Append(ut.sig_data, sig) /\ ut'.public_key = WalletKey
      /\ ut'.tx_str = ut.tx_str /\ ut'.input_count = ut.input_count
      /\ ut'.utxo_list = ut.utxo_list /\ ut'.pay = ut.pay
      /\ ut'.to_address = ut.to_address /\ ut'.change_address = ut.change_address
  BY <1>2, <1>4, <1>5, WalletAssumption DEF FlowType, UserTransaction, OrderOf
<1>7. Coin' = Coin
  BY <1>1 DEF Coin
<1>8. Built(ut)'
  BY <1>2, <1>6, <1>7, SameOrder DEF Built
<1>9. NoTx \in Message
  BY EmptySeq DEF NoTx, Message
<1>10. FlowType'
  BY <1>1, <1>2, <1>6, <1>9 DEF FlowType
<1>11. \A i : PreparedTx(ut, i)' = PreparedTx(ut, i)
  BY <1>6 DEF PreparedTx
<1>12. SignedSoFar'
  <2>1. /\ index \in Nat /\ ut.input_count \in Nat /\ Len(ut.sig_data) = index
        /\ ut.sig_data \in Seq(SignatureData)
    BY <1>2 DEF FlowType, UserTransaction, SignedSoFar
  <2>2. /\ Len(ut'.sig_data) = index + 1
        /\ \A k \in 1..index : ut'.sig_data[k] = ut.sig_data[k]
        /\ ut'.sig_data[index + 1] = sig
    BY <1>3, <1>6, <2>1, AppendShape
  <2>3. ASSUME NEW k \in 1..(index + 1)
        PROVE  ut'.sig_data[k] = Signature(WalletKey, PreparedTx(ut', k - 1))
    <3>1. PreparedTx(ut', k - 1) = PreparedTx(ut, k - 1)
      BY <1>6 DEF PreparedTx
    <3>2. CASE k \in 1..index
      BY <1>2, <2>2, <3>1, <3>2 DEF SignedSoFar
    <3>3. CASE k = index + 1
      <4>1. k - 1 = index
        BY <2>1, <3>3
      <4>. QED  BY <2>2, <3>1, <3>3, <4>1 DEF sig
    <3>. QED  BY <2>1, <3>2, <3>3
  <2>. QED  BY <1>1, <1>2, <1>6, <2>1, <2>2, <2>3 DEF SignedSoFar
<1>. QED  BY <1>1, <1>2, <1>6, <1>8, <1>10, <1>12 DEF WalletInv, Early, Loop

LEMMA WalletNext == ASSUME WalletInv, [Next]_vars PROVE WalletInv'
<1>1. CASE Fails
  BY <1>1, WalletMoves DEF Fails, Early
<1>2. ASSUME NEW balance \in Balances, FetchBalance(balance)  PROVE WalletInv'
  BY <1>2, WalletMoves DEF FetchBalance, Go, Early
<1>3. CASE Connect
  BY <1>3, WalletMoves DEF Connect, Go, Early
<1>4. CASE AskCode \/ TypeCode
  BY <1>4, WalletMoves DEF AskCode, TypeCode, Go, Loop
<1>5. CASE Refuse
  BY <1>5, WalletMoves DEF Refuse, Loop
<1>6. CASE UNCHANGED vars
  <2>1. UNCHANGED <<pc, flow, amount, ut, index, device>>
    BY <1>6 DEF vars
  <2>. QED  BY <2>1 DEF WalletInv, FlowType, Built, SignedSoFar, Printed, OwnedByWallet, Coin
<1>. QED
  BY <1>1, <1>2, <1>3, <1>4, <1>5, <1>6, GetUTXOInv, FetchFeeInv, BuildInv, SoftSignInv,
     AskInv, AnswerInv, FinishInv DEF Next, Progress, Ended

LEMMA WalletHolds == Spec => []WalletInv
BY WalletInit, WalletNext, PTL DEF Spec

\* The fields of a flow keep their types, whatever the server and the hardware wallet
\* say: in particular the fee_count that a negative length turns into is a u256.
THEOREM WalletTypeOKHolds == Spec => []WalletTypeOK
<1>1. WalletInv => WalletTypeOK
  BY DEF WalletInv, FlowType, WalletTypeOK, Early, Loop, UserTransaction
<1>. QED  BY <1>1, WalletHolds, PTL

\* The server lists only outputs that the wallet's key has locked: it is asked for those
\* of the wallet's address.
OwnLists ==
  \A list \in UtxoLists : \A i \in 1..Len(list) : list[i].script = Lock("p2pkh", WalletKey)

\* The flows pay to keys; where they do not, a USDT transfer pays nobody.
PaysKeys == \A to \in Payees : KeyAddress(to)

LEMMA OwnedFlow == ASSUME OwnLists, FlowType PROVE OwnedByWallet(ut)
<1>1. CASE ut.utxo_list \in UtxoLists
  BY <1>1 DEF OwnLists, OwnedByWallet
<1>2. CASE ut.utxo_list = <<>>
  BY <1>2 DEF OwnedByWallet
<1>. QED  BY <1>1, <1>2 DEF FlowType

LEMMA PayableFollows == ASSUME OwnLists, PaysKeys, WalletInv PROVE PrintedIsPayable
<1>. SUFFICES ASSUME pc = "printed"
              PROVE  /\ ut.pay = amount
                     /\ Complete(ut.tx_str, ut)
                     /\ Honours(Coin, ut, ut.tx_str)
  BY DEF PrintedIsPayable
<1>1. Printed /\ ut.pay = amount /\ FlowType
  BY DEF WalletInv
<1>2. InputFields(ut) /\ Coin \in Coins /\ OwnedByWallet(ut)
  BY <1>1, FlowFields, OwnedFlow
<1>3. UsdtToKeys(Coin, ut)
  BY <1>1 DEF UsdtToKeys, KeyAddress, PaysKeys, FlowType, WalletAddress
<1>4. Honours(Coin, ut, Skeleton(ut.tx_str))
  BY <1>1, <1>2, <1>3, UnsignedTxHonours DEF Printed
<1>5. Honours(Coin, ut, ut.tx_str)
  BY <1>1, <1>4, HonoursSkeleton DEF FlowType, UserTransaction
<1>. QED  BY <1>1, <1>2, <1>5 DEF Printed

LEMMA LoopFollows == ASSUME OwnLists, WalletInv PROVE LoopSignsInOrder
<1>1. OwnedByWallet(ut)
  BY OwnedFlow DEF WalletInv
<1>. QED  BY <1>1, LoopSigned DEF LoopSignsInOrder, WalletInv, SignedSoFar

\* What is printed for broadcast is signed in every input and honours the order, through
\* all four flows.
THEOREM PrintedIsPayableHolds ==
  ASSUME OwnLists, PaysKeys  PROVE Spec => []PrintedIsPayable
<1>1. WalletInv => PrintedIsPayable
  BY PayableFollows
<1>. QED  BY <1>1, WalletHolds, PTL

\* The k-th signature of the signing loop is the wallet's for input k, with and without
\* codes in between.
THEOREM LoopSignsInOrderHolds ==
  ASSUME OwnLists  PROVE Spec => []LoopSignsInOrder
<1>1. WalletInv => LoopSignsInOrder
  BY LoopFollows
<1>. QED  BY <1>1, WalletHolds, PTL

=============================================================================
