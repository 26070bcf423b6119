---------------------------- MODULE TxBtcProofs -----------------------------
(***************************************************************************)
(* The transaction object keeps its types, its order and the one           *)
(* transaction of that order, for all orders and every sequence of calls.  *)
(***************************************************************************)
EXTENDS TxBtcProps, BtcTxLemmas

IInv == TypeOK /\ TransactionOfOrder

\* An open object holds the input fields of one of the orders.
LEMMA OpenHasOrder ==
  ASSUME IInv, handle = "open"
  PROVE  InputFields(ut) /\ Coin \in Coins /\ ut \in UserTransaction
<1>1. PICK r \in Requests : OrderOf(Coin, ut) = OrderOf(Coin, NewUserTransaction(r))
  BY DEF IInv, TransactionOfOrder
<1>2. r \in Request /\ Supplied(r.utxo_list)
  BY RequestsAssumption, SupplyAssumption
<1>3. InputFields(NewUserTransaction(r))
  BY <1>2 DEF InputFields, NewUserTransaction, Request
<1>4. InputFields(ut)
  BY <1>1, <1>3, SameOrder
<1>. QED  BY <1>4 DEF IInv, TypeOK, Coin, Coins

\* The UserTransaction createTx starts with, and the one in its place when there
\* is none.
LEMMA NewUserTransactionType ==
  /\ \A r \in Requests : NewUserTransaction(r) \in UserTransaction
  /\ NoUserTransaction \in UserTransaction
<1>1. NoTx \in Transaction
  BY EmptySeq DEF NoTx, Transaction
<1>2. <<>> \in Seq(SignatureData) /\ <<>> \in Seq(Utxo)
  BY EmptySeq
<1>3. \A r \in Request : NewUserTransaction(r) \in UserTransaction
  BY <1>1, <1>2 DEF NewUserTransaction, UserTransaction, Request
<1>4. NoUserTransaction \in UserTransaction
  BY <1>1, <1>2, WalletKeyAssumption, U64Assumption
     DEF NoUserTransaction, NewUserTransaction, UserTransaction, NoAddress,
         Address, AddressKinds
<1>. QED  BY <1>3, <1>4, RequestsAssumption

\* A step of the native object that keeps the order keeps the transaction of it,
\* if it leaves the transaction string as it was, or the order's own, or either
\* with other unlocking scripts.
LEMMA KeepsOrder ==
  ASSUME IInv, handle = "open", handle' = "open", isUsdt' = isUsdt,
         OrderOf(Coin, ut') = OrderOf(Coin, ut),
         ut'.tx_str # NoTx =>
           /\ MakeUnsignRet(Coin, ut) = 0
           /\ ut'.input_count = InputCount(Coin, ut)
           /\ Skeleton(ut'.tx_str) = UnsignedTx(Coin, ut)
  PROVE  TransactionOfOrder'
<1>1. Coin' = Coin
  BY DEF Coin
<1>2. PICK r \in Requests :
        /\ isUsdt = (r.coin = "USDT")
        /\ OrderOf(Coin, ut) = OrderOf(Coin, NewUserTransaction(r))
  BY DEF IInv, TransactionOfOrder
<1>3. /\ MakeUnsignRet(Coin, ut') = MakeUnsignRet(Coin, ut)
      /\ InputCount(Coin, ut') = InputCount(Coin, ut)
      /\ UnsignedTx(Coin, ut') = UnsignedTx(Coin, ut)
  BY SameOrder
<1>. HIDE DEF Coin
<1>. QED  BY <1>1, <1>2, <1>3 DEF TransactionOfOrder

\* What make_unsign_tx leaves behind on an open object.
LEMMA MakeUnsignKeeps ==
  ASSUME IInv, handle = "open"
  PROVE  LET v == MakeUnsignTx(Coin, ut)
         IN  /\ v \in UserTransaction
             /\ OrderOf(Coin, v) = OrderOf(Coin, ut)
             /\ v.input_count = InputCount(Coin, ut)
             /\ v.tx_str # NoTx => /\ MakeUnsignRet(Coin, ut) = 0
                                   /\ v.tx_str = UnsignedTx(Coin, ut)
                                   /\ Skeleton(v.tx_str) = UnsignedTx(Coin, ut)
<1>1. InputFields(ut) /\ Coin \in Coins /\ ut \in UserTransaction
  BY OpenHasOrder
<1>2. MakeUnsignRet(Coin, ut) # 0 => ut.tx_str = NoTx
  BY DEF IInv, TransactionOfOrder
<1>. QED  BY <1>1, <1>2, MakeUnsignTxShape, UnsignedTxType

\* What prepare hands out is typed.
LEMMA FirmwareDataType ==
  ASSUME IInv, handle = "open", NEW i \in Nat, MakeUnsignTx(Coin, ut).tx_str # NoTx
  PROVE  LET u == MakeUnsignTx(Coin, ut)
         IN  [index |-> i,
              data |-> IF HasInput(u, i) THEN FirmwareData(Coin, u, i)
                       ELSE [FirmwareData(Coin, u, 0) EXCEPT !.tx = u.tx_str]]
               \in PreparedData
<1>. DEFINE u == MakeUnsignTx(Coin, ut)
            plain == [FirmwareData(Coin, u, 0) EXCEPT !.tx = u.tx_str]
<1>1. InputFields(ut) /\ Coin \in Coins /\ ut \in UserTransaction
  BY OpenHasOrder
<1>2. /\ u \in UserTransaction
      /\ OrderOf(Coin, u) = OrderOf(Coin, ut)
      /\ MakeUnsignRet(Coin, ut) = 0
      /\ u.tx_str = UnsignedTx(Coin, ut)
  BY MakeUnsignKeeps
<1>3. /\ InputFields(u)
      /\ MakeUnsignRet(Coin, u) = 0
      /\ u.tx_str = UnsignedTx(Coin, u)
      /\ InputCount(Coin, u) = InputCount(Coin, ut)
  BY <1>1, <1>2, SameOrder
<1>4. /\ u.tx_str \in Message
      /\ Len(u.tx_str.inputs) = InputCount(Coin, u)
  BY <1>1, <1>3, UnsignedTxType
<1>. HIDE DEF u
<1>5. CASE HasInput(u, i)
  <2>1. PreparedTx(u, i) \in Message
    BY <1>1, <1>3, <1>4, <1>5, PreparedTxType DEF HasInput
  <2>. QED  BY <1>5, <2>1 DEF FirmwareData, PreparedData, u
<1>6. CASE ~HasInput(u, i)
  <2>1. plain = [pay_index |-> IF Coin = "USDT" THEN 1 ELSE 0,
                 change_index |-> IF Coin = "USDT" THEN 2 ELSE 1,
                 tx |-> u.tx_str]
    BY DEF FirmwareData
  <2>. HIDE DEF plain
  <2>2. plain \in [pay_index : {0, 1}, change_index : {1, 2}, tx : Message]
    BY <1>4, <2>1
  <2>. QED  BY <1>6, <2>2 DEF PreparedData, plain, u
<1>. QED  BY <1>5, <1>6

\* The inductive invariant holds initially and is kept by every call.
LEMMA InitInv == Init => IInv
<1>. SUFFICES ASSUME Init  PROVE IInv
  OBVIOUS
<1>1. handle = "null" /\ isUsdt = FALSE /\ ut = NoUserTransaction
  BY DEF Init
<1>2. prepareIndex = 0 /\ prepared = {} /\ answers = {} /\ creates = 0
  BY DEF Init
<1>. HIDE DEF NoUserTransaction
<1>3. TypeOK
  BY <1>1, <1>2, NewUserTransactionType DEF TypeOK
<1>4. TransactionOfOrder
  BY <1>1 DEF TransactionOfOrder
<1>. QED  BY <1>3, <1>4 DEF IInv

LEMMA NextInv == IInv /\ [Next]_vars => IInv'
<1>. SUFFICES ASSUME IInv, [Next]_vars  PROVE IInv'
  OBVIOUS
<1>. USE DEF IInv
<1>0. TypeOK
  OBVIOUS
<1>1. ASSUME NEW r \in Requests, CreateTx(r)  PROVE IInv'
  <2>1. TypeOK'
    BY <1>0, <1>1, NewUserTransactionType DEF CreateTx, TypeOK
  <2>2. TransactionOfOrder'
    BY <1>1 DEF CreateTx, TransactionOfOrder, NewUserTransaction
  <2>. QED  BY <2>1, <2>2
<1>2. CASE CreateTxFails
  BY <1>0, <1>2, NewUserTransactionType
     DEF CreateTxFails, TypeOK, TransactionOfOrder
<1>3. CASE UseBadHandle
  BY <1>0, <1>3, NewUserTransactionType
     DEF UseBadHandle, Abort, TypeOK, TransactionOfOrder
<1>4. ASSUME NEW i \in 0..(Len(ut.utxo_list) - 1), PrepareData(i)  PROVE IInv'
  <2>1. handle = "open" /\ i \in Nat
    BY <1>4 DEF PrepareData
  <2>2. CASE Abort /\ UNCHANGED prepared
    BY <1>0, <1>4, <2>1, <2>2, NewUserTransactionType
       DEF PrepareData, Abort, TypeOK, TransactionOfOrder
  <2>3. CASE ~(Abort /\ UNCHANGED prepared)
    <3>. DEFINE u == MakeUnsignTx(Coin, ut)
                p == [index |-> i,
                      data |-> IF HasInput(u, i) THEN FirmwareData(Coin, u, i)
                               ELSE [FirmwareData(Coin, u, 0) EXCEPT !.tx = u.tx_str]]
    <3>1. /\ u.tx_str # NoTx
          /\ ut' = u
          /\ prepared' = prepared \cup {p}
          /\ UNCHANGED <<handle, isUsdt, answers, creates>>
          /\ prepareIndex' = i
      BY <1>4, <2>3 DEF PrepareData
    <3>2. p \in PreparedData
      BY <2>1, <3>1, FirmwareDataType
    <3>3. u \in UserTransaction
      BY <2>1, MakeUnsignKeeps
    <3>4. TypeOK'
      <4>. HIDE DEF u, p
      <4>. QED  BY <1>0, <2>1, <3>1, <3>2, <3>3 DEF TypeOK
    <3>5. TransactionOfOrder'
      BY <2>1, <3>1, MakeUnsignKeeps, KeepsOrder
    <3>. QED  BY <3>4, <3>5
  <2>. QED  BY <2>2, <2>3
<1>5. ASSUME NEW p \in prepared, DeviceSigns(p)  PROVE IInv'
  <2>1. p \in PreparedData
    BY <1>0 DEF TypeOK
  <2>2. Signature(WalletKey, p.data.tx) \in SignatureData
    BY <2>1, SignatureType, WalletKeyAssumption DEF PreparedData
  <2>3. [index |-> p.index, key |-> WalletKey,
         sig |-> Signature(WalletKey, p.data.tx)] \in Answer
    BY <2>1, <2>2, WalletKeyAssumption DEF PreparedData, Answer
  <2>4. TypeOK'
    BY <1>0, <1>5, <2>3 DEF DeviceSigns, TypeOK
  <2>5. TransactionOfOrder'
    BY <1>5 DEF DeviceSigns, TransactionOfOrder, Coin
  <2>. QED  BY <2>4, <2>5
<1>6. ASSUME NEW a \in answers, ProcessResult(a)  PROVE IInv'
  <2>1. a \in Answer /\ ut \in UserTransaction /\ handle = "open"
    BY <1>0, <1>6 DEF TypeOK, ProcessResult
  <2>2. a.sig \in SignatureData /\ a.key \in Hashes
    BY <2>1 DEF Answer
  <2>3. Append(ut.sig_data, a.sig) \in Seq(SignatureData)
    BY <2>1, <2>2, AppendShape DEF UserTransaction
  <2>4. ut' = [ut EXCEPT !.public_key = a.key,
                         !.sig_data = Append(ut.sig_data, a.sig)]
    BY <1>6 DEF ProcessResult, FirmwareProcessResult
  <2>5. /\ ut' \in UserTransaction
        /\ OrderOf(Coin, ut') = OrderOf(Coin, ut)
        /\ ut'.tx_str = ut.tx_str /\ ut'.input_count = ut.input_count
    BY <2>1, <2>2, <2>3, <2>4 DEF UserTransaction, OrderOf
  <2>6. TypeOK'
    BY <1>0, <1>6, <2>5 DEF ProcessResult, TypeOK
  <2>7. /\ handle' = "open" /\ isUsdt' = isUsdt
    BY <1>6, <2>1 DEF ProcessResult
  <2>8. TransactionOfOrder'
    BY <2>1, <2>5, <2>7, KeepsOrder DEF TransactionOfOrder
  <2>. QED  BY <2>6, <2>8
<1>7. CASE MakeSignedTx
  <2>1. handle = "open"
    BY <1>7 DEF MakeSignedTx
  <2>2. CASE Abort
    BY <1>0, <1>7, <2>2, NewUserTransactionType
       DEF MakeSignedTx, Abort, TypeOK, TransactionOfOrder
  <2>3. CASE ut.tx_str # NoTx /\ ut' = MakeSignTx(ut) /\ UNCHANGED handle
    <3>1. /\ ut' \in UserTransaction
          /\ OrderOf(Coin, ut') = OrderOf(Coin, ut)
          /\ ut'.input_count = ut.input_count
          /\ Skeleton(ut'.tx_str) = Skeleton(ut.tx_str)
      BY <1>0, <2>3, MakeSignTxShape DEF TypeOK
    <3>2. TypeOK'
      BY <1>0, <1>7, <2>3, <3>1 DEF MakeSignedTx, TypeOK
    <3>3. handle' = "open" /\ isUsdt' = isUsdt
      BY <1>7, <2>1, <2>3 DEF MakeSignedTx
    <3>4. TransactionOfOrder'
      BY <2>1, <2>3, <3>1, <3>3, KeepsOrder DEF TransactionOfOrder
    <3>. QED  BY <3>2, <3>4
  <2>. QED  BY <1>7, <2>2, <2>3 DEF MakeSignedTx
<1>8. ASSUME NEW key \in Hashes, SignSucceeds(key)  PROVE IInv'
  <2>. DEFINE u == MakeUnsignTx(Coin, ut)
              v == SignTx(u, key)
  <2>1. /\ handle = "open" /\ handle' = "open" /\ isUsdt' = isUsdt
        /\ MakeUnsignRet(Coin, ut) = 0
        /\ ut' = MakeSignTx(v)
    BY <1>8 DEF SignSucceeds
  <2>2. InputFields(ut) /\ Coin \in Coins /\ ut \in UserTransaction
    BY <2>1, OpenHasOrder
  <2>3. /\ u \in UserTransaction
        /\ OrderOf(Coin, u) = OrderOf(Coin, ut)
        /\ u.input_count = InputCount(Coin, ut)
        /\ u.tx_str = UnsignedTx(Coin, ut)
    BY <2>1, <2>2, MakeUnsignTxShape
  <2>. HIDE DEF u
  <2>4. /\ InputFields(u)
        /\ MakeUnsignRet(Coin, u) = 0
        /\ u.tx_str = UnsignedTx(Coin, u)
        /\ u.input_count = InputCount(Coin, u)
    BY <2>1, <2>2, <2>3, SameOrder
  <2>5. /\ v \in UserTransaction
        /\ OrderOf(Coin, v) = OrderOf(Coin, u)
        /\ v.input_count = u.input_count
        /\ v.tx_str = u.tx_str
    BY <2>2, <2>3, <2>4, SignTxShape
  <2>. HIDE DEF v
  <2>6. /\ ut' \in UserTransaction
        /\ OrderOf(Coin, ut') = OrderOf(Coin, v)
        /\ ut'.input_count = v.input_count
        /\ Skeleton(ut'.tx_str) = Skeleton(v.tx_str)
    BY <2>1, <2>5, MakeSignTxShape
  <2>7. Skeleton(UnsignedTx(Coin, ut)) = UnsignedTx(Coin, ut)
    BY <2>1, <2>2, UnsignedTxType
  <2>8. TypeOK'
    BY <1>0, <1>8, <2>6 DEF SignSucceeds, TypeOK
  <2>9. TransactionOfOrder'
    BY <2>1, <2>3, <2>5, <2>6, <2>7, KeepsOrder
  <2>. QED  BY <2>8, <2>9
<1>9. CASE SignFails
  <2>1. handle = "open" /\ MakeUnsignRet(Coin, ut) # 0
    BY <1>9 DEF SignFails
  <2>2. CASE Abort
    BY <1>0, <1>9, <2>2, NewUserTransactionType
       DEF SignFails, Abort, TypeOK, TransactionOfOrder
  <2>3. CASE ut' = MakeUnsignTx(Coin, ut) /\ UNCHANGED handle
    <3>1. /\ ut' \in UserTransaction
          /\ OrderOf(Coin, ut') = OrderOf(Coin, ut)
          /\ ut'.tx_str = NoTx
      BY <2>1, <2>3, MakeUnsignKeeps
    <3>2. TypeOK'
      BY <1>0, <1>9, <2>3, <3>1 DEF SignFails, TypeOK
    <3>3. handle' = "open" /\ isUsdt' = isUsdt
      BY <1>9, <2>1, <2>3 DEF SignFails
    <3>4. TransactionOfOrder'
      BY <2>1, <3>1, <3>3, KeepsOrder
    <3>. QED  BY <3>2, <3>4
  <2>. QED  BY <1>9, <2>2, <2>3 DEF SignFails
<1>10. CASE Close
  BY <1>0, <1>10, NewUserTransactionType DEF Close, TypeOK, TransactionOfOrder
<1>11. CASE UNCHANGED vars
  BY <1>0, <1>11 DEF vars, TypeOK, TransactionOfOrder, Coin
<1>. QED
  BY <1>1, <1>2, <1>3, <1>4, <1>5, <1>6, <1>7, <1>8, <1>9, <1>10, <1>11 DEF Next

LEMMA SpecInv == Spec => []IInv
BY InitInv, NextInv, PTL DEF Spec

\* The fields of the object, and what goes to and comes from the hardware wallet,
\* keep their types whatever is called (TypeOK of TxBtcProps).
THEOREM TypeOKHolds == Spec => []TypeOK
<1>1. IInv => TypeOK
  BY DEF IInv
<1>. QED  BY <1>1, SpecInv, PTL

\* The transaction string is at all times the builder's for the order the object
\* was created with: no call, repeated or out of order, mixes two orders or leaves
\* a transaction for an order that was refused.
THEOREM TransactionOfOrderHolds == Spec => []TransactionOfOrder
<1>1. IInv => TransactionOfOrder
  BY DEF IInv
<1>. QED  BY <1>1, SpecInv, PTL

\* Every order a USDT transfer is part of pays, and returns its change, to keys:
\* where it does not, the code writes a script nobody can spend with (UsdtReachesPayee).
KeyPayees == \A r \in Requests : UsdtToKeys(r.coin, NewUserTransaction(r))

LEMMA InvHonours ==
  ASSUME KeyPayees, IInv  PROVE HonoursOrder
<1>. SUFFICES ASSUME handle = "open", ut.tx_str # NoTx
              PROVE  Honours(Coin, ut, ut.tx_str)
  BY DEF HonoursOrder
<1>1. InputFields(ut) /\ Coin \in Coins /\ ut \in UserTransaction
  BY OpenHasOrder
<1>2. MakeUnsignRet(Coin, ut) = 0 /\ Skeleton(ut.tx_str) = UnsignedTx(Coin, ut)
  BY DEF IInv, TransactionOfOrder
<1>3. PICK r \in Requests :
        /\ isUsdt = (r.coin = "USDT")
        /\ OrderOf(Coin, ut) = OrderOf(Coin, NewUserTransaction(r))
  BY DEF IInv, TransactionOfOrder
<1>4. r.coin = Coin
  BY <1>3, RequestsAssumption DEF Request, Coin, Coins
<1>5. UsdtToKeys(Coin, ut)
  BY <1>3, <1>4, SameOrder DEF KeyPayees
<1>6. Honours(Coin, ut, UnsignedTx(Coin, ut))
  BY <1>1, <1>2, <1>5, UnsignedTxHonours
<1>. QED  BY <1>1, <1>2, <1>6, HonoursSkeleton DEF UserTransaction

\* The transaction string of an open object spends only the outputs it needs, pays
\* the payee and the fee of the order, and returns the rest, however the
\* application and the hardware wallet interleave (HonoursOrder).
THEOREM HonoursOrderHolds ==
  ASSUME KeyPayees  PROVE Spec => []HonoursOrder
<1>1. IInv => HonoursOrder
  BY InvHonours
<1>. QED  BY <1>1, SpecInv, PTL

(***************************************************************************)
(* The object implements PaymentOrder.                                     *)
(***************************************************************************)
\* What a step does to the native object, seen from outside: there is none
\* afterwards; or it is one just created; or it is the one there was, with its
\* order, and with a transaction string if it had one.
Created == \E r \in Requests : CreateTx(r)

Kept ==
  /\ handle = "open" /\ handle' = "open" /\ isUsdt' = isUsdt
  /\ OrderOf(Coin, ut') = OrderOf(Coin, ut)
  /\ ut.tx_str # NoTx => ut'.tx_str # NoTx

LEMMA StillATransaction ==
  ASSUME IInv, handle = "open", ut.tx_str # NoTx,
         NEW v, Skeleton(v.tx_str) = Skeleton(ut.tx_str)
  PROVE  v.tx_str # NoTx
<1>1. InputFields(ut) /\ Coin \in Coins
  BY OpenHasOrder
<1>2. MakeUnsignRet(Coin, ut) = 0 /\ Skeleton(ut.tx_str) = UnsignedTx(Coin, ut)
  BY DEF IInv, TransactionOfOrder
<1>3. UnsignedTx(Coin, ut) # NoTx
  BY <1>1, <1>2, UnsignedTxType
<1>. QED  BY <1>2, <1>3, SkeletonOfNoTx

LEMMA StepShape ==
  ASSUME IInv, [Next]_vars
  PROVE  \/ Created
         \/ handle' # "open"
         \/ Kept
         \/ UNCHANGED <<handle, isUsdt, ut>>
<1>1. ASSUME NEW i \in 0..(Len(ut.utxo_list) - 1), PrepareData(i)
      PROVE  handle' # "open" \/ Kept
  <2>1. CASE Abort
    BY <2>1 DEF Abort
  <2>2. CASE ~Abort
    <3>. DEFINE u == MakeUnsignTx(Coin, ut)
    <3>1. /\ handle = "open" /\ handle' = "open" /\ isUsdt' = isUsdt
          /\ ut' = u /\ u.tx_str # NoTx
      BY <1>1, <2>2 DEF PrepareData
    <3>. QED  BY <3>1, MakeUnsignKeeps DEF Kept
  <2>. QED  BY <2>1, <2>2
<1>2. ASSUME NEW a \in answers, ProcessResult(a)  PROVE Kept
  <2>1. /\ handle = "open" /\ handle' = "open" /\ isUsdt' = isUsdt
        /\ ut' = [ut EXCEPT !.public_key = a.key,
                            !.sig_data = Append(ut.sig_data, a.sig)]
    BY <1>2 DEF ProcessResult, FirmwareProcessResult
  <2>2. ut \in UserTransaction
    BY DEF IInv, TypeOK
  <2>. QED  BY <2>1, <2>2 DEF UserTransaction, OrderOf, Kept
<1>3. CASE MakeSignedTx
  <2>1. CASE Abort
    BY <2>1 DEF Abort
  <2>2. CASE ut.tx_str # NoTx /\ ut' = MakeSignTx(ut) /\ UNCHANGED handle
    <3>1. handle = "open" /\ isUsdt' = isUsdt
      BY <1>3 DEF MakeSignedTx
    <3>2. /\ OrderOf(Coin, ut') = OrderOf(Coin, ut)
          /\ Skeleton(ut'.tx_str) = Skeleton(ut.tx_str)
      BY <2>2, MakeSignTxShape DEF IInv, TypeOK
    <3>3. ut'.tx_str # NoTx
      BY <2>2, <3>1, <3>2, StillATransaction
    <3>. QED  BY <2>2, <3>1, <3>2, <3>3 DEF Kept
  <2>. QED  BY <1>3, <2>1, <2>2 DEF MakeSignedTx
<1>4. ASSUME NEW key \in Hashes, SignSucceeds(key)  PROVE Kept
  <2>. DEFINE u == MakeUnsignTx(Coin, ut)
              v == SignTx(u, key)
  <2>1. /\ handle = "open" /\ handle' = "open" /\ isUsdt' = isUsdt
        /\ MakeUnsignRet(Coin, ut) = 0
        /\ ut' = MakeSignTx(v)
    BY <1>4 DEF SignSucceeds
  <2>2. InputFields(ut) /\ Coin \in Coins /\ ut \in UserTransaction
    BY <2>1, OpenHasOrder
  <2>3. /\ u \in UserTransaction
        /\ OrderOf(Coin, u) = OrderOf(Coin, ut)
        /\ u.input_count = InputCount(Coin, ut)
        /\ u.tx_str = UnsignedTx(Coin, ut)
    BY <2>1, <2>2, MakeUnsignTxShape
  <2>. HIDE DEF u
  <2>4. /\ InputFields(u)
        /\ MakeUnsignRet(Coin, u) = 0
        /\ u.tx_str = UnsignedTx(Coin, u)
        /\ u.input_count = InputCount(Coin, u)
    BY <2>1, <2>2, <2>3, SameOrder
  <2>5. /\ v \in UserTransaction
        /\ OrderOf(Coin, v) = OrderOf(Coin, u)
        /\ v.tx_str = u.tx_str
    BY <2>2, <2>3, <2>4, SignTxShape
  <2>. HIDE DEF v
  <2>6. /\ OrderOf(Coin, ut') = OrderOf(Coin, v)
        /\ Skeleton(ut'.tx_str) = Skeleton(v.tx_str)
    BY <2>1, <2>5, MakeSignTxShape
  <2>7. /\ Skeleton(UnsignedTx(Coin, ut)) = UnsignedTx(Coin, ut)
        /\ UnsignedTx(Coin, ut) # NoTx
    BY <2>1, <2>2, UnsignedTxType
  <2>8. ut'.tx_str # NoTx
    BY <2>3, <2>5, <2>6, <2>7, SkeletonOfNoTx
  <2>. QED  BY <2>1, <2>3, <2>5, <2>6, <2>8 DEF Kept
<1>5. CASE SignFails
  <2>1. handle = "open" /\ MakeUnsignRet(Coin, ut) # 0
    BY <1>5 DEF SignFails
  <2>2. CASE Abort
    BY <2>2 DEF Abort
  <2>3. CASE ut' = MakeUnsignTx(Coin, ut) /\ UNCHANGED handle
    <3>1. ut.tx_str = NoTx
      BY <2>1 DEF IInv, TransactionOfOrder
    <3>2. isUsdt' = isUsdt
      BY <1>5 DEF SignFails
    <3>. QED  BY <2>1, <2>3, <3>1, <3>2, MakeUnsignKeeps DEF Kept
  <2>. QED  BY <1>5, <2>2, <2>3 DEF SignFails
<1>6. CASE CreateTxFails \/ UseBadHandle \/ Close
  BY <1>6 DEF CreateTxFails, UseBadHandle, Close, Abort
<1>7. ASSUME NEW p \in prepared, DeviceSigns(p)
      PROVE  UNCHANGED <<handle, isUsdt, ut>>
  BY <1>7 DEF DeviceSigns
<1>8. CASE UNCHANGED vars
  BY <1>8 DEF vars
<1>. QED
  BY <1>1, <1>2, <1>3, <1>4, <1>5, <1>6, <1>7, <1>8 DEF Next, Created

\* The transaction of an order honours it also when the order is all there is to
\* see of it.
LEMMA PlanHonours ==
  ASSUME KeyPayees, IInv, handle = "open", MakeUnsignRet(Coin, ut) = 0
  PROVE  Honours(Coin, OrderOf(Coin, ut), UnsignedTx(Coin, ut))
<1>. DEFINE o == OrderOf(Coin, ut)
<1>1. InputFields(ut) /\ Coin \in Coins
  BY OpenHasOrder
<1>2. PICK r \in Requests :
        /\ isUsdt = (r.coin = "USDT")
        /\ OrderOf(Coin, ut) = OrderOf(Coin, NewUserTransaction(r))
  BY DEF IInv, TransactionOfOrder
<1>3. r.coin = Coin
  BY <1>2, RequestsAssumption DEF Request, Coin, Coins
<1>4. UsdtToKeys(Coin, NewUserTransaction(r))
  BY <1>3 DEF KeyPayees
<1>5. OrderOf(Coin, o) = OrderOf(Coin, ut)
  BY DEF OrderOf
<1>. HIDE DEF o
<1>6. UsdtToKeys(Coin, o)
  BY <1>2, <1>4, <1>5, SameOrder
<1>7. /\ InputFields(o)
      /\ MakeUnsignRet(Coin, o) = 0
      /\ UnsignedTx(Coin, o) = UnsignedTx(Coin, ut)
  BY <1>1, <1>5, SameOrder
<1>8. Honours(Coin, o, UnsignedTx(Coin, o))
  BY <1>1, <1>6, <1>7, UnsignedTxHonours
<1>. QED  BY <1>7, <1>8 DEF o

\* Every call is a step of PaymentOrder, or none it can see.
LEMMA StepRefines ==
  ASSUME KeyPayees, IInv, IInv', [Next]_vars
  PROVE  [Payment!Next]_(Payment!pvars)
<1>. DEFINE order == IF handle = "open" THEN OrderOf(Coin, ut) ELSE NoOrder
            plan == IF handle = "open" THEN Skeleton(ut.tx_str) ELSE NoTx
            orders == {OrderOf(r.coin, NewUserTransaction(r)) : r \in Requests}
<1>1. CASE Created
  <2>1. PICK r \in Requests : CreateTx(r)
    BY <1>1 DEF Created
  <2>2. r.coin \in Coins
    BY RequestsAssumption DEF Request
  <2>3. /\ handle' = "open" /\ isUsdt' = (r.coin = "USDT")
        /\ ut' = NewUserTransaction(r)
    BY <2>1 DEF CreateTx
  <2>4. Coin' = r.coin
    BY <2>2, <2>3 DEF Coin, Coins
  <2>5. order' \in orders
    BY <2>3, <2>4
  <2>6. plan' = NoTx
    BY <2>3, SkeletonOfNoTx DEF NewUserTransaction
  <2>7. Payment!Accept
    BY <2>5, <2>6 DEF Payment!Accept
  <2>. QED  BY <2>7 DEF Payment!Next
<1>2. CASE handle' # "open"
  BY <1>2 DEF Payment!Next, Payment!GiveUp
<1>3. CASE Kept
  <2>1. /\ handle = "open" /\ handle' = "open" /\ Coin' = Coin
        /\ OrderOf(Coin, ut') = OrderOf(Coin, ut)
        /\ ut.tx_str # NoTx => ut'.tx_str # NoTx
    BY <1>3 DEF Kept, Coin
  <2>. HIDE DEF Coin
  <2>2. order' = order
    BY <2>1
  <2>3. /\ MakeUnsignRet(Coin, ut') = MakeUnsignRet(Coin, ut)
        /\ UnsignedTx(Coin, ut') = UnsignedTx(Coin, ut)
    BY <2>1, SameOrder
  <2>4. CASE ut'.tx_str = NoTx
    <3>1. plan = NoTx /\ plan' = NoTx
      BY <2>1, <2>4, SkeletonOfNoTx
    <3>. QED  BY <2>2, <3>1 DEF Payment!pvars
  <2>5. CASE ut'.tx_str # NoTx
    <3>1. /\ MakeUnsignRet(Coin, ut) = 0
          /\ Skeleton(ut'.tx_str) = UnsignedTx(Coin, ut)
      BY <2>1, <2>3, <2>5 DEF IInv, TransactionOfOrder
    <3>2. plan' = UnsignedTx(Coin, ut)
      BY <2>1, <3>1
    <3>3. CASE ut.tx_str # NoTx
      <4>1. plan = UnsignedTx(Coin, ut)
        BY <2>1, <3>3 DEF IInv, TransactionOfOrder
      <4>. QED  BY <2>2, <3>2, <4>1 DEF Payment!pvars
    <3>4. CASE ut.tx_str = NoTx
      <4>1. plan = NoTx
        BY <2>1, <3>4, SkeletonOfNoTx
      <4>2. order = OrderOf(Coin, ut) /\ order.coin = Coin
        BY <2>1 DEF OrderOf
      <4>3. CarriesOut(order, plan')
        BY <2>1, <3>1, <3>2, <4>2, PlanHonours DEF CarriesOut
      <4>4. order # NoOrder
        <5>1. PICK r \in Requests :
                /\ isUsdt = (r.coin = "USDT")
                /\ OrderOf(Coin, ut) = OrderOf(Coin, NewUserTransaction(r))
          BY <2>1 DEF IInv, TransactionOfOrder
        <5>2. r.coin = Coin
          BY <5>1, RequestsAssumption DEF Request, Coin, Coins
        <5>. QED  BY <4>2, <5>1, <5>2, NoOrderAssumption
      <4>5. Payment!Plan
        BY <2>2, <4>1, <4>3, <4>4 DEF Payment!Plan
      <4>. QED  BY <4>5 DEF Payment!Next
    <3>. QED  BY <3>3, <3>4
  <2>. QED  BY <2>4, <2>5
<1>4. CASE UNCHANGED <<handle, isUsdt, ut>>
  <2>1. Coin' = Coin
    BY <1>4 DEF Coin
  <2>. QED  BY <1>4, <2>1 DEF Payment!pvars
<1>. QED  BY <1>1, <1>2, <1>3, <1>4, StepShape

\* The transaction object implements the abstract payment order: at most one
\* transaction per order, which honours it and changes only when the order is
\* replaced or given up (OnePlanPerOrder).
THEOREM OnePlanPerOrderHolds ==
  ASSUME KeyPayees  PROVE Spec => OnePlanPerOrder
<1>1. Init => Payment!Init
  BY DEF Init, Payment!Init
<1>2. IInv /\ IInv' /\ [Next]_vars => [Payment!Next]_(Payment!pvars)
  BY StepRefines
<1>. QED  BY <1>1, <1>2, SpecInv, PTL DEF Spec, OnePlanPerOrder, Payment!Spec

(***************************************************************************)
(* What goes to the hardware wallet: messages without earlier unlocking    *)
(* scripts, which show the payee.                                          *)
(***************************************************************************)
\* What is handed to the wallet for an input, or when the string has no such input.
Handed(u, i) ==
  IF HasInput(u, i) THEN FirmwareData(Coin, u, i)
  ELSE [FirmwareData(Coin, u, 0) EXCEPT !.tx = u.tx_str]

\* The inputs and outputs of what is handed over are the order's, with one locking
\* script at most.
LEMMA HandedShape ==
  ASSUME IInv, handle = "open", NEW i \in Nat, MakeUnsignTx(Coin, ut).tx_str # NoTx
  PROVE  LET d == Handed(MakeUnsignTx(Coin, ut), i)
             n == InputCount(Coin, ut)
         IN  /\ d.pay_index = IF Coin = "USDT" THEN 1 ELSE 0
             /\ d.tx.outputs = Outputs(Coin, ut)
             /\ DOMAIN d.tx.inputs = 1..n
             /\ \A j \in 1..n : j # i + 1 => d.tx.inputs[j].script = NoScript
             /\ i + 1 \in 1..n => d.tx.inputs[i + 1].script \in LockScripts
<1>. DEFINE u == MakeUnsignTx(Coin, ut)
            n == InputCount(Coin, ut)
            lock == EncodeScript(u.utxo_list[i + 1].script)
            plain == [FirmwareData(Coin, u, 0) EXCEPT !.tx = u.tx_str]
<1>1. InputFields(ut) /\ Coin \in Coins /\ ut \in UserTransaction
  BY OpenHasOrder
<1>2. /\ OrderOf(Coin, u) = OrderOf(Coin, ut)
      /\ MakeUnsignRet(Coin, ut) = 0
      /\ u.tx_str = UnsignedTx(Coin, ut) /\ u.tx_str # NoTx
  BY MakeUnsignKeeps
<1>3. InputFields(u)
  BY <1>1, <1>2, SameOrder
<1>4. /\ u.tx_str.outputs = Outputs(Coin, ut)
      /\ DOMAIN u.tx_str.inputs = 1..n /\ Len(u.tx_str.inputs) = n
      /\ \A j \in 1..n : u.tx_str.inputs[j] =
                           [prev |-> ut.utxo_list[j].prev, script |-> NoScript]
  BY <1>1, <1>2, UnsignedInputsShape DEF UnsignedTx
<1>5. n \in Nat /\ n <= Len(u.utxo_list)
  BY <1>1, <1>2, <1>3, InputCountType, SameOrder DEF InputFields
<1>. HIDE DEF u, n
<1>6. CASE HasInput(u, i)
  <2>1. i + 1 \in 1..n /\ i + 1 \in 1..Len(u.utxo_list)
    BY <1>4, <1>5, <1>6 DEF HasInput
  <2>2. lock \in LockScripts
    <3>1. u.utxo_list[i + 1] \in Utxo
      BY <1>3, <2>1 DEF InputFields
    <3>. QED  BY <3>1, EncodeScriptType DEF Utxo
  <2>. HIDE DEF lock
  <2>3. Handed(u, i).tx = [u.tx_str EXCEPT !.inputs =
          [u.tx_str.inputs EXCEPT ![i + 1] = [u.tx_str.inputs[i + 1] EXCEPT !.script = lock]]]
    BY <1>6 DEF Handed, FirmwareData, PreparedTx, WithScript, lock
  <2>4. u.tx_str = [inputs |-> u.tx_str.inputs, outputs |-> u.tx_str.outputs]
    BY <1>2 DEF UnsignedTx
  <2>5. /\ Handed(u, i).tx.outputs = u.tx_str.outputs
        /\ Handed(u, i).tx.inputs =
             [u.tx_str.inputs EXCEPT ![i + 1] = [u.tx_str.inputs[i + 1] EXCEPT !.script = lock]]
    BY <2>3, <2>4
  <2>6. Handed(u, i).pay_index = IF Coin = "USDT" THEN 1 ELSE 0
    BY <1>6 DEF Handed, FirmwareData
  <2>7. Handed(u, i).tx.inputs[i + 1].script = lock
    BY <1>4, <2>1, <2>5
  <2>. DEFINE d == Handed(u, i)
  <2>. HIDE DEF d
  <2>8. /\ d.pay_index = IF Coin = "USDT" THEN 1 ELSE 0
        /\ d.tx.outputs = Outputs(Coin, ut)
        /\ DOMAIN d.tx.inputs = 1..n
        /\ i + 1 \in 1..n => d.tx.inputs[i + 1].script \in LockScripts
    BY <1>4, <2>2, <2>5, <2>6, <2>7 DEF d
  <2>9. ASSUME NEW j \in 1..n, j # i + 1  PROVE d.tx.inputs[j].script = NoScript
    <3>1. d.tx.inputs[j] = u.tx_str.inputs[j]
      BY <1>4, <2>5, <2>9 DEF d
    <3>2. d.tx.inputs[j] = [prev |-> ut.utxo_list[j].prev, script |-> NoScript]
      BY <1>4, <3>1
    <3>. QED  BY <3>2
  <2>. QED  BY <2>8, <2>9 DEF d, u, n
<1>7. CASE ~HasInput(u, i)
  <2>1. plain = [pay_index |-> IF Coin = "USDT" THEN 1 ELSE 0,
                 change_index |-> IF Coin = "USDT" THEN 2 ELSE 1,
                 tx |-> u.tx_str]
    BY DEF FirmwareData
  <2>2. Handed(u, i) = plain
    BY <1>7 DEF Handed
  <2>3. i + 1 \notin 1..n
    BY <1>2, <1>4, <1>7 DEF HasInput
  <2>. DEFINE d == Handed(u, i)
  <2>. HIDE DEF d, plain
  <2>4. d.tx = u.tx_str /\ d.pay_index = IF Coin = "USDT" THEN 1 ELSE 0
    BY <2>1, <2>2 DEF d
  <2>5. ASSUME NEW j \in 1..n  PROVE d.tx.inputs[j].script = NoScript
    <3>1. d.tx.inputs[j] = [prev |-> ut.utxo_list[j].prev, script |-> NoScript]
      BY <1>4, <2>4
    <3>. QED  BY <3>1
  <2>. QED  BY <1>4, <2>3, <2>4, <2>5 DEF d, u, n
<1>. QED  BY <1>6, <1>7

\* Only firmwarePrepareData hands anything to the wallet.
LEMMA PreparedStep ==
  ASSUME [Next]_vars, NEW p \in prepared' \ prepared
  PROVE  \E i \in Nat : /\ handle = "open" /\ MakeUnsignTx(Coin, ut).tx_str # NoTx
                        /\ p = [index |-> i, data |-> Handed(MakeUnsignTx(Coin, ut), i)]
<1>1. PICK i \in 0..(Len(ut.utxo_list) - 1) : PrepareData(i)
  BY DEF Next, vars, CreateTx, CreateTxFails, UseBadHandle, DeviceSigns, ProcessResult,
         MakeSignedTx, SignSucceeds, SignFails, Close
<1>. QED  BY <1>1 DEF PrepareData, Handed

LEMMA FreshStep ==
  ASSUME IInv, FreshMessages, [Next]_vars  PROVE FreshMessages'
<1>. SUFFICES ASSUME NEW p \in prepared', NEW j \in DOMAIN p.data.tx.inputs
              PROVE  /\ p.data.tx.inputs[j].script.type # "unlock"
                     /\ p.data.tx.inputs[j].script # NoScript => j = p.index + 1
  BY DEF FreshMessages
<1>1. CASE p \in prepared
  BY <1>1 DEF FreshMessages
<1>2. CASE p \notin prepared
  <2>1. PICK i \in Nat : /\ handle = "open" /\ MakeUnsignTx(Coin, ut).tx_str # NoTx
                         /\ p = [index |-> i, data |-> Handed(MakeUnsignTx(Coin, ut), i)]
    BY <1>2, PreparedStep
  <2>. DEFINE d == Handed(MakeUnsignTx(Coin, ut), i)
              n == InputCount(Coin, ut)
  <2>2. /\ DOMAIN d.tx.inputs = 1..n
        /\ \A k \in 1..n : k # i + 1 => d.tx.inputs[k].script = NoScript
        /\ i + 1 \in 1..n => d.tx.inputs[i + 1].script \in LockScripts
    BY <2>1, HandedShape
  <2>3. p.data = d /\ p.index = i
    BY <2>1
  <2>. HIDE DEF d, n
  <2>4. d.tx.inputs[j].script \in LockScripts \cup {NoScript}
    BY <2>2, <2>3
  <2>5. \A s \in LockScripts \cup {NoScript} : s.type # "unlock"
    BY DEF LockScripts, NoScript
  <2>. QED  BY <2>2, <2>3, <2>4, <2>5
<1>. QED  BY <1>1, <1>2

\* No message the hardware wallet is given, on a first attempt or a later one, holds
\* an unlocking script of an earlier one (FreshMessages).
THEOREM FreshMessagesHolds == Spec => []FreshMessages
<1>1. Init => FreshMessages
  BY DEF Init, FreshMessages
<1>. QED  BY <1>1, InitInv, NextInv, FreshStep, PTL DEF Spec

LEMMA PayeeStep ==
  ASSUME KeyPayees, IInv, [Next]_vars, NEW p \in prepared' \ prepared
  PROVE  p.data.tx.outputs[p.data.pay_index + 1] =
           Output(PaysTo(ut.to_address), IF isUsdt THEN OmniOutput ELSE ut.pay)
<1>1. PICK i \in Nat : /\ handle = "open" /\ MakeUnsignTx(Coin, ut).tx_str # NoTx
                       /\ p = [index |-> i, data |-> Handed(MakeUnsignTx(Coin, ut), i)]
  BY PreparedStep
<1>2. /\ p.data.pay_index = IF Coin = "USDT" THEN 1 ELSE 0
      /\ p.data.tx.outputs = Outputs(Coin, ut)
  BY <1>1, HandedShape
<1>3. InputFields(ut) /\ Coin \in Coins /\ ut \in UserTransaction
  BY <1>1, OpenHasOrder
<1>4. MakeUnsignRet(Coin, ut) = 0
  BY <1>1, MakeUnsignKeeps
<1>5. \A k \in 1..PaymentLen(Coin) : Outputs(Coin, ut)[k] = PaymentOutputs(Coin, ut)[k]
  BY <1>3, <1>4, OutputsShape
<1>6. CASE isUsdt
  <2>1. Coin = "USDT"
    BY <1>6 DEF Coin
  <2>2. p.data.tx.outputs[2] = Output(HashScript(ut.to_address), OmniOutput)
    BY <1>2, <1>3, <1>4, <1>5, <2>1, PaymentOutputsShape DEF PaymentLen
  <2>3. PICK r \in Requests :
          isUsdt = (r.coin = "USDT") /\ OrderOf(Coin, ut) = OrderOf(Coin, NewUserTransaction(r))
    BY <1>1 DEF IInv, TransactionOfOrder
  <2>. r.coin = Coin
    BY <2>3, RequestsAssumption DEF Request, Coin, Coins
  <2>4. UsdtToKeys(Coin, ut)
    BY <2>3, SameOrder DEF KeyPayees
  <2>5. Supports(Coin, ut.to_address)
    BY <1>3, <1>4, Accepted
  <2>6. HashScript(ut.to_address) = PaysTo(ut.to_address)
    BY <2>1, <2>4, <2>5 DEF Supports, Decodes, UsdtToKeys, KeyAddress, HashScript, PaysTo
  <2>. QED  BY <1>2, <1>6, <2>1, <2>2, <2>6
<1>7. CASE ~isUsdt
  <2>1. Coin = "BTC"
    BY <1>7 DEF Coin
  <2>2. p.data.tx.outputs[1] = Output(PaysTo(ut.to_address), ut.pay)
    BY <1>2, <1>3, <1>4, <1>5, <2>1, PaymentOutputsShape DEF PaymentLen
  <2>. QED  BY <1>2, <1>7, <2>1, <2>2
<1>. QED  BY <1>6, <1>7

\* The output the hardware wallet is told to show as the payee's pays the payee of
\* the order (ShowsPayee), where USDT orders pay to keys.
THEOREM ShowsPayeeHolds ==
  ASSUME KeyPayees  PROVE Spec => ShowsPayee
<1>1. IInv /\ [Next]_vars =>
        [\A p \in prepared' \ prepared :
           p.data.tx.outputs[p.data.pay_index + 1] =
             Output(PaysTo(ut.to_address), IF isUsdt THEN OmniOutput ELSE ut.pay)]_vars
  BY PayeeStep
<1>. QED  BY <1>1, SpecInv, PTL DEF Spec, ShowsPayee

(***************************************************************************)
(* A transaction that is signed is complete.                               *)
(***************************************************************************)
LEMMA SignStep ==
  ASSUME IInv, NEW key \in Hashes, SignSucceeds(key), OwnedBy(ut, key)
  PROVE  Complete(ut'.tx_str, ut')
<1>. DEFINE u == MakeUnsignTx(Coin, ut)
<1>1. /\ handle = "open" /\ MakeUnsignRet(Coin, ut) = 0
      /\ ut' = MakeSignTx(SignTx(u, key))
  BY DEF SignSucceeds
<1>2. InputFields(ut) /\ Coin \in Coins /\ ut \in UserTransaction
  BY <1>1, OpenHasOrder
<1>3. /\ u \in UserTransaction
      /\ OrderOf(Coin, u) = OrderOf(Coin, ut)
      /\ u.input_count = InputCount(Coin, ut)
      /\ u.tx_str = UnsignedTx(Coin, ut)
  BY <1>1, <1>2, MakeUnsignTxShape
<1>. HIDE DEF u
<1>4. /\ InputFields(u)
      /\ MakeUnsignRet(Coin, u) = 0
      /\ u.tx_str = UnsignedTx(Coin, u)
      /\ u.input_count = InputCount(Coin, u)
      /\ u.utxo_list = ut.utxo_list
  BY <1>1, <1>2, <1>3, SameOrder
<1>5. \A i \in 1..Len(u.utxo_list) : u.utxo_list[i].script = Lock("p2pkh", key)
  BY <1>4 DEF OwnedBy
<1>. QED  BY <1>1, <1>2, <1>3, <1>4, <1>5, SignTxCompletes

LEMMA MakeSignedStep ==
  ASSUME IInv, MakeSignedTx, handle' = "open", SignedInOrder(ut)
  PROVE  Complete(ut'.tx_str, ut')
<1>. DEFINE n == InputCount(Coin, ut)
<1>1. handle = "open" /\ ut.tx_str # NoTx /\ ut' = MakeSignTx(ut)
  BY DEF MakeSignedTx, Abort
<1>2. InputFields(ut) /\ Coin \in Coins /\ ut \in UserTransaction
  BY <1>1, OpenHasOrder
<1>3. ut.input_count = n /\ Skeleton(ut.tx_str) = UnsignedTx(Coin, ut)
  BY <1>1 DEF IInv, TransactionOfOrder
<1>4. Len(ut.tx_str.inputs) = n
  BY <1>2, <1>3, UnsignedInputsShape, SkeletonLen DEF UserTransaction
<1>5. n \in 0..Len(ut.utxo_list)
  BY <1>2, InputCountType
<1>. HIDE DEF n
<1>6. ASSUME NEW i \in 1..n
      PROVE  /\ ut.utxo_list[i].script = Lock("p2pkh", ut.public_key)
             /\ i <= Len(ut.sig_data)
             /\ ut.sig_data[i] = Signature(ut.public_key, SignedMessage(ut.tx_str, ut, i - 1))
  <2>1. Len(ut.utxo_list) \in Nat /\ Len(ut.sig_data) \in Nat
    BY <1>2 DEF UserTransaction
  <2>2. i - 1 \in 0..(Len(ut.tx_str.inputs) - 1) /\ i \in 1..Len(ut.utxo_list)
    BY <1>4, <1>5, <2>1
  <2>3. /\ i - 1 < Len(ut.sig_data)
        /\ ut.sig_data[(i - 1) + 1] =
             Signature(ut.public_key, SignedMessage(ut.tx_str, ut, i - 1))
    BY <2>2 DEF SignedInOrder
  <2>4. (i - 1) + 1 = i
    BY <2>2
  <2>. QED  BY <2>1, <2>2, <2>3, <2>4 DEF SignedInOrder, OwnedBy
<1>. QED  BY <1>1, <1>2, <1>3, <1>4, <1>6, FilledCompletes

\* sign returning 0 leaves a transaction the network accepts, whatever signatures and
\* scripts earlier calls had left in the object (SignCompletes).
THEOREM SignCompletesHolds == Spec => SignCompletes
<1>1. IInv /\ [Next]_vars =>
        [\A key \in Hashes :
           SignSucceeds(key) /\ OwnedBy(ut, key) => Complete(ut'.tx_str, ut')]_vars
  BY SignStep
<1>. QED  BY <1>1, SpecInv, PTL DEF Spec, SignCompletes

\* makeSignedTx completes the transaction when the answers came back in the order of
\* the inputs, whatever was called in between (MakeSignedTxCompletes).
THEOREM MakeSignedTxCompletesHolds == Spec => MakeSignedTxCompletes
<1>1. IInv /\ [Next]_vars =>
        [MakeSignedTx /\ handle' = "open" /\ SignedInOrder(ut)
           => Complete(ut'.tx_str, ut')]_vars
  BY MakeSignedStep
<1>. QED  BY <1>1, SpecInv, PTL DEF Spec, MakeSignedTxCompletes

=============================================================================
