----------------------------- MODULE BtcWallet ------------------------------
(***************************************************************************)
(* The payment flows of TCTest/BTCTest.cpp, end to end: balance, unspent   *)
(* outputs and fee rate from the server, the transaction, and its          *)
(* signature, by a key in the program or by the hardware wallet input      *)
(* after input.  Every call to the outside may fail, and the wallet may    *)
(* ask for a code the user has to type before it answers.                  *)
(***************************************************************************)
EXTENDS BtcTx

CONSTANTS
  U256,       \* 2^256: the fee_count a negative length turns into is below it
  UtxoLists,  \* what the server can hold as the wallet's unspent outputs
  Balances,   \* what it can say the balance is
  Prices,     \* the fee rates it can quote
  Payees,     \* the addresses that can be paid
  Amounts,    \* the amounts that can be paid
  WalletKey   \* the key of the wallet, in the program or in the hardware

ASSUME WalletAssumption == WalletKey \in Hashes /\ U256 \in Nat /\ U256 > U64

\* All the bitcoin and all the USDT there is fits a uint64_t.
ASSUME AmountsAssumption ==
  Amounts \subseteq 0..(U64 - 1) /\ \A list \in UtxoLists : Supplied(list)

ASSUME InputsAssumption == UtxoLists \subseteq Seq(Utxo) /\ Payees \subseteq Address

\* fetchFee refuses a rate of 0.
ASSUME PricesAssumption == Prices \subseteq Nat \ {0}

VARIABLES
  pc,      \* where the flow is
  flow,    \* which of the test functions it is
  amount,  \* what the user wants to pay
  ut,      \* the UserTransaction of the flow
  index,   \* the i of the signing loop
  device   \* the message the hardware wallet works on, or NoTx

vars == <<pc, flow, amount, ut, index, device>>

Flows == {"firmware", "soft", "usdt", "sp"}

Coin == IF flow = "usdt" THEN "USDT" ELSE "BTC"

\* How a flow can end: with the transaction printed, by a return, by an exception.
Final == {"printed", "returned", "crashed"}

WalletAddress == [kind |-> "p2pkh", hash |-> WalletKey]

\* test_usdt_sign and sp_test_sign set pay before the balance is compared with
\* it, the other two only when the fee is known.
Init ==
  /\ pc = "balance"
  /\ flow \in Flows
  /\ amount \in Amounts
  /\ \E to \in Payees :
       ut = [to_address |-> to, change_address |-> WalletAddress,
             pay |-> IF flow \in {"usdt", "sp"} THEN amount ELSE 0,
             fee_count |-> 0, fee_price |-> 0, utxo_list |-> <<>>,
             input_count |-> 0, public_key |-> NoKey, sig_data |-> <<>>,
             tx_str |-> NoTx]
  /\ index = 0
  /\ device = NoTx

Go(from, to) == pc = from /\ pc' = to

\* fetchBalanceV2, getUTXO, fetchFee, and what precedes the use of the hardware
\* wallet, each with a return if it fails.
Fails ==
  /\ pc \in {"balance", "utxo", "fee", "connect"}
  /\ pc' = "returned"
  /\ UNCHANGED <<flow, amount, ut, index, device>>

FetchBalance(balance) ==
  /\ Go("balance", IF balance < ut.pay THEN "returned" ELSE "utxo")
  /\ UNCHANGED <<flow, amount, ut, index, device>>

\* A reply without a "code" is taken for a success with no outputs.
GetUTXO(list) ==
  /\ Go("utxo", IF flow = "usdt" /\ list = <<>> THEN "returned" ELSE "fee")
  /\ ut' = [ut EXCEPT !.utxo_list = @ \o list]
  /\ UNCHANGED <<flow, amount, index, device>>

ToU256(n) == IF n < 0 THEN U256 + n ELSE n

FetchFee(price) ==
  /\ Go("fee", IF flow = "firmware" THEN "connect" ELSE "build")
  /\ ut' = LET u == [ut EXCEPT !.pay = amount]
           IN  [u EXCEPT !.fee_count = ToU256(GetTxLen(Coin, u)),
                         !.fee_price = price]
  /\ UNCHANGED <<flow, amount, index, device>>

Connect ==
  /\ Go("connect", "build")
  /\ UNCHANGED <<flow, amount, ut, index, device>>

\* The firmware flow does not look at the result of make_unsign_tx.
Build ==
  /\ Go("build", IF flow = "firmware" \/ MakeUnsignRet(Coin, ut) = 0 THEN "sign"
                 ELSE IF MakeUnsignRet(Coin, ut) = Thrown THEN "crashed"
                 ELSE "returned")
  /\ ut' = MakeUnsignTx(Coin, ut)
  /\ UNCHANGED <<flow, amount, index, device>>

SoftSign ==
  /\ flow # "firmware" /\ Go("sign", "printed")
  /\ ut' = MakeSignTx(SignTx(ut, WalletKey))
  /\ UNCHANGED <<flow, amount, index, device>>

\* firmware_prepare_data, then the command to the hardware wallet.
Ask ==
  /\ flow = "firmware" /\ index < ut.input_count
  /\ Go("sign", IF HasInput(ut, index) THEN "asked" ELSE "crashed")
  /\ device' = IF HasInput(ut, index) THEN FirmwareData(Coin, ut, index).tx
                                      ELSE device
  /\ UNCHANGED <<flow, amount, ut, index>>

\* SW_9000_SUCCESS, at once or after the code.
Answer ==
  /\ pc \in {"asked", "verify"} /\ pc' = "sign"
  /\ ut' = FirmwareProcessResult(ut, [key |-> WalletKey,
                                      sig |-> Signature(WalletKey, device)])
  /\ index' = index + 1
  /\ device' = NoTx
  /\ UNCHANGED <<flow, amount>>

\* Slip: the wallet is asked again, with another code, after the code it showed.
AsksForever ==
  /\ pc \in {"asked", "verify"} /\ pc' = "code"
  /\ UNCHANGED <<flow, amount, ut, index, device>>

\* SW_6D82_GET_INTERACTION_LATER: the wallet shows a code.
AskCode ==
  /\ Go("asked", "code")
  /\ UNCHANGED <<flow, amount, ut, index, device>>

TypeCode ==
  /\ Go("code", "verify")
  /\ UNCHANGED <<flow, amount, ut, index, device>>

Refuse ==
  /\ pc \in {"asked", "verify"} /\ pc' = "returned"
  /\ device' = NoTx
  /\ UNCHANGED <<flow, amount, ut, index>>

Finish ==
  /\ flow = "firmware" /\ index >= ut.input_count
  /\ Go("sign", IF ut.tx_str = NoTx THEN "crashed" ELSE "printed")
  /\ ut' = IF ut.tx_str = NoTx THEN ut ELSE MakeSignTx(ut)
  /\ UNCHANGED <<flow, amount, index, device>>

Ended == pc \in Final /\ UNCHANGED vars

\* What the program, the server and the hardware wallet do; each of them either
\* answers or reports a failure.
Progress ==
  \/ Fails
  \/ \E balance \in Balances : FetchBalance(balance)
  \/ \E list \in UtxoLists : GetUTXO(list)
  \/ \E price \in Prices : FetchFee(price)
  \/ Connect \/ Build \/ SoftSign \/ Ask \/ Answer \/ AskCode \/ Refuse \/ Finish

Next == Progress \/ TypeCode \/ Ended

Spec == Init /\ [][Next]_vars /\ WF_vars(Progress)

(***************************************************************************)
(* Properties.                                                             *)
(***************************************************************************)
\* The type invariant of a flow.
WalletTypeOK ==
  /\ pc \in {"balance", "utxo", "fee", "connect", "build", "sign", "asked",
             "code", "verify"} \cup Final
  /\ flow \in Flows /\ amount \in Amounts /\ index \in Nat
  /\ ut.tx_str \in Transaction /\ ut.sig_data \in Seq(SignatureData)
  /\ device \in Message

\* What is printed for broadcast is signed in every input and honours the order:
\* the fee, the amount and the change are those of the list of outputs, the rate
\* and the length the server calls and get_tx_len gave.
PrintedIsPayable ==
  pc = "printed" =>
    /\ ut.pay = amount
    /\ Complete(ut.tx_str, ut)
    /\ Honours(Coin, ut, ut.tx_str)

\* In the signing loop the k-th signature is the wallet's for input k, and there
\* are as many as there were rounds, with and without codes in between.
LoopSignsInOrder ==
  flow = "firmware" /\ pc \notin {"printed", "crashed"} =>
    /\ Len(ut.sig_data) = index
    /\ \A k \in 1..index :
         ut.sig_data[k] = Signature(WalletKey, SignedMessage(ut.tx_str, ut, k - 1))

\* A flow ends, unless its user never types the code.
EndsOrWaitsForCode == <>(pc \in Final) \/ <>[](pc = "code")

\* BtcApi.h:23 and BtcApi.cpp:416 promise the length of the transaction string;
\* at the quoted rate the fee then pays for every byte of it.
FeePaysForLength ==
  pc = "printed" => FeePaid(ut.tx_str, ut) >= ut.fee_price * TxLen(ut.tx_str)

=============================================================================
