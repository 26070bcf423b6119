----------------------------- MODULE BumoProofs -----------------------------
(***************************************************************************)
(* Theorems about Bumo payments, for any accounts, prices and number of    *)
(* payments.                                                               *)
(***************************************************************************)
EXTENDS Bumo, TLAPS

\* The nonce that is kept is not ahead of the account it was read for, and no
\* transaction is there before the nonce for it has been read.
NonceInv ==
  /\ \A a \in nonceOf : a \in Addresses /\ s_nonce <= account[a]
  /\ nonceOf = {} => s_nonce = 0
  /\ pc = "get_nonce" => tx = NoTx
  /\ pc = "get_gas_price" => tx \in Tx
  /\ payments \in Nat

IInv == BumoTypeOK /\ NonceInv /\ NeverAheadOfAccount

\* What is left of the state when a reply changes some of it.
LEMMA ReplyFacts ==
  ASSUME Reply
  PROVE  /\ pc' = pc /\ pc \in Requests /\ conn' = "replied"
         /\ UNCHANGED <<payment, s_exit_flag, tx, json, result, payments>>
BY DEF Reply, Polling

\* What the reply to a submission leaves is a truth value.
LEMMA BroadcastFacts == ASSUME ReplyBroadcast PROVE s_is_broadcast_ok' \in BOOLEAN
<1>. DEFINE in == json \in accepted
<1>1. in \in BOOLEAN
  OBVIOUS
<1>. HIDE DEF in
<1>2. s_is_broadcast_ok' = in \/ s_is_broadcast_ok' = TRUE
  BY Zenon DEF ReplyBroadcast, in
<1>. QED  BY Zenon, <1>1, <1>2

\* What Start does to the statics' types.
LEMMA StartFacts ==
  ASSUME NEW request \in Requests, Start(request)
  PROVE  pc' = request /\ conn' \in {"connecting", "none"} /\ s_exit_flag' = 0
BY DEF Start

\* A transaction has more fields than the empty one.
LEMMA TxIsNotNoTx == ASSUME NEW t \in Tx PROVE t # NoTx
<1>1. DOMAIN t = {"payment", "number", "nonce", "gas_price"}
  BY DEF Tx
<1>2. DOMAIN NoTx = {"nonce"}
  BY DEF NoTx
<1>. QED  BY <1>1, <1>2

LEMMA InitInv == Init => IInv
<1>. SUFFICES ASSUME Init PROVE IInv
  OBVIOUS
<1>0. payment \in Payment
  BY DEF Init
<1>1. BumoTypeOK
  <2>1. {s_is_broadcast_ok, result} \subseteq BOOLEAN
    BY Zenon DEF Init
  <2>2. account \in [Addresses -> Nat]
    BY DEF Init
  <2>. QED  BY <1>0, <2>1, <2>2 DEF Init, BumoTypeOK, Requests
<1>2. NonceInv /\ NeverAheadOfAccount
  BY DEF Init, NonceInv, NeverAheadOfAccount
<1>. QED  BY <1>1, <1>2 DEF IInv

\* Replies of the server.
LEMMA AnswersInv == ASSUME IInv, Answers PROVE IInv'
<1>. USE DEF IInv, BumoTypeOK, NonceInv, NeverAheadOfAccount, Requests
<1>1. ASSUME NEW nonce \in {0, account[payment.source]}, ReplyNonce(nonce) PROVE IInv'
  <2>1. nonce \in Nat /\ payment.source \in Addresses /\ nonce <= account[payment.source]
    BY DEF Payment
  <2>2. tx' = NoTx
    BY <1>1, ReplyFacts DEF ReplyNonce
  <2>. QED  BY <1>1, <2>1, <2>2, ReplyFacts DEF ReplyNonce, server
<1>2. ASSUME NEW price \in GasPrices \cup {0}, ReplyGasPrice(price) PROVE IInv'
  BY <1>2, ReplyFacts, BumoAssumption DEF ReplyGasPrice, server
<1>3. CASE ReplyBroadcast
  <2>1. s_is_broadcast_ok' \in BOOLEAN
    BY <1>3, BroadcastFacts
  <2>2. UNCHANGED <<s_nonce, s_gas_price, nonceOf, server>>
    BY <1>3 DEF ReplyBroadcast
  <2>. QED  BY <1>3, <2>1, <2>2, ReplyFacts DEF ReplyBroadcast, server
<1>4. CASE ReplyUseless
  BY <1>4, ReplyFacts DEF ReplyUseless, server
<1>5. CASE ReplyThrows
  BY <1>5 DEF ReplyThrows, Polling, server, statics
<1>. QED  BY <1>1, <1>2, <1>3, <1>4, <1>5 DEF Answers

\* The program's own steps.
LEMMA ProgramInv == ASSUME IInv, Program PROVE IInv'
<1>. USE DEF IInv, BumoTypeOK, NonceInv, NeverAheadOfAccount, Requests, server, statics
<1>1. CASE NonceReturned
  <2>1. tx' = [payment |-> payment, number |-> payments, nonce |-> s_nonce + 1, gas_price |-> 0]
    BY <1>1 DEF NonceReturned
  <2>2. pc' = "get_gas_price" /\ conn' \in {"connecting", "none"} /\ s_exit_flag' = 0
    BY <1>1, StartFacts DEF NonceReturned
  <2>3. payment.source \in Addresses
    BY DEF Payment
  <2>4. tx' \in Tx
    BY <2>1 DEF Tx
  <2>5. nonceOf \subseteq {payment.source} => s_nonce <= account[payment.source]
    BY <2>3
  <2>6. NeverAheadOfAccount'
    BY <1>1, <2>1, <2>3, <2>5 DEF NonceReturned
  <2>. QED  BY <1>1, <2>2, <2>4, <2>6 DEF NonceReturned
<1>2. CASE GasPriceReturned
  <2>1. tx \in Tx /\ tx' = [tx EXCEPT !.gas_price = s_gas_price]
    BY <1>2 DEF GasPriceReturned, Returned
  <2>2. tx' \in Tx /\ tx'.payment = tx.payment /\ tx'.nonce = tx.nonce
    BY <2>1 DEF Tx
  <2>3. NeverAheadOfAccount'
    BY <1>2, <2>1, <2>2, TxIsNotNoTx DEF GasPriceReturned
  <2>. QED  BY <1>2, <2>2, <2>3 DEF GasPriceReturned
<1>3. CASE BroadcastReturned
  BY <1>3 DEF BroadcastReturned
<1>4. ASSUME NEW pubkey \in {"raw", "encoded"}, SignAndSubmit(pubkey) PROVE IInv'
  BY <1>4, StartFacts DEF SignAndSubmit
<1>. QED  BY <1>1, <1>2, <1>3, <1>4 DEF Program

LEMMA NextInv == ASSUME IInv, [Next]_vars PROVE IInv'
<1>. USE DEF IInv, BumoTypeOK, NonceInv, NeverAheadOfAccount, server, statics
<1>1. ASSUME NEW p \in Payment, Pay(p) PROVE IInv'
  <2>1. /\ payment' \in Payment /\ payments' \in Nat /\ tx' = NoTx
        /\ UNCHANGED <<s_nonce, s_gas_price, s_is_broadcast_ok, nonceOf, server>>
        /\ result' = FALSE
    BY <1>1 DEF Pay
  <2>2. CASE Refused(p)
    <3>1. pc' = "sign" /\ conn' = conn /\ s_exit_flag' = s_exit_flag
      BY <1>1, <2>2 DEF Pay
    <3>. QED  BY <2>1, <3>1
  <2>3. CASE ~Refused(p)
    <3>1. pc' = "get_nonce" /\ conn' \in {"connecting", "none"} /\ s_exit_flag' = 0
      BY <1>1, <2>3 DEF Pay, Start
    <3>. QED  BY <2>1, <3>1 DEF Requests
  <2>. QED  BY <2>2, <2>3
<1>2. CASE Program
  BY <1>2, ProgramInv
<1>3. CASE Connect
  BY <1>3 DEF Connect
<1>4. CASE CloseConnection
  BY <1>4 DEF CloseConnection
<1>5. CASE Answers
  BY <1>5, AnswersInv
<1>6. CASE ServerAccepts
  <2>. DEFINE a == json.payment.source
  <2>1. account' = [account EXCEPT ![a] = account[a] + 1]
    BY <1>6 DEF ServerAccepts
  <2>2. account' \in [Addresses -> Nat] /\ \A b \in Addresses : account[b] <= account'[b]
    <3>1. CASE a \in Addresses
      BY <2>1, <3>1
    <3>2. CASE a \notin Addresses
      <4>1. account' = [b \in Addresses |-> IF b = a THEN account[a] + 1 ELSE account[b]]
        BY <2>1
      <4>. QED  BY <3>2, <4>1
    <3>. QED  BY <3>1, <3>2
  <2>3. tx \in Tx => tx.payment.source \in Addresses /\ tx.nonce \in Nat
    BY DEF Tx, Payment
  <2>. QED  BY <1>6, <2>2, <2>3 DEF ServerAccepts
<1>7. CASE UNCHANGED vars
  BY <1>7 DEF vars
<1>. QED  BY <1>1, <1>2, <1>3, <1>4, <1>5, <1>6, <1>7 DEF Next

\* The statics, the payment and the server keep their types, and nothing is
\* submitted that is not there.
THEOREM BumoTypeOKHolds == Spec => []BumoTypeOK
<1>1. IInv => BumoTypeOK
  BY DEF IInv
<1>. QED  BY <1>1, InitInv, NextInv, PTL DEF Spec

\* No stale nonce of the paying account makes a transaction run ahead of it,
\* whatever was answered, lost or crashed before.
THEOREM NeverAheadOfAccountHolds == Spec => []NeverAheadOfAccount
<1>1. IInv => NeverAheadOfAccount
  BY DEF IInv
<1>. QED  BY <1>1, InitInv, NextInv, PTL DEF Spec

(***************************************************************************)
(* What the polling calls return.                                          *)
(***************************************************************************)
\* The flag ends a call only once its connection is closed, and the static
\* variable of the request under way holds the answer to it, if there is one.
AnswerInv ==
  /\ pc \in Requests /\ s_exit_flag = 1 => conn = "closed"
  /\ heard # {} =>
       /\ pc = "get_nonce" => heard = {s_nonce}
       /\ pc = "get_gas_price" => heard = {s_gas_price}
       /\ pc = "broadcast" => heard = {s_is_broadcast_ok}

LEMMA InitAnswer == Init => AnswerInv
BY DEF Init, AnswerInv, Requests

LEMMA NextAnswer == ASSUME IInv, AnswerInv, [Next]_vars PROVE AnswerInv'
<1>. USE DEF AnswerInv, Requests, statics, server
<1>1. ASSUME NEW p \in Payment, Pay(p) PROVE AnswerInv'
  <2>1. CASE Refused(p)
    BY <1>1, <2>1 DEF Pay
  <2>2. CASE ~Refused(p)
    BY <1>1, <2>2 DEF Pay, Start
  <2>. QED  BY <2>1, <2>2
<1>2. CASE Program
  <2>1. CASE NonceReturned
    BY <2>1 DEF NonceReturned, Start
  <2>2. CASE GasPriceReturned
    BY <2>2 DEF GasPriceReturned
  <2>3. CASE BroadcastReturned
    BY <2>3 DEF BroadcastReturned
  <2>4. ASSUME NEW pubkey \in {"raw", "encoded"}, SignAndSubmit(pubkey) PROVE AnswerInv'
    <3>1. \/ pc' = "idle"
          \/ s_exit_flag' = 0 /\ heard' = {}
      BY <2>4 DEF SignAndSubmit, Start
    <3>. QED  BY <3>1
  <2>. QED  BY <1>2, <2>1, <2>2, <2>3, <2>4 DEF Program
<1>3. CASE Connect
  BY <1>3 DEF Connect, Polling
<1>4. CASE CloseConnection
  BY <1>4 DEF CloseConnection
<1>5. CASE Answers
  <2>1. ASSUME NEW nonce \in {0, account[payment.source]}, ReplyNonce(nonce)
        PROVE  AnswerInv'
    BY <2>1 DEF ReplyNonce, Reply, Polling
  <2>2. ASSUME NEW price \in GasPrices \cup {0}, ReplyGasPrice(price)
        PROVE  AnswerInv'
    BY <2>2 DEF ReplyGasPrice, Reply, Polling
  <2>3. CASE ReplyBroadcast
    BY <2>3 DEF ReplyBroadcast, Reply, Polling
  <2>4. CASE ReplyUseless
    BY <2>4 DEF ReplyUseless, Reply, Polling
  <2>5. CASE ReplyThrows
    BY <2>5 DEF ReplyThrows
  <2>. QED  BY <1>5, <2>1, <2>2, <2>3, <2>4, <2>5 DEF Answers
<1>6. CASE ServerAccepts
  BY <1>6 DEF ServerAccepts
<1>7. CASE UNCHANGED vars
  BY <1>7 DEF vars
<1>. QED  BY <1>1, <1>2, <1>3, <1>4, <1>5, <1>6, <1>7 DEF Next

\* The steps that leave a request: its return, or a crash.
LEMMA LeavesRequest ==
  ASSUME [Next]_vars, pc \in Requests, pc' # pc, pc' # "crashed"
  PROVE  NonceReturned \/ GasPriceReturned \/ BroadcastReturned
<1>1. pc # "idle" /\ pc # "sign"
  BY DEF Requests
<1>2. ~ \E p \in Payment : Pay(p)
  BY <1>1 DEF Pay
<1>3. ~ \E pubkey \in {"raw", "encoded"} : SignAndSubmit(pubkey)
  BY <1>1 DEF SignAndSubmit
<1>4. ~Connect /\ ~CloseConnection /\ ~ServerAccepts /\ ~UNCHANGED vars
  BY DEF Connect, CloseConnection, ServerAccepts, vars
<1>5. ~Answers
  BY DEF Answers, ReplyNonce, ReplyGasPrice, ReplyBroadcast, ReplyUseless, ReplyThrows, Reply
<1>. QED  BY <1>2, <1>3, <1>4, <1>5 DEF Next, Program

\* A call returns on its own closed connection, never on a flag left set by the
\* call before it.
THEOREM ReturnsAfterCloseHolds == Spec => ReturnsAfterClose
<1>1. ASSUME AnswerInv, [Next]_vars
      PROVE  [(pc \in Requests /\ pc' \notin {pc, "crashed"}) => (conn = "closed")]_vars
  <2>. SUFFICES ASSUME pc \in Requests, pc' \notin {pc, "crashed"}
                PROVE  conn = "closed"
    OBVIOUS
  <2>1. NonceReturned \/ GasPriceReturned \/ BroadcastReturned
    BY <1>1, LeavesRequest
  <2>2. s_exit_flag = 1
    BY <2>1 DEF NonceReturned, GasPriceReturned, BroadcastReturned, Returned
  <2>. QED  BY <1>1, <2>2 DEF AnswerInv
<1>. QED  BY <1>1, InitInv, NextInv, InitAnswer, NextAnswer, PTL DEF Spec, ReturnsAfterClose

\* An answer that was heard is the one that is used: in the transaction's nonce
\* and price, and in the result.
THEOREM ReturnsTheAnswerHolds == Spec => ReturnsTheAnswer
<1>. DEFINE Told ==
       heard # {} =>
         /\ pc = "get_nonce" /\ pc' = "get_gas_price" => heard = {tx'.nonce - 1}
         /\ pc = "get_gas_price" /\ pc' = "sign" => heard = {tx'.gas_price}
         /\ pc = "broadcast" /\ pc' = "idle" => heard = {result'}
<1>1. ASSUME IInv, AnswerInv, [Next]_vars PROVE Told
  <2>. SUFFICES ASSUME heard # {} PROVE Told
    OBVIOUS
  <2>1. ASSUME pc = "get_nonce", pc' = "get_gas_price" PROVE heard = {tx'.nonce - 1}
    <3>1. NonceReturned
      BY <1>1, <2>1, LeavesRequest
         DEF Requests, GasPriceReturned, BroadcastReturned, Returned
    <3>2. tx'.nonce = s_nonce + 1 /\ s_nonce \in Nat
      BY <1>1, <3>1 DEF NonceReturned, IInv, BumoTypeOK
    <3>. QED  BY <1>1, <2>1, <3>2 DEF AnswerInv
  <2>2. ASSUME pc = "get_gas_price", pc' = "sign" PROVE heard = {tx'.gas_price}
    <3>1. GasPriceReturned
      BY <1>1, <2>2, LeavesRequest
         DEF Requests, NonceReturned, BroadcastReturned, Returned
    <3>2. tx \in Tx /\ tx' = [tx EXCEPT !.gas_price = s_gas_price]
      BY <1>1, <2>2, <3>1 DEF GasPriceReturned, IInv, NonceInv
    <3>3. tx'.gas_price = s_gas_price
      BY <3>2 DEF Tx
    <3>. QED  BY <1>1, <2>2, <3>3 DEF AnswerInv
  <2>3. ASSUME pc = "broadcast", pc' = "idle" PROVE heard = {result'}
    <3>1. BroadcastReturned
      BY <1>1, <2>3, LeavesRequest
         DEF Requests, NonceReturned, GasPriceReturned, Returned
    <3>. QED  BY <1>1, <2>3, <3>1 DEF BroadcastReturned, AnswerInv
  <2>. QED  BY <2>1, <2>2, <2>3
<1>2. IInv /\ AnswerInv /\ [Next]_vars => [Told]_vars
  BY <1>1
<1>. QED  BY <1>2, InitInv, NextInv, InitAnswer, NextAnswer, PTL DEF Spec, ReturnsTheAnswer

=============================================================================
