-------------------------------- MODULE Bumo --------------------------------
(***************************************************************************)
(* Payments on Bumo: BumoApi.cpp, and Bumo/BumoRequest.cpp, which asks the *)
(* server over mongoose for the account's nonce and the gas price and      *)
(* submits the signed transaction.  The three requests share static        *)
(* variables, which live as long as the process: a request that gets no    *)
(* usable answer returns what an earlier one left.  There is no timeout.   *)
(***************************************************************************)
EXTENDS Naturals, FiniteSets

CONSTANTS
  Addresses,     \* the accounts that pay
  GasPrices,     \* what the server can quote
  ItemsAnswered, \* whether a reply to a submission says what became of it
  MaxPayments    \* bound: payments made by one process

ASSUME BumoAssumption ==
  GasPrices \subseteq Nat /\ MaxPayments \in Nat /\ ItemsAnswered \in BOOLEAN

VARIABLES
  pc,                 \* the request under way, or where the payment is
  payment,            \* the arguments of make_unsigned_tx_*
  conn,               \* the connection of the request
  s_exit_flag, s_nonce, s_gas_price, s_is_broadcast_ok,
  heard,              \* the usable answer to this request, {} until there is one
  nonceOf,            \* the account s_nonce was read for, {} at first
  tx,                 \* the unsigned transaction, or NoTx for ""
  json,               \* the signed transaction, or NoTx for ""
  result,             \* what broadcast_transaction_json returned
  account,            \* the server: the nonce of each account
  accepted,           \* the server: the submissions it has accepted
  payments            \* counts the payments

statics == <<s_exit_flag, s_nonce, s_gas_price, s_is_broadcast_ok>>
server == <<account, accepted>>
vars == <<pc, payment, conn, statics, heard, nonceOf, tx, json, result, server, payments>>

Requests == {"get_nonce", "get_gas_price", "broadcast"}

Kinds == {"coin", "ATP", "CTP"}

\* complete: the addresses have 36 characters and the token has a name.
Payment == [kind : Kinds, source : Addresses, complete : BOOLEAN, amount : {0, 1}]

NoTx == [nonce |-> 0]
Tx == [payment : Payment, number : Nat, nonce : Nat, gas_price : Nat]

\* The key handed to make_sign_tx: the raw 64 digits, or the 76 of the encoded one.
PubKeys == {"raw", "encoded", "none"}

\* get_bumo_public_key encodes raw keys only.
BumoPublicKey(pubkey) == IF pubkey = "raw" THEN "encoded" ELSE "none"

Init ==
  /\ pc = "idle"
  /\ payment \in {p \in Payment : p.kind = "coin" /\ p.complete /\ p.amount = 1}
  /\ conn = "closed"
  /\ s_exit_flag = 0 /\ s_nonce = 0 /\ s_gas_price = 1000
  /\ s_is_broadcast_ok = FALSE
  /\ heard = {} /\ nonceOf = {}
  /\ tx = NoTx /\ json = NoTx /\ result = FALSE
  /\ account = [a \in Addresses |-> 0] /\ accepted = {}
  /\ payments = 0

(***************************************************************************)
(* The requests.                                                           *)
(***************************************************************************)
\* Slip: the flag that ends the polling is not reset.
StartsOnOldFlag(request) ==
  /\ pc' = request
  /\ heard' = {}
  /\ conn' \in {"connecting", "none"}
  /\ UNCHANGED s_exit_flag

\* mg_connect_http may have no connection to return, and nobody looks.
Start(request) ==
  /\ pc' = request
  /\ heard' = {}
  /\ conn' \in {"connecting", "none"}
  /\ s_exit_flag' = 0

Polling == pc \in Requests /\ s_exit_flag = 0

Connect ==
  /\ Polling /\ conn = "connecting"
  /\ conn' = "open"
  /\ UNCHANGED <<pc, payment, statics, heard, nonceOf, tx, json, result, server, payments>>

\* Slip: the close handler does not end the polling.
ClosesQuietly ==
  /\ Polling /\ conn \in {"connecting", "open", "replied"}
  /\ conn' = "closed"
  /\ UNCHANGED <<pc, payment, statics, heard, nonceOf, tx, json, result, server, payments>>

\* MG_EV_CLOSE: the connection failed, was closed by the server, or is closed
\* after the reply.
CloseConnection ==
  /\ Polling /\ conn \in {"connecting", "open", "replied"}
  /\ conn' = "closed"
  /\ s_exit_flag' = 1
  /\ UNCHANGED <<pc, payment, s_nonce, s_gas_price, s_is_broadcast_ok, heard, nonceOf, tx,
                 json, result, server, payments>>

Reply ==
  /\ Polling /\ conn = "open"
  /\ conn' = "replied"
  /\ UNCHANGED <<pc, payment, s_exit_flag, tx, json, result, payments>>

\* A reply with error_code 0, or without one; a missing nonce
\* or gas price counts as 0.
ReplyNonce(nonce) ==
  /\ pc = "get_nonce" /\ nonce \in {0, account[payment.source]}
  /\ Reply
  /\ s_nonce' = nonce
  /\ heard' = {nonce} /\ nonceOf' = {payment.source}
  /\ UNCHANGED <<s_gas_price, s_is_broadcast_ok, server>>

ReplyGasPrice(price) ==
  /\ pc = "get_gas_price"
  /\ Reply
  /\ s_gas_price' = price
  /\ heard' = {price}
  /\ UNCHANGED <<s_nonce, s_is_broadcast_ok, nonceOf, server>>

\* The server takes a transaction that is next for its account.
ServerAccepts ==
  /\ Polling /\ pc = "broadcast" /\ conn = "open"
  /\ json.nonce = account[json.payment.source] + 1
  /\ account' = [account EXCEPT ![json.payment.source] = json.nonce]
  /\ accepted' = accepted \cup {json}
  /\ UNCHANGED <<pc, payment, conn, statics, heard, nonceOf, tx, json, result, payments>>

\* results[0] has an error_code, which is 0 if the transaction was accepted; where
\* there is no entry, or no code in it, jsoncpp reads a 0 as well.
ReplyBroadcast ==
  /\ pc = "broadcast"
  /\ Reply
  /\ \/ s_is_broadcast_ok' = (json \in accepted)
     \/ ~ItemsAnswered /\ s_is_broadcast_ok' = TRUE
  /\ heard' = {s_is_broadcast_ok'}
  /\ UNCHANGED <<s_nonce, s_gas_price, nonceOf, server>>

\* A reply that is not JSON, not an object, says error_code # 0, or to a
\* submission has no array of results.
ReplyUseless ==
  /\ Reply
  /\ UNCHANGED <<s_nonce, s_gas_price, s_is_broadcast_ok, heard, nonceOf, server>>

\* A field of the wrong type makes jsoncpp throw.
ReplyThrows ==
  /\ Polling /\ conn = "open"
  /\ pc' = "crashed"
  /\ UNCHANGED <<payment, conn, statics, heard, nonceOf, tx, json, result, server, payments>>

Returned(request) == pc = request /\ s_exit_flag = 1

(***************************************************************************)
(* A payment: make_unsigned_tx_*, sign_tx, make_sign_tx and, as two of the *)
(* tests do and the third leaves out, broadcast_transaction_json.          *)
(***************************************************************************)
Refused(p) == ~p.complete \/ (p.kind = "ATP" /\ p.amount = 0)

Pay(p) ==
  /\ pc = "idle" /\ payments < MaxPayments
  /\ payment' = p
  /\ payments' = payments + 1
  /\ tx' = NoTx /\ json' = NoTx /\ result' = FALSE
  /\ IF Refused(p) THEN pc' = "sign" /\ UNCHANGED <<conn, heard, s_exit_flag>>
                   ELSE Start("get_nonce")
  /\ UNCHANGED <<s_nonce, s_gas_price, s_is_broadcast_ok, nonceOf, server>>

\* Slip: the static nonce is the one that is counted up.
CountsStaticNonce ==
  /\ Returned("get_nonce")
  /\ s_nonce' = s_nonce + 1
  /\ tx' = [payment |-> payment, number |-> payments, nonce |-> s_nonce + 1,
            gas_price |-> 0]
  /\ Start("get_gas_price")
  /\ UNCHANGED <<payment, s_gas_price, s_is_broadcast_ok, nonceOf, json, result,
                 server, payments>>

\* The nonce and gas_price of the caller are overwritten.  s_nonce is read here
\* and added to in a local variable.
NonceReturned ==
  /\ Returned("get_nonce")
  /\ tx' = [payment |-> payment, number |-> payments, nonce |-> s_nonce + 1,
            gas_price |-> 0]
  /\ Start("get_gas_price")
  /\ UNCHANGED <<payment, s_nonce, s_gas_price, s_is_broadcast_ok, nonceOf, json,
                 result, server, payments>>

\* Slip: the caller's gas price is kept.
KeepsCallersPrice ==
  /\ Returned("get_gas_price")
  /\ tx' = [tx EXCEPT !.gas_price = 1000]
  /\ pc' = "sign"
  /\ UNCHANGED <<payment, conn, statics, heard, nonceOf, json, result, server, payments>>

GasPriceReturned ==
  /\ Returned("get_gas_price")
  /\ tx' = [tx EXCEPT !.gas_price = s_gas_price]
  /\ pc' = "sign"
  /\ UNCHANGED <<payment, conn, statics, heard, nonceOf, json, result, server, payments>>

\* What make_sign_tx returns for a transaction sign_tx has signed.
SignedTx(t, pubkey) ==
  IF t = NoTx \/ pubkey # "encoded" THEN NoTx
  ELSE [payment |-> t.payment, number |-> t.number, nonce |-> t.nonce,
        gas_price |-> t.gas_price, public_key |-> BumoPublicKey(pubkey)]

\* Slip: whatever make_sign_tx returned is submitted.
SubmitsAnything(pubkey) ==
  /\ pc = "sign"
  /\ json' = SignedTx(tx, pubkey)
  /\ IF payment.kind = "coin"
       THEN pc' = "idle" /\ UNCHANGED <<conn, heard, s_exit_flag>>
       ELSE Start("broadcast")
  /\ UNCHANGED <<payment, s_nonce, s_gas_price, s_is_broadcast_ok, nonceOf, tx,
                 result, server, payments>>

\* An empty transaction is not submitted.
SignAndSubmit(pubkey) ==
  /\ pc = "sign"
  /\ json' = SignedTx(tx, pubkey)
  /\ IF json' = NoTx \/ payment.kind = "coin"
       THEN pc' = "idle" /\ UNCHANGED <<conn, heard, s_exit_flag>>
       ELSE Start("broadcast")
  /\ UNCHANGED <<payment, s_nonce, s_gas_price, s_is_broadcast_ok, nonceOf, tx,
                 result, server, payments>>

BroadcastReturned ==
  /\ Returned("broadcast")
  /\ result' = s_is_broadcast_ok
  /\ pc' = "idle"
  /\ UNCHANGED <<payment, conn, statics, heard, nonceOf, tx, json, server, payments>>

Program ==
  \/ NonceReturned \/ GasPriceReturned \/ BroadcastReturned
  \/ \E pubkey \in {"raw", "encoded"} : SignAndSubmit(pubkey)

Answers ==
  \/ \E nonce \in {0, account[payment.source]} : ReplyNonce(nonce)
  \/ \E price \in GasPrices \cup {0} : ReplyGasPrice(price)
  \/ ReplyBroadcast
  \/ ReplyUseless \/ ReplyThrows

Next ==
  \/ \E p \in Payment : Pay(p)
  \/ Program \/ Connect \/ CloseConnection \/ Answers \/ ServerAccepts

\* The program runs, and mongoose closes a connection it has had the reply of;
\* whether the server ever replies, or closes, is its own affair.
Spec ==
  /\ Init /\ [][Next]_vars
  /\ WF_vars(Program) /\ WF_vars(conn = "replied" /\ CloseConnection)

(***************************************************************************)
(* Properties.                                                             *)
(***************************************************************************)
\* The type invariant of the statics, the payment and the server; a submission
\* has a transaction.
BumoTypeOK ==
  /\ pc \in Requests \cup {"idle", "sign", "crashed"}
  /\ payment \in Payment
  /\ conn \in {"none", "connecting", "open", "replied", "closed"}
  /\ s_exit_flag \in {0, 1} /\ s_nonce \in Nat /\ s_gas_price \in Nat
  /\ {s_is_broadcast_ok, result} \subseteq BOOLEAN
  /\ tx = NoTx \/ tx \in Tx
  /\ pc = "broadcast" => json # NoTx
  /\ account \in [Addresses -> Nat]

\* What get_nonce, get_gas_price and broadcast_tx_json were told in this call is
\* what ends up in the transaction and in the result, not what an earlier call
\* or the caller's arguments left.
ReturnsTheAnswer ==
  [][heard # {} =>
       /\ pc = "get_nonce" /\ pc' = "get_gas_price" => heard = {tx'.nonce - 1}
       /\ pc = "get_gas_price" /\ pc' = "sign" => heard = {tx'.gas_price}
       /\ pc = "broadcast" /\ pc' = "idle" => heard = {result'}]_vars

\* A polling call returns only after its own connection is closed: not on the
\* flag an earlier call has set, and not while a handler may still run for it.
ReturnsAfterClose ==
  [][(pc \in Requests /\ pc' \notin {pc, "crashed"}) => (conn = "closed")]_vars

\* As long as s_nonce is about the paying account, a stale one repeats a nonce,
\* which the server refuses; it never runs ahead of the account, where the
\* transaction would wait for the ones missing before it.
NeverAheadOfAccount ==
  tx # NoTx /\ nonceOf \subseteq {tx.payment.source}
    => tx.nonce <= account[tx.payment.source] + 1

\* A payment comes to an end unless a request has no connection, or the server
\* neither answers nor closes it.
HangsOnlyOnNetwork ==
  []<>(pc \in {"idle", "crashed"}) \/ <>[](conn \in {"none", "connecting", "open"})

\* BumoTest.cpp:109 prints "broadcast tx ok." when broadcast_transaction_json
\* returned true.
OkMeansAccepted == pc = "idle" /\ result => json \in accepted

=============================================================================
