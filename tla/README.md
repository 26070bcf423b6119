# TokenCore: a verification development

TokenCore is a C++ library of transaction builders for several chains (Bitcoin
and Omni USDT, Bumo, Ethereum, EOS, TRON, BHP), with an Android binding in which
one Java object stands for one transaction, a command-line client (`TCTest`) that
runs payments end to end against an HTTP server and a hardware wallet, and
vendored cryptography.  This directory holds TLA+ modules translated from that
code, the TLC configurations that check them, and theorems that TLAPS checks.

Contents: [inventory](#inventory), [plan](#plan), [modules](#modules),
[runs](#runs), [bounds](#bounds), [fairness](#fairness), [proofs](#proofs),
[disagreements](#where-the-code-and-its-text-disagree),
[assumptions and omissions](#assumptions-and-omissions).

## Inventory

Paths are below `src/`.

### BTC and USDT transaction builder — `TokenCore/BtcApi.cpp`, `TokenCommon.h`

* State: one `UserTransaction`, filled in by the caller (payee, change address,
  amount, fee, unspent outputs) and by the functions (`tx_str`, `input_count`,
  `sig_data`, `public_key`).
* Operations: `make_unsign_tx`, `firmware_prepare_data`,
  `firmware_process_result`, `sign_tx`, `make_sign_tx`, `get_tx_len`, twice: the
  namespaces `BTCAPI` and `USDTAPI`.
* Interaction: functions on the caller's object; nothing is checked between them.
* Hard: the functions rewrite `tx_str` in place, so their order matters;
  `input_count` is written on failure too; `sig_data` grows; the difference of
  amounts is cast to `uint64_t`; the loop over outputs stops for one amount and
  the change is computed from another expression; the length is taken of a
  simulated payment with no fee.
* Correct if: the transaction pays the payee the amount, the miner the fee and
  the owner the rest; a signature goes to the input it is for.

### Transaction object of the Android binding — `Android/.../TxBtc.java`, `cpp/btc.cpp`

* State: the native handle, the coin, the index of the last preparation.
* Operations: `init`, `firmwarePrepareData`, `firmwareProcessResult`,
  `makeSignedTx`, `sign`, `close`.
* Interaction: the application calls in any order; between a preparation and its
  result the data goes over Bluetooth to a wallet that may answer late, out of
  order, or twice.
* Hard: every call may follow every other; a failed `_createTx` leaves `-1` as
  the handle; exceptions are not caught at the native border.
* Correct if: whatever is called, the object's transaction is the one of the
  order it was created for, and a complete sequence of calls yields a
  transaction the network takes.

### Payment flows of the client — `TCTest/BTCTest.cpp`

* State: the local variables of one flow and the `UserTransaction`.
* Operations: balance, unspent outputs, fee, build, sign (by a key, or input by
  input by the hardware wallet, with a code to type in between), print.
* Hard: a partial failure at every step; one flow ignores the result of
  `make_unsign_tx`; a negative length becomes an enormous unsigned fee count.
* Correct if: what is printed can be broadcast and costs what was computed; every
  flow ends.

### Bumo — `TokenCore/BumoApi.cpp`, `TokenCore/Bumo/BumoRequest.cpp`, `TCTest/BumoTest.cpp`

* State: four static variables shared by the three requests: the flag that ends
  the polling loop, the nonce, the gas price, the outcome of a submission.
* Operations: `get_nonce`, `get_gas_price`, `broadcast_tx_json`, each a polling
  loop round mongoose's event manager; the payment that uses them.
* Hard: no timeout; the connection may fail; a reply without a usable answer
  leaves the static variables at what an earlier request put there.
* Correct if: a request returns what the server told it; payments do not skip
  nonces; the reported outcome is the outcome.

### Synchronous server client — `TCTest/HttpAPI/BaseHttpClient.cpp`, `BtxonAPI.cpp`

* State: per object, the connection of the network manager's `finished` signal to
  the event loop; per process, the prices, the two rates and their time.
* Operations: `get`, `post` (a nested event loop ended by the reply or by a
  timer), a parser per reply, `updateHTicker` and `getPrice`.
* Hard: the reply races the timer; after a timeout the signal is disconnected;
  reply codes are mapped to return codes by four different parsers; unsigned
  subtraction of times.
* Correct if: a reply within the time is what the caller gets; a failure is never
  returned as success; prices are at most an hour old.

### Asynchronous server clients — `TCTest/HttpAPI/AsyncHttpClient.cpp`, `GateIOAsyncAPI.cpp`, `BtxonAsyncAPI.cpp`, `TCTest/BShield/CoinApiAdapter.cpp`

* State: per object, one slot for the callback of the request under way; per process,
  the rate of USDT to CNY and its time.
* Operations: `get`, `post`, `requestFinished`; the queries of `BtxonAsyncAPI`;
  `get24HLine`, which first asks for the rate; the adapter's calls.
* Interaction: everything in the thread of the event loop; callbacks are run by it.
* Hard: a second request on an object takes over the slot of the first; replies
  arrive in any order and after the caller has gone; `CoinApiAdapter` allocates
  one object per request for that reason and deletes it in the callback.
* Correct if: each callback runs at most once, with the reply to its request;
  objects live as long as their request; prices are converted at a real rate.

### EOS, Ethereum and TRON objects — `Android/.../TxEOS.java`, `TxEth.java`, `TxTRX.java`, `cpp/eos.cpp`, `eth.cpp`, `trx.cpp`, over `EosApi.cpp`, `EthApi.cpp`, `TronApi.cpp`

* State: one native handle and, except for Ethereum, one field with the device's answer.
* Operations: those of `TxBtc`, and `addAction` (EOS), `sign_game` (Ethereum).
* Hard: the field with the answer is never reset, neither by `init` nor by `close`;
  an EOS transaction collects actions and signatures; `init` returns 0 whatever
  `_createTx` did, and Ethereum's keeps a refusal's code as the handle; TRON's orders come as parameters or as JSON, which has types that
  only one direction of the conversion knows.
* Correct if: a caller who keeps to the order of the calls gets his order signed,
  whatever was done with the object before, and nothing shows an earlier order.

### Binding keys to an EOS account — `TCTest/EosTest.cpp`

* State: the keys of the account's `active` permission, on the network; the copy a
  client changes between reading and sending.
* Operations: `EOSImport`, `EOSDeImport`.
* Hard: the transaction replaces the permission as a whole, and is built from a
  copy; it may be lost, or be executed after its client has given up.
* Correct if: what is sent is accepted, and calls that overlap change no keys but their
  own and those that were changed since they read.

### Codecs — `TokenCore/Eth/RLP.c`, `TokenCore/EthApi.cpp`, `crypto/util.c`, `Eos/typename.cpp`

* State: none.
* Hard: lengths of lengths, sizes of one byte, leading zeros, numbers that are 0, the
  recovery value of a chain, the last character of an EOS name, which has four bits.
* Correct if: what is hashed and what is sent is the RLP encoding of one
  transaction, and never that of another; a name's number reads back as the name.

### The other parts

| part | code | state | why it is hard |
|---|---|---|---|
| Bitcoin script codec | `TokenCore/Btc/script.cpp`, `Usdt/createpayload.cpp` | none | variable-length integers, push opcodes, prefixes |
| u256 | `TokenCore/u256.cpp` | a 256-bit value | narrowing casts, negative `int`s, division by zero |
| BHP | `TokenCore/BhpApi.cpp`, `Bhp/bhp_transaction.cpp` | as BTC | decimal amounts in a 64-bit integer |
| Mnemonics and seeds | `TokenCore/TokenCommon.cpp` | none | 11-bit packing of entropy and checksum |
| Coin table, amount display | `TCTest/BShield/Coin.cpp`, `BWallet.cpp` | the table | placing the decimal point |
| Hardware wallet access | `TCTest/CosExt.cpp` | the link to the device | I/O; the protocol is a vendored library's |
| Cryptography, vendored code | `TokenCore/crypto`, `uEcc`, `jsoncpp`, `protobuf`, mongoose, mbedtls | | left aside |

The hazards at their lines, with the property that covers each or the reason why
none does, are listed under `hazards` in `PROJECT.json`.

## Plan

Done, in this order: the builder (`BtcTx`), the Android object over it (`TxBtc`,
with the abstract `PaymentOrder`), the proofs about both, the payment flows
(`BtcWallet`), Bumo (`Bumo`), the synchronous client and the price cache
(`SyncApi`), the asynchronous clients (`AsyncApi`, with the abstract `AnswerOnce`),
the other Android objects (`TxObjects`), key binding on EOS (`EosBind`), the codecs
of Ethereum and EOS (`Codecs`), and the proofs: `Bumo`, `SyncApi`, `AsyncApi`,
`EosBind`, the messages of `TxBtc` first, then what was left of each of them, the
payment flows, the other Android objects and the codecs.  Every safety property of the
passing runs has its theorem.

Next, in this order:

1. Callbacks of the asynchronous clients that start a further call, as the screens
   over `CoinApiAdapter` may.
2. `BhpTx`, should the Android library offer BHP again.

## Modules

| module | models | uses |
|---|---|---|
| `BtcTx` | the builder: no state, operators on a `UserTransaction` | |
| `TxBtc` | `TxBtc.java`, `btc.cpp`, the wallet's answers | `BtcTx` |
| `PaymentOrder` | what a wallet promises of one order (abstract) | |
| `TxBtcProps` | the properties of `TxBtc`, and its refinement of `PaymentOrder` | `TxBtc`, `PaymentOrder` |
| `MCTxBtc` | nine orders and two USDT ones to script addresses | `TxBtcProps` |
| `BtcTxLemmas` | lemmas about the builder | `BtcTx` |
| `TxBtcProofs` | theorems about `TxBtc` and what the hardware wallet is given | `TxBtcProps`, `BtcTxLemmas` |
| `BtcWallet` | the four flows of `BTCTest.cpp` with server and hardware wallet | `BtcTx` |
| `MCBtcWallet` | lists of unspent outputs and payees | `BtcWallet` |
| `BtcWalletProofs` | theorems about the flows | `BtcWallet`, `BtcTxLemmas` |
| `Bumo`, `BumoProofs` | Bumo payments, requests, statics, the server's accounts; theorems | |
| `SyncApi`, `SyncApiProofs` | event loop, timer, reply parsers, price cache; theorems | |
| `MCSyncApi` | shapes of replies and markets | `SyncApi` |
| `AnswerOnce` | what callers of an asynchronous client are promised (abstract) | |
| `AsyncApi`, `AsyncApiProofs` | the asynchronous clients and the adapter; theorems | `AnswerOnce` |
| `MCAsyncApi` | shapes of replies | `AsyncApi` |
| `TxObject` | what the other Android objects share: answers, returns, the order of calls | |
| `TxEos`, `TxEth`, `TxTrx` | the methods of each object, Java and native | `TxObject` |
| `TronTx` | TRON's builders and conversions to and from JSON | |
| `TxObjects` | an object of any of the three coins, its caller and device | `TxEos`, `TxEth`, `TxTrx` |
| `MCTxObjects` | orders, good and bad | `TxObjects` |
| `TxObjectsProofs` | theorems about the three objects | `TxObjects` |
| `EosBind` | binding keys to an EOS account | |
| `MCEosBind` | two accounts | `EosBind` |
| `EthRlp`, `EosName` | Ethereum transactions as bytes; names of EOS as numbers | |
| `Codecs`, `MCCodecs` | one input after another to both; the inputs | `EthRlp`, `EosName` |
| `EosEthProofs` | theorems about key binding and the codecs; lemmas on sums, sequences, bytes, powers of two | `EosBind`, `Codecs` |

Definitions marked "Slip" are not part of a model.  Each is a plausible mistake in
the definition that follows it; substituted for that definition it makes a
property fail, which shows that the property says something about the code.

### Builder: `BtcTx`

A transaction string is the record it encodes: inputs with an outpoint and a
script, outputs with a script and a value.  A locking script is its template and
hash, a signature is its key and the message it is over.  Everything the builder
decides is kept: the selection loop (`Selected`, `InputCount`), the change and
its cast (`Change`, `ToU64`), the 500-satoshi limit (`HasChange`), the order of
outputs (`Outputs`), the order of the checks and what each failure is, a code or
an exception (`MakeUnsignRet`, `Refusal`), and that `input_count` is written even
when the payment is refused (`MakeUnsignTx`).  `PreparedTx` and `FilledScript`
are the loops of `firmware_prepare_data`, `sign_tx` and `make_sign_tx` over the
inputs; reading `sig_data` beyond its end is `Garbage` or a fault.
`Honours`, `Complete` and `Skeleton` are the specification side: what a
transaction owes to an order and to the network.

### Object: `TxBtc`

| variable | code |
|---|---|
| `handle` | `TxBtc._tx`: 0, a pointer, -1, or a process that is gone |
| `isUsdt` | the coin, kept by `init` |
| `ut` | the `UserTransaction` behind the pointer |
| `prepareIndex` | `firmwarePrepareDataIndex` |
| `prepared`, `answers` | data that went to the wallet, answers that came back: sets, so that they can be delivered late, in any order and twice |
| `creates` | counts `init`, for the bound |

`CreateTx` and `CreateTxFails` are `init`; `PrepareData`, `ProcessResult`,
`MakeSignedTx`, `SignSucceeds` and `SignFails`, `Close` are the methods with their
native halves, each with every call it makes (`firmwarePrepareData` builds the
transaction anew before it prepares it).  `UseBadHandle` is any call on the handle
-1.  `DeviceSigns` is the hardware wallet.

`PaymentOrder` promises that an order gets at most one transaction, one that
carries it out, and that this stays what it is until the order is given up.  The
refinement hides the unlocking scripts (`Skeleton`), as the network's signatures
do.

### Flows: `BtcWallet`

`pc` names the next call of `test_firmware_sign`, `test_sign`, `test_usdt_sign` or
`sp_test_sign`; `ut` is the flow's `UserTransaction`, `index` the signing loop's
`i`, `device` the message the hardware wallet works on.  `Fails` is the return of
any call to the outside that fails; `AskCode`, `TypeCode`, `Answer`, `Refuse` are
the status words of the hardware wallet.

### Bumo: `Bumo`

`s_exit_flag`, `s_nonce`, `s_gas_price`, `s_is_broadcast_ok` are the code's static
variables.  `conn` is the connection of the request under way; `Start` is the
beginning of each request function, `Connect`, the `Reply…` actions and
`CloseConnection` are the event handler, `NonceReturned`, `GasPriceReturned`,
`BroadcastReturned` what the caller does once the polling loop has ended.
`account` and `accepted` are the server: it accepts a transaction with the next
nonce of its account and may lose its reply; unless `ItemsAnswered`, its reply may
have no result for it, which the handler takes for a success.  `heard` and `nonceOf` record what
the current request was told, and for which account the nonce was asked; no
action reads them.

### Client: `SyncApi`

`wired` is, over the objects, the connection of `finished` to the event loop's
`quit`; `timer`, `finished`, `reply` and `quit` belong to the request under way.
`Send` is `get` or `post` up to `exec`, `Arrives` and `Fires` are the two signals,
`LeaveLoop` is the rest of `get` and `post` with the `disconnect` after a timeout;
`WalletReturns` and `PriceReturns` parse the reply and return, in the same step,
as the code does.  Both signals may be handled before `exec` returns, so a reply
may be there and yet be dropped.  A reply is the shape the parsers see: JSON or
not, object or not, `error`, `code` and `data` missing or present; an error may come
with the code of a success.  `Young` computes
the age of the prices in `uint64_t`, and `SetClock` sets the clock forward and back.
`PriceTable` is the three nested loops of `updateHTicker`: the first quote of a coin
stays, the last quote of ETH and BTC is the rate.  `late` and `said` are there for the
properties only.

### Asynchronous clients: `AsyncApi`

`callbackFun` is each object's slot, `inFlight` the unfinished requests with their
reply, if it is there; `heard` is what each caller has been told and of which
request.  An object that `CoinApiAdapter` allocates is named by the call it is for
(`NewObject`); `living` and `dying` are its `new` and `deleteLater`.  `Ask` and
`Refuse` are a method of `BtxonAsyncAPI` up to its return, `get24HLine` that of
`GateIOAsyncAPI` with `checkUSDT_CNY`.  `Arrives` is the network,
`RequestFinished` the handler with the callback it runs, whatever callback is in the
slot by then: `TellBtxon`, `TakeTicker` (which sends the next request), `TakeLine`.
`lists` and `running` are the caller's list that `queryBalance` holds by reference:
to read one that is gone is undefined, a crash or not.  `crossed` and
`check_failed` are there for the properties only.

`AnswerOnce` promises that a call is answered at most once, with what the server
said to this call, or refused before the server is asked.  The calls through the
adapter implement it; calls that share a kept object do not, which is why
`AloneHearsItsOwn` speaks of those that were alone on theirs.

### The other objects: `TxObjects`

`major` is the coin, `handle` and `native` the native transaction (its fields differ
from coin to coin), `signResult` the Java field, `shown` what the device has last
been given, `ret` what the last call returned.  Each action is a method with its
native half; `Crash` is a null dereference or an exception that nothing catches.
`stage` follows a caller who makes each call in its place, once, after none that
failed; any other sequence is "spoilt" until the next `init`.  A signature is the
content it is valid for.  `TronTx` has one operator per builder and per conversion;
`Throws` says for which orders the code throws; `texts` of a JSON order are the texts
that are there beside its value.

### Key binding: `EosBind`

`active` is the permission on the network, `call` what each client has read and is
about to send, `sent` the transactions that may still be executed.  `Begin` is the
function up to the end of its change of the copy, `Send` the rest up to the reply,
`Fail` every way out with -1, also when the transaction is sent and the reply is
lost.  `Succeed` needs no transaction that was executed, since an error whose code is
a text is read as 0.  `Execute` and `Drop` are the network: it executes a valid transaction at any
later time, or never.  Keys are numbers in the order of their texts.  `read` and
`applied` record what a call has read and which were executed; no action reads them.

### Codecs: `EthRlp`, `EosName`, `Codecs`

Bytes are sequences of numbers.  `EthRlp` translates both forms of
`make_unsign_tx`, `wallet_encode_element` and `wallet_encode_list` and what `sign`
and `firmware_process_result` assemble; `RlpList` in it is the reference, the RLP
rules by themselves: the encodings of the items, one behind the other, under one
header.  `wallet_copy_rpl` cuts an element to its length modulo 256, after
`wallet_encode_list` has announced all of it.  `EosName` translates the packing of a name, for names of `MAX_NAME_IDX + 1`
characters; `Shift` is the left shift of 1.  `Codecs` takes one input after another.

## Runs

| run | asks | shows |
|---|---|---|
| `TxBtcFree` | any call after any call, two `init`s, late, repeated and unordered answers | the transaction is at all times the builder's for the order (`TransactionOfOrder`) and carries it out to the satoshi (`HonoursOrder`); retries send no message with old scripts in it (`FreshMessages`); the wallet is shown the right output (`ShowsPayee`); `sign` and an orderly `makeSignedTx` give a transaction the network accepts whatever came before (`SignCompletes`, `MakeSignedTxCompletes`); the object implements `PaymentOrder` (`OnePlanPerOrder`) |
| `BtcWalletFlows` | all four flows, every failure, every code | what is printed is fully signed and honours the order (`PrintedIsPayable`), the loop signs in order (`LoopSignsInOrder`), a flow ends unless its user never types the code (`EndsOrWaitsForCode`) |
| `Bumo` | two payments, requests that fail, hang or are answered uselessly, submissions answered without a result | an answer that came is the one used (`ReturnsTheAnswer`), a request returns only when its own connection is closed (`ReturnsAfterClose`), a stale nonce repeats one and never skips one (`NeverAheadOfAccount`), only the network keeps a payment waiting (`HangsOnlyOnNetwork`) |
| `SyncApi` | two objects, replies racing timers, clocks set back | only an object's own timeout makes it deaf (`DeafOnlyAfterTimeout`), prices are at most an hour old by the clock and from one reply (`ServesFreshPrices`), cross prices agree (`CrossPrices`), the shown balance never exceeds the held one (`NeverShowsMoreThanHeld`), a timeout or an error is not returned as a balance (`FetchedMeansAnswered`), every call returns (`CallsReturn`) |
| `AsyncApi` | overlapping calls on a kept object, a price object and through the adapter, replies in any order, a clock set back | a caller alone on his object hears once and of his own request (`AloneHearsItsOwn`); the adapter answers every call at most once with its own reply (`AnswersOnce`, a refinement), its objects live exactly as long as their request (`OwnObjects`), and each reply that came is handled (`FinishedIsAnswered`); prices converted at -1 come only of a failed fetch (`NoRateOnlyAfterFailure`) |
| `TxObjects` | any call after any call on an object of each coin, answers whole, cut off, or empty | the calls in their order give the order signed, whatever the object went through before (`OrderlyGetsSigned`); no call shows an earlier order (`NeverAnEarlierOrder`); which misuse brings the application down, and that no other use does (`CrashesOnlyWhenMisused`); TRON's JSON reads back (`JsonReadsBack`) |
| `EosBind` | two clients, three calls, transactions late or lost | the network accepts each import, and its key can sign alone (`ImportsAreAccepted`); however calls overlap, a key is lost only to its own de-import or to a call that began before it was there, and appears only by its own import or by a call that began while it was still there (`KeysChangeOnlyAsRead`) |
| `Codecs` | fields at every change of length, data longer than a byte can say | hashed and sent bytes are the RLP of one transaction, or what is sent is no RLP at all (`EncodesAsRlp`); names read back but for what the last character is cut by (`NamesReadBack`) |
| `ClaimUsdtPayee`, `ClaimLength`, `ClaimBumoOk`, `ClaimRate` | one statement of a comment or a test each | a behaviour of the code that contradicts it, see below |

## Bounds

* `TxBtcFree`: nine orders (`MCTxBtc`) chosen at the edges of the builder: one input
  or two, change just at the dust limit, one satoshi too little, each kind of bad
  address, USDT with and without change address; two unspent outputs, so that order
  and number of signatures matter; `MaxCreates = 2`, the second `init` being the one
  that can mix orders; `MaxSigs = 2` lets a list be complete, short, or wrong in
  order.  `U64 = 4096` is above every sum, as 2^64 is above all bitcoin there is.
* `BtcWalletFlows`: lists of no, two and three outputs; amounts that take one
  output, need another because of the fee, and exceed everything; two prices that
  make the fee cross an output's value, and a third.  `U256` only has to be larger
  than any fee.
* `Bumo`: two payments are needed for one to leave something for the next; two
  accounts so that a nonce can be another account's; two gas prices.  `ClaimBumoOk`
  sets `ItemsAnswered`, so that it shows what the code does on a server that answers
  all it is asked.
* `SyncApi`: two objects, because deafness is per object and prices per process; three
  clock readings, two of them within an hour and two not; thirteen shapes of
  reply, of each way a parser can turn, one of them an error with the code 200;
  markets with two exchanges, and without ETH.
* `AsyncApi`: one kept object, because it is the sharing of it that crosses; one price
  object; three calls, at most two of them to either server, so that two requests
  overlap and a third finds what they left; two clock readings more than ten hours
  apart, and `U64 = 16`, around which the age wraps when the clock is set back.
* `TxObjects`: two good orders for each coin, so that one can leave something to the
  other, and the bad ones; `EosActions` has an action for each order and one,
  `AddedActions`, that only `addAction` adds; `MaxEos = 5` actions and signatures, enough for an
  order with a signature to be extended and signed twice.
* `EosBind`: two clients overlap, and the third call finds what they did; four keys
  fall before, between and behind those of the accounts.
* `Codecs`: data of 1, 55, 56, 253, 254 and 256 bytes, of which the code copies the
  last two in part; numbers around 0, 128 and 256, chains 0, 1, 109 and 110, of which the property leaves out 0 and, where the
  signature is put in, 110; halves of a signature with up to two leading zeros; names of up
  to three characters, the last of which has four bits as the thirteenth has.

`CHECK_DEADLOCK FALSE` is set for `TxBtc` (after `MaxCreates` a closed object has
nothing left to do, nor has an aborted process), `Bumo` (no payment is left, the
process has crashed, or a request waits for a network that never answers), `AsyncApi`
and `EosBind` (no call is left to be made), and `TxObjects` (the application is down),
and for the claims about these.

## Fairness

* `TxBtc`: none, and no liveness is claimed; the application is free to stop.
* `BtcWallet`: weak fairness of `Progress`: the program runs, and each call to the
  server or the wallet answers or fails (the client has timeouts, the wallet a
  status word).  Not of `TypeCode`: nobody makes the user type.
* `Bumo`: weak fairness of the program's own steps and of closing a connection after
  its reply, which mongoose does.  Not of the connection or the server, since there is
  no timeout.
* `SyncApi`: weak fairness of `Program`: the event loop runs, its timer fires, and the
  code goes on after the loop.  Not of the server's replies.
* `AsyncApi`: weak fairness of `EventLoop`, the handling of replies and of
  `deleteLater`.  Not of `Arrives`: a request has no timeout.  One weak fairness of
  the whole loop is enough, because each of its steps uses up a reply or an object.
* `TxObjects`, `EosBind`, `Codecs`: none.

## Proofs

`BtcTxLemmas` holds lemmas about the builder for any lists, amounts and addresses:
the sum of outputs is monotone, the selected inputs are an initial part of the list
whose sum reaches the target if any does, the last one is needed, types are
preserved, and `UnsignedTxHonours`: what `make_unsign_tx` builds honours any order
it accepts.

Sums, the bytes of a number, concatenations and powers of two are recursive functions or
folds.  The induction theorems of the library take an operator as a parameter, which
the provers cannot instantiate; the proofs use its `WFMin` instead, which does not: with
`NatLessThanWellFounded` it gives that every set of naturals that is not empty
has a least element (`LeastNat`).  That a function defined by recursion
exists, and that it has a property everywhere, is shown by the least argument for which
it would fail.

`TxBtcProofs` proves, for every set of orders, hashes and bounds:

| theorem | states |
|---|---|
| `TypeOKHolds` | `Spec => []TypeOK` |
| `TransactionOfOrderHolds` | `Spec => []TransactionOfOrder` |
| `HonoursOrderHolds` | `KeyPayees` implies `Spec => []HonoursOrder` |
| `OnePlanPerOrderHolds` | `KeyPayees` implies `Spec => OnePlanPerOrder`, the refinement of `PaymentOrder` |
| `FreshMessagesHolds` | `Spec => []FreshMessages` |
| `ShowsPayeeHolds` | `KeyPayees` implies `Spec => ShowsPayee`, an action property |
| `SignCompletesHolds` | `Spec => SignCompletes`, an action property |
| `MakeSignedTxCompletesHolds` | `Spec => MakeSignedTxCompletes`, an action property |

The inductive invariant is `IInv == TypeOK /\ TransactionOfOrder`.  `HonoursOrder` is
not inductive: from a string that merely honours the order, `makeSignedTx` could not
be shown to keep it, because nothing would tie `input_count` to the string.
`TransactionOfOrder` says which string it is, the builder's for the order of the open
object, with its `input_count`; each action either builds that string anew, changes
only scripts, or leaves the object (`KeepsOrder`, `MakeUnsignKeeps`, `NextInv`).
`HonoursOrder` and the refinement then follow from `UnsignedTxHonours`.

`FreshMessages` and `ShowsPayee` follow from `IInv` by the shape of what
`firmwarePrepareData` hands over (`HandedShape`): it is built anew, so all its scripts
are empty but the one just put in, and its outputs are the builder's.
`SignCompletes` holds because `sign` builds the transaction anew, so that what it signs
for an input is what the network looks at (`PreparedIsSigned`); `MakeSignedTxCompletes`
because signatures that are there in the order of the inputs fill every script with
its own, whatever it held (`FilledCompletes`).

The other modules with theorems, one theorem `<Property>Holds` for each property:

| module | properties | inductive invariant |
|---|---|---|
| `BumoProofs` | `BumoTypeOK`, `NeverAheadOfAccount` | `IInv`: the types, the property, and `NonceInv`: the static nonce is never above the account it was asked for, and a transaction exists where the code has one |
| | `ReturnsAfterClose`, `ReturnsTheAnswer` | `AnswerInv` too: the flag ends a call only once its connection is closed, and the static variable of the request holds the answer that was heard |
| `SyncApiProofs` | `SyncTypeOK`, `DeafOnlyAfterTimeout`, `NeverShowsMoreThanHeld` | `IInv`: the types, what is there of a request at each place of the code (`RequestInv`), that only a fired timer disconnects (`WiringInv`), and that what is shown was said (`SaidInv`) |
| | `ServesFreshPrices`, `FetchedMeansAnswered`, `CrossPrices` | `PriceInv` too: the cache is the `PriceTable` of a market the server sent at the time noted; that the three loops of `updateHTicker` keep the first quote and the last rate is shown for markets of any size |
| `AsyncApiProofs` | `OwnObjects`, `NoRateOnlyAfterFailure` | for the first, that calls are numbered in order, requests belong to calls, the slot of an adapter's object holds its own call while it waits, and what lives was made for a call; for the second (`RateInv`), that a rate of -1 without a failed fetch means no young rate, so no line on its way |
| | `AsyncTypeOK`, `AloneHearsItsOwn`, `AnswersOnce` | `RestInv` for the types; `HearInv` for the others: the slot of an object nobody shares is its call's, what was heard on it was of that call and was heard once, and a request has one reply; `AnswersOnce` is the refinement of `AnswerOnce`, step by step |
| `TxObjectsProofs` | `TxObjectTypeOK`, `OrderlyGetsSigned`, `CrashesOnlyWhenMisused`, `NeverAnEarlierOrder`, `JsonReadsBack` | `ObjectInv`: for each coin (`EosInv`, `EthInv`, `TrxInv`) what the handle holds of the order of the last `init`, and what it holds at each stage of a caller who makes the calls in their order |
| `BtcWalletProofs` | `WalletTypeOK`, `PrintedIsPayable`, `LoopSignsInOrder` | `WalletInv`: the types (`FlowType`), at each place of a flow whether the builder's transaction is there (`Built`), that the signatures so far are those of the inputs before `index` (`SignedSoFar`), and what has been printed (`Printed`) |
| `EosEthProofs` | `BindTypeOK`, `ImportsAreAccepted`, `KeysChangeOnlyAsRead` | `BindInv`: the types, one of which is that a call's copy differs from what it read by its own key at most (`KeepsOthers`): nothing relates it to the permission it will replace; that each call has its own number and is executed once at most (`IdInv`); and that the permission on the network, and every import made from it, is one the network accepts (`ImportInv`) |
| | `EncodesAsRlp`, `NamesReadBack` | the types of the inputs (`CodecTypes`): the properties are about the operators |

Each was split in the same way: one lemma per conjunct or action, a lemma that one
step preserves the conjunction, and a last step that combines them.  Where a
property speaks of the objects of `AsyncApi` or the clients of `EosBind`, the sets
and bounds are any: nothing in the proofs counts to two.

`ImportsAreAccepted` rests on what `InsertAt` does to a permission whose keys are in
order: the new key goes behind the smaller ones, the keys stay in order, and the new
key's weight is the threshold, which it reaches alone.  `EncodesAsRlp` takes the lengths of the
headers apart (`HeaderIs`, `FieldIs`, `ListIs`): a payment that fits the code's buffers
needs at most two bytes for a length, and there the code's case distinctions are the
rules of RLP.  Of what is sent, either all elements are copied whole, and it is the
RLP list; or the data is cut, and the list is shorter than its head announces.  For `NamesReadBack` the packed number is, at each place of the name, the
sum of what is above, a multiple of the next higher place, the symbol, and what is
below, which is less than the place (`UpperIs`, `LowerIs`); the sign takes off a
multiple of every place (`SignIs`), so the division and the mask give the
symbol back (`UnpackedIs`), and the dots cut off at the end are those the name
does not have (`NameCut`); the cut of the last character is that of the name (`CutIs`).

Assumptions: those of the modules on their constants, which TLC evaluates on each
run.  Amounts fit `uint64_t`, all the unspent outputs together too, and `U64` is
above 546 (`BtcTx`, `TxBtc`, `BtcWallet`); `U256` is above `U64`, and a fee rate is
not 0, which `fetchFee` refuses (`BtcWallet`); clock readings are beyond the
cache's time (`SyncApi`, `AsyncApi`); a JSON object has a field once, and a
market is a list of tables of numbers (`SyncApi`); the kept objects are none of the
adapter's (`AsyncApi`); accounts hold permissions the network accepts (`EosBind`); an
order has its form (`TxObjects`); the numbers of a payment fit 32 bytes and its
data 1025 once encoded, as the buffers of `EthApi.h` do, and a name has at most
`MAX_NAME_IDX + 1` symbols (`Codecs`).

Three hypotheses stand in the theorems.  `KeyPayees`, for three of `TxBtcProofs`:
USDT orders pay and return to key addresses; without it the statements are false, as
`ClaimUsdtPayee` shows.  `PaysKeys` is the same for the payees of the flows.
`OwnLists`: the unspent outputs the server lists are locked to the wallet's key, as
they are when the server is asked for the wallet's address; a wallet cannot sign for
others.  The instances of the runs `TxBtcFree` and `BtcWalletFlows` meet all three.

Only model-checked are the four liveness properties, `EndsOrWaitsForCode`,
`HangsOnlyOnNetwork`, `CallsReturn` and `FinishedIsAnswered`: they need ENABLED and
fairness, which is out of the prover's reach.  The statements of the four `Claim` runs
are false and have no theorem.

## Where the code and its text disagree

| run | what the code does |
|---|---|
| `ClaimUsdtPayee` | USDT to a script address is locked to a key hash, which nobody can spend |
| `ClaimLength` | `get_tx_len` leaves the fee out when it selects inputs, so the real transaction may be longer than the fee pays for |
| `ClaimBumoOk` | a submission that fails is reported with the outcome of an earlier one |
| `ClaimRate` | prices are converted at the rate -1 after the rate could not be fetched, and given to the caller as a success |

The texts they contradict are quoted under `findings` in `PROJECT.json`.  The modules
model other behaviour that a reader may not expect, and that no text of the
repository excludes clearly enough to be listed: `TxBtc.init` returns 0 although
`_createTx` failed, and keeps -1 as the handle; a signed Bumo transaction never carries
the public key; after one timeout an object of the synchronous client waits out the
timer of every request and drops the reply; `getUTXO` returns 0 for a reply that is an
error; two calls that overlap on one kept asynchronous object both run the later
callback; an Ethereum signature whose half has two leading zeros is sent without its
last byte; an Ethereum transaction with more than 253 bytes of data is sent cut short
under a head that announces all of it, because `wallet_copy_rpl` takes the size of an
element as one byte (`RLP.c:15`, `RLP.c:78`), so that no node takes it (what is cut
still fits the 768 bytes of `EthApi.cpp:400`: no element leaves more than 255 bytes);
a submission to Bumo that is answered with an empty list of results is reported as a
success; overlapping calls of `EOSImport` and `EOSDeImport` undo each other.

## Assumptions and omissions

* Hashes, signatures and keys are ideal: a signature is its key and message.  Byte
  encodings are left out of `BtcTx`, except for what an encoding loses (a witness
  version) and the lengths `get_tx_len` adds up; a signature counts 72 bytes, where a
  real one has 71 to 73.
* An address text that is neither of the supported kinds nor base58 is "foreign", one
  with a known prefix that is not base58 is "broken".  Negative amounts and indices
  are not entered; the index of a preparation is within the list of unspent outputs.
* `sign_usdt` is used on USDT objects only, and one hardware wallet holds one key.
* The fault that reading beyond `sig_data` may cause is a choice between an abort and
  a script of garbage.
* In `SyncApi` one thread makes all calls: `BtxonAPI.h` says that the price functions are
  not thread-safe, and no handler in the repository calls the client from inside
  its event loop, so the mutex of `updateHTicker` is never contended.  The price a
  caller gets is the table's times one of the two rates; the rate is kept, the
  multiplication is not.  An object is not destroyed, and the clock is not in the
  first hour of 1970.
* The getters of `BtxonAPI` that are not modelled differ from `fetchBalance` only in
  the fields they read.
* In `AsyncApi` the fields of messages, rewards and transactions are left out, and a
  callback starts no new call, except the one for the rate.
* In `TxObjects` an EOS transaction has no header (reference block and expiry), a
  TRON contract's type URL is its type, and keys and addresses are good or not.
* In `EosBind` the keys of a permission differ, which the network demands; the loop of
  `EOSDeImport` skips the element after an erased one, which therefore changes nothing.
* `Codecs` leaves the contract-call encoder and the packing of EOS actions out.

### Not modelled

BHP's builder, which only its own test in `TCTest/BHPTest.cpp` reaches, its Android
object being commented out of `Tx.createTxByCoinMajor`; mnemonics
and seeds, which are hash chains but for a packing of bits; the coin table and the
formatting of amounts, which keep no state; the hardware wallet's protocol and
cryptography.  Most of the lines below `src/` are third-party or generated code: mongoose,
the protocol-buffer runtime and its generated `*.pb.cc` and `*.pb.h` files, mbedtls,
jsoncpp, cJSON and the elliptic-curve code.  They are the reason why the modules map a
small share of all lines.
