------------------------------ MODULE SyncApi -------------------------------
(***************************************************************************)
(* The synchronous server client: BaseHttpClient.cpp, whose get and post   *)
(* run an event loop until the reply or a timer ends it, and of            *)
(* BtxonAPI.cpp the balance, the unspent outputs, the submission of a      *)
(* transaction and the prices, which all objects of the process share.     *)
(*                                                                         *)
(* Clock readings are in any unit; Hour is an hour in it.  A reply is what *)
(* the parsers look at.                                                    *)
(***************************************************************************)
EXTENDS Integers, Sequences, FiniteSetsExt

CONSTANTS
  Objects,     \* the BtxonAPI objects
  Coins,       \* the symbols of gCoin
  Replies,     \* what the server can reply to a request about a wallet
  Markets,     \* what it can reply to /open/market
  Times,       \* the readings of the clock
  Hour,        \* how long prices are kept
  U64,         \* 2^64
  U256         \* 2^256

ASSUME HourAssumption == Hour \in Nat /\ U64 \in Nat /\ U256 \in Nat \ {0}

\* It is not the first hour of 1970, nor the end of time.
ASSUME TimesAssumption == Times \subseteq (Hour + 1)..(U64 - Hour - 1)

Kinds == {"balance", "utxo", "submit", "price"}

\* A number in a JSON object: <<>> if it is missing; text reads as 0.
Code == Seq(Int)
ToInt(code) == IF code = <<>> THEN 0 ELSE code[1]

\* form: the bytes are no JSON (as none are), JSON but no object, or an object.
\* error, data: the member is missing, not an object, or an object.
Reply ==
  [form : {"text", "array", "object"}, code : Code, data : {"none", "other", "object"},
   complete : BOOLEAN, balance : 0..(U256 - 1), froze_amount : 0..(U256 - 1),
   error : {"none", "other", "object"}, error_code : Code]

NoReply ==
  [form |-> "text", code |-> <<>>, data |-> "none", complete |-> FALSE,
   balance |-> 0, froze_amount |-> 0, error |-> "none", error_code |-> <<>>]

\* exchange: of each exchange, in order, the price of a coin in a base.
Bases == <<"usdt", "eth", "btc">>
NoMarket == [form |-> "text", exchange |-> <<>>, ok |-> FALSE, usdt_cny |-> 0]

ASSUME ReplyAssumption ==
  Replies \subseteq {r \in Reply : Len(r.code) <= 1 /\ Len(r.error_code) <= 1}

\* The exchanges form a list, and the prices are numbers.
ASSUME MarketAssumption ==
  \A m \in Markets :
    /\ m.exchange \in Seq({m.exchange[i] : i \in DOMAIN m.exchange})
    /\ \A i \in DOMAIN m.exchange :
         /\ DOMAIN m.exchange[i] \subseteq Coins \X {"usdt", "eth", "btc"}
         /\ \A quote \in DOMAIN m.exchange[i] : m.exchange[i][quote] \in Nat

VARIABLES
  pc,            \* idle, in a call, or in the event loop of a request
  object, kind,  \* the call
  wired,         \* the objects whose finished signal ends their event loop
  timer,         \* off, running, fired
  finished,      \* whether the reply is there
  reply,         \* the reply
  quit,          \* whether the event loop has been told to end
  ret,           \* what the last call returned
  shown,         \* the balance in CoinApiAdapter's caller
  clock,
  now,           \* the clock at the start of the call
  update_time,
  prices,        \* price_cache and usdt_cny, {} before there are any
  late,          \* the objects whose timer has ever fired; nothing reads it
  said           \* what the server said last: of the wallet, of the market, and
                 \* when it was asked for that; nothing reads it

request == <<timer, finished, reply, quit>>
cache == <<update_time, prices>>
vars == <<pc, object, kind, wired, request, ret, shown, clock, now, cache, late, said>>

(***************************************************************************)
(* What is made of a reply.                                                *)
(***************************************************************************)
parseResult(r) ==
  IF r.form # "object" THEN -1
  ELSE IF r.error = "object" THEN IF r.error_code = <<>> THEN -1 ELSE r.error_code[1]
  ELSE IF r.error = "other" \/ r.code = <<>> \/ r.data # "object" THEN -1
  ELSE r.code[1]

\* An error has no data, whatever its code.
Answered(r) == parseResult(r) = 200 /\ r.error # "object" /\ r.complete

\* Slip: the code of the reply is returned, as sendSignedTransaction does.
FetchReturnsCode(r) == IF Answered(r) THEN 0 ELSE parseResult(r)

fetchBalance(r) == IF Answered(r) THEN 0 ELSE -1

sendSignedTransaction(r) == IF Answered(r) THEN 0 ELSE parseResult(r)

\* The members of what is not an object are all missing.
RootCode(r) == IF r.form = "object" THEN ToInt(r.code) ELSE 0

getUTXO(r) ==
  IF r.form = "text" THEN -1
  ELSE IF RootCode(r) # 200 THEN RootCode(r)
  ELSE 0

\* Slip: the frozen part is subtracted whatever it is.
AvailableWraps(r) == (r.balance - r.froze_amount) % U256

Available(r) ==
  IF r.froze_amount >= r.balance THEN 0 ELSE r.balance - r.froze_amount

Return(k, r) ==
  CASE k = "balance" -> fetchBalance(r)
    [] k = "submit" -> sendSignedTransaction(r)
    [] k = "utxo" -> getUTXO(r)

(***************************************************************************)
(* The table of prices.                                                    *)
(***************************************************************************)
Quoting(exchange, coin, base) ==
  {i \in DOMAIN exchange : <<coin, base>> \in DOMAIN exchange[i]}

\* Slip: the rates of the two bases are exchanged.
RatesExchanged(exchange, base) ==
  LET other == IF base = "eth" THEN "btc" ELSE "eth"
      from == Quoting(exchange, other, "usdt")
  IN  IF base = "usdt" THEN 1
      ELSE IF from = {} THEN 0
      ELSE exchange[Max(from)][<<other, "usdt">>]

\* base_rate: each quote of ETH and BTC in USDT replaces the one before.
BaseRate(exchange, base) ==
  LET from == Quoting(exchange, base, "usdt")
  IN  IF base = "usdt" THEN 1
      ELSE IF from = {} THEN 0
      ELSE exchange[Max(from)][<<base, "usdt">>]

\* The bases, by number, in which a coin is quoted.
QuotedIn(exchange, coin) ==
  {b \in DOMAIN Bases : Quoting(exchange, coin, Bases[b]) # {}}

\* emplace keeps the first: of the bases, and of the exchanges.
PriceOf(exchange, coin) ==
  LET base == Bases[Min(QuotedIn(exchange, coin))]
  IN  exchange[Min(Quoting(exchange, coin, base))][<<coin, base>>]
        * BaseRate(exchange, base)

\* USDT is worth 1 unless the market knows better.
PriceTable(exchange) ==
  LET quoted == {c \in Coins : QuotedIn(exchange, c) # {}}
  IN  [c \in quoted \cup {"usdt"} |->
         IF c \in quoted THEN PriceOf(exchange, c) ELSE 1]

\* Slip: an age below zero, after the clock was set back, is small.
YoungIfNegative(age) == age <= Hour

\* The age of the prices is computed in uint64_t.
Young(age) == age % U64 <= Hour

(***************************************************************************)
(* The calls.                                                              *)
(***************************************************************************)
Init ==
  /\ pc = "idle"
  /\ object \in Objects /\ kind = "price"
  /\ wired = Objects
  /\ timer = "off" /\ finished = FALSE /\ reply = NoReply /\ quit = FALSE
  /\ ret = 0 /\ shown = 0
  /\ clock \in Times /\ now = clock
  /\ update_time = 0 /\ prices = {}
  /\ late = {}
  /\ said = [balance |-> 0, market |-> NoMarket, asked |-> 0]

\* The clock can be set, forward and back.
SetClock(time) ==
  /\ pc = "idle"
  /\ clock' = time
  /\ UNCHANGED <<pc, object, kind, wired, request, ret, shown, now, cache, late, said>>

Call(o, k) ==
  /\ pc = "idle"
  /\ pc' = "call" /\ object' = o /\ kind' = k
  /\ now' = clock /\ ret' = 0
  /\ UNCHANGED <<wired, request, shown, clock, cache, late, said>>

\* A coin that is not in the table has no identifier to ask the server for.
UnknownCoin ==
  /\ pc = "call" /\ kind # "price"
  /\ pc' = "idle" /\ ret' = -1
  /\ UNCHANGED <<object, kind, wired, request, shown, clock, now, cache, late, said>>

PricesKept ==
  /\ pc = "call" /\ kind = "price" /\ Young(now - update_time)
  /\ pc' = "idle" /\ ret' = 0
  /\ UNCHANGED <<object, kind, wired, request, shown, clock, now, cache, late, said>>

\* get and post: the request is sent, the timer started, the loop entered.
Send ==
  /\ pc = "call" /\ (kind = "price" => ~Young(now - update_time))
  /\ pc' = "wait"
  /\ timer' = "running" /\ finished' = FALSE /\ reply' = NoReply /\ quit' = FALSE
  /\ UNCHANGED <<object, kind, wired, ret, shown, clock, now, cache, late, said>>

\* finished is emitted, for a failed request too, of which there may be no bytes.
\* The loop may still handle it in the pass in which it was told to end.
Arrives(r) ==
  /\ pc = "wait" /\ ~finished
  /\ finished' = TRUE /\ reply' = r
  /\ quit' = (quit \/ object \in wired)
  /\ UNCHANGED <<pc, object, kind, wired, timer, ret, shown, clock, now, cache, late, said>>

Fires ==
  /\ pc = "wait" /\ timer = "running"
  /\ timer' = "fired" /\ quit' = TRUE /\ late' = late \cup {object}
  /\ UNCHANGED <<pc, object, kind, wired, finished, reply, ret, shown, clock, now,
                 cache, said>>

\* What get and post return: the bytes, unless the timer has fired.
Bytes(none) == IF timer = "running" THEN reply ELSE none

\* Slip: the reply disconnects the signal too.
DisconnectsAlways == wired' = wired \ {object}

\* After a timeout the object never listens to its finished signal again.
Disconnect == wired' = IF timer = "running" THEN wired ELSE wired \ {object}

\* Slip: the loop is entered again until there is a reply.
EndsWithReply == quit /\ finished

LoopEnds == quit

LeaveLoop ==
  /\ pc = "wait" /\ LoopEnds
  /\ pc' = "idle"
  /\ Disconnect
  /\ timer' = "off" /\ finished' = FALSE /\ reply' = NoReply /\ quit' = FALSE
  /\ UNCHANGED <<object, kind, clock, now>>

\* CoinApiAdapter copies the balance, which starts at 0, when the call returns 0.
WalletReturns ==
  /\ kind # "price"
  /\ LeaveLoop
  /\ LET r == Bytes(NoReply)
     IN  /\ ret' = Return(kind, r)
         /\ shown' = IF kind = "utxo" \/ ret' # 0 THEN shown
                     ELSE IF Answered(r) THEN Available(r) ELSE 0
         /\ said' = IF kind # "utxo" /\ Answered(r)
                       THEN [said EXCEPT !.balance = r.balance] ELSE said
  /\ UNCHANGED <<cache, late>>

Usable(m) == m.form = "object" /\ m.ok

\* Slip: the time the prices expire at is noted, instead of the present.
NotesExpiry(m) ==
  IF Usable(m)
    THEN /\ update_time' = now + Hour
         /\ prices' = {[table |-> PriceTable(m.exchange), usdt_cny |-> m.usdt_cny]}
    ELSE UNCHANGED cache

\* updateHTicker, once it has the reply.
Update(m) ==
  IF Usable(m)
    THEN /\ update_time' = now
         /\ prices' = {[table |-> PriceTable(m.exchange), usdt_cny |-> m.usdt_cny]}
    ELSE UNCHANGED cache

PriceReturns ==
  /\ kind = "price"
  /\ LeaveLoop
  /\ LET m == IF finished THEN Bytes(NoMarket) ELSE NoMarket
     IN  /\ Update(m)
         /\ ret' = IF Usable(m) THEN 0 ELSE -1
         /\ said' = IF Usable(m) THEN [said EXCEPT !.market = m, !.asked = now] ELSE said
  /\ UNCHANGED <<shown, late>>

Program == UnknownCoin \/ PricesKept \/ Send \/ Fires \/ WalletReturns \/ PriceReturns

Next ==
  \/ \E time \in Times : SetClock(time)
  \/ \E o \in Objects, k \in Kinds : Call(o, k)
  \/ Program
  \/ \E r \in IF kind = "price" THEN Markets ELSE Replies : Arrives(r)

\* The event loop runs and its timer fires; the server may never reply.
Spec == Init /\ [][Next]_vars /\ WF_vars(Program)

(***************************************************************************)
(* Properties.                                                             *)
(***************************************************************************)
\* The type invariant of the client.
SyncTypeOK ==
  /\ pc \in {"idle", "call", "wait"} /\ object \in Objects /\ kind \in Kinds
  /\ {wired, late} \subseteq SUBSET Objects
  /\ timer \in {"off", "running", "fired"} /\ {finished, quit} \subseteq BOOLEAN
  /\ reply \in Replies \cup Markets \cup {NoReply}
  /\ ret \in Int /\ shown \in 0..(U256 - 1)
  /\ {clock, now} \subseteq Times /\ update_time \in Times \cup {0}

\* The wait ends with the reply, except on an object whose own timer has fired
\* once: neither a reply nor another object makes it deaf (get and post).
DeafOnlyAfterTimeout == pc = "wait" /\ finished /\ ~quit => object \in late

\* Prices are served only from a market reply the server was asked for within
\* the hour before the call, wherever the clock has been set in between, and as
\* that reply has them (updateHTicker, getPrice).
ServesFreshPrices ==
  [][(pc # "idle") /\ pc' = "idle" /\ kind = "price" /\ ret' = 0 =>
       /\ now - said'.asked \in 0..Hour
       /\ prices' = {[table |-> PriceTable(said'.market.exchange),
                      usdt_cny |-> said'.market.usdt_cny]}]_vars

\* A coin that is quoted in ETH or BTC only is worth its quote times what ETH or
\* BTC itself is worth, where the exchanges agree on that (updateHTicker).
CrossPrices ==
  \A p \in prices, c \in Coins, b \in {2, 3} :
    LET exchange == said.market.exchange
        base == Bases[b]
        quotes == {exchange[i][<<base, "usdt">>] : i \in Quoting(exchange, base, "usdt")}
        own == Quoting(exchange, c, base)
    IN  QuotedIn(exchange, c) = {b} /\ Cardinality(quotes) = 1
          => p.table[c] = exchange[Min(own)][<<c, base>>] * p.table[base]

\* The balance a caller is left with is never more than the server last said
\* there is, frozen part included (fetchBalance and sendSignedTransaction subtract
\* unsigned numbers).
NeverShowsMoreThanHeld == shown <= said.balance

\* fetchBalance returns 0 only for a reply that came before the timer and has
\* code 200 and the balance.
FetchedMeansAnswered ==
  [][(pc # "idle") /\ pc' = "idle" /\ kind = "balance" /\ ret' = 0 =>
       finished /\ timer = "running" /\ reply.code = <<200>> /\ reply.error = "none"]_vars

\* Every call returns, whether the server replies or not and whether the object
\* still hears replies or not.
CallsReturn == []<>(pc = "idle")

=============================================================================
