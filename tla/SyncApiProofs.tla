--------------------------- MODULE SyncApiProofs ----------------------------
(***************************************************************************)
(* Theorems about the synchronous server client, for any objects, replies, *)
(* markets and clock readings.                                             *)
(***************************************************************************)
EXTENDS SyncApi, FiniteSetTheorems, FunctionTheorems,
        WellFoundedInduction, TLAPS

\* What a request has at each point: a timer while it waits, and a reply of its
\* kind only while it waits.
RequestInv ==
  /\ pc = "wait" => timer # "off"
  /\ pc # "wait" => reply = NoReply
  /\ kind # "price" => reply \in Replies \cup {NoReply}

\* An object is disconnected only after its timer has fired.
WiringInv ==
  /\ Objects \ wired \subseteq late
  /\ pc = "wait" /\ timer = "fired" => object \in late
  /\ pc = "wait" /\ finished /\ ~quit => object \notin wired

\* What the server said last has a balance.
SaidInv == DOMAIN said = {"balance", "market", "asked"} /\ said.balance \in Nat

IInv == SyncTypeOK /\ RequestInv /\ WiringInv /\ SaidInv /\ NeverShowsMoreThanHeld

LEMMA NoReplyIsReply == NoReply \in Reply
<1>1. <<>> \in Seq(Int)
  OBVIOUS
<1>2. 0 \in 0..(U256 - 1)
  BY HourAssumption
<1>. QED  BY <1>1, <1>2 DEF NoReply, Reply, Code

\* The code of a reply is a number, and so is what is made of it.
LEMMA ParseResultType == ASSUME NEW r \in Reply PROVE parseResult(r) \in Int
<1>1. ASSUME NEW code \in Code, code # <<>> PROVE code[1] \in Int
  BY <1>1 DEF Code
<1>2. r.code \in Code /\ r.error_code \in Code
  BY DEF Reply
<1>. QED  BY <1>1, <1>2 DEF parseResult

LEMMA ReturnType ==
  ASSUME NEW r \in Reply, NEW k \in Kinds, k # "price"
  PROVE  Return(k, r) \in Int
<1>1. r.code \in Code
  BY DEF Reply
<1>2. RootCode(r) \in Int
  BY <1>1 DEF RootCode, ToInt, Code
<1>3. fetchBalance(r) \in Int /\ sendSignedTransaction(r) \in Int /\ getUTXO(r) \in Int
  BY <1>2, ParseResultType DEF fetchBalance, sendSignedTransaction, getUTXO
<1>. QED  BY <1>3 DEF Return, Kinds

\* The balance that is shown is a balance, and no more than the reply's.
LEMMA AvailableBound ==
  ASSUME NEW r \in Reply
  PROVE  Available(r) \in 0..(U256 - 1) /\ Available(r) <= r.balance /\ r.balance \in Nat
<1>1. r.balance \in 0..(U256 - 1) /\ r.froze_amount \in 0..(U256 - 1)
  BY DEF Reply
<1>. QED  BY <1>1, HourAssumption DEF Available

\* A call that has its answer returns 0.
LEMMA AnsweredReturnsZero ==
  ASSUME NEW r, NEW k \in {"balance", "submit"}, Answered(r)
  PROVE  Return(k, r) = 0
BY DEF Return, fetchBalance, sendSignedTransaction

LEMMA InitInv == Init => IInv
<1>. SUFFICES ASSUME Init PROVE IInv
  OBVIOUS
<1>1. SyncTypeOK
  <2>1. shown \in 0..(U256 - 1)
    BY HourAssumption DEF Init
  <2>2. {finished, quit} \subseteq BOOLEAN
    BY Zenon DEF Init
  <2>. QED  BY <2>1, <2>2 DEF Init, SyncTypeOK, Kinds
<1>2. RequestInv /\ WiringInv
  BY DEF Init, RequestInv, WiringInv
<1>3. SaidInv /\ NeverShowsMoreThanHeld
  BY DEF Init, SaidInv, NeverShowsMoreThanHeld
<1>. QED  BY <1>1, <1>2, <1>3 DEF IInv

\* LeaveLoop, common to the two kinds of call.
LEMMA LeaveLoopInv ==
  ASSUME IInv, LeaveLoop, late' = late
  PROVE  /\ RequestInv' /\ WiringInv' /\ pc' = "idle"
         /\ wired' \subseteq Objects /\ timer' = "off" /\ finished' = FALSE
         /\ reply' = NoReply /\ quit' = FALSE
         /\ UNCHANGED <<object, kind, clock, now>>
<1>1. pc = "wait" /\ (timer # "running" => object \in late)
  BY DEF IInv, LeaveLoop, RequestInv, WiringInv, SyncTypeOK
<1>. QED  BY <1>1 DEF IInv, LeaveLoop, Disconnect, RequestInv, WiringInv, SyncTypeOK

LEMMA WalletReturnsInv == ASSUME IInv, WalletReturns PROVE IInv'
<1>. DEFINE r == Bytes(NoReply)
<1>1. r \in Reply
  BY NoReplyIsReply, ReplyAssumption DEF WalletReturns, Bytes, IInv, RequestInv
<1>2. kind \in Kinds /\ kind # "price" /\ LeaveLoop /\ late' = late
      /\ update_time' = update_time /\ ret' = Return(kind, r)
  BY DEF WalletReturns, IInv, SyncTypeOK, cache
<1>3. shown \in 0..(U256 - 1) /\ said.balance \in Nat /\ shown <= said.balance
      /\ DOMAIN said = {"balance", "market", "asked"}
  BY DEF IInv, SyncTypeOK, SaidInv, NeverShowsMoreThanHeld
<1>4. /\ shown' \in 0..(U256 - 1) /\ said'.balance \in Nat /\ shown' <= said'.balance
      /\ DOMAIN said' = {"balance", "market", "asked"}
  <2>1. CASE kind # "utxo" /\ Answered(r)
    <3>1. ret' = 0
      BY <1>2, <2>1, AnsweredReturnsZero DEF Kinds
    <3>2. shown' = Available(r) /\ said' = [said EXCEPT !.balance = r.balance]
      BY <2>1, <3>1 DEF WalletReturns
    <3>3. said'.balance = r.balance /\ DOMAIN said' = DOMAIN said
      BY <1>3, <3>2
    <3>. QED  BY <1>1, <1>3, <3>2, <3>3, AvailableBound
  <2>2. CASE kind = "utxo" \/ ~Answered(r)
    <3>1. said' = said /\ shown' \in {shown, 0}
      BY <2>2 DEF WalletReturns
    <3>. QED  BY <1>3, <3>1, HourAssumption
  <2>. QED  BY <2>1, <2>2
<1>5. ret' \in Int
  BY <1>1, <1>2, ReturnType
<1>6. SyncTypeOK'
  BY <1>2, <1>4, <1>5, LeaveLoopInv DEF IInv, SyncTypeOK
<1>. QED  BY <1>2, <1>4, <1>6, LeaveLoopInv DEF IInv, SaidInv, NeverShowsMoreThanHeld

LEMMA PriceReturnsInv == ASSUME IInv, PriceReturns PROVE IInv'
<1>1. LeaveLoop /\ late' = late /\ shown' = shown /\ ret' \in Int
  BY DEF PriceReturns
<1>2. update_time' \in Times \cup {0}
  BY DEF PriceReturns, Update, cache, IInv, SyncTypeOK
<1>3. said'.balance = said.balance /\ DOMAIN said' = DOMAIN said
  BY DEF PriceReturns, IInv, SaidInv
<1>4. SyncTypeOK'
  BY <1>1, <1>2, LeaveLoopInv DEF IInv, SyncTypeOK
<1>. QED  BY <1>1, <1>3, <1>4, LeaveLoopInv DEF IInv, SaidInv, NeverShowsMoreThanHeld

LEMMA NextInv == ASSUME IInv, [Next]_vars PROVE IInv'
<1>. USE DEF IInv, RequestInv, WiringInv, SaidInv, NeverShowsMoreThanHeld, SyncTypeOK,
             request, cache
<1>1. ASSUME NEW time \in Times, SetClock(time) PROVE IInv'
  BY <1>1 DEF SetClock
<1>2. ASSUME NEW o \in Objects, NEW k \in Kinds, Call(o, k) PROVE IInv'
  BY <1>2 DEF Call
<1>3. CASE UnknownCoin
  BY <1>3 DEF UnknownCoin
<1>4. CASE PricesKept
  BY <1>4 DEF PricesKept
<1>5. CASE Send
  BY <1>5 DEF Send
<1>6. CASE Fires
  BY <1>6 DEF Fires
<1>7. CASE WalletReturns
  BY <1>7, WalletReturnsInv
<1>8. CASE PriceReturns
  BY <1>8, PriceReturnsInv
<1>9. ASSUME NEW r \in IF kind = "price" THEN Markets ELSE Replies, Arrives(r)
      PROVE  IInv'
  BY <1>9 DEF Arrives
<1>10. CASE UNCHANGED vars
  BY <1>10 DEF vars
<1>. QED  BY <1>1, <1>2, <1>3, <1>4, <1>5, <1>6, <1>7, <1>8, <1>9, <1>10 DEF Next, Program

\* The client's state keeps its types, whatever the server replies.
THEOREM SyncTypeOKHolds == Spec => []SyncTypeOK
<1>1. IInv => SyncTypeOK
  BY DEF IInv
<1>. QED  BY <1>1, InitInv, NextInv, PTL DEF Spec

\* Of any number of objects, one is deaf only if its own timer has fired.
THEOREM DeafOnlyAfterTimeoutHolds == Spec => []DeafOnlyAfterTimeout
<1>1. IInv => DeafOnlyAfterTimeout
  BY DEF IInv, WiringInv, SyncTypeOK, DeafOnlyAfterTimeout
<1>. QED  BY <1>1, InitInv, NextInv, PTL DEF Spec

\* Whatever the server replies, no caller is shown more than it last said there is.
THEOREM NeverShowsMoreThanHeldHolds == Spec => []NeverShowsMoreThanHeld
<1>1. IInv => NeverShowsMoreThanHeld
  BY DEF IInv
<1>. QED  BY <1>1, InitInv, NextInv, PTL DEF Spec

(***************************************************************************)
(* The prices.                                                             *)
(***************************************************************************)
\* The cache is the last usable market's, and as old as the clock said when it
\* was asked for.
CacheOfMarket ==
  /\ said.market \in Markets
  /\ prices = {[table |-> PriceTable(said.market.exchange),
                usdt_cny |-> said.market.usdt_cny]}
  /\ update_time = said.asked /\ update_time \in Times

\* There is no reply but the one the request has received.
PriceInv ==
  /\ IF prices = {} THEN update_time = 0 ELSE CacheOfMarket
  /\ kind = "price" => reply \in Markets \cup {NoReply}
  /\ ~finished => reply = NoReply

LEMMA InitPrice == Init => PriceInv
BY DEF Init, PriceInv

LEMMA PriceReturnsCache ==
  ASSUME IInv, PriceInv, PriceReturns
  PROVE  /\ ret' = 0 => CacheOfMarket' /\ said'.asked = now
         /\ ret' # 0 => cache' = cache /\ said' = said
<1>. DEFINE m == IF finished THEN Bytes(NoMarket) ELSE NoMarket
<1>1. m \in Markets \cup {NoReply, NoMarket}
  BY DEF Bytes, PriceInv, PriceReturns
<1>2. CASE Usable(m)
  <2>1. m \in Markets
    BY <1>1, <1>2 DEF Usable, NoReply, NoMarket
  <2>2. /\ update_time' = now
        /\ prices' = {[table |-> PriceTable(m.exchange), usdt_cny |-> m.usdt_cny]}
        /\ said' = [said EXCEPT !.market = m, !.asked = now]
        /\ ret' = 0
    BY <1>2 DEF PriceReturns, Update
  <2>3. said'.market = m /\ said'.asked = now
    BY <2>2 DEF IInv, SaidInv
  <2>4. now \in Times
    BY DEF IInv, SyncTypeOK
  <2>5. CacheOfMarket'
    <3>. HIDE DEF m
    <3>. QED  BY <2>1, <2>2, <2>3, <2>4 DEF CacheOfMarket
  <2>. QED  BY <2>2, <2>3, <2>5
<1>3. CASE ~Usable(m)
  <2>1. ret' = -1 /\ said' = said /\ cache' = cache
    BY <1>3 DEF PriceReturns, Update
  <2>. QED  BY <2>1
<1>. QED  BY <1>2, <1>3

LEMMA NextPrice == ASSUME IInv, PriceInv, [Next]_vars PROVE PriceInv'
<1>. USE DEF IInv, RequestInv, SyncTypeOK, PriceInv, CacheOfMarket, request, cache
<1>1. ASSUME NEW time \in Times, SetClock(time) PROVE PriceInv'
  BY <1>1 DEF SetClock
<1>2. ASSUME NEW o \in Objects, NEW k \in Kinds, Call(o, k) PROVE PriceInv'
  BY <1>2 DEF Call
<1>3. CASE UnknownCoin
  BY <1>3 DEF UnknownCoin
<1>4. CASE PricesKept
  BY <1>4 DEF PricesKept
<1>5. CASE Send
  BY <1>5 DEF Send
<1>6. CASE Fires
  BY <1>6 DEF Fires
<1>7. CASE WalletReturns
  <2>1. said'.market = said.market /\ said'.asked = said.asked
    BY <1>7 DEF WalletReturns, SaidInv
  <2>2. prices' = prices /\ update_time' = update_time
    BY <1>7 DEF WalletReturns
  <2>3. kind' = kind /\ reply' = NoReply
    BY <1>7 DEF WalletReturns, LeaveLoop
  <2>. QED  BY <2>1, <2>2, <2>3
<1>8. CASE PriceReturns
  <2>1. reply' = NoReply
    BY <1>8 DEF PriceReturns, LeaveLoop
  <2>2. CASE ret' = 0
    BY <1>8, <2>1, <2>2, PriceReturnsCache
  <2>3. CASE ret' # 0
    BY <1>8, <2>1, <2>3, PriceReturnsCache
  <2>. QED  BY <2>2, <2>3
<1>9. ASSUME NEW r \in IF kind = "price" THEN Markets ELSE Replies, Arrives(r)
      PROVE  PriceInv'
  BY <1>9 DEF Arrives
<1>10. CASE UNCHANGED vars
  BY <1>10 DEF vars
<1>. QED  BY <1>1, <1>2, <1>3, <1>4, <1>5, <1>6, <1>7, <1>8, <1>9, <1>10 DEF Next, Program

\* The remainder of a number close to 0.
LEMMA ModSmall ==
  ASSUME NEW n \in Nat, n > 0, NEW d \in Int, -n < d, d < n
  PROVE  d % n = IF d < 0 THEN d + n ELSE d
OBVIOUS

\* Unsigned, an age below 0 is that of old prices, and so is that of none.
LEMMA YoungMeansYoung ==
  ASSUME NEW t \in Times, NEW u \in Times \cup {0}, Young(t - u)
  PROVE  u # 0 /\ t - u \in 0..Hour
<1>1. /\ Hour \in Nat /\ U64 \in Nat
      /\ t \in Int /\ Hour + 1 <= t /\ t <= U64 - Hour - 1
      /\ u \in Int /\ (u # 0 => Hour + 1 <= u /\ u <= U64 - Hour - 1) /\ 0 <= u
  BY HourAssumption, TimesAssumption
<1>2. U64 > 0 /\ -U64 < t - u /\ t - u < U64 /\ t - u \in Int
  BY <1>1
<1>3. (t - u) % U64 = IF t - u < 0 THEN (t - u) + U64 ELSE t - u
  BY <1>1, <1>2, ModSmall
<1>4. (t - u) % U64 <= Hour
  BY DEF Young
<1>. QED  BY <1>1, <1>3, <1>4

\* The steps that end a call.
LEMMA EndsCall ==
  ASSUME [Next]_vars, pc # "idle", pc' = "idle"
  PROVE  UnknownCoin \/ PricesKept \/ WalletReturns \/ PriceReturns
BY DEF Next, Program, SetClock, Call, Send, Fires, Arrives, vars

\* No price is served that is older than an hour, or of no reply, whatever the
\* clock is set to.
THEOREM ServesFreshPricesHolds == Spec => ServesFreshPrices
<1>. DEFINE Fresh ==
       (pc # "idle") /\ pc' = "idle" /\ kind = "price" /\ ret' = 0 =>
         /\ now - said'.asked \in 0..Hour
         /\ prices' = {[table |-> PriceTable(said'.market.exchange),
                        usdt_cny |-> said'.market.usdt_cny]}
<1>1. ASSUME IInv, PriceInv, [Next]_vars PROVE Fresh
  <2>. SUFFICES ASSUME pc # "idle", pc' = "idle", kind = "price", ret' = 0
                PROVE  /\ now - said'.asked \in 0..Hour
                       /\ prices' = {[table |-> PriceTable(said'.market.exchange),
                                      usdt_cny |-> said'.market.usdt_cny]}
    OBVIOUS
  <2>1. PricesKept \/ PriceReturns
    BY <1>1, EndsCall DEF UnknownCoin, WalletReturns
  <2>2. CASE PricesKept
    <3>1. now \in Times /\ update_time \in Times \cup {0}
      BY <1>1 DEF IInv, SyncTypeOK
    <3>2. update_time # 0 /\ now - update_time \in 0..Hour
      BY <2>2, <3>1, YoungMeansYoung DEF PricesKept
    <3>3. CacheOfMarket /\ said' = said /\ prices' = prices
      BY <1>1, <2>2, <3>2 DEF PricesKept, PriceInv, cache
    <3>. QED  BY <3>2, <3>3 DEF CacheOfMarket
  <2>3. CASE PriceReturns
    <3>1. CacheOfMarket' /\ said'.asked = now
      BY <1>1, <2>3, PriceReturnsCache
    <3>2. now \in Times
      BY <1>1 DEF IInv, SyncTypeOK
    <3>3. now \in Int /\ Hour \in Nat
      BY <3>2, HourAssumption, TimesAssumption
    <3>4. now - now \in 0..Hour
      BY <3>3
    <3>. QED  BY <3>1, <3>4 DEF CacheOfMarket
  <2>. QED  BY <2>1, <2>2, <2>3
<1>2. IInv /\ PriceInv /\ [Next]_vars => [Fresh]_vars
  BY <1>1
<1>. QED  BY <1>2, InitInv, NextInv, InitPrice, NextPrice, PTL DEF Spec, ServesFreshPrices

\* A balance is returned only for a reply that has one and came in time.
THEOREM FetchedMeansAnsweredHolds == Spec => FetchedMeansAnswered
<1>. DEFINE Fetched ==
       (pc # "idle") /\ pc' = "idle" /\ kind = "balance" /\ ret' = 0 =>
         finished /\ timer = "running" /\ reply.code = <<200>> /\ reply.error = "none"
<1>1. ASSUME IInv, PriceInv, [Next]_vars PROVE Fetched
  <2>. SUFFICES ASSUME pc # "idle", pc' = "idle", kind = "balance", ret' = 0
                PROVE  finished /\ timer = "running"
                       /\ reply.code = <<200>> /\ reply.error = "none"
    OBVIOUS
  <2>1. WalletReturns
    BY <1>1, EndsCall DEF UnknownCoin, PricesKept, PriceReturns
  <2>. DEFINE r == Bytes(NoReply)
  <2>2. Answered(r)
    BY <2>1 DEF WalletReturns, Return, fetchBalance
  <2>3. r # NoReply
    BY <2>2 DEF Answered, parseResult, NoReply
  <2>4. timer = "running" /\ finished /\ r = reply
    BY <1>1, <2>3 DEF Bytes, PriceInv
  <2>5. reply \in Replies
    BY <1>1, <2>3, <2>4 DEF IInv, RequestInv
  <2>6. /\ reply.code \in Seq(Int) /\ Len(reply.code) <= 1
        /\ reply.error \in {"none", "other", "object"}
    BY <2>5, ReplyAssumption DEF Reply, Code
  <2>7. /\ reply.error = "none" /\ reply.code # <<>> /\ reply.code[1] = 200
    BY <2>2, <2>4, <2>6 DEF Answered, parseResult
  <2>8. reply.code = <<200>>
    BY <2>6, <2>7
  <2>. QED  BY <2>4, <2>7, <2>8
<1>2. IInv /\ PriceInv /\ [Next]_vars => [Fetched]_vars
  BY <1>1
<1>. QED  BY <1>2, InitInv, NextInv, InitPrice, NextPrice, PTL DEF Spec, FetchedMeansAnswered

(***************************************************************************)
(* The table of prices.  The least and the greatest of a set of numbers    *)
(* exist by well-foundedness.                                              *)
(***************************************************************************)
Below == {p \in Nat \X Nat : p[1] < p[2]}

LEMMA LeastNat ==
  ASSUME NEW T, T \subseteq Nat, T # {}
  PROVE  \E x \in T : \A y \in T : x <= y
<1>1. IsWellFoundedOn(Below, Nat)
  BY NatLessThanWellFounded DEF OpToRel, Below
<1>2. PICK x \in T : \A y \in T : <<y, x>> \notin Below
  BY <1>1, WFMin
<1>3. ASSUME NEW y \in T PROVE x <= y
  <2>1. x \in Nat /\ y \in Nat /\ <<y, x>> \in Nat \X Nat
    OBVIOUS
  <2>2. ~(y < x)
    BY <1>2, <2>1 DEF Below
  <2>. QED  BY <2>1, <2>2
<1>. QED  BY <1>3

LEMMA MinIsLeast ==
  ASSUME NEW T, T \subseteq Nat, T # {}
  PROVE  Min(T) \in T /\ \A y \in T : Min(T) <= y
BY LeastNat DEF Min

\* The greatest is the least upper bound.
LEMMA MaxIsGreatest ==
  ASSUME NEW n \in Nat, NEW T, T \subseteq 1..n, T # {}
  PROVE  Max(T) \in T /\ \A y \in T : y <= Max(T)
<1>. DEFINE U == {z \in Nat : \A y \in T : y <= z}
<1>1. U \subseteq Nat /\ n \in U
  OBVIOUS
<1>2. PICK u \in U : \A v \in U : u <= v
  <2>. HIDE DEF U
  <2>. QED  BY <1>1, LeastNat
<1>3. u \in T
  <2>1. PICK t \in T : TRUE
    OBVIOUS
  <2>2. u \in Nat /\ t <= u /\ t >= 1
    BY <2>1, <1>2
  <2>3. u - 1 \notin U
    BY <1>2, <2>2
  <2>4. PICK y \in T : ~(y <= u - 1)
    BY <2>2, <2>3
  <2>5. y = u
    BY <1>2, <2>2, <2>4
  <2>. QED  BY <2>5
<1>4. \E x \in T : \A y \in T : x >= y
  BY <1>2, <1>3
<1>. HIDE DEF U
<1>. QED  BY <1>4 DEF Max

\* A finite set of one element has no two.
LEMMA OneElement ==
  ASSUME NEW S, IsFiniteSet(S), Cardinality(S) = 1, NEW x \in S, NEW y \in S
  PROVE  x = y
<1>1. \E z : S = {z}
  BY FS_Singleton
<1>. QED  BY <1>1

\* The exchanges are a list, and what quotes a coin is some of them.
LEMMA QuotingFacts ==
  ASSUME NEW m \in Markets, NEW coin, NEW base
  PROVE  /\ Len(m.exchange) \in Nat
         /\ Quoting(m.exchange, coin, base) \subseteq 1..Len(m.exchange)
         /\ \A i \in Quoting(m.exchange, coin, base) :
              coin \in Coins /\ m.exchange[i][<<coin, base>>] \in Nat
<1>1. m.exchange \in Seq({m.exchange[i] : i \in DOMAIN m.exchange})
  BY MarketAssumption
<1>2. Len(m.exchange) \in Nat /\ DOMAIN m.exchange = 1..Len(m.exchange)
  BY <1>1
<1>3. Quoting(m.exchange, coin, base) \subseteq DOMAIN m.exchange
  BY DEF Quoting
<1>4. ASSUME NEW i \in Quoting(m.exchange, coin, base)
      PROVE  coin \in Coins /\ m.exchange[i][<<coin, base>>] \in Nat
  <2>1. i \in DOMAIN m.exchange /\ <<coin, base>> \in DOMAIN m.exchange[i]
    BY DEF Quoting
  <2>2. /\ DOMAIN m.exchange[i] \subseteq Coins \X {"usdt", "eth", "btc"}
        /\ m.exchange[i][<<coin, base>>] \in Nat
    BY <2>1, MarketAssumption
  <2>. QED  BY <2>1, <2>2
<1>. QED  BY <1>2, <1>3, <1>4

\* The rate of ETH or BTC is the last quote and its price the first: the same
\* where the exchanges agree.
LEMMA BaseIsItsQuote ==
  ASSUME NEW m \in Markets, NEW base \in {"eth", "btc"},
         Cardinality({m.exchange[i][<<base, "usdt">>] :
                        i \in Quoting(m.exchange, base, "usdt")}) = 1
  PROVE  PriceTable(m.exchange)[base] = BaseRate(m.exchange, base)
<1>. DEFINE ex == m.exchange
            from == Quoting(ex, base, "usdt")
            quotes == {ex[i][<<base, "usdt">>] : i \in from}
<1>1. Len(ex) \in Nat /\ from \subseteq 1..Len(ex)
  BY QuotingFacts
<1>2. from # {} /\ IsFiniteSet(quotes)
  <2>1. IsFiniteSet(from)
    <3>1. IsFiniteSet(1..Len(ex))
      BY <1>1, FS_Interval
    <3>. HIDE DEF from
    <3>. QED  BY <1>1, <3>1, FS_Subset
  <2>2. IsFiniteSet(quotes)
    <3>. DEFINE f == [i \in from |-> ex[i][<<base, "usdt">>]]
    <3>1. f \in [from -> quotes] /\ \A q \in quotes : \E i \in from : f[i] = q
      OBVIOUS
    <3>. HIDE DEF f, from, quotes
    <3>2. f \in Surjection(from, quotes)
      BY <3>1, Fun_IsSurj
    <3>. QED  BY <2>1, <3>2, FS_Surjection
  <2>3. quotes # {}
    <3>1. Cardinality(quotes) = 1
      OBVIOUS
    <3>. HIDE DEF quotes
    <3>. QED  BY <3>1, FS_EmptySet
  <2>4. PICK q \in quotes : TRUE
    BY <2>3
  <2>5. from # {}
    BY <2>4
  <2>. QED  BY <2>2, <2>5
<1>3. Max(from) \in from /\ Min(from) \in from
  <2>1. from \subseteq Nat
    BY <1>1
  <2>. HIDE DEF from
  <2>. QED  BY <1>1, <1>2, <2>1, MaxIsGreatest, MinIsLeast
<1>4. ex[Max(from)][<<base, "usdt">>] = ex[Min(from)][<<base, "usdt">>]
  <2>1. /\ ex[Max(from)][<<base, "usdt">>] \in quotes
        /\ ex[Min(from)][<<base, "usdt">>] \in quotes
    BY <1>3
  <2>2. Cardinality(quotes) = 1
    OBVIOUS
  <2>. HIDE DEF quotes, from
  <2>. QED  BY <1>2, <2>1, <2>2, OneElement
<1>5. BaseRate(ex, base) = ex[Max(from)][<<base, "usdt">>]
  BY <1>2 DEF BaseRate
<1>6. QuotedIn(ex, base) \subseteq {1, 2, 3} /\ 1 \in QuotedIn(ex, base)
  BY <1>2 DEF QuotedIn, Bases
<1>7. Bases[Min(QuotedIn(ex, base))] = "usdt"
  <2>1. Min(QuotedIn(ex, base)) \in {1, 2, 3} /\ Min(QuotedIn(ex, base)) <= 1
    BY <1>6, MinIsLeast
  <2>2. Min(QuotedIn(ex, base)) = 1
    BY <2>1
  <2>. QED  BY <2>2 DEF Bases
<1>8. PriceOf(ex, base) = ex[Min(from)][<<base, "usdt">>] * 1
  BY <1>7 DEF PriceOf, BaseRate
<1>9. ex[Min(from)][<<base, "usdt">>] \in Nat /\ base \in Coins
  <2>. HIDE DEF from
  <2>. QED  BY <1>3, QuotingFacts DEF from
<1>10. PriceTable(ex)[base] = PriceOf(ex, base)
  BY <1>6, <1>9 DEF PriceTable
<1>11. PriceOf(ex, base) = ex[Min(from)][<<base, "usdt">>]
  <2>. DEFINE v == ex[Min(from)][<<base, "usdt">>]
  <2>1. v \in Nat /\ PriceOf(ex, base) = v * 1
    BY <1>8, <1>9
  <2>. HIDE DEF v
  <2>. QED  BY <2>1 DEF v
<1>. QED  BY <1>4, <1>5, <1>10, <1>11

\* A coin quoted in one base is priced by the first quote there.
LEMMA QuotedInOne ==
  ASSUME NEW m \in Markets, NEW c \in Coins, NEW b \in {2, 3},
         QuotedIn(m.exchange, c) = {b}
  PROVE  PriceTable(m.exchange)[c] =
           m.exchange[Min(Quoting(m.exchange, c, Bases[b]))][<<c, Bases[b]>>]
             * BaseRate(m.exchange, Bases[b])
<1>1. Min({b}) = b
  BY MinIsLeast
<1>2. PriceTable(m.exchange)[c] = PriceOf(m.exchange, c)
  BY DEF PriceTable
<1>. QED  BY <1>1, <1>2 DEF PriceOf

\* Of every market the server can send, cross prices are quotes times the price
\* of the base.
THEOREM CrossPricesHolds == Spec => []CrossPrices
<1>1. ASSUME PriceInv PROVE CrossPrices
  <2>. SUFFICES ASSUME NEW p \in prices, NEW c \in Coins, NEW b \in {2, 3},
                       QuotedIn(said.market.exchange, c) = {b},
                       Cardinality({said.market.exchange[i][<<Bases[b], "usdt">>] :
                         i \in Quoting(said.market.exchange, Bases[b], "usdt")}) = 1
                PROVE  p.table[c] =
                         said.market.exchange
                           [Min(Quoting(said.market.exchange, c, Bases[b]))][<<c, Bases[b]>>]
                           * p.table[Bases[b]]
    BY DEF CrossPrices
  <2>1. CacheOfMarket
    BY <1>1 DEF PriceInv
  <2>2. p.table = PriceTable(said.market.exchange) /\ said.market \in Markets
    BY <2>1 DEF CacheOfMarket
  <2>3. Bases[b] \in {"eth", "btc"}
    BY DEF Bases
  <2>4. PriceTable(said.market.exchange)[Bases[b]] = BaseRate(said.market.exchange, Bases[b])
    BY <2>2, <2>3, BaseIsItsQuote
  <2>. QED  BY <2>2, <2>4, QuotedInOne
<1>. QED  BY <1>1, InitInv, NextInv, InitPrice, NextPrice, PTL DEF Spec

=============================================================================
