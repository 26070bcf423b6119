------------------------------ MODULE AsyncApi ------------------------------
(***************************************************************************)
(* The asynchronous server clients: AsyncHttpClient.cpp, which sends a     *)
(* request and has requestFinished called with the reply, and over it      *)
(* BtxonAsyncAPI.cpp and GateIOAsyncAPI.cpp, each object of which has ONE  *)
(* slot for the callback of all its requests.  CoinApiAdapter.cpp makes an *)
(* object for each call; such an object is named by the call.  The prices  *)
(* of GateIOAsyncAPI are converted at a rate that all its objects share.   *)
(*                                                                         *)
(* Everything runs in the one thread of the event loop.                    *)
(***************************************************************************)
EXTENDS Integers, Sequences, FiniteSets

CONSTANTS
  Kept,        \* BtxonAsyncAPI objects the program keeps and shares
  Gates,       \* GateIOAsyncAPI objects
  Asked,       \* the operations that are called
  MaxCalls,    \* a bound: how many calls are made
  MaxEach,     \* a bound: how many of them to either server
  Replies,     \* what the server can reply to a request of BtxonAsyncAPI
  Tickers,     \* what GateIO can reply to /ticker/usdt_cny
  Lines,       \* and to /candlestick2
  Times,       \* the readings of the clock
  TenHours,
  U64

ASSUME ClockAssumption ==
  /\ TenHours \in Nat /\ U64 \in Nat
  /\ Times \subseteq (TenHours + 1)..(U64 - 1)

Calls == 1..MaxCalls

\* The objects of the program are none of those the adapter makes.
ASSUME ObjectsAssumption == MaxCalls \in Nat /\ (Kept \cup Gates) \cap Calls = {}

\* http: the status is 200; a reply that breaks off has no bytes, which are text.
Reply ==
  [http : BOOLEAN, form : {"text", "array", "object"}, code : Int,
   data : {"none", "array", "object"}, member : {"none", "balance", "txs", "count"},
   result : BOOLEAN, last : Nat]

NoReply ==
  [http |-> FALSE, form |-> "text", code |-> -1, data |-> "none", member |-> "none",
   result |-> FALSE, last |-> 0]

ASSUME ReplyAssumption ==
  Replies \cup Tickers \cup Lines \subseteq Reply /\ NoReply \in Replies

ListKinds == {"queryMessages", "queryRewards"}
BtxonKinds ==
  {"getConfig", "queryBalance", "createClient", "queryTransactions", "checkMessages",
   "setMessagesRead"} \cup ListKinds
AdapterKinds == {"queryTransactions", "queryMessages", "queryBalance"}
GateKinds == {"usdt", "coin"}   \* of what get24HLine is asked for

ASSUME KindAssumption == Asked \subseteq BtxonKinds \cup GateKinds

\* Calls that return before a request is made, when there is no id to ask with.
Refusable == BtxonKinds \ {"getConfig", "queryBalance", "createClient"}

Legs == {"btxon", "ticker", "line"}

VARIABLES
  calls,        \* the calls made so far: object and kind
  callbackFun,  \* of each object, the call and the leg its callback belongs to
  inFlight,     \* of each request that is not finished, the reply: none or one
  heard,        \* what the caller of each call has been told
  living,       \* the adapter's objects that exist
  dying,        \* those of them for which deleteLater has been called
  lists,        \* the calls whose caller still has its wallet_list
  running,      \* FALSE once a wallet_list that is gone was read and that crashed
  usdt_cny, update_time,
  clock,
  crossed,      \* the calls that shared an object with a request of another call
  check_failed  \* whether the rate ever could not be fetched; nothing reads these

gate == <<usdt_cny, update_time>>
vars == <<calls, callbackFun, inFlight, heard, living, dying, lists, running, gate,
          clock, crossed, check_failed>>

Objects == Kept \cup Gates \cup Calls
NoCallback == <<0, "btxon">>
With(f, x, v) == [y \in DOMAIN f \cup {x} |-> IF y = x THEN v ELSE f[y]]
Without(f, x) == [y \in DOMAIN f \ {x} |-> f[y]]

Made == DOMAIN calls
Kind(c) == calls[c].kind
ObjectOf(c) == calls[c].object
ByAdapter(c) == ObjectOf(c) = c
On(o) == {q \in DOMAIN inFlight : ObjectOf(q[1]) = o}

Init ==
  /\ calls = <<>> /\ callbackFun = [o \in Objects |-> NoCallback]
  /\ inFlight = [q \in {} |-> {}] /\ heard = [c \in Calls |-> <<>>]
  /\ living = {} /\ dying = {} /\ lists = {} /\ running = TRUE
  /\ usdt_cny = -1 /\ update_time = 0
  /\ clock \in Times
  /\ crossed = {} /\ check_failed = FALSE

(***************************************************************************)
(* The callbacks, as what they make of a reply.                            *)
(***************************************************************************)
Parses(r, type) == r.form = "object" /\ r.code = 200 /\ r.data = type

Accepts(kind, r) ==
  /\ r.http
  /\ \/ kind = "createClient"
     \/ kind = "getConfig" /\ r.form # "text"
     \/ kind = "setMessagesRead" /\ Parses(r, "object")
     \/ kind = "queryBalance" /\ Parses(r, "object") /\ r.member = "balance"
     \/ kind = "queryTransactions" /\ Parses(r, "object") /\ r.member = "txs"
     \/ kind = "checkMessages" /\ Parses(r, "object") /\ r.member = "count"
     \/ kind \in ListKinds /\ Parses(r, "array")

HasLine(r) == r.http /\ r.form = "object" /\ r.data = "array"
Quotes(r) == r.http /\ r.form = "object" /\ r.result

\* The program's language decides, which it may change at any time; the prices in
\* USDT, that of USDT is in CNY.
Converts(kind, chinese) == (kind = "usdt") # chinese

\* The age of the rate is computed in uint64_t.
Young(t) == (clock - t) % U64 <= TenHours

(***************************************************************************)
(* The calls.                                                              *)
(***************************************************************************)
Begin(c, o, kind) ==
  /\ running /\ c \in Calls /\ c = Len(calls) + 1 /\ kind \in Asked
  /\ Cardinality({d \in Made : Kind(d) \in GateKinds <=> kind \in GateKinds}) < MaxEach
  /\ calls' = Append(calls, [object |-> o, kind |-> kind])

\* get and post after the slot has been set.
Send(c, o, leg) ==
  /\ callbackFun' = [callbackFun EXCEPT ![o] = <<c, leg>>]
  /\ inFlight' = With(inFlight, <<c, leg>>, {})

Cross(c, o) ==
  crossed' = crossed \cup
    (IF On(o) = {} THEN {} ELSE {c} \cup {q[1] : q \in On(o)})

Ask(c, o, kind) ==
  /\ Begin(c, o, kind) /\ Send(c, o, "btxon") /\ Cross(c, o)
  /\ lists' = IF kind = "queryBalance" THEN lists \cup {c} ELSE lists
  /\ UNCHANGED heard

Refuse(c, o, kind) ==
  /\ Begin(c, o, kind) /\ kind \in Refusable
  /\ heard' = [heard EXCEPT ![c] = <<[ok |-> FALSE, of |-> <<c, "refused">>, rate |-> 1]>>]
  /\ UNCHANGED <<callbackFun, inFlight, lists, crossed>>

CallKept(c, o, kind) ==
  /\ kind \in BtxonKinds
  /\ Ask(c, o, kind) \/ Refuse(c, o, kind)
  /\ UNCHANGED <<living, dying, running, gate, clock, check_failed>>

\* Slip: one object, made before the first call, serves them all.
OneObject(c) == 1

\* new BtxonAsyncAPI()
NewObject(c) == c

\* Slip: the callback deletes its object only after a success.
DeleteOnSuccess(c, ok) ==
  dying' = IF ObjectOf(c) \in Calls /\ ok THEN dying \cup {ObjectOf(c)} ELSE dying

\* Slip: every callback deletes the object it came on.
DeleteAny(c, ok) == dying' = dying \cup {ObjectOf(c)}

\* The adapter's callback ends with api->deleteLater().
DeleteLater(c, ok) ==
  dying' = IF ObjectOf(c) \in Calls THEN dying \cup {ObjectOf(c)} ELSE dying

CallAdapter(c, kind) ==
  /\ kind \in AdapterKinds
  /\ living' = living \cup {NewObject(c)}
  /\ \/ Ask(c, NewObject(c), kind) /\ UNCHANGED dying
     \/ Refuse(c, NewObject(c), kind) /\ dying' = dying \cup {NewObject(c)}
  /\ UNCHANGED <<running, gate, clock, check_failed>>

\* Slip: the time of the last update is noted when the update is asked for.
NotesWhenAsked(c, o) ==
  IF Young(update_time) THEN Send(c, o, "line") /\ UNCHANGED gate
  ELSE Send(c, o, "ticker") /\ update_time' = clock /\ UNCHANGED usdt_cny

\* checkUSDT_CNY: the line is asked for at once if the rate is young enough.
checkUSDT_CNY(c, o) ==
  Send(c, o, IF Young(update_time) THEN "line" ELSE "ticker") /\ UNCHANGED gate

get24HLine(c, o, kind) ==
  /\ kind \in GateKinds
  /\ Begin(c, o, kind) /\ checkUSDT_CNY(c, o) /\ Cross(c, o)
  /\ UNCHANGED <<heard, living, dying, lists, running, clock, check_failed>>

(***************************************************************************)
(* The replies.                                                            *)
(***************************************************************************)
\* The server's reply, or the failure of the request, is there.
Arrives(q) ==
  /\ running /\ q \in DOMAIN inFlight /\ inFlight[q] = {}
  /\ \E r \in CASE q[2] = "ticker" -> Tickers [] q[2] = "line" -> Lines
                [] OTHER -> Replies :
       inFlight' = [inFlight EXCEPT ![q] = {r}]
  /\ UNCHANGED <<calls, callbackFun, heard, living, dying, lists, running, gate, clock,
                 crossed, check_failed>>

Tell(c, ok, q, rate) ==
  /\ heard' = [heard EXCEPT ![c] = Append(@, [ok |-> ok, of |-> q, rate |-> rate])]
  /\ DeleteLater(c, ok)

\* Slip: a request that failed is sent again after its caller has been told.
RetriesFailed(c, q, r) ==
  /\ Tell(c, Accepts(Kind(c), r), q, 1)
  /\ running' \in IF Kind(c) = "queryBalance" /\ Accepts(Kind(c), r) /\ c \notin lists
                     THEN BOOLEAN ELSE {TRUE}
  /\ inFlight' = IF r.http \/ Len(heard[c]) > 0 THEN Without(inFlight, q)
                 ELSE [inFlight EXCEPT ![q] = {}]
  /\ UNCHANGED <<callbackFun, gate, check_failed>>

\* The callback of queryBalance goes through a wallet_list it holds by reference.
TellBtxon(c, q, r) ==
  /\ Tell(c, Accepts(Kind(c), r), q, 1)
  /\ running' \in IF Kind(c) = "queryBalance" /\ Accepts(Kind(c), r) /\ c \notin lists
                     THEN BOOLEAN ELSE {TRUE}
  /\ inFlight' = Without(inFlight, q)
  /\ UNCHANGED <<callbackFun, gate, check_failed>>

\* The callback of checkUSDT_CNY asks for the line whether it has a rate or not.
TakeTicker(c, q, r) ==
  /\ usdt_cny' = IF Quotes(r) THEN r.last ELSE usdt_cny
  /\ update_time' = IF Quotes(r) THEN clock ELSE update_time
  /\ check_failed' = (check_failed \/ ~Quotes(r))
  /\ callbackFun' = [callbackFun EXCEPT ![ObjectOf(c)] = <<c, "line">>]
  /\ inFlight' = With(Without(inFlight, q), <<c, "line">>, {})
  /\ UNCHANGED <<heard, dying, running>>

TakeLine(c, q, r) ==
  /\ \E chinese \in BOOLEAN :
       Tell(c, HasLine(r), q, IF HasLine(r) /\ Converts(Kind(c), chinese) THEN usdt_cny ELSE 1)
  /\ inFlight' = Without(inFlight, q)
  /\ UNCHANGED <<callbackFun, running, gate, check_failed>>

\* serviceRequestFinished and requestFinished: the callback in the slot runs.
RequestFinished(q) ==
  /\ running /\ q \in DOMAIN inFlight /\ inFlight[q] # {}
  /\ \E r \in inFlight[q] :
       LET slot == callbackFun[ObjectOf(q[1])]
           c == slot[1]
       IN  \/ slot[2] = "btxon" /\ TellBtxon(c, q, r)
           \/ slot[2] = "ticker" /\ TakeTicker(c, q, r)
           \/ slot[2] = "line" /\ TakeLine(c, q, r)
  /\ UNCHANGED <<calls, living, lists, clock, crossed>>

\* The event loop deletes an object; what it still waited for is aborted.
Destroy(o) ==
  /\ running /\ o \in dying
  /\ living' = living \ {o} /\ dying' = dying \ {o}
  /\ inFlight' = [q \in DOMAIN inFlight \ On(o) |-> inFlight[q]]
  /\ UNCHANGED <<calls, callbackFun, heard, lists, running, gate, clock, crossed,
                 check_failed>>

\* A caller keeps its wallet_list until it has been answered.
ListEnds(c) ==
  /\ running /\ c \in lists /\ heard[c] # <<>>
  /\ lists' = lists \ {c}
  /\ UNCHANGED <<calls, callbackFun, inFlight, heard, living, dying, running, gate, clock,
                 crossed, check_failed>>

SetClock(time) ==
  /\ running
  /\ clock' = time
  /\ UNCHANGED <<calls, callbackFun, inFlight, heard, living, dying, lists, running, gate,
                 crossed, check_failed>>

EventLoop ==
  \/ \E q \in Calls \X Legs : RequestFinished(q)
  \/ \E o \in Calls : Destroy(o)

Next ==
  \/ \E c \in Calls, o \in Kept, kind \in BtxonKinds : CallKept(c, o, kind)
  \/ \E c \in Calls, kind \in AdapterKinds : CallAdapter(c, kind)
  \/ \E c \in Calls, o \in Gates, kind \in GateKinds : get24HLine(c, o, kind)
  \/ \E q \in Calls \X Legs : Arrives(q)
  \/ EventLoop
  \/ \E c \in Calls : ListEnds(c)
  \/ \E time \in Times : SetClock(time)

\* The event loop runs; a request without a timeout may never be finished.
Spec == Init /\ [][Next]_vars /\ WF_vars(EventLoop)

(***************************************************************************)
(* Properties.                                                             *)
(***************************************************************************)
\* The type invariant of the clients.
AsyncTypeOK ==
  /\ calls \in Seq([object : Objects, kind : Asked]) /\ Made \subseteq Calls
  /\ callbackFun \in [Objects -> (Calls \X Legs) \cup {NoCallback}]
  /\ DOMAIN inFlight \subseteq Made \X Legs
  /\ \A q \in DOMAIN inFlight : \A r \in inFlight[q] : r \in Reply
  /\ \A c \in Calls : heard[c] # <<>> => c \in Made
  /\ dying \subseteq living /\ {living, lists, crossed} \subseteq SUBSET Made
  /\ {running, check_failed} \subseteq BOOLEAN
  /\ usdt_cny \in Nat \cup {-1} /\ update_time \in Times \cup {0} /\ clock \in Times

\* A caller that did not share its object with another call while either waited is
\* told at most once, and of its own request (callbackFun; checkUSDT_CNY puts the
\* callback of the line into the slot whose callback is running); and as long as no
\* call shares an object so, no wallet_list is read that its caller has given up
\* (queryBalance keeps it by reference).
AloneHearsItsOwn ==
  /\ \A c \in Made \ crossed :
       /\ Len(heard[c]) <= 1
       /\ \A i \in DOMAIN heard[c] : heard[c][i].of[1] = c /\ heard[c][i].of[2] # "ticker"
  /\ crossed = {} => running

\* Prices are converted at the rate -1 that stands for none only if the rate could
\* not be fetched before (update_time says that there is one).
NoRateOnlyAfterFailure ==
  \A c \in Made : \A i \in DOMAIN heard[c] :
    heard[c][i].ok /\ heard[c][i].rate = -1 => check_failed

\* An object of the adapter exists, and is not being deleted, exactly as long as
\* its request is not answered: none is leaked, and none is deleted under its request.
OwnObjects ==
  \A c \in Made : ByAdapter(c) => (On(c) # {} <=> c \in living \ dying)

\* Calls through the adapter are what callers expect of an asynchronous client.
Adapted == {c \in Made : ByAdapter(c)}
Finished(c) == heard[c] # <<>> /\ heard[c][1].of[2] # "refused"
HasReply(c) == <<c, "btxon">> \in DOMAIN inFlight /\ inFlight[<<c, "btxon">>] # {}
Said(c) == IF Finished(c) THEN heard[c][1].ok
           ELSE \E r \in inFlight[<<c, "btxon">>] : Accepts(Kind(c), r)

Answers == INSTANCE AnswerOnce WITH
  asked <- Adapted,
  said <- [c \in {d \in Adapted : Finished(d) \/ HasReply(d)} |-> Said(c)],
  told <- [c \in {d \in Adapted : heard[d] # <<>>} |-> heard[c][Len(heard[c])].ok]

\* Each call through CoinApiAdapter is answered at most once and with what the
\* server has said to it, or refused, however many others are on their way.
AnswersOnce == Answers!Spec

\* The event loop keeps up with the adapter: no reply waits for ever to be handled,
\* and no object whose call has been answered stays, as long as the program runs.
Waiting(c) == c \in living /\ (HasReply(c) \/ heard[c] # <<>>)
FinishedIsAnswered == []<>(running => \A c \in Adapted : ~Waiting(c))

(***************************************************************************)
(* What a comment says, and the code does not keep.                        *)
(***************************************************************************)
\* GateIOAsyncAPI.cpp:138: first the price of USDT is fetched, then converted.
ConvertedAtAFetchedRate ==
  \A c \in Made : \A i \in DOMAIN heard[c] : heard[c][i].ok => heard[c][i].rate # -1

=============================================================================
