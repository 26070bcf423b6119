--------------------------- MODULE AsyncApiProofs ---------------------------
(***************************************************************************)
(* Theorems about the asynchronous clients, for any objects, replies and   *)
(* number of overlapping calls.                                            *)
(***************************************************************************)
EXTENDS AsyncApi, TLAPS

\* What the calls made so far are, and what their objects hold.  A call has an object
\* of its own if it went through the adapter, and shares a kept one if not.
CallInv ==
  /\ calls \in Seq([object : Objects, kind : Asked])
  /\ \A c \in Made : /\ c \in Calls
                     /\ ByAdapter(c) \/ ObjectOf(c) \in Kept \cup Gates
                     /\ ByAdapter(c) => Kind(c) \in AdapterKinds

\* Of an adapter's object only the first leg is ever asked for.
RequestInv ==
  \A q \in DOMAIN inFlight : q \in Made \X Legs /\ (ByAdapter(q[1]) => q[2] = "btxon")

\* The slot of an object that waits holds a callback of a call on this object.
SlotInv ==
  \A q \in DOMAIN inFlight :
    LET slot == callbackFun[ObjectOf(q[1])]
    IN  /\ slot[1] \in Made /\ ObjectOf(slot[1]) = ObjectOf(q[1])
        /\ slot[2] \in Legs /\ (ByAdapter(q[1]) => slot[2] = "btxon")

LivingInv == dying \subseteq living /\ living \subseteq Made /\ \A c \in living : ByAdapter(c)

IInv ==
  /\ callbackFun \in [Objects -> (Calls \X Legs) \cup {NoCallback}]
  /\ CallInv /\ RequestInv /\ SlotInv /\ LivingInv /\ OwnObjects

LEMMA MadeFacts ==
  ASSUME CallInv, NEW c \in Made
  PROVE  c \in Calls /\ ObjectOf(c) \in Objects /\ Kind(c) \in Asked
<1>. DEFINE C == [object : Objects, kind : Asked]
<1>1. calls \in Seq(C) /\ c \in 1..Len(calls)
  BY DEF CallInv, Made
<1>2. calls[c] \in C
  <2>. HIDE DEF C
  <2>. QED  BY <1>1
<1>. QED  BY <1>2 DEF CallInv, ObjectOf, Kind

\* A call that is made is new, and the earlier ones stay what they are.
LEMMA BeginFacts ==
  ASSUME IInv, NEW c, NEW o \in Objects, NEW kind, Begin(c, o, kind)
  PROVE  /\ c \notin Made /\ Made' = Made \cup {c} /\ c \in Calls
         /\ calls' \in Seq([object : Objects, kind : Asked])
         /\ calls'[c] = [object |-> o, kind |-> kind]
         /\ \A d \in Made : calls'[d] = calls[d]
<1>1. calls \in Seq([object : Objects, kind : Asked]) /\ Len(calls) \in Nat /\ Made = 1..Len(calls)
  BY DEF IInv, CallInv, Made
<1>2. c = Len(calls) + 1 /\ calls' = Append(calls, [object |-> o, kind |-> kind]) /\ kind \in Asked
      /\ c \in Calls
  BY DEF Begin
<1>3. [object |-> o, kind |-> kind] \in [object : Objects, kind : Asked]
  BY <1>2
<1>. QED  BY <1>1, <1>2, <1>3 DEF Made

\* What a call on a kept object does: it touches no object of the adapter.
LEMMA KeptCall ==
  ASSUME IInv, NEW c, NEW o \in Kept \cup Gates, NEW kind, NEW leg \in Legs,
         Begin(c, o, kind), UNCHANGED <<living, dying>>,
         \/ Send(c, o, leg)
         \/ UNCHANGED <<callbackFun, inFlight>>
  PROVE  IInv'
<1>1. o \in Objects /\ o \notin Calls
  BY ObjectsAssumption DEF Objects
<1>2. /\ c \notin Made /\ Made' = Made \cup {c} /\ c \in Calls
      /\ calls' \in Seq([object : Objects, kind : Asked])
      /\ calls'[c] = [object |-> o, kind |-> kind]
      /\ \A d \in Made : calls'[d] = calls[d]
  BY <1>1, BeginFacts
<1>. USE DEF ByAdapter, ObjectOf, Kind
<1>3. CallInv'
  BY <1>1, <1>2 DEF IInv, CallInv
<1>4. LivingInv'
  BY <1>2 DEF IInv, LivingInv
<1>5. CASE Send(c, o, leg)
  <2>1. /\ DOMAIN inFlight' = DOMAIN inFlight \cup {<<c, leg>>}
        /\ callbackFun' = [callbackFun EXCEPT ![o] = <<c, leg>>]
    BY <1>5 DEF Send, With
  <2>2. callbackFun' \in [Objects -> (Calls \X Legs) \cup {NoCallback}]
    BY <1>1, <1>2, <2>1 DEF IInv
  <2>3. RequestInv'
    BY <1>1, <1>2, <2>1 DEF IInv, RequestInv
  <2>4. callbackFun'[o] = <<c, leg>> /\ \A x \in Objects : x # o => callbackFun'[x] = callbackFun[x]
    BY <1>1, <2>1 DEF IInv
  <2>5. SlotInv'
    <3>. SUFFICES ASSUME NEW q \in DOMAIN inFlight'
                  PROVE  LET slot == callbackFun'[calls'[q[1]].object]
                         IN  /\ slot[1] \in Made' /\ calls'[slot[1]].object = calls'[q[1]].object
                             /\ slot[2] \in Legs
                             /\ (calls'[q[1]].object = q[1] => slot[2] = "btxon")
      BY DEF SlotInv
    <3>1. CASE q = <<c, leg>>
      BY <1>1, <1>2, <2>4, <3>1
    <3>2. CASE q \in DOMAIN inFlight /\ calls[q[1]].object = o
      <4>1. q[1] \in Made /\ q[1] \in Calls
        BY <3>2 DEF IInv, RequestInv, CallInv
      <4>2. calls'[q[1]].object = o /\ calls'[c].object = o
        BY <1>2, <3>2, <4>1
      <4>. QED  BY <1>1, <1>2, <2>4, <4>1, <4>2
    <3>3. CASE q \in DOMAIN inFlight /\ calls[q[1]].object # o
      <4>1. q[1] \in Made /\ calls[q[1]].object \in Objects
        BY <3>3, MadeFacts DEF IInv, RequestInv
      <4>. QED  BY <1>2, <2>4, <3>3, <4>1 DEF IInv, SlotInv
    <3>. QED  BY <2>1, <3>1, <3>2, <3>3
  <2>6. OwnObjects'
    <3>1. ASSUME NEW d \in Made, ByAdapter(d) PROVE On(d)' = On(d)
      BY <1>1, <1>2, <2>1, <3>1 DEF On, IInv, RequestInv, CallInv
    <3>. QED  BY <1>1, <1>2, <3>1 DEF IInv, OwnObjects
  <2>. QED  BY <1>3, <1>4, <2>2, <2>3, <2>5, <2>6 DEF IInv
<1>6. CASE UNCHANGED <<callbackFun, inFlight>>
  <2>1. RequestInv' /\ SlotInv'
    BY <1>2, <1>6 DEF IInv, RequestInv, SlotInv
  <2>2. OwnObjects'
    <3>1. ASSUME NEW d \in Made, ByAdapter(d) PROVE On(d)' = On(d)
      BY <1>2, <1>6, <3>1 DEF On, IInv, RequestInv, CallInv
    <3>. QED  BY <1>1, <1>2, <3>1 DEF IInv, OwnObjects
  <2>. QED  BY <1>3, <1>4, <1>6, <2>1, <2>2 DEF IInv
<1>. QED  BY <1>5, <1>6

\* A call through the adapter makes its object, and a refusal gives it up at once.
LEMMA AdapterCall ==
  ASSUME IInv, NEW c, NEW kind, CallAdapter(c, kind)
  PROVE  IInv'
<1>1. kind \in AdapterKinds /\ Begin(c, c, kind) /\ living' = living \cup {c}
  BY DEF CallAdapter, NewObject, Ask, Refuse
<1>2. c \in Objects
  BY <1>1 DEF Begin, Objects
<1>3. /\ c \notin Made /\ Made' = Made \cup {c} /\ c \in Calls
      /\ calls' \in Seq([object : Objects, kind : Asked])
      /\ calls'[c] = [object |-> c, kind |-> kind]
      /\ \A d \in Made : calls'[d] = calls[d]
  BY <1>1, <1>2, BeginFacts
<1>. USE DEF ByAdapter, ObjectOf, Kind
<1>4. CallInv'
  BY <1>1, <1>3 DEF IInv, CallInv
<1>5. \A q \in DOMAIN inFlight : q[1] \in Made /\ calls[q[1]].object # c
  BY <1>3, ObjectsAssumption DEF IInv, RequestInv, CallInv
<1>. DEFINE none == c \notin living /\ c \notin dying
<1>6. none
  BY <1>3 DEF IInv, LivingInv
<1>7. CASE Ask(c, c, kind) /\ UNCHANGED dying
  <2>1. /\ DOMAIN inFlight' = DOMAIN inFlight \cup {<<c, "btxon">>}
        /\ callbackFun' = [callbackFun EXCEPT ![c] = <<c, "btxon">>]
    BY <1>7 DEF Ask, Send, With
  <2>2. callbackFun' \in [Objects -> (Calls \X Legs) \cup {NoCallback}]
    BY <1>3, <2>1 DEF IInv, Legs
  <2>3. RequestInv'
    BY <1>3, <2>1 DEF IInv, RequestInv, Legs
  <2>4. callbackFun'[c] = <<c, "btxon">> /\ \A x \in Objects : x # c => callbackFun'[x] = callbackFun[x]
    BY <1>2, <2>1 DEF IInv
  <2>5. SlotInv'
    <3>. SUFFICES ASSUME NEW q \in DOMAIN inFlight'
                  PROVE  LET slot == callbackFun'[calls'[q[1]].object]
                         IN  /\ slot[1] \in Made' /\ calls'[slot[1]].object = calls'[q[1]].object
                             /\ slot[2] \in Legs
                             /\ (calls'[q[1]].object = q[1] => slot[2] = "btxon")
      BY DEF SlotInv
    <3>1. CASE q = <<c, "btxon">>
      BY <1>3, <2>4, <3>1 DEF Legs
    <3>2. CASE q \in DOMAIN inFlight
      <4>1. q[1] \in Made /\ calls[q[1]].object \in Objects /\ calls[q[1]].object # c
        BY <1>5, <3>2, MadeFacts DEF IInv
      <4>. QED  BY <1>3, <2>4, <3>2, <4>1 DEF IInv, SlotInv
    <3>. QED  BY <2>1, <3>1, <3>2
  <2>6. OwnObjects'
    <3>1. ASSUME NEW d \in Made PROVE d # c /\ On(d)' = On(d)
      BY <1>3, <2>1, <3>1 DEF On, IInv, RequestInv
    <3>2. <<c, "btxon">> \in On(c)'
      BY <1>3, <2>1 DEF On
    <3>. QED  BY <1>1, <1>3, <1>6, <1>7, <3>1, <3>2 DEF IInv, OwnObjects
  <2>7. LivingInv'
    BY <1>1, <1>3, <1>7 DEF IInv, LivingInv
  <2>. QED  BY <1>4, <2>2, <2>3, <2>5, <2>6, <2>7 DEF IInv
<1>8. CASE Refuse(c, c, kind) /\ dying' = dying \cup {c}
  <2>1. UNCHANGED <<callbackFun, inFlight>>
    BY <1>8 DEF Refuse
  <2>2. RequestInv' /\ SlotInv'
    BY <1>3, <2>1 DEF IInv, RequestInv, SlotInv
  <2>3. OwnObjects'
    <3>1. ASSUME NEW d \in Made PROVE d # c /\ On(d)' = On(d)
      BY <1>3, <2>1, <3>1 DEF On, IInv, RequestInv
    <3>2. On(c)' = {}
      BY <1>3, <1>5, <2>1 DEF On
    <3>. QED  BY <1>1, <1>3, <1>8, <3>1, <3>2 DEF IInv, OwnObjects
  <2>4. LivingInv'
    BY <1>1, <1>3, <1>8 DEF IInv, LivingInv
  <2>. QED  BY <1>4, <2>1, <2>2, <2>3, <2>4 DEF IInv
<1>. QED  BY <1>7, <1>8 DEF CallAdapter, NewObject

\* A callback that is told, on the object o its request was made on.
LEMMA FinishedInv ==
  ASSUME IInv, NEW q \in Calls \X Legs, RequestFinished(q)
  PROVE  IInv'
<1>. DEFINE o == ObjectOf(q[1])
            slot == callbackFun[o]
            c == slot[1]
<1>. USE DEF ByAdapter
<1>1. q \in DOMAIN inFlight /\ q[1] \in Made /\ q[2] \in Legs /\ o \in Objects
  BY MadeFacts DEF RequestFinished, IInv, RequestInv
<1>2. /\ c \in Made /\ ObjectOf(c) = o /\ slot[2] \in Legs
      /\ o = q[1] => slot[2] = "btxon" /\ q[2] = "btxon"
  BY <1>1 DEF IInv, SlotInv, RequestInv
<1>3. UNCHANGED <<calls, living>>
  BY DEF RequestFinished
<1>4. PICK r : \/ slot[2] = "btxon" /\ TellBtxon(c, q, r)
               \/ slot[2] = "ticker" /\ TakeTicker(c, q, r)
               \/ slot[2] = "line" /\ TakeLine(c, q, r)
  BY DEF RequestFinished
<1>5. \A d \in Made : ObjectOf(d) \in Calls => ObjectOf(d) = d
  BY ObjectsAssumption DEF IInv, CallInv
<1>6. CallInv' /\ \A d : On(d)' = {p \in DOMAIN inFlight' : ObjectOf(p[1]) = d}
  BY <1>3 DEF IInv, CallInv, Made, ObjectOf, Kind, On
<1>. HIDE DEF o, slot, c
<1>7. CASE slot[2] \in {"btxon", "line"}
  <2>1. /\ DOMAIN inFlight' = DOMAIN inFlight \ {q} /\ callbackFun' = callbackFun
        /\ dying' = IF ObjectOf(c) \in Calls THEN dying \cup {ObjectOf(c)} ELSE dying
    BY <1>4, <1>7 DEF TellBtxon, TakeLine, Tell, DeleteLater, Without
  <2>2. RequestInv' /\ SlotInv'
    BY <1>3, <2>1 DEF IInv, RequestInv, SlotInv, ObjectOf, Made
  <2>3. CASE o \in Calls
    <3>1. o = c /\ q[1] = c /\ q = <<c, "btxon">> /\ dying' = dying \cup {c}
      BY <1>1, <1>2, <1>5, <2>1, <2>3 DEF o
    <3>2. ASSUME NEW p \in DOMAIN inFlight, ObjectOf(p[1]) = c PROVE p = q
      <4>1. p[1] \in Made /\ p[1] = c
        BY <1>5, <2>3, <3>1, <3>2 DEF IInv, RequestInv
      <4>. QED  BY <3>1, <3>2, <4>1 DEF IInv, RequestInv
    <3>3. ASSUME NEW d \in Made, d = c PROVE On(d)' = {}
      BY <1>6, <2>1, <3>2, <3>3
    <3>4. ASSUME NEW d \in Made, d # c PROVE On(d)' = On(d)
      BY <1>6, <2>1, <3>1, <3>4 DEF On, o
    <3>5. c \in living /\ LivingInv'
      <4>1. q \in On(c) /\ ByAdapter(c)
        BY <1>1, <1>2, <3>1 DEF On, o
      <4>2. c \in living
        BY <1>2, <4>1 DEF IInv, OwnObjects
      <4>. QED  BY <1>3, <3>1, <4>2 DEF IInv, LivingInv, ObjectOf, Made
    <3>6. OwnObjects'
      <4>1. ASSUME NEW d \in Made, ByAdapter(d)
            PROVE  On(d)' # {} <=> d \in living \ dying'
        <5>1. CASE d = c
          BY <3>1, <3>3, <5>1
        <5>2. CASE d # c
          BY <3>1, <3>4, <4>1, <5>2 DEF IInv, OwnObjects
        <5>. QED  BY <5>1, <5>2
      <4>. QED  BY <1>3, <4>1 DEF OwnObjects, ObjectOf, Made
    <3>. QED  BY <1>6, <2>1, <2>2, <3>5, <3>6 DEF IInv
  <2>4. CASE o \notin Calls
    <3>1. dying' = dying
      BY <1>2, <2>1, <2>4
    <3>2. \A d \in Made : d \in Calls => On(d)' = On(d)
      BY <1>1, <1>6, <2>1, <2>4 DEF On, o
    <3>3. OwnObjects' /\ LivingInv'
      BY <1>3, <3>1, <3>2, MadeFacts DEF IInv, OwnObjects, LivingInv, ObjectOf, Made
    <3>. QED  BY <1>6, <2>1, <2>2, <3>3 DEF IInv
  <2>. QED  BY <2>3, <2>4
<1>8. CASE slot[2] = "ticker"
  <2>1. /\ DOMAIN inFlight' = (DOMAIN inFlight \ {q}) \cup {<<c, "line">>}
        /\ callbackFun' = [callbackFun EXCEPT ![o] = <<c, "line">>] /\ dying' = dying
    BY <1>2, <1>4, <1>8 DEF TakeTicker, With, Without
  <2>2. o \notin Calls
    BY <1>1, <1>2, <1>5, <1>8 DEF o
  <2>3. c \in Calls
    BY <1>2 DEF IInv, CallInv
  <2>4. callbackFun' \in [Objects -> (Calls \X Legs) \cup {NoCallback}]
    BY <1>1, <2>1, <2>3 DEF IInv, Legs
  <2>5. RequestInv'
    BY <1>2, <1>3, <2>1, <2>2, <2>3 DEF IInv, RequestInv, ObjectOf, Made, Legs
  <2>6. callbackFun'[o] = <<c, "line">> /\ \A x \in Objects : x # o => callbackFun'[x] = callbackFun[x]
    BY <1>1, <2>1 DEF IInv
  <2>7. SlotInv'
    <3>. SUFFICES ASSUME NEW p \in DOMAIN inFlight'
                  PROVE  LET s == callbackFun'[ObjectOf(p[1])]
                         IN  /\ s[1] \in Made /\ ObjectOf(s[1]) = ObjectOf(p[1])
                             /\ s[2] \in Legs /\ (ObjectOf(p[1]) = p[1] => s[2] = "btxon")
      BY <1>3 DEF SlotInv, ObjectOf, Made
    <3>1. CASE ObjectOf(p[1]) = o
      <4>1. p[1] \in Calls
        BY <2>1, <2>3 DEF IInv, RequestInv, CallInv
      <4>. QED  BY <1>2, <2>2, <2>6, <3>1, <4>1 DEF Legs
    <3>2. CASE ObjectOf(p[1]) # o
      <4>1. p \in DOMAIN inFlight
        BY <1>2, <2>1, <3>2
      <4>2. ObjectOf(p[1]) \in Objects
        BY <4>1, MadeFacts DEF IInv, RequestInv
      <4>. QED  BY <2>6, <3>2, <4>1, <4>2 DEF IInv, SlotInv
    <3>. QED  BY <3>1, <3>2
  <2>8. \A d \in Made : d \in Calls => On(d)' = On(d)
    BY <1>1, <1>2, <1>6, <2>1, <2>2 DEF On, o
  <2>9. OwnObjects' /\ LivingInv'
    BY <1>3, <2>1, <2>8, MadeFacts DEF IInv, OwnObjects, LivingInv, ObjectOf, Made
  <2>. QED  BY <1>6, <2>4, <2>5, <2>7, <2>9 DEF IInv
<1>. QED  BY <1>2, <1>7, <1>8 DEF Legs

\* The event loop deletes no object that waits.
LEMMA DestroyInv == ASSUME IInv, NEW o \in Calls, Destroy(o) PROVE IInv'
<1>1. o \in dying /\ o \in Made /\ ByAdapter(o) /\ On(o) = {}
  BY DEF Destroy, IInv, LivingInv, OwnObjects
<1>2. /\ DOMAIN inFlight' = DOMAIN inFlight
      /\ living' = living \ {o} /\ dying' = dying \ {o}
      /\ UNCHANGED <<calls, callbackFun>>
  BY <1>1 DEF Destroy
<1>3. \A d : On(d)' = On(d)
  BY <1>2 DEF On, ObjectOf
<1>4. CallInv' /\ RequestInv' /\ SlotInv'
  BY <1>2 DEF IInv, CallInv, RequestInv, SlotInv, Made, ObjectOf, ByAdapter, Kind
<1>5. LivingInv' /\ OwnObjects'
  BY <1>1, <1>2, <1>3 DEF IInv, LivingInv, OwnObjects, Made, ObjectOf, ByAdapter
<1>. QED  BY <1>2, <1>4, <1>5 DEF IInv

\* Steps that leave the calls, the slots and the objects alone, and ask for nothing.
LEMMA QuietInv ==
  ASSUME IInv, UNCHANGED <<calls, callbackFun, living, dying>>,
         DOMAIN inFlight' = DOMAIN inFlight
  PROVE  IInv'
<1>1. \A d : On(d)' = On(d)
  BY DEF On, ObjectOf
<1>2. CallInv' /\ RequestInv' /\ SlotInv'
  BY DEF IInv, CallInv, RequestInv, SlotInv, Made, ObjectOf, ByAdapter, Kind
<1>3. LivingInv' /\ OwnObjects'
  BY <1>1 DEF IInv, LivingInv, OwnObjects, Made, ObjectOf, ByAdapter
<1>. QED  BY <1>2, <1>3 DEF IInv

LEMMA InitInv == Init => IInv
<1>. SUFFICES ASSUME Init PROVE IInv
  OBVIOUS
<1>1. Made = {} /\ DOMAIN inFlight = {}
  BY DEF Init, Made
<1>2. calls \in Seq([object : Objects, kind : Asked])
  BY DEF Init
<1>. QED  BY <1>1, <1>2 DEF Init, IInv, CallInv, RequestInv, SlotInv, LivingInv, OwnObjects

LEMMA NextInv == ASSUME IInv, [Next]_vars PROVE IInv'
<1>1. ASSUME NEW c \in Calls, NEW o \in Kept, NEW kind \in BtxonKinds, CallKept(c, o, kind)
      PROVE  IInv'
  <2>1. Begin(c, o, kind) /\ UNCHANGED <<living, dying>>
    BY <1>1 DEF CallKept, Ask, Refuse
  <2>2. Send(c, o, "btxon") \/ UNCHANGED <<callbackFun, inFlight>>
    BY <1>1 DEF CallKept, Ask, Refuse
  <2>. QED  BY <2>1, <2>2, KeptCall DEF Legs
<1>2. ASSUME NEW c \in Calls, NEW kind \in AdapterKinds, CallAdapter(c, kind) PROVE IInv'
  BY <1>2, AdapterCall
<1>3. ASSUME NEW c \in Calls, NEW o \in Gates, NEW kind \in GateKinds, get24HLine(c, o, kind)
      PROVE  IInv'
  <2>1. Begin(c, o, kind) /\ UNCHANGED <<living, dying>>
    BY <1>3 DEF get24HLine
  <2>2. Send(c, o, "line") \/ Send(c, o, "ticker")
    BY <1>3 DEF get24HLine, checkUSDT_CNY
  <2>. QED  BY <2>1, <2>2, KeptCall DEF Legs
<1>4. ASSUME NEW q \in Calls \X Legs, Arrives(q) PROVE IInv'
  <2>1. DOMAIN inFlight' = DOMAIN inFlight /\ UNCHANGED <<calls, callbackFun, living, dying>>
    BY <1>4 DEF Arrives
  <2>. QED  BY <2>1, QuietInv
<1>5. ASSUME NEW q \in Calls \X Legs, RequestFinished(q) PROVE IInv'
  BY <1>5, FinishedInv
<1>6. ASSUME NEW o \in Calls, Destroy(o) PROVE IInv'
  BY <1>6, DestroyInv
<1>7. ASSUME NEW c \in Calls, ListEnds(c) PROVE IInv'
  BY <1>7, QuietInv DEF ListEnds
<1>8. ASSUME NEW time \in Times, SetClock(time) PROVE IInv'
  BY <1>8, QuietInv DEF SetClock
<1>9. CASE UNCHANGED vars
  BY <1>9, QuietInv DEF vars
<1>. QED  BY <1>1, <1>2, <1>3, <1>4, <1>5, <1>6, <1>7, <1>8, <1>9 DEF Next, EventLoop

\* Of any number of overlapping calls through CoinApiAdapter, each has an object that
\* lives exactly until its request is answered.
THEOREM OwnObjectsHolds == Spec => []OwnObjects
<1>1. IInv => OwnObjects
  BY DEF IInv
<1>. QED  BY <1>1, InitInv, NextInv, PTL DEF Spec

(***************************************************************************)
(* The rate of GateIOAsyncAPI.                                             *)
(***************************************************************************)
\* What a caller can be told: a price at the rate for none only after a failure.
Fine ==
  {h \in [ok : BOOLEAN, of : Calls \X (Legs \cup {"refused"}), rate : Int] :
     h.ok /\ h.rate = -1 => check_failed}

\* While there is no rate, update_time tells so, and only a failure puts the callback
\* of a line into a slot.
RateInv ==
  /\ \A q \in DOMAIN inFlight : inFlight[q] \subseteq Reply
  /\ clock \in Times /\ usdt_cny \in Int /\ (usdt_cny = -1 => update_time = 0)
  /\ \A o \in Objects : callbackFun[o][2] = "line" => usdt_cny # -1 \/ check_failed
  /\ heard \in [Calls -> Seq(Fine)]

LEMMA NeverYoungAtZero == ASSUME clock \in Times PROVE ~Young(0)
<1>1. clock \in Nat /\ U64 \in Nat /\ clock < U64 /\ TenHours < clock /\ TenHours \in Nat
  BY ClockAssumption
<1>2. (clock - 0) % U64 = clock
  BY <1>1
<1>. QED  BY <1>1, <1>2 DEF Young

LEMMA InitRate == Init => RateInv
<1>. SUFFICES ASSUME Init PROVE RateInv
  OBVIOUS
<1>1. \A o \in Objects : callbackFun[o] = <<0, "btxon">>
  BY DEF Init, NoCallback
<1>2. heard \in [Calls -> Seq(Fine)]
  <2>1. <<>> \in Seq(Fine)
    OBVIOUS
  <2>. QED  BY <2>1 DEF Init
<1>. QED  BY <1>1, <1>2 DEF Init, RateInv

\* One more that is fine for a caller.
LEMMA HearMore ==
  ASSUME RateInv, NEW c \in Calls, NEW h \in Fine, heard' = [heard EXCEPT ![c] = Append(@, h)],
         UNCHANGED check_failed
  PROVE  heard' \in [Calls -> Seq(Fine')]
<1>1. Fine' = Fine
  BY DEF Fine
<1>2. Append(heard[c], h) \in Seq(Fine)
  BY DEF RateInv
<1>. QED  BY <1>1, <1>2 DEF RateInv

LEMMA FinishedRate ==
  ASSUME IInv, RateInv, NEW q \in Calls \X Legs, RequestFinished(q)
  PROVE  RateInv'
<1>. DEFINE o == ObjectOf(q[1])
            slot == callbackFun[o]
            c == slot[1]
<1>1. q \in DOMAIN inFlight /\ o \in Objects
  BY MadeFacts DEF RequestFinished, IInv, RequestInv
<1>2. c \in Calls /\ ObjectOf(c) = o
  BY <1>1 DEF IInv, SlotInv, CallInv
<1>3. clock' = clock
  BY DEF RequestFinished
<1>4. PICK r \in Reply : \/ slot[2] = "btxon" /\ TellBtxon(c, q, r)
                         \/ slot[2] = "ticker" /\ TakeTicker(c, q, r)
                         \/ slot[2] = "line" /\ TakeLine(c, q, r)
  BY <1>1 DEF RequestFinished, RateInv
<1>. HIDE DEF o, slot, c
<1>5. CASE slot[2] \in {"btxon", "line"}
  <2>1. /\ inFlight' = Without(inFlight, q)
        /\ UNCHANGED <<callbackFun, usdt_cny, update_time, check_failed>>
    BY <1>4, <1>5 DEF TellBtxon, TakeLine, gate
  <2>2. PICK ok \in BOOLEAN, rate \in {1, usdt_cny} :
          /\ heard' = [heard EXCEPT ![c] = Append(@, [ok |-> ok, of |-> q, rate |-> rate])]
          /\ rate # 1 => slot[2] = "line"
    <3>1. CASE slot[2] = "btxon" /\ TellBtxon(c, q, r)
      <4>1. Accepts(Kind(c), r) \in BOOLEAN
        BY Zenon DEF Accepts
      <4>. QED  BY <3>1, <4>1 DEF TellBtxon, Tell
    <3>2. CASE slot[2] = "line" /\ TakeLine(c, q, r)
      <4>1. HasLine(r) \in BOOLEAN
        BY Zenon DEF HasLine
      <4>. QED  BY <3>2, <4>1 DEF TakeLine, Tell
    <3>. QED  BY <1>4, <1>5, <3>1, <3>2
  <2>3. rate \in Int /\ (rate = -1 => check_failed)
    BY <1>1, <2>2 DEF RateInv, slot
  <2>4. [ok |-> ok, of |-> q, rate |-> rate] \in Fine
    BY <2>3 DEF Fine
  <2>5. heard' \in [Calls -> Seq(Fine')]
    BY <1>2, <2>1, <2>2, <2>4, HearMore
  <2>. QED  BY <1>3, <2>1, <2>5 DEF RateInv, Without
<1>6. CASE slot[2] = "ticker" /\ TakeTicker(c, q, r)
  <2>1. /\ heard' = heard /\ (Quotes(r) => usdt_cny' = r.last)
        /\ (~Quotes(r) => UNCHANGED <<usdt_cny, update_time>>)
        /\ check_failed' = (check_failed \/ ~Quotes(r))
        /\ callbackFun' = [callbackFun EXCEPT ![o] = <<c, "line">>]
        /\ inFlight' = With(Without(inFlight, q), <<c, "line">>, {})
    BY <1>2, <1>6 DEF TakeTicker
  <2>2. r.last \in Int /\ r.last # -1
    BY DEF Reply
  <2>3. \A p \in DOMAIN inFlight' : inFlight'[p] \subseteq Reply
    BY <2>1 DEF RateInv, With, Without
  <2>4. Seq(Fine) \subseteq Seq(Fine')
    <3>1. Fine \subseteq Fine'
      BY <2>1 DEF Fine
    <3>. QED  BY <3>1
  <2>5. \A x \in Objects : callbackFun'[x][2] = "line" => usdt_cny' # -1 \/ check_failed'
    BY <1>1, <2>1, <2>2 DEF IInv, RateInv
  <2>. QED  BY <1>3, <2>1, <2>2, <2>3, <2>4, <2>5 DEF RateInv
<1>. QED  BY <1>4, <1>5, <1>6

\* A line is asked for at once only if there is a rate.
LEMMA AskRate ==
  ASSUME IInv, RateInv, NEW c \in Calls, NEW o \in Objects, NEW leg \in Legs, Send(c, o, leg),
         UNCHANGED <<heard, usdt_cny, update_time, clock, check_failed>>,
         leg = "line" => Young(update_time)
  PROVE  RateInv'
<1>1. /\ \A q \in DOMAIN inFlight' : inFlight'[q] \subseteq Reply
      /\ callbackFun' = [callbackFun EXCEPT ![o] = <<c, leg>>]
  BY DEF Send, With, RateInv
<1>2. leg = "line" => usdt_cny # -1
  BY NeverYoungAtZero DEF RateInv
<1>3. \A x \in Objects : callbackFun'[x][2] = "line" => usdt_cny # -1 \/ check_failed
  BY <1>1, <1>2 DEF IInv, RateInv
<1>4. Fine' = Fine
  BY DEF Fine
<1>. QED  BY <1>1, <1>3, <1>4 DEF RateInv

\* Steps that touch neither the slots nor the rate, and tell nobody anything.
LEMMA QuietRate ==
  ASSUME RateInv, UNCHANGED <<callbackFun, heard, usdt_cny, update_time, check_failed>>,
         clock' \in Times, \A q \in DOMAIN inFlight' : inFlight'[q] \subseteq Reply
  PROVE  RateInv'
<1>1. Fine' = Fine
  BY DEF Fine
<1>. QED  BY <1>1 DEF RateInv

LEMMA RefuseRate ==
  ASSUME RateInv, NEW c \in Calls, NEW o, NEW kind, Refuse(c, o, kind),
         UNCHANGED <<usdt_cny, update_time, clock, check_failed>>
  PROVE  RateInv'
<1>. DEFINE h == [ok |-> FALSE, of |-> <<c, "refused">>, rate |-> 1]
<1>1. UNCHANGED <<callbackFun, inFlight>> /\ heard' = [heard EXCEPT ![c] = <<h>>]
  BY DEF Refuse
<1>2. Fine' = Fine
  BY DEF Fine
<1>3. h \in Fine
  BY DEF Fine
<1>. HIDE DEF h
<1>4. <<h>> \in Seq(Fine)
  BY <1>3
<1>. QED  BY <1>1, <1>2, <1>4 DEF RateInv

LEMMA NextRate == ASSUME IInv, RateInv, [Next]_vars PROVE RateInv'
<1>0. clock \in Times /\ \A q \in DOMAIN inFlight : inFlight[q] \subseteq Reply
  BY DEF RateInv
<1>1. ASSUME NEW c \in Calls, NEW o \in Kept, NEW kind \in BtxonKinds, CallKept(c, o, kind)
      PROVE  RateInv'
  <2>1. UNCHANGED <<usdt_cny, update_time, clock, check_failed>>
    BY <1>1 DEF CallKept, gate
  <2>2. CASE Ask(c, o, kind)
    BY <2>1, <2>2, AskRate DEF Ask, Objects, Legs
  <2>3. CASE Refuse(c, o, kind)
    BY <2>1, <2>3, RefuseRate
  <2>. QED  BY <1>1, <2>2, <2>3 DEF CallKept
<1>2. ASSUME NEW c \in Calls, NEW kind \in AdapterKinds, CallAdapter(c, kind) PROVE RateInv'
  <2>1. UNCHANGED <<usdt_cny, update_time, clock, check_failed>>
    BY <1>2 DEF CallAdapter, gate
  <2>2. CASE Ask(c, c, kind)
    BY <2>1, <2>2, AskRate DEF Ask, Objects, Legs
  <2>3. CASE Refuse(c, c, kind)
    BY <2>1, <2>3, RefuseRate
  <2>. QED  BY <1>2, <2>2, <2>3 DEF CallAdapter, NewObject
<1>3. ASSUME NEW c \in Calls, NEW o \in Gates, NEW kind \in GateKinds, get24HLine(c, o, kind)
      PROVE  RateInv'
  <2>. DEFINE leg == IF Young(update_time) THEN "line" ELSE "ticker"
  <2>1. /\ UNCHANGED <<heard, usdt_cny, update_time, clock, check_failed>> /\ Send(c, o, leg)
        /\ leg \in Legs /\ (leg = "line" => Young(update_time)) /\ o \in Objects
    BY <1>3 DEF get24HLine, checkUSDT_CNY, gate, Legs, Objects
  <2>. QED  BY <2>1, AskRate
<1>4. ASSUME NEW q \in Calls \X Legs, Arrives(q) PROVE RateInv'
  <2>1. PICK r \in Replies \cup Tickers \cup Lines : inFlight' = [inFlight EXCEPT ![q] = {r}]
    BY <1>4 DEF Arrives
  <2>2. UNCHANGED <<callbackFun, heard, usdt_cny, update_time, check_failed, clock>>
    BY <1>4 DEF Arrives, gate
  <2>3. \A p \in DOMAIN inFlight' : inFlight'[p] \subseteq Reply
    BY <1>0, <2>1, ReplyAssumption
  <2>. QED  BY <1>0, <2>2, <2>3, QuietRate
<1>5. ASSUME NEW q \in Calls \X Legs, RequestFinished(q) PROVE RateInv'
  BY <1>5, FinishedRate
<1>6. ASSUME NEW o \in Calls, Destroy(o) PROVE RateInv'
  <2>1. /\ UNCHANGED <<callbackFun, heard, usdt_cny, update_time, check_failed, clock>>
        /\ inFlight' = [q \in DOMAIN inFlight \ On(o) |-> inFlight[q]]
    BY <1>6 DEF Destroy, gate
  <2>. QED  BY <1>0, <2>1, QuietRate
<1>7. ASSUME NEW c \in Calls, ListEnds(c) PROVE RateInv'
  BY <1>0, <1>7, QuietRate DEF ListEnds, gate
<1>8. ASSUME NEW time \in Times, SetClock(time) PROVE RateInv'
  BY <1>0, <1>8, QuietRate DEF SetClock, gate
<1>9. CASE UNCHANGED vars
  BY <1>0, <1>9, QuietRate DEF vars, gate
<1>. QED  BY <1>1, <1>2, <1>3, <1>4, <1>5, <1>6, <1>7, <1>8, <1>9 DEF Next, EventLoop

\* However many objects and calls there are and however the clock is set, a price is
\* converted at the rate for none only after a rate could not be fetched.
THEOREM NoRateOnlyAfterFailureHolds == Spec => []NoRateOnlyAfterFailure
<1>1. IInv /\ RateInv => NoRateOnlyAfterFailure
  <2>. SUFFICES ASSUME IInv, RateInv, NEW c \in Made, NEW i \in DOMAIN heard[c],
                       heard[c][i].ok, heard[c][i].rate = -1
                PROVE  check_failed
    BY DEF NoRateOnlyAfterFailure
  <2>1. heard[c] \in Seq(Fine)
    BY DEF IInv, CallInv, RateInv
  <2>2. heard[c][i] \in Fine
    BY <2>1
  <2>. QED  BY <2>2 DEF Fine
<1>. QED  BY <1>1, InitInv, NextInv, InitRate, NextRate, PTL DEF Spec

(***************************************************************************)
(* Who is told what.                                                       *)
(***************************************************************************)
\* A call that shared its object with no other has the slot for its request, and
\* is told nothing before the reply to that.
SlotOwn ==
  \A q \in DOMAIN inFlight :
    LET slot == callbackFun[ObjectOf(q[1])]
    IN  slot[1] \notin crossed \/ q[1] \notin crossed => slot = q /\ heard[q[1]] = <<>>

HeardOwn ==
  \A c \in Made \ crossed :
    /\ Len(heard[c]) <= 1
    /\ \A i \in DOMAIN heard[c] : heard[c][i].of[1] = c /\ heard[c][i].of[2] # "ticker"

\* No call shares an object of the adapter.
CrossInv ==
  /\ crossed \subseteq Made /\ (crossed = {} => running)
  /\ \A c \in Made : ByAdapter(c) => c \notin crossed

\* A caller of queryBalance has its list until it is told.
ListsInv ==
  /\ lists \subseteq Made
  /\ \A c \in Made : Kind(c) = "queryBalance" /\ heard[c] = <<>> => c \in lists

OneReply ==
  /\ \A c \in Calls : heard[c] # <<>> => c \in Made
  /\ \A q \in DOMAIN inFlight : \E r \in Reply : inFlight[q] \subseteq {r}

HearInv == SlotOwn /\ HeardOwn /\ CrossInv /\ ListsInv /\ OneReply

LEMMA InitHear == Init => HearInv
<1>. SUFFICES ASSUME Init PROVE HearInv
  OBVIOUS
<1>1. Made = {} /\ DOMAIN inFlight = {} /\ \A c \in Calls : heard[c] = <<>>
  BY DEF Init, Made
<1>. QED  BY <1>1 DEF Init, HearInv, SlotOwn, HeardOwn, CrossInv, ListsInv, OneReply

\* Steps that make no call, tell nobody anything, and do not change which requests
\* there are.
LEMMA QuietHear ==
  ASSUME IInv, HearInv, UNCHANGED <<calls, callbackFun, heard, crossed, running>>,
         DOMAIN inFlight' = DOMAIN inFlight,
         \A q \in DOMAIN inFlight : \E r \in Reply : inFlight'[q] \subseteq {r},
         lists' \subseteq lists, \A c \in lists : heard[c] = <<>> => c \in lists'
  PROVE  HearInv'
<1>1. Made' = Made /\ \A c : ObjectOf(c)' = ObjectOf(c) /\ Kind(c)' = Kind(c)
                             /\ ByAdapter(c)' = ByAdapter(c)
  BY DEF Made, ObjectOf, Kind, ByAdapter
<1>2. SlotOwn' /\ HeardOwn' /\ CrossInv'
  BY <1>1 DEF HearInv, SlotOwn, HeardOwn, CrossInv
<1>3. ListsInv' /\ OneReply'
  BY <1>1 DEF HearInv, ListsInv, OneReply
<1>. QED  BY <1>2, <1>3 DEF HearInv

LEMMA OneLong ==
  ASSUME NEW h, NEW s, s = <<h>>
  PROVE  Len(s) = 1 /\ DOMAIN s = 1..1 /\ \A i \in DOMAIN s : s[i] = h
OBVIOUS

\* A call that asks the server.
LEMMA AskHear ==
  ASSUME IInv, RateInv, HearInv,
         NEW c, NEW o \in Objects, NEW kind, NEW leg \in Legs,
         o = c \/ o \in Kept \cup Gates,
         Begin(c, o, kind), Send(c, o, leg), Cross(c, o), UNCHANGED <<heard, running>>,
         lists' = IF kind = "queryBalance" THEN lists \cup {c} ELSE lists
  PROVE  HearInv'
<1>1. /\ c \notin Made /\ Made' = Made \cup {c} /\ c \in Calls
      /\ calls'[c] = [object |-> o, kind |-> kind]
      /\ \A d \in Made : calls'[d] = calls[d]
  BY BeginFacts
<1>2. /\ ObjectOf(c)' = o /\ Kind(c)' = kind
      /\ \A d \in Made : ObjectOf(d)' = ObjectOf(d) /\ Kind(d)' = Kind(d)
                         /\ ByAdapter(d)' = ByAdapter(d)
  BY <1>1 DEF ObjectOf, Kind, ByAdapter
<1>3. /\ DOMAIN inFlight' = DOMAIN inFlight \cup {<<c, leg>>}
      /\ callbackFun'[o] = <<c, leg>>
      /\ \A x \in Objects : x # o => callbackFun'[x] = callbackFun[x]
      /\ inFlight'[<<c, leg>>] = {}
      /\ \A q \in DOMAIN inFlight : q # <<c, leg>> => inFlight'[q] = inFlight[q]
  BY DEF Send, With, IInv
<1>4. heard[c] = <<>>
  BY <1>1 DEF HearInv, OneReply
<1>5. \A q \in DOMAIN inFlight : q[1] \in Made /\ q[1] # c /\ ObjectOf(q[1]) \in Objects
  BY <1>1, MadeFacts DEF IInv, RequestInv
<1>6. /\ crossed \subseteq crossed'
      /\ \A q \in DOMAIN inFlight : ObjectOf(q[1]) = o => c \in crossed' /\ q[1] \in crossed'
      /\ crossed' \subseteq Made'
      /\ \A d \in crossed' : d \in crossed \/ On(o) # {}
  <2>1. \A q \in On(o) : q[1] \in Made
    BY <1>5 DEF On
  <2>. QED  BY <1>1, <2>1 DEF Cross, On, HearInv, CrossInv
<1>7. SlotOwn'
  <2>. SUFFICES ASSUME NEW q \in DOMAIN inFlight',
                       \/ callbackFun'[ObjectOf(q[1])'][1] \notin crossed'
                       \/ q[1] \notin crossed'
                PROVE  callbackFun'[ObjectOf(q[1])'] = q /\ heard'[q[1]] = <<>>
    BY DEF SlotOwn
  <2>1. CASE q = <<c, leg>>
    BY <1>2, <1>3, <1>4, <2>1
  <2>2. CASE q \in DOMAIN inFlight /\ ObjectOf(q[1]) = o
    BY <1>2, <1>3, <1>5, <1>6, <2>2
  <2>3. CASE q \in DOMAIN inFlight /\ ObjectOf(q[1]) # o
    <3>1. ObjectOf(q[1])' = ObjectOf(q[1])
          /\ callbackFun'[ObjectOf(q[1])] = callbackFun[ObjectOf(q[1])]
      BY <1>2, <1>3, <1>5, <2>3
    <3>. QED  BY <1>6, <2>3, <3>1 DEF HearInv, SlotOwn
  <2>. QED  BY <1>3, <2>1, <2>2, <2>3
<1>8. HeardOwn'
  BY <1>1, <1>4, <1>6 DEF HearInv, HeardOwn
<1>9. CrossInv'
  <2>1. crossed' = {} => running'
    BY <1>6 DEF HearInv, CrossInv
  <2>2. ASSUME NEW d \in Made, ByAdapter(d)' PROVE d \notin crossed'
    <3>1. d \notin crossed /\ ObjectOf(d) = d /\ d \in Calls
      BY <1>2, <2>2 DEF HearInv, CrossInv, IInv, CallInv, ByAdapter
    <3>2. d \notin {q[1] : q \in On(o)}
      <4>1. d # o
        BY <1>1, <3>1, ObjectsAssumption
      <4>. QED  BY <3>1, <4>1 DEF On
    <3>. QED  BY <1>1, <3>1, <3>2 DEF Cross
  <2>3. ASSUME ByAdapter(c)' PROVE c \notin crossed'
    <3>1. o = c
      BY <1>2, <2>3 DEF ByAdapter
    <3>2. On(o) = {}
      <4>1. ASSUME NEW q \in DOMAIN inFlight PROVE ObjectOf(q[1]) # c
        BY <1>1, <1>5, ObjectsAssumption DEF IInv, CallInv, ByAdapter
      <4>. QED  BY <3>1, <4>1 DEF On
    <3>. QED  BY <1>1, <3>2 DEF Cross, HearInv, CrossInv
  <2>. QED  BY <1>1, <1>6, <2>1, <2>2, <2>3 DEF CrossInv
<1>10. ListsInv'
  BY <1>1, <1>2 DEF HearInv, ListsInv
<1>11. OneReply'
  <2>1. \A q \in DOMAIN inFlight' : \E r \in Reply : inFlight'[q] \subseteq {r}
    <3>1. \E r : r \in Reply
      BY ReplyAssumption
    <3>. QED  BY <1>3, <1>5, <3>1 DEF HearInv, OneReply
  <2>. QED  BY <1>1, <2>1 DEF HearInv, OneReply
<1>. QED  BY <1>7, <1>8, <1>9, <1>10, <1>11 DEF HearInv

\* A call that is refused.
LEMMA RefuseHear ==
  ASSUME IInv, RateInv, HearInv, NEW c, NEW o \in Objects, NEW kind,
         Refuse(c, o, kind), running' = running
  PROVE  HearInv'
<1>. DEFINE h == [ok |-> FALSE, of |-> <<c, "refused">>, rate |-> 1]
<1>1. /\ c \notin Made /\ Made' = Made \cup {c} /\ c \in Calls
      /\ calls'[c] = [object |-> o, kind |-> kind]
      /\ \A d \in Made : calls'[d] = calls[d]
  BY BeginFacts DEF Refuse
<1>2. /\ ObjectOf(c)' = o /\ Kind(c)' = kind
      /\ \A d \in Made : ObjectOf(d)' = ObjectOf(d) /\ Kind(d)' = Kind(d)
                         /\ ByAdapter(d)' = ByAdapter(d)
  BY <1>1 DEF ObjectOf, Kind, ByAdapter
<1>3. /\ heard' = [heard EXCEPT ![c] = <<h>>] /\ UNCHANGED <<callbackFun, inFlight, lists, crossed>>
      /\ kind # "queryBalance"
  BY DEF Refuse, Refusable
<1>4. heard'[c] = <<h>> /\ \A d \in Calls : d # c => heard'[d] = heard[d]
  BY <1>1, <1>3 DEF RateInv
<1>5. \A q \in DOMAIN inFlight : q[1] \in Made /\ q[1] # c /\ q[1] \in Calls
  BY <1>1 DEF IInv, RequestInv, CallInv
<1>6. c \notin crossed
  BY <1>1 DEF HearInv, CrossInv
<1>7. SlotOwn'
  BY <1>2, <1>3, <1>4, <1>5 DEF HearInv, SlotOwn
<1>8. HeardOwn'
  <2>1. Len(heard'[c]) = 1 /\ \A i \in DOMAIN heard'[c] : heard'[c][i] = h
    <3>. HIDE DEF h
    <3>. QED  BY <1>4, OneLong
  <2>2. h.of[1] = c /\ h.of[2] # "ticker"
    OBVIOUS
  <2>. HIDE DEF h
  <2>. QED  BY <1>1, <1>3, <1>4, <2>1, <2>2 DEF HearInv, HeardOwn, IInv, CallInv
<1>9. CrossInv'
  BY <1>1, <1>2, <1>3, <1>6 DEF HearInv, CrossInv
<1>10. ListsInv'
  BY <1>1, <1>2, <1>3, <1>4 DEF HearInv, ListsInv, IInv, CallInv
<1>11. OneReply'
  BY <1>1, <1>3, <1>4 DEF HearInv, OneReply
<1>. QED  BY <1>7, <1>8, <1>9, <1>10, <1>11 DEF HearInv

\* A callback that answers its caller: the one in the slot is told, and of a call that
\* shared no object it is the reply to its own request.
LEMMA ToldHear ==
  ASSUME IInv, RateInv, HearInv, NEW q \in DOMAIN inFlight, NEW c, NEW h,
         callbackFun[ObjectOf(q[1])] = <<c, "btxon">> \/ callbackFun[ObjectOf(q[1])] = <<c, "line">>,
         heard' = [heard EXCEPT ![c] = Append(@, h)], h.of = q,
         inFlight' = Without(inFlight, q), UNCHANGED <<calls, callbackFun, crossed, lists>>,
         crossed = {} => running'
  PROVE  HearInv'
<1>. DEFINE o == ObjectOf(q[1])
            slot == callbackFun[o]
<1>1. Made' = Made /\ \A d : ObjectOf(d)' = ObjectOf(d) /\ Kind(d)' = Kind(d)
                             /\ ByAdapter(d)' = ByAdapter(d)
  BY DEF Made, ObjectOf, Kind, ByAdapter
<1>2. slot[1] = c /\ slot[2] # "ticker" /\ c \in Made /\ c \in Calls /\ ObjectOf(c) = o
  BY DEF IInv, SlotInv, CallInv
<1>3. /\ DOMAIN inFlight' = DOMAIN inFlight \ {q}
      /\ \A p \in DOMAIN inFlight' : inFlight'[p] = inFlight[p]
  BY DEF Without
<1>4. heard[c] \in Seq(Fine) /\ heard'[c] = Append(heard[c], h)
      /\ \A d \in Calls : d # c => heard'[d] = heard[d]
  BY <1>2 DEF RateInv
<1>5. c \notin crossed => slot = q /\ heard[c] = <<>>
  BY <1>2 DEF HearInv, SlotOwn
<1>6. ASSUME NEW p \in DOMAIN inFlight', callbackFun[ObjectOf(p[1])][1] \notin crossed \/ p[1] \notin crossed
      PROVE  p[1] # c /\ callbackFun[ObjectOf(p[1])] = p /\ heard[p[1]] = <<>> /\ p[1] \in Calls
  <2>1. p \in DOMAIN inFlight /\ p # q
    BY <1>3, <1>6
  <2>2. callbackFun[ObjectOf(p[1])] = p /\ heard[p[1]] = <<>>
    BY <1>6, <2>1 DEF HearInv, SlotOwn
  <2>3. p[1] \in Calls
    BY <2>1 DEF IInv, RequestInv, CallInv
  <2>4. p[1] # c
    <3>1. SUFFICES ASSUME p[1] = c PROVE FALSE
      OBVIOUS
    <3>2. slot = p
      BY <1>2, <2>2, <3>1
    <3>3. c \notin crossed
      BY <1>2, <1>6, <3>1, <3>2
    <3>. QED  BY <1>5, <2>1, <3>2, <3>3
  <2>. QED  BY <2>2, <2>3, <2>4
<1>7. SlotOwn'
  BY <1>1, <1>3, <1>4, <1>6 DEF SlotOwn
<1>8. HeardOwn'
  <2>1. ASSUME c \notin crossed
        PROVE  Len(heard'[c]) = 1 /\ \A i \in DOMAIN heard'[c] : heard'[c][i] = h
    <3>1. heard'[c] = Append(<<>>, h)
      BY <1>4, <1>5, <2>1
    <3>2. heard'[c] = <<h>>
      BY <3>1
    <3>. QED  BY <3>2, OneLong
  <2>2. c \notin crossed => h.of[1] = c /\ h.of[2] # "ticker"
    BY <1>2, <1>5
  <2>3. ASSUME NEW d \in Made \ crossed, d # c
        PROVE  Len(heard'[d]) <= 1
               /\ \A i \in DOMAIN heard'[d] : heard'[d][i].of[1] = d /\ heard'[d][i].of[2] # "ticker"
    BY <1>4, <2>3 DEF HearInv, HeardOwn, IInv, CallInv
  <2>. QED  BY <1>1, <2>1, <2>2, <2>3 DEF HeardOwn
<1>9. CrossInv'
  BY <1>1 DEF HearInv, CrossInv
<1>10. ListsInv'
  <2>1. heard'[c] # <<>>
    BY <1>4
  <2>. QED  BY <1>1, <1>4, <2>1 DEF HearInv, ListsInv, IInv, CallInv
<1>11. OneReply'
  BY <1>1, <1>2, <1>3, <1>4 DEF HearInv, OneReply
<1>. QED  BY <1>7, <1>8, <1>9, <1>10, <1>11 DEF HearInv

\* The callback of a ticker puts that of the line into its slot.
LEMMA TickerHear ==
  ASSUME IInv, RateInv, HearInv, NEW q \in DOMAIN inFlight, NEW c, NEW r,
         callbackFun[ObjectOf(q[1])] = <<c, "ticker">>, TakeTicker(c, q, r),
         UNCHANGED <<calls, crossed, lists>>
  PROVE  HearInv'
<1>. DEFINE o == ObjectOf(q[1])
            line == <<c, "line">>
<1>1. Made' = Made /\ \A d : ObjectOf(d)' = ObjectOf(d) /\ Kind(d)' = Kind(d)
                             /\ ByAdapter(d)' = ByAdapter(d)
  BY DEF Made, ObjectOf, Kind, ByAdapter
<1>2. c \in Made /\ c \in Calls /\ ObjectOf(c) = o /\ o \in Objects
  <2>1. q[1] \in Made
    BY DEF IInv, RequestInv
  <2>. QED  BY <2>1, MadeFacts DEF IInv, SlotInv, CallInv
<1>3. /\ DOMAIN inFlight' = (DOMAIN inFlight \ {q}) \cup {line}
      /\ \A p \in DOMAIN inFlight' : inFlight'[p] = IF p = line THEN {} ELSE inFlight[p]
      /\ callbackFun' = [callbackFun EXCEPT ![o] = line]
      /\ UNCHANGED <<heard, running>>
  BY <1>2 DEF TakeTicker, With, Without
<1>4. callbackFun'[o] = line /\ \A x \in Objects : x # o => callbackFun'[x] = callbackFun[x]
  BY <1>2, <1>3 DEF IInv
<1>5. ASSUME c \notin crossed PROVE q = <<c, "ticker">> /\ heard[c] = <<>>
  <2>1. callbackFun[ObjectOf(q[1])][1] = c
    OBVIOUS
  <2>2. callbackFun[ObjectOf(q[1])] = q /\ heard[q[1]] = <<>>
    BY <1>5, <2>1 DEF HearInv, SlotOwn
  <2>3. q[1] = c
    BY <2>1, <2>2
  <2>. QED  BY <2>2, <2>3
<1>6. SlotOwn'
  <2>. SUFFICES ASSUME NEW p \in DOMAIN inFlight',
                       \/ callbackFun'[ObjectOf(p[1])][1] \notin crossed
                       \/ p[1] \notin crossed
                PROVE  callbackFun'[ObjectOf(p[1])] = p /\ heard[p[1]] = <<>>
    BY <1>1, <1>3 DEF SlotOwn
  <2>1. CASE p = line
    BY <1>2, <1>4, <1>5, <2>1
  <2>2. CASE p # line /\ ObjectOf(p[1]) = o
    <3>1. p \in DOMAIN inFlight /\ p # q
      BY <1>3, <2>2
    <3>2. p[1] \notin crossed \/ c \notin crossed
      BY <1>4, <2>2
    <3>3. callbackFun[o] = p /\ callbackFun[o] = <<c, "ticker">>
      BY <2>2, <3>1, <3>2 DEF HearInv, SlotOwn
    <3>4. c \notin crossed
      BY <3>2, <3>3
    <3>. QED  BY <1>5, <3>1, <3>3, <3>4
  <2>3. CASE p # line /\ ObjectOf(p[1]) # o
    <3>1. p \in DOMAIN inFlight /\ p[1] \in Made /\ ObjectOf(p[1]) \in Objects
      BY <1>3, <2>3, MadeFacts DEF IInv, RequestInv
    <3>. QED  BY <1>4, <2>3, <3>1 DEF HearInv, SlotOwn
  <2>. QED  BY <2>1, <2>2, <2>3
<1>7. HeardOwn' /\ CrossInv' /\ ListsInv'
  BY <1>1, <1>3 DEF HearInv, HeardOwn, CrossInv, ListsInv
<1>8. OneReply'
  <2>1. \E s : s \in Reply
    BY ReplyAssumption
  <2>. QED  BY <1>1, <1>3, <2>1 DEF HearInv, OneReply
<1>. QED  BY <1>6, <1>7, <1>8 DEF HearInv

LEMMA FinishedHear ==
  ASSUME IInv, RateInv, HearInv, NEW q \in Calls \X Legs, RequestFinished(q)
  PROVE  HearInv'
<1>. DEFINE slot == callbackFun[ObjectOf(q[1])]
            c == slot[1]
<1>1. q \in DOMAIN inFlight /\ UNCHANGED <<calls, lists, crossed>> /\ running
  BY DEF RequestFinished
<1>2. PICK r : \/ slot[2] = "btxon" /\ TellBtxon(c, q, r)
               \/ slot[2] = "ticker" /\ TakeTicker(c, q, r)
               \/ slot[2] = "line" /\ TakeLine(c, q, r)
  BY DEF RequestFinished
<1>3. slot = <<c, slot[2]>> /\ c \in Made
  <2>1. q[1] \in Made
    BY <1>1 DEF IInv, RequestInv
  <2>2. slot \in (Calls \X Legs) \cup {NoCallback}
    BY <2>1, MadeFacts DEF IInv
  <2>3. c \in Made
    BY <1>1 DEF IInv, SlotInv
  <2>. QED  BY <2>2, <2>3 DEF NoCallback
<1>4. c \notin crossed => slot = q /\ heard[q[1]] = <<>>
  BY <1>1 DEF HearInv, SlotOwn
<1>5. CASE slot[2] = "btxon" /\ TellBtxon(c, q, r)
  <2>. DEFINE h == [ok |-> Accepts(Kind(c), r), of |-> q, rate |-> 1]
  <2>1. /\ heard' = [heard EXCEPT ![c] = Append(@, h)] /\ h.of = q
        /\ inFlight' = Without(inFlight, q) /\ callbackFun' = callbackFun
    BY <1>5 DEF TellBtxon, Tell
  <2>2. crossed = {} => running'
    <3>. SUFFICES ASSUME crossed = {} PROVE running'
      OBVIOUS
    <3>1. heard[c] = <<>>
      BY <1>3, <1>4
    <3>2. Kind(c) = "queryBalance" => c \in lists
      BY <1>3, <3>1 DEF HearInv, ListsInv
    <3>3. running' \in {TRUE}
      BY <1>5, <3>2 DEF TellBtxon
    <3>. QED  BY <3>3
  <2>3. slot = <<c, "btxon">>
    BY <1>3, <1>5
  <2>. HIDE DEF h, c
  <2>. QED  BY <1>1, <2>1, <2>2, <2>3, ToldHear
<1>6. CASE slot[2] = "line" /\ TakeLine(c, q, r)
  <2>1. PICK h : h.of = q /\ heard' = [heard EXCEPT ![c] = Append(@, h)]
    <3>1. PICK chinese \in BOOLEAN :
            heard' = [heard EXCEPT ![c] = Append(@,
              [ok |-> HasLine(r), of |-> q,
               rate |-> IF HasLine(r) /\ Converts(Kind(c), chinese) THEN usdt_cny ELSE 1])]
      BY <1>6 DEF TakeLine, Tell
    <3>. DEFINE h == [ok |-> HasLine(r), of |-> q,
               rate |-> IF HasLine(r) /\ Converts(Kind(c), chinese) THEN usdt_cny ELSE 1]
    <3>2. h.of = q
      OBVIOUS
    <3>. QED  BY <3>1, <3>2
  <2>2. inFlight' = Without(inFlight, q) /\ UNCHANGED <<callbackFun, running>>
    BY <1>6 DEF TakeLine
  <2>3. slot = <<c, "line">>
    BY <1>3, <1>6
  <2>. HIDE DEF c
  <2>. QED  BY <1>1, <2>1, <2>2, <2>3, ToldHear
<1>7. CASE slot[2] = "ticker" /\ TakeTicker(c, q, r)
  <2>1. slot = <<c, "ticker">>
    BY <1>3, <1>7
  <2>. HIDE DEF c
  <2>. QED  BY <1>1, <1>7, <2>1, TickerHear
<1>. QED  BY <1>2, <1>5, <1>6, <1>7

LEMMA NextHear == ASSUME IInv, RateInv, HearInv, [Next]_vars PROVE HearInv'
<1>0. \A q \in DOMAIN inFlight : \E r \in Reply : inFlight[q] \subseteq {r}
  BY DEF HearInv, OneReply
<1>1. ASSUME NEW c \in Calls, NEW o \in Kept, NEW kind \in BtxonKinds, CallKept(c, o, kind)
      PROVE  HearInv'
  <2>1. running' = running /\ o \in Objects
    BY <1>1 DEF CallKept, Objects
  <2>2. CASE Ask(c, o, kind)
    BY <2>1, <2>2, AskHear DEF Ask, Legs
  <2>3. CASE Refuse(c, o, kind)
    BY <2>1, <2>3, RefuseHear
  <2>. QED  BY <1>1, <2>2, <2>3 DEF CallKept
<1>2. ASSUME NEW c \in Calls, NEW kind \in AdapterKinds, CallAdapter(c, kind) PROVE HearInv'
  <2>1. running' = running /\ c \in Objects
    BY <1>2 DEF CallAdapter, Objects
  <2>2. CASE Ask(c, c, kind)
    BY <2>1, <2>2, AskHear DEF Ask, Legs
  <2>3. CASE Refuse(c, c, kind)
    BY <2>1, <2>3, RefuseHear
  <2>. QED  BY <1>2, <2>2, <2>3 DEF CallAdapter, NewObject
<1>3. ASSUME NEW c \in Calls, NEW o \in Gates, NEW kind \in GateKinds, get24HLine(c, o, kind)
      PROVE  HearInv'
  <2>. DEFINE leg == IF Young(update_time) THEN "line" ELSE "ticker"
  <2>1. /\ UNCHANGED <<heard, running, lists>> /\ Send(c, o, leg) /\ Begin(c, o, kind) /\ Cross(c, o)
        /\ leg \in Legs /\ o \in Objects /\ kind # "queryBalance"
    BY <1>3 DEF get24HLine, checkUSDT_CNY, Legs, Objects, GateKinds
  <2>. HIDE DEF leg
  <2>. QED  BY <2>1, AskHear
<1>4. ASSUME NEW q \in Calls \X Legs, Arrives(q) PROVE HearInv'
  <2>1. PICK r \in Reply : inFlight' = [inFlight EXCEPT ![q] = {r}]
    BY <1>4, ReplyAssumption DEF Arrives
  <2>2. UNCHANGED <<calls, callbackFun, heard, crossed, running, lists>>
    BY <1>4 DEF Arrives
  <2>3. DOMAIN inFlight' = DOMAIN inFlight
        /\ \A p \in DOMAIN inFlight : \E s \in Reply : inFlight'[p] \subseteq {s}
    BY <1>0, <2>1
  <2>. QED  BY <2>2, <2>3, QuietHear
<1>5. ASSUME NEW q \in Calls \X Legs, RequestFinished(q) PROVE HearInv'
  BY <1>5, FinishedHear
<1>6. ASSUME NEW o \in Calls, Destroy(o) PROVE HearInv'
  <2>1. On(o) = {}
    BY <1>6 DEF Destroy, IInv, LivingInv, OwnObjects
  <2>2. /\ UNCHANGED <<calls, callbackFun, heard, crossed, running, lists>>
        /\ DOMAIN inFlight' = DOMAIN inFlight
        /\ \A p \in DOMAIN inFlight : inFlight'[p] = inFlight[p]
    BY <1>6, <2>1 DEF Destroy
  <2>. QED  BY <1>0, <2>2, QuietHear
<1>7. ASSUME NEW c \in Calls, ListEnds(c) PROVE HearInv'
  BY <1>0, <1>7, QuietHear DEF ListEnds
<1>8. ASSUME NEW time \in Times, SetClock(time) PROVE HearInv'
  BY <1>0, <1>8, QuietHear DEF SetClock
<1>9. CASE UNCHANGED vars
  BY <1>0, <1>9, QuietHear DEF vars
<1>. QED  BY <1>1, <1>2, <1>3, <1>4, <1>5, <1>6, <1>7, <1>8, <1>9 DEF Next, EventLoop

\* Of any calls in any order, one that shared its object with none while either waited
\* is told at most once, of its own request; and the program cannot crash while none
\* has shared.
THEOREM AloneHearsItsOwnHolds == Spec => []AloneHearsItsOwn
<1>1. HearInv => AloneHearsItsOwn
  BY DEF HearInv, HeardOwn, CrossInv, AloneHearsItsOwn
<1>. QED  BY <1>1, InitInv, NextInv, InitRate, NextRate, InitHear, NextHear, PTL DEF Spec

(***************************************************************************)
(* The types.                                                              *)
(***************************************************************************)
RestInv ==
  /\ {running, check_failed} \subseteq BOOLEAN
  /\ usdt_cny \in Nat \cup {-1} /\ update_time \in Times \cup {0}

LEMMA InitRest == Init => RestInv
<1>. SUFFICES ASSUME Init PROVE RestInv
  OBVIOUS
<1>1. {running, check_failed} \subseteq BOOLEAN
  BY Zenon DEF Init
<1>. QED  BY <1>1 DEF Init, RestInv

\* Only the callbacks change any of these.
LEMMA RestSteps ==
  ASSUME [Next]_vars
  PROVE  \/ UNCHANGED <<running, check_failed, usdt_cny, update_time>>
         \/ \E q \in Calls \X Legs : RequestFinished(q)
<1>. USE DEF gate
<1>1. ASSUME NEW c \in Calls, NEW o \in Kept, NEW kind \in BtxonKinds, CallKept(c, o, kind)
      PROVE  UNCHANGED <<running, check_failed, usdt_cny, update_time>>
  BY <1>1 DEF CallKept
<1>2. ASSUME NEW c \in Calls, NEW kind \in AdapterKinds, CallAdapter(c, kind)
      PROVE  UNCHANGED <<running, check_failed, usdt_cny, update_time>>
  BY <1>2 DEF CallAdapter
<1>3. ASSUME NEW c \in Calls, NEW o \in Gates, NEW kind \in GateKinds, get24HLine(c, o, kind)
      PROVE  UNCHANGED <<running, check_failed, usdt_cny, update_time>>
  BY <1>3 DEF get24HLine, checkUSDT_CNY
<1>. QED  BY <1>1, <1>2, <1>3 DEF Next, EventLoop, Arrives, Destroy, ListEnds, SetClock, vars

LEMMA NextRest == ASSUME IInv, RateInv, RestInv, [Next]_vars PROVE RestInv'
<1>1. CASE UNCHANGED <<running, check_failed, usdt_cny, update_time>>
  BY <1>1 DEF RestInv
<1>2. ASSUME NEW q \in Calls \X Legs, RequestFinished(q) PROVE RestInv'
  <2>. DEFINE slot == callbackFun[ObjectOf(q[1])]
              c == slot[1]
  <2>1. clock \in Times
    BY DEF RateInv
  <2>2. PICK r \in Reply : \/ slot[2] = "btxon" /\ TellBtxon(c, q, r)
                           \/ slot[2] = "ticker" /\ TakeTicker(c, q, r)
                           \/ slot[2] = "line" /\ TakeLine(c, q, r)
    BY <1>2 DEF RequestFinished, RateInv
  <2>. HIDE DEF slot, c
  <2>3. CASE TellBtxon(c, q, r)
    BY <2>3 DEF TellBtxon, RestInv, gate
  <2>4. CASE TakeTicker(c, q, r)
    <3>1. r.last \in Nat
      BY DEF Reply
    <3>2. Quotes(r) \in BOOLEAN
      BY Zenon DEF Quotes
    <3>3. check_failed' \in BOOLEAN /\ running' = running
      BY <2>4, <3>2 DEF TakeTicker, RestInv
    <3>4. usdt_cny' \in Nat \cup {-1} /\ update_time' \in Times \cup {0}
      BY <2>1, <2>4, <3>1 DEF TakeTicker, RestInv
    <3>. QED  BY <3>3, <3>4 DEF RestInv
  <2>5. CASE TakeLine(c, q, r)
    BY <2>5 DEF TakeLine, RestInv, gate
  <2>. QED  BY <2>2, <2>3, <2>4, <2>5
<1>. QED  BY <1>1, <1>2, RestSteps

\* The clients keep their types, whatever is asked and answered.
THEOREM AsyncTypeOKHolds == Spec => []AsyncTypeOK
<1>1. ASSUME IInv, RateInv, HearInv, RestInv PROVE AsyncTypeOK
  <2>1. Made \subseteq Calls /\ DOMAIN inFlight \subseteq Made \X Legs
    BY <1>1 DEF IInv, CallInv, RequestInv
  <2>2. {living, lists, crossed} \subseteq SUBSET Made /\ dying \subseteq living
    BY <1>1 DEF IInv, LivingInv, HearInv, ListsInv, CrossInv
  <2>. QED  BY <1>1, <2>1, <2>2
            DEF IInv, CallInv, RateInv, HearInv, OneReply, RestInv, AsyncTypeOK
<1>2. IInv /\ RateInv /\ HearInv /\ RestInv => AsyncTypeOK
  BY <1>1
<1>. QED  BY <1>2, InitInv, NextInv, InitRate, NextRate, InitHear, NextHear, InitRest, NextRest,
             PTL DEF Spec

(***************************************************************************)
(* The calls through the adapter answer once.                              *)
(***************************************************************************)
\* What the abstract specification sees of the clients.
SaidOf == [c \in {d \in Adapted : Finished(d) \/ HasReply(d)} |-> Said(c)]
ToldOf == [c \in {d \in Adapted : heard[d] # <<>>} |-> heard[c][Len(heard[c])].ok]

LEMMA SameView ==
  ASSUME Adapted' = Adapted,
         \A d \in Adapted : /\ heard'[d] = heard[d] /\ Kind(d)' = Kind(d)
                            /\ HasReply(d)' <=> HasReply(d)
                            /\ HasReply(d) => inFlight'[<<d, "btxon">>] = inFlight[<<d, "btxon">>]
  PROVE  [Answers!Next]_(Answers!avars)
<1>1. \A d \in Adapted : Finished(d)' <=> Finished(d)
  BY DEF Finished
<1>2. ASSUME NEW d \in Adapted, Finished(d) \/ HasReply(d) PROVE Said(d)' = Said(d)
  BY <1>1, <1>2 DEF Said
<1>3. SaidOf' = SaidOf
  BY <1>1, <1>2 DEF SaidOf
<1>4. ToldOf' = ToldOf
  BY DEF ToldOf
<1>. QED  BY <1>3, <1>4 DEF Answers!avars, SaidOf, ToldOf

\* A call on a kept object, and its callbacks, are nothing to the adapter.
LEMMA KeptCallView ==
  ASSUME IInv, NEW c, NEW o \in Kept \cup Gates, NEW kind, NEW leg \in Legs, Begin(c, o, kind),
         \A d \in Made : heard'[d] = heard[d],
         Send(c, o, leg) \/ inFlight' = inFlight
  PROVE  [Answers!Next]_(Answers!avars)
<1>1. o \in Objects /\ o \notin Calls
  BY ObjectsAssumption DEF Objects
<1>2. /\ c \notin Made /\ Made' = Made \cup {c} /\ c \in Calls
      /\ calls'[c] = [object |-> o, kind |-> kind]
      /\ \A d \in Made : calls'[d] = calls[d]
  BY <1>1, BeginFacts
<1>3. Adapted' = Adapted /\ \A d \in Adapted : Kind(d)' = Kind(d)
  BY <1>1, <1>2 DEF Adapted, ByAdapter, ObjectOf, Kind
<1>4. \A d \in Adapted : d \in Made /\ d # c
  BY <1>2 DEF Adapted
<1>5. \A d \in Adapted : /\ <<d, "btxon">> \in DOMAIN inFlight' <=> <<d, "btxon">> \in DOMAIN inFlight
                         /\ <<d, "btxon">> \in DOMAIN inFlight =>
                              inFlight'[<<d, "btxon">>] = inFlight[<<d, "btxon">>]
  BY <1>4 DEF Send, With
<1>. QED  BY <1>3, <1>4, <1>5, SameView DEF HasReply

LEMMA AdapterCallView ==
  ASSUME IInv, RateInv, HearInv, NEW c, NEW kind, CallAdapter(c, kind)
  PROVE  [Answers!Next]_(Answers!avars)
<1>1. Begin(c, c, kind)
  BY DEF CallAdapter, NewObject, Ask, Refuse
<1>2. c \in Objects
  BY <1>1 DEF Begin, Objects
<1>3. /\ c \notin Made /\ Made' = Made \cup {c} /\ c \in Calls
      /\ calls'[c] = [object |-> c, kind |-> kind]
      /\ \A d \in Made : calls'[d] = calls[d]
  BY <1>1, <1>2, BeginFacts
<1>4. /\ c \notin Adapted /\ Adapted' = Adapted \cup {c}
      /\ \A d \in Adapted : Kind(d)' = Kind(d) /\ d # c /\ d \in Calls
  BY <1>3 DEF Adapted, ByAdapter, ObjectOf, Kind, IInv, CallInv
<1>5. heard[c] = <<>> /\ <<c, "btxon">> \notin DOMAIN inFlight
  BY <1>3 DEF HearInv, OneReply, IInv, RequestInv
<1>6. CASE Ask(c, c, kind)
  <2>1. /\ heard' = heard
        /\ inFlight' = With(inFlight, <<c, "btxon">>, {})
    BY <1>6 DEF Ask, Send
  <2>2. /\ ~HasReply(c)' /\ ~Finished(c)'
        /\ \A d \in Adapted : /\ HasReply(d)' <=> HasReply(d)
                              /\ HasReply(d) => inFlight'[<<d, "btxon">>] = inFlight[<<d, "btxon">>]
    BY <1>4, <1>5, <2>1 DEF HasReply, Finished, With
  <2>3. \A d \in Adapted : Finished(d)' <=> Finished(d)
    BY <2>1 DEF Finished
  <2>4. \A d \in Adapted : Finished(d) \/ HasReply(d) => Said(d)' = Said(d)
    BY <1>4, <2>1, <2>2, <2>3 DEF Said
  <2>5. SaidOf' = SaidOf
    BY <1>4, <2>2, <2>3, <2>4 DEF SaidOf
  <2>6. ToldOf' = ToldOf
    BY <1>4, <1>5, <2>1 DEF ToldOf
  <2>7. Answers!Ask(c)
    BY <1>4, <2>5, <2>6 DEF Answers!Ask, SaidOf, ToldOf
  <2>. QED  BY <1>3, <2>7 DEF Answers!Next
<1>7. CASE Refuse(c, c, kind)
  <2>. DEFINE h == [ok |-> FALSE, of |-> <<c, "refused">>, rate |-> 1]
  <2>1. heard' = [heard EXCEPT ![c] = <<h>>] /\ inFlight' = inFlight
    BY <1>7 DEF Refuse
  <2>2. heard'[c] = <<h>> /\ \A d \in Adapted : heard'[d] = heard[d]
    BY <1>3, <1>4, <2>1 DEF RateInv
  <2>3. h.ok = FALSE /\ h.of[2] = "refused"
    OBVIOUS
  <2>. HIDE DEF h
  <2>4. heard'[c] # <<>> /\ heard'[c][1] = h /\ Len(heard'[c]) = 1
    BY <2>2, OneLong
  <2>5. ~HasReply(c)' /\ ~Finished(c)'
    BY <1>5, <2>1, <2>3, <2>4 DEF HasReply, Finished
  <2>6. \A d \in Adapted : (Finished(d)' <=> Finished(d)) /\ (HasReply(d)' <=> HasReply(d))
    BY <2>1, <2>2 DEF Finished, HasReply
  <2>7. ASSUME NEW d \in Adapted, Finished(d) \/ HasReply(d) PROVE Said(d)' = Said(d)
    <3>1. heard'[d] = heard[d] /\ Kind(d)' = Kind(d) /\ (Finished(d)' <=> Finished(d))
      BY <1>4, <2>2, <2>6
    <3>2. CASE Finished(d)
      BY <3>1, <3>2 DEF Said
    <3>3. CASE ~Finished(d)
      BY <2>1, <3>1, <3>3 DEF Said
    <3>. QED  BY <3>2, <3>3
  <2>8. SaidOf' = SaidOf
    BY <1>4, <2>5, <2>6, <2>7 DEF SaidOf
  <2>9. ToldOf' = Answers!With(ToldOf, c, FALSE)
    BY <1>4, <2>2, <2>3, <2>4 DEF ToldOf, Answers!With
  <2>10. Answers!Refuse(c)
    BY <1>4, <2>8, <2>9 DEF Answers!Refuse, SaidOf, ToldOf
  <2>. QED  BY <1>3, <2>10 DEF Answers!Next
<1>. QED  BY <1>6, <1>7 DEF CallAdapter, NewObject

\* A request of the adapter is the only one of its call, which has been told nothing.
LEMMA AdaptedRequest ==
  ASSUME IInv, HearInv, NEW q \in DOMAIN inFlight, ByAdapter(q[1])
  PROVE  /\ q = <<q[1], "btxon">> /\ q[1] \in Adapted /\ q[1] \in Calls
         /\ heard[q[1]] = <<>> /\ callbackFun[ObjectOf(q[1])] = q
<1>1. q \in Made \X Legs /\ q[2] = "btxon"
  BY DEF IInv, RequestInv
<1>2. q[1] \in Made /\ q[1] \in Calls /\ q[1] \notin crossed
  BY <1>1 DEF IInv, CallInv, HearInv, CrossInv
<1>. QED  BY <1>1, <1>2 DEF HearInv, SlotOwn, Adapted

LEMMA ArrivesView ==
  ASSUME IInv, HearInv, NEW q, Arrives(q)
  PROVE  [Answers!Next]_(Answers!avars)
<1>1. PICK r : inFlight' = [inFlight EXCEPT ![q] = {r}]
  BY DEF Arrives
<1>2. q \in DOMAIN inFlight /\ inFlight[q] = {} /\ UNCHANGED <<calls, heard>>
  BY DEF Arrives
<1>3. Adapted' = Adapted /\ \A d : Kind(d)' = Kind(d) /\ (Finished(d)' <=> Finished(d))
  BY <1>2 DEF Adapted, Made, ByAdapter, ObjectOf, Kind, Finished
<1>4. CASE ByAdapter(q[1])
  <2>. DEFINE c == q[1]
  <2>1. q = <<c, "btxon">> /\ c \in Adapted /\ c \in Calls /\ heard[c] = <<>>
    BY <1>2, <1>4, AdaptedRequest
  <2>. HIDE DEF c
  <2>2. ~HasReply(c) /\ HasReply(c)' /\ ~Finished(c)
    BY <1>1, <1>2, <2>1 DEF HasReply, Finished
  <2>3. ASSUME NEW d \in Adapted, d # c
        PROVE  (HasReply(d)' <=> HasReply(d))
               /\ (Finished(d) \/ HasReply(d) => Said(d)' = Said(d))
    <3>1. <<d, "btxon">> # q
      BY <2>1, <2>3
    <3>2. inFlight'[<<d, "btxon">>] = inFlight[<<d, "btxon">>] \/ <<d, "btxon">> \notin DOMAIN inFlight
      BY <1>1, <3>1
    <3>3. HasReply(d)' <=> HasReply(d)
      BY <1>1, <3>2 DEF HasReply
    <3>. QED  BY <1>2, <1>3, <3>2, <3>3 DEF Said, HasReply
  <2>4. Said(c)' \in BOOLEAN
    <3>1. Said(c)' <=> \E s \in inFlight'[<<c, "btxon">>] : Accepts(Kind(c)', s)
      BY <1>3, <2>2 DEF Said
    <3>2. (\E s \in inFlight'[<<c, "btxon">>] : Accepts(Kind(c)', s)) \in BOOLEAN
      BY Zenon
    <3>. QED  BY <1>3, <2>2, Zenon DEF Said
  <2>5. SaidOf' = Answers!With(SaidOf, c, Said(c)')
    BY <1>3, <2>1, <2>2, <2>3 DEF SaidOf, Answers!With
  <2>6. ToldOf' = ToldOf
    BY <1>2, <1>3 DEF ToldOf
  <2>7. Answers!Say(c)
    <3>1. c \in Adapted \ (DOMAIN SaidOf \cup DOMAIN ToldOf)
      BY <2>1, <2>2 DEF SaidOf, ToldOf
    <3>. QED  BY <1>3, <2>4, <2>5, <2>6, <3>1 DEF Answers!Say, SaidOf, ToldOf
  <2>. QED  BY <2>1, <2>7 DEF Answers!Next
<1>5. CASE ~ByAdapter(q[1])
  <2>1. \A d \in Adapted : <<d, "btxon">> # q
    BY <1>5 DEF Adapted
  <2>2. \A d \in Adapted : /\ <<d, "btxon">> \in DOMAIN inFlight' <=> <<d, "btxon">> \in DOMAIN inFlight
                           /\ <<d, "btxon">> \in DOMAIN inFlight =>
                                inFlight'[<<d, "btxon">>] = inFlight[<<d, "btxon">>]
    BY <1>1, <2>1
  <2>. QED  BY <1>2, <1>3, <2>2, SameView DEF HasReply
<1>. QED  BY <1>4, <1>5

LEMMA FinishedView ==
  ASSUME IInv, RateInv, HearInv, NEW q \in Calls \X Legs, RequestFinished(q)
  PROVE  [Answers!Next]_(Answers!avars)
<1>. DEFINE slot == callbackFun[ObjectOf(q[1])]
<1>0. PICK c : c = slot[1]
  OBVIOUS
<1>1. q \in DOMAIN inFlight /\ calls' = calls
  BY DEF RequestFinished
<1>2. PICK r \in inFlight[q] :
        \/ slot[2] = "btxon" /\ TellBtxon(c, q, r)
        \/ slot[2] = "ticker" /\ TakeTicker(c, q, r)
        \/ slot[2] = "line" /\ TakeLine(c, q, r)
  BY <1>0 DEF RequestFinished
<1>3. Adapted' = Adapted /\ \A d : Kind(d)' = Kind(d)
  BY <1>1 DEF Adapted, Made, ByAdapter, ObjectOf, Kind
<1>4. c \in Calls /\ c \in Made /\ ObjectOf(c) = ObjectOf(q[1])
  BY <1>0, <1>1 DEF IInv, SlotInv, CallInv
<1>. HIDE DEF slot
<1>5. CASE ByAdapter(q[1])
  <2>1. q = <<q[1], "btxon">> /\ q[1] \in Adapted /\ heard[q[1]] = <<>> /\ slot = q
    BY <1>1, <1>5, AdaptedRequest DEF slot
  <2>2. c = q[1] /\ slot[2] = "btxon"
    BY <1>0, <2>1
  <2>3. q = <<c, "btxon">> /\ c \in Adapted /\ heard[c] = <<>>
    BY <2>1, <2>2
  <2>4. TellBtxon(c, q, r)
    BY <1>2, <2>2
  <2>. DEFINE h == [ok |-> Accepts(Kind(c), r), of |-> q, rate |-> 1]
  <2>5. heard' = [heard EXCEPT ![c] = Append(@, h)] /\ inFlight' = Without(inFlight, q)
        /\ h.ok = Accepts(Kind(c), r) /\ h.of = q
    BY <2>4 DEF TellBtxon, Tell
  <2>. HIDE DEF h
  <2>6. heard'[c] = <<h>> /\ \A d \in Calls : d # c => heard'[d] = heard[d]
    <3>1. heard'[c] = Append(heard[c], h) /\ \A d \in Calls : d # c => heard'[d] = heard[d]
      BY <1>4, <2>5 DEF RateInv
    <3>2. Append(<<>>, h) = <<h>>
      OBVIOUS
    <3>. QED  BY <2>3, <3>1, <3>2
  <2>7. heard'[c] # <<>> /\ heard'[c][1] = h /\ Len(heard'[c]) = 1
    BY <2>6, OneLong
  <2>8. Finished(c)' /\ HasReply(c) /\ ~Finished(c)
    <3>1. h.of[2] = "btxon"
      BY <2>3, <2>5
    <3>. QED  BY <1>1, <1>2, <2>3, <2>7, <3>1 DEF Finished, HasReply
  <2>9. Said(c)' = Said(c) /\ Said(c) = h.ok
    <3>1. inFlight[q] = {r}
      BY <1>1, <1>2 DEF HearInv, OneReply
    <3>2. Said(c) = Accepts(Kind(c), r)
      <4>1. Said(c) = \E s \in inFlight[q] : Accepts(Kind(c), s)
        BY <2>3, <2>8, Zenon DEF Said
      <4>2. Accepts(Kind(c), r) \in BOOLEAN
        BY Zenon DEF Accepts
      <4>3. (\E s \in {r} : Accepts(Kind(c), s)) = Accepts(Kind(c), r)
        BY <4>2, Zenon
      <4>. QED  BY <3>1, <4>1, <4>3, Zenon
    <3>3. Said(c)' = h.ok
      BY <2>7, <2>8 DEF Said
    <3>. QED  BY <2>5, <3>2, <3>3
  <2>10. ASSUME NEW d \in Adapted, d # c
         PROVE  /\ heard'[d] = heard[d] /\ (HasReply(d)' <=> HasReply(d))
                /\ (Finished(d)' <=> Finished(d))
                /\ (Finished(d) \/ HasReply(d) => Said(d)' = Said(d))
    <3>1. d \in Calls /\ <<d, "btxon">> # q
      BY <2>3, <2>10 DEF Adapted, IInv, CallInv
    <3>2. heard'[d] = heard[d]
      BY <2>6, <2>10, <3>1
    <3>3. HasReply(d)' <=> HasReply(d)
      BY <2>5, <3>1 DEF HasReply, Without
    <3>4. HasReply(d) => inFlight'[<<d, "btxon">>] = inFlight[<<d, "btxon">>]
      BY <2>5, <3>1 DEF HasReply, Without
    <3>5. Finished(d)' <=> Finished(d)
      BY <3>2 DEF Finished
    <3>6. Finished(d) \/ HasReply(d) => Said(d)' = Said(d)
      BY <1>3, <3>2, <3>3, <3>4, <3>5 DEF Said
    <3>. QED  BY <3>2, <3>3, <3>5, <3>6
  <2>11. SaidOf' = SaidOf
    BY <1>3, <2>3, <2>8, <2>9, <2>10 DEF SaidOf
  <2>12. ToldOf' = Answers!With(ToldOf, c, h.ok)
    BY <1>3, <2>3, <2>7, <2>10 DEF ToldOf, Answers!With
  <2>13. c \in DOMAIN SaidOf \ DOMAIN ToldOf /\ SaidOf[c] = h.ok
    BY <2>3, <2>8, <2>9 DEF SaidOf, ToldOf
  <2>14. Answers!Tell(c)
    BY <1>3, <2>11, <2>12, <2>13 DEF Answers!Tell, SaidOf, ToldOf
  <2>. QED  BY <1>4, <2>14 DEF Answers!Next
<1>6. CASE ~ByAdapter(q[1])
  <2>1. q[1] \in Made /\ ObjectOf(q[1]) \notin Calls
    BY <1>1, <1>6, ObjectsAssumption DEF IInv, RequestInv, CallInv
  <2>2. c \notin Adapted /\ q[1] \notin Adapted
    BY <1>4, <1>6, <2>1 DEF Adapted, ByAdapter
  <2>3. \A d \in Adapted : d # c /\ d \in Calls /\ <<d, "btxon">> # q
    BY <2>2 DEF Adapted, IInv, CallInv
  <2>4. heard' = heard \/ \E h : heard' = [heard EXCEPT ![c] = Append(@, h)]
    BY <1>2 DEF TellBtxon, TakeTicker, TakeLine, Tell
  <2>5. \A d \in Adapted : heard'[d] = heard[d]
    BY <2>3, <2>4 DEF RateInv
  <2>6. inFlight' = Without(inFlight, q) \/ inFlight' = With(Without(inFlight, q), <<c, "line">>, {})
    BY <1>2 DEF TellBtxon, TakeTicker, TakeLine
  <2>7. ASSUME NEW d \in Adapted
        PROVE  /\ <<d, "btxon">> \in DOMAIN inFlight' <=> <<d, "btxon">> \in DOMAIN inFlight
               /\ <<d, "btxon">> \in DOMAIN inFlight =>
                    inFlight'[<<d, "btxon">>] = inFlight[<<d, "btxon">>]
    <3>. DEFINE p == <<d, "btxon">>
                line == <<c, "line">>
    <3>1. p # q /\ p # line
      BY <2>3
    <3>2. inFlight' = Without(inFlight, q) \/ inFlight' = With(Without(inFlight, q), line, {})
      BY <2>6
    <3>. HIDE DEF p, line
    <3>3. (p \in DOMAIN inFlight' <=> p \in DOMAIN inFlight)
          /\ (p \in DOMAIN inFlight => inFlight'[p] = inFlight[p])
      BY <3>1, <3>2 DEF Without, With
    <3>. QED  BY <3>3 DEF p
  <2>. QED  BY <1>3, <2>5, <2>7, SameView DEF HasReply
<1>. QED  BY <1>5, <1>6

LEMMA NextView ==
  ASSUME IInv, RateInv, HearInv, [Next]_vars
  PROVE  [Answers!Next]_(Answers!avars)
<1>1. ASSUME NEW c \in Calls, NEW o \in Kept, NEW kind \in BtxonKinds, CallKept(c, o, kind)
      PROVE  [Answers!Next]_(Answers!avars)
  <2>1. CASE Ask(c, o, kind)
    BY <2>1, KeptCallView DEF Ask, Legs
  <2>2. CASE Refuse(c, o, kind)
    <3>1. Begin(c, o, kind) /\ inFlight' = inFlight /\ o \in Objects
          /\ heard' = [heard EXCEPT ![c] = <<[ok |-> FALSE, of |-> <<c, "refused">>, rate |-> 1]>>]
      BY <2>2 DEF Refuse, Objects
    <3>2. c \notin Made
      BY <3>1, BeginFacts
    <3>3. \A d \in Made : heard'[d] = heard[d]
      BY <3>1, <3>2 DEF RateInv, IInv, CallInv
    <3>. QED  BY <3>1, <3>3, KeptCallView DEF Legs
  <2>. QED  BY <1>1, <2>1, <2>2 DEF CallKept
<1>2. ASSUME NEW c \in Calls, NEW kind \in AdapterKinds, CallAdapter(c, kind)
      PROVE  [Answers!Next]_(Answers!avars)
  BY <1>2, AdapterCallView
<1>3. ASSUME NEW c \in Calls, NEW o \in Gates, NEW kind \in GateKinds, get24HLine(c, o, kind)
      PROVE  [Answers!Next]_(Answers!avars)
  <2>. DEFINE leg == IF Young(update_time) THEN "line" ELSE "ticker"
  <2>1. heard' = heard /\ Send(c, o, leg) /\ Begin(c, o, kind) /\ leg \in Legs
    BY <1>3 DEF get24HLine, checkUSDT_CNY, Legs
  <2>. HIDE DEF leg
  <2>. QED  BY <2>1, KeptCallView
<1>4. ASSUME NEW q \in Calls \X Legs, Arrives(q) PROVE [Answers!Next]_(Answers!avars)
  BY <1>4, ArrivesView
<1>5. ASSUME NEW q \in Calls \X Legs, RequestFinished(q) PROVE [Answers!Next]_(Answers!avars)
  BY <1>5, FinishedView
<1>6. ASSUME UNCHANGED <<calls, heard>>, DOMAIN inFlight' = DOMAIN inFlight,
             \A q \in DOMAIN inFlight : inFlight'[q] = inFlight[q]
      PROVE  [Answers!Next]_(Answers!avars)
  <2>1. Adapted' = Adapted /\ \A d : Kind(d)' = Kind(d)
    BY <1>6 DEF Adapted, Made, ByAdapter, ObjectOf, Kind
  <2>. QED  BY <1>6, <2>1, SameView DEF HasReply
<1>7. ASSUME NEW o \in Calls, Destroy(o) PROVE [Answers!Next]_(Answers!avars)
  <2>1. On(o) = {}
    BY <1>7 DEF Destroy, IInv, LivingInv, OwnObjects
  <2>. QED  BY <1>6, <1>7, <2>1 DEF Destroy
<1>8. ASSUME NEW c \in Calls, ListEnds(c) PROVE [Answers!Next]_(Answers!avars)
  BY <1>6, <1>8 DEF ListEnds
<1>9. ASSUME NEW time \in Times, SetClock(time) PROVE [Answers!Next]_(Answers!avars)
  BY <1>6, <1>9 DEF SetClock
<1>10. CASE UNCHANGED vars
  BY <1>6, <1>10 DEF vars
<1>. QED  BY <1>1, <1>2, <1>3, <1>4, <1>5, <1>7, <1>8, <1>9, <1>10 DEF Next, EventLoop

\* The calls through CoinApiAdapter, any number of them, implement AnswerOnce.
THEOREM AnswersOnceHolds == Spec => AnswersOnce
<1>1. ASSUME Init PROVE Answers!Init
  <2>1. Adapted = {}
    BY <1>1 DEF Init, Adapted, Made
  <2>2. SaidOf = [c \in {} |-> TRUE] /\ ToldOf = [c \in {} |-> TRUE]
    BY <2>1 DEF SaidOf, ToldOf
  <2>. QED  BY <2>1, <2>2 DEF Answers!Init, SaidOf, ToldOf
<1>2. IInv /\ RateInv /\ HearInv /\ [Next]_vars => [Answers!Next]_(Answers!avars)
  BY NextView
<1>. QED  BY <1>1, <1>2, InitInv, NextInv, InitRate, NextRate, InitHear, NextHear, PTL
          DEF Spec, AnswersOnce, Answers!Spec

=============================================================================
