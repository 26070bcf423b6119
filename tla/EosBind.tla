------------------------------ MODULE EosBind ------------------------------
(***************************************************************************)
(* EOSImport and EOSDeImport of TCTest/EosTest.cpp: a client binds the key *)
(* of a hardware wallet to an EOS account, or takes it off again, by       *)
(* reading the account, changing the keys of its "active" permission, and  *)
(* sending a transaction that replaces the permission as a whole.  Nothing *)
(* ties what is sent to what was read.                                     *)
(***************************************************************************)
EXTENDS Integers, Sequences, SequencesExt, FiniteSetsExt

CONSTANTS
  Clients,
  Keys,       \* numbers, in the order of the texts of the keys
  Accounts,   \* permissions the account may have at first
  MaxCalls    \* a bound on the calls made

Weighed(k, w) == [key |-> k, weight |-> w]
Permission == [keys : Seq([key : Keys, weight : Nat]), threshold : Nat]
KeysOf(auth) == {auth.keys[i].key : i \in DOMAIN auth.keys}

\* What the network demands of a permission.
Valid(auth) ==
  /\ \A i, j \in DOMAIN auth.keys : i < j => auth.keys[i].key < auth.keys[j].key
  /\ SumFunction([i \in DOMAIN auth.keys |-> auth.keys[i].weight]) >= auth.threshold

ASSUME AccountAssumption ==
  /\ Keys \subseteq Nat /\ MaxCalls \in Nat
  /\ Accounts \subseteq Permission
  /\ \A auth \in Accounts : Valid(auth)

VARIABLES
  active,    \* the permission of the account
  call,      \* of each client, the call it is in: none or one
  sent,      \* the transactions the network may still execute
  applied,   \* the calls whose transaction was executed; nothing reads it
  calls,     \* how many calls were made
  answer     \* what the last call of each client returned

vars == <<active, call, sent, applied, calls, answer>>

Init ==
  /\ active \in Accounts
  /\ call = [c \in Clients |-> {}] /\ sent = {} /\ applied = {}
  /\ calls = 0 /\ answer = [c \in Clients |-> 0]

\* Slip: all keys before it have to be smaller, or it is put at the front.
AtFront(auth, key) ==
  IF \A k \in KeysOf(auth) : k < key THEN Len(auth.keys) + 1 ELSE 1

\* insertpos counts the smaller keys.
Position(auth, key) == Cardinality({k \in KeysOf(auth) : k < key}) + 1

\* Slip: the key takes the place of the one that is there.
Replaced(auth, key) ==
  LET at == Position(auth, key)
  IN  [auth EXCEPT !.keys = [i \in 1..Max({Len(@), at}) |->
         IF i = at THEN Weighed(key, auth.threshold) ELSE @[i]]]

\* The new key gets the weight of the threshold.
Imported(auth, key) ==
  [auth EXCEPT !.keys = InsertAt(@, Position(auth, key), Weighed(key, auth.threshold))]

\* The loop erases the key, and passes over the one after it, which is another key.
DeImported(auth, key) ==
  IF key \notin KeysOf(auth) THEN auth
  ELSE [auth EXCEPT !.keys = RemoveAt(@, CHOOSE i \in DOMAIN @ : @[i].key = key)]

Return(c, code) ==
  /\ call' = [call EXCEPT ![c] = {}]
  /\ answer' = [answer EXCEPT ![c] = code]

\* getEOSAccount.  Importing a key that is there ends here: getEOSInfo, which is asked
\* before the keys are looked at, has answered or failed.  The call remembers nothing
\* of what it has read but the permission it makes of it; read is for the properties.
Begin(c, op, key) ==
  /\ call[c] = {} /\ calls < MaxCalls
  /\ calls' = calls + 1
  /\ IF op = "EOSImport" /\ key \in KeysOf(active)
       THEN \E code \in {0, -1} : Return(c, code)
     ELSE /\ call' = [call EXCEPT ![c] =
               {[id |-> calls + 1, op |-> op, key |-> key, read |-> KeysOf(active),
                 auth |-> IF op = "EOSImport" THEN Imported(active, key)
                          ELSE DeImported(active, key),
                 pc |-> "read"]}]
          /\ UNCHANGED answer
  /\ UNCHANGED <<active, sent, applied>>

\* The account, encodeEOSABI, the key or the sending fails, or getEOSInfo of an import;
\* a de-import goes on without it, and make_unsign_tx refuses the empty text.
Fail(c) ==
  /\ call[c] # {} /\ Return(c, -1)
  /\ UNCHANGED <<active, sent, applied, calls>>

\* Slip: the sending is repeated until it is answered.
SendAgain(c) ==
  \E q \in call[c] :
    /\ call' = [call EXCEPT ![c] = {[q EXCEPT !.pc = "sent"]}]
    /\ sent' = sent \cup {q}
    /\ UNCHANGED <<active, applied, calls, answer>>

\* getEOSInfo and encodeEOSABI have answered; sendSignedTransaction.
Send(c) ==
  \E q \in call[c] :
    /\ q.pc = "read"
    /\ call' = [call EXCEPT ![c] = {[q EXCEPT !.pc = "sent"]}]
    /\ sent' = sent \cup {q}
    /\ UNCHANGED <<active, applied, calls, answer>>

\* The network executes a transaction; its client may have given up on it.
Execute(q) ==
  /\ q \in sent /\ Valid(q.auth)
  /\ active' = q.auth
  /\ sent' = sent \ {q} /\ applied' = applied \cup {q.id}
  /\ UNCHANGED <<call, calls, answer>>

\* It is refused, has expired, or is lost.
Drop(q) ==
  /\ q \in sent
  /\ sent' = sent \ {q}
  /\ UNCHANGED <<active, call, applied, calls, answer>>

\* sendSignedTransaction returns 0: an error whose code is a text is read as 0 as well,
\* so that nothing need have been executed.
Succeed(c) ==
  /\ \E q \in call[c] : q.pc = "sent"
  /\ Return(c, 0)
  /\ UNCHANGED <<active, sent, applied, calls>>

Next ==
  \/ \E c \in Clients, op \in {"EOSImport", "EOSDeImport"}, key \in Keys : Begin(c, op, key)
  \/ \E c \in Clients : Fail(c) \/ Send(c) \/ Succeed(c)
  \/ \E q \in sent : Execute(q) \/ Drop(q)

Spec == Init /\ [][Next]_vars

(***************************************************************************)
(* Properties.                                                             *)
(***************************************************************************)
\* The type invariant of the account and its clients.
BindTypeOK ==
  /\ KeysOf(active) \subseteq Keys /\ Valid(active)
  /\ calls \in 0..MaxCalls /\ applied \subseteq 1..calls
  /\ \A c \in Clients : Cardinality(call[c]) <= 1 /\ answer[c] \in {0, -1}
  /\ \A q \in sent : q.id \in 1..calls \ applied

\* However the calls overlap, and whichever of them is executed last or long after its
\* client has given it up: a key is lost only to its own de-import or to a call that
\* began before the key was there, and a key appears only by its own import or by a
\* call that began while it was still there (EOSImport reads, changes, writes).
KeysChangeOnlyAsRead ==
  [][/\ \A k \in KeysOf(active) \ KeysOf(active)' :
          \E q \in sent \ sent' : (q.op = "EOSDeImport" /\ q.key = k) \/ k \notin q.read
     /\ \A k \in KeysOf(active)' \ KeysOf(active) :
          \E q \in sent \ sent' : (q.op = "EOSImport" /\ q.key = k) \/ k \in q.read]_vars

\* The network accepts every import, and the key it binds signs for the account by
\* itself; a de-import is accepted if the keys that are left can sign.
ImportsAreAccepted ==
  \A q \in sent : q.op = "EOSImport" =>
    /\ Valid(q.auth) /\ q.key \in KeysOf(q.auth)
    /\ \A i \in DOMAIN q.auth.keys :
         q.auth.keys[i].key = q.key => q.auth.keys[i].weight >= q.auth.threshold

=============================================================================
