----------------------------- MODULE AnswerOnce -----------------------------
(***************************************************************************)
(* What a caller of an asynchronous client is promised: each of its calls  *)
(* is answered at most once, with what the server has said to this call,   *)
(* or it is refused before the server is asked.                            *)
(***************************************************************************)
CONSTANTS Calls

VARIABLES
  asked,   \* the calls that have been made
  said,    \* which of them the server has granted (TRUE) or not
  told     \* what their callers have been told

avars == <<asked, said, told>>

\* A function that is f, and v at x.
With(f, x, v) == [y \in DOMAIN f \cup {x} |-> IF y = x THEN v ELSE f[y]]

Init == asked = {} /\ said = [c \in {} |-> TRUE] /\ told = [c \in {} |-> TRUE]

Ask(c) == c \notin asked /\ asked' = asked \cup {c} /\ UNCHANGED <<said, told>>

Refuse(c) ==
  /\ c \notin asked /\ asked' = asked \cup {c}
  /\ told' = With(told, c, FALSE)
  /\ UNCHANGED said

Say(c) ==
  /\ c \in asked \ (DOMAIN said \cup DOMAIN told)
  /\ \E yes \in BOOLEAN : said' = With(said, c, yes)
  /\ UNCHANGED <<asked, told>>

Tell(c) ==
  /\ c \in DOMAIN said \ DOMAIN told
  /\ told' = With(told, c, said[c])
  /\ UNCHANGED <<asked, said>>

Next == \E c \in Calls : Ask(c) \/ Refuse(c) \/ Say(c) \/ Tell(c)

Spec == Init /\ [][Next]_avars

=============================================================================
