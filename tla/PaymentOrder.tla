---------------------------- MODULE PaymentOrder ----------------------------
(***************************************************************************)
(* What a wallet promises of one payment order at a time, whichever way it *)
(* is signed: there is at most one transaction for an order, it carries    *)
(* out the order, and it does not change until the order is given up.      *)
(***************************************************************************)
CONSTANTS
  Orders,              \* what can be ordered
  NoOrder,
  NoPlan,
  CarriesOut(_, _)     \* whether a transaction is right for an order

VARIABLES
  order,   \* the order being worked on, or NoOrder
  plan     \* the transaction that carries it out, or NoPlan

pvars == <<order, plan>>

Init == order = NoOrder /\ plan = NoPlan

\* A new order takes the place of the one before it.
Accept == order' \in Orders /\ plan' = NoPlan

Plan ==
  /\ order # NoOrder /\ plan = NoPlan
  /\ CarriesOut(order, plan')
  /\ UNCHANGED order

GiveUp == order' = NoOrder /\ plan' = NoPlan

Next == Accept \/ Plan \/ GiveUp

Spec == Init /\ [][Next]_pvars

=============================================================================
