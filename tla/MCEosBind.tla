----------------------------- MODULE MCEosBind -----------------------------
(***************************************************************************)
(* An account of one key, and one that two keys sign for together.         *)
(***************************************************************************)
EXTENDS EosBind

MCAccounts ==
  {[keys |-> <<Weighed(2, 1)>>, threshold |-> 1],
   [keys |-> <<Weighed(1, 1), Weighed(3, 1)>>, threshold |-> 2]}

=============================================================================
