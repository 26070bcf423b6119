------------------------------ MODULE MCCodecs ------------------------------
(***************************************************************************)
(* Fields on both sides of every length at which the encodings change.     *)
(***************************************************************************)
EXTENDS Codecs

Filled(n) == [i \in 1..n |-> 200]

Payment(kind, nonce, value, data, chain_id) ==
  [kind |-> kind, nonce |-> nonce, gas_price |-> 127, gas_limit |-> 21000,
   to |-> Filled(20), contract |-> Filled(20), value |-> value, data |-> Filled(data),
   chain_id |-> chain_id]

MCPayments ==
  {Payment(kind, nonce, value, 1, 1) :
     kind \in {0, 1, 2}, nonce \in {0, 1, 128}, value \in {0, 127, 256}}
  \cup {Payment(2, 5, 1, data, chain_id) :
     data \in {55, 56, 253, 254, 256}, chain_id \in {0, 1, 109, 110}}

Half(zeros) == [i \in 1..32 |-> IF i <= zeros THEN 0 ELSE 7 * i]

MCPoints == {Half(zeros) : zeros \in 0..2}

MCNames == UNION {[1..n -> {0, 15, 16, 31}] : n \in 0..3}

=============================================================================
