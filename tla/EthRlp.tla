------------------------------- MODULE EthRlp -------------------------------
(***************************************************************************)
(* How an Ethereum transaction is made of numbers, hashed for signing and  *)
(* assembled with its signature: EthApi.cpp and Eth/RLP.c, which encode    *)
(* the same fields by two pieces of code.  Bytes are numbers to 255.       *)
(***************************************************************************)
EXTENDS Integers, Sequences, SequencesExt

Zeros(n) == [i \in 1..n |-> 0]

\* The bytes of a number, of which 0 has none.
BigEndian[n \in Nat] == IF n = 0 THEN <<>> ELSE Append(BigEndian[n \div 256], n % 256)

\* A number printed in base 16 and read by hex2byte_arr: 0 is a digit.
Printed(n) == IF n = 0 THEN <<0>> ELSE BigEndian[n]

Padded(bytes, n) == Zeros(n - Len(bytes)) \o bytes

\* The data of an ERC20 transfer: the method, the payee and the amount.
Transfer(to, value) ==
  <<169, 5, 156, 187>> \o Padded(to, 32) \o Padded(Printed(value), 32)

\* make_unsign_tx, of a payment (kind 0), a transfer of tokens (1) or, in its second
\* form, a call with data of its own (2); only the first form looks for nonce 0.
make_unsign_tx(p) ==
  [nonce |-> IF p.nonce = 0 /\ p.kind # 2 THEN <<>> ELSE Printed(p.nonce),
   gas_price |-> Printed(p.gas_price),
   gas_limit |-> Printed(p.gas_limit),
   to |-> IF p.kind = 1 THEN p.contract ELSE p.to,
   value |-> IF p.kind = 1 THEN <<>> ELSE Printed(p.value),
   data |-> CASE p.kind = 0 -> <<>> [] p.kind = 1 -> Transfer(p.to, p.value)
              [] OTHER -> p.data,
   chain_id |-> p.chain_id, chain_id_str |-> Printed(p.chain_id)]

(***************************************************************************)
(* What sign_tx hashes.                                                    *)
(***************************************************************************)
Single(field) == Len(field) = 1 /\ field[1] <= 127

\* hash_rlp_length and hash_rlp_list_length after the first byte's base.
HashLength(base, n) ==
  CASE n <= 55 -> <<base + n>>
    [] n > 55 /\ n <= 255 -> <<base + 56, n>>
    [] n > 255 /\ n <= 65535 -> <<base + 57, n \div 256, n % 256>>
    [] OTHER -> <<base + 58, n \div 65536, (n \div 256) % 256, n % 256>>

hash_rlp_field(field) ==
  IF Single(field) THEN field ELSE HashLength(128, Len(field)) \o field

rlp_calculate_length(field) ==
  LET n == Len(field)
  IN  CASE Single(field) -> 1 [] ~Single(field) /\ n <= 55 -> 1 + n
        [] n > 55 /\ n <= 255 -> 2 + n [] n > 255 /\ n <= 65535 -> 3 + n
        [] OTHER -> 4 + n

Unsigned(tx) ==
  <<tx.nonce, tx.gas_price, tx.gas_limit, tx.to, tx.value, tx.data>>

Hashed(tx) ==
  LET fields == Unsigned(tx) \o <<tx.chain_id_str, <<>>, <<>>>>
      rlp_length == SumFunction([i \in DOMAIN fields |-> rlp_calculate_length(fields[i])])
  IN  HashLength(192, rlp_length) \o FlattenSeq([i \in DOMAIN fields |-> hash_rlp_field(fields[i])])

\* v takes one byte, whatever the chain.
SignatureV(recId, chain_id) == (recId + 2 * chain_id + 35) % 256

(***************************************************************************)
(* What wallet_ethereum_assemble_tx makes.                                 *)
(***************************************************************************)
LeadingZeros(bytes) ==
  CHOOSE n \in 0..Len(bytes) :
    /\ \A i \in 1..n : bytes[i] = 0
    /\ n = Len(bytes) \/ bytes[n + 1] # 0

\* All leading zeros are counted, and the copy starts after the first.
RemoveLeadingZeros(bytes) ==
  LET n == LeadingZeros(bytes)
  IN  IF n = 0 THEN bytes ELSE SubSeq(bytes, 2, 1 + Len(bytes) - n)

LengthHead(short, long, n) ==
  IF n < 56 THEN <<short + n>>
  ELSE LET length == BigEndian[n] IN <<long + Len(length)>> \o length

wallet_encode_element(bytes) ==
  IF Single(bytes) THEN bytes ELSE LengthHead(128, 183, Len(bytes)) \o bytes

\* wallet_copy_rpl takes the size of an element as one byte.
wallet_copy_rpl(element) == SubSeq(element, 1, Len(element) % 256)

\* Slip: the list is as long as what was copied.
wallet_encode_list_copied(fields) ==
  LET copies == FlattenSeq([i \in DOMAIN fields |->
                              wallet_copy_rpl(wallet_encode_element(fields[i]))])
  IN  LengthHead(192, 247, Len(copies)) \o copies

\* The head says how long the elements are before they are copied.
wallet_encode_list(fields) ==
  LET elements == [i \in DOMAIN fields |-> wallet_encode_element(fields[i])]
  IN  LengthHead(192, 247, Len(FlattenSeq(elements)))
        \o FlattenSeq([i \in DOMAIN elements |-> wallet_copy_rpl(elements[i])])

Assembled(tx, v, r, s) ==
  wallet_encode_list(Unsigned(tx) \o
    <<RemoveLeadingZeros(<<v>>), RemoveLeadingZeros(r), RemoveLeadingZeros(s)>>)

(***************************************************************************)
(* The encoding as Ethereum defines it.                                    *)
(***************************************************************************)
RlpString(bytes) ==
  IF Len(bytes) = 1 /\ bytes[1] < 128 THEN bytes
  ELSE IF Len(bytes) <= 55 THEN <<128 + Len(bytes)>> \o bytes
  ELSE <<183 + Len(BigEndian[Len(bytes)])>> \o BigEndian[Len(bytes)] \o bytes

RlpList(strings) ==
  LET items == FlattenSeq([i \in DOMAIN strings |-> RlpString(strings[i])])
  IN  IF Len(items) <= 55 THEN <<192 + Len(items)>> \o items
      ELSE <<247 + Len(BigEndian[Len(items)])>> \o BigEndian[Len(items)] \o items

=============================================================================
