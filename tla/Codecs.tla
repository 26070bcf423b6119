------------------------------- MODULE Codecs -------------------------------
(***************************************************************************)
(* The codecs of Ethereum and EOS, given one input after another.          *)
(***************************************************************************)
EXTENDS EthRlp, EosName

CONSTANTS
  Payments,     \* what Ethereum transactions are made of
  Points,       \* the halves of a signature, of 32 bytes
  Names         \* names of EOS

Byte == 0..255

\* The buffers of EthApi.h: numbers of 32 bytes at most, addresses of 20, and data of
\* 1025 once they are encoded, with a head of three.
ASSUME PaymentAssumption ==
  /\ Payments \subseteq
       [kind : 0..2, nonce : Nat, gas_price : Nat, gas_limit : Nat, value : Nat,
        to : Seq(Byte), contract : Seq(Byte), data : Seq(Byte), chain_id : Nat]
  /\ \A p \in Payments :
       /\ Len(p.to) = 20 /\ Len(p.contract) = 20 /\ Len(p.data) <= 1022
       /\ \A n \in {"nonce", "gas_price", "gas_limit", "value", "chain_id"} :
            Len(BigEndian[p[n]]) <= 32
  /\ Points \subseteq [1..32 -> Byte]

ASSUME NamesAssumption ==
  Names \subseteq {s \in Seq(Symbols) : Len(s) <= MAX_NAME_IDX + 1}

VARIABLES
  payment, half, recId,   \* an Ethereum transaction and its signature
  name                    \* a name of EOS

codec_vars == <<payment, half, recId, name>>

CodecInit ==
  /\ payment \in Payments /\ half \in Points /\ recId \in {0, 1}
  /\ name \in Names

NextTransaction ==
  /\ payment' \in Payments /\ half' \in Points /\ recId' \in {0, 1}
  /\ UNCHANGED name

NextName == name' \in Names /\ UNCHANGED <<payment, half, recId>>

CodecNext == NextTransaction \/ NextName

CodecSpec == CodecInit /\ [][CodecNext]_codec_vars

(***************************************************************************)
(* Properties.                                                             *)
(***************************************************************************)
Number(n) == BigEndian[n]
NoZeros(bytes) == SubSeq(bytes, LeadingZeros(bytes) + 1, Len(bytes))

\* How long a list is by its head, which takes at most three bytes here.
Announced(list) ==
  CASE list[1] < 248 -> 1 + (list[1] - 192)
    [] list[1] = 248 -> 2 + list[2]
    [] OTHER -> 3 + 256 * list[2] + list[3]

\* What is hashed and what is sent encode one transaction, the numbers of which have no
\* leading zeros, except that 0 is encoded as a byte for the prices, the value, the chain
\* and the nonce of the second form of make_unsign_tx.  Two inputs are not sent so: data
\* of more than 253 bytes, which are copied by a size of one byte (RLP.c:15), and half a
\* signature that begins with two zeros, which loses its last byte (RLP.c:108).  Neither
\* is ever sent as some other transaction: a list is then shorter than its head says, or
\* a number begins with 0, and no node takes that.  The v it is sent with says which
\* chain was hashed, up to chain 109: from there on it takes more than the byte it is
\* given (EthApi.cpp:548, the FIXME of line 393).
EncodesAsRlp ==
  LET tx == make_unsign_tx(payment)
      numbers == {"gas_price", "gas_limit", "chain_id"} \cup (IF payment.kind = 1 THEN {} ELSE {"value"})
                 \cup (IF payment.kind = 2 THEN {"nonce"} ELSE {})
      fields == <<Number(payment.nonce), Number(payment.gas_price), Number(payment.gas_limit),
                  tx.to, IF payment.kind = 1 THEN <<>> ELSE Number(payment.value), tx.data>>
      v == recId + 2 * payment.chain_id + 35
      signed == RlpList(fields \o <<Number(v), NoZeros(half), NoZeros(half)>>)
      sent == Assembled(tx, SignatureV(recId, payment.chain_id), half, half)
      s == RemoveLeadingZeros(half)
  IN  (\A n \in numbers : payment[n] # 0) =>
        /\ Hashed(tx) = RlpList(fields \o <<Number(payment.chain_id), <<>>, <<>>>>)
        /\ payment.chain_id <= 109 =>
             /\ Len(tx.data) <= 253 /\ LeadingZeros(half) < 2 => sent = signed
             /\ Len(sent) = Announced(sent) /\ (s = <<>> \/ s[1] # 0) => sent = signed

\* A name with its last character cut to four bits, if it has that many characters.
Cut(s) == [i \in DOMAIN s |-> IF i = MAX_NAME_IDX + 1 THEN s[i] % 16 ELSE s[i]]

\* Whatever the signs and shifts of the number do, a name is read back from it with no
\* character changed, but for the one bit that the last of full length has too many; of
\* a name that ends in dots, or in what is cut to one, the dots go (TypeName).
NamesReadBack ==
  LET s == Cut(name)
  IN  s # <<>> /\ s[Len(s)] # 0 => long_name_to_string(name_string_to_long(name)) = s

=============================================================================
