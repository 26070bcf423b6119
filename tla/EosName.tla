------------------------------- MODULE EosName -------------------------------
(***************************************************************************)
(* The names of EOS and the numbers they are packed as: Eos/typename.cpp.  *)
(* A name of up to MAX_NAME_IDX characters of five bits and one of four is *)
(* a signed number of as many bits.  A character is its symbol; 0 is '.'.  *)
(***************************************************************************)
EXTENDS Integers, Sequences, SequencesExt

CONSTANT MAX_NAME_IDX   \* 12 in the code

ASSUME NameAssumption == MAX_NAME_IDX \in 1..12

\* 1 << k
Shift[k \in 0..64] == IF k = 0 THEN 1 ELSE 2 * Shift[k - 1]

Bits == 5 * MAX_NAME_IDX + 4
Symbols == 0..31

\* A number as signed and as unsigned.
Signed(n) == IF n >= Shift[Bits - 1] THEN n - Shift[Bits] ELSE n

Symbol(name, i) == IF i <= Len(name) THEN name[i] ELSE 0

\* Slip: the loop ends before the last character.
name_string_to_long_short(name) ==
  Signed(SumFunction([i \in 1..MAX_NAME_IDX |-> Symbol(name, i) * Shift[Bits - 5 * i]]))

\* Only four bits are left for the last character.
name_string_to_long(name) ==
  Signed(SumFunction([i \in 1..MAX_NAME_IDX |-> Symbol(name, i) * Shift[Bits - 5 * i]])
         + (Symbol(name, MAX_NAME_IDX + 1) % 16))

\* The shift of a signed number keeps its sign.
Unpacked(val) ==
  [i \in 1..MAX_NAME_IDX + 1 |->
     IF i = MAX_NAME_IDX + 1 THEN val % 16 ELSE (val \div Shift[Bits - 5 * i]) % 32]

\* The dots at the end are cut off, unless there is nothing else.
long_name_to_string(val) ==
  LET raw == Unpacked(val)
  IN  IF \A i \in DOMAIN raw : raw[i] = 0 THEN raw
      ELSE SubSeq(raw, 1, CHOOSE i \in DOMAIN raw :
                            raw[i] # 0 /\ \A j \in i + 1..Len(raw) : raw[j] = 0)

=============================================================================
