\* Names of two characters and a half: 14 bits.
CONSTANTS
  MAX_NAME_IDX = 2
  Payments <- MCPayments
  Points <- MCPoints
  Names <- MCNames
SPECIFICATION CodecSpec
INVARIANTS
  EncodesAsRlp
  NamesReadBack
