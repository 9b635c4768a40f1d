SPECIFICATION MD5Spec
CONSTANTS
  BlockLen = 4
  LengthLen = 2
  WordMod = 32
  MaxPiece = 13
  MaxInput = 140
INVARIANTS
  CountsBits
  KeepsTheRest
  DigestOfPadded
CHECK_DEADLOCK FALSE
