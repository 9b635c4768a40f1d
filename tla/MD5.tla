--------------------------------- MODULE MD5 ---------------------------------
(***************************************************************************)
(* The MD5 context that a FileInfo is made with (md5.cpp): it takes the    *)
(* input in pieces of any length, transforms it block by block, counts its *)
(* bits in two words, and pads it at the end.                              *)
(*                                                                         *)
(* transform() is left uninterpreted: the state it makes is the sequence   *)
(* of the blocks it was given.  A byte of input is named by its place.     *)
(***************************************************************************)
EXTENDS Integers, Sequences

CONSTANTS
  BlockLen,   \* bytes of a block, 64
  LengthLen,  \* bytes the length takes in the last block, 8
  WordMod,    \* the values of a uint4, 2^32
  MaxPiece,   \* bound of the checks: the longest piece
  MaxInput    \* bound of the checks: the longest input

ASSUME MD5Assumption ==
  /\ BlockLen \in Nat /\ LengthLen \in Nat \ {0} /\ LengthLen < BlockLen
  /\ WordMod \in Nat \ {0} /\ WordMod % (8 * BlockLen) = 0
  /\ MaxPiece \in Nat /\ MaxInput \in Nat

VARIABLES
  context,    \* the members state, count and buffer
  finalized,
  digest,     \* the state that finalize() encodes, empty before
  length      \* bytes of input so far; the code has no such member

md5_vars == <<context, finalized, digest, length>>

Unset == [kind |-> "unset"]
Mark == [kind |-> "0x80"]
Zero == [kind |-> "zero"]
InputByte(i) == [kind |-> "input", at |-> i]
LengthByte(count, i) == [kind |-> "length", at |-> i, count |-> count]

-----------------------------------------------------------------------------
Shifted(n) == (8 * n) % WordMod

BugCounted(count, n) ==
  [low |-> (count.low + Shifted(n)) % WordMod,
   high |-> (count.high + (8 * n) \div WordMod) % WordMod]

(* The bit count after n more bytes; the carry is seen from the wrapped    *)
(* sum.                                                                    *)
Counted(count, n) ==
  LET low == (count.low + Shifted(n)) % WordMod
      carry == IF low < Shifted(n) THEN 1 ELSE 0
  IN  [low |-> low, high |-> (count.high + carry + (8 * n) \div WordMod) % WordMod]

(* Where the next byte goes in the buffer.                                 *)
Index(count) == (count.low \div 8) % BlockLen

(* memcpy(): the bytes of piece from place at of block on.                 *)
Overwritten(block, at, piece) ==
  [i \in 1 .. BlockLen |->
     IF at < i /\ i <= at + Len(piece) THEN piece[i - at] ELSE block[i]]

BugBlocksOf(piece, from) ==
  [k \in 1 .. (Len(piece) - from) \div BlockLen - 1 |->
     SubSeq(piece, from + BlockLen * (k - 1) + 1, from + BlockLen * k)]

(* The whole blocks of piece after its first from bytes.                   *)
BlocksOf(piece, from) ==
  [k \in 1 .. (Len(piece) - from) \div BlockLen |->
     SubSeq(piece, from + BlockLen * (k - 1) + 1, from + BlockLen * k)]

(* transform(), once for each of blocks.                                   *)
Transformed(state, blocks) == state \o blocks

(* update().                                                               *)
Updated(c, piece) ==
  LET index == Index(c.count)
      space == BlockLen - index
      full == Overwritten(c.buffer, index, SubSeq(piece, 1, space))
      blocks == BlocksOf(piece, space)
      left == SubSeq(piece, space + BlockLen * Len(blocks) + 1, Len(piece))
  IN  [count |-> Counted(c.count, Len(piece)),
       state |-> IF Len(piece) >= space THEN Transformed(c.state, <<full>> \o blocks)
                 ELSE c.state,
       buffer |-> IF Len(piece) >= space THEN Overwritten(full, 0, left)
                                         ELSE Overwritten(c.buffer, index, piece)]

BugPadLen(index) ==
  IF index <= BlockLen - LengthLen
  THEN BlockLen - LengthLen - index ELSE 2 * BlockLen - LengthLen - index

PadLen(index) ==
  IF index < BlockLen - LengthLen
  THEN BlockLen - LengthLen - index ELSE 2 * BlockLen - LengthLen - index

Padding(n) == [i \in 1 .. n |-> IF i = 1 THEN Mark ELSE Zero]
EncodedLength(count) == [i \in 1 .. LengthLen |-> LengthByte(count, i)]

-----------------------------------------------------------------------------
MD5Init ==
  /\ context = [state |-> <<>>, count |-> [low |-> 0, high |-> 0],
                buffer |-> [i \in 1 .. BlockLen |-> Unset]]
  /\ finalized = FALSE
  /\ digest = <<>>
  /\ length = 0

(* update() with the next n bytes: a stream is read 1024 bytes at a time   *)
(* and ends with a shorter piece, which may be empty.  A finalized context *)
(* is not changed.                                                         *)
Update(n) ==
  /\ ~finalized
  /\ context' = Updated(context, [i \in 1 .. n |-> InputByte(length + i - 1)])
  /\ length' = length + n
  /\ UNCHANGED <<finalized, digest>>

(* The bit count is saved before the padding is counted too.  The memset() *)
(* at the end clears the first byte of the buffer.                         *)
Finalize ==
  LET bits == EncodedLength(context.count)
      padded == Updated(context, Padding(PadLen(Index(context.count))))
      done == Updated(padded, bits)
  IN  /\ ~finalized
      /\ digest' = done.state
      /\ context' = [done EXCEPT !.buffer[1] = Zero]
      /\ finalized' = TRUE
      /\ UNCHANGED length

MD5Next ==
  \/ \E n \in 0 .. MaxPiece : length + n <= MaxInput /\ Update(n)
  \/ Finalize

MD5Spec == MD5Init /\ [][MD5Next]_md5_vars

-----------------------------------------------------------------------------
(* update() 86-89: the two words hold the number of bits of the input,     *)
(* although the carry is found from a sum that has wrapped.                *)
CountsBits ==
  ~finalized =>
    context.count.low + WordMod * context.count.high = (8 * length) % (WordMod * WordMod)

(* update() 92-112: however the input is cut, what was transformed are its *)
(* whole blocks, and the bytes after them are at the front of the buffer.  *)
KeepsTheRest ==
  LET whole == length \div BlockLen IN
  ~finalized =>
    /\ context.state =
         [k \in 1 .. whole |-> [i \in 1 .. BlockLen |-> InputByte(BlockLen * (k - 1) + i - 1)]]
    /\ \A i \in 1 .. length % BlockLen :
         context.buffer[i] = InputByte(BlockLen * whole + i - 1)

(* What is digested of an input of n bytes: the input, a mark, zeros up to *)
(* the last LengthLen bytes of a block, the number of bits.                *)
PaddedLen(n) == BlockLen * ((n + LengthLen) \div BlockLen + 1)

BitCount(n) == [low |-> (8 * n) % WordMod, high |-> ((8 * n) \div WordMod) % WordMod]

PaddedByte(n, i) ==
  LET lengthAt == PaddedLen(n) - LengthLen IN
  CASE i < n                   -> InputByte(i)
    [] i = n                   -> Mark
    [] n < i /\ i < lengthAt   -> Zero
    [] i >= lengthAt           -> LengthByte(BitCount(n), i - lengthAt + 1)

PaddedInput(n) ==
  [k \in 1 .. PaddedLen(n) \div BlockLen |->
     [i \in 1 .. BlockLen |-> PaddedByte(n, BlockLen * (k - 1) + i - 1)]]

(* finalize() 199-211: the digest is that of the padded input, whatever    *)
(* pieces it came in, also when the mark or the length needs a block more. *)
DigestOfPadded == finalized => digest = PaddedInput(length)
=============================================================================
