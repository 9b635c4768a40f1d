------------------------------ MODULE FileInfo ------------------------------
(***************************************************************************)
(* What the program knows of a file: its size in blocks, its digest, and   *)
(* the bytes of each block (fileinfo.cpp, blockinfo.cpp).                  *)
(*                                                                         *)
(* A file is an element of Files; its bytes are named by their offsets in  *)
(* it, so a run of bytes is [of, at, len] and two runs are the same data   *)
(* exactly when they are equal.                                            *)
(***************************************************************************)
EXTENDS Integers

CONSTANTS
  Files,      \* the files that are served
  FileSize,   \* FileSize[f]: what tellg() returns at the end of f, -1 if f cannot be opened
  Digest,     \* Digest[f]: the rank of f's MD5 digest in memcmp's order
  BlockSize,  \* BLOCKSIZE, 1024 in the build
  UIntMod     \* the values of an unsigned int, 2^32 in the build

ASSUME FileInfoAssumption ==
  /\ BlockSize \in Nat \ {0}
  /\ UIntMod \in Nat \ {0}
  /\ FileSize \in [Files -> Nat \cup {-1}]
  /\ Digest \in [Files -> Nat]
  /\ \A f, g \in Files : Digest[f] = Digest[g] => f = g   \* MD5 has no collision among Files

NoBytes == [at |-> 0, len |-> 0]
Bytes == [of : Files, at : Nat, len : Nat] \cup {NoBytes}

-----------------------------------------------------------------------------
(* C++ division truncates towards zero, TLA+'s \div rounds down: they      *)
(* differ on the -1 that tellg() returns for a stream that did not open.   *)
Quotient(n) == IF n >= 0 THEN n \div BlockSize ELSE -((-n) \div BlockSize)
Remainder(n) == n - BlockSize * Quotient(n)

BugBlockCount(f) == Quotient(FileSize[f]) % UIntMod

BlockCount(f) ==
  (Quotient(FileSize[f]) + (IF Remainder(FileSize[f]) # 0 THEN 1 ELSE 0)) % UIntMod

Blocks(f) == 0 .. (BlockCount(f) - 1)

(* The FileInfo of f: what travels in a datagram and keys the client's map. *)
InfoOf(f) == [digest |-> Digest[f], num_blocks |-> BlockCount(f)]

(* operator==: memcmp is zero on equal digests, so the first conjunct of   *)
(* the code is true when the digests DIFFER.                               *)
InfoEqual(a, b) == a.digest # b.digest /\ a.num_blocks = b.num_blocks

BugInfoLess(a, b) == a.digest < b.digest \/ a.num_blocks < b.num_blocks

(* operator<, the ordering of std::map<FileInfo, SyncStatus>.  num_blocks  *)
(* is compared in network byte order: any order of the counts would do.    *)
InfoLess(a, b) ==
  IF a.digest # b.digest THEN a.digest < b.digest ELSE a.num_blocks < b.num_blocks

-----------------------------------------------------------------------------
(* The bytes of f that a block-sized read at byte offset pos returns.      *)
ReadFrom(f, pos) ==
  IF pos >= FileSize[f] THEN NoBytes
  ELSE [of  |-> f,
        at  |-> pos,
        len |-> IF pos + BlockSize <= FileSize[f] THEN BlockSize ELSE FileSize[f] - pos]

(* The bytes block b of f is meant to hold.                                *)
BlockBytes(f, b) == ReadFrom(f, BlockSize * b)

(* A complete copy of f, block by block.                                   *)
WholeFile(f) == [b \in Blocks(f) |-> BlockBytes(f, b)]
=============================================================================
