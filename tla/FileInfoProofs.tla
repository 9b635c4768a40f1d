--------------------------- MODULE FileInfoProofs ---------------------------
(***************************************************************************)
(* The blocks of a file cover it, whatever its size and the block size,    *)
(* and operator< of FileInfo orders the keys of a map.                     *)
(***************************************************************************)
EXTENDS MCFileInfo, DivisionProofs, TLAPS

(* The count of the blocks does not wrap.                                  *)
CountsFit == \A f \in Files : FileSize[f] < UIntMod

-----------------------------------------------------------------------------
(* The constructor rounds the number of blocks up.                         *)
LEMMA CountRoundsUp ==
  ASSUME CountsFit, NEW f \in Files, FileSize[f] > 0
  PROVE  /\ BlockCount(f) \in Nat
         /\ BlockSize * BlockCount(f) >= FileSize[f]
         /\ BlockSize * BlockCount(f) < FileSize[f] + BlockSize
<1> DEFINE B == BlockSize
           n == FileSize[f]
           q == n \div B
           r == n % B
           up == IF r # 0 THEN 1 ELSE 0
           count == q + up
<1>1. B \in Nat \ {0} /\ n \in Nat /\ n > 0 /\ n < UIntMod /\ UIntMod \in Nat \ {0}
  BY FileInfoAssumption DEF CountsFit
<1> HIDE DEF B, n
<1>2. q \in Nat /\ r \in Nat /\ r < B /\ n = B * q + r
  BY <1>1, DivMod, QuotientNatural
<1> HIDE DEF q, r
<1>3. B * q \in Nat /\ B * (q + 1) = B * q + B
  BY <1>1, <1>2
<1>4. Quotient(n) = q /\ Remainder(n) = r
  <2>1. Quotient(n) = q
    BY <1>1 DEF Quotient, q, B
  <2>2. Remainder(n) = n - B * q
    BY <2>1 DEF Remainder, B
  <2> QED
    BY <1>1, <1>2, <1>3, <2>1, <2>2
<1>5. BlockCount(f) = count % UIntMod
  BY <1>4 DEF BlockCount, n
<1>6. count \in Nat /\ B * count >= n /\ B * count < n + B
  BY <1>1, <1>2, <1>3
<1> HIDE DEF count
<1>7. count < UIntMod
  <2>1. CASE count = 0
    BY <1>1, <2>1
  <2>2. CASE count > 0
    <3> DEFINE d == count - 1
    <3>1. d \in Nat /\ B * d = B * count - B /\ B * count \in Nat
      BY <1>1, <1>6, <2>2
    <3>2. B * d >= d
      <4> HIDE DEF d
      <4>1. CASE d = 0
        BY <1>1, <4>1
      <4>2. CASE d # 0
        <5>1. d * B >= d /\ d * B = B * d
          BY <1>1, <3>1, <4>2, ProductGrows
        <5> QED
          BY <5>1
      <4> QED
        BY <4>1, <4>2
    <3> QED
      BY <1>1, <1>6, <3>1, <3>2
  <2> QED
    BY <1>6, <2>1, <2>2
<1>8. count % UIntMod = count
  BY <1>1, <1>6, <1>7
<1> QED
  BY <1>5, <1>6, <1>8 DEF B, n

(* A byte is in block j exactly when j is its offset divided by the block  *)
(* size.                                                                   *)
LEMMA ByteInOneBlock ==
  ASSUME CountsFit, NEW f \in Files, NEW byte \in 0 .. FileSize[f] - 1
  PROVE  /\ byte \div BlockSize \in Blocks(f)
         /\ \A j \in Blocks(f) :
              byte \div BlockSize = j
                <=> /\ BlockBytes(f, j).at <= byte
                    /\ byte < BlockBytes(f, j).at + BlockBytes(f, j).len
<1> DEFINE B == BlockSize
           n == FileSize[f]
           count == BlockCount(f)
           i == byte \div B
           e == byte % B
<1>1. B \in Nat \ {0} /\ n \in Int /\ n > 0 /\ byte \in Nat /\ byte < n
  BY FileInfoAssumption
<1>2. count \in Nat /\ B * count >= n /\ B * count < n + B
  BY <1>1, CountRoundsUp
<1>3. i \in Nat /\ e \in Nat /\ e < B /\ byte = B * i + e
  <2> HIDE DEF B
  <2> QED
    BY <1>1, DivMod, QuotientNatural
<1> HIDE DEF B, n, count, i, e
<1>4. \A k, m \in Nat : k <= m => B * k <= B * m
  <2> SUFFICES ASSUME NEW k \in Nat, NEW m \in Nat, k <= m PROVE B * k <= B * m
    OBVIOUS
  <2>1. B * m = B * k + B * (m - k) /\ B * (m - k) \in Nat /\ B * k \in Nat
    BY <1>1
  <2> QED
    BY <2>1
<1>5. i < count
  <2>1. ~(count <= i)
    <3> SUFFICES ASSUME count <= i PROVE FALSE
      OBVIOUS
    <3>1. B * count <= B * i /\ B * count \in Nat /\ B * i \in Nat
      BY <1>1, <1>2, <1>3, <1>4
    <3> QED
      BY <1>1, <1>2, <1>3, <3>1
  <2> QED
    BY <1>2, <1>3, <2>1
<1>6. ASSUME NEW j \in Blocks(f)
      PROVE  i = j <=> /\ BlockBytes(f, j).at <= byte
                       /\ byte < BlockBytes(f, j).at + BlockBytes(f, j).len
  <2> DEFINE pos == B * j
             run == BlockBytes(f, j)
  <2>1. j \in Nat /\ j + 1 <= count
    BY <1>2 DEF Blocks, count
  <2>2. pos \in Nat /\ B * (j + 1) = pos + B
    BY <1>1, <2>1
  <2>3. pos < n
    <3>1. B * (j + 1) <= B * count /\ B * count \in Nat
      BY <1>1, <1>2, <1>4, <2>1
    <3> HIDE DEF pos
    <3> QED
      BY <1>1, <1>2, <2>2, <3>1
  <2>4. run.at = pos /\ run.len = IF pos + B <= n THEN B ELSE n - pos
    BY <1>1, <2>2, <2>3 DEF BlockBytes, ReadFrom, B, n
  <2> HIDE DEF run
  <2>5. (run.at <= byte /\ byte < run.at + run.len) <=> (pos <= byte /\ byte < pos + B)
    <3> HIDE DEF pos
    <3> QED
      BY <1>1, <2>2, <2>3, <2>4
  <2>6. CASE i = j
    <3>1. pos <= byte /\ byte < pos + B
      <4>1. byte = pos + e
        BY <1>3, <2>6
      <4> HIDE DEF pos
      <4> QED
        BY <1>1, <1>3, <2>2, <4>1
    <3> QED
      BY <2>5, <2>6, <3>1 DEF run
  <2>7. CASE i # j
    <3>1. CASE pos <= byte /\ byte < pos + B
      <4> DEFINE rest == byte - pos
      <4>1. rest \in Nat /\ rest < B /\ byte = B * j + rest /\ j \in Int /\ byte \in Int
        <5>1. rest \in Nat /\ rest < B /\ byte = pos + rest
          <6> HIDE DEF pos
          <6> QED
            BY <1>1, <2>2, <3>1
        <5> QED
          BY <1>1, <2>1, <5>1
      <4> HIDE DEF rest
      <4>2. byte \div B = j
        BY <1>1, <4>1, DivModUnique
      <4> QED
        BY <2>7, <4>2 DEF i
    <3>2. CASE ~(pos <= byte /\ byte < pos + B)
      BY <2>5, <2>7, <3>2 DEF run
    <3> QED
      BY <3>1, <3>2
  <2> QED
    BY <2>6, <2>7
<1>7. i \in Blocks(f)
  BY <1>2, <1>3, <1>5 DEF Blocks, count
<1> QED
  BY <1>6, <1>7 DEF i, B

(* The checked file is one of Files.                                       *)
LEMMA FileOfFiles == Spec => [](file \in Files)
<1>1. Init => file \in Files
  BY DEF Init
<1>2. file \in Files /\ [Next]_<<a, file, packet_vars>> => (file \in Files)'
  BY DEF Next
<1> QED
  BY <1>1, <1>2, PTL DEF Spec

(* fileinfo.cpp 15-18, blockserver.cpp 51-59: every byte of every file is  *)
(* in one block and in no other.                                           *)
THEOREM BlocksTileFiles ==
  ASSUME CountsFit
  PROVE  Spec => []BlocksTile
<1>1. file \in Files => BlocksTile
  <2> SUFFICES ASSUME file \in Files, NEW byte \in 0 .. FileSize[file] - 1
               PROVE  \E i \in Blocks(file) : \A j \in Blocks(file) :
                        LET run == BlockBytes(file, j) IN
                        i = j <=> run.at <= byte /\ byte < run.at + run.len
    BY DEF BlocksTile
  <2>1. byte \div BlockSize \in Blocks(file)
    BY ByteInOneBlock
  <2> WITNESS byte \div BlockSize \in Blocks(file)
  <2> QED
    BY ByteInOneBlock
<1> QED
  BY <1>1, FileOfFiles, PTL

-----------------------------------------------------------------------------
AllInfos == [digest : Nat, num_blocks : Nat]

(* operator<: strict, transitive, and of two different infos one is less.  *)
LEMMA InfoLessIsAnOrder ==
  ASSUME NEW x \in AllInfos, NEW y \in AllInfos
  PROVE  /\ ~InfoLess(x, x)
         /\ InfoLess(x, y) => ~InfoLess(y, x)
         /\ x # y => InfoLess(x, y) \/ InfoLess(y, x)
         /\ \A z \in AllInfos : InfoLess(x, y) /\ InfoLess(y, z) => InfoLess(x, z)
BY DEF AllInfos, InfoLess

(* fileinfo.cpp 34-41: std::map<FileInfo, SyncStatus> has one entry for a  *)
(* file, and finds it.                                                     *)
THEOREM InfoLessIsOrder == Spec => []InfoLessOrders
<1>1. Init => a \in Infos
  BY DEF Init
<1>2. a \in Infos /\ [Next]_<<a, file, packet_vars>> => (a \in Infos)'
  BY DEF Next
<1>3. a \in Infos => InfoLessOrders
  <2>1. Infos \subseteq AllInfos
    BY DEF Infos, AllInfos
  <2> QED
    BY <2>1, InfoLessIsAnOrder DEF InfoLessOrders
<1> QED
  BY <1>1, <1>2, <1>3, PTL DEF Spec
=============================================================================
