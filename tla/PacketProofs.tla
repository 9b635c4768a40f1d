----------------------------- MODULE PacketProofs -----------------------------
(***************************************************************************)
(* Proofs about the two sizes of a datagram, for files, paths and buffers  *)
(* of any size.                                                            *)
(***************************************************************************)
EXTENDS Packet, TLAPS

-----------------------------------------------------------------------------
(* The smaller of two numbers.                                             *)
LEMMA MinOfTwo ==
  ASSUME NEW a \in Int, NEW b \in Int
  PROVE  Min({a, b}) = IF a <= b THEN a ELSE b
<1> DEFINE Least(x) == x \in {a, b} /\ \A y \in {a, b} : x <= y
<1>1. Least(IF a <= b THEN a ELSE b)
  OBVIOUS
<1>2. \A x : Least(x) => x = IF a <= b THEN a ELSE b
  OBVIOUS
<1>3. Min({a, b}) = CHOOSE x \in {a, b} : \A y \in {a, b} : x <= y
  BY DEF Min
<1> QED
  BY <1>1, <1>2, <1>3

(* The larger of two numbers.                                              *)
LEMMA MaxOfTwo ==
  ASSUME NEW a \in Int, NEW b \in Int
  PROVE  Max({a, b}) = IF a >= b THEN a ELSE b
<1>1. Max({a, b}) = CHOOSE x \in {a, b} : \A y \in {a, b} : x >= y
  BY DEF Max
<1> QED
  BY <1>1

(* Blocks are numbered from 0.                                             *)
LEMMA BlocksNatural ==
  ASSUME NEW f \in Files
  PROVE  Blocks(f) \subseteq Nat
BY DEF Blocks

(* What a read of a block leaves of the object it is read into.            *)
LEMMA FilledBlock ==
  ASSUME NEW f \in Files, NEW b \in Blocks(f)
  PROVE  /\ BlockBytes(f, b).len \in 0 .. BlockSize
         /\ Filled(Reserved("BlockInfo", BlockSize), BytesLeft(f, BlockSize * b))
              = [offset |-> 60, length |-> BlockBytes(f, b).len,
                 size |-> 60 + BlockBytes(f, b).len]
<1> DEFINE pos == BlockSize * b
           left == BytesLeft(f, pos)
           n == BlockBytes(f, b).len
<1>1. BlockSize \in Nat \ {0} /\ FileSize[f] \in Int /\ b \in Nat
  BY FileInfoAssumption, BlocksNatural
<1>2. pos \in Nat
  BY <1>1
<1>3. left = IF pos >= FileSize[f] THEN 0 ELSE FileSize[f] - pos
  <2> HIDE DEF pos
  <2>1. left = Max({0, FileSize[f] - pos})
    BY DEF BytesLeft
  <2> QED
    BY <1>1, <1>2, <2>1, MaxOfTwo
<1>4. n = IF left <= BlockSize THEN left ELSE BlockSize
  <2>1. n = ReadFrom(f, pos).len
    BY DEF BlockBytes
  <2> HIDE DEF pos, n, left
  <2> QED
    BY <1>1, <1>2, <1>3, <2>1 DEF ReadFrom, NoBytes
<1>5. left \in Nat
  <2> HIDE DEF pos, left
  <2> QED
    BY <1>1, <1>2, <1>3
<1> HIDE DEF left, n, pos
<1>6. Min({left, BlockSize}) = n /\ n \in 0 .. BlockSize
  BY <1>1, <1>4, <1>5, MinOfTwo
<1>7. Reserved("BlockInfo", BlockSize) = [offset |-> 60, length |-> 0, size |-> 60 + BlockSize]
  BY DEF Reserved, HeaderSize
<1>8. /\ Reserved("BlockInfo", BlockSize).length = 0
      /\ Reserved("BlockInfo", BlockSize).size - Reserved("BlockInfo", BlockSize).offset = BlockSize
  BY <1>1, <1>7
<1>9. Filled(Reserved("BlockInfo", BlockSize), left) = [offset |-> 60, length |-> n, size |-> 60 + n]
  <2> DEFINE o == Reserved("BlockInfo", BlockSize)
  <2>1. Min({left, o.size - o.offset}) = n
    BY <1>6, <1>8
  <2>2. o.length = 0 /\ o.offset = 60
    BY <1>7, <1>8
  <2> HIDE DEF o
  <2>3. Filled(o, left) = [offset |-> o.offset, length |-> n, size |-> o.offset + n]
    BY <2>1, <2>2 DEF Filled
  <2> QED
    BY <2>2, <2>3 DEF o
<1> QED
  BY <1>6, <1>9 DEF n, left, pos

(* Every datagram of the program, as an object: its header and its body    *)
(* are as long as Message says, and all three fields agree on it.          *)
LEMMA ObjectSound ==
  ASSUME NEW m \in Outgoing
  PROVE  /\ BodySize(m) \in Nat /\ HeaderSize[m.meta] \in Nat
         /\ ObjectOf(m) = [offset |-> HeaderSize[m.meta], length |-> BodySize(m),
                           size |-> WireSize(m)]
<1> DEFINE Goal ==
      /\ BodySize(m) \in Nat /\ HeaderSize[m.meta] \in Nat
      /\ ObjectOf(m) = [offset |-> HeaderSize[m.meta], length |-> BodySize(m), size |-> WireSize(m)]
<1>1. ASSUME NEW f \in Files, NEW p \in Paths, m = InfoMsg(f, p) PROVE Goal
  BY <1>1, MessageAssumption DEF InfoMsg, BodySize, WireSize, HeaderSize, ObjectOf, WithText
<1>2. ASSUME NEW f \in Files, NEW b \in Blocks(f), m = BlockMsg(f, b, BlockBytes(f, b)) PROVE Goal
  <2>1. ObjectOf(m) = Filled(Reserved("BlockInfo", BlockSize), BytesLeft(f, BlockSize * b))
    BY <1>2 DEF BlockMsg, ObjectOf
  <2>2. BodySize(m) = BlockBytes(f, b).len /\ HeaderSize[m.meta] = 60
    BY <1>2 DEF BlockMsg, BodySize, HeaderSize
  <2> QED
    BY <2>1, <2>2, FilledBlock, FileInfoAssumption DEF WireSize
<1>3. ASSUME NEW h \in Hosts, m = ChelloMsg(h) PROVE Goal
  BY <1>3 DEF ChelloMsg, BodySize, WireSize, HeaderSize, ObjectOf, Reserved
<1>4. CASE m = CgoodbyeMsg
  BY <1>4 DEF CgoodbyeMsg, BodySize, WireSize, HeaderSize, ObjectOf, Reserved
<1> QED
  BY <1>1, <1>2, <1>3, <1>4 DEF Outgoing

(* The largest datagram does not wrap the sum of the two header fields.    *)
SizesFit == \A m \in Outgoing : WireSize(m) < UIntMod

(* The check of a length compares the size with what came.                 *)
LEMMA LengthAlwaysRight ==
  ASSUME SizesFit, NEW m \in Outgoing, NEW bytes \in Nat
  PROVE  LengthRight(ObjectOf(m), bytes) <=> WireSize(m) = bytes
<1>1. BodySize(m) \in Nat /\ HeaderSize[m.meta] \in Nat /\ UIntMod \in Nat \ {0}
  BY ObjectSound, FileInfoAssumption
<1>2. WireSize(m) \in Nat /\ WireSize(m) < UIntMod /\ WireSize(m) = BodySize(m) + HeaderSize[m.meta]
  BY <1>1 DEF SizesFit, WireSize
<1>3. WireSize(m) % UIntMod = WireSize(m)
  BY <1>1, <1>2
<1>4. PacketLength(ObjectOf(m)) = WireSize(m)
  BY <1>2, <1>3, ObjectSound DEF PacketLength
<1> QED
  BY <1>4 DEF LengthRight

-----------------------------------------------------------------------------
(* The inductive invariant of a datagram's way.                            *)
PacketSound ==
  /\ msg \in Outgoing
  /\ out = ObjectOf(msg)
  /\ packet_pc \in {"idle", "ready", "sent", "accepted", "rejected"}
  /\ packet_pc \in {"ready", "sent"} => in = Incoming(ReceiveRoom)
  /\ packet_pc = "rejected" => Rejected(msg)
  /\ packet_pc = "accepted" => ~Rejected(msg) /\ in = ObjectOf(msg)

(* The invariant holds before the first datagram.                          *)
LEMMA PacketSoundInit == PacketInit => PacketSound
BY DEF PacketInit, PacketSound, Outgoing

(* socket >> message.                                                      *)
LEMMA DeliverSound ==
  ASSUME SizesFit, PacketSound, Deliver
  PROVE  PacketSound'
<1> DEFINE size == WireSize(msg)
           got == Min({out.size, in.size})
<1>1. msg \in Outgoing /\ out = ObjectOf(msg) /\ in = Incoming(ReceiveRoom)
  BY DEF PacketSound, Deliver
<1>2. size \in Nat /\ out.size = size
  BY <1>1, ObjectSound DEF WireSize
<1>3. Capacity \in Nat /\ in.size = Capacity
  BY <1>1, MessageAssumption DEF Incoming, Capacity, HeaderSize
<1>4. got \in Nat /\ (got = size <=> size <= Capacity)
  BY <1>2, <1>3, MinOfTwo
<1>5. LengthRight(out, got) <=> got = size
  BY <1>1, <1>4, LengthAlwaysRight
<1>6. CASE size <= Capacity
  <2>1. packet_pc' = "accepted" /\ ~Rejected(msg)
    BY <1>2, <1>3, <1>4, <1>5, <1>6 DEF Deliver, Rejected
  <2>2. in' = out
    BY <1>1, <1>2, <1>4, <1>6, ObjectSound DEF Deliver, Received
  <2> QED
    BY <1>1, <2>1, <2>2 DEF Deliver, PacketSound
<1>7. CASE ~(size <= Capacity)
  <2>1. packet_pc' = "rejected" /\ Rejected(msg)
    BY <1>2, <1>3, <1>4, <1>5, <1>7 DEF Deliver, Rejected
  <2> QED
    BY <1>1, <2>1 DEF Deliver, PacketSound
<1> QED
  BY <1>6, <1>7

(* Every step preserves the invariant.                                     *)
LEMMA PacketSoundStep ==
  ASSUME SizesFit, PacketSound, [PacketNext]_packet_vars
  PROVE  PacketSound'
<1>1. CASE UNCHANGED packet_vars
  BY <1>1 DEF packet_vars, PacketSound
<1>2. ASSUME NEW m \in Outgoing, Compose(m) PROVE PacketSound'
  BY <1>2 DEF Compose, PacketSound
<1>3. CASE Transmit
  <2>1. /\ msg \in Outgoing /\ out = ObjectOf(msg) /\ in = Incoming(ReceiveRoom)
        /\ UNCHANGED <<msg, out, in>>
    BY <1>3 DEF PacketSound, Transmit
  <2>2. out.size = WireSize(msg) /\ out.size \in Nat
    BY <2>1, ObjectSound DEF WireSize
  <2>3. LengthRight(out, out.size)
    BY <2>1, <2>2, LengthAlwaysRight
  <2>4. packet_pc' = "sent"
    BY <1>3, <2>3 DEF Transmit
  <2> QED
    BY <2>1, <2>4 DEF PacketSound
<1> QED
  BY <1>1, <1>2, <1>3, DeliverSound DEF PacketNext

(* The invariant holds.                                                    *)
LEMMA PacketInvariant ==
  ASSUME SizesFit
  PROVE  PacketSpec => []PacketSound
<1>1. PacketSound /\ [PacketNext]_packet_vars => PacketSound'
  BY PacketSoundStep
<1> QED
  BY <1>1, PacketSoundInit, PTL DEF PacketSpec

(* operator<<(Message) never throws at the length of a datagram of the     *)
(* program, short blocks included.                                         *)
THEOREM PacketsAreSent ==
  ASSUME SizesFit
  PROVE  PacketSpec => []SenderAccepts
<1>1. PacketSound => SenderAccepts
  BY ObjectSound DEF PacketSound, SenderAccepts
<1> QED
  BY <1>1, PacketInvariant, PTL

(* A datagram is rejected exactly when it does not fit; of one that is     *)
(* accepted all readers of the body see the body that was sent.            *)
THEOREM PacketsWholeOrRejected ==
  ASSUME SizesFit
  PROVE  PacketSpec => []WholeOrRejected
<1>1. PacketSound => WholeOrRejected
  <2> SUFFICES ASSUME PacketSound, packet_pc = "accepted"
               PROVE  {TextLen(in), WrittenLen(in), ArrayLen(in)} = {BodySize(msg)}
    BY DEF PacketSound, WholeOrRejected
  <2>1. /\ in = [offset |-> HeaderSize[msg.meta], length |-> BodySize(msg), size |-> WireSize(msg)]
        /\ BodySize(msg) \in Nat /\ HeaderSize[msg.meta] \in Nat
    BY ObjectSound DEF PacketSound
  <2>2. WireSize(msg) - HeaderSize[msg.meta] = BodySize(msg)
    BY <2>1 DEF WireSize
  <2> QED
    BY <2>1, <2>2 DEF TextLen, WrittenLen, ArrayLen
<1> QED
  BY <1>1, PacketInvariant, PTL
=============================================================================
