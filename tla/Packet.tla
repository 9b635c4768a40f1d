------------------------------- MODULE Packet -------------------------------
(***************************************************************************)
(* A datagram on its way through two Message objects (message.cpp,         *)
(* message.hpp) and the sockets' operators << and >> (blocksocket.cpp).    *)
(*                                                                         *)
(* A Message keeps the size of its body twice, in the header's length      *)
(* field and in the size of its buffer, and its readers do not agree on    *)
(* which of the two they use.  Message speaks of a datagram as a whole;    *)
(* this module shows when that is what the bytes amount to.                *)
(***************************************************************************)
EXTENDS Message, FiniteSetsExt

VARIABLES
  packet_pc,  \* "idle", "ready", "sent", "accepted", "rejected" or "refused"
  msg,        \* the datagram that is meant
  out,        \* the sender's object
  in          \* the receiver's

packet_vars == <<packet_pc, msg, out, in>>

-----------------------------------------------------------------------------
(* The constructors.  An object is its header's offset and length and the  *)
(* size of its buffer.                                                     *)
Reserved(M, reserve) ==
  [offset |-> HeaderSize[M], length |-> 0, size |-> HeaderSize[M] + reserve]

WithText(M, n) == [offset |-> HeaderSize[M], length |-> n, size |-> HeaderSize[M] + n]

Incoming(room) == [offset |-> 0, length |-> 0, size |-> HeaderSize.none + room]

BugFilled(o, left) ==
  IF o.length = 0 THEN [o EXCEPT !.length = Min({left, o.size - o.offset})] ELSE o

(* operator>>(istream) where left bytes of the file are left: the buffer   *)
(* shrinks to what was read.                                               *)
Filled(o, left) ==
  LET n == Min({left, o.size - o.offset}) IN
  IF o.length = 0 THEN [offset |-> o.offset, length |-> n, size |-> o.offset + n] ELSE o

(* get_text(), operator<<(ostream) and get_array(): the bytes each of them *)
(* takes for the body.                                                     *)
TextLen(o) == o.size - o.offset
WrittenLen(o) == o.size - o.offset
ArrayLen(o) == o.length

PacketLength(o) == (o.length + o.offset) % UIntMod

(* The check behind both operators of the socket; sendto() takes the whole *)
(* buffer, recvfrom() returns what fits into the receiver's.               *)
LengthRight(o, bytes) == PacketLength(o) = bytes

BugReceived(buffer, o) == [o EXCEPT !.size = buffer.size]

Received(buffer, o) == [o EXCEPT !.size = Min({o.size, buffer.size})]

-----------------------------------------------------------------------------
(* The objects of the program's own datagrams.                             *)
BytesLeft(f, pos) == Max({0, FileSize[f] - pos})

ObjectOf(m) ==
  CASE m.type = "INFO" -> WithText("FileInfo", PathLen[m.path])
    [] m.type = "BLOCK" ->
         Filled(Reserved("BlockInfo", BlockSize), BytesLeft(m.file, BlockSize * m.block))
    [] m.type = "CHELLO" -> Reserved("HostInfo", 0)
    [] m.type = "CGOODBYE" -> Reserved("none", 0)

Outgoing ==
       {InfoMsg(f, p) : f \in Files, p \in Paths}
  \cup (UNION {{BlockMsg(f, b, BlockBytes(f, b)) : b \in Blocks(f)} : f \in Files})
  \cup {ChelloMsg(h) : h \in Hosts} \cup {CgoodbyeMsg}

PacketInit ==
  /\ packet_pc = "idle"
  /\ msg = CgoodbyeMsg
  /\ out = ObjectOf(CgoodbyeMsg)
  /\ in = Incoming(ReceiveRoom)

(* message_queue.push_back(), and the read of a block.                     *)
Compose(m) ==
  /\ packet_pc \notin {"ready", "sent"}
  /\ packet_pc' = "ready"
  /\ msg' = m
  /\ out' = ObjectOf(m)
  /\ in' = Incoming(ReceiveRoom)

(* socket << message.                                                      *)
Transmit ==
  /\ packet_pc = "ready"
  /\ packet_pc' = IF LengthRight(out, out.size) THEN "sent" ELSE "refused"
  /\ UNCHANGED <<msg, out, in>>

(* socket >> message.                                                      *)
Deliver ==
  /\ packet_pc = "sent"
  /\ in' = Received(in, out)
  /\ packet_pc' = IF LengthRight(out, Min({out.size, in.size})) THEN "accepted" ELSE "rejected"
  /\ UNCHANGED <<msg, out>>

PacketNext == (\E m \in Outgoing : Compose(m)) \/ Transmit \/ Deliver

PacketSpec == PacketInit /\ [][PacketNext]_packet_vars

-----------------------------------------------------------------------------
(* operator<<(Message) 197-205 throws after the datagram is gone: that     *)
(* never happens to a datagram of the program, short blocks included, and  *)
(* each has the size WireSize says.                                        *)
SenderAccepts ==
  /\ packet_pc # "refused"
  /\ out.size = WireSize(msg)

(* operator>>(Message) 171-182: a datagram is rejected exactly when it is  *)
(* larger than the receiver's buffer; of one that is accepted get_text(),  *)
(* get_array() and the copy into a file all read the body that was sent.   *)
WholeOrRejected ==
  /\ packet_pc = "rejected" => Rejected(msg)
  /\ packet_pc = "accepted" =>
       ~Rejected(msg) /\ {TextLen(in), WrittenLen(in), ArrayLen(in)} = {BodySize(msg)}
=============================================================================
