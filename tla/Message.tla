------------------------------- MODULE Message -------------------------------
(***************************************************************************)
(* The datagrams of the protocol (message.hpp).                            *)
(*                                                                         *)
(* A message is a header, a metadata structure (a HostInfo, a FileInfo, a  *)
(* BlockInfo or none) and a body.  The receiver learns which structure it  *)
(* got only from the header's offset field; meta names it here.            *)
(***************************************************************************)
EXTENDS FileInfo, Sequences

CONSTANTS
  Hosts,        \* the values of a HostInfo: the pid a client calls itself by
  Paths,        \* destination paths a server may announce, never the empty string
  PathLen,      \* PathLen[p]: the bytes of the path p
  ReceiveRoom,  \* what both sides reserve for a datagram's body, 4096
  MaxQueue      \* bound of the checks: replies a peer may leave unsent in a send queue

NoPath == ""

(* sizeof(MetadataHeader<M>) in the build, the value of the offset field.  *)
HeaderSize == [none |-> 16, HostInfo |-> 20, FileInfo |-> 56, BlockInfo |-> 60]

(* The buffer a datagram is received into, Message(4096): a Header and the *)
(* room.                                                                   *)
Capacity == HeaderSize.none + ReceiveRoom

ASSUME MessageAssumption ==
  /\ NoPath \notin Paths
  /\ PathLen \in [Paths -> Nat \ {0}]
  /\ ReceiveRoom \in Nat
  /\ HeaderSize.BlockInfo + BlockSize <= Capacity
  /\ MaxQueue \in Nat

InfoMsg(f, p)      == [type |-> "INFO", meta |-> "FileInfo", file |-> f, path |-> p]
BlockMsg(f, b, d)  == [type |-> "BLOCK", meta |-> "BlockInfo", file |-> f, block |-> b, data |-> d]
ChelloMsg(h)       == [type |-> "CHELLO", meta |-> "HostInfo", host |-> h]
GetinfoMsg(h)      == [type |-> "GETINFO", meta |-> "HostInfo", host |-> h]
SgoodbyeMsg(f, a)  == [type |-> "SGOODBYE", meta |-> "FileInfo", file |-> f, clients |-> a]
CgoodbyeMsg        == [type |-> "CGOODBYE", meta |-> "none"]
CgoodbyeFrom(h)    == [type |-> "CGOODBYE", meta |-> "HostInfo", host |-> h]
(* A GETBLOCK carries one structure: its host, or its file and block.      *)
GetblockMsg(k, h, f, b) ==
  [type |-> "GETBLOCK", meta |-> k, host |-> h, file |-> f, block |-> b]

Datagram ==
       [type : {"INFO"}, meta : {"FileInfo"}, file : Files, path : Paths]
  \cup [type : {"BLOCK"}, meta : {"BlockInfo"}, file : Files, block : Nat, data : Bytes]
  \cup [type : {"CHELLO", "GETINFO", "CGOODBYE"}, meta : {"HostInfo"}, host : Hosts]
  \cup [type : {"CGOODBYE"}, meta : {"none"}]
  \cup [type : {"SGOODBYE"}, meta : {"FileInfo"}, file : Files, clients : Seq(Hosts)]
  \cup [type : {"GETBLOCK"}, meta : {"HostInfo", "BlockInfo"},
        host : Hosts, file : Files, block : Nat]

(* get_metadata<M>() returns when the offset is M's size and throws else.  *)
HasMetadata(m, M) == HeaderSize[m.meta] = HeaderSize[M]

(* The bytes of m's body: a path, a part of a file, an array of ids.       *)
BodySize(m) ==
  CASE m.type = "INFO" -> PathLen[m.path]
    [] m.type = "BLOCK" -> m.data.len
    [] m.type = "SGOODBYE" -> 4 * Len(m.clients)
    [] OTHER -> 0

WireSize(m) == HeaderSize[m.meta] + BodySize(m)

(* operator>> cuts off what does not fit and throws when the rest is not   *)
(* what the header says.  Packet shows that this is what it comes to.      *)
Rejected(m) == WireSize(m) > Capacity

(* A BLOCK whose body is what its metadata says it is.                     *)
Genuine(m) ==
  m.type = "BLOCK" => m.block \in Blocks(m.file) /\ m.data = BlockBytes(m.file, m.block)

GenuineDatagram == {m \in Datagram : Genuine(m)}
=============================================================================
