----------------------------- MODULE MCFileInfo -----------------------------
(***************************************************************************)
(* The pure part of FileInfo and the packets of Packet, checked on all     *)
(* small inputs: an info for the comparison operators, a file for the      *)
(* arithmetic on blocks, and every datagram of the program on its way.  A  *)
(* file is named by its size.                                              *)
(***************************************************************************)
EXTENDS Packet, TLC

VARIABLES a, file

Infos == [digest : 0 .. 2, num_blocks : 0 .. 2]
MCFiles == 0 .. 13
MCSize == [f \in MCFiles |-> f]

(* "fit" fills the receiver's buffer, "long" is one byte too many.         *)
MCPathLen == "one" :> 1 @@ "fit" :> 8 @@ "long" :> 9

Init == a \in Infos /\ file \in Files /\ PacketInit
Next ==
  \/ a' \in Infos /\ UNCHANGED <<file, packet_vars>>
  \/ file' \in Files /\ UNCHANGED <<a, packet_vars>>
  \/ PacketNext /\ UNCHANGED <<a, file>>
Spec == Init /\ [][Next]_<<a, file, packet_vars>>

(* fileinfo.cpp:34, the order of std::map: strict, transitive, and two     *)
(* infos neither of which is less are the same key.                        *)
InfoLessOrders ==
  \A b \in Infos :
    /\ ~InfoLess(a, a)
    /\ InfoLess(a, b) => ~InfoLess(b, a)
    /\ a # b => InfoLess(a, b) \/ InfoLess(b, a)
    /\ \A c \in Infos : InfoLess(a, b) /\ InfoLess(b, c) => InfoLess(a, c)

(* fileinfo.cpp:15-18, blockserver.cpp:51-59: the blocks cover the file,   *)
(* and no byte is in two of them.                                          *)
BlocksTile ==
  \A byte \in 0 .. FileSize[file] - 1 :
    \E i \in Blocks(file) : \A j \in Blocks(file) :
      LET run == BlockBytes(file, j) IN
      i = j <=> run.at <= byte /\ byte < run.at + run.len

(* fileinfo.hpp:20 of operator==: "true if both the hash digest and file   *)
(* length of both files are equal".                                        *)
EqualIsEqual ==
  \A b \in Infos : InfoEqual(a, b) <=> a.digest = b.digest /\ a.num_blocks = b.num_blocks
=============================================================================
