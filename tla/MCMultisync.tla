----------------------------- MODULE MCMultisync -----------------------------
(***************************************************************************)
(* Instances of Multisync and OneRun for TLC.                              *)
(***************************************************************************)
EXTENDS OneRun

CONSTANTS f1, f2, s1, s2, c1, c2, l1, h1, h2, m1, m2

(* Blocks are two bytes: f1 has two blocks, the last one short; f2 has one.*)
MCFileSize == [f \in Files |-> IF f = f1 THEN 3 ELSE 2]
MCDigest == [f \in Files |-> IF f = f1 THEN 1 ELSE 2]
MCSource == [s \in Servers |-> IF s = s1 THEN f1 ELSE f2]
MCDest == [s \in Servers |-> IF s = s1 THEN "a" ELSE "b"]
MCHostOf == [c \in Clients |-> IF c = c1 THEN h1 ELSE h2]
MCPathLen == [p \in Paths |-> IF p = "long" THEN 9 ELSE 1]
NoContents == [s \in Servers |-> {}]

(* The servers have a machine of their own, the others share one.          *)
ServersApart == [p \in Processes |-> IF p \in Servers THEN m1 ELSE m2]

(* Each server has a client on its machine; a monitor competes with c2.    *)
(* The two servers can have the same ephemeral port at the same time.      *)
SharedMachines == [p \in Processes |-> IF p \in {s1, c1} THEN m1 ELSE m2]

NoTraffic == {}

(* An announcement too long for the receivers.                             *)
LongTraffic == {InfoMsg(f1, "long")}

-----------------------------------------------------------------------------
(* blockserver.cpp:49-50: "It doesn't matter if the clients can't get the  *)
(* blocks; missing blocks will be resent later."                           *)
MissingBlocksArrive ==
  \A c \in Clients : \A f \in Files :
    f \in Following(c) ~> (f \in Following(c) => sync_set[c][f].remaining_blocks = 0)

SendsHello(c) ==
  /\ client_queue[c] # <<>> /\ Head(client_queue[c]) = ChelloMsg(HostOf[c])
  /\ client_queue'[c] = Tail(client_queue[c]) /\ client_pc'[c] # "failed"

(* blockserver.cpp:105: "The client wishes to be added to the client       *)
(* list."  On a network that loses nothing a CHELLO reaches the servers    *)
(* that are running.                                                       *)
HelloReachesServers ==
  [][\A c \in Clients, s \in Servers :
       SendsHello(c) /\ server_pc[s] \in Running
         => ChelloMsg(HostOf[c]) \in Range(rx'[s])]_vars
=============================================================================
