----------------------------- MODULE BlockSocket -----------------------------
(***************************************************************************)
(* The UDP sockets of the processes and the multicast group they share     *)
(* (blocksocket.cpp).  Every datagram goes to the group's address and      *)
(* port, whoever sends it, and reaches the sockets bound to that port, the *)
(* sender's own included.                                                  *)
(***************************************************************************)
EXTENDS Integers, Sequences, SequencesExt

CONSTANTS
  Processes,   \* whatever opens a socket
  Machine,     \* Machine[p]: where p runs
  GroupPort,   \* the port of the group, 9000
  Unreliable,  \* whether datagrams may be lost, doubled and out of order
  RxLimit      \* bound of the checks: datagrams a socket's receive buffer holds

ASSUME BlockSocketAssumption ==
  /\ DOMAIN Machine = Processes
  /\ GroupPort \in Nat \ {0}
  /\ Unreliable \in BOOLEAN
  /\ RxLimit \in Nat \ {0}

VARIABLES
  sock,  \* sock[p]: the port p's socket is bound to, Closed without one
  rx     \* rx[p]: the datagrams in p's receive buffer

socket_vars == <<sock, rx>>

Closed == 0

SocketInit ==
  /\ sock = [p \in Processes |-> Closed]
  /\ rx = [p \in Processes |-> <<>>]

(* SO_REUSEADDR and SO_REUSEPORT are commented out.                        *)
PortFree(p, port) ==
  \A q \in Processes \ {p} : Machine[q] = Machine[p] => sock[q] # port

(* open(): join the group and bind; afterwards the group's datagrams come. *)
OpenSocket(p, port) ==
  /\ PortFree(p, port)
  /\ sock' = [sock EXCEPT ![p] = port]
  /\ UNCHANGED rx

BugCloseSocket(p) == rx' = [rx EXCEPT ![p] = <<>>] /\ UNCHANGED sock

(* close(), or the end of the process: unread datagrams are gone.          *)
CloseSocket(p) ==
  /\ sock' = [sock EXCEPT ![p] = Closed]
  /\ rx' = [rx EXCEPT ![p] = <<>>]

BugListeners == {p \in Processes : sock[p] # Closed}
Listeners == {p \in Processes : sock[p] = GroupPort}
HasSpace(p) == Len(rx[p]) < RxLimit

(* operator<<(Message) never waits: a listener whose buffer is full does   *)
(* not get m, and an unreliable network may pass over others.              *)
Send(m) ==
  /\ \E R \in SUBSET {p \in Listeners : HasSpace(p)} :
       /\ Unreliable \/ \A p \in Listeners : HasSpace(p) => p \in R
       /\ rx' = [p \in Processes |-> IF p \in R THEN Append(rx[p], m) ELSE rx[p]]
  /\ UNCHANGED sock

Readable(p) == rx[p] # <<>>

(* The places of rx[p] that recvfrom() may take from.                      *)
NextIn(p) == {i \in DOMAIN rx[p] : i = 1 \/ Unreliable}

(* operator>>(Message).  An unreliable network may deliver m once more.    *)
Receive(p, m) ==
  /\ \E i \in NextIn(p) :
       /\ m = rx[p][i]
       /\ \/ rx' = [rx EXCEPT ![p] = RemoveAt(@, i)]
          \/ Unreliable /\ UNCHANGED rx
  /\ UNCHANGED sock
=============================================================================
