------------------------------ MODULE Multisync ------------------------------
(***************************************************************************)
(* The whole program (main.cpp): servers, clients and monitors, each with  *)
(* its socket, and the multicast group between them.  A client binds the   *)
(* group's port, and so does a monitor, the program run with "listen"; a   *)
(* server binds whatever port the system gives it (the 0 of                *)
(* blockserver.cpp:25).                                                    *)
(***************************************************************************)
EXTENDS BlockServer, BlockClient, BlockSocket

CONSTANTS
  Monitors,        \* processes that print the datagrams they hear
  EphemeralPorts,  \* the ports the system may give to a socket bound to port 0
  OtherTraffic     \* datagrams that other programs may send to the group

ASSUME MultisyncAssumption ==
  /\ Processes = Servers \cup Clients \cup Monitors
  /\ Servers \cap Clients = {} /\ Monitors \cap (Servers \cup Clients) = {}
  /\ EphemeralPorts \subseteq Nat \ {Closed}

VARIABLE monitor_pc  \* "idle", "listen" or "failed"

vars == <<server_vars, client_vars, monitor_pc, socket_vars>>

MultisyncInit ==
  /\ ServerInit /\ ClientInit /\ SocketInit
  /\ monitor_pc = [l \in Monitors |-> "idle"]

(* The datagrams p may read next.                                          *)
Arriving(p) == {rx[p][i] : i \in NextIn(p)}

-----------------------------------------------------------------------------
RunServer(s) ==
  /\ ServerStart(s)
  /\ \E port \in EphemeralPorts : OpenSocket(s, port)
  /\ UNCHANGED <<client_vars, monitor_pc>>

ServerTurns(s) ==
  /\ EnqueueBlock(s) \/ ServerDrain(s)
  /\ UNCHANGED <<client_vars, monitor_pc, socket_vars>>

ServerReturns(s) ==
  /\ ServerFinish(s)
  /\ CloseSocket(s)
  /\ UNCHANGED <<client_vars, monitor_pc>>

ServerCrashes(s) ==
  /\ ServerFail(s)
  /\ CloseSocket(s)
  /\ UNCHANGED <<client_vars, monitor_pc>>

ServerReceives(s, both) ==
  /\ \E m \in Arriving(s) : Receive(s, m) /\ ServerRead(s, m, both)
  /\ UNCHANGED <<client_vars, monitor_pc>>

ServerDies(s) ==
  /\ \E m \in Arriving(s) : ServerKilled(s, m)
  /\ CloseSocket(s)
  /\ UNCHANGED <<client_vars, monitor_pc>>

(* select() returns WRITE when there is nothing to read.                   *)
ServerSends(s) ==
  /\ server_pc[s] = "select" => ~Readable(s)
  /\ ServerWrite(s)
  /\ Send(Head(server_queue[s]))
  /\ UNCHANGED <<client_vars, monitor_pc>>

RunClient(c) ==
  /\ IF PortFree(c, GroupPort) THEN ClientStart(c) /\ OpenSocket(c, GroupPort)
                               ELSE ClientOpenFails(c) /\ UNCHANGED socket_vars
  /\ UNCHANGED <<server_vars, monitor_pc>>

ClientReceives(c, both) ==
  /\ \E m \in Arriving(c) : Receive(c, m) /\ ClientRead(c, m, both)
  /\ UNCHANGED <<server_vars, monitor_pc>>

ClientDies(c) ==
  /\ \E m \in Arriving(c) : ClientKilled(c, m)
  /\ CloseSocket(c)
  /\ UNCHANGED <<server_vars, monitor_pc>>

ClientSends(c) ==
  /\ client_pc[c] = "select" => ~Readable(c)
  /\ ClientWrite(c)
  /\ Send(Head(client_queue[c]))
  /\ UNCHANGED <<server_vars, monitor_pc>>

ClientCrashes(c) ==
  /\ ClientFail(c)
  /\ CloseSocket(c)
  /\ UNCHANGED <<server_vars, monitor_pc>>

(* Listen(): it opens the port or ends; then it reads whatever comes and   *)
(* never sends.                                                            *)
RunMonitor(l) ==
  /\ monitor_pc[l] # "listen"
  /\ IF PortFree(l, GroupPort)
     THEN OpenSocket(l, GroupPort) /\ monitor_pc' = [monitor_pc EXCEPT ![l] = "listen"]
     ELSE UNCHANGED socket_vars /\ monitor_pc' = [monitor_pc EXCEPT ![l] = "failed"]
  /\ UNCHANGED <<server_vars, client_vars>>

MonitorReceives(l) ==
  /\ monitor_pc[l] = "listen"
  /\ \E m \in Arriving(l) : Receive(l, m) /\ ~Rejected(m)
  /\ UNCHANGED <<server_vars, client_vars, monitor_pc>>

MonitorGone(l) ==
  /\ monitor_pc[l] = "listen"
  /\ monitor_pc' = [monitor_pc EXCEPT ![l] = "failed"]
  /\ CloseSocket(l)
  /\ UNCHANGED <<server_vars, client_vars>>

(* operator>> throws.                                                      *)
MonitorDies(l) == (\E m \in Arriving(l) : Rejected(m)) /\ MonitorGone(l)

OthersSend ==
  /\ \E m \in OtherTraffic : Send(m)
  /\ UNCHANGED <<server_vars, client_vars, monitor_pc>>

-----------------------------------------------------------------------------
(* What a running process does by itself.                                  *)
ServerWorks(s) ==
  \/ ServerTurns(s)
  \/ ServerReturns(s)
  \/ \E both \in BOOLEAN : ServerReceives(s, both)
  \/ ServerDies(s)
  \/ ServerSends(s)

ClientWorks(c) ==
  \/ \E both \in BOOLEAN : ClientReceives(c, both)
  \/ ClientDies(c)
  \/ ClientSends(c)

MonitorWorks(l) == MonitorReceives(l) \/ MonitorDies(l)

MultisyncNext ==
  \/ \E s \in Servers : RunServer(s) \/ ServerWorks(s) \/ ServerCrashes(s)
  \/ \E c \in Clients : RunClient(c) \/ ClientWorks(c) \/ ClientCrashes(c)
  \/ \E l \in Monitors : RunMonitor(l) \/ MonitorWorks(l) \/ MonitorGone(l)
  \/ OthersSend

MultisyncSpec == MultisyncInit /\ [][MultisyncNext]_vars

-----------------------------------------------------------------------------
(* open(), close() and ~BlockSocket(): a process is running exactly when   *)
(* it has a socket, and two processes of a machine never share a port.     *)
SocketsOwned ==
  /\ \A s \in Servers : server_pc[s] \in Running <=> sock[s] # Closed
  /\ \A c \in Clients : client_pc[c] \in {"select", "write"} <=> sock[c] # Closed
  /\ \A l \in Monitors : monitor_pc[l] = "listen" <=> sock[l] # Closed
  /\ \A p, q \in Processes :
       p # q /\ Machine[p] = Machine[q] /\ sock[p] # Closed => sock[p] # sock[q]

(* blockserver.cpp:25, main() 79: where the system does not happen to give *)
(* a server the group's port, whatever clients and other programs send, it *)
(* reads nothing and no client is ever registered.                         *)
ServersHearNobody ==
  GroupPort \notin EphemeralPorts =>
    \A s \in Servers : rx[s] = <<>> /\ host_info[s] = {}

(* What FileDelivery promises of the clients of these servers.             *)
ServerOffers == {<<SourceOf(s), Dest[s]>> : s \in Servers}

Distribution == INSTANCE FileDelivery WITH
  Machines <- Clients, Offers <- ServerOffers, Copy <- WholeCopy, copies <- disk

(* start(), transfer_complete(): with datagrams lost, doubled or out of    *)
(* order, and crashes and restarts of both sides, a client's disk shows    *)
(* complete copies of offered files at the paths they are offered for.     *)
DeliversWholeFiles == Distribution!DeliverySpec
=============================================================================
