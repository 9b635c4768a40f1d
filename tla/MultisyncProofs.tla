--------------------------- MODULE MultisyncProofs ---------------------------
(***************************************************************************)
(* Proofs about the whole program, for any number of servers, clients and  *)
(* monitors, on any machines.                                              *)
(***************************************************************************)
EXTENDS Multisync, BlockServerProofs, BlockClientProofs

-----------------------------------------------------------------------------
(* Who is running, and what one step does to that and to the sockets.      *)
RunningServers == {s \in Servers : server_pc[s] \in Running}
RunningClients == {c \in Clients : client_pc[c] \in {"select", "write"}}
RunningMonitors == {l \in Monitors : monitor_pc[l] = "listen"}
Up == RunningServers \cup RunningClients \cup RunningMonitors

SocketKept == Up' = Up /\ sock' = sock
SocketOpened(p, port) ==
  /\ PortFree(p, port) /\ port # Closed
  /\ sock' = [sock EXCEPT ![p] = port]
  /\ Up' = Up \cup {p}
SocketClosed(p) == sock' = [sock EXCEPT ![p] = Closed] /\ Up' = Up \ {p}

SocketStep ==
  \/ SocketKept
  \/ \E p \in Processes, port \in Nat : SocketOpened(p, port)
  \/ \E p \in Processes : SocketClosed(p)

ControlTypeOK ==
  /\ server_pc \in [Servers -> {"idle", "done", "failed"} \cup Running]
  /\ client_pc \in [Clients -> {"idle", "select", "write", "failed"}]
  /\ monitor_pc \in [Monitors -> {"idle", "listen", "failed"}]

LEMMA PortsNumbers == EphemeralPorts \subseteq Nat \ {Closed} /\ GroupPort \in Nat \ {Closed}
BY MultisyncAssumption, BlockSocketAssumption DEF Closed

(* A step of one server, seen from its program counter.                    *)
LEMMA ServerMoves ==
  ASSUME ControlTypeOK, NEW s \in Servers, UNCHANGED <<client_pc, monitor_pc>>,
         NEW pc \in {"idle", "done", "failed"} \cup Running,
         server_pc' = [server_pc EXCEPT ![s] = pc]
  PROVE  /\ ControlTypeOK'
         /\ pc \in Running => Up' = Up \cup {s}
         /\ pc \notin Running => Up' = Up \ {s}
<1>1. \A t \in Servers : server_pc'[t] = IF t = s THEN pc ELSE server_pc[t]
  BY DEF ControlTypeOK
<1>2. ControlTypeOK'
  BY DEF ControlTypeOK
<1>3. RunningClients' = RunningClients /\ RunningMonitors' = RunningMonitors
  BY DEF RunningClients, RunningMonitors
<1>4. s \notin RunningClients /\ s \notin RunningMonitors
  BY MultisyncAssumption DEF RunningClients, RunningMonitors
<1>5. RunningServers' = IF pc \in Running THEN RunningServers \cup {s} ELSE RunningServers \ {s}
  BY <1>1 DEF RunningServers
<1> QED
  BY <1>2, <1>3, <1>4, <1>5 DEF Up

LEMMA ClientMoves ==
  ASSUME ControlTypeOK, NEW c \in Clients, UNCHANGED <<server_pc, monitor_pc>>,
         NEW pc \in {"idle", "select", "write", "failed"},
         client_pc' = [client_pc EXCEPT ![c] = pc]
  PROVE  /\ ControlTypeOK'
         /\ pc \in {"select", "write"} => Up' = Up \cup {c}
         /\ pc \notin {"select", "write"} => Up' = Up \ {c}
<1>1. \A d \in Clients : client_pc'[d] = IF d = c THEN pc ELSE client_pc[d]
  BY DEF ControlTypeOK
<1>2. ControlTypeOK'
  BY DEF ControlTypeOK
<1>3. RunningServers' = RunningServers /\ RunningMonitors' = RunningMonitors
  BY DEF RunningServers, RunningMonitors
<1>4. c \notin RunningServers /\ c \notin RunningMonitors
  BY MultisyncAssumption DEF RunningServers, RunningMonitors
<1>5. RunningClients' = IF pc \in {"select", "write"} THEN RunningClients \cup {c}
                                                    ELSE RunningClients \ {c}
  BY <1>1 DEF RunningClients
<1> QED
  BY <1>2, <1>3, <1>4, <1>5 DEF Up

LEMMA MonitorMoves ==
  ASSUME ControlTypeOK, NEW l \in Monitors, UNCHANGED <<server_pc, client_pc>>,
         NEW pc \in {"listen", "failed"}, monitor_pc' = [monitor_pc EXCEPT ![l] = pc]
  PROVE  /\ ControlTypeOK'
         /\ pc = "listen" => Up' = Up \cup {l}
         /\ pc = "failed" => Up' = Up \ {l}
<1>1. \A k \in Monitors : monitor_pc'[k] = IF k = l THEN pc ELSE monitor_pc[k]
  BY DEF ControlTypeOK
<1>2. ControlTypeOK'
  BY DEF ControlTypeOK
<1>3. RunningServers' = RunningServers /\ RunningClients' = RunningClients
  BY DEF RunningServers, RunningClients
<1>4. l \notin RunningServers /\ l \notin RunningClients
  BY MultisyncAssumption DEF RunningServers, RunningClients
<1>5. RunningMonitors' = IF pc = "listen" THEN RunningMonitors \cup {l}
                                          ELSE RunningMonitors \ {l}
  BY <1>1 DEF RunningMonitors
<1> QED
  BY <1>2, <1>3, <1>4, <1>5 DEF Up

(* A step that leaves all program counters alone, or that keeps a running  *)
(* process running.                                                        *)
LEMMA NobodyMoves ==
  ASSUME ControlTypeOK, UNCHANGED <<server_pc, client_pc, monitor_pc>>
  PROVE  ControlTypeOK' /\ Up' = Up
BY DEF ControlTypeOK, Up, RunningServers, RunningClients, RunningMonitors

LEMMA ServerSocketStep ==
  ASSUME ControlTypeOK, NEW s \in Servers, RunServer(s) \/ ServerWorks(s) \/ ServerCrashes(s)
  PROVE  ControlTypeOK' /\ SocketStep
<1>0. s \in Processes
  BY MultisyncAssumption
<1>1. CASE RunServer(s)
  <2>1. PICK port \in EphemeralPorts : OpenSocket(s, port)
    BY <1>1 DEF RunServer
  <2>2. ControlTypeOK' /\ Up' = Up \cup {s}
    BY <1>1, ServerMoves DEF RunServer, ServerStart, Running, client_vars
  <2> QED
    BY <1>0, <2>1, <2>2, PortsNumbers DEF OpenSocket, SocketOpened, SocketStep
<1>2. ASSUME NEW pc \in Running, server_pc[s] \in Running,
             server_pc' = [server_pc EXCEPT ![s] = pc],
             UNCHANGED <<client_pc, monitor_pc, sock>>
      PROVE  ControlTypeOK' /\ SocketStep
  <2>1. ControlTypeOK' /\ Up' = Up \cup {s}
    BY <1>2, ServerMoves
  <2>2. s \in Up
    BY <1>2 DEF Up, RunningServers
  <2> QED
    BY <1>2, <2>1, <2>2 DEF SocketKept, SocketStep
<1>3. ASSUME NEW why \in {"done", "failed"}, ServerGone(s, why), CloseSocket(s),
             UNCHANGED <<client_pc, monitor_pc>>
      PROVE  ControlTypeOK' /\ SocketStep
  <2>1. ControlTypeOK' /\ Up' = Up \ {s}
    BY <1>3, ServerMoves DEF ServerGone, Running
  <2> QED
    BY <1>0, <1>3, <2>1 DEF CloseSocket, SocketClosed, SocketStep
<1>4. CASE ServerTurns(s)
  BY <1>2, <1>4
  DEF ServerTurns, EnqueueBlock, ServerDrain, Running, client_vars, socket_vars
<1>5. CASE ServerReturns(s)
  BY <1>3, <1>5 DEF ServerReturns, ServerFinish, client_vars
<1>6. ASSUME NEW both \in BOOLEAN, ServerReceives(s, both) PROVE ControlTypeOK' /\ SocketStep
  BY <1>2, <1>6 DEF ServerReceives, ServerRead, Receive, Running, client_vars
<1>7. CASE ServerDies(s)
  BY <1>3, <1>7 DEF ServerDies, ServerKilled, client_vars
<1>8. CASE ServerSends(s)
  BY <1>2, <1>8 DEF ServerSends, ServerWrite, Send, Running, client_vars
<1>9. CASE ServerCrashes(s)
  BY <1>3, <1>9 DEF ServerCrashes, ServerFail, client_vars
<1> QED
  BY <1>1, <1>4, <1>5, <1>6, <1>7, <1>8, <1>9 DEF ServerWorks

LEMMA ClientSocketStep ==
  ASSUME ControlTypeOK, NEW c \in Clients, RunClient(c) \/ ClientWorks(c) \/ ClientCrashes(c)
  PROVE  ControlTypeOK' /\ SocketStep
<1>0. c \in Processes
  BY MultisyncAssumption
<1>1. CASE RunClient(c) /\ PortFree(c, GroupPort)
  <2>1. OpenSocket(c, GroupPort) /\ ClientStart(c) /\ UNCHANGED <<server_pc, monitor_pc>>
    BY <1>1 DEF RunClient, server_vars
  <2>2. ControlTypeOK' /\ Up' = Up \cup {c}
    BY <2>1, ClientMoves DEF ClientStart
  <2> QED
    BY <1>0, <2>1, <2>2, PortsNumbers DEF OpenSocket, SocketOpened, SocketStep
<1>2. CASE RunClient(c) /\ ~PortFree(c, GroupPort)
  <2>1. /\ ClientOpenFails(c) /\ UNCHANGED <<server_pc, monitor_pc, sock>>
        /\ client_pc[c] \notin {"select", "write"}
    BY <1>2 DEF RunClient, ClientOpenFails, server_vars, socket_vars
  <2>2. ControlTypeOK' /\ Up' = Up \ {c}
    BY <2>1, ClientMoves DEF ClientOpenFails
  <2>3. c \notin Up
    BY <2>1, MultisyncAssumption DEF Up, RunningServers, RunningClients, RunningMonitors
  <2> QED
    BY <2>1, <2>2, <2>3 DEF SocketKept, SocketStep
<1>3. ASSUME NEW pc \in {"select", "write"}, client_pc[c] \in {"select", "write"},
             client_pc' = [client_pc EXCEPT ![c] = pc],
             UNCHANGED <<server_pc, monitor_pc, sock>>
      PROVE  ControlTypeOK' /\ SocketStep
  <2>1. ControlTypeOK' /\ Up' = Up \cup {c}
    BY <1>3, ClientMoves
  <2>2. c \in Up
    BY <1>3 DEF Up, RunningClients
  <2> QED
    BY <1>3, <2>1, <2>2 DEF SocketKept, SocketStep
<1>4. ASSUME ClientGone(c), CloseSocket(c), UNCHANGED <<server_pc, monitor_pc>>
      PROVE  ControlTypeOK' /\ SocketStep
  <2>1. ControlTypeOK' /\ Up' = Up \ {c}
    BY <1>4, ClientMoves DEF ClientGone
  <2> QED
    BY <1>0, <1>4, <2>1 DEF CloseSocket, SocketClosed, SocketStep
<1>5. ASSUME NEW both \in BOOLEAN, ClientReceives(c, both) PROVE ControlTypeOK' /\ SocketStep
  BY <1>3, <1>5 DEF ClientReceives, ClientRead, Receive, server_vars
<1>6. CASE ClientDies(c)
  BY <1>4, <1>6 DEF ClientDies, ClientKilled, server_vars
<1>7. CASE ClientSends(c)
  BY <1>3, <1>7 DEF ClientSends, ClientWrite, Send, server_vars
<1>8. CASE ClientCrashes(c)
  BY <1>4, <1>8 DEF ClientCrashes, ClientFail, server_vars
<1> QED
  BY <1>1, <1>2, <1>5, <1>6, <1>7, <1>8 DEF ClientWorks

LEMMA MonitorSocketStep ==
  ASSUME ControlTypeOK, NEW l \in Monitors, RunMonitor(l) \/ MonitorWorks(l) \/ MonitorGone(l)
  PROVE  ControlTypeOK' /\ SocketStep
<1>0. l \in Processes
  BY MultisyncAssumption
<1>1. CASE RunMonitor(l) /\ PortFree(l, GroupPort)
  <2>1. /\ OpenSocket(l, GroupPort) /\ monitor_pc' = [monitor_pc EXCEPT ![l] = "listen"]
        /\ UNCHANGED <<server_pc, client_pc>>
    BY <1>1 DEF RunMonitor, server_vars, client_vars
  <2>2. ControlTypeOK' /\ Up' = Up \cup {l}
    BY <2>1, MonitorMoves
  <2> QED
    BY <1>0, <2>1, <2>2, PortsNumbers DEF OpenSocket, SocketOpened, SocketStep
<1>2. CASE RunMonitor(l) /\ ~PortFree(l, GroupPort)
  <2>1. /\ monitor_pc' = [monitor_pc EXCEPT ![l] = "failed"] /\ monitor_pc[l] # "listen"
        /\ UNCHANGED <<server_pc, client_pc, sock>>
    BY <1>2 DEF RunMonitor, server_vars, client_vars, socket_vars
  <2>2. ControlTypeOK' /\ Up' = Up \ {l}
    BY <2>1, MonitorMoves
  <2>3. l \notin Up
    BY <2>1, MultisyncAssumption DEF Up, RunningServers, RunningClients, RunningMonitors
  <2> QED
    BY <2>1, <2>2, <2>3 DEF SocketKept, SocketStep
<1>3. CASE MonitorReceives(l)
  BY <1>3, NobodyMoves DEF MonitorReceives, Receive, SocketKept, SocketStep, server_vars, client_vars
<1>4. CASE MonitorGone(l)
  <2>1. ControlTypeOK' /\ Up' = Up \ {l}
    BY <1>4, MonitorMoves DEF MonitorGone, server_vars, client_vars
  <2> QED
    BY <1>0, <1>4, <2>1 DEF MonitorGone, CloseSocket, SocketClosed, SocketStep
<1> QED
  BY <1>1, <1>2, <1>3, <1>4 DEF MonitorWorks, MonitorDies

LEMMA SocketSteps ==
  ASSUME ControlTypeOK, [MultisyncNext]_vars
  PROVE  ControlTypeOK' /\ SocketStep
<1>1. CASE UNCHANGED vars
  BY <1>1, NobodyMoves
  DEF vars, server_vars, client_vars, socket_vars, SocketKept, SocketStep
<1>2. CASE OthersSend
  BY <1>2, NobodyMoves DEF OthersSend, Send, server_vars, client_vars, SocketKept, SocketStep
<1> QED
  BY <1>1, <1>2, ServerSocketStep, ClientSocketStep, MonitorSocketStep DEF MultisyncNext

-----------------------------------------------------------------------------
(* The inductive invariant of SocketsOwned.                                *)
PortsApart ==
  \A p, q \in Processes :
    p # q /\ Machine[p] = Machine[q] /\ sock[p] # Closed => sock[p] # sock[q]

SocketsSound ==
  /\ ControlTypeOK
  /\ sock \in [Processes -> Nat]
  /\ Up = {p \in Processes : sock[p] # Closed}
  /\ PortsApart

LEMMA SocketsSoundStep ==
  ASSUME SocketsSound, [MultisyncNext]_vars
  PROVE  SocketsSound'
<1> USE DEF SocketsSound
<1>1. ControlTypeOK' /\ SocketStep
  BY SocketSteps
<1>2. CASE SocketKept
  BY <1>1, <1>2 DEF SocketKept, PortsApart
<1>3. ASSUME NEW p \in Processes, NEW port \in Nat, SocketOpened(p, port) PROVE SocketsSound'
  <2>1. \A q \in Processes : sock'[q] = IF q = p THEN port ELSE sock[q]
    BY <1>3 DEF SocketOpened
  <2>2. sock' \in [Processes -> Nat]
    BY <1>3 DEF SocketOpened
  <2>3. Up' = {q \in Processes : sock'[q] # Closed}
    BY <1>3, <2>1 DEF SocketOpened
  <2>4. PortsApart'
    BY <1>3, <2>1 DEF SocketOpened, PortsApart, PortFree
  <2> QED
    BY <1>1, <2>2, <2>3, <2>4
<1>4. ASSUME NEW p \in Processes, SocketClosed(p) PROVE SocketsSound'
  <2>1. \A q \in Processes : sock'[q] = IF q = p THEN Closed ELSE sock[q]
    BY <1>4 DEF SocketClosed
  <2>2. sock' \in [Processes -> Nat]
    BY <1>4 DEF SocketClosed, Closed
  <2>3. Up' = {q \in Processes : sock'[q] # Closed}
    BY <1>4, <2>1 DEF SocketClosed
  <2>4. PortsApart'
    BY <2>1 DEF PortsApart
  <2> QED
    BY <1>1, <2>2, <2>3, <2>4
<1> QED
  BY <1>1, <1>2, <1>3, <1>4 DEF SocketStep

LEMMA SocketsSoundInit == MultisyncInit => SocketsSound
BY MultisyncAssumption
DEF MultisyncInit, ServerInit, ClientInit, SocketInit, SocketsSound, ControlTypeOK, Up,
    RunningServers, RunningClients, RunningMonitors, Running, PortsApart, Closed

(* A process runs exactly while it has a socket, and no two of a machine   *)
(* ever share a port, whoever starts, ends or dies in whatever order.      *)
THEOREM ProcessesOwnSockets == MultisyncSpec => []SocketsOwned
<1>1. SocketsSound => SocketsOwned
  <2> SUFFICES ASSUME SocketsSound PROVE SocketsOwned
    OBVIOUS
  <2>1. \A p \in Processes : p \in Up <=> sock[p] # Closed
    BY DEF SocketsSound
  <2>2. \A s \in Servers : s \in Up <=> server_pc[s] \in Running
    BY MultisyncAssumption DEF Up, RunningServers, RunningClients, RunningMonitors
  <2>3. \A c \in Clients : c \in Up <=> client_pc[c] \in {"select", "write"}
    BY MultisyncAssumption DEF Up, RunningServers, RunningClients, RunningMonitors
  <2>4. \A l \in Monitors : l \in Up <=> monitor_pc[l] = "listen"
    BY MultisyncAssumption DEF Up, RunningServers, RunningClients, RunningMonitors
  <2> QED
    BY <2>1, <2>2, <2>3, <2>4, MultisyncAssumption DEF SocketsOwned, SocketsSound, PortsApart
<1> QED
  BY <1>1, SocketsSoundInit, SocketsSoundStep, PTL DEF MultisyncSpec

-----------------------------------------------------------------------------
(* The inductive invariant of ServersHearNobody: no server has the group's *)
(* port, so nothing is ever put into its buffer.                           *)
HearsNothing(s) == sock[s] # GroupPort /\ rx[s] = <<>> /\ host_info[s] = {}

Unheard ==
  /\ DOMAIN sock = Processes /\ DOMAIN rx = Processes /\ DOMAIN host_info = Servers
  /\ \A s \in Servers : HearsNothing(s)

LEMMA UnheardServer ==
  ASSUME Unheard, GroupPort \notin EphemeralPorts, NEW s \in Servers,
         RunServer(s) \/ ServerWorks(s) \/ ServerCrashes(s)
  PROVE  Unheard'
<1>0. s \in Processes /\ GroupPort # Closed /\ Servers \subseteq Processes
  BY MultisyncAssumption, PortsNumbers
<1>1. Arriving(s) = {}
  BY DEF Unheard, HearsNothing, Arriving, NextIn
<1>2. CASE RunServer(s)
  BY <1>0, <1>2 DEF Unheard, HearsNothing, RunServer, ServerStart, OpenSocket
<1>3. CASE ServerTurns(s)
  BY <1>3 DEF Unheard, HearsNothing, ServerTurns, EnqueueBlock, ServerDrain, socket_vars
<1>4. CASE ServerReturns(s) \/ ServerCrashes(s)
  BY <1>0, <1>4
  DEF Unheard, HearsNothing, ServerReturns, ServerFinish, ServerCrashes, ServerFail, ServerGone, CloseSocket
<1>5. CASE ServerSends(s)
  BY <1>0, <1>5 DEF Unheard, HearsNothing, ServerSends, ServerWrite, Send, Listeners
<1> QED
  BY <1>1, <1>2, <1>3, <1>4, <1>5 DEF ServerWorks, ServerReceives, ServerDies

LEMMA UnheardStep ==
  ASSUME Unheard, GroupPort \notin EphemeralPorts, [MultisyncNext]_vars
  PROVE  Unheard'
<1>0. Servers \subseteq Processes
  BY MultisyncAssumption
<1>1. ASSUME NEW p \in Processes \ Servers, UNCHANGED server_vars,
             \/ UNCHANGED socket_vars
             \/ OpenSocket(p, GroupPort)
             \/ CloseSocket(p)
             \/ \E m : Receive(p, m)
      PROVE  Unheard'
  BY <1>0, <1>1
  DEF Unheard, HearsNothing, OpenSocket, CloseSocket, Receive, server_vars, socket_vars
<1>2. ASSUME NEW m, Send(m), UNCHANGED server_vars PROVE Unheard'
  BY <1>0, <1>2 DEF Unheard, HearsNothing, Send, Listeners, server_vars
<1>3. ASSUME NEW c \in Clients, RunClient(c) \/ ClientWorks(c) \/ ClientCrashes(c)
      PROVE  Unheard'
  BY <1>1, <1>2, <1>3, MultisyncAssumption
  DEF RunClient, ClientWorks, ClientReceives, ClientDies, ClientSends, ClientCrashes
<1>4. ASSUME NEW l \in Monitors, RunMonitor(l) \/ MonitorWorks(l) \/ MonitorGone(l)
      PROVE  Unheard'
  BY <1>1, <1>4, MultisyncAssumption
  DEF RunMonitor, MonitorWorks, MonitorReceives, MonitorDies, MonitorGone
<1>5. CASE OthersSend
  BY <1>2, <1>5 DEF OthersSend
<1>6. CASE UNCHANGED vars
  BY <1>6 DEF Unheard, HearsNothing, vars, server_vars, socket_vars
<1> QED
  BY <1>3, <1>4, <1>5, <1>6, UnheardServer DEF MultisyncNext

(* A server whose port is not the group's never hears of a client, however *)
(* often either is run again and whatever other programs send: host_info   *)
(* stays empty and the four handlers never run.                            *)
THEOREM ServersAreDeaf == MultisyncSpec => []ServersHearNobody
<1>1. CASE GroupPort \in EphemeralPorts
  <2>1. ServersHearNobody
    BY <1>1 DEF ServersHearNobody
  <2> QED
    BY <2>1, PTL
<1>2. CASE GroupPort \notin EphemeralPorts
  <2>1. MultisyncInit => Unheard
    BY MultisyncAssumption, PortsNumbers
    DEF MultisyncInit, ServerInit, SocketInit, Unheard, HearsNothing
  <2>2. Unheard /\ [MultisyncNext]_vars => Unheard'
    BY <1>2, UnheardStep
  <2>3. Unheard => ServersHearNobody
    BY DEF Unheard, HearsNothing, ServersHearNobody
  <2> QED
    BY <2>1, <2>2, <2>3, PTL DEF MultisyncSpec
<1> QED
  BY <1>1, <1>2

-----------------------------------------------------------------------------
(* What is under way when every server can serve its file: announcements   *)
(* of files on offer, or ones that nobody can read, and blocks with their  *)
(* own bytes.                                                              *)
Harmless == Deliverable(ServerOffers)

NetworkSound == rx \in [Processes -> Seq(Harmless)]

(* What a server has to say: its announcement and its blocks; the source   *)
(* file of this module does not change, so that all of them are genuine.   *)
SourcesIntact == intact = [s \in Servers |-> ServerCount(s)]

SpeaksForItself(s) ==
  \A i \in Queued(s) : server_queue[s][i].type = "BLOCK" \/ server_queue[s][i] = ServerInfo(s)

ServersSound ==
  /\ ServerTypeOK
  /\ SourcesIntact
  /\ \A s \in Servers : QueueSound(s) /\ ServesGenuine(s) /\ SpeaksForItself(s)

ClientsSound == ClientStatusesSound(ServerOffers) /\ DiskSound /\ ProcessTypeOK

ProgramSound == NetworkSound /\ ServersSound /\ ClientsSound

LEMMA HarmlessDatagram == Harmless \subseteq Datagram
BY DEF Harmless, Deliverable, GenuineDatagram

LEMMA GreetingHarmless == Greeting \subseteq Harmless
BY DEF Greeting, Harmless, Deliverable, GenuineDatagram, Genuine

LEMMA InfoHarmless ==
  ASSUME NEW s \in Servers
  PROVE  ServerInfo(s) \in Harmless
<1>1. SourceOf(s) \in Files /\ Dest[s] \in Paths
  BY BlockServerAssumption DEF SourceOf
<1>2. ServerInfo(s) \in Datagram
  BY <1>1 DEF ServerInfo, InfoMsg, Datagram
<1>3. <<SourceOf(s), Dest[s]>> \in ServerOffers
  BY DEF ServerOffers
<1> QED
  BY <1>2, <1>3 DEF ServerInfo, InfoMsg, Harmless, Deliverable, GenuineDatagram, Genuine

(* Everything in a server's queue may be sent.                             *)
LEMMA QueueHarmless ==
  ASSUME ServersSound, \A s \in Servers : Servable(s), NEW s \in Servers, NEW i \in Queued(s)
  PROVE  server_queue[s][i] \in Harmless
<1> DEFINE m == server_queue[s][i]
<1>1. m \in Datagram
  <2>1. server_queue[s] \in Seq(Datagram)
    BY DEF ServersSound, ServerTypeOK
  <2> QED
    BY <2>1 DEF Queued
<1>2. CASE m = ServerInfo(s)
  BY <1>2, InfoHarmless
<1>3. CASE m.type = "BLOCK"
  <2>1. BlockQueued(s, i)
    BY <1>3 DEF BlockQueued
  <2>2. m.block \in Nat /\ m.block < next_block[s]
    BY <1>1, <1>3, <2>1 DEF ServersSound, QueueSound, Datagram
  <2>3. next_block[s] \in Nat /\ next_block[s] <= ServerCount(s) /\ ServerCount(s) \in Nat
    BY BlockServerAssumption, BlockCountType
    DEF ServersSound, ServerTypeOK, ServerCount, SourceOf
  <2>4. intact[s] = ServerCount(s)
    BY DEF ServersSound, SourcesIntact
  <2>5. m.block < intact[s]
    BY <2>2, <2>3, <2>4
  <2>6. Genuine(m)
    BY <2>1, <2>5 DEF ServersSound, ServesGenuine, QueueGenuine
  <2> QED
    BY <1>1, <1>3, <2>6 DEF Harmless, Deliverable, GenuineDatagram
<1> QED
  BY <1>2, <1>3 DEF ServersSound, SpeaksForItself

-----------------------------------------------------------------------------
(* Each step of the program is one of the servers' and one of the          *)
(* clients', or leaves them alone, with the datagrams of the network.      *)
LEMMA ArrivingHarmless ==
  ASSUME NetworkSound, NEW p \in Processes, NEW m \in Arriving(p)
  PROVE  m \in Harmless
<1>1. rx[p] \in Seq(Harmless)
  BY DEF NetworkSound
<1>2. PICK i \in DOMAIN rx[p] : m = rx[p][i]
  BY DEF Arriving, NextIn
<1> QED
  BY <1>1, <1>2

LEMMA ServersStep ==
  ASSUME NetworkSound, [MultisyncNext]_vars
  PROVE  [ServerNext(Harmless)]_server_vars
<1>1. ASSUME NEW s \in Servers, RunServer(s) \/ ServerWorks(s) \/ ServerCrashes(s)
      PROVE  ServerStep(s, Harmless) \/ ServerFail(s)
  <2>1. s \in Processes
    BY MultisyncAssumption
  <2>2. ASSUME NEW both \in BOOLEAN, ServerReceives(s, both) PROVE ServerStep(s, Harmless)
    BY <2>1, <2>2, ArrivingHarmless DEF ServerReceives, ServerStep
  <2>3. CASE ServerDies(s)
    BY <2>1, <2>3, ArrivingHarmless DEF ServerDies, ServerStep
  <2> QED
    BY <1>1, <2>2, <2>3
    DEF RunServer, ServerWorks, ServerTurns, ServerReturns, ServerSends, ServerCrashes,
        ServerStep, ServerLoop
<1>2. ASSUME NEW c \in Clients, RunClient(c) \/ ClientWorks(c) \/ ClientCrashes(c)
      PROVE  UNCHANGED server_vars
  BY <1>2 DEF RunClient, ClientWorks, ClientReceives, ClientDies, ClientSends, ClientCrashes
<1>3. ASSUME NEW l \in Monitors, RunMonitor(l) \/ MonitorWorks(l) \/ MonitorGone(l)
      PROVE  UNCHANGED server_vars
  BY <1>3 DEF RunMonitor, MonitorWorks, MonitorReceives, MonitorDies, MonitorGone
<1> QED
  BY <1>1, <1>2, <1>3 DEF MultisyncNext, OthersSend, ServerNext, vars

LEMMA ClientsStep ==
  ASSUME NetworkSound, [MultisyncNext]_vars
  PROVE  [ClientNext(Harmless)]_client_vars
<1>1. ASSUME NEW c \in Clients, RunClient(c) \/ ClientWorks(c) \/ ClientCrashes(c)
      PROVE  ClientStep(c, Harmless) \/ ClientFail(c)
  <2>1. c \in Processes
    BY MultisyncAssumption
  <2>2. ASSUME NEW both \in BOOLEAN, ClientReceives(c, both) PROVE ClientStep(c, Harmless)
    BY <2>1, <2>2, ArrivingHarmless DEF ClientReceives, ClientStep
  <2>3. CASE ClientDies(c)
    BY <2>1, <2>3, ArrivingHarmless DEF ClientDies, ClientStep
  <2> QED
    BY <1>1, <2>2, <2>3 DEF RunClient, ClientWorks, ClientSends, ClientCrashes, ClientStep
<1>2. ASSUME NEW s \in Servers, RunServer(s) \/ ServerWorks(s) \/ ServerCrashes(s)
      PROVE  UNCHANGED client_vars
  BY <1>2
  DEF RunServer, ServerWorks, ServerTurns, ServerReturns, ServerReceives, ServerDies,
      ServerSends, ServerCrashes
<1>3. ASSUME NEW l \in Monitors, RunMonitor(l) \/ MonitorWorks(l) \/ MonitorGone(l)
      PROVE  UNCHANGED client_vars
  BY <1>3 DEF RunMonitor, MonitorWorks, MonitorReceives, MonitorDies, MonitorGone
<1> QED
  BY <1>1, <1>2, <1>3 DEF MultisyncNext, OthersSend, ClientNext, vars

-----------------------------------------------------------------------------
(* The network keeps what it is given.                                     *)
LEMMA RemoveAtType ==
  ASSUME NEW S, NEW q \in Seq(S), NEW i \in DOMAIN q
  PROVE  RemoveAt(q, i) \in Seq(S)
<1>1. SubSeq(q, 1, i - 1) \in Seq(S) /\ SubSeq(q, i + 1, Len(q)) \in Seq(S)
  OBVIOUS
<1> QED
  BY <1>1 DEF RemoveAt

LEMMA SendSound ==
  ASSUME NetworkSound, NEW m \in Harmless, Send(m)
  PROVE  NetworkSound'
<1>1. PICK R \in SUBSET {p \in Listeners : HasSpace(p)} :
        rx' = [p \in Processes |-> IF p \in R THEN Append(rx[p], m) ELSE rx[p]]
  BY DEF Send
<1>2. \A p \in Processes : rx[p] \in Seq(Harmless) /\ Append(rx[p], m) \in Seq(Harmless)
  BY DEF NetworkSound
<1> QED
  BY <1>1, <1>2 DEF NetworkSound, Harmless, Deliverable

LEMMA ReceiveSound ==
  ASSUME NetworkSound, NEW p \in Processes, NEW m, Receive(p, m)
  PROVE  NetworkSound'
<1>1. \A i \in DOMAIN rx[p] : RemoveAt(rx[p], i) \in Seq(Harmless)
  BY RemoveAtType DEF NetworkSound
<1> QED
  BY <1>1 DEF NetworkSound, Receive, NextIn

LEMMA CloseSound ==
  ASSUME NetworkSound, NEW p \in Processes, CloseSocket(p)
  PROVE  NetworkSound'
BY DEF NetworkSound, CloseSocket

LEMMA NetworkSoundStep ==
  ASSUME ProgramSound, \A s \in Servers : Servable(s), OtherTraffic \subseteq Harmless,
         [MultisyncNext]_vars
  PROVE  NetworkSound'
<1>0. NetworkSound
  BY DEF ProgramSound
<1>1. CASE UNCHANGED rx
  BY <1>0, <1>1 DEF NetworkSound
<1>2. ASSUME NEW s \in Servers, RunServer(s) \/ ServerWorks(s) \/ ServerCrashes(s)
      PROVE  NetworkSound'
  <2>1. s \in Processes
    BY MultisyncAssumption
  <2>2. CASE ServerSends(s)
    <3>1. server_queue[s] \in Seq(Datagram) /\ server_queue[s] # <<>>
      BY <2>2 DEF ProgramSound, ServersSound, ServerTypeOK, ServerSends, ServerWrite, PollWrite
    <3>2. 1 \in Queued(s) /\ Head(server_queue[s]) = server_queue[s][1]
      BY <3>1 DEF Queued
    <3>3. Head(server_queue[s]) \in Harmless
      BY <3>2, QueueHarmless DEF ProgramSound
    <3> QED
      BY <1>0, <2>2, <3>3, SendSound DEF ServerSends
  <2> QED
    BY <1>0, <1>1, <1>2, <2>1, <2>2, CloseSound, ReceiveSound
    DEF RunServer, OpenSocket, ServerWorks, ServerTurns, ServerReturns, ServerReceives,
        ServerDies, ServerCrashes, socket_vars
<1>3. ASSUME NEW c \in Clients, RunClient(c) \/ ClientWorks(c) \/ ClientCrashes(c)
      PROVE  NetworkSound'
  <2>1. c \in Processes
    BY MultisyncAssumption
  <2>2. CASE ClientSends(c)
    <3>1. client_queue[c] \in Seq(Greeting) /\ client_queue[c] # <<>>
      BY <2>2 DEF ProgramSound, ClientsSound, ProcessTypeOK, ClientSends, ClientWrite
    <3>2. Head(client_queue[c]) \in Harmless
      BY <3>1, GreetingHarmless
    <3> QED
      BY <1>0, <2>2, <3>2, SendSound DEF ClientSends
  <2> QED
    BY <1>0, <1>1, <1>3, <2>1, <2>2, CloseSound, ReceiveSound
    DEF RunClient, OpenSocket, ClientWorks, ClientReceives, ClientDies, ClientCrashes, socket_vars
<1>4. ASSUME NEW l \in Monitors, RunMonitor(l) \/ MonitorWorks(l) \/ MonitorGone(l)
      PROVE  NetworkSound'
  <2>1. l \in Processes
    BY MultisyncAssumption
  <2> QED
    BY <1>0, <1>1, <1>4, <2>1, CloseSound, ReceiveSound
    DEF RunMonitor, OpenSocket, MonitorWorks, MonitorReceives, MonitorDies, MonitorGone, socket_vars
<1>5. CASE OthersSend
  BY <1>0, <1>5, SendSound DEF OthersSend
<1> QED
  BY <1>1, <1>2, <1>3, <1>4, <1>5 DEF MultisyncNext, vars, socket_vars

-----------------------------------------------------------------------------
LEMMA SourcesIntactStep ==
  ASSUME SourcesIntact, [MultisyncNext]_vars
  PROVE  SourcesIntact'
<1>1. CASE UNCHANGED intact
  BY <1>1 DEF SourcesIntact, ServerCount, SourceOf
<1>2. ASSUME NEW s \in Servers, intact' = [intact EXCEPT ![s] = ServerCount(s)]
      PROVE  SourcesIntact'
  BY <1>2 DEF SourcesIntact, ServerCount, SourceOf
<1>3. ASSUME NEW s \in Servers, RunServer(s) \/ ServerWorks(s) \/ ServerCrashes(s)
      PROVE  SourcesIntact'
  BY <1>1, <1>2, <1>3
  DEF RunServer, ServerStart, ServerWorks, ServerTurns, EnqueueBlock, ServerDrain, ServerReturns,
      ServerFinish, ServerReceives, ServerRead, ServerDies, ServerKilled, ServerSends, ServerWrite,
      ServerCrashes, ServerFail, ServerGone, source_vars
<1>4. ASSUME NEW c \in Clients, RunClient(c) \/ ClientWorks(c) \/ ClientCrashes(c)
      PROVE  UNCHANGED intact
  BY <1>4
  DEF RunClient, ClientWorks, ClientReceives, ClientDies, ClientSends, ClientCrashes, server_vars
<1>5. ASSUME NEW l \in Monitors, RunMonitor(l) \/ MonitorWorks(l) \/ MonitorGone(l)
      PROVE  UNCHANGED intact
  BY <1>5 DEF RunMonitor, MonitorWorks, MonitorReceives, MonitorDies, MonitorGone, server_vars
<1> QED
  BY <1>1, <1>3, <1>4, <1>5 DEF MultisyncNext, OthersSend, vars, server_vars

LEMMA SpeaksForItselfStep ==
  ASSUME ServerTypeOK, [ServerNext(Harmless)]_server_vars, NEW s \in Servers, SpeaksForItself(s)
  PROVE  SpeaksForItself(s)'
<1> DEFINE q == server_queue[s]
           Speech(m) == m.type = "BLOCK" \/ m = ServerInfo(s)
<1>0. q \in Seq(Datagram) /\ \A i \in DOMAIN q : Speech(q[i])
  BY DEF ServerTypeOK, SpeaksForItself, Queued
<1>1. SUFFICES \A i \in DOMAIN q' : Speech(q'[i])
  BY DEF SpeaksForItself, Queued, ServerInfo, SourceOf
<1>2. CASE Unmoved(s) \/ Emptied(s)
  BY <1>0, <1>2 DEF Unmoved, Emptied
<1>3. ASSUME NEW m, Speech(m), q' = Append(q, m) PROVE \A i \in DOMAIN q' : Speech(q'[i])
  <2> HIDE DEF q, Speech
  <2> QED
    BY <1>0, <1>3, AppendFacts
<1>4. CASE Announced(s)
  BY <1>3, <1>4 DEF Announced
<1>5. CASE BlockAdded(s)
  BY <1>3, <1>5 DEF BlockAdded, BlockAt, BlockMsg
<1>6. CASE Sent(s)
  BY <1>0, <1>6, TailFacts DEF Sent
<1> QED
  BY <1>2, <1>4, <1>5, <1>6, QueueSteps, HarmlessDatagram

LEMMA ServersSoundStep ==
  ASSUME ProgramSound, [MultisyncNext]_vars
  PROVE  ServersSound'
<1>1. /\ Harmless \in SUBSET Datagram
      /\ [ServerNext(Harmless)]_server_vars
      /\ ServersSound
  BY HarmlessDatagram, ServersStep DEF ProgramSound
<1>2. ServerTypeOK /\ ServerTypeOK'
  BY <1>1, TypeStep DEF ServersSound
<1>3. SourcesIntact'
  BY <1>1, SourcesIntactStep DEF ServersSound
<1>4. \A s \in Servers : QueueSound(s)'
  BY <1>1, <1>2, QueueSoundStep DEF ServersSound
<1>5. \A s \in Servers : ServesGenuine(s)'
  BY <1>1, <1>2, ServesGenuineStep DEF ServersSound
<1>6. \A s \in Servers : SpeaksForItself(s)'
  BY <1>1, <1>2, SpeaksForItselfStep DEF ServersSound
<1> QED
  BY <1>2, <1>3, <1>4, <1>5, <1>6 DEF ServersSound

LEMMA ClientsSoundStep ==
  ASSUME ProgramSound, [MultisyncNext]_vars
  PROVE  ClientsSound'
<1>1. /\ Harmless \in SUBSET Deliverable(ServerOffers)
      /\ Harmless \in SUBSET GenuineDatagram
      /\ [ClientNext(Harmless)]_client_vars
      /\ ClientsSound
  BY DeliverableGenuine, ClientsStep DEF ProgramSound, Harmless
<1>2. ClientStatusesSound(ServerOffers)'
  BY <1>1, ClientStatusesStep DEF ClientsSound
<1>3. DiskSound'
  BY <1>1, DiskSoundStep DEF ClientsSound
<1>4. ProcessTypeOK'
  BY <1>1, ProcessTypeStep DEF ClientsSound
<1> QED
  BY <1>2, <1>3, <1>4 DEF ClientsSound

LEMMA ProgramSoundStep ==
  ASSUME ProgramSound, \A s \in Servers : Servable(s), OtherTraffic \subseteq Harmless,
         [MultisyncNext]_vars
  PROVE  ProgramSound'
BY NetworkSoundStep, ServersSoundStep, ClientsSoundStep DEF ProgramSound

LEMMA ProgramSoundInit == MultisyncInit => ProgramSound
<1> SUFFICES ASSUME MultisyncInit PROVE ProgramSound
  OBVIOUS
<1>1. ServerInit /\ ClientInit /\ SocketInit
  BY DEF MultisyncInit
<1>2. NetworkSound
  BY <1>1 DEF SocketInit, NetworkSound
<1>3. ServersSound
  <2>1. SourcesIntact /\ \A s \in Servers : QueueSound(s) /\ SpeaksForItself(s)
    BY <1>1 DEF ServerInit, SourcesIntact, QueueSound, SpeaksForItself, Queued
  <2> QED
    BY <1>1, <2>1, TypeInit, ServesGenuineInit DEF ServersSound
<1>4. ClientsSound
  BY <1>1
  DEF ClientInit, ClientsSound, ClientStatusesSound, StatusesSound, Following, DiskSound,
      ProcessTypeOK, Nothing
<1> QED
  BY <1>2, <1>3, <1>4 DEF ProgramSound

(* The program distributes files: on a network that loses, doubles and     *)
(* reorders, with crashes and restarts of every process, whatever others   *)
(* announce that nobody can read, the disks of the clients show complete   *)
(* copies of offered files at the paths they are offered for.              *)
THEOREM ProgramImplementsDelivery ==
  ASSUME ~DiskMayFill, \A s \in Servers : Servable(s),
         OtherTraffic \subseteq Deliverable(ServerOffers)
  PROVE  MultisyncSpec => DeliversWholeFiles
<1>1. MultisyncInit => Distribution!DeliveryInit
  BY DEF MultisyncInit, ClientInit, Distribution!DeliveryInit, Distribution!NoCopies, Nothing
<1>2. ProgramSound /\ [MultisyncNext]_vars => ProgramSound'
  BY ProgramSoundStep DEF Harmless
<1>3. ProgramSound /\ [MultisyncNext]_vars => [Distribution!DeliveryNext]_disk
  <2> SUFFICES ASSUME ProgramSound, [MultisyncNext]_vars, ~DiskKept
               PROVE  Distribution!DeliveryNext
    BY DEF DiskKept
  <2>1. CopyAppears(ServerOffers)
    BY ClientsStep, DiskSteps DEF ProgramSound, ClientsSound, Harmless
  <2>2. PICK c \in Clients, f \in Files, p \in Paths :
          <<f, p>> \in ServerOffers /\ disk' = [disk EXCEPT ![c] = Put(@, p, WholeCopy(f))]
    BY <2>1 DEF CopyAppears
  <2>3. Distribution!Deliver(c, f, p)
    BY <2>2 DEF Distribution!Deliver, Put
  <2> QED
    BY <2>2, <2>3 DEF Distribution!DeliveryNext
<1> QED
  BY <1>1, <1>2, <1>3, ProgramSoundInit, PTL
  DEF MultisyncSpec, DeliversWholeFiles, Distribution!DeliverySpec

-----------------------------------------------------------------------------
(* What the invariants of the composition say of its parts.                *)
LEMMA QueuesPromise ==
  ASSUME ServersSound
  PROVE  BlocksGenuine /\ BlocksInOrder /\ BlocksWithinLimit
BY DEF ServersSound, ServesGenuine, QueueGenuine, QueueSound, BlocksGenuine, BlocksInOrder,
       BlocksWithinLimit

(* The properties of a server and of a client by themselves hold of every  *)
(* server and client of the program, whose datagrams are those that the    *)
(* others send: with blocks lost, doubled and out of order a queue holds   *)
(* genuine blocks in order and within the limit and is not empty when its  *)
(* front is taken, a status counts what it has not got, is closed only     *)
(* when it has everything and does not stay behind when it is complete,    *)
(* and what is installed is whole.                                         *)
THEOREM PartsKeepTheirPromises ==
  ASSUME \A s \in Servers : Servable(s), OtherTraffic \subseteq Deliverable(ServerOffers)
  PROVE  MultisyncSpec =>
           [](/\ BlocksGenuine /\ BlocksInOrder /\ BlocksWithinLimit /\ WriteHasFront
              /\ RemainingCounts /\ ClosedHasAllBlocks /\ NothingCompleteKept
              /\ InstalledIsComplete)
<1> DEFINE Inv == ProgramSound /\ WriteHasFront
<1>1. MultisyncInit => Inv
  BY ProgramSoundInit DEF MultisyncInit, ServerInit, WriteHasFront
<1>2. Inv /\ [MultisyncNext]_vars => Inv'
  <2> SUFFICES ASSUME Inv, [MultisyncNext]_vars PROVE ProgramSound' /\ WriteHasFront'
    OBVIOUS
  <2>1. ProgramSound'
    BY ProgramSoundStep DEF Harmless
  <2>2. WriteHasFront'
    BY ServersStep, WriteHasFrontStep, HarmlessDatagram DEF ProgramSound, ServersSound
  <2> QED
    BY <2>1, <2>2
<1>3. Inv => /\ BlocksGenuine /\ BlocksInOrder /\ BlocksWithinLimit /\ WriteHasFront
             /\ RemainingCounts /\ ClosedHasAllBlocks /\ NothingCompleteKept
             /\ InstalledIsComplete
  BY QueuesPromise, StatusesPromise
  DEF ProgramSound, ClientsSound, DiskSound, InstalledIsComplete
<1> QED
  BY <1>1, <1>2, <1>3, PTL DEF MultisyncSpec

(* In the program, too, only a datagram that registers its sender adds to  *)
(* the work of a server.                                                   *)
THEOREM ProgramNearsItsEnd ==
  ASSUME \A s \in Servers : Servable(s), OtherTraffic \subseteq Deliverable(ServerOffers)
  PROVE  MultisyncSpec => OnlyHostsAddWork
<1>1. ProgramSound /\ [MultisyncNext]_vars => ProgramSound'
  BY ProgramSoundStep DEF Harmless
<1>2. ProgramSound /\ [MultisyncNext]_vars
        => [\A s \in Servers :
              server_pc[s] \in Running /\ server_pc'[s] \in Running /\ host_info'[s] = {}
                => \/ WorkLeft(s)' < WorkLeft(s)
                   \/ UNCHANGED <<next_block[s], server_queue[s]>>]_server_vars
  BY ServersStep, NearerToEndStep, HarmlessDatagram DEF ProgramSound, ServersSound, NearerToEnd
<1> QED
  BY <1>1, <1>2, ProgramSoundInit, PTL DEF MultisyncSpec, OnlyHostsAddWork
=============================================================================
