------------------------------- MODULE OneRun -------------------------------
(***************************************************************************)
(* The program as it is meant to be used: every process is run once, the   *)
(* servers after the clients have opened their sockets (or found the port  *)
(* taken), and none is killed.                                             *)
(***************************************************************************)
EXTENDS Multisync

EveryoneListens == \A c \in Clients : client_pc[c] # "idle"

ServesOnce(s) == server_pc[s] = "idle" /\ EveryoneListens /\ RunServer(s)
ListensOnce(c) == client_pc[c] = "idle" /\ RunClient(c)
MonitorsOnce(l) == monitor_pc[l] = "idle" /\ RunMonitor(l)

OnceNext ==
  \/ \E s \in Servers : ServesOnce(s) \/ ServerWorks(s)
  \/ \E c \in Clients : ListensOnce(c) \/ ClientWorks(c)
  \/ \E l \in Monitors : MonitorsOnce(l) \/ MonitorWorks(l)

(* A process that can take a step takes one, its first one included.       *)
(* Nobody need start a monitor, and a monitor need not read.               *)
OnceFairness ==
  /\ \A s \in Servers : WF_vars(ServesOnce(s) \/ ServerWorks(s))
  /\ \A c \in Clients : WF_vars(ListensOnce(c) \/ ClientWorks(c))

OnceSpec == MultisyncInit /\ [][OnceNext]_vars /\ OnceFairness

-----------------------------------------------------------------------------
(* Everything the processes say in one run.                                *)
BlockOf(s, b) == BlockMsg(SourceOf(s), b, BlockBytes(SourceOf(s), b))
ServerSays(s) == {ServerInfo(s)} \cup {BlockOf(s, b) : b \in Blocks(SourceOf(s))}

Said == (UNION {ServerSays(s) : s \in Servers}) \cup {ChelloMsg(HostOf[c]) : c \in Clients}

(* A network that loses nothing: nobody else uses it, the servers hear     *)
(* nothing of it (their port is not the group's), and a receive buffer has *)
(* space for all that is said.                                             *)
LosesNothing ==
  /\ ~Unreliable /\ OtherTraffic = {}
  /\ GroupPort \notin EphemeralPorts
  /\ IsFiniteSet(Servers) /\ IsFiniteSet(Clients)
  /\ RxLimit >= Cardinality(Said)
  /\ \A c, d \in Clients : c # d => HostOf[c] # HostOf[d]

(* A client installs what is complete: goodbye_received happens to be true *)
(* and rename() and close() work.                                          *)
Installs ==
  /\ GoodbyeGarbage \subseteq {TRUE}
  /\ ~DiskMayFill
  /\ \A s \in Servers : Dest[s] \notin CrossDevice

(* The files can be served, and no two servers have the same file or path. *)
ServesApart ==
  /\ \A s \in Servers : Servable(s)
  /\ \A s, t \in Servers : s # t => SourceOf(s) # SourceOf(t) /\ Dest[s] # Dest[t]

Has(c, s) ==
  /\ Dest[s] \in DOMAIN disk[c]
  /\ disk[c][Dest[s]] = WholeCopy(SourceOf(s))

(* README.md:3, "UDP multicast file sychronization", and blockserver.hpp   *)
(* :43 of start(), "begins serving the file": every client comes to have   *)
(* every file, unless another process has the group's port of its machine. *)
AllDelivered ==
  []<>(\A c \in Clients, s \in Servers : Has(c, s) \/ ~PortFree(c, GroupPort))

(* start() 67-69, handle_info() and handle_block(): a server returns only  *)
(* when each client has got its file, but for what the client has yet to   *)
(* read: the server has no acknowledgement to wait for, so nothing may be  *)
(* passed over, dropped or left unsent on the way.                         *)
ReturnedWhenDelivered ==
  \A c \in Clients, s \in Servers :
    sock[c] = GroupPort /\ server_pc[s] = "done" /\ rx[c] = <<>> => Has(c, s)
=============================================================================
