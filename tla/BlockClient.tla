----------------------------- MODULE BlockClient -----------------------------
(***************************************************************************)
(* The receiving side (blockclient.cpp): each element of Clients is a      *)
(* process, alone on its machine, that registers, collects the blocks of   *)
(* every file it hears of and never returns from start().                  *)
(***************************************************************************)
EXTENDS SyncStatus

CONSTANTS
  Clients,     \* client processes
  HostOf,      \* HostOf[c]: the pid c registers with
  IdGarbage    \* values the member id may have: no constructor sets it

ASSUME BlockClientAssumption == HostOf \in [Clients -> Hosts]

VARIABLES
  client_pc,     \* "idle", "select", "write" or "failed"
  client_id,     \* the member id
  client_queue,  \* message_queue
  sync_set,      \* sync_set[c][f]: the status of the files c is receiving
  disk           \* disk[c][p]: the file at path p of c's machine; survives c

client_vars == <<client_pc, client_id, client_queue, sync_set, disk>>

Nothing == [x \in {} |-> x]

ClientInit ==
  /\ client_pc = [c \in Clients |-> "idle"]
  /\ client_id \in [Clients -> IdGarbage]
  /\ client_queue = [c \in Clients |-> <<>>]
  /\ sync_set = [c \in Clients |-> Nothing]
  /\ disk = [c \in Clients |-> Nothing]

(* The constructor, socket.open() and the registration.                    *)
ClientStart(c) ==
  /\ client_pc[c] \in {"idle", "failed"}
  /\ client_pc' = [client_pc EXCEPT ![c] = "select"]
  /\ client_queue' = [client_queue EXCEPT ![c] = <<ChelloMsg(HostOf[c])>>]
  /\ \E i \in IdGarbage : client_id' = [client_id EXCEPT ![c] = i]
  /\ UNCHANGED <<sync_set, disk>>

(* socket.open() throws: another process of the machine has the port.      *)
ClientOpenFails(c) ==
  /\ client_pc[c] \in {"idle", "failed"}
  /\ client_pc' = [client_pc EXCEPT ![c] = "failed"]
  /\ UNCHANGED <<client_id, client_queue, sync_set, disk>>

-----------------------------------------------------------------------------
(* get_sync_status(): a file not heard of, or forgotten, gets a new status *)
(* whose goodbye_received is whatever the memory holds.                    *)
StatusOf(c, f, goodbye) ==
  IF f \in DOMAIN sync_set[c] THEN sync_set[c][f] ELSE NewStatus(f, goodbye)

Remember(c, f, st) == sync_set' = [sync_set EXCEPT ![c] = Put(@, f, st)]
Forget(c, f) == sync_set' = [sync_set EXCEPT ![c] = Without(@, f)]

Install(c, f, st, flushed) ==
  disk' = [disk EXCEPT ![c] = DiskAfter(@, f, st, flushed)]

BugSettle(c, f, st, flushed) == Remember(c, f, st) /\ UNCHANGED disk

(* The end of handle_info and handle_block: sync_complete() and its        *)
(* effects.                                                                *)
Settle(c, f, st, flushed) ==
  IF SyncComplete(st)
  THEN Forget(c, f) /\ Install(c, f, st, flushed)
  ELSE Remember(c, f, st) /\ UNCHANGED disk

HandleInfo(c, m, goodbye, flushed) ==
  /\ m.type = "INFO"
  /\ Settle(c, m.file, SetPath(StatusOf(c, m.file, goodbye), m.path), flushed)
  /\ UNCHANGED client_queue

HandleBlock(c, m, goodbye, flushed) ==
  /\ m.type = "BLOCK"
  /\ Settle(c, m.file, WriteBlock(StatusOf(c, m.file, goodbye), m.block, m.data), flushed)
  /\ UNCHANGED client_queue

(* The places of the server's list that hold this client's id.             *)
Named(c, m) == {i \in DOMAIN m.clients : m.clients[i] = client_id[c]}

BugHandleSgoodbye(c, m, goodbye, flushed) ==
  LET st == StatusOf(c, m.file, goodbye) IN
  /\ m.type = "SGOODBYE"
  /\ Len(client_queue[c]) + Len(m.clients) <= MaxQueue
  /\ UNCHANGED disk
  /\ client_queue' = [client_queue EXCEPT ![c] =
                       @ \o [i \in 1 .. Cardinality(Named(c, m)) |-> CgoodbyeMsg]]
  /\ IF Named(c, m) # {} THEN Forget(c, m.file) ELSE Remember(c, m.file, st)

(* A list that holds the id twice is answered twice.  MaxQueue bounds the  *)
(* checks.                                                                 *)
HandleSgoodbye(c, m, goodbye, flushed) ==
  LET st == StatusOf(c, m.file, goodbye) IN
  /\ m.type = "SGOODBYE"
  /\ Len(client_queue[c]) + Len(m.clients) <= MaxQueue
  /\ IF TransferComplete(st)
     THEN /\ Install(c, m.file, st, flushed)
          /\ client_queue' = [client_queue EXCEPT ![c] =
                               @ \o [i \in 1 .. Cardinality(Named(c, m)) |-> CgoodbyeMsg]]
          /\ IF st.goodbye_received \/ Named(c, m) # {}
             THEN Forget(c, m.file)
             ELSE Remember(c, m.file, AfterTransfer(st, flushed))
     ELSE Remember(c, m.file, st) /\ UNCHANGED <<disk, client_queue>>

(* Types without an entry in handlers, the client's own datagrams among    *)
(* them.                                                                   *)
ClientIgnores(c, m) ==
  /\ m.type \in {"CHELLO", "GETINFO", "GETBLOCK", "CGOODBYE"}
  /\ UNCHANGED <<client_queue, sync_set, disk>>

ClientHandle(c, m, goodbye, flushed) ==
  \/ HandleInfo(c, m, goodbye, flushed)
  \/ HandleBlock(c, m, goodbye, flushed)
  \/ HandleSgoodbye(c, m, goodbye, flushed)
  \/ ClientIgnores(c, m)

-----------------------------------------------------------------------------
(* The process ends: its statuses are lost, its disk is not.               *)
ClientGone(c) ==
  /\ client_pc' = [client_pc EXCEPT ![c] = "failed"]
  /\ client_queue' = [client_queue EXCEPT ![c] = <<>>]
  /\ sync_set' = [sync_set EXCEPT ![c] = Nothing]
  /\ UNCHANGED <<client_id, disk>>

(* select() found m to read; with both, the socket could be written too    *)
(* and the front of the queue is sent before select() returns.             *)
ClientRead(c, m, both) ==
  /\ client_pc[c] = "select"
  /\ both => client_queue[c] # <<>>
  /\ ~Rejected(m)
  /\ \E goodbye \in GoodbyeGarbage, flushed \in Flushes : ClientHandle(c, m, goodbye, flushed)
  /\ client_pc' = [client_pc EXCEPT ![c] = IF both THEN "write" ELSE "select"]
  /\ UNCHANGED client_id

(* operator>> throws.                                                      *)
ClientKilled(c, m) ==
  /\ client_pc[c] = "select"
  /\ Rejected(m)
  /\ ClientGone(c)

ClientWrite(c) ==
  /\ client_pc[c] \in {"select", "write"} /\ client_queue[c] # <<>>
  /\ client_pc' = [client_pc EXCEPT ![c] = "select"]
  /\ client_queue' = [client_queue EXCEPT ![c] = Tail(@)]
  /\ UNCHANGED <<client_id, sync_set, disk>>

(* An exception (a system call or a write to the temporary file fails) or  *)
(* the user ends the process.                                              *)
ClientFail(c) ==
  /\ client_pc[c] \in {"select", "write"}
  /\ ClientGone(c)

ClientStep(c, heard) ==
  \/ ClientStart(c)
  \/ ClientOpenFails(c)
  \/ \E m \in heard, both \in BOOLEAN : ClientRead(c, m, both)
  \/ \E m \in heard : ClientKilled(c, m)
  \/ ClientWrite(c)

ClientNext(heard) == \E c \in Clients : ClientStep(c, heard) \/ ClientFail(c)

(* Everything a server may announce or send of the files, in any order and *)
(* any number of times; the lists of a goodbye name up to two clients.     *)
Announcements ==
       {InfoMsg(f, p) : f \in Files, p \in Paths}
  \cup (UNION {{BlockMsg(f, b, BlockBytes(f, b)) : b \in Blocks(f)} : f \in Files})

Goodbyes ==
  {SgoodbyeMsg(f, a) : f \in Files, a \in UNION {[1 .. n -> Hosts] : n \in 0 .. 2}}

Heard == Announcements \cup Goodbyes \cup {ChelloMsg(h) : h \in Hosts} \cup {CgoodbyeMsg}

ClientSpec == ClientInit /\ [][ClientNext(Heard)]_client_vars

-----------------------------------------------------------------------------
Following(c) == DOMAIN sync_set[c]

(* Every variable has its type.                                            *)
ClientTypeOK ==
  /\ client_pc \in [Clients -> {"idle", "select", "write", "failed"}]
  /\ client_id \in [Clients -> IdGarbage]
  /\ client_queue \in [Clients -> Seq(Datagram)]
  /\ DOMAIN sync_set = Clients /\ DOMAIN disk = Clients
  /\ \A c \in Clients :
       /\ Following(c) \subseteq Files
       /\ \A f \in Following(c) : sync_set[c][f] \in Status(f)
       /\ DOMAIN disk[c] \subseteq Paths
       /\ \A p \in DOMAIN disk[c] : disk[c][p].file \in Files

(* write_block() 16-25: remaining_blocks counts the FALSE entries of       *)
(* block_array, although blocks come twice and in any order.               *)
RemainingCounts ==
  \A c \in Clients : \A f \in Following(c) :
    LET st == sync_set[c][f] IN
    st.remaining_blocks = Cardinality({b \in Blocks(f) : ~st.block_array[b]})

(* transfer_complete() 40-44: what stands at a path is the whole of a      *)
(* file, also after crashes and restarts of the client, as long as close() *)
(* writes what is buffered.                                                *)
InstalledIsComplete ==
  ~DiskMayFill =>
    \A c \in Clients : \A p \in DOMAIN disk[c] :
      disk[c][p].data = WholeFile(disk[c][p].file)

(* transfer_complete() 42 and write_block() 20: the stream is closed only  *)
(* when no block is missing, so that no block is written to a closed       *)
(* stream, which would throw and end the client.                           *)
ClosedHasAllBlocks ==
  \A c \in Clients : \A f \in Following(c) :
    ~sync_set[c][f].output => \A b \in Blocks(f) : sync_set[c][f].block_array[b]

(* The ends of the handlers (78, 93, 117): a status whose sync is complete *)
(* is erased by the handler that completed it, since no later datagram     *)
(* need ever come.                                                         *)
NothingCompleteKept ==
  \A c \in Clients : \A f \in Following(c) : ~SyncComplete(sync_set[c][f])

(* A running client forgets a file only when it has put it in its place,   *)
(* now or while it followed it (erase() 79, 94, 118).                      *)
ForgottenWhenInstalled ==
  [][\A c \in Clients : \A f \in Following(c) \ DOMAIN sync_set'[c] :
       client_pc'[c] # "failed" =>
         \/ sync_set[c][f].moved
         \/ \E p \in DOMAIN disk'[c] : disk'[c][p].file = f]_client_vars

(* What FileDelivery promises of the machines of the clients, when the     *)
(* network may offer any file for any path.                                *)
WholeCopy(f) == [file |-> f, data |-> WholeFile(f)]

Delivery == INSTANCE FileDelivery WITH
  Machines <- Clients, Offers <- Files \X Paths, Copy <- WholeCopy, copies <- disk

(* transfer_complete(): blocks out of order or twice, goodbyes, crashes    *)
(* and restarts between, a client's disk shows complete copies only, and   *)
(* each appears in one step.                                               *)
InstallsWholeFiles == Delivery!DeliverySpec
=============================================================================
