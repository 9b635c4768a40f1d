----------------------------- MODULE BlockServer -----------------------------
(***************************************************************************)
(* The sending side (blockserver.cpp): each element of Servers is one      *)
(* process that serves one file and exits when nobody is left to serve.    *)
(*                                                                         *)
(* start() announces the file, walks once through its blocks and then      *)
(* stays in select() while a host is registered or a message is unsent.    *)
(* Each turn of either loop makes one call of select(), which handles at   *)
(* most one datagram and then sends at most one.  An exception of any step *)
(* reaches main() and ends the process.                                    *)
(***************************************************************************)
EXTENDS Message

CONSTANTS
  Servers,  \* server processes
  Source,   \* Source[s]: the file s serves
  Dest,     \* Dest[s]: the path s announces for it
  Contents  \* Contents[s]: what may take the place of s's file while it is served

ASSUME BlockServerAssumption ==
  /\ Source \in [Servers -> Files]
  /\ Dest \in [Servers -> Paths]
  /\ Contents \in [Servers -> SUBSET Files]

VARIABLES
  server_pc,     \* where s is: see ServerTypeOK
  next_block,    \* i of the for loop: the blocks below it have had their turn
  server_queue,  \* message_queue
  host_info,     \* the clients that have registered
  input_fail,    \* failbit of the input stream; nothing in the code clears it
  source_now,    \* what the source file holds now
  intact         \* history: the blocks below it had their turn before that changed

server_vars ==
  <<server_pc, next_block, server_queue, host_info, input_fail, source_now, intact>>
source_vars == <<source_now, intact>>

QueueLimit == 5

Running == {"loop", "select", "write"}

SourceOf(s) == Source[s]
ServerCount(s) == BlockCount(SourceOf(s))
ServerInfo(s) == InfoMsg(SourceOf(s), Dest[s])

-----------------------------------------------------------------------------
(* seekg(BLOCKSIZE * i): the product of two unsigned ints wraps.           *)
BugOffset(i) == BlockSize * (i + 1)
Offset(i) == (BlockSize * i) % UIntMod

(* input >> message: a stream that has failed reads nothing, a read that   *)
(* comes short leaves the stream failed.                                   *)
ReadInput(s, i) == IF input_fail[s] THEN NoBytes ELSE ReadFrom(source_now[s], Offset(i))

InputFailsAt(s, i) == input_fail[s] \/ ReadInput(s, i).len < BlockSize

BlockAt(s, i) == BlockMsg(SourceOf(s), i, ReadInput(s, i))

BugEnqueued(s, messages) == messages \o server_queue[s]
Enqueued(s, messages) == server_queue[s] \o messages

BugQueueHasRoom(s) == Len(server_queue[s]) <= QueueLimit
QueueHasRoom(s) == Len(server_queue[s]) < QueueLimit

(* The state of s once its process is gone.  The next run is one of the    *)
(* file as it was.                                                         *)
ServerGone(s, why) ==
  /\ server_pc' = [server_pc EXCEPT ![s] = why]
  /\ server_queue' = [server_queue EXCEPT ![s] = <<>>]
  /\ host_info' = [host_info EXCEPT ![s] = {}]
  /\ next_block' = [next_block EXCEPT ![s] = 0]
  /\ input_fail' = [input_fail EXCEPT ![s] = FALSE]
  /\ source_now' = [source_now EXCEPT ![s] = SourceOf(s)]
  /\ intact' = [intact EXCEPT ![s] = ServerCount(s)]

-----------------------------------------------------------------------------
ServerInit ==
  /\ server_pc = [s \in Servers |-> "idle"]
  /\ server_queue = [s \in Servers |-> <<>>]
  /\ host_info = [s \in Servers |-> {}]
  /\ next_block = [s \in Servers |-> 0]
  /\ input_fail = [s \in Servers |-> FALSE]
  /\ source_now = Source
  /\ intact = [s \in Servers |-> ServerCount(s)]

(* The constructor, socket.open() and the announcement.  A source that     *)
(* does not open leaves its stream failed and stops nothing.               *)
ServerStart(s) ==
  /\ server_pc[s] \notin Running
  /\ server_pc' = [server_pc EXCEPT ![s] = "loop"]
  /\ server_queue' = [server_queue EXCEPT ![s] = <<ServerInfo(s)>>]
  /\ input_fail' = [input_fail EXCEPT ![s] = FileSize[SourceOf(s)] = -1]
  /\ UNCHANGED <<host_info, next_block, source_vars>>

BugBlocksLeft(s) == next_block[s] <= ServerCount(s)
BlocksLeft(s) == next_block[s] < ServerCount(s)

(* One turn of the for loop up to its select(): block i is queued, or      *)
(* passed over for good when QueueLimit messages are waiting.              *)
EnqueueBlock(s) ==
  LET i == next_block[s] IN
  /\ server_pc[s] = "loop" /\ BlocksLeft(s)
  /\ server_pc' = [server_pc EXCEPT ![s] = "select"]
  /\ next_block' = [next_block EXCEPT ![s] = i + 1]
  /\ IF QueueHasRoom(s)
     THEN /\ server_queue' = [server_queue EXCEPT ![s] = Enqueued(s, <<BlockAt(s, i)>>)]
          /\ input_fail' = [input_fail EXCEPT ![s] = InputFailsAt(s, i)]
     ELSE UNCHANGED <<server_queue, input_fail>>
  /\ UNCHANGED <<host_info, source_vars>>

BugServesOn(s) == host_info[s] # {}
ServesOn(s) == host_info[s] # {} \/ server_queue[s] # <<>>

(* One turn of the while loop up to its select().                          *)
ServerDrain(s) ==
  /\ server_pc[s] = "loop" /\ ~BlocksLeft(s) /\ ServesOn(s)
  /\ server_pc' = [server_pc EXCEPT ![s] = "select"]
  /\ UNCHANGED <<next_block, server_queue, host_info, input_fail, source_vars>>

(* start() returns and main() with it.                                     *)
ServerFinish(s) ==
  /\ server_pc[s] = "loop" /\ ~BlocksLeft(s) /\ ~ServesOn(s)
  /\ ServerGone(s, "done")

-----------------------------------------------------------------------------
(* The handlers.  Each says what becomes of the registered hosts and of    *)
(* the queue; KilledBy(m) are the datagrams that operator>> or their       *)
(* handler throws at.                                                      *)
GetblockFits(m) == HasMetadata(m, "HostInfo") /\ HasMetadata(m, "BlockInfo")

KilledBy(m) ==
  \/ Rejected(m)
  \/ m.type \in {"CHELLO", "GETINFO", "CGOODBYE"} /\ ~HasMetadata(m, "HostInfo")
  \/ m.type = "GETBLOCK" /\ ~GetblockFits(m)

BugRegister(s, m) == UNCHANGED host_info
Register(s, m) == host_info' = [host_info EXCEPT ![s] = @ \cup {m.host}]

HandleChello(s, m) ==
  /\ m.type = "CHELLO"
  /\ Register(s, m)
  /\ UNCHANGED <<server_queue, input_fail>>

(* A GETBLOCK that got so far and asks for a block of the file served; no  *)
(* GETBLOCK does, see GetblockFits, and InfoEqual would mistake the file.  *)
AsksForBlock(s, m) ==
  m.type = "GETBLOCK" /\ InfoEqual(InfoOf(m.file), InfoOf(SourceOf(s)))

Answer(s, m) ==
  IF m.type = "GETINFO" THEN <<ServerInfo(s)>>
  ELSE IF AsksForBlock(s, m) THEN <<BlockMsg(m.file, m.block, ReadInput(s, m.block))>>
  ELSE <<>>

(* handle_getinfo and handle_getblock answer at the end of the queue and   *)
(* do not ask for its limit: MaxQueue bounds the checks.                   *)
HandleGet(s, m) ==
  /\ m.type \in {"GETINFO", "GETBLOCK"} /\ Len(server_queue[s]) < MaxQueue
  /\ Register(s, m)
  /\ server_queue' = [server_queue EXCEPT ![s] = Enqueued(s, Answer(s, m))]
  /\ input_fail' = [input_fail EXCEPT ![s] =
                      IF AsksForBlock(s, m) THEN InputFailsAt(s, m.block) ELSE @]

HandleCgoodbye(s, m) ==
  /\ m.type = "CGOODBYE"
  /\ host_info' = [host_info EXCEPT ![s] = @ \ {m.host}]
  /\ UNCHANGED <<server_queue, input_fail>>

(* Types without an entry in handlers: the server's own datagrams and      *)
(* those of other servers.                                                 *)
IgnoreUnknown(s, m) ==
  /\ m.type \in {"INFO", "BLOCK", "SGOODBYE"}
  /\ UNCHANGED <<server_queue, host_info, input_fail>>

Handle(s, m) ==
  \/ HandleChello(s, m)
  \/ HandleGet(s, m)
  \/ HandleCgoodbye(s, m)
  \/ IgnoreUnknown(s, m)

-----------------------------------------------------------------------------
BugPollWrite(s) == TRUE

(* select(timeout, !message_queue.empty()).                                *)
PollWrite(s) == server_queue[s] # <<>>

(* select() found m to read; with both, the socket could be written too    *)
(* and the front of the queue is sent before select() returns.             *)
ServerRead(s, m, both) ==
  /\ server_pc[s] = "select"
  /\ both => PollWrite(s)
  /\ ~KilledBy(m)
  /\ Handle(s, m)
  /\ server_pc' = [server_pc EXCEPT ![s] = IF both THEN "write" ELSE "loop"]
  /\ UNCHANGED <<next_block, source_vars>>

(* operator>> or the handler of m throws.                                  *)
ServerKilled(s, m) ==
  /\ server_pc[s] = "select"
  /\ KilledBy(m)
  /\ ServerGone(s, "failed")

(* The front of the queue is sent: after a read, or because select() found *)
(* the socket writable and nothing to read.                                *)
BugServerWrite(s) ==
  /\ server_pc[s] \in {"select", "write"} /\ PollWrite(s)
  /\ server_pc' = [server_pc EXCEPT ![s] = "loop"]
  /\ UNCHANGED <<next_block, server_queue, host_info, input_fail, source_vars>>

ServerWrite(s) ==
  /\ server_pc[s] \in {"select", "write"} /\ PollWrite(s)
  /\ server_pc' = [server_pc EXCEPT ![s] = "loop"]
  /\ server_queue' = [server_queue EXCEPT ![s] = Tail(@)]
  /\ UNCHANGED <<next_block, host_info, input_fail, source_vars>>

(* A system call of open(), select(), operator>> or operator<< fails, or   *)
(* the process is killed.                                                  *)
ServerFail(s) ==
  /\ server_pc[s] \in Running
  /\ ServerGone(s, "failed")

(* Somebody writes to the source file, or replaces what it holds, between  *)
(* two reads of the server.                                                *)
SourceChanges(s) ==
  /\ server_pc[s] \in Running
  /\ \E f \in Contents[s] \ {source_now[s]} : source_now' = [source_now EXCEPT ![s] = f]
  /\ intact' = [intact EXCEPT ![s] = IF @ < next_block[s] THEN @ ELSE next_block[s]]
  /\ UNCHANGED <<server_pc, next_block, server_queue, host_info, input_fail>>

-----------------------------------------------------------------------------
ServerLoop(s) == EnqueueBlock(s) \/ ServerDrain(s) \/ ServerFinish(s)

(* One step of s when the datagrams that may reach it are those of req.    *)
ServerStep(s, req) ==
  \/ ServerStart(s)
  \/ ServerLoop(s)
  \/ \E m \in req, both \in BOOLEAN : ServerRead(s, m, both)
  \/ \E m \in req : ServerKilled(s, m)
  \/ ServerWrite(s)

ServerNext(req) ==
  \E s \in Servers : ServerStep(s, req) \/ ServerFail(s) \/ SourceChanges(s)

(* Everything a client, another server or another implementation of the    *)
(* protocol may send, the blocks sent and asked for being blocks of the    *)
(* file; the list of a goodbye names up to one client.                     *)
Requests ==
       {ChelloMsg(h) : h \in Hosts} \cup {GetinfoMsg(h) : h \in Hosts}
  \cup {CgoodbyeFrom(h) : h \in Hosts} \cup {CgoodbyeMsg}
  \cup {InfoMsg(f, p) : f \in Files, p \in Paths}
  \cup (UNION {{BlockMsg(f, b, BlockBytes(f, b)) : b \in Blocks(f)} : f \in Files})
  \cup {SgoodbyeMsg(f, a) : f \in Files, a \in UNION {[1 .. n -> Hosts] : n \in 0 .. 1}}
  \cup UNION {{GetblockMsg(k, h, f, b) : k \in {"HostInfo", "BlockInfo"}, h \in Hosts,
                 b \in Blocks(f)} : f \in Files}

ServerSpec == ServerInit /\ [][ServerNext(Requests)]_server_vars

(* The loop runs as long as the process does; a UDP socket is writable     *)
(* again and again, whether or not datagrams keep arriving.                *)
ServerFairness ==
  \A s \in Servers : WF_server_vars(ServerLoop(s)) /\ SF_server_vars(ServerWrite(s))

FairServerSpec == ServerSpec /\ ServerFairness

-----------------------------------------------------------------------------
(* Every variable has its type; next_block never passes the block count.   *)
ServerTypeOK ==
  /\ server_pc \in [Servers -> {"idle", "done", "failed"} \cup Running]
  /\ next_block \in [Servers -> Nat]
  /\ \A s \in Servers : next_block[s] <= ServerCount(s)
  /\ server_queue \in [Servers -> Seq(Datagram)]
  /\ host_info \in [Servers -> SUBSET Hosts]
  /\ input_fail \in [Servers -> BOOLEAN]
  /\ source_now \in [Servers -> Files]
  /\ intact \in [Servers -> Nat]

Queued(s) == DOMAIN server_queue[s]
BlockQueued(s, i) == i \in Queued(s) /\ server_queue[s][i].type = "BLOCK"

(* The file of s opens and the offsets of its blocks are unsigned ints.    *)
Servable(s) ==
  /\ FileSize[SourceOf(s)] >= 0
  /\ BlockSize * ServerCount(s) <= UIntMod
  /\ ServerCount(s) = Quotient(FileSize[SourceOf(s)] + BlockSize - 1)

(* start() 51-62 and handle_getblock(): a BLOCK in the queue is named as a *)
(* block of the file announced, and carries that block's bytes when it was *)
(* read before the file changed, whatever was asked for in between and     *)
(* although the stream fails on a short read.                              *)
BlocksGenuine ==
  \A s \in Servers : Servable(s) =>
    \A i \in Queued(s) : BlockQueued(s, i) =>
      /\ server_queue[s][i].file = SourceOf(s)
      /\ server_queue[s][i].block < intact[s] => Genuine(server_queue[s][i])

(* start() 51: one walk through the file.  The blocks in the queue are     *)
(* ones that had their turn, in the file's order and each at most once.    *)
BlocksInOrder ==
  \A s \in Servers : \A i \in Queued(s) : BlockQueued(s, i) =>
    /\ server_queue[s][i].block < next_block[s]
    /\ \A j \in 1 .. i - 1 : BlockQueued(s, j) =>
         server_queue[s][j].block < server_queue[s][i].block

(* start() 55: answers to clients may make the queue longer than           *)
(* QueueLimit (handle_getinfo() does not ask), the blocks, which are what  *)
(* takes memory, stay within its first QueueLimit places.                  *)
BlocksWithinLimit ==
  \A s \in Servers : \A i \in Queued(s) : BlockQueued(s, i) => i <= QueueLimit

(* select() 79: front() and pop_front() are never called on an empty list, *)
(* which the status BOTH of an earlier poll alone does not say.            *)
WriteHasFront == \A s \in Servers : server_pc[s] = "write" => server_queue[s] # <<>>

(* What a server has yet to do: a turn of the for loop and a send for each *)
(* block left, a send for each message.                                    *)
WorkLeft(s) == 2 * (ServerCount(s) - next_block[s]) + Len(server_queue[s])

(* start() 51-69, handle_getinfo() and handle_getblock(): whatever happens *)
(* to a running server that nobody is registered with brings it nearer to  *)
(* its end: only a datagram that registers its sender may add to its work. *)
OnlyHostsAddWork ==
  [][\A s \in Servers :
       server_pc[s] \in Running /\ server_pc'[s] \in Running /\ host_info'[s] = {}
         => \/ WorkLeft(s)' < WorkLeft(s)
            \/ UNCHANGED <<next_block[s], server_queue[s]>>]_server_vars

(* start() 51-69: a server that nobody has registered with sends what it   *)
(* has and exits, whatever datagrams keep it from its loop in between.     *)
ServerEnds ==
  \A s \in Servers : server_pc[s] \in Running ~>
    server_pc[s] \notin Running \/ host_info[s] # {}
=============================================================================
