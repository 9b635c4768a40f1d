# multisync in TLA+

multisync sends files to a cluster over UDP multicast. One *server* process per
file announces the file and sends its blocks to a multicast group; *client*
processes on the other machines collect the blocks and put the file in its
place. This directory holds TLA+ modules that model both sides, the sockets and
the network between them, TLC configurations that check small instances, and
TLAPS proofs. File names below are relative to the root of the repository, the
sources are in its `src/` and `include/`.

## 1. The system

| component | state it keeps | operations | what makes it correct |
|---|---|---|---|
| `BlockServer` (blockserver.cpp) | the block the walk has come to, `message_queue`, `host_info`, the input stream with its failbit | `start` (announce, one walk through the blocks, then a loop), `select`, `process_message`, `handle_chello`, `handle_getinfo`, `handle_getblock`, `handle_cgoodbye` | blocks carry the bytes they are meant to carry, in order, once; the queue's blocks are bounded; `front()` never meets an empty list; the process ends when it has nobody to serve |
| `BlockClient` (blockclient.cpp) | `sync_set`, `message_queue`, `id`; the disk of its machine outlives it | `start`, `select`, `process_message`, `handle_info`, `handle_block`, `handle_sgoodbye`, `get_sync_status` | whatever arrives, in whatever order, at a path there is only a complete file; a file is forgotten only when it is installed |
| `SyncStatus` (syncstatus.cpp) | `block_array`, `remaining_blocks`, `path`, `goodbye_received`, the temporary file and its stream | `write_block`, `set_path`, `set_goodbye_received`, `transfer_complete`, `sync_complete` | the counter agrees with the array; the stream is closed only when nothing is missing |
| `FileInfo`, `BlockInfo` | digest, number of blocks; block number | constructor, `==`, `<`, `get_block_count`, `++` | `<` orders the keys of a map; the blocks cover the file |
| `Message` (message.cpp/.hpp) | header, one metadata structure, body; the size of the body twice, in the header and in the buffer | constructors, `get_metadata`, `get_text`, `get_array`, `get_length`, stream operators | a receiver takes a structure for what it is; all readers agree on where the body ends, short blocks and cut-off datagrams included |
| `BlockSocket` (blocksocket.cpp) | the socket, the group, the destination | `open`, `close`, `select`, `>>`, `<<` | a process has a socket while it runs; a port of a machine has one owner |
| `HostInfo` | an id | `==`, `<` | a client is registered once |
| `main` (main.cpp) | - | server mode, client mode, listen mode (`Listen()`, a monitor), `catch` | any exception ends the process; what a monitor takes, a client cannot have |
| `MD5` (md5.cpp) | `state`, `count` (two words), `buffer`, `finalized` | constructors, `update`, `finalize` | the digest does not depend on how the input is cut; the length is right beyond one word |
| `Logger` | - | - | not modelled, see section 8 |

How they interact. A client binds port 9000 and queues a CHELLO. A server binds
port 0, that is a port the system chooses, queues an INFO (file, destination)
and then, block by block, BLOCKs. Each turn of a loop calls `select()`, which
handles at most one datagram through the table `handlers` and then sends at most
one queued message. Everything is sent to the group's address and port and is
received by every socket bound to that port, the sender's own included. On the
client every datagram goes to the `SyncStatus` of the file it names, which is
made on demand; a handler that completes a sync installs the file with
`rename()` and erases the status. SGOODBYE (server to client, with a list of
ids) and CGOODBYE are the acknowledgements; GETINFO and GETBLOCK are handled by
the server, but no code sends them, and no code sends SGOODBYE.

What is hard here: the two processes interleave datagram by datagram; datagrams
are lost, doubled and reordered and nothing is sent twice; both sides end and
are run again at any time; two members (`goodbye_received`, `id`) are read and
never set; an input stream that fails once fails for ever; the last steps
(`close`, `rename`) can fail unnoticed; the source file may change while it is
served; a datagram larger than the receiver's buffer ends every process that
hears it. `PROJECT.json` lists the hazards, each
at its line and with the properties that cover it, or with the reason why none
does: mostly that the code has no answer to the hazard.

## 2. The modules

```
FileInfo            files, digests, blocks, bytes            (pure)
  Message           datagrams, their metadata and sizes      (pure)
    Packet          one datagram through two Message objects
    BlockServer     one action per step of a server
    SyncStatus      the status of one file                   (pure)
      BlockClient   one action per step of a client
BlockSocket         ports, the group, the receive buffers
FileDelivery        what distribution promises (abstract)
Multisync           servers + clients + monitors + sockets
  OneRun            the same, run once each, clients first
MD5                 the digest context, stands alone
MCFileInfo, MCBlockServer, MCBlockClient, MCMultisync        instances for TLC
DivisionProofs      facts about \div and %
FileInfoProofs, PacketProofs, BlockServerProofs, BlockClientProofs,
MultisyncProofs, OneRunProofs, MD5Proofs                     proofs, section 6
```

* **FileInfo.** A file is an element of `Files`; its bytes are named by their
  offsets, so a run of bytes is `[at, len]` and two runs are the same data
  exactly when they are equal. `BlockCount`, `InfoEqual`, `InfoLess` are the
  constructor and the comparison operators, with C++ division (a stream that
  did not open has `tellg() = -1`, which counts as one block) and unsigned
  arithmetic modulo `UIntMod`.
* **Message.** A datagram is a record with its type and the kind of metadata it
  carries. `HasMetadata` compares the sizes of the structures, as
  `get_metadata` does. `WireSize` is what goes over the network (the sizes of the
  structures are those of the build), `Capacity` the receiver's buffer, and
  `Rejected` says of which datagrams `operator>>` throws.
* **Packet.** A Message keeps the size of its body in the header's `length` and
  in the size of its buffer. The module follows one datagram through the
  constructor, the read of a block (which shrinks both), `operator<<` with its
  check after `sendto()`, `operator>>` with the truncation to the receiver's
  buffer and its check, and the three readers `get_text`, `operator<<(ostream)`
  and `get_array`. It is the justification of `Rejected` and of taking a
  datagram as one value everywhere else.
* **BlockServer.** `server_pc` says where a process is: `"loop"` (about to test
  the condition of the for or the while loop), `"select"` (waiting in
  `select()`), `"write"` (a datagram was handled and the status was BOTH),
  `"done"`, `"failed"`. `EnqueueBlock` is one turn of the for loop up to its
  `select`, `ServerDrain` one of the while loop, `ServerRead` the handling of a
  datagram, `ServerWrite` the sending of the front of the queue. `input_fail` is
  the stream's failbit. `ServerKilled` is a handler or `operator>>` that throws,
  `ServerFail` any other exception or a kill; a process that is gone may be run
  again. `SourceChanges` replaces what the source file holds, at any time:
  `source_now` is what the reads see, while the announced digest and count stay
  those of the constructor; `intact` is a history variable, the blocks below it
  had their turn before the change.
* **SyncStatus.** A status is a record and an operation returns the record it
  leaves; `transfer_complete()`, which has a value and effects, is
  `TransferComplete`, `AfterTransfer` and `DiskAfter`. `temp` is what the
  temporary file holds at the place of each block, `buffered` the block a
  failing `close()` would lose.
* **BlockClient.** `Settle` is the end of `handle_info` and `handle_block`: when
  `sync_complete()` holds, the file is installed and the status erased in the
  same step. `handle_sgoodbye` calls `transfer_complete()` itself and once more
  through `sync_complete()`. The uninitialised members take any value of
  `IdGarbage` when the client is made and of `GoodbyeGarbage` when a status is.
  `ClientKilled` is `operator>>` that throws. A client that ends loses its
  statuses, not its disk.
* **BlockSocket.** `sock[p]` is the port of p's socket, `rx[p]` its receive
  buffer. `PortFree` is why `bind()` fails: `SO_REUSEADDR` and `SO_REUSEPORT`
  are commented out. `Send` delivers to every socket on the group's port that
  has space, except, when `Unreliable`, to those a datagram is lost for;
  `Receive` takes any datagram (reordering) and may leave it there (doubling).
* **Multisync** joins actions: `ServerSends` is `ServerWrite` with `Send` of the
  front of the queue, `ServerReceives` is `Receive` with `ServerRead`, and the
  end of a process closes its socket. A monitor (`RunMonitor`,
  `MonitorReceives`, `MonitorDies`) is the program run with `listen`: it binds
  the group's port as a client does, takes what comes and sends nothing.
  `OthersSend` puts datagrams of other programs on the network.
* **OneRun** restricts Multisync to the use the program is meant for: every
  process is run once, the servers after the clients, and none is killed.
  `Said` is everything that is said in such a run; `LosesNothing`, `Installs` and
  `ServesApart` are the conditions under which files arrive, `AllDelivered` and
  `ReturnedWhenDelivered` say that they do.
* **FileDelivery** is the abstract specification: `copies[c][p]` changes only by
  a complete copy of a file on offer for p appearing at p. BlockClient
  implements it for everything the network may offer (`InstallsWholeFiles`),
  Multisync for what its servers offer (`DeliversWholeFiles`); both map `copies`
  to `disk`.
* **MD5.** The context that a FileInfo is made with. `Update(n)` is one
  `update()` with the next n bytes, `Finalize` the whole of `finalize()`, which
  pads through two calls of `update()`. `transform()` is uninterpreted: `state`
  is the sequence of the blocks it was given, so that two inputs are digested
  alike exactly when their blocks are equal. `Counted` keeps the two words and
  finds the carry as the code does, from the wrapped sum.

## 3. Properties

Server: `BlocksGenuine` (a queued BLOCK is a block of the file announced and
holds its bytes, for files whose offsets fit into an unsigned int and blocks read
before the file changed), `BlocksInOrder`, `BlocksWithinLimit`, `WriteHasFront`,
the action property `OnlyHostsAddWork` (the turns and sends a running server has
left shrink with every turn and every send; only a datagram that registers its
sender adds to them), and the liveness property `ServerEnds`, of which that is
the measure.
Client: `RemainingCounts`, `ClosedHasAllBlocks`, `InstalledIsComplete`,
`NothingCompleteKept`, the action property `ForgottenWhenInstalled`, and the
refinement `InstallsWholeFiles`. Whole program: `SocketsOwned`,
`DeliversWholeFiles`, `ServersHearNobody` (a server with a port of its own reads
nothing and registers nobody), `AllDelivered` (every client comes to have every
file, unless another process has the port of its machine), and its safety half
`ReturnedWhenDelivered` (no server returns before each client that listens has
the file, or has still to read a part of it). Pure part: `InfoLessOrders`, `BlocksTile`.
Datagrams: `SenderAccepts` (the sender's check never throws after a datagram of
the program is gone), `WholeOrRejected` (a datagram is rejected exactly when it
does not fit, and all readers of an accepted one see the body that was sent).
Digest: `CountsBits` (the two words count the bits), `KeepsTheRest` (whole blocks
are transformed once, in order, and the rest is kept), `DigestOfPadded` (the
digest is that of the padded input, compared with a definition of the padding
that does not mention pieces).
`ServerTypeOK` and `ClientTypeOK` are the type invariants.

## 4. The runs that pass

| run | instance | what it shows |
|---|---|---|
| `file_info` | infos over 3 digests and 3 counts; files of 0 to 13 bytes, blocks of 4; paths of 1, 8 and 9 bytes for a buffer that takes 8; 27 000 states | the order, the tiling and the datagrams: empty files, full and short last blocks and three boundaries, a path that fills the receiver's buffer and one that exceeds it by a byte |
| `md5` | blocks of 4 bytes, 2 of them for the length; words of 32 values; pieces of 0 to 13 bytes, inputs up to 140 | the three properties of the digest context |
| `server` | one server, six blocks of 2 bytes (one more than the queue's limit), last block short; the file may shrink to 5 bytes while it is served; two hosts; every datagram at any time, announcements too long to receive included; `MaxQueue` 6; 59 000 states | the seven server properties, `OnlyHostsAddWork` and `ServerEnds` among them, under `FairServerSpec` |
| `client` | one client, files of two blocks and one block, two paths and one too long, both values of both uninitialised members; 85 000 states | the seven client properties |
| `network` | a server and a client on two machines, a monitor that competes with the client for its port, two blocks, buffers of 2 datagrams, loss, doubling, reordering, crashes and restarts, an announcement too long for the receivers from another program; 410 000 states | `SocketsOwned` and the refinement `DeliversWholeFiles` |
| `delivery` | two servers of two files, of two blocks and one, that run at the same time, each beside a client; the second client competes with a monitor for its machine's port; nothing lost; `goodbye_received` true; 290 000 states | `AllDelivered` under fairness, with the datagrams of both files mixed in every way; `ReturnedWhenDelivered`, `ServersHearNobody` |

Bounds. `MaxQueue` bounds the replies a peer leaves unsent (the code has no
bound there); `RxLimit` the receive buffers (in `delivery` 7, the
number of different datagrams of the run); goodbye lists hold at most two
ids, which includes an id that is listed twice. Six blocks are the fewest for
which the queue's limit of five can be reached by blocks alone; two blocks are
the fewest for which order, a missing block and a short last block differ. The
5 bytes that the served file may shrink to end inside its third block, so that
the walk meets the end of the file with blocks still to come. The sizes of the
receiver's buffer are scaled down with the blocks: `ReceiveRoom` is 48, which a
path of 8 bytes fills (the metadata of an INFO take the other 40) and the path
`"long"`, 9 bytes, does not fit in.

The server of `network` has the group's port as its ephemeral port. Whether that
is possible is a setting of the machine; it is the one case in which datagrams
reach a server, so that its handlers meet real clients. In `delivery` and
`lost_hello` it has another one, which is the usual case. In `delivery` one such
port is enough for two servers at a time, because they are on two machines; two
ports on one machine would only double the states.

A word of 32 values holds the bits of four bytes, so that inputs up to 140 bytes
carry from the low to the high word many times and wrap the high word too (128
bytes); pieces of up to 13 bytes span three blocks; every remainder meets both
branches of the padding.

`CHECK_DEADLOCK FALSE` is said in `MD5.cfg`, because a finalized context takes no
step, and where every process runs once (`OnceSpec`): when
the servers have returned, the clients wait for ever in `select(-1)`.

Fairness. `ServerFairness`: weak for the loop, because a process that can run
is scheduled; strong for `ServerWrite`, because between two sends any number of
datagrams may be handled (each turn of the loop may find BOTH or only READ),
and a UDP socket becomes writable again and again. Nothing is assumed of
`ServerStart`, of failures, of changes of the file or of the arrival of
datagrams.
`OnceFairness`: weak for what a server or a client does by itself, being run
included; in a network that is quiet nothing else is needed. A monitor need
neither be started nor read, since nobody waits for it.

## 5. The runs that find a disagreement

| run | property | what happens |
|---|---|---|
| `equal_infos` | `EqualIsEqual` | `FileInfo::operator==` negates the comparison of the digests |
| `client_goodbye` | `ServerSurvives` | a client's own CGOODBYE has no HostInfo; `get_metadata` throws and the server ends |
| `no_acknowledgement` | `OnlyAGoodbyeCompletes` | `goodbye_received` is read before it is set: a sync completes without any goodbye |
| `never_delivered` | `AllDelivered` | the same member read as false: no file is ever installed, since no server says goodbye |
| `lost_blocks` | `MissingBlocksArrive` | a lost block is never sent again |
| `lost_hello` | `HelloReachesServers` | the server listens on an ephemeral port and misses every CHELLO |

Each is explained, with the line it contradicts, under "findings" in
`PROJECT.json`. Further cases were met that no run shows: no GETBLOCK can be
answered, because `handle_getblock` asks one datagram for two structures of
different sizes (lemma `GetblockThrows`); the limit of five messages
(blockserver.cpp:53) holds for blocks and not for the answers to GETINFO; a source that cannot be opened is
announced as a file of one block and installed as an empty file; with a path on
another file system (`CrossDevice`) `rename()` fails and the file is forgotten;
with a disk that fills up (`DiskMayFill`) a truncated file is installed; a
client whose `id` happens to be another number does not answer a goodbye.

## 6. The proofs

All theorems hold for every value of the constants that satisfies the named
assumptions (`FileInfoAssumption`, `MessageAssumption`, `BlockServerAssumption`,
`SyncStatusAssumption`, `BlockClientAssumption`, `BlockSocketAssumption`,
`MultisyncAssumption`, `MD5Assumption`), in particular for any files, block size,
number of processes and queue bound. Every safety property of a passing run is a
theorem.

**Server** (BlockServerProofs). `ServerTypeCorrect` is inductive as it stands,
with one step per action. `BlocksInOrder` and `BlocksWithinLimit` are not: that
an appended block is larger than those before needs that every queued block lies
below `next_block`, and that blocks stay within five places needs that the place
is measured when the block is put in. `QueueSound` is the conjunction; the lemma
`QueueSteps` reduces every action to one of five things that can happen to the
queue (kept, emptied or begun, an announcement appended, a block appended, the
front removed) and `QueueSoundStep` treats those. `ServerWriteHasFront` is inductive
with the types: only a read that found the socket writable leads to `"write"`,
and no handler shortens the queue. `ServerNearsItsEnd` proves `OnlyHostsAddWork`, the
part of `ServerEnds` that is not about fairness. The hard one is
`ServerBlocksGenuine`: the failbit is sticky, so blocks are right only because a
short read can happen at the last block only (`ShortReadIsLast`, from the
arithmetic of the block count). The invariant is `StreamSound`: while the block
to be read is one the file had when it was last unchanged (`intact`), the stream
is good and reads the file announced; `QueueGenuine` says the same of the blocks
that wait in the queue. The steps are stated for any set `req` of datagrams that
may reach a server, so that they can be used for the whole program too.

**Client** (BlockClientProofs). `StatusSound` says of one
status that the counter is the number of missing blocks, that every block that
is there has its bytes, and that a closed stream has all blocks; each operation
preserves it (one lemma each). `ClientSteps` reduces each action to what it does
to the statuses and to the disk; `ClientStatusesSound` and `DiskSound` are the
two invariants. From them follow `ClientRemainingCounts`, `ClientClosedHasAll`,
`ClientKeepsNothingComplete`, `ClientInstalledComplete` and `ClientTypeCorrect`,
and, when the disk does not fill up, the refinement `ClientImplementsDelivery`.
`ClientForgetsInstalled` assumes that all paths are on the file system of the
temporary files (`CrossDevice = {}`); without that assumption it is false, since
the result of `rename()` is dropped. The invariants take the set `offers` of
files and paths that announcements may name: all of them for a client by itself,
those of the servers in the program.

**Program** (MultisyncProofs). `ProcessesOwnSockets`: the invariant
`SocketsSound` says that the processes that run (`Up`) are those with a socket
and that ports of a machine are apart; `SocketSteps` reduces every action to
a socket kept, opened where the port is free, or closed.
`ProgramImplementsDelivery` is the main result: the program implements
FileDelivery for the offers of its servers. The invariant `ProgramSound` joins
the server's and the client's invariants with the statement that every datagram
in a queue or on its way is `Deliverable(ServerOffers)`: a genuine block of any
file, an announcement of an offer or of a path nobody can read, or a datagram
without data. It assumes that the disk does not fill up (`~DiskMayFill`), that
every server's file opens and has offsets that fit (`Servable`), and that other
programs on the group send only such datagrams too; each of these is needed, see
section 5 and the hazards. `PartsKeepTheirPromises` and
`ProgramNearsItsEnd` carry the properties of a server and of a client by themselves
over to the program (all but the types and `ForgottenWhenInstalled`), under the
same assumptions but the one on the disk: the
modules that were checked with datagrams from a set of their own have the
same steps here, with the datagrams that the others send (`ServersStep`,
`ClientsStep`). `ServersAreDeaf` is the general form of the
disagreement `lost_hello`: its invariant `Unheard` adds that no server has the
group's port.

**One run** (OneRunProofs). `ServersReturnWhenDelivered` says of `OnceSpec` that a
server, which has no acknowledgement to wait for, returns only when its file has
reached every client that listens. Its invariant is `RunSound`, with
`ProgramSound` and `SocketsSound`. It follows each *word* (an announcement, a
block or a CHELLO) through its stages: not yet said (`Unspoken`), in the queue of
its speaker (`Outbox`), in the buffers, taken by the client. `OutboxOnce` and
`HeardOnce` say that a word is in one stage at a time and in a buffer once at
most, so that a buffer that could hold all of `Said` always has space for the
word that is sent next (`EveryoneHears`). `ServerAlone` says that a server hears
nothing; its loop then alternates between queueing and sending, the queue holds
two messages at most, and the test of the queue's limit passes over no block.
`Delivered`, the heart, says that no word is lost on the way: each is still
unspoken, queued or unread, or the client has made of it what it should (`Taken`:
the path is set, the block is there, or the file is installed). When a server
has returned and the client has read everything, all words are taken, and a
status with its path and all its blocks cannot still be waiting, since `Ready`
says that it would have been installed (`AllTakenIsHad`). `RunSpeech` reduces
every step to four things that can happen to words: one is queued, one is
spoken, one is heard, or a process falls silent. The parts of `RunSound` were
checked with TLC on the instance of `delivery` before they were proved. The
theorem assumes

* `LosesNothing`: the network loses nothing and nobody else uses it; no server
  gets the group's port, else it competes for it with the clients of its machine
  and its queue holds answers too; a buffer holds `Cardinality(Said)`
  datagrams, which is what the code relies on in the absence of any flow control;
  clients have different pids, else their two CHELLOs are one word (this is a
  convenience of the proof, which counts words as a set);
* `Installs`: `goodbye_received` happens to be true (`never_delivered` shows what
  happens otherwise), `close()` and `rename()` work;
* `ServesApart`: the sources open, offsets do not wrap, and no two servers have
  the same file or the same path, since the later announcement or copy would
  replace the earlier one.

**Datagrams** (PacketProofs). `PacketsAreSent` and `PacketsWholeOrRejected`, when
header and body fit into an unsigned int (`SizesFit`). `ObjectSound` says that
the two sizes agree for every datagram of the program; the case with work in it
is a block, whose object is first as large as a full one and shrinks with the
read (`FilledBlock`).

**Files** (FileInfoProofs). `BlocksTileFiles` and `InfoLessIsOrder`: the count is
rounded up (`CountRoundsUp`), and a byte is in block j exactly when j is its
offset divided by the block size (`ByteInOneBlock`).

**Digest** (MD5Proofs). `Absorbed(c, s)` says that the context c has taken in the
sequence of bytes s: its count is that of s, its state the whole blocks of s, its
buffer starts with the rest. `UpdatedAbsorbs` is the heart: `update()` with p
leads from `Absorbed(c, s)` to `Absorbed(c', s \o p)`, whether p fills the buffer
(`LongPiece`) or not (`ShortPiece`). It needs that the wrapped count still tells
where in the buffer the next byte goes (`IndexIsRest`, since a word counts a whole
number of blocks) and that the carry is right (`CountedAdds`). `finalize()` is two
more updates, and `PadReaches` says that they end at a block. From the invariant
`DigestSound` follow `MD5CountsBits`, `MD5KeepsTheRest` and `MD5DigestsPadded`,
without a bound on the input and in particular with the real sizes of 64 bytes and
2^32.

**Only model-checked**: `ServerEnds` and `AllDelivered`, because liveness is out
of the prover's reach (what they rest on besides fairness, `OnlyHostsAddWork` and
`ReturnedWhenDelivered`, is proved), and the six disagreements of section 5.

## 7. Plan

Done: the modules above, in the order FileInfo, Message, BlockServer,
SyncStatus, BlockClient, FileDelivery, BlockSocket, Multisync, MD5, Packet, OneRun; runs
for each; the theorems of section 6. Next, in this order:

1. `SourceChanges` in Multisync, with a FileDelivery that promises complete
   copies of what was served rather than of what was announced.
2. Two servers of equal files with two paths, and hosts that share a pid.
3. The buffers that suffice when a server does hear its clients: a server that
   answers may pass over blocks, so that the condition of `LosesNothing` has to
   speak of the answers too.

## 8. Not modelled

* The arithmetic of `transform()`, `encode()` and `decode()` (md5.cpp). Outside
  of MD5, `Digest` is a number per file, different for different files; the
  client never computes a digest, it uses the one it is sent as a key.
* Logger, `Test()` (never called), and what `Listen()` prints: output only.
* The byte layout of datagrams, byte orders, and the conversions of addresses:
  the server's address is stored by the client and not used.
* The largest datagram that a sender may hand to UDP. A path that is too long
  for that makes `operator<<` throw, which is `ServerFail`.
* Changes of a source file while it is served are modelled for a server by
  itself; in Multisync a file stays as it is (`Contents` is empty there).
  Temporary files that are left behind by a client that ends are not modelled.
* Two clients on two machines with the same pid count as one host at the server
  (blockclient.cpp:19). This has no effect that a run could show: a client's
  CGOODBYE names no host, so that no client of the program is ever unregistered.
* The finite timeout of `select()` and `set_timeout()`: every call of the program
  waits for ever.
* Clients that share a machine share its disk in reality. In the model each
  client has its own; only one client of a machine runs at a time.
* Blocks of another size than the program's, or numbers beyond the file's count:
  the models send what a server of this program may send, SGOODBYE, GETINFO and
  GETBLOCK being what the handlers are written for.
