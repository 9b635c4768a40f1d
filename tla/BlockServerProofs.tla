-------------------------- MODULE BlockServerProofs --------------------------
(***************************************************************************)
(* Proofs about the server, for all files, servers and block sizes.        *)
(***************************************************************************)
EXTENDS BlockServer, SequenceTheorems, TLAPS

USE DEF source_vars

(* A count of blocks is an unsigned int.                                   *)
LEMMA BlockCountType ==
  ASSUME NEW f \in Files
  PROVE  BlockCount(f) \in Nat
<1>1. FileSize[f] \in Int /\ BlockSize \in Nat \ {0} /\ UIntMod \in Nat \ {0}
  BY FileInfoAssumption
<1>2. Quotient(FileSize[f]) \in Int
  BY <1>1 DEF Quotient
<1>3. \A n \in Int : n % UIntMod \in Nat
  BY <1>1
<1> QED
  BY <1>2, <1>3 DEF BlockCount

(* A read returns a run of bytes, whatever the offset.                     *)
LEMMA ReadFromType ==
  ASSUME NEW f \in Files, NEW pos \in Nat
  PROVE  ReadFrom(f, pos) \in Bytes
BY FileInfoAssumption DEF ReadFrom, Bytes, NoBytes

LEMMA ReadInputType ==
  ASSUME ServerTypeOK, NEW s \in Servers, NEW i \in Nat
  PROVE  ReadInput(s, i) \in Bytes
<1>1. Offset(i) \in Nat
  BY FileInfoAssumption DEF Offset
<1>2. source_now[s] \in Files
  BY DEF ServerTypeOK
<1> QED
  BY <1>1, <1>2, ReadFromType DEF ReadInput, NoBytes, Bytes

(* The datagrams that can reach a server are well formed.                  *)
LEMMA RequestsType == Requests \subseteq Datagram
<1>1. \A h \in Hosts : ChelloMsg(h) \in Datagram /\ GetinfoMsg(h) \in Datagram
                       /\ CgoodbyeFrom(h) \in Datagram
  BY DEF ChelloMsg, GetinfoMsg, CgoodbyeFrom, Datagram
<1>2. CgoodbyeMsg \in Datagram
  BY DEF CgoodbyeMsg, Datagram
<1>3. \A f \in Files, p \in Paths : InfoMsg(f, p) \in Datagram
  BY DEF InfoMsg, Datagram
<1>4. \A k \in {"HostInfo", "BlockInfo"}, h \in Hosts, f \in Files : \A b \in Blocks(f) :
        GetblockMsg(k, h, f, b) \in Datagram
  BY BlockCountType DEF GetblockMsg, Blocks, Datagram
<1>5. \A f \in Files : \A b \in Blocks(f) : BlockMsg(f, b, BlockBytes(f, b)) \in Datagram
  <2>1. ASSUME NEW f \in Files, NEW b \in Blocks(f) PROVE b \in Nat /\ BlockBytes(f, b) \in Bytes
    <3>1. b \in Nat /\ BlockSize \in Nat
      BY FileInfoAssumption, BlockCountType DEF Blocks
    <3>2. BlockSize * b \in Nat
      BY <3>1
    <3> QED
      BY <3>1, <3>2, ReadFromType DEF BlockBytes
  <2> QED
    BY <2>1 DEF BlockMsg, Datagram
<1>6. \A f \in Files : \A a \in Seq(Hosts) : SgoodbyeMsg(f, a) \in Datagram
  BY DEF SgoodbyeMsg, Datagram
<1>7. UNION {[1 .. n -> Hosts] : n \in 0 .. 1} \subseteq Seq(Hosts)
  <2> SUFFICES ASSUME NEW n \in 0 .. 1, NEW a \in [1 .. n -> Hosts] PROVE a \in Seq(Hosts)
    OBVIOUS
  <2> QED
    BY SeqDef
<1>8. {SgoodbyeMsg(f, a) : f \in Files, a \in UNION {[1 .. n -> Hosts] : n \in 0 .. 1}}
        \subseteq Datagram
  BY <1>6, <1>7
<1>9. UNION {{GetblockMsg(k, h, f, b) : k \in {"HostInfo", "BlockInfo"}, h \in Hosts,
                 b \in Blocks(f)} : f \in Files} \subseteq Datagram
  BY <1>4
<1>10. UNION {{BlockMsg(f, b, BlockBytes(f, b)) : b \in Blocks(f)} : f \in Files} \subseteq Datagram
  BY <1>5
<1>11. /\ {ChelloMsg(h) : h \in Hosts} \subseteq Datagram
       /\ {GetinfoMsg(h) : h \in Hosts} \subseteq Datagram
       /\ {CgoodbyeFrom(h) : h \in Hosts} \subseteq Datagram
       /\ {InfoMsg(f, p) : f \in Files, p \in Paths} \subseteq Datagram
  BY <1>1, <1>3
<1> QED
  BY <1>2, <1>8, <1>9, <1>10, <1>11 DEF Requests

(* handle_getblock asks one message for two kinds of metadata: it throws.  *)
LEMMA GetblockThrows ==
  ASSUME NEW m
  PROVE  ~GetblockFits(m)
BY DEF GetblockFits, HasMetadata, HeaderSize

(* So the only answer a server ever queues is its announcement.            *)
LEMMA AnswerIsInfo ==
  ASSUME NEW s \in Servers, NEW m \in Datagram, ~KilledBy(m),
         m.type \in {"GETINFO", "GETBLOCK"}
  PROVE  /\ m.type = "GETINFO"
         /\ Answer(s, m) = <<ServerInfo(s)>>
         /\ ~AsksForBlock(s, m)
<1>1. m.type = "GETINFO"
  BY GetblockThrows DEF KilledBy
<1> QED
  BY <1>1 DEF Answer, AsksForBlock

-----------------------------------------------------------------------------
(* Appending to, taking from and typing a queue.                           *)
LEMMA SeqFacts ==
  ASSUME NEW S, NEW q \in Seq(S), NEW e \in S
  PROVE  /\ Append(q, e) \in Seq(S)
         /\ q \o <<e>> \in Seq(S)
         /\ <<e>> \in Seq(S)
         /\ q # <<>> => Tail(q) \in Seq(S)
OBVIOUS

LEMMA TypeInit == ServerInit => ServerTypeOK
<1> SUFFICES ASSUME ServerInit PROVE ServerTypeOK
  OBVIOUS
<1>1. \A s \in Servers : ServerCount(s) \in Nat
  BY BlockServerAssumption, BlockCountType DEF ServerCount, SourceOf
<1> QED
  BY <1>1, BlockServerAssumption DEF ServerInit, ServerTypeOK

(* A process that is gone leaves its variables as they were at the start.  *)
LEMMA TypeGone ==
  ASSUME ServerTypeOK, NEW s \in Servers, NEW why \in {"done", "failed"}, ServerGone(s, why)
  PROVE  ServerTypeOK'
<1>1. \A t \in Servers : ServerCount(t) \in Nat
  BY BlockServerAssumption, BlockCountType DEF ServerCount, SourceOf
<1> QED
  <2>1. /\ server_pc' \in [Servers -> {"idle", "done", "failed"} \cup Running]
        /\ server_queue' \in [Servers -> Seq(Datagram)]
        /\ host_info' \in [Servers -> SUBSET Hosts]
        /\ input_fail' \in [Servers -> BOOLEAN]
    BY DEF ServerTypeOK, ServerGone, Running
  <2>2. source_now' \in [Servers -> Files] /\ intact' \in [Servers -> Nat]
    BY <1>1, BlockServerAssumption DEF ServerTypeOK, ServerGone, SourceOf
  <2>3. next_block' \in [Servers -> Nat] /\ \A t \in Servers : next_block'[t] <= ServerCount(t)'
    BY <1>1 DEF ServerTypeOK, ServerGone, ServerCount, SourceOf
  <2> QED
    BY <2>1, <2>2, <2>3 DEF ServerTypeOK

LEMMA TypeStep ==
  ASSUME ServerTypeOK, NEW req \in SUBSET Datagram, [ServerNext(req)]_server_vars
  PROVE  ServerTypeOK'
<1> USE DEF ServerTypeOK
<1>0. \A s \in Servers : ServerCount(s) \in Nat /\ ServerInfo(s) \in Datagram
                         /\ SourceOf(s) \in Files
  BY BlockServerAssumption, BlockCountType
  DEF ServerCount, ServerInfo, SourceOf, InfoMsg, Datagram
<1>1. CASE UNCHANGED server_vars
  BY <1>1 DEF server_vars, ServerCount, SourceOf
<1>2. ASSUME NEW s \in Servers, ServerStart(s) PROVE ServerTypeOK'
  BY <1>0, <1>2 DEF ServerStart, Running, ServerCount, SourceOf
<1>3. ASSUME NEW s \in Servers, EnqueueBlock(s) PROVE ServerTypeOK'
  <2>1. BlockAt(s, next_block[s]) \in Datagram
    BY <1>0, <1>3, ReadInputType DEF BlockAt, BlockMsg, Datagram
  <2>2. Enqueued(s, <<BlockAt(s, next_block[s])>>) \in Seq(Datagram)
    BY <2>1, SeqFacts DEF Enqueued
  <2>3. InputFailsAt(s, next_block[s]) \in BOOLEAN
    BY DEF InputFailsAt
  <2>4. server_queue' \in [Servers -> Seq(Datagram)] /\ input_fail' \in [Servers -> BOOLEAN]
    BY <1>3, <2>2, <2>3 DEF BlocksLeft, EnqueueBlock
  <2>5. next_block' \in [Servers -> Nat] /\ \A t \in Servers : next_block'[t] <= ServerCount(t)
    <3>1. next_block[s] + 1 \in Nat /\ next_block[s] + 1 <= ServerCount(s)
      BY <1>0, <1>3 DEF BlocksLeft, EnqueueBlock
    <3> QED
      BY <1>3, <3>1 DEF BlocksLeft, EnqueueBlock
  <2>6. server_pc' \in [Servers -> {"idle", "done", "failed"} \cup Running]
    BY <1>3 DEF BlocksLeft, EnqueueBlock, Running
  <2> QED
    BY <1>3, <2>4, <2>5, <2>6 DEF BlocksLeft, EnqueueBlock, ServerCount, SourceOf
<1>4. ASSUME NEW s \in Servers, ServerDrain(s) PROVE ServerTypeOK'
  BY <1>4 DEF ServerDrain, Running, ServerCount, SourceOf
<1>5. ASSUME NEW s \in Servers, ServerFinish(s) PROVE ServerTypeOK'
  BY <1>5, TypeGone DEF ServerFinish
<1>6. ASSUME NEW s \in Servers, NEW m \in req, NEW both \in BOOLEAN, ServerRead(s, m, both)
      PROVE  ServerTypeOK'
  <2>1. m \in Datagram
    OBVIOUS
  <2>2. server_pc' \in [Servers -> {"idle", "done", "failed"} \cup Running]
    BY <1>6 DEF ServerRead, Running
  <2>3. CASE HandleChello(s, m)
    BY <1>6, <2>1, <2>2, <2>3
    DEF ServerRead, HandleChello, Register, Datagram, ServerCount, SourceOf
  <2>4. CASE HandleGet(s, m)
    <3>1. Answer(s, m) = <<ServerInfo(s)>> /\ ~AsksForBlock(s, m)
      BY <1>6, <2>1, <2>4, AnswerIsInfo DEF ServerRead, HandleGet
    <3>2. Enqueued(s, Answer(s, m)) \in Seq(Datagram)
      BY <1>0, <3>1, SeqFacts DEF Enqueued
    <3>3. m.host \in Hosts
      BY <2>1, <2>4 DEF HandleGet, Datagram
    <3> QED
      BY <1>6, <2>2, <2>4, <3>1, <3>2, <3>3
      DEF ServerRead, HandleGet, Register, ServerCount, SourceOf
  <2>5. CASE HandleCgoodbye(s, m)
    BY <1>6, <2>2, <2>5 DEF ServerRead, HandleCgoodbye, ServerCount, SourceOf
  <2>6. CASE IgnoreUnknown(s, m)
    BY <1>6, <2>2, <2>6 DEF ServerRead, IgnoreUnknown, ServerCount, SourceOf
  <2> QED
    BY <1>6, <2>3, <2>4, <2>5, <2>6 DEF ServerRead, Handle
<1>7. ASSUME NEW s \in Servers, NEW m \in req, ServerKilled(s, m) PROVE ServerTypeOK'
  BY <1>7, TypeGone DEF ServerKilled
<1>8. ASSUME NEW s \in Servers, ServerWrite(s) PROVE ServerTypeOK'
  <2>1. Tail(server_queue[s]) \in Seq(Datagram)
    BY <1>8 DEF ServerWrite, PollWrite
  <2> QED
    BY <1>8, <2>1 DEF ServerWrite, Running, ServerCount, SourceOf
<1>9. ASSUME NEW s \in Servers, ServerFail(s) PROVE ServerTypeOK'
  BY <1>9, TypeGone DEF ServerFail
<1>10. ASSUME NEW s \in Servers, SourceChanges(s) PROVE ServerTypeOK'
  BY <1>10, BlockServerAssumption DEF SourceChanges, ServerCount, SourceOf
<1> QED
  BY <1>1, <1>2, <1>3, <1>4, <1>5, <1>6, <1>7, <1>8, <1>9, <1>10
  DEF ServerNext, ServerStep, ServerLoop

(* Type correctness of the server.                                         *)
THEOREM ServerTypeCorrect == ServerSpec => []ServerTypeOK
<1>1. ServerTypeOK /\ [ServerNext(Requests)]_server_vars => ServerTypeOK'
  BY TypeStep, RequestsType
<1> QED
  BY <1>1, TypeInit, PTL DEF ServerSpec

-----------------------------------------------------------------------------
(* What one step can do to the queue of s and to its place in the file.    *)
Unmoved(s) ==
  /\ server_queue'[s] = server_queue[s]
  /\ next_block'[s] >= next_block[s] /\ intact'[s] <= intact[s]
Emptied(s) == server_queue'[s] \in {<<>>, <<ServerInfo(s)>>}
Announced(s) ==
  /\ server_queue'[s] = Append(server_queue[s], ServerInfo(s))
  /\ next_block'[s] = next_block[s] /\ intact'[s] = intact[s]
BlockAdded(s) ==
  /\ Len(server_queue[s]) < QueueLimit
  /\ next_block[s] < ServerCount(s) /\ next_block'[s] = next_block[s] + 1
  /\ intact'[s] = intact[s]
  /\ server_queue'[s] = Append(server_queue[s], BlockAt(s, next_block[s]))
Sent(s) ==
  /\ server_queue[s] # <<>> /\ server_queue'[s] = Tail(server_queue[s])
  /\ next_block'[s] = next_block[s] /\ intact'[s] = intact[s]

LEMMA QueueSteps ==
  ASSUME ServerTypeOK, NEW req \in SUBSET Datagram, [ServerNext(req)]_server_vars, NEW t \in Servers
  PROVE  Unmoved(t) \/ Emptied(t) \/ Announced(t) \/ BlockAdded(t) \/ Sent(t)
<1> DEFINE Goal == Unmoved(t) \/ Emptied(t) \/ Announced(t) \/ BlockAdded(t) \/ Sent(t)
<1> USE DEF ServerTypeOK
<1>1. CASE UNCHANGED server_vars
  BY <1>1 DEF server_vars, Unmoved
<1>2. ASSUME NEW s \in Servers, ServerStart(s) PROVE Goal
  BY <1>2 DEF ServerStart, Unmoved, Emptied
<1>3. ASSUME NEW s \in Servers, EnqueueBlock(s) PROVE Goal
  <2>1. CASE s # t
    BY <1>3, <2>1 DEF BlocksLeft, EnqueueBlock, Unmoved
  <2>2. CASE s = t /\ QueueHasRoom(s)
    <3>1. Enqueued(t, <<BlockAt(t, next_block[t])>>) =
            Append(server_queue[t], BlockAt(t, next_block[t]))
      BY DEF Enqueued
    <3> QED
      BY <1>3, <2>2, <3>1 DEF BlocksLeft, EnqueueBlock, QueueHasRoom, BlockAdded
  <2>3. CASE s = t /\ ~QueueHasRoom(s)
    BY <1>3, <2>3 DEF BlocksLeft, EnqueueBlock, Unmoved
  <2> QED
    BY <2>1, <2>2, <2>3
<1>4. ASSUME NEW s \in Servers, ServerDrain(s) PROVE Goal
  BY <1>4 DEF ServerDrain, Unmoved
<1>5. ASSUME NEW s \in Servers, NEW why, ServerGone(s, why) PROVE Goal
  BY <1>5 DEF ServerGone, Unmoved, Emptied
<1>6. ASSUME NEW s \in Servers, NEW m \in req, NEW both \in BOOLEAN, ServerRead(s, m, both)
      PROVE  Goal
  <2>1. CASE HandleGet(s, m)
    <3>1. Answer(s, m) = <<ServerInfo(s)>>
      BY <1>6, <2>1, AnswerIsInfo DEF ServerRead, HandleGet
    <3>2. Enqueued(s, Answer(s, m)) = Append(server_queue[s], ServerInfo(s))
      BY <3>1 DEF Enqueued
    <3> QED
      BY <1>6, <2>1, <3>2 DEF ServerRead, HandleGet, Unmoved, Announced
  <2>2. CASE HandleChello(s, m) \/ HandleCgoodbye(s, m) \/ IgnoreUnknown(s, m)
    BY <1>6, <2>2 DEF ServerRead, HandleChello, HandleCgoodbye, IgnoreUnknown, Unmoved
  <2> QED
    BY <1>6, <2>1, <2>2 DEF ServerRead, Handle
<1>7. ASSUME NEW s \in Servers, ServerWrite(s) PROVE Goal
  BY <1>7 DEF ServerWrite, PollWrite, Unmoved, Sent
<1>8. ASSUME NEW s \in Servers, SourceChanges(s) PROVE Goal
  BY <1>8 DEF SourceChanges, Unmoved
<1> QED
  BY <1>1, <1>2, <1>3, <1>4, <1>5, <1>6, <1>7, <1>8
  DEF ServerNext, ServerStep, ServerLoop, ServerFinish, ServerKilled, ServerFail

(* Taking the front of a queue moves every other entry one place up.       *)
LEMMA TailFacts ==
  ASSUME NEW q \in Seq(Datagram), q # <<>>
  PROVE  /\ Len(Tail(q)) = Len(q) - 1
         /\ \A i \in DOMAIN Tail(q) : i + 1 \in DOMAIN q /\ Tail(q)[i] = q[i + 1]
OBVIOUS

(* The entries of a longer queue.                                          *)
LEMMA AppendFacts ==
  ASSUME NEW q \in Seq(Datagram), NEW e
  PROVE  /\ DOMAIN Append(q, e) = DOMAIN q \cup {Len(q) + 1}
         /\ \A i \in DOMAIN q : Append(q, e)[i] = q[i]
         /\ Append(q, e)[Len(q) + 1] = e
OBVIOUS

-----------------------------------------------------------------------------
(* The queue of one server, as the two invariants BlocksWithinLimit and    *)
(* BlocksInOrder need it.                                                  *)
QueueSound(s) ==
  \A i \in Queued(s) : BlockQueued(s, i) =>
    /\ i <= QueueLimit
    /\ server_queue[s][i].block < next_block[s]
    /\ \A j \in 1 .. i - 1 : BlockQueued(s, j) =>
         server_queue[s][j].block < server_queue[s][i].block

LEMMA QueueSoundStep ==
  ASSUME ServerTypeOK, NEW req \in SUBSET Datagram, [ServerNext(req)]_server_vars, ServerTypeOK',
         NEW s \in Servers, QueueSound(s)
  PROVE  QueueSound(s)'
<1> DEFINE q == server_queue[s]
           n == next_block[s]
<1>1. q \in Seq(Datagram) /\ n \in Nat /\ n' \in Nat
  BY DEF ServerTypeOK
<1>2. \A i \in Queued(s) : BlockQueued(s, i) => q[i].block \in Nat
  BY <1>1 DEF Queued, BlockQueued, Datagram
<1>3. CASE Unmoved(s)
  BY <1>1, <1>2, <1>3 DEF Unmoved, QueueSound, Queued, BlockQueued
<1>4. CASE Emptied(s)
  BY <1>4 DEF Emptied, QueueSound, Queued, BlockQueued, ServerInfo, InfoMsg
<1>5. CASE Announced(s)
  <2>1. ServerInfo(s).type # "BLOCK"
    BY DEF ServerInfo, InfoMsg
  <2> QED
    BY <1>1, <1>5, <2>1, AppendFacts DEF Announced, QueueSound, Queued, BlockQueued
<1>6. CASE BlockAdded(s)
  <2>1. BlockAt(s, n).block = n
    BY DEF BlockAt, BlockMsg
  <2> QED
    BY <1>1, <1>2, <1>6, <2>1, AppendFacts
    DEF BlockAdded, QueueSound, Queued, BlockQueued, QueueLimit
<1>7. CASE Sent(s)
  BY <1>1, <1>7, TailFacts DEF Sent, QueueSound, Queued, BlockQueued, QueueLimit
<1> QED
  BY <1>3, <1>4, <1>5, <1>6, <1>7, QueueSteps

LEMMA QueueSoundInvariant == ServerSpec => [](\A s \in Servers : QueueSound(s))
<1>1. ServerInit => \A s \in Servers : QueueSound(s)
  BY DEF ServerInit, QueueSound, Queued, BlockQueued
<1>2. /\ ServerTypeOK /\ ServerTypeOK' /\ [ServerNext(Requests)]_server_vars
      /\ \A s \in Servers : QueueSound(s)
      => (\A s \in Servers : QueueSound(s))'
  BY QueueSoundStep, RequestsType
<1> QED
  BY <1>1, <1>2, ServerTypeCorrect, PTL DEF ServerSpec

(* A BLOCK never waits behind more than QueueLimit - 1 other messages.     *)
THEOREM ServerBlocksWithinLimit == ServerSpec => []BlocksWithinLimit
<1>1. (\A s \in Servers : QueueSound(s)) => BlocksWithinLimit
  BY DEF QueueSound, BlocksWithinLimit
<1> QED
  BY <1>1, QueueSoundInvariant, PTL

(* The blocks of a queue are in the file's order, each at most once.       *)
THEOREM ServerBlocksInOrder == ServerSpec => []BlocksInOrder
<1>1. (\A s \in Servers : QueueSound(s)) => BlocksInOrder
  BY DEF QueueSound, BlocksInOrder
<1> QED
  BY <1>1, QueueSoundInvariant, PTL

-----------------------------------------------------------------------------
(* Arithmetic on blocks.                                                   *)
LEMMA TimesMonotone ==
  ASSUME NEW a \in Nat, NEW b \in Nat, NEW c \in Nat, b <= c
  PROVE  a * b <= a * c
<1>1. PICK d \in Nat : c = b + d
  BY c - b \in Nat
<1>2. a * c = a * b + a * d /\ a * d \in Nat /\ a * b \in Nat
  BY <1>1
<1> QED
  BY <1>2

(* The offset of a block of a servable file does not wrap.                 *)
LEMMA OffsetExact ==
  ASSUME NEW s \in Servers, Servable(s), NEW i \in Nat, i < ServerCount(s)
  PROVE  Offset(i) = BlockSize * i
<1>1. ServerCount(s) \in Nat /\ BlockSize \in Nat \ {0} /\ UIntMod \in Nat \ {0}
  BY FileInfoAssumption, BlockServerAssumption, BlockCountType DEF ServerCount, SourceOf
<1>2. BlockSize * (i + 1) <= BlockSize * ServerCount(s)
  BY <1>1, TimesMonotone
<1>3. BlockSize * (i + 1) = BlockSize * i + BlockSize /\ BlockSize * i \in Nat
  BY <1>1
<1>4. BlockSize * i < UIntMod
  <2> DEFINE x == BlockSize * i
             y == BlockSize * ServerCount(s)
  <2>1. x \in Nat /\ y \in Int /\ x + BlockSize <= y /\ y <= UIntMod
    BY <1>1, <1>2, <1>3 DEF Servable
  <2> HIDE DEF x, y
  <2>2. x < UIntMod
    BY <1>1, <2>1
  <2> QED
    BY <2>2 DEF x
<1>5. ASSUME NEW k \in Nat, k < UIntMod PROVE k % UIntMod = k
  BY <1>1, <1>5
<1> QED
  BY <1>3, <1>4, <1>5 DEF Offset

(* Only the last block of a servable file is short.                        *)
LEMMA ShortReadIsLast ==
  ASSUME NEW s \in Servers, Servable(s), NEW i \in Nat, i < ServerCount(s),
         ReadFrom(SourceOf(s), BlockSize * i).len < BlockSize
  PROVE  i + 1 = ServerCount(s)
<1> DEFINE size == FileSize[SourceOf(s)]
           n == ServerCount(s)
<1>1. n \in Nat /\ BlockSize \in Nat \ {0} /\ size \in Nat
  BY FileInfoAssumption, BlockServerAssumption, BlockCountType DEF ServerCount, SourceOf, Servable
<1>2. BlockSize * i + BlockSize > size
  BY <1>1 DEF ReadFrom, NoBytes
<1>3. BlockSize * n <= size + BlockSize - 1
  <2>1. n = (size + BlockSize - 1) \div BlockSize
    BY <1>1 DEF Servable, Quotient
  <2>2. \A x \in Nat, b \in Nat \ {0} : b * (x \div b) <= x
    OBVIOUS
  <2> QED
    BY <1>1, <2>1, <2>2
<1>4. SUFFICES ASSUME i + 1 <= n - 1 PROVE FALSE
  BY <1>1, <1>4
<1>5. BlockSize * (i + 1) <= BlockSize * (n - 1)
  BY <1>1, <1>4, TimesMonotone
<1>6. BlockSize * (i + 1) = BlockSize * i + BlockSize
  BY <1>1
<1>7. BlockSize * (n - 1) = BlockSize * n - BlockSize
  BY <1>1
<1>8. BlockSize * i \in Nat /\ BlockSize * n \in Nat
  BY <1>1
<1> DEFINE x == BlockSize * i
           y == BlockSize * n
<1>9. /\ x \in Nat /\ y \in Nat /\ x + BlockSize > size /\ y <= size + BlockSize - 1
      /\ x + BlockSize <= y - BlockSize
  BY <1>2, <1>3, <1>5, <1>6, <1>7, <1>8
<1> HIDE DEF x, y, n, size
<1> QED
  BY <1>1, <1>9

-----------------------------------------------------------------------------
(* What one step can do to the input stream of s and the file behind it.   *)
StreamKept(s) ==
  /\ input_fail'[s] = input_fail[s] /\ next_block'[s] = next_block[s]
  /\ source_now'[s] = source_now[s] /\ intact'[s] = intact[s]
StreamOpened(s) ==
  /\ input_fail'[s] => FileSize[SourceOf(s)] = -1
  /\ next_block'[s] = next_block[s]
  /\ source_now'[s] = source_now[s] /\ intact'[s] = intact[s]
StreamReset(s) ==
  ~input_fail'[s] /\ source_now'[s] = SourceOf(s) /\ intact'[s] = ServerCount(s)
BlockPassed(s) ==
  /\ next_block[s] < ServerCount(s) /\ next_block'[s] = next_block[s] + 1
  /\ input_fail'[s] \in {input_fail[s], InputFailsAt(s, next_block[s])}
  /\ source_now'[s] = source_now[s] /\ intact'[s] = intact[s]
FileChanged(s) ==
  next_block'[s] = next_block[s] /\ intact'[s] <= intact[s] /\ intact'[s] <= next_block[s]

StreamStep(s) ==
  StreamKept(s) \/ StreamOpened(s) \/ StreamReset(s) \/ BlockPassed(s) \/ FileChanged(s)

LEMMA StreamSteps ==
  ASSUME ServerTypeOK, NEW req \in SUBSET Datagram, [ServerNext(req)]_server_vars, NEW t \in Servers
  PROVE  StreamStep(t)
<1> USE DEF ServerTypeOK, StreamStep
<1>1. CASE UNCHANGED server_vars
  BY <1>1 DEF server_vars, StreamKept
<1>2. ASSUME NEW s \in Servers, ServerStart(s) PROVE StreamStep(t)
  BY <1>2 DEF ServerStart, StreamKept, StreamOpened
<1>3. ASSUME NEW s \in Servers, EnqueueBlock(s) PROVE StreamStep(t)
  <2>1. CASE s # t
    BY <1>3, <2>1 DEF BlocksLeft, EnqueueBlock, StreamKept
  <2>2. CASE s = t
    BY <1>3, <2>2 DEF BlocksLeft, EnqueueBlock, BlockPassed
  <2> QED
    BY <2>1, <2>2
<1>4. ASSUME NEW s \in Servers, ServerDrain(s) \/ ServerWrite(s) PROVE StreamStep(t)
  BY <1>4 DEF ServerDrain, ServerWrite, StreamKept
<1>5. ASSUME NEW s \in Servers, NEW why, ServerGone(s, why) PROVE StreamStep(t)
  BY <1>5 DEF ServerGone, StreamKept, StreamReset
<1>6. ASSUME NEW s \in Servers, NEW m \in req, NEW both \in BOOLEAN, ServerRead(s, m, both)
      PROVE  StreamStep(t)
  <2>1. CASE HandleGet(s, m)
    <3>1. ~AsksForBlock(s, m)
      BY <1>6, <2>1, AnswerIsInfo DEF ServerRead, HandleGet
    <3> QED
      BY <1>6, <2>1, <3>1 DEF ServerRead, HandleGet, StreamKept
  <2>2. CASE HandleChello(s, m) \/ HandleCgoodbye(s, m) \/ IgnoreUnknown(s, m)
    BY <1>6, <2>2 DEF ServerRead, HandleChello, HandleCgoodbye, IgnoreUnknown, StreamKept
  <2> QED
    BY <1>6, <2>1, <2>2 DEF ServerRead, Handle
<1>7. ASSUME NEW s \in Servers, SourceChanges(s) PROVE StreamStep(t)
  BY <1>7 DEF SourceChanges, StreamKept, FileChanged
<1> QED
  BY <1>1, <1>2, <1>3, <1>4, <1>5, <1>6, <1>7
  DEF ServerNext, ServerStep, ServerLoop, ServerFinish, ServerKilled, ServerFail

(* As long as a block that is to be read is one of the file announced, the *)
(* stream is good: it fails when the last block has been read, not before. *)
StreamSound(s) ==
  /\ intact[s] <= ServerCount(s)
  /\ next_block[s] < intact[s] => ~input_fail[s] /\ source_now[s] = SourceOf(s)

QueueGenuine(s) ==
  \A i \in Queued(s) : BlockQueued(s, i) =>
    /\ server_queue[s][i].file = SourceOf(s)
    /\ server_queue[s][i].block < intact[s] => Genuine(server_queue[s][i])

ServesGenuine(s) == Servable(s) => StreamSound(s) /\ QueueGenuine(s)

LEMMA StreamSoundStep ==
  ASSUME ServerTypeOK, NEW req \in SUBSET Datagram, [ServerNext(req)]_server_vars, ServerTypeOK',
         NEW s \in Servers, Servable(s), StreamSound(s)
  PROVE  StreamSound(s)'
<1> USE DEF StreamSound
<1>1. /\ ServerCount(s) \in Nat /\ next_block[s] \in Nat /\ intact[s] \in Nat /\ intact'[s] \in Nat
      /\ ServerCount(s)' = ServerCount(s) /\ SourceOf(s)' = SourceOf(s)
  BY BlockServerAssumption, BlockCountType DEF ServerTypeOK, ServerCount, SourceOf
<1>2. CASE StreamKept(s)
  BY <1>1, <1>2 DEF StreamKept
<1>3. CASE StreamOpened(s)
  BY <1>1, <1>3 DEF StreamOpened, Servable
<1>4. CASE StreamReset(s)
  BY <1>1, <1>4 DEF StreamReset
<1>5. CASE BlockPassed(s)
  <2>1. SUFFICES ASSUME next_block[s] + 1 < intact[s] PROVE ~input_fail'[s]
    BY <1>1, <1>5 DEF BlockPassed
  <2>2. ~input_fail[s] /\ source_now[s] = SourceOf(s)
    BY <1>1, <2>1
  <2>3. ReadInput(s, next_block[s]) = ReadFrom(SourceOf(s), BlockSize * next_block[s])
    BY <1>1, <1>5, <2>2, OffsetExact DEF BlockPassed, ReadInput
  <2>4. ~InputFailsAt(s, next_block[s])
    BY <1>1, <1>5, <2>1, <2>2, <2>3, ShortReadIsLast DEF BlockPassed, InputFailsAt
  <2> QED
    BY <1>5, <2>2, <2>4 DEF BlockPassed
<1>6. CASE FileChanged(s)
  BY <1>1, <1>6 DEF FileChanged
<1> QED
  BY <1>2, <1>3, <1>4, <1>5, <1>6, StreamSteps DEF StreamStep

LEMMA QueueGenuineStep ==
  ASSUME ServerTypeOK, NEW req \in SUBSET Datagram, [ServerNext(req)]_server_vars,
         ServerTypeOK', NEW s \in Servers, Servable(s), StreamSound(s), QueueGenuine(s)
  PROVE  QueueGenuine(s)'
<1> DEFINE q == server_queue[s]
           n == next_block[s]
<1>1. /\ q \in Seq(Datagram) /\ n \in Nat /\ intact[s] \in Nat /\ intact'[s] \in Nat
      /\ \A i \in Queued(s) : BlockQueued(s, i) => q[i].block \in Nat
  <2>1. q \in Seq(Datagram) /\ n \in Nat /\ intact[s] \in Nat /\ intact'[s] \in Nat
    BY DEF ServerTypeOK
  <2> QED
    BY <2>1 DEF Queued, BlockQueued, Datagram
<1>2. ServerInfo(s).type # "BLOCK"
  BY DEF ServerInfo, InfoMsg
<1>3. CASE Unmoved(s)
  BY <1>1, <1>3 DEF Unmoved, QueueGenuine, Queued, BlockQueued, SourceOf
<1>4. CASE Emptied(s)
  BY <1>2, <1>4 DEF Emptied, QueueGenuine, Queued, BlockQueued
<1>5. CASE Announced(s)
  BY <1>1, <1>2, <1>5, AppendFacts DEF Announced, QueueGenuine, Queued, BlockQueued, SourceOf
<1>6. CASE BlockAdded(s)
  <2>1. n \in Blocks(SourceOf(s)) /\ n < ServerCount(s)
    BY <1>1, <1>6, BlockServerAssumption, BlockCountType
    DEF BlockAdded, Blocks, ServerCount, SourceOf
  <2>2. n < intact[s] => ReadInput(s, n) = BlockBytes(SourceOf(s), n)
    BY <1>1, <2>1, OffsetExact DEF StreamSound, ReadInput, BlockBytes
  <2>3. /\ BlockAt(s, n).file = SourceOf(s) /\ BlockAt(s, n).block = n
        /\ BlockAt(s, n).block < intact[s] => Genuine(BlockAt(s, n))
    BY <2>1, <2>2 DEF BlockAt, BlockMsg, Genuine
  <2>4. q' = Append(q, BlockAt(s, n)) /\ intact'[s] = intact[s]
    BY <1>6 DEF BlockAdded
  <2>5. /\ DOMAIN q' = DOMAIN q \cup {Len(q) + 1}
        /\ \A i \in DOMAIN q : q'[i] = q[i]
        /\ q'[Len(q) + 1] = BlockAt(s, n)
    BY <1>1, <2>4, AppendFacts
  <2>6. ASSUME NEW i \in DOMAIN q', q'[i].type = "BLOCK"
        PROVE  q'[i].file = SourceOf(s) /\ (q'[i].block < intact'[s] => Genuine(q'[i]))
    <3>1. CASE i \in DOMAIN q
      BY <2>4, <2>5, <2>6, <3>1 DEF QueueGenuine, Queued, BlockQueued
    <3>2. CASE i = Len(q) + 1
      BY <2>3, <2>4, <2>5, <3>2
    <3> QED
      BY <2>5, <3>1, <3>2
  <2> QED
    BY <2>6 DEF QueueGenuine, Queued, BlockQueued, SourceOf, Genuine
<1>7. CASE Sent(s)
  <2>1. /\ q # <<>> /\ q' = Tail(q) /\ intact'[s] = intact[s]
    BY <1>7 DEF Sent
  <2>2. \A i \in DOMAIN q' : i + 1 \in DOMAIN q /\ q'[i] = q[i + 1]
    BY <1>1, <2>1, TailFacts
  <2> QED
    BY <2>1, <2>2 DEF QueueGenuine, Queued, BlockQueued, SourceOf, Genuine
<1> QED
  BY <1>3, <1>4, <1>5, <1>6, <1>7, QueueSteps

LEMMA ServesGenuineStep ==
  ASSUME ServerTypeOK, NEW req \in SUBSET Datagram, [ServerNext(req)]_server_vars, ServerTypeOK',
         \A s \in Servers : ServesGenuine(s)
  PROVE  \A s \in Servers : ServesGenuine(s)'
<1> SUFFICES ASSUME NEW s \in Servers, Servable(s)
             PROVE  StreamSound(s)' /\ QueueGenuine(s)'
  BY DEF ServesGenuine, Servable, ServerCount, SourceOf
<1>1. StreamSound(s) /\ QueueGenuine(s)
  BY DEF ServesGenuine
<1> QED
  BY <1>1, StreamSoundStep, QueueGenuineStep

LEMMA ServesGenuineInit == ServerInit => \A s \in Servers : ServesGenuine(s)
<1>1. \A s \in Servers : ServerCount(s) \in Nat
  BY BlockServerAssumption, BlockCountType DEF ServerCount, SourceOf
<1> QED
  BY <1>1 DEF ServerInit, ServesGenuine, StreamSound, QueueGenuine, Queued, BlockQueued, SourceOf

(* Every block a server queues is a block of its file, with its own bytes  *)
(* when they were read before the file changed.                            *)
THEOREM ServerBlocksGenuine == ServerSpec => []BlocksGenuine
<1> DEFINE Inv == \A s \in Servers : ServesGenuine(s)
<1>1. ServerTypeOK /\ ServerTypeOK' /\ [ServerNext(Requests)]_server_vars /\ Inv => Inv'
  BY ServesGenuineStep, RequestsType
<1>2. Inv => BlocksGenuine
  BY DEF ServesGenuine, QueueGenuine, BlocksGenuine
<1> QED
  BY <1>1, <1>2, ServesGenuineInit, ServerTypeCorrect, PTL DEF ServerSpec

-----------------------------------------------------------------------------
(* The inductive step of WriteHasFront: only a read that found the socket  *)
(* writable leads to "write", and a handler never shortens the queue.      *)
LEMMA WriteHasFrontStep ==
  ASSUME ServerTypeOK, WriteHasFront, NEW req \in SUBSET Datagram, [ServerNext(req)]_server_vars
  PROVE  WriteHasFront'
<1> USE DEF WriteHasFront
<1>0. /\ server_pc = [s \in Servers |-> server_pc[s]]
      /\ server_queue \in [Servers -> Seq(Datagram)]
  BY DEF ServerTypeOK
<1>1. CASE UNCHANGED server_vars
  BY <1>1 DEF server_vars
<1>2. ASSUME NEW s \in Servers, NEW pc \in {"idle", "loop", "select", "done", "failed"},
             server_pc' = [server_pc EXCEPT ![s] = pc],
             \A t \in Servers \ {s} : server_queue'[t] = server_queue[t]
      PROVE  WriteHasFront'
  BY <1>0, <1>2
<1>3. ASSUME NEW s \in Servers, NEW why \in {"done", "failed"}, ServerGone(s, why)
      PROVE  WriteHasFront'
  BY <1>0, <1>2, <1>3 DEF ServerGone
<1>4. ASSUME NEW s \in Servers, ServerStart(s) \/ EnqueueBlock(s) \/ ServerDrain(s) \/ ServerWrite(s)
      PROVE  WriteHasFront'
  BY <1>0, <1>2, <1>4 DEF ServerStart, EnqueueBlock, ServerDrain, ServerWrite
<1>5. ASSUME NEW s \in Servers, NEW m \in req, NEW both \in BOOLEAN, ServerRead(s, m, both)
      PROVE  WriteHasFront'
  <2>1. /\ server_pc' = [server_pc EXCEPT ![s] = IF both THEN "write" ELSE "loop"]
        /\ both => server_queue[s] # <<>>
    BY <1>5 DEF ServerRead, PollWrite
  <2>2. \/ UNCHANGED server_queue
        \/ server_queue' = [server_queue EXCEPT ![s] = @ \o <<ServerInfo(s)>>]
    <3>1. CASE HandleGet(s, m)
      <4>1. Answer(s, m) = <<ServerInfo(s)>>
        BY <1>5, <3>1, AnswerIsInfo DEF ServerRead, HandleGet
      <4> QED
        BY <3>1, <4>1 DEF HandleGet, Enqueued
    <3> QED
      BY <1>5, <3>1 DEF ServerRead, Handle, HandleChello, HandleCgoodbye, IgnoreUnknown
  <2>3. CASE UNCHANGED server_queue
    BY <1>0, <2>1, <2>3
  <2>4. CASE server_queue' = [server_queue EXCEPT ![s] = @ \o <<ServerInfo(s)>>]
    <3>1. server_queue'[s] # <<>>
      BY <1>0, <2>4
    <3>2. \A t \in Servers \ {s} : server_queue'[t] = server_queue[t] /\ server_pc'[t] = server_pc[t]
      BY <1>0, <2>1, <2>4
    <3> QED
      BY <3>1, <3>2
  <2> QED
    BY <2>2, <2>3, <2>4
<1>6. ASSUME NEW s \in Servers, SourceChanges(s) PROVE WriteHasFront'
  BY <1>6 DEF SourceChanges
<1> QED
  BY <1>1, <1>3, <1>4, <1>5, <1>6
  DEF ServerNext, ServerStep, ServerLoop, ServerFinish, ServerKilled, ServerFail

(* front() and pop_front() always find a message.                          *)
THEOREM ServerWriteHasFront == ServerSpec => []WriteHasFront
<1>1. ServerInit => WriteHasFront
  BY DEF ServerInit, WriteHasFront
<1>2. ServerTypeOK /\ WriteHasFront /\ [ServerNext(Requests)]_server_vars => WriteHasFront'
  BY WriteHasFrontStep, RequestsType
<1> QED
  BY <1>1, <1>2, ServerTypeCorrect, PTL DEF ServerSpec

-----------------------------------------------------------------------------
(* OnlyHostsAddWork of one server and one step.                            *)
NearerToEnd(t) ==
  server_pc[t] \in Running /\ server_pc'[t] \in Running /\ host_info'[t] = {}
    => \/ WorkLeft(t)' < WorkLeft(t)
       \/ UNCHANGED <<next_block[t], server_queue[t]>>

(* A turn of the for loop takes two from the work and adds one message at  *)
(* most, a send takes one; what adds a message otherwise is an answer, and *)
(* that registers a host in the same step.                                 *)
LEMMA NearerToEndStep ==
  ASSUME ServerTypeOK, NEW req \in SUBSET Datagram, [ServerNext(req)]_server_vars, NEW t \in Servers
  PROVE  NearerToEnd(t)
<1>0. /\ ServerCount(t) \in Nat /\ next_block[t] \in Nat /\ server_queue[t] \in Seq(Datagram)
      /\ WorkLeft(t)' = 2 * (ServerCount(t) - next_block'[t]) + Len(server_queue'[t])
  BY BlockServerAssumption, BlockCountType DEF ServerTypeOK, WorkLeft, ServerCount, SourceOf
<1>1. CASE UNCHANGED <<next_block[t], server_queue[t]>>
  BY <1>1 DEF NearerToEnd
<1>2. ASSUME NEW s \in Servers, EnqueueBlock(s) PROVE NearerToEnd(t)
  <2>1. CASE s = t
    <3>1. /\ next_block'[t] = next_block[t] + 1
          /\ server_queue'[t] \in
               {server_queue[t], server_queue[t] \o <<BlockAt(t, next_block[t])>>}
      BY <1>2, <2>1 DEF EnqueueBlock, Enqueued, ServerTypeOK
    <3>2. \A e : Len(server_queue[t] \o <<e>>) = Len(server_queue[t]) + 1
      BY <1>0
    <3>3. Len(server_queue'[t]) \in {Len(server_queue[t]), Len(server_queue[t]) + 1}
      BY <3>1, <3>2
    <3>4. WorkLeft(t)' < WorkLeft(t)
      BY <1>0, <3>1, <3>3 DEF WorkLeft
    <3> QED
      BY <3>4 DEF NearerToEnd
  <2> QED
    BY <1>1, <1>2, <2>1 DEF EnqueueBlock, ServerTypeOK
<1>3. ASSUME NEW s \in Servers, ServerWrite(s) PROVE NearerToEnd(t)
  <2>1. CASE s = t
    <3>1. server_queue[t] # <<>> /\ server_queue'[t] = Tail(server_queue[t])
          /\ next_block'[t] = next_block[t]
      BY <1>3, <2>1 DEF ServerWrite, PollWrite, ServerTypeOK
    <3>2. Len(server_queue'[t]) = Len(server_queue[t]) - 1 /\ Len(server_queue[t]) \in Nat
      BY <1>0, <3>1
    <3>3. WorkLeft(t)' < WorkLeft(t)
      BY <1>0, <3>1, <3>2 DEF WorkLeft
    <3> QED
      BY <3>3 DEF NearerToEnd
  <2> QED
    BY <1>1, <1>3, <2>1 DEF ServerWrite, ServerTypeOK
<1>4. ASSUME NEW s \in Servers, NEW m \in req, NEW both \in BOOLEAN, ServerRead(s, m, both)
      PROVE  NearerToEnd(t)
  <2>1. CASE HandleGet(s, m) /\ s = t
    BY <1>4, <2>1 DEF HandleGet, Register, NearerToEnd, ServerTypeOK
  <2>2. CASE HandleGet(s, m) /\ s # t
    BY <1>1, <1>4, <2>2 DEF ServerRead, HandleGet, ServerTypeOK
  <2> QED
    BY <1>1, <1>4, <2>1, <2>2
    DEF ServerRead, Handle, HandleChello, HandleCgoodbye, IgnoreUnknown
<1>5. ASSUME NEW s \in Servers, NEW why \in {"done", "failed"}, ServerGone(s, why)
      PROVE  NearerToEnd(t)
  BY <1>1, <1>5 DEF ServerGone, NearerToEnd, Running, ServerTypeOK
<1>6. ASSUME NEW s \in Servers, ServerStart(s) PROVE NearerToEnd(t)
  BY <1>1, <1>6 DEF ServerStart, NearerToEnd, ServerTypeOK
<1> QED
  BY <1>1, <1>2, <1>3, <1>4, <1>5, <1>6
  DEF ServerNext, ServerStep, ServerLoop, ServerDrain, ServerFinish, ServerKilled, ServerFail,
      SourceChanges, server_vars

(* Nothing but a datagram that registers its sender adds to what a running *)
(* server has to do; every turn of its loop and every send takes from it.  *)
THEOREM ServerNearsItsEnd == ServerSpec => OnlyHostsAddWork
<1>1. ServerTypeOK /\ [ServerNext(Requests)]_server_vars
        => [\A s \in Servers : NearerToEnd(s)]_server_vars
  BY NearerToEndStep, RequestsType
<1>2. [\A s \in Servers : NearerToEnd(s)]_server_vars
        => [\A s \in Servers :
              server_pc[s] \in Running /\ server_pc'[s] \in Running /\ host_info'[s] = {}
                => \/ WorkLeft(s)' < WorkLeft(s)
                   \/ UNCHANGED <<next_block[s], server_queue[s]>>]_server_vars
  BY DEF NearerToEnd
<1> QED
  BY <1>1, <1>2, ServerTypeCorrect, PTL DEF ServerSpec, OnlyHostsAddWork
=============================================================================
