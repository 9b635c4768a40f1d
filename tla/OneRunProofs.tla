---------------------------- MODULE OneRunProofs ----------------------------
(***************************************************************************)
(* Proofs about one run of the program on a network that loses nothing.    *)
(***************************************************************************)
EXTENDS OneRun, MultisyncProofs

-----------------------------------------------------------------------------
(* What each process has to say in its one run, what of it is in its       *)
(* message_queue, and what it has not got to yet.                          *)
Speakers == Servers \cup Clients

Words(p) == IF p \in Servers THEN ServerSays(p) ELSE {ChelloMsg(HostOf[p])}
Outbox(p) == IF p \in Servers THEN server_queue[p] ELSE client_queue[p]

BlocksToCome(s) == {BlockOf(s, b) : b \in {i \in Blocks(SourceOf(s)) : i >= next_block[s]}}

ServerUnspoken(s) ==
  IF server_pc[s] = "idle" THEN ServerSays(s)
  ELSE IF server_pc[s] \in Running THEN BlocksToCome(s) ELSE {}

Unspoken(p) ==
  IF p \in Servers THEN ServerUnspoken(p)
  ELSE IF client_pc[p] = "idle" THEN Words(p) ELSE {}

-----------------------------------------------------------------------------
(* The inductive invariant of ReturnedWhenDelivered.                       *)

(* A server begins when every client has had its chance to listen.         *)
ListenersFirst ==
  \A c \in Clients, s \in Servers : client_pc[c] = "idle" => server_pc[s] = "idle"

(* A server hears nothing, so that its loop alternates between queueing    *)
(* and sending and the queue never gets near QueueLimit.                   *)
ServerAlone(s) ==
  /\ sock[s] # GroupPort /\ rx[s] = <<>>
  /\ server_pc[s] \in {"idle", "loop", "select", "done"}
  /\ server_pc[s] \in {"idle", "done"} => server_queue[s] = <<>> /\ next_block[s] = 0
  /\ server_pc[s] = "loop" => Len(server_queue[s]) <= 1
  /\ server_pc[s] = "select" => Len(server_queue[s]) <= 2

(* Every word is in one stage at a time: not yet said, in the outbox of    *)
(* its speaker, or, once at most, in the buffers of those who listen.      *)
OutboxOnce(p) ==
  /\ IsInjective(Outbox(p))
  /\ Range(Outbox(p)) \subseteq Words(p)
  /\ Range(Outbox(p)) \cap Unspoken(p) = {}

HeardOnce(q) ==
  /\ IsInjective(rx[q])
  /\ Range(rx[q]) \subseteq Said
  /\ \A p \in Speakers : Range(rx[q]) \cap (Unspoken(p) \cup Range(Outbox(p))) = {}

(* A status that is complete is one that is installed.                     *)
Ready(c) ==
  \A f \in Following(c) : sync_set[c][f].goodbye_received /\ ~sync_set[c][f].moved

(* What c has made of the word w of s: it has the file, or the status that *)
(* the word leaves.                                                        *)
Takes(s, w, st) == IF w.type = "INFO" THEN st.path = Dest[s] ELSE st.block_array[w.block]

Taken(c, s, w) ==
  \/ Has(c, s)
  \/ SourceOf(s) \in Following(c) /\ Takes(s, w, sync_set[c][SourceOf(s)])

(* No word is lost on the way from s to a client that listens.             *)
Delivered(c, s) ==
  sock[c] = GroupPort =>
    \A w \in ServerSays(s) :
      w \in Unspoken(s) \cup Range(Outbox(s)) \cup Range(rx[c]) \/ Taken(c, s, w)

RunSound ==
  /\ ListenersFirst
  /\ \A s \in Servers : ServerAlone(s)
  /\ \A p \in Speakers : OutboxOnce(p)
  /\ \A q \in Processes : HeardOnce(q)
  /\ \A c \in Clients : Ready(c)
  /\ \A c \in Clients, s \in Servers : Delivered(c, s)

-----------------------------------------------------------------------------
(* Sequences without repetitions.                                          *)
LEMMA AppendOnce ==
  ASSUME NEW S, NEW q \in Seq(S), NEW e
  PROVE  /\ Range(Append(q, e)) = Range(q) \cup {e}
         /\ IsInjective(q) /\ e \notin Range(q) => IsInjective(Append(q, e))
<1>1. /\ DOMAIN Append(q, e) = DOMAIN q \cup {Len(q) + 1}
      /\ \A i \in DOMAIN q : Append(q, e)[i] = q[i]
      /\ Append(q, e)[Len(q) + 1] = e
  OBVIOUS
<1> DEFINE r == Append(q, e)
<1> HIDE DEF r
<1>2. Range(r) = Range(q) \cup {e}
  BY <1>1 DEF Range, r
<1>3. IsInjective(q) /\ e \notin Range(q) => IsInjective(r)
  BY <1>1 DEF Range, IsInjective, r
<1> QED
  BY <1>2, <1>3 DEF r

LEMMA AppendNothing ==
  ASSUME NEW e
  PROVE  Append(<<>>, e) = <<e>>
OBVIOUS

LEMMA TailOnce ==
  ASSUME NEW S, NEW q \in Seq(S), q # <<>>, IsInjective(q)
  PROVE  /\ Head(q) \in Range(q)
         /\ Range(Tail(q)) = Range(q) \ {Head(q)}
         /\ IsInjective(Tail(q))
<1> DEFINE r == Tail(q)
<1>1. /\ 1 \in DOMAIN q /\ Head(q) = q[1]
      /\ r \in Seq(S) /\ DOMAIN q = 1 .. Len(q) /\ DOMAIN r = 1 .. Len(q) - 1 /\ Len(q) \in Nat
      /\ \A i \in DOMAIN r : r[i] = q[i + 1]
  OBVIOUS
<1> HIDE DEF r
<1>2. Range(r) \subseteq Range(q) \ {Head(q)}
  BY <1>1 DEF Range, IsInjective
<1>3. ASSUME NEW i \in DOMAIN q, q[i] # Head(q) PROVE q[i] \in Range(r)
  <2>1. i - 1 \in DOMAIN r /\ r[i - 1] = q[i]
    BY <1>1, <1>3
  <2> QED
    BY <2>1 DEF Range
<1>4. IsInjective(r)
  BY <1>1 DEF IsInjective
<1>5. Head(q) \in Range(q)
  BY <1>1 DEF Range
<1>6. Range(q) \ {Head(q)} \subseteq Range(r)
  <2> SUFFICES ASSUME NEW e \in Range(q), e # Head(q) PROVE e \in Range(r)
    OBVIOUS
  <2> QED
    BY <1>3 DEF Range
<1> QED
  BY <1>2, <1>4, <1>5, <1>6 DEF r

(* Taking the first element with RemoveAt is taking the tail.              *)
LEMMA RemovesHead ==
  ASSUME NEW S, NEW q \in Seq(S), 1 \in DOMAIN q
  PROVE  q # <<>> /\ RemoveAt(q, 1) = Tail(q) /\ q[1] = Head(q)
<1>1. q # <<>> /\ q[1] = Head(q) /\ Tail(q) = SubSeq(q, 2, Len(q))
  OBVIOUS
<1>2. SubSeq(q, 1, 0) = <<>> /\ SubSeq(q, 2, Len(q)) \in Seq(S)
  OBVIOUS
<1>3. RemoveAt(q, 1) = SubSeq(q, 1, 0) \o SubSeq(q, 2, Len(q))
  BY DEF RemoveAt
<1>4. \A r \in Seq(S) : <<>> \o r = r
  OBVIOUS
<1>5. RemoveAt(q, 1) = SubSeq(q, 2, Len(q))
  BY <1>2, <1>3, <1>4
<1> QED
  BY <1>1, <1>5

(* A sequence without repetitions is no longer than what it is made of.    *)
LEMMA OnceIsShort ==
  ASSUME NEW S, NEW q \in Seq(S), IsInjective(q), NEW T, IsFiniteSet(T), Range(q) \subseteq T
  PROVE  Len(q) <= Cardinality(T)
<1>1. /\ Len(q) \in Nat /\ DOMAIN q = 1 .. Len(q) /\ q \in [1 .. Len(q) -> S]
      /\ \A i \in 1 .. Len(q) : q[i] \in T
  BY DEF Range
<1>2. q \in [1 .. Len(q) -> T]
  BY <1>1
<1>3. q \in Injection(1 .. Len(q), T)
  BY <1>2 DEF Injection
<1>4. Cardinality(1 .. Len(q)) <= Cardinality(T)
  BY <1>3, FS_Injection
<1>5. Cardinality(1 .. Len(q)) = Len(q)
  BY <1>1, FS_Interval
<1> QED
  BY <1>4, <1>5

LEMMA ImageFinite ==
  ASSUME NEW S, IsFiniteSet(S), NEW f, f = [x \in S |-> f[x]]
  PROVE  IsFiniteSet(Range(f))
<1>1. f \in [S -> Range(f)] /\ \A y \in Range(f) : \E x \in S : f[x] = y
  BY DEF Range
<1>2. f \in Surjection(S, Range(f))
  BY <1>1 DEF Surjection
<1> QED
  BY <1>2, FS_Surjection

-----------------------------------------------------------------------------
(* The words.                                                              *)
LEMMA SaysFinite ==
  ASSUME NEW s \in Servers
  PROVE  IsFiniteSet(ServerSays(s))
<1> DEFINE B == Blocks(SourceOf(s))
           F == [b \in B |-> BlockOf(s, b)]
<1>1. IsFiniteSet(B)
  BY BlockServerAssumption, BlocksFinite DEF SourceOf
<1>2. IsFiniteSet(Range(F))
  BY <1>1, ImageFinite
<1>3. ServerSays(s) = Range(F) \cup {ServerInfo(s)}
  BY DEF ServerSays, Range
<1> QED
  BY <1>2, <1>3, FS_AddElement

LEMMA SaidFinite ==
  ASSUME IsFiniteSet(Servers), IsFiniteSet(Clients)
  PROVE  IsFiniteSet(Said)
<1> DEFINE F == [s \in Servers |-> ServerSays(s)]
           G == [c \in Clients |-> ChelloMsg(HostOf[c])]
<1>1. IsFiniteSet(UNION Range(F))
  <2>1. IsFiniteSet(Range(F))
    BY ImageFinite
  <2>2. \A T \in Range(F) : IsFiniteSet(T)
    BY SaysFinite DEF Range
  <2> QED
    BY <2>1, <2>2, FS_UNION
<1>2. IsFiniteSet(Range(G))
  BY ImageFinite
<1>3. Said = (UNION Range(F)) \cup Range(G)
  BY DEF Said, Range
<1> QED
  BY <1>1, <1>2, <1>3, FS_Union

(* Each word has one speaker.                                              *)
LEMMA WordsApart ==
  ASSUME LosesNothing, ServesApart
  PROVE  \A p, q \in Speakers : p # q => Words(p) \cap Words(q) = {}
BY BlockServerAssumption
DEF LosesNothing, ServesApart, Speakers, Words, ServerSays, ServerInfo, BlockOf, InfoMsg, BlockMsg,
    ChelloMsg

LEMMA WordsSaid ==
  ASSUME NEW p \in Speakers
  PROVE  Words(p) \subseteq Said
BY DEF Speakers, Words, Said

LEMMA UnspokenWords ==
  ASSUME NEW p \in Speakers
  PROVE  Unspoken(p) \subseteq Words(p)
BY DEF Unspoken, ServerUnspoken, BlocksToCome, Words, ServerSays

(* The words are the same in every state.                                  *)
LEMMA WordsConstant ==
  ASSUME NEW p \in Speakers
  PROVE  Words(p)' = Words(p) /\ Said' = Said
BY DEF Words, Said, ServerSays, ServerInfo, BlockOf, SourceOf

-----------------------------------------------------------------------------
(* What one step can do to the words: p queues one, sends one to some of   *)
(* those who listen, reads one, or stops and forgets them.                 *)
Keeps(p) == Outbox(p)' = Outbox(p) /\ Unspoken(p)' = Unspoken(p)
OthersKeep(p) == \A x \in Speakers \ {p} : Keeps(x)

Queues(p) ==
  /\ \E w \in Unspoken(p) :
       Outbox(p)' = Append(Outbox(p), w) /\ Unspoken(p)' = Unspoken(p) \ {w}
  /\ OthersKeep(p) /\ UNCHANGED rx

Speaks(p) ==
  /\ Outbox(p) # <<>> /\ Send(Head(Outbox(p)))
  /\ Outbox(p)' = Tail(Outbox(p)) /\ Unspoken(p)' = Unspoken(p)
  /\ OthersKeep(p)

Hears(q) ==
  /\ rx[q] # <<>> /\ rx' = [rx EXCEPT ![q] = Tail(@)]
  /\ \A x \in Speakers : Keeps(x)

Stops(p) ==
  /\ p \in Speakers => /\ Outbox(p)' \in {Outbox(p), <<>>}
                       /\ Unspoken(p)' \subseteq Unspoken(p)
  /\ OthersKeep(p)
  /\ UNCHANGED rx \/ rx' = [rx EXCEPT ![p] = <<>>]

Silence == UNCHANGED rx /\ \A x \in Speakers : Keeps(x)

SpeechStep ==
  \/ Silence
  \/ \E p \in Speakers : Queues(p) \/ Speaks(p)
  \/ \E q \in Processes : Hears(q) \/ Stops(q)

SpeechTypeOK ==
  /\ \A p \in Speakers : Outbox(p) \in Seq(Datagram)
  /\ rx \in [Processes -> Seq(Datagram)]

WordsOnce ==
  /\ \A p \in Speakers : OutboxOnce(p)
  /\ \A q \in Processes : HeardOnce(q)

(* The words that p may still send.                                        *)
ToSend(p) == Unspoken(p) \cup Range(Outbox(p))

LEMMA EmptyOnce == Range(<<>>) = {} /\ IsInjective(<<>>)
BY DEF Range, IsInjective

(* The first word of an outbox is nowhere else.                            *)
LEMMA HeadOnce ==
  ASSUME SpeechTypeOK, WordsOnce, LosesNothing, ServesApart, NEW p \in Speakers, Outbox(p) # <<>>
  PROVE  /\ Head(Outbox(p)) \in Words(p) \cap Said
         /\ Head(Outbox(p)) \in ToSend(p)
         /\ Head(Outbox(p)) \notin Unspoken(p) \cup Range(Tail(Outbox(p)))
         /\ \A x \in Speakers \ {p} : Head(Outbox(p)) \notin ToSend(x)
         /\ \A q \in Processes : Head(Outbox(p)) \notin Range(rx[q])
<1> DEFINE w == Head(Outbox(p))
<1>1. w \in Range(Outbox(p)) /\ Range(Tail(Outbox(p))) = Range(Outbox(p)) \ {w}
  BY TailOnce DEF SpeechTypeOK, WordsOnce, OutboxOnce
<1>2. w \in Words(p) /\ w \notin Unspoken(p)
  BY <1>1 DEF WordsOnce, OutboxOnce
<1>3. \A x \in Speakers : ToSend(x) \subseteq Words(x)
  BY UnspokenWords DEF ToSend, WordsOnce, OutboxOnce
<1> QED
  BY <1>1, <1>2, <1>3, WordsApart, WordsSaid DEF ToSend, WordsOnce, HeardOnce

(* A listener has space for a word that is sent, so nothing is dropped.    *)
LEMMA EveryoneHears ==
  ASSUME SpeechTypeOK, WordsOnce, LosesNothing, ServesApart, NEW p \in Speakers, Speaks(p)
  PROVE  rx' = [q \in Processes |->
                  IF q \in Listeners THEN Append(rx[q], Head(Outbox(p))) ELSE rx[q]]
<1> DEFINE w == Head(Outbox(p))
<1>1. w \in Said /\ \A q \in Processes : w \notin Range(rx[q])
  BY HeadOnce DEF Speaks
<1>2. IsFiniteSet(Said)
  BY SaidFinite DEF LosesNothing
<1>3. /\ IsFiniteSet(Said \ {w})
      /\ Cardinality(Said \ {w}) = Cardinality(Said) - 1
      /\ Cardinality(Said) \in Nat
  BY <1>1, <1>2, FS_RemoveElement, FS_CardinalityType
<1>4. ASSUME NEW q \in Processes PROVE HasSpace(q)
  <2>1. rx[q] \in Seq(Datagram) /\ IsInjective(rx[q]) /\ Range(rx[q]) \subseteq Said \ {w}
    BY <1>1 DEF SpeechTypeOK, WordsOnce, HeardOnce
  <2>2. Len(rx[q]) <= Cardinality(Said \ {w}) /\ Len(rx[q]) \in Nat
    BY <1>3, <2>1, OnceIsShort
  <2> QED
    BY <1>3, <2>2, BlockSocketAssumption DEF HasSpace, LosesNothing
<1> QED
  BY <1>4 DEF Speaks, Send, Listeners, LosesNothing

(* Whoever queues, sends, reads or stops, in whatever order: no word is    *)
(* said, or heard, twice.                                                  *)
LEMMA OutboxOnceStep ==
  ASSUME SpeechTypeOK, WordsOnce, SpeechStep, NEW x \in Speakers
  PROVE  OutboxOnce(x)' /\ ToSend(x)' \subseteq ToSend(x)
<1> USE DEF OutboxOnce
<1>1. OutboxOnce(x) /\ Outbox(x) \in Seq(Datagram) /\ Words(x)' = Words(x)
  BY WordsConstant DEF WordsOnce, SpeechTypeOK
<1>2. CASE Keeps(x)
  BY <1>1, <1>2 DEF Keeps, ToSend
<1>3. CASE Queues(x)
  <2>1. PICK w \in Unspoken(x) :
          Outbox(x)' = Append(Outbox(x), w) /\ Unspoken(x)' = Unspoken(x) \ {w}
    BY <1>3 DEF Queues
  <2>2. w \in Words(x) /\ w \notin Range(Outbox(x))
    BY <1>1, UnspokenWords
  <2>3. Range(Outbox(x)') = Range(Outbox(x)) \cup {w} /\ IsInjective(Outbox(x)')
    BY <1>1, <2>1, <2>2, AppendOnce
  <2> QED
    BY <1>1, <2>1, <2>2, <2>3 DEF ToSend
<1>4. CASE Speaks(x)
  <2>1. Range(Outbox(x)') \subseteq Range(Outbox(x)) /\ IsInjective(Outbox(x)')
    BY <1>1, <1>4, TailOnce DEF Speaks
  <2> QED
    BY <1>1, <1>4, <2>1 DEF Speaks, ToSend
<1>5. CASE Stops(x)
  <2>1. Range(Outbox(x)') \subseteq Range(Outbox(x)) /\ IsInjective(Outbox(x)')
    BY <1>1, <1>5, EmptyOnce DEF Stops
  <2> QED
    BY <1>1, <1>5, <2>1 DEF Stops, ToSend
<1> QED
  BY <1>2, <1>3, <1>4, <1>5 DEF SpeechStep, Silence, Queues, Speaks, Hears, Stops, OthersKeep

LEMMA HeardOnceStep ==
  ASSUME SpeechTypeOK, WordsOnce, LosesNothing, ServesApart, SpeechStep, NEW q \in Processes
  PROVE  HeardOnce(q)'
<1> DEFINE Goal == /\ IsInjective(rx'[q]) /\ Range(rx'[q]) \subseteq Said
                   /\ \A x \in Speakers : Range(rx'[q]) \cap ToSend(x)' = {}
<1>1. /\ rx[q] \in Seq(Datagram) /\ DOMAIN rx = Processes
      /\ IsInjective(rx[q]) /\ Range(rx[q]) \subseteq Said
      /\ \A x \in Speakers : Range(rx[q]) \cap ToSend(x) = {}
  BY DEF SpeechTypeOK, WordsOnce, HeardOnce, ToSend
<1>2. \A x \in Speakers : ToSend(x)' \subseteq ToSend(x)
  BY OutboxOnceStep
<1>3. Said' = Said
  BY DEF Said, ServerSays, ServerInfo, BlockOf, SourceOf
<1>4. SUFFICES Goal
  BY <1>3 DEF HeardOnce, ToSend
<1>5. CASE rx'[q] \in {rx[q], <<>>}
  BY <1>1, <1>2, <1>5, EmptyOnce
<1>6. CASE rx[q] # <<>> /\ rx'[q] = Tail(rx[q])
  BY <1>1, <1>2, <1>6, TailOnce
<1>7. ASSUME NEW p \in Speakers, Speaks(p), q \in Listeners PROVE Goal
  <2> DEFINE w == Head(Outbox(p))
  <2>1. rx'[q] = Append(rx[q], w)
    BY <1>7, EveryoneHears
  <2>2. /\ w \in Said /\ w \notin Unspoken(p) \cup Range(Tail(Outbox(p))) /\ w \notin Range(rx[q])
        /\ \A x \in Speakers \ {p} : w \notin ToSend(x)
    BY <1>7, HeadOnce DEF Speaks
  <2>3. w \notin ToSend(p)'
    BY <1>7, <2>2 DEF Speaks, ToSend
  <2>4. Range(rx'[q]) = Range(rx[q]) \cup {w} /\ IsInjective(rx'[q])
    BY <1>1, <2>1, <2>2, AppendOnce
  <2> HIDE DEF w
  <2> QED
    BY <1>1, <1>2, <2>2, <2>3, <2>4
<1>8. ASSUME NEW p \in Speakers, Speaks(p), q \notin Listeners PROVE rx'[q] = rx[q]
  BY <1>8, EveryoneHears
<1> QED
  BY <1>1, <1>4, <1>5, <1>6, <1>7, <1>8 DEF SpeechStep, Silence, Queues, Hears, Stops

-----------------------------------------------------------------------------
(* The steps of the program, seen as steps of the words.                   *)
RunBase ==
  /\ ProgramSound /\ SocketsSound
  /\ \A s \in Servers : ServerAlone(s)

LEMMA RunBaseTypes ==
  ASSUME RunBase
  PROVE  /\ SpeechTypeOK /\ ServerTypeOK /\ ProcessTypeOK
         /\ sock \in [Processes -> Nat]
         /\ DOMAIN sync_set = Clients
<1>1. \A q \in Processes : rx[q] \in Seq(Datagram)
  BY HarmlessDatagram DEF RunBase, ProgramSound, NetworkSound
<1>2. \A c \in Clients : client_queue[c] \in Seq(Datagram)
  <2>1. Greeting \subseteq Datagram
    BY DEF Greeting
  <2> QED
    BY <2>1 DEF RunBase, ProgramSound, ClientsSound, ProcessTypeOK
<1>3. \A s \in Servers : server_queue[s] \in Seq(Datagram)
  BY DEF RunBase, ProgramSound, ServersSound, ServerTypeOK
<1>4. SpeechTypeOK
  BY <1>1, <1>2, <1>3 DEF SpeechTypeOK, Speakers, Outbox, RunBase, ProgramSound, NetworkSound
<1> QED
  BY <1>4
  DEF RunBase, ProgramSound, ServersSound, ClientsSound, ClientStatusesSound, SocketsSound

(* A block that is queued while the source stays as it is, is the word it  *)
(* is meant to be.                                                         *)
LEMMA BlockAtIsWord ==
  ASSUME RunBase, NEW s \in Servers, Servable(s), BlocksLeft(s)
  PROVE  BlockAt(s, next_block[s]) = BlockOf(s, next_block[s])
<1>1. /\ StreamSound(s) /\ intact[s] = ServerCount(s)
      /\ next_block[s] \in Nat /\ next_block[s] < ServerCount(s)
  BY DEF RunBase, ProgramSound, ServersSound, ServesGenuine, SourcesIntact, BlocksLeft, ServerTypeOK
<1>2. ~input_fail[s] /\ source_now[s] = SourceOf(s)
  BY <1>1 DEF StreamSound
<1>3. Offset(next_block[s]) = BlockSize * next_block[s]
  BY <1>1, OffsetExact
<1> QED
  BY <1>2, <1>3 DEF BlockAt, BlockOf, ReadInput, BlockBytes

LEMMA UnspokenOfServer ==
  ASSUME NEW s \in Servers
  PROVE  /\ Outbox(s) = server_queue[s] /\ Outbox(s)' = server_queue'[s]
         /\ Unspoken(s) = ServerUnspoken(s)
         /\ server_pc'[s] \in Running =>
              Unspoken(s)' = {BlockOf(s, b) : b \in {i \in Blocks(SourceOf(s)) : i >= next_block'[s]}}
         /\ server_pc'[s] = "done" => Unspoken(s)' = {}
BY DEF Outbox, Unspoken, ServerUnspoken, BlocksToCome, Running, BlockOf, SourceOf

LEMMA UnspokenOfClient ==
  ASSUME NEW c \in Clients
  PROVE  /\ Outbox(c) = client_queue[c] /\ Outbox(c)' = client_queue'[c]
         /\ Unspoken(c) = IF client_pc[c] = "idle" THEN Words(c) ELSE {}
         /\ client_pc'[c] # "idle" => Unspoken(c)' = {}
BY MultisyncAssumption DEF Outbox, Unspoken

(* Nothing that a process does changes what another one has to say.        *)
LEMMA ServerFrame ==
  ASSUME NEW s \in Servers, UNCHANGED <<client_pc, client_queue>>,
         \A t \in Servers \ {s} : /\ server_pc'[t] = server_pc[t]
                                  /\ server_queue'[t] = server_queue[t]
                                  /\ next_block'[t] = next_block[t]
  PROVE  OthersKeep(s)
BY WordsConstant
DEF OthersKeep, Keeps, Speakers, Outbox, Unspoken, ServerUnspoken, BlocksToCome, Words, BlockOf,
    SourceOf

LEMMA ClientFrame ==
  ASSUME NEW c \in Clients, UNCHANGED <<server_pc, server_queue, next_block>>,
         \A d \in Clients \ {c} : /\ client_pc'[d] = client_pc[d]
                                  /\ client_queue'[d] = client_queue[d]
  PROVE  OthersKeep(c)
BY WordsConstant
DEF OthersKeep, Keeps, Speakers, Outbox, Unspoken, ServerUnspoken, BlocksToCome, Words, BlockOf,
    SourceOf

LEMMA NobodyFrame ==
  ASSUME UNCHANGED <<server_pc, server_queue, next_block, client_pc, client_queue>>
  PROVE  \A x \in Speakers : Keeps(x)
BY WordsConstant
DEF Keeps, Speakers, Outbox, Unspoken, ServerUnspoken, BlocksToCome, Words, BlockOf, SourceOf

(* What a server does in its one run.                                      *)
LEMMA AloneActs ==
  ASSUME NEW s \in Servers, ServerAlone(s), ServerWorks(s)
  PROVE  ServerTurns(s) \/ ServerReturns(s) \/ ServerSends(s)
<1>1. Arriving(s) = {}
  BY DEF ServerAlone, Arriving, NextIn
<1> QED
  BY <1>1 DEF ServerWorks, ServerReceives, ServerDies

(* What a process hears on a network that loses nothing.                   *)
LEMMA HearsFirst ==
  ASSUME RunBase, LosesNothing, NEW q \in Processes, NEW m, Receive(q, m)
  PROVE  /\ rx[q] # <<>> /\ m = Head(rx[q]) /\ rx' = [rx EXCEPT ![q] = Tail(@)]
         /\ m \in Range(rx[q])
         /\ UNCHANGED sock
<1>1. rx[q] \in Seq(Datagram)
  BY RunBaseTypes DEF SpeechTypeOK
<1>2. 1 \in DOMAIN rx[q] /\ m = rx[q][1] /\ rx' = [rx EXCEPT ![q] = RemoveAt(@, 1)]
  BY DEF Receive, NextIn, LosesNothing
<1> QED
  BY <1>1, <1>2, RemovesHead DEF Receive, Range

LEMMA SaidTypes ==
  ASSUME NEW m \in Said
  PROVE  m.type \in {"INFO", "BLOCK", "CHELLO"}
BY DEF Said, ServerSays, ServerInfo, BlockOf, InfoMsg, BlockMsg, ChelloMsg

LEMMA BlockWordsApart ==
  ASSUME NEW s \in Servers
  PROVE  /\ \A b \in Blocks(SourceOf(s)) : BlockOf(s, b) # ServerInfo(s)
         /\ \A a, b \in Blocks(SourceOf(s)) : BlockOf(s, a) = BlockOf(s, b) => a = b
BY DEF BlockOf, ServerInfo, BlockMsg, InfoMsg

LEMMA ServesOnceSpeaks ==
  ASSUME RunBase, NEW s \in Servers, ServesOnce(s)
  PROVE  Queues(s)
<1> DEFINE w == ServerInfo(s)
<1>1. /\ server_pc[s] = "idle" /\ server_queue[s] = <<>> /\ next_block[s] = 0
      /\ server_pc' = [server_pc EXCEPT ![s] = "loop"]
      /\ server_queue' = [server_queue EXCEPT ![s] = <<w>>]
      /\ UNCHANGED <<next_block, rx, client_pc, client_queue>>
  BY DEF RunBase, ServerAlone, ServesOnce, RunServer, ServerStart, OpenSocket, client_vars
<1>2. ServerTypeOK
  BY RunBaseTypes
<1>3. OthersKeep(s)
  BY <1>1, <1>2, ServerFrame DEF ServerTypeOK
<1>4. Unspoken(s) = ServerSays(s) /\ w \in ServerSays(s)
  BY <1>1, UnspokenOfServer DEF ServerUnspoken, ServerSays
<1>5. Unspoken(s)' = ServerSays(s) \ {w}
  <2>1. server_pc'[s] = "loop" /\ next_block'[s] = 0
    BY <1>1, <1>2 DEF ServerTypeOK
  <2>2. Unspoken(s)' = {BlockOf(s, b) : b \in {i \in Blocks(SourceOf(s)) : i >= 0}}
    BY <2>1, UnspokenOfServer DEF Running
  <2>3. {i \in Blocks(SourceOf(s)) : i >= 0} = Blocks(SourceOf(s))
    BY BlockServerAssumption, BlocksFinite DEF SourceOf
  <2>4. Unspoken(s)' = {BlockOf(s, b) : b \in Blocks(SourceOf(s))}
    BY <2>2, <2>3
  <2> QED
    BY <2>4, BlockWordsApart DEF ServerSays
<1>6. Outbox(s)' = Append(Outbox(s), w)
  <2>1. Outbox(s) = <<>> /\ Outbox(s)' = <<w>>
    BY <1>1, <1>2, UnspokenOfServer DEF ServerTypeOK
  <2> QED
    BY <2>1, AppendNothing
<1> QED
  BY <1>1, <1>3, <1>4, <1>5, <1>6 DEF Queues

LEMMA EnqueueSpeaks ==
  ASSUME RunBase, NEW s \in Servers, Servable(s), EnqueueBlock(s), UNCHANGED <<rx, client_pc, client_queue>>
  PROVE  Queues(s)
<1> DEFINE i == next_block[s]
           w == BlockOf(s, i)
<1>0. ServerTypeOK
  BY RunBaseTypes
<1>1. /\ server_pc[s] = "loop" /\ server_pc' = [server_pc EXCEPT ![s] = "select"]
      /\ next_block' = [next_block EXCEPT ![s] = i + 1]
      /\ i \in Nat /\ i \in Blocks(SourceOf(s))
  BY <1>0, BlockServerAssumption, BlocksFinite
  DEF EnqueueBlock, BlocksLeft, ServerTypeOK, ServerCount, SourceOf, Blocks
<1>2. server_queue' = [server_queue EXCEPT ![s] = Append(@, w)]
  <2>1. QueueHasRoom(s)
    BY <1>0, <1>1 DEF RunBase, ServerAlone, QueueHasRoom, QueueLimit, ServerTypeOK
  <2>2. server_queue' = [server_queue EXCEPT ![s] = server_queue[s] \o <<w>>]
    BY <2>1, BlockAtIsWord DEF EnqueueBlock, Enqueued
  <2>3. server_queue[s] \o <<w>> = Append(server_queue[s], w)
    BY <1>0 DEF ServerTypeOK
  <2> QED
    BY <2>2, <2>3
<1>3. OthersKeep(s)
  BY <1>0, <1>1, <1>2, ServerFrame DEF ServerTypeOK
<1>4. Unspoken(s) = {BlockOf(s, b) : b \in {j \in Blocks(SourceOf(s)) : j >= i}}
  BY <1>1, UnspokenOfServer DEF ServerUnspoken, BlocksToCome, Running
<1>5. Unspoken(s)' = {BlockOf(s, b) : b \in {j \in Blocks(SourceOf(s)) : j >= i + 1}}
  <2>1. server_pc'[s] = "select" /\ next_block'[s] = i + 1
    BY <1>0, <1>1 DEF ServerTypeOK
  <2> QED
    BY <2>1, UnspokenOfServer DEF Running
<1>6. w \in Unspoken(s) /\ Unspoken(s)' = Unspoken(s) \ {w}
  <2>1. {j \in Blocks(SourceOf(s)) : j >= i + 1} = {j \in Blocks(SourceOf(s)) : j >= i} \ {i}
    BY <1>1, BlockServerAssumption, BlocksFinite DEF SourceOf
  <2>2. i \in {j \in Blocks(SourceOf(s)) : j >= i}
    BY <1>1
  <2> HIDE DEF i
  <2> QED
    BY <1>1, <1>4, <1>5, <2>1, <2>2, BlockWordsApart
<1>7. Outbox(s)' = Append(Outbox(s), w)
  BY <1>0, <1>2, UnspokenOfServer DEF ServerTypeOK
<1> QED
  BY <1>3, <1>6, <1>7 DEF Queues

LEMMA ServerSpeech ==
  ASSUME RunBase, NEW s \in Servers, Servable(s), ServesOnce(s) \/ ServerWorks(s)
  PROVE  Queues(s) \/ Silence \/ Speaks(s) \/ (Stops(s) /\ ToSend(s) = {})
<1>0. ServerTypeOK
  BY RunBaseTypes
<1>1. CASE ServesOnce(s)
  BY <1>1, ServesOnceSpeaks
<1>2. CASE ServerTurns(s) /\ EnqueueBlock(s)
  BY <1>2, EnqueueSpeaks DEF ServerTurns, client_vars, socket_vars
<1>3. CASE ServerTurns(s) /\ ServerDrain(s)
  <2>1. /\ server_pc[s] = "loop" /\ server_pc' = [server_pc EXCEPT ![s] = "select"]
        /\ UNCHANGED <<server_queue, next_block, rx, client_pc, client_queue>>
    BY <1>3 DEF ServerTurns, ServerDrain, client_vars, socket_vars
  <2>2. OthersKeep(s)
    BY <1>0, <2>1, ServerFrame DEF ServerTypeOK
  <2>3. server_pc'[s] \in Running /\ server_pc[s] \in Running
    BY <1>0, <2>1 DEF ServerTypeOK, Running
  <2>4. Keeps(s)
    BY <2>1, <2>3, UnspokenOfServer DEF Keeps, ServerUnspoken, BlocksToCome, Running
  <2> QED
    BY <2>1, <2>2, <2>4 DEF Silence, OthersKeep
<1>4. CASE ServerReturns(s)
  <2>1. /\ server_pc' = [server_pc EXCEPT ![s] = "done"]
        /\ server_queue' = [server_queue EXCEPT ![s] = <<>>]
        /\ next_block' = [next_block EXCEPT ![s] = 0]
        /\ rx' = [rx EXCEPT ![s] = <<>>]
        /\ UNCHANGED <<client_pc, client_queue>>
    BY <1>4 DEF ServerReturns, ServerFinish, ServerGone, CloseSocket, client_vars
  <2>2. OthersKeep(s)
    BY <1>0, <2>1, ServerFrame DEF ServerTypeOK
  <2>3. Outbox(s)' = <<>> /\ Unspoken(s)' = {}
    BY <1>0, <2>1, UnspokenOfServer DEF ServerTypeOK
  <2>4. ToSend(s) = {}
    <3>1. /\ server_pc[s] = "loop" /\ server_queue[s] = <<>>
          /\ next_block[s] = ServerCount(s) /\ ServerCount(s) \in Nat
      BY <1>0, <1>4, BlockServerAssumption, BlockCountType
      DEF ServerReturns, ServerFinish, BlocksLeft, ServesOn, ServerTypeOK, ServerCount, SourceOf
    <3>2. {i \in Blocks(SourceOf(s)) : i >= next_block[s]} = {}
      BY <3>1 DEF Blocks, ServerCount
    <3>3. Unspoken(s) = {} /\ Outbox(s) = <<>>
      BY <3>1, <3>2, UnspokenOfServer DEF ServerUnspoken, BlocksToCome, Running
    <3> QED
      BY <3>3, EmptyOnce DEF ToSend
  <2> QED
    BY <2>1, <2>2, <2>3, <2>4 DEF Stops
<1>5. CASE ServerSends(s)
  <2>1. /\ server_pc[s] \in Running /\ server_pc' = [server_pc EXCEPT ![s] = "loop"]
        /\ server_queue' = [server_queue EXCEPT ![s] = Tail(@)]
        /\ server_queue[s] # <<>> /\ Send(Head(server_queue[s]))
        /\ UNCHANGED <<next_block, client_pc, client_queue>>
    BY <1>5 DEF ServerSends, ServerWrite, PollWrite, Running, client_vars
  <2>2. OthersKeep(s)
    BY <1>0, <2>1, ServerFrame DEF ServerTypeOK
  <2>3. server_pc'[s] \in Running
    BY <1>0, <2>1 DEF ServerTypeOK, Running
  <2>4. Unspoken(s)' = Unspoken(s)
    BY <2>1, <2>3, UnspokenOfServer DEF ServerUnspoken, BlocksToCome, Running
  <2>5. Outbox(s) = server_queue[s] /\ Outbox(s)' = Tail(server_queue[s])
    BY <1>0, <2>1, UnspokenOfServer DEF ServerTypeOK
  <2> QED
    BY <2>1, <2>2, <2>4, <2>5 DEF Speaks
<1> QED
  BY <1>1, <1>2, <1>3, <1>4, <1>5, AloneActs DEF RunBase, ServerTurns

(* A client that has not been run has nothing in its outbox.               *)
LEMMA IdleOutbox ==
  ASSUME RunBase, WordsOnce, NEW c \in Clients, client_pc[c] = "idle"
  PROVE  client_queue[c] = <<>> /\ Unspoken(c) = {ChelloMsg(HostOf[c])}
<1>1. Words(c) = {ChelloMsg(HostOf[c])} /\ Unspoken(c) = Words(c) /\ Outbox(c) = client_queue[c]
  BY UnspokenOfClient, MultisyncAssumption DEF Words
<1>2. Range(client_queue[c]) = {}
  BY <1>1 DEF WordsOnce, OutboxOnce, Speakers
<1>3. client_queue[c] \in Seq(Datagram) /\ IsInjective(client_queue[c])
  BY <1>1, RunBaseTypes DEF SpeechTypeOK, Speakers, WordsOnce, OutboxOnce
<1>4. client_queue[c] = <<>>
  BY <1>2, <1>3, TailOnce
<1> QED
  BY <1>1, <1>4

LEMMA ClientSpeech ==
  ASSUME RunBase, WordsOnce, LosesNothing, NEW c \in Clients, ListensOnce(c) \/ ClientWorks(c)
  PROVE  Queues(c) \/ Stops(c) \/ Hears(c) \/ Speaks(c)
<1>0. ProcessTypeOK /\ c \in Processes
  BY RunBaseTypes, MultisyncAssumption
<1>1. ASSUME UNCHANGED server_vars, NEW pc, client_pc' = [client_pc EXCEPT ![c] = pc], pc # "idle",
             NEW q, client_queue' = [client_queue EXCEPT ![c] = q]
      PROVE  OthersKeep(c) /\ Unspoken(c)' = {} /\ Outbox(c)' = q
  <2>1. OthersKeep(c)
    BY <1>0, <1>1, ClientFrame DEF ProcessTypeOK, server_vars
  <2>2. client_pc'[c] # "idle" /\ client_queue'[c] = q
    BY <1>0, <1>1 DEF ProcessTypeOK
  <2> QED
    BY <2>1, <2>2, UnspokenOfClient
<1>2. CASE ListensOnce(c) /\ PortFree(c, GroupPort)
  <2> DEFINE w == ChelloMsg(HostOf[c])
  <2>1. /\ UNCHANGED server_vars /\ client_pc' = [client_pc EXCEPT ![c] = "select"]
        /\ client_queue' = [client_queue EXCEPT ![c] = <<w>>]
        /\ client_pc[c] = "idle" /\ UNCHANGED rx
    BY <1>2 DEF ListensOnce, RunClient, ClientStart, OpenSocket
  <2>2. OthersKeep(c) /\ Unspoken(c)' = {} /\ Outbox(c)' = <<w>>
    BY <1>1, <2>1
  <2>3. Outbox(c) = <<>> /\ Unspoken(c) = {w}
    BY <2>1, IdleOutbox, UnspokenOfClient
  <2> QED
    BY <2>1, <2>2, <2>3, AppendNothing DEF Queues
<1>3. CASE ListensOnce(c) /\ ~PortFree(c, GroupPort)
  <2>1. /\ UNCHANGED server_vars /\ client_pc' = [client_pc EXCEPT ![c] = "failed"]
        /\ client_queue' = [client_queue EXCEPT ![c] = client_queue[c]] /\ UNCHANGED rx
    BY <1>0, <1>3
    DEF ListensOnce, RunClient, ClientOpenFails, socket_vars, ProcessTypeOK
  <2>2. OthersKeep(c) /\ Unspoken(c)' = {} /\ Outbox(c)' = Outbox(c)
    BY <1>1, <2>1, UnspokenOfClient
  <2> QED
    BY <1>0, <2>1, <2>2 DEF Stops
<1>4. ASSUME NEW both \in BOOLEAN, ClientReceives(c, both) PROVE Hears(c)
  <2>1. PICK m : Receive(c, m) /\ ClientRead(c, m, both) /\ UNCHANGED server_vars
    BY <1>4 DEF ClientReceives
  <2>2. m.type \in {"INFO", "BLOCK", "CHELLO"} /\ rx[c] # <<>> /\ rx' = [rx EXCEPT ![c] = Tail(@)]
    BY <1>0, <2>1, HearsFirst, SaidTypes DEF WordsOnce, HeardOnce
  <2>3. PICK pc \in {"select", "write"} :
          /\ client_pc[c] = "select" /\ client_pc' = [client_pc EXCEPT ![c] = pc]
          /\ UNCHANGED client_queue
    BY <2>1, <2>2
    DEF ClientRead, ClientHandle, HandleInfo, HandleBlock, HandleSgoodbye, ClientIgnores
  <2>4. OthersKeep(c) /\ Unspoken(c)' = {} /\ Outbox(c)' = Outbox(c)
    BY <1>0, <1>1, <2>1, <2>3, UnspokenOfClient DEF ProcessTypeOK
  <2>5. Unspoken(c) = {}
    BY <2>3, UnspokenOfClient
  <2> QED
    BY <2>2, <2>4, <2>5 DEF Hears, Keeps, OthersKeep
<1>5. CASE ClientDies(c)
  <2>1. /\ UNCHANGED server_vars /\ client_pc' = [client_pc EXCEPT ![c] = "failed"]
        /\ client_queue' = [client_queue EXCEPT ![c] = <<>>] /\ rx' = [rx EXCEPT ![c] = <<>>]
    BY <1>5 DEF ClientDies, ClientKilled, ClientGone, CloseSocket
  <2>2. OthersKeep(c) /\ Unspoken(c)' = {} /\ Outbox(c)' = <<>>
    BY <1>1, <2>1
  <2> QED
    BY <1>0, <2>1, <2>2 DEF Stops
<1>6. CASE ClientSends(c)
  <2>1. /\ UNCHANGED server_vars /\ client_pc' = [client_pc EXCEPT ![c] = "select"]
        /\ client_queue' = [client_queue EXCEPT ![c] = Tail(client_queue[c])]
        /\ client_pc[c] # "idle" /\ client_queue[c] # <<>> /\ Send(Head(client_queue[c]))
    BY <1>6 DEF ClientSends, ClientWrite
  <2>2. OthersKeep(c) /\ Unspoken(c)' = {} /\ Outbox(c)' = Tail(client_queue[c])
    BY <1>1, <2>1
  <2>3. Outbox(c) = client_queue[c] /\ Unspoken(c) = {}
    BY <2>1, UnspokenOfClient
  <2> QED
    BY <2>1, <2>2, <2>3 DEF Speaks
<1> QED
  BY <1>2, <1>3, <1>4, <1>5, <1>6 DEF ClientWorks

LEMMA MonitorSpeech ==
  ASSUME RunBase, LosesNothing, NEW l \in Monitors, MonitorsOnce(l) \/ MonitorWorks(l)
  PROVE  Silence \/ Stops(l) \/ Hears(l)
<1>0. l \in Processes /\ l \notin Speakers
  BY MultisyncAssumption DEF Speakers
<1>1. \A x \in Speakers : Keeps(x)
  BY NobodyFrame
  DEF MonitorsOnce, RunMonitor, MonitorWorks, MonitorReceives, MonitorDies, MonitorGone,
      server_vars, client_vars
<1>2. CASE MonitorsOnce(l)
  BY <1>1, <1>2 DEF MonitorsOnce, RunMonitor, OpenSocket, socket_vars, Silence
<1>3. CASE MonitorReceives(l)
  BY <1>0, <1>1, <1>3, HearsFirst DEF MonitorReceives, Hears
<1>4. CASE MonitorDies(l)
  BY <1>0, <1>1, <1>4 DEF MonitorDies, MonitorGone, CloseSocket, Stops, OthersKeep
<1> QED
  BY <1>2, <1>3, <1>4 DEF MonitorWorks

LEMMA RunSpeech ==
  ASSUME RunBase, WordsOnce, LosesNothing, ServesApart, [OnceNext]_vars
  PROVE  SpeechStep
<1>1. CASE UNCHANGED vars
  BY <1>1, NobodyFrame DEF vars, server_vars, client_vars, socket_vars, SpeechStep, Silence
<1>2. Servers \cup Clients \cup Monitors = Processes /\ Speakers = Servers \cup Clients
  BY MultisyncAssumption DEF Speakers
<1>3. ASSUME NEW s \in Servers, ServesOnce(s) \/ ServerWorks(s) PROVE SpeechStep
  BY <1>2, <1>3, ServerSpeech DEF ServesApart, SpeechStep
<1>4. ASSUME NEW c \in Clients, ListensOnce(c) \/ ClientWorks(c) PROVE SpeechStep
  BY <1>2, <1>4, ClientSpeech DEF SpeechStep
<1>5. ASSUME NEW l \in Monitors, MonitorsOnce(l) \/ MonitorWorks(l) PROVE SpeechStep
  BY <1>2, <1>5, MonitorSpeech DEF SpeechStep
<1> QED
  BY <1>1, <1>3, <1>4, <1>5 DEF OnceNext

-----------------------------------------------------------------------------
(* The sockets: a server never gets the group's port, a client gets it     *)
(* when it is run or not at all.                                           *)
LEMMA OnceSockets ==
  ASSUME RunBase, [OnceNext]_vars
  PROVE  /\ \A s \in Servers : sock'[s] \in {sock[s], Closed} \cup EphemeralPorts
         /\ \A c \in Clients : sock'[c] \in {sock[c], Closed} \/ client_pc[c] = "idle"
<1> DEFINE Goal == /\ \A s \in Servers : sock'[s] \in {sock[s], Closed} \cup EphemeralPorts
                   /\ \A c \in Clients : sock'[c] \in {sock[c], Closed} \/ client_pc[c] = "idle"
<1>0. /\ sock \in [Processes -> Nat] /\ Processes = Servers \cup Clients \cup Monitors
      /\ Servers \cap Clients = {} /\ Monitors \cap (Servers \cup Clients) = {}
  BY RunBaseTypes, MultisyncAssumption
<1>1. CASE UNCHANGED sock
  BY <1>1
<1>2. ASSUME NEW p \in Processes, CloseSocket(p) PROVE Goal
  BY <1>0, <1>2 DEF CloseSocket
<1>3. ASSUME NEW s \in Servers, ServesOnce(s) \/ ServerWorks(s) PROVE Goal
  <2>1. CASE ServesOnce(s)
    BY <1>0, <1>3, <2>1 DEF ServesOnce, RunServer, OpenSocket
  <2> QED
    BY <1>0, <1>1, <1>2, <1>3, <2>1
    DEF ServerWorks, ServerTurns, ServerReturns, ServerReceives, ServerDies, ServerSends, Receive,
        Send, socket_vars
<1>4. ASSUME NEW c \in Clients, ListensOnce(c) \/ ClientWorks(c) PROVE Goal
  <2>1. CASE ListensOnce(c)
    BY <1>0, <1>1, <1>4, <2>1 DEF ListensOnce, RunClient, OpenSocket, socket_vars
  <2> QED
    BY <1>0, <1>1, <1>2, <1>4, <2>1
    DEF ClientWorks, ClientReceives, ClientDies, ClientSends, Receive, Send
<1>5. ASSUME NEW l \in Monitors, MonitorsOnce(l) \/ MonitorWorks(l) PROVE Goal
  <2>1. CASE MonitorsOnce(l)
    BY <1>0, <1>1, <1>5, <2>1 DEF MonitorsOnce, RunMonitor, OpenSocket, socket_vars
  <2> QED
    BY <1>0, <1>1, <1>2, <1>5, <2>1 DEF MonitorWorks, MonitorReceives, MonitorDies, MonitorGone, Receive
<1> QED
  BY <1>1, <1>3, <1>4, <1>5 DEF OnceNext, vars, socket_vars

LEMMA ServerAloneStep ==
  ASSUME RunBase, WordsOnce, LosesNothing, ServesApart, [OnceNext]_vars, NEW s \in Servers
  PROVE  ServerAlone(s)'
<1>0. ServerAlone(s) /\ ServerTypeOK /\ SpeechTypeOK /\ s \in Processes
  BY RunBaseTypes, MultisyncAssumption DEF RunBase
<1>1. sock'[s] # GroupPort
  BY <1>0, OnceSockets, PortsNumbers DEF ServerAlone, LosesNothing
<1>2. rx'[s] = <<>>
  <2>1. CASE rx'[s] = rx[s]
    BY <1>0, <2>1 DEF ServerAlone
  <2>2. ASSUME NEW p \in Speakers, Speaks(p) PROVE rx'[s] = rx[s]
    BY <1>0, <2>2, EveryoneHears DEF Listeners, ServerAlone
  <2> QED
    BY <1>0, <2>1, <2>2, RunSpeech
    DEF SpeechStep, Silence, Queues, Hears, Stops, ServerAlone, SpeechTypeOK
<1> DEFINE pc == server_pc[s]
           q == server_queue[s]
           Control == /\ pc \in {"idle", "loop", "select", "done"}
                      /\ pc \in {"idle", "done"} => q = <<>> /\ next_block[s] = 0
                      /\ pc = "loop" => Len(q) <= 1
                      /\ pc = "select" => Len(q) <= 2
<1>3. Control
  BY <1>0 DEF ServerAlone
<1>4. SUFFICES Control'
  BY <1>1, <1>2 DEF ServerAlone
<1>5. CASE pc' = pc /\ q' = q /\ next_block'[s] = next_block[s]
  BY <1>3, <1>5
<1>6. CASE ServesOnce(s)
  BY <1>0, <1>6 DEF ServesOnce, RunServer, ServerStart, ServerTypeOK
<1>7. CASE ServerTurns(s)
  <2>1. CASE EnqueueBlock(s)
    <3>1. /\ pc = "loop" /\ pc' = "select" /\ q \in Seq(Datagram)
          /\ q' \in {q, q \o <<BlockAt(s, next_block[s])>>}
      BY <1>0, <2>1 DEF EnqueueBlock, ServerTypeOK, Enqueued
    <3>2. \A e : Len(q \o <<e>>) = Len(q) + 1
      BY <3>1
    <3> QED
      BY <1>3, <3>1, <3>2
  <2>2. CASE ServerDrain(s)
    BY <1>0, <1>3, <2>2 DEF ServerDrain, ServerTypeOK
  <2> QED
    BY <1>7, <2>1, <2>2 DEF ServerTurns
<1>8. CASE ServerReturns(s)
  BY <1>0, <1>8 DEF ServerReturns, ServerFinish, ServerGone, ServerTypeOK
<1>9. CASE ServerSends(s)
  <2>1. /\ pc \in {"select", "write"} /\ q # <<>> /\ pc' = "loop" /\ q' = Tail(q)
        /\ q \in Seq(Datagram)
    BY <1>0, <1>9 DEF ServerSends, ServerWrite, PollWrite, ServerTypeOK
  <2>2. Len(Tail(q)) = Len(q) - 1
    BY <2>1
  <2> QED
    BY <1>3, <2>1, <2>2
<1>10. ASSUME NEW t \in Servers, t # s, ServesOnce(t) \/ ServerWorks(t)
       PROVE  pc' = pc /\ q' = q /\ next_block'[s] = next_block[s]
  <2>1. ServesOnce(t) \/ ServerTurns(t) \/ ServerReturns(t) \/ ServerSends(t)
    BY <1>10, AloneActs DEF RunBase
  <2> QED
    BY <1>0, <1>10, <2>1
    DEF ServesOnce, RunServer, ServerStart, ServerTurns, EnqueueBlock, ServerDrain, ServerReturns,
        ServerFinish, ServerGone, ServerSends, ServerWrite, ServerTypeOK
<1>11. ASSUME NEW c \in Clients, ListensOnce(c) \/ ClientWorks(c) PROVE UNCHANGED server_vars
  BY <1>11 DEF ListensOnce, RunClient, ClientWorks, ClientReceives, ClientDies, ClientSends
<1>12. ASSUME NEW l \in Monitors, MonitorsOnce(l) \/ MonitorWorks(l) PROVE UNCHANGED server_vars
  BY <1>12 DEF MonitorsOnce, RunMonitor, MonitorWorks, MonitorReceives, MonitorDies, MonitorGone
<1> QED
  BY <1>0, <1>4, <1>5, <1>6, <1>7, <1>8, <1>9, <1>10, <1>11, <1>12, AloneActs
  DEF OnceNext, vars, server_vars

(* No server is run before all clients are, and none is idle again.        *)
LEMMA ListenersFirstStep ==
  ASSUME ListenersFirst, RunBase, [OnceNext]_vars
  PROVE  ListenersFirst'
<1>0. ServerTypeOK /\ ProcessTypeOK
  BY RunBaseTypes
<1>1. ASSUME UNCHANGED server_pc, \A c \in Clients : client_pc'[c] = "idle" => client_pc[c] = "idle"
      PROVE  ListenersFirst'
  BY <1>1 DEF ListenersFirst
<1>2. ASSUME NEW s \in Servers, ServesOnce(s) \/ ServerWorks(s) PROVE ListenersFirst'
  <2>1. CASE ServesOnce(s)
    BY <2>1 DEF ServesOnce, RunServer, EveryoneListens, ListenersFirst, client_vars
  <2>2. CASE ServerTurns(s) \/ ServerReturns(s) \/ ServerSends(s)
    BY <1>0, <2>2
    DEF ServerTurns, EnqueueBlock, ServerDrain, ServerReturns, ServerFinish, ServerSends,
        ServerWrite, ListenersFirst, client_vars
  <2> QED
    BY <1>2, <2>1, <2>2, AloneActs DEF RunBase
<1>3. ASSUME NEW c \in Clients, ListensOnce(c) \/ ClientWorks(c) PROVE ListenersFirst'
  BY <1>0, <1>1, <1>3
  DEF ListensOnce, RunClient, ClientStart, ClientOpenFails, ClientWorks, ClientReceives, ClientRead,
      ClientDies, ClientKilled, ClientGone, ClientSends, ClientWrite, server_vars, ProcessTypeOK
<1>4. ASSUME NEW l \in Monitors, MonitorsOnce(l) \/ MonitorWorks(l) PROVE ListenersFirst'
  BY <1>1, <1>4
  DEF MonitorsOnce, RunMonitor, MonitorWorks, MonitorReceives, MonitorDies, MonitorGone,
      server_vars, client_vars
<1> QED
  BY <1>1, <1>2, <1>3, <1>4 DEF OnceNext, vars, server_vars, client_vars

-----------------------------------------------------------------------------
(* A status that Settle may be given: it can still be installed.           *)
Fresh(f, st) ==
  StatusPromised(ServerOffers, f, st) /\ st.goodbye_received /\ ~st.moved

(* The path of a status is the one of the server of its file.              *)
LEMMA OfferOfServer ==
  ASSUME ServesApart, NEW s \in Servers, NEW p, <<SourceOf(s), p>> \in ServerOffers
  PROVE  p = Dest[s]
BY DEF ServerOffers, ServesApart

(* Settle remembers the status or puts a whole copy where it belongs.      *)
LEMMA SettleOutcome ==
  ASSUME RunBase, Installs, ServesApart, NEW c \in Clients, NEW t \in Servers, NEW st,
         Fresh(SourceOf(t), st), NEW flushed \in Flushes, Settle(c, SourceOf(t), st, flushed)
  PROVE  /\ \A d \in Clients \ {c} : sync_set'[d] = sync_set[d] /\ disk'[d] = disk[d]
         /\ \/ sync_set'[c] = Put(sync_set[c], SourceOf(t), st) /\ disk'[c] = disk[c]
            \/ /\ sync_set'[c] = Without(sync_set[c], SourceOf(t))
               /\ disk'[c] = Put(disk[c], Dest[t], WholeCopy(SourceOf(t)))
<1> DEFINE f == SourceOf(t)
<1>0. /\ f \in Files /\ DOMAIN sync_set = Clients /\ disk = [d \in Clients |-> disk[d]]
      /\ StatusSound(f, st)
  BY BlockServerAssumption
  DEF SourceOf, RunBase, ProgramSound, ClientsSound, ClientStatusesSound, DiskSound, Fresh,
      StatusPromised
<1>1. CASE ~SyncComplete(st)
  BY <1>0, <1>1 DEF Settle, Remember
<1>2. CASE SyncComplete(st)
  <2>1. TransferComplete(st) /\ st.path = Dest[t]
    BY <1>2, OfferOfServer DEF SyncComplete, TransferComplete, Fresh, StatusPromised
  <2>2. Renames(st)
    BY <2>1 DEF Renames, Fresh, Installs
  <2>3. Close(st, flushed).temp = WholeFile(f)
    BY <1>0, <2>1, CloseKeepsAll DEF Installs
  <2>4. DiskAfter(disk[c], f, st, flushed) = Put(disk[c], Dest[t], WholeCopy(f))
    BY <2>1, <2>2, <2>3 DEF DiskAfter, WholeCopy
  <2>5. /\ sync_set' = [sync_set EXCEPT ![c] = Without(@, f)]
        /\ disk' = [disk EXCEPT ![c] = Put(disk[c], Dest[t], WholeCopy(f))]
    BY <1>2, <2>4 DEF Settle, Forget, Install
  <2> QED
    BY <1>0, <2>5
<1> QED
  BY <1>1, <1>2

(* get_sync_status() gives a handler a status that can be installed.       *)
LEMMA StatusOfFresh ==
  ASSUME RunBase, Installs, NEW c \in Clients, Ready(c), NEW f \in Files,
         NEW goodbye \in GoodbyeGarbage
  PROVE  Fresh(f, StatusOf(c, f, goodbye))
<1>1. StatusPromised(ServerOffers, f, StatusOf(c, f, goodbye))
  BY StatusOfSound DEF RunBase, ProgramSound, ClientsSound, ClientStatusesSound
<1>2. goodbye = TRUE
  BY DEF Installs
<1> QED
  BY <1>1, <1>2 DEF Fresh, StatusOf, NewStatus, Ready, Following

(* What reading the word m of t leaves of the client's memory and disk.    *)
WordTaken(c, t, m) ==
  /\ \A d \in Clients \ {c} : sync_set'[d] = sync_set[d] /\ disk'[d] = disk[d]
  /\ \/ disk'[c] = Put(disk[c], Dest[t], WholeCopy(SourceOf(t)))
        /\ sync_set'[c] = Without(sync_set[c], SourceOf(t))
     \/ /\ disk'[c] = disk[c]
        /\ \E st :
             /\ sync_set'[c] = Put(sync_set[c], SourceOf(t), st)
             /\ st.goodbye_received /\ ~st.moved
             /\ Takes(t, m, st)
             /\ \A w \in ServerSays(t) :
                  SourceOf(t) \in Following(c) /\ Takes(t, w, sync_set[c][SourceOf(t)])
                    => Takes(t, w, st)

LEMMA InfoTaken ==
  ASSUME RunBase, Installs, ServesApart, NEW c \in Clients, Ready(c), NEW t \in Servers,
         NEW goodbye \in GoodbyeGarbage, NEW flushed \in Flushes,
         HandleInfo(c, ServerInfo(t), goodbye, flushed)
  PROVE  WordTaken(c, t, ServerInfo(t))
<1> DEFINE f == SourceOf(t)
           old == StatusOf(c, f, goodbye)
           st == SetPath(old, Dest[t])
<1>0. f \in Files /\ Dest[t] \in Paths /\ <<f, Dest[t]>> \in ServerOffers
  BY BlockServerAssumption DEF SourceOf, ServerOffers
<1>1. Fresh(f, old) /\ old \in Status(f)
  BY <1>0, StatusOfFresh DEF Fresh, StatusPromised, StatusSound
<1>2. /\ st.path = Dest[t] /\ st.block_array = old.block_array
      /\ st.goodbye_received = old.goodbye_received /\ st.moved = old.moved
  BY <1>1 DEF SetPath, Status
<1>3. StatusSound(f, st)
  BY <1>0, <1>1, SetPathSound DEF Fresh, StatusPromised
<1>4. Fresh(f, st)
  BY <1>0, <1>1, <1>2, <1>3 DEF Fresh, StatusPromised
<1>5. Settle(c, f, st, flushed)
  BY DEF HandleInfo, ServerInfo, InfoMsg
<1>6. Takes(t, ServerInfo(t), st)
  BY <1>2 DEF Takes, ServerInfo, InfoMsg
<1>7. ASSUME NEW w \in ServerSays(t), f \in Following(c), Takes(t, w, sync_set[c][f])
      PROVE  Takes(t, w, st)
  <2>1. old = sync_set[c][f]
    BY <1>7 DEF StatusOf, Following
  <2> QED
    BY <1>2, <1>7, <2>1 DEF Takes
<1> HIDE DEF st, f
<1> QED
  BY <1>4, <1>5, <1>6, <1>7, SettleOutcome DEF WordTaken, Fresh, f

LEMMA BlockTaken ==
  ASSUME RunBase, Installs, ServesApart, NEW c \in Clients, Ready(c), NEW t \in Servers,
         NEW b \in Blocks(SourceOf(t)), NEW goodbye \in GoodbyeGarbage, NEW flushed \in Flushes,
         HandleBlock(c, BlockOf(t, b), goodbye, flushed)
  PROVE  WordTaken(c, t, BlockOf(t, b))
<1> DEFINE f == SourceOf(t)
           old == StatusOf(c, f, goodbye)
           st == WriteBlock(old, b, BlockBytes(f, b))
<1>0. f \in Files
  BY BlockServerAssumption DEF SourceOf
<1>1. Fresh(f, old) /\ old \in Status(f)
  BY <1>0, StatusOfFresh DEF Fresh, StatusPromised, StatusSound
<1>2. /\ st.path = old.path /\ st.block_array[b]
      /\ \A i \in Blocks(f) : old.block_array[i] => st.block_array[i]
      /\ st.goodbye_received = old.goodbye_received /\ st.moved = old.moved
  BY <1>1 DEF WriteBlock, Status
<1>3. StatusSound(f, st)
  BY <1>0, <1>1, WriteBlockSound DEF Fresh, StatusPromised
<1>4. Fresh(f, st)
  BY <1>1, <1>2, <1>3 DEF Fresh, StatusPromised
<1>5. Settle(c, f, st, flushed)
  BY DEF HandleBlock, BlockOf, BlockMsg
<1>6. Takes(t, BlockOf(t, b), st)
  BY <1>2 DEF Takes, BlockOf, BlockMsg
<1>7. ASSUME NEW w \in ServerSays(t), f \in Following(c), Takes(t, w, sync_set[c][f])
      PROVE  Takes(t, w, st)
  <2>1. old = sync_set[c][f]
    BY <1>7 DEF StatusOf, Following
  <2>2. w.type = "INFO" \/ (w.type # "INFO" /\ w.block \in Blocks(f))
    BY DEF ServerSays, ServerInfo, InfoMsg, BlockOf, BlockMsg
  <2> QED
    BY <1>2, <1>7, <2>1, <2>2 DEF Takes
<1> HIDE DEF st, f
<1> QED
  BY <1>4, <1>5, <1>6, <1>7, SettleOutcome DEF WordTaken, Fresh, f

(* The other words of t, and those of other servers, are not undone.       *)
LEMMA TakenKept ==
  ASSUME ServesApart, NEW c \in Clients, Ready(c), NEW t \in Servers, NEW m \in ServerSays(t),
         WordTaken(c, t, m)
  PROVE  /\ Ready(c)'
         /\ \A s \in Servers : \A w \in ServerSays(s) :
              Taken(c, s, w) \/ (s = t /\ w = m) => Taken(c, s, w)'
<1> DEFINE f == SourceOf(t)
           Goal == /\ Ready(c)'
                   /\ \A s \in Servers : \A w \in ServerSays(s) :
                        Taken(c, s, w) \/ (s = t /\ w = m) => Taken(c, s, w)'
<1>0. /\ \A s \in Servers : s # t => SourceOf(s) # f /\ Dest[s] # Dest[t]
      /\ \A s \in Servers : SourceOf(s)' = SourceOf(s) /\ WholeCopy(SourceOf(s))' = WholeCopy(SourceOf(s))
  BY DEF ServesApart, SourceOf, WholeCopy, WholeFile
<1>1. CASE /\ disk'[c] = Put(disk[c], Dest[t], WholeCopy(f))
           /\ sync_set'[c] = Without(sync_set[c], f)
  <2>1. Following(c)' = Following(c) \ {f} /\ \A g \in Following(c)' : sync_set'[c][g] = sync_set[c][g]
    BY <1>1 DEF Following, Without
  <2>2. /\ DOMAIN disk'[c] = DOMAIN disk[c] \cup {Dest[t]}
        /\ \A p \in DOMAIN disk'[c] :
             disk'[c][p] = IF p = Dest[t] THEN WholeCopy(f) ELSE disk[c][p]
    BY <1>1 DEF Put
  <2>3. Ready(c)'
    BY <2>1 DEF Ready
  <2>4. \A s \in Servers : Has(c, s) \/ s = t => Has(c, s)'
    BY <1>0, <2>2 DEF Has
  <2>5. ASSUME NEW s \in Servers, NEW w \in ServerSays(s), s # t, SourceOf(s) \in Following(c),
               Takes(s, w, sync_set[c][SourceOf(s)])
        PROVE  Taken(c, s, w)'
    BY <1>0, <2>1, <2>5 DEF Taken, Takes
  <2> QED
    BY <2>3, <2>4, <2>5 DEF Taken
<1>2. ASSUME NEW st, disk'[c] = disk[c], sync_set'[c] = Put(sync_set[c], f, st),
             st.goodbye_received /\ ~st.moved, Takes(t, m, st),
             \A w \in ServerSays(t) :
               f \in Following(c) /\ Takes(t, w, sync_set[c][f]) => Takes(t, w, st)
      PROVE  Goal
  <2>1. /\ Following(c)' = Following(c) \cup {f}
        /\ \A g \in Following(c)' : sync_set'[c][g] = IF g = f THEN st ELSE sync_set[c][g]
    BY <1>2 DEF Following, Put
  <2>2. Ready(c)'
    BY <1>2, <2>1 DEF Ready
  <2>3. \A s \in Servers : Has(c, s) => Has(c, s)'
    BY <1>0, <1>2 DEF Has
  <2>4. ASSUME NEW s \in Servers, NEW w \in ServerSays(s), s # t, SourceOf(s) \in Following(c),
               Takes(s, w, sync_set[c][SourceOf(s)])
        PROVE  Taken(c, s, w)'
    BY <1>0, <2>1, <2>4 DEF Taken, Takes
  <2>5. ASSUME NEW w \in ServerSays(t), Takes(t, w, st)
        PROVE  Taken(c, t, w)'
    BY <1>0, <2>1, <2>5 DEF Taken, Takes
  <2> QED
    BY <1>2, <2>2, <2>3, <2>4, <2>5 DEF Taken
<1> QED
  BY <1>1, <1>2 DEF WordTaken

LEMMA ClientSame ==
  ASSUME NEW c \in Clients, sync_set'[c] = sync_set[c], disk'[c] = disk[c]
  PROVE  /\ Ready(c) => Ready(c)'
         /\ \A s \in Servers : \A w \in ServerSays(s) : Taken(c, s, w) => Taken(c, s, w)'
BY DEF Ready, Following, Taken, Takes, Has, SourceOf, WholeCopy, WholeFile

(* What a step may do to client c: it ends, or it keeps what it has taken  *)
(* and takes what it reads.                                                *)
ClientProgress(c) ==
  /\ Ready(c)'
  /\ \/ sock'[c] = Closed
     \/ \A s \in Servers : \A w \in ServerSays(s) :
          Taken(c, s, w) \/ (w \in Range(rx[c]) /\ w \notin Range(rx'[c])) => Taken(c, s, w)'

LEMMA ReadsWord ==
  ASSUME RunBase, WordsOnce, LosesNothing, Installs, ServesApart, NEW c \in Clients, Ready(c),
         NEW both \in BOOLEAN, ClientReceives(c, both)
  PROVE  /\ ClientProgress(c)
         /\ \A d \in Clients \ {c} : sync_set'[d] = sync_set[d] /\ disk'[d] = disk[d]
<1> DEFINE Goal == /\ ClientProgress(c)
                   /\ \A d \in Clients \ {c} : sync_set'[d] = sync_set[d] /\ disk'[d] = disk[d]
<1>0. c \in Processes
  BY MultisyncAssumption
<1>1. PICK m : Receive(c, m) /\ ClientRead(c, m, both)
  BY DEF ClientReceives
<1>2. PICK goodbye \in GoodbyeGarbage, flushed \in Flushes : ClientHandle(c, m, goodbye, flushed)
  BY <1>1 DEF ClientRead
<1>3. rx[c] # <<>> /\ m = Head(rx[c]) /\ rx'[c] = Tail(rx[c])
  BY <1>0, <1>1, HearsFirst, RunBaseTypes DEF SpeechTypeOK
<1>4. m \in Said /\ Range(rx'[c]) = Range(rx[c]) \ {m}
  BY <1>0, <1>3, TailOnce, RunBaseTypes DEF WordsOnce, HeardOnce, SpeechTypeOK
<1>5. ASSUME NEW t \in Servers, m \in ServerSays(t), WordTaken(c, t, m) PROVE Goal
  <2>1. ASSUME NEW s \in Servers, m \in ServerSays(s) PROVE s = t
    BY <1>5, <2>1, WordsApart DEF Speakers, Words
  <2>2. /\ Ready(c)'
        /\ \A s \in Servers : \A w \in ServerSays(s) :
             Taken(c, s, w) \/ (s = t /\ w = m) => Taken(c, s, w)'
    BY <1>5, TakenKept
  <2> QED
    BY <1>4, <1>5, <2>1, <2>2 DEF ClientProgress, WordTaken
<1>6. ASSUME NEW t \in Servers, m = ServerInfo(t) PROVE Goal
  <2>1. m.type = "INFO" /\ m \in ServerSays(t)
    BY <1>6 DEF ServerInfo, InfoMsg, ServerSays
  <2>2. HandleInfo(c, m, goodbye, flushed)
    BY <1>2, <2>1 DEF ClientHandle, HandleBlock, HandleSgoodbye, ClientIgnores
  <2> QED
    BY <1>5, <1>6, <2>1, <2>2, InfoTaken
<1>7. ASSUME NEW t \in Servers, NEW b \in Blocks(SourceOf(t)), m = BlockOf(t, b) PROVE Goal
  <2>1. m.type = "BLOCK" /\ m \in ServerSays(t)
    BY <1>7 DEF BlockOf, BlockMsg, ServerSays
  <2>2. HandleBlock(c, m, goodbye, flushed)
    BY <1>2, <2>1 DEF ClientHandle, HandleInfo, HandleSgoodbye, ClientIgnores
  <2> QED
    BY <1>5, <1>7, <2>1, <2>2, BlockTaken
<1>8. ASSUME NEW d \in Clients, m = ChelloMsg(HostOf[d]) PROVE Goal
  <2>1. m.type = "CHELLO" /\ \A s \in Servers : m \notin ServerSays(s)
    BY <1>8 DEF ChelloMsg, ServerSays, ServerInfo, InfoMsg, BlockOf, BlockMsg
  <2>2. UNCHANGED <<sync_set, disk>>
    BY <1>2, <2>1 DEF ClientHandle, HandleInfo, HandleBlock, HandleSgoodbye, ClientIgnores
  <2>3. /\ Ready(c)'
        /\ \A s \in Servers : \A w \in ServerSays(s) : Taken(c, s, w) => Taken(c, s, w)'
    BY <2>2, ClientSame
  <2> QED
    BY <1>4, <2>1, <2>2, <2>3 DEF ClientProgress
<1> QED
  BY <1>4, <1>6, <1>7, <1>8 DEF Said, ServerSays

(* What others do never takes a word from the buffer of q.                 *)
LEMMA OthersSpeech ==
  ASSUME RunBase, WordsOnce, LosesNothing, ServesApart, NEW p \in Processes, NEW q \in Processes,
         p # q \/ ~(Stops(p) \/ Hears(p)), Silence \/ Stops(p) \/ Hears(p) \/ (p \in Speakers /\ (Queues(p) \/ Speaks(p)))
  PROVE  Range(rx[q]) \subseteq Range(rx'[q])
<1>0. rx[q] \in Seq(Datagram) /\ SpeechTypeOK /\ DOMAIN rx = Processes
  BY RunBaseTypes DEF SpeechTypeOK
<1>1. CASE rx'[q] = rx[q]
  BY <1>1
<1>2. CASE p \in Speakers /\ Speaks(p)
  <2>1. rx'[q] = Append(rx[q], Head(Outbox(p))) \/ rx'[q] = rx[q]
    BY <1>0, <1>2, EveryoneHears
  <2> QED
    BY <1>0, <2>1, AppendOnce
<1> QED
  BY <1>0, <1>1, <1>2 DEF Silence, Stops, Hears, Queues

LEMMA ClientProgressStep ==
  ASSUME RunBase, WordsOnce, LosesNothing, Installs, ServesApart, \A d \in Clients : Ready(d),
         [OnceNext]_vars, NEW c \in Clients
  PROVE  ClientProgress(c)
<1>0. /\ Processes = Servers \cup Clients \cup Monitors /\ Speakers = Servers \cup Clients
      /\ Servers \cap Clients = {} /\ Monitors \cap (Servers \cup Clients) = {}
      /\ c \in Processes
  BY MultisyncAssumption DEF Speakers
<1>1. ASSUME sync_set'[c] = sync_set[c], disk'[c] = disk[c], Range(rx[c]) \subseteq Range(rx'[c])
      PROVE  ClientProgress(c)
  BY <1>1, ClientSame DEF ClientProgress
<1>2. ASSUME NEW s \in Servers, ServesOnce(s) \/ ServerWorks(s) PROVE ClientProgress(c)
  <2>1. UNCHANGED client_vars
    BY <1>2 DEF ServesOnce, RunServer, ServerWorks, ServerTurns, ServerReturns, ServerReceives,
                ServerDies, ServerSends
  <2>2. Queues(s) \/ Silence \/ Stops(s) \/ Speaks(s)
    BY <1>2, ServerSpeech DEF ServesApart
  <2>3. Range(rx[c]) \subseteq Range(rx'[c])
    BY <1>0, <2>2, OthersSpeech
  <2> QED
    BY <1>1, <2>1, <2>3 DEF client_vars
<1>3. ASSUME NEW l \in Monitors, MonitorsOnce(l) \/ MonitorWorks(l) PROVE ClientProgress(c)
  <2>1. UNCHANGED client_vars
    BY <1>3 DEF MonitorsOnce, RunMonitor, MonitorWorks, MonitorReceives, MonitorDies, MonitorGone
  <2>2. Silence \/ Stops(l) \/ Hears(l)
    BY <1>3, MonitorSpeech
  <2>3. Range(rx[c]) \subseteq Range(rx'[c])
    BY <1>0, <2>2, OthersSpeech
  <2> QED
    BY <1>1, <2>1, <2>3 DEF client_vars
<1>4. ASSUME NEW d \in Clients, ListensOnce(d) PROVE ClientProgress(c)
  BY <1>1, <1>4
  DEF ListensOnce, RunClient, ClientStart, ClientOpenFails, OpenSocket, socket_vars
<1>5. ASSUME NEW d \in Clients, NEW both \in BOOLEAN, ClientReceives(d, both) PROVE ClientProgress(c)
  <2>1. CASE d = c
    BY <1>5, <2>1, ReadsWord
  <2>2. CASE d # c
    <3>1. sync_set'[c] = sync_set[c] /\ disk'[c] = disk[c]
      BY <1>5, <2>2, ReadsWord
    <3>2. rx'[c] = rx[c]
      BY <1>0, <1>5, <2>2, HearsFirst, RunBaseTypes DEF ClientReceives, SpeechTypeOK
    <3> QED
      BY <1>1, <3>1, <3>2
  <2> QED
    BY <2>1, <2>2
<1>6. ASSUME NEW d \in Clients, ClientDies(d) PROVE ClientProgress(c)
  <2>1. /\ sync_set' = [sync_set EXCEPT ![d] = Nothing] /\ UNCHANGED disk
        /\ sock' = [sock EXCEPT ![d] = Closed] /\ rx' = [rx EXCEPT ![d] = <<>>]
    BY <1>6 DEF ClientDies, ClientKilled, ClientGone, CloseSocket
  <2>2. CASE d = c
    <3>1. Following(c)' = {} /\ sock'[c] = Closed
      BY <1>0, <2>1, <2>2, RunBaseTypes DEF Following, Nothing
    <3> QED
      BY <3>1 DEF ClientProgress, Ready
  <2>3. CASE d # c
    BY <1>0, <1>1, <2>1, <2>3
  <2> QED
    BY <2>2, <2>3
<1>7. ASSUME NEW d \in Clients, ClientSends(d) PROVE ClientProgress(c)
  <2>1. UNCHANGED <<sync_set, disk>>
    BY <1>7 DEF ClientSends, ClientWrite
  <2>2. Range(rx[c]) \subseteq Range(rx'[c])
    <3>1. PICK R \in SUBSET Processes : \E m : rx' = [p \in Processes |-> IF p \in R THEN Append(rx[p], m) ELSE rx[p]]
      BY <1>7 DEF ClientSends, Send, Listeners
    <3>2. rx[c] \in Seq(Datagram)
      BY <1>0, RunBaseTypes DEF SpeechTypeOK
    <3> QED
      BY <1>0, <3>1, <3>2, AppendOnce
  <2> QED
    BY <1>1, <2>1, <2>2
<1>8. CASE UNCHANGED vars
  BY <1>1, <1>8 DEF vars, client_vars, socket_vars
<1> QED
  BY <1>2, <1>3, <1>4, <1>5, <1>6, <1>7, <1>8 DEF OnceNext, ClientWorks

-----------------------------------------------------------------------------
(* A word that a server has to send stays with it until it is sent.        *)
LEMMA WordMoves ==
  ASSUME RunBase, WordsOnce, LosesNothing, ServesApart, [OnceNext]_vars, NEW s \in Servers,
         NEW w \in ToSend(s)
  PROVE  w \in ToSend(s)' \/ (Speaks(s) /\ w = Head(Outbox(s)))
<1>0. /\ s \in Speakers /\ Outbox(s) \in Seq(Datagram) /\ IsInjective(Outbox(s))
      /\ Servers \cap Clients = {} /\ Monitors \cap (Servers \cup Clients) = {}
  BY RunBaseTypes, MultisyncAssumption DEF Speakers, SpeechTypeOK, WordsOnce, OutboxOnce
<1>1. CASE Keeps(s)
  BY <1>1 DEF Keeps, ToSend
<1>2. CASE Queues(s)
  <2>1. PICK v \in Unspoken(s) :
          Outbox(s)' = Append(Outbox(s), v) /\ Unspoken(s)' = Unspoken(s) \ {v}
    BY <1>2 DEF Queues
  <2>2. Range(Outbox(s)') = Range(Outbox(s)) \cup {v}
    BY <1>0, <2>1, AppendOnce
  <2> QED
    BY <2>1, <2>2 DEF ToSend
<1>3. CASE Speaks(s)
  <2>1. Range(Outbox(s)') = Range(Outbox(s)) \ {Head(Outbox(s))}
    BY <1>0, <1>3, TailOnce DEF Speaks
  <2> QED
    BY <1>3, <2>1 DEF Speaks, ToSend
<1>4. ASSUME NEW t \in Servers, ServesOnce(t) \/ ServerWorks(t)
      PROVE  Keeps(s) \/ Queues(s) \/ Speaks(s)
  <2>1. Queues(t) \/ Silence \/ Speaks(t) \/ (Stops(t) /\ ToSend(t) = {})
    BY <1>4, ServerSpeech DEF ServesApart
  <2> QED
    BY <1>0, <2>1 DEF Queues, Silence, Speaks, Stops, OthersKeep
<1>5. ASSUME NEW c \in Clients, ListensOnce(c) \/ ClientWorks(c) PROVE Keeps(s)
  BY <1>0, <1>5, ClientSpeech DEF Queues, Stops, Hears, Speaks, OthersKeep
<1>6. ASSUME NEW l \in Monitors, MonitorsOnce(l) \/ MonitorWorks(l) PROVE Keeps(s)
  BY <1>0, <1>6, MonitorSpeech DEF Silence, Stops, Hears, OthersKeep
<1>7. ASSUME UNCHANGED vars PROVE Keeps(s)
  BY <1>0, <1>7, NobodyFrame DEF vars, server_vars, client_vars
<1> QED
  BY <1>1, <1>2, <1>3, <1>4, <1>5, <1>6, <1>7 DEF OnceNext

LEMMA DeliveredStep ==
  ASSUME RunBase, RunSound, LosesNothing, Installs, ServesApart, [OnceNext]_vars,
         NEW c \in Clients, NEW s \in Servers
  PROVE  Delivered(c, s)'
<1>0. WordsOnce /\ Delivered(c, s) /\ c \in Processes /\ ServerAlone(s) /\ s \in Speakers
  BY MultisyncAssumption DEF RunSound, WordsOnce, Speakers
<1>1. ClientProgress(c)
  BY <1>0, ClientProgressStep DEF RunSound
<1> SUFFICES ASSUME sock'[c] = GroupPort, NEW w \in ServerSays(s)
             PROVE  w \in ToSend(s)' \cup Range(rx'[c]) \/ Taken(c, s, w)'
  BY WordsConstant, <1>0 DEF Delivered, ToSend, Words
<1>2. CASE sock[c] # GroupPort
  <2>1. client_pc[c] = "idle"
    BY <1>2, OnceSockets, PortsNumbers
  <2>2. server_pc[s] = "idle" /\ server_queue[s] = <<>>
    BY <1>0, <2>1 DEF RunSound, ListenersFirst, ServerAlone
  <2>3. w \in ToSend(s) /\ ~Speaks(s)
    BY <2>2, UnspokenOfServer DEF ServerUnspoken, ToSend, Speaks
  <2> QED
    BY <1>0, <2>3, WordMoves
<1>3. CASE sock[c] = GroupPort
  <2>1. w \in ToSend(s) \cup Range(rx[c]) \/ Taken(c, s, w)
    BY <1>0, <1>3 DEF Delivered, ToSend
  <2>2. CASE w \in ToSend(s)
    <3>1. CASE Speaks(s) /\ w = Head(Outbox(s))
      <4>1. rx'[c] = Append(rx[c], w) /\ rx[c] \in Seq(Datagram)
        BY <1>0, <1>3, <3>1, EveryoneHears, RunBaseTypes DEF Listeners, SpeechTypeOK
      <4> QED
        BY <4>1, AppendOnce
    <3> QED
      BY <1>0, <2>2, <3>1, WordMoves
  <2>3. CASE w \in Range(rx[c]) \/ Taken(c, s, w)
    BY <1>1, <2>3, PortsNumbers DEF ClientProgress
  <2> QED
    BY <2>1, <2>2, <2>3
<1> QED
  BY <1>2, <1>3

(* A client that has read all that is said of a complete file has it.      *)
LEMMA AllTakenIsHad ==
  ASSUME RunBase, NEW c \in Clients, Ready(c), NEW s \in Servers,
         \A w \in ServerSays(s) : Taken(c, s, w)
  PROVE  Has(c, s)
<1> DEFINE f == SourceOf(s)
           st == sync_set[c][f]
<1> SUFFICES ASSUME ~Has(c, s) PROVE FALSE
  OBVIOUS
<1>0. f \in Files /\ Dest[s] \in Paths
  BY BlockServerAssumption DEF SourceOf
<1>1. f \in Following(c) /\ st.path = Dest[s]
  <2>1. ServerInfo(s) \in ServerSays(s) /\ ServerInfo(s).type = "INFO"
    BY DEF ServerSays, ServerInfo, InfoMsg
  <2> QED
    BY <2>1 DEF Taken, Takes
<1>2. \A b \in Blocks(f) : st.block_array[b]
  <2> SUFFICES ASSUME NEW b \in Blocks(f) PROVE st.block_array[b]
    OBVIOUS
  <2>1. BlockOf(s, b) \in ServerSays(s) /\ BlockOf(s, b).type = "BLOCK" /\ BlockOf(s, b).block = b
    BY DEF ServerSays, BlockOf, BlockMsg
  <2> QED
    BY <2>1 DEF Taken, Takes
<1>3. StatusSound(f, st) /\ ~SyncComplete(st)
  BY <1>1
  DEF RunBase, ProgramSound, ClientsSound, ClientStatusesSound, StatusesSound, StatusPromised
<1>4. Missing(f, st) = {}
  BY <1>2 DEF Missing
<1>5. st.remaining_blocks = 0
  BY <1>0, <1>3, <1>4, MissingFinite DEF StatusSound
<1> QED
  BY <1>0, <1>1, <1>3, <1>5, MessageAssumption DEF SyncComplete, TransferComplete, Ready

LEMMA RunSoundStep ==
  ASSUME RunSound, ProgramSound, SocketsSound, LosesNothing, Installs, ServesApart, [OnceNext]_vars
  PROVE  RunSound'
<1>0. RunBase /\ WordsOnce /\ \A c \in Clients : Ready(c)
  BY DEF RunSound, RunBase, WordsOnce
<1>1. SpeechTypeOK /\ SpeechStep
  BY <1>0, RunBaseTypes, RunSpeech
<1>2. ListenersFirst'
  BY <1>0, ListenersFirstStep DEF RunSound
<1>3. \A s \in Servers : ServerAlone(s)'
  BY <1>0, ServerAloneStep
<1>4. \A p \in Speakers : OutboxOnce(p)'
  BY <1>0, <1>1, OutboxOnceStep
<1>5. \A q \in Processes : HeardOnce(q)'
  BY <1>0, <1>1, HeardOnceStep
<1>6. \A c \in Clients : Ready(c)'
  BY <1>0, ClientProgressStep DEF ClientProgress
<1>7. \A c \in Clients, s \in Servers : Delivered(c, s)'
  BY <1>0, DeliveredStep
<1> QED
  BY <1>2, <1>3, <1>4, <1>5, <1>6, <1>7 DEF RunSound

LEMMA RunSoundInit == MultisyncInit => RunSound
<1> SUFFICES ASSUME MultisyncInit PROVE RunSound
  OBVIOUS
<1>1. ServerInit /\ ClientInit /\ SocketInit
  BY DEF MultisyncInit
<1>2. ListenersFirst
  BY <1>1 DEF ServerInit, ListenersFirst
<1>3. \A s \in Servers : ServerAlone(s)
  BY <1>1, MultisyncAssumption, PortsNumbers DEF ServerInit, SocketInit, ServerAlone
<1>4. \A p \in Speakers : OutboxOnce(p)
  BY <1>1, EmptyOnce DEF ServerInit, ClientInit, OutboxOnce, Outbox, Speakers
<1>5. \A q \in Processes : HeardOnce(q)
  BY <1>1, EmptyOnce DEF SocketInit, HeardOnce
<1>6. \A c \in Clients : Ready(c)
  BY <1>1 DEF ClientInit, Ready, Following, Nothing
<1>7. \A c \in Clients, s \in Servers : Delivered(c, s)
  BY <1>1, MultisyncAssumption, PortsNumbers DEF SocketInit, Delivered
<1> QED
  BY <1>2, <1>3, <1>4, <1>5, <1>6, <1>7 DEF RunSound

LEMMA OnceIsProgram == [OnceNext]_vars => [MultisyncNext]_vars
BY DEF OnceNext, ServesOnce, ListensOnce, MonitorsOnce, MultisyncNext

(* On a network that loses nothing, when every process is run once, the    *)
(* servers last: start() returns only when each client that listens has    *)
(* the file, or has the rest of it in its buffer; whatever the files, and  *)
(* however many servers and clients there are and how their steps mix.     *)
THEOREM ServersReturnWhenDelivered ==
  ASSUME LosesNothing, Installs, ServesApart
  PROVE  OnceSpec => []ReturnedWhenDelivered
<1> DEFINE Inv == RunSound /\ ProgramSound /\ SocketsSound
<1>1. MultisyncInit => Inv
  BY RunSoundInit, ProgramSoundInit, SocketsSoundInit
<1>2. Inv /\ [OnceNext]_vars => Inv'
  <2> SUFFICES ASSUME Inv, [OnceNext]_vars PROVE Inv'
    OBVIOUS
  <2>1. [MultisyncNext]_vars
    BY OnceIsProgram
  <2>2. ProgramSound'
    BY <2>1, ProgramSoundStep DEF LosesNothing, ServesApart
  <2>3. SocketsSound'
    BY <2>1, SocketsSoundStep
  <2> QED
    BY <2>2, <2>3, RunSoundStep
<1>3. Inv => ReturnedWhenDelivered
  <2> SUFFICES ASSUME Inv, NEW c \in Clients, NEW s \in Servers,
                      sock[c] = GroupPort, server_pc[s] = "done", rx[c] = <<>>
               PROVE  Has(c, s)
    BY DEF ReturnedWhenDelivered
  <2>1. RunBase /\ Ready(c) /\ Delivered(c, s) /\ ServerAlone(s)
    BY DEF RunSound, RunBase
  <2>2. Unspoken(s) = {} /\ Outbox(s) = <<>>
    BY <2>1, UnspokenOfServer DEF ServerUnspoken, ServerAlone, Running
  <2>3. \A w \in ServerSays(s) : Taken(c, s, w)
    BY <2>1, <2>2, EmptyOnce DEF Delivered
  <2> QED
    BY <2>1, <2>3, AllTakenIsHad
<1> QED
  BY <1>1, <1>2, <1>3, PTL DEF OnceSpec
=============================================================================
