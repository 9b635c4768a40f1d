-------------------------- MODULE BlockClientProofs --------------------------
(***************************************************************************)
(* Proofs about the client, for all files, clients, disks and whatever the *)
(* uninitialised members hold.                                             *)
(***************************************************************************)
EXTENDS BlockClient, FiniteSetTheorems, SequenceTheorems, TLAPS

-----------------------------------------------------------------------------
(* What the operations of SyncStatus keep true of a status.                *)

(* The blocks that are still to come.                                      *)
Missing(f, st) == {b \in Blocks(f) : ~st.block_array[b]}

(* The invariant of a status: remaining_blocks counts what is missing, the *)
(* stream is closed only when nothing is, and the temporary file holds the *)
(* blocks that have been written (unless close() may lose some).           *)
StatusSound(f, st) ==
  /\ st \in Status(f)
  /\ st.remaining_blocks = Cardinality(Missing(f, st))
  /\ ~st.output => st.remaining_blocks = 0
  /\ ~DiskMayFill => \A b \in Blocks(f) :
       st.temp[b] = IF st.block_array[b] THEN BlockBytes(f, b) ELSE NoBytes

LEMMA BlocksFinite ==
  ASSUME NEW f \in Files
  PROVE  /\ BlockCount(f) \in Nat
         /\ Blocks(f) \subseteq Nat
         /\ IsFiniteSet(Blocks(f))
         /\ Cardinality(Blocks(f)) = BlockCount(f)
<1>1. FileSize[f] \in Int /\ BlockSize \in Nat \ {0} /\ UIntMod \in Nat \ {0}
  BY FileInfoAssumption
<1>2. Quotient(FileSize[f]) \in Int
  BY <1>1 DEF Quotient
<1>3. \A n \in Int : n % UIntMod \in Nat
  BY <1>1
<1>4. BlockCount(f) \in Nat
  BY <1>2, <1>3 DEF BlockCount
<1>5. IsFiniteSet(Blocks(f)) /\ Cardinality(Blocks(f)) = BlockCount(f)
  BY <1>4, FS_Interval DEF Blocks
<1> QED
  BY <1>4, <1>5 DEF Blocks

LEMMA BlockBytesType ==
  ASSUME NEW f \in Files, NEW b \in Blocks(f)
  PROVE  BlockBytes(f, b) \in Bytes
<1>1. BlockSize \in Nat \ {0} /\ b \in Nat /\ FileSize[f] \in Int
  BY FileInfoAssumption, BlocksFinite
<1>2. BlockSize * b \in Nat
  BY <1>1
<1> DEFINE pos == BlockSize * b
<1> HIDE DEF pos
<1>3. pos \in Nat => ReadFrom(f, pos) \in Bytes
  BY <1>1 DEF ReadFrom, Bytes, NoBytes
<1> QED
  BY <1>2, <1>3 DEF BlockBytes, pos

(* The blocks missing are finitely many, and all are there at zero.        *)
LEMMA MissingFinite ==
  ASSUME NEW f \in Files, NEW st
  PROVE  /\ IsFiniteSet(Missing(f, st))
         /\ Cardinality(Missing(f, st)) \in Nat
         /\ Cardinality(Missing(f, st)) = 0 <=> Missing(f, st) = {}
<1>1. IsFiniteSet(Missing(f, st))
  BY BlocksFinite, FS_Subset DEF Missing
<1> QED
  BY <1>1, FS_CardinalityType, FS_EmptySet

-----------------------------------------------------------------------------
LEMMA NewStatusSound ==
  ASSUME NEW f \in Files, NEW goodbye \in BOOLEAN
  PROVE  StatusSound(f, NewStatus(f, goodbye))
<1> DEFINE st == NewStatus(f, goodbye)
<1>1. Missing(f, st) = Blocks(f)
  BY DEF Missing, NewStatus
<1>2. st \in Status(f)
  BY BlocksFinite DEF NewStatus, Status, NoBytes, Bytes
<1>3. st.remaining_blocks = Cardinality(Missing(f, st)) /\ st.output
  BY <1>1, BlocksFinite DEF NewStatus
<1>4. \A b \in Blocks(f) : ~st.block_array[b] /\ st.temp[b] = NoBytes
  BY DEF NewStatus
<1> QED
  BY <1>2, <1>3, <1>4 DEF StatusSound

LEMMA SetPathSound ==
  ASSUME NEW f \in Files, NEW st, StatusSound(f, st), NEW p \in Paths
  PROVE  StatusSound(f, SetPath(st, p))
<1>1. Missing(f, SetPath(st, p)) = Missing(f, st)
  BY DEF Missing, SetPath, StatusSound, Status
<1> QED
  BY <1>1 DEF StatusSound, SetPath, Status

(* A block that comes a second time changes nothing; a new one is counted  *)
(* once.                                                                   *)
LEMMA WriteBlockSound ==
  ASSUME NEW f \in Files, NEW st, StatusSound(f, st), NEW b \in Blocks(f)
  PROVE  StatusSound(f, WriteBlock(st, b, BlockBytes(f, b)))
<1> DEFINE d == BlockBytes(f, b)
           new == WriteBlock(st, b, d)
<1>1. CASE st.block_array[b]
  BY <1>1 DEF WriteBlock
<1>2. CASE ~st.block_array[b]
  <2>1. st \in Status(f) /\ d \in Bytes
    BY BlockBytesType DEF StatusSound
  <2>2. new = [st EXCEPT !.block_array[b] = TRUE, !.remaining_blocks = @ - 1,
                         !.temp[b] = d, !.buffered = b]
    BY <1>2 DEF WriteBlock
  <2>3. Missing(f, new) = Missing(f, st) \ {b} /\ b \in Missing(f, st)
    BY <1>2, <2>1, <2>2 DEF Missing, Status
  <2>4. /\ Cardinality(Missing(f, new)) = Cardinality(Missing(f, st)) - 1
        /\ Cardinality(Missing(f, st)) \in Nat \ {0}
    BY <2>3, MissingFinite, FS_RemoveElement
  <2>5. /\ new.remaining_blocks = Cardinality(Missing(f, new))
        /\ new.remaining_blocks \in Nat
        /\ st.remaining_blocks # 0
    BY <2>1, <2>2, <2>4, MissingFinite DEF StatusSound, Status
  <2>6. new.output
    BY <2>1, <2>2, <2>5 DEF StatusSound, Status
  <2>7. new \in Status(f)
    <3>1. [st.block_array EXCEPT ![b] = TRUE] \in [Blocks(f) -> BOOLEAN]
      BY <2>1 DEF Status
    <3>2. [st.temp EXCEPT ![b] = d] \in [Blocks(f) -> Bytes]
      BY <2>1 DEF Status
    <3> QED
      BY <2>1, <2>2, <2>5, <3>1, <3>2 DEF Status
  <2>8. ~DiskMayFill => \A i \in Blocks(f) :
          new.temp[i] = IF new.block_array[i] THEN BlockBytes(f, i) ELSE NoBytes
    BY <2>1, <2>2 DEF StatusSound, Status
  <2> QED
    BY <2>5, <2>6, <2>7, <2>8 DEF StatusSound
<1> QED
  BY <1>1, <1>2

(* transfer_complete() is reached with every block in the temporary file.  *)
LEMMA CompleteHasAll ==
  ASSUME NEW f \in Files, NEW st, StatusSound(f, st), TransferComplete(st)
  PROVE  /\ \A b \in Blocks(f) : st.block_array[b]
         /\ st.path \in Paths
<1>1. Missing(f, st) = {}
  BY MissingFinite DEF StatusSound, TransferComplete
<1> QED
  BY <1>1 DEF Missing, StatusSound, Status, TransferComplete

(* Closing loses nothing where the disk does not fill.                     *)
LEMMA CloseKeepsAll ==
  ASSUME NEW f \in Files, NEW st, StatusSound(f, st), TransferComplete(st),
         NEW flushed \in Flushes, ~DiskMayFill
  PROVE  Close(st, flushed).temp = WholeFile(f)
<1>1. flushed = TRUE
  BY DEF Flushes
<1>2. Close(st, flushed).temp = st.temp
  BY <1>1 DEF Close, StatusSound, Status
<1>3. \A b \in Blocks(f) : st.temp[b] = BlockBytes(f, b)
  BY CompleteHasAll DEF StatusSound
<1> QED
  BY <1>2, <1>3 DEF WholeFile, StatusSound, Status

LEMMA AfterTransferSound ==
  ASSUME NEW f \in Files, NEW st, StatusSound(f, st), TransferComplete(st),
         NEW flushed \in Flushes
  PROVE  StatusSound(f, AfterTransfer(st, flushed))
<1> DEFINE new == AfterTransfer(st, flushed)
<1>1. st \in Status(f) /\ flushed \in BOOLEAN
  BY DEF StatusSound, Flushes
<1>2. /\ new.block_array = st.block_array
      /\ new.remaining_blocks = st.remaining_blocks
      /\ new.temp = Close(st, flushed).temp
  BY <1>1 DEF AfterTransfer, Close, Status
<1>3. Missing(f, new) = Missing(f, st)
  BY <1>2 DEF Missing
<1>4. new \in Status(f)
  BY <1>1 DEF AfterTransfer, Close, Renames, Status, NoBytes, Bytes
<1>5. st.remaining_blocks = 0
  BY DEF TransferComplete
<1>6. ~DiskMayFill => new.temp = st.temp
  BY <1>1, <1>2 DEF Flushes, Close, Status
<1> QED
  BY <1>2, <1>3, <1>4, <1>5, <1>6 DEF StatusSound

-----------------------------------------------------------------------------
(* The datagrams that can reach a client: well formed, and each BLOCK with *)
(* the bytes it is meant to have.                                          *)
LEMMA GenuineType ==
  ASSUME NEW m \in GenuineDatagram
  PROVE  /\ m.type \in {"INFO", "BLOCK", "SGOODBYE"} => m.file \in Files
         /\ m.type = "INFO" => m.path \in Paths
         /\ m.type = "BLOCK" => /\ m.block \in Blocks(m.file)
                                /\ m.data = BlockBytes(m.file, m.block)
         /\ m.type = "SGOODBYE" => m.clients \in Seq(Hosts)
BY DEF GenuineDatagram, Genuine, Datagram

(* What a client can hear where the files of offers are the only ones that *)
(* announcements it can read promise it.                                   *)
Deliverable(offers) ==
  {m \in GenuineDatagram : m.type = "INFO" /\ ~Rejected(m) => <<m.file, m.path>> \in offers}

AllOffers == Files \X Paths

LEMMA HeardGenuine == Heard \subseteq GenuineDatagram
<1> USE DEF GenuineDatagram, Genuine
<1>1. ASSUME NEW f \in Files, NEW p \in Paths PROVE InfoMsg(f, p) \in GenuineDatagram
  BY DEF InfoMsg, Datagram
<1>2. ASSUME NEW f \in Files, NEW b \in Blocks(f)
      PROVE  BlockMsg(f, b, BlockBytes(f, b)) \in GenuineDatagram
  <2>1. b \in Nat /\ BlockBytes(f, b) \in Bytes
    BY BlockBytesType, BlocksFinite
  <2> QED
    BY <2>1 DEF BlockMsg, Datagram
<1>3. Announcements \subseteq GenuineDatagram
  BY <1>1, <1>2 DEF Announcements
<1>4. ASSUME NEW f \in Files, NEW a \in Seq(Hosts) PROVE SgoodbyeMsg(f, a) \in GenuineDatagram
  BY DEF SgoodbyeMsg, Datagram
<1>5. UNION {[1 .. n -> Hosts] : n \in 0 .. 2} \subseteq Seq(Hosts)
  <2> SUFFICES ASSUME NEW n \in 0 .. 2, NEW a \in [1 .. n -> Hosts] PROVE a \in Seq(Hosts)
    OBVIOUS
  <2> QED
    BY SeqDef
<1>6. Goodbyes \subseteq GenuineDatagram
  BY <1>4, <1>5 DEF Goodbyes
<1>7. {ChelloMsg(h) : h \in Hosts} \cup {CgoodbyeMsg} \subseteq GenuineDatagram
  BY DEF ChelloMsg, CgoodbyeMsg, Datagram
<1> QED
  BY <1>3, <1>6, <1>7 DEF Heard

LEMMA HeardDeliverable == Heard \in SUBSET Deliverable(AllOffers)
BY HeardGenuine, GenuineType DEF Deliverable, AllOffers

LEMMA DeliverableGenuine ==
  ASSUME NEW offers
  PROVE  Deliverable(offers) \subseteq GenuineDatagram
BY DEF Deliverable

-----------------------------------------------------------------------------
(* A status that is sound, and whose path is one that f is on offer for.   *)
StatusPromised(offers, f, st) ==
  /\ StatusSound(f, st)
  /\ st.path = NoPath \/ <<f, st.path>> \in offers

(* The inductive invariant of the statuses of one client.                  *)
StatusesSound(c, offers) ==
  /\ Following(c) \subseteq Files
  /\ \A f \in Following(c) :
       StatusPromised(offers, f, sync_set[c][f]) /\ ~SyncComplete(sync_set[c][f])

(* What one step can do to the statuses of c.                              *)
StatusesKept(c) == sync_set'[c] = sync_set[c]
StatusesLost(c) == sync_set'[c] = Nothing
FileForgotten(c) == \E f \in Files : sync_set'[c] = Without(sync_set[c], f)
StatusChanged(c, offers) ==
  \E f \in Files : \E st \in Status(f) :
    /\ StatusPromised(offers, f, st) /\ ~SyncComplete(st)
    /\ sync_set'[c] = Put(sync_set[c], f, st)

StatusStep(c, offers) ==
  StatusesKept(c) \/ StatusesLost(c) \/ FileForgotten(c) \/ StatusChanged(c, offers)

(* What one step can do to the disks: nothing, or put a file that has all  *)
(* of its blocks in its place.                                             *)
DiskKept == UNCHANGED disk
FileInstalled(c, offers) ==
  \E f \in Files : \E st \in Status(f), flushed \in Flushes :
    /\ StatusPromised(offers, f, st) /\ TransferComplete(st)
    /\ Install(c, f, st, flushed)

(* get_sync_status() gives a handler a sound status.                       *)
LEMMA StatusOfSound ==
  ASSUME NEW offers, NEW c \in Clients, StatusesSound(c, offers), NEW f \in Files,
         NEW goodbye \in GoodbyeGarbage
  PROVE  StatusPromised(offers, f, StatusOf(c, f, goodbye))
<1>1. goodbye \in BOOLEAN
  BY SyncStatusAssumption
<1>2. NewStatus(f, goodbye).path = NoPath
  BY DEF NewStatus
<1> QED
  BY <1>1, <1>2, NewStatusSound DEF StatusesSound, StatusPromised, StatusOf, Following

LEMMA SettleSteps ==
  ASSUME NEW offers, DOMAIN sync_set = Clients, NEW c \in Clients, NEW f \in Files, NEW st,
         StatusPromised(offers, f, st), NEW flushed \in Flushes, Settle(c, f, st, flushed)
  PROVE  /\ \A d \in Clients : StatusStep(d, offers)
         /\ DiskKept \/ FileInstalled(c, offers)
<1>1. st \in Status(f)
  BY DEF StatusPromised, StatusSound
<1>2. CASE SyncComplete(st)
  <2>1. Forget(c, f) /\ Install(c, f, st, flushed) /\ TransferComplete(st)
    BY <1>2 DEF Settle, SyncComplete
  <2>2. sync_set' = [sync_set EXCEPT ![c] = Without(@, f)]
    BY <2>1 DEF Forget
  <2>3. \A d \in Clients : StatusStep(d, offers)
    BY <2>2 DEF StatusStep, StatusesKept, FileForgotten
  <2> QED
    BY <1>1, <2>1, <2>3 DEF FileInstalled
<1>3. CASE ~SyncComplete(st)
  <2>1. sync_set' = [sync_set EXCEPT ![c] = Put(@, f, st)] /\ UNCHANGED disk
    BY <1>3 DEF Settle, Remember
  <2>2. \A d \in Clients \ {c} : StatusesKept(d)
    BY <2>1 DEF StatusesKept
  <2>3. StatusChanged(c, offers)
    BY <1>1, <1>3, <2>1 DEF StatusChanged
  <2> QED
    BY <2>1, <2>2, <2>3 DEF StatusStep, DiskKept
<1> QED
  BY <1>2, <1>3

LEMMA SgoodbyeSteps ==
  ASSUME NEW offers, DOMAIN sync_set = Clients, NEW c \in Clients, StatusesSound(c, offers),
         NEW m \in GenuineDatagram, NEW goodbye \in GoodbyeGarbage, NEW flushed \in Flushes,
         HandleSgoodbye(c, m, goodbye, flushed)
  PROVE  /\ \A d \in Clients : StatusStep(d, offers)
         /\ DiskKept \/ FileInstalled(c, offers)
<1> DEFINE f == m.file
           st == StatusOf(c, f, goodbye)
           new == AfterTransfer(st, flushed)
<1>1. f \in Files
  BY GenuineType DEF HandleSgoodbye
<1>2. StatusPromised(offers, f, st) /\ st \in Status(f)
  BY <1>1, StatusOfSound DEF StatusPromised, StatusSound
<1>3. CASE ~TransferComplete(st)
  <2>1. sync_set' = [sync_set EXCEPT ![c] = Put(@, f, st)] /\ UNCHANGED disk
    BY <1>3 DEF HandleSgoodbye, Remember
  <2>2. ~SyncComplete(st)
    BY <1>3 DEF SyncComplete
  <2>3. \A d \in Clients \ {c} : StatusesKept(d)
    BY <2>1 DEF StatusesKept
  <2>4. StatusChanged(c, offers)
    <3> HIDE DEF st, f
    <3> QED
      BY <1>1, <1>2, <2>1, <2>2 DEF StatusChanged
  <2> QED
    BY <2>1, <2>3, <2>4 DEF StatusStep, DiskKept
<1>4. CASE TransferComplete(st)
  <2>1. FileInstalled(c, offers)
    <3>1. Install(c, f, st, flushed)
      BY <1>4 DEF HandleSgoodbye
    <3> HIDE DEF st, f
    <3> QED
      BY <1>1, <1>2, <1>4, <3>1 DEF FileInstalled
  <2>2. CASE st.goodbye_received \/ Named(c, m) # {}
    <3>1. sync_set' = [sync_set EXCEPT ![c] = Without(@, f)]
      BY <1>4, <2>2 DEF HandleSgoodbye, Forget
    <3> QED
      BY <1>1, <2>1, <3>1 DEF StatusStep, StatusesKept, FileForgotten
  <2>3. CASE ~(st.goodbye_received \/ Named(c, m) # {})
    <3>1. sync_set' = [sync_set EXCEPT ![c] = Put(@, f, new)]
      BY <1>4, <2>3 DEF HandleSgoodbye, Remember
    <3>2. StatusPromised(offers, f, new)
      <4>1. new.path = st.path
        BY <1>2 DEF AfterTransfer, Close, Status
      <4>2. StatusSound(f, new)
        BY <1>1, <1>2, <1>4, AfterTransferSound DEF StatusPromised
      <4> QED
        BY <1>2, <4>1, <4>2 DEF StatusPromised
    <3>3. ~SyncComplete(new)
      BY <1>2, <2>3 DEF SyncComplete, AfterTransfer, Close, Status
    <3>4. \A d \in Clients \ {c} : StatusesKept(d)
      BY <3>1 DEF StatusesKept
    <3>5. StatusChanged(c, offers)
      <4>1. new \in Status(f)
        BY <3>2 DEF StatusPromised, StatusSound
      <4> HIDE DEF new, f
      <4> QED
        BY <1>1, <3>1, <3>2, <3>3, <4>1 DEF StatusChanged
    <3> QED
      BY <2>1, <3>4, <3>5 DEF StatusStep
  <2> QED
    BY <2>2, <2>3
<1> QED
  BY <1>3, <1>4

LEMMA ReadSteps ==
  ASSUME NEW offers, DOMAIN sync_set = Clients, NEW c \in Clients, StatusesSound(c, offers),
         NEW m \in Deliverable(offers), ~Rejected(m),
         NEW goodbye \in GoodbyeGarbage, NEW flushed \in Flushes,
         ClientHandle(c, m, goodbye, flushed)
  PROVE  /\ \A d \in Clients : StatusStep(d, offers)
         /\ DiskKept \/ FileInstalled(c, offers)
<1>0. m \in GenuineDatagram
  BY DEF Deliverable
<1>1. CASE HandleInfo(c, m, goodbye, flushed)
  <2> DEFINE st == StatusOf(c, m.file, goodbye)
  <2>1. m.file \in Files /\ m.path \in Paths /\ <<m.file, m.path>> \in offers
    BY <1>0, <1>1, GenuineType DEF HandleInfo, Deliverable
  <2>2. StatusSound(m.file, st) /\ StatusSound(m.file, SetPath(st, m.path))
    BY <2>1, StatusOfSound, SetPathSound DEF StatusPromised
  <2>3. SetPath(st, m.path).path = m.path
    BY <2>2 DEF SetPath, StatusSound, Status
  <2>4. StatusPromised(offers, m.file, SetPath(st, m.path))
    BY <2>1, <2>2, <2>3 DEF StatusPromised
  <2> QED
    BY <1>1, <2>1, <2>4, SettleSteps DEF HandleInfo
<1>2. CASE HandleBlock(c, m, goodbye, flushed)
  <2> DEFINE st == StatusOf(c, m.file, goodbye)
             new == WriteBlock(st, m.block, m.data)
  <2>1. m.file \in Files /\ m.block \in Blocks(m.file) /\ m.data = BlockBytes(m.file, m.block)
    BY <1>0, <1>2, GenuineType DEF HandleBlock
  <2>2. StatusPromised(offers, m.file, st) /\ StatusSound(m.file, new)
    BY <2>1, StatusOfSound, WriteBlockSound DEF StatusPromised
  <2>3. new.path = st.path
    BY <2>2 DEF WriteBlock, StatusPromised, StatusSound, Status
  <2>4. StatusPromised(offers, m.file, new)
    BY <2>2, <2>3 DEF StatusPromised
  <2> QED
    BY <1>2, <2>1, <2>4, SettleSteps DEF HandleBlock
<1>3. CASE HandleSgoodbye(c, m, goodbye, flushed)
  BY <1>0, <1>3, SgoodbyeSteps
<1>4. CASE ClientIgnores(c, m)
  BY <1>4 DEF ClientIgnores, StatusStep, StatusesKept, DiskKept
<1> QED
  BY <1>1, <1>2, <1>3, <1>4 DEF ClientHandle

ClientStatusesSound(offers) == DOMAIN sync_set = Clients /\ \A c \in Clients : StatusesSound(c, offers)

LEMMA ClientSteps ==
  ASSUME NEW offers, ClientStatusesSound(offers),
         NEW heard \in SUBSET Deliverable(offers), [ClientNext(heard)]_client_vars
  PROVE  /\ DOMAIN sync_set' = Clients
         /\ \A d \in Clients : StatusStep(d, offers)
         /\ DiskKept \/ \E c \in Clients : FileInstalled(c, offers)
<1> USE DEF ClientStatusesSound
<1>1. DOMAIN sync_set' = Clients
  <2>1. CASE UNCHANGED sync_set
    BY <2>1
  <2>2. ASSUME NEW c \in Clients, NEW v, sync_set' = [sync_set EXCEPT ![c] = v]
        PROVE  DOMAIN sync_set' = Clients
    BY <2>2
  <2>3. ASSUME NEW c \in Clients, NEW m \in heard, NEW goodbye, NEW flushed,
               ClientHandle(c, m, goodbye, flushed)
        PROVE  DOMAIN sync_set' = Clients
    BY <2>3
    DEF ClientHandle, HandleInfo, HandleBlock, HandleSgoodbye, ClientIgnores,
        Settle, Remember, Forget
  <2> QED
    BY <2>1, <2>2, <2>3
    DEF ClientNext, ClientStep, ClientStart, ClientOpenFails, ClientRead, ClientWrite,
        ClientKilled, ClientFail, ClientGone, client_vars
<1>2. CASE UNCHANGED <<sync_set, disk>>
  BY <1>1, <1>2 DEF StatusStep, StatusesKept, DiskKept
<1>3. ASSUME NEW c \in Clients, NEW m \in heard, NEW both \in BOOLEAN, ClientRead(c, m, both)
      PROVE  /\ \A d \in Clients : StatusStep(d, offers)
             /\ DiskKept \/ \E d \in Clients : FileInstalled(d, offers)
  <2>1. PICK goodbye \in GoodbyeGarbage, flushed \in Flushes : ClientHandle(c, m, goodbye, flushed)
    BY <1>3 DEF ClientRead
  <2>2. m \in Deliverable(offers) /\ ~Rejected(m)
    BY <1>3 DEF ClientRead
  <2> QED
    BY <2>1, <2>2, ReadSteps
<1>4. ASSUME NEW c \in Clients, ClientGone(c)
      PROVE  (\A d \in Clients : StatusStep(d, offers)) /\ DiskKept
  BY <1>4 DEF ClientGone, StatusStep, StatusesKept, StatusesLost, DiskKept
<1> QED
  BY <1>1, <1>2, <1>3, <1>4
  DEF ClientNext, ClientStep, ClientStart, ClientOpenFails, ClientWrite, ClientKilled, ClientFail,
      client_vars

LEMMA StatusesSoundStep ==
  ASSUME NEW offers, NEW c \in Clients, StatusesSound(c, offers), StatusStep(c, offers)
  PROVE  StatusesSound(c, offers)'
<1> USE DEF StatusesSound, Following
<1>1. CASE StatusesKept(c)
  BY <1>1 DEF StatusesKept
<1>2. CASE StatusesLost(c)
  BY <1>2 DEF StatusesLost, Nothing
<1>3. CASE FileForgotten(c)
  BY <1>3 DEF FileForgotten, Without
<1>4. CASE StatusChanged(c, offers)
  <2>1. PICK f \in Files : \E st \in Status(f) :
          /\ StatusPromised(offers, f, st) /\ ~SyncComplete(st)
          /\ sync_set'[c] = Put(sync_set[c], f, st)
    BY <1>4 DEF StatusChanged
  <2>2. PICK st \in Status(f) :
          /\ StatusPromised(offers, f, st) /\ ~SyncComplete(st)
          /\ sync_set'[c] = Put(sync_set[c], f, st)
    BY <2>1
  <2>3. DOMAIN sync_set'[c] = DOMAIN sync_set[c] \cup {f}
    BY <2>2 DEF Put
  <2>4. \A g \in DOMAIN sync_set'[c] : sync_set'[c][g] = IF g = f THEN st ELSE sync_set[c][g]
    BY <2>2 DEF Put
  <2> QED
    BY <2>2, <2>3, <2>4
<1> QED
  BY <1>1, <1>2, <1>3, <1>4 DEF StatusStep

LEMMA ClientStatusesStep ==
  ASSUME NEW offers, ClientStatusesSound(offers),
         NEW heard \in SUBSET Deliverable(offers), [ClientNext(heard)]_client_vars
  PROVE  ClientStatusesSound(offers)'
BY ClientSteps, StatusesSoundStep DEF ClientStatusesSound

LEMMA ClientStatusesInvariant == ClientSpec => []ClientStatusesSound(AllOffers)
<1>1. ClientInit => ClientStatusesSound(AllOffers)
  BY DEF ClientInit, ClientStatusesSound, StatusesSound, Following, Nothing
<1>2. ClientStatusesSound(AllOffers) /\ [ClientNext(Heard)]_client_vars => ClientStatusesSound(AllOffers)'
  BY ClientStatusesStep, HeardDeliverable
<1> QED
  BY <1>1, <1>2, PTL DEF ClientSpec

-----------------------------------------------------------------------------
(* What that invariant says of the statuses, whatever is on offer.          *)
LEMMA StatusesPromise ==
  ASSUME NEW offers, ClientStatusesSound(offers)
  PROVE  RemainingCounts /\ ClosedHasAllBlocks /\ NothingCompleteKept
<1>1. RemainingCounts
  BY DEF ClientStatusesSound, StatusesSound, StatusPromised, StatusSound, Missing, RemainingCounts
<1>2. ASSUME NEW f \in Files, NEW st, StatusSound(f, st), ~st.output
      PROVE  \A b \in Blocks(f) : st.block_array[b]
  BY <1>2, MissingFinite DEF StatusSound, Missing
<1>3. ClosedHasAllBlocks
  BY <1>2 DEF ClientStatusesSound, StatusesSound, StatusPromised, ClosedHasAllBlocks
<1>4. NothingCompleteKept
  BY DEF ClientStatusesSound, StatusesSound, NothingCompleteKept
<1> QED
  BY <1>1, <1>3, <1>4

(* remaining_blocks is the number of blocks that have not been written.    *)
THEOREM ClientRemainingCounts == ClientSpec => []RemainingCounts
<1>1. ClientStatusesSound(AllOffers) => RemainingCounts
  BY StatusesPromise
<1> QED
  BY <1>1, ClientStatusesInvariant, PTL

(* No block is ever written to a stream that has been closed.              *)
THEOREM ClientClosedHasAll == ClientSpec => []ClosedHasAllBlocks
<1>1. ClientStatusesSound(AllOffers) => ClosedHasAllBlocks
  BY StatusesPromise
<1> QED
  BY <1>1, ClientStatusesInvariant, PTL

(* A status that is complete does not outlive the handler that made it so. *)
THEOREM ClientKeepsNothingComplete == ClientSpec => []NothingCompleteKept
<1>1. ClientStatusesSound(AllOffers) => NothingCompleteKept
  BY StatusesPromise
<1> QED
  BY <1>1, ClientStatusesInvariant, PTL

-----------------------------------------------------------------------------
(* The disks: paths and files are known ones, and copies are complete.     *)
DiskSound ==
  /\ disk = [c \in Clients |-> disk[c]]
  /\ \A c \in Clients : \A p \in DOMAIN disk[c] :
       /\ p \in Paths /\ disk[c][p].file \in Files
       /\ ~DiskMayFill => disk[c][p].data = WholeFile(disk[c][p].file)

(* A file that is installed replaces at most what was at its path, and the *)
(* file is on offer for that path.                                         *)
CopyAppears(offers) ==
  \E c \in Clients, f \in Files, p \in Paths : \E copy :
    /\ <<f, p>> \in offers
    /\ disk' = [disk EXCEPT ![c] = Put(@, p, copy)]
    /\ copy.file = f
    /\ ~DiskMayFill => copy = WholeCopy(f)

LEMMA InstalledWhere ==
  ASSUME NEW offers, disk = [d \in Clients |-> disk[d]], NEW c \in Clients,
         FileInstalled(c, offers)
  PROVE  DiskKept \/ CopyAppears(offers)
<1>0. PICK f \in Files : \E st \in Status(f), flushed \in Flushes :
        StatusPromised(offers, f, st) /\ TransferComplete(st) /\ Install(c, f, st, flushed)
  BY DEF FileInstalled
<1>1. PICK st \in Status(f), flushed \in Flushes :
        StatusPromised(offers, f, st) /\ TransferComplete(st) /\ Install(c, f, st, flushed)
  BY <1>0
<1>2. CASE ~Renames(st)
  BY <1>1, <1>2 DEF Install, DiskAfter, DiskKept
<1>3. CASE Renames(st)
  <2> DEFINE copy == [file |-> f, data |-> Close(st, flushed).temp]
  <2>0. StatusSound(f, st)
    BY <1>1 DEF StatusPromised
  <2>1. disk' = [disk EXCEPT ![c] = Put(@, st.path, copy)]
    BY <1>1, <1>3 DEF Install, DiskAfter
  <2>2. st.path \in Paths /\ <<f, st.path>> \in offers
    BY <1>1, <2>0, CompleteHasAll DEF StatusPromised, TransferComplete
  <2>3. ~DiskMayFill => copy = WholeCopy(f)
    BY <1>1, <2>0, CloseKeepsAll DEF WholeCopy
  <2>4. copy.file = f
    OBVIOUS
  <2> HIDE DEF copy
  <2> QED
    BY <2>1, <2>2, <2>3, <2>4 DEF CopyAppears
<1> QED
  BY <1>2, <1>3

LEMMA DiskSteps ==
  ASSUME NEW offers, ClientStatusesSound(offers), DiskSound,
         NEW heard \in SUBSET Deliverable(offers), [ClientNext(heard)]_client_vars
  PROVE  DiskKept \/ CopyAppears(offers)
BY ClientSteps, InstalledWhere DEF DiskSound

LEMMA DiskSoundStep ==
  ASSUME NEW offers, ClientStatusesSound(offers), DiskSound,
         NEW heard \in SUBSET Deliverable(offers), [ClientNext(heard)]_client_vars
  PROVE  DiskSound'
<1>1. CASE DiskKept
  BY <1>1 DEF DiskKept, DiskSound
<1>2. ASSUME NEW c \in Clients, NEW f \in Files, NEW p \in Paths, NEW copy,
             disk' = [disk EXCEPT ![c] = Put(@, p, copy)], copy.file = f,
             ~DiskMayFill => copy = WholeCopy(f)
      PROVE  DiskSound'
  <2>1. /\ disk' = [d \in Clients |-> disk'[d]]
        /\ \A d \in Clients \ {c} : disk'[d] = disk[d]
        /\ DOMAIN disk'[c] = DOMAIN disk[c] \cup {p}
        /\ \A q \in DOMAIN disk'[c] : disk'[c][q] = IF q = p THEN copy ELSE disk[c][q]
    BY <1>2 DEF DiskSound, Put
  <2>2. ~DiskMayFill => copy.data = WholeFile(copy.file)
    BY <1>2 DEF WholeCopy
  <2> QED
    BY <1>2, <2>1, <2>2 DEF DiskSound
<1> QED
  BY <1>1, <1>2, DiskSteps DEF CopyAppears

LEMMA DiskInvariant == ClientSpec => []DiskSound
<1>1. ClientInit => DiskSound
  BY DEF ClientInit, DiskSound, Nothing
<1>2. ClientStatusesSound(AllOffers) /\ DiskSound /\ [ClientNext(Heard)]_client_vars => DiskSound'
  BY DiskSoundStep, HeardDeliverable
<1> QED
  BY <1>1, <1>2, ClientStatusesInvariant, PTL DEF ClientSpec

(* Where the disk does not fill up, every file at a path is complete.      *)
THEOREM ClientInstalledComplete == ClientSpec => []InstalledIsComplete
<1>1. DiskSound => InstalledIsComplete
  BY DEF DiskSound, InstalledIsComplete
<1> QED
  BY <1>1, DiskInvariant, PTL

-----------------------------------------------------------------------------
(* A client implements FileDelivery: from outside, complete copies appear  *)
(* in one step each and nothing else happens.                              *)
THEOREM ClientImplementsDelivery ==
  ASSUME ~DiskMayFill
  PROVE  ClientSpec => InstallsWholeFiles
<1>1. ClientInit => Delivery!DeliveryInit
  BY DEF ClientInit, Delivery!DeliveryInit, Delivery!NoCopies, Nothing
<1>2. ClientStatusesSound(AllOffers) /\ DiskSound /\ [ClientNext(Heard)]_client_vars
      => [Delivery!DeliveryNext]_disk
  <2> SUFFICES ASSUME CopyAppears(AllOffers)
               PROVE  Delivery!DeliveryNext
    BY DiskSteps, HeardDeliverable DEF DiskKept
  <2>1. PICK c \in Clients, f \in Files, p \in Paths :
          <<f, p>> \in AllOffers /\ disk' = [disk EXCEPT ![c] = Put(@, p, WholeCopy(f))]
    BY DEF CopyAppears
  <2>2. Delivery!Deliver(c, f, p)
    BY <2>1 DEF Delivery!Deliver, Put, AllOffers
  <2> QED
    BY <2>1, <2>2 DEF Delivery!DeliveryNext, AllOffers
<1> QED
  BY <1>1, <1>2, ClientStatusesInvariant, DiskInvariant, PTL
  DEF ClientSpec, InstallsWholeFiles, Delivery!DeliverySpec

-----------------------------------------------------------------------------
(* The types of what the statuses and the disk leave out.                  *)
Greeting == {m \in Datagram : m.type \in {"CHELLO", "CGOODBYE"}}

ProcessTypeOK ==
  /\ client_pc \in [Clients -> {"idle", "select", "write", "failed"}]
  /\ client_id \in [Clients -> IdGarbage]
  /\ client_queue \in [Clients -> Seq(Greeting)]

(* The answers to a goodbye are a sequence of goodbyes.                    *)
LEMMA AnswersType ==
  ASSUME NEW c \in Clients, NEW m \in GenuineDatagram, m.type = "SGOODBYE"
  PROVE  [i \in 1 .. Cardinality(Named(c, m)) |-> CgoodbyeMsg] \in Seq(Greeting)
<1>1. m.clients \in Seq(Hosts)
  BY GenuineType
<1>2. Len(m.clients) \in Nat /\ DOMAIN m.clients = 1 .. Len(m.clients)
  BY <1>1
<1>3. IsFiniteSet(Named(c, m))
  <2>1. IsFiniteSet(1 .. Len(m.clients))
    BY <1>2, FS_Interval
  <2>2. Named(c, m) \in SUBSET (1 .. Len(m.clients))
    BY <1>2 DEF Named
  <2> QED
    BY <2>1, <2>2, FS_Subset
<1>4. Cardinality(Named(c, m)) \in Nat
  BY <1>3, FS_CardinalityType
<1>5. CgoodbyeMsg \in Greeting
  BY DEF CgoodbyeMsg, Datagram, Greeting
<1>6. [i \in 1 .. Cardinality(Named(c, m)) |-> CgoodbyeMsg]
        \in [1 .. Cardinality(Named(c, m)) -> Greeting]
  BY <1>5
<1> QED
  BY <1>4, <1>6, SeqDef

LEMMA ProcessTypeStep ==
  ASSUME ProcessTypeOK, NEW heard \in SUBSET GenuineDatagram,
         [ClientNext(heard)]_client_vars
  PROVE  ProcessTypeOK'
<1> USE DEF ProcessTypeOK
<1>1. CASE UNCHANGED client_vars
  BY <1>1 DEF client_vars
<1>2. ASSUME NEW c \in Clients, ClientStart(c) PROVE ProcessTypeOK'
  <2>1. <<ChelloMsg(HostOf[c])>> \in Seq(Greeting)
    BY BlockClientAssumption DEF ChelloMsg, Datagram, Greeting
  <2> QED
    BY <1>2, <2>1 DEF ClientStart
<1>3. ASSUME NEW c \in Clients, ClientOpenFails(c) PROVE ProcessTypeOK'
  BY <1>3 DEF ClientOpenFails
<1>4. ASSUME NEW c \in Clients, NEW m \in heard, NEW both \in BOOLEAN, ClientRead(c, m, both)
      PROVE  ProcessTypeOK'
  <2>1. PICK goodbye \in GoodbyeGarbage, flushed \in Flushes : ClientHandle(c, m, goodbye, flushed)
    BY <1>4 DEF ClientRead
  <2>2. client_queue' \in [Clients -> Seq(Greeting)]
    <3>1. CASE HandleSgoodbye(c, m, goodbye, flushed)
      <4> DEFINE more == [i \in 1 .. Cardinality(Named(c, m)) |-> CgoodbyeMsg]
      <4>1. more \in Seq(Greeting)
        BY <3>1, AnswersType DEF HandleSgoodbye
      <4>2. client_queue' \in {client_queue, [client_queue EXCEPT ![c] = @ \o more]}
        BY <3>1 DEF HandleSgoodbye
      <4> HIDE DEF more
      <4>3. client_queue[c] \o more \in Seq(Greeting)
        BY <4>1
      <4> QED
        BY <4>2, <4>3
    <3> QED
      BY <2>1, <3>1 DEF ClientHandle, HandleInfo, HandleBlock, ClientIgnores
  <2> QED
    BY <1>4, <2>2 DEF ClientRead
<1>5. ASSUME NEW c \in Clients, ClientWrite(c) PROVE ProcessTypeOK'
  <2>1. Tail(client_queue[c]) \in Seq(Greeting)
    BY <1>5 DEF ClientWrite
  <2> QED
    BY <1>5, <2>1 DEF ClientWrite
<1>6. ASSUME NEW c \in Clients, ClientGone(c) PROVE ProcessTypeOK'
  BY <1>6 DEF ClientGone
<1> QED
  BY <1>1, <1>2, <1>3, <1>4, <1>5, <1>6
  DEF ClientNext, ClientStep, ClientKilled, ClientFail

LEMMA ProcessTypeInvariant == ClientSpec => []ProcessTypeOK
<1>1. ClientInit => ProcessTypeOK
  BY DEF ClientInit, ProcessTypeOK
<1>2. ProcessTypeOK /\ [ClientNext(Heard)]_client_vars => ProcessTypeOK'
  BY ProcessTypeStep, HeardGenuine
<1> QED
  BY <1>1, <1>2, PTL DEF ClientSpec

(* Type correctness of the client.                                         *)
THEOREM ClientTypeCorrect == ClientSpec => []ClientTypeOK
<1>1. Seq(Greeting) \subseteq Seq(Datagram)
  BY DEF Greeting
<1>2. ProcessTypeOK /\ ClientStatusesSound(AllOffers) /\ DiskSound => ClientTypeOK
  BY <1>1 DEF ProcessTypeOK, ClientStatusesSound, StatusesSound, StatusPromised, StatusSound,
              DiskSound, ClientTypeOK, Following
<1> QED
  BY <1>2, ProcessTypeInvariant, ClientStatusesInvariant, DiskInvariant, PTL

-----------------------------------------------------------------------------
(* f was put in its place of c's disk, before or in this step.             *)
PutInPlace(c, f) ==
  \/ sync_set[c][f].moved
  \/ \E p \in DOMAIN disk'[c] : disk'[c][p].file = f

(* Within one file system rename() works, the first time.                  *)
LEMMA InstallShows ==
  ASSUME CrossDevice = {}, disk = [d \in Clients |-> disk[d]], NEW c \in Clients,
         NEW f \in Files, NEW st, NEW flushed, Install(c, f, st, flushed), ~st.moved
  PROVE  \E p \in DOMAIN disk'[c] : disk'[c][p].file = f
<1> DEFINE copy == [file |-> f, data |-> Close(st, flushed).temp]
<1>1. disk'[c] = Put(disk[c], st.path, copy)
  BY DEF Install, DiskAfter, Renames
<1>2. copy.file = f
  OBVIOUS
<1> HIDE DEF copy
<1> QED
  BY <1>1, <1>2 DEF Put

(* No handler of INFO or BLOCK touches moved; each erases what it          *)
(* installs.                                                               *)
LEMMA SettleForgets ==
  ASSUME CrossDevice = {}, disk = [d \in Clients |-> disk[d]], DOMAIN sync_set = Clients,
         NEW c \in Clients, NEW g \in Files, NEW f \in Following(c), NEW st, NEW flushed,
         Settle(c, g, st, flushed), g = f => st.moved = sync_set[c][f].moved,
         f \notin DOMAIN sync_set'[c]
  PROVE  PutInPlace(c, f)
<1>1. SyncComplete(st) /\ g = f
  BY DEF Settle, Remember, Forget, Put, Without, Following
<1>2. Install(c, f, st, flushed)
  BY <1>1 DEF Settle
<1> QED
  BY <1>1, <1>2, InstallShows DEF PutInPlace

LEMMA SgoodbyeForgets ==
  ASSUME CrossDevice = {}, disk = [d \in Clients |-> disk[d]], DOMAIN sync_set = Clients,
         NEW c \in Clients, NEW f \in Following(c), NEW m \in GenuineDatagram,
         NEW goodbye, NEW flushed, HandleSgoodbye(c, m, goodbye, flushed),
         f \notin DOMAIN sync_set'[c]
  PROVE  PutInPlace(c, f)
<1> DEFINE st == StatusOf(c, m.file, goodbye)
<1>1. m.file \in Files
  BY GenuineType DEF HandleSgoodbye
<1>2. TransferComplete(st) /\ Forget(c, m.file)
  BY DEF HandleSgoodbye, Remember, Put, Following
<1>3. m.file = f
  BY <1>2 DEF Forget, Without, Following
<1>4. Install(c, f, st, flushed)
  BY <1>2, <1>3 DEF HandleSgoodbye
<1>5. st = sync_set[c][f]
  BY <1>3 DEF StatusOf, Following
<1> HIDE DEF st
<1> QED
  BY <1>1, <1>3, <1>4, <1>5, InstallShows DEF PutInPlace

LEMMA ReadForgets ==
  ASSUME CrossDevice = {}, NEW offers, ClientStatusesSound(offers), DiskSound,
         NEW c \in Clients, NEW f \in Following(c), NEW m \in GenuineDatagram,
         NEW goodbye, NEW flushed, ClientHandle(c, m, goodbye, flushed),
         f \notin DOMAIN sync_set'[c]
  PROVE  PutInPlace(c, f)
<1>1. disk = [d \in Clients |-> disk[d]] /\ DOMAIN sync_set = Clients
  BY DEF DiskSound, ClientStatusesSound
<1>2. sync_set[c][f] \in Status(f)
  BY DEF ClientStatusesSound, StatusesSound, StatusPromised, StatusSound
<1>3. CASE HandleInfo(c, m, goodbye, flushed)
  <2> DEFINE st == SetPath(StatusOf(c, m.file, goodbye), m.path)
  <2>1. m.file \in Files /\ Settle(c, m.file, st, flushed)
    BY <1>3, GenuineType DEF HandleInfo
  <2>2. m.file = f => st.moved = sync_set[c][f].moved
    BY <1>2 DEF StatusOf, Following, SetPath, Status
  <2> HIDE DEF st
  <2> QED
    BY <1>1, <2>1, <2>2, SettleForgets
<1>4. CASE HandleBlock(c, m, goodbye, flushed)
  <2> DEFINE st == WriteBlock(StatusOf(c, m.file, goodbye), m.block, m.data)
  <2>1. m.file \in Files /\ Settle(c, m.file, st, flushed)
    BY <1>4, GenuineType DEF HandleBlock
  <2>2. m.file = f => st.moved = sync_set[c][f].moved
    BY <1>2 DEF StatusOf, Following, WriteBlock, Status
  <2> HIDE DEF st
  <2> QED
    BY <1>1, <2>1, <2>2, SettleForgets
<1>5. CASE HandleSgoodbye(c, m, goodbye, flushed)
  BY <1>1, <1>5, SgoodbyeForgets
<1>6. CASE ClientIgnores(c, m)
  BY <1>6 DEF ClientIgnores, Following
<1> QED
  BY <1>3, <1>4, <1>5, <1>6 DEF ClientHandle

(* When all paths are on the file system of the temporary files, a client  *)
(* that goes on running forgets only files that it has put in their place. *)
THEOREM ClientForgetsInstalled ==
  ASSUME CrossDevice = {}
  PROVE  ClientSpec => ForgottenWhenInstalled
<1> DEFINE Forgets ==
      \A c \in Clients : \A f \in Following(c) \ DOMAIN sync_set'[c] :
        client_pc'[c] # "failed" => PutInPlace(c, f)
<1>1. ASSUME ClientStatusesSound(AllOffers), DiskSound, ProcessTypeOK, [ClientNext(Heard)]_client_vars
      PROVE  Forgets
  <2>1. CASE UNCHANGED sync_set
    BY <2>1 DEF Following
  <2>2. ASSUME NEW c \in Clients, NEW m \in Heard, NEW both \in BOOLEAN, ClientRead(c, m, both)
        PROVE  Forgets
    <3>0. m \in GenuineDatagram
      BY HeardGenuine
    <3>1. PICK goodbye \in GoodbyeGarbage, flushed \in Flushes : ClientHandle(c, m, goodbye, flushed)
      BY <2>2 DEF ClientRead
    <3>2. \A d \in Clients \ {c} : sync_set'[d] = sync_set[d]
      BY <1>1, <3>1
      DEF ClientHandle, HandleInfo, HandleBlock, HandleSgoodbye, ClientIgnores,
          Settle, Remember, Forget, ClientStatusesSound
    <3>3. \A f \in Following(c) \ DOMAIN sync_set'[c] : PutInPlace(c, f)
      BY <1>1, <3>0, <3>1, ReadForgets
    <3> QED
      BY <3>2, <3>3 DEF Following
  <2>3. ASSUME NEW c \in Clients, ClientGone(c) PROVE Forgets
    <3>1. client_pc'[c] = "failed" /\ \A d \in Clients \ {c} : sync_set'[d] = sync_set[d]
      BY <1>1, <2>3 DEF ClientGone, ProcessTypeOK, ClientStatusesSound
    <3> QED
      BY <3>1 DEF Following
  <2> QED
    BY <1>1, <2>1, <2>2, <2>3
    DEF ClientNext, ClientStep, ClientStart, ClientOpenFails, ClientWrite, ClientKilled, ClientFail,
        client_vars
<1>2. ASSUME ClientStatusesSound(AllOffers), DiskSound, ProcessTypeOK, [ClientNext(Heard)]_client_vars
      PROVE  [\A c \in Clients : \A f \in Following(c) \ DOMAIN sync_set'[c] :
                client_pc'[c] # "failed" =>
                  \/ sync_set[c][f].moved
                  \/ \E p \in DOMAIN disk'[c] : disk'[c][p].file = f]_client_vars
  BY <1>1, <1>2 DEF PutInPlace
<1> QED
  BY <1>2, ClientStatusesInvariant, DiskInvariant, ProcessTypeInvariant, PTL
  DEF ClientSpec, ForgottenWhenInstalled
=============================================================================
