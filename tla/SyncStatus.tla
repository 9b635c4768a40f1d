----------------------------- MODULE SyncStatus -----------------------------
(***************************************************************************)
(* What a client knows of one file it is receiving (syncstatus.cpp): which *)
(* blocks it has, where the file is to go, and the temporary file that the *)
(* blocks are written to.  A status is a record; an operation returns the  *)
(* record it leaves.                                                       *)
(***************************************************************************)
EXTENDS Message, FiniteSets

CONSTANTS
  CrossDevice,     \* paths on another file system than the temporary file
  DiskMayFill,     \* whether close() may fail to write what is still buffered
  GoodbyeGarbage   \* values goodbye_received may have: no constructor sets it

ASSUME SyncStatusAssumption ==
  /\ CrossDevice \subseteq Paths
  /\ DiskMayFill \in BOOLEAN
  /\ GoodbyeGarbage \subseteq BOOLEAN

NoBlock == -1

(* output: the stream is open.  temp: the bytes at the place of each block *)
(* of the temporary file.  buffered: the block a failing close() loses,    *)
(* the last one written, because each seekp() flushes the one before it.   *)
(* moved: the temporary file has been renamed.                             *)
Status(f) ==
  [path : Paths \cup {NoPath}, block_array : [Blocks(f) -> BOOLEAN],
   remaining_blocks : Nat, goodbye_received : BOOLEAN, output : BOOLEAN,
   temp : [Blocks(f) -> Bytes], buffered : Blocks(f) \cup {NoBlock}, moved : BOOLEAN]

NewStatus(f, goodbye) ==
  [path |-> NoPath, block_array |-> [b \in Blocks(f) |-> FALSE],
   remaining_blocks |-> BlockCount(f), goodbye_received |-> goodbye, output |-> TRUE,
   temp |-> [b \in Blocks(f) |-> NoBytes], buffered |-> NoBlock, moved |-> FALSE]

BugWriteBlock(st, b, d) ==
  [st EXCEPT !.block_array[b] = TRUE, !.remaining_blocks = @ - 1,
             !.temp[b] = d, !.buffered = b]

(* A block that is there already is not written again.                     *)
WriteBlock(st, b, d) ==
  IF st.block_array[b] THEN st
  ELSE [st EXCEPT !.block_array[b] = TRUE, !.remaining_blocks = @ - 1,
                  !.temp[b] = d, !.buffered = b]

SetPath(st, p) == [st EXCEPT !.path = p]

BugTransferComplete(st) == st.path # NoPath

(* The value of transfer_complete(); its effects are the operators below.  *)
TransferComplete(st) == st.remaining_blocks = 0 /\ st.path # NoPath

(* close(): what is buffered reaches the disk, or flushed is FALSE and it  *)
(* does not; nobody looks.                                                 *)
Close(st, flushed) ==
  [st EXCEPT !.output = FALSE,
             !.temp = IF st.output /\ ~flushed /\ st.buffered # NoBlock
                      THEN [@ EXCEPT ![st.buffered] = NoBytes] ELSE @]

Flushes == IF DiskMayFill THEN BOOLEAN ELSE {TRUE}

(* rename() works once, and only within a file system; its result is       *)
(* dropped and transfer_complete() returns true either way.                *)
Renames(st) == ~st.moved /\ st.path \notin CrossDevice

AfterTransfer(st, flushed) ==
  [Close(st, flushed) EXCEPT !.moved = @ \/ Renames(st)]

(* The value of sync_complete(): without a goodbye transfer_complete() is  *)
(* not even called.                                                        *)
SyncComplete(st) == st.goodbye_received /\ TransferComplete(st)

-----------------------------------------------------------------------------
(* Partial functions: the client's map of statuses, a disk's files.        *)
Put(m, k, v) == [j \in DOMAIN m \cup {k} |-> IF j = k THEN v ELSE m[j]]
Without(m, k) == [j \in DOMAIN m \ {k} |-> m[j]]

(* The files at the paths of a disk after transfer_complete() on f.        *)
DiskAfter(files, f, st, flushed) ==
  IF Renames(st)
  THEN Put(files, st.path, [file |-> f, data |-> Close(st, flushed).temp])
  ELSE files
=============================================================================
