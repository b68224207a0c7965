-------------------------- MODULE LowLatencyLogger --------------------------
(***************************************************************************)
(* The sketch LowLatencyLogger.ino: one loop samples, fills blocks and     *)
(* writes them to a contiguous, erased temporary file when the card is not *)
(* busy.  A reset in between is recovered from: setup finds the last block *)
(* of the temporary file by binary search.                                 *)
(***************************************************************************)
EXTENDS LogFile

CONSTANTS
  DataDim,      \* DATA_DIM: samples of a block
  Buffers,      \* BUFFER_BLOCK_COUNT
  FileBlocks,   \* FILE_BLOCK_COUNT
  MaxTicks      \* bound on the ticks

VARIABLES
  tick,         \* logTime
  typed,        \* Serial.available()
  pc,           \* "idle", "erase", "start", "record", "end", "rename", "done"; "reset", "recovered", "refused"
  file,         \* the log under its own name
  abort,        \* ABORT_ON_OVERRUN
  cur,          \* curBlock: <<>> for 0, else a sequence with the block
  full,         \* fullQueue
  empty,        \* emptyTop
  over,         \* overrun
  sd,           \* the sectors of the temporary file
  size,         \* its size in blocks, -1 without the file
  bn            \* blocks written; kept through a reset for the properties, -1 before the erase

vars == <<tick, typed, pc, file, abort, cur, full, empty, over, sd, size, bn>>
queues == <<cur, full, empty, over>>

\* The sectors hold a full block of an older log until they are erased.
Stale == Block(0, [i \in 1 .. DataDim |-> -1])
Init ==
  /\ tick = 0 /\ typed = FALSE /\ pc = "idle" /\ file = <<>> /\ abort \in BOOLEAN
  /\ cur = <<>> /\ full = <<>> /\ empty = 0 /\ over = 0
  /\ sd = [i \in 1 .. FileBlocks |-> Stale] /\ size = -1 /\ bn = -1

CreateBinFile ==
  /\ pc = "idle" /\ pc' = "erase" /\ size' = FileBlocks
  /\ UNCHANGED <<tick, typed, file, abort, queues, sd, bn>>
Erase ==
  /\ pc = "erase" /\ pc' = "start" /\ sd' = [i \in 1 .. FileBlocks |-> Blank] /\ bn' = 0
  /\ UNCHANGED <<tick, typed, file, abort, queues, size>>
\* recordBinFile up to its loop.
RecordBinFile ==
  /\ pc = "start" /\ pc' = "record"
  /\ cur' = <<>> /\ full' = <<>> /\ empty' = Buffers /\ over' = 0
  /\ UNCHANGED <<tick, typed, file, abort, sd, size, bn>>

\* The first half of the loop: the queues and whether the tick was lost.
Filled ==
  LET taken == cur = <<>> /\ empty > 0
      block == IF taken THEN Block(over, <<>>) ELSE cur[1]
      more == [block EXCEPT !.data = Append(@, tick)]
  IN IF cur = <<>> /\ empty = 0
     THEN [cur |-> cur, full |-> full, empty |-> 0, over |-> over + 1, lost |-> TRUE]
     ELSE [cur |-> IF Len(more.data) = DataDim THEN <<>> ELSE <<more>>,
           full |-> IF Len(more.data) = DataDim THEN Append(full, more) ELSE full,
           empty |-> IF taken THEN empty - 1 ELSE empty,
           over |-> IF taken THEN 0 ELSE over, lost |-> FALSE]
Closed == [cur |-> <<>>, full |-> full \o cur, empty |-> empty, over |-> over, lost |-> FALSE]

\* One pass of recordBinFile's loop.
Loop(busy) ==
  LET half == IF typed THEN Closed ELSE Filled
      stops == half.lost /\ abort
      writes == ~stops /\ half.full # <<>> /\ ~busy
  IN /\ pc = "record" /\ (typed \/ tick < MaxTicks)
     /\ tick' = IF typed THEN tick ELSE tick + 1
     /\ cur' = half.cur /\ over' = half.over
     /\ IF writes THEN /\ sd' = [sd EXCEPT ![bn + 1] = Head(half.full)] /\ bn' = bn + 1
                       /\ full' = Tail(half.full) /\ empty' = half.empty + 1
        ELSE full' = half.full /\ empty' = half.empty /\ UNCHANGED <<sd, bn>>
     /\ pc' = IF stops \/ (typed /\ half.full = <<>>) \/ (writes /\ bn + 1 = FileBlocks) THEN "end" ELSE "record"
     /\ UNCHANGED <<typed, file, abort, size>>

\* writeStop, and truncate to what was written.
End ==
  /\ pc = "end" /\ pc' = "rename" /\ size' = bn
  /\ UNCHANGED <<tick, typed, file, abort, queues, sd, bn>>
RenameBinFile ==
  /\ pc = "rename" /\ pc' = "done" /\ file' = SubSeq(sd, 1, size) /\ size' = -1
  /\ UNCHANGED <<tick, typed, abort, queues, sd, bn>>

\* A reset, or an error: the sketch halts and the user resets the board.
Reset ==
  /\ pc \in {"erase", "start", "record", "end", "rename"} /\ pc' = "reset"
  /\ cur' = <<>> /\ full' = <<>> /\ empty' = 0 /\ over' = 0
  /\ UNCHANGED <<tick, typed, file, abort, sd, size, bn>>

\* Mutant: the middle is rounded down.
MiddleDown(b, e) == (b + e) \div 2
Middle(b, e) == (b + e + 1) \div 2
Used(i) == Len(sd[i + 1].data) \in 1 .. DataDim
\* One pass of the search for the last block in use, which supposes that they follow one another.
Narrowed(at) ==
  LET mid == Middle(at.bgn, at.end) IN
  IF at.bgn >= at.end THEN at
  ELSE IF Used(mid) THEN [at EXCEPT !.bgn = mid] ELSE [at EXCEPT !.end = mid - 1]
LastUsed ==
  LET at[n \in 0 .. FileBlocks] == IF n = 0 THEN [bgn |-> 0, end |-> size - 1] ELSE Narrowed(at[n - 1])
  IN at[FileBlocks].bgn
\* The user answers 'Y': the file is cut behind its last block and named.
RecoverTmpFile ==
  /\ pc = "reset"
  /\ IF size < 1 \/ Len(sd[1].data) # DataDim THEN pc' = "refused" /\ UNCHANGED <<file, size>>
     ELSE pc' = "recovered" /\ file' = SubSeq(sd, 1, LastUsed + 1) /\ size' = -1
  /\ UNCHANGED <<tick, typed, abort, queues, sd, bn>>

Type ==
  /\ pc = "record" /\ ~typed /\ typed' = TRUE
  /\ UNCHANGED <<tick, pc, file, abort, queues, sd, size, bn>>

Step == CreateBinFile \/ Erase \/ RecordBinFile \/ Loop(FALSE) \/ End \/ RenameBinFile \/ RecoverTmpFile
Next == Step \/ Loop(TRUE) \/ Reset \/ Type

-----------------------------------------------------------------------------
\* The log has the blocks that were written, neither fewer nor more, also after a reset.
\* A first block that is not full makes recovery refuse the file.
HasTheBlocks ==
  /\ pc \in {"done", "recovered"} /\ bn >= 0 => file = SubSeq(sd, 1, bn)
  /\ pc = "refused" => bn < 1 \/ Len(sd[1].data) < DataDim

\* A log that was stopped before it was full accounts for every tick, but for those lost at its end.
Accounted == pc = "done" /\ bn < FileBlocks => Ticks(file) + over = tick
=============================================================================
