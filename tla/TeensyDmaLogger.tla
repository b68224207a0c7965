--------------------------- MODULE TeensyDmaLogger ---------------------------
(***************************************************************************)
(* The sketch TeensyDmaAdcLogger.ino: DMA fills the halves of a buffer in  *)
(* turn, its interrupt copies a half that is done to a RingBuf, runTest    *)
(* writes the ring to the file.  A tick is half a buffer, a sector.        *)
(* The RingBuf itself is the module of that name: here it is a sequence.   *)
(***************************************************************************)
EXTENDS LogFile

CONSTANTS
  FifoDim,      \* RING_BUF_SIZE in sectors
  FileBlocks,   \* PRE_ALLOCATE_SIZE in sectors
  MaxTicks      \* bound on the ticks

VARIABLES
  tick, typed, pc, file,
  buf,          \* dmaBuf: two halves, with the tick they were filled at
  fifo,         \* rb
  fifoHead,     \* dmaCount
  over          \* overrun

vars == <<tick, typed, pc, file, buf, fifo, fifoHead, over>>

\* runTest up to its loop: the file is preallocated, DMA begins with the first half.
Init ==
  /\ tick = 0 /\ typed = FALSE /\ pc = "loop" /\ file = <<>>
  /\ buf = [h \in 0 .. 1 |-> -1] /\ fifo = <<>> /\ fifoHead = 0 /\ over = 0

\* The half that is done, and isr, which runs before DMA comes back to it.
Isr ==
  LET done == [buf EXCEPT ![tick % 2] = tick] IN
  /\ pc \in {"loop", "used", "write"} /\ tick < MaxTicks
  /\ tick' = tick + 1 /\ buf' = done
  /\ IF Len(fifo) < FifoDim /\ over = 0
     THEN /\ fifo' = Append(fifo, Block(0, <<done[fifoHead % 2]>>)) /\ fifoHead' = fifoHead + 1 /\ UNCHANGED over
     ELSE over' = 1 /\ UNCHANGED <<fifo, fifoHead>>
  /\ UNCHANGED <<typed, pc, file>>

\* The loop of runTest: stop, or see how much there is, and write a sector of it.
Go ==
  /\ pc = "loop" /\ pc' = IF over = 1 \/ typed THEN "stop" ELSE "used"
  /\ UNCHANGED <<tick, typed, file, buf, fifo, fifoHead, over>>
Used ==
  /\ pc = "used"
  /\ pc' = IF Len(fifo) + Len(file) >= FileBlocks - 1 THEN "stop"
           ELSE IF Len(fifo) > 0 THEN "write" ELSE "loop"
  /\ UNCHANGED <<tick, typed, file, buf, fifo, fifoHead, over>>
Write ==
  /\ pc = "write" /\ pc' = "loop" /\ file' = Append(file, Head(fifo)) /\ fifo' = Tail(fifo)
  /\ UNCHANGED <<tick, typed, buf, fifoHead, over>>
\* writeOut failed: the file is closed as it is, with DMA running.
WriteFails ==
  /\ pc = "write" /\ pc' = "done"
  /\ UNCHANGED <<tick, typed, file, buf, fifo, fifoHead, over>>
\* stopDma, truncate and printTest; what is in the ring is left there.
Stop ==
  /\ pc = "stop" /\ pc' = "done"
  /\ UNCHANGED <<tick, typed, file, buf, fifo, fifoHead, over>>
Type ==
  /\ ~typed /\ pc # "done" /\ typed' = TRUE
  /\ UNCHANGED <<tick, pc, file, buf, fifo, fifoHead, over>>

Step == Go \/ Used \/ Write \/ Stop
Next == Step \/ Isr \/ WriteFails \/ Type

-----------------------------------------------------------------------------
\* The file and the ring have every tick up to the first overrun, and the file has room for all
\* that is written.
Accounted ==
  /\ over = 0 => Ticks(file) + Len(fifo) = tick
  /\ InTime(file \o fifo)
  /\ Len(file) < FileBlocks
=============================================================================
