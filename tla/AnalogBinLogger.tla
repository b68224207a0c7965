--------------------------- MODULE AnalogBinLogger ---------------------------
(***************************************************************************)
(* The sketch AnalogBinLogger.ino: the interrupt of the ADC takes a buffer *)
(* from emptyQueue, fills it and puts it in fullQueue; logData writes the  *)
(* full ones to the card.  The interrupt may come between any two steps    *)
(* of logData.  One pin is sampled.                                        *)
(***************************************************************************)
EXTENDS LogFile

CONSTANTS
  DataDim,      \* SAMPLES_PER_BLOCK
  Buffers,      \* BUFFER_BLOCK_COUNT + 1: with the cache of the volume
  FileBlocks,   \* FILE_BLOCK_COUNT, without the metadata
  MaxTicks      \* bound on the ticks

VARIABLES
  tick, typed, pc, file,
  adc,                       \* the interrupts are enabled
  buf,                       \* the buffers
  isrBuf, isrBufNeeded,      \* isrBuf: a buffer, 0 for none
  isrOver,
  emptyQueue, fullQueue      \* buffers

isr == <<tick, isrBufNeeded, isrOver, buf>>
vars == <<typed, pc, file, adc, isr, isrBuf, emptyQueue, fullQueue>>

\* A block of an earlier recording, or what else its buffer holds now that is taken for a block.
Stale == Block(0, <<MaxTicks>>)
\* logData up to adcStart, which leaves isrBuf as it is: 0 in the first recording and after one
\* that was stopped, else the buffer the recording before, which filled its file, used last.
Init ==
  /\ tick = 0 /\ typed = FALSE /\ pc = "loop" /\ file = <<>> /\ adc = TRUE
  /\ isrBuf \in 0 .. Buffers /\ isrBufNeeded = TRUE /\ isrOver = 0
  /\ \E left \in {Blank, Stale} : buf = [b \in 1 .. Buffers |-> IF b = isrBuf THEN left ELSE Blank]
  /\ emptyQueue = [b \in 1 .. Buffers |-> b] /\ fullQueue = <<>>

Full(block) == Len(block.data) >= DataDim
\* ISR(ADC_vect)
Overrun ==
  /\ adc /\ tick < MaxTicks /\ isrBufNeeded /\ emptyQueue = <<>>
  /\ tick' = tick + 1 /\ isrOver' = isrOver + 1
  /\ UNCHANGED <<typed, pc, file, adc, buf, isrBuf, isrBufNeeded, emptyQueue, fullQueue>>
\* Mutant: the buffer stays in the queue.
NotTaken(queue) == queue
Taken(queue) == Tail(queue)
Sample ==
  LET b == IF isrBufNeeded THEN Head(emptyQueue) ELSE isrBuf
      block == IF isrBufNeeded THEN Block(isrOver, <<>>) ELSE buf[b]
      more == [block EXCEPT !.data = Append(@, tick)]
  IN /\ adc /\ tick < MaxTicks /\ (isrBufNeeded => emptyQueue # <<>>)
     /\ tick' = tick + 1 /\ isrBuf' = b /\ buf' = [buf EXCEPT ![b] = more]
     /\ emptyQueue' = IF isrBufNeeded THEN Taken(emptyQueue) ELSE emptyQueue
     /\ isrBufNeeded' = Full(more) /\ isrOver' = IF Full(more) THEN 0 ELSE isrOver
     /\ fullQueue' = IF Full(more) THEN Append(fullQueue, b) ELSE fullQueue
     /\ UNCHANGED <<typed, pc, file, adc>>

\* The loop of logData: a block is written and moved to the empty queue.
Write ==
  /\ pc = "loop"
  /\ IF fullQueue = <<>> THEN pc' = "serial" /\ UNCHANGED file
     ELSE pc' = "empty" /\ file' = Append(file, buf[Head(fullQueue)])
  /\ UNCHANGED <<typed, adc, isr, isrBuf, emptyQueue, fullQueue>>
MoveToEmpty ==
  /\ pc = "empty" /\ pc' = "next" /\ emptyQueue' = Append(emptyQueue, Head(fullQueue))
  /\ UNCHANGED <<typed, file, adc, isr, isrBuf, fullQueue>>
NextBlock ==
  /\ pc = "next" /\ fullQueue' = Tail(fullQueue)
  /\ IF Len(file) = FileBlocks THEN pc' = "done" /\ adc' = FALSE ELSE pc' = "serial" /\ UNCHANGED adc
  /\ UNCHANGED <<typed, file, isr, isrBuf, emptyQueue>>
\* A character stops the interrupts; the block in hand is queued.
Serial ==
  /\ pc = "serial" /\ UNCHANGED <<typed, file, isr, emptyQueue>>
  /\ IF ~typed THEN pc' = "loop" /\ UNCHANGED <<adc, isrBuf, fullQueue>>
     ELSE /\ adc' = FALSE
          /\ IF isrBuf # 0 /\ buf[isrBuf].data # <<>>
             THEN fullQueue' = Append(fullQueue, isrBuf) /\ isrBuf' = 0 ELSE UNCHANGED <<fullQueue, isrBuf>>
          /\ pc' = IF fullQueue' = <<>> THEN "done" ELSE "loop"

Type ==
  /\ ~typed /\ pc # "done" /\ typed' = TRUE
  /\ UNCHANGED <<pc, file, adc, isr, isrBuf, emptyQueue, fullQueue>>

Step == Write \/ MoveToEmpty \/ NextBlock \/ Serial
Next == Step \/ Overrun \/ Sample \/ Type

-----------------------------------------------------------------------------
\* The queues and the interrupt share no buffer while the interrupts are enabled: the one that
\* is written is at most moved to emptyQueue before it is taken from fullQueue.
Apart ==
  LET waiting == IF pc = "next" THEN Tail(fullQueue) ELSE fullQueue
      held == IF isrBufNeeded THEN <<>> ELSE <<isrBuf>>
      all == waiting \o held \o emptyQueue
  IN adc => \A i, j \in DOMAIN all : all[i] = all[j] => i = j

\* A log that was stopped before it was full accounts for every tick, but for those lost at its
\* end: its last block may be there twice, and one that was stopped before its first tick may hold
\* a block of an earlier recording.
Accounted ==
  LET lost == IF isrBufNeeded THEN isrOver ELSE 0
      last == Len(file) IN
  pc = "done" /\ last < FileBlocks =>
    \/ Ticks(file) + lost = tick
    \/ last > 1 /\ file[last] = file[last - 1] /\ Ticks(SubSeq(file, 1, last - 1)) + lost = tick
    \/ tick = 0 /\ file = <<Stale>>
=============================================================================
