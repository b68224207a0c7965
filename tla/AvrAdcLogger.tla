---------------------------- MODULE AvrAdcLogger ----------------------------
(***************************************************************************)
(* The sketch AvrAdcLogger.ino: the interrupt of the ADC fills the blocks  *)
(* of a ring, logData writes them.  They share fifoCount.  A stop is a     *)
(* request to the interrupt, which obeys when its block is full.  One pin  *)
(* is sampled.                                                             *)
(***************************************************************************)
EXTENDS LogFile

CONSTANTS
  DataDim,      \* BLOCK_MAX_COUNT
  FifoDim,      \* FIFO_DIM
  FileBlocks,   \* blocks of the preallocated file, without the metadata
  MaxTicks      \* bound on the ticks

VARIABLES
  tick, typed, pc, file,
  adc,                              \* adcActive()
  fifo, fifoHead, fifoTail, fifoCount,
  isrBuf,                           \* an index of fifo, -1 for nullptr
  isrOver, isrStop

vars == <<tick, typed, pc, file, adc, fifo, fifoHead, fifoTail, fifoCount, isrBuf, isrOver, isrStop>>
isr == <<tick, fifoHead, isrBuf, isrOver>>

Init ==
  /\ tick = 0 /\ typed = FALSE /\ pc = "loop" /\ file = <<>> /\ adc = TRUE
  /\ fifo = [b \in 0 .. FifoDim - 1 |-> Blank] /\ fifoHead = 0 /\ fifoTail = 0 /\ fifoCount = 0
  /\ isrBuf = -1 /\ isrOver = 0 /\ isrStop = FALSE

After(i) == IF i < FifoDim - 1 THEN i + 1 ELSE 0
Full(block) == Len(block.data) >= DataDim
\* ISR(ADC_vect).  The overruns are counted and never given to a block.
Overrun ==
  /\ adc /\ tick < MaxTicks /\ isrBuf = -1 /\ fifoCount = FifoDim
  /\ tick' = tick + 1 /\ isrOver' = isrOver + 1
  /\ UNCHANGED <<typed, pc, file, adc, fifo, fifoHead, fifoTail, fifoCount, isrBuf, isrStop>>
\* Mutant: the interrupt does not look at the request to stop.
NotObeyed(stop) == FALSE
Obeyed(stop) == stop
Sample ==
  LET b == IF isrBuf = -1 THEN fifoHead ELSE isrBuf
      more == [fifo[b] EXCEPT !.data = Append(@, tick)]
  IN /\ adc /\ (tick < MaxTicks \/ (isrStop /\ tick < MaxTicks + DataDim)) /\ (isrBuf = -1 => fifoCount < FifoDim)
     /\ tick' = tick + 1 /\ fifo' = [fifo EXCEPT ![b] = more]
     /\ IF Full(more)
        THEN /\ fifoHead' = After(fifoHead) /\ fifoCount' = fifoCount + 1
             /\ IF Obeyed(isrStop) THEN adc' = FALSE /\ isrBuf' = b /\ UNCHANGED isrOver
                ELSE isrBuf' = -1 /\ isrOver' = 0 /\ UNCHANGED adc
        ELSE isrBuf' = b /\ UNCHANGED <<fifoHead, fifoCount, adc, isrOver>>
     /\ UNCHANGED <<typed, pc, file, fifoTail, isrStop>>

\* The loop of logData: the count is read with the interrupts off, then a block is written,
\* made empty and given back.
Write ==
  /\ pc = "loop"
  /\ IF fifoCount = 0 THEN pc' = "serial" /\ UNCHANGED file
     ELSE pc' = "clear" /\ file' = Append(file, fifo[fifoTail])
  /\ UNCHANGED <<typed, adc, isr, fifo, fifoTail, fifoCount, isrStop>>
Clear ==
  /\ pc = "clear" /\ pc' = "back"
  /\ fifo' = [fifo EXCEPT ![fifoTail] = Blank] /\ fifoTail' = After(fifoTail)
  /\ UNCHANGED <<typed, file, adc, isr, fifoCount, isrStop>>
GiveBack ==
  /\ pc = "back" /\ fifoCount' = fifoCount - 1
  /\ IF Len(file) = FileBlocks THEN pc' = "done" /\ adc' = FALSE ELSE pc' = "serial" /\ UNCHANGED adc
  /\ UNCHANGED <<typed, file, isr, fifo, fifoTail, isrStop>>
Serial ==
  /\ pc = "serial" /\ pc' = "count" /\ isrStop' = (isrStop \/ typed)
  /\ UNCHANGED <<typed, file, adc, isr, fifo, fifoTail, fifoCount>>
\* fifoCount == 0 && !adcActive(): the interrupt may come between the two.
Count ==
  /\ pc = "count" /\ pc' = IF fifoCount = 0 THEN "active" ELSE "loop"
  /\ UNCHANGED <<typed, file, adc, isr, fifo, fifoTail, fifoCount, isrStop>>
Active ==
  /\ pc = "active" /\ pc' = IF adc THEN "loop" ELSE "done"
  /\ UNCHANGED <<typed, file, adc, isr, fifo, fifoTail, fifoCount, isrStop>>

Type ==
  /\ ~typed /\ pc # "done" /\ typed' = TRUE
  /\ UNCHANGED <<pc, file, adc, isr, fifo, fifoTail, fifoCount, isrStop>>

Step == Write \/ Clear \/ GiveBack \/ Serial \/ Count \/ Active
Next == Step \/ Overrun \/ Sample \/ Type

-----------------------------------------------------------------------------
\* The blocks between fifoTail and fifoHead are full, the others empty but for the one in hand.
RingRight ==
  LET used == fifoCount - (IF pc = "back" THEN 1 ELSE 0)
      place(b) == (b - fifoTail + FifoDim) % FifoDim
  IN /\ fifoCount \in 0 .. FifoDim
     /\ \A b \in DOMAIN fifo : IF place(b) < used THEN Full(fifo[b])
                                ELSE fifo[b] # Blank => b = isrBuf
     \* A block may be left behind at the end: the one the interrupt filled last, after the count
     \* was found to be 0.
     /\ pc = "done" /\ Len(file) < FileBlocks => fifoCount < 2
=============================================================================
