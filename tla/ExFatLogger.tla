----------------------------- MODULE ExFatLogger -----------------------------
(***************************************************************************)
(* The sketch ExFatLogger.ino: one loop puts a record in a FIFO at every   *)
(* tick, and writes records when the card is not busy.  A record after     *)
(* overruns has their count in place of data.                              *)
(***************************************************************************)
EXTENDS LogFile, FiniteSetsExt

CONSTANTS
  FifoDim,      \* FIFO_DIM
  MaxWrite,     \* MAX_WRITE: records of a sector
  MaxTicks      \* bound on the ticks

VARIABLES
  tick, typed, pc, file,
  fifo, fifoHead, fifoTail, fifoCount,
  over          \* overrun

vars == <<tick, typed, pc, file, fifo, fifoHead, fifoTail, fifoCount, over>>

Init ==
  /\ tick = 0 /\ typed = FALSE /\ pc = "loop" /\ file = <<>>
  /\ fifo = [i \in 0 .. FifoDim - 1 |-> Blank] /\ fifoHead = 0 /\ fifoTail = 0 /\ fifoCount = 0
  /\ over = 0

\* Mutant: the record is not counted with the overruns it reports.
Uncounted(n) == IF n > 0 THEN Block(n, <<>>) ELSE Block(0, <<tick>>)
LogRecord(n) == IF n > 0 THEN Block(n + 1, <<>>) ELSE Block(0, <<tick>>)

\* The records that are written: those up to the head, or to the end of the array.
Written(head, count) == Min({MaxWrite, IF head > fifoTail THEN count ELSE FifoDim - fifoTail})
Loop(busy) ==
  LET room == fifoCount < FifoDim
      ring == IF room THEN [fifo EXCEPT ![fifoHead] = LogRecord(over)] ELSE fifo
      head == IF ~room THEN fifoHead ELSE IF fifoHead < FifoDim - 1 THEN fifoHead + 1 ELSE 0
      count == IF room THEN fifoCount + 1 ELSE fifoCount
      nw == Written(head, count)
  IN /\ pc = "loop" /\ (tick < MaxTicks \/ (typed /\ ~busy)) /\ tick' = tick + 1
     /\ fifo' = ring /\ fifoHead' = head /\ over' = IF room THEN 0 ELSE over + 1
     /\ IF busy THEN fifoCount' = count /\ UNCHANGED <<fifoTail, file, pc>>
        ELSE /\ file' = file \o [i \in 1 .. nw |-> ring[fifoTail + i - 1]]
             /\ fifoTail' = IF fifoTail + nw < FifoDim THEN fifoTail + nw ELSE 0
             /\ fifoCount' = count - nw
             /\ pc' = IF typed THEN "end" ELSE "loop"
     /\ UNCHANGED typed
\* truncate and sync: what is in the FIFO is left there.
End == pc = "end" /\ pc' = "done" /\ UNCHANGED <<tick, typed, file, fifo, fifoHead, fifoTail, fifoCount, over>>

Type ==
  /\ ~typed /\ pc # "done" /\ typed' = TRUE
  /\ UNCHANGED <<tick, pc, file, fifo, fifoHead, fifoTail, fifoCount, over>>

Step == Loop(FALSE) \/ End
Next == Step \/ Loop(TRUE) \/ Type

-----------------------------------------------------------------------------
\* Every tick is in the file, in the FIFO or among the overruns to be reported.
Accounted ==
  /\ (fifoTail + fifoCount) % FifoDim = fifoHead % FifoDim
  /\ Ticks(file \o [i \in 1 .. fifoCount |-> fifo[(fifoTail + i - 1) % FifoDim]]) + over = tick
=============================================================================
