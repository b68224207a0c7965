------------------------------- MODULE Loggers -------------------------------
(***************************************************************************)
(* The logger sketches side by side: one of them runs.  What each promises *)
(* is said once, for all of them.                                          *)
(***************************************************************************)
EXTENDS LogReader

CONSTANTS Buffers, MaxWrite, FileBlocks, MaxTicks

ASSUME BoundsAssumption ==
  /\ {DataDim, FifoDim, MaxWrite, FileBlocks, MaxTicks, Buffers} \subseteq Nat \ {0}
  /\ DataDim > 1 /\ Buffers > 1

VARIABLES
  sketch, tick, typed, pc, file,
  abort, cur, full, empty, over, sd, size, bn,
  adc, buf, isrBuf, isrBufNeeded, isrOver, emptyQueue, fullQueue,
  fifo, fifoHead, fifoTail, fifoCount, isrStop

common == <<tick, typed, pc, file>>
polled == <<abort, cur, full, empty, sd, size, bn>>
queued == <<buf, isrBufNeeded, emptyQueue, fullQueue>>
ring == <<fifo, fifoHead, fifoTail, fifoCount>>
vars == <<sketch, common, polled, over, queued, adc, isrBuf, isrOver, ring, isrStop>>

\* LowLatencyLogger is three sketches: they differ in the record of a sample, four values, three
\* or six, and so in the samples of a block of 512 bytes: 42, 50 and 31.
Adxl345Dim == DataDim + 1
Mpu6050Dim == DataDim - 1
LowLatency == INSTANCE LowLatencyLogger
Adxl345 == INSTANCE LowLatencyLogger WITH DataDim <- Adxl345Dim
Mpu6050 == INSTANCE LowLatencyLogger WITH DataDim <- Mpu6050Dim
Adxl345Reader == INSTANCE LogReader WITH DataDim <- Adxl345Dim
Mpu6050Reader == INSTANCE LogReader WITH DataDim <- Mpu6050Dim
AnalogBin == INSTANCE AnalogBinLogger
AvrAdc == INSTANCE AvrAdcLogger
ExFat == INSTANCE ExFatLogger
TeensyDma == INSTANCE TeensyDmaLogger

NoPolled == abort = FALSE /\ cur = 0 /\ full = 0 /\ empty = 0 /\ sd = 0 /\ size = 0 /\ bn = 0
NoQueued == buf = 0 /\ isrBufNeeded = 0 /\ emptyQueue = 0 /\ fullQueue = 0
NoInterrupt == adc = FALSE /\ isrBuf = 0 /\ isrOver = 0
NoDma == isrBufNeeded = 0 /\ emptyQueue = 0 /\ fullQueue = 0 /\ fifoTail = 0 /\ fifoCount = 0
NoRing == fifo = 0 /\ fifoHead = 0 /\ fifoTail = 0 /\ fifoCount = 0

Init ==
  \/ sketch = "LowLatency" /\ LowLatency!Init /\ NoQueued /\ NoInterrupt /\ NoRing /\ isrStop = FALSE
  \/ sketch = "Adxl345" /\ Adxl345!Init /\ NoQueued /\ NoInterrupt /\ NoRing /\ isrStop = FALSE
  \/ sketch = "Mpu6050" /\ Mpu6050!Init /\ NoQueued /\ NoInterrupt /\ NoRing /\ isrStop = FALSE
  \/ sketch = "AnalogBin" /\ AnalogBin!Init /\ NoPolled /\ over = 0 /\ NoRing /\ isrStop = FALSE
  \/ sketch = "AvrAdc" /\ AvrAdc!Init /\ NoPolled /\ over = 0 /\ NoQueued
  \/ sketch = "ExFat" /\ ExFat!Init /\ NoPolled /\ NoQueued /\ NoInterrupt /\ isrStop = FALSE
  \/ sketch = "TeensyDma" /\ TeensyDma!Init /\ NoPolled /\ NoDma /\ NoInterrupt /\ isrStop = FALSE

LowLatencyStays == UNCHANGED <<sketch, queued, adc, isrBuf, isrOver, ring, isrStop>>
AnalogBinStays == UNCHANGED <<sketch, polled, over, ring, isrStop>>
AvrAdcStays == UNCHANGED <<sketch, polled, over, queued>>
ExFatStays == UNCHANGED <<sketch, polled, queued, adc, isrBuf, isrOver, isrStop>>
TeensyDmaStays ==
  UNCHANGED <<sketch, polled, isrBufNeeded, emptyQueue, fullQueue, adc, isrBuf, isrOver, fifoTail, fifoCount, isrStop>>

\* LowLatencyLoggerADXL345: the three axes of an accelerometer, a smaller record.
Adxl345Create == Adxl345!CreateBinFile \/ Adxl345!Erase
Adxl345Loop(busy) == Adxl345!RecordBinFile \/ Adxl345!Loop(busy) \/ Adxl345!End
Adxl345Rename == Adxl345!RenameBinFile
Adxl345Recover == Adxl345!RecoverTmpFile
Adxl345Reset == Adxl345!Reset
Adxl345Csv(disk) == Adxl345Reader!LowLatencyCsv(disk)
Adxl345Dump(disk) == Adxl345Reader!LowLatencyDump(disk)
Adxl345Losses(disk) == Adxl345Reader!LowLatencyLosses(disk)
Adxl345Step == Adxl345Create \/ Adxl345Loop(FALSE) \/ Adxl345Rename \/ Adxl345Recover

\* LowLatencyLoggerMPU6050: acceleration and rotation, a larger record.
Mpu6050Create == Mpu6050!CreateBinFile \/ Mpu6050!Erase
Mpu6050Loop(busy) == Mpu6050!RecordBinFile \/ Mpu6050!Loop(busy) \/ Mpu6050!End
Mpu6050Rename == Mpu6050!RenameBinFile
Mpu6050Recover == Mpu6050!RecoverTmpFile
Mpu6050Reset == Mpu6050!Reset
Mpu6050Csv(disk) == Mpu6050Reader!LowLatencyCsv(disk)
Mpu6050Dump(disk) == Mpu6050Reader!LowLatencyDump(disk)
Mpu6050Losses(disk) == Mpu6050Reader!LowLatencyLosses(disk)
Mpu6050Step == Mpu6050Create \/ Mpu6050Loop(FALSE) \/ Mpu6050Rename \/ Mpu6050Recover

Next ==
  \/ sketch = "LowLatency" /\ LowLatency!Next /\ LowLatencyStays
  \/ sketch = "Adxl345" /\ (Adxl345Step \/ Adxl345Loop(TRUE) \/ Adxl345Reset \/ Adxl345!Type) /\ LowLatencyStays
  \/ sketch = "Mpu6050" /\ (Mpu6050Step \/ Mpu6050Loop(TRUE) \/ Mpu6050Reset \/ Mpu6050!Type) /\ LowLatencyStays
  \/ sketch = "AnalogBin" /\ AnalogBin!Next /\ AnalogBinStays
  \/ sketch = "AvrAdc" /\ AvrAdc!Next /\ AvrAdcStays
  \/ sketch = "ExFat" /\ ExFat!Next /\ ExFatStays
  \/ sketch = "TeensyDma" /\ TeensyDma!Next /\ TeensyDmaStays

\* The sketch goes on, the card is not busy for ever, the timer ticks.
Steps ==
  \/ sketch = "LowLatency" /\ LowLatency!Step /\ LowLatencyStays
  \/ sketch = "Adxl345" /\ Adxl345Step /\ LowLatencyStays
  \/ sketch = "Mpu6050" /\ Mpu6050Step /\ LowLatencyStays
  \/ sketch = "AnalogBin" /\ AnalogBin!Step /\ AnalogBinStays
  \/ sketch = "AvrAdc" /\ AvrAdc!Step /\ AvrAdcStays
  \/ sketch = "ExFat" /\ ExFat!Step /\ ExFatStays
  \/ sketch = "TeensyDma" /\ TeensyDma!Step /\ TeensyDmaStays
Interrupt == sketch = "AvrAdc" /\ AvrAdc!Sample /\ AvrAdcStays
Spec == Init /\ [][Next]_vars /\ WF_vars(Steps) /\ WF_vars(Interrupt)

-----------------------------------------------------------------------------
(* Properties.                                                             *)

\* The text that binaryToCsv makes of a log has every sample where adding up the samples and the
\* counts of lost ticks puts it, also after a reset, and the other readers show the same;
\* AvrAdcLogger loses the overruns and only keeps the order, and AnalogBinLogger may write its
\* last block twice when it is stopped (binaryToCsv, checkOverrun, dumpData of the sketches).
\* With a FIFO of one block, an Uno's, AvrAdcLogger's binaryToCsv ends behind the metadata.
TimesRight ==
  /\ sketch = "LowLatency" /\ bn >= 0 => InTime(Csv(sketch, file))
  /\ sketch = "Adxl345" /\ bn >= 0 =>
       InTime(Adxl345Csv(file)) /\ Adxl345Dump(file) = Adxl345Csv(file) /\ Adxl345Losses(file) = Losses(file, 0)
  /\ sketch = "Mpu6050" /\ bn >= 0 =>
       InTime(Mpu6050Csv(file)) /\ Mpu6050Dump(file) = Mpu6050Csv(file) /\ Mpu6050Losses(file) = Losses(file, 0)
  /\ sketch = "AnalogBin" /\ adc => InTime(Csv(sketch, file))
  /\ sketch \in {"ExFat", "TeensyDma"} => InTime(Csv(sketch, file))
  /\ sketch = "AvrAdc" => InOrder(Csv(sketch, file))
  /\ sketch \notin {"Adxl345", "Mpu6050"} /\ (sketch = "AvrAdc" => FifoDim > 1) => ReadersAgree(sketch, file)

\* No tick is lost without an overrun being counted; a sketch that is stopped writes what it has
\* sampled, and nothing else but AnalogBinLogger's block twice, or a block of its recording before
\* when no sample was taken; a block belongs to the interrupt or to the loop, never to both.  LowLatencyLogger
\* drops its queue when it stops for an overrun, AvrAdcLogger may drop one block,
\* TeensyDmaAdcLogger what is in its ring; and after a reset the search finds just the blocks
\* that were written (recordBinFile, logData, runTest, recoverTmpFile).
NothingDropped ==
  /\ sketch = "LowLatency" => LowLatency!HasTheBlocks /\ (~abort => LowLatency!Accounted)
  /\ sketch = "Adxl345" => Adxl345!HasTheBlocks /\ (~abort => Adxl345!Accounted)
  /\ sketch = "Mpu6050" => Mpu6050!HasTheBlocks /\ (~abort => Mpu6050!Accounted)
  /\ sketch = "AnalogBin" => AnalogBin!Accounted /\ AnalogBin!Apart
  /\ sketch = "ExFat" => ExFat!Accounted
  /\ sketch = "AvrAdc" => AvrAdc!RingRight
  /\ sketch = "TeensyDma" => TeensyDma!Accounted

\* A character typed stops the sketch.
Stops == typed ~> pc \in {"done", "recovered", "refused"}
=============================================================================
