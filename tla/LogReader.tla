------------------------------ MODULE LogReader ------------------------------
(***************************************************************************)
(* How the logger sketches read a log back: binaryToCsv, dumpData or       *)
(* printData, and checkOverrun.  A line of the text is a sample or a count *)
(* of lost ticks; both are blocks here, with one sample or none.           *)
(***************************************************************************)
EXTENDS LogFile, SequencesExt, FiniteSetsExt

CONSTANTS
  DataDim,      \* DATA_DIM: samples of a block
  FifoDim       \* FIFO_DIM: blocks, or records, that are read at once

\* The samples of a file.
Samples(file) == FlattenSeq([k \in DOMAIN file |-> file[k].data])

\* No sample is repeated or out of order.
InOrder(file) == \A i \in 1 .. Len(Samples(file)) - 1 : Samples(file)[i] < Samples(file)[i + 1]

Lines(block) ==
  (IF block.overrun = 0 THEN <<>> ELSE <<Block(block.overrun, <<>>)>>)
    \o [i \in DOMAIN block.data |-> Block(0, <<block.data[i]>>)]
Text(blocks) == FlattenSeq([k \in DOMAIN blocks |-> Lines(blocks[k])])

\* The first block of a file, of another form: read as data it would show.
Metadata == Block(0, <<-2>>)
\* The blocks before the first one that is erased or was never one.
UpTo(blocks, ends) == SubSeq(blocks, 1, Min(ends \cup {Len(blocks) + 1}) - 1)
Empty(block) == block.data = <<>>
UpToEmpty(blocks) == UpTo(blocks, {k \in DOMAIN blocks : Empty(blocks[k])})
UpToOdd(blocks) == UpTo(blocks, {k \in DOMAIN blocks : Empty(blocks[k]) \/ Len(blocks[k].data) > DataDim})
\* What checkOverrun shows: the blocks behind a loss, by their place in the file.
Losses(blocks, first) ==
  {<<k + first - 1, blocks[k].overrun>> : k \in {i \in DOMAIN blocks : blocks[i].overrun # 0}}

-----------------------------------------------------------------------------
(* LowLatencyLogger: no metadata.                                          *)
LowLatencyCsv(disk) == Text(UpToOdd(disk))
LowLatencyDump(disk) == Text(UpToEmpty(disk))
LowLatencyLosses(disk) == Losses(UpToEmpty(disk), 0)

(* AnalogBinLogger: the first block is read apart.                         *)
AnalogBinCsv(disk) == IF disk = <<>> THEN <<>> ELSE Text(UpToEmpty(Tail(disk)))
AnalogBinDump(disk) == IF disk = <<>> THEN <<>> ELSE Text(UpToEmpty(Tail(disk)))
AnalogBinLosses(disk) == IF disk = <<>> THEN {} ELSE Losses(UpToEmpty(Tail(disk)), 1)

(* AvrAdcLogger: a buffer of blocks is read; the first one begins with the *)
(* metadata.                                                               *)
Buffer(disk, n) == SubSeq(disk, n * FifoDim + 1, Min({(n + 1) * FifoDim, Len(disk)}))
\* Mutant: the metadata is printed, too.
MetadataToo(disk, n) == Buffer(disk, n)
Printed(disk, n) == IF n = 0 THEN Tail(Buffer(disk, 0)) ELSE Buffer(disk, n)
Reads(disk) == (Len(disk) + FifoDim - 1) \div FifoDim
AvrAdcCsv(disk) ==
  IF Len(disk) < 2 \/ Len(Buffer(disk, 0)) = 1 THEN <<>>
  ELSE FlattenSeq([n \in 1 .. Reads(disk) |-> Text(Printed(disk, n - 1))])
AvrAdcPrint(disk) == IF disk = <<>> THEN <<>> ELSE Text(UpToEmpty(Tail(disk)))

(* ExFatLogger: a record has a sample, or a count of lost ticks.  The      *)
(* first sector is left out.                                               *)
printRecord(record) == Lines(record)
ExFatCsv(disk) ==
  LET records == Tail(disk) IN
  FlattenSeq([n \in 1 .. Reads(records) |->
    LET read == Buffer(records, n - 1) IN FlattenSeq([i \in DOMAIN read |-> printRecord(read[i])])])
ExFatPrint(disk) == FlattenSeq([i \in 1 .. Len(disk) - 1 |-> printRecord(disk[i + 1])])

-----------------------------------------------------------------------------
\* The file of a sketch, and the text it makes of it.
Disk(sketch, file) == (IF sketch = "LowLatency" THEN <<>> ELSE <<Metadata>>) \o file
Csv(sketch, file) ==
  LET disk == Disk(sketch, file) IN
  CASE sketch = "LowLatency" -> LowLatencyCsv(disk)
    [] sketch = "AnalogBin" -> AnalogBinCsv(disk)
    [] sketch = "AvrAdc" -> AvrAdcCsv(disk)
    [] sketch = "ExFat" -> ExFatCsv(disk)
    [] OTHER -> file
\* The ways to read a log agree.
ReadersAgree(sketch, file) ==
  LET disk == Disk(sketch, file) text == Csv(sketch, file) IN
  /\ Samples(text) = Samples(file)
  /\ sketch = "AnalogBin" => AnalogBinDump(disk) = text /\ AnalogBinLosses(disk) = Losses(file, 1)
  /\ sketch = "AvrAdc" => AvrAdcPrint(disk) = text
  /\ sketch = "ExFat" => ExFatPrint(disk) = text
  /\ sketch = "LowLatency" => LowLatencyDump(disk) = text /\ LowLatencyLosses(disk) = Losses(file, 0)
=============================================================================
