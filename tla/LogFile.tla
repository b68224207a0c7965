------------------------------ MODULE LogFile ------------------------------
(***************************************************************************)
(* What a log file of the example sketches means.  A sketch samples at     *)
(* every tick of a timer.  A block has the samples of consecutive ticks    *)
(* and the number of ticks lost before them; a reader, binaryToCsv, learns *)
(* the time of a sample only by adding up counts and overruns.             *)
(***************************************************************************)
EXTENDS Integers, Sequences

\* A block: count is the length of data; a sample is the number of its tick.
Block(overrun, data) == [overrun |-> overrun, data |-> data]
Blank == Block(0, <<>>)

\* The ticks a reader counts in a part of a file.
Ticks(file) ==
  LET sum[k \in 0 .. Len(file)] == IF k = 0 THEN 0 ELSE sum[k - 1] + file[k].overrun + Len(file[k].data)
  IN sum[Len(file)]

\* Every sample is where a reader puts it.
InTime(file) ==
  \A k \in DOMAIN file : \A i \in DOMAIN file[k].data :
     file[k].data[i] = Ticks(SubSeq(file, 1, k - 1)) + file[k].overrun + i - 1
=============================================================================
