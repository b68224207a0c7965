--------------------------- MODULE Loggers_proofs ---------------------------
(***************************************************************************)
(* For every size of a block, a queue and a file: no logger sketch drops a *)
(* tick without counting it, the interrupt and the loop never share a      *)
(* block, and what is read back has every sample at its tick.  Each sketch *)
(* has an invariant of its own; Loggers runs one of them.                  *)
(*                                                                         *)
(* What is promised of a log is not inductive: it says nothing of the      *)
(* blocks between the interrupt and the file.  The invariants say what the *)
(* file will be when all of them are written, in every place an interrupt  *)
(* can find the loop.                                                      *)
(***************************************************************************)
EXTENDS Loggers, SequenceTheorems, TLAPS

\* The module of LowLatencyLogger with its proofs, for the sketch of that name.
Low == INSTANCE LowLatencyLogger_proofs

\* The blocks of a log.
Blocks == Low!Blocks
\* The ticks that a block accounts for.
TicksOf(b) == b.overrun + Len(b.data)

\* Every sketch counts the ticks of a file alike.
LEMMA TicksAlike ==
  ASSUME NEW f
  PROVE  /\ LowLatency!Ticks(f) = Ticks(f)
         /\ AnalogBin!Ticks(f) = Ticks(f) /\ ExFat!Ticks(f) = Ticks(f) /\ TeensyDma!Ticks(f) = Ticks(f)
         /\ Low!Ticks(f) = Ticks(f)
BY DEF LowLatency!Ticks, AnalogBin!Ticks, ExFat!Ticks, TeensyDma!Ticks, Low!Ticks, Ticks

\* A block adds its ticks to those of the file.
LEMMA TicksFacts ==
  ASSUME NEW f \in Seq(Blocks)
  PROVE  /\ Ticks(f) \in Nat /\ Ticks(<<>>) = 0
         /\ \A b \in Blocks : Ticks(Append(f, b)) = Ticks(f) + TicksOf(b)
BY TicksAlike, Low!TicksFacts DEF Blocks, TicksOf, Low!TicksOf

-----------------------------------------------------------------------------
(* Numbers and sequences.                                                  *)

\* A number has one quotient and one remainder.
LEMMA Division ==
  ASSUME NEW b \in Int, b > 0, NEW x \in Int
  PROVE  x \div b \in Int /\ x % b \in 0 .. b - 1 /\ x = b * (x \div b) + (x % b)
<1>1. x = b * (x \div b) + (x % b)
  BY Z3
<1> QED  BY <1>1

\* What is left when a number is less than twice the divisor.
Wrapped(x, b) == IF x < b THEN x ELSE x - b

\* Below twice the divisor the remainder is what is left.
LEMMA Wraps ==
  ASSUME NEW b \in Int, b > 0, NEW x \in 0 .. 2 * b - 1
  PROVE  x % b = Wrapped(x, b) /\ Wrapped(x, b) \in 0 .. b - 1
<1> DEFINE q == x \div b
           r == x % b
<1>1. q \in Int /\ r \in 0 .. b - 1 /\ x = b * q + r
  BY Division
<1> HIDE DEF q, r
<1>2. q < 0 => b * q <= -b
  BY <1>1, Z3
<1>3. q > 1 => b * q >= 2 * b
  BY <1>1, Z3
<1>4. q = 0 \/ q = 1
  <2>1. b * q \in Int
    BY <1>1
  <2> QED  BY <1>1, <1>2, <1>3, <2>1
<1>5. r = Wrapped(x, b)
  BY <1>1, <1>4 DEF Wrapped
<1> QED  BY <1>1, <1>5 DEF r

-----------------------------------------------------------------------------
(* Logs and their text.                                                    *)

\* Joined sequences are the same in the module with the proofs.
LEMMA FlattenAlike == ASSUME NEW s PROVE Low!Reader!FlattenSeq(s) = FlattenSeq(s)
BY DEF Low!Reader!FlattenSeq, FlattenSeq

\* The lines of a block are.
LEMMA LinesAlike == ASSUME NEW b PROVE Low!Reader!Lines(b) = Lines(b)
BY DEF Low!Reader!Lines, Lines, Low!Reader!Block, Block

\* The text of a log is.
LEMMA TextAlike == ASSUME NEW f PROVE Low!Reader!Text(f) = Text(f)
BY FlattenAlike, LinesAlike, Zenon DEF Low!Reader!Text, Text

\* Its samples are.
LEMMA SamplesAlike == ASSUME NEW f PROVE Low!Reader!Samples(f) = Samples(f)
BY FlattenAlike, Zenon DEF Low!Reader!Samples, Samples

\* That it is in time is.
LEMMA InTimeAlike == ASSUME NEW f PROVE Low!InTime(f) <=> InTime(f)
BY TicksAlike DEF Low!InTime, InTime

\* Its blocks before an empty one are.
LEMMA UpToAlike == ASSUME NEW f PROVE Low!Reader!UpToEmpty(f) = UpToEmpty(f)
BY Zenon DEF Low!Reader!UpToEmpty, UpToEmpty, Low!Reader!UpTo, UpTo, Low!Reader!Empty, Empty, Low!Reader!Min, Min

\* The samples of a block have the ticks behind a file.
InTimeAfter(f, b) == \A i \in 1 .. Len(b.data) : b.data[i] = Ticks(f) + b.overrun + i - 1
\* Nothing is in time; what is appended is in time if it begins where the file ends.
LEMMA InTimeAppend ==
  ASSUME NEW f \in Seq(Blocks), NEW b \in Blocks
  PROVE  InTime(<<>>) /\ (InTime(Append(f, b)) <=> InTime(f) /\ InTimeAfter(f, b))
<1>1. f \in Seq(Low!Blocks) /\ b \in Low!Blocks
  BY DEF Blocks
<1>2. Low!InTime(<<>>) /\ (Low!InTime(Append(f, b)) <=> Low!InTime(f) /\ Low!InTimeAfter(f, b))
  BY <1>1, Low!InTimeAppend, Low!InTimeEmpty
<1>3. Low!InTimeAfter(f, b) <=> InTimeAfter(f, b)
  BY TicksAlike DEF Low!InTimeAfter, InTimeAfter
<1> QED  BY <1>2, <1>3, InTimeAlike

\* The beginning of a file that is in time is in time.
LEMMA InTimePrefix ==
  ASSUME NEW f \in Seq(Blocks), NEW g \in Seq(Blocks), InTime(f \o g)
  PROVE  InTime(f)
<1>1. f \in Seq(Low!Blocks) /\ g \in Seq(Low!Blocks) /\ Low!InTime(f \o g)
  BY InTimeAlike DEF Blocks
<1>2. Low!InTime(f)
  BY <1>1, Low!InTimePrefix
<1> QED  BY <1>2, InTimeAlike

\* The text of a log has its samples, and is in time if the log is.
LEMMA TextRight ==
  ASSUME NEW f \in Seq(Blocks)
  PROVE  /\ Text(f) \in Seq(Blocks) /\ Samples(Text(f)) = Samples(f) /\ Text(<<>>) = <<>>
         /\ InTime(f) => InTime(Text(f))
<1>1. f \in Seq(Low!Blocks)
  BY DEF Blocks
<1>2. /\ Low!Reader!Text(f) \in Seq(Low!Blocks) /\ Low!Reader!Samples(Low!Reader!Text(f)) = Low!Reader!Samples(f)
      /\ Low!InTime(f) => Low!InTime(Low!Reader!Text(f))
  BY <1>1, Low!TextRight
<1>3. Low!Reader!Text(<<>>) = <<>>
  BY <1>1, Low!TextFacts
<1> QED  BY <1>2, <1>3, TextAlike, SamplesAlike, InTimeAlike DEF Blocks

\* The samples of a log that goes on are those of its parts.
LEMMA SamplesFacts ==
  ASSUME NEW f \in Seq(Blocks)
  PROVE  /\ Samples(f) \in Seq(Int) /\ Samples(<<>>) = <<>>
         /\ \A b \in Blocks : Samples(Append(f, b)) = Samples(f) \o b.data
<1>1. f \in Seq(Low!Blocks)
  BY DEF Blocks
<1>2. /\ Low!Reader!Samples(f) \in Seq(Int) /\ Low!Reader!Samples(<<>>) = <<>>
      /\ \A b \in Low!Blocks : Low!Reader!Samples(Append(f, b)) = Low!Reader!Samples(f) \o b.data
  BY <1>1, Low!SamplesFacts
<1> QED  BY <1>2, SamplesAlike DEF Blocks

\* The samples of two logs, one behind the other.
LEMMA SamplesConcat ==
  ASSUME NEW f \in Seq(Blocks), NEW g \in Seq(Blocks)
  PROVE  Samples(f \o g) = Samples(f) \o Samples(g)
<1> DEFINE P == {x \in Seq(Blocks) : Samples(f \o x) = Samples(f) \o Samples(x)}
<1>1. <<>> \in P
  <2>1. <<>> \in Seq(Blocks) /\ f \o <<>> = f
    OBVIOUS
  <2>2. Samples(<<>>) = <<>> /\ Samples(f) \in Seq(Int)
    BY SamplesFacts
  <2>3. Samples(f) \o <<>> = Samples(f)
    BY <2>2
  <2> QED  BY <2>1, <2>2, <2>3
<1>2. \A x \in Seq(Blocks) : \A b \in Blocks : x \in P => Append(x, b) \in P
  <2> SUFFICES ASSUME NEW x \in Seq(Blocks), NEW b \in Blocks, x \in P PROVE Append(x, b) \in P
    OBVIOUS
  <2>1. f \o x \in Seq(Blocks) /\ f \o Append(x, b) = Append(f \o x, b) /\ Append(x, b) \in Seq(Blocks)
    OBVIOUS
  <2>2. Samples(Append(f \o x, b)) = Samples(f \o x) \o b.data /\ Samples(Append(x, b)) = Samples(x) \o b.data
    BY <2>1, SamplesFacts
  <2>3. Samples(f) \in Seq(Int) /\ Samples(x) \in Seq(Int) /\ b.data \in Seq(Int)
    BY SamplesFacts DEF Blocks, Low!Blocks
  <2>4. (Samples(f) \o Samples(x)) \o b.data = Samples(f) \o (Samples(x) \o b.data)
    <3> DEFINE p == Samples(f)
               q == Samples(x)
               r == b.data
    <3>1. p \in Seq(Int) /\ q \in Seq(Int) /\ r \in Seq(Int)
      BY <2>3
    <3> HIDE DEF p, q, r
    <3>2. (p \o q) \o r = p \o (q \o r)
      BY ONLY <3>1, SMTT(30)
    <3> QED  BY <3>2 DEF p, q, r
  <2>5. Samples(f \o x) = Samples(f) \o Samples(x)
    OBVIOUS
  <2> QED  BY <2>1, <2>2, <2>4, <2>5
<1> HIDE DEF P
<1>3. Seq(Blocks) \subseteq P
  BY <1>1, <1>2, Low!SeqInduction
<1>4. g \in P
  BY <1>3
<1> QED  BY <1>4 DEF P

\* Samples in the order of their ticks, all of ticks before t.
Sampled(s, t) ==
  /\ \A i, j \in 1 .. Len(s) : i < j => s[i] < s[j]
  /\ \A i \in 1 .. Len(s) : s[i] < t

\* The next sample keeps the order; so does a shorter log, and a later tick.
LEMMA SampledFacts ==
  /\ \A s \in Seq(Int), t \in Int : Sampled(s, t) => Sampled(Append(s, t), t + 1) /\ Sampled(s, t + 1)
  /\ \A s, r \in Seq(Int), t \in Int : Sampled(s \o r, t) => Sampled(s, t)
<1>1. ASSUME NEW s \in Seq(Int), NEW t \in Int, Sampled(s, t) PROVE Sampled(s, t + 1)
  <2>1. \A i \in 1 .. Len(s) : s[i] \in Int
    OBVIOUS
  <2> QED  BY <1>1, <2>1 DEF Sampled
<1>2. ASSUME NEW s \in Seq(Int), NEW t \in Int, Sampled(s, t) PROVE Sampled(Append(s, t), t + 1)
  <2> DEFINE a == Append(s, t)
             n == Len(s)
  <2>1. n \in Nat /\ Len(a) = n + 1 /\ a[n + 1] = t /\ \A i \in 1 .. n : a[i] = s[i] /\ s[i] \in Int
    OBVIOUS
  <2>2. (\A i, j \in 1 .. n : i < j => s[i] < s[j]) /\ \A i \in 1 .. n : s[i] < t
    BY <1>2 DEF Sampled
  <2> HIDE DEF a, n
  <2>3. \A i \in 1 .. n + 1 : i \in 1 .. n \/ i = n + 1
    BY <2>1
  <2>4. \A i \in 1 .. n + 1 : a[i] < t + 1
    BY <2>1, <2>2, <2>3
  <2>5. \A i, j \in 1 .. n + 1 : i < j => a[i] < a[j]
    <3> TAKE i, j \in 1 .. n + 1
    <3> HAVE i < j
    <3>1. i \in 1 .. n
      BY <2>1
    <3> QED  BY <2>1, <2>2, <2>3, <3>1
  <2>6. Sampled(a, t + 1)
    BY <2>1, <2>4, <2>5 DEF Sampled
  <2> QED  BY <2>6 DEF a
<1>3. ASSUME NEW s \in Seq(Int), NEW r \in Seq(Int), NEW t \in Int, Sampled(s \o r, t) PROVE Sampled(s, t)
  <2> DEFINE a == s \o r
  <2>1. Len(s) \in Nat /\ Len(r) \in Nat /\ Len(a) = Len(s) + Len(r) /\ \A i \in 1 .. Len(s) : a[i] = s[i]
    OBVIOUS
  <2>2. (\A i, j \in 1 .. Len(a) : i < j => a[i] < a[j]) /\ \A i \in 1 .. Len(a) : a[i] < t
    BY <1>3 DEF Sampled
  <2> HIDE DEF a
  <2>3. \A i \in 1 .. Len(s) : i \in 1 .. Len(a)
    BY <2>1
  <2> QED  BY <2>1, <2>2, <2>3 DEF Sampled
<1> QED  BY <1>1, <1>2, <1>3

\* A log whose samples are in the order of their ticks is in order.
LEMMA SampledInOrder ==
  ASSUME NEW f \in Seq(Blocks), NEW t, Sampled(Samples(f), t)
  PROVE  InOrder(f)
<1> DEFINE s == Samples(f)
<1>1. s \in Seq(Int)
  BY SamplesFacts
<1> HIDE DEF s
<1>2. \A i \in 1 .. Len(s) - 1 : i \in 1 .. Len(s) /\ i + 1 \in 1 .. Len(s) /\ i < i + 1
  BY <1>1
<1>3. \A i \in 1 .. Len(s) - 1 : s[i] < s[i + 1]
  <2>1. \A i, j \in 1 .. Len(s) : i < j => s[i] < s[j]
    BY DEF Sampled, s
  <2> QED  BY <1>2, <2>1
<1> QED  BY <1>3 DEF InOrder, s

\* A log without empty blocks is read to its end.
LEMMA ReadWhole ==
  ASSUME NEW f \in Seq(Blocks), \A k \in 1 .. Len(f) : f[k].data # <<>>
  PROVE  UpToEmpty(f) = f
<1>1. f \in Seq(Low!Blocks)
  BY DEF Blocks
<1>2. Low!Reader!UpToEmpty(f) = f
  BY <1>1, Low!UpToWhole
<1> QED  BY <1>2, UpToAlike

\* The file behind its metadata.
LEMMA BehindMetadata ==
  ASSUME NEW f \in Seq(Blocks)
  PROVE  /\ <<Metadata>> \o f \in Seq(Blocks) /\ Len(<<Metadata>> \o f) = Len(f) + 1
         /\ <<Metadata>> \o f # <<>> /\ Tail(<<Metadata>> \o f) = f
         /\ \A i \in 1 .. Len(f) : (<<Metadata>> \o f)[i + 1] = f[i]
<1>1. Metadata \in Blocks
  <2>1. <<-2>> \in Seq(Int)
    OBVIOUS
  <2> QED  BY <2>1 DEF Metadata, Block, Blocks, Low!Blocks
<1> QED  BY <1>1

\* AnalogBinLogger reads the blocks behind the metadata.
LEMMA AnalogBinReads ==
  ASSUME NEW f \in Seq(Blocks), \A k \in 1 .. Len(f) : f[k].data # <<>>
  PROVE  Csv("AnalogBin", f) = Text(f) /\ ReadersAgree("AnalogBin", f)
<1> DEFINE disk == <<Metadata>> \o f
<1>1. Disk("AnalogBin", f) = disk
  BY DEF Disk
<1>2. disk # <<>> /\ Tail(disk) = f
  BY BehindMetadata
<1>3. UpToEmpty(f) = f
  BY ReadWhole
<1>4. Samples(Text(f)) = Samples(f)
  BY TextRight
<1> HIDE DEF disk
<1>5. AnalogBinCsv(disk) = Text(f) /\ AnalogBinDump(disk) = Text(f) /\ AnalogBinLosses(disk) = Losses(f, 1)
  BY <1>2, <1>3 DEF AnalogBinCsv, AnalogBinDump, AnalogBinLosses
<1>6. Csv("AnalogBin", f) = Text(f)
  BY <1>1, <1>5 DEF Csv
<1> QED  BY <1>1, <1>4, <1>5, <1>6 DEF ReadersAgree

\* TeensyDmaAdcLogger has no reader.
LEMMA TeensyDmaReads == ASSUME NEW f PROVE Csv("TeensyDma", f) = f /\ ReadersAgree("TeensyDma", f)
<1>1. Csv("TeensyDma", f) = f
  BY DEF Csv
<1> QED  BY <1>1 DEF ReadersAgree

\* Where the parts of a file of n blocks end that is read a buffer at a time, its first blocks left out.
PartEnd(first, n, k) == IF k = 0 THEN first ELSE IF k * FifoDim <= n THEN k * FifoDim ELSE n
\* The number of buffers.
BufferCount(n) == (n + FifoDim - 1) \div FifoDim

\* All buffers but the last are full, and the last ends with the file.
LEMMA BufferEnds ==
  ASSUME NEW n \in Nat
  PROVE  /\ BufferCount(n) \in Nat /\ (n > 0 => BufferCount(n) > 0)
         /\ \A k \in 0 .. BufferCount(n) : k * FifoDim \in Nat /\ (k < BufferCount(n) => k * FifoDim <= n)
         /\ \A k \in 1 .. BufferCount(n) : (k - 1) * FifoDim <= n /\ (k - 1) * FifoDim <= k * FifoDim /\ (k > 0 => k * FifoDim >= FifoDim)
         /\ BufferCount(n) * FifoDim >= n
<1> DEFINE r == BufferCount(n)
           m == (n + FifoDim - 1) % FifoDim
<1>1. FifoDim \in Nat /\ FifoDim > 0
  BY BoundsAssumption
<1>2. r \in Int /\ m \in 0 .. FifoDim - 1 /\ n + FifoDim - 1 = FifoDim * r + m
  <2>1. n + FifoDim - 1 \in Int /\ FifoDim \in Int
    BY <1>1
  <2> QED  BY <1>1, <2>1, Division DEF BufferCount
<1> HIDE DEF r, m
<1>3. \A x, y \in Int : x <= y => x * FifoDim <= y * FifoDim
  BY <1>1, Z3
<1>4. FifoDim * r = r * FifoDim /\ r * FifoDim \in Int
  BY <1>1, <1>2
<1>5. r * FifoDim >= n /\ r * FifoDim <= n + FifoDim - 1
  BY <1>1, <1>2, <1>4
<1>6. r >= 0
  <2>1. r <= -1 => r * FifoDim <= (-1) * FifoDim
    BY <1>2, <1>3
  <2> QED  BY <1>1, <1>2, <1>4, <1>5, <2>1
<1>7. n > 0 => r > 0
  <2>1. 0 * FifoDim = 0
    BY <1>1
  <2> QED  BY <1>1, <1>2, <1>5, <1>6, <2>1
<1>8. (r - 1) * FifoDim = r * FifoDim - FifoDim
  BY <1>1, <1>2, Z3
<1>9. ASSUME NEW k \in 0 .. r PROVE k * FifoDim \in Nat /\ (k < r => k * FifoDim <= n)
  <2>1. k \in Nat /\ k * FifoDim \in Nat
    BY <1>1
  <2>2. k < r => k * FifoDim <= (r - 1) * FifoDim
    BY <1>2, <1>3, <2>1
  <2> QED  BY <1>1, <1>2, <1>4, <1>5, <1>8, <2>1, <2>2
<1>10. ASSUME NEW k \in 1 .. r
       PROVE  (k - 1) * FifoDim <= n /\ (k - 1) * FifoDim <= k * FifoDim /\ (k > 0 => k * FifoDim >= FifoDim)
  <2>1. k - 1 \in 0 .. r /\ k - 1 < r /\ k - 1 \in Int /\ k \in Int /\ 1 <= k
    BY <1>2
  <2>2. (k - 1) * FifoDim <= k * FifoDim
    BY <1>3, <2>1
  <2>3. 1 * FifoDim <= k * FifoDim
    BY <1>3, <2>1
  <2> QED  BY <1>1, <1>9, <2>1, <2>2, <2>3
<1> QED  BY <1>2, <1>5, <1>6, <1>7, <1>9, <1>10 DEF r

\* The buffers give the text of the blocks behind the first ones.
LEMMA BuffersJoin ==
  ASSUME NEW f \in Seq(Blocks), NEW first \in 0 .. 1, first <= Len(f), first <= FifoDim
  PROVE  LET n == Len(f) IN
         FlattenSeq([k \in 1 .. BufferCount(n) |-> Text(SubSeq(f, PartEnd(first, n, k - 1) + 1, PartEnd(first, n, k)))])
           = Text(SubSeq(f, first + 1, n))
<1> DEFINE n == Len(f)
           r == BufferCount(n)
           c == [k \in 0 .. r |-> PartEnd(first, n, k)]
<1>1. FifoDim \in Nat /\ FifoDim > 0 /\ n \in Nat
  BY BoundsAssumption
<1>2. /\ r \in Nat /\ (n > 0 => r > 0)
      /\ \A k \in 0 .. r : k * FifoDim \in Nat /\ (k < r => k * FifoDim <= n)
      /\ \A k \in 1 .. r : (k - 1) * FifoDim <= n /\ (k - 1) * FifoDim <= k * FifoDim /\ (k > 0 => k * FifoDim >= FifoDim)
      /\ r * FifoDim >= n
  BY <1>1, BufferEnds
<1>3. first <= n
  OBVIOUS
<1> HIDE DEF n, r
<1>4. ASSUME NEW k \in 0 .. r PROVE c[k] = PartEnd(first, n, k) /\ c[k] \in 0 .. n
  <2>1. k * FifoDim \in Nat
    BY <1>2
  <2>2. PartEnd(first, n, k) \in 0 .. n
    BY <1>1, <1>3, <2>1 DEF PartEnd
  <2> QED  BY <2>2
<1>5. ASSUME NEW k \in 1 .. r PROVE c[k - 1] <= c[k]
  <2>1. k - 1 \in 0 .. r /\ k \in 0 .. r
    BY <1>2
  <2>2. c[k - 1] = PartEnd(first, n, k - 1) /\ c[k] = PartEnd(first, n, k)
    BY <1>4, <2>1
  <2> DEFINE x == (k - 1) * FifoDim
             y == k * FifoDim
  <2>3. x \in Nat /\ y \in Nat /\ x <= n /\ x <= y /\ y >= FifoDim
    BY <1>2, <2>1
  <2> HIDE DEF x, y
  <2>4. k # 0 /\ PartEnd(first, n, k) = (IF y <= n THEN y ELSE n) /\ PartEnd(first, n, k - 1) = (IF k - 1 = 0 THEN first ELSE IF x <= n THEN x ELSE n)
    BY DEF PartEnd, x, y
  <2> HIDE DEF c
  <2> QED  BY <1>1, <1>3, <2>2, <2>3, <2>4
<1>6. c[0] = first /\ c[r] = n
  <2>1. 0 \in 0 .. r /\ r \in 0 .. r
    BY <1>2
  <2>2. c[0] = PartEnd(first, n, 0) /\ c[r] = PartEnd(first, n, r)
    BY <1>4, <2>1
  <2>3. r * FifoDim \in Nat /\ r * FifoDim >= n
    BY <1>2, <2>1
  <2> HIDE DEF c
  <2>4. r # 0 => PartEnd(first, n, r) = n
    BY <1>1, <2>3 DEF PartEnd
  <2>5. r = 0 => n = 0 /\ first = 0 /\ PartEnd(first, n, r) = n
    BY <1>1, <1>2, <1>3 DEF PartEnd
  <2>6. PartEnd(first, n, 0) = first
    BY DEF PartEnd
  <2> QED  BY <2>2, <2>4, <2>5, <2>6
<1>7. Low!Cuts(c, r, f)
  <2> HIDE DEF c
  <2> QED  BY <1>4, <1>5 DEF Low!Cuts, n
<1>8. [k \in 1 .. r |-> Text(SubSeq(f, PartEnd(first, n, k - 1) + 1, PartEnd(first, n, k)))] = Low!Parts(c, r, f)
  <2>1. ASSUME NEW k \in 1 .. r
        PROVE Text(SubSeq(f, PartEnd(first, n, k - 1) + 1, PartEnd(first, n, k))) = Low!Reader!Text(SubSeq(f, c[k - 1] + 1, c[k]))
    <3>1. k - 1 \in 0 .. r /\ k \in 0 .. r
      BY <1>2
    <3>2. c[k - 1] = PartEnd(first, n, k - 1) /\ c[k] = PartEnd(first, n, k)
      BY <1>4, <3>1
    <3> HIDE DEF c
    <3> QED  BY <3>2, TextAlike
  <2> HIDE DEF c
  <2> QED  BY <2>1, Zenon DEF Low!Parts
<1> HIDE DEF c
<1>9. f \in Seq(Low!Blocks)
  BY DEF Blocks
<1>10. Low!Reader!FlattenSeq(Low!Parts(c, r, f)) = Low!Reader!Text(SubSeq(f, c[0] + 1, c[r]))
  BY <1>2, <1>7, <1>9, Low!PartsJoin
<1>11. FlattenSeq(Low!Parts(c, r, f)) = Text(SubSeq(f, first + 1, n))
  BY <1>6, <1>10, FlattenAlike, TextAlike
<1> QED  BY <1>8, <1>11 DEF n, r

\* The smaller one of two numbers.
LEMMA MinOfTwo == ASSUME NEW x \in Nat, NEW y \in Nat PROVE Min({x, y}) = IF x <= y THEN x ELSE y
<1> DEFINE m == CHOOSE z \in {x, y} : \A w \in {x, y} : z <= w
<1>1. Min({x, y}) = m
  BY DEF Min
<1>2. \E z \in {x, y} : \A w \in {x, y} : z <= w
  OBVIOUS
<1>3. m \in {x, y} /\ \A w \in {x, y} : m <= w
  BY <1>2
<1> HIDE DEF m
<1> QED  BY <1>1, <1>3

\* What a buffer has.
LEMMA BufferIs ==
  ASSUME NEW f \in Seq(Blocks), NEW k \in 1 .. BufferCount(Len(f))
  PROVE  /\ Buffer(f, k - 1) = SubSeq(f, PartEnd(0, Len(f), k - 1) + 1, PartEnd(0, Len(f), k))
         /\ Buffer(f, k - 1) \in Seq(Blocks)
         /\ k > 1 => PartEnd(0, Len(f), k - 1) = PartEnd(1, Len(f), k - 1)
         /\ PartEnd(0, Len(f), k) = PartEnd(1, Len(f), k)
<1> DEFINE n == Len(f)
           x == (k - 1) * FifoDim
           y == k * FifoDim
<1>1. n \in Nat /\ FifoDim \in Nat /\ BufferCount(n) \in Nat
  BY BufferEnds, BoundsAssumption
<1>2. x \in Nat /\ y \in Nat /\ x <= n
  <2>1. k - 1 \in 0 .. BufferCount(n) /\ k \in 0 .. BufferCount(n) /\ k - 1 < BufferCount(n)
    BY <1>1
  <2> QED  BY <1>1, <2>1, BufferEnds
<1>3. (k - 1) + 1 = k /\ k # 0
  BY <1>1
<1> HIDE DEF x, y
<1>4. PartEnd(0, n, k - 1) = x
  <2>1. k - 1 = 0 => x = 0
    BY <1>1 DEF x
  <2>2. PartEnd(0, n, k - 1) = IF k - 1 = 0 THEN 0 ELSE IF x <= n THEN x ELSE n
    BY DEF PartEnd, x
  <2> QED  BY <1>2, <2>1, <2>2
<1>5. PartEnd(0, n, k) = Min({y, n}) /\ PartEnd(0, n, k) = PartEnd(1, n, k)
  <2>1. Min({y, n}) = IF y <= n THEN y ELSE n
    BY <1>1, <1>2, MinOfTwo
  <2>2. PartEnd(0, n, k) = (IF y <= n THEN y ELSE n) /\ PartEnd(1, n, k) = (IF y <= n THEN y ELSE n)
    BY <1>3 DEF PartEnd, y
  <2> QED  BY <2>1, <2>2
<1>6. Buffer(f, k - 1) = SubSeq(f, x + 1, Min({y, n}))
  BY <1>3 DEF Buffer, x, y
<1>7. k > 1 => PartEnd(0, n, k - 1) = PartEnd(1, n, k - 1)
  BY <1>1 DEF PartEnd
<1>8. Buffer(f, k - 1) \in Seq(Blocks)
  <2>1. Min({y, n}) \in Nat /\ Min({y, n}) <= Len(f)
    <3>1. Min({y, n}) = IF y <= n THEN y ELSE n
      BY <1>1, <1>2, MinOfTwo
    <3> QED  BY <1>1, <1>2, <3>1
  <2> DEFINE m == Min({y, n})
  <2>2. x \in Nat /\ m \in Nat /\ m <= Len(f) /\ Buffer(f, k - 1) = SubSeq(f, x + 1, m)
    BY <1>2, <1>6, <2>1
  <2> HIDE DEF m
  <2>3. SubSeq(f, x + 1, m) \in Seq(Blocks)
    BY <2>2
  <2> QED  BY <2>2, <2>3
<1> QED  BY <1>4, <1>5, <1>6, <1>7, <1>8

\* ExFatLogger reads the records behind the metadata a buffer at a time.
LEMMA ExFatReads ==
  ASSUME NEW f \in Seq(Blocks)
  PROVE  Csv("ExFat", f) = Text(f) /\ ReadersAgree("ExFat", f)
<1> DEFINE disk == <<Metadata>> \o f
           n == Len(f)
           part(k) == Text(SubSeq(f, PartEnd(0, n, k - 1) + 1, PartEnd(0, n, k)))
           read(k) == LET b == Buffer(f, k - 1) IN FlattenSeq([i \in DOMAIN b |-> printRecord(b[i])])
<1>1. Disk("ExFat", f) = disk
  BY DEF Disk
<1>2. Tail(disk) = f /\ Len(disk) = n + 1 /\ \A i \in 1 .. n : disk[i + 1] = f[i]
  BY BehindMetadata
<1>3. n \in Nat /\ FifoDim \in Nat /\ FifoDim > 0
  BY BoundsAssumption
<1>4. ASSUME NEW k \in 1 .. BufferCount(n) PROVE read(k) = part(k)
  <2>1. Buffer(f, k - 1) = SubSeq(f, PartEnd(0, n, k - 1) + 1, PartEnd(0, n, k))
    BY BufferIs
  <2>2. read(k) = Text(Buffer(f, k - 1))
    BY DEF Text, printRecord
  <2> QED  BY <2>1, <2>2
<1>5. FlattenSeq([k \in 1 .. BufferCount(n) |-> part(k)]) = Text(f)
  <2>1. 0 \in 0 .. 1 /\ 0 <= Len(f) /\ 0 <= FifoDim
    BY <1>3
  <2>2. SubSeq(f, 0 + 1, n) = f
    OBVIOUS
  <2> QED  BY <2>1, <2>2, BuffersJoin
<1>6. Reads(f) = BufferCount(n)
  BY DEF Reads, BufferCount
<1> HIDE DEF disk
<1>7. ExFatCsv(disk) = FlattenSeq([k \in 1 .. BufferCount(n) |-> read(k)])
  BY <1>2, <1>6, Zenon DEF ExFatCsv
<1> HIDE DEF part, read
<1>8. [k \in 1 .. BufferCount(n) |-> read(k)] = [k \in 1 .. BufferCount(n) |-> part(k)]
  BY <1>4
<1>9. Csv("ExFat", f) = Text(f)
  <2>1. Csv("ExFat", f) = ExFatCsv(disk)
    BY <1>1 DEF Csv
  <2> QED  BY <2>1, <1>5, <1>7, <1>8
<1>10. ExFatPrint(disk) = Text(f)
  <2>1. Len(disk) - 1 = n /\ DOMAIN f = 1 .. n
    BY <1>2, <1>3
  <2>2. \A i \in 1 .. n : Lines(disk[i + 1]) = Lines(f[i])
    BY <1>2
  <2>3. [i \in 1 .. n |-> Lines(disk[i + 1])] = [i \in DOMAIN f |-> Lines(f[i])]
    BY <2>1, <2>2
  <2> QED  BY <2>1, <2>3, Zenon DEF ExFatPrint, Text, printRecord
<1>11. Samples(Text(f)) = Samples(f)
  BY TextRight
<1> QED  BY <1>1, <1>9, <1>10, <1>11 DEF ReadersAgree

\* AvrAdcLogger reads the blocks behind the metadata a buffer at a time, if a buffer has more than
\* the block of the metadata; else it reads nothing.
LEMMA AvrAdcReads ==
  ASSUME NEW f \in Seq(Blocks), \A k \in 1 .. Len(f) : f[k].data # <<>>
  PROVE  /\ FifoDim > 1 => Csv("AvrAdc", f) = Text(f) /\ ReadersAgree("AvrAdc", f)
         /\ ~(FifoDim > 1) => Csv("AvrAdc", f) = <<>>
<1> DEFINE disk == <<Metadata>> \o f
           n == Len(f) + 1
           r == BufferCount(n)
           part(k) == Text(SubSeq(disk, PartEnd(1, n, k - 1) + 1, PartEnd(1, n, k)))
           read(k) == Text(Printed(disk, k - 1))
<1>1. Csv("AvrAdc", f) = AvrAdcCsv(disk) /\ Disk("AvrAdc", f) = disk
  BY DEF Csv, Disk
<1>2. disk \in Seq(Blocks) /\ Tail(disk) = f /\ Len(disk) = n /\ disk # <<>>
  BY BehindMetadata
<1>3. n \in Nat /\ n > 0 /\ FifoDim \in Nat /\ FifoDim > 0 /\ Len(f) \in Nat
  BY BoundsAssumption
<1>4. SubSeq(disk, 1 + 1, n) = f
  <2>1. SubSeq(disk, 2, Len(disk)) = Tail(disk)
    BY <1>2, <1>3
  <2> QED  BY <2>1, <1>2
<1> HIDE DEF disk
<1>5. r \in Nat /\ r > 0 /\ Reads(disk) = r
  BY <1>2, <1>3, BufferEnds DEF Reads, BufferCount
<1> HIDE DEF n
<1>6. Buffer(disk, 0) = SubSeq(disk, 1, PartEnd(1, n, 1)) /\ PartEnd(1, n, 1) = IF FifoDim <= n THEN FifoDim ELSE n
  <2>1. 1 \in 1 .. r
    BY <1>5
  <2>2. Buffer(disk, 1 - 1) = SubSeq(disk, PartEnd(0, n, 1 - 1) + 1, PartEnd(0, n, 1)) /\ PartEnd(0, n, 1) = PartEnd(1, n, 1)
    BY <2>1, <1>2, BufferIs
  <2>3. PartEnd(0, n, 0) = 0 /\ 1 - 1 = 0 /\ 0 + 1 = 1
    BY DEF PartEnd
  <2>4. PartEnd(1, n, 1) = IF FifoDim <= n THEN FifoDim ELSE n
    BY <1>3 DEF PartEnd
  <2> QED  BY <2>2, <2>3, <2>4
<1>7. Len(Buffer(disk, 0)) = (IF FifoDim <= n THEN FifoDim ELSE n) /\ Tail(Buffer(disk, 0)) = SubSeq(disk, 2, PartEnd(1, n, 1))
  <2> DEFINE e == PartEnd(1, n, 1)
  <2>1. e \in Nat /\ e > 0 /\ e <= n
    BY <1>3, <1>6
  <2> HIDE DEF e
  <2>2. Len(SubSeq(disk, 1, e)) = e
    BY <2>1, <1>2
  <2>3. Tail(SubSeq(disk, 1, e)) = SubSeq(disk, 2, e)
    <3> DEFINE p == SubSeq(disk, 1, e)
               q == SubSeq(disk, 2, e)
    <3>1. p \in Seq(Blocks) /\ Len(p) = e /\ \A i \in 1 .. e : p[i] = disk[i]
      BY <1>2, <2>1
    <3>2. q \in Seq(Blocks) /\ Len(q) = e - 1 /\ \A i \in 1 .. e - 1 : q[i] = disk[i + 1]
      BY <1>2, <2>1
    <3> HIDE DEF p, q
    <3>3. Tail(p) \in Seq(Blocks) /\ Len(Tail(p)) = e - 1 /\ \A i \in 1 .. e - 1 : Tail(p)[i] = p[i + 1]
      BY <2>1, <3>1
    <3>4. \A i \in 1 .. e - 1 : i + 1 \in 1 .. e
      BY <2>1
    <3>5. \A i \in 1 .. Len(Tail(p)) : Tail(p)[i] = q[i]
      BY <3>1, <3>2, <3>3, <3>4
    <3>6. Tail(p) = q
      BY <3>2, <3>3, <3>5, Low!SeqSame
    <3> QED  BY <3>6 DEF p, q
  <2>4. Buffer(disk, 0) = SubSeq(disk, 1, e)
    BY <1>6 DEF e
  <2> QED  BY <1>6, <2>2, <2>3, <2>4 DEF e
<1>8. CASE ~(FifoDim > 1)
  <2>1. FifoDim <= n /\ FifoDim = 1
    BY <1>3, <1>8
  <2>2. Len(Buffer(disk, 0)) = 1
    BY <1>7, <2>1
  <2>3. AvrAdcCsv(disk) = <<>>
    BY <2>2 DEF AvrAdcCsv
  <2> QED  BY <1>1, <1>8, <2>3
<1>9. CASE FifoDim > 1
  <2>1. AvrAdcCsv(disk) = Text(f)
    <3>1. CASE n < 2
      <4>1. Len(f) = 0
        BY <3>1, <1>3 DEF n
      <4>2. f = <<>>
        BY <4>1
      <4>3. Text(f) = <<>>
        BY <4>2, TextRight
      <4>4. AvrAdcCsv(disk) = <<>>
        BY <3>1, <1>2 DEF AvrAdcCsv
      <4> QED  BY <4>3, <4>4
    <3>2. CASE ~(n < 2)
      <4>1. Len(Buffer(disk, 0)) # 1
        <5>1. (IF FifoDim <= n THEN FifoDim ELSE n) # 1
          BY <1>3, <1>9, <3>2
        <5> QED  BY <1>7, <5>1
      <4>2. AvrAdcCsv(disk) = FlattenSeq([k \in 1 .. r |-> read(k)])
        BY <3>2, <4>1, <1>2, <1>5, Zenon DEF AvrAdcCsv
      <4>3. ASSUME NEW k \in 1 .. r PROVE read(k) = part(k)
        <5>1. CASE k = 1
          <6>1. k - 1 = 0 /\ Printed(disk, 0) = Tail(Buffer(disk, 0)) /\ PartEnd(1, n, 0) = 1 /\ 1 + 1 = 2
            BY <5>1 DEF Printed, PartEnd
          <6> QED  BY <5>1, <6>1, <1>7
        <5>2. CASE k # 1
          <6>1. k - 1 # 0 /\ k > 1
            BY <5>2, <1>5
          <6>2. Printed(disk, k - 1) = Buffer(disk, k - 1)
            BY <6>1 DEF Printed
          <6>3. /\ Buffer(disk, k - 1) = SubSeq(disk, PartEnd(0, n, k - 1) + 1, PartEnd(0, n, k))
                /\ PartEnd(0, n, k - 1) = PartEnd(1, n, k - 1) /\ PartEnd(0, n, k) = PartEnd(1, n, k)
            BY <6>1, <1>2, BufferIs
          <6> QED  BY <6>2, <6>3
        <5> QED  BY <5>1, <5>2
      <4>4. FlattenSeq([k \in 1 .. r |-> part(k)]) = Text(SubSeq(disk, 1 + 1, n))
        <5>1. 1 \in 0 .. 1 /\ 1 <= Len(disk) /\ 1 <= FifoDim
          BY <1>2, <1>3
        <5> QED  BY <5>1, <1>2, BuffersJoin
      <4> HIDE DEF part, read
      <4>5. [k \in 1 .. r |-> read(k)] = [k \in 1 .. r |-> part(k)]
        BY <4>3
      <4> QED  BY <1>4, <4>2, <4>4, <4>5
    <3> QED  BY <3>1, <3>2
  <2>2. AvrAdcPrint(disk) = Text(f)
    BY <1>2, ReadWhole DEF AvrAdcPrint
  <2>3. Samples(Text(f)) = Samples(f)
    BY TextRight
  <2> QED  BY <1>1, <1>9, <2>1, <2>2, <2>3 DEF ReadersAgree
<1> QED  BY <1>8, <1>9

-----------------------------------------------------------------------------
(* TeensyDmaLogger.                                                        *)

\* TeensyDmaLogger reads a file as Loggers does.
LEMMA DmaAlike ==
  ASSUME NEW f
  PROVE  (TeensyDma!InTime(f) <=> InTime(f)) /\ TeensyDma!Ticks(f) = Ticks(f)
BY TicksAlike DEF TeensyDma!InTime, InTime

\* File and ring hold one sample for each tick, in time, as long as no DMA buffer was overrun.
DmaInv ==
  /\ tick \in Nat /\ typed \in BOOLEAN /\ pc \in {"loop", "used", "write", "stop", "done"}
  /\ file \in Seq(Blocks) /\ fifo \in Seq(Blocks)
  /\ buf \in [0 .. 1 -> Int] /\ fifoHead \in Nat /\ over \in {0, 1}
  /\ \A k \in 1 .. Len(fifo) : TicksOf(fifo[k]) = 1
  /\ Ticks(file) = Len(file) /\ Ticks(file \o fifo) = Len(file) + Len(fifo)
  /\ fifoHead = Len(file) + Len(fifo) /\ (over = 0 => fifoHead = tick)
  /\ InTime(file \o fifo)
  /\ Len(file) < FileBlocks /\ (pc = "write" => fifo # <<>> /\ Len(file) + 1 < FileBlocks)

\* It starts so.
LEMMA DmaStarts == ASSUME TeensyDma!Init PROVE DmaInv
<1>1. <<>> \in Seq(Blocks) /\ <<>> \o <<>> = <<>> /\ Len(<<>>) = 0 /\ InTime(<<>>)
  BY DEF InTime
<1>2. Ticks(<<>>) = 0
  BY <1>1, TicksFacts
<1>3. FileBlocks \in Nat /\ FileBlocks > 0
  BY BoundsAssumption
<1>4. file = <<>> /\ fifo = <<>> /\ file \o fifo = <<>> /\ buf \in [0 .. 1 -> Int]
  BY <1>1 DEF TeensyDma!Init
<1> QED  BY <1>1, <1>2, <1>3, <1>4 DEF DmaInv, TeensyDma!Init

\* The handler puts the buffer that is full into the ring.
LEMMA DmaIsr == ASSUME DmaInv, TeensyDma!Isr PROVE DmaInv'
<1> DEFINE done == [buf EXCEPT ![tick % 2] = tick]
           b == Block(0, <<done[fifoHead % 2]>>)
<1>1. /\ tick \in Nat /\ file \in Seq(Blocks) /\ fifo \in Seq(Blocks) /\ buf \in [0 .. 1 -> Int]
      /\ fifoHead \in Nat /\ file \o fifo \in Seq(Blocks)
  BY DEF DmaInv
<1>2. done \in [0 .. 1 -> Int] /\ done[tick % 2] = tick /\ fifoHead % 2 \in 0 .. 1
  BY <1>1
<1>3. buf' = done /\ tick' = tick + 1 /\ UNCHANGED <<typed, pc, file>>
  BY DEF TeensyDma!Isr
<1>4. CASE Len(fifo) < FifoDim /\ over = 0
  <2>1. fifo' = Append(fifo, b) /\ fifoHead' = fifoHead + 1 /\ over' = over
    BY <1>4 DEF TeensyDma!Isr, Block, TeensyDma!Block
  <2>2. fifoHead = tick
    BY <1>4 DEF DmaInv
  <2>3. b = [overrun |-> 0, data |-> <<tick>>]
    BY <1>2, <2>2 DEF Block
  <2>4. b \in Blocks /\ TicksOf(b) = 1
    <3>1. tick \in Int /\ <<tick>> \in Seq(Int) /\ Len(<<tick>>) = 1
      BY <1>1
    <3> HIDE DEF b, done
    <3> QED  BY <2>3, <3>1 DEF Blocks, Low!Blocks, TicksOf
  <2> HIDE DEF b, done
  <2>5. /\ fifo' \in Seq(Blocks) /\ Len(fifo') = Len(fifo) + 1 /\ file \o fifo' = Append(file \o fifo, b)
        /\ \A k \in 1 .. Len(fifo') : fifo'[k] = IF k <= Len(fifo) THEN fifo[k] ELSE b
    BY <1>1, <2>1, <2>4
  <2>6. Ticks(file \o fifo') = Ticks(file \o fifo) + 1
    BY <1>1, <2>4, <2>5, TicksFacts
  <2>7. InTime(file \o fifo')
    <3>1. InTimeAfter(file \o fifo, b)
      <4>1. Ticks(file \o fifo) = tick /\ Len(b.data) = 1 /\ b.data[1] = tick /\ b.overrun = 0
        BY <1>1, <2>2, <2>3 DEF DmaInv
      <4> QED  BY <4>1, <1>1 DEF InTimeAfter
    <3>2. InTime(file \o fifo)
      BY DEF DmaInv
    <3> QED  BY <1>1, <2>4, <2>5, <3>1, <3>2, InTimeAppend
  <2>8. \A k \in 1 .. Len(fifo') : TicksOf(fifo'[k]) = 1
    <3>1. \A k \in 1 .. Len(fifo) : TicksOf(fifo[k]) = 1
      BY DEF DmaInv
    <3> QED  BY <3>1, <2>4, <2>5, <1>1
  <2>9. fifo # <<>> => fifo' # <<>>
    BY <1>1, <2>5
  <2>10. /\ Ticks(file) = Len(file) /\ Ticks(file \o fifo') = Len(file) + Len(fifo')
         /\ fifoHead' = Len(file) + Len(fifo') /\ (over = 0 => fifoHead' = tick') /\ Len(file) \in Nat
         /\ fifoHead' \in Nat /\ tick' \in Nat
    <3>1. /\ Ticks(file) = Len(file) /\ Ticks(file \o fifo) = Len(file) + Len(fifo)
          /\ fifoHead = Len(file) + Len(fifo)
      BY DEF DmaInv
    <3>2. Len(file) \in Nat /\ Len(fifo) \in Nat
      BY <1>1
    <3>3. fifoHead' = fifoHead + 1 /\ tick' = tick + 1 /\ Len(fifo') = Len(fifo) + 1
      BY <1>3, <2>1, <2>5
    <3>4. fifoHead' = Len(file) + Len(fifo') /\ fifoHead' \in Nat /\ tick' \in Nat /\ fifoHead' = tick'
      <4>1. fifoHead \in Nat /\ tick \in Nat /\ fifoHead = tick /\ fifoHead = Len(file) + Len(fifo)
        BY <1>1, <2>2, <3>1
      <4>2. fifoHead' \in Nat /\ tick' \in Nat /\ fifoHead' = tick'
        BY <3>3, <4>1
      <4>3. fifoHead' = Len(file) + Len(fifo')
        BY <3>2, <3>3, <4>1
      <4> QED  BY <4>2, <4>3
    <3>5. Ticks(file \o fifo') = Len(file) + Len(fifo')
      BY <2>6, <3>1, <3>2, <3>3
    <3> QED  BY <3>1, <3>2, <3>4, <3>5
  <2>11. /\ typed \in BOOLEAN /\ pc \in {"loop", "used", "write", "stop", "done"} /\ over \in {0, 1}
         /\ Len(file) < FileBlocks /\ (pc = "write" => fifo # <<>> /\ Len(file) + 1 < FileBlocks)
    BY DEF DmaInv
  <2> QED  BY <1>1, <1>2, <1>3, <2>1, <2>5, <2>7, <2>8, <2>9, <2>10, <2>11 DEF DmaInv
<1>5. CASE ~(Len(fifo) < FifoDim /\ over = 0)
  <2>1. over' = 1 /\ UNCHANGED <<fifo, fifoHead>>
    BY <1>5 DEF TeensyDma!Isr
  <2> HIDE DEF done
  <2> QED  BY <1>1, <1>2, <1>3, <2>1 DEF DmaInv
<1> QED  BY <1>4, <1>5

\* A write moves a block from the ring to the file.
LEMMA DmaWrite == ASSUME DmaInv, TeensyDma!Write PROVE DmaInv'
<1>1. /\ pc = "write" /\ pc' = "loop" /\ file' = Append(file, Head(fifo)) /\ fifo' = Tail(fifo)
      /\ UNCHANGED <<tick, typed, buf, fifoHead, over>>
  BY DEF TeensyDma!Write
<1>2. file \in Seq(Blocks) /\ fifo \in Seq(Blocks) /\ fifo # <<>> /\ Len(file) + 1 < FileBlocks /\ FileBlocks \in Nat
  BY <1>1, BoundsAssumption DEF DmaInv
<1>3. Head(fifo) \in Blocks /\ TicksOf(Head(fifo)) = 1
  BY <1>2 DEF DmaInv
<1>4. /\ file' \in Seq(Blocks) /\ Len(file') = Len(file) + 1
      /\ fifo' \in Seq(Blocks) /\ Len(fifo') = Len(fifo) - 1 /\ \A k \in 1 .. Len(fifo') : fifo'[k] = fifo[k + 1]
      /\ file' \o fifo' = file \o fifo
  <2>1. fifo = <<Head(fifo)>> \o Tail(fifo) /\ Tail(fifo) \in Seq(Blocks)
    BY <1>2
  <2>2. Append(file, Head(fifo)) \o Tail(fifo) = file \o (<<Head(fifo)>> \o Tail(fifo))
    BY <1>2, <1>3, <2>1
  <2> QED  BY <1>1, <1>2, <2>1, <2>2
<1>5. Ticks(file') = Ticks(file) + 1
  BY <1>1, <1>2, <1>3, TicksFacts
<1>6. \A k \in 1 .. Len(fifo') : TicksOf(fifo'[k]) = 1
  <2>1. \A k \in 1 .. Len(fifo) : TicksOf(fifo[k]) = 1
    BY DEF DmaInv
  <2>2. \A k \in 1 .. Len(fifo') : fifo'[k] = fifo[k + 1] /\ k + 1 \in 1 .. Len(fifo)
    BY <1>2, <1>4
  <2> QED  BY <2>1, <2>2
<1>7. Len(file) \in Nat /\ Len(fifo) \in Nat
  BY <1>2
<1>8. /\ Ticks(file') = Len(file') /\ Ticks(file' \o fifo') = Len(file') + Len(fifo')
      /\ fifoHead = Len(file') + Len(fifo') /\ Len(file') < FileBlocks /\ InTime(file' \o fifo')
  BY <1>2, <1>4, <1>5, <1>7 DEF DmaInv
<1> QED  BY <1>1, <1>4, <1>6, <1>8 DEF DmaInv

\* What is read back is in time.
LEMMA DmaTimes == ASSUME DmaInv PROVE InTime(Csv("TeensyDma", file)) /\ ReadersAgree("TeensyDma", file)
<1>1. file \in Seq(Blocks) /\ fifo \in Seq(Blocks) /\ InTime(file \o fifo)
  BY DEF DmaInv
<1>2. InTime(file)
  BY <1>1, InTimePrefix
<1> QED  BY <1>2, TeensyDmaReads

\* Every step keeps the invariant.
LEMMA DmaSteps == ASSUME DmaInv, TeensyDma!Next \/ UNCHANGED vars PROVE DmaInv'
<1>1. CASE UNCHANGED vars \/ TeensyDma!Type \/ TeensyDma!Go \/ TeensyDma!Stop \/ TeensyDma!WriteFails
  <2>1. UNCHANGED <<tick, file, buf, fifo, fifoHead, over>> /\ typed' \in BOOLEAN
        /\ pc' \in {"loop", "used", "write", "stop", "done"} /\ (pc' = "write" => pc = "write")
    BY <1>1 DEF vars, common, polled, queued, ring, TeensyDma!Type, TeensyDma!Go, TeensyDma!Stop, TeensyDma!WriteFails, DmaInv
  <2> QED  BY <2>1 DEF DmaInv
<1>2. CASE TeensyDma!Used
  <2>1. Len(fifo) \in Nat /\ Len(file) \in Nat /\ FileBlocks \in Nat
    BY BoundsAssumption DEF DmaInv
  <2> QED  BY <1>2, <2>1 DEF TeensyDma!Used, DmaInv
<1> QED  BY <1>1, <1>2, DmaIsr, DmaWrite DEF TeensyDma!Next, TeensyDma!Step

\* The invariant implies what is promised.
LEMMA DmaSafe == ASSUME DmaInv PROVE TeensyDma!Accounted
BY DmaAlike DEF DmaInv, TeensyDma!Accounted

-----------------------------------------------------------------------------
(* ExFatLogger.                                                            *)

\* The records in the FIFO, of which there are n from t on.
RingOf(a, t, n) == [i \in 1 .. n |-> a[Wrapped(t + i - 1, FifoDim)]]
\* File and ring account for every tick that the counter of overruns does not.
ExFatInv ==
  /\ tick \in Nat /\ pc \in {"loop", "end", "done"} /\ file \in Seq(Blocks)
  /\ fifo \in [0 .. FifoDim - 1 -> Blocks] /\ over \in Nat
  /\ fifoHead \in 0 .. FifoDim - 1 /\ fifoTail \in 0 .. FifoDim - 1 /\ fifoCount \in 0 .. FifoDim
  /\ Wrapped(fifoTail + fifoCount, FifoDim) = fifoHead
  /\ Ticks(file \o RingOf(fifo, fifoTail, fifoCount)) + over = tick
  /\ InTime(file \o RingOf(fifo, fifoTail, fifoCount))

\* The sizes are positive numbers.
LEMMA ExFatSizes == FifoDim \in Nat /\ FifoDim > 0 /\ MaxWrite \in Nat /\ MaxWrite > 0
BY BoundsAssumption

\* The records in the ring are a sequence of blocks.
LEMMA RingItems ==
  ASSUME NEW a \in [0 .. FifoDim - 1 -> Blocks], NEW t \in 0 .. FifoDim - 1, NEW n \in 0 .. FifoDim
  PROVE  /\ RingOf(a, t, n) \in Seq(Blocks) /\ Len(RingOf(a, t, n)) = n
         /\ \A i \in 1 .. n : /\ RingOf(a, t, n)[i] = a[Wrapped(t + i - 1, FifoDim)]
                             /\ Wrapped(t + i - 1, FifoDim) \in 0 .. FifoDim - 1
<1>1. \A i \in 1 .. n : Wrapped(t + i - 1, FifoDim) \in 0 .. FifoDim - 1
  BY ExFatSizes DEF Wrapped
<1>2. n \in Nat
  BY ExFatSizes
<1> DEFINE g(i) == a[Wrapped(t + i - 1, FifoDim)]
           s == [i \in 1 .. n |-> g(i)]
<1>3. \A i \in 1 .. n : g(i) \in Blocks
  BY <1>1
<1>4. RingOf(a, t, n) = s
  BY DEF RingOf
<1> HIDE DEF g
<1>5. s \in Seq(Blocks) /\ Len(s) = n /\ \A i \in 1 .. n : s[i] = g(i)
  BY <1>2, <1>3
<1> HIDE DEF s
<1> QED  BY <1>1, <1>4, <1>5 DEF g

\* The rings of blocks, or records.
Rings == [0 .. FifoDim - 1 -> Blocks]
\* Two rings that differ in one place.
SameBut(a, c, h) == \A i \in 0 .. FifoDim - 1 : i # h => c[i] = a[i]
\* Room for one more block behind n of them from t on, at h.
Room(t, n, h) == t \in 0 .. FifoDim - 1 /\ n \in 0 .. FifoDim - 1 /\ h = Wrapped(t + n, FifoDim)
\* The ring c has the blocks of the ring a and the one that was put there.
Grown(a, c, t, n, h) ==
  /\ RingOf(c, t, n) = RingOf(a, t, n)
  /\ RingOf(c, t, n + 1) = Append(RingOf(a, t, n), c[h])
\* What is put at the end of a ring that is not full is its last block.
LEMMA RingAppend ==
  ASSUME NEW a \in Rings, NEW c \in Rings, NEW t, NEW n, NEW h, Room(t, n, h), SameBut(a, c, h)
  PROVE  Grown(a, c, t, n, h)
<1> DEFINE old == RingOf(a, t, n)
           same == RingOf(c, t, n)
           new == RingOf(c, t, n + 1)
<1>0. /\ a \in [0 .. FifoDim - 1 -> Blocks] /\ c \in [0 .. FifoDim - 1 -> Blocks]
      /\ t \in 0 .. FifoDim - 1 /\ n \in 0 .. FifoDim - 1 /\ h = Wrapped(t + n, FifoDim)
  BY DEF Rings, Room
<1>1. n \in 0 .. FifoDim /\ n + 1 \in 0 .. FifoDim /\ n \in Nat /\ h \in 0 .. FifoDim - 1
  BY <1>0, ExFatSizes DEF Wrapped
<1>2. /\ old \in Seq(Blocks) /\ Len(old) = n /\ same \in Seq(Blocks) /\ Len(same) = n /\ new \in Seq(Blocks) /\ Len(new) = n + 1
      /\ \A i \in 1 .. n : /\ old[i] = a[Wrapped(t + i - 1, FifoDim)] /\ same[i] = c[Wrapped(t + i - 1, FifoDim)]
                           /\ Wrapped(t + i - 1, FifoDim) \in 0 .. FifoDim - 1
      /\ \A i \in 1 .. n + 1 : new[i] = c[Wrapped(t + i - 1, FifoDim)]
  <2>1. old \in Seq(Blocks) /\ Len(old) = n /\ \A i \in 1 .. n : old[i] = a[Wrapped(t + i - 1, FifoDim)]
    BY <1>0, <1>1, RingItems
  <2>2. /\ same \in Seq(Blocks) /\ Len(same) = n
        /\ \A i \in 1 .. n : same[i] = c[Wrapped(t + i - 1, FifoDim)] /\ Wrapped(t + i - 1, FifoDim) \in 0 .. FifoDim - 1
    BY <1>0, <1>1, RingItems
  <2>3. new \in Seq(Blocks) /\ Len(new) = n + 1 /\ \A i \in 1 .. n + 1 : new[i] = c[Wrapped(t + i - 1, FifoDim)]
    BY <1>0, <1>1, RingItems
  <2> HIDE DEF old, same, new
  <2> QED  BY <2>1, <2>2, <2>3
<1>3. \A i \in 1 .. n : Wrapped(t + i - 1, FifoDim) # h
  BY <1>0, ExFatSizes DEF Wrapped
<1>4. Wrapped(t + (n + 1) - 1, FifoDim) = h
  BY <1>0, <1>1
<1> HIDE DEF old, same, new
<1>5. \A i \in 1 .. n : c[Wrapped(t + i - 1, FifoDim)] = old[i] /\ same[i] = old[i]
  BY <1>2, <1>3 DEF SameBut
<1>6. \A i \in 1 .. n + 1 : new[i] = IF i <= n THEN old[i] ELSE c[h]
  <2> TAKE i \in 1 .. n + 1
  <2>1. CASE i <= n
    <3>1. i \in 1 .. n
      BY <1>1, <2>1
    <3> QED  BY <1>2, <1>5, <2>1, <3>1
  <2>2. CASE i = n + 1
    BY <1>1, <1>2, <1>4, <2>2
  <2> QED  BY <1>1, <2>1, <2>2
<1>7. same = old
  BY <1>2, <1>5, Low!SeqSame
<1>8. /\ Append(old, c[h]) \in Seq(Blocks) /\ Len(Append(old, c[h])) = n + 1
      /\ \A i \in 1 .. n + 1 : Append(old, c[h])[i] = IF i <= n THEN old[i] ELSE c[h]
  <2>1. old \in Seq(Blocks) /\ Len(old) = n /\ c[h] \in Blocks /\ n \in Nat
    BY <1>0, <1>1, <1>2
  <2> QED  BY ONLY <2>1
<1>9. new = Append(old, c[h])
  <2>1. \A i \in 1 .. n + 1 : new[i] = Append(old, c[h])[i]
    BY <1>6, <1>8
  <2> QED  BY <1>2, <1>8, <2>1, Low!SeqSame
<1> QED  BY <1>7, <1>9 DEF old, same, new, Grown

\* The place behind a place of the ring.
Behind(t) == IF t < FifoDim - 1 THEN t + 1 ELSE 0
\* A block at t, and at most a ring of them from there on.
Filled(t, n) == t \in 0 .. FifoDim - 1 /\ n \in 1 .. FifoDim
\* The ring c has the blocks of the ring a behind the first one.
Shrunk(a, c, t, n) ==
  /\ RingOf(a, t, n) = <<a[t]>> \o RingOf(a, Behind(t), n - 1)
  /\ RingOf(c, Behind(t), n - 1) = RingOf(a, Behind(t), n - 1)
  /\ Behind(t) \in 0 .. FifoDim - 1 /\ Wrapped(Behind(t) + (n - 1), FifoDim) = Wrapped(t + n, FifoDim)
\* A ring is its first block and the ring behind it, which does not see that block.
LEMMA RingFirst ==
  ASSUME NEW a \in Rings, NEW c \in Rings, NEW t, NEW n, Filled(t, n), SameBut(a, c, t)
  PROVE  Shrunk(a, c, t, n)
<1> DEFINE all == RingOf(a, t, n)
           rest == RingOf(a, Behind(t), n - 1)
           same == RingOf(c, Behind(t), n - 1)
<1>0. /\ a \in [0 .. FifoDim - 1 -> Blocks] /\ c \in [0 .. FifoDim - 1 -> Blocks]
      /\ t \in 0 .. FifoDim - 1 /\ n \in 1 .. FifoDim
  BY DEF Rings, Filled
<1>1. /\ n \in 0 .. FifoDim /\ n - 1 \in 0 .. FifoDim /\ n - 1 \in Nat /\ Behind(t) \in 0 .. FifoDim - 1
      /\ Wrapped(Behind(t) + (n - 1), FifoDim) = Wrapped(t + n, FifoDim)
  BY <1>0, ExFatSizes DEF Wrapped, Behind
<1>2. /\ all \in Seq(Blocks) /\ Len(all) = n /\ \A i \in 1 .. n : all[i] = a[Wrapped(t + i - 1, FifoDim)]
      /\ rest \in Seq(Blocks) /\ Len(rest) = n - 1 /\ same \in Seq(Blocks) /\ Len(same) = n - 1
      /\ \A i \in 1 .. n - 1 : /\ rest[i] = a[Wrapped(Behind(t) + i - 1, FifoDim)]
                               /\ same[i] = c[Wrapped(Behind(t) + i - 1, FifoDim)]
                               /\ Wrapped(Behind(t) + i - 1, FifoDim) \in 0 .. FifoDim - 1
  <2>1. all \in Seq(Blocks) /\ Len(all) = n /\ \A i \in 1 .. n : all[i] = a[Wrapped(t + i - 1, FifoDim)]
    BY <1>0, <1>1, RingItems
  <2>2. /\ rest \in Seq(Blocks) /\ Len(rest) = n - 1
        /\ \A i \in 1 .. n - 1 : rest[i] = a[Wrapped(Behind(t) + i - 1, FifoDim)]
    BY <1>0, <1>1, RingItems
  <2>3. /\ same \in Seq(Blocks) /\ Len(same) = n - 1
        /\ \A i \in 1 .. n - 1 : /\ same[i] = c[Wrapped(Behind(t) + i - 1, FifoDim)]
                                 /\ Wrapped(Behind(t) + i - 1, FifoDim) \in 0 .. FifoDim - 1
    BY <1>0, <1>1, RingItems
  <2> HIDE DEF all, rest, same
  <2> QED  BY <2>1, <2>2, <2>3
<1>3. \A i \in 1 .. n - 1 : Wrapped(Behind(t) + i - 1, FifoDim) # t
  BY <1>0, ExFatSizes DEF Wrapped, Behind
<1>4. \A i \in 2 .. n : Wrapped(t + i - 1, FifoDim) = Wrapped(Behind(t) + (i - 1) - 1, FifoDim)
  BY <1>0, ExFatSizes DEF Wrapped, Behind
<1>5. Wrapped(t + 1 - 1, FifoDim) = t /\ 1 \in 1 .. n
  BY <1>0, ExFatSizes DEF Wrapped
<1> HIDE DEF all, rest, same
<1>6. same = rest
  <2>1. \A i \in 1 .. n - 1 : same[i] = rest[i]
    BY <1>2, <1>3 DEF SameBut
  <2> QED  BY <1>2, <2>1, Low!SeqSame
<1>7. a[t] \in Blocks /\ <<a[t]>> \in Seq(Blocks) /\ Len(<<a[t]>>) = 1 /\ <<a[t]>>[1] = a[t]
  BY <1>0
<1> DEFINE both == <<a[t]>> \o rest
<1>8. both \in Seq(Blocks) /\ Len(both) = n /\ \A i \in 1 .. n : both[i] = IF i = 1 THEN a[t] ELSE rest[i - 1]
  <2>1. <<a[t]>> \in Seq(Blocks) /\ rest \in Seq(Blocks)
    BY <1>2, <1>7
  <2>2. /\ both \in Seq(Blocks) /\ Len(both) = Len(<<a[t]>>) + Len(rest)
        /\ \A i \in 1 .. Len(<<a[t]>>) + Len(rest) : both[i] = IF i <= Len(<<a[t]>>) THEN <<a[t]>>[i] ELSE rest[i - Len(<<a[t]>>)]
    BY <2>1, Low!ConcatItems
  <2>3. 1 + (n - 1) = n
    BY <1>0
  <2> HIDE DEF both
  <2>4. both \in Seq(Blocks) /\ Len(both) = n /\ \A i \in 1 .. n : both[i] = IF i <= 1 THEN <<a[t]>>[i] ELSE rest[i - 1]
    BY <1>2, <1>7, <2>2, <2>3
  <2> QED  BY <1>7, <2>4
<1> HIDE DEF both
<1>9. \A i \in 1 .. n : all[i] = both[i]
  <2> TAKE i \in 1 .. n
  <2>0. all[i] = a[Wrapped(t + i - 1, FifoDim)] /\ both[i] = IF i = 1 THEN a[t] ELSE rest[i - 1]
    BY <1>2, <1>8
  <2>1. CASE i = 1
    BY <1>5, <2>0, <2>1
  <2>2. CASE i # 1
    <3>1. i \in 2 .. n /\ i - 1 \in 1 .. n - 1
      BY <1>0, <2>2
    <3>2. rest[i - 1] = a[Wrapped(Behind(t) + (i - 1) - 1, FifoDim)]
      BY <1>2, <3>1
    <3>3. Wrapped(t + i - 1, FifoDim) = Wrapped(Behind(t) + (i - 1) - 1, FifoDim)
      BY <1>4, <3>1
    <3> HIDE DEF Wrapped
    <3> QED  BY <2>0, <2>2, <3>2, <3>3
  <2> QED  BY <2>1, <2>2
<1>10. all = both
  BY <1>2, <1>8, <1>9, Low!SeqSame
<1> QED  BY <1>1, <1>6, <1>10 DEF all, rest, same, both, Shrunk

\* It starts so.
LEMMA ExFatStarts == ASSUME ExFat!Init PROVE ExFatInv
<1>1. fifo \in [0 .. FifoDim - 1 -> Blocks]
  BY DEF ExFat!Init, ExFat!Blank, ExFat!Block, Blocks, Low!Blocks
<1>2. RingOf(fifo, 0, 0) = <<>> /\ <<>> \in Seq(Blocks) /\ <<>> \o <<>> = <<>>
  BY DEF RingOf
<1>3. Ticks(<<>>) = 0
  BY <1>2, TicksFacts
<1>4. InTime(<<>>)
  BY DEF InTime
<1> QED  BY <1>1, <1>2, <1>3, <1>4, ExFatSizes DEF ExFat!Init, ExFatInv, Wrapped

\* The number of records that are written.
LEMMA ExFatWritten ==
  ASSUME ExFatInv, NEW head \in 0 .. FifoDim - 1, NEW count \in 1 .. FifoDim,
         Wrapped(fifoTail + count, FifoDim) = head
  PROVE  ExFat!Written(head, count) \in 1 .. count /\ fifoTail + ExFat!Written(head, count) <= FifoDim
<1> DEFINE a == MaxWrite
           b == IF head > fifoTail THEN count ELSE FifoDim - fifoTail
           m == CHOOSE x \in {a, b} : \A y \in {a, b} : x <= y
<1>1. fifoTail \in 0 .. FifoDim - 1
  BY DEF ExFatInv
<1>2. b \in 1 .. count /\ fifoTail + b <= FifoDim
  BY <1>1, ExFatSizes DEF Wrapped
<1>3. ExFat!Written(head, count) = m
  BY DEF ExFat!Written, ExFat!Min
<1> HIDE DEF b
<1>4. \E x \in {a, b} : \A y \in {a, b} : x <= y
  BY <1>2, ExFatSizes
<1>5. m \in {a, b} /\ \A y \in {a, b} : m <= y
  BY <1>4
<1> HIDE DEF m
<1> QED  BY <1>1, <1>2, <1>3, <1>5, ExFatSizes

\* A pass of the loop: a record is sampled or counted, some are written.
LEMMA ExFatLoop == ASSUME ExFatInv, NEW busy \in BOOLEAN, ExFat!Loop(busy) PROVE ExFatInv'
<1> DEFINE room == fifoCount < FifoDim
           rec == ExFat!LogRecord(over)
           a == IF room THEN [fifo EXCEPT ![fifoHead] = rec] ELSE fifo
           head == IF ~room THEN fifoHead ELSE IF fifoHead < FifoDim - 1 THEN fifoHead + 1 ELSE 0
           count == IF room THEN fifoCount + 1 ELSE fifoCount
           nw == ExFat!Written(head, count)
<1>1. /\ tick \in Nat /\ file \in Seq(Blocks) /\ fifo \in [0 .. FifoDim - 1 -> Blocks] /\ over \in Nat
      /\ fifoHead \in 0 .. FifoDim - 1 /\ fifoTail \in 0 .. FifoDim - 1 /\ fifoCount \in 0 .. FifoDim
      /\ Wrapped(fifoTail + fifoCount, FifoDim) = fifoHead
      /\ Ticks(file \o RingOf(fifo, fifoTail, fifoCount)) + over = tick
      /\ InTime(file \o RingOf(fifo, fifoTail, fifoCount))
  BY DEF ExFatInv
<1>2. /\ tick' = tick + 1 /\ fifo' = a /\ fifoHead' = head /\ over' = IF room THEN 0 ELSE over + 1
      /\ busy => fifoCount' = count /\ UNCHANGED <<fifoTail, file, pc>>
      /\ ~busy => /\ file' = file \o [i \in 1 .. nw |-> a[fifoTail + i - 1]]
                  /\ fifoTail' = IF fifoTail + nw < FifoDim THEN fifoTail + nw ELSE 0
                  /\ fifoCount' = count - nw /\ pc' \in {"loop", "end"}
      /\ pc = "loop"
  BY DEF ExFat!Loop
<1>3. rec \in Blocks /\ TicksOf(rec) = over + 1
  <2>1. <<tick>> \in Seq(Int) /\ Len(<<tick>>) = 1 /\ <<>> \in Seq(Int) /\ Len(<<>>) = 0
    BY <1>1
  <2> QED  BY <1>1, <2>1 DEF ExFat!LogRecord, ExFat!Block, Blocks, Low!Blocks, TicksOf
<1>5. (over # 0 => Len(rec.data) = 0) /\ (over = 0 => rec.overrun = 0 /\ Len(rec.data) = 1 /\ rec.data[1] = tick)
  <2>1. Len(<<tick>>) = 1 /\ <<tick>>[1] = tick /\ Len(<<>>) = 0
    OBVIOUS
  <2> QED  BY <1>1, <2>1 DEF ExFat!LogRecord, ExFat!Block
<1>4. /\ a \in [0 .. FifoDim - 1 -> Blocks] /\ head \in 0 .. FifoDim - 1 /\ count \in 1 .. FifoDim
      /\ Wrapped(fifoTail + count, FifoDim) = head
  <2>1. a \in [0 .. FifoDim - 1 -> Blocks]
    BY <1>1, <1>3
  <2>2. head \in 0 .. FifoDim - 1 /\ count \in 1 .. FifoDim /\ Wrapped(fifoTail + count, FifoDim) = head
    BY <1>1, ExFatSizes DEF Wrapped
  <2> QED  BY <2>1, <2>2
<1> HIDE DEF rec
<1>6. /\ Ticks(file \o RingOf(a, fifoTail, count)) + (IF room THEN 0 ELSE over + 1) = tick + 1
      /\ InTime(file \o RingOf(a, fifoTail, count))
  <2>1. CASE room
    <3> DEFINE old == RingOf(fifo, fifoTail, fifoCount)
               new == RingOf(a, fifoTail, fifoCount + 1)
    <3>1. fifoCount \in 0 .. FifoDim - 1 /\ fifoCount + 1 \in 0 .. FifoDim
      BY <1>1, <2>1, ExFatSizes
    <3>2. a[fifoHead] = rec /\ \A i \in 0 .. FifoDim - 1 : i # fifoHead => a[i] = fifo[i]
      BY <1>1, <2>1
    <3>3. old \in Seq(Blocks)
      BY <1>1, RingItems
    <3> HIDE DEF a
    <3>6. new = Append(old, rec)
      <4>1. RingOf(a, fifoTail, fifoCount + 1) = Append(RingOf(fifo, fifoTail, fifoCount), a[fifoHead])
        <5>1. fifo \in Rings /\ a \in Rings
          BY <1>1, <1>4 DEF Rings
        <5>2. Room(fifoTail, fifoCount, fifoHead)
          BY <1>1, <3>1 DEF Room
        <5>3. SameBut(fifo, a, fifoHead)
          BY <3>2 DEF SameBut
        <5>4. Grown(fifo, a, fifoTail, fifoCount, fifoHead)
          BY ONLY <5>1, <5>2, <5>3, RingAppend
        <5> QED  BY <5>4 DEF Grown
      <4> QED  BY <3>2, <4>1
    <3> HIDE DEF old, new
    <3>7. file \o new = Append(file \o old, rec) /\ file \o old \in Seq(Blocks)
      <4>1. file \in Seq(Blocks) /\ old \in Seq(Blocks) /\ rec \in Blocks
        BY <1>1, <1>3, <3>3
      <4>2. file \o Append(old, rec) = Append(file \o old, rec) /\ file \o old \in Seq(Blocks)
        BY ONLY <4>1
      <4> QED  BY <3>6, <4>2
    <3>8. Ticks(file \o new) = Ticks(file \o old) + TicksOf(rec) /\ Ticks(file \o old) \in Nat
      BY <3>7, <1>3, TicksFacts
    <3>9. Ticks(file \o new) + 0 = tick + 1
      BY <3>8, <1>1, <1>3 DEF old
    <3>10. InTime(file \o new)
      <4>1. Ticks(file \o old) + over = tick /\ InTime(file \o old)
        BY <1>1 DEF old
      <4>2. InTimeAfter(file \o old, rec)
        BY <1>1, <1>5, <3>8, <4>1 DEF InTimeAfter
      <4> QED  BY <1>3, <3>7, <4>1, <4>2, InTimeAppend
    <3> QED  BY <2>1, <3>9, <3>10 DEF new
  <2>2. CASE ~room
    <3>1. file \o RingOf(fifo, fifoTail, fifoCount) \in Seq(Blocks)
      BY <1>1, RingItems
    <3>2. Ticks(file \o RingOf(fifo, fifoTail, fifoCount)) \in Nat
      BY <3>1, TicksFacts
    <3> QED  BY <2>2, <1>1, <3>2
  <2> QED  BY <2>1, <2>2
<1>7. CASE busy
  <2> HIDE DEF a, head
  <2>1. fifoCount' = count /\ UNCHANGED <<fifoTail, file, pc>>
    BY <1>2, <1>7
  <2>2. count \in 0 .. FifoDim /\ (IF room THEN 0 ELSE over + 1) \in Nat
    BY <1>1, <1>4
  <2> HIDE DEF room, count
  <2> QED  BY <1>1, <1>2, <1>4, <1>6, <2>1, <2>2 DEF ExFatInv
<1>8. CASE ~busy
  <2>1. nw \in 1 .. count /\ fifoTail + nw <= FifoDim
    BY <1>4, ExFatWritten
  <2> HIDE DEF a, head, nw
  <2> DEFINE out == [i \in 1 .. nw |-> a[fifoTail + i - 1]]
             t == IF fifoTail + nw < FifoDim THEN fifoTail + nw ELSE 0
             rest == RingOf(a, t, count - nw)
             all == RingOf(a, fifoTail, count)
  <2>2. file' = file \o out /\ fifoTail' = t /\ fifoCount' = count - nw /\ pc' \in {"loop", "end"}
    BY <1>2, <1>8
  <2>3. /\ t \in 0 .. FifoDim - 1 /\ count - nw \in 0 .. FifoDim /\ Wrapped(t + (count - nw), FifoDim) = head
        /\ \A i \in 1 .. count : Wrapped(fifoTail + i - 1, FifoDim)
                                = IF i <= nw THEN fifoTail + i - 1 ELSE Wrapped(t + (i - nw) - 1, FifoDim)
    BY <1>1, <1>4, <2>1, ExFatSizes DEF Wrapped
  <2>4. out \in Seq(Blocks) /\ Len(out) = nw /\ \A i \in 1 .. nw : out[i] = a[fifoTail + i - 1]
    <3>1. \A i \in 1 .. nw : fifoTail + i - 1 \in 0 .. FifoDim - 1
      BY <1>1, <2>1, ExFatSizes
    <3>2. nw \in Nat
      BY <2>1
    <3> QED  BY <1>4, <3>1, <3>2
  <2>5. /\ rest \in Seq(Blocks) /\ Len(rest) = count - nw
        /\ \A i \in 1 .. count - nw : rest[i] = a[Wrapped(t + i - 1, FifoDim)]
    BY <1>4, <2>3, RingItems
  <2>6. /\ all \in Seq(Blocks) /\ Len(all) = count
        /\ \A i \in 1 .. count : all[i] = a[Wrapped(fifoTail + i - 1, FifoDim)]
    <3>1. count \in 0 .. FifoDim
      BY <1>4
    <3> HIDE DEF count
    <3> QED  BY <1>1, <1>4, <3>1, RingItems
  <2>7. count \in Nat /\ nw \in 1 .. count
    BY <1>4, <2>1
  <2> HIDE DEF out, t, rest, all, count
  <2>8. out \o rest = all
    <3>1. out \o rest \in Seq(Blocks) /\ Len(out \o rest) = count
          /\ \A i \in 1 .. count : (out \o rest)[i] = IF i <= nw THEN out[i] ELSE rest[i - nw]
      BY <2>4, <2>5, <2>7, Low!ConcatItems
    <3>2. \A i \in 1 .. count : (out \o rest)[i] = all[i]
      <4> TAKE i \in 1 .. count
      <4>1. CASE i <= nw
        <5>1. i \in 1 .. nw
          BY <4>1, <2>7
        <5>2. all[i] = a[fifoTail + i - 1]
          BY <4>1, <2>3, <2>6
        <5> QED  BY <4>1, <5>1, <5>2, <3>1, <2>4
      <4>2. CASE ~(i <= nw)
        <5>1. i - nw \in 1 .. count - nw
          BY <4>2, <2>7
        <5> QED  BY <4>2, <5>1, <3>1, <2>3, <2>5, <2>6, <2>7
      <4> QED  BY <4>1, <4>2
    <3> QED  BY <2>6, <3>1, <3>2, Low!SeqSame
  <2>9. file' \in Seq(Blocks) /\ file' \o rest = file \o all
    <3>0. file \in Seq(Blocks) /\ out \in Seq(Blocks) /\ rest \in Seq(Blocks)
      BY <1>1, <2>4, <2>5
    <3>1. (file \o out) \o rest = file \o (out \o rest)
      BY ONLY <3>0, SMTT(30)
    <3> QED  BY <2>2, <2>8, <3>1, <1>1, <2>4
  <2>10. Ticks(file' \o RingOf(fifo', fifoTail', fifoCount')) + over' = tick' /\ InTime(file' \o RingOf(fifo', fifoTail', fifoCount'))
    BY <1>2, <1>6, <2>2, <2>9 DEF rest, all
  <2>11. over' \in Nat /\ tick' \in Nat /\ fifo' \in [0 .. FifoDim - 1 -> Blocks]
    BY <1>1, <1>2, <1>4
  <2> QED  BY <1>2, <1>4, <2>2, <2>3, <2>9, <2>10, <2>11 DEF ExFatInv
<1> QED  BY <1>7, <1>8

\* Every step keeps the invariant.
LEMMA ExFatSteps == ASSUME ExFatInv, ExFat!Next \/ UNCHANGED vars PROVE ExFatInv'
<1>1. CASE UNCHANGED vars \/ ExFat!Type \/ ExFat!End
  <2>1. UNCHANGED <<tick, file, fifo, fifoHead, fifoTail, fifoCount, over>> /\ pc' \in {"loop", "end", "done"}
    BY <1>1 DEF vars, common, ring, ExFat!Type, ExFat!End, ExFatInv
  <2> QED  BY <2>1 DEF ExFatInv
<1> QED  BY <1>1, ExFatLoop DEF ExFat!Next, ExFat!Step

\* What is read back is in time.
LEMMA ExFatTimes == ASSUME ExFatInv PROVE InTime(Csv("ExFat", file)) /\ ReadersAgree("ExFat", file)
<1>1. file \in Seq(Blocks) /\ RingOf(fifo, fifoTail, fifoCount) \in Seq(Blocks) /\ InTime(file \o RingOf(fifo, fifoTail, fifoCount))
  BY RingItems DEF ExFatInv
<1>2. InTime(file)
  BY <1>1, InTimePrefix
<1> QED  BY <1>1, <1>2, TextRight, ExFatReads

\* The invariant implies what is promised.
LEMMA ExFatSafe == ASSUME ExFatInv PROVE ExFat!Accounted
<1>1. /\ fifoHead \in 0 .. FifoDim - 1 /\ fifoTail \in 0 .. FifoDim - 1 /\ fifoCount \in 0 .. FifoDim
      /\ Wrapped(fifoTail + fifoCount, FifoDim) = fifoHead
      /\ Ticks(file \o RingOf(fifo, fifoTail, fifoCount)) + over = tick
  BY DEF ExFatInv
<1>2. \A x \in 0 .. 2 * FifoDim - 1 : x % FifoDim = Wrapped(x, FifoDim)
  BY ExFatSizes, Wraps
<1>3. (fifoTail + fifoCount) % FifoDim = fifoHead % FifoDim
  <2>1. fifoTail + fifoCount \in 0 .. 2 * FifoDim - 1 /\ fifoHead \in 0 .. 2 * FifoDim - 1
    BY <1>1, ExFatSizes
  <2>2. Wrapped(fifoHead, FifoDim) = fifoHead
    BY <1>1, ExFatSizes DEF Wrapped
  <2> QED  BY <1>1, <1>2, <2>1, <2>2
<1>4. [i \in 1 .. fifoCount |-> fifo[(fifoTail + i - 1) % FifoDim]] = RingOf(fifo, fifoTail, fifoCount)
  <2>1. \A i \in 1 .. fifoCount : fifoTail + i - 1 \in 0 .. 2 * FifoDim - 1
    BY <1>1, ExFatSizes
  <2>2. \A i \in 1 .. fifoCount : fifo[(fifoTail + i - 1) % FifoDim] = fifo[Wrapped(fifoTail + i - 1, FifoDim)]
    BY <1>2, <2>1
  <2> QED  BY <2>2 DEF RingOf
<1> QED  BY <1>1, <1>3, <1>4, TicksAlike DEF ExFat!Accounted
-----------------------------------------------------------------------------
(* AvrAdcLogger.                                                           *)

\* How far a block of the ring is behind fifoTail.
Place(b, t) == Wrapped(b - t + FifoDim, FifoDim)
\* The blocks in use; one that is given back is still counted.
Used == fifoCount - (IF pc = "back" THEN 1 ELSE 0)
\* What the variables hold.
AdcTypes ==
  /\ tick \in Nat /\ typed \in BOOLEAN /\ pc \in {"loop", "clear", "back", "serial", "count", "active", "done"}
  /\ file \in Seq(Blocks) /\ adc \in BOOLEAN /\ isrStop \in BOOLEAN /\ isrOver \in Nat
  /\ fifo \in [0 .. FifoDim - 1 -> Blocks] /\ isrBuf \in -1 .. FifoDim - 1
  /\ fifoHead \in 0 .. FifoDim - 1 /\ fifoTail \in 0 .. FifoDim - 1 /\ fifoCount \in 0 .. FifoDim
\* The blocks from fifoTail on are full, all others blank but the one of the interrupt.
AdcRing ==
  /\ Wrapped(fifoTail + Used, FifoDim) = fifoHead
  /\ \A b \in 0 .. FifoDim - 1 : IF Place(b, fifoTail) < Used THEN Len(fifo[b].data) >= DataDim
                                 ELSE fifo[b] # Blank => b = isrBuf
  /\ pc \in {"clear", "back"} => fifoCount > 0
  /\ adc /\ isrBuf # -1 => isrBuf = fifoHead /\ fifoCount < FifoDim
\* What is left when the ADC has stopped.
AdcEnd ==
  /\ pc # "done" /\ ~adc => isrStop
  /\ pc = "active" /\ isrStop => fifoCount < IF adc THEN 1 ELSE 2
  /\ pc = "done" => ~adc /\ (Len(file) < FileBlocks => fifoCount < 2)
\* The first full block that is not written: the one at fifoTail may be written and not yet be given back.
AdcFirst == IF pc = "clear" THEN AvrAdc!After(fifoTail) ELSE fifoTail
\* How many they are.
AdcLeft == IF pc \in {"clear", "back"} THEN fifoCount - 1 ELSE fifoCount
\* They are a sequence.
AdcQueue == RingOf(fifo, AdcFirst, AdcLeft)
\* The block in the hand of the interrupt; one that it keeps when it has stopped is in the ring.
AdcHand == IF adc /\ isrBuf # -1 THEN <<fifo[isrBuf]>> ELSE <<>>
\* The log when all is written.
AdcLog == (file \o AdcQueue) \o AdcHand
\* It will be in order; no empty block is written.
AdcOrder ==
  /\ Sampled(Samples(AdcLog), tick)
  /\ \A k \in 1 .. Len(file) : file[k].data # <<>>
\* The invariant.
AdcInv == AdcTypes /\ AdcRing /\ AdcEnd /\ AdcOrder

\* The sizes are positive numbers.
LEMMA AdcSizes == FifoDim \in Nat /\ FifoDim > 0 /\ DataDim \in Nat /\ DataDim > 0
BY BoundsAssumption

\* A blank block is a block.
LEMMA AdcBlank == Blank \in Blocks /\ Blank = AvrAdc!Blank /\ Len(Blank.data) = 0 /\ Blank.data = <<>>
<1>1. <<>> \in Seq(Int) /\ Len(<<>>) = 0
  OBVIOUS
<1> QED  BY <1>1 DEF Blank, Block, AvrAdc!Blank, AvrAdc!Block, Blocks, Low!Blocks

\* What is left in the ring ends where the interrupt goes on.
LEMMA AdcPlaces ==
  ASSUME AdcInv
  PROVE  /\ AdcFirst \in 0 .. FifoDim - 1 /\ AdcLeft \in 0 .. fifoCount /\ fifoHead = Wrapped(AdcFirst + AdcLeft, FifoDim)
         /\ fifo \in Rings /\ file \in Seq(Blocks) /\ AdcQueue \in Seq(Blocks) /\ AdcHand \in Seq(Blocks)
         /\ file \o AdcQueue \in Seq(Blocks) /\ AdcLog \in Seq(Blocks)
<1>1. AdcTypes /\ AdcRing
  BY DEF AdcInv
<1>2. AdcFirst \in 0 .. FifoDim - 1 /\ AdcLeft \in 0 .. fifoCount /\ fifoHead = Wrapped(AdcFirst + AdcLeft, FifoDim)
  <2>1. CASE pc = "clear"
    <3>1. AdcFirst = (IF fifoTail < FifoDim - 1 THEN fifoTail + 1 ELSE 0) /\ AdcLeft = fifoCount - 1 /\ Used = fifoCount
      BY <1>1, <2>1 DEF AdcFirst, AdcLeft, Used, AdcTypes, AvrAdc!After
    <3>2. fifoCount > 0
      BY <1>1, <2>1 DEF AdcRing
    <3> QED  BY <1>1, <3>1, <3>2, AdcSizes DEF AdcTypes, AdcRing, Wrapped
  <2>2. CASE pc # "clear"
    <3>1. AdcFirst = fifoTail /\ AdcLeft = Used
      BY <1>1, <2>2 DEF AdcFirst, AdcLeft, Used, AdcTypes
    <3>2. pc = "back" => fifoCount > 0
      BY <1>1 DEF AdcRing
    <3> QED  BY <1>1, <3>1, <3>2, AdcSizes DEF AdcTypes, AdcRing, Used
  <2> QED  BY <2>1, <2>2
<1>3. AdcQueue \in Seq(Blocks)
  <2>1. AdcLeft \in 0 .. FifoDim /\ fifo \in [0 .. FifoDim - 1 -> Blocks]
    BY <1>1, <1>2, AdcSizes DEF AdcTypes
  <2> QED  BY <1>2, <2>1, RingItems DEF AdcQueue
<1>4. AdcHand \in Seq(Blocks)
  <2>1. isrBuf # -1 => isrBuf \in 0 .. FifoDim - 1
    BY <1>1, AdcSizes DEF AdcTypes
  <2>2. isrBuf # -1 => fifo[isrBuf] \in Blocks
    BY <1>1, <2>1 DEF AdcTypes
  <2> QED  BY <2>2 DEF AdcHand
<1>5. fifo \in Rings /\ file \in Seq(Blocks)
  BY <1>1 DEF AdcTypes, Rings
<1>6. file \o AdcQueue \in Seq(Blocks)
  BY <1>3, <1>5
<1>7. AdcLog \in Seq(Blocks)
  BY <1>4, <1>6 DEF AdcLog
<1> QED  BY <1>2, <1>3, <1>4, <1>5, <1>6, <1>7

\* It starts so.
LEMMA AdcStarts == ASSUME AvrAdc!Init PROVE AdcInv
<1>1. fifo = [b \in 0 .. FifoDim - 1 |-> Blank] /\ fifo \in [0 .. FifoDim - 1 -> Blocks]
  BY AdcBlank DEF AvrAdc!Init
<1>2. AdcTypes
  BY <1>1, AdcSizes DEF AvrAdc!Init, AdcTypes
<1>3. fifoCount = 0 /\ fifoTail = 0 /\ fifoHead = 0 /\ isrBuf = -1 /\ pc = "loop"
  BY DEF AvrAdc!Init
<1>4. Used = 0
  BY <1>3 DEF Used
<1>5. AdcRing
  BY <1>1, <1>3, <1>4, AdcSizes DEF AdcRing, Place, Wrapped
<1>6. AdcEnd
  BY DEF AvrAdc!Init, AdcEnd
<1>7. AdcOrder
  <2>1. file = <<>> /\ AdcQueue = <<>> /\ AdcHand = <<>>
    BY <1>3 DEF AvrAdc!Init, AdcQueue, AdcLeft, AdcHand, RingOf
  <2>2. AdcLog = <<>>
    BY <2>1 DEF AdcLog
  <2>3. Samples(<<>>) = <<>>
    BY <1>2, SamplesFacts DEF AdcTypes
  <2> QED  BY <2>1, <2>2, <2>3 DEF AdcOrder, Sampled
<1> QED  BY <1>2, <1>5, <1>6, <1>7 DEF AdcInv

\* A sample that finds no block is counted.
LEMMA AdcOverrun == ASSUME AdcInv, AvrAdc!Overrun PROVE AdcInv'
<1>1. /\ tick' = tick + 1 /\ isrOver' = isrOver + 1
      /\ UNCHANGED <<typed, pc, file, adc, fifo, fifoHead, fifoTail, fifoCount, isrBuf, isrStop>>
  BY DEF AvrAdc!Overrun
<1>2. Used' = Used
  BY <1>1 DEF Used
<1>3. AdcTypes' /\ AdcRing' /\ AdcEnd'
  BY <1>1, <1>2 DEF AdcInv, AdcTypes, AdcRing, AdcEnd
<1>4. AdcLog' = AdcLog
  BY <1>1 DEF AdcLog, AdcQueue, AdcFirst, AdcLeft, AdcHand, AvrAdc!After
<1>5. AdcOrder'
  <2>1. Samples(AdcLog) \in Seq(Int)
    BY AdcPlaces, SamplesFacts
  <2>2. Sampled(Samples(AdcLog), tick) /\ tick \in Int
    BY DEF AdcInv, AdcOrder, AdcTypes
  <2>3. Sampled(Samples(AdcLog), tick + 1)
    BY <2>1, <2>2, SampledFacts
  <2> QED  BY <1>1, <1>4, <2>3 DEF AdcInv, AdcOrder
<1> QED  BY <1>3, <1>5 DEF AdcInv

\* The interrupt fills its block and puts a full one into the ring.
LEMMA AdcSample == ASSUME AdcInv, AvrAdc!Sample PROVE AdcInv'
<1> DEFINE b == IF isrBuf = -1 THEN fifoHead ELSE isrBuf
           more == [fifo[b] EXCEPT !.data = Append(@, tick)]
           closes == Len(more.data) >= DataDim
<1>1. AdcTypes /\ AdcRing /\ AdcEnd
  BY DEF AdcInv
<1>2. /\ adc /\ (isrBuf = -1 => fifoCount < FifoDim) /\ tick' = tick + 1 /\ fifo' = [fifo EXCEPT ![b] = more]
      /\ fifoHead' = IF closes THEN IF fifoHead < FifoDim - 1 THEN fifoHead + 1 ELSE 0 ELSE fifoHead
      /\ fifoCount' = IF closes THEN fifoCount + 1 ELSE fifoCount
      /\ adc' = ~(closes /\ isrStop) /\ isrBuf' = (IF closes /\ ~isrStop THEN -1 ELSE b) /\ isrOver' \in {0, isrOver}
      /\ UNCHANGED <<typed, pc, file, fifoTail, isrStop>>
  <2>1. /\ adc /\ (isrBuf = -1 => fifoCount < FifoDim) /\ tick' = tick + 1 /\ fifo' = [fifo EXCEPT ![b] = more]
        /\ UNCHANGED <<typed, pc, file, fifoTail, isrStop>>
    BY DEF AvrAdc!Sample
  <2>2. adc = TRUE /\ isrStop \in BOOLEAN /\ closes \in BOOLEAN
    BY <1>1, <2>1 DEF AdcTypes
  <2>3. CASE closes
    <3>1. /\ fifoHead' = (IF fifoHead < FifoDim - 1 THEN fifoHead + 1 ELSE 0) /\ fifoCount' = fifoCount + 1
          /\ isrStop => adc' = FALSE /\ isrBuf' = b /\ isrOver' = isrOver
          /\ ~isrStop => isrBuf' = -1 /\ isrOver' = 0 /\ adc' = adc
      BY <2>3 DEF AvrAdc!Sample, AvrAdc!Full, AvrAdc!Obeyed, AvrAdc!After
    <3> HIDE DEF closes, b, more
    <3> QED  BY <2>1, <2>2, <2>3, <3>1
  <2>4. CASE ~closes
    <3>1. isrBuf' = b /\ UNCHANGED <<fifoHead, fifoCount, adc, isrOver>>
      BY <2>4 DEF AvrAdc!Sample, AvrAdc!Full
    <3> HIDE DEF closes, b, more
    <3> QED  BY <2>1, <2>2, <2>4, <3>1
  <2> QED  BY <2>3, <2>4
<1>3. b = fifoHead /\ fifoCount < FifoDim
  BY <1>1, <1>2 DEF AdcRing
<1>4. b \in 0 .. FifoDim - 1 /\ fifo[b] \in Blocks /\ tick \in Nat
  BY <1>1, <1>3 DEF AdcTypes
<1>5. more \in Blocks /\ more # Blank
  <2>1. Append(fifo[b].data, tick) \in Seq(Int) /\ Len(Append(fifo[b].data, tick)) > 0
    BY <1>4 DEF Blocks, Low!Blocks
  <2>2. more = [overrun |-> fifo[b].overrun, data |-> Append(fifo[b].data, tick)] /\ fifo[b].overrun \in Nat
    <3>1. \A r \in Blocks : \A d : [r EXCEPT !.data = d] = [overrun |-> r.overrun, data |-> d] /\ r.overrun \in Nat
      BY DEF Blocks, Low!Blocks
    <3> HIDE DEF b
    <3> QED  BY <1>4, <3>1
  <2> HIDE DEF b, more
  <2>3. more \in Blocks /\ Len(more.data) > 0
    BY <2>1, <2>2 DEF Blocks, Low!Blocks
  <2> QED  BY <2>3, AdcBlank
<1>0. closes \in BOOLEAN
  OBVIOUS
<1> HIDE DEF more, b, closes
<1>6. fifo' \in [0 .. FifoDim - 1 -> Blocks] /\ \A i \in 0 .. FifoDim - 1 : fifo'[i] = IF i = b THEN more ELSE fifo[i]
  BY <1>1, <1>2, <1>4, <1>5 DEF AdcTypes
<1>7. AdcTypes'
  <2>1. fifoHead' \in 0 .. FifoDim - 1 /\ fifoCount' \in 0 .. FifoDim /\ isrBuf' \in -1 .. FifoDim - 1
    BY <1>0, <1>1, <1>2, <1>3, <1>4, AdcSizes DEF AdcTypes
  <2>2. adc' \in BOOLEAN /\ tick' \in Nat /\ isrOver' \in Nat
    BY <1>0, <1>1, <1>2 DEF AdcTypes
  <2> QED  BY <1>1, <1>2, <1>6, <2>1, <2>2 DEF AdcTypes
<1>8. Used' = IF closes THEN Used + 1 ELSE Used
  BY <1>0, <1>1, <1>2 DEF Used, AdcTypes
<1>9. Used \in 0 .. FifoDim - 1
  BY <1>1, <1>3, AdcSizes DEF Used, AdcTypes, AdcRing
<1>10. Wrapped(fifoTail' + Used', FifoDim) = fifoHead'
  BY <1>0, <1>1, <1>2, <1>8, <1>9, AdcSizes DEF AdcRing, AdcTypes, Wrapped
<1>11. ASSUME NEW i \in 0 .. FifoDim - 1
       PROVE IF Place(i, fifoTail') < Used' THEN Len(fifo'[i].data) >= DataDim ELSE fifo'[i] # Blank => i = isrBuf'
  <2>1. Place(i, fifoTail) = Used <=> i = fifoHead
    BY <1>1, <1>9, AdcSizes DEF AdcRing, AdcTypes, Wrapped, Place
  <2>2. Place(i, fifoTail) \in Int /\ fifoTail' = fifoTail
    BY <1>1, <1>2, AdcSizes DEF AdcTypes, Wrapped, Place
  <2>3. IF Place(i, fifoTail) < Used THEN Len(fifo[i].data) >= DataDim ELSE fifo[i] # Blank => i = isrBuf
    BY <1>1 DEF AdcRing
  <2>4. isrBuf = -1 \/ isrBuf = b
    BY DEF b
  <2>5. -1 \notin 0 .. FifoDim - 1
    OBVIOUS
  <2>6. CASE i = b
    <3>1. Place(i, fifoTail) = Used
      BY <2>1, <2>6, <1>3
    <3>2. closes => Len(fifo'[i].data) >= DataDim
      BY <2>6, <1>6 DEF closes
    <3>3. i = isrBuf' \/ (closes /\ isrBuf' = -1)
      BY <1>0, <1>2, <2>6
    <3> QED  BY <1>0, <1>8, <1>9, <2>2, <3>1, <3>2, <3>3
  <2>7. CASE i # b
    <3>1. fifo'[i] = fifo[i] /\ Place(i, fifoTail) # Used
      BY <1>3, <1>6, <2>1, <2>7
    <3>2. Place(i, fifoTail) < Used' <=> Place(i, fifoTail) < Used
      BY <1>8, <1>9, <2>2, <3>1
    <3> QED  BY <2>2, <2>3, <2>4, <2>5, <2>7, <3>1, <3>2
  <2> QED  BY <2>6, <2>7
<1>12. AdcRing'
  <2>1. pc' \in {"clear", "back"} => fifoCount' > 0
    BY <1>0, <1>1, <1>2 DEF AdcRing, AdcTypes
  <2>2. adc' /\ isrBuf' # -1 => isrBuf' = fifoHead' /\ fifoCount' < FifoDim
    BY <1>0, <1>2, <1>3
  <2> QED  BY <1>10, <1>11, <2>1, <2>2 DEF AdcRing
<1>13. AdcEnd'
  <2>1. isrStop \in BOOLEAN /\ pc # "done"
    BY <1>1, <1>2 DEF AdcEnd, AdcTypes
  <2>2. ~adc' => isrStop'
    BY <1>0, <1>2, <2>1
  <2>3. pc' = "active" /\ isrStop' => fifoCount' < IF adc' THEN 1 ELSE 2
    <3>1. adc = TRUE /\ fifoCount \in Nat /\ (pc = "active" /\ isrStop => fifoCount < 1)
      BY <1>1, <1>2 DEF AdcEnd, AdcTypes
    <3>2. CASE pc = "active" /\ isrStop
      <4>1. fifoCount = 0
        BY <3>1, <3>2
      <4>2. closes => fifoCount' = 1 /\ adc' = FALSE
        <5>1. closes => fifoCount' = 1
          BY <1>2, <4>1
        <5>2. closes => ~adc'
          BY <1>2, <3>2
        <5>3. adc' = FALSE \/ adc' = TRUE
          BY <1>2
        <5> QED  BY <5>1, <5>2, <5>3
      <4>3. ~closes => fifoCount' = 0 /\ adc' = TRUE
        BY <1>2, <3>2, <4>1
      <4> QED  BY <1>0, <4>2, <4>3
    <3> QED  BY <3>2, <1>2
  <2> QED  BY <1>2, <2>1, <2>2, <2>3 DEF AdcEnd
<1>14. AdcOrder'
  <2> DEFINE s == file \o AdcQueue
             d == fifo[b].data
  <2>1. /\ AdcFirst \in 0 .. FifoDim - 1 /\ AdcLeft \in 0 .. fifoCount /\ fifoHead = Wrapped(AdcFirst + AdcLeft, FifoDim)
        /\ fifo \in Rings /\ AdcQueue \in Seq(Blocks) /\ s \in Seq(Blocks) /\ AdcLog \in Seq(Blocks)
    BY AdcPlaces
  <2>2. Room(AdcFirst, AdcLeft, fifoHead)
    BY <1>1, <1>3, <2>1, AdcSizes DEF Room, AdcTypes
  <2>3. fifo' \in Rings /\ SameBut(fifo, fifo', fifoHead) /\ fifo'[fifoHead] = more
    BY <1>3, <1>4, <1>6 DEF Rings, SameBut
  <2>4. Grown(fifo, fifo', AdcFirst, AdcLeft, fifoHead)
    BY <2>1, <2>2, <2>3, RingAppend
  <2>5. AdcFirst' = AdcFirst /\ AdcLeft' = (IF closes THEN AdcLeft + 1 ELSE AdcLeft)
    <3>1. pc' = pc /\ fifoTail' = fifoTail
      BY <1>2
    <3>2. AdcFirst' = AdcFirst
      BY <3>1 DEF AdcFirst, AvrAdc!After
    <3>3. fifoCount \in Int
      BY <1>1 DEF AdcTypes
    <3>4. AdcLeft' = (IF closes THEN AdcLeft + 1 ELSE AdcLeft)
      BY <1>2, <3>1, <3>3 DEF AdcLeft
    <3> QED  BY <3>2, <3>4
  <2>6. AdcQueue' = IF closes THEN Append(AdcQueue, more) ELSE AdcQueue
    <3>1. RingOf(fifo', AdcFirst, AdcLeft) = AdcQueue /\ RingOf(fifo', AdcFirst, AdcLeft + 1) = Append(AdcQueue, more)
      BY <2>3, <2>4 DEF Grown, AdcQueue
    <3>2. AdcQueue' = RingOf(fifo', AdcFirst', AdcLeft')
      BY DEF AdcQueue
    <3>3. closes => AdcLeft' = AdcLeft + 1
      BY <2>5
    <3>4. ~closes => AdcLeft' = AdcLeft
      BY <2>5
    <3>5. closes => AdcQueue' = Append(AdcQueue, more)
      BY <2>5, <3>1, <3>2, <3>3
    <3>6. ~closes => AdcQueue' = AdcQueue
      BY <2>5, <3>1, <3>2, <3>4
    <3> QED  BY <3>5, <3>6
  <2>7. AdcHand' = IF closes THEN <<>> ELSE <<more>>
    <3>1. closes => ~(adc' /\ isrBuf' # -1)
      BY <1>2
    <3>2. ~closes => adc' /\ isrBuf' = fifoHead /\ fifoHead # -1
      <4>1. isrBuf' = IF closes /\ ~isrStop THEN -1 ELSE b
        BY <1>2
      <4>2. ~closes => isrBuf' = b
        BY <4>1
      <4>3. ~closes => adc'
        BY <1>2
      <4>4. fifoHead # -1
        BY <1>3, <1>4
      <4> QED  BY <1>3, <4>2, <4>3, <4>4
    <3>3. closes => AdcHand' = <<>>
      BY <3>1 DEF AdcHand
    <3>4. ~closes => AdcHand' = <<more>>
      BY <3>2, <2>3 DEF AdcHand
    <3> QED  BY <3>3, <3>4
  <2>8. AdcLog' = Append(s, more)
    <3>1. file \in Seq(Blocks) /\ file' = file
      BY <1>1, <1>2 DEF AdcTypes
    <3>2. CASE closes
      <4>1. AdcQueue' = Append(AdcQueue, more) /\ AdcHand' = <<>>
        BY <2>6, <2>7, <3>2
      <4>2. AdcLog' = (file \o Append(AdcQueue, more)) \o <<>>
        BY <3>1, <4>1 DEF AdcLog
      <4>3. file \o Append(AdcQueue, more) \in Seq(Blocks) /\ file \o Append(AdcQueue, more) = Append(file \o AdcQueue, more)
        <5>1. file \in Seq(Blocks) /\ AdcQueue \in Seq(Blocks) /\ more \in Blocks
          BY <1>5, <2>1, <3>1
        <5> QED  BY ONLY <5>1
      <4>4. \A x \in Seq(Blocks) : x \o <<>> = x
        OBVIOUS
      <4> QED  BY <4>2, <4>3, <4>4
    <3>3. CASE ~closes
      <4>1. AdcQueue' = AdcQueue /\ AdcHand' = <<more>>
        BY <2>6, <2>7, <3>3
      <4>2. AdcLog' = s \o <<more>>
        BY <3>1, <4>1 DEF AdcLog
      <4>3. \A x \in Seq(Blocks), y \in Blocks : x \o <<y>> = Append(x, y)
        OBVIOUS
      <4> QED  BY <1>5, <2>1, <4>2, <4>3
    <3> QED  BY <3>2, <3>3
  <2>9. Samples(AdcLog) = Samples(s) \o d
    <3>1. CASE isrBuf = -1
      <4>1. Place(fifoHead, fifoTail) = Used
        BY <1>1, <1>9, AdcSizes DEF AdcRing, AdcTypes, Wrapped, Place
      <4>2. fifo[fifoHead] = Blank
        <5>1. fifoHead \in 0 .. FifoDim - 1 /\ fifoHead # -1
          BY <1>3, <1>4
        <5>2. IF Place(fifoHead, fifoTail) < Used THEN Len(fifo[fifoHead].data) >= DataDim ELSE fifo[fifoHead] # Blank => fifoHead = isrBuf
          BY <1>1, <5>1 DEF AdcRing
        <5> QED  BY <1>9, <3>1, <4>1, <5>1, <5>2
      <4>3. d = <<>>
        BY <1>3, <4>2, AdcBlank
      <4>4. AdcHand = <<>>
        BY <3>1 DEF AdcHand
      <4>5. AdcLog = s
        BY <2>1, <4>4 DEF AdcLog
      <4>6. Samples(s) \in Seq(Int)
        BY <2>1, SamplesFacts
      <4> HIDE DEF s, d
      <4> QED  BY <4>3, <4>5, <4>6
    <3>2. CASE isrBuf # -1
      <4>1. AdcHand = <<fifo[b]>>
        BY <1>2, <3>2 DEF AdcHand, b
      <4>2. AdcLog = Append(s, fifo[b])
        BY <1>4, <2>1, <4>1 DEF AdcLog
      <4> HIDE DEF s
      <4> QED  BY <1>4, <2>1, <4>2, SamplesFacts
    <3> QED  BY <3>1, <3>2
  <2>10. more.data = Append(d, tick) /\ d \in Seq(Int)
    <3>1. \A r \in Blocks : r.data \in Seq(Int) /\ \A x : [r EXCEPT !.data = x].data = x
      BY DEF Blocks, Low!Blocks
    <3> QED  BY <1>4, <3>1 DEF more
  <2> HIDE DEF s, d
  <2>11. Samples(AdcLog') = Append(Samples(AdcLog), tick)
    <3>1. Samples(s) \in Seq(Int) /\ Samples(AdcLog') = Samples(s) \o Append(d, tick)
      BY <1>5, <2>1, <2>8, <2>10, SamplesFacts
    <3>2. \A x, y \in Seq(Int), z \in Int : x \o Append(y, z) = Append(x \o y, z)
      OBVIOUS
    <3>3. tick \in Int
      BY <1>4
    <3> QED  BY <2>9, <2>10, <3>1, <3>2, <3>3
  <2>12. Sampled(Append(Samples(AdcLog), tick), tick + 1)
    <3>1. Sampled(Samples(AdcLog), tick) /\ tick \in Int
      BY <1>4 DEF AdcInv, AdcOrder
    <3>2. Samples(AdcLog) \in Seq(Int)
      BY <2>1, SamplesFacts
    <3> QED  BY <3>1, <3>2, SampledFacts
  <2> QED  BY <1>2, <2>11, <2>12 DEF AdcInv, AdcOrder
<1> QED  BY <1>7, <1>12, <1>13, <1>14 DEF AdcInv

\* The block that was written is cleared.
LEMMA AdcClear == ASSUME AdcInv, AvrAdc!Clear PROVE AdcInv'
<1>1. AdcTypes /\ AdcRing /\ AdcEnd
  BY DEF AdcInv
<1>2. /\ pc = "clear" /\ pc' = "back" /\ fifo' = [fifo EXCEPT ![fifoTail] = Blank]
      /\ fifoTail' = IF fifoTail < FifoDim - 1 THEN fifoTail + 1 ELSE 0
      /\ UNCHANGED <<typed, file, adc, tick, fifoHead, isrBuf, isrOver, fifoCount, isrStop>>
  BY AdcBlank DEF AvrAdc!Clear, AvrAdc!After, AvrAdc!isr
<1>3. fifo' \in [0 .. FifoDim - 1 -> Blocks] /\ \A i \in 0 .. FifoDim - 1 : fifo'[i] = IF i = fifoTail THEN Blank ELSE fifo[i]
  BY <1>1, <1>2, AdcBlank DEF AdcTypes
<1>4. Used = fifoCount /\ Used' = fifoCount - 1 /\ fifoCount > 0
  BY <1>1, <1>2 DEF Used, AdcRing, AdcTypes
<1>5. AdcTypes'
  BY <1>1, <1>2, <1>3, AdcSizes DEF AdcTypes
<1>6. Wrapped(fifoTail' + Used', FifoDim) = fifoHead'
  BY <1>1, <1>2, <1>4, AdcSizes DEF AdcTypes, AdcRing, Wrapped
<1>7. ASSUME NEW i \in 0 .. FifoDim - 1
      PROVE IF Place(i, fifoTail') < Used' THEN Len(fifo'[i].data) >= DataDim ELSE fifo'[i] # Blank => i = isrBuf'
  <2>1. Place(i, fifoTail') = IF i = fifoTail THEN FifoDim - 1 ELSE Place(i, fifoTail) - 1
    BY <1>1, <1>2, AdcSizes DEF AdcTypes, Place, Wrapped
  <2>2. Place(i, fifoTail) \in 0 .. FifoDim - 1 /\ fifoCount \in 0 .. FifoDim
    BY <1>1, AdcSizes DEF AdcTypes, Place, Wrapped
  <2>3. IF Place(i, fifoTail) < Used THEN Len(fifo[i].data) >= DataDim ELSE fifo[i] # Blank => i = isrBuf
    BY <1>1 DEF AdcRing
  <2>4. CASE i = fifoTail
    <3>1. ~(Place(i, fifoTail') < Used') /\ fifo'[i] = Blank
      BY <1>3, <1>4, <2>1, <2>2, <2>4, AdcSizes
    <3> QED  BY <3>1
  <2>5. CASE i # fifoTail
    <3>1. fifo'[i] = fifo[i] /\ (Place(i, fifoTail') < Used' <=> Place(i, fifoTail) < Used)
      BY <1>3, <1>4, <2>1, <2>2, <2>5
    <3> QED  BY <1>2, <2>3, <3>1
  <2> QED  BY <2>4, <2>5
<1>8. AdcRing'
  BY <1>1, <1>2, <1>4, <1>6, <1>7 DEF AdcRing
<1>9. AdcEnd'
  BY <1>1, <1>2 DEF AdcEnd
<1>10. AdcLog' = AdcLog
  <2>1. AdcFirst = Behind(fifoTail) /\ AdcFirst' = Behind(fifoTail) /\ AdcLeft = fifoCount - 1 /\ AdcLeft' = fifoCount - 1
    BY <1>2 DEF AdcFirst, AdcLeft, AvrAdc!After, Behind
  <2>2. Filled(fifoTail, fifoCount) /\ fifo \in Rings /\ fifo' \in Rings /\ SameBut(fifo, fifo', fifoTail)
    BY <1>1, <1>3, <1>4, AdcSizes DEF Filled, Rings, SameBut, AdcTypes
  <2>3. Shrunk(fifo, fifo', fifoTail, fifoCount)
    BY <2>2, RingFirst
  <2>4. AdcQueue' = AdcQueue
    BY <2>1, <2>3 DEF AdcQueue, Shrunk
  <2>5. AdcHand' = AdcHand
    <3>1. adc' = adc /\ isrBuf' = isrBuf
      BY <1>2
    <3>2. adc /\ isrBuf # -1 => isrBuf \in 0 .. FifoDim - 1 /\ isrBuf # fifoTail
      <4>1. adc /\ isrBuf # -1 => isrBuf = fifoHead /\ fifoCount < FifoDim
        BY <1>1 DEF AdcRing
      <4>2. fifoCount < FifoDim => fifoHead # fifoTail
        BY <1>1, <1>4, AdcSizes DEF AdcRing, AdcTypes, Wrapped
      <4> QED  BY <1>1, <4>1, <4>2 DEF AdcTypes
    <3> QED  BY <1>3, <3>1, <3>2 DEF AdcHand
  <2> QED  BY <1>2, <2>4, <2>5 DEF AdcLog
<1>11. AdcOrder'
  BY <1>2, <1>10 DEF AdcInv, AdcOrder
<1> QED  BY <1>5, <1>8, <1>9, <1>11 DEF AdcInv

\* It is given back to the interrupt.
LEMMA AdcGiveBack == ASSUME AdcInv, AvrAdc!GiveBack PROVE AdcInv'
<1>1. AdcTypes /\ AdcRing /\ AdcEnd
  BY DEF AdcInv
<1>2. /\ pc = "back" /\ fifoCount' = fifoCount - 1
      /\ \/ Len(file) = FileBlocks /\ pc' = "done" /\ adc' = FALSE
         \/ pc' = "serial" /\ adc' = adc
      /\ UNCHANGED <<typed, file, tick, fifoHead, isrBuf, isrOver, fifo, fifoTail, isrStop>>
  BY DEF AvrAdc!GiveBack, AvrAdc!isr
<1>3. Used' = Used /\ fifoCount > 0
  BY <1>1, <1>2 DEF Used, AdcRing, AdcTypes
<1>4. AdcTypes'
  BY <1>1, <1>2, <1>3, AdcSizes DEF AdcTypes
<1>5. AdcRing'
  BY <1>1, <1>2, <1>3, AdcSizes DEF AdcRing, AdcTypes
<1>6. AdcEnd'
  BY <1>1, <1>2, BoundsAssumption DEF AdcEnd
<1>7. AdcQueue' = AdcQueue /\ file' = file /\ tick' = tick
  <2>1. AdcFirst' = AdcFirst /\ AdcLeft' = AdcLeft
    BY <1>2 DEF AdcFirst, AdcLeft
  <2> QED  BY <1>2, <2>1 DEF AdcQueue
<1>8. AdcHand' = AdcHand \/ AdcHand' = <<>>
  BY <1>2 DEF AdcHand
<1>9. AdcOrder'
  <2> DEFINE s == file \o AdcQueue
  <2>1. s \in Seq(Blocks) /\ AdcHand \in Seq(Blocks) /\ AdcLog \in Seq(Blocks)
    BY AdcPlaces
  <2>2. AdcLog = s \o AdcHand /\ AdcLog' = s \o AdcHand'
    BY <1>7 DEF AdcLog
  <2>3. Sampled(Samples(AdcLog), tick) /\ tick \in Int
    BY <1>1 DEF AdcInv, AdcOrder, AdcTypes
  <2> HIDE DEF s
  <2>4. Sampled(Samples(s), tick)
    <3>1. Samples(AdcLog) = Samples(s) \o Samples(AdcHand)
      BY <2>1, <2>2, SamplesConcat
    <3>2. Samples(s) \in Seq(Int) /\ Samples(AdcHand) \in Seq(Int)
      BY <2>1, SamplesFacts
    <3>3. Sampled(Samples(s) \o Samples(AdcHand), tick)
      BY <2>3, <3>1
    <3> QED  BY <2>3, <3>2, <3>3, SampledFacts
  <2>5. \A x \in Seq(Blocks) : x \o <<>> = x
    OBVIOUS
  <2>6. AdcLog' = AdcLog \/ AdcLog' = s
    BY <1>8, <2>1, <2>2, <2>5
  <2>7. Sampled(Samples(AdcLog'), tick')
    BY <1>7, <2>3, <2>4, <2>6
  <2> QED  BY <1>7, <2>7 DEF AdcInv, AdcOrder
<1> QED  BY <1>4, <1>5, <1>6, <1>9 DEF AdcInv

\* Every step keeps the invariant.
LEMMA AdcSteps == ASSUME AdcInv, AvrAdc!Next \/ UNCHANGED vars PROVE AdcInv'
<1>1. AdcTypes /\ AdcRing /\ AdcEnd
  BY DEF AdcInv
<1>2. CASE AvrAdc!Write
  <2>1. /\ pc = "loop" /\ UNCHANGED <<typed, adc, tick, fifoHead, isrBuf, isrOver, fifo, fifoTail, fifoCount, isrStop>>
        /\ \/ fifoCount = 0 /\ pc' = "serial" /\ file' = file
           \/ fifoCount # 0 /\ pc' = "clear" /\ file' = Append(file, fifo[fifoTail])
    BY <1>2 DEF AvrAdc!Write, AvrAdc!isr
  <2>2. file' \in Seq(Blocks)
    BY <1>1, <2>1 DEF AdcTypes
  <2>3. Used' = Used
    BY <2>1 DEF Used
  <2>4. AdcTypes' /\ AdcRing' /\ AdcEnd'
    BY <1>1, <2>1, <2>2, <2>3 DEF AdcTypes, AdcRing, AdcEnd
  <2>5. AdcHand' = AdcHand
    BY <2>1 DEF AdcHand
  <2>6. CASE fifoCount = 0
    <3>1. file' = file /\ pc' = "serial"
      BY <2>1, <2>6
    <3>2. AdcQueue' = AdcQueue
      BY <2>1, <3>1 DEF AdcQueue, AdcFirst, AdcLeft
    <3> QED  BY <2>1, <2>4, <2>5, <3>1, <3>2 DEF AdcInv, AdcOrder, AdcLog
  <2>7. CASE fifoCount # 0
    <3> DEFINE x == fifo[fifoTail]
               rest == AdcQueue'
    <3>1. file' = Append(file, x) /\ pc' = "clear"
      BY <2>1, <2>7
    <3>2. AdcFirst = fifoTail /\ AdcLeft = fifoCount /\ AdcFirst' = Behind(fifoTail) /\ AdcLeft' = fifoCount - 1
      BY <2>1, <3>1 DEF AdcFirst, AdcLeft, AvrAdc!After, Behind
    <3>3. Filled(fifoTail, fifoCount) /\ fifo \in Rings /\ SameBut(fifo, fifo, fifoTail)
      BY <1>1, <2>7, AdcSizes DEF Filled, Rings, SameBut, AdcTypes
    <3>4. Shrunk(fifo, fifo, fifoTail, fifoCount)
      BY <3>3, RingFirst
    <3>5. AdcQueue = <<x>> \o rest
      BY <2>1, <3>2, <3>4 DEF AdcQueue, Shrunk
    <3>6. rest \in Seq(Blocks)
      <4>1. Behind(fifoTail) \in 0 .. FifoDim - 1 /\ fifoCount - 1 \in 0 .. FifoDim /\ fifo \in [0 .. FifoDim - 1 -> Blocks]
        BY <3>3, <3>4, AdcSizes DEF Shrunk, Filled, Rings
      <4>2. rest = RingOf(fifo, Behind(fifoTail), fifoCount - 1)
        BY <2>1, <3>2 DEF AdcQueue
      <4> HIDE DEF rest
      <4> QED  BY <4>1, <4>2, RingItems
    <3>7. x \in Blocks /\ file \in Seq(Blocks)
      BY <1>1 DEF AdcTypes
    <3>8. x.data # <<>>
      <4>1. Place(fifoTail, fifoTail) = 0 /\ Used > 0 /\ fifoTail \in 0 .. FifoDim - 1
        BY <1>1, <2>1, <2>7, AdcSizes DEF Place, Wrapped, Used, AdcTypes
      <4>2. Len(x.data) >= DataDim
        BY <1>1, <4>1 DEF AdcRing
      <4>3. Len(<<>>) = 0
        OBVIOUS
      <4> HIDE DEF x
      <4> QED  BY <4>2, <4>3, AdcSizes
    <3> HIDE DEF x, rest
    <3>9. Append(file, x) \o rest = file \o (<<x>> \o rest)
      BY ONLY <3>6, <3>7
    <3>10. AdcLog' = AdcLog
      BY <2>5, <3>1, <3>5, <3>9 DEF AdcLog, rest
    <3>11. \A k \in 1 .. Len(file') : file'[k].data # <<>>
      <4>1. Len(file') = Len(file) + 1 /\ Len(file) \in Nat
            /\ \A k \in 1 .. Len(file) + 1 : file'[k] = IF k <= Len(file) THEN file[k] ELSE x
        BY <3>1, <3>7
      <4>2. \A k \in 1 .. Len(file) : file[k].data # <<>>
        BY DEF AdcInv, AdcOrder
      <4> QED  BY <3>8, <4>1, <4>2
    <3> QED  BY <2>1, <2>4, <3>10, <3>11 DEF AdcInv, AdcOrder
  <2> QED  BY <2>6, <2>7
<1>3. CASE AvrAdc!Serial \/ AvrAdc!Count \/ AvrAdc!Active \/ AvrAdc!Type \/ UNCHANGED vars
  <2>1. /\ UNCHANGED <<adc, file, tick, fifoHead, isrBuf, isrOver, fifo, fifoTail, fifoCount>> /\ typed' \in BOOLEAN
        /\ \/ pc = "serial" /\ pc' = "count" /\ isrStop' \in BOOLEAN /\ (isrStop => isrStop')
           \/ pc = "count" /\ pc' = (IF fifoCount = 0 THEN "active" ELSE "loop") /\ isrStop' = isrStop
           \/ pc = "active" /\ pc' = (IF adc THEN "loop" ELSE "done") /\ isrStop' = isrStop
           \/ pc' = pc /\ isrStop' = isrStop
    BY <1>1, <1>3 DEF AvrAdc!Serial, AvrAdc!Count, AvrAdc!Active, AvrAdc!Type, AvrAdc!isr, vars, common, ring, AdcTypes
  <2>2. Used' = Used
    BY <2>1 DEF Used
  <2>3. AdcTypes'
    BY <1>1, <2>1 DEF AdcTypes
  <2>4. AdcRing'
    BY <1>1, <2>1, <2>2 DEF AdcRing
  <2>5. AdcEnd'
    BY <1>1, <2>1 DEF AdcEnd, AdcTypes
  <2>6. AdcQueue' = AdcQueue /\ AdcHand' = AdcHand
    <3>1. AdcFirst' = AdcFirst /\ AdcLeft' = AdcLeft
      BY <2>1 DEF AdcFirst, AdcLeft, AvrAdc!After
    <3> QED  BY <2>1, <3>1 DEF AdcQueue, AdcHand
  <2>7. AdcOrder'
    BY <2>1, <2>6 DEF AdcInv, AdcOrder, AdcLog
  <2> QED  BY <2>3, <2>4, <2>5, <2>7 DEF AdcInv
<1> QED  BY <1>2, <1>3, AdcOverrun, AdcSample, AdcClear, AdcGiveBack DEF AvrAdc!Next, AvrAdc!Step

\* What is read back is in order; it is what was written if a buffer has more than the metadata.
LEMMA AdcTimes ==
  ASSUME AdcInv
  PROVE  InOrder(Csv("AvrAdc", file)) /\ (FifoDim > 1 => ReadersAgree("AvrAdc", file))
<1>1. /\ file \in Seq(Blocks) /\ AdcQueue \in Seq(Blocks) /\ AdcHand \in Seq(Blocks) /\ file \o AdcQueue \in Seq(Blocks)
      /\ Sampled(Samples(AdcLog), tick) /\ tick \in Int /\ \A k \in 1 .. Len(file) : file[k].data # <<>>
  BY AdcPlaces DEF AdcInv, AdcOrder, AdcTypes
<1>2. Sampled(Samples(file), tick)
  <2>1. Samples(AdcLog) = Samples(file \o AdcQueue) \o Samples(AdcHand) /\ Samples(file \o AdcQueue) = Samples(file) \o Samples(AdcQueue)
    BY <1>1, SamplesConcat DEF AdcLog
  <2>2. Samples(file \o AdcQueue) \in Seq(Int) /\ Samples(AdcHand) \in Seq(Int) /\ Samples(file) \in Seq(Int) /\ Samples(AdcQueue) \in Seq(Int)
    BY <1>1, SamplesFacts
  <2>3. Sampled(Samples(file \o AdcQueue) \o Samples(AdcHand), tick)
    BY <1>1, <2>1
  <2>4. Sampled(Samples(file \o AdcQueue), tick)
    BY <1>1, <2>2, <2>3, SampledFacts
  <2>5. Sampled(Samples(file) \o Samples(AdcQueue), tick)
    BY <2>1, <2>4
  <2> QED  BY <1>1, <2>2, <2>5, SampledFacts
<1>3. Text(file) \in Seq(Blocks) /\ Samples(Text(file)) = Samples(file)
  BY <1>1, TextRight
<1>4. InOrder(Text(file))
  BY <1>1, <1>2, <1>3, SampledInOrder
<1>5. InOrder(<<>>)
  <2>1. <<>> \in Seq(Blocks) /\ Samples(<<>>) = <<>>
    BY <1>1, SamplesFacts
  <2> QED  BY <2>1 DEF InOrder
<1> QED  BY <1>1, <1>4, <1>5, AvrAdcReads

\* The invariant implies what is promised.
LEMMA AdcSafe == ASSUME AdcInv PROVE AvrAdc!RingRight
<1>1. AdcTypes /\ AdcRing /\ AdcEnd
  BY DEF AdcInv
<1>2. ASSUME NEW b \in 0 .. FifoDim - 1 PROVE (b - fifoTail + FifoDim) % FifoDim = Place(b, fifoTail)
  <2>1. b - fifoTail + FifoDim \in 0 .. 2 * FifoDim - 1
    BY <1>1, AdcSizes DEF AdcTypes
  <2> QED  BY <2>1, AdcSizes, Wraps DEF Place
<1>3. DOMAIN fifo = 0 .. FifoDim - 1
  BY <1>1 DEF AdcTypes
<1>4. fifoCount \in 0 .. FifoDim
  BY <1>1 DEF AdcTypes
<1>5. ASSUME NEW b \in 0 .. FifoDim - 1
      PROVE IF (b - fifoTail + FifoDim) % FifoDim < Used THEN AvrAdc!Full(fifo[b]) ELSE fifo[b] # AvrAdc!Blank => b = isrBuf
  BY <1>1, <1>2, AdcBlank DEF AdcRing, AvrAdc!Full
<1>6. pc = "done" /\ Len(file) < FileBlocks => fifoCount < 2
  BY <1>1 DEF AdcEnd
<1> QED  BY <1>3, <1>4, <1>5, <1>6 DEF AvrAdc!RingRight, Used
-----------------------------------------------------------------------------
(* AnalogBinLogger.                                                        *)

\* The buffers in a queue, the blocks in them; none twice, none in two queues.
BufferNumbers == 1 .. Buffers
\* The blocks in the buffers of a queue.
Held(b, q) == [i \in 1 .. Len(q) |-> b[q[i]]]
\* No buffer is in the queue twice.
Distinct(q) == \A i, j \in 1 .. Len(q) : q[i] = q[j] => i = j
\* A buffer is in the queue.
In(n, q) == \E i \in 1 .. Len(q) : q[i] = n

\* What the interrupt may not touch; what is still to be written, the block in hand at last.
Waiting == IF pc = "next" THEN Tail(fullQueue) ELSE fullQueue
\* What is still to be written.
Todo == IF pc \in {"empty", "next"} THEN Tail(fullQueue) ELSE fullQueue
\* The block the interrupt fills.
Hand == IF ~isrBufNeeded /\ isrBuf # 0 THEN <<isrBuf>> ELSE <<>>
\* The file, as it will be when all blocks are written.
BinLog == file \o Held(buf, Todo \o Hand)
\* The ticks since the last block that no buffer was free for.
Lost == IF isrBufNeeded THEN isrOver ELSE 0
\* The last block is there twice.
Twice(f) == Len(f) > 1 /\ f[Len(f)] = f[Len(f) - 1]
\* What the variables hold.
BinTypes ==
  /\ tick \in Nat /\ typed \in BOOLEAN /\ pc \in {"loop", "empty", "next", "serial", "done"} /\ file \in Seq(Blocks)
  /\ adc \in BOOLEAN /\ buf \in [BufferNumbers -> Blocks] /\ isrBuf \in {0} \cup BufferNumbers /\ isrBufNeeded \in BOOLEAN
  /\ isrOver \in Nat /\ emptyQueue \in Seq(BufferNumbers) /\ fullQueue \in Seq(BufferNumbers)
  /\ (pc \in {"empty", "next"} => fullQueue # <<>>)
\* While the ADC runs a buffer is in one place.
BinApart ==
  adc => /\ Distinct(Waiting) /\ Distinct(emptyQueue) /\ \A n \in BufferNumbers : ~(In(n, Waiting) /\ In(n, emptyQueue))
         /\ ~isrBufNeeded => isrBuf # 0 /\ ~In(isrBuf, Waiting) /\ ~In(isrBuf, emptyQueue)
\* The log accounts for every tick; a stop may put its last block into the queue again, one before
\* the first tick the block of an earlier recording.
BinTicks ==
  \/ Ticks(BinLog) + Lost = tick
  \/ ~adc /\ Twice(BinLog) /\ Ticks(SubSeq(BinLog, 1, Len(BinLog) - 1)) + Lost = tick
  \/ ~adc /\ tick = 0 /\ BinLog = <<AnalogBin!Stale>>
\* Before the first tick there are free buffers, and isrBuf is that of an earlier recording.
BinFirst ==
  adc /\ tick = 0 => /\ isrBufNeeded /\ emptyQueue # <<>> /\ BinLog = <<>>
                     /\ isrBuf # 0 => buf[isrBuf] \in {AnalogBin!Blank, AnalogBin!Stale}
\* While the ADC runs and waits for a buffer, isrBuf is the block put into the queue last.
BinLast ==
  adc /\ tick # 0 /\ isrBuf # 0 =>
    /\ buf[isrBuf].data # <<>>
    /\ isrBufNeeded => BinLog # <<>> /\ BinLog[Len(BinLog)] = buf[isrBuf]
\* No block of the log is empty, and all are in time while the ADC runs.
BinTimes ==
  /\ \A k \in 1 .. Len(BinLog) : BinLog[k].data # <<>>
  /\ adc => InTime(BinLog)
\* What is left when the ADC has stopped.
BinEnd ==
  /\ pc = "done" => ~adc /\ (Len(file) < FileBlocks => fullQueue = <<>> /\ Hand = <<>>)
  /\ pc # "done" /\ ~adc => isrBuf = 0
\* The invariant.
BinInv == BinTypes /\ BinApart /\ BinTicks /\ BinFirst /\ BinLast /\ BinTimes /\ BinEnd

\* Nothing is in the second part of an empty sequence.
LEMMA EmptyTail ==
  ASSUME NEW S, NEW s \in Seq(S), NEW t \in Seq(S), s \o t = <<>>
  PROVE  Len(t) = 0
<1>1. Len(s \o t) = Len(s) + Len(t) /\ Len(s) \in Nat /\ Len(t) \in Nat
  OBVIOUS
<1>2. Len(s \o t) = 0
  OBVIOUS
<1> QED  BY <1>1, <1>2

\* What queues and the blocks in them are when one buffer is added or taken.
LEMMA QueueFacts ==
  ASSUME NEW q \in Seq(BufferNumbers)
  PROVE  /\ \A n \in BufferNumbers :
              /\ Append(q, n) \in Seq(BufferNumbers) /\ Append(q, n) # <<>>
              /\ \A m : In(m, Append(q, n)) <=> In(m, q) \/ m = n
              /\ Distinct(q) /\ ~In(n, q) => Distinct(Append(q, n))
         /\ q # <<>> => /\ Head(q) \in BufferNumbers /\ Tail(q) \in Seq(BufferNumbers) /\ In(Head(q), q)
                        /\ \A m : In(m, Tail(q)) => In(m, q)
                        /\ \A n \in BufferNumbers : Tail(Append(q, n)) = Append(Tail(q), n)
                        /\ Distinct(q) => Distinct(Tail(q)) /\ ~In(Head(q), Tail(q))
<1>1. ASSUME NEW n \in BufferNumbers
      PROVE /\ Append(q, n) \in Seq(BufferNumbers) /\ Append(q, n) # <<>>
            /\ \A m : In(m, Append(q, n)) <=> In(m, q) \/ m = n
            /\ Distinct(q) /\ ~In(n, q) => Distinct(Append(q, n))
  <2> DEFINE r == Append(q, n)
  <2>1. r \in Seq(BufferNumbers) /\ Len(r) = Len(q) + 1 /\ \A i \in 1 .. Len(q) + 1 : r[i] = IF i <= Len(q) THEN q[i] ELSE n
    OBVIOUS
  <2>2. Len(q) \in Nat
    OBVIOUS
  <2> HIDE DEF r
  <2>3. r # <<>>
    BY <2>1, <2>2
  <2>4. ASSUME NEW m PROVE In(m, r) <=> In(m, q) \/ m = n
    <3>1. In(m, q) => In(m, r)
      BY <2>1, <2>2 DEF In
    <3>2. m = n => In(m, r)
      <4>1. Len(q) + 1 \in 1 .. Len(r) /\ r[Len(q) + 1] = n
        BY <2>1, <2>2
      <4> QED  BY <4>1 DEF In
    <3>3. In(m, r) => In(m, q) \/ m = n
      BY <2>1, <2>2 DEF In
    <3> QED  BY <3>1, <3>2, <3>3
  <2>5. Distinct(q) /\ ~In(n, q) => Distinct(r)
    BY <2>1, <2>2 DEF Distinct, In
  <2> QED  BY <2>1, <2>3, <2>4, <2>5 DEF r
<1>2. ASSUME q # <<>>
      PROVE /\ Head(q) \in BufferNumbers /\ Tail(q) \in Seq(BufferNumbers) /\ In(Head(q), q)
            /\ \A m : In(m, Tail(q)) => In(m, q)
            /\ \A n \in BufferNumbers : Tail(Append(q, n)) = Append(Tail(q), n)
            /\ Distinct(q) => Distinct(Tail(q)) /\ ~In(Head(q), Tail(q))
  <2> DEFINE r == Tail(q)
  <2>1. /\ r \in Seq(BufferNumbers) /\ Len(r) = Len(q) - 1 /\ \A i \in 1 .. Len(q) - 1 : r[i] = q[i + 1]
        /\ Head(q) = q[1] /\ Head(q) \in BufferNumbers /\ Len(q) \in Nat /\ Len(q) > 0
    BY <1>2
  <2>2. \A n \in BufferNumbers : Tail(Append(q, n)) = Append(Tail(q), n)
    BY <1>2
  <2> HIDE DEF r
  <2>3. In(Head(q), q)
    BY <2>1 DEF In
  <2>4. \A m : In(m, r) => In(m, q)
    BY <2>1 DEF In
  <2>5. Distinct(q) => Distinct(r)
    BY <2>1 DEF Distinct
  <2>6. Distinct(q) => ~In(Head(q), r)
    BY <2>1 DEF Distinct, In
  <2> QED  BY <2>1, <2>2, <2>3, <2>4, <2>5, <2>6 DEF r
<1> QED  BY <1>1, <1>2

\* The blocks of a queue are a sequence of blocks.
LEMMA HeldItems ==
  ASSUME NEW b \in [BufferNumbers -> Blocks], NEW q \in Seq(BufferNumbers)
  PROVE  Held(b, q) \in Seq(Blocks) /\ Len(Held(b, q)) = Len(q) /\ \A i \in 1 .. Len(q) : Held(b, q)[i] = b[q[i]]
<1> DEFINE g(i) == b[q[i]]
           s == [i \in 1 .. Len(q) |-> g(i)]
<1>1. \A i \in 1 .. Len(q) : g(i) \in Blocks
  OBVIOUS
<1>2. Len(q) \in Nat /\ Held(b, q) = s
  BY DEF Held
<1> HIDE DEF g
<1>3. s \in Seq(Blocks) /\ Len(s) = Len(q) /\ \A i \in 1 .. Len(q) : s[i] = g(i)
  BY <1>1, <1>2
<1> HIDE DEF s
<1> QED  BY <1>2, <1>3 DEF g

\* A buffer put into a queue adds its block.
LEMMA HeldAppend ==
  ASSUME NEW b \in [BufferNumbers -> Blocks], NEW q \in Seq(BufferNumbers), NEW n \in BufferNumbers
  PROVE  Held(b, Append(q, n)) = Append(Held(b, q), b[n])
<1>1. Append(q, n) \in Seq(BufferNumbers) /\ Len(Append(q, n)) = Len(q) + 1 /\ Len(q) \in Nat /\ b[n] \in Blocks
      /\ \A i \in 1 .. Len(q) + 1 : Append(q, n)[i] = IF i <= Len(q) THEN q[i] ELSE n
  OBVIOUS
<1> DEFINE s == Held(b, Append(q, n))
           t == Held(b, q)
<1>2. s \in Seq(Blocks) /\ Len(s) = Len(q) + 1 /\ \A i \in 1 .. Len(q) + 1 : s[i] = b[Append(q, n)[i]]
  BY <1>1, HeldItems
<1>3. t \in Seq(Blocks) /\ Len(t) = Len(q) /\ \A i \in 1 .. Len(q) : t[i] = b[q[i]]
  BY HeldItems
<1> HIDE DEF s, t
<1>4. /\ Append(t, b[n]) \in Seq(Blocks) /\ Len(Append(t, b[n])) = Len(q) + 1
      /\ \A i \in 1 .. Len(q) + 1 : Append(t, b[n])[i] = IF i <= Len(q) THEN t[i] ELSE b[n]
  BY <1>1, <1>3
<1>5. \A i \in 1 .. Len(q) + 1 : s[i] = Append(t, b[n])[i]
  BY <1>1, <1>2, <1>3, <1>4
<1>6. s = Append(t, b[n])
  BY <1>2, <1>4, <1>5, Low!SeqSame
<1> QED  BY <1>6 DEF s, t

\* A buffer outside a queue may change.
LEMMA HeldSame ==
  ASSUME NEW b \in [BufferNumbers -> Blocks], NEW q \in Seq(BufferNumbers), NEW n, ~In(n, q), NEW x
  PROVE  Held([b EXCEPT ![n] = x], q) = Held(b, q)
<1>1. \A i \in 1 .. Len(q) : q[i] \in BufferNumbers /\ q[i] # n
  BY DEF In
<1>2. \A i \in 1 .. Len(q) : [b EXCEPT ![n] = x][q[i]] = b[q[i]]
  BY <1>1
<1> QED  BY <1>2 DEF Held

\* The first block of a queue, and the others.
LEMMA HeldHead ==
  ASSUME NEW b \in [BufferNumbers -> Blocks], NEW q \in Seq(BufferNumbers), Len(q) > 0
  PROVE  Held(b, q) = <<b[Head(q)]>> \o Held(b, Tail(q))
<1>1. /\ Tail(q) \in Seq(BufferNumbers) /\ Len(Tail(q)) = Len(q) - 1 /\ Len(q) \in Nat /\ Len(q) > 0
      /\ Head(q) = q[1] /\ b[Head(q)] \in Blocks
      /\ \A i \in 1 .. Len(q) - 1 : Tail(q)[i] = q[i + 1]
  OBVIOUS
<1> DEFINE s == Held(b, q)
           t == Held(b, Tail(q))
           h == <<b[Head(q)]>>
<1>2. s \in Seq(Blocks) /\ Len(s) = Len(q) /\ \A i \in 1 .. Len(q) : s[i] = b[q[i]]
  BY HeldItems
<1>3. t \in Seq(Blocks) /\ Len(t) = Len(q) - 1 /\ \A i \in 1 .. Len(q) - 1 : t[i] = b[Tail(q)[i]]
  <2> DEFINE u == Tail(q)
  <2>1. b \in [BufferNumbers -> Blocks] /\ u \in Seq(BufferNumbers) /\ Len(u) = Len(q) - 1
    BY <1>1
  <2> HIDE DEF u
  <2>2. Held(b, u) \in Seq(Blocks) /\ Len(Held(b, u)) = Len(u) /\ \A i \in 1 .. Len(u) : Held(b, u)[i] = b[u[i]]
    BY ONLY <2>1, HeldItems, Zenon
  <2> QED  BY <2>1, <2>2, Zenon DEF u
<1>4. h \in Seq(Blocks) /\ Len(h) = 1 /\ h[1] = b[q[1]]
  BY <1>1
<1> HIDE DEF s, t, h
<1>5. /\ h \o t \in Seq(Blocks) /\ Len(h \o t) = Len(q)
      /\ \A i \in 1 .. Len(q) : (h \o t)[i] = IF i <= 1 THEN h[i] ELSE t[i - 1]
  <2>1. Len(h) + Len(t) = Len(q)
    BY <1>1, <1>3, <1>4
  <2>2. /\ h \o t \in Seq(Blocks) /\ Len(h \o t) = Len(h) + Len(t)
        /\ \A i \in 1 .. Len(h) + Len(t) : (h \o t)[i] = IF i <= Len(h) THEN h[i] ELSE t[i - Len(h)]
    BY <1>3, <1>4, Low!ConcatItems
  <2> QED  BY <1>4, <2>1, <2>2
<1>6. \A i \in 1 .. Len(q) : s[i] = (h \o t)[i]
  <2> TAKE i \in 1 .. Len(q)
  <2>1. CASE i = 1
    BY <2>1, <1>2, <1>4, <1>5
  <2>2. CASE i # 1
    <3>1. i - 1 \in 1 .. Len(q) - 1 /\ (i - 1) + 1 = i /\ ~(i <= 1)
      BY <2>2, <1>1
    <3>2. t[i - 1] = b[q[i]]
      BY <3>1, <1>1, <1>3
    <3> QED  BY <3>1, <3>2, <1>2, <1>5
  <2> QED  BY <2>1, <2>2
<1>7. s = h \o t
  BY <1>2, <1>5, <1>6, Low!SeqSame
<1> QED  BY <1>7 DEF s, t, h

\* The queues are sequences of buffers; the log ends with the block in hand.
LEMMA BinQueues ==
  ASSUME BinTypes
  PROVE  /\ Waiting \in Seq(BufferNumbers) /\ Todo \in Seq(BufferNumbers) /\ Hand \in Seq(BufferNumbers)
         /\ Todo \o Hand \in Seq(BufferNumbers) /\ Held(buf, Todo) \in Seq(Blocks) /\ BinLog \in Seq(Blocks)
         /\ \A n : In(n, Todo) => In(n, Waiting)
         /\ Hand = <<>> => BinLog = file \o Held(buf, Todo)
         /\ Hand # <<>> => Hand = <<isrBuf>> /\ isrBuf \in BufferNumbers
                           /\ BinLog = Append(file \o Held(buf, Todo), buf[isrBuf])
<1>1. /\ file \in Seq(Blocks) /\ buf \in [BufferNumbers -> Blocks] /\ isrBuf \in {0} \cup BufferNumbers
      /\ fullQueue \in Seq(BufferNumbers) /\ (pc \in {"empty", "next"} => fullQueue # <<>>)
  BY DEF BinTypes
<1>2. fullQueue # <<>> => Tail(fullQueue) \in Seq(BufferNumbers) /\ \A m : In(m, Tail(fullQueue)) => In(m, fullQueue)
  BY <1>1, QueueFacts
<1>3. Waiting \in Seq(BufferNumbers) /\ Todo \in Seq(BufferNumbers) /\ \A n : In(n, Todo) => In(n, Waiting)
  BY <1>1, <1>2 DEF Waiting, Todo
<1>4. Hand = <<>> \/ (Hand = <<isrBuf>> /\ isrBuf \in BufferNumbers)
  BY <1>1 DEF Hand
<1>5. Held(buf, Todo) \in Seq(Blocks)
  BY <1>1, <1>3, HeldItems
<1>6. CASE Hand = <<>>
  <2>1. Todo \o Hand = Todo /\ Hand \in Seq(BufferNumbers)
    BY <1>3, <1>6
  <2>2. BinLog = file \o Held(buf, Todo)
    BY <2>1 DEF BinLog
  <2> QED  BY <1>1, <1>3, <1>5, <1>6, <2>1, <2>2
<1>7. CASE Hand = <<isrBuf>> /\ isrBuf \in BufferNumbers
  <2>1. Todo \o Hand = Append(Todo, isrBuf) /\ Todo \o Hand \in Seq(BufferNumbers) /\ Hand \in Seq(BufferNumbers) /\ Hand # <<>>
    BY <1>3, <1>7
  <2>2. Held(buf, Todo \o Hand) = Append(Held(buf, Todo), buf[isrBuf]) /\ buf[isrBuf] \in Blocks
    BY <1>1, <1>3, <1>7, <2>1, HeldAppend
  <2>3. file \o Append(Held(buf, Todo), buf[isrBuf]) = Append(file \o Held(buf, Todo), buf[isrBuf])
    BY <1>1, <1>5, <2>2
  <2>4. BinLog = Append(file \o Held(buf, Todo), buf[isrBuf]) /\ BinLog \in Seq(Blocks)
    BY <1>1, <1>5, <2>2, <2>3 DEF BinLog
  <2> QED  BY <1>3, <1>5, <1>7, <2>1, <2>4
<1> QED  BY <1>4, <1>6, <1>7

\* The sizes are positive numbers.
LEMMA BinSizes == Buffers \in Nat /\ Buffers > 1 /\ DataDim \in Nat /\ DataDim > 0 /\ FileBlocks \in Nat /\ FileBlocks > 0
BY BoundsAssumption

\* The block of an earlier recording is a block with samples.
LEMMA StaleFacts == AnalogBin!Stale \in Blocks /\ AnalogBin!Stale.data # <<>>
<1>1. <<MaxTicks>> \in Seq(Int) /\ <<MaxTicks>> # <<>>
  BY BoundsAssumption
<1> QED  BY <1>1 DEF AnalogBin!Stale, AnalogBin!Block, Blocks, Low!Blocks

\* It starts so.
LEMMA BinStarts == ASSUME AnalogBin!Init PROVE BinInv
<1>1. <<>> \in Seq(Int) /\ Len(<<>>) = 0 /\ <<>> \in Seq(Blocks) /\ <<>> \in Seq(BufferNumbers) /\ <<>> \o <<>> = <<>>
  OBVIOUS
<1>2. buf \in [BufferNumbers -> Blocks] /\ (isrBuf # 0 => buf[isrBuf] \in {AnalogBin!Blank, AnalogBin!Stale})
  <2>1. AnalogBin!Blank \in Blocks /\ AnalogBin!Stale \in Blocks
    BY <1>1, StaleFacts DEF AnalogBin!Blank, AnalogBin!Block, Blocks, Low!Blocks
  <2>2. PICK left \in {AnalogBin!Blank, AnalogBin!Stale} :
               buf = [n \in 1 .. Buffers |-> IF n = isrBuf THEN left ELSE AnalogBin!Blank]
    BY DEF AnalogBin!Init
  <2>3. isrBuf # 0 => isrBuf \in 1 .. Buffers
    BY DEF AnalogBin!Init
  <2> QED  BY <2>1, <2>2, <2>3 DEF BufferNumbers
<1>3. /\ emptyQueue \in Seq(BufferNumbers) /\ Distinct(emptyQueue) /\ emptyQueue # <<>>
      /\ tick = 0 /\ typed = FALSE /\ pc = "loop" /\ file = <<>> /\ adc = TRUE
      /\ isrBuf \in {0} \cup BufferNumbers /\ isrBufNeeded = TRUE
      /\ isrOver = 0 /\ fullQueue = <<>>
  BY BinSizes DEF AnalogBin!Init, BufferNumbers, Distinct
<1>4. BinTypes
  BY <1>1, <1>2, <1>3 DEF BinTypes
<1>5. Waiting = <<>> /\ Todo = <<>> /\ Hand = <<>> /\ Lost = 0
  BY <1>3 DEF Waiting, Todo, Hand, Lost
<1>6. BinLog = <<>>
  BY <1>1, <1>3, <1>5 DEF BinLog, Held
<1>7. Ticks(BinLog) = 0
  BY <1>1, <1>6, TicksFacts
<1>8. BinApart
  BY <1>1, <1>3, <1>5 DEF BinApart, Distinct, In
<1>9. BinTimes
  <2>1. Len(BinLog) = 0 /\ InTime(BinLog)
    BY <1>1, <1>6 DEF InTime
  <2> QED  BY <2>1 DEF BinTimes
<1> QED  BY <1>2, <1>3, <1>4, <1>5, <1>6, <1>7, <1>8, <1>9 DEF BinInv, BinTicks, BinFirst, BinLast, BinEnd

\* A sample that finds no buffer is counted.
LEMMA BinOverrun == ASSUME BinInv, AnalogBin!Overrun PROVE BinInv'
<1>1. /\ tick' = tick + 1 /\ isrOver' = isrOver + 1 /\ isrBufNeeded /\ adc /\ emptyQueue = <<>>
      /\ UNCHANGED <<typed, pc, file, adc, buf, isrBuf, isrBufNeeded, emptyQueue, fullQueue>>
  BY DEF AnalogBin!Overrun
<1>2. BinTypes /\ BinApart /\ BinTicks /\ BinFirst /\ BinLast /\ BinTimes /\ BinEnd
  BY DEF BinInv
<1>3. Waiting' = Waiting /\ Todo' = Todo /\ Hand' = Hand
  BY <1>1 DEF Waiting, Todo, Hand
<1>4. BinLog' = BinLog
  BY <1>1, <1>3 DEF BinLog, Held
<1>5. Lost = isrOver /\ Lost' = isrOver + 1 /\ isrOver \in Nat /\ tick \in Nat
  BY <1>1, <1>2 DEF Lost, BinTypes
<1>6. Ticks(BinLog) \in Nat
  BY <1>2, BinQueues, TicksFacts
<1>7. BinTypes'
  BY <1>1, <1>2 DEF BinTypes
<1>8. BinTicks'
  BY <1>1, <1>2, <1>4, <1>5, <1>6 DEF BinTicks
<1>9. tick # 0 /\ tick' # 0
  BY <1>1, <1>2, <1>5 DEF BinFirst
<1>10. BinFirst' /\ BinLast'
  BY <1>1, <1>2, <1>4, <1>9 DEF BinFirst, BinLast
<1> QED  BY <1>1, <1>2, <1>3, <1>4, <1>7, <1>8, <1>10 DEF BinInv, BinApart, BinTimes, BinEnd

\* The interrupt fills its block and puts a full one into the queue.
LEMMA BinSample == ASSUME BinInv, AnalogBin!Sample PROVE BinInv'
<1> DEFINE b == IF isrBufNeeded THEN Head(emptyQueue) ELSE isrBuf
           block == IF isrBufNeeded THEN AnalogBin!Block(isrOver, <<>>) ELSE buf[b]
           more == [block EXCEPT !.data = Append(@, tick)]
           closes == Len(more.data) >= DataDim
           front == file \o Held(buf, Todo)
<1>1. BinTypes /\ BinApart /\ BinTicks /\ BinFirst /\ BinLast /\ BinTimes /\ BinEnd
  BY DEF BinInv
<1>2. /\ adc /\ (isrBufNeeded => emptyQueue # <<>>)
      /\ tick' = tick + 1 /\ isrBuf' = b /\ buf' = [buf EXCEPT ![b] = more]
      /\ emptyQueue' = IF isrBufNeeded THEN Tail(emptyQueue) ELSE emptyQueue
      /\ isrBufNeeded' = closes /\ isrOver' = (IF closes THEN 0 ELSE isrOver)
      /\ fullQueue' = (IF closes THEN Append(fullQueue, b) ELSE fullQueue)
      /\ UNCHANGED <<typed, pc, file, adc>>
  BY DEF AnalogBin!Sample, AnalogBin!Full, AnalogBin!Taken
<1>3. /\ tick \in Nat /\ file \in Seq(Blocks) /\ buf \in [BufferNumbers -> Blocks] /\ isrBuf \in {0} \cup BufferNumbers
      /\ isrBufNeeded \in BOOLEAN /\ isrOver \in Nat /\ emptyQueue \in Seq(BufferNumbers) /\ fullQueue \in Seq(BufferNumbers)
      /\ (pc \in {"empty", "next"} => fullQueue # <<>>)
  BY <1>1 DEF BinTypes
<1>4. /\ b \in BufferNumbers /\ ~In(b, Waiting) /\ emptyQueue' \in Seq(BufferNumbers)
      /\ Distinct(emptyQueue') /\ ~In(b, emptyQueue') /\ \A n : In(n, emptyQueue') => In(n, emptyQueue)
  <2>1. CASE isrBufNeeded
    <3>1. /\ Head(emptyQueue) \in BufferNumbers /\ Tail(emptyQueue) \in Seq(BufferNumbers) /\ In(Head(emptyQueue), emptyQueue)
          /\ \A m : In(m, Tail(emptyQueue)) => In(m, emptyQueue)
          /\ Distinct(emptyQueue) => Distinct(Tail(emptyQueue)) /\ ~In(Head(emptyQueue), Tail(emptyQueue))
      BY <1>2, <1>3, <2>1, QueueFacts
    <3> QED  BY <1>1, <1>2, <2>1, <3>1 DEF BinApart
  <2>2. CASE ~isrBufNeeded
    BY <1>1, <1>2, <1>3, <2>2 DEF BinApart
  <2> QED  BY <2>1, <2>2
<1>5. /\ block \in Blocks /\ (Hand = <<>> <=> isrBufNeeded)
      /\ Ticks(front) + TicksOf(block) = Ticks(BinLog) + Lost
      /\ front \in Seq(Blocks) /\ Ticks(front) \in Nat /\ TicksOf(block) \in Nat
  <2>1. Hand = <<>> <=> isrBufNeeded
    BY <1>1, <1>2, <1>3 DEF Hand, BinApart
  <2>2. front \in Seq(Blocks)
    BY <1>1, <1>3, BinQueues
  <2>3. CASE isrBufNeeded
    <3>1. <<>> \in Seq(Int) /\ Len(<<>>) = 0
      OBVIOUS
    <3>2. block = [overrun |-> isrOver, data |-> <<>>]
      BY <2>3 DEF AnalogBin!Block
    <3> HIDE DEF block
    <3>3. block \in Blocks /\ TicksOf(block) = isrOver
      BY <1>3, <3>1, <3>2 DEF TicksOf, Blocks, Low!Blocks
    <3>4. BinLog = front /\ Lost = isrOver
      BY <1>1, <2>1, <2>3, BinQueues DEF Lost
    <3> HIDE DEF front
    <3>5. Ticks(front) \in Nat
      BY <2>2, TicksFacts
    <3> QED  BY <1>3, <2>1, <2>2, <2>3, <3>3, <3>4, <3>5
  <2>4. CASE ~isrBufNeeded
    <3>1. BinLog = Append(front, buf[isrBuf]) /\ isrBuf \in BufferNumbers /\ Lost = 0 /\ block = buf[isrBuf]
      BY <1>1, <2>1, <2>4, BinQueues DEF Lost
    <3>2. block \in Blocks
      BY <1>3, <3>1
    <3> HIDE DEF block, front
    <3>3. Ticks(front) \in Nat /\ Ticks(BinLog) = Ticks(front) + TicksOf(block)
      BY <2>2, <3>1, <3>2, TicksFacts
    <3>4. TicksOf(block) \in Nat
      BY <3>2 DEF TicksOf, Blocks, Low!Blocks
    <3> QED  BY <2>1, <2>2, <2>4, <3>1, <3>2, <3>3, <3>4
  <2> QED  BY <2>3, <2>4
<1>18. IF isrBufNeeded THEN BinLog = front /\ Len(block.data) = 0 ELSE BinLog = Append(front, block)
  <2>1. CASE isrBufNeeded
    <3>1. BinLog = front
      BY <1>1, <1>5, <2>1, BinQueues
    <3>2. block.data = <<>>
      BY <2>1 DEF AnalogBin!Block
    <3>3. Len(block.data) = 0
      BY <3>2
    <3> QED  BY <2>1, <3>1, <3>3
  <2>2. CASE ~isrBufNeeded
    <3>1. BinLog = Append(front, buf[isrBuf])
      BY <1>1, <1>5, <2>2, BinQueues
    <3>2. block = buf[isrBuf]
      BY <2>2
    <3> QED  BY <2>2, <3>1, <3>2
  <2> QED  BY <2>1, <2>2
<1> HIDE DEF b, block
<1>6. more \in Blocks /\ TicksOf(more) = TicksOf(block) + 1 /\ more.data # <<>>
  <2>1. \A r \in Blocks : \A d : [r EXCEPT !.data = d] = [overrun |-> r.overrun, data |-> d] /\ r.overrun \in Nat /\ r.data \in Seq(Int)
    BY DEF Blocks, Low!Blocks
  <2>2. more = [overrun |-> block.overrun, data |-> Append(block.data, tick)] /\ block.overrun \in Nat /\ block.data \in Seq(Int)
    BY <1>5, <2>1
  <2>3. Append(block.data, tick) \in Seq(Int) /\ Len(Append(block.data, tick)) = Len(block.data) + 1 /\ Len(block.data) \in Nat
        /\ Append(block.data, tick) # <<>>
    <3>1. Len(Append(block.data, tick)) # 0 => Append(block.data, tick) # <<>>
      OBVIOUS
    <3> QED  BY <1>3, <2>2, <3>1
  <2> HIDE DEF more
  <2> QED  BY <2>2, <2>3 DEF Blocks, Low!Blocks, TicksOf
<1>19. more.overrun = block.overrun /\ more.data = Append(block.data, tick) /\ block.data \in Seq(Int) /\ block.overrun \in Nat
  <2>1. \A r \in Blocks : \A d : [r EXCEPT !.data = d] = [overrun |-> r.overrun, data |-> d] /\ r.overrun \in Nat /\ r.data \in Seq(Int)
    BY DEF Blocks, Low!Blocks
  <2>2. more = [overrun |-> block.overrun, data |-> Append(block.data, tick)] /\ block.overrun \in Nat /\ block.data \in Seq(Int)
    BY <1>5, <2>1
  <2> HIDE DEF more
  <2> QED  BY <2>2
<1>7. closes \in BOOLEAN
  OBVIOUS
<1> HIDE DEF more, closes
<1>8. buf' \in [BufferNumbers -> Blocks] /\ buf'[b] = more
  BY <1>2, <1>3, <1>4, <1>6
<1>9. BinTypes'
  <2>1. Append(fullQueue, b) \in Seq(BufferNumbers) /\ Append(fullQueue, b) # <<>>
    BY <1>3, <1>4, QueueFacts
  <2> QED  BY <1>1, <1>2, <1>3, <1>4, <1>7, <1>8, <2>1 DEF BinTypes
<1>10. /\ Waiting' = (IF closes THEN Append(Waiting, b) ELSE Waiting) /\ Todo' = (IF closes THEN Append(Todo, b) ELSE Todo)
       /\ Hand' = (IF closes THEN <<>> ELSE <<b>>)
  <2>1. fullQueue # <<>> => Tail(Append(fullQueue, b)) = Append(Tail(fullQueue), b)
    BY <1>3, <1>4, QueueFacts
  <2>2. 0 \notin BufferNumbers
    BY DEF BufferNumbers
  <2> QED  BY <1>2, <1>3, <1>4, <1>7, <2>1, <2>2 DEF Waiting, Todo, Hand
<1>11. BinLog' = Append(front, more)
  <2>1. Todo \in Seq(BufferNumbers) /\ ~In(b, Todo)
    BY <1>1, <1>4, BinQueues
  <2>2. Held(buf', Todo) = Held(buf, Todo)
    <3>1. Held([buf EXCEPT ![b] = more], Todo) = Held(buf, Todo)
      <4>1. buf \in [BufferNumbers -> Blocks] /\ Todo \in Seq(BufferNumbers) /\ ~In(b, Todo)
        BY <1>3, <2>1
      <4> QED  BY ONLY <4>1, HeldSame, Zenon
    <3> QED  BY <1>2, <3>1
  <2>3. Todo' \o Hand' = Append(Todo, b)
    <3>1. CASE closes
      <4>1. Todo' = Append(Todo, b) /\ Hand' = <<>> /\ Append(Todo, b) \in Seq(BufferNumbers)
        BY <1>4, <1>10, <2>1, <3>1
      <4> QED  BY <4>1
    <3>2. CASE ~closes
      BY <1>4, <1>10, <2>1, <3>2
    <3> QED  BY <3>1, <3>2, <1>7
  <2>4. Held(buf', Todo' \o Hand') = Append(Held(buf, Todo), more)
    BY <1>4, <1>8, <2>1, <2>2, <2>3, HeldAppend
  <2>5. Held(buf, Todo) \in Seq(Blocks)
    BY <1>1, BinQueues
  <2>6. file \o Append(Held(buf, Todo), more) = Append(front, more)
    <3>1. file \in Seq(Blocks) /\ Held(buf, Todo) \in Seq(Blocks) /\ more \in Blocks
      BY <1>3, <1>6, <2>5
    <3>2. file \o Append(Held(buf, Todo), more) = Append(file \o Held(buf, Todo), more)
      BY ONLY <3>1
    <3> QED  BY <3>2
  <2> QED  BY <1>2, <2>4, <2>6 DEF BinLog
<1>12. Lost' = 0
  BY <1>2, <1>7 DEF Lost
<1> HIDE DEF front
<1>13. BinTicks'
  <2>1. Ticks(BinLog') = Ticks(front) + TicksOf(block) + 1
    BY <1>5, <1>6, <1>11, TicksFacts
  <2>2. Ticks(BinLog) + Lost = tick
    BY <1>1, <1>2 DEF BinTicks
  <2>3. Ticks(BinLog) \in Nat /\ Lost \in Nat
    BY <1>1, <1>3, BinQueues, TicksFacts DEF Lost
  <2>4. Ticks(front) + TicksOf(block) = tick
    BY <1>3, <1>5, <2>2, <2>3
  <2> QED  BY <1>2, <1>3, <1>12, <2>1, <2>4 DEF BinTicks
<1>14. BinLast'
  <2>1. Append(front, more) # <<>> /\ Append(front, more)[Len(Append(front, more))] = more
    BY <1>5, <1>6
  <2> QED  BY <1>2, <1>6, <1>8, <1>11, <2>1 DEF BinLast
<1>20. BinFirst'
  BY <1>2, <1>3 DEF BinFirst
<1>15. BinApart'
  <2>1. Waiting \in Seq(BufferNumbers) /\ Distinct(Waiting) /\ \A n \in BufferNumbers : ~(In(n, Waiting) /\ In(n, emptyQueue))
    BY <1>1, <1>2, BinQueues DEF BinApart
  <2>2. /\ Distinct(Append(Waiting, b))
        /\ \A m : In(m, Append(Waiting, b)) <=> In(m, Waiting) \/ m = b
    BY <1>4, <2>1, QueueFacts
  <2>3. Distinct(Waiting') /\ \A n \in BufferNumbers : ~(In(n, Waiting') /\ In(n, emptyQueue'))
    BY <1>4, <1>7, <1>10, <2>1, <2>2
  <2>4. ~isrBufNeeded' => isrBuf' # 0 /\ ~In(isrBuf', Waiting') /\ ~In(isrBuf', emptyQueue')
    BY <1>2, <1>4, <1>10 DEF BufferNumbers
  <2> QED  BY <1>4, <2>3, <2>4 DEF BinApart
<1>16. BinEnd'
  BY <1>1, <1>2 DEF BinEnd
<1>17. BinTimes'
  <2>1. InTime(BinLog) /\ \A k \in 1 .. Len(BinLog) : BinLog[k].data # <<>>
    BY <1>1, <1>2 DEF BinTimes
  <2>2. tick = Ticks(front) + block.overrun + Len(block.data)
    <3>1. Ticks(BinLog) + Lost = tick
      BY <1>1, <1>2 DEF BinTicks
    <3>2. TicksOf(block) = block.overrun + Len(block.data) /\ Len(block.data) \in Nat
      BY <1>19 DEF TicksOf
    <3> QED  BY <1>3, <1>5, <1>19, <3>1, <3>2
  <2>3. InTime(front) /\ InTimeAfter(front, block) /\ \A k \in 1 .. Len(front) : front[k].data # <<>>
    <3>1. CASE isrBufNeeded
      <4>1. InTimeAfter(front, block)
        BY <1>18, <3>1 DEF InTimeAfter
      <4> QED  BY <1>18, <2>1, <3>1, <4>1
    <3>2. CASE ~isrBufNeeded
      <4>1. BinLog = Append(front, block) /\ front \in Seq(Blocks) /\ block \in Blocks
        BY <1>5, <1>18, <3>2
      <4>2. InTime(front) /\ InTimeAfter(front, block)
        BY <2>1, <4>1, InTimeAppend
      <4>3. Len(BinLog) = Len(front) + 1 /\ Len(front) \in Nat /\ \A k \in 1 .. Len(front) : BinLog[k] = front[k]
        BY <4>1
      <4>4. \A k \in 1 .. Len(front) : k \in 1 .. Len(BinLog)
        BY <4>3
      <4> QED  BY <2>1, <4>2, <4>3, <4>4
    <3> QED  BY <3>1, <3>2
  <2>4. InTimeAfter(front, more)
    <3> DEFINE d == block.data
               e == more.data
    <3>1. e = Append(d, tick) /\ d \in Seq(Int) /\ tick \in Int
      BY <1>3, <1>19
    <3>2. \A i \in 1 .. Len(d) : d[i] = Ticks(front) + block.overrun + i - 1
      BY <2>3 DEF InTimeAfter
    <3>3. tick = Ticks(front) + block.overrun + Len(d) /\ Ticks(front) \in Nat /\ more.overrun = block.overrun
      BY <1>5, <1>19, <2>2
    <3> HIDE DEF d, e
    <3>4. Len(e) = Len(d) + 1 /\ Len(d) \in Nat /\ e[Len(d) + 1] = tick /\ \A i \in 1 .. Len(d) : e[i] = d[i]
      BY <3>1
    <3>5. ASSUME NEW i \in 1 .. Len(e) PROVE e[i] = Ticks(front) + more.overrun + i - 1
      <4>1. CASE i \in 1 .. Len(d)
        BY <4>1, <3>2, <3>3, <3>4
      <4>2. CASE i = Len(d) + 1
        BY <4>2, <1>19, <3>3, <3>4
      <4>3. i \in 1 .. Len(d) \/ i = Len(d) + 1
        BY <3>4
      <4> QED  BY <4>1, <4>2, <4>3
    <3> QED  BY <3>5 DEF InTimeAfter, e
  <2>5. InTime(Append(front, more))
    BY <1>5, <1>6, <2>3, <2>4, InTimeAppend
  <2>6. \A k \in 1 .. Len(Append(front, more)) : Append(front, more)[k].data # <<>>
    <3>1. /\ Len(Append(front, more)) = Len(front) + 1 /\ Len(front) \in Nat
          /\ \A k \in 1 .. Len(front) + 1 : Append(front, more)[k] = IF k <= Len(front) THEN front[k] ELSE more
      BY <1>5, <1>6
    <3> QED  BY <1>6, <2>3, <3>1
  <2> QED  BY <1>11, <2>5, <2>6 DEF BinTimes
<1> QED  BY <1>9, <1>13, <1>14, <1>15, <1>16, <1>17, <1>20 DEF BinInv

\* The first full block is written.
LEMMA BinWrite == ASSUME BinInv, AnalogBin!Write PROVE BinInv'
<1>1. BinTypes /\ BinApart /\ BinTicks /\ BinFirst /\ BinLast /\ BinTimes /\ BinEnd
  BY DEF BinInv
<1>2. /\ pc = "loop" /\ UNCHANGED <<typed, adc, tick, isrBufNeeded, isrOver, buf, isrBuf, emptyQueue, fullQueue>>
      /\ \/ fullQueue = <<>> /\ pc' = "serial" /\ file' = file
         \/ fullQueue # <<>> /\ pc' = "empty" /\ file' = Append(file, buf[Head(fullQueue)])
  BY DEF AnalogBin!Write, AnalogBin!isr
<1>3. Waiting' = Waiting /\ Hand' = Hand /\ Lost' = Lost
  BY <1>2 DEF Waiting, Hand, Lost
<1>4. /\ file \in Seq(Blocks) /\ buf \in [BufferNumbers -> Blocks] /\ fullQueue \in Seq(BufferNumbers)
      /\ Hand \in Seq(BufferNumbers)
  BY <1>1, BinQueues DEF BinTypes
<1>5. BinLog' = BinLog /\ BinTypes'
  <2>1. CASE fullQueue = <<>>
    <3>1. Todo' = Todo /\ file' = file /\ buf' = buf /\ pc' = "serial"
      BY <1>2, <2>1 DEF Todo
    <3> QED  BY <1>1, <1>2, <1>3, <3>1 DEF BinLog, BinTypes
  <2>2. CASE fullQueue # <<>>
    <3>1. Todo = fullQueue /\ Todo' = Tail(fullQueue) /\ file' = Append(file, buf[Head(fullQueue)]) /\ buf' = buf /\ pc' = "empty"
      BY <1>2, <2>2 DEF Todo
    <3> DEFINE q == fullQueue \o Hand
               r == Tail(fullQueue) \o Hand
               x == buf[Head(fullQueue)]
    <3>2. q \in Seq(BufferNumbers) /\ q # <<>> /\ Head(q) = Head(fullQueue) /\ Tail(q) = r /\ r \in Seq(BufferNumbers)
          /\ Head(fullQueue) \in BufferNumbers
      BY <1>4, <2>2
    <3>3. x \in Blocks
      BY <1>4, <3>2
    <3>4. Held(buf, q) = <<x>> \o Held(buf, r)
      <4>0. Len(q) > 0
        BY <3>2
      <4>1. Held(buf, q) = <<buf[Head(q)]>> \o Held(buf, Tail(q))
        BY <1>4, <3>2, <4>0, HeldHead
      <4> HIDE DEF q, r
      <4> QED  BY <4>1, <3>2
    <3>5. Held(buf, r) \in Seq(Blocks)
      BY <1>4, <3>2, HeldItems
    <3>6. BinLog = file \o Held(buf, q) /\ BinLog' = Append(file, x) \o Held(buf, r)
      BY <1>3, <3>1 DEF BinLog
    <3> HIDE DEF q, r, x
    <3>7. file \o (<<x>> \o Held(buf, r)) = Append(file, x) \o Held(buf, r)
      <4>1. file \in Seq(Blocks) /\ x \in Blocks /\ Held(buf, r) \in Seq(Blocks)
        BY <1>4, <3>3, <3>5
      <4> QED  BY ONLY <4>1
    <3>8. BinLog' = BinLog
      BY <3>4, <3>6, <3>7
    <3>9. file' \in Seq(Blocks)
      BY <1>4, <3>1, <3>3 DEF x
    <3> QED  BY <1>1, <1>2, <2>2, <3>1, <3>8, <3>9 DEF BinTypes
  <2> QED  BY <2>1, <2>2
<1>6. BinApart'
  BY <1>1, <1>2, <1>3 DEF BinApart
<1>7. BinTicks' /\ BinFirst' /\ BinLast' /\ BinTimes'
  BY <1>1, <1>2, <1>3, <1>5 DEF BinTicks, BinFirst, BinLast, BinTimes
<1>8. BinEnd'
  BY <1>1, <1>2 DEF BinEnd
<1> QED  BY <1>5, <1>6, <1>7, <1>8 DEF BinInv

\* Its buffer goes to the empty ones.
LEMMA BinMoveToEmpty == ASSUME BinInv, AnalogBin!MoveToEmpty PROVE BinInv'
<1>1. BinTypes /\ BinApart /\ BinTicks /\ BinFirst /\ BinLast /\ BinTimes /\ BinEnd
  BY DEF BinInv
<1>2. /\ pc = "empty" /\ pc' = "next" /\ emptyQueue' = Append(emptyQueue, Head(fullQueue))
      /\ UNCHANGED <<typed, file, adc, tick, isrBufNeeded, isrOver, buf, isrBuf, fullQueue>>
  BY DEF AnalogBin!MoveToEmpty, AnalogBin!isr
<1>3. Todo' = Todo /\ Hand' = Hand /\ Lost' = Lost /\ Waiting = fullQueue /\ Waiting' = Tail(fullQueue)
  BY <1>2 DEF Todo, Hand, Lost, Waiting
<1>4. BinLog' = BinLog
  BY <1>2, <1>3 DEF BinLog
<1>5. /\ emptyQueue \in Seq(BufferNumbers) /\ fullQueue \in Seq(BufferNumbers) /\ fullQueue # <<>>
      /\ Head(fullQueue) \in BufferNumbers
  BY <1>1, <1>2 DEF BinTypes
<1>6. /\ Append(emptyQueue, Head(fullQueue)) \in Seq(BufferNumbers) /\ In(Head(fullQueue), fullQueue)
      /\ \A m : In(m, Append(emptyQueue, Head(fullQueue))) <=> In(m, emptyQueue) \/ m = Head(fullQueue)
      /\ Distinct(emptyQueue) /\ ~In(Head(fullQueue), emptyQueue) => Distinct(Append(emptyQueue, Head(fullQueue)))
      /\ \A m : In(m, Tail(fullQueue)) => In(m, fullQueue)
      /\ Distinct(fullQueue) => Distinct(Tail(fullQueue)) /\ ~In(Head(fullQueue), Tail(fullQueue))
  BY <1>5, QueueFacts
<1>7. BinTypes'
  BY <1>1, <1>2, <1>5, <1>6 DEF BinTypes
<1>8. BinApart'
  <2> SUFFICES ASSUME adc' PROVE BinApart'
    BY DEF BinApart
  <2>1. /\ Distinct(fullQueue) /\ Distinct(emptyQueue) /\ \A n \in BufferNumbers : ~(In(n, fullQueue) /\ In(n, emptyQueue))
        /\ ~isrBufNeeded => isrBuf # 0 /\ ~In(isrBuf, fullQueue) /\ ~In(isrBuf, emptyQueue)
    BY <1>1, <1>2, <1>3 DEF BinApart
  <2>2. Distinct(Waiting') /\ Distinct(emptyQueue') /\ \A n \in BufferNumbers : ~(In(n, Waiting') /\ In(n, emptyQueue'))
    BY <1>2, <1>3, <1>5, <1>6, <2>1
  <2>3. ~isrBufNeeded' => isrBuf' # 0 /\ ~In(isrBuf', Waiting') /\ ~In(isrBuf', emptyQueue')
    BY <1>2, <1>3, <1>6, <2>1
  <2> QED  BY <2>2, <2>3 DEF BinApart
<1>9. BinTicks' /\ BinFirst' /\ BinLast' /\ BinTimes' /\ BinEnd'
  <2>1. emptyQueue' # <<>>
    BY <1>2, <1>5, <1>6, QueueFacts
  <2> QED  BY <1>1, <1>2, <1>3, <1>4, <2>1 DEF BinTicks, BinFirst, BinLast, BinTimes, BinEnd
<1> QED  BY <1>7, <1>8, <1>9 DEF BinInv

\* It leaves the queue of full ones.
LEMMA BinNextBlock == ASSUME BinInv, AnalogBin!NextBlock PROVE BinInv'
<1>1. BinTypes /\ BinApart /\ BinTicks /\ BinFirst /\ BinLast /\ BinTimes /\ BinEnd
  BY DEF BinInv
<1>2. /\ pc = "next" /\ fullQueue' = Tail(fullQueue)
      /\ \/ Len(file) = FileBlocks /\ pc' = "done" /\ adc' = FALSE
         \/ pc' = "serial" /\ adc' = adc
      /\ UNCHANGED <<typed, file, tick, isrBufNeeded, isrOver, buf, isrBuf, emptyQueue>>
  BY DEF AnalogBin!NextBlock, AnalogBin!isr
<1>3. Todo' = Todo /\ Hand' = Hand /\ Lost' = Lost /\ Waiting' = Waiting
  BY <1>2 DEF Todo, Hand, Lost, Waiting
<1>4. BinLog' = BinLog
  BY <1>2, <1>3 DEF BinLog
<1>5. BinTypes'
  <2>1. Tail(fullQueue) \in Seq(BufferNumbers)
    BY <1>1, <1>2 DEF BinTypes
  <2> QED  BY <1>1, <1>2, <2>1 DEF BinTypes
<1>6. adc' => adc
  BY <1>2
<1>7. BinApart'
  BY <1>1, <1>2, <1>3, <1>6 DEF BinApart
<1>8. BinTicks' /\ BinFirst' /\ BinLast' /\ BinTimes'
  BY <1>1, <1>2, <1>3, <1>4, <1>6 DEF BinTicks, BinFirst, BinLast, BinTimes
<1>9. BinEnd'
  BY <1>1, <1>2, BinSizes DEF BinEnd
<1> QED  BY <1>5, <1>7, <1>8, <1>9 DEF BinInv

\* A character stops the ADC; the block in hand goes into the queue.
LEMMA BinSerial == ASSUME BinInv, AnalogBin!Serial PROVE BinInv'
<1>1. BinTypes /\ BinApart /\ BinTicks /\ BinFirst /\ BinLast /\ BinTimes /\ BinEnd
  BY DEF BinInv
<1>2. pc = "serial" /\ UNCHANGED <<typed, file, tick, isrBufNeeded, isrOver, buf, emptyQueue>>
  BY DEF AnalogBin!Serial, AnalogBin!isr
<1>3. /\ file \in Seq(Blocks) /\ buf \in [BufferNumbers -> Blocks] /\ fullQueue \in Seq(BufferNumbers)
      /\ isrBuf \in {0} \cup BufferNumbers /\ 0 \notin BufferNumbers
  BY <1>1 DEF BinTypes, BufferNumbers
<1>4. Todo = fullQueue /\ Waiting = fullQueue
  BY <1>2 DEF Todo, Waiting
<1>5. ASSUME pc' \in {"loop", "done"} PROVE Todo' = fullQueue' /\ Waiting' = fullQueue' /\ Lost' = Lost
  BY <1>2, <1>5 DEF Todo, Waiting, Lost
<1>6. CASE ~typed
  <2>1. pc' = "loop" /\ UNCHANGED <<adc, isrBuf, fullQueue>>
    BY <1>6 DEF AnalogBin!Serial
  <2>2. Todo' = Todo /\ Waiting' = Waiting /\ Hand' = Hand /\ Lost' = Lost
    BY <1>2, <1>4, <1>5, <2>1 DEF Hand
  <2>3. BinLog' = BinLog
    BY <1>2, <2>2 DEF BinLog
  <2> QED  BY <1>1, <1>2, <2>1, <2>2, <2>3 DEF BinInv, BinTypes, BinApart, BinTicks, BinFirst, BinLast, BinTimes, BinEnd
<1>7. CASE typed /\ isrBuf # 0 /\ buf[isrBuf].data # <<>>
  <2>1. /\ adc' = FALSE /\ fullQueue' = Append(fullQueue, isrBuf) /\ isrBuf' = 0
        /\ pc' = (IF fullQueue' = <<>> THEN "done" ELSE "loop")
    BY <1>7 DEF AnalogBin!Serial
  <2>2. isrBuf \in BufferNumbers /\ fullQueue' \in Seq(BufferNumbers) /\ fullQueue' # <<>>
    <3>1. isrBuf \in BufferNumbers
      BY <1>3, <1>7
    <3>2. Append(fullQueue, isrBuf) \in Seq(BufferNumbers) /\ Append(fullQueue, isrBuf) # <<>>
      BY <1>3, <3>1, QueueFacts
    <3> QED  BY <2>1, <3>1, <3>2
  <2>3. Todo' = Append(Todo, isrBuf) /\ Hand' = <<>> /\ Lost' = Lost /\ pc' = "loop"
    BY <1>2, <1>4, <1>5, <2>1, <2>2 DEF Hand
  <2>4. BinTypes'
    BY <1>1, <1>2, <2>1, <2>2, <2>3 DEF BinTypes
  <2>5. BinApart' /\ BinFirst' /\ BinLast' /\ BinEnd'
    BY <2>1, <2>3 DEF BinApart, BinFirst, BinLast, BinEnd
  <2>6. BinLog' = Append(file \o Held(buf, Todo), buf[isrBuf])
    <3>1. Held(buf, Append(Todo, isrBuf)) = Append(Held(buf, Todo), buf[isrBuf]) /\ buf[isrBuf] \in Blocks
      BY <1>3, <1>4, <2>2, HeldAppend
    <3>2. Append(Todo, isrBuf) \o <<>> = Append(Todo, isrBuf)
      BY <1>3, <1>4, <2>2
    <3>3. BinLog' = file \o Append(Held(buf, Todo), buf[isrBuf])
      BY <1>2, <2>3, <3>1, <3>2 DEF BinLog
    <3>4. Held(buf, Todo) \in Seq(Blocks)
      BY <1>1, BinQueues
    <3> QED  BY <1>3, <3>1, <3>3, <3>4
  <2>7. adc
    BY <1>1, <1>2, <1>7 DEF BinEnd, BinTypes
  <2>8. Ticks(BinLog) + Lost = tick
    BY <1>1, <2>7 DEF BinTicks
  <2>9. CASE ~isrBufNeeded
    <3>1. Hand = <<isrBuf>>
      BY <1>7, <2>9 DEF Hand
    <3>2. Hand # <<>>
      BY <3>1
    <3>3. BinLog' = BinLog
      BY <1>1, <2>6, <3>2, BinQueues
    <3>4. BinTicks'
      BY <1>2, <2>3, <2>8, <3>3 DEF BinTicks
    <3>5. BinTimes'
      BY <1>1, <2>1, <3>3 DEF BinTimes
    <3> QED  BY <2>4, <2>5, <3>4, <3>5 DEF BinInv
  <2>11. CASE tick = 0
    <3>1. isrBufNeeded /\ BinLog = <<>> /\ buf[isrBuf] = AnalogBin!Stale
      <4>1. AnalogBin!Blank.data = <<>>
        BY DEF AnalogBin!Blank, AnalogBin!Block
      <4> QED  BY <1>1, <1>7, <2>7, <2>11, <4>1 DEF BinFirst
    <3>2. Hand = <<>>
      BY <3>1 DEF Hand
    <3>3. BinLog' = Append(BinLog, buf[isrBuf])
      BY <1>1, <2>6, <3>2, BinQueues
    <3>4. BinLog' = <<AnalogBin!Stale>>
      BY <3>1, <3>3
    <3>5. BinTicks'
      BY <1>2, <2>1, <2>11, <3>4 DEF BinTicks
    <3>6. BinTimes'
      BY <2>1, <3>4, StaleFacts DEF BinTimes
    <3> QED  BY <2>4, <2>5, <3>5, <3>6 DEF BinInv
  <2>10. CASE isrBufNeeded /\ tick # 0
    <3>1. Hand = <<>>
      BY <2>10 DEF Hand
    <3>2. BinLog' = Append(BinLog, buf[isrBuf]) /\ BinLog \in Seq(Blocks)
      BY <1>1, <2>6, <3>1, BinQueues
    <3>3. BinLog # <<>> /\ BinLog[Len(BinLog)] = buf[isrBuf] /\ buf[isrBuf] \in Blocks
      BY <1>1, <1>3, <1>7, <2>2, <2>7, <2>10 DEF BinLast
    <3> DEFINE f == BinLog
               x == buf[isrBuf]
    <3> HIDE DEF f, x
    <3>4. ASSUME f \in Seq(Blocks), f # <<>>, f[Len(f)] = x, x \in Blocks
          PROVE  Twice(Append(f, x)) /\ SubSeq(Append(f, x), 1, Len(Append(f, x)) - 1) = f
      <4>1. /\ Append(f, x) \in Seq(Blocks) /\ Len(Append(f, x)) = Len(f) + 1 /\ Len(f) \in Nat /\ Len(f) > 0
            /\ \A i \in 1 .. Len(f) + 1 : Append(f, x)[i] = IF i <= Len(f) THEN f[i] ELSE x
        BY <3>4
      <4>2. Twice(Append(f, x))
        BY <4>1, <3>4 DEF Twice
      <4> DEFINE g == Append(f, x)
      <4> HIDE DEF g
      <4>3. ASSUME g \in Seq(Blocks), Len(g) = Len(f) + 1, \A i \in 1 .. Len(f) : g[i] = f[i]
            PROVE  SubSeq(g, 1, Len(f)) = f
        <5>1. SubSeq(g, 1, Len(f)) \in Seq(Blocks) /\ Len(SubSeq(g, 1, Len(f))) = Len(f)
              /\ \A i \in 1 .. Len(f) : SubSeq(g, 1, Len(f))[i] = g[i]
          BY <4>1, <4>3
        <5> QED  BY <3>4, <4>3, <5>1, Low!SeqSame
      <4>4. g \in Seq(Blocks) /\ Len(g) = Len(f) + 1 /\ \A i \in 1 .. Len(f) : g[i] = f[i]
        BY <4>1 DEF g
      <4>5. SubSeq(g, 1, Len(g) - 1) = f
        BY <4>1, <4>3, <4>4
      <4> QED  BY <4>2, <4>5 DEF g
    <3>5. Twice(BinLog') /\ SubSeq(BinLog', 1, Len(BinLog') - 1) = BinLog
      BY <3>2, <3>3, <3>4 DEF f, x
    <3>6. BinTicks'
      BY <1>2, <2>1, <2>3, <2>8, <3>5 DEF BinTicks
    <3>7. BinTimes'
      <4>1. f \in Seq(Blocks) /\ x \in Blocks /\ BinLog' = Append(f, x) /\ x.data # <<>> /\ \A k \in 1 .. Len(f) : f[k].data # <<>>
        BY <1>1, <1>7, <3>2, <3>3 DEF BinTimes, f, x
      <4>2. /\ Len(Append(f, x)) = Len(f) + 1 /\ Len(f) \in Nat
            /\ \A k \in 1 .. Len(f) + 1 : Append(f, x)[k] = IF k <= Len(f) THEN f[k] ELSE x
        BY <4>1
      <4>3. \A k \in 1 .. Len(Append(f, x)) : Append(f, x)[k].data # <<>>
        BY <4>1, <4>2
      <4> QED  BY <2>1, <4>1, <4>3 DEF BinTimes
    <3> QED  BY <2>4, <2>5, <3>6, <3>7 DEF BinInv
  <2> QED  BY <2>9, <2>10, <2>11
<1>8. CASE typed /\ ~(isrBuf # 0 /\ buf[isrBuf].data # <<>>)
  <2>1. /\ adc' = FALSE /\ fullQueue' = fullQueue /\ isrBuf' = isrBuf
        /\ pc' = (IF fullQueue = <<>> THEN "done" ELSE "loop")
    BY <1>8 DEF AnalogBin!Serial
  <2>2. isrBuf = 0 \/ (isrBufNeeded /\ fullQueue = <<>>)
    <3>1. ASSUME isrBuf # 0 PROVE isrBufNeeded /\ fullQueue = <<>>
      <4>1. adc
        BY <1>1, <1>2, <3>1 DEF BinEnd, BinTypes
      <4>2. tick = 0
        BY <1>1, <1>8, <3>1, <4>1 DEF BinLast
      <4>3. isrBufNeeded /\ BinLog = <<>>
        BY <1>1, <4>1, <4>2 DEF BinFirst
      <4>4. Hand = <<>>
        BY <4>3 DEF Hand
      <4>5. BinLog = file \o Held(buf, fullQueue) /\ Held(buf, fullQueue) \in Seq(Blocks)
        BY <1>1, <1>4, <4>4, BinQueues
      <4>6. Len(Held(buf, fullQueue)) = 0
        BY <1>3, <4>3, <4>5, EmptyTail
      <4>7. Len(fullQueue) = 0
        BY <1>3, <4>6 DEF Held
      <4> QED  BY <1>3, <4>3, <4>7
    <3> QED  BY <3>1
  <2>3. Todo' = Todo /\ Hand' = Hand /\ Lost' = Lost
    BY <1>2, <1>4, <1>5, <2>1 DEF Hand
  <2>4. BinLog' = BinLog
    BY <1>2, <2>3 DEF BinLog
  <2>5. BinTypes'
    BY <1>1, <1>2, <2>1 DEF BinTypes
  <2>6. BinApart' /\ BinFirst' /\ BinLast' /\ BinEnd'
    <3>1. Hand = <<>>
      BY <2>2 DEF Hand
    <3> QED  BY <2>1, <2>2, <2>3, <3>1 DEF BinApart, BinFirst, BinLast, BinEnd
  <2>7. BinTicks'
    BY <1>1, <1>2, <2>1, <2>3, <2>4 DEF BinTicks
  <2>8. BinTimes'
    BY <1>1, <2>1, <2>4 DEF BinTimes
  <2> QED  BY <2>5, <2>6, <2>7, <2>8 DEF BinInv
<1> QED  BY <1>6, <1>7, <1>8

\* Every step keeps the invariant.
LEMMA BinSteps == ASSUME BinInv, AnalogBin!Next \/ UNCHANGED vars PROVE BinInv'
<1>1. CASE AnalogBin!Type \/ UNCHANGED vars
  <2>1. /\ typed' \in BOOLEAN
        /\ UNCHANGED <<pc, file, adc, tick, isrBufNeeded, isrOver, buf, isrBuf, emptyQueue, fullQueue>>
    BY <1>1 DEF AnalogBin!Type, AnalogBin!isr, vars, common, queued, BinInv, BinTypes
  <2>2. Todo' = Todo /\ Waiting' = Waiting /\ Hand' = Hand /\ Lost' = Lost
    BY <2>1 DEF Todo, Waiting, Hand, Lost
  <2>3. BinLog' = BinLog
    BY <2>1, <2>2 DEF BinLog
  <2> QED  BY <2>1, <2>2, <2>3 DEF BinInv, BinTypes, BinApart, BinTicks, BinFirst, BinLast, BinTimes, BinEnd
<1> QED  BY <1>1, BinOverrun, BinSample, BinWrite, BinMoveToEmpty, BinNextBlock, BinSerial DEF AnalogBin!Next, AnalogBin!Step

\* What is read back is in time while the ADC runs.
LEMMA BinReads == ASSUME BinInv PROVE (adc => InTime(Csv("AnalogBin", file))) /\ ReadersAgree("AnalogBin", file)
<1>1. BinTypes /\ BinTimes
  BY DEF BinInv
<1> DEFINE rest == Held(buf, Todo \o Hand)
<1>2. file \in Seq(Blocks) /\ rest \in Seq(Blocks) /\ BinLog = file \o rest
  <2>1. Todo \o Hand \in Seq(BufferNumbers) /\ buf \in [BufferNumbers -> Blocks] /\ file \in Seq(Blocks)
    BY <1>1, BinQueues DEF BinTypes
  <2> QED  BY <2>1, HeldItems DEF BinLog
<1> HIDE DEF rest
<1>3. \A k \in 1 .. Len(file) : file[k].data # <<>>
  <2>1. Len(file \o rest) = Len(file) + Len(rest) /\ \A k \in 1 .. Len(file) : (file \o rest)[k] = file[k]
    BY <1>2
  <2>2. \A k \in 1 .. Len(file) : k \in 1 .. Len(file \o rest)
    BY <1>2, <2>1
  <2> QED  BY <1>1, <1>2, <2>1, <2>2 DEF BinTimes
<1>4. adc => InTime(file)
  <2>1. adc => InTime(file \o rest)
    BY <1>1, <1>2 DEF BinTimes
  <2> QED  BY <1>2, <2>1, InTimePrefix
<1> QED  BY <1>2, <1>3, <1>4, TextRight, AnalogBinReads

\* The invariant implies what is promised.
LEMMA BinSafe == ASSUME BinInv PROVE AnalogBin!Accounted /\ AnalogBin!Apart
<1>1. BinTypes /\ BinApart /\ BinTicks /\ BinFirst /\ BinLast /\ BinTimes /\ BinEnd
  BY DEF BinInv
<1>2. AnalogBin!Accounted
  <2>1. CASE pc = "done" /\ Len(file) < FileBlocks
    <3>1. fullQueue = <<>> /\ Hand = <<>> /\ file \in Seq(Blocks)
      BY <1>1, <2>1 DEF BinEnd, BinTypes
    <3>2. BinLog = file
      <4>1. Todo \o Hand = <<>> /\ Held(buf, <<>>) = <<>> /\ file \o <<>> = file
        BY <2>1, <3>1 DEF Todo, Held
      <4> QED  BY <4>1 DEF BinLog
    <3> QED  BY <1>1, <3>2, TicksAlike DEF BinTicks, Twice, Lost, AnalogBin!Accounted
  <2>2. CASE ~(pc = "done" /\ Len(file) < FileBlocks)
    BY <2>2 DEF AnalogBin!Accounted
  <2> QED  BY <2>1, <2>2
<1>3. AnalogBin!Apart
  <2>1. CASE adc
    <3> DEFINE hand == IF isrBufNeeded THEN <<>> ELSE <<isrBuf>>
               front == Waiting \o hand
               all == front \o emptyQueue
    <3>1. Waiting \in Seq(BufferNumbers) /\ emptyQueue \in Seq(BufferNumbers) /\ isrBufNeeded \in BOOLEAN
          /\ (~isrBufNeeded => isrBuf \in BufferNumbers)
      BY <1>1, <2>1, BinQueues DEF BinTypes, BinApart
    <3>2. /\ Distinct(Waiting) /\ Distinct(emptyQueue) /\ \A n \in BufferNumbers : ~(In(n, Waiting) /\ In(n, emptyQueue))
          /\ ~isrBufNeeded => ~In(isrBuf, Waiting) /\ ~In(isrBuf, emptyQueue)
      BY <1>1, <2>1 DEF BinApart
    <3>3. front \in Seq(BufferNumbers) /\ Distinct(front) /\ \A n \in BufferNumbers : ~(In(n, front) /\ In(n, emptyQueue))
      <4>1. CASE isrBufNeeded
        <5>1. front = Waiting
          BY <3>1, <4>1
        <5> QED  BY <3>1, <3>2, <5>1
      <4>2. CASE ~isrBufNeeded
        <5>1. front = Append(Waiting, isrBuf)
          BY <3>1, <4>2
        <5>2. /\ Append(Waiting, isrBuf) \in Seq(BufferNumbers) /\ Distinct(Append(Waiting, isrBuf))
              /\ \A m : In(m, Append(Waiting, isrBuf)) <=> In(m, Waiting) \/ m = isrBuf
          BY <3>1, <3>2, <4>2, QueueFacts
        <5> QED  BY <3>2, <4>2, <5>1, <5>2
      <4> QED  BY <4>1, <4>2
    <3> HIDE DEF front
    <3>4. /\ all \in Seq(BufferNumbers) /\ Len(all) = Len(front) + Len(emptyQueue)
          /\ \A i \in 1 .. Len(front) + Len(emptyQueue) : all[i] = IF i <= Len(front) THEN front[i] ELSE emptyQueue[i - Len(front)]
      BY <3>1, <3>3, Low!ConcatItems
    <3>5. Len(front) \in Nat /\ Len(emptyQueue) \in Nat
      BY <3>1, <3>3
    <3> HIDE DEF all
    <3>6. \A i \in 1 .. Len(front), j \in 1 .. Len(emptyQueue) : front[i] # emptyQueue[j]
      BY <3>1, <3>3 DEF In
    <3>7. ASSUME NEW i \in 1 .. Len(all), NEW j \in 1 .. Len(all), all[i] = all[j] PROVE i = j
      <4>1. CASE i <= Len(front) /\ j <= Len(front)
        <5>1. i \in 1 .. Len(front) /\ j \in 1 .. Len(front)
          BY <3>4, <3>5, <4>1
        <5> QED  BY <3>3, <3>4, <3>7, <4>1, <5>1 DEF Distinct
      <4>2. CASE i > Len(front) /\ j > Len(front)
        <5>1. i - Len(front) \in 1 .. Len(emptyQueue) /\ j - Len(front) \in 1 .. Len(emptyQueue) /\ ~(i <= Len(front)) /\ ~(j <= Len(front))
          BY <3>4, <3>5, <4>2
        <5>2. emptyQueue[i - Len(front)] = emptyQueue[j - Len(front)]
          BY <3>4, <3>7, <5>1
        <5>3. i - Len(front) = j - Len(front)
          BY <3>2, <5>1, <5>2 DEF Distinct
        <5> QED  BY <3>4, <3>5, <5>3
      <4>3. CASE i <= Len(front) /\ j > Len(front)
        <5>1. i \in 1 .. Len(front) /\ j - Len(front) \in 1 .. Len(emptyQueue) /\ ~(j <= Len(front))
          BY <3>4, <3>5, <4>3
        <5> QED  BY <3>4, <3>6, <3>7, <4>3, <5>1
      <4>4. CASE i > Len(front) /\ j <= Len(front)
        <5>1. j \in 1 .. Len(front) /\ i - Len(front) \in 1 .. Len(emptyQueue) /\ ~(i <= Len(front))
          BY <3>4, <3>5, <4>4
        <5> QED  BY <3>4, <3>6, <3>7, <4>4, <5>1
      <4> QED  BY <3>4, <3>5, <4>1, <4>2, <4>3, <4>4
    <3>8. DOMAIN all = 1 .. Len(all)
      BY <3>4
    <3>9. \A i, j \in DOMAIN all : all[i] = all[j] => i = j
      BY <3>7, <3>8
    <3> QED  BY Zenon, <3>9 DEF all, front, Waiting, AnalogBin!Apart
  <2>2. CASE ~adc
    BY <2>2 DEF AnalogBin!Apart
  <2> QED  BY <2>1, <2>2
<1> QED  BY <1>2, <1>3
-----------------------------------------------------------------------------
\* A step is one of the sketch that runs, which stays the one that runs.
LEMMA OneRuns ==
  ASSUME [Next]_vars
  PROVE  /\ sketch' = sketch
         /\ sketch = "LowLatency" => LowLatency!Next \/ UNCHANGED vars
         /\ sketch = "Adxl345" => Adxl345Step \/ Adxl345Loop(TRUE) \/ Adxl345Reset \/ Adxl345!Type \/ UNCHANGED vars
         /\ sketch = "Mpu6050" => Mpu6050Step \/ Mpu6050Loop(TRUE) \/ Mpu6050Reset \/ Mpu6050!Type \/ UNCHANGED vars
         /\ sketch = "AnalogBin" => AnalogBin!Next \/ UNCHANGED vars
         /\ sketch = "AvrAdc" => AvrAdc!Next \/ UNCHANGED vars
         /\ sketch = "ExFat" => ExFat!Next \/ UNCHANGED vars
         /\ sketch = "TeensyDma" => TeensyDma!Next \/ UNCHANGED vars
BY DEF Next, vars, LowLatencyStays, AnalogBinStays, AvrAdcStays, ExFatStays, TeensyDmaStays

-----------------------------------------------------------------------------
(* LowLatencyLogger. *)

\* The sketch, as Loggers and as the module with its proofs have it.
LEMMA LowSizes == Low!SketchSizes
BY BoundsAssumption DEF Low!SketchSizes

\* It starts the same.
LEMMA LowInit == LowLatency!Init => Low!Init
BY DEF LowLatency!Init, Low!Init, LowLatency!Stale, Low!Stale, LowLatency!Blank, Low!Blank, LowLatency!Block, Low!Block

\* Each of its steps is the same.
LEMMA LowAlike ==
  /\ LowLatency!CreateBinFile => Low!CreateBinFile
  /\ LowLatency!Erase => Low!Erase
  /\ LowLatency!RecordBinFile => Low!RecordBinFile
  /\ LowLatency!End => Low!End
  /\ LowLatency!RenameBinFile => Low!RenameBinFile
  /\ LowLatency!Reset => Low!Reset
  /\ LowLatency!Type => Low!Type
BY DEF LowLatency!CreateBinFile, Low!CreateBinFile, LowLatency!Erase, Low!Erase, LowLatency!RecordBinFile,
   Low!RecordBinFile, LowLatency!End, Low!End, LowLatency!RenameBinFile, Low!RenameBinFile, LowLatency!Reset,
   Low!Reset, LowLatency!Type, Low!Type, LowLatency!queues, Low!queues, LowLatency!Blank, Low!Blank,
   LowLatency!Block, Low!Block

\* A pass of its loop is the same.
LEMMA LowLoop == \A busy : LowLatency!Loop(busy) => Low!Loop(busy)
BY DEF LowLatency!Loop, Low!Loop, LowLatency!Closed, Low!Closed, LowLatency!Filled, Low!Filled, LowLatency!Block, Low!Block

\* The search of a recovered file is the same.
LEMMA LowRecover == LowLatency!RecoverTmpFile => Low!RecoverTmpFile
<1>1. LowLatency!LastUsed = Low!LastUsed
  BY DEF LowLatency!LastUsed, Low!LastUsed, LowLatency!Narrowed, Low!Narrowed, LowLatency!Used, Low!Used, LowLatency!Middle, Low!Middle
<1> QED  BY <1>1 DEF LowLatency!RecoverTmpFile, Low!RecoverTmpFile, LowLatency!queues, Low!queues

\* What the properties say of it is the same.
LEMMA LowSafe ==
  ASSUME Low!SketchInv
  PROVE  LowLatency!HasTheBlocks /\ (~abort => LowLatency!Accounted)
BY TicksAlike DEF Low!SketchInv, LowLatency!HasTheBlocks, Low!HasTheBlocks, LowLatency!Accounted, Low!Accounted

\* So its steps keep the invariant.
LEMMA LowSteps ==
  ASSUME Low!SketchInv, \/ UNCHANGED vars
                          \/ LowLatency!Next
  PROVE  Low!SketchInv'
<1>1. CASE UNCHANGED vars
  <2>1. UNCHANGED Low!vars
    BY <1>1 DEF vars, common, polled, Low!vars
  <2> QED  BY <2>1, LowSizes, Low!SketchSteps
<1>2. CASE LowLatency!Next
  <2>1. Low!Next
    BY <1>2, LowAlike, LowLoop, LowRecover DEF LowLatency!Next, LowLatency!Step, Low!Next, Low!Step
  <2> QED  BY <2>1, LowSizes, Low!SketchSteps
<1> QED  BY <1>1, <1>2

\* Its readers are the same.
LEMMA LowReaders ==
  ASSUME NEW f
  PROVE  /\ Low!Reader!LowLatencyCsv(f) = LowLatencyCsv(f) /\ Low!Reader!LowLatencyDump(f) = LowLatencyDump(f)
         /\ Low!Reader!LowLatencyLosses(f) = LowLatencyLosses(f) /\ Low!Reader!Losses(f, 0) = Losses(f, 0)
<1>1. Low!Reader!UpToOdd(f) = UpToOdd(f)
  BY Zenon DEF Low!Reader!UpToOdd, UpToOdd, Low!Reader!UpTo, UpTo, Low!Reader!Empty, Empty, Low!Reader!Min, Min
<1>2. \A g : Low!Reader!Losses(g, 0) = Losses(g, 0)
  BY Zenon DEF Low!Reader!Losses, Losses
<1> QED
  BY <1>1, <1>2, UpToAlike, TextAlike, Zenon
  DEF Low!Reader!LowLatencyCsv, LowLatencyCsv, Low!Reader!LowLatencyDump, LowLatencyDump,
      Low!Reader!LowLatencyLosses, LowLatencyLosses

\* What is read back is in time.
LEMMA LowTimes ==
  ASSUME Low!SketchInv
  PROVE  (bn >= 0 => InTime(Csv("LowLatency", file))) /\ ReadersAgree("LowLatency", file)
<1>1. file \in Seq(Low!Blocks)
  BY DEF Low!SketchInv, Low!FileRight
<1>2. Disk("LowLatency", file) = file
  <2>1. <<>> \o file = file
    BY <1>1
  <2> QED  BY <2>1 DEF Disk
<1>3. Csv("LowLatency", file) = LowLatencyCsv(file)
  BY <1>2 DEF Csv
<1>4. /\ bn >= 0 => Low!InTime(Low!Reader!LowLatencyCsv(file))
      /\ Low!Reader!Samples(Low!Reader!LowLatencyCsv(file)) = Low!Reader!Samples(file)
      /\ Low!Reader!LowLatencyDump(file) = Low!Reader!LowLatencyCsv(file)
      /\ Low!Reader!LowLatencyLosses(file) = Low!Reader!Losses(file, 0)
  BY LowSizes, Low!SketchReads
<1>5. /\ bn >= 0 => InTime(LowLatencyCsv(file))
      /\ Samples(LowLatencyCsv(file)) = Samples(file) /\ LowLatencyDump(file) = LowLatencyCsv(file)
      /\ LowLatencyLosses(file) = Losses(file, 0)
  BY <1>4, LowReaders, InTimeAlike, SamplesAlike
<1> QED  BY <1>2, <1>3, <1>5 DEF ReadersAgree

-----------------------------------------------------------------------------
(* LowLatencyLoggerADXL345. *)

\* The module of LowLatencyLogger with its proofs, for this sketch.
Adxl == INSTANCE LowLatencyLogger_proofs WITH DataDim <- Adxl345Dim

\* The sizes are those of the module with the proofs of the sketch.
LEMMA AdxlSizes == Adxl!SketchSizes
BY BoundsAssumption DEF Adxl!SketchSizes, Adxl345Dim

\* It starts the same.
LEMMA AdxlInit == Adxl345!Init => Adxl!Init
BY DEF Adxl345!Init, Adxl!Init, Adxl345!Stale, Adxl!Stale, Adxl345!Blank, Adxl!Blank, Adxl345!Block, Adxl!Block

\* Each of its steps is the same.
LEMMA AdxlAlike ==
  /\ Adxl345!CreateBinFile => Adxl!CreateBinFile
  /\ Adxl345!Erase => Adxl!Erase
  /\ Adxl345!RecordBinFile => Adxl!RecordBinFile
  /\ Adxl345!End => Adxl!End
  /\ Adxl345!RenameBinFile => Adxl!RenameBinFile
  /\ Adxl345!Reset => Adxl!Reset
  /\ Adxl345!Type => Adxl!Type
BY DEF Adxl345!CreateBinFile, Adxl!CreateBinFile, Adxl345!Erase, Adxl!Erase, Adxl345!RecordBinFile,
   Adxl!RecordBinFile, Adxl345!End, Adxl!End, Adxl345!RenameBinFile, Adxl!RenameBinFile, Adxl345!Reset,
   Adxl!Reset, Adxl345!Type, Adxl!Type, Adxl345!queues, Adxl!queues, Adxl345!Blank, Adxl!Blank, Adxl345!Block,
   Adxl!Block

\* A pass of its loop is the same.
LEMMA AdxlLoop == \A busy : Adxl345!Loop(busy) => Adxl!Loop(busy)
BY DEF Adxl345!Loop, Adxl!Loop, Adxl345!Closed, Adxl!Closed, Adxl345!Filled, Adxl!Filled, Adxl345!Block, Adxl!Block

\* The search of a recovered file is the same.
LEMMA AdxlRecover == Adxl345!RecoverTmpFile => Adxl!RecoverTmpFile
<1>1. Adxl345!LastUsed = Adxl!LastUsed
  BY DEF Adxl345!LastUsed, Adxl!LastUsed, Adxl345!Narrowed, Adxl!Narrowed, Adxl345!Used, Adxl!Used, Adxl345!Middle, Adxl!Middle
<1> QED  BY <1>1 DEF Adxl345!RecoverTmpFile, Adxl!RecoverTmpFile, Adxl345!queues, Adxl!queues

\* What the properties say of it is the same.
LEMMA AdxlSafe ==
  ASSUME Adxl!SketchInv
  PROVE  Adxl345!HasTheBlocks /\ (~abort => Adxl345!Accounted)
<1>1. Adxl345!Ticks(file) = Adxl!Ticks(file)
  BY DEF Adxl345!Ticks, Adxl!Ticks
<1> QED  BY <1>1 DEF Adxl!SketchInv, Adxl345!HasTheBlocks, Adxl!HasTheBlocks, Adxl345!Accounted, Adxl!Accounted

\* So its steps keep the invariant.
LEMMA AdxlSteps ==
  ASSUME Adxl!SketchInv, \/ UNCHANGED vars
                          \/ Adxl345Step \/ Adxl345Loop(TRUE) \/ Adxl345Reset \/ Adxl345!Type
  PROVE  Adxl!SketchInv'
<1>1. CASE UNCHANGED vars
  <2>1. UNCHANGED Adxl!vars
    BY <1>1 DEF vars, common, polled, Adxl!vars
  <2> QED  BY <2>1, AdxlSizes, Adxl!SketchSteps
<1>2. CASE Adxl345Step \/ Adxl345Loop(TRUE) \/ Adxl345Reset \/ Adxl345!Type
  <2>1. Adxl!Next
    BY <1>2, AdxlAlike, AdxlLoop, AdxlRecover
    DEF Adxl345Step, Adxl345Create, Adxl345Loop, Adxl345Rename, Adxl345Recover, Adxl345Reset, Adxl!Next, Adxl!Step
  <2> QED  BY <2>1, AdxlSizes, Adxl!SketchSteps
<1> QED  BY <1>1, <1>2

\* Its readers are the same.
LEMMA AdxlReaders ==
  ASSUME NEW f
  PROVE  /\ Adxl!Reader!LowLatencyCsv(f) = Adxl345Csv(f) /\ Adxl!Reader!LowLatencyDump(f) = Adxl345Dump(f)
         /\ Adxl!Reader!LowLatencyLosses(f) = Adxl345Losses(f) /\ Adxl!Reader!Losses(f, 0) = Losses(f, 0)
<1>1. Adxl!Reader!UpToOdd(f) = Adxl345Reader!UpToOdd(f) /\ Adxl!Reader!UpToEmpty(f) = Adxl345Reader!UpToEmpty(f)
  BY Zenon
  DEF Adxl!Reader!UpToOdd, Adxl345Reader!UpToOdd, Adxl!Reader!UpToEmpty, Adxl345Reader!UpToEmpty, Adxl!Reader!UpTo,
      Adxl345Reader!UpTo, Adxl!Reader!Empty, Adxl345Reader!Empty, Adxl!Reader!Min, Adxl345Reader!Min
<1>2. \A g : Adxl!Reader!Losses(g, 0) = Adxl345Reader!Losses(g, 0) /\ Adxl345Reader!Losses(g, 0) = Losses(g, 0)
  BY Zenon DEF Adxl!Reader!Losses, Adxl345Reader!Losses, Losses
<1>3. \A g : Adxl!Reader!Text(g) = Adxl345Reader!Text(g)
  <2>1. \A b : Adxl!Reader!Lines(b) = Adxl345Reader!Lines(b)
    BY DEF Adxl!Reader!Lines, Adxl345Reader!Lines, Adxl!Reader!Block, Adxl345Reader!Block
  <2>2. \A x : Adxl!Reader!FlattenSeq(x) = Adxl345Reader!FlattenSeq(x)
    BY DEF Adxl!Reader!FlattenSeq, Adxl345Reader!FlattenSeq
  <2> QED  BY <2>1, <2>2, Zenon DEF Adxl!Reader!Text, Adxl345Reader!Text
<1> QED
  BY <1>1, <1>2, <1>3, Zenon
  DEF Adxl!Reader!LowLatencyCsv, Adxl345Reader!LowLatencyCsv, Adxl345Csv, Adxl!Reader!LowLatencyDump, Adxl345Reader!LowLatencyDump,
      Adxl345Dump, Adxl!Reader!LowLatencyLosses, Adxl345Reader!LowLatencyLosses, Adxl345Losses

\* What is read back is in time.
LEMMA AdxlTimes ==
  ASSUME Adxl!SketchInv
  PROVE  /\ bn >= 0 => InTime(Adxl345Csv(file)) /\ Adxl345Dump(file) = Adxl345Csv(file) /\ Adxl345Losses(file) = Losses(file, 0)
<1>1. /\ bn >= 0 => Adxl!InTime(Adxl!Reader!LowLatencyCsv(file))
      /\ Adxl!Reader!LowLatencyDump(file) = Adxl!Reader!LowLatencyCsv(file)
      /\ Adxl!Reader!LowLatencyLosses(file) = Adxl!Reader!Losses(file, 0)
  BY AdxlSizes, Adxl!SketchReads
<1>2. \A f : Adxl!InTime(f) <=> InTime(f)
  BY DEF Adxl!InTime, InTime, Adxl!Ticks, Ticks
<1> QED  BY <1>1, <1>2, AdxlReaders

-----------------------------------------------------------------------------
(* LowLatencyLoggerMPU6050. *)

\* The module of LowLatencyLogger with its proofs, for this sketch.
Mpu == INSTANCE LowLatencyLogger_proofs WITH DataDim <- Mpu6050Dim

\* The sizes are those of the module with the proofs of the sketch.
LEMMA MpuSizes == Mpu!SketchSizes
BY BoundsAssumption DEF Mpu!SketchSizes, Mpu6050Dim

\* It starts the same.
LEMMA MpuInit == Mpu6050!Init => Mpu!Init
BY DEF Mpu6050!Init, Mpu!Init, Mpu6050!Stale, Mpu!Stale, Mpu6050!Blank, Mpu!Blank, Mpu6050!Block, Mpu!Block

\* Each of its steps is the same.
LEMMA MpuAlike ==
  /\ Mpu6050!CreateBinFile => Mpu!CreateBinFile
  /\ Mpu6050!Erase => Mpu!Erase
  /\ Mpu6050!RecordBinFile => Mpu!RecordBinFile
  /\ Mpu6050!End => Mpu!End
  /\ Mpu6050!RenameBinFile => Mpu!RenameBinFile
  /\ Mpu6050!Reset => Mpu!Reset
  /\ Mpu6050!Type => Mpu!Type
BY DEF Mpu6050!CreateBinFile, Mpu!CreateBinFile, Mpu6050!Erase, Mpu!Erase, Mpu6050!RecordBinFile,
   Mpu!RecordBinFile, Mpu6050!End, Mpu!End, Mpu6050!RenameBinFile, Mpu!RenameBinFile, Mpu6050!Reset, Mpu!Reset,
   Mpu6050!Type, Mpu!Type, Mpu6050!queues, Mpu!queues, Mpu6050!Blank, Mpu!Blank, Mpu6050!Block, Mpu!Block

\* A pass of its loop is the same.
LEMMA MpuLoop == \A busy : Mpu6050!Loop(busy) => Mpu!Loop(busy)
BY DEF Mpu6050!Loop, Mpu!Loop, Mpu6050!Closed, Mpu!Closed, Mpu6050!Filled, Mpu!Filled, Mpu6050!Block, Mpu!Block

\* The search of a recovered file is the same.
LEMMA MpuRecover == Mpu6050!RecoverTmpFile => Mpu!RecoverTmpFile
<1>1. Mpu6050!LastUsed = Mpu!LastUsed
  BY DEF Mpu6050!LastUsed, Mpu!LastUsed, Mpu6050!Narrowed, Mpu!Narrowed, Mpu6050!Used, Mpu!Used, Mpu6050!Middle, Mpu!Middle
<1> QED  BY <1>1 DEF Mpu6050!RecoverTmpFile, Mpu!RecoverTmpFile, Mpu6050!queues, Mpu!queues

\* What the properties say of it is the same.
LEMMA MpuSafe ==
  ASSUME Mpu!SketchInv
  PROVE  Mpu6050!HasTheBlocks /\ (~abort => Mpu6050!Accounted)
<1>1. Mpu6050!Ticks(file) = Mpu!Ticks(file)
  BY DEF Mpu6050!Ticks, Mpu!Ticks
<1> QED  BY <1>1 DEF Mpu!SketchInv, Mpu6050!HasTheBlocks, Mpu!HasTheBlocks, Mpu6050!Accounted, Mpu!Accounted

\* So its steps keep the invariant.
LEMMA MpuSteps ==
  ASSUME Mpu!SketchInv, \/ UNCHANGED vars
                          \/ Mpu6050Step \/ Mpu6050Loop(TRUE) \/ Mpu6050Reset \/ Mpu6050!Type
  PROVE  Mpu!SketchInv'
<1>1. CASE UNCHANGED vars
  <2>1. UNCHANGED Mpu!vars
    BY <1>1 DEF vars, common, polled, Mpu!vars
  <2> QED  BY <2>1, MpuSizes, Mpu!SketchSteps
<1>2. CASE Mpu6050Step \/ Mpu6050Loop(TRUE) \/ Mpu6050Reset \/ Mpu6050!Type
  <2>1. Mpu!Next
    BY <1>2, MpuAlike, MpuLoop, MpuRecover
    DEF Mpu6050Step, Mpu6050Create, Mpu6050Loop, Mpu6050Rename, Mpu6050Recover, Mpu6050Reset, Mpu!Next, Mpu!Step
  <2> QED  BY <2>1, MpuSizes, Mpu!SketchSteps
<1> QED  BY <1>1, <1>2

\* Its readers are the same.
LEMMA MpuReaders ==
  ASSUME NEW f
  PROVE  /\ Mpu!Reader!LowLatencyCsv(f) = Mpu6050Csv(f) /\ Mpu!Reader!LowLatencyDump(f) = Mpu6050Dump(f)
         /\ Mpu!Reader!LowLatencyLosses(f) = Mpu6050Losses(f) /\ Mpu!Reader!Losses(f, 0) = Losses(f, 0)
<1>1. Mpu!Reader!UpToOdd(f) = Mpu6050Reader!UpToOdd(f) /\ Mpu!Reader!UpToEmpty(f) = Mpu6050Reader!UpToEmpty(f)
  BY Zenon
  DEF Mpu!Reader!UpToOdd, Mpu6050Reader!UpToOdd, Mpu!Reader!UpToEmpty, Mpu6050Reader!UpToEmpty, Mpu!Reader!UpTo,
      Mpu6050Reader!UpTo, Mpu!Reader!Empty, Mpu6050Reader!Empty, Mpu!Reader!Min, Mpu6050Reader!Min
<1>2. \A g : Mpu!Reader!Losses(g, 0) = Mpu6050Reader!Losses(g, 0) /\ Mpu6050Reader!Losses(g, 0) = Losses(g, 0)
  BY Zenon DEF Mpu!Reader!Losses, Mpu6050Reader!Losses, Losses
<1>3. \A g : Mpu!Reader!Text(g) = Mpu6050Reader!Text(g)
  <2>1. \A b : Mpu!Reader!Lines(b) = Mpu6050Reader!Lines(b)
    BY DEF Mpu!Reader!Lines, Mpu6050Reader!Lines, Mpu!Reader!Block, Mpu6050Reader!Block
  <2>2. \A x : Mpu!Reader!FlattenSeq(x) = Mpu6050Reader!FlattenSeq(x)
    BY DEF Mpu!Reader!FlattenSeq, Mpu6050Reader!FlattenSeq
  <2> QED  BY <2>1, <2>2, Zenon DEF Mpu!Reader!Text, Mpu6050Reader!Text
<1> QED
  BY <1>1, <1>2, <1>3, Zenon
  DEF Mpu!Reader!LowLatencyCsv, Mpu6050Reader!LowLatencyCsv, Mpu6050Csv, Mpu!Reader!LowLatencyDump, Mpu6050Reader!LowLatencyDump,
      Mpu6050Dump, Mpu!Reader!LowLatencyLosses, Mpu6050Reader!LowLatencyLosses, Mpu6050Losses

\* What is read back is in time.
LEMMA MpuTimes ==
  ASSUME Mpu!SketchInv
  PROVE  /\ bn >= 0 => InTime(Mpu6050Csv(file)) /\ Mpu6050Dump(file) = Mpu6050Csv(file) /\ Mpu6050Losses(file) = Losses(file, 0)
<1>1. /\ bn >= 0 => Mpu!InTime(Mpu!Reader!LowLatencyCsv(file))
      /\ Mpu!Reader!LowLatencyDump(file) = Mpu!Reader!LowLatencyCsv(file)
      /\ Mpu!Reader!LowLatencyLosses(file) = Mpu!Reader!Losses(file, 0)
  BY MpuSizes, Mpu!SketchReads
<1>2. \A f : Mpu!InTime(f) <=> InTime(f)
  BY DEF Mpu!InTime, InTime, Mpu!Ticks, Ticks
<1> QED  BY <1>1, <1>2, MpuReaders

-----------------------------------------------------------------------------
(* The seven sketches.                                                     *)

\* The invariant of the sketch that runs.
LoggersInv ==
  \/ sketch = "LowLatency" /\ Low!SketchInv
  \/ sketch = "Adxl345" /\ Adxl!SketchInv
  \/ sketch = "Mpu6050" /\ Mpu!SketchInv
  \/ sketch = "AnalogBin" /\ BinInv
  \/ sketch = "AvrAdc" /\ AdcInv
  \/ sketch = "ExFat" /\ ExFatInv
  \/ sketch = "TeensyDma" /\ DmaInv

\* Each sketch starts in its invariant.
LEMMA LoggersStart == Init => LoggersInv
<1> SUFFICES ASSUME Init PROVE LoggersInv
  OBVIOUS
<1>1. CASE sketch = "LowLatency" /\ LowLatency!Init
  BY <1>1, LowInit, LowSizes, Low!SketchStarts DEF LoggersInv
<1>2. CASE sketch = "Adxl345" /\ Adxl345!Init
  BY <1>2, AdxlInit, AdxlSizes, Adxl!SketchStarts DEF LoggersInv
<1>3. CASE sketch = "Mpu6050" /\ Mpu6050!Init
  BY <1>3, MpuInit, MpuSizes, Mpu!SketchStarts DEF LoggersInv
<1>4. CASE sketch = "AnalogBin" /\ AnalogBin!Init
  BY <1>4, BinStarts DEF LoggersInv
<1>5. CASE sketch = "AvrAdc" /\ AvrAdc!Init
  BY <1>5, AdcStarts DEF LoggersInv
<1>6. CASE sketch = "ExFat" /\ ExFat!Init
  BY <1>6, ExFatStarts DEF LoggersInv
<1>7. CASE sketch = "TeensyDma" /\ TeensyDma!Init
  BY <1>7, DmaStarts DEF LoggersInv
<1> QED  BY <1>1, <1>2, <1>3, <1>4, <1>5, <1>6, <1>7 DEF Init

\* The steps of the sketch that runs keep its invariant.
LEMMA LoggersSteps == LoggersInv /\ [Next]_vars => LoggersInv'
<1> SUFFICES ASSUME LoggersInv, [Next]_vars PROVE LoggersInv'
  OBVIOUS
<1> QED  BY OneRuns, LowSteps, AdxlSteps, MpuSteps, BinSteps, AdcSteps, ExFatSteps, DmaSteps DEF LoggersInv

\* The invariant of the sketch that runs holds always (setup, loop and the interrupts of the sketches).
THEOREM LoggersInvariance == Spec => []LoggersInv
BY LoggersStart, LoggersSteps, PTL DEF Spec

\* For every size of blocks, queues and files: a sketch loses no tick without counting it, writes
\* what it sampled when it is stopped, shares no block with its interrupt, and finds after a reset
\* just the blocks it wrote (recordBinFile, logData, runTest, recoverTmpFile).
THEOREM NothingEverDropped == Spec => []NothingDropped
<1>1. LoggersInv => NothingDropped
  <2> SUFFICES ASSUME LoggersInv PROVE NothingDropped
    OBVIOUS
  <2>1. CASE sketch = "LowLatency" /\ Low!SketchInv
    BY <2>1, LowSafe DEF NothingDropped
  <2>2. CASE sketch = "Adxl345" /\ Adxl!SketchInv
    BY <2>2, AdxlSafe DEF NothingDropped
  <2>3. CASE sketch = "Mpu6050" /\ Mpu!SketchInv
    BY <2>3, MpuSafe DEF NothingDropped
  <2>4. CASE sketch = "AnalogBin" /\ BinInv
    BY <2>4, BinSafe DEF NothingDropped
  <2>5. CASE sketch = "AvrAdc" /\ AdcInv
    BY <2>5, AdcSafe DEF NothingDropped
  <2>6. CASE sketch = "ExFat" /\ ExFatInv
    BY <2>6, ExFatSafe DEF NothingDropped
  <2>7. CASE sketch = "TeensyDma" /\ DmaInv
    BY <2>7, DmaSafe DEF NothingDropped
  <2> QED  BY <2>1, <2>2, <2>3, <2>4, <2>5, <2>6, <2>7 DEF LoggersInv
<1> QED  BY <1>1, LoggersInvariance, PTL

\* For every size of blocks, queues and files: in the text that a sketch makes of its log every
\* sample is where the counts of samples and of lost ticks put it, and the other readers show the
\* same; AvrAdcLogger's is in order (binaryToCsv, checkOverrun, dumpData, printData).
THEOREM TimesAlwaysRight == Spec => []TimesRight
<1>1. LoggersInv => TimesRight
  <2> SUFFICES ASSUME LoggersInv PROVE TimesRight
    OBVIOUS
  <2>1. CASE sketch = "LowLatency" /\ Low!SketchInv
    BY <2>1, LowTimes DEF TimesRight
  <2>2. CASE sketch = "Adxl345" /\ Adxl!SketchInv
    BY <2>2, AdxlTimes DEF TimesRight
  <2>3. CASE sketch = "Mpu6050" /\ Mpu!SketchInv
    BY <2>3, MpuTimes DEF TimesRight
  <2>4. CASE sketch = "AnalogBin" /\ BinInv
    BY <2>4, BinReads DEF TimesRight
  <2>5. CASE sketch = "AvrAdc" /\ AdcInv
    BY <2>5, AdcTimes DEF TimesRight
  <2>6. CASE sketch = "ExFat" /\ ExFatInv
    BY <2>6, ExFatTimes DEF TimesRight
  <2>7. CASE sketch = "TeensyDma" /\ DmaInv
    BY <2>7, DmaTimes DEF TimesRight
  <2> QED  BY <2>1, <2>2, <2>3, <2>4, <2>5, <2>6, <2>7 DEF LoggersInv
<1> QED  BY <1>1, LoggersInvariance, PTL
=============================================================================
