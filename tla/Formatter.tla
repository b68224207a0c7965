------------------------------ MODULE Formatter ------------------------------
(***************************************************************************)
(* The formatters: FatFormatter and ExFatFormatter of the library with the *)
(* sketch SdFormatter that erases a card and calls them, and the sketch    *)
(* examplesV1/SdFormatter with a formatter of its own.  From the number of *)
(* sectors of the card they compute a layout and write it, area by area;   *)
(* every write may fail.  The numbers are those of the code.               *)
(***************************************************************************)
EXTENDS Integers, Sequences, SequencesExt, FiniteSetsExt

CONSTANTS
  CardSizes,     \* sectors of the cards (below 2^31)
  SmallCard      \* cards with at most this many sectors are also erased (bounds the steps)

VARIABLES
  size,        \* cardSectorCount
  program,     \* "library" or "sketch" (V1)
  option,      \* what the user entered: "E", "F" or "Q"
  step,        \* "erase", "layout", "write", "end"
  firstBlock,  \* of eraseCard
  done,        \* the areas that are written
  outcome,     \* "-", "ok", "refused", "error"
  cardErrors   \* auxiliary: accesses that failed

BU16 == 128
BU32 == 8192
ERASE_SIZE == 262144
MinOf(S) == Min(S)
Power(n) == 2 ^ n

-----------------------------------------------------------------------------
(* Layouts of FAT.                                                         *)
CapacityMB(n) == (n + 2047) \div 2048
\* <<capacity, sectors per cluster>>
ClusterSizes == <<<<16, 2>>, <<32, 4>>, <<64, 8>>, <<128, 16>>, <<1024, 32>>, <<32768, 64>>>>
SectorsPerCluster(n) ==
  LET fits == {i \in DOMAIN ClusterSizes : CapacityMB(n) <= ClusterSizes[i][1]} IN
  IF fits = {} THEN 128 ELSE ClusterSizes[MinOf(fits)][2]
TooSmall(n) == CapacityMB(n) <= 6

\* The data area starts at the first multiple of the boundary unit that leaves room for the
\* FATs of the clusters behind it.
Clusters(n, dataStart) == (n - dataStart) \div SectorsPerCluster(n)
FatSectors(nc, perSector) == (nc + 2 + perSector - 1) \div perSector
Starts(unit) == {(2 + k) * unit : k \in 0 .. 70}
\* Mutant: the two reserved entries of the FAT are forgotten.
FatTooShort(nc, perSector) == (nc + perSector - 1) \div perSector
Fat16Layout(n) ==
  LET need(d) == BU16 + 1 + 2 * FatSectors(Clusters(n, d), 256) + 32
      d == MinOf({s \in Starts(BU16) : s >= need(s)})
      nc == Clusters(n, d)
      fatSize == FatSectors(nc, 256)
      relative == d - need(d) + BU16
  IN [type |-> "FAT16", ok |-> 4085 <= nc /\ nc < 65525, relative |-> relative, reserved |-> 1,
      fatStart |-> relative + 1, fatSize |-> fatSize, dataStart |-> d, nc |-> nc,
      spc |-> SectorsPerCluster(n), rootEntries |-> 512,
      total |-> nc * SectorsPerCluster(n) + 2 * fatSize + 1 + 32]
Fat32Layout(n) ==
  LET need(d) == BU32 + 9 + 2 * FatSectors(Clusters(n, d), 128)
      d == MinOf({s \in Starts(BU32) : s >= need(s)})
      nc == Clusters(n, d)
      fatSize == FatSectors(nc, 128)
      reserved == d - BU32 - 2 * fatSize
  IN [type |-> "FAT32", ok |-> nc >= 65525, relative |-> BU32, reserved |-> reserved,
      fatStart |-> BU32 + reserved, fatSize |-> fatSize, dataStart |-> d, nc |-> nc,
      spc |-> SectorsPerCluster(n), rootEntries |-> 0,
      total |-> nc * SectorsPerCluster(n) + d - BU32]

\* ExFatFormatter: vs is the number of bits of the sector count, rounded up.
ExFatLayout(n) ==
  LET vs == MinOf({b \in 0 .. 30 : Power(b) >= n} \cup {31})
      shift == IF vs < 29 THEN 8 ELSE (vs - 11) \div 2
      fatLength == Power(IF vs < 27 THEN 13 ELSE (vs + 1) \div 2)
      nc == (n - 4 * fatLength) \div Power(shift)
  IN [type |-> "exFAT", ok |-> n >= 1048576, relative |-> 2 * fatLength, shift |-> shift,
      spc |-> Power(shift), fatOffset |-> fatLength, fatLength |-> fatLength,
      heap |-> 2 * fatLength, nc |-> nc, total |-> 2 * fatLength + nc * Power(shift)]

\* FatFormatter::format and formatCard.
FatChoice(n) == IF n < 4194304 THEN Fat16Layout(n) ELSE Fat32Layout(n)
LibraryLayout(n) ==
  IF n > 67108864 THEN ExFatLayout(n)
  ELSE IF TooSmall(n) THEN [type |-> "none", ok |-> FALSE] ELSE FatChoice(n)
\* The sketch asks the type of the card: an SDHC card has more than 2 GiB.
SketchLayout(n) ==
  IF TooSmall(n) THEN [type |-> "none", ok |-> FALSE]
  ELSE IF n > 4194304 THEN Fat32Layout(n) ELSE Fat16Layout(n)
Layout(p, n) == IF p = "library" THEN LibraryLayout(n) ELSE SketchLayout(n)

-----------------------------------------------------------------------------
(* What is written: areas of the card, in order.                           *)
Area(what, at, count) == [what |-> what, at |-> at, count |-> count]
Each(what, places) == [i \in DOMAIN places |-> Area(what, places[i], 1)]

\* initFatDir: zeros but for the first sector, then the first sector of both FATs.
FatDirAreas(g, count) ==
  <<Area("zero", g.fatStart + 1, count - 1), Area("fat", g.fatStart, 1), Area("fat", g.fatStart + g.fatSize, 1)>>
\* The sketch: all of it, then the first sectors.
ClearedAreas(g, count) ==
  <<Area("zero", g.fatStart, count), Area("fat", g.fatStart, 1), Area("fat", g.fatStart + g.fatSize, 1)>>
\* Mutant: only the FATs are cleared.
FatsOnly(g) == 2 * g.fatSize
FatDirCount(g) == IF g.type = "FAT16" THEN g.dataStart - g.fatStart ELSE 2 * g.fatSize + g.spc
Fat16Areas(p, g) ==
  <<Area("mbr", 0, 1), Area("boot", g.relative, 1)>>
    \o (IF p = "library" THEN FatDirAreas(g, FatDirCount(g)) ELSE ClearedAreas(g, FatDirCount(g)))
Fat32Areas(p, g) ==
  <<Area("mbr", 0, 1)>> \o Each("boot", <<g.relative, g.relative + 6>>)
    \o Each("extra", <<g.relative + 2, g.relative + 8>>)
    \o Each("info", <<g.relative + 1, g.relative + 7>>)
    \o (IF p = "library" THEN FatDirAreas(g, FatDirCount(g)) ELSE ClearedAreas(g, FatDirCount(g)))

\* Both boot regions go along in step; the FAT as far as there are clusters, bitmap, upcase
\* table and root in the clusters 2, 3 and 4.
BitmapSectors(g) == ((g.nc + 7) \div 8 + 511) \div 512
UpcaseSectors == 12
ExFatFatSectors(g) == ((g.nc + 2) * 4 + 511) \div 512
ExFatAreas(g) ==
  LET at == g.relative + g.heap IN
  <<Area("mbr", 0, 1)>>
    \o Each("boot", <<g.relative, g.relative + 12>>)
    \o FlattenSeq([i \in 1 .. 10 |->
         Each(IF i <= 8 THEN "extended" ELSE "oem", <<g.relative + i, g.relative + 12 + i>>)])
    \o Each("checksum", <<g.relative + 11, g.relative + 23>>)
    \o <<Area("fat", g.relative + g.fatOffset, ExFatFatSectors(g)), Area("bitmap", at, BitmapSectors(g)),
         Area("upcase", at + g.spc, UpcaseSectors), Area("root", at + 2 * g.spc, g.spc)>>
Areas(p, g) ==
  IF g.type = "FAT16" THEN Fat16Areas(p, g) ELSE IF g.type = "FAT32" THEN Fat32Areas(p, g) ELSE ExFatAreas(g)
\* The checks of the exFAT formatter that stand between the writes.
GivesUp(g, k) ==
  g.type = "exFAT" /\ \/ k = Len(ExFatAreas(g)) - 3 /\ BitmapSectors(g) > g.spc
                      \/ k = Len(ExFatAreas(g)) - 1 /\ UpcaseSectors > g.spc

\* lbaToMbrChs: the heads and the sectors of a track by capacity, a place in them.
Heads == <<<<16, 2>>, <<32, 4>>, <<128, 8>>, <<504, 16>>, <<1008, 32>>, <<2016, 64>>, <<4032, 128>>>>
HeadsOf(mb) == LET fits == {i \in DOMAIN Heads : mb <= Heads[i][1]} IN
               IF fits = {} THEN 255 ELSE Heads[MinOf(fits)][2]
Chs(mb, lba) ==
  LET track == IF mb <= 256 THEN 32 ELSE 63
      cylinder == lba \div (HeadsOf(mb) * track)
      place == IF cylinder <= 1023
               THEN [c |-> cylinder, h |-> (lba % (HeadsOf(mb) * track)) \div track, s |-> (lba % track) + 1]
               ELSE [c |-> 1023, h |-> 254, s |-> 63]
  IN \* the bytes: the sector has six bits and the upper two of the cylinder
     <<place.h, ((place.c \div 256) * 64) + place.s, place.c % 256>>

-----------------------------------------------------------------------------
FormatInit ==
  /\ size \in CardSizes /\ program \in {"library", "sketch"}
  /\ option \in {"Q"} \cup (IF size <= SmallCard THEN {"E", "F"} ELSE {})
  /\ step = IF option = "Q" THEN "layout" ELSE "erase"
  /\ firstBlock = 0 /\ done = <<>> /\ outcome = "-" /\ cardErrors = 0

\* Nothing is formatted.
Unused ==
  /\ size = 0 /\ program = "library" /\ option = "Q" /\ step = "end"
  /\ firstBlock = 0 /\ done = <<>> /\ outcome = "-" /\ cardErrors = 0

\* Mutant: the last sector of a chunk is the first of the next.
EraseTooFar == IF firstBlock + ERASE_SIZE >= size THEN size - 1 ELSE firstBlock + ERASE_SIZE
\* eraseCard, a chunk at a time.
EraseTo == IF firstBlock + ERASE_SIZE - 1 >= size THEN size - 1 ELSE firstBlock + ERASE_SIZE - 1
EraseFails == step = "erase" /\ outcome' = "error" /\ step' = "end" /\ cardErrors' = 1
                /\ UNCHANGED <<size, program, option, firstBlock, done>>
EraseCard ==
  /\ step = "erase" /\ done' = Append(done, Area("erased", firstBlock, EraseTo + 1 - firstBlock))
  /\ firstBlock' = firstBlock + ERASE_SIZE
  /\ IF firstBlock' < size THEN UNCHANGED <<step, outcome>>
     ELSE IF option = "E" THEN step' = "end" /\ outcome' = "ok" ELSE step' = "layout" /\ UNCHANGED outcome
  /\ UNCHANGED <<size, program, option, cardErrors>>

\* The layout is refused before anything is written.
Choose ==
  /\ step = "layout"
  /\ IF Layout(program, size).ok THEN step' = "write" /\ UNCHANGED outcome
     ELSE step' = "end" /\ outcome' = "refused"
  /\ UNCHANGED <<size, program, option, firstBlock, done, cardErrors>>
Formatted == SelectSeq(done, LAMBDA a : a.what # "erased")
WriteNext(g, plan, k) ==
  IF GivesUp(g, k) THEN step' = "end" /\ outcome' = "error" /\ UNCHANGED done
  ELSE /\ done' = Append(done, plan[k + 1])
       /\ IF k + 1 = Len(plan) THEN step' = "end" /\ outcome' = "ok" ELSE UNCHANGED <<step, outcome>>
WriteArea ==
  /\ step = "write"
  /\ WriteNext(Layout(program, size), Areas(program, Layout(program, size)), Len(Formatted))
  /\ UNCHANGED <<size, program, option, firstBlock, cardErrors>>
\* An area is written in part or not at all.
WriteFails ==
  /\ step = "write" /\ step' = "end" /\ outcome' = "error" /\ cardErrors' = 1
  /\ UNCHANGED <<size, program, option, firstBlock, done>>

FormatNext == EraseCard \/ EraseFails \/ Choose \/ WriteArea \/ WriteFails

-----------------------------------------------------------------------------
(* Properties.                                                             *)

\* FatPartition::initAt on the boot sector of g: the type and the addresses, or "none".
MountFat(g, n) ==
  LET dataStart == g.reserved + 2 * g.fatSize + (32 * g.rootEntries + 511) \div 512
      nc == (g.total - dataStart) \div g.spc
      bytes == nc + 2
  IN IF /\ g.relative + g.total <= n /\ g.spc \in {Power(i) : i \in 0 .. 7} /\ g.reserved \in 1 .. 65535
        /\ dataStart < g.total /\ 4085 <= nc /\ nc <= 268435446
        /\ 512 * g.fatSize >= IF nc < 65525 THEN 2 * bytes ELSE 4 * bytes
        /\ (nc < 65525) = (g.rootEntries # 0)
     THEN [type |-> IF nc < 65525 THEN "FAT16" ELSE "FAT32", fatStart |-> g.relative + g.reserved,
           dataStart |-> g.relative + dataStart, nc |-> nc]
     ELSE [type |-> "none", fatStart |-> 0, dataStart |-> 0, nc |-> 0]
\* ExFatPartition::initAt.
MountExFat(g, n) ==
  /\ g.relative + g.total <= n /\ g.shift <= 16 /\ g.fatOffset >= 24
  /\ g.fatLength >= ExFatFatSectors(g) /\ g.fatOffset + g.fatLength <= g.heap
  /\ g.heap + g.nc * g.spc <= g.total /\ 4 <= g.nc + 1
\* The last write to a sector: what is there.
Holds(what, at, count) == \E i \in DOMAIN done :
  done[i].what = what /\ done[i].at <= at /\ at + count <= done[i].at + done[i].count
Apart(w) == \A i, j \in DOMAIN w : i < j /\ w[i].what # "zero" =>
  w[i].at + w[i].count <= w[j].at \/ w[j].at + w[j].count <= w[i].at

\* A card that is said to be formatted can be mounted, as the type it was formatted: begin
\* finds FAT and data where they were written, both FATs, the root and (exFAT) bitmap and
\* upcase table are initialized, nothing is written twice or outside the card, and the
\* cylinders of the partition table name its first sector.
MountsAs(g) ==
  /\ \A i \in DOMAIN done : done[i].count > 0 /\ done[i].at + done[i].count <= size
  /\ Apart(Formatted)
  /\ IF g.type = "exFAT"
     THEN /\ MountExFat(g, size) /\ Holds("fat", g.relative + g.fatOffset, ExFatFatSectors(g))
          /\ Holds("root", g.relative + g.heap + 2 * g.spc, g.spc)
          /\ Holds("bitmap", g.relative + g.heap, 1) /\ BitmapSectors(g) * 4096 >= g.nc
     ELSE LET m == MountFat(g, size) first == g.fatStart IN
          /\ m.type = g.type /\ m.fatStart = first /\ m.dataStart = g.dataStart /\ m.nc = g.nc
          /\ Holds("fat", first, 1) /\ Holds("fat", first + g.fatSize, 1)
          /\ Holds("zero", first + 1, 2 * g.fatSize - 1 + IF g.type = "FAT16" THEN 32 ELSE g.spc)
          /\ LET chs == Chs(CapacityMB(size), g.relative)
                 track == IF CapacityMB(size) <= 256 THEN 32 ELSE 63
             IN g.relative = (((chs[2] \div 64) * 256 + chs[3]) * HeadsOf(CapacityMB(size)) + chs[1]) * track
                               + (chs[2] % 64) - 1
FormatMounts == outcome = "ok" /\ option # "E" => MountsAs(Layout(program, size))

\* Every sector is erased once, in order, up to the last one of the card and no further; a
\* card that is refused is then left as it is, and the program gives up for no other reason
\* than an access that failed.
Erased == SelectSeq(done, LAMBDA a : a.what = "erased")
ErasedOnce ==
  /\ \A i \in DOMAIN Erased :
       Erased[i].at = IF i = 1 THEN 0 ELSE Erased[i - 1].at + Erased[i - 1].count
  /\ option # "Q" /\ outcome \in {"ok", "refused"} =>
       /\ Erased # <<>> /\ Last(Erased).at + Last(Erased).count = size
       /\ outcome = "refused" => Formatted = <<>>
  /\ outcome = "error" => cardErrors = 1
=============================================================================
