------------------------------- MODULE Services -------------------------------
(***************************************************************************)
(* What the library does beside files: it finds and mounts the volume of a *)
(* card, formats a card, turns names, numbers and dates into text and      *)
(* back, and keeps the times of files; and how the sketches read texts and *)
(* set up a logger.  They share no state; one of them is used.             *)
(***************************************************************************)
EXTENDS Integers, Sequences, SequencesExt

CONSTANTS
  Slots, MaxErrors,
  CardSizes, SmallCard,
  Base, Ext, PerEntry,
  Top, MinimumSkip, SectorUnits,
  MaxPieces, MaxPlain,     \* bounds on the length of a path
  MaxWords,                \* bound on the words of a text
  PerCluster, MaxEntries   \* of a directory of short names

ASSUME VolumeAssumption == Slots \in Nat \ {0} /\ MaxErrors \in Nat
ASSUME CardAssumption == CardSizes \subseteq Nat \ {0} /\ SmallCard \in Nat
ASSUME TextAssumption ==
  /\ {Base, Ext, PerEntry, MinimumSkip, SectorUnits} \subseteq Nat \ {0} /\ Base > 2
  /\ Top \in Nat /\ Top > 3 /\ {MaxPieces, MaxPlain, MaxWords, PerCluster, MaxEntries} \subseteq Nat

VARIABLES
  part,                \* what is used: "mount", "format" or "convert"
  card, pc, next, sawError, header, loc, sawCandidate, sawCardError, m_initError, mounted, errors, failed,
  size, program, option, step, firstBlock, done, outcome, cardErrors,
  job                  \* what is converted

Volume == INSTANCE VolumeMount
Format == INSTANCE Formatter
Name == INSTANCE Names
Case == INSTANCE Upcase
Number == INSTANCE Numbers
Time == INSTANCE Stamps
Field == INSTANCE Csv
Setup == INSTANCE LoggerSetup
Short == INSTANCE ShortNames

mount == <<card, pc, next, sawError, header, loc, sawCandidate, sawCardError, m_initError, mounted, errors, failed>>
format == <<size, program, option, step, firstBlock, done, outcome, cardErrors>>
vars == <<part, mount, format, job>>

-----------------------------------------------------------------------------
(* What is converted.                                                      *)

\* The characters of a path: letters of both cases, a digit, a dot, a blank, one a short name
\* may not have, one that no name may have, letters outside ASCII, a surrogate pair; and bytes
\* that are no UTF-8: one that is too long, half a character, a surrogate; and U+FFFF.
Plain == {<<97>>, <<65>>, <<46>>}
Pieces == Plain \cup {<<32>>, <<43>>, <<45>>, <<195, 169>>, <<195, 137>>, <<240, 159, 152, 128>>}
Odd == {<<47>>, <<193, 161>>, <<195>>, <<169>>, <<237, 160, 128>>, <<239, 191, 191>>}
Paths(pieces, n) == {FlattenSeq(s) : s \in UNION {[1 .. k -> pieces] : k \in 1 .. n}}
\* The names a name is compared with.
Others == {Name!Trimmed(p) : p \in Paths(Pieces \ {<<32>>}, 2)} \ {<<>>}

\* Around the powers of two and of ten.
Edges == UNION {{10 ^ k, 10 ^ k - 1, 9 * 10 ^ k, 65539} : k \in 0 .. 8}
           \cup UNION {{2 ^ k, 2 ^ k - 1} : k \in 0 .. 30}
Integers32 == {[what |-> "integer", n |-> n] : n \in Edges \cup 0 .. 110}
Millionths == {0, 1, 4, 5, 49, 50, 499999, 500000, 999994, 999995, 999999, 1000000, 1005000, 1499999,
               1500000, 9999994, 9999995, 9999999, 99999999, 123456789, 2000000000}
Doubles == [what : {"double"}, v : Millionths, prec : 0 .. 5, alt : BOOLEAN]
Mantissas == {0, 1000000, 1000001, 1499999, 1500000, 4999999, 9499999, 9500000, 9999949, 9999950,
              9999994, 9999995, 9999999}
\* Rounding that carries to the exponent 128 is left out: an int8_t does not hold it.
Exponents == [what : {"exponent"}, m : Mantissas,
              e : {-127, -100, -17, -10, -1, 0, 1, 2, 9, 10, 16, 99, 126}, prec : 0 .. 5]
Dates == [what : {"date"}, year : {1979, 1980, 1999, 2107, 2108}, month : {0, 1, 9, 10, 12, 13},
          day : {0, 1, 9, 10, 31, 32}]
Times == [what : {"time"}, hour : {0, 9, 10, 23, 24}, minute : {0, 9, 10, 59, 60}, second : {0, 1, 9, 58, 59, 60},
          tz : {0, 128, 129, 131, 132, 191, 192, 255}]
Tables == [what : {"upcase"}, map : Case!MapTables, lookup : Case!LookupTables]
\* Files that are created, texts that are typed in, sample rates, and the names of old logs.
Files == {Time!Created(fs, callback, truncate) : fs \in {"fat", "exfat"}, callback, truncate \in BOOLEAN}
Ticks == {0, 1, 100, 159, 160, 161, 189, 190, 200, 400, 800, 1000, 1600, 3200, 5000, 10000, 65535}
           \cup {65536 * 2 ^ k + d : k \in 0 .. 10, d \in {-129, -65, -1, 0, 1, 77}}
Rates == [what : {"timer"}, cpu : {8000000, 16000000, 20000000}, ticks : Ticks, pins : {1, 2, 5, 16},
          eightBits : BOOLEAN, round : BOOLEAN]
Logs == {[what |-> "log", n |-> n, exists |-> e] :
           n \in {0, 8, 9, 10, 89, 98, 99}, e \in {0 .. k : k \in {8, 9, 10, 19, 98, 99}} \cup {{}, {9, 10}, {98}, {0, 9, 11, 99}}}
Text == [what |-> "csv", pieces |-> <<>>]
Separators == {<<Field!Comma>>, <<Field!CR, Field!NL>>}
\* Numbers with blanks, a sign, a point, and what is none.
Words == {<<53, 32>>, <<32, 45, 50, 51>>, <<>>, <<120, 52>>, <<50, 46, 53>>}
LastWords == {<<49, 55, 48>>, <<45>>, <<54, Field!Bad>>}
Nothing == [what |-> "nothing"]
Typed == [what |-> "path", pieces |-> <<>>]
Path == FlattenSeq(job.pieces)

\* A path is typed in, piece by piece.
Type ==
  /\ job.what = "path"
  /\ \/ Len(job.pieces) < MaxPieces /\ \E p \in Pieces : job' = [job EXCEPT !.pieces = Append(@, p)]
     \/ Len(job.pieces) < 3 /\ \E p \in Odd : job' = [job EXCEPT !.pieces = Append(@, p)]
     \/ /\ Len(job.pieces) < MaxPlain /\ ToSet(job.pieces) \subseteq Plain
        /\ \E p \in Plain : job' = [job EXCEPT !.pieces = Append(@, p)]

\* A text is typed in, word by word; the last word has no separator.  In the longest texts the
\* first word ends at a comma (bounds the texts).
TypeText ==
  /\ job.what = "csv" /\ Len(job.pieces) < MaxWords
  /\ Len(job.pieces) = MaxWords - 1 => Last(job.pieces[1]) = Field!Comma
  /\ job.pieces # <<>> => Last(Last(job.pieces)) \in {Field!Comma, Field!NL}
  /\ \E p \in {w \o s : w \in Words, s \in Separators} \cup Words \cup LastWords :
       p # <<>> /\ job' = [job EXCEPT !.pieces = Append(@, p)]
\* A file is written, synchronized, stamped.
Touch == job.what = "stamp" /\ job' \in Time!Touched(job)
\* Files of short names are opened, created and removed.
Use == job.what = "short" /\ job' \in Short!Used(job)

-----------------------------------------------------------------------------
Init ==
  \/ part = "mount" /\ Volume!Init /\ Format!Unused /\ job = Nothing
  \/ part = "format" /\ Format!FormatInit /\ Volume!Unused /\ job = Nothing
  \/ /\ part = "convert" /\ Volume!Unused /\ Format!Unused
     /\ job \in {Typed} \cup Integers32 \cup Doubles \cup Exponents \cup Dates \cup Times \cup Tables
                \cup {Text} \cup Files \cup Rates \cup Logs \cup Short!Begins

Mounting == part = "mount" /\ Volume!Next /\ UNCHANGED <<part, format, job>>
Formatting == part = "format" /\ Format!FormatNext /\ UNCHANGED <<part, mount, job>>
Converting == part = "convert" /\ (Type \/ TypeText \/ Touch \/ Use) /\ UNCHANGED <<part, mount, format>>
Next == Mounting \/ Formatting \/ Converting
Begins == part = "mount" /\ (Volume!Find \/ Volume!Mount) /\ UNCHANGED <<part, format, job>>
Spec == Init /\ [][Next]_vars /\ WF_vars(Begins)

-----------------------------------------------------------------------------
(* Properties.                                                             *)

\* When nothing failed to be read, begin() mounts the first usable volume in the order of
\* VolumeLocator; with errors it mounts one of the card, with its type; and a card is reported
\* to have no file system only if it has none, whatever cannot be read: a program that formats
\* such a card must not meet a card it could not read (FsVolume::begin, findMbrVolume).
MountsTheFirst == Volume!MountsTheFirst /\ Volume!NoFsIsTrue

\* Every begin() ends, with read errors at any of its steps; and a program that calls it again
\* until it succeeds mounts a card that has a volume, once the errors are over, whatever was
\* left by the calls that failed (FsVolume::begin, findMountableVolume, searchIndex).
Settles == Volume!Settles

\* A card that is said to be formatted can be mounted as the type it was formatted, with all
\* that a mount relies on initialized and nothing written twice or outside the card; erasing it
\* visits every sector once, and only an access that failed makes the program give up half way
\* (FatFormatter, ExFatFormatter, the sketches SdFormatter).
FormatMounts == Format!FormatMounts /\ Format!ErasedOnce

\* A name the library accepts is read back, printed and cut off as it was given, on FAT and
\* exFAT; names find each other exactly when they differ in case only; what is accepted is
\* UTF-8, and what exFAT accepts, FAT does.  The upcase table means what it says, and the
\* compressed one on the card means the same (makeSFN, getName8, cmpName, toUpcase, writeUpcase).
NamesKept ==
  /\ job.what = "upcase" => Case!UpcaseKept(job.map, job.lookup)
  /\ job.what = "path" =>
       LET fat == Name!FatName(Path) ex == Name!ExFatName(Path) IN
       /\ fat # <<>> => Name!FatKeeps(fat) /\ \A other \in Others : Name!Tells(fat, other)
       /\ ex # <<>> => Name!ExFatKeeps(ex) /\ ex = fat
       /\ Short!ShortKept(Path)

\* Numbers, dates and times are printed as what they are, rounded to the nearest, and invalid
\* dates are not (FmtNumber, FsDateTime).
TextTrue ==
  CASE job.what = "integer" -> Number!IntegerTrue(job.n)
    [] job.what = "double" -> Number!DoubleTrue(job.v, job.prec, job.alt)
    [] job.what = "exponent" -> Number!ExponentTrue(job.m, job.e, job.prec)
    [] job.what = "date" -> Number!DateTrue(job.year, job.month, job.day)
    [] job.what = "time" -> Number!TimeTrue(job.hour, job.minute, job.second, job.tz)
    [] OTHER -> TRUE

\* What crosses between its text and the program is the same on both sides: names in the
\* encodings of the two file systems and of their callers, numbers, dates and times.
ConversionsKept == NamesKept /\ TextTrue

\* The times of a file are what they were set to: a stamp is not undone by a sync that comes
\* later, a write is not shown as older than it is, the entry keeps its checksum
\* (timestamp, sync and the getters of FatFile and ExFatFile).
StampsHeld == job.what = "stamp" => Time!StampsHeld(job)

\* A field, a line, an array of numbers that is read is the one in the file, whole, with the
\* number that stands there; what is too long or no number is refused
\* (fgets; csvReadText and the rest of ReadCsv; ReadCsvArray, ReadCsvFile).
FieldsTrue ==
  job.what = "csv" =>
    LET text == FlattenSeq(job.pieces) IN
    /\ \A n \in {4, 9} : Field!FieldsTrue(text, n)
    /\ \A n \in {5, 9} : Field!ArrayTrue(text, n, 2, 2)
    /\ \A n \in {6, 20} : Field!LinesTrue(text, n)

\* In a build without long names every file is listed once and opened by its own name, one that
\* has a long name is known to and not removed, so that no long name is left without its file
\* (open, openExistingSFN and remove of FatFileSFN.cpp).
ShortFound == job.what = "short" => Short!ShortFound(job)

\* The samples of a log are as far apart as its metadata says, near to what was asked for, and
\* far enough for the ADC; its name is the next that is free
\* (adcInit, createBinFile and logData of AvrAdcLogger and AnalogBinLogger).
SamplesInTime ==
  /\ job.what = "timer" => Setup!SamplesInTime(job.cpu, job.ticks, job.pins, job.eightBits, job.round)
  /\ job.what = "log" => Setup!NextFree(job.n, job.exists)
=============================================================================
