# Verification of SdFat (ESP8266 fork)

TLA+ models of the SdFat library in `src/`, TLC configurations that check them
on small instances, and TLAPS proofs of the properties that matter most for
every value of the constants.  Paths below are relative to `src/src/` unless
they start with `src/`.  The build modelled is the one of ESP8266 in
`SdFatConfig.h`: one sector cache, long names, no CRC on the SPI bus, no FAT12;
another build is named where it is modelled (short names only, SDIO on Teensy,
the sketches for AVR and Teensy).

## 1. Inventory

The application holds file objects; everything below runs in its one thread,
except what an interrupt handler shares with it: the ring buffer, the SDIO
driver, and the buffers of the logger sketches.

    application -> StdioStream, iostream, BufferedPrint
         |                     |
         +------> FsFile -> FatFile / ExFatFile -> FatPartition / ExFatPartition
         |                                              |
       interrupt -> RingBuf -> file                 FsCache (one sector)
                                                        |
                                   BlockDevice: SdSpiCard or SdioTeensy -> card

| part | state | operations | behaviour that is hard | what makes it correct |
|---|---|---|---|---|
| FAT partition, `FatLib/FatPartition` | the FAT on the card, `m_allocSearchStart`, `m_freeClusterCount` | allocateCluster, allocContiguous, freeChain, fatGet, fatPut, freeClusterCount | any access may fail between two stores; the search start and the count are hints that outlive operations | chains never meet, never hold a free cluster, end; the count is exact |
| sector cache, `common/FsCache` | one buffer, `m_sector`, dirty and mirror bits | prepare, sync, invalidate, cacheSafeRead, cacheSafeWrite | file data goes past the buffer; two writes per FAT sector; power loss between them | a read gives the last value stored; sync means on the device; the two tables differ only where an interrupted sync left them |
| FAT file, `FatLib/FatFile` | per handle: position, size, first and current cluster, flags | open, read, write, seek, truncate, preAllocate, sync, close, remove | a position at a cluster boundary; the CONTIGUOUS and PREALLOCATE shortcuts; failure in the middle of a loop | the file is a sequence of bytes; it never touches another file's clusters |
| FAT directories, `FatFile.cpp`, `FatFileLFN.cpp`, `FatVolume` | entry sets, chains of directories | create, rename, mkdir, rmdir, remove, open, openNext | several entries per name, a failure or a power cut between them; the search for free entries | names are unique and found; a chain has one owner; an operation disturbs one file |
| FAT with short names only, `FatFileSFN.cpp` | as FAT directories | open, create, remove | entries a computer with long names left | a file is found, its long name is not orphaned |
| formatters | none: a list of writes | format of FAT and exFAT | geometry arithmetic over six orders of size; a write that fails | what is formatted can be mounted |
| exFAT, `ExFatLib` | bitmap, FAT, entry sets with checksums, handles | as FAT, contiguous files without a chain | a file turns from contiguous to chained; bitmap, FAT and entry change separately | each cluster one owner and a bit; an entry names only what is on the device |
| SD card over SPI, `SdCard/SdSpiCard` | `m_state`, `m_curSector`, `m_spiActive`; the card on the other side | begin, read and write sectors, sync, erase, registers | a transfer stays open between calls; every exchange can fail | the driver's pointer and the card's agree; the bus is free when it must be |
| SD card over SDIO, `SdCard/SdioTeensy` | transfer state, `m_irqstat`, `m_dmaBusy`, the controller's registers | begin, read, write, sync, erase, poll | the handler and the thread both clear the status; a sector is left in the FIFO for the next call | what was written with success is on the card; calls return |
| volume locator, GPT, `common/VolumeLocator`, `GptPartition`, `FsLib/FsVolume.cpp` | `searchIndex`, the header chosen | find a candidate, mount it, go on | protective MBR, backup header, read errors that come and go | the first usable volume is mounted; no card is called empty that could not be read |
| FsLib, `FsLib/FsFile`, `FsVolume` | which of two classes lives in a file's memory | dispatch, copy, open, close | memory of one class used as the other; 64 bit positions | the pointer says what is in the memory |
| ring buffer, `RingBuf.h` | `m_buf`, `m_head`, `m_tail`, `m_count` | memcpyIn/memcpyOut (handler), write, writeOut, readIn, sync (main) | the handler runs between any two steps of the main program | bytes come out once, in order |
| streams, `iostream`, `BufferedPrint.h` | a buffer, a file, error flags | get, put, ungetc, flush, seek | switching between reading and writing over one buffer; scanners look ahead | the stream is the file |
| text, names, dates, numbers, `common/Fs*`, `FmtNumber`, `upcase` | none | UTF-8/16, comparison, 8.3 names, FAT date and time, decimal output | boundaries | they invert each other, or refuse |
| logger sketches, `src/examples` | queues or rings of blocks, the log file | sample, write, stop, recover, read back | an interrupt between any two steps of the writer; a reset | no tick lost unaccounted; the readers show what was sampled |
| CSV sketches, `src/examples` | none | read fields, lines, arrays | a field longer than its buffer | whole or refused |
| SPI drivers, digital I/O, serial, listings | hardware registers | byte transfer, printing | outside a model's reach | none |

`PROJECT.json` lists every part with its status, and under `hazards` the places
where each hard behaviour bites.

## 2. Modules

| module | models | state and actions |
|---|---|---|
| `FatPartition` | `FatPartition.cpp` as `FatFile::addCluster`, `preAllocate` and `truncate` drive it | `fat`, `allocSearchStart`, `freeClusterCount`, the chain heads of a set of files and the heads their entries name; one action per operation and per failure point in it; freeChain is a loop of steps; `Reopen` and `Mount` read the entries, `Mount` forgets the hints |
| `FsCache` | `FsCache.h/.cpp`, `cacheSafeRead/Write` | the buffer, its status, the sectors and the mirror on the device; one action per operation, one per way it can fail, and a restart between any two writes |
| `SectorStore` | what the cache promises | one value per sector, and the set of values a restart may uncover |
| `FatFile` | one file object of `FatFile.cpp` | the handle's fields, the FAT, the units of each cluster, the directory entry; `write` and `read` are loops of choose-a-cluster and transfer-a-piece, each able to fail; another file takes and gives up clusters in between |
| `ByteFile` | what `FatFile.h` promises | a sequence of bytes, a position, a size |
| `FatDirectory` | directories of `FatFileLFN.cpp`, `FatFile.cpp`, `FatVolume` | the chains and the slots of each directory; an operation is the list of volumes its writes lead through, and may be cut between any two |
| `ExFatFile` | `ExFatFile.cpp`, `ExFatFileWrite.cpp`, the bitmap | bitmap, FAT, stream entries, file objects; calls as lists of volumes, cut by an error, by power, or for want of space |
| `ShortNames`, `Names`, `Upcase` | paths and names of both file systems, and the directory of a short-name build | operators over sequences of bytes and units; a directory is a sequence of entries |
| `Numbers`, `Stamps` | `FmtNumber`, `FsDateTime`; the times in an entry | operators; `Touched` is the set of files one call makes of a file |
| `Formatter` | both formatters and both SdFormatter sketches | layouts as records of sectors; the writes one step at a time |
| `VolumeMount` | `VolumeLocator`, `GptPartition`, `FsVolume::begin` | a fixed card, the search index, the header, the volume named; one action for begin, the search and the mount, with the sectors each cannot read |
| `FsLib` | `FsFile`, `FsVolume` | for each handle the two pointers and the object in its memory, for each volume its file system and its entries |
| `StdioStream` / `StdioFile` | `StdioStream.cpp` / a stdio stream without a buffer | the flags, the bytes held, `m_p`, `m_r`, `m_w` / content, position, what is read next |
| `IoStream` / `TextStream` | `istream`, `ostream`, `fstream`, `bufstream` / a text | bytes and a place / characters taken in order, numbers by their longest prefix |
| `BufferedPrint` | `BufferedPrint.h` | the buffer, the file, what the caller was told |
| `SdSpiCard` / `BlockDevice` | `SharedSpiCard` and `DedicatedSpiCard` / `BlockDeviceInterface.h` | the driver's fields and the card (external), one step per exchange / sectors moved one by one |
| `SdioTeensy` | `SdioTeensy.cpp`, DMA and FIFO, Kinetis and i.MX | the driver's fields, the controller and the card (external), which go on by themselves; the handler at any time |
| `SdCards` | `SdCardFactory` | one of the two drivers, chosen at the start |
| `RingBuf` / `ByteFifo` | `RingBuf.h` / what a ring promises | head, tail, count, cells; a logger's or a player's steps with the handler between any two / accepted and delivered bytes |
| `LowLatencyLogger`, `AnalogBinLogger`, `AvrAdcLogger`, `ExFatLogger`, `TeensyDmaLogger` | the sketches of these names | the indices, queues and blocks of each, the interrupt or DMA, the writer step by step, stop and reset |
| `LogFile`, `LogReader`, `LoggerSetup`, `Csv` | the blocks of a log; its readers; timers and names; the CSV readers | operators |
| `Services`, `FrontEnds`, `Loggers` | compositions | `Services`: the mount search, the formatters and the conversions; `FrontEnds`: FsLib and BufferedPrint, which it extends, and the other two streams; `Loggers`: the seven sketches, whose promises are said once for all; `LowLatencyLogger` is instantiated three times, for the sketches that log an ADC, an ADXL345 and an MPU6050 and differ only in the samples a block has room for.  Their parts share no state in the code; one of them runs |
| `*_proofs` | the theorems of the module they are named after; `Volume_proofs` of `FsCache` and `FatDirectory`, `SdCards_proofs` of both drivers, `FrontEnds_proofs` also of `RingBuf`, `FsLib` and `BufferedPrint`, `Loggers_proofs` of every sketch, with `LowLatencyLogger_proofs` for the three that share a module | |

How they fit: `FatFile` takes any free cluster where the code calls
allocateCluster; the search, its hints and its failure points are
`FatPartition`.  Both read and write the table and the sectors as one array;
that the array behaves so through one buffer with direct accesses is
`FsCache => SectorStore`.  `FsCache` writes whole sectors or fails; that the
driver below does so is `SdSpiCard => BlockDevice`.  `StdioStream`, `IoStream`
and `RingBuf` stand on a file that is a sequence of bytes, which is
`FatFile => ByteFile`.  These cuts are along the code's own interfaces.

Abstractions common to all: a payload is a member of a small set, or the number
of the call that wrote it; a failing device access is a choice bounded by
`MaxFaults` (`MaxErrors`, `MaxCuts`, ...); formatting, error codes and debug
output are left out.

### FatPartition
The table is a function over `Clusters`; `EOC` stands for every value above
`m_lastCluster`.  `Search` is the scan of allocateCluster with its wrap and its
decision to move the search start.  `owner` is auxiliary: the file for which a
cluster was last allocated.  A chain is the least set closed under the links,
not a recursive function, so that it can be proved about.

`entry` is the first cluster each directory entry names, `dirty` the files with
FILE_FLAG_DIR_DIRTY, as truncate, addCluster, preAllocate and sync change them.
`Reopen` and `Mount` take the heads from the entries as they are.  truncate at 0
whose freeChain fails leaves an entry that names freed clusters (see Notes), and
so does a file that is not closed; `revivals` counts the times such an entry is
read back, and what is said of the chains ends there.  The free count is spoken
of further: a second free of a freed cluster makes it too high only.

### FsCache
`Clobber` says whether a device read that fails may have changed the buffer
first.  On ESP8266 (`USE_SD_CRC` 0, no DMA error) `readData` fails before it
fills the buffer, so the run and the theorems take `FALSE`.  With `TRUE`
`BufferCoherent` is violated within three states: `prepare` leaves `m_sector`
naming the old sector (`FsCache.cpp:40`).

### FatFile
Numbers are modulo `Width`, which stands for 2^32; `MaxSize` is the largest
file size.  A unit stands for the bytes between two positions that the calls
use; a sector has `SectorUnits` of them and a cluster `SectorsPerCluster`
sectors.  `foreign` holds the clusters of other files.  A call that fails ends
in `pc = "idle"` with `failed`; with `CloseOnError` the program then only closes
the file.  `open` takes cluster and size from the entry unchecked; when the chain
does not hold the size, or its clusters were freed, `broken` notes it, and the
promises end: a file marked contiguous counts past the end of such a chain into
the clusters behind it.  `UnbrokenByCalls` is about the way there.  The model
follows a broken file until `read` or `write` comes to the link of a free cluster,
which they take for cluster 0, in front of the data: there it stops.  `MayWrite` is a bound of the runs: a
broken file is written at most once.  The program seeks with seekSet, not with fsetpos, on a preallocated
file (see Notes).  Times are in `Stamps`.

### FatDirectory and ExFatFile
The writes of one operation form a sequence of volumes in the order in which
the one-sector cache brings them to the device; the operation ends after the
last, or is cut after any of them, by an error (the call returns false) or by
power (objects are gone).  In `FatDirectory` all long names lose characters, so
that they compete for one alias; directories are in one another to any depth.  A
volume that a cut left with two owners of a cluster is not used further.  The
assumptions are that there is a cluster (`ClustersAssumption`), that "." and ".."
fit into one (`EntriesAssumption`), and that short names are not aliases of long
ones (`NamesAssumption`).  In `ExFatFile` a call that ended for want of space
is followed by remove.

### The card drivers
SPI: the card answers while it is selected, moves the sectors of an open
transfer in ascending order, and ignores what is sent when it is not.  It is
assumed to obey a CMD12 that it receives while it sends; it may answer it with
an error.  A card whose write transfer never got its stop token may or may not
take the next command.  `begin` makes the card ready; when `begin` fails the
program does not use it until another `begin`.  SDIO: after an error in an open
transfer no sector of it moves until CMD12, and the card refuses a data command
while it is in a transfer; a CMD12 that is lost leaves it there until `begin`.
Every wait may time out, also that of waitTransferComplete with a sector still in
the FIFO, and every command takes what is in SDHC_IRQSTAT and clears it, also the
bit another waits for.  `doubt` is auxiliary: the sectors whose end was taken for
that of an earlier one that was given up.
An interrupt that is enabled and pending runs its handler at any point.

### RingBuf and the loggers
The handler runs to its end between two steps of the main program.  The steps
are the code's: read the shared count with interrupts off, one file transfer,
update with interrupts off.  A byte, or a sample, is its position in the stream,
so order, loss and duplication are all visible.  A write of the file that fails
may have stored a first part, which the retry stores again; a read that fails
may have moved the file and leaves `m_head` where it came to and `m_count` where
it was (`misread`).  A recording of AnalogBinLogger starts with no buffer in the
interrupt's hand or with the last one of a recording before (`Stale`); its
overruns are counted without the width of their 16 bits, as in the other sketches.

### VolumeMount
The card is fixed; the sectors that cannot be read are chosen anew for each
search and each mount, `MaxErrors` in all.  A card without a table whose first
sector cannot be read, with a backup region that can be read only now and then,
makes begin's loop name the same candidate again: bounded errors make it end.
After a begin that failed the program may call it again, on the members the
failed one left.

### Streams, FsLib and conversions
The caller of a StdioStream keeps the C rules for update streams and does not
seek with SEEK_CUR (see Notes).  In `FsLib`, `spoiled` is auxiliary: the handles
whose own close() failed.  `PosWidth` stands for 2^32.  CSV numbers have at most
three digits and the limits of the integer types are scaled to that.

## 3. Runs

Every passing run has a mutant of the code for each of its properties
(`mutants` in `PROJECT.json`) that TLC finds to violate it.

| run | bounds | what it shows |
|---|---|---|
| `fat_partition` | 3 clusters, 2 files, 2 failures, an entry left unsaved among them, 1 entry with freed clusters read back; 638,000 states | chains disjoint until such an entry is read; nothing lost and the count exact while nothing failed; the count never too low, after such an entry too |
| `fs_cache` | 2 FAT sectors with mirror, 2 data sectors, 2 values, 2 failures, 2 restarts | the cache is a sector store; a clean buffer is what the device holds; tables differ in at most one sector per restart |
| `fat_file` | 2 clusters of 2 sectors of 2 units, size up to 5, 2 write calls, 1 failure, 1 cluster of another file; 1.42 million states | what the object remembers is right, the other file is not touched and the file is a sequence of bytes until a broken entry is opened; no entry is broken, and nothing lost, while nothing failed |
| `file_beyond` (violated) | 3 clusters of 1 unit, going on after an error | a position beyond the size wraps in `read` |
| `fat_directory` | 2 clusters of 3 entries, 1 short and 2 long names, fixed or growing root, 1 cut | volume sound without a cut; open finds what openNext lists; an operation disturbs one file |
| `exfat_file` | 3 free clusters, 2 files of up to 3 units, 1 cut | clusters have one owner and their bit; entries name what is on the device |
| `exfat_full` (violated) | the same, no cut | a search of the full bitmap does not end |
| `sd_cards` | SPI: 3 sectors, 2 values, 2 failures, both kinds of bus; SDIO: 2 sectors, 1 failure, both builds, DMA and FIFO; 240,000 states | both drivers move the sector that is asked for, keep what they reported written (over SDIO but for a sector that a late end was taken for), and SDIO calls return |
| `ring` | ring of 4, 11 bytes, 2 failing writes or reads, whole or after a part | a logger's and a player's bytes pass in order, twice only from a write that failed; writeOut and readIn end |
| `services` | 2 partitions, 2 errors; 35 card sizes; paths of up to 6 characters; texts of 4 words; directories of 6 entries; 135,000 states | begin mounts the first volume and ends, and called again until it succeeds mounts the volume there is; what is formatted mounts; names, numbers, dates, times, fields and timers are true |
| `front_ends` | buffers of 3, files of up to 4 bytes, 1 failure; 2 handles on 2 volumes with 2 names | the streams are the file; handles are of the class they say; positions are exact |
| `loggers` | blocks of 2 samples (3 and 1 in the two other LowLatencyLoggers), rings of 3, 6 blocks of file, 16 ticks; 142,000 states | times right, losses counted, a character stops each sketch |

Why the bounds are enough.  Three clusters are enough for a chain of two beside
another file's, a wrap of the search on either side of the current cluster, and a
run that does and does not fit; two failures for a truncate that fails and what
comes of the entry it leaves.  Two FAT and two data sectors let every
operation evict a sector of either kind and a range hold the buffered sector or
not.  `fat_file` has writes that start, end and cross in the middle of a sector
and a cluster, over data of another call, in both orders of the clusters, and a
size beyond the last cluster.  It was also run by hand, without an error, with
three clusters of four units without another file (2.25 million states), of two
units, and with four clusters of one unit: more than fits the time of a regular
run.  In `fat_directory` a directory fills its cluster and needs the second one,
and a long name straddles the two; with two clusters a directory is renamed only
in a fixed root.  Three clusters, where directories move between directories,
were run by hand without a cut (46,600 states) and, with one long name, with one
(103,000).  In `exfat_file` two files meet, chain and fill the volume.  Three
sectors let an open transfer over SPI stand before, at and behind the sector a
call wants; over SDIO two do, and one block count ends a Kinetis transfer.  A
ring of four is passed more than twice, with requests longer than the ring.  The
card sizes of `services` are those on both sides of every line of the tables in
the formatters.  The loggers' rings overflow, empty and wrap in sixteen ticks.
One failing access reaches every failure point; two, where the state after a
failure is one the next call goes on from.  The theorems below remove the bounds
for what they state.

`CHECK_DEADLOCK FALSE` stands where the system may stop: `read` or `write`
of a broken file has come to cluster 0, a volume a cut left
unsound is not used again, a conversion is done, a sketch has stopped.

Fairness.  `RingBuf`: the steps of writeOut and readIn, straight loops in the
main program; a handler that returns gives the program its turn.  `SdCards`: the
steps of the thread in a call over SDIO (polling loops with a time limit) and of
the host controller, which ends or reports what it was told.  `Loggers`: the
steps of the sketch, a card that does not stay busy for ever, and the interrupt
of a running ADC timer.  `Services`: a begin that was called goes on (`Find`,
`Mount`).  All of it is weak; none is assumed of calls or of failures.  That a
program calls begin again is the hypothesis of the second part of `Settles`, in
the formula.

## 4. Findings

Each violated run has one property and quotes the line of the repository it
contradicts:

* `file_beyond`: a write that failed half way leaves the position beyond the size;
  `read` (`FatLib/FatFile.cpp:741`) then computes a huge rest and reads on.
* `exfat_full`: `bitmapFind` (`ExFatLib/ExFatPartition.cpp:153`) sets its index to
  0 after the test against the start, so on a full volume it does not end.

### Notes
What the code does and a model steps around or states in its properties; each
was seen with TLC or in reading, and has a line under `hazards`:

* `FatPartition.cpp:317` compares with `<`: a freed cluster that equals
  `m_allocSearchStart` stays unused until the next mount, and an allocation can
  report a full volume that is not.
* fsetpos (`FatFile.cpp:254`) leaves PREALLOCATE set: a short write there drops
  the rest of its first sector.
* writeStop (`SdSpiCard.cpp:653`) does not select the card, so after a failed
  sector the stop token is lost and the driver says IDLE.
* truncate at 0 (`FatFile.cpp:1314`) marks the entry dirty only after freeChain:
  when that fails, or the sync behind it and the volume is mounted again, the
  entry names clusters that are free, open (`FatFile.cpp:510`) takes them back
  unchecked, and a later allocation gives them to another file.  Without its
  condition on `revivals` TLC violates `ChainsDisjoint` in six states.  After a
  truncate that failed half way a chain may also be too short for its size; a
  contiguous file then writes into clusters behind it.
* waitTransferComplete (`SdioTeensy.cpp:630`) leaves `m_curState` and
  `m_curSector` when it gives up with the sector in the FIFO; the late end of that
  sector is taken for the next one's, and a sector reported written can be lost
  (`SdioKept` without `doubt` is violated).  A status that another command
  cleared (line 398) lets a transfer that ended well time out.
* writeOut (`RingBuf.h:341`) writes again what a failing write stored of its
  piece.  readIn (line 257) returns from its loop without updating `m_count`: after
  a read that failed, what follows goes behind a gap.
* printField of a string (`BufferedPrint.h:105`) adds what two writes returned:
  when only the terminator was written it still returns what line 103 calls true.
* A refused fseek does not set the error indicator (`StdioStream.h:313` says so);
  fflush (`StdioStream.cpp:48`) returns EOF on an update stream that was
  written, moved, read and moved again, and 0 on one that was only read, where
  it drops what was read ahead.
* remove (`FatFileLFN.cpp:550`, `ExFatFileWrite.cpp:287`) closes the object before
  its last writes; when these fail an FsFile says it is open over a closed object.
* exFAT: after a write that failed `m_dataLength` is too small; remove and
  truncate then clear too few bits, or with a length of 0 those of other files.
* `StdioStream.cpp:196` adds the position twice for SEEK_CUR; fillBuf never sets
  S_SRD on an update stream that is read first.
* A card of exactly 2 GiB gets a FAT32 layout that is refused
  (`FatFormatter.cpp:75`).  The formatters write the boot sector before the FAT.
* `FsFile.cpp:52`: after a close that fails the pointer stays; rename with a
  directory of the other file system passes a null pointer (`FsFile.h:636`).
* A FAT file created with a clock and never written has no modify date.
* exFAT names: U+FFFF is refused, over-long UTF-8 above ASCII is accepted; the
  parser of short names drops the case of both parts when either is mixed.
* The exponent of a double of 1e128 and more wraps (`FmtNumber.cpp:333`).
* SDIO: erase's syncDevice is compiled out (`SdioTeensy.cpp:729`).
* Streams: getStr of `istream.cpp:320` loses a character at the width; an
  ibufstream cannot seek to its end; fgets returns a partial line on a read error.
* CSV: csvReadInt16 and csvReadUint16 test against the limits of int, which
  pass everything on 32 bits; csvReadUint32 takes a minus sign.
* Sketches: AvrAdcLogger never writes its overruns and may leave its last block;
  built for an Uno its FIFO is one block (`AvrAdcLogger.ino:110`), and binaryToCsv,
  which reads a FIFO at a time, stops behind the metadata (line 533): a text
  without samples, so `TimesRight` asks for larger FIFOs there;
  AnalogBinLogger may write its last block twice, and stopped before its first
  sample writes one of the recording before, whose `isrBuf` adcStart
  (`AnalogBinLogger.ino:398`) does not reset; LowLatencyLogger drops its queue
  when it stops for an overrun, and after a reset before the erase takes blocks
  of an older log for its own; ExFatLogger and TeensyDmaAdcLogger leave what is
  in their rings when stopped; adcInit accepts an interval below 160 ticks with
  several pins, which wraps.

## 5. Proofs

`tlapm` checks every theorem to its last leaf.  What is proved, for every value
of the constants that the named `ASSUME`s allow (`VolumeAssumption`,
`BoundsAssumption` and so on in each module; TLC evaluates them in every run):

| module | theorems | argument |
|---|---|---|
| `FatPartition_proofs` | `Invariance`, `TypeCorrect`, `NeverCrossLinked`, `FileClustersStayAllocated`, `SoundUntilAFailure`, `AllAccountedFor`, `CountExact`, `CountNeverLow` | `IInv`: until an entry with freed clusters is read back, every linked cluster was allocated for the file it is reached from (`owner`), links are injective, a chain being freed is detached, no set of clusters links only into itself. "Chains are disjoint" alone is not inductive: a free step could meet a chain that shares a tail. While nothing failed every allocated cluster is a head or linked to, and in every set of clusters there is one that none of them links to: the allocated clusters outside all chains are none. While nothing failed a file that is not dirty has its head in its entry (`EntriesAgree`), so that what is opened is what was closed. The counts are by the clusters one step adds or removes |
| `Volume_proofs`, cache | `Invariance`, `Coherence`, `Implementation`, `TornBound` | under `~Clobber`; type and status of the buffer are inductive with its coherence; each action maps to an action of `SectorStore` or a stutter; the sectors in which the tables differ are counted against the restarts |
| `Volume_proofs`, directories | `DirInvariance`, `FindsAlways` | `DirInvariant`: a cluster is in one place of one chain (`Apart`), a chain has the name of its first cluster (`Headed`), no name is behind an entry never used (`Filled`), which both searches stop at, and none is in a cluster outside all chains (`Bare`): a directory that grows, or a cluster used again after a cut, would bring it to light. Names are found because open and openNext, which read the entries one by one with a state of what came before, are shown to be in states that agree at each slot |
| `FatFile_proofs` | `FileInvariance`, `MembersAlwaysRight`, `ClustersAccounted`, `ForeignAlwaysIntact`, `UnbrokenUntilAFailure`, `ReadsStopAtEnd`, `FileIsByteFile` | `FileInv`, below; for the refinement also `UnitsInv` and `ZerosAhead` |
| `SdCards_proofs` | `CardInvariance`, `CardSafety`, `CardIsBlockDevice`, `SdioInvariance`, `SdioSafety`, `SdioReads`, `SpiAmongCards` | SPI: `CardInv` says where the card stands whenever it is selected: between calls in the transfer of `m_state` at `m_curSector`, within a call at the sector moved next; `PointerAgrees` alone says nothing of the middle of a call. SDIO: a sector the driver reports written is stored later (FIFO) or was stored by the controller (DMA); the invariant says what the open transfer still holds, and how far the controller has come in the call that waits for it and after one that gave it up |
| `FrontEnds_proofs`, ring | `RingInvariance`, `RingIsFifo`, `LoggerAccounts` | the invariant says which cells hold which bytes while a writeOut or readIn is half done: `m_head` is `m_count - done` (or `m_count + done`) cells ahead of `m_tail`; the logger and the player have one invariant each |
| `FrontEnds_proofs`, FsLib | `FsInvariance`, `HandlesAlwaysSound`, `SeeksAlwaysExact` | `FsInv` speaks of every handle, the spoiled ones too: a pointer names the class of what is in the memory, the object's file system is that of its volume, and the size it holds is the entry's unless it is dirty |
| `FrontEnds_proofs`, BufferedPrint | `AlwaysInOrder` | the order of first places is not inductive: a failed write puts part of the buffer into the file, in front of the buffer itself. Kept is that a byte of the buffer or the file that is smaller than one in the file has a place there before it (`Precedes`) |
| `ExFatFile_proofs` | `ExFatInvariance`, `BitmapAlwaysRight`, `EntriesAlwaysReadable` | `Inv`, below |
| `Loggers_proofs`, `LowLatencyLogger_proofs` | `LoggersInvariance`, `NothingEverDropped`, `TimesAlwaysRight` | one invariant for each sketch, below |

**`FileInv`.**  What a FatFile remembers is about a chain that is only in the
table.  The invariant names the chain: there are a length `L` and a function
`ch` from `0 .. L - 1` to clusters that follow the links from `firstCluster`, no
other file's cluster among them, at least as long as the size needs; the current
cluster is `ch` at the index of the position, which differs by one between the
inside of the loops of `read` and `write` and the outside.  `MembersRight` alone
is not inductive: it would allow a chain that runs into another file or into
itself.  An operation changes `ch` by nothing, by one cluster, to a prefix or to
nothing.  After a call that failed half way only this is left: entry and handle
each head a chain of their own, or a cluster that was freed.  All of it holds
until an entry is opened whose chain does not hold its size (`~broken`), and for
such an entry to come about a call must have failed.  `Walk`, the
model's recursive function, is shown to follow `ch` by induction over sets of
numbers (a set with 0 and every successor holds all numbers, by `WFMin`), which
needs no operator parameter.  `FileInv` was checked with TLC on the instance of
`fat_file` before it was proved.

**The refinement.**  `FileIsByteFile` says that every behaviour of `FatFile` is
one of `ByteFile` whose content is read off the chain.  The mapping's `Walk` and
`FoldLeft` are first shown to give unit `i` of the file as a unit of cluster
`ch[i \div ClusterUnits]`; then each action is mapped: a piece of a write changes
the units of its range and no other, also when it extends the chain, a read
delivers those of its range, truncate and remove keep a prefix or nothing, and a
close leaves an entry from which the next open finds the same units.  Two more
invariants are needed.  `UnitsInv`: free and foreign clusters hold units of
unknown value, so a cluster added to the chain adds nothing known, and no piece
is pending between calls.  `ZerosAhead`: in a file preallocated and not yet cut
back to its size, nothing known lies behind the position, which is why write may
begin a sector there without reading it (`FatFile.cpp:1416`).  A failing step is
mapped to one that `ByteFile` allows only with a device fault where the code has
no other reason to fail; the fault counter is part of the mapping, so that a read
or seek that gives up without a fault is no implementation.

The theorems about `FatFile` take `CloseOnError` as hypothesis, as the run
`fat_file` does: after a call that failed the program closes the file.  Without
it they are false.  A write that fails at the start of a cluster has moved
`m_curCluster` and not `m_curPosition`; in a file marked contiguous the next
write takes the cluster after, which may be past the chain and another file's
(`ForeignIntact` fails within ten steps), and `file_beyond` shows
`ReadStopsAtEnd` fail.

**exFAT.**  Which clusters a file has is said by two records, its entry on the
device and its object, and by the FAT or by nothing, if the file is contiguous.
`Inv` says that each file has a list `L[f]` of `N[f]` clusters such that the
lists are disjoint and marked in the bitmap (`Apart`), each list is what the
object says, or the entry of a closed file (`Follows`), holds what was written
(`Right`), and has the current cluster at the position (`Placed`).  The entry of
an open file is behind it (`Behind`): it says a first part of the list, and a
chain of the FAT only if the object does, for a file that has
clusters never becomes contiguous again.  This is why `BitmapRight` is not inductive: it says nothing of the entry
that an open file will be found by after a cut.  Between two calls a volume is
`Sound`, and before a cut `Owned`: nothing else is marked.  Within a call it is
`Stored` at every write: the entries can be read, by lists that may be shorter
than those of the objects.  That order is what the proof is about: addCluster
marks the bit, then writes the links of a file that was contiguous, from the
first on, then the end, and links it last, so that an entry still says a
contiguous file while its chain is written (`ExFatFileWrite.cpp:92`).  A restart
drops the objects, and the lists of the entries are what is left (`Stored`, so
`Sound`, no longer `Owned`).  In truncate and remove the entry may name clusters
that are free already; after a cut there (`half = "frees"`) nothing is claimed.
Assumed is `VolumeAssumption` only: a cluster has a unit and the volume fewer
clusters than a count can say.

**The loggers.**  `NothingDropped` is not inductive: a tick can be in the file,
in a full block, in the block the interrupt fills, or in a count of overruns.
For each sketch the invariant writes down the file as it will be when every
block on the way is written (`Written` of `LowLatencyLogger`, `BinLog` of
`AnalogBinLogger`, the file and the ring of `ExFatLogger` and
`TeensyDmaLogger`), and says that its ticks, with the overruns still counted
aside, are all there were.  A step of the writer moves a block along this list,
a step of the interrupt adds to its end.  The queues of `AnalogBinLogger` also
keep each buffer in one place (`BinApart`): only so does the writer not empty a
block the interrupt fills.  After a stop the last block may be in its list
twice, which the code does (see Notes) and the invariant says.  For
`AvrAdcLogger`, whose overruns are lost, what is kept is the ring (`AdcRing`),
how many blocks a stop can leave (`AdcEnd`), and that file, ring and the
interrupt's block are in the order of the ticks (`AdcOrder`).  For `LowLatencyLogger` the
invariant goes on through stop, rename and reset, to the binary search of
recoverTmpFile, which is shown to end at the last block written because the
blocks in use are the first ones.

`TimesRight` follows in two parts.  The list of blocks is in time, each sample
at the tick that the counts before it add up to; this is kept by the same steps,
and a file is a beginning of its list.  The readers are functions of the file:
a text has the samples of its blocks in time (`TextRight`), a reader that stops
at an empty block reads all because no empty block is written, and one that
reads a buffer at a time joins the texts of its parts (`PartsJoin` of
`LowLatencyLogger_proofs`; `ExFatReads`, `AvrAdcReads`).  Assumed is
`BoundsAssumption`: a block has room for more than one sample, and a sketch has
more than one buffer.

Only model-checked:

* Liveness (`Ends`, `SdioReturns`, `Stops`, `Settles`): the prover handles
  neither fairness nor ENABLED.
* `SoundVolume` and `OthersKept` of `FatDirectory`: what a whole operation leaves,
  beyond the part of it in `DirInvariant`.  `DirNext` starts only on a volume
  where each cluster has one owner, so a state that a cut left otherwise is not
  gone on from.
* `ExFatFile` after a call that failed half way.
* The conversions, streams, names and formatters: they are recursive over data.
  Their modules have RECURSIVE operators, with which the prover loses its solver.

## 6. Not modelled

* FAT: volume labels, the current directory, rmRfStar; two handles open on one
  file, which `FatFile.h:517` forbids; the hash of makeUniqueSfn.
* exFAT: directories that grow, mkdir, rename and rmdir, whose chains are those
  of files; the current directory.
* SPI: erase, register reads, isBusy and CRC.  They end an open transfer as any
  command does and move no sectors.  SDIO: clock, pins, registers.
* The build with a FAT cache of its own (`USE_SEPARATE_FAT_CACHE`): two
  instances of `FsCache` that share a device.
* FsLib: the working volume; a file that is used after end() or a new begin().
* Streams: a sign '+', "0X" and octal numbers (`istream.cpp:265`).
* Floating point as binary numbers (its decimal output is modelled), scanFloat,
  the AVR assembly of `FmtNumber.cpp`.
* SPI drivers, digital I/O, serial and debug output: pure I/O.  The other
  sketches call the library in a straight line.

## 7. Plan

1. Theorems: `SoundVolume` of `FatDirectory` for any depth.
2. `FatFile` and `FatDirectory` over `FsCache` with power loss: the order in
   which remove, O_TRUNC and truncate store table and entry.
3. exFAT directories that grow, and mkdir, rename, rmdir.
