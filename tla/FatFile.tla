------------------------------- MODULE FatFile -------------------------------
(***************************************************************************)
(* One file of a FAT16/FAT32 volume, open for reading and writing through  *)
(* one FatFile: open, write, read, seekSet, fgetpos/fsetpos, truncate,     *)
(* preAllocate, contiguousRange, sync, close and remove of FatFile.cpp.    *)
(*                                                                         *)
(* write and read are loops over pieces of at most a cluster; each turn of *)
(* a loop is a choice of the cluster and a transfer, and each of the two   *)
(* may fail.  The FAT, the sectors and the directory entry are seen        *)
(* through the cache (module FsCache); allocateCluster is any free cluster *)
(* (module FatPartition has the search).  Numbers are modulo Width, which  *)
(* stands for 2^32; a sector has SectorUnits units, each standing for the  *)
(* bytes between two positions the calls use.                              *)
(***************************************************************************)
EXTENDS Integers, FiniteSets

CONSTANTS
  LastCluster,        \* m_lastCluster
  SectorUnits,        \* units of a sector
  SectorsPerCluster,  \* m_sectorsPerCluster
  MaxSize,            \* 0XFFFFFFFF, the largest size of a file
  MaxWrites,          \* bound on the number of calls of write
  MaxFaults,          \* bound on the number of failing device accesses
  MaxForeign,         \* bound on the clusters of other files
  CloseOnError        \* the program closes a file when a call on it failed

ASSUME VolumeAssumption ==
  /\ LastCluster \in Nat /\ LastCluster >= 2
  /\ SectorUnits \in Nat \ {0} /\ SectorsPerCluster \in Nat \ {0}
ASSUME BoundsAssumption ==
  /\ MaxSize \in Nat /\ MaxWrites \in Nat /\ MaxFaults \in Nat /\ MaxForeign \in Nat
  /\ CloseOnError \in BOOLEAN

Clusters == 2 .. LastCluster
EOC == LastCluster + 1
ClusterUnits == SectorUnits * SectorsPerCluster
Width == MaxSize + 1
\* What a unit holds: the number of the call that wrote it, or nothing known.
NoByte == 0
Junk == [u \in 0 .. ClusterUnits - 1 |-> NoByte]

VARIABLES
  next,          \* the FAT: Clusters -> free (0), a link or EOC
  foreign,       \* the clusters of other files
  data,          \* the units of each cluster
  entry,         \* the directory entry: used, first cluster, size
  firstCluster, curCluster, curPosition, fileSize,  \* m_firstCluster ...
  flags,         \* m_flags: of "append", "preallocate", "contiguous", "dirDirty"
  pc,            \* "closed", "idle"; in write "next" or "put": about to choose a
                 \* cluster or to transfer a piece; "fetch", "get": the same in read
  todo,          \* nToWrite, toRead
  got,           \* the units the last piece of read delivered
  failed,        \* a call on the open file has failed
  broken,        \* auxiliary: an entry was opened whose chain does not hold its
                 \* size, because a call that failed had given up part of it
  writes,        \* calls of write so far
  faults         \* device accesses that failed so far

volume == <<next, foreign, data, entry>>
cursor == <<curCluster, curPosition>>
file == <<firstCluster, fileSize>>
call == <<todo, got, writes>>
vars == <<volume, cursor, file, flags, pc, call, failed, broken, faults>>

\* An empty volume with one empty file, not open.
Init ==
  /\ next = [c \in Clusters |-> 0]
  /\ foreign = {}
  /\ data = [c \in Clusters |-> Junk]
  /\ entry = [used |-> TRUE, first |-> 0, size |-> 0]
  /\ firstCluster = 0 /\ curCluster = 0 /\ curPosition = 0 /\ fileSize = 0
  /\ flags = {}
  /\ pc = "closed"
  /\ todo = 0 /\ got = <<>> /\ failed = FALSE /\ broken = FALSE
  /\ writes = 0 /\ faults = 0

-----------------------------------------------------------------------------
Lesser(a, b) == IF a < b THEN a ELSE b
Free == {c \in Clusters : next[c] = 0}
Fault == faults < MaxFaults /\ faults' = faults + 1
NoFault == UNCHANGED faults

\* fatGet repeated n times from c; EOC when it meets the end or an error.
After(c) == IF c \in Clusters THEN next[c] ELSE EOC
Walk(c, n) == LET w[i \in 0 .. n] == IF i = 0 THEN c ELSE After(w[i - 1]) IN w[n]
\* The clusters of the chain that starts with c.
ChainOf(c) == {Walk(c, n) : n \in 0 .. LastCluster} \cap Clusters
\* Number of clusters that hold `size` units.
Need(size) == (size + ClusterUnits - 1) \div ClusterUnits

\* Mutant: the position counts as being in the cluster that comes after it.
IndexAfter(pos) == pos \div ClusterUnits
\* The index of the cluster curCluster stands for when the position is pos.
ClusterIndex(pos) == (pos - 1) \div ClusterUnits

\* freeChain(c) after it has freed n clusters.
FreedFrom(c, n) == [k \in Clusters |-> IF \E i \in 0 .. n - 1 : Walk(c, i) = k THEN 0 ELSE next[k]]
FreedAll(c) == FreedFrom(c, Cardinality(ChainOf(c)))
\* What a cluster holds is not known from the time it is free.
Forget == data' = [k \in Clusters |-> IF next'[k] = 0 THEN Junk ELSE data[k]]

\* The chain that starts with first holds size units, and all of it is
\* allocated and not another file's.
Holds(first, size) ==
  /\ \A n \in 0 .. Need(size) - 1 : Walk(first, n) \in Clusters
  /\ \A c \in ChainOf(first) : next[c] # 0 /\ c \notin foreign

\* freeChain(c) comes to a cluster that is free already: it clears it again,
\* takes the 0 there for the next cluster, and fatGet refuses it.
MeetsFree(c) == \E k \in ChainOf(c) : next[k] = 0
\* seekSet(size) from the first cluster fails: the chain is too short.  (Where
\* it ends with a free cluster the link followed last may give cluster 0.)
OffEnd(first, size) == size # 0 /\ Walk(first, Need(size) - 1) \notin {0} \cup Clusters

\* A call of the program on the open file.  A program that does not close a
\* file after an error goes on only while the chain holds the file.
Call == pc = "idle" /\ (failed => ~CloseOnError /\ Holds(firstCluster, fileSize))
\* A call returns to the program.
Fails == pc' = "idle" /\ failed' = TRUE /\ todo' = 0 /\ got' = <<>>
Succeeds == pc' = "idle" /\ UNCHANGED <<failed, call>>

Updated(first, size) == [used |-> TRUE, first |-> first, size |-> size]

-----------------------------------------------------------------------------
(* sync, close, open and remove                                            *)

\* sync once the handle holds first, size and fl: the entry is updated and the
\* cache written.  The device may fail before the first or in the second.
Sync(first, size, fl) ==
  \/ /\ "dirDirty" \in fl
     /\ entry' = Updated(first, size) /\ flags' = fl \ {"dirDirty"}
     /\ \/ NoFault /\ Succeeds
        \/ Fault /\ Fails /\ UNCHANGED writes
  \/ /\ "dirDirty" \in fl
     /\ Fault /\ Fails /\ flags' = fl /\ UNCHANGED <<entry, writes>>
  \/ /\ "dirDirty" \notin fl
     /\ flags' = fl /\ UNCHANGED entry
     /\ \/ NoFault /\ Succeeds
        \/ Fault /\ Fails /\ UNCHANGED writes

SyncCall ==
  /\ Call
  /\ Sync(firstCluster, fileSize, flags)
  /\ UNCHANGED <<next, foreign, data, cursor, file>>

\* m_attributes = FILE_ATTR_CLOSED, m_flags = 0.  (The other members are stale
\* until open clears them: they are cleared here.)
Closed ==
  /\ pc' = "closed" /\ flags' = {} /\ failed' = FALSE
  /\ firstCluster' = 0 /\ curCluster' = 0 /\ curPosition' = 0 /\ fileSize' = 0
  /\ todo' = 0 /\ got' = <<>> /\ UNCHANGED writes

Close ==
  /\ pc = "idle"
  /\ Closed
  /\ \/ NoFault /\ entry' = IF "dirDirty" \in flags THEN Updated(firstCluster, fileSize) ELSE entry
     \/ Fault /\ UNCHANGED entry
  /\ UNCHANGED <<next, foreign, data>>

\* First cluster and size are taken from the entry unchecked.
Opened == broken' = (broken \/ ~Holds(entry.first, entry.size))

\* open with O_CREAT makes the entry of a removed file anew.
Open(append, atEnd, trunc) ==
  /\ pc = "closed" /\ Opened
  /\ IF trunc THEN ~MeetsFree(entry.first) ELSE atEnd => ~OffEnd(entry.first, entry.size)
  /\ NoFault
  /\ pc' = "idle"
  /\ entry' = IF entry.used THEN entry ELSE Updated(0, 0)
  /\ flags' = append \cup IF trunc THEN {"dirDirty"} ELSE {}
  /\ next' = IF trunc THEN FreedAll(entry.first) ELSE next
  /\ firstCluster' = IF trunc THEN 0 ELSE entry'.first
  /\ fileSize' = IF trunc THEN 0 ELSE entry'.size
  /\ curPosition' = IF atEnd THEN fileSize' ELSE 0
  /\ curCluster' = IF curPosition' = 0 THEN 0 ELSE Walk(firstCluster', ClusterIndex(curPosition'))
  /\ Forget
  /\ UNCHANGED <<foreign, call, failed>>

\* open fails while it frees the chain for O_TRUNC: the entry is as it was.
OpenFails ==
  /\ pc = "closed" /\ Opened /\ entry.first # 0
  /\ Fault
  /\ \E n \in 0 .. Cardinality(ChainOf(entry.first)) - 1 : next' = FreedFrom(entry.first, n)
  /\ Forget
  /\ UNCHANGED <<foreign, entry, cursor, file, flags, pc, call, failed>>
\* It fails over the chain: in freeing it, or in seeking the end of the file.
OpenRunsOff ==
  /\ pc = "closed" /\ Opened
  /\ \/ MeetsFree(entry.first) /\ next' = FreedAll(entry.first)
     \/ OffEnd(entry.first, entry.size) /\ UNCHANGED next
  /\ NoFault
  /\ Forget
  /\ UNCHANGED <<foreign, entry, cursor, file, flags, pc, call, failed>>

\* remove frees the chain, then deletes the entry, then writes the cache.
Remove ==
  /\ Call /\ ~MeetsFree(firstCluster)
  /\ next' = FreedAll(firstCluster)
  /\ entry' = [used |-> FALSE, first |-> 0, size |-> 0]
  /\ Closed
  /\ \/ NoFault
     \/ Fault
  /\ Forget
  /\ UNCHANGED foreign
\* It fails in the chain, or in reading the sector of the entry.
RemoveFails ==
  /\ Call
  /\ Fault /\ Fails
  /\ \E n \in 0 .. Cardinality(ChainOf(firstCluster)) : next' = FreedFrom(firstCluster, n)
  /\ Forget
  /\ UNCHANGED <<foreign, entry, cursor, file, flags, writes>>
RemoveRunsOff ==
  /\ Call /\ MeetsFree(firstCluster)
  /\ NoFault /\ Fails
  /\ next' = FreedAll(firstCluster)
  /\ Forget
  /\ UNCHANGED <<foreign, entry, cursor, file, flags, writes>>

-----------------------------------------------------------------------------
(* seekSet, fsetpos, truncate, preAllocate and contiguousRange             *)

\* seekSet starts its walk over with the first cluster.
StartsOver(pos) == curPosition = 0 \/ ClusterIndex(pos) < ClusterIndex(curPosition)
\* nNew when the walk begins: the links to follow, each a read of the FAT.
LinkCount(pos) == ClusterIndex(pos) - (IF StartsOver(pos) THEN 0 ELSE ClusterIndex(curPosition))
SeekCluster(pos) ==
  IF pos = 0 THEN 0
  ELSE IF "contiguous" \in flags THEN firstCluster + ClusterIndex(pos)
  ELSE Walk(IF StartsOver(pos) THEN firstCluster ELSE curCluster, LinkCount(pos))
ReadsLinks(pos) ==
  pos \notin {0, curPosition} /\ "contiguous" \notin flags /\ LinkCount(pos) > 0

\* The effect of a seekSet that succeeds: a move ends PREALLOCATE.
SeekTo(pos) ==
  IF pos = curPosition THEN UNCHANGED <<cursor, flags>>
  ELSE /\ curCluster' = SeekCluster(pos)
       /\ curCluster' \in {0} \cup Clusters
       /\ curPosition' = pos
       /\ flags' = flags \ {"preallocate"}

SeekSet(pos) ==
  /\ Call
  /\ pos <= fileSize
  /\ SeekTo(pos)
  /\ NoFault /\ Succeeds
  /\ UNCHANGED <<volume, file>>
SeekFails(pos) ==
  /\ Call
  /\ pos <= fileSize /\ ReadsLinks(pos)
  /\ Fault /\ Fails
  /\ UNCHANGED <<volume, file, cursor, flags, writes>>
\* The walk comes to the end of a chain that is too short.  (By counting it
\* may come to a number beyond the last cluster: such calls are left out.)
SeekRunsOff(pos) ==
  /\ Call
  /\ pos <= fileSize /\ ReadsLinks(pos)
  /\ SeekCluster(pos) \notin {0} \cup Clusters
  /\ NoFault /\ Fails
  /\ UNCHANGED <<volume, file, cursor, flags, writes>>

\* fsetpos to a position fgetpos took when the file had its present clusters.
\* On a preallocated file it leaves PREALLOCATE set and the next write drops
\* bytes: no program is taken to do that.
FSetPos(pos) ==
  /\ Call
  /\ pos <= fileSize /\ "preallocate" \notin flags
  /\ curPosition' = pos
  /\ curCluster' = IF pos = 0 THEN 0 ELSE Walk(firstCluster, ClusterIndex(pos))
  /\ curCluster' \in {0} \cup Clusters
  /\ NoFault /\ Succeeds
  /\ UNCHANGED <<volume, file, flags>>

\* Mutant: the last cluster that is kept goes on linking to the next.
Uncut == next
\* The table with the chain cut after the current cluster.
Cut == IF curCluster = 0 THEN next ELSE [next EXCEPT ![curCluster] = EOC]
\* The first cluster to free, a value outside Clusters when there is none.
ToFree == IF curCluster = 0 THEN firstCluster ELSE next[curCluster]
\* Mutant: a file cut at 0 keeps its first cluster.
KeptHead == firstCluster
Kept == IF curCluster = 0 THEN 0 ELSE firstCluster

\* Mutant: the chain is cut, the rest of it not freed.
CutOnly(n) == Cut
\* The table once truncate has freed n clusters after the cut.  (A current
\* cluster that is free becomes an end: fatGet gave 0, not the end of a chain.)
Truncated(n) ==
  IF ToFree \in Clusters
  THEN [k \in Clusters |-> IF \E i \in 0 .. n - 1 : Walk(ToFree, i) = k THEN 0 ELSE Cut[k]]
  ELSE Cut

Truncate ==
  /\ Call /\ (ToFree \in Clusters => ~MeetsFree(ToFree))
  /\ IF firstCluster = 0
     THEN NoFault /\ Succeeds /\ UNCHANGED <<next, entry, file, flags>>
     ELSE /\ next' = Truncated(Cardinality(ChainOf(ToFree)))
          /\ firstCluster' = Kept /\ fileSize' = curPosition
          /\ Sync(Kept, curPosition, flags \cup {"dirDirty"})
  /\ Forget
  /\ UNCHANGED <<foreign, cursor>>
\* It fails in fatGet or fatPutEOC, or in freeChain after n clusters.
TruncateFails ==
  /\ Call /\ firstCluster # 0
  /\ Fault /\ Fails
  /\ \/ UNCHANGED <<next, firstCluster>>
     \/ /\ ToFree \in Clusters
        /\ \E n \in 0 .. Cardinality(ChainOf(ToFree)) - 1 : next' = Truncated(n)
        /\ firstCluster' = Kept
  /\ Forget
  /\ UNCHANGED <<foreign, entry, cursor, fileSize, flags, writes>>
TruncateRunsOff ==
  /\ Call /\ ToFree \in Clusters /\ MeetsFree(ToFree)
  /\ NoFault /\ Fails
  /\ next' = Truncated(Cardinality(ChainOf(ToFree)))
  /\ firstCluster' = Kept
  /\ Forget
  /\ UNCHANGED <<foreign, entry, cursor, fileSize, flags, writes>>

Run(c, n) == c .. c + n - 1

\* preAllocate: allocContiguous finds a run of free clusters and links it.
PreAllocate(length) ==
  /\ Call /\ firstCluster = 0 /\ length > 0
  /\ \E c \in Clusters : LET run == Run(c, Need(length)) IN
       /\ run \subseteq Free
       /\ next' = [k \in Clusters |->
                     IF k \notin run THEN next[k] ELSE IF k + 1 \in run THEN k + 1 ELSE EOC]
       /\ firstCluster' = c /\ fileSize' = length
       /\ Sync(c, length, flags \cup {"preallocate", "contiguous", "dirDirty"})
  /\ UNCHANGED <<foreign, data, cursor>>
\* The run is marked in part when the device fails; nothing refers to it.
PreAllocateFails(length) ==
  /\ Call /\ firstCluster = 0 /\ length > 0
  /\ Fault /\ Fails
  /\ \E c \in Clusters : \E lost \in SUBSET (Run(c, Need(length)) \cap Free) :
       next' = [k \in Clusters |-> IF k \in lost THEN EOC ELSE next[k]]
  /\ UNCHANGED <<foreign, data, entry, cursor, file, flags, writes>>

\* contiguousRange notes that the chain has no gap.
ContiguousRange ==
  /\ Call /\ firstCluster # 0
  /\ \A c \in ChainOf(firstCluster) : next[c] \in {c + 1, EOC}
  /\ flags' = flags \cup {"contiguous"}
  /\ NoFault /\ Succeeds
  /\ UNCHANGED <<volume, cursor, file>>

-----------------------------------------------------------------------------
(* write                                                                   *)

AtBoundary(pos) == pos % ClusterUnits = 0
WriteLoop(pos) == IF AtBoundary(pos) THEN "next" ELSE "put"
InWrite == pc \in {"next", "put"}

\* The bounds on the calls of write: a broken file is written once, and only
\* if it was not written before.
MayWrite == writes < MaxWrites /\ (broken => writes = 0)
\* The append seek, then the check of the size.
Write(n) ==
  /\ Call /\ MayWrite /\ n > 0
  /\ IF "append" \in flags THEN SeekTo(fileSize) ELSE UNCHANGED <<cursor, flags>>
  /\ n <= MaxSize - curPosition'
  /\ writes' = writes + 1
  /\ pc' = WriteLoop(curPosition') /\ todo' = n
  /\ NoFault
  /\ UNCHANGED <<volume, file, got, failed>>
\* The append seek fails, or the file would become longer than MaxSize.
WriteRefused(n) ==
  /\ Call /\ MayWrite
  /\ \/ "append" \in flags /\ ReadsLinks(fileSize) /\ Fault
        /\ UNCHANGED <<cursor, flags>>
     \/ /\ IF "append" \in flags THEN SeekTo(fileSize) ELSE UNCHANGED <<cursor, flags>>
        /\ n > MaxSize - curPosition' /\ NoFault
  /\ Fails
  /\ UNCHANGED <<volume, file, writes>>
\* The append seek comes to the end of a chain that is too short.
WriteRunsOff == "append" \in flags /\ MayWrite /\ SeekRunsOff(fileSize)

\* A turn of the loop at a cluster boundary with a cluster chosen.
Chosen == pc = "next" /\ todo > 0 /\ pc' = "put" /\ UNCHANGED <<call, failed, curPosition>>
\* isContiguous() and more of the file ahead: the next cluster is known.
Known == "contiguous" \in flags /\ fileSize > curPosition

\* (A link 0 leads write, and read, to the sectors before the first cluster:
\* the model goes no further there.)
ClusterInChain ==
  /\ Chosen
  /\ \/ curCluster # 0 /\ Known /\ curCluster' = curCluster + 1
     \/ /\ curCluster # 0 /\ ~Known
        /\ next[curCluster] \in Clusters /\ curCluster' = next[curCluster]
     \/ curCluster = 0 /\ firstCluster # 0 /\ curCluster' = firstCluster
  /\ curCluster' \in Clusters
  /\ NoFault
  /\ UNCHANGED <<volume, file, flags>>

EndOfChain ==
  \/ curCluster # 0 /\ ~Known /\ next[curCluster] = EOC
  \/ curCluster = 0 /\ firstCluster = 0

\* Mutant: a file that was contiguous is thought to stay so.
ContiguousKept(c) == flags \cup (IF curCluster = 0 THEN {"contiguous"} ELSE {})
\* CONTIGUOUS once addCluster has appended c.
ContiguousAfter(c) ==
  IF curCluster = 0 THEN flags \cup {"contiguous"}
  ELSE IF c = curCluster + 1 THEN flags ELSE flags \ {"contiguous"}

\* addCluster: allocateCluster links a free cluster after the current one.
AddCluster ==
  /\ Chosen /\ EndOfChain
  /\ \E c \in Free :
       /\ next' = [k \in Clusters |-> IF k = c THEN EOC ELSE IF k = curCluster THEN c ELSE next[k]]
       /\ curCluster' = c
       /\ firstCluster' = IF firstCluster = 0 THEN c ELSE firstCluster
       /\ flags' = ContiguousAfter(c) \cup {"dirDirty"}
  /\ NoFault
  /\ UNCHANGED <<foreign, data, entry, fileSize>>

\* No cluster found, or a fault; the new cluster may be marked and not linked.
\* (allocateCluster may find none though some are free: see FatPartition.)
ChooseFails ==
  /\ pc = "next" /\ InWrite /\ todo > 0
  /\ \/ EndOfChain /\ NoFault /\ UNCHANGED next
     \/ curCluster # 0 /\ ~Known /\ Fault /\ UNCHANGED next
     \/ EndOfChain /\ Fault /\ \E c \in Free : next' = [next EXCEPT ![c] = EOC]
  /\ Fails
  /\ UNCHANGED <<foreign, data, entry, cursor, file, flags, writes>>

SectorOffset == curPosition % SectorUnits
UnitOffset == curPosition % ClusterUnits
\* A transfer through the cache, or of whole sectors of one cluster.
Partial == SectorOffset # 0 \/ todo < SectorUnits
PieceSize ==
  IF Partial THEN Lesser(SectorUnits - SectorOffset, todo)
  ELSE Lesser(SectorsPerCluster - (UnitOffset \div SectorUnits), todo \div SectorUnits) * SectorUnits
Piece == UnitOffset .. UnitOffset + PieceSize - 1

\* Mutant: the sector is never read first.
AlwaysReserve == SectorOffset = 0
\* CACHE_RESERVE_FOR_WRITE: nothing of the sector is to be kept.
Reserve ==
  /\ SectorOffset = 0
  /\ curPosition >= fileSize \/ "preallocate" \in flags
\* The units that a new buffer does not hold: the rest of the sector.
Dropped ==
  IF Partial /\ Reserve
  THEN UnitOffset + PieceSize .. UnitOffset + SectorUnits - 1 ELSE {}

\* The current cluster's units when write has stored the units of `stored`.
Stored(stored) ==
  [data EXCEPT ![curCluster] = [u \in DOMAIN @ |->
     IF u \in stored THEN writes ELSE IF u \in Dropped THEN NoByte ELSE @[u]]]

Advanced == curPosition + PieceSize

Put ==
  /\ pc = "put" /\ todo > 0 /\ curCluster \in Clusters
  /\ data' = Stored(Piece)
  /\ curPosition' = Advanced
  /\ todo' = todo - PieceSize
  /\ pc' = WriteLoop(Advanced)
  /\ NoFault
  /\ UNCHANGED <<next, foreign, entry, curCluster, file, flags, got, writes, failed>>

\* The sector is not cached; or it is written on to the device because it is
\* full, and that fails; or some sectors of many are not written.
PutFails ==
  /\ pc = "put" /\ todo > 0 /\ curCluster \in Clusters
  /\ Fault /\ Fails
  /\ IF Partial
     THEN data' \in {data} \cup IF SectorOffset + PieceSize = SectorUnits THEN {Stored(Piece)} ELSE {}
     ELSE \E done \in SUBSET {u \div SectorUnits : u \in Piece} :
            data' = Stored({u \in Piece : u \div SectorUnits \in done})
  /\ UNCHANGED <<next, foreign, entry, cursor, file, flags, writes>>

\* Mutant: the entry is not marked for sync.
WriteEndClean ==
  /\ InWrite /\ todo = 0
  /\ fileSize' = IF curPosition > fileSize THEN curPosition ELSE fileSize
  /\ NoFault /\ Succeeds
  /\ UNCHANGED <<volume, cursor, firstCluster, flags>>
WriteEnd ==
  /\ InWrite /\ todo = 0
  /\ IF curPosition > fileSize
     THEN fileSize' = curPosition /\ flags' = flags \cup {"dirDirty"}
     ELSE UNCHANGED <<fileSize, flags>>
  /\ NoFault /\ Succeeds
  /\ UNCHANGED <<volume, cursor, firstCluster>>

-----------------------------------------------------------------------------
(* read                                                                    *)

ReadLoop(pos) == IF AtBoundary(pos) THEN "fetch" ELSE "get"
InRead == pc \in {"fetch", "get"}

\* The number of bytes a call of read(n) looks for.
Limited(n) == Lesser(n, (fileSize - curPosition) % Width)

Read(n) ==
  /\ Call /\ n > 0
  /\ todo' = Limited(n) /\ pc' = ReadLoop(curPosition)
  /\ NoFault
  /\ UNCHANGED <<volume, cursor, file, flags, got, writes, failed>>

\* The cluster of the next piece; none at the end of the chain.
FetchCluster ==
  IF curPosition = 0 THEN firstCluster
  ELSE IF "contiguous" \in flags THEN curCluster + 1
  ELSE Walk(curCluster, 1)

Fetch ==
  /\ pc = "fetch" /\ todo > 0
  /\ FetchCluster \in Clusters
  /\ curCluster' = FetchCluster /\ pc' = "get"
  /\ NoFault
  /\ UNCHANGED <<volume, curPosition, file, flags, call, failed>>
FetchFails ==
  /\ pc = "fetch" /\ todo > 0
  /\ curPosition # 0 /\ "contiguous" \notin flags
  /\ IF FetchCluster \in {0} \cup Clusters THEN Fault ELSE NoFault
  /\ Fails
  /\ UNCHANGED <<volume, cursor, file, flags, writes>>

\* A piece of the cached sector, of one sector, or of many.
GetSize(n) ==
  \/ n = PieceSize
  \/ ~Partial /\ n = SectorUnits

Get(n) ==
  /\ pc = "get" /\ todo > 0 /\ curCluster \in Clusters
  /\ GetSize(n)
  /\ got' = [i \in 1 .. n |-> data[curCluster][UnitOffset + i - 1]]
  /\ curPosition' = curPosition + n
  /\ todo' = todo - n
  /\ pc' = ReadLoop(curPosition')
  /\ NoFault
  /\ UNCHANGED <<volume, curCluster, file, flags, writes, failed>>
GetFails ==
  /\ pc = "get" /\ todo > 0
  /\ Fault /\ Fails
  /\ UNCHANGED <<volume, cursor, file, flags, writes>>

ReadEnd ==
  /\ InRead /\ todo = 0
  /\ pc' = "idle" /\ got' = <<>>
  /\ NoFault
  /\ UNCHANGED <<volume, cursor, file, flags, todo, writes, failed>>

-----------------------------------------------------------------------------
\* Another file is given a free cluster, or gives one up, between two calls.
OtherTakes(c) ==
  /\ pc \in {"closed", "idle"}
  /\ c \in Free /\ Cardinality(foreign) < MaxForeign
  /\ next' = [next EXCEPT ![c] = EOC] /\ foreign' = foreign \cup {c}
  /\ UNCHANGED <<data, entry, cursor, file, flags, pc, call, failed, faults>>
OtherFrees(c) ==
  /\ pc \in {"closed", "idle"}
  /\ c \in foreign
  /\ next' = [next EXCEPT ![c] = 0] /\ foreign' = foreign \ {c}
  /\ UNCHANGED <<data, entry, cursor, file, flags, pc, call, failed, faults>>

Sizes == 0 .. MaxSize
OpenNext == \/ \E append \in SUBSET {"append"}, atEnd, trunc \in BOOLEAN : Open(append, atEnd, trunc)
            \/ OpenFails \/ OpenRunsOff
SizeNext == \/ SyncCall \/ Close \/ Remove \/ RemoveFails \/ RemoveRunsOff
            \/ Truncate \/ TruncateFails \/ TruncateRunsOff \/ ContiguousRange
            \/ \E n \in Sizes : PreAllocate(n) \/ PreAllocateFails(n)
SeekNext == \E pos \in Sizes : SeekSet(pos) \/ SeekFails(pos) \/ SeekRunsOff(pos) \/ FSetPos(pos)
WriteNext == \/ \E n \in Sizes : Write(n) \/ WriteRefused(n)
             \/ WriteRunsOff
             \/ ClusterInChain \/ AddCluster \/ ChooseFails
             \/ Put \/ PutFails \/ WriteEnd
ReadNext == \/ \E n \in Sizes : Read(n) \/ Get(n)
            \/ Fetch \/ FetchFails \/ GetFails \/ ReadEnd
OtherNext == \E c \in Clusters : OtherTakes(c) \/ OtherFrees(c)

\* Only open reads the entry.
CallNext == UNCHANGED broken /\ (SizeNext \/ SeekNext \/ WriteNext \/ ReadNext \/ OtherNext)
Next == OpenNext \/ CallNext
Spec == Init /\ [][Next]_vars

-----------------------------------------------------------------------------
(* Correctness                                                             *)

IsOpen == pc # "closed"
\* Nothing has gone wrong since the file was opened.
Sound == IsOpen /\ ~failed

\* The cluster of the unit before the position, none at the start of the file.
Before(pos) == IF pos = 0 THEN 0 ELSE Walk(firstCluster, (pos - 1) \div ClusterUnits)

\* m_curCluster is the cluster of the current position: of the unit about to
\* be moved inside the loops of read and write, else of the unit before the
\* position, and 0 at the start of the file.  (The comment of m_curCluster.)
CurClusterRight ==
  Sound =>
    curCluster = IF pc \in {"put", "get"} /\ todo > 0
                 THEN Walk(firstCluster, curPosition \div ClusterUnits)
                 ELSE Before(curPosition)

\* FILE_FLAG_CONTIGUOUS is set only on a chain whose links all lead to the
\* next cluster, whichever calls failed: read, write and seekSet then find
\* clusters by counting.
ContiguousRight ==
  IsOpen /\ "contiguous" \in flags =>
    \A c \in ChainOf(firstCluster) : next[c] \in Clusters => next[c] = c + 1

\* Without DIR_DIRTY the directory entry is what the handle says: a sync or
\* close that finds the flag clear has nothing to save.
EntrySaved ==
  Sound /\ pc = "idle" /\ "dirDirty" \notin flags =>
    entry = Updated(firstCluster, fileSize)

\* What a FatFile remembers of the file between two steps is so: the cluster
\* it is in, that the chain has no gap, that the entry needs no update.  This
\* and what follows end when a broken entry is opened: its clusters may be
\* another file's by then.
MembersRight == ~broken => CurClusterRight /\ ContiguousRight /\ EntrySaved

\* While no call fails the chain is as long as the file, and no cluster is
\* marked in the table that neither this file nor another one holds: what
\* truncate, remove and O_TRUNC give up is free again.
NothingLost ==
  faults = 0 /\ ~failed /\ pc \in {"closed", "idle"} =>
    LET first == IF IsOpen THEN firstCluster ELSE entry.first
    IN {c \in Clusters : next[c] # 0} = foreign \cup ChainOf(first)

\* No step of this file, failing or not, changes a unit or the links of
\* another file's cluster: chains are never shared.  This ends when an entry
\* is opened whose chain does not hold its size: a freed cluster in it may be
\* another file's by then, and one too short is left behind by counting.
ForeignIntact ==
  [][~broken' =>
       \A c \in foreign : c \in foreign' => data'[c] = data[c] /\ next'[c] = next[c]]_vars

\* A broken entry takes a failing access to come about: calls that fail because
\* the volume or the file is full leave a chain that holds the size saved.
UnbrokenByCalls == faults = 0 => ~broken

\* A read stops at the end of the file: it never delivers a unit beyond it.
ReadStopsAtEnd ==
  [][~broken /\ got' # got /\ got' # <<>> => curPosition' <= fileSize]_vars

-----------------------------------------------------------------------------
(* The file as the program sees it                                         *)

\* The handle, or the entry of a closed file, lost clusters of its chain in a
\* call that failed half way.
Lost == ~ IF IsOpen THEN Holds(firstCluster, fileSize) ELSE Holds(entry.first, entry.size)

Size == IF IsOpen THEN fileSize ELSE entry.size
First == IF IsOpen THEN firstCluster ELSE entry.first
\* What is written before write has updated the size is part of the file.
Length == IF InWrite /\ curPosition > fileSize THEN curPosition ELSE Size
Content ==
  LET units == [n \in 0 .. Need(Length) - 1 |-> IF Walk(First, n) \in Clusters THEN data[Walk(First, n)] ELSE Junk]
  IN [i \in 1 .. Length |-> units[(i - 1) \div ClusterUnits][(i - 1) % ClusterUnits]]

Mode ==
  IF InWrite THEN "write" ELSE IF InRead THEN "read"
  ELSE IF Lost THEN "lost" ELSE IF ~IsOpen THEN "closed"
  ELSE IF failed THEN "error" ELSE "idle"

Abstract == INSTANCE ByteFile WITH
  mode <- IF broken THEN "lost" ELSE Mode,
  content <- IF broken THEN <<>> ELSE Content,
  size <- IF broken THEN 0 ELSE Size,
  position <- IF ~broken /\ Sound THEN curPosition ELSE 0,
  appends <- IsOpen /\ ~broken /\ "append" \in flags,
  left <- IF broken THEN 0 ELSE todo,
  got <- IF broken THEN <<>> ELSE got,
  faults <- faults,
  limit <- MaxSize

\* A FatFile is a ByteFile: every call moves, keeps and delivers the bytes it
\* should whatever the clusters they lie in, and a call that fails leaves the
\* bytes it was not asked to change.  Of a file that lost clusters nothing is
\* promised, nor of any after such a one was opened.
IsByteFile == Abstract!Spec
=============================================================================
