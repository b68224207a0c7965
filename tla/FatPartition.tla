---------------------------- MODULE FatPartition ----------------------------
(***************************************************************************)
(* The File Allocation Table of a FAT16/FAT32 volume and the operations    *)
(* FatPartition.cpp performs on it: allocateCluster, allocContiguous,      *)
(* freeChain and freeClusterCount, driven the way FatFile::addCluster,     *)
(* preAllocate and truncate drive them, with the directory entries that    *)
(* FatFile::sync writes and a reopen or a mount reads back.  (The data and *)
(* the position of a file are module FatFile.)                             *)
(*                                                                         *)
(* The table is read through the sector cache as one logical array; the    *)
(* cache itself is module FsCache.  Every fatGet and fatPut may fail when  *)
(* the device does, and an operation that fails half way leaves what it    *)
(* already stored in the table: each failure point is an outcome here.     *)
(***************************************************************************)
EXTENDS Integers, FiniteSets

CONSTANTS
  LastCluster,        \* m_lastCluster: the highest cluster number
  Files,              \* the directory entries that can hold a chain
  NoFile,             \* the owner of a cluster that no file allocated
  MaintainFreeCount,  \* MAINTAIN_FREE_CLUSTER_COUNT of SdFatConfig.h
  MaxFaults,          \* bound on failing accesses and on entries left unsaved
  MaxRevivals         \* bound on the times freed heads are read back

ASSUME LastClusterAssumption == LastCluster \in Nat /\ LastCluster >= 3
ASSUME NoFileAssumption == NoFile \notin Files
ASSUME MaxFaultsAssumption == MaxFaults \in Nat /\ MaxRevivals \in Nat
ASSUME MaintainAssumption == MaintainFreeCount \in BOOLEAN

\* Clusters 0 and 1 are reserved: fatGet and fatPut reject them.
Clusters == 2 .. LastCluster
\* isEOC() accepts every value above m_lastCluster; one stands for them all.
EOC == LastCluster + 1
\* The value of a FAT entry: free, a link, or end of chain.
Entry == {0, EOC} \cup Clusters

VARIABLES
  fat,               \* the table: Clusters -> Entry
  allocSearchStart,  \* m_allocSearchStart
  freeClusterCount,  \* m_freeClusterCount, -1 when it is not known
  firstCluster,      \* the head of each file's chain, 0 for an empty file
  entry,             \* the first cluster each directory entry names
  dirty,             \* the open files with FILE_FLAG_DIR_DIRTY
  freeing,           \* `cluster` of the freeChain loop, 0 outside the loop
  truncated,         \* the file whose truncate runs that loop
  rtn,               \* how the last call returned
  faults,            \* failures so far, entries left unsaved included
  owner,             \* auxiliary: the file for which a cluster was allocated
  revivals           \* auxiliary: the times entries with freed heads were read

entries == <<entry, dirty, revivals>>
vars == <<fat, allocSearchStart, freeClusterCount, firstCluster, entries,
          freeing, truncated, rtn, faults, owner>>

Returns == {"ok", "noSpace", "ioError"}

\* The table and the objects, and the entries.
TableOK ==
  /\ fat \in [Clusters -> Entry]
  /\ allocSearchStart \in 1 .. LastCluster
  /\ freeClusterCount \in Int
  /\ firstCluster \in [Files -> {0} \cup Clusters]
  /\ freeing \in {0} \cup Clusters
  /\ rtn \in Returns
  /\ faults \in Nat
  /\ owner \in [Clusters -> Files \cup {NoFile}]

EntriesOK ==
  /\ entry \in [Files -> {0} \cup Clusters]
  /\ dirty \subseteq Files
  /\ truncated \in Files \cup {NoFile}
  /\ revivals \in Nat

TypeOK == TableOK /\ EntriesOK

\* A freshly formatted, freshly mounted volume (initAt).
Init ==
  /\ fat = [c \in Clusters |-> 0]
  /\ allocSearchStart = 1
  /\ freeClusterCount = -1
  /\ firstCluster = [f \in Files |-> 0]
  /\ entry = [f \in Files |-> 0]
  /\ dirty = {}
  /\ freeing = 0
  /\ truncated = NoFile
  /\ rtn = "ok"
  /\ faults = 0
  /\ owner = [c \in Clusters |-> NoFile]
  /\ revivals = 0

-----------------------------------------------------------------------------
Free == {c \in Clusters : fat[c] = 0}
\* The free clusters the search meets in (lo, hi].
FreeIn(lo, hi) == {c \in Free : lo < c /\ c <= hi}
Least(S, c) == c \in S /\ \A d \in S : c <= d

\* S holds h, when h is a cluster, and every cluster its members link to.
ClosedFrom(h, S) ==
  /\ h \in Clusters => h \in S
  /\ \A c \in S : fat[c] \in Clusters => fat[c] \in S
\* The clusters reached from h: the least such set, empty when h is 0.
From(h) == {c \in Clusters : \A S \in SUBSET Clusters : ClosedFrom(h, S) => c \in S}
Chain(f) == From(firstCluster[f])

Fault == faults < MaxFaults /\ faults' = faults + 1
NoFault == UNCHANGED faults

\* The entry of f names the head, and f is no longer dirty.
Written(f, head) ==
  /\ entry' = [entry EXCEPT ![f] = head]
  /\ dirty' = dirty \ {f}
\* sync() of f, marked dirty, when the head is the given one.  The entry may
\* not be reached, or be changed in a cache that then fails to be stored.
SyncEnds(f, head) ==
  \/ Written(f, head) /\ rtn' = "ok" /\ NoFault
  \/ Written(f, head) /\ rtn' = "ioError" /\ Fault
  \/ dirty' = dirty \cup {f} /\ UNCHANGED entry /\ rtn' = "ioError" /\ Fault

\* Mutant: the count is changed although it was never computed.
UpdateUnknownCount(change) == freeClusterCount' = freeClusterCount + change
\* updateFreeClusterCount: only a known count is maintained.
UpdateFreeClusterCount(change) ==
  freeClusterCount' = IF freeClusterCount >= 0 THEN freeClusterCount + change
                      ELSE freeClusterCount

-----------------------------------------------------------------------------
(* allocateCluster: search after `current`, or after the search start.     *)

\* The search ends on cluster `find`; setStart says the search start moves.
Search(current, find, setStart) ==
  LET after == FreeIn(current, LastCluster)
      wrapped == FreeIn(allocSearchStart, current - 1)
  IN IF allocSearchStart < current
     THEN \/ Least(after, find) /\ setStart = FALSE
          \/ after = {} /\ Least(wrapped, find) /\ setStart = TRUE
     ELSE Least(FreeIn(allocSearchStart, LastCluster), find) /\ setStart = TRUE

\* The search runs out of clusters.
SearchFails(current) ==
  IF allocSearchStart < current
  THEN FreeIn(current, LastCluster) = {} /\ FreeIn(allocSearchStart, current - 1) = {}
  ELSE FreeIn(allocSearchStart, LastCluster) = {}

\* The table once `find` is the end of the chain whose last cluster was current.
Linked(current, find) ==
  [c \in Clusters |-> IF c = find THEN EOC ELSE IF c = current THEN find ELSE fat[c]]

\* Mutant: the link is stored before the new cluster is marked as the end.
HalfLinkedLinkFirst(current, find) == [fat EXCEPT ![current] = find]
\* The table when the second of the two stores fails.
HalfLinked(current, find) == [fat EXCEPT ![find] = EOC]

MoveSearchStart(setStart, to) ==
  allocSearchStart' = IF setStart THEN to ELSE allocSearchStart

\* The caller's chain: empty for a first cluster, else ended by current.
ExtendsChain(f, current) ==
  /\ freeing = 0
  /\ \/ current = 0 /\ firstCluster[f] = 0
     \/ current \in Chain(f) /\ fat[current] = EOC

AllocateCluster(f, current) ==
  /\ ExtendsChain(f, current)
  /\ \E find \in Clusters, setStart \in BOOLEAN :
       /\ Search(current, find, setStart)
       /\ MoveSearchStart(setStart, find)
       /\ fat' = Linked(current, find)
       /\ owner' = [owner EXCEPT ![find] = f]
       /\ firstCluster' = [firstCluster EXCEPT ![f] = IF current = 0 THEN find ELSE @]
  /\ UpdateFreeClusterCount(-1)
  /\ dirty' = dirty \cup {f}
  /\ rtn' = "ok"
  /\ NoFault
  /\ UNCHANGED <<entry, revivals, freeing, truncated>>

AllocateClusterFull(f, current) ==
  /\ ExtendsChain(f, current)
  /\ SearchFails(current)
  /\ rtn' = "noSpace"
  /\ NoFault
  /\ UNCHANGED <<fat, allocSearchStart, freeClusterCount, firstCluster, entries,
                 freeing, truncated, owner>>

\* fatGet or fatPutEOC fails: the table is as it was, the search start may move.
AllocateClusterFails(f, current) ==
  /\ ExtendsChain(f, current)
  /\ \/ UNCHANGED allocSearchStart
     \/ \E find \in Clusters, setStart \in BOOLEAN :
          Search(current, find, setStart) /\ MoveSearchStart(setStart, find)
  /\ rtn' = "ioError"
  /\ Fault
  /\ UNCHANGED <<fat, freeClusterCount, firstCluster, entries, freeing,
                 truncated, owner>>

\* The new cluster is marked EOC but linking it to `current` fails.
AllocateClusterUnlinked(f, current) ==
  /\ ExtendsChain(f, current)
  /\ current # 0
  /\ \E find \in Clusters, setStart \in BOOLEAN :
       /\ Search(current, find, setStart)
       /\ MoveSearchStart(setStart, find)
       /\ fat' = HalfLinked(current, find)
       /\ owner' = [owner EXCEPT ![find] = NoFile]
  /\ rtn' = "ioError"
  /\ Fault
  /\ UNCHANGED <<freeClusterCount, firstCluster, entries, freeing, truncated>>

-----------------------------------------------------------------------------
(* allocContiguous: the first run of `count` free clusters after the start. *)

AllFree(bgn, end) == \A c \in bgn .. end : c \in Free
\* bgn .. end is the run found: no earlier end completes a run of that length.
Run(count, bgn, end) ==
  /\ end = bgn + count - 1
  /\ allocSearchStart < bgn /\ end <= LastCluster
  /\ AllFree(bgn, end)
  /\ \A b \in Clusters : allocSearchStart < b /\ b < bgn => ~AllFree(b, b + count - 1)
NoRun(count) ==
  \A b \in Clusters :
    allocSearchStart < b /\ b + count - 1 <= LastCluster => ~AllFree(b, b + count - 1)
\* setStart is cleared when the search passes over an unallocated cluster.
SkipsNoFree(bgn) == FreeIn(allocSearchStart, bgn - 1) = {}
\* EOC at the end, then the links from the end down to cluster `from`.
ContiguousFrom(from, end) ==
  [c \in Clusters |-> IF c = end THEN EOC
                      ELSE IF from <= c /\ c < end THEN c + 1 ELSE fat[c]]

\* preAllocate ends with the sync of the entry.
AllocContiguous(f, count) ==
  /\ freeing = 0 /\ firstCluster[f] = 0
  /\ \E bgn \in Clusters, end \in Clusters :
       /\ Run(count, bgn, end)
       /\ MoveSearchStart(SkipsNoFree(bgn), end)
       /\ fat' = ContiguousFrom(bgn, end)
       /\ owner' = [c \in Clusters |-> IF c \in bgn .. end THEN f ELSE owner[c]]
       /\ firstCluster' = [firstCluster EXCEPT ![f] = bgn]
       /\ SyncEnds(f, bgn)
  /\ UpdateFreeClusterCount(-count)
  /\ UNCHANGED <<revivals, freeing, truncated>>

AllocContiguousFull(f, count) ==
  /\ freeing = 0 /\ firstCluster[f] = 0
  /\ NoRun(count)
  /\ rtn' = "noSpace"
  /\ NoFault
  /\ UNCHANGED <<fat, allocSearchStart, freeClusterCount, firstCluster, entries,
                 freeing, truncated, owner>>

\* A fatGet fails while searching, or the EOC or a link cannot be stored:
\* the links already made stay in the table and belong to nobody.
AllocContiguousFails(f, count) ==
  /\ freeing = 0 /\ firstCluster[f] = 0
  /\ \/ UNCHANGED <<fat, allocSearchStart, owner>>
     \/ \E bgn \in Clusters, end \in Clusters :
          /\ Run(count, bgn, end)
          /\ MoveSearchStart(SkipsNoFree(bgn), end)
          /\ \/ UNCHANGED <<fat, owner>>
             \/ \E from \in (bgn + 1) .. end :
                  /\ fat' = ContiguousFrom(from, end)
                  /\ owner' = [c \in Clusters |-> IF c \in from .. end THEN NoFile ELSE owner[c]]
  /\ rtn' = "ioError"
  /\ Fault
  /\ UNCHANGED <<freeClusterCount, firstCluster, entries, freeing, truncated>>

-----------------------------------------------------------------------------
(* truncate and freeChain.                                                 *)

\* truncate at position 0: the head is forgotten (m_firstCluster = 0) first;
\* the entry names it until the chain is free and sync has been called.
FreeWhole(f) ==
  /\ freeing = 0 /\ firstCluster[f] # 0
  /\ freeing' = firstCluster[f]
  /\ truncated' = f
  /\ firstCluster' = [firstCluster EXCEPT ![f] = 0]
  /\ NoFault
  /\ UNCHANGED <<fat, allocSearchStart, freeClusterCount, entries, rtn, owner>>

\* truncate after the cluster c of the position: c becomes the end first.
FreeTail(f, c) ==
  /\ freeing = 0 /\ c \in Chain(f) /\ fat[c] \in Clusters
  /\ freeing' = fat[c]
  /\ truncated' = f
  /\ fat' = [fat EXCEPT ![c] = EOC]
  /\ NoFault
  /\ UNCHANGED <<allocSearchStart, freeClusterCount, firstCluster, entries, rtn, owner>>

\* truncate after c when there is nothing to free: c is the end of the chain,
\* or it is a free cluster that an entry read back brought into the chain,
\* which then becomes an end.
TruncateAtEnd(f, c) ==
  /\ freeing = 0 /\ c \in Chain(f) /\ fat[c] \notin Clusters
  /\ fat' = [fat EXCEPT ![c] = EOC]
  /\ SyncEnds(f, firstCluster[f])
  /\ UNCHANGED <<allocSearchStart, freeClusterCount, firstCluster, revivals,
                 freeing, truncated, owner>>

\* The search resumes below a freed cluster that lies before its start.
SearchStartAfterFree(c) == IF c < allocSearchStart THEN c - 1 ELSE allocSearchStart

\* Mutant: the link is read after the entry was cleared.
NextAfterClear(c) == 0
\* The link read by fatGet before the entry is cleared, 0 at the end of chain.
NextToFree(c) == IF fat[c] \in Clusters THEN fat[c] ELSE 0

\* The do-while loop after an iteration: on to the next cluster; the end of
\* chain, after which truncate syncs the entry; or a cluster that was free
\* already, whose link 0 is the next cluster and is refused by fatGet.
GoesOn == fat[freeing] \in Clusters /\ rtn' = "ok" /\ NoFault /\ UNCHANGED <<entry, dirty, truncated>>
TruncateEnds == fat[freeing] = EOC /\ SyncEnds(truncated, firstCluster[truncated]) /\ truncated' = NoFile
MeetsFree == fat[freeing] = 0 /\ rtn' = "ioError" /\ NoFault /\ truncated' = NoFile /\ UNCHANGED <<entry, dirty>>

\* One iteration of the loop.
FreeChainStep ==
  /\ freeing # 0
  /\ fat' = [fat EXCEPT ![freeing] = 0]
  /\ owner' = [owner EXCEPT ![freeing] = NoFile]
  /\ UpdateFreeClusterCount(1)
  /\ allocSearchStart' = SearchStartAfterFree(freeing)
  /\ freeing' = NextToFree(freeing)
  /\ GoesOn \/ TruncateEnds \/ MeetsFree
  /\ UNCHANGED <<firstCluster, revivals>>

\* fatGet or fatPut fails: the rest of the chain stays allocated, and truncate
\* returns before it marks the file dirty.
FreeChainFails ==
  /\ freeing # 0
  /\ freeing' = 0
  /\ truncated' = NoFile
  /\ rtn' = "ioError"
  /\ Fault
  /\ UNCHANGED <<fat, allocSearchStart, freeClusterCount, firstCluster, entries, owner>>

-----------------------------------------------------------------------------
\* freeClusterCount(): scan the table unless a maintained count is known.
FreeClusterCount ==
  /\ freeing = 0
  /\ freeClusterCount' = IF MaintainFreeCount /\ freeClusterCount < 0
                         THEN Cardinality(Free) ELSE freeClusterCount
  /\ rtn' = "ok"
  /\ NoFault
  /\ UNCHANGED <<fat, allocSearchStart, firstCluster, entries, freeing, truncated, owner>>

\* The scan meets a sector that cannot be read.
FreeClusterCountFails ==
  /\ freeing = 0
  /\ ~(MaintainFreeCount /\ freeClusterCount >= 0)
  /\ rtn' = "ioError"
  /\ Fault
  /\ UNCHANGED <<fat, allocSearchStart, freeClusterCount, firstCluster, entries,
                 freeing, truncated, owner>>

-----------------------------------------------------------------------------
(* The directory entries.                                                  *)

Sync(f) ==
  /\ freeing = 0 /\ f \in dirty
  /\ SyncEnds(f, firstCluster[f])
  /\ UNCHANGED <<fat, allocSearchStart, freeClusterCount, firstCluster, revivals,
                 freeing, truncated, owner>>

\* The head an entry names is what the file it belongs to starts with.
SoundHead(f, head) ==
  head # 0 => fat[head] # 0 /\ owner[head] = f /\ \A c \in Clusters : fat[c] # head

\* The objects of the files in reread start again from their entries.  What a
\* dirty one had not stored is lost: its close failed, or it was never closed.
\* (The bound MaxRevivals keeps the free count, which a second free of freed
\* clusters raises, from growing without end.)
Reread(reread) ==
  /\ freeing = 0
  /\ firstCluster' = [f \in Files |-> IF f \in reread THEN entry[f] ELSE firstCluster[f]]
  /\ dirty' = dirty \ reread
  /\ IF \A f \in reread : SoundHead(f, entry[f]) THEN UNCHANGED revivals
     ELSE revivals < MaxRevivals /\ revivals' = revivals + 1
  /\ IF reread \cap dirty = {} THEN NoFault ELSE Fault
  /\ rtn' = "ok"
  /\ UNCHANGED <<fat, entry, freeing, truncated, owner>>

\* close() and open(): the head is taken from the entry unchecked.
Reopen(f) == Reread({f}) /\ UNCHANGED <<allocSearchStart, freeClusterCount>>

\* end() and begin(): initAt forgets what was only in memory.
Mount ==
  /\ Reread(Files)
  /\ allocSearchStart' = 1
  /\ freeClusterCount' = -1

Allocate(f) ==
  \E current \in {0} \cup Clusters :
    \/ AllocateCluster(f, current)
    \/ AllocateClusterFull(f, current)
    \/ AllocateClusterFails(f, current)
    \/ AllocateClusterUnlinked(f, current)

PreAllocate(f) ==
  \E count \in 1 .. LastCluster :
    \/ AllocContiguous(f, count)
    \/ AllocContiguousFull(f, count)
    \/ AllocContiguousFails(f, count)

Next ==
  \/ \E f \in Files :
       \/ Allocate(f)
       \/ PreAllocate(f)
       \/ FreeWhole(f)
       \/ \E c \in Clusters : FreeTail(f, c) \/ TruncateAtEnd(f, c)
       \/ Sync(f)
       \/ Reopen(f)
  \/ FreeChainStep
  \/ FreeChainFails
  \/ FreeClusterCount
  \/ FreeClusterCountFails
  \/ Mount

Spec == Init /\ [][Next]_vars

-----------------------------------------------------------------------------
(* Invariants                                                              *)

\* The head of a chain is allocated, for its own file, and nothing links to it.
HeadsAllocated ==
  \A f \in Files : firstCluster[f] # 0 =>
    /\ fat[firstCluster[f]] # 0
    /\ owner[firstCluster[f]] = f
    /\ \A c \in Clusters : fat[c] # firstCluster[f]

\* A link leads to an allocated cluster of the same file.
LinksStayInFile ==
  \A c \in Clusters : fat[c] \in Clusters => fat[fat[c]] # 0 /\ owner[fat[c]] = owner[c]

\* No two clusters link to the same one.
LinksInjective ==
  \A c, d \in Clusters : fat[c] \in Clusters /\ fat[c] = fat[d] => c = d

\* The rest of a chain being freed is detached from every file.
FreeingDetached ==
  freeing # 0 =>
    /\ fat[freeing] # 0
    /\ \A c \in Clusters : fat[c] # freeing
    /\ \A f \in Files : firstCluster[f] # freeing

\* No set of clusters links only into itself: every chain ends.
NoCycle ==
  \A S \in SUBSET Clusters : S # {} => \E c \in S : fat[c] \notin S

\* What the five parts say together of the table and the objects.
Sound ==
  /\ TableOK
  /\ HeadsAllocated
  /\ LinksStayInFile
  /\ LinksInjective
  /\ FreeingDetached
  /\ NoCycle

\* While nothing failed, the entry of a file that is not dirty names its head.
EntriesAgree ==
  \A f \in Files :
    faults = 0 /\ f \notin dirty /\ ~(freeing # 0 /\ truncated = f)
      => entry[f] = firstCluster[f]

\* The inductive invariant.  An entry whose head was freed under it is read
\* back only after a failure; until it is, the volume is sound.
IInv ==
  /\ TypeOK
  /\ freeing # 0 => truncated \in Files
  /\ EntriesAgree
  /\ faults = 0 => revivals = 0
  /\ revivals = 0 => Sound

\* No cluster is in the chains of two files (a cross-linked volume), whatever
\* allocate, free and failing accesses did to the table before, as long as no
\* entry was read back that a failed truncate left naming freed clusters.
ChainsDisjoint ==
  revivals = 0 => \A f, g \in Files : f # g => Chain(f) \cap Chain(g) = {}

\* No cluster reached from a file is free, on the same condition:
\* allocateCluster can not hand out a cluster that still holds a file's data.
ChainsAllocated ==
  revivals = 0 => \A f \in Files : Chain(f) \cap Free = {}

\* While no access failed, a maintained m_freeClusterCount is the number of
\* free clusters, so availableSpaceForWrite and the free space it gates are exact.
FreeCountExact ==
  faults = 0 /\ freeClusterCount >= 0 => freeClusterCount = Cardinality(Free)

\* A failed access never makes the volume look fuller than it is: the count
\* can only be too high (lost clusters), so it never refuses space that exists.
FreeCountNeverLow ==
  freeClusterCount >= 0 => freeClusterCount >= Cardinality(Free)

\* While no access failed no cluster is lost: every allocated cluster is in a
\* file's chain or in the chain being freed, so remove and truncate give back
\* all the space a file took.
NothingLost ==
  faults = 0 =>
    Clusters \ Free = (UNION {Chain(f) : f \in Files}) \cup From(freeing)

=============================================================================
