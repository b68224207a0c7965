------------------------------- MODULE FsCache -------------------------------
(***************************************************************************)
(* The one-sector cache of FsCache.h and FsCache.cpp in front of a block   *)
(* device.  A sector of the FAT is cached with CACHE_STATUS_MIRROR_FAT and *)
(* is written to both tables; file data may bypass the cache through       *)
(* cacheSafeRead and cacheSafeWrite.                                       *)
(*                                                                         *)
(* Each operation is one action: nothing else runs in between.  A device   *)
(* access in it may fail, and power may be lost between two writes.        *)
(***************************************************************************)
EXTENDS Integers, FiniteSets

CONSTANTS
  FatSectors,    \* numbers of the sectors of the first FAT
  DataSectors,   \* numbers of all the other sectors of the volume
  NoSector,      \* 0XFFFFFFFF, the m_sector of an invalid cache
  Val,           \* what a sector can hold
  Clobber,       \* a device read that fails may have overwritten the buffer
  MaxFaults,     \* bound on the number of failing device accesses
  MaxRestarts    \* bound on the number of restarts

Sectors == FatSectors \cup DataSectors

ASSUME SectorsAssumption ==
  /\ Sectors \subseteq Nat
  /\ FatSectors \cap DataSectors = {}
  /\ IsFiniteSet(FatSectors)
  /\ NoSector \notin Sectors
ASSUME ValAssumption == Val # {} /\ Val \cap {"ok", "flushed", "error"} = {}
ASSUME ClobberAssumption == Clobber \in BOOLEAN
ASSUME BoundsAssumption == MaxFaults \in Nat /\ MaxRestarts \in Nat

VARIABLES
  disk,       \* the sectors on the device
  mirror,     \* the second FAT on the device
  mSector,    \* m_sector
  mBuffer,    \* m_buffer
  mStatus,    \* m_status: a subset of Statuses
  mError,     \* m_error
  result,     \* what the last operation returned
  faults,     \* device accesses that failed, for the bound
  restarts    \* restarts so far

vars == <<disk, mirror, mSector, mBuffer, mStatus, mError, result,
          faults, restarts>>

\* CACHE_STATUS_DIRTY and CACHE_STATUS_MIRROR_FAT
Statuses == {"dirty", "mirrorFat"}
Dirty == "dirty" \in mStatus
\* fatCachePrepare adds the mirror bit to its option, dataCachePrepare does not.
Option(s) == IF s \in FatSectors THEN {"mirrorFat"} ELSE {}

FlagsOK == mError \in BOOLEAN
TypeOK ==
  /\ disk \in [Sectors -> Val]
  /\ mirror \in [FatSectors -> Val]
  /\ mSector \in Sectors \cup {NoSector}
  /\ mBuffer \in Val
  /\ mStatus \subseteq Statuses
  /\ mStatus \ {"dirty"} = Option(mSector)
  /\ result \in Val \cup {"ok", "flushed", "error"}
  /\ FlagsOK
  /\ faults \in Nat /\ restarts \in Nat
  /\ mSector = NoSector => ~Dirty

\* init() on a volume whose two tables agree.
Init ==
  /\ disk \in [Sectors -> Val]
  /\ mirror = [s \in FatSectors |-> disk[s]]
  /\ mSector = NoSector /\ mBuffer \in Val
  /\ mStatus = {} /\ mError = FALSE
  /\ result = "ok"
  /\ faults = 0 /\ restarts = 0

-----------------------------------------------------------------------------
\* A device access fails; the operation records it and fails.
Fault ==
  /\ faults < MaxFaults /\ faults' = faults + 1
  /\ mError' = TRUE
  /\ result' = "error"
  /\ UNCHANGED restarts
NoFault == UNCHANGED <<faults, mError, restarts>>

Invalidate == mSector' = NoSector /\ mStatus' = {}

\* Mutant: only the first table is written.
WrittenFirstOnly(d, m) == [d |-> IF Dirty THEN [d EXCEPT ![mSector] = mBuffer] ELSE d, m |-> m]
\* The device after a complete sync().
Written(d, m) ==
  [d |-> IF Dirty THEN [d EXCEPT ![mSector] = mBuffer] ELSE d,
   m |-> IF Statuses \subseteq mStatus THEN [m EXCEPT ![mSector] = mBuffer] ELSE m]
SyncDevice ==
  LET w == Written(disk, mirror) IN disk' = w.d /\ mirror' = w.m

\* The device when sync() stops short: before, between or after its writes.
SyncCut ==
  \/ UNCHANGED <<disk, mirror>>
  \/ disk' = Written(disk, mirror).d /\ UNCHANGED mirror
  \/ SyncDevice

ClearDirty == mStatus' = mStatus \ {"dirty"}

\* A miss in prepare() or cacheSafeRead() that cannot write the old sector.
SyncFails ==
  /\ Dirty
  /\ SyncCut
  /\ Fault
  /\ UNCHANGED <<mSector, mBuffer, mStatus>>

\* prepare() wrote the old sector and then cannot read the new one.
PrepareReadFails(s) ==
  /\ mSector # s
  /\ SyncDevice
  /\ ClearDirty
  /\ mBuffer' \in IF Clobber THEN Val ELSE {mBuffer}
  /\ Fault
  /\ UNCHANGED mSector

-----------------------------------------------------------------------------
\* prepare(CACHE_FOR_READ), and the caller reads the buffer.
Read(s) ==
  /\ IF mSector = s
     THEN UNCHANGED <<disk, mirror, mSector, mBuffer, mStatus>>
     ELSE /\ SyncDevice
          /\ mBuffer' = disk'[s]
          /\ mSector' = s /\ mStatus' = Option(s)
  /\ result' = mBuffer'
  /\ NoFault

\* prepare(CACHE_FOR_WRITE), or prepare(CACHE_FOR_READ) and later dirty(),
\* and the caller fills the buffer; CACHE_RESERVE_FOR_WRITE has the same effect.
Put(s, v) ==
  /\ IF mSector = s THEN UNCHANGED <<disk, mirror>> ELSE SyncDevice
  /\ mSector' = s /\ mBuffer' = v /\ mStatus' = Option(s) \cup {"dirty"}
  /\ result' = "ok"
  /\ NoFault

\* prepare() of s fails in its sync() or, unless s is reserved, in its read.
PrepareFails(s) == mSector # s /\ (SyncFails \/ PrepareReadFails(s))

\* cacheSync() of the partition: sync() and then the device's own sync.
CacheSync ==
  /\ SyncDevice /\ ClearDirty
  /\ result' = "flushed"
  /\ NoFault
  /\ UNCHANGED <<mSector, mBuffer>>

\* The sync of the device itself fails: nothing records it.
SyncDeviceFails ==
  /\ faults < MaxFaults /\ faults' = faults + 1
  /\ SyncDevice /\ ClearDirty
  /\ result' = "error"
  /\ UNCHANGED <<mSector, mBuffer, mError, restarts>>

\* clear(): write back and forget.
Clear ==
  /\ SyncDevice
  /\ Invalidate
  /\ result' = "ok"
  /\ NoFault
  /\ UNCHANGED mBuffer

-----------------------------------------------------------------------------
(* File data that bypasses the buffer: one sector or a range of them.      *)

\* Mutant: a dirty sector in the range is not written before the device is read.
RangeNotSynced(S) == UNCHANGED <<disk, mirror, mStatus>>
\* cacheSafeRead of a range first writes a cached sector of the range.
RangeSynced(S) ==
  IF mSector \in S THEN SyncDevice /\ ClearDirty
                   ELSE UNCHANGED <<disk, mirror, mStatus>>

\* The caller looks at the sector s of the range it read.
SafeRead(S, s) ==
  /\ IF S = {s} /\ mSector = s
     THEN UNCHANGED <<disk, mirror, mStatus>> /\ result' = mBuffer
     ELSE RangeSynced(S) /\ result' = disk'[s]
  /\ NoFault
  /\ UNCHANGED <<mSector, mBuffer>>

SafeReadFails(S) ==
  \/ Cardinality(S) > 1 /\ mSector \in S /\ SyncFails
  \/ /\ ~(Cardinality(S) = 1 /\ mSector \in S)
     /\ RangeSynced(S)
     /\ Fault
     /\ UNCHANGED <<mSector, mBuffer>>

\* Mutant: the buffer stays valid although the device is written behind it.
BypassKeepsBuffer(S) == UNCHANGED <<mSector, mStatus>>
\* A cached sector of the range is dropped, dirty or not.
Bypass(S) ==
  IF mSector \in S THEN Invalidate ELSE UNCHANGED <<mSector, mStatus>>

SafeWrite(S, w) ==
  /\ Bypass(S)
  /\ disk' = [s \in Sectors |-> IF s \in S THEN w[s] ELSE disk[s]]
  /\ result' = "ok"
  /\ NoFault
  /\ UNCHANGED <<mirror, mBuffer>>

\* The device wrote any part of the range before it failed.
SafeWriteFails(S, w) ==
  /\ Bypass(S)
  /\ \E T \in SUBSET S : disk' = [s \in Sectors |-> IF s \in T THEN w[s] ELSE disk[s]]
  /\ Fault
  /\ UNCHANGED <<mirror, mBuffer>>

-----------------------------------------------------------------------------
\* Power is lost, possibly inside sync(), or the volume is begun again without
\* a sync: init() forgets the buffer and the error.
Restart ==
  /\ restarts < MaxRestarts /\ restarts' = restarts + 1
  /\ SyncCut
  /\ Invalidate
  /\ mError' = FALSE
  /\ result' = "ok"
  /\ UNCHANGED <<mBuffer, faults>>

\* The ranges file data is read from and written to.
Ranges == {lo .. hi : lo, hi \in DataSectors} \cap ((SUBSET DataSectors) \ {{}})

Next ==
  \/ \E s \in Sectors : Read(s) \/ PrepareFails(s) \/ \E v \in Val : Put(s, v)
  \/ CacheSync \/ SyncFails \/ SyncDeviceFails
  \/ Clear
  \/ \E S \in Ranges : SafeReadFails(S) \/ \E s \in S : SafeRead(S, s)
  \/ \E S \in Ranges, w \in [DataSectors -> Val] : SafeWrite(S, w) \/ SafeWriteFails(S, w)
  \/ Restart

Spec == Init /\ [][Next]_vars

-----------------------------------------------------------------------------
(* Properties                                                              *)

\* A sector found in the cache and not dirty is the sector on the device:
\* every hit in prepare() relies on it.
BufferCoherent == mSector # NoSector /\ ~Dirty => mBuffer = disk[mSector]

\* The FAT sectors whose second copy differs.
Torn == {s \in FatSectors : disk[s] # mirror[s]}

\* The two tables differ in at most one sector per restart, besides a sector
\* that is still dirty: a failing mirror write is made good by the next sync.
TornBounded ==
  Cardinality(Torn \ (IF Dirty THEN {mSector} ELSE {})) <= restarts

\* The sector store: what a prepare() of each sector would show, what the
\* device holds, and what the last operation returned.
Abs == INSTANCE SectorStore WITH
  store <- [s \in Sectors |-> IF s = mSector THEN mBuffer ELSE disk[s]],
  durable <- disk

\* Through any mix of cached and direct accesses, failures and restarts, a read
\* returns the last value stored, and a successful cacheSync makes all durable.
ImplementsSectorStore == Abs!Spec

=============================================================================
