---------------------------- MODULE Volume_proofs ----------------------------
(***************************************************************************)
(* The two structures of a FAT volume that are not chains.                 *)
(*                                                                         *)
(* FsCache implements SectorStore, for every set of sectors and values and *)
(* every number of failures and restarts, when a failing device read       *)
(* leaves the buffer alone (~Clobber).  The step from the one to the other *)
(* rests on BufferCoherent: dropping a clean buffer changes no read.       *)
(*                                                                         *)
(* The directories, for every set of names and every depth of paths:       *)
(* DirInvariant says that the chains are apart and that no name is behind  *)
(* an entry never used, nor in a cluster outside the chains; a name is     *)
(* found if and only if it is listed.                                      *)
(***************************************************************************)
EXTENDS FsCache, FatDirectory, FiniteSetTheorems, SequenceTheorems, WellFoundedInduction, TLAPS

IInv == TypeOK /\ BufferCoherent

-----------------------------------------------------------------------------
\* NoSector is no sector.
LEMMA NoSectorFacts == NoSector \notin FatSectors /\ NoSector \notin Sectors
BY SectorsAssumption DEF Sectors

\* The status bits of a sector just prepared.
LEMMA OptionFacts ==
  /\ Option(NoSector) = {}
  /\ \A s, st : st = Option(s) =>
       st \subseteq Statuses /\ st \ {"dirty"} = Option(s) /\ "dirty" \notin st
  /\ \A s, st : st = Option(s) \cup {"dirty"} =>
       st \subseteq Statuses /\ st \ {"dirty"} = Option(s) /\ "dirty" \in st
BY NoSectorFacts DEF Option, Statuses

\* The device after sync() as functions.
LEMMA WrittenFacts ==
  ASSUME IInv
  PROVE  /\ Written(disk, mirror).d \in [Sectors -> Val]
         /\ Written(disk, mirror).m \in [FatSectors -> Val]
         /\ \A s \in Sectors :
              Written(disk, mirror).d[s] = IF s = mSector THEN mBuffer ELSE disk[s]
         /\ \A s \in FatSectors :
              Written(disk, mirror).m[s] = IF Statuses \subseteq mStatus /\ s = mSector THEN mBuffer ELSE mirror[s]
<1>1. CASE Dirty
  BY <1>1, NoSectorFacts DEF IInv, TypeOK, Written, Sectors
<1>2. CASE ~Dirty
  BY <1>2, NoSectorFacts DEF IInv, TypeOK, BufferCoherent, Dirty, Written
<1> QED  BY <1>1, <1>2

\* A sync, complete or cut short: each sector of the device is what it was or
\* what the store shows.
LEMMA SyncFacts ==
  ASSUME IInv
  PROVE  /\ SyncDevice =>
              /\ disk' \in [Sectors -> Val] /\ mirror' \in [FatSectors -> Val]
              /\ \A s \in Sectors : disk'[s] = IF s = mSector THEN mBuffer ELSE disk[s]
         /\ SyncCut =>
              /\ disk' \in [Sectors -> Val] /\ mirror' \in [FatSectors -> Val]
              /\ \A s \in Sectors :
                   IF s = mSector THEN disk'[s] \in {mBuffer, disk[s]} ELSE disk'[s] = disk[s]
<1>1. disk \in [Sectors -> Val] /\ mirror \in [FatSectors -> Val]
  BY DEF IInv, TypeOK, Dirty
<1>2. SyncDevice => disk' = Written(disk, mirror).d /\ mirror' = Written(disk, mirror).m
  BY DEF SyncDevice
<1> QED  BY <1>1, <1>2, WrittenFacts DEF SyncCut

\* The counters and the recorded failure.
LEMMA FaultFacts ==
  ASSUME IInv, NoFault \/ Fault
  PROVE  faults' \in Nat /\ restarts' \in Nat /\ FlagsOK'
<1>1. faults' \in Nat /\ restarts' \in Nat
  BY DEF NoFault, Fault, IInv, TypeOK, Dirty
<1>2. FlagsOK'
  BY Zenon DEF NoFault, Fault, IInv, TypeOK, FlagsOK
<1> QED  BY <1>1, <1>2

-----------------------------------------------------------------------------
\* The first state satisfies IInv.
LEMMA InitIInv == Init => IInv
<1> SUFFICES ASSUME Init PROVE IInv
  OBVIOUS
<1>1. /\ disk \in [Sectors -> Val] /\ mirror \in [FatSectors -> Val]
      /\ faults \in Nat /\ restarts \in Nat /\ result = "ok"
      /\ mSector = NoSector /\ mBuffer \in Val /\ mStatus = {}
  BY DEF Init, Sectors
<1>2. FlagsOK
  BY Zenon DEF Init, FlagsOK
<1> QED  BY <1>1, <1>2, OptionFacts DEF IInv, TypeOK, BufferCoherent, Dirty

\* Read keeps IInv.
LEMMA ReadIInv == ASSUME IInv, NEW s \in Sectors, Read(s) PROVE IInv'
<1>1. NoFault
  BY DEF Read
<1>2. CASE mSector = s
  BY <1>1, <1>2, FaultFacts DEF Read, IInv, TypeOK, BufferCoherent, Dirty
<1>3. CASE mSector # s
  <2>1. /\ disk' \in [Sectors -> Val] /\ mirror' \in [FatSectors -> Val]
        /\ mBuffer' = disk'[s] /\ mSector' = s /\ result' = mBuffer'
    BY <1>3, SyncFacts, Zenon DEF Read
  <2>2. mBuffer' \in Val
    BY <2>1
  <2>3. mStatus' = Option(mSector')
    BY <1>3 DEF Read
  <2>4. BufferCoherent' /\ mSector' \in Sectors \cup {NoSector}
    BY <2>1 DEF BufferCoherent
  <2>5. result' \in Val \cup {"ok", "flushed", "error"}
    BY <2>1, <2>2
  <2> QED  BY <1>1, <2>1, <2>2, <2>3, <2>4, <2>5, FaultFacts, OptionFacts DEF IInv, TypeOK, Dirty
<1> QED  BY <1>2, <1>3

\* Put keeps IInv.
LEMMA PutIInv == ASSUME IInv, NEW s \in Sectors, NEW v \in Val, Put(s, v) PROVE IInv'
<1>1. disk' \in [Sectors -> Val] /\ mirror' \in [FatSectors -> Val]
  BY SyncFacts DEF Put, IInv, TypeOK, Dirty
<1>2. NoFault /\ mSector' = s /\ s # NoSector /\ mBuffer' = v /\ result' = "ok"
  BY NoSectorFacts DEF Put
<1>3. mStatus' = Option(mSector') \cup {"dirty"}
  BY DEF Put
<1>4. result' \in Val \cup {"ok", "flushed", "error"} /\ mSector' \in Sectors \cup {NoSector}
  BY <1>2
<1> QED  BY <1>1, <1>2, <1>3, <1>4, FaultFacts, OptionFacts DEF IInv, TypeOK, BufferCoherent, Dirty

\* SyncFails keeps IInv.
LEMMA SyncFailsIInv == ASSUME IInv, SyncFails PROVE IInv'
<1>1. disk' \in [Sectors -> Val] /\ mirror' \in [FatSectors -> Val]
  BY SyncFacts DEF SyncFails
<1>2. Fault /\ result' = "error" /\ Dirty /\ UNCHANGED <<mSector, mBuffer, mStatus>>
  BY DEF SyncFails, Fault
<1> QED  BY <1>1, <1>2, FaultFacts DEF IInv, TypeOK, BufferCoherent, Dirty

\* After a complete sync the buffer, now clean, is on the device.
LEMMA SyncedIInv ==
  ASSUME IInv, SyncDevice, ClearDirty, UNCHANGED <<mSector, mBuffer>>,
         faults' \in Nat, restarts' \in Nat, FlagsOK',
         result' \in {"ok", "flushed", "error"}
  PROVE  IInv'
<1>1. /\ disk' \in [Sectors -> Val] /\ mirror' \in [FatSectors -> Val]
      /\ \A t \in Sectors : disk'[t] = IF t = mSector THEN mBuffer ELSE disk[t]
  BY SyncFacts
<1>2. BufferCoherent'
  BY <1>1 DEF IInv, TypeOK, BufferCoherent, Dirty
<1>3. result' \in Val \cup {"ok", "flushed", "error"}
  OBVIOUS
<1> QED  BY <1>1, <1>2, <1>3, OptionFacts DEF IInv, TypeOK, Dirty, ClearDirty, Option

\* PrepareReadFails keeps IInv.
LEMMA PrepareReadFailsIInv ==
  ASSUME IInv, ~Clobber, NEW s \in Sectors, PrepareReadFails(s)
  PROVE  IInv'
<1>1. Fault /\ SyncDevice /\ ClearDirty /\ UNCHANGED <<mSector, mBuffer>>
  BY DEF PrepareReadFails
<1>2. result' = "error"
  BY <1>1 DEF Fault
<1> QED  BY <1>1, <1>2, FaultFacts, SyncedIInv

\* CacheSync keeps IInv.
LEMMA CacheSyncIInv == ASSUME IInv, CacheSync PROVE IInv'
BY FaultFacts, SyncedIInv DEF CacheSync

\* SyncDeviceFails keeps IInv.
LEMMA SyncDeviceFailsIInv == ASSUME IInv, SyncDeviceFails PROVE IInv'
<1>1. SyncDevice /\ ClearDirty /\ UNCHANGED <<mSector, mBuffer>> /\ result' = "error"
  BY DEF SyncDeviceFails
<1>2. faults' \in Nat /\ restarts' \in Nat
  BY DEF SyncDeviceFails, IInv, TypeOK, Dirty
<1>3. FlagsOK'
  BY Zenon DEF SyncDeviceFails, IInv, TypeOK, FlagsOK
<1> QED  BY <1>1, <1>2, <1>3, SyncedIInv

\* With an invalid buffer only the device has to be well typed.
LEMMA InvalidIInv ==
  ASSUME IInv, Invalidate, disk' \in [Sectors -> Val], mirror' \in [FatSectors -> Val],
         mBuffer' = mBuffer, faults' \in Nat, restarts' \in Nat, FlagsOK', result' \in {"ok", "flushed", "error"}
  PROVE  IInv'
<1>1. mSector' = NoSector /\ mStatus' = {}
  BY DEF Invalidate
<1>2. result' \in Val \cup {"ok", "flushed", "error"} /\ mBuffer' \in Val
  BY DEF IInv, TypeOK, Dirty
<1> QED  BY <1>1, <1>2, OptionFacts, NoSectorFacts DEF IInv, TypeOK, BufferCoherent, Dirty

\* Clear keeps IInv.
LEMMA ClearIInv == ASSUME IInv, Clear PROVE IInv'
BY SyncFacts, FaultFacts, InvalidIInv DEF Clear

\* Restart keeps IInv.
LEMMA RestartIInv == ASSUME IInv, Restart PROVE IInv'
<1>1. disk' \in [Sectors -> Val] /\ mirror' \in [FatSectors -> Val]
  BY SyncFacts DEF Restart
<1>2. faults' \in Nat /\ restarts' \in Nat
  BY DEF Restart, IInv, TypeOK, Dirty
<1>3. Invalidate /\ mBuffer' = mBuffer /\ result' = "ok"
  BY DEF Restart
<1>4. FlagsOK'
  BY Zenon DEF Restart, FlagsOK
<1> QED  BY <1>1, <1>2, <1>3, <1>4, InvalidIInv

\* The two cases of cacheSafeRead of a range.
LEMMA RangeFacts ==
  ASSUME IInv, NEW S, RangeSynced(S)
  PROVE  /\ disk' \in [Sectors -> Val] /\ mirror' \in [FatSectors -> Val]
         /\ mStatus' \in {mStatus, mStatus \ {"dirty"}}
         /\ \A t \in Sectors : disk'[t] \in {IF t = mSector THEN mBuffer ELSE disk[t], disk[t]}
         /\ \A t \in Sectors \cap S : disk'[t] = IF t = mSector THEN mBuffer ELSE disk[t]
         /\ \A t \in Sectors : t # mSector => disk'[t] = disk[t]
         /\ (~Dirty' /\ mSector # NoSector) => disk'[mSector] = mBuffer
<1>1. CASE mSector \in S
  BY <1>1, SyncFacts, NoSectorFacts DEF RangeSynced, IInv, TypeOK, Dirty, ClearDirty
<1>2. CASE mSector \notin S
  BY <1>2 DEF RangeSynced, IInv, TypeOK, BufferCoherent, Dirty
<1> QED  BY <1>1, <1>2

\* A direct read leaves the buffer; it may have written it first.
LEMMA RangeIInv ==
  ASSUME IInv, NEW S, RangeSynced(S), NoFault \/ Fault, UNCHANGED <<mSector, mBuffer>>,
         result' \in Val \cup {"ok", "flushed", "error"}
  PROVE  IInv'
<1>1. disk' \in [Sectors -> Val] /\ mirror' \in [FatSectors -> Val] 
      /\ mStatus' \in {mStatus, mStatus \ {"dirty"}}
  BY RangeFacts
<1>2. BufferCoherent'
  BY RangeFacts DEF BufferCoherent
<1> QED  BY <1>1, <1>2, FaultFacts DEF IInv, TypeOK, Dirty

\* SafeRead keeps IInv.
LEMMA SafeReadIInv ==
  ASSUME IInv, NEW S \in Ranges, NEW s \in S, SafeRead(S, s)
  PROVE  IInv'
<1>1. s \in Sectors
  BY DEF Ranges, Sectors
<1>2. NoFault /\ UNCHANGED <<mSector, mBuffer>>
  BY DEF SafeRead
<1>3. CASE S = {s} /\ mSector = s
  <2>1. UNCHANGED <<disk, mirror, mStatus>> /\ result' = mBuffer
    BY <1>3, Zenon DEF SafeRead
  <2> QED  BY <1>2, <2>1, FaultFacts DEF IInv, TypeOK, BufferCoherent, Dirty
<1>4. CASE ~(S = {s} /\ mSector = s)
  <2>1. RangeSynced(S) /\ result' = disk'[s]
    BY <1>4 DEF SafeRead
  <2>2. result' \in Val
    BY <1>1, <2>1, RangeFacts
  <2> QED  BY <1>2, <2>1, <2>2, RangeIInv
<1> QED  BY <1>3, <1>4

\* SafeReadFails keeps IInv.
LEMMA SafeReadFailsIInv == ASSUME IInv, NEW S \in Ranges, SafeReadFails(S) PROVE IInv'
<1>1. CASE SyncFails
  BY <1>1, SyncFailsIInv
<1>2. CASE RangeSynced(S) /\ Fault /\ UNCHANGED <<mSector, mBuffer>>
  <2>1. result' = "error"
    BY <1>2 DEF Fault
  <2> QED  BY <1>2, <2>1, RangeIInv
<1> QED  BY <1>1, <1>2 DEF SafeReadFails

\* A direct write, whole or cut short: the buffer no longer covers the range.
LEMMA BypassIInv ==
  ASSUME IInv, NEW S \in Ranges, NEW T \in SUBSET S, NEW w \in [DataSectors -> Val],
         disk' = [s \in Sectors |-> IF s \in T THEN w[s] ELSE disk[s]],
         Bypass(S), UNCHANGED <<mirror, mBuffer>>,
         NoFault \/ Fault, result' \in {"ok", "flushed", "error"}
  PROVE  IInv'
<1>1. S \subseteq DataSectors /\ DataSectors \subseteq Sectors
  BY DEF Ranges, Sectors
<1>2. disk' \in [Sectors -> Val] /\ mirror' \in [FatSectors -> Val]
  BY <1>1 DEF IInv, TypeOK, Dirty
<1>3. CASE mSector \in S
  <2>1. Invalidate
    BY <1>3 DEF Bypass
  <2> QED  BY <1>2, <2>1, FaultFacts, InvalidIInv
<1>4. CASE mSector \notin S
  <2>1. UNCHANGED <<mSector, mStatus>>
    BY <1>4 DEF Bypass
  <2>2. BufferCoherent'
    BY <1>1, <1>4, <2>1 DEF IInv, TypeOK, BufferCoherent, Dirty
  <2>3. result' \in Val \cup {"ok", "flushed", "error"}
    OBVIOUS
  <2> QED  BY <1>2, <2>1, <2>2, <2>3, FaultFacts DEF IInv, TypeOK, Dirty
<1> QED  BY <1>3, <1>4

\* Every step keeps IInv.
LEMMA NextIInv == ~Clobber /\ IInv /\ [Next]_vars => IInv'
<1> SUFFICES ASSUME ~Clobber, IInv, [Next]_vars PROVE IInv'
  OBVIOUS
<1>1. ASSUME NEW S \in Ranges, NEW w \in [DataSectors -> Val],
             SafeWrite(S, w) \/ SafeWriteFails(S, w)
      PROVE  IInv'
  <2>1. CASE SafeWrite(S, w)
    <3>1. S \in SUBSET S
      OBVIOUS
    <3>2. /\ disk' = [s \in Sectors |-> IF s \in S THEN w[s] ELSE disk[s]]
          /\ Bypass(S) /\ NoFault /\ UNCHANGED <<mirror, mBuffer>> /\ result' = "ok"
      BY <2>1 DEF SafeWrite
    <3> QED  BY <3>1, <3>2, BypassIInv
  <2>2. CASE SafeWriteFails(S, w)
    <3>1. PICK T \in SUBSET S : disk' = [s \in Sectors |-> IF s \in T THEN w[s] ELSE disk[s]]
      BY <2>2 DEF SafeWriteFails
    <3>2. Bypass(S) /\ Fault /\ UNCHANGED <<mirror, mBuffer>> /\ result' = "error"
      BY <2>2 DEF SafeWriteFails, Fault
    <3> QED  BY <3>1, <3>2, BypassIInv
  <2> QED  BY <1>1, <2>1, <2>2
<1>2. CASE UNCHANGED vars
  <2>1. FlagsOK'
    BY <1>2, Zenon DEF vars, IInv, TypeOK, FlagsOK
  <2> QED  BY <1>2, <2>1 DEF vars, IInv, TypeOK, BufferCoherent, Dirty
<1> QED
  BY <1>1, <1>2, ReadIInv, PutIInv, SyncFailsIInv, PrepareReadFailsIInv, CacheSyncIInv,
     SyncDeviceFailsIInv, ClearIInv, RestartIInv, SafeReadIInv, SafeReadFailsIInv
     DEF Next, PrepareFails

\* The type invariant and the coherence of the buffer hold in every state, as
\* long as a failing device read leaves the buffer as it was.
THEOREM Invariance == ~Clobber => (Spec => []IInv)
<1> SUFFICES ASSUME ~Clobber PROVE Spec => []IInv
  OBVIOUS
<1>1. Init => IInv
  BY InitIInv
<1>2. IInv /\ [Next]_vars => IInv'
  BY NextIInv
<1> QED  BY <1>1, <1>2, PTL DEF Spec

\* A hit in prepare() hands out what the device holds.
THEOREM Coherence == ~Clobber => (Spec => []BufferCoherent)
<1> SUFFICES ASSUME ~Clobber PROVE Spec => []BufferCoherent
  OBVIOUS
<1>1. Spec => []IInv
  BY Invariance
<1>2. IInv => BufferCoherent
  BY DEF IInv
<1> QED  BY <1>1, <1>2, PTL

-----------------------------------------------------------------------------
(* The implementation of SectorStore.                                      *)

\* The store seen through the refinement mapping.
Shown == [s \in Sectors |-> IF s = mSector THEN mBuffer ELSE disk[s]]

\* What is shown and what is stored are functions on the sectors.
LEMMA ShownType == IInv => Shown \in [Sectors -> Val] /\ disk \in [Sectors -> Val]
BY DEF IInv, TypeOK, Shown

\* The abstract variables, one by one.
LEMMA AbsReadStep ==
  ASSUME IInv, NEW s \in Sectors, result' = Shown[s], Shown' = Shown, Abs!WriteBack
  PROVE  Abs!Next
BY DEF Abs!Next, Abs!Read, Shown

\* After an operation that has written the buffer, or part of it, back.
LEMMA SyncWritesBack ==
  ASSUME IInv, SyncCut
  PROVE  Abs!WriteBack
<1>1. /\ disk' \in [Sectors -> Val]
      /\ \A s \in Sectors : disk'[s] \in {disk[s], Shown[s]}
  BY SyncFacts DEF Shown
<1> QED  BY <1>1 DEF Abs!WriteBack, Shown

\* A sync of the device is among what a cut of the power may have written of it.
LEMMA SyncIsCut == SyncDevice => SyncCut
BY DEF SyncCut

\* A step that stores nothing is a write-back of nothing.
LEMMA SameDiskWritesBack == ASSUME IInv, disk' = disk PROVE Abs!WriteBack
BY ShownType DEF Abs!WriteBack

\* A buffer that is dropped after a complete sync, or kept, shows the same.
LEMMA SyncedShown ==
  ASSUME IInv, SyncDevice
  PROVE  /\ disk' = Shown
         /\ (mBuffer' = mBuffer /\ mSector' \in {mSector, NoSector}) => Shown' = Shown
         /\ \A s \in Sectors : mSector' = s /\ mBuffer' = disk'[s] => Shown' = Shown
<1>1. /\ disk' \in [Sectors -> Val]
      /\ \A s \in Sectors : disk'[s] = Shown[s]
  BY SyncFacts DEF Shown
<1>2. Shown \in [Sectors -> Val] /\ disk' = Shown
  BY <1>1, ShownType
<1>3. \A s \in Sectors : disk'[s] = IF s = mSector THEN mBuffer ELSE disk[s]
  BY SyncFacts
<1>4. ASSUME mBuffer' = mBuffer, mSector' \in {mSector, NoSector} PROVE Shown' = Shown
  BY <1>3, <1>4, NoSectorFacts DEF Shown
<1>5. ASSUME NEW s \in Sectors, mSector' = s, mBuffer' = disk'[s] PROVE Shown' = Shown
  BY <1>3, <1>5 DEF Shown
<1> QED  BY <1>2, <1>4, <1>5

\* A call that failed and changed nothing of what is shown is one of the abstract store.
LEMMA FailStep == ASSUME IInv, result' = "error", Shown' = Shown, Abs!WriteBack PROVE Abs!Next
BY DEF Abs!Next, Abs!Fail, Shown

\* Read is a step of the abstract store.
LEMMA ReadStep == ASSUME IInv, NEW s \in Sectors, Read(s) PROVE Abs!Next
<1>1. CASE mSector = s
  <2>1. UNCHANGED <<disk, mSector, mBuffer>> /\ result' = mBuffer
    BY <1>1 DEF Read
  <2>2. Shown' = Shown /\ result' = Shown[s]
    BY <1>1, <2>1 DEF Shown
  <2> QED  BY <2>1, <2>2, AbsReadStep, SameDiskWritesBack
<1>2. CASE mSector # s
  <2>1. SyncDevice /\ mBuffer' = disk'[s] /\ mSector' = s /\ result' = mBuffer'
    BY <1>2 DEF Read
  <2> QED  BY <2>1, AbsReadStep, SyncedShown, SyncWritesBack, SyncIsCut
<1> QED  BY <1>1, <1>2

\* Put is a step of the abstract store.
LEMMA PutStep == ASSUME IInv, NEW s \in Sectors, NEW v \in Val, Put(s, v) PROVE Abs!Next
<1>1. /\ IF mSector = s THEN UNCHANGED <<disk, mirror>> ELSE SyncDevice
      /\ mSector' = s /\ mBuffer' = v /\ result' = "ok"
  BY DEF Put
<1>2. Abs!WriteBack
  BY <1>1, SameDiskWritesBack, SyncWritesBack, SyncIsCut
<1>3. \A t \in Sectors : t # s => disk'[t] = Shown[t]
  BY <1>1, SyncedShown DEF Shown
<1>4. Shown' = [Shown EXCEPT ![s] = v]
  BY <1>1, <1>3 DEF Shown
<1> QED  BY <1>1, <1>2, <1>4 DEF Abs!Next, Abs!Put, Shown

\* SyncFails is a step of the abstract store.
LEMMA SyncFailsStep == ASSUME IInv, SyncFails PROVE Abs!Next
<1>1. SyncCut /\ UNCHANGED <<mSector, mBuffer>> /\ result' = "error"
  BY DEF SyncFails, Fault
<1>2. Shown' = Shown
  BY <1>1, SyncFacts DEF Shown
<1> QED  BY <1>1, <1>2, SyncWritesBack, FailStep

\* PrepareReadFails is a step of the abstract store.
LEMMA PrepareReadFailsStep ==
  ASSUME IInv, ~Clobber, NEW s \in Sectors, PrepareReadFails(s)
  PROVE  Abs!Next
<1>1. SyncDevice /\ UNCHANGED <<mSector, mBuffer>> /\ result' = "error"
  BY DEF PrepareReadFails, Fault
<1> QED  BY <1>1, SyncedShown, SyncWritesBack, SyncIsCut, FailStep

\* CacheSync is a step of the abstract store.
LEMMA CacheSyncStep == ASSUME IInv, CacheSync PROVE Abs!Next
<1>1. SyncDevice /\ UNCHANGED <<mSector, mBuffer>> /\ result' = "flushed"
  BY DEF CacheSync
<1>2. disk' = Shown /\ Shown' = Shown
  BY <1>1, SyncedShown
<1> QED  BY <1>1, <1>2 DEF Abs!Next, Abs!Flush, Shown

\* SyncDeviceFails is a step of the abstract store.
LEMMA SyncDeviceFailsStep == ASSUME IInv, SyncDeviceFails PROVE Abs!Next
<1>1. SyncDevice /\ UNCHANGED <<mSector, mBuffer>> /\ result' = "error"
  BY DEF SyncDeviceFails
<1> QED  BY <1>1, SyncedShown, SyncWritesBack, SyncIsCut, FailStep

\* clear() returns the buffer, not data: a restart that lost nothing.
LEMMA ClearStep == ASSUME IInv, Clear PROVE Abs!Next
<1>1. SyncDevice /\ mSector' = NoSector /\ mBuffer' = mBuffer /\ result' = "ok"
  BY DEF Clear, Invalidate
<1>2. Shown' = Shown /\ disk' = Shown
  BY <1>1, SyncedShown
<1> QED  BY <1>1, <1>2, SyncWritesBack, SyncIsCut DEF Abs!Next, Abs!Restart, Shown

\* Restart is a step of the abstract store.
LEMMA RestartStep == ASSUME IInv, Restart PROVE Abs!Next
<1>1. SyncCut /\ mSector' = NoSector /\ result' = "ok"
  BY DEF Restart, Invalidate
<1>2. disk' \in [Sectors -> Val]
  BY <1>1, SyncFacts
<1>3. Shown' = disk'
  BY <1>1, <1>2, NoSectorFacts DEF Shown
<1> QED  BY <1>1, <1>3, SyncWritesBack DEF Abs!Next, Abs!Restart, Shown

\* Direct reads: the range on the device shows what the store shows.
LEMMA RangeShown ==
  ASSUME IInv, NEW S, RangeSynced(S), UNCHANGED <<mSector, mBuffer>>
  PROVE  Shown' = Shown /\ Abs!WriteBack /\ \A s \in Sectors \cap S : disk'[s] = Shown[s]
<1>1. Shown' = Shown
  BY RangeFacts DEF Shown
<1>2. \A s \in Sectors : disk'[s] \in {disk[s], Shown[s]}
  BY RangeFacts DEF Shown
<1>3. \A s \in Sectors \cap S : disk'[s] = Shown[s]
  BY RangeFacts DEF Shown
<1>4. disk' \in [Sectors -> Val]
  BY RangeFacts
<1> QED  BY <1>1, <1>2, <1>3, <1>4 DEF Abs!WriteBack, Shown

\* SafeRead is a step of the abstract store.
LEMMA SafeReadStep ==
  ASSUME IInv, NEW S \in Ranges, NEW s \in S, SafeRead(S, s)
  PROVE  Abs!Next
<1>1. s \in Sectors /\ UNCHANGED <<mSector, mBuffer>>
  BY DEF Ranges, Sectors, SafeRead
<1>2. CASE S = {s} /\ mSector = s
  <2>1. disk' = disk /\ result' = mBuffer
    BY <1>2 DEF SafeRead
  <2>2. Shown' = Shown /\ result' = Shown[s]
    BY <1>1, <1>2, <2>1 DEF Shown
  <2> QED  BY <1>1, <2>1, <2>2, AbsReadStep, SameDiskWritesBack
<1>3. CASE ~(S = {s} /\ mSector = s)
  <2>1. RangeSynced(S) /\ result' = disk'[s]
    BY <1>3 DEF SafeRead
  <2> QED  BY <1>1, <2>1, RangeShown, AbsReadStep
<1> QED  BY <1>2, <1>3

\* SafeReadFails is a step of the abstract store.
LEMMA SafeReadFailsStep == ASSUME IInv, NEW S \in Ranges, SafeReadFails(S) PROVE Abs!Next
<1>1. CASE SyncFails
  BY <1>1, SyncFailsStep
<1>2. CASE RangeSynced(S) /\ Fault /\ UNCHANGED <<mSector, mBuffer>>
  BY <1>2, RangeShown, FailStep DEF Fault
<1> QED  BY <1>1, <1>2 DEF SafeReadFails

\* A direct write, of all of S or of the part T of it.
LEMMA BypassShown ==
  ASSUME IInv, NEW S \in Ranges, NEW T \in SUBSET S, NEW w \in [DataSectors -> Val],
         disk' = [s \in Sectors |-> IF s \in T THEN w[s] ELSE disk[s]],
         Bypass(S), mBuffer' = mBuffer
  PROVE  /\ S \subseteq Sectors /\ S \subseteq DataSectors
         /\ disk' \in [Sectors -> Val]
         /\ Shown' = [s \in Sectors |-> IF s \in S THEN disk'[s] ELSE Shown[s]]
<1>1. S \subseteq DataSectors /\ S \subseteq Sectors
  BY DEF Ranges, Sectors
<1>2. disk' \in [Sectors -> Val]
  BY <1>1 DEF IInv, TypeOK
<1>3. \A s \in Sectors \ S : disk'[s] = disk[s]
  OBVIOUS
<1>4. \A s \in Sectors : s = mSector' <=> s = mSector /\ mSector \notin S
  BY NoSectorFacts DEF Bypass, Invalidate
<1>5. Shown' = [s \in Sectors |-> IF s = mSector' THEN mBuffer' ELSE disk'[s]]
  BY DEF Shown
<1>6. \A s \in Sectors :
        (IF s = mSector' THEN mBuffer' ELSE disk'[s]) = IF s \in S THEN disk'[s] ELSE Shown[s]
  BY <1>3, <1>4 DEF Shown
<1> HIDE DEF Shown
<1>7. Shown' = [s \in Sectors |-> IF s \in S THEN disk'[s] ELSE Shown[s]]
  BY <1>5, <1>6
<1> QED  BY <1>1, <1>2, <1>7

\* SafeWrite is a step of the abstract store.
LEMMA SafeWriteStep ==
  ASSUME IInv, NEW S \in Ranges, NEW w \in [DataSectors -> Val], SafeWrite(S, w)
  PROVE  Abs!Next
<1> DEFINE v == [s \in Sectors |-> IF s \in S THEN w[s] ELSE disk[s]]
<1>1. /\ disk' = v /\ Bypass(S) /\ mBuffer' = mBuffer /\ result' = "ok"
      /\ S \in SUBSET S
  BY DEF SafeWrite
<1>2. /\ S \subseteq Sectors /\ v \in [Sectors -> Val]
      /\ Shown' = [s \in Sectors |-> IF s \in S THEN v[s] ELSE Shown[s]]
  BY <1>1, BypassShown
<1>3. disk' = [s \in Sectors |-> IF s \in S THEN v[s] ELSE disk[s]]
  BY <1>1
<1> HIDE DEF v
<1> QED  BY <1>1, <1>2, <1>3 DEF Abs!Next, Abs!Write, Shown

\* SafeWriteFails is a step of the abstract store.
LEMMA SafeWriteFailsStep ==
  ASSUME IInv, NEW S \in Ranges, NEW w \in [DataSectors -> Val], SafeWriteFails(S, w)
  PROVE  Abs!Next
<1>1. PICK T \in SUBSET S : disk' = [s \in Sectors |-> IF s \in T THEN w[s] ELSE disk[s]]
  BY DEF SafeWriteFails
<1>2. Bypass(S) /\ mBuffer' = mBuffer /\ result' = "error"
  BY DEF SafeWriteFails, Fault
<1>3. S \subseteq Sectors /\ S \subseteq DataSectors /\ disk' \in [Sectors -> Val]
  BY <1>1, <1>2, BypassShown
<1>4. Shown' = [s \in Sectors |-> IF s \in S THEN disk'[s] ELSE Shown[s]]
  BY <1>1, <1>2, BypassShown
<1>5. PICK v \in [Sectors -> Val] : v = [s \in Sectors |-> IF s \in S THEN w[s] ELSE disk[s]]
  BY <1>3, ShownType
<1>6. Shown' \in [Sectors -> Val]
  BY <1>3, <1>4, ShownType
<1>7. \A s \in Sectors :
        IF s \in S THEN disk'[s] \in {disk[s], v[s]} /\ Shown'[s] = disk'[s]
                   ELSE disk'[s] = disk[s] /\ Shown'[s] = Shown[s]
  BY <1>1, <1>4, <1>5
<1>8. Abs!WriteFails(S, v)
  BY <1>2, <1>3, <1>6, <1>7 DEF Abs!WriteFails, Shown
<1>9. S \in SUBSET Sectors
  BY <1>3
<1> QED  BY <1>5, <1>8, <1>9, Zenon DEF Abs!Next

\* Every step is one of the abstract store, or none.
LEMMA NextImplements == ~Clobber /\ IInv /\ [Next]_vars => [Abs!Next]_(Abs!storeVars)
<1> SUFFICES ASSUME ~Clobber, IInv, [Next]_vars PROVE [Abs!Next]_(Abs!storeVars)
  OBVIOUS
<1>1. CASE UNCHANGED vars
  BY <1>1 DEF vars, Abs!storeVars
<1> QED
  BY <1>1, ReadStep, PutStep, SyncFailsStep, PrepareReadFailsStep, CacheSyncStep,
     SyncDeviceFailsStep, ClearStep, RestartStep, SafeReadStep, SafeReadFailsStep,
     SafeWriteStep, SafeWriteFailsStep
     DEF Next, PrepareFails

\* The first state is one of the abstract store.
LEMMA InitImplements == Init => Abs!Init
<1> SUFFICES ASSUME Init PROVE Abs!Init
  OBVIOUS
<1>1. Shown = disk /\ disk \in [Sectors -> Val] /\ result = "ok"
  BY NoSectorFacts DEF Init, Shown
<1> QED  BY <1>1 DEF Abs!Init, Shown

\* The cache is a sector store: through cached and direct accesses, failing
\* accesses and restarts a read returns the last value stored, and what a
\* successful cacheSync reported is on the device.
THEOREM Implementation == ~Clobber => (Spec => ImplementsSectorStore)
<1> SUFFICES ASSUME ~Clobber PROVE Spec => Abs!Spec
  BY DEF ImplementsSectorStore
<1>1. Spec => []IInv
  BY Invariance
<1>2. Init => Abs!Init
  BY InitImplements
<1>3. IInv /\ [Next]_vars => [Abs!Next]_(Abs!storeVars)
  BY NextImplements
<1> QED  BY <1>1, <1>2, <1>3, PTL DEF Spec, Abs!Spec

-----------------------------------------------------------------------------
(* The two copies of the table.                                            *)

\* The torn sectors that no later sync is going to repair by itself.
Unrepaired == Torn \ (IF Dirty THEN {mSector} ELSE {})

\* Sets of FAT sectors are finite.
LEMMA TornFinite == ASSUME NEW S \in SUBSET FatSectors PROVE IsFiniteSet(S) /\ Cardinality(S) \in Nat
BY SectorsAssumption, FS_Subset, FS_CardinalityType

\* With no sector more to repair, and no restart, the bound stays.
LEMMA SmallerTorn ==
  ASSUME IInv, TornBounded, Unrepaired' \subseteq Unrepaired, restarts' = restarts
  PROVE  TornBounded'
<1>1. Unrepaired \subseteq FatSectors /\ Unrepaired' \subseteq FatSectors
  BY DEF Unrepaired, Torn
<1>2. Cardinality(Unrepaired') <= Cardinality(Unrepaired)
      /\ Cardinality(Unrepaired) \in Nat /\ Cardinality(Unrepaired') \in Nat
  BY <1>1, TornFinite, FS_Subset
<1>3. Cardinality(Unrepaired) <= restarts
  BY DEF TornBounded, Unrepaired
<1>4. Cardinality(Unrepaired') <= restarts'
  BY <1>2, <1>3 DEF IInv, TypeOK
<1> QED  BY <1>4 DEF TornBounded, Unrepaired

\* A complete sync leaves only what was torn before, but for its own sector.
LEMMA SyncTorn ==
  ASSUME IInv, SyncDevice
  PROVE  Torn' \subseteq Unrepaired
<1>1. disk' = Written(disk, mirror).d /\ mirror' = Written(disk, mirror).m
  BY DEF SyncDevice
<1>2. CASE Dirty
  <2>1. \A s \in FatSectors : s = mSector => disk'[s] = mBuffer /\ mirror'[s] = mBuffer
    BY <1>1, <1>2 DEF Written, IInv, TypeOK, Option, Dirty, Statuses, Sectors
  <2>2. \A s \in FatSectors : s # mSector => disk'[s] = disk[s] /\ mirror'[s] = mirror[s]
    BY <1>1, <1>2, WrittenFacts DEF Sectors
  <2> QED  BY <1>2, <2>1, <2>2 DEF Torn, Unrepaired
<1>3. CASE ~Dirty
  BY <1>1, <1>3 DEF Written, Torn, Unrepaired, Dirty, Statuses
<1> QED  BY <1>2, <1>3

\* A sync cut short can tear the one sector it writes.
LEMMA CutTorn ==
  ASSUME IInv, SyncCut
  PROVE  Torn' \subseteq Unrepaired \cup (IF Dirty THEN {mSector} ELSE {})
<1>1. CASE SyncDevice
  BY <1>1, SyncTorn
<1>2. CASE ~SyncDevice
  <2>1. mirror' = mirror /\ \A s \in FatSectors : s # mSector => disk'[s] = disk[s]
    BY <1>2, SyncFacts DEF SyncCut, Sectors
  <2>2. ~Dirty => disk' = disk
    BY <1>2 DEF SyncCut, Written
  <2> QED  BY <2>1, <2>2 DEF Torn, Unrepaired
<1> QED  BY <1>1, <1>2

\* What an operation, other than a restart, can leave torn.
LEMMA SyncedUnrepaired == ASSUME IInv, SyncDevice PROVE Unrepaired' \subseteq Unrepaired
BY SyncTorn DEF Unrepaired

\* A step that changes neither cache nor device leaves the same sectors unrepaired.
LEMMA SameUnrepaired ==
  ASSUME UNCHANGED <<disk, mirror, mSector, mStatus>>
  PROVE  Unrepaired' \subseteq Unrepaired
BY DEF Unrepaired, Torn, Dirty

\* A range whose sectors are stored and cached alike leaves no more to repair.
LEMMA RangeUnrepaired ==
  ASSUME IInv, NEW S, RangeSynced(S), UNCHANGED mSector
  PROVE  Unrepaired' \subseteq Unrepaired
<1>1. CASE mSector \in S
  BY <1>1, SyncedUnrepaired DEF RangeSynced
<1>2. CASE mSector \notin S
  BY <1>2, SameUnrepaired DEF RangeSynced
<1> QED  BY <1>1, <1>2

\* A direct write touches neither table.
LEMMA BypassUnrepaired ==
  ASSUME IInv, NEW S \in Ranges, NEW T \in SUBSET S, NEW w \in [DataSectors -> Val],
         disk' = [s \in Sectors |-> IF s \in T THEN w[s] ELSE disk[s]],
         Bypass(S), UNCHANGED mirror
  PROVE  Unrepaired' \subseteq Unrepaired
<1>1. S \cap FatSectors = {} /\ FatSectors \subseteq Sectors
  BY SectorsAssumption DEF Ranges, Sectors
<1>2. \A s \in FatSectors : disk'[s] = disk[s]
  BY <1>1
<1>3. Torn' = Torn
  BY <1>2 DEF Torn
<1>4. CASE mSector \in S
  BY <1>1, <1>3, <1>4 DEF Unrepaired, Torn
<1>5. CASE mSector \notin S
  BY <1>3, <1>5 DEF Bypass, Unrepaired, Dirty
<1> QED  BY <1>4, <1>5

\* A change of a cached sector leaves no more to repair.
LEMMA PutUnrepaired ==
  ASSUME IInv, NEW s \in Sectors, NEW v \in Val, Put(s, v)
  PROVE  Unrepaired' \subseteq Unrepaired
<1>1. CASE mSector = s
  <2>1. Torn' = Torn /\ mSector' = mSector /\ Dirty'
    BY <1>1, OptionFacts DEF Put, Torn, Dirty
  <2> QED  BY <2>1 DEF Unrepaired
<1>2. CASE mSector # s
  BY <1>2, SyncedUnrepaired DEF Put
<1> QED  BY <1>1, <1>2

\* SyncFails leaves no sector unrepaired that was not.
LEMMA SyncFailsUnrepaired == ASSUME IInv, SyncFails PROVE Unrepaired' \subseteq Unrepaired
<1>1. Dirty /\ Dirty' /\ SyncCut /\ mSector' = mSector
  BY DEF SyncFails, Dirty
<1>2. Torn' \subseteq Unrepaired \cup {mSector}
  BY <1>1, CutTorn
<1> QED  BY <1>1, <1>2 DEF Unrepaired

\* A restart can leave the one sector torn whose sync it cut short.
LEMMA RestartTorn == ASSUME IInv, TornBounded, Restart PROVE TornBounded'
<1>1. /\ SyncCut /\ restarts' = restarts + 1
      /\ Unrepaired \in SUBSET FatSectors /\ Unrepaired' \in SUBSET FatSectors
  BY DEF Restart, Unrepaired, Torn
<1>2. Unrepaired' \subseteq Unrepaired \cup {mSector}
  BY <1>1, CutTorn DEF Unrepaired
<1>3. /\ IsFiniteSet(Unrepaired) /\ Cardinality(Unrepaired) \in Nat
      /\ Cardinality(Unrepaired') \in Nat
  BY <1>1, TornFinite
<1>4. /\ IsFiniteSet(Unrepaired \cup {mSector})
      /\ Cardinality(Unrepaired \cup {mSector}) \in {Cardinality(Unrepaired), Cardinality(Unrepaired) + 1}
  BY <1>3, FS_AddElement
<1>5. Cardinality(Unrepaired') <= Cardinality(Unrepaired \cup {mSector})
  BY <1>2, <1>4, FS_Subset
<1>6. Cardinality(Unrepaired) <= restarts /\ restarts \in Nat
  BY DEF TornBounded, Unrepaired, IInv, TypeOK
<1>7. Cardinality(Unrepaired') <= restarts'
  BY <1>1, <1>3, <1>4, <1>5, <1>6
<1> QED  BY <1>7 DEF TornBounded, Unrepaired

\* Every step keeps TornBounded.
LEMMA NextTorn == IInv /\ TornBounded /\ [Next]_vars => TornBounded'
<1> SUFFICES ASSUME IInv, TornBounded, [Next]_vars PROVE TornBounded'
  OBVIOUS
<1>1. ASSUME NEW s \in Sectors, Read(s) PROVE TornBounded'
  <2>1. restarts' = restarts
    BY <1>1 DEF Read, NoFault
  <2>2. mSector # s => SyncDevice
    BY <1>1 DEF Read
  <2>3. mSector = s => UNCHANGED <<disk, mirror, mSector, mStatus>>
    BY <1>1 DEF Read
  <2> QED  BY <2>1, <2>2, <2>3, SyncedUnrepaired, SameUnrepaired, SmallerTorn
<1>2. ASSUME NEW s \in Sectors, NEW v \in Val, Put(s, v) PROVE TornBounded'
  BY <1>2, PutUnrepaired, SmallerTorn DEF Put, NoFault
<1>3. CASE SyncFails
  BY <1>3, SyncFailsUnrepaired, SmallerTorn DEF SyncFails, Fault
<1>4. ASSUME NEW s \in Sectors, PrepareReadFails(s) PROVE TornBounded'
  BY <1>4, SyncedUnrepaired, SmallerTorn DEF PrepareReadFails, Fault
<1>5. CASE CacheSync \/ SyncDeviceFails \/ Clear
  <2>1. SyncDevice /\ restarts' = restarts
    BY <1>5 DEF CacheSync, SyncDeviceFails, Clear, NoFault
  <2> QED  BY <2>1, SyncedUnrepaired, SmallerTorn
<1>6. ASSUME NEW S \in Ranges, NEW s \in S, SafeRead(S, s) PROVE TornBounded'
  <2>1. restarts' = restarts /\ mSector' = mSector
    BY <1>6 DEF SafeRead, NoFault
  <2>2. RangeSynced(S) \/ UNCHANGED <<disk, mirror, mStatus>>
    BY <1>6 DEF SafeRead
  <2> QED  BY <2>1, <2>2, RangeUnrepaired, SameUnrepaired, SmallerTorn
<1>7. ASSUME NEW S \in Ranges, SafeReadFails(S) PROVE TornBounded'
  <2>1. SyncFails \/ (RangeSynced(S) /\ Fault /\ mSector' = mSector)
    BY <1>7 DEF SafeReadFails
  <2> QED  BY <1>3, <2>1, RangeUnrepaired, SmallerTorn DEF Fault
<1>8. ASSUME NEW S \in Ranges, NEW w \in [DataSectors -> Val],
             SafeWrite(S, w) \/ SafeWriteFails(S, w)
      PROVE  TornBounded'
  <2>1. Bypass(S) /\ mirror' = mirror /\ restarts' = restarts
    BY <1>8 DEF SafeWrite, SafeWriteFails, NoFault, Fault
  <2>2. PICK T \in SUBSET S : disk' = [s \in Sectors |-> IF s \in T THEN w[s] ELSE disk[s]]
    <3>1. S \in SUBSET S
      OBVIOUS
    <3> QED  BY <1>8, <3>1 DEF SafeWrite, SafeWriteFails
  <2>3. Unrepaired' \subseteq Unrepaired
    BY <2>1, <2>2, BypassUnrepaired
  <2> QED  BY <2>1, <2>3, SmallerTorn
<1>9. CASE Restart
  BY <1>9, RestartTorn
<1>10. CASE UNCHANGED vars
  BY <1>10, SameUnrepaired, SmallerTorn DEF vars
<1> QED
  BY <1>1, <1>2, <1>3, <1>4, <1>5, <1>6, <1>7, <1>8, <1>9, <1>10 DEF Next, PrepareFails

\* The first state satisfies TornBounded.
LEMMA InitTorn == Init => TornBounded
<1> SUFFICES ASSUME Init PROVE TornBounded
  OBVIOUS
<1>1. Unrepaired = {} /\ restarts = 0
  BY DEF Init, Unrepaired, Torn
<1>2. Cardinality(Unrepaired) = 0
  BY <1>1, FS_EmptySet
<1> QED  BY <1>1, <1>2 DEF TornBounded, Unrepaired

\* The two tables differ in at most one sector per restart, besides a sector
\* the next sync writes to both.
THEOREM TornBound == ~Clobber => (Spec => []TornBounded)
<1> SUFFICES ASSUME ~Clobber PROVE Spec => []TornBounded
  OBVIOUS
<1>1. Spec => []IInv
  BY Invariance
<1>2. Init => TornBounded
  BY InitTorn
<1>3. IInv /\ TornBounded /\ [Next]_vars => TornBounded'
  BY NextTorn
<1> QED  BY <1>1, <1>2, <1>3, PTL DEF Spec

-----------------------------------------------------------------------------
\* A directory is the cluster it starts at, or Root.
Homes == Clusters \cup {Root}
Texts == Short \cup Long \cup Alias \cup {NoName}
Kinds == {"free", "del", "junk", "lfn", "file", "dir", "dot", "dotdot"}
IsNamed(e) == e.k \in {"lfn", "file", "dir"}
\* An entry has the kind of name it should have.
Right(e) ==
  /\ IsObject(e) => e.name \in Short \cup Alias
  /\ e.k = "lfn" => e.name \in Long /\ e.sum \in Alias
SlotSet == {e \in [k : Kinds, name : Texts, sum : Texts, first : Homes] : Right(e)}
Volumes == [fat : [Clusters -> Seq(Clusters)], slots : [Homes -> [1 .. PerCluster -> SlotSet]]]

\* Where the entries of d start, and how many there are.
Start(d) == IF d = Root /\ rootFixed THEN Root ELSE DirStart(d)
Size(v, d) == PerCluster * Len(DirChain(v, d))

\* A cluster is in one place of one chain.
Apart(v) ==
  \A c, e \in Clusters : \A i \in 1 .. Len(v.fat[c]), j \in 1 .. Len(v.fat[e]) :
    v.fat[c][i] = v.fat[e][j] => c = e /\ i = j
\* A chain has the name of its first cluster; the root has one if it needs one.
Headed(v) ==
  /\ \A c \in Clusters : v.fat[c] # <<>> => v.fat[c][1] = c
  /\ ~rootFixed => v.fat[RootStart] # <<>>
\* No file, directory or long name is behind an entry that was never used.
Filled(v) ==
  \A d \in Homes : \A i, j \in 1 .. Size(v, d) :
    i < j /\ Entries(v, d)[i].k = "free" => ~IsNamed(Entries(v, d)[j])
\* Nor in a cluster that is in no chain.
Bare(v) == \A c \in Clusters \ Taken(v) : \A i \in 1 .. PerCluster : ~IsNamed(v.slots[c][i])
Shapes == {v \in Volumes : Apart(v) /\ Headed(v) /\ Filled(v) /\ Bare(v)}

-----------------------------------------------------------------------------
(* Numbers.                                                                *)

\* The product grows with the factor.
LEMMA Products ==
  ASSUME NEW b \in Int, b > 0, NEW p \in Int, NEW q \in Int, p < q
  PROVE  b * p + b <= b * q
<1>1. PICK d \in Nat : q = p + 1 + d
  <2>1. q - p - 1 \in Nat /\ q = p + 1 + (q - p - 1)
    OBVIOUS
  <2> QED  BY <2>1
<1>2. b * q = b * p + b + b * d /\ b * d >= 0
  BY <1>1
<1> QED  BY <1>2

\* Division with remainder.
LEMMA Division ==
  ASSUME NEW b \in Int, b > 0, NEW x \in Int
  PROVE  x \div b \in Int /\ x % b \in 0 .. b - 1 /\ x = b * (x \div b) + (x % b)
<1>1. x = b * (x \div b) + (x % b)
  BY Z3
<1> QED  BY <1>1

\* The cluster and the offset of an entry of a directory of n clusters.
LEMMA Offsets ==
  ASSUME NEW n \in Nat, NEW i \in 1 .. PerCluster * n
  PROVE  /\ (i - 1) \div PerCluster + 1 \in 1 .. n
         /\ ((i - 1) % PerCluster) + 1 \in 1 .. PerCluster
         /\ i = PerCluster * ((i - 1) \div PerCluster) + ((i - 1) % PerCluster) + 1
         /\ \A m \in Nat : i > PerCluster * m => (i - 1) \div PerCluster + 1 > m
<1> DEFINE q == (i - 1) \div PerCluster
           r == (i - 1) % PerCluster
<1>0. PerCluster \in Int /\ PerCluster > 0 /\ PerCluster * n \in Nat /\ i \in Int /\ i - 1 \in Int
      /\ i - 1 >= 0 /\ i <= PerCluster * n
  BY EntriesAssumption
<1>1. q \in Int /\ r \in 0 .. PerCluster - 1 /\ i - 1 = PerCluster * q + r
  BY <1>0, Division
<1> HIDE DEF q, r
<1>2. q >= 0
  <2>1. q < 0 => PerCluster * q + PerCluster <= PerCluster * 0
    BY <1>0, <1>1, Products
  <2>2. PerCluster * q \in Int /\ PerCluster * 0 = 0
    BY <1>0, <1>1
  <2> QED  BY <1>0, <1>1, <2>1, <2>2
<1>3. q < n
  <2>1. n < q => PerCluster * n + PerCluster <= PerCluster * q
    BY <1>0, <1>1, Products
  <2>2. PerCluster * q \in Int
    BY <1>0, <1>1
  <2>3. ~ (n < q)
    BY <1>0, <1>1, <2>1, <2>2
  <2>4. q # n
    BY <1>0, <1>1, <2>2
  <2> QED  BY <1>1, <2>3, <2>4
<1>4. ASSUME NEW m \in Nat, i > PerCluster * m PROVE q + 1 > m
  <2>1. q < m => PerCluster * q + PerCluster <= PerCluster * m
    BY <1>0, <1>1, Products
  <2>2. PerCluster * q \in Int /\ PerCluster * m \in Int
    BY <1>0, <1>1
  <2> QED  BY <1>0, <1>1, <1>4, <2>1, <2>2
<1>5. i = PerCluster * q + r + 1
  <2>1. PerCluster * q \in Int
    BY <1>0, <1>1
  <2> QED  BY <1>0, <1>1, <2>1
<1> QED  BY <1>0, <1>1, <1>2, <1>3, <1>4, <1>5 DEF q, r

\* A set of numbers that is not empty has a least one, and it is the only one.
LEMMA MinFacts ==
  ASSUME NEW S, S \subseteq Nat, S # {}
  PROVE  Min(S) \in S /\ \A n \in S : Min(S) <= n
<1> DEFINE R == {ss \in Nat \X Nat : ss[1] < ss[2]}
<1>1. IsWellFoundedOn(R, Nat)
  BY NatLessThanWellFounded DEF OpToRel
<1> HIDE DEF R
<1>2. PICK m \in S : \A n \in S : ~ (<<n, m>> \in R)
  BY <1>1, WFMin
<1>3. \A n \in S : ~ (n < m)
  BY <1>2 DEF R
<1>4. \A n \in S : m <= n
  BY <1>3
<1> QED  BY <1>4 DEF Min

-----------------------------------------------------------------------------
(* Chains and entries.                                                     *)

\* The root is no cluster, but starts at one.
LEMMA RootFacts ==
  /\ Root \notin Clusters /\ RootStart \in Clusters
  /\ \A d \in Homes : Start(d) \in Homes /\ DirStart(d) \in Clusters
  /\ \A d \in Clusters : Start(d) = d /\ DirStart(d) = d
<1>1. Root \notin Clusters
  BY ClustersAssumption DEF Root
<1>2. RootStart \in Clusters
  <2>1. Min(Clusters) \in Clusters /\ \A n \in Clusters : Min(Clusters) <= n
    BY ClustersAssumption, MinFacts
  <2> QED  BY <2>1 DEF RootStart
<1> QED  BY <1>1, <1>2 DEF Homes, Start, DirStart

\* The chain of a directory.
LEMMA ChainFacts ==
  ASSUME NEW v \in Volumes, NEW d \in Homes
  PROVE  /\ DirChain(v, d) \in Seq(Homes) /\ Len(DirChain(v, d)) \in Nat
         /\ DirChain(v, d) = IF Start(d) = Root THEN <<Root>> ELSE v.fat[Start(d)]
         /\ \A i \in 1 .. Len(DirChain(v, d)) : DirChain(v, d)[i] \in Homes
         /\ Size(v, d) \in Nat
<1>1. DirChain(v, d) = IF Start(d) = Root THEN <<Root>> ELSE v.fat[Start(d)]
  BY RootFacts DEF DirChain, Start, DirStart, Homes
<1>2. Start(d) # Root => v.fat[Start(d)] \in Seq(Clusters)
  BY RootFacts DEF Volumes, Homes
<1>3. DirChain(v, d) \in Seq(Homes)
  <2>1. CASE Start(d) = Root
    BY <1>1, <2>1 DEF Homes
  <2>2. CASE Start(d) # Root
    <3>1. v.fat[Start(d)] \in Seq(Clusters)
      BY <1>2, <2>2
    <3>2. v.fat[Start(d)] \in Seq(Homes)
      BY <3>1 DEF Homes
    <3> QED  BY <1>1, <2>2, <3>2
  <2> QED  BY <2>1, <2>2
<1>4. Len(DirChain(v, d)) \in Nat /\ \A i \in 1 .. Len(DirChain(v, d)) : DirChain(v, d)[i] \in Homes
  BY <1>3, ElementOfSeq, LenProperties
<1>5. Size(v, d) \in Nat
  BY <1>4, EntriesAssumption DEF Size
<1> QED  BY <1>1, <1>3, <1>4, <1>5

\* Where an entry of a directory is.
LEMMA AtFacts ==
  ASSUME NEW v \in Volumes, NEW d \in Homes, NEW i \in 1 .. Size(v, d)
  PROVE  /\ At(v, d, i)[1] \in Homes /\ At(v, d, i)[2] \in 1 .. PerCluster
         /\ (i - 1) \div PerCluster + 1 \in 1 .. Len(DirChain(v, d))
         /\ At(v, d, i)[1] = DirChain(v, d)[(i - 1) \div PerCluster + 1]
         /\ i = PerCluster * ((i - 1) \div PerCluster) + At(v, d, i)[2]
         /\ Entries(v, d)[i] = v.slots[At(v, d, i)[1]][At(v, d, i)[2]]
         /\ Entries(v, d)[i] \in SlotSet
<1> DEFINE q == (i - 1) \div PerCluster
           r == (i - 1) % PerCluster
<1>1. /\ q + 1 \in 1 .. Len(DirChain(v, d)) /\ r + 1 \in 1 .. PerCluster
      /\ i = PerCluster * q + r + 1
  BY ChainFacts, Offsets DEF Size
<1>2. At(v, d, i)[1] = DirChain(v, d)[q + 1] /\ At(v, d, i)[2] = r + 1
  BY DEF At
<1>3. Entries(v, d)[i] = v.slots[At(v, d, i)[1]][At(v, d, i)[2]]
  BY <1>2 DEF Entries, Size
<1>4. At(v, d, i)[1] \in Homes
  BY <1>1, <1>2, ChainFacts
<1>5. v.slots[At(v, d, i)[1]][At(v, d, i)[2]] \in SlotSet
  BY <1>1, <1>2, <1>4 DEF Volumes
<1>6. i = PerCluster * q + (r + 1)
  <2>1. PerCluster \in Int /\ q \in Int /\ r \in Int
    BY <1>1, EntriesAssumption, Division
  <2>2. PerCluster * q \in Int
    BY <2>1
  <2> HIDE DEF q, r
  <2> QED  BY <1>1, <2>1, <2>2
<1> QED  BY <1>1, <1>2, <1>3, <1>4, <1>5, <1>6

\* The entries of a directory, as a sequence.
LEMMA EntriesSeq ==
  ASSUME NEW v \in Volumes, NEW d \in Homes
  PROVE  /\ Entries(v, d) \in Seq(SlotSet) /\ Len(Entries(v, d)) = Size(v, d)
         /\ DOMAIN Entries(v, d) = 1 .. Size(v, d)
         /\ \A i \in 1 .. Size(v, d) : Entries(v, d)[i] \in SlotSet
<1>1. DOMAIN Entries(v, d) = 1 .. Size(v, d) /\ \A i \in 1 .. Size(v, d) : Entries(v, d)[i] \in SlotSet
  BY AtFacts DEF Entries, Size
<1>2. Entries(v, d) \in [1 .. Size(v, d) -> SlotSet]
  BY <1>1 DEF Entries, Size
<1>3. Size(v, d) \in Nat
  BY ChainFacts
<1>4. Entries(v, d) \in Seq(SlotSet)
  BY <1>2, <1>3, SeqDef
<1>5. Len(Entries(v, d)) = Size(v, d)
  BY <1>1, <1>3, <1>4, LenProperties
<1> QED  BY <1>1, <1>4, <1>5

\* An entry is in one place of one directory.
LEMMA AtOnce ==
  ASSUME NEW v \in Volumes, Apart(v), NEW d \in Homes, NEW e \in Homes,
         NEW i \in 1 .. Size(v, d), NEW j \in 1 .. Size(v, e),
         At(v, d, i)[1] = At(v, e, j)[1], At(v, d, i)[2] = At(v, e, j)[2]
  PROVE  Start(d) = Start(e) /\ i = j
<1> DEFINE p == (i - 1) \div PerCluster
           q == (j - 1) \div PerCluster
<1>1. p + 1 \in 1 .. Len(DirChain(v, d)) /\ q + 1 \in 1 .. Len(DirChain(v, e))
  BY AtFacts
<1>2. DirChain(v, d)[p + 1] = DirChain(v, e)[q + 1]
  BY AtFacts
<1>3. i = PerCluster * p + At(v, d, i)[2] /\ j = PerCluster * q + At(v, d, i)[2]
  BY AtFacts
<1>4. p \in Int /\ q \in Int
  BY EntriesAssumption, Division
<1> HIDE DEF p, q
<1>5. Start(d) = Start(e) /\ p = q
  <2>1. CASE Start(d) # Root /\ Start(e) # Root
    <3>1. Start(d) \in Clusters /\ Start(e) \in Clusters
      BY <2>1, RootFacts DEF Homes
    <3>2. DirChain(v, d) = v.fat[Start(d)] /\ DirChain(v, e) = v.fat[Start(e)]
      BY <2>1, ChainFacts
    <3>3. Start(d) = Start(e) /\ p + 1 = q + 1
      BY <1>1, <1>2, <3>1, <3>2 DEF Apart
    <3> QED  BY <1>4, <3>3
  <2>2. ASSUME NEW f \in Homes, Start(f) = Root
        PROVE  DirChain(v, f) = <<Root>>
    BY <2>2, ChainFacts
  <2>3. ASSUME NEW f \in Homes, Start(f) # Root, NEW k \in 1 .. Len(DirChain(v, f))
        PROVE  DirChain(v, f)[k] \in Clusters
    <3>1. Start(f) \in Clusters /\ DirChain(v, f) = v.fat[Start(f)]
      BY <2>3, ChainFacts, RootFacts DEF Homes
    <3>2. v.fat[Start(f)] \in Seq(Clusters)
      BY <3>1 DEF Volumes
    <3> QED  BY <3>1, <3>2, <2>3
  <2>4. CASE Start(d) = Root \/ Start(e) = Root
    <3>1. Start(d) = Root /\ Start(e) = Root
      <4>1. ASSUME Start(d) = Root, Start(e) # Root PROVE FALSE
        <5>1. DirChain(v, d)[p + 1] = Root
          BY <2>2, <4>1, <1>1
        <5>2. DirChain(v, e)[q + 1] \in Clusters
          BY <1>1, <2>3, <4>1
        <5> QED  BY <1>2, <5>1, <5>2, RootFacts
      <4>2. ASSUME Start(d) # Root, Start(e) = Root PROVE FALSE
        <5>1. DirChain(v, e)[q + 1] = Root
          BY <2>2, <4>2, <1>1
        <5>2. DirChain(v, d)[p + 1] \in Clusters
          BY <1>1, <2>3, <4>2
        <5> QED  BY <1>2, <5>1, <5>2, RootFacts
      <4> QED  BY <2>4, <4>1, <4>2
    <3>2. p + 1 \in 1 .. 1 /\ q + 1 \in 1 .. 1
      BY <1>1, <2>2, <3>1
    <3> QED  BY <1>4, <3>1, <3>2
  <2> QED  BY <2>1, <2>4
<1> QED  BY <1>3, <1>5

-----------------------------------------------------------------------------
(* What is written, and what it leaves alone.                              *)

\* The chain of a directory depends on the table, and on where the directory starts.
LEMMA SameChain ==
  ASSUME NEW v \in Volumes, NEW w \in Volumes, NEW d \in Homes, NEW f \in Homes,
         Start(d) = Start(f), Start(d) # Root => w.fat[Start(d)] = v.fat[Start(d)]
  PROVE  /\ DirChain(w, d) = DirChain(v, f) /\ Size(w, d) = Size(v, f)
         /\ \A i : At(w, d, i) = At(v, f, i)
<1>1. DirChain(w, d) = DirChain(v, f)
  BY ChainFacts
<1> QED  BY <1>1 DEF Size, At

\* Two directories that start at the same place are the same.
LEMMA SameStart ==
  ASSUME NEW v \in Volumes, NEW d \in Homes, NEW f \in Homes, Start(d) = Start(f)
  PROVE  Entries(v, d) = Entries(v, f) /\ Size(v, d) = Size(v, f)
<1>1. DirChain(v, d) = DirChain(v, f)
  BY ChainFacts
<1> QED  BY <1>1 DEF Size, Entries

\* The same table has the same chains.
LEMMA SameTable ==
  ASSUME NEW v \in Volumes, NEW w \in Volumes, w.fat = v.fat
  PROVE  /\ Taken(w) = Taken(v)
         /\ Apart(v) => Apart(w)
         /\ Headed(v) => Headed(w)
         /\ \A d \in Homes : /\ DirChain(w, d) = DirChain(v, d) /\ Size(w, d) = Size(v, d)
                             /\ \A i : At(w, d, i) = At(v, d, i)
<1>1. Taken(w) = Taken(v)
  BY Zenon DEF Taken
<1>2. Apart(v) => Apart(w)
  BY DEF Apart
<1>3. Headed(v) => Headed(w)
  BY DEF Headed
<1>4. ASSUME NEW d \in Homes
      PROVE  /\ DirChain(w, d) = DirChain(v, d) /\ Size(w, d) = Size(v, d)
             /\ \A i : At(w, d, i) = At(v, d, i)
  BY SameChain
<1> QED  BY <1>1, <1>2, <1>3, <1>4

\* A volume with another chain.
LEMMA ChainSet ==
  ASSUME NEW v \in Volumes, NEW c \in Clusters, NEW x \in Seq(Clusters)
  PROVE  LET w == SetChain(v, c, x) IN
         /\ w \in Volumes /\ w.slots = v.slots
         /\ w.fat[c] = x /\ \A e \in Clusters \ {c} : w.fat[e] = v.fat[e]
BY DEF Volumes, SetChain

\* A volume with another cluster.
LEMMA ClusterSet ==
  ASSUME NEW v \in Volumes, NEW d \in Homes, NEW y \in [1 .. PerCluster -> SlotSet]
  PROVE  LET w == SetCluster(v, d, y) IN
         /\ w \in Volumes /\ w.fat = v.fat
         /\ w.slots[d] = y /\ \A x \in Homes \ {d} : w.slots[x] = v.slots[x]
BY DEF Volumes, SetCluster

\* The volume after an entry is written.
LEMMA PutSlots ==
  ASSUME NEW v \in Volumes, NEW d \in Homes, NEW i \in 1 .. Size(v, d), NEW e \in SlotSet
  PROVE  /\ PutEntry(v, d, i, e) \in Volumes /\ PutEntry(v, d, i, e).fat = v.fat
         /\ \A x \in Homes, p \in 1 .. PerCluster :
              PutEntry(v, d, i, e).slots[x][p] =
                IF x = At(v, d, i)[1] /\ p = At(v, d, i)[2] THEN e ELSE v.slots[x][p]
<1> DEFINE c == At(v, d, i)[1]
           o == At(v, d, i)[2]
           y == [v.slots[c] EXCEPT ![o] = e]
           w == SetCluster(v, c, y)
<1>1. c \in Homes /\ o \in 1 .. PerCluster
  BY AtFacts
<1>2. PutEntry(v, d, i, e) = w
  BY DEF PutEntry
<1> HIDE DEF c, o
<1>3. v.slots[c] \in [1 .. PerCluster -> SlotSet]
  BY <1>1 DEF Volumes
<1>4. y \in [1 .. PerCluster -> SlotSet] /\ \A p \in 1 .. PerCluster : y[p] = IF p = o THEN e ELSE v.slots[c][p]
  BY <1>1, <1>3
<1> HIDE DEF y
<1>5. /\ w \in Volumes /\ w.fat = v.fat
      /\ w.slots[c] = y /\ \A x \in Homes \ {c} : w.slots[x] = v.slots[x]
  BY <1>1, <1>4, ClusterSet
<1> HIDE DEF w
<1>6. \A x \in Homes, p \in 1 .. PerCluster :
        w.slots[x][p] = IF x = c /\ p = o THEN e ELSE v.slots[x][p]
  BY <1>1, <1>4, <1>5
<1> QED  BY <1>2, <1>5, <1>6 DEF c, o

\* What the directories have after an entry is written.
LEMMA PutFacts ==
  ASSUME NEW v \in Volumes, Apart(v), NEW d \in Homes, NEW i \in 1 .. Size(v, d), NEW e \in SlotSet
  PROVE  \A f \in Homes : /\ Size(PutEntry(v, d, i, e), f) = Size(v, f)
                          /\ \A j \in 1 .. Size(v, f) : Entries(PutEntry(v, d, i, e), f)[j] =
                               IF Start(f) = Start(d) /\ j = i THEN e ELSE Entries(v, f)[j]
<1> DEFINE w == PutEntry(v, d, i, e)
<1>1. /\ w \in Volumes /\ w.fat = v.fat
      /\ \A x \in Homes, p \in 1 .. PerCluster :
           w.slots[x][p] = IF x = At(v, d, i)[1] /\ p = At(v, d, i)[2] THEN e ELSE v.slots[x][p]
  BY PutSlots
<1> HIDE DEF w
<1> SUFFICES ASSUME NEW f \in Homes
             PROVE  /\ Size(w, f) = Size(v, f)
                    /\ \A j \in 1 .. Size(v, f) : Entries(w, f)[j] =
                         IF Start(f) = Start(d) /\ j = i THEN e ELSE Entries(v, f)[j]
  BY DEF w
<1>2. Size(w, f) = Size(v, f) /\ \A j : At(w, f, j) = At(v, f, j)
  BY <1>1, SameTable
<1>3. ASSUME NEW j \in 1 .. Size(v, f)
      PROVE  Entries(w, f)[j] = IF Start(f) = Start(d) /\ j = i THEN e ELSE Entries(v, f)[j]
  <2>1. /\ Entries(w, f)[j] = w.slots[At(v, f, j)[1]][At(v, f, j)[2]]
        /\ Entries(v, f)[j] = v.slots[At(v, f, j)[1]][At(v, f, j)[2]]
        /\ At(v, f, j)[1] \in Homes /\ At(v, f, j)[2] \in 1 .. PerCluster
    BY <1>1, <1>2, AtFacts
  <2>2. CASE Start(f) = Start(d) /\ j = i
    <3>1. At(v, f, j) = At(v, d, i)
      BY <2>2, SameChain
    <3> QED  BY <1>1, <2>1, <2>2, <3>1
  <2>3. CASE ~(Start(f) = Start(d) /\ j = i)
    <3>1. ~(At(v, f, j)[1] = At(v, d, i)[1] /\ At(v, f, j)[2] = At(v, d, i)[2])
      BY <2>3, AtOnce
    <3> QED  BY <1>1, <2>1, <2>3, <3>1
  <2> QED  BY <2>2, <2>3
<1> QED  BY <1>2, <1>3

\* The cluster of an entry is in a chain, or the fixed root.
LEMMA AtTaken ==
  ASSUME NEW v \in Volumes, NEW d \in Homes, NEW i \in 1 .. Size(v, d)
  PROVE  At(v, d, i)[1] = Root \/ At(v, d, i)[1] \in Taken(v)
<1> DEFINE q == (i - 1) \div PerCluster
<1>1. q + 1 \in 1 .. Len(DirChain(v, d)) /\ At(v, d, i)[1] = DirChain(v, d)[q + 1]
  BY AtFacts
<1> HIDE DEF q
<1>2. CASE Start(d) = Root
  BY <1>1, <1>2, ChainFacts
<1>3. CASE Start(d) # Root
  <2>1. Start(d) \in Clusters /\ DirChain(v, d) = v.fat[Start(d)] /\ v.fat[Start(d)] \in Seq(Clusters)
    BY <1>3, ChainFacts, RootFacts DEF Homes, Volumes
  <2>2. q + 1 \in DOMAIN v.fat[Start(d)]
    BY <1>1, <2>1
  <2>3. v.fat[Start(d)][q + 1] \in Range(v.fat[Start(d)])
    BY <2>2 DEF Range
  <2> QED  BY <1>1, <2>1, <2>3 DEF Taken
<1> QED  BY <1>2, <1>3

\* An entry is written where none before it is unused, or it is not the name of anything.
LEMMA PutShape ==
  ASSUME NEW v \in Shapes, NEW d \in Homes, NEW i \in 1 .. Size(v, d), NEW e \in SlotSet,
         e.k # "free", IsNamed(e) => \A j \in 1 .. i - 1 : Entries(v, d)[j].k # "free"
  PROVE  PutEntry(v, d, i, e) \in Shapes
<1> DEFINE w == PutEntry(v, d, i, e)
<1>0. v \in Volumes /\ Apart(v) /\ Headed(v) /\ Filled(v) /\ Bare(v)
  BY DEF Shapes
<1>1. /\ w \in Volumes /\ w.fat = v.fat
      /\ \A x \in Homes, p \in 1 .. PerCluster :
           w.slots[x][p] = IF x = At(v, d, i)[1] /\ p = At(v, d, i)[2] THEN e ELSE v.slots[x][p]
  BY <1>0, PutSlots
<1>2. \A f \in Homes : /\ Size(w, f) = Size(v, f)
                       /\ \A j \in 1 .. Size(v, f) : Entries(w, f)[j] =
                            IF Start(f) = Start(d) /\ j = i THEN e ELSE Entries(v, f)[j]
  BY <1>0, PutFacts
<1> HIDE DEF w
<1>3. Apart(w) /\ Headed(w) /\ Taken(w) = Taken(v)
  BY <1>0, <1>1, SameTable
<1>4. Filled(w)
  <2> SUFFICES ASSUME NEW f \in Homes, NEW j \in 1 .. Size(v, f), NEW k \in 1 .. Size(v, f),
                      j < k, Entries(w, f)[j].k = "free", IsNamed(Entries(w, f)[k])
               PROVE  FALSE
    BY <1>2 DEF Filled
  <2>1. Entries(w, f)[j] = Entries(v, f)[j]
    BY <1>2
  <2>2. CASE Start(f) = Start(d) /\ k = i
    <3>1. Entries(v, f) = Entries(v, d)
      BY <1>0, <2>2, SameStart
    <3>2. Entries(w, f)[k] = e /\ j \in 1 .. i - 1
      BY <1>2, <2>2
    <3> QED  BY <2>1, <3>1, <3>2
  <2>3. CASE ~(Start(f) = Start(d) /\ k = i)
    BY <1>0, <1>2, <2>1, <2>3 DEF Filled
  <2> QED  BY <2>2, <2>3
<1>5. Bare(w)
  <2> SUFFICES ASSUME NEW c \in Clusters \ Taken(v), NEW p \in 1 .. PerCluster
               PROVE  ~IsNamed(w.slots[c][p])
    BY <1>3 DEF Bare
  <2>1. c # At(v, d, i)[1]
    BY <1>0, AtTaken, RootFacts
  <2> QED  BY <1>0, <1>1, <2>1 DEF Bare, Homes
<1>6. w \in Shapes
  BY <1>1, <1>3, <1>4, <1>5 DEF Shapes
<1> QED  BY <1>6 DEF w

\* Entries that are not the name of anything, and not unused, can be written anywhere.
LEMMA Bland ==
  ASSUME NEW v \in Shapes, NEW w \in Volumes, w.fat = v.fat,
         \A x \in Homes, p \in 1 .. PerCluster :
           w.slots[x][p] = v.slots[x][p] \/ (w.slots[x][p].k # "free" /\ ~IsNamed(w.slots[x][p]))
  PROVE  w \in Shapes
<1>0. v \in Volumes /\ Apart(v) /\ Headed(v) /\ Filled(v) /\ Bare(v)
  BY DEF Shapes
<1>1. Apart(w) /\ Headed(w) /\ Taken(w) = Taken(v)
  BY <1>0, SameTable
<1>2. ASSUME NEW d \in Homes, NEW i \in 1 .. Size(v, d)
      PROVE  Entries(w, d)[i] = Entries(v, d)[i]
               \/ (Entries(w, d)[i].k # "free" /\ ~IsNamed(Entries(w, d)[i]))
  <2>1. Size(w, d) = Size(v, d) /\ At(w, d, i) = At(v, d, i)
    BY <1>0, SameTable
  <2> DEFINE x == At(v, d, i)[1]
             p == At(v, d, i)[2]
  <2>2. Entries(v, d)[i] = v.slots[x][p] /\ x \in Homes /\ p \in 1 .. PerCluster
    BY <1>0, AtFacts
  <2>3. Entries(w, d)[i] = w.slots[x][p]
    BY <2>1, AtFacts
  <2> HIDE DEF x, p
  <2> QED  BY <2>2, <2>3
<1>3. Filled(w)
  BY <1>0, <1>2, SameTable DEF Filled
<1>4. Bare(w)
  BY <1>0, <1>1 DEF Bare, Homes
<1> QED  BY <1>1, <1>3, <1>4 DEF Shapes

\* A cluster in no chain.
LEMMA Fresh ==
  ASSUME NEW v \in Volumes, Headed(v), NEW c \in Clusters \ Taken(v)
  PROVE  /\ v.fat[c] = <<>>
         /\ \A e \in Clusters : \A i \in 1 .. Len(v.fat[e]) : v.fat[e][i] # c
         /\ ~rootFixed => c # RootStart
<1>1. ASSUME NEW e \in Clusters, NEW i \in 1 .. Len(v.fat[e]), v.fat[e][i] = c
      PROVE  FALSE
  <2>1. v.fat[e] \in Seq(Clusters)
    BY DEF Volumes
  <2>2. c \in Range(v.fat[e])
    BY <1>1, <2>1 DEF Range
  <2> QED  BY <2>2 DEF Taken
<1>2. ASSUME NEW e \in Clusters, v.fat[e] # <<>>
      PROVE  e # c
  <2>1. v.fat[e] \in Seq(Clusters)
    BY DEF Volumes
  <2>2. 1 \in 1 .. Len(v.fat[e])
    BY <1>2, <2>1
  <2> QED  BY <1>1, <1>2, <2>2 DEF Headed
<1>3. v.fat[c] = <<>>
  BY <1>2
<1>4. ~rootFixed => c # RootStart
  BY <1>2, RootFacts DEF Headed
<1> QED  BY <1>1, <1>3, <1>4

\* Entries that are in the same place of the same cluster.
LEMMA SameEntry ==
  ASSUME NEW v \in Volumes, NEW w \in Volumes, NEW d \in Homes, NEW f \in Homes,
         NEW i \in 1 .. Size(v, d), i \in 1 .. Size(w, f),
         At(w, f, i)[1] = At(v, d, i)[1],
         w.slots[At(v, d, i)[1]] = v.slots[At(v, d, i)[1]]
  PROVE  Entries(w, f)[i] = Entries(v, d)[i]
<1>1. At(w, f, i)[2] = At(v, d, i)[2]
  BY DEF At
<1> QED  BY <1>1, AtFacts

\* The members of the sets in which the clusters of the chains are.
LEMMA TakenFacts ==
  ASSUME NEW v \in Volumes
  PROVE  /\ Taken(v) \subseteq Clusters
         /\ \A c \in Clusters : c \in Taken(v) <=>
              \E e \in Clusters : \E i \in 1 .. Len(v.fat[e]) : v.fat[e][i] = c
         /\ \A e \in Clusters : \A i \in 1 .. Len(v.fat[e]) : v.fat[e][i] \in Taken(v)
<1>1. ASSUME NEW e \in Clusters
      PROVE  /\ \A c : c \in Range(v.fat[e]) <=> \E i \in 1 .. Len(v.fat[e]) : v.fat[e][i] = c
             /\ Range(v.fat[e]) \subseteq Clusters
  <2>1. v.fat[e] \in Seq(Clusters)
    BY DEF Volumes
  <2> QED  BY <2>1 DEF Range
<1>2. \A c : c \in Taken(v) <=> \E e \in Clusters : c \in Range(v.fat[e])
  BY DEF Taken
<1>3. \A c : c \in Taken(v) <=> \E e \in Clusters : \E i \in 1 .. Len(v.fat[e]) : v.fat[e][i] = c
  BY <1>1, <1>2, Zenon
<1>4. Taken(v) \subseteq Clusters
  BY <1>1, <1>2
<1> QED  BY <1>3, <1>4

\* A chain becomes longer, or starts, by a cluster that was in no chain.
LEMMA ExtendShape ==
  ASSUME NEW v \in Shapes, NEW c \in Clusters \ Taken(v), NEW s \in Clusters,
         v.fat[s] = <<>> => s = c,
         NEW w \in Volumes, w.fat[s] = Append(v.fat[s], c),
         \A e \in Clusters \ {s} : w.fat[e] = v.fat[e],
         \A x \in Homes \ {c} : w.slots[x] = v.slots[x],
         \A p \in 1 .. PerCluster : ~IsNamed(w.slots[c][p])
  PROVE  /\ w \in Shapes /\ Taken(w) = Taken(v) \cup {c}
         /\ \A f \in Homes : \A j \in 1 .. Size(v, f) :
              j \in 1 .. Size(w, f) /\ Entries(w, f)[j] = Entries(v, f)[j]
         /\ \A f \in Homes : Start(f) # s => Size(w, f) = Size(v, f)
         /\ \A f \in Homes : Start(f) = s =>
              /\ Size(w, f) = Size(v, f) + PerCluster
              /\ \A j \in 1 .. Size(w, f) : j > Size(v, f) => Entries(w, f)[j] = w.slots[c][At(w, f, j)[2]]
<1>0. v \in Volumes /\ Apart(v) /\ Headed(v) /\ Filled(v) /\ Bare(v)
  BY DEF Shapes
<1>1. /\ v.fat[c] = <<>>
      /\ \A e \in Clusters : \A i \in 1 .. Len(v.fat[e]) : v.fat[e][i] # c
      /\ ~rootFixed => c # RootStart
  BY <1>0, Fresh
<1>2. /\ v.fat[s] \in Seq(Clusters) /\ w.fat[s] = Append(v.fat[s], c)
      /\ \A e \in Clusters \ {s} : w.fat[e] = v.fat[e]
      /\ \A e \in Clusters : v.fat[e] \in Seq(Clusters)
  BY <1>0 DEF Volumes
<1>3. /\ Len(v.fat[s]) \in Nat /\ Len(w.fat[s]) = Len(v.fat[s]) + 1
      /\ \A i \in 1 .. Len(v.fat[s]) : w.fat[s][i] = v.fat[s][i]
      /\ w.fat[s][Len(v.fat[s]) + 1] = c
  BY <1>2, AppendProperties
<1>4. \A e \in Clusters :
        /\ \A i \in 1 .. Len(v.fat[e]) : i \in 1 .. Len(w.fat[e]) /\ w.fat[e][i] = v.fat[e][i]
        /\ \A i \in 1 .. Len(w.fat[e]) :
           \/ i \in 1 .. Len(v.fat[e]) /\ w.fat[e][i] = v.fat[e][i]
           \/ e = s /\ i = Len(v.fat[s]) + 1 /\ w.fat[e][i] = c
  <2> TAKE e \in Clusters
  <2>1. CASE e = s
    <3>1. \A i \in 1 .. Len(w.fat[s]) : i \in 1 .. Len(v.fat[s]) \/ i = Len(v.fat[s]) + 1
      BY <1>3
    <3>2. \A i \in 1 .. Len(v.fat[s]) : i \in 1 .. Len(w.fat[s])
      BY <1>3
    <3> QED  BY <1>3, <2>1, <3>1, <3>2
  <2>2. CASE e # s
    <3>1. w.fat[e] = v.fat[e]
      BY <1>2, <2>2
    <3> QED  BY <2>2, <3>1
  <2> QED  BY <2>1, <2>2
<1>5. Taken(w) = Taken(v) \cup {c}
  <2>1. ASSUME NEW x \in Taken(w) PROVE x \in Taken(v) \cup {c}
    <3>0. PICK e \in Clusters : \E i \in 1 .. Len(w.fat[e]) : w.fat[e][i] = x
      BY TakenFacts
    <3>1. PICK i \in 1 .. Len(w.fat[e]) : w.fat[e][i] = x
      BY <3>0
    <3>2. i \in 1 .. Len(v.fat[e]) => v.fat[e][i] \in Taken(v)
      BY <1>0, TakenFacts
    <3> QED  BY <1>4, <3>1, <3>2
  <2>2. ASSUME NEW x \in Taken(v) PROVE x \in Taken(w)
    <3>0. PICK e \in Clusters : \E i \in 1 .. Len(v.fat[e]) : v.fat[e][i] = x
      BY <1>0, TakenFacts
    <3>1. PICK i \in 1 .. Len(v.fat[e]) : v.fat[e][i] = x
      BY <3>0
    <3>2. i \in 1 .. Len(w.fat[e]) /\ w.fat[e][i] = x
      BY <1>4, <3>1
    <3> QED  BY <3>2, TakenFacts
  <2>3. c \in Taken(w)
    <3>1. Len(v.fat[s]) + 1 \in 1 .. Len(w.fat[s])
      BY <1>3
    <3> QED  BY <1>3, <3>1, TakenFacts
  <2> QED  BY <2>1, <2>2, <2>3
<1>6. Apart(w)
  <2> SUFFICES ASSUME NEW a \in Clusters, NEW e \in Clusters, NEW i \in 1 .. Len(w.fat[a]),
                      NEW j \in 1 .. Len(w.fat[e]), w.fat[a][i] = w.fat[e][j]
               PROVE  a = e /\ i = j
    BY DEF Apart
  <2>1. \/ i \in 1 .. Len(v.fat[a]) /\ w.fat[a][i] = v.fat[a][i] /\ w.fat[a][i] # c
        \/ a = s /\ i = Len(v.fat[s]) + 1 /\ w.fat[a][i] = c
    BY <1>1, <1>4
  <2>2. \/ j \in 1 .. Len(v.fat[e]) /\ w.fat[e][j] = v.fat[e][j] /\ w.fat[e][j] # c
        \/ e = s /\ j = Len(v.fat[s]) + 1 /\ w.fat[e][j] = c
    BY <1>1, <1>4
  <2> QED  BY <1>0, <2>1, <2>2 DEF Apart
<1>7. Headed(w)
  <2>1. ASSUME NEW e \in Clusters, w.fat[e] # <<>> PROVE w.fat[e][1] = e
    <3>1. CASE v.fat[e] = <<>>
      <4>1. e = s /\ e = c
        BY <1>2, <2>1, <3>1
      <4>2. Len(v.fat[s]) = 0
        BY <3>1, <4>1
      <4> QED  BY <1>3, <4>1, <4>2
    <3>2. CASE v.fat[e] # <<>>
      <4>1. 1 \in 1 .. Len(v.fat[e])
        BY <1>2, <3>2
      <4> QED  BY <1>0, <1>4, <3>2, <4>1 DEF Headed
    <3> QED  BY <3>1, <3>2
  <2>2. ASSUME ~rootFixed PROVE w.fat[RootStart] # <<>>
    <3>1. v.fat[RootStart] # <<>>
      BY <1>0, <2>2 DEF Headed
    <3>2. 1 \in 1 .. Len(v.fat[RootStart])
      BY <1>2, <3>1, RootFacts
    <3>3. 1 \in 1 .. Len(w.fat[RootStart])
      BY <1>4, <3>2, RootFacts
    <3> QED  BY <3>3
  <2> QED  BY <2>1, <2>2 DEF Headed
<1>8. \A f \in Homes : Start(f) # s => DirChain(w, f) = DirChain(v, f) /\ Size(w, f) = Size(v, f)
  <2> TAKE f \in Homes
  <2> SUFFICES ASSUME Start(f) # s PROVE DirChain(w, f) = DirChain(v, f) /\ Size(w, f) = Size(v, f)
    OBVIOUS
  <2>1. Start(f) # Root => w.fat[Start(f)] = v.fat[Start(f)]
    BY <1>2, RootFacts DEF Homes
  <2>2. /\ DirChain(v, f) = IF Start(f) = Root THEN <<Root>> ELSE v.fat[Start(f)]
        /\ DirChain(w, f) = IF Start(f) = Root THEN <<Root>> ELSE w.fat[Start(f)]
    BY <1>0, ChainFacts
  <2>3. DirChain(w, f) = DirChain(v, f)
    BY <2>1, <2>2
  <2> QED  BY <2>3 DEF Size
<1>9. \A f \in Homes : Start(f) = s =>
        /\ DirChain(v, f) = v.fat[s] /\ DirChain(w, f) = w.fat[s]
        /\ Size(w, f) = Size(v, f) + PerCluster
  <2> TAKE f \in Homes
  <2> SUFFICES ASSUME Start(f) = s
               PROVE  /\ DirChain(v, f) = v.fat[s] /\ DirChain(w, f) = w.fat[s]
                      /\ Size(w, f) = Size(v, f) + PerCluster
    OBVIOUS
  <2>1. DirChain(v, f) = v.fat[s] /\ DirChain(w, f) = w.fat[s]
    BY <1>0, ChainFacts, RootFacts
  <2>2. PerCluster * (Len(v.fat[s]) + 1) = PerCluster * Len(v.fat[s]) + PerCluster
    <3>1. \A n \in Nat : PerCluster * (n + 1) = PerCluster * n + PerCluster
      BY EntriesAssumption
    <3> QED  BY <1>3, <3>1, Zenon
  <2> QED  BY <1>3, <2>1, <2>2 DEF Size
<1>10. ASSUME NEW f \in Homes, NEW j \in 1 .. Size(v, f)
       PROVE  j \in 1 .. Size(w, f) /\ Entries(w, f)[j] = Entries(v, f)[j] /\ At(v, f, j)[1] # c
  <2> DEFINE q == (j - 1) \div PerCluster
  <2>1. /\ q + 1 \in 1 .. Len(DirChain(v, f))
        /\ At(v, f, j)[1] = DirChain(v, f)[q + 1] /\ At(w, f, j)[1] = DirChain(w, f)[q + 1]
    BY <1>0, AtFacts DEF At
  <2>2. j \in 1 .. Size(w, f)
    <3>1. Size(v, f) \in Nat /\ Size(w, f) \in Nat /\ PerCluster \in Nat
      BY <1>0, ChainFacts, EntriesAssumption
    <3> QED  BY <1>8, <1>9, <3>1
  <2> HIDE DEF q
  <2>3. DirChain(w, f)[q + 1] = DirChain(v, f)[q + 1]
    BY <1>3, <1>8, <1>9, <2>1
  <2>4. At(v, f, j)[1] # c
    <3>1. CASE Start(f) = Root
      <4>1. DirChain(v, f) = <<Root>>
        BY <1>0, <3>1, ChainFacts
      <4>2. q + 1 \in 1 .. 1
        BY <2>1, <4>1
      <4> QED  BY <2>1, <4>1, <4>2, RootFacts
    <3>2. CASE Start(f) # Root
      <4>1. Start(f) \in Clusters /\ DirChain(v, f) = v.fat[Start(f)]
        BY <1>0, <3>2, ChainFacts, RootFacts DEF Homes
      <4> QED  BY <1>1, <2>1, <4>1
    <3> QED  BY <3>1, <3>2
  <2>5. At(v, f, j)[1] \in Homes
    BY <1>0, AtFacts
  <2> QED  BY <1>0, <2>1, <2>2, <2>3, <2>4, <2>5, SameEntry
<1>11. ASSUME NEW f \in Homes, Start(f) = s, NEW j \in 1 .. Size(w, f), j > Size(v, f)
       PROVE  Entries(w, f)[j] = w.slots[c][At(w, f, j)[2]] /\ ~IsNamed(Entries(w, f)[j])
  <2> DEFINE q == (j - 1) \div PerCluster
  <2>1. DirChain(v, f) = v.fat[s] /\ DirChain(w, f) = w.fat[s]
    BY <1>9, <1>11
  <2>2. j \in 1 .. PerCluster * Len(w.fat[s]) /\ j > PerCluster * Len(v.fat[s])
    BY <1>11, <2>1 DEF Size
  <2>3. q + 1 \in 1 .. Len(w.fat[s]) /\ q + 1 > Len(v.fat[s])
    BY <1>3, <2>2, Offsets
  <2>4. /\ At(w, f, j)[1] = w.fat[s][q + 1] /\ At(w, f, j)[2] \in 1 .. PerCluster
        /\ Entries(w, f)[j] = w.slots[At(w, f, j)[1]][At(w, f, j)[2]]
    BY <2>1, AtFacts
  <2> HIDE DEF q
  <2>5. q + 1 = Len(v.fat[s]) + 1
    BY <1>3, <2>3
  <2> QED  BY <1>3, <2>4, <2>5
<1>12. Filled(w)
  <2> SUFFICES ASSUME NEW f \in Homes, NEW j \in 1 .. Size(w, f), NEW k \in 1 .. Size(w, f),
                      j < k, Entries(w, f)[j].k = "free", IsNamed(Entries(w, f)[k])
               PROVE  FALSE
    BY DEF Filled
  <2>1. k \in 1 .. Size(v, f)
    <3>1. Start(f) # s => k \in 1 .. Size(v, f)
      BY <1>8
    <3>2. Size(v, f) \in Nat /\ k \in Nat /\ k >= 1
      BY <1>0, ChainFacts
    <3>3. Start(f) = s => ~ (k > Size(v, f))
      BY <1>11
    <3> QED  BY <3>1, <3>2, <3>3
  <2>2. j \in 1 .. Size(v, f)
    <3>1. Size(v, f) \in Nat /\ Size(w, f) \in Nat
      BY <1>0, ChainFacts
    <3> QED  BY <2>1, <3>1
  <2> QED  BY <1>0, <1>10, <2>1, <2>2 DEF Filled
<1>13. Bare(w)
  BY <1>0, <1>5 DEF Bare, Homes
<1>14. w \in Shapes
  BY <1>6, <1>7, <1>12, <1>13 DEF Shapes
<1> QED  BY <1>5, <1>8, <1>9, <1>10, <1>11, <1>14

\* Entries that the operations write.
LEMMA SlotFacts ==
  /\ Unused \in SlotSet /\ Unused.k = "free" /\ ~IsNamed(Unused)
  /\ Deleted \in SlotSet /\ Deleted.k = "del" /\ ~IsNamed(Deleted)
  /\ \A n \in Long, a \in Alias : LET e == Slot("lfn", n, a, 0) IN
       e \in SlotSet /\ e.k = "lfn" /\ e.name = n /\ e.sum = a /\ e.first = 0
  /\ \A k \in {"file", "dir"}, a \in Short \cup Alias, c \in Homes : LET e == Slot(k, a, NoName, c) IN
       e \in SlotSet /\ e.k = k /\ e.name = a /\ e.first = c /\ e.k # "free"
  /\ \A k \in {"dot", "dotdot"}, c \in Homes : LET e == Slot(k, NoName, NoName, c) IN
       e \in SlotSet /\ e.k # "free" /\ ~IsNamed(e)
  /\ Zeroed \in [1 .. PerCluster -> SlotSet] /\ \A i \in 1 .. PerCluster : Zeroed[i] = Unused
  /\ Junk \in [1 .. PerCluster -> SlotSet] /\ \A i \in 1 .. PerCluster : ~IsNamed(Junk[i])
<1> USE DEF Slot, SlotSet, Right, IsNamed, IsObject, Texts, Kinds, Homes, Root
<1>1. Unused \in SlotSet /\ Unused.k = "free" /\ ~IsNamed(Unused)
  BY DEF Unused
<1>2. Deleted \in SlotSet /\ Deleted.k = "del" /\ ~IsNamed(Deleted)
  BY DEF Deleted
<1>3. \A n \in Long, a \in Alias : LET e == Slot("lfn", n, a, 0) IN
       e \in SlotSet /\ e.k = "lfn" /\ e.name = n /\ e.sum = a /\ e.first = 0
  OBVIOUS
<1>4. \A k \in {"file", "dir"}, a \in Short \cup Alias, c \in Homes : LET e == Slot(k, a, NoName, c) IN
       e \in SlotSet /\ e.k = k /\ e.name = a /\ e.first = c /\ e.k # "free"
  OBVIOUS
<1>5. \A k \in {"dot", "dotdot"}, c \in Homes : LET e == Slot(k, NoName, NoName, c) IN
       e \in SlotSet /\ e.k # "free" /\ ~IsNamed(e)
  OBVIOUS
<1>6. Zeroed \in [1 .. PerCluster -> SlotSet] /\ \A i \in 1 .. PerCluster : Zeroed[i] = Unused
  BY <1>1 DEF Zeroed
<1>7. Slot("junk", NoName, NoName, 0) \in SlotSet /\ ~IsNamed(Slot("junk", NoName, NoName, 0))
  OBVIOUS
<1>8. Junk \in [1 .. PerCluster -> SlotSet] /\ \A i \in 1 .. PerCluster : ~IsNamed(Junk[i])
  BY <1>7 DEF Junk
<1> QED  BY <1>1, <1>2, <1>3, <1>4, <1>5, <1>6, <1>8

\* A chain that is freed.
LEMMA FreeShape ==
  ASSUME NEW v \in Shapes, NEW c \in Clusters, ~rootFixed => c # RootStart
  PROVE  LET w == FreeChain(v, c) IN
         /\ w \in Shapes
         /\ w.fat[c] = <<>> /\ \A e \in Clusters \ {c} : w.fat[e] = v.fat[e]
         /\ Taken(w) = Taken(v) \ Range(v.fat[c])
         /\ \A x \in Homes \ Range(v.fat[c]) : w.slots[x] = v.slots[x]
         /\ \A f \in Homes : Start(f) # c =>
              /\ DirChain(w, f) = DirChain(v, f) /\ Size(w, f) = Size(v, f)
              /\ Entries(w, f) = Entries(v, f)
         /\ \A f \in Homes : Start(f) = c => Size(w, f) = 0
<1> DEFINE w == FreeChain(v, c)
<1>0. v \in Volumes /\ Apart(v) /\ Headed(v) /\ Filled(v) /\ Bare(v)
  BY DEF Shapes
<1>1. /\ w.fat = [v.fat EXCEPT ![c] = <<>>]
      /\ w.slots = [x \in Homes |-> IF x \in Range(v.fat[c]) THEN Zeroed ELSE v.slots[x]]
      /\ w \in Volumes
  <2>1. v.fat \in [Clusters -> Seq(Clusters)] /\ v.slots \in [Homes -> [1 .. PerCluster -> SlotSet]]
    BY <1>0 DEF Volumes
  <2>2. /\ w.fat = [v.fat EXCEPT ![c] = <<>>]
        /\ w.slots = [x \in Homes |-> IF x \in Range(v.fat[c]) THEN Zeroed ELSE v.slots[x]]
    BY <2>1 DEF FreeChain
  <2>3. w.slots \in [Homes -> [1 .. PerCluster -> SlotSet]]
    BY <2>1, <2>2, SlotFacts
  <2>4. w.fat \in [Clusters -> Seq(Clusters)]
    BY <2>1, <2>2
  <2>5. w = [fat |-> w.fat, slots |-> w.slots]
    BY DEF FreeChain
  <2> HIDE DEF w
  <2> QED  BY <2>2, <2>3, <2>4, <2>5 DEF Volumes
<1> HIDE DEF w
<1>2. /\ w.fat[c] = <<>> /\ \A e \in Clusters \ {c} : w.fat[e] = v.fat[e]
      /\ \A x \in Homes \ Range(v.fat[c]) : w.slots[x] = v.slots[x]
      /\ \A x \in Homes \cap Range(v.fat[c]) : w.slots[x] = Zeroed
      /\ \A e \in Clusters : v.fat[e] \in Seq(Clusters)
      /\ \A e \in Clusters : \A i \in 1 .. Len(w.fat[e]) :
           e # c /\ i \in 1 .. Len(v.fat[e]) /\ w.fat[e][i] = v.fat[e][i]
  <2>1. /\ w.fat[c] = <<>> /\ \A e \in Clusters \ {c} : w.fat[e] = v.fat[e]
        /\ \A e \in Clusters : v.fat[e] \in Seq(Clusters)
    BY <1>0, <1>1 DEF Volumes
  <2>2. /\ \A x \in Homes \ Range(v.fat[c]) : w.slots[x] = v.slots[x]
        /\ \A x \in Homes \cap Range(v.fat[c]) : w.slots[x] = Zeroed
    BY <1>1
  <2>3. Len(w.fat[c]) = 0
    BY <2>1
  <2> QED  BY <2>1, <2>2, <2>3
<1>3. \A x : x \in Range(v.fat[c]) <=> \E i \in 1 .. Len(v.fat[c]) : v.fat[c][i] = x
  BY <1>2 DEF Range
<1>4. Taken(w) = Taken(v) \ Range(v.fat[c])
  <2>1. ASSUME NEW x \in Taken(w) PROVE x \in Taken(v) \ Range(v.fat[c])
    <3>1. PICK e \in Clusters : \E i \in 1 .. Len(w.fat[e]) : w.fat[e][i] = x
      BY <1>1, TakenFacts
    <3>2. PICK i \in 1 .. Len(v.fat[e]) : v.fat[e][i] = x /\ e # c
      BY <1>2, <3>1
    <3>3. x \in Taken(v)
      BY <1>0, <3>2, TakenFacts
    <3>4. x \notin Range(v.fat[c])
      BY <1>0, <1>3, <3>2 DEF Apart
    <3> QED  BY <3>3, <3>4
  <2>2. ASSUME NEW x \in Taken(v), x \notin Range(v.fat[c]) PROVE x \in Taken(w)
    <3>1. PICK e \in Clusters : \E i \in 1 .. Len(v.fat[e]) : v.fat[e][i] = x
      BY <1>0, TakenFacts
    <3>2. e # c
      BY <1>3, <2>2, <3>1
    <3>3. \E i \in 1 .. Len(w.fat[e]) : w.fat[e][i] = x
      BY <1>2, <3>1, <3>2
    <3>4. x \in Clusters
      BY <1>0, TakenFacts
    <3> QED  BY <1>1, <3>3, <3>4, TakenFacts
  <2> QED  BY <2>1, <2>2
<1>5. Apart(w)
  BY <1>0, <1>2 DEF Apart
<1>6. Headed(w)
  <2>1. \A e \in Clusters : w.fat[e] # <<>> => w.fat[e][1] = e
    BY <1>0, <1>2 DEF Headed
  <2>2. ~rootFixed => w.fat[RootStart] # <<>>
    BY <1>0, <1>2, RootFacts DEF Headed
  <2> QED  BY <2>1, <2>2 DEF Headed
<1>7. ASSUME NEW f \in Homes, Start(f) = c PROVE Size(w, f) = 0
  <2>1. DirChain(w, f) = <<>>
    BY <1>1, <1>2, <1>7, ChainFacts, RootFacts
  <2> QED  BY <2>1, EntriesAssumption DEF Size
<1>8. ASSUME NEW f \in Homes, Start(f) # c
      PROVE  /\ DirChain(w, f) = DirChain(v, f) /\ Size(w, f) = Size(v, f)
             /\ Entries(w, f) = Entries(v, f)
  <2>1. Start(f) # Root => w.fat[Start(f)] = v.fat[Start(f)]
    BY <1>2, <1>8, RootFacts DEF Homes
  <2>2. DirChain(w, f) = DirChain(v, f) /\ Size(w, f) = Size(v, f)
    <3>1. /\ DirChain(v, f) = IF Start(f) = Root THEN <<Root>> ELSE v.fat[Start(f)]
          /\ DirChain(w, f) = IF Start(f) = Root THEN <<Root>> ELSE w.fat[Start(f)]
      BY <1>0, <1>1, ChainFacts
    <3>2. DirChain(w, f) = DirChain(v, f)
      BY <2>1, <3>1
    <3> QED  BY <3>2 DEF Size
  <2>3. ASSUME NEW i \in 1 .. Size(v, f) PROVE Entries(w, f)[i] = Entries(v, f)[i]
    <3> DEFINE q == (i - 1) \div PerCluster
    <3>1. /\ q + 1 \in 1 .. Len(DirChain(v, f))
          /\ At(v, f, i)[1] = DirChain(v, f)[q + 1] /\ At(w, f, i)[1] = DirChain(v, f)[q + 1]
          /\ At(v, f, i)[1] \in Homes
      BY <1>0, <2>2, AtFacts DEF At
    <3> HIDE DEF q
    <3>2. At(v, f, i)[1] \notin Range(v.fat[c])
      <4>1. CASE Start(f) = Root
        <5>1. DirChain(v, f) = <<Root>>
          BY <1>0, <4>1, ChainFacts
        <5>2. q + 1 \in 1 .. 1
          BY <3>1, <5>1
        <5>3. Range(v.fat[c]) \subseteq Clusters
          BY <1>2, <1>3
        <5> QED  BY <3>1, <5>1, <5>2, <5>3, RootFacts
      <4>2. CASE Start(f) # Root
        <5>1. Start(f) \in Clusters /\ DirChain(v, f) = v.fat[Start(f)]
          BY <1>0, <4>2, ChainFacts, RootFacts DEF Homes
        <5> QED  BY <1>0, <1>3, <1>8, <3>1, <5>1 DEF Apart
      <4> QED  BY <4>1, <4>2
    <3>3. i \in 1 .. Size(w, f)
      BY <2>2
    <3> QED  BY <1>0, <1>1, <1>2, <3>1, <3>2, <3>3, SameEntry
  <2>4. Entries(w, f) = Entries(v, f)
    <3>1. DOMAIN Entries(w, f) = DOMAIN Entries(v, f) /\ DOMAIN Entries(v, f) = 1 .. Size(v, f)
      BY <1>0, <1>1, <2>2, EntriesSeq
    <3>2. Entries(v, f) = [i \in 1 .. Size(v, f) |-> Entries(v, f)[i]]
      BY DEF Entries, Size
    <3>3. Entries(w, f) = [i \in 1 .. Size(w, f) |-> Entries(w, f)[i]]
      BY DEF Entries, Size
    <3> QED  BY <2>2, <2>3, <3>2, <3>3
  <2> QED  BY <2>2, <2>4
<1>9. Filled(w)
  <2> SUFFICES ASSUME NEW f \in Homes, NEW j \in 1 .. Size(w, f), NEW k \in 1 .. Size(w, f),
                      j < k, Entries(w, f)[j].k = "free", IsNamed(Entries(w, f)[k])
               PROVE  FALSE
    BY DEF Filled
  <2>1. Start(f) # c
    BY <1>7
  <2> QED  BY <1>0, <1>8, <2>1 DEF Filled
<1>10. Bare(w)
  <2> SUFFICES ASSUME NEW x \in Clusters \ Taken(w), NEW p \in 1 .. PerCluster PROVE ~IsNamed(w.slots[x][p])
    BY DEF Bare
  <2>1. CASE x \in Range(v.fat[c])
    <3>1. w.slots[x] = Zeroed
      BY <1>2, <2>1 DEF Homes
    <3>2. Zeroed[p] = Unused /\ ~IsNamed(Unused)
      BY SlotFacts
    <3> QED  BY <3>1, <3>2
  <2>2. CASE x \notin Range(v.fat[c])
    BY <1>0, <1>2, <1>4, <2>2 DEF Bare, Homes
  <2> QED  BY <2>1, <2>2
<1>11. w \in Shapes
  BY <1>1, <1>5, <1>6, <1>9, <1>10 DEF Shapes
<1> QED  BY <1>2, <1>4, <1>7, <1>8, <1>11 DEF w

-----------------------------------------------------------------------------
(* The operations, each as a sequence of volumes in shape.                 *)

\* The search for room stops at or before the end, behind no unused entry, and what it
\* chose has no name.
LEMMA FreeIndexFacts ==
  ASSUME NEW v \in Shapes, NEW d \in Homes, NEW need \in 1 .. 2
  PROVE  LET f == FreeIndex(v, d, need) IN
         /\ f \in 1 .. Size(v, d) + 1
         /\ \A j \in 1 .. Size(v, d) : j < f => Entries(v, d)[j].k # "free"
         /\ \A j \in 1 .. Size(v, d) : f <= j /\ j <= f + need - 1 => ~IsNamed(Entries(v, d)[j])
<1> DEFINE es == Entries(v, d)
           frees == {i \in DOMAIN es : es[i].k = "free"}
           ends == {Len(es) + 1} \cup frees
           end == Min(ends)
           runs == {i \in 1 .. end : \A j \in i .. i + need - 1 : j < end => es[j].k = "del"}
<1>0. v \in Volumes /\ Filled(v)
  BY DEF Shapes
<1>1. DOMAIN es = 1 .. Size(v, d) /\ Len(es) = Size(v, d) /\ Size(v, d) \in Nat
  BY <1>0, EntriesSeq, ChainFacts
<1>2. FreeIndex(v, d, need) = Min(runs)
  BY DEF FreeIndex
<1>3. end \in ends /\ \A n \in ends : end <= n
  <2>1. ends \subseteq Nat /\ ends # {}
    BY <1>1
  <2> HIDE DEF ends
  <2> QED  BY <2>1, MinFacts
<1>4. end \in 1 .. Size(v, d) + 1
  BY <1>1, <1>3
<1>5. \A j \in 1 .. Size(v, d) : j < end => es[j].k # "free"
  <2> TAKE j \in 1 .. Size(v, d)
  <2> SUFFICES ASSUME j < end, es[j].k = "free" PROVE FALSE
    OBVIOUS
  <2>1. j \in ends
    BY <1>1
  <2> HIDE DEF end, ends, es
  <2> QED  BY <1>3, <1>4, <2>1
<1>6. end <= Size(v, d) => es[end].k = "free"
  <2> SUFFICES ASSUME end <= Size(v, d) PROVE es[end].k = "free"
    OBVIOUS
  <2>1. end \in frees
    <3> HIDE DEF end, frees, es
    <3> QED  BY <1>1, <1>3, <1>4
  <2> QED  BY <2>1
<1> HIDE DEF ends, end
<1>7. Min(runs) \in runs
  <2>1. end \in runs
    BY <1>4
  <2>2. runs \subseteq Nat
    BY <1>4
  <2> HIDE DEF runs
  <2> QED  BY <2>1, <2>2, MinFacts
<1> DEFINE f == Min(runs)
<1>8. f \in 1 .. end /\ \A j \in f .. f + need - 1 : j < end => es[j].k = "del"
  <2> HIDE DEF es
  <2> QED  BY <1>7
<1> HIDE DEF f, runs
<1>9. ASSUME NEW j \in 1 .. Size(v, d), f <= j, j <= f + need - 1 PROVE ~IsNamed(es[j])
  <2>1. j < end => es[j].k = "del"
    BY <1>8, <1>9
  <2>2. j = end => es[j].k = "free"
    BY <1>4, <1>6
  <2>3. j > end => ~IsNamed(es[j])
    <3> SUFFICES ASSUME j > end PROVE ~IsNamed(es[j])
      OBVIOUS
    <3>1. end \in 1 .. Size(v, d) /\ end < j
      BY <1>1, <1>4
    <3>2. es[end].k = "free"
      BY <1>6, <3>1
    <3> QED  BY <1>0, <3>1, <3>2 DEF Filled
  <2> QED  BY <1>4, <2>1, <2>2, <2>3 DEF IsNamed
<1>10. f \in 1 .. Size(v, d) + 1 /\ \A j \in 1 .. Size(v, d) : j < f => es[j].k # "free"
  BY <1>1, <1>4, <1>5, <1>8
<1> QED  BY <1>2, <1>9, <1>10 DEF f

\* The chain that starts at s got the cluster c, which is zeroed.
Extended(v, w, s, c) ==
  /\ c \in Clusters \ Taken(v) /\ s \in Clusters /\ (v.fat[s] = <<>> => s = c)
  /\ w.fat[s] = Append(v.fat[s], c) /\ \A e \in Clusters \ {s} : w.fat[e] = v.fat[e]
  /\ w.slots[c] = Zeroed /\ \A x \in Homes \ {c} : w.slots[x] = v.slots[x]

\* A chain that got a zeroed cluster.
LEMMA ExtendedShape ==
  ASSUME NEW v \in Shapes, NEW w \in Volumes, NEW s, NEW c, Extended(v, w, s, c)
  PROVE  /\ w \in Shapes /\ Taken(w) = Taken(v) \cup {c}
         /\ \A f \in Homes : \A j \in 1 .. Size(v, f) :
              j \in 1 .. Size(w, f) /\ Entries(w, f)[j] = Entries(v, f)[j]
         /\ \A f \in Homes : Start(f) # s => Size(w, f) = Size(v, f)
         /\ \A f \in Homes : Start(f) = s =>
              /\ Size(w, f) = Size(v, f) + PerCluster
              /\ \A j \in 1 .. Size(w, f) : j > Size(v, f) => Entries(w, f)[j] = Unused
<1>0. v \in Volumes
  BY DEF Shapes
<1>1. /\ c \in Clusters \ Taken(v) /\ s \in Clusters /\ (v.fat[s] = <<>> => s = c)
      /\ w.fat[s] = Append(v.fat[s], c) /\ \A e \in Clusters \ {s} : w.fat[e] = v.fat[e]
      /\ w.slots[c] = Zeroed /\ \A x \in Homes \ {c} : w.slots[x] = v.slots[x]
  BY DEF Extended
<1>2. \A p \in 1 .. PerCluster : w.slots[c][p] = Unused /\ ~IsNamed(w.slots[c][p])
  <2>1. \A p \in 1 .. PerCluster : Zeroed[p] = Unused /\ ~IsNamed(Unused)
    BY SlotFacts
  <2> QED  BY <1>1, <2>1
<1>3. /\ w \in Shapes /\ Taken(w) = Taken(v) \cup {c}
      /\ \A f \in Homes : \A j \in 1 .. Size(v, f) :
           j \in 1 .. Size(w, f) /\ Entries(w, f)[j] = Entries(v, f)[j]
      /\ \A f \in Homes : Start(f) # s => Size(w, f) = Size(v, f)
      /\ \A f \in Homes : Start(f) = s =>
           /\ Size(w, f) = Size(v, f) + PerCluster
           /\ \A j \in 1 .. Size(w, f) : j > Size(v, f) => Entries(w, f)[j] = w.slots[c][At(w, f, j)[2]]
  BY <1>1, <1>2, ExtendShape
<1>4. ASSUME NEW f \in Homes, Start(f) = s, NEW j \in 1 .. Size(w, f), j > Size(v, f)
      PROVE  Entries(w, f)[j] = Unused
  BY <1>2, <1>3, <1>4, AtFacts
<1> QED  BY <1>3, <1>4

\* The cluster that is allocated is in no chain.
LEMMA FirstFreeFacts ==
  ASSUME NEW v \in Volumes
  PROVE  FirstFree(v) = 0 \/ FirstFree(v) \in Clusters \ Taken(v)
<1>1. Clusters \ Taken(v) \subseteq Nat
  BY ClustersAssumption
<1>2. Clusters \ Taken(v) # {} => Min(Clusters \ Taken(v)) \in Clusters \ Taken(v)
  BY <1>1, MinFacts
<1> QED  BY <1>2 DEF FirstFree

\* d has a chain, or is the fixed root.
Live(v, d) == Start(d) # Root => v.fat[Start(d)] # <<>>

\* A directory that grows.
LEMMA AddDirClusterShape ==
  ASSUME NEW v \in Shapes, NEW d \in Homes, Start(d) # Root, Live(v, d),
         NEW c \in Clusters \ Taken(v)
  PROVE  /\ AddDirCluster(v, d, c) \in Seq(Shapes) /\ Len(AddDirCluster(v, d, c)) = 3
         /\ AddDirCluster(v, d, c)[3] \in Volumes
         /\ Extended(v, AddDirCluster(v, d, c)[3], Start(d), c)
<1> DEFINE s == Start(d)
           a == SetChain(v, c, <<c>>)
           b == SetChain(v, s, Append(v.fat[s], c))
           l == SetCluster(b, c, Junk)
           z == SetCluster(l, c, Zeroed)
<1>0. v \in Volumes /\ Headed(v)
  BY DEF Shapes
<1>2. s \in Clusters /\ s = DirStart(d) /\ v.fat[s] # <<>> /\ v.fat[c] = <<>>
  BY <1>0, Fresh, RootFacts DEF Live, Homes, Start, DirStart
<1>1. AddDirCluster(v, d, c) = <<a, l, z>>
  BY <1>2 DEF AddDirCluster
<1>3. v.fat[s] \in Seq(Clusters) /\ Append(v.fat[s], c) \in Seq(Clusters) /\ <<c>> \in Seq(Clusters)
  <2>1. v.fat[s] \in Seq(Clusters)
    BY <1>0, <1>2 DEF Volumes
  <2> QED  BY <2>1, AppendProperties
<1>4. /\ Junk \in [1 .. PerCluster -> SlotSet] /\ Zeroed \in [1 .. PerCluster -> SlotSet]
      /\ \A p \in 1 .. PerCluster : ~IsNamed(Junk[p])
      /\ c \in Homes
  BY SlotFacts DEF Homes
<1>5. /\ a \in Volumes /\ a.fat[c] = <<c>> /\ \A e \in Clusters \ {c} : a.fat[e] = v.fat[e]
      /\ a.slots = v.slots
  BY <1>0, <1>3, ChainSet
<1>6. /\ l \in Volumes
      /\ l.fat[s] = Append(v.fat[s], c) /\ \A e \in Clusters \ {s} : l.fat[e] = v.fat[e]
      /\ l.slots[c] = Junk /\ \A x \in Homes \ {c} : l.slots[x] = v.slots[x]
  <2> HIDE DEF s
  <2>1. /\ b \in Volumes /\ b.slots = v.slots
        /\ b.fat[s] = Append(v.fat[s], c) /\ \A e \in Clusters \ {s} : b.fat[e] = v.fat[e]
    BY <1>0, <1>2, <1>3, ChainSet
  <2> HIDE DEF b
  <2> QED  BY <1>4, <2>1, ClusterSet
<1> HIDE DEF a, l, s
<1>7. /\ z \in Volumes /\ z.fat = l.fat
      /\ z.slots[c] = Zeroed /\ \A x \in Homes \ {c} : z.slots[x] = l.slots[x]
  BY <1>4, <1>6, ClusterSet
<1> HIDE DEF z
<1>8. Extended(v, z, s, c)
  BY <1>2, <1>6, <1>7 DEF Extended
<1>9. z \in Shapes
  BY <1>7, <1>8, ExtendedShape
<1>10. a \in Shapes
  <2>1. a.fat[c] = Append(v.fat[c], c)
    <3>1. Append(<<>>, c) = <<c>>
      OBVIOUS
    <3> QED  BY <1>2, <1>5, <3>1
  <2>2. \A p \in 1 .. PerCluster : ~IsNamed(a.slots[c][p])
    BY <1>5 DEF Shapes, Bare
  <2> QED  BY <1>5, <2>1, <2>2, ExtendShape
<1>11. l \in Shapes
  <2>1. \A p \in 1 .. PerCluster : ~IsNamed(l.slots[c][p])
    BY <1>4, <1>6
  <2>2. v.fat[s] = <<>> => s = c
    BY <1>2
  <2> QED  BY <1>2, <1>6, <2>1, <2>2, ExtendShape
<1>12. <<a, l, z>> \in Seq(Shapes) /\ Len(<<a, l, z>>) = 3 /\ <<a, l, z>>[3] = z
  BY <1>9, <1>10, <1>11
<1> QED  BY <1>1, <1>7, <1>8, <1>12 DEF s

\* The volumes a concatenation leads through, and its last one.
LEMMA StepFacts ==
  ASSUME NEW S, NEW s \in Seq(S), NEW t \in Seq(S)
  PROVE  /\ s \o t \in Seq(S)
         /\ t # <<>> => s \o t # <<>> /\ Last(s \o t) = Last(t)
         /\ t # <<>> => Last(t) \in S
<1>1. Len(s) \in Nat /\ Len(t) \in Nat /\ s \o t \in Seq(S) /\ Len(s \o t) = Len(s) + Len(t)
  OBVIOUS
<1>2. ASSUME t # <<>> PROVE s \o t # <<>> /\ Last(s \o t) = Last(t) /\ Last(t) \in S
  <2>1. Len(t) > 0
    BY <1>1, <1>2
  <2>2. (s \o t)[Len(s) + Len(t)] = t[Len(t)]
    <3>1. Len(s) + Len(t) \in 1 .. Len(s) + Len(t) /\ Len(s) + Len(t) > Len(s)
      BY <1>1, <2>1
    <3>2. (s \o t)[Len(s) + Len(t)] = t[Len(s) + Len(t) - Len(s)]
      BY <3>1, ConcatProperties
    <3>3. Len(s) + Len(t) - Len(s) = Len(t)
      BY <1>1
    <3> QED  BY <3>2, <3>3
  <2>3. t[Len(t)] \in S
    BY <1>1, <2>1, ElementOfSeq
  <2>4. s \o t # <<>>
    BY <1>1, <2>1
  <2> QED  BY <1>1, <2>2, <2>3, <2>4 DEF Last
<1> QED  BY <1>1, <1>2

\* One more volume.
LEMMA OneMore ==
  ASSUME NEW S, NEW s \in Seq(S), NEW x \in S
  PROVE  <<x>> \in Seq(S) /\ s \o <<x>> \in Seq(S) /\ s \o <<x>> # <<>> /\ Last(s \o <<x>>) = x
<1>1. <<x>> \in Seq(S) /\ <<x>> # <<>> /\ Last(<<x>>) = x
  BY DEF Last
<1> QED  BY <1>1, StepFacts, Zenon

\* The volume in which open makes the new entry.
Grown(v, d, n) == IF Grows(v, d, n) THEN AddDirCluster(v, d, FirstFree(v)) ELSE <<>>
Room(v, d, n) == Last(<<v>> \o Grown(v, d, n))
MayGrow(v, d, n) == Grows(v, d, n) => FirstFree(v) # 0 /\ ~(rootFixed /\ d = Root)

\* A place that open found, or made.
LEMMA RoomFacts ==
  ASSUME NEW v \in Shapes, NEW d \in Homes, Live(v, d), NEW n \in Names, MayGrow(v, d, n)
  PROVE  LET r == Room(v, d, n)
             i == NewIndex(v, d, n)
             k == i + 1 - EntriesNeeded(n) IN
         /\ r \in Shapes /\ Grown(v, d, n) \in Seq(Shapes)
         /\ r = v \/ Extended(v, r, Start(d), FirstFree(v))
         /\ i \in 1 .. Size(r, d) /\ k \in 1 .. i
         /\ \A f \in Homes : \A j \in 1 .. Size(v, f) :
              j \in 1 .. Size(r, f) /\ Entries(r, f)[j] = Entries(v, f)[j]
         /\ \A f \in Homes : \A j \in 1 .. Size(r, f) :
              j \in 1 .. Size(v, f) \/ (Start(f) = Start(d) /\ Entries(r, f)[j] = Unused)
         /\ \A j \in 1 .. k - 1 : Entries(r, d)[j].k # "free"
         /\ \A j \in k .. i : ~IsNamed(Entries(r, d)[j])
<1> DEFINE r == Room(v, d, n)
           g == Grown(v, d, n)
           i == NewIndex(v, d, n)
           need == EntriesNeeded(n)
           k == FreeIndex(v, d, need)
           c == FirstFree(v)
<1>0. v \in Volumes
  BY DEF Shapes
<1>1. need \in 1 .. 2 /\ i = k + need - 1
  BY DEF EntriesNeeded, NewIndex
<1>2. Size(v, d) \in Nat /\ PerCluster \in Nat /\ PerCluster >= 2
  BY <1>0, ChainFacts, EntriesAssumption
<1>3. /\ k \in 1 .. Size(v, d) + 1
      /\ \A j \in 1 .. Size(v, d) : j < k => Entries(v, d)[j].k # "free"
      /\ \A j \in 1 .. Size(v, d) : k <= j /\ j <= k + need - 1 => ~IsNamed(Entries(v, d)[j])
  BY <1>1, FreeIndexFacts
<1>4. Grows(v, d, n) <=> i > Size(v, d)
  BY DEF Grows, Size
<1>5. \A f \in Homes : Size(v, f) \in Nat
  BY <1>0, ChainFacts
<1> HIDE DEF need, k, i, c
<1>6. k = i + 1 - need /\ k \in 1 .. i /\ i \in Nat
  BY <1>1, <1>3, <1>2
<1>7. /\ r \in Shapes /\ g \in Seq(Shapes)
      /\ r = v \/ Extended(v, r, Start(d), c)
      /\ i \in 1 .. Size(r, d)
      /\ \A f \in Homes : \A j \in 1 .. Size(v, f) :
           j \in 1 .. Size(r, f) /\ Entries(r, f)[j] = Entries(v, f)[j]
      /\ \A f \in Homes : \A j \in 1 .. Size(r, f) :
           j \in 1 .. Size(v, f) \/ (Start(f) = Start(d) /\ Entries(r, f)[j] = Unused)
  <2>0. <<v>> \in Seq(Shapes) /\ <<v>> # <<>> /\ Last(<<v>>) = v
    BY DEF Last
  <2>1. CASE ~Grows(v, d, n)
    <3>1. g = <<>>
      BY <2>1 DEF Grown
    <3>2. <<v>> \o <<>> = <<v>>
      BY <2>0
    <3>3. r = v
      BY <2>0, <3>1, <3>2 DEF Room
    <3>4. i \in 1 .. Size(v, d)
      BY <1>2, <1>4, <1>6, <2>1
    <3>5. g \in Seq(Shapes)
      BY <3>1
    <3> HIDE DEF r, g
    <3> QED  BY <3>3, <3>4, <3>5
  <2>2. CASE Grows(v, d, n)
    <3>1. c # 0 /\ ~(rootFixed /\ d = Root) /\ g = AddDirCluster(v, d, c)
      BY <2>2 DEF MayGrow, Grown, c
    <3>2. c \in Clusters \ Taken(v)
      BY <1>0, <3>1, FirstFreeFacts DEF c
    <3>3. Start(d) # Root
      BY <3>1, RootFacts DEF Start, DirStart, Homes
    <3>4. /\ g \in Seq(Shapes) /\ Len(g) = 3 /\ g[3] \in Volumes /\ Extended(v, g[3], Start(d), c)
      BY <3>1, <3>2, <3>3, AddDirClusterShape
    <3>5. g # <<>> /\ Last(g) = g[3]
      <4> HIDE DEF g
      <4> QED  BY <3>4 DEF Last
    <3>6. r = g[3]
      <4>1. r = Last(<<v>> \o g)
        BY DEF Room
      <4> HIDE DEF r, g
      <4>2. Last(<<v>> \o g) = Last(g)
        <5>1. <<v>> \in Seq(Shapes) /\ g \in Seq(Shapes) /\ g # <<>>
          BY <2>0, <3>4, <3>5
        <5> QED  BY <5>1, StepFacts, Zenon
      <4> QED  BY <3>5, <4>1, <4>2
    <3> HIDE DEF r, g
    <3>7. /\ r \in Shapes
          /\ \A f \in Homes : \A j \in 1 .. Size(v, f) :
               j \in 1 .. Size(r, f) /\ Entries(r, f)[j] = Entries(v, f)[j]
          /\ \A f \in Homes : Start(f) # Start(d) => Size(r, f) = Size(v, f)
          /\ \A f \in Homes : Start(f) = Start(d) =>
               /\ Size(r, f) = Size(v, f) + PerCluster
               /\ \A j \in 1 .. Size(r, f) : j > Size(v, f) => Entries(r, f)[j] = Unused
      BY <3>4, <3>6, ExtendedShape
    <3>8. i \in 1 .. Size(r, d)
      BY <1>1, <1>2, <1>3, <1>6, <3>7
    <3>9. ASSUME NEW f \in Homes, NEW j \in 1 .. Size(r, f)
          PROVE  j \in 1 .. Size(v, f) \/ (Start(f) = Start(d) /\ Entries(r, f)[j] = Unused)
      <4>1. CASE Start(f) # Start(d)
        BY <3>7, <4>1
      <4>2. CASE Start(f) = Start(d)
        <5>1. Size(r, f) = Size(v, f) + PerCluster /\ (j > Size(v, f) => Entries(r, f)[j] = Unused)
          BY <3>7, <4>2
        <5> QED  BY <1>2, <1>5, <4>2, <5>1
      <4> QED  BY <4>1, <4>2
    <3> QED  BY <3>4, <3>6, <3>7, <3>8, <3>9
  <2> QED  BY <2>1, <2>2
<1> HIDE DEF r, g
<1>8. ASSUME NEW j \in 1 .. k - 1 PROVE Entries(r, d)[j].k # "free"
  <2>1. j \in 1 .. Size(v, d) /\ j < k
    BY <1>2, <1>3
  <2> QED  BY <1>3, <1>7, <2>1
<1>9. ASSUME NEW j \in k .. i PROVE ~IsNamed(Entries(r, d)[j])
  <2>1. j \in 1 .. Size(r, d) /\ k <= j /\ j <= k + need - 1
    <3>1. k \in Nat /\ i \in Nat /\ i <= Size(r, d) /\ j \in Nat /\ k <= j /\ j <= i /\ k >= 1
      BY <1>6, <1>7
    <3>2. Size(r, d) \in Nat
      BY <1>7, ChainFacts DEF Shapes
    <3> QED  BY <1>1, <3>1, <3>2
  <2>2. CASE j \in 1 .. Size(v, d)
    <3>1. Entries(r, d)[j] = Entries(v, d)[j]
      BY <1>7, <2>2
    <3> QED  BY <1>3, <2>1, <2>2, <3>1
  <2>3. CASE j \notin 1 .. Size(v, d)
    BY <1>7, <2>1, <2>3, SlotFacts
  <2> QED  BY <2>2, <2>3
<1>10. k = i + 1 - EntriesNeeded(n)
  BY <1>6 DEF need
<1> QED  BY <1>6, <1>7, <1>8, <1>9, <1>10 DEF r, g, i, c

\* The 8.3 names that can be given to a name.
Sfns(n) == IF IsLong(n) THEN Alias ELSE {n}

\* The kinds of names.
LEMMA NameFacts ==
  ASSUME NEW n \in Names
  PROVE  /\ IsLong(n) => n \in Long
         /\ ~IsLong(n) => n \in Short
         /\ Sfns(n) \subseteq Short \cup Alias
         /\ EntriesNeeded(n) = IF IsLong(n) THEN 2 ELSE 1
BY DEF Names, IsLong, Sfns, EntriesNeeded

\* open with O_CREAT, in any place, for any 8.3 name the name may get.
LEMMA CreateFacts ==
  ASSUME NEW v \in Shapes, NEW d \in Homes, Live(v, d), NEW n \in Names, MayGrow(v, d, n),
         NEW a \in Sfns(n)
  PROVE  LET r == Room(v, d, n)
             i == NewIndex(v, d, n)
             w == Last(Create(v, d, n, a)) IN
         /\ Create(v, d, n, a) \in Seq(Shapes) /\ Create(v, d, n, a) # <<>>
         /\ w \in Shapes /\ w.fat = r.fat /\ i \in 1 .. Size(w, d) /\ (IsLong(n) => i > 1)
         /\ \A f \in Homes : Size(w, f) = Size(r, f)
         /\ \A f \in Homes : \A j \in 1 .. Size(r, f) :
              Entries(w, f)[j] =
                IF Start(f) = Start(d) /\ j = i THEN Slot("file", a, NoName, 0)
                ELSE IF Start(f) = Start(d) /\ IsLong(n) /\ j = i - 1 THEN Slot("lfn", n, a, 0)
                ELSE Entries(r, f)[j]
<1> DEFINE r == Room(v, d, n)
           g == Grown(v, d, n)
           i == NewIndex(v, d, n)
           k == i + 1 - EntriesNeeded(n)
           l == Slot("lfn", n, a, 0)
           e == Slot("file", a, NoName, 0)
           m == IF IsLong(n) THEN PutEntry(r, d, i - 1, l) ELSE r
           w == PutEntry(m, d, i, e)
<1>0. /\ r \in Shapes /\ g \in Seq(Shapes) /\ i \in 1 .. Size(r, d) /\ k \in 1 .. i
      /\ \A j \in 1 .. k - 1 : Entries(r, d)[j].k # "free"
  BY RoomFacts
<1>1. Create(v, d, n, a) = g \o (IF IsLong(n) THEN <<m>> ELSE <<>>) \o <<w>>
  BY DEF Create, Created, Room, Grown
<1>2. /\ IsLong(n) => k = i - 1 /\ n \in Long /\ a \in Alias
      /\ ~IsLong(n) => k = i
      /\ a \in Short \cup Alias
  <2>1. Size(r, d) \in Nat
    BY <1>0, ChainFacts DEF Shapes
  <2>2. i \in Int
    BY <1>0, <2>1
  <2> HIDE DEF i
  <2> QED  BY <2>2, NameFacts DEF Sfns
<1>3. /\ e \in SlotSet /\ e.k = "file"
      /\ IsLong(n) => l \in SlotSet /\ l.k = "lfn"
  BY <1>2, SlotFacts DEF Homes, Root
<1>4. Size(r, d) \in Nat /\ r \in Volumes /\ Apart(r)
  BY <1>0, ChainFacts DEF Shapes
<1> HIDE DEF r, g, i, k, l, e, m
\* The long name.
<1>5. /\ m \in Shapes /\ m.fat = r.fat
      /\ \A f \in Homes : /\ Size(m, f) = Size(r, f)
                          /\ \A j \in 1 .. Size(r, f) : Entries(m, f)[j] =
                               IF Start(f) = Start(d) /\ IsLong(n) /\ j = i - 1 THEN l
                               ELSE Entries(r, f)[j]
  <2>1. CASE IsLong(n)
    <3>1. m = PutEntry(r, d, i - 1, l)
      BY <2>1 DEF m
    <3>2. i - 1 \in 1 .. Size(r, d) /\ k = i - 1
      BY <1>0, <1>2, <1>4, <2>1
    <3>3. l \in SlotSet /\ l.k # "free"
      BY <1>3, <2>1
    <3>4. m \in Shapes
      BY <1>0, <3>1, <3>2, <3>3, PutShape
    <3>5. m.fat = r.fat
      BY <1>4, <3>1, <3>2, <3>3, PutSlots
    <3>6. \A f \in Homes : /\ Size(m, f) = Size(r, f)
                          /\ \A j \in 1 .. Size(r, f) : Entries(m, f)[j] =
                               IF Start(f) = Start(d) /\ j = i - 1 THEN l ELSE Entries(r, f)[j]
      BY <1>4, <3>1, <3>2, <3>3, PutFacts
    <3> QED  BY <2>1, <3>4, <3>5, <3>6
  <2>2. CASE ~IsLong(n)
    <3>1. m = r
      BY <2>2 DEF m
    <3> QED  BY <1>0, <2>2, <3>1
  <2> QED  BY <2>1, <2>2
\* The 8.3 entry.
<1>6. \A j \in 1 .. i - 1 : Entries(m, d)[j].k # "free"
  <2> TAKE j \in 1 .. i - 1
  <2>1. j \in 1 .. Size(r, d)
    BY <1>0, <1>4
  <2>2. Entries(m, d)[j] = IF IsLong(n) /\ j = i - 1 THEN l ELSE Entries(r, d)[j]
    BY <1>5, <2>1
  <2>3. CASE IsLong(n) /\ j = i - 1
    BY <1>3, <2>2, <2>3
  <2>4. CASE ~(IsLong(n) /\ j = i - 1)
    <3>1. j \in 1 .. k - 1
      BY <1>0, <1>2, <1>4, <2>4
    <3> QED  BY <1>0, <2>2, <2>4, <3>1
  <2> QED  BY <2>3, <2>4
<1>7. i \in 1 .. Size(m, d) /\ m \in Volumes /\ Apart(m)
  BY <1>0, <1>5 DEF Shapes
<1>8. w \in Shapes
  BY <1>3, <1>5, <1>6, <1>7, PutShape
<1>9. w.fat = m.fat
  BY <1>3, <1>7, PutSlots
<1>10. \A f \in Homes : /\ Size(w, f) = Size(m, f)
                        /\ \A j \in 1 .. Size(m, f) : Entries(w, f)[j] =
                             IF Start(f) = Start(d) /\ j = i THEN e ELSE Entries(m, f)[j]
  BY <1>3, <1>7, PutFacts
<1> HIDE DEF w
<1>11. Create(v, d, n, a) \in Seq(Shapes) /\ Create(v, d, n, a) # <<>> /\ Last(Create(v, d, n, a)) = w
  <2> DEFINE h == g \o (IF IsLong(n) THEN <<m>> ELSE <<>>)
  <2>1. h \in Seq(Shapes)
    <3>1. <<m>> \in Seq(Shapes) /\ <<>> \in Seq(Shapes)
      BY <1>5
    <3>2. (IF IsLong(n) THEN <<m>> ELSE <<>>) \in Seq(Shapes)
      BY <3>1
    <3> QED  BY <1>0, <3>2, StepFacts, Zenon
  <2>2. Create(v, d, n, a) = h \o <<w>>
    BY <1>1
  <2> HIDE DEF h
  <2> QED  BY <1>8, <2>1, <2>2, OneMore, Zenon
<1>12. IsLong(n) => i > 1
  BY <1>0, <1>2, <1>4
<1>13. \A f \in Homes : Size(w, f) = Size(r, f)
  BY <1>5, <1>10
<1>14. ASSUME NEW f \in Homes, NEW j \in 1 .. Size(r, f)
       PROVE  Entries(w, f)[j] =
                IF Start(f) = Start(d) /\ j = i THEN e
                ELSE IF Start(f) = Start(d) /\ IsLong(n) /\ j = i - 1 THEN l
                ELSE Entries(r, f)[j]
  BY <1>5, <1>10
<1>15. i \in 1 .. Size(w, d) /\ w.fat = r.fat
  BY <1>0, <1>5, <1>9, <1>13
<1> QED  BY <1>8, <1>11, <1>12, <1>13, <1>14, <1>15 DEF r, i, l, e

\* An entry is written over one that has a name.
LEMMA ReplaceShape ==
  ASSUME NEW v \in Shapes, NEW d \in Homes, NEW i \in 1 .. Size(v, d), IsNamed(Entries(v, d)[i]),
         NEW e \in SlotSet, e.k # "free"
  PROVE  LET w == PutEntry(v, d, i, e) IN
         /\ w \in Shapes /\ w.fat = v.fat /\ Taken(w) = Taken(v)
         /\ \A f \in Homes : /\ Size(w, f) = Size(v, f)
                             /\ \A j \in 1 .. Size(v, f) : Entries(w, f)[j] =
                                  IF Start(f) = Start(d) /\ j = i THEN e ELSE Entries(v, f)[j]
<1>0. v \in Volumes /\ Apart(v) /\ Filled(v) /\ Size(v, d) \in Nat
  BY ChainFacts DEF Shapes
<1>1. \A j \in 1 .. i - 1 : Entries(v, d)[j].k # "free"
  <2> TAKE j \in 1 .. i - 1
  <2>1. j \in 1 .. Size(v, d) /\ j < i
    BY <1>0
  <2> QED  BY <1>0, <2>1 DEF Filled
<1>2. PutEntry(v, d, i, e) \in Shapes
  BY <1>1, PutShape
<1>3. PutEntry(v, d, i, e).fat = v.fat
  BY <1>0, PutSlots
<1>4. Taken(PutEntry(v, d, i, e)) = Taken(v)
  BY <1>3 DEF Taken
<1>5. \A f \in Homes : /\ Size(PutEntry(v, d, i, e), f) = Size(v, f)
                       /\ \A j \in 1 .. Size(v, f) : Entries(PutEntry(v, d, i, e), f)[j] =
                            IF Start(f) = Start(d) /\ j = i THEN e ELSE Entries(v, f)[j]
  BY <1>0, PutFacts
<1> QED  BY <1>2, <1>3, <1>4, <1>5

\* A cluster is allocated and zeroed.
LEMMA AllocateShape ==
  ASSUME NEW v \in Shapes, NEW c \in Clusters \ Taken(v)
  PROVE  LET w == SetCluster(SetChain(v, c, <<c>>), c, Zeroed) IN
         w \in Shapes /\ Extended(v, w, c, c) /\ w.fat[c] = <<c>>
<1> DEFINE b == SetChain(v, c, <<c>>)
           w == SetCluster(b, c, Zeroed)
<1>1. v \in Volumes /\ v.fat[c] = <<>> /\ c \in Homes /\ <<c>> \in Seq(Clusters)
  BY Fresh DEF Shapes, Homes
<1>2. /\ b \in Volumes /\ b.slots = v.slots
      /\ b.fat[c] = <<c>> /\ \A e \in Clusters \ {c} : b.fat[e] = v.fat[e]
  BY <1>1, ChainSet
<1> HIDE DEF b
<1>3. /\ w \in Volumes /\ w.fat = b.fat
      /\ w.slots[c] = Zeroed /\ \A x \in Homes \ {c} : w.slots[x] = b.slots[x]
  BY <1>1, <1>2, ClusterSet, SlotFacts
<1> HIDE DEF w
<1>4. Append(v.fat[c], c) = <<c>>
  <2>1. Append(<<>>, c) = <<c>>
    OBVIOUS
  <2> QED  BY <1>1, <2>1
<1>5. Extended(v, w, c, c)
  BY <1>2, <1>3, <1>4 DEF Extended
<1>6. w \in Shapes
  BY <1>3, <1>5, ExtendedShape
<1>7. w.fat[c] = <<c>>
  BY <1>2, <1>3
<1> QED  BY <1>5, <1>6, <1>7 DEF b, w

\* The first cluster of a directory that starts at a cluster.
LEMMA HeadEntries ==
  ASSUME NEW v \in Shapes, NEW c \in Clusters, v.fat[c] # <<>>
  PROVE  /\ 1 .. PerCluster \subseteq 1 .. Size(v, c)
         /\ \A p \in 1 .. PerCluster : Entries(v, c)[p] = v.slots[c][p]
<1>0. v \in Volumes /\ v.fat[c] \in Seq(Clusters) /\ v.fat[c][1] = c
  BY DEF Shapes, Headed, Volumes
<1>1. c \in Homes /\ Start(c) = c /\ c # Root
  BY RootFacts DEF Homes
<1>2. DirChain(v, c) = v.fat[c]
  BY <1>0, <1>1, ChainFacts
<1>3. PerCluster \in Nat /\ PerCluster >= 2
  BY EntriesAssumption
<1>4. Len(v.fat[c]) \in Nat /\ Len(v.fat[c]) > 0
  BY <1>0
<1>5. PerCluster <= PerCluster * Len(v.fat[c])
  <2> DEFINE n == Len(v.fat[c])
  <2>1. \A m \in Nat : m > 0 => PerCluster <= PerCluster * m
    <3> TAKE m \in Nat
    <3> SUFFICES ASSUME m > 0 PROVE PerCluster <= PerCluster * m
      OBVIOUS
    <3>1. PerCluster * 0 + PerCluster <= PerCluster * m
      BY <1>3, Products
    <3>2. PerCluster * 0 = 0 /\ PerCluster * m \in Int
      BY <1>3
    <3> QED  BY <1>3, <3>1, <3>2
  <2> QED  BY <1>4, <2>1
<1>6. 1 .. PerCluster \subseteq 1 .. Size(v, c)
  <2>1. Size(v, c) = PerCluster * Len(v.fat[c]) /\ Size(v, c) \in Nat
    BY <1>0, <1>1, <1>2, ChainFacts DEF Size
  <2> QED  BY <1>3, <1>5, <2>1
<1>7. ASSUME NEW p \in 1 .. PerCluster PROVE Entries(v, c)[p] = v.slots[c][p]
  <2> DEFINE q == (p - 1) \div PerCluster
  <2>1. PerCluster * 1 = PerCluster
    BY <1>3
  <2>2. p \in 1 .. PerCluster * 1
    BY <2>1
  <2>3. /\ q + 1 \in 1 .. 1 /\ ((p - 1) % PerCluster) + 1 \in 1 .. PerCluster
        /\ p = PerCluster * q + ((p - 1) % PerCluster) + 1
    BY <2>2, Offsets
  <2>4. q \in Int /\ (p - 1) % PerCluster \in Int
    BY <1>3, Division
  <2> HIDE DEF q
  <2>5. q = 0 /\ PerCluster * 0 = 0
    BY <1>3, <2>3, <2>4
  <2>6. ((p - 1) % PerCluster) + 1 = p
    BY <2>3, <2>4, <2>5
  <2>7. At(v, c, p)[1] = c /\ At(v, c, p)[2] = p
    BY <1>0, <1>2, <2>5, <2>6 DEF At, q
  <2> QED  BY <1>0, <1>1, <1>6, <2>7, AtFacts
<1> QED  BY <1>6, <1>7

\* What mkdir makes of the file that it made, when there is a cluster.
DirAt(u, w, d, i, a, c) ==
  /\ c \in Clusters \ Taken(u)
  /\ w.fat[c] = <<c>> /\ \A e \in Clusters \ {c} : w.fat[e] = u.fat[e]
  /\ \A f \in Homes : Start(f) # c => Size(w, f) = Size(u, f)
  /\ \A f \in Homes : \A j \in 1 .. Size(u, f) : j \in 1 .. Size(w, f) /\ Entries(w, f)[j] =
        IF Start(f) = Start(d) /\ j = i THEN Slot("dir", a, NoName, c) ELSE Entries(u, f)[j]
  /\ Size(w, c) = PerCluster
  /\ Entries(w, c)[1] = Slot("dot", NoName, NoName, c) /\ Entries(w, c)[2] = DotDot(d)
  /\ \A j \in 3 .. PerCluster : Entries(w, c)[j] = Unused

\* mkdir after the file is made, on a volume that may be full.
LEMMA DirMadeFacts ==
  ASSUME NEW made \in Seq(Shapes), made # <<>>, NEW u \in Shapes, u = Last(made),
         NEW d \in Homes, NEW i \in 1 .. Size(u, d), IsNamed(Entries(u, d)[i]),
         NEW a \in Short \cup Alias, NEW c, c = FirstFree(u)
  PROVE  LET w == Last(DirMade(made, d, a, i, c)) IN
         /\ DirMade(made, d, a, i, c) \in Seq(Shapes) /\ DirMade(made, d, a, i, c) # <<>>
         /\ w \in Shapes
         /\ c = 0 => w = u
         /\ c # 0 => DirAt(u, w, d, i, a, c)
<1>0. u \in Volumes /\ Size(u, d) \in Nat
  BY ChainFacts DEF Shapes
<1>1. CASE c = 0
  <2>1. DirMade(made, d, a, i, c) = made
    BY <1>1 DEF DirMade
  <2> QED  BY <1>1, <2>1
<1>2. CASE c # 0
  <2>1. c \in Clusters \ Taken(u) /\ c \in Homes
    BY <1>0, <1>2, FirstFreeFacts DEF Homes
  <2> DEFINE al == SetCluster(SetChain(u, c, <<c>>), c, Zeroed)
             fi == Slot("file", a, NoName, c)
             di == Slot("dir", a, NoName, c)
             sa == PutEntry(al, d, i, fi)
             ma == PutEntry(sa, d, i, di)
             y == [ma.slots[c] EXCEPT ![1] = Slot("dot", NoName, NoName, c), ![2] = DotDot(d)]
             w == SetCluster(ma, c, y)
  <2>2. DirMade(made, d, a, i, c) = made \o <<al, sa, ma, w>>
    BY <1>2, Zenon DEF DirMade
  <2>3. al \in Shapes /\ Extended(u, al, c, c) /\ al.fat[c] = <<c>>
    BY <2>1, AllocateShape
  <2>4. /\ fi \in SlotSet /\ fi.k = "file" /\ fi.k # "free" /\ di \in SlotSet /\ di.k = "dir" /\ di.k # "free"
        /\ IsNamed(fi)
    BY <2>1, SlotFacts DEF IsNamed
  <2> HIDE DEF al, fi, di
  <2>5. /\ \A f \in Homes : \A j \in 1 .. Size(u, f) :
             j \in 1 .. Size(al, f) /\ Entries(al, f)[j] = Entries(u, f)[j]
        /\ \A f \in Homes : Start(f) # c => Size(al, f) = Size(u, f)
        /\ \A f \in Homes : Start(f) = c => Size(al, f) = Size(u, f) + PerCluster
        /\ \A f \in Homes : Start(f) = c =>
             \A j \in 1 .. Size(al, f) : j > Size(u, f) => Entries(al, f)[j] = Unused
    <3>1. al \in Volumes
      BY <2>3 DEF Shapes
    <3> QED  BY <2>3, <3>1, ExtendedShape
  <2>6. /\ u.fat[c] = <<>>
        /\ al.fat[c] = <<c>> /\ \A e \in Clusters \ {c} : al.fat[e] = u.fat[e]
    BY <2>1, <2>3, Fresh DEF Extended, Shapes
  <2>7. i \in 1 .. Size(al, d) /\ IsNamed(Entries(al, d)[i])
    BY <2>5
  <2>8. /\ sa \in Shapes /\ sa.fat = al.fat
        /\ \A f \in Homes : /\ Size(sa, f) = Size(al, f)
                            /\ \A j \in 1 .. Size(al, f) : Entries(sa, f)[j] =
                                 IF Start(f) = Start(d) /\ j = i THEN fi ELSE Entries(al, f)[j]
    BY <2>3, <2>4, <2>7, ReplaceShape
  <2> HIDE DEF sa
  <2>9. i \in 1 .. Size(sa, d) /\ IsNamed(Entries(sa, d)[i])
    BY <2>4, <2>7, <2>8
  <2>10. /\ ma \in Shapes /\ ma.fat = sa.fat
         /\ \A f \in Homes : /\ Size(ma, f) = Size(sa, f)
                             /\ \A j \in 1 .. Size(sa, f) : Entries(ma, f)[j] =
                                  IF Start(f) = Start(d) /\ j = i THEN di ELSE Entries(sa, f)[j]
    BY <2>4, <2>8, <2>9, ReplaceShape
  <2> HIDE DEF ma
  <2>11. /\ ma.fat[c] = <<c>> /\ \A e \in Clusters \ {c} : ma.fat[e] = u.fat[e]
         /\ ma \in Volumes /\ ma.slots[c] \in [1 .. PerCluster -> SlotSet]
    BY <2>1, <2>6, <2>8, <2>10 DEF Shapes, Volumes
  <2>12. \A f \in Homes : \A j \in 1 .. Size(u, f) : Entries(ma, f)[j] =
           IF Start(f) = Start(d) /\ j = i THEN di ELSE Entries(u, f)[j]
    BY <2>5, <2>8, <2>10
  <2>13. Start(c) = c /\ Size(u, c) = 0
    <3>1. Start(c) = c /\ c # Root
      BY <2>1, RootFacts
    <3>2. DirChain(u, c) = <<>>
      BY <1>0, <2>1, <2>6, <3>1, ChainFacts
    <3>3. Len(DirChain(u, c)) = 0
      BY <3>2
    <3> QED  BY <3>1, <3>3, EntriesAssumption DEF Size
  <2>14. Start(d) # c
    <3>1. DirChain(u, d) = <<>> => Size(u, d) = 0
      BY EntriesAssumption DEF Size
    <3>2. Start(d) = c => DirChain(u, d) = <<>>
      BY <1>0, <2>1, <2>6, ChainFacts, RootFacts
    <3> QED  BY <1>0, <3>1, <3>2
  <2>15. \A p \in 1 .. PerCluster : ma.slots[c][p] = Unused
    <3> TAKE p \in 1 .. PerCluster
    <3>1. p \in 1 .. Size(ma, c) /\ Entries(ma, c)[p] = ma.slots[c][p]
      <4>1. ma \in Shapes /\ c \in Clusters
        BY <2>1, <2>10
      <4>2. ma.fat[c] = <<c>> /\ <<c>> # <<>>
        BY <2>11
      <4>3. ma.fat[c] # <<>>
        BY <4>2
      <4> QED  BY <4>1, <4>3, HeadEntries
    <3>2. Size(ma, c) = Size(al, c) /\ Size(al, c) = PerCluster
      BY <2>1, <2>5, <2>8, <2>10, <2>13, EntriesAssumption
    <3>3. Entries(al, c)[p] = Unused
      BY <2>1, <2>5, <2>13, <3>1, <3>2
    <3>4. Entries(ma, c)[p] = Entries(al, c)[p]
      BY <2>1, <2>8, <2>10, <2>13, <2>14, <3>1, <3>2
    <3> QED  BY <3>1, <3>3, <3>4
  <2>16. /\ Slot("dot", NoName, NoName, c) \in SlotSet
         /\ Slot("dot", NoName, NoName, c).k # "free" /\ ~IsNamed(Slot("dot", NoName, NoName, c))
         /\ DotDot(d) \in SlotSet /\ DotDot(d).k # "free" /\ ~IsNamed(DotDot(d))
    BY <2>1, SlotFacts DEF DotDot
  <2>17. /\ y \in [1 .. PerCluster -> SlotSet]
         /\ y[1] = Slot("dot", NoName, NoName, c) /\ y[2] = DotDot(d)
         /\ \A p \in 3 .. PerCluster : y[p] = Unused
    <3>1. PerCluster \in Nat /\ PerCluster >= 2
      BY EntriesAssumption
    <3>2. 1 \in 1 .. PerCluster /\ 2 \in 1 .. PerCluster /\ \A p \in 3 .. PerCluster : p \in 1 .. PerCluster /\ p # 1 /\ p # 2
      BY <3>1
    <3> QED  BY <2>11, <2>15, <2>16, <3>2
  <2> HIDE DEF y
  <2>18. /\ w \in Volumes /\ w.fat = ma.fat
         /\ w.slots[c] = y /\ \A x \in Homes \ {c} : w.slots[x] = ma.slots[x]
    BY <2>1, <2>11, <2>17, ClusterSet
  <2> HIDE DEF w
  <2>19. w \in Shapes
    <3>1. ASSUME NEW x \in Homes, NEW p \in 1 .. PerCluster
          PROVE  w.slots[x][p] = ma.slots[x][p] \/ (w.slots[x][p].k # "free" /\ ~IsNamed(w.slots[x][p]))
      <4>1. CASE x # c
        BY <2>18, <4>1
      <4>2. CASE x = c
        <5>1. p = 1 \/ p = 2 \/ p \in 3 .. PerCluster
          BY EntriesAssumption
        <5> QED  BY <2>15, <2>16, <2>17, <2>18, <4>2, <5>1
      <4> QED  BY <4>1, <4>2
    <3> QED  BY <2>10, <2>18, <3>1, Bland
  <2>20. ASSUME NEW f \in Homes, Start(f) # c
         PROVE  Size(w, f) = Size(ma, f) /\ \A j \in 1 .. Size(ma, f) : Entries(w, f)[j] = Entries(ma, f)[j]
    <3>1. Size(w, f) = Size(ma, f) /\ \A j : At(w, f, j) = At(ma, f, j)
      BY <2>11, <2>18, SameTable
    <3>2. ASSUME NEW j \in 1 .. Size(ma, f) PROVE Entries(w, f)[j] = Entries(ma, f)[j]
      <4> DEFINE q == (j - 1) \div PerCluster + 1
      <4>1. q \in 1 .. Len(DirChain(ma, f)) /\ At(ma, f, j)[1] = DirChain(ma, f)[q] /\ At(ma, f, j)[1] \in Homes
        BY <2>11, AtFacts
      <4> HIDE DEF q
      <4>2. At(ma, f, j)[1] # c
        <5>1. CASE Start(f) = Root
          <6>1. DirChain(ma, f) = <<Root>>
            BY <2>11, <5>1, ChainFacts
          <6> QED  BY <2>1, <4>1, <6>1, RootFacts
        <5>2. CASE Start(f) # Root
          <6>1. Start(f) \in Clusters /\ DirChain(ma, f) = ma.fat[Start(f)]
            BY <2>11, <5>2, ChainFacts, RootFacts DEF Homes
          <6>2. ma.fat[c][1] = c /\ 1 \in 1 .. Len(ma.fat[c]) /\ Apart(ma)
            BY <2>10, <2>11 DEF Shapes
          <6> QED  BY <2>1, <2>20, <4>1, <6>1, <6>2 DEF Apart
        <5> QED  BY <5>1, <5>2
      <4>3. w.slots[At(ma, f, j)[1]] = ma.slots[At(ma, f, j)[1]] /\ At(w, f, j)[1] = At(ma, f, j)[1]
        BY <2>18, <3>1, <4>1, <4>2
      <4>4. j \in 1 .. Size(w, f) /\ w \in Volumes /\ ma \in Volumes
        BY <2>11, <2>18, <3>1
      <4> QED  BY <4>3, <4>4, SameEntry
    <3> QED  BY <3>1, <3>2
  <2>21. DirAt(u, w, d, i, a, c)
    <3>1. \A f \in Homes : Start(f) # c => Size(w, f) = Size(u, f)
      BY <2>5, <2>8, <2>10, <2>20
    <3>2. \A f \in Homes : \A j \in 1 .. Size(u, f) : j \in 1 .. Size(w, f) /\ Entries(w, f)[j] =
            IF Start(f) = Start(d) /\ j = i THEN Slot("dir", a, NoName, c) ELSE Entries(u, f)[j]
      <4> TAKE f \in Homes
      <4> TAKE j \in 1 .. Size(u, f)
      <4>1. Start(f) # c
        <5>1. Start(f) = c => Size(u, f) = Size(u, c)
          BY <1>0, <2>1, <2>13, SameStart
        <5> QED  BY <2>13, <5>1
      <4>2. j \in 1 .. Size(w, f) /\ Size(ma, f) = Size(u, f)
        BY <2>5, <2>8, <2>10, <3>1, <4>1
      <4> QED  BY <2>12, <2>20, <4>1, <4>2 DEF di
    <3>3. Size(w, c) = PerCluster
      <4>1. Size(w, c) = Size(ma, c)
        BY <2>1, <2>11, <2>18, SameTable
      <4> QED  BY <2>1, <2>5, <2>8, <2>10, <2>13, <4>1, EntriesAssumption
    <3>4. \A p \in 1 .. PerCluster : Entries(w, c)[p] = y[p]
      <4>1. w.fat[c] # <<>>
        BY <2>11, <2>18
      <4> QED  BY <2>1, <2>18, <2>19, <4>1, HeadEntries
    <3>5. /\ Entries(w, c)[1] = Slot("dot", NoName, NoName, c) /\ Entries(w, c)[2] = DotDot(d)
          /\ \A j \in 3 .. PerCluster : Entries(w, c)[j] = Unused
      <4>1. 1 \in 1 .. PerCluster /\ 2 \in 1 .. PerCluster /\ \A j \in 3 .. PerCluster : j \in 1 .. PerCluster
        BY EntriesAssumption
      <4> QED  BY <2>17, <3>4, <4>1
    <3> QED  BY <2>1, <2>11, <2>18, <3>1, <3>2, <3>3, <3>5 DEF DirAt
  <2>22. <<al, sa, ma, w>> \in Seq(Shapes) /\ <<al, sa, ma, w>> # <<>> /\ Last(<<al, sa, ma, w>>) = w
    BY <2>3, <2>8, <2>10, <2>19 DEF Last
  <2>23. /\ made \o <<al, sa, ma, w>> \in Seq(Shapes) /\ made \o <<al, sa, ma, w>> # <<>>
         /\ Last(made \o <<al, sa, ma, w>>) = w
    <3> DEFINE t == <<al, sa, ma, w>>
    <3> HIDE DEF t
    <3>1. t \in Seq(Shapes) /\ t # <<>> /\ Last(t) = w
      BY <2>22 DEF t
    <3>2. made \o t \in Seq(Shapes) /\ made \o t # <<>> /\ Last(made \o t) = w
      BY <3>1, StepFacts, Zenon
    <3> QED  BY <3>2 DEF t
  <2> QED  BY <1>2, <2>2, <2>19, <2>21, <2>23
<1> QED  BY <1>1, <1>2

\* mkdir, in any place.
LEMMA MkdirFacts ==
  ASSUME NEW v \in Shapes, NEW d \in Homes, Live(v, d), NEW n \in Names, MayGrow(v, d, n),
         NEW a \in Sfns(n)
  PROVE  LET u == Last(Create(v, d, n, a))
             w == Last(Mkdir(v, d, n, a))
             c == FirstFree(u) IN
         /\ Mkdir(v, d, n, a) \in Seq(Shapes) /\ Mkdir(v, d, n, a) # <<>> /\ w \in Shapes
         /\ c = 0 => w = u
         /\ c # 0 => DirAt(u, w, d, NewIndex(v, d, n), a, c)
<1> DEFINE made == Create(v, d, n, a)
           u == Last(made)
           i == NewIndex(v, d, n)
           c == FirstFree(u)
<1>1. /\ made \in Seq(Shapes) /\ made # <<>> /\ u \in Shapes /\ i \in 1 .. Size(u, d)
      /\ Entries(u, d)[i] = Slot("file", a, NoName, 0)
  <2>1. Size(Room(v, d, n), d) = Size(u, d) /\ i \in 1 .. Size(u, d)
    BY CreateFacts
  <2>2. i \in 1 .. Size(Room(v, d, n), d)
    BY <2>1
  <2> QED  BY <2>1, <2>2, CreateFacts
<1>2. a \in Short \cup Alias
  BY NameFacts
<1>3. IsNamed(Entries(u, d)[i])
  BY <1>1 DEF IsNamed, Slot
<1>4. Mkdir(v, d, n, a) = DirMade(made, d, a, i, c)
  BY DEF Mkdir
<1> HIDE DEF made, u, i, c
<1>5. u = Last(made) /\ c = FirstFree(u)
  BY DEF u, c
<1>6. LET w == Last(DirMade(made, d, a, i, c)) IN
      /\ DirMade(made, d, a, i, c) \in Seq(Shapes) /\ DirMade(made, d, a, i, c) # <<>>
      /\ w \in Shapes
      /\ c = 0 => w = u
      /\ c # 0 => DirAt(u, w, d, i, a, c)
  BY <1>1, <1>2, <1>3, <1>5, DirMadeFacts
<1> QED  BY <1>4, <1>6 DEF made, u, i, c

\* The first write to a file, on a volume that is not full.
LEMMA FirstWriteShape ==
  ASSUME NEW v \in Shapes, NEW d \in Homes, NEW i \in 1 .. Size(v, d), Entries(v, d)[i].k = "file",
         FirstFree(v) # 0
  PROVE  FirstWrite(v, d, i) \in Seq(Shapes) /\ FirstWrite(v, d, i) # <<>>
<1> DEFINE c == FirstFree(v)
           old == Entries(v, d)[i]
           e == [old EXCEPT !.first = c]
           b == SetChain(v, c, <<c>>)
           w == PutEntry(b, d, i, e)
<1>0. v \in Volumes /\ Size(v, d) \in Nat
  BY ChainFacts DEF Shapes
<1>1. c \in Clusters \ Taken(v) /\ <<c>> \in Seq(Clusters) /\ c \in Homes
  BY <1>0, FirstFreeFacts DEF Homes
<1>2. old \in SlotSet /\ old.k = "file"
  BY <1>0, EntriesSeq
<1> HIDE DEF old
<1>3. e \in SlotSet /\ e.k = "file" /\ e.k # "free"
  BY <1>1, <1>2 DEF SlotSet, Right, IsObject
<1>4. FirstWrite(v, d, i) = <<b, w>>
  BY DEF FirstWrite, old
<1> HIDE DEF c, e
<1>5. v.fat[c] = <<>> /\ \A p \in 1 .. PerCluster : ~IsNamed(v.slots[c][p])
  BY <1>1, Fresh DEF Shapes, Bare
<1>6. /\ b \in Volumes /\ b.slots = v.slots
      /\ b.fat[c] = <<c>> /\ \A x \in Clusters \ {c} : b.fat[x] = v.fat[x]
  BY <1>0, <1>1, ChainSet
<1> HIDE DEF b
<1>7. Append(v.fat[c], c) = <<c>>
  <2>1. Append(<<>>, c) = <<c>>
    OBVIOUS
  <2> QED  BY <1>5, <2>1
<1>8. b \in Shapes /\ i \in 1 .. Size(b, d) /\ Entries(b, d)[i] = old
  <2>0. /\ v.fat[c] = <<>> => c = c
        /\ b.fat[c] = Append(v.fat[c], c)
        /\ \A x \in Homes \ {c} : b.slots[x] = v.slots[x]
        /\ \A p \in 1 .. PerCluster : ~IsNamed(b.slots[c][p])
    BY <1>5, <1>6, <1>7
  <2>1. /\ b \in Shapes
        /\ \A f \in Homes : \A j \in 1 .. Size(v, f) :
             j \in 1 .. Size(b, f) /\ Entries(b, f)[j] = Entries(v, f)[j]
    BY <1>1, <1>6, <2>0, ExtendShape
  <2> QED  BY <2>1 DEF old
<1>9. IsNamed(Entries(b, d)[i])
  BY <1>2, <1>8 DEF IsNamed
<1>10. w \in Shapes
  BY <1>3, <1>8, <1>9, ReplaceShape
<1> HIDE DEF w
<1> QED  BY <1>4, <1>8, <1>10

\* An entry is deleted.
LEMMA DeleteShape ==
  ASSUME NEW v \in Shapes, NEW d \in Homes, NEW i \in 1 .. Size(v, d)
  PROVE  /\ PutEntry(v, d, i, Deleted) \in Shapes
         /\ \A f \in Homes : Size(PutEntry(v, d, i, Deleted), f) = Size(v, f)
<1> DEFINE w == PutEntry(v, d, i, Deleted)
<1>0. v \in Volumes /\ Apart(v)
  BY DEF Shapes
<1>1. /\ w \in Volumes /\ w.fat = v.fat
      /\ \A x \in Homes, p \in 1 .. PerCluster :
           w.slots[x][p] = IF x = At(v, d, i)[1] /\ p = At(v, d, i)[2] THEN Deleted ELSE v.slots[x][p]
  BY <1>0, SlotFacts, PutSlots
<1> HIDE DEF w
<1>2. \A x \in Homes, p \in 1 .. PerCluster :
        w.slots[x][p] = v.slots[x][p] \/ (w.slots[x][p].k # "free" /\ ~IsNamed(w.slots[x][p]))
  BY <1>1, SlotFacts
<1>3. w \in Shapes
  BY <1>1, <1>2, Bland
<1>4. \A f \in Homes : Size(w, f) = Size(v, f)
  BY <1>0, <1>1, SameTable
<1> QED  BY <1>3, <1>4 DEF w

\* The end of remove.
LEMMA RemoveEntryShape ==
  ASSUME NEW v \in Shapes, NEW d \in Homes, NEW i \in 1 .. Size(v, d), NEW n, IsLong(n) => i > 1
  PROVE  RemoveEntry(v, d, i, n) \in Seq(Shapes) /\ RemoveEntry(v, d, i, n) # <<>>
<1> DEFINE w == PutEntry(v, d, i, Deleted)
           x == PutEntry(w, d, i - 1, Deleted)
           t == IF IsLong(n) THEN <<x>> ELSE <<>>
<1>1. w \in Shapes /\ Size(w, d) = Size(v, d)
  BY DeleteShape
<1>2. RemoveEntry(v, d, i, n) = <<w>> \o t
  BY DEF RemoveEntry, Unname
<1> HIDE DEF w
<1>3. t \in Seq(Shapes)
  <2>1. CASE IsLong(n)
    <3>1. Size(v, d) \in Nat
      BY ChainFacts DEF Shapes
    <3>2. i - 1 \in 1 .. Size(w, d)
      BY <1>1, <2>1, <3>1
    <3>3. x \in Shapes
      BY <1>1, <3>2, DeleteShape
    <3> HIDE DEF x
    <3> QED  BY <2>1, <3>3
  <2>2. CASE ~IsLong(n)
    BY <2>2
  <2> QED  BY <2>1, <2>2
<1> HIDE DEF t
<1>4. <<w>> \in Seq(Shapes)
  BY <1>1
<1>5. <<w>> \o t \in Seq(Shapes)
  BY <1>3, <1>4, StepFacts, Zenon
<1>6. <<w>> \o t # <<>>
  <2>1. Len(<<w>> \o t) = Len(<<w>>) + Len(t) /\ Len(<<w>>) = 1 /\ Len(t) \in Nat
    BY <1>3, <1>4
  <2> QED  BY <2>1
<1> QED  BY <1>2, <1>5, <1>6

\* remove, for an entry whose chain is neither the root's nor that of its directory.
LEMMA RemoveFoundShape ==
  ASSUME NEW v \in Shapes, NEW d \in Homes, NEW i \in 1 .. Size(v, d), NEW n, IsLong(n) => i > 1,
         NEW c \in Homes, c # 0 => Start(d) # c, ~rootFixed => c # RootStart
  PROVE  RemoveFound(v, d, n, i, c) \in Seq(Shapes) /\ RemoveFound(v, d, n, i, c) # <<>>
<1>1. CASE c = 0
  BY <1>1, RemoveEntryShape DEF RemoveFound
<1>2. CASE c # 0
  <2> DEFINE w == FreeChain(v, c)
             t == RemoveEntry(w, d, i, n)
  <2>1. c \in Clusters
    BY <1>2 DEF Homes, Root
  <2>2. w \in Shapes /\ Size(w, d) = Size(v, d)
    BY <1>2, <2>1, FreeShape
  <2>3. RemoveFound(v, d, n, i, c) = <<w>> \o t
    BY <1>2 DEF RemoveFound
  <2> HIDE DEF w
  <2>4. t \in Seq(Shapes) /\ t # <<>>
    BY <2>2, RemoveEntryShape
  <2> HIDE DEF t
  <2>5. <<w>> \in Seq(Shapes)
    BY <2>2
  <2>6. <<w>> \o t \in Seq(Shapes) /\ <<w>> \o t # <<>>
    BY <2>4, <2>5, StepFacts, Zenon
  <2> QED  BY <2>3, <2>6
<1> QED  BY <1>1, <1>2

\* The end of rename: the new entry at j, in e, gets what the old one at i, in d, had.
LEMMA RenamedShape ==
  ASSUME NEW made \in Seq(Shapes), made # <<>>, NEW u \in Shapes, u = Last(made),
         NEW d \in Homes, NEW i \in 1 .. Size(u, d), NEW n, IsLong(n) => i > 1,
         NEW e \in Homes, NEW j \in 1 .. Size(u, e), IsNamed(Entries(u, e)[j]),
         NEW old \in SlotSet, IsObject(old), NEW a \in Short \cup Alias,
         NEW c \in Homes, old.k = "dir" => Entries(u, e)[j].first = c,
         c # 0 => Start(d) # c, ~rootFixed => c # RootStart
  PROVE  Renamed(made, d, n, i, e, j, old, a) \in Seq(Shapes) /\ Renamed(made, d, n, i, e, j, old, a) # <<>>
<1> DEFINE new == [old EXCEPT !.name = a]
           copied == PutEntry(u, e, j, new)
           freed == FreeChain(copied, c)
           y == [freed.slots[old.first] EXCEPT ![2] = DotDot(e)]
           moved == SetCluster(freed, old.first, y)
<1>1. /\ new \in SlotSet /\ new.k # "free" /\ old.first \in Homes
      /\ old.k = "file" \/ old.k = "dir"
  <2>1. a \in Texts
    BY DEF Texts
  <2> QED  BY <2>1 DEF SlotSet, Right, IsObject
<1> HIDE DEF new
<1>2. copied \in Shapes /\ Size(copied, d) = Size(u, d)
  BY <1>1, ReplaceShape
<1> HIDE DEF copied
<1>3. CASE old.k = "file"
  <2> DEFINE t == RemoveEntry(copied, d, i, n)
  <2>1. Renamed(made, d, n, i, e, j, old, a) = made \o <<copied>> \o t
    BY <1>3 DEF Renamed, copied, new
  <2>2. t \in Seq(Shapes) /\ t # <<>>
    BY <1>2, RemoveEntryShape
  <2> HIDE DEF t
  <2>3. made \o <<copied>> \in Seq(Shapes)
    BY <1>2, OneMore, Zenon
  <2>4. made \o <<copied>> \o t \in Seq(Shapes) /\ made \o <<copied>> \o t # <<>>
    BY <2>2, <2>3, StepFacts, Zenon
  <2> QED  BY <2>1, <2>4
<1>4. CASE old.k = "dir" /\ c = 0
  <2>1. Renamed(made, d, n, i, e, j, old, a) = made
    BY <1>4 DEF Renamed
  <2> QED  BY <2>1
<1>5. CASE old.k = "dir" /\ c # 0
  <2> DEFINE t == RemoveEntry(moved, d, i, n)
  <2>1. Renamed(made, d, n, i, e, j, old, a) = made \o <<copied, freed, moved>> \o t
    BY <1>5 DEF Renamed, copied, new, Spare
  <2>2. c \in Clusters
    BY <1>5 DEF Homes, Root
  <2>3. freed \in Shapes /\ Size(freed, d) = Size(u, d)
    BY <1>2, <1>5, <2>2, FreeShape
  <2> HIDE DEF freed
  <2>4. /\ freed \in Volumes /\ freed.slots[old.first] \in [1 .. PerCluster -> SlotSet]
        /\ DotDot(e) \in SlotSet /\ DotDot(e).k # "free" /\ ~IsNamed(DotDot(e))
    BY <1>1, <2>3, SlotFacts DEF Shapes, Volumes, DotDot
  <2>5. y \in [1 .. PerCluster -> SlotSet] /\ \A p \in 1 .. PerCluster : y[p] = freed.slots[old.first][p] \/ y[p] = DotDot(e)
    BY <2>4
  <2> HIDE DEF y
  <2>6. /\ moved \in Volumes /\ moved.fat = freed.fat
        /\ moved.slots[old.first] = y /\ \A x \in Homes \ {old.first} : moved.slots[x] = freed.slots[x]
    BY <1>1, <2>4, <2>5, ClusterSet
  <2> HIDE DEF moved
  <2>7. \A x \in Homes, p \in 1 .. PerCluster :
          moved.slots[x][p] = freed.slots[x][p] \/ (moved.slots[x][p].k # "free" /\ ~IsNamed(moved.slots[x][p]))
    BY <2>4, <2>5, <2>6
  <2>8. moved \in Shapes
    BY <2>3, <2>6, <2>7, Bland
  <2>9. Size(moved, d) = Size(u, d)
    BY <2>3, <2>4, <2>6, SameTable
  <2>10. t \in Seq(Shapes) /\ t # <<>>
    BY <2>8, <2>9, RemoveEntryShape
  <2> HIDE DEF t
  <2> DEFINE s == <<copied, freed, moved>>
  <2>11. s \in Seq(Shapes)
    BY <1>2, <2>3, <2>8
  <2> HIDE DEF s
  <2>12. made \o s \in Seq(Shapes)
    BY <2>11, StepFacts, Zenon
  <2>13. made \o s \o t \in Seq(Shapes) /\ made \o s \o t # <<>>
    BY <2>10, <2>12, StepFacts, Zenon
  <2> QED  BY <2>1, <2>13 DEF s
<1> QED  BY <1>1, <1>3, <1>4, <1>5

\* What a search found.
LEMMA SearchFacts ==
  ASSUME NEW v \in Volumes, NEW d \in Homes, NEW n, Found(v, d, n)
  PROVE  LET i == Search(v, d, n).at IN
         /\ i \in 1 .. Size(v, d) /\ i \in SlotsOf(v, d) /\ (IsLong(n) => i > 1)
         /\ EntryOf(v, d, n) = Entries(v, d)[i] /\ EntryOf(v, d, n) \in SlotSet
         /\ IsObject(EntryOf(v, d, n)) /\ EntryOf(v, d, n).first \in Homes
<1> DEFINE es == Entries(v, d)
           objects == SlotsOf(v, d)
           armed == Armed(es, n)
           sfnMet == {i \in objects \ armed : es[i].name = Sfn(n)}
           stops == {Len(es) + 1} \cup {i \in DOMAIN es : es[i].k \in {"free", "junk"}}
                  \cup (objects \cap armed) \cup (IF LostChars(n) THEN {} ELSE sfnMet)
           stop == Min(stops)
           i == Search(v, d, n).at
<1>1. i # 0
  BY DEF Found
<1>2. i = stop /\ stop \in objects
  BY <1>1 DEF Search, Searched
<1>3. /\ DOMAIN es = 1 .. Size(v, d) /\ Size(v, d) \in Nat /\ Len(es) = Size(v, d)
      /\ objects = {k \in 1 .. Size(v, d) : IsObject(es[k])}
      /\ \A k \in 1 .. Size(v, d) : es[k] \in SlotSet
  BY ChainFacts, EntriesSeq DEF SlotsOf
<1>4. IsLong(n) => i > 1
  <2>1. SUFFICES ASSUME IsLong(n) PROVE i > 1
    OBVIOUS
  <2>2. stops \subseteq Nat /\ stops # {}
    BY <1>3
  <2>3. stop \in stops
    BY <2>2, MinFacts
  <2>4. ~(es[stop].k \in {"free", "junk"}) /\ stop # Len(es) + 1
    BY <1>2, <1>3 DEF IsObject
  <2>5. stop \in armed
    BY <2>1, <2>3, <2>4 DEF LostChars
  <2>6. PICK k \in 1 .. stop - 1 : TRUE
    BY <2>5 DEF Armed
  <2>7. stop \in Int
    BY <1>2, <1>3
  <2> HIDE DEF stop
  <2> QED  BY <1>2, <2>6, <2>7
<1>5. EntryOf(v, d, n) = es[i]
  BY DEF EntryOf
<1> HIDE DEF i, stop, stops
<1>6. i \in 1 .. Size(v, d) /\ IsObject(es[i]) /\ es[i] \in SlotSet /\ i \in objects
  BY <1>2, <1>3
<1>7. es[i].first \in Homes
  BY <1>6 DEF SlotSet
<1> HIDE DEF es
<1> QED  BY <1>4, <1>5, <1>6, <1>7 DEF i, es

\* rename, of what was found, to any place.
LEMMA RenameToShape ==
  ASSUME NEW v \in Shapes, NEW d \in Homes, NEW n \in Names, Found(v, d, n),
         NEW e \in Homes, Live(v, e), NEW m \in Names, MayGrow(v, e, m), NEW a \in Sfns(m)
  PROVE  RenameTo(v, d, n, e, m, a) \in Seq(Shapes) /\ RenameTo(v, d, n, e, m, a) # <<>>
<1> DEFINE old == EntryOf(v, d, n)
           i == Search(v, d, n).at
           j == NewIndex(v, e, m)
           made == IF old.k = "file" THEN Create(v, e, m, a) ELSE Mkdir(v, e, m, a)
           u == Last(made)
           f == Last(Create(v, e, m, a))
           c == IF old.k = "file" THEN 0 ELSE FirstFree(f)
<1>0. v \in Volumes /\ a \in Short \cup Alias
  BY NameFacts DEF Shapes
<1>1. i \in 1 .. Size(v, d) /\ (IsLong(n) => i > 1) /\ old \in SlotSet /\ IsObject(old)
  BY <1>0, SearchFacts
<1>2. RenameTo(v, d, n, e, m, a) = Renamed(made, d, n, i, e, j, old, a)
  BY DEF RenameTo
<1> HIDE DEF old, i
<1>3. /\ f \in Shapes /\ i \in 1 .. Size(f, d) /\ j \in 1 .. Size(f, e)
      /\ Entries(f, e)[j] = Slot("file", a, NoName, 0)
      /\ Create(v, e, m, a) \in Seq(Shapes) /\ Create(v, e, m, a) # <<>>
  <2>1. i \in 1 .. Size(Room(v, e, m), d)
    BY <1>1, RoomFacts
  <2>2. /\ f \in Shapes /\ j \in 1 .. Size(f, e)
        /\ Size(f, d) = Size(Room(v, e, m), d) /\ Size(f, e) = Size(Room(v, e, m), e)
        /\ Create(v, e, m, a) \in Seq(Shapes) /\ Create(v, e, m, a) # <<>>
    BY CreateFacts
  <2>3. j \in 1 .. Size(Room(v, e, m), e)
    BY <2>2
  <2> QED  BY <2>1, <2>2, <2>3, CreateFacts
<1>4. CASE old.k = "file"
  <2>1. made = Create(v, e, m, a) /\ u = f /\ c = 0
    BY <1>4
  <2>2. IsNamed(Entries(u, e)[j]) /\ Entries(u, e)[j].first = 0
    BY <1>3, <2>1 DEF IsNamed, Slot
  <2>3. c \in Homes /\ (~rootFixed => c # RootStart) /\ old.k # "dir"
    BY <1>4, <2>1, RootFacts DEF Homes, Root
  <2> HIDE DEF made, j, f, c
  <2>4. u \in Shapes /\ i \in 1 .. Size(u, d) /\ j \in 1 .. Size(u, e) /\ made \in Seq(Shapes) /\ made # <<>>
    BY <1>3, <2>1
  <2> HIDE DEF u
  <2>5. u = Last(made)
    BY DEF u
  <2>6. (old.k = "dir" => Entries(u, e)[j].first = c) /\ (c # 0 => Start(d) # c)
    BY <2>1, <2>3
  <2>7. Renamed(made, d, n, i, e, j, old, a) \in Seq(Shapes) /\ Renamed(made, d, n, i, e, j, old, a) # <<>>
    BY <1>0, <1>1, <2>2, <2>3, <2>4, <2>5, <2>6, RenamedShape
  <2> QED  BY <1>2, <2>7
<1>5. CASE old.k # "file"
  <2>1. made = Mkdir(v, e, m, a) /\ u = Last(Mkdir(v, e, m, a)) /\ c = FirstFree(f)
    BY <1>5
  <2>2. /\ made \in Seq(Shapes) /\ made # <<>> /\ u \in Shapes
        /\ c = 0 => u = f
        /\ c # 0 => DirAt(f, u, e, j, a, c)
    BY <2>1, MkdirFacts
  <2> HIDE DEF made, j, f, c
  <2>3. CASE c = 0
    <3>1. IsNamed(Entries(u, e)[j]) /\ Entries(u, e)[j].first = 0
      BY <1>3, <2>2, <2>3 DEF IsNamed, Slot
    <3>2. c \in Homes /\ (~rootFixed => c # RootStart)
      BY <2>3, RootFacts DEF Homes, Root
    <3>3. u \in Shapes /\ i \in 1 .. Size(u, d) /\ j \in 1 .. Size(u, e)
      BY <1>3, <2>2, <2>3
    <3> HIDE DEF u
    <3>4. u = Last(made)
      BY DEF u
    <3>5. (old.k = "dir" => Entries(u, e)[j].first = c) /\ (c # 0 => Start(d) # c)
      BY <2>3, <3>1
    <3>6. Renamed(made, d, n, i, e, j, old, a) \in Seq(Shapes) /\ Renamed(made, d, n, i, e, j, old, a) # <<>>
      BY <1>0, <1>1, <2>2, <3>1, <3>2, <3>3, <3>4, <3>5, RenamedShape
    <3> QED  BY <1>2, <3>6
  <2>4. CASE c # 0
    <3>1. /\ c \in Clusters \ Taken(f) /\ Size(f, d) \in Nat /\ f \in Volumes /\ Headed(f)
          /\ i \in 1 .. Size(u, d) /\ j \in 1 .. Size(u, e)
          /\ Entries(u, e)[j] = Slot("dir", a, NoName, c)
      BY <1>3, <2>2, <2>4, ChainFacts DEF DirAt, Shapes
    <3>2. IsNamed(Entries(u, e)[j]) /\ Entries(u, e)[j].first = c
      BY <3>1 DEF IsNamed, Slot
    <3>3. f.fat[c] = <<>> /\ (~rootFixed => c # RootStart) /\ c \in Homes /\ c # Root
      BY <3>1, Fresh, RootFacts DEF Homes
    <3>4. Start(d) # c
      <4>1. Start(d) = c => Len(DirChain(f, d)) = 0
        BY <3>1, <3>3, ChainFacts
      <4>2. Len(DirChain(f, d)) = 0 => Size(f, d) = 0
        BY EntriesAssumption DEF Size
      <4> QED  BY <1>3, <3>1, <4>1, <4>2
    <3> HIDE DEF u
    <3>5. u = Last(made)
      BY DEF u
    <3>6. old.k = "dir" => Entries(u, e)[j].first = c
      BY <3>2
    <3>7. c # 0 => Start(d) # c
      BY <3>4
    <3>8. Renamed(made, d, n, i, e, j, old, a) \in Seq(Shapes) /\ Renamed(made, d, n, i, e, j, old, a) # <<>>
      BY <1>0, <1>1, <2>2, <3>1, <3>2, <3>3, <3>5, <3>6, <3>7, RenamedShape
    <3> QED  BY <1>2, <3>8
  <2> QED  BY <2>3, <2>4
<1> QED  BY <1>4, <1>5

\* The 8.3 names that open may give to a name.
LEMMA AliasFacts ==
  ASSUME NEW v, NEW d, NEW n \in Names
  PROVE  Aliases(v, d, n) \subseteq Sfns(n)
<1>1. CASE IsLong(n) /\ ~Search(v, d, n).same
  BY <1>1, NamesAssumption DEF Aliases, Sfns
<1>2. CASE IsLong(n) /\ Search(v, d, n).same
  BY <1>2 DEF Aliases, Sfns
<1>3. CASE ~IsLong(n)
  BY <1>3 DEF Aliases, Sfns
<1> QED  BY <1>1, <1>2, <1>3

\* The directories that the root leads to: with a directory those in it, and every one
\* but the root is in one.
LEMMA DirsFacts ==
  ASSUME NEW v \in Volumes
  PROVE  /\ Dirs(v) \subseteq Homes /\ Root \in Dirs(v)
         /\ \A d \in Dirs(v) : d = Root \/ \E f \in Dirs(v) : \E i \in SlotsOf(v, f) :
              Entries(v, f)[i].k = "dir" /\ Entries(v, f)[i].first = d
<1> DEFINE ds == Dirs(v)
<1>1. ds = {d \in Homes : \A x \in SUBSET Homes : Root \in x /\ Closed(v, x) => d \in x}
  BY DEF Dirs, Subtree, Homes
<1>2. ds \subseteq Homes /\ Root \in ds
  BY <1>1 DEF Homes
<1>3. ASSUME NEW f \in Homes
      PROVE  /\ DirsIn(v, f) \subseteq Homes
             /\ \A d \in DirsIn(v, f) : \E i \in SlotsOf(v, f) :
                  Entries(v, f)[i].k = "dir" /\ Entries(v, f)[i].first = d
  <2> DEFINE es == Entries(v, f)
  <2>1. DOMAIN es = 1 .. Size(v, f) /\ \A i \in DOMAIN es : es[i].first \in Homes
    BY EntriesSeq DEF SlotSet
  <2>2. DirsIn(v, f) = {es[i].first : i \in {i \in DOMAIN es : es[i].k = "dir"}}
    BY DEF DirsIn
  <2>3. SlotsOf(v, f) = {i \in DOMAIN es : IsObject(es[i])}
    BY DEF SlotsOf
  <2> HIDE DEF es
  <2>4. \A i \in DOMAIN es : es[i].k = "dir" => i \in SlotsOf(v, f)
    BY <2>3 DEF IsObject
  <2>5. DirsIn(v, f) \subseteq Homes
    BY <2>1, <2>2
  <2>6. \A d \in DirsIn(v, f) : \E i \in SlotsOf(v, f) : es[i].k = "dir" /\ es[i].first = d
    BY <2>2, <2>4
  <2> QED  BY <2>5, <2>6 DEF es
<1>4. \A f \in ds : DirsIn(v, f) \subseteq ds
  <2> TAKE f \in ds
  <2> SUFFICES ASSUME NEW d \in DirsIn(v, f), NEW x \in SUBSET Homes, Root \in x, Closed(v, x)
               PROVE  d \in Homes /\ d \in x
    BY <1>1, <1>2, <1>3
  <2>1. f \in x
    BY <1>1
  <2> QED  BY <1>2, <1>3, <2>1 DEF Closed
<1>5. ASSUME NEW d \in ds, d # Root, \A f \in ds : d \notin DirsIn(v, f)
      PROVE  FALSE
  <2> DEFINE x == ds \ {d}
  <2>1. x \in SUBSET Homes /\ Root \in x
    BY <1>2, <1>5
  <2>2. Closed(v, x)
    BY <1>4, <1>5 DEF Closed
  <2>3. d \in x
    BY <1>1, <2>1, <2>2
  <2> QED  BY <2>3
<1> HIDE DEF ds
<1>6. \A d \in ds : d = Root \/ \E f \in ds : \E i \in SlotsOf(v, f) :
         Entries(v, f)[i].k = "dir" /\ Entries(v, f)[i].first = d
  <2> TAKE d \in ds
  <2> SUFFICES ASSUME d # Root
               PROVE  \E f \in ds : \E i \in SlotsOf(v, f) : Entries(v, f)[i].k = "dir" /\ Entries(v, f)[i].first = d
    OBVIOUS
  <2>1. PICK f \in ds : d \in DirsIn(v, f)
    BY <1>5
  <2>2. f \in Homes
    BY <1>2
  <2> QED  BY <1>3, <2>1, <2>2
<1> QED  BY <1>2, <1>6 DEF ds

\* What is owned.
LEMMA OwnedFacts ==
  ASSUME NEW v \in Volumes, Owned(v), NEW d \in Dirs(v), NEW i \in SlotsOf(v, d),
         Entries(v, d)[i].first # 0
  PROVE  LET c == Entries(v, d)[i].first IN
         /\ v.fat[c] # <<>> /\ c \notin Range(DirChain(v, Root))
         /\ \A f \in Dirs(v) : \A j \in SlotsOf(v, f) :
              Entries(v, f)[j].first = c => f = d /\ j = i
<1> DEFINE x == [d |-> d, i |-> i, e |-> Entries(v, d)[i]]
           c == Entries(v, d)[i].first
<1>1. \A f \in Dirs(v) : \A j \in SlotsOf(v, f) : [d |-> f, i |-> j, e |-> Entries(v, f)[j]] \in Objects(v)
  BY DEF Objects
<1>2. x \in Objects(v) /\ x.e.first = c
  BY <1>1
<1>3. v.fat[c] # <<>> /\ ClustersOf(v, x.e) \cap Range(DirChain(v, Root)) = {} /\ c \in ClustersOf(v, x.e)
  BY <1>2 DEF Owned, ClustersOf
<1>4. ASSUME NEW f \in Dirs(v), NEW j \in SlotsOf(v, f), Entries(v, f)[j].first = c
      PROVE  f = d /\ j = i
  <2> DEFINE y == [d |-> f, i |-> j, e |-> Entries(v, f)[j]]
  <2>1. y \in Objects(v) /\ y.e.first = c
    BY <1>1, <1>4
  <2>2. c \in ClustersOf(v, y.e)
    BY <2>1 DEF ClustersOf
  <2>3. y = x
    BY <1>2, <1>3, <2>1, <2>2 DEF Owned
  <2>4. y.d = x.d /\ y.i = x.i
    BY <2>3
  <2> QED  BY <2>4
<1> QED  BY <1>3, <1>4

\* The directories that are in use have a chain.
LEMMA LiveFacts ==
  ASSUME NEW v \in Shapes, Owned(v), NEW d \in Dirs(v)
  PROVE  d \in Homes /\ Live(v, d)
<1>1. v \in Volumes /\ Headed(v) /\ d \in Homes
  BY DirsFacts DEF Shapes
<1>2. CASE d = Root
  BY <1>1, <1>2 DEF Live, Start, DirStart, Headed
<1>3. CASE d # Root
  <2>1. PICK f \in Dirs(v) : \E i \in SlotsOf(v, f) : Entries(v, f)[i].k = "dir" /\ Entries(v, f)[i].first = d
    BY <1>1, <1>3, DirsFacts
  <2>2. PICK i \in SlotsOf(v, f) : Entries(v, f)[i].first = d
    BY <2>1
  <2>3. v.fat[d] # <<>>
    BY <1>1, <1>3, <2>2, OwnedFacts DEF Root
  <2>4. Start(d) = d
    BY <1>1, <1>3, RootFacts DEF Homes
  <2> QED  BY <1>1, <2>3, <2>4 DEF Live
<1> QED  BY <1>2, <1>3

\* What remove and rmdir free: neither the root's chain nor that of the entry's directory.
LEMMA RemoveFileShape ==
  ASSUME NEW v \in Shapes, Owned(v), NEW d \in Dirs(v), NEW n \in Names, Found(v, d, n),
         EntryOf(v, d, n).k = "dir" => IsEmpty(v, EntryOf(v, d, n).first)
  PROVE  RemoveFile(v, d, n) \in Seq(Shapes) /\ RemoveFile(v, d, n) # <<>>
<1> DEFINE i == Search(v, d, n).at
           c == EntryOf(v, d, n).first
<1>0. v \in Volumes /\ Headed(v) /\ d \in Homes
  BY DirsFacts DEF Shapes
<1>1. /\ i \in 1 .. Size(v, d) /\ i \in SlotsOf(v, d) /\ (IsLong(n) => i > 1)
      /\ EntryOf(v, d, n) = Entries(v, d)[i] /\ c \in Homes
  BY <1>0, SearchFacts
<1>2. RemoveFile(v, d, n) = RemoveFound(v, d, n, i, c)
  BY DEF RemoveFile
<1>3. Entries(v, d)[i].first = c /\ (Entries(v, d)[i].k = "dir" => IsEmpty(v, c))
  BY <1>1
<1> HIDE DEF i, c
<1>4. ASSUME c # 0 PROVE Start(d) # c /\ (~rootFixed => c # RootStart)
  <2>1. /\ v.fat[c] # <<>> /\ c \notin Range(DirChain(v, Root))
        /\ \A f \in Dirs(v) : \A j \in SlotsOf(v, f) :
             Entries(v, f)[j].first = c => f = d /\ j = i
    BY <1>0, <1>1, <1>3, <1>4, OwnedFacts
  <2>2. c \in Clusters
    BY <1>1, <1>4 DEF Homes, Root
  <2>3. ~rootFixed => c # RootStart
    <3> SUFFICES ASSUME ~rootFixed, c = RootStart PROVE FALSE
      OBVIOUS
    <3>1. DirChain(v, Root) = v.fat[RootStart]
      BY DEF DirChain, DirStart
    <3>2. v.fat[RootStart] # <<>> /\ v.fat[RootStart] \in Seq(Clusters) /\ v.fat[RootStart][1] = RootStart
      BY <1>0, <2>1, <2>2 DEF Headed, Volumes
    <3>3. 1 \in DOMAIN v.fat[RootStart]
      BY <3>2
    <3>4. RootStart \in Range(v.fat[RootStart])
      BY <3>2, <3>3 DEF Range
    <3> QED  BY <2>1, <3>1, <3>4
  <2>4. CASE d = Root
    <3>1. Start(d) = Root \/ (~rootFixed /\ Start(d) = RootStart)
      BY <2>4 DEF Start, DirStart
    <3> QED  BY <1>4, <2>3, <3>1 DEF Root
  <2>5. CASE d # Root
    <3>1. Start(d) = d
      BY <1>0, <2>5, RootFacts DEF Homes
    <3> SUFFICES ASSUME d = c PROVE FALSE
      BY <2>3, <3>1
    <3>2. PICK f \in Dirs(v) : \E j \in SlotsOf(v, f) : Entries(v, f)[j].k = "dir" /\ Entries(v, f)[j].first = d
      BY <1>0, <2>5, DirsFacts
    <3>3. PICK j \in SlotsOf(v, f) : Entries(v, f)[j].k = "dir" /\ Entries(v, f)[j].first = d
      BY <3>2
    <3>4. f = d /\ j = i
      BY <2>1, <3>3
    <3>5. IsEmpty(v, d)
      BY <1>3, <3>3, <3>4
    <3> QED  BY <1>1, <3>5 DEF IsEmpty
  <2> QED  BY <2>3, <2>4, <2>5
<1>5. (c # 0 => Start(d) # c) /\ (~rootFixed => c # RootStart)
  BY <1>4, RootFacts DEF Root
<1>6. RemoveFound(v, d, n, i, c) \in Seq(Shapes) /\ RemoveFound(v, d, n, i, c) # <<>>
  BY <1>0, <1>1, <1>5, RemoveFoundShape
<1> QED  BY <1>2, <1>6

-----------------------------------------------------------------------------
(* The invariant.                                                          *)

\* The volume is one the operations know how to read.
DirInvariant == rootFixed \in BOOLEAN /\ volume \in Shapes

\* What a volume is does not depend on the step that is taken.
LEMMA SameShapes ==
  ASSUME rootFixed' = rootFixed
  PROVE  Shapes' = Shapes
<1>1. \A v, d : DirChain(v, d)' = DirChain(v, d)
  BY DEF DirChain, DirStart
<1>2. \A v, d : Size(v, d)' = Size(v, d)
  BY <1>1 DEF Size
<1>3. \A v, d : Entries(v, d)' = Entries(v, d)
  BY <1>1 DEF Entries
<1>4. \A v : Filled(v)' <=> Filled(v)
  BY <1>2, <1>3 DEF Filled
<1>5. \A v : Headed(v)' <=> Headed(v)
  BY DEF Headed
<1> QED  BY <1>4, <1>5 DEF Shapes, Apart, Bare

\* An empty volume.
LEMMA DirStarts == DirInit => DirInvariant
<1> SUFFICES ASSUME DirInit PROVE DirInvariant
  OBVIOUS
<1> DEFINE v == volume
<1>0. v.fat = fat /\ v.slots = slots /\ v = [fat |-> fat, slots |-> slots]
  BY DEF volume
<1> HIDE DEF v
<1>1. /\ \A c \in Clusters : v.fat[c] = <<>> \/ (c = RootStart /\ v.fat[c] = <<c>>)
      /\ ~rootFixed => v.fat[RootStart] = <<RootStart>>
  BY <1>0, RootFacts DEF DirInit
<1>2. v \in Volumes
  <2>1. fat \in [Clusters -> Seq(Clusters)]
    BY DEF DirInit
  <2>2. slots \in [Homes -> [1 .. PerCluster -> SlotSet]]
    BY SlotFacts DEF DirInit, Homes
  <2> QED  BY <1>0, <2>1, <2>2 DEF Volumes
<1>3. Apart(v)
  <2>1. \A c \in Clusters : \A i \in 1 .. Len(v.fat[c]) : c = RootStart /\ i = 1
    <3> TAKE c \in Clusters
    <3>1. CASE v.fat[c] = <<>>
      BY <3>1
    <3>2. CASE c = RootStart /\ v.fat[c] = <<c>>
      BY <3>2
    <3> QED  BY <1>1, <3>1, <3>2
  <2> QED  BY <2>1 DEF Apart
<1>4. Headed(v)
  <2>1. \A c \in Clusters : v.fat[c] # <<>> => v.fat[c][1] = c
    <3> TAKE c \in Clusters
    <3>1. v.fat[c] = <<c>> => v.fat[c][1] = c
      OBVIOUS
    <3> QED  BY <1>1, <3>1
  <2>2. <<RootStart>> # <<>>
    OBVIOUS
  <2> QED  BY <1>1, <2>1, <2>2 DEF Headed
<1>5. \A x \in Homes, p \in 1 .. PerCluster : v.slots[x][p] = Unused
  BY <1>0, SlotFacts DEF DirInit, Homes
<1>6. Bare(v)
  BY <1>5, SlotFacts DEF Bare, Homes
<1>7. \A d \in Homes : \A i \in 1 .. Size(v, d) : Entries(v, d)[i] = Unused
  BY <1>2, <1>5, AtFacts
<1>8. Filled(v)
  BY <1>7, SlotFacts DEF Filled
<1> QED  BY <1>2, <1>3, <1>4, <1>6, <1>8 DEF DirInvariant, DirInit, Shapes, v

\* An operation that runs to its end, or is cut.
LEMMA LeadsShape ==
  ASSUME NEW steps \in Seq(Shapes), steps # <<>>, DirInvariant, Leads(steps)
  PROVE  DirInvariant'
<1>1. rootFixed' = rootFixed
  BY DEF Leads
<1>2. \A v \in Shapes : v = [fat |-> v.fat, slots |-> v.slots]
  BY DEF Shapes, Volumes
<1>3. PICK v \in Shapes : fat' = v.fat /\ slots' = v.slots
  <2>1. CASE fat' = Last(steps).fat /\ slots' = Last(steps).slots
    <3>1. Last(steps) \in Shapes
      BY StepFacts, Zenon
    <3> QED  BY <2>1, <3>1
  <2>2. CASE \E k \in 1 .. Len(steps) - 1 : fat' = steps[k].fat /\ slots' = steps[k].slots
    <3>1. PICK k \in 1 .. Len(steps) - 1 : fat' = steps[k].fat /\ slots' = steps[k].slots
      BY <2>2
    <3>2. steps[k] \in Shapes
      <4>1. Len(steps) \in Nat
        OBVIOUS
      <4>2. k \in 1 .. Len(steps)
        BY <4>1
      <4> QED  BY <4>2
    <3> QED  BY <3>1, <3>2
  <2> QED  BY <2>1, <2>2 DEF Leads
<1>4. volume' = v
  BY <1>2, <1>3 DEF volume
<1>5. Shapes' = Shapes
  BY <1>1, SameShapes
<1> QED  BY <1>1, <1>4, <1>5 DEF DirInvariant

\* Every operation, cut or not, on a volume whose chains have one owner each.
LEMMA DirSteps == DirInvariant /\ [DirNext]_dirVars => DirInvariant'
<1> SUFFICES ASSUME DirInvariant, [DirNext]_dirVars PROVE DirInvariant'
  OBVIOUS
<1> DEFINE v == volume
<1>0. v \in Shapes /\ v \in Volumes
  BY DEF DirInvariant, Shapes
<1>1. CASE UNCHANGED dirVars
  <2>1. rootFixed' = rootFixed /\ volume' = volume
    BY <1>1 DEF dirVars, volume
  <2>2. Shapes' = Shapes
    BY <2>1, SameShapes
  <2> QED  BY <2>1, <2>2 DEF DirInvariant
<1>2. ASSUME Owned(v), NEW x \in Places PROVE x[1] \in Dirs(v) /\ x[1] \in Homes /\ Live(v, x[1]) /\ x[2] \in Names
  <2>1. x[1] \in Dirs(v) /\ x[2] \in Names
    BY DEF Places
  <2> QED  BY <1>0, <1>2, <2>1, LiveFacts
<1>3. ASSUME NEW x \in Creatable
      PROVE  x \in Places /\ MayGrow(v, x[1], x[2])
  BY DEF Creatable, CanCreate, MayGrow
<1>4. ASSUME NEW x \in Findable PROVE x \in Places /\ Found(v, x[1], x[2])
  BY DEF Findable
<1>5. ASSUME Owned(v), CreateFile PROVE DirInvariant'
  <2>1. PICK x \in Creatable : \E a \in Aliases(v, x[1], x[2]) : Leads(Create(v, x[1], x[2], a))
    BY <1>5 DEF CreateFile
  <2>2. PICK a \in Aliases(v, x[1], x[2]) : Leads(Create(v, x[1], x[2], a))
    BY <2>1
  <2>3. x[1] \in Homes /\ Live(v, x[1]) /\ x[2] \in Names /\ MayGrow(v, x[1], x[2])
    BY <1>2, <1>3, <1>5
  <2>4. a \in Sfns(x[2])
    BY <2>2, <2>3, AliasFacts
  <2>5. Create(v, x[1], x[2], a) \in Seq(Shapes) /\ Create(v, x[1], x[2], a) # <<>>
    BY <1>0, <2>3, <2>4, CreateFacts
  <2> QED  BY <2>2, <2>5, LeadsShape
<1>6. ASSUME Owned(v), MakeDir PROVE DirInvariant'
  <2>1. PICK x \in Creatable : \E a \in Aliases(v, x[1], x[2]) : Leads(Mkdir(v, x[1], x[2], a))
    BY <1>6 DEF MakeDir
  <2>2. PICK a \in Aliases(v, x[1], x[2]) : Leads(Mkdir(v, x[1], x[2], a))
    BY <2>1
  <2>3. x[1] \in Homes /\ Live(v, x[1]) /\ x[2] \in Names /\ MayGrow(v, x[1], x[2])
    BY <1>2, <1>3, <1>6
  <2>4. a \in Sfns(x[2])
    BY <2>2, <2>3, AliasFacts
  <2>5. Mkdir(v, x[1], x[2], a) \in Seq(Shapes) /\ Mkdir(v, x[1], x[2], a) # <<>>
    BY <1>0, <2>3, <2>4, MkdirFacts
  <2> QED  BY <2>2, <2>5, LeadsShape
<1>7. ASSUME Owned(v), Fill PROVE DirInvariant'
  <2>1. PICK x \in Findable :
          /\ FirstFree(v) # 0 /\ EntryAt(x).k = "file"
          /\ Leads(FirstWrite(v, x[1], Search(v, x[1], x[2]).at))
    BY <1>7 DEF Fill
  <2>2. x[1] \in Homes /\ Found(v, x[1], x[2])
    BY <1>2, <1>4, <1>7
  <2> DEFINE i == Search(v, x[1], x[2]).at
  <2>3. i \in 1 .. Size(v, x[1]) /\ Entries(v, x[1])[i].k = "file"
    BY <1>0, <2>1, <2>2, SearchFacts DEF EntryAt
  <2> HIDE DEF i
  <2>4. FirstWrite(v, x[1], i) \in Seq(Shapes) /\ FirstWrite(v, x[1], i) # <<>>
    BY <1>0, <2>1, <2>2, <2>3, FirstWriteShape
  <2> QED  BY <2>1, <2>4, LeadsShape DEF i
<1>8. ASSUME Owned(v), RemoveObject PROVE DirInvariant'
  <2>1. PICK x \in Findable :
          /\ EntryAt(x).k = "dir" => IsEmpty(v, EntryAt(x).first)
          /\ Leads(RemoveFile(v, x[1], x[2]))
    BY <1>8 DEF RemoveObject
  <2>2. x[1] \in Dirs(v) /\ Found(v, x[1], x[2]) /\ x[2] \in Names
    BY <1>2, <1>4, <1>8
  <2>3. EntryOf(v, x[1], x[2]).k = "dir" => IsEmpty(v, EntryOf(v, x[1], x[2]).first)
    BY <2>1 DEF EntryAt
  <2>4. RemoveFile(v, x[1], x[2]) \in Seq(Shapes) /\ RemoveFile(v, x[1], x[2]) # <<>>
    BY <1>0, <1>8, <2>2, <2>3, RemoveFileShape
  <2> QED  BY <2>1, <2>4, LeadsShape
<1>9. ASSUME Owned(v), Rename PROVE DirInvariant'
  <2>1. PICK x \in Findable, y \in Creatable :
          \E a \in Aliases(v, y[1], y[2]) : Leads(RenameTo(v, x[1], x[2], y[1], y[2], a))
    BY <1>9 DEF Rename
  <2>2. PICK a \in Aliases(v, y[1], y[2]) : Leads(RenameTo(v, x[1], x[2], y[1], y[2], a))
    BY <2>1
  <2>3. x[1] \in Homes /\ x[2] \in Names /\ Found(v, x[1], x[2])
    BY <1>2, <1>4, <1>9
  <2>4. y[1] \in Homes /\ Live(v, y[1]) /\ y[2] \in Names /\ MayGrow(v, y[1], y[2])
    BY <1>2, <1>3, <1>9
  <2>5. a \in Sfns(y[2])
    BY <2>2, <2>4, AliasFacts
  <2> DEFINE steps == RenameTo(v, x[1], x[2], y[1], y[2], a)
  <2>6. steps \in Seq(Shapes) /\ steps # <<>>
    BY <1>0, <2>3, <2>4, <2>5, RenameToShape
  <2> HIDE DEF steps
  <2>7. Leads(steps)
    BY <2>2 DEF steps
  <2> QED  BY <2>6, <2>7, LeadsShape
<1> QED  BY <1>1, <1>5, <1>6, <1>7, <1>8, <1>9 DEF DirNext

\* Whatever is created, written, removed or renamed, and wherever an operation is cut: no
\* file, directory or long name is ever behind an entry that was never used, no cluster
\* is in two chains or twice in one, and a chain has the name of the cluster it starts at.
THEOREM DirInvariance == DirSpec => []DirInvariant
<1>1. DirInit => DirInvariant
  BY DirStarts
<1>2. DirInvariant /\ [DirNext]_dirVars => DirInvariant'
  BY DirSteps
<1> QED  BY <1>1, <1>2, PTL DEF DirSpec

-----------------------------------------------------------------------------
(* What open finds is what openNext lists.                                 *)

\* What the names and the kinds of the entries of a directory are to each other, as long
\* as the volume is not damaged.
LEMMA ListFacts ==
  ASSUME NEW v \in Shapes, Owned(v), NoOrphans(v), NamesUnique(v), NEW d \in Dirs(v)
  PROVE  LET es == Entries(v, d)
             objects == SlotsOf(v, d) IN
         /\ DOMAIN es = 1 .. Len(es) /\ Len(es) \in Nat /\ objects = {i \in DOMAIN es : IsObject(es[i])}
         /\ \A i \in DOMAIN es : es[i] \in SlotSet /\ es[i].k # "junk"
         /\ \A i \in DOMAIN es : es[i].k = "lfn" =>
              i + 1 \in objects /\ es[i + 1].name = es[i].sum
         /\ \A i \in objects, j \in DOMAIN es : j < i => es[j].k # "free"
         /\ \A i, j \in objects : NameAt(v, d, i) = NameAt(v, d, j) => i = j
<1> DEFINE es == Entries(v, d)
           objects == SlotsOf(v, d)
<1>0. v \in Volumes /\ Filled(v) /\ d \in Homes
  BY DirsFacts DEF Shapes
<1>1. /\ DOMAIN es = 1 .. Len(es) /\ Len(es) \in Nat /\ Len(es) = Size(v, d)
      /\ objects = {i \in DOMAIN es : IsObject(es[i])}
      /\ \A i \in DOMAIN es : es[i] \in SlotSet
  BY <1>0, EntriesSeq, ChainFacts DEF SlotsOf
<1>2. \A i \in DOMAIN es : es[i].k # "junk"
  BY DEF Owned
<1>3. \A i \in DOMAIN es : es[i].k = "lfn" =>
        i < Len(es) /\ IsObject(es[i + 1]) /\ es[i + 1].name = es[i].sum
  BY DEF NoOrphans
<1>4. \A i \in objects, j \in DOMAIN es : j < i => es[j].k # "free"
  BY <1>0, <1>1 DEF Filled, IsNamed, IsObject
<1>5. ASSUME NEW i \in objects, NEW j \in objects, NameAt(v, d, i) = NameAt(v, d, j) PROVE i = j
  <2> DEFINE x == [d |-> d, i |-> i, e |-> es[i]]
             y == [d |-> d, i |-> j, e |-> es[j]]
  <2>1. x \in Objects(v) /\ y \in Objects(v)
    BY DEF Objects
  <2>2. x.d = d /\ y.d = d /\ x.i = i /\ y.i = j
    OBVIOUS
  <2> HIDE DEF x, y
  <2> QED  BY <1>5, <2>1, <2>2 DEF NamesUnique
<1> HIDE DEF es
<1>6. \A i \in DOMAIN es : es[i].k = "lfn" => i + 1 \in objects /\ es[i + 1].name = es[i].sum
  BY <1>1, <1>3
<1> QED  BY <1>1, <1>2, <1>4, <1>5, <1>6 DEF es

\* A long name ends right before the entries that have it, and there alone.
LEMMA ArmedFacts ==
  ASSUME NEW es, NEW N \in Nat, DOMAIN es = 1 .. N,
         \A i \in DOMAIN es : es[i].k = "lfn" => i + 1 \in DOMAIN es /\ IsObject(es[i + 1]),
         NEW n, NEW i \in DOMAIN es
  PROVE  i \in Armed(es, n) <=> i > 1 /\ es[i - 1].k = "lfn" /\ es[i - 1].name = n
<1> DEFINE last(j) == es[j].k = "lfn" /\ es[j].name = n
<1>1. ASSUME i \in Armed(es, n) PROVE i > 1 /\ last(i - 1)
  <2>1. PICK k \in 1 .. i - 1 : \A j \in i - k .. i - 1 : last(j)
    BY <1>1 DEF Armed
  <2>2. i - 1 \in i - k .. i - 1 /\ i > 1
    BY <2>1
  <2> QED  BY <2>1, <2>2
<1>2. ASSUME i > 1, last(i - 1) PROVE i \in Armed(es, n)
  <2>1. 1 \in 1 .. i - 1 /\ 1 % 2 = 1
    BY <1>2
  <2>2. \A j \in i - 1 .. i - 1 : last(j)
    BY <1>2
  <2>3. 1 = i - 1 \/ ~last(i - 1 - 1)
    <3> SUFFICES ASSUME i # 2, last(i - 2) PROVE FALSE
      OBVIOUS
    <3>1. i - 2 \in DOMAIN es
      BY <1>2
    <3>2. IsObject(es[i - 2 + 1]) /\ i - 2 + 1 = i - 1
      BY <3>1
    <3> QED  BY <1>2, <3>2 DEF IsObject
  <2>4. \E k \in 1 .. i - 1 :
        /\ k % 2 = 1 /\ \A j \in i - k .. i - 1 : last(j)
        /\ k = i - 1 \/ ~last(i - k - 1)
    BY <2>1, <2>2, <2>3
  <2> QED  BY <2>4 DEF Armed
<1> QED  BY <1>1, <1>2

\* The search stops at what is listed, and nowhere before.
LEMMA SearchedFacts ==
  ASSUME NEW es, NEW objects, NEW N \in Nat, DOMAIN es = 1 .. N, Len(es) = N,
         objects = {i \in DOMAIN es : IsObject(es[i])},
         \A i \in DOMAIN es : es[i].k # "junk",
         \A i \in objects, j \in DOMAIN es : j < i => es[j].k # "free",
         NEW n, NEW armed, \A i \in objects \cap armed : es[i - 1].sum = es[i].name,
         NEW listed, listed \subseteq objects, \A i, j \in listed : i = j,
         listed = (objects \cap armed)
                  \cup (IF LostChars(n) THEN {} ELSE {i \in objects \ armed : es[i].name = Sfn(n)})
  PROVE  LET search == Searched(es, n, armed, objects)
         IN ~search.fails /\ listed = {search.at} \ {0}
<1> DEFINE ends == {N + 1} \cup {i \in DOMAIN es : es[i].k \in {"free", "junk"}}
           sfnMet == {i \in objects \ armed : es[i].name = Sfn(n)}
           stop == Min({Len(es) + 1} \cup {i \in DOMAIN es : es[i].k \in {"free", "junk"}}
                       \cup (objects \cap armed) \cup (IF LostChars(n) THEN {} ELSE sfnMet))
           hit == stop \in objects /\ (stop \in armed => es[stop - 1].sum = es[stop].name)
           search == Searched(es, n, armed, objects)
<1>1. stop = Min(ends \cup listed)
  <2>1. {Len(es) + 1} \cup {i \in DOMAIN es : es[i].k \in {"free", "junk"}}
          \cup (objects \cap armed) \cup (IF LostChars(n) THEN {} ELSE sfnMet) = ends \cup listed
    OBVIOUS
  <2> QED  BY <2>1
<1>2. /\ hit => search.at = stop
      /\ ~hit => search.at = 0
      /\ search.fails => stop \in DOMAIN es /\ es[stop].k # "free" /\ ~hit
  BY DEF Searched
<1> HIDE DEF stop, search
<1>3. objects \subseteq 1 .. N
  OBVIOUS
<1>4. stop \in ends \cup listed /\ \A k \in ends \cup listed : stop <= k
  <2>1. ends \cup listed \subseteq Nat /\ ends \cup listed # {}
    BY <1>3
  <2> HIDE DEF ends
  <2> QED  BY <1>1, <2>1, MinFacts
<1>5. CASE listed = {}
  <2>1. stop \in ends
    BY <1>4, <1>5
  <2>2. stop = N + 1 \/ (stop \in DOMAIN es /\ es[stop].k = "free")
    BY <2>1
  <2>3. stop \notin objects
    BY <2>2 DEF IsObject
  <2>4. ~hit
    BY <2>3
  <2>5. stop \in DOMAIN es => es[stop].k = "free"
    BY <2>2
  <2> HIDE DEF hit
  <2>6. search.at = 0 /\ ~search.fails
    BY <1>2, <2>4, <2>5
  <2> QED  BY <1>5, <2>6 DEF search
<1>6. CASE listed # {}
  <2>1. PICK i \in listed : listed = {i}
    BY <1>6
  <2>2. i \in objects /\ i \in 1 .. N
    BY <1>3, <2>1
  <2>3. stop = i
    <3>1. stop <= i
      BY <1>4, <2>1
    <3>2. ~(stop \in DOMAIN es /\ es[stop].k = "free" /\ stop < i)
      BY <2>2
    <3>3. stop \in listed \/ stop = N + 1 \/ (stop \in DOMAIN es /\ es[stop].k = "free")
      BY <1>4
    <3>4. es[i].k # "free"
      BY <2>2 DEF IsObject
    <3> QED  BY <2>1, <2>2, <3>1, <3>2, <3>3, <3>4
  <2>4. hit
    BY <2>2, <2>3
  <2> HIDE DEF hit
  <2>5. search.at = i /\ ~search.fails
    BY <1>2, <2>3, <2>4
  <2>6. i # 0
    BY <2>2
  <2> QED  BY <2>1, <2>5, <2>6 DEF search
<1> QED  BY <1>5, <1>6

\* On a volume that the operations made.
LEMMA FoundListed == DirInvariant => FindsWhatIsListed
<1> SUFFICES ASSUME DirInvariant, NoOrphans(volume), Owned(volume), NamesUnique(volume),
                    NEW d \in Dirs(volume), NEW n \in Names
             PROVE  LET listed == {i \in SlotsOf(volume, d) : NameAt(volume, d, i) = n}
                        search == Search(volume, d, n)
                    IN ~search.fails /\ listed = {search.at} \ {0}
  BY DEF FindsWhatIsListed
<1> DEFINE v == volume
           es == Entries(v, d)
           N == Len(es)
           objects == SlotsOf(v, d)
           armed == Armed(es, n)
           listed == {i \in objects : NameAt(v, d, i) = n}
           sfnMet == {i \in objects \ armed : es[i].name = Sfn(n)}
<1>1. /\ DOMAIN es = 1 .. N /\ N \in Nat /\ objects = {i \in DOMAIN es : IsObject(es[i])}
      /\ \A i \in DOMAIN es : es[i] \in SlotSet /\ es[i].k # "junk"
      /\ \A i \in DOMAIN es : es[i].k = "lfn" =>
           i + 1 \in objects /\ es[i + 1].name = es[i].sum
      /\ \A i \in objects, j \in DOMAIN es : j < i => es[j].k # "free"
      /\ \A i, j \in objects : NameAt(v, d, i) = NameAt(v, d, j) => i = j
  BY ListFacts DEF DirInvariant
<1>2. Search(v, d, n) = Searched(es, n, armed, objects)
  BY DEF Search
<1>3. \A i : NameAt(v, d, i) = IF i > 1 /\ es[i - 1].k = "lfn" THEN es[i - 1].name ELSE es[i].name
  BY DEF NameAt
<1> HIDE DEF v, es, N, objects, armed
<1>4. \A i \in DOMAIN es : i \in armed <=> i > 1 /\ es[i - 1].k = "lfn" /\ es[i - 1].name = n
  BY <1>1, ArmedFacts DEF armed
<1>5. /\ \A i \in objects : i \in DOMAIN es /\ i \in Nat /\ es[i].name \in Short \cup Alias
      /\ \A i \in DOMAIN es : es[i].k = "lfn" => es[i].name \in Long /\ es[i].sum \in Alias
  BY <1>1 DEF SlotSet, Right
<1>6. ASSUME NEW i \in objects, i > 1, es[i - 1].k = "lfn"
      PROVE  es[i - 1].name \in Long /\ es[i].name = es[i - 1].sum /\ es[i].name \in Alias
  <2>1. i - 1 \in DOMAIN es /\ i - 1 + 1 = i
    BY <1>1, <1>5, <1>6
  <2> QED  BY <1>1, <1>5, <1>6, <2>1
<1>7. \A i \in objects \cap armed : es[i - 1].sum = es[i].name
  BY <1>4, <1>5, <1>6
<1>8. listed \subseteq objects /\ \A i, j \in listed : i = j
  BY <1>1
<1>9. listed = (objects \cap armed) \cup (IF LostChars(n) THEN {} ELSE sfnMet)
  <2>1. CASE n \in Long
    <3>1. n \notin Short \cup Alias
      BY <2>1, NamesAssumption
    <3>2. \A i \in objects : NameAt(v, d, i) = n <=> i \in armed
      BY <1>3, <1>4, <1>5, <3>1
    <3> QED  BY <2>1, <3>2 DEF LostChars, IsLong
  <2>2. CASE n \notin Long
    <3>1. n \in Short /\ n \notin Alias /\ Sfn(n) = n
      BY <2>2, NamesAssumption DEF Names, Sfn, IsLong
    <3>2. \A i \in objects : i \notin armed
      BY <1>4, <1>5, <1>6, <2>2
    <3>3. \A i \in objects : NameAt(v, d, i) = n <=> es[i].name = n
      <4> TAKE i \in objects
      <4>1. CASE i > 1 /\ es[i - 1].k = "lfn"
        BY <1>3, <1>6, <2>2, <3>1, <4>1
      <4>2. CASE ~(i > 1 /\ es[i - 1].k = "lfn")
        BY <1>3, <4>2
      <4> QED  BY <4>1, <4>2
    <3> QED  BY <2>2, <3>1, <3>2, <3>3 DEF LostChars, IsLong
  <2> QED  BY <2>1, <2>2
<1> DEFINE search == Searched(es, n, armed, objects)
<1>10. ~search.fails /\ listed = {search.at} \ {0}
  <2>1. Len(es) = N
    BY DEF N
  <2> HIDE DEF listed
  <2>2. /\ N \in Nat /\ DOMAIN es = 1 .. N /\ objects = {i \in DOMAIN es : IsObject(es[i])}
        /\ \A i \in DOMAIN es : es[i].k # "junk"
        /\ \A i \in objects, j \in DOMAIN es : j < i => es[j].k # "free"
        /\ \A i \in objects \cap armed : es[i - 1].sum = es[i].name
        /\ listed \subseteq objects /\ \A i, j \in listed : i = j
    BY <1>1, <1>7, <1>8
  <2>3. listed = (objects \cap armed)
           \cup (IF LostChars(n) THEN {} ELSE {i \in objects \ armed : es[i].name = Sfn(n)})
    BY <1>9
  <2> HIDE DEF sfnMet
  <2> QED  BY <2>1, <2>2, <2>3, SearchedFacts
<1> QED  BY <1>2, <1>10 DEF v, objects

\* open finds exactly what openNext lists, under its name, in every directory, after
\* whatever operations, cut or not, as long as the volume is not damaged.
THEOREM FindsAlways == DirSpec => []FindsWhatIsListed
<1>1. DirSpec => []DirInvariant
  BY DirInvariance
<1>2. DirInvariant => FindsWhatIsListed
  BY FoundListed
<1> QED  BY <1>1, <1>2, PTL
==============================================================================
