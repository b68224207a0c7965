-------------------------------- MODULE FsLib --------------------------------
(***************************************************************************)
(* FsVolume and FsBaseFile (src/FsLib), the classes SdFs gives a program:  *)
(* a volume holds a FatVolume or an ExFatVolume, a file holds a FatFile or *)
(* an ExFatFile built in its own memory, and every call is passed to the   *)
(* object a pointer is set for.  Several files on several cards; files are *)
(* copied and assigned like values.                                        *)
(*                                                                         *)
(* What the objects do is reduced to names, sizes, positions and the flag  *)
(* that the directory entry must be written.  The caller keeps the rules   *)
(* of the documentation: a file that is written, renamed or removed is     *)
(* open in one object only (FsFile.h:399), and files are closed before     *)
(* their volume ends.                                                      *)
(***************************************************************************)
EXTENDS Integers, FiniteSets

CONSTANTS
  Handles,      \* the FsBaseFile objects
  SdVolumes,    \* the SdFs objects, a card each
  Large,        \* those with a card of more than 67108864 sectors
  Names,        \* names in the root directory
  MaxLength,    \* bound on the size of a file
  PosWidth,         \* 2^32, scaled down
  MaxHandleFaults,   \* bound on the calls that fail for an error of the card
  MaxFormats,   \* bound on format()
  MaxEntries    \* bound on the entries on all cards

ASSUME FsAssumption ==
  /\ Large \subseteq SdVolumes /\ "none" \notin SdVolumes /\ Names \cap {"none", "root"} = {}
  /\ {MaxHandleFaults, MaxFormats, MaxEntries} \subseteq Nat
  /\ MaxLength \in Nat \ {0} /\ PosWidth \in Nat /\ MaxLength < PosWidth

VARIABLES
  m_fVol, m_xVol,     \* per volume: the pointer is set (0 or 1)
  m_fFile, m_xFile,   \* per file: the pointer is set (0 or 1)
  m_fileMem,          \* per file: the object in its memory
  disk,               \* per card: the file system and the entries of its root
  written,            \* auxiliary: the sizes the entries should have
  handleFaults, formats,
  spoiled,            \* auxiliary: the files whose last close() or remove() failed, and the
                      \* copies of such files
  answer              \* the last seek: what was asked and what came back

fsFiles == <<m_fFile, m_xFile, m_fileMem>>
fsVolumes == <<m_fVol, m_xVol>>
fsVars == <<fsVolumes, fsFiles, disk, written, handleFaults, formats, spoiled, answer>>
fsState == <<fsVolumes, fsFiles, disk, written, handleFaults, formats, spoiled>>

NoEntry == -1
Directory == -2
Blank == [n \in Names |-> NoEntry]
Nobody == [kind |-> "none", vol |-> "none", name |-> "none", size |-> 0, pos |-> 0, dirty |-> 0]
\* What an object is after its close().
Shut(kind) == [Nobody EXCEPT !.kind = kind]

\* SdFs::format: exFAT for a card too large for FAT.
FormatOf(v) == IF v \in Large THEN "exFAT" ELSE "FAT"
NoAnswer == [asked |-> 0, ok |-> 0, at |-> 0]
FsInit ==
  /\ m_fVol = [v \in SdVolumes |-> 0] /\ m_xVol = [v \in SdVolumes |-> 0]
  /\ m_fFile = [h \in Handles |-> 0] /\ m_xFile = [h \in Handles |-> 0]
  /\ m_fileMem = [h \in Handles |-> Nobody]
  /\ disk = [v \in SdVolumes |-> [fs |-> FormatOf(v), entry |-> Blank]]
  /\ written = [v \in SdVolumes |-> Blank] /\ handleFaults = 0 /\ formats = 0
  /\ spoiled = {} /\ answer = NoAnswer

-----------------------------------------------------------------------------
(* The dispatch.                                                           *)

\* The object a call is passed to: every call asks m_fFile first.
Reached(h) == IF m_fFile[h] = 1 THEN "FAT" ELSE IF m_xFile[h] = 1 THEN "exFAT" ELSE "none"
isOpen(h) == Reached(h) # "none"
\* A pointer that is set for memory with an object of the other class: what a call does then
\* is undefined, and the model goes no further with this object.
Mistaken(h) == (m_fFile[h] = 1 /\ m_fileMem[h].kind # "FAT") \/ (m_xFile[h] = 1 /\ m_fileMem[h].kind # "exFAT")
FsOf(v) == IF m_fVol[v] = 1 THEN "FAT" ELSE IF m_xVol[v] = 1 THEN "exFAT" ELSE "none"
Opened(h) == isOpen(h) /\ ~Mistaken(h) /\ m_fileMem[h].name # "none"
IsRoot(h) == Opened(h) /\ m_fileMem[h].name = "root"
IsEntry(h) == Opened(h) /\ m_fileMem[h].name # "root"
SizeOf(h) == m_fileMem[h].size
isFile(h) == IsEntry(h) /\ disk[m_fileMem[h].vol].entry[m_fileMem[h].name] # Directory
Sole(h) == \A g \in Handles \ {h} : m_fileMem[g].name # m_fileMem[h].name \/ m_fileMem[g].vol # m_fileMem[h].vol
Unopened(v, n) == \A h \in Handles : ~(m_fileMem[h].vol = v /\ m_fileMem[h].name = n)

\* sync() of the object o: the entry gets the size, unless the entry was deleted.
Saved(d, o) == IF o.dirty = 1 THEN [d EXCEPT ![o.vol].entry[o.name] = o.size] ELSE d
CanFail == handleFaults < MaxHandleFaults
Room == Cardinality({e \in SdVolumes \X Names : disk[e[1]].entry[e[2]] # NoEntry}) < MaxEntries
Fails(failed) == IF failed THEN CanFail /\ handleFaults' = handleFaults + 1 ELSE UNCHANGED handleFaults

\* close(): the object is closed even when its sync() fails, the pointer then stays.
\* What is left of <<m_fFile, m_xFile, m_fileMem, disk>> of the file h.
AfterClose(h, failed) ==
  IF ~isOpen(h) THEN [f |-> 0, x |-> 0, mem |-> m_fileMem[h], disk |-> disk]
  ELSE [f |-> IF m_fFile[h] = 1 /\ failed THEN 1 ELSE 0,
        x |-> IF m_fFile[h] = 1 THEN m_xFile[h] ELSE IF failed THEN 1 ELSE 0,
        mem |-> Shut(m_fileMem[h].kind),
        disk |-> IF failed THEN disk ELSE Saved(disk, m_fileMem[h])]
\* Called again, close() finds a closed object and resets the pointer.
Spoils(h, failed) == spoiled' = IF failed THEN spoiled \cup {h} ELSE spoiled \ {h}
\* A failure is one of the card's: only an object with something to write meets it.
MayFail(h) == {FALSE} \cup (IF Opened(h) /\ CanFail THEN {TRUE} ELSE {})

\* Mutant: the object that is there is not closed first.
Overwritten(h, failed) == [f |-> m_fFile[h], x |-> m_xFile[h], mem |-> m_fileMem[h], disk |-> disk]
\* The call closes what the file held, ignoring how that ended.
Before(h, failed) == AfterClose(h, failed)

\* Mutant: the pointer stays set when the object did not open.
PointerKept(h, was, kind, object) ==
  /\ m_fFile' = [m_fFile EXCEPT ![h] = IF kind = "FAT" THEN 1 ELSE was.f]
  /\ m_xFile' = [m_xFile EXCEPT ![h] = IF kind = "exFAT" THEN 1 ELSE was.x]
  /\ m_fileMem' = [m_fileMem EXCEPT ![h] = object]
\* h gets a new object of the class kind; its pointer stays set only if the object opened.
Installs(h, was, kind, object) ==
  /\ m_fFile' = [m_fFile EXCEPT ![h] = IF kind = "FAT" THEN (IF object.name # "none" THEN 1 ELSE 0) ELSE was.f]
  /\ m_xFile' = [m_xFile EXCEPT ![h] = IF kind = "exFAT" THEN (IF object.name # "none" THEN 1 ELSE 0) ELSE was.x]
  /\ m_fileMem' = [m_fileMem EXCEPT ![h] = object]
Leaves(h, was) ==
  /\ m_fFile' = [m_fFile EXCEPT ![h] = was.f] /\ m_xFile' = [m_xFile EXCEPT ![h] = was.x]
  /\ m_fileMem' = [m_fileMem EXCEPT ![h] = was.mem] /\ disk' = was.disk /\ UNCHANGED written

\* What open() makes of the name n of volume v, of the class kind: an entry, a new entry whose
\* first sync() is still to come, or a closed object.
Object(kind, v, n, size, dirty) ==
  [kind |-> kind, vol |-> v, name |-> n, size |-> size, pos |-> 0, dirty |-> dirty]
OpenEntry(h, was, v, kind, n, create, fails) ==
  LET entry == was.disk[v].entry[n] IN
  IF fails \/ (entry = NoEntry /\ ~create)
  THEN Installs(h, was, kind, Shut(kind)) /\ disk' = was.disk /\ UNCHANGED written
  ELSE IF entry = NoEntry
  THEN /\ Room /\ Installs(h, was, kind, Object(kind, v, n, 0, 1))
       /\ disk' = [was.disk EXCEPT ![v].entry[n] = 0] /\ written' = [written EXCEPT ![v][n] = 0]
  ELSE /\ Installs(h, was, kind, Object(kind, v, n, IF entry = Directory THEN 0 ELSE entry, 0))
       /\ disk' = was.disk /\ UNCHANGED written

-----------------------------------------------------------------------------
(* Opening and closing.                                                    *)
Close(h) ==
  /\ isOpen(h) /\ ~Mistaken(h)
  /\ \E failed \in MayFail(h) : Leaves(h, AfterClose(h, failed)) /\ Fails(failed) /\ Spoils(h, failed)
  /\ UNCHANGED <<fsVolumes, formats, answer>>

\* open(vol, path, oflag); open(path, oflag) is this on the working volume.
Open(h) == \E v \in SdVolumes, n \in Names, create \in BOOLEAN, failed \in MayFail(h), fails \in {FALSE, CanFail} :
  /\ ~Mistaken(h) /\ ~(failed /\ fails)
  /\ LET was == Before(h, failed) IN
     IF FsOf(v) = "none" THEN Leaves(h, was) ELSE OpenEntry(h, was, v, FsOf(v), n, create, fails)
  /\ Fails(failed \/ fails) /\ Spoils(h, failed) /\ UNCHANGED <<fsVolumes, formats, answer>>
openRoot(h) == \E v \in SdVolumes, failed \in MayFail(h) :
  /\ ~Mistaken(h)
  /\ LET was == Before(h, failed) IN
     IF FsOf(v) = "none" THEN Leaves(h, was)
     ELSE Installs(h, was, FsOf(v), Object(FsOf(v), v, "root", 0, 0)) /\ disk' = was.disk /\ UNCHANGED written
  /\ Fails(failed) /\ Spoils(h, failed) /\ UNCHANGED <<fsVolumes, formats, answer>>

\* open(dir, path, oflag), open(dir, index, oflag), openNext(dir, oflag): when dir is the file
\* itself it is closed by then and nothing opens.
OpenIn(h, dir) == \E n \in Names, create \in BOOLEAN, failed \in MayFail(h) :
  /\ ~Mistaken(h) /\ IsRoot(dir)
  /\ LET was == Before(h, failed) IN
     IF dir = h /\ was.f = 0 /\ was.x = 0 THEN Leaves(h, was)
     ELSE dir # h /\ OpenEntry(h, was, m_fileMem[dir].vol, Reached(dir), n, create, FALSE)
  /\ Fails(failed) /\ Spoils(h, failed) /\ UNCHANGED <<fsVolumes, formats, answer>>
mkdir(h, dir) == \E n \in Names, failed \in MayFail(h) :
  /\ ~Mistaken(h) /\ IsRoot(dir) /\ dir # h
  /\ LET was == Before(h, failed)
         v == m_fileMem[dir].vol
         kind == Reached(dir)
     IN IF was.disk[v].entry[n] # NoEntry
        THEN Installs(h, was, kind, Shut(kind)) /\ disk' = was.disk /\ UNCHANGED written
        ELSE /\ Room /\ Installs(h, was, kind, Object(kind, v, n, 0, 0))
             /\ disk' = [was.disk EXCEPT ![v].entry[n] = Directory]
             /\ written' = [written EXCEPT ![v][n] = Directory]
  /\ Fails(failed) /\ Spoils(h, failed) /\ UNCHANGED <<fsVolumes, formats, answer>>

\* The copy constructor, and operator= (the file is closed first).
Assign(h, from) == \E failed \in MayFail(h) :
  /\ h # from /\ ~Mistaken(h) /\ ~Mistaken(from)
  /\ LET was == Before(h, failed) IN
     IF ~isOpen(from) THEN Leaves(h, was)
     ELSE /\ m_fFile' = [m_fFile EXCEPT ![h] = IF Reached(from) = "FAT" THEN 1 ELSE was.f]
          /\ m_xFile' = [m_xFile EXCEPT ![h] = IF Reached(from) = "exFAT" THEN 1 ELSE was.x]
          /\ m_fileMem' = [m_fileMem EXCEPT ![h] = m_fileMem[from]]
          /\ disk' = was.disk /\ UNCHANGED written
  /\ Fails(failed) /\ Spoils(h, failed \/ from \in spoiled) /\ UNCHANGED <<fsVolumes, formats, answer>>

\* remove() and rmdir(): the pointer is reset when the object was removed.  An error before the
\* entry is marked leaves the object open.  An error afterwards, in writing the mark or in the
\* entries of the long name, finds the object closed already: the pointer stays set for a closed
\* object, and the entry is on the card or not.  (What an error leaves of a set of exFAT entries
\* marked in part counts as the entry, and a directory whose rmdir() failed is not written.)
Remove(h) ==
  /\ IsEntry(h) /\ Sole(h)
  /\ LET v == m_fileMem[h].vol n == m_fileMem[h].name IN
     \/ /\ m_fFile' = [m_fFile EXCEPT ![h] = 0]
        /\ m_xFile' = [m_xFile EXCEPT ![h] = IF m_fFile[h] = 1 THEN @ ELSE 0]
        /\ m_fileMem' = [m_fileMem EXCEPT ![h] = Shut(@.kind)]
        /\ disk' = [disk EXCEPT ![v].entry[n] = NoEntry]
        /\ written' = [written EXCEPT ![v][n] = NoEntry]
        /\ Fails(FALSE) /\ Spoils(h, FALSE)
     \/ Fails(TRUE) /\ UNCHANGED <<fsFiles, disk, written, spoiled>>
     \/ /\ Fails(TRUE) /\ Spoils(h, TRUE) /\ UNCHANGED <<m_fFile, m_xFile>>
        /\ m_fileMem' = [m_fileMem EXCEPT ![h] = Shut(@.kind)]
        /\ \E left \in {disk[v].entry[n], NoEntry} : disk' = [disk EXCEPT ![v].entry[n] = left]
        /\ written' = [written EXCEPT ![v][n] = NoEntry]
  /\ UNCHANGED <<fsVolumes, formats, answer>>
\* remove(path) of a directory, and of a volume.
RemoveName == \E v \in SdVolumes, n \in Names :
  /\ FsOf(v) # "none" /\ disk[v].entry[n] # NoEntry /\ Unopened(v, n)
  /\ disk' = [disk EXCEPT ![v].entry[n] = NoEntry] /\ written' = [written EXCEPT ![v][n] = NoEntry]
  /\ UNCHANGED <<fsVolumes, fsFiles, handleFaults, formats, answer, spoiled>>
\* rename(dirFile, newPath), with dirFile of the same class: the object saves its entry, the
\* entry moves.  A directory of another volume is refused.
rename(h, dir) == \E n \in Names :
  /\ isFile(h) /\ Sole(h) /\ IsRoot(dir) /\ Reached(dir) = Reached(h)
  /\ m_fileMem[dir].vol = m_fileMem[h].vol
  /\ LET v == m_fileMem[h].vol o == m_fileMem[h] IN
     /\ disk[v].entry[n] = NoEntry
     /\ m_fileMem' = [m_fileMem EXCEPT ![h].name = n, ![h].dirty = 0]
     /\ disk' = [disk EXCEPT ![v].entry[n] = o.size, ![v].entry[o.name] = NoEntry]
     /\ written' = [written EXCEPT ![v][n] = o.size, ![v][o.name] = NoEntry]
  /\ UNCHANGED <<fsVolumes, m_fFile, m_xFile, handleFaults, formats, answer, spoiled>>

-----------------------------------------------------------------------------
(* Data.                                                                   *)
Sync(h) == \E failed \in MayFail(h) :
  /\ IsEntry(h) /\ m_fileMem[h].dirty = 1
  /\ IF failed THEN UNCHANGED <<m_fileMem, disk>>
     ELSE m_fileMem' = [m_fileMem EXCEPT ![h].dirty = 0] /\ disk' = Saved(disk, m_fileMem[h])
  /\ Fails(failed) /\ UNCHANGED <<fsVolumes, m_fFile, m_xFile, written, formats, answer, spoiled>>
Write(h) ==
  /\ isFile(h) /\ Sole(h) /\ m_fileMem[h].pos < MaxLength
  /\ LET o == m_fileMem[h] grown == IF o.pos = o.size THEN o.size + 1 ELSE o.size IN
     /\ m_fileMem' = [m_fileMem EXCEPT ![h].pos = @ + 1, ![h].size = grown, ![h].dirty = 1]
     /\ written' = [written EXCEPT ![o.vol][o.name] = grown]
  /\ UNCHANGED <<fsVolumes, m_fFile, m_xFile, disk, handleFaults, formats, answer, spoiled>>

\* The position a FatFile gets is 32 bits wide.
\* Mutant: FsBaseFile does not look at the upper half of a position.
PassesLow(h, pos) == IF Reached(h) = "FAT" THEN {pos % PosWidth} ELSE {pos}
Passes(h, pos) == IF Reached(h) = "FAT" THEN {p \in {pos} : p < PosWidth} ELSE {pos}
\* seekSet(pos): seekCur and seekEnd add to 64 bits, a negative sum becomes a very large one.
Wrapped(pos) == IF pos < 0 THEN PosWidth * PosWidth + pos ELSE pos
SeeksTo(h, pos) == {p \in Passes(h, Wrapped(pos)) : p <= SizeOf(h)}
Seek(h) == \E base \in {0, m_fileMem[h].pos, m_fileMem[h].size}, offset \in {-1, 1, PosWidth} :
  /\ isFile(h)
  /\ LET to == SeeksTo(h, base + offset) IN
     /\ answer' = [asked |-> base + offset, ok |-> IF to = {} THEN 0 ELSE 1,
                   at |-> IF to = {} THEN 0 ELSE CHOOSE p \in to : TRUE]
     /\ IF to = {} THEN UNCHANGED m_fileMem ELSE \E p \in to : m_fileMem' = [m_fileMem EXCEPT ![h].pos = p]
  /\ UNCHANGED <<fsVolumes, m_fFile, m_xFile, disk, written, handleFaults, formats, spoiled>>
\* truncate(length); truncate() is this at the position.
Truncate(h) == \E length \in {0, 1, PosWidth} :
  /\ isFile(h) /\ Sole(h)
  /\ \E p \in SeeksTo(h, length) :
       /\ m_fileMem' = [m_fileMem EXCEPT ![h].pos = p, ![h].size = p, ![h].dirty = 0]
       /\ disk' = Saved(disk, [m_fileMem[h] EXCEPT !.size = p, !.dirty = 1])
       /\ written' = [written EXCEPT ![m_fileMem[h].vol][m_fileMem[h].name] = p]
       /\ answer' = [asked |-> length, ok |-> 1, at |-> p]
  /\ UNCHANGED <<fsVolumes, m_fFile, m_xFile, handleFaults, formats, spoiled>>
\* preAllocate(length) of an empty file: a FAT file has that size at once.
PreAllocate(h) == \E length \in {1, PosWidth + 1} :
  /\ isFile(h) /\ Sole(h) /\ SizeOf(h) = 0
  /\ \E p \in Passes(h, length) :
       LET o == m_fileMem[h] size == IF Reached(h) = "FAT" THEN p ELSE 0 IN
       /\ m_fileMem' = [m_fileMem EXCEPT ![h].size = size, ![h].dirty = 0]
       /\ disk' = [disk EXCEPT ![o.vol].entry[o.name] = size]
       /\ written' = [written EXCEPT ![o.vol][o.name] = size]
  /\ UNCHANGED <<fsVolumes, m_fFile, m_xFile, handleFaults, formats, answer, spoiled>>

-----------------------------------------------------------------------------
(* Volumes.                                                                *)
NoFileOn(v) == \A h \in Handles : m_fileMem[h].vol # v
end(v) == m_fVol' = [m_fVol EXCEPT ![v] = 0] /\ m_xVol' = [m_xVol EXCEPT ![v] = 0]
\* begin(): what is mounted is what is on the card, or nothing after an error of the card.
BeginVolume(v) == \E fails \in {FALSE, CanFail} :
  /\ NoFileOn(v) /\ Fails(fails)
  /\ IF fails \/ disk[v].fs = "none" THEN end(v)
     ELSE /\ m_fVol' = [m_fVol EXCEPT ![v] = IF disk[v].fs = "FAT" THEN 1 ELSE 0]
          /\ m_xVol' = [m_xVol EXCEPT ![v] = IF disk[v].fs = "exFAT" THEN 1 ELSE 0]
  /\ UNCHANGED <<fsFiles, disk, written, formats, answer, spoiled>>
\* SdFs::format: an error before the first write leaves the volume mounted, a later one no file system.
Format(v) == \E outcome \in {"done"} \cup (IF CanFail THEN {"unread", "broken"} ELSE {}) :
  /\ NoFileOn(v) /\ formats < MaxFormats /\ formats' = formats + 1 /\ Fails(outcome # "done")
  /\ IF outcome = "unread" THEN UNCHANGED <<fsVolumes, disk, written>>
     ELSE /\ end(v) /\ written' = [written EXCEPT ![v] = Blank]
          /\ disk' = [disk EXCEPT ![v] = [entry |-> Blank, fs |->
                        IF outcome = "broken" THEN "none" ELSE FormatOf(v)]]
  /\ UNCHANGED <<fsFiles, answer, spoiled>>

FsNext ==
  \/ \E h \in Handles :
       \/ Close(h) \/ Open(h) \/ openRoot(h) \/ Remove(h) \/ Sync(h) \/ Write(h)
       \/ Seek(h) \/ Truncate(h) \/ PreAllocate(h)
       \/ \E g \in Handles : OpenIn(h, g) \/ mkdir(h, g) \/ Assign(h, g) \/ rename(h, g)
  \/ RemoveName
  \/ \E v \in SdVolumes : BeginVolume(v) \/ Format(v)

FsSpec == FsInit /\ [][FsNext]_fsVars

-----------------------------------------------------------------------------
(* Properties.                                                             *)

\* Whatever is opened, copied, assigned, removed and mounted in whatever order, with calls
\* that fail: an open object is on a volume mounted with its file system, and the pointer of its
\* class is set.  A file that says it is open has an open object of the class its pointer says,
\* and only one pointer, unless its last close() or remove() failed: those may leave the pointer
\* set for an object they closed, until a close() or an open() of the file.
FilesSound ==
  /\ \A h \in Handles : LET o == m_fileMem[h] IN
       o.name # "none" => /\ FsOf(o.vol) = o.kind
                          /\ (o.kind = "FAT" /\ m_fFile[h] = 1) \/ (o.kind = "exFAT" /\ m_xFile[h] = 1)
  /\ \A h \in Handles \ spoiled :
       /\ ~Mistaken(h) /\ m_fFile[h] + m_xFile[h] <= 1
       /\ isOpen(h) <=> m_fileMem[h].name # "none"

\* What was written is in the entry, or still to be saved by a file that is open.
WrittenIsKept == handleFaults = 0 => \A v \in SdVolumes, n \in Names :
  \/ disk[v].entry[n] = written[v][n]
  \/ \E h \in Handles : m_fileMem[h].vol = v /\ m_fileMem[h].name = n
                          /\ m_fileMem[h].dirty = 1 /\ SizeOf(h) = written[v][n]

\* The files of a program are sound and lose nothing (FsBaseFile, its copy, assignment and open).
HandlesSound == FilesSound /\ WrittenIsKept

\* A seek or truncate that says it succeeded is at the position asked for, as an integer:
\* nothing is cut off or wrapped on the way from 64 bits to the 32 of a FAT file.
SeeksExact == [][answer' # answer /\ answer'.ok = 1 => answer'.at = answer'.asked]_fsVars
=============================================================================
