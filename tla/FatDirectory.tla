---------------------------- MODULE FatDirectory ----------------------------
(***************************************************************************)
(* The directories of a FAT volume with long names: FatFileLFN.cpp and the *)
(* directory functions of FatFile.cpp and FatVolume.cpp.                   *)
(*                                                                         *)
(* An operation is the list of volumes its writes lead through, in the     *)
(* order the one-sector cache brings them to the device.  It runs to its   *)
(* end, or is cut: a write fails and it returns false, or the power goes.  *)
(*                                                                         *)
(* Which free cluster is taken does not matter here: it is the lowest.     *)
(*                                                                         *)
(* A name is short (it is its own 8.3 name) or long: one long-name entry   *)
(* before the 8.3 entry, whose 8.3 name is an alias.  All long names lose  *)
(* characters and want the same first alias.  The checksum in a long-name  *)
(* entry stands for the alias it was made from.  Files have at most one    *)
(* cluster.                                                                *)
(***************************************************************************)
EXTENDS Integers, Sequences, SequencesExt, FiniteSetsExt

CONSTANTS
  Clusters,      \* data clusters
  PerCluster,    \* directory entries in a cluster
  Short, Long,   \* names
  Alias, First,  \* 8.3 names of long names, and the one makeSFN makes
  NoName,
  MaxCuts        \* bound on the operations that are cut

ASSUME ClustersAssumption == Clusters # {} /\ Clusters \subseteq Nat \ {0}
\* There is room for "." and "..".
ASSUME EntriesAssumption == PerCluster \in Nat /\ PerCluster >= 2
\* The short names in use are not aliases of long ones.
ASSUME NamesAssumption ==
  First \in Alias /\ Short \cap Long = {} /\ Alias \cap (Short \cup Long) = {}

Root == 0          \* m_firstCluster of the root directory
Names == Short \cup Long
RootStart == CHOOSE c \in Clusters : \A e \in Clusters : c <= e

VARIABLES
  rootFixed,  \* a FAT16 root: its entries are not in clusters and their number is fixed
  fat,        \* the file allocation table: the chain that starts at a cluster, or <<>>
  slots,      \* the directory entries in a cluster (and in the fixed root)
  cuts        \* the operations that were cut

dirVars == <<rootFixed, fat, slots, cuts>>
volume == [fat |-> fat, slots |-> slots]

Slot(k, name, sum, first) == [k |-> k, name |-> name, sum |-> sum, first |-> first]
Unused == Slot("free", NoName, NoName, 0)
Deleted == Slot("del", NoName, NoName, 0)
DotDot(d) == Slot("dotdot", NoName, NoName, d)
\* What is in a cluster that was not zeroed.
Junk == [i \in 1 .. PerCluster |-> Slot("junk", NoName, NoName, 0)]
Zeroed == [i \in 1 .. PerCluster |-> Unused]
IsLong(n) == n \in Long
Sfn(n) == IF IsLong(n) THEN First ELSE n

DirInit ==
  /\ rootFixed \in BOOLEAN
  /\ fat = [c \in Clusters |-> IF c = RootStart /\ ~rootFixed THEN <<c>> ELSE <<>>]
  /\ slots = [c \in Clusters \cup {Root} |-> Zeroed]
  /\ cuts = 0

-----------------------------------------------------------------------------
(* Chains and the entries of a directory.  v is a volume.                  *)
Taken(v) == UNION {Range(v.fat[c]) : c \in Clusters}
\* What is in a free cluster does not matter.
FreeChain(v, c) ==
  [fat |-> [v.fat EXCEPT ![c] = <<>>],
   slots |-> [d \in DOMAIN v.slots |-> IF d \in Range(v.fat[c]) THEN Zeroed ELSE v.slots[d]]]
DirStart(d) == IF d = Root THEN RootStart ELSE d
DirChain(v, d) == IF d = Root /\ rootFixed THEN <<Root>> ELSE v.fat[DirStart(d)]
\* cacheDir: the cluster and the offset of entry i.
At(v, d, i) == <<DirChain(v, d)[(i - 1) \div PerCluster + 1], ((i - 1) % PerCluster) + 1>>
Entries(v, d) ==
  LET chain == DirChain(v, d)
  IN [i \in 1 .. PerCluster * Len(chain) |->
        v.slots[chain[(i - 1) \div PerCluster + 1]][((i - 1) % PerCluster) + 1]]
SetChain(v, c, chain) == [v EXCEPT !.fat[c] = chain]
SetCluster(v, c, entries) ==
  [v EXCEPT !.slots = [d \in DOMAIN v.slots |-> IF d = c THEN entries ELSE v.slots[d]]]
PutEntry(v, d, i, e) ==
  LET at == At(v, d, i) IN SetCluster(v, at[1], [v.slots[at[1]] EXCEPT ![at[2]] = e])
IsObject(e) == e.k \in {"file", "dir"}
SlotsOf(v, d) == LET es == Entries(v, d) IN {i \in DOMAIN es : IsObject(es[i])}

\* The entries at which lfnOrd is set: the long name n ended right before them.  A long
\* name whose own entry follows one of the same name is not compared, so the entries of
\* that name that come one after the other before i count if their number is odd.
Armed(es, n) ==
  LET last(i) == es[i].k = "lfn" /\ es[i].name = n
  IN {i \in DOMAIN es : \E k \in 1 .. i - 1 :
        /\ k % 2 = 1 /\ \A j \in i - k .. i - 1 : last(j)
        /\ k = i - 1 \/ ~last(i - k - 1)}
\* Mutant: a long name that lost characters is found by its 8.3 name.
LostCharsNever(n) == FALSE
LostChars(n) == IsLong(n)
\* open(dirFile, fname, oflag) looks for the name: it stops at the entry "stop".
Searched(es, n, armed, objects) ==
  LET sfnMet == {i \in objects \ armed : es[i].name = Sfn(n)}
      stop == Min({Len(es) + 1} \cup {i \in DOMAIN es : es[i].k \in {"free", "junk"}}
                  \cup (objects \cap armed) \cup (IF LostChars(n) THEN {} ELSE sfnMet))
      hit == stop \in objects /\ (stop \in armed => es[stop - 1].sum = es[stop].name)
  IN [at |-> IF hit THEN stop ELSE 0,
      fails |-> stop \in DOMAIN es /\ es[stop].k # "free" /\ ~hit,
      same |-> \E i \in sfnMet : i < stop]
Search(v, d, n) == Searched(Entries(v, d), n, Armed(Entries(v, d), n), SlotsOf(v, d))
Found(v, d, n) == Search(v, d, n).at # 0
EntryOf(v, d, n) == Entries(v, d)[Search(v, d, n).at]

\* What openNext lists: an entry has the name of the long-name entry right before it.
NameAt(v, d, i) ==
  LET es == Entries(v, d) IN
  IF i > 1 /\ es[i - 1].k = "lfn" THEN es[i - 1].name ELSE es[i].name

EntriesNeeded(n) == IF IsLong(n) THEN 2 ELSE 1
\* Mutant: the entries before the first unused one are enough if the first is deleted.
FreeIndexShort(v, d, need) ==
  LET es == Entries(v, d) IN
  Min({i \in 1 .. Len(es) + 1 : i <= Len(es) => es[i].k \in {"free", "del"}})
\* The first run of enough deleted entries.  From the first unused entry on the code
\* does not look at them; the run may end beyond the directory.
FreeIndex(v, d, need) ==
  LET es == Entries(v, d)
      end == Min({Len(es) + 1} \cup {i \in DOMAIN es : es[i].k = "free"})
  IN Min({i \in 1 .. end : \A j \in i .. i + need - 1 : j < end => es[j].k = "del"})

-----------------------------------------------------------------------------
(* Operations, as the volumes they lead through.                           *)

\* The free cluster that is allocated; 0 if the volume is full.
FirstFree(v) == LET free == Clusters \ Taken(v) IN IF free = {} THEN 0 ELSE Min(free)

\* addDirCluster: the cluster is linked before it is zeroed.
AddDirCluster(v, d, c) ==
  LET linked == SetCluster(SetChain(v, DirStart(d), Append(v.fat[DirStart(d)], c)), c, Junk)
  IN <<SetChain(v, c, <<c>>), linked, SetCluster(linked, c, Zeroed)>>

\* makeSFN, and makeUniqueSfn when its name was met.
Aliases(v, d, n) ==
  IF ~IsLong(n) THEN {n}
  ELSE IF ~Search(v, d, n).same THEN {First}
  ELSE LET es == Entries(v, d) IN {a \in Alias \ {First} : \A i \in SlotsOf(v, d) : es[i].name # a}

\* Where the 8.3 entry of a new name goes, and whether the directory has to grow for it.
NewIndex(v, d, n) == FreeIndex(v, d, EntriesNeeded(n)) + EntriesNeeded(n) - 1
Grows(v, d, n) == NewIndex(v, d, n) > PerCluster * Len(DirChain(v, d))
CanCreate(v, d, n) ==
  /\ ~Found(v, d, n) /\ ~Search(v, d, n).fails
  /\ Grows(v, d, n) => FirstFree(v) # 0 /\ ~(rootFixed /\ d = Root)
\* open with O_CREAT: a cluster if there is no room, createLFN, then the 8.3 entry.
Created(grown, room, d, n, a, i) ==
  LET named == IF IsLong(n) THEN PutEntry(room, d, i - 1, Slot("lfn", n, a, 0)) ELSE room
  IN grown \o (IF IsLong(n) THEN <<named>> ELSE <<>>) \o <<PutEntry(named, d, i, Slot("file", a, NoName, 0))>>
Create(v, d, n, a) ==
  LET grown == IF Grows(v, d, n) THEN AddDirCluster(v, d, FirstFree(v)) ELSE <<>>
  IN Created(grown, Last(<<v>> \o grown), d, n, a, NewIndex(v, d, n))

\* mkdir: a file, its cluster, then the file becomes a directory with "." and "..".
\* On a full volume it fails and the file stays.
DirMade(made, d, a, i, c) ==
  LET allocated == SetCluster(SetChain(Last(made), c, <<c>>), c, Zeroed)
      saved == PutEntry(allocated, d, i, Slot("file", a, NoName, c))
      marked == PutEntry(saved, d, i, Slot("dir", a, NoName, c))
      dots == SetCluster(marked, c,
                [marked.slots[c] EXCEPT ![1] = Slot("dot", NoName, NoName, c), ![2] = DotDot(d)])
  IN IF c = 0 THEN made ELSE made \o <<allocated, saved, marked, dots>>
Mkdir(v, d, n, a) ==
  LET made == Create(v, d, n, a) IN DirMade(made, d, a, NewIndex(v, d, n), FirstFree(Last(made)))

\* The first write to a file, and its close: the chain, then the entry.
FirstWrite(v, d, i) ==
  LET c == FirstFree(v)
      allocated == SetChain(v, c, <<c>>)
  IN <<allocated, PutEntry(allocated, d, i, [Entries(v, d)[i] EXCEPT !.first = c])>>

\* The end of remove: the long-name entry goes after the 8.3 entry.
Unname(v, d, i, n) == IF IsLong(n) THEN <<PutEntry(v, d, i - 1, Deleted)>> ELSE <<>>
\* remove without its chain, as rename calls it.
RemoveEntry(v, d, i, n) ==
  LET deleted == PutEntry(v, d, i, Deleted) IN <<deleted>> \o Unname(deleted, d, i, n)
\* remove: the chain is free before the entry is deleted.
RemoveFound(v, d, n, i, first) ==
  IF first = 0 THEN RemoveEntry(v, d, i, n)
  ELSE <<FreeChain(v, first)>> \o RemoveEntry(FreeChain(v, first), d, i, n)
RemoveFile(v, d, n) == RemoveFound(v, d, n, Search(v, d, n).at, EntryOf(v, d, n).first)

\* Mutant: the cluster that mkdir made for the new entry stays allocated.
SpareKept(v, c) == v
Spare(v, c) == FreeChain(v, c)
\* rename: the new entry is made and gets what the old one had; then the old one goes.
\* A directory is made with a cluster of its own first, for the sake of its "..".
Renamed(made, d, n, i, e, j, old, a) ==
  LET copied == PutEntry(Last(made), e, j, [old EXCEPT !.name = a])
      spare == Entries(Last(made), e)[j].first
      freed == Spare(copied, spare)
      moved == SetCluster(freed, old.first, [freed.slots[old.first] EXCEPT ![2] = DotDot(e)])
  IN IF old.k = "file" THEN made \o <<copied>> \o RemoveEntry(copied, d, i, n)
     ELSE IF spare = 0 THEN made
     ELSE made \o <<copied, freed, moved>> \o RemoveEntry(moved, d, i, n)
RenameTo(v, d, n, e, m, a) ==
  LET old == EntryOf(v, d, n) IN
  Renamed(IF old.k = "file" THEN Create(v, e, m, a) ELSE Mkdir(v, e, m, a),
          d, n, Search(v, d, n).at, e, NewIndex(v, e, m), old, a)

-----------------------------------------------------------------------------
(* Actions.                                                                *)
DirsIn(v, d) ==
  LET es == Entries(v, d) IN {es[i].first : i \in {i \in DOMAIN es : es[i].k = "dir"}}
\* ds is closed: with a directory it has the directories in it.
Closed(v, ds) == \A d \in ds : DirsIn(v, d) \subseteq ds
\* A directory and what is below it, in any depth: the least closed set with top.
Subtree(v, top) ==
  {d \in Clusters \cup {Root} :
     \A ds \in SUBSET (Clusters \cup {Root}) : top \in ds /\ Closed(v, ds) => d \in ds}
Dirs(v) == Subtree(v, Root)

\* The files and directories of a volume: where the entry is, and the entry.
Objects(v) ==
  UNION {LET es == Entries(v, d) IN {[d |-> d, i |-> i, e |-> es[i]] : i \in SlotsOf(v, d)} : d \in Dirs(v)}
ClustersOf(v, e) == IF e.first = 0 THEN {} ELSE {e.first} \cup Range(v.fat[e.first])

\* Every file and directory has a chain of its own, or no cluster.
Owned(v) ==
  LET objects == Objects(v) IN
  /\ \A d \in Dirs(v) : LET es == Entries(v, d) IN \A i \in DOMAIN es : es[i].k # "junk"
  /\ \A x \in objects : /\ x.e.first # 0 => v.fat[x.e.first] # <<>>
                        /\ ClustersOf(v, x.e) \cap Range(DirChain(v, Root)) = {}
                        /\ \A y \in objects \ {x} : ClustersOf(v, x.e) \cap ClustersOf(v, y.e) = {}
\* The operation runs to its end, or is cut after some of its writes.
Leads(steps) ==
  /\ UNCHANGED rootFixed
  /\ \/ fat' = Last(steps).fat /\ slots' = Last(steps).slots /\ UNCHANGED cuts
     \/ /\ cuts < MaxCuts /\ cuts' = cuts + 1
        /\ \E k \in 1 .. Len(steps) - 1 : fat' = steps[k].fat /\ slots' = steps[k].slots

\* The names that can be made and the names that are found: a directory and a name in it.
Places == Dirs(volume) \X Names
Creatable == {x \in Places : CanCreate(volume, x[1], x[2])}
Findable == {x \in Places : Found(volume, x[1], x[2])}
EntryAt(x) == EntryOf(volume, x[1], x[2])

CreateFile == \E x \in Creatable : \E a \in Aliases(volume, x[1], x[2]) :
  Leads(Create(volume, x[1], x[2], a))
MakeDir == \E x \in Creatable : \E a \in Aliases(volume, x[1], x[2]) :
  Leads(Mkdir(volume, x[1], x[2], a))
Fill == \E x \in Findable :
  /\ FirstFree(volume) # 0 /\ EntryAt(x).k = "file" /\ EntryAt(x).first = 0
  /\ Leads(FirstWrite(volume, x[1], Search(volume, x[1], x[2]).at))

IsEmpty(v, d) == SlotsOf(v, d) = {}
\* remove, rmdir.
RemoveObject == \E x \in Findable :
  /\ EntryAt(x).k = "dir" => IsEmpty(volume, EntryAt(x).first)
  /\ Leads(RemoveFile(volume, x[1], x[2]))

\* rename.  The program does not move a directory below itself.
Rename == \E x \in Findable, y \in Creatable :
  /\ EntryAt(x).k = "dir" => y[1] \notin Subtree(volume, EntryAt(x).first)
  /\ \E a \in Aliases(volume, y[1], y[2]) : Leads(RenameTo(volume, x[1], x[2], y[1], y[2], a))

\* A volume on which a cut has left two owners for one cluster is not used any more.
DirNext == Owned(volume) /\ (CreateFile \/ MakeDir \/ Fill \/ RemoveObject \/ Rename)
DirSpec == DirInit /\ [][DirNext]_dirVars

-----------------------------------------------------------------------------
(* Properties.                                                             *)

\* Every long-name entry is followed by the entry it was made for.
NoOrphans(v) ==
  \A d \in Dirs(v) : LET es == Entries(v, d) IN
    \A i \in DOMAIN es : es[i].k = "lfn" =>
      i < Len(es) /\ IsObject(es[i + 1]) /\ es[i + 1].name = es[i].sum
NamesUnique(v) ==
  \A x, y \in Objects(v) : x.d = y.d /\ x.i # y.i =>
    NameAt(v, x.d, x.i) # NameAt(v, y.d, y.i) /\ x.e.name # y.e.name
NothingLost(v) ==
  Taken(v) = (Range(DirChain(v, Root)) \ {Root}) \cup UNION {ClustersOf(v, x.e) : x \in Objects(v)}
DotDotRight(v) ==
  \A x \in Objects(v) : x.e.k = "dir" =>
    /\ v.slots[x.e.first][1] = Slot("dot", NoName, NoName, x.e.first)
    /\ v.slots[x.e.first][2] = DotDot(x.d)

\* As long as no operation was cut, the volume is sound after each of them: clusters have
\* one owner and none is lost, names and 8.3 names are unique in a directory, no long-name
\* entry is left behind, and ".." leads back, whatever was created, renamed and removed.
SoundVolume ==
  cuts = 0 => /\ Owned(volume) /\ NoOrphans(volume) /\ NamesUnique(volume)
              /\ NothingLost(volume) /\ DotDotRight(volume)

\* open finds exactly what openNext lists, under its name, as long as no cut operation has
\* left a long-name entry without its file.
FindsWhatIsListed ==
  NoOrphans(volume) /\ Owned(volume) /\ NamesUnique(volume) =>
    \A d \in Dirs(volume), n \in Names :
      LET listed == {i \in SlotsOf(volume, d) : NameAt(volume, d, i) = n}
          search == Search(volume, d, n)
      IN ~search.fails /\ listed = {search.at} \ {0}

\* An operation, cut or not, on a volume whose long names have their files and whose
\* directories have their ".." changes at most one file or directory: all others keep
\* their entry, their name and their clusters.
OthersKept ==
  [][LET after == Objects(volume') IN
     NoOrphans(volume) /\ DotDotRight(volume) =>
       Cardinality({x \in Objects(volume) :
         \/ x \notin after
         \/ NameAt(volume, x.d, x.i) # NameAt(volume', x.d, x.i)
         \/ ~(ClustersOf(volume, x.e) \subseteq ClustersOf(volume', x.e) \cap Taken(volume'))}) <= 1]_dirVars
=============================================================================
