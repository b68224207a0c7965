----------------------------- MODULE ExFatFile -----------------------------
(***************************************************************************)
(* Files of an exFAT volume: ExFatFile.cpp, ExFatFileWrite.cpp and the     *)
(* allocation bitmap of ExFatPartition.cpp.  A file is contiguous until a  *)
(* cluster is not next to the one before; then it gets a chain in the FAT. *)
(*                                                                         *)
(* A call is the list of volumes its steps lead through.  It runs to its   *)
(* end, or is cut: a step fails and the call returns false, or the power   *)
(* goes and the program starts again with what is on the device: bitmap,   *)
(* FAT, entries and partial sectors share one cache of one sector, which   *)
(* writes them in the order of the calls.  Positions and lengths count     *)
(* units of a cluster.                                                     *)
(***************************************************************************)
EXTENDS Integers, Sequences, SequencesExt, FiniteSetsExt

CONSTANTS
  Files,
  LastCluster,  \* clusters are 2 .. LastCluster
  System,       \* the clusters of the bitmap, the up-case table and the root
  Units,        \* units in a cluster
  MaxUnits,     \* bound on the length of a file
  MaxCuts       \* bound on the calls that are cut

Clusters == 2 .. LastCluster
EOC == -1
Free == 0
Counts == 65536      \* counts are 32 bits in the code: they wrap

ASSUME VolumeAssumption ==
  /\ LastCluster \in Nat /\ LastCluster >= 2 /\ LastCluster < Counts
  /\ System \subseteq Clusters /\ Units \in Nat \ {0} /\ MaxUnits \in Nat /\ MaxCuts \in Nat

Blank == [u \in 0 .. Units - 1 |-> <<>>]   \* a cluster whose content nobody counts on

VARIABLES
  used, start,  \* the bitmap, and m_bitmapStart as a cluster
  fat,
  data,         \* what is in the units of a cluster: which unit of which file
  entry,        \* the files' stream entries
  obj,          \* the program's file objects, one for each file
  cuts,         \* the calls that were cut
  half          \* a call that left its work half done: "none"; the volume was "full";
                \* an "error"; the power went as it "frees" clusters; it "hangs"

vars == <<used, start, fat, data, entry, obj, cuts, half>>
volume == [used |-> used, start |-> start, fat |-> fat, data |-> data,
           entry |-> entry, obj |-> obj, result |-> "ok"]

NoEntry == [exists |-> FALSE, contig |-> FALSE, first |-> 0, valid |-> 0, len |-> 0]
NewEntry == [NoEntry EXCEPT !.exists = TRUE]
Closed == [open |-> FALSE, dirty |-> FALSE, contig |-> FALSE, first |-> 0, cur |-> 0,
           pos |-> 0, valid |-> 0, len |-> 0]
Init ==
  /\ used = System /\ start = 2
  /\ fat = [c \in Clusters |-> Free]
  /\ data = [c \in Clusters |-> Blank]
  /\ entry = [f \in Files |-> NoEntry] /\ obj = [f \in Files |-> Closed]
  /\ cuts = 0 /\ half = "none"

-----------------------------------------------------------------------------
(* The bitmap and the FAT.  v is a volume.                                 *)

\* t, with what is new for some clusters.
Onto(t, new) == [c \in Clusters |-> IF c \in DOMAIN new THEN new[c] ELSE t[c]]
FatPut(v, c, link) == [v EXCEPT !.fat = Onto(@, [d \in {c} |-> link])]

\* Bits are cleared: nobody may count on what is in the clusters any more.
Unmarked(v, cs) ==
  [v EXCEPT !.used = @ \ cs, !.data = Onto(@, [c \in cs |-> Blank]), !.start = Min({@} \cup cs)]

\* bitmapFind: from the hint on, then from the first cluster up to the hint.
Runs(v, lo, hi, n) == {b \in lo .. hi - n + 1 : (b .. b + n - 1) \cap v.used = {}}
From(v, hint) == IF hint = 0 THEN v.start ELSE IF hint \in Clusters THEN hint ELSE 2
Found(v, hint, n) ==
  LET s == From(v, hint) IN
  Min({LastCluster + 1} \cup (IF Runs(v, s, LastCluster, n) # {} THEN Runs(v, s, LastCluster, n)
                              ELSE Runs(v, 2, s - 1, n)))
\* endAlloc is compared with the start only after it was increased: a search from the
\* first cluster that finds nothing begins again.
Without(v, hint) == [v EXCEPT !.result = IF From(v, hint) = 2 THEN "hangs" ELSE "fails"]
Finds(v, hint, n) == Found(v, hint, n) \in Clusters
Noted(v, hint, n) == IF hint = 0 /\ n = 1 THEN [v EXCEPT !.start = Found(v, hint, n)] ELSE v

\* bitmapModify(cluster, count, 1) of clusters that are free, and (cluster, count, 0).
Take(v, c, n) ==
  [v EXCEPT !.used = @ \cup (c .. c + n - 1),
            !.start = IF @ \notin c .. c + n - 1 THEN @ ELSE IF c + n \in Clusters THEN c + n ELSE 2]
\* It clears bits until the count is 0 or a bit is clear already; a count of 0 wraps.
Clear(v, c, n) ==
  LET stop == Min({i \in 0 .. LastCluster - 1 : c + i \notin v.used})
      n1 == IF n = 0 THEN Counts ELSE n
      cleared == Unmarked(v, c .. c + Min({n1, stop}) - 1)
  IN IF (c - 2 + n) % Counts > LastCluster - 1 THEN [v EXCEPT !.result = "fails"]
     ELSE IF stop < n1 THEN [cleared EXCEPT !.result = "fails"] ELSE cleared

\* The chain from a cluster on; a chain of the FAT that was cut may end anywhere.
Chain(v, c) ==
  LET next[i \in 1 .. LastCluster] == IF i = 1 THEN c ELSE
        IF next[i - 1] \in Clusters THEN v.fat[next[i - 1]] ELSE Free
      n == Max({0} \cup {i \in 1 .. LastCluster : \A j \in 1 .. i : next[j] \in Clusters})
  IN [i \in 1 .. n |-> next[i]]
\* freeChain: link by link; the bits of a run are cleared at its end.
FreeChain(v, c) ==
  LET chain == Chain(v, c)
      runEnds(j) == {i \in 1 .. j : i = Len(chain) \/ chain[i + 1] # chain[i] + 1}
      cleared(j) == {chain[i] : i \in 1 .. Max({0} \cup runEnds(j))}
  IN [j \in DOMAIN chain |->
       Unmarked([v EXCEPT !.fat = Onto(@, [d \in {chain[i] : i \in 1 .. j} |-> Free])], cleared(j))]

-----------------------------------------------------------------------------
(* Calls, as the volumes they lead through.                                *)
Final(steps) == Last(steps)
Set(v, f, o) == [v EXCEPT !.obj[f] = o]

\* Mutant: the chain of a file that was contiguous starts at its last cluster.
LinksNone(v, first, last) == <<>>
\* The links that a contiguous file did not need.
WithLinks(v, first, n) == [v EXCEPT !.fat = Onto(@, [c \in first .. first + n - 1 |-> c + 1])]
Links(v, first, last) == [n \in 1 .. Max({0, last - first}) |-> WithLinks(v, first, n)]
AddCluster(v, f) ==
  LET o == v.obj[f]
      hint == IF o.cur = 0 THEN 0 ELSE o.cur + 1
      c == Found(v, hint, 1)
      taken == Take(Noted(v, hint, 1), c, 1)
      chained == [taken EXCEPT !.obj[f].contig = FALSE]
      links == IF o.contig THEN <<chained>> \o Links(chained, o.first, o.cur) ELSE <<taken>>
      ended == FatPut(Final(links), c, EOC)
      linked == FatPut(ended, o.cur, c)
  IN IF ~Finds(v, hint, 1) THEN <<Without(v, hint)>>
     ELSE IF o.cur = 0 THEN <<taken, Set(taken, f, [o EXCEPT !.contig = TRUE, !.cur = c])>>
     ELSE IF o.contig /\ c = o.cur + 1 THEN <<taken, Set(taken, f, [o EXCEPT !.cur = c])>>
     ELSE <<taken>> \o links \o <<ended, linked, [linked EXCEPT !.obj[f].cur = c]>>

\* The cluster of the last byte, as the length says; of an empty file, the one before the first.
LastOf(o) == o.first + (o.len - 1) \div Units
\* write at the start of a cluster.
NextCluster(v, f) ==
  LET o == v.obj[f]
      follows == IF o.contig THEN o.cur < LastOf(o) ELSE v.fat[o.cur] # EOC
      added == AddCluster(v, f)
  IN IF o.cur = 0 /\ o.first # 0 THEN <<[v EXCEPT !.obj[f].cur = o.first]>>
     ELSE IF o.cur = 0 THEN
       IF Final(added).result # "ok" THEN added
       ELSE Append(added, [Final(added) EXCEPT !.obj[f].first = Final(added).obj[f].cur])
     ELSE IF follows THEN <<[v EXCEPT !.obj[f].cur = IF o.contig THEN o.cur + 1 ELSE v.fat[o.cur]]>>
     ELSE added
\* The unit at the position.
PutUnit(v, f) ==
  LET o == v.obj[f] IN
  [v EXCEPT !.data[o.cur][o.pos % Units] = <<f, o.pos>>,
            !.obj[f] = [o EXCEPT !.pos = @ + 1, !.dirty = @ \/ o.pos + 1 > o.valid,
                                 !.valid = Max({@, o.pos + 1})]]
WriteUnit(v, f) ==
  LET there == IF v.obj[f].pos % Units = 0 THEN NextCluster(v, f) ELSE <<v>> IN
  IF Final(there).result # "ok" THEN there
  ELSE Append(there, PutUnit(Final(there), f))
Lengthened(o) == IF o.pos > o.len THEN [o EXCEPT !.len = o.pos, !.dirty = TRUE] ELSE o
\* The length is set when all is written.
Write(v, f, n) ==
  LET written[i \in 0 .. n] ==
        IF i = 0 THEN <<v>>
        ELSE IF Final(written[i - 1]).result # "ok" THEN written[i - 1]
        ELSE written[i - 1] \o WriteUnit(Final(written[i - 1]), f)
      end == Final(written[n])
  IN IF end.result # "ok" THEN written[n]
     ELSE Append(written[n], Set(end, f, Lengthened(end.obj[f])))

\* syncDir and cacheSync.
Sync(v, f) ==
  LET o == v.obj[f] IN
  IF ~o.dirty THEN <<v>> ELSE
  <<v, [v EXCEPT !.obj[f].dirty = FALSE,
                 !.entry[f] = [exists |-> TRUE, contig |-> o.contig, first |-> o.first,
                               valid |-> o.valid, len |-> o.len]]>>

\* remove and truncate free what the length says, or the chain.
ClustersIn(len) == (1 + (len - 1) \div Units) % Counts
Removed(v, f) ==
  LET o == v.obj[f]
      freed == IF o.first = 0 THEN <<v>>
               ELSE IF o.contig THEN <<Clear(v, o.first, ClustersIn(o.len))>>
               ELSE FreeChain(v, o.first)
      gone == [Final(freed) EXCEPT !.entry[f] = NoEntry, !.obj[f] = Closed]
  IN IF Final(freed).result # "ok" THEN freed
     ELSE Append(freed, gone)

\* Mutant: the cluster of the position is freed too.
CutAtPosition(o) == IF o.cur = 0 THEN o.first ELSE o.cur
CutAfterPosition(o) == IF o.cur = 0 THEN o.first ELSE o.cur + 1
Cut(v, f) ==
  LET o == v.obj[f]
      from == CutAfterPosition(o)
      n == (ClustersIn(o.len) - (from - o.first)) % Counts
      empty == IF o.cur = 0 THEN [v EXCEPT !.obj[f].first = 0] ELSE v
      next == IF o.cur = 0 THEN o.first ELSE v.fat[o.cur]
      ended == IF o.cur = 0 THEN empty ELSE FatPut(v, o.cur, EOC)
  IN IF o.contig THEN <<IF n = 0 THEN empty ELSE Clear(empty, from, n)>>
     ELSE IF next = EOC THEN <<v>> ELSE <<ended>> \o FreeChain(ended, next)
Truncate(v, f) ==
  LET cut == Cut(v, f)
      o == Final(cut).obj[f]
      short == Set(Final(cut), f, [o EXCEPT !.len = o.pos, !.valid = o.pos, !.dirty = TRUE])
  IN IF v.obj[f].first = 0 THEN <<v>> ELSE IF Final(cut).result # "ok" THEN cut
     ELSE Append(cut, short) \o Sync(short, f)

PreAllocate(v, f, n) ==
  LET need == 1 + (n - 1) \div Units
      c == Found(v, 0, need)
      taken == Take(Noted(v, 0, need), c, need)
      set == Set(taken, f, [v.obj[f] EXCEPT !.len = n, !.first = c, !.dirty = TRUE, !.contig = TRUE])
  IN IF ~Finds(v, 0, need) THEN <<Without(v, 0)>> ELSE <<taken, set>> \o Sync(set, f)

\* seekSet: along the chain from the first cluster or from the current one.
SeekFrom(o, pos) ==
  IF o.pos = 0 \/ (pos - 1) \div Units < (o.pos - 1) \div Units
  THEN [c |-> o.first, n |-> (pos - 1) \div Units]
  ELSE [c |-> o.cur, n |-> (pos - 1) \div Units - (o.pos - 1) \div Units]
SeekCluster(v, o, pos) ==
  IF pos = 0 THEN 0
  ELSE IF pos = o.pos THEN o.cur
  ELSE IF o.contig THEN o.first + (pos - 1) \div Units
  ELSE LET chain == Chain(v, SeekFrom(o, pos).c) IN
       IF SeekFrom(o, pos).n < Len(chain) THEN chain[SeekFrom(o, pos).n + 1] ELSE 0

-----------------------------------------------------------------------------
(* Actions.                                                                *)
Becomes(v) ==
  /\ used' = v.used /\ start' = v.start /\ fat' = v.fat /\ data' = v.data
  /\ entry' = v.entry /\ obj' = v.obj
Restarted(v) == [v EXCEPT !.obj = [f \in Files |-> Closed], !.start = 2]
\* A call runs to its end, which may be that it fails because the volume is full; or a
\* step fails; or the power goes, and in a call that frees clusters the entry may still
\* name them.  After an error half way the volume is not followed further.
Leads(steps, frees) ==
  \/ /\ Last(steps).result = "ok" /\ Becomes(Last(steps)) /\ UNCHANGED <<cuts, half>>
  \/ /\ Last(steps).result # "ok" /\ Becomes(Last(steps)) /\ UNCHANGED cuts
     /\ half' = IF Last(steps).result = "hangs" THEN "hangs"
                ELSE IF Len(steps) = 1 THEN half ELSE "full"
  \/ /\ half = "none" /\ cuts < MaxCuts /\ cuts' = cuts + 1
     /\ \E k \in 1 .. Len(steps) - 1 :
          \/ Becomes(steps[k]) /\ half' = IF frees THEN "frees" ELSE "error"
          \/ Becomes(Restarted(steps[k])) /\ half' = IF frees THEN "frees" ELSE "none"

Create(f) == ~entry[f].exists /\ ~obj[f].open /\
  LET made == [Closed EXCEPT !.open = TRUE, !.dirty = TRUE] IN
  Leads(<<volume>> \o Sync(Set(volume, f, made), f), FALSE)
Open(f) == entry[f].exists /\ ~obj[f].open /\
  LET e == entry[f] IN
  Leads(<<Set(volume, f, [Closed EXCEPT !.open = TRUE, !.contig = e.contig, !.first = e.first,
                                        !.valid = e.valid, !.len = e.len])>>, FALSE)
Close(f) == obj[f].open /\
  LET synced == Sync(volume, f) IN Leads(Append(synced, Set(Final(synced), f, Closed)), FALSE)
WriteFile(f) == obj[f].open /\ \E n \in 1 .. MaxUnits - obj[f].pos : Leads(Write(volume, f, n), FALSE)
\* read goes unit by unit.
ReadUnit(f) ==
  /\ obj[f].open /\ obj[f].pos < obj[f].valid
  /\ LET o == obj[f]
         c == IF o.pos % Units # 0 THEN o.cur ELSE IF o.pos = 0 THEN o.first
              ELSE IF o.contig THEN o.cur + 1 ELSE fat[o.cur]
     IN c \in Clusters /\ Leads(<<Set(volume, f, [o EXCEPT !.cur = c, !.pos = @ + 1])>>, FALSE)
Seek(f) == obj[f].open /\ \E pos \in 0 .. obj[f].valid :
  Leads(<<Set(volume, f, [obj[f] EXCEPT !.cur = SeekCluster(volume, obj[f], pos), !.pos = pos])>>, FALSE)
TruncateFile(f) == obj[f].open /\ Leads(Truncate(volume, f), TRUE)
RemoveFile(f) == obj[f].open /\ Leads(Removed(volume, f), TRUE)
PreAllocateFile(f) == obj[f].open /\ obj[f].first = 0 /\
  \E n \in 1 .. MaxUnits : Leads(PreAllocate(volume, f, n), FALSE)

\* When a call failed because the volume was full, the program makes space.
Next ==
  \/ half = "none" /\ \E f \in Files :
       \/ Create(f) \/ Open(f) \/ Close(f) \/ WriteFile(f) \/ ReadUnit(f) \/ Seek(f)
       \/ TruncateFile(f) \/ RemoveFile(f) \/ PreAllocateFile(f)
  \/ half = "full" /\ \E f \in Files : RemoveFile(f)
Spec == Init /\ [][Next]_vars
Alike == Permutations(Files)   \* the files may be exchanged

-----------------------------------------------------------------------------
(* Properties.                                                             *)

\* The clusters of a file as an entry or an object r says, in order.
ClusterList(r) ==
  IF r.first = 0 THEN <<>>
  ELSE IF r.contig THEN [i \in 1 .. (r.len + Units - 1) \div Units |-> r.first + i - 1]
  ELSE Chain(volume, r.first)
Holds(f, r) ==
  \A u \in 0 .. r.valid - 1 :
    /\ u \div Units < Len(ClusterList(r))
    /\ data[ClusterList(r)[u \div Units + 1]][u % Units] = <<f, u>>
View(f) == IF obj[f].open THEN obj[f] ELSE entry[f]

\* As long as no call was left half done: each cluster has one owner and is marked in the
\* bitmap, before a power cut none is marked without an owner, and an open file's m_curCluster
\* is the cluster of its position, contiguous or not, whatever was written, truncated,
\* preallocated and removed.
BitmapRight ==
  half = "none" =>
    /\ \A f \in Files : LET own == Range(ClusterList(View(f))) IN
         /\ own \subseteq used \ System
         /\ \A g \in Files \ {f} : own \cap Range(ClusterList(View(g))) = {}
         /\ obj[f].open /\ obj[f].pos > 0 =>
              obj[f].cur = ClusterList(obj[f])[(obj[f].pos - 1) \div Units + 1]
    /\ cuts = 0 => used = System \cup UNION {Range(ClusterList(View(f))) : f \in Files}

\* An open file holds what was written; what an entry promises is on the device after every
\* call, also after an error in the middle of one that adds to a file and after a power cut.
EntryReadable ==
  \A f \in Files :
    /\ half = "none" => Holds(f, obj[f])
    /\ half \in {"none", "error"} => Holds(f, entry[f])

\* Every call returns, also when there is no space.
CallsReturn == half # "hangs"

\* A write that failed because the volume was full takes nothing from the other files when
\* its file is removed or truncated: a closed file keeps its data until it is removed itself.
OthersKept ==
  \A f \in Files : \A g \in Files \ {f} :
    obj[f].open /\ entry[g].exists /\ ~obj[g].open /\ entry[g].valid <= entry[g].len /\ entry[g].len > 0
      => Holds(g, entry[g]) /\ Range(ClusterList(entry[g])) \subseteq used
=============================================================================
