------------------------------ MODULE ShortNames ------------------------------
(***************************************************************************)
(* A build without long names (USE_LONG_FILE_NAMES 0): FatFileSFN.cpp.  A  *)
(* directory is a sequence of entries, written before by a computer that   *)
(* has long names.  pos is the position of the volume's directory, file    *)
(* the one that is open, listed the names there should be.                 *)
(***************************************************************************)
EXTENDS Names

CONSTANTS
  PerCluster,   \* entries of a cluster
  MaxEntries    \* bound on the entries of the directory: then the card is full

-----------------------------------------------------------------------------
(* parsePathName: i counts from 0, n is the last index there is room for.  *)
ParseBegun == [sfn |-> Blanks, i |-> 0, n |-> Base - 1, bit |-> "base", lc |-> {}, uc |-> {}, fails |-> FALSE]
ParseChar(s, c) ==
  IF c = Dot /\ s.n = Base - 1 THEN [s EXCEPT !.n = Base + Ext - 1, !.i = Base, !.bit = "ext"]
  ELSE IF s.fails \/ sfnReservedChar(c) \/ s.i > s.n THEN [s EXCEPT !.fails = TRUE]
  ELSE [Cased(s, c) EXCEPT !.sfn[s.i + 1] = toUpper(c), !.i = @ + 1]
\* [sfn, case], or {} when it is no short name.  A mix in either part loses the case of both.
parsePathName(name) ==
  LET s == FoldLeft(ParseChar, ParseBegun, name) IN
  IF s.fails \/ s.sfn[1] = Blank THEN {}
  ELSE {[sfn |-> s.sfn, case |-> IF s.lc \cap s.uc # {} THEN {} ELSE s.lc]}

-----------------------------------------------------------------------------
(* The directory.  ord is the order of a long entry that begins a name;    *)
(* the first byte of a deleted one has that bit, and says 5.               *)
Free == [kind |-> "free", sfn |-> <<>>, case |-> {}, ord |-> 0]
Deleted == [Free EXCEPT !.kind = "deleted"]
Long(ord) == [Free EXCEPT !.kind = "long", !.ord = ord]
DeletedLong == Long(5)
Short(name) == CHOOSE e \in {[kind |-> "file", sfn |-> p.sfn, case |-> p.case, ord |-> 0] : p \in parsePathName(name)} : TRUE
Closed == [index |-> 0, sfn |-> <<>>, lfnOrd |-> 0]
\* What a computer left: nothing; a long name in a directory that is full; one that was deleted.
Begins ==
  LET names(dir) == {dir[i].sfn : i \in {k \in DOMAIN dir : dir[k].kind = "file"}}
      begun(dir, grows) == [what |-> "short", dir |-> dir, pos |-> 1, grows |-> grows, file |-> Closed,
                            listed |-> names(dir)]
      long == <<Long(2), Long(0), Short(<<97, 126, 49>>), Short(<<98>>)>>
      gone == <<DeletedLong, Deleted, Long(1), Short(<<98, 126, 49>>)>>
  IN {begun(dir, grows) : dir \in {<<Free, Free>>, long, gone}, grows \in BOOLEAN}

\* lfnOrd after an entry.
\* Mutant: a file that is passed over does not end a long name.
AfterFiles(ord, e) == IF e.kind # "long" THEN IF e.kind = "file" THEN ord ELSE 0 ELSE IF e.ord # 0 THEN e.ord ELSE ord
After(ord, e) == IF e.kind # "long" THEN 0 ELSE IF e.ord # 0 THEN e.ord ELSE ord
FirstFree(dir) == SelectInSeq(dir, LAMBDA e : e.kind = "free")
Before(dir) == IF FirstFree(dir) = 0 THEN dir ELSE SubSeq(dir, 1, FirstFree(dir) - 1)
\* Where a name is, from an entry on; 0 when it is not there.
Found(dir, from, sfn) ==
  SelectInSubSeq(Before(dir), from, Len(Before(dir)), LAMBDA e : e.kind = "file" /\ e.sfn = sfn)
Handle(dir, from, at) ==
  [index |-> at, sfn |-> dir[at].sfn, lfnOrd |-> FoldLeft(After, 0, SubSeq(dir, from, at - 1))]

\* open of an existing name: the position is behind it.
OpenFound(j, p, excl) ==
  LET at == Found(j.dir, 1, p.sfn) IN
  [j EXCEPT !.pos = at + 1, !.file = IF excl THEN Closed ELSE Handle(j.dir, 1, at)]
\* open that creates: in the first entry never used, or in a new cluster.  A deleted entry is not
\* used again: the code asks twice for FAT_NAME_FREE.
Created(j, p) ==
  LET at == IF FirstFree(j.dir) # 0 THEN FirstFree(j.dir) ELSE Len(j.dir) + 1
      dir == IF FirstFree(j.dir) # 0 THEN j.dir ELSE j.dir \o [i \in 1 .. PerCluster |-> Free]
      full == FirstFree(j.dir) = 0 /\ (~j.grows \/ Len(j.dir) + PerCluster > MaxEntries)
  IN IF full THEN [j EXCEPT !.pos = Len(j.dir) + 1]
     ELSE [j EXCEPT !.dir = [dir EXCEPT ![at] = [kind |-> "file", sfn |-> p.sfn, case |-> p.case, ord |-> 0]],
                    !.pos = at + 1, !.file = [index |-> at, sfn |-> p.sfn, lfnOrd |-> 0],
                    !.listed = @ \cup {p.sfn}]
NotCreated(j) == [j EXCEPT !.pos = Len(Before(j.dir)) + (IF FirstFree(j.dir) = 0 THEN 1 ELSE 2)]
open(j, name, oflag) ==
  IF j.file # Closed THEN {}
  ELSE {IF Found(j.dir, 1, p.sfn) # 0 THEN OpenFound(j, p, "O_EXCL" \in oflag)
        ELSE IF "O_CREAT" \in oflag THEN Created(j, p) ELSE NotCreated(j) : p \in parsePathName(name)}
\* openExistingSFN starts where the volume's directory is, in a copy of it.
openExistingSFN(j, name) ==
  {[j EXCEPT !.file = Handle(j.dir, j.pos, Found(j.dir, j.pos, p.sfn))] :
     p \in {q \in parsePathName(name) : j.pos <= Len(j.dir) /\ Found(j.dir, j.pos, q.sfn) # 0}}
\* remove: not a file that has a long name.
remove(j) ==
  IF j.file = Closed \/ j.file.lfnOrd # 0 THEN {}
  ELSE {[j EXCEPT !.dir[j.file.index].kind = "deleted", !.file = Closed, !.listed = @ \ {j.file.sfn}]}
Asked == {<<97>>, <<66>>, <<98, 126, 49>>}
Used(j) ==
  UNION {open(j, name, oflag) : name \in Asked, oflag \in {{}, {"O_CREAT"}, {"O_CREAT", "O_EXCL"}}}
    \cup UNION {openExistingSFN(j, name) : name \in Asked}
    \cup remove(j)
    \cup {[j EXCEPT !.file = Closed]}

-----------------------------------------------------------------------------
(* What short names should do.                                             *)
IsLive(dir, i) == dir[i].kind = "file"
ListsOnce(j) ==
  LET dir == j.dir live == {i \in DOMAIN dir : IsLive(dir, i)} IN
  /\ {dir[i].sfn : i \in live} = j.listed
  /\ \A i, k \in live : dir[i].sfn = dir[k].sfn => i = k
  /\ \A i \in live : Found(dir, 1, dir[i].sfn) = i
\* The open file is the one that was asked for, and known to have a long name if it has.
OpensItsOwn(j) ==
  j.file # Closed =>
    LET dir == j.dir i == j.file.index IN
    /\ IsLive(dir, i) /\ dir[i].sfn = j.file.sfn
    /\ (j.file.lfnOrd # 0) = (i > 1 /\ dir[i - 1].kind = "long")
\* No long name is left without its file.
LongFollowed(j) ==
  \A i \in DOMAIN j.dir :
    j.dir[i].kind = "long" /\ j.dir[i] # DeletedLong =>
      i < Len(j.dir) /\ j.dir[i + 1].kind \in {"long", "file"}
ShortFound(j) == ListsOnce(j) /\ OpensItsOwn(j) /\ LongFollowed(j)
\* A name is shown as it was given, but for the case if it is mixed; a build with long names
\* stores the same.
ShortKept(path) ==
  \A p \in parsePathName(path) :
    LET shown == getSFN(p, Base + Ext + 2) given == SubSeq(path, 1, Kept(path)) IN
    /\ Upper(shown) = Upper(given)
    /\ (\A i, k \in DOMAIN path : ~(isLower(path[i]) /\ isUpper(path[k]))) => shown = given
    /\ LET long == makeSFN(given) IN ~long.lost /\ long.sfn = p.sfn
=============================================================================
