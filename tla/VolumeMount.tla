----------------------------- MODULE VolumeMount -----------------------------
(***************************************************************************)
(* FsVolume::begin (FsVolume.cpp) and the search for a file system         *)
(* (VolumeLocator.cpp, GptPartition.cpp): the whole card, the primary      *)
(* partitions of the MBR, or the entries of a GPT whose header and entry   *)
(* array have a backup.  Each candidate the search names is mounted; when  *)
(* that fails the search goes on behind it.                                *)
(*                                                                         *)
(* The card is fixed.  Any read may fail; the sectors a call cannot read   *)
(* are chosen anew for each search and each mount, so an error can pass.   *)
(***************************************************************************)
EXTENDS Integers, FiniteSets, FiniteSetsExt

CONSTANTS
  Slots,        \* partitions of the MBR (4), entries of the GPT
  MaxErrors     \* bound on the sectors that cannot be read

\* What is at a place: the boot sector of FAT; of exFAT with a sound boot region; a main
\* region that fails its checks, or an erased main boot sector, and a sound backup region.
Contents == {"nothing", "fat", "exfat", "damaged", "erased"}
TypeOf(content) == IF content = "fat" THEN "fat" ELSE "exfat"
\* An entry of either table: unused, one the code refuses, a Microsoft basic data
\* partition of the GPT (any partition of the MBR), another partition of the GPT.
Uses == {"unused", "refused", "data", "other"}
\* A header of the GPT: it fails gptIsValidHeader, its entry array fails its checksum.
Headers == {"invalid", "arrayBad", "good"}
Places == 0 .. Slots   \* the whole card and the partitions

\* The cards: with a file system on the whole card, the partition table of its boot sector
\* is code or zeros.
Empty == [p \in 1 .. Slots |-> "unused"]
Nothing == [p \in Places |-> "nothing"]
Unpartitioned ==
  [table : {"none"}, at : {[Nothing EXCEPT ![0] = c] : c \in {"nothing", "erased"}}, use : {Empty},
   primary : {"invalid"}, backup : {"invalid"}, match : {FALSE}, overlap : {FALSE}]
  \cup
  [table : {"mbr"}, at : {[Nothing EXCEPT ![0] = c] : c \in {"fat", "exfat", "damaged"}}, use : {Empty},
   primary : {"invalid"}, backup : {"invalid"}, match : {FALSE}, overlap : {FALSE}]
Partitioned(table, headers, overlaps) ==
  {c \in [table : {table}, at : {a \in [Places -> Contents \ {"erased"}] : a[0] = "nothing"},
          use : [1 .. Slots -> Uses \ (IF table = "mbr" THEN {"other"} ELSE {})],
          primary : headers, backup : headers, match : BOOLEAN, overlap : overlaps] :
     /\ \A p \in 1 .. Slots : c.use[p] \in {"unused", "refused"} => c.at[p] = "nothing"
     /\ "invalid" \in {c.primary, c.backup} => c.match = FALSE}
Cards == Unpartitioned \cup Partitioned("mbr", {"invalid"}, {FALSE})
                       \cup Partitioned("protective", Headers, BOOLEAN)

VARIABLES
  card,
  pc,                  \* "idle", "find", "mount"
  next, sawError,      \* searchIndex and its SEARCH_SAW_CARD_ERROR
  header,              \* the header in scanCache: "none", "primary" or "backup"
  loc,                 \* the candidate: a place and a type
  sawCandidate, sawCardError,
  m_initError,         \* "-" before the first begin
  mounted,             \* the volume that is mounted: loc, or NoVolume
  errors, failed       \* auxiliary: sectors not read so far, and in this begin

search == <<next, sawError, header, loc, sawCandidate, sawCardError>>
vars == <<card, pc, search, m_initError, mounted, errors, failed>>

NoVolume == [place |-> -1, type |-> "none"]
Init ==
  /\ card \in Cards
  /\ pc = "idle" /\ next = 0 /\ sawError = FALSE /\ header = "none" /\ loc = NoVolume
  /\ sawCandidate = FALSE /\ sawCardError = FALSE
  /\ m_initError = "-" /\ mounted = NoVolume /\ errors = 0 /\ failed = FALSE

\* Nothing is mounted.
Unused ==
  /\ card = [CHOOSE c \in Unpartitioned : TRUE EXCEPT !.table = "none", !.at = Nothing]
  /\ pc = "idle" /\ next = 0 /\ sawError = FALSE /\ header = "none" /\ loc = NoVolume
  /\ sawCandidate = FALSE /\ sawCardError = FALSE
  /\ m_initError = "-" /\ mounted = NoVolume /\ errors = 0 /\ failed = FALSE

-----------------------------------------------------------------------------
(* The sectors.  bad is the set of those that cannot be read.              *)
Sectors ==
  {<<"mbr", 0>>, <<"primary", 0>>, <<"backup", 0>>, <<"array", "primary">>, <<"array", "backup">>}
    \cup {<<part, p>> : part \in {"boot", "region", "copy"}, p \in 1 .. Slots}
    \cup {<<"region", 0>>, <<"copy", 0>>}
Boot(p) == IF p = 0 THEN <<"mbr", 0>> ELSE <<"boot", p>>

\* probeVolume: main boot sector and region, then the backup region.
ProbeMain(p, bad) ==
  IF Boot(p) \in bad THEN "CardError"
  ELSE IF card.at[p] = "fat" THEN "fat"
  ELSE IF card.at[p] \in {"exfat", "damaged"} /\ <<"region", p>> \in bad THEN "CardError"
  ELSE IF card.at[p] = "exfat" THEN "exfat"
  ELSE "Invalid"
\* Mutant: the backup boot region is not tried.
MainOnly(p, bad) == ProbeMain(p, bad)
Probe(p, bad) ==
  LET main == ProbeMain(p, bad) IN
  IF main \in {"fat", "exfat"} THEN main
  ELSE IF <<"copy", p>> \in bad THEN "CardError"
  ELSE IF card.at[p] \in {"exfat", "damaged", "erased"} THEN "exfat"
  ELSE main
Sound(result) == result \in {"fat", "exfat"}

\* isValidGptEntryArray
ArrayOf(h, bad) ==
  IF <<"array", h>> \in bad THEN "CardError"
  ELSE IF card[h] = "arrayBad" THEN "Corrupt" ELSE "ok"
\* selectGptHeader: the header that is used, or why there is none.
SelectHeader(bad) ==
  LET primaryRead == <<"primary", 0>> \notin bad
      backupRead == <<"backup", 0>> \notin bad
      primaryValid == primaryRead /\ card.primary # "invalid"
      backupValid == backupRead /\ card.backup # "invalid"
      tried == backupValid /\ card.match
  IN IF primaryValid THEN
       IF ArrayOf("primary", bad) = "ok" THEN "primary"
       ELSE IF tried /\ ArrayOf("backup", bad) = "ok" THEN "backup"
       ELSE IF ArrayOf("primary", bad) = "CardError" \/ (tried /\ ArrayOf("backup", bad) = "CardError") \/ ~backupRead
       THEN "CardError" ELSE "Corrupt"
     ELSE IF backupValid THEN IF ArrayOf("backup", bad) = "ok" THEN "backup" ELSE ArrayOf("backup", bad)
     ELSE IF primaryRead /\ backupRead THEN "Corrupt" ELSE "CardError"

\* Mutant: entries are not compared with each other.
OverlapUnchecked(h, p, bad) == "fat"
\* checkGptEntryOverlap: the other entries must be in range and apart.
Overlap(h, p, bad) ==
  IF <<"array", h>> \in bad THEN "CardError"
  ELSE IF \E q \in 1 .. Slots \ {p} :
        card.use[q] = "refused" \/ (card.overlap /\ card.use[q] # "unused")
  THEN "Invalid" ELSE "fat"

\* The slots of the scan of a GPT: basic data partitions first, then all others.
EntryOf(slot) == IF slot <= Slots THEN slot ELSE slot - Slots
Meant(slot) ==
  IF slot <= Slots THEN card.use[EntryOf(slot)] = "data" ELSE card.use[EntryOf(slot)] \in {"refused", "other"}
\* What the scan makes of a slot.
GptSlot(h, slot, bad) ==
  LET p == EntryOf(slot) IN
  IF <<"array", h>> \in bad THEN "CardError"
  ELSE IF ~Meant(slot) THEN "skip"
  ELSE IF card.use[p] = "refused" THEN "Corrupt"
  ELSE IF ~Sound(Probe(p, bad)) THEN IF Probe(p, bad) = "CardError" THEN "CardError" ELSE "skip"
  ELSE IF Overlap(h, p, bad) = "Invalid" THEN "Corrupt"
  ELSE IF Overlap(h, p, bad) = "CardError" THEN "CardError" ELSE Probe(p, bad)
\* Mutant: a partition that cannot be read is passed over.
PassedOver(p, bad) == IF card.use[p] = "data" /\ Sound(Probe(p, bad)) THEN Probe(p, bad) ELSE "skip"
MbrSlot(p, bad) ==
  IF card.use[p] # "data" THEN "skip"
  ELSE IF Probe(p, bad) = "Invalid" THEN "skip" ELSE Probe(p, bad)

\* A scan of the slots what[1 .. last], of the places at, behind next: the first candidate, or why there is none.
Scan(what, last, at, atEnd) ==
  LET hits == {s \in next + 1 .. last : Sound(what[s])}
      end == IF hits = {} THEN last ELSE Min(hits)
      saw == sawError \/ \E s \in next + 1 .. end : what[s] = "CardError"
  IN /\ sawError' = saw
     /\ IF hits # {} THEN loc' = [place |-> at[end], type |-> what[end]] /\ next' = end /\ pc' = "mount"
                          /\ sawCandidate' = TRUE /\ UNCHANGED <<sawCardError, m_initError>>
        ELSE /\ next' = atEnd /\ loc' = NoVolume /\ UNCHANGED sawCandidate
             /\ LET error == IF saw THEN "CardError"
                             ELSE IF \E s \in next + 1 .. end : what[s] = "Corrupt" THEN "Corrupt" ELSE "NoFs"
                    allSaw == sawCardError \/ error = "CardError"
                IN /\ sawCardError' = allSaw
                   /\ pc' = "idle"
                   /\ m_initError' = IF error = "Corrupt" THEN "Corrupt" ELSE IF allSaw THEN "CardError"
                                     ELSE IF sawCandidate THEN "Corrupt" ELSE "NoFs"

\* begin's loop is left with an error of the search that found no slots to scan.
Ends(error) ==
  LET allSaw == sawCardError \/ error = "CardError" IN
  /\ pc' = "idle" /\ sawCardError' = allSaw /\ loc' = NoVolume
  /\ m_initError' = IF error = "Corrupt" THEN "Corrupt" ELSE IF allSaw THEN "CardError"
                    ELSE IF sawCandidate THEN "Corrupt" ELSE "NoFs"
  /\ UNCHANGED <<next, sawError, sawCandidate>>
Names(place, type) ==
  /\ pc' = "mount" /\ loc' = [place |-> place, type |-> type] /\ next' = 1
  /\ sawCandidate' = TRUE /\ UNCHANGED <<sawError, sawCardError, m_initError>>

ScanGpt(h, bad) ==
  IF next >= 2 * Slots THEN Ends("NoFs")
  ELSE Scan([s \in 1 .. 2 * Slots |-> GptSlot(h, s, bad)], 2 * Slots,
            [s \in 1 .. 2 * Slots |-> EntryOf(s)], 2 * Slots)
FindGpt(bad) ==
  LET chosen == IF header # "none" THEN header ELSE SelectHeader(bad) IN
  IF chosen \in {"CardError", "Corrupt"} THEN Ends(chosen) /\ UNCHANGED header
  ELSE header' = chosen /\ ScanGpt(chosen, bad)
FindPartition(bad) ==
  IF card.table = "protective" THEN FindGpt(bad)
  ELSE Scan([p \in 1 .. Slots |-> MbrSlot(p, bad)], Slots, [p \in 1 .. Slots |-> p], Max({next, Slots}))
         /\ UNCHANGED header

\* findMountableVolume
FindVolume(bad) ==
  LET unread == <<"mbr", 0>> \in bad
      whole == Probe(0, bad)
      scans == header # "none" \/ (~unread /\ card.table # "none" /\ (next # 0 \/ whole = "Invalid"))
  IN IF scans THEN IF header # "none" THEN FindGpt(bad) ELSE FindPartition(bad)
     ELSE /\ UNCHANGED header
          /\ IF Sound(whole) /\ (unread \/ next = 0) THEN Names(0, whole)
             ELSE Ends(IF unread \/ whole = "CardError" THEN "CardError" ELSE "NoFs")

\* beginAt of the volume: it reads the boot sectors again.  The boot sector of FAT is checked
\* as the search checked it; that of exFAT with its region, or else the backup region.
MountsFat(p, bad) == Boot(p) \notin bad
MainRegion(p, bad) == card.at[p] = "exfat" /\ {Boot(p), <<"region", p>>} \cap bad = {}
MountsExFat(p, bad) == MainRegion(p, bad) \/ (card.at[p] # "fat" /\ <<"copy", p>> \notin bad)
Mounts(bad) == IF loc.type = "fat" THEN MountsFat(loc.place, bad) ELSE MountsExFat(loc.place, bad)

-----------------------------------------------------------------------------
Reads(bad) ==
  /\ errors + Cardinality(bad) <= MaxErrors
  /\ errors' = errors + Cardinality(bad) /\ failed' = (failed \/ bad # {})
Unread == {{}} \cup {{s} : s \in Sectors}

\* A program calls begin, and again after one that failed.
Called == pc = "idle" /\ m_initError # "OK"
\* Mutant: the search of the begin before goes on.
BeginResumes ==
  /\ Called /\ pc' = "find" /\ loc' = NoVolume
  /\ sawCandidate' = FALSE /\ sawCardError' = FALSE /\ m_initError' = "NoFs"
  /\ mounted' = NoVolume /\ failed' = FALSE /\ UNCHANGED <<card, errors, next, sawError, header>>
Begin ==
  /\ Called /\ pc' = "find"
  /\ next' = 0 /\ sawError' = FALSE /\ header' = "none" /\ loc' = NoVolume
  /\ sawCandidate' = FALSE /\ sawCardError' = FALSE /\ m_initError' = "NoFs"
  /\ mounted' = NoVolume /\ failed' = FALSE /\ UNCHANGED <<card, errors>>
\* SdBase::begin without a card.
NoCard ==
  /\ Called /\ errors < MaxErrors
  /\ m_initError' = "CardError" /\ mounted' = NoVolume /\ errors' = errors + 1 /\ failed' = TRUE
  /\ UNCHANGED <<card, pc, search>>
Find ==
  /\ pc = "find" /\ \E bad \in Unread : Reads(bad) /\ FindVolume(bad)
  /\ UNCHANGED <<card, mounted>>
Mount ==
  /\ pc = "mount" /\ \E bad \in Unread :
       /\ Reads(bad)
       /\ IF Mounts(bad) THEN mounted' = loc /\ m_initError' = "OK" /\ pc' = "idle" /\ UNCHANGED sawCardError
          ELSE pc' = "find" /\ sawCardError' = (sawCardError \/ bad # {}) /\ UNCHANGED <<mounted, m_initError>>
  /\ UNCHANGED <<card, next, sawError, header, loc, sawCandidate>>

\* A begin that is called runs on; none has to be called.
Next == Begin \/ NoCard \/ Find \/ Mount
Spec == Init /\ [][Next]_vars /\ WF_vars(Find \/ Mount)

-----------------------------------------------------------------------------
(* Properties.                                                             *)

\* The volume of a card when all can be read, in the order of preference: the whole card,
\* the partitions, basic data before others, from a table without bad entries.
Usable(p) == card.at[p] # "nothing"
First(ps) == IF ps = {} THEN NoVolume ELSE [place |-> Min(ps), type |-> TypeOf(card.at[Min(ps)])]
HeaderGood == card.primary = "good" \/ (card.backup = "good" /\ (card.primary = "invalid" \/ card.match))
Conflict(p) == \E q \in 1 .. Slots \ {p} :
        card.use[q] = "refused" \/ (card.overlap /\ card.use[q] # "unused")
Volume ==
  LET of(use) == {p \in 1 .. Slots : card.use[p] = use /\ Usable(p)}
      apart(use) == {p \in of(use) : ~Conflict(p)} IN
  IF Usable(0) THEN First({0})
  ELSE IF card.table = "mbr" THEN First(of("data"))
  ELSE IF card.table = "protective" /\ HeaderGood
  THEN IF apart("data") # {} THEN First(apart("data")) ELSE First(apart("other"))
  ELSE NoVolume

\* When nothing failed to be read, begin mounts that volume; with errors it mounts one of
\* the card, with its type.
MountsTheFirst ==
  /\ pc = "idle" /\ m_initError # "-" /\ ~failed => mounted = Volume
  /\ mounted # NoVolume => /\ mounted.place \in Places /\ Usable(mounted.place)
                           /\ mounted.type = TypeOf(card.at[mounted.place])
                           /\ m_initError = "OK"

\* A card is reported to have no file system only if it has none, whatever cannot be read:
\* a program that formats such a card must not meet a card it could not read.
NoFsIsTrue == pc = "idle" /\ m_initError = "NoFs" => Volume = NoVolume

\* begin's loop over the candidates ends; and a program that calls begin again and again until
\* it succeeds mounts a card that has a volume, whatever could not be read before and however
\* begin named the failure: no state of a begin that failed is left to the next.  (The errors
\* come to an end: there are MaxErrors.)
Settles ==
  /\ pc # "idle" ~> pc = "idle"
  /\ WF_vars(Begin) => <>[](Volume # NoVolume => m_initError = "OK")
=============================================================================
