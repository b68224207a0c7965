-------------------------------- MODULE Names --------------------------------
(***************************************************************************)
(* A name on its way to the directory and back: parsePathName and makeSFN  *)
(* of FatFileLFN.cpp, FatName.cpp, ExFatName.cpp.  A name is a sequence of *)
(* bytes, UTF-8; an entry of a long name holds PerEntry units of UTF-16;   *)
(* a short name has Base and Ext characters.                               *)
(***************************************************************************)
EXTENDS Integers, Sequences, SequencesExt

CONSTANTS
  Base, Ext,   \* 8 and 3
  PerEntry     \* 13 (FAT), 15 (exFAT)

-----------------------------------------------------------------------------
(* common/FsUtf and FsName: UTF-8 and UTF-16.  Bytes, code points and      *)
(* units are numbers; what the code reports as nullptr or 0xFFFF is a      *)
(* count of zero bytes.                                                    *)
highSurrogate(cp) == cp \div 1024 + (55296 - 64)
lowSurrogate(cp) == (cp % 1024) + 56320
isSurrogate(u) == 55296 <= u /\ u <= 57343
isHighSurrogate(u) == 55296 <= u /\ u <= 56319
isLowSurrogate(u) == 56320 <= u /\ u <= 57343
isValidCp(cp) == cp <= 1114111 /\ ~isSurrogate(cp)
u16ToCp(hs, ls) == 65536 + (hs % 1024) * 1024 + (ls % 1024)
\* mbToU16 without the zero for "no low surrogate".
Units(cp) == IF cp <= 65535 THEN <<cp>> ELSE <<highSurrogate(cp), lowSurrogate(cp)>>

Mb(cp) ==
  LET tail(k) == 128 + ((cp \div k) % 64) IN
  IF cp < 128 THEN <<cp>>
  ELSE IF cp < 2048 THEN <<192 + cp \div 64, tail(1)>>
  ELSE IF cp < 65536 THEN <<224 + cp \div 4096, tail(64), tail(1)>>
  ELSE <<240 + cp \div 262144, tail(4096), tail(64), tail(1)>>
cpToMb(cp, room) == IF Len(Mb(cp)) <= room THEN Mb(cp) ELSE <<>>

\* The first character of s: n bytes, or none.
isTail(b) == b \div 64 = 2
LengthOf(b) == IF b < 128 THEN 1
               ELSE IF b \div 32 = 6 THEN 2 ELSE IF b \div 16 = 14 THEN 3 ELSE IF b \div 8 = 30 THEN 4 ELSE 0
\* Mutant: any continuation makes a character, also one that is too long for ASCII.
OverLong(s, n, cp) == FALSE
Rejected(s, n, cp) == n > 1 /\ (cp < 128 \/ ~isValidCp(cp))
mbToCp(s) ==
  LET none == [n |-> 0, cp |-> 0]
      n == IF s = <<>> THEN 0 ELSE LengthOf(s[1])
      low(i) == s[i] % 64
      cp == IF n = 1 THEN s[1]
            ELSE IF n = 2 THEN (s[1] % 32) * 64 + low(2)
            ELSE IF n = 3 THEN ((s[1] % 16) * 64 + low(2)) * 64 + low(3)
            ELSE (((s[1] % 8) * 64 + low(2)) * 64 + low(3)) * 64 + low(4)
  IN IF n = 0 \/ n > Len(s) THEN none
     ELSE IF \E i \in 2 .. n : ~isTail(s[i]) THEN none
     ELSE IF Rejected(s, n, cp) THEN none ELSE [n |-> n, cp |-> cp]

\* The characters of s, up to the first that is not one.
RECURSIVE CodePoints(_)
CodePoints(s) == LET c == mbToCp(s) IN
                 IF c.n = 0 THEN <<>> ELSE <<c.cp>> \o CodePoints(SubSeq(s, c.n + 1, Len(s)))
RECURSIVE Valid(_)
Valid(s) == s = <<>> \/ LET c == mbToCp(s) IN c.n > 0 /\ Valid(SubSeq(s, c.n + 1, Len(s)))

-----------------------------------------------------------------------------
(* Characters.                                                             *)
Dot == 46
Blank == 32
isLower(c) == 97 <= c /\ c <= 122
isUpper(c) == 65 <= c /\ c <= 90
toUpper(c) == IF isLower(c) THEN c - 32 ELSE c
\* The first lines of the table.
toUpcase(u) == IF isLower(u) \/ u \in 224 .. 246 THEN u - 32 ELSE u
lfnReservedChar(c) == c < 32 \/ c \in {34, 42, 47, 58, 60, 62, 63, 92, 124}
sfnReservedChar(c) == \/ c \in {34, 124, 91, 92, 93} \/ (42 <= c /\ c <= 47 /\ c # 45)
                      \/ (58 <= c /\ c <= 63) \/ ~(32 < c /\ c < 127)

-----------------------------------------------------------------------------
(* From a path component to a name: blanks before and dots and blanks      *)
(* behind it are cut off.                                                  *)
Bytes(cps) == FlattenSeq([i \in DOMAIN cps |-> Mb(cps[i])])
UnitsOf(name) == LET cps == CodePoints(name) IN FlattenSeq([i \in DOMAIN cps |-> Units(cps[i])])
\* Mutant: only blanks are cut off.
BlanksOnly(s) == SelectLastInSubSeq(s, 1, Len(s), LAMBDA c : c # Blank)
Kept(s) == SelectLastInSubSeq(s, 1, Len(s), LAMBDA c : c \notin {Dot, Blank})
Trimmed(path) ==
  LET first == SelectInSeq(path, LAMBDA c : c # Blank)
      rest == IF first = 0 THEN <<>> ELSE SubSeq(path, first, Len(path))
  IN SubSeq(rest, 1, Kept(rest))
NoReserved(name) == \A i \in DOMAIN name : ~lfnReservedChar(name[i])
\* <<>> when there is no name.
FatName(path) == IF Valid(path) /\ NoReserved(path) THEN Trimmed(path) ELSE <<>>
\* get16 says 0xFFFF for an error, and for the character U+FFFF.
ExFatName(path) ==
  IF NoReserved(path) /\ Valid(Trimmed(path)) /\ 65535 \notin ToSet(CodePoints(Trimmed(path)))
  THEN Trimmed(path) ELSE <<>>

-----------------------------------------------------------------------------
(* makeSFN.                                                                *)
Blanks == [i \in 1 .. Base + Ext |-> Blank]
\* i and in count from 0; ends is set at the break.
Begun == [sfn |-> Blanks, i |-> 0, in |-> Base - 1, bit |-> "base", lc |-> {}, uc |-> {}, is83 |-> TRUE,
          seqPos |-> 0, ends |-> FALSE]
\* Mutant: the case of the extension is noted with that of the base name.
OneBit(s, c) == IF isLower(c) THEN [s EXCEPT !.lc = @ \cup {"base"}]
                ELSE IF isUpper(c) THEN [s EXCEPT !.uc = @ \cup {"base"}] ELSE s
Cased(s, c) == IF isLower(c) THEN [s EXCEPT !.lc = @ \cup {s.bit}]
               ELSE IF isUpper(c) THEN [s EXCEPT !.uc = @ \cup {s.bit}] ELSE s
Stored(s, c) ==
  [Cased(s, c) EXCEPT !.sfn[s.i + 1] = toUpper(c), !.i = @ + 1,
                      !.seqPos = IF s.i + 1 < Base - 1 THEN s.i + 1 ELSE @]
RECURSIVE Scan(_, _, _, _)
Scan(name, dot, p, s) ==
  IF p > Len(name) \/ s.ends THEN s
  ELSE LET c == name[p]
           seen == IF sfnReservedChar(c) THEN [s EXCEPT !.is83 = FALSE] ELSE s
       IN IF c = Dot /\ p = dot
          THEN Scan(name, dot, p + 1, [s EXCEPT !.in = Base + Ext - 1, !.i = Base, !.bit = "ext"])
          ELSE IF sfnReservedChar(c) /\ isTail(c) THEN Scan(name, dot, p + 1, seen)
          ELSE IF s.i > s.in
          THEN \* the rest of the base name is left out, or of the extension
               IF s.in = Base + Ext - 1 \/ p > dot THEN [seen EXCEPT !.is83 = FALSE, !.ends = TRUE]
               ELSE Scan(name, dot, dot, [seen EXCEPT !.is83 = FALSE])
          ELSE Scan(name, dot, p + 1, Stored(seen, IF sfnReservedChar(c) THEN 95 ELSE c))
makeSFN(name) ==
  LET start == SelectInSeq(name, LAMBDA c : c # Dot)
      last == SelectLastInSubSeq(name, start + 1, Len(name), LAMBDA c : c = Dot)
      s == Scan(name, IF last = 0 THEN start ELSE last, start, [Begun EXCEPT !.is83 = name[1] # Dot])
  IN [lost |-> ~s.is83, mixed |-> s.lc \cap s.uc # {}, case |-> s.lc,
      sfn |-> IF s.is83 THEN s.sfn ELSE [s.sfn EXCEPT ![s.seqPos + 1] = 126, ![s.seqPos + 2] = 49]]

-----------------------------------------------------------------------------
(* The entries.                                                            *)
Padded(units, filler) ==
  LET room == (PerEntry - (Len(units) % PerEntry)) % PerEntry IN
  units \o [i \in 1 .. room |-> IF i = 1 THEN 0 ELSE filler]
Entries(units, filler) ==
  LET all == Padded(units, filler) IN
  [e \in 1 .. Len(all) \div PerEntry |-> SubSeq(all, (e - 1) * PerEntry + 1, e * PerEntry)]
\* The entries of a name on FAT: a long name only if the short name does not tell it.
FatEntries(name) ==
  LET short == makeSFN(name) IN
  [sfn |-> short.sfn, case |-> IF short.lost \/ short.mixed THEN {} ELSE short.case,
   long |-> IF short.lost \/ short.mixed THEN Entries(UnitsOf(name), 65535) ELSE <<>>]

\* getSFN: the buffer has room for size - 1 bytes.
Shown(s, bit, case) ==
  LET some == SelectSeq(s, LAMBDA c : c # Blank) IN
  [i \in DOMAIN some |-> IF isUpper(some[i]) /\ bit \in case THEN some[i] + 32 ELSE some[i]]
Cut(s, size) == SubSeq(s, 1, IF size - 1 < Len(s) THEN size - 1 ELSE Len(s))
getSFN(e, size) ==
  LET ext == SubSeq(e.sfn, Base + 1, Base + Ext)
      tail == IF ext[1] = Blank THEN <<>> ELSE <<Dot>> \o Shown(ext, "ext", e.case)
  IN Cut(Shown(SubSeq(e.sfn, 1, Base), "base", e.case) \o tail, size)

\* getName8: a unit at a time; state is "more", "done" or "fail".
Decode(s, u, size) ==
  LET cp == IF s.hs # 0 THEN u16ToCp(s.hs, u) ELSE u
      bytes == cpToMb(cp, size - 1 - Len(s.str))
  IN IF s.state # "more" THEN s
     ELSE IF s.hs # 0 /\ ~isLowSurrogate(u) THEN [s EXCEPT !.state = "fail"]
     ELSE IF s.hs = 0 /\ u = 0 THEN [s EXCEPT !.state = "done"]
     ELSE IF s.hs = 0 /\ isHighSurrogate(u) THEN [s EXCEPT !.hs = u]
     ELSE IF s.hs = 0 /\ isSurrogate(u) THEN [s EXCEPT !.state = "fail"]
     ELSE IF bytes = <<>> THEN [s EXCEPT !.state = "done"]
     ELSE [s EXCEPT !.str = @ \o bytes, !.hs = 0]
LongName(entries, size) ==
  LET s == FoldLeft(LAMBDA a, u : Decode(a, u, size), [str |-> <<>>, hs |-> 0, state |-> "more"],
                    FlattenSeq(entries))
  IN IF s.state = "fail" THEN <<>> ELSE s.str
\* getName7, for a build without UTF-8.
LongName7(entries, size) ==
  LET units == FlattenSeq(entries)
      n == SelectInSeq(units, LAMBDA u : u = 0)
      some == IF n = 0 THEN units ELSE SubSeq(units, 1, n - 1)
  IN Cut([i \in DOMAIN some |-> IF some[i] < 127 THEN some[i] ELSE 63], size)
getName(e, size) == IF e.long = <<>> THEN getSFN(e, size) ELSE LongName(e.long, size)
getName7(e, size) == IF e.long = <<>> THEN getSFN(e, size) ELSE LongName7(e.long, size)
exGetName(entries, size) == LongName(entries, size)
exGetName7(entries, size) == LongName7(entries, size)
\* printName: a buffer for one character, or for one entry.
Unlimited == 1000
printName(e) == IF e.long = <<>> THEN getSFN(e, Base + Ext + 2) ELSE LongName(e.long, Unlimited)
printName7(e) == IF e.long = <<>> THEN getSFN(e, Base + Ext + 2) ELSE LongName7(e.long, Unlimited)

\* cmpName of both file systems, for entries of a name that needs as many.
cmpName(entries, name) ==
  LET stored == FlattenSeq(entries) sought == UnitsOf(name) IN
  \A i \in DOMAIN stored :
    IF i <= Len(sought) THEN toUpcase(stored[i]) = toUpcase(sought[i])
    ELSE i = Len(sought) + 1 => stored[i] = 0
Rotated(h) == (h % 2) * 32768 + h \div 2
exFatHash(h, u) ==
  LET c == toUpcase(u) low == (Rotated(h) + (c % 256)) % 65536 IN (Rotated(low) + c \div 256) % 65536
exFatHash7(h, c) == Rotated((Rotated(h) + toUpper(c)) % 65536)
hashName(name) == FoldLeft(exFatHash, 0, UnitsOf(name))
hashName7(name) == FoldLeft(exFatHash7, 0, name)

-----------------------------------------------------------------------------
(* What names should do.                                                   *)
Upper(name) == LET u == UnitsOf(name) IN [i \in DOMAIN u |-> toUpcase(u[i])]
\* The longest beginning of name, of whole characters, that leaves room for the zero.
Beginning(name, size) ==
  LET cps == CodePoints(name)
      fits == {n \in 0 .. Len(cps) : Len(Bytes(SubSeq(cps, 1, n))) < size}
  IN Bytes(SubSeq(cps, 1, CHOOSE n \in fits : \A m \in fits : m <= n))
Question(name) == LET u == UnitsOf(name) IN [i \in DOMAIN u |-> IF u[i] < 127 THEN u[i] ELSE 63]
ReadBack(e, name) ==
  /\ printName(e) = name /\ printName7(e) = Question(name)
  /\ \A size \in 1 .. Len(name) + 2 :
       getName(e, size) = Beginning(name, size) /\ getName7(e, size) = Cut(Question(name), size)
  /\ e.long # <<>> => cmpName(e.long, name)
FatKeeps(name) == ReadBack(FatEntries(name), name)
ExReadBack(e, name) ==
  /\ \A size \in 1 .. Len(name) + 2 :
       exGetName(e, size) = Beginning(name, size) /\ exGetName7(e, size) = Cut(Question(name), size)
  /\ (\A i \in DOMAIN name : name[i] < 128) => hashName7(name) = hashName(name)
ExFatKeeps(name) == ExReadBack(Entries(UnitsOf(name), 0), name)
\* Two names are found by each other exactly when they differ in case only.
Compared(name, other, a, b, same) ==
  /\ ~a.lost /\ ~b.lost => (a.sfn = b.sfn) = same
  /\ a.lost = b.lost \/ ~same
  /\ Len(Entries(UnitsOf(name), 0)) = Len(Entries(UnitsOf(other), 0)) =>
       cmpName(Entries(UnitsOf(name), 65535), other) = same /\ cmpName(Entries(UnitsOf(name), 0), other) = same
  /\ same => hashName(name) = hashName(other)
Tells(name, other) == Compared(name, other, makeSFN(name), makeSFN(other), Upper(name) = Upper(other))
=============================================================================
