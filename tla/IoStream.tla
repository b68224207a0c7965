------------------------------ MODULE IoStream ------------------------------
(***************************************************************************)
(* iostream: istream and ostream over a file (fstream, StreamBaseClass) in  *)
(* text or binary mode, or over memory (ibufstream, obufstream).  The      *)
(* caller clears the iostate before a call, puts text at the end and seeks *)
(* to positions that tellg gave.  Characters are ASCII codes.              *)
(***************************************************************************)
EXTENDS Integers, Sequences, FiniteSetsExt, SequencesExt

CONSTANTS
  Chars,            \* the characters of the files found on the card
  Strings,          \* the texts that are put
  FileSize,        \* bound on the size of a file
  MaxSize,          \* size of an obufstream
  PosMax, NegMax,   \* the limits of the type a number is read into
  MaxFaults         \* bound on the writes that fail

VARIABLES
  kind,     \* "file", "ibuf", "obuf"
  binary,   \* ios::binary, and always in memory
  chars, place,   \* the characters of the file or the buffer, the position
  holes,    \* writes that failed
  result       \* the last call: its name, what it asked for, what it got, the iostate bits it set

vars == <<kind, binary, chars, place, holes, result>>

CR == 13
LF == 10
IsSpace(c) == c \in {9, 10, 11, 12, 13, 32}
IsDigit(c) == c \in 48 .. 57

-----------------------------------------------------------------------------
(* A call works on a record: the position, the character getch returned    *)
(* (-1 for none), the one before it, the bits set, the characters stored.  *)

Now == [at |-> place, c |-> -1, bits |-> {}, got |-> <<>>]
Set(s, bit) == [s EXCEPT !.bits = @ \cup {bit}]

\* Mutant: the character after a CR is not put back.
GetchTakes(s) ==
  IF s.at = Len(chars) THEN [Set(s, "eof") EXCEPT !.c = -1]
  ELSE IF chars[s.at + 1] # CR \/ binary \/ s.at + 1 = Len(chars)
    THEN [s EXCEPT !.c = chars[s.at + 1], !.at = @ + 1]
    ELSE [s EXCEPT !.c = IF chars[s.at + 2] = LF THEN LF ELSE CR, !.at = @ + 2]

\* A CR LF pair is one LF in text mode; the character after another CR is put back.
Getch(s) ==
  IF s.at = Len(chars) THEN [Set(s, "eof") EXCEPT !.c = -1]
  ELSE IF chars[s.at + 1] # CR \/ binary \/ s.at + 1 = Len(chars) \/ chars[s.at + 2] # LF
    THEN [s EXCEPT !.c = chars[s.at + 1], !.at = @ + 1]
    ELSE [s EXCEPT !.c = LF, !.at = @ + 2]
Store(s) == [s EXCEPT !.got = Append(@, s.c)]

RECURSIVE ReadSkip(_)
ReadSkip(s) == LET g == Getch(s) IN IF IsSpace(g.c) THEN ReadSkip(g) ELSE g

RECURSIVE SkipWhite(_)
SkipWhite(s) == LET g == Getch(s) IN IF IsSpace(g.c) THEN SkipWhite(g) ELSE [g EXCEPT !.at = s.at]

Get(s) == LET g == Getch(s) IN IF g.c < 0 THEN Set(g, "fail") ELSE Store(g)
GetChar(s) == LET g == ReadSkip(s) IN IF g.c < 0 THEN Set(g, "fail") ELSE Store(g)
Peek(s) == LET g == Getch(s) IN IF g.c < 0 THEN g ELSE [Store(g) EXCEPT !.at = s.at]

RECURSIVE GetStr(_, _)
GetStr(s, n) ==
  LET g == Getch(s)
      done == IF s.got = <<>> THEN Set(s, "fail") ELSE s
  IN  IF Len(s.got) + 1 >= n THEN done
      ELSE IF g.c < 0 THEN [done EXCEPT !.bits = @ \cup g.bits]
      ELSE IF g.c = LF THEN done ELSE GetStr(Store(g), n)

RECURSIVE GetLine(_, _)
GetLine(s, n) ==
  LET g == Getch(s)
  IN  CASE g.c < 0 -> IF s.got = <<>> THEN Set(g, "fail") ELSE g
        [] g.c = LF -> g
        [] g.c >= 0 /\ g.c # LF /\ Len(s.got) + 1 >= n -> Set(s, "fail")
        [] OTHER -> GetLine(Store(g), n)

RECURSIVE Ignore(_, _, _)
Ignore(s, n, count) ==
  LET g == Getch(s)
  IN  IF count >= n THEN s
      ELSE IF g.c < 0 \/ g.c = LF THEN g ELSE Ignore(g, n, count + 1)

\* The loop of getStr, from the character s.c, read at pos: the one after the last stored is
\* already taken when the width is reached.
RECURSIVE WordFrom(_, _, _)
WordFrom(s, m, pos) ==
  IF Len(s.got) = m \/ s.c < 0 THEN s
  ELSE IF IsSpace(s.c) THEN [s EXCEPT !.at = pos]
  ELSE LET g == Getch(s) IN WordFrom([g EXCEPT !.got = Append(@, s.c)], m, s.at)
Word(s, m) ==
  LET g == WordFrom(ReadSkip(s), m, s.at)
  IN  IF g.got = <<>> THEN Set(g, "fail") ELSE g

DigitVal(c) == IF IsDigit(c) THEN c - 48 ELSE IF c \in 97 .. 122 THEN c - 87 ELSE 99

\* The digit loop of getNumber: val so far; end is endPos, after the last digit that fitted.
RECURSIVE NumberFrom(_, _, _, _, _, _)
NumberFrom(s, end, base, max, val, any) ==
  LET d == IF s.c < 0 THEN 99 ELSE DigitVal(s.c)
      stop == [s EXCEPT !.at = end]
  IN  IF d >= base THEN IF any THEN [stop EXCEPT !.got = <<val>>] ELSE Set(stop, "fail")
      ELSE IF val > max \div base \/ (val = max \div base /\ d > max % base) THEN Set(stop, "fail")
      ELSE NumberFrom(Getch(s), s.at, base, max, val * base + d, TRUE)

GetNumber(s, base, posMax, negMax) ==
  LET g == ReadSkip(s)
      neg == g.c = 45
      first == IF neg THEN Getch(g) ELSE g
      second == Getch(first)
      max == IF neg THEN negMax ELSE posMax
      n == IF base # 16 \/ first.c # 48 THEN NumberFrom(first, s.at, base, max, 0, FALSE)
           ELSE IF second.c = 120
             THEN NumberFrom(Getch(second), first.at, base, max, 0, TRUE)
             ELSE NumberFrom(second, first.at, base, max, 0, TRUE)
  IN  IF n.got # <<>> /\ neg THEN [n EXCEPT !.got = <<0 - @[1]>>] ELSE n

-----------------------------------------------------------------------------
(* Output: fmtNum, the padding of do_fill, and putDouble on hundredths.    *)

RECURSIVE FmtNum(_, _)
FmtNum(n, base) ==
  LET c == n % base
      digit == <<IF c < 10 THEN c + 48 ELSE c + 87>>
  IN  IF n < base THEN digit ELSE FmtNum(n \div base, base) \o digit

\* putNum and putDouble fill after the sign, before all of it or behind; do_fill resets the width.
Padded(sign, digits, adjust, width) ==
  LET fill == [i \in 1 .. Max({0, width - Len(sign) - Len(digits)}) |-> 32]
  IN  CASE adjust = "internal" -> sign \o fill \o digits
        [] adjust = "right" -> fill \o sign \o digits
        [] adjust = "left" -> sign \o digits \o fill
Sign(n) == IF n < 0 THEN <<45>> ELSE <<>>
Magnitude(n) == IF n < 0 THEN 0 - n ELSE n
PutNum(n, adjust, width) == Padded(Sign(n), FmtNum(Magnitude(n), 10), adjust, width)

\* nd digits after the point, 0 or 1: half of the last one is added, the rest cut off.
PutDouble(n, nd, adjust, width) ==
  LET r == Magnitude(n) + (IF nd = 0 THEN 50 ELSE 5)
      tenths == (r % 100) \div 10
  IN  Padded(Sign(n), FmtNum(r \div 100, 10) \o (IF nd = 0 THEN <<>> ELSE <<46, tenths + 48>>),
             adjust, width)

\* What putch and putstr write of a text.
RECURSIVE Encode(_)
Encode(t) ==
  IF t = <<>> THEN <<>>
  ELSE (IF Head(t) = LF /\ ~binary THEN <<CR, LF>> ELSE <<Head(t)>>) \o Encode(Tail(t))

-----------------------------------------------------------------------------
Done(call, asked, s) ==
  /\ place' = s.at /\ result' = [call |-> call, asked |-> asked, got |-> s.got, bits |-> s.bits]
Reads(call, asked, s) == Done(call, asked, s) /\ UNCHANGED <<kind, binary, chars, holes>>

AtStart == place = 0 /\ holes = 0 /\ result = [call |-> "none", asked |-> 0, got |-> <<>>, bits |-> {}]
Init ==
  /\ \/ kind = "file" /\ binary \in BOOLEAN /\ chars \in UNION {[1 .. n -> Chars] : n \in 0 .. FileSize}
     \/ kind = "ibuf" /\ binary = TRUE /\ \E c \in Chars : chars = <<c>>
     \/ kind = "obuf" /\ binary = TRUE /\ chars = <<>>
  /\ AtStart
Unused == binary = TRUE /\ chars = <<>> /\ AtStart

Extract ==
  /\ kind # "obuf"
  /\ \/ Reads("get", 0, Get(Now))
     \/ Reads("peek", 0, Peek(Now))
     \/ Reads("getChar", 0, GetChar(Now))
     \/ Reads("ws", 0, SkipWhite(Now))
     \/ Reads("ignore", 2, Ignore(Now, 2, 0))
     \/ \E n \in {2, 3} : Reads("getStr", n, GetStr(Now, n)) \/ Reads("getline", n, GetLine(Now, n))
     \/ \E m \in {1, 1000} : Reads("word", m, Word(Now, m))

ExtractNumber ==
  /\ kind # "obuf"
  /\ \E base \in {10, 16} :
       Reads("number", [base |-> base, posMax |-> PosMax, negMax |-> NegMax],
             GetNumber(Now, base, PosMax, NegMax))

\* A text through putch and putstr.  The first piece that fails leaves a hole.
Inserts(call, asked, t) ==
  LET e == Encode(t)
      room == IF kind = "obuf" THEN MaxSize - 1 - place ELSE Len(e)
      fits == Len(e) <= room
      put(b, bits) ==
        /\ Done(call, asked, [Now EXCEPT !.at = place + Len(b), !.bits = bits])
        /\ chars' = chars \o b
  IN  /\ kind # "ibuf" /\ place = Len(chars) /\ (kind = "file" => place + Len(e) <= FileSize)
      /\ \/ put(IF fits THEN e ELSE SubSeq(e, 1, room), IF fits THEN {} ELSE {"bad"})
            /\ holes' = holes
         \/ /\ kind = "file" /\ holes < MaxFaults /\ holes' = holes + 1
            /\ \E i \in 1 .. Len(e) : put(RemoveAt(e, i), {"bad"})
      /\ UNCHANGED <<kind, binary>>

Insert == \E t \in Strings : Inserts("put", t, t)
InsertNumber ==
  \E adjust \in {"left", "right", "internal"}, width \in {0, 3} :
    \/ \E n \in {-1, 0, 10} :
         Inserts("putNum", [n |-> n, nd |-> -1, adjust |-> adjust, width |-> width],
                 PutNum(n, adjust, width))
    \/ \E n \in {-149, 96, 950}, nd \in {0, 1} :
         Inserts("putNum", [n |-> n, nd |-> nd, adjust |-> adjust, width |-> width],
                 PutDouble(n, nd, adjust, width))

\* seekg and seekp to where tellg was; an ibufstream cannot go to its end.
Seek ==
  /\ \E to \in {0, Len(chars)} :
       LET ok == kind # "ibuf" \/ to < Len(chars)
       IN  Done("seekg", IF to = 0 THEN 0 ELSE -1,
                [Now EXCEPT !.at = IF ok THEN to ELSE place, !.bits = IF ok THEN {} ELSE {"fail"}])
  /\ UNCHANGED <<kind, binary, chars, holes>>

\* fstream::open of the file again: to read, at the end (app, ate) or emptied (trunc).
Open ==
  /\ kind = "file" /\ binary' \in BOOLEAN /\ chars' \in {chars, <<>>}
  /\ \E at \in {0, Len(chars')} : Done("open", 0, [Now EXCEPT !.at = at])
  /\ UNCHANGED <<kind, holes>>

Next == Extract \/ ExtractNumber \/ Insert \/ InsertNumber \/ Seek \/ Open

Spec == Init /\ [][Next]_vars

-----------------------------------------------------------------------------
(* Properties.                                                             *)

RECURSIVE Decode(_)
Decode(f) ==
  IF f = <<>> THEN <<>>
  ELSE IF ~binary /\ Len(f) > 1 /\ f[1] = CR /\ f[2] = LF THEN <<LF>> \o Decode(SubSeq(f, 3, Len(f)))
  ELSE <<Head(f)>> \o Decode(Tail(f))

Text == INSTANCE TextStream WITH
  ret <- result, text <- Decode(chars), at <- Len(Decode(SubSeq(chars, 1, place)))

\* Line ends, put-back characters and the scanners' look-ahead do not show: every call takes and
\* delivers what it should of the text, a number is the longest prefix that fits its type, and
\* what is put is read back.
IsText == Text!Spec
=============================================================================
