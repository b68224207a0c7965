----------------------------- MODULE TextStream -----------------------------
(***************************************************************************)
(* What an iostream promises of a text: characters taken in order, numbers *)
(* and words found by their longest prefix, what is put added at the end.  *)
(* Line ends, buffers and the steps of the scanners do not appear.         *)
(***************************************************************************)
EXTENDS Integers, Sequences, FiniteSetsExt

VARIABLES
  text, at,   \* the characters, how many of them are taken
  ret         \* the last call: its name, what it asked for, the characters or the number
              \* it got, the iostate bits it set

vars == <<text, at, ret>>

LF == 10
Space == {9, 10, 11, 12, 13, 32}
Minus == 45
DigitOf(c, base) ==
  CASE c \in 48 .. 57 /\ c - 48 < base -> c - 48
    [] c \in 97 .. 122 /\ c - 87 < base -> c - 87
    [] OTHER -> -1

Drop(t, k) == SubSeq(t, k + 1, Len(t))
Rest == Drop(text, at)
\* How many characters from the front are in the set.
Run(t, S) == Max({k \in 0 .. Len(t) : \A i \in 1 .. k : t[i] \in S})
Find(t, c) == IF \E i \in 1 .. Len(t) : t[i] = c THEN Min({i \in 1 .. Len(t) : t[i] = c}) ELSE 0

Did(call) == ret'.call = call
Asked == ret'.asked
Bits == ret'.bits
\* The call took k characters, got g and ran into the end or not.
Took(k, g, ended) ==
  /\ at' = at + k /\ ret'.got = g /\ ("eof" \in Bits <=> ended) /\ UNCHANGED text
Fails(when) == "fail" \in Bits <=> when

Get ==
  /\ Did("get") /\ Fails(Rest = <<>>)
  /\ IF Rest = <<>> THEN Took(0, <<>>, TRUE) ELSE Took(1, <<Head(Rest)>>, FALSE)
Peek ==
  /\ Did("peek") /\ Fails(FALSE)
  /\ Took(0, IF Rest = <<>> THEN <<>> ELSE <<Head(Rest)>>, Rest = <<>>)

\* >> char, which skips white space.
GetChar ==
  LET w == Run(Rest, Space)
      gone == w = Len(Rest)
  IN  Did("getChar") /\ Fails(gone) /\ Took(IF gone THEN w ELSE w + 1,
        IF gone THEN <<>> ELSE <<Rest[w + 1]>>, gone)
Ws == LET w == Run(Rest, Space) IN Did("ws") /\ Fails(FALSE) /\ Took(w, <<>>, w = Len(Rest))

\* Up to n characters, the delimiter with them.
Ignore ==
  LET f == Find(Rest, LF)
      k == IF f > 0 /\ f <= Asked THEN f ELSE Min({Asked, Len(Rest)})
  IN  /\ Did("ignore") /\ Fails(FALSE)
      /\ at' = at + k /\ ("eof" \in Bits <=> k = Len(Rest) /\ k < Asked /\ (k = 0 \/ Rest[k] # LF))
      /\ UNCHANGED text

\* get leaves the delimiter in the stream.
GetStr ==
  LET f == Find(Rest, LF)
      line == IF f = 0 THEN Len(Rest) ELSE f - 1
      k == Min({line, Asked - 1})
  IN  Did("getStr") /\ Fails(k = 0) /\ Took(k, SubSeq(Rest, 1, k), f = 0 /\ line < Asked - 1)

\* getline takes it, and fails when the line does not fit or the stream is at its end.
GetLine ==
  LET f == Find(Rest, LF)
      line == IF f = 0 THEN Len(Rest) ELSE f - 1
      long == line > Asked - 1
      k == IF long THEN Asked - 1 ELSE line
  IN  /\ Did("getline") /\ Fails(long \/ Rest = <<>>)
      /\ Took(IF f > 0 /\ ~long THEN k + 1 ELSE k, SubSeq(Rest, 1, k), f = 0 /\ ~long)

\* >> char*: a word; as many characters as fit when a width is set, and then one more is lost.
Word ==
  LET w == Run(Rest, Space)
      r == Drop(Rest, w)
      stop == {i \in 1 .. Len(r) : r[i] \in Space}
      k == IF stop = {} THEN Len(r) ELSE Min(stop) - 1
      n == Min({k, Asked})
  IN  /\ Did("word") /\ Fails(n = 0) /\ ret'.got = SubSeq(r, 1, n) /\ UNCHANGED text
      /\ at' \in w + at + n .. w + at + (IF Asked <= k THEN Min({n + 1, Len(r)}) ELSE n)

\* A number: white space, a sign, digits (0x before them in base 16); the stream is left after
\* the last digit that fits, at the start when there is none.
Value(t, k, base) ==
  MapThenSumSet(LAMBDA i : DigitOf(t[i], base) * base ^ (k - i), 1 .. k)
Number ==
  LET base == Asked.base
      w == Run(Rest, Space)
      s == Drop(Rest, w)
      neg == s # <<>> /\ Head(s) = Minus
      u == IF neg THEN Tail(s) ELSE s
      x == base = 16 /\ Len(u) > 1 /\ u[1] = 48 /\ u[2] = 120
      d == IF x THEN Drop(u, 2) ELSE u
      n == Run(d, {c \in 0 .. 127 : DigitOf(c, base) >= 0})
      max == IF neg THEN Asked.negMax ELSE Asked.posMax
      fits == Max({k \in 0 .. n : Value(d, k, base) <= max})
      taken == (IF neg THEN 1 ELSE 0) + w + (IF x THEN (IF fits = 0 THEN 1 ELSE 2) ELSE 0) + fits
      none == n = 0 /\ ~x
  IN  /\ Did("number") /\ Fails(none \/ fits < n)
      /\ at' = IF none THEN at ELSE at + taken
      /\ ret'.got = IF none \/ fits < n THEN <<>>
                    ELSE <<IF neg THEN 0 - Value(d, n, base) ELSE Value(d, n, base)>>
      /\ UNCHANGED text

\* What was put is at the end of the text, unless badbit says that the stream is full or failed.
Put ==
  /\ Did("put") /\ at' = Len(text')
  /\ "bad" \in Bits \/ text' = text \o Asked

\* The decimal digits of n.
Decimal(n) ==
  LET k == Min({i \in 1 .. 5 : n < 10 ^ i})
  IN  [i \in 1 .. k |-> 48 + ((n \div 10 ^ (k - i)) % 10)]

\* A number is put with its sign, an integer or hundredths rounded to nd digits, padded to the
\* width: on the side it is not adjusted to, or between the sign and the digits.
PutNumber ==
  LET a == Asked
      m == IF a.n < 0 THEN 0 - a.n ELSE a.n
      digits == CASE a.nd = -1 -> Decimal(m)
                  [] a.nd = 0 -> Decimal((m + 50) \div 100)
                  [] a.nd = 1 -> Decimal((m + 5) \div 100) \o <<46, 48 + (((m + 5) \div 10) % 10)>>
      sign == IF a.n < 0 THEN <<Minus>> ELSE <<>>
      put == Drop(text', Len(text))
      bare == sign \o digits
      gaps == {i \in 1 .. Len(put) : put[i] = 32}
  IN  /\ Did("putNum") /\ at' = Len(text')
      /\ "bad" \in Bits \/
         /\ SubSeq(text', 1, Len(text)) = text
         /\ SelectSeq(put, LAMBDA c : c # 32) = bare
         /\ Len(put) = Max({a.width, Len(bare)})
         /\ a.adjust = "right" => gaps \in {1 .. k : k \in 0 .. Len(put)}
         /\ a.adjust = "left" => gaps \in {k .. Len(put) : k \in 1 .. Len(put) + 1}
         /\ a.adjust = "internal" => gaps \in {Len(sign) + 1 .. k : k \in 0 .. Len(put)}

Seek == Did("seekg") /\ ("fail" \in Bits \/ at' = IF Asked < 0 THEN Len(text) ELSE Asked) /\ UNCHANGED text
Open == Did("open") /\ at' \in {0, Len(text')}

Next ==
  \/ Get \/ Peek \/ GetChar \/ Ws \/ Ignore \/ GetStr \/ GetLine \/ Word \/ Number
  \/ Put \/ PutNumber \/ Seek \/ Open

Spec == [][Next]_vars
=============================================================================
