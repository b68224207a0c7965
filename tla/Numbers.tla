------------------------------- MODULE Numbers -------------------------------
(***************************************************************************)
(* common/FmtNumber.cpp and common/FsDateTime: numbers, dates and times as *)
(* text.  A text is a sequence of character codes.  A double is an integer *)
(* number of millionths, times a power of ten where the exponent is shown; *)
(* the rounding errors of the floating point unit are left out.            *)
(***************************************************************************)
EXTENDS Integers, Sequences, SequencesExt

Zero == 48
Pow10 == [i \in 0 .. 9 |-> 10 ^ i]
One == Pow10[6]

-----------------------------------------------------------------------------
(* Integers.                                                               *)

\* Division by ten with shifts; the quotient may be one too small, never more.
\* Mutant: the last term is left out for 32 bits, too.
Quotient16(n, wide) ==
  LET a == n \div 2 + n \div 4
      b == a + a \div 16
      c == b + b \div 256
  IN c \div 8
Quotient(n, wide) ==
  LET a == n \div 2 + n \div 4
      b == a + a \div 16
      c == b + b \div 256
      d == IF wide THEN c + c \div 65536 ELSE c
  IN d \div 8
DivMod10(n, wide) ==
  LET q == Quotient(n, wide)
      r == (n - 10 * q) % 256
  IN IF r > 9 THEN [q |-> q + 1, r |-> r - 10] ELSE [q |-> q, r |-> r]
\* A digit is written in front of the text; a digit that is none becomes another character.
RECURSIVE fmtBase10(_, _)
fmtBase10(str, n) ==
  IF n <= 9 THEN <<Zero + n>> \o str
  ELSE LET d == DivMod10(n, n > 65535) IN fmtBase10(<<Zero + d.r>> \o str, d.q)
RECURSIVE fmtHex(_, _)
fmtHex(str, n) ==
  LET h == n % 16
      more == <<IF h < 10 THEN Zero + h ELSE 55 + h>> \o str
  IN IF n \div 16 = 0 THEN more ELSE fmtHex(more, n \div 16)
RECURSIVE OtherBase(_, _, _, _)
OtherBase(str, n, base, caps) ==
  LET c == n % base
      more == <<c + (IF c < 10 THEN Zero ELSE IF caps THEN 55 ELSE 87)>> \o str
  IN IF n \div base = 0 THEN more ELSE OtherBase(more, n \div base, base, caps)
fmtUnsigned(str, n, base, caps) == IF base = 10 THEN fmtBase10(str, n) ELSE OtherBase(str, n, base, caps)
fmtSigned(str, n, base, caps) ==
  IF base = 10 /\ n < 0 THEN <<45>> \o fmtUnsigned(str, -n, base, caps) ELSE fmtUnsigned(str, n, base, caps)

-----------------------------------------------------------------------------
(* Doubles.                                                                *)
Rnd(prec) == 5 * Pow10[5 - prec]
ZeroFilled(text, width) ==
  IF Len(text) >= width THEN text ELSE [i \in 1 .. width - Len(text) |-> Zero] \o text
\* The digits of v millionths, cut behind prec digits; str comes behind them.
Fixed(str, v, prec, altFmt) ==
  LET whole == fmtBase10(<<>>, v \div One)
      fraction == ZeroFilled(fmtBase10(<<>>, (v % One) \div Pow10[6 - prec]), prec)
  IN whole \o (IF prec = 0 THEN (IF altFmt THEN <<46>> ELSE <<>>) ELSE <<46>> \o fraction) \o str
fmtDouble(str, v, prec, altFmt) ==
  IF v < 0 THEN <<45>> \o Fixed(str, -v + Rnd(prec), prec, altFmt) ELSE Fixed(str, v + Rnd(prec), prec, altFmt)

\* An int8_t.
Wrapped8(e) == ((e + 128) % 256) - 128
\* The value m millionths times ten to the e, 1 <= m < 10 in millions: divided until it is at
\* most ten, multiplied until it is at least one.  Ten itself is left for the rounding.
\* Mutant: a mantissa the rounding made ten stays ten.
RoundedOnly(m, e, prec) == [m |-> (IF e > 0 /\ m = One THEN 10 * m ELSE m) + Rnd(prec),
                            e |-> Wrapped8(IF e > 0 /\ m = One THEN e - 1 ELSE e)]
Normalized(m, e, prec) ==
  LET ten == e > 0 /\ m = One
      r == (IF ten THEN 10 * m ELSE m) + Rnd(prec)
      k == IF ten THEN e - 1 ELSE e
  IN IF r >= 10 * One THEN [m |-> r \div 10, e |-> Wrapped8(k + 1)] ELSE [m |-> r, e |-> Wrapped8(k)]
Exponent(e) ==
  LET a == Wrapped8(IF e < 0 THEN -e ELSE e) IN
  <<101, IF e < 0 THEN 45 ELSE 43>> \o ZeroFilled(fmtBase10(<<>>, a % 65536), 2)
fmtDoubleExp(m, e, prec, altFmt) ==
  IF m = 0 THEN Fixed(Exponent(0), 0, prec, altFmt)
  ELSE LET n == Normalized(m, e, prec) IN Fixed(Exponent(n.e), n.m, prec, altFmt)

-----------------------------------------------------------------------------
(* Dates and times.                                                        *)
FS_DATE(year, month, day) ==
  LET y == (year - 1980) % 65536 IN
  IF y > 127 \/ month > 12 \/ day > 31 THEN 0 ELSE y * 512 + month * 32 + day
FS_YEAR(d) == 1980 + d \div 512
FS_MONTH(d) == (d \div 32) % 16
FS_DAY(d) == d % 32
FS_TIME(hour, minute, second) ==
  IF hour > 23 \/ minute > 59 \/ second > 59 THEN 0 ELSE hour * 2048 + minute * 32 + second \div 2
FS_HOUR(t) == t \div 2048
FS_MINUTE(t) == (t \div 32) % 64
FS_SECOND(t) == 2 * (t % 32)

fsFmtField(str, n, sep) ==
  LET digits == fmtBase10(IF sep = 0 THEN str ELSE <<sep>> \o str, n) IN
  IF n < 10 THEN <<Zero>> \o digits ELSE digits
fsFmtDate(str, date) ==
  fsFmtField(fsFmtField(fsFmtField(str, date % 32, 0), (date \div 32) % 16, 45), 1980 + date \div 512, 45)
fsFmtTime(str, time) ==
  fsFmtField(fsFmtField(str, (time \div 32) % 64, 0), (time \div 32) \div 64, 58)
fsFmtTime100(str, time, sec100) ==
  fsFmtTime(<<58>> \o fsFmtField(str, 2 * (time % 32) + (IF sec100 < 100 THEN 0 ELSE 1), 0), time)
\* Bit 7 says that the rest is an offset in quarters of an hour, seven bits and a sign.
\* Mutant: an offset west of Greenwich keeps its sign bit.
QuartersUnsigned(tz) == [sign |-> IF tz >= 192 THEN 45 ELSE 43, n |-> tz % 64]
Quarters(tz) == IF tz >= 192 THEN [sign |-> 45, n |-> 256 - tz] ELSE [sign |-> 43, n |-> tz - 128]
fsFmtTimeZone(str, tz) ==
  LET q == Quarters(tz)
      offset == fsFmtField(fsFmtField(str, 15 * (q.n % 4), 0), q.n \div 4, 58)
  IN IF tz < 128 THEN str ELSE <<85, 84, 67>> \o (IF q.n = 0 THEN str ELSE <<q.sign>> \o offset)
Spaces(n) == [i \in 1 .. n |-> 32]
fsPrintDate(date) == IF date = 0 THEN Spaces(10) ELSE fsFmtDate(<<>>, date)
fsPrintDateTime(date, time) ==
  IF date = 0 THEN Spaces(16) ELSE fsFmtDate(<<32>> \o fsFmtTime(<<>>, time), date)
fsPrintDateTimeZone(date, time, s100, tz) ==
  LET zone == IF tz = 0 THEN <<>> ELSE <<32>> \o fsFmtTimeZone(<<>>, tz) IN
  fsFmtDate(<<32>> \o fsFmtTime100(zone, time, s100), date)
fsPrintTime(time) == fsFmtTime(<<>>, time)
fsPrintTime100(time, sec100) == fsFmtTime100(<<>>, time, sec100)
fsPrintTimeZone(tz) == fsFmtTimeZone(<<>>, tz)
\* dateTimeMs10: a callback without hundredths.
Stamp(y, mo, d, h, mi, s, hundredths) ==
  [date |-> FS_DATE(y, mo, d), time |-> FS_TIME(h, mi, s), ms10 |-> IF hundredths THEN 100 * (s % 2) ELSE 0]

-----------------------------------------------------------------------------
(* What the text says.                                                     *)
isDigit(c) == Zero <= c /\ c <= Zero + 9
ReadNumber(text) == FoldLeft(LAMBDA n, c : 10 * n + (c - Zero), 0, text)
ReadBase(text, base) ==
  FoldLeft(LAMBDA n, c : base * n + (IF isDigit(c) THEN c - Zero ELSE IF c < 97 THEN c - 55 ELSE c - 87), 0, text)
\* The text is that number: digits only, no zero in front.
Says(text, n) == /\ \A i \in DOMAIN text : isDigit(text[i])
                 /\ ReadNumber(text) = n /\ (Len(text) > 1 => text[1] # Zero)
Part(text, from, to) == ReadNumber(SubSeq(text, from, to))
IntegerTrue(n) ==
  /\ Says(fmtBase10(<<>>, n), n)
  /\ ReadBase(fmtHex(<<>>, n), 16) = n
  /\ \A base \in {2, 8, 16}, caps \in BOOLEAN : ReadBase(fmtUnsigned(<<>>, n, base, caps), base) = n
  /\ n > 0 => fmtSigned(<<>>, -n, 10, TRUE) = <<45>> \o fmtBase10(<<>>, n)
\* prec digits behind the point, and the nearest number that has so many.
ShowsDouble(text, v, prec, altFmt) ==
  LET point == IF prec > 0 \/ altFmt THEN 1 ELSE 0
      n == Len(text) - prec - point
      unit == Pow10[6 - prec]
  IN /\ point = 1 => text[n + 1] = 46
     /\ Says(SubSeq(text, 1, n), (v + unit \div 2) \div One)
     /\ (ReadNumber(SubSeq(text, 1, n)) * Pow10[prec] + Part(text, n + point + 1, Len(text)))
          = (v + unit \div 2) \div unit
DoubleTrue(v, prec, altFmt) == ShowsDouble(fmtDouble(<<>>, v, prec, altFmt), v, prec, altFmt)
\* One digit that is not zero, prec digits, and the exponent of the nearest such number.
ShowsExponent(text, m, e, prec) ==
  LET behind == IF prec = 0 THEN 1 ELSE prec + 2
      exp == Part(text, behind + 3, Len(text)) * (IF text[behind + 2] = 45 THEN -1 ELSE 1)
      mantissa == Part(text, 1, 1) * Pow10[prec] + (IF prec = 0 THEN 0 ELSE Part(text, 3, behind))
      unit == Pow10[6 - prec]
  IN /\ text[behind + 1] = 101
     /\ IF m = 0 THEN exp = 0 /\ mantissa = 0
        ELSE /\ text[1] # Zero
             /\ \/ exp = e /\ mantissa = (m + unit \div 2) \div unit
                \/ exp = e + 1 /\ mantissa = Pow10[prec] /\ m + unit \div 2 >= 10 * One
ExponentTrue(m, e, prec) == ShowsExponent(fmtDoubleExp(m, e, prec, FALSE), m, e, prec)
\* A time stamp of a valid date is shown with its fields, to the second, in a text of a fixed
\* form; an invalid one is not shown.
ShowsDate(date, text, y, mo, d) ==
  /\ Len(text) = 10
  /\ y \in 1980 .. 2107 /\ mo \in 1 .. 12 /\ d \in 1 .. 31 =>
       /\ FS_YEAR(date) = y /\ FS_MONTH(date) = mo /\ FS_DAY(date) = d
       /\ Part(text, 1, 4) = y /\ Part(text, 6, 7) = mo /\ Part(text, 9, 10) = d
  /\ y \notin 1980 .. 2107 \/ mo > 12 \/ d > 31 => text = Spaces(10)
DateTrue(y, mo, d) == ShowsDate(FS_DATE(y, mo, d), fsPrintDate(FS_DATE(y, mo, d)), y, mo, d)
ShowsTime(stamp, text, h, mi, s, tz) ==
  LET offset == (Part(text, 25, 26) * 60 + Part(text, 28, 29)) * (IF text[24] = 45 THEN -1 ELSE 1)
  IN h <= 23 /\ mi <= 59 /\ s <= 59 =>
     /\ Part(text, 12, 13) = h /\ Part(text, 15, 16) = mi /\ Part(text, 18, 19) = s
     /\ FS_HOUR(stamp.time) = h /\ FS_MINUTE(stamp.time) = mi /\ FS_SECOND(stamp.time) = 2 * (s \div 2)
     /\ SubSeq(text, 12, 19) = fsPrintTime100(stamp.time, stamp.ms10)
     /\ SubSeq(text, 12, 16) = fsPrintTime(stamp.time)
     /\ SubSeq(text, 1, 16) = fsPrintDateTime(stamp.date, stamp.time)
     /\ tz >= 128 => SubSeq(text, 21, Len(text)) = fsPrintTimeZone(tz)
     /\ Len(text) <= 29
     /\ tz \notin {0, 128} /\ tz >= 128 =>
          Len(text) = 29 /\ offset = 15 * (IF tz >= 192 THEN tz - 256 ELSE tz - 128)
ShowsStamp(stamp, h, mi, s, tz) ==
  ShowsTime(stamp, fsPrintDateTimeZone(stamp.date, stamp.time, stamp.ms10, tz), h, mi, s, tz)
TimeTrue(h, mi, s, tz) == ShowsStamp(Stamp(2107, 12, 31, h, mi, s, TRUE), h, mi, s, tz)
=============================================================================
