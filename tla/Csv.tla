-------------------------------- MODULE Csv --------------------------------
(***************************************************************************)
(* Lines and fields of a text file: fgets of both file systems, and the    *)
(* readers of the sketches ReadCsv, ReadCsvArray and ReadCsvFile.  A text  *)
(* is a sequence of character codes; one of them cannot be read.  A double *)
(* is an integer number of tenths.  Numbers have at most three digits,     *)
(* LONG_MAX and SHRT_MAX are scaled down to that.                          *)
(***************************************************************************)
EXTENDS Integers, Sequences, SequencesExt, FiniteSetsExt

Bad == -1
NL == 10
CR == 13
Comma == 44
Minus == 45
Point == 46
LongMax == 199
ShortMax == 49

isspace(c) == c \in {NL, CR, 32}
isDigit(c) == c \in 48 .. 57
\* The first place from p that ends something, or the one behind the text.
First(text, p, Ends(_)) == Min({q \in p .. Len(text) : Ends(q)} \cup {Len(text) + 1})
\* What a reader keeps of a part: carriage returns are deleted.
\* Mutant: they are kept.
AllKept(text, p, q) == SubSeq(text, p, q)
Kept(text, p, q) == SelectSeq(SubSeq(text, p, q), LAMBDA c : c # CR)

\* Characters are read up to a delimiter, which is kept, or till there are num - 1.
readField(text, p, num, delims) ==
  LET ends(q) == text[q] \in delims \cup {Bad} \/ Len(Kept(text, p, q)) = num - 1
      q == First(text, p, ends)
      bad == q <= Len(text) /\ text[q] = Bad
      n == IF bad THEN q - 1 ELSE Min({q, Len(text)})
  IN [str |-> Kept(text, p, n), at |-> n + 1, bad |-> bad]
\* fgets of FatFile and of ExFatFile: a read error fails.
fgets(text, p, num) ==
  LET f == readField(text, p, num, {NL}) IN
  [n |-> IF f.bad THEN -1 ELSE Len(f.str), str |-> f.str, at |-> f.at]
exFatFgets(text, p, num) ==
  LET f == readField(text, p, num, {NL}) IN
  [n |-> IF f.bad THEN -1 ELSE Len(f.str), str |-> f.str, at |-> f.at]

\* A field without its delimiter, which is returned, 0 at the end of the file: -1 for a read
\* error, -2 for a field that is too long, which loses two of its characters.
csvReadText(text, p, size) ==
  LET ends(q) == text[q] \in {Comma, NL, Bad} \/ (text[q] # CR /\ Len(Kept(text, p, q)) >= size)
      q == First(text, p, ends)
      str == Kept(text, p, q - 1)
  IN IF q > Len(text) THEN [rtn |-> 0, str |-> str, at |-> q]
     ELSE IF text[q] = Bad THEN [rtn |-> -1, str |-> str, at |-> q]
     ELSE IF text[q] \in {Comma, NL} THEN [rtn |-> text[q], str |-> str, at |-> q + 1]
     ELSE [rtn |-> -2, str |-> Front(str), at |-> q + 1]

-----------------------------------------------------------------------------
(* Numbers.                                                                *)
Number(digits) == FoldLeft(LAMBDA n, c : 10 * n + (c - 48), 0, digits)
Clamped(n, low, high) == IF n < low THEN low ELSE IF n > high THEN high ELSE n
\* Blanks, a sign, digits: where they end, and what they are.  Without digits ptr is str.
strtoX(str) ==
  LET a == First(str, 1, LAMBDA q : ~isspace(str[q]))
      negative == a <= Len(str) /\ str[a] = Minus
      b == IF negative THEN a + 1 ELSE a
      c == First(str, b, LAMBDA q : ~isDigit(str[q]))
  IN [ptr |-> IF c = b THEN 1 ELSE c, negative |-> negative, n |-> Number(SubSeq(str, b, c - 1))]
Long(x) == [ptr |-> x.ptr, value |-> Clamped(IF x.negative THEN -x.n ELSE x.n, -LongMax - 1, LongMax)]
ULong(x) == [ptr |-> x.ptr, value |-> IF x.negative /\ x.n > 0 THEN 2 * (LongMax + 1) - x.n ELSE x.n]
\* One digit behind the point is read.
Double(x, str) ==
  LET point == x.ptr > 1 /\ x.ptr < Len(str) /\ str[x.ptr] = Point /\ isDigit(str[x.ptr + 1])
      value == 10 * x.n + (IF point THEN str[x.ptr + 1] - 48 ELSE 0)
  IN [ptr |-> IF point THEN x.ptr + 2 ELSE x.ptr, value |-> IF x.negative THEN -value ELSE value]
strtol(str) == Long(strtoX(str))
strtoul(str) == ULong(strtoX(str))
strtod(str) == Double(strtoX(str), str)
skipSpace(str, p) == First(str, p, LAMBDA q : ~isspace(str[q]))

\* -3 for no number, -4 for something behind it.
Checked(f, x, str) ==
  [rtn |-> IF f.rtn < 0 THEN f.rtn ELSE IF x.ptr = 1 THEN -3 ELSE IF skipSpace(str, x.ptr) <= Len(str) THEN -4 ELSE f.rtn,
   value |-> x.value, at |-> f.at]
Int32Of(f) == Checked(f, strtol(f.str), f.str)
Uint32Of(f) == Checked(f, strtoul(f.str), f.str)
DoubleOf(f) == Checked(f, strtod(f.str), f.str)
csvReadInt32(text, p, size) == Int32Of(csvReadText(text, p, size))
csvReadUint32(text, p, size) == Uint32Of(csvReadText(text, p, size))
csvReadDouble(text, p, size) == DoubleOf(csvReadText(text, p, size))
csvReadFloat(text, p, size) == csvReadDouble(text, p, size)
\* The test against INT_MAX passes what a long has where an int is as long: the value wraps.
csvReadInt16(text, p, size) ==
  LET r == csvReadInt32(text, p, size) width == 2 * (ShortMax + 1) IN
  [r EXCEPT !.value = ((r.value + ShortMax + 1 + width * 4) % width) - ShortMax - 1]
csvReadUint16(text, p, size) ==
  LET r == csvReadUint32(text, p, size) IN [r EXCEPT !.value = @ % (2 * (ShortMax + 1))]

-----------------------------------------------------------------------------
(* Files of a known form.                                                  *)

\* ReadCsvArray: rows of numbers.  The result is empty if an error is reported.
RECURSIVE Cells(_, _, _, _, _, _)
Cells(text, p, size, rows, cols, cells) ==
  IF Len(cells) = rows * cols THEN cells
  ELSE LET f == readField(text, p, size, {Comma, NL})
           x == strtol(f.str)
           behind == First(f.str, x.ptr, LAMBDA q : f.str[q] # 32)
           inRow == ((Len(cells) + 1) % cols) # 0
       IN IF \/ f.str = <<>> \/ x.ptr = 1
             \/ behind <= Len(f.str) /\ f.str[behind] \notin {Comma, NL}
             \/ inRow /\ Last(f.str) # Comma
             \/ ~inRow /\ Last(f.str) # NL /\ f.at <= Len(text)
          THEN <<>>
          ELSE Cells(text, f.at, size, rows, cols, Append(cells, x.value))

Split(str, seps) ==
  LET cuts == SetToSortSeq({q \in DOMAIN str : str[q] \in seps} \cup {0, Len(str) + 1}, <)
  IN [i \in 1 .. Len(cuts) - 1 |-> SubSeq(str, cuts[i] + 1, cuts[i + 1] - 1)]
\* strtok: the parts between commas that are not empty.
Tokens(str) == SelectSeq(Split(str, {Comma}), LAMBDA t : t # <<>>)
Ended(str, x) == x.ptr > 1 /\ skipSpace(str, x.ptr) > Len(str)
\* ReadCsvFile: a line of a name, a number, a number without a sign, and a double.
Parsed(t) ==
  IF /\ Len(t) = 4
     /\ Ended(t[2], strtol(t[2]))
     /\ t[3][Min({skipSpace(t[3], 1), Len(t[3])})] # Minus /\ Ended(t[3], strtoul(t[3]))
     /\ Ended(t[4], strtod(t[4]))
  THEN <<t[1], strtol(t[2]).value, strtoul(t[3]).value, strtod(t[4]).value>> ELSE <<>>
parseLine(str) == Parsed(Tokens(str))
\* The lines of a file, by fgets; the last one is <<Bad>> if it cannot be read.
RECURSIVE LinesFrom(_, _, _)
LinesFrom(text, p, num) ==
  IF p > Len(text) THEN <<>>
  ELSE LET f == fgets(text, p, num) IN
       IF f.n < 0 THEN <<<<Bad>>>>
       ELSE IF f.n = 0 THEN <<>> ELSE <<f.str>> \o LinesFrom(text, f.at, num)
RECURSIVE FieldsFrom(_, _, _)
FieldsFrom(text, p, size) ==
  IF p > Len(text) THEN <<>>
  ELSE LET f == csvReadText(text, p, size) IN
       IF f.rtn < 0 THEN <<[f EXCEPT !.at = p]>> ELSE <<[f EXCEPT !.at = p]>> \o FieldsFrom(text, f.at, size)

-----------------------------------------------------------------------------
(* What the readers promise.                                               *)

\* Blanks, a number, blanks.
IsNumber(str) ==
  \E a \in 1 .. Len(str), b \in 1 .. Len(str) :
    /\ \A i \in DOMAIN str : i < a \/ i > b => isspace(str[i])
    /\ isDigit(str[b])
    /\ a <= b /\ \A i \in a .. b : isDigit(str[i]) \/ (i = a /\ str[i] = Minus)
\* A number without a point: its value is that of its digits.
ValueOf(str) ==
  LET n == Number(SelectSeq(str, isDigit)) IN
  IF \E i \in DOMAIN str : str[i] = Minus THEN -n ELSE n
Clean(text) == SelectSeq(text, LAMBDA c : c # CR)

\* The fields are those between the commas and ends of lines; one that is too long is refused,
\* never cut; a number is accepted if a field has one and nothing else, and it is that one.
NumbersTrue(long, short, ulong, ushort, float, field, v) ==
  /\ long.rtn >= 0 <=> IsNumber(field)
  /\ long.rtn >= 0 =>
       /\ v \in -LongMax .. LongMax => long.value = v
       /\ v \in -ShortMax .. ShortMax => short.value = v
       /\ v >= 0 => ulong.value = v
       /\ v \in 0 .. 2 * ShortMax + 1 => ushort.value = v
       /\ float.value = 10 * v
  /\ float.rtn >= 0 => v \in {float.value, float.value \div 10}
FieldTrue(text, size, f, fields, k, last) ==
  /\ f.rtn >= 0 => f.str = fields[k] /\ Len(f.str) < size
  /\ f.rtn = -2 => Len(fields[k]) >= size
  /\ f.rtn >= 0 /\ last => Len(fields) = k \/ (Len(fields) = k + 1 /\ fields[k + 1] = <<>>)
  /\ IF f.rtn >= 0
     THEN NumbersTrue(csvReadInt32(text, f.at, size), csvReadInt16(text, f.at, size),
                      csvReadUint32(text, f.at, size), csvReadUint16(text, f.at, size),
                      csvReadFloat(text, f.at, size), fields[k], ValueOf(fields[k]))
     ELSE csvReadInt32(text, f.at, size).rtn < 0 /\ csvReadFloat(text, f.at, size).rtn < 0
FoundTrue(text, size, found, fields) ==
  \A k \in DOMAIN found : FieldTrue(text, size, found[k], fields, k, k = Len(found))
FieldsTrue(text, size) == FoundTrue(text, size, FieldsFrom(text, 1, size), Split(Clean(text), {Comma, NL}))
\* An array that is read is the one of the file, and a file that has one is read.
CellsTrue(text, size, rows, cols, cells, lines, fields) ==
  LET \* Without the end of the last line, or with it.
      has == /\ Bad \notin ToSet(text) /\ Len(lines) >= rows
             /\ \A r \in 1 .. rows :
                  LET row == Split(lines[r], {Comma}) IN
                  Len(row) = cols /\ \A c \in 1 .. cols : IsNumber(row[c]) /\ Len(row[c]) < size - 1
  IN /\ has => cells = [k \in 1 .. rows * cols |->
                          ValueOf(Split(lines[(k - 1) \div cols + 1], {Comma})[((k - 1) % cols) + 1])]
     /\ cells # <<>> =>
          /\ Len(fields) >= rows * cols
          /\ \A k \in 1 .. rows * cols : IsNumber(fields[k]) /\ cells[k] = ValueOf(fields[k])
ArrayTrue(text, size, rows, cols) ==
  CellsTrue(text, size, rows, cols, Cells(text, 1, size, rows, cols, <<>>),
            Split(Clean(text), {NL}), Split(Clean(text), {Comma, NL}))
\* The lines together are the text, each ends where it should or is too long; a line that is
\* accepted has just its four fields.
LineTrue(t, s) == t # <<>> =>
  /\ Len(s) = 4 /\ IsNumber(s[2]) /\ IsNumber(s[3])
  /\ t[1] = s[1] /\ t[2] = ValueOf(s[2]) /\ t[3] = ValueOf(s[3]) /\ t[3] >= 0
TextOfLines(text, num, lines) ==
  /\ Bad \notin ToSet(text) => FlattenSeq(lines) = Clean(text)
  /\ exFatFgets(text, 1, num) = fgets(text, 1, num)
  /\ \A k \in DOMAIN lines :
       /\ k < Len(lines) => Last(lines[k]) = NL \/ Len(lines[k]) = num - 1
       /\ LineTrue(parseLine(lines[k]), Tokens(lines[k]))
LinesTrue(text, num) == TextOfLines(text, num, LinesFrom(text, 1, num))
=============================================================================
