-------------------------------- MODULE Upcase --------------------------------
(***************************************************************************)
(* common/upcase.cpp, and the upcase table the exFAT formatter writes from *)
(* it.  The two tables of the code are any two tables of that form over    *)
(* the characters 0 .. Top; Top is 0xFFFF.                                 *)
(***************************************************************************)
EXTENDS Integers, Sequences, FiniteSets, SequencesExt

CONSTANTS
  Top,          \* 0xFFFF
  MinimumSkip,  \* MINIMUM_UPCASE_SKIP
  SectorUnits   \* units of two bytes in a sector: 256

Chars == 0 .. Top
\* Tables: ascending, one entry or more.  A range moves by off, or with off 1 every second
\* character by one.
Ranges == [base : 2 .. Top - 1, off : {1, -2}, count : 1 .. 3]
Pairs == [key : 2 .. Top - 1, val : 1 .. 2]
Ascending(t) == \A i \in 1 .. Len(t) - 1 : t[i].base + t[i].count <= t[i + 1].base
MapTables == {t \in UNION {[1 .. n -> Ranges] : n \in 1 .. 2} :
                Ascending(t) /\ \A i \in DOMAIN t : t[i].base + t[i].count <= Top}
LookupTables == {t \in UNION {[1 .. n -> Pairs] : n \in 1 .. 2} : \A i \in 1 .. Len(t) - 1 : t[i].key < t[i + 1].key}

\* searchPair16: the last entry whose key is at most chr, or the first entry.
\* Mutant: the entry with that key is in the right half.
RECURSIVE BisectLow(_, _, _, _)
BisectLow(keys, left, right, chr) ==
  LET mid == left + (right - left) \div 2 IN
  IF right - left <= 1 THEN left
  ELSE IF keys[mid + 1] < chr THEN BisectLow(keys, mid, right, chr) ELSE BisectLow(keys, left, mid, chr)
SearchLow(keys, chr) == BisectLow(keys, 0, Len(keys), chr) + 1
RECURSIVE Bisect(_, _, _, _)
Bisect(keys, left, right, chr) ==
  LET mid == left + (right - left) \div 2 IN
  IF right - left <= 1 THEN left
  ELSE IF keys[mid + 1] <= chr THEN Bisect(keys, mid, right, chr) ELSE Bisect(keys, left, mid, chr)
searchPair16(keys, chr) == Bisect(keys, 0, Len(keys), chr) + 1

Moved(r, chr) == IF r.off = 1 THEN chr - ((chr - r.base) % 2) ELSE chr + r.off
toUpcase(map, lookup, chr) ==
  LET r == map[searchPair16([i \in DOMAIN map |-> map[i].base], chr)]
      p == lookup[searchPair16([i \in DOMAIN lookup |-> lookup[i].key], chr)]
  IN IF r.base <= chr /\ chr - r.base < r.count THEN Moved(r, chr)
     ELSE IF p.key = chr THEN p.val ELSE chr

\* writeUpcase: the units from ch on.  A long run of characters that are their own upper case
\* is written as 0xFFFF and its length.
RunEnd(up, ch) ==
  LET others == {n \in ch + 1 .. Top : up[n] # n} IN
  IF others = {} THEN Top + 1 ELSE CHOOSE n \in others : \A m \in others : n <= m
RECURSIVE Compressed(_, _)
Compressed(up, ch) ==
  IF ch > Top THEN <<>>
  ELSE IF up[ch] # ch THEN <<up[ch]>> \o Compressed(up, ch + 1)
  ELSE LET n == RunEnd(up, ch) IN
       (IF n - ch >= MinimumSkip THEN <<Top, n - ch>> ELSE [i \in 1 .. n - ch |-> ch + i - 1])
         \o Compressed(up, n)
writeUpcase(up) == Compressed(up, 0)
\* syncUpcase: the sectors, the last one filled with zeros.
Sectors(units) ==
  LET ns == (Len(units) + SectorUnits - 1) \div SectorUnits IN
  [k \in 1 .. ns |-> [i \in 1 .. SectorUnits |->
     LET j == (k - 1) * SectorUnits + i IN IF j <= Len(units) THEN units[j] ELSE 0]]

-----------------------------------------------------------------------------
(* What the tables mean, and how the exFAT specification reads the         *)
(* compressed one: 0xFFFF and a length, unless 0xFFFF is the last unit.    *)
Meant(map, lookup, chr) ==
  LET in == {i \in DOMAIN map : map[i].base <= chr /\ chr < map[i].base + map[i].count}
      at == {i \in DOMAIN lookup : lookup[i].key = chr}
  IN IF in # {} THEN Moved(map[CHOOSE i \in in : TRUE], chr)
     ELSE IF at # {} THEN lookup[CHOOSE i \in at : TRUE].val ELSE chr
RECURSIVE Expanded(_, _)
Expanded(units, ch) ==
  IF units = <<>> THEN <<>>
  ELSE IF units[1] = Top /\ Len(units) > 1
  THEN [i \in 1 .. units[2] |-> ch + i - 1] \o Expanded(SubSeq(units, 3, Len(units)), ch + units[2])
  ELSE <<units[1]>> \o Expanded(Tail(units), ch + 1)
UpcaseKept(map, lookup) ==
  LET up == [c \in Chars |-> toUpcase(map, lookup, c)]
      units == writeUpcase(up)
  IN /\ \A c \in Chars : up[c] = Meant(map, lookup, c)
     /\ Expanded(units, 0) = [i \in 1 .. Top + 1 |-> up[i - 1]]
     /\ SubSeq(FlattenSeq(Sectors(units)), 1, Len(units)) = units
=============================================================================
