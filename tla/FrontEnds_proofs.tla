-------------------------- MODULE FrontEnds_proofs --------------------------
(***************************************************************************)
(* The files of FsLib, for any number of files, volumes and names, and     *)
(* BufferedPrint, for every size of its buffer; whatever fails.            *)
(***************************************************************************)
EXTENDS FsLib, BufferedPrint, RingBuf, SequenceTheorems, WellFoundedInduction, TLAPS

-----------------------------------------------------------------------------
(***************************************************************************)
(* For every size of the buffer and any number of failing writes: what was *)
(* said to be printed is in the file or the buffer, in the order it was    *)
(* printed.                                                                *)
(*                                                                         *)
(* The order of first places is not inductive as it stands: a failed write *)
(* puts a part of the buffer into the file, in front of the buffer itself. *)
(* What is kept is that a byte of the buffer or the file that is smaller   *)
(* than one in the file has a place there before it.                       *)
(***************************************************************************)
In(k, s) == \E i \in 1 .. Len(s) : s[i] = k
\* Every byte of d that is smaller than a byte of s has a place in s before that one.
Precedes(d, s) ==
  \A p \in 1 .. Len(s), q \in 1 .. Len(d) : d[q] < s[p] => \E r \in 1 .. p - 1 : s[r] = d[q]
UpTo(s, m) == \A i \in 1 .. Len(s) : s[i] <= m

PrintInv ==
  /\ printFile \in Seq(Nat) /\ printBuf \in Seq(Nat) /\ made \in Nat /\ failures \in Nat
  /\ Precedes(printFile, printFile) /\ Precedes(printBuf, printFile) /\ Precedes(printBuf, printBuf)
  /\ UpTo(printFile, made) /\ UpTo(printBuf, made)
  /\ \A k \in printed : In(k, printFile) \/ In(k, printBuf)
  /\ failures = 0 => Len(printFile) + Len(printBuf) = made
\* What was told is printed; of a string that waits for its terminator, what was returned says
\* whether it is.
ToldInv ==
  /\ told \subseteq printed /\ made \in Nat
  /\ field \in [open : {0, 1}, from : Nat, returned : Nat] /\ field.from <= made
  /\ field.open = 1 =>
       /\ field.returned <= made - field.from
       /\ field.returned = made - field.from => field.from + 1 .. made \subseteq printed

-----------------------------------------------------------------------------
(* Sequences.                                                              *)

\* A set of numbers that is not empty has a least one.
LEMMA LeastNat ==
  ASSUME NEW S, S \subseteq Nat, S # {}
  PROVE  \E m \in S : \A n \in S : m <= n
<1> DEFINE R == {ss \in Nat \X Nat : ss[1] < ss[2]}
<1>1. IsWellFoundedOn(R, Nat)
  BY NatLessThanWellFounded DEF OpToRel
<1> HIDE DEF R
<1>2. PICK m \in S : \A n \in S : ~ (<<n, m>> \in R)
  BY <1>1, WFMin
<1>3. \A n \in S : ~ (n < m)
  BY <1>2 DEF R
<1> QED  BY <1>3

\* The items of a concatenation.
LEMMA Concat ==
  ASSUME NEW s \in Seq(Nat), NEW c \in Seq(Nat)
  PROVE  /\ s \o c \in Seq(Nat) /\ Len(s \o c) = Len(s) + Len(c)
         /\ \A i \in 1 .. Len(s) : (s \o c)[i] = s[i]
         /\ \A i \in 1 .. Len(c) : (s \o c)[Len(s) + i] = c[i]
         /\ \A i \in 1 .. Len(s) + Len(c) :
              i \in 1 .. Len(s) \/ \E j \in 1 .. Len(c) : i = Len(s) + j
<1>1. \A i \in 1 .. Len(s) + Len(c) : i \in 1 .. Len(s) \/ i - Len(s) \in 1 .. Len(c)
  OBVIOUS
<1>2. \A i \in 1 .. Len(c) : (s \o c)[Len(s) + i] = c[i]
  <2> TAKE i \in 1 .. Len(c)
  <2>1. Len(s) + i \in 1 .. Len(s) + Len(c) /\ Len(s) + i > Len(s) /\ Len(s) + i - Len(s) = i
    OBVIOUS
  <2>2. (s \o c)[Len(s) + i] = c[Len(s) + i - Len(s)]
    BY <2>1, ConcatProperties
  <2> QED  BY <2>1, <2>2
<1>3. s \o c \in Seq(Nat) /\ Len(s \o c) = Len(s) + Len(c) /\ \A i \in 1 .. Len(s) : (s \o c)[i] = s[i]
  OBVIOUS
<1>4. \A i \in 1 .. Len(s) + Len(c) : i \in 1 .. Len(s) \/ \E j \in 1 .. Len(c) : i = Len(s) + j
  <2> TAKE i \in 1 .. Len(s) + Len(c)
  <2>1. i = Len(s) + (i - Len(s))
    OBVIOUS
  <2> QED  BY <1>1, <2>1
<1> QED  BY <1>2, <1>3, <1>4

\* An item of a concatenation is one of a part.
LEMMA InConcat ==
  ASSUME NEW s \in Seq(Nat), NEW c \in Seq(Nat), NEW k
  PROVE  In(k, s \o c) <=> In(k, s) \/ In(k, c)
<1> DEFINE t == s \o c
<1>1. /\ Len(t) = Len(s) + Len(c) /\ Len(s) \in Nat /\ Len(c) \in Nat
      /\ \A i \in 1 .. Len(s) : t[i] = s[i]
      /\ \A i \in 1 .. Len(c) : t[Len(s) + i] = c[i]
      /\ \A i \in 1 .. Len(s) + Len(c) : i \in 1 .. Len(s) \/ \E j \in 1 .. Len(c) : i = Len(s) + j
  BY Concat
<1> HIDE DEF t
<1>2. In(k, t) => In(k, s) \/ In(k, c)
  <2>1. SUFFICES ASSUME NEW i \in 1 .. Len(t), t[i] = k PROVE In(k, s) \/ In(k, c)
    BY DEF In
  <2>2. CASE i \in 1 .. Len(s)
    BY <1>1, <2>1, <2>2 DEF In
  <2>3. ASSUME NEW j \in 1 .. Len(c), i = Len(s) + j PROVE In(k, c)
    BY <1>1, <2>1, <2>3 DEF In
  <2> QED  BY <1>1, <2>2, <2>3
<1>3. In(k, s) => In(k, t)
  <2>1. \A i \in 1 .. Len(s) : i \in 1 .. Len(t)
    BY <1>1
  <2> QED  BY <1>1, <2>1 DEF In
<1>4. In(k, c) => In(k, t)
  <2>1. \A i \in 1 .. Len(c) : Len(s) + i \in 1 .. Len(t)
    BY <1>1
  <2> QED  BY <1>1, <2>1 DEF In
<1> QED  BY <1>2, <1>3, <1>4 DEF t

\* A bound on the items of a sequence is one when it is larger.
LEMMA UpToMore ==
  ASSUME NEW s \in Seq(Nat), NEW m \in Nat, NEW n \in Nat, m <= n, UpTo(s, m)
  PROVE  UpTo(s, n)
BY DEF UpTo

\* A bound on the items of two sequences bounds those of the two together.
LEMMA UpToConcat ==
  ASSUME NEW s \in Seq(Nat), NEW c \in Seq(Nat), NEW m, UpTo(s, m), UpTo(c, m)
  PROVE  UpTo(s \o c, m)
<1>1. \A i \in 1 .. Len(s \o c) : In((s \o c)[i], s \o c)
  BY DEF In
<1>2. \A i \in 1 .. Len(s \o c) : In((s \o c)[i], s) \/ In((s \o c)[i], c)
  BY <1>1, InConcat
<1> QED  BY <1>2 DEF In, UpTo

\* What precedes s and what is in s, or before in c, precedes the two in a row.
LEMMA PrecedesConcat ==
  ASSUME NEW s \in Seq(Nat), NEW c \in Seq(Nat), NEW d \in Seq(Nat), Precedes(d, s),
         \A i \in 1 .. Len(c), q \in 1 .. Len(d) :
            d[q] < c[i] => In(d[q], s) \/ \E r \in 1 .. i - 1 : c[r] = d[q]
  PROVE  Precedes(d, s \o c)
<1> DEFINE t == s \o c
<1>1. /\ t \in Seq(Nat) /\ Len(t) = Len(s) + Len(c) /\ Len(s) \in Nat /\ Len(c) \in Nat
      /\ \A i \in 1 .. Len(s) : t[i] = s[i]
      /\ \A i \in 1 .. Len(c) : t[Len(s) + i] = c[i]
      /\ \A i \in 1 .. Len(s) + Len(c) : i \in 1 .. Len(s) \/ \E j \in 1 .. Len(c) : i = Len(s) + j
  BY Concat
<1> HIDE DEF t
<1>2. ASSUME NEW p \in 1 .. Len(t), NEW q \in 1 .. Len(d), d[q] < t[p]
      PROVE  \E r \in 1 .. p - 1 : t[r] = d[q]
  <2>1. CASE p \in 1 .. Len(s)
    <3>1. PICK r \in 1 .. p - 1 : s[r] = d[q]
      BY <1>1, <1>2, <2>1 DEF Precedes
    <3>2. r \in 1 .. Len(s)
      BY <1>1, <2>1
    <3> QED  BY <1>1, <3>1, <3>2
  <2>2. ASSUME NEW i \in 1 .. Len(c), p = Len(s) + i PROVE \E r \in 1 .. p - 1 : t[r] = d[q]
    <3>1. d[q] < c[i]
      BY <1>1, <1>2, <2>2
    <3>2. CASE In(d[q], s)
      <4>1. PICK r \in 1 .. Len(s) : s[r] = d[q]
        BY <3>2 DEF In
      <4>2. r \in 1 .. p - 1
        BY <1>1, <2>2
      <4> QED  BY <1>1, <4>1, <4>2
    <3>3. CASE \E r \in 1 .. i - 1 : c[r] = d[q]
      <4>1. PICK r \in 1 .. i - 1 : c[r] = d[q]
        BY <3>3
      <4>2. r \in 1 .. Len(c) /\ Len(s) + r \in 1 .. p - 1
        <5>1. r \in Int /\ i \in Int /\ Len(s) \in Nat /\ Len(c) \in Nat
          BY <1>1
        <5>2. 1 <= r /\ r <= i - 1 /\ 1 <= i /\ i <= Len(c) /\ p = Len(s) + i
          BY <2>2, <4>1
        <5> HIDE DEF In
        <5> QED  BY ONLY <5>1, <5>2
      <4>3. t[Len(s) + r] = d[q]
        BY <1>1, <4>1, <4>2
      <4> QED  BY <4>2, <4>3
    <3> QED  BY <3>1, <3>2, <3>3
  <2> QED  BY <1>1, <2>1, <2>2
<1> QED  BY <1>2 DEF Precedes, t

\* What two sequences precede, the two together precede.
LEMMA ConcatPrecedes ==
  ASSUME NEW s \in Seq(Nat), NEW c \in Seq(Nat), NEW t \in Seq(Nat), Precedes(s, t), Precedes(c, t)
  PROVE  Precedes(s \o c, t)
<1>1. \A q \in 1 .. Len(s \o c) : In((s \o c)[q], s \o c)
  BY DEF In
<1>2. \A q \in 1 .. Len(s \o c) : In((s \o c)[q], s) \/ In((s \o c)[q], c)
  BY <1>1, InConcat
<1>3. ASSUME NEW p \in 1 .. Len(t), NEW k, In(k, s) \/ In(k, c), k < t[p]
      PROVE  \E r \in 1 .. p - 1 : t[r] = k
  BY <1>3 DEF In, Precedes
<1> QED  BY <1>2, <1>3 DEF Precedes

\* A new field: its bytes are larger than all there are.
LEMMA Field ==
  ASSUME NEW m \in Nat, NEW n \in Nat
  PROVE  LET b == [i \in 1 .. n |-> m + i] IN
         /\ b \in Seq(Nat) /\ Len(b) = n /\ Precedes(b, b) /\ UpTo(b, m + n)
         /\ \A i \in 1 .. n : b[i] > m
         /\ \A s \in Seq(Nat) : UpTo(s, m) => Precedes(b, s) /\ UpTo(s, m + n)
<1> DEFINE b == [i \in 1 .. n |-> m + i]
<1>1. b \in Seq(Nat) /\ Len(b) = n /\ \A i \in 1 .. n : b[i] = m + i
  OBVIOUS
<1> HIDE DEF b
<1>2. Precedes(b, b) /\ UpTo(b, m + n) /\ \A i \in 1 .. n : b[i] > m
  BY <1>1 DEF Precedes, UpTo
<1>3. ASSUME NEW s \in Seq(Nat), UpTo(s, m) PROVE Precedes(b, s) /\ UpTo(s, m + n)
  <2>1. \A p \in 1 .. Len(s) : s[p] \in Nat /\ s[p] <= m
    BY <1>3 DEF UpTo
  <2>2. UpTo(s, m + n)
    BY <2>1 DEF UpTo
  <2>3. \A p \in 1 .. Len(s), q \in 1 .. Len(b) : ~ (b[q] < s[p])
    <3> TAKE p \in 1 .. Len(s), q \in 1 .. Len(b)
    <3>1. q \in 1 .. n /\ b[q] = m + q /\ s[p] \in Nat /\ s[p] <= m
      BY <1>1, <2>1
    <3> QED  BY <3>1
  <2> QED  BY <2>2, <2>3 DEF Precedes
<1> QED  BY <1>1, <1>2, <1>3 DEF b

\* The first k bytes of a sequence.
LEMMA Part ==
  ASSUME NEW b \in Seq(Nat), NEW k \in 0 .. Len(b), Precedes(b, b), NEW m, UpTo(b, m)
  PROVE  LET c == SubSeq(b, 1, k) IN
         /\ c \in Seq(Nat) /\ UpTo(c, m) /\ Len(c) = k /\ \A i \in 1 .. k : c[i] = b[i]
         /\ \A i \in 1 .. k, q \in 1 .. Len(b) : b[q] < c[i] => \E r \in 1 .. i - 1 : c[r] = b[q]
         /\ \A i \in 1 .. k : In(c[i], b)
<1> DEFINE c == SubSeq(b, 1, k)
<1>1. c \in Seq(Nat) /\ Len(c) = k /\ \A i \in 1 .. k : c[i] = b[i] /\ i \in 1 .. Len(b)
  OBVIOUS
<1> HIDE DEF c
<1>2. UpTo(c, m) /\ \A i \in 1 .. k : In(c[i], b)
  BY <1>1 DEF UpTo, In
<1>3. ASSUME NEW i \in 1 .. k, NEW q \in 1 .. Len(b), b[q] < c[i] PROVE \E r \in 1 .. i - 1 : c[r] = b[q]
  <2>1. PICK r \in 1 .. i - 1 : b[r] = b[q]
    BY <1>1, <1>3 DEF Precedes
  <2>2. r \in 1 .. k
    OBVIOUS
  <2> QED  BY <1>1, <2>1, <2>2
<1> QED  BY <1>1, <1>2, <1>3 DEF c
-----------------------------------------------------------------------------
(* Steps.                                                                  *)

\* The buffer follows what is in the file.
LEMMA Flushed ==
  ASSUME PrintInv
  PROVE  /\ printFile \o printBuf \in Seq(Nat) /\ UpTo(printFile \o printBuf, made)
         /\ Len(printFile \o printBuf) = Len(printFile) + Len(printBuf)
         /\ Precedes(printFile, printFile \o printBuf) /\ Precedes(printBuf, printFile \o printBuf)
         /\ Precedes(printFile \o printBuf, printFile \o printBuf)
<1>1. printFile \in Seq(Nat) /\ printBuf \in Seq(Nat)
  BY DEF PrintInv
<1>2. printFile \o printBuf \in Seq(Nat) /\ Len(printFile \o printBuf) = Len(printFile) + Len(printBuf)
  BY <1>1, Concat
<1>3. UpTo(printFile \o printBuf, made)
  BY <1>1, UpToConcat DEF PrintInv
<1>4. \A q \in 1 .. Len(printFile) : In(printFile[q], printFile)
  BY DEF In
<1>5. Precedes(printFile, printFile \o printBuf)
  BY <1>1, <1>4, PrecedesConcat DEF PrintInv
<1>6. Precedes(printBuf, printFile \o printBuf)
  <2>1. \A i \in 1 .. Len(printBuf), q \in 1 .. Len(printBuf) :
          printBuf[q] < printBuf[i] => \E r \in 1 .. i - 1 : printBuf[r] = printBuf[q]
    BY DEF PrintInv, Precedes
  <2> QED  BY <1>1, <2>1, PrecedesConcat DEF PrintInv
<1>7. Precedes(printFile \o printBuf, printFile \o printBuf)
  BY <1>1, <1>2, <1>5, <1>6, ConcatPrecedes
<1> QED  BY <1>2, <1>3, <1>5, <1>6, <1>7

\* A field put behind a sequence in order, and a part of the field.
LEMMA FieldBehind ==
  ASSUME NEW s \in Seq(Nat), NEW m \in Nat, UpTo(s, m), Precedes(s, s), NEW n \in Nat, NEW k \in 0 .. n
  PROVE  LET b == [i \in 1 .. n |-> m + i]
             c == SubSeq(b, 1, k)
         IN  s \o c \in Seq(Nat) /\ Len(s \o c) = Len(s) + k /\ UpTo(s \o c, m + n)
             /\ Precedes(s \o c, s \o c)
<1> DEFINE b == [i \in 1 .. n |-> m + i]
           c == SubSeq(b, 1, k)
<1>1. /\ b \in Seq(Nat) /\ Len(b) = n /\ Precedes(b, b) /\ UpTo(b, m + n) /\ \A i \in 1 .. n : b[i] > m
      /\ Precedes(b, s) /\ UpTo(s, m + n)
  BY Field
<1> HIDE DEF b
<1>2. /\ c \in Seq(Nat) /\ UpTo(c, m + n) /\ Len(c) = k /\ \A i \in 1 .. k : c[i] = b[i]
      /\ \A i \in 1 .. k, q \in 1 .. Len(b) : b[q] < c[i] => \E r \in 1 .. i - 1 : c[r] = b[q]
  BY <1>1, Part
<1> HIDE DEF c
<1>9. \A q \in 1 .. k : q \in 1 .. Len(b) /\ c[q] = b[q]
  BY <1>1, <1>2
<1>3. Precedes(c, s)
  <2> SUFFICES ASSUME NEW p \in 1 .. Len(s), NEW q \in 1 .. k, c[q] < s[p]
               PROVE  \E r \in 1 .. p - 1 : s[r] = c[q]
    BY <1>2 DEF Precedes
  <2>1. q \in 1 .. Len(b) /\ c[q] = b[q]
    BY <1>9
  <2> QED  BY <1>1, <2>1 DEF Precedes
<1>4. \A i \in 1 .. k, q \in 1 .. k : c[q] < c[i] => \E r \in 1 .. i - 1 : c[r] = c[q]
  <2> SUFFICES ASSUME NEW i \in 1 .. k, NEW q \in 1 .. k, c[q] < c[i]
               PROVE  \E r \in 1 .. i - 1 : c[r] = c[q]
    OBVIOUS
  <2>1. q \in 1 .. Len(b) /\ c[q] = b[q]
    BY <1>9
  <2> QED  BY <1>2, <2>1
<1>5. \A q \in 1 .. Len(s) : In(s[q], s)
  BY DEF In
<1>6. Precedes(s, s \o c) /\ Precedes(c, s \o c)
  BY <1>2, <1>3, <1>4, <1>5, PrecedesConcat
<1>7. s \o c \in Seq(Nat) /\ Len(s \o c) = Len(s) + k
  BY <1>2, Concat
<1>8. Precedes(s \o c, s \o c) /\ UpTo(s \o c, m + n)
  BY <1>1, <1>2, <1>6, <1>7, ConcatPrecedes, UpToConcat
<1> QED  BY <1>7, <1>8 DEF c, b

\* write() failed with a part of the buffer in the file; the buffer stays.
LEMMA FailedStep ==
  ASSUME PrintInv, Failed(printFile, printBuf), printBuf' = printBuf, printed' = printed,
         made' \in Nat, made' >= made
  PROVE  PrintInv'
<1>1. PICK k \in 0 .. Len(printBuf) : printFile' = printFile \o SubSeq(printBuf, 1, k)
  BY DEF Failed
<1> DEFINE c == SubSeq(printBuf, 1, k)
<1>2. /\ printFile \in Seq(Nat) /\ printBuf \in Seq(Nat) /\ made \in Nat /\ UpTo(printFile, made) /\ UpTo(printBuf, made)
      /\ Precedes(printFile, printFile) /\ Precedes(printBuf, printFile) /\ Precedes(printBuf, printBuf)
  BY DEF PrintInv
<1>3. /\ c \in Seq(Nat) /\ UpTo(c, made) /\ Len(c) = k /\ \A i \in 1 .. k : c[i] = printBuf[i]
      /\ \A i \in 1 .. k, q \in 1 .. Len(printBuf) :
           printBuf[q] < c[i] => \E r \in 1 .. i - 1 : c[r] = printBuf[q]
  BY <1>2, Part
<1>4. printFile' = printFile \o c
  BY <1>1
<1> HIDE DEF c
<1>5. \A q \in 1 .. Len(printFile) : In(printFile[q], printFile)
  BY DEF In
<1>6. Precedes(printFile, printFile \o c)
  BY <1>2, <1>3, <1>5, PrecedesConcat
<1>7. Precedes(printBuf, printFile \o c)
  BY <1>2, <1>3, PrecedesConcat
<1>8. Precedes(c, printFile \o c)
  <2>1. \A q \in 1 .. Len(c) : q \in 1 .. Len(printBuf) /\ c[q] = printBuf[q]
    BY <1>2, <1>3
  <2> QED  BY <1>7, <2>1 DEF Precedes
<1>9. printFile \o c \in Seq(Nat) /\ UpTo(printFile \o c, made)
  BY <1>2, <1>3, Concat, UpToConcat
<1>10. Precedes(printFile \o c, printFile \o c)
  BY <1>2, <1>3, <1>6, <1>8, <1>9, ConcatPrecedes
<1>11. UpTo(printFile \o c, made') /\ UpTo(printBuf, made')
  BY <1>2, <1>9, UpToMore
<1>12. \A j \in printed : In(j, printFile \o c) \/ In(j, printBuf)
  BY <1>2, <1>3, InConcat DEF PrintInv
<1>13. failures' \in Nat /\ failures' # 0
  BY DEF Failed, PrintInv
<1> QED  BY <1>2, <1>4, <1>7, <1>9, <1>10, <1>11, <1>12, <1>13 DEF PrintInv

\* The empty sequence precedes any other.
LEMMA Empty == ASSUME NEW s PROVE <<>> \in Seq(Nat) /\ Len(<<>>) = 0 /\ Precedes(<<>>, s)
                                  /\ Precedes(<<>>, <<>>) /\ \A m : UpTo(<<>>, m)
BY DEF Precedes, UpTo

\* sync keeps PrintInv.
LEMMA PrintSyncStep == ASSUME PrintInv, sync PROVE PrintInv'
<1>1. CASE Written(printFile, printBuf) /\ printBuf' = <<>>
  <2>1. printFile' = printFile \o printBuf /\ printBuf' = <<>> /\ UNCHANGED <<printed, made, failures>>
    BY <1>1 DEF sync, Written
  <2>2. /\ printFile' \in Seq(Nat) /\ UpTo(printFile', made) /\ Precedes(printFile', printFile')
        /\ Len(printFile') = Len(printFile) + Len(printBuf)
    BY <2>1, Flushed
  <2>3. \A k \in printed : In(k, printFile')
    BY <2>1, InConcat DEF PrintInv
  <2>4. failures = 0 => Len(printFile') + Len(<<>>) = made
    BY <2>2, Empty DEF PrintInv
  <2> HIDE DEF Precedes, UpTo, In
  <2> QED  BY <2>1, <2>2, <2>3, <2>4, Empty DEF PrintInv
<1>2. CASE Failed(printFile, printBuf) /\ UNCHANGED printBuf
  BY <1>2, FailedStep DEF sync, PrintInv
<1> QED  BY <1>1, <1>2 DEF sync

\* A write keeps PrintInv.
LEMMA WriteBufStep ==
  ASSUME PrintInv, NEW n \in Nat \ {0}, NEW returned, write(n, returned)
  PROVE  PrintInv'
<1>1. LET b == [i \in 1 .. n |-> made + i]
          fits == Len(printBuf) + n <= BufDim
      IN  /\ made' = made + n
          /\ \/ /\ IF fits THEN Fits(b) ELSE Flushes(b) \/ Bypasses(b)
                /\ printed' = printed \cup Range(b)
             \/ /\ ~fits /\ printed' = printed
                /\ \/ Failed(printFile, printBuf) /\ UNCHANGED printBuf
                   \/ n >= BufDim /\ Failed(printFile \o printBuf, b) /\ printBuf' = <<>>
  BY DEF write
<1> DEFINE b == [i \in 1 .. n |-> made + i]
<1>2. n \in Nat /\ n > 0
  OBVIOUS
<1>3. /\ printFile \in Seq(Nat) /\ printBuf \in Seq(Nat) /\ made \in Nat /\ UpTo(printFile, made) /\ UpTo(printBuf, made)
      /\ Precedes(printFile, printFile) /\ Precedes(printBuf, printFile) /\ Precedes(printBuf, printBuf)
  BY DEF PrintInv
<1>4. /\ b \in Seq(Nat) /\ Len(b) = n /\ Precedes(b, b) /\ UpTo(b, made + n)
      /\ \A s \in Seq(Nat) : UpTo(s, made) => Precedes(b, s) /\ UpTo(s, made + n)
  BY <1>2, <1>3, Field
<1>5. SubSeq(b, 1, n) = b
  BY <1>2, <1>4
<1>6. \A k : k \in Range(b) => In(k, b)
  BY <1>4 DEF Range, In
<1>7. made' = made + n /\ made' \in Nat
  BY <1>1, <1>2, <1>3
<1>14. b \in Seq(Nat) /\ Len(b) = n /\ SubSeq(b, 1, n) = b
  BY <1>4, <1>5
<1>15. ASSUME NEW s \in Seq(Nat), UpTo(s, made), Precedes(s, s)
       PROVE  /\ s \o b \in Seq(Nat) /\ Len(s \o b) = Len(s) + n /\ UpTo(s \o b, made + n)
              /\ Precedes(s \o b, s \o b)
  <2>1. n \in 0 .. n
    BY <1>2
  <2>2. LET e == [i \in 1 .. n |-> made + i]
            c == SubSeq(e, 1, n)
        IN  s \o c \in Seq(Nat) /\ Len(s \o c) = Len(s) + n /\ UpTo(s \o c, made + n)
            /\ Precedes(s \o c, s \o c)
    BY <1>2, <1>3, <1>15, <2>1, FieldBehind
  <2> QED  BY <1>14, <2>2
<1>8. CASE Failed(printFile, printBuf) /\ UNCHANGED printBuf /\ printed' = printed
  BY <1>2, <1>3, <1>7, <1>8, FailedStep
<1>9. CASE Fits(b) /\ printed' = printed \cup Range(b)
  <2>1. printBuf' = printBuf \o b /\ printFile' = printFile /\ failures' = failures
    BY <1>9 DEF Fits
  <2>2. /\ printBuf \o b \in Seq(Nat) /\ Len(printBuf \o b) = Len(printBuf) + n /\ UpTo(printBuf \o b, made + n)
        /\ Precedes(printBuf \o b, printBuf \o b)
    BY <1>3, <1>14, <1>15
  <2>3. Precedes(printBuf \o b, printFile)
    BY <1>3, <1>4, ConcatPrecedes
  <2>4. UpTo(printFile, made + n)
    BY <1>3, <1>4
  <2>7. \A k : In(k, printBuf \o b) <=> In(k, printBuf) \/ In(k, b)
    BY <1>3, <1>14, InConcat
  <2>5. \A k \in printed \cup Range(b) : In(k, printFile) \/ In(k, printBuf \o b)
    BY <1>6, <2>7 DEF PrintInv
  <2>6. failures = 0 => Len(printFile) + Len(printBuf) + n = made + n
    BY <1>3 DEF PrintInv
  <2> HIDE DEF b
  <2> QED  BY <1>3, <1>7, <1>9, <2>1, <2>2, <2>3, <2>4, <2>5, <2>6 DEF PrintInv
<1>10. CASE Flushes(b) /\ printed' = printed \cup Range(b)
  <2>1. printFile' = printFile \o printBuf /\ printBuf' = b /\ failures' = failures
    BY <1>10 DEF Flushes, Written
  <2>2. /\ printFile \o printBuf \in Seq(Nat) /\ UpTo(printFile \o printBuf, made)
        /\ Len(printFile \o printBuf) = Len(printFile) + Len(printBuf) /\ Precedes(printFile \o printBuf, printFile \o printBuf)
    BY Flushed
  <2>3. Precedes(b, printFile \o printBuf) /\ UpTo(printFile \o printBuf, made + n)
    BY <1>4, <2>2
  <2>4. \A k \in printed \cup Range(b) : In(k, printFile \o printBuf) \/ In(k, b)
    BY <1>3, <1>6, InConcat DEF PrintInv
  <2>5. failures = 0 => Len(printFile) + Len(printBuf) + n = made + n
    BY <1>3 DEF PrintInv
  <2> HIDE DEF b
  <2> QED  BY <1>3, <1>4, <1>7, <1>10, <2>1, <2>2, <2>3, <2>4, <2>5 DEF PrintInv
<1>11. CASE Bypasses(b) /\ printed' = printed \cup Range(b)
  <2>1. printFile' = (printFile \o printBuf) \o b /\ printBuf' = <<>> /\ failures' = failures
    BY <1>11 DEF Bypasses, Written
  <2>2. /\ printFile \o printBuf \in Seq(Nat) /\ UpTo(printFile \o printBuf, made)
        /\ Len(printFile \o printBuf) = Len(printFile) + Len(printBuf) /\ Precedes(printFile \o printBuf, printFile \o printBuf)
    BY Flushed
  <2>3. /\ printFile' \in Seq(Nat) /\ Len(printFile') = Len(printFile) + Len(printBuf) + n /\ UpTo(printFile', made + n)
        /\ Precedes(printFile', printFile')
    <3>1. /\ (printFile \o printBuf) \o b \in Seq(Nat) /\ Len((printFile \o printBuf) \o b) = Len(printFile \o printBuf) + n
          /\ UpTo((printFile \o printBuf) \o b, made + n) /\ Precedes((printFile \o printBuf) \o b, (printFile \o printBuf) \o b)
      BY <2>2, <1>15
    <3> QED  BY <2>1, <2>2, <3>1
  <2>4. \A k \in printed \cup Range(b) : In(k, printFile')
    <3>2. \A k : In(k, (printFile \o printBuf) \o b) <=> In(k, printFile \o printBuf) \/ In(k, b)
      <4> DEFINE t == printFile \o printBuf
      <4>1. t \in Seq(Nat) /\ b \in Seq(Nat)
        BY <1>14, <2>2
      <4> HIDE DEF t, b
      <4>2. \A k : In(k, t \o b) <=> In(k, t) \/ In(k, b)
        BY <4>1, InConcat
      <4> QED  BY <4>2 DEF t
    <3>3. \A k : In(k, printFile \o printBuf) <=> In(k, printFile) \/ In(k, printBuf)
      BY <1>3, InConcat
    <3>1. \A k : In(k, (printFile \o printBuf) \o b) <=> In(k, printFile) \/ In(k, printBuf) \/ In(k, b)
      BY <3>2, <3>3
    <3> QED  BY <1>6, <2>1, <3>1 DEF PrintInv
  <2>5. failures = 0 => Len(printFile) + Len(printBuf) + n = made + n
    BY <1>3 DEF PrintInv
  <2> HIDE DEF b
  <2>6. failures = 0 => Len(printFile') + Len(<<>>) = made + n
    BY <2>3, <2>5, Empty
  <2> QED  BY <1>7, <1>11, <2>1, <2>3, <2>4, <2>6, Empty DEF PrintInv
<1>12. CASE Failed(printFile \o printBuf, b) /\ printBuf' = <<>> /\ printed' = printed
  <2>1. PICK k \in 0 .. Len(b) : printFile' = (printFile \o printBuf) \o SubSeq(b, 1, k)
    BY <1>12 DEF Failed
  <2>2. /\ printFile \o printBuf \in Seq(Nat) /\ UpTo(printFile \o printBuf, made) /\ Precedes(printFile \o printBuf, printFile \o printBuf)
    BY Flushed
  <2>3. k \in 0 .. n
    BY <1>4, <2>1
  <2>4. printFile' \in Seq(Nat) /\ UpTo(printFile', made + n) /\ Precedes(printFile', printFile')
    BY <1>2, <1>3, <2>1, <2>2, <2>3, FieldBehind
  <2>5. SubSeq(b, 1, k) \in Seq(Nat)
    BY <1>4, <2>3
  <2>6. \A j \in printed : In(j, printFile')
    BY <1>3, <2>1, <2>2, <2>5, InConcat DEF PrintInv
  <2>7. failures' \in Nat /\ failures' # 0
    BY <1>12 DEF Failed, PrintInv
  <2> HIDE DEF b
  <2> QED  BY <1>3, <1>7, <1>12, <2>4, <2>6, <2>7, Empty DEF PrintInv
<1> QED  BY <1>1, <1>8, <1>9, <1>10, <1>11, <1>12

\* What a write returned says whether its bytes are printed.
LEMMA WriteCounts ==
  ASSUME ToldInv, NEW n \in Nat \ {0}, NEW returned \in {0, n}, write(n, returned)
  PROVE  /\ made' = made + n /\ printed \subseteq printed'
         /\ returned = n => made + 1 .. made' \subseteq printed'
<1> DEFINE b == [i \in 1 .. n |-> made + i]
<1>1. made' = made + n /\ printed \subseteq printed' /\ (returned = n => printed' = printed \cup Range(b))
  BY DEF write
<1>2. \A k \in made + 1 .. made + n : k - made \in 1 .. n /\ b[k - made] = k
  BY DEF ToldInv
<1>3. \A k \in made + 1 .. made + n : k \in Range(b)
  BY <1>2 DEF Range
<1> QED  BY <1>1, <1>3

\* A field of one write keeps ToldInv.
LEMMA FieldTold == ASSUME ToldInv, PrintField PROVE ToldInv'
<1>0. PICK n \in 1 .. BufDim + 1 : \E returned \in {0, n} :
        field.open = 0 /\ write(n, returned) /\ Tells(made, returned) /\ UNCHANGED field
  BY DEF PrintField
<1>1. PICK returned \in {0, n} :
        field.open = 0 /\ write(n, returned) /\ Tells(made, returned) /\ UNCHANGED field
  BY <1>0
<1>2. n \in Nat \ {0}
  OBVIOUS
<1>3. made' = made + n /\ printed \subseteq printed' /\ (returned = n => made + 1 .. made' \subseteq printed')
  BY <1>1, <1>2, WriteCounts
<1>4. told' \subseteq printed'
  <2>1. returned = made' - made => returned = n
    BY <1>2, <1>3 DEF ToldInv
  <2> QED  BY <1>1, <1>3, <2>1 DEF Tells, ToldInv
<1> QED  BY <1>1, <1>2, <1>3, <1>4 DEF ToldInv

\* The string of a field keeps ToldInv.
LEMMA StringTold == ASSUME ToldInv, PrintString PROVE ToldInv'
<1>0. PICK n \in 1 .. BufDim + 1 : \E returned \in {0, n} :
        /\ write(n, returned) /\ UNCHANGED told
        /\ field' = [open |-> 1, from |-> made, returned |-> returned]
  BY DEF PrintString
<1>1. PICK returned \in {0, n} :
        /\ write(n, returned) /\ UNCHANGED told
        /\ field' = [open |-> 1, from |-> made, returned |-> returned]
  BY <1>0
<1>2. n \in Nat \ {0}
  OBVIOUS
<1>3. made' = made + n /\ printed \subseteq printed' /\ (returned = n => made + 1 .. made' \subseteq printed')
  BY <1>1, <1>2, WriteCounts
<1>4. made \in Nat /\ told \subseteq printed
  BY DEF ToldInv
<1>5. made' \in Nat /\ made <= made' /\ returned \in Nat /\ returned <= made' - made
      /\ (returned = made' - made => returned = n)
  BY <1>2, <1>3, <1>4
<1> QED  BY <1>1, <1>3, <1>4, <1>5 DEF ToldInv

\* The terminator of a string keeps ToldInv: the counts add up only if both writes printed.
LEMMA TerminatorTold == ASSUME ToldInv, PrintTerminator PROVE ToldInv'
<1>0. PICK n \in 1 .. 2 : \E returned \in {0, n} :
        /\ field.open = 1 /\ write(n, returned)
        /\ Tells(field.from, field.returned + returned) /\ field' = NoField
  BY DEF PrintTerminator
<1>1. PICK returned \in {0, n} :
        /\ field.open = 1 /\ write(n, returned)
        /\ Tells(field.from, field.returned + returned) /\ field' = NoField
  BY <1>0
<1>2. n \in Nat \ {0}
  OBVIOUS
<1>3. made' = made + n /\ printed \subseteq printed' /\ (returned = n => made + 1 .. made' \subseteq printed')
  BY <1>1, <1>2, WriteCounts
<1>4. made \in Nat /\ told \subseteq printed /\ field.from \in Nat /\ field.returned \in Nat
      /\ field.returned <= made - field.from
      /\ (field.returned = made - field.from => field.from + 1 .. made \subseteq printed)
  BY <1>1 DEF ToldInv
<1>5. ASSUME field.returned + returned = made' - field.from
      PROVE  field.from + 1 .. made' \subseteq printed'
  <2>1. field.returned = made - field.from /\ returned = n
    BY <1>2, <1>3, <1>4, <1>5
  <2>2. \A k \in field.from + 1 .. made' : k \in field.from + 1 .. made \/ k \in made + 1 .. made'
    BY <1>3, <1>4
  <2> QED  BY <1>3, <1>4, <2>1, <2>2
<1>6. told' \subseteq printed'
  BY <1>1, <1>3, <1>4, <1>5 DEF Tells
<1>7. made' \in Nat
  BY <1>2, <1>3, <1>4
<1> QED  BY <1>1, <1>6, <1>7 DEF ToldInv, NoField

-----------------------------------------------------------------------------
(* The theorem.                                                            *)

\* What is somewhere has a first place, and what is smaller has one before it.
LEMMA FirstPlace ==
  ASSUME Held \in Seq(Nat), NEW k \in Range(Held)
  PROVE  First(k) \in 1 .. Len(Held) /\ Held[First(k)] = k /\ \A j \in 1 .. First(k) - 1 : Held[j] # k
<1> DEFINE S == {i \in 1 .. Len(Held) : Held[i] = k}
<1>1. S # {} /\ S \subseteq Nat
  BY DEF Range
<1>2. PICK m \in S : \A n \in S : m <= n
  BY <1>1, LeastNat
<1>3. \E i \in 1 .. Len(Held) : Held[i] = k /\ \A j \in 1 .. i - 1 : Held[j] # k
  <2>1. m \in 1 .. Len(Held) /\ Held[m] = k
    OBVIOUS
  <2>2. \A j \in 1 .. m - 1 : j \in 1 .. Len(Held) /\ ~ (m <= j)
    BY <2>1
  <2> QED  BY <1>2, <2>1, <2>2
<1> QED  BY <1>3 DEF First

\* The invariant gives the order of what is printed.
LEMMA InvOrder == PrintInv /\ ToldInv => PrintedInOrder
<1> SUFFICES ASSUME PrintInv, ToldInv PROVE PrintedInOrder
  OBVIOUS
<1>1. Held \in Seq(Nat) /\ Precedes(Held, Held) /\ Len(Held) = Len(printFile) + Len(printBuf)
  BY Flushed DEF Held
<1>2. \A k : In(k, Held) => k \in Range(Held)
  BY <1>1 DEF In, Range
<1>3. printed \subseteq Range(Held)
  BY <1>2, InConcat DEF PrintInv, Held
<1>4. ASSUME NEW j \in Range(Held), NEW k \in Range(Held), j < k PROVE First(j) < First(k)
  <2>1. First(k) \in 1 .. Len(Held) /\ Held[First(k)] = k
    BY <1>1, FirstPlace
  <2>2. First(j) \in 1 .. Len(Held) /\ Held[First(j)] = j /\ \A i \in 1 .. First(j) - 1 : Held[i] # j
    BY <1>1, FirstPlace
  <2> DEFINE p == First(k)
             q == First(j)
  <2>6. p \in 1 .. Len(Held) /\ q \in 1 .. Len(Held) /\ Held[q] < Held[p] /\ Held[q] = j
    BY <1>4, <2>1, <2>2
  <2> HIDE DEF p, q
  <2>7. \E r \in 1 .. p - 1 : Held[r] = j
    BY <1>1, <2>6 DEF Precedes
  <2>3. \E r \in 1 .. First(k) - 1 : Held[r] = j
    BY <2>7 DEF p
  <2>4. PICK r \in 1 .. First(k) - 1 : Held[r] = j
    BY <2>3
  <2>5. ~ (r < First(j))
    BY <2>2, <2>4
  <2> QED  BY <2>1, <2>2, <2>4, <2>5
<1>5. failures = 0 => Len(Held) = made
  BY <1>1 DEF PrintInv
<1> QED  BY <1>3, <1>4, <1>5 DEF PrintedInOrder, ToldInv

\* The bytes of a field whose printField returned their number are in the file or the buffer, in
\* the order they were printed, for every size of the buffer and whichever writes fail.
THEOREM AlwaysInOrder == PrintSpec => []PrintedInOrder
<1>1. PrintInit => PrintInv /\ ToldInv
  BY Empty DEF PrintInit, PrintInv, ToldInv, NoField
<1>2. PrintInv /\ ToldInv /\ [PrintNext]_printVars => PrintInv' /\ ToldInv'
  <2> SUFFICES ASSUME PrintInv, ToldInv, [PrintNext]_printVars PROVE PrintInv' /\ ToldInv'
    OBVIOUS
  <2>1. CASE UNCHANGED printVars
    BY <2>1 DEF printVars, PrintInv, ToldInv
  <2>2. CASE PrintField
    <3>1. \E n \in Nat \ {0} : \E returned \in {0, n} : write(n, returned)
      BY <2>2 DEF PrintField
    <3> QED  BY <2>2, <3>1, WriteBufStep, FieldTold
  <2>3. CASE PrintString
    <3>1. \E n \in Nat \ {0} : \E returned \in {0, n} : write(n, returned)
      BY <2>3 DEF PrintString
    <3> QED  BY <2>3, <3>1, WriteBufStep, StringTold
  <2>4. CASE PrintTerminator
    <3>1. \E n \in Nat \ {0} : \E returned \in {0, n} : write(n, returned)
      BY <2>4 DEF PrintTerminator
    <3> QED  BY <2>4, <3>1, WriteBufStep, TerminatorTold
  <2>5. CASE sync
    <3>1. ToldInv'
      BY <2>5 DEF sync, ToldInv
    <3> QED  BY <2>5, <3>1, PrintSyncStep
  <2> QED  BY <2>1, <2>2, <2>3, <2>4, <2>5 DEF PrintNext
<1> QED  BY <1>1, <1>2, InvOrder, PTL DEF PrintSpec

-----------------------------------------------------------------------------
(***************************************************************************)
(* For any number of files, volumes and names, and whatever fails: a file  *)
(* that says it is open is one open object of the class its pointer says,  *)
(* and what was written is in the entry or still to be saved.              *)
(*                                                                         *)
(* The invariant speaks of every file, the spoiled ones included: they may *)
(* be used as the directory in which another file is opened.  The object   *)
(* in the memory of a file is of the file system that is mounted, its      *)
(* entry exists, and if it is dirty it has the size the entry should get:  *)
(* two objects of one file are never dirty with different sizes.           *)
(***************************************************************************)
USE FsAssumption

Bit == {0, 1}
Kinds == {"none", "FAT", "exFAT"}
Sizes == 0 .. MaxLength
Objects ==
  [kind : Kinds, vol : SdVolumes \cup {"none"}, name : Names \cup {"root", "none"},
   size : Sizes, pos : Nat, dirty : Bit]
Entries == [Names -> Sizes \cup {NoEntry, Directory}]

FsTypes ==
  /\ m_fVol \in [SdVolumes -> Bit] /\ m_xVol \in [SdVolumes -> Bit]
  /\ m_fFile \in [Handles -> Bit] /\ m_xFile \in [Handles -> Bit]
  /\ m_fileMem \in [Handles -> Objects]
  /\ disk \in [SdVolumes -> [fs : Kinds, entry : Entries]]
  /\ written \in [SdVolumes -> Entries]
  /\ handleFaults \in Nat /\ formats \in Nat /\ spoiled \subseteq Handles

\* The object in the memory of a file, for the volumes, the disk and the sizes there are.
ObjectRight(o, f, x) ==
  /\ (o.name = "none" <=> o.vol = "none") /\ (o.dirty = 1 => o.name \in Names)
  /\ o.name # "none" =>
       /\ FsOf(o.vol) = o.kind
       /\ (o.kind = "FAT" /\ f = 1) \/ (o.kind = "exFAT" /\ x = 1)
  /\ o.name \in Names =>
       /\ disk[o.vol].entry[o.name] # NoEntry
       /\ o.dirty = 1 => o.size = written[o.vol][o.name]
\* The pointers of a file whose close() did not fail.
PointersRight(o, f, x) ==
  /\ f = 1 => o.kind = "FAT" /\ x = 0
  /\ x = 1 => o.kind = "exFAT"
  /\ o.name = "none" => f = 0 /\ x = 0
HandleRight(h) ==
  /\ ObjectRight(m_fileMem[h], m_fFile[h], m_xFile[h])
  /\ h \notin spoiled => PointersRight(m_fileMem[h], m_fFile[h], m_xFile[h])

\* The entry of a name has the size it should, or a dirty file will save it.
EntryRight(v, n) ==
  \/ disk[v].entry[n] = written[v][n]
  \/ \E h \in Handles : m_fileMem[h].vol = v /\ m_fileMem[h].name = n /\ m_fileMem[h].dirty = 1
FsInv ==
  /\ FsTypes
  /\ \A h \in Handles : HandleRight(h)
  /\ handleFaults = 0 => (spoiled = {} /\ \A v \in SdVolumes, n \in Names : EntryRight(v, n))

Disks == [SdVolumes -> [fs : Kinds, entry : Entries]]
Dirty(g, v, n) == m_fileMem[g].vol = v /\ m_fileMem[g].name = n /\ m_fileMem[g].dirty = 1

-----------------------------------------------------------------------------
(* A step that gives the file h the pointers f and x and the object o.     *)

OtherKept(g) ==
  /\ g \notin spoiled' => g \notin spoiled
  /\ m_fileMem[g].name \in Names =>
       /\ disk'[m_fileMem[g].vol].entry[m_fileMem[g].name] # NoEntry
       /\ m_fileMem[g].dirty = 1 =>
            written'[m_fileMem[g].vol][m_fileMem[g].name] = written[m_fileMem[g].vol][m_fileMem[g].name]
NewObject(o, f, x) ==
  /\ (o.name = "none" <=> o.vol = "none") /\ (o.dirty = 1 => o.name \in Names)
  /\ o.name # "none" => FsOf(o.vol) = o.kind /\ ((o.kind = "FAT" /\ f = 1) \/ (o.kind = "exFAT" /\ x = 1))
  /\ o.name \in Names =>
       /\ disk'[o.vol].entry[o.name] # NoEntry
       /\ o.dirty = 1 => o.size = written'[o.vol][o.name]
NewEntry(h, o, v, n) ==
  \/ disk'[v].entry[n] = written'[v][n]
  \/ o.vol = v /\ o.name = n /\ o.dirty = 1
  \/ \E g \in Handles \ {h} : Dirty(g, v, n)

\* A change of one handle and its object, the rest kept, keeps FsInv.
LEMMA HandleStep ==
  ASSUME FsInv, NEW h \in Handles, NEW f \in Bit, NEW x \in Bit, NEW o \in Objects,
         m_fFile' = [m_fFile EXCEPT ![h] = f], m_xFile' = [m_xFile EXCEPT ![h] = x],
         m_fileMem' = [m_fileMem EXCEPT ![h] = o], UNCHANGED fsVolumes,
         disk' \in Disks, written' \in [SdVolumes -> Entries],
         handleFaults' \in Nat, formats' \in Nat, spoiled' \subseteq Handles,
         \A g \in Handles \ {h} : OtherKept(g),
         NewObject(o, f, x), h \notin spoiled' => PointersRight(o, f, x),
         handleFaults' = 0 => (spoiled' = {} /\ \A v \in SdVolumes, n \in Names : NewEntry(h, o, v, n))
  PROVE  FsInv'
<1>1. FsTypes'
  BY DEF FsInv, FsTypes, fsVolumes, Disks
<1>2. HandleRight(h)'
  BY DEF FsInv, FsTypes, HandleRight, ObjectRight, PointersRight, NewObject, FsOf, fsVolumes
<1>3. ASSUME NEW g \in Handles \ {h} PROVE HandleRight(g)'
  <2>1. m_fFile'[g] = m_fFile[g] /\ m_xFile'[g] = m_xFile[g] /\ m_fileMem'[g] = m_fileMem[g]
    BY DEF FsInv, FsTypes
  <2>2. HandleRight(g) /\ OtherKept(g)
    BY DEF FsInv
  <2> QED  BY <2>1, <2>2 DEF HandleRight, ObjectRight, PointersRight, OtherKept, FsOf, fsVolumes
<1>4. ASSUME handleFaults' = 0, NEW v \in SdVolumes, NEW n \in Names PROVE EntryRight(v, n)'
  <2>1. NewEntry(h, o, v, n)
    BY <1>4
  <2>2. ASSUME NEW g \in Handles \ {h}, Dirty(g, v, n) PROVE EntryRight(v, n)'
    BY <2>2 DEF FsInv, FsTypes, Dirty, EntryRight
  <2>3. CASE o.vol = v /\ o.name = n /\ o.dirty = 1
    BY <2>3 DEF FsInv, FsTypes, EntryRight
  <2> QED  BY <2>1, <2>2, <2>3 DEF NewEntry, EntryRight
<1> QED  BY <1>1, <1>2, <1>3, <1>4 DEF FsInv

-----------------------------------------------------------------------------
(* close() at the beginning of another call.                               *)

IsClosed(h, failed, was) ==
  /\ was.f \in Bit /\ was.x \in Bit /\ (~failed => was.f = 0 /\ was.x = 0)
  /\ was.mem \in Objects /\ was.mem.name = "none" /\ was.mem.vol = "none" /\ was.mem.dirty = 0
  /\ was.disk \in Disks
  /\ \A v \in SdVolumes, n \in Names :
       /\ was.disk[v].entry[n] = NoEntry <=> disk[v].entry[n] = NoEntry
       /\ handleFaults = 0 /\ ~failed =>
            was.disk[v].entry[n] = written[v][n] \/ \E g \in Handles \ {h} : Dirty(g, v, n)

\* A handle that the program has not spoiled is closed as close() leaves it.
LEMMA Closing ==
  ASSUME FsInv, NEW h \in Handles, ~Mistaken(h), NEW failed \in BOOLEAN
  PROVE  IsClosed(h, failed, AfterClose(h, failed))
<1> DEFINE o == m_fileMem[h]
           was == AfterClose(h, failed)
<1>1. HandleRight(h) /\ o \in Objects /\ m_fFile[h] \in Bit /\ m_xFile[h] \in Bit /\ disk \in Disks
  BY DEF FsInv, FsTypes, Disks
<1>2. CASE ~isOpen(h)
  <2>1. was = [f |-> 0, x |-> 0, mem |-> o, disk |-> disk]
    BY <1>2 DEF AfterClose
  <2>2. o.name = "none" /\ o.vol = "none" /\ o.dirty = 0
    BY <1>1, <1>2 DEF HandleRight, ObjectRight, isOpen, Reached, Objects, Bit
  <2>3. ASSUME handleFaults = 0, NEW v \in SdVolumes, NEW n \in Names
        PROVE  disk[v].entry[n] = written[v][n] \/ \E g \in Handles \ {h} : Dirty(g, v, n)
    BY <2>2, <2>3 DEF FsInv, EntryRight, Dirty
  <2> QED  BY <1>1, <2>1, <2>2, <2>3 DEF IsClosed, Bit
<1>3. CASE isOpen(h)
  <2>1. was = [f |-> IF m_fFile[h] = 1 /\ failed THEN 1 ELSE 0,
               x |-> IF m_fFile[h] = 1 THEN m_xFile[h] ELSE IF failed THEN 1 ELSE 0,
               mem |-> Shut(o.kind), disk |-> IF failed THEN disk ELSE Saved(disk, o)]
    BY <1>3 DEF AfterClose
  <2>2. was.f \in Bit /\ was.x \in Bit /\ (~failed => was.f = 0 /\ was.x = 0)
    BY <1>1, <2>1 DEF Bit, Mistaken
  <2>3. was.mem \in Objects /\ was.mem.name = "none" /\ was.mem.vol = "none" /\ was.mem.dirty = 0
    BY <1>1, <2>1 DEF Objects, Shut, Nobody, Kinds, Bit, Sizes
  <2>4. CASE failed \/ o.dirty # 1
    <3>1. was.disk = disk
      BY <2>1, <2>4 DEF Saved
    <3>2. ASSUME handleFaults = 0, ~failed, NEW v \in SdVolumes, NEW n \in Names
          PROVE  disk[v].entry[n] = written[v][n] \/ \E g \in Handles \ {h} : Dirty(g, v, n)
      BY <2>4, <3>2 DEF FsInv, EntryRight, Dirty
    <3> QED  BY <1>1, <2>2, <2>3, <3>1, <3>2 DEF IsClosed
  <2>5. CASE ~failed /\ o.dirty = 1
    <3>1. o.name \in Names /\ o.name # "none" /\ o.vol \in SdVolumes /\ o.size \in Sizes
          /\ o.size = written[o.vol][o.name] /\ disk[o.vol].entry[o.name] # NoEntry
      BY <1>1, <2>5 DEF HandleRight, ObjectRight, Objects
    <3>2. was.disk = [disk EXCEPT ![o.vol].entry[o.name] = o.size]
      BY <2>1, <2>5 DEF Saved
    <3>3. was.disk \in Disks
      BY <1>1, <3>1, <3>2 DEF Disks, Entries
    <3>4. \A v \in SdVolumes, n \in Names :
            was.disk[v].entry[n] = IF v = o.vol /\ n = o.name THEN o.size ELSE disk[v].entry[n]
      BY <1>1, <3>1, <3>2 DEF Disks, Entries
    <3>5. ASSUME handleFaults = 0, NEW v \in SdVolumes, NEW n \in Names
          PROVE  was.disk[v].entry[n] = written[v][n] \/ \E g \in Handles \ {h} : Dirty(g, v, n)
      BY <3>1, <3>4, <3>5 DEF FsInv, EntryRight, Dirty
    <3>6. o.size # NoEntry
      BY <3>1 DEF Sizes, NoEntry
    <3> QED  BY <2>2, <2>3, <3>1, <3>3, <3>4, <3>5, <3>6 DEF IsClosed
  <2> QED  BY <2>4, <2>5
<1> QED  BY <1>2, <1>3

-----------------------------------------------------------------------------
(* Opening, copying and closing.                                           *)

\* What every call that closes the file first leaves alone, and what it counts.
Frame(h, failed) ==
  /\ UNCHANGED fsVolumes /\ formats' = formats
  /\ spoiled' \subseteq Handles /\ (failed => h \in spoiled')
  /\ \A g \in Handles \ {h} : g \in spoiled' <=> g \in spoiled
  /\ handleFaults' \in Nat /\ (handleFaults' = 0 => handleFaults = 0 /\ ~failed /\ spoiled' = {})
\* The directory is as close() left it, or has a new entry.
Created(was, v, n, entry) ==
  /\ was.disk[v].entry[n] = NoEntry /\ entry \in Sizes \cup {Directory}
  /\ disk' = [was.disk EXCEPT ![v].entry[n] = entry] /\ written' = [written EXCEPT ![v][n] = entry]
DirectoryStep(was) ==
  \/ disk' = was.disk /\ written' = written
  \/ \E v \in SdVolumes, n \in Names, entry \in Sizes \cup {Directory} : Created(was, v, n, entry)

\* Creating an entry changes it and no other, on the disk and as it was written.
LEMMA CreatedEntry ==
  ASSUME NEW was, was.disk \in Disks, written \in [SdVolumes -> Entries],
         NEW v \in SdVolumes, NEW n \in Names, NEW entry \in Sizes \cup {Directory},
         Created(was, v, n, entry)
  PROVE  /\ disk' \in Disks /\ written' \in [SdVolumes -> Entries]
         /\ \A w \in SdVolumes, m \in Names :
              /\ disk'[w].entry[m] = IF w = v /\ m = n THEN entry ELSE was.disk[w].entry[m]
              /\ written'[w][m] = IF w = v /\ m = n THEN entry ELSE written[w][m]
<1> DEFINE d == was.disk
<1>1. d \in Disks /\ disk' = [d EXCEPT ![v].entry[n] = entry] /\ written' = [written EXCEPT ![v][n] = entry]
  BY DEF Created
<1> HIDE DEF d
<1>2. disk' \in Disks /\ written' \in [SdVolumes -> Entries]
  BY <1>1 DEF Disks, Entries
<1>3. \A w \in SdVolumes, m \in Names :
        disk'[w].entry[m] = IF w = v /\ m = n THEN entry ELSE d[w].entry[m]
  BY <1>1 DEF Disks, Entries
<1>4. \A w \in SdVolumes, m \in Names :
        written'[w][m] = IF w = v /\ m = n THEN entry ELSE written[w][m]
  BY <1>1 DEF Entries
<1> QED  BY <1>2, <1>3, <1>4 DEF d

\* What a step of the directory leaves of the entries there were.
LEMMA EntriesKept ==
  ASSUME NEW was, was.disk \in Disks, written \in [SdVolumes -> Entries], DirectoryStep(was)
  PROVE  /\ disk' \in Disks /\ written' \in [SdVolumes -> Entries]
         /\ \A w \in SdVolumes, m \in Names :
              /\ was.disk[w].entry[m] # NoEntry =>
                   disk'[w].entry[m] # NoEntry /\ written'[w][m] = written[w][m]
              /\ was.disk[w].entry[m] = written[w][m] => disk'[w].entry[m] = written'[w][m]
<1>1. CASE disk' = was.disk /\ written' = written
  BY <1>1
<1>2. ASSUME NEW v \in SdVolumes, NEW n \in Names, NEW entry \in Sizes \cup {Directory},
             Created(was, v, n, entry)
      PROVE  /\ disk' \in Disks /\ written' \in [SdVolumes -> Entries]
             /\ \A w \in SdVolumes, m \in Names :
                  /\ was.disk[w].entry[m] # NoEntry =>
                       disk'[w].entry[m] # NoEntry /\ written'[w][m] = written[w][m]
                  /\ was.disk[w].entry[m] = written[w][m] => disk'[w].entry[m] = written'[w][m]
  <2>1. was.disk[v].entry[n] = NoEntry
    BY <1>2 DEF Created
  <2>2. /\ disk' \in Disks /\ written' \in [SdVolumes -> Entries]
        /\ \A w \in SdVolumes, m \in Names :
             /\ disk'[w].entry[m] = IF w = v /\ m = n THEN entry ELSE was.disk[w].entry[m]
             /\ written'[w][m] = IF w = v /\ m = n THEN entry ELSE written[w][m]
    BY <1>2, CreatedEntry
  <2> QED  BY <2>1, <2>2
<1> QED  BY <1>1, <1>2 DEF DirectoryStep

\* A call that closes a handle and leaves it empty or with another object keeps FsInv.
LEMMA ClosedStep ==
  ASSUME FsInv, NEW h \in Handles, NEW failed \in BOOLEAN, NEW was, IsClosed(h, failed, was),
         Frame(h, failed), DirectoryStep(was),
         NEW f \in Bit, NEW x \in Bit, NEW o \in Objects,
         m_fFile' = [m_fFile EXCEPT ![h] = f], m_xFile' = [m_xFile EXCEPT ![h] = x],
         m_fileMem' = [m_fileMem EXCEPT ![h] = o],
         NewObject(o, f, x), h \notin spoiled' => PointersRight(o, f, x)
  PROVE  FsInv'
<1>1. was.disk \in Disks /\ written \in [SdVolumes -> Entries]
  BY DEF FsInv, FsTypes, IsClosed
<1>2. /\ disk' \in Disks /\ written' \in [SdVolumes -> Entries]
      /\ \A w \in SdVolumes, m \in Names :
           /\ was.disk[w].entry[m] # NoEntry =>
                disk'[w].entry[m] # NoEntry /\ written'[w][m] = written[w][m]
           /\ was.disk[w].entry[m] = written[w][m] => disk'[w].entry[m] = written'[w][m]
  BY <1>1, EntriesKept
<1>3. ASSUME NEW g \in Handles \ {h} PROVE OtherKept(g)
  <2> DEFINE v == m_fileMem[g].vol
             n == m_fileMem[g].name
  <2>1. g \notin spoiled' => g \notin spoiled
    BY DEF Frame
  <2>2. n \in Names => v \in SdVolumes /\ disk[v].entry[n] # NoEntry
    BY DEF FsInv, FsTypes, HandleRight, ObjectRight, Objects
  <2>3. n \in Names => was.disk[v].entry[n] # NoEntry
    BY <2>2 DEF IsClosed
  <2>4. n \in Names => disk'[v].entry[n] # NoEntry /\ written'[v][n] = written[v][n]
    BY <1>2, <2>2, <2>3
  <2> QED  BY <2>1, <2>4 DEF OtherKept
<1>4. ASSUME handleFaults' = 0, NEW v \in SdVolumes, NEW n \in Names PROVE NewEntry(h, o, v, n)
  <2>1. was.disk[v].entry[n] = written[v][n] \/ \E g \in Handles \ {h} : Dirty(g, v, n)
    BY <1>4 DEF Frame, IsClosed
  <2>2. was.disk[v].entry[n] = written[v][n] => disk'[v].entry[n] = written'[v][n]
    BY <1>2
  <2> QED  BY <2>1, <2>2 DEF NewEntry
<1>5. formats' \in Nat /\ handleFaults' \in Nat /\ spoiled' \subseteq Handles /\ UNCHANGED fsVolumes
      /\ (handleFaults' = 0 => spoiled' = {})
  BY DEF Frame, FsInv, FsTypes
<1> QED  BY <1>2, <1>3, <1>4, <1>5, HandleStep

\* A call that closes a handle and leaves it closed keeps FsInv.
LEMMA LeavesStep ==
  ASSUME FsInv, NEW h \in Handles, NEW failed \in BOOLEAN, NEW was, IsClosed(h, failed, was),
         Frame(h, failed), Leaves(h, was)
  PROVE  FsInv'
<1>1. was.f \in Bit /\ was.x \in Bit /\ was.mem \in Objects
  BY DEF IsClosed
<1>2. NewObject(was.mem, was.f, was.x)
  BY DEF IsClosed, NewObject
<1>3. h \notin spoiled' => PointersRight(was.mem, was.f, was.x)
  BY DEF IsClosed, PointersRight, Frame
<1>4. DirectoryStep(was)
  BY DEF Leaves, DirectoryStep
<1> QED  BY <1>1, <1>2, <1>3, <1>4, ClosedStep DEF Leaves

\* A new object of the class kind, closed or open on a volume of that file system.
Fresh(o, kind) ==
  /\ o \in Objects /\ o.kind = kind /\ kind \in {"FAT", "exFAT"}
  /\ (o.name = "none" <=> o.vol = "none") /\ (o.dirty = 1 => o.name \in Names)
  /\ o.name # "none" => FsOf(o.vol) = kind
  /\ o.name \in Names => disk'[o.vol].entry[o.name] # NoEntry
                         /\ (o.dirty = 1 => o.size = written'[o.vol][o.name])

\* A call that closes a handle and opens it anew keeps FsInv.
LEMMA InstallsStep ==
  ASSUME FsInv, NEW h \in Handles, NEW failed \in BOOLEAN, NEW was, IsClosed(h, failed, was),
         Frame(h, failed), DirectoryStep(was), NEW o, NEW kind, Fresh(o, kind),
         Installs(h, was, kind, o)
  PROVE  FsInv'
<1> DEFINE open == IF o.name # "none" THEN 1 ELSE 0
           f == IF kind = "FAT" THEN open ELSE was.f
           x == IF kind = "exFAT" THEN open ELSE was.x
<1>1. f \in Bit /\ x \in Bit /\ o \in Objects
  BY DEF IsClosed, Bit, Fresh
<1>2. NewObject(o, f, x)
  BY DEF NewObject, Fresh
<1>3. h \notin spoiled' => PointersRight(o, f, x)
  BY DEF IsClosed, PointersRight, Frame, Fresh
<1>4. m_fFile' = [m_fFile EXCEPT ![h] = f] /\ m_xFile' = [m_xFile EXCEPT ![h] = x]
      /\ m_fileMem' = [m_fileMem EXCEPT ![h] = o]
  BY DEF Installs
<1> HIDE DEF f, x
<1> QED  BY <1>1, <1>2, <1>3, <1>4, ClosedStep

\* The object of a handle that was shut is a new one.
LEMMA ShutIsFresh == \A kind \in {"FAT", "exFAT"} : Fresh(Shut(kind), kind)
BY DEF Fresh, Shut, Nobody, Objects, Kinds, Sizes, Bit

\* Opening a name of a directory, created or not, failing or not, keeps FsInv.
LEMMA OpenEntryStep ==
  ASSUME FsInv, NEW h \in Handles, NEW failed \in BOOLEAN, NEW was, IsClosed(h, failed, was),
         Frame(h, failed), NEW v \in SdVolumes, NEW kind \in {"FAT", "exFAT"}, FsOf(v) = kind,
         NEW n \in Names, NEW create \in BOOLEAN, NEW fails \in BOOLEAN,
         OpenEntry(h, was, v, kind, n, create, fails)
  PROVE  FsInv'
<1> DEFINE entry == was.disk[v].entry[n]
<1>1. was.disk \in Disks
  BY DEF IsClosed
<1>2. CASE fails \/ (entry = NoEntry /\ ~create)
  <2>1. Installs(h, was, kind, Shut(kind)) /\ DirectoryStep(was)
    BY <1>2 DEF OpenEntry, DirectoryStep
  <2> QED  BY <2>1, ShutIsFresh, InstallsStep
<1>3. CASE ~fails /\ entry = NoEntry /\ create
  <2> DEFINE o == Object(kind, v, n, 0, 1)
  <2>1. Installs(h, was, kind, o) /\ disk' = [was.disk EXCEPT ![v].entry[n] = 0]
        /\ written' = [written EXCEPT ![v][n] = 0]
    BY <1>3 DEF OpenEntry
  <2>2. 0 \in Sizes
    BY DEF Sizes
  <2>3. DirectoryStep(was)
    BY <1>3, <2>1, <2>2 DEF DirectoryStep, Created
  <2>4. disk'[v].entry[n] = 0 /\ written'[v][n] = 0
    BY <1>1, <2>1 DEF Disks, Entries, FsInv, FsTypes
  <2>5. Fresh(o, kind)
    BY <2>2, <2>4 DEF Fresh, Object, Objects, Kinds, Bit, NoEntry
  <2> HIDE DEF o
  <2> QED  BY <2>1, <2>3, <2>5, InstallsStep
<1>4. CASE ~fails /\ entry # NoEntry
  <2> DEFINE o == Object(kind, v, n, IF entry = Directory THEN 0 ELSE entry, 0)
  <2>1. Installs(h, was, kind, o) /\ disk' = was.disk /\ written' = written
    BY <1>4 DEF OpenEntry
  <2>2. DirectoryStep(was)
    BY <2>1 DEF DirectoryStep
  <2>3. entry \in Sizes \cup {Directory} /\ 0 \in Sizes
    BY <1>1, <1>4 DEF Disks, Entries, Sizes
  <2>4. Fresh(o, kind)
    BY <1>4, <2>1, <2>3 DEF Fresh, Object, Objects, Kinds, Bit
  <2> HIDE DEF o
  <2> QED  BY <2>1, <2>2, <2>4, InstallsStep
<1> QED  BY <1>2, <1>3, <1>4

\* The counting that Fails and Spoils do.
LEMMA Counting ==
  ASSUME FsInv, NEW h \in Handles, NEW failed \in BOOLEAN, NEW more \in BOOLEAN, failed => more,
         NEW spoil \in BOOLEAN, failed => spoil, handleFaults = 0 /\ ~failed => ~spoil,
         Fails(more), Spoils(h, spoil), UNCHANGED <<fsVolumes, formats>>
  PROVE  Frame(h, failed)
<1>1. handleFaults \in Nat /\ (handleFaults' = 0 => handleFaults = 0 /\ ~more) /\ handleFaults' \in Nat
  BY DEF FsInv, FsTypes, Fails
<1>2. handleFaults = 0 => spoiled = {}
  BY DEF FsInv
<1>3. spoiled \subseteq Handles
  BY DEF FsInv, FsTypes
<1> QED  BY <1>1, <1>2, <1>3 DEF Spoils, Frame

\* A call fails or not.
LEMMA MayFailBoolean == \A h : \A failed \in MayFail(h) : failed \in BOOLEAN
BY DEF MayFail

\* The root directory a call is given: the class it is passed to is that of its volume.
LEMMA RootRight ==
  ASSUME FsInv, NEW dir \in Handles, IsRoot(dir)
  PROVE  /\ m_fileMem[dir].vol \in SdVolumes /\ Reached(dir) \in {"FAT", "exFAT"}
         /\ FsOf(m_fileMem[dir].vol) = Reached(dir)
<1>1. HandleRight(dir) /\ m_fileMem[dir] \in Objects
  BY DEF FsInv, FsTypes
<1>2. m_fileMem[dir].name = "root" /\ ~Mistaken(dir) /\ isOpen(dir)
  BY DEF IsRoot, Opened
<1>3. m_fileMem[dir].kind = Reached(dir) /\ Reached(dir) \in {"FAT", "exFAT"}
  BY <1>2 DEF Mistaken, isOpen, Reached
<1> QED  BY <1>1, <1>2, <1>3 DEF HandleRight, ObjectRight, Objects

\* Close keeps FsInv.
LEMMA CloseStep == ASSUME FsInv, NEW h \in Handles, Close(h) PROVE FsInv'
<1>1. PICK failed \in MayFail(h) :
        Leaves(h, AfterClose(h, failed)) /\ Fails(failed) /\ Spoils(h, failed)
  BY DEF Close
<1>2. failed \in BOOLEAN /\ ~Mistaken(h) /\ UNCHANGED <<fsVolumes, formats>>
  BY MayFailBoolean DEF Close
<1>3. Frame(h, failed)
  BY <1>1, <1>2, Counting
<1>4. IsClosed(h, failed, AfterClose(h, failed))
  BY <1>2, Closing
<1> QED  BY <1>1, <1>2, <1>3, <1>4, LeavesStep

\* Open keeps FsInv.
LEMMA OpenStep == ASSUME FsInv, NEW h \in Handles, Open(h) PROVE FsInv'
<1>1. PICK v \in SdVolumes, n \in Names, create \in BOOLEAN, failed \in MayFail(h),
           fails \in {FALSE, CanFail} :
        /\ ~Mistaken(h)
        /\ IF FsOf(v) = "none" THEN Leaves(h, AfterClose(h, failed))
           ELSE OpenEntry(h, AfterClose(h, failed), v, FsOf(v), n, create, fails)
        /\ Fails(failed \/ fails) /\ Spoils(h, failed) /\ UNCHANGED <<fsVolumes, formats>>
  BY DEF Open, Before
<1> DEFINE was == AfterClose(h, failed)
<1>2. failed \in BOOLEAN /\ fails \in BOOLEAN
  <2>1. CanFail \in BOOLEAN
    BY DEF CanFail
  <2> QED  BY <2>1, MayFailBoolean
<1>3. Frame(h, failed)
  BY <1>1, <1>2, Counting
<1>4. IsClosed(h, failed, was)
  BY <1>1, <1>2, Closing
<1>5. FsOf(v) # "none" => FsOf(v) \in {"FAT", "exFAT"}
  BY DEF FsOf
<1> HIDE DEF was
<1>6. CASE FsOf(v) = "none"
  <2>1. Leaves(h, was)
    BY <1>1, <1>6 DEF was
  <2> QED  BY <1>2, <1>3, <1>4, <2>1, LeavesStep
<1>7. CASE FsOf(v) # "none"
  <2>1. OpenEntry(h, was, v, FsOf(v), n, create, fails)
    BY <1>1, <1>7 DEF was
  <2> QED  BY <1>2, <1>3, <1>4, <1>5, <1>7, <2>1, OpenEntryStep
<1> QED  BY <1>6, <1>7

\* OpenRoot keeps FsInv.
LEMMA OpenRootStep == ASSUME FsInv, NEW h \in Handles, openRoot(h) PROVE FsInv'
<1>1. PICK v \in SdVolumes, failed \in MayFail(h) :
        /\ ~Mistaken(h)
        /\ IF FsOf(v) = "none" THEN Leaves(h, AfterClose(h, failed))
           ELSE /\ Installs(h, AfterClose(h, failed), FsOf(v), Object(FsOf(v), v, "root", 0, 0))
                /\ disk' = AfterClose(h, failed).disk /\ UNCHANGED written
        /\ Fails(failed) /\ Spoils(h, failed) /\ UNCHANGED <<fsVolumes, formats>>
  BY DEF openRoot, Before
<1> DEFINE was == AfterClose(h, failed)
<1>2. failed \in BOOLEAN
  BY MayFailBoolean
<1>3. Frame(h, failed)
  BY <1>1, <1>2, Counting
<1>4. IsClosed(h, failed, was)
  BY <1>1, <1>2, Closing
<1>5. FsOf(v) # "none" => FsOf(v) \in {"FAT", "exFAT"}
  BY DEF FsOf
<1> HIDE DEF was
<1>6. CASE FsOf(v) = "none"
  <2>1. Leaves(h, was)
    BY <1>1, <1>6 DEF was
  <2> QED  BY <1>2, <1>3, <1>4, <2>1, LeavesStep
<1>7. CASE FsOf(v) # "none"
  <2>1. Installs(h, was, FsOf(v), Object(FsOf(v), v, "root", 0, 0)) /\ DirectoryStep(was)
    BY <1>1, <1>7 DEF was, DirectoryStep
  <2>2. Fresh(Object(FsOf(v), v, "root", 0, 0), FsOf(v))
    BY <1>5, <1>7 DEF Fresh, Object, Objects, Kinds, Bit, Sizes
  <2> QED  BY <1>2, <1>3, <1>4, <2>1, <2>2, InstallsStep
<1> QED  BY <1>6, <1>7

\* open in a directory keeps FsInv.
LEMMA OpenInStep ==
  ASSUME FsInv, NEW h \in Handles, NEW dir \in Handles, OpenIn(h, dir) PROVE FsInv'
<1>1. PICK n \in Names, create \in BOOLEAN, failed \in MayFail(h) :
        /\ ~Mistaken(h) /\ IsRoot(dir)
        /\ \/ Leaves(h, AfterClose(h, failed))
           \/ OpenEntry(h, AfterClose(h, failed), m_fileMem[dir].vol, Reached(dir), n, create, FALSE)
        /\ Fails(failed) /\ Spoils(h, failed) /\ UNCHANGED <<fsVolumes, formats>>
  BY DEF OpenIn, Before
<1> DEFINE was == AfterClose(h, failed)
<1>2. failed \in BOOLEAN
  BY MayFailBoolean
<1>3. Frame(h, failed)
  BY <1>1, <1>2, Counting
<1>4. IsClosed(h, failed, was)
  BY <1>1, <1>2, Closing
<1> HIDE DEF was
<1>5. CASE Leaves(h, was)
  BY <1>2, <1>3, <1>4, <1>5, LeavesStep
<1>6. CASE OpenEntry(h, was, m_fileMem[dir].vol, Reached(dir), n, create, FALSE)
  <2> DEFINE v == m_fileMem[dir].vol
             kind == Reached(dir)
  <2>1. v \in SdVolumes /\ kind \in {"FAT", "exFAT"} /\ FsOf(v) = kind
    BY <1>1, RootRight
  <2>2. \E fails \in BOOLEAN : OpenEntry(h, was, v, kind, n, create, fails)
    BY <1>6
  <2> HIDE DEF v, kind
  <2> QED  BY <1>2, <1>3, <1>4, <2>1, <2>2, OpenEntryStep
<1> QED  BY <1>1, <1>5, <1>6 DEF was

\* Mkdir keeps FsInv.
LEMMA MkdirStep ==
  ASSUME FsInv, NEW h \in Handles, NEW dir \in Handles, mkdir(h, dir) PROVE FsInv'
<1> DEFINE v == m_fileMem[dir].vol
           kind == Reached(dir)
<1>1. PICK n \in Names, failed \in MayFail(h) :
        /\ ~Mistaken(h) /\ IsRoot(dir)
        /\ IF AfterClose(h, failed).disk[v].entry[n] # NoEntry
           THEN /\ Installs(h, AfterClose(h, failed), kind, Shut(kind))
                /\ disk' = AfterClose(h, failed).disk /\ UNCHANGED written
           ELSE /\ Installs(h, AfterClose(h, failed), kind, Object(kind, v, n, 0, 0))
                /\ disk' = [AfterClose(h, failed).disk EXCEPT ![v].entry[n] = Directory]
                /\ written' = [written EXCEPT ![v][n] = Directory]
        /\ Fails(failed) /\ Spoils(h, failed) /\ UNCHANGED <<fsVolumes, formats>>
  BY DEF mkdir, Before
<1> DEFINE was == AfterClose(h, failed)
<1>2. failed \in BOOLEAN
  BY MayFailBoolean
<1>3. Frame(h, failed)
  BY <1>1, <1>2, Counting
<1>4. IsClosed(h, failed, was)
  BY <1>1, <1>2, Closing
<1>5. v \in SdVolumes /\ kind \in {"FAT", "exFAT"} /\ FsOf(v) = kind
  BY <1>1, RootRight
<1> HIDE DEF was, v, kind
<1>6. CASE was.disk[v].entry[n] # NoEntry
  <2>1. Installs(h, was, kind, Shut(kind)) /\ DirectoryStep(was)
    BY <1>1, <1>6 DEF was, DirectoryStep
  <2> QED  BY <1>2, <1>3, <1>4, <1>5, <2>1, ShutIsFresh, InstallsStep
<1>7. CASE was.disk[v].entry[n] = NoEntry
  <2> DEFINE o == Object(kind, v, n, 0, 0)
  <2>1. Installs(h, was, kind, o) /\ Created(was, v, n, Directory)
    BY <1>1, <1>7 DEF was, Created
  <2>2. DirectoryStep(was)
    BY <1>5, <2>1 DEF DirectoryStep
  <2>3. was.disk \in Disks
    BY <1>4 DEF IsClosed
  <2>4. disk'[v].entry[n] # NoEntry
    BY <1>5, <2>1, <2>3 DEF Created, Disks, Entries, Directory, NoEntry
  <2>5. Fresh(o, kind)
    BY <1>5, <2>4 DEF Fresh, Object, Objects, Kinds, Bit, Sizes
  <2> HIDE DEF o
  <2> QED  BY <1>2, <1>3, <1>4, <1>5, <2>1, <2>2, <2>5, InstallsStep
<1> QED  BY <1>6, <1>7

\* Assign keeps FsInv.
LEMMA AssignStep ==
  ASSUME FsInv, NEW h \in Handles, NEW from \in Handles, Assign(h, from) PROVE FsInv'
<1>1. PICK failed \in MayFail(h) :
        /\ ~Mistaken(h) /\ ~Mistaken(from) /\ h # from
        /\ IF ~isOpen(from) THEN Leaves(h, AfterClose(h, failed))
           ELSE /\ m_fFile' = [m_fFile EXCEPT ![h] =
                               IF Reached(from) = "FAT" THEN 1 ELSE AfterClose(h, failed).f]
                /\ m_xFile' = [m_xFile EXCEPT ![h] =
                               IF Reached(from) = "exFAT" THEN 1 ELSE AfterClose(h, failed).x]
                /\ m_fileMem' = [m_fileMem EXCEPT ![h] = m_fileMem[from]]
                /\ disk' = AfterClose(h, failed).disk /\ UNCHANGED written
        /\ Fails(failed) /\ Spoils(h, failed \/ from \in spoiled) /\ UNCHANGED <<fsVolumes, formats>>
  BY DEF Assign, Before
<1> DEFINE was == AfterClose(h, failed)
<1>2. failed \in BOOLEAN
  BY MayFailBoolean
<1>3. Frame(h, failed)
  BY <1>1, <1>2, Counting DEF FsInv
<1>4. IsClosed(h, failed, was)
  BY <1>1, <1>2, Closing
<1> HIDE DEF was
<1>5. CASE ~isOpen(from)
  <2>1. Leaves(h, was)
    BY <1>1, <1>5 DEF was
  <2> QED  BY <1>2, <1>3, <1>4, <2>1, LeavesStep
<1>6. CASE isOpen(from)
  <2> DEFINE o == m_fileMem[from]
             f == IF Reached(from) = "FAT" THEN 1 ELSE was.f
             x == IF Reached(from) = "exFAT" THEN 1 ELSE was.x
  <2>1. HandleRight(from) /\ o \in Objects
    BY DEF FsInv, FsTypes
  <2>2. o.kind = Reached(from) /\ o.kind \in {"FAT", "exFAT"}
    BY <1>1, <1>6 DEF Mistaken, isOpen, Reached
  <2>3. f \in Bit /\ x \in Bit
    BY <1>4 DEF IsClosed, Bit
  <2>4. disk' = was.disk /\ written' = written
    BY <1>1, <1>6 DEF was
  <2>5. o.name \in Names => disk'[o.vol].entry[o.name] # NoEntry
    BY <1>4, <2>1, <2>4 DEF IsClosed, HandleRight, ObjectRight, Objects
  <2>6. NewObject(o, f, x)
    BY <2>1, <2>2, <2>4, <2>5 DEF NewObject, HandleRight, ObjectRight
  <2>7. h \notin spoiled' => PointersRight(o, f, x)
    <3>1. h \notin spoiled' => ~failed /\ from \notin spoiled
      BY <1>1 DEF Spoils
    <3>2. h \notin spoiled' => was.f = 0 /\ was.x = 0
      BY <1>4, <3>1 DEF IsClosed
    <3>3. h \notin spoiled' => o.name # "none"
      BY <1>6, <2>1, <3>1 DEF HandleRight, PointersRight, isOpen, Reached
    <3> QED  BY <2>2, <3>2, <3>3 DEF PointersRight
  <2>8. m_fFile' = [m_fFile EXCEPT ![h] = f] /\ m_xFile' = [m_xFile EXCEPT ![h] = x]
        /\ m_fileMem' = [m_fileMem EXCEPT ![h] = o]
    BY <1>1, <1>6 DEF was
  <2>9. DirectoryStep(was)
    BY <2>4 DEF DirectoryStep
  <2> HIDE DEF o, f, x
  <2> QED  BY <1>2, <1>3, <1>4, <2>1, <2>3, <2>6, <2>7, <2>8, <2>9, ClosedStep
<1> QED  BY <1>5, <1>6

-----------------------------------------------------------------------------
(* Removing and renaming.                                                  *)

\* A file with an entry: its object is right, on a volume that is there.
LEMMA EntryOf ==
  ASSUME FsInv, NEW h \in Handles, IsEntry(h)
  PROVE  /\ m_fileMem[h] \in Objects /\ m_fileMem[h].vol \in SdVolumes /\ m_fileMem[h].name \in Names
         /\ m_fFile[h] \in Bit /\ m_xFile[h] \in Bit
         /\ FsOf(m_fileMem[h].vol) = m_fileMem[h].kind
         /\ disk[m_fileMem[h].vol].entry[m_fileMem[h].name] # NoEntry
         /\ (m_fileMem[h].kind = "FAT" /\ m_fFile[h] = 1) \/ (m_fileMem[h].kind = "exFAT" /\ m_xFile[h] = 1)
         /\ (m_fileMem[h].dirty = 1 => m_fileMem[h].size = written[m_fileMem[h].vol][m_fileMem[h].name])
         /\ (h \notin spoiled => PointersRight(m_fileMem[h], m_fFile[h], m_xFile[h]))
<1>1. HandleRight(h) /\ m_fileMem[h] \in Objects /\ m_fFile[h] \in Bit /\ m_xFile[h] \in Bit
  BY DEF FsInv, FsTypes
<1>2. m_fileMem[h].name \in Names /\ m_fileMem[h].name # "none"
  BY <1>1 DEF IsEntry, Opened, Objects
<1> QED  BY <1>1, <1>2 DEF HandleRight, ObjectRight, Objects

\* The entry n of v gets the value e in both directories; the rest stays.
Rewritten(v, n, e) ==
  \A w \in SdVolumes, m \in Names :
    IF w = v /\ m = n THEN disk'[w].entry[m] = e /\ written'[w][m] = e
    ELSE disk'[w].entry[m] = disk[w].entry[m] /\ written'[w][m] = written[w][m]

\* A handle whose object a removal closed, with the pointers f and x it is left with: the entry
\* is gone, or its removal failed and it may be left.
LEMMA ClosedByRemove ==
  ASSUME FsInv, NEW h \in Handles, IsEntry(h), Sole(h), UNCHANGED <<fsVolumes, formats>>,
         NEW fails \in BOOLEAN, Fails(fails), Spoils(h, fails),
         NEW f \in Bit, NEW x \in Bit, fails \/ (f = 0 /\ x = 0),
         m_fFile' = [m_fFile EXCEPT ![h] = f], m_xFile' = [m_xFile EXCEPT ![h] = x],
         m_fileMem' = [m_fileMem EXCEPT ![h] = Shut(m_fileMem[h].kind)],
         NEW left \in {disk[m_fileMem[h].vol].entry[m_fileMem[h].name], NoEntry}, fails \/ left = NoEntry,
         disk' = [disk EXCEPT ![m_fileMem[h].vol].entry[m_fileMem[h].name] = left],
         written' = [written EXCEPT ![m_fileMem[h].vol][m_fileMem[h].name] = NoEntry]
  PROVE  FsInv'
<1> DEFINE o == m_fileMem[h]
           v == o.vol
           n == o.name
           new == Shut(o.kind)
<1>1. handleFaults' \in Nat /\ (handleFaults' = 0 => handleFaults = 0 /\ ~fails)
  BY DEF Fails, FsInv, FsTypes
<1>2. o \in Objects /\ v \in SdVolumes /\ n \in Names
  BY EntryOf
<1>3. left \in Sizes \cup {NoEntry, Directory}
  BY <1>2 DEF FsInv, FsTypes, Entries
<1>4. disk' \in Disks /\ written' \in [SdVolumes -> Entries]
  BY <1>2, <1>3 DEF FsInv, FsTypes, Disks, Entries
<1>5. \A w \in SdVolumes, m \in Names :
        IF w = v /\ m = n THEN disk'[w].entry[m] = left /\ written'[w][m] = NoEntry
        ELSE disk'[w].entry[m] = disk[w].entry[m] /\ written'[w][m] = written[w][m]
  BY <1>2 DEF FsInv, FsTypes, Disks, Entries
<1>6. ASSUME NEW g \in Handles \ {h} PROVE OtherKept(g)
  <2>1. HandleRight(g) /\ m_fileMem[g] \in Objects
    BY DEF FsInv, FsTypes
  <2>2. m_fileMem[g].name # n \/ m_fileMem[g].vol # v
    BY DEF Sole
  <2>3. g \notin spoiled' => g \notin spoiled
    BY DEF Spoils
  <2> QED  BY <1>5, <2>1, <2>2, <2>3 DEF OtherKept, HandleRight, ObjectRight, Objects
<1>7. new \in Objects /\ new.name = "none" /\ new.vol = "none" /\ new.dirty = 0
  BY <1>2 DEF Shut, Nobody, Objects, Bit, Sizes
<1>8. NewObject(new, f, x)
  BY <1>7 DEF NewObject
<1>9. h \notin spoiled' => PointersRight(new, f, x)
  BY <1>7 DEF PointersRight, Spoils
<1>10. ASSUME handleFaults' = 0, NEW w \in SdVolumes, NEW m \in Names PROVE NewEntry(h, new, w, m)
  <2>1. left = NoEntry /\ EntryRight(w, m)
    BY <1>1, <1>10 DEF FsInv
  <2> QED  BY <1>5, <2>1 DEF NewEntry, EntryRight, Dirty
<1>11. handleFaults' = 0 => spoiled' = {}
  BY <1>1 DEF FsInv, Spoils
<1>12. formats' \in Nat /\ spoiled' \subseteq Handles
  BY DEF FsInv, FsTypes, Spoils
<1> HIDE DEF new
<1> QED  BY <1>1, <1>4, <1>6, <1>7, <1>8, <1>9, <1>10, <1>11, <1>12, HandleStep DEF new

\* Remove keeps FsInv.
LEMMA RemoveStep == ASSUME FsInv, NEW h \in Handles, Remove(h) PROVE FsInv'
<1> DEFINE v == m_fileMem[h].vol
           n == m_fileMem[h].name
           x == IF m_fFile[h] = 1 THEN m_xFile[h] ELSE 0
<1>1. IsEntry(h) /\ Sole(h) /\ UNCHANGED <<fsVolumes, formats>>
  BY DEF Remove
<1>2. m_fFile[h] \in Bit /\ m_xFile[h] \in Bit /\ ~Mistaken(h)
  BY <1>1, EntryOf DEF IsEntry, Opened
<1>3. x = 0
  BY <1>2 DEF Mistaken, Bit
<1>4. 0 \in Bit
  BY DEF Bit
<1>5. CASE /\ m_fFile' = [m_fFile EXCEPT ![h] = 0] /\ m_xFile' = [m_xFile EXCEPT ![h] = x]
           /\ m_fileMem' = [m_fileMem EXCEPT ![h] = Shut(m_fileMem[h].kind)]
           /\ disk' = [disk EXCEPT ![v].entry[n] = NoEntry]
           /\ written' = [written EXCEPT ![v][n] = NoEntry]
           /\ Fails(FALSE) /\ Spoils(h, FALSE)
  <2> HIDE DEF x
  <2> QED  BY <1>1, <1>3, <1>4, <1>5, ClosedByRemove
<1>6. CASE Fails(TRUE) /\ UNCHANGED <<fsFiles, disk, written, spoiled>>
  <2>1. handleFaults' \in Nat /\ handleFaults' # 0
    BY <1>6 DEF Fails, FsInv, FsTypes
  <2> QED  BY <1>1, <1>6, <2>1 DEF FsInv, FsTypes, HandleRight, ObjectRight, PointersRight, EntryRight,
              FsOf, fsVolumes, fsFiles
<1>7. CASE /\ Fails(TRUE) /\ Spoils(h, TRUE) /\ UNCHANGED <<m_fFile, m_xFile>>
           /\ m_fileMem' = [m_fileMem EXCEPT ![h] = Shut(m_fileMem[h].kind)]
           /\ \E left \in {disk[v].entry[n], NoEntry} : disk' = [disk EXCEPT ![v].entry[n] = left]
           /\ written' = [written EXCEPT ![v][n] = NoEntry]
  <2>1. PICK left \in {disk[v].entry[n], NoEntry} : disk' = [disk EXCEPT ![v].entry[n] = left]
    BY <1>7
  <2>2. m_fFile' = [m_fFile EXCEPT ![h] = m_fFile[h]] /\ m_xFile' = [m_xFile EXCEPT ![h] = m_xFile[h]]
    BY <1>7 DEF FsInv, FsTypes
  <2> QED  BY <1>1, <1>2, <1>7, <2>1, <2>2, ClosedByRemove
<1> QED  BY <1>5, <1>6, <1>7 DEF Remove, FsInv, FsTypes

\* RemoveName keeps FsInv.
LEMMA RemoveNameStep == ASSUME FsInv, RemoveName PROVE FsInv'
<1>1. PICK v \in SdVolumes, n \in Names :
        /\ Unopened(v, n) /\ disk' = [disk EXCEPT ![v].entry[n] = NoEntry]
        /\ written' = [written EXCEPT ![v][n] = NoEntry]
        /\ UNCHANGED <<fsVolumes, fsFiles, handleFaults, formats, spoiled>>
  BY DEF RemoveName
<1>2. disk' \in Disks /\ written' \in [SdVolumes -> Entries] /\ Rewritten(v, n, NoEntry)
  <2>1. disk' \in Disks /\ written' \in [SdVolumes -> Entries]
    BY <1>1 DEF FsInv, FsTypes, Disks, Entries
  <2>2. Rewritten(v, n, NoEntry)
    BY <1>1 DEF FsInv, FsTypes, Entries, Rewritten
  <2> QED  BY <2>1, <2>2
<1>3. FsTypes'
  BY <1>1, <1>2 DEF FsInv, FsTypes, Disks, fsVolumes, fsFiles
<1>4. ASSUME NEW g \in Handles PROVE HandleRight(g)'
  <2>1. HandleRight(g) /\ m_fileMem[g] \in Objects
    BY DEF FsInv, FsTypes
  <2>2. m_fileMem[g].name # n \/ m_fileMem[g].vol # v
    BY <1>1 DEF Unopened
  <2> QED  BY <1>1, <1>2, <2>1, <2>2 DEF HandleRight, ObjectRight, PointersRight, Objects, Rewritten,
                FsOf, fsVolumes, fsFiles
<1>5. ASSUME handleFaults' = 0, NEW w \in SdVolumes, NEW m \in Names PROVE EntryRight(w, m)'
  BY <1>1, <1>2, <1>5 DEF FsInv, EntryRight, Rewritten, fsFiles
<1>6. handleFaults' = 0 => spoiled' = {}
  BY <1>1 DEF FsInv
<1> QED  BY <1>3, <1>4, <1>5, <1>6 DEF FsInv

-----------------------------------------------------------------------------
(* Data: a step of an open file that keeps its pointers.                   *)

FileFrame ==
  /\ UNCHANGED <<fsVolumes, m_fFile, m_xFile, formats, spoiled>>
  /\ handleFaults' \in Nat /\ (handleFaults' = 0 => handleFaults = 0)

\* A change of the file of one handle keeps FsInv.
LEMMA FileStep ==
  ASSUME FsInv, NEW h \in Handles, IsEntry(h), FileFrame, NEW o \in Objects,
         m_fileMem' = [m_fileMem EXCEPT ![h] = o],
         o.kind = m_fileMem[h].kind, o.vol = m_fileMem[h].vol, o.name \in Names,
         disk' \in Disks, written' \in [SdVolumes -> Entries],
         disk'[o.vol].entry[o.name] # NoEntry,
         o.dirty = 1 => o.size = written'[o.vol][o.name],
         \A g \in Handles \ {h} : OtherKept(g),
         handleFaults' = 0 => \A v \in SdVolumes, n \in Names : NewEntry(h, o, v, n)
  PROVE  FsInv'
<1> DEFINE f == m_fFile[h]
           x == m_xFile[h]
<1>1. f \in Bit /\ x \in Bit /\ m_fFile \in [Handles -> Bit] /\ m_xFile \in [Handles -> Bit]
  BY DEF FsInv, FsTypes
<1>2. m_fFile' = [m_fFile EXCEPT ![h] = f] /\ m_xFile' = [m_xFile EXCEPT ![h] = x]
  BY <1>1 DEF FileFrame
<1>3. /\ o.name # "none" /\ o.vol \in SdVolumes /\ o.vol # "none" /\ m_fileMem[h].name # "none"
      /\ FsOf(o.vol) = o.kind /\ ((o.kind = "FAT" /\ f = 1) \/ (o.kind = "exFAT" /\ x = 1))
      /\ (h \notin spoiled => PointersRight(m_fileMem[h], f, x))
  BY EntryOf
<1>4. NewObject(o, f, x)
  BY <1>3 DEF NewObject
<1>5. h \notin spoiled' => PointersRight(o, f, x)
  BY <1>3 DEF PointersRight, FileFrame
<1>6. formats' \in Nat /\ handleFaults' \in Nat /\ spoiled' \subseteq Handles /\ UNCHANGED fsVolumes
      /\ (handleFaults' = 0 => spoiled' = {})
  BY DEF FileFrame, FsInv, FsTypes
<1> HIDE DEF f, x
<1> QED  BY <1>1, <1>2, <1>4, <1>5, <1>6, HandleStep

\* A step that rewrites the entry of the file alone, which no other object is open on.
LEMMA SoleStep ==
  ASSUME FsInv, NEW h \in Handles, IsEntry(h), Sole(h), FileFrame, NEW o \in Objects,
         m_fileMem' = [m_fileMem EXCEPT ![h] = o],
         o.kind = m_fileMem[h].kind, o.vol = m_fileMem[h].vol, o.name = m_fileMem[h].name,
         disk' \in Disks, NEW e \in Sizes, written' = [written EXCEPT ![o.vol][o.name] = e],
         disk'[o.vol].entry[o.name] # NoEntry,
         o.dirty = 1 => o.size = e, o.dirty = 0 => disk'[o.vol].entry[o.name] = e,
         \A w \in SdVolumes, m \in Names :
           w # o.vol \/ m # o.name => disk'[w].entry[m] = disk[w].entry[m]
  PROVE  FsInv'
<1>1. o.vol \in SdVolumes /\ o.name \in Names /\ o.dirty \in {0, 1}
  BY EntryOf DEF Objects, Bit
<1>2. written' \in [SdVolumes -> Entries]
  BY <1>1 DEF FsInv, FsTypes, Entries
<1>3. \A w \in SdVolumes, m \in Names :
        written'[w][m] = IF w = o.vol /\ m = o.name THEN e ELSE written[w][m]
  BY <1>1 DEF FsInv, FsTypes, Entries
<1>4. ASSUME NEW g \in Handles \ {h} PROVE OtherKept(g)
  <2>1. HandleRight(g) /\ m_fileMem[g] \in Objects /\ (g \notin spoiled' => g \notin spoiled)
    BY DEF FsInv, FsTypes, FileFrame
  <2>2. m_fileMem[g].name # o.name \/ m_fileMem[g].vol # o.vol
    BY DEF Sole
  <2>3. m_fileMem[g].name \in Names =>
          m_fileMem[g].vol \in SdVolumes /\ disk[m_fileMem[g].vol].entry[m_fileMem[g].name] # NoEntry
    BY <2>1 DEF HandleRight, ObjectRight, Objects
  <2> QED  BY <1>3, <2>1, <2>2, <2>3 DEF OtherKept
<1>5. ASSUME handleFaults' = 0, NEW w \in SdVolumes, NEW m \in Names PROVE NewEntry(h, o, w, m)
  <2>1. CASE w = o.vol /\ m = o.name
    BY <1>1, <1>3, <2>1 DEF NewEntry
  <2>2. CASE w # o.vol \/ m # o.name
    <3>1. EntryRight(w, m)
      BY <1>5 DEF FsInv, FileFrame
    <3>2. disk'[w].entry[m] = disk[w].entry[m] /\ written'[w][m] = written[w][m]
      BY <1>3, <2>2
    <3> QED  BY <2>2, <3>1, <3>2 DEF EntryRight, NewEntry, Dirty
  <2> QED  BY <2>1, <2>2
<1>6. o.dirty = 1 => o.size = written'[o.vol][o.name]
  BY <1>1, <1>3
<1> QED  BY <1>1, <1>2, <1>4, <1>5, <1>6, FileStep

\* A file is an entry.
LEMMA IsFileEntry == \A h : isFile(h) => IsEntry(h)
BY DEF isFile

\* The number of failures of handles is a number.
LEMMA SameFaults == ASSUME FsInv PROVE handleFaults \in Nat
BY DEF FsInv, FsTypes

\* Rename keeps FsInv.
LEMMA RenameStep ==
  ASSUME FsInv, NEW h \in Handles, NEW dir \in Handles, rename(h, dir) PROVE FsInv'
<1> DEFINE was == m_fileMem[h]
           v == was.vol
<1>1. PICK n \in Names :
        /\ disk[v].entry[n] = NoEntry
        /\ m_fileMem' = [m_fileMem EXCEPT ![h].name = n, ![h].dirty = 0]
        /\ disk' = [disk EXCEPT ![v].entry[n] = was.size, ![v].entry[was.name] = NoEntry]
        /\ written' = [written EXCEPT ![v][n] = was.size, ![v][was.name] = NoEntry]
  BY DEF rename
<1>2. IsEntry(h) /\ Sole(h) /\ FileFrame
  BY IsFileEntry, SameFaults DEF rename, FileFrame
<1> DEFINE o == [was EXCEPT !.name = n, !.dirty = 0]
<1>3. was \in Objects /\ v \in SdVolumes /\ was.name \in Names /\ disk[v].entry[was.name] # NoEntry
  BY <1>2, EntryOf
<1>4. /\ o \in Objects /\ o.kind = was.kind /\ o.vol = v /\ o.name = n /\ o.dirty = 0
      /\ was.size \in Sizes /\ was.size # NoEntry /\ was.name # n
  <2>1. o \in Objects /\ o.kind = was.kind /\ o.vol = v /\ o.name = n /\ o.dirty = 0
    BY <1>3 DEF Objects, Bit
  <2>2. was.size \in Sizes /\ was.size # NoEntry
    BY <1>3 DEF Objects, Sizes, NoEntry
  <2>3. was.name # n
    BY <1>1, <1>3
  <2> QED  BY <2>1, <2>2, <2>3
<1>5. m_fileMem' = [m_fileMem EXCEPT ![h] = o]
  BY <1>1, <1>3 DEF FsInv, FsTypes, Objects
<1>6. disk' \in Disks /\ written' \in [SdVolumes -> Entries]
  <2>1. disk' \in Disks
    BY <1>1, <1>3, <1>4 DEF FsInv, FsTypes, Disks, Entries
  <2>2. written' \in [SdVolumes -> Entries]
    BY <1>1, <1>3, <1>4 DEF FsInv, FsTypes, Entries
  <2> QED  BY <2>1, <2>2
<1>7. \A w \in SdVolumes, m \in Names :
        /\ w # v \/ m \notin {n, was.name} =>
             disk'[w].entry[m] = disk[w].entry[m] /\ written'[w][m] = written[w][m]
        /\ w = v /\ m \in {n, was.name} => disk'[w].entry[m] = written'[w][m]
  BY <1>1, <1>3, <1>4 DEF FsInv, FsTypes, Disks, Entries
<1>8. disk'[v].entry[n] # NoEntry
  BY <1>1, <1>3, <1>4 DEF FsInv, FsTypes, Disks, Entries
<1>9. ASSUME NEW g \in Handles \ {h} PROVE OtherKept(g)
  <2>1. HandleRight(g) /\ m_fileMem[g] \in Objects /\ (g \notin spoiled' => g \notin spoiled)
    BY <1>2 DEF FsInv, FsTypes, FileFrame
  <2>2. m_fileMem[g].name # was.name \/ m_fileMem[g].vol # v
    BY <1>2 DEF Sole
  <2>3. m_fileMem[g].name \in Names =>
          m_fileMem[g].vol \in SdVolumes /\ disk[m_fileMem[g].vol].entry[m_fileMem[g].name] # NoEntry
    BY <2>1 DEF HandleRight, ObjectRight, Objects
  <2> QED  BY <1>1, <1>7, <2>1, <2>2, <2>3 DEF OtherKept
<1>10. ASSUME handleFaults' = 0, NEW w \in SdVolumes, NEW m \in Names PROVE NewEntry(h, o, w, m)
  <2>1. EntryRight(w, m)
    BY <1>2, <1>10 DEF FsInv, FileFrame
  <2> QED  BY <1>7, <2>1 DEF EntryRight, NewEntry, Dirty
<1>11. /\ o.kind = m_fileMem[h].kind /\ o.vol = m_fileMem[h].vol /\ o.name \in Names
       /\ disk'[o.vol].entry[o.name] # NoEntry
       /\ (o.dirty = 1 => o.size = written'[o.vol][o.name])
  BY <1>4, <1>8
<1> HIDE DEF o, was, v
<1> QED  BY <1>2, <1>4, <1>5, <1>6, <1>9, <1>10, <1>11, FileStep

\* Saving the object of a file: its entry alone gets its size.
LEMMA SavedEntry ==
  ASSUME FsInv, NEW o \in Objects, o.vol \in SdVolumes, o.name \in Names, o.dirty = 1
  PROVE  /\ Saved(disk, o) \in Disks
         /\ \A w \in SdVolumes, m \in Names :
              Saved(disk, o)[w].entry[m] = IF w = o.vol /\ m = o.name THEN o.size ELSE disk[w].entry[m]
<1>1. o.size \in Sizes /\ disk \in Disks
  BY DEF Objects, FsInv, FsTypes, Disks
<1> QED  BY <1>1 DEF Saved, Disks, Entries

\* Sync keeps FsInv.
LEMMA SyncStep == ASSUME FsInv, NEW h \in Handles, Sync(h) PROVE FsInv'
<1> DEFINE was == m_fileMem[h]
           o == [was EXCEPT !.dirty = 0]
<1>1. PICK failed \in MayFail(h) :
        /\ IF failed THEN UNCHANGED <<m_fileMem, disk>>
           ELSE m_fileMem' = [m_fileMem EXCEPT ![h].dirty = 0] /\ disk' = Saved(disk, was)
        /\ Fails(failed)
  BY DEF Sync
<1>2. IsEntry(h) /\ was.dirty = 1 /\ UNCHANGED <<fsVolumes, m_fFile, m_xFile, written, formats, spoiled>>
  BY DEF Sync
<1>3. handleFaults' \in Nat /\ (handleFaults' = 0 => handleFaults = 0)
  BY <1>1 DEF Fails, FsInv, FsTypes
<1>4. CASE failed
  <2>1. UNCHANGED <<fsVolumes, fsFiles, disk, written, formats, spoiled>>
    BY <1>1, <1>2, <1>4 DEF fsFiles
  <2> QED  BY <1>3, <2>1 DEF FsInv, FsTypes, HandleRight, ObjectRight, PointersRight, EntryRight,
              FsOf, fsVolumes, fsFiles
<1>5. CASE ~failed
  <2>1. /\ was \in Objects /\ was.vol \in SdVolumes /\ was.name \in Names
        /\ was.size = written[was.vol][was.name]
    BY <1>2, EntryOf
  <2>2. /\ o \in Objects /\ o.kind = was.kind /\ o.vol = was.vol /\ o.name = was.name /\ o.dirty = 0
        /\ was.size \in Sizes
    BY <2>1 DEF Objects, Bit
  <2>3. m_fileMem' = [m_fileMem EXCEPT ![h] = o]
    BY <1>1, <1>5, <2>1 DEF FsInv, FsTypes, Objects
  <2>4. /\ disk' \in Disks
        /\ \A w \in SdVolumes, m \in Names :
             disk'[w].entry[m] = IF w = was.vol /\ m = was.name THEN was.size ELSE disk[w].entry[m]
    BY <1>1, <1>2, <1>5, <2>1, SavedEntry
  <2>5. disk'[o.vol].entry[o.name] # NoEntry
    BY <2>1, <2>2, <2>4 DEF Sizes, NoEntry
  <2>6. ASSUME NEW g \in Handles \ {h} PROVE OtherKept(g)
    <3>1. HandleRight(g) /\ m_fileMem[g] \in Objects
      BY DEF FsInv, FsTypes
    <3>2. m_fileMem[g].name \in Names => m_fileMem[g].vol \in SdVolumes
            /\ disk[m_fileMem[g].vol].entry[m_fileMem[g].name] # NoEntry
      BY <3>1 DEF HandleRight, ObjectRight, Objects
    <3> QED  BY <1>2, <2>2, <2>4, <3>2 DEF OtherKept, Sizes, NoEntry
  <2>7. ASSUME handleFaults' = 0, NEW w \in SdVolumes, NEW m \in Names PROVE NewEntry(h, o, w, m)
    <3>1. EntryRight(w, m)
      BY <1>3, <2>7 DEF FsInv
    <3> QED  BY <1>2, <2>1, <2>4, <3>1 DEF EntryRight, NewEntry, Dirty
  <2>8. FileFrame /\ written' \in [SdVolumes -> Entries]
    BY <1>2, <1>3 DEF FileFrame, FsInv, FsTypes
  <2>9. /\ o.kind = m_fileMem[h].kind /\ o.vol = m_fileMem[h].vol /\ o.name \in Names
        /\ (o.dirty = 1 => o.size = written'[o.vol][o.name])
    BY <2>1, <2>2
  <2> HIDE DEF o, was
  <2> QED  BY <1>2, <2>2, <2>3, <2>4, <2>5, <2>6, <2>7, <2>8, <2>9, FileStep
<1> QED  BY <1>4, <1>5

\* Write keeps FsInv.
LEMMA WriteStep == ASSUME FsInv, NEW h \in Handles, Write(h) PROVE FsInv'
<1> DEFINE was == m_fileMem[h]
           grown == IF was.pos = was.size THEN was.size + 1 ELSE was.size
           o == [was EXCEPT !.pos = was.pos + 1, !.size = grown, !.dirty = 1]
<1>1. /\ IsEntry(h) /\ Sole(h) /\ was.pos < MaxLength /\ disk' = disk
      /\ m_fileMem' = [m_fileMem EXCEPT ![h].pos = @ + 1, ![h].size = grown, ![h].dirty = 1]
      /\ written' = [written EXCEPT ![was.vol][was.name] = grown]
  BY IsFileEntry DEF Write
<1>2. FileFrame
  BY SameFaults DEF Write, FileFrame
<1>3. /\ was \in Objects /\ was.vol \in SdVolumes /\ was.name \in Names
      /\ disk[was.vol].entry[was.name] # NoEntry
  BY <1>1, EntryOf
<1>4. was.pos \in Nat /\ was.size \in Sizes /\ grown \in Sizes
  BY <1>1, <1>3 DEF Objects, Sizes
<1>5. /\ o \in Objects /\ o.kind = m_fileMem[h].kind /\ o.vol = m_fileMem[h].vol
      /\ o.name = m_fileMem[h].name /\ o.dirty = 1 /\ o.size = grown
  <2> HIDE DEF grown
  <2>1. was.pos + 1 \in Nat
    BY <1>4
  <2> QED  BY <1>3, <1>4, <2>1 DEF Objects, Bit
<1>6. m_fileMem' = [m_fileMem EXCEPT ![h] = o]
  BY <1>1, <1>3 DEF FsInv, FsTypes, Objects
<1>7. disk' \in Disks
  BY <1>1 DEF FsInv, FsTypes, Disks
<1>8. disk'[o.vol].entry[o.name] # NoEntry /\ written' = [written EXCEPT ![o.vol][o.name] = grown]
      /\ \A w \in SdVolumes, m \in Names :
           w # o.vol \/ m # o.name => disk'[w].entry[m] = disk[w].entry[m]
  BY <1>1, <1>3, <1>5
<1>9. (o.dirty = 1 => o.size = grown) /\ (o.dirty = 0 => disk'[o.vol].entry[o.name] = grown)
  BY <1>5
<1> HIDE DEF o, grown, was
<1> QED  BY <1>1, <1>2, <1>4, <1>5, <1>6, <1>7, <1>8, <1>9, SoleStep

-----------------------------------------------------------------------------
(* Positions.                                                              *)

\* A position below zero, modulo 2^64, is beyond any length.
LEMMA SquareWide == PosWidth * PosWidth - 1 > MaxLength
<1>1. \A w, m \in Nat : m \in Nat \ {0} /\ m < w => w * w - 1 > m
  <2> TAKE w, m \in Nat
  <2> HAVE m \in Nat \ {0} /\ m < w
  <2>1. w * w = w * (w - 1) + w /\ w * (w - 1) >= 1 * (w - 1) /\ w >= 2
    OBVIOUS
  <2> QED  BY <2>1
<1> QED  BY <1>1

\* A seek that does not go before the file, or that succeeds, is passed as it was asked.
LEMMA SeeksAsAsked ==
  ASSUME FsInv, NEW h \in Handles, NEW asked \in Int, asked >= -1, NEW p \in SeeksTo(h, asked)
  PROVE  p = asked /\ p \in Sizes /\ p <= SizeOf(h)
<1>1. SizeOf(h) \in Sizes
  BY DEF FsInv, FsTypes, Objects, SizeOf
<1>2. p = Wrapped(asked) /\ p <= SizeOf(h)
  BY DEF SeeksTo, Passes
<1>3. asked >= 0
  <2>1. SUFFICES ASSUME asked = -1 PROVE FALSE
    OBVIOUS
  <2>2. p = PosWidth * PosWidth - 1
    BY <1>2, <2>1 DEF Wrapped
  <2>3. PosWidth * PosWidth \in Int
    OBVIOUS
  <2> QED  BY <1>1, <1>2, <2>2, <2>3, SquareWide DEF Sizes
<1> QED  BY <1>1, <1>2, <1>3 DEF Wrapped, Sizes

Exact == answer' # answer /\ answer'.ok = 1 => answer'.at = answer'.asked

\* Seek keeps FsInv.
LEMMA SeekStep == ASSUME FsInv, NEW h \in Handles, Seek(h) PROVE FsInv' /\ Exact
<1> DEFINE was == m_fileMem[h]
<1>1. PICK base \in {0, m_fileMem[h].pos, m_fileMem[h].size}, offset \in {-1, 1, PosWidth} :
        /\ isFile(h)
        /\ LET to == SeeksTo(h, base + offset) IN
           /\ answer' = [asked |-> base + offset, ok |-> IF to = {} THEN 0 ELSE 1,
                         at |-> IF to = {} THEN 0 ELSE CHOOSE p \in to : TRUE]
           /\ IF to = {} THEN UNCHANGED m_fileMem ELSE \E p \in to : m_fileMem' = [m_fileMem EXCEPT ![h].pos = p]
        /\ UNCHANGED <<fsVolumes, m_fFile, m_xFile, disk, written, handleFaults, formats, spoiled>>
  BY Zenon DEF Seek
<1> DEFINE asked == base + offset
           to == SeeksTo(h, asked)
<1>2. IsEntry(h) /\ disk' = disk /\ written' = written
  BY IsFileEntry DEF Seek
<1>3. FileFrame
  BY SameFaults DEF Seek, FileFrame
<1>4. /\ was \in Objects /\ was.vol \in SdVolumes /\ was.name \in Names
      /\ disk[was.vol].entry[was.name] # NoEntry
      /\ (was.dirty = 1 => was.size = written[was.vol][was.name])
  BY <1>2, EntryOf
<1>5. asked \in Int /\ asked >= -1
  <2>1. was.pos \in Nat /\ was.size \in Nat
    BY <1>4 DEF Objects, Sizes
  <2> QED  BY <2>1
<1>6. \A p \in to : p = asked /\ p \in Sizes
  BY <1>5, SeeksAsAsked
<1>7. Exact
  <2>1. CASE to = {}
    BY <1>1, <2>1 DEF Exact
  <2>2. CASE to # {}
    <3> DEFINE at == CHOOSE p \in to : TRUE
    <3>1. at \in to
      BY <2>2
    <3>2. at = asked
      BY <1>6, <3>1
    <3>3. answer' = [asked |-> asked, ok |-> 1, at |-> at]
      BY <1>1, <2>2
    <3> QED  BY <3>2, <3>3 DEF Exact
  <2> QED  BY <2>1, <2>2
<1>8. \E p \in Nat : m_fileMem' = [m_fileMem EXCEPT ![h].pos = p]
  <2>1. CASE to = {}
    <3>1. was.pos \in Nat /\ m_fileMem' = m_fileMem
      BY <1>1, <1>4, <2>1 DEF Objects
    <3>2. m_fileMem = [m_fileMem EXCEPT ![h].pos = was.pos]
      BY <1>4 DEF FsInv, FsTypes, Objects
    <3> QED  BY <3>1, <3>2
  <2>2. CASE to # {}
    BY <1>1, <1>6, <2>2 DEF Sizes
  <2> QED  BY <2>1, <2>2
<1>9. PICK p \in Nat : m_fileMem' = [m_fileMem EXCEPT ![h].pos = p]
  BY <1>8
<1> DEFINE o == [was EXCEPT !.pos = p]
<1>10. /\ o \in Objects /\ o.kind = m_fileMem[h].kind /\ o.vol = m_fileMem[h].vol
       /\ o.name = m_fileMem[h].name /\ o.dirty = was.dirty /\ o.size = was.size /\ o.name \in Names
  BY <1>4 DEF Objects
<1>11. m_fileMem' = [m_fileMem EXCEPT ![h] = o]
  BY <1>4, <1>9 DEF FsInv, FsTypes, Objects
<1>12. disk' \in Disks /\ written' \in [SdVolumes -> Entries]
  BY <1>2 DEF FsInv, FsTypes, Disks
<1>13. disk'[o.vol].entry[o.name] # NoEntry /\ (o.dirty = 1 => o.size = written'[o.vol][o.name])
  BY <1>2, <1>4, <1>10
<1>14. ASSUME NEW g \in Handles \ {h} PROVE OtherKept(g)
  BY <1>2, <1>3 DEF OtherKept, FileFrame, FsInv, HandleRight, ObjectRight
<1>15. ASSUME handleFaults' = 0, NEW w \in SdVolumes, NEW m \in Names PROVE NewEntry(h, o, w, m)
  BY <1>2, <1>3, <1>10, <1>15 DEF FsInv, FileFrame, EntryRight, NewEntry, Dirty
<1> HIDE DEF o, was
<1>16. FsInv'
  BY <1>2, <1>3, <1>10, <1>11, <1>12, <1>13, <1>14, <1>15, FileStep
<1> QED  BY <1>7, <1>16

\* Truncate keeps FsInv.
LEMMA TruncateStep == ASSUME FsInv, NEW h \in Handles, Truncate(h) PROVE FsInv' /\ Exact
<1> DEFINE was == m_fileMem[h]
<1>1. PICK length \in {0, 1, PosWidth} : \E p \in SeeksTo(h, length) :
        /\ m_fileMem' = [m_fileMem EXCEPT ![h].pos = p, ![h].size = p, ![h].dirty = 0]
        /\ disk' = Saved(disk, [was EXCEPT !.size = p, !.dirty = 1])
        /\ written' = [written EXCEPT ![was.vol][was.name] = p]
        /\ answer' = [asked |-> length, ok |-> 1, at |-> p]
  BY DEF Truncate
<1>2. PICK p \in SeeksTo(h, length) :
        /\ m_fileMem' = [m_fileMem EXCEPT ![h].pos = p, ![h].size = p, ![h].dirty = 0]
        /\ disk' = Saved(disk, [was EXCEPT !.size = p, !.dirty = 1])
        /\ written' = [written EXCEPT ![was.vol][was.name] = p]
        /\ answer' = [asked |-> length, ok |-> 1, at |-> p]
  BY <1>1
<1>3. length \in Int /\ length >= -1
  OBVIOUS
<1>4. p = length /\ p \in Sizes
  BY <1>3, SeeksAsAsked
<1>5. IsEntry(h) /\ Sole(h)
  BY IsFileEntry DEF Truncate
<1>6. FileFrame
  BY SameFaults DEF Truncate, FileFrame
<1>7. was \in Objects /\ was.vol \in SdVolumes /\ was.name \in Names
  BY <1>5, EntryOf
<1> DEFINE saved == [was EXCEPT !.size = p, !.dirty = 1]
           o == [was EXCEPT !.pos = p, !.size = p, !.dirty = 0]
<1>8. p \in Nat
  BY <1>4 DEF Sizes
<1>9. /\ saved \in Objects /\ saved.vol = was.vol /\ saved.name = was.name /\ saved.dirty = 1
      /\ saved.size = p
  BY <1>4, <1>7 DEF Objects, Bit
<1>10. /\ o \in Objects /\ o.kind = m_fileMem[h].kind /\ o.vol = m_fileMem[h].vol
       /\ o.name = m_fileMem[h].name /\ o.dirty = 0
  BY <1>4, <1>7, <1>8 DEF Objects, Bit
<1>11. m_fileMem' = [m_fileMem EXCEPT ![h] = o]
  BY <1>2, <1>7 DEF FsInv, FsTypes, Objects
<1>12. disk' = Saved(disk, saved) /\ written' = [written EXCEPT ![o.vol][o.name] = p]
  BY <1>2, <1>10
<1> HIDE DEF saved
<1>13. /\ disk' \in Disks
       /\ \A w \in SdVolumes, m \in Names :
            disk'[w].entry[m] = IF w = saved.vol /\ m = saved.name THEN saved.size ELSE disk[w].entry[m]
  <2>1. saved.vol \in SdVolumes /\ saved.name \in Names
    BY <1>7, <1>9
  <2> QED  BY <1>9, <1>12, <2>1, SavedEntry
<1>14. /\ disk'[o.vol].entry[o.name] = p /\ p # NoEntry
       /\ \A w \in SdVolumes, m \in Names :
            w # o.vol \/ m # o.name => disk'[w].entry[m] = disk[w].entry[m]
  <2>1. p # NoEntry
    BY <1>4 DEF Sizes, NoEntry
  <2> QED  BY <1>7, <1>9, <1>10, <1>13, <2>1
<1>15. (o.dirty = 1 => o.size = p) /\ (o.dirty = 0 => disk'[o.vol].entry[o.name] = p)
       /\ disk'[o.vol].entry[o.name] # NoEntry
  BY <1>10, <1>14
<1> HIDE DEF o, was
<1>16. FsInv'
  BY <1>4, <1>5, <1>6, <1>10, <1>11, <1>12, <1>13, <1>14, <1>15, SoleStep
<1>17. Exact
  BY <1>2, <1>4 DEF Exact
<1> QED  BY <1>16, <1>17

\* PreAllocate keeps FsInv.
LEMMA PreAllocateStep == ASSUME FsInv, NEW h \in Handles, PreAllocate(h) PROVE FsInv'
<1> DEFINE was == m_fileMem[h]
<1>1. PICK length \in {1, PosWidth + 1} : \E p \in Passes(h, length) :
        LET size == IF Reached(h) = "FAT" THEN p ELSE 0 IN
        /\ m_fileMem' = [m_fileMem EXCEPT ![h].size = size, ![h].dirty = 0]
        /\ disk' = [disk EXCEPT ![was.vol].entry[was.name] = size]
        /\ written' = [written EXCEPT ![was.vol][was.name] = size]
  BY DEF PreAllocate
<1>2. \E size \in Sizes :
        /\ m_fileMem' = [m_fileMem EXCEPT ![h].size = size, ![h].dirty = 0]
        /\ disk' = [disk EXCEPT ![was.vol].entry[was.name] = size]
        /\ written' = [written EXCEPT ![was.vol][was.name] = size]
  <2>1. PICK p \in Passes(h, length) :
          LET size == IF Reached(h) = "FAT" THEN p ELSE 0 IN
          /\ m_fileMem' = [m_fileMem EXCEPT ![h].size = size, ![h].dirty = 0]
          /\ disk' = [disk EXCEPT ![was.vol].entry[was.name] = size]
          /\ written' = [written EXCEPT ![was.vol][was.name] = size]
    BY <1>1
  <2>2. Reached(h) = "FAT" => p = 1
    BY DEF Passes
  <2>3. 0 \in Sizes /\ 1 \in Sizes
    BY DEF Sizes
  <2> QED  BY <2>1, <2>2, <2>3
<1>3. PICK size \in Sizes :
        /\ m_fileMem' = [m_fileMem EXCEPT ![h].size = size, ![h].dirty = 0]
        /\ disk' = [disk EXCEPT ![was.vol].entry[was.name] = size]
        /\ written' = [written EXCEPT ![was.vol][was.name] = size]
  BY <1>2
<1>4. IsEntry(h) /\ Sole(h)
  BY IsFileEntry DEF PreAllocate
<1>5. FileFrame
  BY SameFaults DEF PreAllocate, FileFrame
<1>6. was \in Objects /\ was.vol \in SdVolumes /\ was.name \in Names
  BY <1>4, EntryOf
<1> DEFINE o == [was EXCEPT !.size = size, !.dirty = 0]
<1>7. /\ o \in Objects /\ o.kind = m_fileMem[h].kind /\ o.vol = m_fileMem[h].vol
      /\ o.name = m_fileMem[h].name /\ o.dirty = 0
  BY <1>6 DEF Objects, Bit
<1>8. m_fileMem' = [m_fileMem EXCEPT ![h] = o]
  BY <1>3, <1>6 DEF FsInv, FsTypes, Objects
<1>9. disk' \in Disks /\ written' = [written EXCEPT ![o.vol][o.name] = size]
  <2>1. disk' \in Disks
    BY <1>3, <1>6 DEF FsInv, FsTypes, Disks, Entries
  <2> QED  BY <1>3, <1>7, <2>1
<1>10. /\ disk'[o.vol].entry[o.name] = size
       /\ \A w \in SdVolumes, m \in Names :
            w # o.vol \/ m # o.name => disk'[w].entry[m] = disk[w].entry[m]
  BY <1>3, <1>6, <1>7 DEF FsInv, FsTypes, Entries
<1>11. (o.dirty = 1 => o.size = size) /\ (o.dirty = 0 => disk'[o.vol].entry[o.name] = size)
       /\ disk'[o.vol].entry[o.name] # NoEntry
  BY <1>7, <1>10 DEF Sizes, NoEntry
<1> HIDE DEF o, was
<1> QED  BY <1>4, <1>5, <1>7, <1>8, <1>9, <1>10, <1>11, SoleStep

-----------------------------------------------------------------------------
(* Volumes.                                                                *)

\* A step of the volume v, which no file is on, that leaves the files alone.
LEMMA VolumeStep ==
  ASSUME FsInv, NEW v \in SdVolumes, NoFileOn(v), UNCHANGED <<fsFiles, spoiled>>,
         m_fVol' \in [SdVolumes -> Bit], m_xVol' \in [SdVolumes -> Bit],
         disk' \in Disks, written' \in [SdVolumes -> Entries],
         handleFaults' \in Nat, handleFaults' = 0 => handleFaults = 0, formats' \in Nat,
         \A w \in SdVolumes \ {v} : /\ m_fVol'[w] = m_fVol[w] /\ m_xVol'[w] = m_xVol[w]
                                    /\ disk'[w] = disk[w] /\ written'[w] = written[w],
         \A n \in Names : disk'[v].entry[n] = written'[v][n] \/ 
                            (disk'[v] = disk[v] /\ written'[v] = written[v])
  PROVE  FsInv'
<1>1. FsTypes'
  BY DEF FsInv, FsTypes, Disks, fsFiles
<1>2. ASSUME NEW g \in Handles PROVE HandleRight(g)'
  <2>1. HandleRight(g) /\ m_fileMem[g] \in Objects /\ m_fileMem[g].vol # v
    BY DEF FsInv, FsTypes, NoFileOn
  <2>2. m_fileMem[g].vol \in SdVolumes \/ m_fileMem[g].vol = "none"
    BY <2>1 DEF Objects
  <2> QED  BY <2>1, <2>2 DEF HandleRight, ObjectRight, PointersRight, FsOf, fsFiles
<1>3. ASSUME handleFaults' = 0, NEW w \in SdVolumes, NEW n \in Names PROVE EntryRight(w, n)'
  <2>1. EntryRight(w, n)
    BY <1>3 DEF FsInv
  <2> QED  BY <2>1 DEF EntryRight, fsFiles
<1>4. handleFaults' = 0 => spoiled' = {}
  BY DEF FsInv
<1> QED  BY <1>1, <1>2, <1>3, <1>4 DEF FsInv

\* BeginVolume keeps FsInv.
LEMMA BeginVolumeStep == ASSUME FsInv, NEW v \in SdVolumes, BeginVolume(v) PROVE FsInv'
<1>1. PICK fails \in {FALSE, CanFail} : Fails(fails)
  BY DEF BeginVolume
<1>2. handleFaults' \in Nat /\ (handleFaults' = 0 => handleFaults = 0)
  BY <1>1 DEF Fails, FsInv, FsTypes
<1>3. \E f, x \in Bit : m_fVol' = [m_fVol EXCEPT ![v] = f] /\ m_xVol' = [m_xVol EXCEPT ![v] = x]
  BY DEF BeginVolume, end, Bit
<1>4. /\ m_fVol' \in [SdVolumes -> Bit] /\ m_xVol' \in [SdVolumes -> Bit]
      /\ \A w \in SdVolumes \ {v} : m_fVol'[w] = m_fVol[w] /\ m_xVol'[w] = m_xVol[w]
  BY <1>3 DEF FsInv, FsTypes
<1>5. NoFileOn(v) /\ UNCHANGED <<fsFiles, spoiled, disk, written, formats>>
  BY DEF BeginVolume
<1>6. disk' \in Disks /\ written' \in [SdVolumes -> Entries] /\ formats' \in Nat
  BY <1>5 DEF FsInv, FsTypes, Disks
<1> QED  BY <1>2, <1>4, <1>5, <1>6, VolumeStep

\* Format keeps FsInv.
LEMMA FormatStep == ASSUME FsInv, NEW v \in SdVolumes, Format(v) PROVE FsInv'
<1>1. PICK outcome :
        /\ Fails(outcome # "done")
        /\ IF outcome = "unread" THEN UNCHANGED <<fsVolumes, disk, written>>
           ELSE /\ end(v) /\ written' = [written EXCEPT ![v] = Blank]
                /\ disk' = [disk EXCEPT ![v] = [entry |-> Blank, fs |->
                              IF outcome = "broken" THEN "none" ELSE FormatOf(v)]]
  BY DEF Format
<1>2. NoFileOn(v) /\ UNCHANGED <<fsFiles, spoiled>> /\ formats' = formats + 1
  BY DEF Format
<1>3. handleFaults' \in Nat /\ (handleFaults' = 0 => handleFaults = 0) /\ formats' \in Nat
  BY <1>1, <1>2 DEF Fails, FsInv, FsTypes
<1>4. CASE outcome = "unread"
  <2>1. UNCHANGED <<m_fVol, m_xVol, disk, written>>
    BY <1>1, <1>4 DEF fsVolumes
  <2>2. /\ m_fVol' \in [SdVolumes -> Bit] /\ m_xVol' \in [SdVolumes -> Bit]
        /\ disk' \in Disks /\ written' \in [SdVolumes -> Entries]
    BY <2>1 DEF FsInv, FsTypes, Disks
  <2> QED  BY <1>2, <1>3, <2>1, <2>2, VolumeStep
<1>5. CASE outcome # "unread"
  <2> DEFINE fresh == [entry |-> Blank, fs |-> IF outcome = "broken" THEN "none" ELSE FormatOf(v)]
  <2>1. /\ m_fVol' = [m_fVol EXCEPT ![v] = 0] /\ m_xVol' = [m_xVol EXCEPT ![v] = 0]
        /\ written' = [written EXCEPT ![v] = Blank] /\ disk' = [disk EXCEPT ![v] = fresh]
    BY <1>1, <1>5 DEF end
  <2>2. Blank \in Entries /\ fresh \in [fs : Kinds, entry : Entries] /\ fresh.entry = Blank /\ 0 \in Bit
    BY DEF Blank, Entries, Kinds, FormatOf, Bit
  <2> HIDE DEF fresh
  <2>3. /\ m_fVol' \in [SdVolumes -> Bit] /\ m_xVol' \in [SdVolumes -> Bit]
        /\ disk' \in Disks /\ written' \in [SdVolumes -> Entries]
        /\ disk'[v] = fresh /\ written'[v] = Blank
        /\ \A w \in SdVolumes \ {v} : /\ m_fVol'[w] = m_fVol[w] /\ m_xVol'[w] = m_xVol[w]
                                      /\ disk'[w] = disk[w] /\ written'[w] = written[w]
    BY <2>1, <2>2 DEF FsInv, FsTypes, Disks
  <2>4. \A n \in Names : disk'[v].entry[n] = written'[v][n]
    BY <2>2, <2>3
  <2> QED  BY <1>2, <1>3, <2>3, <2>4, VolumeStep
<1> QED  BY <1>4, <1>5

-----------------------------------------------------------------------------
(* The theorems.                                                           *)

\* Every step keeps FsInv, and seeks where it was asked to.
LEMMA FsNextStep == FsInv /\ [FsNext]_fsVars => FsInv' /\ Exact
<1> SUFFICES ASSUME FsInv, [FsNext]_fsVars PROVE FsInv' /\ Exact
  OBVIOUS
<1>1. CASE UNCHANGED fsVars
  BY <1>1 DEF fsVars, fsVolumes, fsFiles, FsInv, FsTypes, HandleRight, ObjectRight, PointersRight,
     EntryRight, FsOf, Exact
<1>2. ASSUME NEW h \in Handles, Close(h) \/ Open(h) \/ openRoot(h) \/ Remove(h) \/ Sync(h) \/ Write(h)
             \/ PreAllocate(h)
      PROVE  FsInv' /\ Exact
  <2>1. answer' = answer
    BY <1>2 DEF Close, Open, openRoot, Remove, Sync, Write, PreAllocate
  <2> QED  BY <1>2, <2>1, CloseStep, OpenStep, OpenRootStep, RemoveStep, SyncStep, WriteStep,
              PreAllocateStep DEF Exact
<1>3. ASSUME NEW h \in Handles, Seek(h) \/ Truncate(h) PROVE FsInv' /\ Exact
  BY <1>3, SeekStep, TruncateStep
<1>4. ASSUME NEW h \in Handles, NEW g \in Handles,
             OpenIn(h, g) \/ mkdir(h, g) \/ Assign(h, g) \/ rename(h, g)
      PROVE  FsInv' /\ Exact
  <2>1. answer' = answer
    BY <1>4 DEF OpenIn, mkdir, Assign, rename
  <2> QED  BY <1>4, <2>1, OpenInStep, MkdirStep, AssignStep, RenameStep DEF Exact
<1>5. CASE RemoveName
  BY <1>5, RemoveNameStep DEF RemoveName, Exact
<1>6. ASSUME NEW v \in SdVolumes, BeginVolume(v) \/ Format(v) PROVE FsInv' /\ Exact
  <2>1. answer' = answer
    BY <1>6 DEF BeginVolume, Format
  <2> QED  BY <1>6, <2>1, BeginVolumeStep, FormatStep DEF Exact
<1> QED  BY <1>1, <1>2, <1>3, <1>4, <1>5, <1>6 DEF FsNext

\* The first state satisfies FsInv.
LEMMA FsStart == FsInit => FsInv
<1> SUFFICES ASSUME FsInit PROVE FsInv
  OBVIOUS
<1>1. Nobody \in Objects /\ Blank \in Entries /\ \A v \in SdVolumes : FormatOf(v) \in Kinds
  BY DEF Nobody, Objects, Kinds, Sizes, Bit, Blank, Entries, FormatOf
<1>2. FsTypes
  BY <1>1 DEF FsInit, FsTypes, Bit
<1>3. \A h \in Handles : HandleRight(h)
  BY DEF FsInit, HandleRight, ObjectRight, PointersRight, Nobody
<1> QED  BY <1>2, <1>3 DEF FsInit, FsInv, EntryRight

\* FsInv is an invariant of the front end, whatever the sequence of calls.
THEOREM FsInvariance == FsSpec => []FsInv
<1>1. FsInit => FsInv
  BY FsStart
<1>2. FsInv /\ [FsNext]_fsVars => FsInv'
  BY FsNextStep
<1> QED  BY <1>1, <1>2, PTL DEF FsSpec

\* Whatever is opened, copied, assigned, removed and mounted, and whichever call fails: an open
\* object is on a volume mounted with its file system and is reached by its pointer; a file that
\* says it is open is one open object of the class its pointer says, unless its last close() or
\* remove() failed; and what was written is in the entry or still to be saved.
THEOREM HandlesAlwaysSound == FsSpec => []HandlesSound
<1>1. ASSUME FsInv, NEW h \in Handles
      PROVE  /\ m_fileMem[h].name # "none" =>
                  /\ FsOf(m_fileMem[h].vol) = m_fileMem[h].kind
                  /\ \/ m_fileMem[h].kind = "FAT" /\ m_fFile[h] = 1
                     \/ m_fileMem[h].kind = "exFAT" /\ m_xFile[h] = 1
             /\ h \notin spoiled =>
                  /\ ~Mistaken(h) /\ m_fFile[h] + m_xFile[h] <= 1
                  /\ isOpen(h) <=> m_fileMem[h].name # "none"
  <2>1. HandleRight(h) /\ m_fFile[h] \in {0, 1} /\ m_xFile[h] \in {0, 1} /\ m_fileMem[h] \in Objects
    BY <1>1 DEF FsInv, FsTypes, Bit
  <2>2. /\ h \notin spoiled => PointersRight(m_fileMem[h], m_fFile[h], m_xFile[h])
        /\ ObjectRight(m_fileMem[h], m_fFile[h], m_xFile[h])
    BY <2>1 DEF HandleRight
  <2> QED  BY <2>1, <2>2 DEF PointersRight, ObjectRight, Mistaken, isOpen, Reached
<1>2. FsInv => WrittenIsKept
  BY DEF FsInv, EntryRight, HandleRight, ObjectRight, WrittenIsKept, SizeOf, FsTypes, Objects
<1>3. FsInv => HandlesSound
  BY <1>1, <1>2 DEF HandlesSound, FilesSound
<1> QED  BY <1>3, FsInvariance, PTL

\* A seek or a truncate that says it succeeded is at the position asked for: no bit is cut off
\* on the way from 64 bits to the 32 of a FAT file, however wide these are.
THEOREM SeeksAlwaysExact == FsSpec => SeeksExact
<1>1. FsInv /\ [FsNext]_fsVars => [answer' # answer /\ answer'.ok = 1 => answer'.at = answer'.asked]_fsVars
  BY FsNextStep DEF Exact
<1> QED  BY <1>1, FsInvariance, PTL DEF FsSpec, SeeksExact

-----------------------------------------------------------------------------
(***************************************************************************)
(* For every buffer size the logger and the player are first-in first-out  *)
(* buffers (ByteFifo).  The invariant says which cells hold which bytes of *)
(* the stream while a writeOut or readIn is half done: its count is        *)
(* corrected only at its end, so m_head is m_count - done (writing) or     *)
(* m_count + done (reading) cells ahead of m_tail.                         *)
(***************************************************************************)
USE SizeAssumption

Logger == INSTANCE ByteFifo WITH accepted <- added, delivered <- removed + done, failed <- faults
Player == INSTANCE ByteFifo WITH accepted <- removed + m_count, delivered <- removed, failed <- faults

\* The n cells of buf from tail on hold the bytes first, first + 1, ...
Holds(buf, tail, first, n) == \A i \in 0 .. n - 1 : buf[Advance(tail, i)] = first + i

LogInv ==
  /\ TypeOK
  /\ pc # "readIn"
  /\ pc = "idle" => want = 0
  /\ want <= m_count
  /\ m_head = Advance(m_tail, m_count - done)
  /\ added = removed + m_count
  /\ Holds(m_buf, m_tail, removed + done, m_count - done)

-----------------------------------------------------------------------------
(* The ring.                                                               *)

\* An index that is advanced stays in the buffer.
LEMMA AdvanceType ==
  ASSUME NEW c \in Cells, NEW n \in 0 .. Size
  PROVE  Advance(c, n) \in Cells
BY DEF Advance, Cells

\* Advancing twice is advancing by the sum.
LEMMA AdvanceSum ==
  ASSUME NEW c \in Cells, NEW a \in 0 .. Size, NEW b \in 0 .. Size, a + b <= Size
  PROVE  Advance(Advance(c, a), b) = Advance(c, a + b)
BY DEF Advance, Cells

\* A cell the tail has not reached before the head lies in front of the head.
LEMMA OffsetBeyond ==
  ASSUME NEW c \in Cells, NEW a \in 0 .. Size, NEW i \in 0 .. Size - 1
  PROVE  /\ i >= a => Offset(Advance(c, a), Advance(c, i)) = i - a
         /\ i < a => Offset(Advance(c, a), Advance(c, i)) >= Size - a
BY DEF Advance, Cells, Offset

\* Storing n bytes behind a extends what the cells hold.
LEMMA StoreHolds ==
  ASSUME TypeOK, NEW a \in 0 .. Size, NEW n \in 0 .. Size, a + n <= Size, NEW first \in Nat,
         m_head = Advance(m_tail, a) \/ n = 0, Holds(m_buf, m_tail, first, a), Store(n, first + a)
  PROVE  Holds(m_buf', m_tail, first, a + n)
<1>1. m_tail \in Cells
  BY DEF TypeOK
<1>2. \A c \in Cells : Offset(m_head, c) \in Nat
  BY DEF TypeOK, Offset, Cells
<1>4. ASSUME NEW i \in 0 .. a + n - 1 PROVE m_buf'[Advance(m_tail, i)] = first + i
  <2>1. Advance(m_tail, i) \in Cells /\ i \in 0 .. Size - 1
    BY <1>1, AdvanceType
  <2>2. CASE i < a
    <3>1. m_buf[Advance(m_tail, i)] = first + i
      BY <2>2 DEF Holds
    <3>2. n # 0 => Offset(m_head, Advance(m_tail, i)) >= Size - a
      BY <1>1, <2>1, <2>2, OffsetBeyond
    <3>3. ~(Offset(m_head, Advance(m_tail, i)) < n)
      BY <1>2, <2>1, <3>2
    <3> QED  BY <2>1, <3>1, <3>3 DEF Store
  <2>3. CASE i >= a
    <3>1. Offset(m_head, Advance(m_tail, i)) = i - a
      BY <1>1, <2>1, <2>3, OffsetBeyond
    <3> QED  BY <1>1, <2>1, <2>3, <3>1 DEF Store
  <2> QED  BY <2>2, <2>3
<1> QED  BY <1>4 DEF Holds

\* Storing leaves bytes in every cell.
LEMMA StoreType ==
  ASSUME TypeOK, NEW n \in Nat, NEW first \in Nat, Store(n, first)
  PROVE  m_buf' \in [Cells -> Nat]
<1>1. \A c \in Cells : Offset(m_head, c) \in Nat
  BY DEF TypeOK, Offset, Cells
<1> QED  BY <1>1 DEF Store, TypeOK

\* Passing n bytes on gives the sink the next n of the stream.
LEMMA PassDelivers ==
  ASSUME TypeOK, NEW a \in 0 .. Size, NEW n \in 0 .. a, NEW first \in Nat,
         Holds(m_buf, m_tail, first, a), Pass(n)
  PROVE  sink' = sink \o [k \in 1 .. n |-> first + k - 1]
<1>1. \A k \in 1 .. n : m_buf[Advance(m_tail, k - 1)] = first + k - 1
  BY DEF Holds
<1> QED  BY <1>1 DEF Pass

\* What passes are bytes.
LEMMA PassType ==
  ASSUME TypeOK, NEW n \in 0 .. Size, Pass(n)
  PROVE  sink' \in Seq(Nat)
<1> DEFINE taken == [k \in 1 .. n |-> m_buf[Advance(m_tail, k - 1)]]
<1>1. m_tail \in Cells /\ m_buf \in [Cells -> Nat] /\ sink \in Seq(Nat)
  BY DEF TypeOK
<1>2. \A k \in 1 .. n : k - 1 \in 0 .. Size /\ Advance(m_tail, k - 1) \in Cells
  BY <1>1, AdvanceType
<1>3. taken \in Seq(Nat)
  BY <1>1, <1>2
<1>4. sink' = sink \o taken
  BY DEF Pass
<1> HIDE DEF taken
<1> QED  BY <1>1, <1>3, <1>4, ConcatProperties

\* Behind n bytes the cells hold the rest.
LEMMA HoldsRest ==
  ASSUME TypeOK, NEW a \in 0 .. Size, NEW n \in 0 .. a, NEW first \in Nat,
         Holds(m_buf, m_tail, first, a)
  PROVE  Holds(m_buf, Advance(m_tail, n), first + n, a - n)
<1>1. ASSUME NEW i \in 0 .. a - n - 1 PROVE m_buf[Advance(Advance(m_tail, n), i)] = first + n + i
  <2>1. Advance(Advance(m_tail, n), i) = Advance(m_tail, n + i)
    BY AdvanceSum DEF TypeOK
  <2>2. n + i \in 0 .. a - 1 /\ first + (n + i) = first + n + i
    OBVIOUS
  <2> QED  BY <2>1, <2>2 DEF Holds
<1> QED  BY <1>1 DEF Holds

\* The lesser of two numbers.
LEMMA MinFacts ==
  ASSUME NEW a \in Nat, NEW b \in Nat
  PROVE  MinSize(a, b) \in Nat /\ MinSize(a, b) <= a /\ MinSize(a, b) <= b
BY DEF MinSize

-----------------------------------------------------------------------------
(* The logger.                                                             *)

\* The first state satisfies the invariant of the logger.
LEMMA LogInit == Init => LogInv
<1> SUFFICES ASSUME Init PROVE LogInv
  OBVIOUS
<1>1. TypeOK
  BY DEF Init, TypeOK, Cells
<1>2. /\ m_head = 0 /\ m_tail = 0 /\ m_count = 0 /\ done = 0 /\ want = 0 /\ pc = "idle"
      /\ added = 0 /\ removed = 0 /\ sink = <<>>
  BY DEF Init
<1> QED  BY <1>1, <1>2 DEF LogInv, Advance, Holds

\* What memcpyIn does, for the handler's memcpyIn and write.
LEMMA MemcpyInStep ==
  ASSUME LogInv, NEW n \in Lengths, MemcpyIn(n), writeError' \in {0, 1}
  PROVE  LogInv' /\ Logger!Next
<1> DEFINE moved == Fitting(n)
           d == removed + done
           a == m_count - done
<1>1. /\ added + moved <= MaxBytes /\ Store(moved, added) /\ m_head' = Advance(m_head, moved)
      /\ m_count' = m_count + moved /\ added' = added + moved
      /\ UNCHANGED <<m_tail, pc, want, done, filePos, faults, misread, removed, sink>>
  BY DEF MemcpyIn, main
<1>2. /\ TypeOK /\ want \in 0 .. Size /\ done \in 0 .. want /\ want <= m_count
      /\ m_count \in 0 .. Size /\ d \in Nat /\ m_tail \in Cells
      /\ added = d + a /\ m_head = Advance(m_tail, a) /\ Holds(m_buf, m_tail, d, a)
      /\ added \in Nat
  BY DEF LogInv, TypeOK
<1>3. moved \in 0 .. Size /\ moved + m_count <= Size
  <2>1. n \in Nat /\ Size - m_count \in Nat
    BY <1>2 DEF Lengths
  <2>2. moved \in Nat /\ moved <= Size - m_count
    BY <2>1, MinFacts DEF Fitting
  <2> QED  BY <1>2, <2>2
<1> HIDE DEF moved
<1>4. a \in 0 .. Size /\ a + moved <= Size /\ a + moved = m_count' - done'
  BY <1>1, <1>2, <1>3
<1>5. m_buf' \in [Cells -> Nat] /\ Holds(m_buf', m_tail', d, a + moved)
  <2>1. Store(moved, d + a) /\ moved \in Nat
    BY <1>1, <1>2, <1>3
  <2> HIDE DEF a, d
  <2> QED  BY <1>1, <1>2, <1>3, <1>4, <2>1, StoreHolds, StoreType
<1>6. m_head' = Advance(m_tail, a + moved) /\ m_head' \in Cells
  BY <1>1, <1>2, <1>3, <1>4, AdvanceSum, AdvanceType
<1>7. TypeOK'
  BY <1>1, <1>2, <1>3, <1>5, <1>6 DEF TypeOK
<1>8. LogInv'
  <2>1. want' <= m_count' /\ pc' # "readIn" /\ (pc' = "idle" => want' = 0)
    BY <1>1, <1>2, <1>3 DEF LogInv
  <2>2. m_head' = Advance(m_tail', m_count' - done') /\ Holds(m_buf', m_tail', removed' + done', m_count' - done')
    BY <1>1, <1>4, <1>5, <1>6
  <2>3. added' = removed' + m_count'
    <3>1. added = removed + m_count
      BY DEF LogInv
    <3> QED  BY <1>1, <1>2, <1>3, <3>1 DEF TypeOK
  <2> QED  BY <1>7, <2>1, <2>2, <2>3 DEF LogInv
<1>9. Logger!Accept(moved)
  <2>1. added + moved <= removed + done + Size
    BY <1>2, <1>3 DEF TypeOK
  <2> QED  BY <1>1, <2>1 DEF Logger!Accept
<1> QED  BY <1>3, <1>8, <1>9 DEF Logger!Next

\* The beginning of writeOut keeps the invariant and moves nothing.
LEMMA WriteOutStarts ==
  ASSUME LogInv, NEW n \in Lengths, WriteOut(n)
  PROVE  LogInv' /\ UNCHANGED Logger!fifoVars
<1>1. m_count \in 0 .. Size /\ n \in Nat
  BY DEF LogInv, TypeOK, Lengths
<1>2. want' \in 0 .. m_count
  BY <1>1, MinFacts DEF WriteOut
<1>3. TypeOK'
  BY <1>1, <1>2 DEF LogInv, TypeOK, WriteOut
<1>4. pc = "idle" /\ done = 0 /\ done' = 0
  BY DEF LogInv, TypeOK, WriteOut
<1>5. Holds(m_buf', m_tail', removed' + done', m_count' - done')
  BY <1>4 DEF LogInv, WriteOut, Holds
<1> QED  BY <1>2, <1>3, <1>4, <1>5 DEF LogInv, WriteOut, Logger!fifoVars

\* A piece that writeOut writes is not more than is there.
LEMMA OutFacts ==
  ASSUME LogInv
  PROVE  LET n == MinSize(Size - m_tail, want - done)
             a == m_count - done
             d == removed + done
         IN  /\ n \in 0 .. Size /\ n <= want - done /\ a \in 0 .. Size /\ n \in 0 .. a
             /\ d \in Nat /\ added = d + a /\ Holds(m_buf, m_tail, d, a) /\ TypeOK
<1>2. /\ TypeOK /\ want \in 0 .. Size /\ done \in 0 .. want /\ want <= m_count
      /\ m_count \in 0 .. Size /\ m_tail \in Cells /\ removed \in Nat /\ added = removed + m_count
      /\ Holds(m_buf, m_tail, removed + done, m_count - done)
  BY DEF LogInv, TypeOK
<1>3. Size - m_tail \in Nat /\ want - done \in Nat
  BY <1>2 DEF Cells
<1>4. MinSize(Size - m_tail, want - done) \in Nat /\ MinSize(Size - m_tail, want - done) <= want - done
  BY <1>3, MinFacts
<1> QED  BY <1>2, <1>3, <1>4

\* WritePiece keeps the invariant and is a step of the abstract queue.
LEMMA WritePieceStep == ASSUME LogInv, WritePiece PROVE LogInv' /\ Logger!Next
<1> DEFINE n == MinSize(Size - m_tail, want - done)
           a == m_count - done
           d == removed + done
<1>1. /\ Pass(n) /\ m_tail' = Advance(m_tail, n) /\ done' = done + n /\ pc = "writeOut"
      /\ UNCHANGED <<m_buf, m_head, m_count, writeError, pc, want, filePos, faults, misread, added, removed>>
  BY DEF WritePiece
<1>2. /\ n \in 0 .. Size /\ n <= want - done /\ a \in 0 .. Size /\ n \in 0 .. a
      /\ d \in Nat /\ added = d + a /\ Holds(m_buf, m_tail, d, a) /\ TypeOK
  BY OutFacts
<1> HIDE DEF n
<1>3. /\ want \in 0 .. Size /\ done \in 0 .. want /\ want <= m_count /\ m_count \in 0 .. Size
      /\ m_tail \in Cells /\ m_head = Advance(m_tail, a) /\ removed \in Nat
  BY DEF LogInv, TypeOK
<1>4. a - n = m_count' - done' /\ a - n \in 0 .. Size /\ d + n = removed' + done'
  BY <1>1, <1>2, <1>3
<1>5. sink' = sink \o [k \in 1 .. n |-> d + k - 1] /\ sink' \in Seq(Nat)
      /\ Holds(m_buf', m_tail', d + n, a - n)
  <2> HIDE DEF a, d
  <2> QED  BY <1>1, <1>2, PassDelivers, PassType, HoldsRest
<1>6. m_tail' \in Cells /\ Advance(m_tail', a - n) = m_head
  <2>1. n + (a - n) = a /\ n + (a - n) <= Size
    BY <1>2, <1>4
  <2> QED  BY <1>1, <1>2, <1>3, <1>4, <2>1, AdvanceSum, AdvanceType
<1>7. TypeOK'
  BY <1>1, <1>2, <1>3, <1>5, <1>6 DEF TypeOK
<1>8. LogInv'
  <2>2. m_head' = Advance(m_tail', m_count' - done')
    BY <1>1, <1>4, <1>6
  <2>3. Holds(m_buf', m_tail', removed' + done', m_count' - done')
    BY <1>4, <1>5
  <2>4. added' = removed' + m_count' /\ want' <= m_count'
    BY <1>1 DEF LogInv
  <2> QED  BY <1>1, <1>7, <2>2, <2>3, <2>4 DEF LogInv
<1>9. Logger!Deliver(n)
  <2>1. d + n <= added
    BY <1>2
  <2> QED  BY <1>1, <1>4, <1>5, <2>1 DEF Logger!Deliver, Logger!Arrive
<1> QED  BY <1>2, <1>8, <1>9 DEF Logger!Next

\* A write that fails keeps the invariant: a part of the piece arrives and stays to be delivered.
LEMMA WriteFailsStep == ASSUME LogInv, WriteFails PROVE LogInv' /\ Logger!Next
<1> DEFINE n == MinSize(Size - m_tail, want - done)
           a == m_count - done
           d == removed + done
<1>1. PICK k \in 0 .. n : Pass(k)
  BY DEF WriteFails
<1>2. /\ n \in 0 .. Size /\ a \in 0 .. Size /\ n \in 0 .. a
      /\ d \in Nat /\ added = d + a /\ Holds(m_buf, m_tail, d, a) /\ TypeOK
  BY OutFacts
<1> HIDE DEF n, a, d
<1>3. k \in 0 .. a /\ k \in 0 .. Size /\ d + k <= added
  BY <1>2
<1>4. sink' = sink \o [i \in 1 .. k |-> d + i - 1] /\ sink' \in Seq(Nat)
  BY <1>1, <1>2, <1>3, PassDelivers, PassType
<1>5. /\ pc' = "failed" /\ faults' = faults + 1
      /\ UNCHANGED <<m_buf, m_head, m_tail, m_count, writeError, want, done, filePos, misread, added, removed>>
  BY DEF WriteFails
<1>6. LogInv'
  BY <1>4, <1>5 DEF LogInv, TypeOK
<1>7. Logger!Fail(k)
  BY <1>3, <1>4, <1>5 DEF Logger!Fail, Logger!Arrive, d
<1> QED  BY <1>3, <1>6, <1>7 DEF Logger!Next

\* The end of writeOut keeps the invariant and moves nothing.
LEMMA WriteOutEndStep == ASSUME LogInv, WriteOutEnd PROVE LogInv' /\ UNCHANGED Logger!fifoVars
<1>1. /\ want \in 0 .. Size /\ done \in 0 .. want /\ want <= m_count /\ m_count \in 0 .. Size
      /\ removed \in Nat /\ added = removed + m_count
      /\ m_count' = m_count - done /\ want' = 0 /\ done' = 0 /\ removed' = removed + done
      /\ pc' = "idle" /\ UNCHANGED <<m_buf, m_head, m_tail, writeError, filePos, faults, misread, added, sink>>
  BY DEF LogInv, TypeOK, WriteOutEnd, Released
<1>2. m_count' \in 0 .. Size /\ m_count' - done' = m_count - done /\ removed' + done' = removed + done
      /\ removed' \in Nat /\ added' = removed' + m_count'
  BY <1>1
<1>3. TypeOK'
  BY <1>1, <1>2 DEF LogInv, TypeOK
<1>4. Holds(m_buf', m_tail', removed' + done', m_count' - done')
  BY <1>1, <1>2 DEF LogInv, Holds
<1> QED  BY <1>1, <1>2, <1>3, <1>4 DEF LogInv, Logger!fifoVars

\* Every step of a logger keeps its invariant and is one of the queue, or none.
LEMMA LogStep == LogInv /\ [LogNext]_vars => LogInv' /\ [Logger!Next]_(Logger!fifoVars)
<1> SUFFICES ASSUME LogInv, [LogNext]_vars PROVE LogInv' /\ [Logger!Next]_(Logger!fifoVars)
  OBVIOUS
<1>1. ASSUME NEW n \in Lengths, MemcpyIn(n) /\ UNCHANGED writeError PROVE LogInv' /\ Logger!Next
  <2>1. writeError' \in {0, 1}
    BY <1>1 DEF LogInv, TypeOK
  <2> QED  BY <1>1, <2>1, MemcpyInStep
<1>2. ASSUME NEW n \in Lengths, RingWrite(n) PROVE LogInv' /\ Logger!Next
  <2>1. writeError' \in {0, 1}
    BY <1>2 DEF RingWrite, LogInv, TypeOK
  <2> QED  BY <1>2, <2>1, MemcpyInStep DEF RingWrite
<1>3. CASE UNCHANGED vars
  BY <1>3 DEF vars, main, LogInv, TypeOK, Holds, Logger!fifoVars
<1> QED
  BY <1>1, <1>2, <1>3, WriteOutStarts, WritePieceStep, WriteFailsStep, WriteOutEndStep
     DEF LogNext, WriteOutStep

-----------------------------------------------------------------------------
(* The player.                                                             *)

\* The ring and the file are in step while no read has failed half way.
InStep ==
  /\ Holds(m_buf, m_tail, removed, m_count + done)
  /\ filePos < MaxBytes \/ done > 0 =>
       /\ m_head = Advance(m_tail, m_count + done)
       /\ filePos = removed + m_count + done

PlayInv ==
  /\ TypeOK
  /\ pc \in {"idle", "readIn"}
  /\ pc = "idle" => want = 0
  /\ m_count + want <= Size
  /\ filePos <= MaxBytes
  /\ misread = 0 => InStep

\* The facts every step of the player starts from.
LEMMA PlayFacts ==
  ASSUME PlayInv
  PROVE  /\ TypeOK /\ m_buf \in [Cells -> Nat] /\ sink \in Seq(Nat)
         /\ m_head \in Cells /\ m_tail \in Cells
         /\ m_count \in 0 .. Size /\ want \in 0 .. Size /\ done \in 0 .. want
         /\ m_count + want <= Size /\ m_count + done \in 0 .. Size
         /\ filePos \in Nat /\ added \in Nat /\ removed \in Nat /\ misread \in {0, 1}
         /\ MaxBytes \in Nat /\ filePos <= MaxBytes
BY BoundsAssumption DEF PlayInv, TypeOK

\* The first state satisfies the invariant of the player.
LEMMA PlayInit == Init => PlayInv
<1> SUFFICES ASSUME Init PROVE PlayInv
  OBVIOUS
<1>1. TypeOK
  BY DEF Init, TypeOK, Cells
<1>2. /\ m_head = 0 /\ m_tail = 0 /\ m_count = 0 /\ done = 0 /\ want = 0 /\ pc = "idle"
      /\ filePos = 0 /\ removed = 0 /\ misread = 0
  BY DEF Init
<1> QED  BY <1>1, <1>2, BoundsAssumption DEF PlayInv, InStep, Advance, Holds

\* MemcpyOut keeps the invariant and is a step of the abstract queue.
LEMMA MemcpyOutStep ==
  ASSUME PlayInv, NEW n \in Lengths, MemcpyOut(n)
  PROVE  PlayInv' /\ (misread = 0 => Player!Next)
<1> DEFINE moved == MinSize(n, m_count)
           a == m_count + done
<1>0. /\ TypeOK /\ m_buf \in [Cells -> Nat] /\ sink \in Seq(Nat)
      /\ m_head \in Cells /\ m_tail \in Cells
      /\ m_count \in 0 .. Size /\ want \in 0 .. Size /\ done \in 0 .. want
      /\ m_count + want <= Size /\ m_count + done \in 0 .. Size
      /\ filePos \in Nat /\ added \in Nat /\ removed \in Nat /\ misread \in {0, 1}
      /\ MaxBytes \in Nat /\ filePos <= MaxBytes
  BY PlayFacts
<1>1. /\ Pass(moved) /\ m_tail' = Advance(m_tail, moved) /\ m_count' = m_count - moved
      /\ removed' = removed + moved
      /\ UNCHANGED <<m_buf, m_head, writeError, pc, want, done, filePos, faults, misread, added>>
  BY DEF MemcpyOut, main
<1>2. moved \in 0 .. m_count
  <2>1. n \in Nat /\ m_count \in Nat
    BY <1>0 DEF Lengths
  <2>2. moved \in Nat /\ moved <= m_count
    BY <2>1, MinFacts
  <2> QED  BY <2>1, <2>2
<1> HIDE DEF moved
<1>3. a \in 0 .. Size /\ moved \in 0 .. a /\ a - moved = m_count' + done' /\ a - moved \in 0 .. Size
  BY <1>1, <1>2, <1>0
<1>4. sink' \in Seq(Nat) /\ m_tail' \in Cells
  <2>1. moved \in 0 .. Size
    BY <1>2, <1>0
  <2>2. sink' \in Seq(Nat)
    BY <1>0, <1>1, <2>1, PassType
  <2> QED  BY <1>0, <1>1, <2>1, <2>2, AdvanceType
<1>5. m_count' \in 0 .. Size /\ m_count' + want' <= Size /\ removed' \in Nat
  BY <1>1, <1>2, <1>0
<1>6. TypeOK'
  BY <1>1, <1>4, <1>5, <1>0 DEF TypeOK
<1>7. ASSUME misread = 0 PROVE InStep' /\ sink' = sink \o [k \in 1 .. moved |-> removed + k - 1]
  <2>1. InStep
    BY <1>7 DEF PlayInv
  <2>2. sink' = sink \o [k \in 1 .. moved |-> removed + k - 1]
        /\ Holds(m_buf', m_tail', removed + moved, a - moved)
    <3>1. Holds(m_buf, m_tail, removed, a)
      BY <2>1 DEF InStep
    <3> HIDE DEF a
    <3> QED  BY <1>0, <1>1, <1>3, <3>1, PassDelivers, HoldsRest
  <2>3. Advance(m_tail', a - moved) = Advance(m_tail, a)
    <3>1. moved + (a - moved) = a /\ moved + (a - moved) <= Size /\ moved \in 0 .. Size
      BY <1>3
    <3> QED  BY <1>1, <1>3, <3>1, <1>0, AdvanceSum
  <2>4. filePos < MaxBytes \/ done > 0 => m_head = Advance(m_tail, a) /\ filePos = removed + a
    BY <1>0, <2>1 DEF InStep
  <2>5. removed' + m_count' + done' = removed + a
    BY <1>0, <1>1, <1>2
  <2>6. Advance(m_tail', m_count' + done') = Advance(m_tail, a)
        /\ Holds(m_buf', m_tail', removed', m_count' + done')
    BY <1>1, <1>3, <2>2, <2>3
  <2> HIDE DEF a
  <2> QED  BY <1>1, <2>2, <2>4, <2>5, <2>6 DEF InStep
<1>9. PlayInv'
  BY <1>1, <1>5, <1>6, <1>7, <1>0 DEF PlayInv
<1>10. misread = 0 => Player!Deliver(moved)
  <2>1. removed + moved <= removed + m_count /\ removed' + m_count' = removed + m_count
    BY <1>0, <1>1, <1>2
  <2> QED  BY <1>1, <1>7, <2>1 DEF Player!Deliver, Player!Arrive
<1>11. moved \in 0 .. Size
  BY <1>3
<1> QED  BY <1>9, <1>10, <1>11 DEF Player!Next

\* The beginning of readIn keeps the invariant and moves nothing.
LEMMA ReadInStarts ==
  ASSUME PlayInv, NEW n \in Lengths, ReadIn(n)
  PROVE  PlayInv' /\ UNCHANGED Player!fifoVars
<1>0. /\ TypeOK /\ m_buf \in [Cells -> Nat] /\ sink \in Seq(Nat)
      /\ m_head \in Cells /\ m_tail \in Cells
      /\ m_count \in 0 .. Size /\ want \in 0 .. Size /\ done \in 0 .. want
      /\ m_count + want <= Size /\ m_count + done \in 0 .. Size
      /\ filePos \in Nat /\ added \in Nat /\ removed \in Nat /\ misread \in {0, 1}
      /\ MaxBytes \in Nat /\ filePos <= MaxBytes
  BY PlayFacts
<1>1. want' \in 0 .. Size - m_count /\ done' = 0 /\ done = 0
  <2>1. n \in Nat /\ Size - m_count \in Nat
    BY <1>0 DEF Lengths
  <2>2. want' = MinSize(n, Size - m_count) /\ done' = 0 /\ pc = "idle"
    BY DEF ReadIn, Fitting
  <2> QED  BY <2>1, <2>2, MinFacts DEF PlayInv, TypeOK
<1>2. TypeOK'
  BY <1>1, <1>0 DEF ReadIn, TypeOK
<1>3. InStep => InStep'
  BY <1>1 DEF ReadIn, InStep
<1> QED  BY <1>1, <1>2, <1>3, <1>0 DEF ReadIn, PlayInv, Player!fifoVars

\* A piece of readIn is not empty and no more than is wanted.
LEMMA PieceFacts ==
  ASSUME PlayInv, pc = "readIn", done # want
  PROVE  Piece \in 1 .. Size /\ done + Piece <= want
<1>0. /\ TypeOK /\ m_buf \in [Cells -> Nat] /\ sink \in Seq(Nat)
      /\ m_head \in Cells /\ m_tail \in Cells
      /\ m_count \in 0 .. Size /\ want \in 0 .. Size /\ done \in 0 .. want
      /\ m_count + want <= Size /\ m_count + done \in 0 .. Size
      /\ filePos \in Nat /\ added \in Nat /\ removed \in Nat /\ misread \in {0, 1}
      /\ MaxBytes \in Nat /\ filePos <= MaxBytes
  BY PlayFacts
<1>1. Size - m_head \in Nat \ {0} /\ want - done \in Nat \ {0}
  BY <1>0 DEF Cells
<1> QED  BY <1>1, <1>0 DEF Piece, MinSize

\* A piece that is read keeps the invariant, and shows nothing yet.
LEMMA ReadPieceStep == ASSUME PlayInv, ReadPiece PROVE PlayInv' /\ UNCHANGED Player!fifoVars
<1> DEFINE a == m_count + done
<1>0. /\ TypeOK /\ m_buf \in [Cells -> Nat] /\ sink \in Seq(Nat)
      /\ m_head \in Cells /\ m_tail \in Cells
      /\ m_count \in 0 .. Size /\ want \in 0 .. Size /\ done \in 0 .. want
      /\ m_count + want <= Size /\ m_count + done \in 0 .. Size
      /\ filePos \in Nat /\ added \in Nat /\ removed \in Nat /\ misread \in {0, 1}
      /\ MaxBytes \in Nat /\ filePos <= MaxBytes
  BY PlayFacts
<1>1. Piece \in 1 .. Size /\ done + Piece <= want /\ pc = "readIn"
  BY PieceFacts DEF ReadPiece
<1>2. /\ filePos + Piece <= MaxBytes /\ filePos' = filePos + Piece
      /\ Store(Piece, filePos) /\ m_head' = Advance(m_head, Piece) /\ done' = done + Piece
      /\ UNCHANGED <<m_tail, m_count, writeError, pc, want, faults, misread, added, removed, sink>>
  BY DEF ReadPiece
<1>3. filePos < MaxBytes
  BY <1>1, <1>2, <1>0
<1>5. a \in 0 .. Size /\ a + Piece \in 0 .. Size /\ a + Piece = m_count' + done'
  BY <1>1, <1>2, <1>0
<1>6. TypeOK'
  <2>1. m_buf' \in [Cells -> Nat]
    BY <1>0, <1>1, <1>2, StoreType
  <2>2. m_head' \in Cells
    BY <1>0, <1>1, <1>2, AdvanceType
  <2> QED  BY <1>1, <1>2, <2>1, <2>2, <1>0 DEF TypeOK
<1>7. ASSUME misread = 0 PROVE InStep'
  <2>1. m_head = Advance(m_tail, a) /\ filePos = removed + a /\ Holds(m_buf, m_tail, removed, a)
    BY <1>3, <1>7, <1>0 DEF PlayInv, InStep
  <2>2. Holds(m_buf', m_tail', removed', a + Piece)
    <3>1. Store(Piece, removed + a) /\ Piece \in 0 .. Size /\ a + Piece <= Size
      BY <1>1, <1>2, <1>5, <2>1
    <3> HIDE DEF a
    <3> QED  BY <1>0, <1>2, <1>5, <2>1, <3>1, StoreHolds
  <2>3. m_head' = Advance(m_tail, a + Piece)
    BY <1>1, <1>2, <1>5, <1>0, <2>1, AdvanceSum
  <2>4. filePos' = removed' + m_count' + done'
    BY <1>1, <1>2, <1>0, <2>1
  <2> QED  BY <1>2, <1>5, <2>2, <2>3, <2>4 DEF InStep
<1> QED  BY <1>1, <1>2, <1>6, <1>7, <1>0 DEF PlayInv, Player!fifoVars

\* A short read keeps the invariant, and shows nothing yet.
LEMMA ReadShortStep == ASSUME PlayInv, ReadShort PROVE PlayInv' /\ UNCHANGED Player!fifoVars
<1> DEFINE a == m_count + done
           left == MaxBytes - filePos
<1>0. /\ TypeOK /\ m_buf \in [Cells -> Nat] /\ sink \in Seq(Nat)
      /\ m_head \in Cells /\ m_tail \in Cells
      /\ m_count \in 0 .. Size /\ want \in 0 .. Size /\ done \in 0 .. want
      /\ m_count + want <= Size /\ m_count + done \in 0 .. Size
      /\ filePos \in Nat /\ added \in Nat /\ removed \in Nat /\ misread \in {0, 1}
      /\ MaxBytes \in Nat /\ filePos <= MaxBytes
  BY PlayFacts
<1>1. /\ filePos + Piece > MaxBytes /\ filePos' = MaxBytes /\ Store(left, filePos)
      /\ added' = added + done /\ pc' = "idle" /\ want' = 0 /\ done' = 0
      /\ UNCHANGED <<m_head, m_tail, m_count, writeError, faults, misread, removed, sink>>
  BY DEF ReadShort
<1>2. Piece \in 1 .. Size /\ done + Piece <= want
  BY PieceFacts DEF ReadShort
<1>3. a \in 0 .. Size /\ left \in 0 .. Size /\ a + left <= Size
  BY <1>1, <1>2, <1>0
<1>7. TypeOK'
  <2>1. m_buf' \in [Cells -> Nat]
    BY <1>0, <1>1, <1>3, StoreType
  <2> QED  BY <1>1, <2>1, <1>0 DEF TypeOK
<1>8. ASSUME misread = 0 PROVE InStep'
  <2>0. InStep
    BY <1>8 DEF PlayInv
  <2>1. Holds(m_buf', m_tail, removed, a)
    <3>1. CASE filePos < MaxBytes
      <4>1. Store(left, removed + a) /\ m_head = Advance(m_tail, a) /\ Holds(m_buf, m_tail, removed, a)
        BY <1>1, <2>0, <3>1, <1>0 DEF InStep
      <4> HIDE DEF left
      <4>2. Holds(m_buf', m_tail, removed, a + left)
        BY <1>3, <4>1, <1>0, StoreHolds
      <4>3. \A i \in 0 .. a - 1 : i \in 0 .. (a + left) - 1
        BY <1>3
      <4> QED  BY <4>2, <4>3 DEF Holds
    <3>2. CASE filePos = MaxBytes
      <4>1. left = 0
        BY <3>2, <1>0
      <4>2. \A c \in Cells : ~(Offset(m_head, c) < left)
        BY <4>1, <1>0 DEF Offset, Cells
      <4>3. m_buf' = m_buf
        BY <1>0, <1>1, <4>2 DEF Store
      <4> QED  BY <2>0, <4>3 DEF InStep
    <3> QED  BY <3>1, <3>2, <1>0
  <2>2. Holds(m_buf', m_tail', removed', m_count' + done')
    <3>1. \A i \in 0 .. (m_count' + done') - 1 : i \in 0 .. a - 1
      BY <1>0, <1>1
    <3> HIDE DEF a
    <3> QED  BY <1>1, <2>1, <3>1 DEF Holds
  <2> QED  BY <1>1, <2>2, <1>0 DEF InStep
<1> QED  BY <1>1, <1>7, <1>8, <1>0 DEF PlayInv, Player!fifoVars

\* A read that fails keeps the invariant: it moves nothing, or there is nothing more to keep.
LEMMA ReadFailsStep == ASSUME PlayInv, ReadFails PROVE PlayInv' /\ Player!Next
<1>0. /\ TypeOK /\ m_buf \in [Cells -> Nat] /\ sink \in Seq(Nat)
      /\ m_head \in Cells /\ m_tail \in Cells
      /\ m_count \in 0 .. Size /\ want \in 0 .. Size /\ done \in 0 .. want
      /\ m_count + want <= Size /\ m_count + done \in 0 .. Size
      /\ filePos \in Nat /\ added \in Nat /\ removed \in Nat /\ misread \in {0, 1}
      /\ MaxBytes \in Nat /\ filePos <= MaxBytes
  BY PlayFacts
<1>1. PICK k \in 0 .. MinSize(Piece, MaxBytes - filePos) :
        /\ Store(k, filePos) /\ filePos' = filePos + k
        /\ misread' = IF k > 0 \/ done > 0 THEN 1 ELSE misread
  BY DEF ReadFails
<1>2. /\ pc' = "idle" /\ faults' = faults + 1 /\ added' = added + done /\ want' = 0 /\ done' = 0
      /\ UNCHANGED <<m_head, m_tail, m_count, writeError, removed, sink>>
  BY DEF ReadFails
<1>3. k \in Nat /\ k <= MaxBytes - filePos
  <2>1. Piece \in Nat /\ MaxBytes - filePos \in Nat
    BY PieceFacts, <1>0 DEF ReadFails
  <2>2. MinSize(Piece, MaxBytes - filePos) \in Nat /\ MinSize(Piece, MaxBytes - filePos) <= MaxBytes - filePos
    BY <2>1, MinFacts
  <2> QED  BY <2>1, <2>2
<1>4. m_buf' \in [Cells -> Nat]
  BY <1>0, <1>1, <1>3, StoreType
<1>5. TypeOK'
  BY <1>0, <1>1, <1>2, <1>3, <1>4 DEF TypeOK
<1>6. ASSUME misread' = 0 PROVE InStep'
  <2>1. k = 0 /\ done = 0 /\ misread = 0 /\ InStep
    BY <1>0, <1>1, <1>3, <1>6 DEF PlayInv
  <2>2. \A c \in Cells : ~(Offset(m_head, c) < k)
    BY <1>0, <2>1 DEF Offset, Cells
  <2>3. m_buf' = m_buf /\ filePos' = filePos
    BY <1>0, <1>1, <2>1, <2>2 DEF Store
  <2> QED  BY <1>2, <2>1, <2>3 DEF InStep
<1>7. Player!Fail(0)
  <2>1. [i \in 1 .. 0 |-> removed + i - 1] = <<>>
    OBVIOUS
  <2>2. sink' = sink \o [i \in 1 .. 0 |-> removed + i - 1]
    BY <1>0, <1>2, <2>1
  <2>3. removed + 0 <= removed + m_count
    BY <1>0
  <2> QED  BY <1>2, <2>2, <2>3 DEF Player!Fail, Player!Arrive
<1>8. 0 \in 0 .. Size
  BY SizeAssumption
<1> QED  BY <1>0, <1>1, <1>2, <1>3, <1>5, <1>6, <1>7, <1>8 DEF PlayInv, Player!Next

\* The end of readIn keeps the invariant and shows what was read.
LEMMA ReadInEndStep == ASSUME PlayInv, ReadInEnd PROVE PlayInv' /\ Player!Next
<1>0. /\ TypeOK /\ m_buf \in [Cells -> Nat] /\ sink \in Seq(Nat)
      /\ m_head \in Cells /\ m_tail \in Cells
      /\ m_count \in 0 .. Size /\ want \in 0 .. Size /\ done \in 0 .. want
      /\ m_count + want <= Size /\ m_count + done \in 0 .. Size
      /\ filePos \in Nat /\ added \in Nat /\ removed \in Nat /\ misread \in {0, 1}
      /\ MaxBytes \in Nat /\ filePos <= MaxBytes
  BY PlayFacts
<1>1. /\ done = want /\ m_count' = m_count + done /\ added' = added + done
      /\ pc' = "idle" /\ want' = 0 /\ done' = 0
      /\ UNCHANGED <<m_buf, m_head, m_tail, writeError, filePos, faults, misread, removed, sink>>
  BY DEF ReadInEnd
<1>2. m_count' \in 0 .. Size /\ m_count' + done' = m_count + done
  BY <1>1, <1>0
<1>3. TypeOK'
  BY <1>1, <1>2, <1>0 DEF TypeOK
<1>4. misread = 0 => InStep'
  <2>1. removed' + m_count' + done' = removed + m_count + done
    BY <1>0, <1>1
  <2> QED  BY <1>1, <1>2, <2>1, <1>0 DEF PlayInv, InStep
<1>5. PlayInv'
  BY <1>1, <1>2, <1>3, <1>4, <1>0 DEF PlayInv
<1>6. Player!Accept(done)
  <2>1. removed + m_count + done <= removed + Size /\ removed' + m_count' = removed + m_count + done
    BY <1>1, <1>0
  <2> QED  BY <1>1, <2>1 DEF Player!Accept
<1>7. done \in 0 .. Size
  BY <1>0
<1> QED  BY <1>5, <1>6, <1>7 DEF Player!Next

\* Every step of a player keeps its invariant and is one of the queue, or none.
LEMMA PlayStep ==
  PlayInv /\ [PlayNext]_vars => PlayInv' /\ [misread = 0 => Player!Next]_(Player!fifoVars)
<1> SUFFICES ASSUME PlayInv, [PlayNext]_vars
             PROVE  PlayInv' /\ [misread = 0 => Player!Next]_(Player!fifoVars)
  OBVIOUS
<1>1. CASE UNCHANGED vars
  BY <1>1 DEF vars, main, PlayInv, InStep, TypeOK, Player!fifoVars
<1> QED
  BY <1>1, MemcpyOutStep, ReadInStarts, ReadPieceStep, ReadShortStep, ReadFailsStep, ReadInEndStep
     DEF PlayNext, ReadInStep

-----------------------------------------------------------------------------
(* Both.                                                                   *)

RingInv ==
  /\ player \in {0, 1}
  /\ player = 0 => LogInv
  /\ player = 1 => PlayInv

\* A step of either buffer is one of the buffer of the program that runs.
LEMMA LoggerFifo ==
  ASSUME player = 0, player' = 0, [Logger!Next]_(Logger!fifoVars)
  PROVE  [misread = 0 => Fifo!Next]_(Fifo!fifoVars)
<1> DEFINE accepted == IF player = 1 THEN removed + m_count ELSE added
           delivered == IF player = 1 THEN removed ELSE removed + done
<1>1. accepted = added /\ accepted' = added' /\ delivered = removed + done /\ delivered' = (removed + done)'
  OBVIOUS
<1>2. CASE UNCHANGED Logger!fifoVars
  BY <1>1, <1>2 DEF Logger!fifoVars, Fifo!fifoVars
<1>3. ASSUME NEW n \in 0 .. Size, Logger!Accept(n) PROVE Fifo!Accept(n)
  BY <1>1, <1>3 DEF Logger!Accept, Fifo!Accept
<1>4. ASSUME NEW n \in 0 .. Size, Logger!Deliver(n) PROVE Fifo!Deliver(n)
  BY <1>1, <1>4 DEF Logger!Deliver, Fifo!Deliver, Logger!Arrive, Fifo!Arrive
<1>5. ASSUME NEW n \in 0 .. Size, Logger!Fail(n) PROVE Fifo!Fail(n)
  BY <1>1, <1>5 DEF Logger!Fail, Fifo!Fail, Logger!Arrive, Fifo!Arrive
<1> QED  BY <1>2, <1>3, <1>4, <1>5 DEF Logger!Next, Fifo!Next

\* A step of the player is one of the queue that both use.
LEMMA PlayerFifo ==
  ASSUME player = 1, player' = 1, [misread = 0 => Player!Next]_(Player!fifoVars)
  PROVE  [misread = 0 => Fifo!Next]_(Fifo!fifoVars)
<1> DEFINE accepted == IF player = 1 THEN removed + m_count ELSE added
           delivered == IF player = 1 THEN removed ELSE removed + done
<1>1. accepted = removed + m_count /\ accepted' = (removed + m_count)'
      /\ delivered = removed /\ delivered' = removed'
  OBVIOUS
<1>2. CASE UNCHANGED Player!fifoVars
  BY <1>1, <1>2 DEF Player!fifoVars, Fifo!fifoVars
<1>3. ASSUME NEW n \in 0 .. Size, Player!Accept(n) PROVE Fifo!Accept(n)
  BY <1>1, <1>3 DEF Player!Accept, Fifo!Accept
<1>4. ASSUME NEW n \in 0 .. Size, Player!Deliver(n) PROVE Fifo!Deliver(n)
  BY <1>1, <1>4 DEF Player!Deliver, Fifo!Deliver, Player!Arrive, Fifo!Arrive
<1>5. ASSUME NEW n \in 0 .. Size, Player!Fail(n) PROVE Fifo!Fail(n)
  BY <1>1, <1>5 DEF Player!Fail, Fifo!Fail, Player!Arrive, Fifo!Arrive
<1> QED  BY <1>2, <1>3, <1>4, <1>5 DEF Player!Next, Fifo!Next

\* Every step keeps the invariant and is one of the queue, or none.
LEMMA RingStep ==
  ASSUME RingInv, [Next]_<<vars, player>>
  PROVE  RingInv' /\ [misread = 0 => Fifo!Next]_(Fifo!fifoVars)
<1>1. player' = player
  BY DEF Next
<1>2. CASE player = 0
  <2>1. LogInv /\ [LogNext]_vars
    BY <1>2 DEF RingInv, Next
  <2>2. LogInv' /\ [Logger!Next]_(Logger!fifoVars)
    BY <2>1, LogStep
  <2> QED  BY <1>1, <1>2, <2>2, LoggerFifo DEF RingInv
<1>3. CASE player = 1
  <2>1. PlayInv /\ [PlayNext]_vars
    BY <1>3 DEF RingInv, Next
  <2>2. PlayInv' /\ [misread = 0 => Player!Next]_(Player!fifoVars)
    BY <2>1, PlayStep
  <2> QED  BY <1>1, <1>3, <2>2, PlayerFifo DEF RingInv
<1> QED  BY <1>2, <1>3 DEF RingInv

\* The invariants of the logger and of the player hold in every state.
THEOREM RingInvariance == Spec => []RingInv
<1>1. Init => RingInv
  BY LogInit, PlayInit DEF RingInv, Init
<1>2. RingInv /\ [Next]_<<vars, player>> => RingInv'
  BY RingStep
<1> QED  BY <1>1, <1>2, PTL DEF Spec

\* Every byte memcpyIn or write accepted reaches the file, in order and once, however the
\* handler interrupts writeOut, but for the parts that failing file writes leave and that are
\* written again; what memcpyOut takes is the file, in order, up to the first readIn whose file
\* read fails after it moved anything.
THEOREM RingIsFifo == Spec => InOrder
<1>1. Init => Fifo!Init
  BY DEF Init, Fifo!Init
<1>2. RingInv /\ [Next]_<<vars, player>> => [misread = 0 => Fifo!Next]_(Fifo!fifoVars)
  BY RingStep
<1> QED  BY <1>1, <1>2, RingInvariance, PTL DEF Spec, InOrder

\* bytesUsed() of the logger is between calls what memcpyIn and write said they put in,
\* less what writeOut said it took out.
THEOREM LoggerAccounts == Spec => [](player = 0 /\ pc = "idle" => m_count = added - removed)
<1>1. RingInv => (player = 0 /\ pc = "idle" => m_count = added - removed)
  <2> SUFFICES ASSUME RingInv, player = 0, pc = "idle" PROVE m_count = added - removed
    OBVIOUS
  <2>1. LogInv
    BY DEF RingInv
  <2>2. want = 0 /\ done = 0 /\ done \in Int
    BY <2>1 DEF LogInv, TypeOK
  <2>3. added = removed + m_count
    BY <2>1 DEF LogInv
  <2>4. added \in Int /\ removed \in Int /\ m_count \in Int
    BY <2>1, SizeAssumption DEF LogInv, TypeOK
  <2>5. added = removed + m_count
    BY <2>2, <2>3, <2>4
  <2> QED  BY <2>4, <2>5
<1> QED  BY <1>1, RingInvariance, PTL
=============================================================================
