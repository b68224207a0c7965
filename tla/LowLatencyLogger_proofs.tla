----------------------- MODULE LowLatencyLogger_proofs -----------------------
(***************************************************************************)
(* For every size of a block, number of buffers and length of the file:    *)
(* the log has just the blocks that were written, also after a reset, and  *)
(* accounts for every tick; its text has every sample at its tick.         *)
(*                                                                         *)
(* The ticks of a log are added up by a recursive function, and its text   *)
(* is joined by one: the first lemmas say what they give.  The text of a   *)
(* file that is read in parts is the text of the file.  The binary search of a recovered file is     *)
(* right because the blocks in use follow one another from the first.      *)
(***************************************************************************)
EXTENDS LowLatencyLogger, SequenceTheorems, WellFoundedInduction, TLAPS

-----------------------------------------------------------------------------
(* The ticks of a file.                                                    *)
\* The ways to read a log.  Those that read several blocks at once are not this sketch's.
Reader == INSTANCE LogReader WITH FifoDim <- 1
\* The blocks of a log.
Blocks == [overrun : Nat, data : Seq(Int)]
\* The ticks a block accounts for.
TicksOf(b) == b.overrun + Len(b.data)

\* The function that adds up the first n blocks of f.
Sums(f, n, w) == w = [k \in 0 .. n |-> IF k = 0 THEN 0 ELSE w[k - 1] + f[k].overrun + Len(f[k].data)]
\* What it gives.
Upto(f, n) == (CHOOSE w : Sums(f, n, w))[n]

\* A block counts a number of ticks.
LEMMA BlockTicks == ASSUME NEW b \in Blocks PROVE TicksOf(b) \in Nat
BY DEF TicksOf, Blocks

\* Induction on numbers, for a set.
LEMMA Induction ==
  ASSUME NEW S, 0 \in S, \A n \in Nat : n \in S => n + 1 \in S
  PROVE  Nat \subseteq S
<1> DEFINE R == {ss \in Nat \X Nat : ss[1] < ss[2]}
<1>1. IsWellFoundedOn(R, Nat)
  BY NatLessThanWellFounded DEF OpToRel
<1> HIDE DEF R
<1> SUFFICES ASSUME Nat \ S # {} PROVE FALSE
  OBVIOUS
<1>2. PICK n \in Nat \ S : \A m \in Nat \ S : ~ (<<m, n>> \in R)
  <2>1. Nat \ S \subseteq Nat
    OBVIOUS
  <2> QED  BY <1>1, <2>1, WFMin
<1>3. \A m \in Nat \ S : ~ (m < n)
  BY <1>2 DEF R
<1>4. n # 0 /\ n - 1 \in Nat /\ n - 1 \in S
  BY <1>3
<1> QED  BY <1>4

\* There are sums of every length.
LEMMA SumsExist ==
  ASSUME NEW f, NEW n \in Nat
  PROVE  \E w : Sums(f, n, w)
<1> DEFINE S == {m \in Nat : \E w : Sums(f, m, w)}
<1>1. 0 \in S
  <2>1. Sums(f, 0, [k \in 0 .. 0 |-> 0])
    BY DEF Sums
  <2> QED  BY <2>1
<1>2. ASSUME NEW m \in Nat, m \in S PROVE m + 1 \in S
  <2>1. PICK w : Sums(f, m, w)
    BY <1>2
  <2> DEFINE v == [k \in 0 .. m + 1 |-> IF k \in 0 .. m THEN w[k]
                                        ELSE w[m] + f[m + 1].overrun + Len(f[m + 1].data)]
  <2>2. \A k \in 0 .. m : w[k] = IF k = 0 THEN 0 ELSE w[k - 1] + f[k].overrun + Len(f[k].data)
    BY <2>1 DEF Sums
  <2>3. \A k \in 0 .. m + 1 : v[k] = IF k = 0 THEN 0 ELSE v[k - 1] + f[k].overrun + Len(f[k].data)
    <3> TAKE k \in 0 .. m + 1
    <3>1. CASE k = 0
      BY <3>1, <2>2
    <3>2. CASE k \in 1 .. m
      <4>1. v[k] = w[k] /\ v[k - 1] = w[k - 1] /\ k # 0
        BY <3>2
      <4> QED  BY <4>1, <2>2, <3>2
    <3>3. CASE k = m + 1
      <4>1. v[k] = w[m] + f[k].overrun + Len(f[k].data) /\ v[k - 1] = w[m] /\ k # 0
        BY <3>3
      <4> QED  BY <4>1
    <3> QED  BY <3>1, <3>2, <3>3
  <2>4. v = [k \in 0 .. m + 1 |-> IF k = 0 THEN 0 ELSE v[k - 1] + f[k].overrun + Len(f[k].data)]
    <3> DEFINE u == [k \in 0 .. m + 1 |-> IF k = 0 THEN 0 ELSE v[k - 1] + f[k].overrun + Len(f[k].data)]
    <3>1. \A k \in 0 .. m + 1 : v[k] = u[k]
      BY <2>3
    <3> HIDE DEF v
    <3>2. DOMAIN u = 0 .. m + 1
      OBVIOUS
    <3>3. u = [k \in 0 .. m + 1 |-> u[k]]
      OBVIOUS
    <3>4. v = [k \in 0 .. m + 1 |-> v[k]]
      BY DEF v
    <3> HIDE DEF u
    <3>5. v = u
      BY <3>1, <3>3, <3>4
    <3> QED  BY <3>5 DEF u
  <2>5. Sums(f, m + 1, v)
    BY <2>4 DEF Sums
  <2> QED  BY <2>5, <1>2
<1> HIDE DEF S
<1>3. Nat \subseteq S
  BY <1>1, <1>2, Induction
<1> QED  BY <1>3 DEF S

\* The first n blocks count a number of ticks, and the next block its own.
LEMMA UptoStep ==
  ASSUME NEW f \in Seq(Blocks)
  PROVE  /\ Upto(f, 0) = 0
         /\ \A n \in Nat : n < Len(f) => Upto(f, n) \in Nat /\ Upto(f, n + 1) = Upto(f, n) + TicksOf(f[n + 1])
         /\ \A n \in 0 .. Len(f) : Upto(f, n) \in Nat
<1> DEFINE w(n) == CHOOSE w : Sums(f, n, w)
<1>1. \A n \in Nat : Sums(f, n, w(n))
  BY SumsExist
<1>2. \A n \in Nat : Upto(f, n) = w(n)[n]
  BY DEF Upto
<1>3. \A n \in Nat : \A k \in 0 .. n :
        w(n)[k] = IF k = 0 THEN 0 ELSE w(n)[k - 1] + f[k].overrun + Len(f[k].data)
  <2> TAKE n \in Nat
  <2>1. Sums(f, n, w(n))
    BY <1>1
  <2> HIDE DEF w
  <2> QED  BY <2>1 DEF Sums
<1> HIDE DEF w
<1>4. \A k \in 1 .. Len(f) : f[k].overrun \in Nat /\ Len(f[k].data) \in Nat /\ TicksOf(f[k]) \in Nat
                             /\ TicksOf(f[k]) = f[k].overrun + Len(f[k].data)
  <2> TAKE k \in 1 .. Len(f)
  <2>1. f[k] \in Blocks
    OBVIOUS
  <2> QED  BY <2>1 DEF TicksOf, Blocks
\* Two sums agree where both are defined.
<1>5. \A n \in 0 .. Len(f) : \A k \in Nat : k <= n => w(n)[k] = w(k)[k] /\ w(k)[k] \in Nat
  <2> DEFINE S == {k \in Nat : \A n \in 0 .. Len(f) : k <= n => w(n)[k] = w(k)[k] /\ w(k)[k] \in Nat}
  <2>1. 0 \in S
    BY <1>3
  <2>2. ASSUME NEW k \in Nat, k \in S PROVE k + 1 \in S
    <3> SUFFICES ASSUME NEW n \in 0 .. Len(f), k + 1 <= n
                 PROVE  w(n)[k + 1] = w(k + 1)[k + 1] /\ w(k + 1)[k + 1] \in Nat
      OBVIOUS
    <3>1. w(n)[k] = w(k)[k] /\ w(k + 1)[k] = w(k)[k] /\ w(k)[k] \in Nat
      BY <2>2
    <3>2. k + 1 \in 0 .. n /\ k + 1 \in 0 .. k + 1 /\ k + 1 # 0 /\ (k + 1) - 1 = k /\ k + 1 \in 1 .. Len(f) /\ n \in Nat
      OBVIOUS
    <3>3. w(n)[k + 1] = w(n)[k] + f[k + 1].overrun + Len(f[k + 1].data)
      BY <1>3, <3>2
    <3>4. w(k + 1)[k + 1] = w(k + 1)[k] + f[k + 1].overrun + Len(f[k + 1].data)
      BY <1>3, <3>2
    <3>5. w(n)[k + 1] = w(k + 1)[k + 1]
      BY ONLY <3>1, <3>3, <3>4
    <3>6. f[k + 1].overrun \in Nat /\ Len(f[k + 1].data) \in Nat
      BY <3>2, <1>4
    <3>7. \A a, b, d \in Nat : a + b + d \in Nat
      OBVIOUS
    <3>8. w(k + 1)[k] \in Nat
      BY ONLY <3>1, SMTT(30)
    <3> QED  BY ONLY <3>4, <3>5, <3>6, <3>7, <3>8
  <2> HIDE DEF S
  <2>3. Nat \subseteq S
    BY <2>1, <2>2, Induction
  <2> QED  BY <2>3 DEF S
<1>6. Upto(f, 0) = 0
  BY <1>2, <1>3
<1>7. ASSUME NEW n \in Nat, n < Len(f)
      PROVE  Upto(f, n) \in Nat /\ Upto(f, n + 1) = Upto(f, n) + TicksOf(f[n + 1])
  <2>1. n + 1 \in 0 .. Len(f) /\ n + 1 \in 0 .. n + 1 /\ n + 1 # 0 /\ (n + 1) - 1 = n /\ n + 1 \in 1 .. Len(f) /\ n <= n + 1
    BY <1>7
  <2>2. w(n + 1)[n + 1] = w(n + 1)[n] + f[n + 1].overrun + Len(f[n + 1].data)
    BY <1>3, <2>1
  <2>3. w(n + 1)[n] = w(n)[n] /\ w(n)[n] \in Nat
    BY <1>5, <2>1
  <2> QED  BY <2>1, <2>2, <2>3, <1>2, <1>4
<1>8. \A n \in 0 .. Len(f) : Upto(f, n) \in Nat
  BY <1>2, <1>5
<1> QED  BY <1>6, <1>7, <1>8

\* The sums of a file depend on its blocks only.
LEMMA UptoSame ==
  ASSUME NEW f \in Seq(Blocks), NEW g \in Seq(Blocks), NEW n \in Nat, n <= Len(f), n <= Len(g),
         \A k \in 1 .. n : f[k] = g[k]
  PROVE  Upto(f, n) = Upto(g, n)
<1> DEFINE S == {k \in Nat : k <= n => Upto(f, k) = Upto(g, k)}
<1>1. 0 \in S
  BY UptoStep
<1>2. ASSUME NEW k \in Nat, k \in S PROVE k + 1 \in S
  <2> SUFFICES ASSUME k + 1 <= n PROVE Upto(f, k + 1) = Upto(g, k + 1)
    OBVIOUS
  <2>1. Upto(f, k) = Upto(g, k) /\ k < Len(f) /\ k < Len(g) /\ f[k + 1] = g[k + 1]
    BY <1>2
  <2> QED  BY <2>1, UptoStep
<1> HIDE DEF S
<1>3. Nat \subseteq S
  BY <1>1, <1>2, Induction
<1> QED  BY <1>3 DEF S

\* Ticks is the sum of all blocks.
LEMMA TicksIsUpto == ASSUME NEW f PROVE Ticks(f) = Upto(f, Len(f))
BY DEF Ticks, Upto, Sums

\* What Ticks gives for the files the sketches build.
LEMMA TicksFacts ==
  ASSUME NEW f \in Seq(Blocks)
  PROVE  /\ Ticks(f) \in Nat /\ Ticks(<<>>) = 0
         /\ \A b \in Blocks : Ticks(Append(f, b)) = Ticks(f) + TicksOf(b)
         /\ \A n \in 0 .. Len(f) : Ticks(SubSeq(f, 1, n)) = Upto(f, n)
<1>1. Ticks(f) \in Nat
  BY UptoStep, TicksIsUpto
<1>2. Ticks(<<>>) = 0
  <2>1. <<>> \in Seq(Blocks) /\ Len(<<>>) = 0
    OBVIOUS
  <2> QED  BY <2>1, UptoStep, TicksIsUpto
<1>3. ASSUME NEW b \in Blocks PROVE Ticks(Append(f, b)) = Ticks(f) + TicksOf(b)
  <2> DEFINE g == Append(f, b)
  <2>1. g \in Seq(Blocks) /\ Len(g) = Len(f) + 1 /\ g[Len(f) + 1] = b /\ \A k \in 1 .. Len(f) : g[k] = f[k]
    OBVIOUS
  <2> HIDE DEF g
  <2>2. Upto(g, Len(f)) = Upto(f, Len(f))
    BY <2>1, UptoSame
  <2>3. Upto(g, Len(f) + 1) = Upto(g, Len(f)) + TicksOf(g[Len(f) + 1])
    BY <2>1, UptoStep
  <2>4. Ticks(g) = Ticks(f) + TicksOf(b)
    BY <2>1, <2>2, <2>3, TicksIsUpto
  <2> QED  BY <2>4 DEF g
<1>4. ASSUME NEW n \in 0 .. Len(f) PROVE Ticks(SubSeq(f, 1, n)) = Upto(f, n)
  <2> DEFINE g == SubSeq(f, 1, n)
  <2>1. g \in Seq(Blocks) /\ Len(g) = n /\ \A k \in 1 .. n : g[k] = f[k]
    OBVIOUS
  <2> HIDE DEF g
  <2>2. Upto(g, n) = Upto(f, n)
    BY <2>1, UptoSame
  <2>3. Ticks(g) = Upto(f, n)
    BY <2>1, <2>2, TicksIsUpto
  <2> QED  BY <2>3 DEF g
<1> QED  BY <1>1, <1>2, <1>3, <1>4

-----------------------------------------------------------------------------
(* Sequences.                                                              *)

\* Two sequences with the same items are the same.
LEMMA SeqSame ==
  ASSUME NEW S, NEW s \in Seq(S), NEW t \in Seq(S), Len(s) = Len(t), \A i \in 1 .. Len(s) : s[i] = t[i]
  PROVE  s = t
BY SeqEqual

\* The items of a concatenation.
LEMMA ConcatItems ==
  ASSUME NEW S, NEW s \in Seq(S), NEW t \in Seq(S)
  PROVE  /\ s \o t \in Seq(S) /\ Len(s \o t) = Len(s) + Len(t)
         /\ \A i \in 1 .. Len(s) + Len(t) : (s \o t)[i] = IF i <= Len(s) THEN s[i] ELSE t[i - Len(s)]
BY ConcatProperties

-----------------------------------------------------------------------------
(* Sequences of sequences, joined.                                         *)

\* The function that joins the first n sequences of s.
Joins(s, n, w) == w = [i \in 1 .. n |-> IF i = 1 THEN s[i] ELSE w[i - 1] \o s[i]]
\* What it gives.
Joined(s, n) == CHOOSE w : Joins(s, n, w)

\* Any number of sequences can be joined.
LEMMA JoinsExist ==
  ASSUME NEW s, NEW n \in Nat
  PROVE  \E w : Joins(s, n, w)
<1> DEFINE S == {m \in Nat : \E w : Joins(s, m, w)}
<1>1. 0 \in S
  <2>1. Joins(s, 0, [i \in 1 .. 0 |-> 0])
    BY DEF Joins
  <2> QED  BY <2>1
<1>2. ASSUME NEW m \in Nat, m \in S PROVE m + 1 \in S
  <2>1. PICK w : Joins(s, m, w)
    BY <1>2
  <2> DEFINE v == [i \in 1 .. m + 1 |-> IF i \in 1 .. m THEN w[i] ELSE IF i = 1 THEN s[i] ELSE w[m] \o s[i]]
             u == [i \in 1 .. m + 1 |-> IF i = 1 THEN s[i] ELSE v[i - 1] \o s[i]]
  <2>2. \A i \in 1 .. m : w[i] = IF i = 1 THEN s[i] ELSE w[i - 1] \o s[i]
    BY <2>1 DEF Joins
  <2>3. \A i \in 1 .. m + 1 : v[i] = u[i]
    <3> TAKE i \in 1 .. m + 1
    <3>1. u[i] = IF i = 1 THEN s[i] ELSE v[i - 1] \o s[i]
      OBVIOUS
    <3>2. CASE i \in 1 .. m
      <4>1. v[i] = w[i] /\ (i # 1 => v[i - 1] = w[i - 1])
        BY <3>2
      <4> HIDE DEF v, u
      <4> QED  BY <3>1, <3>2, <4>1, <2>2
    <3>3. CASE i = m + 1
      <4>1. v[i] = (IF i = 1 THEN s[i] ELSE w[m] \o s[i]) /\ (i # 1 => v[i - 1] = w[m])
        BY <3>3
      <4> HIDE DEF v, u
      <4> QED  BY <3>1, <4>1
    <3> QED  BY <3>2, <3>3
  <2>4. v = [i \in 1 .. m + 1 |-> v[i]] /\ u = [i \in 1 .. m + 1 |-> u[i]]
    OBVIOUS
  <2> HIDE DEF v, u
  <2>5. v = u
    BY <2>3, <2>4
  <2>6. Joins(s, m + 1, v)
    BY <2>5 DEF u, Joins
  <2> QED  BY <2>6, <1>2
<1> HIDE DEF S
<1>3. Nat \subseteq S
  BY <1>1, <1>2, Induction
<1> QED  BY <1>3 DEF S

\* What the function gives at each place.
LEMMA JoinedIs ==
  ASSUME NEW s, NEW n \in Nat, NEW i \in 1 .. n
  PROVE  Joined(s, n)[i] = IF i = 1 THEN s[i] ELSE Joined(s, n)[i - 1] \o s[i]
<1>1. Joins(s, n, Joined(s, n))
  BY JoinsExist DEF Joined
<1> DEFINE w == Joined(s, n)
<1> HIDE DEF w
<1>2. w = [k \in 1 .. n |-> IF k = 1 THEN s[k] ELSE w[k - 1] \o s[k]]
  BY <1>1 DEF Joins, w
<1>3. w[i] = IF i = 1 THEN s[i] ELSE w[i - 1] \o s[i]
  BY <1>2
<1> QED  BY <1>3 DEF w

\* Two sequences begin with the same n items.
StartAlike(s, t, n) == n <= Len(s) /\ n <= Len(t) /\ \A k \in 1 .. n : s[k] = t[k]
\* What sequences join to depends on them only.
LEMMA JoinedSame ==
  ASSUME NEW S, NEW s \in Seq(Seq(S)), NEW t \in Seq(Seq(S)), NEW n \in Nat, StartAlike(s, t, n)
  PROVE  \A k \in 1 .. n : Joined(s, Len(s))[k] = Joined(t, Len(t))[k] /\ Joined(s, Len(s))[k] \in Seq(S)
<1> DEFINE P == {k \in Nat : k \in 1 .. n => Joined(s, Len(s))[k] = Joined(t, Len(t))[k] /\ Joined(s, Len(s))[k] \in Seq(S)}
<1>1. 0 \in P
  OBVIOUS
<1>2. ASSUME NEW k \in Nat, k \in P PROVE k + 1 \in P
  <2> SUFFICES ASSUME k + 1 \in 1 .. n
               PROVE  Joined(s, Len(s))[k + 1] = Joined(t, Len(t))[k + 1] /\ Joined(s, Len(s))[k + 1] \in Seq(S)
    OBVIOUS
  <2>1. /\ k + 1 \in 1 .. Len(s) /\ k + 1 \in 1 .. Len(t) /\ (k + 1) - 1 = k /\ Len(s) \in Nat /\ Len(t) \in Nat
        /\ s[k + 1] \in Seq(S) /\ s[k + 1] = t[k + 1]
    BY DEF StartAlike
  <2>2. /\ Joined(s, Len(s))[k + 1] = IF k + 1 = 1 THEN s[k + 1] ELSE Joined(s, Len(s))[(k + 1) - 1] \o s[k + 1]
        /\ Joined(t, Len(t))[k + 1] = IF k + 1 = 1 THEN t[k + 1] ELSE Joined(t, Len(t))[(k + 1) - 1] \o t[k + 1]
    BY <2>1, JoinedIs
  <2>3. CASE k = 0
    BY <2>1, <2>2, <2>3
  <2>4. CASE k # 0
    <3>1. k \in 1 .. n
      BY <2>4
    <3>2. Joined(s, Len(s))[k] = Joined(t, Len(t))[k] /\ Joined(s, Len(s))[k] \in Seq(S)
      BY <1>2, <3>1
    <3>3. Joined(s, Len(s))[k] \o s[k + 1] \in Seq(S)
      BY <2>1, <3>2
    <3> QED  BY <2>1, <2>2, <2>4, <3>2, <3>3
  <2> QED  BY <2>3, <2>4
<1> HIDE DEF P
<1>3. Nat \subseteq P
  BY <1>1, <1>2, Induction
<1> QED  BY <1>3 DEF P

\* Reader!FlattenSeq is the last place of the function.
LEMMA FlattenIs == ASSUME NEW s PROVE Reader!FlattenSeq(s) = IF Len(s) = 0 THEN s ELSE Joined(s, Len(s))[Len(s)]
BY DEF Reader!FlattenSeq, Joined, Joins

\* One more sequence is joined at the end.
LEMMA FlattenFacts ==
  ASSUME NEW S, NEW s \in Seq(Seq(S))
  PROVE  /\ Reader!FlattenSeq(s) \in Seq(S) /\ (Len(s) = 0 => Reader!FlattenSeq(s) = <<>>)
         /\ \A x \in Seq(S) : Reader!FlattenSeq(Append(s, x)) = Reader!FlattenSeq(s) \o x
<1>1. Len(s) = 0 => s = <<>> /\ s \in Seq(S)
  OBVIOUS
<1>2. Len(s) # 0 => Joined(s, Len(s))[Len(s)] \in Seq(S)
  <2>1. StartAlike(s, s, Len(s))
    BY DEF StartAlike
  <2>2. Len(s) \in Nat
    OBVIOUS
  <2>3. \A k \in 1 .. Len(s) : Joined(s, Len(s))[k] \in Seq(S)
    BY <2>1, <2>2, JoinedSame
  <2> QED  BY <2>2, <2>3
<1>3. ASSUME NEW x \in Seq(S) PROVE Reader!FlattenSeq(Append(s, x)) = Reader!FlattenSeq(s) \o x
  <2> DEFINE t == Append(s, x)
  <2>1. t \in Seq(Seq(S)) /\ Len(t) = Len(s) + 1 /\ t[Len(s) + 1] = x /\ \A k \in 1 .. Len(s) : t[k] = s[k]
    OBVIOUS
  <2>2. Len(s) \in Nat
    OBVIOUS
  <2> HIDE DEF t
  <2>3. Joined(t, Len(t))[Len(t)] = IF Len(t) = 1 THEN t[Len(t)] ELSE Joined(t, Len(t))[Len(t) - 1] \o t[Len(t)]
    <3>1. Len(t) \in 1 .. Len(t) /\ Len(t) \in Nat
      BY <2>1, <2>2
    <3> QED  BY <3>1, JoinedIs
  <2>4. Reader!FlattenSeq(t) = Joined(t, Len(t))[Len(t)]
    BY <2>1, <2>2, FlattenIs
  <2>5. CASE Len(s) = 0
    <3>1. Reader!FlattenSeq(t) = x /\ Reader!FlattenSeq(s) = <<>>
      BY <1>1, <2>1, <2>3, <2>4, <2>5, FlattenIs
    <3>2. <<>> \o x = x
      OBVIOUS
    <3> QED  BY <3>1, <3>2 DEF t
  <2>6. CASE Len(s) # 0
    <3>0. Len(s) <= Len(s) /\ Len(s) <= Len(t) /\ \A k \in 1 .. Len(s) : s[k] = t[k]
      BY <2>1, <2>2
    <3>1. \A k \in 1 .. Len(s) : Joined(s, Len(s))[k] = Joined(t, Len(t))[k]
      <4>1. StartAlike(s, t, Len(s))
        BY <3>0 DEF StartAlike
      <4>2. s \in Seq(Seq(S)) /\ t \in Seq(Seq(S)) /\ Len(s) \in Nat
        BY <2>1, <2>2
      <4>3. \A k \in 1 .. Len(s) : Joined(s, Len(s))[k] = Joined(t, Len(t))[k] /\ Joined(s, Len(s))[k] \in Seq(S)
        BY ONLY <4>1, <4>2, JoinedSame
      <4> QED  BY <4>3
    <3>2. Joined(t, Len(t))[Len(s)] = Joined(s, Len(s))[Len(s)]
      BY <2>2, <2>6, <3>1
    <3>3. Len(t) # 1 /\ Len(t) - 1 = Len(s) /\ t[Len(t)] = x
      BY <2>1, <2>2, <2>6
    <3>4. Reader!FlattenSeq(s) = Joined(s, Len(s))[Len(s)]
      BY <2>6, FlattenIs
    <3> QED  BY <2>3, <2>4, <3>2, <3>3, <3>4 DEF t
  <2> QED  BY <2>5, <2>6
<1> QED  BY <1>1, <1>2, <1>3, FlattenIs

\* Induction on sequences, for a set.
LEMMA SeqInduction ==
  ASSUME NEW S, NEW P, <<>> \in P, \A f \in Seq(S) : \A b \in S : f \in P => Append(f, b) \in P
  PROVE  Seq(S) \subseteq P
<1> DEFINE N == {n \in Nat : \A f \in Seq(S) : Len(f) = n => f \in P}
<1>1. 0 \in N
  <2>1. \A f \in Seq(S) : Len(f) = 0 => f = <<>>
    OBVIOUS
  <2> QED  BY <2>1
<1>2. ASSUME NEW n \in Nat, n \in N PROVE n + 1 \in N
  <2> SUFFICES ASSUME NEW f \in Seq(S), Len(f) = n + 1 PROVE f \in P
    OBVIOUS
  <2> DEFINE g == SubSeq(f, 1, n)
  <2>1. g \in Seq(S) /\ Len(g) = n /\ (\A i \in 1 .. n : g[i] = f[i]) /\ f[n + 1] \in S
    OBVIOUS
  <2> HIDE DEF g
  <2>2. /\ Append(g, f[n + 1]) \in Seq(S) /\ Len(Append(g, f[n + 1])) = n + 1
        /\ \A i \in 1 .. n + 1 : Append(g, f[n + 1])[i] = IF i <= n THEN g[i] ELSE f[n + 1]
    BY <2>1
  <2>3. \A i \in 1 .. n + 1 : Append(g, f[n + 1])[i] = f[i]
    BY <2>1, <2>2
  <2>4. Append(g, f[n + 1]) = f
    BY <2>2, <2>3, SeqSame
  <2>5. g \in P
    BY <1>2, <2>1
  <2> QED  BY <2>1, <2>4, <2>5
<1> HIDE DEF N
<1>3. Nat \subseteq N
  BY <1>1, <1>2, Induction
<1>4. ASSUME NEW f \in Seq(S) PROVE f \in P
  <2>1. Len(f) \in N
    BY <1>3
  <2> QED  BY <2>1 DEF N
<1> QED  BY <1>4

-----------------------------------------------------------------------------
(* The text of a log.                                                      *)

\* The samples of a block as lines; its lost ticks as a line.
Shown(d) == [i \in 1 .. Len(d) |-> Block(0, <<d[i]>>)]
\* The line of the lost ticks, if there are any.
LostLine(n) == IF n = 0 THEN <<>> ELSE <<Block(n, <<>>)>>

\* A block is made of a number and a sequence.
LEMMA BlockIs ==
  ASSUME NEW n \in Nat, NEW d \in Seq(Int)
  PROVE  Block(n, d) \in Blocks /\ Block(n, d).overrun = n /\ Block(n, d).data = d /\ TicksOf(Block(n, d)) = n + Len(d)
BY DEF Block, Blocks, TicksOf

\* A block has a number and a sequence.
LEMMA BlockHas ==
  ASSUME NEW b \in Blocks
  PROVE  b.overrun \in Nat /\ b.data \in Seq(Int) /\ TicksOf(b) \in Nat /\ TicksOf(b) = b.overrun + Len(b.data)
BY DEF Blocks, TicksOf

\* One more sample is one more line.
LEMMA ShownFacts ==
  ASSUME NEW d \in Seq(Int)
  PROVE  /\ Shown(d) \in Seq(Blocks) /\ Len(Shown(d)) = Len(d) /\ (Len(d) = 0 => Shown(d) = <<>>)
         /\ \A x \in Int : Shown(Append(d, x)) = Append(Shown(d), Block(0, <<x>>))
<1>1. ASSUME NEW e \in Seq(Int)
      PROVE /\ Shown(e) \in Seq(Blocks) /\ Len(Shown(e)) = Len(e)
            /\ \A i \in 1 .. Len(e) : Shown(e)[i] = Block(0, <<e[i]>>) /\ Block(0, <<e[i]>>) \in Blocks
  <2> DEFINE g(i) == Block(0, <<e[i]>>)
             s == [i \in 1 .. Len(e) |-> g(i)]
  <2>1. \A i \in 1 .. Len(e) : g(i) \in Blocks
    <3> TAKE i \in 1 .. Len(e)
    <3>1. <<e[i]>> \in Seq(Int)
      OBVIOUS
    <3> QED  BY <3>1, BlockIs
  <2>2. Len(e) \in Nat /\ Shown(e) = s
    BY DEF Shown
  <2> HIDE DEF g
  <2>3. s \in Seq(Blocks) /\ Len(s) = Len(e) /\ \A i \in 1 .. Len(e) : s[i] = g(i)
    BY <2>1, <2>2
  <2> HIDE DEF s
  <2> QED  BY <2>1, <2>2, <2>3 DEF g
<1>2. ASSUME NEW x \in Int PROVE Shown(Append(d, x)) = Append(Shown(d), Block(0, <<x>>))
  <2> DEFINE e == Append(d, x)
             y == Block(0, <<x>>)
  <2>1. e \in Seq(Int) /\ Len(e) = Len(d) + 1 /\ e[Len(d) + 1] = x /\ Len(d) \in Nat /\ \A i \in 1 .. Len(d) : e[i] = d[i]
    OBVIOUS
  <2>2. y \in Blocks
    <3>1. <<x>> \in Seq(Int)
      OBVIOUS
    <3> QED  BY <3>1, BlockIs
  <2> HIDE DEF e, y
  <2>3. /\ Shown(e) \in Seq(Blocks) /\ Len(Shown(e)) = Len(d) + 1
        /\ \A i \in 1 .. Len(d) + 1 : Shown(e)[i] = Block(0, <<e[i]>>)
    BY <1>1, <2>1
  <2>4. /\ Append(Shown(d), y) \in Seq(Blocks) /\ Len(Append(Shown(d), y)) = Len(d) + 1
        /\ \A i \in 1 .. Len(d) + 1 : Append(Shown(d), y)[i] = IF i <= Len(d) THEN Shown(d)[i] ELSE y
    BY <1>1, <2>2
  <2>5. \A i \in 1 .. Len(d) + 1 : Shown(e)[i] = Append(Shown(d), y)[i]
    <3> TAKE i \in 1 .. Len(d) + 1
    <3>0. Shown(e)[i] = Block(0, <<e[i]>>) /\ Append(Shown(d), y)[i] = IF i <= Len(d) THEN Shown(d)[i] ELSE y
      BY <2>3, <2>4
    <3>1. CASE i \in 1 .. Len(d)
      <4>1. i <= Len(d) /\ e[i] = d[i]
        BY <3>1, <2>1
      <4>2. Shown(d)[i] = Block(0, <<d[i]>>)
        BY <3>1, <1>1
      <4> QED  BY <4>1, <4>2, <3>0
    <3>2. CASE i = Len(d) + 1
      <4>1. ~(i <= Len(d)) /\ e[i] = x
        BY <2>1, <3>2
      <4> QED  BY <4>1, <3>0 DEF y
    <3>3. i \in 1 .. Len(d) \/ i = Len(d) + 1
      BY <2>1
    <3> QED  BY <3>1, <3>2, <3>3
  <2>6. Shown(e) = Append(Shown(d), y)
    BY <2>3, <2>4, <2>5, SeqSame
  <2> QED  BY <2>6 DEF e, y
<1>3. Len(d) = 0 => Shown(d) = <<>>
  <2> DEFINE s == Shown(d)
  <2>1. s \in Seq(Blocks) /\ Len(s) = Len(d)
    BY <1>1
  <2> HIDE DEF s
  <2>2. Len(s) = 0 => s = <<>>
    BY <2>1
  <2> QED  BY <2>1, <2>2 DEF s
<1> QED  BY <1>1, <1>2, <1>3

\* The lines of a block.
LEMMA LinesAre ==
  ASSUME NEW b \in Blocks
  PROVE  /\ Reader!Lines(b) = LostLine(b.overrun) \o Shown(b.data)
         /\ LostLine(b.overrun) \in Seq(Blocks) /\ Shown(b.data) \in Seq(Blocks) /\ Reader!Lines(b) \in Seq(Blocks)
<1>1. b.data \in Seq(Int) /\ b.overrun \in Nat
  BY BlockHas
<1>2. Shown(b.data) \in Seq(Blocks)
  BY <1>1, ShownFacts
<1>3. LostLine(b.overrun) \in Seq(Blocks)
  <2>1. <<>> \in Seq(Int)
    OBVIOUS
  <2>2. Block(b.overrun, <<>>) \in Blocks
    BY <1>1, <2>1, BlockIs
  <2> QED  BY <2>2 DEF LostLine
<1>4. DOMAIN b.data = 1 .. Len(b.data)
  BY <1>1
<1>5. Reader!Lines(b) = LostLine(b.overrun) \o Shown(b.data)
  BY <1>4 DEF Reader!Lines, Reader!Block, Block, LostLine, Shown
<1> QED  BY <1>2, <1>3, <1>5

\* The sequence of what a function makes of the items of a sequence.
Mapped(m, f) == [k \in DOMAIN f |-> m[f[k]]]
\* What a function makes of a set.
IsMap(m, S, T) == m \in [S -> T]

\* One more item adds what the function makes of it.
LEMMA MappedFacts ==
  ASSUME NEW S, NEW T, NEW m, IsMap(m, S, T), NEW f \in Seq(S)
  PROVE  /\ Mapped(m, f) \in Seq(T) /\ Len(Mapped(m, f)) = Len(f)
         /\ \A b \in S : Mapped(m, Append(f, b)) = Append(Mapped(m, f), m[b])
<1>1. ASSUME NEW g \in Seq(S)
      PROVE /\ Mapped(m, g) \in Seq(T) /\ Len(Mapped(m, g)) = Len(g)
            /\ \A k \in 1 .. Len(g) : Mapped(m, g)[k] = m[g[k]]
  <2> DEFINE h(i) == m[g[i]]
             s == [i \in 1 .. Len(g) |-> h(i)]
  <2>1. \A i \in 1 .. Len(g) : h(i) \in T
    BY DEF IsMap
  <2>2. Len(g) \in Nat /\ Mapped(m, g) = s
    BY DEF Mapped
  <2> HIDE DEF h
  <2>3. s \in Seq(T) /\ Len(s) = Len(g) /\ \A i \in 1 .. Len(g) : s[i] = h(i)
    BY <2>1, <2>2
  <2> HIDE DEF s
  <2> QED  BY <2>1, <2>2, <2>3 DEF h
<1>2. ASSUME NEW b \in S PROVE Mapped(m, Append(f, b)) = Append(Mapped(m, f), m[b])
  <2> DEFINE e == Append(f, b)
             s == Mapped(m, f)
             t == Mapped(m, e)
             c == m[b]
  <2>1. e \in Seq(S) /\ Len(e) = Len(f) + 1 /\ e[Len(f) + 1] = b /\ Len(f) \in Nat /\ \A i \in 1 .. Len(f) : e[i] = f[i]
    OBVIOUS
  <2>2. s \in Seq(T) /\ Len(s) = Len(f) /\ \A k \in 1 .. Len(f) : s[k] = m[f[k]]
    BY <1>1
  <2> HIDE DEF e
  <2>3. t \in Seq(T) /\ Len(t) = Len(f) + 1 /\ \A k \in 1 .. Len(f) + 1 : t[k] = m[e[k]]
    BY <1>1, <2>1
  <2>4. c \in T
    BY DEF IsMap
  <2> HIDE DEF s, t, c
  <2>5. /\ Append(s, c) \in Seq(T) /\ Len(Append(s, c)) = Len(f) + 1
        /\ \A k \in 1 .. Len(f) + 1 : Append(s, c)[k] = IF k <= Len(f) THEN s[k] ELSE c
    BY <2>2, <2>4
  <2>6. \A k \in 1 .. Len(f) + 1 : t[k] = Append(s, c)[k]
    <3> TAKE k \in 1 .. Len(f) + 1
    <3>0. t[k] = m[e[k]] /\ Append(s, c)[k] = IF k <= Len(f) THEN s[k] ELSE c
      BY <2>3, <2>5
    <3>1. CASE k \in 1 .. Len(f)
      <4>1. k <= Len(f) /\ e[k] = f[k] /\ s[k] = m[f[k]]
        BY <3>1, <2>1, <2>2
      <4> QED  BY <4>1, <3>0
    <3>2. CASE k = Len(f) + 1
      <4>1. ~(k <= Len(f)) /\ e[k] = b
        BY <3>2, <2>1
      <4> QED  BY <4>1, <3>0 DEF c
    <3>3. k \in 1 .. Len(f) \/ k = Len(f) + 1
      BY <2>1
    <3> QED  BY <3>1, <3>2, <3>3
  <2>7. t = Append(s, c)
    BY <2>3, <2>5, <2>6, SeqSame
  <2> QED  BY <2>7 DEF s, t, e, c
<1> QED  BY <1>1, <1>2

\* What a function makes of the items, joined.
LEMMA JoinedItems ==
  ASSUME NEW S, NEW T, NEW m, IsMap(m, S, Seq(T)), NEW f \in Seq(S)
  PROVE  /\ Reader!FlattenSeq(Mapped(m, f)) \in Seq(T) /\ Reader!FlattenSeq(Mapped(m, <<>>)) = <<>>
         /\ \A b \in S : Reader!FlattenSeq(Mapped(m, Append(f, b))) = Reader!FlattenSeq(Mapped(m, f)) \o m[b]
<1> DEFINE D == Seq(T)
<1>1. ASSUME NEW g \in Seq(S)
      PROVE  Mapped(m, g) \in Seq(D) /\ Len(Mapped(m, g)) = Len(g) /\ \A b \in S : Mapped(m, Append(g, b)) = Append(Mapped(m, g), m[b])
  <2>1. IsMap(m, S, D)
    OBVIOUS
  <2> HIDE DEF D
  <2> QED  BY <2>1, MappedFacts
<1>2. Reader!FlattenSeq(Mapped(m, <<>>)) = <<>>
  <2>1. <<>> \in Seq(S) /\ Len(<<>>) = 0
    OBVIOUS
  <2>2. Mapped(m, <<>>) \in Seq(Seq(T)) /\ Len(Mapped(m, <<>>)) = 0
    BY <1>1, <2>1
  <2> QED  BY <2>2, FlattenFacts
<1>3. ASSUME NEW b \in S PROVE Reader!FlattenSeq(Mapped(m, Append(f, b))) = Reader!FlattenSeq(Mapped(m, f)) \o m[b]
  <2>1. Mapped(m, Append(f, b)) = Append(Mapped(m, f), m[b]) /\ Mapped(m, f) \in Seq(Seq(T))
    BY <1>1
  <2>2. m[b] \in Seq(T)
    BY DEF IsMap
  <2>3. Reader!FlattenSeq(Append(Mapped(m, f), m[b])) = Reader!FlattenSeq(Mapped(m, f)) \o m[b]
    BY <2>1, <2>2, FlattenFacts
  <2> QED  BY <2>1, <2>3
<1>4. Reader!FlattenSeq(Mapped(m, f)) \in Seq(T)
  <2>1. Mapped(m, f) \in Seq(Seq(T))
    BY <1>1
  <2> QED  BY <2>1, FlattenFacts
<1> QED  BY <1>2, <1>3, <1>4

\* One more block adds its lines to the text.
LEMMA TextFacts ==
  ASSUME NEW f \in Seq(Blocks)
  PROVE  /\ Reader!Text(f) \in Seq(Blocks) /\ Reader!Text(<<>>) = <<>>
         /\ \A b \in Blocks : Reader!Text(Append(f, b)) = Reader!Text(f) \o Reader!Lines(b)
<1> DEFINE m == [b \in Blocks |-> Reader!Lines(b)]
<1>1. IsMap(m, Blocks, Seq(Blocks)) /\ \A b \in Blocks : m[b] = Reader!Lines(b)
  BY LinesAre DEF IsMap
<1> HIDE DEF m
<1>2. ASSUME NEW g \in Seq(Blocks) PROVE Reader!Text(g) = Reader!FlattenSeq(Mapped(m, g))
  <2>1. \A k \in DOMAIN g : m[g[k]] = Reader!Lines(g[k])
    <3>1. \A k \in DOMAIN g : g[k] \in Blocks
      OBVIOUS
    <3> QED  BY <1>1, <3>1
  <2>2. [k \in DOMAIN g |-> Reader!Lines(g[k])] = Mapped(m, g)
    BY <2>1 DEF Mapped
  <2>3. Reader!Text(g) = Reader!FlattenSeq([k \in DOMAIN g |-> Reader!Lines(g[k])])
    BY DEF Reader!Text
  <2> QED  BY <2>2, <2>3
<1>3. <<>> \in Seq(Blocks) /\ \A b \in Blocks : Append(f, b) \in Seq(Blocks)
  OBVIOUS
<1>4. /\ Reader!FlattenSeq(Mapped(m, f)) \in Seq(Blocks) /\ Reader!FlattenSeq(Mapped(m, <<>>)) = <<>>
      /\ \A b \in Blocks : Reader!FlattenSeq(Mapped(m, Append(f, b))) = Reader!FlattenSeq(Mapped(m, f)) \o m[b]
  BY <1>1, JoinedItems
<1> QED  BY <1>1, <1>2, <1>3, <1>4

\* One more block adds its samples.
LEMMA SamplesFacts ==
  ASSUME NEW f \in Seq(Blocks)
  PROVE  /\ Reader!Samples(f) \in Seq(Int) /\ Reader!Samples(<<>>) = <<>>
         /\ \A b \in Blocks : Reader!Samples(Append(f, b)) = Reader!Samples(f) \o b.data
<1> DEFINE m == [b \in Blocks |-> b.data]
<1>1. IsMap(m, Blocks, Seq(Int)) /\ \A b \in Blocks : m[b] = b.data
  BY BlockHas DEF IsMap
<1> HIDE DEF m
<1>2. ASSUME NEW g \in Seq(Blocks) PROVE Reader!Samples(g) = Reader!FlattenSeq(Mapped(m, g))
  <2>1. \A k \in DOMAIN g : m[g[k]] = g[k].data
    <3>1. \A k \in DOMAIN g : g[k] \in Blocks
      OBVIOUS
    <3> QED  BY <1>1, <3>1
  <2>2. [k \in DOMAIN g |-> g[k].data] = Mapped(m, g)
    BY <2>1 DEF Mapped
  <2> QED  BY <2>2 DEF Reader!Samples
<1>3. <<>> \in Seq(Blocks) /\ \A b \in Blocks : Append(f, b) \in Seq(Blocks)
  OBVIOUS
<1>4. /\ Reader!FlattenSeq(Mapped(m, f)) \in Seq(Int) /\ Reader!FlattenSeq(Mapped(m, <<>>)) = <<>>
      /\ \A b \in Blocks : Reader!FlattenSeq(Mapped(m, Append(f, b))) = Reader!FlattenSeq(Mapped(m, f)) \o m[b]
  BY <1>1, JoinedItems
<1> QED  BY <1>1, <1>2, <1>3, <1>4

\* The samples of a block have the ticks behind a file.
InTimeAfter(f, b) == \A i \in 1 .. Len(b.data) : b.data[i] = Ticks(f) + b.overrun + i - 1
\* What is appended is in time if and only if it begins where the file ends.
LEMMA InTimeAppend ==
  ASSUME NEW f \in Seq(Blocks), NEW b \in Blocks
  PROVE  InTime(Append(f, b)) <=> InTime(f) /\ InTimeAfter(f, b)
<1> DEFINE g == Append(f, b)
<1>1. g \in Seq(Blocks) /\ Len(g) = Len(f) + 1 /\ g[Len(f) + 1] = b /\ (\A i \in 1 .. Len(f) : g[i] = f[i]) /\ Len(f) \in Nat
  OBVIOUS
<1>2. ASSUME NEW n \in 0 .. Len(f) PROVE SubSeq(g, 1, n) = SubSeq(f, 1, n)
  <2> HIDE DEF g
  <2>1. SubSeq(g, 1, n) \in Seq(Blocks) /\ Len(SubSeq(g, 1, n)) = n /\ \A i \in 1 .. n : SubSeq(g, 1, n)[i] = g[i]
    BY <1>1
  <2>2. SubSeq(f, 1, n) \in Seq(Blocks) /\ Len(SubSeq(f, 1, n)) = n /\ \A i \in 1 .. n : SubSeq(f, 1, n)[i] = f[i]
    OBVIOUS
  <2> QED  BY <1>1, <2>1, <2>2, SeqSame
<1>3. SubSeq(f, 1, Len(f)) = f
  OBVIOUS
<1> HIDE DEF g
<1> DEFINE right(h, k) == \A i \in DOMAIN h[k].data : h[k].data[i] = Ticks(SubSeq(h, 1, k - 1)) + h[k].overrun + i - 1
<1>4. DOMAIN g = 1 .. Len(f) + 1 /\ DOMAIN f = 1 .. Len(f)
  BY <1>1
<1>5. InTime(g) <=> \A k \in 1 .. Len(f) + 1 : right(g, k)
  BY <1>4 DEF InTime
<1>6. InTime(f) <=> \A k \in 1 .. Len(f) : right(f, k)
  BY <1>4 DEF InTime
<1>7. ASSUME NEW k \in 1 .. Len(f) PROVE right(g, k) <=> right(f, k)
  <2>1. k - 1 \in 0 .. Len(f) /\ g[k] = f[k]
    BY <1>1
  <2>2. SubSeq(g, 1, k - 1) = SubSeq(f, 1, k - 1)
    BY <1>2, <2>1
  <2> QED  BY <2>1, <2>2
<1>8. right(g, Len(f) + 1) <=> InTimeAfter(f, b)
  <2>1. (Len(f) + 1) - 1 = Len(f) /\ Len(f) \in 0 .. Len(f)
    BY <1>1
  <2>2. SubSeq(g, 1, (Len(f) + 1) - 1) = f /\ g[Len(f) + 1] = b
    BY <1>1, <1>2, <1>3, <2>1
  <2>3. DOMAIN b.data = 1 .. Len(b.data)
    BY BlockHas
  <2> QED  BY <2>2, <2>3 DEF InTimeAfter
<1> HIDE DEF right
<1>9. (\A k \in 1 .. Len(f) + 1 : right(g, k)) <=> (\A k \in 1 .. Len(f) : right(g, k)) /\ right(g, Len(f) + 1)
  <2>1. \A k : k \in 1 .. Len(f) + 1 <=> k \in 1 .. Len(f) \/ k = Len(f) + 1
    BY <1>1
  <2> QED  BY <2>1
<1>10. InTime(g) <=> InTime(f) /\ InTimeAfter(f, b)
  BY <1>5, <1>6, <1>7, <1>8, <1>9
<1> QED  BY <1>10 DEF g

\* The beginning of a file that is in time is in time, and nothing is.
LEMMA InTimePrefix ==
  ASSUME NEW f \in Seq(Blocks), NEW g \in Seq(Blocks), InTime(f \o g)
  PROVE  InTime(f)
<1> DEFINE P == {x \in Seq(Blocks) : InTime(f \o x) => InTime(f)}
<1>1. <<>> \in P
  <2>1. <<>> \in Seq(Blocks) /\ f \o <<>> = f
    OBVIOUS
  <2> QED  BY <2>1
<1>2. ASSUME NEW x \in Seq(Blocks), NEW b \in Blocks, x \in P PROVE Append(x, b) \in P
  <2>1. f \o x \in Seq(Blocks) /\ f \o Append(x, b) = Append(f \o x, b) /\ Append(x, b) \in Seq(Blocks)
    OBVIOUS
  <2>2. InTime(Append(f \o x, b)) => InTime(f \o x)
    BY <2>1, InTimeAppend
  <2> QED  BY <1>2, <2>1, <2>2
<1> HIDE DEF P
<1>3. Seq(Blocks) \subseteq P
  BY <1>1, <1>2, SeqInduction
<1> QED  BY <1>3 DEF P

\* Nothing is in time.
LEMMA InTimeEmpty == InTime(<<>>)
BY DEF InTime

\* Lines of samples behind a text take a tick each.
LEMMA ShownRight ==
  ASSUME NEW g \in Seq(Blocks), NEW d \in Seq(Int)
  PROVE  /\ g \o Shown(d) \in Seq(Blocks) /\ Ticks(g \o Shown(d)) = Ticks(g) + Len(d)
         /\ Reader!Samples(g \o Shown(d)) = Reader!Samples(g) \o d
         /\ InTime(g) /\ (\A i \in 1 .. Len(d) : d[i] = Ticks(g) + i - 1) => InTime(g \o Shown(d))
<1> DEFINE starts(x) == \A i \in 1 .. Len(x) : x[i] = Ticks(g) + i - 1
           right(x) == /\ Ticks(g \o Shown(x)) = Ticks(g) + Len(x) /\ Reader!Samples(g \o Shown(x)) = Reader!Samples(g) \o x
                       /\ InTime(g) /\ starts(x) => InTime(g \o Shown(x))
           P == {x \in Seq(Int) : right(x)}
<1>0. Ticks(g) \in Nat /\ Reader!Samples(g) \in Seq(Int)
  BY TicksFacts, SamplesFacts
<1>1. <<>> \in P
  <2>1. <<>> \in Seq(Int) /\ Len(<<>>) = 0 /\ g \o <<>> = g
    OBVIOUS
  <2>2. Shown(<<>>) = <<>>
    BY <2>1, ShownFacts
  <2>3. Reader!Samples(g) \o <<>> = Reader!Samples(g) /\ Ticks(g) + 0 = Ticks(g)
    BY <1>0
  <2> QED  BY <2>1, <2>2, <2>3
<1>2. ASSUME NEW x \in Seq(Int), NEW v \in Int, x \in P PROVE Append(x, v) \in P
  <2> DEFINE b == Block(0, <<v>>)
             h == g \o Shown(x)
             y == Append(x, v)
  <2>1. Shown(x) \in Seq(Blocks) /\ Shown(y) = Append(Shown(x), b)
    BY ShownFacts
  <2>2. <<v>> \in Seq(Int) /\ Len(<<v>>) = 1 /\ <<v>>[1] = v
    OBVIOUS
  <2>3. b \in Blocks /\ b.overrun = 0 /\ b.data = <<v>> /\ TicksOf(b) = 1
    <3> DEFINE w == <<v>>
    <3>1. w \in Seq(Int) /\ Len(w) = 1 /\ b = Block(0, w) /\ 0 \in Nat
      OBVIOUS
    <3> HIDE DEF b, w
    <3>2. b \in Blocks /\ b.overrun = 0 /\ b.data = w /\ TicksOf(b) = 0 + Len(w)
      BY <3>1, BlockIs
    <3> QED  BY <3>1, <3>2 DEF w
  <2>4. y \in Seq(Int) /\ Len(y) = Len(x) + 1 /\ y[Len(x) + 1] = v /\ Len(x) \in Nat /\ \A i \in 1 .. Len(x) : y[i] = x[i]
    OBVIOUS
  <2>5. Reader!Samples(g) \o y = (Reader!Samples(g) \o x) \o <<v>>
    <3> DEFINE z == Reader!Samples(g)
    <3>1. z \in Seq(Int) /\ y = x \o <<v>>
      BY <1>0
    <3> HIDE DEF z, y
    <3>2. z \o (x \o <<v>>) = (z \o x) \o <<v>>
      BY <3>1
    <3> QED  BY <3>1, <3>2 DEF z
  <2> HIDE DEF b, y
  <2>6. h \in Seq(Blocks) /\ g \o Shown(y) = Append(h, b)
    BY <2>1, <2>3
  <2>7. Ticks(h) = Ticks(g) + Len(x) /\ Reader!Samples(h) = Reader!Samples(g) \o x /\ (InTime(g) /\ starts(x) => InTime(h))
    BY <1>2
  <2> HIDE DEF h
  <2>8. Ticks(Append(h, b)) = Ticks(h) + 1 /\ Reader!Samples(Append(h, b)) = Reader!Samples(h) \o <<v>>
    BY <2>3, <2>6, TicksFacts, SamplesFacts
  <2>9. starts(y) => starts(x) /\ v = Ticks(g) + Len(x)
    <3> SUFFICES ASSUME starts(y) PROVE starts(x) /\ v = Ticks(g) + Len(x)
      OBVIOUS
    <3>1. \A i \in 1 .. Len(y) : y[i] = Ticks(g) + i - 1
      OBVIOUS
    <3>2. y[Len(x) + 1] = Ticks(g) + (Len(x) + 1) - 1
      <4>1. Len(x) + 1 \in 1 .. Len(y)
        BY <2>4
      <4> QED  BY <3>1, <4>1
    <3>3. \A i \in 1 .. Len(x) : x[i] = Ticks(g) + i - 1
      <4> TAKE i \in 1 .. Len(x)
      <4>1. i \in 1 .. Len(y) /\ y[i] = x[i]
        BY <2>4
      <4> QED  BY <3>1, <4>1
    <3> QED  BY <3>2, <3>3, <2>4, <1>0
  <2>10. ASSUME InTime(g), starts(y) PROVE InTime(Append(h, b))
    <3>1. InTime(h) /\ v = Ticks(h)
      BY <2>7, <2>9, <2>10
    <3>2. InTimeAfter(h, b)
      <4>1. Ticks(h) \in Nat
        BY <2>6, TicksFacts
      <4>2. Len(b.data) = 1 /\ b.data[1] = Ticks(h) + b.overrun + 1 - 1
        BY <2>2, <2>3, <3>1, <4>1
      <4>3. \A i \in 1 .. Len(b.data) : i = 1
        BY <4>2
      <4> QED  BY <4>2, <4>3 DEF InTimeAfter
    <3> QED  BY <2>3, <2>6, <3>1, <3>2, InTimeAppend
  <2>11. Ticks(Append(h, b)) = Ticks(g) + Len(y)
    BY <2>4, <2>7, <2>8, <1>0
  <2>12. Reader!Samples(Append(h, b)) = Reader!Samples(g) \o y
    BY <2>5, <2>7, <2>8
  <2>13. right(y)
    BY <2>6, <2>10, <2>11, <2>12
  <2> QED  BY <2>4, <2>13 DEF y
<1> HIDE DEF P
<1>3. Seq(Int) \subseteq P
  BY <1>1, <1>2, SeqInduction
<1>4. right(d)
  BY <1>3 DEF P
<1>5. g \o Shown(d) \in Seq(Blocks)
  <2>1. Shown(d) \in Seq(Blocks)
    BY ShownFacts
  <2> HIDE DEF P
  <2> QED  BY <2>1
<1> QED  BY <1>4, <1>5

\* The lines of a block behind a text take its ticks.
LEMMA LinesRight ==
  ASSUME NEW g \in Seq(Blocks), NEW b \in Blocks
  PROVE  LET t == g \o Reader!Lines(b) IN
         /\ t \in Seq(Blocks) /\ Ticks(t) = Ticks(g) + TicksOf(b) /\ Reader!Samples(t) = Reader!Samples(g) \o b.data
         /\ InTime(g) /\ InTimeAfter(g, b) => InTime(t)
<1> DEFINE n == b.overrun
           h == g \o LostLine(n)
           t == g \o Reader!Lines(b)
<1>1. n \in Nat /\ b.data \in Seq(Int) /\ TicksOf(b) = n + Len(b.data) /\ Len(b.data) \in Nat
  BY BlockHas
<1>2. /\ LostLine(n) \in Seq(Blocks) /\ Shown(b.data) \in Seq(Blocks)
      /\ Reader!Lines(b) = LostLine(n) \o Shown(b.data)
  BY LinesAre
<1>3. t = h \o Shown(b.data)
  BY <1>2
<1>4. h \in Seq(Blocks) /\ Ticks(h) = Ticks(g) + n /\ Reader!Samples(h) = Reader!Samples(g) /\ (InTime(g) => InTime(h))
  <2>0. Ticks(g) \in Nat /\ Reader!Samples(g) \in Seq(Int)
    BY TicksFacts, SamplesFacts
  <2>1. CASE n = 0
    <3>1. h = g
      BY <2>1 DEF LostLine
    <3> QED  BY <3>1, <2>0, <2>1
  <2>2. CASE n # 0
    <3> DEFINE x == Block(n, <<>>)
    <3>1. <<>> \in Seq(Int) /\ Len(<<>>) = 0
      OBVIOUS
    <3>2. x \in Blocks /\ x.data = <<>> /\ TicksOf(x) = n + 0 /\ x.overrun = n
      BY <1>1, <3>1, BlockIs
    <3> HIDE DEF x
    <3>3. LostLine(n) = <<x>>
      BY <2>2 DEF LostLine, x
    <3>4. h = Append(g, x)
      BY <3>2, <3>3
    <3>5. Ticks(Append(g, x)) = Ticks(g) + TicksOf(x) /\ Reader!Samples(Append(g, x)) = Reader!Samples(g) \o x.data
      BY <3>2, TicksFacts, SamplesFacts
    <3>6. Reader!Samples(g) \o <<>> = Reader!Samples(g)
      BY <2>0
    <3>7. InTimeAfter(g, x)
      BY <3>1, <3>2 DEF InTimeAfter
    <3>8. InTime(g) => InTime(Append(g, x))
      BY <3>2, <3>7, InTimeAppend
    <3>9. Append(g, x) \in Seq(Blocks)
      BY <3>2
    <3> QED  BY <3>2, <3>4, <3>5, <3>6, <3>8, <3>9, <1>1
  <2> QED  BY <2>1, <2>2
<1> HIDE DEF h, t, n
<1>5. /\ h \o Shown(b.data) \in Seq(Blocks) /\ Ticks(h \o Shown(b.data)) = Ticks(h) + Len(b.data)
      /\ Reader!Samples(h \o Shown(b.data)) = Reader!Samples(h) \o b.data
      /\ InTime(h) /\ (\A i \in 1 .. Len(b.data) : b.data[i] = Ticks(h) + i - 1) => InTime(h \o Shown(b.data))
  BY <1>1, <1>4, ShownRight
<1>6. InTimeAfter(g, b) => \A i \in 1 .. Len(b.data) : b.data[i] = Ticks(h) + i - 1
  BY <1>4 DEF InTimeAfter, n
<1>7. Ticks(g) \in Nat
  BY TicksFacts
<1>8. Ticks(t) = Ticks(g) + TicksOf(b)
  BY <1>1, <1>3, <1>4, <1>5, <1>7
<1> QED  BY <1>3, <1>4, <1>5, <1>6, <1>8 DEF t

\* The text of a log has its ticks and its samples, and is in time if it is.
LEMMA TextRight ==
  ASSUME NEW f \in Seq(Blocks)
  PROVE  /\ Reader!Text(f) \in Seq(Blocks) /\ Ticks(Reader!Text(f)) = Ticks(f) /\ Reader!Samples(Reader!Text(f)) = Reader!Samples(f)
         /\ InTime(f) => InTime(Reader!Text(f))
<1> DEFINE right(x) == /\ Ticks(Reader!Text(x)) = Ticks(x) /\ Reader!Samples(Reader!Text(x)) = Reader!Samples(x)
                       /\ InTime(x) => InTime(Reader!Text(x))
           P == {x \in Seq(Blocks) : right(x)}
<1>1. <<>> \in P
  <2>1. <<>> \in Seq(Blocks)
    OBVIOUS
  <2>2. Reader!Text(<<>>) = <<>>
    BY <2>1, TextFacts
  <2> QED  BY <2>1, <2>2
<1>2. ASSUME NEW x \in Seq(Blocks), NEW b \in Blocks, x \in P PROVE Append(x, b) \in P
  <2> DEFINE g == Reader!Text(x)
             t == g \o Reader!Lines(b)
  <2>1. g \in Seq(Blocks) /\ Reader!Text(Append(x, b)) = t
    BY TextFacts
  <2>2. Ticks(g) = Ticks(x) /\ Reader!Samples(g) = Reader!Samples(x) /\ (InTime(x) => InTime(g))
    BY <1>2
  <2> HIDE DEF g
  <2>3. /\ Ticks(t) = Ticks(g) + TicksOf(b) /\ Reader!Samples(t) = Reader!Samples(g) \o b.data
        /\ InTime(g) /\ InTimeAfter(g, b) => InTime(t)
    BY <2>1, LinesRight
  <2> HIDE DEF t
  <2>4. Ticks(Append(x, b)) = Ticks(x) + TicksOf(b) /\ Reader!Samples(Append(x, b)) = Reader!Samples(x) \o b.data
    BY TicksFacts, SamplesFacts
  <2>5. InTime(Append(x, b)) <=> InTime(x) /\ InTimeAfter(x, b)
    BY InTimeAppend
  <2>6. InTimeAfter(x, b) => InTimeAfter(g, b)
    BY <2>2 DEF InTimeAfter
  <2>7. Append(x, b) \in Seq(Blocks)
    OBVIOUS
  <2>8. right(Append(x, b))
    BY <2>1, <2>2, <2>3, <2>4, <2>5, <2>6
  <2> QED  BY <2>7, <2>8
<1> HIDE DEF P
<1>3. Seq(Blocks) \subseteq P
  BY <1>1, <1>2, SeqInduction
<1>4. right(f)
  BY <1>3 DEF P
<1> QED  BY <1>4, TextFacts

\* A log without empty blocks is read to its end.
LEMMA UpToWhole ==
  ASSUME NEW f \in Seq(Blocks), \A k \in 1 .. Len(f) : f[k].data # <<>>
  PROVE  Reader!UpToEmpty(f) = f /\ ((\A k \in 1 .. Len(f) : ~(Len(f[k].data) > DataDim)) => Reader!UpToOdd(f) = f)
<1>1. DOMAIN f = 1 .. Len(f) /\ Len(f) \in Nat /\ SubSeq(f, 1, Len(f)) = f
  OBVIOUS
<1>2. Reader!Min({Len(f) + 1}) = Len(f) + 1
  BY <1>1 DEF Reader!Min
<1>3. (Len(f) + 1) - 1 = Len(f)
  BY <1>1
<1>4. Reader!UpTo(f, {}) = f
  <2>1. {} \cup {Len(f) + 1} = {Len(f) + 1}
    OBVIOUS
  <2> QED  BY <1>1, <1>2, <1>3, <2>1 DEF Reader!UpTo
<1>5. {k \in DOMAIN f : Reader!Empty(f[k])} = {}
  BY <1>1 DEF Reader!Empty
<1>6. ASSUME \A k \in 1 .. Len(f) : ~(Len(f[k].data) > DataDim)
      PROVE  {k \in DOMAIN f : Reader!Empty(f[k]) \/ Len(f[k].data) > DataDim} = {}
  <2>1. \A k \in DOMAIN f : f[k].data # <<>> /\ ~(Len(f[k].data) > DataDim)
    BY <1>1, <1>6
  <2> QED  BY <2>1 DEF Reader!Empty
<1> QED  BY <1>4, <1>5, <1>6 DEF Reader!UpToEmpty, Reader!UpToOdd

\* The text of a file is that of its beginning and that of its end.
LEMMA TextConcat ==
  ASSUME NEW f \in Seq(Blocks), NEW g \in Seq(Blocks)
  PROVE  Reader!Text(f \o g) = Reader!Text(f) \o Reader!Text(g)
<1> DEFINE P == {x \in Seq(Blocks) : Reader!Text(f \o x) = Reader!Text(f) \o Reader!Text(x)}
<1>1. <<>> \in P
  <2>1. <<>> \in Seq(Blocks) /\ f \o <<>> = f
    OBVIOUS
  <2>2. Reader!Text(<<>>) = <<>> /\ Reader!Text(f) \in Seq(Blocks)
    BY <2>1, TextFacts
  <2>3. Reader!Text(f) \o <<>> = Reader!Text(f)
    BY <2>2
  <2> QED  BY <2>1, <2>2, <2>3
<1>2. ASSUME NEW x \in Seq(Blocks), NEW b \in Blocks, x \in P PROVE Append(x, b) \in P
  <2>1. f \o x \in Seq(Blocks) /\ f \o Append(x, b) = Append(f \o x, b) /\ Append(x, b) \in Seq(Blocks)
    OBVIOUS
  <2>2. Reader!Text(Append(f \o x, b)) = Reader!Text(f \o x) \o Reader!Lines(b)
    BY <2>1, TextFacts
  <2>3. Reader!Text(Append(x, b)) = Reader!Text(x) \o Reader!Lines(b)
    BY TextFacts
  <2>4. Reader!Text(f \o x) = Reader!Text(f) \o Reader!Text(x)
    BY <1>2
  <2>5. Reader!Text(f) \in Seq(Blocks) /\ Reader!Text(x) \in Seq(Blocks) /\ Reader!Lines(b) \in Seq(Blocks)
    BY TextFacts, LinesAre
  <2>6. (Reader!Text(f) \o Reader!Text(x)) \o Reader!Lines(b) = Reader!Text(f) \o (Reader!Text(x) \o Reader!Lines(b))
    <3> DEFINE p == Reader!Text(f)
               q == Reader!Text(x)
               r == Reader!Lines(b)
    <3>1. p \in Seq(Blocks) /\ q \in Seq(Blocks) /\ r \in Seq(Blocks)
      BY <2>5
    <3> HIDE DEF p, q, r
    <3>2. (p \o q) \o r = p \o (q \o r)
      BY ONLY <3>1, SMTT(30)
    <3> QED  BY <3>2 DEF p, q, r
  <2> QED  BY <2>1, <2>2, <2>3, <2>4, <2>6
<1> HIDE DEF P
<1>3. Seq(Blocks) \subseteq P
  BY <1>1, <1>2, SeqInduction
<1> QED  BY <1>3 DEF P

\* A part of a sequence and the part behind it.
LEMMA PartsMeet ==
  ASSUME NEW S, NEW f \in Seq(S), NEW a \in Nat, NEW b \in Nat, NEW c \in Nat, a <= b, b <= c, c <= Len(f)
  PROVE  /\ SubSeq(f, a + 1, b) \in Seq(S) /\ SubSeq(f, b + 1, c) \in Seq(S)
         /\ SubSeq(f, a + 1, b) \o SubSeq(f, b + 1, c) = SubSeq(f, a + 1, c)
<1> DEFINE p == SubSeq(f, a + 1, b)
           q == SubSeq(f, b + 1, c)
           r == SubSeq(f, a + 1, c)
<1>1. p \in Seq(S) /\ Len(p) = b - a /\ \A i \in 1 .. b - a : p[i] = f[a + i]
  OBVIOUS
<1>2. q \in Seq(S) /\ Len(q) = c - b /\ \A i \in 1 .. c - b : q[i] = f[b + i]
  OBVIOUS
<1>3. r \in Seq(S) /\ Len(r) = c - a /\ \A i \in 1 .. c - a : r[i] = f[a + i]
  OBVIOUS
<1> HIDE DEF p, q, r
<1>4. p \o q \in Seq(S) /\ Len(p \o q) = Len(p) + Len(q)
      /\ \A i \in 1 .. Len(p) + Len(q) : (p \o q)[i] = IF i <= Len(p) THEN p[i] ELSE q[i - Len(p)]
  BY <1>1, <1>2, ConcatItems
<1>5. Len(p) + Len(q) = c - a
  BY <1>1, <1>2
<1>6. \A i \in 1 .. Len(p \o q) : (p \o q)[i] = r[i]
  <2> TAKE i \in 1 .. Len(p \o q)
  <2>1. i \in 1 .. c - a /\ r[i] = f[a + i] /\ (p \o q)[i] = IF i <= b - a THEN p[i] ELSE q[i - (b - a)]
    BY <1>1, <1>3, <1>4, <1>5
  <2>2. CASE i <= b - a
    BY <2>1, <2>2, <1>1
  <2>3. CASE ~(i <= b - a)
    <3>1. i - (b - a) \in 1 .. c - b /\ b + (i - (b - a)) = a + i
      BY <2>1, <2>3
    <3>2. q[i - (b - a)] = f[b + (i - (b - a))]
      BY <3>1, <1>2
    <3> QED  BY <2>1, <2>3, <3>1, <3>2
  <2> QED  BY <2>2, <2>3
<1>7. p \o q = r
  BY <1>3, <1>4, <1>5, <1>6, SeqSame
<1> QED  BY <1>1, <1>2, <1>7 DEF p, q, r

\* A file that is read in parts: c has the places where a part ends.
Cuts(c, r, f) == (\A n \in 0 .. r : c[n] \in 0 .. Len(f)) /\ (\A n \in 1 .. r : c[n - 1] <= c[n])
\* The text of each part.
Parts(c, r, f) == [n \in 1 .. r |-> Reader!Text(SubSeq(f, c[n - 1] + 1, c[n]))]
\* The places where a part ends rise.
LEMMA CutsRise ==
  ASSUME NEW f \in Seq(Blocks), NEW c, NEW r \in Nat, Cuts(c, r, f), NEW n \in 0 .. r
  PROVE  c[0] <= c[n]
<1> DEFINE P == {k \in Nat : k <= r => c[0] <= c[k]}
<1>1. \A k \in 0 .. r : c[k] \in Nat
  BY DEF Cuts
<1>2. 0 \in P
  BY <1>1
<1>3. ASSUME NEW k \in Nat, k \in P PROVE k + 1 \in P
  <2> SUFFICES ASSUME k + 1 <= r PROVE c[0] <= c[k + 1]
    OBVIOUS
  <2>1. k + 1 \in 1 .. r /\ (k + 1) - 1 = k /\ k \in 0 .. r /\ k + 1 \in 0 .. r /\ 0 \in 0 .. r
    OBVIOUS
  <2>2. c[0] <= c[k] /\ c[k] <= c[k + 1]
    BY <1>3, <2>1 DEF Cuts
  <2> QED  BY <1>1, <2>1, <2>2
<1> HIDE DEF P
<1>4. Nat \subseteq P
  BY <1>2, <1>3, Induction
<1> QED  BY <1>4 DEF P

\* The parts give the text.
LEMMA PartsJoin ==
  ASSUME NEW f \in Seq(Blocks), NEW c, NEW r \in Nat, Cuts(c, r, f)
  PROVE  Reader!FlattenSeq(Parts(c, r, f)) = Reader!Text(SubSeq(f, c[0] + 1, c[r]))
<1>1. \A n \in 0 .. r : c[n] \in Nat /\ c[n] <= Len(f)
  BY DEF Cuts
<1> DEFINE part(n) == Reader!Text(SubSeq(f, c[n - 1] + 1, c[n]))
           whole(n) == Reader!Text(SubSeq(f, c[0] + 1, c[n]))
           right(n) == Parts(c, n, f) \in Seq(Seq(Blocks)) /\ Reader!FlattenSeq(Parts(c, n, f)) = whole(n)
           P == {n \in Nat : n <= r => right(n)}
<1>2. \A n \in 1 .. r : part(n) \in Seq(Blocks)
  <2> TAKE n \in 1 .. r
  <2>1. SubSeq(f, c[n - 1] + 1, c[n]) \in Seq(Blocks)
    <3>1. n - 1 \in 0 .. r /\ n \in 0 .. r
      OBVIOUS
    <3>2. c[n - 1] \in Nat /\ c[n] \in Nat /\ c[n] <= Len(f)
      BY <1>1, <3>1
    <3> QED  BY <3>2
  <2> QED  BY <2>1, TextFacts
<1>3. 0 \in P
  <2>1. Parts(c, 0, f) = <<>>
    BY DEF Parts
  <2>2. <<>> \in Seq(Seq(Blocks)) /\ Len(<<>>) = 0
    OBVIOUS
  <2>3. Reader!FlattenSeq(<<>>) = <<>>
    BY <2>2, FlattenFacts
  <2>4. SubSeq(f, c[0] + 1, c[0]) = <<>>
    BY <1>1
  <2>5. whole(0) = <<>>
    BY <2>4, TextFacts
  <2> QED  BY <2>1, <2>2, <2>3, <2>5
<1>4. ASSUME NEW n \in Nat, n \in P PROVE n + 1 \in P
  <2> SUFFICES ASSUME n + 1 <= r PROVE right(n + 1)
    OBVIOUS
  <2>1. n \in 0 .. r /\ n + 1 \in 1 .. r /\ n + 1 \in 0 .. r /\ 0 \in 0 .. r /\ (n + 1) - 1 = n
    OBVIOUS
  <2>2. right(n)
    BY <1>4, <2>1
  <2> DEFINE x == part(n + 1)
             s == Parts(c, n, f)
             t == Parts(c, n + 1, f)
  <2>3. x \in Seq(Blocks)
    BY <1>2, <2>1
  <2>4. x = Reader!Text(SubSeq(f, c[n] + 1, c[n + 1]))
    BY <2>1
  <2>5. t = Append(s, x)
    <3>1. s = [k \in 1 .. n |-> part(k)] /\ t = [k \in 1 .. n + 1 |-> part(k)]
      BY DEF Parts
    <3> HIDE DEF part
    <3>2. \A k \in 1 .. n + 1 : part(k) \in Seq(Blocks)
      BY <1>2, <2>1
    <3>3. s \in Seq(Seq(Blocks)) /\ Len(s) = n /\ \A k \in 1 .. n : s[k] = part(k)
      BY <3>1, <3>2
    <3>4. t \in Seq(Seq(Blocks)) /\ Len(t) = n + 1 /\ \A k \in 1 .. n + 1 : t[k] = part(k)
      BY <3>1, <3>2
    <3> HIDE DEF s, t, x
    <3>5. /\ Append(s, x) \in Seq(Seq(Blocks)) /\ Len(Append(s, x)) = n + 1
          /\ \A k \in 1 .. n + 1 : Append(s, x)[k] = IF k <= n THEN s[k] ELSE x
      BY <3>3, <2>3
    <3>6. \A k \in 1 .. n + 1 : t[k] = Append(s, x)[k]
      <4> TAKE k \in 1 .. n + 1
      <4>0. t[k] = part(k) /\ Append(s, x)[k] = IF k <= n THEN s[k] ELSE x
        BY <3>4, <3>5
      <4>1. CASE k \in 1 .. n
        <5>1. s[k] = part(k) /\ k <= n
          BY <4>1, <3>3
        <5> QED  BY <4>0, <5>1
      <4>2. CASE k = n + 1
        <5>1. ~(k <= n)
          BY <4>2
        <5> QED  BY <4>0, <4>2, <5>1 DEF x
      <4>3. k \in 1 .. n \/ k = n + 1
        OBVIOUS
      <4> QED  BY <4>1, <4>2, <4>3
    <3> QED  BY <3>4, <3>5, <3>6, SeqSame
  <2> HIDE DEF s, t, x, part, whole
  <2>6. Reader!FlattenSeq(Append(s, x)) = Reader!FlattenSeq(s) \o x
    <3>1. s \in Seq(Seq(Blocks))
      BY <2>2 DEF s
    <3> QED  BY <2>3, <3>1, FlattenFacts
  <2>7. whole(n) \o x = whole(n + 1)
    <3> DEFINE i == c[0]
               j == c[n]
               k == c[n + 1]
    <3>1. i \in Nat /\ j \in Nat /\ k \in Nat /\ k <= Len(f)
      BY <1>1, <2>1
    <3>2. j <= k
      BY <2>1 DEF Cuts
    <3>3. i <= j
      BY <2>1, CutsRise
    <3> HIDE DEF i, j, k
    <3>4. SubSeq(f, i + 1, j) \in Seq(Blocks) /\ SubSeq(f, j + 1, k) \in Seq(Blocks)
          /\ SubSeq(f, i + 1, j) \o SubSeq(f, j + 1, k) = SubSeq(f, i + 1, k)
      BY <3>1, <3>2, <3>3, PartsMeet
    <3>5. Reader!Text(SubSeq(f, i + 1, j)) \o Reader!Text(SubSeq(f, j + 1, k)) = Reader!Text(SubSeq(f, i + 1, k))
      BY <3>4, TextConcat
    <3> QED  BY <2>4, <3>5 DEF whole, i, j, k
  <2>8. t \in Seq(Seq(Blocks))
    <3>1. s \in Seq(Seq(Blocks))
      BY <2>2 DEF s
    <3> QED  BY <2>3, <2>5, <3>1
  <2> QED  BY <2>2, <2>5, <2>6, <2>7, <2>8 DEF s, t
<1> HIDE DEF P
<1>5. Nat \subseteq P
  BY <1>3, <1>4, Induction
<1> QED  BY <1>5 DEF P

-----------------------------------------------------------------------------
(* The search of recoverTmpFile.                                           *)

\* The parts of the file the first n passes leave.
Search(n, w) == w = [k \in 0 .. n |-> IF k = 0 THEN [bgn |-> 0, end |-> size - 1] ELSE Narrowed(w[k - 1])]

\* The search can make any number of passes.
LEMMA SearchExists ==
  ASSUME NEW n \in Nat
  PROVE  \E w : Search(n, w)
<1> DEFINE S == {m \in Nat : \E w : Search(m, w)}
<1>1. 0 \in S
  <2>1. Search(0, [k \in 0 .. 0 |-> [bgn |-> 0, end |-> size - 1]])
    BY DEF Search
  <2> QED  BY <2>1
<1>2. ASSUME NEW m \in Nat, m \in S PROVE m + 1 \in S
  <2>1. PICK w : Search(m, w)
    BY <1>2
  <2> DEFINE v == [k \in 0 .. m + 1 |-> IF k \in 0 .. m THEN w[k] ELSE Narrowed(w[m])]
  <2>2. \A k \in 0 .. m : w[k] = IF k = 0 THEN [bgn |-> 0, end |-> size - 1] ELSE Narrowed(w[k - 1])
    BY <2>1 DEF Search
  <2>3. \A k \in 0 .. m + 1 : v[k] = IF k = 0 THEN [bgn |-> 0, end |-> size - 1] ELSE Narrowed(v[k - 1])
    <3> TAKE k \in 0 .. m + 1
    <3>1. CASE k = 0
      BY <3>1, <2>2
    <3>2. CASE k \in 1 .. m
      <4>1. v[k] = w[k] /\ v[k - 1] = w[k - 1] /\ k # 0
        BY <3>2
      <4> QED  BY <4>1, <2>2, <3>2
    <3>3. CASE k = m + 1
      <4>1. v[k] = Narrowed(w[m]) /\ v[k - 1] = w[m] /\ k # 0
        BY <3>3
      <4> QED  BY <4>1
    <3> QED  BY <3>1, <3>2, <3>3
  <2> DEFINE u == [k \in 0 .. m + 1 |-> IF k = 0 THEN [bgn |-> 0, end |-> size - 1] ELSE Narrowed(v[k - 1])]
  <2>4. v = [k \in 0 .. m + 1 |-> v[k]] /\ u = [k \in 0 .. m + 1 |-> u[k]]
    OBVIOUS
  <2>5. \A k \in 0 .. m + 1 : v[k] = u[k]
    BY <2>3
  <2> HIDE DEF v, u
  <2>6. v = u
    BY <2>4, <2>5
  <2>7. Search(m + 1, v)
    BY <2>6 DEF u, Search
  <2> QED  BY <2>7, <1>2
<1> HIDE DEF S
<1>3. Nat \subseteq S
  BY <1>1, <1>2, Induction
<1> QED  BY <1>3 DEF S

\* If the blocks in use are the first `used` ones, the search ends at the last of them.
LEMMA SearchEnds ==
  ASSUME size \in Nat, size > 0, FileBlocks \in Nat, size <= FileBlocks, NEW used \in 1 .. size,
         \A i \in 0 .. size - 1 : Used(i) <=> i < used
  PROVE  LastUsed = used - 1
<1> DEFINE w == CHOOSE w : Search(FileBlocks, w)
<1>1. Search(FileBlocks, w)
  BY SearchExists
<1>2. LastUsed = w[FileBlocks].bgn
  BY DEF LastUsed, Search
<1> HIDE DEF w
<1>3. \A k \in 0 .. FileBlocks : w[k] = IF k = 0 THEN [bgn |-> 0, end |-> size - 1] ELSE Narrowed(w[k - 1])
  BY <1>1 DEF Search
<1> DEFINE Within(b, e, k) ==
             /\ b \in 0 .. used - 1 /\ e \in used - 1 .. size - 1
             /\ b = e \/ e - b <= size - 1 - k
           S == {k \in Nat : k <= FileBlocks => \E b, e \in Int : w[k] = [bgn |-> b, end |-> e] /\ Within(b, e, k)}
<1>4. 0 \in S
  <2>1. w[0] = [bgn |-> 0, end |-> size - 1] /\ 0 \in Int /\ size - 1 \in Int
    BY <1>3
  <2>2. Within(0, size - 1, 0)
    OBVIOUS
  <2> QED  BY <2>1, <2>2
<1>5. ASSUME NEW k \in Nat, k \in S PROVE k + 1 \in S
  <2> SUFFICES ASSUME k + 1 <= FileBlocks
               PROVE  \E b, e \in Int : w[k + 1] = [bgn |-> b, end |-> e] /\ Within(b, e, k + 1)
    OBVIOUS
  <2>1. PICK b, e \in Int : w[k] = [bgn |-> b, end |-> e] /\ Within(b, e, k)
    BY <1>5
  <2>2. w[k + 1] = Narrowed(w[k])
    <3>1. k + 1 \in 0 .. FileBlocks /\ k + 1 # 0 /\ (k + 1) - 1 = k
      OBVIOUS
    <3> QED  BY <1>3, <3>1
  <2> DEFINE mid == Middle(b, e)
  <2>3. CASE b >= e
    <3>1. w[k + 1] = [bgn |-> b, end |-> e]
      BY <2>1, <2>2, <2>3 DEF Narrowed
    <3>2. Within(b, e, k + 1)
      BY <2>1, <2>3
    <3> QED  BY <3>1, <3>2
  <2>4. CASE b < e
    <3>1. mid \in Int /\ b < mid /\ mid <= e
      BY <2>4 DEF Middle
    <3> HIDE DEF mid
    <3>2. Narrowed(w[k]) = IF Used(mid) THEN [bgn |-> mid, end |-> e] ELSE [bgn |-> b, end |-> mid - 1]
      <4>1. w[k].bgn = b /\ w[k].end = e /\ ~(b >= e)
        BY <2>1, <2>4
      <4>2. [w[k] EXCEPT !.bgn = mid] = [bgn |-> mid, end |-> e] /\ [w[k] EXCEPT !.end = mid - 1] = [bgn |-> b, end |-> mid - 1]
        BY <2>1
      <4> QED  BY <4>1, <4>2 DEF Narrowed, mid
    <3>3. CASE Used(mid)
      <4>1. mid < used
        BY <3>1, <3>3, <2>1
      <4>2. Within(mid, e, k + 1)
        BY <4>1, <3>1, <2>1, <2>4
      <4> QED  BY <4>2, <3>1, <3>2, <3>3, <2>2
    <3>4. CASE ~Used(mid)
      <4>1. ~(mid < used)
        BY <3>1, <3>4, <2>1
      <4>2. Within(b, mid - 1, k + 1) /\ mid - 1 \in Int
        BY <4>1, <3>1, <2>1, <2>4
      <4> QED  BY <4>2, <3>2, <3>4, <2>2
    <3> QED  BY <3>3, <3>4
  <2> QED  BY <2>3, <2>4
<1> HIDE DEF S
<1>6. Nat \subseteq S
  BY <1>4, <1>5, Induction
<1>7. PICK b, e \in Int : w[FileBlocks] = [bgn |-> b, end |-> e] /\ Within(b, e, FileBlocks)
  BY <1>6 DEF S
<1> QED  BY <1>2, <1>7

-----------------------------------------------------------------------------
(* The invariant.                                                          *)

\* Blocks, queues and files have room.
SketchSizes == {DataDim, Buffers, FileBlocks} \subseteq Nat \ {0}

\* What the ticks of the block in hand are.
InHand == IF cur = <<>> THEN 0 ELSE TicksOf(cur[1])
\* The file, as it will be when all full blocks are written.
Written == SubSeq(sd, 1, bn) \o full
\* What the variables hold.
SketchTypes ==
  /\ tick \in Nat /\ typed \in BOOLEAN /\ abort \in BOOLEAN /\ over \in Nat /\ empty \in Nat
  /\ pc \in {"idle", "erase", "start", "record", "end", "rename", "done", "reset", "recovered", "refused"}
  /\ cur = <<>> \/ \E b \in Blocks : cur = <<b>>
  /\ full \in Seq(Blocks) /\ sd \in [1 .. FileBlocks -> Blocks]
  /\ size \in -1 .. FileBlocks /\ bn \in -1 .. FileBlocks
\* Blocks that are not empty wait, and are in the file from the first on; behind them is nothing.
BlocksInUse ==
  /\ cur # <<>> => Len(cur[1].data) \in 1 .. DataDim - 1
  /\ \A i \in 1 .. Len(full) : Len(full[i].data) \in 1 .. DataDim
  /\ bn >= 0 => \A i \in 1 .. FileBlocks : Len(sd[i].data) \in 1 .. DataDim <=> i <= bn
  /\ bn >= 1 => Len(sd[1].data) \in 1 .. DataDim
\* How much of the file there is, and what the sketch still has to write.
Places ==
  /\ pc = "idle" => bn = -1 /\ size = -1
  /\ pc = "erase" => bn = -1 /\ size = FileBlocks
  /\ pc = "start" => bn = 0 /\ size = FileBlocks /\ tick = 0
  /\ pc = "record" => bn \in 0 .. FileBlocks - 1 /\ size = FileBlocks
  /\ pc = "end" => bn >= 0 /\ size = FileBlocks
  /\ pc = "rename" => bn >= 0 /\ size = bn
  /\ pc = "done" => bn >= 0
  /\ pc = "reset" => size = FileBlocks \/ (bn >= 0 /\ size = bn)
  /\ pc \in {"idle", "erase"} => tick = 0
\* Every tick is accounted for while blocks are recorded and when they are all written.
TicksKept ==
  /\ pc = "record" => Ticks(Written) + InHand + over = tick
  /\ pc \in {"end", "rename", "done"} /\ ~abort /\ bn < FileBlocks =>
       cur = <<>> /\ full = <<>> /\ Ticks(SubSeq(sd, 1, bn)) + over = tick
\* The samples that are written and those that wait are in time; a block is begun when no tick is
\* waiting to be counted as lost.  Until it is erased the file is full of old blocks.
SketchTimes ==
  /\ pc = "record" => InTime(Written \o cur) /\ (cur # <<>> => over = 0)
  /\ bn >= 0 => InTime(SubSeq(sd, 1, bn))
  /\ bn = -1 => \A i \in 1 .. FileBlocks : Len(sd[i].data) = DataDim
\* The log has blocks in use, and is there at the end.
FileRight ==
  /\ file \in Seq(Blocks) /\ \A k \in 1 .. Len(file) : Len(file[k].data) \in 1 .. DataDim
  /\ pc \notin {"done", "recovered"} => file = <<>>
\* The invariant.
SketchInv ==
  /\ SketchTypes /\ BlocksInUse /\ Places /\ TicksKept /\ HasTheBlocks /\ (~abort => Accounted)
  /\ SketchTimes /\ FileRight

\* The sketch starts with the invariant.
LEMMA SketchStarts == ASSUME SketchSizes, Init PROVE SketchInv
<1>1. [i \in 1 .. FileBlocks |-> Stale] \in [1 .. FileBlocks -> Blocks]
  BY DEF Stale, Block, Blocks, SketchSizes
<1>2. SketchTypes
  <2>1. sd \in [1 .. FileBlocks -> Blocks] /\ full \in Seq(Blocks)
    BY <1>1 DEF Init
  <2>2. FileBlocks \in Nat /\ -1 \in -1 .. FileBlocks
    BY DEF SketchSizes
  <2> QED  BY <2>1, <2>2 DEF SketchTypes, Init
<1>3. \A i \in 1 .. FileBlocks : Len(sd[i].data) = DataDim
  <2> DEFINE d == [i \in 1 .. DataDim |-> -1]
  <2>1. Len(d) = DataDim
    BY DEF SketchSizes
  <2> HIDE DEF d
  <2>2. \A i \in 1 .. FileBlocks : sd[i].data = d
    BY DEF Init, Stale, Block, d
  <2> QED  BY <2>1, <2>2
<1>4. <<>> \in Seq(Blocks) /\ Len(<<>>) = 0
  OBVIOUS
<1> QED
  BY <1>2, <1>3, <1>4 DEF SketchInv, SketchSizes, BlocksInUse, Places, TicksKept, HasTheBlocks, Accounted, Init,
     SketchTimes, FileRight

\* The steps that write no block.
LEMMA CreateKeeps == ASSUME SketchSizes, SketchInv, CreateBinFile PROVE SketchInv'
BY DEF SketchSizes, CreateBinFile, queues, SketchInv, SketchTypes, BlocksInUse, Places, TicksKept,
       HasTheBlocks, Accounted, SketchTimes, FileRight

\* The file is erased.
LEMMA EraseKeeps == ASSUME SketchSizes, SketchInv, Erase PROVE SketchInv'
<1>1. Blank \in Blocks /\ Len(Blank.data) = 0
  BY DEF Blank, Block, Blocks
<1>2. SubSeq(sd', 1, 0) = <<>>
  <2>1. sd' \in Seq(Blocks)
    BY <1>1 DEF Erase, SketchSizes
  <2> QED  BY <2>1
<1>3. SketchTimes'
  <2>1. bn' = 0 /\ pc' = "start"
    BY DEF Erase
  <2>2. InTime(SubSeq(sd', 1, bn'))
    <3>1. SubSeq(sd', 1, bn') = <<>>
      BY ONLY <1>2, <2>1
    <3> QED  BY ONLY <3>1, InTimeEmpty
  <2> QED  BY <2>1, <2>2 DEF SketchTimes
<1> QED
  BY <1>1, <1>3 DEF SketchSizes, Erase, queues, SketchInv, SketchTypes, BlocksInUse, Places, TicksKept,
              HasTheBlocks, Accounted, FileRight

\* The recording begins.
LEMMA RecordKeeps == ASSUME SketchSizes, SketchInv, RecordBinFile PROVE SketchInv'
<1>1. SketchTypes' /\ BlocksInUse' /\ Places' /\ HasTheBlocks' /\ (~abort' => Accounted')
  BY DEF SketchSizes, RecordBinFile, SketchInv, SketchTypes, BlocksInUse, Places, HasTheBlocks, Accounted
<1>2. Ticks(Written)' = 0 /\ Written' = <<>> /\ SubSeq(sd', 1, bn') = <<>>
  <2>1. bn' = 0 /\ full' = <<>> /\ sd' \in Seq(Blocks)
    BY <1>1 DEF RecordBinFile, SketchInv, Places, SketchTypes, SketchSizes
  <2>2. SubSeq(sd', 1, bn') = <<>> /\ <<>> \in Seq(Blocks) /\ <<>> \o <<>> = <<>>
    BY <2>1
  <2>3. Written' = <<>>
    <3>1. Written' = SubSeq(sd', 1, bn') \o full'
      BY DEF Written
    <3> QED  BY ONLY <2>1, <2>2, <3>1
  <2>4. Ticks(<<>>) = 0
    BY <2>2, TicksFacts
  <2> QED  BY ONLY <2>2, <2>3, <2>4
<1>3. SketchTimes' /\ FileRight'
  <2>1. Written' \o <<>> = <<>>
    BY <1>2
  <2> QED  BY <1>2, <2>1, InTimeEmpty DEF SketchInv, SketchTimes, FileRight, RecordBinFile, Places
<1> QED
  BY <1>1, <1>2, <1>3 DEF SketchInv, TicksKept, InHand, RecordBinFile, Places

\* The file is cut to its blocks.
LEMMA EndKeeps == ASSUME SketchSizes, SketchInv, End PROVE SketchInv'
BY DEF SketchSizes, End, queues, SketchInv, SketchTypes, BlocksInUse, Places, TicksKept,
       HasTheBlocks, Accounted, SketchTimes, FileRight

\* The first blocks of a file.
LEMMA FirstBlocks ==
  ASSUME NEW n \in Nat, n <= FileBlocks, FileBlocks \in Nat, sd \in [1 .. FileBlocks -> Blocks],
         \A i \in 1 .. FileBlocks : i <= n => Len(sd[i].data) \in 1 .. DataDim
  PROVE  /\ SubSeq(sd, 1, n) \in Seq(Blocks) /\ Len(SubSeq(sd, 1, n)) = n
         /\ \A k \in 1 .. Len(SubSeq(sd, 1, n)) : Len(SubSeq(sd, 1, n)[k].data) \in 1 .. DataDim
<1> DEFINE f == SubSeq(sd, 1, n)
<1>1. f \in Seq(Blocks) /\ Len(f) = n /\ \A k \in 1 .. n : f[k] = sd[k]
  OBVIOUS
<1> HIDE DEF f
<1>2. \A k \in 1 .. Len(f) : k \in 1 .. FileBlocks /\ k <= n
  BY <1>1
<1>3. \A k \in 1 .. Len(f) : Len(f[k].data) \in 1 .. DataDim
  BY <1>1, <1>2
<1> QED  BY <1>1, <1>3 DEF f

\* It gets its name.
LEMMA RenameKeeps == ASSUME SketchSizes, SketchInv, RenameBinFile PROVE SketchInv'
<1>1. UNCHANGED <<tick, typed, abort, cur, full, empty, over, sd, bn>>
      /\ pc = "rename" /\ pc' = "done" /\ file' = SubSeq(sd, 1, size) /\ size' = -1
  BY DEF RenameBinFile, queues
<1>2. size = bn /\ bn >= 0
  BY <1>1 DEF SketchInv, Places
<1>3. SketchTypes' /\ BlocksInUse' /\ Places' /\ TicksKept' /\ HasTheBlocks'
  BY <1>1, <1>2 DEF SketchSizes, SketchInv, SketchTypes, BlocksInUse, Places, TicksKept, HasTheBlocks
<1>4. ~abort /\ bn < FileBlocks => Ticks(SubSeq(sd, 1, bn)) + over = tick
  BY <1>1 DEF SketchInv, TicksKept
<1>5. SketchTimes'
  BY <1>1 DEF SketchInv, SketchTimes
<1>6. FileRight'
  <2>1. bn <= FileBlocks /\ FileBlocks \in Nat /\ sd \in [1 .. FileBlocks -> Blocks] /\ bn \in Nat
        /\ \A i \in 1 .. FileBlocks : Len(sd[i].data) \in 1 .. DataDim <=> i <= bn
    BY <1>2 DEF SketchInv, SketchTypes, SketchSizes, BlocksInUse
  <2> QED  BY <1>1, <1>2, <2>1, FirstBlocks DEF FileRight
<1> QED
  BY <1>1, <1>2, <1>3, <1>4, <1>5, <1>6 DEF SketchInv, Accounted

\* The program starts again.
LEMMA ResetKeeps == ASSUME SketchSizes, SketchInv, Reset PROVE SketchInv'
BY DEF SketchSizes, Reset, SketchInv, SketchTypes, BlocksInUse, Places, TicksKept,
       HasTheBlocks, Accounted, SketchTimes, FileRight

\* A character is typed.
LEMMA TypeKeeps == ASSUME SketchSizes, SketchInv, Type PROVE SketchInv'
<1>1. UNCHANGED <<tick, pc, file, abort, cur, full, empty, over, sd, size, bn>> /\ typed' = TRUE
  BY DEF Type, queues
<1>2. Written' = Written /\ InHand' = InHand
  BY <1>1 DEF Written, InHand
<1> QED
  BY <1>1, <1>2 DEF SketchInv, SketchTypes, BlocksInUse, Places, TicksKept, HasTheBlocks, Accounted,
     SketchTimes, FileRight

\* A file that is recovered has the blocks that were written.
LEMMA RecoverKeeps == ASSUME SketchSizes, SketchInv, RecoverTmpFile PROVE SketchInv'
<1>1. UNCHANGED <<tick, typed, abort, cur, full, empty, over, sd, bn>> /\ pc = "reset"
      /\ pc' \in {"refused", "recovered"} /\ size' \in {size, -1}
  BY DEF RecoverTmpFile, queues
<1>2. SketchTypes' /\ BlocksInUse' /\ Places' /\ TicksKept' /\ (~abort' => Accounted')
  BY <1>1 DEF SketchSizes, SketchInv, SketchTypes, BlocksInUse, Places, TicksKept, Accounted
<1>5. SketchTimes'
  BY <1>1 DEF SketchInv, SketchTimes
<1>3. CASE size < 1 \/ Len(sd[1].data) # DataDim
  <2>1. pc' = "refused" /\ file' = file
    BY <1>3 DEF RecoverTmpFile
  <2>2. bn < 1 \/ Len(sd[1].data) < DataDim
    BY <1>1, <1>3 DEF SketchInv, Places, BlocksInUse, SketchTypes, SketchSizes
  <2> QED  BY <1>1, <1>2, <1>5, <2>1, <2>2 DEF SketchInv, HasTheBlocks, FileRight
<1>4. CASE ~(size < 1 \/ Len(sd[1].data) # DataDim)
  <2>1. pc' = "recovered" /\ file' = SubSeq(sd, 1, LastUsed + 1)
    BY <1>4 DEF RecoverTmpFile
  <2>2. ASSUME bn >= 0 PROVE LastUsed + 1 = bn
    <3>1. size \in Nat /\ size > 0 /\ size <= FileBlocks /\ bn <= size /\ FileBlocks \in Nat
      BY <1>1, <1>4 DEF SketchInv, SketchTypes, Places, SketchSizes
    <3>2. \A i \in 1 .. FileBlocks : Len(sd[i].data) \in 1 .. DataDim <=> i <= bn
      BY <2>2 DEF SketchInv, BlocksInUse
    <3>3. bn \in 1 .. size
      <4>1. Len(sd[1].data) \in 1 .. DataDim /\ 1 \in 1 .. FileBlocks
        BY <1>4, <3>1 DEF SketchSizes
      <4> QED  BY <3>1, <3>2, <4>1 DEF SketchInv, SketchTypes
    <3>4. \A i \in 0 .. size - 1 : Used(i) <=> i < bn
      <4> TAKE i \in 0 .. size - 1
      <4>1. i + 1 \in 1 .. FileBlocks
        BY <3>1
      <4>2. Used(i) <=> i + 1 <= bn
        BY <3>2, <4>1 DEF Used
      <4> QED  BY <3>3, <4>2, <3>1
    <3>5. LastUsed = bn - 1
      BY <3>1, <3>3, <3>4, SearchEnds
    <3> QED  BY <3>3, <3>5, <3>1
  <2>3. FileRight'
    <3>1. size \in Nat /\ size > 0 /\ size <= FileBlocks /\ FileBlocks \in Nat /\ sd \in [1 .. FileBlocks -> Blocks]
          /\ bn \in -1 .. FileBlocks
      BY <1>1, <1>4 DEF SketchInv, SketchTypes, SketchSizes
    <3>2. CASE bn >= 0
      <4>1. \A i \in 1 .. FileBlocks : Len(sd[i].data) \in 1 .. DataDim <=> i <= bn
        BY <3>2 DEF SketchInv, BlocksInUse
      <4>2. bn \in Nat /\ bn <= FileBlocks /\ file' = SubSeq(sd, 1, bn)
        BY <3>1, <3>2, <2>1, <2>2
      <4> QED  BY <2>1, <3>1, <4>1, <4>2, FirstBlocks DEF FileRight
    <3>3. CASE bn = -1
      <4>1. \A i \in 1 .. FileBlocks : Len(sd[i].data) = DataDim
        BY <3>3 DEF SketchInv, SketchTimes
      <4>2. DataDim \in 1 .. DataDim
        BY DEF SketchSizes
      <4>3. \A i \in 0 .. size - 1 : Used(i) <=> i < size
        <5> TAKE i \in 0 .. size - 1
        <5>1. i + 1 \in 1 .. FileBlocks /\ i < size
          BY <3>1
        <5> QED  BY <4>1, <4>2, <5>1 DEF Used
      <4>4. size \in 1 .. size
        BY <3>1
      <4>5. LastUsed = size - 1
        BY <3>1, <4>3, <4>4, SearchEnds
      <4>6. file' = SubSeq(sd, 1, size)
        BY <3>1, <4>5, <2>1
      <4>7. \A i \in 1 .. FileBlocks : i <= size => Len(sd[i].data) \in 1 .. DataDim
        BY <4>1, <4>2
      <4> QED  BY <2>1, <3>1, <4>6, <4>7, FirstBlocks DEF FileRight
    <3> QED  BY <3>1, <3>2, <3>3
  <2> QED  BY <1>1, <1>2, <1>5, <2>1, <2>2, <2>3 DEF SketchInv, HasTheBlocks
<1> QED  BY <1>3, <1>4

-----------------------------------------------------------------------------
(* A pass of the loop.                                                     *)

\* What the first half of the loop may leave, h, at the tick t.
InHandOf(c) == IF c = <<>> THEN 0 ELSE TicksOf(c[1])
\* What the first half of the loop leaves is right.
HalfRight(h, t) ==
  /\ h.cur = <<>> \/ \E b \in Blocks : h.cur = <<b>> /\ Len(b.data) \in 1 .. DataDim - 1
  /\ h.full \in Seq(Blocks) /\ \A i \in 1 .. Len(h.full) : Len(h.full[i].data) \in 1 .. DataDim
  /\ h.empty \in Nat /\ h.over \in Nat
  /\ Ticks(SubSeq(sd, 1, bn) \o h.full) + InHandOf(h.cur) + h.over = t
  /\ InTime((SubSeq(sd, 1, bn) \o h.full) \o h.cur) /\ (h.cur # <<>> => h.over = 0)

\* A block goes to the end of the queue of full ones.
LEMMA Queued ==
  ASSUME SketchSizes, NEW f \in Seq(Blocks), NEW b \in Blocks, NEW p \in Seq(Blocks),
         \A i \in 1 .. Len(f) : Len(f[i].data) \in 1 .. DataDim, Len(b.data) \in 1 .. DataDim
  PROVE  /\ Append(f, b) \in Seq(Blocks)
         /\ \A i \in 1 .. Len(Append(f, b)) : Len(Append(f, b)[i].data) \in 1 .. DataDim
         /\ Ticks(p \o Append(f, b)) = Ticks(p \o f) + TicksOf(b)
         /\ Ticks(p \o f) \in Nat /\ f \o <<b>> = Append(f, b)
<1> DEFINE g == Append(f, b)
<1>1. g \in Seq(Blocks) /\ Len(g) = Len(f) + 1 /\ g[Len(f) + 1] = b /\ \A i \in 1 .. Len(f) : g[i] = f[i]
  OBVIOUS
<1>2. p \o g = Append(p \o f, b) /\ p \o f \in Seq(Blocks) /\ f \o <<b>> = g
  OBVIOUS
<1>3. Ticks(p \o g) = Ticks(p \o f) + TicksOf(b) /\ Ticks(p \o f) \in Nat
  BY <1>2, TicksFacts
<1>4. \A i \in 1 .. Len(g) : Len(g[i].data) \in 1 .. DataDim
  <2> HIDE DEF g
  <2> TAKE i \in 1 .. Len(g)
  <2>1. CASE i = Len(f) + 1
    BY <1>1, <2>1
  <2>2. CASE i \in 1 .. Len(f)
    BY <1>1, <2>2
  <2> QED  BY <1>1, <2>1, <2>2
<1> QED  BY <1>1, <1>2, <1>3, <1>4

\* The first half of the loop loses no tick that it does not count.
LEMMA ClosedRight ==
  ASSUME SketchSizes, SketchInv, pc = "record"
  PROVE  HalfRight(Closed, tick) /\ Closed.cur = <<>>
<1> DEFINE p == SubSeq(sd, 1, bn)
<1>1. p \in Seq(Blocks) /\ full \in Seq(Blocks)
  BY DEF SketchInv, SketchTypes, Places, SketchSizes
<1>2. \A i \in 1 .. Len(full) : Len(full[i].data) \in 1 .. DataDim
  BY DEF SketchInv, BlocksInUse
<1>3. Ticks(p \o full) + InHandOf(cur) + over = tick /\ empty \in Nat /\ over \in Nat
  BY DEF SketchInv, TicksKept, InHandOf, InHand, Written, SketchTypes
<1>4. p \o full \in Seq(Blocks) /\ Ticks(p \o full) \in Nat
  <2>1. p \o full \in Seq(Blocks)
    BY <1>1
  <2> QED  BY <2>1, TicksFacts
<1>7. InTime((p \o full) \o cur)
  BY DEF SketchInv, SketchTimes, Written
<1> HIDE DEF p
<1>5. CASE cur = <<>>
  <2>1. full \o cur = full
    BY <1>5, <1>1
  <2>2. Closed.cur = <<>> /\ Closed.full = full /\ Closed.empty = empty /\ Closed.over = over
    BY <2>1 DEF Closed
  <2>3. InTime((p \o full) \o Closed.cur)
    BY <1>5, <1>7, <2>2
  <2> QED  BY <1>1, <1>2, <1>3, <1>5, <2>2, <2>3 DEF HalfRight, InHandOf, p
<1>6. CASE cur # <<>>
  <2>1. PICK b \in Blocks : cur = <<b>>
    BY <1>6 DEF SketchInv, SketchTypes
  <2>2. Len(b.data) \in 1 .. DataDim /\ InHandOf(cur) = TicksOf(b)
    BY <2>1 DEF SketchSizes, SketchInv, BlocksInUse, InHandOf
  <2>3. TicksOf(b) \in Nat
    BY BlockTicks
  <2>4. /\ full \o cur \in Seq(Blocks) /\ Ticks(p \o (full \o cur)) = Ticks(p \o full) + TicksOf(b)
        /\ \A i \in 1 .. Len(full \o cur) : Len((full \o cur)[i].data) \in 1 .. DataDim
    <3>1. full \o cur = Append(full, b)
      BY <1>1, <2>1
    <3> QED  BY <1>1, <1>2, <2>2, <3>1, Queued
  <2>5. Ticks(p \o (full \o cur)) + 0 + over = tick
    BY <1>3, <1>4, <2>2, <2>3, <2>4
  <2>6. InTime((p \o (full \o cur)) \o <<>>)
    <3>1. <<b>> \in Seq(Blocks)
      BY <2>1
    <3>2. (p \o full) \o <<b>> = p \o (full \o <<b>>) /\ p \o (full \o <<b>>) \in Seq(Blocks)
      BY <1>1, <3>1
    <3>3. (p \o (full \o <<b>>)) \o <<>> = p \o (full \o <<b>>)
      BY <3>2
    <3> QED  BY <1>7, <2>1, <3>2, <3>3
  <2>7. Closed.cur = <<>> /\ Closed.full = full \o cur /\ Closed.empty = empty /\ Closed.over = over
    BY DEF Closed
  <2> QED  BY <1>3, <2>4, <2>5, <2>6, <2>7 DEF HalfRight, InHandOf, p
<1> QED  BY <1>5, <1>6

\* A sample that is taken or counted keeps it so.
LEMMA FilledRight ==
  ASSUME SketchSizes, SketchInv, pc = "record"
  PROVE  HalfRight(Filled, tick + 1)
<1> DEFINE p == SubSeq(sd, 1, bn)
<1>1. p \in Seq(Blocks) /\ full \in Seq(Blocks)
  BY DEF SketchInv, SketchTypes, Places, SketchSizes
<1>2. \A i \in 1 .. Len(full) : Len(full[i].data) \in 1 .. DataDim
  BY DEF SketchInv, BlocksInUse
<1>3. /\ Ticks(p \o full) + InHandOf(cur) + over = tick /\ empty \in Nat /\ over \in Nat
      /\ DataDim \in Nat /\ DataDim > 0 /\ tick \in Nat
  BY DEF SketchInv, TicksKept, InHandOf, InHand, Written, SketchTypes, SketchSizes
<1>7. InTime((p \o full) \o cur) /\ (cur # <<>> => over = 0)
  BY DEF SketchInv, SketchTimes, Written
<1>4. p \o full \in Seq(Blocks) /\ Ticks(p \o full) \in Nat
  <2>1. p \o full \in Seq(Blocks)
    BY <1>1
  <2> QED  BY <2>1, TicksFacts
<1> HIDE DEF p
<1>5. CASE cur = <<>> /\ empty = 0
  <2>1. Filled = [cur |-> cur, full |-> full, empty |-> 0, over |-> over + 1, lost |-> TRUE]
    BY <1>5 DEF Filled
  <2>2. InHandOf(cur) = 0 /\ Ticks(p \o full) + 0 + (over + 1) = tick + 1
    BY <1>3, <1>4, <1>5 DEF InHandOf
  <2>3. Filled.cur = cur /\ Filled.full = full /\ Filled.empty = 0 /\ Filled.over = over + 1
    BY <2>1
  <2> QED  BY <1>1, <1>2, <1>3, <1>5, <1>7, <2>2, <2>3 DEF HalfRight, p
<1>6. CASE ~(cur = <<>> /\ empty = 0)
  <2> DEFINE taken == cur = <<>> /\ empty > 0
             block == IF taken THEN Block(over, <<>>) ELSE cur[1]
             more == [overrun |-> block.overrun, data |-> Append(block.data, tick)]
  <2>1. /\ block \in Blocks /\ Len(block.data) < DataDim
        /\ TicksOf(block) + (IF taken THEN 0 ELSE over) = InHandOf(cur) + over
    <3>1. CASE taken
      BY <3>1, <1>3 DEF Block, Blocks, TicksOf, InHandOf
    <3>2. CASE ~taken
      <4>1. cur # <<>>
        BY <3>2, <1>3, <1>6
      <4>2. PICK b \in Blocks : cur = <<b>>
        BY <4>1 DEF SketchInv, SketchTypes
      <4>3. block = b /\ InHandOf(cur) = TicksOf(b) /\ Len(b.data) \in 1 .. DataDim - 1
        BY <3>2, <4>1, <4>2 DEF SketchInv, BlocksInUse, InHandOf
      <4> QED  BY <3>2, <4>3, <1>3
    <3> QED  BY <3>1, <3>2
\* What is taken begins where the file and the queue end.
  <2>8. InTime(p \o full) /\ InTimeAfter(p \o full, block) /\ Ticks(p \o full) + TicksOf(block) = tick
        /\ (~taken => over = 0)
    <3>1. CASE taken
      <4>1. (p \o full) \o <<>> = p \o full /\ cur = <<>> /\ block = Block(over, <<>>) /\ <<>> \in Seq(Int) /\ Len(<<>>) = 0
        BY <1>4, <3>1
      <4>2. block.data = <<>> /\ TicksOf(block) = over
        <5> DEFINE e == <<>>
        <5>1. e \in Seq(Int) /\ Len(e) = 0 /\ over \in Nat
          BY <4>1, <1>3
        <5> HIDE DEF e
        <5>2. TicksOf(Block(over, e)) = over + Len(e) /\ Block(over, e).data = e
          BY <5>1, BlockIs
        <5>3. block = Block(over, e)
          BY <4>1 DEF e
        <5> HIDE DEF block
        <5>4. TicksOf(block) = over /\ block.data = e
          BY <5>1, <5>2, <5>3
        <5> QED  BY <5>4 DEF e
      <4>3. InTimeAfter(p \o full, block)
        BY <4>1, <4>2 DEF InTimeAfter
      <4>4. InHandOf(cur) = 0
        BY <4>1 DEF InHandOf
      <4> QED  BY <4>1, <4>2, <4>3, <4>4, <3>1, <1>3, <1>4, <1>7
    <3>2. CASE ~taken
      <4>1. cur # <<>>
        BY <3>2, <1>3, <1>6
      <4>2. PICK b \in Blocks : cur = <<b>>
        BY <4>1 DEF SketchInv, SketchTypes
      <4>3. block = b /\ InHandOf(cur) = TicksOf(b) /\ TicksOf(b) \in Nat
        BY <3>2, <4>1, <4>2, BlockTicks DEF InHandOf
      <4>4. InTime(Append(p \o full, b))
        <5>1. (p \o full) \o <<b>> = Append(p \o full, b)
          BY <1>4, <4>2
        <5> QED  BY <1>7, <4>2, <5>1
      <4>5. InTime(p \o full) /\ InTimeAfter(p \o full, b)
        BY <1>4, <4>2, <4>4, InTimeAppend
      <4> HIDE DEF taken, block
      <4> QED  BY <3>2, <4>1, <4>3, <4>5, <1>3, <1>4, <1>7
    <3> QED  BY <3>1, <3>2
  <2>2. [block EXCEPT !.data = Append(@, tick)] = more
    <3> HIDE DEF block
    <3> QED  BY <2>1 DEF Blocks
  <2>3. /\ Filled.cur = IF Len(more.data) = DataDim THEN <<>> ELSE <<more>>
        /\ Filled.full = IF Len(more.data) = DataDim THEN Append(full, more) ELSE full
        /\ Filled.empty = IF taken THEN empty - 1 ELSE empty
        /\ Filled.over = IF taken THEN 0 ELSE over
    <3>1. Filled =
            LET m == [block EXCEPT !.data = Append(@, tick)] IN
            [cur |-> IF Len(m.data) = DataDim THEN <<>> ELSE <<m>>,
             full |-> IF Len(m.data) = DataDim THEN Append(full, m) ELSE full,
             empty |-> IF taken THEN empty - 1 ELSE empty,
             over |-> IF taken THEN 0 ELSE over, lost |-> FALSE]
      BY <1>6, Zenon DEF Filled
    <3> HIDE DEF block, more
    <3>2. Filled =
            [cur |-> IF Len(more.data) = DataDim THEN <<>> ELSE <<more>>,
             full |-> IF Len(more.data) = DataDim THEN Append(full, more) ELSE full,
             empty |-> IF taken THEN empty - 1 ELSE empty,
             over |-> IF taken THEN 0 ELSE over, lost |-> FALSE]
      BY <2>2, <3>1
    <3> QED  BY <3>2
  <2>4. more \in Blocks /\ Len(more.data) \in 1 .. DataDim /\ TicksOf(more) = TicksOf(block) + 1 /\ TicksOf(block) \in Nat
    <3> HIDE DEF block
    <3> QED  BY <2>1, <1>3 DEF Blocks, TicksOf
  <2>5. Filled.empty \in Nat /\ Filled.over \in Nat
    BY <2>3, <1>3
  <2>9. Filled.over = 0
    <3> HIDE DEF block, more
    <3> QED  BY <2>3, <2>8
  <2>10. InTime(Append(p \o full, more))
    <3>1. /\ more.overrun = block.overrun /\ more.data = Append(block.data, tick) /\ more \in Blocks
          /\ block.overrun \in Nat /\ block.data \in Seq(Int) /\ TicksOf(block) = block.overrun + Len(block.data)
      <4>1. block.overrun \in Nat /\ block.data \in Seq(Int) /\ TicksOf(block) = block.overrun + Len(block.data)
        <5> HIDE DEF block
        <5> QED  BY <2>1, BlockHas
      <4> HIDE DEF block
      <4> QED  BY <2>4, <4>1
    <3> DEFINE d == block.data
               e == Append(d, tick)
               n == Len(d)
               T == Ticks(p \o full)
               o == block.overrun
    <3>2. n \in Nat /\ Len(e) = n + 1 /\ e[n + 1] = tick /\ \A i \in 1 .. n : e[i] = d[i]
      <4>1. d \in Seq(Int) /\ tick \in Int
        BY <3>1, <1>3
      <4> HIDE DEF d
      <4> QED  BY <4>1
    <3>3. T \in Nat /\ T + (o + n) = tick /\ \A i \in 1 .. n : d[i] = T + o + i - 1
      BY <1>4, <2>8, <3>1 DEF InTimeAfter
    <3> HIDE DEF block, more
    <3>4. o \in Nat
      BY <3>1
    <3>5. more.data = e /\ more.overrun = o
      BY <3>1
    <3> HIDE DEF d, e, n, T, o
    <3>6. \A i \in 1 .. Len(e) : e[i] = T + o + i - 1
      <4> TAKE i \in 1 .. Len(e)
      <4>1. CASE i = n + 1
        BY <4>1, <3>2, <3>3, <3>4
      <4>2. CASE i \in 1 .. n
        BY <4>2, <3>2, <3>3
      <4> QED  BY <3>2, <4>1, <4>2
    <3>7. InTimeAfter(p \o full, more)
      BY <3>5, <3>6 DEF InTimeAfter, T
    <3> QED  BY <1>4, <2>8, <3>1, <3>7, InTimeAppend
  <2> HIDE DEF taken, block, more
  <2>6. CASE Len(more.data) = DataDim
    <3>1. Filled.cur = <<>> /\ Filled.full = Append(full, more) /\ InHandOf(Filled.cur) = 0
      BY <2>3, <2>6 DEF InHandOf
    <3>2. /\ Filled.full \in Seq(Blocks) /\ Ticks(p \o Filled.full) = Ticks(p \o full) + TicksOf(more)
          /\ \A i \in 1 .. Len(Filled.full) : Len(Filled.full[i].data) \in 1 .. DataDim
      BY <1>1, <1>2, <2>4, <3>1, Queued
    <3>3. InHandOf(cur) \in Nat
      BY <1>3, BlockTicks DEF InHandOf, SketchInv, SketchTypes
    <3>4. Ticks(p \o Filled.full) + 0 + Filled.over = tick + 1
      <4> DEFINE T == Ticks(p \o full)
      <4>1. T \in Nat /\ T + InHandOf(cur) + over = tick
        BY <1>3, <1>4
      <4>2. Ticks(p \o Filled.full) = T + TicksOf(more)
        BY <3>2
      <4> HIDE DEF T
      <4>3. TicksOf(more) = TicksOf(block) + 1
        BY <2>4
      <4>4. TicksOf(block) + Filled.over = InHandOf(cur) + over
        BY <2>1, <2>3
      <4>5. T + TicksOf(more) + Filled.over = tick + 1
        BY <4>1, <4>3, <4>4, <2>4, <2>5, <3>3, <1>3
      <4> QED  BY <4>2, <4>5, <4>1, <2>4, <2>5, <4>3
    <3>5. InTime((p \o Filled.full) \o Filled.cur)
      <4>1. p \o Append(full, more) = Append(p \o full, more) /\ p \o Append(full, more) \in Seq(Blocks)
        BY <1>1, <2>4
      <4>2. (p \o Append(full, more)) \o <<>> = p \o Append(full, more)
        BY <4>1
      <4> QED  BY <2>10, <3>1, <4>1, <4>2
    <3> QED  BY <2>5, <2>9, <3>1, <3>2, <3>4, <3>5 DEF HalfRight, p
  <2>7. CASE Len(more.data) # DataDim
    <3>1. Filled.cur = <<more>> /\ Filled.full = full /\ InHandOf(Filled.cur) = TicksOf(more)
      BY <2>3, <2>7 DEF InHandOf
    <3>2. InHandOf(cur) \in Nat
      BY <1>3, BlockTicks DEF InHandOf, SketchInv, SketchTypes
    <3>3. Ticks(p \o full) + TicksOf(more) + Filled.over = tick + 1
      <4> DEFINE T == Ticks(p \o full)
      <4>1. T \in Nat /\ T + InHandOf(cur) + over = tick /\ TicksOf(more) = TicksOf(block) + 1
            /\ TicksOf(block) + Filled.over = InHandOf(cur) + over
        BY <2>1, <2>3, <2>4, <1>3, <1>4
      <4> HIDE DEF T
      <4>2. T + TicksOf(more) + Filled.over = tick + 1
        BY <4>1, <2>4, <2>5, <3>2, <1>3
      <4> QED  BY <4>2 DEF T
    <3>4. Len(more.data) \in 1 .. DataDim - 1
      BY <2>4, <2>7, <1>3
    <3>5. \E b \in Blocks : Filled.cur = <<b>> /\ Len(b.data) \in 1 .. DataDim - 1
      BY <2>4, <3>1, <3>4
    <3>6. InTime((p \o Filled.full) \o Filled.cur)
      <4>1. (p \o full) \o <<more>> = Append(p \o full, more)
        BY <1>4, <2>4
      <4> QED  BY <2>10, <3>1, <4>1
    <3> QED  BY <1>1, <1>2, <2>5, <2>9, <3>1, <3>3, <3>5, <3>6 DEF HalfRight, p
  <2> QED  BY <2>6, <2>7
<1> QED  BY <1>5, <1>6

\* One pass of the loop: the half, and a block that is written.
LEMMA LoopKeeps == ASSUME SketchSizes, SketchInv, NEW busy \in BOOLEAN, Loop(busy) PROVE SketchInv'
<1> DEFINE half == IF typed THEN Closed ELSE Filled
           stops == half.lost /\ abort
           writes == ~stops /\ half.full # <<>> /\ ~busy
           t == IF typed THEN tick ELSE tick + 1
<1>1. /\ pc = "record" /\ tick' = t /\ cur' = half.cur /\ over' = half.over
      /\ UNCHANGED <<typed, file, abort, size>>
      /\ writes => /\ sd' = [sd EXCEPT ![bn + 1] = Head(half.full)] /\ bn' = bn + 1
                   /\ full' = Tail(half.full) /\ empty' = half.empty + 1
      /\ ~writes => full' = half.full /\ empty' = half.empty /\ UNCHANGED <<sd, bn>>
      /\ pc' = IF stops \/ (typed /\ half.full = <<>>) \/ (writes /\ bn + 1 = FileBlocks) THEN "end" ELSE "record"
  <2> HIDE DEF half
  <2>1. Loop(busy) <=>
          /\ pc = "record" /\ (typed \/ tick < MaxTicks)
          /\ tick' = IF typed THEN tick ELSE tick + 1
          /\ cur' = half.cur /\ over' = half.over
          /\ IF writes THEN /\ sd' = [sd EXCEPT ![bn + 1] = Head(half.full)] /\ bn' = bn + 1
                            /\ full' = Tail(half.full) /\ empty' = half.empty + 1
             ELSE full' = half.full /\ empty' = half.empty /\ UNCHANGED <<sd, bn>>
          /\ pc' = IF stops \/ (typed /\ half.full = <<>>) \/ (writes /\ bn + 1 = FileBlocks) THEN "end" ELSE "record"
          /\ UNCHANGED <<typed, file, abort, size>>
    BY Zenon DEF Loop, half
  <2> QED  BY <2>1
<1>2. HalfRight(half, t) /\ (typed => half.cur = <<>>)
  BY <1>1, ClosedRight, FilledRight
<1>3. /\ tick \in Nat /\ typed \in BOOLEAN /\ abort \in BOOLEAN /\ sd \in [1 .. FileBlocks -> Blocks]
      /\ bn \in 0 .. FileBlocks - 1 /\ size = FileBlocks /\ FileBlocks \in Nat
      /\ \A i \in 1 .. FileBlocks : Len(sd[i].data) \in 1 .. DataDim <=> i <= bn
  BY <1>1 DEF SketchInv, SketchTypes, Places, BlocksInUse, SketchSizes
<1> HIDE DEF half
<1>4. /\ half.cur = <<>> \/ \E b \in Blocks : half.cur = <<b>> /\ Len(b.data) \in 1 .. DataDim - 1
      /\ half.full \in Seq(Blocks) /\ \A i \in 1 .. Len(half.full) : Len(half.full[i].data) \in 1 .. DataDim
      /\ half.empty \in Nat /\ half.over \in Nat
      /\ Ticks(SubSeq(sd, 1, bn) \o half.full) + InHandOf(half.cur) + half.over = t
  BY <1>2 DEF HalfRight
<1>12. InTime((SubSeq(sd, 1, bn) \o half.full) \o half.cur) /\ (half.cur # <<>> => half.over = 0)
  BY <1>2 DEF HalfRight
<1>5. /\ full' \in Seq(Blocks) /\ \A i \in 1 .. Len(full') : Len(full'[i].data) \in 1 .. DataDim
      /\ sd' \in [1 .. FileBlocks -> Blocks] /\ bn' \in 0 .. FileBlocks /\ empty' \in Nat
      /\ \A i \in 1 .. FileBlocks : Len(sd'[i].data) \in 1 .. DataDim <=> i <= bn'
      /\ SubSeq(sd', 1, bn') \o full' = SubSeq(sd, 1, bn) \o half.full
  <2>1. CASE writes
    <3> DEFINE b == Head(half.full)
    <3>1. b \in Blocks /\ Len(b.data) \in 1 .. DataDim /\ Len(half.full) > 0
      BY <2>1, <1>4
    <3>2. Tail(half.full) \in Seq(Blocks) /\ Len(Tail(half.full)) = Len(half.full) - 1
          /\ \A i \in 1 .. Len(half.full) - 1 : Tail(half.full)[i] = half.full[i + 1]
      BY <3>1, <1>4
    <3> HIDE DEF b
    <3>9. full' = Tail(half.full) /\ empty' = half.empty + 1
      BY <1>1, <2>1
    <3>3. \A i \in 1 .. Len(full') : Len(full'[i].data) \in 1 .. DataDim
      <4> TAKE i \in 1 .. Len(full')
      <4>1. full'[i] = half.full[i + 1] /\ i + 1 \in 1 .. Len(half.full)
        BY <3>1, <3>2, <3>9, <1>4
      <4> QED  BY <4>1, <1>4
    <3>4. /\ sd' \in [1 .. FileBlocks -> Blocks] /\ bn' = bn + 1 /\ sd'[bn + 1] = b
          /\ \A i \in 1 .. FileBlocks : i # bn + 1 => sd'[i] = sd[i]
      <4>1. sd' = [sd EXCEPT ![bn + 1] = b] /\ bn' = bn + 1
        BY <1>1, <2>1 DEF b
      <4> QED  BY <4>1, <1>3, <3>1
    <3>5. \A i \in 1 .. FileBlocks : Len(sd'[i].data) \in 1 .. DataDim <=> i <= bn'
      BY <3>1, <3>4, <1>3
    <3>10. bn' \in 0 .. FileBlocks /\ empty' \in Nat /\ full' \in Seq(Blocks)
      BY <1>3, <1>4, <3>2, <3>4, <3>9
    <3>6. SubSeq(sd', 1, bn + 1) \o Tail(half.full) = SubSeq(sd, 1, bn) \o half.full
      <4> DEFINE f == half.full
                 p == SubSeq(sd, 1, bn)
                 q == SubSeq(sd', 1, bn + 1)
      <4>1. /\ p \in Seq(Blocks) /\ Len(p) = bn /\ \A i \in 1 .. bn : p[i] = sd[i]
            /\ q \in Seq(Blocks) /\ Len(q) = bn + 1 /\ \A i \in 1 .. bn + 1 : q[i] = sd'[i]
        BY <3>4, <1>3
      <4>2. q = Append(p, b)
        <5>1. /\ Append(p, b) \in Seq(Blocks) /\ Len(Append(p, b)) = bn + 1 /\ Append(p, b)[bn + 1] = b
              /\ \A i \in 1 .. bn : Append(p, b)[i] = p[i]
          <6> HIDE DEF p
          <6> QED  BY <4>1, <3>1
        <5>2. \A i \in 1 .. bn + 1 : q[i] = Append(p, b)[i]
          <6> TAKE i \in 1 .. bn + 1
          <6>1. CASE i = bn + 1
            BY <6>1, <4>1, <5>1, <3>4
          <6>2. CASE i \in 1 .. bn
            BY <6>2, <4>1, <5>1, <3>4, <1>3
          <6> QED  BY <6>1, <6>2, <1>3
        <5> HIDE DEF p, q
        <5> QED  BY <5>1, <5>2, <4>1, SeqEqual
      <4>3. f = <<b>> \o Tail(f) /\ f \in Seq(Blocks) /\ Tail(f) \in Seq(Blocks)
        BY <3>1, <3>2, <1>4 DEF b
      <4> HIDE DEF p, q, f
      <4>4. Append(p, b) \o Tail(f) = p \o (<<b>> \o Tail(f))
        BY <4>1, <4>3, <3>1
      <4>5. q \o Tail(f) = p \o f
        BY <4>2, <4>3, <4>4
      <4> QED  BY <4>5 DEF p, q, f
    <3> QED  BY <3>3, <3>4, <3>5, <3>6, <3>9, <3>10
  <2>2. CASE ~writes
    <3>1. full' = half.full /\ empty' = half.empty /\ sd' = sd /\ bn' = bn
      BY <1>1, <2>2
    <3> QED  BY <3>1, <1>3, <1>4
  <2> QED  BY <2>1, <2>2
<1>6. Ticks(SubSeq(sd', 1, bn') \o full') + InHandOf(cur') + over' = tick'
  BY <1>1, <1>4, <1>5
<1>7. pc' \in {"record", "end"} /\ tick' \in Nat
  BY <1>1, <1>3
<1>8. SketchTypes'
  BY <1>1, <1>3, <1>4, <1>5, <1>7 DEF SketchTypes
<1>9. BlocksInUse'
  <2>1. cur' # <<>> => Len(cur'[1].data) \in 1 .. DataDim - 1
    BY <1>1, <1>4
  <2>2. bn' >= 1 => Len(sd'[1].data) \in 1 .. DataDim
    BY <1>3, <1>5
  <2> QED  BY <1>5, <2>1, <2>2 DEF BlocksInUse
<1>10. Places'
  <2>1. pc' = "record" => bn' \in 0 .. FileBlocks - 1
    BY <1>1, <1>3
  <2> QED  BY <2>1, <1>1, <1>3, <1>5, <1>7 DEF Places
<1>11. TicksKept'
  <2>1. pc' = "end" /\ ~abort' /\ bn' < FileBlocks => typed /\ half.full = <<>> /\ ~writes
    BY <1>1, <1>3
  <2>2. pc' = "end" /\ ~abort' /\ bn' < FileBlocks =>
          cur' = <<>> /\ full' = <<>> /\ Ticks(SubSeq(sd', 1, bn')) + over' = tick'
    <3> SUFFICES ASSUME pc' = "end" /\ ~abort' /\ bn' < FileBlocks
                 PROVE  cur' = <<>> /\ full' = <<>> /\ Ticks(SubSeq(sd', 1, bn')) + over' = tick'
      OBVIOUS
    <3>1. cur' = <<>> /\ full' = <<>>
      BY <1>1, <1>2, <2>1
    <3>2. SubSeq(sd', 1, bn') \in Seq(Blocks)
      BY <1>5, <1>3
    <3>3. SubSeq(sd', 1, bn') \o <<>> = SubSeq(sd', 1, bn') /\ Ticks(SubSeq(sd', 1, bn')) \in Nat
      <4> DEFINE p == SubSeq(sd', 1, bn')
      <4>2. p \in Seq(Blocks)
        BY <3>2
      <4> HIDE DEF p
      <4>1. p \o <<>> = p /\ Ticks(p) \in Nat
        BY <4>2, TicksFacts
      <4> QED  BY <4>1 DEF p
    <3>4. Ticks(SubSeq(sd', 1, bn')) + 0 + over' = tick'
      BY <1>6, <3>1, <3>3 DEF InHandOf
    <3> QED  BY <3>1, <3>3, <3>4, <1>1, <1>4
  <2> QED  BY <1>6, <1>7, <2>2 DEF TicksKept, Written, InHand, InHandOf
<1>13. SketchTimes'
  <2> DEFINE w == SubSeq(sd', 1, bn')
             f == half.full
             q == SubSeq(sd, 1, bn)
  <2>1. w \in Seq(Blocks) /\ q \in Seq(Blocks)
    BY <1>3, <1>5
  <2>2. w \o full' = q \o f /\ full' \in Seq(Blocks) /\ f \in Seq(Blocks)
    BY <1>4, <1>5
  <2>3. InTime((q \o f) \o cur')
    BY <1>1, <1>12
  <2>4. Written' = w \o full'
    BY DEF Written
  <2>5. cur' \in Seq(Blocks)
    <3>1. cur' = <<>> \/ \E b \in Blocks : cur' = <<b>>
      BY <1>1, <1>4
    <3>2. <<>> \in Seq(Blocks) /\ \A b \in Blocks : <<b>> \in Seq(Blocks)
      OBVIOUS
    <3> QED  BY <3>1, <3>2, Zenon
  <2> HIDE DEF w, f, q
  <2>6. InTime(Written' \o cur')
    BY <2>2, <2>3, <2>4
  <2>7. q \o f \in Seq(Blocks)
    BY <2>1, <2>2
  <2>8. InTime(q \o f)
    BY <2>3, <2>5, <2>7, InTimePrefix
  <2>9. InTime(w)
    <3>1. InTime(w \o full')
      BY <2>2, <2>8
    <3> QED  BY <2>1, <2>2, <3>1, InTimePrefix
  <2>10. bn' >= 0 /\ (cur' # <<>> => over' = 0)
    BY <1>1, <1>5, <1>12
  <2> QED  BY <2>6, <2>9, <2>10 DEF SketchTimes, w
<1>14. FileRight'
  BY <1>1, <1>7 DEF SketchInv, FileRight
<1> QED  BY <1>7, <1>8, <1>9, <1>10, <1>11, <1>13, <1>14 DEF SketchInv, HasTheBlocks, Accounted

\* Every step keeps the invariant.
LEMMA SketchSteps == ASSUME SketchSizes, SketchInv, [Next]_vars PROVE SketchInv'
<1>1. CASE UNCHANGED vars
  <2>1. UNCHANGED <<tick, typed, pc, file, abort, cur, full, empty, over, sd, size, bn>>
    BY <1>1 DEF vars
  <2>2. Written' = Written /\ InHand' = InHand
    BY <2>1 DEF Written, InHand
  <2> QED
    BY <2>1, <2>2 DEF SketchInv, SketchTypes, BlocksInUse, Places, TicksKept, HasTheBlocks, Accounted,
       SketchTimes, FileRight
<1> QED
  BY <1>1, CreateKeeps, EraseKeeps, RecordKeeps, LoopKeeps, EndKeeps, RenameKeeps, ResetKeeps,
     RecoverKeeps, TypeKeeps DEF Next, Step

-----------------------------------------------------------------------------
(* What the sketch reads back.                                             *)

\* The text of a log has its samples, in time once the old blocks are erased, and both ways to
\* read it agree.
LEMMA SketchReads ==
  ASSUME SketchSizes, SketchInv
  PROVE  /\ bn >= 0 => InTime(Reader!LowLatencyCsv(file))
         /\ Reader!Samples(Reader!LowLatencyCsv(file)) = Reader!Samples(file)
         /\ Reader!LowLatencyDump(file) = Reader!LowLatencyCsv(file)
         /\ Reader!LowLatencyLosses(file) = Reader!Losses(file, 0)
<1>1. file \in Seq(Blocks) /\ \A k \in 1 .. Len(file) : Len(file[k].data) \in 1 .. DataDim
  BY DEF SketchInv, FileRight
<1>2. DataDim \in Nat
  BY DEF SketchSizes
<1>3. \A k \in 1 .. Len(file) : file[k].data # <<>> /\ ~(Len(file[k].data) > DataDim)
  <2>1. Len(<<>>) = 0
    OBVIOUS
  <2> QED  BY <1>1, <1>2, <2>1
<1>4. Reader!UpToEmpty(file) = file /\ Reader!UpToOdd(file) = file
  BY <1>1, <1>3, UpToWhole
<1>5. Reader!Samples(Reader!Text(file)) = Reader!Samples(file) /\ (InTime(file) => InTime(Reader!Text(file)))
  BY <1>1, TextRight
<1>6. bn >= 0 => InTime(file)
  <2>1. CASE pc \in {"done", "recovered"}
    BY <2>1 DEF SketchInv, HasTheBlocks, SketchTimes
  <2>2. CASE pc \notin {"done", "recovered"}
    BY <2>2, InTimeEmpty DEF SketchInv, FileRight
  <2> QED  BY <2>1, <2>2
<1> QED
  BY <1>4, <1>5, <1>6 DEF Reader!LowLatencyCsv, Reader!LowLatencyDump, Reader!LowLatencyLosses
=============================================================================
