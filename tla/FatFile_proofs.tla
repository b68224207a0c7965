--------------------------- MODULE FatFile_proofs ---------------------------
(***************************************************************************)
(* Proofs about FatFile for every number of clusters, every size of sector *)
(* and cluster, every limit and any number of failing accesses.            *)
(*                                                                         *)
(* FileInv is inductive.  The members of a FatFile speak of a chain that   *)
(* is only in the table; the invariant names it: there are a length L and  *)
(* a function ch from 0 .. L - 1 to clusters that follow the links from    *)
(* firstCluster, no cluster of another file among them (Own), and the      *)
(* current cluster is ch at the index of the position (Cursor).  Every     *)
(* operation is then a change of ch: none, one cluster more, a prefix, or  *)
(* nothing left.                                                           *)
(*                                                                         *)
(* The last part proves that a FatFile is a ByteFile.  Its content is what *)
(* the clusters of ch hold, one after another (UnitsOf), so that what each *)
(* operation does to ch and to the clusters is what it does to the bytes.  *)
(* Two more facts go with FileInv: a cluster that is free or another       *)
(* file's holds nothing known, and nothing is behind the position of a     *)
(* preallocated file, whose sectors write does not read first.             *)
(*                                                                         *)
(* The theorems have CloseOnError as hypothesis: the program closes a file *)
(* when a call on it failed.  After a failed write the current cluster may *)
(* be one ahead of the position, and a call that goes on from it may leave *)
(* the chain.                                                              *)
(***************************************************************************)
EXTENDS FatFile, Sequences, FiniteSetTheorems, WellFoundedInduction, TLAPS

-----------------------------------------------------------------------------
(* Numbers, walks and chains, and the invariant.                           *)

\* Numbers: one more factor is at least one more multiplicand.
LEMMA Products ==
  ASSUME NEW b \in Int, b > 0, NEW p \in Int, NEW q \in Int, p < q
  PROVE  b * p + b <= b * q
<1>1. PICK d \in Nat : q = p + 1 + d
  <2>1. q - p - 1 \in Nat /\ q = p + 1 + (q - p - 1)
    OBVIOUS
  <2> QED  BY <2>1
<1>2. b * q = b * p + b + b * d /\ b * d >= 0
  BY <1>1
<1> QED  BY <1>2

\* Division with remainder.
LEMMA Division ==
  ASSUME NEW b \in Int, b > 0, NEW x \in Int
  PROVE  x \div b \in Int /\ x % b \in 0 .. b - 1 /\ x = b * (x \div b) + (x % b)
<1>1. x = b * (x \div b) + (x % b)
  BY Z3
<1> QED  BY <1>1

\* A quotient and a remainder are the only ones.
LEMMA Quotient ==
  ASSUME NEW b \in Int, b > 0, NEW q \in Int, NEW r \in 0 .. b - 1
  PROVE  (b * q + r) \div b = q /\ (b * q + r) % b = r
<1> DEFINE x == b * q + r
           p == x \div b
           s == x % b
<1>0. b * q \in Int /\ x \in Int
  OBVIOUS
<1>1. p \in Int /\ s \in 0 .. b - 1 /\ x = b * p + s
  BY <1>0, Division
<1>2. b * p + s = b * q + r
  BY <1>1
<1> HIDE DEF p, s, x
<1>3. ~ (p < q)
  <2>1. p < q => b * p + b <= b * q
    BY <1>1, Products
  <2>2. b * p \in Int /\ b * q \in Int
    BY <1>1
  <2> HIDE DEF p
  <2> QED  BY <1>1, <1>2, <2>1, <2>2
<1>4. ~ (q < p)
  <2>1. q < p => b * q + b <= b * p
    BY <1>1, Products
  <2>2. b * p \in Int /\ b * q \in Int
    BY <1>1
  <2> QED  BY <1>1, <1>2, <2>1, <2>2
<1>5. p = q
  BY <1>1, <1>3, <1>4
<1>6. s = r
  <2>2. b * p = b * q /\ b * q \in Int
    BY <1>5
  <2> QED  BY <1>1, <1>2, <2>2
<1> QED  BY <1>5, <1>6 DEF p, s, x

\* The quotient grows with the number, and n further on in the same b or at its end.
LEMMA Monotone ==
  ASSUME NEW b \in Int, b > 0, NEW x \in Int, NEW y \in Int, x <= y
  PROVE  x \div b <= y \div b
<1> DEFINE p == x \div b
           q == y \div b
<1>1. p \in Int /\ x % b \in 0 .. b - 1 /\ x = b * p + (x % b)
  BY Division
<1>2. q \in Int /\ y % b \in 0 .. b - 1 /\ y = b * q + (y % b)
  BY Division
<1> HIDE DEF p, q
<1>3. q < p => b * q + b <= b * p
  BY <1>1, <1>2, Products
<1>4. b * p \in Int /\ b * q \in Int
  BY <1>1, <1>2
<1>5. p <= q
  BY <1>1, <1>2, <1>3, <1>4
<1> QED  BY <1>5 DEF p, q

\* The quotient a step of n further on.
LEMMA Further ==
  ASSUME NEW b \in Int, b > 0, NEW x \in Int, NEW n \in Nat, n <= b - (x % b)
  PROVE  IF n < b - (x % b)
         THEN (x + n) \div b = x \div b /\ (x + n) % b = (x % b) + n
         ELSE (x + n) \div b = x \div b + 1 /\ (x + n) % b = 0
<1> DEFINE q == x \div b
           r == x % b
<1>1. q \in Int /\ r \in 0 .. b - 1 /\ x = b * q + r
  BY Division
<1>2. n <= b - r
  OBVIOUS
<1>3. CASE n < b - r
  <2> HIDE DEF q, r
  <2>1. r + n \in 0 .. b - 1
    BY <1>1, <1>3
  <2>2. (b * q + (r + n)) \div b = q /\ (b * q + (r + n)) % b = r + n
    BY <1>1, <2>1, Quotient
  <2>3. b * q \in Int
    BY <1>1
  <2>4. b * q + (r + n) = x + n
    BY <1>1, <2>3
  <2> QED  BY <1>3, <2>2, <2>4 DEF q, r
<1>4. CASE ~ (n < b - r)
  <2> HIDE DEF q, r
  <2>1. q + 1 \in Int /\ 0 \in 0 .. b - 1 /\ n = b - r
    BY <1>1, <1>2, <1>4
  <2>2. (b * (q + 1) + 0) \div b = q + 1 /\ (b * (q + 1) + 0) % b = 0
    BY <2>1, Quotient
  <2>3. b * q \in Int /\ b * (q + 1) = b * q + b
    BY <1>1
  <2>4. b * (q + 1) + 0 = x + n
    BY <1>1, <2>1, <2>3
  <2> QED  BY <1>4, <2>2, <2>4 DEF q, r
<1> QED  BY <1>3, <1>4

\* The quotient one unit before.
LEMMA Below ==
  ASSUME NEW b \in Int, b > 0, NEW x \in Int
  PROVE  (x - 1) \div b = IF x % b = 0 THEN x \div b - 1 ELSE x \div b
<1> DEFINE y == x - 1
           q == y \div b
           r == y % b
<1>1. q \in Int /\ r \in 0 .. b - 1 /\ y \in Int
  BY Division
<1>2. IF 1 < b - r THEN (y + 1) \div b = q /\ (y + 1) % b = r + 1
      ELSE (y + 1) \div b = q + 1 /\ (y + 1) % b = 0
  <2>1. y \in Int /\ 1 \in Nat /\ 1 <= b - (y % b)
    BY <1>1
  <2> HIDE DEF y
  <2> QED  BY <2>1, Further
<1>3. y + 1 = x
  OBVIOUS
<1> HIDE DEF y, q, r
<1>4. q = IF x % b = 0 THEN x \div b - 1 ELSE x \div b
  BY <1>1, <1>2, <1>3
<1> QED  BY <1>4 DEF q, y

\* The units of sectors and clusters are positive whole numbers.
LEMMA Units ==
  /\ SectorUnits \in Int /\ SectorUnits > 0 /\ SectorsPerCluster \in Int /\ SectorsPerCluster > 0
  /\ ClusterUnits \in Int /\ ClusterUnits > 0
  /\ LastCluster \in Nat /\ MaxSize \in Nat
<1>1. /\ SectorUnits \in Int /\ SectorUnits > 0 /\ SectorsPerCluster \in Int /\ SectorsPerCluster > 0
      /\ LastCluster \in Nat /\ MaxSize \in Nat
  BY VolumeAssumption, BoundsAssumption
<1>2. ClusterUnits \in Int /\ ClusterUnits > 0
  BY <1>1 DEF ClusterUnits
<1> QED  BY <1>1, <1>2

\* A position, the cluster it is in and the one before it.
LEMMA Places ==
  ASSUME NEW x \in Nat
  PROVE  LET b == ClusterUnits IN
         /\ ClusterIndex(x) \in Int /\ Need(x) = ClusterIndex(x) + 1 /\ x \div b \in Nat
         /\ ClusterIndex(x) = IF AtBoundary(x) THEN x \div b - 1 ELSE x \div b
         /\ x % b \in 0 .. b - 1 /\ x = b * (x \div b) + (x % b)
         /\ x = 0 => ClusterIndex(x) = -1 /\ AtBoundary(x)
         /\ x > 0 => ClusterIndex(x) \in Nat
<1> DEFINE b == ClusterUnits
<1>0. b \in Int /\ b > 0
  BY Units
<1> HIDE DEF b
<1>1. x \div b \in Int /\ x % b \in 0 .. b - 1 /\ x = b * (x \div b) + (x % b)
  BY <1>0, Division
<1>2. (x - 1) \div b = IF x % b = 0 THEN x \div b - 1 ELSE x \div b
  BY <1>0, Below
<1>3. 0 \div b = 0 /\ 0 % b = 0
  <2>1. (b * 0 + 0) \div b = 0 /\ (b * 0 + 0) % b = 0
    BY <1>0, Quotient
  <2>2. b * 0 + 0 = 0
    BY <1>0
  <2> QED  BY <2>1, <2>2
<1>4. x \div b >= 0 /\ (x > 0 => (x - 1) \div b >= 0)
  <2>1. 0 \div b <= x \div b
    BY <1>0, Monotone
  <2>2. x > 0 => 0 \div b <= (x - 1) \div b
    BY <1>0, Monotone
  <2> QED  BY <1>3, <2>1, <2>2
<1>5. (x + b - 1) \div b = (x - 1) \div b + 1
  <2> DEFINE y == x - 1
             q == y \div b
             r == y % b
  <2>1. y \in Int /\ q \in Int /\ r \in 0 .. b - 1 /\ y = b * q + r
    BY <1>0, Division
  <2> HIDE DEF q, r
  <2>2. (b * (q + 1) + r) \div b = q + 1
    BY <1>0, <2>1, Quotient
  <2>3. b * q \in Int /\ b * (q + 1) = b * q + b
    BY <1>0, <2>1
  <2>4. b * (q + 1) + r = x + b - 1
    BY <1>0, <2>1, <2>3
  <2> QED  BY <2>2, <2>4 DEF q
<1>6. (x - 1) \div b \in Int
  BY <1>0, Division
<1> QED  BY <1>0, <1>1, <1>2, <1>3, <1>4, <1>5, <1>6 DEF b, ClusterIndex, Need, AtBoundary

\* A piece is some of what is left to do, and ends in the cluster it starts in.
LEMMA Pieces ==
  ASSUME curPosition \in Nat, todo \in Nat, todo > 0
  PROVE  LET room == ClusterUnits - UnitOffset IN
         /\ PieceSize \in 1 .. todo /\ PieceSize <= room
         /\ ~Partial => SectorUnits \in 1 .. todo /\ SectorUnits <= room
<1> DEFINE b == ClusterUnits
           a == SectorUnits
           s == SectorsPerCluster
           x == curPosition
           o == x % a
           u == x % b
           k == u \div a
<1>1. a \in Int /\ a > 0 /\ s \in Int /\ s > 0 /\ b \in Int /\ b > 0 /\ b = a * s
  BY Units DEF ClusterUnits
<1>2. x \div b \in Int /\ u \in 0 .. b - 1 /\ x = b * (x \div b) + u
  BY <1>1, Division
<1>3. k \in Int /\ u % a \in 0 .. a - 1 /\ u = a * k + (u % a)
  BY <1>1, <1>2, Division
<1>4. u % a = o
  <2> DEFINE q == x \div b
             r == u % a
  <2>1. q \in Int /\ r \in 0 .. a - 1 /\ k \in Int /\ x = b * q + u /\ u = a * k + r
    BY <1>2, <1>3
  <2> HIDE DEF q, r, k, b, u
  <2>2. s * q + k \in Int /\ (a * (s * q + k) + r) % a = r
    <3>1. s * q + k \in Int
      BY <1>1, <2>1
    <3> QED  BY <1>1, <2>1, <3>1, Quotient
  <2>3. b * q = a * (s * q)
    BY <1>1, <2>1
  <2>4. a * (s * q + k) = a * (s * q) + a * k
    BY <1>1, <2>1
  <2>5. a * (s * q) \in Int /\ a * k \in Int
    BY <1>1, <2>1
  <2>6. a * (s * q + k) + r = x
    BY <2>1, <2>3, <2>4, <2>5
  <2> QED  BY <2>2, <2>6 DEF r
<1>5. 0 <= k /\ k <= s - 1
  <2>1. k < 0 => a * k + a <= a * 0
    BY <1>1, <1>3, Products
  <2>2. s - 1 < k => a * (s - 1) + a <= a * k
    BY <1>1, <1>3, Products
  <2>3. a * k \in Int /\ a * (s - 1) + a = b /\ a * 0 = 0
    BY <1>1, <1>3
  <2>4. u >= 0 /\ u < b /\ u \in Int
    <3> HIDE DEF u, b
    <3> QED  BY <1>1, <1>2
  <2>5. 0 <= u % a /\ u % a <= a - 1 /\ u % a \in Int /\ u = a * k + (u % a)
    BY <1>3
  <2> HIDE DEF k, u, b
  <2> QED  BY <1>1, <1>3, <2>1, <2>2, <2>3, <2>4, <2>5
<1>6. b - u = a * (s - k) - o /\ o \in 0 .. a - 1 /\ a <= a * (s - k) /\ a * (s - k) \in Int
  <2>1. a * (s - k) = b - a * k /\ a * k \in Int
    BY <1>1, <1>3
  <2>2. 0 < s - k => a * 0 + a <= a * (s - k)
    BY <1>1, <1>3, Products
  <2> HIDE DEF k, u, b, o
  <2> QED  BY <1>1, <1>2, <1>3, <1>4, <1>5, <2>1, <2>2
<1>7. CASE Partial
  <2>1. PieceSize = Lesser(a - o, todo)
    BY <1>7 DEF PieceSize, SectorOffset
  <2>2. b - u \in Int /\ a - o <= b - u /\ a - o >= 1 /\ a - o \in Int
    BY <1>1, <1>2, <1>6
  <2> HIDE DEF o, a, b, u
  <2>3. PieceSize \in 1 .. todo /\ PieceSize <= b - u
    BY <2>1, <2>2 DEF Lesser
  <2> QED  BY <1>7, <2>3 DEF b, u, UnitOffset
<1>8. CASE ~Partial
  <2> DEFINE m == todo \div a
             n == Lesser(s - k, m)
  <2>1. PieceSize = n * a /\ o = 0 /\ a <= todo
    BY <1>1, <1>8 DEF PieceSize, Partial, UnitOffset, SectorOffset
  <2>2. m \in Int /\ todo % a \in 0 .. a - 1 /\ todo = a * m + (todo % a)
    BY <1>1, Division
  <2>3. m >= 1
    <3>1. m < 1 => a * m + a <= a * 1
      BY <1>1, <2>2, Products
    <3>2. a * m \in Int /\ a * 1 = a
      BY <1>1, <2>2
    <3> HIDE DEF m
    <3> QED  BY <1>1, <2>1, <2>2, <3>1, <3>2
  <2>4. n \in Int /\ 1 <= n /\ n <= s - k /\ n <= m
    BY <1>1, <1>3, <1>5, <2>2, <2>3 DEF Lesser
  <2>5. a <= a * n /\ a * n <= a * (s - k) /\ a * n <= a * m /\ a * n \in Int /\ a * m \in Int
    <3>1. 0 < n => a * 0 + a <= a * n
      BY <1>1, <2>4, Products
    <3>2. n < s - k => a * n + a <= a * (s - k)
      BY <1>1, <1>3, <2>4, Products
    <3>3. n < m => a * n + a <= a * m
      BY <1>1, <2>2, <2>4, Products
    <3>4. a * 0 = 0 /\ a * n \in Int /\ a * (s - k) \in Int /\ a * m \in Int
      BY <1>1, <1>3, <2>2, <2>4
    <3>5. s - k \in Int
      BY <1>1, <1>3
    <3> HIDE DEF n, m, k
    <3> QED  BY <1>1, <2>2, <2>4, <3>1, <3>2, <3>3, <3>4, <3>5
  <2>6. n * a = a * n
    BY <1>1, <2>4
  <2> HIDE DEF n, m, o, k, b, u
  <2>7. b - u = a * (s - k) /\ b - u \in Int
    BY <1>6, <2>1
  <2>8. PieceSize \in 1 .. todo /\ PieceSize <= b - u /\ a \in 1 .. todo /\ a <= b - u
    BY <1>1, <1>6, <2>1, <2>2, <2>5, <2>6, <2>7
  <2> QED  BY <1>8, <2>8 DEF b, u, UnitOffset
<1> QED  BY <1>7, <1>8

\* w follows the links of table t from c for n steps.
Follows(t, c, n, w) ==
  w = [i \in 0 .. n |-> IF i = 0 THEN c ELSE IF w[i - 1] \in Clusters THEN t[w[i - 1]] ELSE EOC]
WalkIn(t, c, n) == (CHOOSE w : Follows(t, c, n, w))[n]

\* ch holds the L clusters of the chain that starts with h in table t.
Chain(t, h, L, ch) ==
  /\ L \in Nat /\ ch \in [0 .. L - 1 -> Clusters]
  /\ h = IF L = 0 THEN 0 ELSE ch[0]
  /\ \A i, j \in 0 .. L - 1 : ch[i] = ch[j] => i = j
  /\ \A i \in 0 .. L - 1 : t[ch[i]] = IF i = L - 1 THEN EOC ELSE ch[i + 1]

\* Mathematical induction, over the set of the numbers it holds for.
LEMMA Induction ==
  ASSUME NEW S, 0 \in S, \A n \in Nat : n \in S => n + 1 \in S
  PROVE  Nat \subseteq S
<1> DEFINE R == {ss \in Nat \X Nat : ss[1] < ss[2]}
<1>1. IsWellFoundedOn(R, Nat)
  BY NatLessThanWellFounded DEF OpToRel
<1> HIDE DEF R
<1> SUFFICES ASSUME Nat \ S # {} PROVE FALSE
  OBVIOUS
<1>2. PICK n \in Nat \ S : \A m \in Nat \ S : ~ (<<m, n>> \in R)
  <2>1. Nat \ S \subseteq Nat
    OBVIOUS
  <2> QED  BY <1>1, <2>1, WFMin
<1>3. \A m \in Nat \ S : ~ (m < n)
  BY <1>2 DEF R
<1>4. n # 0 /\ n - 1 \in Nat /\ n - 1 \in S
  BY <1>3
<1> QED  BY <1>4

\* There is a walk of every length.
LEMMA FollowsExists ==
  ASSUME NEW t, NEW c, NEW n \in Nat
  PROVE  \E w : Follows(t, c, n, w)
<1> DEFINE S == {m \in Nat : \E w : Follows(t, c, m, w)}
<1>1. 0 \in S
  <2>1. Follows(t, c, 0, [i \in 0 .. 0 |-> c])
    BY DEF Follows
  <2> QED  BY <2>1
<1>2. ASSUME NEW m \in Nat, m \in S PROVE m + 1 \in S
  <2>1. PICK w : Follows(t, c, m, w)
    BY <1>2
  <2> DEFINE v == [i \in 0 .. m + 1 |->
                     IF i \in 0 .. m THEN w[i] ELSE IF w[m] \in Clusters THEN t[w[m]] ELSE EOC]
  <2>2. \A i \in 0 .. m : w[i] = IF i = 0 THEN c ELSE IF w[i - 1] \in Clusters THEN t[w[i - 1]] ELSE EOC
    BY <2>1 DEF Follows
  <2>3. \A i \in 0 .. m + 1 : v[i] = IF i = 0 THEN c ELSE IF v[i - 1] \in Clusters THEN t[v[i - 1]] ELSE EOC
    <3> TAKE i \in 0 .. m + 1
    <3>1. CASE i = 0
      BY <3>1, <2>2
    <3>2. CASE i \in 1 .. m
      <4>1. i \in 0 .. m /\ i - 1 \in 0 .. m /\ i \in 0 .. m + 1 /\ i - 1 \in 0 .. m + 1
        BY <3>2
      <4>2. v[i] = w[i] /\ v[i - 1] = w[i - 1]
        BY <4>1
      <4> HIDE DEF v
      <4> QED  BY <3>2, <2>2, <4>1, <4>2
    <3>3. CASE i = m + 1
      <4>1. i - 1 \in 0 .. m /\ i \notin 0 .. m /\ i # 0 /\ m \in 0 .. m /\ m \in 0 .. m + 1 /\ i - 1 = m
        BY <3>3
      <4>2. v[i] = (IF w[m] \in Clusters THEN t[w[m]] ELSE EOC) /\ v[m] = w[m]
        BY <4>1, <3>3
      <4> HIDE DEF v
      <4> QED  BY <4>1, <4>2
    <3> QED  BY <3>1, <3>2, <3>3
  <2>4. v = [i \in 0 .. m + 1 |-> v[i]]
    OBVIOUS
  <2> HIDE DEF v
  <2>5. Follows(t, c, m + 1, v)
    BY <2>3, <2>4 DEF Follows
  <2> QED  BY <2>5
<1> HIDE DEF S
<1>3. n \in S
  BY <1>1, <1>2, Induction
<1> QED  BY <1>3 DEF S

\* There is only one.
LEMMA FollowsUnique ==
  ASSUME NEW t, NEW c, NEW n \in Nat, NEW m \in Nat, NEW w, NEW v,
         Follows(t, c, n, w), Follows(t, c, m, v)
  PROVE  \A i \in Nat : i <= n /\ i <= m => w[i] = v[i]
<1> DEFINE S == {i \in Nat : i <= n /\ i <= m => w[i] = v[i]}
<1>1. \A i \in 0 .. n : w[i] = IF i = 0 THEN c ELSE IF w[i - 1] \in Clusters THEN t[w[i - 1]] ELSE EOC
  BY DEF Follows
<1>2. \A i \in 0 .. m : v[i] = IF i = 0 THEN c ELSE IF v[i - 1] \in Clusters THEN t[v[i - 1]] ELSE EOC
  BY DEF Follows
<1>3. 0 \in S
  BY <1>1, <1>2
<1>4. ASSUME NEW i \in Nat, i \in S PROVE i + 1 \in S
  BY <1>1, <1>2, <1>4
<1> HIDE DEF S
<1>5. Nat \subseteq S
  BY <1>3, <1>4, Induction
<1> QED  BY <1>5 DEF S

\* The equations of a walk.
LEMMA WalkStep ==
  ASSUME NEW t, NEW c
  PROVE  /\ WalkIn(t, c, 0) = c
         /\ \A n \in Nat : WalkIn(t, c, n + 1) =
              IF WalkIn(t, c, n) \in Clusters THEN t[WalkIn(t, c, n)] ELSE EOC
<1> DEFINE w(n) == CHOOSE w : Follows(t, c, n, w)
<1>1. \A n \in Nat : Follows(t, c, n, w(n))
  BY FollowsExists
<1>2. \A n \in Nat : WalkIn(t, c, n) = w(n)[n]
  BY DEF WalkIn
<1> HIDE DEF w
<1>3. WalkIn(t, c, 0) = c
  BY <1>1, <1>2 DEF Follows
<1>4. ASSUME NEW n \in Nat
      PROVE  WalkIn(t, c, n + 1) = IF WalkIn(t, c, n) \in Clusters THEN t[WalkIn(t, c, n)] ELSE EOC
  <2>1. Follows(t, c, n, w(n)) /\ Follows(t, c, n + 1, w(n + 1))
    BY <1>1
  <2>2. w(n + 1)[n + 1] = IF w(n + 1)[n] \in Clusters THEN t[w(n + 1)[n]] ELSE EOC
    <3>1. n + 1 \in 0 .. n + 1 /\ n + 1 # 0 /\ n + 1 - 1 = n
      OBVIOUS
    <3>2. \A i \in 0 .. n + 1 : w(n + 1)[i] =
            IF i = 0 THEN c ELSE IF w(n + 1)[i - 1] \in Clusters THEN t[w(n + 1)[i - 1]] ELSE EOC
      BY <2>1 DEF Follows
    <3> QED  BY <3>1, <3>2
  <2>3. w(n + 1)[n] = w(n)[n]
    BY <2>1, FollowsUnique
  <2> QED  BY <1>2, <2>2, <2>3
<1> QED  BY <1>3, <1>4

\* The walk of the model in the table of the state, and of the state after a step.
LEMMA WalkNow == ASSUME NEW c, NEW n \in Nat PROVE Walk(c, n) = WalkIn(next, c, n)
BY DEF Walk, After, WalkIn, Follows
\* The same of the table after a step.
LEMMA WalkThen == ASSUME NEW c, NEW n \in Nat PROVE Walk(c, n)' = WalkIn(next', c, n)
BY DEF Walk, After, WalkIn, Follows

\* A walk along a chain meets its clusters in order, then leaves the clusters.
LEMMA ChainWalk ==
  ASSUME NEW t, NEW h, NEW L, NEW ch, Chain(t, h, L, ch)
  PROVE  \A n \in Nat : WalkIn(t, h, n) = IF n < L THEN ch[n] ELSE IF n = 0 THEN 0 ELSE EOC
<1> DEFINE S == {n \in Nat : WalkIn(t, h, n) = IF n < L THEN ch[n] ELSE IF n = 0 THEN 0 ELSE EOC}
<1>1. /\ L \in Nat /\ \A i \in 0 .. L - 1 : ch[i] \in Clusters
      /\ \A i \in 0 .. L - 1 : t[ch[i]] = IF i = L - 1 THEN EOC ELSE ch[i + 1]
      /\ h = IF L = 0 THEN 0 ELSE ch[0]
  BY DEF Chain
<1>2. 0 \in S
  BY <1>1, WalkStep
<1>3. ASSUME NEW n \in Nat, n \in S PROVE n + 1 \in S
  <2>1. WalkIn(t, h, n + 1) = IF WalkIn(t, h, n) \in Clusters THEN t[WalkIn(t, h, n)] ELSE EOC
    BY WalkStep
  <2>2. WalkIn(t, h, n) = IF n < L THEN ch[n] ELSE IF n = 0 THEN 0 ELSE EOC
    BY <1>3
  <2>3. 0 \notin Clusters /\ EOC \notin Clusters
    BY VolumeAssumption DEF Clusters, EOC
  <2>4. CASE n < L
    <3>1. n \in 0 .. L - 1 /\ (n = L - 1 <=> ~ (n + 1 < L))
      BY <1>1, <2>4
    <3> QED  BY <1>1, <2>1, <2>2, <2>4, <3>1
  <2>5. CASE ~ (n < L)
    <3>1. ~ (n + 1 < L) /\ n + 1 # 0
      BY <1>1, <2>5
    <3> QED  BY <2>1, <2>2, <2>3, <2>5, <3>1
  <2> QED  BY <2>4, <2>5
<1> HIDE DEF S
<1>4. Nat \subseteq S
  BY <1>2, <1>3, Induction
<1> QED  BY <1>4 DEF S

\* A chain visits no cluster twice, so its length is bounded and counts its clusters.
LEMMA ClusterCount == IsFiniteSet(Clusters) /\ Cardinality(Clusters) = LastCluster - 1
<1>1. LastCluster \in Int /\ 2 \in Int /\ ~ (2 > LastCluster)
  BY VolumeAssumption
<1>2. IsFiniteSet(2 .. LastCluster) /\ Cardinality(2 .. LastCluster) = LastCluster - 2 + 1
  BY <1>1, FS_Interval
<1>3. LastCluster - 2 + 1 = LastCluster - 1
  BY <1>1
<1> QED  BY <1>2, <1>3 DEF Clusters

Held(L, ch) == {c \in Clusters : \E i \in 0 .. L - 1 : ch[i] = c}

\* A chain is no longer than there are clusters.
LEMMA ChainLength ==
  ASSUME NEW t, NEW h, NEW L, NEW ch, Chain(t, h, L, ch)
  PROVE  L \in 0 .. LastCluster - 1 /\ Cardinality(Held(L, ch)) = L
<1> DEFINE S == 0 .. L - 1
<1>1. /\ L \in Nat /\ ch \in [S -> Clusters] /\ \A i, j \in S : ch[i] = ch[j] => i = j
  BY DEF Chain
<1>2. IsFiniteSet(S) /\ Cardinality(S) = L
  <2>1. 0 \in Int /\ L - 1 \in Int
    BY <1>1
  <2>2. IsFiniteSet(S) /\ Cardinality(S) = IF 0 > L - 1 THEN 0 ELSE L - 1 - 0 + 1
    BY <2>1, FS_Interval
  <2> HIDE DEF S
  <2> QED  BY <1>1, <2>2
<1> HIDE DEF S
<1>3. ~ (Cardinality(Clusters) < Cardinality(S))
  <2>1. Cardinality(Clusters) < Cardinality(S) => \E i, j \in S : i # j /\ ch[i] = ch[j]
    BY <1>1, <1>2, ClusterCount, FS_PigeonHole
  <2> QED  BY <1>1, <2>1
<1>4. ch \in Surjection(S, Held(L, ch))
  <2>1. \A i \in S : ch[i] \in Held(L, ch)
    BY <1>1 DEF Held, S
  <2>2. ch \in [S -> Held(L, ch)]
    BY <1>1, <2>1
  <2>3. \A c \in Held(L, ch) : \E i \in S : ch[i] = c
    BY DEF Held, S
  <2> QED  BY <2>2, <2>3 DEF Surjection
<1>5. ch \in Injection(S, Held(L, ch))
  <2>1. ch \in [S -> Held(L, ch)]
    BY <1>4 DEF Surjection
  <2> QED  BY <1>1, <2>1 DEF Injection, IsInjective
<1>6. Cardinality(Held(L, ch)) = L
  BY <1>2, <1>4, <1>5, FS_Surjection
<1>7. LastCluster \in Nat
  BY VolumeAssumption
<1> QED  BY <1>1, <1>2, <1>3, <1>6, <1>7, ClusterCount

\* The clusters of a chain are those ChainOf collects.
LEMMA ChainOfChain ==
  ASSUME NEW h, NEW L, NEW ch, Chain(next, h, L, ch)
  PROVE  ChainOf(h) = Held(L, ch) /\ Cardinality(ChainOf(h)) = L
<1>1. \A n \in Nat : Walk(h, n) = IF n < L THEN ch[n] ELSE IF n = 0 THEN 0 ELSE EOC
  BY ChainWalk, WalkNow
<1>2. L \in 0 .. LastCluster - 1 /\ Cardinality(Held(L, ch)) = L /\ LastCluster \in Nat
  BY ChainLength, VolumeAssumption
<1>3. 0 \notin Clusters /\ EOC \notin Clusters
  BY VolumeAssumption DEF Clusters, EOC
<1>4. ASSUME NEW c, c \in ChainOf(h) PROVE c \in Held(L, ch)
  <2>1. PICK n \in 0 .. LastCluster : Walk(h, n) = c /\ c \in Clusters
    BY <1>4 DEF ChainOf
  <2>2. n \in Nat
    BY <1>2
  <2>3. n < L /\ ch[n] = c
    BY <1>1, <1>3, <2>1, <2>2
  <2>4. n \in 0 .. L - 1
    BY <1>2, <2>2, <2>3
  <2> QED  BY <2>1, <2>3, <2>4 DEF Held
<1>5. ASSUME NEW c, c \in Held(L, ch) PROVE c \in ChainOf(h)
  <2>1. PICK n \in 0 .. L - 1 : ch[n] = c /\ c \in Clusters
    BY <1>5 DEF Held
  <2>2. n \in 0 .. LastCluster /\ n \in Nat /\ n < L
    BY <1>2
  <2>3. Walk(h, n) = c
    BY <1>1, <2>1, <2>2
  <2> QED  BY <2>1, <2>2, <2>3 DEF ChainOf
<1>6. ChainOf(h) = Held(L, ch)
  BY <1>4, <1>5
<1> QED  BY <1>2, <1>6

\* A chain from its k-th cluster on, up to it, and longer by one.
LEMMA Suffix ==
  ASSUME NEW t, NEW h, NEW L \in Nat, NEW ch, Chain(t, h, L, ch), NEW k \in 0 .. L - 1
  PROVE  Chain(t, ch[k], L - k, [i \in 0 .. L - k - 1 |-> ch[k + i]])
<1> DEFINE M == L - k
           d == [i \in 0 .. M - 1 |-> ch[k + i]]
<1>1. L \in Nat /\ M \in Nat /\ M # 0 /\ \A i \in 0 .. M - 1 : k + i \in 0 .. L - 1 /\ d[i] = ch[k + i]
  BY DEF Chain
<1>2. \A i \in 0 .. M - 1 : d[i] \in Clusters
  BY <1>1 DEF Chain
<1>3. d \in [0 .. M - 1 -> Clusters]
  BY <1>2
<1>4. d[0] = ch[k]
  BY <1>1
<1>5. \A i, j \in 0 .. M - 1 : d[i] = d[j] => i = j
  <2> TAKE i, j \in 0 .. M - 1
  <2>1. k + i \in 0 .. L - 1 /\ k + j \in 0 .. L - 1 /\ d[i] = ch[k + i] /\ d[j] = ch[k + j]
    BY <1>1
  <2> HIDE DEF d, M
  <2>2. d[i] = d[j] => k + i = k + j
    BY <2>1 DEF Chain
  <2>3. k \in Int /\ i \in Int /\ j \in Int
    OBVIOUS
  <2> QED  BY <2>2, <2>3
<1>6. \A i \in 0 .. M - 1 : t[d[i]] = IF i = M - 1 THEN EOC ELSE d[i + 1]
  <2> TAKE i \in 0 .. M - 1
  <2>1. k + i \in 0 .. L - 1 /\ d[i] = ch[k + i]
    BY <1>1
  <2>2. t[ch[k + i]] = IF k + i = L - 1 THEN EOC ELSE ch[k + i + 1]
    BY <2>1 DEF Chain
  <2>3. (k + i = L - 1 <=> i = M - 1) /\ k + i + 1 = k + (i + 1)
    BY <1>1
  <2>4. i # M - 1 => i + 1 \in 0 .. M - 1 /\ d[i + 1] = ch[k + (i + 1)]
    <3>1. i # M - 1 => i + 1 \in 0 .. M - 1
      BY <1>1
    <3> QED  BY <1>1, <3>1
  <2> HIDE DEF d, M
  <2> QED  BY <2>1, <2>2, <2>3, <2>4
<1> HIDE DEF d
<1>7. Chain(t, ch[k], M, d)
  BY <1>1, <1>3, <1>4, <1>5, <1>6 DEF Chain
<1> QED  BY <1>7 DEF d

\* A chain that is cut after its first clusters.
LEMMA Prefix ==
  ASSUME NEW t, NEW u, NEW h, NEW L \in Nat, NEW ch, Chain(t, h, L, ch), NEW M \in 0 .. L,
         M > 0 => u[ch[M - 1]] = EOC,
         \A i \in 0 .. M - 2 : u[ch[i]] = t[ch[i]],
         NEW g, M = 0 => g = 0, M > 0 => g = h,
         NEW d, d = [i \in 0 .. M - 1 |-> ch[i]]
  PROVE  Chain(u, g, M, d)
<1>1. L \in Nat /\ M \in Nat /\ \A i \in 0 .. M - 1 : i \in 0 .. L - 1 /\ d[i] = ch[i]
  BY DEF Chain
<1>2. \A i \in 0 .. M - 1 : d[i] \in Clusters
  BY <1>1 DEF Chain
<1>3. d \in [0 .. M - 1 -> Clusters]
  BY <1>2
<1>4. g = IF M = 0 THEN 0 ELSE d[0]
  BY <1>1 DEF Chain
<1>5. \A i, j \in 0 .. M - 1 : d[i] = d[j] => i = j
  BY <1>1 DEF Chain
<1>6. \A i \in 0 .. M - 1 : u[d[i]] = IF i = M - 1 THEN EOC ELSE d[i + 1]
  <2> TAKE i \in 0 .. M - 1
  <2>1. CASE i = M - 1
    BY <1>1, <2>1
  <2>2. CASE i # M - 1
    <3>1. i \in 0 .. M - 2 /\ i \in 0 .. L - 1 /\ i # L - 1 /\ i + 1 \in 0 .. M - 1
      BY <1>1, <2>2
    <3>2. u[d[i]] = t[ch[i]] /\ d[i + 1] = ch[i + 1]
      BY <1>1, <3>1
    <3> QED  BY <2>2, <3>1, <3>2 DEF Chain
  <2> QED  BY <2>1, <2>2
<1> QED  BY <1>1, <1>3, <1>4, <1>5, <1>6 DEF Chain

\* Table u has the chain of table t that h heads, and then c; g heads it.
Appends(t, u, h, L, ch, c, g) ==
  /\ Chain(t, h, L, ch) /\ c \in Clusters /\ \A i \in 0 .. L - 1 : ch[i] # c
  /\ u[c] = EOC /\ (L > 0 => u[ch[L - 1]] = c) /\ \A i \in 0 .. L - 2 : u[ch[i]] = t[ch[i]]
  /\ (L = 0 => g = c) /\ (L > 0 => g = h)

\* A chain with one more cluster.
LEMMA Extended ==
  ASSUME NEW t, NEW u, NEW h, NEW L, NEW ch, NEW c, NEW g, Appends(t, u, h, L, ch, c, g)
  PROVE  Chain(u, g, L + 1, [i \in 0 .. L |-> IF i = L THEN c ELSE ch[i]])
<1> DEFINE d == [i \in 0 .. L |-> IF i = L THEN c ELSE ch[i]]
<1>0. /\ Chain(t, h, L, ch) /\ c \in Clusters /\ \A i \in 0 .. L - 1 : ch[i] # c
      /\ u[c] = EOC /\ (L > 0 => u[ch[L - 1]] = c) /\ \A i \in 0 .. L - 2 : u[ch[i]] = t[ch[i]]
      /\ (L = 0 => g = c) /\ (L > 0 => g = h)
  BY DEF Appends
<1>10. L \in Nat
  BY <1>0 DEF Chain
<1> DEFINE M == L + 1
<1>1. L \in Nat /\ M \in Nat /\ M - 1 = L /\ d[L] = c
      /\ \A i \in 0 .. L : i # L => i \in 0 .. L - 1 /\ d[i] = ch[i]
  BY <1>10
<1>2. \A i \in 0 .. L : d[i] \in Clusters
  BY <1>0, <1>1 DEF Chain
<1>3. d \in [0 .. L -> Clusters]
  BY <1>2
<1>4. d[0] = g
  BY <1>0, <1>1 DEF Chain
<1>5. \A i, j \in 0 .. L : d[i] = d[j] => i = j
  <2> QED  BY <1>0, <1>1 DEF Chain
<1>6. \A i \in 0 .. L : u[d[i]] = IF i = L THEN EOC ELSE d[i + 1]
  <2> TAKE i \in 0 .. L
  <2>1. CASE i = L
    BY <1>0, <1>1, <2>1
  <2>2. CASE i = L - 1
    <3>1. i \in 0 .. L - 1 /\ L > 0 /\ i + 1 = L /\ i # L
      BY <1>1, <2>2
    <3>2. u[ch[L - 1]] = c /\ d[i] = ch[L - 1] /\ d[i + 1] = c
      BY <1>0, <1>1, <2>2, <3>1
    <3> QED  BY <3>1, <3>2
  <2>3. CASE i \in 0 .. L - 2
    <3>1. i \in 0 .. L - 1 /\ i # L - 1 /\ i # L /\ i + 1 \in 0 .. L /\ i + 1 # L
      BY <1>1, <2>3
    <3>2. d[i] = ch[i] /\ d[i + 1] = ch[i + 1] /\ u[ch[i]] = t[ch[i]]
      BY <1>0, <1>1, <2>3, <3>1
    <3> QED  BY <1>0, <3>1, <3>2 DEF Chain
  <2>4. i = L \/ i = L - 1 \/ i \in 0 .. L - 2
    BY <1>1
  <2> QED  BY <2>1, <2>2, <2>3, <2>4
<1>7. M # 0 /\ M - 1 = L
  BY <1>1
<1> HIDE DEF M
<1>8. Chain(u, g, M, d)
  BY <1>1, <1>3, <1>4, <1>5, <1>6, <1>7 DEF Chain
<1> QED  BY <1>8 DEF M

\* A chain whose links are unchanged stays one.
LEMMA ChainKept ==
  ASSUME NEW t, NEW u, NEW h, NEW L, NEW ch, Chain(t, h, L, ch),
         \A i \in 0 .. L - 1 : u[ch[i]] = t[ch[i]]
  PROVE  Chain(u, h, L, ch)
BY DEF Chain

\* The chain is of clusters that are not another file's; its links count up; with no access
\* failed so far nothing but it and the other files is allocated.
Own(L, ch) == \A i \in 0 .. L - 1 : ch[i] \notin foreign
Straight(L, ch) == \A i \in 0 .. L - 2 : ch[i + 1] = ch[i] + 1
Exact(L, ch) ==
  faults = 0 => \A c \in Clusters : next[c] # 0 <=> c \in foreign \/ \E i \in 0 .. L - 1 : ch[i] = c

\* The first cluster was freed, and may be another file's now.
Gone(h) == h \in Clusters /\ (next[h] = 0 \/ h \in foreign)
Headed(h) == \E L \in Nat : \E ch \in [0 .. L - 1 -> Clusters] : Chain(next, h, L, ch) /\ Own(L, ch)

Moving == pc \in {"put", "get"} /\ todo > 0
\* Where the cursor is in the chain.
Cursor(L, ch) ==
  /\ IF Moving
     THEN curPosition \div ClusterUnits < L /\ curCluster = ch[curPosition \div ClusterUnits]
     ELSE /\ curPosition = 0 => curCluster = 0
          /\ curPosition > 0 => ClusterIndex(curPosition) < L /\ curCluster = ch[ClusterIndex(curPosition)]
  /\ pc \in {"next", "fetch"} /\ todo > 0 => AtBoundary(curPosition)
  /\ pc = "idle" => curPosition <= fileSize
  /\ InRead => curPosition + todo <= fileSize
  /\ InWrite => curPosition + todo <= MaxSize

\* What the handle knows of the chain, and the entry of the handle.
Handle(L, ch) ==
  /\ Chain(next, firstCluster, L, ch) /\ Own(L, ch) /\ Exact(L, ch)
  /\ Need(fileSize) <= L
  /\ "contiguous" \in flags => Straight(L, ch)
  /\ entry.used
  /\ "dirDirty" \notin flags => entry = Updated(firstCluster, fileSize)
  /\ entry.first = 0 \/ Gone(entry.first) \/ \E i \in 0 .. L - 1 : ch[i] = entry.first
  /\ ~failed => Cursor(L, ch)

FileTypes ==
  /\ next \in [Clusters -> {0, EOC} \cup Clusters]
  /\ foreign \subseteq Clusters /\ \A c \in foreign : next[c] = EOC
  /\ entry \in [used : BOOLEAN, first : Nat, size : 0 .. MaxSize]
  /\ ~entry.used => entry.first = 0 /\ entry.size = 0
  /\ curPosition \in 0 .. MaxSize /\ fileSize \in 0 .. MaxSize
  /\ pc \in {"closed", "idle", "next", "put", "fetch", "get"}
  /\ todo \in Nat /\ failed \in BOOLEAN /\ faults \in Nat
  /\ failed => pc = "idle"

FileInv ==
  /\ FileTypes
  /\ pc = "closed" =>
       \/ \E L \in Nat : \E ch \in [0 .. L - 1 -> Clusters] :
            Chain(next, entry.first, L, ch) /\ Own(L, ch) /\ Exact(L, ch)
       \/ faults > 0 /\ Gone(entry.first)
  /\ pc # "closed" /\ (~failed \/ faults = 0) =>
       \E L \in Nat : \E ch \in [0 .. L - 1 -> Clusters] : Handle(L, ch)
  /\ failed /\ faults > 0 =>
       /\ Headed(entry.first) \/ Gone(entry.first)
       /\ \/ Gone(firstCluster)
          \/ \E L \in Nat : \E ch \in [0 .. L - 1 -> Clusters] :
               /\ Chain(next, firstCluster, L, ch) /\ Own(L, ch)
               /\ "contiguous" \in flags => Straight(L, ch)

-----------------------------------------------------------------------------
(* Handles and chains, before and after a step.                            *)

Chains(L) == [0 .. L - 1 -> Clusters]
Handled == \E L \in Nat : \E ch \in Chains(L) : Handle(L, ch)

\* Neither 0 nor EOC is a cluster.
LEMMA NoCluster == 0 \notin Clusters /\ EOC \notin Clusters /\ EOC # 0 /\ \A c \in Clusters : c \in Nat
BY VolumeAssumption DEF Clusters, EOC

\* A file with no cluster has a chain.
LEMMA HeadedNone == Chain(next, 0, 0, [i \in 0 .. -1 |-> 0]) /\ Headed(0)
<1> DEFINE ch == [i \in 0 .. -1 |-> 0]
<1>1. ch \in [0 .. 0 - 1 -> Clusters]
  OBVIOUS
<1>2. Chain(next, 0, 0, ch) /\ Own(0, ch)
  BY <1>1 DEF Chain, Own
<1> QED  BY <1>1, <1>2 DEF Headed

\* So has each cluster of a chain.
LEMMA HeadedSuffix ==
  ASSUME NEW h, NEW L \in Nat, NEW ch, Chain(next, h, L, ch), Own(L, ch), NEW k \in 0 .. L - 1
  PROVE  Headed(ch[k])
<1> DEFINE d == [i \in 0 .. L - k - 1 |-> ch[k + i]]
<1>1. Chain(next, ch[k], L - k, d)
  BY Suffix
<1>2. L - k \in Nat /\ d \in [0 .. L - k - 1 -> Clusters]
  BY <1>1 DEF Chain
<1>3. \A i \in 0 .. L - k - 1 : k + i \in 0 .. L - 1 /\ d[i] = ch[k + i]
  BY DEF Chain
<1>4. Own(L - k, d)
  BY <1>3 DEF Own
<1> HIDE DEF d
<1> QED  BY <1>1, <1>2, <1>4 DEF Headed

\* An open file with a handle that is right satisfies the invariant.
LEMMA HandleInv == FileTypes /\ pc # "closed" /\ Handled => FileInv
<1> SUFFICES ASSUME FileTypes, pc # "closed", Handled PROVE FileInv
  OBVIOUS
<1>1. PICK L \in Nat : \E ch \in Chains(L) : Handle(L, ch)
  BY DEF Handled
<1>2. PICK ch \in Chains(L) : Handle(L, ch)
  BY <1>1
<1>3. Headed(entry.first) \/ Gone(entry.first)
  BY <1>2, HeadedNone, HeadedSuffix DEF Handle
<1>4. \E M \in Nat : \E d \in [0 .. M - 1 -> Clusters] :
        Chain(next, firstCluster, M, d) /\ Own(M, d) /\ ("contiguous" \in flags => Straight(M, d))
  BY <1>2 DEF Handle, Chains
<1> QED  BY <1>1, <1>3, <1>4 DEF FileInv, Handled, Chains

\* The same after a step.
LEMMA HandleInvNext == FileTypes' /\ IsOpen' /\ Handled' => FileInv'
<1>1. FileTypes /\ IsOpen /\ Handled => FileInv
  BY HandleInv DEF IsOpen
<1> QED  BY <1>1, PTL

\* A step that leaves table, entry and handle alone keeps the chain of the handle.
LEMMA SameChain ==
  ASSUME NEW L, NEW ch, Handle(L, ch),
         UNCHANGED <<next, foreign, entry, firstCluster, fileSize>>,
         "contiguous" \in flags' => "contiguous" \in flags, "dirDirty" \in flags => "dirDirty" \in flags',
         faults' = 0 => faults = 0, ~failed' => Cursor(L, ch)'
  PROVE  Handle(L, ch)'
BY DEF Handle, Chain, Own, Exact, Gone, Straight, Need, Updated

\* A call begins with a handle and a cursor that are right.
LEMMA Called ==
  ASSUME CloseOnError, FileInv, Call
  PROVE  \E L \in Nat : \E ch \in Chains(L) : Handle(L, ch) /\ Cursor(L, ch)
BY DEF Call, FileInv, Chains, Handle
\* So does a turn of the loops of write and read.
LEMMA Looping ==
  ASSUME FileInv, pc \notin {"closed", "idle"}
  PROVE  \E L \in Nat : \E ch \in Chains(L) : Handle(L, ch) /\ Cursor(L, ch)
<1>1. ~failed
  BY DEF FileInv, FileTypes
<1> QED  BY <1>1 DEF FileInv, Chains, Handle

-----------------------------------------------------------------------------
(* Positions in the chain.                                                 *)

\* The walk from a cluster of the chain.
LEMMA WalkFrom ==
  ASSUME NEW h, NEW L, NEW ch, Chain(next, h, L, ch), NEW k \in 0 .. L - 1, NEW n \in Nat, k + n < L
  PROVE  Walk(ch[k], n) = ch[k + n] /\ k + n \in 0 .. L - 1
<1>1. PICK M \in Nat : M = L
  BY DEF Chain
<1> DEFINE d == [i \in 0 .. M - k - 1 |-> ch[k + i]]
<1>2. Chain(next, h, M, ch) /\ k \in 0 .. M - 1 /\ n \in 0 .. M - k - 1 /\ n < M - k /\ k + n \in 0 .. M - 1
  BY <1>1
<1>3. Chain(next, ch[k], M - k, d)
  BY <1>2, Suffix
<1>4. WalkIn(next, ch[k], n) = d[n]
  <2> HIDE DEF d
  <2> QED  BY <1>2, <1>3, ChainWalk
<1> QED  BY <1>1, <1>2, <1>4, WalkNow

\* The walk from the first cluster.
LEMMA WalkFirst ==
  ASSUME NEW h, NEW L, NEW ch, Chain(next, h, L, ch), NEW n \in Nat
  PROVE  Walk(h, n) = IF n < L THEN ch[n] ELSE IF n = 0 THEN 0 ELSE EOC
BY ChainWalk, WalkNow

\* In a chain without gaps a cluster is found by counting.
LEMMA StraightAt ==
  ASSUME NEW L \in Nat, NEW ch \in Chains(L), Straight(L, ch)
  PROVE  \A i \in 0 .. L - 1 : ch[i] = ch[0] + i
<1> DEFINE S == {i \in Nat : i < L => ch[i] = ch[0] + i}
<1>1. \A i \in 0 .. L - 1 : ch[i] \in Nat
  BY NoCluster DEF Chains
<1>2. 0 \in S
  BY <1>1
<1>3. ASSUME NEW i \in Nat, i \in S PROVE i + 1 \in S
  <2> SUFFICES ASSUME i + 1 < L PROVE ch[i + 1] = ch[0] + (i + 1)
    OBVIOUS
  <2>1. i \in 0 .. L - 2 /\ i \in 0 .. L - 1 /\ 0 \in 0 .. L - 1 /\ i < L
    OBVIOUS
  <2>2. ch[i + 1] = ch[i] + 1 /\ ch[i] = ch[0] + i /\ ch[0] \in Nat
    BY <1>1, <1>3, <2>1 DEF Straight
  <2> QED  BY <2>2
<1> HIDE DEF S
<1>4. Nat \subseteq S
  BY <1>2, <1>3, Induction
<1> QED  BY <1>4 DEF S

\* The position is in a cluster of a chain that is long enough for the file.
LEMMA InFile ==
  ASSUME NEW x \in Nat, NEW y \in Nat, x <= y, NEW L \in Nat, Need(y) <= L
  PROVE  /\ x > 0 => ClusterIndex(x) \in 0 .. L - 1
         /\ x < y => x \div ClusterUnits \in 0 .. L - 1
<1> DEFINE b == ClusterUnits
<1>1. b \in Int /\ b > 0
  BY Units
<1>2. Need(x) = ClusterIndex(x) + 1 /\ Need(y) = ClusterIndex(y) + 1 /\ ClusterIndex(x) \in Int
      /\ ClusterIndex(y) \in Int /\ (x > 0 => ClusterIndex(x) \in Nat) /\ x \div b \in Nat
  BY Places
<1>3. ClusterIndex(x) <= ClusterIndex(y)
  <2>1. x - 1 \in Int /\ y - 1 \in Int /\ x - 1 <= y - 1
    OBVIOUS
  <2> HIDE DEF b
  <2>2. (x - 1) \div b <= (y - 1) \div b
    BY <1>1, <2>1, Monotone
  <2> QED  BY <2>2 DEF ClusterIndex, b
<1>4. x < y => x \div b <= ClusterIndex(y)
  <2>1. x < y => x \in Int /\ y - 1 \in Int /\ x <= y - 1
    OBVIOUS
  <2> HIDE DEF b
  <2>2. x < y => x \div b <= (y - 1) \div b
    BY <1>1, <2>1, Monotone
  <2> QED  BY <2>2 DEF ClusterIndex, b
<1> HIDE DEF b
<1>5. x > 0 => ClusterIndex(x) \in 0 .. L - 1
  BY <1>2, <1>3
<1>6. x < y => x \div b \in 0 .. L - 1
  BY <1>2, <1>4
<1> QED  BY <1>5, <1>6 DEF b

\* The cursor between two calls that is right for position x.
At(x, c, L, ch) ==
  /\ x = 0 => c = 0
  /\ x > 0 => ClusterIndex(x) < L /\ c = ch[ClusterIndex(x)]

\* The cluster seekSet finds is that of the position.
LEMMA SeekFinds ==
  ASSUME NEW L \in Nat, NEW ch \in Chains(L), FileTypes, Handle(L, ch), Cursor(L, ch), pc = "idle",
         NEW x \in Nat, x <= fileSize, x # 0
  PROVE  SeekCluster(x) = ch[ClusterIndex(x)] /\ ClusterIndex(x) \in 0 .. L - 1
<1> DEFINE k == ClusterIndex(x)
           j == ClusterIndex(curPosition)
<1>1. curPosition \in Nat /\ fileSize \in Nat /\ curPosition <= fileSize
  BY DEF FileTypes, Cursor
<1>2. At(curPosition, curCluster, L, ch)
  BY DEF Cursor, Moving, At
<1>3. Chain(next, firstCluster, L, ch) /\ Need(fileSize) <= L
  BY DEF Handle
<1>4. k \in 0 .. L - 1 /\ (curPosition > 0 => j \in 0 .. L - 1)
  BY <1>1, <1>3, InFile
<1>5. CASE "contiguous" \in flags
  <2>1. Straight(L, ch)
    BY <1>5 DEF Handle
  <2>2. ch[k] = ch[0] + k /\ firstCluster = ch[0]
    BY <1>3, <1>4, <2>1, StraightAt DEF Chain
  <2>3. SeekCluster(x) = firstCluster + k
    BY <1>5 DEF SeekCluster
  <2> HIDE DEF k
  <2> QED  BY <1>4, <2>2, <2>3 DEF k
<1>6. CASE "contiguous" \notin flags /\ StartsOver(x)
  <2>1. SeekCluster(x) = Walk(firstCluster, k - 0)
    BY <1>6 DEF SeekCluster, LinkCount
  <2> HIDE DEF k
  <2>2. k - 0 = k /\ k \in Nat /\ k < L
    BY <1>4
  <2>3. SeekCluster(x) = ch[k]
    BY <1>3, <2>1, <2>2, WalkFirst
  <2> QED  BY <1>4, <2>3 DEF k
<1>7. CASE "contiguous" \notin flags /\ ~StartsOver(x)
  <2>1. SeekCluster(x) = Walk(curCluster, k - j)
    BY <1>7 DEF SeekCluster, LinkCount
  <2>2. curPosition > 0 /\ ~ (k < j)
    BY <1>1, <1>7 DEF StartsOver
  <2>3. curCluster = ch[j]
    BY <1>2, <2>2 DEF At
  <2> HIDE DEF k, j
  <2>4. j \in 0 .. L - 1 /\ k - j \in Nat /\ j + (k - j) < L /\ j + (k - j) = k
    BY <1>4, <2>2
  <2>5. Walk(ch[j], k - j) = ch[j + (k - j)]
    <3>1. \A i \in 0 .. L - 1 : \A n \in Nat : i + n < L => Walk(ch[i], n) = ch[i + n]
      BY <1>3, WalkFrom
    <3> QED  BY <2>4, <3>1
  <2>6. SeekCluster(x) = ch[k]
    BY <2>1, <2>3, <2>4, <2>5
  <2> QED  BY <1>4, <2>6 DEF k
<1> QED  BY <1>5, <1>6, <1>7

\* So seekSet leaves the cursor right.
LEMMA SeekRight ==
  ASSUME NEW L \in Nat, NEW ch \in Chains(L), FileTypes, Handle(L, ch), Cursor(L, ch), pc = "idle",
         NEW x \in Nat, x <= fileSize, SeekTo(x)
  PROVE  /\ curPosition' = x /\ At(x, curCluster', L, ch)
         /\ "contiguous" \in flags' => "contiguous" \in flags
         /\ "dirDirty" \in flags => "dirDirty" \in flags'
<1>1. At(curPosition, curCluster, L, ch)
  BY DEF Cursor, Moving, At
<1>2. CASE x = curPosition
  BY <1>1, <1>2 DEF SeekTo, cursor
<1>3. CASE x # curPosition
  <2>1. curCluster' = SeekCluster(x) /\ curPosition' = x /\ flags' = flags \ {"preallocate"}
    BY <1>3 DEF SeekTo
  <2>2. CASE x = 0
    BY <2>1, <2>2 DEF SeekCluster, At
  <2>3. CASE x # 0
    <3>1. SeekCluster(x) = ch[ClusterIndex(x)] /\ ClusterIndex(x) \in 0 .. L - 1
      BY <2>3, SeekFinds
    <3>2. ClusterIndex(x) < L
      BY <3>1
    <3> QED  BY <2>1, <2>3, <3>1, <3>2 DEF At
  <2> QED  BY <2>2, <2>3
<1> QED  BY <1>2, <1>3

\* A cursor is right when it is at its position.
LEMMA CursorAt ==
  ASSUME NEW L, NEW ch, At(curPosition, curCluster, L, ch), pc = "idle", curPosition <= fileSize
  PROVE  Cursor(L, ch)
BY DEF At, Cursor, Moving, InRead, InWrite

-----------------------------------------------------------------------------
(* Seeks.                                                                  *)

\* The result of a step that leaves the chain and the entry alone.
LEMMA ChainUntouched ==
  ASSUME NEW L \in Nat, NEW ch \in Chains(L), Handle(L, ch), FileTypes', IsOpen',
         UNCHANGED <<next, foreign, entry, firstCluster, fileSize>>,
         "contiguous" \in flags' => "contiguous" \in flags, "dirDirty" \in flags => "dirDirty" \in flags',
         faults' = 0 => faults = 0, ~failed' => Cursor(L, ch)'
  PROVE  FileInv'
<1>1. Handle(L, ch)'
  BY SameChain
<1>2. Handled'
  BY <1>1 DEF Handled, Chains
<1> QED  BY <1>2, HandleInvNext

\* Types after a call that failed.
LEMMA FailsTypes ==
  ASSUME FileTypes, Fails, UNCHANGED <<next, foreign, entry>>, curPosition' \in 0 .. MaxSize,
         UNCHANGED fileSize, faults' \in Nat
  PROVE  FileTypes' /\ IsOpen' /\ failed'
BY DEF FileTypes, Fails, IsOpen

\* Each operation keeps the invariant.
LEMMA SeekSetStep == ASSUME CloseOnError, FileInv, NEW x \in Sizes, SeekSet(x) PROVE FileInv'
<1>1. FileTypes /\ pc = "idle" /\ x \in Nat /\ x <= fileSize /\ x \in 0 .. MaxSize
  BY Units DEF FileInv, SeekSet, Call, Sizes
<1>2. PICK L \in Nat : \E ch \in Chains(L) : Handle(L, ch) /\ Cursor(L, ch)
  BY Called DEF SeekSet
<1>3. PICK ch \in Chains(L) : Handle(L, ch) /\ Cursor(L, ch)
  BY <1>2
<1>4. /\ curPosition' = x /\ At(x, curCluster', L, ch)
      /\ "contiguous" \in flags' => "contiguous" \in flags
      /\ "dirDirty" \in flags => "dirDirty" \in flags'
  BY <1>1, <1>3, SeekRight DEF SeekSet
<1>5. /\ UNCHANGED <<next, foreign, entry, firstCluster, fileSize, faults, failed, todo>> /\ pc' = "idle"
  BY DEF SeekSet, volume, file, NoFault, Succeeds, call
<1>6. FileTypes' /\ IsOpen'
  BY <1>1, <1>4, <1>5 DEF FileTypes, IsOpen
<1>7. Cursor(L, ch)'
  BY <1>1, <1>4, <1>5 DEF Cursor, At, Moving, InRead, InWrite
<1> QED  BY <1>3, <1>4, <1>5, <1>6, <1>7, ChainUntouched

\* SeekFails keeps FileInv.
LEMMA SeekFailsStep == ASSUME CloseOnError, FileInv, NEW x \in Sizes, SeekFails(x) PROVE FileInv'
<1>1. FileTypes /\ pc = "idle"
  BY DEF FileInv, SeekFails, Call
<1>2. PICK L \in Nat : \E ch \in Chains(L) : Handle(L, ch) /\ Cursor(L, ch)
  BY Called DEF SeekFails
<1>3. PICK ch \in Chains(L) : Handle(L, ch) /\ Cursor(L, ch)
  BY <1>2
<1>4. UNCHANGED <<next, foreign, entry, firstCluster, fileSize, flags, curPosition>> /\ Fails /\ faults' = faults + 1
  BY DEF SeekFails, volume, file, cursor, Fault
<1>5. FileTypes' /\ IsOpen' /\ failed' /\ faults' # 0
  BY <1>1, <1>4, FailsTypes DEF FileTypes
<1> QED  BY <1>3, <1>4, <1>5, ChainUntouched

\* FSetPos keeps FileInv.
LEMMA FSetPosStep == ASSUME CloseOnError, FileInv, NEW x \in Sizes, FSetPos(x) PROVE FileInv'
<1>1. FileTypes /\ pc = "idle" /\ x \in Nat /\ x <= fileSize /\ x \in 0 .. MaxSize /\ fileSize \in Nat
  BY Units DEF FileInv, FileTypes, FSetPos, Call, Sizes
<1>2. PICK L \in Nat : \E ch \in Chains(L) : Handle(L, ch) /\ Cursor(L, ch)
  BY Called DEF FSetPos
<1>3. PICK ch \in Chains(L) : Handle(L, ch) /\ Cursor(L, ch)
  BY <1>2
<1>4. curPosition' = x /\ At(x, curCluster', L, ch)
  <2>1. curPosition' = x /\ curCluster' = IF x = 0 THEN 0 ELSE Walk(firstCluster, ClusterIndex(x))
    BY DEF FSetPos
  <2>2. Chain(next, firstCluster, L, ch) /\ Need(fileSize) <= L
    BY <1>3 DEF Handle
  <2>3. x > 0 => ClusterIndex(x) \in 0 .. L - 1
    BY <1>1, <2>2, InFile
  <2>4. x > 0 => ClusterIndex(x) \in Nat /\ ClusterIndex(x) < L
    BY <2>3
  <2>5. x > 0 => Walk(firstCluster, ClusterIndex(x)) = ch[ClusterIndex(x)]
    BY <2>2, <2>4, WalkFirst
  <2> QED  BY <1>1, <2>1, <2>4, <2>5 DEF At
<1>5. /\ UNCHANGED <<next, foreign, entry, firstCluster, fileSize, flags, faults, failed, todo>> /\ pc' = "idle"
  BY DEF FSetPos, volume, file, NoFault, Succeeds, call
<1>6. FileTypes' /\ IsOpen'
  BY <1>1, <1>4, <1>5 DEF FileTypes, IsOpen
<1>7. Cursor(L, ch)'
  BY <1>1, <1>4, <1>5 DEF Cursor, At, Moving, InRead, InWrite
<1> QED  BY <1>3, <1>4, <1>5, <1>6, <1>7, ChainUntouched

\* ContiguousRange keeps FileInv.
LEMMA ContiguousRangeStep == ASSUME CloseOnError, FileInv, ContiguousRange PROVE FileInv'
<1>1. FileTypes /\ pc = "idle"
  BY DEF FileInv, ContiguousRange, Call
<1>2. PICK L \in Nat : \E ch \in Chains(L) : Handle(L, ch) /\ Cursor(L, ch)
  BY Called DEF ContiguousRange
<1>3. PICK ch \in Chains(L) : Handle(L, ch) /\ Cursor(L, ch)
  BY <1>2
<1>4. Chain(next, firstCluster, L, ch)
  BY <1>3 DEF Handle
<1>5. Straight(L, ch)
  <2>3. ChainOf(firstCluster) = Held(L, ch)
    BY <1>4, ChainOfChain
  <2>1. \A i \in 0 .. L - 1 : ch[i] \in ChainOf(firstCluster)
    BY <1>4, <2>3 DEF Held, Chain
  <2>2. ASSUME NEW i \in 0 .. L - 2 PROVE ch[i + 1] = ch[i] + 1
    <3>1. i \in 0 .. L - 1 /\ i + 1 \in 0 .. L - 1 /\ i # L - 1
      OBVIOUS
    <3>2. next[ch[i]] = ch[i + 1] /\ ch[i + 1] \in Clusters
      BY <1>4, <3>1 DEF Chain
    <3>3. next[ch[i]] \in {ch[i] + 1, EOC}
      BY <2>1, <3>1 DEF ContiguousRange
    <3> QED  BY <3>2, <3>3, NoCluster
  <2> QED  BY <2>2 DEF Straight
<1>6. /\ UNCHANGED <<next, foreign, entry, firstCluster, curCluster, curPosition, fileSize, faults, failed, todo>>
      /\ pc' = "idle" /\ flags' = flags \cup {"contiguous"}
  BY DEF ContiguousRange, volume, cursor, file, NoFault, Succeeds, call
<1>7. FileTypes' /\ IsOpen'
  BY <1>1, <1>6 DEF FileTypes, IsOpen
<1>8. Cursor(L, ch)'
  BY <1>1, <1>3, <1>6 DEF Cursor, Moving, InRead, InWrite
<1>9. Handle(L, ch)'
  BY <1>3, <1>5, <1>6, <1>8 DEF Handle, Chain, Own, Exact, Gone, Straight, Need, Updated
<1>10. Handled'
  BY <1>9 DEF Handled, Chains
<1> QED  BY <1>7, <1>10, HandleInvNext

-----------------------------------------------------------------------------
(* write: its start and the choice of a cluster.                           *)

\* A piece that starts at x ends in the cluster of x.
LEMMA Advance ==
  ASSUME NEW x \in Nat, NEW n \in Nat, n > 0, n <= ClusterUnits - (x % ClusterUnits)
  PROVE  /\ ClusterIndex(x + n) = x \div ClusterUnits
         /\ ~AtBoundary(x + n) => (x + n) \div ClusterUnits = x \div ClusterUnits
<1> DEFINE b == ClusterUnits
           y == x + n
<1>1. b \in Int /\ b > 0
  BY Units
<1>2. x % b \in 0 .. b - 1 /\ x \div b \in Nat
  BY Places
<1>3. IF n < b - (x % b) THEN y \div b = x \div b /\ y % b = (x % b) + n
                         ELSE y \div b = x \div b + 1 /\ y % b = 0
  <2>1. x \in Int /\ n <= b - (x % b)
    OBVIOUS
  <2> HIDE DEF b
  <2> QED  BY <1>1, <2>1, Further
<1>4. ClusterIndex(y) = IF AtBoundary(y) THEN y \div b - 1 ELSE y \div b
  <2>1. y \in Nat
    OBVIOUS
  <2> HIDE DEF y
  <2> QED  BY <2>1, Places
<1>5. AtBoundary(y) <=> y % b = 0
  BY DEF AtBoundary
<1> HIDE DEF b, y
<1>6. ClusterIndex(y) = x \div b /\ (~AtBoundary(y) => y \div b = x \div b)
  BY <1>1, <1>2, <1>3, <1>4, <1>5
<1> QED  BY <1>6 DEF b, y

\* The seek of append writes leaves the cursor right.
LEMMA AppendSeek ==
  ASSUME NEW L \in Nat, NEW ch \in Chains(L), FileTypes, Handle(L, ch), Cursor(L, ch), pc = "idle",
         IF "append" \in flags THEN SeekTo(fileSize) ELSE UNCHANGED <<cursor, flags>>
  PROVE  /\ curPosition' \in Nat /\ curPosition' <= fileSize /\ At(curPosition', curCluster', L, ch)
         /\ "contiguous" \in flags' => "contiguous" \in flags
         /\ "dirDirty" \in flags => "dirDirty" \in flags'
<1>1. fileSize \in Nat /\ fileSize <= fileSize /\ curPosition \in Nat
  BY DEF FileTypes
<1>2. CASE "append" \in flags
  BY <1>1, <1>2, SeekRight
<1>3. CASE "append" \notin flags
  BY <1>1, <1>3 DEF cursor, Cursor, At, Moving
<1> QED  BY <1>2, <1>3

\* A sum stays below a limit.
LEMMA Fits == ASSUME NEW p \in Nat, NEW n \in Nat, NEW m \in Nat, n <= m - p PROVE p + n <= m
OBVIOUS

\* Write keeps FileInv.
LEMMA WriteStep == ASSUME CloseOnError, FileInv, NEW n \in Nat, Write(n) PROVE FileInv'
<1>1. FileTypes /\ pc = "idle" /\ n \in Nat /\ n > 0 /\ fileSize \in Nat /\ fileSize <= MaxSize /\ MaxSize \in Nat
  BY Units DEF FileInv, FileTypes, Write, Call
<1>2. PICK L \in Nat : \E ch \in Chains(L) : Handle(L, ch) /\ Cursor(L, ch)
  BY Called DEF Write
<1>3. PICK ch \in Chains(L) : Handle(L, ch) /\ Cursor(L, ch)
  BY <1>2
<1>4. /\ UNCHANGED <<next, foreign, entry, firstCluster, fileSize, faults, failed>>
      /\ pc' = WriteLoop(curPosition') /\ todo' = n /\ n <= MaxSize - curPosition'
  BY DEF Write, volume, file, NoFault
<1>5. /\ curPosition' \in Nat /\ curPosition' <= fileSize /\ At(curPosition', curCluster', L, ch)
      /\ "contiguous" \in flags' => "contiguous" \in flags
      /\ "dirDirty" \in flags => "dirDirty" \in flags'
  BY <1>1, <1>3, AppendSeek DEF Write
<1>6. FileTypes' /\ IsOpen'
  BY <1>1, <1>4, <1>5 DEF FileTypes, IsOpen, WriteLoop, Call, Write
<1>7. Cursor(L, ch)'
  <2>1. /\ ClusterIndex(curPosition') = IF AtBoundary(curPosition') THEN curPosition' \div ClusterUnits - 1
                                        ELSE curPosition' \div ClusterUnits
        /\ curPosition' = 0 => AtBoundary(curPosition')
    BY <1>5, Places
  <2>2. curPosition' \in Nat /\ curPosition' <= fileSize /\ n <= MaxSize - curPosition' /\ MaxSize \in Nat
        /\ n \in Nat /\ n > 0
    BY <1>1, <1>4, <1>5
  <2>3. curPosition' + n <= MaxSize
    BY <2>2, Fits
  <2>4. pc' \in {"next", "put"} /\ (pc' = "next" <=> AtBoundary(curPosition')) /\ todo' = n
    BY <1>4 DEF WriteLoop
  <2>5. At(curPosition', curCluster', L, ch)
    BY <1>5
  <2>6. Moving' <=> ~AtBoundary(curPosition')
    BY <2>2, <2>4 DEF Moving
  <2>7. InWrite' /\ ~InRead'
    BY <2>4 DEF InWrite, InRead
  <2>8. Moving' => curPosition' > 0
    BY <2>1, <2>2, <2>6
  <2> QED  BY <2>1, <2>2, <2>3, <2>4, <2>5, <2>6, <2>7, <2>8 DEF Cursor, At
<1> QED  BY <1>3, <1>4, <1>5, <1>6, <1>7, ChainUntouched

\* WriteRefused keeps FileInv.
LEMMA WriteRefusedStep == ASSUME CloseOnError, FileInv, NEW n \in Nat, WriteRefused(n) PROVE FileInv'
<1>1. FileTypes /\ pc = "idle" /\ fileSize \in Nat /\ fileSize <= MaxSize /\ MaxSize \in Nat /\ faults \in Nat
  BY Units DEF FileInv, FileTypes, WriteRefused, Call
<1>2. PICK L \in Nat : \E ch \in Chains(L) : Handle(L, ch) /\ Cursor(L, ch)
  BY Called DEF WriteRefused
<1>3. PICK ch \in Chains(L) : Handle(L, ch) /\ Cursor(L, ch)
  BY <1>2
<1>4. UNCHANGED <<next, foreign, entry, firstCluster, fileSize>> /\ Fails
  BY DEF WriteRefused, volume, file
<1>5. /\ curPosition' \in Nat /\ curPosition' <= MaxSize /\ faults' \in Nat /\ faults' >= faults
      /\ "contiguous" \in flags' => "contiguous" \in flags
      /\ "dirDirty" \in flags => "dirDirty" \in flags'
  <2>1. CASE "append" \in flags /\ ReadsLinks(fileSize) /\ Fault /\ UNCHANGED <<cursor, flags>>
    BY <1>1, <2>1 DEF cursor, Fault, FileTypes
  <2>2. CASE /\ IF "append" \in flags THEN SeekTo(fileSize) ELSE UNCHANGED <<cursor, flags>>
             /\ NoFault
    BY <1>1, <1>3, <2>2, AppendSeek DEF NoFault
  <2> QED  BY <2>1, <2>2 DEF WriteRefused
<1>6. FileTypes' /\ IsOpen' /\ failed'
  BY <1>1, <1>4, <1>5, FailsTypes
<1>7. faults' = 0 => faults = 0
  BY <1>1, <1>5
<1> QED  BY <1>3, <1>4, <1>5, <1>6, <1>7, ChainUntouched

\* ClusterInChain keeps FileInv.
LEMMA ClusterInChainStep == ASSUME FileInv, ClusterInChain PROVE FileInv'
<1> DEFINE x == curPosition
           k == x \div ClusterUnits
<1>1. FileTypes /\ pc = "next" /\ todo > 0 /\ x \in Nat /\ fileSize \in Nat /\ todo \in Nat
  BY DEF FileInv, FileTypes, ClusterInChain, Chosen
<1>2. PICK L \in Nat : \E ch \in Chains(L) : Handle(L, ch) /\ Cursor(L, ch)
  BY <1>1, Looping
<1>3. PICK ch \in Chains(L) : Handle(L, ch) /\ Cursor(L, ch)
  BY <1>2
<1>4. /\ UNCHANGED <<next, foreign, entry, firstCluster, fileSize, flags, faults, failed, curPosition, todo>>
      /\ pc' = "put"
  BY DEF ClusterInChain, Chosen, volume, file, NoFault, call
<1>5. /\ AtBoundary(x) /\ At(x, curCluster, L, ch) /\ x + todo <= MaxSize
  BY <1>1, <1>3 DEF Cursor, Moving, At, InWrite
<1>6. k \in Nat /\ ClusterIndex(x) = k - 1 /\ (x = 0 => k = 0) /\ (x > 0 => k >= 1)
  <2>1. /\ ClusterIndex(x) = (IF AtBoundary(x) THEN x \div ClusterUnits - 1 ELSE x \div ClusterUnits)
        /\ x = 0 => ClusterIndex(x) = -1
        /\ x > 0 => ClusterIndex(x) \in Nat
        /\ x \div ClusterUnits \in Nat
    BY <1>1, Places
  <2> QED  BY <1>5, <2>1
<1>7. Chain(next, firstCluster, L, ch) /\ Need(fileSize) <= L /\ ("contiguous" \in flags => Straight(L, ch))
  BY <1>3 DEF Handle
<1>8. \A i \in 0 .. L - 1 : ch[i] \in Clusters /\ ch[i] # 0
  BY NoCluster DEF Chains
<1>9. k < L /\ curCluster' = ch[k]
  <2>1. CASE curCluster # 0 /\ Known /\ curCluster' = curCluster + 1
    <3>1. x > 0 /\ curCluster = ch[k - 1] /\ x < fileSize /\ Straight(L, ch) /\ k >= 1
      BY <1>1, <1>5, <1>6, <1>7, <2>1 DEF At, Known
    <3>2. k \in 0 .. L - 1
      BY <1>1, <1>7, <3>1, InFile
    <3> HIDE DEF k
    <3>3. k - 1 \in 0 .. L - 2 /\ k - 1 + 1 = k
      BY <3>1, <3>2
    <3>4. ch[k - 1 + 1] = ch[k - 1] + 1
      BY <3>1, <3>3 DEF Straight
    <3> QED  BY <2>1, <3>1, <3>2, <3>3, <3>4
  <2>2. CASE curCluster # 0 /\ next[curCluster] \in Clusters /\ curCluster' = next[curCluster]
    <3>1. x > 0 /\ curCluster = ch[k - 1] /\ k >= 1 /\ k - 1 < L
      BY <1>1, <1>5, <1>6, <2>2 DEF At
    <3> HIDE DEF k
    <3>2. k - 1 \in 0 .. L - 1 /\ k - 1 + 1 = k
      BY <1>6, <3>1
    <3>3. next[ch[k - 1]] = IF k - 1 = L - 1 THEN EOC ELSE ch[k - 1 + 1]
      BY <1>7, <3>2 DEF Chain
    <3> QED  BY <1>6, <2>2, <3>1, <3>2, <3>3, NoCluster
  <2>3. CASE curCluster = 0 /\ firstCluster # 0 /\ curCluster' = firstCluster
    <3>1. x = 0
      <4>1. x > 0 => ClusterIndex(x) \in 0 .. L - 1
        BY <1>1, <1>5, <1>6 DEF At
      <4> QED  BY <1>1, <1>5, <1>8, <2>3, <4>1 DEF At
    <3>2. firstCluster = ch[0] /\ L > 0
      BY <1>7, <2>3 DEF Chain
    <3> QED  BY <1>6, <2>3, <3>1, <3>2
  <2> QED  BY <2>1, <2>2, <2>3 DEF ClusterInChain
<1> HIDE DEF k
<1>10. FileTypes' /\ IsOpen'
  BY <1>1, <1>4 DEF FileTypes, IsOpen
<1>11. Cursor(L, ch)'
  BY <1>1, <1>4, <1>5, <1>9 DEF Cursor, Moving, InRead, InWrite, k
<1> QED  BY <1>3, <1>4, <1>10, <1>11, ChainUntouched

-----------------------------------------------------------------------------
(* write: its pieces and its end; a call that failed.                      *)

\* Put keeps FileInv.
LEMMA PutStep == ASSUME FileInv, Put PROVE FileInv'
<1> DEFINE x == curPosition
           k == x \div ClusterUnits
           y == x + PieceSize
<1>1. FileTypes /\ pc = "put" /\ todo > 0 /\ x \in Nat /\ todo \in Nat /\ MaxSize \in Nat
  BY Units DEF FileInv, FileTypes, Put
<1>2. PICK L \in Nat : \E ch \in Chains(L) : Handle(L, ch) /\ Cursor(L, ch)
  BY <1>1, Looping
<1>3. PICK ch \in Chains(L) : Handle(L, ch) /\ Cursor(L, ch)
  BY <1>2
<1>4. /\ UNCHANGED <<next, foreign, entry, firstCluster, fileSize, flags, faults, failed, curCluster>>
      /\ curPosition' = y /\ todo' = todo - PieceSize /\ pc' = WriteLoop(y)
  BY DEF Put, file, NoFault, Advanced
<1>5. PieceSize \in 1 .. todo /\ PieceSize <= ClusterUnits - (x % ClusterUnits)
  BY <1>1, Pieces DEF UnitOffset
<1>6. k < L /\ curCluster = ch[k] /\ x + todo <= MaxSize
  BY <1>1, <1>3 DEF Cursor, Moving, InWrite
<1>7. y \in Nat /\ y > 0 /\ todo' \in Nat /\ y + todo' = x + todo /\ y <= MaxSize
  BY <1>1, <1>4, <1>5, <1>6
<1>8. ClusterIndex(y) = k /\ (~AtBoundary(y) => y \div ClusterUnits = k)
  <2>1. PieceSize \in Nat /\ PieceSize > 0
    BY <1>1, <1>5
  <2> QED  BY <1>1, <1>5, <2>1, Advance
<1> HIDE DEF k, y
<1>9. pc' \in {"next", "put"} /\ (pc' = "next" <=> AtBoundary(y))
  BY <1>4 DEF WriteLoop
<1>10. FileTypes' /\ IsOpen'
  BY <1>1, <1>4, <1>7, <1>9 DEF FileTypes, IsOpen
<1>11. Cursor(L, ch)'
  <2>1. InWrite' /\ ~InRead' /\ pc' # "idle"
    BY <1>9 DEF InWrite, InRead
  <2>2. Moving' => y \div ClusterUnits = k
    BY <1>8, <1>9 DEF Moving
  <2> QED  BY <1>4, <1>6, <1>7, <1>8, <1>9, <2>1, <2>2 DEF Cursor
<1> QED  BY <1>3, <1>4, <1>10, <1>11, ChainUntouched

\* PutFails keeps FileInv.
LEMMA PutFailsStep == ASSUME FileInv, PutFails PROVE FileInv'
<1>1. FileTypes /\ pc = "put"
  BY DEF FileInv, PutFails
<1>2. PICK L \in Nat : \E ch \in Chains(L) : Handle(L, ch) /\ Cursor(L, ch)
  BY <1>1, Looping
<1>3. PICK ch \in Chains(L) : Handle(L, ch) /\ Cursor(L, ch)
  BY <1>2
<1>4. UNCHANGED <<next, foreign, entry, firstCluster, fileSize, flags, curPosition>> /\ Fails /\ faults' = faults + 1
  BY DEF PutFails, file, cursor, Fault
<1>5. FileTypes' /\ IsOpen' /\ failed' /\ faults' # 0
  BY <1>1, <1>4, FailsTypes DEF FileTypes
<1> QED  BY <1>3, <1>4, <1>5, ChainUntouched

\* WriteEnd keeps FileInv.
LEMMA WriteEndStep == ASSUME FileInv, WriteEnd PROVE FileInv'
<1> DEFINE x == curPosition
<1>1. FileTypes /\ InWrite /\ pc \notin {"closed", "idle"} /\ todo = 0 /\ x \in 0 .. MaxSize /\ fileSize \in 0 .. MaxSize
  BY DEF FileInv, FileTypes, WriteEnd, InWrite
<1>2. PICK L \in Nat : \E ch \in Chains(L) : Handle(L, ch) /\ Cursor(L, ch)
  BY <1>1, Looping
<1>3. PICK ch \in Chains(L) : Handle(L, ch) /\ Cursor(L, ch)
  BY <1>2
<1>4. /\ UNCHANGED <<next, foreign, entry, firstCluster, faults, failed, curPosition, curCluster, todo>>
      /\ pc' = "idle"
      /\ IF x > fileSize THEN fileSize' = x /\ flags' = flags \cup {"dirDirty"} ELSE UNCHANGED <<fileSize, flags>>
  BY DEF WriteEnd, volume, cursor, NoFault, Succeeds, call
<1>5. ~failed
  BY <1>1 DEF FileTypes
<1>6. At(x, curCluster, L, ch)
  BY <1>1, <1>3 DEF Cursor, Moving, At
<1>7. x <= fileSize' /\ fileSize' \in 0 .. MaxSize /\ Need(fileSize') <= L
  <2>1. CASE x > fileSize
    <3>1. x \in Nat /\ x > 0
      BY <1>1, <2>1, Units
    <3>2. Need(x) = ClusterIndex(x) + 1 /\ ClusterIndex(x) \in Nat
      BY <3>1, Places
    <3>3. ClusterIndex(x) < L
      BY <1>6, <3>1 DEF At
    <3> QED  BY <1>1, <1>4, <2>1, <3>2, <3>3
  <2>2. CASE ~(x > fileSize)
    BY <1>1, <1>3, <1>4, <2>2, Units DEF Handle
  <2> QED  BY <2>1, <2>2
<1>8. FileTypes' /\ IsOpen'
  BY <1>1, <1>4, <1>7 DEF FileTypes, IsOpen
<1>9. Cursor(L, ch)'
  BY <1>4, <1>6, <1>7 DEF Cursor, At, Moving, InRead, InWrite
<1>10. Need(fileSize)' <= L
  BY <1>7 DEF Need
<1>11. Handle(L, ch)'
  <2>1. "dirDirty" \notin flags' => entry' = Updated(firstCluster', fileSize')
    BY <1>3, <1>4 DEF Handle, Updated
  <2>2. "contiguous" \in flags' => "contiguous" \in flags
    BY <1>4
  <2> QED  BY <1>3, <1>4, <1>9, <1>10, <2>1, <2>2 DEF Handle, Chain, Own, Exact, Gone, Straight, Updated
<1>12. Handled'
  BY <1>11 DEF Handled, Chains
<1> QED  BY <1>8, <1>12, HandleInvNext

\* The chain that starts with h in table t is of clusters outside f.
HeadedIn(t, f, h) ==
  \E L \in Nat : \E ch \in Chains(L) : Chain(t, h, L, ch) /\ \A i \in 0 .. L - 1 : ch[i] \notin f

\* Chains of no cluster, of one, and of the rest of a chain.
LEMMA HeadedInNone == ASSUME NEW t, NEW f PROVE HeadedIn(t, f, 0)
<1> DEFINE ch == [i \in 0 .. -1 |-> 0]
<1>1. ch \in Chains(0)
  BY DEF Chains
<1>2. Chain(t, 0, 0, ch)
  BY <1>1 DEF Chain, Chains
<1> QED  BY <1>1, <1>2 DEF HeadedIn

\* A cluster that ends a chain is a chain by itself.
LEMMA HeadedInOne ==
  ASSUME NEW t, NEW f, NEW h \in Clusters, h \notin f, t[h] = EOC PROVE HeadedIn(t, f, h)
<1> DEFINE ch == [i \in 0 .. 0 |-> h]
<1>1. ch \in Chains(1)
  BY DEF Chains
<1>2. Chain(t, h, 1, ch)
  BY <1>1 DEF Chain, Chains
<1> QED  BY <1>1, <1>2 DEF HeadedIn

\* So is each cluster of a chain, in any table.
LEMMA HeadedInSuffix ==
  ASSUME NEW t, NEW f, NEW h, NEW L \in Nat, NEW ch, Chain(t, h, L, ch), NEW k \in 0 .. L - 1,
         \A i \in k .. L - 1 : ch[i] \notin f
  PROVE  HeadedIn(t, f, ch[k])
<1> DEFINE d == [i \in 0 .. L - k - 1 |-> ch[k + i]]
<1>1. Chain(t, ch[k], L - k, d)
  BY Suffix
<1>2. L - k \in Nat /\ d \in Chains(L - k)
  BY <1>1 DEF Chain, Chains
<1>3. \A i \in 0 .. L - k - 1 : k + i \in k .. L - 1 /\ d[i] = ch[k + i]
  BY DEF Chain
<1> HIDE DEF d
<1> QED  BY <1>1, <1>2, <1>3 DEF HeadedIn

\* What is left to say of the entry and of the handle after a call that failed.
EntryHeaded == HeadedIn(next, foreign, entry.first) \/ Gone(entry.first)
HandleHeaded ==
  \/ Gone(firstCluster)
  \/ \E L \in Nat : \E ch \in Chains(L) :
       Chain(next, firstCluster, L, ch) /\ Own(L, ch) /\ ("contiguous" \in flags => Straight(L, ch))
CallFailed == IsOpen /\ failed /\ faults # 0

\* An open file after a failed call satisfies the invariant.
LEMMA FailedInv == FileTypes /\ CallFailed /\ EntryHeaded /\ HandleHeaded => FileInv
<1> SUFFICES ASSUME FileTypes, CallFailed, EntryHeaded, HandleHeaded PROVE FileInv
  OBVIOUS
<1>1. pc # "closed" /\ failed /\ faults # 0
  BY DEF CallFailed, IsOpen
<1>2. Headed(entry.first) \/ Gone(entry.first)
  BY DEF EntryHeaded, HeadedIn, Headed, Own, Chains
<1>3. \/ Gone(firstCluster)
      \/ \E L \in Nat : \E ch \in [0 .. L - 1 -> Clusters] :
           Chain(next, firstCluster, L, ch) /\ Own(L, ch) /\ ("contiguous" \in flags => Straight(L, ch))
  BY DEF HandleHeaded, Chains
<1> QED  BY <1>1, <1>2, <1>3 DEF FileInv

\* The same after a step.
LEMMA FailedInvNext == FileTypes' /\ CallFailed' /\ EntryHeaded' /\ HandleHeaded' => FileInv'
BY FailedInv, PTL

\* Clusters marked as ends of chains and linked to nothing leave the chain of the handle alone.
LEMMA Marked ==
  ASSUME NEW L \in Nat, NEW ch \in Chains(L), FileTypes, Handle(L, ch), NEW lost \in SUBSET Free,
         next' = [k \in Clusters |-> IF k \in lost THEN EOC ELSE next[k]],
         UNCHANGED <<foreign, entry, firstCluster, fileSize, flags, curPosition>>,
         Fails, faults' = faults + 1
  PROVE  FileInv'
<1>1. \A k \in lost : k \in Clusters /\ next[k] = 0 /\ k \notin foreign
  BY NoCluster DEF Free, FileTypes
<1>2. \A c \in Clusters : next'[c] = IF c \in lost THEN EOC ELSE next[c]
  OBVIOUS
<1>3. FileTypes' /\ IsOpen' /\ failed' /\ faults' > 0
  BY <1>1, <1>2, NoCluster DEF FileTypes, Fails, IsOpen
<1>4. Chain(next, firstCluster, L, ch)
  BY DEF Handle
<1>5. \A i \in 0 .. L - 1 : ch[i] \in Clusters /\ next[ch[i]] # 0
  BY <1>4, NoCluster DEF Chain
<1>6. \A i \in 0 .. L - 1 : next'[ch[i]] = next[ch[i]]
  BY <1>1, <1>2, <1>5
<1>7. Chain(next', firstCluster, L, ch)
  BY <1>4, <1>6, ChainKept
<1>8. \A i \in 0 .. L - 1 : ch[i] \notin foreign'
  BY DEF Handle, Own
<1>9. HeadedIn(next', foreign', entry.first) \/ Gone(entry.first)'
  <2>1. CASE entry.first = 0
    BY <2>1, HeadedInNone
  <2>2. CASE Gone(entry.first)
    <3>1. CASE entry.first \in lost
      <4>1. entry.first \in Clusters /\ entry.first \notin foreign' /\ next'[entry.first] = EOC
        BY <1>1, <1>2, <3>1
      <4> QED  BY <4>1, HeadedInOne
    <3>2. CASE entry.first \notin lost
      BY <1>2, <2>2, <3>2 DEF Gone
    <3> QED  BY <3>1, <3>2
  <2>3. CASE \E i \in 0 .. L - 1 : ch[i] = entry.first
    <3>1. PICK i \in 0 .. L - 1 : ch[i] = entry.first
      BY <2>3
    <3>2. \A j \in i .. L - 1 : ch[j] \notin foreign'
      BY <1>8
    <3>3. HeadedIn(next', foreign', ch[i])
      BY <1>7, <3>2, HeadedInSuffix
    <3> QED  BY <3>1, <3>3
  <2> QED  BY <2>1, <2>2, <2>3 DEF Handle
<1>10. EntryHeaded'
  BY <1>9 DEF EntryHeaded
<1>11. HandleHeaded'
  <2>1. Own(L, ch)' /\ ("contiguous" \in flags' => Straight(L, ch))
    BY <1>8 DEF Own, Handle
  <2>2. Chain(next, firstCluster, L, ch)'
    BY <1>7
  <2> QED  BY <2>1, <2>2 DEF HandleHeaded, Chains, Straight
<1> QED  BY <1>3, <1>10, <1>11, FailedInvNext DEF CallFailed

\* ChooseFails keeps FileInv.
LEMMA ChooseFailsStep == ASSUME FileInv, ChooseFails PROVE FileInv'
<1>1. FileTypes /\ pc = "next" /\ faults \in Nat
  BY DEF FileInv, FileTypes, ChooseFails
<1>2. PICK L \in Nat : \E ch \in Chains(L) : Handle(L, ch) /\ Cursor(L, ch)
  BY <1>1, Looping
<1>3. PICK ch \in Chains(L) : Handle(L, ch) /\ Cursor(L, ch)
  BY <1>2
<1>4. UNCHANGED <<foreign, entry, firstCluster, fileSize, flags, curPosition>> /\ Fails
  BY DEF ChooseFails, file, cursor
<1>5. CASE UNCHANGED next /\ faults' \in {faults, faults + 1}
  <2>1. FileTypes' /\ IsOpen' /\ failed'
    BY <1>1, <1>4, <1>5, FailsTypes DEF FileTypes
  <2>2. faults' = 0 => faults = 0
    BY <1>1, <1>5
  <2> QED  BY <1>3, <1>4, <1>5, <2>1, <2>2, ChainUntouched
<1>6. CASE Fault /\ \E c \in Free : next' = [next EXCEPT ![c] = EOC]
  <2>1. PICK c \in Free : next' = [next EXCEPT ![c] = EOC]
    BY <1>6
  <2>2. next' = [k \in Clusters |-> IF k \in {c} THEN EOC ELSE next[k]]
    BY <1>1, <2>1 DEF FileTypes
  <2>3. {c} \in SUBSET Free /\ faults' = faults + 1
    BY <1>6 DEF Fault
  <2> QED  BY <1>1, <1>3, <1>4, <2>2, <2>3, Marked
<1> QED  BY <1>5, <1>6 DEF ChooseFails, Fault, NoFault

-----------------------------------------------------------------------------
(* addCluster, and read.                                                   *)

\* addCluster puts a free cluster behind the last one of the chain.
LEMMA Added ==
  ASSUME FileInv, AddCluster, NEW L \in Nat, NEW ch \in Chains(L), Handle(L, ch), Cursor(L, ch)
  PROVE  \E c \in Free :
           /\ next' = [i \in Clusters |-> IF i = c THEN EOC ELSE IF i = curCluster THEN c ELSE next[i]]
           /\ curCluster' = c /\ firstCluster' = (IF firstCluster = 0 THEN c ELSE firstCluster)
           /\ flags' = ContiguousAfter(c) \cup {"dirDirty"}
           /\ c \in Clusters /\ next[c] = 0 /\ c \notin foreign /\ \A i \in 0 .. L - 1 : ch[i] # c
           /\ curPosition \div ClusterUnits = L
           /\ (L = 0 => curCluster = 0) /\ (L > 0 => curCluster = ch[L - 1])
           /\ (firstCluster = 0 <=> L = 0)
           /\ Chain(next', firstCluster', L + 1, [i \in 0 .. L |-> IF i = L THEN c ELSE ch[i]])
<1> DEFINE x == curPosition
           k == x \div ClusterUnits
<1>1. FileTypes /\ pc = "next" /\ todo > 0 /\ x \in Nat /\ fileSize \in Nat /\ todo \in Nat
  BY DEF FileInv, FileTypes, AddCluster, Chosen
<1>3. Handle(L, ch) /\ Cursor(L, ch)
  OBVIOUS
<1>4. PICK c \in Free :
        /\ next' = [i \in Clusters |-> IF i = c THEN EOC ELSE IF i = curCluster THEN c ELSE next[i]]
        /\ curCluster' = c
        /\ firstCluster' = IF firstCluster = 0 THEN c ELSE firstCluster
        /\ flags' = ContiguousAfter(c) \cup {"dirDirty"}
  BY DEF AddCluster
<1>6. AtBoundary(x) /\ At(x, curCluster, L, ch)
  BY <1>1, <1>3 DEF Cursor, Moving, At, InWrite
<1>7. k \in Nat /\ ClusterIndex(x) = k - 1 /\ (x = 0 => k = 0) /\ (x > 0 => k >= 1)
  <2>1. /\ ClusterIndex(x) = (IF AtBoundary(x) THEN x \div ClusterUnits - 1 ELSE x \div ClusterUnits)
        /\ x = 0 => ClusterIndex(x) = -1
        /\ x > 0 => ClusterIndex(x) \in Nat
        /\ x \div ClusterUnits \in Nat
    BY <1>1, Places
  <2> QED  BY <1>6, <2>1
<1>8. Chain(next, firstCluster, L, ch) /\ Own(L, ch) /\ Exact(L, ch)
  BY <1>3 DEF Handle
<1>9. \A i \in 0 .. L - 1 : ch[i] \in Clusters /\ ch[i] # 0 /\ next[ch[i]] # 0
  BY <1>8, NoCluster DEF Chain
<1>10. c \in Clusters /\ next[c] = 0 /\ c \notin foreign /\ \A i \in 0 .. L - 1 : ch[i] # c
  BY <1>1, <1>4, <1>9, NoCluster DEF Free, FileTypes
\* The cluster is added behind the last one.
<1>11. k = L /\ (L = 0 => curCluster = 0) /\ (L > 0 => curCluster = ch[L - 1]) /\ (firstCluster = 0 <=> L = 0)
  <2>1. firstCluster = 0 <=> L = 0
    BY <1>8, <1>9 DEF Chain
  <2>2. x > 0 => k - 1 \in 0 .. L - 1 /\ curCluster = ch[k - 1] /\ curCluster # 0
    BY <1>6, <1>7, <1>9 DEF At
  <2>3. x = 0 => curCluster = 0
    BY <1>6 DEF At
  <2>4. CASE x = 0
    BY <1>7, <2>1, <2>3, <2>4 DEF AddCluster, EndOfChain
  <2>5. CASE x > 0
    <3>1. next[curCluster] = EOC /\ k - 1 \in 0 .. L - 1 /\ curCluster = ch[k - 1]
      BY <2>2, <2>5 DEF AddCluster, EndOfChain
    <3>2. next[ch[k - 1]] = IF k - 1 = L - 1 THEN EOC ELSE ch[k - 1 + 1]
      BY <1>8, <3>1 DEF Chain
    <3>3. k - 1 # L - 1 => k - 1 + 1 \in 0 .. L - 1
      BY <3>1
    <3>4. k - 1 = L - 1
      BY <1>9, <3>1, <3>2, <3>3, NoCluster
    <3> HIDE DEF k
    <3>5. k = L /\ L > 0
      BY <1>7, <2>5, <3>4
    <3> QED  BY <2>1, <3>1, <3>5
  <2> QED  BY <1>1, <2>4, <2>5
<1> HIDE DEF k
<1> DEFINE d == [i \in 0 .. L |-> IF i = L THEN c ELSE ch[i]]
<1>12. \A i \in Clusters : next'[i] = IF i = c THEN EOC ELSE IF i = curCluster THEN c ELSE next[i]
  BY <1>4
<1>13. Chain(next', firstCluster', L + 1, d)
  <2>1. next'[c] = EOC
    BY <1>10, <1>12
  <2>2. L > 0 => next'[ch[L - 1]] = c
    <3>1. L > 0 => L - 1 \in 0 .. L - 1
      OBVIOUS
    <3> QED  BY <1>9, <1>10, <1>11, <1>12, <3>1
  <2>3. \A i \in 0 .. L - 2 : next'[ch[i]] = next[ch[i]]
    <3> TAKE i \in 0 .. L - 2
    <3>1. i \in 0 .. L - 1 /\ L - 1 \in 0 .. L - 1 /\ i # L - 1 /\ L > 0
      OBVIOUS
    <3>2. ch[i] # ch[L - 1]
      BY <1>8, <3>1 DEF Chain
    <3> QED  BY <1>9, <1>10, <1>11, <1>12, <3>1, <3>2
  <2>4. Chain(next, firstCluster, L, ch) /\ c \in Clusters /\ \A i \in 0 .. L - 1 : ch[i] # c
    BY <1>8, <1>10
  <2>5. (L = 0 => firstCluster' = c) /\ (L > 0 => firstCluster' = firstCluster)
    BY <1>4, <1>11
  <2>6. Appends(next, next', firstCluster, L, ch, c, firstCluster')
    BY <2>1, <2>2, <2>3, <2>4, <2>5 DEF Appends
  <2> QED  BY <2>6, Extended
<1> QED  BY <1>4, <1>10, <1>11, <1>13 DEF k

\* AddCluster keeps FileInv.
LEMMA AddClusterStep == ASSUME FileInv, AddCluster PROVE FileInv'
<1> DEFINE x == curPosition
           k == x \div ClusterUnits
<1>1. FileTypes /\ pc = "next" /\ todo > 0 /\ x \in Nat /\ fileSize \in Nat /\ todo \in Nat
  BY DEF FileInv, FileTypes, AddCluster, Chosen
<1>2. PICK L \in Nat : \E ch \in Chains(L) : Handle(L, ch) /\ Cursor(L, ch)
  BY <1>1, Looping
<1>3. PICK ch \in Chains(L) : Handle(L, ch) /\ Cursor(L, ch)
  BY <1>2
<1>4. PICK c \in Free :
        /\ next' = [i \in Clusters |-> IF i = c THEN EOC ELSE IF i = curCluster THEN c ELSE next[i]]
        /\ curCluster' = c /\ firstCluster' = (IF firstCluster = 0 THEN c ELSE firstCluster)
        /\ flags' = ContiguousAfter(c) \cup {"dirDirty"}
        /\ c \in Clusters /\ next[c] = 0 /\ c \notin foreign /\ \A i \in 0 .. L - 1 : ch[i] # c
        /\ curPosition \div ClusterUnits = L
        /\ (L = 0 => curCluster = 0) /\ (L > 0 => curCluster = ch[L - 1])
        /\ (firstCluster = 0 <=> L = 0)
        /\ Chain(next', firstCluster', L + 1, [i \in 0 .. L |-> IF i = L THEN c ELSE ch[i]])
  BY <1>3, Added
<1>5. /\ UNCHANGED <<foreign, entry, fileSize, faults, failed, curPosition, todo>> /\ pc' = "put"
  BY DEF AddCluster, Chosen, NoFault, call
<1>6. AtBoundary(x) /\ x + todo <= MaxSize
  BY <1>1, <1>3 DEF Cursor, InWrite
<1>8. Chain(next, firstCluster, L, ch) /\ Own(L, ch) /\ Exact(L, ch)
  BY <1>3 DEF Handle
<1>9. \A i \in 0 .. L - 1 : ch[i] \in Clusters /\ ch[i] # 0 /\ next[ch[i]] # 0
  BY <1>8, NoCluster DEF Chain
<1>10. c \in Clusters /\ next[c] = 0 /\ c \notin foreign /\ \A i \in 0 .. L - 1 : ch[i] # c
  BY <1>4
<1>11. k = L /\ (L = 0 => curCluster = 0) /\ (L > 0 => curCluster = ch[L - 1]) /\ (firstCluster = 0 <=> L = 0)
  BY <1>4
<1> HIDE DEF k
<1> DEFINE d == [i \in 0 .. L |-> IF i = L THEN c ELSE ch[i]]
<1>12. \A i \in Clusters : next'[i] = IF i = c THEN EOC ELSE IF i = curCluster THEN c ELSE next[i]
  BY <1>4
<1>13. Chain(next, firstCluster, L + 1, d)'
  BY <1>4
<1>14. d \in Chains(L + 1) /\ L + 1 \in Nat /\ d[L] = c /\ \A i \in 0 .. L - 1 : d[i] = ch[i] /\ i \in 0 .. L
  BY <1>10 DEF Chains
<1>15. \A i \in 0 .. L : i \in 0 .. L - 1 \/ i = L
  OBVIOUS
<1>16. L + 1 - 1 = L
  OBVIOUS
<1> HIDE DEF d
<1>17. Own(L + 1, d)'
  BY <1>5, <1>8, <1>10, <1>14, <1>15, <1>16 DEF Own
<1>18. Exact(L + 1, d)'
  <2> SUFFICES ASSUME faults' = 0, NEW e \in Clusters
               PROVE  next'[e] # 0 <=> e \in foreign' \/ \E i \in 0 .. L + 1 - 1 : d[i] = e
    BY DEF Exact
  <2>1. next[e] # 0 <=> e \in foreign \/ \E i \in 0 .. L - 1 : ch[i] = e
    BY <1>5, <1>8 DEF Exact
  <2>2. (\E i \in 0 .. L + 1 - 1 : d[i] = e) <=> e = c \/ \E i \in 0 .. L - 1 : ch[i] = e
    BY <1>14, <1>15, <1>16
  <2>3. next'[e] # 0 <=> e = c \/ next[e] # 0
    <3>1. e = curCluster /\ e # c => L > 0 /\ L - 1 \in 0 .. L - 1 /\ e = ch[L - 1]
      BY <1>11, NoCluster
    <3>2. e = curCluster /\ e # c => next[e] # 0
      BY <1>9, <3>1
    <3> QED  BY <1>10, <1>12, <3>2, NoCluster
  <2> QED  BY <1>5, <2>1, <2>2, <2>3
<1>19. "contiguous" \in flags' => Straight(L + 1, d)
  <2> SUFFICES ASSUME "contiguous" \in flags', NEW i \in 0 .. L + 1 - 2 PROVE d[i + 1] = d[i] + 1
    BY DEF Straight
  <2>1. L > 0 /\ i \in 0 .. L - 1 /\ (i = L - 1 \/ i \in 0 .. L - 2) /\ L - 1 + 1 = L
    OBVIOUS
  <2>2. curCluster = ch[L - 1] /\ curCluster # 0
    <3>1. L - 1 \in 0 .. L - 1
      BY <2>1
    <3> QED  BY <1>9, <1>11, <2>1, <3>1
  <2>3. "contiguous" \in flags /\ c = curCluster + 1
    BY <1>4, <2>2 DEF ContiguousAfter
  <2>4. Straight(L, ch)
    BY <1>3, <2>3 DEF Handle
  <2>5. CASE i = L - 1
    BY <1>14, <2>1, <2>2, <2>3, <2>5
  <2>6. CASE i \in 0 .. L - 2
    <3>1. i + 1 \in 0 .. L - 1 /\ ch[i + 1] = ch[i] + 1
      BY <2>4, <2>6 DEF Straight
    <3> QED  BY <1>14, <2>1, <3>1
  <2> QED  BY <2>1, <2>5, <2>6
<1>20. entry.first = 0 \/ Gone(entry.first)' \/ \E i \in 0 .. L + 1 - 1 : d[i] = entry.first
  <2>1. CASE Gone(entry.first) /\ entry.first # c
    <3>1. entry.first # curCluster
      <4>1. L > 0 => L - 1 \in 0 .. L - 1
        OBVIOUS
      <4>2. L > 0 => ~Gone(ch[L - 1])
        BY <1>8, <1>9, <4>1 DEF Gone, Own
      <4> QED  BY <1>11, <2>1, <4>2, NoCluster DEF Gone
    <3> QED  BY <1>5, <1>12, <2>1, <3>1 DEF Gone
  <2>2. CASE entry.first = c
    <3>1. L \in 0 .. L + 1 - 1
      OBVIOUS
    <3> QED  BY <1>14, <2>2, <3>1
  <2>3. CASE \E i \in 0 .. L - 1 : ch[i] = entry.first
    BY <1>14, <1>16, <2>3
  <2> QED  BY <1>3, <2>1, <2>2, <2>3 DEF Handle
<1>21. FileTypes'
  <2>1. next' \in [Clusters -> {0, EOC} \cup Clusters]
    <3>1. \A i \in Clusters : next[i] \in {0, EOC} \cup Clusters
      BY <1>1 DEF FileTypes
    <3> QED  BY <1>4, <1>10, <3>1
  <2>2. \A i \in foreign : next'[i] = EOC
    <3> TAKE i \in foreign
    <3>1. i \in Clusters /\ next[i] = EOC /\ i # c
      BY <1>1, <1>10 DEF FileTypes
    <3>2. i # curCluster
      <4>1. L > 0 => L - 1 \in 0 .. L - 1
        OBVIOUS
      <4> QED  BY <1>8, <1>11, <3>1, <4>1, NoCluster DEF Own
    <3> QED  BY <1>12, <3>1, <3>2
  <2> QED  BY <1>1, <1>5, <2>1, <2>2 DEF FileTypes
<1>22. Cursor(L + 1, d)'
  <2>1. Moving' /\ InWrite' /\ ~InRead'
    BY <1>1, <1>5 DEF Moving, InWrite, InRead
  <2>2. k < L + 1 /\ curCluster' = d[k]
    BY <1>4, <1>11, <1>14
  <2> QED  BY <1>5, <1>6, <2>1, <2>2 DEF Cursor, k
<1>23. Need(fileSize)' <= L + 1
  <2>1. Need(fileSize) <= L /\ Need(fileSize) \in Int
    BY <1>1, <1>3, Places DEF Handle
  <2>2. Need(fileSize)' = Need(fileSize)
    BY <1>5 DEF Need
  <2> QED  BY <2>1, <2>2
<1>24. Handle(L + 1, d)'
  <2>1. entry'.used /\ "dirDirty" \in flags' /\ entry' = entry
    BY <1>3, <1>4, <1>5 DEF Handle
  <2> QED  BY <1>13, <1>17, <1>18, <1>19, <1>20, <1>22, <1>23, <2>1 DEF Handle, Straight
<1>25. Handled' /\ IsOpen'
  BY <1>5, <1>14, <1>24 DEF Handled, Chains, IsOpen
<1> QED  BY <1>21, <1>25, HandleInvNext

\* (fileSize - position) % 2^32 is what is left of the file: the position is in it.
LEMMA Remaining ==
  ASSUME NEW x \in Nat, NEW y \in Nat, x <= y, y <= MaxSize
  PROVE  (y - x) % Width = y - x
<1>1. Width \in Int /\ Width > 0 /\ y - x \in 0 .. Width - 1
  BY Units DEF Width
<1> DEFINE r == y - x
<1>2. (Width * 0 + r) % Width = r
  <2>1. r \in 0 .. Width - 1
    BY <1>1
  <2> HIDE DEF r
  <2> QED  BY <1>1, <2>1, Quotient
<1>3. Width * 0 + r = r
  BY <1>1
<1> QED  BY <1>2, <1>3

\* Read keeps FileInv.
LEMMA ReadStep == ASSUME CloseOnError, FileInv, NEW n \in Nat, Read(n) PROVE FileInv'
<1> DEFINE x == curPosition
<1>1. FileTypes /\ pc = "idle" /\ n > 0 /\ x \in Nat /\ fileSize \in Nat /\ fileSize <= MaxSize /\ MaxSize \in Nat
  BY Units DEF FileInv, FileTypes, Read, Call
<1>2. PICK L \in Nat : \E ch \in Chains(L) : Handle(L, ch) /\ Cursor(L, ch)
  BY Called DEF Read
<1>3. PICK ch \in Chains(L) : Handle(L, ch) /\ Cursor(L, ch)
  BY <1>2
<1>4. /\ UNCHANGED <<next, foreign, entry, firstCluster, curCluster, curPosition, fileSize, flags, faults, failed>>
      /\ pc' = ReadLoop(x) /\ todo' = Limited(n)
  BY DEF Read, volume, cursor, file, NoFault
<1>5. At(x, curCluster, L, ch) /\ x <= fileSize
  BY <1>1, <1>3 DEF Cursor, Moving, At
<1>6. todo' \in Nat /\ x + todo' <= fileSize
  <2>1. (fileSize - x) % Width = fileSize - x
    BY <1>1, <1>5, Remaining
  <2>2. todo' = Lesser(n, fileSize - x)
    BY <1>4, <2>1 DEF Limited
  <2> QED  BY <1>1, <1>5, <2>2 DEF Lesser
<1>7. pc' \in {"fetch", "get"} /\ (pc' = "fetch" <=> AtBoundary(x))
  BY <1>4 DEF ReadLoop
<1>8. FileTypes' /\ IsOpen'
  <2>1. ~failed
    BY <1>1, <1>3 DEF Read, Call, FileInv, Cursor
  <2> QED  BY <1>1, <1>4, <1>6, <1>7, <2>1 DEF FileTypes, IsOpen
<1>9. Cursor(L, ch)'
  <2>1. /\ ClusterIndex(x) = IF AtBoundary(x) THEN x \div ClusterUnits - 1 ELSE x \div ClusterUnits
        /\ x = 0 => AtBoundary(x)
    BY <1>1, Places
  <2>2. InRead' /\ ~InWrite' /\ pc' # "idle"
    BY <1>7 DEF InWrite, InRead
  <2>3. Moving' => ~AtBoundary(x) /\ x > 0
    BY <1>1, <1>7, <2>1 DEF Moving
  <2> QED  BY <1>4, <1>5, <1>6, <1>7, <2>1, <2>2, <2>3 DEF Cursor, At
<1> QED  BY <1>3, <1>4, <1>8, <1>9, ChainUntouched

\* Fetch keeps FileInv.
LEMMA FetchStep == ASSUME FileInv, Fetch PROVE FileInv'
<1> DEFINE x == curPosition
           k == x \div ClusterUnits
<1>1. FileTypes /\ pc = "fetch" /\ todo > 0 /\ x \in Nat /\ fileSize \in Nat /\ todo \in Nat
  BY DEF FileInv, FileTypes, Fetch
<1>2. PICK L \in Nat : \E ch \in Chains(L) : Handle(L, ch) /\ Cursor(L, ch)
  BY <1>1, Looping
<1>3. PICK ch \in Chains(L) : Handle(L, ch) /\ Cursor(L, ch)
  BY <1>2
<1>4. /\ UNCHANGED <<next, foreign, entry, firstCluster, fileSize, flags, faults, failed, curPosition, todo>>
      /\ pc' = "get" /\ curCluster' = FetchCluster
  BY DEF Fetch, volume, file, NoFault, call
<1>5. AtBoundary(x) /\ At(x, curCluster, L, ch) /\ x + todo <= fileSize
  BY <1>1, <1>3 DEF Cursor, Moving, At, InRead
<1>6. k \in Nat /\ ClusterIndex(x) = k - 1 /\ (x = 0 => k = 0) /\ (x > 0 => k >= 1)
  <2>1. /\ ClusterIndex(x) = (IF AtBoundary(x) THEN x \div ClusterUnits - 1 ELSE x \div ClusterUnits)
        /\ x = 0 => ClusterIndex(x) = -1
        /\ x > 0 => ClusterIndex(x) \in Nat
        /\ x \div ClusterUnits \in Nat
    BY <1>1, Places
  <2> QED  BY <1>5, <2>1
<1>7. Chain(next, firstCluster, L, ch) /\ Need(fileSize) <= L /\ ("contiguous" \in flags => Straight(L, ch))
  BY <1>3 DEF Handle
<1>8. k \in 0 .. L - 1
  <2>1. x < fileSize
    BY <1>1, <1>5
  <2> QED  BY <1>1, <1>7, <2>1, InFile
<1>9. curCluster' = ch[k]
  <2> HIDE DEF k
  <2>1. CASE x = 0
    BY <1>4, <1>6, <1>7, <1>8, <2>1 DEF FetchCluster, Chain
  <2>2. CASE x # 0
    <3>1. curCluster = ch[k - 1] /\ k - 1 \in 0 .. L - 2 /\ k - 1 \in 0 .. L - 1 /\ k - 1 + 1 = k /\ k - 1 + 1 < L
      BY <1>1, <1>5, <1>6, <1>8, <2>2 DEF At
    <3>2. CASE "contiguous" \in flags
      BY <1>4, <1>7, <2>2, <3>1, <3>2 DEF FetchCluster, Straight
    <3>3. CASE "contiguous" \notin flags
      <4>1. Chain(next, firstCluster, L, ch)
        BY <1>7
      <4>2. \A i \in 0 .. L - 1 : \A n \in Nat : i + n < L => Walk(ch[i], n) = ch[i + n]
        BY <4>1, WalkFrom
      <4>3. Walk(ch[k - 1], 1) = ch[k]
        BY <3>1, <4>2
      <4> QED  BY <1>4, <2>2, <3>1, <3>3, <4>3 DEF FetchCluster
    <3> QED  BY <3>2, <3>3
  <2> QED  BY <2>1, <2>2
<1>10. FileTypes' /\ IsOpen'
  BY <1>1, <1>4 DEF FileTypes, IsOpen
<1>11. Cursor(L, ch)'
  <2>1. Moving' /\ InRead' /\ ~InWrite'
    BY <1>1, <1>4 DEF Moving, InRead, InWrite
  <2>2. k < L
    BY <1>8
  <2> HIDE DEF k
  <2> QED  BY <1>4, <1>5, <1>9, <2>1, <2>2 DEF Cursor, k
<1> QED  BY <1>3, <1>4, <1>10, <1>11, ChainUntouched

\* A read that fails keeps FileInv.
LEMMA ReadFailsStep == ASSUME FileInv, FetchFails \/ GetFails PROVE FileInv'
<1>1. FileTypes /\ pc \in {"fetch", "get"} /\ faults \in Nat
  BY DEF FileInv, FileTypes, FetchFails, GetFails
<1>2. PICK L \in Nat : \E ch \in Chains(L) : Handle(L, ch) /\ Cursor(L, ch)
  BY <1>1, Looping
<1>3. PICK ch \in Chains(L) : Handle(L, ch) /\ Cursor(L, ch)
  BY <1>2
<1>4. UNCHANGED <<next, foreign, entry, firstCluster, fileSize, flags, curPosition>> /\ Fails /\ faults' \in {faults, faults + 1}
  BY DEF FetchFails, GetFails, volume, file, cursor, Fault, NoFault
<1>5. FileTypes' /\ IsOpen' /\ failed' /\ (faults' = 0 => faults = 0)
  BY <1>1, <1>4, FailsTypes DEF FileTypes
<1> QED  BY <1>3, <1>4, <1>5, ChainUntouched

\* Get keeps FileInv.
LEMMA GetStep == ASSUME FileInv, NEW n \in Nat, Get(n) PROVE FileInv'
<1> DEFINE x == curPosition
           k == x \div ClusterUnits
           y == x + n
<1>1. FileTypes /\ pc = "get" /\ todo > 0 /\ x \in Nat /\ todo \in Nat /\ fileSize \in 0 .. MaxSize /\ MaxSize \in Nat
  BY Units DEF FileInv, FileTypes, Get
<1>2. PICK L \in Nat : \E ch \in Chains(L) : Handle(L, ch) /\ Cursor(L, ch)
  BY <1>1, Looping
<1>3. PICK ch \in Chains(L) : Handle(L, ch) /\ Cursor(L, ch)
  BY <1>2
<1>4. /\ UNCHANGED <<next, foreign, entry, firstCluster, fileSize, flags, faults, failed, curCluster>>
      /\ curPosition' = y /\ todo' = todo - n /\ pc' = ReadLoop(curPosition')
  BY DEF Get, volume, file, NoFault
<1>5. n \in 1 .. todo /\ n <= ClusterUnits - (x % ClusterUnits)
  BY <1>1, Pieces DEF UnitOffset, Get, GetSize
<1>6. k < L /\ curCluster = ch[k] /\ x + todo <= fileSize
  BY <1>1, <1>3 DEF Cursor, Moving, InRead
<1>7. y \in Nat /\ y > 0 /\ todo' \in Nat /\ y + todo' = x + todo /\ y <= MaxSize
  BY <1>1, <1>4, <1>5, <1>6
<1>8. ClusterIndex(y) = k /\ (~AtBoundary(y) => y \div ClusterUnits = k)
  <2>1. n > 0
    BY <1>1, <1>5
  <2> QED  BY <1>1, <1>5, <2>1, Advance
<1> HIDE DEF k, y
<1>9. pc' \in {"fetch", "get"} /\ (pc' = "fetch" <=> AtBoundary(y))
  BY <1>4 DEF ReadLoop
<1>10. FileTypes' /\ IsOpen'
  BY <1>1, <1>4, <1>7, <1>9 DEF FileTypes, IsOpen
<1>11. Cursor(L, ch)'
  <2>1. InRead' /\ ~InWrite' /\ pc' # "idle"
    BY <1>9 DEF InWrite, InRead
  <2>2. Moving' => y \div ClusterUnits = k
    BY <1>8, <1>9 DEF Moving
  <2> QED  BY <1>4, <1>6, <1>7, <1>8, <1>9, <2>1, <2>2 DEF Cursor
<1> QED  BY <1>3, <1>4, <1>10, <1>11, ChainUntouched

\* ReadEnd keeps FileInv.
LEMMA ReadEndStep == ASSUME FileInv, ReadEnd PROVE FileInv'
<1>1. FileTypes /\ InRead /\ pc \notin {"closed", "idle"} /\ todo = 0 /\ curPosition \in Nat
  BY DEF FileInv, FileTypes, ReadEnd, InRead
<1>2. PICK L \in Nat : \E ch \in Chains(L) : Handle(L, ch) /\ Cursor(L, ch)
  BY <1>1, Looping
<1>3. PICK ch \in Chains(L) : Handle(L, ch) /\ Cursor(L, ch)
  BY <1>2
<1>4. /\ UNCHANGED <<next, foreign, entry, firstCluster, curCluster, curPosition, fileSize, flags, faults, failed, todo>>
      /\ pc' = "idle"
  BY DEF ReadEnd, volume, cursor, file, NoFault
<1>5. At(curPosition, curCluster, L, ch) /\ curPosition <= fileSize
  <2>1. At(curPosition, curCluster, L, ch)
    BY <1>1, <1>3 DEF Cursor, Moving, At
  <2>2. curPosition + 0 <= fileSize
    BY <1>1, <1>3 DEF Cursor
  <2> QED  BY <1>1, <2>1, <2>2
<1>6. FileTypes' /\ IsOpen'
  BY <1>1, <1>4 DEF FileTypes, IsOpen
<1>7. Cursor(L, ch)'
  BY <1>4, <1>5 DEF Cursor, At, Moving, InRead, InWrite
<1> QED  BY <1>3, <1>4, <1>6, <1>7, ChainUntouched

-----------------------------------------------------------------------------
(* sync and close.                                                         *)

GoneIn(t, f, h) == h \in Clusters /\ (t[h] = 0 \/ h \in f)

\* A call that leaves a right chain behind and ends in a sync, whatever comes of the sync.
LEMMA Synced ==
  ASSUME NEW L \in Nat, NEW ch \in Chains(L), FileTypes, NEW first, NEW size \in 0 .. MaxSize, NEW fl,
         Sync(first, size, fl), firstCluster' = first, fileSize' = size,
         next' \in [Clusters -> {0, EOC} \cup Clusters], UNCHANGED foreign, \A c \in foreign : next'[c] = EOC,
         Chain(next', first, L, ch), Own(L, ch)', faults = 0 => Exact(L, ch)', Need(size) <= L,
         "contiguous" \in fl => Straight(L, ch),
         entry.used, "dirDirty" \notin fl => entry = Updated(first, size),
         entry.first = 0 \/ GoneIn(next', foreign', entry.first) \/ \E i \in 0 .. L - 1 : ch[i] = entry.first,
         curPosition' \in 0 .. MaxSize,
         ~failed => At(curPosition', curCluster', L, ch) /\ curPosition' <= size
  PROVE  FileInv'
<1>1. /\ pc' = "idle" /\ ("contiguous" \in flags' => "contiguous" \in fl)
      /\ entry' = entry \/ entry' = Updated(first, size)
      /\ "dirDirty" \notin flags' => entry' = Updated(first, size)
      /\ \/ faults' = faults /\ failed' = failed /\ todo' = todo
         \/ faults' = faults + 1 /\ failed' = TRUE /\ todo' = 0
  BY DEF Sync, NoFault, Fault, Succeeds, Fails, call
<1>2. first = 0 \/ (L > 0 /\ first = ch[0] /\ 0 \in 0 .. L - 1 /\ first \in Clusters)
  BY DEF Chain
<1>3. entry' \in [used : BOOLEAN, first : Nat, size : 0 .. MaxSize] /\ entry'.used
  <2>1. CASE entry' = entry
    BY <2>1 DEF FileTypes
  <2>2. CASE entry' = Updated(first, size)
    BY <1>2, <2>2, NoCluster DEF Updated
  <2> QED  BY <1>1, <2>1, <2>2
<1>4. FileTypes' /\ IsOpen'
  <2>1. failed' \in BOOLEAN /\ faults' \in Nat /\ todo' \in Nat
    <3>1. failed \in BOOLEAN /\ faults \in Nat /\ todo \in Nat
      BY DEF FileTypes
    <3>2. CASE faults' = faults /\ failed' = failed /\ todo' = todo
      BY <3>1, <3>2
    <3>3. CASE faults' = faults + 1 /\ failed' = TRUE /\ todo' = 0
      BY <3>1, <3>3
    <3> QED  BY <1>1, <3>2, <3>3
  <2> QED  BY <1>1, <1>3, <2>1 DEF FileTypes, IsOpen
<1>5. entry'.first = 0 \/ Gone(entry.first)' \/ \E i \in 0 .. L - 1 : ch[i] = entry'.first
  <2>1. CASE entry' = entry
    BY <2>1 DEF Gone, GoneIn
  <2>2. CASE entry' = Updated(first, size)
    <3>1. entry'.first = first
      BY <2>2 DEF Updated
    <3> QED  BY <1>2, <3>1
  <2> QED  BY <1>1, <2>1, <2>2
<1>6. ~failed' => Cursor(L, ch)'
  BY <1>1 DEF Cursor, At, Moving, InRead, InWrite
<1>7. Exact(L, ch)'
  <2>1. faults' = 0 => faults = 0
    BY <1>1 DEF FileTypes
  <2> QED  BY <2>1 DEF Exact
<1>8. Need(fileSize)' <= L /\ Chain(next, firstCluster, L, ch)'
  BY DEF Need
<1>9. Handle(L, ch)'
  <2>1. "dirDirty" \notin flags' => entry' = Updated(firstCluster', fileSize')
    BY <1>1
  <2>2. "contiguous" \in flags' => Straight(L, ch)
    BY <1>1
  <2>3. entry'.used /\ Own(L, ch)'
    BY <1>3
  <2> QED  BY <1>5, <1>6, <1>7, <1>8, <2>1, <2>2, <2>3 DEF Handle, Straight, Updated
<1>10. Handled'
  BY <1>9 DEF Handled, Chains
<1> QED  BY <1>4, <1>10, HandleInvNext

\* SyncCall keeps FileInv.
LEMMA SyncCallStep == ASSUME CloseOnError, FileInv, SyncCall PROVE FileInv'
<1>1. FileTypes /\ pc = "idle" /\ fileSize \in 0 .. MaxSize /\ curPosition \in 0 .. MaxSize
  BY DEF FileInv, FileTypes, SyncCall, Call
<1>2. PICK L \in Nat : \E ch \in Chains(L) : Handle(L, ch) /\ Cursor(L, ch)
  BY Called DEF SyncCall
<1>3. PICK ch \in Chains(L) : Handle(L, ch) /\ Cursor(L, ch)
  BY <1>2
<1>4. UNCHANGED <<next, foreign, curCluster, curPosition, firstCluster, fileSize>> /\ Sync(firstCluster, fileSize, flags)
  BY DEF SyncCall, cursor, file
<1>5. At(curPosition, curCluster, L, ch) /\ curPosition <= fileSize
  BY <1>1, <1>3 DEF Cursor, Moving, At
<1>6. /\ Chain(next, firstCluster, L, ch) /\ Own(L, ch) /\ Exact(L, ch) /\ Need(fileSize) <= L
      /\ "contiguous" \in flags => Straight(L, ch)
      /\ entry.used /\ ("dirDirty" \notin flags => entry = Updated(firstCluster, fileSize))
      /\ entry.first = 0 \/ Gone(entry.first) \/ \E i \in 0 .. L - 1 : ch[i] = entry.first
  BY <1>3 DEF Handle
<1>7. next' \in [Clusters -> {0, EOC} \cup Clusters] /\ \A c \in foreign : next'[c] = EOC
  BY <1>1, <1>4 DEF FileTypes
<1>8. Own(L, ch)' /\ (faults = 0 => Exact(L, ch)') /\ Chain(next', firstCluster, L, ch)
      /\ (entry.first = 0 \/ GoneIn(next', foreign', entry.first) \/ \E i \in 0 .. L - 1 : ch[i] = entry.first)
  BY <1>4, <1>6 DEF Own, Exact, Gone, GoneIn
<1>9. curPosition' \in 0 .. MaxSize /\ At(curPosition', curCluster', L, ch) /\ curPosition' <= fileSize
  BY <1>1, <1>4, <1>5
<1> QED  BY <1>1, <1>4, <1>6, <1>7, <1>8, <1>9, Synced

\* Close keeps FileInv.
LEMMA CloseStep == ASSUME CloseOnError, FileInv, Close PROVE FileInv'
<1>1. FileTypes /\ pc = "idle"
  BY DEF FileInv, Close
<1>2. /\ UNCHANGED <<next, foreign>> /\ pc' = "closed" /\ failed' = FALSE
      /\ firstCluster' = 0 /\ curPosition' = 0 /\ fileSize' = 0 /\ todo' = 0
      /\ \/ faults' = faults /\ entry' = IF "dirDirty" \in flags THEN Updated(firstCluster, fileSize) ELSE entry
         \/ faults' = faults + 1 /\ entry' = entry
  BY DEF Close, Closed, NoFault, Fault
<1>3. firstCluster \in Nat /\ \/ Gone(firstCluster)
                              \/ \E L \in Nat : \E ch \in Chains(L) : Chain(next, firstCluster, L, ch) /\ Own(L, ch)
  <2>1. \/ Gone(firstCluster)
        \/ \E L \in Nat : \E ch \in Chains(L) : Chain(next, firstCluster, L, ch) /\ Own(L, ch)
    BY <1>1 DEF FileInv, Handle, Chains, FileTypes
  <2>2. Gone(firstCluster) => firstCluster \in Nat
    BY NoCluster DEF Gone
  <2>3. \A L \in Nat : \A ch \in Chains(L) : Chain(next, firstCluster, L, ch) => firstCluster \in Nat
    <3> TAKE L \in Nat
    <3> TAKE ch \in Chains(L)
    <3>1. L > 0 => ch[0] \in Clusters
      BY DEF Chains
    <3> QED  BY <3>1, NoCluster DEF Chain
  <2> QED  BY <2>1, <2>2, <2>3
<1>4. FileTypes'
  <2>1. entry' \in [used : BOOLEAN, first : Nat, size : 0 .. MaxSize] /\ (~entry'.used => entry'.first = 0 /\ entry'.size = 0)
    <3>1. CASE entry' = entry
      BY <1>1, <3>1 DEF FileTypes
    <3>2. CASE entry' = Updated(firstCluster, fileSize)
      BY <1>1, <1>3, <3>2 DEF FileTypes, Updated
    <3> QED  BY <1>2, <3>1, <3>2
  <2>2. 0 \in 0 .. MaxSize /\ faults' \in Nat
    BY <1>1, <1>2, Units DEF FileTypes
  <2> QED  BY <1>1, <1>2, <2>1, <2>2 DEF FileTypes
<1>5. CASE faults' = 0
  <2>1. faults = 0 /\ entry' = IF "dirDirty" \in flags THEN Updated(firstCluster, fileSize) ELSE entry
    BY <1>1, <1>2, <1>5 DEF FileTypes
  <2>2. PICK L \in Nat : \E ch \in Chains(L) : Handle(L, ch)
    BY <1>1, <2>1 DEF FileInv, Chains
  <2>3. PICK ch \in Chains(L) : Handle(L, ch)
    BY <2>2
  <2>4. entry'.first = firstCluster
    BY <2>1, <2>3 DEF Handle, Updated
  <2>5. Chain(next', entry'.first, L, ch) /\ Own(L, ch)' /\ Exact(L, ch)'
    BY <1>2, <2>1, <2>3, <2>4 DEF Handle, Own, Exact
  <2> QED  BY <1>2, <1>4, <2>5 DEF FileInv, Chains, Chain
<1>6. CASE faults' # 0
  <2>1. HeadedIn(next', foreign', entry'.first) \/ GoneIn(next', foreign', entry'.first)
    <3>1. CASE entry' = entry
      <4>1. HeadedIn(next, foreign, entry.first) \/ Gone(entry.first)
        <5>1. CASE failed /\ faults > 0
          BY <1>1, <5>1 DEF FileInv, Headed, HeadedIn, Own, Chains
        <5>2. CASE ~(failed /\ faults > 0)
          <6>1. PICK L \in Nat : \E ch \in Chains(L) : Handle(L, ch)
            BY <1>1, <5>2 DEF FileInv, FileTypes, Chains
          <6>2. PICK ch \in Chains(L) : Handle(L, ch)
            BY <6>1
          <6>3. \A i \in 0 .. L - 1 : HeadedIn(next, foreign, ch[i])
            <7> TAKE i \in 0 .. L - 1
            <7>1. Chain(next, firstCluster, L, ch) /\ \A j \in i .. L - 1 : ch[j] \notin foreign
              BY <6>2 DEF Handle, Own
            <7> QED  BY <7>1, HeadedInSuffix
          <6>4. HeadedIn(next, foreign, 0)
            BY HeadedInNone
          <6> QED  BY <6>2, <6>3, <6>4 DEF Handle
        <5> QED  BY <5>1, <5>2
      <4> QED  BY <1>2, <3>1, <4>1 DEF Gone, GoneIn
    <3>2. CASE entry' = Updated(firstCluster, fileSize)
      <4>1. entry'.first = firstCluster
        BY <3>2 DEF Updated
      <4> QED  BY <1>2, <1>3, <4>1 DEF Gone, GoneIn, HeadedIn, Own
    <3> QED  BY <1>2, <3>1, <3>2
  <2>2. faults' > 0
    BY <1>4, <1>6 DEF FileTypes
  <2>3. \/ \E L \in Nat : \E ch \in Chains(L) : Chain(next', entry'.first, L, ch) /\ Own(L, ch)' /\ Exact(L, ch)'
        \/ Gone(entry.first)'
    BY <1>6, <2>1 DEF HeadedIn, Own, Exact, Gone, GoneIn
  <2> QED  BY <1>2, <1>4, <2>2, <2>3 DEF FileInv, Chains, Chain
<1> QED  BY <1>5, <1>6

-----------------------------------------------------------------------------
(* preAllocate; other files.                                               *)

\* The chain that allocContiguous makes of a run of free clusters.
LEMMA Allocated ==
  ASSUME NEW L \in Nat, L >= 1, NEW c \in Clusters, Run(c, L) \subseteq Free,
         \A k \in Clusters : next'[k] = IF k \notin Run(c, L) THEN next[k] ELSE IF k + 1 \in Run(c, L) THEN k + 1 ELSE EOC
  PROVE  /\ c \in Nat /\ \A k : k \in Run(c, L) <=> k \in Nat /\ c <= k /\ k < c + L
         /\ \A i \in 0 .. L - 1 : c + i \in Run(c, L) /\ c + i \in Clusters /\ next[c + i] = 0
         /\ \E ch \in Chains(L) : Chain(next', c, L, ch) /\ \A i \in 0 .. L - 1 : ch[i] = c + i
<1> DEFINE ch == [i \in 0 .. L - 1 |-> c + i]
<1>1. c \in Nat /\ \A k : k \in Run(c, L) <=> k \in Nat /\ c <= k /\ k < c + L
  BY NoCluster DEF Run
<1>2. \A i \in 0 .. L - 1 : c + i \in Run(c, L) /\ c + i \in Clusters /\ next[c + i] = 0
  BY <1>1 DEF Free
<1>3. ch \in Chains(L)
  BY <1>2 DEF Chains
<1>4. Chain(next', c, L, ch)
  <2>1. c = IF L = 0 THEN 0 ELSE ch[0]
    BY <1>1
  <2>2. \A i, j \in 0 .. L - 1 : ch[i] = ch[j] => i = j
    BY <1>1
  <2>3. ASSUME NEW i \in 0 .. L - 1 PROVE next'[ch[i]] = IF i = L - 1 THEN EOC ELSE ch[i + 1]
    <3>1. next'[c + i] = IF c + i + 1 \in Run(c, L) THEN c + i + 1 ELSE EOC
      BY <1>2
    <3>2. c + i + 1 \in Run(c, L) <=> i # L - 1
      BY <1>1
    <3>3. i # L - 1 => i + 1 \in 0 .. L - 1 /\ ch[i + 1] = c + i + 1
      BY <1>1
    <3> QED  BY <3>1, <3>2, <3>3
  <2> HIDE DEF ch
  <2> QED  BY <1>3, <2>1, <2>2, <2>3 DEF Chain, Chains
<1>5. \A i \in 0 .. L - 1 : ch[i] = c + i
  OBVIOUS
<1> HIDE DEF ch
<1> QED  BY <1>1, <1>2, <1>3, <1>4, <1>5

\* A file with no cluster has no byte.
LEMMA NoChain ==
  ASSUME FileTypes, firstCluster = 0, pc = "idle", NEW M \in Nat, NEW old \in Chains(M), Handle(M, old), Cursor(M, old)
  PROVE  M = 0 /\ fileSize = 0 /\ curPosition = 0 /\ curCluster = 0
<1>1. Chain(next, 0, M, old)
  BY DEF Handle
<1>2. M # 0 => old[0] \in Clusters
  BY DEF Chains
<1>3. M = 0
  BY <1>1, <1>2, NoCluster DEF Chain
<1>4. Need(fileSize) <= 0
  BY <1>3 DEF Handle
<1>5. fileSize \in Nat /\ curPosition \in Nat
  BY Units DEF FileTypes
<1>6. fileSize > 0 => Need(fileSize) = ClusterIndex(fileSize) + 1 /\ ClusterIndex(fileSize) \in Nat
  BY <1>5, Places
<1>7. fileSize = 0
  BY <1>4, <1>5, <1>6
<1> QED  BY <1>3, <1>5, <1>7 DEF Cursor, Moving

\* PreAllocate keeps FileInv.
LEMMA PreAllocateStep == ASSUME CloseOnError, FileInv, NEW size \in Sizes, PreAllocate(size) PROVE FileInv'
<1>1. FileTypes /\ pc = "idle" /\ fileSize \in 0 .. MaxSize /\ curPosition \in 0 .. MaxSize /\ firstCluster = 0
      /\ size \in 0 .. MaxSize /\ size > 0 /\ size \in Nat
  BY Units DEF FileInv, FileTypes, PreAllocate, Call, Sizes
<1>2. PICK M \in Nat : \E ch \in Chains(M) : Handle(M, ch) /\ Cursor(M, ch)
  BY Called DEF PreAllocate
<1>3. PICK old \in Chains(M) : Handle(M, old) /\ Cursor(M, old)
  BY <1>2
<1> DEFINE L == Need(size)
<1>4. PICK c \in Clusters :
        /\ Run(c, L) \subseteq Free
        /\ next' = [k \in Clusters |->
                      IF k \notin Run(c, L) THEN next[k] ELSE IF k + 1 \in Run(c, L) THEN k + 1 ELSE EOC]
        /\ firstCluster' = c /\ fileSize' = size
        /\ Sync(c, size, flags \cup {"preallocate", "contiguous", "dirDirty"})
  BY DEF PreAllocate
<1>5. L \in Nat /\ L >= 1
  BY <1>1, Places
<1> HIDE DEF L
<1>6. M = 0 /\ curPosition = 0 /\ curCluster = 0
  BY <1>1, <1>3, NoChain
<1>7. \A k \in Clusters : next'[k] = IF k \notin Run(c, L) THEN next[k] ELSE IF k + 1 \in Run(c, L) THEN k + 1 ELSE EOC
  BY <1>4
<1>8. c \in Nat /\ \A k : k \in Run(c, L) <=> k \in Nat /\ c <= k /\ k < c + L
  BY <1>4, <1>5, <1>7, Allocated
<1>9. \A i \in 0 .. L - 1 : c + i \in Run(c, L) /\ c + i \in Clusters /\ next[c + i] = 0
  BY <1>4, <1>5, <1>7, Allocated
<1>10. PICK ch \in Chains(L) : Chain(next', c, L, ch) /\ \A i \in 0 .. L - 1 : ch[i] = c + i
  BY <1>4, <1>5, <1>7, Allocated
<1>11. Chain(next', c, L, ch)
  BY <1>10
<1>12. \A i \in 0 .. L - 1 : ch[i] = c + i
  BY <1>10
<1>13. Straight(L, ch)
  <2> SUFFICES ASSUME NEW i \in 0 .. L - 2 PROVE ch[i + 1] = ch[i] + 1
    BY DEF Straight
  <2>1. i \in 0 .. L - 1 /\ i + 1 \in 0 .. L - 1 /\ c + (i + 1) = c + i + 1
    BY <1>5, <1>8
  <2> QED  BY <1>12, <2>1
<1>14. UNCHANGED <<foreign, curCluster, curPosition>>
  BY DEF PreAllocate, cursor
<1>15. Own(L, ch)' /\ \A k \in foreign : k \notin Run(c, L)
  <2>1. \A k \in foreign : next[k] # 0
    BY <1>1, NoCluster DEF FileTypes
  <2>2. \A k \in foreign : k \notin Run(c, L)
    BY <1>4, <2>1 DEF Free
  <2> QED  BY <1>9, <1>12, <1>14, <2>2 DEF Own
<1>16. next' \in [Clusters -> {0, EOC} \cup Clusters] /\ \A k \in foreign : next'[k] = EOC
  <2>1. Run(c, L) \subseteq Clusters
    BY <1>4 DEF Free
  <2>2. ASSUME NEW k \in Clusters PROVE next'[k] \in {0, EOC} \cup Clusters
    <3>1. next[k] \in {0, EOC} \cup Clusters
      BY <1>1 DEF FileTypes
    <3> QED  BY <1>7, <2>1, <3>1
  <2>3. next' = [k \in Clusters |-> next'[k]]
    BY <1>4
  <2> QED  BY <1>1, <1>7, <1>15, <2>2, <2>3 DEF FileTypes
<1>17. faults = 0 => Exact(L, ch)'
  <2> SUFFICES ASSUME faults = 0, NEW k \in Clusters
               PROVE  next'[k] # 0 <=> k \in foreign' \/ \E i \in 0 .. L - 1 : ch[i] = k
    BY DEF Exact
  <2>1. next[k] # 0 <=> k \in foreign
    BY <1>3, <1>6 DEF Handle, Exact
  <2>2. k \in Run(c, L) <=> \E i \in 0 .. L - 1 : ch[i] = k
    <3>1. ASSUME k \in Run(c, L) PROVE \E i \in 0 .. L - 1 : ch[i] = k
      <4>1. k - c \in 0 .. L - 1 /\ c + (k - c) = k
        BY <1>5, <1>8, <3>1
      <4> QED  BY <1>12, <4>1
    <3> QED  BY <1>9, <1>12, <3>1
  <2>3. k \in Run(c, L) => next'[k] # 0
    BY <1>8, <1>7, NoCluster
  <2> QED  BY <1>7, <1>14, <1>15, <2>1, <2>2, <2>3
<1>18. entry.used /\ (entry.first = 0 \/ GoneIn(next', foreign', entry.first) \/ \E i \in 0 .. L - 1 : ch[i] = entry.first)
  <2>1. entry.used /\ (entry.first = 0 \/ Gone(entry.first))
    BY <1>3, <1>6 DEF Handle
  <2>2. CASE entry.first \in Run(c, L)
    <3>1. entry.first - c \in 0 .. L - 1 /\ c + (entry.first - c) = entry.first
      BY <1>5, <1>8, <2>2
    <3> QED  BY <1>12, <2>1, <3>1
  <2>3. CASE entry.first \notin Run(c, L)
    BY <1>7, <1>14, <2>1, <2>3 DEF Gone, GoneIn
  <2> QED  BY <2>2, <2>3
<1>19. curPosition' \in 0 .. MaxSize /\ At(curPosition', curCluster', L, ch) /\ curPosition' <= size
  BY <1>1, <1>6, <1>14 DEF At
<1>20. L = Need(size) /\ L <= L
  BY <1>5 DEF L
<1> DEFINE fl == flags \cup {"preallocate", "contiguous", "dirDirty"}
<1>21. "dirDirty" \in fl
  OBVIOUS
<1>22. Sync(c, size, fl) /\ firstCluster' = c /\ fileSize' = size
  BY <1>4
<1> HIDE DEF fl
<1>23. Need(size) <= L
  BY <1>20
<1> QED  BY <1>1, <1>5, <1>10, <1>11, <1>13, <1>14, <1>15, <1>16, <1>17, <1>18, <1>19, <1>21, <1>22, <1>23, Synced

\* PreAllocateFails keeps FileInv.
LEMMA PreAllocateFailsStep ==
  ASSUME CloseOnError, FileInv, NEW size \in Sizes, PreAllocateFails(size) PROVE FileInv'
<1>1. FileTypes
  BY DEF FileInv
<1>2. PICK L \in Nat : \E ch \in Chains(L) : Handle(L, ch) /\ Cursor(L, ch)
  BY Called DEF PreAllocateFails
<1>3. PICK ch \in Chains(L) : Handle(L, ch) /\ Cursor(L, ch)
  BY <1>2
<1>4. UNCHANGED <<foreign, entry, firstCluster, fileSize, flags, curPosition>> /\ Fails /\ faults' = faults + 1
  BY DEF PreAllocateFails, cursor, file, Fault
<1>5. PICK lost \in SUBSET Free : next' = [k \in Clusters |-> IF k \in lost THEN EOC ELSE next[k]]
  BY DEF PreAllocateFails
<1> QED  BY <1>1, <1>3, <1>4, <1>5, Marked

\* Another file that is given a cluster or gives one up changes no chain of this one.
LEMMA OtherKeeps ==
  ASSUME FileTypes, NEW c \in Clusters, OtherTakes(c) \/ OtherFrees(c)
  PROVE  /\ \A h : \A L \in Nat : \A ch \in Chains(L) :
              Chain(next, h, L, ch) /\ Own(L, ch)
                => Chain(next', h, L, ch) /\ Own(L, ch)' /\ (Exact(L, ch) => Exact(L, ch)')
         /\ \A h : Gone(h) => GoneIn(next', foreign', h)
         /\ FileTypes'
<1>1. \/ next[c] = 0 /\ next' = [next EXCEPT ![c] = EOC] /\ foreign' = foreign \cup {c}
      \/ c \in foreign /\ next' = [next EXCEPT ![c] = 0] /\ foreign' = foreign \ {c}
  BY DEF OtherTakes, OtherFrees, Free
<1>2. UNCHANGED <<entry, curPosition, fileSize, pc, todo, failed, faults>>
  BY DEF OtherTakes, OtherFrees, cursor, file, call
<1>3. next \in [Clusters -> {0, EOC} \cup Clusters] /\ foreign \subseteq Clusters /\ \A k \in foreign : next[k] = EOC
  BY DEF FileTypes
<1>4. \A k \in Clusters : k # c => next'[k] = next[k] /\ (k \in foreign' <=> k \in foreign)
  BY <1>1, <1>3
<1>5. next'[c] = (IF c \in foreign' THEN EOC ELSE 0) /\ (next[c] = 0 \/ c \in foreign)
  BY <1>1, <1>3
<1>6. FileTypes'
  <2>1. next' \in [Clusters -> {0, EOC} \cup Clusters]
    BY <1>1, <1>3
  <2>2. foreign' \subseteq Clusters /\ \A k \in foreign' : next'[k] = EOC
    BY <1>1, <1>3, <1>4, <1>5
  <2> QED  BY <1>2, <2>1, <2>2 DEF FileTypes
<1>7. ASSUME NEW h, Gone(h) PROVE GoneIn(next', foreign', h)
  BY <1>4, <1>5, <1>7 DEF Gone, GoneIn
<1>8. ASSUME NEW h, NEW L \in Nat, NEW ch \in Chains(L), Chain(next, h, L, ch), Own(L, ch)
      PROVE  Chain(next', h, L, ch) /\ Own(L, ch)' /\ (Exact(L, ch) => Exact(L, ch)')
  <2>1. \A i \in 0 .. L - 1 : ch[i] \in Clusters /\ next[ch[i]] # 0 /\ ch[i] \notin foreign
    BY <1>8, NoCluster DEF Chain, Own
  <2>2. \A i \in 0 .. L - 1 : ch[i] # c
    BY <1>5, <2>1
  <2>3. \A i \in 0 .. L - 1 : next'[ch[i]] = next[ch[i]] /\ ch[i] \notin foreign'
    BY <1>4, <2>1, <2>2
  <2>4. Chain(next', h, L, ch)
    BY <1>8, <2>3, ChainKept
  <2>5. Own(L, ch)'
    BY <2>3 DEF Own
  <2>6. Exact(L, ch) => Exact(L, ch)'
    BY <1>2, <1>4, <1>5, <2>2, NoCluster DEF Exact
  <2> QED  BY <2>4, <2>5, <2>6
<1> QED  BY <1>6, <1>7, <1>8

\* What another file does keeps FileInv.
LEMMA OtherStep == ASSUME FileInv, NEW c \in Clusters, OtherTakes(c) \/ OtherFrees(c) PROVE FileInv'
<1>1. FileTypes /\ pc \in {"closed", "idle"}
  BY DEF FileInv, OtherTakes, OtherFrees
<1>2. UNCHANGED <<entry, curPosition, curCluster, firstCluster, fileSize, flags, pc, todo, failed, faults>>
  BY DEF OtherTakes, OtherFrees, cursor, file, call
<1>3. /\ \A h : \A L \in Nat : \A ch \in Chains(L) :
           Chain(next, h, L, ch) /\ Own(L, ch)
             => Chain(next', h, L, ch) /\ Own(L, ch)' /\ (Exact(L, ch) => Exact(L, ch)')
      /\ \A h : Gone(h) => GoneIn(next', foreign', h)
      /\ FileTypes'
  BY <1>1, OtherKeeps
<1>4. CASE pc = "closed"
  <2>1. \/ \E L \in Nat : \E ch \in Chains(L) : Chain(next, entry.first, L, ch) /\ Own(L, ch) /\ Exact(L, ch)
        \/ faults > 0 /\ Gone(entry.first)
    BY <1>4 DEF FileInv, Chains
  <2>2. \/ \E L \in Nat : \E ch \in Chains(L) : Chain(next', entry.first, L, ch) /\ Own(L, ch)' /\ Exact(L, ch)'
        \/ faults > 0 /\ GoneIn(next', foreign', entry.first)
    BY <1>3, <2>1
  <2>3. ~failed
    BY <1>1, <1>4 DEF FileTypes
  <2> QED  BY <1>2, <1>3, <1>4, <2>2, <2>3 DEF FileInv, Chains, Chain, Gone, GoneIn
<1>5. CASE pc = "idle" /\ (~failed \/ faults = 0)
  <2>1. PICK L \in Nat : \E ch \in Chains(L) : Handle(L, ch)
    BY <1>5 DEF FileInv, Chains
  <2>2. PICK ch \in Chains(L) : Handle(L, ch)
    BY <2>1
  <2>3. Chain(next', firstCluster, L, ch) /\ Own(L, ch)' /\ Exact(L, ch)'
    BY <1>3, <2>2 DEF Handle
  <2>4. entry.first = 0 \/ GoneIn(next', foreign', entry.first) \/ \E i \in 0 .. L - 1 : ch[i] = entry.first
    BY <1>3, <2>2 DEF Handle
  <2>5. ~failed => Cursor(L, ch)'
    BY <1>2, <2>2 DEF Handle, Cursor, Moving, InRead, InWrite
  <2>6. Handle(L, ch)'
    <3>1. Need(fileSize)' <= L /\ entry.used /\ ("contiguous" \in flags => Straight(L, ch))
          /\ ("dirDirty" \notin flags => entry = Updated(firstCluster, fileSize))
      BY <1>2, <2>2 DEF Handle, Need
    <3>2. Chain(next, firstCluster, L, ch)'
      BY <1>2, <2>3
    <3>3. (entry.first = 0 \/ Gone(entry.first) \/ \E i \in 0 .. L - 1 : ch[i] = entry.first)'
      BY <1>2, <2>4 DEF Gone, GoneIn
    <3> QED  BY <1>2, <2>3, <2>5, <3>1, <3>2, <3>3 DEF Handle, Updated, Straight
  <2>7. Handled' /\ IsOpen'
    BY <1>2, <1>5, <2>6 DEF Handled, Chains, IsOpen
  <2> QED  BY <1>3, <2>7, HandleInvNext
<1>6. CASE pc = "idle" /\ failed /\ faults # 0
  <2>1. faults > 0
    BY <1>1, <1>6 DEF FileTypes
  <2>2. Headed(entry.first) \/ Gone(entry.first)
    BY <1>6, <2>1 DEF FileInv
  <2>3. \/ Gone(firstCluster)
        \/ \E L \in Nat : \E ch \in Chains(L) :
             Chain(next, firstCluster, L, ch) /\ Own(L, ch) /\ ("contiguous" \in flags => Straight(L, ch))
    BY <1>6, <2>1 DEF FileInv, Chains
  <2>4. \/ \E L \in Nat : \E ch \in Chains(L) : Chain(next', entry.first, L, ch) /\ Own(L, ch)'
        \/ GoneIn(next', foreign', entry.first)
    BY <1>3, <2>2 DEF Headed, Chains
  <2>5. EntryHeaded'
    BY <1>2, <2>4 DEF EntryHeaded, HeadedIn, Own, Gone, GoneIn
  <2>6. \/ GoneIn(next', foreign', firstCluster)
        \/ \E L \in Nat : \E ch \in Chains(L) :
             Chain(next', firstCluster, L, ch) /\ Own(L, ch)' /\ ("contiguous" \in flags => Straight(L, ch))
    BY <1>3, <2>3
  <2>7. HandleHeaded'
    <3>1. CASE GoneIn(next', foreign', firstCluster)
      BY <1>2, <3>1 DEF HandleHeaded, Gone, GoneIn
    <3>2. CASE \E L \in Nat : \E ch \in Chains(L) :
             Chain(next', firstCluster, L, ch) /\ Own(L, ch)' /\ ("contiguous" \in flags => Straight(L, ch))
      BY <1>2, <3>2 DEF HandleHeaded, Chains, Straight, Chain
    <3> QED  BY <2>6, <3>1, <3>2
  <2>8. CallFailed'
    BY <1>2, <1>6 DEF CallFailed, IsOpen
  <2> QED  BY <1>3, <2>5, <2>7, <2>8, FailedInvNext
<1> QED  BY <1>1, <1>4, <1>5, <1>6 DEF FileTypes

-----------------------------------------------------------------------------
(* A chain freed in part.                                                  *)

\* Table t with the chain ch cut after its cluster of index m and n clusters freed behind it.
Unlinked(t, ch, m, n) ==
  [k \in Clusters |-> IF \E i \in m + 1 .. m + n : ch[i] = k THEN 0 ELSE IF m >= 0 /\ k = ch[m] THEN EOC ELSE t[k]]

\* What is left of the chain that starts with h: its first cluster and its clusters up to index m.
FirstOf(h, m) == IF m = -1 THEN 0 ELSE h
UpTo(ch, m) == [i \in 0 .. m |-> ch[i]]

\* In table u the clusters of indices m + 1 .. m + n are free, those behind them and those of no
\* index are as in table t.
Released(t, u, L, ch, m, n) ==
  /\ \A i \in 0 .. m : i \in 0 .. L - 1 /\ UpTo(ch, m)[i] = ch[i]
  /\ \A i \in m + 1 .. m + n : i \in 0 .. L - 1 /\ u[ch[i]] = 0
  /\ \A i \in m + n + 1 .. L - 1 : u[ch[i]] = t[ch[i]]
  /\ \A k \in Clusters : (\A i \in 0 .. L - 1 : ch[i] # k) => u[k] = t[k]

\* What is left of a chain once its clusters from k on were freed in part.
LEMMA UnlinkedChain ==
  ASSUME NEW t, NEW u, NEW h, NEW L \in Nat, NEW ch, Chain(t, h, L, ch),
         NEW m \in Int, -1 <= m, m <= L - 1, NEW n \in Nat, n <= L - 1 - m, u = Unlinked(t, ch, m, n)
  PROVE  /\ Chain(u, FirstOf(h, m), m + 1, UpTo(ch, m)) /\ UpTo(ch, m) \in Chains(m + 1)
         /\ Released(t, u, L, ch, m, n)
<1> DEFINE g == FirstOf(h, m)
           d == UpTo(ch, m)
<1>0. (m = -1 => g = 0) /\ (m >= 0 => g = h) /\ d = [i \in 0 .. m |-> ch[i]]
  BY DEF FirstOf, UpTo
<1> HIDE DEF g, d
<1>1. \A i \in 0 .. m : i \in 0 .. L - 1 /\ d[i] = ch[i]
  BY <1>0
<1>2. \A i \in m + 1 .. m + n : i \in 0 .. L - 1
  OBVIOUS
<1>3. \A i \in 0 .. L - 1 : ch[i] \in Clusters
  BY DEF Chain
<1>4. \A i, j \in 0 .. L - 1 : ch[i] = ch[j] => i = j
  BY DEF Chain
<1>5. \A k \in Clusters : u[k] = IF \E i \in m + 1 .. m + n : ch[i] = k THEN 0 ELSE IF m >= 0 /\ k = ch[m] THEN EOC ELSE t[k]
  BY DEF Unlinked
<1>6. ASSUME NEW i \in m + 1 .. m + n PROVE u[ch[i]] = 0
  <2>1. ch[i] \in Clusters
    BY <1>2, <1>3
  <2> QED  BY <1>5, <2>1
<1>7. ASSUME NEW i \in 0 .. L - 1, i \notin m .. m + n PROVE u[ch[i]] = t[ch[i]]
  <2>1. \A j \in m + 1 .. m + n : ch[j] # ch[i]
    BY <1>2, <1>4, <1>7
  <2>2. m >= 0 => m \in 0 .. L - 1 /\ ch[i] # ch[m]
    BY <1>4, <1>7
  <2> QED  BY <1>3, <1>5, <2>1, <2>2
<1>8. m >= 0 => u[ch[m]] = EOC
  <2>1. m >= 0 => m \in 0 .. L - 1 /\ \A j \in m + 1 .. m + n : ch[j] # ch[m]
    BY <1>2, <1>4
  <2> QED  BY <1>3, <1>5, <2>1
<1>9. ASSUME NEW k \in Clusters, \A i \in 0 .. L - 1 : ch[i] # k PROVE u[k] = t[k]
  <2>1. m >= 0 => m \in 0 .. L - 1
    OBVIOUS
  <2> QED  BY <1>2, <1>5, <1>9, <2>1
<1> DEFINE M == m + 1
<1>10. M \in 0 .. L /\ M - 1 = m /\ (M = 0 <=> m = -1) /\ (M > 0 <=> m >= 0) /\ M \in Nat
  OBVIOUS
<1>11. \A i \in 0 .. M - 2 : u[ch[i]] = t[ch[i]]
  <2> TAKE i \in 0 .. M - 2
  <2>1. i \in 0 .. L - 1 /\ i \notin m .. m + n
    OBVIOUS
  <2> QED  BY <1>7, <2>1
<1>12. d = [i \in 0 .. M - 1 |-> ch[i]]
  BY <1>0
<1> HIDE DEF M
<1>13. Chain(u, g, M, d)
  <2>1. M > 0 => u[ch[M - 1]] = EOC
    BY <1>8, <1>10
  <2>2. (M = 0 => g = 0) /\ (M > 0 => g = h)
    BY <1>0, <1>10
  <2> QED  BY <1>10, <1>11, <1>12, <2>1, <2>2, Prefix
<1>14. d \in Chains(M)
  BY <1>13 DEF Chain, Chains
<1>15. \A i \in m + n + 1 .. L - 1 : u[ch[i]] = t[ch[i]]
  <2> TAKE i \in m + n + 1 .. L - 1
  <2>1. i \in 0 .. L - 1 /\ i \notin m .. m + n
    OBVIOUS
  <2> QED  BY <1>7, <2>1
<1>16. Chain(u, g, m + 1, d) /\ d \in Chains(m + 1)
  BY <1>13, <1>14 DEF M
<1> QED  BY <1>1, <1>2, <1>6, <1>9, <1>15, <1>16 DEF g, d, Released

\* The entry of a handle whose chain lost clusters heads what is left of a chain, or its cluster is gone.
\* x heads nothing, or the rest of a chain, or is a cluster that is gone.
Heads(t, f, L, ch, x) == x = 0 \/ GoneIn(t, f, x) \/ \E i \in 0 .. L - 1 : ch[i] = x

\* What the first cluster of such a chain heads.
LEMMA UnlinkedHeads ==
  ASSUME NEW t, NEW u, NEW f, NEW h, NEW L \in Nat, NEW ch, Chain(t, h, L, ch),
         \A i \in 0 .. L - 1 : ch[i] \notin f,
         NEW m \in Int, -1 <= m, m <= L - 1, NEW n \in Nat, n <= L - 1 - m, u = Unlinked(t, ch, m, n),
         NEW x, Heads(t, f, L, ch, x)
  PROVE  /\ HeadedIn(u, f, x) \/ GoneIn(u, f, x)
         /\ n = L - 1 - m => Heads(u, f, m + 1, ch, x)
<1> SUFFICES /\ HeadedIn(u, f, x) \/ GoneIn(u, f, x)
             /\ n = L - 1 - m => x = 0 \/ GoneIn(u, f, x) \/ \E i \in 0 .. m : ch[i] = x
  <2>1. m + 1 - 1 = m
    OBVIOUS
  <2> QED  BY <2>1 DEF Heads
<1> DEFINE d == UpTo(ch, m)
           g == FirstOf(h, m)
<1>2. /\ Chain(u, g, m + 1, d)
      /\ \A i \in 0 .. m : i \in 0 .. L - 1 /\ d[i] = ch[i]
      /\ \A i \in m + 1 .. m + n : i \in 0 .. L - 1 /\ u[ch[i]] = 0
      /\ \A i \in m + n + 1 .. L - 1 : u[ch[i]] = t[ch[i]]
      /\ \A k \in Clusters : (\A i \in 0 .. L - 1 : ch[i] # k) => u[k] = t[k]
  <2>1. Chain(u, g, m + 1, d) /\ Released(t, u, L, ch, m, n)
    BY UnlinkedChain
  <2> QED  BY <2>1 DEF Released
<1> HIDE DEF d, g
<1>3. \A i \in 0 .. L - 1 : ch[i] \in Clusters
  BY DEF Chain
<1>4. CASE x = 0
  BY <1>4, HeadedInNone
<1>5. CASE GoneIn(t, f, x)
  <2>1. CASE \E i \in 0 .. L - 1 : ch[i] = x
    <3>1. PICK i \in 0 .. L - 1 : ch[i] = x
      BY <2>1
    <3>2. t[ch[i]] # 0
      BY NoCluster DEF Chain
    <3> QED  BY <1>5, <3>1, <3>2 DEF GoneIn
  <2>2. CASE ~ \E i \in 0 .. L - 1 : ch[i] = x
    BY <1>2, <1>5, <2>2 DEF GoneIn
  <2> QED  BY <2>1, <2>2
<1>6. ASSUME NEW i \in 0 .. L - 1, ch[i] = x
      PROVE  /\ HeadedIn(u, f, x) \/ GoneIn(u, f, x)
             /\ n = L - 1 - m => GoneIn(u, f, x) \/ \E j \in 0 .. m : ch[j] = x
  <2>1. CASE i \in 0 .. m
    <3>1. d[i] = x /\ \A j \in i .. m : d[j] \notin f
      BY <1>2, <1>6, <2>1
    <3>2. i \in 0 .. m + 1 - 1 /\ m + 1 - 1 = m
      BY <2>1
    <3>3. \A M \in Nat : Chain(u, g, M, d) /\ i \in 0 .. M - 1 /\ (\A j \in i .. M - 1 : d[j] \notin f)
                           => HeadedIn(u, f, d[i])
      BY HeadedInSuffix
    <3>4. HeadedIn(u, f, d[i])
      BY <1>2, <3>1, <3>2, <3>3
    <3> QED  BY <1>6, <2>1, <3>1, <3>4
  <2>2. CASE i \in m + 1 .. m + n
    BY <1>2, <1>3, <1>6, <2>2 DEF GoneIn
  <2>3. CASE i \in m + n + 1 .. L - 1
    <3> DEFINE K == L - i
               e == [j \in 0 .. L - i - 1 |-> ch[i + j]]
    <3>1. Chain(t, ch[i], L - i, e)
      BY Suffix
    <3>2. K \in Nat /\ \A j \in 0 .. K - 1 : e[j] = ch[i + j] /\ i + j \in m + n + 1 .. L - 1 /\ i + j \in 0 .. L - 1
      BY <2>3
    <3> HIDE DEF e
    <3>3. Chain(t, ch[i], K, e)
      BY <3>1
    <3> HIDE DEF K
    <3>4. \A j \in 0 .. K - 1 : u[e[j]] = t[e[j]] /\ e[j] \notin f
      BY <1>2, <3>2
    <3>5. Chain(u, ch[i], K, e)
      BY <3>3, <3>4, ChainKept
    <3>6. e \in Chains(K)
      BY <3>5 DEF Chain, Chains
    <3>7. HeadedIn(u, f, ch[i])
      BY <3>2, <3>4, <3>5, <3>6 DEF HeadedIn
    <3>8. n # L - 1 - m
      BY <2>3
    <3> QED  BY <1>6, <3>7, <3>8
  <2>4. i \in 0 .. m \/ i \in m + 1 .. m + n \/ i \in m + n + 1 .. L - 1
    OBVIOUS
  <2> QED  BY <2>1, <2>2, <2>3, <2>4
<1> QED  BY <1>4, <1>5, <1>6 DEF Heads

\* freeChain that stopped after n clusters has freed the first n of the chain.
LEMMA FreedIs ==
  ASSUME NEW h, NEW L \in Nat, NEW ch, Chain(next, h, L, ch), NEW n \in 0 .. L
  PROVE  FreedFrom(h, n) = Unlinked(next, ch, -1, n)
<1>1. \A i \in 0 .. n - 1 : i \in Nat /\ i < L
  OBVIOUS
<1>2. \A i \in 0 .. n - 1 : Walk(h, i) = ch[i]
  BY <1>1, WalkFirst
<1>3. -1 + 1 = 0 /\ -1 + n = n - 1 /\ ~(-1 >= 0)
  OBVIOUS
<1>4. \A k \in Clusters : (\E i \in 0 .. n - 1 : Walk(h, i) = k) <=> (\E i \in -1 + 1 .. -1 + n : ch[i] = k)
  BY <1>2, <1>3
<1> QED  BY <1>3, <1>4 DEF FreedFrom, Unlinked

-----------------------------------------------------------------------------
(* remove.                                                                 *)

TableRight(t, f) == t \in [Clusters -> {0, EOC} \cup Clusters] /\ f \subseteq Clusters /\ \A c \in f : t[c] = EOC

\* The chain of a file after freeChain stopped in it.
LEMMA Unlinks ==
  ASSUME FileTypes, NEW h, NEW L \in Nat, NEW ch \in Chains(L), Chain(next, h, L, ch), Own(L, ch),
         NEW m \in Int, -1 <= m, m <= L - 1, NEW n \in Nat, n <= L - 1 - m,
         next' = Unlinked(next, ch, m, n), UNCHANGED foreign
  PROVE  /\ TableRight(next', foreign')
         /\ Chain(next', FirstOf(h, m), m + 1, UpTo(ch, m)) /\ UpTo(ch, m) \in Chains(m + 1)
         /\ Own(m + 1, UpTo(ch, m))'
         /\ Straight(L, ch) => Straight(m + 1, UpTo(ch, m))
         /\ Exact(L, ch) /\ n = L - 1 - m /\ faults = 0 => Exact(m + 1, UpTo(ch, m))'
<1> DEFINE d == UpTo(ch, m)
           M == m + 1
<1>1. Chain(next', FirstOf(h, m), m + 1, d) /\ Released(next, next', L, ch, m, n) /\ d \in Chains(m + 1)
  BY UnlinkedChain
<1>2. /\ \A i \in 0 .. m : i \in 0 .. L - 1 /\ d[i] = ch[i]
      /\ \A i \in m + 1 .. m + n : i \in 0 .. L - 1 /\ next'[ch[i]] = 0
      /\ \A i \in m + n + 1 .. L - 1 : next'[ch[i]] = next[ch[i]]
      /\ \A k \in Clusters : (\A i \in 0 .. L - 1 : ch[i] # k) => next'[k] = next[k]
  BY <1>1 DEF Released
<1>3. \A i \in 0 .. L - 1 : ch[i] \in Clusters /\ ch[i] \notin foreign
  BY DEF Chain, Own
<1>4. M \in Nat /\ M - 1 = m /\ M <= L /\ Chain(next', FirstOf(h, m), M, d) /\ d \in Chains(M)
  BY <1>1
<1> HIDE DEF d, M
<1>5. TableRight(next', foreign')
  <2>1. next' \in [Clusters -> {0, EOC} \cup Clusters]
    <3>1. \A k \in Clusters : next[k] \in {0, EOC} \cup Clusters
      BY DEF FileTypes
    <3> QED  BY <3>1 DEF Unlinked
  <2>2. \A k \in foreign : next'[k] = EOC
    <3> TAKE k \in foreign
    <3>1. k \in Clusters /\ next[k] = EOC
      BY DEF FileTypes
    <3> QED  BY <1>2, <1>3, <3>1
  <2> QED  BY <2>1, <2>2 DEF TableRight, FileTypes
<1>6. Own(M, d)'
  BY <1>2, <1>3, <1>4 DEF Own
<1>7. Straight(L, ch) => Straight(M, d)
  <2> SUFFICES ASSUME Straight(L, ch), NEW i \in 0 .. M - 2 PROVE d[i + 1] = d[i] + 1
    BY DEF Straight
  <2>1. i \in 0 .. m /\ i + 1 \in 0 .. m /\ i \in 0 .. L - 2
    BY <1>4
  <2>2. ch[i + 1] = ch[i] + 1
    BY <2>1 DEF Straight
  <2> QED  BY <1>2, <2>1, <2>2
<1>8. Exact(L, ch) /\ n = L - 1 - m /\ faults = 0 => Exact(M, d)'
  <2> SUFFICES ASSUME Exact(L, ch), n = L - 1 - m, faults = 0, NEW k \in Clusters
               PROVE  next'[k] # 0 <=> k \in foreign' \/ \E i \in 0 .. M - 1 : d[i] = k
    BY DEF Exact
  <2>1. next[k] # 0 <=> k \in foreign \/ \E i \in 0 .. L - 1 : ch[i] = k
    BY DEF Exact
  <2>2. CASE \A i \in 0 .. L - 1 : ch[i] # k
    BY <1>2, <1>4, <2>1, <2>2
  <2>3. ASSUME NEW j \in 0 .. L - 1, ch[j] = k
        PROVE  next'[k] # 0 <=> k \in foreign' \/ \E i \in 0 .. M - 1 : d[i] = k
    <3>1. CASE j <= m
      <4>1. j \in 0 .. M - 1 /\ d[j] = k
        BY <1>2, <1>4, <2>3, <3>1
      <4>2. next'[d[j]] # 0
        BY <1>4, <4>1, NoCluster DEF Chain
      <4> QED  BY <4>1, <4>2
    <3>2. CASE ~(j <= m)
      <4>1. next'[k] = 0 /\ k \notin foreign'
        BY <1>2, <1>3, <2>3, <3>2
      <4>2. \A i \in 0 .. M - 1 : next'[d[i]] # 0
        BY <1>4, NoCluster DEF Chain
      <4> QED  BY <4>1, <4>2
    <3> QED  BY <3>1, <3>2
  <2> QED  BY <2>2, <2>3
<1> QED  BY <1>4, <1>5, <1>6, <1>7, <1>8 DEF M, d

\* Remove keeps FileInv.
LEMMA RemoveStep == ASSUME CloseOnError, FileInv, Remove PROVE FileInv'
<1>1. FileTypes
  BY DEF FileInv
<1>2. PICK L \in Nat : \E ch \in Chains(L) : Handle(L, ch) /\ Cursor(L, ch)
  BY Called DEF Remove
<1>3. PICK ch \in Chains(L) : Handle(L, ch) /\ Cursor(L, ch)
  BY <1>2
<1>4. Chain(next, firstCluster, L, ch) /\ Own(L, ch) /\ Exact(L, ch)
  BY <1>3 DEF Handle
<1>5. next' = Unlinked(next, ch, -1, L)
  <2>1. FreedFrom(firstCluster, L) = Unlinked(next, ch, -1, L)
    BY <1>4, FreedIs
  <2>2. Cardinality(ChainOf(firstCluster)) = L
    BY <1>4, ChainOfChain
  <2> QED  BY <2>1, <2>2 DEF Remove, FreedAll
<1>6. /\ pc' = "closed" /\ failed' = FALSE /\ todo' = 0 /\ UNCHANGED foreign
      /\ curPosition' = 0 /\ fileSize' = 0 /\ entry' = [used |-> FALSE, first |-> 0, size |-> 0]
      /\ faults' \in {faults, faults + 1}
  BY DEF Remove, Closed, NoFault, Fault
<1>7. /\ TableRight(next', foreign')
      /\ Chain(next', FirstOf(firstCluster, -1), -1 + 1, UpTo(ch, -1)) /\ UpTo(ch, -1) \in Chains(-1 + 1)
      /\ Own(-1 + 1, UpTo(ch, -1))'
      /\ Exact(L, ch) /\ L = L - 1 - (-1) /\ faults = 0 => Exact(-1 + 1, UpTo(ch, -1))'
  <2>1. -1 \in Int /\ -1 <= -1 /\ -1 <= L - 1 /\ L <= L - 1 - (-1)
    OBVIOUS
  <2> QED  BY <1>1, <1>4, <1>5, <1>6, <2>1, Unlinks
<1>8. -1 + 1 = 0 /\ L = L - 1 - (-1) /\ FirstOf(firstCluster, -1) = 0
  BY DEF FirstOf
<1>9. Chain(next', 0, 0, UpTo(ch, -1)) /\ Own(0, UpTo(ch, -1))' /\ (faults = 0 => Exact(0, UpTo(ch, -1))') /\ UpTo(ch, -1) \in Chains(0)
  BY <1>4, <1>7, <1>8
<1>10. Exact(0, UpTo(ch, -1))'
  <2>1. faults' = 0 => faults = 0
    BY <1>1, <1>6 DEF FileTypes
  <2> QED  BY <1>9, <2>1 DEF Exact
<1>11. FileTypes'
  <2>1. 0 \in 0 .. MaxSize /\ faults' \in Nat /\ entry' \in [used : BOOLEAN, first : Nat, size : 0 .. MaxSize]
        /\ entry'.first = 0 /\ entry'.size = 0
    BY <1>1, <1>6, Units DEF FileTypes
  <2> QED  BY <1>6, <1>7, <2>1 DEF FileTypes, TableRight
<1>12. \E M \in Nat : \E d \in [0 .. M - 1 -> Clusters] :
         Chain(next', entry'.first, M, d) /\ Own(M, d)' /\ Exact(M, d)'
  <2>1. entry'.first = 0
    BY <1>6
  <2> QED  BY <1>9, <1>10, <2>1 DEF Chains
<1> QED  BY <1>6, <1>11, <1>12 DEF FileInv, Chain

\* RemoveFails keeps FileInv.
LEMMA RemoveFailsStep == ASSUME CloseOnError, FileInv, RemoveFails PROVE FileInv'
<1>1. FileTypes
  BY DEF FileInv
<1>2. PICK L \in Nat : \E ch \in Chains(L) : Handle(L, ch) /\ Cursor(L, ch)
  BY Called DEF RemoveFails
<1>3. PICK ch \in Chains(L) : Handle(L, ch) /\ Cursor(L, ch)
  BY <1>2
<1>4. Chain(next, firstCluster, L, ch) /\ Own(L, ch) /\ ("contiguous" \in flags => Straight(L, ch))
      /\ Heads(next, foreign, L, ch, entry.first)
  BY <1>3 DEF Handle, Gone, GoneIn, Heads
<1>5. PICK n \in 0 .. L : next' = FreedFrom(firstCluster, n)
  <2>1. Cardinality(ChainOf(firstCluster)) = L
    BY <1>4, ChainOfChain
  <2> QED  BY <2>1 DEF RemoveFails
<1>6. next' = Unlinked(next, ch, -1, n)
  BY <1>4, <1>5, FreedIs
<1>7. UNCHANGED <<foreign, entry, firstCluster, fileSize, curPosition, flags>> /\ Fails /\ faults' = faults + 1
  BY DEF RemoveFails, cursor, file, Fault
<1>8. -1 \in Int /\ -1 <= -1 /\ -1 <= L - 1 /\ n <= L - 1 - (-1) /\ n \in Nat
  OBVIOUS
<1>9. TableRight(next', foreign')
  BY <1>1, <1>4, <1>6, <1>7, <1>8, Unlinks
<1>10. HeadedIn(next', foreign, entry.first) \/ GoneIn(next', foreign, entry.first)
  <2>1. \A i \in 0 .. L - 1 : ch[i] \notin foreign
    BY <1>4 DEF Own
  <2> QED  BY <1>4, <1>6, <1>8, <2>1, UnlinkedHeads
<1>11. EntryHeaded'
  BY <1>7, <1>10 DEF EntryHeaded, Gone, GoneIn
<1>12. Released(next, next', L, ch, -1, n)
  BY <1>4, <1>6, <1>8, UnlinkedChain
<1>13. HandleHeaded'
  <2>1. CASE n = 0
    <3>1. \A i \in 0 .. L - 1 : i \in -1 + n + 1 .. L - 1
      BY <2>1
    <3>2. \A i \in 0 .. L - 1 : next'[ch[i]] = next[ch[i]]
      BY <1>12, <3>1 DEF Released
    <3>3. Chain(next', firstCluster, L, ch)
      BY <1>4, <3>2, ChainKept
    <3>4. Own(L, ch)'
      BY <1>4, <1>7 DEF Own
    <3>5. Chain(next, firstCluster, L, ch)'
      BY <1>7, <3>3
    <3> QED  BY <1>4, <1>7, <3>4, <3>5 DEF HandleHeaded, Straight
  <2>2. CASE n # 0
    <3>1. 0 \in -1 + 1 .. -1 + n /\ 0 \in 0 .. L - 1 /\ L # 0
      BY <2>2
    <3>2. next'[ch[0]] = 0 /\ ch[0] \in Clusters /\ firstCluster = ch[0]
      BY <1>4, <1>12, <3>1 DEF Released, Chain
    <3> QED  BY <1>7, <3>2 DEF HandleHeaded, Gone
  <2> QED  BY <2>1, <2>2
<1>14. FileTypes' /\ CallFailed'
  <2>1. faults' \in Nat /\ faults' # 0
    BY <1>1, <1>7 DEF FileTypes
  <2> QED  BY <1>1, <1>7, <1>9, <2>1 DEF FileTypes, TableRight, Fails, CallFailed, IsOpen
<1> QED  BY <1>11, <1>13, <1>14, FailedInvNext

-----------------------------------------------------------------------------
(* truncate.                                                               *)

\* What truncate keeps and frees when the current cluster has index m in the chain.
LEMMA TruncatedIs ==
  ASSUME FileTypes, NEW L \in Nat, NEW ch \in Chains(L), Chain(next, firstCluster, L, ch), L > 0,
         NEW m \in Int, -1 <= m, m <= L - 1, m = -1 => curCluster = 0, m >= 0 => curCluster = ch[m]
  PROVE  /\ Kept = FirstOf(firstCluster, m)
         /\ Truncated(Cardinality(ChainOf(ToFree))) = Unlinked(next, ch, m, L - 1 - m)
         /\ ToFree \in Clusters => /\ Cardinality(ChainOf(ToFree)) = L - 1 - m
                                   /\ \A n \in 0 .. L - 1 - m : Truncated(n) = Unlinked(next, ch, m, n)
<1>1. \A i \in 0 .. L - 1 : ch[i] \in Clusters /\ ch[i] # 0
  BY NoCluster DEF Chains
<1>2. firstCluster = ch[0] /\ 0 \in 0 .. L - 1 /\ (m >= 0 => m \in 0 .. L - 1)
  BY DEF Chain
<1>3. curCluster = 0 <=> m = -1
  BY <1>1, <1>2
<1>4. Kept = FirstOf(firstCluster, m)
  BY <1>3 DEF Kept, FirstOf
<1>5. Cut = [k \in Clusters |-> IF m >= 0 /\ k = ch[m] THEN EOC ELSE next[k]]
  <2>1. next = [k \in Clusters |-> next[k]]
    BY DEF FileTypes
  <2>2. CASE m = -1
    BY <1>3, <2>1, <2>2 DEF Cut
  <2>3. CASE m >= 0
    BY <1>1, <1>2, <1>3, <2>1, <2>3 DEF Cut
  <2> QED  BY <2>2, <2>3
<1>6. ToFree = IF m = L - 1 THEN EOC ELSE ch[m + 1]
  <2>1. CASE m = -1
    BY <1>2, <1>3, <2>1 DEF ToFree
  <2>2. CASE m >= 0
    <3>1. next[ch[m]] = IF m = L - 1 THEN EOC ELSE ch[m + 1]
      BY <1>2, <2>2 DEF Chain
    <3> QED  BY <1>3, <2>2, <3>1 DEF ToFree
  <2> QED  BY <2>1, <2>2
<1>7. CASE m = L - 1
  <2>1. ToFree \notin Clusters
    BY <1>6, <1>7, NoCluster
  <2>3. m >= 0 /\ next[ch[m]] = EOC /\ L - 1 - m = 0
    BY <1>2, <1>7 DEF Chain
  <2>2. Truncated(Cardinality(ChainOf(ToFree))) = next
    <3>1. next = [k \in Clusters |-> next[k]]
      BY DEF FileTypes
    <3>2. Truncated(Cardinality(ChainOf(ToFree))) = Cut
      BY <2>1 DEF Truncated
    <3> QED  BY <1>5, <2>3, <3>1, <3>2
  <2>4. Unlinked(next, ch, m, 0) = next
    <3>1. next = [k \in Clusters |-> next[k]]
      BY DEF FileTypes
    <3>2. \A k \in Clusters : (IF \E i \in m + 1 .. m + 0 : ch[i] = k THEN 0
                               ELSE IF m >= 0 /\ k = ch[m] THEN EOC ELSE next[k]) = next[k]
      BY <2>3
    <3> QED  BY <3>1, <3>2 DEF Unlinked
  <2> QED  BY <1>4, <2>1, <2>2, <2>3, <2>4
<1>8. CASE m # L - 1
  <2>1. m + 1 \in 0 .. L - 1 /\ ToFree = ch[m + 1] /\ ToFree \in Clusters
    BY <1>1, <1>6, <1>8
  <2>2. PICK k \in 0 .. L - 1 : k = m + 1
    BY <2>1
  <2>3. Cardinality(ChainOf(ToFree)) = L - 1 - m
    <3> DEFINE K == L - k
               e == [j \in 0 .. L - k - 1 |-> ch[k + j]]
    <3>1. Chain(next, ch[k], L - k, e)
      BY Suffix
    <3>2. Cardinality(ChainOf(ch[k])) = L - k
      <4> HIDE DEF e
      <4> QED  BY <3>1, ChainOfChain
    <3> QED  BY <2>1, <2>2, <3>2
  <2>4. ASSUME NEW n \in 0 .. L - 1 - m PROVE Truncated(n) = Unlinked(next, ch, m, n)
    <3>1. \A i \in 0 .. n - 1 : Walk(ToFree, i) = ch[m + 1 + i]
      <4> TAKE i \in 0 .. n - 1
      <4>1. i \in Nat /\ k + i < L
        BY <2>2
      <4>2. Walk(ch[k], i) = ch[k + i]
        BY <4>1, WalkFrom
      <4> QED  BY <2>1, <2>2, <4>2
    <3>2. ASSUME NEW c \in Clusters
          PROVE  (\E i \in 0 .. n - 1 : Walk(ToFree, i) = c) <=> (\E i \in m + 1 .. m + n : ch[i] = c)
      <4>1. ASSUME NEW i \in 0 .. n - 1, Walk(ToFree, i) = c PROVE \E j \in m + 1 .. m + n : ch[j] = c
        <5>1. m + 1 + i \in m + 1 .. m + n
          OBVIOUS
        <5> QED  BY <3>1, <4>1, <5>1
      <4>2. ASSUME NEW j \in m + 1 .. m + n, ch[j] = c PROVE \E i \in 0 .. n - 1 : Walk(ToFree, i) = c
        <5>1. j - (m + 1) \in 0 .. n - 1 /\ m + 1 + (j - (m + 1)) = j
          OBVIOUS
        <5>2. Walk(ToFree, j - (m + 1)) = c
          BY <3>1, <4>2, <5>1
        <5> QED  BY <5>1, <5>2
      <4> QED  BY <4>1, <4>2
    <3>3. Truncated(n) = [c \in Clusters |-> IF \E i \in 0 .. n - 1 : Walk(ToFree, i) = c THEN 0 ELSE Cut[c]]
      BY <2>1 DEF Truncated
    <3>4. \A c \in Clusters : Cut[c] = IF m >= 0 /\ c = ch[m] THEN EOC ELSE next[c]
      BY <1>5
    <3> QED  BY <3>2, <3>3, <3>4 DEF Unlinked
  <2>5. L - 1 - m \in 0 .. L - 1 - m
    BY <2>1
  <2> QED  BY <1>4, <2>3, <2>4, <2>5
<1> QED  BY <1>7, <1>8

\* Truncate keeps FileInv.
LEMMA TruncateStep == ASSUME CloseOnError, FileInv, Truncate PROVE FileInv'
<1> DEFINE m == ClusterIndex(curPosition)
<1>1. FileTypes /\ pc = "idle" /\ curPosition \in 0 .. MaxSize /\ curPosition \in Nat /\ fileSize \in Nat
  BY Units DEF FileInv, FileTypes, Truncate, Call
<1>2. PICK L \in Nat : \E ch \in Chains(L) : Handle(L, ch) /\ Cursor(L, ch)
  BY Called DEF Truncate
<1>3. PICK ch \in Chains(L) : Handle(L, ch) /\ Cursor(L, ch)
  BY <1>2
<1>4. /\ Chain(next, firstCluster, L, ch) /\ Own(L, ch) /\ Exact(L, ch) /\ Need(fileSize) <= L
      /\ "contiguous" \in flags => Straight(L, ch)
      /\ entry.used /\ Heads(next, foreign, L, ch, entry.first)
  BY <1>3 DEF Handle, Heads, Gone, GoneIn
<1>5. UNCHANGED <<foreign, curCluster, curPosition>>
  BY DEF Truncate, cursor
<1>6. At(curPosition, curCluster, L, ch) /\ curPosition <= fileSize
  BY <1>1, <1>3 DEF Cursor, Moving, At
<1>7. CASE firstCluster = 0
  <2>1. UNCHANGED <<next, foreign, entry, firstCluster, fileSize, flags, curCluster, curPosition, faults, failed, todo>> /\ pc' = "idle"
    BY <1>5, <1>7 DEF Truncate, file, NoFault, Succeeds, call
  <2>2. FileTypes' /\ IsOpen'
    BY <1>1, <2>1 DEF FileTypes, IsOpen
  <2>3. Cursor(L, ch)'
    BY <1>6, <2>1 DEF Cursor, At, Moving, InRead, InWrite
  <2> QED  BY <1>3, <2>1, <2>2, <2>3, ChainUntouched
<1>8. CASE firstCluster # 0
  <2>1. L > 0
    BY <1>4, <1>8 DEF Chain
  <2>2. m \in Int /\ -1 <= m /\ (m = -1 => curPosition = 0) /\ (m >= 0 => curPosition > 0) /\ Need(curPosition) = m + 1
        /\ (curPosition > 0 => m \in Nat)
    BY <1>1, Places
  <2>3. m <= L - 1 /\ (m = -1 => curCluster = 0) /\ (m >= 0 => curCluster = ch[m])
    BY <1>6, <2>1, <2>2 DEF At
  <2>4. next' = Truncated(Cardinality(ChainOf(ToFree))) /\ firstCluster' = Kept /\ fileSize' = curPosition
        /\ Sync(Kept, curPosition, flags \cup {"dirDirty"})
    BY <1>8 DEF Truncate
  <2> HIDE DEF m
  <2>5. PICK k \in Int : k = m
    BY <2>2
  <2>6. -1 <= k /\ k <= L - 1 /\ (k = -1 => curCluster = 0) /\ (k >= 0 => curCluster = ch[k])
    BY <2>2, <2>3, <2>5
  <2>7. Kept = FirstOf(firstCluster, k) /\ next' = Unlinked(next, ch, k, L - 1 - k)
    BY <1>1, <1>4, <2>1, <2>4, <2>6, TruncatedIs
  <2>8. PICK n \in Nat : n = L - 1 - k
    BY <2>6
  <2>9. next' = Unlinked(next, ch, k, n) /\ n <= L - 1 - k
    BY <2>7, <2>8
  <2> DEFINE d == UpTo(ch, k)
  <2>10. /\ TableRight(next', foreign')
         /\ Chain(next', FirstOf(firstCluster, k), k + 1, d) /\ d \in Chains(k + 1)
         /\ Own(k + 1, d)'
         /\ Straight(L, ch) => Straight(k + 1, d)
         /\ Exact(L, ch) /\ n = L - 1 - k /\ faults = 0 => Exact(k + 1, d)'
    BY <1>1, <1>4, <1>5, <2>6, <2>9, Unlinks
  <2>11. Heads(next', foreign, k + 1, ch, entry.first)
    <3>1. \A i \in 0 .. L - 1 : ch[i] \notin foreign
      BY <1>4 DEF Own
    <3> QED  BY <1>4, <2>6, <2>8, <2>9, <3>1, UnlinkedHeads
  <2>12. \A i \in 0 .. k : d[i] = ch[i]
    BY DEF UpTo
  <2> HIDE DEF d
  <2>13. PICK M \in Nat : M = k + 1
    BY <2>6
  <2>14. entry.first = 0 \/ GoneIn(next', foreign', entry.first) \/ \E i \in 0 .. M - 1 : d[i] = entry.first
    <3>1. k + 1 - 1 = k /\ M - 1 = k
      BY <2>13
    <3> QED  BY <1>5, <2>11, <2>12, <3>1 DEF Heads
  <2>15. Chain(next', Kept, M, d) /\ d \in Chains(M) /\ Own(M, d)' /\ (faults = 0 => Exact(M, d)')
         /\ ("contiguous" \in flags => Straight(M, d)) /\ Need(curPosition) <= M
    <3>1. Need(curPosition) = M
      BY <2>2, <2>5, <2>13
    <3> QED  BY <1>4, <2>7, <2>8, <2>10, <2>13, <3>1
  <2>16. At(curPosition', curCluster', M, d) /\ curPosition' <= curPosition /\ curPosition' \in 0 .. MaxSize
    <3>1. curPosition' = curPosition /\ curPosition' \in Nat
      BY <1>1, <1>5
    <3>2. ClusterIndex(curPosition) = k
      BY <2>5 DEF m
    <3>3. curPosition > 0 => k \in 0 .. k /\ k < M
      BY <2>2, <2>5, <2>13
    <3>4. curPosition = 0 => curCluster = 0
      BY <1>6 DEF At
    <3>5. curPosition > 0 => curCluster = ch[k]
      BY <1>6, <3>2 DEF At
    <3> QED  BY <1>1, <1>5, <2>12, <3>1, <3>2, <3>3, <3>4, <3>5 DEF At
  <2> DEFINE fl == flags \cup {"dirDirty"}
  <2>17. "dirDirty" \in fl /\ ("contiguous" \in fl => "contiguous" \in flags)
    OBVIOUS
  <2>18. Sync(Kept, curPosition, fl)
    BY <2>4
  <2>19. next' \in [Clusters -> {0, EOC} \cup Clusters] /\ \A c \in foreign : next'[c] = EOC
    BY <1>5, <2>10 DEF TableRight
  <2> HIDE DEF fl
  <2> QED  BY <1>1, <1>4, <1>5, <2>4, <2>14, <2>15, <2>16, <2>17, <2>18, <2>19, Synced
<1> QED  BY <1>7, <1>8

\* TruncateFails keeps FileInv.
LEMMA TruncateFailsStep == ASSUME CloseOnError, FileInv, TruncateFails PROVE FileInv'
<1> DEFINE m == ClusterIndex(curPosition)
<1>1. FileTypes /\ pc = "idle" /\ curPosition \in 0 .. MaxSize /\ curPosition \in Nat /\ fileSize \in Nat
  BY Units DEF FileInv, FileTypes, TruncateFails, Call
<1>2. PICK L \in Nat : \E ch \in Chains(L) : Handle(L, ch) /\ Cursor(L, ch)
  BY Called DEF TruncateFails
<1>3. PICK ch \in Chains(L) : Handle(L, ch) /\ Cursor(L, ch)
  BY <1>2
<1>4. /\ Chain(next, firstCluster, L, ch) /\ Own(L, ch)
      /\ "contiguous" \in flags => Straight(L, ch)
      /\ Heads(next, foreign, L, ch, entry.first)
  BY <1>3 DEF Handle, Heads, Gone, GoneIn
<1>5. UNCHANGED <<foreign, entry, fileSize, flags, curCluster, curPosition>> /\ Fails /\ faults' = faults + 1
  BY DEF TruncateFails, cursor, Fault
<1>6. At(curPosition, curCluster, L, ch)
  BY <1>1, <1>3 DEF Cursor, Moving, At
<1>7. faults' \in Nat /\ faults' # 0
  BY <1>1, <1>5 DEF FileTypes
<1>8. CASE UNCHANGED <<next, firstCluster>>
  <2>1. FileTypes' /\ IsOpen' /\ failed'
    BY <1>1, <1>5, <1>7, <1>8, FailsTypes
  <2> QED  BY <1>3, <1>5, <1>7, <1>8, <2>1, ChainUntouched
<1>9. CASE /\ ToFree \in Clusters
           /\ \E n \in 0 .. Cardinality(ChainOf(ToFree)) - 1 : next' = Truncated(n)
           /\ firstCluster' = Kept
  <2>1. L > 0
    BY <1>4 DEF Chain, TruncateFails
  <2>2. m \in Int /\ -1 <= m /\ (m = -1 => curPosition = 0) /\ (m >= 0 => curPosition > 0)
    BY <1>1, Places
  <2>3. m <= L - 1 /\ (m = -1 => curCluster = 0) /\ (m >= 0 => curCluster = ch[m])
    BY <1>6, <2>1, <2>2 DEF At
  <2> HIDE DEF m
  <2>5. PICK k \in Int : k = m
    BY <2>2
  <2>6. -1 <= k /\ k <= L - 1 /\ (k = -1 => curCluster = 0) /\ (k >= 0 => curCluster = ch[k])
    BY <2>2, <2>3, <2>5
  <2>7. /\ Kept = FirstOf(firstCluster, k) /\ Cardinality(ChainOf(ToFree)) = L - 1 - k
        /\ \A n \in 0 .. L - 1 - k : Truncated(n) = Unlinked(next, ch, k, n)
    BY <1>1, <1>4, <1>9, <2>1, <2>6, TruncatedIs
  <2>8. PICK n \in Nat : n <= L - 1 - k /\ next' = Truncated(n)
    BY <1>9, <2>6, <2>7
  <2>9. next' = Unlinked(next, ch, k, n)
    BY <2>6, <2>7, <2>8
  <2> DEFINE d == UpTo(ch, k)
  <2>10. /\ TableRight(next', foreign')
         /\ Chain(next', FirstOf(firstCluster, k), k + 1, d) /\ d \in Chains(k + 1)
         /\ Own(k + 1, d)'
         /\ Straight(L, ch) => Straight(k + 1, d)
    BY <1>1, <1>4, <1>5, <2>6, <2>8, <2>9, Unlinks
  <2>11. HeadedIn(next', foreign, entry.first) \/ GoneIn(next', foreign, entry.first)
    <3>1. \A i \in 0 .. L - 1 : ch[i] \notin foreign
      BY <1>4 DEF Own
    <3> QED  BY <1>4, <2>6, <2>8, <2>9, <3>1, UnlinkedHeads
  <2>12. EntryHeaded'
    BY <1>5, <2>11 DEF EntryHeaded, Gone, GoneIn
  <2> HIDE DEF d
  <2>13. PICK M \in Nat : M = k + 1
    BY <2>6
  <2>14. Chain(next', firstCluster', M, d) /\ d \in Chains(M) /\ Own(M, d)' /\ ("contiguous" \in flags' => Straight(M, d))
    BY <1>4, <1>5, <1>9, <2>7, <2>10, <2>13
  <2>15. HandleHeaded'
    <3>1. Chain(next, firstCluster, M, d)'
      BY <2>14
    <3> QED  BY <2>14, <3>1 DEF HandleHeaded, Straight
  <2>16. FileTypes' /\ CallFailed'
    BY <1>1, <1>5, <1>7, <2>10 DEF FileTypes, TableRight, Fails, CallFailed, IsOpen
  <2> QED  BY <2>12, <2>15, <2>16, FailedInvNext
<1> QED  BY <1>8, <1>9 DEF TruncateFails

-----------------------------------------------------------------------------
(* open.                                                                   *)

\* A closed file that may be opened has its chain, long enough for its size.
LEMMA OpensOn ==
  ASSUME FileInv, pc = "closed", Holds(entry.first, entry.size)
  PROVE  \E L \in Nat : \E ch \in Chains(L) :
           Chain(next, entry.first, L, ch) /\ Own(L, ch) /\ Exact(L, ch) /\ Need(entry.size) <= L
<1> DEFINE h == entry.first
<1>1. /\ \A n \in 0 .. Need(entry.size) - 1 : Walk(h, n) \in Clusters
      /\ \A c \in ChainOf(h) : next[c] # 0 /\ c \notin foreign
  BY DEF Holds
<1>2. entry.size \in Nat
  BY Units DEF FileInv, FileTypes
<1> HIDE DEF h
<1>3. ~Gone(h)
  <2>1. Walk(h, 0) = h /\ 0 \in 0 .. LastCluster
    BY WalkNow, WalkStep, Units
  <2>2. h \in Clusters => h \in ChainOf(h)
    BY <2>1 DEF ChainOf
  <2> QED  BY <1>1, <2>2 DEF Gone
<1>4. PICK L \in Nat : \E ch \in Chains(L) : Chain(next, h, L, ch) /\ Own(L, ch) /\ Exact(L, ch)
  BY <1>3 DEF FileInv, Chains, h
<1>5. PICK ch \in Chains(L) : Chain(next, h, L, ch) /\ Own(L, ch) /\ Exact(L, ch)
  BY <1>4
<1>6. Need(entry.size) <= L
  <2>1. Need(entry.size) = ClusterIndex(entry.size) + 1 /\ ClusterIndex(entry.size) \in Int
    BY <1>2, Places
  <2>2. Walk(h, L) \notin Clusters
    <3>1. Walk(h, L) = IF L < L THEN ch[L] ELSE IF L = 0 THEN 0 ELSE EOC
      BY <1>5, WalkFirst
    <3> QED  BY <3>1, NoCluster
  <2>3. ~(L \in 0 .. Need(entry.size) - 1)
    BY <1>1, <2>2
  <2> QED  BY <2>1, <2>3
<1> QED  BY <1>5, <1>6 DEF h

\* Open keeps FileInv.
LEMMA OpenStep ==
  ASSUME FileInv, NEW append \in SUBSET {"append"}, NEW atEnd \in BOOLEAN, NEW trunc \in BOOLEAN,
         Open(append, atEnd, trunc), Holds(entry.first, entry.size)
  PROVE  FileInv'
<1>1. FileTypes /\ pc = "closed" /\ Holds(entry.first, entry.size) /\ ~failed
  BY DEF FileInv, FileTypes, Open
<1>2. PICK L \in Nat : \E ch \in Chains(L) :
        Chain(next, entry.first, L, ch) /\ Own(L, ch) /\ Exact(L, ch) /\ Need(entry.size) <= L
  BY <1>1, OpensOn
<1>3. PICK ch \in Chains(L) : Chain(next, entry.first, L, ch) /\ Own(L, ch) /\ Exact(L, ch) /\ Need(entry.size) <= L
  BY <1>2
<1>4. /\ pc' = "idle" /\ UNCHANGED <<foreign, todo, failed, faults>>
      /\ entry' = IF entry.used THEN entry ELSE Updated(0, 0)
      /\ flags' = append \cup IF trunc THEN {"dirDirty"} ELSE {}
      /\ next' = IF trunc THEN FreedAll(entry.first) ELSE next
      /\ firstCluster' = IF trunc THEN 0 ELSE entry'.first
      /\ fileSize' = IF trunc THEN 0 ELSE entry'.size
      /\ curPosition' = IF atEnd THEN fileSize' ELSE 0
      /\ curCluster' = IF curPosition' = 0 THEN 0 ELSE Walk(firstCluster', ClusterIndex(curPosition'))
  BY DEF Open, NoFault, call
<1>5. /\ entry.first \in Nat /\ entry.size \in 0 .. MaxSize /\ entry.size \in Nat
      /\ entry' = Updated(entry.first, entry.size)
      /\ entry'.used /\ entry'.first = entry.first /\ entry'.size = entry.size
  <2>1. /\ entry \in [used : BOOLEAN, first : Nat, size : 0 .. MaxSize]
        /\ ~entry.used => entry.first = 0 /\ entry.size = 0
    BY <1>1 DEF FileTypes
  <2>2. entry.first \in Nat /\ entry.size \in 0 .. MaxSize /\ entry.size \in Nat
    BY <2>1, Units
  <2>3. entry.used => entry = Updated(entry.first, entry.size)
    BY <2>1 DEF Updated
  <2>4. entry' = Updated(entry.first, entry.size)
    BY <1>4, <2>1, <2>3
  <2> QED  BY <2>2, <2>4 DEF Updated
<1>6. /\ entry' \in [used : BOOLEAN, first : Nat, size : 0 .. MaxSize]
      /\ curPosition' \in 0 .. MaxSize /\ fileSize' \in 0 .. MaxSize /\ curPosition' <= fileSize'
  <2>1. entry' \in [used : BOOLEAN, first : Nat, size : 0 .. MaxSize]
    BY <1>5 DEF Updated
  <2>2. 0 \in 0 .. MaxSize /\ MaxSize \in Nat
    BY Units
  <2>3. fileSize' \in 0 .. MaxSize
    BY <1>4, <1>5, <2>2
  <2>4. curPosition' = fileSize' \/ curPosition' = 0
    BY <1>4
  <2> QED  BY <2>1, <2>2, <2>3, <2>4
<1>7. CASE ~trunc
  <2>1. UNCHANGED next /\ firstCluster' = entry.first /\ fileSize' = entry.size
    BY <1>4, <1>5, <1>7
  <2>2. FileTypes' /\ IsOpen'
    BY <1>1, <1>4, <1>5, <1>6, <2>1 DEF FileTypes, IsOpen
  <2>3. At(curPosition', curCluster', L, ch)
    <3>1. curPosition' \in Nat /\ entry.size \in Nat /\ curPosition' <= entry.size
      BY <1>5, <1>6, <2>1
    <3>2. curPosition' > 0 => ClusterIndex(curPosition') \in 0 .. L - 1
      BY <1>3, <3>1, InFile
    <3>3. curPosition' > 0 => ClusterIndex(curPosition') \in Nat /\ ClusterIndex(curPosition') < L
      BY <3>2
    <3>4. curPosition' > 0 => Walk(entry.first, ClusterIndex(curPosition')) = ch[ClusterIndex(curPosition')]
      BY <1>3, <3>3, WalkFirst
    <3> QED  BY <1>4, <2>1, <3>1, <3>3, <3>4 DEF At
  <2>4. Cursor(L, ch)'
    BY <1>4, <1>6, <2>3 DEF Cursor, At, Moving, InRead, InWrite
  <2>5. "contiguous" \notin flags'
    BY <1>4, <1>7
  <2>6. entry'.first = 0 \/ \E i \in 0 .. L - 1 : ch[i] = entry'.first
    <3>1. L > 0 => 0 \in 0 .. L - 1
      OBVIOUS
    <3> QED  BY <1>3, <1>5, <3>1 DEF Chain
  <2>7. Handle(L, ch)'
    <3>1. Chain(next, firstCluster, L, ch)' /\ Own(L, ch)' /\ Exact(L, ch)'
      BY <1>3, <1>4, <2>1 DEF Own, Exact
    <3>2. Need(fileSize)' <= L
      BY <1>3, <2>1 DEF Need
    <3>3. entry' = Updated(firstCluster', fileSize')
      BY <1>5, <2>1
    <3> QED  BY <1>5, <2>4, <2>5, <2>6, <3>1, <3>2, <3>3 DEF Handle, Updated
  <2>8. Handled'
    BY <2>7 DEF Handled, Chains
  <2> QED  BY <2>2, <2>8, HandleInvNext
<1>8. CASE trunc
  <2>1. next' = Unlinked(next, ch, -1, L)
    <3>1. FreedFrom(entry.first, L) = Unlinked(next, ch, -1, L)
      BY <1>3, FreedIs
    <3>2. Cardinality(ChainOf(entry.first)) = L
      BY <1>3, ChainOfChain
    <3> QED  BY <1>4, <1>8, <3>1, <3>2 DEF FreedAll
  <2>2. firstCluster' = 0 /\ fileSize' = 0 /\ curPosition' = 0 /\ curCluster' = 0 /\ "dirDirty" \in flags'
        /\ "contiguous" \notin flags'
    BY <1>4, <1>8
  <2>3. -1 \in Int /\ -1 <= -1 /\ -1 <= L - 1 /\ L <= L - 1 - (-1) /\ L = L - 1 - (-1) /\ -1 + 1 = 0
    OBVIOUS
  <2> DEFINE d == UpTo(ch, -1)
  <2>4. /\ TableRight(next', foreign')
        /\ Chain(next', FirstOf(entry.first, -1), -1 + 1, d) /\ d \in Chains(-1 + 1)
        /\ Own(-1 + 1, d)'
        /\ Exact(L, ch) /\ L = L - 1 - (-1) /\ faults = 0 => Exact(-1 + 1, d)'
    BY <1>1, <1>3, <1>4, <2>1, <2>3, Unlinks
  <2> HIDE DEF d
  <2>5. Chain(next', 0, 0, d) /\ d \in Chains(0) /\ Own(0, d)' /\ (faults = 0 => Exact(0, d)')
    BY <1>3, <2>3, <2>4 DEF FirstOf
  <2>6. Heads(next', foreign', -1 + 1, ch, entry.first)
    <3>1. \A i \in 0 .. L - 1 : ch[i] \notin foreign'
      BY <1>3, <1>4 DEF Own
    <3>2. L > 0 => 0 \in 0 .. L - 1
      OBVIOUS
    <3>3. Heads(next, foreign', L, ch, entry.first)
      BY <1>3, <3>2 DEF Heads, Chain
    <3> QED  BY <1>3, <2>1, <2>3, <3>1, <3>3, UnlinkedHeads
  <2>7. entry'.first = 0 \/ Gone(entry.first)'
    BY <1>5, <2>3, <2>6 DEF Heads, Gone, GoneIn
  <2>8. FileTypes' /\ IsOpen'
    BY <1>1, <1>4, <1>5, <1>6, <2>4 DEF FileTypes, IsOpen, TableRight
  <2>9. Cursor(0, d)'
    BY <1>4, <2>2 DEF Cursor, Moving, InRead, InWrite
  <2>10. Handle(0, d)'
    <3>1. Chain(next, firstCluster, 0, d)'
      BY <2>2, <2>5
    <3>2. Need(fileSize)' <= 0
      <4>1. Need(0) = ClusterIndex(0) + 1 /\ ClusterIndex(0) = -1
        BY Places
      <4>2. Need(0) = 0
        BY <4>1
      <4> QED  BY <2>2, <4>2 DEF Need
    <3>3. Exact(0, d)'
      BY <1>4, <2>5 DEF Exact
    <3> QED  BY <1>5, <2>2, <2>5, <2>7, <2>9, <3>1, <3>2, <3>3 DEF Handle
  <2>11. Handled'
    BY <2>5, <2>10 DEF Handled, Chains
  <2> QED  BY <2>8, <2>11, HandleInvNext
<1> QED  BY <1>7, <1>8

\* OpenFails keeps FileInv.
LEMMA OpenFailsStep == ASSUME FileInv, OpenFails, Holds(entry.first, entry.size) PROVE FileInv'
<1>1. FileTypes /\ pc = "closed" /\ Holds(entry.first, entry.size) /\ ~failed
  BY DEF FileInv, FileTypes, OpenFails
<1>2. PICK L \in Nat : \E ch \in Chains(L) : Chain(next, entry.first, L, ch) /\ Own(L, ch)
  BY <1>1, OpensOn
<1>3. PICK ch \in Chains(L) : Chain(next, entry.first, L, ch) /\ Own(L, ch)
  BY <1>2
<1>4. PICK n \in 0 .. L - 1 : next' = FreedFrom(entry.first, n)
  <2>1. Cardinality(ChainOf(entry.first)) = L
    BY <1>3, ChainOfChain
  <2> QED  BY <2>1 DEF OpenFails
<1>5. next' = Unlinked(next, ch, -1, n) /\ n \in Nat
  BY <1>3, <1>4, FreedIs
<1>6. UNCHANGED <<foreign, entry, firstCluster, fileSize, curPosition, flags, pc, todo, failed>> /\ faults' = faults + 1
  BY DEF OpenFails, cursor, file, call, Fault
<1>7. -1 \in Int /\ -1 <= -1 /\ -1 <= L - 1 /\ n <= L - 1 - (-1)
  OBVIOUS
<1>8. TableRight(next', foreign') /\ Released(next, next', L, ch, -1, n)
  <2>1. TableRight(next', foreign')
    BY <1>1, <1>3, <1>5, <1>6, <1>7, Unlinks
  <2>2. Released(next, next', L, ch, -1, n)
    BY <1>3, <1>5, <1>7, UnlinkedChain
  <2> QED  BY <2>1, <2>2
<1>9. FileTypes' /\ faults' > 0
  BY <1>1, <1>6, <1>8 DEF FileTypes, TableRight
<1>10. \/ Gone(entry.first)'
       \/ Chain(next', entry'.first, L, ch) /\ Own(L, ch)' /\ Exact(L, ch)'
  <2>1. CASE n = 0
    <3>1. \A i \in 0 .. L - 1 : i \in -1 + n + 1 .. L - 1
      BY <2>1
    <3>2. \A i \in 0 .. L - 1 : next'[ch[i]] = next[ch[i]]
      BY <1>8, <3>1 DEF Released
    <3>3. Chain(next', entry.first, L, ch)
      BY <1>3, <3>2, ChainKept
    <3> QED  BY <1>3, <1>6, <1>9, <3>3 DEF Own, Exact
  <2>2. CASE n # 0
    <3>1. 0 \in -1 + 1 .. -1 + n /\ 0 \in 0 .. L - 1 /\ L # 0
      BY <2>2
    <3>2. next'[ch[0]] = 0 /\ ch[0] \in Clusters /\ entry.first = ch[0]
      BY <1>3, <1>8, <3>1 DEF Released, Chain
    <3> QED  BY <1>6, <3>2 DEF Gone
  <2> QED  BY <2>1, <2>2
<1> QED  BY <1>1, <1>6, <1>9, <1>10 DEF FileInv, Chains, Chain

-----------------------------------------------------------------------------
(* The invariant.                                                          *)

\* The invariant holds at first and is kept by every step.
LEMMA InitInv == Init => FileInv
<1> SUFFICES ASSUME Init PROVE FileInv
  OBVIOUS
<1> DEFINE ch == [i \in 0 .. -1 |-> 0]
<1>1. FileTypes
  <2>1. 0 \in 0 .. MaxSize
    BY Units
  <2>2. entry \in [used : BOOLEAN, first : Nat, size : 0 .. MaxSize]
    BY <2>1 DEF Init
  <2> QED  BY <2>1, <2>2 DEF Init, FileTypes
<1>2. Chain(next, 0, 0, ch) /\ ch \in [0 .. 0 - 1 -> Clusters]
  BY HeadedNone
<1>3. Own(0, ch) /\ Exact(0, ch)
  BY DEF Own, Exact, Init
<1>4. entry.first = 0 /\ pc = "closed" /\ ~failed
  BY DEF Init
<1> HIDE DEF ch
<1>5. Chain(next, entry.first, 0, ch) /\ Own(0, ch) /\ Exact(0, ch)
  BY <1>2, <1>3, <1>4
<1>6. \E L \in Nat : \E c \in [0 .. L - 1 -> Clusters] : Chain(next, entry.first, L, c) /\ Own(L, c) /\ Exact(L, c)
  BY <1>2, <1>5
<1> QED  BY <1>1, <1>4, <1>6 DEF FileInv

\* A stuttering step keeps FileInv.
LEMMA StutterStep == ASSUME FileInv, UNCHANGED vars PROVE FileInv'
<1>1. UNCHANGED <<next, foreign, entry, curPosition, curCluster, firstCluster, fileSize, flags, pc, todo, failed, faults>>
  BY DEF vars, volume, cursor, file, call
<1>2. FileTypes'
  BY <1>1 DEF FileInv, FileTypes
<1>3. ASSUME NEW L \in Nat, NEW ch \in Chains(L)
      PROVE  (Own(L, ch)' <=> Own(L, ch)) /\ (Exact(L, ch)' <=> Exact(L, ch)) /\ (Handle(L, ch) => Handle(L, ch)')
  <2>1. (Own(L, ch)' <=> Own(L, ch)) /\ (Exact(L, ch)' <=> Exact(L, ch)) /\ (Cursor(L, ch) => Cursor(L, ch)')
    BY <1>1 DEF Own, Exact, Cursor, Moving, InRead, InWrite
  <2>2. Chain(next, firstCluster, L, ch)' <=> Chain(next, firstCluster, L, ch)
    BY <1>1
  <2>3. Need(fileSize)' = Need(fileSize) /\ (Gone(entry.first)' <=> Gone(entry.first))
    BY <1>1 DEF Need, Gone
  <2> QED  BY <1>1, <2>1, <2>2, <2>3 DEF Handle, Straight, Updated
<1>4. CASE pc = "closed"
  <2>1. ~failed
    BY <1>4 DEF FileInv, FileTypes
  <2>2. \/ \E L \in Nat : \E ch \in Chains(L) : Chain(next, entry.first, L, ch) /\ Own(L, ch) /\ Exact(L, ch)
        \/ faults > 0 /\ Gone(entry.first)
    BY <1>4 DEF FileInv, Chains
  <2>3. \/ \E L \in Nat : \E ch \in Chains(L) : Chain(next, entry.first, L, ch)' /\ Own(L, ch)' /\ Exact(L, ch)'
        \/ faults > 0 /\ Gone(entry.first)'
    <3>1. CASE faults > 0 /\ Gone(entry.first)
      BY <1>1, <3>1 DEF Gone
    <3>2. CASE \E L \in Nat : \E ch \in Chains(L) : Chain(next, entry.first, L, ch) /\ Own(L, ch) /\ Exact(L, ch)
      <4>1. PICK L \in Nat : \E ch \in Chains(L) : Chain(next, entry.first, L, ch) /\ Own(L, ch) /\ Exact(L, ch)
        BY <3>2
      <4>2. PICK ch \in Chains(L) : Chain(next, entry.first, L, ch) /\ Own(L, ch) /\ Exact(L, ch)
        BY <4>1
      <4>3. Chain(next, entry.first, L, ch)'
        BY <1>1, <4>2
      <4> QED  BY <1>3, <4>2, <4>3
    <3> QED  BY <2>2, <3>1, <3>2
  <2> QED  BY <1>1, <1>2, <1>4, <2>1, <2>3 DEF FileInv, Chains
<1>5. CASE pc # "closed" /\ (~failed \/ faults = 0)
  <2>1. PICK L \in Nat : \E ch \in Chains(L) : Handle(L, ch)
    BY <1>5 DEF FileInv, Chains
  <2>2. Handled' /\ IsOpen'
    BY <1>1, <1>3, <1>5, <2>1 DEF Handled, Chains, IsOpen
  <2> QED  BY <1>2, <2>2, HandleInvNext
<1>6. CASE pc # "closed" /\ failed /\ faults # 0
  <2>1. faults > 0
    BY <1>6 DEF FileInv, FileTypes
  <2>2. EntryHeaded'
    BY <1>1, <1>6, <2>1 DEF FileInv, EntryHeaded, HeadedIn, Headed, Own, Gone, Chains
  <2>3. HandleHeaded'
    BY <1>1, <1>6, <2>1 DEF FileInv, HandleHeaded, Own, Gone, Chains, Straight
  <2>4. CallFailed'
    BY <1>1, <1>6 DEF CallFailed, IsOpen
  <2> QED  BY <1>2, <2>2, <2>3, <2>4, FailedInvNext
<1> QED  BY <1>4, <1>5, <1>6

-----------------------------------------------------------------------------
(* Steps before a broken entry is opened.                                  *)

\* No cluster of a chain is free.
LEMMA ChainTaken ==
  ASSUME NEW h, NEW L, NEW ch, Chain(next, h, L, ch) PROVE ~MeetsFree(h)
<1>1. ChainOf(h) = Held(L, ch)
  BY ChainOfChain
<1>2. ASSUME NEW k \in Held(L, ch) PROVE next[k] # 0
  <2>1. PICK i \in 0 .. L - 1 : ch[i] = k
    BY DEF Held
  <2>2. next[ch[i]] = IF i = L - 1 THEN EOC ELSE ch[i + 1]
    BY <2>1 DEF Chain
  <2>3. i # L - 1 => ch[i + 1] \in Clusters
    BY <2>1 DEF Chain
  <2> QED  BY <2>1, <2>2, <2>3, NoCluster
<1> QED  BY <1>1, <1>2 DEF MeetsFree

\* open does not run off a chain that holds the size.
LEMMA OpenStaysOn ==
  ASSUME FileInv, OpenRunsOff, Holds(entry.first, entry.size) PROVE FALSE
<1>1. entry.size \in Nat
  BY Units DEF FileInv, FileTypes
<1>2. ~MeetsFree(entry.first)
  BY DEF Holds, MeetsFree
<1>3. entry.size # 0 => Need(entry.size) - 1 \in 0 .. Need(entry.size) - 1
  <2>1. Need(entry.size) = ClusterIndex(entry.size) + 1 /\ (entry.size > 0 => ClusterIndex(entry.size) \in Nat)
    BY <1>1, Places
  <2> QED  BY <1>1, <2>1
<1>4. ~OffEnd(entry.first, entry.size)
  BY <1>3 DEF Holds, OffEnd
<1> QED  BY <1>2, <1>4 DEF OpenRunsOff

\* Nor do the calls on the open file run off its chain.
LEMMA RemoveStaysOn == ASSUME CloseOnError, FileInv, RemoveRunsOff PROVE FALSE
<1>1. PICK L \in Nat : \E ch \in Chains(L) : Handle(L, ch)
  BY Called DEF RemoveRunsOff
<1>2. PICK ch \in Chains(L) : Handle(L, ch)
  BY <1>1
<1> QED  BY <1>2, ChainTaken DEF Handle, RemoveRunsOff
\* truncate gives up the clusters behind that of the position.
LEMMA TruncateStaysOn == ASSUME CloseOnError, FileInv, TruncateRunsOff PROVE FALSE
<1>1. FileTypes /\ pc = "idle" /\ curPosition \in Nat /\ ToFree \in Clusters /\ MeetsFree(ToFree)
  BY Units DEF FileInv, FileTypes, TruncateRunsOff, Call
<1>2. PICK L \in Nat : \E ch \in Chains(L) : Handle(L, ch) /\ Cursor(L, ch)
  BY Called DEF TruncateRunsOff
<1>3. PICK ch \in Chains(L) : Handle(L, ch) /\ Cursor(L, ch)
  BY <1>2
<1>4. Chain(next, firstCluster, L, ch)
  BY <1>3 DEF Handle
<1>5. CASE curCluster = 0
  BY <1>1, <1>4, <1>5, ChainTaken DEF ToFree
<1>6. CASE curCluster # 0
  <2> DEFINE m == ClusterIndex(curPosition)
  <2>1. curPosition > 0
    BY <1>1, <1>3, <1>6 DEF Cursor, Moving
  <2>2. m \in Nat /\ m < L /\ curCluster = ch[m]
    BY <1>1, <1>3, <2>1, Places DEF Cursor, Moving
  <2> HIDE DEF m
  <2>3. next[ch[m]] = IF m = L - 1 THEN EOC ELSE ch[m + 1]
    BY <1>4, <2>2 DEF Chain
  <2>4. m # L - 1 /\ ToFree = ch[m + 1]
    BY <1>1, <1>6, <2>2, <2>3, NoCluster DEF ToFree
  <2>5. PICK k \in 0 .. L - 1 : k = m + 1
    BY <2>2, <2>4
  <2>6. Chain(next, ch[k], L - k, [i \in 0 .. L - k - 1 |-> ch[k + i]])
    BY <1>4, Suffix
  <2> QED  BY <1>1, <2>4, <2>5, <2>6, ChainTaken
<1> QED  BY <1>5, <1>6
\* seekSet finds the cluster of a position in the file.
LEMMA SeekStaysOn == ASSUME CloseOnError, FileInv, NEW x \in Nat, SeekRunsOff(x) PROVE FALSE
<1>1. FileTypes /\ pc = "idle" /\ curPosition \in Nat /\ fileSize \in Nat
  BY Units DEF FileInv, FileTypes, SeekRunsOff, Call
<1>2. PICK L \in Nat : \E ch \in Chains(L) : Handle(L, ch) /\ Cursor(L, ch)
  BY Called DEF SeekRunsOff
<1>3. PICK ch \in Chains(L) : Handle(L, ch) /\ Cursor(L, ch)
  BY <1>2
<1>4. x # 0 /\ x # curPosition /\ x <= fileSize
  BY DEF SeekRunsOff, ReadsLinks
<1>5. SeekCluster(x) = ch[ClusterIndex(x)] /\ ClusterIndex(x) \in 0 .. L - 1
  BY <1>1, <1>3, <1>4, SeekFinds
<1> QED  BY <1>5 DEF SeekRunsOff, Chains
\* The same of the seek of a write that appends.
LEMMA WriteStaysOn == ASSUME CloseOnError, FileInv, WriteRunsOff PROVE FALSE
<1>1. fileSize \in Nat
  BY Units DEF FileInv, FileTypes
<1> QED  BY <1>1, SeekStaysOn DEF WriteRunsOff

\* A broken entry that was opened is not forgotten.
LEMMA BrokenStays == ASSUME [Next]_vars PROVE ~broken' => ~broken
<1>1. CASE UNCHANGED vars
  BY <1>1 DEF vars
<1>2. CASE OpenNext
  BY <1>2 DEF OpenNext, Open, OpenFails, OpenRunsOff, Opened
<1>3. CASE CallNext
  BY <1>3 DEF CallNext
<1> QED  BY <1>1, <1>2, <1>3 DEF Next

\* The next-state relation before a broken entry is opened, action by action.
LEMMA Steps ==
  ASSUME CloseOnError, FileInv, Next, ~broken'
  PROVE  \/ /\ Holds(entry.first, entry.size)
            /\ \/ OpenFails
               \/ \E append \in SUBSET {"append"}, atEnd, trunc \in BOOLEAN : Open(append, atEnd, trunc)
         \/ SyncCall \/ Close \/ Remove \/ RemoveFails \/ Truncate \/ TruncateFails \/ ContiguousRange
         \/ \E n \in Sizes : \/ PreAllocate(n) \/ PreAllocateFails(n) \/ SeekSet(n) \/ SeekFails(n) \/ FSetPos(n)
                             \/ Write(n) \/ WriteRefused(n) \/ Read(n) \/ Get(n)
         \/ ClusterInChain \/ AddCluster \/ ChooseFails \/ Put \/ PutFails \/ WriteEnd
         \/ Fetch \/ FetchFails \/ GetFails \/ ReadEnd
         \/ \E c \in Clusters : OtherTakes(c) \/ OtherFrees(c)
<1>1. CASE OpenNext
  <2>1. Holds(entry.first, entry.size)
    BY <1>1 DEF OpenNext, Open, OpenFails, OpenRunsOff, Opened
  <2> QED  BY <1>1, <2>1, OpenStaysOn DEF OpenNext
<1>2. CASE SizeNext
  BY <1>2, RemoveStaysOn, TruncateStaysOn DEF SizeNext
<1>3. CASE SeekNext
  <2>1. Sizes \subseteq Nat
    BY Units DEF Sizes
  <2> QED  BY <1>3, <2>1, SeekStaysOn DEF SeekNext
<1>4. CASE WriteNext
  BY <1>4, WriteStaysOn DEF WriteNext
<1>5. CASE ReadNext \/ OtherNext
  BY <1>5 DEF ReadNext, OtherNext
<1> QED  BY <1>1, <1>2, <1>3, <1>4, <1>5 DEF Next, CallNext

\* Every step before that keeps FileInv.
LEMMA StepInv == ASSUME CloseOnError, FileInv, [Next]_vars, ~broken' PROVE FileInv'
<1>1. CASE UNCHANGED vars
  BY <1>1, StutterStep
<1>2. ASSUME NEW append \in SUBSET {"append"}, NEW atEnd \in BOOLEAN, NEW trunc \in BOOLEAN,
             Open(append, atEnd, trunc), Holds(entry.first, entry.size)
      PROVE  FileInv'
  BY <1>2, OpenStep
<1>3. CASE OpenFails /\ Holds(entry.first, entry.size)
  BY <1>3, OpenFailsStep
<1>4. CASE SyncCall \/ Close \/ Remove \/ RemoveFails \/ Truncate \/ TruncateFails \/ ContiguousRange
  BY <1>4, SyncCallStep, CloseStep, RemoveStep, RemoveFailsStep, TruncateStep, TruncateFailsStep,
     ContiguousRangeStep
<1>5. ASSUME NEW n \in Sizes, \/ PreAllocate(n) \/ PreAllocateFails(n) \/ SeekSet(n) \/ SeekFails(n) \/ FSetPos(n)
                              \/ Write(n) \/ WriteRefused(n) \/ Read(n) \/ Get(n)
      PROVE  FileInv'
  <2>1. n \in Nat
    BY Units DEF Sizes
  <2>2. CASE PreAllocate(n) \/ PreAllocateFails(n)
    BY <2>2, PreAllocateStep, PreAllocateFailsStep
  <2>3. CASE SeekSet(n) \/ SeekFails(n) \/ FSetPos(n)
    BY <2>3, SeekSetStep, SeekFailsStep, FSetPosStep
  <2>4. CASE Write(n) \/ WriteRefused(n) \/ Read(n) \/ Get(n)
    BY <2>1, <2>4, WriteStep, WriteRefusedStep, ReadStep, GetStep
  <2> QED  BY <1>5, <2>2, <2>3, <2>4
<1>6. CASE ClusterInChain \/ AddCluster \/ ChooseFails \/ Put \/ PutFails \/ WriteEnd
  BY <1>6, ClusterInChainStep, AddClusterStep, ChooseFailsStep, PutStep, PutFailsStep, WriteEndStep
<1>7. CASE Fetch \/ FetchFails \/ GetFails \/ ReadEnd
  BY <1>7, FetchStep, ReadFailsStep, ReadEndStep
<1>8. ASSUME NEW c \in Clusters, OtherTakes(c) \/ OtherFrees(c) PROVE FileInv'
  BY <1>8, OtherStep
<1> QED  BY <1>1, <1>2, <1>3, <1>4, <1>5, <1>6, <1>7, <1>8, Steps

\* A FatFile satisfies FileInv until an entry is opened whose chain does not hold its size, if
\* the program closes a file when a call on it failed.
THEOREM FileInvariance == ASSUME CloseOnError PROVE Spec => [](~broken => FileInv)
<1>1. (~broken => FileInv) /\ [Next]_vars => (~broken' => FileInv')
  BY StepInv, BrokenStays
<1>2. Init => (~broken => FileInv)
  BY InitInv
<1> QED  BY <1>1, <1>2, PTL DEF Spec

\* A cluster that links to none is a chain of one.
LEMMA ShortChain == ASSUME NEW h \in Clusters, next[h] \notin Clusters PROVE ChainOf(h) = {h}
<1> DEFINE S == {n \in Nat : n > 0 => Walk(h, n) \notin Clusters}
<1>1. Walk(h, 0) = h /\ \A n \in Nat : Walk(h, n + 1) = IF Walk(h, n) \in Clusters THEN next[Walk(h, n)] ELSE EOC
  <2>1. \A n \in Nat : Walk(h, n) = WalkIn(next, h, n) /\ Walk(h, n + 1) = WalkIn(next, h, n + 1)
    BY WalkNow
  <2> QED  BY <2>1, WalkStep
<1>2. 0 \in S
  OBVIOUS
<1>3. ASSUME NEW n \in Nat, n \in S PROVE n + 1 \in S
  <2>1. Walk(h, n + 1) = IF Walk(h, n) \in Clusters THEN next[Walk(h, n)] ELSE EOC
    BY <1>1
  <2>2. Walk(h, n + 1) \notin Clusters
    BY <1>1, <1>3, <2>1, NoCluster
  <2> QED  BY <2>2
<1> HIDE DEF S
<1>4. Nat \subseteq S
  BY <1>2, <1>3, Induction
<1>5. \A n \in 0 .. LastCluster : n > 0 => Walk(h, n) \notin Clusters
  BY <1>4, Units DEF S
<1>6. 0 \in 0 .. LastCluster
  BY Units
<1> QED  BY <1>1, <1>5, <1>6 DEF ChainOf

\* What the invariant says of each member.
LEMMA InvCurCluster == FileInv => CurClusterRight
<1> SUFFICES ASSUME FileInv, Sound
             PROVE  curCluster = IF pc \in {"put", "get"} /\ todo > 0
                                 THEN Walk(firstCluster, curPosition \div ClusterUnits)
                                 ELSE Before(curPosition)
  BY DEF CurClusterRight
<1>1. PICK L \in Nat : \E ch \in Chains(L) : Handle(L, ch)
  BY DEF FileInv, Sound, IsOpen, Chains
<1>2. PICK ch \in Chains(L) : Handle(L, ch)
  BY <1>1
<1>3. Cursor(L, ch) /\ Chain(next, firstCluster, L, ch) /\ curPosition \in Nat
  BY <1>2, Units DEF Handle, Sound, FileInv, FileTypes
<1>4. CASE Moving
  <2>1. curPosition \div ClusterUnits \in Nat
    BY <1>3, Places
  <2> DEFINE k == curPosition \div ClusterUnits
  <2>2. k < L /\ curCluster = ch[k]
    BY <1>3, <1>4 DEF Cursor
  <2> HIDE DEF k
  <2>3. Walk(firstCluster, k) = ch[k]
    BY <1>3, <2>1, <2>2, WalkFirst DEF k
  <2> QED  BY <1>4, <2>2, <2>3 DEF Moving, k
<1>5. CASE ~Moving
  <2>1. (curPosition = 0 => curCluster = 0)
        /\ (curPosition > 0 => ClusterIndex(curPosition) < L /\ curCluster = ch[ClusterIndex(curPosition)])
    BY <1>3, <1>5 DEF Cursor
  <2>2. curPosition > 0 => ClusterIndex(curPosition) \in Nat
    BY <1>3, Places
  <2>3. curPosition > 0 => Walk(firstCluster, ClusterIndex(curPosition)) = ch[ClusterIndex(curPosition)]
    BY <1>3, <2>1, <2>2, WalkFirst
  <2>4. curCluster = Before(curPosition)
    BY <1>3, <2>1, <2>3 DEF Before, ClusterIndex
  <2> QED  BY <1>5, <2>4 DEF Moving
<1> QED  BY <1>4, <1>5

\* CONTIGUOUS is set on a chain without gaps only.
LEMMA InvContiguous == FileInv => ContiguousRight
<1> SUFFICES ASSUME FileInv, IsOpen, "contiguous" \in flags,
                    NEW c \in ChainOf(firstCluster), next[c] \in Clusters
             PROVE  next[c] = c + 1
  BY DEF ContiguousRight
<1>1. CASE \E L \in Nat : \E ch \in Chains(L) : Chain(next, firstCluster, L, ch) /\ Straight(L, ch)
  <2>1. PICK L \in Nat : \E ch \in Chains(L) : Chain(next, firstCluster, L, ch) /\ Straight(L, ch)
    BY <1>1
  <2>2. PICK ch \in Chains(L) : Chain(next, firstCluster, L, ch) /\ Straight(L, ch)
    BY <2>1
  <2>3. c \in Held(L, ch)
    BY <2>2, ChainOfChain
  <2>4. PICK i \in 0 .. L - 1 : ch[i] = c
    BY <2>3 DEF Held
  <2>5. next[c] = IF i = L - 1 THEN EOC ELSE ch[i + 1]
    BY <2>2, <2>4 DEF Chain
  <2>6. i # L - 1
    BY <2>5, NoCluster
  <2>7. i \in 0 .. L - 2
    BY <2>6
  <2> QED  BY <2>2, <2>4, <2>5, <2>6, <2>7 DEF Straight
<1>2. CASE Gone(firstCluster)
  <2>1. firstCluster \in Clusters /\ next[firstCluster] \notin Clusters
    BY <1>2, NoCluster DEF Gone, FileInv, FileTypes
  <2> QED  BY <2>1, ShortChain
<1> QED  BY <1>1, <1>2 DEF FileInv, FileTypes, IsOpen, Handle, Chains

\* Without DIR_DIRTY the entry is what the handle says.
LEMMA InvEntry == FileInv => EntrySaved
BY DEF FileInv, EntrySaved, Sound, IsOpen, Handle

\* However many clusters and units there are, and whatever fails: between two steps a FatFile is
\* right about the cluster of its position, about its chain having no gap and about its entry,
\* if the program closes a file when a call on it failed.
THEOREM MembersAlwaysRight == ASSUME CloseOnError PROVE Spec => []MembersRight
<1>1. (~broken => FileInv) => MembersRight
  BY InvCurCluster, InvContiguous, InvEntry DEF MembersRight
<1> QED  BY <1>1, FileInvariance, PTL

-----------------------------------------------------------------------------
(* Units stored and delivered.                                             *)

\* A unit changes when its cluster is freed or when write stores a piece.
Storing == pc = "put" /\ todo > 0 /\ next' = next /\ \E s : data' = Stored(s)
\* How a step changes what clusters hold.
LEMMA DataSteps == ASSUME CloseOnError, FileInv, [Next]_vars, ~broken' PROVE data' = data \/ Forget \/ Storing
<1>1. CASE UNCHANGED vars
  BY <1>1 DEF vars, volume
<1>2. ASSUME NEW append \in SUBSET {"append"}, NEW atEnd \in BOOLEAN, NEW trunc \in BOOLEAN,
             Open(append, atEnd, trunc)
      PROVE  Forget
  BY <1>2 DEF Open
<1>3. CASE OpenFails \/ Remove \/ RemoveFails \/ Truncate \/ TruncateFails
  BY <1>3 DEF OpenFails, Remove, RemoveFails, Truncate, TruncateFails
<1>4. CASE SyncCall \/ Close \/ ContiguousRange
  BY <1>4 DEF SyncCall, Close, ContiguousRange, volume
<1>5. ASSUME NEW n \in Sizes,
             \/ PreAllocate(n) \/ PreAllocateFails(n) \/ SeekSet(n) \/ SeekFails(n) \/ FSetPos(n)
             \/ Write(n) \/ WriteRefused(n) \/ Read(n) \/ Get(n)
      PROVE  data' = data
  BY <1>5 DEF PreAllocate, PreAllocateFails, SeekSet, SeekFails, FSetPos, Write, WriteRefused, Read, Get, volume
<1>6. CASE Put
  BY <1>6 DEF Put, Storing
<1>7. CASE PutFails
  <2>1. pc = "put" /\ todo > 0 /\ next' = next
    BY <1>7 DEF PutFails
  <2>2. CASE Partial
    BY <1>7, <2>1, <2>2 DEF PutFails, Storing
  <2>3. CASE ~Partial
    BY <1>7, <2>1, <2>3 DEF PutFails, Storing
  <2> QED  BY <2>2, <2>3
<1>8. CASE ClusterInChain \/ AddCluster \/ ChooseFails \/ WriteEnd \/ Fetch \/ FetchFails \/ GetFails \/ ReadEnd
  BY <1>8 DEF ClusterInChain, AddCluster, ChooseFails, WriteEnd, Fetch, FetchFails, GetFails, ReadEnd, volume
<1>9. ASSUME NEW c \in Clusters, OtherTakes(c) \/ OtherFrees(c) PROVE data' = data
  BY <1>9 DEF OtherTakes, OtherFrees
<1> QED  BY <1>1, <1>2, <1>3, <1>4, <1>5, <1>6, <1>7, <1>8, <1>9, Steps

\* Every cluster has its units: nothing is stored outside the volume.
DataTypes == DOMAIN data = Clusters
\* What a cluster holds is a function on its units.
LEMMA DataInvariance == ASSUME CloseOnError PROVE Spec => [](~broken => DataTypes)
<1>1. Init => DataTypes
  BY DEF Init, DataTypes
<1>2. (~broken => FileInv) /\ (~broken => DataTypes) /\ [Next]_vars => (~broken' => DataTypes')
  <2> SUFFICES ASSUME FileInv, DataTypes, [Next]_vars, ~broken' PROVE DataTypes'
    BY BrokenStays
  <2>1. CASE data' = data
    BY <2>1 DEF DataTypes
  <2>2. CASE Forget
    BY <2>2 DEF DataTypes, Forget
  <2>3. CASE Storing
    <3>1. PICK s : data' = Stored(s)
      BY <2>3 DEF Storing
    <3> QED  BY <3>1 DEF DataTypes, Stored
  <2> QED  BY <2>1, <2>2, <2>3, DataSteps
<1> QED  BY <1>1, <1>2, FileInvariance, PTL DEF Spec

\* A cluster that stays another file's keeps its units and its link.
LEMMA ForeignKept ==
  ASSUME CloseOnError, FileInv, FileInv', DataTypes, [Next]_vars, ~broken', NEW c \in foreign, c \in foreign'
  PROVE  data'[c] = data[c] /\ next'[c] = next[c]
<1>1. c \in Clusters /\ next[c] = EOC /\ next'[c] = EOC
  BY DEF FileInv, FileTypes
<1>2. CASE Forget
  BY <1>1, <1>2, NoCluster DEF Forget
<1>3. CASE Storing
  <2>1. pc = "put" /\ todo > 0 /\ curPosition \in Nat
    BY <1>3, Units DEF Storing, FileInv, FileTypes
  <2>2. PICK L \in Nat : \E ch \in Chains(L) : Handle(L, ch) /\ Cursor(L, ch)
    BY <2>1, Looping
  <2>3. PICK ch \in Chains(L) : Handle(L, ch) /\ Cursor(L, ch)
    BY <2>2
  <2> DEFINE k == curPosition \div ClusterUnits
  <2>4. k \in Nat
    BY <2>1, Places
  <2>5. k < L /\ curCluster = ch[k]
    BY <2>1, <2>3 DEF Cursor, Moving
  <2> HIDE DEF k
  <2>6. curCluster \notin foreign
    BY <2>3, <2>4, <2>5 DEF Handle, Own
  <2>7. PICK s : data' = Stored(s)
    BY <1>3 DEF Storing
  <2>8. data'[c] = data[c]
    BY <1>1, <2>6, <2>7 DEF Stored, DataTypes
  <2> QED  BY <1>1, <2>8
<1> QED  BY <1>1, <1>2, <1>3, DataSteps

\* Whatever fails, no step of this file changes a unit or a link of another file's cluster until
\* an entry is opened whose chain does not hold its size, if the program closes a file when a call
\* on it failed.
THEOREM ForeignAlwaysIntact == ASSUME CloseOnError PROVE Spec => ForeignIntact
<1>1. (~broken => FileInv) /\ (~broken' => FileInv') /\ (~broken => DataTypes) /\ [Next]_vars
        => [~broken' => \A c \in foreign : c \in foreign' => data'[c] = data[c] /\ next'[c] = next[c]]_vars
  BY ForeignKept, BrokenStays
<1> QED  BY <1>1, FileInvariance, DataInvariance, PTL DEF Spec, ForeignIntact

\* Only a piece of a read delivers units.
LEMMA GotSteps ==
  ASSUME CloseOnError, FileInv, [Next]_vars, ~broken'
  PROVE  got' = got \/ got' = <<>> \/ \E n \in Sizes : Get(n)
<1>1. CASE UNCHANGED vars
  BY <1>1 DEF vars, call
<1>2. ASSUME NEW append \in SUBSET {"append"}, NEW atEnd \in BOOLEAN, NEW trunc \in BOOLEAN,
             Open(append, atEnd, trunc)
      PROVE  got' = got
  BY <1>2 DEF Open, call
<1>3. CASE OpenFails \/ Remove \/ RemoveFails \/ TruncateFails \/ Close
  BY <1>3 DEF OpenFails, Remove, RemoveFails, TruncateFails, Close, Fails, Closed, call
<1>4. ASSUME NEW first, NEW size, NEW fl, Sync(first, size, fl) PROVE got' = got \/ got' = <<>>
  BY <1>4 DEF Sync, Succeeds, Fails, call
<1>5. CASE SyncCall \/ Truncate
  BY <1>4, <1>5 DEF SyncCall, Truncate, Succeeds, call
<1>6. ASSUME NEW n \in Sizes, PreAllocate(n) PROVE got' = got \/ got' = <<>>
  BY <1>4, <1>6 DEF PreAllocate
<1>7. ASSUME NEW n \in Sizes,
             \/ PreAllocateFails(n) \/ SeekSet(n) \/ SeekFails(n) \/ FSetPos(n)
             \/ Write(n) \/ WriteRefused(n) \/ Read(n)
      PROVE  got' = got \/ got' = <<>>
  BY <1>7 DEF PreAllocateFails, SeekSet, SeekFails, FSetPos, Write, WriteRefused, Read, Succeeds, Fails, call
<1>8. CASE ContiguousRange \/ Put \/ PutFails \/ WriteEnd \/ ClusterInChain \/ AddCluster \/ ChooseFails
  BY <1>8 DEF ContiguousRange, Put, PutFails, WriteEnd, ClusterInChain, AddCluster, ChooseFails, Chosen,
              Succeeds, Fails, call
<1>9. CASE Fetch \/ FetchFails \/ GetFails \/ ReadEnd
  BY <1>9 DEF Fetch, FetchFails, GetFails, ReadEnd, Fails, call
<1>10. ASSUME NEW c \in Clusters, OtherTakes(c) \/ OtherFrees(c) PROVE got' = got
  BY <1>10 DEF OtherTakes, OtherFrees, call
<1> QED  BY <1>1, <1>2, <1>3, <1>5, <1>6, <1>7, <1>8, <1>9, <1>10, Steps

\* A piece ends in the file.
LEMMA PieceInFile == ASSUME FileInv, NEW n \in Nat, Get(n) PROVE curPosition' <= fileSize
<1>1. FileTypes /\ pc = "get" /\ todo > 0 /\ curPosition \in Nat /\ todo \in Nat /\ fileSize \in Nat
  BY Units DEF FileInv, FileTypes, Get
<1>2. PICK L \in Nat : \E ch \in Chains(L) : Cursor(L, ch)
  BY <1>1, Looping
<1>3. curPosition + todo <= fileSize
  BY <1>1, <1>2 DEF Cursor, InRead
<1>4. n \in 1 .. todo /\ curPosition' = curPosition + n
  BY <1>1, Pieces DEF Get, GetSize
<1> QED  BY <1>1, <1>3, <1>4

\* A read delivers no unit beyond the end of the file, whatever the clusters, the sizes and the
\* calls before it, if the program closes a file when a call on it failed.
THEOREM ReadsStopAtEnd == ASSUME CloseOnError PROVE Spec => ReadStopsAtEnd
<1>1. Sizes \subseteq Nat
  BY Units DEF Sizes
<1>2. (~broken => FileInv) /\ [Next]_vars
        => [~broken /\ got' # got /\ got' # <<>> => curPosition' <= fileSize]_vars
  <2> SUFFICES ASSUME FileInv, [Next]_vars, ~broken, got' # got, got' # <<>> PROVE curPosition' <= fileSize
    OBVIOUS
  <2>1. CASE ~broken'
    BY <1>1, <2>1, GotSteps, PieceInFile
  <2>2. CASE broken'
    <3>1. CASE UNCHANGED vars
      BY <3>1 DEF vars, call
    <3>2. CASE OpenNext
      BY <3>2 DEF OpenNext, Open, OpenFails, OpenRunsOff, call
    <3>3. CASE CallNext
      BY <2>2, <3>3 DEF CallNext
    <3> QED  BY <3>1, <3>2, <3>3 DEF Next
  <2> QED  BY <2>1, <2>2
<1> QED  BY <1>2, FileInvariance, PTL DEF Spec, ReadStopsAtEnd

-----------------------------------------------------------------------------
(* The bytes of a chain.                                                   *)

\* The units of a file of n units that starts with cluster h, in table t with the clusters' units d.
ContentIn(t, d, h, n) ==
  [i \in 1 .. n |->
     IF WalkIn(t, h, (i - 1) \div ClusterUnits) \in Clusters
     THEN d[WalkIn(t, h, (i - 1) \div ClusterUnits)][(i - 1) % ClusterUnits] ELSE NoByte]
\* The first n units of the clusters of ch.
UnitsOf(d, ch, n) == [i \in 1 .. n |-> d[ch[(i - 1) \div ClusterUnits]][(i - 1) % ClusterUnits]]
\* Holds in table t with the foreign clusters f.
HoldsIn(t, f, h, n) ==
  /\ \A k \in 0 .. Need(n) - 1 : WalkIn(t, h, k) \in Clusters
  /\ \A k \in 0 .. LastCluster : WalkIn(t, h, k) \in Clusters => t[WalkIn(t, h, k)] # 0 /\ WalkIn(t, h, k) \notin f

\* A number of units needs a number of clusters.
LEMMA NeedType == ASSUME NEW n \in Nat PROVE Need(n) \in Nat
<1>1. /\ ClusterIndex(n) \in Int /\ Need(n) = ClusterIndex(n) + 1
      /\ n = 0 => ClusterIndex(n) = -1
      /\ n > 0 => ClusterIndex(n) \in Nat
  BY Places
<1> QED  BY <1>1

\* The unit of index i is in the cluster of index (i - 1) \div ClusterUnits of the file.
LEMMA UnitIn ==
  ASSUME NEW n \in Nat, NEW i \in 1 .. n
  PROVE  /\ (i - 1) \div ClusterUnits \in Nat /\ (i - 1) \div ClusterUnits \in 0 .. Need(n) - 1
         /\ (i - 1) % ClusterUnits \in 0 .. ClusterUnits - 1
         /\ Need(n) \in Nat
<1>1. i - 1 \in Nat /\ i - 1 < n /\ i - 1 <= n
  OBVIOUS
<1>2. Need(n) \in Nat
  <2>1. n > 0 /\ n \in Nat
    BY <1>1
  <2> QED  BY <2>1, Places
<1>3. (i - 1) \div ClusterUnits \in 0 .. Need(n) - 1
  BY <1>1, <1>2, InFile
<1>4. (i - 1) % ClusterUnits \in 0 .. ClusterUnits - 1
  BY <1>1, Places
<1> QED  BY <1>2, <1>3, <1>4

\* What the program sees of the file, from the table.
LEMMA ContentNow == Length \in Nat => Content = ContentIn(next, data, First, Length)
<1> SUFFICES ASSUME Length \in Nat PROVE Content = ContentIn(next, data, First, Length)
  OBVIOUS
<1> DEFINE units == [n \in 0 .. Need(Length) - 1 |->
                       IF Walk(First, n) \in Clusters THEN data[Walk(First, n)] ELSE Junk]
<1>1. Content = [i \in 1 .. Length |-> units[(i - 1) \div ClusterUnits][(i - 1) % ClusterUnits]]
  BY DEF Content
<1>2. ASSUME NEW i \in 1 .. Length
      PROVE  units[(i - 1) \div ClusterUnits][(i - 1) % ClusterUnits]
               = IF WalkIn(next, First, (i - 1) \div ClusterUnits) \in Clusters
                 THEN data[WalkIn(next, First, (i - 1) \div ClusterUnits)][(i - 1) % ClusterUnits] ELSE NoByte
  <2> DEFINE k == (i - 1) \div ClusterUnits
             r == (i - 1) % ClusterUnits
  <2>1. k \in Nat /\ k \in 0 .. Need(Length) - 1 /\ r \in 0 .. ClusterUnits - 1
    BY UnitIn
  <2> HIDE DEF k, r
  <2>2. units[k] = IF Walk(First, k) \in Clusters THEN data[Walk(First, k)] ELSE Junk
    BY <2>1
  <2>3. Walk(First, k) = WalkIn(next, First, k)
    BY <2>1, WalkNow
  <2>4. Junk[r] = NoByte
    BY <2>1 DEF Junk
  <2> HIDE DEF units
  <2>5. units[k][r] = IF WalkIn(next, First, k) \in Clusters THEN data[WalkIn(next, First, k)][r] ELSE NoByte
    BY <2>2, <2>3, <2>4
  <2> QED  BY <2>5 DEF k, r
<1> HIDE DEF units
<1> QED  BY <1>1, <1>2 DEF ContentIn
\* The same after a step.
LEMMA ContentThen == (Length \in Nat => Content = ContentIn(next, data, First, Length))'
<1>1. Length \in Nat => Content = ContentIn(next, data, First, Length)
  BY ContentNow
<1> QED  BY <1>1, PTL

\* Lost, by the walk in the table.
LEMMA LostNow == Lost <=> ~HoldsIn(next, foreign, First, Size)
<1>1. Lost <=> ~Holds(First, Size)
  BY DEF Lost, First, Size
<1>2. \A k \in 0 .. LastCluster : Walk(First, k) = WalkIn(next, First, k)
  BY WalkNow, Units
<1>3. \A k \in 0 .. Need(Size) - 1 : Walk(First, k) = WalkIn(next, First, k)
  BY WalkNow
<1>4. (\A c \in ChainOf(First) : next[c] # 0 /\ c \notin foreign)
        <=> \A k \in 0 .. LastCluster : Walk(First, k) \in Clusters
                                          => next[Walk(First, k)] # 0 /\ Walk(First, k) \notin foreign
  BY DEF ChainOf
<1> QED  BY <1>1, <1>2, <1>3, <1>4 DEF Holds, HoldsIn
\* The same after a step.
LEMMA LostThen == (Lost <=> ~HoldsIn(next, foreign, First, Size))'
<1>1. Lost <=> ~HoldsIn(next, foreign, First, Size)
  BY LostNow
<1> QED  BY <1>1, PTL

\* With a chain that is long enough the content is the units of its clusters, one after another.
LEMMA ContentChain ==
  ASSUME NEW t, NEW d, NEW h, NEW L, NEW ch, Chain(t, h, L, ch), NEW n \in Nat, Need(n) <= L
  PROVE  ContentIn(t, d, h, n) = UnitsOf(d, ch, n)
<1> SUFFICES ASSUME NEW i \in 1 .. n
             PROVE  (IF WalkIn(t, h, (i - 1) \div ClusterUnits) \in Clusters
                     THEN d[WalkIn(t, h, (i - 1) \div ClusterUnits)][(i - 1) % ClusterUnits] ELSE NoByte)
                      = d[ch[(i - 1) \div ClusterUnits]][(i - 1) % ClusterUnits]
  BY DEF ContentIn, UnitsOf
<1> DEFINE k == (i - 1) \div ClusterUnits
<1>1. k \in Nat /\ k \in 0 .. Need(n) - 1 /\ Need(n) \in Nat
  BY UnitIn
<1>2. L \in Nat /\ k \in 0 .. L - 1 /\ k < L
  BY <1>1 DEF Chain
<1> HIDE DEF k
<1>3. WalkIn(t, h, k) = ch[k] /\ ch[k] \in Clusters
  <2>1. \A m \in Nat : WalkIn(t, h, m) = IF m < L THEN ch[m] ELSE IF m = 0 THEN 0 ELSE EOC
    BY ChainWalk
  <2>2. ch[k] \in Clusters
    BY <1>2 DEF Chain
  <2> QED  BY <1>1, <1>2, <2>1, <2>2
<1> QED  BY <1>3 DEF k

\* A chain that is long enough and no other file's holds the file.
LEMMA HoldsChain ==
  ASSUME NEW t, NEW f, NEW h, NEW L, NEW ch, Chain(t, h, L, ch), \A i \in 0 .. L - 1 : ch[i] \notin f,
         NEW n \in Nat, Need(n) <= L
  PROVE  HoldsIn(t, f, h, n)
<1>1. L \in Nat /\ \A i \in 0 .. L - 1 : ch[i] \in Clusters
  BY DEF Chain
<1>2. \A k \in Nat : WalkIn(t, h, k) = IF k < L THEN ch[k] ELSE IF k = 0 THEN 0 ELSE EOC
  BY ChainWalk
<1>3. Need(n) \in Nat
  BY NeedType
<1>4. ASSUME NEW k \in 0 .. Need(n) - 1 PROVE WalkIn(t, h, k) \in Clusters
  BY <1>1, <1>2, <1>3
<1>5. ASSUME NEW k \in 0 .. LastCluster, WalkIn(t, h, k) \in Clusters
      PROVE  t[WalkIn(t, h, k)] # 0 /\ WalkIn(t, h, k) \notin f
  <2>1. k \in Nat
    OBVIOUS
  <2>2. k < L /\ WalkIn(t, h, k) = ch[k] /\ k \in 0 .. L - 1
    BY <1>1, <1>2, <1>5, <2>1, NoCluster
  <2>3. t[ch[k]] = IF k = L - 1 THEN EOC ELSE ch[k + 1]
    BY <2>2 DEF Chain
  <2>4. k # L - 1 => ch[k + 1] \in Clusters
    BY <1>1, <2>2
  <2> QED  BY <2>2, <2>3, <2>4, NoCluster
<1> QED  BY <1>4, <1>5 DEF HoldsIn
\* One that is too short does not.
LEMMA HoldsNot ==
  ASSUME NEW t, NEW f, NEW h, NEW L, NEW ch, Chain(t, h, L, ch), NEW n \in Nat, L < Need(n)
  PROVE  ~HoldsIn(t, f, h, n)
<1>1. L \in Nat
  BY DEF Chain
<1>2. WalkIn(t, h, L) = IF L = 0 THEN 0 ELSE EOC
  BY <1>1, ChainWalk
<1>3. Need(n) \in Int
  BY Places
<1>4. L \in 0 .. Need(n) - 1 /\ WalkIn(t, h, L) \notin Clusters
  BY <1>1, <1>2, <1>3, NoCluster
<1> QED  BY <1>4 DEF HoldsIn
\* Nor does a first cluster that was freed.
LEMMA HoldsGone ==
  ASSUME NEW t, NEW f, NEW h, NEW n, GoneIn(t, f, h)
  PROVE  ~HoldsIn(t, f, h, n)
<1>1. WalkIn(t, h, 0) = h /\ h \in Clusters /\ 0 \in 0 .. LastCluster
  BY WalkStep, Units DEF GoneIn
<1> QED  BY <1>1 DEF HoldsIn, GoneIn

\* What the units of a cluster can be.
DataType == data \in [Clusters -> [0 .. ClusterUnits - 1 -> Nat]]
\* The content is a sequence of bytes, as long as the file.
LEMMA ContentType ==
  DataType /\ Length \in Nat
    => Content \in Seq(Nat) /\ Len(Content) = Length /\ DOMAIN Content = 1 .. Length
<1> SUFFICES ASSUME DataType, Length \in Nat
             PROVE  Content \in Seq(Nat) /\ Len(Content) = Length /\ DOMAIN Content = 1 .. Length
  OBVIOUS
<1> DEFINE n == Length
           g(i) == IF WalkIn(next, First, (i - 1) \div ClusterUnits) \in Clusters
                   THEN data[WalkIn(next, First, (i - 1) \div ClusterUnits)][(i - 1) % ClusterUnits] ELSE NoByte
<1>1. Content = [i \in 1 .. n |-> g(i)] /\ n \in Nat
  BY ContentNow DEF ContentIn
<1>2. ASSUME NEW i \in 1 .. n PROVE g(i) \in Nat
  <2>1. (i - 1) % ClusterUnits \in 0 .. ClusterUnits - 1
    BY UnitIn
  <2> QED  BY <2>1 DEF DataType, NoByte
<1> HIDE DEF g, n
<1>3. Content \in Seq(Nat) /\ Len(Content) = n /\ DOMAIN Content = 1 .. n
  BY <1>1, <1>2
<1> QED  BY <1>3 DEF n
\* The same after a step.
LEMMA ContentTypeThen ==
  (DataType /\ Length \in Nat
    => Content \in Seq(Nat) /\ Len(Content) = Length /\ DOMAIN Content = 1 .. Length)'
BY ContentType, PTL

\* An open file with its chain: what the program sees of it.
LEMMA Shows ==
  \A L \in Nat : \A ch \in Chains(L) :
    Length \in Nat /\ Size \in Nat /\ Chain(next, First, L, ch) /\ Own(L, ch) /\ Need(Length) <= L
      => Content = UnitsOf(data, ch, Length) /\ (Need(Size) <= L => ~Lost)
<1> TAKE L \in Nat
<1> TAKE ch \in Chains(L)
<1> SUFFICES ASSUME Length \in Nat, Size \in Nat, Chain(next, First, L, ch), Own(L, ch), Need(Length) <= L
             PROVE  Content = UnitsOf(data, ch, Length) /\ (Need(Size) <= L => ~Lost)
  OBVIOUS
<1>1. Content = UnitsOf(data, ch, Length)
  BY ContentNow, ContentChain
<1>2. Need(Size) <= L => ~Lost
  BY LostNow, HoldsChain DEF Own
<1> QED  BY <1>1, <1>2
\* The same after a step.
LEMMA ShowsThen ==
  (\A L \in Nat : \A ch \in Chains(L) :
    Length \in Nat /\ Size \in Nat /\ Chain(next, First, L, ch) /\ Own(L, ch) /\ Need(Length) <= L
      => Content = UnitsOf(data, ch, Length) /\ (Need(Size) <= L => ~Lost))'
BY Shows, PTL

-----------------------------------------------------------------------------
(* What the clusters hold.                                                 *)

\* Free clusters and those of other files hold nothing known; no call is left with work to do.
Unknown == \A c \in Clusters : next[c] = 0 \/ c \in foreign => data[c] = Junk
NothingPending ==
  /\ pc \in {"closed", "idle"} => todo = 0 /\ got = <<>>
  /\ InWrite => got = <<>>
UnitsInv == DataType /\ writes \in Nat /\ Unknown /\ NothingPending

\* The number of writes is a number.
LEMMA WritesSteps ==
  ASSUME CloseOnError, FileInv, [Next]_vars, ~broken', writes \in Nat
  PROVE  writes' \in Nat
<1>1. CASE UNCHANGED vars
  BY <1>1 DEF vars, call
<1>2. ASSUME NEW append \in SUBSET {"append"}, NEW atEnd \in BOOLEAN, NEW trunc \in BOOLEAN,
             Open(append, atEnd, trunc)
      PROVE  writes' = writes
  BY <1>2 DEF Open, call
<1>3. CASE OpenFails \/ Remove \/ RemoveFails \/ TruncateFails \/ Close
  BY <1>3 DEF OpenFails, Remove, RemoveFails, TruncateFails, Close, Fails, Closed, call
<1>4. ASSUME NEW first, NEW size, NEW fl, Sync(first, size, fl) PROVE writes' = writes
  BY <1>4 DEF Sync, Succeeds, Fails, call
<1>5. CASE SyncCall \/ Truncate
  BY <1>4, <1>5 DEF SyncCall, Truncate, Succeeds, call
<1>6. ASSUME NEW n \in Sizes, PreAllocate(n) PROVE writes' = writes
  BY <1>4, <1>6 DEF PreAllocate
<1>7. ASSUME NEW n \in Sizes,
             \/ PreAllocateFails(n) \/ SeekSet(n) \/ SeekFails(n) \/ FSetPos(n)
             \/ Write(n) \/ WriteRefused(n) \/ Read(n) \/ Get(n)
      PROVE  writes' = writes \/ writes' = writes + 1
  BY <1>7 DEF PreAllocateFails, SeekSet, SeekFails, FSetPos, Write, WriteRefused, Read, Get, Succeeds, Fails, call
<1>8. CASE ContiguousRange \/ Put \/ PutFails \/ WriteEnd \/ ClusterInChain \/ AddCluster \/ ChooseFails
  BY <1>8 DEF ContiguousRange, Put, PutFails, WriteEnd, ClusterInChain, AddCluster, ChooseFails, Chosen,
              Succeeds, Fails, call
<1>9. CASE Fetch \/ FetchFails \/ GetFails \/ ReadEnd
  BY <1>9 DEF Fetch, FetchFails, GetFails, ReadEnd, Fails, call
<1>10. ASSUME NEW c \in Clusters, OtherTakes(c) \/ OtherFrees(c) PROVE writes' = writes
  BY <1>10 DEF OtherTakes, OtherFrees, call
<1> QED  BY <1>1, <1>2, <1>3, <1>5, <1>6, <1>7, <1>8, <1>9, <1>10, Steps

\* A call that returned has nothing left to do.
LEMMA PendingSteps ==
  ASSUME CloseOnError, FileInv, [Next]_vars, ~broken', NothingPending
  PROVE  NothingPending'
<1> USE DEF NothingPending, InWrite
<1>1. CASE UNCHANGED vars
  BY <1>1 DEF vars, call
<1>2. ASSUME NEW append \in SUBSET {"append"}, NEW atEnd \in BOOLEAN, NEW trunc \in BOOLEAN,
             Open(append, atEnd, trunc)
      PROVE  NothingPending'
  BY <1>2 DEF Open, call
<1>3. CASE OpenFails \/ Remove \/ RemoveFails \/ TruncateFails \/ Close
  BY <1>3 DEF OpenFails, Remove, RemoveFails, TruncateFails, Close, Fails, Closed, call
<1>4. ASSUME NEW first, NEW size, NEW fl, Sync(first, size, fl), pc = "idle" PROVE NothingPending'
  BY <1>4 DEF Sync, Succeeds, Fails, call
<1>5. CASE SyncCall \/ Truncate
  BY <1>4, <1>5 DEF SyncCall, Truncate, Succeeds, call, Call
<1>6. ASSUME NEW n \in Sizes, PreAllocate(n) PROVE NothingPending'
  BY <1>4, <1>6 DEF PreAllocate, Call
<1>7. ASSUME NEW n \in Sizes, PreAllocateFails(n) \/ SeekSet(n) \/ SeekFails(n) \/ FSetPos(n)
      PROVE  NothingPending'
  BY <1>7 DEF PreAllocateFails, SeekSet, SeekFails, FSetPos, Succeeds, Fails, call, Call
<1>8. ASSUME NEW n \in Sizes, Write(n) \/ WriteRefused(n) \/ Read(n) \/ Get(n) PROVE NothingPending'
  BY <1>8 DEF Write, WriteRefused, Read, Get, ReadLoop, WriteLoop, Succeeds, Fails, call, Call
<1>9. CASE ContiguousRange \/ Put \/ PutFails \/ WriteEnd \/ ClusterInChain \/ AddCluster \/ ChooseFails
  BY <1>9 DEF ContiguousRange, Put, PutFails, WriteEnd, ClusterInChain, AddCluster, ChooseFails, Chosen,
              Succeeds, Fails, call, Call, WriteLoop
<1>10. CASE Fetch \/ FetchFails \/ GetFails \/ ReadEnd
  BY <1>10 DEF Fetch, FetchFails, GetFails, ReadEnd, Fails, call, InRead
<1>11. ASSUME NEW c \in Clusters, OtherTakes(c) \/ OtherFrees(c) PROVE NothingPending'
  BY <1>11 DEF OtherTakes, OtherFrees, call
<1> QED  BY <1>1, <1>2, <1>3, <1>5, <1>6, <1>7, <1>8, <1>9, <1>10, <1>11, Steps

\* A step that keeps all units frees no cluster and gives no other file one that was not free.
FreesNone == \A c \in Clusters : next'[c] = 0 \/ c \in foreign' => next[c] = 0 \/ c \in foreign
\* A step that frees a cluster forgets what it held.
LEMMA TableSteps ==
  ASSUME CloseOnError, FileInv, [Next]_vars, ~broken'
  PROVE  (Forget /\ foreign' = foreign) \/ FreesNone
<1> USE DEF FreesNone
<1> FileTypes
  BY DEF FileInv
<1>0. next' = next /\ foreign' = foreign => FreesNone
  OBVIOUS
<1>1. CASE UNCHANGED vars
  BY <1>0, <1>1 DEF vars, volume
<1>2. ASSUME NEW append \in SUBSET {"append"}, NEW atEnd \in BOOLEAN, NEW trunc \in BOOLEAN,
             Open(append, atEnd, trunc)
      PROVE  Forget /\ foreign' = foreign
  BY <1>2 DEF Open
<1>3. CASE OpenFails \/ Remove \/ RemoveFails \/ Truncate \/ TruncateFails
  BY <1>3 DEF OpenFails, Remove, RemoveFails, Truncate, TruncateFails
<1>4. CASE SyncCall \/ Close \/ ContiguousRange
  BY <1>0, <1>4 DEF SyncCall, Close, ContiguousRange, volume
<1>5. ASSUME NEW n \in Sizes, SeekSet(n) \/ SeekFails(n) \/ FSetPos(n) \/ Write(n) \/ WriteRefused(n) \/ Read(n) \/ Get(n)
      PROVE  FreesNone
  BY <1>0, <1>5 DEF SeekSet, SeekFails, FSetPos, Write, WriteRefused, Read, Get, volume
<1>6. ASSUME NEW n \in Sizes, PreAllocate(n) PROVE FreesNone
  <2>1. PICK c \in Clusters : LET run == Run(c, Need(n)) IN
          next' = [k \in Clusters |-> IF k \notin run THEN next[k] ELSE IF k + 1 \in run THEN k + 1 ELSE EOC]
    BY <1>6 DEF PreAllocate
  <2>2. foreign' = foreign
    BY <1>6 DEF PreAllocate
  <2>3. ASSUME NEW k \in Clusters, next'[k] = 0 PROVE next[k] = 0
    <3>1. k + 1 # 0
      BY NoCluster
    <3> QED  BY <2>1, <2>3, <3>1, NoCluster
  <2> QED  BY <2>2, <2>3
<1>7. ASSUME NEW n \in Sizes, PreAllocateFails(n) PROVE FreesNone
  BY <1>7, NoCluster DEF PreAllocateFails
<1>8. CASE Put \/ PutFails \/ ClusterInChain \/ WriteEnd \/ Fetch \/ FetchFails \/ GetFails \/ ReadEnd
  BY <1>0, <1>8 DEF Put, PutFails, ClusterInChain, WriteEnd, Fetch, FetchFails, GetFails, ReadEnd, volume
<1>9. CASE AddCluster
  BY <1>9, NoCluster DEF AddCluster, Free
<1>10. CASE ChooseFails
  BY <1>10, NoCluster DEF ChooseFails, Free, FileTypes
<1>11. ASSUME NEW c \in Clusters, OtherTakes(c) \/ OtherFrees(c) PROVE FreesNone
  BY <1>11, NoCluster DEF OtherTakes, OtherFrees, Free, FileTypes
<1> QED  BY <1>1, <1>2, <1>3, <1>4, <1>5, <1>6, <1>7, <1>8, <1>9, <1>10, <1>11, Steps

\* The current cluster of a write that is about to store a piece is one of the file's.
LEMMA StoringIn ==
  ASSUME FileInv, pc = "put", todo > 0
  PROVE  curCluster \in Clusters /\ curCluster \notin foreign /\ next[curCluster] # 0
<1>1. curPosition \in Nat
  BY Units DEF FileInv, FileTypes
<1>2. PICK L \in Nat : \E ch \in Chains(L) : Handle(L, ch) /\ Cursor(L, ch)
  BY Looping
<1>3. PICK ch \in Chains(L) : Handle(L, ch) /\ Cursor(L, ch)
  BY <1>2
<1> DEFINE k == curPosition \div ClusterUnits
<1>4. k \in Nat
  BY <1>1, Places
<1>5. k < L /\ curCluster = ch[k]
  BY <1>3 DEF Cursor, Moving
<1> HIDE DEF k
<1>6. curCluster \in Clusters /\ curCluster \notin foreign
  BY <1>3, <1>4, <1>5 DEF Handle, Own, Chains
<1>7. next[ch[k]] = IF k = L - 1 THEN EOC ELSE ch[k + 1]
  BY <1>3, <1>4, <1>5 DEF Handle, Chain
<1>8. k # L - 1 => ch[k + 1] \in Clusters
  BY <1>4, <1>5 DEF Chains
<1> QED  BY <1>5, <1>6, <1>7, <1>8, NoCluster

\* Every step keeps UnitsInv.
LEMMA UnitsStep ==
  ASSUME CloseOnError, FileInv, FileInv', UnitsInv, [Next]_vars, ~broken'
  PROVE  UnitsInv'
<1>1. writes' \in Nat /\ NothingPending'
  BY WritesSteps, PendingSteps DEF UnitsInv
<1>2. Junk \in [0 .. ClusterUnits - 1 -> Nat]
  BY DEF Junk, NoByte
<1>3. CASE Forget /\ (foreign' = foreign \/ FreesNone)
  <2>1. DataType'
    BY <1>2, <1>3 DEF Forget, DataType, UnitsInv
  <2>2. ASSUME NEW c \in Clusters, next'[c] = 0 \/ c \in foreign' PROVE data'[c] = Junk
    <3>1. next'[c] = 0 \/ next[c] = 0 \/ c \in foreign
      BY <1>3, <2>2 DEF FreesNone
    <3>2. data'[c] = IF next'[c] = 0 THEN Junk ELSE data[c]
      BY <1>3 DEF Forget
    <3> QED  BY <3>1, <3>2 DEF UnitsInv, Unknown
  <2> QED  BY <1>1, <2>1, <2>2 DEF UnitsInv, Unknown
<1>4. CASE FreesNone /\ data' = data
  BY <1>1, <1>4 DEF UnitsInv, DataType, Unknown, FreesNone
<1>5. CASE Storing
  <2>1. PICK s : data' = Stored(s)
    BY <1>5 DEF Storing
  <2>2. pc = "put" /\ todo > 0 /\ next' = next
    BY <1>5 DEF Storing
  <2>3. curCluster \in Clusters /\ curCluster \notin foreign /\ next[curCluster] # 0
    BY <2>2, StoringIn
  <2>4. DataType'
    BY <2>1, <2>3 DEF Stored, DataType, UnitsInv, NoByte
  <2>5. \A c \in Clusters : c # curCluster => data'[c] = data[c]
    BY <2>1 DEF Stored, DataType, UnitsInv
  <2>6. FreesNone
    <3>1. foreign' = foreign => FreesNone
      BY <2>2 DEF FreesNone
    <3> QED  BY <3>1, TableSteps DEF FileInv
  <2>7. Unknown'
    BY <2>2, <2>3, <2>5, <2>6 DEF FreesNone, Unknown, UnitsInv
  <2> QED  BY <1>1, <2>4, <2>7 DEF UnitsInv
<1> QED  BY <1>3, <1>4, <1>5, DataSteps, TableSteps DEF FileInv

-----------------------------------------------------------------------------
(* The mapping: calls that leave the bytes alone.                          *)

Position == IF Sound THEN curPosition ELSE 0
Appending == IsOpen /\ "append" \in flags
\* The ByteFile a FatFile is before a broken entry is opened.
Whole == INSTANCE ByteFile WITH
  mode <- Mode, content <- Content, size <- Size, position <- Position, appends <- Appending,
  left <- todo, got <- got, faults <- faults, limit <- MaxSize
\* Behind the position a preallocated file holds nothing known.
ZerosAhead == Sound /\ "preallocate" \in flags => \A i \in 1 .. Length : i > curPosition => Content[i] = NoByte
\* What is proved of each step of a FatFile: it is one of a ByteFile, or none.
Implements == (Whole!Next \/ UNCHANGED Whole!vars) /\ ZerosAhead'

\* When nothing the program sees has changed the ByteFile stutters.
LEMMA Stutters ==
  ASSUME UNCHANGED <<Mode, Content, Size, Position, Appending, todo, got, faults>>
  PROVE  UNCHANGED Whole!vars
BY DEF Whole!vars, Position, Appending

\* A step that leaves the file's clusters, their units and its length alone.
LEMMA Untouched ==
  ASSUME UNCHANGED <<next, foreign, data>>, First' = First, Length' = Length, Length \in Nat, Size' = Size
  PROVE  Content' = Content /\ (Lost' <=> Lost)
BY ContentNow, ContentThen, LostNow, LostThen

\* What the program sees when it calls.
LEMMA Seen ==
  ASSUME CloseOnError, FileInv, UnitsInv, Call
  PROVE  /\ FileTypes /\ pc = "idle" /\ ~failed /\ IsOpen /\ Sound /\ ~InWrite /\ ~InRead
         /\ ~Lost /\ Mode = "idle" /\ First = firstCluster /\ Size = fileSize /\ Length = fileSize
         /\ fileSize \in Nat /\ curPosition \in 0 .. fileSize /\ Position = curPosition
         /\ todo = 0 /\ got = <<>>
         /\ Content \in Seq(Nat) /\ Len(Content) = fileSize /\ DOMAIN Content = 1 .. fileSize
         /\ \E L \in Nat : \E ch \in Chains(L) : /\ Handle(L, ch) /\ Cursor(L, ch) /\ Need(fileSize) <= L
                                                 /\ Content = UnitsOf(data, ch, fileSize)
<1>1. FileTypes /\ pc = "idle" /\ ~failed
  BY DEF FileInv, FileTypes, Call
<1>2. IsOpen /\ Sound /\ ~InWrite /\ ~InRead
  BY <1>1 DEF IsOpen, Sound, InWrite, InRead
<1>3. First = firstCluster /\ Size = fileSize /\ Length = fileSize
  BY <1>2 DEF First, Size, Length
<1>4. fileSize \in Nat /\ curPosition \in Nat
  BY <1>1, Units DEF FileTypes
<1>5. PICK L \in Nat : \E ch \in Chains(L) : Handle(L, ch) /\ Cursor(L, ch)
  BY Called
<1>6. PICK ch \in Chains(L) : Handle(L, ch) /\ Cursor(L, ch)
  BY <1>5
<1>7. curPosition <= fileSize
  BY <1>1, <1>6 DEF Cursor
<1>8. Need(fileSize) <= L /\ Chain(next, First, L, ch) /\ Own(L, ch)
  BY <1>3, <1>6 DEF Handle
<1>9. Content = UnitsOf(data, ch, fileSize) /\ ~Lost
  BY <1>3, <1>4, <1>8, Shows
<1>10. Mode = "idle" /\ Position = curPosition
  BY <1>1, <1>2, <1>9 DEF Mode, Position
<1>11. todo = 0 /\ got = <<>>
  BY <1>1 DEF UnitsInv, NothingPending
<1>12. Content \in Seq(Nat) /\ Len(Content) = fileSize /\ DOMAIN Content = 1 .. fileSize
  BY <1>3, <1>4, ContentType DEF UnitsInv
<1> QED  BY <1>1, <1>2, <1>3, <1>4, <1>6, <1>7, <1>8, <1>9, <1>10, <1>11, <1>12

\* What it sees of a call that returned.
LEMMA Returned ==
  ASSUME pc' = "idle"
  PROVE  /\ IsOpen' /\ ~InWrite' /\ ~InRead' /\ First' = firstCluster' /\ Size' = fileSize' /\ Length' = fileSize'
         /\ Mode' = IF Lost' THEN "lost" ELSE IF failed' THEN "error" ELSE "idle"
         /\ Position' = IF failed' THEN 0 ELSE curPosition'
         /\ Sound' <=> ~failed'
BY DEF IsOpen, InWrite, InRead, First, Size, Length, Mode, Position, Sound

\* A call that failed and changed no byte.
LEMMA FailsSame ==
  ASSUME CloseOnError, FileInv, UnitsInv, Call, Fails, UNCHANGED <<next, foreign, data, firstCluster, fileSize>>,
         faults' = faults \/ faults' = faults + 1, "append" \in flags' <=> "append" \in flags
  PROVE  Implements
<1>1. pc' = "idle" /\ failed' = TRUE /\ todo' = 0 /\ got' = <<>>
  BY DEF Fails
<1>2. Content' = Content /\ (Lost' <=> Lost)
  BY <1>1, Seen, Returned, Untouched
<1>3. Mode = "idle" /\ Mode' = "error" /\ Size' = Size
  BY <1>1, <1>2, Seen, Returned
<1>4. Position' = 0 /\ ~Sound'
  BY <1>1, Returned
<1>5. Appending' <=> Appending
  BY <1>1, Seen, Returned DEF Appending
<1>6. Whole!Next
  BY <1>1, <1>2, <1>3, <1>4, <1>5
     DEF Whole!Next, Whole!Fails, Whole!AtRest, Whole!Same, Whole!Fault, Whole!NoFault,
         Position, Appending
<1> QED  BY <1>4, <1>6 DEF Implements, ZerosAhead

\* A call that succeeded and moved nothing but the position.
LEMMA SucceedsSame ==
  ASSUME CloseOnError, FileInv, UnitsInv, ZerosAhead, Call, Succeeds, NoFault,
         UNCHANGED <<next, foreign, data, firstCluster, fileSize>>,
         curPosition' \in 0 .. fileSize, "append" \in flags' <=> "append" \in flags,
         "preallocate" \in flags' => "preallocate" \in flags /\ curPosition' = curPosition
  PROVE  Implements
<1>1. pc' = "idle" /\ failed' = FALSE /\ todo' = 0 /\ got' = <<>> /\ faults' = faults
  BY Seen DEF Succeeds, call, NoFault
<1>2. Content' = Content /\ (Lost' <=> Lost)
  BY <1>1, Seen, Returned, Untouched
<1>3. Mode = "idle" /\ Mode' = "idle" /\ Size' = Size /\ Size = fileSize /\ Length' = Length
  BY <1>1, <1>2, Seen, Returned
<1>4. Position' = curPosition' /\ Sound' /\ Sound
  BY <1>1, Seen, Returned
<1>5. Appending' <=> Appending
  BY <1>1, Seen, Returned DEF Appending
<1>6. Whole!Next
  BY <1>1, <1>2, <1>3, <1>4, <1>5
     DEF Whole!Next, Whole!Seek, Whole!AtRest, Whole!Same, Whole!Fault, Whole!NoFault,
         Position, Appending
<1>7. ZerosAhead'
  BY <1>2, <1>3, <1>4 DEF ZerosAhead
<1> QED  BY <1>6, <1>7 DEF Implements

\* SyncCall does to the bytes what the ByteFile allows, or leaves them alone.
LEMMA SyncCallImplements == ASSUME CloseOnError, FileInv, UnitsInv, ZerosAhead, SyncCall PROVE Implements
<1>1. Call /\ UNCHANGED <<next, foreign, data, firstCluster, fileSize, curPosition>> /\ Sync(firstCluster, fileSize, flags)
  BY DEF SyncCall, cursor, file
<1>2. ("append" \in flags' <=> "append" \in flags) /\ ("preallocate" \in flags' => "preallocate" \in flags)
  BY <1>1 DEF Sync
<1>3. \/ Succeeds /\ NoFault
      \/ Fails /\ faults' = faults + 1
  BY <1>1 DEF Sync, Fault
<1>4. curPosition' \in 0 .. fileSize
  BY <1>1, Seen
<1> QED  BY <1>1, <1>2, <1>3, <1>4, FailsSame, SucceedsSame

\* ContiguousRange does to the bytes what the ByteFile allows, or leaves them alone.
LEMMA ContiguousRangeImplements ==
  ASSUME CloseOnError, FileInv, UnitsInv, ZerosAhead, ContiguousRange PROVE Implements
<1>1. Call /\ UNCHANGED <<next, foreign, data, firstCluster, fileSize, curPosition>> /\ Succeeds /\ NoFault
  BY DEF ContiguousRange, volume, cursor, file
<1>2. ("append" \in flags' <=> "append" \in flags) /\ ("preallocate" \in flags' => "preallocate" \in flags)
  BY DEF ContiguousRange
<1>3. curPosition' \in 0 .. fileSize
  BY <1>1, Seen
<1> QED  BY <1>1, <1>2, <1>3, SucceedsSame

\* Where seekSet moves the position and what it does to the flags.
LEMMA Sought ==
  ASSUME NEW x, SeekTo(x)
  PROVE  /\ curPosition' = x /\ ("append" \in flags' <=> "append" \in flags)
         /\ "preallocate" \in flags' => "preallocate" \in flags /\ curPosition' = curPosition
BY DEF SeekTo, cursor

\* seekSet and fsetpos move the position and change no byte.
LEMMA SeekImplements ==
  ASSUME CloseOnError, FileInv, UnitsInv, ZerosAhead, NEW x \in Sizes, SeekSet(x) \/ SeekFails(x) \/ FSetPos(x)
  PROVE  Implements
<1>0. x \in Nat
  BY Units DEF Sizes
<1>1. CASE SeekSet(x)
  <2>1. Call /\ UNCHANGED <<next, foreign, data, firstCluster, fileSize>> /\ Succeeds /\ NoFault /\ SeekTo(x) /\ x <= fileSize
    BY <1>1 DEF SeekSet, volume, file
  <2>2. curPosition' \in 0 .. fileSize
    BY <1>0, <2>1, Sought, Seen
  <2> QED  BY <2>1, <2>2, Sought, SucceedsSame
<1>2. CASE SeekFails(x)
  <2>1. Call /\ UNCHANGED <<next, foreign, data, firstCluster, fileSize, flags>> /\ Fails /\ faults' = faults + 1
    BY <1>2 DEF SeekFails, volume, file, Fault
  <2> QED  BY <2>1, FailsSame
<1>3. CASE FSetPos(x)
  <2>1. Call /\ UNCHANGED <<next, foreign, data, firstCluster, fileSize, flags>> /\ Succeeds /\ NoFault
        /\ x <= fileSize /\ curPosition' = x /\ "preallocate" \notin flags
    BY <1>3 DEF FSetPos, volume, file
  <2>2. curPosition' \in 0 .. fileSize
    BY <1>0, <2>1, Seen
  <2> QED  BY <2>1, <2>2, SucceedsSame
<1> QED  BY <1>1, <1>2, <1>3

\* WriteRefused does to the bytes what the ByteFile allows, or leaves them alone.
LEMMA WriteRefusedImplements ==
  ASSUME CloseOnError, FileInv, UnitsInv, ZerosAhead, NEW n \in Nat, WriteRefused(n) PROVE Implements
<1>1. Call /\ UNCHANGED <<next, foreign, data, firstCluster, fileSize>> /\ Fails
  BY DEF WriteRefused, volume, file
<1>2. (faults' = faults \/ faults' = faults + 1) /\ ("append" \in flags' <=> "append" \in flags)
  BY Sought DEF WriteRefused, Fault, NoFault
<1> QED  BY <1>1, <1>2, FailsSame

-----------------------------------------------------------------------------
(* The mapping: read, and the beginning and end of write.                  *)

\* An open file with which nothing has gone wrong holds its clusters.
LEMMA SoundHolds == FileInv /\ Sound => ~Lost
<1> SUFFICES ASSUME FileInv, Sound PROVE ~Lost
  OBVIOUS
<1>1. PICK L \in Nat : \E ch \in Chains(L) : Handle(L, ch)
  BY DEF FileInv, Sound, IsOpen, Chains
<1>2. PICK ch \in Chains(L) : Handle(L, ch)
  BY <1>1
<1>3. First = firstCluster /\ Size = fileSize /\ fileSize \in Nat
  BY Units DEF First, Size, Sound, FileInv, FileTypes
<1> QED  BY <1>2, <1>3, LostNow, HoldsChain DEF Handle, Own
\* The same after a step.
LEMMA SoundHoldsThen == (FileInv /\ Sound => ~Lost)'
BY SoundHolds, PTL

\* What the program sees inside write and read.
LEMMA Looks ==
  ASSUME FileInv, UnitsInv, pc \notin {"closed", "idle"}
  PROVE  /\ FileTypes /\ ~failed /\ IsOpen /\ Sound /\ ~Lost /\ (InWrite <=> ~InRead)
         /\ Mode = IF InWrite THEN "write" ELSE "read"
         /\ First = firstCluster /\ Size = fileSize /\ Position = curPosition
         /\ fileSize \in Nat /\ curPosition \in Nat /\ todo \in Nat /\ Length \in Nat
         /\ Length = IF InWrite /\ curPosition > fileSize THEN curPosition ELSE fileSize
         /\ InWrite => got = <<>> /\ curPosition + todo <= MaxSize
         /\ InRead => curPosition + todo <= fileSize
         /\ Content \in Seq(Nat) /\ Len(Content) = Length /\ DOMAIN Content = 1 .. Length
         /\ \E L \in Nat : \E ch \in Chains(L) : /\ Handle(L, ch) /\ Cursor(L, ch) /\ Need(Length) <= L
                                                 /\ Content = UnitsOf(data, ch, Length)
<1>1. FileTypes /\ ~failed
  BY DEF FileInv, FileTypes
<1>2. IsOpen /\ Sound /\ (InWrite <=> ~InRead)
  BY <1>1 DEF IsOpen, Sound, InWrite, InRead, FileTypes
<1>3. First = firstCluster /\ Size = fileSize /\ Length = IF InWrite /\ curPosition > fileSize THEN curPosition ELSE fileSize
  BY <1>2 DEF First, Size, Length
<1>4. fileSize \in Nat /\ curPosition \in Nat /\ Length \in Nat /\ todo \in Nat
  BY <1>1, <1>3, Units DEF FileTypes
<1>5. PICK L \in Nat : \E ch \in Chains(L) : Handle(L, ch) /\ Cursor(L, ch)
  BY Looping
<1>6. PICK ch \in Chains(L) : Handle(L, ch) /\ Cursor(L, ch)
  BY <1>5
<1>7. Need(Length) <= L
  <2>1. CASE Length = fileSize
    BY <1>6, <2>1 DEF Handle
  <2>2. CASE Length = curPosition /\ curPosition > 0
    <3> DEFINE k == ClusterIndex(curPosition)
               j == curPosition \div ClusterUnits
    <3>1. k \in Int /\ Need(curPosition) = k + 1 /\ j \in Nat /\ (k = j - 1 \/ k = j)
      BY <1>4, Places
    <3>2. j < L \/ k < L
      BY <1>6, <2>2 DEF Cursor
    <3> HIDE DEF k, j
    <3> QED  BY <2>2, <3>1, <3>2
  <2> QED  BY <1>3, <1>4, <2>1, <2>2
<1>8. Content = UnitsOf(data, ch, Length)
  BY <1>3, <1>4, <1>6, <1>7, Shows DEF Handle
<1>9. ~Lost /\ Mode = (IF InWrite THEN "write" ELSE "read") /\ Position = curPosition
  BY <1>2, SoundHolds DEF Mode, Position
<1>10. /\ InWrite => got = <<>> /\ curPosition + todo <= MaxSize
       /\ InRead => curPosition + todo <= fileSize
  BY <1>6 DEF UnitsInv, NothingPending, Cursor
<1>11. Content \in Seq(Nat) /\ Len(Content) = Length /\ DOMAIN Content = 1 .. Length
  BY <1>4, ContentType DEF UnitsInv
<1> QED  BY <1>1, <1>2, <1>3, <1>4, <1>6, <1>7, <1>8, <1>9, <1>10, <1>11

\* What it sees after a step inside them.
LEMMA LooksThen ==
  ASSUME pc' \notin {"closed", "idle"}, pc' \in {"next", "put", "fetch", "get"}, ~failed'
  PROVE  /\ IsOpen' /\ Sound' /\ (InWrite' <=> pc' \in {"next", "put"}) /\ (InRead' <=> pc' \in {"fetch", "get"})
         /\ Mode' = IF InWrite' THEN "write" ELSE "read"
         /\ First' = firstCluster' /\ Size' = fileSize' /\ Position' = curPosition'
         /\ Length' = IF InWrite' /\ curPosition' > fileSize' THEN curPosition' ELSE fileSize'
BY DEF IsOpen, Sound, InWrite, InRead, Mode, First, Size, Position, Length

\* A step inside a loop that the program does not see.
LEMMA LoopStutters ==
  ASSUME FileInv, UnitsInv, ZerosAhead, pc \in {"next", "put", "fetch", "get"}, pc' \in {"next", "put", "fetch", "get"},
         pc' \in {"next", "put"} <=> pc \in {"next", "put"}, ~failed',
         UNCHANGED <<curPosition, fileSize, todo, got, faults>>, Content' = Content,
         "append" \in flags' <=> "append" \in flags, "preallocate" \in flags' => "preallocate" \in flags
  PROVE  Implements
<1>1. Mode' = Mode /\ Size' = Size /\ Length' = Length /\ Position' = Position /\ (IsOpen' <=> IsOpen) /\ (Sound' <=> Sound)
  BY Looks, LooksThen DEF InWrite, InRead
<1>2. Appending' = Appending
  BY <1>1 DEF Appending
<1>3. UNCHANGED Whole!vars
  BY <1>1, <1>2, Stutters
<1>4. ZerosAhead'
  BY <1>1 DEF ZerosAhead
<1> QED  BY <1>3, <1>4 DEF Implements

\* Read does to the bytes what the ByteFile allows, or leaves them alone.
LEMMA ReadImplements == ASSUME CloseOnError, FileInv, UnitsInv, ZerosAhead, NEW n \in Nat, Read(n) PROVE Implements
<1>1. Call /\ UNCHANGED <<next, foreign, data, firstCluster, fileSize, curPosition, flags, got, failed, faults>>
      /\ n > 0 /\ todo' = Limited(n) /\ pc' \in {"fetch", "get"}
  BY DEF Read, volume, cursor, file, NoFault, ReadLoop
<1>2. Mode' = "read" /\ Size' = fileSize /\ Length' = fileSize /\ Position' = curPosition
      /\ IsOpen' /\ Sound' /\ First' = firstCluster
  BY <1>1, LooksThen, Seen
<1>3. Content' = Content
  BY <1>1, <1>2, Seen, Untouched
<1>4. todo' \in 0 .. fileSize - curPosition
  <2>1. curPosition \in Nat /\ fileSize \in Nat /\ curPosition <= fileSize /\ fileSize <= MaxSize
    BY <1>1, Seen DEF FileTypes
  <2>2. (fileSize - curPosition) % Width = fileSize - curPosition
    BY <2>1, Remaining
  <2> QED  BY <1>1, <2>1, <2>2 DEF Limited, Lesser
<1>5. (Appending' <=> Appending) /\ got' = <<>>
  BY <1>1, <1>2, Seen DEF Appending
<1>6. Mode = "idle" /\ Size = fileSize /\ Position = curPosition /\ Length = fileSize /\ Sound
  BY <1>1, Seen
<1>7. Whole!Next
  BY <1>1, <1>2, <1>3, <1>4, <1>5, <1>6
     DEF Whole!Next, Whole!Read, Whole!Same, Whole!NoFault, Position, Appending
<1>8. ZerosAhead'
  BY <1>1, <1>2, <1>3, <1>6 DEF ZerosAhead
<1> QED  BY <1>7, <1>8 DEF Implements

\* Fetch does to the bytes what the ByteFile allows, or leaves them alone.
LEMMA FetchImplements == ASSUME FileInv, UnitsInv, ZerosAhead, Fetch PROVE Implements
<1>1. pc = "fetch" /\ pc' = "get" /\ ~failed'
      /\ UNCHANGED <<next, foreign, data, firstCluster, fileSize, curPosition, flags, todo, got, faults>>
  BY Looks DEF Fetch, volume, file, call, NoFault
<1>2. First' = First /\ Length' = Length /\ Size' = Size /\ Length \in Nat
  BY <1>1, Looks, LooksThen DEF InWrite
<1> QED  BY <1>1, <1>2, Untouched, LoopStutters

\* A read that fails changes no byte.
LEMMA ReadFailsImplements == ASSUME FileInv, UnitsInv, FetchFails \/ GetFails PROVE Implements
<1>1. pc \in {"fetch", "get"} /\ todo > 0 /\ Fails
      /\ UNCHANGED <<next, foreign, data, firstCluster, fileSize, curPosition, flags>>
  BY DEF FetchFails, GetFails, volume, cursor, file
<1>2. faults' = faults + 1
  <2>1. CASE GetFails
    BY <2>1 DEF GetFails, Fault
  <2>2. CASE FetchFails
    <3>1. PICK L \in Nat : \E ch \in Chains(L) : Handle(L, ch) /\ Cursor(L, ch)
      BY <1>1, Looping
    <3>2. PICK ch \in Chains(L) : Handle(L, ch) /\ Cursor(L, ch)
      BY <3>1
    <3> DEFINE k == ClusterIndex(curPosition)
    <3>3. curPosition \in Nat /\ fileSize \in Nat /\ curPosition + todo <= fileSize /\ todo \in Nat /\ todo > 0 /\ curPosition # 0
      BY <1>1, <2>2, Looks DEF FetchFails, InRead
    <3>4. AtBoundary(curPosition) /\ curCluster = ch[k]
      BY <1>1, <2>2, <3>2, <3>3 DEF Cursor, Moving, FetchFails
    <3>5. k \in Nat /\ k + 1 = curPosition \div ClusterUnits
      BY <3>3, <3>4, Places
    <3>6. curPosition <= fileSize /\ curPosition < fileSize /\ Need(fileSize) <= L
      BY <3>2, <3>3 DEF Handle
    <3>7. k + 1 \in 0 .. L - 1
      BY <3>3, <3>5, <3>6, InFile
    <3> HIDE DEF k
    <3>8. k \in 0 .. L - 1 /\ k + 1 < L /\ Chain(next, firstCluster, L, ch)
      BY <3>2, <3>5, <3>7 DEF Handle
    <3>9. Walk(curCluster, 1) = ch[k + 1]
      BY <3>4, <3>8, WalkFrom
    <3>10. Walk(curCluster, 1) \in Clusters
      BY <3>7, <3>9 DEF Chains
    <3> QED  BY <2>2, <3>10 DEF FetchFails, FetchCluster, Fault
  <2> QED  BY <2>1, <2>2
<1>3. pc' = "idle" /\ failed' = TRUE /\ todo' = 0 /\ got' = <<>>
  BY <1>1 DEF Fails
<1>4. ~InWrite /\ Mode = "read" /\ Length = fileSize /\ Size = fileSize /\ First = firstCluster /\ ~Lost /\ IsOpen
      /\ Length \in Nat
  BY <1>1, Looks DEF InWrite, InRead
<1>5. First' = First /\ Length' = Length /\ Size' = Size
  BY <1>1, <1>3, <1>4, Returned
<1>6. Content' = Content /\ ~Lost'
  BY <1>1, <1>4, <1>5, Untouched
<1>7. Mode' = "error" /\ Position' = 0 /\ ~Sound' /\ (Appending' <=> Appending)
  BY <1>1, <1>3, <1>4, <1>6, Returned DEF Appending
<1>8. Whole!Next
  BY <1>2, <1>3, <1>4, <1>5, <1>6, <1>7
     DEF Whole!Next, Whole!Fails, Whole!AtRest, Whole!Same, Whole!Fault, Position, Appending
<1> QED  BY <1>7, <1>8 DEF Implements, ZerosAhead

\* The units of a piece are in the cluster of its first one, one after another.
LEMMA PieceUnits ==
  ASSUME NEW x \in Nat, NEW n \in Nat, n <= ClusterUnits - (x % ClusterUnits), NEW j \in 0 .. n - 1
  PROVE  (x + j) \div ClusterUnits = x \div ClusterUnits /\ (x + j) % ClusterUnits = (x % ClusterUnits) + j
<1>1. x % ClusterUnits \in 0 .. ClusterUnits - 1 /\ ClusterUnits \in Int /\ ClusterUnits > 0 /\ x \in Int
  BY Places, Units
<1>2. j \in Nat /\ j < ClusterUnits - (x % ClusterUnits) /\ j <= ClusterUnits - (x % ClusterUnits)
  BY <1>1
<1> QED  BY <1>1, <1>2, Further

\* Get does to the bytes what the ByteFile allows, or leaves them alone.
LEMMA GetImplements == ASSUME FileInv, FileInv', UnitsInv, ZerosAhead, NEW n \in Nat, Get(n) PROVE Implements
<1>1. /\ pc = "get" /\ todo > 0 /\ GetSize(n) /\ curPosition' = curPosition + n /\ todo' = todo - n
      /\ got' = [i \in 1 .. n |-> data[curCluster][UnitOffset + i - 1]]
      /\ pc' \in {"fetch", "get"} /\ faults' = faults
      /\ UNCHANGED <<next, foreign, data, firstCluster, fileSize, flags, failed>>
  BY DEF Get, volume, file, NoFault, ReadLoop
<1>2. /\ ~failed /\ InRead /\ ~InWrite /\ IsOpen /\ Mode = "read" /\ First = firstCluster /\ Size = fileSize
      /\ Length = fileSize /\ fileSize \in Nat /\ curPosition \in Nat /\ todo \in Nat /\ Length \in Nat
      /\ curPosition + todo <= fileSize /\ Position = curPosition /\ Sound /\ Len(Content) = fileSize
      /\ Content \in Seq(Nat)
  BY <1>1, Looks DEF InRead, InWrite
<1>3. n \in 1 .. todo /\ n <= ClusterUnits - (curPosition % ClusterUnits)
  BY <1>1, <1>2, Pieces DEF GetSize, UnitOffset
<1>4. Mode' = "read" /\ First' = First /\ Size' = Size /\ Length' = Length /\ Position' = curPosition + n /\ IsOpen' /\ Sound'
  BY <1>1, <1>2, LooksThen
<1>5. Content' = Content
  BY <1>1, <1>2, <1>4, Untouched
<1>6. got' = SubSeq(Content, curPosition + 1, curPosition + n)
  <2>1. PICK L \in Nat : \E ch \in Chains(L) : Handle(L, ch) /\ Cursor(L, ch) /\ Content = UnitsOf(data, ch, Length)
    BY <1>1, Looks
  <2>2. PICK ch \in Chains(L) : Handle(L, ch) /\ Cursor(L, ch) /\ Content = UnitsOf(data, ch, Length)
    BY <2>1
  <2>3. curCluster = ch[curPosition \div ClusterUnits]
    BY <1>1, <2>2 DEF Cursor, Moving
  <2>4. ASSUME NEW i \in 1 .. n PROVE got'[i] = Content[curPosition + i]
    <3>0. PICK q \in Int : q = curPosition + i - 1
      BY <1>2
    <3>1. i - 1 \in 0 .. n - 1 /\ q = curPosition + (i - 1) /\ curPosition + i \in 1 .. Length /\ curPosition + i - 1 = q
      BY <1>2, <1>3, <3>0
    <3>2. q \div ClusterUnits = curPosition \div ClusterUnits /\ q % ClusterUnits = (curPosition % ClusterUnits) + (i - 1)
      BY <1>2, <1>3, <3>1, PieceUnits
    <3>3. Content[curPosition + i] = data[ch[q \div ClusterUnits]][q % ClusterUnits]
      <4>1. \A m \in 1 .. Length : Content[m] = data[ch[(m - 1) \div ClusterUnits]][(m - 1) % ClusterUnits]
        BY <2>2 DEF UnitsOf
      <4>2. PICK m \in 1 .. Length : m = curPosition + i /\ m - 1 = q
        BY <1>2, <1>3, <3>0, <3>1
      <4>3. Content[m] = data[ch[(m - 1) \div ClusterUnits]][(m - 1) % ClusterUnits]
        BY <4>1
      <4>4. Content[m] = data[ch[q \div ClusterUnits]][q % ClusterUnits]
        BY <4>2, <4>3
      <4> QED  BY <4>2, <4>4
    <3>4. (curPosition % ClusterUnits) + (i - 1) = UnitOffset + i - 1
      BY <1>2, Places DEF UnitOffset
    <3>5. got'[i] = data[curCluster][UnitOffset + i - 1]
      BY <1>1
    <3> QED  BY <2>3, <3>2, <3>3, <3>4, <3>5
  <2>5. SubSeq(Content, curPosition + 1, curPosition + n) = [i \in 1 .. n |-> Content[curPosition + i]]
    BY <1>2, <1>3
  <2>6. got' = [i \in 1 .. n |-> got'[i]]
    BY <1>1
  <2> QED  BY <2>4, <2>5, <2>6
<1>7. curPosition + n \in curPosition + 1 .. curPosition + todo /\ todo' = todo - ((curPosition + n) - curPosition)
  BY <1>1, <1>2, <1>3
<1>8. Appending' <=> Appending
  BY <1>1, <1>2, <1>4 DEF Appending
<1>9. Whole!Next
  BY <1>1, <1>2, <1>4, <1>5, <1>6, <1>7, <1>8
     DEF Whole!Next, Whole!Get, Whole!Same, Whole!NoFault, Position, Appending
<1>10. ZerosAhead'
  BY <1>1, <1>2, <1>3, <1>4, <1>5 DEF ZerosAhead
<1> QED  BY <1>9, <1>10 DEF Implements

\* ReadEnd does to the bytes what the ByteFile allows, or leaves them alone.
LEMMA ReadEndImplements == ASSUME FileInv, UnitsInv, ZerosAhead, ReadEnd PROVE Implements
<1>1. /\ pc \in {"fetch", "get"} /\ todo = 0 /\ todo' = 0 /\ pc' = "idle" /\ got' = <<>> /\ faults' = faults
      /\ UNCHANGED <<next, foreign, data, firstCluster, fileSize, curPosition, flags, failed>>
  BY DEF ReadEnd, InRead, volume, cursor, file, NoFault
<1>2. ~InWrite /\ Mode = "read" /\ Length = fileSize /\ Size = fileSize /\ First = firstCluster /\ ~Lost /\ IsOpen
      /\ Length \in Nat /\ Position = curPosition /\ Sound /\ ~failed
  BY <1>1, Looks DEF InWrite, InRead
<1>3. First' = First /\ Length' = Length /\ Size' = Size
  BY <1>1, <1>2, Returned
<1>4. Content' = Content /\ ~Lost'
  BY <1>1, <1>2, <1>3, Untouched
<1>5. Mode' = "idle" /\ Position' = curPosition /\ (Appending' <=> Appending) /\ Sound'
  BY <1>1, <1>2, <1>4, Returned DEF Appending
<1>6. Whole!Next
  BY <1>1, <1>2, <1>3, <1>4, <1>5
     DEF Whole!Next, Whole!ReadEnd, Whole!AtRest, Whole!Same, Whole!NoFault, Position, Appending
<1>7. ZerosAhead'
  BY <1>1, <1>2, <1>3, <1>4, <1>5 DEF ZerosAhead
<1> QED  BY <1>6, <1>7 DEF Implements

\* Write does to the bytes what the ByteFile allows, or leaves them alone.
LEMMA WriteImplements == ASSUME CloseOnError, FileInv, UnitsInv, ZerosAhead, NEW n \in Nat, Write(n) PROVE Implements
<1>1. /\ Call /\ UNCHANGED <<next, foreign, data, firstCluster, fileSize, got, failed, faults>>
      /\ n > 0 /\ todo' = n /\ pc' \in {"next", "put"} /\ n <= MaxSize - curPosition'
  BY DEF Write, volume, file, NoFault, WriteLoop
<1>2. /\ curPosition' = IF "append" \in flags THEN fileSize ELSE curPosition
      /\ "append" \in flags' <=> "append" \in flags
      /\ "preallocate" \in flags' => "preallocate" \in flags /\ curPosition' = curPosition
  BY Sought DEF Write, cursor
<1>3. /\ Mode = "idle" /\ Size = fileSize /\ Position = curPosition /\ Length = fileSize /\ Sound /\ IsOpen
      /\ First = firstCluster /\ fileSize \in Nat /\ Length \in Nat /\ curPosition \in 0 .. fileSize
      /\ got = <<>> /\ ~failed
  BY <1>1, Seen
<1>4. Mode' = "write" /\ Size' = Size /\ Length' = Length /\ Position' = curPosition' /\ IsOpen' /\ Sound' /\ First' = First
  BY <1>1, <1>2, <1>3, LooksThen
<1>5. Content' = Content
  BY <1>1, <1>3, <1>4, Untouched
<1>6. Appending' <=> Appending
  BY <1>2, <1>3, <1>4 DEF Appending
<1>7. todo' \in 1 .. MaxSize - curPosition' /\ got' = <<>>
  BY <1>1, <1>2, <1>3, Units
<1>8. Position' = IF Appending THEN Size ELSE Position
  BY <1>2, <1>3, <1>4 DEF Appending
<1>9. Whole!Next
  BY <1>1, <1>3, <1>4, <1>5, <1>6, <1>7, <1>8
     DEF Whole!Next, Whole!Write, Whole!Same, Whole!NoFault, Position, Appending
<1>10. ZerosAhead'
  BY <1>2, <1>3, <1>4, <1>5 DEF ZerosAhead
<1> QED  BY <1>9, <1>10 DEF Implements

\* ClusterInChain does to the bytes what the ByteFile allows, or leaves them alone.
LEMMA ClusterInChainImplements == ASSUME FileInv, UnitsInv, ZerosAhead, ClusterInChain PROVE Implements
<1>1. pc = "next" /\ pc' = "put" /\ ~failed'
      /\ UNCHANGED <<next, foreign, data, firstCluster, fileSize, curPosition, flags, todo, got, faults>>
  BY Looks DEF ClusterInChain, Chosen, volume, file, call, NoFault
<1>2. First' = First /\ Length' = Length /\ Size' = Size /\ Length \in Nat
  BY <1>1, Looks, LooksThen DEF InWrite
<1> QED  BY <1>1, <1>2, Untouched, LoopStutters

\* Two chains with the same first clusters and the same units in them hold the same bytes.
LEMMA SameUnits ==
  ASSUME NEW d, NEW e, NEW ch, NEW dh, NEW n \in Nat,
         \A k \in 0 .. Need(n) - 1 : dh[k] = ch[k] /\ e[ch[k]] = d[ch[k]]
  PROVE  UnitsOf(e, dh, n) = UnitsOf(d, ch, n)
<1>1. ASSUME NEW i \in 1 .. n PROVE dh[(i - 1) \div ClusterUnits] = ch[(i - 1) \div ClusterUnits]
         /\ e[ch[(i - 1) \div ClusterUnits]] = d[ch[(i - 1) \div ClusterUnits]]
  BY UnitIn
<1> QED  BY <1>1 DEF UnitsOf

\* AddCluster does to the bytes what the ByteFile allows, or leaves them alone.
LEMMA AddClusterImplements == ASSUME FileInv, UnitsInv, ZerosAhead, AddCluster PROVE Implements
<1>1. pc = "next" /\ pc' = "put" /\ ~failed'
      /\ UNCHANGED <<foreign, data, fileSize, curPosition, todo, got, faults>>
  BY Looks DEF AddCluster, Chosen, call, NoFault
<1>2. Length' = Length /\ Size' = Size /\ Length \in Nat /\ First = firstCluster /\ First' = firstCluster'
  BY <1>1, Looks, LooksThen DEF InWrite
<1>3. PICK L \in Nat : \E ch \in Chains(L) : /\ Handle(L, ch) /\ Cursor(L, ch) /\ Need(Length) <= L
                                             /\ Content = UnitsOf(data, ch, Length)
  BY <1>1, Looks
<1>4. PICK ch \in Chains(L) : /\ Handle(L, ch) /\ Cursor(L, ch) /\ Need(Length) <= L
                              /\ Content = UnitsOf(data, ch, Length)
  BY <1>3
<1>5. PICK c \in Free :
        /\ next' = [i \in Clusters |-> IF i = c THEN EOC ELSE IF i = curCluster THEN c ELSE next[i]]
        /\ curCluster' = c /\ firstCluster' = (IF firstCluster = 0 THEN c ELSE firstCluster)
        /\ flags' = ContiguousAfter(c) \cup {"dirDirty"}
        /\ c \in Clusters /\ next[c] = 0 /\ c \notin foreign /\ \A i \in 0 .. L - 1 : ch[i] # c
        /\ curPosition \div ClusterUnits = L
        /\ (L = 0 => curCluster = 0) /\ (L > 0 => curCluster = ch[L - 1])
        /\ (firstCluster = 0 <=> L = 0)
        /\ Chain(next', firstCluster', L + 1, [i \in 0 .. L |-> IF i = L THEN c ELSE ch[i]])
  <2>1. Handle(L, ch) /\ Cursor(L, ch)
    BY <1>4
  <2> QED  BY <2>1, Added
<1> DEFINE d == [i \in 0 .. L |-> IF i = L THEN c ELSE ch[i]]
<1>6. Need(Length) \in Nat /\ Need(Length) <= L + 1
  BY <1>2, <1>4, NeedType
<1>7. \A k \in 0 .. Need(Length) - 1 : d[k] = ch[k]
  BY <1>4, <1>6
<1>8. Chain(next', firstCluster', L + 1, d)
  BY <1>5
<1> HIDE DEF d
<1>9. Content' = UnitsOf(data', d, Length)
  <2>1. ContentIn(next', data', firstCluster', Length) = UnitsOf(data', d, Length)
    BY <1>2, <1>6, <1>8, ContentChain
  <2> QED  BY <1>2, <2>1, ContentThen
<1>10. Content' = Content
  BY <1>1, <1>2, <1>4, <1>7, <1>9, SameUnits
<1>11. ("append" \in flags' <=> "append" \in flags) /\ ("preallocate" \in flags' => "preallocate" \in flags)
  BY <1>5 DEF ContiguousAfter
<1> QED  BY <1>1, <1>10, <1>11, LoopStutters

\* WriteEnd does to the bytes what the ByteFile allows, or leaves them alone.
LEMMA WriteEndImplements == ASSUME FileInv, FileInv', UnitsInv, ZerosAhead, WriteEnd PROVE Implements
<1>1. /\ InWrite /\ pc \notin {"closed", "idle"} /\ todo = 0 /\ todo' = 0 /\ pc' = "idle" /\ faults' = faults /\ got' = got
      /\ fileSize' = (IF curPosition > fileSize THEN curPosition ELSE fileSize)
      /\ UNCHANGED <<next, foreign, data, firstCluster, curPosition, failed>>
      /\ "append" \in flags' <=> "append" \in flags
      /\ "preallocate" \in flags' => "preallocate" \in flags
  BY DEF WriteEnd, InWrite, volume, cursor, NoFault, Succeeds, call
<1>2. /\ Mode = "write" /\ First = firstCluster /\ IsOpen /\ Position = curPosition /\ Sound /\ ~failed
      /\ Length = (IF curPosition > fileSize THEN curPosition ELSE fileSize)
      /\ Length \in Nat /\ got = <<>> /\ Len(Content) = Length
  BY <1>1, Looks
<1>3. First' = First /\ Length' = Length /\ Size' = Length /\ Position' = curPosition /\ Sound' /\ IsOpen'
  BY <1>1, <1>2, Returned
<1>4. Content' = Content
  BY <1>1, <1>2, <1>3, ContentNow, ContentThen
<1>5. Mode' = "idle"
  BY <1>1, <1>2, <1>3, Returned, SoundHoldsThen
<1>6. Appending' <=> Appending
  BY <1>1, <1>2, <1>3 DEF Appending
<1>7. Whole!Next
  BY <1>1, <1>2, <1>3, <1>4, <1>5, <1>6
     DEF Whole!Next, Whole!WriteEnd, Whole!AtRest, Whole!NoFault, Position, Appending
<1>8. ZerosAhead'
  BY <1>1, <1>2, <1>3, <1>4 DEF ZerosAhead
<1> QED  BY <1>7, <1>8 DEF Implements

-----------------------------------------------------------------------------
(* The mapping: the pieces of write.                                       *)

\* What write stores of a piece changes no other unit of the file.
LEMMA StoredElsewhere ==
  ASSUME FileInv, UnitsInv, ZerosAhead, pc = "put", todo > 0, NEW s \in SUBSET Piece, data' = Stored(s),
         NEW L \in Nat, NEW ch \in Chains(L), Handle(L, ch), Cursor(L, ch), Need(Length) <= L,
         Content = UnitsOf(data, ch, Length),
         NEW i \in 1 .. Length, i \notin curPosition + 1 .. curPosition + PieceSize
  PROVE  data'[ch[(i - 1) \div ClusterUnits]][(i - 1) % ClusterUnits]
           = data[ch[(i - 1) \div ClusterUnits]][(i - 1) % ClusterUnits]
<1> DEFINE b == ClusterUnits
<1>1. curPosition \in Nat /\ fileSize \in Nat /\ todo \in Nat /\ Length \in Nat /\ Sound
      /\ Length = (IF curPosition > fileSize THEN curPosition ELSE fileSize)
  BY Looks DEF InWrite
<1>2. PieceSize \in 1 .. todo /\ PieceSize \in Nat
  BY <1>1, Pieces
<1>3. b \in Int /\ b > 0
  BY Units
<1> HIDE DEF b
<1>4. PICK j \in Int, r \in 0 .. b - 1 : j = (i - 1) \div b /\ r = (i - 1) % b /\ i - 1 = b * j + r
  BY <1>1, <1>3, Division
<1>5. PICK k \in Int, u \in 0 .. b - 1 : k = curPosition \div b /\ u = curPosition % b /\ curPosition = b * k + u
  BY <1>1, <1>3, Division
<1>6. j \in 0 .. L - 1
  <2>1. j \in 0 .. Need(Length) - 1 /\ Need(Length) \in Nat
    BY <1>1, <1>4, UnitIn DEF b
  <2> QED  BY <2>1
<1>7. k \in 0 .. L - 1 /\ curCluster = ch[k] /\ u = UnitOffset
  <2>1. k < L /\ curCluster = ch[k]
    BY <1>5 DEF Cursor, Moving, b
  <2>2. k \in Nat
    BY <1>1, <1>5, Places DEF b
  <2>3. u = UnitOffset
    BY <1>5 DEF UnitOffset, b
  <2>4. k \in 0 .. L - 1
    BY <2>1, <2>2
  <2> QED  BY <2>1, <2>3, <2>4
<1>8. ch[j] \in Clusters /\ (j # k => ch[j] # ch[k])
  BY <1>6, <1>7 DEF Handle, Chain
<1>9. CASE j # k
  <2>1. data'[ch[j]] = data[ch[j]]
    BY <1>7, <1>8, <1>9 DEF Stored, DataType, UnitsInv
  <2> QED  BY <1>4, <2>1 DEF b
<1>10. CASE j = k
  <2>1. r - u = i - 1 - curPosition
    <3>1. b * j \in Int /\ b * j = b * k
      BY <1>3, <1>10
    <3> QED  BY <1>1, <1>4, <1>5, <3>1
  <2>2. data'[ch[j]] = [v \in DOMAIN data[ch[j]] |->
                          IF v \in s THEN writes ELSE IF v \in Dropped THEN NoByte ELSE data[ch[j]][v]]
    BY <1>7, <1>8, <1>10 DEF Stored, DataType, UnitsInv
  <2>3. r \in DOMAIN data[ch[j]]
    BY <1>4, <1>8 DEF DataType, UnitsInv, b
  <2>4. r \notin s
    <3>1. r \in s => r >= u /\ r <= u + PieceSize - 1
      BY <1>2, <1>5, <1>7 DEF Piece
    <3> QED  BY <1>1, <1>2, <1>4, <1>5, <2>1, <3>1
  <2>5. r \in Dropped => data[ch[j]][r] = NoByte
    <3> SUFFICES ASSUME r \in Dropped PROVE data[ch[j]][r] = NoByte
      OBVIOUS
    <3>1. Reserve /\ r >= u + PieceSize
      BY <1>2, <1>5, <1>7, Units DEF Dropped
    <3>2. i > curPosition + PieceSize
      BY <1>1, <1>2, <1>4, <1>5, <2>1, <3>1
    <3>3. "preallocate" \in flags
      BY <1>1, <1>2, <3>1, <3>2 DEF Reserve
    <3>4. Content[i] = NoByte
      BY <1>1, <1>2, <3>2, <3>3 DEF ZerosAhead
    <3>5. Content[i] = data[ch[j]][r]
      BY <1>4 DEF UnitsOf, b
    <3> QED  BY <3>4, <3>5
  <2> QED  BY <1>4, <2>2, <2>3, <2>4, <2>5 DEF b
<1> QED  BY <1>9, <1>10

\* Put does to the bytes what the ByteFile allows, or leaves them alone.
LEMMA PutImplements == ASSUME FileInv, UnitsInv, ZerosAhead, Put PROVE Implements
<1> DEFINE p == curPosition
           b == ClusterUnits
<1>1. /\ pc = "put" /\ todo > 0 /\ data' = Stored(Piece) /\ curPosition' = p + PieceSize /\ todo' = todo - PieceSize
      /\ pc' \in {"next", "put"} /\ faults' = faults
      /\ UNCHANGED <<next, foreign, firstCluster, fileSize, flags, got, failed>>
  BY DEF Put, file, NoFault, WriteLoop, Advanced
<1>2. /\ ~failed /\ Mode = "write" /\ First = firstCluster /\ Size = fileSize /\ IsOpen /\ Sound
      /\ Length = (IF p > fileSize THEN p ELSE fileSize)
      /\ fileSize \in Nat /\ p \in Nat /\ todo \in Nat /\ Length \in Nat /\ Position = p
      /\ p + todo <= MaxSize /\ Len(Content) = Length /\ InWrite
  BY <1>1, Looks DEF InWrite
<1>3. PICK L \in Nat : \E ch \in Chains(L) : /\ Handle(L, ch) /\ Cursor(L, ch) /\ Need(Length) <= L
                                             /\ Content = UnitsOf(data, ch, Length)
  BY <1>1, Looks
<1>4. PICK ch \in Chains(L) : /\ Handle(L, ch) /\ Cursor(L, ch) /\ Need(Length) <= L
                              /\ Content = UnitsOf(data, ch, Length)
  BY <1>3
<1>5. PICK n \in Nat : n = PieceSize /\ n \in 1 .. todo /\ n <= b - (p % b)
  BY <1>1, <1>2, Pieces DEF UnitOffset
<1>6. /\ Mode' = "write" /\ First' = First /\ Size' = Size /\ Position' = p + n /\ IsOpen' /\ Sound'
      /\ Length' = IF p + n > fileSize THEN p + n ELSE fileSize
  BY <1>1, <1>2, <1>5, LooksThen
<1>7. Length' \in Nat /\ Length' = (IF p + n > Length THEN p + n ELSE Length)
  BY <1>2, <1>5, <1>6
<1>8. Need(p + n) <= L
  <2>1. ClusterIndex(p + n) = p \div b
    BY <1>2, <1>5, Advance
  <2>2. p + n \in Nat
    BY <1>2, <1>5
  <2>3. Need(p + n) = ClusterIndex(p + n) + 1 /\ ClusterIndex(p + n) \in Int
    BY <2>2, Places
  <2>4. p \div b < L
    BY <1>1, <1>4 DEF Cursor, Moving
  <2> QED  BY <2>1, <2>3, <2>4
<1>9. Need(Length') <= L
  BY <1>4, <1>7, <1>8
<1>10. Content' = UnitsOf(data', ch, Length')
  <2>1. Chain(next', First', L, ch)
    BY <1>1, <1>2, <1>4, <1>6 DEF Handle
  <2>2. ContentIn(next', data', First', Length') = UnitsOf(data', ch, Length')
    BY <1>7, <1>9, <2>1, ContentChain
  <2> QED  BY <1>7, <2>2, ContentThen
<1>11. ASSUME NEW i \in p + 1 .. p + n PROVE Content'[i] = writes
  <2>1. i \in Nat /\ i - 1 - p \in 0 .. n - 1 /\ p + (i - 1 - p) = i - 1 /\ i \in 1 .. Length'
    BY <1>2, <1>5, <1>7
  <2>2. PICK j \in 0 .. n - 1 : p + j = i - 1
    BY <2>1
  <2>3. (p + j) \div b = p \div b /\ (p + j) % b = (p % b) + j
    BY <1>2, <1>5, <2>2, PieceUnits
  <2>4. PICK v \in Int : v = (p % b) + j /\ v \in 0 .. b - 1 /\ v \in Piece
    <3>1. p % b \in 0 .. b - 1 /\ b \in Int
      BY <1>2, Places, Units
    <3>2. PICK u \in 0 .. b - 1 : u = p % b /\ u = UnitOffset
      BY <3>1 DEF UnitOffset
    <3>3. u + j \in 0 .. b - 1 /\ u + j \in u .. u + n - 1
      BY <1>5, <3>1, <3>2
    <3> QED  BY <1>5, <3>2, <3>3 DEF Piece
  <2>5. curCluster = ch[p \div b] /\ curCluster \in Clusters
    BY <1>1, <1>4, StoringIn DEF Cursor, Moving
  <2>6. data'[curCluster][v] = writes
    BY <1>1, <2>4, <2>5 DEF Stored, DataType, UnitsInv
  <2>7. Content'[i] = data'[ch[(i - 1) \div b]][(i - 1) % b]
    BY <1>10, <2>1 DEF UnitsOf
  <2>8. (i - 1) \div b = p \div b /\ (i - 1) % b = v
    <3> HIDE DEF b
    <3> QED  BY <2>2, <2>3, <2>4
  <2> HIDE DEF b
  <2> QED  BY <2>5, <2>6, <2>7, <2>8
<1>12. ASSUME NEW i \in 1 .. Length', i \notin p + 1 .. p + n PROVE i \in 1 .. Length /\ Content'[i] = Content[i]
  <2>1. i \in 1 .. Length
    BY <1>2, <1>5, <1>7, <1>12
  <2>2. data'[ch[(i - 1) \div b]][(i - 1) % b] = data[ch[(i - 1) \div b]][(i - 1) % b]
    BY <1>1, <1>4, <1>5, <1>12, <2>1, StoredElsewhere
  <2> QED  BY <1>4, <1>10, <2>1, <2>2 DEF UnitsOf
<1>13. Content' = Whole!Overwritten(p, n, writes)
  <2>1. Content' = [i \in 1 .. Length' |-> Content'[i]]
    BY <1>10 DEF UnitsOf
  <2>2. Content' = [i \in 1 .. Length' |-> IF i \in p + 1 .. p + n THEN writes ELSE Content[i]]
    BY <1>11, <1>12, <2>1
  <2> QED  BY <1>2, <1>7, <2>2 DEF Whole!Overwritten
<1>14. Content'[Position'] = writes /\ Position' \in Position + 1 .. Position + todo
       /\ todo' = todo - (Position' - Position) /\ Position' - Position = n
  <2>1. p + n \in p + 1 .. p + n
    BY <1>2, <1>5
  <2> QED  BY <1>1, <1>2, <1>5, <1>6, <1>11, <2>1
<1>15. Content' = Whole!Overwritten(Position, Position' - Position, Content'[Position'])
  BY <1>2, <1>13, <1>14
<1>16. Appending' <=> Appending
  BY <1>1, <1>2, <1>6 DEF Appending
<1>17. Whole!Next
  BY <1>1, <1>2, <1>6, <1>14, <1>15, <1>16 DEF Whole!Next, Whole!Put, Whole!NoFault, Position, Appending
<1>18. ZerosAhead'
  <2> SUFFICES ASSUME "preallocate" \in flags, NEW i \in 1 .. Length', i > p + n PROVE Content'[i] = NoByte
    BY <1>1, <1>2, <1>5, <1>6 DEF ZerosAhead
  <2>1. i \notin p + 1 .. p + n /\ i > p
    BY <1>2, <1>5
  <2>2. i \in 1 .. Length /\ Content'[i] = Content[i]
    BY <1>12, <2>1
  <2> QED  BY <1>2, <2>1, <2>2 DEF ZerosAhead
<1> QED  BY <1>17, <1>18 DEF Implements

\* A write that fails: the chain stays, and the units outside the range of the write.
LEMMA WriteFailsImplements ==
  ASSUME FileInv, UnitsInv, UnitsInv', InWrite, Fails, UNCHANGED <<firstCluster, fileSize, flags>>,
         faults' = faults \/ faults' = faults + 1,
         NEW L \in Nat, NEW ch \in Chains(L), Need(fileSize) <= L, Content = UnitsOf(data, ch, Length),
         Chain(next', firstCluster, L, ch), \A i \in 0 .. L - 1 : ch[i] \notin foreign',
         \A i \in 1 .. fileSize : i \notin curPosition + 1 .. curPosition + todo
           => data'[ch[(i - 1) \div ClusterUnits]][(i - 1) % ClusterUnits]
                = data[ch[(i - 1) \div ClusterUnits]][(i - 1) % ClusterUnits]
  PROVE  Implements
<1>1. pc' = "idle" /\ failed' = TRUE /\ todo' = 0 /\ got' = <<>> /\ pc \notin {"closed", "idle"}
  BY DEF Fails, InWrite
<1>2. /\ Mode = "write" /\ First = firstCluster /\ IsOpen /\ Position = curPosition /\ Size = fileSize
      /\ Length = (IF curPosition > fileSize THEN curPosition ELSE fileSize)
      /\ fileSize \in Nat /\ curPosition \in Nat
  BY <1>1, Looks
<1>3. /\ First' = First /\ Length' = fileSize /\ Size' = Size /\ Position' = 0 /\ ~Sound' /\ IsOpen'
      /\ Length' \in Nat
  BY <1>1, <1>2, Returned
<1>4. ~Lost' /\ Mode' = "error"
  <2>1. HoldsIn(next', foreign', firstCluster, fileSize)
    BY <1>2, HoldsChain
  <2> QED  BY <1>1, <1>2, <1>3, <2>1, LostThen, Returned
<1>5. Content' = UnitsOf(data', ch, fileSize)
  <2>1. ContentIn(next', data', firstCluster, fileSize) = UnitsOf(data', ch, fileSize)
    BY <1>2, ContentChain
  <2> QED  BY <1>2, <1>3, <2>1, ContentThen
<1>6. Content' \in Seq(Nat) /\ Len(Content') = fileSize
  BY <1>3, ContentTypeThen DEF UnitsInv
<1>7. \A i \in 1 .. fileSize : i \notin curPosition + 1 .. curPosition + todo => Content'[i] = Content[i]
  <2> SUFFICES ASSUME NEW i \in 1 .. fileSize, i \notin curPosition + 1 .. curPosition + todo
               PROVE  Content'[i] = Content[i]
    OBVIOUS
  <2>1. i \in 1 .. Length
    BY <1>2
  <2> QED  BY <1>5, <2>1 DEF UnitsOf
<1>8. Appending' <=> Appending
  BY <1>2, <1>3 DEF Appending
<1>9. Whole!Next
  BY <1>1, <1>2, <1>3, <1>4, <1>6, <1>7, <1>8
     DEF Whole!Next, Whole!WriteFails, Whole!AtRest, Whole!Fault, Whole!NoFault, Whole!Byte,
         Position, Appending
<1> QED  BY <1>3, <1>9 DEF Implements, ZerosAhead

\* PutFails does to the bytes what the ByteFile allows, or leaves them alone.
LEMMA PutFailsImplements == ASSUME FileInv, UnitsInv, UnitsInv', ZerosAhead, PutFails PROVE Implements
<1>1. /\ pc = "put" /\ todo > 0 /\ Fails /\ faults' = faults + 1
      /\ UNCHANGED <<next, foreign, firstCluster, fileSize, flags>>
  BY DEF PutFails, file, Fault
<1>2. InWrite /\ Length = (IF curPosition > fileSize THEN curPosition ELSE fileSize)
      /\ fileSize \in Nat /\ curPosition \in Nat /\ todo \in Nat
  BY <1>1, Looks DEF InWrite
<1>3. PICK L \in Nat : \E ch \in Chains(L) : /\ Handle(L, ch) /\ Cursor(L, ch) /\ Need(Length) <= L
                                             /\ Content = UnitsOf(data, ch, Length)
  BY <1>1, Looks
<1>4. PICK ch \in Chains(L) : /\ Handle(L, ch) /\ Cursor(L, ch) /\ Need(Length) <= L
                              /\ Content = UnitsOf(data, ch, Length)
  BY <1>3
<1>5. data' = data \/ \E s \in SUBSET Piece : data' = Stored(s)
  BY DEF PutFails
<1>6. PieceSize \in 1 .. todo
  BY <1>1, <1>2, Pieces
<1>7. ASSUME NEW i \in 1 .. fileSize, i \notin curPosition + 1 .. curPosition + todo
      PROVE  data'[ch[(i - 1) \div ClusterUnits]][(i - 1) % ClusterUnits]
               = data[ch[(i - 1) \div ClusterUnits]][(i - 1) % ClusterUnits]
  <2>1. i \in 1 .. Length /\ i \notin curPosition + 1 .. curPosition + PieceSize
    BY <1>2, <1>6, <1>7
  <2>2. CASE \E s \in SUBSET Piece : data' = Stored(s)
    BY <1>1, <1>4, <2>1, <2>2, StoredElsewhere
  <2> QED  BY <1>5, <2>2
<1> QED  BY <1>1, <1>2, <1>4, <1>7, WriteFailsImplements DEF Handle, Own

\* ChooseFails does to the bytes what the ByteFile allows, or leaves them alone.
LEMMA ChooseFailsImplements == ASSUME FileInv, UnitsInv, UnitsInv', ChooseFails PROVE Implements
<1>1. /\ pc = "next" /\ InWrite /\ Fails /\ UNCHANGED <<foreign, data, firstCluster, fileSize, flags>>
      /\ faults' = faults \/ faults' = faults + 1
      /\ next' = next \/ \E c \in Free : next' = [next EXCEPT ![c] = EOC]
  BY DEF ChooseFails, file, Fault, NoFault
<1>2. PICK L \in Nat : \E ch \in Chains(L) : /\ Handle(L, ch) /\ Cursor(L, ch) /\ Need(Length) <= L
                                             /\ Content = UnitsOf(data, ch, Length)
  BY <1>1, Looks
<1>3. PICK ch \in Chains(L) : /\ Handle(L, ch) /\ Cursor(L, ch) /\ Need(Length) <= L
                              /\ Content = UnitsOf(data, ch, Length)
  BY <1>2
<1>4. Chain(next, firstCluster, L, ch) /\ Own(L, ch) /\ Need(fileSize) <= L
  BY <1>3 DEF Handle
<1>5. \A i \in 0 .. L - 1 : ch[i] \in Clusters /\ next[ch[i]] # 0
  BY <1>4, NoCluster DEF Chain
<1>6. \A i \in 0 .. L - 1 : next'[ch[i]] = next[ch[i]]
  BY <1>1, <1>5 DEF Free, FileInv, FileTypes
<1>7. Chain(next', firstCluster, L, ch)
  BY <1>4, <1>6, ChainKept
<1> QED  BY <1>1, <1>3, <1>4, <1>7, WriteFailsImplements DEF Own

-----------------------------------------------------------------------------
(* The mapping: open, close and remove.                                    *)

\* What the program sees of a closed file.
LEMMA Shut ==
  pc = "closed" => /\ ~IsOpen /\ ~Sound /\ ~InWrite /\ ~InRead /\ First = entry.first /\ Size = entry.size
                   /\ Length = entry.size /\ Position = 0 /\ ~Appending
                   /\ Mode = IF Lost THEN "lost" ELSE "closed"
BY DEF IsOpen, Sound, InWrite, InRead, First, Size, Length, Position, Appending, Mode
\* The same after a step.
LEMMA ShutThen ==
  (pc = "closed" => /\ ~IsOpen /\ ~Sound /\ ~InWrite /\ ~InRead /\ First = entry.first /\ Size = entry.size
                    /\ Length = entry.size /\ Position = 0 /\ ~Appending
                    /\ Mode = IF Lost THEN "lost" ELSE "closed")'
BY Shut, PTL

\* A file of no unit has no bytes.
LEMMA NoBytes == UnitsInv /\ Length = 0 => Content = <<>>
BY ContentType DEF UnitsInv
\* The same after a step.
LEMMA NoBytesThen == (UnitsInv /\ Length = 0 => Content = <<>>)'
BY NoBytes, PTL
\* No cluster is enough for no byte.
LEMMA HoldsNone == ASSUME NEW t, NEW f PROVE HoldsIn(t, f, 0, 0)
<1>1. PICK L \in Nat : \E ch \in Chains(L) : Chain(t, 0, L, ch) /\ \A i \in 0 .. L - 1 : ch[i] \notin f
  BY HeadedInNone DEF HeadedIn
<1>2. PICK ch \in Chains(L) : Chain(t, 0, L, ch) /\ \A i \in 0 .. L - 1 : ch[i] \notin f
  BY <1>1
<1>3. Need(0) = 0
  <2>1. Need(0) = ClusterIndex(0) + 1 /\ ClusterIndex(0) = -1
    BY Places
  <2> QED  BY <2>1
<1>4. Need(0) <= L
  BY <1>3
<1> QED  BY <1>2, <1>4, HoldsChain

\* A call that failed and kept the clusters of the file.
LEMMA FailsKept ==
  ASSUME CloseOnError, FileInv, UnitsInv, Call, Fails, UNCHANGED <<fileSize, flags>>,
         faults' = faults \/ faults' = faults + 1,
         NEW ch, Content = UnitsOf(data, ch, fileSize),
         NEW M \in Nat, NEW d, Chain(next', firstCluster', M, d), \A i \in 0 .. M - 1 : d[i] \notin foreign',
         Need(fileSize) <= M, \A k \in 0 .. Need(fileSize) - 1 : d[k] = ch[k] /\ data'[ch[k]] = data[ch[k]]
  PROVE  Implements
<1>1. pc' = "idle" /\ failed' = TRUE /\ todo' = 0 /\ got' = <<>>
  BY DEF Fails
<1>2. fileSize \in Nat /\ Mode = "idle" /\ Size = fileSize
  BY Seen
<1>3. First' = firstCluster' /\ Size' = fileSize /\ Length' = fileSize /\ Length' \in Nat
  BY <1>1, <1>2, Returned
<1>4. ContentIn(next', data', firstCluster', fileSize) = UnitsOf(data', d, fileSize)
  BY <1>2, ContentChain
<1>5. UnitsOf(data', d, fileSize) = UnitsOf(data, ch, fileSize)
  BY <1>2, SameUnits
<1>6. Content' = Content
  BY <1>3, <1>4, <1>5, ContentThen
<1>7. HoldsIn(next', foreign', firstCluster', fileSize)
  BY <1>2, HoldsChain
<1>8. Mode' = "error" /\ Position' = 0 /\ ~Sound' /\ (Appending' <=> Appending)
  BY <1>1, <1>3, <1>7, LostThen, Returned, Seen DEF Appending
<1>9. Whole!Next
  BY <1>1, <1>2, <1>3, <1>6, <1>8
     DEF Whole!Next, Whole!Fails, Whole!AtRest, Whole!Same, Whole!Fault, Whole!NoFault,
         Position, Appending
<1> QED  BY <1>8, <1>9 DEF Implements, ZerosAhead

\* A call that failed and has cost clusters of the file.
LEMMA FailsLost ==
  ASSUME CloseOnError, FileInv, FileInv', UnitsInv, UnitsInv', Call, Fails, UNCHANGED flags, faults' = faults + 1, Lost'
  PROVE  Implements
<1>1. pc' = "idle" /\ failed' = TRUE /\ todo' = 0 /\ got' = <<>>
  BY DEF Fails
<1>2. Mode = "idle" /\ IsOpen
  BY Seen
<1>3. Length' = fileSize' /\ Size' = fileSize' /\ Length' \in Nat
  BY <1>1, Returned, Units DEF FileInv, FileTypes
<1>4. Content' \in Seq(Nat) /\ Size' = Len(Content')
  BY <1>3, ContentTypeThen DEF UnitsInv
<1>5. Mode' = "lost" /\ Position' = 0 /\ ~Sound' /\ (Appending' <=> Appending)
  BY <1>1, <1>2, Returned DEF Appending
<1>6. Whole!Next
  BY <1>1, <1>2, <1>4, <1>5
     DEF Whole!Next, Whole!Loses, Whole!AtRest, Whole!Fault, Whole!Byte, Position, Appending
<1> QED  BY <1>5, <1>6 DEF Implements, ZerosAhead

\* Forget keeps what the clusters in use hold.
LEMMA Remembered ==
  ASSUME Forget, UnitsInv
  PROVE  /\ \A c \in Clusters : next'[c] # 0 => data'[c] = data[c]
         /\ next' = next => data' = data
<1>1. \A c \in Clusters : data'[c] = IF next'[c] = 0 THEN Junk ELSE data[c]
  BY DEF Forget
<1>2. ASSUME next' = next PROVE data' = data
  <2>1. \A c \in Clusters : data'[c] = data[c]
    BY <1>1, <1>2 DEF UnitsInv, Unknown
  <2>2. data' = [c \in Clusters |-> data'[c]] /\ data = [c \in Clusters |-> data[c]]
    BY DEF Forget, UnitsInv, DataType
  <2> QED  BY <2>1, <2>2
<1> QED  BY <1>1, <1>2

\* Open does to the bytes what the ByteFile allows, or leaves them alone.
LEMMA OpenImplements ==
  ASSUME FileInv, FileInv', UnitsInv, UnitsInv', NEW append \in SUBSET {"append"}, NEW atEnd \in BOOLEAN,
         NEW trunc \in BOOLEAN, Open(append, atEnd, trunc), Holds(entry.first, entry.size)
  PROVE  Implements
<1>1. FileTypes /\ pc = "closed" /\ Holds(entry.first, entry.size) /\ ~failed
  BY DEF FileInv, FileTypes, Open
<1>2. PICK L \in Nat : \E ch \in Chains(L) :
        Chain(next, entry.first, L, ch) /\ Own(L, ch) /\ Exact(L, ch) /\ Need(entry.size) <= L
  BY <1>1, OpensOn
<1>3. PICK ch \in Chains(L) : Chain(next, entry.first, L, ch) /\ Own(L, ch) /\ Exact(L, ch) /\ Need(entry.size) <= L
  BY <1>2
<1>4. /\ pc' = "idle" /\ UNCHANGED <<foreign, todo, got, failed, faults>> /\ Forget
      /\ entry' = IF entry.used THEN entry ELSE Updated(0, 0)
      /\ flags' = append \cup IF trunc THEN {"dirDirty"} ELSE {}
      /\ next' = IF trunc THEN FreedAll(entry.first) ELSE next
      /\ firstCluster' = IF trunc THEN 0 ELSE entry'.first
      /\ fileSize' = IF trunc THEN 0 ELSE entry'.size
      /\ curPosition' = IF atEnd THEN fileSize' ELSE 0
  BY DEF Open, NoFault, call
<1>5. entry.size \in Nat /\ entry'.first = entry.first /\ entry'.size = entry.size
  <2>1. entry.size \in Nat /\ (~entry.used => entry.first = 0 /\ entry.size = 0)
    BY <1>1, Units DEF FileTypes
  <2> QED  BY <1>4, <2>1 DEF Updated
<1>6. First = entry.first /\ Length = entry.size /\ Size = entry.size /\ Mode = "closed" /\ Length \in Nat
  BY <1>1, <1>5, Shut DEF Lost, IsOpen
<1>7. Content = UnitsOf(data, ch, entry.size) /\ Len(Content) = entry.size
  BY <1>3, <1>5, <1>6, Shows, ContentType DEF UnitsInv
<1>8. First' = firstCluster' /\ Length' = fileSize' /\ Size' = fileSize' /\ Sound' /\ IsOpen' /\ Mode' = "idle"
      /\ Position' = curPosition'
  BY <1>1, <1>4, Returned, SoundHoldsThen
<1>9. Content' = IF trunc THEN <<>> ELSE Content
  <2>1. CASE trunc
    BY <1>4, <1>8, <2>1, NoBytesThen
  <2>2. CASE ~trunc
    <3>1. next' = next /\ First' = entry.first /\ Length' = entry.size
      BY <1>4, <1>5, <1>8, <2>2
    <3>2. data' = data
      BY <1>4, <3>1, Remembered
    <3> QED  BY <1>5, <1>6, <2>2, <3>1, <3>2, ContentNow, ContentThen
  <2> QED  BY <2>1, <2>2
<1>10. Size' = Len(Content')
  <2>1. CASE trunc
    BY <1>4, <1>8, <1>9, <2>1
  <2>2. CASE ~trunc
    BY <1>4, <1>5, <1>7, <1>8, <1>9, <2>2
  <2> QED  BY <2>1, <2>2
<1>11. Content' \in {Content, <<>>} /\ Position' \in {0, Size'} /\ todo' = 0 /\ got' = <<>> /\ Appending' \in BOOLEAN
  BY <1>1, <1>4, <1>8, <1>9 DEF UnitsInv, NothingPending, Appending
<1>12. Whole!Next
  BY <1>4, <1>6, <1>8, <1>10, <1>11
     DEF Whole!Next, Whole!Open, Whole!AtRest, Whole!NoFault, Position, Appending
<1>13. "preallocate" \notin flags'
  BY <1>4
<1> QED  BY <1>12, <1>13 DEF Implements, ZerosAhead

\* OpenFails does to the bytes what the ByteFile allows, or leaves them alone.
LEMMA OpenFailsImplements ==
  ASSUME FileInv, FileInv', UnitsInv, UnitsInv', OpenFails, Holds(entry.first, entry.size)
  PROVE  Implements
<1>1. FileTypes /\ pc = "closed" /\ Holds(entry.first, entry.size)
  BY DEF FileInv, OpenFails
<1>2. PICK L \in Nat : \E ch \in Chains(L) : Chain(next, entry.first, L, ch) /\ Own(L, ch) /\ Need(entry.size) <= L
  BY <1>1, OpensOn
<1>3. PICK ch \in Chains(L) : Chain(next, entry.first, L, ch) /\ Own(L, ch) /\ Need(entry.size) <= L
  BY <1>2
<1>4. PICK n \in 0 .. L - 1 : next' = FreedFrom(entry.first, n)
  <2>1. Cardinality(ChainOf(entry.first)) = L
    BY <1>3, ChainOfChain
  <2> QED  BY <2>1 DEF OpenFails
<1>5. next' = Unlinked(next, ch, -1, n) /\ n \in Nat
  BY <1>3, <1>4, FreedIs
<1>6. UNCHANGED <<foreign, entry, pc, todo, got>> /\ faults' = faults + 1 /\ Forget
  BY DEF OpenFails, call, Fault
<1>7. -1 \in Int /\ -1 <= -1 /\ -1 <= L - 1 /\ n <= L - 1 - (-1)
  OBVIOUS
<1>8. Released(next, next', L, ch, -1, n)
  BY <1>3, <1>5, <1>7, UnlinkedChain
<1>9. /\ First = entry.first /\ Length = entry.size /\ Size = entry.size /\ Mode = "closed" /\ Position = 0 /\ ~Appending
      /\ todo = 0 /\ got = <<>> /\ Length \in Nat
  BY <1>1, Shut, Units DEF Lost, IsOpen, UnitsInv, NothingPending, FileTypes
<1>10. /\ First' = entry.first /\ Length' = entry.size /\ Size' = entry.size /\ Position' = 0 /\ ~Appending' /\ ~Sound'
       /\ Mode' = (IF Lost' THEN "lost" ELSE "closed") /\ Length' \in Nat
  BY <1>1, <1>6, <1>9, ShutThen
<1>11. ZerosAhead'
  BY <1>10 DEF ZerosAhead
<1>12. CASE n = 0
  <2>1. \A i \in 0 .. L - 1 : i \in -1 + n + 1 .. L - 1
    BY <1>12
  <2>2. ASSUME NEW i \in 0 .. L - 1 PROVE next'[ch[i]] = next[ch[i]] /\ next'[ch[i]] # 0 /\ ch[i] \in Clusters
    <3>1. next'[ch[i]] = next[ch[i]]
      BY <1>8, <2>1 DEF Released
    <3>2. \A j \in 0 .. L - 1 : ch[j] \in Clusters /\ ch[j] # 0
      BY <1>3, NoCluster DEF Chain
    <3>3. next[ch[i]] = IF i = L - 1 THEN EOC ELSE ch[i + 1]
      BY <1>3 DEF Chain
    <3>4. i # L - 1 => i + 1 \in 0 .. L - 1
      OBVIOUS
    <3> QED  BY <3>1, <3>2, <3>3, <3>4, NoCluster
  <2>3. Chain(next', entry.first, L, ch)
    BY <1>3, <2>2, ChainKept
  <2>4. ~Lost'
    <3>1. HoldsIn(next', foreign', entry.first, entry.size)
      BY <1>3, <1>6, <1>9, <2>3, HoldsChain DEF Own
    <3> QED  BY <1>10, <3>1, LostThen
  <2>5. Content' = Content
    <3>1. ContentIn(next', data', entry.first, entry.size) = UnitsOf(data', ch, entry.size)
      BY <1>3, <1>9, <2>3, ContentChain
    <3>2. ContentIn(next, data, entry.first, entry.size) = UnitsOf(data, ch, entry.size)
      BY <1>3, <1>9, ContentChain
    <3>3. UnitsOf(data', ch, entry.size) = UnitsOf(data, ch, entry.size)
      <4>1. Need(entry.size) \in Nat
        BY <1>9, NeedType
      <4>2. \A k \in 0 .. Need(entry.size) - 1 : data'[ch[k]] = data[ch[k]]
        BY <1>3, <1>6, <2>2, <4>1, Remembered
      <4> QED  BY <1>9, <4>2, SameUnits
    <3> QED  BY <1>9, <1>10, <3>1, <3>2, <3>3, ContentNow, ContentThen
  <2>6. Whole!Next
    BY <1>6, <1>9, <1>10, <2>4, <2>5
       DEF Whole!Next, Whole!OpenFails, Whole!AtRest, Whole!Fault, Whole!Same, Position, Appending
  <2> QED  BY <1>11, <2>6 DEF Implements
<1>13. CASE n # 0
  <2>1. 0 \in -1 + 1 .. -1 + n /\ 0 \in 0 .. L - 1 /\ L # 0
    BY <1>13
  <2>2. next'[ch[0]] = 0 /\ ch[0] \in Clusters /\ entry.first = ch[0]
    BY <1>3, <1>8, <2>1 DEF Released, Chain
  <2>3. Lost'
    <3>1. ~HoldsIn(next', foreign', entry.first, entry.size)
      BY <2>2, HoldsGone DEF GoneIn
    <3> QED  BY <1>10, <3>1, LostThen
  <2>4. Content' \in Seq(Nat) /\ Size' = Len(Content')
    BY <1>10, ContentTypeThen DEF UnitsInv
  <2>5. Whole!Next
    BY <1>6, <1>9, <1>10, <2>3, <2>4
       DEF Whole!Next, Whole!Loses, Whole!AtRest, Whole!Fault, Whole!Byte, Position, Appending
  <2> QED  BY <1>11, <2>5 DEF Implements
<1> QED  BY <1>12, <1>13

\* Remove does to the bytes what the ByteFile allows, or leaves them alone.
LEMMA RemoveImplements ==
  ASSUME CloseOnError, FileInv, UnitsInv, UnitsInv', Remove PROVE Implements
<1>1. Call /\ pc' = "closed" /\ entry' = [used |-> FALSE, first |-> 0, size |-> 0] /\ todo' = 0 /\ got' = <<>>
      /\ (faults' = faults \/ faults' = faults + 1)
  BY DEF Remove, Closed, NoFault, Fault
<1>2. Mode = "idle"
  BY <1>1, Seen
<1>3. First' = 0 /\ Size' = 0 /\ Length' = 0 /\ Position' = 0 /\ ~Appending' /\ ~Sound'
      /\ Mode' = (IF Lost' THEN "lost" ELSE "closed")
  BY <1>1, ShutThen
<1>4. ~Lost'
  BY <1>3, HoldsNone, LostThen
<1>5. Content' = <<>>
  BY <1>3, NoBytesThen
<1>6. Whole!Next
  BY <1>1, <1>2, <1>3, <1>4, <1>5
     DEF Whole!Next, Whole!Remove, Whole!AtRest, Whole!Fault, Whole!NoFault, Position, Appending
<1> QED  BY <1>3, <1>6 DEF Implements, ZerosAhead

\* RemoveFails does to the bytes what the ByteFile allows, or leaves them alone.
LEMMA RemoveFailsImplements ==
  ASSUME CloseOnError, FileInv, FileInv', UnitsInv, UnitsInv', RemoveFails PROVE Implements
<1>1. Call /\ FileTypes
  BY DEF RemoveFails, FileInv
<1>2. PICK L \in Nat : \E ch \in Chains(L) : /\ Handle(L, ch) /\ Cursor(L, ch) /\ Need(fileSize) <= L
                                             /\ Content = UnitsOf(data, ch, fileSize)
  BY <1>1, Seen
<1>3. PICK ch \in Chains(L) : /\ Handle(L, ch) /\ Cursor(L, ch) /\ Need(fileSize) <= L
                              /\ Content = UnitsOf(data, ch, fileSize)
  BY <1>2
<1>4. Chain(next, firstCluster, L, ch) /\ Own(L, ch)
  BY <1>3 DEF Handle
<1>5. PICK n \in 0 .. L : next' = FreedFrom(firstCluster, n)
  <2>1. Cardinality(ChainOf(firstCluster)) = L
    BY <1>4, ChainOfChain
  <2> QED  BY <2>1 DEF RemoveFails
<1>6. next' = Unlinked(next, ch, -1, n)
  BY <1>4, <1>5, FreedIs
<1>7. UNCHANGED <<foreign, firstCluster, fileSize, flags>> /\ Fails /\ faults' = faults + 1 /\ Forget
  BY DEF RemoveFails, cursor, file, Fault
<1>8. -1 \in Int /\ -1 <= -1 /\ -1 <= L - 1 /\ n <= L - 1 - (-1) /\ n \in Nat
  OBVIOUS
<1>9. Released(next, next', L, ch, -1, n)
  BY <1>4, <1>6, <1>8, UnlinkedChain
<1>10. CASE n = 0
  <2>1. \A i \in 0 .. L - 1 : i \in -1 + n + 1 .. L - 1
    BY <1>10
  <2>2. \A i \in 0 .. L - 1 : next'[ch[i]] = next[ch[i]]
    BY <1>9, <2>1 DEF Released
  <2>3. Chain(next', firstCluster', L, ch)
    BY <1>4, <1>7, <2>2, ChainKept
  <2>4. \A k \in 0 .. L - 1 : next'[ch[k]] # 0 /\ ch[k] \in Clusters
    BY <2>3, NoCluster DEF Chain
  <2>5. fileSize \in Nat /\ Need(fileSize) \in Nat
    BY <1>1, Seen, NeedType
  <2>6. \A k \in 0 .. Need(fileSize) - 1 : data'[ch[k]] = data[ch[k]]
    BY <1>3, <1>7, <2>4, <2>5, Remembered
  <2>7. \A i \in 0 .. L - 1 : ch[i] \notin foreign'
    BY <1>4, <1>7 DEF Own
  <2> QED  BY <1>1, <1>3, <1>7, <2>3, <2>6, <2>7, FailsKept
<1>11. CASE n # 0
  <2>1. 0 \in -1 + 1 .. -1 + n /\ 0 \in 0 .. L - 1 /\ L # 0
    BY <1>11
  <2>2. next'[ch[0]] = 0 /\ ch[0] \in Clusters /\ firstCluster = ch[0]
    BY <1>4, <1>9, <2>1 DEF Released, Chain
  <2>3. First' = firstCluster /\ Size' = fileSize
    BY <1>7, Returned DEF Fails
  <2>4. ~HoldsIn(next', foreign', First', Size')
    BY <2>2, <2>3, HoldsGone DEF GoneIn
  <2>5. Lost'
    BY <2>4, LostThen
  <2> QED  BY <1>1, <1>7, <2>5, FailsLost
<1> QED  BY <1>10, <1>11

-----------------------------------------------------------------------------
(* The mapping: truncate.                                                  *)

\* The first p bytes of a file.
LEMMA Shorter ==
  ASSUME NEW d, NEW ch, NEW n \in Nat, NEW p \in 0 .. n, NEW s, s = UnitsOf(d, ch, n), s \in Seq(Nat), Len(s) = n
  PROVE  UnitsOf(d, ch, p) = SubSeq(s, 1, p)
<1>1. SubSeq(s, 1, p) = [i \in 1 .. p |-> s[i]]
  OBVIOUS
<1>2. ASSUME NEW i \in 1 .. p PROVE s[i] = d[ch[(i - 1) \div ClusterUnits]][(i - 1) % ClusterUnits]
  <2>1. i \in 1 .. n
    OBVIOUS
  <2> QED  BY <2>1 DEF UnitsOf
<1> QED  BY <1>1, <1>2 DEF UnitsOf

\* What truncate leaves of the chain: k is the index of the last cluster it keeps.
LEMMA TruncateLeaves ==
  ASSUME CloseOnError, FileInv, UnitsInv, Call, firstCluster # 0
  PROVE  \E L \in Nat : \E ch \in Chains(L) : \E k \in Int :
           /\ Chain(next, firstCluster, L, ch) /\ Own(L, ch) /\ L > 0 /\ -1 <= k /\ k <= L - 1
           /\ Need(curPosition) = k + 1 /\ Need(fileSize) <= L /\ Content = UnitsOf(data, ch, fileSize)
           /\ Kept = FirstOf(firstCluster, k)
           /\ Truncated(Cardinality(ChainOf(ToFree))) = Unlinked(next, ch, k, L - 1 - k)
           /\ ToFree \in Clusters => /\ Cardinality(ChainOf(ToFree)) = L - 1 - k
                                     /\ \A n \in 0 .. L - 1 - k : Truncated(n) = Unlinked(next, ch, k, n)
<1> DEFINE m == ClusterIndex(curPosition)
<1>1. FileTypes /\ pc = "idle" /\ curPosition \in Nat /\ fileSize \in Nat /\ ~failed
  BY Seen, Units DEF FileTypes
<1>2. PICK L \in Nat : \E ch \in Chains(L) : /\ Handle(L, ch) /\ Cursor(L, ch) /\ Need(fileSize) <= L
                                             /\ Content = UnitsOf(data, ch, fileSize)
  BY Seen
<1>3. PICK ch \in Chains(L) : /\ Handle(L, ch) /\ Cursor(L, ch) /\ Need(fileSize) <= L
                              /\ Content = UnitsOf(data, ch, fileSize)
  BY <1>2
<1>4. Chain(next, firstCluster, L, ch) /\ Own(L, ch)
  BY <1>3 DEF Handle
<1>5. At(curPosition, curCluster, L, ch)
  BY <1>1, <1>3 DEF Cursor, Moving, At
<1>6. L > 0
  BY <1>4 DEF Chain
<1>7. m \in Int /\ -1 <= m /\ (m = -1 => curPosition = 0) /\ (m >= 0 => curPosition > 0) /\ Need(curPosition) = m + 1
  BY <1>1, Places
<1>8. m <= L - 1 /\ (m = -1 => curCluster = 0) /\ (m >= 0 => curCluster = ch[m])
  BY <1>5, <1>6, <1>7 DEF At
<1> HIDE DEF m
<1>9. PICK k \in Int : k = m
  BY <1>7
<1>10. -1 <= k /\ k <= L - 1 /\ (k = -1 => curCluster = 0) /\ (k >= 0 => curCluster = ch[k]) /\ Need(curPosition) = k + 1
  BY <1>7, <1>8, <1>9
<1>11. /\ Kept = FirstOf(firstCluster, k)
       /\ Truncated(Cardinality(ChainOf(ToFree))) = Unlinked(next, ch, k, L - 1 - k)
       /\ ToFree \in Clusters => /\ Cardinality(ChainOf(ToFree)) = L - 1 - k
                                 /\ \A n \in 0 .. L - 1 - k : Truncated(n) = Unlinked(next, ch, k, n)
  BY <1>1, <1>4, <1>6, <1>10, TruncatedIs
<1> QED  BY <1>3, <1>4, <1>6, <1>10, <1>11

\* The clusters that truncate keeps, and what they hold.
LEMMA LeftOver ==
  ASSUME UnitsInv, NEW L \in Nat, NEW ch \in Chains(L), Chain(next, firstCluster, L, ch), Own(L, ch),
         NEW k \in Int, -1 <= k, k <= L - 1, NEW n \in Nat, n <= L - 1 - k, next' = Unlinked(next, ch, k, n),
         Forget, UNCHANGED foreign, NEW M \in Nat, M = k + 1
  PROVE  /\ Chain(next', FirstOf(firstCluster, k), M, UpTo(ch, k)) /\ \A i \in 0 .. M - 1 : UpTo(ch, k)[i] \notin foreign'
         /\ \A i \in 0 .. M - 1 : UpTo(ch, k)[i] = ch[i] /\ data'[ch[i]] = data[ch[i]]
<1>1. Chain(next', FirstOf(firstCluster, k), k + 1, UpTo(ch, k))
  BY UnlinkedChain
<1>2. Chain(next', FirstOf(firstCluster, k), M, UpTo(ch, k)) /\ M - 1 = k
  BY <1>1
<1>3. \A i \in 0 .. M - 1 : UpTo(ch, k)[i] = ch[i] /\ i \in 0 .. L - 1
  BY <1>2 DEF UpTo
<1>4. \A i \in 0 .. M - 1 : next'[UpTo(ch, k)[i]] # 0 /\ UpTo(ch, k)[i] \in Clusters
  BY <1>2, NoCluster DEF Chain
<1>5. \A i \in 0 .. M - 1 : data'[ch[i]] = data[ch[i]]
  BY <1>3, <1>4, Remembered
<1>6. \A i \in 0 .. M - 1 : UpTo(ch, k)[i] \notin foreign'
  BY <1>3 DEF Own
<1> QED  BY <1>2, <1>3, <1>5, <1>6

\* Truncate does to the bytes what the ByteFile allows, or leaves them alone.
LEMMA TruncateImplements ==
  ASSUME CloseOnError, FileInv, UnitsInv, ZerosAhead, Truncate PROVE Implements
<1>1. Call /\ Forget /\ UNCHANGED <<foreign, curPosition>>
  BY DEF Truncate, cursor
<1>2. fileSize \in Nat /\ curPosition \in 0 .. fileSize /\ curPosition \in Nat
  BY <1>1, Seen
<1>3. CASE firstCluster = 0
  <2>1. UNCHANGED <<next, foreign, firstCluster, fileSize, flags, curPosition>> /\ Succeeds /\ NoFault
    BY <1>1, <1>3 DEF Truncate, file
  <2>2. data' = data
    BY <1>1, <2>1, Remembered
  <2> QED  BY <1>1, <1>2, <2>1, <2>2, SucceedsSame
<1>4. CASE firstCluster # 0
  <2>1. next' = Truncated(Cardinality(ChainOf(ToFree))) /\ firstCluster' = Kept /\ fileSize' = curPosition
        /\ Sync(Kept, curPosition, flags \cup {"dirDirty"})
    BY <1>4 DEF Truncate
  <2>2. PICK L \in Nat : \E ch \in Chains(L) : \E k \in Int :
           /\ Chain(next, firstCluster, L, ch) /\ Own(L, ch) /\ L > 0 /\ -1 <= k /\ k <= L - 1
           /\ Need(curPosition) = k + 1 /\ Need(fileSize) <= L /\ Content = UnitsOf(data, ch, fileSize)
           /\ Kept = FirstOf(firstCluster, k)
           /\ Truncated(Cardinality(ChainOf(ToFree))) = Unlinked(next, ch, k, L - 1 - k)
    BY <1>1, <1>4, TruncateLeaves
  <2>3. PICK ch \in Chains(L) : \E k \in Int :
           /\ Chain(next, firstCluster, L, ch) /\ Own(L, ch) /\ L > 0 /\ -1 <= k /\ k <= L - 1
           /\ Need(curPosition) = k + 1 /\ Need(fileSize) <= L /\ Content = UnitsOf(data, ch, fileSize)
           /\ Kept = FirstOf(firstCluster, k)
           /\ Truncated(Cardinality(ChainOf(ToFree))) = Unlinked(next, ch, k, L - 1 - k)
    BY <2>2
  <2>4. PICK k \in Int :
           /\ Chain(next, firstCluster, L, ch) /\ Own(L, ch) /\ L > 0 /\ -1 <= k /\ k <= L - 1
           /\ Need(curPosition) = k + 1 /\ Need(fileSize) <= L /\ Content = UnitsOf(data, ch, fileSize)
           /\ Kept = FirstOf(firstCluster, k)
           /\ Truncated(Cardinality(ChainOf(ToFree))) = Unlinked(next, ch, k, L - 1 - k)
    BY <2>3
  <2>5. PICK n \in Nat : n = L - 1 - k
    BY <2>4
  <2>6. PICK M \in Nat : M = k + 1
    BY <2>4
  <2>7. n <= L - 1 - k /\ next' = Unlinked(next, ch, k, n)
    BY <2>1, <2>4, <2>5
  <2> DEFINE d == UpTo(ch, k)
  <2>8. /\ Chain(next', FirstOf(firstCluster, k), M, d) /\ \A i \in 0 .. M - 1 : d[i] \notin foreign'
        /\ \A i \in 0 .. M - 1 : d[i] = ch[i] /\ data'[ch[i]] = data[ch[i]]
    BY <1>1, <2>4, <2>6, <2>7, LeftOver
  <2> HIDE DEF d
  <2>9. Chain(next', firstCluster', M, d) /\ Need(curPosition) = M /\ Need(curPosition) <= M
    BY <2>1, <2>4, <2>6, <2>8
  <2>10. pc' = "idle" /\ ("append" \in flags' <=> "append" \in flags) /\ todo' = 0 /\ got' = <<>>
         /\ \/ failed' = FALSE /\ faults' = faults
            \/ failed' = TRUE /\ faults' = faults + 1
    BY <1>1, <2>1, Seen DEF Sync, Succeeds, Fails, NoFault, Fault, call
  <2>11. First' = firstCluster' /\ Size' = curPosition /\ Length' = curPosition /\ Length' \in Nat
         /\ Mode' = (IF Lost' THEN "lost" ELSE IF failed' THEN "error" ELSE "idle")
         /\ Position' = (IF failed' THEN 0 ELSE curPosition) /\ (Sound' <=> ~failed') /\ (Appending' <=> Appending)
    BY <1>1, <1>2, <2>1, <2>10, Returned, Seen DEF Appending
  <2>12. ~Lost'
    <3>1. HoldsIn(next', foreign', firstCluster', curPosition)
      BY <1>2, <2>8, <2>9, HoldsChain
    <3> QED  BY <2>11, <3>1, LostThen
  <2>13. Content' = SubSeq(Content, 1, curPosition) /\ Len(Content') = curPosition
    <3>1. ContentIn(next', data', firstCluster', curPosition) = UnitsOf(data', d, curPosition)
      BY <1>2, <2>9, ContentChain
    <3>2. UnitsOf(data', d, curPosition) = UnitsOf(data, ch, curPosition)
      BY <1>2, <2>8, <2>9, SameUnits
    <3>3. Content \in Seq(Nat) /\ Len(Content) = fileSize
      BY <1>1, Seen
    <3>4. UnitsOf(data, ch, curPosition) = SubSeq(Content, 1, curPosition)
      BY <1>2, <2>4, <3>3, Shorter
    <3>5. Content' = SubSeq(Content, 1, curPosition)
      BY <2>11, <3>1, <3>2, <3>4, ContentThen
    <3> QED  BY <1>2, <3>3, <3>5
  <2>14. Mode = "idle" /\ Position = curPosition
    BY <1>1, Seen
  <2>15. Whole!Next
    BY <2>10, <2>11, <2>12, <2>13, <2>14
       DEF Whole!Next, Whole!Truncate, Whole!LateFails, Whole!AtRest, Whole!Fault, Whole!NoFault,
           Position, Appending
  <2>16. ZerosAhead'
    <3>1. Sound' => curPosition' = Length'
      BY <1>1, <2>11
    <3> QED  BY <1>2, <2>11, <3>1 DEF ZerosAhead
  <2> QED  BY <2>15, <2>16 DEF Implements
<1> QED  BY <1>3, <1>4

\* TruncateFails does to the bytes what the ByteFile allows, or leaves them alone.
LEMMA TruncateFailsImplements ==
  ASSUME CloseOnError, FileInv, FileInv', UnitsInv, UnitsInv', TruncateFails PROVE Implements
<1>1. Call /\ Forget /\ UNCHANGED <<foreign, fileSize, flags>> /\ Fails /\ faults' = faults + 1 /\ firstCluster # 0
  BY DEF TruncateFails, Fault
<1>2. fileSize \in Nat
  BY <1>1, Seen
<1>3. CASE UNCHANGED <<next, firstCluster>>
  <2>1. data' = data
    BY <1>1, <1>3, Remembered
  <2> QED  BY <1>1, <1>3, <2>1, FailsSame
<1>4. CASE /\ ToFree \in Clusters
           /\ \E n \in 0 .. Cardinality(ChainOf(ToFree)) - 1 : next' = Truncated(n)
           /\ firstCluster' = Kept
  <2>2. PICK L \in Nat : \E ch \in Chains(L) : \E k \in Int :
           /\ Chain(next, firstCluster, L, ch) /\ Own(L, ch) /\ L > 0 /\ -1 <= k /\ k <= L - 1
           /\ Content = UnitsOf(data, ch, fileSize) /\ Kept = FirstOf(firstCluster, k)
           /\ Cardinality(ChainOf(ToFree)) = L - 1 - k
           /\ \A n \in 0 .. L - 1 - k : Truncated(n) = Unlinked(next, ch, k, n)
    BY <1>1, <1>4, TruncateLeaves
  <2>3. PICK ch \in Chains(L) : \E k \in Int :
           /\ Chain(next, firstCluster, L, ch) /\ Own(L, ch) /\ L > 0 /\ -1 <= k /\ k <= L - 1
           /\ Content = UnitsOf(data, ch, fileSize) /\ Kept = FirstOf(firstCluster, k)
           /\ Cardinality(ChainOf(ToFree)) = L - 1 - k
           /\ \A n \in 0 .. L - 1 - k : Truncated(n) = Unlinked(next, ch, k, n)
    BY <2>2
  <2>4. PICK k \in Int :
           /\ Chain(next, firstCluster, L, ch) /\ Own(L, ch) /\ L > 0 /\ -1 <= k /\ k <= L - 1
           /\ Content = UnitsOf(data, ch, fileSize) /\ Kept = FirstOf(firstCluster, k)
           /\ Cardinality(ChainOf(ToFree)) = L - 1 - k
           /\ \A n \in 0 .. L - 1 - k : Truncated(n) = Unlinked(next, ch, k, n)
    BY <2>3
  <2>5. PICK n \in Nat : n <= L - 1 - k /\ next' = Truncated(n)
    BY <1>4, <2>4
  <2>6. PICK M \in Nat : M = k + 1
    BY <2>4
  <2>7. next' = Unlinked(next, ch, k, n)
    BY <2>4, <2>5
  <2> DEFINE d == UpTo(ch, k)
  <2>8. /\ Chain(next', FirstOf(firstCluster, k), M, d) /\ \A i \in 0 .. M - 1 : d[i] \notin foreign'
        /\ \A i \in 0 .. M - 1 : d[i] = ch[i] /\ data'[ch[i]] = data[ch[i]]
    BY <1>1, <2>4, <2>5, <2>6, <2>7, LeftOver
  <2> HIDE DEF d
  <2>9. Chain(next', firstCluster', M, d)
    BY <1>4, <2>4, <2>8
  <2>10. Need(fileSize) \in Nat
    BY <1>2, NeedType
  <2>11. CASE Need(fileSize) <= M
    <3>1. \A i \in 0 .. Need(fileSize) - 1 : d[i] = ch[i] /\ data'[ch[i]] = data[ch[i]]
      BY <2>8, <2>10, <2>11
    <3> QED  BY <1>1, <2>4, <2>8, <2>9, <2>11, <3>1, FailsKept
  <2>12. CASE M < Need(fileSize)
    <3>1. First' = firstCluster' /\ Size' = fileSize
      BY <1>1, Returned DEF Fails
    <3>2. ~HoldsIn(next', foreign', First', Size')
      BY <1>2, <2>9, <2>12, <3>1, HoldsNot
    <3>3. Lost'
      BY <3>2, LostThen
    <3> QED  BY <1>1, <3>3, FailsLost
  <2> QED  BY <2>10, <2>11, <2>12
<1> QED  BY <1>3, <1>4 DEF TruncateFails

-----------------------------------------------------------------------------
(* The mapping: preAllocate.                                               *)

\* The units of clusters that hold nothing known.
LEMMA JunkUnits ==
  ASSUME NEW d, NEW ch, NEW n \in Nat, \A k \in 0 .. Need(n) - 1 : d[ch[k]] = Junk
  PROVE  UnitsOf(d, ch, n) = [i \in 1 .. n |-> 0]
<1>1. ASSUME NEW i \in 1 .. n PROVE d[ch[(i - 1) \div ClusterUnits]][(i - 1) % ClusterUnits] = 0
  <2> DEFINE k == (i - 1) \div ClusterUnits
             r == (i - 1) % ClusterUnits
  <2>1. k \in 0 .. Need(n) - 1 /\ r \in 0 .. ClusterUnits - 1
    BY UnitIn
  <2> HIDE DEF k, r
  <2>2. d[ch[k]] = Junk /\ Junk[r] = 0
    BY <2>1 DEF Junk, NoByte
  <2> QED  BY <2>2 DEF k, r
<1> QED  BY <1>1 DEF UnitsOf

\* PreAllocate does to the bytes what the ByteFile allows, or leaves them alone.
LEMMA PreAllocateImplements ==
  ASSUME CloseOnError, FileInv, UnitsInv, ZerosAhead, NEW size \in Sizes, PreAllocate(size) PROVE Implements
<1>1. Call /\ firstCluster = 0 /\ size > 0 /\ size \in 1 .. MaxSize /\ size \in Nat /\ UNCHANGED <<foreign, data, curPosition>>
      /\ FileTypes
  BY Units DEF PreAllocate, Sizes, cursor, FileInv
<1>2. PICK c \in Clusters :
        /\ Run(c, Need(size)) \subseteq Free
        /\ next' = [k \in Clusters |->
                      IF k \notin Run(c, Need(size)) THEN next[k] ELSE IF k + 1 \in Run(c, Need(size)) THEN k + 1 ELSE EOC]
        /\ firstCluster' = c /\ fileSize' = size
        /\ Sync(c, size, flags \cup {"preallocate", "contiguous", "dirDirty"})
  BY DEF PreAllocate
<1>3. PICK L \in Nat : L = Need(size) /\ L >= 1
  BY <1>1, Places
<1>4. PICK ch \in Chains(L) : Chain(next', c, L, ch) /\ \A i \in 0 .. L - 1 : ch[i] = c + i
  BY <1>2, <1>3, Allocated
<1>5. \A i \in 0 .. L - 1 : c + i \in Clusters /\ next[c + i] = 0
  BY <1>2, <1>3, Allocated
<1>6. fileSize = 0 /\ curPosition = 0 /\ Content = <<>> /\ Mode = "idle" /\ Position = 0 /\ IsOpen /\ ~failed
  <2>1. PICK M \in Nat : \E old \in Chains(M) : Handle(M, old) /\ Cursor(M, old)
    BY <1>1, Called
  <2>2. PICK old \in Chains(M) : Handle(M, old) /\ Cursor(M, old)
    BY <2>1
  <2>3. fileSize = 0 /\ curPosition = 0
    BY <1>1, <2>2, NoChain DEF Call
  <2> QED  BY <1>1, <2>3, Seen, NoBytes
<1>7. pc' = "idle" /\ ("append" \in flags' <=> "append" \in flags) /\ todo' = 0 /\ got' = <<>>
      /\ \/ failed' = FALSE /\ faults' = faults
         \/ failed' = TRUE /\ faults' = faults + 1
  BY <1>1, <1>2, Seen DEF Sync, Succeeds, Fails, NoFault, Fault, call
<1>8. First' = c /\ Size' = size /\ Length' = size /\ Length' \in Nat
      /\ Mode' = (IF Lost' THEN "lost" ELSE IF failed' THEN "error" ELSE "idle")
      /\ Position' = 0 /\ (Sound' <=> ~failed') /\ (Appending' <=> Appending)
  BY <1>1, <1>2, <1>6, <1>7, Returned DEF Appending
<1>9. ~Lost'
  <2>1. \A k \in foreign : next[k] # 0
    BY <1>1, NoCluster DEF FileTypes
  <2>2. \A i \in 0 .. L - 1 : ch[i] \notin foreign'
    BY <1>1, <1>4, <1>5, <2>1
  <2>3. Need(size) <= L
    BY <1>3
  <2>4. HoldsIn(next', foreign', c, size)
    BY <1>1, <1>4, <2>2, <2>3, HoldsChain
  <2> QED  BY <1>8, <2>4, LostThen
<1>10. Content' = [i \in 1 .. size |-> 0]
  <2>1. Need(size) <= L
    BY <1>3
  <2>2. ContentIn(next', data', c, size) = UnitsOf(data', ch, size)
    BY <1>1, <1>4, <2>1, ContentChain
  <2>3. \A k \in 0 .. Need(size) - 1 : data'[ch[k]] = Junk
    BY <1>1, <1>3, <1>4, <1>5 DEF UnitsInv, Unknown
  <2>4. UnitsOf(data', ch, size) = [i \in 1 .. size |-> 0]
    BY <1>1, <2>3, JunkUnits
  <2> QED  BY <1>8, <2>2, <2>4, ContentThen
<1>11. Len(Content') = size
  BY <1>1, <1>10
<1>12. Whole!Next
  BY <1>1, <1>6, <1>7, <1>8, <1>9, <1>10, <1>11
     DEF Whole!Next, Whole!PreAllocate, Whole!LateFails, Whole!AtRest, Whole!Fault, Whole!NoFault,
         Position, Appending
<1>13. ZerosAhead'
  BY <1>8, <1>10 DEF ZerosAhead, NoByte
<1> QED  BY <1>12, <1>13 DEF Implements

\* PreAllocateFails does to the bytes what the ByteFile allows, or leaves them alone.
LEMMA PreAllocateFailsImplements ==
  ASSUME CloseOnError, FileInv, UnitsInv, NEW size \in Sizes, PreAllocateFails(size) PROVE Implements
<1>1. Call /\ firstCluster = 0 /\ UNCHANGED <<foreign, data, firstCluster, fileSize, flags>> /\ Fails /\ faults' = faults + 1
      /\ FileTypes
  BY DEF PreAllocateFails, file, cursor, Fault, FileInv
<1>2. PICK L \in Nat : \E ch \in Chains(L) : /\ Handle(L, ch) /\ Cursor(L, ch) /\ Need(fileSize) <= L
                                             /\ Content = UnitsOf(data, ch, fileSize)
  BY <1>1, Seen
<1>3. PICK ch \in Chains(L) : /\ Handle(L, ch) /\ Cursor(L, ch) /\ Need(fileSize) <= L
                              /\ Content = UnitsOf(data, ch, fileSize)
  BY <1>2
<1>4. L = 0
  BY <1>1, <1>3, NoChain DEF Call
<1>5. Chain(next', firstCluster', L, ch) /\ \A i \in 0 .. L - 1 : ch[i] \notin foreign'
  BY <1>1, <1>3, <1>4 DEF Handle, Chain, Own
<1>6. \A k \in 0 .. Need(fileSize) - 1 : data'[ch[k]] = data[ch[k]]
  BY <1>1
<1> QED  BY <1>1, <1>3, <1>5, <1>6, FailsKept

-----------------------------------------------------------------------------
(* The mapping: close, other files, and every step.                        *)

\* Close does to the bytes what the ByteFile allows, or leaves them alone.
LEMMA CloseImplements == ASSUME CloseOnError, FileInv, UnitsInv, UnitsInv', FileInv', Close PROVE Implements
<1>1. /\ pc = "idle" /\ pc' = "closed" /\ failed' = FALSE /\ todo' = 0 /\ got' = <<>>
      /\ UNCHANGED <<next, foreign, data>>
      /\ \/ faults' = faults /\ entry' = IF "dirDirty" \in flags THEN Updated(firstCluster, fileSize) ELSE entry
         \/ faults' = faults + 1 /\ entry' = entry
  BY DEF Close, Closed, NoFault, Fault
<1>2. /\ First' = entry'.first /\ Size' = entry'.size /\ Length' = entry'.size /\ Position' = 0 /\ ~Appending' /\ ~Sound'
      /\ Mode' = (IF Lost' THEN "lost" ELSE "closed")
  BY <1>1, ShutThen
<1>3. Length' \in Nat
  BY <1>2, Units DEF FileInv, FileTypes
<1>4. Content' \in Seq(Nat) /\ Size' = Len(Content')
  BY <1>2, <1>3, ContentTypeThen DEF UnitsInv
<1>5. CASE failed \/ faults' = faults + 1
  <2>1. Mode \in {"idle", "error", "lost"} /\ (Mode = "idle" => ~failed)
    BY <1>1 DEF Mode, IsOpen, InWrite, InRead
  <2>2. Whole!Next
    BY <1>1, <1>2, <1>4, <1>5, <2>1
       DEF Whole!Next, Whole!CloseFails, Whole!AtRest, Whole!Fault, Whole!NoFault, Whole!Byte,
           Position, Appending
  <2> QED  BY <1>2, <2>2 DEF Implements, ZerosAhead
<1>6. CASE ~failed /\ faults' = faults /\ entry' = IF "dirDirty" \in flags THEN Updated(firstCluster, fileSize) ELSE entry
  <2>1. Call
    BY <1>1, <1>6 DEF Call
  <2>2. First = firstCluster /\ Size = fileSize /\ Length = fileSize /\ Length \in Nat /\ ~Lost /\ Mode = "idle"
    BY <2>1, Seen
  <2>3. PICK L \in Nat : \E ch \in Chains(L) : Handle(L, ch) /\ Cursor(L, ch)
    BY <2>1, Called
  <2>4. entry'.first = firstCluster /\ entry'.size = fileSize
    BY <1>6, <2>3 DEF Handle, Updated
  <2>5. Content' = Content /\ ~Lost' /\ Size' = Size
    BY <1>1, <1>2, <2>2, <2>4, Untouched
  <2>6. Whole!Next
    BY <1>1, <1>2, <1>6, <2>2, <2>5
       DEF Whole!Next, Whole!Close, Whole!AtRest, Whole!Same, Whole!NoFault, Position, Appending
  <2> QED  BY <1>2, <2>6 DEF Implements, ZerosAhead
<1> QED  BY <1>1, <1>5, <1>6

\* Behind a first cluster that was freed there is nothing.
LEMMA GoneWalk ==
  ASSUME NEW t, NEW f, NEW h, GoneIn(t, f, h), \A k \in f : t[k] = EOC
  PROVE  WalkIn(t, h, 0) = h /\ \A n \in Nat : n # 0 => WalkIn(t, h, n) \notin Clusters
<1> DEFINE S == {n \in Nat : n # 0 => WalkIn(t, h, n) \notin Clusters}
<1>1. WalkIn(t, h, 0) = h /\ h \in Clusters /\ t[h] \in {0, EOC}
  BY WalkStep DEF GoneIn
<1>2. 0 \in S
  OBVIOUS
<1>3. ASSUME NEW n \in Nat, n \in S PROVE n + 1 \in S
  <2>1. WalkIn(t, h, n + 1) = IF WalkIn(t, h, n) \in Clusters THEN t[WalkIn(t, h, n)] ELSE EOC
    BY WalkStep
  <2>2. WalkIn(t, h, n) \in Clusters => n = 0
    BY <1>3
  <2> QED  BY <1>1, <2>1, <2>2, NoCluster
<1> HIDE DEF S
<1>4. Nat \subseteq S
  BY <1>2, <1>3, Induction
<1> QED  BY <1>1, <1>4 DEF S

\* Two tables in which the walk meets the same clusters show the same bytes.
LEMMA SameWalks ==
  ASSUME NEW t, NEW u, NEW d, NEW h, NEW n \in Nat,
         \A k \in Nat : \/ WalkIn(t, h, k) = WalkIn(u, h, k)
                        \/ WalkIn(t, h, k) \notin Clusters /\ WalkIn(u, h, k) \notin Clusters
  PROVE  ContentIn(u, d, h, n) = ContentIn(t, d, h, n)
<1> DEFINE g(v, i) == IF WalkIn(v, h, (i - 1) \div ClusterUnits) \in Clusters
                      THEN d[WalkIn(v, h, (i - 1) \div ClusterUnits)][(i - 1) % ClusterUnits] ELSE NoByte
<1>1. ASSUME NEW i \in 1 .. n PROVE g(u, i) = g(t, i)
  <2>1. (i - 1) \div ClusterUnits \in Nat
    BY UnitIn
  <2> QED  BY <2>1
<1> HIDE DEF g
<1>2. [i \in 1 .. n |-> g(u, i)] = [i \in 1 .. n |-> g(t, i)]
  BY <1>1
<1> QED  BY <1>2 DEF ContentIn, g

\* What another file does changes no byte of this one.
LEMMA OtherImplements ==
  ASSUME FileInv, UnitsInv, ZerosAhead, NEW c \in Clusters, OtherTakes(c) \/ OtherFrees(c) PROVE Implements
<1>1. pc \in {"closed", "idle"} /\ UNCHANGED <<data, entry, cursor, file, flags, pc, call, failed, faults>>
  BY DEF OtherTakes, OtherFrees
<1>2. First' = First /\ Size' = Size /\ Length' = Length /\ (IsOpen' <=> IsOpen) /\ (Sound' <=> Sound) /\ Position' = Position
      /\ ~InWrite /\ ~InWrite' /\ ~InRead /\ ~InRead' /\ Appending' = Appending /\ todo' = todo /\ got' = got
  BY <1>1 DEF First, Size, Length, IsOpen, Sound, Position, InWrite, InRead, Appending, call, file, cursor
<1>3. FileTypes /\ FileTypes' /\ Length \in Nat /\ Size \in Nat
  <2>1. FileTypes /\ FileTypes'
    BY OtherKeeps DEF FileInv
  <2>2. Length = Size /\ Size \in Nat
    BY <1>2, <2>1, Units DEF Length, Size, FileTypes
  <2> QED  BY <2>1, <2>2
<1>4. Gone(First) \/ \E L \in Nat : \E ch \in Chains(L) : Chain(next, First, L, ch) /\ Own(L, ch)
  <2>1. CASE pc = "closed"
    BY <1>3, <2>1, Shut DEF FileInv, Chains
  <2>2. CASE pc = "idle"
    <3>1. First = firstCluster
      BY <2>2 DEF First, IsOpen
    <3> QED  BY <1>3, <2>2, <3>1 DEF FileInv, Handle, Chains, FileTypes
  <2> QED  BY <1>1, <2>1, <2>2
<1>5. CASE Gone(First)
  <2>1. GoneIn(next, foreign, First) /\ GoneIn(next', foreign', First)
    BY <1>3, <1>5, OtherKeeps DEF Gone, GoneIn
  <2>2. WalkIn(next, First, 0) = First /\ \A n \in Nat : n # 0 => WalkIn(next, First, n) \notin Clusters
    BY <1>3, <2>1, GoneWalk DEF FileTypes
  <2>3. WalkIn(next', First, 0) = First /\ \A n \in Nat : n # 0 => WalkIn(next', First, n) \notin Clusters
    BY <1>3, <2>1, GoneWalk DEF FileTypes
  <2>4. ContentIn(next', data, First, Length) = ContentIn(next, data, First, Length)
    BY <1>3, <2>2, <2>3, SameWalks
  <2>5. ~HoldsIn(next, foreign, First, Size) /\ ~HoldsIn(next', foreign', First, Size)
    BY <2>1, HoldsGone
  <2>6. Content' = Content /\ (Lost' <=> Lost)
    BY <1>1, <1>2, <1>3, <2>4, <2>5, ContentNow, ContentThen, LostNow, LostThen
  <2>7. Mode' = Mode
    BY <1>1, <1>2, <2>6 DEF Mode
  <2>8. UNCHANGED Whole!vars
    BY <1>1, <1>2, <2>6, <2>7, Stutters
  <2>9. ZerosAhead'
    BY <1>1, <1>2, <2>6 DEF ZerosAhead, cursor
  <2> QED  BY <2>8, <2>9 DEF Implements
<1>6. ASSUME NEW L \in Nat, NEW ch \in Chains(L), Chain(next, First, L, ch), Own(L, ch) PROVE Implements
  <2>1. Chain(next', First, L, ch) /\ Own(L, ch)'
    BY <1>3, <1>6, OtherKeeps
  <2>2. \A k \in Nat : WalkIn(next, First, k) = IF k < L THEN ch[k] ELSE IF k = 0 THEN 0 ELSE EOC
    BY <1>6, ChainWalk
  <2>3. \A k \in Nat : WalkIn(next', First, k) = IF k < L THEN ch[k] ELSE IF k = 0 THEN 0 ELSE EOC
    BY <2>1, ChainWalk
  <2>4. ContentIn(next', data, First, Length) = ContentIn(next, data, First, Length)
    BY <1>3, <2>2, <2>3, SameWalks
  <2>5. HoldsIn(next, foreign, First, Size) <=> Need(Size) <= L
    <3>1. Need(Size) \in Nat
      BY <1>3, NeedType
    <3>2. Need(Size) <= L => HoldsIn(next, foreign, First, Size)
      BY <1>3, <1>6, HoldsChain DEF Own
    <3>3. L < Need(Size) => ~HoldsIn(next, foreign, First, Size)
      BY <1>3, <1>6, HoldsNot
    <3> QED  BY <3>1, <3>2, <3>3
  <2>6. HoldsIn(next', foreign', First, Size) <=> Need(Size) <= L
    <3>1. Need(Size) \in Nat
      BY <1>3, NeedType
    <3>2. Need(Size) <= L => HoldsIn(next', foreign', First, Size)
      BY <1>3, <2>1, HoldsChain DEF Own
    <3>3. L < Need(Size) => ~HoldsIn(next', foreign', First, Size)
      BY <1>3, <2>1, HoldsNot
    <3> QED  BY <3>1, <3>2, <3>3
  <2>7. Content' = Content /\ (Lost' <=> Lost)
    BY <1>1, <1>2, <1>3, <2>4, <2>5, <2>6, ContentNow, ContentThen, LostNow, LostThen
  <2>8. Mode' = Mode
    BY <1>1, <1>2, <2>7 DEF Mode
  <2>9. UNCHANGED Whole!vars
    BY <1>1, <1>2, <2>7, <2>8, Stutters
  <2>10. ZerosAhead'
    BY <1>1, <1>2, <2>7 DEF ZerosAhead, cursor
  <2> QED  BY <2>9, <2>10 DEF Implements
<1> QED  BY <1>4, <1>5, <1>6

\* A stuttering step changes no byte.
LEMMA StutterImplements == ASSUME FileInv, ZerosAhead, UNCHANGED vars PROVE Implements
<1>1. UNCHANGED <<next, foreign, data, entry, curPosition, firstCluster, fileSize, flags, pc, todo, got, failed, faults>>
  BY DEF vars, volume, cursor, file, call
<1>2. First' = First /\ Size' = Size /\ Length' = Length /\ (IsOpen' <=> IsOpen) /\ (Sound' <=> Sound) /\ Position' = Position
      /\ (InWrite' <=> InWrite) /\ (InRead' <=> InRead) /\ Appending' = Appending
  BY <1>1 DEF First, Size, Length, IsOpen, Sound, Position, InWrite, InRead, Appending
<1>3. Length \in Nat
  BY Units DEF Length, Size, FileInv, FileTypes
<1>4. Content' = Content /\ (Lost' <=> Lost)
  BY <1>1, <1>2, <1>3, Untouched
<1>5. Mode' = Mode
  BY <1>1, <1>2, <1>4 DEF Mode
<1>6. UNCHANGED Whole!vars
  BY <1>1, <1>2, <1>4, <1>5, Stutters
<1>7. ZerosAhead'
  BY <1>1, <1>2, <1>4 DEF ZerosAhead
<1> QED  BY <1>6, <1>7 DEF Implements

\* Every step before a broken entry is opened is one of the ByteFile or none.
LEMMA StepImplements ==
  ASSUME CloseOnError, FileInv, FileInv', UnitsInv, UnitsInv', ZerosAhead, [Next]_vars, ~broken'
  PROVE  Implements
<1>1. CASE UNCHANGED vars
  BY <1>1, StutterImplements
<1>2. ASSUME NEW append \in SUBSET {"append"}, NEW atEnd \in BOOLEAN, NEW trunc \in BOOLEAN,
             Open(append, atEnd, trunc), Holds(entry.first, entry.size)
      PROVE  Implements
  BY <1>2, OpenImplements
<1>8. CASE OpenFails /\ Holds(entry.first, entry.size)
  BY <1>8, OpenFailsImplements
<1>3. CASE SyncCall \/ Close \/ Remove \/ RemoveFails \/ Truncate \/ TruncateFails \/ ContiguousRange
  BY <1>3, SyncCallImplements, CloseImplements, RemoveImplements, RemoveFailsImplements,
     TruncateImplements, TruncateFailsImplements, ContiguousRangeImplements
<1>4. ASSUME NEW n \in Sizes, \/ PreAllocate(n) \/ PreAllocateFails(n) \/ SeekSet(n) \/ SeekFails(n) \/ FSetPos(n)
                              \/ Write(n) \/ WriteRefused(n) \/ Read(n) \/ Get(n)
      PROVE  Implements
  <2>1. n \in Nat
    BY Units DEF Sizes
  <2>2. CASE PreAllocate(n) \/ PreAllocateFails(n)
    BY <2>2, PreAllocateImplements, PreAllocateFailsImplements
  <2>3. CASE SeekSet(n) \/ SeekFails(n) \/ FSetPos(n)
    BY <2>3, SeekImplements
  <2>4. CASE Write(n) \/ WriteRefused(n)
    BY <2>1, <2>4, WriteImplements, WriteRefusedImplements
  <2>5. CASE Read(n)
    BY <2>1, <2>5, ReadImplements
  <2>6. CASE Get(n)
    BY <2>1, <2>6, GetImplements
  <2> QED  BY <1>4, <2>2, <2>3, <2>4, <2>5, <2>6
<1>5. CASE ClusterInChain \/ AddCluster \/ ChooseFails \/ Put \/ PutFails \/ WriteEnd
  BY <1>5, ClusterInChainImplements, AddClusterImplements, ChooseFailsImplements, PutImplements, PutFailsImplements,
     WriteEndImplements
<1>6. CASE Fetch \/ FetchFails \/ GetFails \/ ReadEnd
  BY <1>6, FetchImplements, ReadFailsImplements, ReadEndImplements
<1>7. ASSUME NEW c \in Clusters, OtherTakes(c) \/ OtherFrees(c) PROVE Implements
  BY <1>7, OtherImplements
<1> QED  BY <1>1, <1>2, <1>3, <1>4, <1>5, <1>6, <1>7, <1>8, Steps

\* The first state is one of the ByteFile.
LEMMA InitImplements == Init => Whole!Init /\ UnitsInv /\ ZerosAhead
<1> SUFFICES ASSUME Init PROVE Whole!Init /\ UnitsInv /\ ZerosAhead
  OBVIOUS
<1>1. /\ pc = "closed" /\ entry.first = 0 /\ entry.size = 0 /\ todo = 0 /\ got = <<>> /\ faults = 0 /\ writes = 0
      /\ data = [c \in Clusters |-> Junk]
  BY DEF Init
<1>2. UnitsInv
  <2>1. Junk \in [0 .. ClusterUnits - 1 -> Nat]
    BY DEF Junk, NoByte
  <2>2. DataType /\ Unknown
    BY <1>1, <2>1 DEF DataType, Unknown
  <2> QED  BY <1>1, <2>2 DEF UnitsInv, NothingPending, InWrite
<1>3. First = 0 /\ Size = 0 /\ Length = 0 /\ Position = 0 /\ ~Appending /\ ~Sound /\ Mode = (IF Lost THEN "lost" ELSE "closed")
  BY <1>1, Shut
<1>4. ~Lost
  BY <1>3, HoldsNone, LostNow
<1>5. Content = <<>>
  BY <1>2, <1>3, NoBytes
<1>6. Whole!Init
  BY <1>1, <1>3, <1>4, <1>5 DEF Whole!Init, Position, Appending
<1> QED  BY <1>2, <1>3, <1>6 DEF ZerosAhead

\* Before a broken entry is opened the FatFile is that ByteFile.
LEMMA WholeStep ==
  ASSUME ~broken, ~broken', Whole!Next \/ UNCHANGED Whole!vars
  PROVE  [Abstract!Next]_(Abstract!vars)
<1> USE DEF Position, Appending
<1>1. CASE UNCHANGED Whole!vars
  BY <1>1 DEF Whole!vars, Abstract!vars
<1>2. CASE Whole!Next
  <2>1. Whole!Open => Abstract!Open
    BY DEF Whole!Open, Abstract!Open, Whole!AtRest, Abstract!AtRest
  <2>2. Whole!Close => Abstract!Close
    BY DEF Whole!Close, Abstract!Close, Whole!AtRest, Abstract!AtRest, Whole!Same, Abstract!Same
  <2>3. Whole!CloseFails => Abstract!CloseFails
    BY DEF Whole!CloseFails, Abstract!CloseFails, Whole!AtRest, Abstract!AtRest, Whole!Fault, Abstract!Fault, Whole!Byte, Abstract!Byte
  <2>4. Whole!Remove => Abstract!Remove
    BY DEF Whole!Remove, Abstract!Remove, Whole!AtRest, Abstract!AtRest
  <2>5. Whole!Seek => Abstract!Seek
    BY DEF Whole!Seek, Abstract!Seek, Whole!AtRest, Abstract!AtRest, Whole!Same, Abstract!Same
  <2>6. Whole!Truncate => Abstract!Truncate
    BY DEF Whole!Truncate, Abstract!Truncate, Whole!AtRest, Abstract!AtRest
  <2>7. Whole!PreAllocate => Abstract!PreAllocate
    BY DEF Whole!PreAllocate, Abstract!PreAllocate, Whole!AtRest, Abstract!AtRest
  <2>8. Whole!Write => Abstract!Write
    BY DEF Whole!Write, Abstract!Write, Whole!Same, Abstract!Same
  <2>9. Whole!Put => Abstract!Put
    BY DEF Whole!Put, Abstract!Put, Whole!Overwritten, Abstract!Overwritten
  <2>10. Whole!WriteEnd => Abstract!WriteEnd
    BY DEF Whole!WriteEnd, Abstract!WriteEnd, Whole!AtRest, Abstract!AtRest
  <2>11. Whole!WriteFails => Abstract!WriteFails
    BY DEF Whole!WriteFails, Abstract!WriteFails, Whole!AtRest, Abstract!AtRest, Whole!Byte, Abstract!Byte
  <2>12. Whole!Read => Abstract!Read
    BY DEF Whole!Read, Abstract!Read, Whole!Same, Abstract!Same
  <2>13. Whole!Get => Abstract!Get
    BY DEF Whole!Get, Abstract!Get, Whole!Same, Abstract!Same
  <2>14. Whole!ReadEnd => Abstract!ReadEnd
    BY DEF Whole!ReadEnd, Abstract!ReadEnd, Whole!AtRest, Abstract!AtRest, Whole!Same, Abstract!Same
  <2>15. Whole!Fails => Abstract!Fails
    BY DEF Whole!Fails, Abstract!Fails, Whole!AtRest, Abstract!AtRest, Whole!Fault, Abstract!Fault, Whole!Same, Abstract!Same
  <2>16. Whole!LateFails => Abstract!LateFails
    BY DEF Whole!LateFails, Abstract!LateFails, Whole!AtRest, Abstract!AtRest, Whole!Fault, Abstract!Fault
  <2>17. Whole!OpenFails => Abstract!OpenFails
    BY DEF Whole!OpenFails, Abstract!OpenFails, Whole!AtRest, Abstract!AtRest, Whole!Fault, Abstract!Fault, Whole!Same, Abstract!Same
  <2>18. Whole!Loses => Abstract!Loses
    BY DEF Whole!Loses, Abstract!Loses, Whole!AtRest, Abstract!AtRest, Whole!Fault, Abstract!Fault, Whole!Byte, Abstract!Byte
  <2>19. (Whole!NoFault <=> Abstract!NoFault) /\ (Whole!Fault <=> Abstract!Fault)
    BY DEF Whole!NoFault, Abstract!NoFault, Whole!Fault, Abstract!Fault
  <2> QED  BY <1>2, <2>1, <2>2, <2>3, <2>4, <2>5, <2>6, <2>7, <2>8, <2>9, <2>10, <2>11, <2>12, <2>13, <2>14, <2>15, <2>16, <2>17, <2>18, <2>19 DEF Whole!Next, Abstract!Next
<1> QED  BY <1>1, <1>2

\* A step has one failing access or none.
LEMMA FaultSteps == ASSUME [Next]_vars PROVE faults' = faults \/ faults' = faults + 1
<1> USE DEF Fault, NoFault
<1>1. CASE UNCHANGED vars
  BY <1>1 DEF vars
<1>2. CASE OpenNext
  BY <1>2 DEF OpenNext, Open, OpenFails, OpenRunsOff
<1>3. ASSUME NEW first, NEW size, NEW fl, Sync(first, size, fl) PROVE faults' = faults \/ faults' = faults + 1
  BY <1>3 DEF Sync
<1>4. CASE SyncCall \/ Truncate
  BY <1>3, <1>4 DEF SyncCall, Truncate
<1>5. ASSUME NEW n \in Sizes, PreAllocate(n) PROVE faults' = faults \/ faults' = faults + 1
  BY <1>3, <1>5 DEF PreAllocate
<1>6. ASSUME NEW n \in Sizes, PreAllocateFails(n) PROVE faults' = faults \/ faults' = faults + 1
  BY <1>6 DEF PreAllocateFails
<1>7. CASE SizeNext
  BY <1>4, <1>5, <1>6, <1>7
     DEF SizeNext, Close, Remove, RemoveFails, RemoveRunsOff, TruncateFails, TruncateRunsOff, ContiguousRange
<1>8. CASE SeekNext
  BY <1>8 DEF SeekNext, SeekSet, SeekFails, SeekRunsOff, FSetPos
<1>9. CASE WriteNext
  BY <1>9 DEF WriteNext, Write, WriteRefused, WriteRunsOff, SeekRunsOff, ClusterInChain, AddCluster, ChooseFails, Put,
              PutFails, WriteEnd
<1>10. CASE ReadNext
  BY <1>10 DEF ReadNext, Read, Get, Fetch, FetchFails, GetFails, ReadEnd
<1>11. CASE OtherNext
  BY <1>11 DEF OtherNext, OtherTakes, OtherFrees
<1> QED  BY <1>1, <1>2, <1>7, <1>8, <1>9, <1>10, <1>11 DEF Next, CallNext

\* From then on nothing is promised.
LEMMA BrokenStep == ASSUME broken', [Next]_vars PROVE [Abstract!Next]_(Abstract!vars)
<1>1. faults' = faults \/ faults' = faults + 1
  BY FaultSteps
<1>2. broken \/ Mode = "lost"
  <2>1. ASSUME ~broken PROVE OpenNext
    BY <2>1 DEF Next, CallNext, vars
  <2>2. OpenNext => pc = "closed" /\ (broken \/ ~Holds(entry.first, entry.size))
    BY DEF OpenNext, Open, OpenFails, OpenRunsOff, Opened
  <2>3. pc = "closed" /\ ~Holds(entry.first, entry.size) => Mode = "lost"
    BY DEF Mode, Lost, IsOpen, InWrite, InRead
  <2> QED  BY <2>1, <2>2, <2>3
<1>3. <<>> \in Seq(Nat) /\ Len(<<>>) = 0
  OBVIOUS
<1>4. Abstract!Next
  BY <1>1, <1>2, <1>3
     DEF Abstract!Next, Abstract!CloseFails, Abstract!AtRest, Abstract!Fault, Abstract!NoFault, Abstract!Byte
<1> QED  BY <1>4

\* A FatFile is a ByteFile: every call, whole or in pieces, failing or not, does to the bytes what
\* the documentation of FatFile says, whatever clusters they lie in.
THEOREM FileIsByteFile == ASSUME CloseOnError PROVE Spec => IsByteFile
<1>1. Init => Abstract!Init /\ (~broken => UnitsInv /\ ZerosAhead)
  <2> SUFFICES ASSUME Init PROVE Abstract!Init /\ UnitsInv /\ ZerosAhead
    OBVIOUS
  <2>1. Whole!Init /\ UnitsInv /\ ZerosAhead /\ ~broken
    BY InitImplements DEF Init
  <2> QED  BY <2>1 DEF Whole!Init, Abstract!Init, Position, Appending
<1>2. (~broken => FileInv) /\ (~broken' => FileInv') /\ (~broken => UnitsInv /\ ZerosAhead) /\ [Next]_vars
        => (~broken' => UnitsInv' /\ ZerosAhead') /\ [Abstract!Next]_(Abstract!vars)
  <2> SUFFICES ASSUME ~broken => FileInv, ~broken' => FileInv', ~broken => UnitsInv /\ ZerosAhead, [Next]_vars
               PROVE  (~broken' => UnitsInv' /\ ZerosAhead') /\ [Abstract!Next]_(Abstract!vars)
    OBVIOUS
  <2>1. CASE ~broken'
    <3>1. ~broken /\ FileInv /\ FileInv' /\ UnitsInv /\ ZerosAhead
      BY <2>1, BrokenStays
    <3>2. UnitsInv'
      BY <2>1, <3>1, UnitsStep
    <3>3. Implements
      BY <2>1, <3>1, <3>2, StepImplements
    <3> QED  BY <2>1, <3>1, <3>2, <3>3, WholeStep DEF Implements
  <2>2. CASE broken'
    BY <2>2, BrokenStep
  <2> QED  BY <2>1, <2>2
<1> QED  BY <1>1, <1>2, FileInvariance, PTL DEF Spec, IsByteFile, Abstract!Spec

-----------------------------------------------------------------------------
(* While nothing fails.                                                    *)

\* The entry of a closed file has a chain that holds its size.
Saved == pc = "closed" /\ faults = 0 => ~Lost

\* Every step keeps Saved, and opens no broken entry.
LEMMA SavedStep ==
  ASSUME CloseOnError, FileInv, FileInv', Saved, [Next]_vars, ~broken' PROVE Saved'
<1> SUFFICES ASSUME pc' = "closed", faults' = 0 PROVE ~Lost'
  BY DEF Saved
<1>1. faults = 0
  BY FaultSteps DEF FileInv, FileTypes
<1>2. First' = entry'.first /\ Size' = entry'.size /\ Length' = entry'.size
  BY ShutThen
<1>3. CASE UNCHANGED vars
  <2>1. pc = "closed" /\ UNCHANGED <<next, foreign, entry>>
    BY <1>3 DEF vars, volume
  <2>2. First = entry.first /\ Size = entry.size /\ ~Lost
    BY <1>1, <2>1, Shut DEF Saved
  <2> QED  BY <1>2, <2>1, <2>2, LostNow, LostThen
<1>4. CASE Close
  <2>1. pc = "idle" /\ UNCHANGED <<next, foreign>>
        /\ entry' = IF "dirDirty" \in flags THEN Updated(firstCluster, fileSize) ELSE entry
    BY <1>1, <1>4 DEF Close, Closed, Fault, NoFault
  <2>2. PICK L \in Nat : \E ch \in Chains(L) : Handle(L, ch)
    BY <1>1, <2>1 DEF FileInv, Chains
  <2>3. PICK ch \in Chains(L) : Handle(L, ch)
    BY <2>2
  <2>4. entry'.first = firstCluster /\ entry'.size = fileSize /\ fileSize \in Nat
    BY <2>1, <2>3, Units DEF Handle, Updated, FileInv, FileTypes
  <2>5. HoldsIn(next, foreign, firstCluster, fileSize)
    BY <2>3, <2>4, HoldsChain DEF Handle, Own
  <2> QED  BY <1>2, <2>1, <2>4, <2>5, LostThen
<1>5. CASE Remove
  <2>1. entry'.first = 0 /\ entry'.size = 0
    BY <1>5 DEF Remove
  <2> QED  BY <1>2, <2>1, HoldsNone, LostThen
<1>6. CASE \E c \in Clusters : OtherTakes(c) \/ OtherFrees(c)
  <2>1. PICK c \in Clusters : OtherTakes(c) \/ OtherFrees(c)
    BY <1>6
  <2>2. pc = "closed" /\ entry' = entry
    BY <2>1 DEF OtherTakes, OtherFrees
  <2>3. First = entry.first /\ Size = entry.size /\ ~Lost
    BY <1>1, <2>2, Shut DEF Saved
  <2>4. PICK L \in Nat : \E ch \in Chains(L) :
          Chain(next, entry.first, L, ch) /\ Own(L, ch) /\ Exact(L, ch) /\ Need(entry.size) <= L
    BY <2>2, <2>3, OpensOn DEF Lost, IsOpen
  <2>5. PICK ch \in Chains(L) : Chain(next, entry.first, L, ch) /\ Own(L, ch) /\ Need(entry.size) <= L
    BY <2>4
  <2>6. Chain(next', entry.first, L, ch) /\ Own(L, ch)'
    BY <2>1, <2>5, OtherKeeps DEF FileInv
  <2>7. entry.size \in Nat
    BY Units DEF FileInv, FileTypes
  <2>8. HoldsIn(next', foreign', entry.first, entry.size)
    BY <2>5, <2>6, <2>7, HoldsChain DEF Own
  <2> QED  BY <1>2, <2>2, <2>8, LostThen
<1>7. ~OpenFails
  BY <1>1 DEF OpenFails, Fault
<1>8. ASSUME NEW append \in SUBSET {"append"}, NEW atEnd \in BOOLEAN, NEW trunc \in BOOLEAN,
             Open(append, atEnd, trunc)
      PROVE  FALSE
  BY <1>8 DEF Open
<1>9. ASSUME NEW n \in Sizes, \/ PreAllocate(n) \/ PreAllocateFails(n) \/ SeekSet(n) \/ SeekFails(n) \/ FSetPos(n)
                              \/ Write(n) \/ WriteRefused(n) \/ Read(n) \/ Get(n)
      PROVE  FALSE
  BY <1>9 DEF PreAllocate, PreAllocateFails, SeekSet, SeekFails, FSetPos, Write, WriteRefused, Read, Get, Sync,
              Succeeds, Fails, WriteLoop, ReadLoop
<1>10. ~SyncCall /\ ~RemoveFails /\ ~Truncate /\ ~TruncateFails /\ ~ContiguousRange
  BY DEF SyncCall, RemoveFails, Truncate, TruncateFails, ContiguousRange, Sync, Succeeds, Fails
<1>11. ~ClusterInChain /\ ~AddCluster /\ ~ChooseFails /\ ~Put /\ ~PutFails /\ ~WriteEnd
  BY DEF ClusterInChain, AddCluster, ChooseFails, Put, PutFails, WriteEnd, Chosen, Succeeds, Fails, WriteLoop
<1>12. ~Fetch /\ ~FetchFails /\ ~GetFails /\ ~ReadEnd
  BY DEF Fetch, FetchFails, GetFails, ReadEnd, Fails
<1> QED  BY <1>3, <1>4, <1>5, <1>6, <1>7, <1>8, <1>9, <1>10, <1>11, <1>12, Steps

\* While no access fails no broken entry is opened.
LEMMA UnbrokenStep ==
  ASSUME FileInv, Saved, [Next]_vars, ~broken, faults' = 0 PROVE ~broken'
<1>1. faults = 0
  BY FaultSteps DEF FileInv, FileTypes
<1>2. CASE OpenNext
  <2>1. pc = "closed" /\ (broken' <=> broken \/ ~Holds(entry.first, entry.size))
    BY <1>2 DEF OpenNext, Open, OpenFails, OpenRunsOff, Opened
  <2>2. ~Lost
    BY <1>1, <2>1 DEF Saved
  <2> QED  BY <2>1, <2>2 DEF Lost, IsOpen
<1>3. CASE ~OpenNext
  BY <1>3 DEF Next, CallNext, vars
<1> QED  BY <1>2, <1>3

\* A broken entry takes a failing access to come about: refused calls, full volumes and cut files
\* leave a chain that holds the size saved, if the program closes a file when a call on it failed.
THEOREM UnbrokenUntilAFailure == ASSUME CloseOnError PROVE Spec => []UnbrokenByCalls
<1> DEFINE Inv == /\ faults \in Nat
                  /\ ~broken => Saved
                  /\ faults = 0 => ~broken
<1>1. Init => Inv
  <2> SUFFICES ASSUME Init PROVE Inv
    OBVIOUS
  <2>1. pc = "closed" /\ entry.first = 0 /\ entry.size = 0 /\ faults = 0 /\ ~broken
    BY DEF Init
  <2>2. First = 0 /\ Size = 0
    BY <2>1, Shut
  <2> QED  BY <2>1, <2>2, HoldsNone, LostNow DEF Saved
<1>2. (~broken => FileInv) /\ (~broken' => FileInv') /\ Inv /\ [Next]_vars => Inv'
  <2> SUFFICES ASSUME ~broken => FileInv, ~broken' => FileInv', Inv, [Next]_vars PROVE Inv'
    OBVIOUS
  <2>1. faults' \in Nat /\ (faults' = 0 => faults = 0)
    BY FaultSteps
  <2>2. ~broken' => Saved'
    BY BrokenStays, SavedStep
  <2>3. faults' = 0 => ~broken'
    BY <2>1, UnbrokenStep
  <2> QED  BY <2>1, <2>2, <2>3
<1>3. Inv => UnbrokenByCalls
  BY DEF UnbrokenByCalls
<1> QED  BY <1>1, <1>2, <1>3, FileInvariance, PTL DEF Spec

\* What it says of the table.
LEMMA InvNothingLost == FileInv => NothingLost
<1> DEFINE first == IF IsOpen THEN firstCluster ELSE entry.first
<1> SUFFICES ASSUME FileInv, faults = 0, ~failed, pc \in {"closed", "idle"}
             PROVE  {c \in Clusters : next[c] # 0} = foreign \cup ChainOf(first)
  BY DEF NothingLost
<1>1. \E L \in Nat : \E ch \in Chains(L) : Chain(next, first, L, ch) /\ Exact(L, ch)
  <2>1. CASE pc = "closed"
    BY <2>1 DEF FileInv, FileTypes, IsOpen, Chains
  <2>2. CASE pc # "closed"
    BY <2>2 DEF FileInv, IsOpen, Chains, Handle
  <2> QED  BY <2>1, <2>2
<1> HIDE DEF first
<1>2. PICK L \in Nat : \E ch \in Chains(L) : Chain(next, first, L, ch) /\ Exact(L, ch)
  BY <1>1
<1>3. PICK ch \in Chains(L) : Chain(next, first, L, ch) /\ Exact(L, ch)
  BY <1>2
<1>4. ChainOf(first) = Held(L, ch)
  BY <1>3, ChainOfChain
<1>5. foreign \subseteq Clusters
  BY DEF FileInv, FileTypes
<1>6. \A c \in Clusters : next[c] # 0 <=> c \in foreign \/ c \in Held(L, ch)
  BY <1>3 DEF Exact, Held
<1> QED  BY <1>4, <1>5, <1>6 DEF Held

\* While nothing fails the table is the chain and the clusters of other files, nothing else.
THEOREM ClustersAccounted == ASSUME CloseOnError PROVE Spec => []NothingLost
<1>1. (~broken => FileInv) /\ UnbrokenByCalls => NothingLost
  BY InvNothingLost DEF UnbrokenByCalls, NothingLost
<1> QED  BY <1>1, FileInvariance, UnbrokenUntilAFailure, PTL
=============================================================================
