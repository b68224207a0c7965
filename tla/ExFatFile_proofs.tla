------------------------- MODULE ExFatFile_proofs -------------------------
(***************************************************************************)
(* What ExFatFile says of the bitmap and of the entries, for every volume  *)
(* and any files.  Each file has a list of clusters, as long as its entry  *)
(* and its object say: the lists are not in the model, so the invariant    *)
(* says that there are some.                                               *)
(*   - Sound: what a volume is between two calls.                          *)
(*   - Within: what it is in a call, whose object is not written yet.      *)
(*   - Stored: what is true at every write to the device, so that a power  *)
(*     cut there leaves entries that can be read.                          *)
(* A lemma for each operation says which steps it makes and that they lead *)
(* from a sound volume to a sound one through volumes that are Stored.     *)
(***************************************************************************)
EXTENDS ExFatFile, FiniteSetTheorems, WellFoundedInduction, TLAPS

-----------------------------------------------------------------------------
(* Numbers.                                                                *)

\* Numbers: one more factor is at least one more multiplicand.
LEMMA Products ==
  ASSUME NEW b \in Int, b > 0, NEW p \in Int, NEW q \in Int, p < q
  PROVE  b * p + b <= b * q
<1>1. PICK d \in Nat : q = p + 1 + d
  <2>1. q - p - 1 \in Nat /\ q = p + 1 + (q - p - 1)
    OBVIOUS
  <2> QED  BY <2>1
<1>2. b * q = b * p + b + b * d /\ b * d >= 0
  BY <1>1
<1> QED  BY <1>2

\* Division with remainder.
LEMMA Division ==
  ASSUME NEW b \in Int, b > 0, NEW x \in Int
  PROVE  x \div b \in Int /\ x % b \in 0 .. b - 1 /\ x = b * (x \div b) + (x % b)
<1>1. x = b * (x \div b) + (x % b)
  BY Z3
<1> QED  BY <1>1

\* A quotient and a remainder are the only ones.
LEMMA Quotient ==
  ASSUME NEW b \in Int, b > 0, NEW q \in Int, NEW r \in 0 .. b - 1
  PROVE  (b * q + r) \div b = q /\ (b * q + r) % b = r
<1> DEFINE x == b * q + r
           p == x \div b
           s == x % b
<1>0. b * q \in Int /\ x \in Int
  OBVIOUS
<1>1. p \in Int /\ s \in 0 .. b - 1 /\ x = b * p + s
  BY <1>0, Division
<1>2. b * p + s = b * q + r
  BY <1>1
<1> HIDE DEF p, s, x
<1>3. ~ (p < q)
  <2>1. p < q => b * p + b <= b * q
    BY <1>1, Products
  <2>2. b * p \in Int /\ b * q \in Int
    BY <1>1
  <2> HIDE DEF p
  <2> QED  BY <1>1, <1>2, <2>1, <2>2
<1>4. ~ (q < p)
  <2>1. q < p => b * q + b <= b * p
    BY <1>1, Products
  <2>2. b * p \in Int /\ b * q \in Int
    BY <1>1
  <2> QED  BY <1>1, <1>2, <2>1, <2>2
<1>5. p = q
  BY <1>1, <1>3, <1>4
<1>6. s = r
  <2>2. b * p = b * q /\ b * q \in Int
    BY <1>5
  <2> QED  BY <1>1, <1>2, <2>2
<1> QED  BY <1>5, <1>6 DEF p, s, x

\* The quotient grows with the number, and n further on in the same b or at its end.
LEMMA Monotone ==
  ASSUME NEW b \in Int, b > 0, NEW x \in Int, NEW y \in Int, x <= y
  PROVE  x \div b <= y \div b
<1> DEFINE p == x \div b
           q == y \div b
<1>1. p \in Int /\ x % b \in 0 .. b - 1 /\ x = b * p + (x % b)
  BY Division
<1>2. q \in Int /\ y % b \in 0 .. b - 1 /\ y = b * q + (y % b)
  BY Division
<1> HIDE DEF p, q
<1>3. q < p => b * q + b <= b * p
  BY <1>1, <1>2, Products
<1>4. b * p \in Int /\ b * q \in Int
  BY <1>1, <1>2
<1>5. p <= q
  BY <1>1, <1>2, <1>3, <1>4
<1> QED  BY <1>5 DEF p, q

\* Mathematical induction, over the set of the numbers it holds for.
LEMMA Induction ==
  ASSUME NEW S, 0 \in S, \A n \in Nat : n \in S => n + 1 \in S
  PROVE  Nat \subseteq S
<1> DEFINE R == {ss \in Nat \X Nat : ss[1] < ss[2]}
<1>1. IsWellFoundedOn(R, Nat)
  BY NatLessThanWellFounded DEF OpToRel
<1> HIDE DEF R
<1> SUFFICES ASSUME Nat \ S # {} PROVE FALSE
  OBVIOUS
<1>2. PICK n \in Nat \ S : \A m \in Nat \ S : ~ (<<m, n>> \in R)
  <2>1. Nat \ S \subseteq Nat
    OBVIOUS
  <2> QED  BY <1>1, <2>1, WFMin
<1>3. \A m \in Nat \ S : ~ (m < n)
  BY <1>2 DEF R
<1>4. n # 0 /\ n - 1 \in Nat /\ n - 1 \in S
  BY <1>3
<1> QED  BY <1>4


\* The clusters of n units.
Count(n) == (n + Units - 1) \div Units

\* The size of a cluster is a number that divides.
LEMMA UnitsIs == Units \in Int /\ Units > 0
BY VolumeAssumption

\* The cluster and the place of a unit.
LEMMA UnitAt ==
  ASSUME NEW u \in Nat
  PROVE  /\ u \div Units \in Nat /\ u % Units \in 0 .. Units - 1
         /\ u = Units * (u \div Units) + (u % Units)
<1>1. u \div Units \in Int /\ u % Units \in 0 .. Units - 1 /\ u = Units * (u \div Units) + (u % Units)
  BY UnitsIs, Division
<1>2. 0 \div Units = 0
  <2>1. (Units * 0 + 0) \div Units = 0
    BY UnitsIs, Quotient
  <2> QED  BY <2>1, UnitsIs
<1>3. 0 \div Units <= u \div Units
  BY UnitsIs, Monotone
<1> QED  BY <1>1, <1>2, <1>3

\* The place decides the unit.
LEMMA SameUnit ==
  ASSUME NEW u \in Nat, NEW p \in Nat, u \div Units = p \div Units, u % Units = p % Units
  PROVE  u = p
BY UnitAt

\* Each unit fits into the clusters of a length that holds it.
LEMMA CountIs ==
  ASSUME NEW n \in Nat
  PROVE  /\ Count(n) \in Nat /\ (n = 0 <=> Count(n) = 0)
         /\ n > 0 => (n - 1) \div Units \in Nat /\ Count(n) = (n - 1) \div Units + 1
         /\ \A u \in Nat : u < n => u \div Units < Count(n)
<1>1. n + Units - 1 \in Nat
  BY UnitsIs
<1>2. Count(n) \in Nat
  BY <1>1, UnitAt DEF Count
<1>3. ASSUME n > 0 PROVE (n - 1) \div Units \in Nat /\ Count(n) = (n - 1) \div Units + 1
  <2> DEFINE q == (n - 1) \div Units
             r == (n - 1) % Units
  <2>1. n - 1 \in Nat
    BY <1>3
  <2>2. q \in Nat /\ r \in 0 .. Units - 1 /\ n - 1 = Units * q + r
    BY <2>1, UnitAt
  <2> HIDE DEF q, r
  <2>3. n + Units - 1 = Units * (q + 1) + r
    <3>1. Units * (q + 1) = Units * q + Units
      BY <2>2, UnitsIs
    <3> QED  BY <2>2, <3>1, UnitsIs
  <2>4. (Units * (q + 1) + r) \div Units = q + 1
    BY <2>2, UnitsIs, Quotient
  <2> QED  BY <2>2, <2>3, <2>4 DEF Count, q
<1>4. n = 0 => Count(n) = 0
  <2>1. (Units * 0 + (Units - 1)) \div Units = 0
    BY UnitsIs, Quotient
  <2>2. n = 0 => n + Units - 1 = Units * 0 + (Units - 1)
    BY UnitsIs
  <2> QED  BY <2>1, <2>2 DEF Count
<1>5. ASSUME NEW u \in Nat, u < n PROVE u \div Units < Count(n)
  <2>1. u \div Units <= (n - 1) \div Units
    BY <1>5, UnitsIs, Monotone
  <2>2. u \div Units \in Nat
    BY UnitAt
  <2> QED  BY <1>3, <1>5, <2>1, <2>2
<1> QED  BY <1>2, <1>3, <1>4, <1>5

\* A longer file has no fewer clusters.
LEMMA CountGrows ==
  ASSUME NEW m \in Nat, NEW n \in Nat, m <= n
  PROVE  Count(m) <= Count(n)
BY UnitsIs, Monotone DEF Count

\* The cluster of the unit before the position.
LEMMA Before ==
  ASSUME NEW p \in Nat, p > 0
  PROVE  /\ (p - 1) \div Units \in Nat
         /\ p % Units = 0 => (p - 1) \div Units = (p \div Units) - 1
         /\ p % Units # 0 => (p - 1) \div Units = p \div Units
<1> DEFINE q == p \div Units
           r == p % Units
<1>1. q \in Nat /\ r \in 0 .. Units - 1 /\ p = Units * q + r
  BY UnitAt
<1> HIDE DEF q, r
<1>2. (p - 1) \div Units \in Nat
  <2>1. p - 1 \in Nat
    OBVIOUS
  <2> QED  BY <2>1, UnitAt
<1>3. CASE r = 0
  <2>1. p - 1 = Units * (q - 1) + (Units - 1)
    <3>1. Units * (q - 1) = Units * q - Units
      BY <1>1, UnitsIs
    <3> QED  BY <1>1, <1>3, <3>1, UnitsIs
  <2>2. (Units * (q - 1) + (Units - 1)) \div Units = q - 1
    <3>1. q - 1 \in Int /\ Units - 1 \in 0 .. Units - 1
      BY <1>1, UnitsIs
    <3> QED  BY <3>1, UnitsIs, Quotient
  <2> QED  BY <1>2, <1>3, <2>1, <2>2 DEF q, r
<1>4. CASE r # 0
  <2>1. p - 1 = Units * q + (r - 1) /\ r - 1 \in 0 .. Units - 1
    BY <1>1, <1>4, UnitsIs
  <2>2. (Units * q + (r - 1)) \div Units = q
    BY <1>1, <2>1, UnitsIs, Quotient
  <2> QED  BY <1>2, <1>4, <2>1, <2>2 DEF q, r
<1> QED  BY <1>3, <1>4

\* An empty file's last byte is in the cluster before its first.
LEMMA BeforeAll == (0 - 1) \div Units = 0 - 1
<1>1. (Units * (0 - 1) + (Units - 1)) \div Units = 0 - 1
  BY UnitsIs, Quotient
<1>2. Units * (0 - 1) + (Units - 1) = 0 - 1
  BY UnitsIs
<1> QED  BY <1>1, <1>2

-----------------------------------------------------------------------------
(* Least and greatest.                                                     *)

\* The least of a set.
LEMMA MinIs ==
  ASSUME NEW S, S \subseteq Int, NEW m \in S, \A x \in S : m <= x
  PROVE  Min(S) = m
<1>1. \A x \in S : (\A y \in S : x <= y) => x = m
  OBVIOUS
<1> QED  BY <1>1 DEF Min

\* Numbers have a least one.
LEMMA MinExists ==
  ASSUME NEW S, S \subseteq Nat, NEW s \in S
  PROVE  Min(S) \in S /\ \A x \in S : Min(S) <= x
<1> DEFINE R == {ss \in Nat \X Nat : ss[1] < ss[2]}
<1>1. IsWellFoundedOn(R, Nat)
  BY NatLessThanWellFounded DEF OpToRel
<1> HIDE DEF R
<1>2. PICK n \in S : \A m \in S : ~ (<<m, n>> \in R)
  BY <1>1, WFMin
<1>3. \A m \in S : n <= m
  <2> TAKE m \in S
  <2>1. <<m, n>> \notin R /\ m \in Nat /\ n \in Nat
    BY <1>2
  <2> QED  BY <2>1 DEF R
<1>4. S \subseteq Int
  OBVIOUS
<1>5. Min(S) = n
  BY <1>3, <1>4, MinIs
<1> QED  BY <1>3, <1>5

\* The greatest of a set.
LEMMA MaxIs ==
  ASSUME NEW S, S \subseteq Int, NEW m \in S, \A x \in S : x <= m
  PROVE  Max(S) = m
<1>1. \A x \in S : (\A y \in S : x >= y) => x = m
  OBVIOUS
<1> QED  BY <1>1 DEF Max

\* Of two.
LEMMA MaxOfTwo ==
  ASSUME NEW x \in Int, NEW y \in Int
  PROVE  Max({x, y}) = IF x < y THEN y ELSE x
BY MaxIs

-----------------------------------------------------------------------------
(* Volumes, and what they say of a file.                                   *)
Contents == {<<>>} \cup (Files \X Nat)

\* The types of the parts of a volume.
Entries == [exists : BOOLEAN, contig : BOOLEAN, first : Int, valid : Nat, len : Nat]
Objects == [open : BOOLEAN, dirty : BOOLEAN, contig : BOOLEAN, first : Int, cur : Int,
            pos : Nat, valid : Nat, len : Nat]
Volumes == [used : SUBSET Clusters, start : Clusters, fat : [Clusters -> Int],
            data : [Clusters -> [0 .. Units - 1 -> Contents]],
            entry : [Files -> Entries], obj : [Files -> Objects],
            result : {"ok", "fails", "hangs"}]

\* n clusters l, from 0 on, are those of an entry or an object r.
Follows(v, r, l, n) ==
  /\ (r.first = 0 <=> r.len = 0) /\ (r.first = 0 <=> n = 0)
  /\ n > 0 => l[0] = r.first
  /\ r.contig => n = Count(r.len) /\ \A i \in 0 .. n - 1 : l[i] = r.first + i
  /\ ~r.contig /\ n > 0 => /\ Count(r.len) <= n /\ v.fat[l[n - 1]] = EOC
                           /\ \A i \in 0 .. n - 2 : v.fat[l[i]] = l[i + 1]
\* They hold what was written.
Right(v, f, r, l) ==
  r.valid <= r.len /\ \A u \in 0 .. r.valid - 1 : v.data[l[u \div Units]][u % Units] = <<f, u>>
\* The current cluster is that of the position.
Placed(o, l) ==
  IF o.pos = 0 THEN o.cur = 0 ELSE o.pos <= o.len /\ o.cur = l[(o.pos - 1) \div Units]
\* The entry of an open file is the file as it was.
Behind(e, o, l) ==
  /\ e.first \in {0, o.first} /\ (e.first = 0 <=> e.len = 0) /\ (~e.exists => e.first = 0)
  /\ e.valid <= e.len /\ e.len <= o.len /\ e.valid <= o.valid
  /\ e.first # 0 => IF e.contig THEN \A i \in 0 .. Count(e.len) - 1 : l[i] = e.first + i
                    ELSE ~o.contig
  /\ ~o.dirty => /\ e.first = o.first /\ e.len = o.len /\ e.valid = o.valid
                 /\ e.first # 0 => e.contig = o.contig

\* What the entry and the open object of a file must be, when its clusters are the n of l.
EntryOk(v, f, l, n) ==
  /\ Follows(v, v.entry[f], l, n) /\ Right(v, f, v.entry[f], l)
  /\ ~v.entry[f].exists => v.entry[f].first = 0
OpenOk(v, f, o, l, n) ==
  Follows(v, o, l, n) /\ Right(v, f, o, l) /\ Placed(o, l) /\ Behind(v.entry[f], o, l)
FileOk(v, f, l, n) ==
  IF v.obj[f].open THEN OpenOk(v, f, v.obj[f], l, n) /\ v.obj[f].pos <= v.obj[f].valid
  ELSE v.obj[f] = Closed /\ EntryOk(v, f, l, n)

\* A list of clusters for each file, and their numbers.
Lists == [Files -> [Nat -> Int]]
Lengths == [Files -> Nat]
\* Each cluster of a file is its own and is marked in the bitmap.
Apart(v, L, N) ==
  /\ \A f \in Files : \A i \in 0 .. N[f] - 1 : L[f][i] \in v.used \ System
  /\ \A f, g \in Files : \A i \in 0 .. N[f] - 1, j \in 0 .. N[g] - 1 :
       L[f][i] = L[g][j] => f = g /\ i = j

\* A marked cluster is one of the system or of a file.
Owned(v, L, N) == \A c \in v.used : c \in System \/ \E f \in Files : \E i \in 0 .. N[f] - 1 : L[f][i] = c

\* Between two calls.
Sound(v, L, N) ==
  v \in Volumes /\ System \subseteq v.used /\ Apart(v, L, N) /\ \A f \in Files : FileOk(v, f, L[f], N[f])
\* In a call for f, where o is what its object will be.
Within(v, f, o, L, N) ==
  /\ v \in Volumes /\ System \subseteq v.used /\ Apart(v, L, N) /\ v.obj[f].open
  /\ o \in Objects /\ OpenOk(v, f, o, L[f], N[f])
  /\ \A g \in Files \ {f} : FileOk(v, g, L[g], N[g])
\* What the entries say is on the device.
Stored(v, L, N) ==
  v \in Volumes /\ System \subseteq v.used /\ Apart(v, L, N) /\ \A f \in Files : EntryOk(v, f, L[f], N[f])

\* The volumes on which every entry can be read, with some lists of clusters.
Good == {v \in Volumes : \E L \in Lists : \E N \in Lengths : Stored(v, L, N)}

-----------------------------------------------------------------------------
(* Lists of clusters.                                                      *)

\* A cluster is no mark.
LEMMA NoCluster == 0 \notin Clusters /\ EOC \notin Clusters /\ \A c \in Clusters : c \in Nat /\ c > 0
BY VolumeAssumption DEF Clusters, EOC

\* The fields of a volume.
LEMMA VolumeIs ==
  ASSUME NEW v \in Volumes
  PROVE  /\ v.used \subseteq Clusters /\ v.start \in Clusters /\ v.fat \in [Clusters -> Int]
         /\ v.data \in [Clusters -> [0 .. Units - 1 -> Contents]]
         /\ v.entry \in [Files -> Entries] /\ v.obj \in [Files -> Objects]
         /\ v.result \in {"ok", "fails", "hangs"}
BY DEF Volumes

\* The items of a list are clusters.
LEMMA ItemsIn ==
  ASSUME NEW v \in Volumes, NEW L, NEW N, Apart(v, L, N), NEW f \in Files, NEW i \in 0 .. N[f] - 1
  PROVE  L[f][i] \in Clusters /\ L[f][i] \in v.used /\ L[f][i] \notin System
BY VolumeIs DEF Apart

\* A file of u units and more has a cluster for the unit u.
LEMMA UnitIn ==
  ASSUME NEW v \in Volumes, NEW r, r.len \in Nat, NEW l, NEW n \in Nat, Follows(v, r, l, n),
         NEW u \in Nat, u < r.len
  PROVE  u \div Units \in 0 .. n - 1 /\ n > 0 /\ r.first # 0
<1>1. r.len # 0 /\ r.first # 0 /\ n # 0
  BY DEF Follows
<1>2. Count(r.len) <= n /\ Count(r.len) \in Nat
  BY <1>1, CountIs DEF Follows
<1>3. u \div Units \in Nat /\ u \div Units < Count(r.len)
  BY UnitAt, CountIs
<1> QED  BY <1>1, <1>2, <1>3

\* A file whose clusters are as they were, in a volume that may have more of others.
LEMMA EntryKept ==
  ASSUME NEW v \in Volumes, NEW w \in Volumes, NEW f \in Files, NEW l, NEW n \in Nat,
         \A i \in 0 .. n - 1 : l[i] \in Clusters,
         EntryOk(v, f, l, n), w.entry[f] = v.entry[f],
         \A i \in 0 .. n - 1 : w.data[l[i]] = v.data[l[i]],
         v.entry[f].contig \/ \A i \in 0 .. n - 1 : w.fat[l[i]] = v.fat[l[i]]
  PROVE  EntryOk(w, f, l, n)
<1> DEFINE e == v.entry[f]
<1>1. e \in Entries /\ e.len \in Nat /\ e.valid \in Nat
  BY VolumeIs DEF Entries
<1>2. Follows(v, e, l, n) /\ Right(v, f, e, l) /\ (~e.exists => e.first = 0)
  BY DEF EntryOk
<1> HIDE DEF e
<1>3. Follows(w, e, l, n)
  BY <1>2 DEF Follows, e
<1>4. Right(w, f, e, l)
  <2>1. \A u \in 0 .. e.valid - 1 : u \div Units \in 0 .. n - 1
    <3> TAKE u \in 0 .. e.valid - 1
    <3>1. u \in Nat /\ u < e.len
      BY <1>1, <1>2 DEF Right
    <3> QED  BY <3>1, <1>1, <1>2, UnitIn
  <2> QED  BY <2>1, <1>2 DEF Right
<1> QED  BY <1>2, <1>3, <1>4 DEF EntryOk, e

\* The same of an open file.
LEMMA OpenKept ==
  ASSUME NEW v \in Volumes, NEW w \in Volumes, NEW f \in Files, NEW o \in Objects, NEW l, NEW n \in Nat,
         \A i \in 0 .. n - 1 : l[i] \in Clusters,
         OpenOk(v, f, o, l, n), w.entry[f] = v.entry[f],
         \A i \in 0 .. n - 1 : w.data[l[i]] = v.data[l[i]],
         o.contig \/ \A i \in 0 .. n - 1 : w.fat[l[i]] = v.fat[l[i]]
  PROVE  OpenOk(w, f, o, l, n)
<1>1. o.len \in Nat /\ o.valid \in Nat
  BY DEF Objects
<1>2. Follows(v, o, l, n) /\ Right(v, f, o, l)
  BY DEF OpenOk
<1>3. Follows(w, o, l, n)
  BY <1>2 DEF Follows
<1>4. Right(w, f, o, l)
  <2>1. \A u \in 0 .. o.valid - 1 : u \div Units \in 0 .. n - 1
    <3> TAKE u \in 0 .. o.valid - 1
    <3>1. u \in Nat /\ u < o.len
      BY <1>1, <1>2 DEF Right
    <3> QED  BY <3>1, <1>1, <1>2, UnitIn
  <2> QED  BY <2>1, <1>2 DEF Right
<1> QED  BY <1>3, <1>4 DEF OpenOk

\* The same of any file.
LEMMA FileKept ==
  ASSUME NEW v \in Volumes, NEW w \in Volumes, NEW f \in Files, NEW l, NEW n \in Nat,
         \A i \in 0 .. n - 1 : l[i] \in Clusters,
         FileOk(v, f, l, n), w.entry[f] = v.entry[f], w.obj[f] = v.obj[f],
         \A i \in 0 .. n - 1 : w.data[l[i]] = v.data[l[i]] /\ w.fat[l[i]] = v.fat[l[i]]
  PROVE  FileOk(w, f, l, n)
<1>1. v.obj[f] \in Objects
  BY VolumeIs
<1> QED  BY <1>1, EntryKept, OpenKept DEF FileOk

\* The clusters of an open file's entry are the first of the file, or all.
EntryCount(e, n) == IF e.first = 0 THEN 0 ELSE IF e.contig THEN Count(e.len) ELSE n

\* An open file's entry stands for the first clusters of the file.
LEMMA EntryPart ==
  ASSUME NEW v \in Volumes, NEW f \in Files, NEW o \in Objects, NEW l, NEW n \in Nat, OpenOk(v, f, o, l, n)
  PROVE  EntryOk(v, f, l, EntryCount(v.entry[f], n)) /\ EntryCount(v.entry[f], n) \in 0 .. n
<1> DEFINE e == v.entry[f]
           m == EntryCount(e, n)
<1>1. e \in Entries /\ e.len \in Nat /\ e.valid \in Nat /\ o.len \in Nat /\ o.valid \in Nat
      /\ e.first \in Int /\ e.contig \in BOOLEAN /\ o.contig \in BOOLEAN
  BY VolumeIs DEF Entries, Objects
<1>2. Behind(e, o, l) /\ Follows(v, o, l, n) /\ Right(v, f, o, l)
  BY DEF OpenOk
<1> HIDE DEF e
<1>3. CASE e.first = 0
  <2>1. m = 0 /\ e.len = 0 /\ e.valid = 0
    BY <1>1, <1>2, <1>3 DEF EntryCount, Behind
  <2>2. Count(0) = 0
    BY CountIs
  <2>3. Follows(v, e, l, 0) /\ Right(v, f, e, l)
    BY <2>1, <2>2, <1>3 DEF Follows, Right
  <2> QED  BY <2>1, <2>3, <1>2, <1>3 DEF EntryOk, Behind, e
<1>4. CASE e.first # 0
  <2>1. /\ e.first = o.first /\ e.len > 0 /\ e.len <= o.len /\ o.first # 0 /\ n > 0
        /\ e.valid <= e.len /\ e.valid <= o.valid /\ (~e.exists => e.first = 0)
    BY <1>1, <1>2, <1>4 DEF Behind, Follows
  <2>2. Count(e.len) \in Nat /\ Count(e.len) > 0 /\ Count(e.len) <= Count(o.len) /\ Count(o.len) <= n
        /\ Count(o.len) \in Nat
    <3>1. Count(o.len) <= n
      <4>1. CASE o.contig
        BY <4>1, <1>1, <1>2, CountIs DEF Follows
      <4>2. CASE ~o.contig
        BY <4>2, <1>2, <2>1 DEF Follows
      <4> QED  BY <4>1, <4>2
    <3> QED  BY <1>1, <2>1, <3>1, CountIs, CountGrows
  <2>3. m \in 1 .. n /\ Count(e.len) <= m
    BY <1>1, <1>4, <2>1, <2>2 DEF EntryCount
  <2>4. Follows(v, e, l, m)
    <3>1. l[0] = e.first
      BY <1>2, <2>1 DEF Follows
    <3>2. CASE e.contig
      <4>1. m = Count(e.len) /\ \A i \in 0 .. m - 1 : l[i] = e.first + i
        BY <3>2, <1>2, <1>4 DEF EntryCount, Behind
      <4> HIDE DEF m
      <4> QED  BY <3>1, <3>2, <4>1, <1>4, <2>1, <2>3 DEF Follows
    <3>3. CASE ~e.contig
      <4>1. m = n /\ ~o.contig
        BY <3>3, <1>2, <1>4 DEF EntryCount, Behind
      <4>2. v.fat[l[n - 1]] = EOC /\ \A i \in 0 .. n - 2 : v.fat[l[i]] = l[i + 1]
        BY <4>1, <1>2, <2>1 DEF Follows
      <4> HIDE DEF m
      <4> QED  BY <3>1, <3>3, <4>1, <4>2, <1>4, <2>1, <2>3 DEF Follows
    <3> QED  BY <3>2, <3>3, <1>1
  <2>5. Right(v, f, e, l)
    BY <1>1, <1>2, <2>1 DEF Right
  <2> QED  BY <2>1, <2>3, <2>4, <2>5, <1>4 DEF EntryOk, e
<1> QED  BY <1>3, <1>4

\* The entry of any file.
LEMMA EntryOf ==
  ASSUME NEW v \in Volumes, NEW f \in Files, NEW l, NEW n \in Nat, FileOk(v, f, l, n)
  PROVE  \E m \in 0 .. n : EntryOk(v, f, l, m)
<1>1. v.obj[f] \in Objects
  BY VolumeIs
<1>2. CASE v.obj[f].open
  <2>1. OpenOk(v, f, v.obj[f], l, n)
    BY <1>2 DEF FileOk
  <2>2. EntryOk(v, f, l, EntryCount(v.entry[f], n)) /\ EntryCount(v.entry[f], n) \in 0 .. n
    BY <1>1, <2>1, EntryPart
  <2> QED  BY <2>2
<1>3. CASE ~v.obj[f].open
  BY <1>3 DEF FileOk
<1> QED  BY <1>2, <1>3

\* The entries' clusters are a part of the files'.
LEMMA StoredBy ==
  ASSUME NEW v \in Volumes, NEW L \in Lists, NEW N \in Lengths, System \subseteq v.used, Apart(v, L, N),
         \A f \in Files : \E m \in 0 .. N[f] : EntryOk(v, f, L[f], m)
  PROVE  \E M \in Lengths : Stored(v, L, M) /\ \A f \in Files : M[f] <= N[f]
<1> DEFINE M == [f \in Files |-> CHOOSE m \in 0 .. N[f] : EntryOk(v, f, L[f], m)]
<1>0. \A f \in Files : N[f] \in Nat
  BY DEF Lengths
<1>1. \A f \in Files : M[f] \in 0 .. N[f] /\ EntryOk(v, f, L[f], M[f])
  OBVIOUS
<1>2. M = [f \in Files |-> M[f]]
  OBVIOUS
<1> HIDE DEF M
<1>3. M \in Lengths
  BY <1>0, <1>1, <1>2 DEF Lengths
<1>4. \A f \in Files : \A i \in 0 .. M[f] - 1 : i \in 0 .. N[f] - 1
  BY <1>0, <1>1
<1>5. Apart(v, L, M)
  BY <1>4 DEF Apart
<1>6. \A f \in Files : M[f] <= N[f]
  BY <1>0, <1>1
<1> QED  BY <1>1, <1>3, <1>5, <1>6 DEF Stored

\* Between calls and in them, the entries are readable.
LEMMA SoundStored ==
  ASSUME NEW v, NEW L \in Lists, NEW N \in Lengths, Sound(v, L, N)
  PROVE  \E M \in Lengths : Stored(v, L, M) /\ \A f \in Files : M[f] <= N[f]
<1>1. v \in Volumes /\ System \subseteq v.used /\ Apart(v, L, N)
  BY DEF Sound
<1>2. \A f \in Files : \E m \in 0 .. N[f] : EntryOk(v, f, L[f], m)
  BY <1>1, EntryOf DEF Sound, Lengths
<1> QED  BY <1>1, <1>2, StoredBy

\* In the middle of a call, each entry is still the first part of its file.
LEMMA WithinStored ==
  ASSUME NEW v, NEW L \in Lists, NEW N \in Lengths, NEW f \in Files, NEW o, Within(v, f, o, L, N)
  PROVE  \E M \in Lengths : Stored(v, L, M) /\ \A g \in Files : M[g] <= N[g]
<1>1. v \in Volumes /\ System \subseteq v.used /\ Apart(v, L, N) /\ o \in Objects
  BY DEF Within
<1>2. \A g \in Files : \E m \in 0 .. N[g] : EntryOk(v, g, L[g], m)
  <2> TAKE g \in Files
  <2>1. N[g] \in Nat
    BY DEF Lengths
  <2>2. CASE g = f
    <3>1. OpenOk(v, f, o, L[f], N[f])
      BY DEF Within
    <3>2. EntryOk(v, f, L[f], EntryCount(v.entry[f], N[f])) /\ EntryCount(v.entry[f], N[f]) \in 0 .. N[f]
      BY <1>1, <2>1, <2>2, <3>1, EntryPart
    <3> QED  BY <3>2, <2>2
  <2>3. CASE g # f
    <3>1. FileOk(v, g, L[g], N[g])
      BY <2>3 DEF Within
    <3> QED  BY <1>1, <2>1, <3>1, EntryOf
  <2> QED  BY <2>2, <2>3
<1> QED  BY <1>1, <1>2, StoredBy

\* A volume between two calls is one on which every entry can be read.
LEMMA SoundGood ==
  ASSUME NEW v, NEW L \in Lists, NEW N \in Lengths, Sound(v, L, N)
  PROVE  v \in Good
<1>1. PICK M \in Lengths : Stored(v, L, M)
  BY SoundStored
<1> QED  BY <1>1 DEF Good, Sound

\* And so is a volume in the middle of a call.
LEMMA WithinGood ==
  ASSUME NEW v, NEW L \in Lists, NEW N \in Lengths, NEW f \in Files, NEW o, Within(v, f, o, L, N)
  PROVE  v \in Good
<1>1. PICK M \in Lengths : Stored(v, L, M)
  BY WithinStored
<1> QED  BY <1>1 DEF Good, Within

\* A volume with the same entries, whose bitmap marks more, and whose FAT differs only
\* where no file has a cluster or in a contiguous file.
Elsewhere(v, w, L, N, f, o) ==
  \A g \in Files : \A i \in 0 .. N[g] - 1 : w.fat[L[g][i]] = v.fat[L[g][i]] \/ (g = f /\ o.contig)

\* It stays so when the bitmap marks more and the FAT changes elsewhere.
LEMMA StillGood ==
  ASSUME NEW v, NEW L \in Lists, NEW N \in Lengths, NEW f \in Files, NEW o, Within(v, f, o, L, N),
         NEW w \in Volumes, w.entry = v.entry, w.data = v.data, v.used \subseteq w.used,
         Elsewhere(v, w, L, N, f, o)
  PROVE  w \in Good
<1>1. PICK M \in Lengths : Stored(v, L, M) /\ \A g \in Files : M[g] <= N[g]
  BY WithinStored
<1>2. v \in Volumes /\ Apart(v, L, M) /\ System \subseteq v.used
  BY <1>1 DEF Stored
<1>3. Apart(w, L, M)
  BY <1>2 DEF Apart
<1>4. \A g \in Files : EntryOk(w, g, L[g], M[g])
  <2> TAKE g \in Files
  <2>1. M[g] \in Nat /\ N[g] \in Nat /\ M[g] <= N[g]
    BY <1>1 DEF Lengths
  <2>2. \A i \in 0 .. M[g] - 1 : L[g][i] \in Clusters /\ i \in 0 .. N[g] - 1
    BY <1>2, <2>1, ItemsIn
  <2>3. EntryOk(v, g, L[g], M[g])
    BY <1>1 DEF Stored
  <2>4. CASE ~ (g = f /\ o.contig)
    <3>1. \A i \in 0 .. M[g] - 1 : w.fat[L[g][i]] = v.fat[L[g][i]]
      BY <2>2, <2>4 DEF Elsewhere
    <3> QED  BY <1>2, <2>1, <2>2, <2>3, <3>1, EntryKept
  <2>5. CASE g = f /\ o.contig
    <3>1. Behind(v.entry[g], o, L[g])
      BY <2>5 DEF Within, OpenOk
    <3>2. v.entry[g].contig \/ v.entry[g].first = 0
      BY <3>1, <2>5 DEF Behind
    <3>3. v.entry[g].first = 0 => M[g] = 0
      BY <2>3 DEF EntryOk, Follows
    <3>4. v.entry[g].contig \/ \A i \in 0 .. M[g] - 1 : w.fat[L[g][i]] = v.fat[L[g][i]]
      BY <2>1, <3>2, <3>3
    <3> QED  BY <1>2, <2>1, <2>2, <2>3, <3>4, EntryKept
  <2> QED  BY <2>4, <2>5
<1> QED  BY <1>2, <1>3, <1>4 DEF Good, Stored

-----------------------------------------------------------------------------
(* Chains.                                                                 *)

\* The function that follows the links from c, for n items.
Linked(v, c, n, w) ==
  w = [i \in 1 .. n |-> IF i = 1 THEN c ELSE IF w[i - 1] \in Clusters THEN v.fat[w[i - 1]] ELSE Free]

\* There is one for every number of items.
LEMMA LinkedExists ==
  ASSUME NEW v, NEW c, NEW n \in Nat
  PROVE  \E w : Linked(v, c, n, w)
<1> DEFINE S == {m \in Nat : \E w : Linked(v, c, m, w)}
<1>1. 0 \in S
  <2> DEFINE w == [i \in 1 .. 0 |-> c]
  <2>1. Linked(v, c, 0, w)
    BY DEF Linked
  <2> QED  BY <2>1
<1>2. ASSUME NEW m \in Nat, m \in S PROVE m + 1 \in S
  <2>1. PICK w : Linked(v, c, m, w)
    BY <1>2
  <2> DEFINE x == [i \in 1 .. m + 1 |->
                     IF i \in 1 .. m THEN w[i]
                     ELSE IF i = 1 THEN c ELSE IF w[m] \in Clusters THEN v.fat[w[m]] ELSE Free]
  <2>2. \A i \in 1 .. m : w[i] = IF i = 1 THEN c ELSE IF w[i - 1] \in Clusters THEN v.fat[w[i - 1]] ELSE Free
    BY <2>1 DEF Linked
  <2>3. \A i \in 1 .. m + 1 :
          x[i] = IF i = 1 THEN c ELSE IF x[i - 1] \in Clusters THEN v.fat[x[i - 1]] ELSE Free
    <3> TAKE i \in 1 .. m + 1
    <3>1. CASE i = 1
      BY <3>1, <2>2
    <3>2. CASE i # 1 /\ i \in 1 .. m
      <4>1. i - 1 \in 1 .. m /\ i - 1 \in 1 .. m + 1
        BY <3>2
      <4>2. x[i] = w[i] /\ x[i - 1] = w[i - 1]
        BY <3>2, <4>1
      <4> HIDE DEF x
      <4> QED  BY <3>2, <2>2, <4>1, <4>2
    <3>3. CASE i # 1 /\ i = m + 1
      <4>1. i - 1 \in 1 .. m /\ i \notin 1 .. m /\ m \in 1 .. m /\ m \in 1 .. m + 1 /\ i - 1 = m
        BY <3>3
      <4>2. x[i] = (IF w[m] \in Clusters THEN v.fat[w[m]] ELSE Free) /\ x[m] = w[m]
        BY <3>3, <4>1
      <4> HIDE DEF x
      <4> QED  BY <3>3, <4>1, <4>2
    <3> QED  BY <3>1, <3>2, <3>3
  <2>4. x = [i \in 1 .. m + 1 |-> x[i]]
    OBVIOUS
  <2> HIDE DEF x
  <2>5. Linked(v, c, m + 1, x)
    BY <2>3, <2>4 DEF Linked
  <2> QED  BY <2>5
<1> HIDE DEF S
<1>3. Nat \subseteq S
  BY <1>1, <1>2, Induction
<1> QED  BY <1>3 DEF S

\* A list is no longer than there are clusters.
LEMMA ListBound ==
  ASSUME NEW n \in Nat, NEW l, \A i \in 0 .. n - 1 : l[i] \in Clusters,
         \A i, j \in 0 .. n - 1 : l[i] = l[j] => i = j
  PROVE  n < LastCluster
<1> DEFINE S == 0 .. n - 1
           k == [i \in S |-> l[i]]
<1>1. IsFiniteSet(Clusters) /\ Cardinality(Clusters) = LastCluster - 1
  <2>1. LastCluster \in Int /\ 2 \in Int /\ ~ (2 > LastCluster)
    BY VolumeAssumption
  <2>2. IsFiniteSet(2 .. LastCluster) /\ Cardinality(2 .. LastCluster) = LastCluster - 2 + 1
    BY <2>1, FS_Interval
  <2> QED  BY <2>1, <2>2 DEF Clusters
<1>2. IsFiniteSet(S) /\ Cardinality(S) = n
  <2>1. 0 \in Int /\ n - 1 \in Int
    OBVIOUS
  <2>2. IsFiniteSet(S) /\ Cardinality(S) = IF 0 > n - 1 THEN 0 ELSE n - 1 - 0 + 1
    BY <2>1, FS_Interval
  <2> HIDE DEF S
  <2> QED  BY <2>2
<1>3. k \in [S -> Clusters] /\ \A i, j \in S : k[i] = k[j] => i = j
  OBVIOUS
<1> HIDE DEF S, k
<1>4. ~ (Cardinality(Clusters) < Cardinality(S))
  <2>1. Cardinality(Clusters) < Cardinality(S) => \E i, j \in S : i # j /\ k[i] = k[j]
    BY <1>1, <1>2, <1>3, FS_PigeonHole
  <2> QED  BY <1>3, <2>1
<1> QED  BY <1>1, <1>2, <1>4, VolumeAssumption

\* The FAT has the links of a list, to its end.
Linear(v, l, n) ==
  /\ \A i \in 0 .. n - 1 : l[i] \in Clusters
  /\ \A i, j \in 0 .. n - 1 : l[i] = l[j] => i = j
  /\ \A i \in 0 .. n - 2 : v.fat[l[i]] = l[i + 1]
  /\ v.fat[l[n - 1]] = EOC

\* The chain from a cluster on is the list whose links the FAT has.
LEMMA ChainIs ==
  ASSUME NEW v, NEW n \in Nat, n > 0, NEW l, Linear(v, l, n)
  PROVE  Chain(v, l[0]) = [i \in 1 .. n |-> l[i - 1]]
<1> DEFINE c == l[0]
           next == CHOOSE w : Linked(v, c, LastCluster, w)
           m == Max({0} \cup {i \in 1 .. LastCluster : \A j \in 1 .. i : next[j] \in Clusters})
<1>0. /\ \A i \in 0 .. n - 1 : l[i] \in Clusters
      /\ \A i, j \in 0 .. n - 1 : l[i] = l[j] => i = j
      /\ \A i \in 0 .. n - 2 : v.fat[l[i]] = l[i + 1]
      /\ v.fat[l[n - 1]] = EOC
  BY DEF Linear
<1>1. n < LastCluster /\ LastCluster \in Nat
  BY <1>0, ListBound, VolumeAssumption
<1>2. Chain(v, c) = [i \in 1 .. m |-> next[i]]
  BY Zenon DEF Chain, Linked
<1>3. Linked(v, c, LastCluster, next)
  BY <1>1, LinkedExists
<1> HIDE DEF next
<1>4. \A i \in 1 .. LastCluster :
        next[i] = IF i = 1 THEN c ELSE IF next[i - 1] \in Clusters THEN v.fat[next[i - 1]] ELSE Free
  BY <1>3 DEF Linked
<1>5. \A i \in Nat : i < n => next[i + 1] = l[i]
  <2> DEFINE S == {i \in Nat : i < n => next[i + 1] = l[i]}
  <2>1. 0 \in S
    <3>1. next[1] = c
      BY <1>1, <1>4
    <3> QED  BY <3>1
  <2>2. ASSUME NEW i \in Nat, i \in S PROVE i + 1 \in S
    <3> SUFFICES ASSUME i + 1 < n PROVE next[i + 1 + 1] = l[i + 1]
      OBVIOUS
    <3>1. next[i + 1] = l[i] /\ i \in 0 .. n - 2 /\ i \in 0 .. n - 1
      BY <2>2
    <3>2. i + 1 + 1 \in 1 .. LastCluster /\ i + 1 + 1 # 1 /\ i + 1 + 1 - 1 = i + 1
      BY <1>1
    <3>3. next[i + 1 + 1] = IF next[i + 1] \in Clusters THEN v.fat[next[i + 1]] ELSE Free
      BY <1>4, <3>2
    <3> QED  BY <1>0, <3>1, <3>3
  <2> HIDE DEF S
  <2>3. Nat \subseteq S
    BY <2>1, <2>2, Induction
  <2> QED  BY <2>3 DEF S
<1>6. next[n + 1] = EOC
  <2>1. n - 1 \in Nat /\ n - 1 \in 0 .. n - 1 /\ n - 1 < n /\ n - 1 + 1 = n
    OBVIOUS
  <2>2. next[n] = l[n - 1]
    BY <1>5, <2>1
  <2>3. n + 1 \in 1 .. LastCluster /\ n + 1 # 1 /\ n + 1 - 1 = n
    BY <1>1
  <2>4. next[n + 1] = IF next[n] \in Clusters THEN v.fat[next[n]] ELSE Free
    BY <1>4, <2>3
  <2> QED  BY <1>0, <2>1, <2>2, <2>4
<1>7. \A i \in 1 .. n : next[i] = l[i - 1] /\ next[i] \in Clusters
  <2> TAKE i \in 1 .. n
  <2>1. i - 1 \in Nat /\ i - 1 < n /\ i - 1 + 1 = i /\ i - 1 \in 0 .. n - 1
    OBVIOUS
  <2> QED  BY <1>0, <1>5, <2>1
<1>8. m = n
  <2> DEFINE T == {0} \cup {i \in 1 .. LastCluster : \A j \in 1 .. i : next[j] \in Clusters}
  <2>1. T \subseteq Int
    BY <1>1
  <2>2. n \in T
    <3>1. n \in 1 .. LastCluster
      BY <1>1
    <3> QED  BY <3>1, <1>7
  <2>3. ASSUME NEW i \in T PROVE i <= n
    <3>1. CASE i = 0
      BY <3>1
    <3>2. CASE i \in 1 .. LastCluster /\ \A j \in 1 .. i : next[j] \in Clusters
      <4>1. n + 1 \notin 1 .. i
        BY <3>2, <1>6, NoCluster
      <4> QED  BY <3>2, <4>1
    <3> QED  BY <3>1, <3>2
  <2> HIDE DEF T
  <2>4. Max(T) = n
    BY <2>1, <2>2, <2>3, MaxIs
  <2> QED  BY <2>4 DEF T
<1> HIDE DEF m
<1> QED  BY <1>2, <1>7, <1>8

-----------------------------------------------------------------------------
(* The bitmap.                                                             *)

\* A search that finds something finds free clusters.
LEMMA FoundIs ==
  ASSUME NEW v \in Volumes, NEW hint \in Int, NEW n \in Nat \ {0}, Finds(v, hint, n)
  PROVE  Found(v, hint, n) .. Found(v, hint, n) + n - 1 \subseteq Clusters \ v.used
<1> DEFINE s == From(v, hint)
           R == IF Runs(v, s, LastCluster, n) # {} THEN Runs(v, s, LastCluster, n) ELSE Runs(v, 2, s - 1, n)
           c == Found(v, hint, n)
<1>1. s \in Clusters
  BY VolumeIs, VolumeAssumption DEF From, Clusters
<1>2. s \in Int /\ 2 <= s /\ s <= LastCluster /\ LastCluster \in Int
  BY <1>1, VolumeAssumption DEF Clusters
<1> HIDE DEF s
<1>3. \A b \in R : b \in Clusters /\ b .. b + n - 1 \subseteq Clusters \ v.used
  <2> TAKE b \in R
  <2>1. \/ b \in s .. LastCluster - n + 1 /\ (b .. b + n - 1) \cap v.used = {}
        \/ b \in 2 .. s - 1 - n + 1 /\ (b .. b + n - 1) \cap v.used = {}
    BY DEF Runs
  <2>2. b \in Int /\ 2 <= b /\ b + n - 1 <= LastCluster /\ (b .. b + n - 1) \cap v.used = {}
    BY <1>2, <2>1
  <2> QED  BY <1>2, <2>2 DEF Clusters
<1> HIDE DEF R
<1>4. c = Min({LastCluster + 1} \cup R)
  BY DEF Found, R, s
<1>5. {LastCluster + 1} \cup R \subseteq Nat
  BY <1>2, <1>3, NoCluster
<1>6. c \in {LastCluster + 1} \cup R
  BY <1>4, <1>5, MinExists
<1>7. c \in Clusters
  BY DEF Finds
<1>8. c \in R
  BY <1>2, <1>6, <1>7 DEF Clusters
<1> QED  BY <1>3, <1>8

\* A search that finds nothing changes nothing.
LEMMA WithoutIs ==
  ASSUME NEW v \in Volumes, NEW hint \in Int
  PROVE  LET w == Without(v, hint) IN
         /\ w \in Volumes /\ w.used = v.used /\ w.start = v.start /\ w.fat = v.fat /\ w.data = v.data
         /\ w.entry = v.entry /\ w.obj = v.obj /\ w.result \in {"fails", "hangs"}
BY DEF Without, Volumes

\* What is found is marked, and nothing else changes than where the next search starts.
LEMMA Taken ==
  ASSUME NEW v \in Volumes, NEW hint \in Int, NEW n \in Nat \ {0}, Finds(v, hint, n)
  PROVE  LET c == Found(v, hint, n)
             w == Take(Noted(v, hint, n), c, n) IN
         /\ c \in Clusters /\ c .. c + n - 1 \subseteq Clusters \ v.used
         /\ w \in Volumes /\ w.used = v.used \cup (c .. c + n - 1) /\ w.fat = v.fat /\ w.data = v.data
         /\ w.entry = v.entry /\ w.obj = v.obj /\ w.result = v.result
<1> DEFINE c == Found(v, hint, n)
           u == Noted(v, hint, n)
           w == Take(u, c, n)
<1>1. c \in Clusters /\ c .. c + n - 1 \subseteq Clusters \ v.used
  BY FoundIs DEF Finds
<1>2. /\ u \in Volumes /\ u.used = v.used /\ u.fat = v.fat /\ u.data = v.data
      /\ u.entry = v.entry /\ u.obj = v.obj /\ u.result = v.result
  BY <1>1 DEF Noted, Volumes
<1> HIDE DEF c, u
<1>3. \A a \in SUBSET Clusters : \A s \in Clusters :
        LET x == [u EXCEPT !.used = a, !.start = s] IN
        /\ x \in Volumes /\ x.used = a /\ x.fat = v.fat /\ x.data = v.data
        /\ x.entry = v.entry /\ x.obj = v.obj /\ x.result = v.result
  BY <1>2 DEF Volumes
<1>4. 2 \in Clusters
  BY VolumeAssumption DEF Clusters
<1>5. PICK s \in Clusters : w = [u EXCEPT !.used = v.used \cup (c .. c + n - 1), !.start = s]
  <2> DEFINE s == IF u.start \notin c .. c + n - 1 THEN u.start ELSE IF c + n \in Clusters THEN c + n ELSE 2
  <2>1. s \in Clusters
    BY <1>2, <1>4, VolumeIs
  <2>2. w = [u EXCEPT !.used = v.used \cup (c .. c + n - 1), !.start = s]
    BY <1>2 DEF Take
  <2> QED  BY <2>1, <2>2
<1>6. v.used \cup (c .. c + n - 1) \in SUBSET Clusters
  BY <1>1, VolumeIs
<1> HIDE DEF w
<1>7. /\ w \in Volumes /\ w.used = v.used \cup (c .. c + n - 1) /\ w.fat = v.fat /\ w.data = v.data
      /\ w.entry = v.entry /\ w.obj = v.obj /\ w.result = v.result
  BY <1>3, <1>5, <1>6
<1> QED  BY <1>1, <1>7 DEF c, u, w

\* A volume with another object.
LEMMA SetIs ==
  ASSUME NEW v \in Volumes, NEW f \in Files, NEW o \in Objects
  PROVE  LET w == Set(v, f, o) IN
         /\ w \in Volumes /\ w.used = v.used /\ w.start = v.start /\ w.fat = v.fat /\ w.data = v.data
         /\ w.entry = v.entry /\ w.result = v.result
         /\ w.obj[f] = o /\ \A g \in Files \ {f} : w.obj[g] = v.obj[g]
<1>1. v.obj \in [Files -> Objects]
  BY VolumeIs
<1>2. [v.obj EXCEPT ![f] = o] \in [Files -> Objects]
  BY <1>1
<1>3. Set(v, f, o) = [v EXCEPT !.obj = [v.obj EXCEPT ![f] = o]]
  BY DEF Set
<1>4. \A p \in [Files -> Objects] :
        LET x == [v EXCEPT !.obj = p] IN
        /\ x \in Volumes /\ x.used = v.used /\ x.start = v.start /\ x.fat = v.fat /\ x.data = v.data
        /\ x.entry = v.entry /\ x.result = v.result /\ x.obj = p
  BY DEF Volumes
<1> DEFINE w == Set(v, f, o)
           p == [v.obj EXCEPT ![f] = o]
<1>5. /\ w \in Volumes /\ w.used = v.used /\ w.start = v.start /\ w.fat = v.fat /\ w.data = v.data
      /\ w.entry = v.entry /\ w.result = v.result /\ w.obj = p
  <2> HIDE DEF p
  <2>1. w = [v EXCEPT !.obj = p]
    BY <1>3 DEF p
  <2> HIDE DEF w
  <2> QED  BY <1>2, <1>4, <2>1 DEF p
<1> QED  BY <1>1, <1>5

\* A volume with another FAT.
LEMMA FatIs ==
  ASSUME NEW v \in Volumes, NEW t \in [Clusters -> Int]
  PROVE  LET w == [v EXCEPT !.fat = t] IN
         /\ w \in Volumes /\ w.used = v.used /\ w.start = v.start /\ w.fat = t /\ w.data = v.data
         /\ w.entry = v.entry /\ w.obj = v.obj /\ w.result = v.result
BY DEF Volumes

-----------------------------------------------------------------------------
(* write: a cluster is added.                                              *)
Further(o) ==
  [o EXCEPT !.pos = @ + 1, !.len = IF @ < o.pos + 1 THEN o.pos + 1 ELSE @,
            !.dirty = @ \/ o.pos + 1 > o.valid]
\* The object after a cluster c was added and the unit written.
Grew(o, n, c, b) ==
  Further([o EXCEPT !.cur = c, !.contig = b, !.first = IF n = 0 THEN c ELSE @])

\* The list of a file with a cluster more.
More(L, N, f, c) == [L EXCEPT ![f] = [L[f] EXCEPT ![N[f]] = c]]
OneMore(N, f) == [N EXCEPT ![f] = @ + 1]

\* The longer list is the list it was, and the new cluster.
LEMMA MoreIs ==
  ASSUME NEW L \in Lists, NEW N \in Lengths, NEW f \in Files, NEW c \in Int
  PROVE  /\ More(L, N, f, c) \in Lists /\ OneMore(N, f) \in Lengths
         /\ \A g \in Files \ {f} : More(L, N, f, c)[g] = L[g] /\ OneMore(N, f)[g] = N[g]
         /\ OneMore(N, f)[f] = N[f] + 1 /\ More(L, N, f, c)[f][N[f]] = c
         /\ \A i \in 0 .. N[f] - 1 : More(L, N, f, c)[f][i] = L[f][i]
<1>1. N[f] \in Nat /\ L[f] \in [Nat -> Int]
  BY DEF Lists, Lengths
<1>2. [L[f] EXCEPT ![N[f]] = c] \in [Nat -> Int]
  BY <1>1
<1>3. /\ [L[f] EXCEPT ![N[f]] = c][N[f]] = c
      /\ \A i \in 0 .. N[f] - 1 : [L[f] EXCEPT ![N[f]] = c][i] = L[f][i]
  BY <1>1
<1> DEFINE l == [L[f] EXCEPT ![N[f]] = c]
<1> HIDE DEF l
<1>4. [L EXCEPT ![f] = l] \in Lists /\ [L EXCEPT ![f] = l][f] = l
      /\ \A g \in Files \ {f} : [L EXCEPT ![f] = l][g] = L[g]
  BY <1>2 DEF Lists, l
<1>5. More(L, N, f, c) = [L EXCEPT ![f] = l]
  BY DEF More, l
<1>6. OneMore(N, f) \in Lengths /\ OneMore(N, f)[f] = N[f] + 1
      /\ \A g \in Files \ {f} : OneMore(N, f)[g] = N[g]
  BY <1>1 DEF OneMore, Lengths
<1> QED  BY <1>3, <1>4, <1>5, <1>6 DEF l

\* A cluster that was free is nobody else's.
LEMMA MoreApart ==
  ASSUME NEW v \in Volumes, NEW w \in Volumes, NEW L \in Lists, NEW N \in Lengths, NEW f \in Files,
         NEW c \in Clusters \ v.used, w.used = v.used \cup {c}, System \subseteq v.used, Apart(v, L, N)
  PROVE  Apart(w, More(L, N, f, c), OneMore(N, f))
<1> DEFINE L2 == More(L, N, f, c)
           N2 == OneMore(N, f)
<1>1. c \in Int /\ N[f] \in Nat
  BY NoCluster DEF Lengths
<1>2. /\ \A g \in Files \ {f} : L2[g] = L[g] /\ N2[g] = N[g]
      /\ N2[f] = N[f] + 1 /\ L2[f][N[f]] = c /\ \A i \in 0 .. N[f] - 1 : L2[f][i] = L[f][i]
  BY <1>1, MoreIs
<1> HIDE DEF L2, N2
<1>3. \A g \in Files : \A i \in 0 .. N[g] - 1 : L[g][i] \in v.used \ System
  BY DEF Apart
<1>7. \A g, h \in Files : \A i \in 0 .. N[g] - 1, j \in 0 .. N[h] - 1 :
        L[g][i] = L[h][j] => g = h /\ i = j
  BY DEF Apart
<1>4. \A g \in Files : \A i \in 0 .. N2[g] - 1 :
        \/ i \in 0 .. N[g] - 1 /\ L2[g][i] = L[g][i]
        \/ g = f /\ i = N[f] /\ L2[g][i] = c
  <2> TAKE g \in Files
  <2> TAKE i \in 0 .. N2[g] - 1
  <2>1. CASE g # f
    BY <1>2, <2>1
  <2>2. CASE g = f
    <3>1. i \in 0 .. N[f]
      BY <1>1, <1>2, <2>2
    <3> QED  BY <1>1, <1>2, <2>2, <3>1
  <2> QED  BY <2>1, <2>2
<1>5. \A g \in Files : \A i \in 0 .. N2[g] - 1 : L2[g][i] \in w.used \ System
  BY <1>3, <1>4
<1>6. \A g, h \in Files : \A i \in 0 .. N2[g] - 1, j \in 0 .. N2[h] - 1 :
        L2[g][i] = L2[h][j] => g = h /\ i = j
  <2> TAKE g, h \in Files
  <2> TAKE i \in 0 .. N2[g] - 1, j \in 0 .. N2[h] - 1
  <2> HAVE L2[g][i] = L2[h][j]
  <2>1. CASE i \in 0 .. N[g] - 1 /\ L2[g][i] = L[g][i] /\ j \in 0 .. N[h] - 1 /\ L2[h][j] = L[h][j]
    <3>1. L[g][i] = L[h][j] => g = h /\ i = j
      BY ONLY <2>1, <1>7
    <3> QED  BY <2>1, <3>1
  <2>2. CASE i \in 0 .. N[g] - 1 /\ L2[g][i] = L[g][i] /\ L2[h][j] = c
    BY <1>3, <2>2
  <2>3. CASE L2[g][i] = c /\ j \in 0 .. N[h] - 1 /\ L2[h][j] = L[h][j]
    BY <1>3, <2>3
  <2>4. CASE g = f /\ i = N[f] /\ h = f /\ j = N[f]
    BY <2>4
  <2> QED  BY <1>4, <2>1, <2>2, <2>3, <2>4
<1> QED  BY <1>5, <1>6 DEF Apart, L2, N2

\* The unit at the position, behind the last cluster: the file is no longer than that.
LEMMA AtEnd ==
  ASSUME NEW v \in Volumes, NEW f \in Files, NEW o \in Objects, NEW l, NEW n \in Nat,
         OpenOk(v, f, Lengthened(o), l, n), o.pos % Units = 0, o.pos \div Units = n
  PROVE  /\ o.len <= o.pos /\ o.valid <= o.pos /\ (o.len = 0 => o.valid = 0 \/ o.pos > 0)
         /\ (n = 0 <=> o.pos = 0) /\ (n = 0 <=> o.first = 0) /\ (n = 0 => o.cur = 0 /\ o.len = 0 /\ o.valid = 0)
         /\ (n > 0 => o.cur = l[n - 1])
<1> DEFINE p == Lengthened(o)
<1>1. /\ o.pos \in Nat /\ o.len \in Nat /\ o.valid \in Nat
      /\ p.pos = o.pos /\ p.valid = o.valid /\ p.cur = o.cur /\ p.first = o.first /\ p.contig = o.contig
      /\ p.len = IF o.pos > o.len THEN o.pos ELSE o.len
  BY DEF Lengthened, Objects
<1>2. p.len \in Nat
  BY <1>1
<1> HIDE DEF p
<1>3. Follows(v, p, l, n) /\ Right(v, f, p, l) /\ Placed(p, l)
  BY DEF OpenOk, p
<1>4. Count(p.len) <= n
  <2>1. p.contig => Count(p.len) = n
    BY <1>3 DEF Follows
  <2>2. ~p.contig /\ n > 0 => Count(p.len) <= n
    BY <1>3 DEF Follows
  <2>3. n = 0 => p.len = 0
    BY <1>3 DEF Follows
  <2>4. Count(0) = 0 /\ Count(p.len) \in Nat
    BY <1>2, CountIs
  <2> QED  BY <2>1, <2>2, <2>3, <2>4
<1>5. p.len <= o.pos
  <2>1. o.pos < p.len => n < Count(p.len)
    BY <1>1, <1>2, CountIs
  <2>2. Count(p.len) \in Nat
    BY <1>2, CountIs
  <2> QED  BY <1>1, <1>2, <1>4, <2>1, <2>2
<1>6. o.len <= o.pos /\ o.valid <= o.pos /\ p.len = o.pos
  BY <1>1, <1>3, <1>5 DEF Right
<1>7. n = 0 <=> o.pos = 0
  <2>1. o.pos = Units * (o.pos \div Units) + (o.pos % Units)
    BY <1>1, UnitAt
  <2>2. n = 0 => o.pos = 0
    <3>1. n = 0 => Units * (o.pos \div Units) = Units * 0
      OBVIOUS
    <3>2. Units * 0 = 0
      BY UnitsIs
    <3> QED  BY <2>1, <3>1, <3>2
  <2>3. o.pos = 0 => n = 0
    BY <1>3, <1>6, <1>1 DEF Follows
  <2> QED  BY <2>2, <2>3
<1>8. n = 0 <=> o.first = 0
  BY <1>1, <1>3 DEF Follows
<1>9. n = 0 => o.cur = 0
  BY <1>1, <1>3, <1>7 DEF Placed
<1>10. n > 0 => o.cur = l[n - 1]
  <2>1. n > 0 => (o.pos - 1) \div Units = n - 1
    BY <1>1, <1>7, Before
  <2> QED  BY <1>1, <1>3, <1>7, <2>1 DEF Placed
<1> QED  BY <1>1, <1>6, <1>7, <1>8, <1>9, <1>10

\* The fields of the objects.
LEMMA FurtherIs ==
  ASSUME NEW o \in Objects
  PROVE  LET p == Further(o) IN
         /\ p \in Objects /\ p.open = o.open /\ p.pos = o.pos + 1 /\ p.valid = o.valid /\ p.cur = o.cur
         /\ p.contig = o.contig /\ p.first = o.first
         /\ p.len = (IF o.len < o.pos + 1 THEN o.pos + 1 ELSE o.len)
         /\ (p.dirty <=> o.dirty \/ o.pos + 1 > o.valid)
<1> DEFINE d == o.dirty \/ o.pos + 1 > o.valid
           m == IF o.len < o.pos + 1 THEN o.pos + 1 ELSE o.len
<1>1. d \in BOOLEAN /\ m \in Nat /\ o.pos + 1 \in Nat
  BY DEF Objects
<1>2. Further(o) = [o EXCEPT !.pos = o.pos + 1, !.len = m, !.dirty = d]
  BY DEF Further
<1> HIDE DEF d, m
<1> DEFINE z == o.pos + 1
<1> HIDE DEF z
<1>3. LET p == [o EXCEPT !.pos = z, !.len = m, !.dirty = d] IN
      /\ p \in Objects /\ p.open = o.open /\ p.pos = z /\ p.valid = o.valid /\ p.cur = o.cur
      /\ p.contig = o.contig /\ p.first = o.first /\ p.len = m /\ p.dirty = d
  BY <1>1 DEF Objects, z
<1>4. LET p == Further(o) IN
      /\ p \in Objects /\ p.open = o.open /\ p.pos = o.pos + 1 /\ p.valid = o.valid /\ p.cur = o.cur
      /\ p.contig = o.contig /\ p.first = o.first /\ p.len = m /\ p.dirty = d
  BY <1>2, <1>3 DEF z
<1> QED  BY <1>4 DEF d, m

\* The fields of the object after its file grew by a cluster and a unit.
LEMMA ObjectIs ==
  ASSUME NEW o \in Objects, NEW n, NEW c \in Int, NEW b \in BOOLEAN
  PROVE  LET p == Grew(o, n, c, b) IN
         /\ p \in Objects /\ p.open = o.open /\ p.pos = o.pos + 1 /\ p.valid = o.valid /\ p.cur = c
         /\ p.contig = b /\ p.first = (IF n = 0 THEN c ELSE o.first)
         /\ p.len = (IF o.len < o.pos + 1 THEN o.pos + 1 ELSE o.len)
         /\ (p.dirty <=> o.dirty \/ o.pos + 1 > o.valid)
<1> DEFINE q == [o EXCEPT !.cur = c, !.contig = b, !.first = IF n = 0 THEN c ELSE @]
<1>1. /\ q \in Objects /\ q.open = o.open /\ q.pos = o.pos /\ q.valid = o.valid /\ q.cur = c
      /\ q.contig = b /\ q.first = (IF n = 0 THEN c ELSE o.first) /\ q.len = o.len /\ q.dirty = o.dirty
  BY DEF Objects
<1> HIDE DEF q
<1> DEFINE p == Further(q)
<1>2. /\ p \in Objects /\ p.open = q.open /\ p.pos = q.pos + 1 /\ p.valid = q.valid /\ p.cur = q.cur
      /\ p.contig = q.contig /\ p.first = q.first
      /\ p.len = (IF q.len < q.pos + 1 THEN q.pos + 1 ELSE q.len)
      /\ (p.dirty <=> q.dirty \/ q.pos + 1 > q.valid)
  BY <1>1, FurtherIs
<1>3. Grew(o, n, c, b) = p
  BY DEF Grew, q
<1> HIDE DEF p
<1> QED  BY <1>1, <1>2, <1>3

\* The file with the cluster more, before the unit is in it.
LEMMA Grown ==
  ASSUME NEW v, NEW L \in Lists, NEW N \in Lengths, NEW f \in Files, NEW o \in Objects,
         Within(v, f, Lengthened(o), L, N), o.pos % Units = 0, o.pos \div Units = N[f],
         NEW c \in Clusters \ v.used, NEW w \in Volumes, w.used = v.used \cup {c},
         w.data = v.data, w.entry = v.entry, w.obj[f].open,
         \A g \in Files \ {f} : w.obj[g] = v.obj[g] /\ \A i \in 0 .. N[g] - 1 : w.fat[L[g][i]] = v.fat[L[g][i]],
         NEW b \in BOOLEAN, b => N[f] = 0 \/ (o.contig /\ c = L[f][N[f] - 1] + 1),
         ~b => /\ N[f] > 0 /\ w.fat[c] = EOC /\ w.fat[L[f][N[f] - 1]] = c
               /\ \A i \in 0 .. N[f] - 2 : w.fat[L[f][i]] = L[f][i + 1]
  PROVE  Within(w, f, Grew(o, N[f], c, b), More(L, N, f, c), OneMore(N, f))
<1> DEFINE L2 == More(L, N, f, c)
           N2 == OneMore(N, f)
           n == N[f]
           l == L[f]
           p == Grew(o, n, c, b)
           k == L2[f]
<1>1. /\ v \in Volumes /\ System \subseteq v.used /\ Apart(v, L, N) /\ OpenOk(v, f, Lengthened(o), L[f], N[f])
      /\ \A g \in Files \ {f} : FileOk(v, g, L[g], N[g])
  BY DEF Within
<1>2. c \in Int /\ c # 0 /\ \A g \in Files : N[g] \in Nat
  BY NoCluster DEF Lengths
<1>3. /\ L2 \in Lists /\ N2 \in Lengths /\ \A g \in Files \ {f} : L2[g] = L[g] /\ N2[g] = N[g]
      /\ N2[f] = n + 1 /\ k[n] = c /\ \A i \in 0 .. n - 1 : k[i] = l[i]
  <2>1. /\ More(L, N, f, c) \in Lists /\ OneMore(N, f) \in Lengths
        /\ \A g \in Files \ {f} : More(L, N, f, c)[g] = L[g] /\ OneMore(N, f)[g] = N[g]
        /\ OneMore(N, f)[f] = N[f] + 1 /\ More(L, N, f, c)[f][N[f]] = c
        /\ \A i \in 0 .. N[f] - 1 : More(L, N, f, c)[f][i] = L[f][i]
    <3>1. c \in Int
      BY <1>2
    <3> QED  BY ONLY <3>1, MoreIs, ZenonT(30)
  <2> QED  BY <2>1
<1>4. Apart(w, L2, N2)
  BY <1>1, MoreApart
<1>5. \A g \in Files \ {f} : FileOk(w, g, L2[g], N2[g])
  <2> TAKE g \in Files \ {f}
  <2>1. \A i \in 0 .. N[g] - 1 : L[g][i] \in Clusters
    BY <1>1, ItemsIn
  <2>2. FileOk(v, g, L[g], N[g])
    BY <1>1
  <2>3. FileOk(w, g, L[g], N[g])
    BY <1>1, <1>2, <2>1, <2>2, FileKept
  <2> QED  BY <1>3, <2>3
<1>6. /\ p \in Objects /\ p.pos = o.pos + 1 /\ p.valid = o.valid /\ p.cur = c
      /\ p.contig = b /\ p.first = (IF n = 0 THEN c ELSE o.first)
      /\ p.len = (IF o.len < o.pos + 1 THEN o.pos + 1 ELSE o.len)
      /\ (p.dirty <=> o.dirty \/ o.pos + 1 > o.valid)
  BY <1>2, ObjectIs
<1>7. /\ o.len <= o.pos /\ o.valid <= o.pos /\ (n = 0 <=> o.pos = 0) /\ (n = 0 <=> o.first = 0)
      /\ (n = 0 => o.cur = 0 /\ o.len = 0 /\ o.valid = 0)
      /\ o.len \in Nat /\ o.pos \in Nat /\ o.valid \in Nat
  <2>1. o.len \in Nat /\ o.pos \in Nat /\ o.valid \in Nat
    BY DEF Objects
  <2> QED  BY <1>1, <1>2, <2>1, AtEnd
<1> DEFINE q == Lengthened(o)
<1>8. /\ q.valid = o.valid /\ q.first = o.first /\ q.contig = o.contig
      /\ q.len = (IF o.pos > o.len THEN o.pos ELSE o.len) /\ q.dirty = (o.dirty \/ o.pos > o.len)
      /\ q.pos = o.pos /\ q \in Objects
  BY DEF Lengthened, Objects
<1>9. Follows(v, q, l, n) /\ Right(v, f, q, l) /\ Behind(v.entry[f], q, l)
  BY <1>1 DEF OpenOk
<1> HIDE DEF L2, N2, p, q, n, l, k
<1>10. n \in Nat
  BY <1>2 DEF n
<1>11. p.len = o.pos + 1 /\ p.dirty /\ o.pos + 1 \in Nat
  BY <1>6, <1>7
<1>12. Follows(w, p, k, n + 1)
  <2>1. p.first # 0 /\ k[0] = p.first
    <3>1. CASE n = 0
      BY <3>1, <1>2, <1>3, <1>6
    <3>2. CASE n # 0
      <4>1. k[0] = l[0] /\ l[0] = q.first
        BY <3>2, <1>3, <1>9, <1>10 DEF Follows
      <4> QED  BY <3>2, <4>1, <1>6, <1>7, <1>8
    <3> QED  BY <3>1, <3>2
  <2>2. Count(p.len) = n + 1
    BY <1>11, <1>7, CountIs DEF n
  <2>3. b => \A i \in 0 .. n : k[i] = p.first + i
    <3> SUFFICES ASSUME b, NEW i \in 0 .. n PROVE k[i] = p.first + i
      OBVIOUS
    <3>1. CASE n = 0
      BY <3>1, <2>1, <1>6, <1>2
    <3>2. CASE n # 0
      <4>1. o.contig /\ c = l[n - 1] + 1
        BY <3>2 DEF n, l
      <4>2. \A j \in 0 .. n - 1 : l[j] = o.first + j
        BY <4>1, <1>8, <1>9 DEF Follows
      <4>3. o.first \in Int /\ p.first = o.first
        BY <3>2, <1>6 DEF Objects
      <4>4. c = o.first + n
        BY <4>1, <4>2, <4>3, <3>2, <1>10
      <4> QED  BY <4>2, <4>3, <4>4, <1>3, <1>10
    <3> QED  BY <3>1, <3>2
  <2>4. ~b => w.fat[k[n]] = EOC /\ \A i \in 0 .. n - 1 : w.fat[k[i]] = k[i + 1]
    <3> SUFFICES ASSUME ~b PROVE w.fat[k[n]] = EOC /\ \A i \in 0 .. n - 1 : w.fat[k[i]] = k[i + 1]
      OBVIOUS
    <3>1. n > 0 /\ w.fat[c] = EOC /\ w.fat[l[n - 1]] = c /\ \A i \in 0 .. n - 2 : w.fat[l[i]] = l[i + 1]
      BY DEF n, l
    <3>2. ASSUME NEW i \in 0 .. n - 1 PROVE w.fat[k[i]] = k[i + 1]
      <4>1. CASE i = n - 1
        BY <4>1, <3>1, <1>3, <1>10
      <4>2. CASE i # n - 1
        <5>1. i \in 0 .. n - 2 /\ i + 1 \in 0 .. n - 1
          BY <4>2, <1>10
        <5> QED  BY <5>1, <3>1, <1>3
      <4> QED  BY <4>1, <4>2
    <3> QED  BY <3>1, <3>2, <1>3
  <2>5. p.len # 0 /\ n + 1 # 0 /\ n + 1 - 1 = n /\ n + 1 - 2 = n - 1
    BY <1>7, <1>10, <1>11
  <2> QED  BY <2>1, <2>2, <2>3, <2>4, <2>5, <1>6, <1>10 DEF Follows
<1>13. Right(w, f, p, k)
  <2>1. p.valid <= p.len
    BY <1>6, <1>7, <1>11
  <2>2. ASSUME NEW u \in 0 .. p.valid - 1 PROVE w.data[k[u \div Units]][u % Units] = <<f, u>>
    <3>1. u \in Nat /\ u < q.len /\ q.len \in Nat /\ u \in 0 .. q.valid - 1
      BY <1>6, <1>7, <1>8
    <3>2. u \div Units \in 0 .. n - 1
      BY <3>1, <1>1, <1>9, <1>10, UnitIn
    <3>3. v.data[l[u \div Units]][u % Units] = <<f, u>>
      BY <3>1, <1>9 DEF Right
    <3> QED  BY <3>2, <3>3, <1>3
  <2> QED  BY <2>1, <2>2 DEF Right
<1>14. Placed(p, k)
  <2>1. p.pos # 0 /\ p.pos - 1 = o.pos /\ p.pos <= p.len
    BY <1>6, <1>7, <1>11
  <2>2. o.pos \div Units = n
    BY DEF n
  <2> QED  BY <2>1, <2>2, <1>3, <1>6 DEF Placed
<1>15. Behind(w.entry[f], p, k)
  <2> DEFINE e == v.entry[f]
  <2>1. e \in Entries /\ w.entry[f] = e
    BY <1>1, VolumeIs
  <2>2. e.len \in Nat /\ e.valid \in Nat
    BY <2>1 DEF Entries
  <2> HIDE DEF e
  <2>3. Behind(e, q, l)
    BY <1>9 DEF e
  <2>4. e.first \in {0, p.first}
    BY <2>3, <1>6, <1>7, <1>8 DEF Behind
  <2>5. e.len <= p.len /\ e.valid <= p.valid
    BY <2>2, <2>3, <1>6, <1>7, <1>8, <1>11 DEF Behind
  <2>6. e.first # 0 => IF e.contig THEN \A i \in 0 .. Count(e.len) - 1 : k[i] = e.first + i ELSE ~p.contig
    <3> SUFFICES ASSUME e.first # 0
                 PROVE  IF e.contig THEN \A i \in 0 .. Count(e.len) - 1 : k[i] = e.first + i ELSE ~p.contig
      OBVIOUS
    <3>1. n > 0
      BY <2>3, <1>7, <1>8, <1>10 DEF Behind
    <3>2. CASE e.contig
      <4>1. \A i \in 0 .. Count(e.len) - 1 : l[i] = e.first + i
        BY <3>2, <2>3 DEF Behind
      <4>2. Count(e.len) <= n
        <5>1. Count(e.len) <= Count(q.len) /\ q.len \in Nat
          BY <2>2, <2>3, <1>7, <1>8, CountGrows DEF Behind
        <5>2. q.contig => Count(q.len) = n
          BY <1>9 DEF Follows
        <5>3. ~q.contig => Count(q.len) <= n
          BY <3>1, <1>9 DEF Follows
        <5>4. Count(e.len) \in Nat /\ Count(q.len) \in Nat
          BY <2>2, <5>1, CountIs
        <5> QED  BY <5>1, <5>2, <5>3, <5>4, <1>10
      <4>3. Count(e.len) \in Nat
        BY <2>2, CountIs
      <4>4. \A i \in 0 .. Count(e.len) - 1 : i \in 0 .. n - 1
        BY <4>2, <4>3, <1>10
      <4> QED  BY <3>2, <4>1, <4>4, <1>3
    <3>3. CASE ~e.contig
      <4>1. ~o.contig
        BY <3>3, <2>3, <1>8 DEF Behind
      <4>2. ~b
        BY <3>1, <4>1 DEF n
      <4> QED  BY <3>3, <4>2, <1>6
    <3> QED  BY <3>2, <3>3, <2>1 DEF Entries
  <2>7. (e.first = 0 <=> e.len = 0) /\ (~e.exists => e.first = 0) /\ e.valid <= e.len
    BY <2>3 DEF Behind
  <2> QED  BY <2>1, <2>4, <2>5, <2>6, <2>7, <1>11 DEF Behind
<1>16. OpenOk(w, f, p, k, N2[f])
  BY <1>3, <1>12, <1>13, <1>14, <1>15 DEF OpenOk
<1>17. System \subseteq w.used
  BY <1>1
<1>18. Within(w, f, p, L2, N2)
  BY <1>4, <1>5, <1>6, <1>16, <1>17 DEF Within, k
<1> QED  BY <1>18 DEF p, L2, N2, n

\* Lists of steps.
LEMMA StepLists ==
  ASSUME NEW S
  PROVE  /\ \A x \in S : <<x>> \in Seq(S) /\ <<x>> # <<>> /\ Last(<<x>>) = x /\ Len(<<x>>) = 1
         /\ \A s \in Seq(S) : \A x \in S : Append(s, x) \in Seq(S) /\ Append(s, x) # <<>> /\ Last(Append(s, x)) = x
         /\ \A s, t \in Seq(S) : t # <<>> => s \o t \in Seq(S) /\ s \o t # <<>> /\ Last(s \o t) = Last(t)
         /\ \A s \in Seq(S) : s # <<>> => Last(s) \in S /\ Len(s) \in Nat \ {0}
<1>1. \A x \in S : <<x>> \in Seq(S) /\ <<x>> # <<>> /\ Last(<<x>>) = x /\ Len(<<x>>) = 1
  BY DEF Last
<1>2. \A s \in Seq(S) : \A x \in S : Append(s, x) \in Seq(S) /\ Append(s, x) # <<>> /\ Last(Append(s, x)) = x
  BY DEF Last
<1>3. \A s \in Seq(S) : s # <<>> => Last(s) \in S /\ Len(s) \in Nat \ {0}
  BY DEF Last
<1>4. \A s, t \in Seq(S) : t # <<>> => s \o t \in Seq(S) /\ s \o t # <<>> /\ Last(s \o t) = Last(t)
  <2> TAKE s, t \in Seq(S)
  <2> HAVE t # <<>>
  <2>1. s \o t \in Seq(S) /\ Len(s \o t) = Len(s) + Len(t) /\ Len(s) \in Nat /\ Len(t) \in Nat /\ Len(t) # 0
    OBVIOUS
  <2>2. (s \o t)[Len(s) + Len(t)] = t[Len(t)]
    BY <2>1
  <2> QED  BY <2>1, <2>2 DEF Last
<1> QED  BY <1>1, <1>2, <1>3, <1>4

\* Two objects with the same fields are the same.
LEMMA SameObject ==
  ASSUME NEW o \in Objects, NEW p \in Objects, o.open = p.open, o.dirty = p.dirty, o.contig = p.contig,
         o.first = p.first, o.cur = p.cur, o.pos = p.pos, o.valid = p.valid, o.len = p.len
  PROVE  o = p
<1>1. \A q \in Objects : q = [open |-> q.open, dirty |-> q.dirty, contig |-> q.contig, first |-> q.first,
                              cur |-> q.cur, pos |-> q.pos, valid |-> q.valid, len |-> q.len]
  BY DEF Objects
<1> QED  BY <1>1

\* The object of a contiguous or a chained file at another cluster.
LEMMA CursorIs ==
  ASSUME NEW o \in Objects, NEW c \in Int, NEW b \in BOOLEAN
  PROVE  /\ [o EXCEPT !.contig = b] \in Objects /\ [o EXCEPT !.cur = c] \in Objects
         /\ [o EXCEPT !.cur = c, !.contig = b] \in Objects
         /\ [[o EXCEPT !.contig = b] EXCEPT !.cur = c] = [o EXCEPT !.cur = c, !.contig = b]
         /\ [o EXCEPT !.contig = b, !.cur = c] = [o EXCEPT !.cur = c, !.contig = b]
         /\ o.contig = b => /\ [o EXCEPT !.cur = c] = [o EXCEPT !.cur = c, !.contig = b]
                            /\ [o EXCEPT !.contig = b] = o
         /\ [o EXCEPT !.contig = b].open = o.open
         /\ [o EXCEPT !.cur = c, !.contig = b].open = o.open
<1> DEFINE p == [o EXCEPT !.cur = c, !.contig = b]
<1>2. [o EXCEPT !.contig = b] = [open |-> o.open, dirty |-> o.dirty, contig |-> b, first |-> o.first,
           cur |-> o.cur, pos |-> o.pos, valid |-> o.valid, len |-> o.len]
  BY DEF Objects
<1>3. [o EXCEPT !.cur = c] = [open |-> o.open, dirty |-> o.dirty, contig |-> o.contig, first |-> o.first,
           cur |-> c, pos |-> o.pos, valid |-> o.valid, len |-> o.len]
  BY DEF Objects
<1> DEFINE m == [o EXCEPT !.cur = c]
<1>10. p = [m EXCEPT !.contig = b]
  BY DEF Objects
<1>11. m \in Objects /\ m.open = o.open /\ m.dirty = o.dirty /\ m.contig = o.contig /\ m.first = o.first
       /\ m.cur = c /\ m.pos = o.pos /\ m.valid = o.valid /\ m.len = o.len
  BY <1>3 DEF Objects
<1> HIDE DEF m
<1>12. [m EXCEPT !.contig = b] = [open |-> m.open, dirty |-> m.dirty, contig |-> b, first |-> m.first,
           cur |-> m.cur, pos |-> m.pos, valid |-> m.valid, len |-> m.len]
  BY <1>11 DEF Objects
<1>1. p = [open |-> o.open, dirty |-> o.dirty, contig |-> b, first |-> o.first,
           cur |-> c, pos |-> o.pos, valid |-> o.valid, len |-> o.len]
  BY <1>10, <1>11, <1>12
<1>4. [[o EXCEPT !.contig = b] EXCEPT !.cur = c] = p
  BY <1>1, <1>2
<1>5. [o EXCEPT !.contig = b, !.cur = c] = p
  BY <1>1 DEF Objects
<1>6. p \in Objects /\ [o EXCEPT !.contig = b] \in Objects /\ [o EXCEPT !.cur = c] \in Objects
  BY <1>1, <1>2, <1>3 DEF Objects
<1>7. o.contig = b => [o EXCEPT !.cur = c] = p
  BY <1>1, <1>3 DEF m
<1>8. o.contig = b => [o EXCEPT !.contig = b] = o
  BY <1>2 DEF Objects
<1>9. [o EXCEPT !.contig = b].open = o.open /\ p.open = o.open
  BY <1>1, <1>2
<1> QED  BY <1>4, <1>5, <1>6, <1>7, <1>8, <1>9

\* The FAT after the first i links of a contiguous file were written.
LinkedTo(t, first, i) == Onto(t, [c \in first .. first + i - 1 |-> c + 1])

\* The links written change the FAT at those clusters only.
LEMMA LinkedToIs ==
  ASSUME NEW t \in [Clusters -> Int], NEW first \in Int, NEW i \in Int, first .. first + i - 1 \subseteq Clusters
  PROVE  /\ LinkedTo(t, first, i) \in [Clusters -> Int]
         /\ \A y \in Clusters : LinkedTo(t, first, i)[y] = IF y \in first .. first + i - 1 THEN y + 1 ELSE t[y]
<1> DEFINE S == first .. first + i - 1
<1>1. LinkedTo(t, first, i) = [y \in Clusters |-> IF y \in S THEN y + 1 ELSE t[y]]
  BY DEF LinkedTo, Onto
<1>2. \A y \in S : y + 1 \in Int
  OBVIOUS
<1> HIDE DEF S
<1>3. LinkedTo(t, first, i) \in [Clusters -> Int]
  BY <1>1, <1>2
<1> QED  BY <1>1, <1>3 DEF S

\* One link is written.
LEMMA FatPutIs ==
  ASSUME NEW v \in Volumes, NEW c \in Clusters, NEW x \in Int
  PROVE  LET w == FatPut(v, c, x) IN
         /\ w \in Volumes /\ w.used = v.used /\ w.start = v.start /\ w.data = v.data
         /\ w.entry = v.entry /\ w.obj = v.obj /\ w.result = v.result
         /\ w.fat[c] = x /\ \A y \in Clusters : y # c => w.fat[y] = v.fat[y]
<1> DEFINE t == Onto(v.fat, [d \in {c} |-> x])
<1>1. v.fat \in [Clusters -> Int]
  BY VolumeIs
<1>2. t \in [Clusters -> Int] /\ t[c] = x /\ \A y \in Clusters : y # c => t[y] = v.fat[y]
  BY <1>1 DEF Onto
<1>3. FatPut(v, c, x) = [v EXCEPT !.fat = t]
  BY DEF FatPut
<1> HIDE DEF t
<1> QED  BY <1>2, <1>3, FatIs

\* The current cluster or the kind of a file changes in the object only.
LEMMA SetCursor ==
  ASSUME NEW v \in Volumes, NEW f \in Files, NEW c \in Int, NEW b \in BOOLEAN
  PROVE  /\ [v EXCEPT !.obj[f].cur = c] = Set(v, f, [v.obj[f] EXCEPT !.cur = c])
         /\ [v EXCEPT !.obj[f].contig = b] = Set(v, f, [v.obj[f] EXCEPT !.contig = b])
         /\ [v EXCEPT !.obj[f].first = c] = Set(v, f, [v.obj[f] EXCEPT !.first = c])
BY DEF Set

\* Steps s after u that write the links of n clusters l, in a volume that was v.
LinksUp(s, v, u, l, n) ==
  LET x == Last(s) IN
  /\ s \in Seq(Good) /\ s # <<>> /\ x \in Volumes
  /\ x.used = u.used /\ x.data = u.data /\ x.entry = u.entry /\ x.obj = u.obj /\ x.result = u.result
  /\ \A i \in 0 .. n - 2 : x.fat[l[i]] = l[i + 1]
  /\ \A y \in Clusters : (\A i \in 0 .. n - 1 : l[i] # y) => x.fat[y] = v.fat[y]

\* The links of a file that was contiguous: after all of them it is a chain.
LEMMA LinksAre ==
  ASSUME NEW v, NEW L \in Lists, NEW N \in Lengths, NEW f \in Files, NEW o, Within(v, f, o, L, N),
         NEW u \in Volumes, u.fat = v.fat, u.data = v.data, u.entry = v.entry, v.used \subseteq u.used,
         o.contig, N[f] > 0, NEW first \in Int, \A i \in 0 .. N[f] - 1 : L[f][i] = first + i,
         NEW last, last = first + N[f] - 1
  PROVE  LinksUp(<<u>> \o Links(u, first, last), v, u, L[f], N[f])
<1> DEFINE n == N[f]
           l == L[f]
           X == {w \in Good : /\ w.used = u.used /\ w.data = u.data /\ w.entry = u.entry
                              /\ w.obj = u.obj /\ w.result = u.result}
           link(i) == WithLinks(u, first, i)
<1>1. v \in Volumes /\ Apart(v, L, N) /\ n \in Nat /\ n > 0
  BY DEF Within, Lengths
<1>2. \A i \in 0 .. n - 1 : l[i] = first + i /\ l[i] \in Clusters
  BY <1>1, ItemsIn
<1>3. u.fat \in [Clusters -> Int]
  BY VolumeIs
<1>4. ASSUME NEW i \in 0 .. n - 1
      PROVE  /\ link(i) \in Volumes /\ link(i) \in X
             /\ \A y \in Clusters : link(i).fat[y] = IF y \in first .. first + i - 1 THEN y + 1 ELSE u.fat[y]
  <2> DEFINE t == LinkedTo(u.fat, first, i)
  <2>1. first .. first + i - 1 \subseteq Clusters
    <3> SUFFICES ASSUME NEW y \in first .. first + i - 1 PROVE y \in Clusters
      OBVIOUS
    <3>1. y - first \in 0 .. n - 1 /\ first + (y - first) = y
      BY <1>1
    <3> QED  BY <3>1, <1>2
  <2>2. t \in [Clusters -> Int] /\ \A y \in Clusters : t[y] = IF y \in first .. first + i - 1 THEN y + 1 ELSE u.fat[y]
    BY <1>1, <1>3, <2>1, LinkedToIs
  <2> DEFINE w == [u EXCEPT !.fat = t]
  <2> HIDE DEF t
  <2>3. /\ w \in Volumes /\ w.used = u.used /\ w.fat = t /\ w.data = u.data
        /\ w.entry = u.entry /\ w.obj = u.obj /\ w.result = u.result
    BY <2>2, FatIs
  <2>4. link(i) = w
    BY DEF t, WithLinks, LinkedTo
  <2> HIDE DEF w
  <2>5. \A g \in Files : \A j \in 0 .. N[g] - 1 : w.fat[L[g][j]] = v.fat[L[g][j]] \/ (g = f /\ o.contig)
    <3> TAKE g \in Files
    <3> TAKE j \in 0 .. N[g] - 1
    <3> SUFFICES ASSUME g # f PROVE w.fat[L[g][j]] = v.fat[L[g][j]]
      OBVIOUS
    <3>1. L[g][j] \in Clusters
      BY <1>1, ItemsIn
    <3>2. L[g][j] \notin first .. first + i - 1
      <4> SUFFICES ASSUME L[g][j] \in first .. first + i - 1 PROVE FALSE
        OBVIOUS
      <4> DEFINE k == L[g][j] - first
      <4>1. k \in 0 .. n - 1 /\ first + k = L[g][j]
        BY <1>1
      <4>2. L[f][k] = L[g][j]
        BY <1>2, <4>1
      <4> QED  BY <1>1, <4>1, <4>2 DEF Apart
    <3> QED  BY <3>1, <3>2, <2>2, <2>3
  <2>6. w \in Good
    <3>1. w.entry = v.entry /\ w.data = v.data /\ v.used \subseteq w.used
      BY <2>3
    <3>2. Within(v, f, o, L, N) /\ w \in Volumes
      BY <2>3
    <3>3. Elsewhere(v, w, L, N, f, o)
      BY <2>5 DEF Elsewhere
    <3> QED  BY <3>1, <3>2, <3>3, StillGood
  <2> QED  BY <2>2, <2>3, <2>4, <2>6
<1>5. u \in X
  <2>1. u \in Good
    BY StillGood DEF Elsewhere
  <2> QED  BY <2>1
<1>6. Links(u, first, last) = [i \in 1 .. n - 1 |-> link(i)]
  <2>2. Max({0, n - 1}) = n - 1
    <3>1. 0 \in Int /\ n - 1 \in Int /\ (0 < n - 1 \/ n - 1 = 0)
      BY <1>1
    <3> HIDE DEF n
    <3>2. Max({0, n - 1}) = IF 0 < n - 1 THEN n - 1 ELSE 0
      BY <3>1, MaxOfTwo
    <3> QED  BY <3>1, <3>2
  <2>3. last - first = n - 1
    BY <1>1
  <2> HIDE DEF n
  <2>4. Links(u, first, last) = [i \in 1 .. Max({0, last - first}) |-> WithLinks(u, first, i)]
    BY DEF Links
  <2>5. Links(u, first, last) = [i \in 1 .. n - 1 |-> WithLinks(u, first, i)]
    BY <2>2, <2>3, <2>4
  <2> QED  BY <2>5
<1> DEFINE q == Links(u, first, last)
           s == <<u>> \o q
<1>7. \A i \in 1 .. n - 1 : link(i) \in X
  <2> TAKE i \in 1 .. n - 1
  <2>1. i \in 0 .. n - 1
    BY <1>1
  <2> QED  BY <1>4, <2>1
<1> HIDE DEF X, link
<1>8. q \in Seq(X) /\ Len(q) = n - 1
  BY <1>1, <1>6, <1>7
<1>9. s \in Seq(X) /\ s # <<>> /\ Len(s) = n /\ Last(s) = IF n = 1 THEN u ELSE link(n - 1)
  <2>1. s \in Seq(X) /\ s # <<>> /\ Len(s) = n
    BY <1>1, <1>5, <1>8
  <2>2. CASE n = 1
    BY <1>8, <2>1, <2>2 DEF Last
  <2>3. CASE n # 1
    <3>1. n - 1 \in 1 .. n - 1 /\ q[n - 1] = link(n - 1)
      BY <1>1, <1>6, <2>3
    <3>2. s[n] = q[n - 1]
      BY <1>1, <1>8, <2>1, <2>3
    <3> QED  BY <2>1, <2>3, <3>1, <3>2 DEF Last
  <2> QED  BY <2>2, <2>3
<1> HIDE DEF q, s
<1>10. Last(s) \in X
  BY <1>9, StepLists
<1>11. \A y \in Clusters : Last(s).fat[y] = IF y \in first .. first + (n - 1) - 1 THEN y + 1 ELSE u.fat[y]
  <2>1. CASE n = 1
    BY <1>9, <2>1
  <2>2. CASE n # 1
    <3>1. n - 1 \in 0 .. n - 1
      BY <1>1
    <3>2. \A y \in Clusters : link(n - 1).fat[y] = IF y \in first .. first + (n - 1) - 1 THEN y + 1 ELSE u.fat[y]
      BY <1>4, <3>1
    <3> QED  BY <1>9, <2>2, <3>2
  <2> QED  BY <2>1, <2>2
<1>12. \A i \in 0 .. n - 2 : Last(s).fat[l[i]] = l[i + 1]
  <2> TAKE i \in 0 .. n - 2
  <2>1. i \in 0 .. n - 1 /\ i + 1 \in 0 .. n - 1 /\ first + i \in first .. first + (n - 1) - 1
    BY <1>1
  <2>2. l[i] = first + i /\ l[i] \in Clusters /\ l[i + 1] = first + i + 1
    BY <1>2, <2>1
  <2> QED  BY <1>11, <2>1, <2>2
<1>13. \A y \in Clusters : (\A i \in 0 .. n - 1 : l[i] # y) => Last(s).fat[y] = v.fat[y]
  <2> TAKE y \in Clusters
  <2> HAVE \A i \in 0 .. n - 1 : l[i] # y
  <2>1. y \notin first .. first + (n - 1) - 1
    <3> SUFFICES ASSUME y \in first .. first + (n - 1) - 1 PROVE FALSE
      OBVIOUS
    <3>1. y - first \in 0 .. n - 1 /\ first + (y - first) = y
      BY <1>1
    <3> QED  BY <1>2, <3>1
  <2> QED  BY <1>11, <2>1
<1>14. /\ Last(s) \in Good /\ Last(s).used = u.used /\ Last(s).data = u.data /\ Last(s).entry = u.entry
       /\ Last(s).obj = u.obj /\ Last(s).result = u.result
  BY <1>10 DEF X
<1>15. Last(s) \in Volumes
  BY <1>14 DEF Good
<1>16. s \in Seq(Good)
  <2>1. X \subseteq Good
    BY SMTT(30) DEF X
  <2> QED  BY <1>9, <2>1
<1> QED  BY <1>9, <1>12, <1>13, <1>14, <1>15, <1>16 DEF s, q, LinksUp

\* A cluster is added to a file that is full up to it, or nothing is found.
LEMMA AddClusterIs ==
  ASSUME NEW v, NEW L \in Lists, NEW N \in Lengths, NEW f \in Files,
         Within(v, f, Lengthened(v.obj[f]), L, N), v.result = "ok",
         v.obj[f].pos % Units = 0, v.obj[f].pos \div Units = N[f]
  PROVE  LET s == AddCluster(v, f)
             w == Last(s)
             o == v.obj[f] IN
         /\ s \in Seq(Good) /\ s # <<>>
         /\ w.result # "ok" \/
              \E c \in Clusters \ v.used : \E b \in BOOLEAN :
                /\ w \in Volumes /\ w.result = "ok" /\ w.used = v.used \cup {c}
                         /\ w.obj[f] = [o EXCEPT !.cur = c, !.contig = b]
                /\ Within(w, f, Grew(o, N[f], c, b), More(L, N, f, c), OneMore(N, f))
<1> DEFINE o == v.obj[f]
           hint == IF o.cur = 0 THEN 0 ELSE o.cur + 1
           c == Found(v, hint, 1)
           taken == Take(Noted(v, hint, 1), c, 1)
           chained == [taken EXCEPT !.obj[f].contig = FALSE]
           links == IF o.contig THEN <<chained>> \o Links(chained, o.first, o.cur) ELSE <<taken>>
           ended == FatPut(Last(links), c, EOC)
           linked == FatPut(ended, o.cur, c)
           n == N[f]
           l == L[f]
           Ends(w, b) == /\ w \in Volumes /\ w.result = "ok" /\ w.used = v.used \cup {c}
                         /\ w.obj[f] = [o EXCEPT !.cur = c, !.contig = b]
                         /\ Within(w, f, Grew(o, n, c, b), More(L, N, f, c), OneMore(N, f))
           Outcome(s) ==
             /\ s \in Seq(Good) /\ s # <<>>
             /\ Last(s).result # "ok" \/
                  \E d \in Clusters \ v.used : \E b \in BOOLEAN :
                    /\ Last(s) \in Volumes /\ Last(s).result = "ok" /\ Last(s).used = v.used \cup {d}
                    /\ Last(s).obj[f] = [o EXCEPT !.cur = d, !.contig = b]
                    /\ Within(Last(s), f, Grew(o, N[f], d, b), More(L, N, f, d), OneMore(N, f))
<1> SUFFICES Outcome(AddCluster(v, f))
  OBVIOUS
<1>1. AddCluster(v, f) =
        IF ~Finds(v, hint, 1) THEN <<Without(v, hint)>>
        ELSE IF o.cur = 0 THEN <<taken, Set(taken, f, [o EXCEPT !.contig = TRUE, !.cur = c])>>
        ELSE IF o.contig /\ c = o.cur + 1 THEN <<taken, Set(taken, f, [o EXCEPT !.cur = c])>>
        ELSE <<taken>> \o links \o <<ended, linked, [linked EXCEPT !.obj[f].cur = c]>>
  BY DEF AddCluster, Final
<1>2. /\ v \in Volumes /\ System \subseteq v.used /\ Apart(v, L, N) /\ OpenOk(v, f, Lengthened(o), l, n)
      /\ o.open /\ o \in Objects /\ n \in Nat /\ o.cur \in Int /\ o.first \in Int /\ o.contig \in BOOLEAN
  BY VolumeIs DEF Within, Lengths, Objects
<1>3. /\ (n = 0 <=> o.first = 0) /\ (n = 0 => o.cur = 0) /\ (n > 0 => o.cur = l[n - 1])
  BY <1>2, AtEnd
<1>4. \A g \in Files : \A i \in 0 .. N[g] - 1 : L[g][i] \in Clusters /\ L[g][i] \in v.used
  BY <1>2, ItemsIn
<1>5. n = 0 <=> o.cur = 0
  <2>1. n > 0 => n - 1 \in 0 .. n - 1
    BY <1>2
  <2> QED  BY <1>2, <1>3, <1>4, <2>1, NoCluster
<1>6. hint \in Int
  BY <1>2
<1> HIDE DEF hint
<1>7. CASE ~Finds(v, hint, 1)
  <2> DEFINE w == Without(v, hint)
  <2>1. AddCluster(v, f) = <<w>>
    BY <1>1, <1>7
  <2>2. /\ w \in Volumes /\ w.used = v.used /\ w.fat = v.fat /\ w.data = v.data
        /\ w.entry = v.entry /\ w.result # "ok"
    BY <1>2, <1>6, WithoutIs
  <2> HIDE DEF w
  <2>3. w \in Good
    <3>1. v.used \subseteq w.used
      BY <2>2
    <3> QED  BY <2>2, <3>1, StillGood DEF Elsewhere
  <2>4. <<w>> \in Seq(Good) /\ <<w>> # <<>> /\ Last(<<w>>) = w
    BY <2>3, SMTT(30) DEF Last
  <2> QED  BY <2>1, <2>2, <2>4
<1>8. CASE Finds(v, hint, 1)
  <2>1. /\ c \in Clusters \ v.used
        /\ taken \in Volumes /\ taken.used = v.used \cup {c} /\ taken.fat = v.fat /\ taken.data = v.data
        /\ taken.entry = v.entry /\ taken.obj = v.obj /\ taken.result = "ok"
    <3>1. /\ c \in Clusters /\ c .. c + 1 - 1 \subseteq Clusters \ v.used
          /\ taken \in Volumes /\ taken.used = v.used \cup (c .. c + 1 - 1) /\ taken.fat = v.fat
          /\ taken.data = v.data
          /\ taken.entry = v.entry /\ taken.obj = v.obj /\ taken.result = v.result
      BY <1>2, <1>6, <1>8, Taken
    <3>2. c .. c + 1 - 1 = {c}
      BY <3>1, NoCluster
    <3> QED  BY <3>1, <3>2
  <2>2. c \in Int /\ c \in Clusters /\ c # 0
    BY <2>1, NoCluster
  <2> HIDE DEF taken, c
  <2>3. taken \in Good
    <3>1. v.used \subseteq taken.used
      BY <2>1
    <3> QED  BY <2>1, <3>1, StillGood DEF Elsewhere
\* A volume that differs from v as the cluster makes it differ.
  <2>4. ASSUME NEW w \in Volumes, w.used = v.used \cup {c}, w.data = v.data, w.entry = v.entry,
               w.result = "ok", NEW b \in BOOLEAN, w.obj[f].open,
               \A g \in Files \ {f} : w.obj[g] = v.obj[g] /\ \A i \in 0 .. N[g] - 1 : w.fat[L[g][i]] = v.fat[L[g][i]],
               b => n = 0 \/ (o.contig /\ c = l[n - 1] + 1),
               ~b => /\ n > 0 /\ w.fat[c] = EOC /\ w.fat[l[n - 1]] = c
                     /\ \A i \in 0 .. n - 2 : w.fat[l[i]] = l[i + 1]
        PROVE  /\ Within(w, f, Grew(o, n, c, b), More(L, N, f, c), OneMore(N, f))
               /\ w.obj[f] = [o EXCEPT !.cur = c, !.contig = b] => Ends(w, b)
               /\ w \in Good
    <3>1. Within(w, f, Grew(o, n, c, b), More(L, N, f, c), OneMore(N, f))
      BY <1>2, <2>1, <2>4, Grown
    <3>2. More(L, N, f, c) \in Lists /\ OneMore(N, f) \in Lengths
      BY <2>2, MoreIs
    <3>3. w \in Good
      BY <3>1, <3>2, WithinGood
    <3> QED  BY <2>4, <3>1, <3>3
  <2>7. ASSUME NEW s, s \in Seq(Good), s # <<>>, NEW b \in BOOLEAN, Ends(Last(s), b) PROVE Outcome(s)
    BY <2>1, <2>7
  <2>5. CASE o.cur = 0 \/ (o.contig /\ c = o.cur + 1)
    <3> DEFINE p == [o EXCEPT !.cur = c, !.contig = TRUE]
               w == Set(taken, f, p)
    <3>1. AddCluster(v, f) = <<taken, w>>
      <4>1. [o EXCEPT !.contig = TRUE, !.cur = c] = p /\ (o.contig => [o EXCEPT !.cur = c] = p)
        BY <1>2, <2>2, CursorIs, ZenonT(30)
      <4> HIDE DEF p
      <4>2. AddCluster(v, f) = <<taken, Set(taken, f, p)>>
        BY <1>1, <1>8, <2>5, <4>1, ZenonT(30)
      <4> QED  BY <4>2
    <3>2. p \in Objects /\ p.open
      BY <1>2, <2>2, CursorIs, ZenonT(30)
    <3>3. /\ w \in Volumes /\ w.used = taken.used /\ w.fat = taken.fat /\ w.data = taken.data
          /\ w.entry = taken.entry /\ w.result = taken.result
          /\ w.obj[f] = p /\ \A g \in Files \ {f} : w.obj[g] = taken.obj[g]
      BY <2>1, <3>2, SetIs
    <3> HIDE DEF w, p
    <3>4. n = 0 \/ (o.contig /\ c = l[n - 1] + 1)
      BY <1>2, <1>3, <1>5, <2>5
    <3>5. Ends(w, TRUE) /\ w \in Good
      <4>1. w.obj[f] = [o EXCEPT !.cur = c, !.contig = TRUE]
        BY <3>3 DEF p
      <4>2. /\ w.used = v.used \cup {c} /\ w.data = v.data /\ w.entry = v.entry
            /\ w.result = "ok" /\ w.obj[f].open
            /\ \A g \in Files \ {f} : w.obj[g] = v.obj[g] /\ \A i \in 0 .. N[g] - 1 : w.fat[L[g][i]] = v.fat[L[g][i]]
        BY <2>1, <3>2, <3>3
      <4> HIDE DEF Ends
      <4> QED  BY <3>3, <3>4, <4>1, <4>2, <2>4, Zenon
    <3>6. <<taken, w>> \in Seq(Good) /\ <<taken, w>> # <<>> /\ Last(<<taken, w>>) = w
      BY <2>3, <3>5 DEF Last
    <3> HIDE DEF Outcome, Ends
    <3> QED  BY <3>1, <3>5, <3>6, <2>7
  <2>6. CASE o.cur # 0 /\ ~ (o.contig /\ c = o.cur + 1)
    <3> DEFINE x == Last(links)
               d == [o EXCEPT !.contig = FALSE]
    <3>1. n > 0 /\ o.cur = l[n - 1] /\ o.cur \in Clusters /\ n - 1 \in 0 .. n - 1 /\ o.cur # c
      <4>1. n > 0 /\ o.cur = l[n - 1] /\ n - 1 \in 0 .. n - 1
        BY <1>2, <1>3, <1>5, <2>6
      <4> QED  BY <4>1, <1>4, <2>1
    <3>2. d \in Objects /\ d.open
      BY <1>2, <2>2, CursorIs, ZenonT(30)
    <3>3. /\ links \in Seq(Good) /\ links # <<>> /\ x \in Volumes
          /\ x.used = taken.used /\ x.data = v.data /\ x.entry = v.entry /\ x.result = "ok"
          /\ x.obj[f] = d /\ \A g \in Files \ {f} : x.obj[g] = v.obj[g]
          /\ \A i \in 0 .. n - 2 : x.fat[l[i]] = l[i + 1]
          /\ \A y \in Clusters : (o.contig /\ \E i \in 0 .. n - 1 : l[i] = y) \/ x.fat[y] = v.fat[y]
      <4>1. CASE o.contig
        <5>1. chained = Set(taken, f, d)
          <6>1. chained = Set(taken, f, [taken.obj[f] EXCEPT !.contig = FALSE])
            BY DEF Set
          <6> QED  BY <2>1, <6>1
        <5>2. /\ chained \in Volumes /\ chained.used = taken.used /\ chained.fat = v.fat
              /\ chained.data = v.data /\ chained.entry = v.entry /\ chained.result = "ok"
              /\ chained.obj[f] = d /\ \A g \in Files \ {f} : chained.obj[g] = v.obj[g]
          <6> HIDE DEF chained, d
          <6>1. /\ Set(taken, f, d) \in Volumes /\ Set(taken, f, d).used = taken.used
                /\ Set(taken, f, d).fat = taken.fat /\ Set(taken, f, d).data = taken.data
                /\ Set(taken, f, d).entry = taken.entry /\ Set(taken, f, d).result = taken.result
                /\ Set(taken, f, d).obj[f] = d
                /\ \A g \in Files \ {f} : Set(taken, f, d).obj[g] = taken.obj[g]
            BY <2>1, <3>2, SetIs
          <6> QED  BY <2>1, <5>1, <6>1
        <5> HIDE DEF chained, d
        <5>3. \A i \in 0 .. n - 1 : l[i] = o.first + i
          <6> DEFINE q == Lengthened(o)
          <6>1. q.first = o.first /\ q.contig = o.contig
            BY <1>2 DEF Lengthened, Objects
          <6> HIDE DEF q
          <6>2. Follows(v, q, l, n)
            BY <1>2 DEF OpenOk, q
          <6> QED  BY <4>1, <6>1, <6>2 DEF Follows
        <5>4. o.cur = o.first + n - 1
          BY <1>2, <3>1, <5>3
        <5>5. o.cur = o.first + N[f] - 1
          BY <5>4
        <5>6. Within(v, f, Lengthened(o), L, N) /\ Lengthened(o).contig
          BY <1>2, <4>1 DEF Lengthened, Objects
        <5> DEFINE s == <<chained>> \o Links(chained, o.first, o.cur)
        <5>7. /\ s \in Seq(Good) /\ s # <<>> /\ Last(s) \in Volumes
              /\ Last(s).used = chained.used /\ Last(s).data = chained.data /\ Last(s).entry = chained.entry
              /\ Last(s).obj = chained.obj /\ Last(s).result = chained.result
              /\ \A i \in 0 .. N[f] - 2 : Last(s).fat[L[f][i]] = L[f][i + 1]
              /\ \A y \in Clusters : (\A i \in 0 .. N[f] - 1 : L[f][i] # y) => Last(s).fat[y] = v.fat[y]
          <6>1. v.used \subseteq chained.used
            BY <2>1, <5>2
          <6>2. /\ chained \in Volumes /\ chained.fat = v.fat /\ chained.data = v.data
                /\ chained.entry = v.entry /\ N[f] > 0 /\ o.first \in Int
                /\ \A i \in 0 .. N[f] - 1 : L[f][i] = o.first + i
            BY <1>2, <3>1, <5>2, <5>3
          <6> DEFINE q == Lengthened(o)
          <6>3. Within(v, f, q, L, N) /\ q.contig
            BY <5>6
          <6> DEFINE e == o.first
                     k == o.cur
          <6>4. /\ e \in Int /\ k = e + N[f] - 1 /\ \A i \in 0 .. N[f] - 1 : L[f][i] = e + i
                /\ s = <<chained>> \o Links(chained, e, k)
            BY <5>5, <6>2
          <6> HIDE DEF q, e, k, s
          <6>5. LinksUp(<<chained>> \o Links(chained, e, k), v, chained, L[f], N[f])
            BY <6>1, <6>2, <6>3, <6>4, LinksAre
          <6> QED  BY <6>4, <6>5 DEF LinksUp
        <5> HIDE DEF s
        <5>8. links = s
          BY <4>1 DEF s
        <5> HIDE DEF links
        <5> QED  BY <4>1, <5>2, <5>7, <5>8
      <4>2. CASE ~o.contig
        <5>1. links = <<taken>> /\ x = taken
          BY <4>2, SMTT(30) DEF Last
        <5>2. d = o
          BY <1>2, <4>2, CursorIs
        <5>3. <<taken>> \in Seq(Good) /\ <<taken>> # <<>>
          BY <2>3
        <5>4. \A i \in 0 .. n - 2 : v.fat[l[i]] = l[i + 1]
          <6> DEFINE q == Lengthened(o)
          <6>1. q.contig = o.contig
            BY <1>2 DEF Lengthened, Objects
          <6> HIDE DEF q
          <6>2. Follows(v, q, l, n)
            BY <1>2 DEF OpenOk, q
          <6> QED  BY <4>2, <3>1, <6>1, <6>2 DEF Follows
        <5> HIDE DEF links, d
        <5> QED  BY <2>1, <5>1, <5>2, <5>3, <5>4
      <4> QED  BY <4>1, <4>2, <1>2, Zenon
    <3> HIDE DEF links, x
    <3>4. /\ ended \in Volumes /\ ended.used = x.used /\ ended.data = x.data /\ ended.entry = x.entry
          /\ ended.obj = x.obj /\ ended.result = x.result
          /\ ended.fat[c] = EOC /\ \A y \in Clusters : y # c => ended.fat[y] = x.fat[y]
      <4>1. EOC \in Int
        BY DEF EOC
      <4> QED  BY <2>2, <3>3, <4>1, FatPutIs DEF x
    <3> HIDE DEF ended
    <3>5. /\ linked \in Volumes /\ linked.used = x.used /\ linked.data = x.data /\ linked.entry = x.entry
          /\ linked.obj = x.obj /\ linked.result = x.result
          /\ linked.fat[o.cur] = c /\ \A y \in Clusters : y # o.cur => linked.fat[y] = ended.fat[y]
      <4> DEFINE b == o.cur
      <4>1. ended \in Volumes /\ b \in Clusters /\ c \in Int
        BY <2>2, <3>1, <3>4
      <4>2. linked = FatPut(ended, b, c)
        OBVIOUS
      <4> HIDE DEF linked, b
      <4>3. /\ linked \in Volumes /\ linked.used = ended.used /\ linked.data = ended.data
            /\ linked.entry = ended.entry /\ linked.obj = ended.obj /\ linked.result = ended.result
            /\ linked.fat[b] = c /\ \A y \in Clusters : y # b => linked.fat[y] = ended.fat[y]
        BY ONLY <4>1, <4>2, FatPutIs
      <4> QED  BY <3>4, <4>3 DEF b
    <3> DEFINE last == [linked EXCEPT !.obj[f].cur = c]
    <3> HIDE DEF linked, d
    <3>6. /\ last \in Volumes /\ last.used = x.used /\ last.data = x.data /\ last.entry = x.entry
          /\ last.result = x.result /\ last.fat = linked.fat
          /\ last.obj[f] = [o EXCEPT !.cur = c, !.contig = FALSE] /\ last.obj[f].open
          /\ \A g \in Files \ {f} : last.obj[g] = x.obj[g]
      <4>1. last = Set(linked, f, [linked.obj[f] EXCEPT !.cur = c])
        BY DEF Set
      <4>2. linked.obj[f] = d
        BY <3>3, <3>5, SMTT(30)
      <4> DEFINE p == [o EXCEPT !.cur = c, !.contig = FALSE]
      <4>3. [d EXCEPT !.cur = c] = p /\ p \in Objects /\ p.open
        BY <1>2, <2>2, CursorIs, ZenonT(30) DEF d
      <4> HIDE DEF p, last
      <4>4. last = Set(linked, f, p)
        BY <4>1, <4>2, <4>3
      <4>5. LET w == Set(linked, f, p) IN
            /\ w \in Volumes /\ w.used = linked.used /\ w.fat = linked.fat /\ w.data = linked.data
            /\ w.entry = linked.entry /\ w.result = linked.result
            /\ w.obj[f] = p /\ \A g \in Files \ {f} : w.obj[g] = linked.obj[g]
        BY <3>5, <4>3, SetIs
      <4>6. /\ last \in Volumes /\ last.used = linked.used /\ last.fat = linked.fat /\ last.data = linked.data
            /\ last.entry = linked.entry /\ last.result = linked.result
            /\ last.obj[f] = p /\ \A g \in Files \ {f} : last.obj[g] = linked.obj[g]
        BY <4>4, <4>5
      <4>7. last.obj[f] = [o EXCEPT !.cur = c, !.contig = FALSE]
        BY <4>6 DEF p
      <4> QED  BY <3>5, <4>3, <4>6, <4>7
    <3> HIDE DEF last
    <3>7. /\ linked.fat[c] = EOC /\ linked.fat[l[n - 1]] = c
          /\ \A i \in 0 .. n - 2 : linked.fat[l[i]] = l[i + 1]
          /\ \A g \in Files \ {f} : \A i \in 0 .. N[g] - 1 :
               linked.fat[L[g][i]] = v.fat[L[g][i]] /\ ended.fat[L[g][i]] = v.fat[L[g][i]]
          /\ \A i \in 0 .. N[f] - 1 : ended.fat[L[f][i]] = v.fat[L[f][i]] \/ o.contig
      <4>1. linked.fat[c] = EOC /\ linked.fat[l[n - 1]] = c
        BY <2>2, <3>1, <3>4, <3>5
      <4>2. ASSUME NEW i \in 0 .. n - 2 PROVE linked.fat[l[i]] = l[i + 1]
        <5>1. i \in 0 .. n - 1 /\ i # n - 1
          BY <1>2
        <5>2. l[i] # l[n - 1]
          BY <1>2, <3>1, <5>1 DEF Apart
        <5>3. l[i] \in Clusters /\ l[i] # c
          BY <1>4, <2>1, <5>1
        <5> QED  BY <3>1, <3>3, <3>4, <3>5, <5>2, <5>3
      <4>3. ASSUME NEW g \in Files \ {f}, NEW i \in 0 .. N[g] - 1
            PROVE  linked.fat[L[g][i]] = v.fat[L[g][i]] /\ ended.fat[L[g][i]] = v.fat[L[g][i]]
        <5>1. L[g][i] \in Clusters /\ L[g][i] # c
          BY <1>4, <2>1
        <5>2. \A j \in 0 .. n - 1 : l[j] # L[g][i]
          BY <1>2 DEF Apart
        <5> QED  BY <3>1, <3>3, <3>4, <3>5, <5>1, <5>2
      <4>4. ASSUME NEW i \in 0 .. N[f] - 1 PROVE ended.fat[L[f][i]] = v.fat[L[f][i]] \/ o.contig
        <5>1. L[f][i] \in Clusters /\ L[f][i] # c
          BY <1>4, <2>1
        <5> QED  BY <3>3, <3>4, <5>1
      <4> QED  BY <4>1, <4>2, <4>3, <4>4
    <3>8. ended \in Good
      <4>1. ended.used = taken.used /\ ended.data = v.data /\ ended.entry = v.entry /\ v.used \subseteq ended.used
        BY <2>1, <3>3, <3>4
      <4>2. \A g \in Files : \A i \in 0 .. N[g] - 1 :
              ended.fat[L[g][i]] = v.fat[L[g][i]] \/ (g = f /\ Lengthened(o).contig)
        <5>1. Lengthened(o).contig = o.contig
          BY <1>2 DEF Lengthened, Objects
        <5> QED  BY <3>7, <5>1
      <4> DEFINE q == Lengthened(o)
      <4>3. Within(v, f, q, L, N)
        OBVIOUS
      <4> HIDE DEF q
      <4>4. \A g \in Files : \A i \in 0 .. N[g] - 1 :
              ended.fat[L[g][i]] = v.fat[L[g][i]] \/ (g = f /\ q.contig)
        BY <4>2 DEF q
      <4>5. Elsewhere(v, ended, L, N, f, q)
        BY <4>4, SMTT(30) DEF Elsewhere
      <4> QED  BY <3>4, <4>1, <4>3, <4>5, StillGood
    <3>9. linked \in Good
      <4>1. /\ linked.used = v.used \cup {c} /\ linked.data = v.data /\ linked.entry = v.entry
            /\ linked.result = "ok" /\ linked.obj[f].open
            /\ \A g \in Files \ {f} : linked.obj[g] = v.obj[g]
        BY <2>1, <3>2, <3>3, <3>5
      <4>2. \A g \in Files \ {f} : linked.obj[g] = v.obj[g] /\ \A i \in 0 .. N[g] - 1 : linked.fat[L[g][i]] = v.fat[L[g][i]]
        BY <4>1, <3>7
      <4>3. n > 0 /\ linked.fat[c] = EOC /\ linked.fat[l[n - 1]] = c /\ \A i \in 0 .. n - 2 : linked.fat[l[i]] = l[i + 1]
        BY <3>1, <3>7, SMTT(30)
      <4> HIDE DEF Ends
      <4> QED  BY <2>4, <3>5, <4>1, <4>2, <4>3, Zenon
    <3>10. Ends(last, FALSE) /\ last \in Good
      <4>1. /\ last.used = v.used \cup {c} /\ last.data = v.data /\ last.entry = v.entry
            /\ last.result = "ok" /\ last.obj[f].open
            /\ \A g \in Files \ {f} : last.obj[g] = v.obj[g]
        BY <2>1, <3>3, <3>6
      <4>2. \A g \in Files \ {f} : last.obj[g] = v.obj[g] /\ \A i \in 0 .. N[g] - 1 : last.fat[L[g][i]] = v.fat[L[g][i]]
        BY <4>1, <3>6, <3>7
      <4>3. n > 0 /\ last.fat[c] = EOC /\ last.fat[l[n - 1]] = c /\ \A i \in 0 .. n - 2 : last.fat[l[i]] = l[i + 1]
        BY <3>1, <3>6, <3>7
      <4>4. last \in Volumes /\ last.obj[f] = [o EXCEPT !.cur = c, !.contig = FALSE]
        BY <3>6
      <4> HIDE DEF Ends
      <4> QED  BY <2>4, <4>1, <4>2, <4>3, <4>4, Zenon
    <3>11. AddCluster(v, f) = <<taken>> \o links \o <<ended, linked, last>>
      BY <1>1, <1>8, <2>6 DEF last
    <3>12. /\ AddCluster(v, f) \in Seq(Good) /\ AddCluster(v, f) # <<>> /\ Last(AddCluster(v, f)) = last
      <4> DEFINE t == <<ended, linked, last>>
      <4>1. t \in Seq(Good) /\ t # <<>> /\ Last(t) = last
        BY <3>8, <3>9, <3>10 DEF Last
      <4>2. <<taken>> \in Seq(Good)
        BY <2>3
      <4> HIDE DEF t
      <4>3. <<taken>> \o links \in Seq(Good)
        BY <3>3, <4>2
      <4> DEFINE q == <<taken>> \o links
      <4> HIDE DEF q
      <4>4. q \in Seq(Good)
        BY <4>3 DEF q
      <4>5. q \o t \in Seq(Good) /\ q \o t # <<>> /\ Last(q \o t) = Last(t)
        BY ONLY <4>1, <4>4, StepLists
      <4>6. AddCluster(v, f) = q \o t
        BY <3>11 DEF q, t
      <4> QED  BY <4>1, <4>5, <4>6
    <3> HIDE DEF Outcome, Ends
    <3> QED  BY <3>10, <3>12, <2>7
  <2> QED  BY <2>5, <2>6, <1>2
<1> QED  BY <1>7, <1>8, ZenonT(30)


-----------------------------------------------------------------------------
(* write: the next cluster, and the unit.                                  *)

\* The object at the end of a write.
LEMMA LengthenedIs ==
  ASSUME NEW o \in Objects
  PROVE  LET p == Lengthened(o) IN
         /\ p \in Objects /\ p.open = o.open /\ p.contig = o.contig /\ p.first = o.first /\ p.cur = o.cur
         /\ p.pos = o.pos /\ p.valid = o.valid /\ p.len = (IF o.pos > o.len THEN o.pos ELSE o.len)
         /\ (p.dirty <=> o.dirty \/ o.pos > o.len)
<1>0. o.pos \in Nat /\ o.len \in Nat
  BY DEF Objects
<1>1. CASE o.pos > o.len
  BY <1>0, <1>1 DEF Lengthened, Objects
<1>2. CASE ~ (o.pos > o.len)
  BY <1>0, <1>2 DEF Lengthened
<1> QED  BY <1>1, <1>2

\* An object at another cluster.
LEMMA MovedIs ==
  ASSUME NEW o \in Objects, NEW c \in Int
  PROVE  LET p == [o EXCEPT !.cur = c] IN
         /\ p \in Objects /\ p.open = o.open /\ p.dirty = o.dirty /\ p.contig = o.contig /\ p.first = o.first
         /\ p.cur = c /\ p.pos = o.pos /\ p.valid = o.valid /\ p.len = o.len
BY DEF Objects

\* The fields of an object.
LEMMA FieldsOf ==
  ASSUME NEW o \in Objects
  PROVE  /\ o.open \in BOOLEAN /\ o.dirty \in BOOLEAN /\ o.contig \in BOOLEAN /\ o.first \in Int
         /\ o.cur \in Int /\ o.pos \in Nat /\ o.valid \in Nat /\ o.len \in Nat
BY DEF Objects

\* The cluster of the unit before the position is one of the file.
LEMMA CurIs ==
  ASSUME NEW v \in Volumes, NEW f \in Files, NEW o \in Objects, NEW l, NEW n \in Nat, OpenOk(v, f, o, l, n),
         o.pos > 0
  PROVE  (o.pos - 1) \div Units \in 0 .. n - 1 /\ o.cur = l[(o.pos - 1) \div Units] /\ n > 0 /\ o.first # 0
<1>1. Follows(v, o, l, n) /\ Placed(o, l) /\ o.pos \in Nat /\ o.len \in Nat
  BY FieldsOf DEF OpenOk
<1>2. o.pos <= o.len /\ o.cur = l[(o.pos - 1) \div Units]
  BY <1>1 DEF Placed
<1>3. o.pos - 1 \in Nat /\ o.pos - 1 < o.len
  BY <1>1, <1>2
<1> QED  BY <1>1, <1>2, <1>3, UnitIn

\* The object as it will be after a write into a cluster the file has.
LEMMA AtUnit ==
  ASSUME NEW v \in Volumes, NEW f \in Files, NEW o \in Objects, NEW l, NEW n \in Nat,
         OpenOk(v, f, Lengthened(o), l, n), o.pos \div Units < n,
         NEW c \in Int, c = l[o.pos \div Units]
  PROVE  OpenOk(v, f, Further([o EXCEPT !.cur = c]), l, n)
<1> DEFINE q == Lengthened(o)
           p == [o EXCEPT !.cur = c]
           r == Further(p)
           k == o.pos \div Units
<1>1. /\ o.open \in BOOLEAN /\ o.dirty \in BOOLEAN /\ o.contig \in BOOLEAN /\ o.first \in Int
      /\ o.pos \in Nat /\ o.valid \in Nat /\ o.len \in Nat
  BY FieldsOf
<1>2. /\ q \in Objects /\ q.contig = o.contig /\ q.first = o.first /\ q.pos = o.pos /\ q.valid = o.valid
      /\ q.len = (IF o.pos > o.len THEN o.pos ELSE o.len) /\ (q.dirty <=> o.dirty \/ o.pos > o.len)
  BY LengthenedIs
<1>3. /\ p \in Objects /\ p.dirty = o.dirty /\ p.contig = o.contig /\ p.first = o.first
      /\ p.cur = c /\ p.pos = o.pos /\ p.valid = o.valid /\ p.len = o.len
  BY MovedIs
<1> HIDE DEF p
<1>4. /\ r \in Objects /\ r.pos = p.pos + 1 /\ r.valid = p.valid /\ r.cur = p.cur
      /\ r.contig = p.contig /\ r.first = p.first
      /\ r.len = (IF p.len < p.pos + 1 THEN p.pos + 1 ELSE p.len)
      /\ (r.dirty <=> p.dirty \/ p.pos + 1 > p.valid)
  BY <1>3, FurtherIs
<1>5. /\ r.pos = o.pos + 1 /\ r.valid = o.valid /\ r.cur = c
      /\ r.contig = o.contig /\ r.first = o.first
      /\ r.len = (IF o.len < o.pos + 1 THEN o.pos + 1 ELSE o.len)
      /\ (r.dirty <=> o.dirty \/ o.pos + 1 > o.valid)
  BY <1>3, <1>4
<1>6. Follows(v, q, l, n) /\ Right(v, f, q, l) /\ Behind(v.entry[f], q, l)
  BY DEF OpenOk
<1> HIDE DEF q, r
<1>7. k \in Nat /\ k < n /\ n > 0
  BY <1>1, UnitAt
<1>8. o.first # 0 /\ l[0] = o.first /\ q.len # 0
  BY <1>2, <1>6, <1>7 DEF Follows
<1>9. r.len # 0 /\ r.len \in Nat /\ q.len \in Nat /\ q.len <= r.len
  BY <1>1, <1>2, <1>5
<1>10. Count(o.pos + 1) = k + 1
  <2> DEFINE m == o.pos + 1
  <2>1. m \in Nat /\ m > 0 /\ m - 1 = o.pos
    BY <1>1
  <2> HIDE DEF m
  <2>2. Count(m) = (m - 1) \div Units + 1
    BY <2>1, CountIs
  <2> QED  BY <2>1, <2>2 DEF m
<1> HIDE DEF k
<1>11. Count(r.len) \in Nat /\ Count(r.len) <= n /\ (o.contig => Count(r.len) = n)
  <2>1. Count(r.len) \in Nat /\ Count(q.len) \in Nat
    BY <1>9, CountIs
  <2>2. Count(q.len) <= n /\ (o.contig => Count(q.len) = n)
    <3>1. o.contig => Count(q.len) = n
      BY <1>2, <1>6 DEF Follows
    <3>2. ~o.contig => Count(q.len) <= n
      BY <1>2, <1>6, <1>7 DEF Follows
    <3> QED  BY <3>1, <3>2, <2>1
  <2>3. CASE o.len < o.pos + 1
    <3>1. r.len = o.pos + 1
      BY <2>3, <1>5
    <3>2. Count(q.len) <= Count(r.len)
      BY <1>9, CountGrows
    <3> QED  BY <3>1, <3>2, <2>1, <2>2, <1>7, <1>10
  <2>4. CASE ~ (o.len < o.pos + 1)
    <3>1. r.len = q.len
      BY <2>4, <1>1, <1>2, <1>5
    <3> QED  BY <3>1, <2>1, <2>2
  <2> QED  BY <2>3, <2>4
<1>12. Follows(v, r, l, n)
  <2>1. CASE o.contig
    <3>1. \A i \in 0 .. n - 1 : l[i] = r.first + i
      BY <2>1, <1>2, <1>5, <1>6 DEF Follows
    <3> QED  BY <2>1, <3>1, <1>5, <1>7, <1>8, <1>9, <1>11 DEF Follows
  <2>2. CASE ~o.contig
    <3>1. v.fat[l[n - 1]] = EOC /\ \A i \in 0 .. n - 2 : v.fat[l[i]] = l[i + 1]
      BY <2>2, <1>2, <1>6, <1>7 DEF Follows
    <3> QED  BY <2>2, <3>1, <1>5, <1>7, <1>8, <1>9, <1>11 DEF Follows
  <2> QED  BY <2>1, <2>2
<1>13. Right(v, f, r, l)
  BY <1>1, <1>2, <1>5, <1>6, <1>9 DEF Right
<1>14. Placed(r, l)
  <2>1. r.pos # 0 /\ r.pos - 1 = o.pos /\ r.pos <= r.len
    BY <1>1, <1>5
  <2> QED  BY <2>1, <1>5 DEF Placed
<1>15. Behind(v.entry[f], r, l)
  <2> DEFINE e == v.entry[f]
  <2>1. e.len \in Nat /\ e.valid \in Nat
    BY VolumeIs DEF Entries
  <2> HIDE DEF e
  <2>2. Behind(e, q, l)
    BY <1>6 DEF e
  <2>3. /\ e.first \in {0, r.first} /\ (e.first = 0 <=> e.len = 0) /\ (~e.exists => e.first = 0)
        /\ e.valid <= e.len /\ e.valid <= r.valid
    BY <2>2, <1>2, <1>5 DEF Behind
  <2>4. e.len <= r.len
    BY <2>1, <2>2, <1>9 DEF Behind
  <2>5. e.first # 0 => IF e.contig THEN \A i \in 0 .. Count(e.len) - 1 : l[i] = e.first + i ELSE ~r.contig
    BY <2>2, <1>2, <1>5 DEF Behind
  <2>6. ~r.dirty => /\ e.first = r.first /\ e.len = r.len /\ e.valid = r.valid
                    /\ e.first # 0 => e.contig = r.contig
    <3> SUFFICES ASSUME ~r.dirty
                 PROVE  /\ e.first = r.first /\ e.len = r.len /\ e.valid = r.valid
                        /\ e.first # 0 => e.contig = r.contig
      OBVIOUS
    <3>1. ~o.dirty /\ o.pos + 1 <= o.valid
      BY <1>1, <1>5
    <3>2. o.valid <= q.len
      BY <1>2, <1>6 DEF Right
    <3>3. o.pos < o.len /\ q.len = o.len /\ r.len = o.len /\ ~q.dirty
      BY <3>1, <3>2, <1>1, <1>2, <1>5
    <3> QED  BY <3>3, <2>2, <1>2, <1>5 DEF Behind
  <2> QED  BY <2>3, <2>4, <2>5, <2>6 DEF Behind, e
<1> QED  BY <1>12, <1>13, <1>14, <1>15 DEF OpenOk, r, p

\* In a call for f only the object of f changed.
LEMMA Again ==
  ASSUME NEW v, NEW L \in Lists, NEW N \in Lengths, NEW f \in Files, NEW o, Within(v, f, o, L, N),
         NEW w \in Volumes, w.used = v.used, w.fat = v.fat, w.data = v.data, w.entry = v.entry,
         w.obj[f].open, \A g \in Files \ {f} : w.obj[g] = v.obj[g],
         NEW p \in Objects, OpenOk(v, f, p, L[f], N[f])
  PROVE  Within(w, f, p, L, N)
<1>1. v \in Volumes /\ System \subseteq w.used /\ Apart(w, L, N)
  BY DEF Within, Apart
<1>2. OpenOk(w, f, p, L[f], N[f])
  BY DEF OpenOk, Follows, Right
<1>3. \A g \in Files \ {f} : FileOk(w, g, L[g], N[g])
  <2> TAKE g \in Files \ {f}
  <2>1. FileOk(v, g, L[g], N[g])
    BY DEF Within
  <2>2. N[g] \in Nat /\ \A i \in 0 .. N[g] - 1 : L[g][i] \in Clusters
    BY <1>1, ItemsIn DEF Within, Lengths
  <2>3. /\ w.entry[g] = v.entry[g] /\ w.obj[g] = v.obj[g]
        /\ \A i \in 0 .. N[g] - 1 : w.data[L[g][i]] = v.data[L[g][i]] /\ w.fat[L[g][i]] = v.fat[L[g][i]]
    OBVIOUS
  <2> QED  BY <1>1, <2>1, <2>2, <2>3, FileKept
<1> QED  BY <1>1, <1>2, <1>3 DEF Within

\* Volumes in a write to f: before a unit, and where its cluster is the current one;
\* x says that the bitmap marks nothing else.
Ready(f, x) ==
  {w \in Volumes : /\ w.result = "ok" /\ w.obj[f].pos <= w.obj[f].valid
                   /\ \E L \in Lists : \E N \in Lengths :
                        Within(w, f, Lengthened(w.obj[f]), L, N) /\ (x => Owned(w, L, N))}
Aimed(f, x) ==
  {w \in Volumes : /\ w.result = "ok" /\ w.obj[f].pos <= w.obj[f].valid
                   /\ \E L \in Lists : \E N \in Lengths :
                        Within(w, f, Further(w.obj[f]), L, N) /\ (x => Owned(w, L, N))}
\* Volumes after a call.
Done(x) ==
  {w \in Volumes : /\ w.result = "ok"
                   /\ \E L \in Lists : \E N \in Lengths : Sound(w, L, N) /\ (x => Owned(w, L, N))}
\* Steps that fail or lead to a volume of S, and after each of which the entries are readable.
Brings(s, S) == s \in Seq(Good) /\ s # <<>> /\ (Last(s).result # "ok" \/ Last(s) \in S)

\* In all of them the entries are readable.
LEMMA AllGood ==
  ASSUME NEW f \in Files, NEW x
  PROVE  Ready(f, x) \subseteq Good /\ Aimed(f, x) \subseteq Good /\ Done(x) \subseteq Good
<1>1. ASSUME NEW w \in Ready(f, x) PROVE w \in Good
  <2>1. PICK L \in Lists, N \in Lengths : Within(w, f, Lengthened(w.obj[f]), L, N)
    BY DEF Ready
  <2> QED  BY <2>1, WithinGood
<1>2. ASSUME NEW w \in Aimed(f, x) PROVE w \in Good
  <2>1. PICK L \in Lists, N \in Lengths : Within(w, f, Further(w.obj[f]), L, N)
    BY DEF Aimed
  <2> QED  BY <2>1, WithinGood
<1>3. ASSUME NEW w \in Done(x) PROVE w \in Good
  <2>1. PICK L \in Lists, N \in Lengths : Sound(w, L, N)
    BY DEF Done
  <2> QED  BY <2>1, SoundGood
<1> QED  BY <1>1, <1>2, <1>3

\* What there is to show of such a volume.
LEMMA IsAimed ==
  ASSUME NEW f \in Files, NEW x, NEW w \in Volumes, w.result = "ok", w.obj[f].pos <= w.obj[f].valid,
         NEW L \in Lists, NEW N \in Lengths, Within(w, f, Further(w.obj[f]), L, N), x => Owned(w, L, N)
  PROVE  w \in Aimed(f, x)
BY Zenon DEF Aimed

\* The lists that show that a volume is one in which the unit can be written.
LEMMA IsReady ==
  ASSUME NEW f \in Files, NEW x, NEW w \in Volumes, w.result = "ok", w.obj[f].pos <= w.obj[f].valid,
         NEW L \in Lists, NEW N \in Lengths, Within(w, f, Lengthened(w.obj[f]), L, N), x => Owned(w, L, N)
  PROVE  w \in Ready(f, x)
BY Zenon DEF Ready

\* The lists that show that a volume is one after a call.
LEMMA IsDone ==
  ASSUME NEW x, NEW w \in Volumes, w.result = "ok",
         NEW L \in Lists, NEW N \in Lengths, Sound(w, L, N), x => Owned(w, L, N)
  PROVE  w \in Done(x)
BY Zenon DEF Done

\* One step, one step more, and steps after others.
LEMMA BringsMore ==
  ASSUME NEW S, S \subseteq Good
  PROVE  /\ \A w \in S : Brings(<<w>>, S)
         /\ \A w \in Good : w.result # "ok" => Brings(<<w>>, S)
         /\ \A s \in Seq(Good) : \A w \in S : Brings(Append(s, w), S)
         /\ \A s \in Seq(Good) : \A t : Brings(t, S) => Brings(s \o t, S)
<1>1. \A w \in Good : <<w>> \in Seq(Good) /\ <<w>> # <<>> /\ Last(<<w>>) = w
  BY StepLists
<1>2. \A s \in Seq(Good) : \A w \in Good :
        Append(s, w) \in Seq(Good) /\ Append(s, w) # <<>> /\ Last(Append(s, w)) = w
  BY StepLists
<1>3. \A s, t \in Seq(Good) : t # <<>> => s \o t \in Seq(Good) /\ s \o t # <<>> /\ Last(s \o t) = Last(t)
  BY StepLists
<1> QED  BY <1>1, <1>2, <1>3 DEF Brings

\* A cluster that was taken has an owner.
LEMMA MoreOwned ==
  ASSUME NEW v, NEW w, NEW L \in Lists, NEW N \in Lengths, NEW f \in Files, NEW c \in Int,
         Owned(v, L, N), w.used = v.used \cup {c}
  PROVE  Owned(w, More(L, N, f, c), OneMore(N, f))
<1> DEFINE L2 == More(L, N, f, c)
           N2 == OneMore(N, f)
<1>1. /\ \A g \in Files \ {f} : L2[g] = L[g] /\ N2[g] = N[g]
      /\ N2[f] = N[f] + 1 /\ L2[f][N[f]] = c /\ \A i \in 0 .. N[f] - 1 : L2[f][i] = L[f][i]
  BY MoreIs
<1>2. N[f] \in Nat
  BY DEF Lengths
<1> HIDE DEF L2, N2
<1>3. ASSUME NEW d \in w.used PROVE d \in System \/ \E g \in Files : \E i \in 0 .. N2[g] - 1 : L2[g][i] = d
  <2>1. CASE d = c
    <3>1. N[f] \in 0 .. N2[f] - 1
      BY <1>1, <1>2
    <3> QED  BY <3>1, <1>1, <2>1
  <2>2. CASE d \in v.used
    <3>1. d \in System \/ \E g \in Files : \E i \in 0 .. N[g] - 1 : L[g][i] = d
      BY <2>2 DEF Owned
    <3>2. \A g \in Files : \A i \in 0 .. N[g] - 1 : i \in 0 .. N2[g] - 1 /\ L2[g][i] = L[g][i]
      BY <1>1, <1>2
    <3> QED  BY <3>1, <3>2
  <2> QED  BY <2>1, <2>2
<1> QED  BY <1>3 DEF Owned, L2, N2

\* The current cluster becomes that of the position.
LEMMA AimedBy ==
  ASSUME NEW f \in Files, NEW x, NEW v \in Volumes, v.result = "ok", v.obj[f].pos <= v.obj[f].valid,
         NEW L \in Lists, NEW N \in Lengths, Within(v, f, Lengthened(v.obj[f]), L, N), x => Owned(v, L, N),
         v.obj[f].pos \div Units < N[f],
         NEW c, c = L[f][v.obj[f].pos \div Units]
  PROVE  Set(v, f, [v.obj[f] EXCEPT !.cur = c]) \in Aimed(f, x) /\ c \in Clusters
<1> DEFINE o == v.obj[f]
           p == [o EXCEPT !.cur = c]
           r == Further(p)
           w == Set(v, f, p)
<1>1. o \in Objects /\ o.pos \in Nat /\ o.valid \in Nat /\ N[f] \in Nat /\ Apart(v, L, N) /\ o.open
  BY VolumeIs, FieldsOf DEF Lengths, Within
<1>2. o.pos \div Units \in 0 .. N[f] - 1
  BY <1>1, UnitAt
<1>3. c \in Clusters /\ c \in Int
  BY <1>1, <1>2, ItemsIn, NoCluster
<1>4. OpenOk(v, f, Lengthened(o), L[f], N[f])
  BY DEF Within
<1>5. OpenOk(v, f, r, L[f], N[f])
  BY <1>1, <1>3, <1>4, AtUnit
<1>6. p \in Objects /\ p.open /\ p.pos = o.pos /\ p.valid = o.valid
  BY <1>1, <1>3, MovedIs
<1>7. r \in Objects
  <2> HIDE DEF p
  <2> QED  BY <1>6, FurtherIs
<1>8. /\ w \in Volumes /\ w.used = v.used /\ w.fat = v.fat /\ w.data = v.data
      /\ w.entry = v.entry /\ w.result = v.result
      /\ w.obj[f] = p /\ \A g \in Files \ {f} : w.obj[g] = v.obj[g]
  <2> HIDE DEF p
  <2> QED  BY <1>6, SetIs
<1> HIDE DEF r, w
<1>9. Within(w, f, r, L, N)
  <2>1. w.obj[f].open
    BY <1>6, <1>8
  <2> HIDE DEF p, o
  <2>2. Within(v, f, Lengthened(o), L, N)
    BY DEF o
  <2> QED  BY <1>5, <1>7, <1>8, <2>1, <2>2, Again
<1>10. r = Further(w.obj[f])
  BY <1>8 DEF r
<1>11. x => Owned(w, L, N)
  BY <1>8 DEF Owned
<1>12. w.result = "ok" /\ w.obj[f].pos <= w.obj[f].valid /\ w \in Volumes
  BY <1>6, <1>8
<1>13. w \in Aimed(f, x)
  BY <1>9, <1>10, <1>11, <1>12 DEF Aimed
<1> QED  BY <1>3, <1>13 DEF w

\* An object at a cluster that was added, and one that it is the first of.
AtNew(o, c, b) == [o EXCEPT !.cur = c, !.contig = b]
FirstAt(o, c) == [o EXCEPT !.first = c]

\* The object of a file that grew, with its first cluster set when it had none.
LEMMA GrewIs ==
  ASSUME NEW o \in Objects, NEW n, NEW c \in Int, NEW b \in BOOLEAN
  PROVE  LET p == AtNew(o, c, b)
             q == FirstAt(p, c) IN
         /\ p \in Objects /\ p.open = o.open /\ p.pos = o.pos /\ p.valid = o.valid /\ p.cur = c
         /\ q \in Objects /\ q.open = o.open /\ q.pos = o.pos /\ q.valid = o.valid
         /\ n # 0 => Grew(o, n, c, b) = Further(p)
         /\ n = 0 => Grew(o, n, c, b) = Further(q)
<1> DEFINE p == AtNew(o, c, b)
           q == FirstAt(p, c)
           r == [o EXCEPT !.cur = c, !.contig = b, !.first = IF n = 0 THEN c ELSE @]
<1>1. /\ p \in Objects /\ p.open = o.open /\ p.dirty = o.dirty /\ p.contig = b /\ p.first = o.first
      /\ p.cur = c /\ p.pos = o.pos /\ p.valid = o.valid /\ p.len = o.len
  BY DEF Objects, AtNew
<1>2. /\ r \in Objects /\ r.open = o.open /\ r.dirty = o.dirty /\ r.contig = b
      /\ r.first = (IF n = 0 THEN c ELSE o.first)
      /\ r.cur = c /\ r.pos = o.pos /\ r.valid = o.valid /\ r.len = o.len
  BY DEF Objects
<1>3. Grew(o, n, c, b) = Further(r)
  BY DEF Grew
<1> HIDE DEF p, r
<1>4. /\ q \in Objects /\ q.open = p.open /\ q.dirty = p.dirty /\ q.contig = p.contig /\ q.first = c
      /\ q.cur = p.cur /\ q.pos = p.pos /\ q.valid = p.valid /\ q.len = p.len
  BY <1>1 DEF Objects, FirstAt
<1> HIDE DEF q
<1>5. n # 0 => r = p
  BY ONLY <1>1, <1>2, SameObject
<1>6. n = 0 => r = q
  BY ONLY <1>1, <1>2, <1>4, SameObject
<1> QED  BY <1>1, <1>3, <1>4, <1>5, <1>6 DEF p, q

\* A write that needs a cluster more.
LEMMA AddedIs ==
  ASSUME NEW f \in Files, NEW x, NEW v \in Volumes, v.result = "ok", v.obj[f].pos <= v.obj[f].valid,
         NEW L \in Lists, NEW N \in Lengths, Within(v, f, Lengthened(v.obj[f]), L, N), x => Owned(v, L, N),
         v.obj[f].pos % Units = 0, v.obj[f].pos \div Units = N[f]
  PROVE  LET s == AddCluster(v, f)
             w == Last(s) IN
         /\ s \in Seq(Good) /\ s # <<>>
         /\ \/ w.result # "ok"
            \/ /\ w.result = "ok"
               /\ N[f] # 0 => w \in Aimed(f, x)
               /\ N[f] = 0 => [w EXCEPT !.obj[f].first = w.obj[f].cur] \in Aimed(f, x)
<1> DEFINE o == v.obj[f]
           s == AddCluster(v, f)
           w == Last(s)
           n == N[f]
<1>1. o \in Objects
  BY VolumeIs, SMTT(30)
<1>2. /\ s \in Seq(Good) /\ s # <<>>
      /\ w.result # "ok" \/
           \E c \in Clusters \ v.used : \E b \in BOOLEAN :
             /\ w \in Volumes /\ w.result = "ok" /\ w.used = v.used \cup {c}
             /\ w.obj[f] = [o EXCEPT !.cur = c, !.contig = b]
             /\ Within(w, f, Grew(o, N[f], c, b), More(L, N, f, c), OneMore(N, f))
  BY AddClusterIs
<1> HIDE DEF s, w
<1>3. CASE w.result = "ok"
  <2>1. PICK c \in Clusters \ v.used, b \in BOOLEAN :
             /\ w \in Volumes /\ w.result = "ok" /\ w.used = v.used \cup {c}
             /\ w.obj[f] = [o EXCEPT !.cur = c, !.contig = b]
             /\ Within(w, f, Grew(o, N[f], c, b), More(L, N, f, c), OneMore(N, f))
    BY <1>2, <1>3
  <2> DEFINE p == AtNew(o, c, b)
             g == Grew(o, n, c, b)
             L2 == More(L, N, f, c)
             N2 == OneMore(N, f)
             q == FirstAt(p, c)
  <2>2. c \in Int /\ L2 \in Lists /\ N2 \in Lengths
    BY NoCluster, MoreIs
  <2>3. /\ p \in Objects /\ p.pos = o.pos /\ p.valid = o.valid /\ p.cur = c /\ p.open = o.open
        /\ q \in Objects /\ q.pos = o.pos /\ q.valid = o.valid /\ q.open = o.open
        /\ (n # 0 => g = Further(p)) /\ (n = 0 => g = Further(q))
    BY <1>1, <2>2, GrewIs
  <2> HIDE DEF p, q, g, L2, N2
  <2>4. /\ w \in Volumes /\ w.obj[f] = p /\ Within(w, f, g, L2, N2) /\ w.used = v.used \cup {c}
    BY <2>1 DEF p, g, L2, N2, AtNew
  <2>5. x => Owned(w, L2, N2)
    BY <2>1, <2>2, MoreOwned DEF L2, N2
  <2>6. p.pos <= p.valid /\ q.pos <= q.valid
    BY <2>3
  <2>7. ASSUME n # 0 PROVE w \in Aimed(f, x)
    <3>1. Within(w, f, Further(w.obj[f]), L2, N2) /\ w.obj[f].pos <= w.obj[f].valid
      BY <2>3, <2>4, <2>6, <2>7
    <3> QED  BY <2>2, <2>4, <2>5, <3>1, <1>3, IsAimed
  <2>8. ASSUME n = 0 PROVE [w EXCEPT !.obj[f].first = w.obj[f].cur] \in Aimed(f, x)
    <3> DEFINE y == Set(w, f, q)
    <3>1. /\ y \in Volumes /\ y.used = w.used /\ y.fat = w.fat /\ y.data = w.data
          /\ y.entry = w.entry /\ y.result = w.result
          /\ y.obj[f] = q /\ \A h \in Files \ {f} : y.obj[h] = w.obj[h]
      BY <2>3, <2>4, SetIs
    <3>2. [w EXCEPT !.obj[f].first = w.obj[f].cur] = y
      <4>1. [w EXCEPT !.obj[f].first = w.obj[f].cur] = Set(w, f, [w.obj[f] EXCEPT !.first = w.obj[f].cur])
        BY DEF Set
      <4> QED  BY <2>3, <2>4, <4>1 DEF q, FirstAt
    <3> HIDE DEF y
    <3>3. Within(y, f, g, L2, N2)
      <4>1. g \in Objects /\ OpenOk(w, f, g, L2[f], N2[f]) /\ w.obj[f].open
        BY <2>4 DEF Within
      <4>2. y.obj[f].open
        BY <2>3, <2>4, <3>1, <4>1
      <4> QED  BY <2>2, <2>4, <3>1, <4>1, <4>2, Again
    <3>4. Within(y, f, Further(y.obj[f]), L2, N2) /\ y.obj[f].pos <= y.obj[f].valid
      BY <2>3, <2>6, <2>8, <3>1, <3>3
    <3>5. x => Owned(y, L2, N2)
      BY <2>5, <3>1 DEF Owned
    <3>7. y \in Volumes /\ y.result = "ok"
      BY <3>1, <1>3
    <3>6. y \in Aimed(f, x)
      BY <2>2, <3>4, <3>5, <3>7, IsAimed
    <3> QED  BY <3>2, <3>6
  <2> QED  BY <1>2, <1>3, <2>7, <2>8, ZenonT(30) DEF s, w
<1>4. CASE w.result # "ok"
  BY <1>2, <1>4 DEF s, w
<1> QED  BY <1>3, <1>4

\* The next cluster is the first one, the one behind, or a new one.
LEMMA NextClusterIs ==
  ASSUME NEW f \in Files, NEW x, NEW v \in Ready(f, x), v.obj[f].pos % Units = 0
  PROVE  Brings(NextCluster(v, f), Aimed(f, x))
<1> DEFINE o == v.obj[f]
           q == Lengthened(o)
           k == o.pos \div Units
<1>1. v \in Volumes /\ v.result = "ok" /\ o.pos <= o.valid
  BY DEF Ready
<1>2. PICK L \in Lists, N \in Lengths : Within(v, f, q, L, N) /\ (x => Owned(v, L, N))
  BY DEF Ready
<1> DEFINE n == N[f]
           l == L[f]
<1>3. /\ o \in Objects /\ o.pos \in Nat /\ o.len \in Nat /\ o.cur \in Int /\ o.first \in Int
      /\ o.contig \in BOOLEAN /\ n \in Nat
      /\ Apart(v, L, N) /\ OpenOk(v, f, q, l, n) /\ k \in Nat
  BY <1>1, <1>2, VolumeIs, FieldsOf, UnitAt DEF Within, Lengths
<1>4. /\ q \in Objects /\ q.contig = o.contig /\ q.first = o.first /\ q.cur = o.cur /\ q.pos = o.pos
      /\ q.len = (IF o.pos > o.len THEN o.pos ELSE o.len) /\ q.len \in Nat
  BY <1>3, LengthenedIs
<1> HIDE DEF q, n, l
<1>5. Follows(v, q, l, n) /\ Placed(q, l) /\ (n = 0 <=> o.first = 0)
  BY <1>3, <1>4 DEF OpenOk, Follows
<1>6. \A i \in 0 .. n - 1 : l[i] \in Clusters
  BY <1>1, <1>3, ItemsIn DEF n, l
<1>7. o.pos > 0 => k - 1 \in 0 .. n - 1 /\ o.cur = l[k - 1] /\ o.cur # 0 /\ k <= n /\ k > 0
  <2> SUFFICES ASSUME o.pos > 0 PROVE k - 1 \in 0 .. n - 1 /\ o.cur = l[k - 1] /\ o.cur # 0 /\ k <= n /\ k > 0
    OBVIOUS
  <2>1. (o.pos - 1) \div Units \in 0 .. n - 1 /\ o.cur = l[(o.pos - 1) \div Units]
    BY <1>1, <1>3, <1>4, CurIs
  <2>2. (o.pos - 1) \div Units = k - 1
    BY <1>3, Before
  <2> HIDE DEF k
  <2>3. k - 1 \in 0 .. n - 1 /\ o.cur = l[k - 1]
    BY <2>1, <2>2
  <2> QED  BY <2>3, <1>3, <1>6, NoCluster
<1>8. o.pos = 0 => o.cur = 0 /\ k = 0
  <2>1. o.pos = 0 => o.cur = 0
    BY <1>4, <1>5 DEF Placed
  <2>2. 0 \div Units = 0
    <3>1. 0 \div Units \in Nat /\ 0 % Units \in 0 .. Units - 1 /\ 0 = Units * (0 \div Units) + (0 % Units)
      BY UnitAt
    <3>2. (Units * 0 + 0) \div Units = 0
      BY UnitsIs, Quotient
    <3> QED  BY <3>2, UnitsIs
  <2> QED  BY <2>1, <2>2
<1> DEFINE S == Aimed(f, x)
<1> SUFFICES Brings(NextCluster(v, f), S)
  OBVIOUS
<1>9. S \subseteq Good
  BY AllGood
<1>10. /\ \A w \in S : Brings(<<w>>, S)
       /\ \A s \in Seq(Good) : \A w \in S : Brings(Append(s, w), S)
  BY <1>9, BringsMore
<1>11. ASSUME NEW c, c = l[k], k < n PROVE Set(v, f, [o EXCEPT !.cur = c]) \in S /\ c \in Clusters
  BY <1>1, <1>2, <1>11, AimedBy DEF q, n, l
<1>12. k = n =>
         LET s == AddCluster(v, f)
             w == Last(s) IN
         /\ s \in Seq(Good) /\ s # <<>>
         /\ \/ w.result # "ok"
            \/ /\ w.result = "ok"
               /\ n # 0 => w \in S
               /\ n = 0 => [w EXCEPT !.obj[f].first = w.obj[f].cur] \in S
  BY <1>1, <1>2, AddedIs DEF q, n
<1> HIDE DEF S
<1> DEFINE follows == IF o.contig THEN o.cur < LastOf(o) ELSE v.fat[o.cur] # EOC
           added == AddCluster(v, f)
           w == Last(added)
           new == [w EXCEPT !.obj[f].first = w.obj[f].cur]
           c == IF o.contig THEN o.cur + 1 ELSE v.fat[o.cur]
           first == <<Set(v, f, [o EXCEPT !.cur = o.first])>>
           next == <<Set(v, f, [o EXCEPT !.cur = c])>>
           more == Append(added, new)
<1>13. NextCluster(v, f) =
         IF o.cur = 0 /\ o.first # 0 THEN first
         ELSE IF o.cur = 0 THEN IF w.result # "ok" THEN added ELSE more
         ELSE IF follows THEN next ELSE added
  BY DEF NextCluster, Final, Set
<1>14. k = n => /\ added \in Seq(Good) /\ added # <<>>
                /\ \/ w.result # "ok"
                   \/ w.result = "ok" /\ (n # 0 => w \in S) /\ (n = 0 => new \in S)
  BY <1>12
<1>21. k = n => \/ w.result # "ok" /\ Brings(added, S)
                \/ w.result = "ok" /\ (n # 0 => Brings(added, S)) /\ (n = 0 => Brings(more, S))
  <2> HIDE DEF added, new
  <2> QED  BY <1>10, <1>14 DEF Brings
<1>22. Set(v, f, [o EXCEPT !.cur = o.first]) \in S => Brings(first, S)
  BY <1>10
<1>23. Set(v, f, [o EXCEPT !.cur = c]) \in S => Brings(next, S)
  BY <1>10
<1> HIDE DEF added, w, new, k, first, next, more
<1>15. CASE o.cur = 0 /\ o.first # 0
  <2>1. k = 0 /\ n > 0 /\ l[0] = o.first
    BY <1>15, <1>3, <1>4, <1>5, <1>7, <1>8 DEF Follows
  <2>2. Set(v, f, [o EXCEPT !.cur = o.first]) \in S
    BY <2>1, <1>11
  <2> QED  BY <1>13, <1>15, <1>22, <2>2
<1>16. CASE o.cur = 0 /\ o.first = 0
  <2>1. n = 0 /\ k = n
    BY <1>16, <1>3, <1>5, <1>7, <1>8
  <2> HIDE DEF follows
  <2>2. NextCluster(v, f) = IF w.result # "ok" THEN added ELSE more
    BY <1>13, <1>16
  <2> QED  BY <1>21, <2>1, <2>2
<1>17. CASE o.cur # 0 /\ k < n
  <2>1. o.pos > 0 /\ k - 1 \in 0 .. n - 1 /\ o.cur = l[k - 1] /\ k \in 0 .. n - 1
    BY <1>17, <1>3, <1>7, <1>8
  <2>2. follows /\ c = l[k]
    <3>1. CASE o.contig
      <4>1. l[k] = o.first + k /\ l[k - 1] = o.first + (k - 1) /\ n = Count(q.len)
        BY <3>1, <2>1, <1>4, <1>5 DEF Follows
      <4>2. o.len > o.pos /\ q.len = o.len
        <5> SUFFICES ASSUME o.len <= o.pos PROVE FALSE
          BY <1>3, <1>4
        <5>1. q.len = o.pos
          BY <1>3, <1>4
        <5>2. Count(q.len) = (o.pos - 1) \div Units + 1
          BY <5>1, <2>1, <1>3, CountIs
        <5>3. (o.pos - 1) \div Units = k - 1
          BY <2>1, <1>3, Before DEF k
        <5> QED  BY <5>2, <5>3, <4>1, <1>17, <1>3
      <4>3. (o.len - 1) \div Units \in Nat /\ Count(o.len) = (o.len - 1) \div Units + 1
        BY <4>2, <1>3, CountIs
      <4>4. LastOf(o) = o.first + (n - 1)
        BY <4>1, <4>2, <4>3, <1>3 DEF LastOf
      <4>5. o.cur < LastOf(o) /\ o.cur + 1 = l[k]
        BY <4>1, <4>4, <2>1, <1>3, <1>17
      <4> QED  BY <3>1, <4>5 DEF follows
    <3>2. CASE ~o.contig
      <4>1. k - 1 \in 0 .. n - 2 /\ n > 0 /\ k - 1 + 1 = k
        BY <2>1, <1>3, <1>17
      <4>2. v.fat[l[k - 1]] = l[k - 1 + 1]
        BY <3>2, <4>1, <1>4, <1>5 DEF Follows
      <4>3. v.fat[o.cur] = l[k] /\ l[k] # EOC
        BY <4>1, <4>2, <2>1, <1>6, NoCluster
      <4> QED  BY <3>2, <4>3 DEF follows
    <3> QED  BY <3>1, <3>2, <1>3
  <2> HIDE DEF c, follows
  <2>3. Set(v, f, [o EXCEPT !.cur = c]) \in S
    BY <2>2, <1>11, <1>17
  <2> QED  BY <1>13, <1>17, <1>23, <2>2, <2>3
<1>18. CASE o.cur # 0 /\ k = n
  <2>1. o.pos > 0 /\ k - 1 \in 0 .. n - 1 /\ o.cur = l[k - 1] /\ n # 0
    BY <1>18, <1>3, <1>7, <1>8
  <2>2. ~follows
    <3>1. CASE o.contig
      <4>1. l[k - 1] = o.first + (k - 1) /\ n = Count(q.len)
        BY <3>1, <2>1, <1>4, <1>5 DEF Follows
      <4>2. (o.len - 1) \div Units <= n - 1
        <5>1. CASE o.len = 0
          <6>1. (0 - 1) \div Units = 0 - 1
            BY BeforeAll
          <6> QED  BY <5>1, <6>1, <1>3
        <5>2. CASE o.len > 0
          <6>1. Count(o.len) <= Count(q.len)
            BY <1>3, <1>4, CountGrows
          <6>2. (o.len - 1) \div Units \in Nat /\ Count(o.len) = (o.len - 1) \div Units + 1
            BY <5>2, <1>3, CountIs
          <6> QED  BY <6>1, <6>2, <4>1, <1>3
        <5> QED  BY <5>1, <5>2, <1>3
      <4>3. (o.len - 1) \div Units \in Int
        BY <1>3, UnitsIs, Division
      <4>4. ~ (o.cur < LastOf(o))
        BY <4>1, <4>2, <4>3, <2>1, <1>3, <1>18 DEF LastOf
      <4> QED  BY <3>1, <4>4 DEF follows
    <3>2. CASE ~o.contig
      <4>1. v.fat[l[n - 1]] = EOC
        BY <3>2, <2>1, <1>3, <1>4, <1>5 DEF Follows
      <4> QED  BY <3>2, <4>1, <2>1, <1>18 DEF follows
    <3> QED  BY <3>1, <3>2, <1>3
  <2> HIDE DEF c, follows
  <2>3. NextCluster(v, f) = added
    BY <1>13, <1>18, <2>2
  <2> QED  BY <1>21, <1>18, <2>1, <2>3
<1>19. o.cur = 0 \/ k < n \/ k = n
  BY <1>3, <1>7, <1>8
<1> QED  BY <1>15, <1>16, <1>17, <1>18, <1>19

\* The object after a unit was written.
Advanced(o) ==
  [o EXCEPT !.pos = @ + 1, !.dirty = @ \/ o.pos + 1 > o.valid, !.valid = Max({@, o.pos + 1})]

\* The fields of the object after a unit was written.
LEMMA AdvancedIs ==
  ASSUME NEW o \in Objects
  PROVE  LET p == Advanced(o) IN
         /\ p \in Objects /\ p.open = o.open /\ p.contig = o.contig /\ p.first = o.first /\ p.cur = o.cur
         /\ p.pos = o.pos + 1 /\ p.len = o.len
         /\ p.valid = (IF o.valid < o.pos + 1 THEN o.pos + 1 ELSE o.valid)
         /\ (p.dirty <=> o.dirty \/ o.pos + 1 > o.valid)
<1> DEFINE d == o.dirty \/ o.pos + 1 > o.valid
           m == Max({o.valid, o.pos + 1})
           z == o.pos + 1
<1>1. o.valid \in Nat /\ o.pos \in Nat
  BY FieldsOf
<1>2. m = IF o.valid < o.pos + 1 THEN o.pos + 1 ELSE o.valid
  BY <1>1, MaxOfTwo
<1>3. d \in BOOLEAN /\ m \in Nat /\ z \in Nat
  BY <1>1, <1>2
<1>4. Advanced(o) = [o EXCEPT !.pos = z, !.dirty = d, !.valid = m]
  BY DEF Advanced
<1> HIDE DEF d, m, z
<1>5. LET p == [o EXCEPT !.pos = z, !.dirty = d, !.valid = m] IN
      /\ p \in Objects /\ p.open = o.open /\ p.contig = o.contig /\ p.first = o.first /\ p.cur = o.cur
      /\ p.pos = z /\ p.len = o.len /\ p.valid = m /\ p.dirty = d
  BY <1>3 DEF Objects
<1>6. LET p == Advanced(o) IN
      /\ p \in Objects /\ p.open = o.open /\ p.contig = o.contig /\ p.first = o.first /\ p.cur = o.cur
      /\ p.pos = z /\ p.len = o.len /\ p.valid = m /\ p.dirty = d
  BY <1>4, <1>5
<1> QED  BY <1>2, <1>6 DEF d, z

\* A volume with a unit more.
PutAt(v, f, c, j, u, p) == [v EXCEPT !.data[c][j] = u, !.obj[f] = p]

\* A unit that is written changes no other unit and nothing else.
LEMMA UnitPut ==
  ASSUME NEW v \in Volumes, NEW f \in Files, NEW c \in Clusters, NEW j \in 0 .. Units - 1,
         NEW u \in Contents, NEW p \in Objects
  PROVE  LET w == PutAt(v, f, c, j, u, p) IN
         /\ w \in Volumes /\ w.used = v.used /\ w.fat = v.fat /\ w.entry = v.entry /\ w.result = v.result
         /\ w.obj[f] = p /\ \A g \in Files \ {f} : w.obj[g] = v.obj[g]
         /\ w.data[c][j] = u /\ (\A i \in 0 .. Units - 1 : i # j => w.data[c][i] = v.data[c][i])
         /\ \A y \in Clusters : y # c => w.data[y] = v.data[y]
<1> DEFINE k == [v.data[c] EXCEPT ![j] = u]
           t == [v.data EXCEPT ![c] = k]
           ps == [v.obj EXCEPT ![f] = p]
<1>1. v.data \in [Clusters -> [0 .. Units - 1 -> Contents]] /\ v.obj \in [Files -> Objects]
  BY VolumeIs
<1>2. k \in [0 .. Units - 1 -> Contents] /\ k[j] = u /\ \A i \in 0 .. Units - 1 : i # j => k[i] = v.data[c][i]
  BY <1>1
<1> HIDE DEF k
<1>3. /\ t \in [Clusters -> [0 .. Units - 1 -> Contents]] /\ t[c] = k
      /\ \A y \in Clusters : y # c => t[y] = v.data[y]
  BY <1>1, <1>2
<1>4. ps \in [Files -> Objects] /\ ps[f] = p /\ \A g \in Files \ {f} : ps[g] = v.obj[g]
  BY <1>1
<1> DEFINE w == PutAt(v, f, c, j, u, p)
<1>5. w = [v EXCEPT !.data = t, !.obj = ps]
  BY DEF k, Volumes, PutAt
<1> HIDE DEF t, ps, w
<1>6. /\ w \in Volumes /\ w.used = v.used /\ w.fat = v.fat /\ w.entry = v.entry /\ w.result = v.result
      /\ w.obj = ps /\ w.data = t
  BY <1>3, <1>4, <1>5 DEF Volumes
<1> QED  BY <1>2, <1>3, <1>4, <1>6 DEF w

\* The unit at the position is written.
LEMMA PutUnitIs ==
  ASSUME NEW f \in Files, NEW x, NEW v \in Aimed(f, x)
  PROVE  PutUnit(v, f) \in Ready(f, x)
<1> DEFINE o == v.obj[f]
           r == Further(o)
           c == o.cur
           j == o.pos % Units
           k == o.pos \div Units
           p == Advanced(o)
           q == Lengthened(p)
           w == PutAt(v, f, c, j, <<f, o.pos>>, p)
<1>1. v \in Volumes /\ v.result = "ok" /\ o.pos <= o.valid
  BY DEF Aimed
<1>2. PICK L \in Lists, N \in Lengths : Within(v, f, r, L, N) /\ (x => Owned(v, L, N))
  BY DEF Aimed
<1> DEFINE n == N[f]
           l == L[f]
<1>3. /\ o \in Objects /\ o.pos \in Nat /\ o.len \in Nat /\ o.cur \in Int /\ o.valid \in Nat
      /\ n \in Nat /\ Apart(v, L, N) /\ OpenOk(v, f, r, l, n) /\ System \subseteq v.used /\ o.open
      /\ \A g \in Files \ {f} : FileOk(v, g, L[g], N[g])
      /\ k \in Nat /\ j \in 0 .. Units - 1
  BY <1>1, <1>2, VolumeIs, FieldsOf, UnitAt DEF Within, Lengths
<1>4. /\ r \in Objects /\ r.pos = o.pos + 1 /\ r.valid = o.valid /\ r.cur = o.cur
      /\ r.contig = o.contig /\ r.first = o.first
      /\ r.len = (IF o.len < o.pos + 1 THEN o.pos + 1 ELSE o.len)
      /\ (r.dirty <=> o.dirty \/ o.pos + 1 > o.valid)
  BY <1>3, FurtherIs
<1>5. /\ p \in Objects /\ p.open = o.open /\ p.contig = o.contig /\ p.first = o.first /\ p.cur = o.cur
      /\ p.pos = o.pos + 1 /\ p.len = o.len
      /\ p.valid = (IF o.valid < o.pos + 1 THEN o.pos + 1 ELSE o.valid)
      /\ (p.dirty <=> o.dirty \/ o.pos + 1 > o.valid)
  BY <1>3, AdvancedIs
<1> HIDE DEF p, r
<1>6. /\ q \in Objects /\ q.contig = p.contig /\ q.first = p.first /\ q.cur = p.cur
      /\ q.pos = p.pos /\ q.valid = p.valid /\ q.len = (IF p.pos > p.len THEN p.pos ELSE p.len)
      /\ (q.dirty <=> p.dirty \/ p.pos > p.len)
  BY <1>5, LengthenedIs
<1> HIDE DEF q
<1>7. /\ q.contig = r.contig /\ q.first = r.first /\ q.cur = r.cur /\ q.pos = r.pos /\ q.len = r.len
      /\ (~q.dirty => ~r.dirty /\ q.valid = r.valid)
  BY <1>3, <1>4, <1>5, <1>6
<1>17. /\ (q.valid = o.pos + 1 \/ q.valid = o.valid) /\ q.valid >= r.valid /\ q.valid <= r.len /\ q.valid \in Nat
       /\ (~q.dirty => ~r.dirty /\ q.valid = r.valid) /\ q.pos <= q.valid
       /\ \A u \in Nat : u < q.valid => u < o.valid \/ u = o.pos
  <2>1. Right(v, f, r, l)
    BY <1>3 DEF OpenOk
  <2>2. r.valid <= r.len
    BY <2>1 DEF Right
  <2> QED  BY <2>2, <1>1, <1>3, <1>4, <1>5, <1>6
<1> HIDE DEF k
<1>8. k \in 0 .. n - 1 /\ c = l[k] /\ c \in Clusters
  <2>1. r.pos > 0 /\ r.pos - 1 = o.pos
    BY <1>3, <1>4
  <2>2. (r.pos - 1) \div Units \in 0 .. n - 1 /\ r.cur = l[(r.pos - 1) \div Units]
    BY <1>1, <1>3, <1>4, <2>1, CurIs
  <2>3. k \in 0 .. n - 1 /\ r.cur = l[k]
    BY <2>1, <2>2 DEF k
  <2>4. l[k] \in Clusters
    BY <2>3, <1>1, <1>3, ItemsIn, SMTT(30)
  <2> QED  BY <2>3, <2>4, <1>4
<1> HIDE DEF j, c
<1>9. /\ w \in Volumes /\ w.used = v.used /\ w.fat = v.fat /\ w.entry = v.entry /\ w.result = v.result
      /\ w.obj[f] = p /\ (\A g \in Files \ {f} : w.obj[g] = v.obj[g])
      /\ w.data[c][j] = <<f, o.pos>> /\ (\A i \in 0 .. Units - 1 : i # j => w.data[c][i] = v.data[c][i])
      /\ \A y \in Clusters : y # c => w.data[y] = v.data[y]
  <2> DEFINE u == <<f, o.pos>>
             y == PutAt(v, f, c, j, u, p)
  <2>1. u \in Contents
    BY <1>3 DEF Contents
  <2>2. j \in 0 .. Units - 1 /\ c \in Clusters /\ p \in Objects /\ v \in Volumes
    BY <1>1, <1>3, <1>5, <1>8
  <2> HIDE DEF u
  <2>3. /\ y \in Volumes /\ y.used = v.used /\ y.fat = v.fat /\ y.entry = v.entry /\ y.result = v.result
        /\ y.obj[f] = p /\ (\A g \in Files \ {f} : y.obj[g] = v.obj[g])
        /\ y.data[c][j] = u /\ (\A i \in 0 .. Units - 1 : i # j => y.data[c][i] = v.data[c][i])
        /\ \A d \in Clusters : d # c => y.data[d] = v.data[d]
    BY ONLY <2>1, <2>2, UnitPut
  <2> QED  BY <2>3 DEF u
<1>10. PutUnit(v, f) = w
  BY DEF PutUnit, PutAt, c, j, p, Advanced
<1> HIDE DEF w
<1>11. \A g \in Files : \A i \in 0 .. N[g] - 1 : L[g][i] \in Clusters /\ (L[g][i] = c => g = f /\ i = k)
  <2>1. \A g \in Files : \A i \in 0 .. N[g] - 1 : L[g][i] \in Clusters
    BY <1>1, <1>3, ItemsIn
  <2>2. \A g \in Files : \A i \in 0 .. N[g] - 1 : L[g][i] = L[f][k] => g = f /\ i = k
    BY <1>3, <1>8 DEF Apart
  <2> QED  BY <2>1, <2>2, <1>8
<1>12. Follows(v, r, l, n) /\ Right(v, f, r, l) /\ Placed(r, l) /\ Behind(v.entry[f], r, l)
  BY <1>3 DEF OpenOk
<1>13. Follows(w, q, l, n)
  BY <1>7, <1>9, <1>12 DEF Follows
<1>14. Right(w, f, q, l)
  <2>1. \A u \in 0 .. q.valid - 1 : w.data[l[u \div Units]][u % Units] = <<f, u>>
    <3> TAKE u \in 0 .. q.valid - 1
    <3>1. u \in Nat /\ u < q.valid /\ u < q.len /\ q.len \in Nat
      BY <1>6, <1>7, <1>17, FieldsOf
    <3> DEFINE a == u \div Units
               b == u % Units
    <3>2. a \in 0 .. n - 1
      <4>1. r.len \in Nat /\ u < r.len
        BY <3>1, <1>7
      <4> QED  BY <4>1, <3>1, <1>1, <1>3, <1>12, UnitIn
    <3>3. b \in 0 .. Units - 1
      BY <3>1, UnitAt, SMTT(30)
    <3>4. CASE u = o.pos
      BY <3>4, <1>8, <1>9, ZenonT(30) DEF k, j
    <3>5. CASE u # o.pos
      <4>1. u \in 0 .. r.valid - 1
        BY <3>1, <3>5, <1>3, <1>4, <1>17
      <4>2. v.data[l[a]][b] = <<f, u>>
        BY <4>1, <1>12 DEF Right
      <4>3. ~ (a = k /\ b = j)
        BY <3>1, <3>5, <1>3, SameUnit DEF k, j
      <4> HIDE DEF a, b
      <4>4. l[a] \in Clusters /\ (l[a] = c => a = k)
        BY <3>2, <1>11
      <4>5. w.data[l[a]][b] = v.data[l[a]][b]
        BY <3>3, <4>3, <4>4, <1>8, <1>9
      <4> QED  BY <4>2, <4>5, Zenon DEF a, b
    <3> QED  BY <3>4, <3>5
  <2> QED  BY <2>1, <1>7, <1>17 DEF Right
<1>15. Placed(q, l)
  BY <1>7, <1>12 DEF Placed
<1>16. Behind(w.entry[f], q, l)
  <2> DEFINE e == v.entry[f]
  <2>1. e.len \in Nat /\ e.valid \in Nat /\ r.valid \in Nat /\ w.entry[f] = e
    BY <1>1, <1>4, <1>9, VolumeIs, FieldsOf DEF Entries
  <2> HIDE DEF e
  <2>2. Behind(e, r, l)
    BY <1>12 DEF e
  <2>3. e.valid <= q.valid
    BY <2>1, <2>2, <1>17 DEF Behind
  <2> QED  BY <2>1, <2>2, <2>3, <1>7, <1>17 DEF Behind
<1>18. OpenOk(w, f, q, l, n)
  BY <1>13, <1>14, <1>15, <1>16 DEF OpenOk
<1>19. \A g \in Files \ {f} : FileOk(w, g, L[g], N[g])
  <2> TAKE g \in Files \ {f}
  <2>1. FileOk(v, g, L[g], N[g]) /\ N[g] \in Nat
    BY <1>3 DEF Lengths
  <2>2. \A i \in 0 .. N[g] - 1 : L[g][i] \in Clusters /\ w.data[L[g][i]] = v.data[L[g][i]] /\ w.fat[L[g][i]] = v.fat[L[g][i]]
    BY <1>9, <1>11
  <2>3. w.entry[g] = v.entry[g] /\ w.obj[g] = v.obj[g]
    BY <1>9
  <2> QED  BY <1>1, <1>9, <2>1, <2>2, <2>3, FileKept
<1>20. Apart(w, L, N) /\ System \subseteq w.used /\ (x => Owned(w, L, N))
  BY <1>2, <1>3, <1>9 DEF Apart, Owned
<1>21. w.obj[f].open /\ w.result = "ok" /\ w.obj[f].pos <= w.obj[f].valid
  BY <1>1, <1>3, <1>5, <1>6, <1>9, <1>17
<1>22. Within(w, f, q, L, N)
  BY <1>6, <1>9, <1>18, <1>19, <1>20, <1>21 DEF Within, n, l
<1>23. q = Lengthened(w.obj[f])
  BY <1>9 DEF q
<1>24. Within(w, f, Lengthened(w.obj[f]), L, N)
  BY <1>22, <1>23
<1> QED  BY <1>9, <1>10, <1>20, <1>21, <1>24, IsReady

\* write of a unit.
LEMMA WriteUnitIs ==
  ASSUME NEW f \in Files, NEW x, NEW v \in Ready(f, x)
  PROVE  Brings(WriteUnit(v, f), Ready(f, x))
<1> DEFINE o == v.obj[f]
           there == IF o.pos % Units = 0 THEN NextCluster(v, f) ELSE <<v>>
           w == Last(there)
           more == Append(there, PutUnit(w, f))
<1>1. WriteUnit(v, f) = IF w.result # "ok" THEN there ELSE more
  BY DEF WriteUnit, Final
<1>2. Brings(there, Aimed(f, x))
  <2>1. CASE o.pos % Units = 0
    BY <2>1, NextClusterIs
  <2>2. CASE o.pos % Units # 0
    <3>1. v \in Volumes /\ v.result = "ok" /\ o.pos <= o.valid
      BY DEF Ready
    <3>2. PICK L \in Lists, N \in Lengths : Within(v, f, Lengthened(o), L, N) /\ (x => Owned(v, L, N))
      BY DEF Ready
    <3> DEFINE q == Lengthened(o)
               n == N[f]
               l == L[f]
    <3>3. o \in Objects /\ o.pos \in Nat /\ o.cur \in Int /\ n \in Nat /\ OpenOk(v, f, q, l, n) /\ o.open
      BY <3>1, <3>2, VolumeIs, FieldsOf DEF Within, Lengths
    <3>4. q \in Objects /\ q.pos = o.pos /\ q.cur = o.cur
      BY <3>3, LengthenedIs
    <3>5. o.pos > 0
      <4>1. o.pos = 0 => o.pos % Units = 0
        <5>1. (Units * 0 + 0) % Units = 0
          BY UnitsIs, Quotient
        <5> QED  BY <5>1, UnitsIs
      <4> QED  BY <4>1, <2>2, <3>3
    <3>6. (o.pos - 1) \div Units \in 0 .. n - 1 /\ o.cur = l[(o.pos - 1) \div Units]
      <4> HIDE DEF q
      <4> QED  BY <3>1, <3>3, <3>4, <3>5, CurIs
    <3>7. (o.pos - 1) \div Units = o.pos \div Units
      BY <2>2, <3>3, <3>5, Before
    <3>8. o.pos \div Units < n /\ o.cur = l[o.pos \div Units]
      BY <3>3, <3>6, <3>7
    <3> DEFINE p == [o EXCEPT !.cur = o.cur]
    <3>9. p = o
      <4>1. /\ p \in Objects /\ p.open = o.open /\ p.dirty = o.dirty /\ p.contig = o.contig /\ p.first = o.first
            /\ p.cur = o.cur /\ p.pos = o.pos /\ p.valid = o.valid /\ p.len = o.len
        BY <3>3, MovedIs
      <4> HIDE DEF p
      <4> QED  BY <3>3, <4>1, SameObject
    <3>10. OpenOk(v, f, Further(p), l, n)
      BY <3>1, <3>3, <3>8, AtUnit
    <3>11. Further(o) \in Objects
      BY <3>3, FurtherIs
    <3>12. Within(v, f, Further(o), L, N)
      BY <3>2, <3>9, <3>10, <3>11 DEF Within
    <3>13. v \in Aimed(f, x)
      BY <3>1, <3>2, <3>12, IsAimed
    <3>14. there = <<v>>
      BY <2>2
    <3>15. Aimed(f, x) \subseteq Good
      BY AllGood
    <3>16. Brings(<<v>>, Aimed(f, x))
      BY ONLY <3>13, <3>15, BringsMore
    <3> QED  BY <3>14, <3>16
  <2> QED  BY <2>1, <2>2
<1> HIDE DEF there
<1>3. CASE w.result # "ok"
  BY <1>1, <1>2, <1>3 DEF Brings
<1>4. CASE w.result = "ok"
  <2>1. w \in Aimed(f, x) /\ there \in Seq(Good)
    BY <1>2, <1>4 DEF Brings
  <2>2. PutUnit(w, f) \in Ready(f, x)
    BY <2>1, PutUnitIs
  <2>3. Brings(more, Ready(f, x))
    BY <2>1, <2>2, AllGood, BringsMore
  <2> QED  BY <1>1, <1>4, <2>3
<1> QED  BY <1>3, <1>4

\* The function of the steps of a write, after each of its units.
Written(v, f, n, w) ==
  w = [i \in 0 .. n |->
        IF i = 0 THEN <<v>>
        ELSE IF Final(w[i - 1]).result # "ok" THEN w[i - 1]
        ELSE w[i - 1] \o WriteUnit(Final(w[i - 1]), f)]

\* There is one for every number of units.
LEMMA WrittenExists ==
  ASSUME NEW v, NEW f, NEW n \in Nat
  PROVE  \E w : Written(v, f, n, w)
<1> DEFINE S == {m \in Nat : \E w : Written(v, f, m, w)}
           Then(s) == IF Final(s).result # "ok" THEN s ELSE s \o WriteUnit(Final(s), f)
<1>0. \A m, w : Written(v, f, m, w) <=> w = [i \in 0 .. m |-> IF i = 0 THEN <<v>> ELSE Then(w[i - 1])]
  BY Zenon DEF Written
<1> HIDE DEF Then
<1>1. 0 \in S
  <2> DEFINE w == [i \in 0 .. 0 |-> <<v>>]
  <2>1. w = [i \in 0 .. 0 |-> IF i = 0 THEN <<v>> ELSE Then(w[i - 1])]
    OBVIOUS
  <2> QED  BY <1>0, <2>1
<1>2. ASSUME NEW m \in Nat, m \in S PROVE m + 1 \in S
  <2>1. PICK w : w = [i \in 0 .. m |-> IF i = 0 THEN <<v>> ELSE Then(w[i - 1])]
    BY <1>0, <1>2
  <2> DEFINE y == [i \in 0 .. m + 1 |-> IF i \in 0 .. m THEN w[i] ELSE Then(w[m])]
  <2>2. \A i \in 0 .. m : w[i] = IF i = 0 THEN <<v>> ELSE Then(w[i - 1])
    BY <2>1
  <2>3. \A i \in 0 .. m + 1 : y[i] = IF i = 0 THEN <<v>> ELSE Then(y[i - 1])
    <3> TAKE i \in 0 .. m + 1
    <3>1. CASE i = 0
      BY <3>1, <2>2
    <3>2. CASE i # 0 /\ i \in 0 .. m
      <4>1. i - 1 \in 0 .. m /\ i - 1 \in 0 .. m + 1
        BY <3>2
      <4>2. y[i] = w[i] /\ y[i - 1] = w[i - 1]
        BY <3>2, <4>1
      <4> HIDE DEF y
      <4> QED  BY <3>2, <2>2, <4>1, <4>2
    <3>3. CASE i = m + 1
      <4>1. i # 0 /\ i \notin 0 .. m /\ m \in 0 .. m /\ m \in 0 .. m + 1 /\ i - 1 = m
        BY <3>3
      <4>2. y[i] = Then(w[m]) /\ y[m] = w[m]
        BY <3>3, <4>1
      <4> HIDE DEF y
      <4> QED  BY <4>1, <4>2
    <3> QED  BY <3>1, <3>2, <3>3
  <2>4. y = [i \in 0 .. m + 1 |-> y[i]]
    OBVIOUS
  <2> HIDE DEF y
  <2>5. y = [i \in 0 .. m + 1 |-> IF i = 0 THEN <<v>> ELSE Then(y[i - 1])]
    BY <2>3, <2>4
  <2>6. Written(v, f, m + 1, y)
    BY <1>0, <2>5
  <2> QED  BY <2>6
<1> HIDE DEF S
<1>3. Nat \subseteq S
  BY <1>1, <1>2, Induction
<1> QED  BY <1>3 DEF S

\* The object at the end of the write is right.
LEMMA WriteEnds ==
  ASSUME NEW f \in Files, NEW x, NEW v \in Ready(f, x)
  PROVE  Set(v, f, Lengthened(v.obj[f])) \in Done(x)
<1> DEFINE o == v.obj[f]
           q == Lengthened(o)
           w == Set(v, f, q)
<1>1. v \in Volumes /\ v.result = "ok" /\ o.pos <= o.valid
  BY DEF Ready
<1>2. PICK L \in Lists, N \in Lengths : Within(v, f, q, L, N) /\ (x => Owned(v, L, N))
  BY DEF Ready
<1>3. o \in Objects
  BY <1>1, VolumeIs
<1>4. q \in Objects /\ q.open = o.open /\ q.pos = o.pos /\ q.valid = o.valid
  BY <1>3, LengthenedIs
<1> HIDE DEF q
<1>5. /\ w \in Volumes /\ w.used = v.used /\ w.fat = v.fat /\ w.data = v.data
      /\ w.entry = v.entry /\ w.result = v.result
      /\ w.obj[f] = q /\ \A g \in Files \ {f} : w.obj[g] = v.obj[g]
  BY <1>1, <1>4, SetIs
<1> HIDE DEF w
<1>6. o.open /\ OpenOk(v, f, q, L[f], N[f])
  BY <1>2 DEF Within
<1>7. Within(w, f, q, L, N)
  <2>1. w.obj[f].open
    BY <1>4, <1>5, <1>6
  <2> QED  BY <1>2, <1>4, <1>5, <1>6, <2>1, Again
<1>8. \A g \in Files : FileOk(w, g, L[g], N[g])
  <2> TAKE g \in Files
  <2>1. CASE g = f
    <3>1. OpenOk(w, f, w.obj[f], L[f], N[f]) /\ w.obj[f].open /\ w.obj[f].pos <= w.obj[f].valid
      BY <1>1, <1>4, <1>5, <1>6, <1>7 DEF Within
    <3> QED  BY <2>1, <3>1 DEF FileOk
  <2>2. CASE g # f
    BY <2>2, <1>7 DEF Within
  <2> QED  BY <2>1, <2>2
<1>9. Sound(w, L, N)
  BY <1>7, <1>8 DEF Sound, Within
<1>10. x => Owned(w, L, N)
  BY <1>2, <1>5 DEF Owned
<1>12. w \in Volumes /\ w.result = "ok"
  BY <1>1, <1>5
<1>11. w \in Done(x)
  BY <1>2, <1>9, <1>10, <1>12, IsDone
<1> QED  BY <1>11 DEF w, q

\* write: it fails behind its first step, or all is as it should be.
LEMMA WriteIs ==
  ASSUME NEW f \in Files, NEW x, NEW v \in Ready(f, x), NEW n \in Nat
  PROVE  /\ Brings(Write(v, f, n), Done(x))
         /\ Last(Write(v, f, n)).result # "ok" => Len(Write(v, f, n)) > 1
<1> DEFINE written == CHOOSE w : Written(v, f, n, w)
           end == Last(written[n])
           more == Append(written[n], Set(end, f, Lengthened(end.obj[f])))
           R == Ready(f, x)
           Fine(s) == Brings(s, R) /\ (Last(s).result # "ok" => Len(s) > 1)
<1>1. Write(v, f, n) = IF end.result # "ok" THEN written[n] ELSE more
  BY Zenon DEF Write, Written, Final
<1>2. Written(v, f, n, written)
  BY WrittenExists
<1> HIDE DEF written
<1>3. \A i \in 0 .. n :
        written[i] = IF i = 0 THEN <<v>>
                     ELSE IF Last(written[i - 1]).result # "ok" THEN written[i - 1]
                     ELSE written[i - 1] \o WriteUnit(Last(written[i - 1]), f)
  BY <1>2 DEF Written, Final
<1>4. R \subseteq Good /\ v \in R /\ v.result = "ok"
  BY AllGood DEF Ready
<1>5. \A i \in Nat : i <= n => Fine(written[i])
  <2> DEFINE S == {i \in Nat : i <= n => Fine(written[i])}
  <2>1. 0 \in S
    <3>1. written[0] = <<v>>
      BY <1>3
    <3>2. Brings(<<v>>, R) /\ Last(<<v>>) = v
      BY <1>4, BringsMore, StepLists
    <3> QED  BY <1>4, <3>1, <3>2
  <2>2. ASSUME NEW i \in Nat, i \in S PROVE i + 1 \in S
    <3> SUFFICES ASSUME i + 1 <= n PROVE Fine(written[i + 1])
      OBVIOUS
    <3> DEFINE s == written[i]
               t == WriteUnit(Last(s), f)
    <3>1. written[i + 1] = IF Last(s).result # "ok" THEN s ELSE s \o t
      <4>1. i + 1 \in 0 .. n /\ i + 1 # 0 /\ i + 1 - 1 = i
        OBVIOUS
      <4> QED  BY <1>3, <4>1
    <3>2. Fine(s)
      BY <2>2
    <3> HIDE DEF s
    <3>3. CASE Last(s).result # "ok"
      BY <3>1, <3>2, <3>3
    <3>4. CASE Last(s).result = "ok"
      <4>1. Last(s) \in R /\ s \in Seq(Good) /\ s # <<>>
        BY <3>2, <3>4 DEF Brings
      <4>2. Brings(t, R)
        BY <4>1, WriteUnitIs
      <4> HIDE DEF t, R
      <4>3. Brings(s \o t, R)
        BY <1>4, <4>1, <4>2, BringsMore
      <4>4. t \in Seq(Good) /\ t # <<>>
        BY <4>2 DEF Brings
      <4>5. Len(s \o t) > 1
        <5>1. Len(s) \in Nat \ {0} /\ Len(t) \in Nat \ {0}
          BY <4>1, <4>4, StepLists
        <5>2. Len(s \o t) = Len(s) + Len(t)
          BY <4>1, <4>4
        <5> QED  BY <5>1, <5>2
      <4> QED  BY <3>1, <3>4, <4>3, <4>5
    <3> QED  BY <3>3, <3>4
  <2> HIDE DEF S
  <2>3. Nat \subseteq S
    BY <2>1, <2>2, Induction
  <2> QED  BY <2>3 DEF S
<1>6. Fine(written[n])
  BY <1>5
<1>7. CASE end.result # "ok"
  BY <1>1, <1>6, <1>7 DEF Brings
<1>8. CASE end.result = "ok"
  <2>1. end \in R /\ written[n] \in Seq(Good)
    BY <1>6, <1>8 DEF Brings
  <2> DEFINE d == Set(end, f, Lengthened(end.obj[f]))
  <2>2. d \in Done(x)
    BY <2>1, WriteEnds
  <2> HIDE DEF d, end
  <2>3. Brings(Append(written[n], d), Done(x))
    BY <2>1, <2>2, AllGood, BringsMore
  <2>4. Last(Append(written[n], d)).result = "ok"
    <3>1. d \in Good /\ d.result = "ok"
      BY <2>2, AllGood DEF Done
    <3> QED  BY <2>1, <3>1, StepLists
  <2> QED  BY <1>1, <1>8, <2>3, <2>4 DEF d, end
<1> QED  BY <1>7, <1>8

-----------------------------------------------------------------------------
(* Entries: sync, create, open and close.                                  *)

\* A write begins between two calls.
LEMMA DoneReady ==
  ASSUME NEW f \in Files, NEW x, NEW v \in Done(x), v.obj[f].open
  PROVE  v \in Ready(f, x)
<1> DEFINE o == v.obj[f]
<1>1. v \in Volumes /\ v.result = "ok"
  BY DEF Done
<1>2. PICK L \in Lists, N \in Lengths : Sound(v, L, N) /\ (x => Owned(v, L, N))
  BY DEF Done
<1>3. OpenOk(v, f, o, L[f], N[f]) /\ o.pos <= o.valid
  BY <1>2 DEF Sound, FileOk
<1>4. o \in Objects /\ o.pos \in Nat /\ o.valid \in Nat /\ o.len \in Nat
  BY <1>1, VolumeIs, FieldsOf
<1>5. o.valid <= o.len
  BY <1>3 DEF OpenOk, Right
<1>6. Lengthened(o) = o
  BY <1>3, <1>4, <1>5 DEF Lengthened
<1>7. Within(v, f, o, L, N)
  BY <1>2, <1>3, <1>4 DEF Within, Sound
<1>8. Within(v, f, Lengthened(v.obj[f]), L, N)
  BY <1>6, <1>7
<1> QED  BY <1>1, <1>2, <1>3, <1>8, IsReady

\* The entry of an object, the object then, and the volume.
EntryFor(o) == [exists |-> TRUE, contig |-> o.contig, first |-> o.first, valid |-> o.valid, len |-> o.len]
Clean(o) == [o EXCEPT !.dirty = FALSE]
Synced(v, f) == [v EXCEPT !.obj[f].dirty = FALSE, !.entry[f] = EntryFor(v.obj[f])]

\* The fields of an object after sync, and of the entry it wrote.
LEMMA CleanIs ==
  ASSUME NEW o \in Objects
  PROVE  /\ Clean(o) \in Objects /\ Clean(o).open = o.open /\ Clean(o).contig = o.contig
         /\ Clean(o).first = o.first /\ Clean(o).cur = o.cur /\ Clean(o).pos = o.pos
         /\ Clean(o).valid = o.valid /\ Clean(o).len = o.len /\ ~Clean(o).dirty
         /\ EntryFor(o) \in Entries /\ EntryFor(o).contig = o.contig /\ EntryFor(o).first = o.first
         /\ EntryFor(o).valid = o.valid /\ EntryFor(o).len = o.len /\ EntryFor(o).exists
BY DEF Clean, EntryFor, Objects, Entries

\* A volume with another entry and another object.
EntryAndObject(v, f, e, p) == [v EXCEPT !.entry[f] = e, !.obj[f] = p]

\* It differs from the volume it was in that entry and that object only.
LEMMA EntryPut ==
  ASSUME NEW v \in Volumes, NEW f \in Files, NEW e \in Entries, NEW p \in Objects
  PROVE  LET w == EntryAndObject(v, f, e, p) IN
         /\ w \in Volumes /\ w.used = v.used /\ w.fat = v.fat /\ w.data = v.data /\ w.result = v.result
         /\ w.obj[f] = p /\ (\A g \in Files \ {f} : w.obj[g] = v.obj[g])
         /\ w.entry[f] = e /\ \A g \in Files \ {f} : w.entry[g] = v.entry[g]
<1> DEFINE t == [v.entry EXCEPT ![f] = e]
           ps == [v.obj EXCEPT ![f] = p]
           w == EntryAndObject(v, f, e, p)
<1>1. v.entry \in [Files -> Entries] /\ v.obj \in [Files -> Objects]
  BY VolumeIs
<1>2. t \in [Files -> Entries] /\ t[f] = e /\ \A g \in Files \ {f} : t[g] = v.entry[g]
  BY <1>1
<1>3. ps \in [Files -> Objects] /\ ps[f] = p /\ \A g \in Files \ {f} : ps[g] = v.obj[g]
  BY <1>1
<1>4. w = [v EXCEPT !.entry = t, !.obj = ps]
  BY DEF Volumes, EntryAndObject
<1> HIDE DEF t, ps, w
<1>5. /\ w \in Volumes /\ w.used = v.used /\ w.fat = v.fat /\ w.data = v.data /\ w.result = v.result
      /\ w.entry = t /\ w.obj = ps
  <2>1. \A y : y = [v EXCEPT !.entry = t, !.obj = ps] =>
          /\ y \in Volumes /\ y.used = v.used /\ y.fat = v.fat /\ y.data = v.data /\ y.result = v.result
          /\ y.entry = t /\ y.obj = ps
    BY ONLY v \in Volumes, <1>2, <1>3 DEF Volumes
  <2> QED  BY <1>4, <2>1
<1> QED  BY <1>2, <1>3, <1>5 DEF w

\* What sync changes in the volume.
LEMMA SyncedIs ==
  ASSUME NEW v \in Volumes, NEW f \in Files
  PROVE  LET w == Synced(v, f)
             o == v.obj[f] IN
         /\ w \in Volumes /\ w.used = v.used /\ w.fat = v.fat /\ w.data = v.data /\ w.result = v.result
         /\ w.obj[f] = Clean(o) /\ (\A g \in Files \ {f} : w.obj[g] = v.obj[g])
         /\ w.entry[f] = EntryFor(o) /\ \A g \in Files \ {f} : w.entry[g] = v.entry[g]
<1> DEFINE o == v.obj[f]
           e == EntryFor(o)
           p == Clean(o)
           w == Synced(v, f)
<1>1. o \in Objects /\ e \in Entries /\ p \in Objects
  BY VolumeIs, CleanIs
<1>2. w = EntryAndObject(v, f, e, p)
  BY DEF Synced, Clean, EntryAndObject, Volumes
<1> HIDE DEF e, p, w
<1>3. /\ w \in Volumes /\ w.used = v.used /\ w.fat = v.fat /\ w.data = v.data /\ w.result = v.result
      /\ w.obj[f] = p /\ (\A g \in Files \ {f} : w.obj[g] = v.obj[g])
      /\ w.entry[f] = e /\ \A g \in Files \ {f} : w.entry[g] = v.entry[g]
  BY <1>1, <1>2, EntryPut
<1> QED  BY <1>3 DEF e, p, w

\* All is right but for the entry of f, which is to be written.
Whole(v, f, L, N) ==
  /\ System \subseteq v.used /\ Apart(v, L, N)
  /\ Follows(v, v.obj[f], L[f], N[f]) /\ Right(v, f, v.obj[f], L[f]) /\ Placed(v.obj[f], L[f])
  /\ \A g \in Files \ {f} : FileOk(v, g, L[g], N[g])
Unsynced(f, x) ==
  {v \in Volumes : /\ v.result = "ok" /\ v.obj[f].open /\ v.obj[f].pos <= v.obj[f].valid
                   /\ \E L \in Lists : \E N \in Lengths : Whole(v, f, L, N) /\ (x => Owned(v, L, N))}

\* The entry is written.
LEMMA SyncEnds ==
  ASSUME NEW f \in Files, NEW x, NEW v \in Unsynced(f, x)
  PROVE  LET w == Synced(v, f) IN
         w \in Done(x) /\ w.obj[f].open /\ ~w.obj[f].dirty
<1> DEFINE o == v.obj[f]
           w == Synced(v, f)
           p == Clean(o)
           e == EntryFor(o)
<1>1. v \in Volumes /\ v.result = "ok" /\ o.open /\ o.pos <= o.valid
  BY DEF Unsynced
<1>2. PICK L \in Lists, N \in Lengths : Whole(v, f, L, N) /\ (x => Owned(v, L, N))
  BY DEF Unsynced
<1> DEFINE n == N[f]
           l == L[f]
<1>3. o \in Objects /\ n \in Nat /\ o.valid \in Nat /\ o.len \in Nat
  BY <1>1, VolumeIs, FieldsOf DEF Lengths
<1>4. /\ w \in Volumes /\ w.used = v.used /\ w.fat = v.fat /\ w.data = v.data /\ w.result = v.result
      /\ w.obj[f] = p /\ (\A g \in Files \ {f} : w.obj[g] = v.obj[g])
      /\ w.entry[f] = e /\ \A g \in Files \ {f} : w.entry[g] = v.entry[g]
  BY <1>1, SyncedIs
<1> HIDE DEF w
<1>5. /\ p \in Objects /\ p.open = o.open /\ p.contig = o.contig /\ p.first = o.first /\ p.cur = o.cur
      /\ p.pos = o.pos /\ p.valid = o.valid /\ p.len = o.len /\ ~p.dirty
      /\ e \in Entries /\ e.contig = o.contig /\ e.first = o.first
      /\ e.valid = o.valid /\ e.len = o.len /\ e.exists
  BY <1>3, CleanIs
<1> HIDE DEF p, e
<1>6. Follows(v, o, l, n) /\ Right(v, f, o, l) /\ Placed(o, l) /\ Apart(v, L, N) /\ System \subseteq v.used
      /\ \A g \in Files \ {f} : FileOk(v, g, L[g], N[g])
  BY <1>2 DEF Whole
<1>7. Follows(w, p, l, n) /\ Right(w, f, p, l) /\ Placed(p, l)
  <2>1. Follows(w, p, l, n)
    BY <1>4, <1>5, <1>6, SMTT(30) DEF Follows
  <2>2. Right(w, f, p, l)
    BY <1>4, <1>5, <1>6, ZenonT(30) DEF Right
  <2>3. Placed(p, l)
    BY <1>5, <1>6 DEF Placed
  <2> QED  BY <2>1, <2>2, <2>3
<1>8. Behind(w.entry[f], p, l)
  <2>1. (e.first = 0 <=> e.len = 0) /\ e.valid <= e.len
    BY <1>5, <1>6 DEF Follows, Right
  <2>2. e.first # 0 => IF e.contig THEN \A i \in 0 .. Count(e.len) - 1 : l[i] = e.first + i ELSE ~p.contig
    BY <1>5, <1>6 DEF Follows
  <2> QED  BY <2>1, <2>2, <1>3, <1>4, <1>5 DEF Behind
<1>9. \A g \in Files : FileOk(w, g, L[g], N[g])
  <2> TAKE g \in Files
  <2>1. CASE g = f
    <3>1. OpenOk(w, f, p, l, n)
      BY <1>7, <1>8 DEF OpenOk
    <3> QED  BY <2>1, <3>1, <1>1, <1>4, <1>5 DEF FileOk
  <2>2. CASE g # f
    <3>1. FileOk(v, g, L[g], N[g]) /\ N[g] \in Nat /\ w.entry[g] = v.entry[g] /\ w.obj[g] = v.obj[g]
      BY <2>2, <1>4, <1>6 DEF Lengths
    <3>2. \A i \in 0 .. N[g] - 1 : L[g][i] \in Clusters
      BY <1>1, <1>6, ItemsIn
    <3>3. \A i \in 0 .. N[g] - 1 : w.data[L[g][i]] = v.data[L[g][i]] /\ w.fat[L[g][i]] = v.fat[L[g][i]]
      BY <1>4
    <3> QED  BY <1>1, <1>4, <3>1, <3>2, <3>3, FileKept
  <2> QED  BY <2>1, <2>2
<1>10. Apart(w, L, N) /\ System \subseteq w.used /\ (x => Owned(w, L, N))
  BY <1>2, <1>4, <1>6 DEF Apart, Owned
<1>11. Sound(w, L, N)
  BY <1>4, <1>9, <1>10 DEF Sound
<1>12. w \in Volumes /\ w.result = "ok" /\ w.obj[f].open /\ ~w.obj[f].dirty
  BY <1>1, <1>4, <1>5
<1>13. w \in Done(x)
  BY <1>2, <1>10, <1>11, <1>12, IsDone
<1> QED  BY <1>12, <1>13 DEF w

\* Steps that cannot fail.
Succeeds(s, S) == s \in Seq(Good) /\ s # <<>> /\ Last(s) \in S

\* sync of an open file.
LEMMA SyncIs ==
  ASSUME NEW f \in Files, NEW x, NEW v \in Done(x), v.obj[f].open
  PROVE  Succeeds(Sync(v, f), {w \in Done(x) : w.obj[f].open /\ ~w.obj[f].dirty})
<1> DEFINE o == v.obj[f]
           w == Synced(v, f)
           S == {y \in Done(x) : y.obj[f].open /\ ~y.obj[f].dirty}
<1>1. Sync(v, f) = IF ~o.dirty THEN <<v>> ELSE <<v, w>>
  BY DEF Sync, Synced, EntryFor
<1>2. S \subseteq Good /\ v \in Good
  BY AllGood
<1>3. CASE ~o.dirty
  <2>1. v \in S
    BY <1>3
  <2> HIDE DEF S
  <2>2. <<v>> \in Seq(Good) /\ <<v>> # <<>> /\ Last(<<v>>) = v
    BY <1>2, StepLists
  <2>3. Succeeds(<<v>>, S)
    BY <2>1, <2>2 DEF Succeeds
  <2> QED  BY <1>1, <1>3, <2>3 DEF S
<1>4. CASE o.dirty
  <2>1. v \in Unsynced(f, x)
    <3>1. v \in Volumes /\ v.result = "ok"
      BY DEF Done
    <3>2. PICK L \in Lists, N \in Lengths : Sound(v, L, N) /\ (x => Owned(v, L, N))
      BY DEF Done
    <3>3. OpenOk(v, f, o, L[f], N[f]) /\ o.pos <= o.valid
      BY <3>2 DEF Sound, FileOk
    <3>4. Whole(v, f, L, N)
      BY <3>2, <3>3 DEF Whole, Sound, OpenOk
    <3> QED  BY <3>1, <3>2, <3>3, <3>4, Zenon DEF Unsynced
  <2>2. w \in S
    BY <2>1, SyncEnds
  <2> HIDE DEF S, w
  <2>3. <<v, w>> \in Seq(Good) /\ <<v, w>> # <<>> /\ Last(<<v, w>>) = w
    BY <1>2, <2>2 DEF Last
  <2>4. Succeeds(<<v, w>>, S)
    BY <2>2, <2>3 DEF Succeeds
  <2> QED  BY <1>1, <1>4, <2>4 DEF S
<1> QED  BY <1>3, <1>4

\* Between two calls only the object of f changes.
LEMMA SetDone ==
  ASSUME NEW f \in Files, NEW x, NEW v \in Volumes, v.result = "ok",
         NEW L \in Lists, NEW N \in Lengths, Sound(v, L, N), x => Owned(v, L, N),
         NEW p \in Objects,
         IF p.open THEN OpenOk(v, f, p, L[f], N[f]) /\ p.pos <= p.valid
         ELSE p = Closed /\ EntryOk(v, f, L[f], N[f])
  PROVE  Set(v, f, p) \in Done(x)
<1> DEFINE w == Set(v, f, p)
<1>1. /\ w \in Volumes /\ w.used = v.used /\ w.fat = v.fat /\ w.data = v.data
      /\ w.entry = v.entry /\ w.result = v.result
      /\ w.obj[f] = p /\ \A g \in Files \ {f} : w.obj[g] = v.obj[g]
  BY SetIs
<1> HIDE DEF w
<1>2. Apart(w, L, N) /\ System \subseteq w.used /\ (x => Owned(w, L, N))
  BY <1>1 DEF Sound, Apart, Owned
<1>3. \A g \in Files : FileOk(w, g, L[g], N[g])
  <2> TAKE g \in Files
  <2>1. CASE g = f
    <3>1. CASE p.open
      <4>1. OpenOk(w, f, p, L[f], N[f])
        BY <3>1, <1>1 DEF OpenOk, Follows, Right
      <4> QED  BY <2>1, <3>1, <4>1, <1>1 DEF FileOk
    <3>2. CASE ~p.open
      <4>1. EntryOk(w, f, L[f], N[f])
        BY <3>2, <1>1 DEF EntryOk, Follows, Right
      <4> QED  BY <2>1, <3>2, <4>1, <1>1 DEF FileOk
    <3> QED  BY <3>1, <3>2, FieldsOf
  <2>2. CASE g # f
    <3>1. v \in Volumes /\ FileOk(v, g, L[g], N[g]) /\ N[g] \in Nat
      BY DEF Sound, Lengths
    <3>2. \A i \in 0 .. N[g] - 1 : L[g][i] \in Clusters
      BY ItemsIn DEF Sound
    <3>3. w.entry[g] = v.entry[g] /\ w.obj[g] = v.obj[g]
          /\ \A i \in 0 .. N[g] - 1 : w.data[L[g][i]] = v.data[L[g][i]] /\ w.fat[L[g][i]] = v.fat[L[g][i]]
      BY <2>2, <1>1
    <3> QED  BY <1>1, <3>1, <3>2, <3>3, FileKept
  <2> QED  BY <2>1, <2>2
<1>4. Sound(w, L, N)
  BY <1>1, <1>2, <1>3 DEF Sound
<1>5. w \in Volumes /\ w.result = "ok"
  BY <1>1
<1>6. w \in Done(x)
  BY <1>2, <1>4, <1>5, IsDone
<1> QED  BY <1>6 DEF w

\* What a volume between two calls says.
LEMMA DoneIs ==
  ASSUME NEW f \in Files, NEW x, NEW v \in Done(x)
  PROVE  /\ v \in Volumes /\ v.result = "ok" /\ v.obj[f] \in Objects /\ v.entry[f] \in Entries
         /\ \E L \in Lists : \E N \in Lengths :
              Sound(v, L, N) /\ (x => Owned(v, L, N)) /\ FileOk(v, f, L[f], N[f]) /\ N[f] \in Nat
BY VolumeIs DEF Done, Sound, Lengths

\* An object that is closed.
LEMMA ClosedIs ==
  /\ Closed \in Objects /\ ~Closed.open /\ ~Closed.dirty /\ ~Closed.contig /\ Closed.first = 0 /\ Closed.cur = 0
  /\ Closed.pos = 0 /\ Closed.valid = 0 /\ Closed.len = 0
BY DEF Closed, Objects

\* create.
Made == [Closed EXCEPT !.open = TRUE, !.dirty = TRUE]

\* A file created is one that has no clusters, and its entry is on the device.
LEMMA CreateIs ==
  ASSUME NEW f \in Files, NEW x, NEW v \in Done(x), ~v.entry[f].exists, ~v.obj[f].open
  PROVE  Succeeds(<<v>> \o Sync(Set(v, f, Made), f), Done(x))
<1>1. v \in Volumes /\ v.result = "ok" /\ v.entry[f] \in Entries
  BY DoneIs
<1>2. PICK L \in Lists, N \in Lengths :
        Sound(v, L, N) /\ (x => Owned(v, L, N)) /\ FileOk(v, f, L[f], N[f]) /\ N[f] \in Nat
  BY DoneIs
<1> DEFINE e == v.entry[f]
<1>3. Follows(v, e, L[f], N[f]) /\ Right(v, f, e, L[f]) /\ e.first = 0
  BY <1>2 DEF FileOk, EntryOk
<1>4. e.len = 0 /\ N[f] = 0 /\ e.valid \in Nat /\ e.valid <= e.len
  BY <1>1, <1>3 DEF Follows, Right, Entries
<1>5. /\ Made \in Objects /\ Made.open /\ Made.dirty /\ Made.contig = FALSE /\ Made.first = 0 /\ Made.cur = 0
      /\ Made.pos = 0 /\ Made.valid = 0 /\ Made.len = 0
  BY ClosedIs DEF Made, Objects
<1>6. OpenOk(v, f, Made, L[f], N[f])
  <2>1. Follows(v, Made, L[f], N[f])
    BY <1>4, <1>5 DEF Follows
  <2>2. Right(v, f, Made, L[f]) /\ Placed(Made, L[f])
    BY <1>5 DEF Right, Placed
  <2>3. Behind(e, Made, L[f])
    BY <1>3, <1>4, <1>5 DEF Behind
  <2> QED  BY <2>1, <2>2, <2>3 DEF OpenOk
<1> DEFINE w == Set(v, f, Made)
<1>7. w \in Done(x)
  BY <1>1, <1>2, <1>5, <1>6, SetDone
<1>8. w.obj[f].open
  BY <1>1, <1>5, SetIs
<1> HIDE DEF w
<1>9. Succeeds(Sync(w, f), {y \in Done(x) : y.obj[f].open /\ ~y.obj[f].dirty})
  BY <1>7, <1>8, SyncIs
<1> DEFINE s == Sync(w, f)
<1> HIDE DEF s
<1>10. s \in Seq(Good) /\ s # <<>> /\ Last(s) \in Done(x)
  BY <1>9 DEF Succeeds, s
<1> DEFINE q == <<v>>
<1>11. q \in Seq(Good)
  BY AllGood
<1> HIDE DEF q
<1>12. q \o s \in Seq(Good) /\ q \o s # <<>> /\ Last(q \o s) = Last(s)
  BY <1>10, <1>11, StepLists
<1>13. Succeeds(q \o s, Done(x))
  BY <1>10, <1>12 DEF Succeeds
<1> QED  BY <1>13 DEF q, s, w

\* open.
Opened(e) == [Closed EXCEPT !.open = TRUE, !.contig = e.contig, !.first = e.first, !.valid = e.valid, !.len = e.len]

\* A file opened has the clusters its entry says.
LEMMA OpenIs ==
  ASSUME NEW f \in Files, NEW x, NEW v \in Done(x), v.entry[f].exists, ~v.obj[f].open
  PROVE  Set(v, f, Opened(v.entry[f])) \in Done(x)
<1>1. v \in Volumes /\ v.result = "ok" /\ v.entry[f] \in Entries
  BY DoneIs
<1>2. PICK L \in Lists, N \in Lengths :
        Sound(v, L, N) /\ (x => Owned(v, L, N)) /\ FileOk(v, f, L[f], N[f]) /\ N[f] \in Nat
  BY DoneIs
<1> DEFINE e == v.entry[f]
           p == Opened(e)
<1>3. Follows(v, e, L[f], N[f]) /\ Right(v, f, e, L[f])
  BY <1>2 DEF FileOk, EntryOk
<1>4. /\ p \in Objects /\ p.open /\ ~p.dirty /\ p.contig = e.contig /\ p.first = e.first /\ p.cur = 0
      /\ p.pos = 0 /\ p.valid = e.valid /\ p.len = e.len /\ e.valid \in Nat /\ e.len \in Nat
  <2> DEFINE q == Closed
             b == e.contig
             c == e.first
             m == e.valid
             n == e.len
             r == [q EXCEPT !.open = TRUE, !.contig = b, !.first = c, !.valid = m, !.len = n]
  <2>1. b \in BOOLEAN /\ c \in Int /\ m \in Nat /\ n \in Nat
    BY <1>1 DEF Entries
  <2>2. q \in Objects /\ ~q.dirty /\ q.cur = 0 /\ q.pos = 0
    BY ClosedIs
  <2>3. p = r
    BY DEF Opened
  <2> HIDE DEF p, q, b, c, m, n
  <2>4. /\ r \in Objects /\ r.open /\ r.dirty = q.dirty /\ r.contig = b /\ r.first = c /\ r.cur = q.cur
        /\ r.pos = q.pos /\ r.valid = m /\ r.len = n
    BY <2>1, <2>2 DEF Objects
  <2> HIDE DEF r
  <2>5. /\ p \in Objects /\ p.open /\ ~p.dirty /\ p.contig = b /\ p.first = c /\ p.cur = 0
        /\ p.pos = 0 /\ p.valid = m /\ p.len = n
    BY <2>2, <2>3, <2>4
  <2> QED  BY <2>1, <2>5 DEF b, c, m, n
<1> HIDE DEF p
<1>5. OpenOk(v, f, p, L[f], N[f])
  <2>1. Follows(v, p, L[f], N[f])
    BY <1>3, <1>4 DEF Follows
  <2>2. Right(v, f, p, L[f]) /\ Placed(p, L[f])
    BY <1>3, <1>4 DEF Right, Placed
  <2>3. Behind(e, p, L[f])
    <3>1. e.first # 0 => IF e.contig THEN \A i \in 0 .. Count(e.len) - 1 : L[f][i] = e.first + i ELSE ~p.contig
      BY <1>3, <1>4 DEF Follows
    <3> QED  BY <3>1, <1>3, <1>4 DEF Behind, Follows, Right
  <2> QED  BY <2>1, <2>2, <2>3 DEF OpenOk
<1>6. p.pos <= p.valid
  BY <1>4
<1>7. Set(v, f, p) \in Done(x)
  BY <1>1, <1>2, <1>4, <1>5, <1>6, SetDone
<1> QED  BY <1>7 DEF p

\* close.
LEMMA CloseIs ==
  ASSUME NEW f \in Files, NEW x, NEW v \in Done(x), v.obj[f].open
  PROVE  Succeeds(Append(Sync(v, f), Set(Last(Sync(v, f)), f, Closed)), Done(x))
<1> DEFINE s == Sync(v, f)
           w == Last(s)
           o == w.obj[f]
           e == w.entry[f]
<1>1. s \in Seq(Good) /\ s # <<>> /\ w \in Done(x) /\ o.open /\ ~o.dirty
  BY SyncIs DEF Succeeds
<1> HIDE DEF s, w
<1>2. w \in Volumes /\ w.result = "ok" /\ o \in Objects /\ e \in Entries
  BY <1>1, DoneIs
<1>3. PICK L \in Lists, N \in Lengths :
        Sound(w, L, N) /\ (x => Owned(w, L, N)) /\ FileOk(w, f, L[f], N[f]) /\ N[f] \in Nat
  BY <1>1, DoneIs
<1>4. Follows(w, o, L[f], N[f]) /\ Right(w, f, o, L[f]) /\ Behind(e, o, L[f])
  BY <1>1, <1>3 DEF FileOk, OpenOk
<1>5. /\ e.first = o.first /\ e.len = o.len /\ e.valid = o.valid /\ (e.first # 0 => e.contig = o.contig)
      /\ (~e.exists => e.first = 0)
  BY <1>1, <1>4 DEF Behind
<1>6. EntryOk(w, f, L[f], N[f])
  <2>1. Right(w, f, e, L[f])
    BY <1>4, <1>5 DEF Right
  <2>2. Follows(w, e, L[f], N[f])
    <3>1. CASE e.first # 0
      BY <3>1, <1>4, <1>5 DEF Follows
    <3>2. CASE e.first = 0
      <4>1. N[f] = 0 /\ e.len = 0 /\ Count(0) = 0
        BY <3>2, <1>4, <1>5, CountIs DEF Follows
      <4> QED  BY <3>2, <4>1 DEF Follows
    <3> QED  BY <3>1, <3>2
  <2> QED  BY <2>1, <2>2, <1>5, SMTT(30) DEF EntryOk
<1>7. Closed \in Objects /\ ~Closed.open
  BY ClosedIs
<1> DEFINE y == Set(w, f, Closed)
<1>8. y \in Done(x)
  BY <1>2, <1>3, <1>6, <1>7, SetDone
<1> HIDE DEF y
<1>10. y \in Good
  BY <1>8, AllGood
<1>9. Append(s, y) \in Seq(Good) /\ Append(s, y) # <<>> /\ Last(Append(s, y)) = y
  BY <1>1, <1>10, StepLists
<1>11. Succeeds(Append(s, y), Done(x))
  BY <1>8, <1>9 DEF Succeeds
<1> QED  BY <1>11 DEF y, s, w

-----------------------------------------------------------------------------
(* Positions: read and seek.                                               *)

\* An object at another position.
At(o, c, z) == [o EXCEPT !.cur = c, !.pos = z]

\* The fields of an object at another position.
LEMMA AtIs ==
  ASSUME NEW o \in Objects, NEW c \in Int, NEW z \in Nat
  PROVE  LET p == At(o, c, z) IN
         /\ p \in Objects /\ p.open = o.open /\ p.dirty = o.dirty /\ p.contig = o.contig /\ p.first = o.first
         /\ p.cur = c /\ p.pos = z /\ p.valid = o.valid /\ p.len = o.len
BY DEF Objects, At

\* The file is as it was; its current cluster is that of the position.
LEMMA MoveDone ==
  ASSUME NEW f \in Files, NEW x, NEW v \in Done(x), v.obj[f].open,
         NEW L \in Lists, NEW N \in Lengths, Sound(v, L, N), x => Owned(v, L, N),
         NEW z \in Nat, z <= v.obj[f].valid, NEW c \in Int,
         z = 0 => c = 0, z > 0 => c = L[f][(z - 1) \div Units]
  PROVE  Set(v, f, At(v.obj[f], c, z)) \in Done(x)
<1> DEFINE o == v.obj[f]
           p == At(o, c, z)
<1>1. v \in Volumes /\ v.result = "ok" /\ o \in Objects
  BY DoneIs
<1>2. OpenOk(v, f, o, L[f], N[f])
  BY DEF Sound, FileOk
<1>3. /\ p \in Objects /\ p.open = o.open /\ p.dirty = o.dirty /\ p.contig = o.contig /\ p.first = o.first
      /\ p.cur = c /\ p.pos = z /\ p.valid = o.valid /\ p.len = o.len
  <2>1. \A r \in Objects :
          LET s == At(r, c, z) IN
          /\ s \in Objects /\ s.open = r.open /\ s.dirty = r.dirty /\ s.contig = r.contig /\ s.first = r.first
          /\ s.cur = c /\ s.pos = z /\ s.valid = r.valid /\ s.len = r.len
    BY AtIs
  <2> QED  BY ONLY <1>1, <2>1
<1> HIDE DEF p
<1>4. OpenOk(v, f, p, L[f], N[f])
  <2>1. Follows(v, p, L[f], N[f])
    BY <1>2, <1>3, SMTT(30) DEF OpenOk, Follows
  <2>2. Right(v, f, p, L[f])
    BY <1>2, <1>3 DEF OpenOk, Right
  <2>3. Placed(p, L[f])
    <3>1. o.valid <= o.len /\ o.valid \in Nat /\ o.len \in Nat
      BY <1>1, <1>2, FieldsOf DEF OpenOk, Right
    <3>2. p.pos <= p.len
      BY <3>1, <1>3
    <3> QED  BY <3>2, <1>3 DEF Placed
  <2>4. Behind(v.entry[f], p, L[f])
    BY <1>2, <1>3 DEF OpenOk, Behind
  <2> QED  BY <2>1, <2>2, <2>3, <2>4 DEF OpenOk
<1>5. p.open /\ p.pos <= p.valid
  BY <1>3
<1>6. Set(v, f, p) \in Done(x)
  BY <1>1, <1>3, <1>4, <1>5, SetDone
<1> QED  BY <1>6 DEF p

\* The cluster that the next unit is read from.
ReadCluster(v, o) ==
  IF o.pos % Units # 0 THEN o.cur ELSE IF o.pos = 0 THEN o.first
  ELSE IF o.contig THEN o.cur + 1 ELSE v.fat[o.cur]

\* An open file's list, and the cluster of its position.
LEMMA OpenedList ==
  ASSUME NEW f \in Files, NEW x, NEW v \in Done(x), v.obj[f].open,
         NEW L \in Lists, NEW N \in Lengths, Sound(v, L, N)
  PROVE  LET o == v.obj[f]
             n == N[f]
             l == L[f] IN
         /\ v \in Volumes /\ o \in Objects /\ n \in Nat
         /\ Follows(v, o, l, n) /\ Placed(o, l) /\ o.valid <= o.len /\ o.pos <= o.valid
         /\ \A i \in 0 .. n - 1 : l[i] \in Clusters
         /\ \A i, j \in 0 .. n - 1 : l[i] = l[j] => i = j
         /\ \A u \in Nat : u < o.len => u \div Units \in 0 .. n - 1
         /\ o.pos > 0 => (o.pos - 1) \div Units \in 0 .. n - 1 /\ o.cur = l[(o.pos - 1) \div Units]
<1> DEFINE o == v.obj[f]
           n == N[f]
           l == L[f]
<1>1. v \in Volumes /\ o \in Objects /\ n \in Nat /\ o.len \in Nat
  BY DoneIs, FieldsOf DEF Lengths
<1>2. OpenOk(v, f, o, l, n) /\ o.pos <= o.valid
  BY DEF Sound, FileOk
<1>3. Follows(v, o, l, n) /\ Placed(o, l) /\ o.valid <= o.len
  BY <1>2 DEF OpenOk, Right
<1>4. Apart(v, L, N)
  BY DEF Sound
<1>5. \A i \in 0 .. n - 1 : l[i] \in Clusters
  BY <1>1, <1>4, ItemsIn
<1>6. \A i, j \in 0 .. n - 1 : l[i] = l[j] => i = j
  BY <1>4 DEF Apart
<1>7. \A u \in Nat : u < o.len => u \div Units \in 0 .. n - 1
  BY <1>1, <1>3, UnitIn
<1>8. o.pos > 0 => (o.pos - 1) \div Units \in 0 .. n - 1 /\ o.cur = l[(o.pos - 1) \div Units]
  BY <1>1, <1>2, CurIs
<1> QED  BY <1>1, <1>2, <1>3, <1>5, <1>6, <1>7, <1>8

\* read of a unit.
LEMMA ReadIs ==
  ASSUME NEW f \in Files, NEW x, NEW v \in Done(x), v.obj[f].open, v.obj[f].pos < v.obj[f].valid
  PROVE  Set(v, f, At(v.obj[f], ReadCluster(v, v.obj[f]), v.obj[f].pos + 1)) \in Done(x)
<1> DEFINE o == v.obj[f]
           c == ReadCluster(v, o)
           k == o.pos \div Units
<1>1. PICK L \in Lists, N \in Lengths : Sound(v, L, N) /\ (x => Owned(v, L, N))
  BY DoneIs
<1> DEFINE n == N[f]
           l == L[f]
<1>2. /\ v \in Volumes /\ o \in Objects /\ n \in Nat
      /\ Follows(v, o, l, n) /\ Placed(o, l) /\ o.valid <= o.len
      /\ \A i \in 0 .. n - 1 : l[i] \in Clusters
      /\ \A u \in Nat : u < o.len => u \div Units \in 0 .. n - 1
      /\ o.pos > 0 => (o.pos - 1) \div Units \in 0 .. n - 1 /\ o.cur = l[(o.pos - 1) \div Units]
  BY <1>1, OpenedList
<1>3. o.pos \in Nat /\ o.valid \in Nat /\ o.len \in Nat /\ o.first \in Int /\ o.contig \in BOOLEAN
  BY <1>2, FieldsOf
<1>4. k \in 0 .. n - 1 /\ k \in Nat
  BY <1>2, <1>3, UnitAt
<1>5. c = l[k]
  <2>1. CASE o.pos = 0
    <3>1. 0 \div Units = 0 /\ 0 % Units = 0
      <4>1. (Units * 0 + 0) \div Units = 0 /\ (Units * 0 + 0) % Units = 0
        BY UnitsIs, Quotient
      <4> QED  BY <4>1, UnitsIs
    <3>2. l[0] = o.first
      BY <1>2, <1>4 DEF Follows
    <3> QED  BY <2>1, <3>1, <3>2 DEF ReadCluster
  <2>2. CASE o.pos > 0 /\ o.pos % Units # 0
    <3>1. (o.pos - 1) \div Units = k
      BY <2>2, <1>3, Before
    <3> QED  BY <2>2, <3>1, <1>2 DEF ReadCluster
  <2>3. CASE o.pos > 0 /\ o.pos % Units = 0
    <3>1. (o.pos - 1) \div Units = k - 1
      BY <2>3, <1>3, Before
    <3> HIDE DEF k
    <3>2. k - 1 \in 0 .. n - 1 /\ o.cur = l[k - 1] /\ k - 1 + 1 = k /\ n > 0 /\ k - 1 \in 0 .. n - 2
      BY <2>3, <3>1, <1>2, <1>4
    <3>3. CASE o.contig
      <4>1. l[k - 1] = o.first + (k - 1) /\ l[k] = o.first + k
        BY <3>2, <3>3, <1>2, <1>4 DEF Follows
      <4>2. c = o.cur + 1
        BY <2>3, <3>3 DEF ReadCluster
      <4> QED  BY <3>2, <4>1, <4>2, <1>3, <1>4
    <3>4. CASE ~o.contig
      <4>1. v.fat[l[k - 1]] = l[k - 1 + 1]
        BY <3>2, <3>4, <1>2 DEF Follows
      <4>2. c = v.fat[o.cur]
        BY <2>3, <3>4 DEF ReadCluster
      <4> QED  BY <3>2, <4>1, <4>2
    <3> QED  BY <3>3, <3>4, <1>3
  <2> QED  BY <2>1, <2>2, <2>3, <1>3
<1> DEFINE z == o.pos + 1
<1>6. z \in Nat /\ z <= o.valid /\ z > 0 /\ z - 1 = o.pos
  BY <1>3
<1>7. c \in Int
  BY <1>2, <1>4, <1>5, NoCluster
<1>8. c = L[f][(z - 1) \div Units]
  BY <1>5, <1>6
<1> HIDE DEF z, c
<1>9. (z = 0 => c = 0) /\ (z > 0 => c = L[f][(z - 1) \div Units]) /\ z <= v.obj[f].valid
  BY <1>6, <1>8
<1>10. Set(v, f, At(v.obj[f], c, z)) \in Done(x)
  BY <1>1, <1>6, <1>7, <1>9, MoveDone
<1> QED  BY <1>10 DEF z, c

\* The chain from any cluster of a file on is the rest of its list.
LEMMA RestIs ==
  ASSUME NEW v, NEW n \in Nat, NEW l, NEW k \in 0 .. n - 1, Linear(v, l, n)
  PROVE  Chain(v, l[k]) = [i \in 1 .. n - k |-> l[k + i - 1]]
<1> DEFINE m == [i \in Nat |-> l[k + i]]
           q == n - k
<1>1. k \in Nat /\ q \in Nat /\ q > 0
  OBVIOUS
<1>2. \A i \in Nat : m[i] = l[k + i]
  OBVIOUS
<1>3. m[0] = l[k]
  BY <1>1, <1>2
<1> HIDE DEF m
<1>4. \A i \in 0 .. q - 1 : i \in Nat /\ k + i \in 0 .. n - 1
  BY <1>1
<1>5. \A i \in 0 .. q - 1 : m[i] \in Clusters
  BY <1>2, <1>4 DEF Linear
<1>6. \A i, j \in 0 .. q - 1 : m[i] = m[j] => i = j
  <2> TAKE i, j \in 0 .. q - 1
  <2> HAVE m[i] = m[j]
  <2>1. k + i = k + j
    BY <1>2, <1>4 DEF Linear
  <2> QED  BY <2>1, <1>1
<1>7. \A i \in 0 .. q - 2 : v.fat[m[i]] = m[i + 1]
  <2> TAKE i \in 0 .. q - 2
  <2>1. i \in Nat /\ i + 1 \in Nat /\ k + i \in 0 .. n - 2 /\ k + (i + 1) = k + i + 1
    BY <1>1
  <2> QED  BY <2>1, <1>2 DEF Linear
<1>8. v.fat[m[q - 1]] = EOC
  <2>1. q - 1 \in Nat /\ k + (q - 1) = n - 1
    BY <1>1
  <2> QED  BY <2>1, <1>2 DEF Linear
<1>9. Chain(v, m[0]) = [i \in 1 .. q |-> m[i - 1]]
  <2> HIDE DEF q
  <2>1. Linear(v, m, q)
    BY <1>5, <1>6, <1>7, <1>8 DEF Linear
  <2> QED  BY <1>1, <2>1, ChainIs
<1>10. \A i \in 1 .. q : m[i - 1] = l[k + i - 1]
  <2> TAKE i \in 1 .. q
  <2>1. i - 1 \in Nat /\ k + (i - 1) = k + i - 1
    BY <1>1
  <2> QED  BY <2>1, <1>2
<1> QED  BY <1>3, <1>9, <1>10

\* seek.
LEMMA SeekIs ==
  ASSUME NEW f \in Files, NEW x, NEW v \in Done(x), v.obj[f].open, NEW z \in Nat, z <= v.obj[f].valid
  PROVE  Set(v, f, At(v.obj[f], SeekCluster(v, v.obj[f], z), z)) \in Done(x)
<1> DEFINE o == v.obj[f]
           c == SeekCluster(v, o, z)
           a == (z - 1) \div Units
           b == (o.pos - 1) \div Units
<1>1. PICK L \in Lists, N \in Lengths : Sound(v, L, N) /\ (x => Owned(v, L, N))
  BY DoneIs
<1> DEFINE n == N[f]
           l == L[f]
<1>2. /\ v \in Volumes /\ o \in Objects /\ n \in Nat
      /\ Follows(v, o, l, n) /\ Placed(o, l) /\ o.valid <= o.len
      /\ \A i \in 0 .. n - 1 : l[i] \in Clusters
      /\ \A i, j \in 0 .. n - 1 : l[i] = l[j] => i = j
      /\ \A u \in Nat : u < o.len => u \div Units \in 0 .. n - 1
      /\ o.pos > 0 => b \in 0 .. n - 1 /\ o.cur = l[b]
  BY <1>1, OpenedList
<1>3. o.pos \in Nat /\ o.valid \in Nat /\ o.len \in Nat /\ o.first \in Int /\ o.contig \in BOOLEAN
  BY <1>2, FieldsOf
<1>4. z > 0 => a \in 0 .. n - 1
  BY <1>2, <1>3
<1>5. CASE z = 0
  <2>1. c = 0
    BY <1>5 DEF SeekCluster
  <2> HIDE DEF c
  <2>2. (z = 0 => c = 0) /\ (z > 0 => c = L[f][(z - 1) \div Units]) /\ c \in Int
    BY <2>1, <1>5
  <2>3. Set(v, f, At(v.obj[f], c, z)) \in Done(x)
    BY <1>1, <2>2, MoveDone
  <2> QED  BY <2>3 DEF c
<1>6. CASE z > 0
  <2> DEFINE from == SeekFrom(o, z)
             chain == Chain(v, from.c)
  <2>1. c = IF z = o.pos THEN o.cur
            ELSE IF o.contig THEN o.first + a
            ELSE IF from.n < Len(chain) THEN chain[from.n + 1] ELSE 0
    BY <1>6 DEF SeekCluster
  <2>2. c = l[a]
    <3>1. CASE z = o.pos
      BY <3>1, <2>1, <1>2, <1>6
    <3>2. CASE z # o.pos /\ o.contig
      <4>1. l[a] = o.first + a
        BY <3>2, <1>2, <1>4, <1>6 DEF Follows
      <4> QED  BY <3>2, <4>1, <2>1
    <3>3. CASE z # o.pos /\ ~o.contig
      <4> HIDE DEF a, b
      <4>1. \E k \in 0 .. n - 1 : k <= a /\ from.c = l[k] /\ from.n = a - k
        <5>1. from = IF o.pos = 0 \/ a < b THEN [c |-> o.first, n |-> a] ELSE [c |-> o.cur, n |-> a - b]
          BY DEF SeekFrom, a, b
        <5>2. n > 0 /\ l[0] = o.first /\ a \in 0 .. n - 1
          BY <1>2, <1>4, <1>6 DEF Follows
        <5>3. CASE o.pos = 0 \/ a < b
          <6>1. from = [c |-> o.first, n |-> a]
            BY <5>1, <5>3
          <6> HIDE DEF from
          <6>2. from.c = l[0] /\ from.n = a
            BY <5>2, <6>1
          <6>3. 0 \in 0 .. n - 1 /\ 0 <= a /\ a = a - 0
            BY <5>2, <1>2
          <6> QED  BY <6>2, <6>3
        <5>4. CASE ~ (o.pos = 0 \/ a < b)
          <6>1. from = [c |-> o.cur, n |-> a - b]
            BY <5>1, <5>4
          <6> HIDE DEF from
          <6>2. from.c = l[b] /\ from.n = a - b
            BY <5>4, <6>1, <1>2, <1>3
          <6>3. b \in 0 .. n - 1 /\ b <= a
            BY <5>2, <5>4, <1>2, <1>3
          <6> QED  BY <6>2, <6>3
        <5> QED  BY <5>3, <5>4
      <4>2. PICK k \in 0 .. n - 1 : k <= a /\ from.c = l[k] /\ from.n = a - k
        BY <4>1
      <4> HIDE DEF from
      <4>3. v.fat[l[n - 1]] = EOC /\ \A i \in 0 .. n - 2 : v.fat[l[i]] = l[i + 1]
        BY <3>3, <4>2, <1>2 DEF Follows
      <4>4. chain = [i \in 1 .. n - k |-> l[k + i - 1]]
        <5> HIDE DEF n, l
        <5>0. Linear(v, l, n)
          BY <4>3, <1>2 DEF Linear
        <5>1. Chain(v, l[k]) = [i \in 1 .. n - k |-> l[k + i - 1]]
          BY <4>2, <5>0, <1>2, RestIs
        <5> QED  BY <4>2, <5>1
      <4> HIDE DEF chain
      <4>5. n - k \in Nat /\ a - k \in Nat /\ a - k < n - k /\ a - k + 1 \in 1 .. n - k /\ k + (a - k + 1) - 1 = a
        BY <4>2, <1>2, <1>4, <1>6
      <4>6. Len(chain) = n - k /\ chain[a - k + 1] = l[a]
        BY <4>4, <4>5
      <4> QED  BY <2>1, <3>3, <4>2, <4>5, <4>6
    <3> QED  BY <3>1, <3>2, <3>3
  <2> HIDE DEF c
  <2>3. c \in Int
    BY <2>2, <1>2, <1>4, <1>6, NoCluster
  <2>4. (z = 0 => c = 0) /\ (z > 0 => c = L[f][(z - 1) \div Units])
    BY <2>2, <1>6
  <2>5. Set(v, f, At(v.obj[f], c, z)) \in Done(x)
    BY <1>1, <2>3, <2>4, MoveDone
  <2> QED  BY <2>5 DEF c
<1> QED  BY <1>5, <1>6

-----------------------------------------------------------------------------
(* The clusters of one file are others.                                    *)
Mine(l, n) == {l[i] : i \in 0 .. n - 1}
Others(L, N, f) == UNION {Mine(L[g], N[g]) : g \in Files \ {f}}
Once(l, n) == \A i, j \in 0 .. n - 1 : l[i] = l[j] => i = j
Anew(t, f, y) == [t EXCEPT ![f] = y]
OthersOk(v, L, N, f) == \A g \in Files \ {f} : FileOk(v, g, L[g], N[g])
OthersSame(v, w, L, N, f) ==
  /\ \A g \in Files \ {f} : w.entry[g] = v.entry[g] /\ w.obj[g] = v.obj[g]
  /\ \A c \in Others(L, N, f) : w.data[c] = v.data[c] /\ w.fat[c] = v.fat[c]

\* The clusters of a file and those of the others, when each is its own.
LEMMA Parts ==
  ASSUME NEW v \in Volumes, NEW f \in Files, NEW L \in Lists, NEW N \in Lengths, Apart(v, L, N)
  PROVE  /\ L[f] \in [Nat -> Int] /\ N[f] \in Nat
         /\ Mine(L[f], N[f]) \subseteq v.used /\ Mine(L[f], N[f]) \cap System = {}
         /\ Mine(L[f], N[f]) \cap Others(L, N, f) = {}
         /\ Others(L, N, f) \subseteq v.used /\ Others(L, N, f) \cap System = {}
         /\ Once(L[f], N[f]) /\ v.used \subseteq Clusters
         /\ Owned(v, L, N) => v.used \subseteq System \cup Mine(L[f], N[f]) \cup Others(L, N, f)
<1>1. \A g \in Files : \A i \in 0 .. N[g] - 1 : L[g][i] \in v.used \ System
  BY DEF Apart
<1>2. \A g, h \in Files : \A i \in 0 .. N[g] - 1, j \in 0 .. N[h] - 1 : L[g][i] = L[h][j] => g = h /\ i = j
  BY DEF Apart
<1>3. Mine(L[f], N[f]) \subseteq v.used /\ Mine(L[f], N[f]) \cap System = {}
  BY <1>1 DEF Mine
<1>4. Others(L, N, f) \subseteq v.used /\ Others(L, N, f) \cap System = {}
  BY <1>1 DEF Others, Mine
<1>5. Mine(L[f], N[f]) \cap Others(L, N, f) = {}
  BY <1>2 DEF Others, Mine
<1>6. Once(L[f], N[f])
  BY <1>2 DEF Once
<1>7. Owned(v, L, N) => v.used \subseteq System \cup Mine(L[f], N[f]) \cup Others(L, N, f)
  <2> SUFFICES ASSUME Owned(v, L, N), NEW c \in v.used, c \notin System
               PROVE  c \in Mine(L[f], N[f]) \/ c \in Others(L, N, f)
    OBVIOUS
  <2>1. PICK g \in Files : \E i \in 0 .. N[g] - 1 : L[g][i] = c
    BY DEF Owned
  <2>2. c \in Mine(L[g], N[g])
    BY <2>1 DEF Mine
  <2> QED  BY <2>2 DEF Others
<1> QED  BY <1>3, <1>4, <1>5, <1>6, <1>7, VolumeIs DEF Lists, Lengths

\* A file gets other clusters; those of the other files are as they were.
LEMMA Relisted ==
  ASSUME NEW v \in Volumes, NEW f \in Files, NEW L \in Lists, NEW N \in Lengths, Apart(v, L, N),
         OthersOk(v, L, N, f),
         NEW w \in Volumes, NEW l \in [Nat -> Int], NEW n \in Nat,
         Others(L, N, f) \subseteq w.used, Mine(l, n) \subseteq w.used,
         Mine(l, n) \cap System = {}, Mine(l, n) \cap Others(L, N, f) = {}, Once(l, n),
         OthersSame(v, w, L, N, f)
  PROVE  /\ Anew(L, f, l) \in Lists /\ Anew(N, f, n) \in Lengths
         /\ Anew(L, f, l)[f] = l /\ Anew(N, f, n)[f] = n
         /\ Apart(w, Anew(L, f, l), Anew(N, f, n))
         /\ OthersOk(w, Anew(L, f, l), Anew(N, f, n), f)
         /\ w.used \subseteq System \cup Mine(l, n) \cup Others(L, N, f)
              => Owned(w, Anew(L, f, l), Anew(N, f, n))
<1> DEFINE L2 == Anew(L, f, l)
           N2 == Anew(N, f, n)
<1>1. /\ L2 \in Lists /\ N2 \in Lengths /\ L2[f] = l /\ N2[f] = n
      /\ \A g \in Files \ {f} : L2[g] = L[g] /\ N2[g] = N[g]
  BY DEF Anew, Lists, Lengths
<1> HIDE DEF L2, N2
<1>2. \A g \in Files \ {f} : \A i \in 0 .. N[g] - 1 : L[g][i] \in Others(L, N, f)
  BY DEF Others, Mine
<1>3. \A i \in 0 .. n - 1 : l[i] \in Mine(l, n)
  BY DEF Mine
<1>4. Others(L, N, f) \cap System = {}
  BY Parts
<1>5. Apart(w, L2, N2)
  <2>1. \A g \in Files : \A i \in 0 .. N2[g] - 1 : L2[g][i] \in w.used \ System
    <3> TAKE g \in Files
    <3> TAKE i \in 0 .. N2[g] - 1
    <3>1. CASE g = f
      BY <3>1, <1>1, <1>3
    <3>2. CASE g # f
      BY <3>2, <1>1, <1>2, <1>4
    <3> QED  BY <3>1, <3>2
  <2>2. \A g, h \in Files : \A i \in 0 .. N2[g] - 1, j \in 0 .. N2[h] - 1 :
          L2[g][i] = L2[h][j] => g = h /\ i = j
    <3> TAKE g, h \in Files
    <3> TAKE i \in 0 .. N2[g] - 1, j \in 0 .. N2[h] - 1
    <3> HAVE L2[g][i] = L2[h][j]
    <3>1. CASE g = f /\ h = f
      BY <3>1, <1>1 DEF Once
    <3>2. CASE g = f /\ h # f
      BY <3>2, <1>1, <1>2, <1>3
    <3>3. CASE g # f /\ h = f
      BY <3>3, <1>1, <1>2, <1>3
    <3>4. CASE g # f /\ h # f
      BY <3>4, <1>1 DEF Apart
    <3> QED  BY <3>1, <3>2, <3>3, <3>4
  <2> QED  BY <2>1, <2>2 DEF Apart
<1>6. OthersOk(w, L2, N2, f)
  <2> SUFFICES \A g \in Files \ {f} : FileOk(w, g, L2[g], N2[g])
    BY DEF OthersOk
  <2> TAKE g \in Files \ {f}
  <2>1. FileOk(v, g, L[g], N[g]) /\ N[g] \in Nat /\ w.entry[g] = v.entry[g] /\ w.obj[g] = v.obj[g]
    BY DEF Lengths, OthersOk, OthersSame
  <2>2. \A i \in 0 .. N[g] - 1 : L[g][i] \in Clusters
    BY ItemsIn
  <2>3. \A i \in 0 .. N[g] - 1 : w.data[L[g][i]] = v.data[L[g][i]] /\ w.fat[L[g][i]] = v.fat[L[g][i]]
    BY <1>2 DEF OthersSame
  <2>4. FileOk(w, g, L[g], N[g])
    BY <2>1, <2>2, <2>3, FileKept
  <2> QED  BY <2>4, <1>1
<1>7. w.used \subseteq System \cup Mine(l, n) \cup Others(L, N, f) => Owned(w, L2, N2)
  <2> SUFFICES ASSUME NEW c \in w.used, c \in Mine(l, n) \/ c \in Others(L, N, f)
               PROVE  \E g \in Files : \E i \in 0 .. N2[g] - 1 : L2[g][i] = c
    BY DEF Owned
  <2>1. CASE c \in Mine(l, n)
    BY <2>1, <1>1 DEF Mine
  <2>2. CASE c \in Others(L, N, f)
    <3>1. PICK g \in Files \ {f} : c \in Mine(L[g], N[g])
      BY <2>2 DEF Others
    <3>2. PICK i \in 0 .. N[g] - 1 : c = L[g][i]
      BY <3>1 DEF Mine
    <3> QED  BY <3>2, <1>1
  <2> QED  BY <2>1, <2>2
<1> QED  BY <1>1, <1>5, <1>6, <1>7 DEF L2, N2

\* More clusters are marked; what the entries say is still there.
LEMMA MarkedGood ==
  ASSUME NEW v \in Volumes, NEW L \in Lists, NEW N \in Lengths, Sound(v, L, N),
         NEW w \in Volumes, v.used \subseteq w.used, w.fat = v.fat, w.data = v.data, w.entry = v.entry, w.obj = v.obj
  PROVE  w \in Good
<1>1. Apart(w, L, N) /\ System \subseteq w.used
  BY DEF Sound, Apart
<1>2. \A g \in Files : FileOk(w, g, L[g], N[g])
  <2> TAKE g \in Files
  <2>1. \A i \in 0 .. N[g] - 1 : L[g][i] \in Clusters
    BY ItemsIn DEF Sound
  <2> QED  BY <2>1, FileKept DEF Sound, Lengths
<1>3. Sound(w, L, N)
  BY <1>1, <1>2 DEF Sound
<1> QED  BY <1>3, SoundGood

-----------------------------------------------------------------------------
(* preAllocate.                                                            *)
Ahead(c) == [i \in Nat |-> c + i]
Preset(o, n, c) == [o EXCEPT !.len = n, !.first = c, !.dirty = TRUE, !.contig = TRUE]

\* The fields of an object after preAllocate.
LEMMA PresetIs ==
  ASSUME NEW o \in Objects, NEW n \in Nat, NEW c \in Int
  PROVE  LET p == Preset(o, n, c) IN
         /\ p \in Objects /\ p.open = o.open /\ p.dirty /\ p.contig /\ p.first = c
         /\ p.cur = o.cur /\ p.pos = o.pos /\ p.valid = o.valid /\ p.len = n
BY DEF Objects, Preset

\* preAllocate fails with the volume as it was, or leaves a contiguous file.
LEMMA PreAllocateIs ==
  ASSUME NEW f \in Files, NEW x, NEW v \in Done(x), v.obj[f].open, v.obj[f].first = 0, NEW n \in Nat \ {0}
  PROVE  LET s == PreAllocate(v, f, n) IN
         \/ s = <<Without(v, 0)>>
         \/ Succeeds(s, Done(x))
<1> DEFINE o == v.obj[f]
           need == 1 + (n - 1) \div Units
           c == Found(v, 0, need)
           taken == Take(Noted(v, 0, need), c, need)
           p == Preset(o, n, c)
           set == Set(taken, f, p)
           l == Ahead(c)
<1>1. v \in Volumes /\ v.result = "ok" /\ o \in Objects /\ v.entry[f] \in Entries
  BY DoneIs
<1>2. PICK L \in Lists, N \in Lengths :
        Sound(v, L, N) /\ (x => Owned(v, L, N)) /\ FileOk(v, f, L[f], N[f]) /\ N[f] \in Nat
  BY DoneIs
<1>3. need = Count(n) /\ need \in Nat \ {0} /\ Count(n) \in Nat
  <2>1. n \in Nat /\ n > 0
    OBVIOUS
  <2>2. (n - 1) \div Units \in Nat /\ Count(n) = (n - 1) \div Units + 1
    BY <2>1, CountIs
  <2> QED  BY <2>2
<1>4. PreAllocate(v, f, n) = IF ~Finds(v, 0, need) THEN <<Without(v, 0)>> ELSE <<taken, set>> \o Sync(set, f)
  BY DEF PreAllocate, Preset
<1> HIDE DEF need
<1>5. CASE ~Finds(v, 0, need)
  BY <1>4, <1>5
<1>6. CASE Finds(v, 0, need)
  <2> HIDE DEF taken, c
  <2>1. /\ c \in Clusters /\ c .. c + need - 1 \subseteq Clusters \ v.used
        /\ taken \in Volumes /\ taken.used = v.used \cup (c .. c + need - 1) /\ taken.fat = v.fat
        /\ taken.data = v.data
        /\ taken.entry = v.entry /\ taken.obj = v.obj /\ taken.result = v.result
    BY <1>1, <1>3, <1>6, Taken DEF taken, c
  <2>2. taken \in Good
    BY <1>1, <1>2, <2>1, MarkedGood
  <2>3. /\ p \in Objects /\ p.open = o.open /\ p.dirty /\ p.contig /\ p.first = c
        /\ p.cur = o.cur /\ p.pos = o.pos /\ p.valid = o.valid /\ p.len = n
    <3>1. n \in Nat /\ c \in Int
      BY <2>1, NoCluster
    <3>2. \A r \in Objects :
            LET y == Preset(r, n, c) IN
            /\ y \in Objects /\ y.open = r.open /\ y.dirty /\ y.contig /\ y.first = c
            /\ y.cur = r.cur /\ y.pos = r.pos /\ y.valid = r.valid /\ y.len = n
      BY <3>1, PresetIs, ZenonT(30)
    <3> QED  BY ONLY <1>1, <3>2
  <2> HIDE DEF p
  <2>4. /\ set \in Volumes /\ set.used = taken.used /\ set.fat = v.fat /\ set.data = v.data
        /\ set.entry = v.entry /\ set.result = v.result
        /\ set.obj[f] = p /\ \A g \in Files \ {f} : set.obj[g] = v.obj[g]
    BY <2>1, <2>3, SetIs
  <2> HIDE DEF set
  <2>5. l \in [Nat -> Int] /\ \A i \in Nat : l[i] = c + i
    BY <2>1, NoCluster DEF Ahead
  <2> HIDE DEF l
  <2>6. Mine(l, need) = c .. c + need - 1 /\ Once(l, need)
    <3>1. c \in Int /\ need \in Nat
      BY <2>1, <1>3, NoCluster
    <3>2. \A y \in c .. c + need - 1 : y - c \in 0 .. need - 1 /\ l[y - c] = y
      BY <3>1, <2>5
    <3>3. \A i \in 0 .. need - 1 : l[i] \in c .. c + need - 1 /\ l[i] = c + i
      BY <3>1, <2>5
    <3>4. Once(l, need)
      BY <3>1, <3>3 DEF Once
    <3> QED  BY <3>2, <3>3, <3>4 DEF Mine
  <2>7. /\ Apart(v, L, N) /\ System \subseteq v.used /\ OthersOk(v, L, N, f)
    BY <1>2 DEF Sound, OthersOk
  <2>8. /\ Mine(L[f], N[f]) \subseteq v.used /\ Others(L, N, f) \subseteq v.used
        /\ Owned(v, L, N) => v.used \subseteq System \cup Mine(L[f], N[f]) \cup Others(L, N, f)
    BY <1>1, <2>7, Parts
  <2>9. OpenOk(v, f, o, L[f], N[f])
    BY <1>2 DEF FileOk
  <2>10. N[f] = 0 /\ o.len = 0 /\ o.valid = 0 /\ o.pos = 0 /\ o.cur = 0
    <3>1. Follows(v, o, L[f], N[f]) /\ Right(v, f, o, L[f]) /\ Placed(o, L[f])
      BY <2>9 DEF OpenOk
    <3>2. N[f] = 0 /\ o.len = 0
      BY <3>1 DEF Follows
    <3>3. o.valid \in Nat /\ o.pos \in Nat /\ o.valid <= o.len
      BY <1>1, <3>1, FieldsOf DEF Right
    <3> QED  BY <3>1, <3>2, <3>3 DEF Placed
  <2> DEFINE L2 == Anew(L, f, l)
             N2 == Anew(N, f, need)
  <2>11. /\ Others(L, N, f) \subseteq set.used /\ Mine(l, need) \subseteq set.used
         /\ Mine(l, need) \cap System = {} /\ Mine(l, need) \cap Others(L, N, f) = {}
    BY <2>1, <2>4, <2>6, <2>7, <2>8
  <2>12. OthersSame(v, set, L, N, f)
    BY <2>4 DEF OthersSame
  <2>13. /\ L2 \in Lists /\ N2 \in Lengths /\ L2[f] = l /\ N2[f] = need /\ Apart(set, L2, N2)
         /\ OthersOk(set, L2, N2, f)
         /\ set.used \subseteq System \cup Mine(l, need) \cup Others(L, N, f) => Owned(set, L2, N2)
    <3>1. need \in Nat
      BY <1>3
    <3>2. v \in Volumes /\ set \in Volumes /\ L \in Lists /\ N \in Lengths /\ l \in [Nat -> Int] /\ f \in Files
      BY <1>1, <1>2, <2>4, <2>5
    <3>3. Once(l, need)
      BY <2>6
    <3>4. Apart(v, L, N) /\ OthersOk(v, L, N, f)
      BY <2>7
    <3> QED  BY ONLY <3>1, <3>2, <3>3, <3>4, <2>11, <2>12, Relisted
  <2> HIDE DEF L2, N2
  <2>14. x => Owned(set, L2, N2)
    <3>1. Mine(L[f], N[f]) = {}
      BY <2>10 DEF Mine
    <3> QED  BY <3>1, <1>2, <2>1, <2>4, <2>6, <2>8, <2>13
  <2>15. FileOk(set, f, l, need)
    <3>1. c # 0 /\ c \in Int
      BY <2>1, NoCluster
    <3>2. Follows(set, p, l, need)
      <4>1. \A i \in 0 .. need - 1 : l[i] = c + i
        BY <2>5, <1>3
      <4>2. l[0] = c
        BY <2>5, <3>1
      <4> QED  BY <4>1, <4>2, <3>1, <2>3, <1>3 DEF Follows
    <3>3. Right(set, f, p, l) /\ Placed(p, l)
      BY <2>3, <2>10 DEF Right, Placed
    <3>4. Behind(set.entry[f], p, l)
      <4>1. Behind(v.entry[f], o, L[f])
        BY <2>9 DEF OpenOk
      <4>2. v.entry[f].first = 0 /\ v.entry[f].len = 0 /\ v.entry[f].valid = 0
        BY <4>1, <1>1, <2>10 DEF Behind, Entries
      <4> QED  BY <4>1, <4>2, <2>3, <2>4, <2>10 DEF Behind
    <3>5. OpenOk(set, f, p, l, need)
      BY <3>2, <3>3, <3>4 DEF OpenOk
    <3>6. p.open /\ p.pos <= p.valid
      BY <2>3, <2>10
    <3> QED  BY <3>5, <3>6, <2>4 DEF FileOk
  <2>16. Sound(set, L2, N2)
    <3>1. \A g \in Files : FileOk(set, g, L2[g], N2[g])
      BY <2>13, <2>15 DEF OthersOk
    <3>2. System \subseteq set.used
      BY <2>1, <2>4, <2>7
    <3> QED  BY <3>1, <3>2, <2>4, <2>13 DEF Sound
  <2>17. set \in Done(x) /\ set.obj[f].open
    <3>1. set.result = "ok"
      BY <1>1, <2>4
    <3>2. set \in Done(x)
      BY <3>1, <2>4, <2>13, <2>14, <2>16, IsDone
    <3> QED  BY <3>2, <2>3, <2>4
  <2> DEFINE s == Sync(set, f)
             q == <<taken, set>>
  <2>18. s \in Seq(Good) /\ s # <<>> /\ Last(s) \in Done(x)
    BY <2>17, SyncIs DEF Succeeds
  <2>19. q \in Seq(Good)
    <3>1. set \in Good
      BY <2>17, AllGood
    <3> QED  BY <3>1, <2>2
  <2> HIDE DEF s, q
  <2>20. q \o s \in Seq(Good) /\ q \o s # <<>> /\ Last(q \o s) = Last(s)
    BY <2>18, <2>19, StepLists
  <2>21. Succeeds(q \o s, Done(x))
    BY <2>18, <2>20 DEF Succeeds
  <2> QED  BY <2>21, <1>4, <1>6 DEF q, s
<1> QED  BY <1>5, <1>6

-----------------------------------------------------------------------------
(* Clusters are freed.                                                     *)

\* The clusters cs of v are free in w.
Freed(v, w, cs) ==
  /\ w \in Volumes /\ w.used = v.used \ cs /\ w.entry = v.entry /\ w.obj = v.obj /\ w.result = v.result
  /\ \A y \in Clusters \ cs : w.data[y] = v.data[y] /\ w.fat[y] = v.fat[y]

\* A blank cluster holds nothing.
LEMMA BlankIs == Blank \in [0 .. Units - 1 -> Contents]
BY DEF Blank, Contents

\* Clearing bits of the bitmap frees those clusters, and the FAT stays.
LEMMA UnmarkedIs ==
  ASSUME NEW v \in Volumes, NEW cs \in SUBSET Clusters
  PROVE  Freed(v, Unmarked(v, cs), cs) /\ Unmarked(v, cs).fat = v.fat
<1> DEFINE d == Onto(v.data, [c \in cs |-> Blank])
           m == Min({v.start} \cup cs)
           u == v.used \ cs
           w == Unmarked(v, cs)
<1>1. v.used \in SUBSET Clusters /\ v.start \in Clusters /\ v.data \in [Clusters -> [0 .. Units - 1 -> Contents]]
  BY VolumeIs
<1>2. d \in [Clusters -> [0 .. Units - 1 -> Contents]] /\ \A y \in Clusters \ cs : d[y] = v.data[y]
  BY <1>1, BlankIs DEF Onto
<1>3. m \in Clusters
  <2>1. {v.start} \cup cs \subseteq Nat
    BY <1>1, NoCluster
  <2>2. m \in {v.start} \cup cs
    BY <2>1, MinExists
  <2> QED  BY <1>1, <2>2
<1>4. u \in SUBSET Clusters
  BY <1>1
<1>5. w = [v EXCEPT !.used = u, !.data = d, !.start = m]
  BY DEF Unmarked
<1> HIDE DEF d, m, u, w
<1>6. /\ w \in Volumes /\ w.used = u /\ w.data = d /\ w.fat = v.fat /\ w.entry = v.entry /\ w.obj = v.obj
      /\ w.result = v.result
  BY <1>2, <1>3, <1>4, <1>5 DEF Volumes
<1>7. Freed(v, w, cs) /\ w.fat = v.fat
  BY <1>2, <1>6 DEF Freed, u
<1> QED  BY <1>7 DEF w

\* bitmapModify: the bits of a run that is marked are cleared.
LEMMA ClearIs ==
  ASSUME NEW v \in Volumes, NEW c \in Clusters, NEW n \in Nat \ {0}, c .. c + n - 1 \subseteq v.used
  PROVE  Freed(v, Clear(v, c, n), c .. c + n - 1) /\ Clear(v, c, n).fat = v.fat
<1> DEFINE S == {i \in 0 .. LastCluster - 1 : c + i \notin v.used}
           stop == Min(S)
           cs == c .. c + n - 1
           cleared == Unmarked(v, c .. c + Min({n, stop}) - 1)
<1>1. c \in Nat /\ c >= 2 /\ n \in Nat /\ n > 0 /\ LastCluster \in Nat /\ LastCluster < Counts /\ Counts \in Nat
  BY VolumeAssumption DEF Clusters, Counts
<1>2. v.used \subseteq Clusters
  BY VolumeIs
<1>3. c + n - 1 <= LastCluster
  <2>1. c + n - 1 \in Clusters
    BY <1>1, <1>2
  <2> QED  BY <2>1, <1>1 DEF Clusters
<1>4. ~ ((c - 2 + n) % Counts > LastCluster - 1)
  <2> DEFINE y == c - 2 + n
  <2>1. y \in 0 .. Counts - 1 /\ y <= LastCluster - 1
    BY <1>1, <1>3
  <2> HIDE DEF y
  <2>2. (Counts * 0 + y) % Counts = y
    BY <2>1, <1>1, Quotient
  <2>3. Counts * 0 + y = y
    BY <1>1, <2>1
  <2> QED  BY <2>1, <2>2, <2>3, <1>1 DEF y
<1>5. stop \in Nat /\ n <= stop
  <2>1. LastCluster - 1 \in S
    <3>1. c + (LastCluster - 1) \notin Clusters
      BY <1>1 DEF Clusters
    <3> QED  BY <3>1, <1>1, <1>2, VolumeAssumption
  <2>2. S \subseteq Nat
    BY <1>1
  <2>3. stop \in S
    BY <2>1, <2>2, MinExists
  <2>4. \A i \in 0 .. n - 1 : c + i \in v.used
    BY <1>1
  <2>5. stop \in Nat /\ c + stop \notin v.used
    BY <2>2, <2>3
  <2> HIDE DEF stop
  <2> QED  BY <2>4, <2>5, <1>1
<1> HIDE DEF S
<1>6. Min({n, stop}) = n
  BY <1>1, <1>5, MinIs
<1>7. Clear(v, c, n) = Unmarked(v, cs)
  <2>1. n # 0 /\ ~ (stop < n)
    BY <1>1, <1>5
  <2>2. Clear(v, c, n) = IF (c - 2 + n) % Counts > LastCluster - 1 THEN [v EXCEPT !.result = "fails"]
                         ELSE IF stop < n THEN [cleared EXCEPT !.result = "fails"] ELSE cleared
    BY <2>1 DEF Clear, S
  <2> HIDE DEF stop
  <2> QED  BY <1>4, <1>6, <2>1, <2>2
<1>8. cs \in SUBSET Clusters
  BY <1>2
<1> HIDE DEF cs
<1>9. Freed(v, Clear(v, c, n), cs) /\ Clear(v, c, n).fat = v.fat
  BY <1>7, <1>8, UnmarkedIs
<1> QED  BY <1>9 DEF cs

\* freeChain: after the last link, the clusters of the list are free.
LEMMA FreeIs ==
  ASSUME NEW v \in Volumes, NEW n \in Nat, n > 0, NEW l, Linear(v, l, n)
  PROVE  LET s == FreeChain(v, l[0]) IN
         s \in Seq(Volumes) /\ s # <<>> /\ Freed(v, Last(s), Mine(l, n))
<1> DEFINE chain == [i \in 1 .. n |-> l[i - 1]]
           runEnds(j) == {i \in 1 .. j : i = n \/ chain[i + 1] # chain[i] + 1}
           top(j) == Max({0} \cup runEnds(j))
           cleared(j) == {chain[i] : i \in 1 .. top(j)}
           links(j) == {chain[i] : i \in 1 .. j}
           t(j) == Onto(v.fat, [d \in links(j) |-> Free])
           step(j) == Unmarked([v EXCEPT !.fat = t(j)], cleared(j))
           s == FreeChain(v, l[0])
<1>1. Chain(v, l[0]) = chain
  BY ChainIs
<1>2. Len(chain) = n /\ DOMAIN chain = 1 .. n /\ \A i \in 1 .. n : chain[i] = l[i - 1] /\ chain[i] \in Clusters
  BY DEF Linear
<1> HIDE DEF chain
<1>3. s = [j \in 1 .. n |-> step(j)]
  <2>1. s = [j \in DOMAIN chain |->
              Unmarked([v EXCEPT !.fat = Onto(@, [d \in {chain[i] : i \in 1 .. j} |-> Free])],
                       {chain[i] : i \in 1 .. Max({0} \cup
                          {i \in 1 .. j : i = Len(chain) \/ chain[i + 1] # chain[i] + 1})})]
    BY <1>1, Zenon DEF FreeChain
  <2> QED  BY <1>2, <2>1
<1>4. v.fat \in [Clusters -> Int] /\ Free \in Int
  BY VolumeIs DEF Free
<1>5. ASSUME NEW j \in 1 .. n
      PROVE  /\ top(j) \in 0 .. j /\ (j = n => top(j) = n)
             /\ links(j) \in SUBSET Clusters /\ cleared(j) \in SUBSET Clusters
             /\ step(j) \in Volumes
             /\ step(j).used = v.used \ cleared(j) /\ step(j).entry = v.entry /\ step(j).obj = v.obj
             /\ step(j).result = v.result
             /\ \A y \in Clusters \ cleared(j) : step(j).data[y] = v.data[y]
             /\ \A y \in Clusters \ links(j) : step(j).fat[y] = v.fat[y]
  <2> DEFINE T == {0} \cup runEnds(j)
             u == [v EXCEPT !.fat = t(j)]
  <2>1. T \subseteq 0 .. j /\ 0 \in T /\ (j = n => n \in T)
    OBVIOUS
  <2>2. top(j) \in T
    <3> DEFINE D == {j - i : i \in T}
    <3>1. D \subseteq Nat /\ j - 0 \in D
      BY <2>1
    <3> HIDE DEF D, T
    <3>2. Min(D) \in D /\ \A y \in D : Min(D) <= y
      BY <3>1, MinExists
    <3>3. PICK i \in T : Min(D) = j - i
      BY <3>2 DEF D
    <3>4. \A y \in T : y <= i
      <4> TAKE y \in T
      <4>1. j - i <= j - y
        BY <3>2, <3>3 DEF D
      <4>2. i \in Int /\ y \in Int /\ j \in Int
        BY <2>1
      <4> QED  BY <4>1, <4>2
    <3>5. T \subseteq Int
      BY <2>1
    <3>6. Max(T) = i
      BY <3>3, <3>4, <3>5, MaxIs
    <3> QED  BY <3>3, <3>6 DEF T
  <2>3. top(j) \in 0 .. j
    BY <2>1, <2>2
  <2>4. j = n => top(j) = n
    <3> SUFFICES ASSUME j = n PROVE top(n) = n
      OBVIOUS
    <3>1. n \in T /\ T \subseteq Int /\ \A y \in T : y <= n
      BY <2>1
    <3> HIDE DEF T
    <3>2. Max(T) = n
      BY <3>1, MaxIs
    <3> QED  BY <3>2 DEF T
  <2> HIDE DEF T
  <2>5. links(j) \in SUBSET Clusters /\ cleared(j) \in SUBSET Clusters
    <3>1. 1 .. j \subseteq 1 .. n /\ 1 .. top(j) \subseteq 1 .. n
      BY <2>3
    <3> HIDE DEF top
    <3> QED  BY <3>1, <1>2
  <2>6. t(j) \in [Clusters -> Int] /\ \A y \in Clusters \ links(j) : t(j)[y] = v.fat[y]
    <3> HIDE DEF links
    <3> QED  BY <1>4 DEF Onto
  <2>7. /\ u \in Volumes /\ u.used = v.used /\ u.fat = t(j) /\ u.data = v.data /\ u.entry = v.entry
        /\ u.obj = v.obj /\ u.result = v.result
    <3> HIDE DEF t
    <3> QED  BY <2>6, FatIs
  <2> HIDE DEF u, cleared, links, t
  <2>8. Freed(u, Unmarked(u, cleared(j)), cleared(j)) /\ Unmarked(u, cleared(j)).fat = u.fat
    BY <2>5, <2>7, UnmarkedIs
  <2>9. step(j) = Unmarked(u, cleared(j))
    BY DEF u
  <2> HIDE DEF step, top
  <2> QED  BY <2>3, <2>4, <2>5, <2>6, <2>7, <2>8, <2>9 DEF Freed
<1>6. cleared(n) = Mine(l, n) /\ links(n) = Mine(l, n)
  <2>1. n \in 1 .. n
    OBVIOUS
  <2>2. top(n) = n
    BY <1>5, <2>1
  <2> HIDE DEF top
  <2>3. links(n) = Mine(l, n)
    <3>1. \A i \in 1 .. n : i - 1 \in 0 .. n - 1
      OBVIOUS
    <3>2. \A i \in 0 .. n - 1 : i + 1 \in 1 .. n /\ i + 1 - 1 = i
      OBVIOUS
    <3>3. links(n) \subseteq Mine(l, n)
      BY <3>1, <1>2 DEF Mine
    <3>4. Mine(l, n) \subseteq links(n)
      <4> SUFFICES ASSUME NEW i \in 0 .. n - 1 PROVE l[i] \in links(n)
        BY DEF Mine
      <4>1. i + 1 \in 1 .. n /\ chain[i + 1] = l[i]
        BY <3>2, <1>2
      <4> QED  BY <4>1
    <3> QED  BY <3>3, <3>4
  <2> QED  BY <2>2, <2>3
<1> HIDE DEF step, cleared, links, t, top
<1>7. s \in Seq(Volumes) /\ s # <<>> /\ Last(s) = step(n)
  <2>1. n \in 1 .. n
    OBVIOUS
  <2>2. \A j \in 1 .. n : step(j) \in Volumes
    BY <1>5
  <2> HIDE DEF s
  <2> QED  BY <1>3, <2>1, <2>2 DEF Last
<1>8. Freed(v, step(n), Mine(l, n))
  <2>1. n \in 1 .. n
    OBVIOUS
  <2>2. /\ step(n) \in Volumes
        /\ step(n).used = v.used \ cleared(n) /\ step(n).entry = v.entry /\ step(n).obj = v.obj
        /\ step(n).result = v.result
        /\ \A y \in Clusters \ cleared(n) : step(n).data[y] = v.data[y]
        /\ \A y \in Clusters \ links(n) : step(n).fat[y] = v.fat[y]
    BY <1>5, <2>1
  <2> QED  BY <2>2, <1>6 DEF Freed
<1> HIDE DEF s
<1>9. s \in Seq(Volumes) /\ s # <<>> /\ Freed(v, Last(s), Mine(l, n))
  BY <1>7, <1>8
<1> QED  BY <1>9 DEF s

-----------------------------------------------------------------------------
(* truncate and remove.                                                    *)
Onward(l, k) == [i \in Nat |-> l[k + i]]

\* The clusters of the list from k on.
TailOf(l, k, n) == {l[i] : i \in k .. n - 1}

\* Two FATs that agree on them.
FatSame(v, w, l, k, n) == \A i \in k .. n - 1 : w.fat[l[i]] = v.fat[l[i]]

\* The rest of a list whose links the FAT has.
LEMMA RestLinear ==
  ASSUME NEW v, NEW w, NEW n \in Nat, NEW l, Linear(v, l, n), NEW k \in 0 .. n - 1,
         FatSame(v, w, l, k, n)
  PROVE  /\ Linear(w, Onward(l, k), n - k) /\ Onward(l, k)[0] = l[k]
         /\ Mine(Onward(l, k), n - k) = TailOf(l, k, n)
<1> DEFINE m == Onward(l, k)
           q == n - k
<1>1. k \in Nat /\ q \in Nat /\ q > 0
  OBVIOUS
<1>2. \A i \in Nat : m[i] = l[k + i]
  BY DEF Onward
<1> HIDE DEF m
<1>3. m[0] = l[k]
  BY <1>1, <1>2
<1>4. \A i \in 0 .. q - 1 : i \in Nat /\ k + i \in 0 .. n - 1 /\ k + i \in k .. n - 1
  BY <1>1
<1>5. \A i \in 0 .. q - 1 : m[i] \in Clusters
  BY <1>2, <1>4 DEF Linear
<1>6. \A i, j \in 0 .. q - 1 : m[i] = m[j] => i = j
  <2> TAKE i, j \in 0 .. q - 1
  <2> HAVE m[i] = m[j]
  <2>1. k + i = k + j
    BY <1>2, <1>4 DEF Linear
  <2> QED  BY <2>1, <1>1
<1>7. \A i \in 0 .. q - 2 : w.fat[m[i]] = m[i + 1]
  <2> TAKE i \in 0 .. q - 2
  <2>1. i \in Nat /\ i + 1 \in Nat /\ k + i \in 0 .. n - 2 /\ k + (i + 1) = k + i + 1 /\ k + i \in k .. n - 1
    BY <1>1
  <2> QED  BY <2>1, <1>2 DEF Linear, FatSame
<1>8. w.fat[m[q - 1]] = EOC
  <2>1. q - 1 \in Nat /\ k + (q - 1) = n - 1 /\ n - 1 \in k .. n - 1
    BY <1>1
  <2> QED  BY <2>1, <1>2 DEF Linear, FatSame
<1>9. Mine(m, q) = TailOf(l, k, n)
  <2>1. \A i \in k .. n - 1 : i - k \in 0 .. q - 1 /\ i - k \in Nat /\ k + (i - k) = i
    BY <1>1
  <2>2. \A i \in k .. n - 1 : l[i] = m[i - k]
    BY <2>1, <1>2
  <2>3. \A i \in 0 .. q - 1 : m[i] = l[k + i]
    BY <1>2, <1>4
  <2>4. Mine(m, q) \subseteq TailOf(l, k, n)
    BY <2>3, <1>4 DEF Mine, TailOf
  <2>5. TailOf(l, k, n) \subseteq Mine(m, q)
    BY <2>1, <2>2 DEF Mine, TailOf
  <2> QED  BY <2>4, <2>5
<1>10. Linear(w, m, q)
  BY <1>5, <1>6, <1>7, <1>8 DEF Linear
<1> QED  BY <1>3, <1>9, <1>10 DEF m, q

\* The count that remove and truncate compute is that of the list.
LEMMA ClustersInIs ==
  ASSUME NEW len \in Nat, len > 0, Count(len) < Counts
  PROVE  ClustersIn(len) = Count(len)
<1> DEFINE m == (len - 1) \div Units
<1>1. m \in Nat /\ Count(len) = m + 1
  BY CountIs
<1>2. ClustersIn(len) = (1 + m) % Counts
  BY DEF ClustersIn
<1> HIDE DEF m
<1>3. Counts \in Int /\ Counts > 0 /\ 1 + m \in 0 .. Counts - 1
  <2>1. Counts \in Int /\ Counts > 0
    BY DEF Counts
  <2>2. m + 1 < Counts
    BY <1>1
  <2> QED  BY ONLY <2>1, <2>2, <1>1
<1> DEFINE y == 1 + m
<1> HIDE DEF y
<1>4. (Counts * 0 + y) % Counts = y
  BY <1>3, Quotient DEF y
<1>5. Counts * 0 + y = y
  BY <1>1, <1>3 DEF y
<1> QED  BY <1>1, <1>2, <1>4, <1>5 DEF y

\* What of a file a removal and a truncation go by: its list, and how it is linked.
LEMMA FileList ==
  ASSUME NEW f \in Files, NEW x, NEW v \in Done(x), v.obj[f].open, v.obj[f].first # 0,
         NEW L \in Lists, NEW N \in Lengths, Sound(v, L, N)
  PROVE  LET o == v.obj[f]
             n == N[f]
             l == L[f] IN
         /\ v \in Volumes /\ o \in Objects /\ n \in Nat /\ n > 0 /\ n < Counts /\ l[0] = o.first
         /\ \A i \in 0 .. n - 1 : l[i] \in Clusters /\ l[i] \in v.used
         /\ Once(l, n) /\ l \in [Nat -> Int]
         /\ o.contig => ClustersIn(o.len) = n /\ \A i \in 0 .. n - 1 : l[i] = o.first + i
         /\ ~o.contig => Linear(v, l, n)
         /\ OpenOk(v, f, o, l, n) /\ o.pos <= o.valid /\ o.valid <= o.len
<1> DEFINE o == v.obj[f]
           n == N[f]
           l == L[f]
<1>1. /\ v \in Volumes /\ o \in Objects /\ n \in Nat
      /\ Follows(v, o, l, n) /\ Placed(o, l) /\ o.valid <= o.len /\ o.pos <= o.valid
      /\ \A i \in 0 .. n - 1 : l[i] \in Clusters
      /\ \A i, j \in 0 .. n - 1 : l[i] = l[j] => i = j
  BY OpenedList
<1>2. OpenOk(v, f, o, l, n)
  BY DEF Sound, FileOk
<1>3. Apart(v, L, N)
  BY DEF Sound
<1>4. \A i \in 0 .. n - 1 : l[i] \in v.used
  BY <1>1, <1>3, ItemsIn
<1>5. l \in [Nat -> Int]
  BY DEF Lists
<1> HIDE DEF n, l
<1>6. n > 0 /\ l[0] = o.first /\ o.len # 0
  BY <1>1 DEF Follows
<1>7. n < LastCluster
  BY <1>1, ListBound
<1>8. n < Counts
  BY <1>1, <1>7, VolumeAssumption DEF Counts
<1>9. o.contig => ClustersIn(o.len) = n /\ \A i \in 0 .. n - 1 : l[i] = o.first + i
  <2> SUFFICES ASSUME o.contig PROVE ClustersIn(o.len) = n /\ \A i \in 0 .. n - 1 : l[i] = o.first + i
    OBVIOUS
  <2>1. n = Count(o.len) /\ \A i \in 0 .. n - 1 : l[i] = o.first + i
    BY <1>1 DEF Follows
  <2>2. o.len \in Nat /\ o.len > 0
    BY <1>1, <1>6, FieldsOf
  <2>3. ClustersIn(o.len) = Count(o.len)
    BY <1>8, <2>1, <2>2, ClustersInIs
  <2> QED  BY <2>1, <2>3
<1>10. ~o.contig => Linear(v, l, n)
  BY <1>1, <1>6 DEF Follows, Linear
<1>11. Once(l, n)
  BY <1>1 DEF Once
<1> QED  BY <1>1, <1>2, <1>4, <1>5, <1>6, <1>8, <1>9, <1>10, <1>11 DEF n, l

\* An object with another first cluster.
Begun(o, c) == [o EXCEPT !.first = c]

\* The fields of such an object.
LEMMA BegunIs ==
  ASSUME NEW o \in Objects, NEW c \in Int
  PROVE  LET p == Begun(o, c) IN
         /\ p \in Objects /\ p.open = o.open /\ p.dirty = o.dirty /\ p.contig = o.contig /\ p.first = c
         /\ p.cur = o.cur /\ p.pos = o.pos /\ p.valid = o.valid /\ p.len = o.len
BY DEF Objects, Begun
\* The same object, which has no clusters when the position is 0.
Shrunk(o) == IF o.cur = 0 THEN Begun(o, 0) ELSE o

\* The clusters a truncation keeps.
Kept(o) == Count(o.pos)

\* They are the first of the file, and the current cluster is the last of them.
LEMMA KeptIs ==
  ASSUME NEW v \in Volumes, NEW f \in Files, NEW o \in Objects, NEW l, NEW n \in Nat, OpenOk(v, f, o, l, n), n > 0,
         \A i \in 0 .. n - 1 : l[i] \in Clusters
  PROVE  /\ Kept(o) \in 0 .. n /\ (Kept(o) = 0 <=> o.cur = 0) /\ (Kept(o) = 0 <=> o.pos = 0)
         /\ Kept(o) > 0 => o.cur = l[Kept(o) - 1]
<1> DEFINE k == Kept(o)
<1>1. o.pos \in Nat
  BY FieldsOf
<1>2. CASE o.pos = 0
  <2>1. k = 0
    BY <1>2, CountIs DEF Kept
  <2>2. o.cur = 0
    BY <1>2 DEF OpenOk, Placed
  <2> HIDE DEF k
  <2>3. k \in 0 .. n /\ (k = 0 <=> o.cur = 0) /\ (k = 0 <=> o.pos = 0) /\ (k > 0 => o.cur = l[k - 1])
    BY <1>2, <2>1, <2>2
  <2> QED  BY <2>3 DEF k
<1>3. CASE o.pos > 0
  <2> DEFINE a == (o.pos - 1) \div Units
  <2>1. a \in Nat /\ k = a + 1
    BY <1>1, <1>3, CountIs DEF Kept
  <2>2. a \in 0 .. n - 1 /\ o.cur = l[a]
    BY <1>3, CurIs
  <2> HIDE DEF k, a
  <2>3. k \in 1 .. n /\ k - 1 = a
    BY <2>1, <2>2
  <2>4. o.cur # 0
    BY <2>2, NoCluster
  <2>5. k \in 0 .. n /\ (k = 0 <=> o.cur = 0) /\ (k = 0 <=> o.pos = 0) /\ (k > 0 => o.cur = l[k - 1])
    BY <1>3, <2>2, <2>3, <2>4
  <2> QED  BY <2>5 DEF k
<1> QED  BY <1>1, <1>2, <1>3

\* What a truncation leaves of the bitmap, of the FAT and of the object: k of n clusters l.
CutTo(v, w, f, l, k, n) ==
  /\ w \in Volumes /\ w.result = "ok" /\ w.used = v.used \ TailOf(l, k, n) /\ w.entry = v.entry
  /\ w.obj[f] = Shrunk(v.obj[f]) /\ \A g \in Files \ {f} : w.obj[g] = v.obj[g]
  /\ \A y \in Clusters \ TailOf(l, k, n) : w.data[y] = v.data[y] /\ (y # v.obj[f].cur => w.fat[y] = v.fat[y])
  /\ ~v.obj[f].contig /\ k > 0 => w.fat[l[k - 1]] = EOC

\* Steps that end so.
CutSteps(s, v, f, l, k, n) == s \in Seq(Volumes) /\ s # <<>> /\ CutTo(v, Last(s), f, l, k, n)

\* The steps of a truncation up to the length.
LEMMA CutIs ==
  ASSUME NEW f \in Files, NEW x, NEW v \in Done(x), v.obj[f].open, v.obj[f].first # 0,
         NEW L \in Lists, NEW N \in Lengths, Sound(v, L, N)
  PROVE  CutSteps(Cut(v, f), v, f, L[f], Kept(v.obj[f]), N[f])
<1> DEFINE o == v.obj[f]
           n == N[f]
           l == L[f]
           k == Kept(o)
           R == TailOf(l, k, n)
<1>1. /\ v \in Volumes /\ o \in Objects /\ n \in Nat /\ n > 0 /\ n < Counts /\ l[0] = o.first
      /\ \A i \in 0 .. n - 1 : l[i] \in Clusters /\ l[i] \in v.used
      /\ Once(l, n) /\ l \in [Nat -> Int]
      /\ o.contig => ClustersIn(o.len) = n /\ \A i \in 0 .. n - 1 : l[i] = o.first + i
      /\ ~o.contig => Linear(v, l, n)
      /\ OpenOk(v, f, o, l, n)
  BY FileList
<1>2. v.result = "ok"
  BY DoneIs
<1> HIDE DEF n, l
<1>3. /\ k \in 0 .. n /\ (k = 0 <=> o.cur = 0) /\ (k > 0 => o.cur = l[k - 1])
  BY <1>1, KeptIs
<1> HIDE DEF k, R
<1>4. o.first \in Int /\ o.cur \in Int /\ o.contig \in BOOLEAN /\ Counts \in Int /\ Counts > 0
  BY <1>1, FieldsOf DEF Counts
<1>5. k \in Nat /\ n - k \in Nat /\ n - k \in Int
  BY <1>1, <1>3
<1> DEFINE empty == IF o.cur = 0 THEN [v EXCEPT !.obj[f].first = 0] ELSE v
           from == CutAfterPosition(o)
           d == (ClustersIn(o.len) - (from - o.first)) % Counts
           next == IF o.cur = 0 THEN o.first ELSE v.fat[o.cur]
           ended == IF o.cur = 0 THEN empty ELSE FatPut(v, o.cur, EOC)
<1>6. Cut(v, f) = IF o.contig THEN <<IF d = 0 THEN empty ELSE Clear(empty, from, d)>>
                  ELSE IF next = EOC THEN <<v>> ELSE <<ended>> \o FreeChain(ended, next)
  BY DEF Cut
<1>7. /\ empty \in Volumes /\ empty.used = v.used /\ empty.fat = v.fat /\ empty.data = v.data
      /\ empty.entry = v.entry /\ empty.result = v.result
      /\ empty.obj[f] = Shrunk(o) /\ \A g \in Files \ {f} : empty.obj[g] = v.obj[g]
  <2>1. CASE o.cur = 0
    <3>1. empty = Set(v, f, Begun(o, 0))
      BY <2>1 DEF Set, Begun
    <3>2. Begun(o, 0) \in Objects /\ Shrunk(o) = Begun(o, 0)
      BY <1>1, <2>1, BegunIs DEF Shrunk
    <3> HIDE DEF empty
    <3> QED  BY <3>1, <3>2, <1>1, SetIs
  <2>2. CASE o.cur # 0
    BY <2>2, <1>1 DEF Shrunk
  <2> QED  BY <2>1, <2>2
<1> HIDE DEF empty
<1>8. \A y \in R : \E i \in k .. n - 1 : y = l[i]
  BY DEF R, TailOf
<1>9. \A i \in k .. n - 1 : i \in 0 .. n - 1 /\ l[i] \in Clusters /\ l[i] \in v.used
  BY <1>1, <1>3
<1>10. o.cur \notin R
  <2> SUFFICES ASSUME NEW i \in k .. n - 1, o.cur = l[i] PROVE FALSE
    BY <1>8
  <2>1. i \in 0 .. n - 1 /\ l[i] # 0
    BY <1>9, NoCluster
  <2>2. k > 0 /\ o.cur = l[k - 1] /\ k - 1 \in 0 .. n - 1 /\ i # k - 1
    BY <2>1, <1>1, <1>3, <1>5
  <2> QED  BY <2>1, <2>2, <1>1 DEF Once
<1> DEFINE P(w) == CutTo(v, w, f, l, k, n)
<1>11. ASSUME NEW w \in Volumes, w.result = "ok", w.used = v.used \ R, w.entry = v.entry,
              w.obj[f] = Shrunk(o), \A g \in Files \ {f} : w.obj[g] = v.obj[g],
              \A y \in Clusters \ R : w.data[y] = v.data[y] /\ (y # o.cur => w.fat[y] = v.fat[y]),
              ~o.contig /\ k > 0 => w.fat[l[k - 1]] = EOC
       PROVE  P(w)
  BY <1>11 DEF CutTo, R
<1> HIDE DEF P
<1>12. CASE o.contig
  <2>1. ClustersIn(o.len) = n /\ \A i \in 0 .. n - 1 : l[i] = o.first + i
    BY <1>1, <1>12
  <2>2. from = o.first + k
    <3>1. CASE o.cur = 0
      BY <3>1, <1>3, <1>4 DEF CutAfterPosition
    <3>2. CASE o.cur # 0
      <4>1. k > 0 /\ k - 1 \in 0 .. n - 1 /\ o.cur = l[k - 1]
        BY <3>2, <1>1, <1>3, <1>5
      <4>2. o.cur = o.first + (k - 1)
        BY <4>1, <2>1
      <4> QED  BY <3>2, <4>2, <1>4, <1>5 DEF CutAfterPosition
    <3> QED  BY <3>1, <3>2
  <2>3. d = n - k
    <3> DEFINE y == n - k
    <3>1. d = y % Counts
      BY <2>1, <2>2, <1>1, <1>4, <1>5
    <3>2. y \in 0 .. Counts - 1
      BY <1>1, <1>3, <1>4, <1>5
    <3> HIDE DEF y, d
    <3>3. (Counts * 0 + y) % Counts = y
      BY <3>2, <1>4, Quotient
    <3>4. Counts * 0 + y = y
      BY <3>2, <1>4
    <3> QED  BY <3>1, <3>3, <3>4 DEF y
  <2> HIDE DEF d, from
  <2>4. R = from .. from + d - 1
    <3>1. \A i \in k .. n - 1 : l[i] = o.first + i
      BY <1>9, <2>1
    <3>2. \A y \in from .. from + d - 1 : y - o.first \in k .. n - 1 /\ y = o.first + (y - o.first)
      BY <2>2, <2>3, <1>1, <1>4, <1>5
    <3>3. \A i \in k .. n - 1 : o.first + i \in from .. from + d - 1
      BY <2>2, <2>3, <1>1, <1>4, <1>5
    <3>4. R \subseteq from .. from + d - 1
      BY <3>1, <3>3, <1>8
    <3>5. from .. from + d - 1 \subseteq R
      <4> SUFFICES ASSUME NEW y \in from .. from + d - 1 PROVE y \in R
        OBVIOUS
      <4>1. y - o.first \in k .. n - 1 /\ y = l[y - o.first]
        BY <3>1, <3>2
      <4> QED  BY <4>1 DEF R, TailOf
    <3> QED  BY <3>4, <3>5
  <2> DEFINE w == IF d = 0 THEN empty ELSE Clear(empty, from, d)
  <2>5. Freed(empty, w, R) /\ w.fat = empty.fat
    <3>1. CASE d = 0
      <4>1. R = {}
        BY <3>1, <2>4, <2>2, <1>4, <1>5
      <4> QED  BY <3>1, <4>1, <1>7 DEF Freed
    <3>2. CASE d # 0
      <4>1. d \in Nat \ {0}
        BY <3>2, <2>3, <1>5
      <4>2. from \in R
        BY <4>1, <2>2, <2>4, <1>4, <1>5
      <4>3. from \in Clusters
        BY <4>2, <1>8, <1>9
      <4>4. from .. from + d - 1 \subseteq empty.used
        BY <2>4, <1>7, <1>8, <1>9
      <4>5. Freed(empty, Clear(empty, from, d), from .. from + d - 1) /\ Clear(empty, from, d).fat = empty.fat
        BY <4>1, <4>3, <4>4, <1>7, ClearIs
      <4> QED  BY <3>2, <4>5, <2>4
    <3> QED  BY <3>1, <3>2
  <2>6. Cut(v, f) = <<w>>
    BY <1>6, <1>12
  <2> HIDE DEF w
  <2>7. /\ w \in Volumes /\ w.result = "ok" /\ w.used = v.used \ R /\ w.entry = v.entry
        /\ w.obj[f] = Shrunk(o) /\ (\A g \in Files \ {f} : w.obj[g] = v.obj[g])
        /\ \A y \in Clusters \ R : w.data[y] = v.data[y] /\ w.fat[y] = v.fat[y]
    BY <2>5, <1>2, <1>7 DEF Freed
  <2>8. P(w)
    BY <2>7, <1>11, <1>12
  <2>9. <<w>> \in Seq(Volumes) /\ <<w>> # <<>> /\ Last(<<w>>) = w
    BY <2>7, StepLists
  <2> QED  BY <2>6, <2>8, <2>9 DEF CutSteps, P, n, l, k
<1>13. CASE ~o.contig
  <2>1. Linear(v, l, n)
    BY <1>1, <1>13
  <2>2. /\ v.fat[l[n - 1]] = EOC /\ \A i \in 0 .. n - 2 : v.fat[l[i]] = l[i + 1]
    BY <2>1 DEF Linear
  <2>3. next = IF k = n THEN EOC ELSE l[k]
    <3>1. CASE k = 0
      BY <3>1, <1>1, <1>3
    <3>2. CASE k > 0 /\ k = n
      BY <3>2, <2>2, <1>3, NoCluster
    <3>3. CASE k > 0 /\ k # n
      <4>1. k - 1 \in 0 .. n - 2 /\ k - 1 + 1 = k /\ o.cur = l[k - 1] /\ o.cur # 0
        BY <3>3, <1>1, <1>3
      <4>2. v.fat[l[k - 1]] = l[k - 1 + 1]
        BY <4>1, <2>2
      <4> QED  BY <3>3, <4>1, <4>2
    <3> QED  BY <3>1, <3>2, <3>3, <1>5
  <2> HIDE DEF next
  <2>4. CASE k = n
    <3>1. Cut(v, f) = <<v>>
      BY <1>6, <1>13, <2>3, <2>4
    <3>2. R = {}
      BY <2>4, <1>1 DEF R, TailOf
    <3>3. k > 0 /\ o.cur # 0 /\ Shrunk(o) = o
      BY <2>4, <1>1, <1>3 DEF Shrunk
    <3>4. v.fat[l[k - 1]] = EOC
      BY <2>2, <2>4
    <3>5. P(v)
      BY <3>2, <3>3, <3>4, <1>1, <1>2, <1>11
    <3>6. <<v>> \in Seq(Volumes) /\ <<v>> # <<>> /\ Last(<<v>>) = v
      BY <1>1, StepLists
    <3> QED  BY <3>1, <3>5, <3>6 DEF CutSteps, P, n, l, k
  <2>5. CASE k # n
    <3>1. k \in 0 .. n - 1 /\ l[k] \in Clusters
      BY <2>5, <1>1, <1>3
    <3>2. Cut(v, f) = <<ended>> \o FreeChain(ended, l[k])
      <4>1. next = l[k] /\ next # EOC
        BY <2>3, <2>5, <3>1, NoCluster
      <4> QED  BY <4>1, <1>6, <1>13
    <3>3. /\ ended \in Volumes /\ ended.used = v.used /\ ended.data = v.data /\ ended.entry = v.entry
          /\ ended.result = v.result /\ ended.obj[f] = Shrunk(o)
          /\ (\A g \in Files \ {f} : ended.obj[g] = v.obj[g])
          /\ (\A y \in Clusters : y # o.cur => ended.fat[y] = v.fat[y])
          /\ (k > 0 => ended.fat[l[k - 1]] = EOC)
      <4>1. CASE o.cur = 0
        BY <4>1, <1>3, <1>7
      <4>2. CASE o.cur # 0
        <5>1. k > 0 /\ k - 1 \in 0 .. n - 1 /\ o.cur = l[k - 1] /\ o.cur \in Clusters
          BY <4>2, <1>1, <1>3, <1>5
        <5>2. EOC \in Int
          BY DEF EOC
        <5>3. ended = FatPut(v, o.cur, EOC)
          BY <4>2
        <5>4. empty = v
          BY <4>2 DEF empty
        <5> HIDE DEF ended
        <5>5. /\ ended \in Volumes /\ ended.used = v.used /\ ended.data = v.data /\ ended.entry = v.entry
              /\ ended.result = v.result /\ ended.obj = v.obj
              /\ ended.fat[o.cur] = EOC /\ \A y \in Clusters : y # o.cur => ended.fat[y] = v.fat[y]
          <6> DEFINE c == o.cur
          <6>1. c \in Clusters /\ v \in Volumes /\ ended = FatPut(v, c, EOC)
            BY <5>1, <5>3, <1>1
          <6> HIDE DEF c
          <6>2. LET w == FatPut(v, c, EOC) IN
                /\ w \in Volumes /\ w.used = v.used /\ w.data = v.data /\ w.entry = v.entry
                /\ w.result = v.result /\ w.obj = v.obj
                /\ w.fat[c] = EOC /\ \A y \in Clusters : y # c => w.fat[y] = v.fat[y]
            BY ONLY <6>1, <5>2, FatPutIs
          <6> QED  BY ONLY <6>1, <6>2 DEF c
        <5> QED  BY <5>1, <5>4, <5>5, <1>7
      <4> QED  BY <4>1, <4>2
    <3> HIDE DEF ended
    <3>4. FatSame(v, ended, l, k, n)
      <4> SUFFICES \A i \in k .. n - 1 : ended.fat[l[i]] = v.fat[l[i]]
        BY DEF FatSame
      <4> TAKE i \in k .. n - 1
      <4>1. l[i] \in R /\ l[i] \in Clusters
        BY <1>9 DEF R, TailOf
      <4> QED  BY <4>1, <3>3, <1>10
    <3> DEFINE m == Onward(l, k)
               q == n - k
    <3>5. Linear(ended, m, q) /\ m[0] = l[k] /\ Mine(m, q) = R
      BY <1>1, <2>1, <3>1, <3>4, RestLinear DEF R
    <3>6. q \in Nat /\ q > 0
      BY <2>5, <1>1, <1>3, <1>5
    <3> DEFINE s == FreeChain(ended, l[k])
    <3> HIDE DEF m, q
    <3>7. s \in Seq(Volumes) /\ s # <<>> /\ Freed(ended, Last(s), R)
      <4>1. FreeChain(ended, m[0]) \in Seq(Volumes) /\ FreeChain(ended, m[0]) # <<>>
            /\ Freed(ended, Last(FreeChain(ended, m[0])), Mine(m, q))
        BY <3>3, <3>5, <3>6, FreeIs
      <4> QED  BY <4>1, <3>5
    <3> DEFINE w == Last(s)
    <3> HIDE DEF s
    <3>8. /\ w \in Volumes /\ w.used = v.used \ R /\ w.entry = v.entry /\ w.result = "ok" /\ w.obj = ended.obj
          /\ \A y \in Clusters \ R : w.data[y] = v.data[y] /\ w.fat[y] = ended.fat[y]
      BY <3>3, <3>7, <1>2 DEF Freed
    <3> HIDE DEF w
    <3>9. k > 0 => w.fat[l[k - 1]] = EOC
      <4> SUFFICES ASSUME k > 0 PROVE w.fat[l[k - 1]] = EOC
        OBVIOUS
      <4>1. k - 1 \in 0 .. n - 1 /\ l[k - 1] \in Clusters /\ l[k - 1] = o.cur
        BY <1>1, <1>3, <1>5
      <4> QED  BY <4>1, <3>3, <3>8, <1>10
    <3>10. P(w)
      <4>1. w.obj[f] = Shrunk(o) /\ \A g \in Files \ {f} : w.obj[g] = v.obj[g]
        BY <3>3, <3>8
      <4>2. \A y \in Clusters \ R : w.data[y] = v.data[y] /\ (y # o.cur => w.fat[y] = v.fat[y])
        BY <3>3, <3>8
      <4> QED  BY <4>1, <4>2, <3>8, <3>9, <1>11
    <3> DEFINE p == <<ended>>
    <3>11. p \in Seq(Volumes)
      BY <3>3
    <3> HIDE DEF p
    <3>12. p \o s \in Seq(Volumes) /\ p \o s # <<>> /\ Last(p \o s) = w
      BY <3>7, <3>11, StepLists DEF w
    <3>13. Cut(v, f) = p \o s
      BY <3>2 DEF p, s
    <3> QED  BY <3>10, <3>12, <3>13 DEF CutSteps, P, n, l, k
  <2> QED  BY <2>4, <2>5
<1> QED  BY <1>4, <1>12, <1>13

\* Steps of a call that frees clusters; it does not fail.
Finishes(s, S) == s \in Seq(Volumes) /\ s # <<>> /\ Last(s) \in S

\* The object after a truncation.
Short(o) == [o EXCEPT !.len = o.pos, !.valid = o.pos, !.dirty = TRUE]

\* The fields of an object after a truncation.
LEMMA ShortIs ==
  ASSUME NEW o \in Objects
  PROVE  /\ Short(o) \in Objects /\ Short(o).open = o.open /\ Short(o).dirty /\ Short(o).contig = o.contig
         /\ Short(o).first = o.first /\ Short(o).cur = o.cur /\ Short(o).pos = o.pos
         /\ Short(o).valid = o.pos /\ Short(o).len = o.pos
BY DEF Objects, Short

\* A list is no longer than it was.
LEMMA KeepsOwn ==
  ASSUME NEW l, NEW n \in Nat, NEW k \in 0 .. n, Once(l, n)
  PROVE  /\ Mine(l, k) \subseteq Mine(l, n) /\ TailOf(l, k, n) \subseteq Mine(l, n)
         /\ Mine(l, k) \cap TailOf(l, k, n) = {} /\ Mine(l, n) \subseteq Mine(l, k) \cup TailOf(l, k, n)
         /\ Once(l, k)
<1>1. \A i \in 0 .. k - 1 : i \in 0 .. n - 1 /\ i \notin k .. n - 1
  OBVIOUS
<1>2. \A i \in k .. n - 1 : i \in 0 .. n - 1
  OBVIOUS
<1>3. \A i \in 0 .. n - 1 : i \in 0 .. k - 1 \/ i \in k .. n - 1
  OBVIOUS
<1>4. \A i, j \in 0 .. n - 1 : l[i] = l[j] => i = j
  BY DEF Once
<1>5. Once(l, k)
  BY <1>1, <1>4 DEF Once
<1> QED  BY ONLY <1>1, <1>2, <1>3, <1>4, <1>5 DEF Mine, TailOf

\* truncate.
LEMMA TruncateIs ==
  ASSUME NEW f \in Files, NEW x, NEW v \in Done(x), v.obj[f].open
  PROVE  Finishes(Truncate(v, f), Done(x))
<1> DEFINE o == v.obj[f]
           cut == Cut(v, f)
           w == Last(cut)
           short == Set(w, f, Short(w.obj[f]))
<1>1. v \in Volumes /\ v.result = "ok" /\ o \in Objects /\ v.entry[f] \in Entries
  BY DoneIs
<1>2. Truncate(v, f) = IF o.first = 0 THEN <<v>> ELSE IF w.result # "ok" THEN cut
                       ELSE Append(cut, short) \o Sync(short, f)
  BY DEF Truncate, Final, Short
<1>3. CASE o.first = 0
  <2>1. <<v>> \in Seq(Volumes) /\ <<v>> # <<>> /\ Last(<<v>>) = v
    BY <1>1, StepLists
  <2> QED  BY <1>2, <1>3, <2>1 DEF Finishes
<1>4. CASE o.first # 0
  <2>1. PICK L \in Lists, N \in Lengths : Sound(v, L, N) /\ (x => Owned(v, L, N))
    BY DoneIs
  <2> DEFINE n == N[f]
             l == L[f]
             k == Kept(o)
             R == TailOf(l, k, n)
  <2>2. CutSteps(cut, v, f, l, k, n)
    BY <1>4, <2>1, CutIs
  <2>3. /\ n \in Nat /\ n > 0 /\ l[0] = o.first
        /\ (\A i \in 0 .. n - 1 : l[i] \in Clusters)
        /\ Once(l, n) /\ l \in [Nat -> Int]
        /\ (o.contig => \A i \in 0 .. n - 1 : l[i] = o.first + i)
        /\ (~o.contig => Linear(v, l, n))
        /\ OpenOk(v, f, o, l, n) /\ o.pos <= o.valid
    BY <1>4, <2>1, FileList
  <2>4. /\ Mine(l, n) \subseteq v.used /\ Mine(l, n) \cap System = {}
        /\ Mine(l, n) \cap Others(L, N, f) = {}
        /\ Others(L, N, f) \subseteq v.used /\ Others(L, N, f) \cap System = {} /\ v.used \subseteq Clusters
        /\ Owned(v, L, N) => v.used \subseteq System \cup Mine(l, n) \cup Others(L, N, f)
    BY <1>1, <2>1, Parts DEF Sound
  <2>5. Apart(v, L, N) /\ OthersOk(v, L, N, f) /\ System \subseteq v.used
    BY <2>1 DEF Sound, OthersOk
  <2> HIDE DEF n, l
  <2>6. /\ k \in 0 .. n /\ (k = 0 <=> o.cur = 0) /\ (k = 0 <=> o.pos = 0) /\ (k > 0 => o.cur = l[k - 1])
    BY <1>1, <2>3, KeptIs
  <2>7. k = Count(o.pos)
    BY DEF Kept
  <2> HIDE DEF k, R
  <2>8. /\ Mine(l, k) \subseteq Mine(l, n) /\ R \subseteq Mine(l, n) /\ Mine(l, k) \cap R = {}
        /\ Mine(l, n) \subseteq Mine(l, k) \cup R /\ Once(l, k)
    BY <2>3, <2>6, KeepsOwn DEF R
  <2> HIDE DEF cut
  <2>9. cut \in Seq(Volumes) /\ cut # <<>> /\ CutTo(v, w, f, l, k, n)
    BY <2>2 DEF CutSteps
  <2> HIDE DEF w
  <2>10. /\ w \in Volumes /\ w.result = "ok" /\ w.used = v.used \ R /\ w.entry = v.entry
         /\ w.obj[f] = Shrunk(o) /\ (\A g \in Files \ {f} : w.obj[g] = v.obj[g])
         /\ (\A y \in Clusters \ R : w.data[y] = v.data[y] /\ (y # o.cur => w.fat[y] = v.fat[y]))
         /\ (~o.contig /\ k > 0 => w.fat[l[k - 1]] = EOC)
    BY <2>9 DEF CutTo, R
  <2> DEFINE p == Shrunk(o)
             r == Short(p)
  <2>11. /\ p \in Objects /\ p.open = o.open /\ p.contig = o.contig
         /\ p.first = (IF k = 0 THEN 0 ELSE o.first) /\ p.cur = o.cur /\ p.pos = o.pos
    <3>1. CASE o.cur = 0
      <4>1. p = Begun(o, 0)
        BY <3>1 DEF Shrunk
      <4>2. LET q == Begun(o, 0) IN
            /\ q \in Objects /\ q.open = o.open /\ q.contig = o.contig /\ q.first = 0
            /\ q.cur = o.cur /\ q.pos = o.pos
        <5>1. 0 \in Int
          OBVIOUS
        <5> QED  BY <5>1, <1>1, BegunIs
      <4> HIDE DEF p
      <4> QED  BY ONLY <3>1, <4>1, <4>2, <2>6
    <3>2. CASE o.cur # 0
      <4>1. p = o
        BY <3>2 DEF Shrunk
      <4> HIDE DEF p
      <4> QED  BY <4>1, <3>2, <1>1, <2>6
    <3> QED  BY <3>1, <3>2
  <2> HIDE DEF p
  <2>12. /\ r \in Objects /\ r.open /\ r.dirty /\ r.contig = o.contig
         /\ r.first = (IF k = 0 THEN 0 ELSE o.first) /\ r.cur = o.cur /\ r.pos = o.pos
         /\ r.valid = o.pos /\ r.len = o.pos
    <3>1. /\ r \in Objects /\ r.open = p.open /\ r.dirty /\ r.contig = p.contig
          /\ r.first = p.first /\ r.cur = p.cur /\ r.pos = p.pos /\ r.valid = p.pos /\ r.len = p.pos
      BY <2>11, ShortIs
    <3> HIDE DEF r
    <3> QED  BY <2>11, <3>1
  <2> HIDE DEF r
  <2>13. short = Set(w, f, r)
    BY <2>10 DEF p, r
  <2> HIDE DEF short
  <2>14. /\ short \in Volumes /\ short.used = v.used \ R /\ short.fat = w.fat /\ short.data = w.data
         /\ short.entry = v.entry /\ short.result = "ok" /\ short.obj[f] = r
         /\ \A g \in Files \ {f} : short.obj[g] = v.obj[g]
    BY <2>10, <2>12, <2>13, SetIs
  <2> DEFINE L2 == Anew(L, f, l)
             N2 == Anew(N, f, k)
  <2>15. /\ Others(L, N, f) \subseteq short.used /\ Mine(l, k) \subseteq short.used
         /\ Mine(l, k) \cap System = {} /\ Mine(l, k) \cap Others(L, N, f) = {}
         /\ System \subseteq short.used
    BY <2>4, <2>5, <2>8, <2>14
  <2>16. o.cur \notin Others(L, N, f)
    <3>1. CASE o.cur = 0
      BY <3>1, <2>4, NoCluster
    <3>2. CASE o.cur # 0
      <4>1. k > 0 /\ k - 1 \in 0 .. n - 1 /\ o.cur = l[k - 1]
        BY <3>2, <2>3, <2>6
      <4>2. o.cur \in Mine(l, n)
        BY <4>1 DEF Mine
      <4> QED  BY <4>2, <2>4
    <3> QED  BY <3>1, <3>2
  <2>17. OthersSame(v, short, L, N, f)
    <3>1. \A y \in Others(L, N, f) : y \in Clusters \ R /\ y # o.cur
      BY <2>4, <2>8, <2>16
    <3>2. \A y \in Others(L, N, f) : short.data[y] = v.data[y] /\ short.fat[y] = v.fat[y]
      BY <3>1, <2>10, <2>14
    <3> QED  BY <3>2, <2>14 DEF OthersSame
  <2>18. /\ L2 \in Lists /\ N2 \in Lengths /\ L2[f] = l /\ N2[f] = k /\ Apart(short, L2, N2)
         /\ OthersOk(short, L2, N2, f)
         /\ short.used \subseteq System \cup Mine(l, k) \cup Others(L, N, f) => Owned(short, L2, N2)
    <3>1. k \in Nat
      BY <2>6
    <3>2. v \in Volumes /\ short \in Volumes /\ L \in Lists /\ N \in Lengths /\ l \in [Nat -> Int] /\ f \in Files
      BY <1>1, <2>1, <2>3, <2>14
    <3>3. Once(l, k)
      BY <2>8
    <3>4. Apart(v, L, N) /\ OthersOk(v, L, N, f)
      BY <2>5
    <3> QED  BY ONLY <3>1, <3>2, <3>3, <3>4, <2>15, <2>17, Relisted
  <2> HIDE DEF L2, N2
  <2>19. x => Owned(short, L2, N2)
    <3> SUFFICES ASSUME x PROVE short.used \subseteq System \cup Mine(l, k) \cup Others(L, N, f)
      BY <2>18
    <3>1. v.used \subseteq System \cup Mine(l, n) \cup Others(L, N, f)
      BY <2>1, <2>4
    <3> QED  BY ONLY <3>1, <2>8, <2>14
  <2>20. o.pos \in Nat /\ o.valid \in Nat /\ o.first \in Int /\ o.contig \in BOOLEAN
    BY <1>1, FieldsOf
  <2>21. Follows(short, r, l, k)
    <3>1. r.first = 0 <=> r.len = 0
      BY <2>6, <2>12, <1>4
    <3>2. r.first = 0 <=> k = 0
      BY <2>12, <1>4
    <3>3. k > 0 => l[0] = r.first
      BY <2>12, <2>3
    <3>4. r.contig => k = Count(r.len) /\ \A i \in 0 .. k - 1 : l[i] = r.first + i
      <4> SUFFICES ASSUME r.contig, NEW i \in 0 .. k - 1 PROVE l[i] = r.first + i
        BY <2>7, <2>12
      <4>1. i \in 0 .. n - 1 /\ k # 0
        BY <2>3, <2>6
      <4> QED  BY <4>1, <2>3, <2>12
    <3>5. ASSUME ~r.contig, k > 0
          PROVE  /\ Count(r.len) <= k /\ short.fat[l[k - 1]] = EOC
                 /\ \A i \in 0 .. k - 2 : short.fat[l[i]] = l[i + 1]
      <4>1. Count(r.len) = k /\ k \in Int
        BY <2>6, <2>7, <2>12
      <4>2. short.fat[l[k - 1]] = EOC
        BY <3>5, <2>10, <2>12, <2>14
      <4>3. ASSUME NEW i \in 0 .. k - 2 PROVE short.fat[l[i]] = l[i + 1]
        <5>1. i \in 0 .. n - 2 /\ i \in 0 .. n - 1 /\ k - 1 \in 0 .. n - 1 /\ i # k - 1 /\ i \in 0 .. k - 1
          BY <2>3, <2>6
        <5>2. v.fat[l[i]] = l[i + 1]
          BY <5>1, <3>5, <2>3, <2>12 DEF Linear
        <5>3. l[i] # o.cur
          BY <5>1, <3>5, <2>3, <2>6 DEF Once
        <5>4. l[i] \in Clusters \ R
          <6>1. l[i] \in Mine(l, k)
            BY <5>1 DEF Mine
          <6> QED  BY <6>1, <5>1, <2>3, <2>8
        <5> QED  BY <5>2, <5>3, <5>4, <2>10, <2>14
      <4> QED  BY <4>1, <4>2, <4>3
    <3> QED  BY <3>1, <3>2, <3>3, <3>4, <3>5 DEF Follows
  <2>22. Right(short, f, r, l)
    <3>1. ASSUME NEW u \in 0 .. r.valid - 1
          PROVE  short.data[l[u \div Units]][u % Units] = <<f, u>>
      <4>1. u \in Nat /\ u < o.pos /\ u \in 0 .. o.valid - 1
        BY <2>3, <2>12, <2>20
      <4>2. v.data[l[u \div Units]][u % Units] = <<f, u>>
        BY <4>1, <2>3 DEF OpenOk, Right
      <4> DEFINE a == u \div Units
      <4>3. a \in Nat /\ a < k
        BY <4>1, <2>7, <2>20, CountIs, UnitAt
      <4> HIDE DEF a
      <4>4. l[a] \in Clusters \ R
        <5>1. a \in 0 .. k - 1 /\ a \in 0 .. n - 1
          BY <4>3, <2>3, <2>6
        <5>2. l[a] \in Mine(l, k)
          BY <5>1 DEF Mine
        <5> QED  BY <5>1, <5>2, <2>3, <2>8
      <4>5. short.data[l[a]] = v.data[l[a]]
        BY <4>4, <2>10, <2>14
      <4> QED  BY <4>2, <4>5 DEF a
    <3>2. r.valid <= r.len
      BY <2>12, <2>20
    <3> QED  BY <3>1, <3>2 DEF Right
  <2>23. Placed(r, l)
    <3>1. Placed(o, l)
      BY <2>3 DEF OpenOk
    <3>2. r.pos <= r.len
      BY <2>12, <2>20
    <3> QED  BY <3>1, <3>2, <2>12 DEF Placed
  <2>24. Whole(short, f, L2, N2)
    BY <2>14, <2>15, <2>18, <2>21, <2>22, <2>23 DEF Whole, OthersOk
  <2>25. short \in Unsynced(f, x)
    <3>1. short.obj[f].open /\ short.obj[f].pos <= short.obj[f].valid
      BY <2>12, <2>14, <2>20
    <3>2. short.result = "ok" /\ short \in Volumes
      BY <2>14
    <3> QED  BY <3>1, <3>2, <2>18, <2>19, <2>24, Zenon DEF Unsynced
  <2> DEFINE last == Synced(short, f)
  <2>26. last \in Done(x) /\ last \in Volumes
    BY <2>25, SyncEnds, DoneIs
  <2> HIDE DEF last
  <2>27. Sync(short, f) = <<short, last>>
    <3>1. short.obj[f].dirty
      BY <2>12, <2>14
    <3> QED  BY <3>1 DEF Sync, Synced, EntryFor, last
  <2> DEFINE s == Append(cut, short)
             q == <<short, last>>
  <2>28. s \in Seq(Volumes)
    BY <2>9, <2>14, StepLists
  <2>29. q \in Seq(Volumes) /\ q # <<>> /\ Last(q) = last
    BY <2>14, <2>26 DEF Last
  <2> HIDE DEF s, q
  <2>30. s \o q \in Seq(Volumes) /\ s \o q # <<>> /\ Last(s \o q) = last
    BY <2>28, <2>29, StepLists
  <2>31. Truncate(v, f) = s \o q
    BY <1>2, <1>4, <2>10, <2>27 DEF s, q
  <2> QED  BY <2>26, <2>30, <2>31 DEF Finishes
<1> QED  BY <1>3, <1>4

\* A file that was removed.
Gone(v, f) == EntryAndObject(v, f, NoEntry, Closed)

\* remove.
LEMMA RemovedIs ==
  ASSUME NEW f \in Files, NEW x, NEW v \in Done(x), v.obj[f].open
  PROVE  Finishes(Removed(v, f), Done(x))
<1> DEFINE o == v.obj[f]
           freed == IF o.first = 0 THEN <<v>>
                    ELSE IF o.contig THEN <<Clear(v, o.first, ClustersIn(o.len))>>
                    ELSE FreeChain(v, o.first)
           w == Last(freed)
           gone == Gone(w, f)
<1>1. v \in Volumes /\ v.result = "ok" /\ o \in Objects
  BY DoneIs
<1>2. Removed(v, f) = IF w.result # "ok" THEN freed ELSE Append(freed, gone)
  BY DEF Removed, Final, Gone, EntryAndObject
<1>3. PICK L \in Lists, N \in Lengths : Sound(v, L, N) /\ (x => Owned(v, L, N))
  BY DoneIs
<1> DEFINE n == N[f]
           l == L[f]
<1>4. /\ Mine(l, n) \subseteq v.used
      /\ Mine(l, n) \cap Others(L, N, f) = {}
      /\ Others(L, N, f) \subseteq v.used /\ Others(L, N, f) \cap System = {} /\ v.used \subseteq Clusters
      /\ Mine(l, n) \cap System = {} /\ l \in [Nat -> Int]
      /\ Owned(v, L, N) => v.used \subseteq System \cup Mine(l, n) \cup Others(L, N, f)
  BY <1>1, <1>3, Parts DEF Sound
<1>5. Apart(v, L, N) /\ OthersOk(v, L, N, f) /\ System \subseteq v.used
  BY <1>3 DEF Sound, OthersOk
<1>6. freed \in Seq(Volumes) /\ freed # <<>> /\ Freed(v, w, Mine(l, n))
  <2>1. CASE o.first = 0
    <3>1. OpenOk(v, f, o, l, n)
      BY <1>3 DEF Sound, FileOk
    <3>2. n = 0
      BY <2>1, <3>1 DEF OpenOk, Follows
    <3>3. Mine(l, n) = {}
      BY <3>2 DEF Mine
    <3>4. freed = <<v>>
      BY <2>1
    <3> HIDE DEF n, l, freed
    <3>5. freed \in Seq(Volumes) /\ freed # <<>> /\ w = v
      BY <3>4, <1>1, StepLists
    <3>6. Freed(v, v, Mine(l, n))
      BY <3>3, <1>1 DEF Freed
    <3> QED  BY <3>5, <3>6
  <2>2. CASE o.first # 0
    <3>1. /\ n \in Nat /\ n > 0 /\ l[0] = o.first
          /\ (\A i \in 0 .. n - 1 : l[i] \in Clusters /\ l[i] \in v.used)
          /\ (o.contig => ClustersIn(o.len) = n /\ \A i \in 0 .. n - 1 : l[i] = o.first + i)
          /\ (~o.contig => Linear(v, l, n))
      BY <2>2, <1>3, FileList
    <3> HIDE DEF n, l
    <3>2. CASE o.contig
      <4> DEFINE c == o.first
                 y == Clear(v, c, n)
      <4>1. freed = <<y>>
        BY <2>2, <3>1, <3>2
      <4>2. c \in Clusters /\ c \in Int /\ n \in Nat \ {0}
        BY <3>1, NoCluster
      <4>3. Mine(l, n) = c .. c + n - 1
        <5>1. \A i \in 0 .. n - 1 : l[i] = c + i
          BY <3>1, <3>2
        <5> HIDE DEF c
        <5>2. \A z \in c .. c + n - 1 : z - c \in 0 .. n - 1 /\ z = c + (z - c)
          BY <4>2
        <5>3. \A i \in 0 .. n - 1 : c + i \in c .. c + n - 1
          BY <4>2
        <5>4. \A z \in c .. c + n - 1 : z = l[z - c]
          BY <5>1, <5>2
        <5> QED  BY <5>1, <5>2, <5>3, <5>4 DEF Mine
      <4>4. c .. c + n - 1 \subseteq v.used
        BY <4>3, <3>1 DEF Mine
      <4> HIDE DEF c
      <4>5. Freed(v, y, c .. c + n - 1)
        BY <4>2, <4>4, <1>1, ClearIs
      <4> HIDE DEF y, freed
      <4>6. y \in Volumes
        BY <4>5 DEF Freed
      <4>7. freed \in Seq(Volumes) /\ freed # <<>> /\ w = y
        BY <4>1, <4>6, StepLists
      <4> QED  BY <4>3, <4>5, <4>7
    <3>3. CASE ~o.contig
      <4>1. freed = FreeChain(v, l[0])
        BY <2>2, <3>1, <3>3
      <4>2. Linear(v, l, n)
        BY <3>1, <3>3
      <4>3. FreeChain(v, l[0]) \in Seq(Volumes) /\ FreeChain(v, l[0]) # <<>>
            /\ Freed(v, Last(FreeChain(v, l[0])), Mine(l, n))
        BY <4>2, <3>1, <1>1, FreeIs
      <4> HIDE DEF freed
      <4> QED  BY <4>1, <4>3
    <3> QED  BY <3>2, <3>3, <1>1, FieldsOf
  <2> QED  BY <2>1, <2>2
<1> HIDE DEF freed, w, n, l
<1>7. /\ w \in Volumes /\ w.used = v.used \ Mine(l, n) /\ w.entry = v.entry /\ w.obj = v.obj /\ w.result = "ok"
      /\ \A y \in Clusters \ Mine(l, n) : w.data[y] = v.data[y] /\ w.fat[y] = v.fat[y]
  BY <1>1, <1>6 DEF Freed
<1>8. /\ NoEntry \in Entries /\ NoEntry.first = 0 /\ NoEntry.len = 0 /\ NoEntry.valid = 0
      /\ NoEntry.contig = FALSE /\ NoEntry.exists = FALSE
  BY DEF NoEntry, Entries
<1>9. /\ gone \in Volumes /\ gone.used = w.used /\ gone.fat = w.fat /\ gone.data = w.data /\ gone.result = "ok"
      /\ gone.obj[f] = Closed /\ (\A g \in Files \ {f} : gone.obj[g] = v.obj[g])
      /\ gone.entry[f] = NoEntry /\ \A g \in Files \ {f} : gone.entry[g] = v.entry[g]
  <2> DEFINE e == NoEntry
             c == Closed
  <2>1. e \in Entries /\ c \in Objects
    BY <1>8, ClosedIs
  <2> HIDE DEF e, c
  <2>2. LET y == EntryAndObject(w, f, e, c) IN
        /\ y \in Volumes /\ y.used = w.used /\ y.fat = w.fat /\ y.data = w.data /\ y.result = w.result
        /\ y.obj[f] = c /\ (\A g \in Files \ {f} : y.obj[g] = w.obj[g])
        /\ y.entry[f] = e /\ \A g \in Files \ {f} : y.entry[g] = w.entry[g]
    BY <2>1, <1>7, EntryPut
  <2>3. gone = EntryAndObject(w, f, e, c)
    BY DEF Gone, e, c
  <2> HIDE DEF gone
  <2>4. /\ gone \in Volumes /\ gone.used = w.used /\ gone.fat = w.fat /\ gone.data = w.data
        /\ gone.result = w.result
        /\ gone.obj[f] = c /\ (\A g \in Files \ {f} : gone.obj[g] = w.obj[g])
        /\ gone.entry[f] = e /\ \A g \in Files \ {f} : gone.entry[g] = w.entry[g]
    BY ONLY <2>2, <2>3
  <2> QED  BY <2>4, <1>7 DEF e, c
<1> HIDE DEF gone
<1> DEFINE L2 == Anew(L, f, l)
           N2 == Anew(N, f, 0)
<1>10. Mine(l, 0) = {} /\ Once(l, 0)
  BY DEF Mine, Once
<1>11. /\ Others(L, N, f) \subseteq gone.used /\ Mine(l, 0) \subseteq gone.used
       /\ Mine(l, 0) \cap System = {} /\ Mine(l, 0) \cap Others(L, N, f) = {}
       /\ System \subseteq gone.used
  BY <1>4, <1>5, <1>7, <1>9, <1>10
<1>12. OthersSame(v, gone, L, N, f)
  <2>1. \A y \in Others(L, N, f) : y \in Clusters \ Mine(l, n)
    BY <1>4
  <2>2. \A y \in Others(L, N, f) : gone.data[y] = v.data[y] /\ gone.fat[y] = v.fat[y]
    BY <2>1, <1>7, <1>9
  <2> QED  BY <2>2, <1>9 DEF OthersSame
<1>13. /\ L2 \in Lists /\ N2 \in Lengths /\ L2[f] = l /\ N2[f] = 0 /\ Apart(gone, L2, N2)
       /\ OthersOk(gone, L2, N2, f)
       /\ gone.used \subseteq System \cup Mine(l, 0) \cup Others(L, N, f) => Owned(gone, L2, N2)
  <2>1. 0 \in Nat
    OBVIOUS
  <2>2. v \in Volumes /\ gone \in Volumes /\ L \in Lists /\ N \in Lengths /\ l \in [Nat -> Int] /\ f \in Files
    BY <1>1, <1>3, <1>4, <1>9
  <2>3. Apart(v, L, N) /\ OthersOk(v, L, N, f)
    BY <1>5
  <2> QED  BY ONLY <2>1, <2>2, <2>3, <1>10, <1>11, <1>12, Relisted
<1> HIDE DEF L2, N2
<1>14. x => Owned(gone, L2, N2)
  <2> SUFFICES ASSUME x PROVE gone.used \subseteq System \cup Mine(l, 0) \cup Others(L, N, f)
    BY <1>13
  <2>1. v.used \subseteq System \cup Mine(l, n) \cup Others(L, N, f)
    BY <1>3, <1>4
  <2> QED  BY ONLY <2>1, <1>7, <1>9
<1>15. FileOk(gone, f, l, 0)
  <2>1. Follows(gone, NoEntry, l, 0) /\ Right(gone, f, NoEntry, l)
    BY <1>8 DEF Follows, Right
  <2>2. EntryOk(gone, f, l, 0)
    BY <2>1, <1>8, <1>9 DEF EntryOk
  <2> QED  BY <2>2, <1>9, ClosedIs DEF FileOk
<1>16. Sound(gone, L2, N2)
  <2>1. \A g \in Files : FileOk(gone, g, L2[g], N2[g])
    BY <1>13, <1>15 DEF OthersOk
  <2> QED  BY <2>1, <1>9, <1>11, <1>13 DEF Sound
<1>17. gone \in Done(x)
  BY <1>9, <1>13, <1>14, <1>16, IsDone
<1>18. Append(freed, gone) \in Seq(Volumes) /\ Append(freed, gone) # <<>> /\ Last(Append(freed, gone)) = gone
  BY <1>6, <1>9, StepLists
<1>19. Removed(v, f) = Append(freed, gone)
  BY <1>2, <1>7
<1> QED  BY <1>17, <1>18, <1>19 DEF Finishes

-----------------------------------------------------------------------------
(* The power goes and the program starts again.                            *)
Says(v, r) == [v EXCEPT !.result = r]
Fine(v) == Says(v, "ok")

\* What a call returns is not in the volume.
LEMMA FineIs ==
  ASSUME NEW v \in Volumes, NEW r \in {"ok", "fails", "hangs"}
  PROVE  LET w == Says(v, r) IN
         /\ w \in Volumes /\ w.used = v.used /\ w.fat = v.fat /\ w.data = v.data /\ w.entry = v.entry
         /\ w.obj = v.obj /\ w.result = r
         /\ v \in Good => w \in Good
<1> DEFINE w == Says(v, r)
<1>1. /\ w \in Volumes /\ w.used = v.used /\ w.fat = v.fat /\ w.data = v.data /\ w.entry = v.entry
      /\ w.obj = v.obj /\ w.result = r
  BY DEF Volumes, Says
<1> HIDE DEF w
<1>2. ASSUME v \in Good PROVE w \in Good
  <2>1. PICK L \in Lists, N \in Lengths : Stored(v, L, N)
    BY <1>2 DEF Good
  <2>2. Stored(w, L, N)
    BY <2>1, <1>1 DEF Stored, Apart, EntryOk, Follows, Right
  <2> QED  BY <2>1, <2>2, <1>1, Zenon DEF Good
<1> QED  BY <1>1, <1>2 DEF w

\* A restart finds a sound volume wherever the power went: cuts may leave clusters marked.
LEMMA RestartedIs ==
  ASSUME NEW v \in Good
  PROVE  Restarted(v) \in Volumes /\ Fine(Restarted(v)) \in Done(FALSE)
<1> DEFINE p == [f \in Files |-> Closed]
           u == Restarted(v)
           w == Fine(u)
<1>1. v \in Volumes
  BY DEF Good
<1>2. PICK L \in Lists, N \in Lengths : Stored(v, L, N)
  BY DEF Good
<1>3. p \in [Files -> Objects] /\ 2 \in Clusters
  BY ClosedIs, VolumeAssumption DEF Clusters
<1>4. u = [v EXCEPT !.obj = p, !.start = 2]
  BY DEF Restarted
<1>5. w = [u EXCEPT !.result = "ok"]
  BY DEF Fine, Says
<1> HIDE DEF p, u, w
<1>6. /\ u \in Volumes /\ u.used = v.used /\ u.fat = v.fat /\ u.data = v.data
      /\ u.entry = v.entry /\ u.obj = p
  BY <1>1, <1>3, <1>4 DEF Volumes
<1>7. /\ w \in Volumes /\ w.used = v.used /\ w.fat = v.fat /\ w.data = v.data
      /\ w.entry = v.entry /\ w.result = "ok" /\ w.obj = p
  BY <1>5, <1>6 DEF Volumes
<1>8. Apart(w, L, N) /\ System \subseteq w.used
  BY <1>2, <1>7 DEF Stored, Apart
<1>9. \A f \in Files : FileOk(w, f, L[f], N[f])
  <2> TAKE f \in Files
  <2>1. EntryOk(v, f, L[f], N[f])
    BY <1>2 DEF Stored
  <2>2. EntryOk(w, f, L[f], N[f])
    BY <2>1, <1>7 DEF EntryOk, Follows, Right
  <2>3. w.obj[f] = Closed
    BY <1>7 DEF p
  <2> QED  BY <2>2, <2>3, ClosedIs DEF FileOk
<1>10. Sound(w, L, N)
  BY <1>7, <1>8, <1>9 DEF Sound
<1>11. w \in Done(FALSE)
  BY <1>2, <1>7, <1>10, IsDone
<1> QED  BY <1>6, <1>11 DEF u, w

-----------------------------------------------------------------------------
(* The invariant.                                                          *)
Inv ==
  /\ cuts \in Nat /\ half \in {"none", "full", "error", "frees", "hangs"}
  /\ half = "none" => volume \in Done(cuts = 0)
  /\ half = "error" => volume \in Good

\* The next volume is the one a step ends in.
LEMMA BecomesIs ==
  ASSUME NEW v \in Volumes, Becomes(v)
  PROVE  volume' = Fine(v)
<1>1. volume' = [used |-> used', start |-> start', fat |-> fat', data |-> data',
                 entry |-> entry', obj |-> obj', result |-> "ok"]
  BY DEF volume
<1>2. Fine(v) = [used |-> v.used, start |-> v.start, fat |-> v.fat, data |-> v.data,
                 entry |-> v.entry, obj |-> v.obj, result |-> "ok"]
  <2> DEFINE a1 == v.used
             a2 == v.start
             a3 == v.fat
             a4 == v.data
             a5 == v.entry
             a6 == v.obj
             a7 == v.result
             w == [used |-> a1, start |-> a2, fat |-> a3, data |-> a4, entry |-> a5, obj |-> a6, result |-> a7]
  <2>1. v = w
    BY DEF Volumes
  <2> HIDE DEF a1, a2, a3, a4, a5, a6, a7
  <2>2. [w EXCEPT !.result = "ok"] =
          [used |-> a1, start |-> a2, fat |-> a3, data |-> a4, entry |-> a5, obj |-> a6, result |-> "ok"]
    OBVIOUS
  <2> HIDE DEF w
  <2>3. Fine(v) = [w EXCEPT !.result = "ok"]
    BY <2>1 DEF Fine, Says
  <2> QED  BY <2>2, <2>3 DEF a1, a2, a3, a4, a5, a6, a7
<1> QED  BY <1>1, <1>2 DEF Becomes

\* A call that returned true, and one that cannot be undone.
LEMMA DoneFine ==
  ASSUME NEW x, NEW v \in Done(x)
  PROVE  Fine(v) = v /\ v \in Volumes /\ v.result = "ok"
<1>1. v \in Volumes /\ v.result = "ok"
  BY DEF Done
<1>2. Fine(v) = v
  BY <1>1 DEF Fine, Says, Volumes
<1> QED  BY <1>1, <1>2

\* After a power cut clusters may be marked that nobody owns.
LEMMA DoneAfter ==
  ASSUME NEW c, c # 0, NEW v \in Done(FALSE)
  PROVE  v \in Done(c = 0)
BY DEF Done

\* The steps of a call that may fail: with nothing changed, or half way.
Continues(s, c) ==
  /\ s \in Seq(Good) /\ s # <<>>
  /\ IF Last(s).result = "ok" THEN Last(s) \in Done(c = 0) ELSE Len(s) > 1 \/ Fine(Last(s)) \in Done(c = 0)

\* A call that adds to a file or only reads.
LEMMA LeadsOn ==
  ASSUME Inv, half = "none", NEW s, Continues(s, cuts), Leads(s, FALSE)
  PROVE  Inv'
<1> DEFINE w == Last(s)
<1>1. cuts \in Nat /\ volume \in Done(cuts = 0)
  BY DEF Inv
<1>2. /\ s \in Seq(Good) /\ s # <<>> /\ w \in Good /\ w \in Volumes /\ Len(s) \in Nat \ {0}
      /\ IF w.result = "ok" THEN w \in Done(cuts = 0) ELSE Len(s) > 1 \/ Fine(w) \in Done(cuts = 0)
  <2>1. s \in Seq(Good) /\ s # <<>>
    BY DEF Continues
  <2>2. w \in Good /\ Len(s) \in Nat \ {0}
    BY <2>1, StepLists
  <2>3. w \in Volumes
    BY <2>2 DEF Good
  <2> QED  BY <2>1, <2>2, <2>3 DEF Continues
<1>3. CASE w.result = "ok" /\ Becomes(w) /\ UNCHANGED <<cuts, half>>
  <2>1. volume' = w
    <3>1. w \in Done(cuts = 0)
      BY <1>2, <1>3
    <3> HIDE DEF w
    <3> QED  BY <3>1, <1>3, BecomesIs, DoneFine
  <2>2. volume' \in Done(cuts = 0)
    BY <1>2, <1>3, <2>1
  <2> QED  BY <1>1, <1>3, <2>2 DEF Inv
<1>4. CASE /\ w.result # "ok" /\ Becomes(w) /\ UNCHANGED cuts
           /\ half' = IF w.result = "hangs" THEN "hangs" ELSE IF Len(s) = 1 THEN half ELSE "full"
  <2>1. volume' = Fine(w)
    <3> HIDE DEF w
    <3> QED  BY <1>2, <1>4, BecomesIs
  <2>2. CASE half' \in {"hangs", "full"}
    <3>1. half' # "none" /\ half' # "error" /\ cuts' \in Nat
      BY <1>1, <1>4, <2>2
    <3> QED  BY <2>2, <3>1 DEF Inv
  <2>3. CASE half' = "none"
    <3>1. Len(s) = 1
      BY <1>4, <2>3
    <3>2. Fine(w) \in Done(cuts = 0)
      BY <3>1, <1>2, <1>4
    <3>3. volume' \in Done(cuts = 0)
      BY <3>2, <2>1
    <3> QED  BY <1>1, <1>4, <2>3, <3>3 DEF Inv
  <2> QED  BY <1>4, <2>2, <2>3
<1>5. CASE /\ cuts' = cuts + 1
           /\ \E k \in 1 .. Len(s) - 1 :
                \/ Becomes(s[k]) /\ half' = "error"
                \/ Becomes(Restarted(s[k])) /\ half' = "none"
  <2>1. PICK k \in 1 .. Len(s) - 1 :
          \/ Becomes(s[k]) /\ half' = "error"
          \/ Becomes(Restarted(s[k])) /\ half' = "none"
    BY <1>5
  <2> DEFINE v == s[k]
  <2>2. v \in Good /\ v \in Volumes
    <3>1. k \in 1 .. Len(s)
      BY <1>2, <2>1
    <3>2. v \in Good
      BY <3>1, <1>2
    <3> QED  BY <3>2 DEF Good
  <2>3. cuts' \in Nat /\ cuts' # 0
    BY <1>1, <1>5
  <2> HIDE DEF v
  <2>4. CASE Becomes(v) /\ half' = "error"
    <3>1. volume' = Fine(v)
      BY <2>2, <2>4, BecomesIs
    <3>2. Fine(v) \in Good
      BY <2>2, FineIs DEF Fine
    <3> QED  BY <2>3, <2>4, <3>1, <3>2 DEF Inv
  <2>5. CASE Becomes(Restarted(v)) /\ half' = "none"
    <3> DEFINE u == Restarted(v)
    <3>1. u \in Volumes /\ Fine(u) \in Done(FALSE)
      BY <2>2, RestartedIs
    <3> HIDE DEF u
    <3>2. volume' = Fine(u)
      BY <3>1, <2>5, BecomesIs DEF u
    <3>3. volume' \in Done(cuts' = 0)
      BY <2>3, <3>1, <3>2, DoneAfter
    <3> QED  BY <2>3, <2>5, <3>3 DEF Inv
  <2> QED  BY <2>1, <2>4, <2>5 DEF v
<1> QED  BY <1>3, <1>4, <1>5 DEF Leads

\* A call that frees clusters.
LEMMA LeadsAway ==
  ASSUME Inv, half = "none", NEW s, Finishes(s, Done(cuts = 0)), Leads(s, TRUE)
  PROVE  Inv'
<1> DEFINE w == Last(s)
<1>1. cuts \in Nat
  BY DEF Inv
<1>2. w \in Done(cuts = 0) /\ w.result = "ok" /\ w \in Volumes /\ Fine(w) = w
  BY DoneFine DEF Finishes
<1>3. CASE Becomes(w) /\ UNCHANGED <<cuts, half>>
  <2>1. volume' = w
    <3> HIDE DEF w
    <3> QED  BY <1>2, <1>3, BecomesIs
  <2>2. volume' \in Done(cuts = 0)
    BY <1>2, <2>1
  <2> QED  BY <1>1, <1>3, <2>2 DEF Inv
<1>4. CASE cuts' = cuts + 1 /\ half' = "frees"
  BY <1>1, <1>4 DEF Inv
<1> QED  BY <1>2, <1>3, <1>4 DEF Leads

\* After a call was left half done only files are removed.
LEMMA LeadsNowhere ==
  ASSUME Inv, half = "full", NEW s, Leads(s, TRUE)
  PROVE  Inv'
<1>1. cuts' \in Nat /\ half' \in {"full", "hangs"}
  BY DEF Inv, Leads
<1> QED  BY <1>1 DEF Inv

\* At the beginning no file has clusters.
LEMMA InitIs ==
  ASSUME Init
  PROVE  Inv
<1> DEFINE L == [f \in Files |-> [i \in Nat |-> 0]]
           N == [f \in Files |-> 0]
           w == volume
<1>1. /\ used = System /\ start = 2 /\ fat = [c \in Clusters |-> Free] /\ data = [c \in Clusters |-> Blank]
      /\ entry = [f \in Files |-> NoEntry] /\ obj = [f \in Files |-> Closed] /\ cuts = 0 /\ half = "none"
  BY DEF Init
<1>2. NoEntry \in Entries /\ NoEntry.first = 0 /\ NoEntry.len = 0 /\ NoEntry.valid = 0 /\ ~NoEntry.contig
  BY DEF NoEntry, Entries
<1>3. w \in Volumes
  <2>1. used \in SUBSET Clusters /\ start \in Clusters
    BY <1>1, VolumeAssumption DEF Clusters
  <2>2. fat \in [Clusters -> Int]
    BY <1>1 DEF Free
  <2>3. data \in [Clusters -> [0 .. Units - 1 -> Contents]]
    BY <1>1, BlankIs
  <2>4. entry \in [Files -> Entries] /\ obj \in [Files -> Objects]
    BY <1>1, <1>2, ClosedIs
  <2> QED  BY <2>1, <2>2, <2>3, <2>4 DEF volume, Volumes
<1>4. w.used = System /\ w.entry = entry /\ w.obj = obj /\ w.result = "ok"
  BY <1>1 DEF volume
<1> HIDE DEF w
<1>5. L \in Lists /\ N \in Lengths /\ \A f \in Files : N[f] = 0
  BY DEF Lists, Lengths
<1> HIDE DEF L, N
<1>6. Apart(w, L, N) /\ Owned(w, L, N)
  BY <1>4, <1>5 DEF Apart, Owned
<1>7. \A f \in Files : FileOk(w, f, L[f], N[f])
  <2> TAKE f \in Files
  <2>1. w.entry[f] = NoEntry /\ w.obj[f] = Closed /\ N[f] = 0
    BY <1>1, <1>4, <1>5
  <2>2. Follows(w, NoEntry, L[f], 0) /\ Right(w, f, NoEntry, L[f])
    BY <1>2, CountIs DEF Follows, Right
  <2> QED  BY <2>1, <2>2, <1>2, ClosedIs DEF FileOk, EntryOk
<1>8. Sound(w, L, N)
  BY <1>3, <1>4, <1>6, <1>7 DEF Sound
<1>9. w \in Done(TRUE)
  BY <1>3, <1>4, <1>5, <1>6, <1>8, IsDone
<1>10. volume \in Done(cuts = 0)
  <2>1. w \in Done(cuts = 0)
    BY <1>1, <1>9 DEF Done
  <2> QED  BY <2>1 DEF w
<1> QED  BY <1>1, <1>10 DEF Inv

\* A call that does not fail, and one that changes an object only.
LEMMA SucceedsOn ==
  ASSUME NEW s, NEW c, Succeeds(s, Done(c = 0))
  PROVE  Continues(s, c)
BY DoneFine DEF Succeeds, Continues

\* A call with one step, to a volume after a call.
LEMMA OneStep ==
  ASSUME NEW w, NEW c, w \in Done(c = 0)
  PROVE  Continues(<<w>>, c)
<1>1. w \in Good
  <2> SUFFICES ASSUME NEW x, w \in Done(x) PROVE w \in Good
    OBVIOUS
  <2>1. PICK L \in Lists, N \in Lengths : Sound(w, L, N)
    BY DEF Done
  <2> QED  BY <2>1, SoundGood DEF Sound
<1>2. <<w>> \in Seq(Good) /\ <<w>> # <<>> /\ Last(<<w>>) = w
  BY <1>1, StepLists
<1>3. w.result = "ok"
  BY DoneFine
<1> QED  BY <1>2, <1>3 DEF Continues

\* Every action keeps the invariant.
LEMMA NextIs ==
  ASSUME Inv, [Next]_vars
  PROVE  Inv'
<1>1. CASE half = "none" /\ \E f \in Files :
             \/ Create(f) \/ Open(f) \/ Close(f) \/ WriteFile(f) \/ ReadUnit(f) \/ Seek(f)
             \/ TruncateFile(f) \/ RemoveFile(f) \/ PreAllocateFile(f)
  <2> DEFINE v == volume
             x == cuts = 0
  <2>1. v \in Done(x) /\ half = "none"
    BY <1>1 DEF Inv
  <2>2. v.entry = entry /\ v.obj = obj /\ v.fat = fat
    BY DEF volume
  <2>3. PICK f \in Files :
             \/ Create(f) \/ Open(f) \/ Close(f) \/ WriteFile(f) \/ ReadUnit(f) \/ Seek(f)
             \/ TruncateFile(f) \/ RemoveFile(f) \/ PreAllocateFile(f)
    BY <1>1
  <2>4. v.obj[f] \in Objects /\ v \in Volumes
    BY <2>1, DoneIs
  <2> DEFINE o == v.obj[f]
  <2>5. o.pos \in Nat /\ o.valid \in Nat
    BY <2>4, FieldsOf
  <2>6. CASE Create(f)
    <3> DEFINE s == <<v>> \o Sync(Set(v, f, Made), f)
    <3>1. Leads(s, FALSE) /\ ~v.entry[f].exists /\ ~v.obj[f].open
      BY <2>2, <2>6 DEF Create, Made
    <3>2. Succeeds(s, Done(x))
      BY <2>1, <3>1, CreateIs
    <3> HIDE DEF s
    <3>3. Continues(s, cuts)
      BY <3>2, SucceedsOn
    <3> QED  BY <2>1, <3>1, <3>3, LeadsOn
  <2>7. CASE Open(f)
    <3> DEFINE w == Set(v, f, Opened(v.entry[f]))
               s == <<w>>
    <3>1. Leads(s, FALSE) /\ v.entry[f].exists /\ ~v.obj[f].open
      BY <2>2, <2>7 DEF Open, Opened
    <3>2. w \in Done(x)
      BY <2>1, <3>1, OpenIs
    <3> HIDE DEF w
    <3>3. Continues(s, cuts)
      BY <3>2, OneStep
    <3> HIDE DEF s
    <3> QED  BY <2>1, <3>1, <3>3, LeadsOn
  <2>8. CASE Close(f)
    <3> DEFINE s == Append(Sync(v, f), Set(Last(Sync(v, f)), f, Closed))
    <3>1. Leads(s, FALSE) /\ v.obj[f].open
      BY <2>2, <2>8 DEF Close, Final
    <3>2. Succeeds(s, Done(x))
      BY <2>1, <3>1, CloseIs
    <3> HIDE DEF s
    <3>3. Continues(s, cuts)
      BY <3>2, SucceedsOn
    <3> QED  BY <2>1, <3>1, <3>3, LeadsOn
  <2>9. CASE WriteFile(f)
    <3>1. PICK n \in 1 .. MaxUnits - obj[f].pos : Leads(Write(volume, f, n), FALSE)
      BY <2>9 DEF WriteFile
    <3>2. v.obj[f].open
      BY <2>2, <2>9 DEF WriteFile
    <3> DEFINE s == Write(v, f, n)
    <3>3. n \in Nat
      BY <3>1
    <3>4. v \in Ready(f, x)
      BY <2>1, <3>2, DoneReady
    <3>5. Brings(s, Done(x)) /\ (Last(s).result # "ok" => Len(s) > 1)
      BY <3>3, <3>4, WriteIs
    <3>6. Leads(s, FALSE)
      BY <3>1
    <3> HIDE DEF s
    <3>7. Continues(s, cuts)
      BY <3>5 DEF Brings, Continues
    <3> QED  BY <2>1, <3>6, <3>7, LeadsOn
  <2>10. CASE ReadUnit(f)
    <3> DEFINE c == ReadCluster(v, o)
               w == Set(v, f, At(o, c, o.pos + 1))
               s == <<w>>
    <3>1. v.obj[f].open /\ v.obj[f].pos < v.obj[f].valid
      BY <2>2, <2>10 DEF ReadUnit
    <3>2. Leads(s, FALSE)
      BY <2>2, <2>10 DEF ReadUnit, ReadCluster, At
    <3>3. w \in Done(x)
      BY <2>1, <3>1, ReadIs
    <3> HIDE DEF w
    <3>4. Continues(s, cuts)
      BY <3>3, OneStep
    <3> HIDE DEF s
    <3> QED  BY <2>1, <3>2, <3>4, LeadsOn
  <2>11. CASE Seek(f)
    <3>1. PICK z \in 0 .. obj[f].valid :
            Leads(<<Set(volume, f, [obj[f] EXCEPT !.cur = SeekCluster(volume, obj[f], z), !.pos = z])>>, FALSE)
      BY <2>11 DEF Seek
    <3> DEFINE w == Set(v, f, At(o, SeekCluster(v, o, z), z))
               s == <<w>>
    <3>2. v.obj[f].open /\ z \in Nat /\ z <= v.obj[f].valid
      BY <2>2, <2>5, <2>11, <3>1 DEF Seek
    <3>3. Leads(s, FALSE)
      BY <2>2, <3>1 DEF At
    <3>4. w \in Done(x)
      BY <2>1, <3>2, SeekIs
    <3> HIDE DEF w
    <3>5. Continues(s, cuts)
      BY <3>4, OneStep
    <3> HIDE DEF s
    <3> QED  BY <2>1, <3>3, <3>5, LeadsOn
  <2>12. CASE TruncateFile(f)
    <3> DEFINE s == Truncate(v, f)
    <3>1. Leads(s, TRUE) /\ v.obj[f].open
      BY <2>2, <2>12 DEF TruncateFile
    <3>2. Finishes(s, Done(x))
      BY <2>1, <3>1, TruncateIs
    <3> HIDE DEF s
    <3> QED  BY <2>1, <3>1, <3>2, LeadsAway
  <2>13. CASE RemoveFile(f)
    <3> DEFINE s == Removed(v, f)
    <3>1. Leads(s, TRUE) /\ v.obj[f].open
      BY <2>2, <2>13 DEF RemoveFile
    <3>2. Finishes(s, Done(x))
      BY <2>1, <3>1, RemovedIs
    <3> HIDE DEF s
    <3> QED  BY <2>1, <3>1, <3>2, LeadsAway
  <2>14. CASE PreAllocateFile(f)
    <3>1. PICK n \in 1 .. MaxUnits : Leads(PreAllocate(volume, f, n), FALSE)
      BY <2>14 DEF PreAllocateFile
    <3>2. v.obj[f].open /\ v.obj[f].first = 0
      BY <2>2, <2>14 DEF PreAllocateFile
    <3> DEFINE s == PreAllocate(v, f, n)
    <3>3. n \in Nat \ {0}
      BY <3>1
    <3>4. s = <<Without(v, 0)>> \/ Succeeds(s, Done(x))
      BY <2>1, <3>2, <3>3, PreAllocateIs
    <3>5. Leads(s, FALSE)
      BY <3>1
    <3> HIDE DEF s
    <3>6. CASE Succeeds(s, Done(x))
      <4>1. Continues(s, cuts)
        BY <3>6, SucceedsOn
      <4> QED  BY <2>1, <3>5, <4>1, LeadsOn
    <3>7. CASE s = <<Without(v, 0)>>
      <4> DEFINE w == Without(v, 0)
                 r == IF From(v, 0) = 2 THEN "hangs" ELSE "fails"
      <4>1. w = Says(v, r) /\ r \in {"ok", "fails", "hangs"}
        BY DEF Without, Says
      <4>2. v \in Good
        BY <2>1, AllGood
      <4> HIDE DEF r
      <4>3. w \in Good /\ w.result = r
        BY <2>4, <4>1, <4>2, FineIs
      <4>4. Fine(w) = v
        <5>1. Fine(w) = Says(v, "ok")
          BY <4>1 DEF Fine, Says
        <5>2. Fine(v) = v
          BY <2>1, DoneFine
        <5> QED  BY <5>1, <5>2 DEF Fine
      <4>5. w.result # "ok"
        BY <4>3 DEF r
      <4> HIDE DEF w
      <4>6. s \in Seq(Good) /\ s # <<>> /\ Last(s) = w
        BY <3>7, <4>3, StepLists DEF w
      <4>7. Continues(s, cuts)
        BY <2>1, <4>4, <4>5, <4>6 DEF Continues
      <4> QED  BY <2>1, <3>5, <4>7, LeadsOn
    <3> QED  BY <3>4, <3>6, <3>7
  <2> QED  BY <2>3, <2>6, <2>7, <2>8, <2>9, <2>10, <2>11, <2>12, <2>13, <2>14
<1>2. CASE half = "full" /\ \E f \in Files : RemoveFile(f)
  <2>1. PICK f \in Files : RemoveFile(f)
    BY <1>2
  <2>2. Leads(Removed(volume, f), TRUE)
    BY <2>1 DEF RemoveFile
  <2> QED  BY <1>2, <2>2, LeadsNowhere
<1>3. CASE UNCHANGED vars
  BY <1>3 DEF vars, Inv, volume
<1> QED  BY <1>1, <1>2, <1>3 DEF Next

-----------------------------------------------------------------------------
(* The properties.                                                         *)

\* What the model lists is the list.
LEMMA ListIs ==
  ASSUME NEW r, NEW l, NEW n \in Nat, r.len \in Nat, r.contig \in BOOLEAN, Follows(volume, r, l, n),
         \A i \in 0 .. n - 1 : l[i] \in Clusters, Once(l, n)
  PROVE  /\ Len(ClusterList(r)) = n /\ \A i \in 1 .. n : ClusterList(r)[i] = l[i - 1]
         /\ Range(ClusterList(r)) = Mine(l, n)
<1> DEFINE k == [i \in 1 .. n |-> l[i - 1]]
           c == ClusterList(r)
<1>1. Len(k) = n /\ DOMAIN k = 1 .. n /\ \A i \in 1 .. n : k[i] = l[i - 1]
  OBVIOUS
<1>2. Range(k) = Mine(l, n)
  <2>1. \A i \in 1 .. n : i - 1 \in 0 .. n - 1
    OBVIOUS
  <2>2. \A i \in 0 .. n - 1 : i + 1 \in 1 .. n /\ i + 1 - 1 = i
    OBVIOUS
  <2> HIDE DEF k
  <2>3. Range(k) \subseteq Mine(l, n)
    BY <2>1, <1>1 DEF Range, Mine
  <2>4. Mine(l, n) \subseteq Range(k)
    <3> SUFFICES ASSUME NEW i \in 0 .. n - 1 PROVE l[i] \in Range(k)
      BY DEF Mine
    <3>1. i + 1 \in DOMAIN k /\ k[i + 1] = l[i]
      BY <2>2, <1>1
    <3> QED  BY <3>1 DEF Range
  <2> QED  BY <2>3, <2>4
<1>3. c = k
  <2>1. CASE r.first = 0
    <3>1. n = 0
      BY <2>1 DEF Follows
    <3>2. c = <<>>
      BY <2>1 DEF ClusterList
    <3>3. k = <<>>
      BY <3>1
    <3> QED  BY <3>2, <3>3
  <2>2. CASE r.first # 0 /\ r.contig
    <3>1. n = (r.len + Units - 1) \div Units /\ \A i \in 0 .. n - 1 : l[i] = r.first + i
      BY <2>2 DEF Follows, Count
    <3>2. c = [i \in 1 .. n |-> r.first + i - 1]
      BY <2>2, <3>1 DEF ClusterList
    <3>3. \A i \in 1 .. n : i - 1 \in 0 .. n - 1
      OBVIOUS
    <3>4. \A i \in 1 .. n : r.first + i - 1 = l[i - 1]
      <4> TAKE i \in 1 .. n
      <4>1. l[i - 1] = r.first + (i - 1)
        BY <3>1, <3>3
      <4>2. l[0] = r.first /\ n > 0
        BY <2>2 DEF Follows
      <4>3. r.first \in Int
        BY <4>2, NoCluster
      <4> QED  BY <4>1, <4>3
    <3> QED  BY <3>2, <3>4
  <2>3. CASE r.first # 0 /\ ~r.contig
    <3>1. n > 0 /\ l[0] = r.first
      BY <2>3 DEF Follows
    <3>2. Linear(volume, l, n)
      BY <2>3, <3>1 DEF Follows, Linear, Once
    <3>3. Chain(volume, l[0]) = k
      BY <3>1, <3>2, ChainIs
    <3>4. c = Chain(volume, r.first)
      BY <2>3 DEF ClusterList
    <3> QED  BY <3>1, <3>3, <3>4
  <2> QED  BY <2>1, <2>2, <2>3
<1> HIDE DEF k, c
<1> QED  BY <1>1, <1>2, <1>3 DEF c

\* A file that is right is held.
LEMMA HoldsIs ==
  ASSUME volume \in Volumes, NEW f \in Files, NEW r, NEW l, NEW n \in Nat, r.len \in Nat, r.valid \in Nat, r.contig \in BOOLEAN,
         Follows(volume, r, l, n), Right(volume, f, r, l),
         \A i \in 0 .. n - 1 : l[i] \in Clusters, Once(l, n)
  PROVE  Holds(f, r)
<1>1. Len(ClusterList(r)) = n /\ \A i \in 1 .. n : ClusterList(r)[i] = l[i - 1]
  BY ListIs
<1>2. volume.data = data
  BY DEF volume
<1>3. ASSUME NEW u \in 0 .. r.valid - 1
      PROVE  /\ u \div Units < Len(ClusterList(r))
             /\ data[ClusterList(r)[u \div Units + 1]][u % Units] = <<f, u>>
  <2> DEFINE a == u \div Units
  <2>1. u \in Nat /\ u < r.len
    BY DEF Right
  <2>2. a \in 0 .. n - 1
    <3> DEFINE v == volume
    <3>1. v \in Volumes /\ Follows(v, r, l, n)
      OBVIOUS
    <3> HIDE DEF v
    <3> QED  BY <2>1, <3>1, UnitIn
  <2>3. data[l[a]][u % Units] = <<f, u>>
    BY <1>2 DEF Right
  <2> HIDE DEF a
  <2>4. a + 1 \in 1 .. n /\ a + 1 - 1 = a
    BY <2>2
  <2> DEFINE j == a + 1
  <2> HIDE DEF j
  <2>5. j \in 1 .. n /\ j - 1 = a
    BY <2>2, <2>4 DEF j
  <2>6. ClusterList(r)[j] = l[a]
    BY <1>1, <2>5
  <2>7. a < Len(ClusterList(r))
    BY <1>1, <2>2
  <2> QED  BY <2>3, <2>6, <2>7 DEF a, j
<1> QED  BY <1>3 DEF Holds

\* What every file's view says between two calls.
LEMMA ViewIs ==
  ASSUME NEW L \in Lists, NEW N \in Lengths, Sound(volume, L, N), NEW f \in Files
  PROVE  /\ N[f] \in Nat /\ L[f] \in [Nat -> Int]
         /\ View(f).len \in Nat /\ View(f).valid \in Nat /\ View(f).contig \in BOOLEAN
         /\ Follows(volume, View(f), L[f], N[f]) /\ Right(volume, f, View(f), L[f])
         /\ (\A i \in 0 .. N[f] - 1 : L[f][i] \in Clusters) /\ Once(L[f], N[f])
         /\ obj[f].open => OpenOk(volume, f, obj[f], L[f], N[f])
         /\ ~obj[f].open => obj[f] = Closed
         /\ Range(ClusterList(View(f))) = Mine(L[f], N[f])
<1>1. volume \in Volumes /\ Apart(volume, L, N) /\ FileOk(volume, f, L[f], N[f])
  BY DEF Sound
<1>2. volume.entry = entry /\ volume.obj = obj
  BY DEF volume
<1>3. obj[f] \in Objects /\ entry[f] \in Entries
  BY <1>1, <1>2, VolumeIs
<1>4. N[f] \in Nat /\ L[f] \in [Nat -> Int] /\ Once(L[f], N[f])
  BY <1>1, Parts
<1>5. \A i \in 0 .. N[f] - 1 : L[f][i] \in Clusters
  BY <1>1, ItemsIn
<1>6. obj[f].open => OpenOk(volume, f, obj[f], L[f], N[f])
  BY <1>1, <1>2 DEF FileOk
<1>7. ~obj[f].open => obj[f] = Closed /\ EntryOk(volume, f, L[f], N[f])
  BY <1>1, <1>2 DEF FileOk
<1>8. /\ View(f).len \in Nat /\ View(f).valid \in Nat /\ View(f).contig \in BOOLEAN
      /\ Follows(volume, View(f), L[f], N[f]) /\ Right(volume, f, View(f), L[f])
  <2>1. CASE obj[f].open
    <3>1. View(f) = obj[f]
      BY <2>1 DEF View
    <3>2. Follows(volume, obj[f], L[f], N[f]) /\ Right(volume, f, obj[f], L[f])
      BY <2>1, <1>6 DEF OpenOk
    <3> QED  BY <3>1, <3>2, <1>3, FieldsOf
  <2>2. CASE ~obj[f].open
    <3>1. View(f) = entry[f]
      BY <2>2 DEF View
    <3>2. Follows(volume, entry[f], L[f], N[f]) /\ Right(volume, f, entry[f], L[f])
      BY <2>2, <1>2, <1>7 DEF EntryOk
    <3>3. entry[f].len \in Nat /\ entry[f].valid \in Nat /\ entry[f].contig \in BOOLEAN
      BY <1>3 DEF Entries
    <3> QED  BY <3>1, <3>2, <3>3
  <2> QED  BY <2>1, <2>2
<1>9. Range(ClusterList(View(f))) = Mine(L[f], N[f])
  <2> DEFINE r == View(f)
             l == L[f]
             n == N[f]
  <2> HIDE DEF r, l, n
  <2>1. /\ n \in Nat /\ r.len \in Nat /\ r.contig \in BOOLEAN /\ Follows(volume, r, l, n)
        /\ (\A i \in 0 .. n - 1 : l[i] \in Clusters) /\ Once(l, n)
    BY <1>4, <1>5, <1>8 DEF r, l, n
  <2>2. Range(ClusterList(r)) = Mine(l, n)
    BY <2>1, ListIs
  <2> QED  BY <2>2 DEF r, l, n
<1> QED  BY <1>4, <1>5, <1>6, <1>7, <1>8, <1>9

\* The bitmap is right.
LEMMA InvBitmap ==
  ASSUME Inv
  PROVE  BitmapRight
<1> SUFFICES ASSUME half = "none"
             PROVE  /\ \A f \in Files : LET own == Range(ClusterList(View(f))) IN
                         /\ own \subseteq used \ System
                         /\ \A g \in Files \ {f} : own \cap Range(ClusterList(View(g))) = {}
                         /\ obj[f].open /\ obj[f].pos > 0 =>
                              obj[f].cur = ClusterList(obj[f])[(obj[f].pos - 1) \div Units + 1]
                    /\ cuts = 0 => used = System \cup UNION {Range(ClusterList(View(f))) : f \in Files}
  BY DEF BitmapRight
<1>1. volume \in Done(cuts = 0)
  BY DEF Inv
<1>2. PICK L \in Lists, N \in Lengths : Sound(volume, L, N) /\ (cuts = 0 => Owned(volume, L, N))
  BY <1>1 DEF Done
<1>3. volume \in Volumes /\ Apart(volume, L, N) /\ System \subseteq volume.used
  BY <1>2 DEF Sound
<1>4. volume.used = used /\ volume.obj = obj
  BY DEF volume
<1>5. \A f \in Files : Range(ClusterList(View(f))) = Mine(L[f], N[f])
  BY <1>2, ViewIs
<1>6. \A f \in Files : Mine(L[f], N[f]) \subseteq used \ System
  <2> TAKE f \in Files
  <2>1. Mine(L[f], N[f]) \subseteq volume.used /\ Mine(L[f], N[f]) \cap System = {}
    BY <1>2, <1>3, Parts
  <2> QED  BY <2>1, <1>4
<1>7. \A f \in Files : \A g \in Files \ {f} : Mine(L[f], N[f]) \cap Mine(L[g], N[g]) = {}
  <2> TAKE f \in Files
  <2>1. Mine(L[f], N[f]) \cap Others(L, N, f) = {}
    BY <1>2, <1>3, Parts
  <2> QED  BY <2>1 DEF Others
<1>8. ASSUME NEW f \in Files, obj[f].open, obj[f].pos > 0
      PROVE  obj[f].cur = ClusterList(obj[f])[(obj[f].pos - 1) \div Units + 1]
  <2> DEFINE o == obj[f]
             l == L[f]
             n == N[f]
             a == (o.pos - 1) \div Units
  <2>1. View(f) = o
    BY <1>8 DEF View
  <2>2. /\ n \in Nat /\ o.len \in Nat /\ o.contig \in BOOLEAN /\ Follows(volume, o, l, n)
        /\ (\A i \in 0 .. n - 1 : l[i] \in Clusters) /\ Once(l, n) /\ OpenOk(volume, f, o, l, n)
    BY <1>2, <1>8, <2>1, ViewIs
  <2>3. o \in Objects
    BY <1>3, <1>4, VolumeIs
  <2> HIDE DEF l, n, o
  <2>4. o.pos > 0
    BY <1>8 DEF o
  <2>5. a \in 0 .. n - 1 /\ o.cur = l[a]
    BY <1>3, <2>2, <2>3, <2>4, CurIs
  <2>6. \A i \in 1 .. n : ClusterList(o)[i] = l[i - 1]
    BY <2>2, ListIs
  <2> HIDE DEF a
  <2>7. a + 1 \in 1 .. n /\ a + 1 - 1 = a
    BY <2>2, <2>5
  <2>8. o.cur = ClusterList(o)[a + 1]
    BY <2>5, <2>6, <2>7
  <2> QED  BY <2>8 DEF o, a
<1>9. ASSUME cuts = 0
      PROVE  used = System \cup UNION {Range(ClusterList(View(f))) : f \in Files}
  <2>1. Owned(volume, L, N)
    BY <1>2, <1>9
  <2>2. ASSUME NEW c \in used, c \notin System
        PROVE  \E f \in Files : c \in Range(ClusterList(View(f)))
    <3>1. PICK f \in Files : \E i \in 0 .. N[f] - 1 : L[f][i] = c
      BY <1>4, <2>1, <2>2 DEF Owned
    <3>2. c \in Mine(L[f], N[f])
      BY <3>1 DEF Mine
    <3> QED  BY <3>2, <1>5
  <2>3. System \subseteq used
    BY <1>3, <1>4
  <2>4. \A f \in Files : Range(ClusterList(View(f))) \subseteq used
    BY <1>5, <1>6
  <2> QED  BY <2>2, <2>3, <2>4
<1> QED  BY <1>5, <1>6, <1>7, <1>8, <1>9

\* What the entries and the objects promise is there.
LEMMA InvReadable ==
  ASSUME Inv
  PROVE  EntryReadable
<1> SUFFICES ASSUME NEW f \in Files
             PROVE  /\ half = "none" => Holds(f, obj[f])
                    /\ half \in {"none", "error"} => Holds(f, entry[f])
  BY DEF EntryReadable
<1>1. ASSUME half = "none" PROVE Holds(f, obj[f])
  <2>1. volume \in Done(cuts = 0)
    BY <1>1 DEF Inv
  <2>2. PICK L \in Lists, N \in Lengths : Sound(volume, L, N)
    BY <2>1 DEF Done
  <2>3. CASE obj[f].open
    <3> DEFINE o == obj[f]
               l == L[f]
               n == N[f]
    <3>1. View(f) = o
      BY <2>3 DEF View
    <3>2. volume \in Volumes
      BY <2>2 DEF Sound
    <3>3. /\ n \in Nat /\ o.len \in Nat /\ o.valid \in Nat /\ o.contig \in BOOLEAN
          /\ Follows(volume, o, l, n) /\ Right(volume, f, o, l)
          /\ (\A i \in 0 .. n - 1 : l[i] \in Clusters) /\ Once(l, n)
      BY <2>2, <3>1, ViewIs
    <3> HIDE DEF l, n, o
    <3>4. Holds(f, o)
      BY <3>2, <3>3, HoldsIs
    <3> QED  BY <3>4 DEF o
  <2>4. CASE ~obj[f].open
    <3>1. obj[f] = Closed
      BY <2>2, <2>4, ViewIs
    <3>2. 0 .. Closed.valid - 1 = {}
      BY ClosedIs
    <3> QED  BY <3>1, <3>2 DEF Holds
  <2> QED  BY <2>3, <2>4
<1>2. ASSUME half \in {"none", "error"} PROVE Holds(f, entry[f])
  <2>1. volume \in Good
    <3>1. CASE half = "none"
      BY <3>1, AllGood DEF Inv
    <3>2. CASE half = "error"
      BY <3>2 DEF Inv
    <3> QED  BY <1>2, <3>1, <3>2
  <2>2. PICK L \in Lists, N \in Lengths : Stored(volume, L, N)
    BY <2>1 DEF Good
  <2> DEFINE e == entry[f]
             l == L[f]
             n == N[f]
  <2>3. volume \in Volumes /\ Apart(volume, L, N) /\ EntryOk(volume, f, l, n)
    BY <2>2 DEF Stored
  <2>4. volume.entry = entry
    BY DEF volume
  <2>5. e \in Entries
    BY <2>3, <2>4, VolumeIs
  <2>6. n \in Nat /\ Once(l, n)
    BY <2>2, <2>3, Parts
  <2>7. \A i \in 0 .. n - 1 : l[i] \in Clusters
    BY <2>3, ItemsIn
  <2>8. Follows(volume, e, l, n) /\ Right(volume, f, e, l)
    BY <2>3, <2>4 DEF EntryOk
  <2>9. e.len \in Nat /\ e.valid \in Nat /\ e.contig \in BOOLEAN
    BY <2>5 DEF Entries
  <2> HIDE DEF e, l, n
  <2>10. Holds(f, e)
    BY <2>3, <2>6, <2>7, <2>8, <2>9, HoldsIs
  <2> QED  BY <2>10 DEF e
<1> QED  BY <1>1, <1>2

\* Between two calls the volume is sound, and after an error half way the entries are.
THEOREM ExFatInvariance == Spec => []Inv
<1>1. Init => Inv
  BY InitIs
<1>2. Inv /\ [Next]_vars => Inv'
  BY NextIs
<1> QED  BY <1>1, <1>2, PTL DEF Spec

\* Whatever is created, written, truncated, preallocated and removed, and wherever a call is cut:
\* each cluster has one owner and is marked, and the current cluster is that of the position.
THEOREM BitmapAlwaysRight == Spec => []BitmapRight
<1>1. Inv => BitmapRight
  BY InvBitmap
<1> QED  BY <1>1, ExFatInvariance, PTL

\* An open file holds what was written to it, and an entry what it promises.
THEOREM EntriesAlwaysReadable == Spec => []EntryReadable
<1>1. Inv => EntryReadable
  BY InvReadable
<1> QED  BY <1>1, ExFatInvariance, PTL
=============================================================================
