------------------------ MODULE FatPartition_proofs ------------------------
(***************************************************************************)
(* Proofs about FatPartition for every number of clusters, every set of    *)
(* files and every number of failing accesses.                             *)
(*                                                                         *)
(* IInv is inductive.  Its heart is the pair LinksStayInFile / NoCycle:    *)
(* the owner of a cluster never changes along a link, hence the clusters   *)
(* of one owner are closed under links and contain every chain that owner  *)
(* heads; ChainsDisjoint and ChainsAllocated follow with no induction      *)
(* along the chain.                                                        *)
(***************************************************************************)
EXTENDS FatPartition, FiniteSetTheorems, TLAPS

-----------------------------------------------------------------------------
(* Facts about numbers and sets.                                           *)

\* A non-empty set of cluster numbers has a greatest member.
LEMMA GreatestCluster ==
  ASSUME NEW n \in Nat, NEW T \in SUBSET (0 .. n), T # {}
  PROVE  \E m \in T : \A t \in T : t <= m
<1> DEFINE U == {n - t : t \in T}
<1>1. U \subseteq Nat /\ U # {}
  <2>1. \A t \in T : t \in 0 .. n /\ n - t \in Nat
    OBVIOUS
  <2> QED  BY <2>1, Zenon
<1>2. PICK u \in U : \A v \in U : ~(<<v, u>> \in OpToRel(<, Nat))
  BY <1>1, NatLessThanWellFounded, WFMin
<1>3. ASSUME NEW v \in U
      PROVE  u <= v
  <2>1. <<v, u>> \notin {ss \in Nat \X Nat : ss[1] < ss[2]}
    BY <1>2, Zenon DEF OpToRel
  <2>2. u \in Nat /\ v \in Nat
    BY <1>1
  <2> HIDE DEF U
  <2> QED  BY <2>1, <2>2
<1>4. PICK m \in T : u = n - m
  BY <1>2
<1>5. \A t \in T : t <= m
  BY <1>3, <1>4
<1> QED  BY <1>5

\* There are finitely many clusters.
LEMMA ClustersFinite ==
  /\ IsFiniteSet(Clusters)
  /\ 0 \notin Clusters /\ EOC \notin Clusters /\ EOC # 0
BY FS_Interval, LastClusterAssumption DEF Clusters, EOC

\* Every chain of f lies in every set that holds the head and is closed.
LEMMA FromIsLeast ==
  ASSUME NEW h, NEW S \in SUBSET Clusters, ClosedFrom(h, S)
  PROVE  From(h) \subseteq S
BY DEF From

\* The clusters of a file are allocated for it.
LEMMA ChainOwned ==
  ASSUME Sound, NEW f \in Files
  PROVE  \A c \in Chain(f) : c \in Clusters /\ fat[c] # 0 /\ owner[c] = f
<1> DEFINE S == {c \in Clusters : fat[c] # 0 /\ owner[c] = f}
<1>1. ClosedFrom(firstCluster[f], S)
  BY ClustersFinite DEF Sound, HeadsAllocated, LinksStayInFile, ClosedFrom, TableOK
<1> QED  BY <1>1, FromIsLeast DEF Chain

\* Nothing leads to a free cluster.
LEMMA FreeUnreferenced ==
  ASSUME Sound, NEW d \in Clusters, fat[d] = 0
  PROVE  /\ \A c \in Clusters : fat[c] # d
         /\ \A f \in Files : firstCluster[f] # d
         /\ freeing # d
BY ClustersFinite DEF Sound, HeadsAllocated, LinksStayInFile, FreeingDetached

\* What the search of allocateCluster returns.
LEMMA SearchFindsFree ==
  ASSUME NEW current \in Clusters \cup {0}, NEW find \in Clusters, NEW setStart \in BOOLEAN,
         Search(current, find, setStart)
  PROVE  fat[find] = 0
BY DEF Search, Least, FreeIn, Free

\* Whatever the search returned, the search start stays in range.
LEMMA SearchStartInRange ==
  ASSUME TableOK, NEW to \in Clusters, NEW setStart \in BOOLEAN, MoveSearchStart(setStart, to)
  PROVE  allocSearchStart' \in 1 .. LastCluster
BY LastClusterAssumption DEF TableOK, MoveSearchStart, Clusters

-----------------------------------------------------------------------------
(* The table and the objects while no freed head was read back.           *)

\* AllocateCluster keeps Sound.
LEMMA AllocateClusterSound ==
  ASSUME Sound, TableOK', NEW f \in Files, NEW current \in {0} \cup Clusters,
         AllocateCluster(f, current)
  PROVE  Sound'
<1> USE DEF Sound
<1>1. PICK find \in Clusters, setStart \in BOOLEAN :
        /\ Search(current, find, setStart)
        /\ MoveSearchStart(setStart, find)
        /\ fat' = Linked(current, find)
        /\ owner' = [owner EXCEPT ![find] = f]
        /\ firstCluster' = [firstCluster EXCEPT ![f] = IF current = 0 THEN find ELSE @]
  BY DEF AllocateCluster
<1>2. fat[find] = 0
  BY <1>1, SearchFindsFree
<1>3. /\ freeing = 0 /\ freeing' = 0
      /\ \/ current = 0 /\ firstCluster[f] = 0
         \/ current \in Clusters /\ fat[current] = EOC /\ owner[current] = f
  BY ChainOwned DEF AllocateCluster, ExtendsChain
<1>4. current # find
  BY <1>2, <1>3, ClustersFinite
<1>5. \A c \in Clusters : fat'[c] = IF c = find THEN EOC ELSE IF c = current THEN find ELSE fat[c]
  BY <1>1 DEF Linked
<1>6. \A c \in Clusters : owner'[c] = IF c = find THEN f ELSE owner[c]
  BY <1>1 DEF TableOK
<1>7. \A g \in Files :
        firstCluster'[g] = IF g = f /\ current = 0 THEN find ELSE firstCluster[g]
  BY <1>1 DEF TableOK
<1>8. TableOK'
  OBVIOUS
<1>9. HeadsAllocated'
  BY <1>2, <1>3, <1>4, <1>5, <1>6, <1>7, ClustersFinite, FreeUnreferenced
     DEF HeadsAllocated, TableOK
<1>10. LinksStayInFile'
  BY <1>2, <1>3, <1>4, <1>5, <1>6, ClustersFinite, FreeUnreferenced DEF LinksStayInFile
<1>11. LinksInjective'
  BY <1>2, <1>3, <1>4, <1>5, ClustersFinite, FreeUnreferenced DEF LinksInjective
<1>12. FreeingDetached'
  BY <1>3 DEF FreeingDetached
<1>13. NoCycle'
  BY <1>2, <1>3, <1>4, <1>5, ClustersFinite DEF NoCycle
<1> QED  BY <1>8, <1>9, <1>10, <1>11, <1>12, <1>13


\* AllocateClusterUnlinked keeps Sound.
LEMMA AllocateClusterUnlinkedSound ==
  ASSUME Sound, TableOK', NEW f \in Files, NEW current \in {0} \cup Clusters,
         AllocateClusterUnlinked(f, current)
  PROVE  Sound'
<1> USE DEF Sound
<1>1. PICK find \in Clusters, setStart \in BOOLEAN :
        /\ Search(current, find, setStart)
        /\ MoveSearchStart(setStart, find)
        /\ fat' = HalfLinked(current, find)
        /\ owner' = [owner EXCEPT ![find] = NoFile]
  BY DEF AllocateClusterUnlinked
<1>2. fat[find] = 0
  BY <1>1, SearchFindsFree
<1>3. firstCluster' = firstCluster /\ freeing' = freeing
  BY DEF AllocateClusterUnlinked
<1>4. \A c \in Clusters : fat'[c] = IF c = find THEN EOC ELSE fat[c]
  BY <1>1 DEF HalfLinked, TableOK
<1>5. \A c \in Clusters : owner'[c] = IF c = find THEN NoFile ELSE owner[c]
  BY <1>1 DEF TableOK
<1>6. TableOK'
  OBVIOUS
<1>7. HeadsAllocated' /\ FreeingDetached'
  BY <1>2, <1>3, <1>4, <1>5, ClustersFinite, FreeUnreferenced
     DEF HeadsAllocated, FreeingDetached, TableOK
<1>8. LinksStayInFile' /\ LinksInjective'
  BY <1>2, <1>4, <1>5, ClustersFinite, FreeUnreferenced DEF LinksStayInFile, LinksInjective
<1>9. NoCycle'
  BY <1>2, <1>4, ClustersFinite DEF NoCycle
<1> QED  BY <1>6, <1>7, <1>8, <1>9

\* The effect of allocContiguous on the table, whole (from = bgn) or cut short.
LEMMA ContiguousLinks ==
  ASSUME Sound, NEW from \in Clusters, NEW end \in Clusters, from <= end,
         NEW o \in Files \cup {NoFile},
         \A c \in from .. end : fat[c] = 0,
         fat' = ContiguousFrom(from, end),
         owner' = [c \in Clusters |-> IF c \in from .. end THEN o ELSE owner[c]]
  PROVE  /\ fat' \in [Clusters -> Entry]
         /\ LinksStayInFile' /\ LinksInjective' /\ NoCycle'
         /\ \A c \in Clusters : c \in from .. end =>
              fat'[c] # 0 /\ owner'[c] = o /\ fat'[c] \in (from + 1 .. end) \cup {EOC}
         /\ \A c \in Clusters : c \notin from .. end => fat'[c] = fat[c] /\ owner'[c] = owner[c]
<1> USE DEF Sound
<1>1. \A c \in Clusters : c \in from .. end => fat'[c] = IF c = end THEN EOC ELSE c + 1
  BY LastClusterAssumption DEF ContiguousFrom, Clusters
<1>2. \A c \in Clusters : c \notin from .. end => fat'[c] = fat[c] /\ owner'[c] = owner[c]
  BY LastClusterAssumption DEF ContiguousFrom, Clusters
<1>3. from .. end \subseteq Clusters /\ from \in Int /\ end \in Int /\ Clusters \subseteq Int
  BY LastClusterAssumption DEF Clusters
<1>4. \A c \in from .. end : owner'[c] = o
  BY <1>3
<1>5. \A c \in from .. end : fat'[c] \in (from + 1 .. end) \cup {EOC} /\ fat'[c] # 0
  BY <1>1, <1>3, ClustersFinite DEF Clusters
<1>6. fat' \in [Clusters -> Entry]
  BY <1>3, LastClusterAssumption DEF TableOK, Entry, ContiguousFrom, Clusters, EOC
<1>7. \A c \in Clusters, d \in from .. end : fat[c] # d
  BY <1>3, FreeUnreferenced
<1>8. \A c \in from .. end : fat'[c] \in Clusters => fat'[c] \in from .. end
  BY <1>3, <1>5, ClustersFinite
<1>9. LinksStayInFile'
  <2> SUFFICES ASSUME NEW c \in Clusters, fat'[c] \in Clusters
               PROVE  fat'[fat'[c]] # 0 /\ owner'[fat'[c]] = owner'[c]
    BY DEF LinksStayInFile
  <2>1. CASE c \in from .. end
    BY <2>1, <1>4, <1>5, <1>8
  <2>2. CASE c \notin from .. end
    <3>1. fat'[c] = fat[c] /\ owner'[c] = owner[c] /\ fat[c] \notin from .. end
      BY <2>2, <1>2, <1>7
    <3> QED  BY <3>1, <1>2 DEF LinksStayInFile
  <2> QED  BY <2>1, <2>2
<1>10. LinksInjective'
  <2> SUFFICES ASSUME NEW c \in Clusters, NEW d \in Clusters,
                      fat'[c] \in Clusters, fat'[c] = fat'[d]
               PROVE  c = d
    BY DEF LinksInjective
  <2>1. CASE c \in from .. end /\ d \in from .. end
    BY <2>1, <1>1, <1>3, ClustersFinite
  <2>2. CASE c \notin from .. end /\ d \notin from .. end
    BY <2>2, <1>2 DEF LinksInjective
  <2>3. CASE ~(c \in from .. end <=> d \in from .. end)
    BY <2>3, <1>2, <1>7, <1>8
  <2> QED  BY <2>1, <2>2, <2>3
<1>11. NoCycle'
  <2> SUFFICES ASSUME NEW S \in SUBSET Clusters, S # {}
               PROVE  \E c \in S : fat'[c] \notin S
    BY DEF NoCycle
  <2> DEFINE T == S \cap (from .. end)
  <2>1. CASE T # {}
    <3>1. PICK m \in T : \A t \in T : t <= m
      <4>1. T \in SUBSET (0 .. LastCluster) /\ LastCluster \in Nat
        BY LastClusterAssumption DEF Clusters
      <4> QED  BY <2>1, <4>1, GreatestCluster
    <3>2. fat'[m] \notin T
      BY <3>1, <1>1, <1>3, ClustersFinite
    <3>3. fat'[m] \in (from .. end) \cup {EOC}
      BY <1>3, <1>5
    <3> QED  BY <3>2, <3>3, ClustersFinite
  <2>2. CASE T = {}
    BY <2>2, <1>2 DEF NoCycle
  <2> QED  BY <2>1, <2>2
<1> QED  BY <1>2, <1>4, <1>5, <1>6, <1>9, <1>10, <1>11

\* The run that allocContiguous found is free.
LEMMA RunIsFree ==
  ASSUME NEW count \in 1 .. LastCluster, NEW bgn \in Clusters, NEW end \in Clusters,
         Run(count, bgn, end)
  PROVE  bgn <= end /\ end - bgn + 1 = count /\ \A c \in bgn .. end : c \in Clusters /\ fat[c] = 0
BY LastClusterAssumption DEF Run, AllFree, Free, Clusters

\* AllocContiguous keeps Sound.
LEMMA AllocContiguousSound ==
  ASSUME Sound, TableOK', NEW f \in Files, NEW count \in 1 .. LastCluster, AllocContiguous(f, count)
  PROVE  Sound'
<1> USE DEF Sound
<1>1. PICK bgn \in Clusters, end \in Clusters :
        /\ Run(count, bgn, end)
        /\ MoveSearchStart(SkipsNoFree(bgn), end)
        /\ fat' = ContiguousFrom(bgn, end)
        /\ owner' = [c \in Clusters |-> IF c \in bgn .. end THEN f ELSE owner[c]]
        /\ firstCluster' = [firstCluster EXCEPT ![f] = bgn]
  BY DEF AllocContiguous
<1>2. bgn <= end /\ \A c \in bgn .. end : c \in Clusters /\ fat[c] = 0
  BY <1>1, RunIsFree
<1>3. /\ fat' \in [Clusters -> Entry]
      /\ LinksStayInFile' /\ LinksInjective' /\ NoCycle'
      /\ \A c \in Clusters : c \in bgn .. end =>
           fat'[c] # 0 /\ owner'[c] = f /\ fat'[c] \in (bgn + 1 .. end) \cup {EOC}
      /\ \A c \in Clusters : c \notin bgn .. end => fat'[c] = fat[c] /\ owner'[c] = owner[c]
  BY <1>1, <1>2, ContiguousLinks
<1>4. freeing = 0 /\ freeing' = 0
  BY DEF AllocContiguous
<1>5. TableOK'
  OBVIOUS
<1>6. bgn \in bgn .. end /\ bgn \notin (bgn + 1 .. end) \cup {EOC}
  BY <1>2, ClustersFinite DEF Clusters
<1>7. \A g \in Files : firstCluster'[g] = IF g = f THEN bgn ELSE firstCluster[g]
  BY <1>1 DEF TableOK
<1>8. \A g \in Files, c \in bgn .. end : firstCluster[g] # c /\ \A d \in Clusters : fat[d] # c
  BY <1>2, FreeUnreferenced
<1>9. HeadsAllocated'
  <2> SUFFICES ASSUME NEW g \in Files, firstCluster'[g] # 0
               PROVE  /\ fat'[firstCluster'[g]] # 0
                      /\ owner'[firstCluster'[g]] = g
                      /\ \A c \in Clusters : fat'[c] # firstCluster'[g]
    BY DEF HeadsAllocated
  <2>1. CASE g = f
    BY <2>1, <1>3, <1>6, <1>7, <1>8
  <2>2. CASE g # f
    <3>1. firstCluster'[g] = firstCluster[g] /\ firstCluster[g] \in Clusters
          /\ firstCluster[g] \notin bgn .. end
      BY <2>2, <1>7, <1>8 DEF TableOK
    <3>2. \A c \in bgn .. end : fat'[c] # firstCluster[g]
      <4>1. (bgn + 1 .. end) \subseteq bgn .. end
        BY DEF Clusters
      <4> QED  BY <3>1, <4>1, <1>2, <1>3, ClustersFinite
    <3> QED  BY <3>1, <3>2, <1>3 DEF HeadsAllocated
  <2> QED  BY <2>1, <2>2
<1>10. FreeingDetached'
  BY <1>4 DEF FreeingDetached
<1> QED  BY <1>3, <1>5, <1>9, <1>10

\* AllocContiguousFails keeps Sound.
LEMMA AllocContiguousFailsSound ==
  ASSUME Sound, TableOK', NEW f \in Files, NEW count \in 1 .. LastCluster, AllocContiguousFails(f, count)
  PROVE  Sound'
<1> USE DEF Sound
<1>1. firstCluster' = firstCluster /\ freeing' = freeing /\ freeing = 0
  BY DEF AllocContiguousFails
<1>2. TableOK'
  OBVIOUS
<1>3. CASE UNCHANGED <<fat, owner>>
  BY <1>1, <1>2, <1>3 DEF TableOK, HeadsAllocated, LinksStayInFile, LinksInjective,
     FreeingDetached, NoCycle
<1>4. ASSUME NEW bgn \in Clusters, NEW end \in Clusters, Run(count, bgn, end),
             NEW from \in (bgn + 1) .. end,
             fat' = ContiguousFrom(from, end),
             owner' = [c \in Clusters |-> IF c \in from .. end THEN NoFile ELSE owner[c]]
      PROVE  Sound'
  <2>1. from <= end /\ from \in Clusters /\ \A c \in from .. end : c \in Clusters /\ fat[c] = 0
    BY <1>4, RunIsFree, LastClusterAssumption DEF Clusters
  <2>2. /\ fat' \in [Clusters -> Entry]
        /\ LinksStayInFile' /\ LinksInjective' /\ NoCycle'
        /\ \A c \in Clusters : c \in from .. end =>
             fat'[c] # 0 /\ owner'[c] = NoFile /\ fat'[c] \in (from + 1 .. end) \cup {EOC}
        /\ \A c \in Clusters : c \notin from .. end => fat'[c] = fat[c] /\ owner'[c] = owner[c]
    <3>1. from \in Clusters /\ from <= end /\ \A c \in from .. end : fat[c] = 0
      BY <2>1
    <3>2. /\ fat' = ContiguousFrom(from, end)
          /\ owner' = [c \in Clusters |-> IF c \in from .. end THEN NoFile ELSE owner[c]]
      BY <1>4
    <3>3. NoFile \in Files \cup {NoFile}
      OBVIOUS
    <3> HIDE DEF Sound
    <3> QED  BY <3>1, <3>2, <3>3, ContiguousLinks, SMTT(60)
  <2>4. \A g \in Files, c \in from .. end : firstCluster[g] # c
    BY <2>1, FreeUnreferenced
  <2>5. HeadsAllocated'
    <3> SUFFICES ASSUME NEW g \in Files, firstCluster[g] # 0
                 PROVE  /\ fat'[firstCluster[g]] # 0
                        /\ owner'[firstCluster[g]] = g
                        /\ \A c \in Clusters : fat'[c] # firstCluster[g]
      BY <1>1 DEF HeadsAllocated
    <3>1. firstCluster[g] \in Clusters /\ firstCluster[g] \notin from .. end
      BY <2>4 DEF TableOK
    <3>2. \A c \in from .. end : fat'[c] # firstCluster[g]
      <4>1. (from + 1 .. end) \subseteq from .. end
        BY <2>1 DEF Clusters
      <4> QED  BY <3>1, <4>1, <2>1, <2>2, ClustersFinite
    <3> QED  BY <3>1, <3>2, <2>2 DEF HeadsAllocated
  <2> QED  BY <1>1, <1>2, <2>2, <2>5 DEF FreeingDetached
<1> QED  BY <1>3, <1>4 DEF AllocContiguousFails

\* FreeWhole keeps Sound.
LEMMA FreeWholeSound ==
  ASSUME Sound, TableOK', NEW f \in Files, FreeWhole(f)
  PROVE  Sound'
<1> USE DEF Sound
<1>1. /\ freeing' = firstCluster[f] /\ firstCluster[f] \in Clusters
      /\ \A g \in Files : firstCluster'[g] = IF g = f THEN 0 ELSE firstCluster[g]
      /\ UNCHANGED <<fat, owner>>
  BY DEF FreeWhole, TableOK
<1>2. TableOK'
  OBVIOUS
<1>3. HeadsAllocated' /\ FreeingDetached'
  BY <1>1, ClustersFinite DEF HeadsAllocated, FreeingDetached
<1> QED  BY <1>1, <1>2, <1>3 DEF LinksStayInFile, LinksInjective, NoCycle

\* FreeTail keeps Sound.
LEMMA FreeTailSound ==
  ASSUME Sound, TableOK', NEW f \in Files, NEW c \in Clusters, FreeTail(f, c)
  PROVE  Sound'
<1> USE DEF Sound
<1>1. /\ freeing = 0 /\ freeing' = fat[c] /\ fat[c] \in Clusters
      /\ \A d \in Clusters : fat'[d] = IF d = c THEN EOC ELSE fat[d]
      /\ UNCHANGED <<owner, firstCluster>>
  BY DEF FreeTail, TableOK
<1>2. TableOK'
  OBVIOUS
<1>3. HeadsAllocated' /\ LinksStayInFile' /\ LinksInjective' /\ NoCycle'
  BY <1>1, ClustersFinite DEF HeadsAllocated, LinksStayInFile, LinksInjective, NoCycle, TableOK
<1>4. FreeingDetached'
  BY <1>1, ClustersFinite
     DEF FreeingDetached, HeadsAllocated, LinksStayInFile, LinksInjective
<1> QED  BY <1>2, <1>3, <1>4

\* FreeChainStep keeps Sound.
LEMMA FreeChainStepSound ==
  ASSUME Sound, TableOK', FreeChainStep
  PROVE  Sound'
<1> USE DEF Sound
<1>1. /\ freeing \in Clusters
      /\ freeing' = IF fat[freeing] \in Clusters THEN fat[freeing] ELSE 0
      /\ \A c \in Clusters : fat'[c] = IF c = freeing THEN 0 ELSE fat[c]
      /\ \A c \in Clusters : owner'[c] = IF c = freeing THEN NoFile ELSE owner[c]
      /\ UNCHANGED firstCluster
  BY DEF FreeChainStep, TableOK, NextToFree
<1>2. TableOK'
  OBVIOUS
<1>3. /\ \A c \in Clusters : fat[c] # freeing
      /\ \A g \in Files : firstCluster[g] # freeing
      /\ \A g \in Files : firstCluster[g] # 0 => firstCluster[g] \in Clusters
  BY <1>1, ClustersFinite DEF FreeingDetached, TableOK
<1>4. HeadsAllocated'
  BY <1>1, <1>3, ClustersFinite DEF HeadsAllocated
<1>5. LinksStayInFile'
  <2> SUFFICES ASSUME NEW c \in Clusters, fat'[c] \in Clusters
               PROVE  fat'[fat'[c]] # 0 /\ owner'[fat'[c]] = owner'[c]
    BY DEF LinksStayInFile
  <2>1. c # freeing /\ fat'[c] = fat[c] /\ fat[c] # freeing
    BY <1>1, <1>3, ClustersFinite
  <2> QED  BY <2>1, <1>1 DEF LinksStayInFile
<1>6. LinksInjective'
  BY <1>1, ClustersFinite DEF LinksInjective
<1>7. NoCycle'
  BY <1>1, ClustersFinite DEF NoCycle
<1>8. FreeingDetached'
  <2>1. CASE fat[freeing] \in Clusters
    <3>1. fat[freeing] # freeing /\ fat[fat[freeing]] # 0
      BY <1>1, <1>3, <2>1 DEF LinksStayInFile
    <3>2. \A c \in Clusters : fat'[c] # fat[freeing]
      BY <1>1, <2>1, ClustersFinite DEF LinksInjective
    <3>3. \A g \in Files : firstCluster[g] # fat[freeing]
      BY <1>1, <1>3, <2>1, ClustersFinite DEF HeadsAllocated
    <3> QED  BY <1>1, <2>1, <3>1, <3>2, <3>3 DEF FreeingDetached
  <2>2. CASE fat[freeing] \notin Clusters
    BY <1>1, <2>2 DEF FreeingDetached
  <2> QED  BY <2>1, <2>2
<1> QED  BY <1>2, <1>4, <1>5, <1>6, <1>7, <1>8

\* The steps that leave the table, its owners and the heads alone.
LEMMA TableUnchangedSound ==
  ASSUME Sound, TableOK', UNCHANGED <<fat, owner, firstCluster>>, freeing' \in {0, freeing}
  PROVE  Sound'
BY DEF Sound, HeadsAllocated, FreeingDetached, LinksStayInFile, LinksInjective, NoCycle

\* An entry read back whose head is sound becomes a sound head.
LEMMA RereadSound ==
  ASSUME Sound, TableOK', NEW reread \in SUBSET Files, Reread(reread),
         \A f \in reread : SoundHead(f, entry[f])
  PROVE  Sound'
<1> USE DEF Sound
<1>1. /\ freeing = 0 /\ freeing' = 0 /\ UNCHANGED <<fat, owner>>
      /\ \A f \in Files : firstCluster'[f] = IF f \in reread THEN entry[f] ELSE firstCluster[f]
  BY DEF Reread
<1>2. HeadsAllocated'
  BY <1>1 DEF HeadsAllocated, SoundHead
<1> QED  BY <1>1, <1>2 DEF LinksStayInFile, LinksInjective, FreeingDetached, NoCycle

\* Every step keeps the table and the objects sound, unless it reads back an
\* entry whose head was freed.
LEMMA NextSound ==
  ASSUME Sound, TableOK', [Next]_vars, revivals' = revivals, revivals \in Nat
  PROVE  Sound'
<1>1. ASSUME NEW f \in Files, NEW current \in {0} \cup Clusters,
             AllocateClusterFull(f, current) \/ AllocateClusterFails(f, current)
      PROVE  Sound'
  BY <1>1, TableUnchangedSound DEF AllocateClusterFull, AllocateClusterFails
<1>2. ASSUME NEW f \in Files, NEW count \in 1 .. LastCluster, AllocContiguousFull(f, count)
      PROVE  Sound'
  BY <1>2, TableUnchangedSound DEF AllocContiguousFull
<1>3. ASSUME NEW f \in Files, NEW c \in Clusters, TruncateAtEnd(f, c)
      PROVE  Sound'
  <2>1. fat[c] \in {0, EOC} /\ fat \in [Clusters -> Entry] /\ fat[c] # 0
    BY <1>3, ChainOwned DEF TruncateAtEnd, Sound, TableOK, Entry
  <2>2. fat' = fat
    BY <1>3, <2>1 DEF TruncateAtEnd
  <2> QED  BY <1>3, <2>2, TableUnchangedSound DEF TruncateAtEnd
<1>4. ASSUME NEW f \in Files, Sync(f)
      PROVE  Sound'
  BY <1>4, TableUnchangedSound DEF Sync
<1>5. ASSUME NEW reread \in SUBSET Files, Reread(reread)
      PROVE  Sound'
  <2>1. \A f \in reread : SoundHead(f, entry[f])
    BY <1>5 DEF Reread
  <2> QED  BY <1>5, <2>1, RereadSound
<1>6. CASE FreeChainFails \/ FreeClusterCount \/ FreeClusterCountFails \/ UNCHANGED vars
  BY <1>6, TableUnchangedSound DEF FreeChainFails, FreeClusterCount, FreeClusterCountFails, vars
<1>7. CASE Mount
  BY <1>5, <1>7 DEF Mount
<1>8. ASSUME NEW f \in Files, Reopen(f)
      PROVE  Sound'
  BY <1>5, <1>8 DEF Reopen
<1> QED
  BY <1>1, <1>2, <1>3, <1>4, <1>6, <1>7, <1>8, AllocateClusterSound,
     AllocateClusterUnlinkedSound, AllocContiguousSound, AllocContiguousFailsSound,
     FreeWholeSound, FreeTailSound, FreeChainStepSound
     DEF Next, Allocate, PreAllocate

-----------------------------------------------------------------------------
(* The types, whatever the entries name.                                   *)

\* What sync leaves in the entries.
LEMMA SyncEndsTyped ==
  ASSUME TypeOK, NEW f \in Files, NEW head \in {0} \cup Clusters, SyncEnds(f, head)
  PROVE  /\ entry' \in [Files -> {0} \cup Clusters] /\ dirty' \subseteq Files
         /\ rtn' \in Returns /\ faults' \in Nat
BY DEF TypeOK, TableOK, EntriesOK, SyncEnds, Written, NoFault, Fault, Returns

\* A cluster was allocated, or half allocated.
LEMMA AllocateTyped ==
  ASSUME TypeOK, NEW f \in Files, NEW current \in {0} \cup Clusters,
         AllocateCluster(f, current) \/ AllocateClusterUnlinked(f, current)
  PROVE  TypeOK'
<1> USE DEF TypeOK, TableOK, EntriesOK, Returns
<1>1. PICK find \in Clusters, setStart \in BOOLEAN :
        /\ MoveSearchStart(setStart, find)
        /\ fat' \in {Linked(current, find), HalfLinked(current, find)}
        /\ owner' \in {[owner EXCEPT ![find] = f], [owner EXCEPT ![find] = NoFile]}
        /\ \/ firstCluster' = [firstCluster EXCEPT ![f] = IF current = 0 THEN find ELSE @]
           \/ firstCluster' = firstCluster
  BY DEF AllocateCluster, AllocateClusterUnlinked
<1>2. fat' \in [Clusters -> Entry]
  BY <1>1 DEF Linked, HalfLinked, Entry
<1>3. allocSearchStart' \in 1 .. LastCluster
  BY <1>1, SearchStartInRange
<1>4. owner' \in [Clusters -> Files \cup {NoFile}] /\ firstCluster' \in [Files -> {0} \cup Clusters]
  BY <1>1
<1>5. /\ freeClusterCount' \in Int /\ faults' \in Nat /\ rtn' \in Returns
      /\ dirty' \subseteq Files /\ UNCHANGED <<entry, revivals, freeing, truncated>>
  BY DEF AllocateCluster, AllocateClusterUnlinked, UpdateFreeClusterCount, Fault, NoFault, entries
<1> QED  BY <1>2, <1>3, <1>4, <1>5

\* A run was allocated, or the end of one.
LEMMA ContiguousTyped ==
  ASSUME TypeOK, NEW f \in Files, NEW count \in 1 .. LastCluster,
         AllocContiguous(f, count) \/ AllocContiguousFails(f, count)
  PROVE  TypeOK'
<1> USE DEF TypeOK, TableOK, EntriesOK, Returns
<1>1. ASSUME NEW from \in Clusters, NEW end \in Clusters
      PROVE  ContiguousFrom(from, end) \in [Clusters -> Entry]
  BY LastClusterAssumption DEF Entry, ContiguousFrom, Clusters, EOC
<1>2. ASSUME NEW bgn \in Clusters, NEW end \in Clusters, MoveSearchStart(SkipsNoFree(bgn), end)
      PROVE  allocSearchStart' \in 1 .. LastCluster
  <2>1. SkipsNoFree(bgn) \in BOOLEAN
    BY DEF SkipsNoFree
  <2> QED  BY <1>2, <2>1, SearchStartInRange
<1>3. \A bgn \in Clusters, end \in Clusters : (bgn + 1) .. end \subseteq Clusters
  BY LastClusterAssumption DEF Clusters
<1>4. /\ fat' \in [Clusters -> Entry] /\ allocSearchStart' \in 1 .. LastCluster
      /\ owner' \in [Clusters -> Files \cup {NoFile}]
      /\ firstCluster' \in [Files -> {0} \cup Clusters]
  <2>1. CASE AllocContiguous(f, count)
    BY <1>1, <1>2, <2>1 DEF AllocContiguous
  <2>2. CASE AllocContiguousFails(f, count)
    <3>1. UNCHANGED firstCluster
      BY <2>2 DEF AllocContiguousFails
    <3>2. CASE UNCHANGED <<fat, allocSearchStart, owner>>
      BY <3>1, <3>2
    <3>3. ASSUME NEW bgn \in Clusters, NEW end \in Clusters,
                 MoveSearchStart(SkipsNoFree(bgn), end),
                 \/ UNCHANGED <<fat, owner>>
                 \/ \E from \in (bgn + 1) .. end :
                      /\ fat' = ContiguousFrom(from, end)
                      /\ owner' = [c \in Clusters |-> IF c \in from .. end THEN NoFile ELSE owner[c]]
          PROVE  fat' \in [Clusters -> Entry] /\ allocSearchStart' \in 1 .. LastCluster
                 /\ owner' \in [Clusters -> Files \cup {NoFile}]
      <4>1. allocSearchStart' \in 1 .. LastCluster
        BY <1>2, <3>3
      <4>2. CASE UNCHANGED <<fat, owner>>
        BY <4>1, <4>2
      <4>3. ASSUME NEW from \in (bgn + 1) .. end, fat' = ContiguousFrom(from, end),
                   owner' = [c \in Clusters |-> IF c \in from .. end THEN NoFile ELSE owner[c]]
            PROVE  fat' \in [Clusters -> Entry] /\ owner' \in [Clusters -> Files \cup {NoFile}]
        <5>1. from \in Clusters
          BY <1>3
        <5>2. fat' \in [Clusters -> Entry]
          BY <1>1, <4>3, <5>1
        <5> QED  BY <4>3, <5>2
      <4> QED  BY <3>3, <4>1, <4>2, <4>3
    <3> QED  BY <2>2, <3>1, <3>2, <3>3 DEF AllocContiguousFails
  <2> QED  BY <2>1, <2>2
<1>5. /\ freeClusterCount' \in Int /\ faults' \in Nat /\ rtn' \in Returns
      /\ entry' \in [Files -> {0} \cup Clusters] /\ dirty' \subseteq Files
      /\ UNCHANGED <<revivals, freeing, truncated>>
  <2>1. CASE AllocContiguous(f, count)
    <3>1. PICK bgn \in Clusters : SyncEnds(f, bgn)
      BY <2>1 DEF AllocContiguous
    <3>2. freeClusterCount' \in Int /\ UNCHANGED <<revivals, freeing, truncated>>
      BY <2>1 DEF AllocContiguous, UpdateFreeClusterCount
    <3> QED  BY <3>1, <3>2, SyncEndsTyped
  <2>2. CASE AllocContiguousFails(f, count)
    BY <2>2 DEF AllocContiguousFails, Fault, entries
  <2> QED  BY <2>1, <2>2
<1> QED  BY <1>4, <1>5

\* A cluster of the chain was freed.
LEMMA FreeChainStepTyped ==
  ASSUME TypeOK, freeing # 0 => truncated \in Files, FreeChainStep
  PROVE  TypeOK' /\ (freeing' # 0 => truncated' \in Files)
<1> USE DEF TypeOK, TableOK, EntriesOK, Returns
<1>1. freeing \in Clusters /\ truncated \in Files
  BY DEF FreeChainStep
<1>2. allocSearchStart' \in 1 .. LastCluster
  BY <1>1, LastClusterAssumption DEF FreeChainStep, SearchStartAfterFree, Clusters
<1>3. /\ fat' \in [Clusters -> Entry] /\ owner' \in [Clusters -> Files \cup {NoFile}]
      /\ freeClusterCount' \in Int /\ UNCHANGED <<firstCluster, revivals>>
  BY DEF FreeChainStep, UpdateFreeClusterCount, Entry
<1>4. freeing' \in {0} \cup Clusters /\ (freeing' # 0 => fat[freeing] \in Clusters)
  BY <1>1 DEF FreeChainStep, NextToFree
<1>5. /\ rtn' \in Returns /\ faults' \in Nat /\ dirty' \subseteq Files
      /\ entry' \in [Files -> {0} \cup Clusters] /\ truncated' \in Files \cup {NoFile}
      /\ fat[freeing] \in Clusters => truncated' = truncated
  <2>1. CASE GoesOn
    BY <1>1, <2>1 DEF GoesOn, NoFault
  <2>2. CASE MeetsFree
    BY <2>2, ClustersFinite DEF MeetsFree, NoFault
  <2>3. CASE TruncateEnds
    <3>1. SyncEnds(truncated, firstCluster[truncated]) /\ truncated' = NoFile /\ fat[freeing] \notin Clusters
      BY <2>3, ClustersFinite DEF TruncateEnds
    <3>2. firstCluster[truncated] \in {0} \cup Clusters
      BY <1>1
    <3> QED  BY <1>1, <3>1, <3>2, SyncEndsTyped
  <2> QED  BY <2>1, <2>2, <2>3 DEF FreeChainStep
<1> QED  BY <1>1, <1>2, <1>3, <1>4, <1>5

\* Every step keeps the types, and knows whose chain it is freeing.
LEMMA NextTyped ==
  ASSUME TypeOK, freeing # 0 => truncated \in Files, [Next]_vars
  PROVE  TypeOK' /\ (freeing' # 0 => truncated' \in Files)
<1> USE DEF TypeOK, TableOK, EntriesOK, Returns, NoFault, Fault, entries
<1>1. ASSUME NEW f \in Files, NEW current \in {0} \cup Clusters, Allocate(f)
      PROVE  TypeOK' /\ freeing' = 0
  <2>1. PICK cur \in {0} \cup Clusters :
          \/ AllocateCluster(f, cur) \/ AllocateClusterFull(f, cur)
          \/ AllocateClusterFails(f, cur) \/ AllocateClusterUnlinked(f, cur)
    BY <1>1 DEF Allocate
  <2>2. CASE AllocateCluster(f, cur) \/ AllocateClusterUnlinked(f, cur)
    <3>1. TypeOK'
      BY <2>2, AllocateTyped
    <3>2. freeing' = 0
      BY <2>2 DEF AllocateCluster, AllocateClusterUnlinked, ExtendsChain
    <3> QED  BY <3>1, <3>2
  <2>3. CASE AllocateClusterFull(f, cur)
    BY <2>3 DEF AllocateClusterFull, ExtendsChain
  <2>4. CASE AllocateClusterFails(f, cur)
    <3>1. allocSearchStart' \in 1 .. LastCluster
      BY <2>4, SearchStartInRange DEF AllocateClusterFails
    <3> QED  BY <2>4, <3>1 DEF AllocateClusterFails, ExtendsChain
  <2> QED  BY <2>1, <2>2, <2>3, <2>4
<1>2. ASSUME NEW f \in Files, PreAllocate(f)
      PROVE  TypeOK' /\ freeing' = 0
  <2>1. PICK count \in 1 .. LastCluster :
          AllocContiguous(f, count) \/ AllocContiguousFull(f, count) \/ AllocContiguousFails(f, count)
    BY <1>2 DEF PreAllocate
  <2>2. CASE AllocContiguous(f, count) \/ AllocContiguousFails(f, count)
    <3>1. TypeOK'
      BY <2>2, ContiguousTyped
    <3>2. freeing' = 0
      BY <2>2 DEF AllocContiguous, AllocContiguousFails
    <3> QED  BY <3>1, <3>2
  <2>3. CASE AllocContiguousFull(f, count)
    BY <2>3 DEF AllocContiguousFull
  <2> QED  BY <2>1, <2>2, <2>3
<1>3. ASSUME NEW f \in Files, FreeWhole(f)
      PROVE  TypeOK' /\ truncated' \in Files
  BY <1>3 DEF FreeWhole
<1>4. ASSUME NEW f \in Files, NEW c \in Clusters, FreeTail(f, c)
      PROVE  TypeOK' /\ truncated' \in Files
  BY <1>4 DEF FreeTail, Entry
<1>5. ASSUME NEW f \in Files, NEW c \in Clusters, TruncateAtEnd(f, c)
      PROVE  TypeOK' /\ freeing' = 0
  <2>1. SyncEnds(f, firstCluster[f]) /\ firstCluster[f] \in {0} \cup Clusters
    BY <1>5 DEF TruncateAtEnd
  <2>2. /\ entry' \in [Files -> {0} \cup Clusters] /\ dirty' \subseteq Files
        /\ rtn' \in Returns /\ faults' \in Nat
    BY <2>1, SyncEndsTyped
  <2> QED  BY <1>5, <2>2 DEF TruncateAtEnd, Entry
<1>6. ASSUME NEW f \in Files, Sync(f)
      PROVE  TypeOK' /\ freeing' = 0
  <2>1. SyncEnds(f, firstCluster[f]) /\ firstCluster[f] \in {0} \cup Clusters
    BY <1>6 DEF Sync
  <2>2. /\ entry' \in [Files -> {0} \cup Clusters] /\ dirty' \subseteq Files
        /\ rtn' \in Returns /\ faults' \in Nat
    BY <2>1, SyncEndsTyped
  <2> QED  BY <1>6, <2>2 DEF Sync
<1>7. ASSUME NEW reread \in SUBSET Files, Reread(reread),
             allocSearchStart' \in {1, allocSearchStart}, freeClusterCount' \in Int
      PROVE  TypeOK' /\ freeing' = 0
  <2>1. allocSearchStart' \in 1 .. LastCluster
    BY <1>7, LastClusterAssumption
  <2>2. /\ firstCluster' \in [Files -> {0} \cup Clusters] /\ dirty' \subseteq Files
        /\ revivals' \in Nat /\ faults' \in Nat /\ rtn' \in Returns
        /\ freeing' = 0 /\ UNCHANGED <<fat, entry, truncated, owner>>
    BY <1>7 DEF Reread
  <2> QED  BY <1>7, <2>1, <2>2
<1>8. ASSUME NEW f \in Files, Reopen(f)
      PROVE  TypeOK' /\ freeing' = 0
  BY <1>7, <1>8 DEF Reopen
<1>9. CASE Mount
  BY <1>7, <1>9 DEF Mount
<1>10. CASE FreeChainFails
  BY <1>10 DEF FreeChainFails
<1>11. CASE FreeClusterCount
  <2>1. Cardinality(Free) \in Int
    BY ClustersFinite, FS_Subset, FS_CardinalityType DEF Free
  <2> QED  BY <1>11, <2>1 DEF FreeClusterCount
<1>12. CASE FreeClusterCountFails
  BY <1>12 DEF FreeClusterCountFails
<1>13. CASE UNCHANGED vars
  BY <1>13 DEF vars
<1> QED
  BY <1>1, <1>2, <1>3, <1>4, <1>5, <1>6, <1>8, <1>9, <1>10, <1>11, <1>12, <1>13,
     FreeChainStepTyped DEF Next

-----------------------------------------------------------------------------
(* The inductive invariant.                                                *)

\* The first state satisfies IInv.
LEMMA InitIInv == Init => IInv
<1> SUFFICES ASSUME Init PROVE IInv
  OBVIOUS
<1>1. TypeOK
  BY LastClusterAssumption DEF Init, TypeOK, TableOK, EntriesOK, Entry, Returns
<1>2. HeadsAllocated /\ FreeingDetached
  BY DEF Init, HeadsAllocated, FreeingDetached
<1>3. LinksStayInFile /\ LinksInjective /\ NoCycle
  BY ClustersFinite DEF Init, LinksStayInFile, LinksInjective, NoCycle
<1>4. EntriesAgree /\ revivals = 0 /\ freeing = 0
  BY DEF Init, EntriesAgree
<1> QED  BY <1>1, <1>2, <1>3, <1>4 DEF IInv, Sound, TypeOK

\* A step fails once at most.
LEMMA FaultsStep == [Next]_vars => faults' \in {faults, faults + 1}
BY DEF Next, vars, Allocate, AllocateCluster, AllocateClusterFull, AllocateClusterFails,
       AllocateClusterUnlinked, PreAllocate, AllocContiguous, AllocContiguousFull,
       AllocContiguousFails, FreeWhole, FreeTail, TruncateAtEnd, FreeChainStep, GoesOn,
       TruncateEnds, MeetsFree, FreeChainFails, FreeClusterCount, FreeClusterCountFails,
       Sync, SyncEnds, Reread, Reopen, Mount, Fault, NoFault

\* Only reading entries back can meet freed heads.
LEMMA RevivalsStep ==
  [Next]_vars => UNCHANGED revivals \/ \E reread \in SUBSET Files : Reread(reread)
BY DEF Next, vars, Allocate, AllocateCluster, AllocateClusterFull, AllocateClusterFails,
       AllocateClusterUnlinked, PreAllocate, AllocContiguous, AllocContiguousFull,
       AllocContiguousFails, FreeWhole, FreeTail, TruncateAtEnd, FreeChainStep,
       FreeChainFails, FreeClusterCount, FreeClusterCountFails, Sync, Reopen, Mount,
       entries

\* While nothing failed, what is read back is what the objects hold.
LEMMA RereadAgrees ==
  ASSUME IInv, NEW reread \in SUBSET Files, Reread(reread), faults' = 0
  PROVE  revivals' = 0 /\ UNCHANGED <<firstCluster, dirty>>
<1>1. faults = 0 /\ reread \cap dirty = {} /\ freeing = 0
  BY DEF Reread, Fault, NoFault, IInv, TypeOK, TableOK
<1>2. \A f \in reread : entry[f] = firstCluster[f]
  BY <1>1 DEF IInv, EntriesAgree
<1>3. revivals = 0 /\ Sound
  BY <1>1 DEF IInv
<1>4. \A f \in reread : SoundHead(f, entry[f])
  BY <1>2, <1>3 DEF SoundHead, Sound, HeadsAllocated
<1>5. firstCluster' = firstCluster
  BY <1>2 DEF Reread, IInv, TypeOK, TableOK
<1> QED  BY <1>1, <1>3, <1>4, <1>5 DEF Reread

\* Every step keeps EntriesAgree.
LEMMA NextEntriesAgree == IInv /\ [Next]_vars => EntriesAgree'
<1> SUFFICES ASSUME IInv, [Next]_vars, faults' = 0 PROVE EntriesAgree'
  BY DEF EntriesAgree
<1>1. /\ faults \in Nat /\ EntriesAgree /\ entry \in [Files -> {0} \cup Clusters]
      /\ firstCluster \in [Files -> {0} \cup Clusters]
      /\ freeing # 0 => truncated \in Files
  BY DEF IInv, TypeOK, TableOK, EntriesOK
<1>3. faults' # faults + 1
  BY <1>1
<1>4. faults = 0
  BY <1>3, FaultsStep
<1>5. ASSUME NEW f \in Files, SyncEnds(f, firstCluster'[f]), freeing' = 0,
             \A g \in Files \ {f} : firstCluster'[g] = firstCluster[g]
                                    /\ ~(freeing # 0 /\ truncated = g)
      PROVE  EntriesAgree'
  <2>1. Written(f, firstCluster'[f])
    BY <1>3, <1>5 DEF SyncEnds, Fault
  <2> QED  BY <1>1, <1>4, <1>5, <2>1 DEF EntriesAgree, Written
<1>6. ASSUME NEW f \in Files, Allocate(f)
      PROVE  EntriesAgree'
  <2>1. PICK cur \in {0} \cup Clusters : AllocateCluster(f, cur) \/ AllocateClusterFull(f, cur)
    BY <1>3, <1>6 DEF Allocate, AllocateClusterFails, AllocateClusterUnlinked, Fault
  <2>2. CASE AllocateCluster(f, cur)
    <3>1. /\ entry' = entry /\ dirty' = dirty \cup {f} /\ freeing = 0 /\ freeing' = 0
          /\ \A g \in Files \ {f} : firstCluster'[g] = firstCluster[g]
      BY <1>1, <2>2 DEF AllocateCluster, ExtendsChain
    <3> QED  BY <1>4, <1>1, <3>1 DEF EntriesAgree
  <2>3. CASE AllocateClusterFull(f, cur)
    BY <1>1, <1>4, <2>3 DEF AllocateClusterFull, EntriesAgree, entries
  <2> QED  BY <2>1, <2>2, <2>3
<1>7. ASSUME NEW f \in Files, PreAllocate(f)
      PROVE  EntriesAgree'
  <2>1. PICK count \in 1 .. LastCluster : AllocContiguous(f, count) \/ AllocContiguousFull(f, count)
    BY <1>3, <1>7 DEF PreAllocate, AllocContiguousFails, Fault
  <2>2. CASE AllocContiguous(f, count)
    <3>1. /\ SyncEnds(f, firstCluster'[f]) /\ freeing' = 0 /\ freeing = 0
          /\ \A g \in Files \ {f} : firstCluster'[g] = firstCluster[g]
      BY <1>1, <2>2 DEF AllocContiguous
    <3> QED  BY <1>5, <3>1
  <2>3. CASE AllocContiguousFull(f, count)
    BY <1>1, <1>4, <2>3 DEF AllocContiguousFull, EntriesAgree, entries
  <2> QED  BY <2>1, <2>2, <2>3
<1>8. ASSUME NEW f \in Files, FreeWhole(f)
      PROVE  EntriesAgree'
  <2>1. /\ freeing = 0 /\ freeing' # 0 /\ truncated' = f /\ UNCHANGED <<entry, dirty>>
        /\ \A g \in Files \ {f} : firstCluster'[g] = firstCluster[g]
    BY <1>1, <1>8 DEF FreeWhole, entries
  <2> QED  BY <1>1, <1>4, <2>1 DEF EntriesAgree
<1>9. ASSUME NEW f \in Files, NEW c \in Clusters, FreeTail(f, c)
      PROVE  EntriesAgree'
  <2>1. freeing = 0 /\ UNCHANGED <<entry, dirty, firstCluster>>
    BY <1>9 DEF FreeTail, entries
  <2> QED  BY <1>1, <1>4, <2>1 DEF EntriesAgree
<1>10. ASSUME NEW f \in Files, (\E c \in Clusters : TruncateAtEnd(f, c)) \/ Sync(f)
       PROVE  EntriesAgree'
  BY <1>5, <1>10 DEF TruncateAtEnd, Sync
<1>11. ASSUME NEW reread \in SUBSET Files, Reread(reread)
       PROVE  EntriesAgree'
  <2>1. UNCHANGED <<firstCluster, dirty, entry>> /\ freeing = 0 /\ freeing' = 0
    BY <1>11, RereadAgrees DEF Reread
  <2> QED  BY <1>1, <1>4, <2>1 DEF EntriesAgree
<1>12. CASE FreeChainStep
  <2>1. /\ freeing # 0 /\ truncated \in Files /\ UNCHANGED firstCluster
        /\ freeing' = IF fat[freeing] \in Clusters THEN fat[freeing] ELSE 0
    BY <1>1, <1>12 DEF FreeChainStep, NextToFree
  <2>2. CASE GoesOn
    BY <1>1, <1>4, <2>1, <2>2, ClustersFinite DEF GoesOn, EntriesAgree
  <2>3. CASE TruncateEnds
    <3>1. SyncEnds(truncated, firstCluster'[truncated]) /\ freeing' = 0
      BY <2>1, <2>3, ClustersFinite DEF TruncateEnds
    <3> QED  BY <1>5, <2>1, <3>1
  <2>4. CASE MeetsFree
    <3>1. fat[freeing] # 0
      BY <1>4, <2>1 DEF IInv, Sound, FreeingDetached
    <3> QED  BY <2>4, <3>1 DEF MeetsFree
  <2> QED  BY <1>12, <2>2, <2>3, <2>4 DEF FreeChainStep
<1>13. CASE FreeClusterCount
  BY <1>1, <1>4, <1>13 DEF FreeClusterCount, EntriesAgree, entries
<1>14. CASE UNCHANGED vars
  BY <1>1, <1>4, <1>14 DEF vars, entries, EntriesAgree
<1> QED
  BY <1>3, <1>6, <1>7, <1>8, <1>9, <1>10, <1>11, <1>12, <1>13, <1>14
     DEF Next, FreeChainFails, FreeClusterCountFails, Fault, Mount, Reopen

\* Every step keeps IInv.
LEMMA NextIInv == IInv /\ [Next]_vars => IInv'
<1> SUFFICES ASSUME IInv, [Next]_vars PROVE IInv'
  OBVIOUS
<1>1. TypeOK' /\ (freeing' # 0 => truncated' \in Files)
  BY NextTyped DEF IInv
<1>2. EntriesAgree'
  BY NextEntriesAgree
<1>3. revivals \in Nat /\ faults \in Nat
  BY DEF IInv, TypeOK, TableOK, EntriesOK
<1>4. faults' = 0 => faults = 0
  BY <1>3, FaultsStep
<1>5. faults' = 0 => revivals' = 0
  <2>1. ASSUME NEW reread \in SUBSET Files, Reread(reread), faults' = 0
        PROVE  revivals' = 0
    BY <2>1, RereadAgrees
  <2> QED  BY <1>4, <2>1, RevivalsStep DEF IInv
<1>6. revivals' = 0 => Sound'
  <2> SUFFICES ASSUME revivals' = 0 PROVE Sound'
    OBVIOUS
  <2>1. \A reread \in SUBSET Files : Reread(reread) => revivals' \in {revivals, revivals + 1}
    BY DEF Reread
  <2>2. revivals' = revivals
    BY <1>3, <2>1, RevivalsStep
  <2> QED  BY <1>1, <1>3, <2>2, NextSound DEF IInv, TypeOK
<1> QED  BY <1>1, <1>2, <1>5, <1>6 DEF IInv

-----------------------------------------------------------------------------
(* What the invariant gives the users of the volume.                       *)

\* IInv gives that no cluster is in two chains.
LEMMA IInvDisjoint == IInv => ChainsDisjoint
BY ChainOwned DEF ChainsDisjoint, IInv

\* IInv gives that every cluster of a chain is allocated.
LEMMA IInvAllocated == IInv => ChainsAllocated
BY ChainOwned DEF ChainsAllocated, Free, IInv

\* Every state FatPartition can reach satisfies the inductive invariant.
THEOREM Invariance == Spec => []IInv
<1>1. Init => IInv
  BY InitIInv
<1>2. IInv /\ [Next]_vars => IInv'
  BY NextIInv
<1> QED  BY <1>1, <1>2, PTL DEF Spec

\* Every variable keeps its type: links stay inside the volume, the search
\* start never leaves it.
THEOREM TypeCorrect == Spec => []TypeOK
<1>1. IInv => TypeOK
  BY DEF IInv
<1> QED  BY <1>1, Invariance, PTL

\* allocateCluster, allocContiguous, freeChain and truncate never cross-link
\* two files, whichever of their accesses to the table fail and whatever is
\* opened again, until an entry is read back that names freed clusters.
THEOREM NeverCrossLinked == Spec => []ChainsDisjoint
<1> QED  BY IInvDisjoint, Invariance, PTL

\* On the same condition no cluster of a file is marked free, so no allocation
\* can take it.
THEOREM FileClustersStayAllocated == Spec => []ChainsAllocated
<1> QED  BY IInvAllocated, Invariance, PTL

\* Such an entry takes a failure to come about: while none has happened, what
\* is opened again is always what was closed, and the volume stays sound.
THEOREM SoundUntilAFailure == Spec => [](faults = 0 => Sound)
<1>1. IInv => (faults = 0 => Sound)
  BY DEF IInv
<1> QED  BY <1>1, Invariance, PTL

-----------------------------------------------------------------------------
(* The free-cluster count.                                                 *)

\* There are finitely many free clusters.
LEMMA FreeFinite == IsFiniteSet(Free) /\ Cardinality(Free) \in Nat
BY ClustersFinite, FS_Subset, FS_CardinalityType DEF Free

\* The count after a step that takes the clusters of R out of the free ones.
LEMMA FreeShrinks ==
  ASSUME NEW R \in SUBSET Free, Free' = Free \ R
  PROVE  /\ Cardinality(Free') = Cardinality(Free) - Cardinality(R)
         /\ Cardinality(R) \in Nat /\ Cardinality(Free) \in Nat
<1>1. Free \cap R = R
  OBVIOUS
<1>2. IsFiniteSet(R) /\ Cardinality(R) \in Nat
  BY FreeFinite, FS_Subset, FS_CardinalityType
<1>3. Cardinality(Free \ R) = Cardinality(Free) - Cardinality(Free \cap R)
  BY FreeFinite, FS_Difference
<1> QED  BY <1>1, <1>2, <1>3, FreeFinite

\* allocateCluster keeps the count of free clusters from being too low.
LEMMA AllocateFreeCount ==
  ASSUME IInv, FreeCountNeverLow, NEW f \in Files, NEW current \in {0} \cup Clusters,
         AllocateCluster(f, current)
  PROVE  FreeCountNeverLow'
<1>1. PICK find \in Clusters, setStart \in BOOLEAN :
        Search(current, find, setStart) /\ fat' = Linked(current, find)
  BY DEF AllocateCluster
<1>2. fat[find] = 0 /\ (current = 0 \/ fat[current] = EOC)
  BY <1>1, SearchFindsFree DEF AllocateCluster, ExtendsChain
<1>3. Free' = Free \ {find}
  BY <1>1, <1>2, ClustersFinite DEF Free, Linked
<1>4. {find} \in SUBSET Free /\ Cardinality({find}) = 1
  BY <1>2, FS_Singleton DEF Free
<1>5. Cardinality(Free') = Cardinality(Free) - 1 /\ Cardinality(Free) \in Nat
  BY <1>3, <1>4, FreeShrinks
<1> QED
  BY <1>5 DEF AllocateCluster, UpdateFreeClusterCount, FreeCountNeverLow, IInv, TypeOK, TableOK

\* allocContiguous takes as many free clusters as it was asked for.
LEMMA ContiguousShrinks ==
  ASSUME NEW f \in Files, NEW count \in 1 .. LastCluster, AllocContiguous(f, count)
  PROVE  Cardinality(Free') = Cardinality(Free) - count /\ Cardinality(Free) \in Nat
<1>1. PICK bgn \in Clusters, end \in Clusters :
        Run(count, bgn, end) /\ fat' = ContiguousFrom(bgn, end)
  BY DEF AllocContiguous
<1>2. bgn <= end /\ end - bgn + 1 = count /\ \A c \in bgn .. end : c \in Clusters /\ fat[c] = 0
  BY <1>1, RunIsFree
<1>3. \A c \in Clusters : fat'[c] = IF c = end THEN EOC
                                    ELSE IF bgn <= c /\ c < end THEN c + 1 ELSE fat[c]
  BY <1>1 DEF ContiguousFrom
<1>4. Free' = Free \ (bgn .. end)
  BY <1>2, <1>3, ClustersFinite DEF Free, Clusters
<1>5. bgn .. end \in SUBSET Free /\ Cardinality(bgn .. end) = count
  <2>1. bgn \in Int /\ end \in Int
    BY LastClusterAssumption DEF Clusters
  <2>2. Cardinality(bgn .. end) = count
    <3>1. Cardinality(bgn .. end) = IF bgn > end THEN 0 ELSE end - bgn + 1
      BY <2>1, FS_Interval
    <3> QED  BY <1>2, <2>1, <3>1
  <2> QED  BY <1>2, <2>2 DEF Free
<1> QED  BY <1>4, <1>5, FreeShrinks

\* allocContiguous keeps it from being too low.
LEMMA ContiguousFreeCount ==
  ASSUME IInv, FreeCountNeverLow, NEW f \in Files, NEW count \in 1 .. LastCluster,
         AllocContiguous(f, count)
  PROVE  FreeCountNeverLow'
<1>1. Cardinality(Free') = Cardinality(Free) - count /\ Cardinality(Free) \in Nat
  BY ContiguousShrinks
<1> QED
  BY <1>1 DEF AllocContiguous, UpdateFreeClusterCount, FreeCountNeverLow, IInv, TypeOK, TableOK

\* A step of freeChain keeps it from being too low.
LEMMA FreeStepFreeCount ==
  ASSUME IInv, FreeCountNeverLow, FreeChainStep
  PROVE  FreeCountNeverLow'
<1>1. freeing \in Clusters /\ fat' = [fat EXCEPT ![freeing] = 0] /\ fat \in [Clusters -> Entry]
  BY DEF FreeChainStep, IInv, TypeOK, TableOK
<1>2. Free' = Free \cup {freeing}
  BY <1>1 DEF Free
<1>3. Cardinality(Free') <= Cardinality(Free) + 1 /\ Cardinality(Free) \in Nat
      /\ Cardinality(Free') \in Nat
  BY <1>2, FreeFinite, FS_AddElement
<1>4. freeClusterCount \in Int /\ freeClusterCount' = IF freeClusterCount >= 0
                                                     THEN freeClusterCount + 1 ELSE freeClusterCount
  BY DEF FreeChainStep, UpdateFreeClusterCount, IInv, TypeOK, TableOK
<1> QED  BY <1>3, <1>4 DEF FreeCountNeverLow

\* A step that frees nothing and leaves the count alone keeps it high enough.
LEMMA FreeCountKept ==
  ASSUME FreeCountNeverLow, Free' \subseteq Free, freeClusterCount' = freeClusterCount,
         freeClusterCount \in Int
  PROVE  FreeCountNeverLow'
<1>1. Cardinality(Free') <= Cardinality(Free) /\ Cardinality(Free) \in Nat
      /\ Cardinality(Free') \in Nat
  BY FreeFinite, FS_Subset, FS_CardinalityType
<1> QED  BY <1>1 DEF FreeCountNeverLow

\* Every step keeps the count from being too low.
LEMMA NextFreeCount == IInv /\ FreeCountNeverLow /\ [Next]_vars => FreeCountNeverLow'
<1> SUFFICES ASSUME IInv, FreeCountNeverLow, [Next]_vars PROVE FreeCountNeverLow'
  OBVIOUS
<1>1. freeClusterCount \in Int /\ fat \in [Clusters -> Entry]
  BY DEF IInv, TypeOK, TableOK
<1>2. ASSUME NEW f \in Files, NEW current \in {0} \cup Clusters,
             \/ AllocateClusterFull(f, current)
             \/ AllocateClusterFails(f, current)
             \/ AllocateClusterUnlinked(f, current)
      PROVE  FreeCountNeverLow'
  <2>1. freeClusterCount' = freeClusterCount /\ Free' \subseteq Free
    BY <1>1, <1>2, ClustersFinite
       DEF AllocateClusterFull, AllocateClusterFails, AllocateClusterUnlinked, HalfLinked, Free
  <2> QED  BY <1>1, <2>1, FreeCountKept
<1>3. ASSUME NEW f \in Files, NEW count \in 1 .. LastCluster,
             AllocContiguousFull(f, count) \/ AllocContiguousFails(f, count)
      PROVE  FreeCountNeverLow'
  <2>1. freeClusterCount' = freeClusterCount
    BY <1>3 DEF AllocContiguousFull, AllocContiguousFails
  <2>2. \A from \in Clusters, end \in Clusters :
          fat' = ContiguousFrom(from, end) => Free' \subseteq Free
    BY ClustersFinite DEF ContiguousFrom, Free, Clusters
  <2>3. \A bgn \in Clusters, end \in Clusters : (bgn + 1) .. end \subseteq Clusters
    BY LastClusterAssumption DEF Clusters
  <2>4. Free' \subseteq Free
    BY <1>3, <2>2, <2>3 DEF AllocContiguousFull, AllocContiguousFails, Free
  <2> QED  BY <1>1, <2>1, <2>4, FreeCountKept
<1>4. ASSUME NEW f \in Files, FreeWhole(f) \/ \E c \in Clusters : FreeTail(f, c)
      PROVE  FreeCountNeverLow'
  BY <1>1, <1>4, FreeCountKept, ClustersFinite DEF FreeWhole, FreeTail, Free
<1>5. CASE FreeClusterCount
  <2>1. Free' = Free
    BY <1>5 DEF FreeClusterCount, Free
  <2> QED  BY <1>1, <1>5, <2>1, FreeFinite DEF FreeClusterCount, FreeCountNeverLow
<1>6. CASE FreeChainFails \/ FreeClusterCountFails \/ UNCHANGED vars
  BY <1>1, <1>6, FreeCountKept DEF FreeChainFails, FreeClusterCountFails, vars, Free
<1>7. CASE Mount
  BY <1>7 DEF Mount, FreeCountNeverLow
<1>8. ASSUME NEW f \in Files,
             (\E c \in Clusters : TruncateAtEnd(f, c)) \/ Sync(f) \/ Reopen(f)
      PROVE  FreeCountNeverLow'
  <2>1. freeClusterCount' = freeClusterCount
    BY <1>8 DEF TruncateAtEnd, Sync, Reopen
  <2>2. Free' \subseteq Free
    BY <1>1, <1>8, ClustersFinite DEF TruncateAtEnd, Sync, Reopen, Reread, Free
  <2> QED  BY <1>1, <2>1, <2>2, FreeCountKept
<1> QED
  BY <1>2, <1>3, <1>4, <1>5, <1>6, <1>7, <1>8, AllocateFreeCount, ContiguousFreeCount,
     FreeStepFreeCount
     DEF Next, Allocate, PreAllocate

\* A maintained m_freeClusterCount never hides a free cluster: the space gate
\* of availableSpaceForWrite errs, after failing accesses, only upwards.
THEOREM CountNeverLow == Spec => []FreeCountNeverLow
<1>1. Init => FreeCountNeverLow
  BY DEF Init, FreeCountNeverLow
<1> QED  BY <1>1, NextFreeCount, Invariance, PTL DEF Spec

-----------------------------------------------------------------------------

-----------------------------------------------------------------------------
(* Exactness while no access has failed.                                   *)

\* A step that takes no cluster and leaves the count alone keeps it exact.
LEMMA CountExactKept ==
  ASSUME FreeCountExact, Free' = Free, freeClusterCount' = freeClusterCount, faults' = 0 => faults = 0
  PROVE  FreeCountExact'
BY DEF FreeCountExact

\* A step after which nothing has failed starts where nothing had, in a sound volume.
LEMMA NothingFailed ==
  ASSUME IInv, [Next]_vars, faults' = 0
  PROVE  faults = 0 /\ Sound
<1>1. faults \in Nat
  BY DEF IInv, TypeOK, TableOK
<1>2. faults = 0
  BY <1>1, FaultsStep
<1> QED  BY <1>2 DEF IInv

\* Then truncate at the end of a chain leaves the table as it is.
LEMMA EndKept ==
  ASSUME Sound, NEW f \in Files, NEW c \in Clusters, TruncateAtEnd(f, c)
  PROVE  fat' = fat
<1>1. fat[c] \in {0, EOC} /\ fat \in [Clusters -> Entry] /\ fat[c] # 0
  BY ChainOwned DEF TruncateAtEnd, Sound, TableOK, Entry
<1> QED  BY <1>1 DEF TruncateAtEnd

\* Every step keeps the count exact.
LEMMA NextCountExact == IInv /\ FreeCountExact /\ [Next]_vars => FreeCountExact'
<1> SUFFICES ASSUME IInv, FreeCountExact, [Next]_vars, faults' = 0 PROVE FreeCountExact'
  BY DEF FreeCountExact
<1>1. /\ freeClusterCount \in Int /\ fat \in [Clusters -> Entry] /\ faults = 0
      /\ freeing \in {0} \cup Clusters /\ Sound /\ faults' # faults + 1
  BY NothingFailed DEF IInv, TypeOK, TableOK
<1>2. ASSUME NEW f \in Files, NEW current \in {0} \cup Clusters, AllocateCluster(f, current)
      PROVE  FreeCountExact'
  <2>1. PICK find \in Clusters, setStart \in BOOLEAN :
          Search(current, find, setStart) /\ fat' = Linked(current, find)
    BY <1>2 DEF AllocateCluster
  <2>2. fat[find] = 0 /\ (current = 0 \/ fat[current] = EOC)
    BY <1>2, <2>1, SearchFindsFree DEF AllocateCluster, ExtendsChain
  <2>3. Free' = Free \ {find} /\ {find} \in SUBSET Free /\ Cardinality({find}) = 1
    BY <2>1, <2>2, ClustersFinite, FS_Singleton DEF Free, Linked
  <2>4. Cardinality(Free') = Cardinality(Free) - 1 /\ Cardinality(Free) \in Nat
    BY <2>3, FreeShrinks
  <2> QED
    BY <1>1, <1>2, <2>4 DEF AllocateCluster, UpdateFreeClusterCount, FreeCountExact, NoFault
<1>3. ASSUME NEW f \in Files, NEW count \in 1 .. LastCluster, AllocContiguous(f, count)
      PROVE  FreeCountExact'
  <2>1. Cardinality(Free') = Cardinality(Free) - count /\ Cardinality(Free) \in Nat
    BY <1>3, ContiguousShrinks
  <2> QED
    BY <1>1, <1>3, <2>1 DEF AllocContiguous, UpdateFreeClusterCount, FreeCountExact
<1>4. CASE FreeChainStep
  <2>1. freeing \in Clusters /\ fat[freeing] # 0 /\ fat' = [fat EXCEPT ![freeing] = 0]
    BY <1>1, <1>4 DEF FreeChainStep, Sound, FreeingDetached
  <2>2. Free' = Free \cup {freeing} /\ freeing \notin Free
    BY <1>1, <2>1 DEF Free
  <2>3. Cardinality(Free') = Cardinality(Free) + 1 /\ Cardinality(Free) \in Nat
    BY <2>2, FreeFinite, FS_AddElement
  <2> QED
    BY <1>1, <1>4, <2>3 DEF FreeChainStep, UpdateFreeClusterCount, FreeCountExact
<1>5. ASSUME NEW f \in Files, FreeWhole(f) \/ \E c \in Clusters : FreeTail(f, c)
      PROVE  FreeCountExact'
  <2>1. Free' = Free
    BY <1>1, <1>5, ClustersFinite DEF FreeWhole, FreeTail, Free
  <2> QED  BY <1>5, <2>1, CountExactKept DEF FreeWhole, FreeTail, NoFault
<1>6. CASE FreeClusterCount
  <2>1. Free' = Free
    BY <1>6 DEF FreeClusterCount, Free
  <2> QED  BY <1>1, <1>6, <2>1 DEF FreeClusterCount, FreeCountExact, NoFault
<1>7. CASE Mount
  BY <1>7 DEF Mount, FreeCountExact
<1>9. ASSUME NEW f \in Files, NEW current \in {0} \cup Clusters, AllocateClusterFull(f, current)
      PROVE  FreeCountExact'
  BY <1>9, CountExactKept DEF AllocateClusterFull, Free, NoFault
<1>10. ASSUME NEW f \in Files, NEW count \in 1 .. LastCluster, AllocContiguousFull(f, count)
       PROVE  FreeCountExact'
  BY <1>10, CountExactKept DEF AllocContiguousFull, Free, NoFault
<1>11. CASE UNCHANGED vars
  BY <1>11, CountExactKept DEF vars, Free
<1>12. ASSUME NEW f \in Files,
              (\E c \in Clusters : TruncateAtEnd(f, c)) \/ Sync(f) \/ Reopen(f)
       PROVE  FreeCountExact'
  <2>1. fat' = fat /\ freeClusterCount' = freeClusterCount
    BY <1>1, <1>12, EndKept DEF TruncateAtEnd, Sync, Reopen, Reread
  <2> QED  BY <1>1, <2>1, CountExactKept DEF Free
<1> QED
  BY <1>1, <1>2, <1>3, <1>4, <1>5, <1>6, <1>7, <1>9, <1>10, <1>11, <1>12
     DEF Next, Allocate, PreAllocate, AllocateClusterFails, AllocateClusterUnlinked,
         AllocContiguousFails, FreeChainFails, FreeClusterCountFails, Fault

\* While no access has failed, a maintained m_freeClusterCount is the number of free clusters.
THEOREM CountExact == Spec => []FreeCountExact
<1>1. Init => FreeCountExact
  BY DEF Init, FreeCountExact
<1> QED  BY <1>1, NextCountExact, Invariance, PTL DEF Spec

\* Every allocated cluster is entered from somewhere: it is the head of a file, the next
\* cluster to be freed, or another cluster links to it.
Entered ==
  faults = 0 =>
    \A c \in Clusters : fat[c] # 0 =>
      \/ \E f \in Files : firstCluster[f] = c
      \/ freeing = c
      \/ \E d \in Clusters : fat[d] = c

\* NoCycle seen backwards: in every set of clusters there is one that none of them links to.
NoSource ==
  \A S \in SUBSET Clusters : S # {} => \E c \in S : \A d \in S : fat[d] # c

-----------------------------------------------------------------------------

\* The first state, in which no cluster is in use.
LEMMA InitLost == Init => Entered /\ NoSource
BY ClustersFinite DEF Init, Entered, NoSource

\* Steps that only take links away, or give a cluster that nothing leads to a link of its own
\* to nowhere, make no cycle.
LEMMA NoSourceShrinks ==
  ASSUME NoSource, \A c, d \in Clusters : fat'[d] = c => fat[d] = c
  PROVE  NoSource'
BY DEF NoSource

\* A run of links upwards through clusters that were free.
LEMMA NoSourceRun ==
  ASSUME Sound, NoSource, NEW from \in Clusters, NEW end \in Clusters, from <= end,
         \A c \in from .. end : fat[c] = 0,
         fat' = ContiguousFrom(from, end)
  PROVE  NoSource'
<1>1. \A c \in Clusters : fat'[c] = IF c = end THEN EOC
                                    ELSE IF from <= c /\ c < end THEN c + 1 ELSE fat[c]
  BY DEF ContiguousFrom
<1>2. Clusters \subseteq Nat /\ from .. end \subseteq Clusters
  BY LastClusterAssumption DEF Clusters
<1>3. \A c \in Clusters, d \in from .. end : fat[c] # d
  BY <1>2, FreeUnreferenced
<1> SUFFICES ASSUME NEW S \in SUBSET Clusters, S # {}
             PROVE  \E c \in S : \A d \in S : fat'[d] # c
  BY DEF NoSource
<1> DEFINE T == S \cap (from .. end)
<1>4. CASE T # {}
  <2>1. PICK m \in T : \A t \in T : m <= t
    <3>1. T \in SUBSET Nat /\ T # {}
      BY <1>2, <1>4
    <3> HIDE DEF T
    <3>2. PICK u \in T : \A v \in T : ~(<<v, u>> \in OpToRel(<, Nat))
      BY <3>1, NatLessThanWellFounded, WFMin
    <3>3. ASSUME NEW v \in T
          PROVE  u <= v
      <4>1. <<v, u>> \notin {ss \in Nat \X Nat : ss[1] < ss[2]}
        BY <3>2, Zenon DEF OpToRel
      <4> QED  BY <4>1, <3>1
    <3> QED  BY <3>3
  <2>2. ASSUME NEW d \in S
        PROVE  fat'[d] # m
    <3>1. m \in from .. end /\ m \in Clusters /\ d \in Clusters
      BY <1>2
    <3>2. CASE from <= d /\ d < end
      BY <1>1, <1>2, <2>1, <3>1, <3>2
    <3>3. CASE d = end
      BY <1>1, <3>1, <3>3, ClustersFinite
    <3>4. CASE ~(from <= d /\ d < end) /\ d # end
      BY <1>1, <1>3, <3>1, <3>4
    <3> QED  BY <3>2, <3>3, <3>4
  <2> QED  BY <2>2
<1>5. CASE T = {}
  <2>1. \A c \in S : fat'[c] = fat[c]
    BY <1>1, <1>2, <1>5
  <2> QED  BY <2>1 DEF NoSource
<1> QED  BY <1>4, <1>5

\* Every step keeps NoSource: no links form a cycle.
LEMMA NextNoSource == IInv /\ NoSource /\ [Next]_vars /\ faults' = 0 => NoSource'
<1> SUFFICES ASSUME IInv, NoSource, [Next]_vars, faults' = 0 PROVE NoSource'
  OBVIOUS
<1>1. fat \in [Clusters -> Entry] /\ freeing \in {0} \cup Clusters /\ Sound
  BY NothingFailed DEF IInv, TypeOK, TableOK
<1>2. ASSUME NEW f \in Files, NEW current \in {0} \cup Clusters,
             AllocateCluster(f, current) \/ AllocateClusterUnlinked(f, current)
      PROVE  NoSource'
  <2>1. PICK find \in Clusters :
          /\ fat[find] = 0
          /\ \A c \in Clusters \ {find} : fat'[c] \in {fat[c], find}
          /\ fat'[find] = EOC
    <3>1. PICK find \in Clusters, setStart \in BOOLEAN :
            Search(current, find, setStart) /\ fat' \in {Linked(current, find), HalfLinked(current, find)}
      BY <1>2 DEF AllocateCluster, AllocateClusterUnlinked
    <3>2. fat[find] = 0
      BY <3>1, SearchFindsFree
    <3> QED  BY <1>1, <3>1, <3>2 DEF Linked, HalfLinked
  <2> SUFFICES ASSUME NEW S \in SUBSET Clusters, S # {}
               PROVE  \E c \in S : \A d \in S : fat'[d] # c
    BY DEF NoSource
  <2>2. CASE S \subseteq {find}
    BY <2>1, <2>2, ClustersFinite
  <2>3. CASE ~(S \subseteq {find})
    <3>1. PICK c \in S \ {find} : \A d \in S \ {find} : fat[d] # c
      BY <2>3 DEF NoSource
    <3> QED  BY <2>1, <3>1, ClustersFinite
  <2> QED  BY <2>2, <2>3
<1>3. ASSUME NEW f \in Files, NEW count \in 1 .. LastCluster,
             AllocContiguous(f, count) \/ AllocContiguousFails(f, count)
      PROVE  NoSource'
  <2>1. CASE UNCHANGED fat
    BY <2>1, NoSourceShrinks
  <2>2. CASE ~UNCHANGED fat
    <3>1. PICK bgn \in Clusters, end \in Clusters :
            Run(count, bgn, end) /\ \E from \in bgn .. end : fat' = ContiguousFrom(from, end)
      BY <1>3, <2>2, RunIsFree, LastClusterAssumption
         DEF AllocContiguous, AllocContiguousFails, Clusters
    <3>2. PICK from \in bgn .. end : fat' = ContiguousFrom(from, end)
      BY <3>1
    <3>3. from \in Clusters /\ from <= end /\ \A c \in from .. end : fat[c] = 0
      BY <3>1, <3>2, RunIsFree, LastClusterAssumption DEF Clusters
    <3> QED  BY <1>1, <3>2, <3>3, NoSourceRun
  <2> QED  BY <2>1, <2>2
<1>4. ASSUME NEW f \in Files, NEW c \in Clusters, FreeTail(f, c)
      PROVE  NoSource'
  BY <1>1, <1>4, NoSourceShrinks, ClustersFinite DEF FreeTail
<1>5. CASE FreeChainStep
  BY <1>1, <1>5, NoSourceShrinks, ClustersFinite DEF FreeChainStep
<1>6. CASE UNCHANGED fat
  BY <1>6, NoSourceShrinks
<1>7. ASSUME NEW f \in Files, NEW c \in Clusters, TruncateAtEnd(f, c)
      PROVE  NoSource'
  BY <1>1, <1>6, <1>7, EndKept
<1> QED
  BY <1>2, <1>3, <1>4, <1>5, <1>6, <1>7
     DEF Next, Allocate, PreAllocate, AllocateClusterFull, AllocateClusterFails,
         AllocContiguousFull, FreeWhole, FreeChainFails, FreeClusterCount,
         FreeClusterCountFails, Sync, Reopen, Reread, Mount, vars

\* Every step keeps Entered.
LEMMA NextEntered == IInv /\ Entered /\ [Next]_vars => Entered'
<1> SUFFICES ASSUME IInv, Entered, [Next]_vars, faults' = 0 PROVE Entered'
  BY DEF Entered
<1>1. /\ fat \in [Clusters -> Entry] /\ firstCluster \in [Files -> {0} \cup Clusters]
      /\ freeing \in {0} \cup Clusters /\ faults = 0 /\ Sound
  BY NothingFailed DEF IInv, TypeOK, TableOK
<1>2. faults' # faults + 1
  BY <1>1
<1>3. ASSUME NEW f \in Files, NEW current \in {0} \cup Clusters, AllocateCluster(f, current)
      PROVE  Entered'
  <2>1. PICK find \in Clusters, setStart \in BOOLEAN :
          /\ Search(current, find, setStart) /\ fat' = Linked(current, find)
          /\ firstCluster' = [firstCluster EXCEPT ![f] = IF current = 0 THEN find ELSE @]
    BY <1>3 DEF AllocateCluster
  <2>2. /\ fat[find] = 0
        /\ \/ current = 0 /\ firstCluster[f] = 0
           \/ current \in Clusters /\ fat[current] = EOC
        /\ freeing = 0 /\ freeing' = 0
    <3>1. fat[find] = 0
      BY <2>1, SearchFindsFree
    <3>2. \A d \in Chain(f) : d \in Clusters
      BY <1>1, ChainOwned
    <3> QED  BY <1>3, <3>1, <3>2 DEF AllocateCluster, ExtendsChain
  <2>3. \A c \in Clusters : fat'[c] = IF c = find THEN EOC ELSE IF c = current THEN find ELSE fat[c]
    BY <2>1 DEF Linked
  <2> SUFFICES ASSUME faults' = 0, NEW c \in Clusters, fat'[c] # 0
               PROVE  \/ \E g \in Files : firstCluster'[g] = c
                      \/ \E d \in Clusters : fat'[d] = c
    BY DEF Entered
  <2>4. CASE c = find
    BY <1>1, <2>1, <2>2, <2>3, <2>4, ClustersFinite
  <2>5. CASE c # find
    <3>1. fat[c] # 0
      BY <2>2, <2>3, <2>5, ClustersFinite
    <3>2. CASE \E g \in Files : firstCluster[g] = c
      BY <1>1, <2>1, <2>2, <3>2, ClustersFinite
    <3>3. CASE \E d \in Clusters : fat[d] = c
      BY <2>2, <2>3, <3>3, ClustersFinite
    <3> QED  BY <1>1, <2>2, <3>1, <3>2, <3>3, ClustersFinite DEF Entered
  <2> QED  BY <2>4, <2>5
<1>4. ASSUME NEW f \in Files, NEW count \in 1 .. LastCluster, AllocContiguous(f, count)
      PROVE  Entered'
  <2>1. PICK bgn \in Clusters, end \in Clusters :
          /\ Run(count, bgn, end) /\ fat' = ContiguousFrom(bgn, end)
          /\ firstCluster' = [firstCluster EXCEPT ![f] = bgn]
    BY <1>4 DEF AllocContiguous
  <2>2. /\ bgn <= end /\ \A c \in bgn .. end : c \in Clusters /\ fat[c] = 0
        /\ firstCluster[f] = 0 /\ freeing = 0 /\ freeing' = 0
    BY <1>4, <2>1, RunIsFree DEF AllocContiguous
  <2>3. \A c \in Clusters : fat'[c] = IF c = end THEN EOC
                                      ELSE IF bgn <= c /\ c < end THEN c + 1 ELSE fat[c]
    BY <2>1 DEF ContiguousFrom
  <2> SUFFICES ASSUME faults' = 0, NEW c \in Clusters, fat'[c] # 0
               PROVE  \/ \E g \in Files : firstCluster'[g] = c
                      \/ \E d \in Clusters : fat'[d] = c
    BY DEF Entered
  <2>4. CASE c = bgn
    BY <1>1, <2>1, <2>4
  <2>5. CASE c \in bgn .. end /\ c # bgn
    <3>1. c - 1 \in bgn .. end /\ c - 1 < end /\ bgn <= c - 1 /\ (c - 1) + 1 = c
      BY <2>5 DEF Clusters
    <3>2. c - 1 \in Clusters
      BY <2>2, <3>1
    <3> QED  BY <2>3, <3>1, <3>2
  <2>6. CASE c \notin bgn .. end
    <3>1. fat[c] # 0 /\ fat'[c] = fat[c]
      BY <2>2, <2>3, <2>6 DEF Clusters
    <3>2. CASE \E g \in Files : firstCluster[g] = c
      BY <1>1, <2>1, <2>2, <3>2, ClustersFinite
    <3>3. ASSUME NEW d \in Clusters, fat[d] = c
          PROVE  fat'[d] = c
      <4>1. d \notin bgn .. end
        BY <2>2, <3>3, ClustersFinite
      <4> QED  BY <2>2, <2>3, <3>3, <4>1 DEF Clusters
    <3> QED  BY <1>1, <2>2, <3>1, <3>2, <3>3, ClustersFinite DEF Entered
  <2> QED  BY <2>4, <2>5, <2>6
<1>5. ASSUME NEW f \in Files, FreeWhole(f)
      PROVE  Entered'
  <2>1. /\ freeing = 0 /\ freeing' = firstCluster[f] /\ UNCHANGED <<fat, faults>>
        /\ \A g \in Files : g # f => firstCluster'[g] = firstCluster[g]
    BY <1>1, <1>5 DEF FreeWhole, NoFault
  <2> QED  BY <2>1, ClustersFinite DEF Entered
<1>6. ASSUME NEW f \in Files, NEW c \in Clusters, FreeTail(f, c)
      PROVE  Entered'
  <2>1. /\ freeing = 0 /\ freeing' = fat[c] /\ UNCHANGED <<firstCluster, faults>>
        /\ \A d \in Clusters : fat'[d] = IF d = c THEN EOC ELSE fat[d]
        /\ fat[c] \in Clusters
    BY <1>1, <1>6 DEF FreeTail, NoFault
  <2> QED  BY <2>1, ClustersFinite DEF Entered
<1>7. CASE FreeChainStep
  <2>1. /\ freeing \in Clusters /\ UNCHANGED firstCluster
        /\ \A d \in Clusters : fat'[d] = IF d = freeing THEN 0 ELSE fat[d]
        /\ freeing' = IF fat[freeing] \in Clusters THEN fat[freeing] ELSE 0
    BY <1>1, <1>7 DEF FreeChainStep, NextToFree
  <2> QED  BY <1>1, <2>1, ClustersFinite DEF Entered
<1>8. CASE UNCHANGED <<fat, firstCluster, freeing>>
  BY <1>1, <1>8 DEF Entered
<1>9. ASSUME NEW f \in Files, NEW c \in Clusters, TruncateAtEnd(f, c)
      PROVE  Entered'
  BY <1>1, <1>8, <1>9, EndKept DEF TruncateAtEnd
<1>10. ASSUME NEW reread \in SUBSET Files, Reread(reread)
       PROVE  Entered'
  BY <1>8, <1>10, RereadAgrees DEF Reread
<1> QED
  BY <1>9, <1>10, <1>2, <1>3, <1>4, <1>5, <1>6, <1>7, <1>8
     DEF Next, Allocate, PreAllocate, AllocateClusterFull, AllocateClusterFails,
         AllocateClusterUnlinked, AllocContiguousFull, AllocContiguousFails, FreeChainFails,
         FreeClusterCount, FreeClusterCountFails, Sync, Reopen, Mount, Fault, NoFault, vars

\* What a cluster of From(h) links to is in From(h), and so is h.
LEMMA FromClosed == ASSUME NEW h PROVE ClosedFrom(h, From(h))
BY DEF ClosedFrom, From

\* A cluster that was lost would be entered from a lost one, and so on for ever.
LEMMA NothingLostFollows == IInv /\ Entered /\ (faults = 0 => NoSource) => NothingLost
<1> SUFFICES ASSUME IInv, Entered, NoSource, faults = 0
             PROVE  Clusters \ Free = (UNION {Chain(f) : f \in Files}) \cup From(freeing)
  BY DEF NothingLost
<1> DEFINE Reached == (UNION {Chain(f) : f \in Files}) \cup From(freeing)
           Lost == {c \in Clusters : fat[c] # 0 /\ c \notin Reached}
<1>0. Sound
  BY DEF IInv
<1>1. From(freeing) \subseteq Clusters \ Free
  <2>1. ClosedFrom(freeing, Clusters \ Free)
    BY <1>0, ClustersFinite DEF ClosedFrom, Free, Sound, FreeingDetached, LinksStayInFile
  <2> QED  BY <2>1, FromIsLeast
<1>2. \A f \in Files : Chain(f) \subseteq Clusters \ Free
  BY <1>0, ChainOwned DEF Free
<1>3. Lost = {}
  <2>1. ASSUME NEW c \in Lost
        PROVE  \E d \in Lost : fat[d] = c
    <3>1. \A f \in Files : firstCluster[f] # c
      BY FromClosed DEF Chain, ClosedFrom
    <3>2. freeing # c
      BY FromClosed DEF ClosedFrom
    <3>3. PICK d \in Clusters : fat[d] = c
      BY <3>1, <3>2 DEF Entered
    <3>4. d \notin From(freeing) /\ \A f \in Files : d \notin Chain(f)
      BY <3>3, FromClosed DEF Chain, ClosedFrom
    <3> QED  BY <3>3, <3>4, ClustersFinite
  <2> QED  BY <2>1 DEF NoSource
<1> QED  BY <1>1, <1>2, <1>3 DEF Free

\* Where no access failed, no cluster is lost: what is not free is in the chain of a file or
\* about to be freed, so remove and truncate give back all that allocateCluster and
\* allocContiguous took.
THEOREM AllAccountedFor == Spec => []NothingLost
<1>1. Init => Entered /\ NoSource
  BY InitLost
<1>2. IInv /\ Entered /\ (faults = 0 => NoSource) /\ [Next]_vars
        => Entered' /\ (faults = 0 => NoSource)'
  BY NextEntered, NextNoSource, NothingFailed
<1>3. Spec => [](Entered /\ (faults = 0 => NoSource))
  BY <1>1, <1>2, Invariance, PTL DEF Spec
<1> QED  BY <1>3, NothingLostFollows, Invariance, PTL

=============================================================================
