-------------------------- MODULE WordSearchProofs --------------------------
(***************************************************************************)
(* Theorems about WordSearch, for every query, every mask and every size   *)
(* of the list; and about the edit distance its fuzzy search goes by, for  *)
(* all words and limits.                                                   *)
(***************************************************************************)
EXTENDS WordSearch, Inputs, FiniteSetTheorems, SequenceTheorems, WellFoundedInduction, TLAPS

\* The files that have been read to the end.
Finished == IF f <= Len(files) THEN f - 1 ELSE Len(files)

ListInv ==
    method = "pattern" => list \in Seq(Words) /\ Len(list) <= Limit * Finished + count

Types ==
    /\ method \in {"fuzzy", "pattern", "data"}
    /\ files \in Seq(File)
    /\ f \in 1 .. Len(files) + 2 /\ index \in Nat \ {0}
    /\ slots \in [Places -> Slot] /\ max \in Nat
    /\ count \in 0 .. Limit
    /\ ~Running => count = 0

IInv == Types /\ ListInv /\ FuzzyBest

-----------------------------------------------------------------------------
(* Lemmas.                                                                 *)

\* One more file is room for Limit more words.
LEMMA RoomGrows ==
  ASSUME NEW a \in Nat, NEW b \in Nat
  PROVE  a * (b + 1) = a * b + a
BY SMT

\* More files have more room.
LEMMA RoomOrdered ==
  ASSUME NEW a \in Nat, NEW b \in Nat, NEW c \in Nat, b <= c
  PROVE  a * b <= a * c
<1>1. PICK e \in Nat : c = b + e BY c - b \in Nat
<1>2. a * c = a * b + a * e BY <1>1
<1>3. a * e \in Nat OBVIOUS
<1>4. a * b \in Nat OBVIOUS
<1> QED BY <1>2, <1>3, <1>4

\* The word in hand is a word, with a length and a distance.
LEMMA WordType ==
  ASSUME Types, HasWord
  PROVE  /\ Word \in Words /\ Word # NoWord
         /\ f \in DOMAIN files /\ index \in DOMAIN files[f].words
<1>1. f \in DOMAIN files BY DEF Types, HasWord, Running
<1>2. files[f] \in File BY <1>1 DEF Types
<1>3. files[f].words \in Seq(Words) BY <1>2 DEF File
<1>4. index \in DOMAIN files[f].words BY <1>3 DEF Types, HasWord
<1> QED BY <1>1, <1>3, <1>4, SearchAssumption DEF Word, NoWord

\* Every word of a file is a word.
LEMMA WordsAreWords ==
  ASSUME Types, NEW g \in DOMAIN files, NEW k \in DOMAIN files[g].words
  PROVE  /\ files[g].words[k] \in Words
         /\ g \in 1 .. Len(files) /\ k \in 1 .. Len(files[g].words)
<1>1. files[g] \in File BY DEF Types
<1>2. files[g].words \in Seq(Words) BY <1>1 DEF File
<1> QED BY <1>2 DEF Types

\* Ranks and differences of lengths are natural numbers.
LEMMA RankType ==
  ASSUME NEW w \in Words
  PROVE  /\ Distance[w] \in Nat /\ LengthDifference(w) \in Nat /\ Rank(w) \in Nat
         /\ Rank(w) >= Distance[w] /\ Rank(w) >= LengthDifference(w)
<1>1. Distance[w] \in Nat /\ Length[w] \in Nat /\ QueryLength \in Nat BY SearchAssumption
<1>2. LengthDifference(w) \in Nat BY <1>1 DEF LengthDifference
<1> QED BY <1>1, <1>2 DEF Rank

-----------------------------------------------------------------------------
(* Sorting.                                                                *)

\* A set of positions has a least one.
LEMMA LeastPosition ==
    ASSUME NEW n \in Nat, NEW S \in SUBSET (0 .. n), S # {}
    PROVE  \E m \in S : \A y \in S : m <= y
<1> DEFINE UpTo(x) == {y \in S : y <= x}
           T == {UpTo(x) : x \in S}
<1>1. \A x, y, z \in S : x \in Int /\ (x <= y /\ y <= z => x <= z)  OBVIOUS
<1>2. T \in SUBSET SUBSET (0 .. n) /\ T # {}  OBVIOUS
<1> HIDE DEF T
<1>3. PICK a \in T : \A b \in T : b \subseteq a => b = a
  <2>1. IsFiniteSet(0 .. n)  BY FS_Interval
  <2>2. T \subseteq FiniteSubsetsOf(0 .. n)  BY <1>2, <2>1, FS_FiniteSubsetsOfFinite
  <2>3. IsWellFoundedOn(StrictSubsetOrdering(0 .. n), FiniteSubsetsOf(0 .. n))
    BY FS_StrictSubsetOrderingWellFounded
  <2>4. PICK a \in T : \A b \in T : ~ (<<b, a>> \in StrictSubsetOrdering(0 .. n))
    BY <1>2, <2>2, <2>3, WFMin
  <2> QED BY <1>2, <2>4 DEF StrictSubsetOrdering
<1>4. PICK m \in S : a = UpTo(m)  BY <1>3 DEF T
<1>5. ASSUME NEW y \in S, y < m PROVE FALSE
  <2>1. UpTo(y) \in T  BY DEF T
  <2>2. y <= m  BY <1>1, <1>5
  <2>2a. UpTo(y) \subseteq UpTo(m)  BY <2>2, <1>1
  <2>3. m \in UpTo(y)  BY <1>1, <1>3, <1>4, <2>1, <2>2a
  <2> QED BY <2>3, <1>1, <1>5
<1> QED BY <1>1, <1>5

\* E is what comes before each of 1 .. n and C how much that is: of any two one comes
\* before the other, and what comes before that too.
Chain(n, E, C) ==
  /\ \A i \in 1 .. n : E[i] \in SUBSET (1 .. n) /\ i \notin E[i]
  /\ \A i, j \in 1 .. n : i # j => i \in E[j] \/ j \in E[i]
  /\ \A i, j \in 1 .. n : i \in E[j] => E[i] \subseteq E[j]
  /\ \A i \in 1 .. n : C[i] = Cardinality(E[i])

\* Each has a place of its own, after what comes before it.
Placed(n, E, C) ==
  /\ \A i, j \in 1 .. n : C[i] < C[j] => i \in E[j]
  /\ \A m \in 1 .. n : \E i \in 1 .. n : C[i] = m - 1
  /\ \A i \in 1 .. n : C[i] \in 0 .. n - 1
  /\ \A i, j \in 1 .. n : C[i] = C[j] => i = j

\* If E[i] is what comes before i in a strict total order, each element has a
\* place of its own: after as many as come before it.
LEMMA PlacesFacts ==
  ASSUME NEW n, n \in Nat, NEW E, NEW C, Chain(n, E, C)
  PROVE  Placed(n, E, C)
<1>0. /\ \A i \in 1 .. n : E[i] \in SUBSET (1 .. n) /\ i \notin E[i]
      /\ \A i, j \in 1 .. n : i # j => i \in E[j] \/ j \in E[i]
      /\ \A i, j \in 1 .. n : i \in E[j] => E[i] \subseteq E[j]
      /\ \A i \in 1 .. n : C[i] = Cardinality(E[i])
  BY Zenon DEF Chain
<1> USE <1>0
<1> DEFINE D == 1 .. n
<1>1. IsFiniteSet(D) /\ Cardinality(D) = n  BY FS_Interval
<1>2. \A i \in D : IsFiniteSet(E[i]) /\ C[i] \in Nat /\ C[i] < n
  <2> TAKE i \in D
  <2>1. E[i] \in SUBSET D  OBVIOUS
  <2>2. IsFiniteSet(E[i]) /\ Cardinality(E[i]) <= n /\ (n = Cardinality(E[i]) => D = E[i])
    BY <1>1, <2>1, FS_Subset
  <2>3. C[i] \in Nat  BY <2>2, FS_CardinalityType
  <2>4. D # E[i]  OBVIOUS
  <2>5. C[i] = Cardinality(E[i])  OBVIOUS
  <2> HIDE DEF D
  <2> QED BY <2>2, <2>3, <2>4, <2>5
<1>3. \A i, j \in D : i \in E[j] => C[i] < C[j]
  <2> TAKE i \in D
  <2> TAKE j \in D
  <2> HAVE i \in E[j]
  <2>1. E[i] \in SUBSET E[j] /\ IsFiniteSet(E[j])  BY <1>2
  <2>2. i \notin E[i]  OBVIOUS
  <2>3. /\ Cardinality(E[i]) <= Cardinality(E[j])
        /\ Cardinality(E[j]) = Cardinality(E[i]) => E[j] = E[i]
    BY <2>1, FS_Subset
  <2>4. C[i] = Cardinality(E[i]) /\ C[j] = Cardinality(E[j])  OBVIOUS
  <2>5. C[i] # C[j]  BY <2>2, <2>3, <2>4
  <2>6. C[i] <= C[j]  BY <2>3, <2>4
  <2>7. C[i] \in Nat /\ C[j] \in Nat  BY <1>2
  <2> QED BY <2>5, <2>6, <2>7
<1>4. \A i, j \in D : i # j => C[i] # C[j]
  <2> TAKE i \in D
  <2> TAKE j \in D
  <2> HAVE i # j
  <2>1. C[i] \in Nat /\ C[j] \in Nat  BY <1>2
  <2>2. C[i] < C[j] \/ C[j] < C[i]  BY <1>3
  <2> QED BY <2>1, <2>2
<1>5. \A i, j \in D : C[i] < C[j] => i \in E[j]
  <2> TAKE i \in D
  <2> TAKE j \in D
  <2> HAVE C[i] < C[j]
  <2>1. C[i] \in Nat /\ C[j] \in Nat  BY <1>2
  <2>2. i # j  BY <2>1
  <2>3. ~(j \in E[i])  BY <1>3, <2>1
  <2> QED BY <2>2, <2>3
<1>6. \A m \in D : \E i \in D : C[i] = m - 1
  <2> DEFINE P == [i \in D |-> C[i] + 1]
  <2>1. \A i \in D : P[i] = C[i] + 1 /\ P[i] \in D
    <3> TAKE i \in D
    <3>1. P[i] = C[i] + 1  OBVIOUS
    <3>2. C[i] + 1 \in D  BY <1>2
    <3> QED BY <3>1, <3>2
  <2>2. \A i, j \in D : P[i] = P[j] => i = j
    <3> TAKE i \in D
    <3> TAKE j \in D
    <3> HAVE P[i] = P[j]
    <3>1. C[i] + 1 = C[j] + 1 /\ C[i] \in Nat /\ C[j] \in Nat  BY <1>2, <2>1
    <3>2. C[i] = C[j]  BY <3>1
    <3> QED BY <1>4, <3>2
  <2>3. P \in Injection(D, D)  BY <2>1, <2>2 DEF Injection, IsInjective
  <2>4. P \in Surjection(D, D)  BY <1>1, <2>3, FS_Injection
  <2>5. \A m \in D : \E i \in D : P[i] = m  BY <2>4 DEF Surjection
  <2> TAKE m \in D
  <2>6. PICK i \in D : P[i] = m  BY <2>5
  <2>7. C[i] + 1 = m /\ C[i] \in Nat  BY <1>2, <2>1, <2>6
  <2> QED BY <2>7
<1>7. \A i \in D : C[i] \in 0 .. n - 1  BY <1>2
<1>8. \A i, j \in D : C[i] = C[j] => i = j  BY <1>4
<1> QED BY <1>5, <1>6, <1>7, <1>8, Zenon DEF Placed

\* Pairs of which the first is less than the second: a strict weak order.
WeakOrder(D, L) ==
  /\ \A i \in D : <<i, i>> \notin L
  /\ \A i, j, k \in D : <<i, j>> \in L /\ <<j, k>> \in L => <<i, k>> \in L
  /\ \A i, j, k \in D : <<i, k>> \in L => <<i, j>> \in L \/ <<j, k>> \in L

\* E is what comes before each, C how much that is, a what comes at each place.
Counted(D, L, E, C, a) ==
  /\ \A i \in D : E[i] \in SUBSET D /\ C[i] = Cardinality(E[i])
  /\ \A i, j \in D : j \in E[i] <=> <<j, i>> \in L \/ (j < i /\ <<i, j>> \notin L)
  /\ \A m \in D : (\E i \in D : C[i] = m - 1) => a[m] \in D /\ C[a[m]] = m - 1

\* All are at some place, and none comes after one that it is less than.
Arranged(D, L, a) ==
  /\ \A m \in D : a[m] \in D
  /\ \A i \in D : \E m \in D : a[m] = i
  /\ \A j, k \in D : j < k => a[j] # a[k] /\ <<a[k], a[j]>> \notin L

\* Sorted by a strict weak order, an element follows all that are less than it.
LEMMA ArrangedFacts ==
  ASSUME NEW n \in Nat, NEW L, NEW E, NEW C, NEW a,
         WeakOrder(1 .. n, L), Counted(1 .. n, L, E, C, a)
  PROVE  Arranged(1 .. n, L, a)
<1> DEFINE D == 1 .. n
<1>1. \A i, j \in D : j \in E[i] <=> <<j, i>> \in L \/ (j < i /\ <<i, j>> \notin L)
  BY Zenon DEF Counted
<1>0. /\ \A i \in D : E[i] \in SUBSET D /\ C[i] = Cardinality(E[i])
      /\ \A i \in D : <<i, i>> \notin L
      /\ \A i, j, k \in D : <<i, j>> \in L /\ <<j, k>> \in L => <<i, k>> \in L
      /\ \A i, j, k \in D : <<i, k>> \in L => <<i, j>> \in L \/ <<j, k>> \in L
      /\ \A m \in D : (\E i \in D : C[i] = m - 1) => a[m] \in D /\ C[a[m]] = m - 1
  BY DEF Counted, WeakOrder
<1>2. \A i \in D : E[i] \in SUBSET D /\ i \notin E[i]
  <2> TAKE i \in D
  <2>1. ~(i < i)  OBVIOUS
  <2>2. i \notin E[i]  BY <1>0, <1>1, <2>1
  <2>3. E[i] \in SUBSET D  BY <1>0
  <2> QED BY <2>2, <2>3
<1>3. \A i, j \in D : i # j => i \in E[j] \/ j \in E[i]
  <2> TAKE i \in D
  <2> TAKE j \in D
  <2> HAVE i # j
  <2>1. i < j \/ j < i  OBVIOUS
  <2> QED BY <1>1, <2>1
<1>4. \A i, j \in D : i \in E[j] => E[i] \subseteq E[j]
  <2> TAKE i \in D
  <2> TAKE j \in D
  <2> HAVE i \in E[j]
  <2>1. SUFFICES ASSUME NEW k \in E[i]  PROVE k \in E[j]  OBVIOUS
  <2>2. k \in D  BY <1>2
  <2>3. <<k, i>> \in L \/ (k < i /\ <<i, k>> \notin L)  BY <1>1, <2>2
  <2>4. <<i, j>> \in L \/ (i < j /\ <<j, i>> \notin L)  BY <1>1
  <2>5. k < i /\ i < j => k < j  BY <2>2
  <2>6. <<k, j>> \in L \/ (k < j /\ <<j, k>> \notin L)  BY <1>0, <2>2, <2>3, <2>4, <2>5
  <2> QED BY <1>1, <2>2, <2>6
<1>5. /\ \A i, j \in D : C[i] < C[j] => i \in E[j]
      /\ \A m \in D : \E i \in D : C[i] = m - 1
      /\ \A i \in D : C[i] \in 0 .. n - 1
      /\ \A i, j \in D : C[i] = C[j] => i = j
  <2>1. \A i \in D : C[i] = Cardinality(E[i])  BY <1>0
  <2>2. Chain(n, E, C)  BY <2>1, <1>2, <1>3, <1>4, Zenon DEF Chain
  <2>3. Placed(n, E, C)  BY <2>2, PlacesFacts
  <2> QED BY <2>3, Zenon DEF Placed
<1>6. \A m \in D : a[m] \in D /\ C[a[m]] = m - 1  BY <1>0, <1>5
<1>7. \A i \in D : \E m \in D : a[m] = i
  <2> TAKE i \in D
  <2>1. C[i] + 1 \in D /\ (C[i] + 1) - 1 = C[i]  BY <1>5
  <2>2. a[C[i] + 1] \in D /\ C[a[C[i] + 1]] = C[i]  BY <1>6, <2>1
  <2> QED BY <1>5, <2>1, <2>2
<1>8. \A j, k \in D : j < k => a[j] # a[k] /\ <<a[k], a[j]>> \notin L
  <2> TAKE j \in D
  <2> TAKE k \in D
  <2> HAVE j < k
  <2>1. a[j] \in D /\ a[k] \in D /\ C[a[j]] = j - 1 /\ C[a[k]] = k - 1  BY <1>6
  <2>2. C[a[j]] < C[a[k]]  BY <2>1
  <2>3. a[j] \in E[a[k]]  BY <1>5, <2>1, <2>2
  <2>4. a[j] # a[k]  BY <1>2, <2>1, <2>3
  <2>5. <<a[j], a[k]>> \in L \/ <<a[k], a[j]>> \notin L  BY <1>1, <2>1, <2>3
  <2> QED BY <1>0, <2>1, <2>4, <2>5
<1> QED BY <1>6, <1>7, <1>8 DEF Arranged

-----------------------------------------------------------------------------
(* The answer of a fuzzy search.                                           *)

\* Nothing is in an empty place, which is as far away as is looked for; words
\* are nearer.
EmptyIsFar ==
  /\ max <= MaxDistance
  /\ \A j \in Places : IF slots[j].word = NoWord THEN slots[j].distance = MaxDistance
                                                 ELSE slots[j].distance < MaxDistance

\* Of three places, one that is less than another is less than the third or the
\* third is less than the other, since all at one distance are words, or none is.
LEMMA NearerThan ==
  ASSUME NEW di \in Nat, NEW dj \in Nat, NEW dk \in Nat, NEW m \in Nat,
         NEW wi \in Nat, NEW wj \in Nat, NEW wk \in Nat,
         IF wi = 0 THEN di = m ELSE di < m,
         IF wj = 0 THEN dj = m ELSE dj < m,
         IF wk = 0 THEN dk = m ELSE dk < m,
         IF di # dk THEN di < dk ELSE wi # 0 /\ wk # 0 /\ wi < wk
  PROVE  \/ IF di # dj THEN di < dj ELSE wi # 0 /\ wj # 0 /\ wi < wj
         \/ IF dj # dk THEN dj < dk ELSE wj # 0 /\ wk # 0 /\ wj < wk
OBVIOUS

\* Sorted, the places follow one another by Before, each as often as it was.
LEMMA SlotsArranged ==
  ASSUME Types, EmptyIsFar
  PROVE  \E a : /\ \A m \in Places : a[m] \in Places
                                     /\ InOrder(slots, Before)[m] = slots[a[m]]
                /\ \A i \in Places : \E m \in Places : a[m] = i
                /\ \A j, k \in Places : j < k =>
                     a[j] # a[k] /\ ~Before(slots[a[k]], slots[a[j]])
                /\ DOMAIN InOrder(slots, Before) = Places
<1> DEFINE Earlier(i) == {j \in Places :
                             Before(slots[j], slots[i]) \/ (j < i /\ ~Before(slots[i], slots[j]))}
           E == [i \in Places |-> Earlier(i)]
           C == [i \in Places |-> Cardinality(E[i])]
           a == [m \in Places |-> CHOOSE i \in Places : Cardinality(Earlier(i)) = m - 1]
           L == {p \in Places \X Places : Before(slots[p[1]], slots[p[2]])}
<1>1. /\ ListSize \in Nat /\ Places = 1 .. ListSize /\ DOMAIN slots = Places
      /\ MaxDistance \in Nat
  BY SearchAssumption DEF Types, Places
<1>2. \A i \in Places : /\ slots[i].word \in Words \cup {NoWord} /\ slots[i].distance \in Nat
                        /\ slots[i].word \in Nat
  <2> TAKE i \in Places
  <2>1. slots[i] \in Slot  BY DEF Types
  <2>2. slots[i].word \in Words \cup {NoWord} /\ slots[i].distance \in Nat  BY <2>1 DEF Slot
  <2>3. Words \cup {NoWord} \subseteq Nat  BY SearchAssumption DEF NoWord
  <2> QED BY <2>2, <2>3
<1>3. /\ DOMAIN InOrder(slots, Before) = Places
      /\ \A m \in Places : InOrder(slots, Before)[m] = slots[a[m]]
  BY <1>1 DEF InOrder
<1>4. \A i, j \in Places : <<i, j>> \in L <=> Before(slots[i], slots[j])  OBVIOUS
<1>5. \A i \in Places : E[i] = Earlier(i) /\ C[i] = Cardinality(E[i])
                        /\ E[i] \in SUBSET Places
  OBVIOUS
<1>6. \A i, j \in Places : j \in E[i] <=> <<j, i>> \in L \/ (j < i /\ <<i, j>> \notin L)
  <2> SUFFICES ASSUME NEW i \in Places, NEW j \in Places
               PROVE  j \in E[i] <=> <<j, i>> \in L \/ (j < i /\ <<i, j>> \notin L)
    BY Zenon
  <2>1. E[i] = Earlier(i)  BY <1>5
  <2>2. j \in Earlier(i) <=> Before(slots[j], slots[i]) \/ (j < i /\ ~Before(slots[i], slots[j]))
    OBVIOUS
  <2>3. <<j, i>> \in L <=> Before(slots[j], slots[i])  BY <1>4
  <2>4. <<i, j>> \in L <=> Before(slots[i], slots[j])  BY <1>4
  <2> HIDE DEF E, L, Earlier
  <2> QED BY <2>1, <2>2, <2>3, <2>4
<1>7. \A m \in Places : (\E i \in Places : C[i] = m - 1) => a[m] \in Places /\ C[a[m]] = m - 1
  <2> TAKE m \in Places
  <2> HAVE \E i \in Places : C[i] = m - 1
  <2>1. \E i \in Places : Cardinality(Earlier(i)) = m - 1  BY <1>5
  <2>2. a[m] = CHOOSE i \in Places : Cardinality(Earlier(i)) = m - 1  OBVIOUS
  <2>3. a[m] \in Places /\ Cardinality(Earlier(a[m])) = m - 1
    <3> HIDE DEF Earlier, a
    <3> QED BY <2>1, <2>2, Zenon
  <2> QED BY <1>5, <2>3
<1> HIDE DEF E, C, a, L
<1>8. \A i \in Places : <<i, i>> \notin L  BY <1>2, <1>4 DEF Before
<1>9. \A i, j, k \in Places : <<i, j>> \in L /\ <<j, k>> \in L => <<i, k>> \in L
  BY <1>2, <1>4 DEF Before
<1>10. \A i, j, k \in Places : <<i, k>> \in L => <<i, j>> \in L \/ <<j, k>> \in L
  <2> SUFFICES ASSUME NEW i \in Places, NEW j \in Places, NEW k \in Places, <<i, k>> \in L
               PROVE  <<i, j>> \in L \/ <<j, k>> \in L
    BY Zenon
  <2>1. Before(slots[i], slots[k])  BY <1>4
  <2>2. Before(slots[i], slots[j]) \/ Before(slots[j], slots[k])
    <3> DEFINE d(x) == slots[x].distance
               w(x) == slots[x].word
    <3>1. /\ d(i) \in Nat /\ d(j) \in Nat /\ d(k) \in Nat
          /\ w(i) \in Nat /\ w(j) \in Nat /\ w(k) \in Nat
      BY <1>2
    <3>2. \A x \in Places : IF w(x) = NoWord THEN d(x) = MaxDistance ELSE d(x) < MaxDistance
      BY DEF EmptyIsFar
    <3>3. /\ IF w(i) = NoWord THEN d(i) = MaxDistance ELSE d(i) < MaxDistance
          /\ IF w(j) = NoWord THEN d(j) = MaxDistance ELSE d(j) < MaxDistance
          /\ IF w(k) = NoWord THEN d(k) = MaxDistance ELSE d(k) < MaxDistance
      BY <3>2
    <3> DEFINE Less(x, y) == IF d(x) # d(y) THEN d(x) < d(y)
                             ELSE w(x) # NoWord /\ w(y) # NoWord /\ w(x) < w(y)
    <3>4. \A x, y : Before(slots[x], slots[y]) <=> Less(x, y)
      BY DEF Before
    <3>5. Less(i, k)  BY <2>1, <3>4
    <3>6. Less(i, j) \/ Less(j, k)
      <4> HIDE DEF d, w
      <4> QED BY <1>1, <3>1, <3>3, <3>5, NearerThan DEF NoWord
    <3> QED BY <3>4, <3>6
  <2> QED BY <1>4, <2>2
<1>11. Arranged(Places, L, a)
  <2>1. WeakOrder(Places, L)  BY <1>8, <1>9, <1>10 DEF WeakOrder
  <2>2. Counted(Places, L, E, C, a)  BY <1>5, <1>6, <1>7 DEF Counted
  <2> QED BY <1>1, <2>1, <2>2, ArrangedFacts DEF Places
<1>12. \A j, k \in Places : j < k => a[j] # a[k] /\ ~Before(slots[a[k]], slots[a[j]])
  BY <1>4, <1>11 DEF Arranged
<1> QED BY <1>3, <1>11, <1>12 DEF Arranged

\* UntilEmpty goes up to the first empty place.
LEMMA UntilEmptyFacts ==
  ASSUME NEW n \in Nat, NEW t, DOMAIN t = 1 .. n, Len(t) = n
  PROVE  \E z \in 0 .. n :
            /\ UntilEmpty(t) = [j \in 1 .. z |-> t[j].word]
            /\ \A j \in 1 .. z : t[j].word # NoWord
            /\ z < n => t[z + 1].word = NoWord
<1> DEFINE empty == {j \in 1 .. n : t[j].word = NoWord}
           first == CHOOSE j \in empty : \A k \in empty : j <= k
           z == IF empty = {} THEN n ELSE first - 1
<1>1. UntilEmpty(t) = [j \in 1 .. z |-> t[j].word]  BY DEF UntilEmpty
<1>2. CASE empty = {}
  <2>1. z = n  BY <1>2
  <2>2. \A j \in 1 .. n : t[j].word # NoWord  BY <1>2
  <2> HIDE DEF z
  <2> QED BY <1>1, <2>1, <2>2
<1>3. CASE empty # {}
  <2>1. \E j \in empty : \A k \in empty : j <= k
    <3>1. empty \in SUBSET (0 .. n)  OBVIOUS
    <3> HIDE DEF empty
    <3> QED BY <1>3, <3>1, LeastPosition
  <2>2. first \in empty /\ \A k \in empty : first <= k
    <3> HIDE DEF empty
    <3> QED BY <2>1, Zenon
  <2>3. z = first - 1  BY <1>3
  <2>4. first \in 1 .. n /\ t[first].word = NoWord  BY <2>2
  <2>5. \A j \in 1 .. n : j < first => t[j].word # NoWord
    <3> SUFFICES ASSUME NEW j \in 1 .. n, j < first, t[j].word = NoWord  PROVE FALSE
      OBVIOUS
    <3>1. j \in empty  OBVIOUS
    <3>2. first <= j  BY <2>2, <3>1
    <3> HIDE DEF first, empty
    <3> QED BY <2>4, <3>2
  <2> HIDE DEF z, first
  <2>6. z \in 0 .. n /\ z + 1 = first  BY <2>3, <2>4
  <2>7. \A j \in 1 .. z : j \in 1 .. n /\ j < first  BY <2>3, <2>4
  <2> QED BY <1>1, <2>4, <2>5, <2>6, <2>7
<1> QED BY <1>2, <1>3

\* Fuzzystruct's operator<.
LEMMA BeforeMeans ==
  \A u, v : Before(u, v) <=> IF u.distance # v.distance THEN u.distance < v.distance
                             ELSE u.word # NoWord /\ v.word # NoWord /\ u.word < v.word
BY DEF Before

\* What a fuzzy search and a pattern make of what they have gathered.
FuzzyAnswer(s) == UntilEmpty(InOrder(s, Before))
PatternAnswer(s) == InOrder(s, less_for_compare)

\* The caller of a fuzzy search is given its words, all of them and by distance.
LEMMA FuzzyAnswerRight ==
  ASSUME Types, EmptyIsFar, NoWordTwice, DistancesFit,
         NEW r, r = FuzzyAnswer(slots)
  PROVE  /\ ToSet(r) = {slots[j].word : j \in Places} \ {NoWord}
         /\ \A j, k \in DOMAIN r : j < k =>
              \/ Distance[r[j]] < Distance[r[k]]
              \/ Distance[r[j]] = Distance[r[k]] /\ r[j] < r[k]
<1> DEFINE n == ListSize
           t == InOrder(slots, Before)
<1>1. n \in Nat /\ Places = 1 .. n  BY SearchAssumption DEF Places
<1>2. PICK a : /\ \A m \in Places : a[m] \in Places /\ t[m] = slots[a[m]]
               /\ \A i \in Places : \E m \in Places : a[m] = i
               /\ \A j, k \in Places : j < k =>
                     a[j] # a[k] /\ ~Before(slots[a[k]], slots[a[j]])
               /\ DOMAIN t = Places
  BY SlotsArranged, Zenon
<1>3. Len(t) = n
  <2>1. slots \in [Places -> Slot] /\ DOMAIN slots = Places  BY DEF Types
  <2>2. \E e : t = [m \in DOMAIN slots |-> e[m]]
    <3> DEFINE x(m) == slots[CHOOSE i \in DOMAIN slots :
                  Cardinality({j \in DOMAIN slots : Before(slots[j], slots[i])
                                  \/ (j < i /\ ~Before(slots[i], slots[j]))}) = m - 1]
               e == [m \in DOMAIN slots |-> x(m)]
    <3>1. t = e  BY DEF InOrder
    <3>2. e = [m \in DOMAIN slots |-> e[m]]
      <4> HIDE DEF x
      <4> QED OBVIOUS
    <3> QED BY <3>1, <3>2
  <2>3. PICK e : t = [m \in 1 .. n |-> e[m]]  BY <1>1, <2>1, <2>2
  <2> HIDE DEF t
  <2> QED BY <1>1, <2>3
<1> HIDE DEF n, t
<1>4. PICK z \in 0 .. n :
        /\ r = [j \in 1 .. z |-> t[j].word]
        /\ \A j \in 1 .. z : t[j].word # NoWord
        /\ z < n => t[z + 1].word = NoWord
  <2>1. DOMAIN t = 1 .. n  BY <1>1, <1>2
  <2>2. r = UntilEmpty(t)  BY Zenon DEF t, FuzzyAnswer
  <2> QED BY <1>1, <1>3, <2>1, <2>2, UntilEmptyFacts
<1>5. \A i \in Places :
        /\ slots[i].word \in Words \cup {NoWord} /\ slots[i].word \in Nat
        /\ slots[i].distance \in Nat
        /\ IF slots[i].word = NoWord THEN slots[i].distance = MaxDistance
                                      ELSE slots[i].distance < MaxDistance
  <2> TAKE i \in Places
  <2>1. slots[i] \in Slot  BY DEF Types
  <2>2. slots[i].word \in Words \cup {NoWord} /\ slots[i].distance \in Nat  BY <2>1 DEF Slot
  <2>3. Words \cup {NoWord} \subseteq Nat  BY SearchAssumption DEF NoWord
  <2> QED BY <2>2, <2>3 DEF EmptyIsFar
<1>6. MaxDistance \in Nat  BY SearchAssumption
<1>7. \A j \in 1 .. z : j \in Places  BY <1>1, <1>4
<1>8. \A j \in Places : j \in 1 .. z \/ t[j].word = NoWord
  <2> SUFFICES ASSUME NEW j \in Places, j \notin 1 .. z, t[j].word # NoWord  PROVE FALSE
    OBVIOUS
  <2>1. j \in 1 .. n /\ z < j  BY <1>1, <1>4
  <2>2. z + 1 \in Places /\ z < n  BY <1>1, <1>4, <2>1
  <2>3. t[z + 1].word = NoWord  BY <1>4, <2>2
  <2>4. z + 1 # j  BY <2>3
  <2>5. z + 1 < j  BY <1>4, <2>1, <2>4
  <2> DEFINE x == a[j]
             y == a[z + 1]
  <2>6. /\ x \in Places /\ y \in Places /\ t[j] = slots[x] /\ t[z + 1] = slots[y]
        /\ ~Before(slots[x], slots[y])
    BY <1>2, <2>2, <2>5
  <2> HIDE DEF x, y
  <2>7. slots[x].distance < MaxDistance /\ slots[y].distance = MaxDistance
    BY <1>5, <2>3, <2>6
  <2>8. slots[x].distance \in Nat  BY <1>5, <2>6
  <2>9. slots[x].distance # slots[y].distance /\ slots[x].distance < slots[y].distance
    BY <1>6, <2>7, <2>8
  <2>10. Before(slots[x], slots[y])  BY <2>9, BeforeMeans
  <2> QED BY <2>6, <2>10
<1>9. DOMAIN r = 1 .. z /\ \A j \in 1 .. z : r[j] = t[j].word  BY <1>4
<1>10. ASSUME NEW w \in ToSet(r)  PROVE w \in {slots[j].word : j \in Places} \ {NoWord}
  <2>1. PICK j \in 1 .. z : w = r[j]  BY <1>9 DEF ToSet
  <2>2. j \in Places /\ w = t[j].word /\ w # NoWord  BY <1>4, <1>7, <1>9, <2>1
  <2>3. a[j] \in Places /\ w = slots[a[j]].word  BY <1>2, <2>2
  <2> QED BY <2>2, <2>3
<1>11. ASSUME NEW w \in {slots[j].word : j \in Places} \ {NoWord}  PROVE w \in ToSet(r)
  <2>1. PICK i \in Places : w = slots[i].word  OBVIOUS
  <2>2. PICK m \in Places : a[m] = i  BY <1>2
  <2>3. t[m].word = w /\ w # NoWord  BY <1>2, <2>1, <2>2
  <2>4. m \in 1 .. z  BY <1>8, <2>3
  <2>5. m \in DOMAIN r /\ w = r[m]  BY <1>9, <2>3, <2>4
  <2> QED BY <2>5 DEF ToSet
<1>12. ASSUME NEW j \in DOMAIN r, NEW k \in DOMAIN r, j < k
       PROVE  \/ Distance[r[j]] < Distance[r[k]]
              \/ Distance[r[j]] = Distance[r[k]] /\ r[j] < r[k]
  <2> DEFINE x == a[j]
             y == a[k]
  <2>1. /\ j \in 1 .. z /\ k \in 1 .. z /\ j \in Places /\ k \in Places
        /\ r[j] = t[j].word /\ r[k] = t[k].word /\ r[j] # NoWord /\ r[k] # NoWord
    BY <1>4, <1>7, <1>9
  <2>2. /\ x \in Places /\ y \in Places /\ x # y /\ ~Before(slots[y], slots[x])
        /\ t[j] = slots[x] /\ t[k] = slots[y]
    BY <1>2, <1>12, <2>1
  <2> HIDE DEF x, y
  <2>3. r[j] = slots[x].word /\ r[k] = slots[y].word  BY <2>1, <2>2
  <2>4. r[j] # r[k]  BY <2>1, <2>2, <2>3 DEF NoWordTwice
  <2>5. slots[x].distance = Distance[r[j]] /\ slots[y].distance = Distance[r[k]]
    BY <2>1, <2>2, <2>3 DEF DistancesFit
  <2>6. /\ Distance[r[j]] \in Nat /\ Distance[r[k]] \in Nat /\ r[j] \in Nat /\ r[k] \in Nat
    BY <1>5, <2>2, <2>3, <2>5
  <2>7. ~(IF Distance[r[k]] # Distance[r[j]] THEN Distance[r[k]] < Distance[r[j]]
          ELSE r[k] # NoWord /\ r[j] # NoWord /\ r[k] < r[j])
    BY <2>2, <2>3, <2>5, BeforeMeans
  <2> QED BY <2>1, <2>4, <2>6, <2>7
<1> QED BY <1>10, <1>11, <1>12

-----------------------------------------------------------------------------
(* The answer of a pattern.                                                *)

\* less_for_compare() of words as numbers.
LEMMA LessMeans == \A v, w : less_for_compare(v, w) <=> v < w
BY DEF less_for_compare

\* Words of which none is there twice are increasing once sorted.
LEMMA WordsSorted ==
  ASSUME NEW s \in Seq(Nat), \A j, k \in DOMAIN s : s[j] = s[k] => j = k,
         NEW r, r = InOrder(s, less_for_compare)
  PROVE  Increasing(r) /\ ToSet(r) = ToSet(s)
<1> DEFINE n == Len(s)
           D == 1 .. n
           Earlier(i) == {j \in D : less_for_compare(s[j], s[i])
                                    \/ (j < i /\ ~less_for_compare(s[i], s[j]))}
           E == [i \in D |-> Earlier(i)]
           C == [i \in D |-> Cardinality(E[i])]
           a == [m \in D |-> CHOOSE i \in D : Cardinality(Earlier(i)) = m - 1]
           L == {p \in D \X D : s[p[1]] < s[p[2]]}
<1>1. n \in Nat /\ DOMAIN s = D /\ \A i \in D : s[i] \in Nat  OBVIOUS
<1>2. DOMAIN r = D /\ \A m \in D : r[m] = s[a[m]]  BY <1>1 DEF InOrder
<1>3. \A i, j \in D : <<i, j>> \in L <=> s[i] < s[j]  OBVIOUS
<1>4. \A i \in D : E[i] = Earlier(i) /\ C[i] = Cardinality(E[i]) /\ E[i] \in SUBSET D
  OBVIOUS
<1>5. \A i, j \in D : j \in E[i] <=> <<j, i>> \in L \/ (j < i /\ <<i, j>> \notin L)
  <2> SUFFICES ASSUME NEW i \in D, NEW j \in D
               PROVE  j \in E[i] <=> <<j, i>> \in L \/ (j < i /\ <<i, j>> \notin L)
    BY Zenon
  <2>1. E[i] = Earlier(i)  BY <1>4
  <2>2. j \in Earlier(i) <=> s[j] < s[i] \/ (j < i /\ ~(s[i] < s[j]))  BY LessMeans
  <2>3. <<j, i>> \in L <=> s[j] < s[i]  BY <1>3
  <2>4. <<i, j>> \in L <=> s[i] < s[j]  BY <1>3
  <2> HIDE DEF E, L, Earlier
  <2> QED BY <2>1, <2>2, <2>3, <2>4
<1>6. \A m \in D : (\E i \in D : C[i] = m - 1) => a[m] \in D /\ C[a[m]] = m - 1
  <2> TAKE m \in D
  <2> HAVE \E i \in D : C[i] = m - 1
  <2>1. \E i \in D : Cardinality(Earlier(i)) = m - 1  BY <1>4
  <2>2. a[m] = CHOOSE i \in D : Cardinality(Earlier(i)) = m - 1  OBVIOUS
  <2>3. a[m] \in D /\ Cardinality(Earlier(a[m])) = m - 1
    <3> HIDE DEF Earlier, a
    <3> QED BY <2>1, <2>2, Zenon
  <2> QED BY <1>4, <2>3
<1> HIDE DEF E, C, a, L
<1>7. WeakOrder(D, L)
  <2>1. \A i \in D : <<i, i>> \notin L  BY <1>1, <1>3
  <2>2. \A i, j, k \in D : <<i, j>> \in L /\ <<j, k>> \in L => <<i, k>> \in L
    BY <1>1, <1>3
  <2>3. \A i, j, k \in D : <<i, k>> \in L => <<i, j>> \in L \/ <<j, k>> \in L
    BY <1>1, <1>3
  <2> QED BY <2>1, <2>2, <2>3 DEF WeakOrder
<1>8. Counted(D, L, E, C, a)  BY <1>4, <1>5, <1>6 DEF Counted
<1>9. Arranged(D, L, a)  BY <1>1, <1>7, <1>8, ArrangedFacts
<1>10. ASSUME NEW j \in D, NEW k \in D, j < k  PROVE r[j] < r[k]
  <2>1. a[j] \in D /\ a[k] \in D /\ a[j] # a[k] /\ <<a[k], a[j]>> \notin L
    BY <1>9, <1>10 DEF Arranged
  <2>2. ~(s[a[k]] < s[a[j]]) /\ s[a[j]] # s[a[k]]  BY <1>1, <1>3, <2>1
  <2>3. s[a[j]] \in Nat /\ s[a[k]] \in Nat  BY <1>1, <2>1
  <2> DEFINE x == s[a[j]]
             y == s[a[k]]
  <2>4. x < y
    <3>1. x \in Nat /\ y \in Nat /\ ~(y < x) /\ x # y  BY <2>2, <2>3
    <3> HIDE DEF x, y
    <3> QED BY <3>1
  <2> QED BY <1>2, <2>4
<1>11. ASSUME NEW w \in ToSet(r)  PROVE w \in ToSet(s)
  <2>1. PICK m \in D : w = r[m]  BY <1>2 DEF ToSet
  <2>2. a[m] \in D /\ w = s[a[m]]  BY <1>2, <1>9, <2>1 DEF Arranged
  <2> QED BY <1>1, <2>2 DEF ToSet
<1>12. ASSUME NEW w \in ToSet(s)  PROVE w \in ToSet(r)
  <2>1. PICK i \in D : w = s[i]  BY <1>1 DEF ToSet
  <2>2. PICK m \in D : a[m] = i  BY <1>9 DEF Arranged
  <2>3. m \in DOMAIN r /\ w = r[m]  BY <1>2, <2>1, <2>2
  <2> QED BY <2>3 DEF ToSet
<1>13. Increasing(r)  BY <1>2, <1>10 DEF Increasing
<1>14. ToSet(r) = ToSet(s)  BY <1>11, <1>12
<1> QED BY <1>13, <1>14

-----------------------------------------------------------------------------
(* The first state.                                                        *)

\* At the start nothing has been read.
LEMMA InitIInv == Init => IInv
<1> SUFFICES ASSUME Init PROVE IInv OBVIOUS
<1> USE SearchAssumption
<1>1. Types
  <2>1. slots \in [Places -> Slot] BY DEF Init, Slot, NoWord
  <2>2. files \in Seq(File) BY DEF Init
  <2> QED BY <2>1, <2>2 DEF Init, Types
<1>2. ListInv
  <2>1. list = <<>> /\ count = 0 BY DEF Init
  <2>2. Finished \in Nat BY <1>1 DEF Types, Finished
  <2>3. Limit * Finished \in Nat BY <2>2
  <2> QED BY <2>1, <2>3 DEF ListInv
<1>3. FuzzyBest
  <2>1. max \in Greatest(slots)
    <3>1. 1 \in Places BY DEF Places
    <3>2. max = slots[1].distance BY <3>1 DEF Init
    <3>3. \A j \in Places : slots[j].distance <= max BY DEF Init
    <3> QED BY <3>1, <3>2, <3>3 DEF Greatest
  <2>2. NoWordTwice /\ DistancesFit BY DEF Init, NoWordTwice, DistancesFit
  <2>3. ASSUME NEW g \in DOMAIN files, NEW k \in DOMAIN files[g].words PROVE ~Passed(g, k)
    BY <1>1, WordsAreWords DEF Init, Passed
  <2> QED BY <2>1, <2>2, <2>3 DEF FuzzyBest
<1> QED BY <1>1, <1>2, <1>3 DEF IInv

-----------------------------------------------------------------------------
(* The steps.                                                              *)

\* Every step keeps the types.
LEMMA TypesStep == IInv /\ [Next]_vars => Types'
<1> SUFFICES ASSUME IInv, [Next]_vars PROVE Types' OBVIOUS
<1> USE DEF IInv, Types
<1>1. CASE PassOver
  <2>1. HasWord /\ Running BY <1>1 DEF PassOver, HasWord
  <2> QED BY <1>1, <2>1 DEF PassOver, Forward, Running
<1>2. CASE Replace
  <2>1. Word \in Words BY <1>2, WordType DEF Replace
  <2>2. PICK j \in Places :
          slots' = [slots EXCEPT ![j] = [word |-> Word, distance |-> Distance[Word]]]
    BY <1>2 DEF Replace
  <2>3. Distance[Word] \in Nat BY <2>1, RankType
  <2>4. slots' \in [Places -> Slot] BY <2>1, <2>2, <2>3 DEF Slot
  <2>5. max' \in Nat BY <1>2, <2>4 DEF Replace, Greatest, Slot
  <2>6. HasWord /\ Running BY <1>2 DEF Replace, HasWord
  <2> QED BY <1>2, <2>4, <2>5, <2>6 DEF Replace, Forward, Running
<1>3. CASE TakeMatch
  <2>1. HasWord /\ Running BY <1>3 DEF TakeMatch, HasWord
  <2>2. count' \in 0 .. Limit BY <1>3, SearchAssumption DEF TakeMatch
  <2> QED BY <1>3, <2>1, <2>2 DEF TakeMatch, Forward, Running
<1>4. CASE LeaveWord
  <2>1. HasWord /\ Running BY <1>4 DEF LeaveWord, HasWord
  <2> QED BY <1>4, <2>1 DEF LeaveWord, Forward, Running
<1>5. CASE ReadArticle
  <2>1. HasWord /\ Running BY <1>5 DEF ReadArticle, HasWord
  <2> QED BY <1>5, <2>1 DEF ReadArticle, Forward, Running
<1>6. CASE EndFile
  BY <1>6, SearchAssumption DEF EndFile, Running
<1>7. CASE Finish
  BY <1>7, SearchAssumption DEF Finish, Running
<1>8. CASE UNCHANGED vars
  BY <1>8 DEF vars, Running
<1> QED BY <1>1, <1>2, <1>3, <1>4, <1>5, <1>6, <1>7, <1>8 DEF Next

\* Every step leaves the list of a pattern within the room of the files read.
LEMMA ListStep == IInv /\ [Next]_vars => ListInv'
<1> SUFFICES ASSUME IInv, [Next]_vars, method' = "pattern" PROVE
      list' \in Seq(Words) /\ Len(list') <= Limit * Finished' + count'
  BY DEF ListInv
<1> USE SearchAssumption
<1>1. method = "pattern" BY DEF Next, vars, PassOver, Replace, TakeMatch, LeaveWord,
        ReadArticle, EndFile, Finish, Forward
<1>2. list \in Seq(Words) /\ Len(list) <= Limit * Finished + count
  BY <1>1 DEF IInv, ListInv
<1>3. Finished \in Nat /\ count \in Nat BY DEF IInv, Types, Finished
<1>4. Limit * Finished \in Nat BY <1>3
<1>5. CASE TakeMatch
  <2>1. Word \in Words BY <1>5, WordType DEF IInv, TakeMatch
  <2>2. Finished' = Finished BY <1>5 DEF TakeMatch, Forward, Finished
  <2>3. count' = count + 1 BY <1>5 DEF TakeMatch
  <2>4. list' = list \/ list' = Append(list, Word) BY <1>5 DEF TakeMatch
  <2>5. list' \in Seq(Words) /\ Len(list') <= Len(list) + 1
    <3>1. list \in Seq(Words) /\ Len(list) \in Nat BY <1>2, LenProperties
    <3>2. CASE list' = list BY <3>1, <3>2
    <3>3. CASE list' = Append(list, Word)
      <4>1. list' \in Seq(Words) BY <2>1, <3>1, <3>3, AppendProperties
      <4>2. Len(list') = Len(list) + 1 BY <2>1, <3>1, <3>3, AppendProperties
      <4> QED BY <3>1, <4>1, <4>2
    <3> QED BY <2>4, <3>2, <3>3
  <2> QED BY <1>2, <1>3, <1>4, <2>2, <2>3, <2>5
<1>6. CASE LeaveWord
  BY <1>2, <1>6 DEF LeaveWord, Forward, Finished
<1>7. CASE EndFile
  <2>1. Finished' = Finished + 1
    BY <1>7 DEF IInv, Types, EndFile, Running, Finished
  <2>2. Limit * Finished' = Limit * Finished + Limit BY <1>3, <2>1, RoomGrows
  <2>3. count <= Limit BY DEF IInv, Types
  <2>4. list' = list /\ count' = 0 BY <1>7 DEF EndFile
  <2> QED BY <1>2, <1>3, <1>4, <2>2, <2>3, <2>4
<1>8. CASE Finish
  <2>1. Finished' = Finished
    BY <1>8 DEF IInv, Types, Finish, Finished
  <2> QED BY <1>2, <1>8, <2>1 DEF Finish
<1>9. CASE UNCHANGED vars
  BY <1>2, <1>9 DEF vars, Finished
<1> QED BY <1>1, <1>5, <1>6, <1>7, <1>8, <1>9 DEF Next, PassOver, Replace, ReadArticle

\* A word that one of the best displaces is no better than the list it leaves.
LEMMA ReplaceKeepsBest ==
  ASSUME IInv, method = "fuzzy", Replace
  PROVE  FuzzyBest'
<1> USE DEF IInv, Types
<1>1. /\ Word \in Words /\ Word # NoWord
      /\ f \in DOMAIN files /\ index \in DOMAIN files[f].words
  BY WordType DEF Replace
<1>2. /\ max \in Greatest(slots) /\ NoWordTwice /\ DistancesFit
      /\ \A g \in DOMAIN files : \A k \in DOMAIN files[g].words :
           Passed(g, k) => NoBetterWord(files[g].words[k])
  BY DEF FuzzyBest
<1>3. PICK j \in Places :
        /\ IsWorst(j)
        /\ slots' = [slots EXCEPT ![j] = [word |-> Word, distance |-> Distance[Word]]]
  BY DEF Replace
<1>4. \A k \in Places : slots[k].distance \in Nat /\ slots[k].distance <= max
  BY <1>2 DEF Greatest, Slot
<1>5. slots[j].distance = max
  <2>1. \E k \in Places : slots[k].distance = max BY <1>2 DEF Greatest
  <2> QED BY <1>3, <2>1 DEF IsWorst
<1>6. Distance[Word] \in Nat /\ Distance[Word] < max /\ ~Listed(Word)
  BY <1>1, RankType DEF Replace, Qualifies
<1>7. /\ slots'[j].word = Word /\ slots'[j].distance = Distance[Word]
      /\ \A k \in Places : k # j => slots'[k] = slots[k]
  BY <1>3
<1>8. files' = files /\ f' = f /\ index' = index + 1 /\ method' = method
  BY DEF Replace, Forward
<1>9. max' \in Greatest(slots)' BY DEF Replace, Greatest
<1>10. NoWordTwice' BY <1>2, <1>6, <1>7 DEF NoWordTwice, Listed
<1>11. DistancesFit' BY <1>2, <1>7 DEF DistancesFit
<1>12. ASSUME NEW g \in DOMAIN files, NEW k \in DOMAIN files[g].words, Passed(g, k)'
       PROVE  NoBetterWord(files[g].words[k])'
  <2> DEFINE w == files[g].words[k]
  <2>1. w \in Words /\ w # NoWord BY WordsAreWords, SearchAssumption DEF NoWord
  <2>2. /\ Distance[w] \in Nat /\ Rank(w) \in Nat /\ Rank(w) >= Distance[w]
        /\ Rank(w)' = Rank(w)
    BY <1>8, <2>1, RankType DEF Rank, LengthDifference
  <2>3. \A i \in Places : slots'[i].distance \in Nat /\ slots'[i].distance <= max
    BY <1>4, <1>6, <1>7
  <2>4. CASE g = f /\ k = index
    BY <1>7, <1>8, <2>4 DEF NoBetterWord, Listed, Word
  <2>5. CASE ~(g = f /\ k = index)
    <3>1. Passed(g, k) BY <1>1, <1>8, <1>12, <2>5, WordsAreWords DEF Passed
    <3>2. NoBetterWord(w) BY <1>2, <3>1
    <3>3. CASE Listed(w)
      <4>1. PICK i \in Places : slots[i].word = w BY <3>3 DEF Listed
      <4>2. CASE i = j
        <5>1. Distance[w] = max BY <1>2, <1>5, <2>1, <4>1, <4>2 DEF DistancesFit
        <5>2. \A n \in Places : slots'[n].distance <= Rank(w) BY <2>2, <2>3, <5>1
        <5> QED BY <1>8, <2>2, <5>2 DEF NoBetterWord
      <4>3. CASE i # j
        BY <1>7, <1>8, <4>1, <4>3 DEF NoBetterWord, Listed
      <4> QED BY <4>2, <4>3
    <3>4. CASE Distance[w] >= QueryLength
      BY <1>8, <3>4 DEF NoBetterWord
    <3>5. CASE \A i \in Places : slots[i].distance <= Rank(w)
      <4>1. max <= Rank(w) BY <1>5, <3>5
      <4>2. \A n \in Places : slots'[n].distance <= Rank(w)
        BY <1>4, <2>2, <2>3, <4>1, <1>2 DEF Greatest
      <4> QED BY <1>8, <2>2, <4>2 DEF NoBetterWord
    <3> QED BY <3>2, <3>3, <3>4, <3>5 DEF NoBetterWord
  <2> QED BY <2>4, <2>5
<1> QED BY <1>8, <1>9, <1>10, <1>11, <1>12 DEF FuzzyBest

\* A word that is passed over is in the list or not better than the list.
LEMMA PassOverKeepsBest ==
  ASSUME IInv, method = "fuzzy", PassOver
  PROVE  FuzzyBest'
<1> USE DEF IInv, Types
<1>1. /\ Word \in Words /\ Word # NoWord
      /\ f \in DOMAIN files /\ index \in DOMAIN files[f].words
  BY WordType DEF PassOver
<1>2. /\ max \in Greatest(slots) /\ NoWordTwice /\ DistancesFit
      /\ \A g \in DOMAIN files : \A k \in DOMAIN files[g].words :
           Passed(g, k) => NoBetterWord(files[g].words[k])
  BY DEF FuzzyBest
<1>3. /\ files' = files /\ f' = f /\ index' = index + 1 /\ method' = method
      /\ slots' = slots /\ max' = max
  BY DEF PassOver, Forward
<1>4. \A k \in Places : slots[k].distance \in Nat /\ slots[k].distance <= max
  BY <1>2 DEF Greatest, Slot
<1>5. NoBetterWord(Word)
  <2>1. CASE Listed(Word) BY <2>1 DEF NoBetterWord
  <2>2. CASE ~Qualifies(Word)
    <3>1. Rank(Word) \in Nat /\ Rank(Word) >= Distance[Word]
          /\ Rank(Word) >= LengthDifference(Word) /\ Distance[Word] \in Nat
          /\ LengthDifference(Word) \in Nat
      BY <1>1, RankType
    <3>2. Distance[Word] >= QueryLength \/ Rank(Word) >= max
      BY <2>2, <3>1, SearchAssumption DEF Qualifies
    <3> QED BY <1>4, <3>1, <3>2 DEF NoBetterWord
  <2> QED BY <2>1, <2>2 DEF PassOver
<1>6. ASSUME NEW g \in DOMAIN files, NEW k \in DOMAIN files[g].words, Passed(g, k)'
      PROVE  NoBetterWord(files[g].words[k])'
  <2>1. NoBetterWord(files[g].words[k])
    <3>1. CASE g = f /\ k = index BY <1>5, <3>1 DEF Word
    <3>2. CASE ~(g = f /\ k = index)
      <4>1. Passed(g, k) BY <1>1, <1>3, <1>6, <3>2, WordsAreWords DEF Passed
      <4> QED BY <1>2, <4>1
    <3> QED BY <3>1, <3>2
  <2> QED BY <1>3, <2>1 DEF NoBetterWord, Listed, Rank, LengthDifference
<1>7. max' \in Greatest(slots)' /\ NoWordTwice' /\ DistancesFit'
  BY <1>2, <1>3 DEF Greatest, NoWordTwice, DistancesFit
<1> QED BY <1>3, <1>6, <1>7 DEF FuzzyBest

\* Going on to the next file passes over no word.
LEMMA FileEndKeepsBest ==
  ASSUME IInv, method = "fuzzy", EndFile \/ Finish
  PROVE  FuzzyBest'
<1> USE DEF IInv, Types
<1>1. files' = files /\ slots' = slots /\ max' = max /\ method' = method
  BY DEF EndFile, Finish
<1>2. ASSUME NEW g \in DOMAIN files, NEW k \in DOMAIN files[g].words, Passed(g, k)'
      PROVE  Passed(g, k)
  <2>1. g \in 1 .. Len(files) /\ k \in 1 .. Len(files[g].words) BY WordsAreWords
  <2>2. CASE EndFile
    <3>1. f' = f + 1 /\ index' = 1 BY <2>2 DEF EndFile
    <3>2. g <= f BY <1>2, <2>1, <3>1 DEF Passed
    <3>3. CASE g = f
      <4>1. ~HasWord /\ Running BY <2>2 DEF EndFile
      <4>2. files[f] \in File BY <3>3
      <4>3. Len(files[f].words) \in Nat BY <4>2 DEF File
      <4>4. index > Len(files[f].words) BY <4>1, <4>3 DEF HasWord
      <4> QED BY <2>1, <3>3, <4>3, <4>4 DEF Passed
    <3> QED BY <2>1, <3>2, <3>3 DEF Passed
  <2>3. CASE Finish
    BY <2>1, <2>3 DEF Finish, Passed
  <2> QED BY <2>2, <2>3
<1>3. \A g \in DOMAIN files : \A k \in DOMAIN files[g].words :
        Passed(g, k)' => NoBetterWord(files[g].words[k])'
  BY <1>1, <1>2 DEF FuzzyBest, NoBetterWord, Listed, Rank, LengthDifference
<1> QED BY <1>1, <1>3 DEF FuzzyBest, Greatest, NoWordTwice, DistancesFit

\* Every step keeps the best of what was read.
LEMMA BestStep == IInv /\ [Next]_vars => FuzzyBest'
<1> SUFFICES ASSUME IInv, [Next]_vars PROVE FuzzyBest' OBVIOUS
<1>1. method' = method
  BY DEF Next, vars, PassOver, Replace, TakeMatch, LeaveWord, ReadArticle, EndFile, Finish, Forward
<1>2. CASE method # "fuzzy" BY <1>1, <1>2 DEF FuzzyBest
<1>3. CASE method = "fuzzy"
  <2>1. CASE Replace BY <1>3, <2>1, ReplaceKeepsBest
  <2>2. CASE PassOver BY <1>3, <2>2, PassOverKeepsBest
  <2>3. CASE EndFile \/ Finish BY <1>3, <2>3, FileEndKeepsBest
  <2>4. CASE UNCHANGED vars
    BY <2>4 DEF IInv, vars, FuzzyBest, Greatest, NoWordTwice, DistancesFit, Passed,
       NoBetterWord, Listed, Rank, LengthDifference
  <2> QED BY <1>3, <2>1, <2>2, <2>3, <2>4 DEF Next, TakeMatch, LeaveWord, ReadArticle
<1> QED BY <1>2, <1>3

-----------------------------------------------------------------------------
(* What the answer is made of.                                             *)

FuzzyInv == method = "fuzzy" => EmptyIsFar

\* Places of a file before k whose words match, and whether those leave room for k.
MatchesBefore(g, k) == {i \in 1 .. k - 1 : files[g].words[i] \in Matches}
IsTaken(g, k) ==
  files[g].words[k] \in Matches /\ Cardinality(MatchesBefore(g, k)) < Limit

\* The words taken so far.
TakenSoFar(w) ==
  \E g \in DOMAIN files : \E k \in DOMAIN files[g].words :
      Passed(g, k) /\ IsTaken(g, k) /\ w = files[g].words[k]

\* The list has the words taken so far, each once; count is how many are taken
\* of the file in hand.
NoneTwice(s) == \A j, k \in DOMAIN s : s[j] = s[k] => j = k
CountFits ==
  Running => LET c == Cardinality(MatchesBefore(f, index))
             IN count = IF c < Limit THEN c ELSE Limit
ListIsTaken == \A w : w \in ToSet(list) <=> TakenSoFar(w)
PatternInv == method = "pattern" => NoneTwice(list) /\ CountFits /\ ListIsTaken

\* A key is of a dictionary and a word; it comes before one of a later dictionary,
\* or with a later word of the same.
Keys == [lib : Nat, word : Words]
KeyBefore(a, b) == a.lib < b.lib \/ (a.lib = b.lib /\ a.word < b.word)

\* The list has the keys of the entries hit, each once and in order.
HitsArePassed ==
  \A p \in hits : \E g \in DOMAIN files : \E k \in DOMAIN files[g].words :
      p = <<g, k>> /\ files[g].kind = "idx" /\ Passed(g, k)
DataInv ==
  method = "data" =>
  /\ list \in Seq(Keys)
  /\ HitsArePassed
  /\ \A x : x \in ToSet(list) <=> \E p \in hits : x = Key(files[p[1]].lib, WordAt(p))
  /\ \A j, k \in DOMAIN list : j < k => KeyBefore(list[j], list[k])

AnswerInv ==
  f = Len(files) + 2 =>
  /\ method = "fuzzy" => answer = FuzzyAnswer(slots)
  /\ method = "pattern" => answer = PatternAnswer(list)
  /\ method = "data" => answer = list

WholeInv ==
  /\ files \in Masks /\ IInv
  /\ FuzzyInv /\ PatternInv /\ DataInv /\ AnswerInv

\* Sorted is what the three methods make of what they have gathered.
LEMMA SortedMeans ==
  /\ method = "fuzzy" => \A s : Sorted(s) = FuzzyAnswer(s)
  /\ method = "pattern" => \A s : Sorted(s) = PatternAnswer(s)
  /\ method = "data" => \A s : Sorted(s) = s
<1>1. ASSUME method = "fuzzy"  PROVE \A s : Sorted(s) = FuzzyAnswer(s)
  BY <1>1, Zenon DEF Sorted, FuzzyAnswer
<1>2. ASSUME method = "pattern"  PROVE \A s : Sorted(s) = PatternAnswer(s)
  BY <1>2, Zenon DEF Sorted, PatternAnswer
<1>3. ASSUME method = "data"  PROVE \A s : Sorted(s) = s
  BY <1>3, Zenon DEF Sorted
<1> QED BY <1>1, <1>2, <1>3

\* The method is chosen once.
LEMMA MethodStays == [Next]_vars => method' = method /\ files' = files
BY DEF Next, vars, PassOver, Replace, TakeMatch, LeaveWord, ReadArticle, EndFile, Finish, Forward

\* The answer is what Finish makes of the list, and nothing changes after it.
LEMMA AnswerStep == IInv /\ AnswerInv /\ [Next]_vars => AnswerInv'
<1> SUFFICES ASSUME IInv, AnswerInv, [Next]_vars, f' = Len(files) + 2
             PROVE  /\ method = "fuzzy" => answer' = FuzzyAnswer(slots')
                    /\ method = "pattern" => answer' = PatternAnswer(list')
                    /\ method = "data" => answer' = list'
  BY MethodStays DEF AnswerInv
<1>1. f \in 1 .. Len(files) + 2 /\ Len(files) \in Nat
      /\ method \in {"fuzzy", "pattern", "data"}
  BY DEF IInv, Types
<1>2. CASE Finish
  <2>1. slots' = slots /\ list' = list
        /\ answer' = Sorted(IF method = "fuzzy" THEN slots ELSE list)
    BY <1>2 DEF Finish
  <2>2. CASE method = "fuzzy"
    <3>1. answer' = Sorted(slots)  BY <2>1, <2>2
    <3> QED BY <2>1, <2>2, <3>1, SortedMeans, Zenon
  <2>3. CASE method = "pattern"
    <3>1. answer' = Sorted(list)  BY <2>1, <2>3
    <3> QED BY <2>1, <2>3, <3>1, SortedMeans, Zenon
  <2>4. CASE method = "data"
    <3>1. answer' = Sorted(list)  BY <2>1, <2>4
    <3> QED BY <2>1, <2>4, <3>1, SortedMeans, Zenon
  <2> QED BY <1>1, <2>2, <2>3, <2>4
<1>3. CASE Running /\ f' \in {f, f + 1}
  BY <1>1, <1>3 DEF Running
<1>4. CASE UNCHANGED vars
  BY <1>4 DEF vars, AnswerInv
<1>5. [Next]_vars => Finish \/ UNCHANGED vars \/ (Running /\ f' \in {f, f + 1})
  BY DEF Next, PassOver, Replace, TakeMatch, LeaveWord, ReadArticle, EndFile, Forward, HasWord
<1> QED BY <1>2, <1>3, <1>4, <1>5

\* The first empty place stays as far as is looked for, a word comes nearer.
LEMMA FuzzyStep == IInv /\ FuzzyInv /\ [Next]_vars => FuzzyInv'
<1> SUFFICES ASSUME IInv, EmptyIsFar, [Next]_vars, method = "fuzzy"  PROVE EmptyIsFar'
  BY MethodStays DEF FuzzyInv
<1>1. CASE Replace
  <2>1. PICK j \in Places :
          slots' = [slots EXCEPT ![j] = [word |-> Word, distance |-> Distance[Word]]]
    BY <1>1 DEF Replace
  <2>2. Word \in Words /\ Word # NoWord  BY <1>1, WordType DEF IInv, Replace
  <2>3. Distance[Word] \in Nat /\ Distance[Word] < max /\ max \in Nat /\ MaxDistance \in Nat
    BY <1>1, <2>2, RankType, SearchAssumption DEF Replace, Qualifies, IInv, Types
  <2>4. max <= MaxDistance  BY DEF EmptyIsFar
  <2>5. \A k \in Places :
           IF slots[k].word = NoWord THEN slots[k].distance = MaxDistance
                                     ELSE slots[k].distance < MaxDistance
    BY DEF EmptyIsFar
  <2>6. /\ slots'[j].word = Word /\ slots'[j].distance = Distance[Word]
        /\ \A k \in Places : k # j => slots'[k] = slots[k]
    BY <2>1 DEF IInv, Types
  <2>7. \A k \in Places :
           IF slots'[k].word = NoWord THEN slots'[k].distance = MaxDistance
                                      ELSE slots'[k].distance < MaxDistance
    <3> TAKE k \in Places
    <3>1. CASE k = j
      <4>1. Distance[Word] < MaxDistance  BY <2>3, <2>4
      <4> QED BY <2>2, <2>6, <3>1, <4>1
    <3>2. CASE k # j  BY <2>5, <2>6, <3>2
    <3> QED BY <3>1, <3>2
  <2>8. max' <= MaxDistance
    <3>1. PICK k \in Places : max' = slots'[k].distance  BY <1>1 DEF Replace, Greatest
    <3>2. slots'[k].distance = MaxDistance \/ slots'[k].distance < MaxDistance  BY <2>7
    <3>3. max' \in Nat  BY TypesStep DEF Types
    <3> QED BY <2>3, <3>1, <3>2, <3>3
  <2> QED BY <2>7, <2>8 DEF EmptyIsFar
<1>2. CASE UNCHANGED <<slots, max>>
  BY <1>2 DEF EmptyIsFar
<1> QED BY <1>1, <1>2 DEF Next, vars, PassOver, TakeMatch, LeaveWord, ReadArticle, EndFile, Finish

\* The word in hand is passed next, and no other.
LEMMA PassedForward ==
  ASSUME IInv, HasWord, Forward, f' = f
  PROVE  \A g \in DOMAIN files : \A k \in DOMAIN files[g].words :
            Passed(g, k)' <=> Passed(g, k) \/ (g = f /\ k = index)
<1> TAKE g \in DOMAIN files
<1> TAKE k \in DOMAIN files[g].words
<1>1. g \in Nat /\ k \in Nat /\ f \in Nat /\ index \in Nat
  BY WordsAreWords DEF IInv, Types
<1>2. f' = f /\ index' = index + 1  BY DEF Forward
<1> QED BY <1>1, <1>2 DEF Passed

\* At the end of a file whose words have all been read no word is passed over.
LEMMA PassedEnd ==
  ASSUME IInv, (EndFile /\ ~HasWord) \/ Finish
  PROVE  \A g \in DOMAIN files : \A k \in DOMAIN files[g].words :
            Passed(g, k)' <=> Passed(g, k)
<1> SUFFICES ASSUME NEW g \in DOMAIN files, NEW k \in DOMAIN files[g].words
             PROVE  Passed(g, k)' <=> Passed(g, k)
  OBVIOUS
<1>1. /\ g \in 1 .. Len(files) /\ k \in 1 .. Len(files[g].words) /\ Len(files) \in Nat
      /\ f \in Nat /\ index \in Nat
  BY WordsAreWords DEF IInv, Types
<1>2. CASE EndFile /\ ~HasWord
  <2>1. f' = f + 1 /\ index' = 1 /\ Running  BY <1>2 DEF EndFile
  <2>2. ASSUME g = f  PROVE k < index
    <3>1. files[f] \in File  BY <2>2 DEF IInv, Types
    <3>2. Len(files[f].words) \in Nat  BY <3>1 DEF File
    <3>3. index > Len(files[f].words)  BY <1>1, <1>2, <2>1, <3>2 DEF HasWord
    <3> QED BY <1>1, <2>2, <3>2, <3>3
  <2>3. k >= 1  BY <1>1
  <2> QED BY <1>1, <2>1, <2>2, <2>3 DEF Passed
<1>3. CASE Finish
  <2>1. f = Len(files) + 1 /\ f' = f + 1  BY <1>3 DEF Finish
  <2> QED BY <1>1, <2>1 DEF Passed
<1> QED BY <1>2, <1>3

\* How many match before a place is finite, and grows by a place that matches.
LEMMA MatchesCount ==
  ASSUME NEW g, NEW k \in Nat \ {0}
  PROVE  /\ Cardinality(MatchesBefore(g, 1)) = 0
         /\ Cardinality(MatchesBefore(g, k)) \in Nat
         /\ files[g].words[k] \in Matches =>
               Cardinality(MatchesBefore(g, k + 1)) = Cardinality(MatchesBefore(g, k)) + 1
         /\ files[g].words[k] \notin Matches =>
               Cardinality(MatchesBefore(g, k + 1)) = Cardinality(MatchesBefore(g, k))
<1> DEFINE M == MatchesBefore(g, k)
           N == MatchesBefore(g, k + 1)
           w(i) == files[g].words[i]
<1>1. MatchesBefore(g, 1) = {}  BY DEF MatchesBefore
<1>2. Cardinality(MatchesBefore(g, 1)) = 0  BY <1>1, FS_EmptySet
<1>3. IsFiniteSet(M) /\ Cardinality(M) \in Nat
  <2>1. IsFiniteSet(1 .. k - 1)  BY FS_Interval
  <2>2. M \in SUBSET (1 .. k - 1)  BY DEF MatchesBefore
  <2>3. IsFiniteSet(M)  BY <2>1, <2>2, FS_Subset
  <2> QED BY <2>3, FS_CardinalityType
<1>4. k \notin M  BY DEF MatchesBefore
<1>5. \A i : i \in N <=> i \in 1 .. (k + 1) - 1 /\ w(i) \in Matches  BY DEF MatchesBefore
<1>6. \A i : i \in M <=> i \in 1 .. k - 1 /\ w(i) \in Matches  BY DEF MatchesBefore
<1>7. \A i : i \in 1 .. (k + 1) - 1 <=> i \in 1 .. k - 1 \/ i = k  OBVIOUS
<1> HIDE DEF M, N
<1>8. ASSUME w(k) \in Matches  PROVE Cardinality(N) = Cardinality(M) + 1
  <2>1. N = M \cup {k}
    <3> HIDE DEF w
    <3> QED BY <1>5, <1>6, <1>7, <1>8, Zenon
  <2> QED BY <1>3, <1>4, <2>1, FS_AddElement
<1>9. ASSUME w(k) \notin Matches  PROVE N = M
  <2> HIDE DEF w
  <2> QED BY <1>5, <1>6, <1>7, <1>9, Zenon
<1> QED BY <1>2, <1>3, <1>8, <1>9 DEF M, N

\* What is taken depends on the files alone.
LEMMA TakenStays ==
  ASSUME [Next]_vars
  PROVE  \A g, k : IsTaken(g, k)' <=> IsTaken(g, k)
<1>1. files' = files  BY MethodStays
<1> QED BY <1>1 DEF IsTaken, MatchesBefore

\* What a step does to the words taken so far.
LEMMA TakenForward ==
  ASSUME IInv, [Next]_vars, HasWord, Forward, f' = f
  PROVE  \A w : TakenSoFar(w)' <=> TakenSoFar(w) \/ (w = Word /\ IsTaken(f, index))
<1> SUFFICES ASSUME NEW w
             PROVE  TakenSoFar(w)' <=> TakenSoFar(w) \/ (w = Word /\ IsTaken(f, index))
  OBVIOUS
<1>1. files' = files  BY MethodStays
<1>2. \A g \in DOMAIN files : \A k \in DOMAIN files[g].words :
         Passed(g, k)' <=> Passed(g, k) \/ (g = f /\ k = index)
  BY PassedForward
<1>3. \A g, k : IsTaken(g, k)' <=> IsTaken(g, k)  BY TakenStays
<1>4. f \in DOMAIN files /\ index \in DOMAIN files[f].words  BY WordType DEF IInv
<1>5. TakenSoFar(w)' <=>
        \E g \in DOMAIN files : \E k \in DOMAIN files[g].words :
            Passed(g, k)' /\ IsTaken(g, k)' /\ w = files[g].words[k]
  BY <1>1 DEF TakenSoFar
<1>6. ASSUME TakenSoFar(w)'  PROVE TakenSoFar(w) \/ (w = Word /\ IsTaken(f, index))
  BY <1>2, <1>3, <1>5, <1>6, Zenon DEF TakenSoFar, Word
<1>7. ASSUME TakenSoFar(w) \/ (w = Word /\ IsTaken(f, index))  PROVE TakenSoFar(w)'
  BY <1>2, <1>3, <1>4, <1>5, <1>7, Zenon DEF TakenSoFar, Word
<1> QED BY <1>6, <1>7

\* The end of a file takes no word.
LEMMA TakenEnd ==
  ASSUME IInv, [Next]_vars, (EndFile /\ ~HasWord) \/ Finish
  PROVE  \A w : TakenSoFar(w)' <=> TakenSoFar(w)
<1> SUFFICES ASSUME NEW w  PROVE TakenSoFar(w)' <=> TakenSoFar(w)  OBVIOUS
<1>1. files' = files  BY MethodStays
<1>2. \A g \in DOMAIN files : \A k \in DOMAIN files[g].words : Passed(g, k)' <=> Passed(g, k)
  BY PassedEnd
<1>3. \A g, k : IsTaken(g, k)' <=> IsTaken(g, k)  BY TakenStays
<1>5. TakenSoFar(w)' <=>
        \E g \in DOMAIN files : \E k \in DOMAIN files[g].words :
            Passed(g, k)' /\ IsTaken(g, k)' /\ w = files[g].words[k]
  BY <1>1 DEF TakenSoFar
<1> QED BY <1>2, <1>3, <1>5, Zenon DEF TakenSoFar

\* A word that is not in a list is added to it, and to no other effect.
LEMMA ListGrows ==
  ASSUME NEW S, NEW s \in Seq(S), NEW w \in S
  PROVE  /\ \A x : x \in ToSet(Append(s, w)) <=> x \in ToSet(s) \/ x = w
         /\ NoneTwice(s) /\ w \notin ToSet(s) => NoneTwice(Append(s, w))
         /\ Contains(s, w) <=> w \in ToSet(s)
<1> DEFINE n == Len(s)
           t == Append(s, w)
<1>1. n \in Nat /\ DOMAIN s = 1 .. n  OBVIOUS
<1>2. /\ DOMAIN t = 1 .. n + 1 /\ t[n + 1] = w
      /\ \A i \in 1 .. n : t[i] = s[i]
  OBVIOUS
<1>3. \A x : x \in ToSet(t) <=> \E i \in 1 .. n + 1 : t[i] = x  BY <1>2 DEF ToSet
<1>4. \A x : x \in ToSet(s) <=> \E i \in 1 .. n : s[i] = x  BY <1>1 DEF ToSet
<1>5. Contains(s, w) <=> \E i \in 1 .. n : s[i] = w  BY <1>1 DEF Contains
<1>6. 1 .. n + 1 = (1 .. n) \cup {n + 1} /\ n + 1 \notin 1 .. n  BY <1>1
<1> HIDE DEF n, t
<1>7. \A x : x \in ToSet(t) <=> x \in ToSet(s) \/ x = w  BY <1>2, <1>3, <1>4, <1>6, Zenon
<1>8. ASSUME NoneTwice(s), w \notin ToSet(s)  PROVE NoneTwice(t)
  <2> SUFFICES ASSUME NEW j \in 1 .. n + 1, NEW k \in 1 .. n + 1, t[j] = t[k]  PROVE j = k
    BY <1>2, Zenon DEF NoneTwice
  <2>1. CASE j \in 1 .. n /\ k \in 1 .. n
    BY <1>1, <1>2, <1>8, <2>1, Zenon DEF NoneTwice
  <2>2. CASE j = n + 1 /\ k \in 1 .. n  BY <1>2, <1>4, <1>8, <2>2, Zenon
  <2>3. CASE k = n + 1 /\ j \in 1 .. n  BY <1>2, <1>4, <1>8, <2>3, Zenon
  <2> QED BY <1>6, <2>1, <2>2, <2>3, Zenon
<1> QED BY <1>4, <1>5, <1>7, <1>8 DEF t

\* A match is counted, a word that does not match is not, up to the limit.
LEMMA CountStep ==
  ASSUME IInv, CountFits, method = "pattern", TakeMatch \/ LeaveWord
  PROVE  CountFits' /\ (IsTaken(f, index) <=> TakeMatch)
<1> DEFINE c == Cardinality(MatchesBefore(f, index))
           d == Cardinality(MatchesBefore(f, index + 1))
<1>1. HasWord /\ f' = f /\ index' = index + 1 /\ files' = files
  BY DEF TakeMatch, LeaveWord, Forward
<1>2. Running  BY <1>1 DEF HasWord
<1>3. index \in Nat \ {0} /\ Limit \in Nat \ {0} /\ count \in Nat
  BY SearchAssumption DEF IInv, Types
<1>4. count = IF c < Limit THEN c ELSE Limit  BY <1>2 DEF CountFits
<1>5. /\ c \in Nat
      /\ Word \in Matches => d = c + 1
      /\ Word \notin Matches => d = c
  BY <1>3, MatchesCount DEF Word
<1>6. Cardinality(MatchesBefore(f, index))' = d  BY <1>1 DEF MatchesBefore
<1>7. IsTaken(f, index) <=> Word \in Matches /\ c < Limit  BY DEF IsTaken, Word
<1>8. CountFits' <=> (Running' => count' = IF d < Limit THEN d ELSE Limit)
  BY <1>6 DEF CountFits
<1> HIDE DEF c, d
<1>9. CASE TakeMatch
  <2>1. Word \in Matches /\ count < Limit /\ count' = count + 1  BY <1>9 DEF TakeMatch
  <2> QED BY <1>3, <1>4, <1>5, <1>7, <1>8, <1>9, <2>1
<1>10. CASE LeaveWord
  <2>1. Word \notin Matches \/ count >= Limit  BY <1>10 DEF LeaveWord
  <2>2. count' = count  BY <1>10 DEF LeaveWord
  <2>3. ~TakeMatch  BY <1>3, <2>1 DEF TakeMatch
  <2> QED BY <1>3, <1>4, <1>5, <1>7, <1>8, <2>1, <2>2, <2>3
<1> QED BY <1>9, <1>10

\* Every step keeps the list of a pattern what was taken.
LEMMA PatternStep == IInv /\ PatternInv /\ [Next]_vars => PatternInv'
<1> SUFFICES ASSUME IInv, [Next]_vars, method = "pattern",
                    NoneTwice(list), CountFits, ListIsTaken
             PROVE  NoneTwice(list)' /\ CountFits' /\ ListIsTaken'
  BY MethodStays DEF PatternInv
<1>0. list \in Seq(Words)  BY DEF IInv, ListInv
<1>1. CASE TakeMatch
  <2>1. HasWord /\ Forward /\ f' = f  BY <1>1 DEF TakeMatch, Forward
  <2>2. CountFits' /\ IsTaken(f, index)  BY <1>1, CountStep
  <2>3. \A w : TakenSoFar(w)' <=> TakenSoFar(w) \/ w = Word
    BY <2>1, <2>2, TakenForward, Zenon
  <2>4. Word \in Words  BY <2>1, WordType DEF IInv
  <2>5. CASE Contains(list, Word)
    <3>1. list' = list  BY <1>1, <2>5 DEF TakeMatch
    <3>2. Word \in ToSet(list)  BY <1>0, <2>4, <2>5, ListGrows
    <3>3. TakenSoFar(Word)  BY <3>2 DEF ListIsTaken
    <3>4. \A w : w \in ToSet(list) <=> TakenSoFar(w)'
      BY <2>3, <3>3, Zenon DEF ListIsTaken
    <3> QED BY <2>2, <3>1, <3>4 DEF ListIsTaken, NoneTwice
  <2>6. CASE ~Contains(list, Word)
    <3>1. list' = Append(list, Word)  BY <1>1, <2>6 DEF TakeMatch
    <3>2. /\ \A x : x \in ToSet(list') <=> x \in ToSet(list) \/ x = Word
          /\ NoneTwice(list')
      BY <1>0, <2>4, <2>6, <3>1, ListGrows, Zenon
    <3>3. \A w : w \in ToSet(list') <=> TakenSoFar(w)'
      BY <2>3, <3>2, Zenon DEF ListIsTaken
    <3> QED BY <2>2, <3>2, <3>3 DEF ListIsTaken, NoneTwice
  <2> QED BY <2>5, <2>6
<1>2. CASE LeaveWord
  <2>1. HasWord /\ Forward /\ f' = f /\ list' = list  BY <1>2 DEF LeaveWord, Forward
  <2>2. ~TakeMatch
    <3>1. Limit \in Nat /\ count \in Nat  BY SearchAssumption DEF IInv, Types
    <3> QED BY <1>2, <3>1 DEF TakeMatch, LeaveWord
  <2>3. CountFits' /\ ~IsTaken(f, index)  BY <1>2, <2>2, CountStep
  <2>4. \A w : TakenSoFar(w)' <=> TakenSoFar(w)  BY <2>1, <2>3, TakenForward, Zenon
  <2>5. \A w : w \in ToSet(list) <=> TakenSoFar(w)'  BY <2>4, Zenon DEF ListIsTaken
  <2> QED BY <2>1, <2>3, <2>5 DEF ListIsTaken, NoneTwice
<1>3. CASE EndFile \/ Finish
  <2>1. (EndFile /\ ~HasWord) \/ Finish  BY <1>3 DEF EndFile
  <2>2. list' = list  BY <1>3 DEF EndFile, Finish
  <2>3. \A w : TakenSoFar(w)' <=> TakenSoFar(w)  BY <2>1, TakenEnd
  <2>4. \A w : w \in ToSet(list) <=> TakenSoFar(w)'  BY <2>3, Zenon DEF ListIsTaken
  <2>5. CountFits'
    <3>1. CASE Finish
      <4>1. f' = Len(files) + 2 /\ files' = files /\ Len(files) \in Nat
        BY <3>1 DEF Finish, IInv, Types
      <4> QED BY <4>1 DEF CountFits, Running
    <3>2. CASE EndFile
      <4>1. index' = 1 /\ count' = 0 /\ files' = files  BY <3>2 DEF EndFile
      <4>2. Cardinality(MatchesBefore(f, index))' = Cardinality(MatchesBefore(f', 1))
        BY <4>1 DEF MatchesBefore
      <4>3. Cardinality(MatchesBefore(f', 1)) = 0  BY MatchesCount, 1 \in Nat \ {0}
      <4>4. 0 < Limit  BY SearchAssumption
      <4> QED BY <4>1, <4>2, <4>3, <4>4 DEF CountFits
    <3> QED BY <1>3, <3>1, <3>2
  <2> QED BY <2>2, <2>4, <2>5 DEF ListIsTaken, NoneTwice
<1>4. CASE UNCHANGED vars
  <2>1. list' = list /\ files' = files /\ f' = f /\ index' = index /\ count' = count
    BY <1>4 DEF vars
  <2>2. \A g, k : (Passed(g, k)' <=> Passed(g, k)) /\ (IsTaken(g, k)' <=> IsTaken(g, k))
    BY <2>1, TakenStays DEF Passed
  <2>3. \A w : TakenSoFar(w)' <=> TakenSoFar(w)
    BY <2>1, <2>2, Zenon DEF TakenSoFar
  <2>4. \A w : w \in ToSet(list) <=> TakenSoFar(w)'  BY <2>3, Zenon DEF ListIsTaken
  <2>5. CountFits'  BY <2>1 DEF CountFits, Running, MatchesBefore
  <2> QED BY <2>1, <2>4, <2>5 DEF ListIsTaken, NoneTwice
<1> QED BY <1>1, <1>2, <1>3, <1>4 DEF Next, PassOver, Replace, ReadArticle


\* The key of an entry that was hit.
HitKey(p) == Key(files[p[1]].lib, WordAt(p))

\* A key follows every key that is in the list, or is the last of them.
LEMMA KeysAscend ==
  ASSUME files \in Masks, IInv, DataInv, method = "data", HasWord, files[f].kind = "idx",
         NEW key, key = Key(files[f].lib, Word)
  PROVE  /\ key \in Keys /\ key = HitKey(<<f, index>>)
         /\ \A x \in ToSet(list) : x = key \/ KeyBefore(x, key)
<1>1. /\ f \in DOMAIN files /\ index \in DOMAIN files[f].words /\ Word \in Words
  BY WordType DEF IInv
<1>2. files[f] \in File  BY <1>1 DEF IInv, Types
<1>3. files[f].lib \in Nat  BY <1>2 DEF File
<1>4. key = [lib |-> files[f].lib, word |-> Word]  BY DEF Key
<1>5. key = HitKey(<<f, index>>)  BY DEF HitKey, WordAt, Word
<1>6. ASSUME NEW x \in ToSet(list)  PROVE x = key \/ KeyBefore(x, key)
  <2>1. PICK p \in hits : x = Key(files[p[1]].lib, WordAt(p))  BY <1>6 DEF DataInv
  <2>2. PICK g \in DOMAIN files : \E k \in DOMAIN files[g].words :
            p = <<g, k>> /\ files[g].kind = "idx" /\ Passed(g, k)
    BY <2>1 DEF DataInv, HitsArePassed
  <2>3. PICK k \in DOMAIN files[g].words :
            p = <<g, k>> /\ files[g].kind = "idx" /\ Passed(g, k)
    BY <2>2
  <2>4. x = [lib |-> files[g].lib, word |-> files[g].words[k]]
    BY <2>1, <2>3 DEF Key, WordAt
  <2>5. files[g].words[k] \in Nat /\ Word \in Nat
    BY <1>1, WordsAreWords, SearchAssumption DEF IInv
  <2>6. CASE g < f
    <3>1. files[g].lib < files[f].lib
      BY <1>1, <2>3, <2>6, OrderAssumption
    <3> QED BY <1>4, <2>4, <3>1 DEF KeyBefore
  <2>7. CASE g = f /\ k < index
    <3>1. files[f].words[k] <= files[f].words[index]
      BY <1>1, <2>7, OrderAssumption
    <3>2. files[g].words[k] <= Word  BY <2>7, <3>1 DEF Word
    <3>3. CASE files[g].words[k] = Word  BY <1>4, <2>4, <2>7, <3>3
    <3>4. CASE files[g].words[k] < Word  BY <1>4, <2>4, <2>7, <3>4 DEF KeyBefore
    <3> QED BY <2>5, <3>2, <3>3, <3>4
  <2> QED BY <2>3, <2>6, <2>7 DEF Passed
<1> QED BY <1>1, <1>3, <1>4, <1>5, <1>6 DEF Keys

\* The order of keys has no cycles.
LEMMA KeyBeforeOrder ==
  ASSUME NEW a \in [lib : Nat, word : Nat], NEW b \in [lib : Nat, word : Nat],
         NEW c \in [lib : Nat, word : Nat]
  PROVE  /\ KeyBefore(a, b) /\ KeyBefore(b, c) => KeyBefore(a, c)
         /\ a.lib \in Nat /\ a.word \in Nat
BY DEF KeyBefore

KeysOrdered(s) == \A j, k \in DOMAIN s : j < k => KeyBefore(s[j], s[k])

\* A key that is not the last of the list keeps it in order.
LEMMA KeyAppended ==
  ASSUME NEW s \in Seq(Keys), NEW key \in Keys,
         KeysOrdered(s), \A x \in ToSet(s) : x = key \/ KeyBefore(x, key),
         ~(s # <<>> /\ Last(s) = key)
  PROVE  KeysOrdered(Append(s, key))
<1> DEFINE n == Len(s)
           t == Append(s, key)
<1>1. n \in Nat /\ DOMAIN s = 1 .. n  OBVIOUS
<1>2. DOMAIN t = 1 .. n + 1 /\ t[n + 1] = key /\ \A i \in 1 .. n : t[i] = s[i]  OBVIOUS
<1>3. \A i \in 1 .. n : s[i] \in ToSet(s) /\ s[i] \in [lib : Nat, word : Nat]
  <2> TAKE i \in 1 .. n
  <2>1. s[i] \in ToSet(s)  BY <1>1, Zenon DEF ToSet
  <2>2. s[i] \in Keys  BY <1>1
  <2>3. Words \subseteq Nat  BY SearchAssumption
  <2> QED BY <2>1, <2>2, <2>3 DEF Keys
<1>4. key \in [lib : Nat, word : Nat]  BY SearchAssumption DEF Keys
<1>5. ASSUME NEW i \in 1 .. n  PROVE KeyBefore(s[i], key)
  <2>1. s # <<>> /\ n \in 1 .. n  BY <1>1, <1>5
  <2>2. s[n] # key  BY <2>1 DEF Last
  <2>3. KeyBefore(s[n], key)  BY <1>3, <2>1, <2>2
  <2>4. CASE i < n
    <3>1. KeyBefore(s[i], s[n])  BY <1>1, <2>1, <2>4 DEF KeysOrdered
    <3> HIDE DEF n
    <3> QED BY <1>3, <1>4, <2>1, <2>3, <3>1, KeyBeforeOrder
  <2>5. CASE i = n  BY <2>3, <2>5
  <2> QED
    <3>1. i \in Nat /\ n \in Nat /\ i <= n  BY <1>1
    <3> HIDE DEF n
    <3> QED BY <2>4, <2>5, <3>1
<1> SUFFICES ASSUME NEW j \in 1 .. n + 1, NEW k \in 1 .. n + 1, j < k
             PROVE  KeyBefore(t[j], t[k])
  BY <1>2 DEF KeysOrdered
<1>6. j \in 1 .. n  BY <1>1
<1>7. CASE k \in 1 .. n  BY <1>1, <1>2, <1>6, <1>7 DEF KeysOrdered
<1>8. CASE k = n + 1  BY <1>2, <1>5, <1>6, <1>8
<1> QED BY <1>1, <1>7, <1>8

\* What was passed over stays so.
LEMMA PassedStays ==
  ASSUME IInv, [Next]_vars
  PROVE  \A g \in DOMAIN files : \A k \in DOMAIN files[g].words : Passed(g, k) => Passed(g, k)'
<1> SUFFICES ASSUME NEW g \in DOMAIN files, NEW k \in DOMAIN files[g].words, Passed(g, k)
             PROVE  Passed(g, k)'
  OBVIOUS
<1>1. g \in Nat /\ k \in Nat /\ f \in Nat /\ index \in Nat
  BY WordsAreWords DEF IInv, Types
<1>2. (f' = f /\ index' \in {index, index + 1}) \/ f' = f + 1
  BY DEF Next, vars, PassOver, Replace, TakeMatch, LeaveWord, ReadArticle, EndFile, Finish, Forward
<1> QED BY <1>1, <1>2 DEF Passed

\* Every step keeps the list of a search in articles what was hit, in order.
LEMMA DataStep == files \in Masks /\ IInv /\ DataInv /\ [Next]_vars => DataInv'
<1> SUFFICES ASSUME files \in Masks, IInv, DataInv, [Next]_vars, method = "data"  PROVE DataInv'
  BY MethodStays DEF DataInv
<1>0. /\ list \in Seq(Keys) /\ HitsArePassed /\ KeysOrdered(list)
      /\ \A x : x \in ToSet(list) <=> \E p \in hits : x = HitKey(p)
  BY DEF DataInv, HitKey, KeysOrdered
<1>1. method' = method /\ files' = files  BY MethodStays
<1>2. \A p : HitKey(p)' = HitKey(p)  BY <1>1 DEF HitKey, Key, WordAt
<1>3. DataInv' <=>
        /\ list' \in Seq(Keys) /\ HitsArePassed' /\ KeysOrdered(list')
        /\ \A x : x \in ToSet(list') <=> \E p \in hits' : x = HitKey(p)'
  BY <1>1 DEF DataInv, HitKey, KeysOrdered
<1>4. ASSUME hits' = hits  PROVE HitsArePassed'
  BY <1>0, <1>1, <1>4, PassedStays DEF HitsArePassed
<1>5. CASE UNCHANGED <<list, hits>>
  <2>1. \A x : x \in ToSet(list') <=> \E p \in hits' : x = HitKey(p)'
    BY <1>0, <1>2, <1>5
  <2> QED BY <1>0, <1>3, <1>4, <1>5, <2>1
<1>6. CASE ReadArticle /\ ~UNCHANGED <<list, hits>>
  <2> DEFINE key == Key(files[f].lib, Word)
  <2>1. /\ HasWord /\ Forward /\ f' = f /\ files[f].kind = "idx"
        /\ hits' = hits \cup {<<f, index>>}
        /\ list' = IF list # <<>> /\ Last(list) = key THEN list ELSE Append(list, key)
    BY <1>6 DEF ReadArticle, Forward
  <2>2. /\ key \in Keys /\ key = HitKey(<<f, index>>)
        /\ \A x \in ToSet(list) : x = key \/ KeyBefore(x, key)
    BY <2>1, KeysAscend, Zenon
  <2>3. HitsArePassed'
    <3> SUFFICES ASSUME NEW p \in hits'
                 PROVE  \E g \in DOMAIN files : \E k \in DOMAIN files[g].words :
                            p = <<g, k>> /\ files[g].kind = "idx" /\ Passed(g, k)'
      BY <1>1, Zenon DEF HitsArePassed
    <3>1. CASE p \in hits
      <4>1. PICK g \in DOMAIN files : \E k \in DOMAIN files[g].words :
                p = <<g, k>> /\ files[g].kind = "idx" /\ Passed(g, k)
        BY <1>0, <3>1 DEF HitsArePassed
      <4>2. PICK k \in DOMAIN files[g].words :
                p = <<g, k>> /\ files[g].kind = "idx" /\ Passed(g, k)
        BY <4>1
      <4>3. Passed(g, k)'  BY <4>2, PassedStays
      <4> QED BY <4>2, <4>3
    <3>2. CASE p = <<f, index>>
      <4>1. f \in DOMAIN files /\ index \in DOMAIN files[f].words  BY <2>1, WordType DEF IInv
      <4>2. PICK g \in DOMAIN files : g = f  BY <4>1
      <4>3. PICK k \in DOMAIN files[g].words : k = index  BY <4>1, <4>2
      <4>4. Passed(g, k)'  BY <2>1, <4>2, <4>3, PassedForward
      <4> QED BY <2>1, <3>2, <4>2, <4>3, <4>4
    <3> QED BY <2>1, <3>1, <3>2
  <2> HIDE DEF key
  <2>4. /\ list' \in Seq(Keys) /\ KeysOrdered(list')
        /\ \A x : x \in ToSet(list') <=> x \in ToSet(list) \/ x = key
    <3>1. CASE list # <<>> /\ Last(list) = key
      <4>1. Len(list) \in DOMAIN list  BY <1>0, <3>1
      <4>2. key \in ToSet(list)  BY <3>1, <4>1 DEF Last, ToSet
      <4> QED BY <1>0, <2>1, <3>1, <4>2
    <3>2. CASE ~(list # <<>> /\ Last(list) = key)
      <4>1. list' = Append(list, key)  BY <2>1, <3>2
      <4>2. list' \in Seq(Keys)  BY <1>0, <2>2, <4>1
      <4>3. KeysOrdered(list')  BY <1>0, <2>2, <3>2, <4>1, KeyAppended, Zenon
      <4>4. \A x : x \in ToSet(Append(list, key)) <=> x \in ToSet(list) \/ x = key
        BY <1>0, <2>2, ListGrows
      <4> QED BY <4>1, <4>2, <4>3, <4>4
    <3> QED BY <3>1, <3>2
  <2>5. \A p : p \in hits' <=> p \in hits \/ p = <<f, index>>  BY <2>1
  <2>6. \A x : x \in ToSet(list') <=> \E p \in hits' : x = HitKey(p)
    <3> SUFFICES ASSUME NEW x  PROVE x \in ToSet(list') <=> \E p \in hits' : x = HitKey(p)
      OBVIOUS
    <3>1. x \in ToSet(list') <=> (\E p \in hits : x = HitKey(p)) \/ x = HitKey(<<f, index>>)
      BY <1>0, <2>2, <2>4, Zenon
    <3>2. (\E p \in hits' : x = HitKey(p))
            <=> (\E p \in hits : x = HitKey(p)) \/ x = HitKey(<<f, index>>)
      BY <2>5, Zenon
    <3> QED BY <3>1, <3>2
  <2>7. \A x : x \in ToSet(list') <=> \E p \in hits' : x = HitKey(p)'
    BY <1>2, <2>6
  <2> QED BY <1>3, <2>3, <2>4, <2>7
<1> QED BY <1>5, <1>6
        DEF Next, vars, PassOver, Replace, TakeMatch, LeaveWord, EndFile, Finish

\* At the start nothing is taken, hit or answered.
LEMMA InitWhole == Init => WholeInv
<1> SUFFICES ASSUME Init  PROVE WholeInv  OBVIOUS
<1>1. files \in Masks /\ IInv  BY InitIInv DEF Init
<1>2. list = <<>> /\ hits = {} /\ f = 1 /\ index = 1 /\ count = 0 /\ max = MaxDistance
  BY DEF Init
<1>3. ToSet(list) = {} /\ DOMAIN list = {}  BY <1>2 DEF ToSet
<1>4. \A g \in DOMAIN files : \A k \in DOMAIN files[g].words : ~Passed(g, k)
  BY <1>1, <1>2, WordsAreWords DEF Passed, IInv
<1>5. FuzzyInv
  <2>1. slots = [j \in Places |-> [word |-> NoWord, distance |-> MaxDistance]]  BY DEF Init
  <2>2. MaxDistance \in Nat  BY SearchAssumption
  <2> QED BY <1>2, <2>1, <2>2 DEF FuzzyInv, EmptyIsFar
<1>6. PatternInv
  <2>1. ListIsTaken  BY <1>3, <1>4, Zenon DEF ListIsTaken, TakenSoFar
  <2>2. CountFits
    <3>1. Cardinality(MatchesBefore(1, 1)) = 0  BY MatchesCount, 1 \in Nat \ {0}
    <3>2. 0 < Limit  BY SearchAssumption
    <3> QED BY <1>2, <3>1, <3>2 DEF CountFits
  <2> QED BY <1>3, <2>1, <2>2 DEF PatternInv, NoneTwice
<1>7. DataInv
  <2>1. list \in Seq(Keys)  BY <1>2
  <2> QED BY <1>2, <1>3, <2>1 DEF DataInv, HitsArePassed
<1>8. AnswerInv
  <2>1. Len(files) \in Nat  BY <1>1 DEF IInv, Types
  <2> QED BY <1>2, <2>1 DEF AnswerInv
<1> QED BY <1>1, <1>5, <1>6, <1>7, <1>8 DEF WholeInv

\* The whole of the invariant is inductive.
LEMMA WholeStep == WholeInv /\ [Next]_vars => WholeInv'
<1> SUFFICES ASSUME WholeInv, [Next]_vars  PROVE WholeInv'  OBVIOUS
<1>1. IInv'  BY TypesStep, ListStep, BestStep DEF IInv, WholeInv
<1> QED BY <1>1, MethodStays, FuzzyStep, PatternStep, DataStep, AnswerStep DEF WholeInv

\* When the search is done, the words taken are those of the places Taken.
LEMMA TakenAll ==
  ASSUME IInv, f = Len(files) + 2
  PROVE  \A w : TakenSoFar(w) <=> w \in {WordAt(p) : p \in Taken}
<1> SUFFICES ASSUME NEW w  PROVE TakenSoFar(w) <=> \E p \in Taken : w = WordAt(p)
  OBVIOUS
<1>1. \A g \in DOMAIN files : \A k \in DOMAIN files[g].words : Passed(g, k)
  <2> SUFFICES ASSUME NEW g \in DOMAIN files, NEW k \in DOMAIN files[g].words
               PROVE  Passed(g, k)
    OBVIOUS
  <2>1. g \in 1 .. Len(files) /\ Len(files) \in Nat  BY WordsAreWords DEF IInv, Types
  <2> QED BY <2>1 DEF Passed
<1>2. \A p : p \in AllPlaces <=>
        \E g \in DOMAIN files : \E k \in DOMAIN files[g].words : p = <<g, k>>
  <2> DEFINE S(g) == {<<g, k>> : k \in DOMAIN files[g].words}
  <2>1. \A g, p : p \in S(g) <=> \E k \in DOMAIN files[g].words : p = <<g, k>>  OBVIOUS
  <2>2. AllPlaces = UNION {S(g) : g \in DOMAIN files}  BY Zenon DEF AllPlaces
  <2> HIDE DEF S
  <2>3. \A p : p \in AllPlaces <=> \E g \in DOMAIN files : p \in S(g)  BY <2>2, Zenon
  <2> QED BY <2>1, <2>3, Zenon
<1>3. \A g, k : WordAt(<<g, k>>) = files[g].words[k]  BY DEF WordAt
<1>4. \A g, k : <<g, k>> \in Taken <=> <<g, k>> \in AllPlaces /\ IsTaken(g, k)
  <2>1. \A p : p \in Taken <=> p \in AllPlaces /\ IsTaken(p[1], p[2])
    BY Zenon DEF Taken, IsTaken, MatchesBefore, WordAt
  <2>2. \A g, k : <<g, k>>[1] = g /\ <<g, k>>[2] = k  OBVIOUS
  <2> SUFFICES ASSUME NEW g, NEW k
               PROVE  <<g, k>> \in Taken <=> <<g, k>> \in AllPlaces /\ IsTaken(g, k)
    BY Zenon
  <2>3. <<g, k>> \in Taken <=> <<g, k>> \in AllPlaces /\ IsTaken(<<g, k>>[1], <<g, k>>[2])
    BY <2>1, Zenon
  <2> QED BY <2>2, <2>3
<1>5. Taken \subseteq AllPlaces  BY DEF Taken
<1>6. ASSUME TakenSoFar(w)  PROVE \E p \in Taken : w = WordAt(p)
  <2>1. PICK g \in DOMAIN files : \E k \in DOMAIN files[g].words :
            IsTaken(g, k) /\ w = files[g].words[k]
    BY <1>6, Zenon DEF TakenSoFar
  <2>2. PICK k \in DOMAIN files[g].words : IsTaken(g, k) /\ w = files[g].words[k]
    BY <2>1
  <2>3. <<g, k>> \in Taken  BY <1>2, <1>4, <2>2, Zenon
  <2> QED BY <1>3, <2>2, <2>3, Zenon
<1>7. ASSUME NEW p \in Taken, w = WordAt(p)  PROVE TakenSoFar(w)
  <2>1. PICK g \in DOMAIN files : \E k \in DOMAIN files[g].words : p = <<g, k>>
    BY <1>2, <1>5
  <2>2. PICK k \in DOMAIN files[g].words : p = <<g, k>>  BY <2>1
  <2>3. IsTaken(g, k) /\ w = files[g].words[k]  BY <1>3, <1>4, <1>7, <2>2
  <2> QED BY <1>1, <2>3, Zenon DEF TakenSoFar
<1> QED BY <1>6, <1>7

\* What the invariant says of the end of a search is that the answer is right.
LEMMA AnswerIsRight == WholeInv => AnswerRight
<1> SUFFICES ASSUME WholeInv, f = Len(files) + 2  PROVE AnswerRight
  BY DEF AnswerRight
<1>1. IInv /\ Types  BY DEF WholeInv, IInv
<1>2. CASE method = "fuzzy"
  <2>1. answer = FuzzyAnswer(slots)  BY <1>2 DEF WholeInv, AnswerInv
  <2>2. EmptyIsFar /\ NoWordTwice /\ DistancesFit
    BY <1>1, <1>2 DEF WholeInv, FuzzyInv, IInv, FuzzyBest
  <2>3. /\ ToSet(answer) = {slots[j].word : j \in Places} \ {NoWord}
        /\ \A j, k \in DOMAIN answer : j < k =>
             \/ Distance[answer[j]] < Distance[answer[k]]
             \/ Distance[answer[j]] = Distance[answer[k]] /\ answer[j] < answer[k]
    BY <1>1, <2>1, <2>2, FuzzyAnswerRight
  <2> QED BY <1>2, <2>3 DEF AnswerRight
<1>3. CASE method = "pattern"
  <2>1. answer = PatternAnswer(list)  BY <1>3 DEF WholeInv, AnswerInv
  <2>2. answer = InOrder(list, less_for_compare)  BY <2>1, Zenon DEF PatternAnswer
  <2>3. list \in Seq(Nat)
    <3>1. list \in Seq(Words) /\ Words \subseteq Nat
      BY <1>1, <1>3, SearchAssumption DEF IInv, ListInv
    <3>2. Len(list) \in Nat /\ \A i \in 1 .. Len(list) : list[i] \in Words  BY <3>1
    <3>3. list = [i \in 1 .. Len(list) |-> list[i]]  BY <3>1
    <3>4. \A i \in 1 .. Len(list) : list[i] \in Nat  BY <3>1, <3>2
    <3> QED BY <3>2, <3>3, <3>4
  <2>4. NoneTwice(list) /\ ListIsTaken  BY <1>3 DEF WholeInv, PatternInv
  <2>5. \A j, k \in DOMAIN list : list[j] = list[k] => j = k  BY <2>4 DEF NoneTwice
  <2>6. Increasing(answer) /\ ToSet(answer) = ToSet(list)
    BY <2>2, <2>3, <2>5, WordsSorted, Zenon
  <2>7. \A w : w \in ToSet(list) <=> w \in {WordAt(p) : p \in Taken}
    BY <1>1, <2>4, TakenAll, Zenon DEF ListIsTaken
  <2>8. ToSet(list) = {WordAt(p) : p \in Taken}  BY <2>7, Zenon
  <2> QED BY <1>3, <2>6, <2>8 DEF AnswerRight
<1>4. CASE method = "data"
  <2>1. answer = list  BY <1>4 DEF WholeInv, AnswerInv
  <2>2. /\ \A x : x \in ToSet(list) <=> \E p \in hits : x = Key(files[p[1]].lib, WordAt(p))
        /\ \A j, k \in DOMAIN list : j < k => KeyBefore(list[j], list[k])
    BY <1>4 DEF WholeInv, DataInv
  <2>3. ToSet(list) = {Key(files[p[1]].lib, WordAt(p)) : p \in hits}
    <3> DEFINE K(p) == Key(files[p[1]].lib, WordAt(p))
    <3>1. \A x : x \in ToSet(list) <=> \E p \in hits : x = K(p)  BY <2>2
    <3> HIDE DEF K
    <3>2. ToSet(list) = {K(p) : p \in hits}  BY <3>1, Zenon
    <3> QED BY <3>2 DEF K
  <2> QED BY <1>4, <2>1, <2>2, <2>3 DEF AnswerRight, KeyBefore
<1> QED BY <1>1, <1>2, <1>3, <1>4 DEF Types

-----------------------------------------------------------------------------
(* The theorems.                                                           *)

\* The list of every search keeps to its types, its room and the best of what
\* was read (LookupWithFuzzy, LookupWithRule, LookupData).
THEOREM Invariance == Spec => []IInv
<1>1. Init => IInv BY InitIInv
<1>2. IInv /\ [Next]_vars => IInv' BY TypesStep, ListStep, BestStep DEF IInv
<1> QED BY <1>1, <1>2, PTL DEF Spec

\* Types, and that the matches of a pattern fit the array that the callers of
\* LookupWithRule and LookupWithRegex allocate.
THEOREM TypeCorrect == Spec => []TypeOK
<1>1. IInv => TypeOK
  <2> SUFFICES ASSUME IInv PROVE TypeOK OBVIOUS
  <2> USE DEF IInv, Types
  <2>1. ASSUME method = "pattern"
        PROVE  list \in Seq(Words) /\ Len(list) <= Limit * Len(files)
    <3>1. list \in Seq(Words) /\ Len(list) <= Limit * Finished + count
      BY <2>1 DEF ListInv
    <3>2. Limit \in Nat /\ Finished \in Nat /\ Len(files) \in Nat
      BY SearchAssumption DEF Finished
    <3>3. CASE Running
      <4>1. Finished + 1 <= Len(files) BY <3>3 DEF Running, Finished
      <4>2. Limit * (Finished + 1) <= Limit * Len(files) BY <3>2, <4>1, RoomOrdered
      <4>3. Limit * (Finished + 1) = Limit * Finished + Limit BY <3>2, RoomGrows
      <4>4. Limit * Finished \in Nat /\ Limit * Len(files) \in Nat BY <3>2
      <4>5. count <= Limit /\ count \in Nat BY <3>2
      <4>6. Len(list) \in Nat BY <3>1
      <4> QED BY <3>1, <3>2, <4>2, <4>3, <4>4, <4>5, <4>6
    <3>4. CASE ~Running
      <4>1. Finished = Len(files) /\ count = 0 BY <3>4 DEF Running, Finished
      <4>2. Limit * Len(files) \in Nat BY <3>2
      <4>3. Len(list) <= Limit * Len(files) + 0 BY <3>1, <4>1
      <4> QED BY <3>1, <4>2, <4>3
    <3> QED BY <3>3, <3>4
  <2> QED BY <2>1 DEF TypeOK
<1> QED BY <1>1, Invariance, PTL

\* The list of a fuzzy search is the best of what was read (LookupWithFuzzy).
THEOREM FuzzyListIsBest == Spec => []FuzzyBest
<1>1. IInv => FuzzyBest BY DEF IInv
<1> QED BY <1>1, Invariance, PTL

\* The caller is given the words of a fuzzy search by distance, each match of a
\* pattern in order up to the limit of its file, and the words of a search in
\* articles by dictionary (LookupWithFuzzy, LookupWithRule, LookupWithRegex,
\* LookupData).
THEOREM AnswersAreRight == Spec => []AnswerRight
<1>1. Init => WholeInv BY InitWhole
<1>2. WholeInv /\ [Next]_vars => WholeInv' BY WholeStep
<1>3. WholeInv => AnswerRight BY AnswerIsRight
<1> QED BY <1>1, <1>2, <1>3, PTL DEF Spec

-----------------------------------------------------------------------------
(* The edit distance: the matrix by its definition, what changes nothing in *)
(* it, and that the cells CalEditDistance fills hold the same.              *)

\* That D is the matrix by definition.
Table(D, s, t) ==
    /\ D \in [Edit!Cells(Len(s), Len(t)) -> Int]
    /\ \A j \in 0 .. Len(t), i \in 0 .. Len(s) : D[Edit!At(j, i)] = Edit!EditsAt(D, s, t, j, i)

\* A cell is its row and its column.
LEMMA AtIs ==
    /\ \A j, i : Edit!At(j, i)[1] = j /\ Edit!At(j, i)[2] = i
    /\ \A n, m : \A j \in 0 .. m, i \in 0 .. n : Edit!At(j, i) \in Edit!Cells(n, m)
    /\ \A n, m : \A c \in Edit!Cells(n, m) :
          c[1] \in 0 .. m /\ c[2] \in 0 .. n /\ c = Edit!At(c[1], c[2])
BY DEF Edit!At, Edit!Cells

\* What follows for a cell if it does for those before it, holds for every cell.
LEMMA CellInduction ==
    ASSUME NEW n \in Nat, NEW m \in Nat, NEW S,
           \A j \in 0 .. m, i \in 0 .. n :
              (\A k \in 0 .. m, l \in 0 .. n : k + l < j + i => Edit!At(k, l) \in S) => Edit!At(j, i) \in S
    PROVE  \A j \in 0 .. m, i \in 0 .. n : Edit!At(j, i) \in S
<1> DEFINE Bad == {h \in 0 .. n + m : \E j \in 0 .. m, i \in 0 .. n : j + i = h /\ Edit!At(j, i) \notin S}
<1>1. CASE Bad = {}
  <2> SUFFICES ASSUME NEW j \in 0 .. m, NEW i \in 0 .. n, Edit!At(j, i) \notin S PROVE FALSE  OBVIOUS
  <2>1. j + i \in 0 .. n + m  OBVIOUS
  <2>2. j + i \in Bad  BY <2>1
  <2> QED BY <1>1, <2>2
<1>2. CASE Bad # {}
  <2>1. Bad \in SUBSET (0 .. n + m) /\ n + m \in Nat  OBVIOUS
  <2>2. PICK h \in Bad : \A y \in Bad : h <= y
    <3> HIDE DEF Bad
    <3> QED BY <1>2, <2>1, LeastPosition
  <2>3. PICK j \in 0 .. m, i \in 0 .. n : j + i = h /\ Edit!At(j, i) \notin S  BY <2>2
  <2>4. ASSUME NEW k \in 0 .. m, NEW l \in 0 .. n, k + l < j + i PROVE Edit!At(k, l) \in S
    <3>1. k + l \in 0 .. n + m /\ ~(h <= k + l)  BY <2>3, <2>4
    <3>2. k + l \notin Bad  BY <2>2, <3>1
    <3> QED BY <3>1, <3>2
  <2> QED BY <2>3, <2>4
<1> QED BY <1>1, <1>2

LEMMA LeastIs ==
    ASSUME NEW a \in Int, NEW b \in Int, NEW c \in Int
    PROVE  /\ Edit!Least(a, b, c) \in {a, b, c}
           /\ Edit!Least(a, b, c) <= a /\ Edit!Least(a, b, c) <= b /\ Edit!Least(a, b, c) <= c
BY DEF Edit!Least

\* Two letters are the same two in the other order.
Crossed(s, t, j, i) == j >= 2 /\ i >= 2 /\ s[i] = t[j - 1] /\ s[i - 1] = t[j]

\* The least of the ways to a cell: from the cells above, to the left, diagonally and,
\* across a transposition, two cells diagonally.
BestWay(v, s, t, j, i, up, left, diagonal, cross) ==
    /\ v \in Int
    /\ v <= up + 1 /\ v <= left + 1 /\ v <= diagonal + 1
    /\ s[i] = t[j] => v <= diagonal
    /\ Crossed(s, t, j, i) => v <= cross + 1
    /\ \/ v = up + 1 \/ v = left + 1 \/ v = diagonal + 1
       \/ s[i] = t[j] /\ v = diagonal
       \/ Crossed(s, t, j, i) /\ v = cross + 1

LEMMA EditsAtIs ==
    ASSUME NEW D, NEW s, NEW t, NEW j \in Nat \ {0}, NEW i \in Nat \ {0},
           NEW up \in Int, up = D[Edit!At(j - 1, i)],
           NEW left \in Int, left = D[Edit!At(j, i - 1)],
           NEW diagonal \in Int, diagonal = D[Edit!At(j - 1, i - 1)],
           NEW cross, cross = D[Edit!At(j - 2, i - 2)], j >= 2 /\ i >= 2 => cross \in Int
    PROVE  BestWay(Edit!EditsAt(D, s, t, j, i), s, t, j, i, up, left, diagonal, cross)
<1> DEFINE cost == IF s[i] = t[j] THEN 0 ELSE 1
           v == Edit!Least(up + 1, left + 1, diagonal + cost)
           e == Edit!EditsAt(D, s, t, j, i)
<1>1. cost \in {0, 1} /\ (s[i] = t[j] => cost = 0) /\ (s[i] # t[j] => cost = 1)  OBVIOUS
<1>2. j # 0 /\ i # 0  OBVIOUS
<1>3. e = IF i >= 2 /\ j >= 2 /\ s[i] = t[j - 1] /\ s[i - 1] = t[j] /\ cross + 1 < v
          THEN cross + 1 ELSE v
  <2> USE DEF Edit!EditsAt
  <2> QED BY <1>2, Zenon
<1> HIDE DEF cost
<1>4. /\ v \in {up + 1, left + 1, diagonal + cost}
      /\ v <= up + 1 /\ v <= left + 1 /\ v <= diagonal + cost
  <2>1. up + 1 \in Int /\ left + 1 \in Int /\ diagonal + cost \in Int  BY <1>1
  <2> QED BY <2>1, LeastIs
<1> HIDE DEF v, e
<1>5. v \in Int  BY <1>1, <1>4
<1>6. CASE Crossed(s, t, j, i) /\ cross + 1 < v
  <2>1. e = cross + 1 /\ cross \in Int  BY <1>3, <1>6 DEF Crossed
  <2> QED BY <1>1, <1>4, <1>5, <1>6, <2>1 DEF BestWay, e
<1>7. CASE ~(Crossed(s, t, j, i) /\ cross + 1 < v)
  <2>1. e = v  BY <1>3, <1>7 DEF Crossed
  <2>2. Crossed(s, t, j, i) => cross \in Int  BY DEF Crossed
  <2> QED BY <1>1, <1>4, <1>5, <1>7, <2>1, <2>2 DEF BestWay, e
<1> QED BY <1>6, <1>7

\* The matrix exists.
LEMMA TableExists ==
    ASSUME NEW C, NEW s \in Seq(C), NEW t \in Seq(C)
    PROVE  \E D : Table(D, s, t)
<1> DEFINE n == Len(s)
           m == Len(t)
           Upto(F, h) == /\ F \in [Edit!Cells(n, m) -> Int]
                         /\ \A j \in 0 .. m, i \in 0 .. n : j + i <= h =>
                                F[Edit!At(j, i)] = Edit!EditsAt(F, s, t, j, i)
           Bad == {h \in 0 .. n + m : ~ \E F : Upto(F, h)}
<1>1. n \in Nat /\ m \in Nat  BY LenProperties
<1> HIDE DEF n, m
<1>2. Bad = {}
  <2> SUFFICES ASSUME Bad # {} PROVE FALSE  OBVIOUS
  <2>1. Bad \in SUBSET (0 .. n + m) /\ n + m \in Nat  BY <1>1
  <2>2. PICK h \in Bad : \A y \in Bad : h <= y
    <3> HIDE DEF Bad
    <3> QED BY <2>1, LeastPosition
  <2>3. h \in 0 .. n + m /\ h \in Int  BY <2>2
  <2>4. \E F : F \in [Edit!Cells(n, m) -> Int] /\ \A j \in 0 .. m, i \in 0 .. n : j + i < h =>
                                F[Edit!At(j, i)] = Edit!EditsAt(F, s, t, j, i)
    <3>1. CASE h = 0
      <4>1. [c \in Edit!Cells(n, m) |-> 0] \in [Edit!Cells(n, m) -> Int]  OBVIOUS
      <4>2. \A j \in 0 .. m, i \in 0 .. n : ~(j + i < h)  BY <1>1, <3>1
      <4> QED BY <4>1, <4>2
    <3>2. CASE h # 0
      <4>1. h - 1 \in 0 .. n + m /\ ~(h <= h - 1)  BY <1>1, <2>3, <3>2
      <4>2. h - 1 \notin Bad  BY <2>2, <4>1
      <4>3. PICK F : Upto(F, h - 1)  BY <4>1, <4>2
      <4>4. \A j \in 0 .. m, i \in 0 .. n : j + i < h => j + i <= h - 1  BY <1>1, <2>3
      <4> QED BY <4>3, <4>4
    <3> QED BY <3>1, <3>2
  <2>5. PICK F : /\ F \in [Edit!Cells(n, m) -> Int]
                 /\ \A j \in 0 .. m, i \in 0 .. n : j + i < h =>
                                F[Edit!At(j, i)] = Edit!EditsAt(F, s, t, j, i)
    BY <2>4
  <2> DEFINE g == [c \in Edit!Cells(n, m) |-> IF c[1] + c[2] = h THEN Edit!EditsAt(F, s, t, c[1], c[2]) ELSE F[c]]
  <2>6. \A j \in 0 .. m, i \in 0 .. n :
          g[Edit!At(j, i)] = IF j + i = h THEN Edit!EditsAt(F, s, t, j, i) ELSE F[Edit!At(j, i)]
    BY AtIs
  <2>7. \A j \in 0 .. m, i \in 0 .. n : F[Edit!At(j, i)] \in Int  BY <2>5, AtIs
  <2>8. ASSUME NEW j \in 0 .. m, NEW i \in 0 .. n PROVE Edit!EditsAt(F, s, t, j, i) \in Int
    <3>1. CASE j = 0 \/ i = 0
      <4>1. j \in Int /\ i \in Int  BY <1>1
      <4> QED BY <3>1, <4>1 DEF Edit!EditsAt
    <3>2. CASE ~(j = 0 \/ i = 0)
      <4>1. /\ j \in Nat \ {0} /\ i \in Nat \ {0} /\ j - 1 \in 0 .. m /\ i - 1 \in 0 .. n
            /\ j >= 2 /\ i >= 2 => j - 2 \in 0 .. m /\ i - 2 \in 0 .. n
        BY <1>1, <3>2
      <4>2. /\ F[Edit!At(j - 1, i)] \in Int /\ F[Edit!At(j, i - 1)] \in Int
            /\ F[Edit!At(j - 1, i - 1)] \in Int
            /\ j >= 2 /\ i >= 2 => F[Edit!At(j - 2, i - 2)] \in Int
        BY <2>7, <4>1
      <4>3. BestWay(Edit!EditsAt(F, s, t, j, i), s, t, j, i, F[Edit!At(j - 1, i)],
                    F[Edit!At(j, i - 1)], F[Edit!At(j - 1, i - 1)], F[Edit!At(j - 2, i - 2)])
        BY <4>1, <4>2, EditsAtIs
      <4> QED BY <4>3 DEF BestWay
    <3> QED BY <3>1, <3>2
  <2>9. g \in [Edit!Cells(n, m) -> Int]
    <3>1. \A c \in Edit!Cells(n, m) : c[1] \in 0 .. m /\ c[2] \in 0 .. n /\ c = Edit!At(c[1], c[2])  BY AtIs
    <3>2. \A c \in Edit!Cells(n, m) : g[c] \in Int  BY <2>5, <2>8, <3>1
    <3> QED BY <3>2
  <2>10. ASSUME NEW j \in 0 .. m, NEW i \in 0 .. n, j + i <= h
         PROVE  Edit!EditsAt(g, s, t, j, i) = Edit!EditsAt(F, s, t, j, i)
    <3> HIDE DEF g
    <3>1. j > 0 => j - 1 \in 0 .. m /\ j - 1 + i # h /\ g[Edit!At(j - 1, i)] = F[Edit!At(j - 1, i)]
      BY <1>1, <2>3, <2>6, <2>10
    <3>2. i > 0 => i - 1 \in 0 .. n /\ j + (i - 1) # h /\ g[Edit!At(j, i - 1)] = F[Edit!At(j, i - 1)]
      BY <1>1, <2>3, <2>6, <2>10
    <3>3. j > 0 /\ i > 0 => g[Edit!At(j - 1, i - 1)] = F[Edit!At(j - 1, i - 1)]
      BY <1>1, <2>3, <2>6, <2>10, <3>1, <3>2
    <3>4. j >= 2 /\ i >= 2 => g[Edit!At(j - 2, i - 2)] = F[Edit!At(j - 2, i - 2)]
      <4>1. j >= 2 /\ i >= 2 => j - 2 \in 0 .. m /\ i - 2 \in 0 .. n /\ (j - 2) + (i - 2) # h
        BY <1>1, <2>3, <2>10
      <4> QED BY <2>6, <4>1
    <3>5. j = 0 \/ j > 0  BY <1>1
    <3>6. i = 0 \/ i > 0  BY <1>1
    <3> QED BY <3>1, <3>2, <3>3, <3>4, <3>5, <3>6 DEF Edit!EditsAt
  <2>11. Upto(g, h)
    <3> SUFFICES ASSUME NEW j \in 0 .. m, NEW i \in 0 .. n, j + i <= h
                 PROVE  g[Edit!At(j, i)] = Edit!EditsAt(g, s, t, j, i)
      BY <2>9
    <3> HIDE DEF g
    <3>1. j + i = h \/ j + i < h  BY <1>1, <2>3
    <3>2. j + i < h => j + i # h  BY <1>1, <2>3
    <3> QED BY <2>5, <2>6, <2>10, <3>1, <3>2
  <2> QED BY <2>2, <2>11
<1>3. n + m \in 0 .. n + m  BY <1>1
<1>4. PICK F : Upto(F, n + m)  BY <1>2, <1>3
<1>5. \A j \in 0 .. m, i \in 0 .. n : j + i <= n + m  BY <1>1
<1>6. Table(F, s, t)  BY <1>4, <1>5 DEF Table, n, m
<1> QED BY <1>6

\* The distance is the last cell of the matrix.
LEMMA EditsIsLast ==
    ASSUME NEW C, NEW s \in Seq(C), NEW t \in Seq(C)
    PROVE  \E D : Table(D, s, t) /\ Edit!Edits(s, t) = D[Edit!At(Len(t), Len(s))]
<1> DEFINE Whole == Edit!Cells(Len(s), Len(t))
           Is(F) == F = [c \in Whole |-> Edit!EditsAt(F, s, t, c[1], c[2])]
           D == CHOOSE F : Is(F)
<1>1. PICK F : Table(F, s, t)  BY TableExists
<1>2. Is(F)
  <2>1. \A c \in Whole : c[1] \in 0 .. Len(t) /\ c[2] \in 0 .. Len(s) /\ c = Edit!At(c[1], c[2])  BY AtIs
  <2>2. \A c \in Whole : F[c] = Edit!EditsAt(F, s, t, c[1], c[2])  BY <1>1, <2>1 DEF Table
  <2>3. F \in [Whole -> Int]  BY <1>1 DEF Table
  <2> QED BY <2>2, <2>3
<1>3. Is(D)  BY <1>2
<1>4. Edit!Edits(s, t) = D[Edit!At(Len(t), Len(s))]  BY DEF Edit!Edits
<1>5. Table(D, s, t)
  <2> HIDE DEF D
  <2>1. \A j \in 0 .. Len(t), i \in 0 .. Len(s) : D[Edit!At(j, i)] = Edit!EditsAt(D, s, t, j, i)
    <3> SUFFICES ASSUME NEW j \in 0 .. Len(t), NEW i \in 0 .. Len(s)
                 PROVE  D[Edit!At(j, i)] = Edit!EditsAt(D, s, t, j, i)
      OBVIOUS
    <3>1. Edit!At(j, i) \in Whole /\ Edit!At(j, i)[1] = j /\ Edit!At(j, i)[2] = i  BY AtIs
    <3> HIDE DEF Whole
    <3>2. D = [c \in Whole |-> Edit!EditsAt(D, s, t, c[1], c[2])]  BY <1>3
    <3>3. D[Edit!At(j, i)] = [c \in Whole |-> Edit!EditsAt(D, s, t, c[1], c[2])][Edit!At(j, i)]
      BY <3>2
    <3> QED BY <3>1, <3>3
  <2> DEFINE S == {c \in Whole : D[c] \in Int}
             n == Len(s)
             m == Len(t)
  <2>2. n \in Nat /\ m \in Nat  BY LenProperties
  <2>3. ASSUME NEW j \in 0 .. m, NEW i \in 0 .. n,
               \A k \in 0 .. m, l \in 0 .. n : k + l < j + i => Edit!At(k, l) \in S
        PROVE  Edit!At(j, i) \in S
    <3>1. \A k \in 0 .. m, l \in 0 .. n : k + l < j + i => D[Edit!At(k, l)] \in Int  BY <2>3
    <3>2. Edit!At(j, i) \in Whole  BY AtIs
    <3> HIDE DEF Whole, S, n, m
    <3>3. D[Edit!At(j, i)] = Edit!EditsAt(D, s, t, j, i)  BY <2>1 DEF n, m
    <3>4. j \in Int /\ i \in Int  BY <2>2
    <3>5. CASE j = 0 \/ i = 0  BY <3>2, <3>3, <3>4, <3>5 DEF Edit!EditsAt, S
    <3>6. CASE ~(j = 0 \/ i = 0)
      <4>1. /\ j - 1 \in 0 .. m /\ i - 1 \in 0 .. n
            /\ j - 1 + i < j + i /\ j + (i - 1) < j + i /\ (j - 1) + (i - 1) < j + i
        BY <2>2, <3>6
      <4>2. /\ D[Edit!At(j - 1, i)] \in Int /\ D[Edit!At(j, i - 1)] \in Int
            /\ D[Edit!At(j - 1, i - 1)] \in Int
        BY <3>1, <4>1
      <4>3. j >= 2 /\ i >= 2 => D[Edit!At(j - 2, i - 2)] \in Int
        <5>1. j >= 2 /\ i >= 2 => j - 2 \in 0 .. m /\ i - 2 \in 0 .. n /\ (j - 2) + (i - 2) < j + i
          BY <2>2
        <5> QED BY <3>1, <5>1
      <4>4. Edit!EditsAt(D, s, t, j, i) \in Int
        <5>1. j \in Nat \ {0} /\ i \in Nat \ {0}  BY <2>2, <3>6
        <5>2. BestWay(Edit!EditsAt(D, s, t, j, i), s, t, j, i, D[Edit!At(j - 1, i)],
                       D[Edit!At(j, i - 1)], D[Edit!At(j - 1, i - 1)], D[Edit!At(j - 2, i - 2)])
          BY <4>2, <4>3, <5>1, EditsAtIs
        <5> QED BY <5>2 DEF BestWay
      <4> QED BY <3>2, <3>3, <4>4 DEF S
    <3> QED BY <3>5, <3>6
  <2>4. \A j \in 0 .. m, i \in 0 .. n : Edit!At(j, i) \in S
    <3> HIDE DEF S, n, m
    <3> QED BY <2>2, <2>3, CellInduction
  <2>5. \A c \in Whole : D[c] \in Int
    <3>1. \A c \in Whole : c[1] \in 0 .. m /\ c[2] \in 0 .. n /\ c = Edit!At(c[1], c[2])  BY AtIs
    <3>2. \A c \in Whole : c \in S
      <4> HIDE DEF S, n, m, Whole
      <4> QED BY <2>4, <3>1
    <3> QED BY <3>2
  <2>6. D \in [Whole -> Int]
    <3> DEFINE e(c) == Edit!EditsAt(D, s, t, c[1], c[2])
    <3>1. D = [c \in Whole |-> e(c)]  BY <1>3
    <3> HIDE DEF Whole, e
    <3> QED BY <2>5, <3>1
  <2> QED BY <2>1, <2>6 DEF Table
<1> QED BY <1>4, <1>5

\* The borders count the letters of one string; any other cell is the least of the
\* ways to it.
LEMMA CellIs ==
    ASSUME NEW C, NEW s \in Seq(C), NEW t \in Seq(C), NEW D, Table(D, s, t)
    PROVE  /\ \A j \in 0 .. Len(t), i \in 0 .. Len(s) : D[Edit!At(j, i)] \in Int
           /\ \A i \in 0 .. Len(s) : D[Edit!At(0, i)] = i
           /\ \A j \in 0 .. Len(t) : D[Edit!At(j, 0)] = j
           /\ \A j \in 1 .. Len(t), i \in 1 .. Len(s) :
                BestWay(D[Edit!At(j, i)], s, t, j, i, D[Edit!At(j - 1, i)], D[Edit!At(j, i - 1)],
                         D[Edit!At(j - 1, i - 1)], D[Edit!At(j - 2, i - 2)])
<1> DEFINE n == Len(s)
           m == Len(t)
<1>1. n \in Nat /\ m \in Nat  BY LenProperties
<1>2. \A j \in 0 .. m, i \in 0 .. n : D[Edit!At(j, i)] \in Int  BY AtIs DEF Table
<1>3. \A j \in 0 .. m, i \in 0 .. n : D[Edit!At(j, i)] = Edit!EditsAt(D, s, t, j, i)  BY DEF Table
<1> HIDE DEF n, m
<1>4. \A i \in 0 .. n : D[Edit!At(0, i)] = i  BY <1>1, <1>3 DEF Edit!EditsAt
<1>5. \A j \in 0 .. m : D[Edit!At(j, 0)] = j
  <2> SUFFICES ASSUME NEW j \in 0 .. m PROVE D[Edit!At(j, 0)] = j  OBVIOUS
  <2>1. 0 \in 0 .. n  BY <1>1
  <2>2. D[Edit!At(j, 0)] = Edit!EditsAt(D, s, t, j, 0)  BY <1>3, <2>1
  <2> QED BY <2>2 DEF Edit!EditsAt
<1>6. ASSUME NEW j \in 1 .. m, NEW i \in 1 .. n
      PROVE  BestWay(D[Edit!At(j, i)], s, t, j, i, D[Edit!At(j - 1, i)], D[Edit!At(j, i - 1)],
                      D[Edit!At(j - 1, i - 1)], D[Edit!At(j - 2, i - 2)])
  <2>1. /\ j \in 0 .. m /\ i \in 0 .. n /\ j - 1 \in 0 .. m /\ i - 1 \in 0 .. n
        /\ j \in Nat \ {0} /\ i \in Nat \ {0}
    BY <1>1
  <2>2. /\ D[Edit!At(j - 1, i)] \in Int /\ D[Edit!At(j, i - 1)] \in Int
        /\ D[Edit!At(j - 1, i - 1)] \in Int
    BY <1>2, <2>1
  <2>3. j >= 2 /\ i >= 2 => D[Edit!At(j - 2, i - 2)] \in Int
    <3>1. j >= 2 /\ i >= 2 => j - 2 \in 0 .. m /\ i - 2 \in 0 .. n  BY <1>1
    <3> QED BY <1>2, <3>1
  <2>4. D[Edit!At(j, i)] = Edit!EditsAt(D, s, t, j, i)  BY <1>3, <2>1
  <2>5. BestWay(Edit!EditsAt(D, s, t, j, i), s, t, j, i, D[Edit!At(j - 1, i)], D[Edit!At(j, i - 1)],
                 D[Edit!At(j - 1, i - 1)], D[Edit!At(j - 2, i - 2)])
    BY <2>1, <2>2, <2>3, EditsAtIs
  <2> QED BY <2>4, <2>5
<1> QED BY <1>2, <1>4, <1>5, <1>6 DEF n, m

\* A cell and those before it differ by one edit at most, along a diagonal the
\* edits do not become fewer, and there is an edit for each letter that one string
\* has more.
Smooth(D, j, i) ==
    /\ j > 0 => /\ D[Edit!At(j - 1, i)] <= D[Edit!At(j, i)] + 1
                /\ D[Edit!At(j, i)] <= D[Edit!At(j - 1, i)] + 1
    /\ i > 0 => /\ D[Edit!At(j, i - 1)] <= D[Edit!At(j, i)] + 1
                /\ D[Edit!At(j, i)] <= D[Edit!At(j, i - 1)] + 1
    /\ j > 0 /\ i > 0 => /\ D[Edit!At(j - 1, i - 1)] <= D[Edit!At(j, i)]
                         /\ D[Edit!At(j, i)] <= D[Edit!At(j - 1, i - 1)] + 1
    /\ D[Edit!At(j, i)] >= j - i /\ D[Edit!At(j, i)] >= i - j

LEMMA SmoothCell ==
    ASSUME NEW s, NEW t, NEW j \in Nat \ {0}, NEW i \in Nat \ {0}, NEW D,
           NEW v, v = D[Edit!At(j, i)],
           NEW up \in Int, up = D[Edit!At(j - 1, i)],
           NEW left \in Int, left = D[Edit!At(j, i - 1)],
           NEW diagonal \in Int, diagonal = D[Edit!At(j - 1, i - 1)],
           NEW cross, cross = D[Edit!At(j - 2, i - 2)], j >= 2 /\ i >= 2 => cross \in Int,
           BestWay(v, s, t, j, i, up, left, diagonal, cross),
           Smooth(D, j - 1, i), Smooth(D, j, i - 1), Smooth(D, j - 1, i - 1)
    PROVE  Smooth(D, j, i)
<1>1. j > 0 /\ i > 0 /\ j - 1 \in Int /\ i - 1 \in Int  OBVIOUS
<1>2. /\ diagonal <= up + 1 /\ up <= diagonal + 1 /\ up >= j - 1 - i /\ up >= i - (j - 1)
  BY <1>1 DEF Smooth
<1>3. /\ diagonal <= left + 1 /\ left <= diagonal + 1 /\ left >= j - (i - 1) /\ left >= i - 1 - j
  BY <1>1 DEF Smooth
<1>4. /\ diagonal >= j - i /\ diagonal >= i - j  BY <1>1 DEF Smooth
<1>5. ASSUME j >= 2, i >= 2 PROVE cross \in Int /\ cross <= diagonal /\ diagonal <= cross + 1
  <2>1. j - 1 > 0 /\ i - 1 > 0 /\ (j - 1) - 1 = j - 2 /\ (i - 1) - 1 = i - 2  BY <1>5
  <2> QED BY <1>5, <2>1 DEF Smooth
<1>6. v \in Int /\ v <= up + 1 /\ v <= left + 1 /\ v <= diagonal + 1  BY DEF BestWay
<1>7. up <= v + 1 /\ left <= v + 1 /\ diagonal <= v /\ v >= j - i /\ v >= i - j
  <2>1. CASE v = up + 1  BY <1>2, <1>3, <1>4, <1>6, <2>1
  <2>2. CASE v = left + 1  BY <1>2, <1>3, <1>4, <1>6, <2>2
  <2>3. CASE v = diagonal + 1  BY <1>2, <1>3, <1>4, <1>6, <2>3
  <2>4. CASE v = diagonal  BY <1>2, <1>3, <1>4, <1>6, <2>4
  <2>5. CASE Crossed(s, t, j, i) /\ v = cross + 1
    <3>1. cross \in Int /\ cross <= diagonal /\ diagonal <= cross + 1  BY <1>5, <2>5 DEF Crossed
    <3> QED BY <1>2, <1>3, <1>4, <1>6, <2>5, <3>1
  <2> QED BY <2>1, <2>2, <2>3, <2>4, <2>5 DEF BestWay
<1> QED BY <1>1, <1>6, <1>7 DEF Smooth

LEMMA TableSmooth ==
    ASSUME NEW C, NEW s \in Seq(C), NEW t \in Seq(C), NEW D, Table(D, s, t)
    PROVE  \A j \in 0 .. Len(t), i \in 0 .. Len(s) : Smooth(D, j, i)
<1> DEFINE n == Len(s)
           m == Len(t)
           S == {c \in Edit!Cells(n, m) : Smooth(D, c[1], c[2])}
<1>1. n \in Nat /\ m \in Nat  BY LenProperties
<1>2. /\ \A j \in 0 .. m, i \in 0 .. n : D[Edit!At(j, i)] \in Int
      /\ \A i \in 0 .. n : D[Edit!At(0, i)] = i
      /\ \A j \in 0 .. m : D[Edit!At(j, 0)] = j
      /\ \A j \in 1 .. m, i \in 1 .. n :
           BestWay(D[Edit!At(j, i)], s, t, j, i, D[Edit!At(j - 1, i)], D[Edit!At(j, i - 1)],
                    D[Edit!At(j - 1, i - 1)], D[Edit!At(j - 2, i - 2)])
  BY CellIs
<1> HIDE DEF n, m
<1>3. \A j \in 0 .. m, i \in 0 .. n : Edit!At(j, i) \in S <=> Smooth(D, j, i)  BY AtIs
<1> HIDE DEF S
<1>4. ASSUME NEW j \in 0 .. m, NEW i \in 0 .. n,
             \A k \in 0 .. m, l \in 0 .. n : k + l < j + i => Edit!At(k, l) \in S
      PROVE  Edit!At(j, i) \in S
  <2>1. \A k \in 0 .. m, l \in 0 .. n : k + l < j + i => Smooth(D, k, l)  BY <1>3, <1>4
  <2>2. CASE j = 0
    <3>1. i > 0 => i - 1 \in 0 .. n /\ D[Edit!At(0, i - 1)] = i - 1  BY <1>1, <1>2
    <3>2. D[Edit!At(0, i)] = i  BY <1>2
    <3>3. Smooth(D, 0, i)  BY <1>1, <3>1, <3>2 DEF Smooth
    <3> QED BY <1>3, <2>2, <3>3
  <2>3. CASE j # 0 /\ i = 0
    <3>1. j > 0 /\ j - 1 \in 0 .. m /\ D[Edit!At(j - 1, 0)] = j - 1  BY <1>1, <1>2, <2>3
    <3>2. D[Edit!At(j, 0)] = j  BY <1>2
    <3>3. Smooth(D, j, 0)  BY <1>1, <3>1, <3>2 DEF Smooth
    <3> QED BY <1>3, <2>3, <3>3
  <2>4. CASE j # 0 /\ i # 0
    <3>1. /\ j \in 1 .. m /\ i \in 1 .. n /\ j - 1 \in 0 .. m /\ i - 1 \in 0 .. n
          /\ j \in Nat \ {0} /\ i \in Nat \ {0}
          /\ j - 1 + i < j + i /\ j + (i - 1) < j + i /\ (j - 1) + (i - 1) < j + i
      BY <1>1, <2>4
    <3>2. Smooth(D, j - 1, i) /\ Smooth(D, j, i - 1) /\ Smooth(D, j - 1, i - 1)
      BY <2>1, <3>1
    <3>3. /\ D[Edit!At(j - 1, i)] \in Int /\ D[Edit!At(j, i - 1)] \in Int
          /\ D[Edit!At(j - 1, i - 1)] \in Int
      BY <1>2, <3>1
    <3>4. j >= 2 /\ i >= 2 => D[Edit!At(j - 2, i - 2)] \in Int
      <4>1. j >= 2 /\ i >= 2 => j - 2 \in 0 .. m /\ i - 2 \in 0 .. n  BY <1>1
      <4> QED BY <1>2, <4>1
    <3>5. BestWay(D[Edit!At(j, i)], s, t, j, i, D[Edit!At(j - 1, i)], D[Edit!At(j, i - 1)],
                   D[Edit!At(j - 1, i - 1)], D[Edit!At(j - 2, i - 2)])
      BY <1>2, <3>1
    <3>6. Smooth(D, j, i)  BY <3>1, <3>2, <3>3, <3>4, <3>5, SmoothCell
    <3> QED BY <1>3, <3>6
  <2> QED BY <2>2, <2>3, <2>4
<1>5. \A j \in 0 .. m, i \in 0 .. n : Edit!At(j, i) \in S  BY <1>1, <1>4, CellInduction
<1> QED BY <1>3, <1>5 DEF n, m

\* Two cells reached alike hold the same: the ways across a transposition are the same
\* or not better than the diagonal.
LEMMA BestWaysAlike ==
    ASSUME NEW s, NEW t, NEW j, NEW i, NEW a, NEW b, NEW k, NEW l,
           NEW up \in Int, NEW left \in Int, NEW diagonal \in Int, NEW x, NEW y, NEW v, NEW w,
           BestWay(v, s, t, j, i, up, left, diagonal, x),
           BestWay(w, a, b, k, l, up, left, diagonal, y),
           s[i] = t[j] <=> a[l] = b[k],
           Crossed(s, t, j, i) =>
               x \in Int /\ (x >= diagonal \/ (Crossed(a, b, k, l) /\ x = y)),
           Crossed(a, b, k, l) =>
               y \in Int /\ (y >= diagonal \/ (Crossed(s, t, j, i) /\ x = y))
    PROVE  v = w
<1>1. v \in Int /\ w \in Int  BY DEF BestWay
<1>2. v <= w
  <2>1. CASE Crossed(a, b, k, l) /\ w = y + 1
    <3>1. CASE y >= diagonal  BY <1>1, <2>1, <3>1 DEF BestWay
    <3>2. CASE Crossed(s, t, j, i) /\ x = y  BY <1>1, <2>1, <3>2 DEF BestWay
    <3> QED BY <2>1, <3>1, <3>2
  <2>2. CASE ~(Crossed(a, b, k, l) /\ w = y + 1)  BY <1>1, <2>2 DEF BestWay
  <2> QED BY <2>1, <2>2
<1>3. w <= v
  <2>1. CASE Crossed(s, t, j, i) /\ v = x + 1
    <3>1. CASE x >= diagonal  BY <1>1, <2>1, <3>1 DEF BestWay
    <3>2. CASE Crossed(a, b, k, l) /\ x = y  BY <1>1, <2>1, <3>2 DEF BestWay
    <3> QED BY <2>1, <3>1, <3>2
  <2>2. CASE ~(Crossed(s, t, j, i) /\ v = x + 1)  BY <1>1, <2>2 DEF BestWay
  <2> QED BY <2>1, <2>2
<1> QED BY <1>1, <1>2, <1>3

\* a is what s holds from place p on.
Window(a, s, p) == Len(a) + p <= Len(s) /\ \A i \in 1 .. Len(a) : a[i] = s[i + p]

\* Two strings without the p letters that both begin with.
Shorter(a, b, s, t, p) ==
    Window(a, s, p) /\ Window(b, t, p) /\ \A k \in 1 .. p : s[k] = t[k]

\* Two strings that end with the same q letters.
EndAlike(s, t, q) ==
    q <= Len(s) /\ q <= Len(t) /\ \A k \in 0 .. q - 1 : s[Len(s) - k] = t[Len(t) - k]

\* The first letters, if they are the same, change nothing.
LEMMA PrefixFree ==
    ASSUME NEW C, NEW s \in Seq(C), NEW t \in Seq(C), NEW a \in Seq(C), NEW b \in Seq(C),
           NEW p \in Nat, Shorter(a, b, s, t, p),
           NEW D, Table(D, s, t), NEW F, Table(F, a, b)
    PROVE  \A j \in 0 .. Len(b), i \in 0 .. Len(a) : D[Edit!At(j + p, i + p)] = F[Edit!At(j, i)]
<1> DEFINE n == Len(a)
           m == Len(b)
           S == {c \in Edit!Cells(n, m) : D[Edit!At(c[1] + p, c[2] + p)] = F[c]}
<1>1. /\ n \in Nat /\ m \in Nat /\ Len(s) \in Nat /\ Len(t) \in Nat
      /\ n + p <= Len(s) /\ m + p <= Len(t)
  BY LenProperties DEF Shorter, Window
<1>2. /\ \A j \in 0 .. m, i \in 0 .. n : F[Edit!At(j, i)] \in Int
      /\ \A i \in 0 .. n : F[Edit!At(0, i)] = i
      /\ \A j \in 0 .. m : F[Edit!At(j, 0)] = j
      /\ \A j \in 1 .. m, i \in 1 .. n :
           BestWay(F[Edit!At(j, i)], a, b, j, i, F[Edit!At(j - 1, i)], F[Edit!At(j, i - 1)],
                    F[Edit!At(j - 1, i - 1)], F[Edit!At(j - 2, i - 2)])
  BY CellIs
<1>3. /\ \A j \in 0 .. Len(t), i \in 0 .. Len(s) : D[Edit!At(j, i)] \in Int
      /\ D[Edit!At(0, 0)] = 0
      /\ \A j \in 1 .. Len(t), i \in 1 .. Len(s) :
           BestWay(D[Edit!At(j, i)], s, t, j, i, D[Edit!At(j - 1, i)], D[Edit!At(j, i - 1)],
                    D[Edit!At(j - 1, i - 1)], D[Edit!At(j - 2, i - 2)])
  <2>1. 0 \in 0 .. Len(s)  BY <1>1
  <2> QED BY <2>1, CellIs
<1>4. \A j \in 0 .. Len(t), i \in 0 .. Len(s) : Smooth(D, j, i)  BY TableSmooth
<1>5. /\ \A i \in 1 .. n : a[i] = s[i + p]
      /\ \A j \in 1 .. m : b[j] = t[j + p]
      /\ \A k \in 1 .. p : s[k] = t[k]
  BY DEF Shorter, Window
<1> HIDE DEF n, m
<1>6. \A k \in 0 .. p : D[Edit!At(k, k)] = 0
  <2> DEFINE Bad == {k \in 0 .. p : D[Edit!At(k, k)] # 0}
  <2> SUFFICES ASSUME Bad # {} PROVE FALSE  OBVIOUS
  <2>1. Bad \in SUBSET (0 .. p)  OBVIOUS
  <2>2. PICK k \in Bad : \A y \in Bad : k <= y
    <3> HIDE DEF Bad
    <3> QED BY <2>1, LeastPosition
  <2>3. k \in 0 .. p /\ D[Edit!At(k, k)] # 0  BY <2>2
  <2>4. k # 0  BY <1>3, <2>3
  <2>5. k \in 1 .. p /\ k - 1 \in 0 .. p /\ ~(k <= k - 1)  BY <2>3, <2>4
  <2>6. D[Edit!At(k - 1, k - 1)] = 0  BY <2>2, <2>5
  <2>7. k \in 1 .. Len(t) /\ k \in 1 .. Len(s) /\ k \in 0 .. Len(t) /\ k \in 0 .. Len(s)
    BY <1>1, <2>5
  <2>8. D[Edit!At(k, k)] <= 0
    <3>1. BestWay(D[Edit!At(k, k)], s, t, k, k, D[Edit!At(k - 1, k)], D[Edit!At(k, k - 1)],
                    D[Edit!At(k - 1, k - 1)], D[Edit!At(k - 2, k - 2)])
      BY <1>3, <2>7
    <3>2. s[k] = t[k]  BY <1>5, <2>5
    <3> QED BY <2>6, <3>1, <3>2 DEF BestWay
  <2>9. D[Edit!At(k, k)] >= 0  BY <1>4, <2>7 DEF Smooth
  <2>10. D[Edit!At(k, k)] \in Int  BY <1>3, <2>7
  <2> QED BY <2>3, <2>8, <2>9, <2>10
<1>7. \A j \in 0 .. m, i \in 0 .. n :
        Edit!At(j, i) \in S <=> D[Edit!At(j + p, i + p)] = F[Edit!At(j, i)]
  BY AtIs
<1> HIDE DEF S
<1>8. ASSUME NEW j \in 0 .. m, NEW i \in 0 .. n,
             \A k \in 0 .. m, l \in 0 .. n : k + l < j + i => Edit!At(k, l) \in S
      PROVE  Edit!At(j, i) \in S
  <2>1. \A k \in 0 .. m, l \in 0 .. n :
          k + l < j + i => D[Edit!At(k + p, l + p)] = F[Edit!At(k, l)]
    BY <1>7, <1>8
  <2>2. /\ j + p \in 0 .. Len(t) /\ i + p \in 0 .. Len(s)
        /\ j \in Int /\ i \in Int
    BY <1>1
  <2>3. Smooth(D, j + p, i + p) /\ D[Edit!At(j + p, i + p)] \in Int  BY <1>3, <1>4, <2>2
  <2>4. CASE j = 0 /\ i = 0
    <3>1. D[Edit!At(p, p)] = 0 /\ F[Edit!At(0, 0)] = 0  BY <1>1, <1>2, <1>6
    <3> QED BY <1>1, <1>7, <2>4, <3>1
  <2>5. CASE j = 0 /\ i # 0
    <3>1. i - 1 \in 0 .. n /\ 0 \in 0 .. m /\ i - 1 < i /\ i + p > 0 /\ (i - 1) + p = i + p - 1
      BY <1>1, <2>5
    <3>2. D[Edit!At(p, i + p - 1)] = i - 1
      <4>1. 0 + (i - 1) < j + i /\ 0 + p = p  BY <1>1, <2>5, <3>1
      <4>2. D[Edit!At(0 + p, (i - 1) + p)] = F[Edit!At(0, i - 1)]  BY <2>1, <3>1, <4>1
      <4>3. F[Edit!At(0, i - 1)] = i - 1  BY <1>2, <3>1
      <4> QED BY <3>1, <4>1, <4>2, <4>3
    <3>3. D[Edit!At(p, i + p)] <= i
      BY <2>3, <2>5, <3>1, <3>2 DEF Smooth
    <3>4. D[Edit!At(p, i + p)] >= i  BY <2>3, <2>5 DEF Smooth
    <3>5. D[Edit!At(p, i + p)] = i  BY <2>2, <2>3, <2>5, <3>3, <3>4
    <3> QED BY <1>2, <1>7, <2>5, <3>5
  <2>6. CASE j # 0 /\ i = 0
    <3>1. j - 1 \in 0 .. m /\ 0 \in 0 .. n /\ j - 1 < j /\ j + p > 0 /\ (j - 1) + p = j + p - 1
      BY <1>1, <2>6
    <3>2. D[Edit!At(j + p - 1, p)] = j - 1
      <4>1. (j - 1) + 0 < j + i /\ 0 + p = p  BY <1>1, <2>6, <3>1
      <4>2. D[Edit!At((j - 1) + p, 0 + p)] = F[Edit!At(j - 1, 0)]  BY <2>1, <3>1, <4>1
      <4>3. F[Edit!At(j - 1, 0)] = j - 1  BY <1>2, <3>1
      <4> QED BY <3>1, <4>1, <4>2, <4>3
    <3>3. D[Edit!At(j + p, p)] <= j
      BY <2>3, <2>6, <3>1, <3>2 DEF Smooth
    <3>4. D[Edit!At(j + p, p)] >= j  BY <2>3, <2>6 DEF Smooth
    <3>5. D[Edit!At(j + p, p)] = j  BY <2>2, <2>3, <2>6, <3>3, <3>4
    <3> QED BY <1>2, <1>7, <2>6, <3>5
  <2>7. CASE j # 0 /\ i # 0
    <3> DEFINE up == F[Edit!At(j - 1, i)]
               left == F[Edit!At(j, i - 1)]
               diagonal == F[Edit!At(j - 1, i - 1)]
               x == D[Edit!At(j + p - 2, i + p - 2)]
               y == F[Edit!At(j - 2, i - 2)]
    <3>1. /\ j \in 1 .. m /\ i \in 1 .. n /\ j - 1 \in 0 .. m /\ i - 1 \in 0 .. n
          /\ j + p \in 1 .. Len(t) /\ i + p \in 1 .. Len(s)
          /\ j - 1 + i < j + i /\ j + (i - 1) < j + i /\ (j - 1) + (i - 1) < j + i
          /\ (j - 1) + p = j + p - 1 /\ (i - 1) + p = i + p - 1
      BY <1>1, <2>7
    <3>2. up \in Int /\ left \in Int /\ diagonal \in Int  BY <1>2, <3>1
    <3>3. BestWay(F[Edit!At(j, i)], a, b, j, i, up, left, diagonal, y)  BY <1>2, <3>1
    <3>4. /\ D[Edit!At(j + p - 1, i + p)] = up
          /\ D[Edit!At(j + p, i + p - 1)] = left
          /\ D[Edit!At(j + p - 1, i + p - 1)] = diagonal
      BY <2>1, <3>1
    <3>5. BestWay(D[Edit!At(j + p, i + p)], s, t, j + p, i + p, up, left, diagonal, x)
      BY <1>3, <3>1, <3>4
    <3>6. a[i] = s[i + p] /\ b[j] = t[j + p]  BY <1>5, <3>1
    <3>7. ASSUME j >= 2, i >= 2
          PROVE  /\ x = y /\ y \in Int
                 /\ Crossed(s, t, j + p, i + p) <=> Crossed(a, b, j, i)
      <4>1. /\ j - 2 \in 0 .. m /\ i - 2 \in 0 .. n /\ (j - 2) + (i - 2) < j + i
            /\ (j - 2) + p = j + p - 2 /\ (i - 2) + p = i + p - 2
            /\ j + p >= 2 /\ i + p >= 2
        BY <1>1, <3>7
      <4>2. x = y /\ y \in Int  BY <1>2, <2>1, <4>1
      <4>3. a[i - 1] = s[i + p - 1] /\ b[j - 1] = t[j + p - 1]
        <5>1. i - 1 \in 1 .. n /\ j - 1 \in 1 .. m  BY <1>1, <3>7
        <5> QED BY <1>5, <3>1, <5>1
      <4> QED BY <3>6, <3>7, <4>1, <4>2, <4>3 DEF Crossed
    <3>8. ASSUME ~(j >= 2 /\ i >= 2), Crossed(s, t, j + p, i + p)
          PROVE  x \in Int /\ x >= diagonal
      <4>0. j + p >= 2 /\ i + p >= 2  BY <3>8 DEF Crossed
      <4>1. j + p - 2 \in 0 .. Len(t) /\ i + p - 2 \in 0 .. Len(s)
        BY <1>1, <2>2, <4>0
      <4>2. x \in Int /\ x >= j + p - 2 - (i + p - 2) /\ x >= i + p - 2 - (j + p - 2)
        <5>1. x \in Int /\ Smooth(D, j + p - 2, i + p - 2)  BY <1>3, <1>4, <4>1
        <5> QED BY <5>1 DEF Smooth
      <4>3. x >= j - i /\ x >= i - j  BY <2>2, <4>2
      <4>4. CASE j = 1
        <5>1. diagonal = i - 1  BY <1>2, <3>1, <4>4
        <5> QED BY <2>2, <4>2, <4>3, <4>4, <5>1
      <4>5. CASE i = 1
        <5>1. diagonal = j - 1  BY <1>2, <3>1, <4>5
        <5> QED BY <2>2, <4>2, <4>3, <4>5, <5>1
      <4> QED BY <2>2, <2>7, <3>1, <3>8, <4>4, <4>5
    <3> HIDE DEF up, left, diagonal, x, y
    <3>9. Crossed(a, b, j, i) => j >= 2 /\ i >= 2  BY DEF Crossed
    <3>10. Crossed(s, t, j + p, i + p) =>
             x \in Int /\ (x >= diagonal \/ (Crossed(a, b, j, i) /\ x = y))
      BY <3>7, <3>8
    <3>11. Crossed(a, b, j, i) =>
             y \in Int /\ (y >= diagonal \/ (Crossed(s, t, j + p, i + p) /\ x = y))
      BY <3>7, <3>9
    <3>12. D[Edit!At(j + p, i + p)] = F[Edit!At(j, i)]
      <4>1. PICK J, I : J = j + p /\ I = i + p  OBVIOUS
      <4>2. s[I] = t[J] <=> a[i] = b[j]  BY <3>6, <4>1
      <4>3. BestWay(D[Edit!At(J, I)], s, t, J, I, up, left, diagonal, x)  BY <3>5, <4>1
      <4>4. /\ Crossed(s, t, J, I) =>
                 x \in Int /\ (x >= diagonal \/ (Crossed(a, b, j, i) /\ x = y))
            /\ Crossed(a, b, j, i) =>
                 y \in Int /\ (y >= diagonal \/ (Crossed(s, t, J, I) /\ x = y))
        BY <3>10, <3>11, <4>1
      <4>5. D[Edit!At(J, I)] = F[Edit!At(j, i)]
        BY <3>2, <3>3, <4>2, <4>3, <4>4, BestWaysAlike
      <4> QED BY <4>1, <4>5
    <3> QED BY <1>7, <3>12
  <2> QED BY <2>4, <2>5, <2>6, <2>7
<1>9. \A j \in 0 .. m, i \in 0 .. n : Edit!At(j, i) \in S  BY <1>1, <1>8, CellInduction
<1> QED BY <1>7, <1>9 DEF n, m

\* The last letters, if they are the same, change nothing.
LEMMA SuffixFree ==
    ASSUME NEW C, NEW s \in Seq(C), NEW t \in Seq(C), NEW q \in Nat, EndAlike(s, t, q),
           NEW D, Table(D, s, t)
    PROVE  D[Edit!At(Len(t), Len(s))] = D[Edit!At(Len(t) - q, Len(s) - q)]
<1> DEFINE n == Len(s)
           m == Len(t)
           Bad == {k \in 0 .. q : D[Edit!At(m - k, n - k)] # D[Edit!At(m, n)]}
<1>1. n \in Nat /\ m \in Nat  BY LenProperties
<1>2. \A j \in 0 .. m, i \in 0 .. n : D[Edit!At(j, i)] \in Int  BY CellIs
<1>3. \A j \in 1 .. m, i \in 1 .. n :
           BestWay(D[Edit!At(j, i)], s, t, j, i, D[Edit!At(j - 1, i)], D[Edit!At(j, i - 1)],
                    D[Edit!At(j - 1, i - 1)], D[Edit!At(j - 2, i - 2)])
  BY CellIs
<1>4. \A j \in 0 .. m, i \in 0 .. n : Smooth(D, j, i)  BY TableSmooth
<1>5. q <= n /\ q <= m /\ \A k \in 0 .. q - 1 : s[n - k] = t[m - k]  BY DEF EndAlike
<1> HIDE DEF n, m
<1>6. CASE Bad = {}
  <2>1. q \in 0 .. q  OBVIOUS
  <2>2. q \notin Bad  BY <1>6
  <2>3. D[Edit!At(m - q, n - q)] = D[Edit!At(m, n)]  BY <2>1, <2>2
  <2> QED BY <2>3 DEF n, m
<1>7. CASE Bad # {}
  <2>1. Bad \in SUBSET (0 .. q)  OBVIOUS
  <2>2. PICK k \in Bad : \A y \in Bad : k <= y
    <3> HIDE DEF Bad
    <3> QED BY <1>7, <2>1, LeastPosition
  <2>3. k \in 0 .. q /\ D[Edit!At(m - k, n - k)] # D[Edit!At(m, n)]  BY <2>2
  <2>4. k # 0  BY <1>1, <2>3
  <2>5. k \in 1 .. q /\ k - 1 \in 0 .. q /\ k - 1 \in 0 .. q - 1 /\ ~(k <= k - 1)  BY <2>3, <2>4
  <2>6. D[Edit!At(m - (k - 1), n - (k - 1))] = D[Edit!At(m, n)]  BY <2>2, <2>5
  <2> DEFINE j == m - (k - 1)
             i == n - (k - 1)
  <2>7. /\ j \in 1 .. m /\ i \in 1 .. n /\ j \in 0 .. m /\ i \in 0 .. n
        /\ j - 1 \in 0 .. m /\ i - 1 \in 0 .. n /\ j - 1 = m - k /\ i - 1 = n - k
        /\ j > 0 /\ i > 0
    BY <1>1, <1>5, <2>5
  <2>8. s[i] = t[j]  BY <1>5, <2>5
  <2> HIDE DEF i, j
  <2>9. BestWay(D[Edit!At(j, i)], s, t, j, i, D[Edit!At(j - 1, i)], D[Edit!At(j, i - 1)],
                 D[Edit!At(j - 1, i - 1)], D[Edit!At(j - 2, i - 2)]) /\ Smooth(D, j, i)
    BY <1>3, <1>4, <2>7
  <2>10. D[Edit!At(j, i)] \in Int /\ D[Edit!At(j - 1, i - 1)] \in Int  BY <1>2, <2>7
  <2>11. D[Edit!At(j, i)] = D[Edit!At(j - 1, i - 1)]
    <3>1. D[Edit!At(j, i)] <= D[Edit!At(j - 1, i - 1)]  BY <2>8, <2>9 DEF BestWay
    <3>2. D[Edit!At(j - 1, i - 1)] <= D[Edit!At(j, i)]  BY <2>7, <2>9 DEF Smooth
    <3> QED BY <2>10, <3>1, <3>2
  <2> QED BY <2>3, <2>6, <2>7, <2>11 DEF i, j
<1> QED BY <1>6, <1>7

\* The matrix of two strings is that of the two the other way round, turned.
LEMMA BestWayTurned ==
    ASSUME NEW v, NEW s, NEW t, NEW j \in Int, NEW i \in Int, NEW up, NEW left, NEW diagonal, NEW x,
           BestWay(v, s, t, j, i, up, left, diagonal, x)
    PROVE  BestWay(v, t, s, i, j, left, up, diagonal, x)
<1>1. Crossed(s, t, j, i) <=> Crossed(t, s, i, j)  BY DEF Crossed
<1>2. s[i] = t[j] <=> t[j] = s[i]  OBVIOUS
<1> QED BY <1>1, <1>2 DEF BestWay

LEMMA TableTurned ==
    ASSUME NEW C, NEW s \in Seq(C), NEW t \in Seq(C),
           NEW D, Table(D, s, t), NEW F, Table(F, t, s)
    PROVE  \A j \in 0 .. Len(t), i \in 0 .. Len(s) : D[Edit!At(j, i)] = F[Edit!At(i, j)]
<1> DEFINE n == Len(s)
           m == Len(t)
           S == {c \in Edit!Cells(n, m) : D[c] = F[Edit!At(c[2], c[1])]}
<1>1. n \in Nat /\ m \in Nat  BY LenProperties
<1>2. /\ \A j \in 0 .. m, i \in 0 .. n : D[Edit!At(j, i)] \in Int
      /\ \A i \in 0 .. n : D[Edit!At(0, i)] = i
      /\ \A j \in 0 .. m : D[Edit!At(j, 0)] = j
      /\ \A j \in 1 .. m, i \in 1 .. n :
           BestWay(D[Edit!At(j, i)], s, t, j, i, D[Edit!At(j - 1, i)], D[Edit!At(j, i - 1)],
                    D[Edit!At(j - 1, i - 1)], D[Edit!At(j - 2, i - 2)])
  BY CellIs
<1>3. /\ \A j \in 0 .. n, i \in 0 .. m : F[Edit!At(j, i)] \in Int
      /\ \A i \in 0 .. m : F[Edit!At(0, i)] = i
      /\ \A j \in 0 .. n : F[Edit!At(j, 0)] = j
      /\ \A j \in 1 .. n, i \in 1 .. m :
           BestWay(F[Edit!At(j, i)], t, s, j, i, F[Edit!At(j - 1, i)], F[Edit!At(j, i - 1)],
                    F[Edit!At(j - 1, i - 1)], F[Edit!At(j - 2, i - 2)])
  BY CellIs
<1> HIDE DEF n, m
<1>4. \A j \in 0 .. m, i \in 0 .. n :
        Edit!At(j, i) \in S <=> D[Edit!At(j, i)] = F[Edit!At(i, j)]
  BY AtIs
<1> HIDE DEF S
<1>5. ASSUME NEW j \in 0 .. m, NEW i \in 0 .. n,
             \A k \in 0 .. m, l \in 0 .. n : k + l < j + i => Edit!At(k, l) \in S
      PROVE  Edit!At(j, i) \in S
  <2>1. \A k \in 0 .. m, l \in 0 .. n : k + l < j + i => D[Edit!At(k, l)] = F[Edit!At(l, k)]
    BY <1>4, <1>5
  <2>2. CASE j = 0  BY <1>2, <1>3, <1>4, <2>2
  <2>3. CASE i = 0  BY <1>2, <1>3, <1>4, <2>3
  <2>4. CASE j # 0 /\ i # 0
    <3> DEFINE up == D[Edit!At(j - 1, i)]
               left == D[Edit!At(j, i - 1)]
               diagonal == D[Edit!At(j - 1, i - 1)]
               x == D[Edit!At(j - 2, i - 2)]
               y == F[Edit!At(i - 2, j - 2)]
    <3>1. /\ j \in 1 .. m /\ i \in 1 .. n /\ j - 1 \in 0 .. m /\ i - 1 \in 0 .. n
          /\ j \in Int /\ i \in Int
          /\ j - 1 + i < j + i /\ j + (i - 1) < j + i /\ (j - 1) + (i - 1) < j + i
      BY <1>1, <2>4
    <3>2. up \in Int /\ left \in Int /\ diagonal \in Int  BY <1>2, <3>1
    <3>3. BestWay(D[Edit!At(j, i)], s, t, j, i, up, left, diagonal, x)  BY <1>2, <3>1
    <3>4. BestWay(F[Edit!At(i, j)], t, s, i, j, left, up, diagonal, y)
      <4>1. /\ F[Edit!At(i, j - 1)] = up /\ F[Edit!At(i - 1, j)] = left
            /\ F[Edit!At(i - 1, j - 1)] = diagonal
        BY <2>1, <3>1
      <4>2. BestWay(F[Edit!At(i, j)], t, s, i, j, F[Edit!At(i - 1, j)], F[Edit!At(i, j - 1)],
                     F[Edit!At(i - 1, j - 1)], F[Edit!At(i - 2, j - 2)])
        BY <1>3, <3>1
      <4> QED BY <4>1, <4>2
    <3>5. j >= 2 /\ i >= 2 => x = y /\ x \in Int
      <4>1. j >= 2 /\ i >= 2 => j - 2 \in 0 .. m /\ i - 2 \in 0 .. n /\ (j - 2) + (i - 2) < j + i
        BY <1>1
      <4> QED BY <1>2, <2>1, <4>1
    <3> HIDE DEF up, left, diagonal, x, y
    <3>6. BestWay(F[Edit!At(i, j)], s, t, j, i, up, left, diagonal, y)
      BY <3>1, <3>4, BestWayTurned
    <3>7. Crossed(s, t, j, i) => x \in Int /\ y \in Int /\ x = y  BY <3>5 DEF Crossed
    <3>8. D[Edit!At(j, i)] = F[Edit!At(i, j)]  BY <3>2, <3>3, <3>6, <3>7, BestWaysAlike
    <3> QED BY <1>4, <3>8
  <2> QED BY <2>2, <2>3, <2>4
<1>6. \A j \in 0 .. m, i \in 0 .. n : Edit!At(j, i) \in S  BY <1>1, <1>5, CellInduction
<1> QED BY <1>4, <1>6 DEF n, m

LEMMA CommonPrefixIs ==
    ASSUME NEW C, NEW s \in Seq(C), NEW t \in Seq(C)
    PROVE  /\ Edit!CommonPrefix(s, t) \in 0 .. Len(s) /\ Edit!CommonPrefix(s, t) <= Len(t)
           /\ \A k \in 1 .. Edit!CommonPrefix(s, t) : s[k] = t[k]
<1> DEFINE Is(n) == /\ n <= Len(t) /\ SubSeq(s, 1, n) = SubSeq(t, 1, n)
                    /\ n < Len(s) /\ n < Len(t) => s[n + 1] # t[n + 1]
           Ends == {n \in 0 .. Len(s) : ~(n < Len(s) /\ n < Len(t) /\ s[n + 1] = t[n + 1])}
<1>1. Len(s) \in Nat /\ Len(t) \in Nat  BY LenProperties
<1>2. PICK n \in 0 .. Len(s) : Is(n)
  <2>1. Len(s) \in Ends /\ Ends \in SUBSET (0 .. Len(s))  BY <1>1
  <2>2. PICK n \in Ends : \A y \in Ends : n <= y
    <3> HIDE DEF Ends
    <3> QED BY <1>1, <2>1, LeastPosition
  <2>3. n \in 0 .. Len(s) /\ ~(n < Len(s) /\ n < Len(t) /\ s[n + 1] = t[n + 1])  BY <2>2
  <2>4. ASSUME NEW k \in 1 .. n PROVE k <= Len(t) /\ k <= Len(s) /\ s[k] = t[k]
    <3>1. k - 1 \in 0 .. Len(s) /\ ~(n <= k - 1) /\ (k - 1) + 1 = k  BY <1>1, <2>3
    <3>2. k - 1 \notin Ends  BY <2>2, <3>1
    <3> QED BY <1>1, <3>1, <3>2
  <2>5. n <= Len(t)
    <3>1. CASE n = 0  BY <1>1, <3>1
    <3>2. CASE n # 0
      <4>1. n \in 1 .. n  BY <2>3, <3>2
      <4> QED BY <2>4, <4>1
    <3> QED BY <3>1, <3>2
  <2>6. SubSeq(s, 1, n) = SubSeq(t, 1, n)
    <3>1. SubSeq(s, 1, n) = [i \in 1 .. n |-> s[i]]
      BY <1>1, <2>3
    <3>2. SubSeq(t, 1, n) = [i \in 1 .. n |-> t[i]]
      BY <1>1, <2>3, <2>5
    <3> QED BY <2>4, <3>1, <3>2
  <2> QED BY <2>3, <2>5, <2>6
<1> DEFINE p == CHOOSE k \in 0 .. Len(s) : Is(k)
<1>3. p \in 0 .. Len(s) /\ Is(p)
  <2> HIDE DEF Is
  <2> QED BY <1>2
<1>4. Edit!CommonPrefix(s, t) = p  BY DEF Edit!CommonPrefix
<1>5. \A k \in 1 .. p : s[k] = t[k]
  <2> HIDE DEF p
  <2> SUFFICES ASSUME NEW k \in 1 .. p PROVE s[k] = t[k]  OBVIOUS
  <2>1. p \in Nat /\ p <= Len(s) /\ p <= Len(t) /\ SubSeq(s, 1, p) = SubSeq(t, 1, p)
    BY <1>1, <1>3
  <2>2. SubSeq(s, 1, p)[k] = s[k] /\ SubSeq(t, 1, p)[k] = t[k]
    BY <1>1, <2>1, SubSeqProperties
  <2> QED BY <2>1, <2>2
<1>6. p \in 0 .. Len(s) /\ p <= Len(t)  BY <1>3
<1> HIDE DEF p
<1> QED BY <1>4, <1>5, <1>6

\* What is left of a string without its first letters, or without its last ones.
LEMMA DropIs ==
    ASSUME NEW C, NEW s \in Seq(C), NEW p \in 0 .. Len(s)
    PROVE  /\ Edit!Drop(s, p) \in Seq(C) /\ Len(Edit!Drop(s, p)) = Len(s) - p
           /\ Window(Edit!Drop(s, p), s, p)
<1> DEFINE d == SubSeq(s, p + 1, Len(s))
<1>1. Len(s) \in Nat /\ p + 1 \in Int /\ p \in Int  BY LenProperties
<1>2. \A i \in p + 1 .. Len(s) : s[i] \in C  BY <1>1
<1>3. /\ d \in Seq(C) /\ Len(d) = IF p + 1 <= Len(s) THEN Len(s) - (p + 1) + 1 ELSE 0
      /\ \A i \in 1 .. Len(s) - (p + 1) + 1 : d[i] = s[(p + 1) + i - 1]
  BY <1>1, <1>2, SubSeqProperties
<1> HIDE DEF d
<1>4. Len(d) = Len(s) - p  BY <1>1, <1>3
<1>5. \A i \in 1 .. Len(d) : d[i] = s[i + p]
  <2> SUFFICES ASSUME NEW i \in 1 .. Len(d) PROVE d[i] = s[i + p]  OBVIOUS
  <2>1. i \in 1 .. Len(s) - (p + 1) + 1 /\ (p + 1) + i - 1 = i + p  BY <1>1, <1>4
  <2> QED BY <1>3, <2>1
<1>6. Len(d) + p <= Len(s)  BY <1>1, <1>4
<1> QED BY <1>3, <1>4, <1>5, <1>6 DEF Window, Edit!Drop, d

LEMMA ChopIs ==
    ASSUME NEW C, NEW s \in Seq(C), NEW q \in 0 .. Len(s)
    PROVE  /\ Edit!Chop(s, q) \in Seq(C) /\ Len(Edit!Chop(s, q)) = Len(s) - q
           /\ Window(Edit!Chop(s, q), s, 0)
<1> DEFINE n == Len(s) - q
           d == SubSeq(s, 1, n)
<1>1. Len(s) \in Nat /\ n \in Nat /\ n <= Len(s)  BY LenProperties
<1> HIDE DEF n
<1>2. \A i \in 1 .. n : s[i] \in C  BY <1>1
<1>3. /\ d \in Seq(C) /\ Len(d) = IF 1 <= n THEN n - 1 + 1 ELSE 0
      /\ \A i \in 1 .. n - 1 + 1 : d[i] = s[1 + i - 1]
  BY <1>1, <1>2, SubSeqProperties
<1> HIDE DEF d
<1>4. Len(d) = n  BY <1>1, <1>3
<1>5. \A i \in 1 .. Len(d) : d[i] = s[i + 0]
  <2> SUFFICES ASSUME NEW i \in 1 .. Len(d) PROVE d[i] = s[i + 0]  OBVIOUS
  <2>1. i \in 1 .. n - 1 + 1 /\ 1 + i - 1 = i /\ i + 0 = i  BY <1>1, <1>4
  <2> QED BY <1>3, <2>1
<1>6. Len(d) + 0 <= Len(s)  BY <1>1, <1>4
<1> QED BY <1>3, <1>4, <1>5, <1>6 DEF Window, Edit!Chop, d, n

\* The common prefix of two strings from behind is their common end.
LEMMA CommonEnd ==
    ASSUME NEW C, NEW s \in Seq(C), NEW t \in Seq(C), NEW q,
           q = Edit!CommonPrefix(Edit!Reverse(s), Edit!Reverse(t))
    PROVE  /\ q \in 0 .. Len(s) /\ q <= Len(t)
           /\ \A k \in 0 .. q - 1 : s[Len(s) - k] = t[Len(t) - k]
<1> DEFINE r == Edit!Reverse(s)
           u == Edit!Reverse(t)
<1>1. Len(s) \in Nat /\ Len(t) \in Nat  BY LenProperties
<1>2. \A w \in Seq(C) : /\ Edit!Reverse(w) \in Seq(C) /\ Len(Edit!Reverse(w)) = Len(w)
                        /\ \A i \in 1 .. Len(w) : Edit!Reverse(w)[i] = w[Len(w) - i + 1]
  <2> SUFFICES ASSUME NEW w \in Seq(C)
               PROVE  /\ Edit!Reverse(w) \in Seq(C) /\ Len(Edit!Reverse(w)) = Len(w)
                      /\ \A i \in 1 .. Len(w) : Edit!Reverse(w)[i] = w[Len(w) - i + 1]
    OBVIOUS
  <2>1. Edit!Reverse(w) = [i \in 1 .. Len(w) |-> w[Len(w) - i + 1]]  BY DEF Edit!Reverse
  <2>2. Len(w) \in Nat  BY LenProperties
  <2>3. \A i \in 1 .. Len(w) : w[Len(w) - i + 1] \in C
    <3> SUFFICES ASSUME NEW i \in 1 .. Len(w) PROVE w[Len(w) - i + 1] \in C  OBVIOUS
    <3>1. Len(w) - i + 1 \in 1 .. Len(w)  BY <2>2
    <3> QED BY <3>1
  <2>4. Edit!Reverse(w) \in [1 .. Len(w) -> C]  BY <2>1, <2>3
  <2>5. Edit!Reverse(w) \in Seq(C) /\ Len(Edit!Reverse(w)) = Len(w)  BY <2>2, <2>4, SeqDef, LenProperties
  <2> QED BY <2>1, <2>5
<1>3. /\ r \in Seq(C) /\ Len(r) = Len(s) /\ \A i \in 1 .. Len(s) : r[i] = s[Len(s) - i + 1]
      /\ u \in Seq(C) /\ Len(u) = Len(t) /\ \A i \in 1 .. Len(t) : u[i] = t[Len(t) - i + 1]
  BY <1>2
<1> HIDE DEF r, u
<1>4. q = Edit!CommonPrefix(r, u)  BY DEF r, u
<1>5. q \in 0 .. Len(s) /\ q <= Len(t) /\ \A k \in 1 .. q : r[k] = u[k]
  BY <1>3, <1>4, CommonPrefixIs
<1>6. ASSUME NEW k \in 0 .. q - 1 PROVE s[Len(s) - k] = t[Len(t) - k]
  <2>1. /\ k + 1 \in 1 .. q /\ k + 1 \in 1 .. Len(s) /\ k + 1 \in 1 .. Len(t)
        /\ Len(s) - (k + 1) + 1 = Len(s) - k /\ Len(t) - (k + 1) + 1 = Len(t) - k
    BY <1>1, <1>5
  <2>2. r[k + 1] = s[Len(s) - k] /\ u[k + 1] = t[Len(t) - k]  BY <1>3, <2>1
  <2> QED BY <1>5, <2>1, <2>2
<1> QED BY <1>5, <1>6

\* It does not matter which string is the shorter one.
LEMMA EditsTurned ==
    ASSUME NEW C, NEW s \in Seq(C), NEW t \in Seq(C)
    PROVE  Edit!Edits(s, t) = Edit!Edits(t, s)
<1>1. PICK D : Table(D, s, t) /\ Edit!Edits(s, t) = D[Edit!At(Len(t), Len(s))]  BY EditsIsLast
<1>2. PICK F : Table(F, t, s) /\ Edit!Edits(t, s) = F[Edit!At(Len(s), Len(t))]  BY EditsIsLast
<1>3. Len(t) \in 0 .. Len(t) /\ Len(s) \in 0 .. Len(s)  BY LenProperties
<1>4. \A j \in 0 .. Len(t), i \in 0 .. Len(s) : D[Edit!At(j, i)] = F[Edit!At(i, j)]
  BY <1>1, <1>2, TableTurned
<1>5. D[Edit!At(Len(t), Len(s))] = F[Edit!At(Len(s), Len(t))]  BY <1>3, <1>4
<1> QED BY <1>1, <1>2, <1>5

\* s1 and t1 are s and t without their first p letters, s2 and t2 are those without
\* their last q ones.
Stripped(s, t, s1, t1, s2, t2, p, q) ==
    /\ p \in Nat /\ q \in Nat
    /\ Shorter(s1, t1, s, t, p) /\ Len(s1) + p = Len(s) /\ Len(t1) + p = Len(t)
    /\ Window(s2, s1, 0) /\ Window(t2, t1, 0) /\ EndAlike(s1, t1, q)
    /\ Len(s2) = Len(s1) - q /\ Len(t2) = Len(t1) - q

\* Without their common beginning and their common end two strings are as far apart.
LEMMA EditsStripped ==
    ASSUME NEW C, NEW s \in Seq(C), NEW t \in Seq(C),
           NEW s1 \in Seq(C), NEW t1 \in Seq(C), NEW s2 \in Seq(C), NEW t2 \in Seq(C),
           NEW p, NEW q, Stripped(s, t, s1, t1, s2, t2, p, q)
    PROVE  Edit!Edits(s, t) = Edit!Edits(s2, t2)
<1>1. PICK D : Table(D, s, t) /\ Edit!Edits(s, t) = D[Edit!At(Len(t), Len(s))]  BY EditsIsLast
<1>2. PICK F : Table(F, s1, t1)  BY TableExists
<1>3. PICK G : Table(G, s2, t2) /\ Edit!Edits(s2, t2) = G[Edit!At(Len(t2), Len(s2))]
  BY EditsIsLast
<1>4. /\ Len(s) \in Nat /\ Len(t) \in Nat /\ Len(s1) \in Nat /\ Len(t1) \in Nat
      /\ Len(s2) \in Nat /\ Len(t2) \in Nat /\ p \in Nat /\ q \in Nat
  BY LenProperties DEF Stripped
<1>5. D[Edit!At(Len(t), Len(s))] = F[Edit!At(Len(t1), Len(s1))]
  <2>1. Shorter(s1, t1, s, t, p)  BY DEF Stripped
  <2>2. Table(D, s, t)  BY <1>1
  <2>3. \A j \in 0 .. Len(t1), i \in 0 .. Len(s1) : D[Edit!At(j + p, i + p)] = F[Edit!At(j, i)]
    BY <1>2, <1>4, <2>1, <2>2, PrefixFree
  <2>4. Len(t1) \in 0 .. Len(t1) /\ Len(s1) \in 0 .. Len(s1)  BY <1>4
  <2>5. D[Edit!At(Len(t1) + p, Len(s1) + p)] = F[Edit!At(Len(t1), Len(s1))]  BY <2>3, <2>4
  <2> QED BY <2>5 DEF Stripped
<1>6. F[Edit!At(Len(t1), Len(s1))] = F[Edit!At(Len(t1) - q, Len(s1) - q)]
  <2>1. EndAlike(s1, t1, q)  BY DEF Stripped
  <2> QED BY <1>2, <1>4, <2>1, SuffixFree
<1>7. F[Edit!At(Len(t2), Len(s2))] = G[Edit!At(Len(t2), Len(s2))]
  <2>1. PICK z \in Nat : z = 0  OBVIOUS
  <2>2. Shorter(s2, t2, s1, t1, z)
    <3>1. \A k \in 1 .. z : s1[k] = t1[k]  BY <2>1
    <3> QED BY <2>1, <3>1 DEF Shorter, Stripped
  <2>3. Table(G, s2, t2)  BY <1>3
  <2>4. \A j \in 0 .. Len(t2), i \in 0 .. Len(s2) : F[Edit!At(j + z, i + z)] = G[Edit!At(j, i)]
    BY <1>2, <2>2, <2>3, PrefixFree
  <2>5. Len(t2) \in 0 .. Len(t2) /\ Len(s2) \in 0 .. Len(s2)  BY <1>4
  <2>6. F[Edit!At(Len(t2) + z, Len(s2) + z)] = G[Edit!At(Len(t2), Len(s2))]  BY <2>4, <2>5
  <2>7. Len(t2) + z = Len(t2) /\ Len(s2) + z = Len(s2)  BY <1>4, <2>1
  <2> QED BY <2>6, <2>7
<1>8. Len(t2) = Len(t1) - q /\ Len(s2) = Len(s1) - q  BY DEF Stripped
<1> QED BY <1>1, <1>3, <1>5, <1>6, <1>7, <1>8

\* The matrix filled for the shorter string, or what is returned before.
Between(a, b, limit) ==
    IF a = <<>> THEN Len(b)
    ELSE IF Len(b) - Len(a) >= limit THEN Len(b) - Len(a)
    ELSE Edit!Fill(a, b, limit)

\* What is measured is the two strings without what they share at their ends.
Measured(s, t, a, b) ==
    /\ Len(a) <= Len(b) /\ Edit!Edits(s, t) = Edit!Edits(a, b)
    /\ \A limit : Edit!CalEditDistance(s, t, limit) = Between(a, b, limit)

LEMMA CalIs ==
    ASSUME NEW C, NEW s \in Seq(C), NEW t \in Seq(C)
    PROVE  \E a \in Seq(C), b \in Seq(C) : Measured(s, t, a, b)
<1> DEFINE p == Edit!CommonPrefix(s, t)
<1>1. p \in 0 .. Len(s) /\ p <= Len(t) /\ \A k \in 1 .. p : s[k] = t[k]  BY CommonPrefixIs
<1> HIDE DEF p
<1>2. Len(s) \in Nat /\ Len(t) \in Nat /\ p \in Nat /\ p \in 0 .. Len(t)  BY <1>1, LenProperties
<1> DEFINE s1 == Edit!Drop(s, p)
           t1 == Edit!Drop(t, p)
<1>3. s1 \in Seq(C) /\ Len(s1) = Len(s) - p /\ Window(s1, s, p)  BY <1>1, DropIs
<1>4. t1 \in Seq(C) /\ Len(t1) = Len(t) - p /\ Window(t1, t, p)  BY <1>2, DropIs
<1> HIDE DEF s1, t1
<1> DEFINE q == Edit!CommonPrefix(Edit!Reverse(s1), Edit!Reverse(t1))
<1>5. /\ q \in 0 .. Len(s1) /\ q <= Len(t1)
      /\ \A k \in 0 .. q - 1 : s1[Len(s1) - k] = t1[Len(t1) - k]
  BY <1>3, <1>4, CommonEnd
<1> HIDE DEF q
<1>6. Len(s1) \in Nat /\ Len(t1) \in Nat /\ q \in Nat /\ q \in 0 .. Len(t1) /\ q <= Len(s1)
  BY <1>3, <1>4, <1>5, LenProperties
<1> DEFINE s2 == Edit!Chop(s1, q)
           t2 == Edit!Chop(t1, q)
<1>7. s2 \in Seq(C) /\ Len(s2) = Len(s1) - q /\ Window(s2, s1, 0)  BY <1>3, <1>5, ChopIs
<1>8. t2 \in Seq(C) /\ Len(t2) = Len(t1) - q /\ Window(t2, t1, 0)  BY <1>4, <1>6, ChopIs
<1> HIDE DEF s2, t2
<1>9. Edit!Edits(s, t) = Edit!Edits(s2, t2)
  <2>1. Len(s1) + p = Len(s) /\ Len(t1) + p = Len(t)  BY <1>2, <1>3, <1>4
  <2>2. Shorter(s1, t1, s, t, p) /\ EndAlike(s1, t1, q)
    BY <1>1, <1>3, <1>4, <1>5, <1>6 DEF Shorter, EndAlike
  <2>3. Stripped(s, t, s1, t1, s2, t2, p, q)  BY <1>2, <1>6, <1>7, <1>8, <2>1, <2>2 DEF Stripped
  <2>4. s1 \in Seq(C) /\ t1 \in Seq(C)  BY <1>3, <1>4
  <2>5. s2 \in Seq(C) /\ t2 \in Seq(C)  BY <1>7, <1>8
  <2> QED BY <2>3, <2>4, <2>5, EditsStripped
<1> DEFINE a == IF Len(t2) < Len(s2) THEN t2 ELSE s2
           b == IF Len(t2) < Len(s2) THEN s2 ELSE t2
<1>10. \A limit : Edit!CalEditDistance(s, t, limit) = Between(a, b, limit)
  BY Zenon DEF Edit!CalEditDistance, Between, s2, t2, q, s1, t1, p
<1>11. a \in Seq(C) /\ b \in Seq(C) /\ Len(a) <= Len(b)
  <2>1. Len(s2) \in Nat /\ Len(t2) \in Nat  BY <1>7, <1>8, LenProperties
  <2> QED BY <1>7, <1>8, <2>1
<1>12. Edit!Edits(s, t) = Edit!Edits(a, b)
  <2>1. Edit!Edits(s2, t2) = Edit!Edits(t2, s2)  BY <1>7, <1>8, EditsTurned
  <2> QED BY <1>9, <2>1
<1> HIDE DEF a, b
<1>13. Measured(s, t, a, b)  BY <1>10, <1>11, <1>12 DEF Measured
<1> QED BY <1>11, <1>13

\* What holds at 0 and at a number if at the one before it, holds up to n.
LEMMA UptoInduction ==
    ASSUME NEW n \in Nat, NEW S, 0 \in S, \A k \in 1 .. n : k - 1 \in S => k \in S
    PROVE  \A k \in 0 .. n : k \in S
<1> DEFINE Bad == {k \in 0 .. n : k \notin S}
<1> SUFFICES ASSUME Bad # {} PROVE FALSE  OBVIOUS
<1>1. Bad \in SUBSET (0 .. n)  OBVIOUS
<1>2. PICK k \in Bad : \A y \in Bad : k <= y
  <2> HIDE DEF Bad
  <2> QED BY <1>1, LeastPosition
<1>3. k \in 0 .. n /\ k \notin S  BY <1>2
<1>4. k \in 1 .. n /\ k - 1 \in 0 .. n /\ ~(k <= k - 1)  BY <1>3
<1>5. k - 1 \notin Bad  BY <1>2, <1>4
<1> QED BY <1>3, <1>4, <1>5

\* A function that is defined step by step, from each value to the next.
Steps(F, first, n, step) ==
    F = [k \in 0 .. n |-> IF k = 0 THEN first ELSE step[k][F[k - 1]]]

LEMMA StepsExist ==
    ASSUME NEW V, NEW first \in V, NEW n, n \in Nat, NEW step \in [1 .. n -> [V -> V]]
    PROVE  \E F \in [0 .. n -> V] : Steps(F, first, n, step)
<1> DEFINE Upto(F, h) == /\ F \in [0 .. n -> V] /\ F[0] = first
                         /\ \A k \in 1 .. n : k <= h => F[k] = step[k][F[k - 1]]
           S == {h \in 0 .. n : \E F : Upto(F, h)}
<1>1. 0 \in S
  <2>1. [k \in 0 .. n |-> first] \in [0 .. n -> V]  OBVIOUS
  <2>2. 0 \in 0 .. n /\ \A k \in 1 .. n : ~(k <= 0)  OBVIOUS
  <2>3. Upto([k \in 0 .. n |-> first], 0)  BY <2>1, <2>2
  <2> QED BY <2>2, <2>3
<1>2. ASSUME NEW h \in 1 .. n, h - 1 \in S PROVE h \in S
  <2>1. PICK F : Upto(F, h - 1)  BY <1>2
  <2> DEFINE g == [k \in 0 .. n |-> IF k = h THEN step[h][F[h - 1]] ELSE F[k]]
  <2>2. h - 1 \in 0 .. n /\ h \in 0 .. n /\ 0 \in 0 .. n /\ h # 0  OBVIOUS
  <2>3. F[h - 1] \in V  BY <2>1, <2>2
  <2>4. step[h][F[h - 1]] \in V  BY <2>3
  <2>5. g \in [0 .. n -> V] /\ g[0] = first  BY <2>1, <2>2, <2>4
  <2>6. ASSUME NEW k \in 1 .. n, k <= h PROVE g[k] = step[k][g[k - 1]]
    <3>1. k \in 0 .. n /\ k - 1 \in 0 .. n /\ k - 1 # h  BY <2>6
    <3>2. g[k - 1] = F[k - 1]  BY <3>1
    <3>3. CASE k = h
      <4>1. g[k] = step[h][F[h - 1]]  BY <3>1, <3>3
      <4> QED BY <3>2, <3>3, <4>1
    <3>4. CASE k # h
      <4>1. g[k] = F[k] /\ k <= h - 1  BY <2>6, <3>1, <3>4
      <4> QED BY <2>1, <3>2, <4>1
    <3> QED BY <3>3, <3>4
  <2>7. Upto(g, h)  BY <2>5, <2>6
  <2> QED BY <2>2, <2>7
<1>3. n \in S
  <2> HIDE DEF S
  <2>1. n \in 0 .. n  OBVIOUS
  <2> QED BY <1>1, <1>2, <2>1, UptoInduction
<1>4. PICK F : Upto(F, n)  BY <1>3
<1>5. \A k \in 0 .. n : F[k] = IF k = 0 THEN first ELSE step[k][F[k - 1]]
  <2> SUFFICES ASSUME NEW k \in 0 .. n, k # 0 PROVE F[k] = step[k][F[k - 1]]
    BY <1>4
  <2>1. k \in 1 .. n /\ k <= n  OBVIOUS
  <2> QED BY <1>4, <2>1
<1>6. F \in [0 .. n -> V]  BY <1>4
<1>7. F = [k \in 0 .. n |-> IF k = 0 THEN first ELSE step[k][F[k - 1]]]  BY <1>5, <1>6
<1> QED BY <1>6, <1>7 DEF Steps

\* The matrices of two strings, and what is known of one: that in these cells it holds
\* the distances.
Matrices(s, t) == [Edit!Cells(Len(s), Len(t)) -> Int]
Holds(d, D, s, t, K) == d \in Matrices(s, t) /\ \A c \in K : d[c] = D[c]

\* The cells that one is calculated from.
Reads(j, i) ==
    {Edit!At(j - 1, i), Edit!At(j, i - 1), Edit!At(j - 1, i - 1)}
        \cup (IF j >= 2 /\ i >= 2 THEN {Edit!At(j - 2, i - 2)} ELSE {})

\* Put changes one cell.
LEMMA PutTyped ==
    ASSUME NEW s, NEW t, Len(s) \in Nat, Len(t) \in Nat,
           NEW j \in 1 .. Len(t), NEW i \in 1 .. Len(s), NEW d \in Matrices(s, t)
    PROVE  /\ Edit!Put(d, s, t, j, i) \in Matrices(s, t)
           /\ \A c \in Edit!Cells(Len(s), Len(t)) :
                 c # Edit!At(j, i) => Edit!Put(d, s, t, j, i)[c] = d[c]
<1> DEFINE v == Edit!Cheapest(d, s, t, j, i)
           transposed == /\ i >= 2 /\ j >= 2
                         /\ v - d[Edit!At(j - 2, i - 2)] = 2
                         /\ s[i - 1] = t[j] /\ s[i] = t[j - 1]
           w == IF transposed THEN v - 1 ELSE v
<1>1. v \in Int
  <2>1. j - 1 \in 0 .. Len(t) /\ i - 1 \in 0 .. Len(s) /\ j \in 0 .. Len(t) /\ i \in 0 .. Len(s)
    OBVIOUS
  <2>2. /\ d[Edit!At(j - 1, i)] \in Int /\ d[Edit!At(j, i - 1)] \in Int
        /\ d[Edit!At(j - 1, i - 1)] \in Int
    BY <2>1, AtIs DEF Matrices
  <2> DEFINE cost == IF s[i] = t[j] THEN 0 ELSE 1
             up == d[Edit!At(j - 1, i)]
             left == d[Edit!At(j, i - 1)]
             diagonal == d[Edit!At(j - 1, i - 1)]
  <2>3. v = Edit!Least(up + 1, left + 1, diagonal + cost)  BY DEF Edit!Cheapest
  <2>4. cost \in Int /\ up \in Int /\ left \in Int /\ diagonal \in Int  BY <2>2
  <2> HIDE DEF cost, v, up, left, diagonal
  <2>5. up + 1 \in Int /\ left + 1 \in Int /\ diagonal + cost \in Int  BY <2>4
  <2> QED BY <2>3, <2>5, LeastIs
<1>2. w \in Int
  <2> HIDE DEF v, transposed
  <2> QED BY <1>1
<1>3. Edit!Put(d, s, t, j, i) = [d EXCEPT ![Edit!At(j, i)] = w]  BY DEF Edit!Put
<1> HIDE DEF w
<1> QED BY <1>2, <1>3 DEF Matrices

\* If what it reads is right, so is what it writes.
LEMMA PutIs ==
    ASSUME NEW C, NEW s \in Seq(C), NEW t \in Seq(C), NEW D, Table(D, s, t),
           NEW j \in 1 .. Len(t), NEW i \in 1 .. Len(s),
           NEW d \in Matrices(s, t), \A c \in Reads(j, i) : d[c] = D[c]
    PROVE  Edit!Put(d, s, t, j, i)[Edit!At(j, i)] = D[Edit!At(j, i)]
<1>1. Len(s) \in Nat /\ Len(t) \in Nat  BY LenProperties
<1> DEFINE up == D[Edit!At(j - 1, i)]
           left == D[Edit!At(j, i - 1)]
           diagonal == D[Edit!At(j - 1, i - 1)]
           cross == D[Edit!At(j - 2, i - 2)]
           v == Edit!Cheapest(d, s, t, j, i)
           transposed == /\ i >= 2 /\ j >= 2
                         /\ v - d[Edit!At(j - 2, i - 2)] = 2
                         /\ s[i - 1] = t[j] /\ s[i] = t[j - 1]
           w == IF transposed THEN v - 1 ELSE v
<1>2. /\ j - 1 \in 0 .. Len(t) /\ i - 1 \in 0 .. Len(s) /\ j \in 0 .. Len(t) /\ i \in 0 .. Len(s)
      /\ j # 0 /\ i # 0
  BY <1>1
<1>3. up \in Int /\ left \in Int /\ diagonal \in Int  BY <1>2, CellIs
<1>4. /\ d[Edit!At(j - 1, i)] = up /\ d[Edit!At(j, i - 1)] = left
      /\ d[Edit!At(j - 1, i - 1)] = diagonal
      /\ j >= 2 /\ i >= 2 => d[Edit!At(j - 2, i - 2)] = cross
  BY DEF Reads
<1>5. ASSUME j >= 2, i >= 2 PROVE cross \in Int /\ diagonal <= cross + 1
  <2>1. /\ j - 2 \in 0 .. Len(t) /\ i - 2 \in 0 .. Len(s) /\ j - 1 > 0 /\ i - 1 > 0
        /\ (j - 1) - 1 = j - 2 /\ (i - 1) - 1 = i - 2
    BY <1>1, <1>5
  <2>2. cross \in Int  BY <2>1, CellIs
  <2>3. Smooth(D, j - 1, i - 1)  BY <1>2, TableSmooth
  <2> QED BY <2>1, <2>2, <2>3 DEF Smooth
<1> DEFINE least == Edit!Least(up + 1, left + 1, diagonal + (IF s[i] = t[j] THEN 0 ELSE 1))
<1>6. v = least  BY <1>4, Zenon DEF Edit!Cheapest
<1>7. D[Edit!At(j, i)] = IF i >= 2 /\ j >= 2 /\ s[i] = t[j - 1] /\ s[i - 1] = t[j] /\ cross + 1 < v
                        THEN cross + 1 ELSE v
  <2>1. D[Edit!At(j, i)] = Edit!EditsAt(D, s, t, j, i)  BY <1>2 DEF Table
  <2>2. Edit!EditsAt(D, s, t, j, i)
          = IF i >= 2 /\ j >= 2 /\ s[i] = t[j - 1] /\ s[i - 1] = t[j] /\ cross + 1 < least
            THEN cross + 1 ELSE least
    BY <1>2, Zenon DEF Edit!EditsAt
  <2> HIDE DEF v, least, cross
  <2> QED BY <1>6, <2>1, <2>2
<1>8. v \in Int /\ v <= diagonal + 1
  <2> DEFINE cost == IF s[i] = t[j] THEN 0 ELSE 1
  <2>1. least = Edit!Least(up + 1, left + 1, diagonal + cost)  OBVIOUS
  <2>2. cost \in {0, 1}  OBVIOUS
  <2> HIDE DEF v, least, up, left, diagonal, cost
  <2>3. up + 1 \in Int /\ left + 1 \in Int /\ diagonal + cost \in Int /\ diagonal + cost <= diagonal + 1
    BY <1>3, <2>2
  <2>4. least \in Int /\ least <= diagonal + cost  BY <2>1, <2>3, LeastIs
  <2> QED BY <1>3, <1>6, <2>3, <2>4
<1>9. Edit!Put(d, s, t, j, i)[Edit!At(j, i)] = w
  <2>1. Edit!Put(d, s, t, j, i) = [d EXCEPT ![Edit!At(j, i)] = w]  BY DEF Edit!Put
  <2>2. Edit!At(j, i) \in Edit!Cells(Len(s), Len(t))  BY <1>2, AtIs
  <2> HIDE DEF w
  <2> QED BY <2>1, <2>2 DEF Matrices
<1>10. w = D[Edit!At(j, i)]
  <2> HIDE DEF v, up, left, diagonal, cross
  <2>1. CASE j >= 2 /\ i >= 2 /\ s[i] = t[j - 1] /\ s[i - 1] = t[j]
    <3>1. cross \in Int /\ v <= cross + 2  BY <1>3, <1>5, <1>8, <2>1
    <3>2. transposed <=> v - cross = 2  BY <1>4, <2>1
    <3> HIDE DEF transposed
    <3>3. CASE v - cross = 2
      <4>1. w = v - 1  BY <3>2, <3>3
      <4>2. D[Edit!At(j, i)] = cross + 1  BY <1>7, <1>8, <2>1, <3>1, <3>3
      <4> QED BY <1>8, <3>1, <3>3, <4>1, <4>2
    <3>4. CASE v - cross # 2
      <4>1. w = v  BY <3>2, <3>4
      <4>2. ~(cross + 1 < v)  BY <1>8, <3>1, <3>4
      <4>3. D[Edit!At(j, i)] = v  BY <1>7, <4>2
      <4> QED BY <4>1, <4>3
    <3> QED BY <3>3, <3>4
  <2>2. CASE ~(j >= 2 /\ i >= 2 /\ s[i] = t[j - 1] /\ s[i - 1] = t[j])
    <3>1. w = v  BY <2>2
    <3>2. D[Edit!At(j, i)] = v  BY <1>7, <2>2
    <3> QED BY <3>1, <3>2
  <2> QED BY <2>1, <2>2
<1> QED BY <1>9, <1>10

\* The cells inside the borders.
Inner(s, t) == (1 .. Len(t)) \X (1 .. Len(s))

LEMMA InnerIs ==
    \A s, t : \A c \in Inner(s, t) :
        c[1] \in 1 .. Len(t) /\ c[2] \in 1 .. Len(s) /\ c = Edit!At(c[1], c[2])
BY DEF Inner, Edit!At

\* What is written is a run of Put, cell by cell.
LEMMA WrittenBy ==
    ASSUME NEW s, NEW t, Len(s) \in Nat, Len(t) \in Nat,
           NEW cells \in Seq(Inner(s, t)), NEW d \in Matrices(s, t)
    PROVE  \E F \in [0 .. Len(cells) -> Matrices(s, t)] :
              /\ F[0] = d /\ Edit!Written(d, s, t, cells) = F[Len(cells)]
              /\ \A k \in 1 .. Len(cells) :
                    F[k] = Edit!Put(F[k - 1], s, t, cells[k][1], cells[k][2])
<1> DEFINE n == Len(cells)
           V == Matrices(s, t)
           step == [k \in 1 .. n |-> [e \in V |-> Edit!Put(e, s, t, cells[k][1], cells[k][2])]]
           Run(F) == F = [k \in 0 .. n |->
                            IF k = 0 THEN d ELSE Edit!Put(F[k - 1], s, t, cells[k][1], cells[k][2])]
           run == CHOOSE F : Run(F)
<1>1. n \in Nat /\ n \in 0 .. n  BY LenProperties
<1>2. \A k \in 1 .. n : cells[k][1] \in 1 .. Len(t) /\ cells[k][2] \in 1 .. Len(s)
  <2> SUFFICES ASSUME NEW k \in 1 .. n
               PROVE  cells[k][1] \in 1 .. Len(t) /\ cells[k][2] \in 1 .. Len(s)
    OBVIOUS
  <2>1. cells[k] \in Inner(s, t)  BY <1>1
  <2> QED BY <2>1 DEF Inner
<1>3. \A k \in 1 .. n, e \in V : Edit!Put(e, s, t, cells[k][1], cells[k][2]) \in V
  BY <1>2, PutTyped
<1>4. step \in [1 .. n -> [V -> V]]  BY <1>3
<1>5. \A k \in 1 .. n, e \in V : step[k][e] = Edit!Put(e, s, t, cells[k][1], cells[k][2])  OBVIOUS
<1>6. PICK F \in [0 .. n -> V] : F = [k \in 0 .. n |-> IF k = 0 THEN d ELSE step[k][F[k - 1]]]
  <2> HIDE DEF step, V, n
  <2>1. d \in V  BY DEF V
  <2>2. PICK F \in [0 .. n -> V] : Steps(F, d, n, step)  BY <1>1, <1>4, <2>1, StepsExist
  <2> QED BY <2>2 DEF Steps
<1> HIDE DEF step
<1>7. \A k \in 0 .. n : k # 0 => k \in 1 .. n /\ F[k - 1] \in V
  <2> SUFFICES ASSUME NEW k \in 0 .. n, k # 0 PROVE k \in 1 .. n /\ F[k - 1] \in V  OBVIOUS
  <2>1. k \in 1 .. n /\ k - 1 \in 0 .. n  BY <1>1
  <2> QED BY <1>6, <2>1
<1>8. Run(F)
  <2>1. \A k \in 0 .. n : (IF k = 0 THEN d ELSE step[k][F[k - 1]])
             = IF k = 0 THEN d ELSE Edit!Put(F[k - 1], s, t, cells[k][1], cells[k][2])
    BY <1>5, <1>7
  <2> HIDE DEF n
  <2> QED BY <1>6, <2>1
<1>9. Run(run)
  <2> HIDE DEF Run
  <2> QED BY <1>8
<1>10. Edit!Written(d, s, t, cells) = run[n]  BY DEF Edit!Written
<1> HIDE DEF run
<1>11. run[0] = d /\ \A k \in 1 .. n :
             run[k] = Edit!Put(run[k - 1], s, t, cells[k][1], cells[k][2])
  <2> DEFINE b(k) == IF k = 0 THEN d ELSE Edit!Put(run[k - 1], s, t, cells[k][1], cells[k][2])
  <2>1. run = [k \in 0 .. n |-> b(k)]  BY <1>9
  <2>2. b(0) = d /\ \A k \in 1 .. n : k \in 0 .. n /\ k # 0  BY <1>1
  <2>3. \A k \in 1 .. n : b(k) = Edit!Put(run[k - 1], s, t, cells[k][1], cells[k][2])  OBVIOUS
  <2> HIDE DEF b
  <2>4. \A k \in 0 .. n : run[k] = b(k)  BY <2>1
  <2>5. 0 \in 0 .. n  BY <1>1
  <2> QED BY <2>2, <2>3, <2>4, <2>5
<1>12. run \in [0 .. n -> V]
  <2> DEFINE S == {k \in 0 .. n : run[k] \in V}
  <2>1. 0 \in S  BY <1>1, <1>11
  <2>2. ASSUME NEW k \in 1 .. n, k - 1 \in S PROVE k \in S
    <3>1. run[k] = Edit!Put(run[k - 1], s, t, cells[k][1], cells[k][2]) /\ run[k - 1] \in V
      BY <1>11, <2>2
    <3>2. run[k] \in V  BY <1>3, <3>1
    <3> QED BY <3>2
  <2>3. \A k \in 0 .. n : k \in S
    <3> HIDE DEF S
    <3> QED BY <1>1, <2>1, <2>2, UptoInduction
  <2>4. \A k \in 0 .. n : run[k] \in V  BY <2>3
  <2>5. run = [k \in 0 .. n |-> run[k]]
    <3> DEFINE b(k) == IF k = 0 THEN d ELSE Edit!Put(run[k - 1], s, t, cells[k][1], cells[k][2])
    <3>1. run = [k \in 0 .. n |-> b(k)]  BY <1>9
    <3> HIDE DEF b
    <3> QED BY <3>1
  <2> QED BY <2>4, <2>5
<1> QED BY <1>10, <1>11, <1>12

\* What is known when k cells have been written, and that each cell reads nothing else.
Known(cells, K, k) == K \cup {cells[l] : l \in 1 .. k}
Ready(cells, K) ==
    \A k \in 1 .. Len(cells) : Reads(cells[k][1], cells[k][2]) \subseteq Known(cells, K, k - 1)

\* If each cell reads what is known or written before it, all that is written is right.
LEMMA WrittenHolds ==
    ASSUME NEW C, NEW s \in Seq(C), NEW t \in Seq(C), NEW D, Table(D, s, t),
           NEW cells \in Seq(Inner(s, t)), NEW d, NEW K \in SUBSET Edit!Cells(Len(s), Len(t)),
           Holds(d, D, s, t, K), Ready(cells, K)
    PROVE  Holds(Edit!Written(d, s, t, cells), D, s, t, Known(cells, K, Len(cells)))
<1> DEFINE n == Len(cells)
<1>1. /\ n \in Nat /\ n \in 0 .. n /\ Len(s) \in Nat /\ Len(t) \in Nat
      /\ d \in Matrices(s, t) /\ \A c \in K : d[c] = D[c]
  BY LenProperties DEF Holds
<1>2. PICK F \in [0 .. n -> Matrices(s, t)] :
          /\ F[0] = d /\ Edit!Written(d, s, t, cells) = F[n]
          /\ \A k \in 1 .. n : F[k] = Edit!Put(F[k - 1], s, t, cells[k][1], cells[k][2])
  BY <1>1, WrittenBy
<1> DEFINE S == {k \in 0 .. n : \A c \in Known(cells, K, k) : F[k][c] = D[c]}
<1>3. 0 \in S
  <2>1. Known(cells, K, 0) = K  BY DEF Known
  <2>2. 0 \in 0 .. n  BY <1>1
  <2> QED BY <1>1, <1>2, <2>1, <2>2
<1>4. ASSUME NEW k \in 1 .. n, k - 1 \in S PROVE k \in S
  <2>1. k \in 0 .. n /\ k - 1 \in 0 .. n /\ k \in Int  BY <1>1
  <2>2. F[k - 1] \in Matrices(s, t) /\ \A c \in Known(cells, K, k - 1) : F[k - 1][c] = D[c]
    BY <1>2, <1>4, <2>1
  <2>3. PICK j \in 1 .. Len(t), i \in 1 .. Len(s) :
           cells[k][1] = j /\ cells[k][2] = i /\ cells[k] = Edit!At(j, i)
    <3>1. cells[k] \in Inner(s, t)  BY <1>1
    <3>2. /\ cells[k][1] \in 1 .. Len(t) /\ cells[k][2] \in 1 .. Len(s)
          /\ cells[k] = Edit!At(cells[k][1], cells[k][2])
      BY <3>1, InnerIs
    <3> QED BY <3>2
  <2>4. F[k] = Edit!Put(F[k - 1], s, t, j, i)  BY <1>2, <2>3
  <2>5. Reads(j, i) \subseteq Known(cells, K, k - 1)  BY <2>3 DEF Ready
  <2>6. F[k][Edit!At(j, i)] = D[Edit!At(j, i)]
    <3>1. PICK e \in Matrices(s, t) : e = F[k - 1]  BY <2>2
    <3>2. \A c \in Reads(j, i) : e[c] = D[c]  BY <2>2, <2>5, <3>1
    <3>3. Edit!Put(e, s, t, j, i)[Edit!At(j, i)] = D[Edit!At(j, i)]  BY <3>2, PutIs
    <3> QED BY <2>4, <3>1, <3>3
  <2>7. \A c \in Edit!Cells(Len(s), Len(t)) : c # Edit!At(j, i) => F[k][c] = F[k - 1][c]
    BY <1>1, <2>2, <2>4, PutTyped
  <2>8. \A c \in Known(cells, K, k) : c = Edit!At(j, i) \/ c \in Known(cells, K, k - 1)
    <3>1. \A l \in 1 .. k : l = k \/ l \in 1 .. k - 1  BY <2>1
    <3> QED BY <2>3, <3>1 DEF Known
  <2>9. \A c \in Known(cells, K, k - 1) : c \in Edit!Cells(Len(s), Len(t))
    <3>1. \A l \in 1 .. k - 1 : cells[l] \in Inner(s, t)
      <4> SUFFICES ASSUME NEW l \in 1 .. k - 1 PROVE cells[l] \in Inner(s, t)  OBVIOUS
      <4>1. l \in 1 .. Len(cells)  BY <1>1, <2>1
      <4> QED BY <4>1
    <3>2. Inner(s, t) \subseteq Edit!Cells(Len(s), Len(t))  BY <1>1 DEF Inner, Edit!Cells
    <3> QED BY <3>1, <3>2 DEF Known
  <2>10. \A c \in Known(cells, K, k) : F[k][c] = D[c]  BY <2>2, <2>6, <2>7, <2>8, <2>9
  <2> QED BY <2>1, <2>10
<1>5. n \in S
  <2> HIDE DEF S, n
  <2>1. \A k \in 0 .. n : k \in S  BY <1>1, <1>3, <1>4, UptoInduction
  <2> QED BY <1>1, <2>1
<1> QED BY <1>1, <1>2, <1>5 DEF Holds

\* A round goes down its column to above the corner and then along the corner's row.
Goes(r, s, t, diff, i, a) ==
    /\ r \in Seq(Inner(s, t)) /\ Len(r) = a + i
    /\ \A k \in 1 .. a : r[k] = Edit!At(k, i)
    /\ \A k \in diff + i .. a + i : r[k] = Edit!At(diff + i, k - a)

LEMMA RoundIs ==
    ASSUME NEW s, NEW t, Len(s) \in Nat, NEW diff, diff \in Nat, Len(t) = Len(s) + diff,
           NEW i, i \in 1 .. Len(s)
    PROVE  Goes(Edit!Round(i, diff), s, t, diff, i, diff + i - 1)
<1> DEFINE a == diff + i - 1
           col == [k \in 1 .. a |-> Edit!At(k, i)]
           row == [k \in 1 .. i |-> Edit!At(diff + i, k)]
<1>1. a \in Nat /\ i \in Nat /\ a = diff + i - 1  OBVIOUS
<1>2. Edit!Round(i, diff) = col \o row  BY DEF Edit!Round
<1>3. \A k \in 1 .. a : Edit!At(k, i) \in Inner(s, t)  BY DEF Inner, Edit!At
<1>4. \A k \in 1 .. i : Edit!At(diff + i, k) \in Inner(s, t)  BY DEF Inner, Edit!At
<1> HIDE DEF a
<1>5. /\ col \in Seq(Inner(s, t)) /\ Len(col) = a /\ DOMAIN col = 1 .. a
      /\ \A k \in 1 .. a : col[k] = Edit!At(k, i)
  <2>1. col \in [1 .. a -> Inner(s, t)]  BY <1>3
  <2>2. col \in Seq(Inner(s, t))  BY <1>1, <2>1, SeqDef
  <2>3. DOMAIN col = 1 .. a  OBVIOUS
  <2>4. Len(col) = a  BY <1>1, <2>2, <2>3, LenProperties
  <2> QED BY <2>2, <2>3, <2>4
<1>6. /\ row \in Seq(Inner(s, t)) /\ Len(row) = i
      /\ \A k \in 1 .. i : row[k] = Edit!At(diff + i, k)
  <2>1. row \in [1 .. i -> Inner(s, t)]  BY <1>4
  <2>2. row \in Seq(Inner(s, t))  BY <1>1, <2>1, SeqDef
  <2>3. DOMAIN row = 1 .. i  OBVIOUS
  <2>4. Len(row) = i  BY <1>1, <2>2, <2>3, LenProperties
  <2> QED BY <2>2, <2>4
<1> HIDE DEF col, row
<1> DEFINE r == col \o row
<1>7. /\ r \in Seq(Inner(s, t)) /\ Len(r) = a + i
      /\ \A k \in 1 .. a + i : r[k] = IF k <= a THEN col[k] ELSE row[k - a]
  BY <1>5, <1>6, ConcatProperties
<1> HIDE DEF r
<1>8. ASSUME NEW k \in 1 .. a PROVE r[k] = Edit!At(k, i)
  <2>1. k \in 1 .. a + i /\ k <= a  BY <1>1
  <2>2. r[k] = col[k]  BY <1>7, <2>1
  <2> QED BY <1>5, <2>2
<1>9. ASSUME NEW k \in diff + i .. a + i PROVE r[k] = Edit!At(diff + i, k - a)
  <2>1. k \in 1 .. a + i /\ ~(k <= a) /\ k - a \in 1 .. i  BY <1>1
  <2>2. r[k] = row[k - a]  BY <1>7, <2>1
  <2> QED BY <1>6, <2>1, <2>2
<1>10. Goes(r, s, t, diff, i, a)  BY <1>7, <1>8, <1>9 DEF Goes
<1> QED BY <1>2, <1>10 DEF r, a

\* What is known after round i: the borders, and the rectangle above its corner.
Block(s, t, diff, i) ==
    {c \in Edit!Cells(Len(s), Len(t)) : c[1] = 0 \/ c[2] = 0 \/ (c[1] <= diff + i /\ c[2] <= i)}

LEMMA RoundHolds ==
    ASSUME NEW C, NEW s \in Seq(C), NEW t \in Seq(C), NEW D, Table(D, s, t),
           NEW diff, diff \in Nat, Len(t) = Len(s) + diff,
           NEW i, i \in 1 .. Len(s), NEW d, Holds(d, D, s, t, Block(s, t, diff, i - 1))
    PROVE  Holds(Edit!Written(d, s, t, Edit!Round(i, diff)), D, s, t, Block(s, t, diff, i))
<1> DEFINE n == Len(s)
           m == Len(t)
           r == Edit!Round(i, diff)
           K == Block(s, t, diff, i - 1)
           a == diff + i - 1
<1>1. n \in Nat /\ m \in Nat /\ a \in Nat /\ i \in Nat /\ m = n + diff /\ a = diff + i - 1 /\ i \in 1 .. n
  BY LenProperties
<1>2. /\ r \in Seq(Inner(s, t)) /\ Len(r) = a + i
      /\ \A k \in 1 .. a : r[k] = Edit!At(k, i)
      /\ \A k \in diff + i .. a + i : r[k] = Edit!At(diff + i, k - a)
  <2>1. Goes(r, s, t, diff, i, a)  BY <1>1, RoundIs
  <2> HIDE DEF r, a
  <2> QED BY <2>1 DEF Goes
<1>3. \A j \in 0 .. m, l \in 0 .. n :
        Edit!At(j, l) \in K <=> j = 0 \/ l = 0 \/ (j <= a /\ l <= i - 1)
  BY <1>1, AtIs DEF Block
<1>4. \A j \in 0 .. m, l \in 0 .. n :
        Edit!At(j, l) \in Block(s, t, diff, i) <=> j = 0 \/ l = 0 \/ (j <= diff + i /\ l <= i)
  BY <1>1, AtIs DEF Block
<1>5. K \in SUBSET Edit!Cells(n, m)  BY DEF Block
<1>6. Block(s, t, diff, i) \subseteq Edit!Cells(n, m)  BY DEF Block
<1> HIDE DEF n, m, r, K, a
<1>7. ASSUME NEW k \in 1 .. Len(r)
      PROVE  Reads(r[k][1], r[k][2]) \subseteq Known(r, K, k - 1)
  <2> DEFINE Earlier == K \cup {r[l] : l \in 1 .. k - 1}
  <2>0. Earlier = Known(r, K, k - 1)  BY DEF Known
  <2>1. k \in Int /\ (k \in 1 .. a \/ k \in diff + i .. a + i)  BY <1>1, <1>2
  <2>2. CASE k \in 1 .. a
    <3>1. r[k][1] = k /\ r[k][2] = i  BY <1>2, <2>2, AtIs
    <3>2. Edit!At(k - 1, i) \in Earlier
      <4>1. CASE k = 1
        <5>1. Edit!At(0, i) \in K  BY <1>1, <1>3
        <5> QED BY <4>1, <5>1
      <4>2. CASE k # 1
        <5>1. k - 1 \in 1 .. k - 1 /\ k - 1 \in 1 .. a  BY <1>1, <2>1, <2>2, <4>2
        <5>2. r[k - 1] = Edit!At(k - 1, i)  BY <1>2, <5>1
        <5> QED BY <5>1, <5>2
      <4> QED BY <4>1, <4>2
    <3>3. Edit!At(k, i - 1) \in K /\ Edit!At(k - 1, i - 1) \in K
      <4>1. /\ k \in 0 .. m /\ i - 1 \in 0 .. n /\ k - 1 \in 0 .. m
            /\ k <= a /\ k - 1 <= a /\ i - 1 <= i - 1
        BY <1>1, <2>2
      <4> QED BY <1>3, <4>1
    <3>4. k >= 2 /\ i >= 2 => Edit!At(k - 2, i - 2) \in K
      <4>1. k >= 2 /\ i >= 2 => /\ k - 2 \in 0 .. m /\ i - 2 \in 0 .. n
                                /\ k - 2 <= a /\ i - 2 <= i - 1
        BY <1>1, <2>2
      <4> QED BY <1>3, <4>1
    <3>5. Reads(k, i) \subseteq Earlier  BY <3>2, <3>3, <3>4 DEF Reads
    <3> HIDE DEF Earlier
    <3>6. Reads(r[k][1], r[k][2]) \subseteq Earlier  BY <3>1, <3>5
    <3> QED BY <2>0, <3>6
  <2>3. CASE k \in diff + i .. a + i
    <3> DEFINE l == k - a
               j == diff + i
    <3>1. r[k][1] = j /\ r[k][2] = l  BY <1>2, <2>3, AtIs
    <3>2. l \in 1 .. i /\ j = a + 1 /\ j \in 1 .. m /\ k = a + l /\ l \in Int /\ j \in Int
      BY <1>1, <2>3
    <3> HIDE DEF l, j
    <3>3. Edit!At(j - 1, l) \in Earlier
      <4>1. CASE l = i /\ a # 0
        <5>1. a \in 1 .. a /\ a \in 1 .. k - 1 /\ j - 1 = a  BY <1>1, <3>2, <4>1
        <5>2. r[a] = Edit!At(a, i)  BY <1>2, <5>1
        <5> QED BY <4>1, <5>1, <5>2
      <4>2. CASE l # i \/ a = 0
        <5>1. /\ j - 1 \in 0 .. m /\ l \in 0 .. n
              /\ j - 1 = 0 \/ (j - 1 <= a /\ l <= i - 1)
          BY <1>1, <3>2, <4>2
        <5>2. Edit!At(j - 1, l) \in K  BY <1>3, <5>1
        <5> QED BY <5>2
      <4> QED BY <4>1, <4>2
    <3>4. Edit!At(j, l - 1) \in Earlier
      <4>1. CASE l = 1
        <5>1. j \in 0 .. m /\ 0 \in 0 .. n /\ l - 1 = 0  BY <1>1, <3>2, <4>1
        <5>2. Edit!At(j, 0) \in K  BY <1>3, <5>1
        <5> QED BY <5>1, <5>2
      <4>2. CASE l # 1
        <5>1. k - 1 \in 1 .. k - 1 /\ k - 1 \in diff + i .. a + i /\ (k - 1) - a = l - 1
          BY <1>1, <2>3, <3>2, <4>2 DEF j
        <5>2. r[k - 1] = Edit!At(diff + i, (k - 1) - a)  BY <1>2, <5>1
        <5>3. r[k - 1] = Edit!At(j, l - 1)  BY <5>1, <5>2 DEF j
        <5> QED BY <5>1, <5>3
      <4> QED BY <4>1, <4>2
    <3>5. Edit!At(j - 1, l - 1) \in K
      <4>1. j - 1 \in 0 .. m /\ l - 1 \in 0 .. n /\ j - 1 <= a /\ l - 1 <= i - 1
        BY <1>1, <3>2
      <4> QED BY <1>3, <4>1
    <3>6. j >= 2 /\ l >= 2 => Edit!At(j - 2, l - 2) \in K
      <4>1. j >= 2 /\ l >= 2 => /\ j - 2 \in 0 .. m /\ l - 2 \in 0 .. n
                                /\ j - 2 <= a /\ l - 2 <= i - 1
        BY <1>1, <3>2
      <4> QED BY <1>3, <4>1
    <3>7. Reads(j, l) \subseteq Earlier  BY <3>3, <3>4, <3>5, <3>6 DEF Reads
    <3> HIDE DEF Earlier
    <3>8. Reads(r[k][1], r[k][2]) \subseteq Earlier  BY <3>1, <3>7
    <3> QED BY <2>0, <3>8
  <2> HIDE DEF Earlier
  <2> QED BY <2>0, <2>1, <2>2, <2>3
<1> DEFINE All == K \cup {r[l] : l \in 1 .. Len(r)}
<1>8. Holds(Edit!Written(d, s, t, r), D, s, t, All)
  <2>1. Holds(d, D, s, t, K)  BY DEF K
  <2>2. K \in SUBSET Edit!Cells(Len(s), Len(t))  BY <1>5 DEF n, m
  <2>3. Ready(r, K)  BY <1>7 DEF Ready
  <2>4. r \in Seq(Inner(s, t))  BY <1>2
  <2>5. Holds(Edit!Written(d, s, t, r), D, s, t, Known(r, K, Len(r)))
    BY <2>1, <2>2, <2>3, <2>4, WrittenHolds
  <2> QED BY <2>5 DEF Known
<1>9. ASSUME NEW c \in Block(s, t, diff, i) PROVE c \in All
  <2>1. PICK j \in 0 .. m, l \in 0 .. n : c = Edit!At(j, l)  BY <1>6, AtIs
  <2>2. j = 0 \/ l = 0 \/ (j <= diff + i /\ l <= i)  BY <1>4, <2>1
  <2>3. CASE j = 0 \/ l = 0 \/ (j <= a /\ l <= i - 1)
    <3>1. c \in K  BY <1>3, <2>1, <2>3
    <3> QED BY <3>1
  <2>4. CASE j \in 1 .. a /\ l = i
    <3>1. j \in 1 .. Len(r)  BY <1>1, <1>2, <2>4
    <3>2. c = r[j]  BY <1>2, <2>1, <2>4
    <3> QED BY <3>1, <3>2
  <2>5. CASE j = diff + i /\ l \in 1 .. i
    <3>1. a + l \in 1 .. Len(r) /\ a + l \in diff + i .. a + i /\ (a + l) - a = l
      BY <1>1, <1>2, <2>5
    <3>2. r[a + l] = Edit!At(diff + i, (a + l) - a)  BY <1>2, <3>1
    <3>3. c = r[a + l]  BY <2>1, <2>5, <3>1, <3>2
    <3> QED BY <3>1, <3>3
  <2>6. \/ j = 0 \/ l = 0 \/ (j <= a /\ l <= i - 1)
        \/ j \in 1 .. a /\ l = i
        \/ j = diff + i /\ l \in 1 .. i
    BY <1>1, <2>2
  <2> QED BY <2>3, <2>4, <2>5, <2>6
<1> HIDE DEF All
<1>10. Holds(Edit!Written(d, s, t, r), D, s, t, Block(s, t, diff, i))
  BY <1>8, <1>9 DEF Holds
<1> QED BY <1>10 DEF r

\* The borders are right before the first round.
LEMMA BordersHold ==
    ASSUME NEW C, NEW s \in Seq(C), NEW t \in Seq(C), NEW D, Table(D, s, t), NEW diff
    PROVE  Holds(Edit!Borders(Len(s), Len(t)), D, s, t, Block(s, t, diff, 0))
<1> DEFINE n == Len(s)
           m == Len(t)
           d == Edit!Borders(n, m)
<1>1. n \in Nat /\ m \in Nat  BY LenProperties
<1>2. /\ \A i \in 0 .. n : D[Edit!At(0, i)] = i
      /\ \A j \in 0 .. m : D[Edit!At(j, 0)] = j
  BY CellIs
<1> HIDE DEF n, m
<1>3. \A c \in Edit!Cells(n, m) : c[1] \in 0 .. m /\ c[2] \in 0 .. n /\ c = Edit!At(c[1], c[2])
  BY AtIs
<1>4. Edit!Stale \in Int  BY DEF Edit!Stale
<1> DEFINE b(c) == IF c[1] = 0 THEN c[2] ELSE IF c[2] = 0 THEN c[1] ELSE Edit!Stale
<1>5. d = [c \in Edit!Cells(n, m) |-> b(c)]  BY DEF Edit!Borders
<1>6. \A c \in Edit!Cells(n, m) : b(c) \in Int  BY <1>1, <1>3, <1>4
<1>7. \A c \in Edit!Cells(n, m) : c[1] = 0 \/ c[2] = 0 => b(c) = D[c]
  <2> SUFFICES ASSUME NEW c \in Edit!Cells(n, m), c[1] = 0 \/ c[2] = 0 PROVE b(c) = D[c]
    OBVIOUS
  <2>1. c[1] \in 0 .. m /\ c[2] \in 0 .. n /\ c = Edit!At(c[1], c[2])  BY <1>3
  <2>2. CASE c[1] = 0
    <3>1. D[c] = c[2]  BY <1>2, <2>1, <2>2
    <3> QED BY <2>2, <3>1
  <2>3. CASE c[1] # 0 /\ c[2] = 0
    <3>1. D[c] = c[1]  BY <1>2, <2>1, <2>3
    <3> QED BY <2>3, <3>1
  <2> QED BY <2>2, <2>3
<1> HIDE DEF b, d
<1>8. d \in [Edit!Cells(n, m) -> Int]  BY <1>5, <1>6
<1>9. \A c \in Edit!Cells(n, m) : c[1] = 0 \/ c[2] = 0 => d[c] = D[c]  BY <1>5, <1>7
<1>10. \A c \in Block(s, t, diff, 0) : c \in Edit!Cells(n, m) /\ (c[1] = 0 \/ c[2] = 0)
  <2> SUFFICES ASSUME NEW c \in Block(s, t, diff, 0)
               PROVE  c \in Edit!Cells(n, m) /\ (c[1] = 0 \/ c[2] = 0)
    OBVIOUS
  <2>1. /\ c \in Edit!Cells(n, m)
        /\ c[1] = 0 \/ c[2] = 0 \/ (c[1] <= diff + 0 /\ c[2] <= 0)
    BY DEF Block, n, m
  <2>2. c[2] \in 0 .. n  BY <1>3, <2>1
  <2> QED BY <1>1, <2>1, <2>2
<1> QED BY <1>8, <1>9, <1>10 DEF Holds, Matrices, d, n, m

\* The matrix after each round, and the round that Fill stops after.
LEMMA FillIs ==
    ASSUME NEW C, NEW s \in Seq(C), NEW t \in Seq(C), NEW D, Table(D, s, t),
           Len(s) <= Len(t), Len(s) # 0, NEW limit, limit \in Int
    PROVE  \E stop \in 1 .. Len(s) :
              /\ Edit!Fill(s, t, limit) = D[Edit!At(Len(t) - Len(s) + stop, stop)]
              /\ stop = Len(s) \/ D[Edit!At(Len(t) - Len(s) + stop, stop)] >= limit
<1> DEFINE n == Len(s)
           diff == Len(t) - n
           V == Matrices(s, t)
           borders == Edit!Borders(n, Len(t))
           W(e, i) == Edit!Written(e, s, t, Edit!Round(i, diff))
           step == [i \in 1 .. n |-> [e \in V |-> W(e, i)]]
           Run(F) == F = [i \in 0 .. n |-> IF i = 0 THEN borders ELSE W(F[i - 1], i)]
           run == CHOOSE F : Run(F)
           Corner(i) == run[i][Edit!At(diff + i, i)]
           Stops(i) == /\ i = n \/ Corner(i) >= limit
                       /\ \A k \in 1 .. i - 1 : Corner(k) < limit
           stop == CHOOSE i \in 1 .. n : Stops(i)
<1>1. /\ n \in Nat /\ Len(t) \in Nat /\ n # 0 /\ n \in 1 .. n
      /\ diff \in Nat /\ Len(t) = n + diff
  BY LenProperties
<1>2. Edit!Fill(s, t, limit) = Corner(stop)  BY Zenon DEF Edit!Fill
<1> HIDE DEF diff
<1>3. Holds(borders, D, s, t, Block(s, t, diff, 0))  BY BordersHold
<1>4. \A i \in 1 .. n, e \in V : W(e, i) \in V
  <2> SUFFICES ASSUME NEW i \in 1 .. n, NEW e \in V PROVE W(e, i) \in V  OBVIOUS
  <2> DEFINE r == Edit!Round(i, diff)
  <2>1. r \in Seq(Inner(s, t))  BY <1>1, RoundIs DEF Goes
  <2> HIDE DEF r
  <2>2. PICK F \in [0 .. Len(r) -> Matrices(s, t)] : Edit!Written(e, s, t, r) = F[Len(r)]
    BY <1>1, <2>1, WrittenBy
  <2>3. Len(r) \in 0 .. Len(r)  BY <2>1, LenProperties
  <2>4. Edit!Written(e, s, t, r) \in V  BY <2>2, <2>3
  <2> QED BY <2>4 DEF r
<1>5. \A i \in 1 .. n : \A e : Holds(e, D, s, t, Block(s, t, diff, i - 1)) =>
                                Holds(W(e, i), D, s, t, Block(s, t, diff, i))
  <2> SUFFICES ASSUME NEW i, i \in 1 .. n, NEW e, Holds(e, D, s, t, Block(s, t, diff, i - 1))
               PROVE  Holds(W(e, i), D, s, t, Block(s, t, diff, i))
    OBVIOUS
  <2> QED BY <1>1, RoundHolds
<1>6. borders \in V  BY <1>3 DEF Holds
<1> HIDE DEF W, borders, V
<1>7. step \in [1 .. n -> [V -> V]]  BY <1>4
<1>8. \A i \in 1 .. n, e \in V : step[i][e] = W(e, i)  OBVIOUS
<1>9. PICK F \in [0 .. n -> V] : F = [i \in 0 .. n |-> IF i = 0 THEN borders ELSE step[i][F[i - 1]]]
  <2> HIDE DEF step, n
  <2>1. PICK F \in [0 .. n -> V] : Steps(F, borders, n, step)  BY <1>1, <1>6, <1>7, StepsExist
  <2> QED BY <2>1 DEF Steps
<1> HIDE DEF step
<1>10. \A i \in 0 .. n : i # 0 => i \in 1 .. n /\ F[i - 1] \in V
  <2> SUFFICES ASSUME NEW i \in 0 .. n, i # 0 PROVE i \in 1 .. n /\ F[i - 1] \in V  OBVIOUS
  <2>1. i \in 1 .. n /\ i - 1 \in 0 .. n  BY <1>1
  <2> QED BY <1>9, <2>1
<1>11. Run(F)
  <2>1. \A i \in 0 .. n : (IF i = 0 THEN borders ELSE step[i][F[i - 1]])
                             = IF i = 0 THEN borders ELSE W(F[i - 1], i)
    BY <1>8, <1>10
  <2> HIDE DEF n
  <2> QED BY <1>9, <2>1
<1>12. Run(run)
  <2> HIDE DEF Run
  <2> QED BY <1>11
<1> HIDE DEF run
<1>13. run[0] = borders /\ \A i \in 1 .. n : run[i] = W(run[i - 1], i)
  <2> DEFINE b(i) == IF i = 0 THEN borders ELSE W(run[i - 1], i)
  <2>1. run = [i \in 0 .. n |-> b(i)]  BY <1>12
  <2>2. b(0) = borders /\ \A i \in 1 .. n : i \in 0 .. n /\ i # 0  BY <1>1
  <2>3. \A i \in 1 .. n : b(i) = W(run[i - 1], i)  OBVIOUS
  <2> HIDE DEF b
  <2>4. \A i \in 0 .. n : run[i] = b(i)  BY <2>1
  <2>5. 0 \in 0 .. n  BY <1>1
  <2> QED BY <2>2, <2>3, <2>4, <2>5
<1> HIDE DEF Run
<1>14. \A i \in 0 .. n : Holds(run[i], D, s, t, Block(s, t, diff, i))
  <2> DEFINE S == {i \in 0 .. n : Holds(run[i], D, s, t, Block(s, t, diff, i))}
  <2>1. 0 \in S
    <3>1. 0 \in 0 .. n  BY <1>1
    <3> QED BY <1>3, <1>13, <3>1
  <2>2. ASSUME NEW i \in 1 .. n, i - 1 \in S PROVE i \in S
    <3>1. i \in 0 .. n  BY <1>1
    <3>2. Holds(run[i - 1], D, s, t, Block(s, t, diff, i - 1))  BY <2>2
    <3>3. Holds(run[i], D, s, t, Block(s, t, diff, i))  BY <1>5, <1>13, <3>2
    <3> QED BY <3>1, <3>3
  <2>3. \A i \in 0 .. n : i \in S
    <3> HIDE DEF S, n
    <3> QED BY <1>1, <2>1, <2>2, UptoInduction
  <2> QED BY <2>3
<1>15. \A i \in 1 .. n : Corner(i) = D[Edit!At(diff + i, i)]
  <2> SUFFICES ASSUME NEW i \in 1 .. n PROVE Corner(i) = D[Edit!At(diff + i, i)]  OBVIOUS
  <2>1. i \in 0 .. n /\ i \in 0 .. Len(s) /\ diff + i \in 0 .. Len(t)  BY <1>1
  <2>2. diff + i <= diff + i /\ i <= i  BY <1>1
  <2>3. Edit!At(diff + i, i) \in Block(s, t, diff, i)
    <3>1. Edit!At(diff + i, i) \in Edit!Cells(Len(s), Len(t))  BY <2>1, AtIs
    <3>2. Edit!At(diff + i, i)[1] = diff + i /\ Edit!At(diff + i, i)[2] = i  BY AtIs
    <3> QED BY <2>2, <3>1, <3>2 DEF Block
  <2>4. Holds(run[i], D, s, t, Block(s, t, diff, i))  BY <1>14, <2>1
  <2> QED BY <2>3, <2>4 DEF Holds
<1>16. \A i \in 1 .. n : Corner(i) \in Int
  <2> SUFFICES ASSUME NEW i \in 1 .. n PROVE Corner(i) \in Int  OBVIOUS
  <2>1. i \in 0 .. Len(s) /\ diff + i \in 0 .. Len(t)  BY <1>1
  <2>2. D[Edit!At(diff + i, i)] \in Int  BY <2>1, CellIs
  <2> QED BY <1>15, <2>2
<1> HIDE DEF Corner
<1>17. \E i \in 1 .. n : Stops(i)
  <2> DEFINE S == {i \in 1 .. n : i = n \/ Corner(i) >= limit}
  <2>1. n \in S /\ S \in SUBSET (0 .. n)  BY <1>1
  <2>2. PICK i \in S : \A y \in S : i <= y
    <3> HIDE DEF S
    <3> QED BY <1>1, <2>1, LeastPosition
  <2>3. i \in 1 .. n /\ (i = n \/ Corner(i) >= limit)  BY <2>2
  <2>4. ASSUME NEW k \in 1 .. i - 1 PROVE Corner(k) < limit
    <3>1. k \in 1 .. n /\ ~(i <= k)  BY <1>1, <2>3
    <3>2. k \notin S  BY <2>2, <3>1
    <3> QED BY <1>16, <3>1, <3>2
  <2> QED BY <2>3, <2>4
<1>18. stop \in 1 .. n /\ Stops(stop)
  <2> HIDE DEF Stops
  <2> QED BY <1>17
<1> HIDE DEF stop
<1>19. /\ Edit!Fill(s, t, limit) = D[Edit!At(diff + stop, stop)]
       /\ stop = n \/ D[Edit!At(diff + stop, stop)] >= limit
  BY <1>2, <1>15, <1>18
<1> QED BY <1>18, <1>19 DEF diff

\* The corners of the rounds do not become fewer.
LEMMA CornersGrow ==
    ASSUME NEW C, NEW s \in Seq(C), NEW t \in Seq(C), NEW D, Table(D, s, t),
           NEW diff, diff \in Nat, Len(t) = Len(s) + diff, NEW i, i \in 0 .. Len(s)
    PROVE  D[Edit!At(diff + i, i)] <= D[Edit!At(Len(t), Len(s))]
<1> DEFINE n == Len(s)
           m == Len(t)
           S == {k \in 0 .. n : D[Edit!At(m - k, n - k)] <= D[Edit!At(m, n)]}
<1>1. n \in Nat /\ m \in Nat /\ m = n + diff  BY LenProperties
<1>2. \A j \in 0 .. m, l \in 0 .. n : D[Edit!At(j, l)] \in Int /\ Smooth(D, j, l)
  BY CellIs, TableSmooth
<1> HIDE DEF n, m
<1>3. 0 \in S
  <2>1. m - 0 = m /\ n - 0 = n /\ 0 \in 0 .. n /\ m \in 0 .. m /\ n \in 0 .. n  BY <1>1
  <2>2. D[Edit!At(m, n)] <= D[Edit!At(m, n)]  BY <1>2, <2>1
  <2> QED BY <2>1, <2>2
<1>4. ASSUME NEW k \in 1 .. n, k - 1 \in S PROVE k \in S
  <2> DEFINE j == m - (k - 1)
             l == n - (k - 1)
  <2>1. /\ j \in 0 .. m /\ l \in 0 .. n /\ j > 0 /\ l > 0 /\ j - 1 = m - k /\ l - 1 = n - k
        /\ j - 1 \in 0 .. m /\ l - 1 \in 0 .. n /\ m \in 0 .. m /\ n \in 0 .. n
        /\ k \in 0 .. n
    BY <1>1
  <2>2. D[Edit!At(j, l)] <= D[Edit!At(m, n)]  BY <1>4
  <2> HIDE DEF j, l
  <2>3. Smooth(D, j, l)  BY <1>2, <2>1
  <2>4. D[Edit!At(j - 1, l - 1)] <= D[Edit!At(j, l)]  BY <2>1, <2>3 DEF Smooth
  <2>5. /\ D[Edit!At(j - 1, l - 1)] \in Int /\ D[Edit!At(j, l)] \in Int
        /\ D[Edit!At(m, n)] \in Int
    BY <1>2, <2>1
  <2>6. D[Edit!At(j - 1, l - 1)] <= D[Edit!At(m, n)]  BY <2>2, <2>4, <2>5
  <2>7. D[Edit!At(m - k, n - k)] <= D[Edit!At(m, n)]  BY <2>1, <2>6
  <2> QED BY <2>1, <2>7
<1>5. \A k \in 0 .. n : k \in S
  <2> HIDE DEF S
  <2> QED BY <1>1, <1>3, <1>4, UptoInduction
<1>6. n - i \in 0 .. n /\ m - (n - i) = diff + i /\ n - (n - i) = i  BY <1>1 DEF n
<1>7. D[Edit!At(m - (n - i), n - (n - i))] <= D[Edit!At(m, n)]  BY <1>5, <1>6
<1> QED BY <1>6, <1>7 DEF n, m

\* What is measured is the distance if that is below the limit, and otherwise not below
\* it.
LEMMA CutOffExact ==
    ASSUME NEW C, NEW s \in Seq(C), NEW t \in Seq(C), NEW limit, limit \in Nat
    PROVE  IF Edit!Edits(s, t) < limit THEN Edit!CalEditDistance(s, t, limit) = Edit!Edits(s, t)
           ELSE Edit!CalEditDistance(s, t, limit) >= limit
<1>1. PICK a \in Seq(C), b \in Seq(C) :
        /\ Len(a) <= Len(b) /\ Edit!Edits(s, t) = Edit!Edits(a, b)
        /\ \A l : Edit!CalEditDistance(s, t, l) = Between(a, b, l)
  <2>1. PICK a \in Seq(C), b \in Seq(C) : Measured(s, t, a, b)  BY CalIs
  <2> QED BY <2>1 DEF Measured
<1>2. PICK D : Table(D, a, b) /\ Edit!Edits(a, b) = D[Edit!At(Len(b), Len(a))]
  BY EditsIsLast
<1> DEFINE n == Len(a)
           m == Len(b)
           e == Edit!Edits(s, t)
           r == Edit!CalEditDistance(s, t, limit)
<1>3. n \in Nat /\ m \in Nat /\ n <= m /\ m \in 0 .. m /\ n \in 0 .. n  BY <1>1, LenProperties
<1>4. e = D[Edit!At(m, n)] /\ r = Between(a, b, limit)  BY <1>1, <1>2
<1>5. e \in Int /\ e >= m - n
  <2>1. Smooth(D, m, n)  BY <1>2, <1>3, TableSmooth
  <2>2. D[Edit!At(m, n)] \in Int  BY <1>2, <1>3, CellIs
  <2> QED BY <1>4, <2>1, <2>2 DEF Smooth
<1>6. CASE a = <<>>
  <2>1. n = 0 /\ r = m  BY <1>4, <1>6 DEF Between
  <2>2. D[Edit!At(m, 0)] = m  BY <1>2, <1>3, CellIs
  <2> HIDE DEF e, r, n, m
  <2>3. e = r  BY <1>4, <2>1, <2>2
  <2> QED BY <1>5, <2>3 DEF e, r
<1>7. CASE a # <<>> /\ m - n >= limit
  <2>1. r = m - n  BY <1>4, <1>7 DEF Between
  <2> HIDE DEF e, r
  <2>2. ~(e < limit) /\ r >= limit  BY <1>3, <1>5, <1>7, <2>1
  <2> QED BY <2>2 DEF e, r
<1>8. CASE a # <<>> /\ ~(m - n >= limit)
  <2>1. r = Edit!Fill(a, b, limit)  BY <1>4, <1>8 DEF Between
  <2>2. n # 0  BY <1>8, EmptySeq, LenProperties
  <2>3. limit \in Int  OBVIOUS
  <2>4. PICK stop \in 1 .. n :
          /\ Edit!Fill(a, b, limit) = D[Edit!At(m - n + stop, stop)]
          /\ stop = n \/ D[Edit!At(m - n + stop, stop)] >= limit
    BY <1>2, <1>3, <2>2, <2>3, FillIs
  <2>5. PICK diff : diff = m - n  OBVIOUS
  <2>6. diff \in Nat /\ m = n + diff /\ stop \in 0 .. n /\ diff + stop \in 0 .. m  BY <1>3, <2>5
  <2>7. D[Edit!At(diff + stop, stop)] <= D[Edit!At(m, n)]  BY <1>2, <2>6, CornersGrow
  <2>8. D[Edit!At(diff + stop, stop)] \in Int  BY <1>2, <2>6, CellIs
  <2>9. r = D[Edit!At(diff + stop, stop)] /\ (stop = n \/ r >= limit)  BY <2>1, <2>4, <2>5
  <2>10. stop = n => r = e
    <3> HIDE DEF e, r, n, m
    <3>1. stop = n => diff + stop = m  BY <1>3, <2>6
    <3> QED BY <1>4, <2>9, <3>1
  <2> HIDE DEF e, r, n, m
  <2>11. r \in Int /\ r <= e  BY <1>4, <2>7, <2>8, <2>9
  <2>12. IF e < limit THEN r = e ELSE r >= limit  BY <1>5, <2>9, <2>10, <2>11
  <2> QED BY <2>12 DEF e, r
<1> QED BY <1>6, <1>7, <1>8

\* A string of one set of letters is one of a larger set.
LEMMA LettersWiden ==
    ASSUME NEW A, NEW B, A \subseteq B
    PROVE  Seq(A) \subseteq Seq(B)
<1> SUFFICES ASSUME NEW s \in Seq(A) PROVE s \in Seq(B)  OBVIOUS
<1>1. s \in [1 .. Len(s) -> B] /\ Len(s) \in Nat  BY LenProperties
<1> QED BY <1>1, SeqDef

StringsTyped ==
    /\ function \in Functions
    /\ input \in Seq(Letters[function]) /\ input2 \in Seq(SecondLetters[function])

LEMMA StringsWritten == StringsTyped /\ [InputNext]_inputs => StringsTyped'
<1> SUFFICES ASSUME StringsTyped, [InputNext]_inputs PROVE StringsTyped'  OBVIOUS
<1>1. CASE WriteLetter
  <2>1. /\ function' = function /\ input2' = input2
        /\ \E c \in Letters[function] : input' = Append(input, c)
    BY <1>1 DEF WriteLetter
  <2> QED BY <2>1, AppendProperties DEF StringsTyped
<1>2. CASE WriteSecond
  <2>1. /\ function' = function /\ input' = input
        /\ \E c \in SecondLetters[function] : input2' = Append(input2, c)
    BY <1>2 DEF WriteSecond
  <2> QED BY <2>1, AppendProperties DEF StringsTyped
<1>3. CASE UNCHANGED inputs  BY <1>3 DEF inputs, StringsTyped
<1> QED BY <1>1, <1>2, <1>3 DEF InputNext

LEMMA StringsAlwaysTyped == InputSpec => []StringsTyped
<1>1. InputInit => StringsTyped  BY EmptySeq DEF InputInit, StringsTyped
<1> QED BY <1>1, StringsWritten, PTL DEF InputSpec

LEMMA StringsMeasured == StringsTyped => CutOffIsExact
<1> SUFFICES ASSUME StringsTyped, NEW limit, limit \in Limits
             PROVE  IF Edit!Edits(input, input2) < limit
                    THEN Edit!CalEditDistance(input, input2, limit) = Edit!Edits(input, input2)
                    ELSE Edit!CalEditDistance(input, input2, limit) >= limit
  BY DEF CutOffIsExact
<1> DEFINE A == Letters[function]
           B == SecondLetters[function]
           C == A \cup B
<1>1. input \in Seq(A) /\ input2 \in Seq(B)  BY DEF StringsTyped
<1>2. A \subseteq C /\ B \subseteq C  OBVIOUS
<1> HIDE DEF A, B, C
<1>3. input \in Seq(C) /\ input2 \in Seq(C)  BY <1>1, <1>2, LettersWiden
<1>4. limit \in Nat  BY InputsAssumption
<1> QED BY <1>3, <1>4, CutOffExact

\* Whatever two words and whatever limit a search measures, the distance it goes by is
\* the number of edits if that is below the limit, and otherwise not below the limit,
\* whatever is left in the matrix: no cell is read that the call has not written.
THEOREM CutOffIsAlwaysExact == InputSpec => []CutOffIsExact
BY StringsAlwaysTyped, StringsMeasured, PTL
=============================================================================
