------------------------- MODULE IndexLookupProofs -------------------------
(***************************************************************************)
(* lookup() of a paged word index is right for every sorted index, every   *)
(* page size and every query.                                              *)
(*                                                                         *)
(* Most of the work is arithmetic: what a position has to do with its page *)
(* (PageFacts, PlaceFacts, BeforeFacts).  The invariant then says of each  *)
(* phase of lookup() what it has excluded so far: the pages outside        *)
(* from..to begin below or above the query, so do the entries outside      *)
(* from..to of the one page left, and of the words the walk back passed    *)
(* each agrees with no less of the query than the next.                    *)
(***************************************************************************)
EXTENDS IndexLookup, TLAPS

-----------------------------------------------------------------------------
(* Products and quotients of positions by the size of a page.              *)

\* Multiplication by a size is strictly monotone.
LEMMA TimesMonotone ==
    ASSUME NEW a \in Int, NEW b \in Int, NEW e \in Nat, a < b
    PROVE  a * e + e <= b * e
<1>1. (b - a - 1) * e >= 0
  <2>1. b - a - 1 \in Nat  OBVIOUS
  <2> QED BY <2>1, SMT
<1>2. (b - a - 1) * e = b * e - a * e - e  BY SMT
<1> QED BY <1>1, <1>2, SMT

\* \div and % of a position by a size: its page and its place there.
LEMMA Division ==
    ASSUME NEW i \in Int, NEW e \in Nat \ {0}
    PROVE  /\ i \div e \in Int
           /\ i % e \in 0 .. e - 1
           /\ i = (i \div e) * e + (i % e)
BY SMT

\* A place j on page p is the only one at p * e + j.
LEMMA DivisionIsUnique ==
    ASSUME NEW p \in Int, NEW e \in Nat \ {0}, NEW j \in 0 .. e - 1
    PROVE  (p * e + j) \div e = p /\ (p * e + j) % e = j
<1> DEFINE i == p * e + j
<1> DEFINE q == i \div e
<1> DEFINE r == i % e
<1>1. i \in Int  BY SMT
<1>2. q \in Int /\ r \in 0 .. e - 1 /\ i = q * e + r  BY <1>1, Division
<1>3. p * e \in Int /\ q * e \in Int  BY <1>2, SMT
<1>4. ~(q < p)
  <2>1. q < p => q * e + e <= p * e  BY <1>2, TimesMonotone
  <2> HIDE DEF q, r
  <2> QED BY <2>1, <1>2, <1>3
<1>5. ~(p < q)
  <2>1. p < q => p * e + e <= q * e  BY <1>2, TimesMonotone
  <2> HIDE DEF q, r
  <2> QED BY <2>1, <1>2, <1>3
<1>6. q = p
  <2> HIDE DEF q
  <2> QED BY <1>2, <1>4, <1>5
<1>7. r = j
  <2> HIDE DEF r, q
  <2> QED BY <1>2, <1>6, <1>3
<1> QED BY <1>6, <1>7

-----------------------------------------------------------------------------
(* An index and its pages.                                                 *)

Shape == index \in Seq(Keys) /\ index # <<>> /\ Sorted(index)

\* The keys of an index, from position 0 on, are sorted.
LEMMA KeyFacts ==
    ASSUME Shape
    PROVE  /\ WordCount \in Nat \ {0}
           /\ \A i \in Positions : Key(i) \in Keys /\ Key(i) \in Int
           /\ \A i, j \in Positions : i <= j => Key(i) <= Key(j)
<1>1. WordCount \in Nat \ {0}  BY DEF Shape, WordCount
<1>2. \A i \in Positions : i + 1 \in 1 .. Len(index)
  BY <1>1 DEF Positions, WordCount
<1>3. \A i \in Positions : Key(i) \in Keys  BY <1>2 DEF Shape, Key
<1>4. Keys \subseteq Int  BY IndexAssumption
<1>5. ASSUME NEW i \in Positions, NEW j \in Positions, i <= j
      PROVE  Key(i) <= Key(j)
  <2>1. i + 1 \in 1 .. Len(index) /\ j + 1 \in 1 .. Len(index)  BY <1>2
  <2>2. i + 1 <= j + 1  BY <1>1, <1>5 DEF Positions
  <2> QED BY <2>1, <2>2 DEF Shape, Sorted, Key
<1> QED BY <1>1, <1>3, <1>4, <1>5

\* The page table covers the positions: every entry of every page is one, the
\* last entry of the last page is the last, and the others are full.
LEMMA PageFacts ==
    ASSUME Shape
    PROVE  /\ LastPage \in Positions
           /\ EntriesOn(LastPage) \in 1 .. Entries
           /\ LastPage * Entries + EntriesOn(LastPage) = WordCount
           /\ \A p \in 0 .. LastPage :
                /\ EntriesOn(p) \in 1 .. Entries
                /\ \A j \in 0 .. EntriesOn(p) - 1 : p * Entries + j \in Positions
           /\ \A p \in 0 .. LastPage :
                p < LastPage => /\ EntriesOn(p) = Entries
                                /\ p * Entries + Entries = (p + 1) * Entries
                                /\ (p + 1) * Entries \in Positions
<1> DEFINE e == Entries
<1> DEFINE n == WordCount
<1> DEFINE l == (n - 1) \div e
<1> DEFINE r == (n - 1) % e
<1>1. e \in Nat \ {0}  BY IndexAssumption
<1>2. n \in Nat \ {0}  BY KeyFacts
<1>3. n - 1 \in Int  BY <1>2
<1>4. l \in Int /\ r \in 0 .. e - 1 /\ n - 1 = l * e + r  BY <1>1, <1>3, Division
<1>5. LastPage = l  BY <1>4 DEF LastPage, NPages
<1>6. n = l * e + (r + 1)
  <2>1. l * e \in Int  BY <1>1, <1>4, SMT
  <2> HIDE DEF n, l, r, e
  <2> QED BY <1>1, <1>2, <1>4, <2>1
<1>7. EntriesOn(l) = r + 1
  <2>1. CASE r + 1 < e
    <3>1. r + 1 \in 0 .. e - 1
      <4> HIDE DEF n, l, r, e
      <4> QED BY <1>1, <1>4, <2>1
    <3>2. n % e = r + 1
      <4> HIDE DEF n, l, r, e
      <4> QED BY <1>1, <1>4, <1>6, <3>1, DivisionIsUnique
    <3> QED BY <1>4, <1>5, <3>2 DEF EntriesOn
  <2>2. CASE r + 1 = e
    <3>1. n = (l + 1) * e + 0
      <4> HIDE DEF n, l, r, e
      <4> QED BY <1>1, <1>4, <1>6, <2>2, SMT
    <3>2. n % e = 0
      <4>1. 0 \in 0 .. e - 1 /\ l + 1 \in Int  BY <1>1, <1>4
      <4> HIDE DEF n, l, r, e
      <4> QED BY <1>1, <4>1, <3>1, DivisionIsUnique
    <3> QED BY <1>5, <2>2, <3>2 DEF EntriesOn
  <2> QED
    <3> HIDE DEF n, l, r, e
    <3> QED BY <1>1, <1>4, <2>1, <2>2
<1>8. l \in 0 .. n - 1
  <2>1. ~(l < 0)
    <3>1. l < 0 => l * e + e <= 0 * e
      <4> HIDE DEF n, l, r, e
      <4> QED BY <1>1, <1>4, TimesMonotone
    <3>2. l * e \in Int /\ 0 * e = 0  BY <1>1, <1>4, SMT
    <3> HIDE DEF n, l, r, e
    <3> QED BY <1>1, <1>2, <1>4, <3>1, <3>2
  <2>2. l * e >= l
    <3> HIDE DEF n, l, r, e
    <3>1. (e - 1) * l >= 0  BY <1>1, <1>4, <2>1, SMT
    <3> QED BY <1>1, <1>4, <3>1, SMT
  <2>3. l * e \in Int  BY <1>1, <1>4, SMT
  <2> HIDE DEF n, l, r, e
  <2> QED BY <1>1, <1>2, <1>4, <2>1, <2>2, <2>3
<1>9. ASSUME NEW p \in 0 .. l, p < l
      PROVE  /\ EntriesOn(p) = e
             /\ p * e + e = (p + 1) * e
             /\ p * e >= 0
             /\ (p + 1) * e \in 0 .. n - 1
  <2>0. p \in Nat  BY <1>4
  <2>1. p # LastPage  BY <1>5, <1>9, <2>0, <1>4
  <2>2. p * e + e = (p + 1) * e
    <3> HIDE DEF n, l, r, e
    <3> QED BY <1>1, <2>0, SMT
  <2>3. p * e + e <= l * e
    <3> HIDE DEF n, l, r, e
    <3> QED BY <1>1, <1>4, <1>9, <2>0, TimesMonotone
  <2>4. p * e >= 0
    <3> HIDE DEF n, l, r, e
    <3> QED BY <1>1, <2>0, SMT
  <2>5. p * e \in Int /\ l * e \in Int  BY <1>1, <1>4, <2>0, SMT
  <2>6. (p + 1) * e \in 0 .. n - 1
    <3> HIDE DEF n, l, r, e
    <3> QED BY <1>1, <1>4, <1>2, <2>2, <2>3, <2>4, <2>5
  <2> QED BY <2>1, <2>2, <2>4, <2>6 DEF EntriesOn
<1>10. ASSUME NEW p \in 0 .. l
       PROVE  /\ EntriesOn(p) \in 1 .. e
              /\ \A j \in 0 .. EntriesOn(p) - 1 : p * e + j \in 0 .. n - 1
  <2>1. CASE p = l
    <3>1. EntriesOn(p) = r + 1  BY <1>7, <2>1
    <3>2. l * e >= 0
      <4> HIDE DEF n, l, r, e
      <4> QED BY <1>1, <1>8, <1>2, SMT
    <3>3. l * e \in Int  BY <1>1, <1>4, SMT
    <3> HIDE DEF n, l, r, e
    <3> QED BY <1>1, <1>2, <1>4, <2>1, <3>1, <3>2, <3>3
  <2>2. CASE p < l
    <3>1. p * e \in Int  BY <1>1, <1>4, SMT
    <3>2. /\ EntriesOn(p) = e
          /\ p * e + e = (p + 1) * e
          /\ p * e >= 0
          /\ (p + 1) * e \in 0 .. n - 1
      BY <1>9, <2>2
    <3> HIDE DEF n, l, r, e
    <3> QED BY <1>1, <1>2, <1>4, <3>1, <3>2
  <2> QED BY <1>4, <2>1, <2>2
<1>11. Positions = 0 .. n - 1  BY DEF Positions
<1>12. EntriesOn(l) \in 1 .. e /\ l * e + EntriesOn(l) = n
  <2> HIDE DEF n, l, r, e
  <2> QED BY <1>1, <1>4, <1>6, <1>7
<1> HIDE DEF l, r
<1> QED BY <1>5, <1>8, <1>9, <1>10, <1>11, <1>12

\* A position, its page and its place on it.
LEMMA PlaceFacts ==
    ASSUME Shape, NEW i \in Positions
    PROVE  /\ i \div Entries \in 0 .. LastPage
           /\ i % Entries \in 0 .. Entries - 1
           /\ (i \div Entries) * Entries + (i % Entries) = i
           /\ Entry(i \div Entries, i % Entries) = Key(i)
<1> DEFINE e == Entries
<1> DEFINE q == i \div e
<1> DEFINE r == i % e
<1>1. e \in Nat \ {0}  BY IndexAssumption
<1>2. i \in Nat /\ i <= WordCount - 1 /\ WordCount \in Nat \ {0}
  BY KeyFacts DEF Positions
<1>3. q \in Int /\ r \in 0 .. e - 1 /\ i = q * e + r  BY <1>1, <1>2, Division
<1>4. LastPage \in Nat /\ LastPage * e + EntriesOn(LastPage) = WordCount
      /\ EntriesOn(LastPage) \in 1 .. e
  BY PageFacts, <1>2 DEF Positions
<1>5. q * e \in Int /\ LastPage * e \in Int  BY <1>1, <1>3, <1>4, SMT
<1>6. ~(q < 0)
  <2> HIDE DEF q, r, e
  <2>1. q < 0 => q * e + e <= 0 * e  BY <1>1, <1>3, TimesMonotone
  <2>2. 0 * e = 0  BY <1>1, SMT
  <2> QED BY <1>1, <1>2, <1>3, <1>5, <2>1, <2>2
<1>7. ~(LastPage < q)
  <2>1. LastPage < q => LastPage * e + e <= q * e
    <3> HIDE DEF q, r, e
    <3> QED BY <1>1, <1>3, <1>4, TimesMonotone
  <2> HIDE DEF q, r, e
  <2> QED BY <1>1, <1>2, <1>3, <1>4, <1>5, <2>1
<1>8. Entry(q, r) = Key(i)
  <2> HIDE DEF q, r
  <2> QED BY <1>3 DEF Entry
<1>9. q \in 0 .. LastPage
  <2> HIDE DEF q, r
  <2> QED BY <1>3, <1>4, <1>6, <1>7
<1> QED BY <1>3, <1>8, <1>9

\* What NotFound compares with at the first position of a page: not the word
\* there, but one that stands before it.
LEMMA BeforeFacts ==
    ASSUME Shape, NEW i \in Positions, i > 0
    PROVE  /\ i - 1 \in Positions
           /\ i % Entries # 0 => (i - 1) \div Entries = i \div Entries
           /\ i % Entries # 0 => Entry((i - 1) \div Entries, i % Entries) = Key(i)
           /\ i % Entries = 0 =>
                /\ i - Entries \in Positions
                /\ Entry((i - 1) \div Entries, i % Entries) = Key(i - Entries)
<1> DEFINE e == Entries
<1> DEFINE q == i \div e
<1> DEFINE r == i % e
<1> DEFINE b == (i - 1) \div e
<1>1. e \in Nat \ {0}  BY IndexAssumption
<1>2. i \in Nat /\ i - 1 \in Positions /\ WordCount \in Nat \ {0}
  BY KeyFacts DEF Positions
<1>3. q \in 0 .. LastPage /\ r \in 0 .. e - 1 /\ q * e + r = i /\ Entry(q, r) = Key(i)
  BY PlaceFacts
<1>4. b \in 0 .. LastPage /\ (i - 1) % e \in 0 .. e - 1 /\ b * e + ((i - 1) % e) = i - 1
  BY <1>2, PlaceFacts
<1>5. LastPage \in Nat  BY PageFacts DEF Positions
<1>6. q * e \in Int /\ b * e \in Int /\ b * e >= 0
  <2> HIDE DEF q, r, e, b
  <2>1. q \in Nat /\ b \in Nat  BY <1>3, <1>4, <1>5
  <2> QED BY <1>1, <2>1, SMT
<1>7. r # 0 => b = q
  <2>1. SUFFICES ASSUME r # 0 PROVE b = q  OBVIOUS
  <2>2. r - 1 \in 0 .. e - 1 /\ i - 1 = q * e + (r - 1)
    <3> HIDE DEF q, r, e
    <3> QED BY <1>1, <1>2, <1>3, <1>6, <2>1
  <2>3. q \in Int  BY <1>3, <1>5
  <2> QED
    <3> HIDE DEF q, r, e
    <3> QED BY <1>1, <2>2, <2>3, DivisionIsUnique DEF b
<1>8. r = 0 => i - e \in Positions /\ Entry(b, r) = Key(i - e)
  <2>1. SUFFICES ASSUME r = 0 PROVE i - e \in Positions /\ Entry(b, r) = Key(i - e)
    OBVIOUS
  <2>2. q \in Int /\ b \in Int  BY <1>3, <1>4, <1>5
  <2>3. (q - 1) * e + (e - 1) = i - 1 /\ (q - 1) * e = i - e
    <3> HIDE DEF q, r, e, b
    <3>1. (q - 1) * e = q * e - e  BY <1>1, <2>2, SMT
    <3>2. q * e = i  BY <1>1, <1>2, <1>3, <1>6, <2>1
    <3> QED BY <1>1, <1>2, <1>6, <3>1, <3>2
  <2>4. b = q - 1
    <3>1. PICK m \in Int : m = q - 1  BY <2>2
    <3>2. PICK s \in 0 .. e - 1 : s = e - 1  BY <1>1
    <3>3. m * e + s = i - 1  BY <2>3, <3>1, <3>2
    <3> HIDE DEF q, r, e
    <3>4. (i - 1) \div e = m  BY <1>1, <3>3, DivisionIsUnique
    <3> QED BY <3>1, <3>4 DEF b
  <2>5. b * e = i - e  BY <2>3, <2>4
  <2>6. i - e \in Positions
    <3> HIDE DEF b, e
    <3> QED BY <1>1, <1>2, <1>6, <2>5 DEF Positions
  <2>7. Entry(b, r) = Key(b * e)
    <3> HIDE DEF b, r
    <3> QED BY <1>6, <2>1 DEF Entry
  <2> QED BY <2>5, <2>6, <2>7
<1> HIDE DEF q, r, b
<1> QED BY <1>2, <1>3, <1>7, <1>8 DEF q, r, b
-----------------------------------------------------------------------------
(* The invariant.                                                          *)

\* The place of a word that is not there: between i - 1 and i.
Between(i) == /\ i \in 1 .. Last
              /\ Key(i - 1) < query /\ query < Key(i)

TypeInv ==
    /\ Shape
    /\ page \in 0 .. LastPage
    /\ pc \in Steps /\ query \in Keys
    /\ from \in Nat /\ to \in -1 .. WordCount
    /\ idx \in Positions \cup {INVALID_INDEX} /\ suggest \in Positions
    /\ best \in Nat /\ found \in BOOLEAN

\* A search begins only for a word between the first and the last.
RangeInv ==
    pc \in {"pages", "entries"} => Key(0) <= query /\ query <= Key(Last)

PagesInv ==
    pc = "pages" =>
        /\ from \in 0 .. LastPage + 1 /\ to \in -1 .. LastPage
        /\ from <= to + 1
        /\ \A p \in 0 .. LastPage : p < from => FirstOn(p) < query
        /\ \A p \in 0 .. LastPage : p > to => FirstOn(p) > query

EntriesInv ==
    pc = "entries" =>
        /\ idx = page
        /\ from \in 1 .. EntriesOn(page) /\ to \in 0 .. EntriesOn(page) - 1
        /\ from <= to + 1
        /\ page < LastPage => FirstOn(page + 1) > query
        /\ \A j \in 0 .. EntriesOn(page) - 1 : j < from => Entry(page, j) < query
        /\ \A j \in 0 .. EntriesOn(page) - 1 : j > to => Entry(page, j) > query

\* The walk back has come to s: each word it passed agrees with some of the query,
\* and with no less of it than the next one.
Walked(s) ==
    /\ \A i, j \in s .. idx - 1 : i <= j => Agree(j) # 0 /\ Agree(j) <= Agree(i)
    /\ s < idx => AtPlace <= Agree(idx - 1)

\* Before the first step back the page in memory is the one searched, which may
\* end just before the place; afterwards it is that of the word suggested.
SuggestInv ==
    pc = "suggest" =>
        /\ Between(idx) /\ suggest \in 0 .. idx /\ Walked(suggest)
        /\ suggest = idx =>
              /\ page = (idx - 1) \div Entries
              /\ best = AtPlace
        /\ suggest < idx =>
              /\ page = suggest \div Entries
              /\ best = Agree(suggest)

IInv ==
    /\ TypeInv /\ RangeInv /\ PagesInv /\ EntriesInv /\ SuggestInv
    /\ LookupCorrect /\ SuggestsBestOfWalk

\* Before the place all words are smaller, after it all are greater.
LEMMA BetweenOrders ==
    ASSUME TypeInv, NEW i, Between(i)
    PROVE  /\ i \in Positions
           /\ \A j \in Positions : IF j < i THEN Key(j) < query ELSE Key(j) > query
<1>1. WordCount \in Nat \ {0} /\ query \in Int
  BY KeyFacts, IndexAssumption DEF TypeInv
<1>2. i \in Positions /\ i - 1 \in Positions
  BY <1>1 DEF Between, Last, Positions
<1>3. ASSUME NEW j \in Positions, j < i PROVE Key(j) < query
  <2>1. j <= i - 1  BY <1>1, <1>2, <1>3 DEF Positions
  <2>2. Key(j) <= Key(i - 1) /\ Key(j) \in Int /\ Key(i - 1) \in Int
    BY <1>2, <2>1, KeyFacts DEF TypeInv
  <2> QED BY <1>1, <2>2 DEF Between
<1>4. ASSUME NEW j \in Positions, ~(j < i) PROVE Key(j) > query
  <2>1. i <= j  BY <1>1, <1>2, <1>4 DEF Positions
  <2>2. Key(i) <= Key(j) /\ Key(j) \in Int /\ Key(i) \in Int
    BY <1>2, <2>1, KeyFacts DEF TypeInv
  <2> QED BY <1>1, <2>2 DEF Between
<1> QED BY <1>2, <1>3, <1>4

\* The initial states have the invariant.
LEMMA InitInvariant == Init => IInv
<1> SUFFICES ASSUME Init PROVE IInv  OBVIOUS
<1>1. Shape
  <2>1. PICK n \in 1 .. MaxWords : index \in [1 .. n -> Keys]  BY DEF Init
  <2>2. MaxWords \in Nat  BY IndexAssumption
  <2>3. n \in Nat /\ n >= 1  BY <2>2
  <2>4. index \in Seq(Keys) /\ Len(index) = n  BY <2>1, <2>3
  <2> QED BY <2>3, <2>4 DEF Init, Shape
<1>2. LastPage \in Positions /\ WordCount \in Nat \ {0}  BY <1>1, PageFacts, KeyFacts
<1>3. LastPage \in 0 .. LastPage /\ 0 \in Positions /\ 0 \in -1 .. WordCount
  BY <1>2 DEF Positions
<1>4. TypeInv  BY <1>1, <1>2, <1>3 DEF Init, TypeInv, Steps
<1> QED BY <1>4 DEF Init, IInv, RangeInv, PagesInv, EntriesInv, SuggestInv,
             LookupCorrect, SuggestsBestOfWalk

\* Nothing about the index itself changes.
LEMMA SameIndex ==
    ASSUME index' = index
    PROVE  /\ Shape' = Shape /\ WordCount' = WordCount /\ Positions' = Positions
           /\ Last' = Last /\ LastPage' = LastPage /\ NPages' = NPages
           /\ \A i : Key(i)' = Key(i)
           /\ \A p : FirstOn(p)' = FirstOn(p) /\ EntriesOn(p)' = EntriesOn(p)
           /\ \A p, j : Entry(p, j)' = Entry(p, j)
BY DEF Shape, WordCount, Positions, Last, LastPage, NPages, Key, FirstOn, EntriesOn,
       Entry, Sorted

\* Nor does what the words agree with while a query is walked back from.
LEMMA SameMatch ==
    ASSUME index' = index, query' = query
    PROVE  /\ \A i : Agree(i)' = Agree(i)
           /\ idx' = idx => /\ AtPlace' = AtPlace
                            /\ OrderGoesWithMatch' = OrderGoesWithMatch
                            /\ \A s : Walked(s)' = Walked(s)
<1>1. \A i : Agree(i)' = Agree(i)  BY SameIndex DEF Agree
<1>2. Positions' = Positions  BY SameIndex
<1>3. ASSUME idx' = idx
      PROVE  AtPlace' = AtPlace /\ OrderGoesWithMatch' = OrderGoesWithMatch
  BY <1>1, <1>2, <1>3 DEF AtPlace, OrderGoesWithMatch
<1>4. ASSUME idx' = idx, NEW s PROVE Walked(s)' = Walked(s)
  BY <1>1, <1>3, <1>4 DEF Walked
<1> QED BY <1>1, <1>3, <1>4

\* Agreement is a number.
LEMMA AgreeFacts ==
    ASSUME Shape, query \in Keys
    PROVE  \A i \in Positions : Agree(i) \in Nat
BY KeyFacts, IndexAssumption DEF Agree

\* What the walk compares with first is in the page in memory.
LEMMA PlaceCompared ==
    ASSUME Shape, query \in Keys, idx \in Positions, idx > 0
    PROVE  /\ Match[query][Entry((idx - 1) \div Entries, idx % Entries)] = AtPlace
           /\ AtPlace \in Nat
           /\ idx % Entries = 0 => idx - Entries \in Positions /\ AtPlace = Agree(idx - Entries)
           /\ idx % Entries # 0 => AtPlace = Agree(idx)
BY BeforeFacts, AgreeFacts DEF AtPlace, Agree

\* First keys of pages, and the entries of a page, are sorted.
LEMMA PagesSorted ==
    ASSUME Shape
    PROVE  /\ \A p \in 0 .. LastPage :
                 /\ p * Entries \in Positions
                 /\ FirstOn(p) = Key(p * Entries) /\ FirstOn(p) = Entry(p, 0)
                 /\ FirstOn(p) \in Int
           /\ \A p, q \in 0 .. LastPage : p <= q => FirstOn(p) <= FirstOn(q)
           /\ \A p \in 0 .. LastPage : \A j, k \in 0 .. EntriesOn(p) - 1 :
                 /\ Entry(p, j) = Key(p * Entries + j) /\ Entry(p, j) \in Int
                 /\ j <= k => Entry(p, j) <= Entry(p, k)
<1>1. Entries \in Nat \ {0} /\ LastPage \in Nat
  BY IndexAssumption, PageFacts DEF Positions
<1>2. ASSUME NEW p \in 0 .. LastPage
      PROVE  /\ p * Entries \in Positions /\ p * Entries \in Int
             /\ FirstOn(p) = Key(p * Entries) /\ FirstOn(p) = Entry(p, 0)
             /\ FirstOn(p) \in Int
  <2>1. EntriesOn(p) \in 1 .. Entries
        /\ \A j \in 0 .. EntriesOn(p) - 1 : p * Entries + j \in Positions
    BY PageFacts
  <2>2. 0 \in 0 .. EntriesOn(p) - 1  BY <1>1, <2>1
  <2>3. p * Entries \in Int  BY <1>1, SMT
  <2>4. p * Entries + 0 = p * Entries  BY <2>3
  <2>5. p * Entries \in Positions  BY <2>1, <2>2, <2>4
  <2> QED BY <2>3, <2>4, <2>5, KeyFacts DEF FirstOn, Entry
<1>3. ASSUME NEW p \in 0 .. LastPage, NEW q \in 0 .. LastPage, p <= q
      PROVE  FirstOn(p) <= FirstOn(q)
  <2>1. p * Entries <= q * Entries
    <3>1. CASE p = q  BY <1>2, <3>1
    <3>2. CASE p < q
      <4>1. p * Entries + Entries <= q * Entries  BY <1>1, <3>2, TimesMonotone
      <4> QED BY <1>1, <1>2, <4>1
    <3> QED BY <1>1, <1>3, <3>1, <3>2
  <2> QED BY <1>2, <2>1, KeyFacts
<1>4. ASSUME NEW p \in 0 .. LastPage,
             NEW j \in 0 .. EntriesOn(p) - 1, NEW k \in 0 .. EntriesOn(p) - 1
      PROVE  /\ Entry(p, j) = Key(p * Entries + j) /\ Entry(p, j) \in Int
             /\ j <= k => Entry(p, j) <= Entry(p, k)
  <2>1. p * Entries + j \in Positions /\ p * Entries + k \in Positions
    BY PageFacts
  <2>2. EntriesOn(p) \in 1 .. Entries  BY PageFacts
  <2>3. j <= k => p * Entries + j <= p * Entries + k  BY <1>1, <1>2, <2>2
  <2> QED BY <2>1, <2>3, KeyFacts DEF Entry
<1> QED BY <1>2, <1>3, <1>4

-----------------------------------------------------------------------------
(* The actions.                                                            *)

\* Reading another word moves the page in memory and forgets the last answer.
LEMMA GetKeyStep == IInv /\ GetKey => IInv'
<1> SUFFICES ASSUME IInv, GetKey PROVE IInv'  OBVIOUS
<1>1. Shape  BY DEF IInv, TypeInv
<1>2. PICK i \in Positions : page' = i \div Entries  BY DEF GetKey
<1>3. page' \in 0 .. LastPage  BY <1>1, <1>2, PlaceFacts
<1>4. index' = index /\ pc' = "idle"  BY DEF GetKey
<1>5. TypeInv'
  BY <1>3, <1>4, SameIndex DEF IInv, TypeInv, GetKey, Steps
<1> QED BY <1>4, <1>5 DEF IInv, RangeInv, PagesInv, EntriesInv, SuggestInv,
             LookupCorrect, SuggestsBestOfWalk

\* A word before the first or after the last is answered at once; for any other
\* nothing is excluded yet.
LEMMA LookupStep == IInv /\ Lookup => IInv'
<1> SUFFICES ASSUME IInv, Lookup PROVE IInv'  OBVIOUS
<1>1. Shape  BY DEF IInv, TypeInv
<1>2. PICK q \in Keys :
          /\ query' = q
          /\ \/ /\ q < Key(0)
                /\ Answer(FALSE, 0, 0)
                /\ UNCHANGED <<from, to>>
             \/ /\ q > Key(Last)
                /\ Answer(FALSE, INVALID_INDEX, Last)
                /\ UNCHANGED <<from, to>>
             \/ /\ Key(0) <= q /\ q <= Key(Last)
                /\ pc' = "pages"
                /\ from' = 0 /\ to' = LastPage
                /\ UNCHANGED <<found, idx, suggest>>
  BY DEF Lookup
<1>3. index' = index /\ page' = page /\ best' = best  BY DEF Lookup
<1>4. WordCount \in Nat \ {0} /\ LastPage \in Nat /\ LastPage <= Last
  BY <1>1, KeyFacts, PageFacts DEF Positions, Last
<1>5. 0 \in Positions /\ Last \in Positions  BY <1>4 DEF Positions, Last
<1>6. q \in Int  BY IndexAssumption
<1>7. CASE q < Key(0) /\ Answer(FALSE, 0, 0) /\ UNCHANGED <<from, to>>
  <2>1. pc' = "done" /\ found' = FALSE /\ idx' = 0 /\ suggest' = 0
    BY <1>7 DEF Answer
  <2>2. TypeInv'
    BY <1>2, <1>3, <1>5, <1>7, <2>1, SameIndex DEF IInv, TypeInv, Steps
  <2>3. \A i \in Positions : Key(i) > q /\ ~(i < 0)
    <3>1. ASSUME NEW i \in Positions PROVE Key(i) > q /\ ~(i < 0)
      <4>1. 0 <= i  BY <1>4 DEF Positions
      <4>2. Key(0) <= Key(i) /\ Key(0) \in Int /\ Key(i) \in Int
        BY <1>1, <1>5, <4>1, KeyFacts
      <4> QED BY <1>6, <1>7, <4>1, <4>2 DEF Positions
    <3> QED BY <3>1
  <2>4. \A i \in Positions : Key(i) # q
    BY <1>1, <1>6, <2>3, KeyFacts
  <2>5. 0 # INVALID_INDEX  BY DEF INVALID_INDEX
  <2>6. LookupCorrect'
    BY <1>2, <1>3, <2>1, <2>3, <2>4, <2>5, SameIndex DEF LookupCorrect
  <2>7. SuggestsBestOfWalk'
    BY <2>1 DEF SuggestsBestOfWalk
  <2> QED BY <2>1, <2>2, <2>6, <2>7 DEF IInv, RangeInv, PagesInv, EntriesInv, SuggestInv
<1>8. CASE q > Key(Last) /\ Answer(FALSE, INVALID_INDEX, Last) /\ UNCHANGED <<from, to>>
  <2>1. pc' = "done" /\ found' = FALSE /\ idx' = INVALID_INDEX /\ suggest' = Last
    BY <1>8 DEF Answer
  <2>2. TypeInv'
    BY <1>2, <1>3, <1>5, <1>8, <2>1, SameIndex DEF IInv, TypeInv, Steps
  <2>3. \A i \in Positions : Key(i) < q
    <3>1. ASSUME NEW i \in Positions PROVE Key(i) < q
      <4>1. i <= Last  BY <1>4 DEF Positions, Last
      <4>2. Key(i) <= Key(Last) /\ Key(Last) \in Int /\ Key(i) \in Int
        BY <1>1, <1>5, <4>1, KeyFacts
      <4> QED BY <1>6, <1>8, <4>2
    <3> QED BY <3>1
  <2>4. \A i \in Positions : Key(i) # q
    BY <1>1, <1>6, <2>3, KeyFacts
  <2>5. LookupCorrect'
    BY <1>2, <1>3, <2>1, <2>3, <2>4, SameIndex DEF LookupCorrect
  <2>6. SuggestsBestOfWalk'  BY <2>1 DEF SuggestsBestOfWalk
  <2> QED BY <2>1, <2>2, <2>5, <2>6 DEF IInv, RangeInv, PagesInv, EntriesInv, SuggestInv
<1>9. CASE /\ Key(0) <= q /\ q <= Key(Last)
           /\ pc' = "pages"
           /\ from' = 0 /\ to' = LastPage
           /\ UNCHANGED <<found, idx, suggest>>
  <2>1. 0 \in Nat /\ LastPage \in -1 .. WordCount  BY <1>4 DEF Last
  <2>2. TypeInv'
    BY <1>2, <1>3, <1>9, <2>1, SameIndex DEF IInv, TypeInv, Steps
  <2>3. RangeInv'  BY <1>2, <1>3, <1>9, SameIndex DEF RangeInv
  <2>4. PagesInv'
    <3>1. 0 \in 0 .. LastPage + 1 /\ LastPage \in -1 .. LastPage /\ 0 <= LastPage + 1
          /\ \A p \in 0 .. LastPage : ~(p < 0) /\ ~(p > LastPage)
      BY <1>4
    <3> QED BY <1>3, <1>9, <3>1, SameIndex DEF PagesInv
  <2> QED BY <1>9, <2>2, <2>3, <2>4 DEF IInv, EntriesInv, SuggestInv, LookupCorrect,
            SuggestsBestOfWalk
<1> QED BY <1>2, <1>7, <1>8, <1>9

\* Each probe of a page excludes the half that cannot hold the word.
LEMMA ProbePageStep == IInv /\ ProbePage => IInv'
<1> SUFFICES ASSUME IInv, ProbePage PROVE IInv'  OBVIOUS
<1> DEFINE m == Middle
<1>1. Shape /\ query \in Int  BY IndexAssumption DEF IInv, TypeInv
<1>2. WordCount \in Nat \ {0} /\ LastPage \in Nat /\ LastPage <= Last /\ Last = WordCount - 1
  BY <1>1, KeyFacts, PageFacts DEF Positions, Last
<1>3. /\ pc = "pages" /\ from \in 0 .. LastPage + 1 /\ to \in -1 .. LastPage
      /\ from <= to
      /\ \A p \in 0 .. LastPage : p < from => FirstOn(p) < query
      /\ \A p \in 0 .. LastPage : p > to => FirstOn(p) > query
  BY DEF IInv, PagesInv, ProbePage
<1>4. m \in from .. to /\ m \in 0 .. LastPage /\ m \in Int  BY <1>2, <1>3 DEF Middle
<1>5. /\ index' = index /\ page' = page /\ query' = query /\ best' = best
  BY DEF ProbePage
<1>6. \A p \in 0 .. LastPage : FirstOn(p) \in Int
      /\ \A r \in 0 .. LastPage : p <= r => FirstOn(p) <= FirstOn(r)
  BY <1>1, PagesSorted
<1>7. RangeInv'  BY <1>3, <1>5, SameIndex DEF IInv, RangeInv, ProbePage, Answer
<1>8. CASE /\ query > FirstOn(m)
           /\ from' = m + 1
           /\ UNCHANGED <<pc, to, found, idx, suggest>>
  <2> HIDE DEF m
  <2>1. m + 1 \in Nat /\ m + 1 \in 0 .. LastPage + 1 /\ m + 1 <= to + 1
    BY <1>2, <1>3, <1>4
  <2>2. \A p \in 0 .. LastPage : p < m + 1 => FirstOn(p) < query
    <3>1. ASSUME NEW p \in 0 .. LastPage, p < m + 1 PROVE FirstOn(p) < query
      <4>1. p <= m  BY <1>2, <1>4, <3>1
      <4>2. FirstOn(p) <= FirstOn(m) /\ FirstOn(p) \in Int /\ FirstOn(m) \in Int
        BY <1>4, <1>6, <4>1
      <4> QED BY <1>1, <1>8, <4>2
    <3> QED BY <3>1
  <2>3. PagesInv'  BY <1>3, <1>5, <1>8, <2>1, <2>2, SameIndex DEF PagesInv
  <2>4. TypeInv'  BY <1>5, <1>8, <2>1, SameIndex DEF IInv, TypeInv
  <2> QED BY <1>3, <1>7, <1>8, <2>3, <2>4 DEF IInv, EntriesInv, SuggestInv, LookupCorrect,
            SuggestsBestOfWalk
<1>9. CASE /\ query < FirstOn(m)
           /\ to' = m - 1
           /\ UNCHANGED <<pc, from, found, idx, suggest>>
  <2> HIDE DEF m
  <2>1. m - 1 \in -1 .. LastPage /\ m - 1 \in -1 .. WordCount /\ from <= m - 1 + 1
    BY <1>2, <1>3, <1>4
  <2>2. \A p \in 0 .. LastPage : p > m - 1 => FirstOn(p) > query
    <3>1. ASSUME NEW p \in 0 .. LastPage, p > m - 1 PROVE FirstOn(p) > query
      <4>1. m <= p  BY <1>2, <1>4, <3>1
      <4>2. FirstOn(m) <= FirstOn(p) /\ FirstOn(p) \in Int /\ FirstOn(m) \in Int
        BY <1>4, <1>6, <4>1
      <4> QED BY <1>1, <1>9, <4>2
    <3> QED BY <3>1
  <2>3. PagesInv'  BY <1>3, <1>5, <1>9, <2>1, <2>2, SameIndex DEF PagesInv
  <2>4. TypeInv'  BY <1>5, <1>9, <2>1, SameIndex DEF IInv, TypeInv
  <2> QED BY <1>3, <1>7, <1>9, <2>3, <2>4 DEF IInv, EntriesInv, SuggestInv, LookupCorrect,
            SuggestsBestOfWalk
<1>10. CASE /\ query = FirstOn(m)
            /\ Answer(TRUE, m * Entries, m * Entries)
            /\ UNCHANGED <<from, to>>
  <2>1. m * Entries \in Positions /\ Key(m * Entries) = query
    BY <1>1, <1>4, <1>10, PagesSorted
  <2> HIDE DEF m
  <2>2. pc' = "done" /\ found' = TRUE /\ idx' = m * Entries /\ suggest' = m * Entries
    BY <1>10 DEF Answer
  <2>3. TypeInv'  BY <1>5, <1>10, <2>1, <2>2, SameIndex DEF IInv, TypeInv, Steps
  <2>4. LookupCorrect'  BY <1>5, <2>1, <2>2, SameIndex DEF LookupCorrect
  <2>5. SuggestsBestOfWalk'  BY <2>2 DEF SuggestsBestOfWalk
  <2> QED BY <1>7, <2>2, <2>3, <2>4, <2>5 DEF IInv, PagesInv, EntriesInv, SuggestInv
<1> QED BY <1>8, <1>9, <1>10 DEF ProbePage

\* The page chosen begins below the query and the next one above it.
LEMMA ChoosePageStep == IInv /\ ChoosePage => IInv'
<1> SUFFICES ASSUME IInv, ChoosePage PROVE IInv'  OBVIOUS
<1>1. Shape /\ query \in Int  BY IndexAssumption DEF IInv, TypeInv
<1>2. WordCount \in Nat \ {0} /\ LastPage \in Nat /\ LastPage <= Last /\ Last = WordCount - 1
  BY <1>1, KeyFacts, PageFacts DEF Positions, Last
<1>3. /\ pc = "pages" /\ from \in 0 .. LastPage + 1 /\ to \in -1 .. LastPage
      /\ from <= to + 1 /\ from > to
      /\ \A p \in 0 .. LastPage : p < from => FirstOn(p) < query
      /\ \A p \in 0 .. LastPage : p > to => FirstOn(p) > query
  BY DEF IInv, PagesInv, ChoosePage
<1>4. /\ index' = index /\ query' = query /\ best' = best /\ suggest' = suggest
      /\ found' = found /\ pc' = "entries" /\ idx' = to /\ page' = to
      /\ from' = 1 /\ to' = EntriesOn(to) - 1
  BY DEF ChoosePage
<1>5. FirstOn(0) = Key(0) /\ FirstOn(0) \in Int
  <2>1. 0 \in 0 .. LastPage /\ Entries \in Nat  BY <1>2, IndexAssumption
  <2>2. 0 * Entries = 0  BY <2>1, SMT
  <2> QED BY <1>1, <2>1, <2>2, PagesSorted
<1>6. to >= 0
  <2>1. to = -1 => FirstOn(0) > query  BY <1>2, <1>3
  <2>2. Key(0) <= query  BY <1>3 DEF IInv, RangeInv
  <2> QED BY <1>1, <1>3, <1>5, <2>1, <2>2
<1>7. to \in 0 .. LastPage /\ to < from /\ to + 1 > to  BY <1>2, <1>3, <1>6
<1>8. EntriesOn(to) \in 1 .. Entries /\ \A j \in 0 .. EntriesOn(to) - 1 : to * Entries + j \in Positions
  BY <1>1, <1>7, PageFacts
<1>9. EntriesOn(to) - 1 \in -1 .. WordCount
  <2>1. Entries \in Nat /\ to \in Nat  BY <1>7, IndexAssumption
  <2>2. to * Entries \in Nat  BY <2>1, SMT
  <2>3. EntriesOn(to) - 1 \in 0 .. EntriesOn(to) - 1  BY <1>8, <2>1
  <2>4. to * Entries + (EntriesOn(to) - 1) \in Positions  BY <1>8, <2>3
  <2> QED BY <1>2, <1>8, <2>1, <2>2, <2>4 DEF Positions
<1>10. to \in Positions  BY <1>2, <1>7 DEF Positions
<1>11. TypeInv'
  BY <1>4, <1>7, <1>9, <1>10, SameIndex DEF IInv, TypeInv, Steps
<1>12. RangeInv'  BY <1>3, <1>4, SameIndex DEF IInv, RangeInv
<1>13. EntriesInv'
  <2>1. 1 \in 1 .. EntriesOn(to) /\ EntriesOn(to) - 1 \in 0 .. EntriesOn(to) - 1
        /\ 1 <= EntriesOn(to) - 1 + 1
    BY <1>8, IndexAssumption
  <2>2. to < LastPage => FirstOn(to + 1) > query
    <3>1. to < LastPage => to + 1 \in 0 .. LastPage  BY <1>2, <1>7
    <3> QED BY <1>3, <1>7, <3>1
  <2>3. \A j \in 0 .. EntriesOn(to) - 1 : j < 1 => Entry(to, j) < query
    <3>1. Entry(to, 0) < query  BY <1>1, <1>3, <1>7, PagesSorted
    <3>2. \A j \in 0 .. EntriesOn(to) - 1 : j < 1 => j = 0  BY <1>8
    <3> QED BY <3>1, <3>2
  <2>4. \A j \in 0 .. EntriesOn(to) - 1 : ~(j > EntriesOn(to) - 1)  BY <1>8
  <2> QED BY <1>4, <2>1, <2>2, <2>3, <2>4, SameIndex DEF EntriesInv
<1> QED BY <1>4, <1>11, <1>12, <1>13 DEF IInv, PagesInv, SuggestInv, LookupCorrect,
             SuggestsBestOfWalk

\* Each probe of an entry excludes the half that cannot hold the word.
LEMMA ProbeEntryStep == IInv /\ ProbeEntry => IInv'
<1> SUFFICES ASSUME IInv, ProbeEntry PROVE IInv'  OBVIOUS
<1> DEFINE m == Middle
<1> DEFINE n == EntriesOn(page)
<1>1. Shape /\ query \in Int /\ page \in 0 .. LastPage
  BY IndexAssumption DEF IInv, TypeInv
<1>2. WordCount \in Nat \ {0} /\ LastPage \in Nat
  BY <1>1, KeyFacts, PageFacts DEF Positions
<1>3. /\ pc = "entries" /\ idx = page /\ from \in 1 .. n /\ to \in 0 .. n - 1
      /\ from <= to
      /\ page < LastPage => FirstOn(page + 1) > query
      /\ \A j \in 0 .. n - 1 : j < from => Entry(page, j) < query
      /\ \A j \in 0 .. n - 1 : j > to => Entry(page, j) > query
  BY DEF IInv, EntriesInv, ProbeEntry
<1>4. n \in Nat /\ to \in -1 .. WordCount  BY <1>1, PageFacts, IndexAssumption DEF IInv, TypeInv
<1>5. m \in from .. to /\ m \in 1 .. n - 1 /\ m \in 0 .. n - 1
  <2> HIDE DEF n
  <2> QED BY <1>3, <1>4 DEF Middle
<1>6. /\ index' = index /\ page' = page /\ query' = query /\ best' = best
  BY DEF ProbeEntry
<1>7. \A j \in 0 .. n - 1 : Entry(page, j) \in Int
      /\ \A k \in 0 .. n - 1 : j <= k => Entry(page, j) <= Entry(page, k)
  BY <1>1, PagesSorted
<1>8. RangeInv'  BY <1>3, <1>6, SameIndex DEF IInv, RangeInv, ProbeEntry, Answer
<1>9. CASE /\ query > Entry(page, m)
           /\ from' = m + 1
           /\ UNCHANGED <<pc, to, found, idx, suggest>>
  <2> HIDE DEF m, n
  <2>1. m + 1 \in Nat /\ m + 1 \in 1 .. n /\ m + 1 <= to + 1
    BY <1>3, <1>4, <1>5
  <2>2. \A j \in 0 .. n - 1 : j < m + 1 => Entry(page, j) < query
    <3>1. ASSUME NEW j \in 0 .. n - 1, j < m + 1 PROVE Entry(page, j) < query
      <4>1. j <= m  BY <1>4, <1>5, <3>1
      <4>2. Entry(page, j) <= Entry(page, m) /\ Entry(page, j) \in Int /\ Entry(page, m) \in Int
        BY <1>5, <1>7, <4>1
      <4> QED BY <1>1, <1>9, <4>2
    <3> QED BY <3>1
  <2>3. EntriesInv'
    BY <1>3, <1>6, <1>9, <2>1, <2>2, SameIndex DEF EntriesInv, n
  <2>4. TypeInv'  BY <1>6, <1>9, <2>1, SameIndex DEF IInv, TypeInv
  <2> QED BY <1>3, <1>8, <1>9, <2>3, <2>4 DEF IInv, PagesInv, SuggestInv, LookupCorrect,
            SuggestsBestOfWalk
<1>10. CASE /\ query < Entry(page, m)
            /\ to' = m - 1
            /\ UNCHANGED <<pc, from, found, idx, suggest>>
  <2> HIDE DEF m, n
  <2>1. m - 1 \in 0 .. n - 1 /\ m - 1 \in -1 .. WordCount /\ from <= m - 1 + 1
    BY <1>2, <1>3, <1>4, <1>5
  <2>2. \A j \in 0 .. n - 1 : j > m - 1 => Entry(page, j) > query
    <3>1. ASSUME NEW j \in 0 .. n - 1, j > m - 1 PROVE Entry(page, j) > query
      <4>1. m <= j  BY <1>4, <1>5, <3>1
      <4>2. Entry(page, m) <= Entry(page, j) /\ Entry(page, j) \in Int /\ Entry(page, m) \in Int
        BY <1>5, <1>7, <4>1
      <4> QED BY <1>1, <1>10, <4>2
    <3> QED BY <3>1
  <2>3. EntriesInv'
    BY <1>3, <1>6, <1>10, <2>1, <2>2, SameIndex DEF EntriesInv, n
  <2>4. TypeInv'  BY <1>6, <1>10, <2>1, SameIndex DEF IInv, TypeInv
  <2> QED BY <1>3, <1>8, <1>10, <2>3, <2>4 DEF IInv, PagesInv, SuggestInv, LookupCorrect,
            SuggestsBestOfWalk
<1>11. CASE /\ query = Entry(page, m)
            /\ Answer(TRUE, idx * Entries + m, idx * Entries + m)
            /\ UNCHANGED <<from, to>>
  <2> DEFINE i == page * Entries + m
  <2>1. i \in Positions /\ Key(i) = query
    BY <1>1, <1>5, <1>11, PageFacts, PagesSorted
  <2>2. pc' = "done" /\ found' = TRUE /\ idx' = i /\ suggest' = i
    BY <1>3, <1>11 DEF Answer
  <2> HIDE DEF i, m, n
  <2>3. TypeInv'  BY <1>6, <1>11, <2>1, <2>2, SameIndex DEF IInv, TypeInv, Steps
  <2>4. LookupCorrect'  BY <1>6, <2>1, <2>2, SameIndex DEF LookupCorrect
  <2>5. SuggestsBestOfWalk'  BY <2>2 DEF SuggestsBestOfWalk
  <2> QED BY <1>8, <2>2, <2>3, <2>4, <2>5 DEF IInv, PagesInv, EntriesInv, SuggestInv
<1> QED BY <1>9, <1>10, <1>11 DEF ProbeEntry

\* The place of a word that is not there is between the last entry below it and
\* the first above it, on the page searched or at the head of the next.
LEMMA NotFoundStep == IInv /\ NotFound => IInv'
<1> SUFFICES ASSUME IInv, NotFound PROVE IInv'  OBVIOUS
<1> DEFINE n == EntriesOn(page)
<1> DEFINE i == page * Entries + from
<1>1. Shape /\ query \in Keys /\ query \in Int /\ page \in 0 .. LastPage
  BY IndexAssumption DEF IInv, TypeInv
<1>2. WordCount \in Nat \ {0} /\ LastPage \in Nat /\ Last = WordCount - 1
      /\ Entries \in Nat \ {0}
  BY <1>1, KeyFacts, PageFacts, IndexAssumption DEF Positions, Last
<1>3. /\ pc = "entries" /\ idx = page /\ from \in 1 .. n /\ to \in 0 .. n - 1
      /\ from <= to + 1 /\ from > to
      /\ page < LastPage => FirstOn(page + 1) > query
      /\ \A j \in 0 .. n - 1 : j < from => Entry(page, j) < query
      /\ \A j \in 0 .. n - 1 : j > to => Entry(page, j) > query
  BY DEF IInv, EntriesInv, NotFound
<1>4. n \in 1 .. Entries /\ \A j \in 0 .. n - 1 : page * Entries + j \in Positions
  BY <1>1, PageFacts
<1>5. page * Entries \in Nat /\ i \in Nat /\ i >= 1
  <2>1. page \in Nat  BY <1>1, <1>2
  <2>2. page * Entries \in Nat  BY <1>2, <2>1, SMT
  <2> HIDE DEF n
  <2> QED BY <1>2, <1>3, <1>4, <2>2
<1>6. from - 1 \in 0 .. n - 1 /\ from - 1 < from /\ i - 1 = page * Entries + (from - 1)
  <2> HIDE DEF n
  <2> QED BY <1>2, <1>3, <1>4, <1>5
<1>7. Key(i - 1) < query
  <2> HIDE DEF n, i
  <2> QED BY <1>1, <1>3, <1>6, PagesSorted DEF n
<1>8. i \in Positions /\ query < Key(i)
  <2>1. CASE from < n
    <3>1. from \in 0 .. n - 1 /\ from > to
      <4> HIDE DEF n
      <4> QED BY <1>2, <1>3, <1>4, <2>1
    <3>2. i \in Positions  BY <1>4, <3>1
    <3>3. Entry(page, from) > query  BY <1>3, <3>1
    <3> QED BY <3>2, <3>3 DEF Entry
  <2>2. CASE from = n
    <3>1. page # LastPage
      <4>1. SUFFICES ASSUME page = LastPage PROVE FALSE  OBVIOUS
      <4>2. LastPage * Entries + EntriesOn(LastPage) = WordCount  BY <1>1, PageFacts
      <4>3. i = WordCount  BY <4>1, <4>2, <2>2
      <4>4. Key(Last) < query  BY <1>2, <1>7, <4>3
      <4>5. query <= Key(Last)  BY <1>3 DEF IInv, RangeInv
      <4>6. Last \in Positions  BY <1>2 DEF Positions
      <4>7. Key(Last) \in Int  BY <1>1, <4>6, KeyFacts
      <4> QED BY <1>1, <4>4, <4>5, <4>7
    <3>2. page < LastPage /\ page + 1 \in 0 .. LastPage  BY <1>1, <1>2, <3>1
    <3>3. n = Entries /\ i = (page + 1) * Entries /\ (page + 1) * Entries \in Positions
      BY <1>1, <2>2, <3>2, PageFacts
    <3> QED BY <1>3, <3>2, <3>3 DEF FirstOn
  <2> QED
    <3> HIDE DEF n, i
    <3> QED BY <1>2, <1>3, <1>4, <2>1, <2>2
<1>9. i \in 1 .. Last
  <2> HIDE DEF i
  <2> QED BY <1>2, <1>5, <1>8 DEF Positions
<1>10. page = (i - 1) \div Entries
  <2>1. from - 1 \in 0 .. Entries - 1 /\ page \in Int
    <3> HIDE DEF n
    <3> QED BY <1>1, <1>2, <1>4, <1>6
  <2>2. (page * Entries + (from - 1)) \div Entries = page
    BY <1>2, <2>1, DivisionIsUnique
  <2> HIDE DEF i
  <2> QED BY <1>6, <2>2
<1>11. Entry(page, i % Entries) \in Keys
  <2> HIDE DEF i, n
  <2>1. i > 0 /\ i % Entries \in 0 .. Entries - 1  BY <1>1, <1>2, <1>8, <1>9, PlaceFacts
  <2>2. CASE i % Entries # 0
    <3>1. Entry(page, i % Entries) = Key(i)  BY <1>1, <1>8, <1>10, <2>1, <2>2, BeforeFacts
    <3> QED BY <1>1, <1>8, <3>1, KeyFacts
  <2>3. CASE i % Entries = 0
    <3>1. PICK j \in Positions : Entry(page, i % Entries) = Key(j)
      BY <1>1, <1>8, <1>10, <2>1, <2>3, BeforeFacts
    <3> QED BY <1>1, <3>1, KeyFacts
  <2> QED BY <2>2, <2>3
<1>12. /\ index' = index /\ page' = page /\ query' = query /\ from' = from /\ to' = to
       /\ found' = found /\ pc' = "suggest" /\ idx' = i /\ suggest' = i
       /\ best' = Match[query][Entry(page, i % Entries)]
  BY <1>3 DEF NotFound
<1> HIDE DEF i, n
<1>13. best' \in Nat  BY <1>1, <1>11, <1>12, IndexAssumption
<1>14. TypeInv'
  BY <1>8, <1>12, <1>13, SameIndex DEF IInv, TypeInv, Steps
<1>15. SuggestInv'
  <2>1. i \in 0 .. i /\ ~(i < i)  BY <1>5, <1>9, <1>2
  <2>2. Between(idx)'
    BY <1>7, <1>8, <1>9, <1>12, SameIndex DEF Between
  <2>3. best' = AtPlace'
    <3>1. i % Entries # 0 => Entry(page, i % Entries) = Key(i)
      BY <1>1, <1>8, <1>9, <1>10, BeforeFacts
    <3>2. i % Entries = 0 => Entry(page, i % Entries) = Key(i - Entries)
      BY <1>1, <1>8, <1>9, <1>10, BeforeFacts
    <3> QED BY <1>12, <3>1, <3>2, SameIndex DEF AtPlace, Agree
  <2>4. Walked(suggest)'
    <3>1. i .. i - 1 = {}  BY <1>5
    <3> QED BY <1>12, <2>1, <3>1 DEF Walked
  <2> QED BY <1>10, <1>12, <2>1, <2>2, <2>3, <2>4, SameIndex DEF SuggestInv
<1> QED BY <1>12, <1>14, <1>15 DEF IInv, RangeInv, PagesInv, EntriesInv, LookupCorrect,
             SuggestsBestOfWalk

\* While it walks back, the word before the one suggested is read from its page.
LEMMA WalkFacts ==
    ASSUME IInv, pc = "suggest"
    PROVE  /\ idx \in Positions /\ idx > 0 /\ suggest \in Nat
           /\ suggest > 0 => /\ suggest - 1 \in Positions
                             /\ PageBefore = (suggest - 1) \div Entries
                             /\ Entry(PageBefore, (suggest - 1) % Entries) = Key(suggest - 1)
                             /\ PageBefore \in 0 .. LastPage
<1>1. Shape  BY DEF IInv, TypeInv
<1>2. WordCount \in Nat \ {0} /\ Last = WordCount - 1
  BY <1>1, KeyFacts DEF Last
<1>3. /\ Between(idx) /\ suggest \in 0 .. idx
      /\ suggest = idx => page = (idx - 1) \div Entries
      /\ suggest < idx => page = suggest \div Entries
  BY DEF IInv, SuggestInv
<1>4. idx \in Positions /\ idx \in 1 .. Last /\ suggest \in Positions
  BY <1>2, <1>3, BetweenOrders DEF IInv, Between, Positions
<1>5. ASSUME suggest > 0
      PROVE  /\ suggest - 1 \in Positions
             /\ PageBefore = (suggest - 1) \div Entries
             /\ Entry(PageBefore, (suggest - 1) % Entries) = Key(suggest - 1)
             /\ PageBefore \in 0 .. LastPage
  <2>1. suggest - 1 \in Positions
        /\ (suggest % Entries # 0 => (suggest - 1) \div Entries = suggest \div Entries)
    BY <1>1, <1>4, <1>5, BeforeFacts
  <2>2. PageBefore = (suggest - 1) \div Entries
    <3>1. CASE suggest = idx  BY <1>3, <3>1 DEF PageBefore
    <3>2. CASE suggest < idx  BY <1>3, <2>1, <3>2 DEF PageBefore
    <3>3. suggest = idx \/ suggest < idx  BY <1>2, <1>3, <1>4
    <3> QED BY <3>1, <3>2, <3>3
  <2> QED BY <1>1, <2>1, <2>2, PlaceFacts
<1> QED BY <1>2, <1>4, <1>5 DEF Positions

\* Where matches go with the order, the word the walk ends at is the best one
\* before the place.
LEMMA WalkEndsAtBest ==
    ASSUME IInv, pc = "suggest", OrderGoesWithMatch,
           suggest > 0 => Agree(suggest - 1) = 0 \/ Agree(suggest - 1) < best,
           NEW i \in Positions, i < idx
    PROVE  Agree(i) <= Agree(suggest)
<1>1. Shape /\ query \in Keys /\ Walked(suggest) /\ suggest \in 0 .. idx
      /\ (suggest = idx => best = AtPlace)
  BY DEF IInv, TypeInv, SuggestInv
<1>2. idx \in Positions /\ idx > 0 /\ idx \in Int /\ i \in Int
      /\ idx - 1 \in Positions /\ suggest \in Positions
  BY <1>1, WalkFacts, KeyFacts DEF Positions
<1>3. i <= idx - 1 /\ idx - 1 < idx  BY <1>2
<1>4. Agree(i) <= Agree(idx - 1)  BY <1>2, <1>3 DEF OrderGoesWithMatch
<1>5. Agree(i) \in Nat /\ Agree(idx - 1) \in Nat /\ Agree(suggest) \in Nat
  BY <1>1, <1>2, AgreeFacts
<1>6. CASE suggest < idx
  <2>1. suggest \in suggest .. idx - 1 /\ idx - 1 \in suggest .. idx - 1 /\ suggest <= idx - 1
    BY <1>1, <1>2, <1>6
  <2>2. Agree(idx - 1) <= Agree(suggest)  BY <1>1, <2>1 DEF Walked
  <2> QED BY <1>4, <1>5, <2>2
<1>7. CASE suggest = idx
  <2>1. Agree(idx - 1) = 0 \/ Agree(idx - 1) < AtPlace  BY <1>1, <1>2, <1>7
  <2>2. CASE Agree(idx - 1) = 0  BY <1>4, <1>5, <2>2
  <2>3. CASE Agree(idx - 1) < AtPlace /\ idx % Entries # 0
    <3>1. AtPlace = Agree(idx)  BY <1>1, <1>2, <2>3, PlaceCompared
    <3> QED BY <1>4, <1>5, <1>7, <2>3, <3>1
  <2>4. CASE Agree(idx - 1) < AtPlace /\ idx % Entries = 0
    <3>1. idx - Entries \in Positions /\ AtPlace = Agree(idx - Entries)
      BY <1>1, <1>2, <2>4, PlaceCompared
    <3>2. idx - Entries <= idx - 1  BY <1>2, IndexAssumption
    <3>3. Agree(idx - Entries) <= Agree(idx - 1)
      BY <1>2, <1>3, <3>1, <3>2 DEF OrderGoesWithMatch
    <3>4. Agree(idx - Entries) \in Nat  BY <1>1, <3>1, AgreeFacts
    <3> QED BY <1>5, <2>4, <3>1, <3>3, <3>4
  <2> QED BY <2>1, <2>2, <2>3, <2>4
<1> QED BY <1>1, <1>2, <1>6, <1>7

\* The answer of a walk back that ends.
LEMMA WalkAnswers ==
    ASSUME IInv, pc = "suggest", Answer(FALSE, idx, suggest),
           index' = index /\ query' = query,
           suggest > 0 => Agree(suggest - 1) = 0 \/ Agree(suggest - 1) < best
    PROVE  LookupCorrect' /\ SuggestsBestOfWalk'
<1>1. Between(idx) /\ Walked(suggest) /\ suggest \in 0 .. idx
      /\ (suggest = idx => best = AtPlace) /\ (suggest < idx => best = Agree(suggest))
  BY DEF IInv, SuggestInv
<1>2. /\ idx \in Positions
      /\ \A j \in Positions : IF j < idx THEN Key(j) < query ELSE Key(j) > query
  BY <1>1, BetweenOrders DEF IInv
<1>3. \A j \in Positions : Key(j) # query
  BY <1>2, KeyFacts, IndexAssumption DEF IInv, TypeInv
<1>4. idx # INVALID_INDEX
  BY <1>2, KeyFacts DEF IInv, TypeInv, INVALID_INDEX, Positions
<1>5. pc' = "done" /\ found' = FALSE /\ idx' = idx /\ suggest' = suggest  BY DEF Answer
<1>6. LookupCorrect'  BY <1>2, <1>3, <1>4, <1>5, SameIndex DEF LookupCorrect
<1>7. suggest <= idx /\ (suggest = idx \/ suggest < idx)
  <2>1. idx \in Int  BY <1>2, KeyFacts DEF IInv, TypeInv, Positions
  <2> QED BY <1>1, <2>1
<1>8. suggest > 0 => \/ Agree(suggest - 1) = 0
                     \/ Agree(suggest - 1) < IF suggest < idx THEN Agree(suggest) ELSE AtPlace
  BY <1>1, <1>7
<1>9. OrderGoesWithMatch => \A i \in Positions : i < idx => Agree(i) <= Agree(suggest)
  BY WalkEndsAtBest
<1>11. /\ suggest <= idx
       /\ \A i, j \in suggest .. idx - 1 : i <= j => Agree(j) # 0 /\ Agree(j) <= Agree(i)
       /\ suggest < idx => AtPlace <= Agree(idx - 1)
  BY <1>1, <1>7 DEF Walked
<1>12. /\ Positions' = Positions /\ \A i : Agree(i)' = Agree(i)
       /\ AtPlace' = AtPlace /\ OrderGoesWithMatch' = OrderGoesWithMatch
  BY <1>5, SameIndex, SameMatch
<1> HIDE DEF Agree, AtPlace, OrderGoesWithMatch
<1>13. SuggestsBestOfWalk'
  BY <1>5, <1>8, <1>9, <1>11, <1>12 DEF SuggestsBestOfWalk
<1> QED BY <1>6, <1>13

\* A step of the walk passes a word that agrees with no less, or answers.
LEMMA WalkBackStep == IInv /\ WalkBack => IInv'
<1> SUFFICES ASSUME IInv, WalkBack PROVE IInv'  OBVIOUS
<1> DEFINE k == suggest - 1
<1>1. Shape /\ query \in Keys /\ best \in Nat  BY DEF IInv, TypeInv
<1>2. /\ pc = "suggest" /\ suggest > 0 /\ page' = PageBefore
      /\ index' = index /\ query' = query /\ from' = from /\ to' = to
  BY DEF WalkBack
<1>3. /\ k \in Positions /\ PageBefore = k \div Entries /\ PageBefore \in 0 .. LastPage
      /\ Entry(PageBefore, k % Entries) = Key(k)
  BY <1>2, WalkFacts
<1>4. Agree(k) \in Nat /\ Match[query][Key(k)] = Agree(k)  BY <1>1, <1>3, AgreeFacts DEF Agree
<1>5. Between(idx) /\ suggest \in 0 .. idx /\ idx \in 1 .. Last /\ Walked(suggest)
      /\ (suggest = idx => best = AtPlace) /\ (suggest < idx => best = Agree(suggest))
  BY <1>2 DEF IInv, SuggestInv, Between
<1>6. Last \in Int  BY <1>1, KeyFacts DEF Last
<1>7. CASE /\ Agree(k) # 0 /\ Agree(k) >= best
           /\ best' = Agree(k) /\ suggest' = k
           /\ UNCHANGED <<pc, found, idx>>
  <2>1. k < idx /\ k \in 0 .. idx /\ k # idx /\ idx \in Int /\ k \in Int
    BY <1>2, <1>5, <1>6
  <2>2. \A i \in k .. idx - 1 : i = k \/ i \in suggest .. idx - 1
    BY <1>5, <1>6, <2>1
  <2>3. \A j \in suggest .. idx - 1 : Agree(j) # 0 /\ Agree(j) <= Agree(k)
    <3>1. ASSUME NEW j \in suggest .. idx - 1 PROVE Agree(j) # 0 /\ Agree(j) <= Agree(k)
      <4>1. suggest \in suggest .. idx - 1 /\ suggest <= j /\ suggest < idx
        BY <1>5, <1>6, <3>1
      <4>2. j \in Positions /\ suggest \in Positions
        BY <1>1, <1>5, <1>6, <3>1, KeyFacts DEF Positions, Last
      <4>3. Agree(j) # 0 /\ Agree(j) <= Agree(suggest)  BY <1>5, <4>1 DEF Walked
      <4>4. Agree(suggest) <= Agree(k)  BY <1>4, <1>5, <1>7, <4>1, <1>1
      <4>5. Agree(j) \in Nat /\ Agree(suggest) \in Nat  BY <1>1, <4>2, AgreeFacts
      <4> QED BY <1>4, <4>3, <4>4, <4>5
    <3> QED BY <3>1
  <2>4. \A i, j \in k .. idx - 1 : i <= j => Agree(j) # 0 /\ Agree(j) <= Agree(i)
    <3>1. ASSUME NEW i \in k .. idx - 1, NEW j \in k .. idx - 1, i <= j
          PROVE  Agree(j) # 0 /\ Agree(j) <= Agree(i)
      <4>1. CASE j = k
        <5>1. i = k  BY <2>1, <3>1, <4>1
        <5> QED BY <1>4, <1>7, <4>1, <5>1
      <4>2. CASE j \in suggest .. idx - 1 /\ i = k  BY <2>3, <4>2
      <4>3. CASE j \in suggest .. idx - 1 /\ i \in suggest .. idx - 1
        BY <1>5, <3>1, <4>3 DEF Walked
      <4> QED BY <2>2, <4>1, <4>2, <4>3
    <3> QED BY <3>1
  <2>5. AtPlace <= Agree(idx - 1)
    <3>1. CASE suggest = idx  BY <1>4, <1>5, <1>7, <3>1
    <3>2. CASE suggest < idx  BY <1>5, <3>2 DEF Walked
    <3> QED BY <1>5, <1>6, <3>1, <3>2
  <2>6. Walked(k)  BY <2>4, <2>5 DEF Walked
  <2>7. Between(idx)'  BY <1>2, <1>5, <1>7, SameIndex DEF Between
  <2> HIDE DEF k
  <2>8. Walked(suggest)'
    <3>1. suggest' = k  BY <1>7
    <3>2. \A i : Agree(i)' = Agree(i)  BY <1>2, SameMatch
    <3>3. AtPlace' = AtPlace /\ idx' = idx  BY <1>2, <1>7, SameMatch
    <3> QED BY <2>4, <2>5, <3>1, <3>2, <3>3 DEF Walked
  <2>9. best' = Agree(suggest)'
    <3>1. \A i : Agree(i)' = Agree(i)  BY <1>2, SameMatch
    <3>2. Agree(suggest)' = Match[query][Key(k)]  BY <1>2, <1>7, SameIndex DEF Agree
    <3> QED BY <1>4, <1>7, <3>2
  <2>10. SuggestInv'
    BY <1>2, <1>3, <1>7, <2>1, <2>7, <2>8, <2>9, SameIndex DEF SuggestInv
  <2>11. TypeInv'
    BY <1>2, <1>3, <1>4, <1>7, SameIndex DEF IInv, TypeInv
  <2> QED BY <1>2, <1>7, <2>10, <2>11 DEF IInv, RangeInv, PagesInv, EntriesInv, LookupCorrect,
            SuggestsBestOfWalk
<1>8. CASE /\ Agree(k) = 0 \/ Agree(k) < best
           /\ Answer(FALSE, idx, suggest)
           /\ UNCHANGED best
  <2>2. LookupCorrect' /\ SuggestsBestOfWalk'
    BY <1>2, <1>8, WalkAnswers
  <2>3. pc' = "done" /\ found' = FALSE /\ idx' = idx /\ suggest' = suggest
    BY <1>8 DEF Answer
  <2>4. TypeInv'
    BY <1>2, <1>3, <1>8, <2>3, SameIndex DEF IInv, TypeInv, Steps
  <2> QED BY <2>2, <2>3, <2>4 DEF IInv, RangeInv, PagesInv, EntriesInv, SuggestInv
<1> QED BY <1>3, <1>4, <1>7, <1>8 DEF WalkBack

\* At the first word of the index the walk ends.
LEMMA WalkEndsStep == IInv /\ WalkEnds => IInv'
<1> SUFFICES ASSUME IInv, WalkEnds PROVE IInv'  OBVIOUS
<1>1. /\ pc = "suggest" /\ suggest = 0 /\ Answer(FALSE, idx, suggest)
      /\ index' = index /\ page' = page /\ query' = query /\ from' = from /\ to' = to
      /\ best' = best
  BY DEF WalkEnds
<1>2. LookupCorrect' /\ SuggestsBestOfWalk'
  BY <1>1, WalkAnswers
<1>3. pc' = "done" /\ found' = FALSE /\ idx' = idx /\ suggest' = suggest
  BY <1>1 DEF Answer
<1>4. TypeInv'  BY <1>1, <1>3, SameIndex DEF IInv, TypeInv, Steps
<1> QED BY <1>2, <1>3, <1>4 DEF IInv, RangeInv, PagesInv, EntriesInv, SuggestInv

\* Every step keeps the invariant.
LEMMA StepInvariant == IInv /\ [Next]_vars => IInv'
<1> SUFFICES ASSUME IInv, [Next]_vars PROVE IInv'  OBVIOUS
<1>1. CASE GetKey  BY <1>1, GetKeyStep
<1>2. CASE Lookup  BY <1>2, LookupStep
<1>3. CASE ProbePage  BY <1>3, ProbePageStep
<1>4. CASE ChoosePage  BY <1>4, ChoosePageStep
<1>5. CASE ProbeEntry  BY <1>5, ProbeEntryStep
<1>6. CASE NotFound  BY <1>6, NotFoundStep
<1>7. CASE WalkBack  BY <1>7, WalkBackStep
<1>8. CASE WalkEnds  BY <1>8, WalkEndsStep
<1>9. CASE UNCHANGED vars
  <2>1. /\ index' = index /\ page' = page /\ pc' = pc /\ query' = query /\ from' = from
        /\ to' = to /\ idx' = idx /\ suggest' = suggest /\ best' = best /\ found' = found
    BY <1>9 DEF vars
  <2>2. TypeInv' /\ RangeInv'
    BY <2>1, SameIndex DEF IInv, TypeInv, RangeInv
  <2>3. PagesInv' /\ EntriesInv'
    BY <2>1, SameIndex DEF IInv, PagesInv, EntriesInv
  <2>4. SuggestInv'
    <3>1. Between(idx)' <=> Between(idx)  BY <2>1, SameIndex DEF Between
    <3>2. /\ Walked(suggest)' <=> Walked(suggest)
          /\ Agree(suggest)' = Agree(suggest) /\ AtPlace' = AtPlace
      BY <2>1, SameMatch DEF Walked
    <3> QED BY <2>1, <3>1, <3>2, SameIndex DEF IInv, SuggestInv
  <2>5. LookupCorrect' /\ SuggestsBestOfWalk'
    <3>1. LookupCorrect'  BY <2>1, SameIndex DEF IInv, LookupCorrect
    <3>2. /\ Positions' = Positions /\ \A i : Agree(i)' = Agree(i)
          /\ AtPlace' = AtPlace /\ OrderGoesWithMatch' = OrderGoesWithMatch
      BY <2>1, SameIndex, SameMatch
    <3>3. SuggestsBestOfWalk'
      BY <2>1, <3>2 DEF IInv, SuggestsBestOfWalk
    <3> QED BY <3>1, <3>3
  <2> QED BY <2>2, <2>3, <2>4, <2>5 DEF IInv
<1> QED BY <1>1, <1>2, <1>3, <1>4, <1>5, <1>6, <1>7, <1>8, <1>9 DEF Next, Search

\* The invariant holds throughout.
LEMMA Invariant == Spec => []IInv
<1>1. Init => IInv  BY InitInvariant
<1>2. IInv /\ [Next]_vars => IInv'  BY StepInvariant
<1> QED BY <1>1, <1>2, PTL DEF Spec

-----------------------------------------------------------------------------
(* The theorems.                                                           *)

\* The variables of lookup() keep their types: every position it answers with is
\* one of the index.
THEOREM TypeCorrect == Spec => []TypeOK
<1>1. IInv => TypeOK  BY DEF IInv, TypeInv, Shape, TypeOK
<1> QED BY <1>1, Invariant, PTL

\* lookup() finds a word exactly if the index has it, and else its place, for
\* every sorted index, page size and query, whatever page was in memory.
THEOREM LookupIsCorrect == Spec => []LookupCorrect
<1>1. IInv => LookupCorrect  BY DEF IInv
<1> QED BY <1>1, Invariant, PTL

\* The word suggested is the end of a walk of words each of which agrees with no
\* less of the query than the next, and where matches go with the order the best
\* before the place, although at a page boundary the walk starts from a word of
\* the wrong page (the walk back at the end of lookup()).
THEOREM SuggestionIsBest == Spec => []SuggestsBestOfWalk
<1>1. IInv => SuggestsBestOfWalk  BY DEF IInv
<1> QED BY <1>1, Invariant, PTL

\* lookup() reads pages and entries that exist, and the assertion of
\* read_first_on_page_key never fails.
THEOREM ReadsStayInside == Spec => []ReadsExist
<1>1. IInv => ReadsExist
  <2> SUFFICES ASSUME IInv PROVE ReadsExist  OBVIOUS
  <2>1. Shape /\ page \in 0 .. LastPage  BY DEF IInv, TypeInv
  <2>2. LastPage \in Nat /\ LastPage + 1 < NPages /\ NPages \in Int
    <3>1. LastPage \in Nat /\ WordCount \in Nat  BY <2>1, PageFacts, KeyFacts DEF Positions
    <3>2. NPages = (WordCount - 1) \div Entries + 2  BY DEF NPages
    <3>3. (WordCount - 1) \div Entries \in Int  BY <3>1, Division, IndexAssumption
    <3> QED BY <3>1, <3>2, <3>3 DEF LastPage
  <2>3. EntriesOn(page) \in Nat  BY <2>1, PageFacts, IndexAssumption
  <2>4. pc = "pages" /\ from <= to => Middle >= 0 /\ Middle + 1 < NPages
    <3>1. SUFFICES ASSUME pc = "pages", from <= to PROVE Middle \in 0 .. LastPage
      BY <2>2
    <3>2. from \in Nat /\ to \in Int /\ to <= LastPage
      BY <2>2, <3>1 DEF IInv, PagesInv
    <3> QED BY <2>2, <3>1, <3>2 DEF Middle
  <2>5. pc = "entries" => page \in 0 .. LastPage /\ idx = page
    BY <2>1 DEF IInv, EntriesInv
  <2>6. pc = "entries" /\ from <= to => Middle \in 0 .. EntriesOn(page) - 1
    <3>1. SUFFICES ASSUME pc = "entries", from <= to
                   PROVE  Middle \in 0 .. EntriesOn(page) - 1
      OBVIOUS
    <3>2. from \in Nat /\ to \in Nat /\ to <= EntriesOn(page) - 1
      BY <2>3, <3>1 DEF IInv, EntriesInv
    <3> QED BY <2>3, <3>1, <3>2 DEF Middle
  <2>7. pc = "suggest" /\ suggest > 0 => PageBefore = (suggest - 1) \div Entries
    BY WalkFacts
  <2> QED BY <2>4, <2>5, <2>6, <2>7 DEF ReadsExist
<1> QED BY <1>1, Invariant, PTL
=============================================================================
