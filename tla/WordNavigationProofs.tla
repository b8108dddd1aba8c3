------------------------ MODULE WordNavigationProofs ------------------------
(***************************************************************************)
(* Theorems about WordNavigation, for every set of words and dictionaries  *)
(* and every spread of the words over files and pages.                     *)
(***************************************************************************)
EXTENDS WordNavigation, FiniteSetTheorems, TLAPS

WordsOK ==
    /\ words \in [Files -> Seq(Words)]
    /\ \A f \in Files : Len(words[f]) \in 1 .. MaxLength

\* Where the cursor of a column may be.
Spots(c) ==
    IF HasFile(c) THEN {UNSET_INDEX, INVALID_INDEX} \cup Positions(FileOf(c)) ELSE {UNSET_INDEX}

RowOK(row) == row \in [Columns -> Int] /\ \A c \in Columns : row[c] \in Spots(c)

Pagings == [Files -> UNION {Pages(f) : f \in Files}]

\* A pointer set to a word, whose page need not be in memory.
PointsAt(p) == p[1] \in Columns /\ HasFile(p[1]) /\ p[2] \in Positions(FileOf(p[1]))

\* What the step s at column c knows of the pointer: the loops that choose have
\* set it at an earlier column, and on the way back it is where the cursor of its
\* column will go.
PointerOK(s, c, row, p) ==
    /\ p = NoPtr \/ PointsAt(p)
    /\ s \in {"skip", "advance", "skipPrev", "stepBack"} => p # NoPtr
    /\ s \in {"choose", "current", "choosePrev"} => p = NoPtr \/ p[1] < c
    /\ s \in {"choosePrev", "skipPrev", "stepBack"} =>
          p = NoPtr \/ p[2] = PrevPos(FileOf(p[1]), row[p[1]])

IInv ==
    /\ mask \in Masks /\ WordsOK
    /\ page \in Pagings /\ RowOK(cur)
    /\ pc \in Steps /\ col \in 1 .. 2 * Len(mask) + 1
    /\ key \in Words \cup {NoWord} /\ sent \in Seq(Words)
    /\ PointerOK(pc, col, cur, ptr)

-----------------------------------------------------------------------------
(* The words still before the cursors, and what each loop knows of them.   *)

\* The words of column c at or after the position p.
Rest(c, p) == IF p >= 0 THEN {At(FileOf(c), q) : q \in p .. Last(FileOf(c))} ELSE {}

\* The words of column c before the cursor p.
FileWords(c) == IF HasFile(c) THEN {At(FileOf(c), q) : q \in Positions(FileOf(c))} ELSE {}
Until(c, p) ==
    CASE p = INVALID_INDEX -> FileWords(c)
      [] p = UNSET_INDEX -> {}
      [] p \in Nat -> {v \in FileWords(c) : v < At(FileOf(c), p)}

WordsUntil(row) == UNION {Until(c, row[c]) : c \in Columns}

\* The word of the pointer p.
Pointed(p) == At(FileOf(p[1]), p[2])

FirstAbove(w) == IF Above(w - 1) = {} THEN {} ELSE Above(Min(Above(w - 1)))
NotLeast(S) == {v \in S : \E u \in S : u < v}

\* The columns before n have been put on the word k.
PutOn(n, row, k) == \A c \in Columns : c < n => row[c] \in Places(c, k)

\* Of the columns before n, none is before the pointer p, or p is of the column.
LeastSoFar(n, row, p) ==
    /\ p # NoPtr => row[p[1]] = p[2]
    /\ \A c \in Columns : c < n /\ row[c] >= 0 => p # NoPtr /\ Pointed(p) <= At(FileOf(c), row[c])

GreatestSoFar(n, row, p) ==
    /\ p # NoPtr => Pointed(p) \in Until(p[1], row[p[1]])
    /\ \A c \in Columns : c < n => \A v \in Until(c, row[c]) : p # NoPtr /\ v <= Pointed(p)

\* The columns before n have gone past the word of the pointer p.
GonePast(n, row, p) ==
    \A c \in Columns : c < n /\ c # p[1] /\ row[c] >= 0 => Pointed(p) < At(FileOf(c), row[c])

GoneBack(n, row, p) ==
    \A c \in Columns : \A v \in Until(c, row[c]) :
        v <= Pointed(p) /\ (c < n /\ c # p[1] => v < Pointed(p))

Nearest(p, wanted) == Pointed(p) \in wanted /\ \A v \in wanted : v <= Pointed(p)

AllColumns == 2 * Len(mask) + 1

\* Upwards, in the step s at column c: how the words wanted relate to the cursors.
UpInv(s, c, row, p, k, cmd, st, g, wanted) ==
    /\ s \in {"choose", "skip", "advance", "current"} => cmd \in {"lookup", "next"}
    /\ s \in {"choose", "current"} => LeastSoFar(c, row, p)
    /\ s = "choose" /\ k # NoWord => st = <<>> /\ g = FirstAbove(k) /\ PutOn(c, row, k)
    /\ s = "choose" /\ k = NoWord => wanted = NotLeast(WordsFrom(row))
    /\ s \in {"skip", "advance"} =>
          /\ LeastSoFar(AllColumns, row, p)
          /\ wanted = {v \in WordsFrom(row) : v > Pointed(p)}
          /\ GonePast(IF s = "skip" THEN c ELSE AllColumns, row, p)
    /\ s = "current" => wanted = WordsFrom(row)
    /\ s = "send" /\ cmd # "previous" => LeastSoFar(AllColumns, row, p) /\ wanted = WordsFrom(row)

\* And downwards.
DownInv(s, c, row, p, k, cmd, st, g, wanted) ==
    /\ s \in {"choosePrev", "skipPrev", "stepBack"} => cmd = "previous"
    /\ s = "choosePrev" => GreatestSoFar(c, row, p)
    /\ s = "choosePrev" /\ k # NoWord => st = <<>> /\ g = Below(k) /\ PutOn(c, row, k)
    /\ s = "choosePrev" /\ k = NoWord => wanted = WordsUntil(row)
    /\ s \in {"skipPrev", "stepBack"} =>
          /\ Nearest(p, wanted)
          /\ {v \in wanted : v < Pointed(p)} = {v \in WordsUntil(row) : v < Pointed(p)}
          /\ GoneBack(IF s = "skipPrev" THEN c ELSE AllColumns, row, p)
    /\ s = "send" /\ cmd = "previous" =>
          /\ p = NoPtr => wanted = {}
          /\ p # NoPtr => Nearest(p, wanted) /\ WordsUntil(row) = {v \in wanted : v < Pointed(p)}

AllSorted == \A f \in Files : Sorted(words[f])

\* Of a list in which no word was read from another page than it was on.
ListInv ==
    /\ AllSorted
    /\ goal \subseteq Words /\ places \in 1 .. MaxCount
    /\ command \in {"none", "lookup", "next", "previous"}
    /\ pc # "idle" => command # "none" /\ Len(sent) < places
    /\ pc \in {"advance", "stepBack", "send"} => col = 1
    /\ UpInv(pc, col, cur, ptr, key, command, sent, goal, Wanted)
    /\ DownInv(pc, col, cur, ptr, key, command, sent, goal, Wanted)

-----------------------------------------------------------------------------
(* Lemmas about least and greatest positions.                              *)

\* Of some subsets of an interval, one has no other below it.
LEMMA LeastSubset ==
  ASSUME NEW n \in Nat, NEW T \in SUBSET SUBSET (0 .. n), T # {}
  PROVE  \E a \in T : \A b \in T : b \subseteq a => b = a
<1>1. IsFiniteSet(0 .. n) BY FS_Interval
<1>2. T \subseteq FiniteSubsetsOf(0 .. n) BY <1>1, FS_FiniteSubsetsOfFinite
<1>3. IsWellFoundedOn(StrictSubsetOrdering(0 .. n), FiniteSubsetsOf(0 .. n))
  BY FS_StrictSubsetOrderingWellFounded
<1>4. PICK a \in T : \A b \in T : ~ (<<b, a>> \in StrictSubsetOrdering(0 .. n))
  BY <1>2, <1>3, WFMin
<1> QED BY <1>4 DEF StrictSubsetOrdering

\* A set of positions has a least one.
LEMMA MinExists ==
  ASSUME NEW n \in Nat, NEW S \in SUBSET (0 .. n), S # {}
  PROVE  Min(S) \in S /\ \A y \in S : Min(S) <= y
<1> DEFINE UpTo(x) == {y \in S : y <= x}
           T == {UpTo(x) : x \in S}
<1>1. \A x, y, z \in S : x \in Int /\ (x <= y /\ y <= z => x <= z) OBVIOUS
<1>2. T \in SUBSET SUBSET (0 .. n) /\ T # {} OBVIOUS
<1> HIDE DEF T
<1>3. PICK a \in T : \A b \in T : b \subseteq a => b = a BY <1>2, LeastSubset
<1>4. PICK m \in S : a = UpTo(m) BY <1>3 DEF T
<1>5. \A y \in S : m <= y
  <2> SUFFICES ASSUME NEW y \in S, y < m PROVE FALSE BY <1>1
  <2>1. UpTo(y) \in T BY DEF T
  <2>2. y <= m BY <1>1
  <2>3. UpTo(y) \subseteq UpTo(m) BY <2>2, <1>1
  <2>4. m \in UpTo(y) BY <2>1, <2>3, <1>1, <1>3, <1>4
  <2> QED BY <2>4, <1>1
<1> QED BY <1>5 DEF Min

\* And a greatest one.
LEMMA MaxExists ==
  ASSUME NEW n \in Nat, NEW S \in SUBSET (0 .. n), S # {}
  PROVE  Max(S) \in S /\ \A y \in S : Max(S) >= y
<1> DEFINE From(x) == {y \in S : y >= x}
           T == {From(x) : x \in S}
<1>1. \A x, y, z \in S : x \in Int /\ (x >= y /\ y >= z => x >= z) OBVIOUS
<1>2. T \in SUBSET SUBSET (0 .. n) /\ T # {} OBVIOUS
<1> HIDE DEF T
<1>3. PICK a \in T : \A b \in T : b \subseteq a => b = a BY <1>2, LeastSubset
<1>4. PICK m \in S : a = From(m) BY <1>3 DEF T
<1>5. \A y \in S : m >= y
  <2> SUFFICES ASSUME NEW y \in S, y > m PROVE FALSE BY <1>1
  <2>1. From(y) \in T BY DEF T
  <2>2. y >= m BY <1>1
  <2>3. From(y) \subseteq From(m) BY <2>2, <1>1
  <2>4. m \in From(y) BY <2>1, <2>3, <1>1, <1>3, <1>4
  <2> QED BY <2>4, <1>1
<1> QED BY <1>5 DEF Max

-----------------------------------------------------------------------------
(* Lemmas about files, cursors and pages.                                  *)

\* The mask and its columns.
LEMMA MaskOK ==
  ASSUME IInv
  PROVE  /\ mask \in Seq(Dicts) /\ Len(mask) \in Nat \ {0}
         /\ \A c \in Columns : c \in Int
BY NavigationAssumption DEF IInv, Columns

\* A file has a last word, and no more than MaxLength.
LEMMA PositionsOK ==
  ASSUME IInv, NEW f \in Files
  PROVE  /\ Len(words[f]) - 1 \in Nat /\ Len(words[f]) <= MaxLength
         /\ Last(f) \in Positions(f)
         /\ \A p \in Positions(f) : p \in 0 .. MaxLength - 1 /\ At(f, p) \in Words
<1>1. words[f] \in Seq(Words) /\ Len(words[f]) \in 1 .. MaxLength BY DEF IInv, WordsOK
<1>2. Len(words[f]) \in Nat BY <1>1
<1>3. MaxLength \in Nat BY NavigationAssumption
<1> QED BY <1>1, <1>2, <1>3 DEF Positions, Last, At

LEMMA NextPosOK ==
  ASSUME IInv, NEW f \in Files, NEW p
  PROVE  NextPos(f, p) \in Positions(f) \cup {INVALID_INDEX}
<1> DEFINE S == {q \in Positions(f) : q > p /\ At(f, q) # At(f, p)}
<1>1. Len(words[f]) - 1 \in Nat BY PositionsOK
<1>2. S \in SUBSET (0 .. Len(words[f]) - 1) BY DEF Positions
<1>3. CASE S # {}
  <2>1. Min(S) \in S BY <1>1, <1>2, <1>3, MinExists
  <2> QED BY <2>1, <1>3 DEF NextPos
<1>4. CASE S = {} BY <1>4 DEF NextPos
<1> QED BY <1>3, <1>4

LEMMA PrevPosOK ==
  ASSUME IInv, NEW f \in Files, NEW p
  PROVE  PrevPos(f, p) \in Positions(f) \cup {UNSET_INDEX}
<1> DEFINE S == {q \in Positions(f) : q < p /\ At(f, q) # At(f, p)}
<1>1. Len(words[f]) - 1 \in Nat /\ Last(f) \in Positions(f) BY PositionsOK
<1>2. S \in SUBSET (0 .. Len(words[f]) - 1) BY DEF Positions
<1>3. CASE S # {}
  <2>1. Max(S) \in S BY <1>1, <1>2, <1>3, MaxExists
  <2> QED BY <2>1, <1>1, <1>3 DEF PrevPos
<1>4. CASE S = {} BY <1>1, <1>4 DEF PrevPos
<1> QED BY <1>3, <1>4

\* A loop finds the cursor where it may be, looked up or not.
LEMMA CursorsOK ==
  ASSUME IInv, col \in Columns, NEW p \in Cursors(col)
  PROVE  p \in Spots(col)
<1>1. CASE ~Searching BY <1>1 DEF Cursors, IInv, RowOK
<1>2. CASE Searching
  <2> DEFINE f == FileOf(col)
             S == {q \in Positions(f) : At(f, q) > key}
  <2>1. p \in Places(col, key) BY <1>2 DEF Cursors
  <2>2. CASE ~HasFile(col) BY <2>1, <2>2 DEF Places, Spots
  <2>3. CASE HasFile(col) /\ S # {}
    <3>1. Len(words[f]) - 1 \in Nat BY <2>3, PositionsOK DEF HasFile
    <3>2. S \in SUBSET (0 .. Len(words[f]) - 1) BY DEF Positions
    <3>3. Min(S) \in S BY <3>1, <3>2, <2>3, MinExists
    <3> QED BY <2>1, <2>3, <3>3 DEF Places, Spots
  <2>4. CASE HasFile(col) /\ S = {} BY <2>1, <2>4 DEF Places, Spots
  <2> QED BY <2>2, <2>3, <2>4
<1> QED BY <1>1, <1>2

\* A spot is unset or in the file.
LEMMA SpotsOK ==
  ASSUME IInv, NEW c \in Columns, NEW p \in Spots(c)
  PROVE  /\ p \in Int
         /\ p >= 0 => HasFile(c) /\ p \in Positions(FileOf(c))
         /\ ~HasFile(c) => p = UNSET_INDEX
BY PositionsOK DEF Spots, Positions, HasFile, UNSET_INDEX, INVALID_INDEX

\* A lookup changes the page of its own file only.
LEMMA LookedOK ==
  ASSUME IInv, col \in Columns, NEW looked \in AfterLookup(col)
  PROVE  /\ looked \in Pagings
         /\ \A f \in Files : f # FileOf(col) => looked[f] = page[f]
         /\ ~HasFile(col) => looked = page
<1>1. page \in Pagings BY DEF IInv
<1>2. CASE ~Searching \/ ~HasFile(col) BY <1>1, <1>2 DEF AfterLookup
<1>3. CASE Searching /\ HasFile(col)
  <2>1. PICK g \in Pages(FileOf(col)) : looked = [page EXCEPT ![FileOf(col)] = g]
    BY <1>3 DEF AfterLookup
  <2>2. g \in UNION {Pages(f) : f \in Files} BY <1>3 DEF HasFile
  <2> QED BY <1>1, <1>3, <2>1, <2>2 DEF Pagings
<1> QED BY <1>2, <1>3

\* So does reading a word, and its page is in memory then.
LEMMA ReadOK ==
  ASSUME NEW c, NEW p, HasFile(c), p \in Positions(FileOf(c)), NEW pages \in Pagings
  PROVE  /\ Read(pages, c, p) \in Pagings
         /\ Read(pages, c, p)[FileOf(c)] = PageOf(FileOf(c), p)
         /\ \A f \in Files : f # FileOf(c) => Read(pages, c, p)[f] = pages[f]
<1>1. FileOf(c) \in Files BY DEF HasFile
<1>2. PageOf(FileOf(c), p) \in UNION {Pages(f) : f \in Files} BY <1>1 DEF Pages
<1> QED BY <1>1, <1>2 DEF Pagings, Read

\* What a pointer points at is the word it was set to, while its page is in memory.
LEMMA PointedAt ==
  ASSUME NEW pages, NEW p, InPage(p, pages)
  PROVE  Texts(p, pages) = {At(FileOf(p[1]), p[2])}
BY DEF Texts

\* The invariant after a step, of what the step has changed.
LEMMA Preserved ==
  ASSUME IInv, words' = words, mask' = mask, page' \in Pagings, RowOK(cur'), pc' \in Steps,
         col' \in 1 .. 2 * Len(mask) + 1, key' \in Words \cup {NoWord}, sent' \in Seq(Words),
         PointerOK(pc', col', cur', ptr')
  PROVE  IInv'
<1>1. mask' \in Masks /\ WordsOK' BY DEF IInv, WordsOK, Files
<1>2. page' \in Pagings' BY DEF Pagings, Pages, Files, Positions
<1>3. RowOK(cur)' BY DEF RowOK, Spots, HasFile, Columns, FileOf, Files, Positions
<1>4. (ptr = NoPtr \/ PointsAt(ptr))'
  BY DEF PointerOK, PointsAt, HasFile, Columns, FileOf, Files, Positions, NoPtr
<1>5. (ptr[2] = PrevPos(FileOf(ptr[1]), cur[ptr[1]]))' <=> ptr'[2] = PrevPos(FileOf(ptr'[1]), cur'[ptr'[1]])
  BY DEF PrevPos, FileOf, Positions, Last, At
<1>6. PointerOK(pc, col, cur, ptr)' BY <1>4, <1>5 DEF PointerOK, NoPtr
<1> QED BY <1>1, <1>2, <1>3, <1>6 DEF IInv

LEMMA RowSet ==
  ASSUME IInv, NEW c \in Columns, NEW q \in Spots(c)
  PROVE  RowOK([cur EXCEPT ![c] = q])
<1>1. q \in Int BY SpotsOK
<1> QED BY <1>1 DEF IInv, RowOK

\* In a loop that chooses, the pointer is of an earlier column.
LEMMA Choosing ==
  ASSUME IInv, pc \in {"choose", "current", "choosePrev"}, col \in Columns, ptr # NoPtr
  PROVE  PointsAt(ptr) /\ ptr[1] \in Int /\ ptr[1] < col
<1>1. PointsAt(ptr) /\ ptr[1] < col BY DEF IInv, PointerOK
<1> QED BY <1>1, MaskOK DEF PointsAt

LEMMA NextColumn ==
  ASSUME IInv, col \in Columns
  PROVE  col \in Int /\ col >= 1 /\ col + 1 \in 1 .. 2 * Len(mask) + 1
BY MaskOK DEF Columns

\* A pointer at a word just read.
LEMMA NewPointer ==
  ASSUME IInv, col \in Columns, HasFile(col), NEW p \in Positions(FileOf(col))
  PROVE  <<col, p>> # NoPtr /\ PointsAt(<<col, p>>)
BY NextColumn DEF PointsAt, NoPtr

-----------------------------------------------------------------------------
(* The invariant, action by action.                                        *)

LEMMA BeginOK ==
  ASSUME IInv, NEW cmd, NEW step \in {"current", "choose", "choosePrev"},
         NEW w \in Words \cup {NoWord}, Begin(cmd, step, w), RowOK(cur')
  PROVE  IInv'
<1>1. /\ words' = words /\ mask' = mask /\ page' = page /\ pc' = step /\ key' = w
      /\ col' = 1 /\ ptr' = NoPtr /\ sent' = <<>>
  BY DEF Begin
<1>2. 1 \in 1 .. 2 * Len(mask) + 1 BY MaskOK
<1>3. PointerOK(pc', col', cur', ptr') BY <1>1 DEF PointerOK
<1>4. pc' \in Steps /\ page' \in Pagings BY <1>1 DEF Steps, IInv
<1> QED BY <1>1, <1>2, <1>3, <1>4, Preserved

LEMMA ListWordsOK == ASSUME IInv, ListWords PROVE IInv'
<1>1. RowOK(cur')
  <2>1. cur' \in [Columns -> Int]
    BY NavigationAssumption DEF ListWords, UNSET_INDEX, INVALID_INDEX
  <2>2. \A c \in Columns : cur'[c] \in Spots(c) BY DEF ListWords, Spots
  <2> QED BY <2>1, <2>2 DEF RowOK
<1>2. Begin("lookup", "current", NoWord) BY DEF ListWords
<1> QED BY <1>1, <1>2, BeginOK

LEMMA QueryOK ==
  ASSUME IInv, NEW w \in Words, NextWords(w) \/ PreviousWords(w)
  PROVE  IInv'
<1>1. RowOK(cur') BY DEF NextWords, PreviousWords, IInv
<1>2. Begin("next", "choose", w) \/ Begin("previous", "choosePrev", w)
  BY DEF NextWords, PreviousWords
<1> QED BY <1>1, <1>2, BeginOK

LEMMA ChooseOK == ASSUME IInv, Choose PROVE IInv'
<1>1. /\ pc \in {"choose", "current"} /\ col \in Columns /\ col' = col + 1
      /\ UNCHANGED <<words, mask, pc, key, sent>>
  BY DEF Choose
<1>2. PICK p \in Cursors(col), looked \in AfterLookup(col) :
         /\ cur' = [cur EXCEPT ![col] = p]
         /\ \/ p < 0 /\ page' = looked /\ UNCHANGED ptr
            \/ /\ p >= 0
               /\ page' = Read(looked, col, p)
               /\ ptr' = <<col, p>> \/ (ptr # NoPtr /\ ptr' = ptr)
  BY DEF Choose
<1>3. p \in Spots(col) BY <1>1, CursorsOK
<1>4. RowOK(cur') BY <1>1, <1>2, <1>3, RowSet
<1>5. /\ looked \in Pagings /\ \A f \in Files : f # FileOf(col) => looked[f] = page[f]
  BY <1>1, LookedOK
<1>6. page' \in Pagings /\ PointerOK(pc', col', cur', ptr')
  <2>1. CASE p < 0 /\ page' = looked /\ ptr' = ptr
    <3>1. CASE ptr = NoPtr BY <1>1, <1>5, <2>1, <3>1 DEF PointerOK
    <3>2. CASE ptr # NoPtr
      <4>1. PointsAt(ptr) /\ ptr[1] \in Int /\ ptr[1] < col BY <1>1, <3>2, Choosing
      <4> QED BY <1>1, <1>5, <2>1, <4>1, NextColumn DEF PointerOK
    <3> QED BY <3>1, <3>2
  <2>2. CASE p >= 0 /\ page' = Read(looked, col, p)
    <3>1. HasFile(col) /\ p \in Positions(FileOf(col)) BY <1>1, <1>3, <2>2, SpotsOK
    <3>2. page' \in Pagings
      BY <1>5, <2>2, <3>1, ReadOK
    <3>3. CASE ptr' = <<col, p>>
      <4>1. PointsAt(ptr') /\ ptr' # NoPtr BY <1>1, <3>1, <3>3, NewPointer
      <4>2. ptr'[1] < col' BY <1>1, <3>3, NextColumn
      <4> QED BY <1>1, <3>2, <4>1, <4>2 DEF PointerOK
    <3>4. CASE ptr # NoPtr /\ ptr' = ptr
      <4>1. PointsAt(ptr) /\ ptr[1] \in Int /\ ptr[1] < col BY <1>1, <3>4, Choosing
      <4> QED BY <1>1, <3>2, <3>4, <4>1, NextColumn DEF PointerOK
    <3> QED BY <1>2, <2>2, <3>3, <3>4, <1>3, SpotsOK, <1>1
  <2> QED BY <1>2, <2>1, <2>2
<1>7. /\ pc' \in Steps /\ col' \in 1 .. 2 * Len(mask) + 1
      /\ key' \in Words \cup {NoWord} /\ sent' \in Seq(Words)
  BY <1>1, NextColumn DEF IInv
<1> QED BY <1>1, <1>4, <1>6, <1>7, Preserved

LEMMA LoopEndsOK ==
  ASSUME IInv, NEW from, NEW to, LoopEnds(from, to),
         \/ from = "choose" /\ to = (IF ptr = NoPtr THEN "send" ELSE "skip")
         \/ from = "skip" /\ to = "advance"
         \/ from = "current" /\ to = "send"
         \/ from = "choosePrev" /\ to = (IF ptr = NoPtr THEN "send" ELSE "skipPrev")
         \/ from = "skipPrev" /\ to = "stepBack"
  PROVE  IInv'
<1>1. /\ pc = from /\ pc' = to /\ col' = 1
      /\ UNCHANGED <<words, mask, page, cur, ptr, key, sent>>
  BY DEF LoopEnds
<1>2. PointerOK(pc', col', cur', ptr') BY <1>1 DEF IInv, PointerOK
<1>3. /\ pc' \in Steps /\ page' \in Pagings /\ RowOK(cur') /\ col' \in 1 .. 2 * Len(mask) + 1
      /\ key' \in Words \cup {NoWord} /\ sent' \in Seq(Words)
  BY <1>1, MaskOK DEF IInv, Steps
<1> QED BY <1>1, <1>2, <1>3, Preserved

LEMMA AdvanceOK ==
  ASSUME IInv, NEW c \in Columns, HasFile(c), NEW pages \in Pagings, Advance(c, pages)
  PROVE  /\ RowOK(cur') /\ page' \in Pagings
         /\ \A f \in Files : f # FileOf(c) => page'[f] = pages[f]
<1> DEFINE f == FileOf(c)
           n == NextPos(f, cur[c])
           p == IF n = INVALID_INDEX THEN Last(f) ELSE n
<1>1. f \in Files BY DEF HasFile
<1>2. n \in Positions(f) \cup {INVALID_INDEX} BY <1>1, NextPosOK
<1>3. n \in Spots(c) BY <1>2 DEF Spots
<1>4. p \in Positions(f) BY <1>1, <1>2, PositionsOK
<1>5. cur' = [cur EXCEPT ![c] = n] /\ page' = Read(pages, c, p) BY DEF Advance
<1> QED BY <1>3, <1>4, <1>5, RowSet, ReadOK

LEMMA SkipEqualOK == ASSUME IInv, SkipEqual PROVE IInv'
<1>1. /\ pc = "skip" /\ ptr # NoPtr /\ col \in Columns /\ col' = col + 1
      /\ UNCHANGED <<words, mask, pc, ptr, key, sent>>
  BY DEF SkipEqual, IInv, PointerOK
<1>2. /\ RowOK(cur') /\ page' \in Pagings /\ PointsAt(ptr)
  <2>1. CASE UNCHANGED <<cur, page>> BY <1>1, <2>1 DEF IInv, PointerOK
  <2>2. CASE ~ UNCHANGED <<cur, page>>
    <3> DEFINE pages == Read(page, col, cur[col])
    <3>1. /\ col # ptr[1] /\ cur[col] >= 0
          /\ Advance(col, pages) \/ (page' = pages /\ cur' = cur)
      BY <2>2 DEF SkipEqual
    <3>2. cur[col] \in Spots(col) BY <1>1 DEF IInv, RowOK
    <3>3. HasFile(col) /\ cur[col] \in Positions(FileOf(col)) BY <1>1, <3>1, <3>2, SpotsOK
    <3>4. page \in Pagings BY DEF IInv
    <3>5. pages \in Pagings /\ \A f \in Files : f # FileOf(col) => pages[f] = page[f]
      BY <3>3, <3>4, ReadOK
    <3> HIDE DEF pages
    <3>6. /\ RowOK(cur') /\ page' \in Pagings
          /\ \A f \in Files : f # FileOf(col) => page'[f] = page[f]
      <4>1. CASE Advance(col, pages) BY <1>1, <3>3, <3>5, <4>1, AdvanceOK
      <4>2. CASE page' = pages /\ cur' = cur BY <3>5, <4>2 DEF IInv
      <4> QED BY <3>1, <4>1, <4>2
    <3> QED BY <1>1, <3>6 DEF IInv, PointerOK
  <2> QED BY <2>1, <2>2
<1>3. PointerOK(pc', col', cur', ptr') BY <1>1, <1>2 DEF PointerOK
<1>4. /\ pc' \in Steps /\ col' \in 1 .. 2 * Len(mask) + 1
      /\ key' \in Words \cup {NoWord} /\ sent' \in Seq(Words)
  BY <1>1, NextColumn DEF IInv
<1> QED BY <1>1, <1>2, <1>3, <1>4, Preserved

LEMMA AdvanceChosenOK == ASSUME IInv, AdvanceChosen PROVE IInv'
<1>1. /\ pc = "advance" /\ Advance(ptr[1], page) /\ pc' = "current" /\ ptr' = NoPtr
      /\ UNCHANGED <<words, mask, col, key, sent>>
  BY DEF AdvanceChosen
<1>2. PointsAt(ptr) /\ page \in Pagings BY <1>1 DEF IInv, PointerOK
<1>3. RowOK(cur') /\ page' \in Pagings BY <1>1, <1>2, AdvanceOK DEF PointsAt
<1>4. PointerOK(pc', col', cur', ptr') BY <1>1 DEF PointerOK
<1>5. /\ pc' \in Steps /\ col' \in 1 .. 2 * Len(mask) + 1
      /\ key' \in Words \cup {NoWord} /\ sent' \in Seq(Words)
  BY <1>1 DEF IInv, Steps
<1> QED BY <1>1, <1>3, <1>4, <1>5, Preserved

\* poGetPreWord looks at a column of a file only when something may stand before.
LEMMA BeforeOK ==
  ASSUME IInv, NEW c \in Columns, NEW p \in Spots(c), ~NoneBefore(p)
  PROVE  /\ HasFile(c) /\ FileOf(c) \in Files /\ 0 \in Positions(FileOf(c))
         /\ PrevPos(FileOf(c), p) \in Positions(FileOf(c)) \cup {UNSET_INDEX}
<1>1. HasFile(c) BY SpotsOK DEF NoneBefore, UNSET_INDEX, INVALID_INDEX
<1>2. FileOf(c) \in Files BY <1>1 DEF HasFile
<1>3. 0 \in Positions(FileOf(c)) BY <1>2, PositionsOK DEF Positions
<1> QED BY <1>1, <1>2, <1>3, PrevPosOK

LEMMA ChoosePrevOK == ASSUME IInv, ChoosePrev PROVE IInv'
<1>1. /\ pc = "choosePrev" /\ col \in Columns /\ col' = col + 1
      /\ UNCHANGED <<words, mask, pc, key, sent>>
  BY DEF ChoosePrev
<1>2. PICK p \in Cursors(col), looked \in AfterLookup(col) :
         LET q == PrevPos(FileOf(col), p) IN
         /\ cur' = [cur EXCEPT ![col] = p]
         /\ \/ NoneBefore(p) /\ page' = looked /\ ptr' = ptr
            \/ ~NoneBefore(p) /\ q = UNSET_INDEX /\ page' = Read(looked, col, 0) /\ ptr' = ptr
            \/ /\ ~NoneBefore(p) /\ q # UNSET_INDEX /\ page' = Read(looked, col, q)
               /\ ptr' = <<col, q>> \/ (ptr # NoPtr /\ ptr' = ptr)
  BY DEF ChoosePrev
<1> DEFINE q == PrevPos(FileOf(col), p)
<1>3. p \in Spots(col) BY <1>1, CursorsOK
<1>4. RowOK(cur') /\ cur'[col] = p /\ \A c \in Columns : c # col => cur'[c] = cur[c]
  BY <1>1, <1>2, <1>3, RowSet DEF IInv, RowOK
<1>5. looked \in Pagings /\ \A f \in Files : f # FileOf(col) => looked[f] = page[f]
  BY <1>1, LookedOK
<1>6. page' \in Pagings /\ \A f \in Files : f # FileOf(col) => page'[f] = page[f]
  <2>1. CASE page' = looked BY <1>5, <2>1
  <2>2. CASE ~NoneBefore(p) /\ q = UNSET_INDEX /\ page' = Read(looked, col, 0)
    BY <1>1, <1>3, <1>5, <2>2, BeforeOK, ReadOK
  <2>3. CASE ~NoneBefore(p) /\ q # UNSET_INDEX /\ page' = Read(looked, col, q)
    BY <1>1, <1>3, <1>5, <2>3, BeforeOK, ReadOK
  <2> QED BY <1>2, <2>1, <2>2, <2>3
<1>7. PointerOK(pc', col', cur', ptr')
  <2>1. CASE ptr' = ptr /\ ptr = NoPtr BY <1>1, <2>1 DEF PointerOK
  <2>2. CASE ptr' = ptr /\ ptr # NoPtr
    <3>1. PointsAt(ptr) /\ ptr[1] \in Int /\ ptr[1] < col BY <1>1, <2>2, Choosing
    <3>2. cur'[ptr[1]] = cur[ptr[1]] BY <1>1, <1>4, <3>1, NextColumn DEF PointsAt
    <3>3. ptr[2] = PrevPos(FileOf(ptr[1]), cur'[ptr[1]]) BY <1>1, <2>2, <3>2 DEF IInv, PointerOK
    <3> QED BY <1>1, <2>2, <3>1, <3>3, NextColumn DEF PointerOK
  <2>3. CASE ~NoneBefore(p) /\ q # UNSET_INDEX /\ page' = Read(looked, col, q) /\ ptr' = <<col, q>>
    <3>1. HasFile(col) /\ q \in Positions(FileOf(col)) BY <1>1, <1>3, <2>3, BeforeOK
    <3>3. PointsAt(ptr') /\ ptr' # NoPtr BY <1>1, <2>3, <3>1, NewPointer
    <3>4. ptr'[1] < col' BY <1>1, <2>3, NextColumn
    <3>5. ptr'[2] = PrevPos(FileOf(ptr'[1]), cur'[ptr'[1]]) BY <1>4, <2>3
    <3> QED BY <1>1, <3>3, <3>4, <3>5 DEF PointerOK
  <2> QED BY <1>2, <2>1, <2>2, <2>3
<1>8. /\ pc' \in Steps /\ col' \in 1 .. 2 * Len(mask) + 1
      /\ key' \in Words \cup {NoWord} /\ sent' \in Seq(Words)
  BY <1>1, NextColumn DEF IInv
<1> QED BY <1>1, <1>4, <1>6, <1>7, <1>8, Preserved

LEMMA SkipPrevOK == ASSUME IInv, SkipPrev PROVE IInv'
<1>1. /\ pc = "skipPrev" /\ ptr # NoPtr /\ col \in Columns /\ col' = col + 1
      /\ UNCHANGED <<words, mask, pc, ptr, key, sent>>
  BY DEF SkipPrev, IInv, PointerOK
<1>2. page \in Pagings /\ RowOK(cur) /\ PointsAt(ptr)
  BY <1>1 DEF IInv, PointerOK
<1>3. /\ RowOK(cur') /\ cur'[ptr[1]] = cur[ptr[1]]
      /\ page' \in Pagings /\ PointsAt(ptr)
  <2>1. CASE UNCHANGED <<cur, page>> BY <1>2, <2>1
  <2>2. CASE ~ UNCHANGED <<cur, page>>
    <3> DEFINE q == PrevPos(FileOf(col), cur[col])
    <3>1. /\ col # ptr[1] /\ ~NoneBefore(cur[col])
          /\ \/ q = UNSET_INDEX /\ page' = Read(page, col, 0) /\ cur' = cur
             \/ /\ q # UNSET_INDEX /\ page' = Read(page, col, q)
                /\ cur' = [cur EXCEPT ![col] = q] \/ cur' = cur
      BY <2>2 DEF SkipPrev
    <3>2. cur[col] \in Spots(col) BY <1>1, <1>2 DEF RowOK
    <3>3. /\ HasFile(col) /\ 0 \in Positions(FileOf(col))
          /\ q \in Positions(FileOf(col)) \cup {UNSET_INDEX}
      BY <1>1, <3>1, <3>2, BeforeOK
    <3>4. page' \in Pagings /\ \A f \in Files : f # FileOf(col) => page'[f] = page[f]
      BY <1>2, <3>1, <3>3, ReadOK
    <3>6. q \in Spots(col) BY <3>3 DEF Spots
    <3> HIDE DEF q
    <3>7. RowOK(cur') BY <1>1, <1>2, <3>1, <3>6, RowSet
    <3>8. cur'[ptr[1]] = cur[ptr[1]] BY <1>2, <3>1 DEF RowOK, PointsAt
    <3> QED BY <1>2, <3>4, <3>7, <3>8
  <2> QED BY <2>1, <2>2
<1>4. PointerOK(pc', col', cur', ptr') BY <1>1, <1>3 DEF PointerOK, IInv
<1>5. /\ pc' \in Steps /\ col' \in 1 .. 2 * Len(mask) + 1
      /\ key' \in Words \cup {NoWord} /\ sent' \in Seq(Words)
  BY <1>1, NextColumn DEF IInv
<1> QED BY <1>1, <1>3, <1>4, <1>5, Preserved

LEMMA StepBackOK == ASSUME IInv, StepBack PROVE IInv'
<1> DEFINE c == ptr[1]
           q == PrevPos(FileOf(c), cur[c])
<1>1. /\ pc = "stepBack" /\ ptr # NoPtr /\ pc' = "send"
      /\ cur' = [cur EXCEPT ![c] = q]
      /\ page' = page \/ page' = Read(page, c, q)
      /\ UNCHANGED <<words, mask, col, ptr, key, sent>>
  BY DEF StepBack, IInv, PointerOK
<1>2. PointsAt(ptr) /\ ptr[2] = q /\ page \in Pagings BY <1>1 DEF IInv, PointerOK
<1>3. c \in Columns /\ HasFile(c) /\ q \in Positions(FileOf(c)) BY <1>2 DEF PointsAt
<1>4. RowOK(cur') BY <1>1, <1>3, RowSet DEF Spots
<1>5. page' \in Pagings BY <1>1, <1>2, <1>3, ReadOK
<1>7. PointerOK(pc', col', cur', ptr') BY <1>1, <1>2 DEF PointerOK
<1>8. /\ pc' \in Steps /\ col' \in 1 .. 2 * Len(mask) + 1
      /\ key' \in Words \cup {NoWord} /\ sent' \in Seq(Words)
  BY <1>1 DEF IInv, Steps
<1> QED BY <1>1, <1>4, <1>5, <1>7, <1>8, Preserved

\* No cursor is set.
LEMMA UnsetOK == ASSUME IInv PROVE RowOK(Unset)
BY DEF Unset, RowOK, Spots, UNSET_INDEX

LEMMA SendOK == ASSUME IInv, Send \/ Exhausted PROVE IInv'
<1>1. /\ ptr' = NoPtr \/ (ptr = NoPtr /\ ptr' = ptr)
      /\ pc' \in {"idle", "choose", "choosePrev"} /\ key' = NoWord
      /\ cur' = cur \/ cur' = Unset
      /\ UNCHANGED <<words, mask, page, col>>
  BY DEF Send, Exhausted
<1>2. sent' \in Seq(Words)
  <2>1. CASE Exhausted BY <2>1 DEF Exhausted, IInv
  <2>2. CASE Send
    <3>1. PICK t \in Texts(ptr, page) : sent' = Append(sent, t) BY <2>2 DEF Send
    <3>2. PointsAt(ptr) BY <2>2 DEF Send, IInv, PointerOK
    <3>4. t \in Words BY <3>1, <3>2, PositionsOK DEF Texts, PointsAt, HasFile
    <3> QED BY <3>1, <3>4 DEF IInv
  <2> QED BY <2>1, <2>2
<1>3. RowOK(cur') BY <1>1, UnsetOK DEF IInv
<1>4. PointerOK(pc', col', cur', ptr') BY <1>1 DEF PointerOK
<1>5. /\ pc' \in Steps /\ page' \in Pagings /\ col' \in 1 .. 2 * Len(mask) + 1
      /\ key' \in Words \cup {NoWord}
  BY <1>1 DEF IInv, Steps
<1> QED BY <1>1, <1>2, <1>3, <1>4, <1>5, Preserved

-----------------------------------------------------------------------------
(* Lemmas about the words of files, before and after a cursor.             *)

\* The words of a file are in order.
LEMMA Ordered ==
  ASSUME IInv, ListInv, NEW f \in Files, NEW p \in Positions(f), NEW q \in Positions(f)
  PROVE  At(f, p) \in Int /\ (p <= q => At(f, p) <= At(f, q))
<1>1. At(f, p) \in Int BY PositionsOK, NavigationAssumption
<1>2. Sorted(words[f]) /\ Len(words[f]) \in Nat BY PositionsOK DEF ListInv, AllSorted, IInv, WordsOK
<1>3. p + 1 \in 1 .. Len(words[f]) /\ q + 1 \in 1 .. Len(words[f]) BY <1>2 DEF Positions
<1>4. p <= q => p + 1 <= q + 1 BY <1>3 DEF Positions
<1> QED BY <1>1, <1>2, <1>3, <1>4 DEF Sorted, At

\* The words of a column are integers.
LEMMA FileWordsOK ==
  ASSUME IInv, NEW c \in Columns
  PROVE  FileWords(c) \subseteq Words /\ FileWords(c) \subseteq Int
BY PositionsOK, NavigationAssumption DEF FileWords, HasFile

\* A cursor splits the words of its file.
LEMMA RestOK ==
  ASSUME IInv, NEW c \in Columns, NEW p \in Spots(c)
  PROVE  /\ Rest(c, p) \subseteq FileWords(c) /\ Until(c, p) \subseteq FileWords(c)
         /\ p >= 0 => At(FileOf(c), p) \in Rest(c, p) /\ Rest(c, p) # {}
         /\ p < 0 => Rest(c, p) = {}
         /\ ~HasFile(c) => Rest(c, p) = {} /\ Until(c, p) = {}
<1>1. p \in Int BY SpotsOK
<1>2. CASE p >= 0
  <2>1. HasFile(c) /\ FileOf(c) \in Files /\ p \in Positions(FileOf(c)) BY <1>2, SpotsOK DEF HasFile
  <2>2. p \in p .. Last(FileOf(c)) /\ p .. Last(FileOf(c)) \subseteq Positions(FileOf(c))
    BY <2>1, PositionsOK DEF Positions, Last
  <2>3. p # INVALID_INDEX /\ p # UNSET_INDEX /\ p \in Nat BY <1>1, <1>2 DEF INVALID_INDEX, UNSET_INDEX
  <2> QED BY <1>2, <2>1, <2>2, <2>3 DEF Rest, Until, FileWords
<1>3. CASE p < 0
  <2>1. p \in {UNSET_INDEX, INVALID_INDEX} BY <1>1, <1>3, SpotsOK DEF Spots, Positions
  <2>2. Until(c, p) \subseteq FileWords(c) BY <2>1 DEF Until
  <2>3. ~HasFile(c) => Until(c, p) = {} BY <2>1 DEF Until, FileWords
  <2> QED BY <1>1, <1>3, <2>2, <2>3 DEF Rest
<1> QED BY <1>1, <1>2, <1>3

\* All words at or after the cursors of a row.
LEMMA WordsFromOK ==
  ASSUME IInv, NEW row, RowOK(row), NEW v
  PROVE  v \in WordsFrom(row) <=> \E c \in Columns : v \in Rest(c, row[c])
BY DEF WordsFrom, Rest

\* GetWordNext leaves the greater words of the file.
LEMMA NextRest ==
  ASSUME IInv, ListInv, NEW c \in Columns, HasFile(c), NEW p \in Positions(FileOf(c)),
         NEW n, n = NextPos(FileOf(c), p)
  PROVE  /\ n \in Spots(c)
         /\ n >= 0 => At(FileOf(c), p) < At(FileOf(c), n)
         /\ Rest(c, n) = {v \in Rest(c, p) : v > At(FileOf(c), p)}
<1> DEFINE f == FileOf(c)
           S == {q \in Positions(f) : q > p /\ At(f, q) # At(f, p)}
<1>1. f \in Files /\ Len(words[f]) - 1 \in Nat /\ p \in Nat
  BY PositionsOK DEF HasFile, Positions
<1>2. \A q \in Positions(f) : q \in Int /\ At(f, q) \in Int /\ At(f, p) \in Int BY <1>1, Ordered DEF Positions
<1>3. n \in Spots(c) BY <1>1, NextPosOK DEF Spots
<1>4. \A q \in p .. Last(f) : q \in Positions(f) BY <1>1 DEF Positions, Last
<1>5. CASE S = {}
  <2>1. n = INVALID_INDEX BY <1>5 DEF NextPos
  <2>2. \A q \in p .. Last(f) : At(f, q) = At(f, p) BY <1>1, <1>4, <1>5
  <2>3. Rest(c, n) = {} /\ ~ (n >= 0) BY <2>1 DEF Rest, INVALID_INDEX
  <2>4. {v \in Rest(c, p) : v > At(f, p)} = {} BY <1>1, <1>2, <2>2 DEF Rest
  <2> QED BY <1>3, <2>3, <2>4
<1>6. CASE S # {}
  <2>1. S \in SUBSET (0 .. Len(words[f]) - 1) BY DEF Positions
  <2>2. Min(S) \in S /\ \A y \in S : Min(S) <= y BY <1>1, <1>6, <2>1, MinExists
  <2>3. n = Min(S) BY <1>6 DEF NextPos
  <2>4. n \in Positions(f) /\ n > p /\ At(f, n) # At(f, p) BY <2>2, <2>3
  <2>5. At(f, p) < At(f, n) BY <1>1, <1>2, <2>4, Ordered
  <2>6. \A q \in n .. Last(f) : q \in p .. Last(f) /\ At(f, q) > At(f, p)
    <3> TAKE q \in n .. Last(f)
    <3>1. q \in Positions(f) /\ q \in p .. Last(f) BY <1>1, <1>2, <2>4 DEF Positions, Last
    <3>2. At(f, n) <= At(f, q) BY <1>1, <2>4, <3>1, Ordered
    <3> QED BY <1>2, <2>4, <2>5, <3>1, <3>2
  <2>7. \A q \in p .. Last(f) : At(f, q) > At(f, p) => q \in n .. Last(f)
    <3> SUFFICES ASSUME NEW q \in p .. Last(f), At(f, q) > At(f, p) PROVE q \in n .. Last(f) OBVIOUS
    <3>1. q \in S BY <1>1, <1>2, <1>4
    <3> QED BY <2>2, <2>3, <2>4, <3>1, <1>1, <1>2 DEF Positions, Last
  <2>8. n >= 0 BY <1>1, <1>2, <2>4
  <2> QED BY <1>1, <1>3, <2>5, <2>6, <2>7, <2>8 DEF Rest
<1> QED BY <1>5, <1>6

\* GetWordPrev finds the greatest word before the cursor, and leaves the lesser ones.
LEMMA PrevUntil ==
  ASSUME IInv, ListInv, NEW c \in Columns, HasFile(c), NEW p \in Spots(c),
         NEW q, q = PrevPos(FileOf(c), p)
  PROVE  /\ q = UNSET_INDEX => Until(c, p) = {}
         /\ q # UNSET_INDEX =>
               /\ q \in Positions(FileOf(c)) /\ q \in Spots(c)
               /\ At(FileOf(c), q) \in Until(c, p)
               /\ \A v \in Until(c, p) : v <= At(FileOf(c), q)
               /\ Until(c, q) = {v \in Until(c, p) : v < At(FileOf(c), q)}
<1> DEFINE f == FileOf(c)
           S == {r \in Positions(f) : r < p /\ At(f, r) # At(f, p)}
<1>1. /\ f \in Files /\ Len(words[f]) - 1 \in Nat /\ Last(f) \in Positions(f)
      /\ \A r \in Positions(f) : r \in Nat /\ r <= Last(f)
  BY PositionsOK DEF HasFile, Positions, Last
<1>2. \A r \in Positions(f) : r \in Int /\ At(f, r) \in Int BY <1>1, Ordered
<1>3. FileWords(c) = {At(f, r) : r \in Positions(f)} BY DEF FileWords
<1>4. \A r \in Positions(f) : Until(c, r) = {v \in FileWords(c) : v < At(f, r)}
  <2> TAKE r \in Positions(f)
  <2>1. r \in Nat /\ r # INVALID_INDEX /\ r # UNSET_INDEX BY <1>1 DEF INVALID_INDEX, UNSET_INDEX
  <2> QED BY <2>1 DEF Until
<1>5. CASE p = INVALID_INDEX
  <2>1. q = Last(f) BY <1>5 DEF PrevPos
  <2>2. Until(c, p) = FileWords(c) BY <1>5 DEF Until, INVALID_INDEX, UNSET_INDEX
  <2>3. \A v \in FileWords(c) : v <= At(f, q) BY <1>1, <1>2, <1>3, <2>1, Ordered
  <2>4. q \in Positions(f) /\ q # UNSET_INDEX /\ q \in Spots(c)
    BY <1>1, <2>1 DEF Spots, UNSET_INDEX
  <2>5. At(f, q) \in FileWords(c) /\ Until(c, q) = {v \in FileWords(c) : v < At(f, q)}
    BY <1>3, <1>4, <2>4
  <2> QED BY <2>2, <2>3, <2>4, <2>5
<1>6. CASE p = UNSET_INDEX
  <2>1. S = {} BY <1>1, <1>6 DEF UNSET_INDEX
  <2>2. q = UNSET_INDEX BY <1>6, <2>1 DEF PrevPos, UNSET_INDEX, INVALID_INDEX
  <2>3. Until(c, p) = {} BY <1>6 DEF Until, UNSET_INDEX, INVALID_INDEX
  <2> QED BY <2>2, <2>3
<1>7. CASE p \in Positions(f)
  <2>1. p # INVALID_INDEX BY <1>1, <1>7 DEF INVALID_INDEX
  <2>2. Until(c, p) = {v \in FileWords(c) : v < At(f, p)} BY <1>4, <1>7
  <2>3. \A r \in Positions(f) : At(f, r) < At(f, p) <=> r \in S
    <3> TAKE r \in Positions(f)
    <3>1. r <= p => At(f, r) <= At(f, p) BY <1>1, <1>7, Ordered
    <3>2. p <= r => At(f, p) <= At(f, r) BY <1>1, <1>7, Ordered
    <3> QED BY <1>1, <1>2, <1>7, <3>1, <3>2
  <2>4. CASE S = {}
    <3>1. q = UNSET_INDEX BY <2>1, <2>4 DEF PrevPos
    <3> QED BY <3>1, <2>2, <2>3, <2>4, <1>3
  <2>5. CASE S # {}
    <3>1. S \in SUBSET (0 .. Len(words[f]) - 1) BY DEF Positions
    <3>2. Max(S) \in S /\ \A y \in S : Max(S) >= y BY <1>1, <2>5, <3>1, MaxExists
    <3>3. q = Max(S) BY <2>1, <2>5 DEF PrevPos
    <3>4. q \in Positions(f) /\ q \in S /\ \A r \in S : r <= q BY <3>2, <3>3
    <3>5. q # UNSET_INDEX /\ q \in Spots(c) BY <1>1, <3>4 DEF UNSET_INDEX, Spots
    <3>6. At(f, q) < At(f, p) BY <2>3, <3>4
    <3>7. \A r \in Positions(f) : At(f, r) < At(f, p) => At(f, r) <= At(f, q)
      BY <1>1, <2>3, <3>4, Ordered
    <3>8. At(f, q) \in Until(c, p) BY <1>3, <2>2, <3>4, <3>6
    <3>9. \A v \in Until(c, p) : v <= At(f, q) BY <1>3, <2>2, <3>7
    <3>10. Until(c, q) = {v \in Until(c, p) : v < At(f, q)}
      BY <1>2, <1>3, <1>4, <1>7, <2>2, <3>4, <3>6
    <3> QED BY <3>4, <3>5, <3>8, <3>9, <3>10
  <2> QED BY <2>4, <2>5
<1> QED BY <1>5, <1>6, <1>7 DEF Spots

\* A lookup puts the cursor between the lesser words and the others.
LEMMA PlacesOK ==
  ASSUME IInv, ListInv, NEW c \in Columns, NEW k \in Words, NEW p \in Places(c, k)
  PROVE  /\ p \in Spots(c)
         /\ Rest(c, p) = {v \in FileWords(c) : v >= k}
         /\ Until(c, p) = {v \in FileWords(c) : v < k}
<1> DEFINE f == FileOf(c)
           same == {r \in Positions(f) : At(f, r) = k}
           S == {r \in Positions(f) : At(f, r) > k}
<1>1. CASE ~HasFile(c)
  <2>1. p = UNSET_INDEX BY <1>1 DEF Places
  <2> QED BY <1>1, <2>1 DEF Spots, Rest, Until, FileWords, UNSET_INDEX, INVALID_INDEX
<1>2. CASE HasFile(c)
  <2>1. /\ f \in Files /\ Len(words[f]) - 1 \in Nat
        /\ \A r \in Positions(f) : r \in Nat /\ r <= Last(f)
    BY <1>2, PositionsOK DEF HasFile, Positions, Last
  <2>2. k \in Int /\ \A r \in Positions(f) : At(f, r) \in Int BY <2>1, Ordered, NavigationAssumption
  <2>3. FileWords(c) = {At(f, r) : r \in Positions(f)} BY <1>2 DEF FileWords
  <2>4. CASE same # {} \/ S # {}
    <3>1. p \in Positions(f) /\ p >= 0 /\ At(f, p) >= k /\ \A r \in Positions(f) : r < p => At(f, r) < k \/ At(f, p) = k
      <4>1. CASE same # {} BY <1>2, <2>1, <2>2, <4>1 DEF Places
      <4>2. CASE same = {}
        <5>1. S \in SUBSET (0 .. Len(words[f]) - 1) BY DEF Positions
        <5>2. Min(S) \in S /\ \A y \in S : Min(S) <= y BY <2>1, <2>4, <4>2, <5>1, MinExists
        <5>3. p = Min(S) BY <1>2, <2>4, <4>2 DEF Places
        <5>4. \A r \in Positions(f) : r < p => At(f, r) < k
          <6> SUFFICES ASSUME NEW r \in Positions(f), r < p, ~ (At(f, r) < k) PROVE FALSE OBVIOUS
          <6>1. At(f, r) # k BY <4>2
          <6>2. r \in S BY <2>2, <6>1
          <6>3. p <= r /\ p \in Positions(f) BY <5>2, <5>3, <6>2
          <6> QED BY <6>3, <2>1
        <5> QED BY <2>1, <2>2, <5>2, <5>3, <5>4
      <4> QED BY <4>1, <4>2
    <3>2. \A r \in Positions(f) : At(f, r) < k <=> At(f, r) < At(f, p)
      <4> TAKE r \in Positions(f)
      <4>1. p <= r => At(f, p) <= At(f, r) BY <2>1, <3>1, Ordered
      <4> QED BY <2>1, <2>2, <3>1, <4>1
    <3>3. p \in Nat /\ p # INVALID_INDEX /\ p # UNSET_INDEX
      BY <2>1, <3>1 DEF INVALID_INDEX, UNSET_INDEX
    <3>4. Until(c, p) = {v \in FileWords(c) : v < k} BY <2>3, <3>2, <3>3 DEF Until
    <3>5. \A r \in p .. Last(f) : r \in Positions(f) /\ At(f, r) >= k
      <4> TAKE r \in p .. Last(f)
      <4>1. r \in Positions(f) BY <2>1, <3>1 DEF Positions, Last
      <4>2. At(f, p) <= At(f, r) BY <2>1, <3>1, <4>1, Ordered
      <4> QED BY <2>2, <3>1, <4>1, <4>2
    <3>6. \A r \in Positions(f) : At(f, r) >= k => \E q \in p .. Last(f) : At(f, r) = At(f, q)
      <4> SUFFICES ASSUME NEW r \in Positions(f), At(f, r) >= k
                   PROVE  \E q \in p .. Last(f) : At(f, r) = At(f, q)
        OBVIOUS
      <4>1. CASE r >= p BY <2>1, <3>1, <4>1 DEF Positions, Last
      <4>2. CASE r < p
        <5>1. At(f, p) = k BY <2>2, <3>1, <4>2
        <5>2. At(f, r) <= At(f, p) BY <2>1, <3>1, <4>2, Ordered
        <5>3. At(f, r) = At(f, p) /\ p \in p .. Last(f) BY <2>1, <2>2, <3>1, <5>1, <5>2 DEF Positions, Last
        <5> QED BY <5>3
      <4> QED BY <2>1, <3>1, <4>1, <4>2
    <3>7. Rest(c, p) = {v \in FileWords(c) : v >= k} BY <2>3, <3>1, <3>5, <3>6 DEF Rest
    <3> QED BY <3>1, <3>4, <3>7, <1>2 DEF Spots
  <2>5. CASE same = {} /\ S = {}
    <3>1. p = INVALID_INDEX BY <1>2, <2>5 DEF Places
    <3>2. \A r \in Positions(f) : At(f, r) < k BY <2>2, <2>5
    <3>3. \A v \in FileWords(c) : v < k /\ ~ (v >= k) BY <2>2, <2>3, <3>2
    <3>4. Until(c, p) = FileWords(c) /\ Rest(c, p) = {}
      BY <3>1 DEF Until, Rest, INVALID_INDEX, UNSET_INDEX
    <3> QED BY <1>2, <3>1, <3>3, <3>4 DEF Spots
  <2> QED BY <2>4, <2>5
<1> QED BY <1>1, <1>2

\* What is at or after a cursor is not less than the word there.
LEMMA RestAbove ==
  ASSUME IInv, ListInv, NEW c \in Columns, NEW p \in Spots(c), NEW v \in Rest(c, p)
  PROVE  p >= 0 /\ v \in Int /\ v >= At(FileOf(c), p) /\ At(FileOf(c), p) \in Int
<1>1. p >= 0 BY RestOK, SpotsOK
<1>2. HasFile(c) /\ FileOf(c) \in Files /\ p \in Positions(FileOf(c)) BY <1>1, SpotsOK DEF HasFile
<1>3. PICK q \in p .. Last(FileOf(c)) : v = At(FileOf(c), q) BY <1>1 DEF Rest
<1>4. q \in Positions(FileOf(c)) /\ p <= q BY <1>2, <1>3, PositionsOK DEF Positions, Last
<1> QED BY <1>1, <1>2, <1>3, <1>4, Ordered

LEMMA AllWordsOK ==
  ASSUME NEW v
  PROVE  v \in AllWords <=> \E c \in Columns : v \in FileWords(c)
BY DEF AllWords, FileWords

\* With all cursors on a word, the words are split there.
LEMMA PutOnAll ==
  ASSUME IInv, ListInv, NEW k \in Words, PutOn(AllColumns, cur, k)
  PROVE  WordsFrom(cur) = Above(k - 1) /\ WordsUntil(cur) = Below(k)
<1>1. \A c \in Columns : cur[c] \in Places(c, k)
  BY MaskOK DEF PutOn, AllColumns, Columns
<1>2. \A c \in Columns : /\ Rest(c, cur[c]) = {v \in FileWords(c) : v >= k}
                         /\ Until(c, cur[c]) = {v \in FileWords(c) : v < k}
  BY <1>1, PlacesOK
<1>3. k \in Int /\ \A c \in Columns : FileWords(c) \subseteq Int BY FileWordsOK, NavigationAssumption
<1>4. WordsUntil(cur) = Below(k) BY <1>2, AllWordsOK DEF WordsUntil, Below
<1>5. \A v : v \in WordsFrom(cur) <=> v \in Above(k - 1)
  <2> TAKE v
  <2>1. v \in WordsFrom(cur) <=> \E c \in Columns : v \in Rest(c, cur[c]) BY WordsFromOK DEF IInv
  <2>2. \A c \in Columns : v \in Rest(c, cur[c]) <=> v \in FileWords(c) /\ v > k - 1 BY <1>2, <1>3
  <2> QED BY <2>1, <2>2, AllWordsOK DEF Above
<1> QED BY <1>4, <1>5

LEMMA PointedOK ==
  ASSUME IInv, ptr # NoPtr
  PROVE  /\ PointsAt(ptr) /\ ptr[1] \in Columns /\ ptr[1] \in Int
         /\ Pointed(ptr) \in Words /\ Pointed(ptr) \in Int
<1>1. PointsAt(ptr) BY DEF IInv, PointerOK
<1> QED BY <1>1, PositionsOK, MaskOK, NavigationAssumption DEF PointsAt, HasFile, Pointed

\* Once all columns are compared, the pointer is at the least word, if there is one.
LEMMA LeastOfAll ==
  ASSUME IInv, ListInv, LeastSoFar(AllColumns, cur, ptr)
  PROVE  /\ ptr = NoPtr => WordsFrom(cur) = {}
         /\ ptr # NoPtr => Pointed(ptr) \in WordsFrom(cur)
         /\ \A v \in WordsFrom(cur) : v \in Int /\ Pointed(ptr) <= v
<1>1. \A c \in Columns : c < AllColumns /\ cur[c] \in Spots(c)
  BY MaskOK DEF AllColumns, Columns, IInv, RowOK
<1>2. \A v \in WordsFrom(cur) : ptr # NoPtr /\ v \in Int /\ Pointed(ptr) <= v
  <2> TAKE v \in WordsFrom(cur)
  <2>1. PICK c \in Columns : v \in Rest(c, cur[c]) BY WordsFromOK DEF IInv
  <2>2. cur[c] >= 0 /\ v \in Int /\ v >= At(FileOf(c), cur[c]) /\ At(FileOf(c), cur[c]) \in Int
    BY <1>1, <2>1, RestAbove
  <2>3. ptr # NoPtr /\ Pointed(ptr) <= At(FileOf(c), cur[c]) BY <1>1, <2>2 DEF LeastSoFar
  <2> QED BY <2>2, <2>3, PointedOK
<1>3. ptr # NoPtr => Pointed(ptr) \in WordsFrom(cur)
  <2> SUFFICES ASSUME ptr # NoPtr PROVE Pointed(ptr) \in WordsFrom(cur) OBVIOUS
  <2>1. ptr[1] \in Columns /\ cur[ptr[1]] = ptr[2] /\ HasFile(ptr[1]) /\ ptr[2] \in Positions(FileOf(ptr[1]))
    BY PointedOK DEF LeastSoFar, PointsAt
  <2>2. ptr[2] >= 0 /\ ptr[2] \in Spots(ptr[1]) BY <2>1, PositionsOK DEF HasFile, Spots
  <2>3. Pointed(ptr) \in Rest(ptr[1], cur[ptr[1]]) BY <2>1, <2>2, RestOK DEF Pointed
  <2> QED BY <2>1, <2>3, WordsFromOK DEF IInv
<1> QED BY <1>2, <1>3

\* The invariant after a step, of what the step has changed.
LEMMA PreservedList ==
  ASSUME AllSorted, words' = words, mask' = mask, goal' \subseteq Words, places' \in 1 .. MaxCount,
         command' \in {"none", "lookup", "next", "previous"},
         pc' # "idle" => command' # "none" /\ Len(sent') < places',
         pc' \in {"advance", "stepBack", "send"} => col' = 1,
         UpInv(pc', col', cur', ptr', key', command', sent', goal', Wanted'),
         DownInv(pc', col', cur', ptr', key', command', sent', goal', Wanted')
  PROVE  ListInv'
<1> USE DEF HasFile, Columns, FileOf, Files, Positions, Last, At
<1>1. Pointed(ptr)' = Pointed(ptr') BY DEF Pointed
<1>2. WordsFrom(cur)' = WordsFrom(cur') BY DEF WordsFrom
<1>3. WordsUntil(cur)' = WordsUntil(cur') BY DEF WordsUntil, Until, FileWords
<1>4. /\ LeastSoFar(col, cur, ptr)' <=> LeastSoFar(col', cur', ptr')
      /\ LeastSoFar(AllColumns, cur, ptr)' <=> LeastSoFar(AllColumns, cur', ptr')
  BY DEF LeastSoFar, AllColumns, Pointed
<1>5. (GreatestSoFar(col, cur, ptr))' <=> GreatestSoFar(col', cur', ptr')
  BY DEF GreatestSoFar, Until, FileWords, Pointed
<1>6. /\ GonePast(col, cur, ptr)' <=> GonePast(col', cur', ptr')
      /\ GonePast(AllColumns, cur, ptr)' <=> GonePast(AllColumns, cur', ptr')
  BY DEF GonePast, AllColumns, Pointed
<1>7. /\ GoneBack(col, cur, ptr)' <=> GoneBack(col', cur', ptr')
      /\ GoneBack(AllColumns, cur, ptr)' <=> GoneBack(AllColumns, cur', ptr')
  BY DEF GoneBack, AllColumns, Pointed, Until, FileWords
<1>8. PutOn(col, cur, key)' <=> PutOn(col', cur', key') BY DEF PutOn, Places
<1>9. AllWords' = AllWords BY DEF AllWords
<1>10. FirstAbove(key)' = FirstAbove(key') BY <1>9 DEF FirstAbove, Above
<1>11. Below(key)' = Below(key') BY <1>9 DEF Below
<1>12. NotLeast(WordsFrom(cur))' = NotLeast(WordsFrom(cur')) BY <1>2 DEF NotLeast
<1>13. Nearest(ptr, Wanted)' <=> Nearest(ptr', Wanted') BY <1>1 DEF Nearest
<1>14. UpInv(pc, col, cur, ptr, key, command, sent, goal, Wanted)'
  BY <1>1, <1>2, <1>4, <1>6, <1>8, <1>10, <1>12 DEF UpInv, NoPtr
<1>15. DownInv(pc, col, cur, ptr, key, command, sent, goal, Wanted)'
  BY <1>1, <1>3, <1>5, <1>7, <1>8, <1>11, <1>13 DEF DownInv, NoPtr
<1>16. AllSorted' BY DEF AllSorted
<1> QED BY <1>14, <1>15, <1>16 DEF ListInv

LEMMA AllAreWords ==
  ASSUME IInv
  PROVE  AllWords \subseteq Words /\ \A row : RowOK(row) => WordsFrom(row) \subseteq Words
<1>1. AllWords \subseteq Words BY AllWordsOK, FileWordsOK
<1>2. ASSUME NEW row, RowOK(row), NEW v \in WordsFrom(row) PROVE v \in Words
  <2>1. PICK c \in Columns : v \in Rest(c, row[c]) BY <1>2, WordsFromOK
  <2> QED BY <1>2, <2>1, RestOK, FileWordsOK DEF RowOK
<1> QED BY <1>1, <1>2

\* Nothing is known of the columns before the first.
LEMMA NoneSoFar ==
  ASSUME IInv, NEW row, NEW k, NEW p
  PROVE  /\ LeastSoFar(1, row, NoPtr) /\ GreatestSoFar(1, row, NoPtr)
         /\ PutOn(1, row, k) /\ GonePast(1, row, p)
<1>1. \A c \in Columns : ~ (c < 1) BY MaskOK DEF Columns
<1> QED BY <1>1 DEF LeastSoFar, GreatestSoFar, PutOn, GonePast

\* After the loop over the columns all have been seen.
LEMMA AllSeen ==
  ASSUME IInv, col \notin Columns
  PROVE  col = AllColumns
BY MaskOK DEF IInv, Columns, AllColumns

LEMMA BeginList ==
  ASSUME IInv, AllSorted, ListWords \/ \E w \in Words : NextWords(w) \/ PreviousWords(w)
  PROVE  ListInv' /\ Wanted' = goal' /\ goal' \subseteq Words
<1>1. /\ words' = words /\ mask' = mask /\ col' = 1 /\ ptr' = NoPtr /\ sent' = <<>>
      /\ places' \in 1 .. MaxCount /\ Len(sent') < places'
  BY NavigationAssumption DEF ListWords, NextWords, PreviousWords, Begin
<1>2. Wanted' = goal' BY <1>1 DEF Wanted
<1>3. CASE ListWords
  <2>1. pc' = "current" /\ command' = "lookup" /\ goal' = WordsFrom(cur') BY <1>3 DEF ListWords, Begin
  <2>2. RowOK(cur')
    <3>1. cur' \in [Columns -> Int]
      BY <1>3, NavigationAssumption DEF ListWords, UNSET_INDEX, INVALID_INDEX
    <3>2. \A c \in Columns : cur'[c] \in Spots(c) BY <1>3 DEF ListWords, Spots
    <3> QED BY <3>1, <3>2 DEF RowOK
  <2>3. goal' \subseteq Words BY <2>1, <2>2, AllAreWords
  <2>4. UpInv(pc', col', cur', ptr', key', command', sent', goal', Wanted')
    BY <1>1, <1>2, <2>1, NoneSoFar DEF UpInv
  <2>5. DownInv(pc', col', cur', ptr', key', command', sent', goal', Wanted') BY <2>1 DEF DownInv
  <2> QED BY <1>1, <1>2, <2>1, <2>3, <2>4, <2>5, PreservedList
<1>4. ASSUME NEW w \in Words, NextWords(w) PROVE ListInv' /\ goal' \subseteq Words
  <2>1. pc' = "choose" /\ command' = "next" /\ key' = w /\ goal' = FirstAbove(w)
    BY <1>4 DEF NextWords, Begin, FirstAbove
  <2>2. goal' \subseteq Words BY <2>1, AllAreWords DEF FirstAbove, Above
  <2>3. key' # NoWord BY <2>1, NavigationAssumption
  <2>4. UpInv(pc', col', cur', ptr', key', command', sent', goal', Wanted')
    BY <1>1, <2>1, <2>3, NoneSoFar DEF UpInv
  <2>5. DownInv(pc', col', cur', ptr', key', command', sent', goal', Wanted') BY <2>1 DEF DownInv
  <2> QED BY <1>1, <2>1, <2>2, <2>4, <2>5, PreservedList
<1>5. ASSUME NEW w \in Words, PreviousWords(w) PROVE ListInv' /\ goal' \subseteq Words
  <2>1. pc' = "choosePrev" /\ command' = "previous" /\ key' = w /\ goal' = Below(w)
    BY <1>5 DEF PreviousWords, Begin
  <2>2. goal' \subseteq Words BY <2>1, AllAreWords DEF Below
  <2>3. key' # NoWord BY <2>1, NavigationAssumption
  <2>4. DownInv(pc', col', cur', ptr', key', command', sent', goal', Wanted')
    BY <1>1, <2>1, <2>3, NoneSoFar DEF DownInv
  <2>5. UpInv(pc', col', cur', ptr', key', command', sent', goal', Wanted') BY <2>1 DEF UpInv
  <2> QED BY <1>1, <2>1, <2>2, <2>4, <2>5, PreservedList
<1> QED BY <1>2, <1>3, <1>4, <1>5, AllAreWords

\* One more column is compared, and the pointer is the lesser of the two.
LEMMA ChooseStep ==
  ASSUME fresh', IInv, Choose, LeastSoFar(col, cur, ptr)
  PROVE  LeastSoFar(col', cur', ptr') /\ cur' = [cur EXCEPT ![col] = cur'[col]] /\ cur'[col] \in Cursors(col)
<1>1. pc \in {"choose", "current"} /\ col \in Columns /\ col' = col + 1 BY DEF Choose
<1>2. PICK p \in Cursors(col), looked \in AfterLookup(col) :
         /\ cur' = [cur EXCEPT ![col] = p]
         /\ \/ p < 0 /\ ptr' = ptr
            \/ /\ p >= 0
               /\ page' = Read(looked, col, p)
               /\ \/ ptr = NoPtr /\ ptr' = <<col, p>>
                  \/ /\ ptr # NoPtr /\ InPage(ptr, page')
                     /\ \E t \in Texts(ptr, page') :
                           ptr' = IF t > At(FileOf(col), p) THEN <<col, p>> ELSE ptr
  BY <1>1 DEF Choose, ReadPointer
<1>3. p \in Spots(col) /\ p \in Int /\ (p >= 0 => HasFile(col) /\ p \in Positions(FileOf(col)))
  BY <1>1, CursorsOK, SpotsOK
<1>4. cur'[col] = p /\ \A c \in Columns : c # col => cur'[c] = cur[c] BY <1>1, <1>2 DEF IInv, RowOK
<1> SUFFICES LeastSoFar(col', cur', ptr') BY <1>2, <1>4
<1>5. col \in Int /\ \A c \in Columns : c \in Int /\ (c < col + 1 <=> c < col \/ c = col)
  BY <1>1, MaskOK, NextColumn
<1>6. ptr # NoPtr => ptr[1] \in Columns /\ ptr[1] # col /\ Pointed(ptr) \in Int
  <2> SUFFICES ASSUME ptr # NoPtr PROVE ptr[1] \in Columns /\ ptr[1] # col /\ Pointed(ptr) \in Int OBVIOUS
  <2>1. ptr[1] < col BY <1>1 DEF IInv, PointerOK
  <2> QED BY <1>5, <2>1, PointedOK
<1>7. ptr # NoPtr => cur'[ptr[1]] = ptr[2] BY <1>4, <1>6 DEF LeastSoFar
<1>8. CASE p < 0 /\ ptr' = ptr BY <1>1, <1>3, <1>4, <1>5, <1>7, <1>8 DEF LeastSoFar
<1>9. CASE p >= 0 /\ ptr = NoPtr /\ ptr' = <<col, p>>
  <2>1. Pointed(ptr') = At(FileOf(col), cur'[col]) /\ ptr'[1] = col /\ ptr'[2] = p BY <1>4, <1>9 DEF Pointed
  <2>2. At(FileOf(col), p) \in Int BY <1>3, <1>9, PositionsOK, NavigationAssumption DEF HasFile
  <2>3. ptr' # NoPtr BY <1>1, <1>9, NextColumn DEF NoPtr
  <2> QED BY <1>1, <1>4, <1>5, <1>9, <2>1, <2>2, <2>3 DEF LeastSoFar
<1>10. CASE p >= 0 /\ ptr # NoPtr /\ InPage(ptr, page')
            /\ \E t \in Texts(ptr, page') : ptr' = IF t > At(FileOf(col), p) THEN <<col, p>> ELSE ptr
  <2>3. Texts(ptr, page') = {Pointed(ptr)} BY <1>10, PointedAt DEF Pointed
  <2>4. ptr' = IF Pointed(ptr) > At(FileOf(col), p) THEN <<col, p>> ELSE ptr BY <1>10, <2>3
  <2>5. At(FileOf(col), p) \in Int BY <1>3, <1>10, PositionsOK, NavigationAssumption DEF HasFile
  <2>6. \A c \in Columns : c < col /\ cur[c] >= 0 => At(FileOf(c), cur[c]) \in Int
    BY PositionsOK, SpotsOK, NavigationAssumption DEF HasFile, IInv, RowOK
  <2>7. CASE Pointed(ptr) > At(FileOf(col), p)
    <3>1. ptr' = <<col, p>> /\ ptr'[1] = col /\ ptr'[2] = p /\ ptr' # NoPtr
      BY <1>1, <2>4, <2>7, NextColumn DEF NoPtr
    <3>2. Pointed(ptr') = At(FileOf(col), p) BY <3>1 DEF Pointed
    <3>3. \A c \in Columns : c < col /\ cur[c] >= 0 => Pointed(ptr') <= At(FileOf(c), cur[c])
      BY <1>6, <1>10, <2>5, <2>6, <2>7, <3>2 DEF LeastSoFar
    <3> QED BY <1>1, <1>4, <1>5, <2>5, <3>1, <3>2, <3>3 DEF LeastSoFar
  <2>8. CASE ~ (Pointed(ptr) > At(FileOf(col), p))
    <3>1. ptr' = ptr BY <2>4, <2>8
    <3>2. Pointed(ptr) <= At(FileOf(col), p) BY <1>6, <1>10, <2>5, <2>8
    <3>3. \A c \in Columns : c < col /\ cur[c] >= 0 => Pointed(ptr) <= At(FileOf(c), cur[c])
      BY DEF LeastSoFar
    <3> QED BY <1>1, <1>4, <1>5, <1>7, <1>10, <3>1, <3>2, <3>3 DEF LeastSoFar
  <2> QED BY <2>7, <2>8
<1> QED BY <1>2, <1>8, <1>9, <1>10

LEMMA ChooseList ==
  ASSUME fresh', IInv, ListInv, Choose
  PROVE  ListInv' /\ Wanted' = Wanted
<1>1. /\ pc \in {"choose", "current"} /\ pc' = pc /\ col \in Columns /\ col' = col + 1
      /\ UNCHANGED <<words, mask, command, key, sent, places, goal>>
  BY DEF Choose
<1>2. Wanted' = Wanted BY <1>1 DEF Wanted
<1>3. UpInv(pc, col, cur, ptr, key, command, sent, goal, Wanted) BY DEF ListInv
<1>4. LeastSoFar(col, cur, ptr) BY <1>1, <1>3 DEF UpInv
<1>5. LeastSoFar(col', cur', ptr') /\ cur' = [cur EXCEPT ![col] = cur'[col]] /\ cur'[col] \in Cursors(col)
  BY <1>4, ChooseStep
<1>6. pc = "current" \/ key = NoWord => cur' = cur
  <2> SUFFICES ASSUME pc = "current" \/ key = NoWord PROVE cur' = cur OBVIOUS
  <2>1. Cursors(col) = {cur[col]} BY DEF Cursors, Searching
  <2> QED BY <1>5, <2>1 DEF IInv, RowOK
<1>7. pc = "choose" /\ key # NoWord => PutOn(col', cur', key)
  <2> SUFFICES ASSUME pc = "choose", key # NoWord PROVE PutOn(col + 1, cur', key) BY <1>1
  <2>1. PutOn(col, cur, key) BY <1>3 DEF UpInv
  <2>2. cur'[col] \in Places(col, key) BY <1>5 DEF Cursors, Searching
  <2>3. \A c \in Columns : c # col => cur'[c] = cur[c] BY <1>5 DEF IInv, RowOK
  <2>4. \A c \in Columns : c < col + 1 => c < col \/ c = col BY <1>1, MaskOK, NextColumn
  <2> QED BY <2>1, <2>2, <2>3, <2>4 DEF PutOn
<1>8. UpInv(pc', col', cur', ptr', key', command', sent', goal', Wanted')
  BY <1>1, <1>2, <1>3, <1>5, <1>6, <1>7 DEF UpInv
<1>9. DownInv(pc', col', cur', ptr', key', command', sent', goal', Wanted') BY <1>1 DEF DownInv
<1> QED BY <1>1, <1>2, <1>8, <1>9, PreservedList DEF ListInv

\* The words wanted once the least word w is passed over are those above it.
LEMMA LeastPassed ==
  ASSUME IInv, ListInv, pc = "choose", LeastSoFar(AllColumns, cur, ptr),
         key # NoWord => PutOn(AllColumns, cur, key)
  PROVE  /\ ptr = NoPtr => Wanted = {} /\ WordsFrom(cur) = {}
         /\ ptr # NoPtr => Wanted = {v \in WordsFrom(cur) : v > Pointed(ptr)}
<1>1. UpInv(pc, col, cur, ptr, key, command, sent, goal, Wanted) BY DEF ListInv
<1>2. /\ ptr = NoPtr => WordsFrom(cur) = {}
      /\ ptr # NoPtr => Pointed(ptr) \in WordsFrom(cur)
      /\ \A v \in WordsFrom(cur) : v \in Int /\ Pointed(ptr) <= v
  BY LeastOfAll
<1>3. CASE key = NoWord
  <2>1. Wanted = NotLeast(WordsFrom(cur)) BY <1>1, <1>3 DEF UpInv
  <2>2. ptr # NoPtr => \A v \in WordsFrom(cur) : (\E u \in WordsFrom(cur) : u < v) <=> v > Pointed(ptr)
    BY <1>2, PointedOK
  <2> QED BY <1>2, <2>1, <2>2 DEF NotLeast
<1>4. CASE key # NoWord
  <2>1. sent = <<>> /\ goal = FirstAbove(key) /\ key \in Words BY <1>1, <1>4 DEF UpInv, IInv
  <2>2. Wanted = FirstAbove(key) BY <2>1 DEF Wanted
  <2>3. WordsFrom(cur) = Above(key - 1) BY <1>4, <2>1, PutOnAll
  <2>4. CASE ptr = NoPtr BY <1>2, <2>2, <2>3, <2>4 DEF FirstAbove
  <2>5. CASE ptr # NoPtr
    <3>1. Pointed(ptr) \in Above(key - 1) /\ \A v \in Above(key - 1) : v \in Int /\ Pointed(ptr) <= v
      BY <1>2, <2>3, <2>5
    <3>2. Min(Above(key - 1)) = Pointed(ptr)
      <4>1. \A x \in Above(key - 1) : (\A y \in Above(key - 1) : x <= y) => x = Pointed(ptr) BY <3>1
      <4> QED BY <3>1, <4>1 DEF Min
    <3>3. Wanted = Above(Pointed(ptr)) BY <2>2, <3>1, <3>2 DEF FirstAbove
    <3>4. key \in Int /\ \A v \in AllWords : v \in Int BY <2>1, AllAreWords, NavigationAssumption
    <3>5. Above(Pointed(ptr)) = {v \in Above(key - 1) : v > Pointed(ptr)} BY <3>1, <3>4 DEF Above
    <3> QED BY <2>3, <2>5, <3>3, <3>5
  <2> QED BY <2>4, <2>5
<1> QED BY <1>3, <1>4

LEMMA ChosenList ==
  ASSUME IInv, ListInv, Chosen
  PROVE  ListInv' /\ Wanted' = Wanted
<1>1. /\ pc = "choose" /\ pc' = (IF ptr = NoPtr THEN "send" ELSE "skip") /\ col \notin Columns /\ col' = 1
      /\ UNCHANGED <<words, mask, cur, command, ptr, key, sent, places, goal>>
  BY DEF Chosen, LoopEnds
<1>2. Wanted' = Wanted BY <1>1 DEF Wanted
<1>3. UpInv(pc, col, cur, ptr, key, command, sent, goal, Wanted) BY DEF ListInv
<1>4. col = AllColumns BY <1>1, AllSeen
<1>5. /\ LeastSoFar(AllColumns, cur, ptr) /\ command # "previous" /\ command \in {"lookup", "next"}
      /\ key # NoWord => PutOn(AllColumns, cur, key)
  BY <1>1, <1>3, <1>4 DEF UpInv
<1>6. /\ ptr = NoPtr => Wanted = {} /\ WordsFrom(cur) = {}
      /\ ptr # NoPtr => Wanted = {v \in WordsFrom(cur) : v > Pointed(ptr)}
  BY <1>1, <1>5, LeastPassed
<1>7. UpInv(pc', col', cur', ptr', key', command', sent', goal', Wanted')
  BY <1>1, <1>2, <1>5, <1>6, NoneSoFar DEF UpInv
<1>8. DownInv(pc', col', cur', ptr', key', command', sent', goal', Wanted')
  BY <1>1, <1>5 DEF DownInv
<1> QED BY <1>1, <1>2, <1>7, <1>8, PreservedList DEF ListInv

\* A column that holds the word goes past it, and keeps all greater words.
LEMMA GoesPast ==
  ASSUME IInv, ListInv, NEW c \in Columns, cur[c] >= 0,
         cur' = [cur EXCEPT ![c] = NextPos(FileOf(c), cur[c])]
  PROVE  /\ RowOK(cur')
         /\ {v \in WordsFrom(cur') : v > At(FileOf(c), cur[c])}
            = {v \in WordsFrom(cur) : v > At(FileOf(c), cur[c])}
         /\ cur'[c] >= 0 => At(FileOf(c), cur[c]) < At(FileOf(c), cur'[c])
         /\ Rest(c, cur'[c]) = {v \in Rest(c, cur[c]) : v > At(FileOf(c), cur[c])}
<1> DEFINE n == NextPos(FileOf(c), cur[c])
           w == At(FileOf(c), cur[c])
<1>1. cur[c] \in Spots(c) BY DEF IInv, RowOK
<1>2. HasFile(c) /\ cur[c] \in Positions(FileOf(c)) BY <1>1, SpotsOK
<1>3. /\ n \in Spots(c) /\ (n >= 0 => w < At(FileOf(c), n))
      /\ Rest(c, n) = {v \in Rest(c, cur[c]) : v > w}
  BY <1>2, NextRest
<1>4. RowOK(cur') BY <1>3, RowSet
<1>5. \A d \in Columns : cur'[d] = IF d = c THEN n ELSE cur[d] BY DEF IInv, RowOK
<1> HIDE DEF n, w
<1>6. ASSUME NEW v, v > w PROVE v \in WordsFrom(cur') <=> v \in WordsFrom(cur)
  <2>1. v \in WordsFrom(cur') <=> \E d \in Columns : v \in Rest(d, cur'[d]) BY <1>4, WordsFromOK
  <2>2. v \in WordsFrom(cur) <=> \E d \in Columns : v \in Rest(d, cur[d]) BY WordsFromOK DEF IInv
  <2>3. \A d \in Columns : v \in Rest(d, cur'[d]) <=> v \in Rest(d, cur[d]) BY <1>3, <1>5, <1>6
  <2> QED BY <2>1, <2>2, <2>3
<1> QED BY <1>3, <1>4, <1>5, <1>6 DEF w

LEMMA SkipEqualList ==
  ASSUME fresh', IInv, ListInv, SkipEqual
  PROVE  ListInv' /\ Wanted' = Wanted
<1>1. /\ pc = "skip" /\ pc' = pc /\ ptr # NoPtr /\ col \in Columns /\ col' = col + 1
      /\ UNCHANGED <<words, mask, command, ptr, key, sent, places, goal>>
  BY DEF SkipEqual, IInv, PointerOK
<1>2. Wanted' = Wanted BY <1>1 DEF Wanted
<1>3. UpInv(pc, col, cur, ptr, key, command, sent, goal, Wanted) BY DEF ListInv
<1>4. /\ LeastSoFar(AllColumns, cur, ptr) /\ Wanted = {v \in WordsFrom(cur) : v > Pointed(ptr)}
      /\ GonePast(col, cur, ptr) /\ command \in {"lookup", "next"}
  BY <1>1, <1>3 DEF UpInv
<1>5. Pointed(ptr) \in Int /\ ptr[1] \in Columns BY <1>1, PointedOK
<1>6. \A c \in Columns : c < AllColumns /\ (c < col + 1 => c < col \/ c = col)
  BY <1>1, MaskOK, NextColumn DEF AllColumns, Columns
<1>7. \A c \in Columns : cur[c] >= 0 => At(FileOf(c), cur[c]) \in Int
  BY PositionsOK, SpotsOK, NavigationAssumption DEF HasFile, IInv, RowOK
<1>8. /\ LeastSoFar(AllColumns, cur', ptr) /\ Wanted = {v \in WordsFrom(cur') : v > Pointed(ptr)}
      /\ GonePast(col + 1, cur', ptr)
  <2>1. CASE cur' = cur /\ (col = ptr[1] \/ cur[col] < 0)
    <3>1. GonePast(col + 1, cur, ptr)
      <4> SUFFICES ASSUME NEW c \in Columns, c < col + 1, c # ptr[1], cur[c] >= 0
                   PROVE  Pointed(ptr) < At(FileOf(c), cur[c])
        BY DEF GonePast
      <4>1. cur[c] \in Int BY DEF IInv, RowOK
      <4>2. c < col BY <1>6, <2>1, <4>1
      <4> QED BY <1>4, <4>2 DEF GonePast
    <3> QED BY <1>4, <2>1, <3>1
  <2>2. CASE ~ (cur' = cur /\ (col = ptr[1] \/ cur[col] < 0))
    <3> DEFINE pages == Read(page, col, cur[col])
    <3>1. /\ col # ptr[1] /\ cur[col] >= 0 /\ InPage(ptr, pages)
          /\ \E t \in Texts(ptr, pages) :
                IF t = At(FileOf(col), cur[col]) THEN Advance(col, pages) ELSE cur' = cur
      BY <2>2 DEF SkipEqual, ReadPointer
    <3>2. cur[col] \in Spots(col) BY <1>1 DEF IInv, RowOK
    <3>3. HasFile(col) /\ cur[col] \in Positions(FileOf(col)) BY <1>1, <3>1, <3>2, SpotsOK
    <3>6. Texts(ptr, pages) = {Pointed(ptr)} BY <3>1, PointedAt DEF Pointed
    <3> HIDE DEF pages
    <3>7. CASE Pointed(ptr) # At(FileOf(col), cur[col])
      <4>1. cur' = cur BY <3>1, <3>6, <3>7
      <4>2. Pointed(ptr) < At(FileOf(col), cur[col])
        BY <1>1, <1>4, <1>5, <1>6, <1>7, <3>1, <3>7 DEF LeastSoFar
      <4>3. GonePast(col + 1, cur, ptr) BY <1>4, <1>6, <4>2 DEF GonePast
      <4> QED BY <1>4, <4>1, <4>3
    <3>8. CASE Pointed(ptr) = At(FileOf(col), cur[col])
      <4>1. cur' = [cur EXCEPT ![col] = NextPos(FileOf(col), cur[col])]
        BY <3>1, <3>6, <3>8 DEF Advance
      <4>2. /\ {v \in WordsFrom(cur') : v > Pointed(ptr)} = {v \in WordsFrom(cur) : v > Pointed(ptr)}
            /\ cur'[col] >= 0 => Pointed(ptr) < At(FileOf(col), cur'[col])
            /\ RowOK(cur')
        BY <1>1, <3>1, <3>8, <4>1, GoesPast
      <4>3. \A c \in Columns : c # col => cur'[c] = cur[c] BY <4>1 DEF IInv, RowOK
      <4>4. cur'[col] >= 0 => At(FileOf(col), cur'[col]) \in Int
        BY <1>1, <4>2, PositionsOK, SpotsOK, NavigationAssumption DEF HasFile, RowOK
      <4>5. LeastSoFar(AllColumns, cur', ptr)
        BY <1>1, <1>4, <1>5, <3>1, <4>2, <4>3, <4>4 DEF LeastSoFar
      <4>6. GonePast(col + 1, cur', ptr) BY <1>4, <1>6, <4>2, <4>3 DEF GonePast
      <4> QED BY <1>4, <4>2, <4>5, <4>6
    <3> QED BY <3>7, <3>8
  <2> QED BY <2>1, <2>2
<1>9. UpInv(pc', col', cur', ptr', key', command', sent', goal', Wanted')
  BY <1>1, <1>2, <1>4, <1>8 DEF UpInv
<1>10. DownInv(pc', col', cur', ptr', key', command', sent', goal', Wanted') BY <1>1 DEF DownInv
<1> QED BY <1>1, <1>2, <1>9, <1>10, PreservedList DEF ListInv

LEMMA SkippedList ==
  ASSUME IInv, ListInv, Skipped
  PROVE  ListInv' /\ Wanted' = Wanted
<1>1. /\ pc = "skip" /\ pc' = "advance" /\ col \notin Columns /\ col' = 1
      /\ UNCHANGED <<words, mask, cur, command, ptr, key, sent, places, goal>>
  BY DEF Skipped, LoopEnds
<1>2. Wanted' = Wanted BY <1>1 DEF Wanted
<1>3. UpInv(pc, col, cur, ptr, key, command, sent, goal, Wanted) BY DEF ListInv
<1>4. col = AllColumns BY <1>1, AllSeen
<1>5. UpInv(pc', col', cur', ptr', key', command', sent', goal', Wanted')
  BY <1>1, <1>2, <1>3, <1>4 DEF UpInv
<1>6. DownInv(pc', col', cur', ptr', key', command', sent', goal', Wanted') BY <1>1 DEF DownInv
<1> QED BY <1>1, <1>2, <1>5, <1>6, PreservedList DEF ListInv

LEMMA AdvanceChosenList ==
  ASSUME IInv, ListInv, AdvanceChosen
  PROVE  ListInv' /\ Wanted' = Wanted
<1>1. /\ pc = "advance" /\ pc' = "current" /\ ptr # NoPtr /\ ptr' = NoPtr /\ col' = col /\ col = 1
      /\ cur' = [cur EXCEPT ![ptr[1]] = NextPos(FileOf(ptr[1]), cur[ptr[1]])]
      /\ UNCHANGED <<words, mask, command, key, sent, places, goal>>
  BY DEF AdvanceChosen, Advance, IInv, PointerOK, ListInv
<1>2. Wanted' = Wanted BY <1>1 DEF Wanted
<1>3. UpInv(pc, col, cur, ptr, key, command, sent, goal, Wanted) BY DEF ListInv
<1>4. /\ LeastSoFar(AllColumns, cur, ptr) /\ Wanted = {v \in WordsFrom(cur) : v > Pointed(ptr)}
      /\ GonePast(AllColumns, cur, ptr) /\ command \in {"lookup", "next"}
  BY <1>1, <1>3 DEF UpInv
<1>5. /\ ptr[1] \in Columns /\ Pointed(ptr) \in Int /\ cur[ptr[1]] = ptr[2] /\ cur[ptr[1]] >= 0
      /\ Pointed(ptr) = At(FileOf(ptr[1]), cur[ptr[1]])
  <2>1. ptr[2] \in Positions(FileOf(ptr[1])) /\ HasFile(ptr[1]) BY <1>1, PointedOK DEF PointsAt
  <2>2. cur[ptr[1]] = ptr[2] BY <1>1, <1>4 DEF LeastSoFar
  <2> QED BY <1>1, <2>1, <2>2, PointedOK, PositionsOK DEF Pointed, HasFile
<1>6. /\ RowOK(cur')
      /\ {v \in WordsFrom(cur') : v > Pointed(ptr)} = {v \in WordsFrom(cur) : v > Pointed(ptr)}
      /\ Rest(ptr[1], cur'[ptr[1]]) = {v \in Rest(ptr[1], cur[ptr[1]]) : v > Pointed(ptr)}
  BY <1>1, <1>5, GoesPast
<1>7. ASSUME NEW v \in WordsFrom(cur') PROVE v > Pointed(ptr)
  <2>1. PICK c \in Columns : v \in Rest(c, cur'[c]) BY <1>6, <1>7, WordsFromOK
  <2>2. CASE c = ptr[1] BY <1>6, <2>1, <2>2
  <2>3. CASE c # ptr[1]
    <3>1. cur'[c] = cur[c] /\ cur[c] \in Spots(c) BY <1>1, <2>3 DEF IInv, RowOK
    <3>2. cur[c] >= 0 /\ v \in Int /\ v >= At(FileOf(c), cur[c]) /\ At(FileOf(c), cur[c]) \in Int
      BY <2>1, <3>1, RestAbove
    <3>3. c < AllColumns BY MaskOK DEF Columns, AllColumns
    <3>4. Pointed(ptr) < At(FileOf(c), cur[c]) BY <1>4, <2>3, <3>2, <3>3 DEF GonePast
    <3> QED BY <1>5, <3>2, <3>4
  <2> QED BY <2>2, <2>3
<1>8. Wanted = WordsFrom(cur') BY <1>4, <1>6, <1>7
<1>9. UpInv(pc', col', cur', ptr', key', command', sent', goal', Wanted')
  BY <1>1, <1>2, <1>4, <1>8, NoneSoFar DEF UpInv
<1>10. DownInv(pc', col', cur', ptr', key', command', sent', goal', Wanted') BY <1>1 DEF DownInv
<1> QED BY <1>1, <1>2, <1>9, <1>10, PreservedList DEF ListInv

LEMMA CurrentFoundList ==
  ASSUME IInv, ListInv, CurrentFound
  PROVE  ListInv' /\ Wanted' = Wanted
<1>1. /\ pc = "current" /\ pc' = "send" /\ col \notin Columns /\ col' = 1
      /\ UNCHANGED <<words, mask, cur, command, ptr, key, sent, places, goal>>
  BY DEF CurrentFound, LoopEnds
<1>2. Wanted' = Wanted BY <1>1 DEF Wanted
<1>3. UpInv(pc, col, cur, ptr, key, command, sent, goal, Wanted) BY DEF ListInv
<1>4. col = AllColumns BY <1>1, AllSeen
<1>5. UpInv(pc', col', cur', ptr', key', command', sent', goal', Wanted')
  BY <1>1, <1>2, <1>3, <1>4 DEF UpInv
<1>6. DownInv(pc', col', cur', ptr', key', command', sent', goal', Wanted')
  BY <1>1, <1>3 DEF DownInv, UpInv
<1> QED BY <1>1, <1>2, <1>5, <1>6, PreservedList DEF ListInv

\* Before the cursors that poGetPreWord passes over there is nothing.
LEMMA NothingBefore ==
  ASSUME IInv, ListInv, NEW c \in Columns, NEW p \in Spots(c),
         NoneBefore(p) \/ PrevPos(FileOf(c), p) = UNSET_INDEX
  PROVE  Until(c, p) = {}
<1>1. CASE ~HasFile(c) BY <1>1, RestOK
<1>2. CASE HasFile(c) /\ PrevPos(FileOf(c), p) = UNSET_INDEX BY <1>2, PrevUntil
<1>3. CASE HasFile(c) /\ NoneBefore(p)
  <2>1. p \in Int /\ p # INVALID_INDEX /\ p <= 0 BY <1>3, SpotsOK DEF NoneBefore
  <2>2. \A r \in Positions(FileOf(c)) : ~ (r < p)
    BY <1>3, <2>1, PositionsOK DEF Positions, HasFile
  <2>3. PrevPos(FileOf(c), p) = UNSET_INDEX BY <2>1, <2>2 DEF PrevPos
  <2> QED BY <1>3, <2>3, PrevUntil
<1> QED BY <1>1, <1>2, <1>3

\* One more column is compared, and the pointer is the greater of the two.
LEMMA ChoosePrevStep ==
  ASSUME fresh', IInv, ListInv, ChoosePrev, GreatestSoFar(col, cur, ptr)
  PROVE  GreatestSoFar(col', cur', ptr') /\ cur' = [cur EXCEPT ![col] = cur'[col]] /\ cur'[col] \in Cursors(col)
<1>1. pc = "choosePrev" /\ col \in Columns /\ col' = col + 1 BY DEF ChoosePrev
<1>2. PICK p \in Cursors(col), looked \in AfterLookup(col) :
         LET q == PrevPos(FileOf(col), p) IN
         /\ cur' = [cur EXCEPT ![col] = p]
         /\ \/ (NoneBefore(p) \/ q = UNSET_INDEX) /\ ptr' = ptr
            \/ /\ ~NoneBefore(p) /\ q # UNSET_INDEX
               /\ \/ ptr = NoPtr /\ ptr' = <<col, q>>
                  \/ /\ ptr # NoPtr /\ InPage(ptr, page')
                     /\ \E t \in Texts(ptr, page') :
                           ptr' = IF t < At(FileOf(col), q) THEN <<col, q>> ELSE ptr
  BY DEF ChoosePrev, ReadPointer
<1> DEFINE q == PrevPos(FileOf(col), p)
<1>3. p \in Spots(col) BY <1>1, CursorsOK
<1>4. cur'[col] = p /\ \A c \in Columns : c # col => cur'[c] = cur[c] BY <1>1, <1>2 DEF IInv, RowOK
<1>5. col \in Int /\ \A c \in Columns : c \in Int /\ (c < col + 1 <=> c < col \/ c = col)
  BY <1>1, MaskOK, NextColumn
<1> SUFFICES GreatestSoFar(col', cur', ptr') BY <1>2, <1>4
<1>6. ptr # NoPtr => ptr[1] \in Columns /\ ptr[1] # col /\ Pointed(ptr) \in Int
  <2> SUFFICES ASSUME ptr # NoPtr PROVE ptr[1] \in Columns /\ ptr[1] # col /\ Pointed(ptr) \in Int OBVIOUS
  <2>1. ptr[1] < col BY <1>1 DEF IInv, PointerOK
  <2> QED BY <1>5, <2>1, PointedOK
<1>7. ptr # NoPtr => Pointed(ptr) \in Until(ptr[1], cur'[ptr[1]]) BY <1>4, <1>6 DEF GreatestSoFar
<1>8. \A c \in Columns : c < col => \A v \in Until(c, cur'[c]) : v \in Int /\ ptr # NoPtr /\ v <= Pointed(ptr)
  <2> TAKE c \in Columns
  <2> SUFFICES ASSUME c < col, NEW v \in Until(c, cur'[c]) PROVE v \in Int /\ ptr # NoPtr /\ v <= Pointed(ptr)
    OBVIOUS
  <2>1. cur'[c] = cur[c] /\ cur[c] \in Spots(c) BY <1>4, <1>5 DEF IInv, RowOK
  <2>2. v \in Int BY <2>1, RestOK, FileWordsOK
  <2> QED BY <2>1, <2>2 DEF GreatestSoFar
<1>9. CASE (NoneBefore(p) \/ q = UNSET_INDEX) /\ ptr' = ptr
  <2>1. Until(col, cur'[col]) = {} BY <1>1, <1>3, <1>4, <1>9, NothingBefore
  <2> QED BY <1>1, <1>5, <1>7, <1>8, <1>9, <2>1 DEF GreatestSoFar
<1>10. CASE ~NoneBefore(p) /\ q # UNSET_INDEX
  <2>1. HasFile(col) BY <1>1, <1>3, <1>10, BeforeOK
  <2>2. /\ q \in Positions(FileOf(col)) /\ At(FileOf(col), q) \in Until(col, p)
        /\ \A v \in Until(col, p) : v <= At(FileOf(col), q)
    BY <1>1, <1>3, <1>10, <2>1, PrevUntil
  <2>3. At(FileOf(col), q) \in Int /\ \A v \in Until(col, p) : v \in Int
    BY <1>1, <1>3, <2>2, RestOK, FileWordsOK
  <2>4. <<col, q>> # NoPtr /\ Pointed(<<col, q>>) = At(FileOf(col), q)
    BY <1>1, NextColumn DEF NoPtr, Pointed
  <2> HIDE DEF q
  <2>5. ASSUME ptr' = <<col, q>>, ptr # NoPtr => Pointed(ptr) <= At(FileOf(col), q)
        PROVE  GreatestSoFar(col', cur', ptr')
    <3>1. ptr'[1] = col /\ Pointed(ptr') = At(FileOf(col), q) /\ ptr' # NoPtr BY <2>4, <2>5
    <3>2. \A c \in Columns : c < col => \A v \in Until(c, cur'[c]) : v <= Pointed(ptr')
      BY <1>6, <1>8, <2>3, <2>5, <3>1
    <3> QED BY <1>1, <1>4, <1>5, <2>2, <3>1, <3>2 DEF GreatestSoFar
  <2>6. CASE ptr = NoPtr BY <1>2, <1>10, <2>5, <2>6 DEF q
  <2>7. CASE ptr # NoPtr
    <3>1. PICK t \in Texts(ptr, page') :
             InPage(ptr, page') /\ ptr' = IF t < At(FileOf(col), q) THEN <<col, q>> ELSE ptr
      BY <1>2, <1>10, <2>7 DEF q
    <3>4. t = Pointed(ptr) BY <3>1, PointedAt DEF Pointed
    <3>5. CASE Pointed(ptr) < At(FileOf(col), q) BY <1>6, <2>3, <2>5, <2>7, <3>1, <3>4, <3>5
    <3>6. CASE ~ (Pointed(ptr) < At(FileOf(col), q))
      <4>1. ptr' = ptr BY <3>1, <3>4, <3>6
      <4>2. \A v \in Until(col, cur'[col]) : v <= Pointed(ptr)
        BY <1>4, <1>6, <2>2, <2>3, <2>7, <3>6
      <4> QED BY <1>1, <1>5, <1>7, <1>8, <2>7, <4>1, <4>2 DEF GreatestSoFar
    <3> QED BY <3>5, <3>6
  <2> QED BY <2>6, <2>7
<1> QED BY <1>2, <1>9, <1>10

LEMMA ChoosePrevList ==
  ASSUME fresh', IInv, ListInv, ChoosePrev
  PROVE  ListInv' /\ Wanted' = Wanted
<1>1. /\ pc = "choosePrev" /\ pc' = pc /\ col \in Columns /\ col' = col + 1
      /\ UNCHANGED <<words, mask, command, key, sent, places, goal>>
  BY DEF ChoosePrev
<1>2. Wanted' = Wanted BY <1>1 DEF Wanted
<1>3. DownInv(pc, col, cur, ptr, key, command, sent, goal, Wanted) BY DEF ListInv
<1>4. GreatestSoFar(col, cur, ptr) BY <1>1, <1>3 DEF DownInv
<1>5. GreatestSoFar(col', cur', ptr') /\ cur' = [cur EXCEPT ![col] = cur'[col]] /\ cur'[col] \in Cursors(col)
  BY <1>4, ChoosePrevStep
<1>6. key = NoWord => cur' = cur
  <2> SUFFICES ASSUME key = NoWord PROVE cur' = cur OBVIOUS
  <2>1. Cursors(col) = {cur[col]} BY DEF Cursors, Searching
  <2> QED BY <1>5, <2>1 DEF IInv, RowOK
<1>7. key # NoWord => PutOn(col', cur', key)
  <2> SUFFICES ASSUME key # NoWord PROVE PutOn(col + 1, cur', key) BY <1>1
  <2>1. PutOn(col, cur, key) BY <1>1, <1>3 DEF DownInv
  <2>2. cur'[col] \in Places(col, key) BY <1>1, <1>5 DEF Cursors, Searching
  <2>3. \A c \in Columns : c # col => cur'[c] = cur[c] BY <1>5 DEF IInv, RowOK
  <2>4. \A c \in Columns : c < col + 1 => c < col \/ c = col BY <1>1, MaskOK, NextColumn
  <2> QED BY <2>1, <2>2, <2>3, <2>4 DEF PutOn
<1>8. DownInv(pc', col', cur', ptr', key', command', sent', goal', Wanted')
  BY <1>1, <1>2, <1>3, <1>5, <1>6, <1>7 DEF DownInv
<1>9. UpInv(pc', col', cur', ptr', key', command', sent', goal', Wanted') BY <1>1 DEF UpInv
<1> QED BY <1>1, <1>2, <1>8, <1>9, PreservedList DEF ListInv

\* The words before the cursors are integers, and not above the pointer once all
\* columns are compared.
LEMMA GreatestOfAll ==
  ASSUME IInv, GreatestSoFar(AllColumns, cur, ptr)
  PROVE  /\ ptr = NoPtr => WordsUntil(cur) = {}
         /\ ptr # NoPtr => Pointed(ptr) \in WordsUntil(cur)
         /\ \A v \in WordsUntil(cur) : v <= Pointed(ptr)
<1>1. \A c \in Columns : c < AllColumns BY MaskOK DEF AllColumns, Columns
<1>2. \A v \in WordsUntil(cur) : ptr # NoPtr /\ v <= Pointed(ptr)
  BY <1>1 DEF WordsUntil, GreatestSoFar
<1>3. ptr # NoPtr => Pointed(ptr) \in WordsUntil(cur) BY PointedOK DEF WordsUntil, GreatestSoFar
<1> QED BY <1>2, <1>3

LEMMA ChosenPrevList ==
  ASSUME IInv, ListInv, ChosenPrev
  PROVE  ListInv' /\ Wanted' = Wanted
<1>1. /\ pc = "choosePrev" /\ pc' = (IF ptr = NoPtr THEN "send" ELSE "skipPrev") /\ col \notin Columns /\ col' = 1
      /\ UNCHANGED <<words, mask, cur, command, ptr, key, sent, places, goal>>
  BY DEF ChosenPrev, LoopEnds
<1>2. Wanted' = Wanted BY <1>1 DEF Wanted
<1>3. DownInv(pc, col, cur, ptr, key, command, sent, goal, Wanted) BY DEF ListInv
<1>4. col = AllColumns BY <1>1, AllSeen
<1>5. /\ GreatestSoFar(AllColumns, cur, ptr) /\ command = "previous"
      /\ key # NoWord => sent = <<>> /\ goal = Below(key) /\ PutOn(AllColumns, cur, key)
      /\ key = NoWord => Wanted = WordsUntil(cur)
  BY <1>1, <1>3, <1>4 DEF DownInv
<1>6. Wanted = WordsUntil(cur)
  <2>1. CASE key = NoWord BY <1>5, <2>1
  <2>2. CASE key # NoWord
    <3>1. Wanted = Below(key) BY <1>5, <2>2 DEF Wanted
    <3>2. key \in Words BY <2>2 DEF IInv
    <3> QED BY <1>5, <2>2, <3>1, <3>2, PutOnAll
  <2> QED BY <2>1, <2>2
<1>7. /\ ptr = NoPtr => Wanted = {}
      /\ ptr # NoPtr => Nearest(ptr, Wanted)
      /\ \A c \in Columns : \A v \in Until(c, cur[c]) : v <= Pointed(ptr)
  BY <1>5, <1>6, GreatestOfAll DEF Nearest, WordsUntil
<1>8. GoneBack(1, cur, ptr)
  <2>1. \A c \in Columns : ~ (c < 1) BY MaskOK DEF Columns
  <2> QED BY <1>7, <2>1 DEF GoneBack
<1>9. DownInv(pc', col', cur', ptr', key', command', sent', goal', Wanted')
  BY <1>1, <1>2, <1>5, <1>6, <1>7, <1>8 DEF DownInv
<1>10. UpInv(pc', col', cur', ptr', key', command', sent', goal', Wanted')
  BY <1>1, <1>5 DEF UpInv
<1> QED BY <1>1, <1>2, <1>9, <1>10, PreservedList DEF ListInv

\* A column before which a word stands goes back to it, and keeps all lesser words.
LEMMA GoesBack ==
  ASSUME IInv, ListInv, NEW c \in Columns, HasFile(c), PrevPos(FileOf(c), cur[c]) # UNSET_INDEX,
         cur' = [cur EXCEPT ![c] = PrevPos(FileOf(c), cur[c])]
  PROVE  /\ \A v : v < At(FileOf(c), cur'[c]) => (v \in WordsUntil(cur') <=> v \in WordsUntil(cur))
         /\ \A v \in Until(c, cur'[c]) : v \in Until(c, cur[c]) /\ v < At(FileOf(c), cur'[c])
         /\ \A d \in Columns : d # c => cur'[d] = cur[d]
<1> DEFINE q == PrevPos(FileOf(c), cur[c])
           w == At(FileOf(c), q)
<1>1. cur[c] \in Spots(c) BY DEF IInv, RowOK
<1>2. Until(c, q) = {v \in Until(c, cur[c]) : v < w} BY <1>1, PrevUntil
<1>3. \A d \in Columns : cur'[d] = IF d = c THEN q ELSE cur[d] BY DEF IInv, RowOK
<1> HIDE DEF q, w
<1>4. ASSUME NEW v, v < w PROVE v \in WordsUntil(cur') <=> v \in WordsUntil(cur)
  <2>1. \A d \in Columns : v \in Until(d, cur'[d]) <=> v \in Until(d, cur[d]) BY <1>2, <1>3, <1>4
  <2> QED BY <2>1 DEF WordsUntil
<1>5. At(FileOf(c), cur'[c]) = w BY <1>3 DEF w
<1> QED BY <1>2, <1>3, <1>4, <1>5

LEMMA SkipPrevList ==
  ASSUME fresh', IInv, ListInv, SkipPrev
  PROVE  ListInv' /\ Wanted' = Wanted
<1>1. /\ pc = "skipPrev" /\ pc' = pc /\ ptr # NoPtr /\ col \in Columns /\ col' = col + 1
      /\ UNCHANGED <<words, mask, command, ptr, key, sent, places, goal>>
  BY DEF SkipPrev, IInv, PointerOK
<1>2. Wanted' = Wanted BY <1>1 DEF Wanted
<1>3. DownInv(pc, col, cur, ptr, key, command, sent, goal, Wanted) BY DEF ListInv
<1> DEFINE w == Pointed(ptr)
           q == PrevPos(FileOf(col), cur[col])
<1>4. /\ Nearest(ptr, Wanted) /\ command = "previous"
      /\ {v \in Wanted : v < w} = {v \in WordsUntil(cur) : v < w}
      /\ GoneBack(col, cur, ptr)
  BY <1>1, <1>3 DEF DownInv
<1>5. w \in Int /\ cur[col] \in Spots(col) BY <1>1, PointedOK DEF IInv, RowOK
<1>6. \A c \in Columns : c < col + 1 => c < col \/ c = col BY <1>1, MaskOK, NextColumn
<1>7. /\ {v \in WordsUntil(cur') : v < w} = {v \in WordsUntil(cur) : v < w}
      /\ GoneBack(col + 1, cur', ptr)
  <2>1. CASE cur' = cur /\ (col = ptr[1] \/ NoneBefore(cur[col]) \/ q = UNSET_INDEX)
    <3>1. col = ptr[1] \/ Until(col, cur[col]) = {} BY <1>1, <1>5, <2>1, NothingBefore
    <3>2. GoneBack(col + 1, cur, ptr) BY <1>4, <1>6, <3>1 DEF GoneBack
    <3> QED BY <2>1, <3>2
  <2>2. CASE ~ (cur' = cur /\ (col = ptr[1] \/ NoneBefore(cur[col]) \/ q = UNSET_INDEX))
    <3>1. /\ col # ptr[1] /\ ~NoneBefore(cur[col]) /\ q # UNSET_INDEX
          /\ InPage(ptr, page')
          /\ \E t \in Texts(ptr, page') :
                cur' = IF t = At(FileOf(col), q) THEN [cur EXCEPT ![col] = q] ELSE cur
      BY <2>2 DEF SkipPrev, ReadPointer
    <3>2. HasFile(col) BY <1>1, <1>5, <3>1, BeforeOK
    <3>3. /\ q \in Positions(FileOf(col)) /\ \A v \in Until(col, cur[col]) : v <= At(FileOf(col), q)
          /\ At(FileOf(col), q) \in Until(col, cur[col])
      BY <1>1, <1>5, <3>1, <3>2, PrevUntil
    <3>5. Texts(ptr, page') = {w} BY <3>1, PointedAt DEF Pointed
    <3>6. cur' = IF w = At(FileOf(col), q) THEN [cur EXCEPT ![col] = q] ELSE cur BY <3>1, <3>5
    <3>7. At(FileOf(col), q) \in Int /\ \A v \in Until(col, cur[col]) : v \in Int
      BY <1>1, <1>5, <3>3, RestOK, FileWordsOK
    <3>8. CASE w = At(FileOf(col), q)
      <4>1. cur' = [cur EXCEPT ![col] = q] BY <3>6, <3>8
      <4>0. At(FileOf(col), cur'[col]) = w BY <1>1, <3>8, <4>1 DEF IInv, RowOK
      <4>5. q # UNSET_INDEX BY <3>1
      <4>2. /\ \A v : v < w => (v \in WordsUntil(cur') <=> v \in WordsUntil(cur))
            /\ \A v \in Until(col, cur'[col]) : v \in Until(col, cur[col]) /\ v < w
            /\ \A d \in Columns : d # col => cur'[d] = cur[d]
        BY <1>1, <3>2, <4>0, <4>1, <4>5, GoesBack
      <4> HIDE DEF w, q
      <4>3. GoneBack(col + 1, cur', ptr) BY <1>4, <1>6, <4>2 DEF GoneBack, w
      <4> QED BY <4>2, <4>3
    <3>9. CASE w # At(FileOf(col), q)
      <4>1. cur' = cur BY <3>6, <3>9
      <4>2. At(FileOf(col), q) <= w BY <1>1, <1>4, <3>3 DEF GoneBack
      <4>3. \A v \in Until(col, cur[col]) : v < w BY <1>5, <3>3, <3>7, <3>9, <4>2
      <4>4. GoneBack(col + 1, cur, ptr) BY <1>4, <1>6, <4>3 DEF GoneBack
      <4> QED BY <4>1, <4>4
    <3> QED BY <3>8, <3>9
  <2> QED BY <2>1, <2>2
<1>8. DownInv(pc', col', cur', ptr', key', command', sent', goal', Wanted')
  BY <1>1, <1>2, <1>4, <1>7 DEF DownInv
<1>9. UpInv(pc', col', cur', ptr', key', command', sent', goal', Wanted') BY <1>1 DEF UpInv
<1> QED BY <1>1, <1>2, <1>8, <1>9, PreservedList DEF ListInv

LEMMA SkippedPrevList ==
  ASSUME IInv, ListInv, SkippedPrev
  PROVE  ListInv' /\ Wanted' = Wanted
<1>1. /\ pc = "skipPrev" /\ pc' = "stepBack" /\ col \notin Columns /\ col' = 1
      /\ UNCHANGED <<words, mask, cur, command, ptr, key, sent, places, goal>>
  BY DEF SkippedPrev, LoopEnds
<1>2. Wanted' = Wanted BY <1>1 DEF Wanted
<1>3. DownInv(pc, col, cur, ptr, key, command, sent, goal, Wanted) BY DEF ListInv
<1>4. col = AllColumns BY <1>1, AllSeen
<1>5. DownInv(pc', col', cur', ptr', key', command', sent', goal', Wanted')
  BY <1>1, <1>2, <1>3, <1>4 DEF DownInv
<1>6. UpInv(pc', col', cur', ptr', key', command', sent', goal', Wanted') BY <1>1 DEF UpInv
<1> QED BY <1>1, <1>2, <1>5, <1>6, PreservedList DEF ListInv

LEMMA StepBackList ==
  ASSUME IInv, ListInv, StepBack
  PROVE  ListInv' /\ Wanted' = Wanted
<1>1. /\ pc = "stepBack" /\ pc' = "send" /\ ptr # NoPtr /\ col' = col /\ col = 1
      /\ cur' = [cur EXCEPT ![ptr[1]] = PrevPos(FileOf(ptr[1]), cur[ptr[1]])]
      /\ UNCHANGED <<words, mask, command, ptr, key, sent, places, goal>>
  BY DEF StepBack, IInv, PointerOK, ListInv
<1>2. Wanted' = Wanted BY <1>1 DEF Wanted
<1>3. DownInv(pc, col, cur, ptr, key, command, sent, goal, Wanted) BY DEF ListInv
<1> DEFINE w == Pointed(ptr)
           c == ptr[1]
           q == PrevPos(FileOf(c), cur[c])
<1>4. /\ Nearest(ptr, Wanted) /\ command = "previous"
      /\ {v \in Wanted : v < w} = {v \in WordsUntil(cur) : v < w}
      /\ GoneBack(AllColumns, cur, ptr)
  BY <1>1, <1>3 DEF DownInv
<1>5. /\ c \in Columns /\ HasFile(c) /\ q = ptr[2] /\ q \in Positions(FileOf(c)) /\ w \in Int
  BY <1>1, PointedOK DEF IInv, PointerOK, PointsAt
<1>6. q # UNSET_INDEX /\ At(FileOf(c), cur'[c]) = w
  BY <1>1, <1>5, PositionsOK DEF Positions, UNSET_INDEX, Pointed, IInv, RowOK
<1>7. /\ \A v : v < w => (v \in WordsUntil(cur') <=> v \in WordsUntil(cur))
      /\ \A v \in Until(c, cur'[c]) : v \in Until(c, cur[c]) /\ v < w
      /\ \A d \in Columns : d # c => cur'[d] = cur[d]
  BY <1>1, <1>5, <1>6, GoesBack
<1> HIDE DEF w, q
<1>8. \A d \in Columns : d < AllColumns BY MaskOK DEF AllColumns, Columns
<1>9. \A d \in Columns : \A v \in Until(d, cur'[d]) : v < w
  BY <1>4, <1>7, <1>8 DEF GoneBack, w
<1>10. WordsUntil(cur') = {v \in Wanted : v < w} BY <1>4, <1>7, <1>9 DEF WordsUntil
<1>11. DownInv(pc', col', cur', ptr', key', command', sent', goal', Wanted')
  BY <1>1, <1>2, <1>4, <1>10 DEF DownInv, w
<1>12. UpInv(pc', col', cur', ptr', key', command', sent', goal', Wanted') BY <1>1, <1>4 DEF UpInv
<1> QED BY <1>1, <1>2, <1>11, <1>12, PreservedList DEF ListInv

\* The word sent is the nearest of those wanted, and the only one no longer wanted.
LEMMA SendStep ==
  ASSUME fresh', IInv, ListInv, Send
  PROVE  /\ Pointed(ptr) \in Wanted /\ sent' = Append(sent, Pointed(ptr))
         /\ \A v \in Wanted : IF command = "previous" THEN v <= Pointed(ptr) ELSE Pointed(ptr) <= v
         /\ Wanted' = {v \in Wanted : IF command = "previous" THEN v < Pointed(ptr) ELSE v > Pointed(ptr)}
         /\ Wanted' = Wanted \ {Pointed(ptr)}
<1> DEFINE w == Pointed(ptr)
<1>1. pc = "send" /\ ptr # NoPtr /\ command' = command /\ goal' = goal BY DEF Send
<1>2. InPage(ptr, page) /\ w \in Words /\ w \in Int BY <1>1, PointedOK DEF Send, ReadPointer
<1>3. Texts(ptr, page) = {w} BY <1>2, PointedAt DEF Pointed
<1>4. sent' = Append(sent, w) BY <1>3 DEF Send
<1>5. /\ UpInv(pc, col, cur, ptr, key, command, sent, goal, Wanted)
      /\ DownInv(pc, col, cur, ptr, key, command, sent, goal, Wanted)
  BY DEF ListInv
<1>6. w \in Wanted /\ \A v \in Wanted : IF command = "previous" THEN v <= w ELSE w <= v
  <2>1. CASE command = "previous" BY <1>1, <1>5, <2>1 DEF DownInv, Nearest
  <2>2. CASE command # "previous"
    <3>1. LeastSoFar(AllColumns, cur, ptr) /\ Wanted = WordsFrom(cur) BY <1>1, <1>5, <2>2 DEF UpInv
    <3> QED BY <1>1, <2>2, <3>1, LeastOfAll
  <2> QED BY <2>1, <2>2
<1>7. sent \in Seq(Words) /\ goal \subseteq Words /\ Words \subseteq Int
  BY NavigationAssumption DEF IInv, ListInv
<1>8. sent' # <<>> /\ sent'[Len(sent')] = w BY <1>4, <1>7
<1>9. Wanted' = {v \in goal : IF command = "previous" THEN v < w ELSE v > w}
  BY <1>1, <1>8 DEF Wanted
<1>10. \A v \in goal : (IF command = "previous" THEN v < w ELSE v > w) => v \in Wanted
  <2>1. CASE sent = <<>> BY <2>1 DEF Wanted
  <2>2. CASE sent # <<>>
    <3>1. sent[Len(sent)] \in Int
      <4>1. Len(sent) \in Nat /\ Len(sent) # 0 BY <1>7, <2>2
      <4>2. \A i \in 1 .. Len(sent) : sent[i] \in Words BY <1>7
      <4>3. Len(sent) \in 1 .. Len(sent) BY <4>1
      <4>4. sent[Len(sent)] \in Words BY <4>2, <4>3
      <4> QED BY <1>7, <4>4
    <3>2. IF command = "previous" THEN w < sent[Len(sent)] ELSE w > sent[Len(sent)]
      BY <1>6, <2>2 DEF Wanted
    <3> QED BY <1>2, <1>7, <2>2, <3>1, <3>2 DEF Wanted
  <2> QED BY <2>1, <2>2
<1>11. Wanted \subseteq goal BY DEF Wanted
<1>12. Wanted' = {v \in Wanted : IF command = "previous" THEN v < w ELSE v > w}
  BY <1>9, <1>10, <1>11
<1>13. \A v \in Wanted : v # w <=> IF command = "previous" THEN v < w ELSE v > w
  BY <1>2, <1>6, <1>7, <1>11
<1> QED BY <1>4, <1>6, <1>12, <1>13

LEMMA SendList ==
  ASSUME fresh', IInv, ListInv, Send
  PROVE  ListInv'
<1> DEFINE w == Pointed(ptr)
<1>1. /\ pc = "send" /\ ptr # NoPtr /\ ptr' = NoPtr /\ key' = NoWord /\ col = 1 /\ command # "none"
      /\ UNCHANGED <<words, mask, command, col, places, goal>>
      /\ \/ Len(sent') < places /\ cur' = cur
            /\ pc' = IF command = "previous" THEN "choosePrev" ELSE "choose"
         \/ pc' = "idle"
  BY DEF Send, ListInv
<1>2. w \in Words /\ w \in Int BY <1>1, PointedOK
<1>3. /\ w \in Wanted
      /\ \A v \in Wanted : IF command = "previous" THEN v <= w ELSE w <= v
      /\ Wanted' = {v \in Wanted : IF command = "previous" THEN v < w ELSE v > w}
  BY SendStep
<1>4. /\ UpInv(pc, col, cur, ptr, key, command, sent, goal, Wanted)
      /\ DownInv(pc, col, cur, ptr, key, command, sent, goal, Wanted)
      /\ command \in {"none", "lookup", "next", "previous"}
  BY DEF ListInv
<1>5. Wanted \subseteq Int BY NavigationAssumption DEF Wanted, ListInv
<1> HIDE DEF w
<1>6. /\ UpInv(pc', col', cur', ptr', key', command', sent', goal', Wanted')
      /\ DownInv(pc', col', cur', ptr', key', command', sent', goal', Wanted')
  <2>1. CASE pc' = "idle" BY <2>1 DEF UpInv, DownInv
  <2>2. CASE pc' = "choose" /\ cur' = cur /\ command # "previous"
    <3>1. Wanted = WordsFrom(cur) BY <1>1, <1>4, <2>2 DEF UpInv
    <3>2. \A v \in Wanted : v > w <=> \E u \in Wanted : u < v BY <1>2, <1>3, <1>5, <2>2
    <3>3. Wanted' = NotLeast(WordsFrom(cur)) BY <1>3, <2>2, <3>1, <3>2 DEF NotLeast
    <3> QED BY <1>1, <1>4, <2>2, <3>3, NoneSoFar DEF UpInv, DownInv
  <2>3. CASE pc' = "choosePrev" /\ cur' = cur /\ command = "previous"
    <3>1. WordsUntil(cur) = {v \in Wanted : v < w} BY <1>1, <1>4, <2>3 DEF DownInv, w
    <3>2. Wanted' = WordsUntil(cur) BY <1>3, <2>3, <3>1
    <3> QED BY <1>1, <2>3, <3>2, NoneSoFar DEF UpInv, DownInv
  <2> QED BY <1>1, <2>1, <2>2, <2>3
<1>7. pc' # "idle" => Len(sent') < places BY <1>1
<1>8. pc' \notin {"advance", "stepBack", "send"} BY <1>1
<1> QED BY <1>1, <1>6, <1>7, <1>8, PreservedList DEF ListInv

\* poGetCurrentWord, poGetNextWord and poGetPreWord return NULL when no word is left.
LEMMA ExhaustedList ==
  ASSUME IInv, ListInv, Exhausted
  PROVE  ListInv' /\ Wanted' = Wanted /\ Wanted = {}
<1>1. /\ pc = "send" /\ pc' = "idle" /\ ptr = NoPtr
      /\ UNCHANGED <<words, mask, command, sent, places, goal>>
  BY DEF Exhausted
<1>2. Wanted' = Wanted BY <1>1 DEF Wanted
<1>3. /\ UpInv(pc, col, cur, ptr, key, command, sent, goal, Wanted)
      /\ DownInv(pc, col, cur, ptr, key, command, sent, goal, Wanted)
  BY DEF ListInv
<1>4. Wanted = {}
  <2>1. CASE command = "previous" BY <1>1, <1>3, <2>1 DEF DownInv
  <2>2. CASE command # "previous"
    <3>1. LeastSoFar(AllColumns, cur, ptr) /\ Wanted = WordsFrom(cur) BY <1>1, <1>3, <2>2 DEF UpInv
    <3> QED BY <1>1, <3>1, LeastOfAll
  <2> QED BY <2>1, <2>2
<1>5. UpInv(pc', col', cur', ptr', key', command', sent', goal', Wanted') BY <1>1 DEF UpInv
<1>6. DownInv(pc', col', cur', ptr', key', command', sent', goal', Wanted') BY <1>1 DEF DownInv
<1> QED BY <1>1, <1>2, <1>4, <1>5, <1>6, PreservedList DEF ListInv

-----------------------------------------------------------------------------
(* The page of the pointer, when a mask names a dictionary twice.          *)

\* Of the columns before n, those of one file are at one position.
SameCursors(n, row) ==
    \A b, c \in Columns : b < n /\ c < n /\ FileOf(b) = FileOf(c) => row[b] = row[c]

\* Where the loops over equal words leave a column c that was at i.
Past(p, c, i) == IF i >= 0 /\ At(FileOf(c), i) = Pointed(p) THEN NextPos(FileOf(c), i) ELSE i

Back(p, c, i) ==
    LET q == PrevPos(FileOf(c), i) IN
    IF ~NoneBefore(i) /\ q # UNSET_INDEX /\ At(FileOf(c), q) = Pointed(p) THEN q ELSE i

\* The columns before n have been through them, the others are where they were.
MovedPast(n, row, p, old) ==
    \A c \in Columns : row[c] = IF c < n /\ c # p[1] THEN Past(p, c, old[c]) ELSE old[c]

MovedBack(n, row, p, old) ==
    \A c \in Columns : row[c] = IF c < n /\ c # p[1] THEN Back(p, c, old[c]) ELSE old[c]

\* Another column of the pointer's file is before n.
Ahead(n, p) == \E c \in Columns : c < n /\ c # p[1] /\ FileOf(c) = FileOf(p[1])

Together(old) == \A b, c \in Columns : FileOf(b) = FileOf(c) => old[b] = old[c]

\* The step s at column n: columns of one file go together, and the pointer's page
\* is the one in memory, but for the loops after which poGetNextWord drops it.
PageInv(s, n, row, pages, p, k) ==
    /\ s \in {"choose", "choosePrev"} /\ k # NoWord => SameCursors(n, row)
    /\ s \in {"choose", "choosePrev"} /\ k = NoWord => Together(row)
    /\ s \in {"current", "send"} => Together(row)
    /\ s \in {"choose", "current", "skip", "advance"} /\ p # NoPtr => row[p[1]] = p[2]
    /\ s = "skip" => \E old : Together(old) /\ MovedPast(n, row, p, old)
    /\ s = "advance" => \E old : Together(old) /\ MovedPast(AllColumns, row, p, old)
    /\ s = "skipPrev" => \E old : Together(old) /\ MovedBack(n, row, p, old)
    /\ s = "stepBack" => \E old : Together(old) /\ MovedBack(AllColumns, row, p, old)
    /\ s \in {"choose", "current", "choosePrev", "skipPrev", "stepBack", "send"} /\ p # NoPtr =>
          InPage(p, pages)
    /\ s = "skip" => InPage(p, pages) \/ Ahead(n, p)
    /\ s = "idle" => p = NoPtr

Twice == \E b, c \in Columns : b # c /\ FileOf(b) = FileOf(c)

FreshInv ==
    /\ fresh \in BOOLEAN
    /\ fresh => PageInv(pc, col, cur, page, ptr, key)
    /\ ~fresh => Twice

LEMMA PreservedPages ==
  ASSUME words' = words, mask' = mask, fresh' \in BOOLEAN,
         fresh' => PageInv(pc', col', cur', page', ptr', key'), ~fresh' => Twice
  PROVE  FreshInv'
<1>1. \A f, p : /\ At(f, p)' = At(f, p) /\ NextPos(f, p)' = NextPos(f, p)
                /\ PrevPos(f, p)' = PrevPos(f, p)
  BY DEF NextPos, PrevPos, Positions, Last, At
<1>2. Columns' = Columns /\ AllColumns' = AllColumns /\ \A c : FileOf(c)' = FileOf(c)
  BY DEF Columns, AllColumns, FileOf
<1>3. \A p : Pointed(p)' = Pointed(p) BY <1>1, <1>2 DEF Pointed
<1>4. \A p, c, i : Past(p, c, i)' = Past(p, c, i) /\ Back(p, c, i)' = Back(p, c, i)
  BY <1>1, <1>2, <1>3 DEF Past, Back, NoneBefore
<1>5. PageInv(pc, col, cur, page, ptr, key)' <=> PageInv(pc', col', cur', page', ptr', key')
  BY <1>2, <1>4 DEF PageInv, SameCursors, Together, MovedPast, MovedBack, Ahead, InPage, NoPtr
<1>6. Twice' <=> Twice BY <1>2 DEF Twice
<1> QED BY <1>5, <1>6 DEF FreshInv

\* Columns before another one, and all columns.
LEMMA ColumnsBefore ==
  ASSUME IInv
  PROVE  /\ \A c \in Columns : c \in Int /\ c < AllColumns
         /\ col \notin Columns => col = AllColumns
         /\ col \in Columns => \A c \in Columns : c < col + 1 <=> c < col \/ c = col
<1>1. Len(mask) \in Nat /\ col \in 1 .. 2 * Len(mask) + 1 BY MaskOK DEF IInv
<1> QED BY <1>1 DEF Columns, AllColumns

LEMMA BeginPages ==
  ASSUME IInv, ListWords \/ \E w \in Words : NextWords(w) \/ PreviousWords(w)
  PROVE  FreshInv'
<1>1. words' = words /\ mask' = mask /\ fresh' = TRUE /\ ptr' = NoPtr /\ col' = 1
  BY DEF ListWords, NextWords, PreviousWords, Begin
<1>2. \A c \in Columns : ~ (c < 1) BY MaskOK DEF Columns
<1>3. CASE ListWords
  <2>1. pc' = "current" /\ Together(cur') BY <1>3 DEF ListWords, Begin, Together
  <2> QED BY <1>1, <2>1, PreservedPages DEF PageInv
<1>4. CASE \E w \in Words : NextWords(w) \/ PreviousWords(w)
  <2>1. pc' \in {"choose", "choosePrev"} /\ key' # NoWord
    BY <1>4, NavigationAssumption DEF NextWords, PreviousWords, Begin
  <2>2. SameCursors(1, cur') BY <1>2 DEF SameCursors
  <2> QED BY <1>1, <2>1, <2>2, PreservedPages DEF PageInv
<1> QED BY <1>3, <1>4

\* One more cursor is set, and goes with those of its file.
LEMMA OneMoreCursor ==
  ASSUME IInv, PageInv(pc, col, cur, page, ptr, key), pc \in {"choose", "current", "choosePrev"},
         col \in Columns, NEW p \in Cursors(col), cur' = [cur EXCEPT ![col] = p]
  PROVE  /\ cur'[col] = p /\ \A c \in Columns : c # col => cur'[c] = cur[c]
         /\ pc # "current" /\ key # NoWord => SameCursors(col + 1, cur')
         /\ pc = "current" \/ key = NoWord => Together(cur')
         /\ ptr # NoPtr /\ FileOf(ptr[1]) = FileOf(col) => cur[ptr[1]] = p
<1>1. cur'[col] = p /\ \A c \in Columns : c # col => cur'[c] = cur[c] BY DEF IInv, RowOK
<1>2. col \in Int /\ \A c \in Columns : c \in Int /\ (c < col + 1 <=> c < col \/ c = col)
  BY ColumnsBefore
<1>3. ptr # NoPtr => ptr[1] \in Columns /\ ptr[1] < col BY Choosing DEF PointsAt
<1>4. CASE pc = "current" \/ key = NoWord
  <2>1. p = cur[col] BY <1>4 DEF Cursors, Searching
  <2>2. Together(cur) BY <1>4 DEF PageInv
  <2>3. Together(cur') BY <1>1, <2>1, <2>2 DEF Together
  <2> QED BY <1>1, <1>3, <1>4, <2>1, <2>2, <2>3 DEF Together
<1>5. CASE pc # "current" /\ key # NoWord
  <2>1. \A b \in 1 .. col - 1 : FileOf(b) = FileOf(col) => p = cur[b]
    BY <1>5 DEF Cursors, Searching
  <2>2. \A b \in Columns : b < col => b \in 1 .. col - 1 BY <1>2 DEF Columns
  <2>3. \A b \in Columns : b < col /\ FileOf(b) = FileOf(col) => p = cur[b] BY <2>1, <2>2
  <2>4. SameCursors(col, cur) BY <1>5 DEF PageInv
  <2>5. SameCursors(col + 1, cur') BY <1>1, <1>2, <2>3, <2>4 DEF SameCursors
  <2> QED BY <1>1, <1>3, <1>5, <2>3, <2>5
<1> QED BY <1>4, <1>5

LEMMA ChoosePages ==
  ASSUME IInv, FreshInv, Choose
  PROVE  FreshInv'
<1>1. /\ pc \in {"choose", "current"} /\ pc' = pc /\ col \in Columns /\ col' = col + 1
      /\ UNCHANGED <<words, mask, key>>
  BY DEF Choose
<1>2. CASE ~fresh
  <2>1. fresh' = FALSE BY <1>2 DEF Choose, ReadPointer, FreshInv
  <2> QED BY <1>1, <1>2, <2>1, PreservedPages DEF FreshInv
<1>3. CASE fresh
  <2>1. PageInv(pc, col, cur, page, ptr, key) BY <1>3 DEF FreshInv
  <2>2. PICK p \in Cursors(col), looked \in AfterLookup(col) :
           /\ cur' = [cur EXCEPT ![col] = p]
           /\ \/ p < 0 /\ page' = looked /\ UNCHANGED <<ptr, fresh>>
              \/ /\ p >= 0
                 /\ page' = Read(looked, col, p)
                 /\ \/ ptr = NoPtr /\ ptr' = <<col, p>> /\ UNCHANGED fresh
                    \/ ptr # NoPtr /\ ReadPointer(page') /\ ptr' \in {<<col, p>>, ptr}
    BY <1>1 DEF Choose
  <2>3. p \in Spots(col) /\ p \in Int /\ (p >= 0 => HasFile(col) /\ p \in Positions(FileOf(col)))
    BY <1>1, CursorsOK, SpotsOK
  <2>4. looked \in Pagings /\ \A f \in Files : f # FileOf(col) => looked[f] = page[f]
    BY <1>1, LookedOK
  <2>5. \A f \in Files : f # FileOf(col) => page'[f] = page[f] BY <2>2, <2>3, <2>4, ReadOK
  <2>6. p >= 0 => page'[FileOf(col)] = PageOf(FileOf(col), p) BY <2>2, <2>3, <2>4, ReadOK
  <2>7. /\ cur'[col] = p /\ \A c \in Columns : c # col => cur'[c] = cur[c]
        /\ pc # "current" /\ key # NoWord => SameCursors(col + 1, cur')
        /\ pc = "current" \/ key = NoWord => Together(cur')
        /\ ptr # NoPtr /\ FileOf(ptr[1]) = FileOf(col) => cur[ptr[1]] = p
    BY <1>1, <2>1, <2>2, OneMoreCursor
  <2>8. ptr # NoPtr => /\ ptr[1] \in Columns /\ ptr[1] # col /\ cur[ptr[1]] = ptr[2]
                       /\ FileOf(ptr[1]) \in Files /\ ptr[2] >= 0 /\ InPage(ptr, page)
    <3> SUFFICES ASSUME ptr # NoPtr
                 PROVE  /\ ptr[1] \in Columns /\ ptr[1] # col /\ cur[ptr[1]] = ptr[2]
                        /\ FileOf(ptr[1]) \in Files /\ ptr[2] >= 0 /\ InPage(ptr, page)
      OBVIOUS
    <3>1. PointsAt(ptr) /\ ptr[1] < col /\ ptr[1] \in Int BY <1>1, Choosing
    <3>2. col \in Int BY <1>1, ColumnsBefore
    <3>3. cur[ptr[1]] = ptr[2] /\ InPage(ptr, page) BY <1>1, <2>1 DEF PageInv
    <3>4. FileOf(ptr[1]) \in Files BY <3>1 DEF PointsAt, HasFile
    <3>5. ptr[2] >= 0 BY <3>1, <3>4, PositionsOK DEF PointsAt, Positions
    <3> QED BY <3>1, <3>2, <3>3, <3>4, <3>5 DEF PointsAt
  <2>9. ptr # NoPtr => InPage(ptr, page')
    BY <2>5, <2>6, <2>7, <2>8 DEF InPage
  <2>10. fresh' = TRUE BY <1>3, <2>2, <2>9 DEF ReadPointer
  <2>11. ptr' # NoPtr => cur'[ptr'[1]] = ptr'[2] /\ InPage(ptr', page')
    <3>1. CASE ptr' = ptr BY <2>7, <2>8, <2>9, <3>1
    <3>2. CASE ptr' = <<col, p>> /\ p >= 0 BY <2>6, <2>7, <3>2 DEF InPage
    <3> QED BY <2>2, <3>1, <3>2
  <2>12. PageInv(pc', col', cur', page', ptr', key') BY <1>1, <2>7, <2>11 DEF PageInv
  <2> QED BY <1>1, <2>10, <2>12, PreservedPages
<1> QED BY <1>2, <1>3 DEF FreshInv

LEMMA LoopEndsPages ==
  ASSUME IInv, FreshInv, NEW from, NEW to, LoopEnds(from, to),
         \/ from = "choose" /\ to = (IF ptr = NoPtr THEN "send" ELSE "skip")
         \/ from = "skip" /\ to = "advance"
         \/ from = "current" /\ to = "send"
         \/ from = "choosePrev" /\ to = (IF ptr = NoPtr THEN "send" ELSE "skipPrev")
         \/ from = "skipPrev" /\ to = "stepBack"
  PROVE  FreshInv'
<1>1. /\ pc = from /\ pc' = to /\ col = AllColumns /\ col' = 1
      /\ UNCHANGED <<words, mask, page, cur, ptr, key, fresh>>
  BY ColumnsBefore DEF LoopEnds
<1>2. \A c \in Columns : c < AllColumns /\ ~ (c < 1) BY ColumnsBefore, MaskOK DEF Columns
<1>3. ASSUME PageInv(pc, col, cur, page, ptr, key) PROVE PageInv(pc', col', cur', page', ptr', key')
  <2>1. pc \in {"choose", "current", "choosePrev"} => Together(cur)
    BY <1>1, <1>2, <1>3 DEF PageInv, SameCursors, Together
  <2>2. MovedPast(1, cur, ptr, cur) /\ MovedBack(1, cur, ptr, cur) BY <1>2 DEF MovedPast, MovedBack
  <2>3. pc' = "skip" => \E old : Together(old) /\ MovedPast(1, cur, ptr, old) BY <1>1, <2>1, <2>2
  <2>4. pc' = "skipPrev" => \E old : Together(old) /\ MovedBack(1, cur, ptr, old) BY <1>1, <2>1, <2>2
  <2>5. pc' = "advance" => \E old : Together(old) /\ MovedPast(AllColumns, cur, ptr, old)
    BY <1>1, <1>3 DEF PageInv
  <2>6. pc' = "stepBack" => \E old : Together(old) /\ MovedBack(AllColumns, cur, ptr, old)
    BY <1>1, <1>3 DEF PageInv
  <2>7. pc' \in {"skip", "advance"} => cur[ptr[1]] = ptr[2]
    BY <1>1, <1>3 DEF PageInv, IInv, PointerOK
  <2>8. pc' # "advance" /\ ptr # NoPtr => InPage(ptr, page) BY <1>1, <1>3 DEF PageInv
  <2> QED BY <1>1, <2>1, <2>3, <2>4, <2>5, <2>6, <2>7, <2>8 DEF PageInv, IInv, PointerOK
<1> QED BY <1>1, <1>3, PreservedPages DEF FreshInv

LEMMA SkipEqualPages ==
  ASSUME IInv, FreshInv, SkipEqual
  PROVE  FreshInv'
<1>1. /\ pc = "skip" /\ pc' = pc /\ ptr # NoPtr /\ col \in Columns /\ col' = col + 1
      /\ UNCHANGED <<words, mask, ptr, key>>
  BY DEF SkipEqual, IInv, PointerOK
<1>2. CASE ~fresh
  <2>1. fresh' = FALSE BY <1>2 DEF SkipEqual, ReadPointer, FreshInv
  <2> QED BY <1>1, <1>2, <2>1, PreservedPages DEF FreshInv
<1>3. CASE fresh
  <2>1. PICK old : Together(old) /\ MovedPast(col, cur, ptr, old) BY <1>1, <1>3 DEF FreshInv, PageInv
  <2>2. cur[ptr[1]] = ptr[2] /\ (InPage(ptr, page) \/ Ahead(col, ptr))
    BY <1>1, <1>3 DEF FreshInv, PageInv
  <2>3. PointsAt(ptr) /\ ptr[1] \in Columns /\ FileOf(ptr[1]) \in Files
    BY <1>1 DEF IInv, PointerOK, PointsAt, HasFile
  <2>4. /\ \A c \in Columns : c < col + 1 <=> c < col \/ c = col
        /\ ~ (col < col)
    BY <1>1, ColumnsBefore
  <2>5. cur[col] = old[col] BY <1>1, <2>1, <2>4 DEF MovedPast
  <2>6. Ahead(col, ptr) => Ahead(col + 1, ptr) /\ Twice BY <2>3, <2>4 DEF Ahead, Twice
  <2>7. CASE (col = ptr[1] \/ cur[col] < 0) /\ UNCHANGED <<cur, page, fresh>>
    <3>1. col = ptr[1] \/ Past(ptr, col, old[col]) = old[col]
      <4>1. cur[col] \in Int BY <1>1 DEF IInv, RowOK
      <4> QED BY <2>5, <2>7, <4>1 DEF Past
    <3>2. MovedPast(col + 1, cur, ptr, old) BY <2>1, <2>4, <3>1 DEF MovedPast
    <3>3. PageInv(pc', col', cur', page', ptr', key')
      BY <1>1, <2>1, <2>2, <2>6, <2>7, <3>2 DEF PageInv
    <3> QED BY <1>1, <1>3, <2>7, <3>3, PreservedPages
  <2>8. CASE ~ ((col = ptr[1] \/ cur[col] < 0) /\ UNCHANGED <<cur, page, fresh>>)
    <3> DEFINE pages == Read(page, col, cur[col])
    <3>1. /\ col # ptr[1] /\ cur[col] >= 0
          /\ fresh' = (fresh /\ InPage(ptr, pages))
          /\ \E t \in Texts(ptr, pages) :
                IF t = At(FileOf(col), cur[col]) THEN Advance(col, pages)
                                                 ELSE page' = pages /\ cur' = cur
      BY <2>8 DEF SkipEqual, ReadPointer
    <3>2. cur[col] \in Spots(col) BY <1>1 DEF IInv, RowOK
    <3>3. HasFile(col) /\ cur[col] \in Positions(FileOf(col)) BY <1>1, <3>1, <3>2, SpotsOK
    <3>4. page \in Pagings BY DEF IInv
    <3>5. pages \in Pagings /\ \A f \in Files : f # FileOf(col) => pages[f] = page[f]
      BY <3>3, <3>4, ReadOK
    <3> HIDE DEF pages
    <3>6. FileOf(col) = FileOf(ptr[1]) => Ahead(col + 1, ptr) /\ Twice
      BY <1>1, <2>3, <2>4, <3>1 DEF Ahead, Twice
    <3>7. CASE ~fresh'
      <4>1. ~InPage(ptr, pages) BY <1>3, <3>1, <3>7
      <4>2. FileOf(col) # FileOf(ptr[1]) => ~InPage(ptr, page) BY <2>3, <3>5, <4>1 DEF InPage
      <4>3. Twice BY <2>2, <2>6, <3>6, <4>2
      <4> QED BY <1>1, <3>1, <3>7, <4>3, PreservedPages
    <3>8. CASE fresh'
      <4>1. Texts(ptr, pages) = {Pointed(ptr)} BY <3>1, <3>8, PointedAt DEF Pointed
      <4>2. IF Pointed(ptr) = At(FileOf(col), cur[col]) THEN Advance(col, pages)
                                                        ELSE page' = pages /\ cur' = cur
        BY <3>1, <4>1
      <4>3. \A f \in Files : f # FileOf(col) => page'[f] = page[f]
        <5>1. CASE Advance(col, pages) BY <1>1, <3>3, <3>5, <5>1, AdvanceOK
        <5>2. CASE page' = pages BY <3>5, <5>2
        <5> QED BY <4>2, <5>1, <5>2
      <4>4. cur' = [cur EXCEPT ![col] = Past(ptr, col, cur[col])]
        <5>1. CASE Pointed(ptr) = At(FileOf(col), cur[col])
          BY <3>1, <4>2, <5>1 DEF Past, Advance
        <5>2. CASE Pointed(ptr) # At(FileOf(col), cur[col])
          <6>1. Past(ptr, col, cur[col]) = cur[col] BY <5>2 DEF Past
          <6> QED BY <1>1, <4>2, <5>2, <6>1 DEF IInv, RowOK
        <5> QED BY <5>1, <5>2
      <4>5. cur'[col] = Past(ptr, col, old[col]) /\ \A c \in Columns : c # col => cur'[c] = cur[c]
        BY <1>1, <2>5, <4>4 DEF IInv, RowOK
      <4>6. MovedPast(col + 1, cur', ptr, old) BY <2>1, <2>4, <3>1, <4>5 DEF MovedPast
      <4>7. cur'[ptr[1]] = ptr[2] BY <2>2, <2>3, <3>1, <4>5
      <4>8. InPage(ptr, page') \/ Ahead(col + 1, ptr)
        BY <2>2, <2>3, <2>6, <3>6, <4>3 DEF InPage
      <4>9. PageInv(pc', col', cur', page', ptr', key')
        BY <1>1, <2>1, <4>6, <4>7, <4>8 DEF PageInv
      <4> QED BY <1>1, <3>8, <4>9, PreservedPages, <3>1
    <3> QED BY <3>7, <3>8
  <2> QED BY <2>7, <2>8
<1> QED BY <1>2, <1>3

LEMMA AdvanceChosenPages ==
  ASSUME IInv, FreshInv, AdvanceChosen
  PROVE  FreshInv'
<1>1. /\ pc = "advance" /\ pc' = "current" /\ ptr # NoPtr /\ ptr' = NoPtr
      /\ cur' = [cur EXCEPT ![ptr[1]] = NextPos(FileOf(ptr[1]), cur[ptr[1]])]
      /\ UNCHANGED <<words, mask, fresh>>
  BY DEF AdvanceChosen, Advance, IInv, PointerOK
<1>2. ASSUME PageInv(pc, col, cur, page, ptr, key) PROVE Together(cur')
  <2>1. PICK old : Together(old) /\ MovedPast(AllColumns, cur, ptr, old) BY <1>1, <1>2 DEF PageInv
  <2>2. cur[ptr[1]] = ptr[2] BY <1>1, <1>2 DEF PageInv
  <2>3. PointsAt(ptr) /\ ptr[1] \in Columns /\ FileOf(ptr[1]) \in Files
    BY <1>1 DEF IInv, PointerOK, PointsAt, HasFile
  <2>4. ptr[2] >= 0 BY <2>3, PositionsOK DEF PointsAt, Positions
  <2>5. old[ptr[1]] = ptr[2] BY <2>1, <2>2, <2>3 DEF MovedPast
  <2>6. NextPos(FileOf(ptr[1]), cur[ptr[1]]) = Past(ptr, ptr[1], old[ptr[1]])
    BY <2>2, <2>4, <2>5 DEF Past, Pointed
  <2>7. \A c \in Columns : cur'[c] = Past(ptr, c, old[c])
    BY <1>1, <2>1, <2>3, <2>6, ColumnsBefore DEF MovedPast, IInv, RowOK
  <2>8. \A b, c \in Columns : FileOf(b) = FileOf(c) => Past(ptr, b, old[b]) = Past(ptr, c, old[c])
    BY <2>1 DEF Together, Past
  <2> QED BY <2>7, <2>8 DEF Together
<1>3. fresh => PageInv(pc', col', cur', page', ptr', key') BY <1>1, <1>2 DEF FreshInv, PageInv
<1> QED BY <1>1, <1>3, PreservedPages DEF FreshInv

\* Where a column may go back to, something stands before it.
LEMMA CanGoBack ==
  ASSUME IInv, NEW f \in Files, NEW p \in Int, PrevPos(f, p) \in Positions(f)
  PROVE  ~NoneBefore(p) /\ PrevPos(f, p) # UNSET_INDEX
<1>1. Len(words[f]) - 1 \in Nat BY PositionsOK
<1>2. PrevPos(f, p) # UNSET_INDEX BY <1>1 DEF Positions, UNSET_INDEX
<1>3. ASSUME p # INVALID_INDEX, p <= 0 PROVE FALSE
  <2>1. \A q \in Positions(f) : ~ (q < p) BY <1>1, <1>3 DEF Positions
  <2>2. PrevPos(f, p) = UNSET_INDEX BY <1>3, <2>1 DEF PrevPos
  <2> QED BY <1>2, <2>2
<1> QED BY <1>2, <1>3 DEF NoneBefore

LEMMA ChoosePrevPages ==
  ASSUME IInv, FreshInv, ChoosePrev
  PROVE  FreshInv'
<1>1. /\ pc = "choosePrev" /\ pc' = pc /\ col \in Columns /\ col' = col + 1
      /\ UNCHANGED <<words, mask, key>>
  BY DEF ChoosePrev
<1>2. CASE ~fresh
  <2>1. fresh' = FALSE BY <1>2 DEF ChoosePrev, ReadPointer, FreshInv
  <2> QED BY <1>1, <1>2, <2>1, PreservedPages DEF FreshInv
<1>3. CASE fresh
  <2>1. PageInv(pc, col, cur, page, ptr, key) BY <1>3 DEF FreshInv
  <2>2. PICK p \in Cursors(col), looked \in AfterLookup(col) :
           LET q == PrevPos(FileOf(col), p) IN
           /\ cur' = [cur EXCEPT ![col] = p]
           /\ \/ NoneBefore(p) /\ page' = looked /\ UNCHANGED <<ptr, fresh>>
              \/ ~NoneBefore(p) /\ q = UNSET_INDEX /\ page' = Read(looked, col, 0) /\ UNCHANGED <<ptr, fresh>>
              \/ /\ ~NoneBefore(p) /\ q # UNSET_INDEX
                 /\ page' = Read(looked, col, q)
                 /\ \/ ptr = NoPtr /\ ptr' = <<col, q>> /\ UNCHANGED fresh
                    \/ ptr # NoPtr /\ ReadPointer(page') /\ ptr' \in {<<col, q>>, ptr}
    BY <1>1 DEF ChoosePrev
  <2> DEFINE q == PrevPos(FileOf(col), p)
  <2>3. p \in Spots(col) /\ p \in Int BY <1>1, CursorsOK, SpotsOK
  <2>4. looked \in Pagings /\ \A f \in Files : f # FileOf(col) => looked[f] = page[f]
    BY <1>1, LookedOK
  <2>5. ~NoneBefore(p) => /\ HasFile(col) /\ 0 \in Positions(FileOf(col))
                          /\ q \in Positions(FileOf(col)) \cup {UNSET_INDEX}
    BY <1>1, <2>3, BeforeOK
  <2>6. \A f \in Files : f # FileOf(col) => page'[f] = page[f]
    BY <2>2, <2>4, <2>5, ReadOK
  <2>7. ~NoneBefore(p) /\ q # UNSET_INDEX => page'[FileOf(col)] = PageOf(FileOf(col), q)
    BY <2>2, <2>4, <2>5, ReadOK
  <2>8. /\ cur'[col] = p /\ \A c \in Columns : c # col => cur'[c] = cur[c]
        /\ key # NoWord => SameCursors(col + 1, cur')
        /\ key = NoWord => Together(cur')
        /\ ptr # NoPtr /\ FileOf(ptr[1]) = FileOf(col) => cur[ptr[1]] = p
    BY <1>1, <2>1, <2>2, OneMoreCursor
  <2>9. ptr # NoPtr => InPage(ptr, page')
    <3> SUFFICES ASSUME ptr # NoPtr PROVE InPage(ptr, page') OBVIOUS
    <3>1. PointsAt(ptr) BY <1>1, Choosing
    <3>2. FileOf(ptr[1]) \in Files BY <3>1 DEF PointsAt, HasFile
    <3>3. ptr[2] = PrevPos(FileOf(ptr[1]), cur[ptr[1]]) /\ InPage(ptr, page)
      BY <1>1, <2>1 DEF PageInv, IInv, PointerOK
    <3>4. CASE FileOf(ptr[1]) # FileOf(col) BY <2>6, <3>2, <3>3, <3>4 DEF InPage
    <3>5. CASE FileOf(ptr[1]) = FileOf(col)
      <4>1. ptr[2] = q /\ q \in Positions(FileOf(col)) BY <2>8, <3>1, <3>3, <3>5 DEF PointsAt
      <4>2. ~NoneBefore(p) /\ q # UNSET_INDEX BY <2>3, <3>2, <3>5, <4>1, CanGoBack
      <4> QED BY <2>7, <3>5, <4>1, <4>2 DEF InPage
    <3> QED BY <3>4, <3>5
  <2>10. fresh' = TRUE BY <1>3, <2>2, <2>9 DEF ReadPointer
  <2>11. ptr' # NoPtr => InPage(ptr', page')
    <3>1. CASE ptr' = ptr BY <2>9, <3>1
    <3>2. CASE ptr' = <<col, q>> /\ ~NoneBefore(p) /\ q # UNSET_INDEX BY <2>7, <3>2 DEF InPage
    <3> QED BY <2>2, <3>1, <3>2
  <2>12. PageInv(pc', col', cur', page', ptr', key') BY <1>1, <2>8, <2>11 DEF PageInv
  <2> QED BY <1>1, <2>10, <2>12, PreservedPages
<1> QED BY <1>2, <1>3 DEF FreshInv

LEMMA SkipPrevPages ==
  ASSUME IInv, FreshInv, SkipPrev
  PROVE  FreshInv'
<1>1. /\ pc = "skipPrev" /\ pc' = pc /\ ptr # NoPtr /\ col \in Columns /\ col' = col + 1
      /\ UNCHANGED <<words, mask, ptr, key>>
  BY DEF SkipPrev, IInv, PointerOK
<1>2. CASE ~fresh
  <2>1. fresh' = FALSE BY <1>2 DEF SkipPrev, ReadPointer, FreshInv
  <2> QED BY <1>1, <1>2, <2>1, PreservedPages DEF FreshInv
<1>3. CASE fresh
  <2> DEFINE q == PrevPos(FileOf(col), cur[col])
  <2>1. PICK old : Together(old) /\ MovedBack(col, cur, ptr, old) BY <1>1, <1>3 DEF FreshInv, PageInv
  <2>2. InPage(ptr, page) /\ ptr[2] = PrevPos(FileOf(ptr[1]), cur[ptr[1]])
    BY <1>1, <1>3 DEF FreshInv, PageInv, IInv, PointerOK
  <2>3. PointsAt(ptr) /\ ptr[1] \in Columns /\ FileOf(ptr[1]) \in Files /\ ptr[2] \in Positions(FileOf(ptr[1]))
    BY <1>1 DEF IInv, PointerOK, PointsAt, HasFile
  <2>4. /\ \A c \in Columns : c < col + 1 <=> c < col \/ c = col
        /\ ~ (col < col)
    BY <1>1, ColumnsBefore
  <2>5. cur[col] = old[col] /\ cur[ptr[1]] = old[ptr[1]] BY <1>1, <2>1, <2>3, <2>4 DEF MovedBack
  <2>6. FileOf(col) = FileOf(ptr[1]) => q = ptr[2] /\ cur[col] = cur[ptr[1]]
    BY <1>1, <2>1, <2>2, <2>3, <2>5 DEF Together
  <2>7. cur[col] \in Spots(col) /\ cur[col] \in Int BY <1>1 DEF IInv, RowOK
  <2>8. page \in Pagings BY DEF IInv
  <2>9. FileOf(col) = FileOf(ptr[1]) => ~NoneBefore(cur[col]) /\ q # UNSET_INDEX
    BY <2>3, <2>6, <2>7, CanGoBack
  <2>10. CASE (col = ptr[1] \/ NoneBefore(cur[col]) \/ q = UNSET_INDEX) /\ cur' = cur /\ fresh' = fresh
              /\ page' \in {page, Read(page, col, 0)} /\ (page' # page => ~NoneBefore(cur[col]) /\ q = UNSET_INDEX)
    <3>1. col = ptr[1] \/ Back(ptr, col, old[col]) = old[col] BY <2>5, <2>10 DEF Back
    <3>2. MovedBack(col + 1, cur, ptr, old) BY <2>1, <2>4, <3>1 DEF MovedBack
    <3>3. InPage(ptr, page')
      <4>1. CASE page' = page BY <2>2, <4>1
      <4>2. CASE page' # page
        <5>1. FileOf(col) # FileOf(ptr[1]) BY <2>9, <2>10, <4>2
        <5>2. HasFile(col) /\ 0 \in Positions(FileOf(col)) BY <1>1, <2>7, <2>10, <4>2, BeforeOK
        <5>3. \A f \in Files : f # FileOf(col) => page'[f] = page[f]
          BY <2>8, <2>10, <4>2, <5>2, ReadOK
        <5> QED BY <2>2, <2>3, <5>1, <5>3 DEF InPage
      <4> QED BY <4>1, <4>2
    <3>4. PageInv(pc', col', cur', page', ptr', key')
      BY <1>1, <2>1, <2>10, <3>2, <3>3 DEF PageInv
    <3> QED BY <1>1, <1>3, <2>10, <3>4, PreservedPages DEF FreshInv
  <2>11. CASE /\ col # ptr[1] /\ ~NoneBefore(cur[col]) /\ q # UNSET_INDEX
              /\ page' = Read(page, col, q) /\ ReadPointer(page')
              /\ \E t \in Texts(ptr, page') :
                    cur' = IF t = At(FileOf(col), q) THEN [cur EXCEPT ![col] = q] ELSE cur
    <3>1. HasFile(col) /\ q \in Positions(FileOf(col))
      BY <1>1, <2>7, <2>11, BeforeOK
    <3>2. /\ page'[FileOf(col)] = PageOf(FileOf(col), q)
          /\ \A f \in Files : f # FileOf(col) => page'[f] = page[f]
      BY <2>8, <2>11, <3>1, ReadOK
    <3>3. InPage(ptr, page')
      <4>1. CASE FileOf(col) = FileOf(ptr[1]) BY <2>6, <3>2, <4>1 DEF InPage
      <4>2. CASE FileOf(col) # FileOf(ptr[1]) BY <2>2, <2>3, <3>2, <4>2 DEF InPage
      <4> QED BY <4>1, <4>2
    <3>4. fresh' = TRUE BY <1>3, <2>11, <3>3 DEF ReadPointer
    <3>5. cur' = IF Pointed(ptr) = At(FileOf(col), q) THEN [cur EXCEPT ![col] = q] ELSE cur
      BY <2>11, <3>3, PointedAt DEF Pointed
    <3>6. /\ cur'[col] = Back(ptr, col, old[col])
          /\ \A c \in Columns : c # col => cur'[c] = cur[c]
      <4>1. cur'[col] = IF Pointed(ptr) = At(FileOf(col), q) THEN q ELSE cur[col]
        BY <1>1, <3>5 DEF IInv, RowOK
      <4>2. cur'[col] = Back(ptr, col, cur[col]) BY <2>11, <4>1 DEF Back
      <4>3. \A c \in Columns : c # col => cur'[c] = cur[c] BY <3>5 DEF IInv, RowOK
      <4> QED BY <2>5, <4>2, <4>3
    <3>7. MovedBack(col + 1, cur', ptr, old) BY <2>1, <2>4, <2>11, <3>6 DEF MovedBack
    <3>8. PageInv(pc', col', cur', page', ptr', key') BY <1>1, <2>1, <3>3, <3>7 DEF PageInv
    <3> QED BY <1>1, <3>4, <3>8, PreservedPages
  <2> QED BY <2>10, <2>11 DEF SkipPrev
<1> QED BY <1>2, <1>3 DEF FreshInv

LEMMA StepBackPages ==
  ASSUME IInv, FreshInv, StepBack
  PROVE  FreshInv'
<1> DEFINE c == ptr[1]
           q == PrevPos(FileOf(c), cur[c])
<1>1. /\ pc = "stepBack" /\ pc' = "send" /\ ptr # NoPtr
      /\ cur' = [cur EXCEPT ![c] = q]
      /\ page' = page \/ page' = Read(page, c, q)
      /\ UNCHANGED <<words, mask, ptr, fresh>>
  BY DEF StepBack, IInv, PointerOK
<1>2. PointsAt(ptr) /\ ptr[2] = q /\ page \in Pagings BY <1>1 DEF IInv, PointerOK
<1>3. c \in Columns /\ HasFile(c) /\ FileOf(c) \in Files /\ q \in Positions(FileOf(c)) /\ cur[c] \in Int
  BY <1>2 DEF PointsAt, HasFile, IInv, RowOK
<1>4. ASSUME PageInv(pc, col, cur, page, ptr, key) PROVE Together(cur') /\ InPage(ptr, page')
  <2>1. PICK old : Together(old) /\ MovedBack(AllColumns, cur, ptr, old) BY <1>1, <1>4 DEF PageInv
  <2>2. cur[c] = old[c] BY <1>3, <2>1 DEF MovedBack
  <2>3. ~NoneBefore(cur[c]) /\ q # UNSET_INDEX BY <1>3, CanGoBack
  <2>4. q = Back(ptr, c, old[c]) BY <1>2, <2>2, <2>3 DEF Back, Pointed
  <2>5. \A d \in Columns : cur'[d] = Back(ptr, d, old[d])
    BY <1>1, <1>3, <2>1, <2>4, ColumnsBefore DEF MovedBack, IInv, RowOK
  <2>6. \A b, d \in Columns : FileOf(b) = FileOf(d) => Back(ptr, b, old[b]) = Back(ptr, d, old[d])
    BY <2>1 DEF Together, Back
  <2>7. InPage(ptr, page) BY <1>1, <1>4 DEF PageInv
  <2>8. InPage(ptr, page') BY <1>1, <1>2, <1>3, <2>7, ReadOK DEF InPage
  <2> QED BY <2>5, <2>6, <2>8 DEF Together
<1>5. fresh => PageInv(pc', col', cur', page', ptr', key')
  BY <1>1, <1>4 DEF FreshInv, PageInv
<1> QED BY <1>1, <1>5, PreservedPages DEF FreshInv

LEMMA SendPages ==
  ASSUME IInv, FreshInv, Send \/ Exhausted
  PROVE  FreshInv'
<1>1. /\ pc = "send" /\ pc' \in {"idle", "choose", "choosePrev"} /\ key' = NoWord
      /\ ptr' = NoPtr /\ (pc' # "idle" => cur' = cur)
      /\ UNCHANGED <<words, mask>>
  BY DEF Send, Exhausted
<1>2. fresh => ptr = NoPtr \/ InPage(ptr, page) BY <1>1 DEF FreshInv, PageInv
<1>3. fresh' = fresh /\ fresh \in BOOLEAN
  <2>1. CASE Send BY <1>2, <2>1 DEF Send, ReadPointer, FreshInv
  <2>2. CASE Exhausted BY <2>2 DEF Exhausted, FreshInv
  <2> QED BY <2>1, <2>2
<1>4. fresh' => PageInv(pc', col', cur', page', ptr', key')
  BY <1>1, <1>3 DEF FreshInv, PageInv
<1> QED BY <1>1, <1>3, <1>4, PreservedPages DEF FreshInv
-----------------------------------------------------------------------------
(* Theorems.                                                               *)

LEMMA InitOK == ASSUME Init PROVE IInv
<1>1. mask \in Masks /\ mask \in Seq(Dicts) /\ Len(mask) \in Nat
  BY NavigationAssumption DEF Init
<1>2. WordsOK
  <2> SUFFICES ASSUME NEW f \in Files
               PROVE  words[f] \in Seq(Words) /\ Len(words[f]) \in 1 .. MaxLength
    BY DEF WordsOK, Init
  <2>1. PICK n \in 1 .. MaxLength : words[f] \in [1 .. n -> Words] BY DEF Init
  <2> QED BY <2>1, NavigationAssumption
<1>3. page \in Pagings
  <2> SUFFICES ASSUME NEW f \in Files PROVE PageOf(f, Last(f)) \in Pages(f)
    BY DEF Init, Pagings
  <2>1. Len(words[f]) \in 1 .. MaxLength BY <1>2 DEF WordsOK
  <2>2. Last(f) \in Positions(f) BY <2>1, NavigationAssumption DEF Last, Positions
  <2> QED BY <2>2 DEF Pages
<1>4. RowOK(cur) BY DEF Init, Unset, RowOK, Spots, UNSET_INDEX
<1>5. PointerOK(pc, col, cur, ptr) BY DEF Init, PointerOK
<1>6. pc \in Steps /\ col \in 1 .. 2 * Len(mask) + 1 /\ key \in Words \cup {NoWord} /\ sent \in Seq(Words)
  BY <1>1 DEF Init, Steps
<1> QED BY <1>1, <1>2, <1>3, <1>4, <1>5, <1>6 DEF IInv

LEMMA NextOK == ASSUME IInv, [Next]_vars PROVE IInv'
<1>1. CASE ListWords BY <1>1, ListWordsOK
<1>2. CASE \E w \in Words : NextWords(w) \/ PreviousWords(w) BY <1>2, QueryOK
<1>3. CASE Walk
  <2>1. CASE Choose BY <2>1, ChooseOK
  <2>2. CASE Chosen BY <2>2, LoopEndsOK DEF Chosen
  <2>3. CASE SkipEqual BY <2>3, SkipEqualOK
  <2>4. CASE Skipped BY <2>4, LoopEndsOK DEF Skipped
  <2>5. CASE AdvanceChosen BY <2>5, AdvanceChosenOK
  <2>6. CASE CurrentFound BY <2>6, LoopEndsOK DEF CurrentFound
  <2>7. CASE ChoosePrev BY <2>7, ChoosePrevOK
  <2>8. CASE ChosenPrev BY <2>8, LoopEndsOK DEF ChosenPrev
  <2>9. CASE SkipPrev BY <2>9, SkipPrevOK
  <2>10. CASE SkippedPrev BY <2>10, LoopEndsOK DEF SkippedPrev
  <2>11. CASE StepBack BY <2>11, StepBackOK
  <2>12. CASE Send \/ Exhausted BY <2>12, SendOK
  <2> QED BY <1>3, <2>1, <2>2, <2>3, <2>4, <2>5, <2>6, <2>7, <2>8, <2>9, <2>10, <2>11, <2>12 DEF Walk
<1>4. CASE UNCHANGED vars
  <2>1. UNCHANGED <<words, mask, page, cur, pc, col, ptr, key, sent>> BY <1>4 DEF vars
  <2> QED BY <2>1, Preserved DEF IInv
<1> QED BY <1>1, <1>2, <1>3, <1>4 DEF Next

LEMMA InitPages == ASSUME Init PROVE FreshInv
BY DEF Init, FreshInv, PageInv

LEMMA NextPages == ASSUME IInv, FreshInv, [Next]_vars PROVE FreshInv'
<1>1. CASE ListWords \/ \E w \in Words : NextWords(w) \/ PreviousWords(w) BY <1>1, BeginPages
<1>2. CASE Walk
  <2>1. CASE Choose BY <2>1, ChoosePages
  <2>2. CASE Chosen BY <2>2, LoopEndsPages DEF Chosen
  <2>3. CASE SkipEqual BY <2>3, SkipEqualPages
  <2>4. CASE Skipped BY <2>4, LoopEndsPages DEF Skipped
  <2>5. CASE AdvanceChosen BY <2>5, AdvanceChosenPages
  <2>6. CASE CurrentFound BY <2>6, LoopEndsPages DEF CurrentFound
  <2>7. CASE ChoosePrev BY <2>7, ChoosePrevPages
  <2>8. CASE ChosenPrev BY <2>8, LoopEndsPages DEF ChosenPrev
  <2>9. CASE SkipPrev BY <2>9, SkipPrevPages
  <2>10. CASE SkippedPrev BY <2>10, LoopEndsPages DEF SkippedPrev
  <2>11. CASE StepBack BY <2>11, StepBackPages
  <2>12. CASE Send \/ Exhausted BY <2>12, SendPages
  <2> QED BY <1>2, <2>1, <2>2, <2>3, <2>4, <2>5, <2>6, <2>7, <2>8, <2>9, <2>10, <2>11, <2>12 DEF Walk
<1>3. CASE UNCHANGED vars
  <2>1. UNCHANGED <<words, mask, page, cur, pc, col, ptr, key, fresh>> BY <1>3 DEF vars
  <2> QED BY <2>1, PreservedPages DEF FreshInv
<1> QED BY <1>1, <1>2, <1>3 DEF Next

LEMMA FreshOK == ASSUME IInv, FreshInv PROVE PointerFresh
<1>1. ptr # NoPtr => PointsAt(ptr) BY DEF IInv, PointerOK
<1>2. cur \in Row
  <2>1. \A c \in Columns : cur[c] \in {UNSET_INDEX, INVALID_INDEX} \cup 0 .. MaxLength - 1
    <3> TAKE c \in Columns
    <3>1. cur[c] \in Spots(c) BY DEF IInv, RowOK
    <3> QED BY <3>1, PositionsOK DEF Spots, HasFile
  <2> QED BY <2>1 DEF IInv, RowOK, Row
<1>3. \A c \in Columns : /\ cur[c] >= 0 => HasFile(c) /\ cur[c] \in Positions(FileOf(c))
                         /\ HasFile(c) \/ cur[c] = UNSET_INDEX
  BY SpotsOK DEF IInv, RowOK
<1>4. \A i \in 1 .. Len(sent) : sent[i] \in Words BY DEF IInv
<1>5. TypeOK BY <1>1, <1>2, <1>3, <1>4 DEF IInv, TypeOK, Pagings, PointsAt
<1>6. ASSUME fresh, ptr # NoPtr, pc \notin {"advance", "stepBack"}
      PROVE  InPage(ptr, page) \/ Overtaken
  <2>1. PageInv(pc, col, cur, page, ptr, key) /\ pc \in Steps BY <1>6 DEF FreshInv, IInv
  <2>2. pc = "skip" => InPage(ptr, page) \/ Overtaken BY <2>1 DEF PageInv, Ahead, Overtaken
  <2> QED BY <1>6, <2>1, <2>2 DEF PageInv, Steps
<1>7. fresh /\ ptr # NoPtr /\ pc \notin {"advance", "stepBack"} =>
        Texts(ptr, page) = {At(FileOf(ptr[1]), ptr[2])} \/ Overtaken
  BY <1>6, PointedAt
<1>8. ~fresh => \E b, c \in Columns : b # c /\ FileOf(b) = FileOf(c) BY DEF FreshInv, Twice
<1> QED BY <1>5, <1>7, <1>8 DEF PointerFresh

\* However words are spread over files and pages, poCurrentWord points at the word
\* it was set to whenever it is compared with another file's or sent, although a
\* file has one page in memory: but in the loops over equal words, once a second
\* cursor of its file has gone on, which takes a mask that names a dictionary twice.
THEOREM PointerIsFresh == Spec => []PointerFresh
<1>1. Init => IInv /\ FreshInv BY InitOK, InitPages
<1>2. IInv /\ FreshInv /\ [Next]_vars => IInv' /\ FreshInv' BY NextOK, NextPages
<1>3. IInv /\ FreshInv => PointerFresh BY FreshOK
<1> QED BY <1>1, <1>2, <1>3, PTL DEF Spec

LEMMA InitList == ASSUME Init PROVE ListInv /\ List!Init
<1>1. /\ mask \in Masks /\ pc = "idle" /\ sent = <<>> /\ goal = {} /\ command = "none"
      /\ places = 1 /\ places \in 1 .. MaxCount
  BY NavigationAssumption DEF Init
<1>2. \A f \in Files : Sorted(words[f]) BY DEF Init
<1>3. Wanted = {} BY <1>1 DEF Wanted
<1>4. ListInv BY <1>1, <1>2 DEF ListInv, AllSorted, UpInv, DownInv
<1> QED BY <1>1, <1>3, <1>4 DEF List!Init

LEMMA WordsStay == ASSUME [Next]_vars PROVE words' = words
BY DEF Next, Walk, ListWords, NextWords, PreviousWords, Begin, Choose, Chosen, LoopEnds, SkipEqual,
       Skipped, AdvanceChosen, CurrentFound, ChoosePrev, ChosenPrev, SkipPrev, SkippedPrev, StepBack,
       Send, Exhausted, vars

\* Only a new command makes up for a word read from another page.
LEMMA StaysStale == ASSUME Walk \/ UNCHANGED vars, fresh' PROVE fresh
<1>1. CASE Choose BY <1>1 DEF Choose, ReadPointer
<1>2. CASE SkipEqual BY <1>2 DEF SkipEqual, ReadPointer
<1>3. CASE ChoosePrev BY <1>3 DEF ChoosePrev, ReadPointer
<1>4. CASE SkipPrev BY <1>4 DEF SkipPrev, ReadPointer
<1>5. CASE Send \/ Exhausted \/ AdvanceChosen \/ StepBack
  BY <1>5 DEF Send, Exhausted, AdvanceChosen, StepBack, ReadPointer
<1>6. CASE Chosen \/ Skipped \/ CurrentFound \/ ChosenPrev \/ SkippedPrev
  BY <1>6 DEF Chosen, Skipped, CurrentFound, ChosenPrev, SkippedPrev, LoopEnds
<1>7. CASE UNCHANGED vars BY <1>7 DEF vars
<1> QED BY <1>1, <1>2, <1>3, <1>4, <1>5, <1>6, <1>7 DEF Walk

\* A step keeps the invariant, and is a step of WordList or none that it sees.
LEMMA NextList ==
  ASSUME IInv, AllSorted, fresh => ListInv, fresh', [Next]_vars
  PROVE  ListInv' /\ [List!Next]_List!vars
<1> DEFINE Same == /\ Wanted' = Wanted
                   /\ UNCHANGED <<sent, command, places>> /\ (pc' # "idle") = (pc # "idle")
<1>1. Same => UNCHANGED List!vars BY DEF List!vars
<1>0. ~ (ListWords \/ \E w \in Words : NextWords(w) \/ PreviousWords(w)) => ListInv
  BY StaysStale DEF Next
<1>2. CASE ListWords \/ \E w \in Words : NextWords(w) \/ PreviousWords(w)
  <2>1. ListInv' /\ Wanted' = goal' /\ goal' \subseteq Words BY <1>2, BeginList
  <2>2. /\ ~ (pc # "idle") /\ pc' # "idle" /\ sent' = <<>> /\ places' \in 1 .. MaxCount
    BY <1>2 DEF ListWords, NextWords, PreviousWords, Begin, Idle
  <2>3. List!Begin BY <2>1, <2>2 DEF List!Begin
  <2> QED BY <2>1, <2>3 DEF List!Next
<1>3. CASE ListInv /\ Choose
  <2>1. Same BY <1>3, ChooseList DEF Choose
  <2> QED BY <1>1, <1>3, <2>1, ChooseList
<1>4. CASE ListInv /\ Chosen
  <2>1. Same BY <1>4, ChosenList DEF Chosen, LoopEnds
  <2> QED BY <1>1, <1>4, <2>1, ChosenList
<1>5. CASE ListInv /\ SkipEqual
  <2>1. Same BY <1>5, SkipEqualList DEF SkipEqual
  <2> QED BY <1>1, <1>5, <2>1, SkipEqualList
<1>6. CASE ListInv /\ Skipped
  <2>1. Same BY <1>6, SkippedList DEF Skipped, LoopEnds
  <2> QED BY <1>1, <1>6, <2>1, SkippedList
<1>7. CASE ListInv /\ AdvanceChosen
  <2>1. Same BY <1>7, AdvanceChosenList DEF AdvanceChosen
  <2> QED BY <1>1, <1>7, <2>1, AdvanceChosenList
<1>8. CASE ListInv /\ CurrentFound
  <2>1. Same BY <1>8, CurrentFoundList DEF CurrentFound, LoopEnds
  <2> QED BY <1>1, <1>8, <2>1, CurrentFoundList
<1>9. CASE ListInv /\ ChoosePrev
  <2>1. Same BY <1>9, ChoosePrevList DEF ChoosePrev
  <2> QED BY <1>1, <1>9, <2>1, ChoosePrevList
<1>10. CASE ListInv /\ ChosenPrev
  <2>1. Same BY <1>10, ChosenPrevList DEF ChosenPrev, LoopEnds
  <2> QED BY <1>1, <1>10, <2>1, ChosenPrevList
<1>11. CASE ListInv /\ SkipPrev
  <2>1. Same BY <1>11, SkipPrevList DEF SkipPrev
  <2> QED BY <1>1, <1>11, <2>1, SkipPrevList
<1>12. CASE ListInv /\ SkippedPrev
  <2>1. Same BY <1>12, SkippedPrevList DEF SkippedPrev, LoopEnds
  <2> QED BY <1>1, <1>12, <2>1, SkippedPrevList
<1>13. CASE ListInv /\ StepBack
  <2>1. Same BY <1>13, StepBackList DEF StepBack
  <2> QED BY <1>1, <1>13, <2>1, StepBackList
<1>14. CASE ListInv /\ Send
  <2> DEFINE w == Pointed(ptr)
  <2>1. /\ w \in Wanted /\ sent' = Append(sent, w) /\ Wanted' = Wanted \ {w}
        /\ \A v \in Wanted : IF command = "previous" THEN v <= w ELSE w <= v
    BY <1>14, SendStep
  <2>2. /\ pc = "send" /\ UNCHANGED <<command, places>> /\ Len(sent) < places
        /\ pc' # "idle" \/ Len(sent') = places
    BY <1>14 DEF Send, ListInv
  <2> HIDE DEF w
  <2>3. List!Nearest(w) BY <2>1 DEF List!Nearest
  <2>4. ASSUME pc' # "idle" PROVE List!Send BY <2>1, <2>2, <2>3, <2>4 DEF List!Send
  <2>5. ASSUME ~ (pc' # "idle") PROVE List!SendLast
    <3>1. Len(sent) + 1 = places BY <2>1, <2>2, <2>5 DEF IInv
    <3> QED BY <2>1, <2>2, <2>3, <2>5, <3>1 DEF List!SendLast
  <2> QED BY <1>14, <2>4, <2>5, SendList DEF List!Next
<1>15. CASE ListInv /\ Exhausted
  <2>1. ListInv' /\ Wanted' = Wanted /\ Wanted = {} BY <1>15, ExhaustedList
  <2>2. pc # "idle" /\ ~ (pc' # "idle") /\ UNCHANGED <<command, sent, places>> BY <1>15 DEF Exhausted
  <2>3. List!End BY <2>1, <2>2 DEF List!End
  <2> QED BY <2>1, <2>3 DEF List!Next
<1>16. CASE ListInv /\ UNCHANGED vars
  <2>1. UNCHANGED <<words, mask, page, cur, command, pc, col, ptr, key, sent, places, goal>>
    BY <1>16 DEF vars
  <2>2. Wanted' = Wanted BY <2>1 DEF Wanted
  <2>3. Same BY <2>1, <2>2
  <2>4. ListInv' BY <1>16, <2>1, <2>2, PreservedList DEF ListInv
  <2> QED BY <1>1, <2>3, <2>4
<1> QED BY <1>0, <1>2, <1>3, <1>4, <1>5, <1>6, <1>7, <1>8, <1>9, <1>10, <1>11, <1>12, <1>13, <1>14, <1>15, <1>16
  DEF Next, Walk

\* The lists of lookup, next and previous are what WordList promises, although they
\* are merged from the cursors of several files: the words after the cursors, or
\* before the word, each once, in order and with none left out, for every spread of
\* words, homographs and synonyms and every mask, up to the first word read from a
\* page that has been replaced.
THEOREM ListsAreMerged == Spec => KeepsPromise
<1> DEFINE Inv == IInv /\ AllSorted /\ (fresh => ListInv)
           Step == fresh' => [List!Next]_(List!vars)
<1>1. Init => Inv /\ List!Init BY InitOK, InitList DEF ListInv
<1>2. ASSUME Inv, [Next]_vars PROVE Inv' /\ [Step]_vars
  <2>1. IInv' /\ AllSorted' BY <1>2, NextOK, WordsStay DEF AllSorted
  <2>2. fresh' => ListInv' /\ [List!Next]_(List!vars) BY <1>2, NextList
  <2> QED BY <2>1, <2>2
<1> QED BY <1>1, <1>2, PTL DEF Spec, KeepsPromise
=============================================================================
