------------------------ MODULE CollationFilesProofs ------------------------
(***************************************************************************)
(* Children use right sorts and read right words, for every number of      *)
(* children, dictionaries, pages and blocks, as long as they do not meet   *)
(* in an index file or in a file opened for writing.                       *)
(*                                                                         *)
(* The invariant says why: a child that reads an index alone finds the     *)
(* offset where it put it (ReadInv), so that what it sorts is in order     *)
(* (SortInv); a file has blocks of one sort only (FileInv), and has fewer  *)
(* than all of them while its only writer is at work (WriterInv), so that  *)
(* a child that finds it whole may map it (ViewInv).                       *)
(*                                                                         *)
(* The second half is about the words sought instead of one that is not    *)
(* there (SimilarWord): the variants of a word, and the walk over those    *)
(* alike in the order of the index, lead to a word whatever its case and,  *)
(* if it is English, whatever its ending.                                  *)
(***************************************************************************)
EXTENDS CollationFiles, Inputs, FiniteSetTheorems, SequenceTheorems, WellFoundedInduction, TLAPS

-----------------------------------------------------------------------------
(* The invariant.                                                          *)

\* Where child c stands between fseek() and fread(), others of the same index are not.
ReadInv ==
    \A c \in Children :
        /\ sought[c] => pc[c] \in {"sort", "lookup"}
        /\ sought[c] /\ dict[c] \notin crossed => offset[dict[c]] = want[c]
        /\ \A o \in Children : sought[c] /\ sought[o] /\ dict[o] = dict[c] /\ o # c
                                  => dict[c] \in crossed
        /\ dict[c] \notin crossed => exact[c]

\* A child has no sort before collate_load(), and its own when it saves one.
LoadInv ==
    \A c \in Children :
        /\ pc[c] = "sort" => ~saving[c]
        /\ pc[c] \in {"open", "write"} => saving[c]
        /\ pc[c] \in {"stat", "check", "sort", "open", "write"}
              => view[c] = IF saving[c] THEN Memory ELSE NoSort

\* What was read right is sorted right.
SortInv == \A c \in Children : dict[c] \notin crossed => sort[c]

\* x is a block of a sort, in order if no two children have read its index at once.
SortBlock(x) == x \in Dicts \X BOOLEAN /\ (x[1] \notin crossed => x[2])

\* The blocks of a file are of one sort.
FileInv ==
    \A p \in Places \ mixed : \A i \in 1 .. Len(file[p]) :
        SortBlock(file[p][i]) /\ file[p][i] = file[p][1]

\* A file that is being written has one writer, what that has written so far, and no
\* reader.
WriterInv ==
    \A c \in Children : pc[c] = "write" =>
        /\ seen[c] < Blocks
        /\ Place(c) \notin mixed =>
              /\ Len(file[Place(c)]) = seen[c]
              /\ \A i \in 1 .. seen[c] : file[Place(c)][i] = <<dict[c], sort[c]>>
              /\ \A o \in Children : /\ pc[o] = "write" /\ Place(o) = Place(c) => o = c
                                     /\ view[o] # Place(c)

\* A file that is mapped is whole, and the dictionary's.
ViewInv ==
    \A c \in Children : view[c] \in Places \ mixed =>
        /\ Len(file[view[c]]) = Blocks
        /\ file[view[c]][Blocks][1] = dict[c]

RightInv == WordsAreRight

IInv == TypeOK /\ ReadInv /\ LoadInv /\ SortInv /\ FileInv /\ WriterInv /\ ViewInv /\ RightInv

-----------------------------------------------------------------------------
(* Files and places.                                                       *)

LEMMA PlaceFacts ==
    /\ \A d \in Dicts, n \in 0 .. Copies : PlaceOf(d, n) \in Places
    /\ NoSort \notin Places /\ Memory \notin Places /\ NoSort # Memory
<1>1. ASSUME NEW d \in Dicts, NEW n \in 0 .. Copies PROVE PlaceOf(d, n) \in Places
  <2>1. CASE n = 0  BY <2>1 DEF PlaceOf, Places
  <2>2. CASE n # 0
    <3>1. n \in 1 .. Copies  BY <2>2, CollationAssumption
    <3> QED BY <2>2, <3>1 DEF PlaceOf, Places
  <2> QED BY <2>1, <2>2
<1>2. ASSUME NEW p \in Places PROVE p[2] # -1
  <2>1. CASE p \in Dicts \X {0}  BY <2>1
  <2>2. CASE p \in {"cache"} \X (1 .. Copies)  BY <2>2, CollationAssumption
  <2> QED BY <2>1, <2>2 DEF Places
<1>3. NoSort[2] = -1 /\ Memory[2] = -1 /\ NoSort[1] # Memory[1]  BY DEF NoSort, Memory
<1> QED BY <1>1, <1>2, <1>3

LEMMA BlockOfFile ==
    ASSUME NEW s, IsFile(s), NEW i \in 0 .. Blocks - 1, NEW x \in Dicts \X BOOLEAN
    PROVE  /\ IsFile(WithBlock(s, i + 1, x))
           /\ Len(WithBlock(s, i + 1, x)) = IF Len(s) < i + 1 THEN i + 1 ELSE Len(s)
           /\ Len(s) = i /\ (\A j \in 1 .. i : s[j] = x)
                 => \A j \in 1 .. i + 1 : WithBlock(s, i + 1, x)[j] = x
<1> DEFINE n == IF Len(s) < i + 1 THEN i + 1 ELSE Len(s)
<1> DEFINE g(j) == IF j = i + 1 THEN x ELSE IF j <= Len(s) THEN s[j] ELSE Zero
<1>1. s \in Seq(Contents) /\ Len(s) \in Nat /\ Len(s) <= Blocks  BY DEF IsFile
<1>2. n \in Nat /\ n <= Blocks  BY <1>1, CollationAssumption
<1>3. \A j \in 1 .. n : g(j) \in Contents
  BY <1>1 DEF Contents
<1>4. WithBlock(s, i + 1, x) = [j \in 1 .. n |-> g(j)]  BY DEF WithBlock
<1>5. [j \in 1 .. n |-> g(j)] \in Seq(Contents) /\ Len([j \in 1 .. n |-> g(j)]) = n
  <2> HIDE DEF n, g
  <2> QED BY <1>2, <1>3
<1>6. IsFile(WithBlock(s, i + 1, x)) /\ Len(WithBlock(s, i + 1, x)) = n
  <2> HIDE DEF n, g
  <2> QED BY <1>2, <1>4, <1>5 DEF IsFile
<1>7. ASSUME Len(s) = i, \A j \in 1 .. i : s[j] = x, NEW j \in 1 .. i + 1
      PROVE  WithBlock(s, i + 1, x)[j] = x
  BY <1>1, <1>4, <1>7
<1> QED BY <1>6, <1>7

-----------------------------------------------------------------------------
(* Types.                                                                  *)

LEMMA TypeInit == Init => TypeOK
<1> SUFFICES ASSUME Init PROVE TypeOK
  OBVIOUS
<1>1. IsFile(<<>>)  BY CollationAssumption DEF IsFile
<1>2. 1 \in 1 .. Pages /\ Pages \in 1 .. Pages /\ Pages + 1 \in 1 .. Pages + 1
  BY CollationAssumption
<1>3. 0 \in 0 .. Copies /\ 0 \in 0 .. Blocks  BY CollationAssumption
<1> QED BY <1>1, <1>2, <1>3 DEF Init, TypeOK, Steps

LEMMA TypeStep == TypeOK /\ [Next]_vars => TypeOK'
<1> SUFFICES ASSUME TypeOK, [Next]_vars PROVE TypeOK'
  OBVIOUS
<1> USE DEF TypeOK, Steps, Go, cacheVars, pageVars, useVars
<1>1. ASSUME NEW c \in Children, Fork(c) PROVE TypeOK'
  BY <1>1 DEF Fork
<1>2. ASSUME NEW c \in Children, Die(c) PROVE TypeOK'
  BY <1>2, CollationAssumption DEF Die
<1>3. ASSUME NEW c \in Children, Seek(c) PROVE TypeOK'
  BY <1>3, CollationAssumption DEF Seek
<1>4. ASSUME NEW c \in Children, Read(c) PROVE TypeOK'
  BY <1>4, CollationAssumption DEF Read, After
<1>5. ASSUME NEW c \in Children, CollateLoad(c) PROVE TypeOK'
  BY <1>5, CollationAssumption DEF CollateLoad
<1>6. ASSUME NEW c \in Children, pc[c] \in Steps, Unusable(c)
      PROVE /\ pc' \in [Children -> Steps]
            /\ nth' \in [Children -> 0 .. Copies]
            /\ want' \in [Children -> 1 .. Pages]
            /\ sort' \in [Children -> BOOLEAN]
  <2>1. CASE saving[c]
    BY <1>6, <2>1 DEF Unusable
  <2>2. CASE ~saving[c] /\ nth[c] = 0
    <3>1. /\ UNCHANGED <<want, sort>>
          /\ pc' = [pc EXCEPT ![c] = "stat"]
          /\ nth' = [nth EXCEPT ![c] = 1]
      BY <1>6, <2>2 DEF Unusable
    <3>2. nth' \in [Children -> 0 .. Copies]
      BY <3>1, CollationAssumption
    <3>3. pc' \in [Children -> Steps]
      BY <3>1
    <3> QED BY <3>1, <3>2, <3>3
  <2>3. CASE ~saving[c] /\ nth[c] > 0
    <3>1. /\ UNCHANGED nth
          /\ pc' = [pc EXCEPT ![c] = "sort"]
          /\ want' = [want EXCEPT ![c] = 1]
          /\ sort' = [sort EXCEPT ![c] = TRUE]
      BY <1>6, <2>3 DEF Unusable
    <3>2. want' \in [Children -> 1 .. Pages]
      BY <3>1, CollationAssumption
    <3>3. pc' \in [Children -> Steps]
      BY <3>1
    <3>4. sort' \in [Children -> BOOLEAN]
      BY <3>1
    <3> QED BY <3>1, <3>2, <3>3, <3>4
  <2> QED BY <2>1, <2>2, <2>3, CollationAssumption
<1>7. ASSUME NEW c \in Children PROVE Place(c) \in Places
  BY PlaceFacts DEF Place
<1>8. ASSUME NEW c \in Children, Stat(c) PROVE TypeOK'
  <2>1. Len(file[Place(c)]) \in 0 .. Blocks
    BY <1>7, CollationAssumption DEF IsFile
  <2>2. CASE Unusable(c)
    BY <1>6, <1>8, <2>1, <2>2 DEF Stat
  <2>3. CASE ~Unusable(c)
    BY <1>8, <2>1, <2>3 DEF Stat
  <2> QED BY <2>2, <2>3
<1>9. ASSUME NEW c \in Children, Check(c) PROVE TypeOK'
  <2>1. CASE Die(c)  BY <1>2, <2>1
  <2> SUFFICES ASSUME Found(c) \/ NextName(c) \/ Malformed(c),
                      seen' = [seen EXCEPT ![c] = 0],
                      UNCHANGED <<offset, file, dict, saving, page, exact, sought, right,
                                  crossed, mixed>>
               PROVE  TypeOK'
    BY <1>9, <2>1 DEF Check
  <2>2. /\ pc' \in [Children -> Steps]
        /\ nth' \in [Children -> 0 .. Copies]
        /\ want' \in [Children -> 1 .. Pages]
        /\ sort' \in [Children -> BOOLEAN]
        /\ view' \in [Children -> {NoSort, Memory} \cup Places]
    <3>1. CASE Found(c)
      BY <1>7, <3>1, CollationAssumption DEF Found
    <3>2. CASE NextName(c)
      BY <3>2, CollationAssumption DEF NextName
    <3>3. CASE Malformed(c)
      BY <1>6, <3>3, CollationAssumption DEF Malformed
    <3> QED BY <3>1, <3>2, <3>3
  <2>3. seen' \in [Children -> 0 .. Blocks]  BY CollationAssumption
  <2> QED BY <2>2, <2>3
<1>10. ASSUME NEW c \in Children, SortPage(c) PROVE TypeOK'
  BY <1>10, CollationAssumption DEF SortPage, PageLoaded
<1>11. ASSUME NEW c \in Children, Sorted(c) PROVE TypeOK'
  BY <1>11, CollationAssumption DEF Sorted, PageLoaded
<1>12. ASSUME NEW c \in Children, OpenFails(c) PROVE TypeOK'
  BY <1>12, CollationAssumption DEF OpenFails
<1>13. ASSUME NEW c \in Children, Open(c) PROVE TypeOK'
  <2>1. IsFile(<<>>)  BY CollationAssumption DEF IsFile
  <2>2. DOMAIN file' = Places /\ \A p \in Places : IsFile(file'[p])
    BY <1>13, <2>1 DEF Open
  <2>3. mixed' \subseteq Places
    BY <1>7, <1>13 DEF Open
  <2>4. seen' \in [Children -> 0 .. Blocks] /\ pc' \in [Children -> Steps]
    BY <1>13, CollationAssumption DEF Open
  <2> QED BY <1>13, <2>2, <2>3, <2>4 DEF Open
<1>14. ASSUME NEW c \in Children, seen[c] + 1 \in 1 .. Blocks, WriteBlock(c)
       PROVE  DOMAIN file' = Places /\ \A p \in Places : IsFile(file'[p])
  <2>1. seen[c] \in 0 .. Blocks - 1 /\ <<dict[c], sort[c]>> \in Dicts \X BOOLEAN
    BY <1>14, CollationAssumption
  <2>2. IsFile(WithBlock(file[Place(c)], seen[c] + 1, <<dict[c], sort[c]>>))
    BY <1>7, <2>1, BlockOfFile
  <2> QED BY <1>7, <1>14, <2>2 DEF WriteBlock
<1>15. ASSUME NEW c \in Children, Write(c) PROVE TypeOK'
  BY <1>14, <1>15, CollationAssumption DEF Write
<1>16. ASSUME NEW c \in Children, WriteLast(c) PROVE TypeOK'
  BY <1>14, <1>16, CollationAssumption DEF WriteLast
<1>17. ASSUME NEW c \in Children, Lookup(c) PROVE TypeOK'
  <2>1. CASE Die(c)  BY <1>2, <2>1
  <2>2. CASE ~Die(c)
    <3>1. /\ \E i \in 1 .. Blocks : right' = [right EXCEPT ![c] =
                IF view[c] \in Places THEN file[view[c]][i] = <<dict[c], TRUE>> ELSE sort[c]]
          /\ \E q \in 1 .. Pages : want' = [want EXCEPT ![c] = q]
          /\ pc' = [pc EXCEPT ![c] = "lookup"]
          /\ UNCHANGED <<offset, file, dict, cacheVars, page, exact, sought, sort, view,
                         crossed, mixed>>
      BY <1>17, <2>2 DEF Lookup
    <3>2. right' \in [Children -> BOOLEAN]
      BY <3>1
    <3>3. want' \in [Children -> 1 .. Pages]
      BY <3>1
    <3>4. pc' \in [Children -> Steps]
      BY <3>1
    <3> QED BY <3>1, <3>2, <3>3, <3>4
  <2> QED BY <2>1, <2>2
<1>18. ASSUME NEW c \in Children, Answer(c) PROVE TypeOK'
  BY <1>18 DEF Answer
<1>19. CASE UNCHANGED vars
  BY <1>19 DEF vars
<1> QED
  BY <1>1, <1>2, <1>3, <1>4, <1>5, <1>8, <1>9, <1>10, <1>11, <1>12, <1>13, <1>15,
     <1>16, <1>17, <1>18, <1>19
  DEF Next, Kill

-----------------------------------------------------------------------------
(* Init and Next by case.                                                  *)

LEMMA InvInit == Init => IInv
<1> SUFFICES ASSUME Init PROVE IInv
  OBVIOUS
<1>1. TypeOK  BY TypeInit
<1>2. ReadInv  BY DEF Init, ReadInv
<1>3. LoadInv  BY DEF Init, LoadInv
<1>4. SortInv  BY DEF Init, SortInv
<1>5. FileInv  BY DEF Init, FileInv
<1>6. WriterInv  BY DEF Init, WriterInv
<1>7. ViewInv  BY PlaceFacts DEF Init, ViewInv
<1>8. RightInv  BY DEF Init, RightInv, WordsAreRight
<1> QED BY <1>1, <1>2, <1>3, <1>4, <1>5, <1>6, <1>7, <1>8 DEF IInv

\* A step by child c that does not touch what is read, while c reads nothing.
LeavesReading(c) ==
    /\ ~sought[c]
    /\ UNCHANGED <<offset, dict, sought, exact, crossed>>
    /\ \A o \in Children \ {c} : pc'[o] = pc[o] /\ want'[o] = want[o]

LEMMA ReadStep == TypeOK /\ ReadInv /\ [Next]_vars => ReadInv'
<1> SUFFICES ASSUME TypeOK, ReadInv, [Next]_vars PROVE ReadInv'
  OBVIOUS
<1> USE DEF Go, cacheVars, pageVars, useVars
<1>1. ASSUME NEW c \in Children, LeavesReading(c) PROVE ReadInv'
  BY <1>1 DEF LeavesReading, ReadInv
<1>2. ASSUME NEW c \in Children, Die(c) PROVE ReadInv'
  BY <1>2 DEF Die, TypeOK, ReadInv
<1>3. ASSUME NEW c \in Children, Seek(c) PROVE ReadInv'
  BY <1>3 DEF Seek, TypeOK, ReadInv
<1>4. ASSUME NEW c \in Children, Read(c) PROVE ReadInv'
  BY <1>4 DEF Read, TypeOK, ReadInv
<1>5. ASSUME NEW c \in Children, Unusable(c), pc[c] \in {"stat", "check"}
      PROVE  /\ ~sought[c]
             /\ \A o \in Children \ {c} : pc'[o] = pc[o] /\ want'[o] = want[o]
  BY <1>5 DEF Unusable, TypeOK, ReadInv
<1>6. ASSUME NEW c \in Children,
             \/ Fork(c) \/ CollateLoad(c) \/ SortPage(c) \/ Sorted(c) \/ OpenFails(c)
             \/ Open(c) \/ Write(c) \/ WriteLast(c) \/ Answer(c)
      PROVE  LeavesReading(c)
  BY <1>6 DEF LeavesReading, ReadInv, TypeOK, PageLoaded, Fork, CollateLoad, SortPage,
              Sorted, OpenFails, Open, Write, WriteLast, Answer
<1>7. ASSUME NEW c \in Children, Stat(c) PROVE LeavesReading(c)
  BY <1>5, <1>7 DEF LeavesReading, ReadInv, TypeOK, Stat
<1>8. ASSUME NEW c \in Children, Check(c), ~Die(c) PROVE LeavesReading(c)
  BY <1>5, <1>8 DEF LeavesReading, ReadInv, TypeOK, Check, Found, NextName, Malformed
<1>9. ASSUME NEW c \in Children, Lookup(c), ~Die(c) PROVE LeavesReading(c)
  BY <1>9 DEF LeavesReading, ReadInv, TypeOK, Lookup
<1>10. CASE UNCHANGED vars
  BY <1>10 DEF vars, ReadInv
<1> QED
  BY <1>1, <1>2, <1>3, <1>4, <1>6, <1>7, <1>8, <1>9, <1>10 DEF Next, Kill

LEMMA LoadStep == TypeOK /\ LoadInv /\ [Next]_vars => LoadInv'
<1> SUFFICES ASSUME TypeOK, LoadInv, [Next]_vars PROVE LoadInv'
  OBVIOUS
<1> USE DEF Go, cacheVars, pageVars, useVars, LoadInv, TypeOK
<1>1. ASSUME NEW c \in Children, Die(c) PROVE LoadInv'
  BY <1>1 DEF Die
<1>2. ASSUME NEW c \in Children,
             Fork(c) \/ Seek(c) \/ Read(c) \/ CollateLoad(c) \/ SortPage(c) \/ Sorted(c)
      PROVE  LoadInv'
  BY <1>2 DEF Fork, Seek, Read, CollateLoad, SortPage, Sorted
<1>3. ASSUME NEW c \in Children,
             OpenFails(c) \/ Open(c) \/ Write(c) \/ WriteLast(c) \/ Answer(c)
      PROVE  LoadInv'
  BY <1>3 DEF OpenFails, Open, Write, WriteLast, Answer
<1>4. ASSUME NEW c \in Children, Unusable(c), pc[c] \in {"stat", "check"},
             UNCHANGED <<saving, view>>
      PROVE  LoadInv'
  BY <1>4 DEF Unusable
<1>5. ASSUME NEW c \in Children, Stat(c) PROVE LoadInv'
  BY <1>4, <1>5 DEF Stat
<1>6. ASSUME NEW c \in Children, Check(c), ~Die(c) PROVE LoadInv'
  BY <1>4, <1>6 DEF Check, Found, NextName, Malformed
<1>7. ASSUME NEW c \in Children, Lookup(c), ~Die(c) PROVE LoadInv'
  <2>1. pc' = [pc EXCEPT ![c] = "lookup"] /\ UNCHANGED <<saving, view>>
    BY <1>7 DEF Lookup
  <2> QED BY <2>1
<1>8. CASE UNCHANGED vars
  BY <1>8 DEF vars
<1> QED
  BY <1>1, <1>2, <1>3, <1>5, <1>6, <1>7, <1>8 DEF Next, Kill

LEMMA SortStep == TypeOK /\ ReadInv /\ SortInv /\ [Next]_vars => SortInv'
<1> SUFFICES ASSUME TypeOK, ReadInv, SortInv, [Next]_vars PROVE SortInv'
  OBVIOUS
<1> USE DEF Go, cacheVars, pageVars, useVars, SortInv, TypeOK
<1>1. ASSUME NEW c \in Children, Die(c) PROVE SortInv'
  BY <1>1 DEF Die
<1>2. ASSUME NEW c \in Children, Seek(c) PROVE SortInv'
  BY <1>2 DEF Seek
<1>3. ASSUME NEW c \in Children, SortPage(c) \/ Sorted(c) PROVE SortInv'
  BY <1>3 DEF SortPage, Sorted, ReadInv
<1>4. ASSUME NEW c \in Children,
             \/ Fork(c) \/ Read(c) \/ CollateLoad(c) \/ OpenFails(c) \/ Open(c) \/ Write(c)
             \/ WriteLast(c) \/ Answer(c)
      PROVE  SortInv'
  BY <1>4 DEF Fork, Read, CollateLoad, OpenFails, Open, Write, WriteLast, Answer
<1>5. ASSUME NEW c \in Children, Unusable(c), UNCHANGED <<dict, crossed>> PROVE SortInv'
  BY <1>5 DEF Unusable
<1>6. ASSUME NEW c \in Children, Stat(c) PROVE SortInv'
  BY <1>5, <1>6 DEF Stat
<1>7. ASSUME NEW c \in Children, Check(c), ~Die(c) PROVE SortInv'
  BY <1>5, <1>7 DEF Check, Found, NextName, Malformed
<1>8. ASSUME NEW c \in Children, Lookup(c), ~Die(c) PROVE SortInv'
  BY <1>8 DEF Lookup
<1>9. CASE UNCHANGED vars
  BY <1>9 DEF vars
<1> QED
  BY <1>1, <1>2, <1>3, <1>4, <1>6, <1>7, <1>8, <1>9 DEF Next, Kill

-----------------------------------------------------------------------------
(* Files.                                                                  *)

\* A step by child c that neither writes a file nor maps one.
LeavesFiles(c) ==
    /\ UNCHANGED <<file, mixed, dict>>
    /\ pc'[c] # "write"
    /\ view'[c] \in {view[c], NoSort, Memory}
    /\ \A o \in Children \ {c} :
          pc'[o] = pc[o] /\ nth'[o] = nth[o] /\ seen'[o] = seen[o] /\ sort'[o] = sort[o]
          /\ view'[o] = view[o]

LEMMA FilesKept ==
    ASSUME TypeOK, FileInv, WriterInv, ViewInv, NEW c \in Children, LeavesFiles(c),
           crossed \subseteq crossed'
    PROVE  FileInv' /\ WriterInv' /\ ViewInv'
<1> USE DEF LeavesFiles
<1>1. FileInv'
  BY DEF FileInv, SortBlock
<1>2. \A o \in Children \ {c} : Place(o)' = Place(o)
  BY DEF Place, PlaceOf
<1>3. ASSUME NEW o \in Children, pc'[o] = "write"
      PROVE  /\ o # c /\ pc[o] = "write"
             /\ Place(o)' = Place(o) /\ seen'[o] = seen[o] /\ dict'[o] = dict[o]
             /\ sort'[o] = sort[o]
  BY <1>2, <1>3
<1>4. ASSUME NEW o \in Children PROVE view'[o] = view[o] \/ view'[o] \notin Places
  BY PlaceFacts
<1>5. \A o \in Children : Place(o) \in Places
  BY PlaceFacts DEF Place, TypeOK
<1>6. WriterInv'
  <2> SUFFICES ASSUME NEW o \in Children, pc'[o] = "write"
               PROVE  /\ seen'[o] < Blocks
                      /\ Place(o)' \notin mixed' =>
                            /\ Len(file'[Place(o)']) = seen'[o]
                            /\ \A i \in 1 .. seen'[o] :
                                  file'[Place(o)'][i] = <<dict'[o], sort'[o]>>
                            /\ \A q \in Children :
                                  /\ pc'[q] = "write" /\ Place(q)' = Place(o)' => q = o
                                  /\ view'[q] # Place(o)'
    BY DEF WriterInv
  <2> QED BY <1>3, <1>4, <1>5 DEF WriterInv
<1>7. ViewInv'
  BY <1>4 DEF ViewInv
<1> QED BY <1>1, <1>6, <1>7

\* A child that finds a file whole and its own may map it.
LEMMA FilesMapped ==
    ASSUME TypeOK, FileInv, WriterInv, ViewInv, NEW c \in Children,
           pc[c] = "check", Len(file[Place(c)]) >= seen[c], WellFormed(c), Own(c),
           pc' = [pc EXCEPT ![c] = "ready"], view' = [view EXCEPT ![c] = Place(c)],
           nth' = [nth EXCEPT ![c] = 0], seen' = [seen EXCEPT ![c] = 0],
           UNCHANGED <<file, mixed, dict, sort, crossed>>
    PROVE  FileInv' /\ WriterInv' /\ ViewInv'
<1>1. FileInv'
  BY DEF FileInv, SortBlock
<1>2. \A o \in Children : Place(o) \in Places
  BY PlaceFacts DEF Place, TypeOK
<1>3. Len(file[Place(c)]) = Blocks /\ file[Place(c)][Blocks][1] = dict[c]
  BY <1>2, CollationAssumption DEF WellFormed, Own, TypeOK, IsFile
<1>4. ASSUME NEW o \in Children, pc[o] = "write", Place(o) \notin mixed
      PROVE  Place(o) # Place(c)
  BY <1>3, <1>4, CollationAssumption DEF WriterInv, TypeOK
<1>5. ASSUME NEW o \in Children, pc'[o] = "write"
      PROVE  /\ o # c /\ pc[o] = "write"
             /\ Place(o)' = Place(o) /\ seen'[o] = seen[o]
  BY <1>5 DEF TypeOK, Place, PlaceOf
<1>6. WriterInv'
  <2> SUFFICES ASSUME NEW o \in Children, pc'[o] = "write"
               PROVE  /\ seen'[o] < Blocks
                      /\ Place(o)' \notin mixed' =>
                            /\ Len(file'[Place(o)']) = seen'[o]
                            /\ \A i \in 1 .. seen'[o] :
                                  file'[Place(o)'][i] = <<dict'[o], sort'[o]>>
                            /\ \A q \in Children :
                                  /\ pc'[q] = "write" /\ Place(q)' = Place(o)' => q = o
                                  /\ view'[q] # Place(o)'
    BY DEF WriterInv
  <2> QED BY <1>4, <1>5 DEF WriterInv, TypeOK
<1>7. ViewInv'
  BY <1>3 DEF ViewInv, TypeOK
<1> QED BY <1>1, <1>6, <1>7

\* fopen() empties a file that, if it is not mixed, nobody else writes or maps.
LEMMA FilesOpened ==
    ASSUME TypeOK, LoadInv, FileInv, WriterInv, ViewInv, NEW c \in Children, Open(c)
    PROVE  FileInv' /\ WriterInv' /\ ViewInv'
<1> USE DEF Go, pageVars, useVars
<1>1. \A o \in Children : Place(o) \in Places
  BY PlaceFacts DEF Place, TypeOK
<1>2. /\ file' = [file EXCEPT ![Place(c)] = <<>>]
      /\ seen' = [seen EXCEPT ![c] = 0] /\ pc' = [pc EXCEPT ![c] = "write"]
      /\ mixed \subseteq mixed'
      /\ UNCHANGED <<dict, nth, sort, view, crossed>>
  BY DEF Open
<1>3. view[c] = Memory
  BY DEF Open, LoadInv
<1>4. Place(c) \notin mixed' =>
          \A o \in Children \ {c} : /\ ~(pc[o] = "write" /\ Place(o) = Place(c))
                                   /\ view[o] # Place(c)
  BY DEF Open
<1>5. \A o \in Children : Place(o)' = Place(o)
  BY <1>2 DEF Place
<1>6. FileInv'
  <2> SUFFICES ASSUME NEW p \in Places \ mixed', NEW i \in 1 .. Len(file'[p])
               PROVE  SortBlock(file'[p][i]) /\ file'[p][i] = file'[p][1]
    BY <1>2 DEF FileInv, SortBlock
  <2>1. p # Place(c)  BY <1>2 DEF TypeOK
  <2>2. file'[p] = file[p]  BY <1>2, <2>1 DEF TypeOK
  <2> QED BY <1>2, <2>2 DEF FileInv, SortBlock
<1>7. WriterInv'
  <2> SUFFICES ASSUME NEW o \in Children, pc'[o] = "write"
               PROVE  /\ seen'[o] < Blocks
                      /\ Place(o)' \notin mixed' =>
                            /\ Len(file'[Place(o)']) = seen'[o]
                            /\ \A i \in 1 .. seen'[o] :
                                  file'[Place(o)'][i] = <<dict'[o], sort'[o]>>
                            /\ \A q \in Children :
                                  /\ pc'[q] = "write" /\ Place(q)' = Place(o)' => q = o
                                  /\ view'[q] # Place(o)'
    BY DEF WriterInv
  <2>1. CASE o = c
    BY <1>1, <1>2, <1>3, <1>4, <1>5, <2>1, PlaceFacts, CollationAssumption DEF TypeOK
  <2>2. CASE o # c
    <3>1. pc[o] = "write" /\ seen'[o] = seen[o]  BY <1>2, <2>2 DEF TypeOK
    <3>2. SUFFICES ASSUME Place(o) \notin mixed'
                   PROVE  /\ Len(file'[Place(o)]) = seen[o]
                          /\ \A i \in 1 .. seen[o] : file'[Place(o)][i] = <<dict[o], sort[o]>>
                          /\ \A q \in Children :
                                /\ pc'[q] = "write" /\ Place(q) = Place(o) => q = o
                                /\ view[q] # Place(o)
      BY <1>2, <1>5, <3>1 DEF WriterInv
    <3>3. Place(o) # Place(c)  BY <1>4, <2>2, <3>1, <3>2
    <3>4. file'[Place(o)] = file[Place(o)]  BY <1>1, <1>2, <3>3 DEF TypeOK
    <3> QED BY <1>2, <3>1, <3>2, <3>3, <3>4 DEF WriterInv, TypeOK
  <2> QED BY <2>1, <2>2
<1>8. ViewInv'
  <2> SUFFICES ASSUME NEW o \in Children, view[o] \in Places \ mixed'
               PROVE  Len(file'[view[o]]) = Blocks /\ file'[view[o]][Blocks][1] = dict[o]
    BY <1>2 DEF ViewInv
  <2>1. view[o] # Place(c)  BY <1>3, <1>4, PlaceFacts
  <2>2. file'[view[o]] = file[view[o]]  BY <1>2, <2>1 DEF TypeOK
  <2> QED BY <1>2, <2>2 DEF ViewInv
<1> QED BY <1>6, <1>7, <1>8

\* A block is added to a file that, if it is not mixed, is this child's alone.
LEMMA FilesWritten ==
    ASSUME TypeOK, SortInv, FileInv, WriterInv, ViewInv, NEW c \in Children,
           Write(c) \/ WriteLast(c)
    PROVE  FileInv' /\ WriterInv' /\ ViewInv'
<1> USE DEF Go, pageVars, useVars
<1> DEFINE x == <<dict[c], sort[c]>>
<1> DEFINE n == seen[c] + 1
<1>1. \A o \in Children : Place(o) \in Places
  BY PlaceFacts DEF Place, TypeOK
<1>2. /\ pc[c] = "write" /\ n <= Blocks
      /\ file' = [file EXCEPT ![Place(c)] = WithBlock(@, n, x)]
      /\ UNCHANGED <<dict, sort, view, crossed, mixed>>
      /\ \A o \in Children \ {c} : pc'[o] = pc[o] /\ seen'[o] = seen[o] /\ nth'[o] = nth[o]
      /\ pc'[c] = "write" => n < Blocks /\ seen'[c] = n /\ nth'[c] = nth[c]
  <2>1. CASE Write(c)
    BY <2>1, CollationAssumption DEF Write, WriteBlock, TypeOK
  <2>2. CASE WriteLast(c)
    BY <2>2, CollationAssumption DEF WriteLast, WriteBlock, TypeOK
  <2> QED BY <2>1, <2>2
<1>3. seen[c] \in 0 .. Blocks - 1 /\ x \in Dicts \X BOOLEAN
  BY <1>2, CollationAssumption DEF TypeOK
<1>4. Place(c) \notin mixed =>
          /\ Len(file'[Place(c)]) = n
          /\ \A i \in 1 .. n : file'[Place(c)][i] = x
  <2> SUFFICES ASSUME Place(c) \notin mixed
               PROVE  /\ Len(file'[Place(c)]) = n
                      /\ \A i \in 1 .. n : file'[Place(c)][i] = x
    OBVIOUS
  <2>1. Len(file[Place(c)]) = seen[c] /\ \A i \in 1 .. seen[c] : file[Place(c)][i] = x
    BY <1>2 DEF WriterInv
  <2>2. IsFile(file[Place(c)]) /\ file'[Place(c)] = WithBlock(file[Place(c)], n, x)
    BY <1>1, <1>2 DEF TypeOK
  <2> HIDE DEF x
  <2> QED BY <1>3, <2>1, <2>2, BlockOfFile
<1>5. \A p \in Places \ {Place(c)} : file'[p] = file[p]
  BY <1>2 DEF TypeOK
<1>6. \A o \in Children : (o # c \/ pc'[o] = "write") => Place(o)' = Place(o)
  BY <1>2 DEF Place
<1>7. FileInv'
  <2> SUFFICES ASSUME NEW p \in Places \ mixed, NEW i \in 1 .. Len(file'[p])
               PROVE  SortBlock(file'[p][i]) /\ file'[p][i] = file'[p][1]
    BY <1>2 DEF FileInv, SortBlock
  <2>1. CASE p = Place(c)
    <3>1. file'[p][i] = x /\ file'[p][1] = x  BY <1>3, <1>4, <2>1
    <3>2. SortBlock(x)  BY <1>2, <1>3 DEF SortBlock, SortInv
    <3> QED BY <3>1, <3>2
  <2>2. CASE p # Place(c)
    BY <1>2, <1>5, <2>2 DEF FileInv
  <2> QED BY <2>1, <2>2
<1>8. WriterInv'
  <2> SUFFICES ASSUME NEW o \in Children, pc'[o] = "write"
               PROVE  /\ seen'[o] < Blocks
                      /\ Place(o)' \notin mixed' =>
                            /\ Len(file'[Place(o)']) = seen'[o]
                            /\ \A i \in 1 .. seen'[o] :
                                  file'[Place(o)'][i] = <<dict'[o], sort'[o]>>
                            /\ \A q \in Children :
                                  /\ pc'[q] = "write" /\ Place(q)' = Place(o)' => q = o
                                  /\ view'[q] # Place(o)'
    BY DEF WriterInv
  <2>1. \A q \in Children : pc'[q] = "write" => pc[q] = "write" /\ Place(q)' = Place(q)
    BY <1>2, <1>6
  <2>2. CASE o = c
    <3>1. seen'[c] = n /\ n < Blocks /\ Place(c)' = Place(c) /\ pc[c] = "write"
      BY <1>2, <1>6, <2>2
    <3>2. SUFFICES ASSUME Place(c) \notin mixed
                   PROVE  /\ Len(file'[Place(c)]) = n
                          /\ \A i \in 1 .. n : file'[Place(c)][i] = x
                          /\ \A q \in Children :
                                /\ pc'[q] = "write" /\ Place(q)' = Place(c) => q = c
                                /\ view[q] # Place(c)
      BY <1>2, <2>2, <3>1
    <3>3. \A q \in Children : /\ pc'[q] = "write" /\ Place(q)' = Place(c) => q = c
                             /\ view[q] # Place(c)
      BY <1>2, <2>1, <3>2 DEF WriterInv
    <3> QED BY <1>4, <3>2, <3>3
  <2>3. CASE o # c
    <3>1. Place(o) \notin mixed => Place(o) # Place(c)
      BY <1>2, <2>1, <2>3 DEF WriterInv
    <3> QED BY <1>1, <1>2, <1>5, <2>1, <2>3, <3>1 DEF WriterInv
  <2> QED BY <2>2, <2>3
<1>9. ViewInv'
  <2> SUFFICES ASSUME NEW o \in Children, view[o] \in Places \ mixed
               PROVE  Len(file'[view[o]]) = Blocks /\ file'[view[o]][Blocks][1] = dict[o]
    BY <1>2 DEF ViewInv
  <2>1. view[o] # Place(c)  BY <1>2 DEF WriterInv
  <2> QED BY <1>5, <2>1 DEF ViewInv
<1> QED BY <1>7, <1>8, <1>9

LEMMA FilesStep ==
    ASSUME TypeOK, ReadInv, LoadInv, SortInv, FileInv, WriterInv, ViewInv, [Next]_vars
    PROVE  FileInv' /\ WriterInv' /\ ViewInv'
<1> USE DEF Go, cacheVars, pageVars, useVars
<1>1. ASSUME NEW c \in Children, Die(c) PROVE LeavesFiles(c) /\ crossed \subseteq crossed'
  BY <1>1 DEF Die, LeavesFiles, TypeOK
<1>2. ASSUME NEW c \in Children, Fork(c) \/ Seek(c) \/ Read(c) \/ CollateLoad(c)
      PROVE  LeavesFiles(c) /\ crossed \subseteq crossed'
  BY <1>2 DEF LeavesFiles, TypeOK, ReadInv, Fork, Seek, Read, CollateLoad
<1>3. ASSUME NEW c \in Children, SortPage(c) \/ Sorted(c) \/ OpenFails(c) \/ Answer(c)
      PROVE  LeavesFiles(c) /\ crossed \subseteq crossed'
  BY <1>3 DEF LeavesFiles, TypeOK, SortPage, Sorted, OpenFails, Answer
<1>4. ASSUME NEW c \in Children, Stat(c) PROVE LeavesFiles(c) /\ crossed \subseteq crossed'
  <2>1. UNCHANGED <<file, mixed, dict, view, crossed>>  BY <1>4 DEF Stat
  <2>2. \A o \in Children \ {c} : seen'[o] = seen[o]  BY <1>4 DEF Stat, TypeOK
  <2>3. CASE Unusable(c)
    BY <1>4, <2>1, <2>2, <2>3 DEF Stat, Unusable, LeavesFiles, TypeOK
  <2>4. CASE ~Unusable(c)
    BY <1>4, <2>1, <2>2, <2>4 DEF Stat, LeavesFiles, TypeOK
  <2> QED BY <2>3, <2>4
<1>5. ASSUME NEW c \in Children, Check(c), ~Die(c), ~(Found(c) /\ ~saving[c])
      PROVE  LeavesFiles(c) /\ crossed \subseteq crossed'
  <2>1. UNCHANGED <<file, mixed, dict, crossed>>  BY <1>5 DEF Check
  <2>2. \A o \in Children \ {c} : seen'[o] = seen[o]  BY <1>5 DEF Check, TypeOK
  <2>3. CASE Found(c)
    BY <1>5, <2>1, <2>2, <2>3 DEF Check, Found, LeavesFiles, TypeOK
  <2>4. CASE NextName(c)
    BY <1>5, <2>1, <2>2, <2>4 DEF Check, NextName, LeavesFiles, TypeOK
  <2>5. CASE Malformed(c)
    BY <1>5, <2>1, <2>2, <2>5 DEF Check, Malformed, Unusable, LeavesFiles, TypeOK
  <2> QED BY <1>5, <2>3, <2>4, <2>5 DEF Check
<1>6. ASSUME NEW c \in Children, Check(c), ~Die(c), Found(c), ~saving[c]
      PROVE  FileInv' /\ WriterInv' /\ ViewInv'
  BY <1>6, FilesMapped DEF Check, Found
<1>7. ASSUME NEW c \in Children, Lookup(c), ~Die(c)
      PROVE  LeavesFiles(c) /\ crossed \subseteq crossed'
  <2>1. /\ pc' = [pc EXCEPT ![c] = "lookup"]
        /\ UNCHANGED <<file, mixed, dict, view, nth, seen, sort, crossed>>
    BY <1>7 DEF Lookup
  <2> QED BY <2>1 DEF LeavesFiles, TypeOK
<1>8. ASSUME NEW c \in Children, Open(c) PROVE FileInv' /\ WriterInv' /\ ViewInv'
  BY <1>8, FilesOpened
<1>9. ASSUME NEW c \in Children, Write(c) \/ WriteLast(c)
      PROVE  FileInv' /\ WriterInv' /\ ViewInv'
  BY <1>9, FilesWritten
<1>10. CASE UNCHANGED vars
  BY <1>10 DEF vars, FileInv, WriterInv, ViewInv, SortBlock, Place
<1>11. ASSUME NEW c \in Children, LeavesFiles(c), crossed \subseteq crossed'
       PROVE  FileInv' /\ WriterInv' /\ ViewInv'
  BY <1>11, FilesKept
<1> QED
  BY <1>1, <1>2, <1>3, <1>4, <1>5, <1>6, <1>7, <1>8, <1>9, <1>10, <1>11 DEF Next, Kill

-----------------------------------------------------------------------------
(* What is read.                                                           *)

\* Every entry of a mapped file is of the dictionary's words in order.
LEMMA MappedRight ==
    ASSUME TypeOK, FileInv, ViewInv, NEW c \in Children,
           dict[c] \notin crossed, view[c] \in Places \ mixed
    PROVE  /\ Len(file[view[c]]) = Blocks
           /\ \A i \in 1 .. Blocks : file[view[c]][i] = <<dict[c], TRUE>>
<1> DEFINE s == file[view[c]]
<1>1. Len(s) = Blocks /\ s[Blocks][1] = dict[c]  BY DEF ViewInv
<1>2. \A i \in 1 .. Blocks : SortBlock(s[i]) /\ s[i] = s[1]  BY <1>1 DEF FileInv
<1>3. Blocks \in 1 .. Blocks  BY CollationAssumption
<1>4. ASSUME NEW i \in 1 .. Blocks PROVE s[i] = <<dict[c], TRUE>>
  <2> HIDE DEF s
  <2>1. s[i] = s[Blocks] /\ SortBlock(s[i])  BY <1>2, <1>3
  <2>2. s[i] \in Dicts \X BOOLEAN /\ s[i][1] = dict[c]  BY <1>1, <2>1 DEF SortBlock
  <2>3. PICK d \in Dicts, b \in BOOLEAN : s[i] = <<d, b>>  BY <2>2
  <2>4. d = dict[c] /\ b  BY <2>1, <2>2, <2>3 DEF SortBlock
  <2> QED BY <2>3, <2>4
<1> QED BY <1>1, <1>4

LEMMA RightStep ==
    ASSUME IInv, [Next]_vars PROVE RightInv'
<1> USE DEF Go, cacheVars, pageVars, useVars, RightInv, WordsAreRight
<1>1. TypeOK /\ RightInv  BY DEF IInv
<1>2. ASSUME NEW c \in Children, Die(c) PROVE RightInv'
  BY <1>1, <1>2 DEF Die, TypeOK
<1>3. ASSUME NEW c \in Children, UNCHANGED <<dict, right, view>>,
             crossed \subseteq crossed', mixed \subseteq mixed'
      PROVE  RightInv'
  BY <1>1, <1>3
<1>4. ASSUME NEW c \in Children,
             \/ Fork(c) \/ Seek(c) \/ Read(c) \/ CollateLoad(c) \/ Stat(c) \/ SortPage(c)
             \/ OpenFails(c) \/ Open(c) \/ Write(c) \/ WriteLast(c)
      PROVE  /\ UNCHANGED <<dict, right, view>>
             /\ crossed \subseteq crossed' /\ mixed \subseteq mixed'
  BY <1>4 DEF Fork, Seek, Read, CollateLoad, Stat, SortPage, OpenFails, Open, Write, WriteLast
<1>5. ASSUME NEW c \in Children, view[c] = NoSort, UNCHANGED <<dict, right, crossed, mixed>>,
             view' = [view EXCEPT ![c] = view'[c]]
      PROVE  RightInv'
  <2>1. view[c] \notin mixed  BY <1>1, <1>5, PlaceFacts DEF TypeOK
  <2> QED BY <1>1, <1>5, <2>1 DEF TypeOK
<1>6. ASSUME NEW c \in Children, Sorted(c) PROVE RightInv'
  BY <1>5, <1>6 DEF Sorted, LoadInv, IInv, TypeOK
<1>7. ASSUME NEW c \in Children, Check(c), ~Die(c) PROVE RightInv'
  <2>1. UNCHANGED <<dict, right, crossed, mixed>>  BY <1>7 DEF Check
  <2>2. CASE UNCHANGED view
    BY <1>3, <2>1, <2>2
  <2>3. CASE ~UNCHANGED view
    <3>1. pc[c] = "check" /\ ~saving[c] /\ view' = [view EXCEPT ![c] = Place(c)]
      BY <1>7, <2>3 DEF Check, Found, NextName, Malformed
    <3>2. view[c] = NoSort  BY <3>1 DEF LoadInv, IInv
    <3>3. view' = [view EXCEPT ![c] = view'[c]]  BY <1>1, <3>1 DEF TypeOK
    <3> QED BY <1>5, <2>1, <3>2, <3>3
  <2> QED BY <2>2, <2>3
<1>8. ASSUME NEW c \in Children, Lookup(c), ~Die(c) PROVE RightInv'
  <2>1. PICK i \in 1 .. Blocks : right' = [right EXCEPT ![c] =
            IF view[c] \in Places THEN file[view[c]][i] = <<dict[c], TRUE>> ELSE sort[c]]
    BY <1>8 DEF Lookup
  <2>2. UNCHANGED <<dict, view, crossed, mixed>>  BY <1>8 DEF Lookup
  <2>3. dict[c] \notin crossed /\ view[c] \notin mixed => right'[c]
    <3> SUFFICES ASSUME dict[c] \notin crossed, view[c] \notin mixed PROVE right'[c]
      OBVIOUS
    <3>1. CASE view[c] \in Places
      BY <2>1, <3>1, MappedRight DEF IInv, TypeOK
    <3>2. CASE view[c] \notin Places
      BY <2>1, <3>2 DEF IInv, TypeOK, SortInv
    <3> QED BY <3>1, <3>2
  <2> QED BY <1>1, <2>1, <2>2, <2>3 DEF TypeOK
<1>9. ASSUME NEW c \in Children, Answer(c) PROVE RightInv'
  BY <1>1, <1>9 DEF Answer, PageLoaded, TypeOK, ReadInv, IInv
<1>10. CASE UNCHANGED vars
  BY <1>1, <1>10 DEF vars
<1> QED
  BY <1>2, <1>3, <1>4, <1>6, <1>7, <1>8, <1>9, <1>10 DEF Next, Kill

-----------------------------------------------------------------------------
(* The theorems.                                                           *)

LEMMA InvStep == IInv /\ [Next]_vars => IInv'
<1> SUFFICES ASSUME IInv, [Next]_vars PROVE IInv'
  OBVIOUS
<1>1. TypeOK' /\ ReadInv' /\ LoadInv' /\ SortInv'
  BY TypeStep, ReadStep, LoadStep, SortStep DEF IInv
<1>2. FileInv' /\ WriterInv' /\ ViewInv'
  BY FilesStep DEF IInv
<1>3. RightInv'
  BY RightStep
<1> QED BY <1>1, <1>2, <1>3 DEF IInv

LEMMA Invariant == Spec => []IInv
BY InvInit, InvStep, PTL DEF Spec

\* Every variable keeps its type: no child leaves the pages of an index or the blocks
\* of a file.
THEOREM TypeCorrect == Spec => []TypeOK
<1>1. IInv => TypeOK  BY DEF IInv
<1> QED BY <1>1, Invariant, PTL

\* A child that is alone with its index and whose file nobody opens uses a whole sort
\* of its own dictionary, in order (idxsyn_file::collate_load).
THEOREM SortsRight == Spec => []SortsAreRight
<1>1. IInv => SortsAreRight
  <2> SUFFICES ASSUME IInv, NEW c \in Children, dict[c] \notin crossed, view[c] \notin mixed
               PROVE  UsesRightSort(c)
    BY DEF SortsAreRight
  <2>1. view[c] = Memory => sort[c]  BY DEF IInv, SortInv
  <2>2. ASSUME view[c] \in Places
        PROVE  file[view[c]] = [i \in 1 .. Blocks |-> <<dict[c], TRUE>>]
    <3>1. /\ Len(file[view[c]]) = Blocks
          /\ \A i \in 1 .. Blocks : file[view[c]][i] = <<dict[c], TRUE>>
      BY <2>2, MappedRight DEF IInv
    <3>2. file[view[c]] \in Seq(Contents)  BY <2>2 DEF IInv, TypeOK, IsFile
    <3> DEFINE s == file[view[c]]
    <3>3. DOMAIN s = 1 .. Blocks /\ s = [i \in DOMAIN s |-> s[i]]  BY <3>1, <3>2
    <3> HIDE DEF s
    <3> QED BY <3>1, <3>3 DEF s
  <2> QED BY <2>1, <2>2 DEF UsesRightSort
<1> QED BY <1>1, Invariant, PTL

\* Such a child reads the words it asks for (load_page, get_key).
THEOREM WordsRight == Spec => []WordsAreRight
<1>1. IInv => WordsAreRight  BY DEF IInv, RightInv
<1> QED BY <1>1, Invariant, PTL

-----------------------------------------------------------------------------
(* Inputs.                                                                 *)

\* A set of positions has a least one.
LEMMA LeastPosition ==
    ASSUME NEW n \in Nat, NEW S \in SUBSET (0 .. n), S # {}
    PROVE  \E m \in S : \A y \in S : m <= y
<1> DEFINE UpTo(x) == {y \in S : y <= x}
           T == {UpTo(x) : x \in S}
<1>1. \A x, y, z \in S : x \in Int /\ (x <= y /\ y <= z => x <= z)  OBVIOUS
<1>2. T \in SUBSET SUBSET (0 .. n) /\ T # {}  OBVIOUS
<1> HIDE DEF T
<1>3. PICK a \in T : \A b \in T : b \subseteq a => b = a
  <2>1. IsFiniteSet(0 .. n)  BY FS_Interval
  <2>2. T \subseteq FiniteSubsetsOf(0 .. n)  BY <1>2, <2>1, FS_FiniteSubsetsOfFinite
  <2>3. IsWellFoundedOn(StrictSubsetOrdering(0 .. n), FiniteSubsetsOf(0 .. n))
    BY FS_StrictSubsetOrderingWellFounded
  <2>4. PICK a \in T : \A b \in T : ~ (<<b, a>> \in StrictSubsetOrdering(0 .. n))
    BY <1>2, <2>2, <2>3, WFMin
  <2> QED BY <1>2, <2>4 DEF StrictSubsetOrdering
<1>4. PICK m \in S : a = UpTo(m)  BY <1>3 DEF T
<1>5. ASSUME NEW y \in S, y < m PROVE FALSE
  <2>1. UpTo(y) \in T  BY DEF T
  <2>2. y <= m  BY <1>1, <1>5
  <2>2a. UpTo(y) \subseteq UpTo(m)  BY <2>2, <1>1
  <2>3. m \in UpTo(y)  BY <1>1, <1>3, <1>4, <2>1, <2>2a
  <2> QED BY <2>3, <1>1, <1>5
<1> QED BY <1>1, <1>5

\* What holds at 0 and at a number if at the one before it, holds up to n.
LEMMA UptoInduction ==
    ASSUME NEW n \in Nat, NEW S, 0 \in S, \A k \in 1 .. n : k - 1 \in S => k \in S
    PROVE  \A k \in 0 .. n : k \in S
<1> DEFINE Bad == {k \in 0 .. n : k \notin S}
<1> SUFFICES ASSUME Bad # {} PROVE FALSE  OBVIOUS
<1>1. Bad \in SUBSET (0 .. n)  OBVIOUS
<1>2. PICK k \in Bad : \A y \in Bad : k <= y
  <2> HIDE DEF Bad
  <2> QED BY <1>1, LeastPosition
<1>3. k \in 0 .. n /\ k \notin S  BY <1>2
<1>4. k \in 1 .. n /\ k - 1 \in 0 .. n /\ ~(k <= k - 1)  BY <1>3
<1>5. k - 1 \notin Bad  BY <1>2, <1>4
<1> QED BY <1>3, <1>4, <1>5

\* A string of one set of letters is one of a larger set.
LEMMA LettersWiden ==
    ASSUME NEW A, NEW B, A \subseteq B
    PROVE  Seq(A) \subseteq Seq(B)
<1> SUFFICES ASSUME NEW s \in Seq(A) PROVE s \in Seq(B)  OBVIOUS
<1>1. s \in [1 .. Len(s) -> B] /\ Len(s) \in Nat  BY LenProperties
<1> QED BY <1>1, SeqDef

StringsTyped ==
    /\ function \in Functions
    /\ input \in Seq(Letters[function]) /\ input2 \in Seq(SecondLetters[function])

\* Writing a letter keeps strings strings,
LEMMA StringsWritten == StringsTyped /\ [InputNext]_inputs => StringsTyped'
<1> SUFFICES ASSUME StringsTyped, [InputNext]_inputs PROVE StringsTyped'  OBVIOUS
<1>1. CASE WriteLetter
  <2>1. /\ function' = function /\ input2' = input2
        /\ \E c \in Letters[function] : input' = Append(input, c)
    BY <1>1 DEF WriteLetter
  <2> QED BY <2>1, AppendProperties DEF StringsTyped
<1>2. CASE WriteSecond
  <2>1. /\ function' = function /\ input' = input
        /\ \E c \in SecondLetters[function] : input2' = Append(input2, c)
    BY <1>2 DEF WriteSecond
  <2> QED BY <2>1, AppendProperties DEF StringsTyped
<1>3. CASE UNCHANGED inputs  BY <1>3 DEF inputs, StringsTyped
<1> QED BY <1>1, <1>2, <1>3 DEF InputNext

\* so that every input is one.
LEMMA StringsAlwaysTyped == InputSpec => []StringsTyped
<1>1. InputInit => StringsTyped  BY EmptySeq DEF InputInit, StringsTyped
<1> QED BY <1>1, StringsWritten, PTL DEF InputSpec

-----------------------------------------------------------------------------
(* Words alike, and the order of words.                                    *)

\* strcmp(a, b) < 0.
StrBefore(a, b) ==
    \E n \in 0 .. Len(a) :
        /\ n < Len(b) /\ \A i \in 1 .. n : a[i] = b[i]
        /\ n = Len(a) \/ a[n + 1] < b[n + 1]

\* The small letters of a word, one by one.
LEMMA DownIs ==
    ASSUME NEW w \in Seq(Nat)
    PROVE  /\ Similar!Down(w) \in Seq(Nat) /\ Len(Similar!Down(w)) = Len(w)
           /\ \A i \in 1 .. Len(w) :
                Similar!Down(w)[i] = IF Similar!IsUpper(w[i]) THEN w[i] + 32 ELSE w[i]
<1>1. Len(w) \in Nat /\ DOMAIN w = 1 .. Len(w) /\ \A i \in 1 .. Len(w) : w[i] \in Nat
  BY LenProperties, ElementOfSeq
<1>2. PICK n : n = Len(w)  OBVIOUS
<1>3. Similar!Down(w) = [i \in 1 .. n |-> IF Similar!IsUpper(w[i]) THEN w[i] + 32 ELSE w[i]]
  BY <1>1, <1>2 DEF Similar!Down
<1>4. \A i \in 1 .. n : (IF Similar!IsUpper(w[i]) THEN w[i] + 32 ELSE w[i]) \in Nat  BY <1>1, <1>2
<1>5. Similar!Down(w) \in [1 .. n -> Nat]  BY <1>3, <1>4
<1>6. Similar!Down(w) \in Seq(Nat) /\ Len(Similar!Down(w)) = n  BY <1>1, <1>2, <1>5
<1> QED BY <1>2, <1>3, <1>6

\* Prefixes that are equal agree letter by letter.
LEMMA PrefixesAgree ==
    ASSUME NEW a \in Seq(Nat), NEW b \in Seq(Nat), NEW n \in Nat, n <= Len(a), n <= Len(b)
    PROVE  SubSeq(a, 1, n) = SubSeq(b, 1, n) <=> \A i \in 1 .. n : a[i] = b[i]
<1>1. Len(a) \in Nat /\ Len(b) \in Nat  BY LenProperties
<1>2. /\ SubSeq(a, 1, n) \in Seq(Nat) /\ Len(SubSeq(a, 1, n)) = n
      /\ \A i \in 1 .. n : SubSeq(a, 1, n)[i] = a[i]
  BY <1>1, SubSeqProperties
<1>3. /\ SubSeq(b, 1, n) \in Seq(Nat) /\ Len(SubSeq(b, 1, n)) = n
      /\ \A i \in 1 .. n : SubSeq(b, 1, n)[i] = b[i]
  BY <1>1, SubSeqProperties
<1> QED BY <1>2, <1>3, SeqEqual

\* The order of an index: by small letters first, then by strcmp.
LEMMA BelowIs ==
    ASSUME NEW s \in Seq(Nat), NEW t \in Seq(Nat)
    PROVE  Similar!Below(s, t) <=>
             IF Similar!Down(s) # Similar!Down(t) THEN StrBefore(Similar!Down(s), Similar!Down(t))
             ELSE StrBefore(s, t)
<1> DEFINE Before(a, b) ==
             \E n \in 0 .. Len(a) :
                /\ n < Len(b) /\ SubSeq(a, 1, n) = SubSeq(b, 1, n)
                /\ n = Len(a) \/ a[n + 1] < b[n + 1]
<1>1. Similar!Below(s, t) <=>
        IF Similar!Down(s) # Similar!Down(t) THEN Before(Similar!Down(s), Similar!Down(t))
        ELSE Before(s, t)
  BY DEF Similar!Below
<1>2. ASSUME NEW a \in Seq(Nat), NEW b \in Seq(Nat) PROVE Before(a, b) <=> StrBefore(a, b)
  <2>1. Len(a) \in Nat /\ Len(b) \in Nat  BY LenProperties
  <2>2. ASSUME NEW n \in 0 .. Len(a), n < Len(b)
        PROVE  SubSeq(a, 1, n) = SubSeq(b, 1, n) <=> \A i \in 1 .. n : a[i] = b[i]
    <3>1. n \in Nat /\ n <= Len(a) /\ n <= Len(b)  BY <2>1, <2>2
    <3> QED BY <3>1, PrefixesAgree
  <2> QED BY <2>2 DEF StrBefore
<1> HIDE DEF Before
<1> QED BY <1>1, <1>2, DownIs

\* strcmp is an order: no word is before itself,
LEMMA StrIrreflexive ==
    ASSUME NEW a \in Seq(Nat)
    PROVE  ~StrBefore(a, a)
<1> SUFFICES ASSUME NEW n \in 0 .. Len(a), n < Len(a), n = Len(a) \/ a[n + 1] < a[n + 1] PROVE FALSE
  BY DEF StrBefore
<1>1. Len(a) \in Nat  BY LenProperties
<1>2. n + 1 \in 1 .. Len(a)  BY <1>1
<1>3. a[n + 1] \in Nat  BY <1>2, ElementOfSeq
<1> QED BY <1>1, <1>3

\* what is before a word is before those after it,
LEMMA StrTransitive ==
    ASSUME NEW a \in Seq(Nat), NEW b \in Seq(Nat), NEW c \in Seq(Nat),
           StrBefore(a, b), StrBefore(b, c)
    PROVE  StrBefore(a, c)
<1>1. Len(a) \in Nat /\ Len(b) \in Nat /\ Len(c) \in Nat  BY LenProperties
<1>2. PICK n \in 0 .. Len(a) :
        n < Len(b) /\ (\A i \in 1 .. n : a[i] = b[i]) /\ (n = Len(a) \/ a[n + 1] < b[n + 1])
  BY DEF StrBefore
<1>3. PICK m \in 0 .. Len(b) :
        m < Len(c) /\ (\A i \in 1 .. m : b[i] = c[i]) /\ (m = Len(b) \/ b[m + 1] < c[m + 1])
  BY DEF StrBefore
<1>4. CASE n < m
  <2>1. n \in 0 .. Len(a) /\ n < Len(c)  BY <1>1, <1>3, <1>4
  <2>2. \A i \in 1 .. n : a[i] = c[i]  BY <1>2, <1>3, <1>4
  <2>3. n + 1 \in 1 .. m  BY <1>1, <1>4
  <2>4. b[n + 1] = c[n + 1]  BY <1>3, <2>3
  <2> QED BY <1>2, <2>1, <2>2, <2>4 DEF StrBefore
<1>5. CASE m < n
  <2>1. m \in 0 .. Len(a) /\ m # Len(b)  BY <1>1, <1>2, <1>5
  <2>2. \A i \in 1 .. m : a[i] = c[i]  BY <1>2, <1>3, <1>5
  <2>3. m + 1 \in 1 .. n  BY <1>1, <1>5
  <2>4. a[m + 1] = b[m + 1]  BY <1>2, <2>3
  <2> QED BY <1>3, <2>1, <2>2, <2>4 DEF StrBefore
<1>6. CASE n = m
  <2>1. n \in 0 .. Len(a) /\ n < Len(c) /\ n # Len(b)  BY <1>1, <1>2, <1>3, <1>6
  <2>2. \A i \in 1 .. n : a[i] = c[i]  BY <1>2, <1>3, <1>6
  <2>3. CASE n = Len(a)  BY <2>1, <2>2, <2>3 DEF StrBefore
  <2>4. CASE n # Len(a)
    <3>1. a[n + 1] < b[n + 1] /\ b[n + 1] < c[n + 1]  BY <1>2, <1>3, <1>6, <2>1, <2>4
    <3>2. n + 1 \in 1 .. Len(a) /\ n + 1 \in 1 .. Len(b) /\ n + 1 \in 1 .. Len(c)
      BY <1>1, <1>2, <2>1, <2>4
    <3>3. a[n + 1] \in Nat /\ b[n + 1] \in Nat /\ c[n + 1] \in Nat  BY <3>2, ElementOfSeq
    <3>4. a[n + 1] < c[n + 1]  BY <3>1, <3>3
    <3> QED BY <2>1, <2>2, <3>4 DEF StrBefore
  <2> QED BY <2>3, <2>4
<1> QED BY <1>1, <1>2, <1>3, <1>4, <1>5, <1>6

\* and of two words one is before the other.
LEMMA StrTotal ==
    ASSUME NEW a \in Seq(Nat), NEW b \in Seq(Nat), a # b
    PROVE  StrBefore(a, b) \/ StrBefore(b, a)
<1>1. Len(a) \in Nat /\ Len(b) \in Nat  BY LenProperties
<1> DEFINE S == {n \in 0 .. Len(a) : n = Len(a) \/ n = Len(b) \/ a[n + 1] # b[n + 1]}
<1>2. S \in SUBSET (0 .. Len(a)) /\ S # {}
  <2>1. Len(a) \in S  BY <1>1
  <2> QED BY <2>1
<1>3. PICK n \in S : \A y \in S : n <= y
  <2> HIDE DEF S
  <2> QED BY <1>1, <1>2, LeastPosition
<1>4. n \in 0 .. Len(a) /\ (n = Len(a) \/ n = Len(b) \/ a[n + 1] # b[n + 1])  OBVIOUS
<1>5. \A k \in 0 .. n - 1 : k # Len(b) /\ a[k + 1] = b[k + 1]
  <2>1. ASSUME NEW k \in 0 .. n - 1 PROVE k # Len(b) /\ a[k + 1] = b[k + 1]
    <3>1. k \in 0 .. Len(a) /\ ~(n <= k)  BY <1>1, <1>4
    <3>2. k \notin S  BY <1>3, <3>1
    <3> QED BY <3>1, <3>2
  <2> QED BY <2>1
<1> HIDE DEF S
<1>6. n <= Len(b)
  <2>1. Len(b) \notin 0 .. n - 1  BY <1>5
  <2> QED BY <1>1, <1>4, <2>1
<1>7. \A i \in 1 .. n : a[i] = b[i]
  <2>1. ASSUME NEW i \in 1 .. n PROVE a[i] = b[i]
    <3>1. i - 1 \in 0 .. n - 1 /\ (i - 1) + 1 = i  BY <1>4
    <3> QED BY <1>5, <3>1
  <2> QED BY <2>1
<1>8. n \in 0 .. Len(b)  BY <1>1, <1>4, <1>6
<1>9. CASE n = Len(a) /\ n = Len(b)  BY <1>7, <1>9, SeqEqual
<1>10. CASE n = Len(a) /\ n # Len(b)
  <2>1. n < Len(b)  BY <1>1, <1>8, <1>10
  <2> QED BY <1>4, <1>7, <1>10, <2>1 DEF StrBefore
<1>11. CASE n # Len(a) /\ n = Len(b)
  <2>1. n < Len(a)  BY <1>1, <1>4, <1>11
  <2> QED BY <1>7, <1>8, <1>11, <2>1 DEF StrBefore
<1>12. CASE n # Len(a) /\ n # Len(b)
  <2>1. n < Len(a) /\ n < Len(b) /\ n + 1 \in 1 .. Len(a) /\ n + 1 \in 1 .. Len(b)
    BY <1>1, <1>4, <1>8, <1>12
  <2>2. a[n + 1] \in Nat /\ b[n + 1] \in Nat /\ a[n + 1] # b[n + 1]
    BY <1>4, <1>12, <2>1, ElementOfSeq
  <2>3. a[n + 1] < b[n + 1] \/ b[n + 1] < a[n + 1]  BY <2>2
  <2> QED BY <1>4, <1>7, <1>8, <2>1, <2>3 DEF StrBefore
<1> QED BY <1>9, <1>10, <1>11, <1>12

\* stardict_strcmp is a strict order of all words.
LEMMA BelowOrders ==
    ASSUME NEW s \in Seq(Nat), NEW t \in Seq(Nat), NEW u \in Seq(Nat)
    PROVE  /\ ~Similar!Below(s, s)
           /\ Similar!Below(s, t) /\ Similar!Below(t, u) => Similar!Below(s, u)
           /\ s # t => Similar!Below(s, t) \/ Similar!Below(t, s)
<1>1. PICK a : a = Similar!Down(s)  OBVIOUS
<1>2. PICK b : b = Similar!Down(t)  OBVIOUS
<1>3. PICK c : c = Similar!Down(u)  OBVIOUS
<1>4. a \in Seq(Nat) /\ b \in Seq(Nat) /\ c \in Seq(Nat)  BY <1>1, <1>2, <1>3, DownIs
<1>5. Similar!Below(s, s) <=> StrBefore(s, s)  BY BelowIs
<1>6. Similar!Below(s, t) <=> IF a # b THEN StrBefore(a, b) ELSE StrBefore(s, t)
  BY <1>1, <1>2, BelowIs
<1>7. Similar!Below(t, u) <=> IF b # c THEN StrBefore(b, c) ELSE StrBefore(t, u)
  BY <1>2, <1>3, BelowIs
<1>8. Similar!Below(s, u) <=> IF a # c THEN StrBefore(a, c) ELSE StrBefore(s, u)
  BY <1>1, <1>3, BelowIs
<1>9. Similar!Below(t, s) <=> IF b # a THEN StrBefore(b, a) ELSE StrBefore(t, s)
  BY <1>1, <1>2, BelowIs
<1>10. ASSUME Similar!Below(s, t), Similar!Below(t, u) PROVE Similar!Below(s, u)
  <2>1. CASE a # b /\ b # c
    <3>1. StrBefore(a, b) /\ StrBefore(b, c)  BY <1>6, <1>7, <1>10, <2>1
    <3>2. StrBefore(a, c)  BY <1>4, <3>1, StrTransitive
    <3>3. a # c  BY <1>4, <3>2, StrIrreflexive
    <3> QED BY <1>8, <3>2, <3>3
  <2>2. CASE a = b /\ b # c  BY <1>6, <1>7, <1>8, <1>10, <2>2
  <2>3. CASE a # b /\ b = c  BY <1>6, <1>7, <1>8, <1>10, <2>3
  <2>4. CASE a = b /\ b = c
    <3>1. StrBefore(s, t) /\ StrBefore(t, u)  BY <1>6, <1>7, <1>10, <2>4
    <3>2. StrBefore(s, u)  BY <3>1, StrTransitive
    <3> QED BY <1>8, <2>4, <3>2
  <2> QED BY <2>1, <2>2, <2>3, <2>4
<1>11. ASSUME s # t PROVE Similar!Below(s, t) \/ Similar!Below(t, s)
  <2>1. CASE a # b
    <3>1. StrBefore(a, b) \/ StrBefore(b, a)  BY <1>4, <2>1, StrTotal
    <3> QED BY <1>6, <1>9, <2>1, <3>1
  <2>2. CASE a = b
    <3>1. StrBefore(s, t) \/ StrBefore(t, s)  BY <1>11, StrTotal
    <3> QED BY <1>6, <1>9, <2>2, <3>1
  <2> QED BY <2>1, <2>2
<1>12. ~Similar!Below(s, s)  BY <1>5, StrIrreflexive
<1> QED BY <1>10, <1>11, <1>12

\* Words that are the same but for their case stand together.
LEMMA AlikeTogether ==
    ASSUME NEW s \in Seq(Nat), NEW t \in Seq(Nat), NEW u \in Seq(Nat),
           Similar!Below(s, t), Similar!Below(t, u), Similar!Down(s) = Similar!Down(u)
    PROVE  Similar!Down(t) = Similar!Down(s)
<1>1. PICK a : a = Similar!Down(s)  OBVIOUS
<1>2. PICK b : b = Similar!Down(t)  OBVIOUS
<1>3. a \in Seq(Nat) /\ b \in Seq(Nat)  BY <1>1, <1>2, DownIs
<1> SUFFICES ASSUME a # b PROVE FALSE  BY <1>1, <1>2
<1>4. StrBefore(a, b)  BY <1>1, <1>2, BelowIs
<1>5. StrBefore(b, a)  BY <1>1, <1>2, BelowIs
<1>6. StrBefore(a, a)  BY <1>3, <1>4, <1>5, StrTransitive
<1> QED BY <1>3, <1>6, StrIrreflexive

-----------------------------------------------------------------------------
(* Places of words in a dictionary.                                        *)

\* How many words of a dictionary are before one.
Rank(D, v) == Cardinality({u \in D : Similar!Below(u, v)})

IsDictionary(D) == IsFiniteSet(D) /\ D \subseteq Seq(Nat)

\* The words before one are finitely many.
LEMMA RankType ==
    ASSUME NEW D, IsDictionary(D), NEW v
    PROVE  IsFiniteSet({u \in D : Similar!Below(u, v)}) /\ Rank(D, v) \in Nat /\ Cardinality(D) \in Nat
BY FS_Subset, FS_CardinalityType DEF Rank, IsDictionary

\* A later word has more of them.
LEMMA RankGrows ==
    ASSUME NEW D, IsDictionary(D), NEW u \in D, NEW v \in D, Similar!Below(u, v)
    PROVE  Rank(D, u) < Rank(D, v)
<1> DEFINE U == {x \in D : Similar!Below(x, u)}
           V == {x \in D : Similar!Below(x, v)}
<1>1. D \subseteq Seq(Nat)  BY DEF IsDictionary
<1>2. U \in SUBSET V  BY <1>1, BelowOrders
<1>3. u \in V /\ u \notin U  BY <1>1, BelowOrders
<1>4. Rank(D, u) = Cardinality(U) /\ Rank(D, v) = Cardinality(V)  BY DEF Rank
<1>5. IsFiniteSet(V) /\ Rank(D, u) \in Nat /\ Rank(D, v) \in Nat  BY RankType
<1> HIDE DEF U, V
<1>6. Cardinality(U) <= Cardinality(V) /\ (Cardinality(V) = Cardinality(U) => V = U)
  BY <1>2, <1>5, FS_Subset
<1> QED BY <1>3, <1>4, <1>5, <1>6

\* SimilarWord counts as this module does.
LEMMA Counts == \A S : Similar!Cardinality(S) = Cardinality(S)
BY DEF Similar!Cardinality, Cardinality

\* InOrder puts each word where as many are before it.
LEMMA SortedAt ==
    ASSUME NEW D, IsDictionary(D), NEW v \in D
    PROVE  /\ Similar!InOrder(D)[Rank(D, v) + 1] = v
           /\ Rank(D, v) + 1 \in 1 .. Cardinality(D)
<1>1. Rank(D, v) \in Nat /\ Cardinality(D) \in Nat  BY RankType
<1>2. Rank(D, v) < Cardinality(D)
  <2> DEFINE V == {x \in D : Similar!Below(x, v)}
  <2>1. V \in SUBSET D /\ v \notin V  BY BelowOrders DEF IsDictionary
  <2>2. Rank(D, v) = Cardinality(V)  BY DEF Rank
  <2> HIDE DEF V
  <2>3. Cardinality(V) <= Cardinality(D) /\ (Cardinality(D) = Cardinality(V) => D = V)
    BY <2>1, FS_Subset DEF IsDictionary
  <2> QED BY <1>1, <2>1, <2>2, <2>3
<1>3. PICK i : i = Rank(D, v) + 1  OBVIOUS
<1>4. i \in 1 .. Cardinality(D) /\ i - 1 = Rank(D, v)  BY <1>1, <1>2, <1>3
<1>5. Similar!InOrder(D)[i] = CHOOSE x \in D : Rank(D, x) = i - 1
  <2>1. Similar!InOrder(D) = [j \in 1 .. Cardinality(D) |-> CHOOSE x \in D : Rank(D, x) = j - 1]
    BY Zenon DEF Similar!InOrder, Rank, Similar!Cardinality, Cardinality
  <2> QED BY <1>4, <2>1
<1>6. ASSUME NEW x \in D, Rank(D, x) = Rank(D, v) PROVE x = v
  <2> SUFFICES ASSUME x # v PROVE FALSE  OBVIOUS
  <2>1. x \in Seq(Nat) /\ v \in Seq(Nat)  BY DEF IsDictionary
  <2>2. Similar!Below(x, v) \/ Similar!Below(v, x)  BY <2>1, BelowOrders
  <2>3. Rank(D, x) < Rank(D, v) \/ Rank(D, v) < Rank(D, x)  BY <2>2, RankGrows
  <2> QED BY <1>1, <1>6, <2>3
<1>7. (CHOOSE x \in D : Rank(D, x) = i - 1) = v  BY <1>4, <1>6
<1> QED BY <1>3, <1>4, <1>5, <1>7

\* Of some words of a dictionary one is the first.
LEMMA FirstWord ==
    ASSUME NEW D, IsDictionary(D), NEW S \in SUBSET D, S # {}
    PROVE  \E m \in S : \A y \in S : y = m \/ Similar!Below(m, y)
<1> DEFINE R == {Rank(D, x) : x \in S}
<1>1. Cardinality(D) \in Nat  BY RankType
<1>2. R \in SUBSET (0 .. Cardinality(D)) /\ R # {}
  <2>1. ASSUME NEW x \in S PROVE Rank(D, x) \in 0 .. Cardinality(D)
    <3>1. Rank(D, x) \in Nat /\ Rank(D, x) + 1 \in 1 .. Cardinality(D)  BY RankType, SortedAt
    <3> QED BY <1>1, <3>1
  <2> QED BY <2>1
<1>3. PICK r \in R : \A y \in R : r <= y
  <2> HIDE DEF R
  <2> QED BY <1>1, <1>2, LeastPosition
<1>4. PICK m \in S : r = Rank(D, m)  OBVIOUS
<1>5. ASSUME NEW y \in S, y # m, ~Similar!Below(m, y) PROVE FALSE
  <2>1. Similar!Below(y, m)  BY <1>5, BelowOrders DEF IsDictionary
  <2>2. Rank(D, y) < Rank(D, m)  BY <2>1, RankGrows
  <2>3. Rank(D, m) <= Rank(D, y)  BY <1>3, <1>4
  <2>4. Rank(D, m) \in Nat /\ Rank(D, y) \in Nat  BY RankType
  <2> QED BY <2>2, <2>3, <2>4
<1> QED BY <1>5

\* And one the last.
LEMMA LastWord ==
    ASSUME NEW D, IsDictionary(D), NEW S \in SUBSET D, S # {}
    PROVE  \E m \in S : \A y \in S : y = m \/ Similar!Below(y, m)
<1>0. PICK n : n = Cardinality(D)  OBVIOUS
<1> DEFINE R == {n - Rank(D, x) : x \in S}
<1>1. n \in Nat  BY <1>0, RankType
<1>2. R \in SUBSET (0 .. n) /\ R # {}
  <2>1. ASSUME NEW x \in S PROVE n - Rank(D, x) \in 0 .. n
    <3>1. Rank(D, x) \in Nat /\ Rank(D, x) + 1 \in 1 .. n  BY <1>0, RankType, SortedAt
    <3> QED BY <1>1, <3>1
  <2> QED BY <2>1
<1>3. PICK r \in R : \A y \in R : r <= y
  <2> HIDE DEF R
  <2> QED BY <1>1, <1>2, LeastPosition
<1>4. PICK m \in S : r = n - Rank(D, m)  OBVIOUS
<1>5. ASSUME NEW y \in S, y # m, ~Similar!Below(y, m) PROVE FALSE
  <2>1. Similar!Below(m, y)  BY <1>5, BelowOrders DEF IsDictionary
  <2>2. Rank(D, m) < Rank(D, y)  BY <2>1, RankGrows
  <2>3. n - Rank(D, m) <= n - Rank(D, y)  BY <1>3, <1>4
  <2>4. Rank(D, m) \in Nat /\ Rank(D, y) \in Nat  BY RankType
  <2> QED BY <1>1, <2>2, <2>3, <2>4
<1> QED BY <1>5

-----------------------------------------------------------------------------
(* The walk over words alike.                                              *)

\* The walk back from a place over the words alike: back maps each place to where
\* it ends.
WalksBack(back, place, sorted, w) ==
    back = [i \in 1 .. place |->
              IF i > 1 /\ Similar!SameButCase(sorted[i - 1], w) THEN back[i - 1] ELSE i]

\* The recursive function of the walk exists.
LEMMA WalkEnds ==
    ASSUME NEW place \in Nat \ {0}, NEW sorted, NEW w
    PROVE  \E back : WalksBack(back, place, sorted, w)
<1> DEFINE Same(i) == Similar!SameButCase(sorted[i], w)
           T(i) == {j \in 1 .. i : (\A k \in j .. i - 1 : Same(k)) /\ (j = 1 \/ ~Same(j - 1))}
           H == [i \in 1 .. place |-> CHOOSE j : j \in T(i)]
<1>1. ASSUME NEW i \in 1 .. place PROVE H[i] = IF i > 1 /\ Same(i - 1) THEN H[i - 1] ELSE i
  <2> HIDE DEF Same
  <2>1. CASE i > 1 /\ Same(i - 1)
    <3>1. i - 1 \in 1 .. place /\ i \in Int  BY <2>1
    <3>2. ASSUME NEW j PROVE j \in T(i) <=> j \in T(i - 1)
      <4>1. CASE j \in 1 .. i - 1
        <5>1. j .. i - 1 = (j .. (i - 1) - 1) \union {i - 1}  BY <3>1, <4>1
        <5>2. (\A k \in j .. i - 1 : Same(k)) <=> (\A k \in j .. (i - 1) - 1 : Same(k))
          BY <2>1, <5>1
        <5>3. j \in 1 .. i  BY <3>1, <4>1
        <5> QED BY <4>1, <5>2, <5>3
      <4>2. CASE j \notin 1 .. i - 1
        <5>1. j \in 1 .. i => j = i  BY <3>1, <4>2
        <5>2. j = i => j # 1 /\ Same(j - 1)  BY <2>1
        <5> QED BY <4>2, <5>1, <5>2
      <4> QED BY <4>1, <4>2
    <3>3. T(i) = T(i - 1)
      <4>1. \A j : j \in T(i) <=> j \in T(i - 1)  BY <3>2
      <4> HIDE DEF T
      <4> QED BY <4>1
    <3> HIDE DEF T
    <3> QED BY <2>1, <3>1, <3>3
  <2>2. CASE ~(i > 1 /\ Same(i - 1))
    <3>1. ASSUME NEW j PROVE j \in T(i) <=> j = i
      <4>1. i \in T(i)
        <5>1. i .. i - 1 = {}  OBVIOUS
        <5>2. i = 1 \/ ~Same(i - 1)  BY <2>2
        <5> QED BY <5>1, <5>2
      <4>2. ASSUME j \in T(i), j # i PROVE FALSE
        <5>1. j \in 1 .. i /\ j # i /\ \A k \in j .. i - 1 : Same(k)  BY <4>2
        <5>2. i > 1 /\ i - 1 \in j .. i - 1  BY <5>1
        <5> QED BY <2>2, <5>1, <5>2
      <4> QED BY <4>1, <4>2
    <3>2. (CHOOSE j : j \in T(i)) = i
      <4> HIDE DEF T
      <4> QED BY <3>1
    <3> QED BY <2>2, <3>2
  <2> QED BY <2>1, <2>2
<1>2. H = [i \in 1 .. place |-> H[i]]  OBVIOUS
<1> HIDE DEF H
<1>3. H = [i \in 1 .. place |-> IF i > 1 /\ Same(i - 1) THEN H[i - 1] ELSE i]  BY <1>1, <1>2
<1> QED BY <1>3 DEF WalksBack

\* Where the walk from a place ends.
EndsAt(place, last, sorted, w) ==
    /\ last \in 1 .. place
    /\ last = place \/ Similar!SameButCase(sorted[last], w)
    /\ place > 1 /\ Similar!SameButCase(sorted[place - 1], w) => last < place

\* What the walk finds is the word where it ends, if that is alike.
LEMMA WalkIs ==
    ASSUME NEW D, IsDictionary(D), NEW w, NEW sorted, sorted = Similar!InOrder(D)
    PROVE  \E last : /\ EndsAt(Rank(D, w) + 1, last, sorted, w)
                     /\ Similar!Walk(D, w) = IF last <= Cardinality(D) /\ Similar!SameButCase(sorted[last], w)
                                             THEN <<sorted[last]>> ELSE <<>>
<1>1. PICK place : place = Rank(D, w) + 1  OBVIOUS
<1>2. place \in Nat \ {0}
  <2>1. Rank(D, w) \in Nat  BY RankType
  <2> QED BY <1>1, <2>1
<1> DEFINE back == CHOOSE back : WalksBack(back, place, sorted, w)
           Same(i) == Similar!SameButCase(sorted[i], w)
           Fine(i) == back[i] \in 1 .. i /\ (back[i] = i \/ Same(back[i]))
           S == {i \in 0 .. place : i = 0 \/ Fine(i)}
<1>3. WalksBack(back, place, sorted, w)  BY <1>2, WalkEnds
<1>4. PICK n : n = Cardinality(D)  OBVIOUS
<1>5. n \in Nat /\ Len(sorted) = n
  <2>1. n \in Nat  BY <1>4, RankType
  <2>2. sorted = [j \in 1 .. n |-> CHOOSE x \in D : Rank(D, x) = j - 1]
    BY <1>4, Zenon DEF Similar!InOrder, Rank, Similar!Cardinality, Cardinality
  <2>3. PICK X : X = {sorted[j] : j \in 1 .. n}  OBVIOUS
  <2>4. sorted \in [1 .. n -> X]  BY <2>2, <2>3
  <2> QED BY <2>1, <2>4
<1>6. Similar!Walk(D, w) = IF back[place] <= Len(sorted) /\ Same(back[place])
                           THEN <<sorted[back[place]]>> ELSE <<>>
  <2> DEFINE order == Similar!InOrder(D)
             at == Cardinality({v \in D : Similar!Below(v, w)}) + 1
             b == CHOOSE b : b = [i \in 1 .. at |->
                                    IF i > 1 /\ Similar!SameButCase(order[i - 1], w) THEN b[i - 1] ELSE i]
  <2>1. Similar!Walk(D, w) = IF b[at] <= Len(order) /\ Similar!SameButCase(order[b[at]], w)
                             THEN <<order[b[at]]>> ELSE <<>>
    BY Zenon DEF Similar!Walk, Similar!Cardinality, Cardinality
  <2>2. order = sorted /\ at = place  BY <1>1 DEF Rank
  <2>3. b = CHOOSE c : c = [i \in 1 .. place |->
                              IF i > 1 /\ Similar!SameButCase(sorted[i - 1], w) THEN c[i - 1] ELSE i]
    <3> HIDE DEF order, at
    <3> QED BY <2>2
  <2>4. b = back  BY <2>3, Zenon DEF WalksBack
  <2> HIDE DEF order, at, b
  <2> QED BY <2>1, <2>2, <2>4
<1> HIDE DEF back
<1>7. \A i \in 1 .. place : back[i] = IF i > 1 /\ Same(i - 1) THEN back[i - 1] ELSE i
  BY <1>3 DEF WalksBack
<1> HIDE DEF Same
<1>8. ASSUME NEW i \in 1 .. place, i - 1 \in S PROVE i \in S
  <2>1. CASE i > 1 /\ Same(i - 1)
    <3>1. back[i] = back[i - 1] /\ Fine(i - 1)  BY <1>7, <1>8, <2>1
    <3>2. back[i] \in 1 .. i /\ Same(back[i])  BY <2>1, <3>1
    <3> QED BY <1>2, <3>2
  <2>2. CASE ~(i > 1 /\ Same(i - 1))
    <3>1. back[i] = i  BY <1>7, <2>2
    <3> QED BY <1>2, <3>1
  <2> QED BY <2>1, <2>2
<1>9. 0 \in S  BY <1>2
<1>10. \A i \in 0 .. place : i \in S
  <2> HIDE DEF S
  <2> QED BY <1>2, <1>8, <1>9, UptoInduction
<1>11. \A i \in 1 .. place : Fine(i)  BY <1>10
<1>12. Fine(place)  BY <1>2, <1>11
<1>13. ASSUME place > 1, Same(place - 1) PROVE back[place] < place
  <2>1. place \in 1 .. place /\ place - 1 \in 1 .. place  BY <1>2, <1>13
  <2>2. back[place] = back[place - 1]  BY <1>7, <1>13, <2>1
  <2>3. Fine(place - 1)  BY <1>11, <2>1
  <2> QED BY <1>2, <2>2, <2>3
<1>14. EndsAt(place, back[place], sorted, w)  BY <1>12, <1>13 DEF EndsAt, Same
<1> QED BY <1>1, <1>4, <1>5, <1>6, <1>14 DEF Same

\* A word that is the same but for its case is found by the walk, and only such a word.
LEMMA WalkFinds ==
    ASSUME NEW D, IsDictionary(D), NEW w \in Seq(Nat), w \notin D,
           NEW v \in D, Similar!SameButCase(v, w)
    PROVE  Similar!Walk(D, w) # <<>> /\ Similar!SameButCase(Similar!Walk(D, w)[1], w)
<1>0. PICK sorted : sorted = Similar!InOrder(D)  OBVIOUS
<1>1. PICK place : place = Rank(D, w) + 1  OBVIOUS
<1> DEFINE Same(x) == Similar!SameButCase(x, w)
           L == {u \in D : Similar!Below(u, w)}
<1>2. PICK last : /\ EndsAt(place, last, sorted, w)
                  /\ Similar!Walk(D, w) = IF last <= Cardinality(D) /\ Same(sorted[last])
                                          THEN <<sorted[last]>> ELSE <<>>
  BY <1>0, <1>1, WalkIs
<1>3. D \subseteq Seq(Nat) /\ IsFiniteSet(L) /\ Rank(D, w) = Cardinality(L) /\ Rank(D, w) \in Nat
      /\ Cardinality(D) \in Nat
  BY RankType DEF Rank, IsDictionary
<1>4. Rank(D, w) <= Cardinality(D)
  <2>1. L \in SUBSET D  OBVIOUS
  <2> QED BY <1>3, <2>1, FS_Subset DEF IsDictionary
<1>5. CASE Similar!Below(v, w)
  <2>1. L \in SUBSET D /\ v \in L  BY <1>5
  <2>2. PICK m \in L : \A y \in L : y = m \/ Similar!Below(y, m)
    <3> HIDE DEF L
    <3> QED BY <2>1, LastWord
  <2>3. {u \in D : Similar!Below(u, m)} = L \ {m}
    <3>1. ASSUME NEW u \in D, Similar!Below(u, m) PROVE u \in L \ {m}
      <4>1. u \in Seq(Nat) /\ m \in Seq(Nat) /\ Similar!Below(m, w)  BY <1>3
      <4>2. Similar!Below(u, w) /\ u # m  BY <3>1, <4>1, BelowOrders
      <4> QED BY <4>2
    <3>2. ASSUME NEW u \in L, u # m PROVE u \in D /\ Similar!Below(u, m)  BY <2>2, <3>2
    <3> QED BY <3>1, <3>2
  <2>4. Rank(D, m) = Rank(D, w) - 1
    <3>1. Rank(D, m) = Cardinality(L \ {m})  BY <2>3 DEF Rank
    <3> HIDE DEF L
    <3> QED BY <1>3, <3>1, FS_RemoveElement
  <2>5. Rank(D, m) \in Nat /\ m \in D  BY RankType
  <2>6. sorted[place - 1] = m /\ place > 1
    <3>1. Rank(D, m) + 1 = place - 1  BY <1>1, <1>3, <2>4
    <3>2. sorted[Rank(D, m) + 1] = m /\ Rank(D, m) + 1 \in 1 .. Cardinality(D)
      BY <1>0, <2>5, SortedAt
    <3> QED BY <1>1, <1>3, <2>5, <3>1, <3>2
  <2>7. Same(m)
    <3>1. CASE v = m  BY <3>1
    <3>2. CASE v # m
      <4>1. Similar!Below(v, m) /\ Similar!Below(m, w)  BY <2>1, <2>2, <3>2
      <4>2. Similar!Down(v) = Similar!Down(w)  BY DEF Similar!SameButCase
      <4>3. m \in Seq(Nat) /\ v \in Seq(Nat)  BY <1>3, <2>5
      <4>4. Similar!Down(m) = Similar!Down(v)  BY <4>1, <4>2, <4>3, AlikeTogether
      <4> QED BY <4>2, <4>4 DEF Similar!SameButCase
    <3> QED BY <3>1, <3>2
  <2>8. last < place /\ last \in 1 .. place  BY <1>2, <2>6, <2>7 DEF EndsAt
  <2>9. Same(sorted[last])  BY <1>2, <2>8 DEF EndsAt
  <2>10. last <= Cardinality(D)  BY <1>1, <1>3, <1>4, <2>8
  <2> QED BY <1>2, <2>9, <2>10
<1>6. CASE ~Similar!Below(v, w)
  <2> DEFINE G == D \ L
  <2>1. Similar!Below(w, v)  BY <1>3, <1>6, BelowOrders
  <2>2. G \in SUBSET D /\ v \in G  BY <1>6
  <2>3. PICK m \in G : \A y \in G : y = m \/ Similar!Below(m, y)
    <3> HIDE DEF G
    <3> QED BY <2>2, FirstWord
  <2>4. m \in D /\ m \in Seq(Nat) /\ Similar!Below(w, m)
    <3>1. m \in D /\ m \in Seq(Nat) /\ ~Similar!Below(m, w) /\ m # w  BY <1>3
    <3> QED BY <3>1, BelowOrders
  <2>5. {u \in D : Similar!Below(u, m)} = L
    <3>1. ASSUME NEW u \in L PROVE Similar!Below(u, m)
      <4>1. u \in Seq(Nat) /\ Similar!Below(u, w)  BY <1>3
      <4> QED BY <2>4, <4>1, BelowOrders
    <3>2. ASSUME NEW u \in D, Similar!Below(u, m) PROVE u \in L
      <4> SUFFICES ASSUME u \in G PROVE FALSE  OBVIOUS
      <4>1. u = m \/ Similar!Below(m, u)  BY <2>3
      <4>2. u \in Seq(Nat)  BY <1>3
      <4>3. Similar!Below(m, m)  BY <2>4, <3>2, <4>1, <4>2, BelowOrders
      <4> QED BY <2>4, <4>3, BelowOrders
    <3> QED BY <3>1, <3>2
  <2>6. Rank(D, m) = Rank(D, w)  BY <2>5 DEF Rank
  <2>7. sorted[place] = m /\ place <= Cardinality(D)
    <3>1. sorted[Rank(D, m) + 1] = m /\ Rank(D, m) + 1 \in 1 .. Cardinality(D)
      BY <1>0, <2>4, SortedAt
    <3> QED BY <1>1, <1>3, <2>6, <3>1
  <2>8. Same(m)
    <3>1. CASE v = m  BY <3>1
    <3>2. CASE v # m
      <4>1. Similar!Below(w, m) /\ Similar!Below(m, v)  BY <2>2, <2>3, <2>4, <3>2
      <4>2. Similar!Down(w) = Similar!Down(v)  BY DEF Similar!SameButCase
      <4>3. v \in Seq(Nat)  BY <1>3
      <4>4. Similar!Down(m) = Similar!Down(w)  BY <2>4, <4>1, <4>2, <4>3, AlikeTogether
      <4> QED BY <4>4 DEF Similar!SameButCase
    <3> QED BY <3>1, <3>2
  <2>9. Same(sorted[last]) /\ last \in 1 .. place  BY <1>2, <2>7, <2>8 DEF EndsAt
  <2>10. last <= Cardinality(D)  BY <1>1, <1>3, <2>7, <2>9
  <2> QED BY <1>2, <2>9, <2>10
<1> QED BY <1>5, <1>6

\* In a dictionary of one word the walk finds that or none.
LEMMA WalkInOne ==
    ASSUME NEW x \in Seq(Nat), NEW w
    PROVE  Similar!Walk({x}, w) \in {<<>>, <<x>>}
<1>1. IsDictionary({x}) /\ Cardinality({x}) = 1  BY FS_Singleton DEF IsDictionary
<1>2. PICK sorted : sorted = Similar!InOrder({x})  OBVIOUS
<1>3. PICK last : /\ EndsAt(Rank({x}, w) + 1, last, sorted, w)
                  /\ Similar!Walk({x}, w) = IF last <= Cardinality({x}) /\ Similar!SameButCase(sorted[last], w)
                                            THEN <<sorted[last]>> ELSE <<>>
  BY <1>1, <1>2, WalkIs
<1>4. sorted[1] = x
  <2>1. x \in {x}  OBVIOUS
  <2>2. sorted[Rank({x}, x) + 1] = x /\ Rank({x}, x) + 1 \in 1 .. 1  BY <1>1, <1>2, <2>1, SortedAt
  <2> QED BY <2>2
<1>5. last <= 1 => last = 1
  <2>1. Rank({x}, w) \in Nat  BY <1>1, RankType
  <2> QED BY <1>3, <2>1 DEF EndsAt
<1> QED BY <1>1, <1>3, <1>4, <1>5

-----------------------------------------------------------------------------
(* Variants, and which is found first.                                     *)
Has(a, x) == \E i \in DOMAIN a : a[i] = x
Listing(a) == \E S : a \in Seq(S)

\* A list of one variant,
LEMMA ListingOne ==
    ASSUME NEW x
    PROVE  Listing(<<x>>) /\ Has(<<x>>, x) /\ \A y : Has(<<x>>, y) => y = x
<1>1. <<x>> \in Seq({x}) /\ DOMAIN <<x>> = {1} /\ <<x>>[1] = x  OBVIOUS
<1> QED BY <1>1 DEF Listing, Has

\* of none,
LEMMA ListingNone ==
    Listing(<<>>) /\ \A x : ~Has(<<>>, x)
<1>1. <<>> \in Seq({}) /\ DOMAIN <<>> = {}  OBVIOUS
<1> QED BY <1>1 DEF Listing, Has

\* and two lists joined.
LEMMA ListingBoth ==
    ASSUME NEW a, NEW b, Listing(a), Listing(b)
    PROVE  Listing(a \o b) /\ \A x : Has(a \o b, x) <=> Has(a, x) \/ Has(b, x)
<1>1. PICK A : a \in Seq(A)  BY DEF Listing
<1>2. PICK B : b \in Seq(B)  BY DEF Listing
<1>3. PICK C : C = A \union B  OBVIOUS
<1>4. a \in Seq(C) /\ b \in Seq(C)
  <2>1. A \subseteq C /\ B \subseteq C  BY <1>3
  <2> QED BY <1>1, <1>2, <2>1, LettersWiden
<1>5. /\ a \o b \in Seq(C) /\ Len(a \o b) = Len(a) + Len(b)
      /\ \A i \in 1 .. Len(a) + Len(b) : (a \o b)[i] = IF i <= Len(a) THEN a[i] ELSE b[i - Len(a)]
  BY <1>4, ConcatProperties
<1>6. Len(a) \in Nat /\ Len(b) \in Nat /\ DOMAIN a = 1 .. Len(a) /\ DOMAIN b = 1 .. Len(b)
      /\ DOMAIN (a \o b) = 1 .. Len(a) + Len(b)
  BY <1>4, <1>5, LenProperties
<1>7. ASSUME NEW x, Has(a \o b, x) PROVE Has(a, x) \/ Has(b, x)
  <2>1. PICK i \in 1 .. Len(a) + Len(b) : (a \o b)[i] = x  BY <1>6, <1>7 DEF Has
  <2>2. CASE i <= Len(a)
    <3>1. i \in 1 .. Len(a) /\ a[i] = x  BY <1>5, <1>6, <2>1, <2>2
    <3> QED BY <1>6, <3>1 DEF Has
  <2>3. CASE ~(i <= Len(a))
    <3>1. i - Len(a) \in 1 .. Len(b) /\ b[i - Len(a)] = x  BY <1>5, <1>6, <2>1, <2>3
    <3> QED BY <1>6, <3>1 DEF Has
  <2> QED BY <2>2, <2>3
<1>8. ASSUME NEW x, Has(a, x) PROVE Has(a \o b, x)
  <2>1. PICK i \in 1 .. Len(a) : a[i] = x  BY <1>6, <1>8 DEF Has
  <2>2. i \in 1 .. Len(a) + Len(b) /\ i <= Len(a)  BY <1>6
  <2>3. (a \o b)[i] = x  BY <1>5, <2>1, <2>2
  <2> QED BY <1>6, <2>2, <2>3 DEF Has
<1>9. ASSUME NEW x, Has(b, x) PROVE Has(a \o b, x)
  <2>1. PICK i \in 1 .. Len(b) : b[i] = x  BY <1>6, <1>9 DEF Has
  <2>2. i + Len(a) \in 1 .. Len(a) + Len(b) /\ ~(i + Len(a) <= Len(a)) /\ (i + Len(a)) - Len(a) = i
    BY <1>6
  <2>3. (a \o b)[i + Len(a)] = x  BY <1>5, <2>1, <2>2
  <2> QED BY <1>6, <2>2, <2>3 DEF Has
<1>10. Listing(a \o b)  BY <1>5 DEF Listing
<1> QED BY <1>7, <1>8, <1>9, <1>10

\* The variants are tried up to the first that is in the dictionary.
LEMMA TriedIs ==
    ASSUME NEW D, NEW a, Listing(a)
    PROVE  /\ (\A x : Has(a, x) => x \notin D) => Similar!Tried(D, a) = a
           /\ (\E x \in D : Has(a, x)) =>
                \E x \in D : /\ Has(a, x) /\ Similar!Tried(D, a) # <<>>
                             /\ \A y : Similar!LastOr(Similar!Tried(D, a), y) = x
                             /\ Similar!Last(Similar!Tried(D, a)) = x
<1> DEFINE hits == {i \in DOMAIN a : a[i] \in D}
<1>1. PICK S : a \in Seq(S)  BY DEF Listing
<1>2. Len(a) \in Nat /\ DOMAIN a = 1 .. Len(a)  BY <1>1, LenProperties
<1>3. Similar!Tried(D, a) = IF hits = {} THEN a
                            ELSE SubSeq(a, 1, CHOOSE i \in hits : \A j \in hits : i <= j)
  BY DEF Similar!Tried
<1>4. ASSUME \A x : Has(a, x) => x \notin D PROVE Similar!Tried(D, a) = a
  <2>1. hits = {}  BY <1>4 DEF Has
  <2> QED BY <1>3, <2>1
<1>5. ASSUME \E x \in D : Has(a, x)
      PROVE  \E x \in D : /\ Has(a, x) /\ Similar!Tried(D, a) # <<>>
                          /\ \A y : Similar!LastOr(Similar!Tried(D, a), y) = x
                          /\ Similar!Last(Similar!Tried(D, a)) = x
  <2>1. hits # {} /\ hits \in SUBSET (0 .. Len(a))  BY <1>2, <1>5 DEF Has
  <2>2. \E i \in hits : \A j \in hits : i <= j
    <3> HIDE DEF hits
    <3> QED BY <1>2, <2>1, LeastPosition
  <2>3. PICK m : m = CHOOSE i \in hits : \A j \in hits : i <= j  OBVIOUS
  <2>4. m \in hits
    <3> HIDE DEF hits
    <3> QED BY <2>2, <2>3
  <2>5. m \in 1 .. Len(a) /\ a[m] \in D  BY <1>2, <2>4
  <2>6. PICK t : t = SubSeq(a, 1, m)  OBVIOUS
  <2>7. Similar!Tried(D, a) = t
    <3> HIDE DEF hits
    <3> QED BY <1>3, <2>1, <2>3, <2>6
  <2>8. Len(t) = m /\ t[m] = a[m] /\ t # <<>>
    <3>1. m \in Nat /\ 1 <= m /\ m <= Len(a)  BY <1>2, <2>5
    <3>2. t \in Seq(S) /\ Len(t) = m /\ \A i \in 1 .. m : t[i] = a[i]
      BY <1>1, <2>5, <2>6, <3>1
    <3>3. t # <<>>  BY <3>1, <3>2
    <3> QED BY <3>1, <3>2, <3>3
  <2>9. Similar!Last(t) = a[m]  BY <2>8 DEF Similar!Last, Last
  <2>10. \A y : Similar!LastOr(t, y) = a[m]  BY <2>8, <2>9 DEF Similar!LastOr
  <2>11. Has(a, a[m])  BY <2>4 DEF Has
  <2> QED BY <2>5, <2>7, <2>8, <2>9, <2>10, <2>11
<1> QED BY <1>4, <1>5

-----------------------------------------------------------------------------
(* Capitals.                                                               *)

\* The capitals of a word, one by one.
LEMMA UpIs ==
    ASSUME NEW w \in Seq(Nat)
    PROVE  /\ Similar!Up(w) \in Seq(Nat) /\ Len(Similar!Up(w)) = Len(w)
           /\ \A i \in 1 .. Len(w) :
                Similar!Up(w)[i] = IF Similar!IsLower(w[i]) THEN w[i] - 32 ELSE w[i]
<1>1. Len(w) \in Nat /\ DOMAIN w = 1 .. Len(w) /\ \A i \in 1 .. Len(w) : w[i] \in Nat
  BY LenProperties, ElementOfSeq
<1>2. PICK n : n = Len(w)  OBVIOUS
<1>3. Similar!Up(w) = [i \in 1 .. n |-> IF Similar!IsLower(w[i]) THEN w[i] - 32 ELSE w[i]]
  BY <1>1, <1>2 DEF Similar!Up
<1>4. ASSUME NEW i \in 1 .. n PROVE (IF Similar!IsLower(w[i]) THEN w[i] - 32 ELSE w[i]) \in Nat
  <2>1. PICK c : c = w[i]  OBVIOUS
  <2>2. c \in Nat  BY <1>1, <1>2, <2>1
  <2>3. Similar!IsLower(c) => c - 32 \in Nat  BY <2>2 DEF Similar!IsLower
  <2> QED BY <2>1, <2>2, <2>3
<1>5. Similar!Up(w) \in [1 .. n -> Nat]  BY <1>3, <1>4
<1>6. Similar!Up(w) \in Seq(Nat) /\ Len(Similar!Up(w)) = n  BY <1>1, <1>2, <1>5
<1> QED BY <1>2, <1>3, <1>6

\* The first letter a capital, the others small.
LEMMA TitleIs ==
    ASSUME NEW w \in Seq(Nat), w # <<>>
    PROVE  /\ Similar!Title(w) \in Seq(Nat) /\ Len(Similar!Title(w)) = Len(w)
           /\ \A i \in 1 .. Len(w) :
                Similar!Title(w)[i] = IF i = 1
                                      THEN IF Similar!IsLower(w[i]) THEN w[i] - 32 ELSE w[i]
                                      ELSE IF Similar!IsUpper(w[i]) THEN w[i] + 32 ELSE w[i]
<1>1. Len(w) \in Nat \ {0} /\ \A i \in 1 .. Len(w) : w[i] \in Nat
  BY LenProperties, ElementOfSeq, EmptySeq
<1>2. /\ Head(w) = w[1] /\ w[1] \in Nat
      /\ Tail(w) \in Seq(Nat) /\ Len(Tail(w)) = Len(w) - 1
      /\ \A i \in 1 .. Len(w) - 1 : Tail(w)[i] = w[i + 1]
  BY <1>1, HeadTailProperties
<1>3. PICK h : h = Similar!Up(<<Head(w)>>)  OBVIOUS
<1>4. PICK t : t = Similar!Down(Tail(w))  OBVIOUS
<1>5. h \in Seq(Nat) /\ Len(h) = 1 /\ h[1] = IF Similar!IsLower(w[1]) THEN w[1] - 32 ELSE w[1]
  <2>1. PICK s : s = <<Head(w)>>  OBVIOUS
  <2>2. s \in Seq(Nat) /\ Len(s) = 1 /\ s[1] = w[1]  BY <1>2, <2>1
  <2>3. h = Similar!Up(s)  BY <1>3, <2>1
  <2> QED BY <2>2, <2>3, UpIs
<1>6. /\ t \in Seq(Nat) /\ Len(t) = Len(w) - 1
      /\ \A i \in 1 .. Len(w) - 1 :
            t[i] = IF Similar!IsUpper(w[i + 1]) THEN w[i + 1] + 32 ELSE w[i + 1]
  <2>1. PICK s : s = Tail(w)  OBVIOUS
  <2>2. /\ s \in Seq(Nat) /\ Len(s) = Len(w) - 1
        /\ \A i \in 1 .. Len(w) - 1 : s[i] = w[i + 1]
    BY <1>2, <2>1
  <2>3. /\ Similar!Down(s) \in Seq(Nat) /\ Len(Similar!Down(s)) = Len(s)
        /\ \A i \in 1 .. Len(s) :
              Similar!Down(s)[i] = IF Similar!IsUpper(s[i]) THEN s[i] + 32 ELSE s[i]
    BY <2>2, DownIs
  <2> QED BY <1>4, <2>1, <2>2, <2>3
<1>7. Similar!Title(w) = h \o t  BY <1>3, <1>4 DEF Similar!Title
<1>8. /\ h \o t \in Seq(Nat) /\ Len(h \o t) = Len(h) + Len(t)
      /\ \A i \in 1 .. Len(h) + Len(t) : (h \o t)[i] = IF i <= Len(h) THEN h[i] ELSE t[i - Len(h)]
  BY <1>5, <1>6, ConcatProperties
<1>9. Len(h) + Len(t) = Len(w)  BY <1>1, <1>5, <1>6
<1>10. ASSUME NEW i \in 1 .. Len(w)
       PROVE  (h \o t)[i] = IF i = 1
                            THEN IF Similar!IsLower(w[i]) THEN w[i] - 32 ELSE w[i]
                            ELSE IF Similar!IsUpper(w[i]) THEN w[i] + 32 ELSE w[i]
  <2>1. CASE i = 1  BY <1>5, <1>8, <1>9, <2>1
  <2>2. CASE i # 1
    <3>1. ~(i <= Len(h)) /\ i - Len(h) = i - 1 /\ i - 1 \in 1 .. Len(w) - 1 /\ (i - 1) + 1 = i
      BY <1>1, <1>5, <2>2
    <3>2. (h \o t)[i] = t[i - 1]  BY <1>8, <1>9, <3>1
    <3> QED BY <1>6, <2>2, <3>1, <3>2
  <2> QED BY <2>1, <2>2
<1> QED BY <1>7, <1>8, <1>9, <1>10

\* Whatever the case of a word is made, it is the same but for its case.
LEMMA CasesAreAlike ==
    ASSUME NEW w \in Seq(Nat)
    PROVE  \A x \in {Similar!Down(w), Similar!Up(w), Similar!Title(w)} :
              x \in Seq(Nat) /\ Similar!Down(x) = Similar!Down(w)
<1>1. Len(w) \in Nat /\ \A i \in 1 .. Len(w) : w[i] \in Nat  BY LenProperties, ElementOfSeq
<1>2. PICK n : n = Len(w)  OBVIOUS
<1>3. ASSUME NEW x \in Seq(Nat), Len(x) = n,
             \A i \in 1 .. n : x[i] = w[i] \/ (Similar!IsUpper(w[i]) /\ x[i] = w[i] + 32)
                                           \/ (Similar!IsLower(w[i]) /\ x[i] = w[i] - 32)
      PROVE  Similar!Down(x) = Similar!Down(w)
  <2>1. PICK d : d = Similar!Down(w)  OBVIOUS
  <2>2. PICK y : y = Similar!Down(x)  OBVIOUS
  <2>3. d \in Seq(Nat) /\ Len(d) = n
        /\ \A i \in 1 .. n : d[i] = IF Similar!IsUpper(w[i]) THEN w[i] + 32 ELSE w[i]
    BY <1>2, <2>1, DownIs
  <2>4. y \in Seq(Nat) /\ Len(y) = n
        /\ \A i \in 1 .. n : y[i] = IF Similar!IsUpper(x[i]) THEN x[i] + 32 ELSE x[i]
    BY <1>3, <2>2, DownIs
  <2>5. ASSUME NEW i \in 1 .. n PROVE d[i] = y[i]
    <3>1. w[i] \in Nat  BY <1>1, <1>2
    <3>2. x[i] = w[i] \/ (Similar!IsUpper(w[i]) /\ x[i] = w[i] + 32)
                      \/ (Similar!IsLower(w[i]) /\ x[i] = w[i] - 32)
      BY <1>3
    <3>3. (IF Similar!IsUpper(w[i]) THEN w[i] + 32 ELSE w[i])
          = IF Similar!IsUpper(x[i]) THEN x[i] + 32 ELSE x[i]
      <4>1. PICK a : a = w[i]  OBVIOUS
      <4>2. PICK b : b = x[i]  OBVIOUS
      <4>3. (IF Similar!IsUpper(a) THEN a + 32 ELSE a) = IF Similar!IsUpper(b) THEN b + 32 ELSE b
        <5>1. a \in Nat /\ (b = a \/ (a \in 65 .. 90 /\ b = a + 32) \/ (a \in 97 .. 122 /\ b = a - 32))
          BY <3>1, <3>2, <4>1, <4>2 DEF Similar!IsUpper, Similar!IsLower
        <5>2. b = a \/ (a \in 65 .. 90 /\ b \notin 65 .. 90 /\ b = a + 32)
                    \/ (a \notin 65 .. 90 /\ b \in 65 .. 90 /\ b + 32 = a)
          <6>1. CASE b = a  BY <6>1
          <6>2. CASE a \in 65 .. 90 /\ b = a + 32  BY <6>2
          <6>3. CASE a \in 97 .. 122 /\ b = a - 32  BY <6>3
          <6> QED BY <5>1, <6>1, <6>2, <6>3
        <5> QED BY <5>2 DEF Similar!IsUpper
      <4> QED BY <4>1, <4>2, <4>3
    <3> QED BY <2>3, <2>4, <3>3
  <2> QED BY <2>1, <2>2, <2>3, <2>4, <2>5, SeqEqual
<1>4. Similar!Down(w) \in Seq(Nat) /\ Similar!Down(Similar!Down(w)) = Similar!Down(w)
  BY <1>2, <1>3, DownIs
<1>5. Similar!Up(w) \in Seq(Nat) /\ Similar!Down(Similar!Up(w)) = Similar!Down(w)
  BY <1>2, <1>3, UpIs
<1>6. Similar!Title(w) \in Seq(Nat) /\ Similar!Down(Similar!Title(w)) = Similar!Down(w)
  <2>1. CASE w = <<>>  BY <2>1 DEF Similar!Title
  <2>2. CASE w # <<>>
    <3>1. Similar!Title(w) \in Seq(Nat) /\ Len(Similar!Title(w)) = n  BY <1>2, <2>2, TitleIs
    <3>2. \A i \in 1 .. n :
            \/ Similar!Title(w)[i] = w[i]
            \/ Similar!IsUpper(w[i]) /\ Similar!Title(w)[i] = w[i] + 32
            \/ Similar!IsLower(w[i]) /\ Similar!Title(w)[i] = w[i] - 32
      BY <1>2, <2>2, TitleIs
    <3> QED BY <1>3, <3>1, <3>2
  <2> QED BY <2>1, <2>2
<1> QED BY <1>4, <1>5, <1>6

\* The variants of case are forms of the word itself.
LEMMA CaseVariantsAre ==
    ASSUME NEW w
    PROVE  /\ Listing(Similar!CaseVariants(w))
           /\ \A x : Has(Similar!CaseVariants(w), x) =>
                        x \in {Similar!Down(w), Similar!Up(w), Similar!Title(w)}
<1> DEFINE IfOther(v) == IF v # w THEN <<v>> ELSE <<>>
<1>1. ASSUME NEW v PROVE Listing(IfOther(v)) /\ \A x : Has(IfOther(v), x) => x = v
  BY ListingOne, ListingNone
<1>2. Similar!CaseVariants(w) =
        IfOther(Similar!Down(w)) \o IfOther(Similar!Up(w)) \o IfOther(Similar!Title(w))
  BY DEF Similar!CaseVariants
<1> HIDE DEF IfOther
<1>3. PICK a : a = IfOther(Similar!Down(w))  OBVIOUS
<1>4. PICK b : b = IfOther(Similar!Up(w))  OBVIOUS
<1>5. PICK c : c = IfOther(Similar!Title(w))  OBVIOUS
<1>6. Listing(a \o b) /\ \A x : Has(a \o b, x) <=> Has(a, x) \/ Has(b, x)
  BY <1>1, <1>3, <1>4, ListingBoth
<1>7. Listing((a \o b) \o c) /\ \A x : Has((a \o b) \o c, x) <=> Has(a \o b, x) \/ Has(c, x)
  BY <1>1, <1>5, <1>6, ListingBoth
<1>8. Similar!CaseVariants(w) = (a \o b) \o c  BY <1>2, <1>3, <1>4, <1>5
<1> QED BY <1>1, <1>3, <1>4, <1>5, <1>6, <1>7, <1>8

\* What is found for a word, if a word that is the same but for its case is there.
LEMMA AlikeIsFound ==
    ASSUME NEW D, IsDictionary(D), NEW w \in Seq(Nat), w # <<>>,
           NEW v \in D, Similar!SameButCase(v, w)
    PROVE  /\ Similar!SimpleLookupWord(D, w).found # <<>>
           /\ Similar!SameButCase(Similar!SimpleLookupWord(D, w).found, w)
           /\ Similar!SimpleLookupSynonymWord(D, w).found = Similar!SimpleLookupWord(D, w).found
<1>1. PICK f : f = Similar!SimpleLookupWord(D, w).found  OBVIOUS
<1>2. PICK g : g = Similar!SimpleLookupSynonymWord(D, w).found  OBVIOUS
<1>3. Similar!SameButCase(f, w) /\ g = f /\ f # <<>>
  <2>1. CASE w \in D
    <3>1. f = w  BY <1>1, <2>1 DEF Similar!SimpleLookupWord
    <3>2. g = w  BY <1>2, <2>1 DEF Similar!SimpleLookupSynonymWord
    <3> QED BY <3>1, <3>2 DEF Similar!SameButCase
  <2>2. CASE w \notin D
    <3>1. PICK cases : cases = Similar!Tried(D, Similar!CaseVariants(w))  OBVIOUS
    <3>2. PICK walked : walked = Similar!Walk(D, w)  OBVIOUS
    <3>3. walked # <<>> /\ Similar!SameButCase(walked[1], w)  BY <2>2, <3>2, WalkFinds
    <3>4. f = Similar!LookupSimilarWord(D, w).found
      BY <1>1, <2>2 DEF Similar!SimpleLookupWord
    <3>5. g = Similar!LookupSynonymSimilarWord(D, w).found
      BY <1>2, <2>2 DEF Similar!SimpleLookupSynonymWord
    <3>6. CASE Similar!LastOr(cases, w) \in D
      <4>1. f = Similar!Last(cases)  BY <3>1, <3>4, <3>6 DEF Similar!LookupSimilarWord
      <4>2. g = Similar!Last(cases)  BY <3>1, <3>5, <3>6 DEF Similar!LookupSynonymSimilarWord
      <4>3. \E x \in D : Has(Similar!CaseVariants(w), x) /\ Similar!Last(cases) = x
        <5>1. PICK a : a = Similar!CaseVariants(w)  OBVIOUS
        <5>2. Listing(a)  BY <5>1, CaseVariantsAre
        <5>3. CASE \E x \in D : Has(a, x)  BY <3>1, <5>1, <5>2, <5>3, TriedIs
        <5>4. CASE ~\E x \in D : Has(a, x)
          <6>1. cases = a  BY <3>1, <5>1, <5>2, <5>4, TriedIs
          <6>2. a # <<>>  BY <2>2, <3>6, <6>1 DEF Similar!LastOr
          <6>3. PICK S : a \in Seq(S)  BY <5>2 DEF Listing
          <6>4. Len(a) \in DOMAIN a  BY <6>2, <6>3, EmptySeq, LenProperties
          <6>5. Has(a, Similar!LastOr(a, w))
            BY <6>2, <6>4 DEF Has, Similar!LastOr, Similar!Last, Last
          <6> QED BY <3>6, <5>4, <6>1, <6>5
        <5> QED BY <5>3, <5>4
      <4>4. f \in {Similar!Down(w), Similar!Up(w), Similar!Title(w)}
        BY <4>1, <4>3, CaseVariantsAre
      <4>5. f \in Seq(Nat) /\ Similar!Down(f) = Similar!Down(w)  BY <4>4, CasesAreAlike
      <4>6. Len(f) = Len(w)  BY <4>5, DownIs
      <4>7. f # <<>>  BY <4>6, EmptySeq
      <4> QED BY <4>1, <4>2, <4>5, <4>7 DEF Similar!SameButCase
    <3>7. CASE Similar!LastOr(cases, w) \notin D
      <4>1. f = walked[1]  BY <3>1, <3>2, <3>3, <3>4, <3>7 DEF Similar!LookupSimilarWord
      <4>2. g = walked[1]  BY <3>1, <3>2, <3>3, <3>5, <3>7 DEF Similar!LookupSynonymSimilarWord
      <4>3. walked[1] # <<>>
        <5> SUFFICES ASSUME walked[1] = <<>> PROVE FALSE  OBVIOUS
        <5>1. Similar!Down(walked[1]) = Similar!Down(w)  BY <3>3 DEF Similar!SameButCase
        <5>2. Len(Similar!Down(walked[1])) = 0
          <6>1. <<>> \in Seq(Nat) /\ Len(<<>>) = 0  OBVIOUS
          <6>2. Len(Similar!Down(<<>>)) = 0  BY <6>1, DownIs
          <6> QED BY <6>2
        <5>3. Len(Similar!Down(w)) = Len(w) /\ Len(w) # 0  BY DownIs, EmptySeq
        <5> QED BY <5>1, <5>2, <5>3
      <4> QED BY <3>3, <4>1, <4>2, <4>3
    <3> QED BY <3>6, <3>7
  <2> QED BY <2>1, <2>2
<1> QED BY <1>1, <1>2, <1>3

-----------------------------------------------------------------------------
(* The forms of English words.                                             *)
Cases == {"small", "capitals", "capitalised"}
Small == Seq(97 .. 122)

\* A word of small letters in one of the cases, and its ending.
InCase(k, v) ==
    [i \in 1 .. Len(v) |-> IF k = "capitals" \/ (k = "capitalised" /\ i = 1) THEN v[i] - 32 ELSE v[i]]
EndingIn(k, e) == IF k = "capitals" THEN Similar!Up(e) ELSE e

\* English words in small letters are words,
LEMMA SmallIs ==
    ASSUME NEW v \in Small
    PROVE  /\ Len(v) \in Nat /\ v \in Seq(Nat) /\ DOMAIN v = 1 .. Len(v)
           /\ \A i \in 1 .. Len(v) : v[i] \in 97 .. 122
<1>1. v \in Seq(97 .. 122)  BY DEF Small
<1>2. 97 .. 122 \subseteq Nat  OBVIOUS
<1>3. v \in Seq(Nat)  BY <1>1, <1>2, LettersWiden
<1> QED BY <1>1, <1>3, LenProperties, ElementOfSeq

\* whose letters have a capital.
LEMMA SmallLetter ==
    ASSUME NEW c \in 97 .. 122
    PROVE  /\ c \in Nat /\ c \in 65 .. 122 /\ c - 32 \in Nat /\ c - 32 \in 65 .. 122 /\ (c - 32) + 32 = c
           /\ Similar!IsLower(c) /\ ~Similar!IsUpper(c)
           /\ Similar!IsUpper(c - 32)
<1>1. c \in Int /\ 97 <= c /\ c <= 122  OBVIOUS
<1>2. c \notin 65 .. 90  BY <1>1
<1>3. c - 32 \in Int /\ 65 <= c - 32 /\ c - 32 <= 90 /\ (c - 32) + 32 = c  BY <1>1
<1>4. c - 32 \in 65 .. 90 /\ c - 32 \in 65 .. 122 /\ c \in 65 .. 122  BY <1>1, <1>3
<1> QED BY <1>1, <1>2, <1>3, <1>4 DEF Similar!IsLower, Similar!IsUpper

\* A word in a case, letter by letter,
LEMMA InCaseIs ==
    ASSUME NEW k, NEW v \in Small
    PROVE  /\ InCase(k, v) \in Seq(Nat) /\ Len(InCase(k, v)) = Len(v)
           /\ \A i \in 1 .. Len(v) :
                /\ InCase(k, v)[i] = IF k = "capitals" \/ (k = "capitalised" /\ i = 1)
                                     THEN v[i] - 32 ELSE v[i]
                /\ InCase(k, v)[i] \in 65 .. 122
<1>1. PICK n : n = Len(v)  OBVIOUS
<1>2. n \in Nat /\ \A i \in 1 .. n : v[i] \in 97 .. 122  BY <1>1, SmallIs
<1>3. InCase(k, v) = [i \in 1 .. n |-> IF k = "capitals" \/ (k = "capitalised" /\ i = 1)
                                       THEN v[i] - 32 ELSE v[i]]
  BY <1>1 DEF InCase
<1>4. ASSUME NEW i \in 1 .. n
      PROVE  (IF k = "capitals" \/ (k = "capitalised" /\ i = 1) THEN v[i] - 32 ELSE v[i]) \in 65 .. 122
  <2>1. PICK c : c = v[i]  OBVIOUS
  <2>2. c \in 65 .. 122 /\ c - 32 \in 65 .. 122  BY <1>2, <2>1, SmallLetter
  <2> QED BY <2>1, <2>2
<1>5. InCase(k, v) \in [1 .. n -> 65 .. 122]  BY <1>3, <1>4
<1>6. InCase(k, v) \in [1 .. n -> Nat]
  <2>1. \A c \in 65 .. 122 : c \in Nat  OBVIOUS
  <2> QED BY <1>5, <2>1
<1>7. InCase(k, v) \in Seq(Nat) /\ Len(InCase(k, v)) = n  BY <1>2, <1>6
<1> QED BY <1>1, <1>3, <1>5, <1>7

\* has the small letters of the word,
LEMMA InCaseDown ==
    ASSUME NEW k, NEW v \in Small
    PROVE  Similar!Down(InCase(k, v)) = v
<1>1. PICK x : x = InCase(k, v)  OBVIOUS
<1>2. PICK d : d = Similar!Down(x)  OBVIOUS
<1>3. x \in Seq(Nat) /\ Len(x) = Len(v)
      /\ \A i \in 1 .. Len(v) : x[i] = IF k = "capitals" \/ (k = "capitalised" /\ i = 1)
                                       THEN v[i] - 32 ELSE v[i]
  BY <1>1, InCaseIs
<1>4. d \in Seq(Nat) /\ Len(d) = Len(v)
      /\ \A i \in 1 .. Len(v) : d[i] = IF Similar!IsUpper(x[i]) THEN x[i] + 32 ELSE x[i]
  BY <1>2, <1>3, DownIs
<1>5. v \in Seq(Nat) /\ \A i \in 1 .. Len(v) : v[i] \in 97 .. 122  BY SmallIs
<1>6. ASSUME NEW i \in 1 .. Len(v) PROVE d[i] = v[i]
  <2>1. PICK c : c = v[i]  OBVIOUS
  <2>2. (c - 32) + 32 = c /\ ~Similar!IsUpper(c) /\ Similar!IsUpper(c - 32)
    BY <1>5, <2>1, SmallLetter
  <2>3. x[i] = c \/ x[i] = c - 32  BY <1>3, <2>1
  <2>4. d[i] = c  BY <1>4, <2>2, <2>3
  <2> QED BY <2>1, <2>4
<1> QED BY <1>1, <1>2, <1>4, <1>5, <1>6, SeqEqual

\* and begins with a capital if it has any.
LEMMA InCaseFirst ==
    ASSUME NEW k \in Cases, k # "small", NEW v \in Small, v # <<>>
    PROVE  Similar!IsUpper(InCase(k, v)[1])
<1>1. 1 \in 1 .. Len(v)
  <2>1. Len(v) \in Nat /\ Len(v) # 0  BY SmallIs, EmptySeq DEF Small
  <2> QED BY <2>1
<1>2. PICK c : c = v[1]  OBVIOUS
<1>3. Similar!IsUpper(c - 32)  BY <1>1, <1>2, SmallIs, SmallLetter
<1>4. InCase(k, v)[1] = c - 32  BY <1>1, <1>2, InCaseIs DEF Cases
<1> QED BY <1>3, <1>4

\* The cases are those of the forms.
LEMMA CasesAre ==
    ASSUME NEW v \in Small
    PROVE  /\ InCase("small", v) = v
           /\ InCase("capitals", v) = Similar!Up(v)
           /\ v # <<>> => InCase("capitalised", v) = Similar!Title(v)
<1>1. v \in Seq(Nat) /\ \A i \in 1 .. Len(v) : v[i] \in 97 .. 122  BY SmallIs
<1>2. ASSUME NEW i \in 1 .. Len(v) PROVE Similar!IsLower(v[i]) /\ ~Similar!IsUpper(v[i])
  BY <1>1, SmallLetter
<1>3. InCase("small", v) = v
  <2>1. PICK x : x = InCase("small", v)  OBVIOUS
  <2>2. x \in Seq(Nat) /\ Len(x) = Len(v) /\ \A i \in 1 .. Len(v) : x[i] = v[i]  BY <2>1, InCaseIs
  <2> QED BY <1>1, <2>1, <2>2, SeqEqual
<1>4. InCase("capitals", v) = Similar!Up(v)
  <2>1. PICK x : x = InCase("capitals", v)  OBVIOUS
  <2>2. PICK y : y = Similar!Up(v)  OBVIOUS
  <2>3. x \in Seq(Nat) /\ Len(x) = Len(v) /\ \A i \in 1 .. Len(v) : x[i] = v[i] - 32
    BY <2>1, InCaseIs
  <2>4. y \in Seq(Nat) /\ Len(y) = Len(v) /\ \A i \in 1 .. Len(v) : y[i] = v[i] - 32
    BY <1>1, <1>2, <2>2, UpIs
  <2>5. \A i \in 1 .. Len(x) : x[i] = y[i]  BY <2>3, <2>4
  <2>6. x = y  BY <2>3, <2>4, <2>5, SeqEqual
  <2> QED BY <2>1, <2>2, <2>6
<1>5. ASSUME v # <<>> PROVE InCase("capitalised", v) = Similar!Title(v)
  <2>1. PICK x : x = InCase("capitalised", v)  OBVIOUS
  <2>2. PICK y : y = Similar!Title(v)  OBVIOUS
  <2>3. x \in Seq(Nat) /\ Len(x) = Len(v)
        /\ \A i \in 1 .. Len(v) : x[i] = IF i = 1 THEN v[i] - 32 ELSE v[i]
    BY <2>1, InCaseIs
  <2>4. y \in Seq(Nat) /\ Len(y) = Len(v)
        /\ \A i \in 1 .. Len(v) : y[i] = IF i = 1 THEN v[i] - 32 ELSE v[i]
    BY <1>1, <1>2, <1>5, <2>2, TitleIs
  <2>5. \A i \in 1 .. Len(x) : x[i] = y[i]  BY <2>3, <2>4
  <2>6. x = y  BY <2>3, <2>4, <2>5, SeqEqual
  <2> QED BY <2>1, <2>2, <2>6
<1> QED BY <1>3, <1>4, <1>5

\* A word and its ending.
LEMMA JoinIs ==
    ASSUME NEW a \in Seq(Nat), NEW b \in Seq(Nat)
    PROVE  /\ a \o b \in Seq(Nat) /\ Len(a \o b) = Len(a) + Len(b)
           /\ Len(a) \in Nat /\ Len(b) \in Nat
           /\ \A i \in 1 .. Len(a) + Len(b) : (a \o b)[i] = IF i <= Len(a) THEN a[i] ELSE b[i - Len(a)]
           /\ \A i \in 1 .. Len(a) : (a \o b)[i] = a[i]
           /\ \A i \in 1 .. Len(b) : (a \o b)[Len(a) + i] = b[i]
<1>1. Len(a) \in Nat /\ Len(b) \in Nat  BY LenProperties
<1>2. /\ a \o b \in Seq(Nat) /\ Len(a \o b) = Len(a) + Len(b)
      /\ \A i \in 1 .. Len(a) + Len(b) : (a \o b)[i] = IF i <= Len(a) THEN a[i] ELSE b[i - Len(a)]
  BY ConcatProperties
<1>3. \A i \in 1 .. Len(a) : (a \o b)[i] = a[i]  BY <1>1, <1>2
<1>4. ASSUME NEW i \in 1 .. Len(b) PROVE (a \o b)[Len(a) + i] = b[i]
  <2>1. Len(a) + i \in 1 .. Len(a) + Len(b) /\ ~(Len(a) + i <= Len(a)) /\ (Len(a) + i) - Len(a) = i
    BY <1>1
  <2> QED BY <1>2, <2>1
<1> QED BY <1>1, <1>2, <1>3, <1>4

\* An ending is cut off what it was added to.
LEMMA CutIs ==
    ASSUME NEW a \in Seq(Nat), NEW b \in Seq(Nat), NEW n, n = Len(b)
    PROVE  Similar!Cut(a \o b, n) = a /\ Similar!Ends(a \o b, b)
<1>1. PICK c : c = a \o b  OBVIOUS
<1>2. PICK m : m = Len(a)  OBVIOUS
<1>3. m \in Nat /\ n \in Nat /\ c \in Seq(Nat) /\ Len(c) = m + n
      /\ (\A i \in 1 .. m : c[i] = a[i]) /\ (\A i \in 1 .. n : c[m + i] = b[i])
  BY <1>1, <1>2, JoinIs
<1>4. Similar!Cut(c, n) = a
  <2>1. Similar!Cut(c, n) = SubSeq(c, 1, m)
    <3>1. Len(c) - n = m  BY <1>3
    <3> QED BY <3>1 DEF Similar!Cut
  <2>2. SubSeq(c, 1, m) \in Seq(Nat) /\ Len(SubSeq(c, 1, m)) = m
        /\ \A i \in 1 .. m : SubSeq(c, 1, m)[i] = c[i]
    BY <1>3, SubSeqProperties
  <2> QED BY <1>2, <1>3, <2>1, <2>2, SeqEqual
<1>5. Similar!Ends(c, b)
  <2> DEFINE rb == [i \in 1 .. n |-> b[(n - i) + 1]]
             rc == [i \in 1 .. m + n |-> c[((m + n) - i) + 1]]
  <2>1. Similar!Reverse(b) = rb /\ Similar!Reverse(c) = rc
    BY <1>3 DEF Similar!Reverse, Reverse
  <2>2. ASSUME NEW i \in 1 .. n PROVE rb[i] = rc[i] /\ rb[i] \in Nat
    <3>1. (n - i) + 1 \in 1 .. n /\ ((m + n) - i) + 1 = m + ((n - i) + 1) /\ i \in 1 .. m + n
      BY <1>3
    <3>2. b[(n - i) + 1] \in Nat  BY <3>1, ElementOfSeq
    <3> QED BY <1>3, <3>1, <3>2
  <2>3. ASSUME NEW i \in 1 .. m + n PROVE rc[i] \in Nat
    <3>1. ((m + n) - i) + 1 \in 1 .. m + n  BY <1>3
    <3>2. c[((m + n) - i) + 1] \in Nat  BY <1>3, <3>1, ElementOfSeq
    <3> QED BY <3>2
  <2>4. rb \in [1 .. n -> Nat] /\ rc \in [1 .. m + n -> Nat]  BY <2>2, <2>3
  <2>5. rb \in Seq(Nat) /\ Len(rb) = n /\ rc \in Seq(Nat) /\ Len(rc) = m + n
    <3>1. n \in Nat /\ m + n \in Nat  BY <1>3
    <3>2. rb \in [1 .. n -> Nat]  BY <2>4
    <3>3. rc \in [1 .. m + n -> Nat]  BY <2>4
    <3>4. PICK mn \in Nat : mn = m + n  BY <3>1
    <3> HIDE DEF rb, rc
    <3>5. rb \in Seq(Nat) /\ Len(rb) = n  BY <3>1, <3>2
    <3>6. rc \in [1 .. mn -> Nat]  BY <3>3, <3>4
    <3>7. rc \in Seq(Nat) /\ Len(rc) = mn  BY <3>6
    <3> QED BY <3>4, <3>5, <3>7
  <2>6. SubSeq(rb, 1, n) = SubSeq(rc, 1, n)
    <3> HIDE DEF rb, rc
    <3>1. n <= Len(rb) /\ n <= Len(rc) /\ \A i \in 1 .. n : rb[i] = rc[i]  BY <1>3, <2>2, <2>5
    <3> QED BY <1>3, <2>5, <3>1, PrefixesAgree
  <2> HIDE DEF rb, rc
  <2>7. Similar!IsPrefix(rb, rc)
    BY <1>3, <2>5, <2>6 DEF Similar!IsPrefix, IsPrefix
  <2> QED BY <2>1, <2>7 DEF Similar!Ends, Similar!IsSuffix, IsSuffix
<1> QED BY <1>1, <1>4, <1>5

\* Two such words joined are one.
LEMMA SmallJoin ==
    ASSUME NEW s \in Small, NEW e \in Small
    PROVE  s \o e \in Small /\ Len(s \o e) = Len(s) + Len(e)
BY ConcatProperties DEF Small

\* A form of a word with an ending is the form of the word with the ending in its case.
LEMMA InCaseSplits ==
    ASSUME NEW k, NEW s \in Small, s # <<>>, NEW e \in Small
    PROVE  /\ InCase(k, s \o e) = InCase(k, s) \o EndingIn(k, e)
           /\ EndingIn(k, e) \in Seq(Nat) /\ Len(EndingIn(k, e)) = Len(e)
<1>1. PICK w : w = s \o e  OBVIOUS
<1>2. PICK m : m = Len(s)  OBVIOUS
<1>3. PICK n : n = Len(e)  OBVIOUS
<1>4. m \in Nat /\ n \in Nat /\ m # 0
      /\ (\A i \in 1 .. m : s[i] \in 97 .. 122) /\ (\A i \in 1 .. n : e[i] \in 97 .. 122)
  BY <1>2, <1>3, SmallIs, EmptySeq
<1>5. w \in Small /\ Len(w) = m + n
      /\ \A i \in 1 .. m + n : w[i] = IF i <= m THEN s[i] ELSE e[i - m]
  BY <1>1, <1>2, <1>3, SmallJoin, SmallIs, JoinIs
<1>6. PICK f : f = InCase(k, w)  OBVIOUS
<1>7. PICK a : a = InCase(k, s)  OBVIOUS
<1>8. PICK b : b = EndingIn(k, e)  OBVIOUS
<1>9. b \in Seq(Nat) /\ Len(b) = n
      /\ \A i \in 1 .. n : b[i] = IF k = "capitals" THEN e[i] - 32 ELSE e[i]
  <2>1. CASE k = "capitals"
    <3>1. b = InCase(k, e)  BY <1>8, <2>1, CasesAre DEF EndingIn
    <3> QED BY <1>3, <2>1, <3>1, InCaseIs
  <2>2. CASE k # "capitals"  BY <1>3, <1>8, <2>2, SmallIs DEF EndingIn
  <2> QED BY <2>1, <2>2
<1>10. a \in Seq(Nat) /\ Len(a) = m
       /\ \A i \in 1 .. m : a[i] = IF k = "capitals" \/ (k = "capitalised" /\ i = 1)
                                   THEN s[i] - 32 ELSE s[i]
  BY <1>2, <1>7, InCaseIs
<1>11. f \in Seq(Nat) /\ Len(f) = m + n
       /\ \A i \in 1 .. m + n : f[i] = IF k = "capitals" \/ (k = "capitalised" /\ i = 1)
                                       THEN w[i] - 32 ELSE w[i]
  BY <1>5, <1>6, InCaseIs
<1>12. a \o b \in Seq(Nat) /\ Len(a \o b) = m + n
       /\ \A i \in 1 .. m + n : (a \o b)[i] = IF i <= m THEN a[i] ELSE b[i - m]
  BY <1>9, <1>10, JoinIs
<1>13. ASSUME NEW i \in 1 .. m + n PROVE f[i] = (a \o b)[i]
  <2>1. CASE i <= m
    <3>1. i \in 1 .. m  BY <1>4, <2>1
    <3>2. w[i] = s[i] /\ (a \o b)[i] = a[i]  BY <1>5, <1>12, <2>1
    <3> QED BY <1>10, <1>11, <3>1, <3>2
  <2>2. CASE ~(i <= m)
    <3>1. i - m \in 1 .. n /\ i # 1  BY <1>4, <2>2
    <3>2. w[i] = e[i - m] /\ (a \o b)[i] = b[i - m]  BY <1>5, <1>12, <2>2
    <3> QED BY <1>9, <1>11, <3>1, <3>2
  <2> QED BY <2>1, <2>2
<1>14. f = a \o b
  <2>1. PICK c : c = a \o b  OBVIOUS
  <2>2. c \in Seq(Nat) /\ Len(c) = Len(f) /\ \A i \in 1 .. Len(f) : f[i] = c[i]
    BY <1>11, <1>12, <1>13, <2>1
  <2> QED BY <1>11, <2>1, <2>2, SeqEqual
<1> QED BY <1>1, <1>3, <1>6, <1>7, <1>8, <1>9, <1>14

\* A form of a word with an ending has the ending, in small letters or in capitals.
LEMMA FormEnds ==
    ASSUME NEW k \in Cases, NEW s \in Small, s # <<>>, NEW e \in Small,
           NEW f, f = InCase(k, s \o e)
    PROVE  /\ f \in Seq(Nat) /\ Len(f) = Len(s) + Len(e)
           /\ Similar!Cut(f, Len(e)) = InCase(k, s)
           /\ Similar!Ends(f, EndingIn(k, e))
           /\ \A more : Len(s) + Len(e) > more => Similar!HasEnding(f, e, more)
           /\ k # "small" => Similar!IsUpper(f[1])
           /\ Similar!bIsPureEnglish(f)
<1>1. PICK w : w = s \o e  OBVIOUS
<1>2. w \in Small /\ Len(w) = Len(s) + Len(e) /\ f = InCase(k, w)  BY <1>1, SmallJoin
<1>3. f \in Seq(Nat) /\ Len(f) = Len(w) /\ \A i \in 1 .. Len(w) : f[i] \in 65 .. 122
  <2>1. f = InCase(k, w) /\ w \in Small  BY <1>2
  <2>2. InCase(k, w) \in Seq(Nat) /\ Len(InCase(k, w)) = Len(w)  BY <2>1, InCaseIs
  <2>3. \A i \in 1 .. Len(w) : InCase(k, w)[i] \in 65 .. 122  BY <2>1, InCaseIs
  <2> QED BY <2>1, <2>2, <2>3
<1>4. PICK a : a = InCase(k, s)  OBVIOUS
<1>5. PICK b : b = EndingIn(k, e)  OBVIOUS
<1>6. f = a \o b /\ b \in Seq(Nat) /\ Len(b) = Len(e) /\ a \in Seq(Nat)
  BY <1>4, <1>5, InCaseSplits, InCaseIs
<1>7. Similar!Cut(f, Len(e)) = a /\ Similar!Ends(f, b)  BY <1>6, CutIs
<1>8. ASSUME NEW more, Len(s) + Len(e) > more PROVE Similar!HasEnding(f, e, more)
  <2>1. Len(f) > more  BY <1>2, <1>3, <1>8
  <2>2. Similar!Ends(f, e) \/ Similar!Ends(f, Similar!Up(e))  BY <1>5, <1>7 DEF EndingIn
  <2> QED BY <2>1, <2>2 DEF Similar!HasEnding
<1>9. ASSUME k # "small" PROVE Similar!IsUpper(f[1])
  <2>1. w # <<>>
    <3>1. Len(s) \in Nat /\ Len(e) \in Nat /\ Len(s) # 0  BY SmallIs, EmptySeq
    <3>2. Len(w) # 0  BY <1>2, <3>1
    <3>3. Len(<<>>) = 0  OBVIOUS
    <3> QED BY <3>2, <3>3
  <2> QED BY <1>2, <1>9, <2>1, InCaseFirst
<1>10. Similar!bIsPureEnglish(f)
  <2>1. DOMAIN f = 1 .. Len(w)  BY <1>3, LenProperties
  <2>2. \A c \in 65 .. 122 : c < 128  OBVIOUS
  <2> QED BY <1>3, <2>1, <2>2 DEF Similar!bIsPureEnglish
<1> QED BY <1>2, <1>3, <1>4, <1>5, <1>7, <1>8, <1>9, <1>10

-----------------------------------------------------------------------------
(* Stems.                                                                  *)

\* What the stems are: all are lists, and a stem is one of its variants, in small
\* letters too if the word is not.
LEMMA StemVariantsAre ==
    ASSUME NEW stem, NEW w, NEW up
    PROVE  /\ Listing(Similar!StemVariants(stem, w, up))
           /\ Has(Similar!StemVariants(stem, w, up), stem)
           /\ up \/ Similar!IsUpper(w[1]) => Has(Similar!StemVariants(stem, w, up), Similar!Down(stem))
<1>1. PICK d : d = Similar!Down(stem)  OBVIOUS
<1>2. PICK a : a = <<stem>>  OBVIOUS
<1>3. PICK b : b = IF (up \/ Similar!IsUpper(w[1])) /\ d # stem THEN <<d>> ELSE <<>>  OBVIOUS
<1>4. Similar!StemVariants(stem, w, up) = a \o b
  BY <1>1, <1>2, <1>3, Zenon DEF Similar!StemVariants
<1>5. Listing(a) /\ Has(a, stem)  BY <1>2, ListingOne
<1>6. Listing(b)  BY <1>3, ListingOne, ListingNone
<1>7. Listing(a \o b) /\ \A x : Has(a \o b, x) <=> Has(a, x) \/ Has(b, x)
  BY <1>5, <1>6, ListingBoth
<1>8. ASSUME up \/ Similar!IsUpper(w[1]) PROVE Has(a \o b, d)
  <2>1. CASE d = stem  BY <1>5, <1>7, <2>1
  <2>2. CASE d # stem
    <3>1. b = <<d>>  BY <1>3, <1>8, <2>2
    <3> QED BY <1>7, <3>1, ListingOne
  <2> QED BY <2>1, <2>2
<1> QED BY <1>1, <1>4, <1>5, <1>7, <1>8

\* The word of which it is a form: in small letters, or in capitals as the form is.
Sought(k, v, x) == x = v \/ (k = "capitals" /\ x = InCase(k, v))

\* A stem leads to what is sought,
LEMMA StemVariantsHave ==
    ASSUME NEW k \in Cases, NEW v \in Small, NEW x, Sought(k, v, x),
           NEW w, NEW up, k # "small" => Similar!IsUpper(w[1])
    PROVE  Has(Similar!StemVariants(InCase(k, v), w, up), x)
<1>1. CASE x = InCase(k, v)  BY <1>1, StemVariantsAre
<1>2. CASE x # InCase(k, v)
  <2>1. x = v /\ k # "small"  BY <1>2, CasesAre DEF Sought
  <2>2. Similar!Down(InCase(k, v)) = x  BY <2>1, InCaseDown
  <2> QED BY <2>1, <2>2, StemVariantsAre
<1> QED BY <1>1, <1>2

\* What a list of stems holds: the word cut, and with an e or without the double letter.
LEMMA StemsAre ==
    ASSUME NEW w, NEW e, NEW doubles
    PROVE  /\ Listing(Similar!Stems(w, e, doubles))
           /\ \A x : Has(Similar!StemVariants(Similar!Cut(w, Len(e)), w,
                                               Similar!Ends(w, Similar!Up(e))), x)
                => Has(Similar!Stems(w, e, doubles), x)
           /\ doubles /\ Similar!Doubled(Similar!Cut(w, Len(e))) =>
                \A x : Has(Similar!StemVariants(Similar!Cut(Similar!Cut(w, Len(e)), 1), w,
                                                 Similar!Ends(w, Similar!Up(e))), x)
                  => Has(Similar!Stems(w, e, doubles), x)
<1>1. PICK stem : stem = Similar!Cut(w, Len(e))  OBVIOUS
<1>2. PICK up : up = Similar!Ends(w, Similar!Up(e))  OBVIOUS
<1>3. PICK u : u = Similar!StemVariants(Similar!Cut(stem, 1), w, up)  OBVIOUS
<1>4. PICK a : a = IF doubles /\ Similar!Doubled(stem) THEN u ELSE <<>>  OBVIOUS
<1>5. PICK b : b = Similar!StemVariants(stem, w, up)  OBVIOUS
<1>6. Similar!Stems(w, e, doubles) = a \o b
  BY <1>1, <1>2, <1>3, <1>4, <1>5 DEF Similar!Stems
<1>7. Listing(u) /\ Listing(b)  BY <1>3, <1>5, StemVariantsAre
<1>8. Listing(a)  BY <1>4, <1>7, ListingNone
<1>9. Listing(a \o b) /\ \A x : Has(a \o b, x) <=> Has(a, x) \/ Has(b, x)
  BY <1>7, <1>8, ListingBoth
<1> QED BY <1>1, <1>2, <1>3, <1>4, <1>5, <1>6, <1>9

\* so does a stem with its ending cut off,
LEMMA StemsHave ==
    ASSUME NEW k \in Cases, NEW v \in Small, v # <<>>, NEW e \in Small, NEW doubles,
           NEW x, Sought(k, v, x), NEW f, f = InCase(k, v \o e)
    PROVE  Has(Similar!Stems(f, e, doubles), x)
<1>1. Similar!Cut(f, Len(e)) = InCase(k, v) /\ (k # "small" => Similar!IsUpper(f[1]))
  BY FormEnds
<1>2. Has(Similar!StemVariants(InCase(k, v), f, Similar!Ends(f, Similar!Up(e))), x)
  BY <1>1, StemVariantsHave
<1> QED BY <1>1, <1>2, StemsAre

\* and one with another letter put back.
LEMMA StemsWithHave ==
    ASSUME NEW k \in Cases, NEW s \in Small, s # <<>>, NEW e \in Small, NEW c \in 97 .. 122,
           NEW x, Sought(k, s \o <<c>>, x), NEW f, f = InCase(k, s \o e)
    PROVE  Has(Similar!StemsWith(f, e, c), x)
<1>1. PICK l : l = <<c>>  OBVIOUS
<1>2. PICK v : v = s \o l  OBVIOUS
<1>3. PICK up : up = Similar!Ends(f, Similar!Up(e))  OBVIOUS
<1>4. PICK last : last = IF up THEN Similar!Up(l) ELSE l  OBVIOUS
<1>5. PICK a : a = InCase(k, s)  OBVIOUS
<1>6. l \in Small  BY <1>1 DEF Small
<1>7. v \in Small  BY <1>2, <1>6, SmallJoin
<1>8. /\ Similar!Cut(f, Len(e)) = a /\ Similar!Ends(f, EndingIn(k, e))
      /\ k # "small" => Similar!IsUpper(f[1])
  BY <1>5, FormEnds
<1>9. Similar!StemsWith(f, e, c) = Similar!StemVariants(a \o last, f, up)
  BY <1>1, <1>3, <1>4, <1>8 DEF Similar!StemsWith
<1>10. \A j : InCase(j, v) = InCase(j, s) \o EndingIn(j, l)  BY <1>2, <1>6, InCaseSplits
<1>11. last = EndingIn("capitals", l) \/ last = EndingIn("small", l)  BY <1>4 DEF EndingIn
<1>12. Similar!Down(a \o last) = v
  <2>1. Similar!Down(a) = s /\ a \in Seq(Nat) /\ s \in Seq(Nat) /\ Len(a) = Len(s)
    BY <1>5, InCaseDown, InCaseIs, SmallIs
  <2>2. last \in Seq(Nat) /\ Len(last) = 1 /\ Similar!Down(last) = l
    <3>1. last = InCase("capitals", l) \/ last = InCase("small", l)
      BY <1>6, <1>11, CasesAre DEF EndingIn
    <3>2. Len(l) = 1  BY <1>1
    <3> QED BY <1>6, <3>1, <3>2, InCaseDown, InCaseIs
  <2>3. PICK g : g = a \o last  OBVIOUS
  <2>4. PICK m : m = Len(s)  OBVIOUS
  <2>5. PICK d : d = Similar!Down(g)  OBVIOUS
  <2>6. g \in Seq(Nat) /\ Len(g) = m + 1 /\ m \in Nat
        /\ \A i \in 1 .. m + 1 : g[i] = IF i <= m THEN a[i] ELSE last[i - m]
    <3>1. /\ a \o last \in Seq(Nat) /\ Len(a \o last) = Len(a) + Len(last) /\ Len(a) \in Nat
          /\ \A i \in 1 .. Len(a) + Len(last) :
                (a \o last)[i] = IF i <= Len(a) THEN a[i] ELSE last[i - Len(a)]
      BY <2>1, <2>2, JoinIs
    <3>2. Len(a) = m /\ Len(last) = 1  BY <2>1, <2>2, <2>4
    <3> QED BY <2>3, <3>1, <3>2
  <2>7. d \in Seq(Nat) /\ Len(d) = m + 1
        /\ \A i \in 1 .. m + 1 : d[i] = IF Similar!IsUpper(g[i]) THEN g[i] + 32 ELSE g[i]
    BY <2>5, <2>6, DownIs
  <2>8. l \in Seq(Nat) /\ Len(l) = 1  BY <1>1, <1>6, SmallIs
  <2>9. v \in Seq(Nat) /\ Len(v) = m + 1
        /\ \A i \in 1 .. m + 1 : v[i] = IF i <= m THEN s[i] ELSE l[i - m]
    <3>1. /\ s \o l \in Seq(Nat) /\ Len(s \o l) = Len(s) + Len(l)
          /\ \A i \in 1 .. Len(s) + Len(l) :
                (s \o l)[i] = IF i <= Len(s) THEN s[i] ELSE l[i - Len(s)]
      BY <2>1, <2>8, JoinIs
    <3> QED BY <1>2, <2>4, <2>8, <3>1
  <2>10. \A i \in 1 .. m : s[i] = IF Similar!IsUpper(a[i]) THEN a[i] + 32 ELSE a[i]
    BY <2>1, <2>4, DownIs
  <2>11. l[1] = IF Similar!IsUpper(last[1]) THEN last[1] + 32 ELSE last[1]
    <3>1. 1 \in 1 .. Len(last)  BY <2>2
    <3> QED BY <2>2, <3>1, DownIs
  <2>12. ASSUME NEW i \in 1 .. m + 1 PROVE d[i] = v[i]
    <3>1. CASE i <= m
      <4>1. i \in 1 .. m  BY <2>6, <3>1
      <4> QED BY <2>6, <2>7, <2>9, <2>10, <3>1, <4>1
    <3>2. CASE ~(i <= m)
      <4>1. i - m = 1  BY <2>6, <3>2
      <4> QED BY <2>6, <2>7, <2>9, <2>11, <3>2, <4>1
    <3> QED BY <3>1, <3>2
  <2> QED BY <2>3, <2>5, <2>7, <2>9, <2>12, SeqEqual
<1>13. x = v \/ (k = "capitals" /\ x = InCase(k, v))  BY <1>1, <1>2 DEF Sought
<1>14. CASE x = a \o last  BY <1>9, <1>14, StemVariantsAre
<1>15. CASE x # a \o last
  <2>1. up \/ Similar!IsUpper(f[1])
    <3> SUFFICES ASSUME ~up, k = "small" PROVE FALSE  BY <1>8 DEF Cases
    <3>1. last = l  BY <1>4
    <3>2. v = a \o last  BY <1>5, <1>7, <1>10, <3>1, CasesAre DEF EndingIn
    <3> QED BY <1>13, <1>15, <3>2
  <2>2. x = v
    <3> SUFFICES ASSUME k = "capitals", x = InCase(k, v) PROVE FALSE  BY <1>13
    <3>1. up  BY <1>3, <1>8 DEF EndingIn
    <3>2. last = EndingIn(k, l)  BY <1>4, <3>1 DEF EndingIn
    <3> QED BY <1>5, <1>10, <1>15, <3>2
  <2> QED BY <1>9, <1>12, <2>1, <2>2, StemVariantsAre
<1> QED BY <1>14, <1>15

-----------------------------------------------------------------------------
(* What is cut off.                                                        *)

\* What is cut off: nine lists, and what one of them has is tried.
LEMMA CutsAre ==
    ASSUME NEW w
    PROVE  /\ Listing(Similar!CutLetter(w)) /\ Listing(Similar!CutLy(w)) /\ Listing(Similar!CutIng(w))
           /\ Listing(Similar!CutEs(w)) /\ Listing(Similar!CutEd(w)) /\ Listing(Similar!CutIed(w))
           /\ Listing(Similar!CutIes(w)) /\ Listing(Similar!CutEr(w)) /\ Listing(Similar!CutEst(w))
<1>1. Listing(<<>>)  BY ListingNone
<1>2. ASSUME NEW e, NEW c PROVE Listing(Similar!StemsWith(w, e, c))
  BY StemVariantsAre DEF Similar!StemsWith
<1>3. \A e, d : Listing(Similar!Stems(w, e, d))  BY StemsAre
<1>4. Listing(Similar!CutLetter(w))  BY <1>1, StemVariantsAre DEF Similar!CutLetter
<1>5. Listing(Similar!CutLy(w))  BY <1>1, <1>3 DEF Similar!CutLy
<1>6. Listing(Similar!CutIng(w))
  <2>1. PICK e : e = <<Similar!ii, Similar!nn, Similar!gg>>  OBVIOUS
  <2>2. Listing(Similar!Stems(w, e, TRUE) \o Similar!StemsWith(w, e, Similar!ee))
    BY <1>2, <1>3, ListingBoth
  <2> QED BY <1>1, <2>1, <2>2 DEF Similar!CutIng
<1>7. Listing(Similar!CutEs(w))  BY <1>1, <1>3 DEF Similar!CutEs
<1>8. Listing(Similar!CutEd(w))  BY <1>1, <1>3 DEF Similar!CutEd
<1>9. Listing(Similar!CutIed(w))  BY <1>1, <1>2 DEF Similar!CutIed
<1>10. Listing(Similar!CutIes(w))  BY <1>1, <1>2 DEF Similar!CutIes
<1>11. Listing(Similar!CutEr(w))  BY <1>1, <1>3 DEF Similar!CutEr
<1>12. Listing(Similar!CutEst(w))  BY <1>1, <1>3 DEF Similar!CutEst
<1> QED BY <1>4, <1>5, <1>6, <1>7, <1>8, <1>9, <1>10, <1>11, <1>12

HasCut(w, x) ==
    \/ Has(Similar!CutLetter(w), x) \/ Has(Similar!CutLy(w), x) \/ Has(Similar!CutIng(w), x)
    \/ Has(Similar!CutEs(w), x) \/ Has(Similar!CutEd(w), x) \/ Has(Similar!CutIed(w), x)
    \/ Has(Similar!CutIes(w), x) \/ Has(Similar!CutEr(w), x) \/ Has(Similar!CutEst(w), x)

\* What one of the nine has is tried.
LEMMA EndingVariantsAre ==
    ASSUME NEW w
    PROVE  /\ Listing(Similar!EndingVariants(w))
           /\ Similar!bIsPureEnglish(w) => \A x : HasCut(w, x) => Has(Similar!EndingVariants(w), x)
<1>1. PICK a1 : a1 = Similar!CutLetter(w)  OBVIOUS
<1>2. PICK a2 : a2 = Similar!CutLy(w)  OBVIOUS
<1>3. PICK a3 : a3 = Similar!CutIng(w)  OBVIOUS
<1>4. PICK a4 : a4 = Similar!CutEs(w)  OBVIOUS
<1>5. PICK a5 : a5 = Similar!CutEd(w)  OBVIOUS
<1>6. PICK a6 : a6 = Similar!CutIed(w)  OBVIOUS
<1>7. PICK a7 : a7 = Similar!CutIes(w)  OBVIOUS
<1>8. PICK a8 : a8 = Similar!CutEr(w)  OBVIOUS
<1>9. PICK a9 : a9 = Similar!CutEst(w)  OBVIOUS
<1>10. /\ Listing(a1) /\ Listing(a2) /\ Listing(a3) /\ Listing(a4) /\ Listing(a5)
       /\ Listing(a6) /\ Listing(a7) /\ Listing(a8) /\ Listing(a9)
  BY <1>1, <1>2, <1>3, <1>4, <1>5, <1>6, <1>7, <1>8, <1>9, CutsAre
<1>11. PICK b2 : b2 = a1 \o a2  OBVIOUS
<1>12. PICK b3 : b3 = b2 \o a3  OBVIOUS
<1>13. PICK b4 : b4 = b3 \o a4  OBVIOUS
<1>14. PICK b5 : b5 = b4 \o a5  OBVIOUS
<1>15. PICK b6 : b6 = b5 \o a6  OBVIOUS
<1>16. PICK b7 : b7 = b6 \o a7  OBVIOUS
<1>17. PICK b8 : b8 = b7 \o a8  OBVIOUS
<1>18. PICK b9 : b9 = b8 \o a9  OBVIOUS
<1>19. Listing(b2) /\ \A x : Has(b2, x) <=> Has(a1, x) \/ Has(a2, x)  BY <1>10, <1>11, ListingBoth
<1>20. Listing(b3) /\ \A x : Has(b3, x) <=> Has(b2, x) \/ Has(a3, x)
  BY <1>10, <1>12, <1>19, ListingBoth
<1>21. Listing(b4) /\ \A x : Has(b4, x) <=> Has(b3, x) \/ Has(a4, x)
  BY <1>10, <1>13, <1>20, ListingBoth
<1>22. Listing(b5) /\ \A x : Has(b5, x) <=> Has(b4, x) \/ Has(a5, x)
  BY <1>10, <1>14, <1>21, ListingBoth
<1>23. Listing(b6) /\ \A x : Has(b6, x) <=> Has(b5, x) \/ Has(a6, x)
  BY <1>10, <1>15, <1>22, ListingBoth
<1>24. Listing(b7) /\ \A x : Has(b7, x) <=> Has(b6, x) \/ Has(a7, x)
  BY <1>10, <1>16, <1>23, ListingBoth
<1>25. Listing(b8) /\ \A x : Has(b8, x) <=> Has(b7, x) \/ Has(a8, x)
  BY <1>10, <1>17, <1>24, ListingBoth
<1>26. Listing(b9) /\ \A x : Has(b9, x) <=> Has(b8, x) \/ Has(a9, x)
  BY <1>10, <1>18, <1>25, ListingBoth
<1>27. Similar!EndingVariants(w) = IF ~Similar!bIsPureEnglish(w) THEN <<>> ELSE b9
  BY <1>1, <1>2, <1>3, <1>4, <1>5, <1>6, <1>7, <1>8, <1>9, <1>11, <1>12, <1>13, <1>14, <1>15,
     <1>16, <1>17, <1>18 DEF Similar!EndingVariants
<1>28. Listing(Similar!EndingVariants(w))  BY <1>26, <1>27, ListingNone
<1>29. ASSUME NEW x, HasCut(w, x) PROVE Has(b9, x)
  BY <1>1, <1>2, <1>3, <1>4, <1>5, <1>6, <1>7, <1>8, <1>9, <1>19, <1>20, <1>21, <1>22, <1>23,
     <1>24, <1>25, <1>26, <1>29 DEF HasCut
<1> QED BY <1>27, <1>28, <1>29

\* The only word of a dictionary is found if it is tried.
LEMMA OnlyWordIsFound ==
    ASSUME NEW x \in Seq(Nat), NEW w, Has(Similar!EndingVariants(w), x)
    PROVE  Similar!SimpleLookupWord({x}, w).found = x
<1>1. CASE w = x  BY <1>1 DEF Similar!SimpleLookupWord
<1>2. CASE w # x
  <2>1. PICK cases : cases = Similar!Tried({x}, Similar!CaseVariants(w))  OBVIOUS
  <2>2. PICK walked : walked = Similar!Walk({x}, w)  OBVIOUS
  <2>3. PICK endings : endings = Similar!Tried({x}, Similar!EndingVariants(w))  OBVIOUS
  <2>4. Similar!SimpleLookupWord({x}, w).found = Similar!LookupSimilarWord({x}, w).found
    BY <1>2 DEF Similar!SimpleLookupWord
  <2>5. walked \in {<<>>, <<x>>}  BY <2>2, WalkInOne
  <2>6. Similar!Last(endings) = x /\ \A y : Similar!LastOr(endings, y) = x
    BY <2>3, EndingVariantsAre, TriedIs
  <2>7. CASE Similar!LastOr(cases, w) = x
    <3>1. Similar!Last(cases) = x  BY <1>2, <2>7 DEF Similar!LastOr
    <3> QED BY <2>1, <2>4, <2>7, <3>1 DEF Similar!LookupSimilarWord
  <2>8. CASE Similar!LastOr(cases, w) # x /\ walked # <<>>
    <3>1. walked[1] = x  BY <2>5, <2>8
    <3> QED BY <2>1, <2>2, <2>4, <2>8, <3>1 DEF Similar!LookupSimilarWord
  <2>9. CASE Similar!LastOr(cases, w) # x /\ walked = <<>>
    BY <2>1, <2>2, <2>3, <2>4, <2>6, <2>9 DEF Similar!LookupSimilarWord
  <2> QED BY <2>7, <2>8, <2>9
<1> QED BY <1>1, <1>2

-----------------------------------------------------------------------------
(* Letters at the end of a word.                                           *)

\* A word that ends in some letters is a word and these letters.
LEMMA EndsApart ==
    ASSUME NEW v \in Small, NEW b \in Small, Similar!Ends(v, b)
    PROVE  \E s \in Small : v = s \o b /\ Len(v) = Len(s) + Len(b)
<1>1. PICK n : n = Len(b)  OBVIOUS
<1>2. PICK m : m = Len(v) - n  OBVIOUS
<1>3. v \in Seq(Nat) /\ b \in Seq(Nat) /\ n \in Nat /\ Len(v) \in Nat  BY <1>1, SmallIs
<1> DEFINE rb == [i \in 1 .. n |-> b[(n - i) + 1]]
           rv == [i \in 1 .. Len(v) |-> v[(Len(v) - i) + 1]]
<1>4. Similar!IsPrefix(rb, rv)
  BY <1>1 DEF Similar!Ends, Similar!IsSuffix, IsSuffix, Similar!Reverse, Reverse
<1>5. ASSUME NEW i \in 1 .. n PROVE rb[i] \in Nat
  <2>1. (n - i) + 1 \in 1 .. n  BY <1>3
  <2>2. b[(n - i) + 1] \in Nat  BY <1>1, <1>3, <2>1, ElementOfSeq
  <2> QED BY <2>2
<1>6. ASSUME NEW i \in 1 .. Len(v) PROVE rv[i] \in Nat
  <2>1. (Len(v) - i) + 1 \in 1 .. Len(v)  BY <1>3
  <2>2. v[(Len(v) - i) + 1] \in Nat  BY <1>3, <2>1, ElementOfSeq
  <2> QED BY <2>2
<1>7. rb \in Seq(Nat) /\ Len(rb) = n
  <2>1. rb \in [1 .. n -> Nat]  BY <1>5
  <2> HIDE DEF rb
  <2> QED BY <1>3, <2>1
<1>8. rv \in Seq(Nat) /\ Len(rv) = Len(v)
  <2>1. rv \in [1 .. Len(v) -> Nat]  BY <1>6
  <2>2. PICK k \in Nat : k = Len(v)  BY <1>3
  <2> HIDE DEF rv
  <2>3. rv \in [1 .. k -> Nat]  BY <2>1, <2>2
  <2>4. rv \in Seq(Nat) /\ Len(rv) = k  BY <2>3
  <2> QED BY <2>2, <2>4
<1>9. n <= Len(v) /\ \A i \in 1 .. n : rb[i] = rv[i]
  <2> HIDE DEF rb, rv
  <2>1. n <= Len(v) /\ SubSeq(rb, 1, n) = SubSeq(rv, 1, n)
    BY <1>4, <1>7, <1>8 DEF Similar!IsPrefix, IsPrefix
  <2> QED BY <1>3, <1>7, <1>8, <2>1, PrefixesAgree
<1>10. m \in Nat /\ m <= Len(v) /\ Len(v) = m + n  BY <1>2, <1>3, <1>9
<1>11. ASSUME NEW j \in 1 .. n PROVE v[m + j] = b[j]
  <2>1. PICK i : i = (n - j) + 1  OBVIOUS
  <2>2. i \in 1 .. n /\ (n - i) + 1 = j /\ i \in 1 .. Len(v) /\ (Len(v) - i) + 1 = m + j
    BY <1>3, <1>10, <2>1
  <2>3. rb[i] = b[j] /\ rv[i] = v[m + j]  BY <2>2
  <2> QED BY <1>9, <2>2, <2>3
<1> HIDE DEF rb, rv
<1>12. PICK s : s = SubSeq(v, 1, m)  OBVIOUS
<1>13. s \in Small /\ s \in Seq(Nat) /\ Len(s) = m /\ \A i \in 1 .. m : s[i] = v[i]
  <2>1. v \in Seq(97 .. 122)  BY DEF Small
  <2>2. ASSUME NEW i \in 1 .. m PROVE v[i] \in 97 .. 122
    <3>1. i \in 1 .. Len(v)  BY <1>10, SmallIs
    <3> QED BY <3>1, SmallIs
  <2>3. s \in Seq(97 .. 122) /\ Len(s) = m /\ \A i \in 1 .. m : s[i] = v[i]
    BY <1>10, <1>12, <2>1, <2>2, SubSeqProperties
  <2>4. s \in Small  BY <2>3 DEF Small
  <2> QED BY <2>3, <2>4, SmallIs
<1>14. v = s \o b
  <2>1. PICK c : c = s \o b  OBVIOUS
  <2>2. c \in Seq(Nat) /\ Len(c) = m + n
        /\ \A i \in 1 .. m + n : c[i] = IF i <= m THEN s[i] ELSE b[i - m]
    BY <1>1, <1>3, <1>13, <2>1, JoinIs
  <2>3. ASSUME NEW i \in 1 .. m + n PROVE c[i] = v[i]
    <3>1. CASE i <= m
      <4>1. i \in 1 .. m  BY <1>10, <3>1
      <4> QED BY <1>13, <2>2, <3>1, <4>1
    <3>2. CASE ~(i <= m)
      <4>1. i - m \in 1 .. n /\ m + (i - m) = i  BY <1>3, <1>10, <3>2
      <4> QED BY <1>11, <2>2, <3>2, <4>1
    <3> QED BY <3>1, <3>2
  <2> QED BY <1>3, <1>10, <2>1, <2>2, <2>3, SeqEqual
<1> QED BY <1>1, <1>10, <1>13, <1>14

\* A word is what is before its last letter, and that.
LEMMA LastApart ==
    ASSUME NEW v \in Small, Len(v) > 0
    PROVE  /\ Similar!Cut(v, 1) \in Small /\ v = Similar!Cut(v, 1) \o <<v[Len(v)]>>
           /\ Len(Similar!Cut(v, 1)) = Len(v) - 1 /\ v[Len(v)] \in 97 .. 122
<1>1. PICK m : m = Len(v) - 1  OBVIOUS
<1>2. PICK l : l = <<v[Len(v)]>>  OBVIOUS
<1>3. m \in Nat /\ Len(v) = m + 1 /\ v \in Seq(Nat) /\ m + 1 \in 1 .. Len(v)  BY <1>1, SmallIs
<1>4. v[m + 1] \in 97 .. 122  BY <1>3, SmallIs
<1>5. l \in Small /\ l \in Seq(Nat) /\ Len(l) = 1 /\ l[1] = v[m + 1]
  <2>1. l \in Seq(97 .. 122) /\ Len(l) = 1 /\ l[1] = v[m + 1]  BY <1>2, <1>3, <1>4
  <2>2. l \in Small  BY <2>1 DEF Small
  <2> QED BY <2>1, <2>2, SmallIs
<1>6. PICK s : s = SubSeq(v, 1, m)  OBVIOUS
<1>7. Similar!Cut(v, 1) = s  BY <1>1, <1>6 DEF Similar!Cut
<1>8. s \in Small /\ s \in Seq(Nat) /\ Len(s) = m /\ \A i \in 1 .. m : s[i] = v[i]
  <2>1. v \in Seq(97 .. 122)  BY DEF Small
  <2>2. ASSUME NEW i \in 1 .. m PROVE v[i] \in 97 .. 122
    <3>1. i \in 1 .. Len(v)  BY <1>3, SmallIs
    <3> QED BY <3>1, SmallIs
  <2>3. s \in Seq(97 .. 122) /\ Len(s) = m /\ \A i \in 1 .. m : s[i] = v[i]
    BY <1>3, <1>6, <2>1, <2>2, SubSeqProperties
  <2>4. s \in Small  BY <2>3 DEF Small
  <2> QED BY <2>3, <2>4, SmallIs
<1>9. v = s \o l
  <2>1. PICK c : c = s \o l  OBVIOUS
  <2>2. /\ s \o l \in Seq(Nat) /\ Len(s \o l) = Len(s) + Len(l)
        /\ \A i \in 1 .. Len(s) + Len(l) : (s \o l)[i] = IF i <= Len(s) THEN s[i] ELSE l[i - Len(s)]
    BY <1>5, <1>8, JoinIs
  <2>3. c \in Seq(Nat) /\ Len(c) = m + 1
        /\ \A i \in 1 .. m + 1 : c[i] = IF i <= m THEN s[i] ELSE l[i - m]
    BY <1>5, <1>8, <2>1, <2>2
  <2>4. ASSUME NEW i \in 1 .. m + 1 PROVE c[i] = v[i]
    <3>1. CASE i <= m
      <4>1. i \in 1 .. m  BY <1>3, <3>1
      <4> QED BY <1>8, <2>3, <3>1, <4>1
    <3>2. CASE ~(i <= m)
      <4>1. i - m = 1 /\ i = m + 1  BY <1>3, <3>2
      <4> QED BY <1>5, <2>3, <3>2, <4>1
    <3> QED BY <3>1, <3>2
  <2> QED BY <1>3, <2>1, <2>3, <2>4, SeqEqual
<1> QED BY <1>1, <1>2, <1>3, <1>4, <1>7, <1>8, <1>9

\* Endings are written in small letters,
LEMMA EndingsAreSmall ==
    /\ \A c \in 97 .. 122 : <<c>> \in Small /\ Len(<<c>>) = 1
    /\ \A c, d \in 97 .. 122 : <<c, d>> \in Small /\ Len(<<c, d>>) = 2
    /\ \A c, d, e \in 97 .. 122 : <<c, d, e>> \in Small /\ Len(<<c, d, e>>) = 3
BY DEF Small

\* and so are their letters.
LEMMA LettersAreSmall ==
    /\ Similar!cc \in 97 .. 122 /\ Similar!dd \in 97 .. 122 /\ Similar!ee \in 97 .. 122
    /\ Similar!gg \in 97 .. 122 /\ Similar!hh \in 97 .. 122 /\ Similar!ii \in 97 .. 122
    /\ Similar!ll \in 97 .. 122 /\ Similar!nn \in 97 .. 122 /\ Similar!oo \in 97 .. 122
    /\ Similar!rr \in 97 .. 122 /\ Similar!ss \in 97 .. 122 /\ Similar!tt \in 97 .. 122
    /\ Similar!xx \in 97 .. 122 /\ Similar!yy \in 97 .. 122
BY DEF Similar!cc, Similar!dd, Similar!ee, Similar!gg, Similar!hh, Similar!ii, Similar!ll,
       Similar!nn, Similar!oo, Similar!rr, Similar!ss, Similar!tt, Similar!xx, Similar!yy

\* A word of more than two letters is not empty.
LEMMA LongIsSome ==
    ASSUME NEW v \in Small, NEW n \in Nat, Len(v) > n
    PROVE  Len(v) \in Nat /\ v # <<>>
<1>1. Len(v) \in Nat  BY SmallIs
<1>2. Len(v) # 0 /\ Len(<<>>) = 0  BY <1>1
<1> QED BY <1>1, <1>2

\* The last letter is cut off, if it is "s" or the "d" of "ed".
LEMMA LetterIsCut ==
    ASSUME NEW k \in Cases, NEW v \in Small, Len(v) > 2, NEW x, Sought(k, v, x),
           NEW c \in 97 .. 122, NEW f, f = InCase(k, v \o <<c>>),
           \/ c = Similar!ss
           \/ c = Similar!dd /\ \E s \in Small : s # <<>> /\ v = s \o <<Similar!ee>>
    PROVE  Has(Similar!CutLetter(f), x)
<1>1. PICK l : l = <<c>>  OBVIOUS
<1>2. l \in Small /\ Len(l) = 1 /\ Len(v) \in Nat /\ v # <<>>
  <2>1. l \in Small /\ Len(l) = 1  BY <1>1, EndingsAreSmall
  <2> QED BY <2>1, LongIsSome
<1>3. f = InCase(k, v \o l)  BY <1>1
<1>4. /\ Len(f) = Len(v) + 1 /\ Similar!Cut(f, 1) = InCase(k, v) /\ Similar!Ends(f, EndingIn(k, l))
      /\ k # "small" => Similar!IsUpper(f[1])
  <2>1. /\ Len(f) = Len(v) + Len(l) /\ Similar!Cut(f, Len(l)) = InCase(k, v)
        /\ Similar!Ends(f, EndingIn(k, l)) /\ (k # "small" => Similar!IsUpper(f[1]))
    <3>1. v # <<>> /\ l \in Small  BY <1>2
    <3>2. Len(f) = Len(v) + Len(l)  BY <1>3, <3>1, FormEnds
    <3>3. Similar!Cut(f, Len(l)) = InCase(k, v)  BY <1>3, <3>1, FormEnds
    <3>4. Similar!Ends(f, EndingIn(k, l))  BY <1>3, <3>1, FormEnds
    <3>5. k # "small" => Similar!IsUpper(f[1])  BY <1>3, <3>1, FormEnds
    <3> QED BY <3>2, <3>3, <3>4, <3>5
  <2> QED BY <1>2, <2>1
<1>5. PICK up : up = (Similar!Ends(f, Similar!Up(<<Similar!ss>>))
                      \/ Similar!Ends(f, Similar!Up(<<Similar!ee, Similar!dd>>)))
  OBVIOUS
<1>6. up \/ Similar!Ends(f, <<Similar!ss>>) \/ Similar!Ends(f, <<Similar!ee, Similar!dd>>)
  <2>1. CASE c = Similar!ss  BY <1>1, <1>4, <1>5, <2>1 DEF EndingIn
  <2>2. CASE c = Similar!dd /\ \E s \in Small : s # <<>> /\ v = s \o <<Similar!ee>>
    <3>1. PICK s \in Small : s # <<>> /\ v = s \o <<Similar!ee>>  BY <2>2
    <3>2. PICK e : e = <<Similar!ee, Similar!dd>>  OBVIOUS
    <3>3. e \in Small /\ <<Similar!ee>> \in Small  BY <3>2, EndingsAreSmall, LettersAreSmall
    <3>4. v \o l = s \o e
      <4>1. s \in Seq(97 .. 122) /\ <<Similar!ee>> \in Seq(97 .. 122) /\ l \in Seq(97 .. 122)
        BY <1>2, <3>3 DEF Small
      <4>2. (s \o <<Similar!ee>>) \o l = s \o (<<Similar!ee>> \o l)  BY <4>1, ConcatAssociative
      <4>3. <<Similar!ee>> \o l = e
        <5>1. PICK a : a = <<Similar!ee>>  OBVIOUS
        <5>2. a \in Seq(Nat) /\ Len(a) = 1 /\ a[1] = Similar!ee
          BY <5>1, LettersAreSmall, SmallIs, <3>3
        <5>3. l \in Seq(Nat) /\ l[1] = Similar!dd  BY <1>1, <1>2, <2>2, SmallIs
        <5>4. PICK g : g = a \o l  OBVIOUS
        <5>5. /\ a \o l \in Seq(Nat) /\ Len(a \o l) = Len(a) + Len(l)
              /\ \A i \in 1 .. Len(a) + Len(l) : (a \o l)[i] = IF i <= Len(a) THEN a[i] ELSE l[i - Len(a)]
          BY <5>2, <5>3, JoinIs
        <5>6. g \in Seq(Nat) /\ Len(g) = 2 /\ \A i \in 1 .. 2 : g[i] = IF i <= 1 THEN a[i] ELSE l[i - 1]
          BY <1>2, <5>2, <5>4, <5>5
        <5>7. g[1] = Similar!ee /\ g[2] = Similar!dd  BY <5>2, <5>3, <5>6
        <5>8. e \in Seq(Nat) /\ Len(e) = 2 /\ e[1] = Similar!ee /\ e[2] = Similar!dd
          BY <3>2, <3>3, SmallIs
        <5>9. \A i \in 1 .. 2 : g[i] = e[i]  BY <5>7, <5>8
        <5>10. g = e  BY <5>6, <5>8, <5>9, SeqEqual
        <5> QED BY <5>1, <5>4, <5>10
      <4> QED BY <3>1, <4>2, <4>3
    <3>5. f = InCase(k, s \o e)  BY <1>3, <3>4
    <3>6. Similar!Ends(f, EndingIn(k, e))  BY <3>1, <3>3, <3>5, FormEnds
    <3> QED BY <1>5, <3>2, <3>6 DEF EndingIn
  <2> QED BY <2>1, <2>2
<1>7. Similar!CutLetter(f) = Similar!StemVariants(InCase(k, v), f, up)
  <2>1. Len(f) > 1  BY <1>2, <1>4
  <2> QED BY <1>4, <1>5, <1>6, <2>1 DEF Similar!CutLetter
<1> QED BY <1>4, <1>7, StemVariantsHave

\* An ending is cut off.
LEMMA EndingIsCut ==
    ASSUME NEW k \in Cases, NEW v \in Small, Len(v) > 2, NEW x, Sought(k, v, x),
           NEW e \in {<<Similar!ll, Similar!yy>>, <<Similar!ii, Similar!nn, Similar!gg>>,
                      <<Similar!ee, Similar!dd>>, <<Similar!ee, Similar!rr>>,
                      <<Similar!ee, Similar!ss, Similar!tt>>},
           NEW f, f = InCase(k, v \o e)
    PROVE  HasCut(f, x)
<1>1. e \in Small /\ Len(e) \in Nat /\ Len(e) >= 2 /\ Len(v) \in Nat /\ v # <<>>
  <2>1. e \in Small /\ (Len(e) = 2 \/ Len(e) = 3)
    <3>1. /\ <<Similar!ll, Similar!yy>> \in Small /\ Len(<<Similar!ll, Similar!yy>>) = 2
          /\ <<Similar!ee, Similar!dd>> \in Small /\ Len(<<Similar!ee, Similar!dd>>) = 2
          /\ <<Similar!ee, Similar!rr>> \in Small /\ Len(<<Similar!ee, Similar!rr>>) = 2
      BY EndingsAreSmall, LettersAreSmall
    <3>2. <<Similar!ii, Similar!nn, Similar!gg>> \in Small
          /\ Len(<<Similar!ii, Similar!nn, Similar!gg>>) = 3
      BY EndingsAreSmall, LettersAreSmall
    <3>3. <<Similar!ee, Similar!ss, Similar!tt>> \in Small
          /\ Len(<<Similar!ee, Similar!ss, Similar!tt>>) = 3
      BY EndingsAreSmall, LettersAreSmall
    <3> QED BY <3>1, <3>2, <3>3
  <2> QED BY <2>1, LongIsSome
<1>2. \A d : Has(Similar!Stems(f, e, d), x)  BY <1>1, StemsHave
<1>3. Similar!HasEnding(f, e, 2) /\ Similar!HasEnding(f, e, 3)
  <2>1. Len(v) + Len(e) > 2 /\ Len(v) + Len(e) > 3  BY <1>1
  <2>2. \A more : Len(v) + Len(e) > more => Similar!HasEnding(f, e, more)  BY <1>1, FormEnds
  <2> QED BY <2>1, <2>2
<1>4. CASE e = <<Similar!ll, Similar!yy>>
  BY <1>2, <1>3, <1>4 DEF Similar!CutLy, HasCut
<1>5. CASE e = <<Similar!ii, Similar!nn, Similar!gg>>
  <2>1. PICK a : a = Similar!Stems(f, e, TRUE)  OBVIOUS
  <2>2. PICK b : b = Similar!StemsWith(f, e, Similar!ee)  OBVIOUS
  <2>3. Similar!CutIng(f) = a \o b  BY <1>3, <1>5, <2>1, <2>2 DEF Similar!CutIng
  <2>4. Listing(a) /\ Listing(b)  BY <2>1, <2>2, StemsAre, StemVariantsAre DEF Similar!StemsWith
  <2>5. Has(a \o b, x)  BY <1>2, <2>1, <2>4, ListingBoth
  <2> QED BY <2>3, <2>5 DEF HasCut
<1>6. CASE e = <<Similar!ee, Similar!dd>>
  BY <1>2, <1>3, <1>6 DEF Similar!CutEd, HasCut
<1>7. CASE e = <<Similar!ee, Similar!rr>>
  BY <1>2, <1>3, <1>7 DEF Similar!CutEr, HasCut
<1>8. CASE e = <<Similar!ee, Similar!ss, Similar!tt>>
  BY <1>2, <1>3, <1>8 DEF Similar!CutEst, HasCut
<1> QED BY <1>4, <1>5, <1>6, <1>7, <1>8

\* An ending is cut off and a letter added.
LEMMA LetterIsAdded ==
    ASSUME NEW k \in Cases, NEW s \in Small, Len(s) > 1, NEW c, NEW x, Sought(k, s \o <<c>>, x),
           NEW e, NEW f, f = InCase(k, s \o e),
           \/ c = Similar!ee /\ e = <<Similar!ii, Similar!nn, Similar!gg>>
           \/ c = Similar!yy /\ e = <<Similar!ii, Similar!ee, Similar!dd>>
           \/ c = Similar!yy /\ e = <<Similar!ii, Similar!ee, Similar!ss>>
    PROVE  HasCut(f, x)
<1>1. e \in Small /\ Len(e) = 3 /\ c \in 97 .. 122 /\ Len(s) \in Nat /\ s # <<>>
  <2>1. Similar!ee \in 97 .. 122 /\ Similar!yy \in 97 .. 122  BY LettersAreSmall
  <2>2. e \in Small /\ Len(e) = 3
    <3>1. <<Similar!ii, Similar!nn, Similar!gg>> \in Small
          /\ Len(<<Similar!ii, Similar!nn, Similar!gg>>) = 3
      BY EndingsAreSmall, LettersAreSmall
    <3>2. <<Similar!ii, Similar!ee, Similar!dd>> \in Small
          /\ Len(<<Similar!ii, Similar!ee, Similar!dd>>) = 3
      BY EndingsAreSmall, LettersAreSmall
    <3>3. <<Similar!ii, Similar!ee, Similar!ss>> \in Small
          /\ Len(<<Similar!ii, Similar!ee, Similar!ss>>) = 3
      BY EndingsAreSmall, LettersAreSmall
    <3> QED BY <3>1, <3>2, <3>3
  <2>3. Len(s) \in Nat /\ s # <<>>  BY LongIsSome
  <2> QED BY <2>1, <2>2, <2>3
<1>2. Has(Similar!StemsWith(f, e, c), x)  BY <1>1, StemsWithHave
<1>3. Similar!HasEnding(f, e, 3)
  <2>1. Len(s) + Len(e) > 3  BY <1>1
  <2>2. \A more : Len(s) + Len(e) > more => Similar!HasEnding(f, e, more)  BY <1>1, FormEnds
  <2> QED BY <2>1, <2>2
<1>4. CASE c = Similar!ee /\ e = <<Similar!ii, Similar!nn, Similar!gg>>
  <2>1. PICK a : a = Similar!Stems(f, e, TRUE)  OBVIOUS
  <2>2. PICK b : b = Similar!StemsWith(f, e, Similar!ee)  OBVIOUS
  <2>3. Similar!CutIng(f) = a \o b  BY <1>3, <1>4, <2>1, <2>2 DEF Similar!CutIng
  <2>4. Listing(a) /\ Listing(b)  BY <2>1, <2>2, StemsAre, StemVariantsAre DEF Similar!StemsWith
  <2>5. Has(a \o b, x)  BY <1>2, <1>4, <2>2, <2>4, ListingBoth
  <2> QED BY <2>3, <2>5 DEF HasCut
<1>5. CASE c = Similar!yy /\ e = <<Similar!ii, Similar!ee, Similar!dd>>
  BY <1>2, <1>3, <1>5 DEF Similar!CutIed, HasCut
<1>6. CASE c = Similar!yy /\ e = <<Similar!ii, Similar!ee, Similar!ss>>
  BY <1>2, <1>3, <1>6 DEF Similar!CutIes, HasCut
<1> QED BY <1>4, <1>5, <1>6

\* "es" is cut off after "s", "x", "o", "ch" and "sh".
LEMMA EsIsCut ==
    ASSUME NEW k \in Cases, NEW s \in Small, s # <<>>,
           NEW b \in {<<Similar!ss>>, <<Similar!xx>>, <<Similar!oo>>,
                      <<Similar!cc, Similar!hh>>, <<Similar!ss, Similar!hh>>},
           NEW v, v = s \o b, Len(v) > 2, NEW x, Sought(k, v, x),
           NEW f, f = InCase(k, v \o <<Similar!ee, Similar!ss>>)
    PROVE  Has(Similar!CutEs(f), x)
<1>1. PICK es : es = <<Similar!ee, Similar!ss>>  OBVIOUS
<1>2. es \in Small /\ Len(es) = 2 /\ b \in Small /\ Len(b) \in Nat /\ Len(s) \in Nat /\ Len(s) # 0
  <2>1. es \in Small /\ Len(es) = 2  BY <1>1, EndingsAreSmall, LettersAreSmall
  <2>2. b \in Small
    <3>1. <<Similar!ss>> \in Small /\ <<Similar!xx>> \in Small /\ <<Similar!oo>> \in Small
      BY EndingsAreSmall, LettersAreSmall
    <3>2. <<Similar!cc, Similar!hh>> \in Small /\ <<Similar!ss, Similar!hh>> \in Small
      BY EndingsAreSmall, LettersAreSmall
    <3> QED BY <3>1, <3>2
  <2>3. Len(s) \in Nat /\ Len(b) \in Nat /\ Len(s) # 0  BY <2>2, SmallIs, EmptySeq
  <2> QED BY <2>1, <2>2, <2>3
<1>3. v \in Small /\ Len(v) \in Nat /\ v # <<>> /\ Len(v) = Len(s) + Len(b)
  <2>1. v \in Small /\ Len(v) = Len(s) + Len(b)  BY <1>2, SmallJoin
  <2> QED BY <2>1, SmallIs
<1>4. b \o es \in Small /\ Len(b \o es) = Len(b) + 2
  <2>1. b \o es \in Small /\ Len(b \o es) = Len(b) + Len(es)  BY <1>2, SmallJoin
  <2> QED BY <1>2, <2>1
<1>5. f = InCase(k, s \o (b \o es))
  <2>1. s \in Seq(97 .. 122) /\ b \in Seq(97 .. 122) /\ es \in Seq(97 .. 122)  BY <1>2 DEF Small
  <2>2. (s \o b) \o es = s \o (b \o es)  BY <2>1, ConcatAssociative
  <2> QED BY <1>1, <2>2
<1>6. Similar!HasEnding(f, b \o es, Len(b) + 2) /\ Len(f) > 3
  <2>1. /\ Len(f) = Len(s) + Len(b \o es)
        /\ \A more : Len(s) + Len(b \o es) > more => Similar!HasEnding(f, b \o es, more)
    BY <1>4, <1>5, FormEnds
  <2>2. Len(s) + Len(b \o es) > Len(b) + 2 /\ Len(s) + Len(b \o es) > 3
    BY <1>2, <1>3, <1>4
  <2> QED BY <2>1, <2>2
<1>7. Similar!CutEs(f) = Similar!Stems(f, es, FALSE)
  <2>1. \E e \in {<<Similar!ss>>, <<Similar!xx>>, <<Similar!oo>>,
                  <<Similar!cc, Similar!hh>>, <<Similar!ss, Similar!hh>>} :
           Similar!HasEnding(f, e \o es, Len(e) + 2)
    BY <1>6
  <2> QED BY <1>1, <1>6, <2>1 DEF Similar!CutEs
<1>8. Has(Similar!Stems(f, es, FALSE), x)
  <2>1. f = InCase(k, v \o es)  BY <1>1
  <2> QED BY <1>2, <1>3, <2>1, StemsHave
<1> QED BY <1>7, <1>8

\* A capital is a vowel if its letter is.
LEMMA VowelIs ==
    ASSUME NEW c \in 97 .. 122
    PROVE  Similar!bIsVowel(c) <=> Similar!bIsVowel(c - 32)
<1>1. ASSUME NEW b \in Nat
      PROVE  Similar!Down(<<b>>)[1] = IF Similar!IsUpper(b) THEN b + 32 ELSE b
  <2>1. PICK s : s = <<b>>  OBVIOUS
  <2>2. s \in Seq(Nat) /\ Len(s) = 1 /\ s[1] = b  BY <2>1
  <2>3. 1 \in 1 .. Len(s)  BY <2>2
  <2>4. Similar!Down(s)[1] = IF Similar!IsUpper(b) THEN b + 32 ELSE b  BY <2>2, <2>3, DownIs
  <2> QED BY <2>1, <2>4
<1>2. Similar!Down(<<c>>)[1] = c  BY <1>1, SmallLetter
<1>3. Similar!Down(<<c - 32>>)[1] = c  BY <1>1, SmallLetter
<1> QED BY <1>2, <1>3 DEF Similar!bIsVowel

\* A consonant doubled before an ending is undoubled.
LEMMA DoubleIsCut ==
    ASSUME NEW k \in Cases, NEW v \in Small, Len(v) > 2, NEW x, Sought(k, v, x),
           NEW c, c = v[Len(v)], ~Similar!bIsVowel(c), Similar!bIsVowel(v[Len(v) - 1]),
           NEW e \in {<<Similar!ii, Similar!nn, Similar!gg>>, <<Similar!ee, Similar!dd>>},
           NEW f, f = InCase(k, (v \o <<c>>) \o e)
    PROVE  HasCut(f, x)
<1>1. PICK n : n = Len(v)  OBVIOUS
<1>2. n \in Nat /\ n > 2 /\ v # <<>> /\ n \in 1 .. n /\ n - 1 \in 1 .. n /\ n - 1 # 1 /\ n # 1
  BY <1>1, LongIsSome
<1>3. c \in 97 .. 122 /\ v[n - 1] \in 97 .. 122  BY <1>1, <1>2, SmallIs
<1>4. PICK l : l = <<c>>  OBVIOUS
<1>5. l \in Small /\ Len(l) = 1 /\ l[1] = c  BY <1>3, <1>4, EndingsAreSmall
<1>6. PICK d : d = v \o l  OBVIOUS
<1>7. d \in Small /\ Len(d) = n + 1 /\ d # <<>>
  <2>1. d \in Small /\ Len(d) = Len(v) + Len(l)  BY <1>5, <1>6, SmallJoin
  <2>2. Len(d) = n + 1  BY <1>1, <1>5, <2>1
  <2>3. Len(d) > 0  BY <1>2, <2>2
  <2> QED BY <2>1, <2>2, <2>3, LongIsSome
<1>8. d[n - 1] = v[n - 1] /\ d[n] = c /\ d[n + 1] = c
  <2>1. v \in Seq(Nat) /\ l \in Seq(Nat)  BY <1>5, SmallIs
  <2>2. /\ \A i \in 1 .. Len(v) : (v \o l)[i] = v[i]
        /\ \A i \in 1 .. Len(l) : (v \o l)[Len(v) + i] = l[i]
    BY <2>1, JoinIs
  <2>3. 1 \in 1 .. Len(l)  BY <1>5
  <2> QED BY <1>1, <1>2, <1>5, <1>6, <2>2, <2>3
<1>9. PICK stem : stem = InCase(k, d)  OBVIOUS
<1>10. /\ Len(stem) = n + 1
       /\ stem[n - 1] = v[n - 1] \/ stem[n - 1] = v[n - 1] - 32
       /\ stem[n] = stem[n + 1] /\ (stem[n] = c \/ stem[n] = c - 32)
  <2>1. /\ Len(InCase(k, d)) = Len(d)
        /\ \A i \in 1 .. Len(d) :
             InCase(k, d)[i] = IF k = "capitals" \/ (k = "capitalised" /\ i = 1) THEN d[i] - 32 ELSE d[i]
    BY <1>7, InCaseIs
  <2>2. n - 1 \in 1 .. n + 1 /\ n \in 1 .. n + 1 /\ n + 1 \in 1 .. n + 1 /\ n + 1 # 1  BY <1>2
  <2>3. /\ stem[n - 1] = IF k = "capitals" THEN v[n - 1] - 32 ELSE v[n - 1]
        /\ stem[n] = IF k = "capitals" THEN c - 32 ELSE c
        /\ stem[n + 1] = IF k = "capitals" THEN c - 32 ELSE c
    BY <1>2, <1>7, <1>8, <1>9, <2>1, <2>2
  <2> QED BY <1>7, <1>9, <2>1, <2>3
<1>11. Similar!Doubled(stem)
  <2>1. Len(stem) > 3 /\ Len(stem) - 1 = n /\ Len(stem) - 2 = n - 1  BY <1>2, <1>10
  <2>2. ~Similar!bIsVowel(stem[n])
    <3>1. ~Similar!bIsVowel(c) /\ ~Similar!bIsVowel(c - 32)  BY <1>3, VowelIs
    <3> QED BY <1>10, <3>1
  <2>3. Similar!bIsVowel(stem[n - 1])
    <3>1. PICK b : b = v[n - 1]  OBVIOUS
    <3>2. b \in 97 .. 122 /\ Similar!bIsVowel(b)  BY <1>1, <1>3, <3>1
    <3>3. Similar!bIsVowel(b - 32)  BY <3>2, VowelIs
    <3> QED BY <1>10, <3>1, <3>2, <3>3
  <2> QED BY <1>10, <2>1, <2>2, <2>3 DEF Similar!Doubled
<1>12. e \in Small /\ Len(e) \in Nat /\ Len(e) >= 2
  <2>1. /\ <<Similar!ee, Similar!dd>> \in Small /\ Len(<<Similar!ee, Similar!dd>>) = 2
    BY EndingsAreSmall, LettersAreSmall
  <2>2. <<Similar!ii, Similar!nn, Similar!gg>> \in Small
        /\ Len(<<Similar!ii, Similar!nn, Similar!gg>>) = 3
    BY EndingsAreSmall, LettersAreSmall
  <2>3. CASE e = <<Similar!ee, Similar!dd>>  BY <2>1, <2>3
  <2>4. CASE e = <<Similar!ii, Similar!nn, Similar!gg>>
    <3>1. e \in Small /\ Len(e) = 3  BY <2>2, <2>4
    <3> QED BY <3>1
  <2> QED BY <2>3, <2>4
<1>13. f = InCase(k, d \o e)  BY <1>4, <1>6
<1>14. Similar!Cut(f, Len(e)) = stem  BY <1>7, <1>9, <1>12, <1>13, FormEnds
<1>15. k # "small" => Similar!IsUpper(f[1])  BY <1>7, <1>12, <1>13, FormEnds
<1>16. Similar!HasEnding(f, e, 3)
  <2>1. Len(d) + Len(e) > 3  BY <1>2, <1>7, <1>12
  <2>2. \A more : Len(d) + Len(e) > more => Similar!HasEnding(f, e, more)
    BY <1>7, <1>12, <1>13, FormEnds
  <2> QED BY <2>1, <2>2
<1>17. Similar!Cut(stem, 1) = InCase(k, v)
  <2>1. stem = InCase(k, v) \o EndingIn(k, l) /\ EndingIn(k, l) \in Seq(Nat) /\ Len(EndingIn(k, l)) = 1
    BY <1>2, <1>5, <1>6, <1>9, InCaseSplits
  <2>2. InCase(k, v) \in Seq(Nat)  BY InCaseIs
  <2> QED BY <2>1, <2>2, CutIs
<1>18. Has(Similar!Stems(f, e, TRUE), x)
  <2>1. Has(Similar!StemVariants(InCase(k, v), f, Similar!Ends(f, Similar!Up(e))), x)
    BY <1>15, StemVariantsHave
  <2> QED BY <1>11, <1>14, <1>17, <2>1, StemsAre
<1>19. CASE e = <<Similar!ii, Similar!nn, Similar!gg>>
  <2>1. PICK a : a = Similar!Stems(f, e, TRUE)  OBVIOUS
  <2>2. PICK b : b = Similar!StemsWith(f, e, Similar!ee)  OBVIOUS
  <2>3. Similar!CutIng(f) = a \o b  BY <1>16, <1>19, <2>1, <2>2 DEF Similar!CutIng
  <2>4. Listing(a) /\ Listing(b)  BY <2>1, <2>2, StemsAre, StemVariantsAre DEF Similar!StemsWith
  <2>5. Has(a \o b, x)  BY <1>18, <2>1, <2>4, ListingBoth
  <2> QED BY <2>3, <2>5 DEF HasCut
<1>20. CASE e = <<Similar!ee, Similar!dd>>
  BY <1>16, <1>18, <1>20 DEF Similar!CutEd, HasCut
<1> QED BY <1>19, <1>20

-----------------------------------------------------------------------------
(* Every inflection leads to its word.                                     *)

\* Whatever case an inflection is written in, one cut leads to the word.
LEMMA InflectionIsCut ==
    ASSUME NEW v \in Small, Len(v) > 2, NEW w \in Similar!Inflections(v),
           NEW k \in Cases, NEW x, Sought(k, v, x)
    PROVE  w \in Small /\ w # <<>> /\ Has(Similar!EndingVariants(InCase(k, w)), x)
<1>1. PICK f : f = InCase(k, w)  OBVIOUS
<1>2. PICK n : n = Len(v)  OBVIOUS
<1>3. PICK c : c = v[n]  OBVIOUS
<1>4. PICK s : s = Similar!Cut(v, 1)  OBVIOUS
<1>5. n \in Nat /\ n > 2 /\ v # <<>>  BY <1>2, LongIsSome
<1>6. c \in 97 .. 122 /\ s \in Small /\ v = s \o <<c>> /\ Len(s) = n - 1
  <2>1. Len(v) > 0  BY <1>2, <1>5
  <2>2. s \in Small /\ v = s \o <<v[Len(v)]>> /\ Len(s) = Len(v) - 1 /\ v[Len(v)] \in 97 .. 122
    BY <1>4, <2>1, LastApart
  <2> QED BY <1>2, <1>3, <2>2
<1>7. Len(s) > 1 /\ s # <<>>
  <2>1. Len(s) > 1  BY <1>5, <1>6
  <2> QED BY <1>6, <2>1, LongIsSome
<1>8. ASSUME NEW b \in Small, b # <<>>, NEW e \in Small, w = b \o e, HasCut(f, x)
      PROVE  w \in Small /\ w # <<>> /\ Has(Similar!EndingVariants(InCase(k, w)), x)
  <2>1. w \in Small /\ Len(w) = Len(b) + Len(e)  BY <1>8, SmallJoin
  <2>2. Len(b) \in Nat /\ Len(b) # 0 /\ Len(e) \in Nat /\ Len(w) \in Nat
    BY <1>8, <2>1, SmallIs, EmptySeq
  <2>3. w # <<>>
    <3>1. Len(w) > 0  BY <2>1, <2>2
    <3> QED BY <2>1, <3>1, LongIsSome
  <2>4. Similar!bIsPureEnglish(f)  BY <1>1, <1>8, FormEnds
  <2> QED BY <1>1, <1>8, <2>1, <2>3, <2>4, EndingVariantsAre
<1> DEFINE es == <<Similar!ee, Similar!ss>>
           ing == <<Similar!ii, Similar!nn, Similar!gg>>
           ed == <<Similar!ee, Similar!dd>>
           ied == <<Similar!ii, Similar!ee, Similar!dd>>
           ies == <<Similar!ii, Similar!ee, Similar!ss>>
           plain == {<<Similar!ll, Similar!yy>>, ing, ed, <<Similar!ee, Similar!rr>>,
                     <<Similar!ee, Similar!ss, Similar!tt>>}
<1>9. \/ w = v \o <<Similar!ss>>
      \/ \E e \in plain : w = v \o e
      \/ c = Similar!ee /\ (w = v \o <<Similar!dd>> \/ w = s \o ing)
      \/ /\ \/ c \in {Similar!ss, Similar!xx, Similar!oo}
            \/ Similar!Ends(v, <<Similar!cc, Similar!hh>>)
            \/ Similar!Ends(v, <<Similar!ss, Similar!hh>>)
         /\ w = v \o es
      \/ c = Similar!yy /\ (w = s \o ied \/ w = s \o ies)
      \/ /\ ~Similar!bIsVowel(c) /\ Similar!bIsVowel(v[n - 1])
         /\ w = (v \o <<c>>) \o ing \/ w = (v \o <<c>>) \o ed
  BY <1>2, <1>3, <1>4 DEF Similar!Inflections
<1>10. /\ <<Similar!ss>> \in Small /\ <<Similar!dd>> \in Small /\ es \in Small /\ ing \in Small
       /\ ed \in Small /\ ied \in Small /\ ies \in Small /\ <<c>> \in Small
       /\ <<Similar!cc, Similar!hh>> \in Small /\ <<Similar!ss, Similar!hh>> \in Small
       /\ \A e \in plain : e \in Small
  <2>1. <<Similar!ll, Similar!yy>> \in Small /\ <<Similar!ee, Similar!rr>> \in Small
        /\ <<Similar!ee, Similar!ss, Similar!tt>> \in Small
    BY LettersAreSmall, EndingsAreSmall
  <2>2. ing \in Small /\ ed \in Small  BY LettersAreSmall, EndingsAreSmall
  <2>3. ied \in Small /\ ies \in Small /\ es \in Small  BY LettersAreSmall, EndingsAreSmall
  <2>4. <<Similar!ss>> \in Small /\ <<Similar!dd>> \in Small /\ <<c>> \in Small
    BY <1>6, LettersAreSmall, EndingsAreSmall
  <2>5. <<Similar!cc, Similar!hh>> \in Small /\ <<Similar!ss, Similar!hh>> \in Small
    BY LettersAreSmall, EndingsAreSmall
  <2> QED BY <2>1, <2>2, <2>3, <2>4, <2>5
<1>11. Len(v) > 2  BY <1>2, <1>5
<1>12. CASE w = v \o <<Similar!ss>>
  <2>1. Has(Similar!CutLetter(f), x)  BY <1>1, <1>11, <1>12, LettersAreSmall, LetterIsCut
  <2> QED BY <1>5, <1>8, <1>10, <1>12, <2>1 DEF HasCut
<1>13. CASE \E e \in plain : w = v \o e
  <2>1. PICK e \in plain : w = v \o e  BY <1>13
  <2>2. HasCut(f, x)  BY <1>1, <1>11, <2>1, EndingIsCut
  <2> QED BY <1>5, <1>8, <1>10, <2>1, <2>2
<1>14. CASE c = Similar!ee /\ w = v \o <<Similar!dd>>
  <2>1. s # <<>> /\ v = s \o <<Similar!ee>>  BY <1>6, <1>7, <1>14
  <2>2. Has(Similar!CutLetter(f), x)
    BY <1>1, <1>6, <1>11, <1>14, <2>1, LettersAreSmall, LetterIsCut
  <2> QED BY <1>5, <1>8, <1>10, <1>14, <2>2 DEF HasCut
<1>15. Sought(k, s \o <<c>>, x)  BY <1>6
<1>16. CASE c = Similar!ee /\ w = s \o ing
  <2>1. HasCut(f, x)  BY <1>1, <1>6, <1>7, <1>15, <1>16, LetterIsAdded
  <2> QED BY <1>6, <1>7, <1>8, <1>10, <1>16, <2>1
<1>17. CASE c = Similar!yy /\ w = s \o ied
  <2>1. HasCut(f, x)  BY <1>1, <1>6, <1>7, <1>15, <1>17, LetterIsAdded
  <2> QED BY <1>6, <1>7, <1>8, <1>10, <1>17, <2>1
<1>18. CASE c = Similar!yy /\ w = s \o ies
  <2>1. HasCut(f, x)  BY <1>1, <1>6, <1>7, <1>15, <1>18, LetterIsAdded
  <2> QED BY <1>6, <1>7, <1>8, <1>10, <1>18, <2>1
<1>19. CASE w = v \o es /\ c \in {Similar!ss, Similar!xx, Similar!oo}
  <2>1. PICK b : b = <<c>>  OBVIOUS
  <2>2. b \in {<<Similar!ss>>, <<Similar!xx>>, <<Similar!oo>>,
               <<Similar!cc, Similar!hh>>, <<Similar!ss, Similar!hh>>}
    BY <1>19, <2>1
  <2>3. v = s \o b  BY <1>6, <2>1
  <2>4. Has(Similar!CutEs(f), x)  BY <1>1, <1>6, <1>7, <1>11, <1>19, <2>2, <2>3, EsIsCut
  <2> QED BY <1>5, <1>8, <1>10, <1>19, <2>4 DEF HasCut
<1>20. CASE w = v \o es /\ (\/ Similar!Ends(v, <<Similar!cc, Similar!hh>>)
                            \/ Similar!Ends(v, <<Similar!ss, Similar!hh>>))
  <2>1. PICK b \in {<<Similar!cc, Similar!hh>>, <<Similar!ss, Similar!hh>>} : Similar!Ends(v, b)
    BY <1>20
  <2>2. b \in Small /\ Len(b) = 2  BY <1>10, <2>1
  <2>3. PICK a \in Small : v = a \o b /\ Len(v) = Len(a) + Len(b)  BY <2>1, <2>2, EndsApart
  <2>4. a # <<>>
    <3>1. Len(a) \in Nat  BY <2>3, SmallIs
    <3>2. Len(a) > 0  BY <1>11, <2>2, <2>3, <3>1
    <3> QED BY <2>3, <3>2, LongIsSome
  <2>5. Has(Similar!CutEs(f), x)  BY <1>1, <1>11, <1>20, <2>1, <2>3, <2>4, EsIsCut
  <2> QED BY <1>5, <1>8, <1>10, <1>20, <2>5 DEF HasCut
<1>21. CASE /\ ~Similar!bIsVowel(c) /\ Similar!bIsVowel(v[n - 1])
            /\ w = (v \o <<c>>) \o ing \/ w = (v \o <<c>>) \o ed
  <2>1. PICK e \in {ing, ed} : w = (v \o <<c>>) \o e  BY <1>21
  <2>2. HasCut(f, x)  BY <1>1, <1>2, <1>3, <1>11, <1>21, <2>1, DoubleIsCut
  <2>3. PICK d : d = v \o <<c>>  OBVIOUS
  <2>4. d \in Small /\ d # <<>>
    <3>1. d \in Small /\ Len(d) = Len(v) + Len(<<c>>) /\ Len(<<c>>) = 1
      BY <1>10, <2>3, SmallJoin
    <3>2. Len(d) > 0  BY <1>2, <1>5, <3>1
    <3> QED BY <3>1, <3>2, LongIsSome
  <2> QED BY <1>8, <1>10, <2>1, <2>2, <2>3, <2>4
<1> QED BY <1>9, <1>12, <1>13, <1>14, <1>16, <1>17, <1>18, <1>19, <1>20, <1>21

\* For every input that is a string, a word alike is found.
LEMMA SimilarOfStrings ==
    ASSUME StringsTyped
    PROVE  SimilarIsFound
<1>1. ASSUME function = "cases", input # <<>>,
             NEW u \in [DOMAIN input -> Letters["cases"]], NEW v \in [DOMAIN input -> Letters["cases"]],
             Similar!SameButCase(u, input), Similar!SameButCase(v, input),
             NEW all, all = {u, v} \union OtherWords
      PROVE  /\ Similar!SimpleLookupWord(all, input).found # <<>>
             /\ Similar!SameButCase(Similar!SimpleLookupWord(all, input).found, input)
             /\ Similar!SimpleLookupSynonymWord(all, input).found = Similar!SimpleLookupWord(all, input).found
  <2>1. Letters["cases"] \subseteq Nat /\ input \in Seq(Letters["cases"])
    BY <1>1, InputsAssumption DEF StringsTyped
  <2>2. input \in Seq(Nat)  BY <2>1, LettersWiden
  <2>3. PICK n \in Nat : n = Len(input) /\ DOMAIN input = 1 .. n  BY <2>2, LenProperties
  <2>4. u \in Seq(Nat) /\ v \in Seq(Nat)
    <3>1. u \in [1 .. n -> Letters["cases"]] /\ v \in [1 .. n -> Letters["cases"]]  BY <2>3
    <3>2. u \in Seq(Letters["cases"]) /\ v \in Seq(Letters["cases"])  BY <3>1
    <3> QED BY <2>1, <3>2, LettersWiden
  <2>5. IsFiniteSet(OtherWords) /\ OtherWords \subseteq Seq(Nat)
    BY InputsAssumption DEF Similar!IsFiniteSet, IsFiniteSet
  <2>6. IsDictionary(all)
    <3>1. IsFiniteSet({u, v})
      <4>1. PICK U : U = {u}  OBVIOUS
      <4>2. PICK V : V = {v}  OBVIOUS
      <4>3. IsFiniteSet(U) /\ IsFiniteSet(V)  BY <4>1, <4>2, FS_Singleton
      <4>4. IsFiniteSet(U \union V)  BY <4>3, FS_Union
      <4>5. U \union V = {u, v}  BY <4>1, <4>2
      <4> QED BY <4>4, <4>5
    <3>2. IsFiniteSet({u, v} \union OtherWords)  BY <2>5, <3>1, FS_Union
    <3> QED BY <1>1, <2>4, <2>5, <3>2 DEF IsDictionary
  <2>7. u \in all  BY <1>1
  <2> QED BY <1>1, <2>2, <2>6, <2>7, AlikeIsFound
<1>2. ASSUME function = "inflection", Len(input) > 2, NEW w \in Similar!Inflections(input)
      PROVE  /\ \A form \in {w, Similar!Up(w), Similar!Title(w)} :
                   Similar!SimpleLookupWord({input}, form).found = input
             /\ Similar!SimpleLookupWord({Similar!Up(input)}, Similar!Up(w)).found = Similar!Up(input)
  <2>1. Letters["inflection"] \subseteq 97 .. 122 /\ input \in Seq(Letters["inflection"])
    BY <1>2, InputsAssumption DEF StringsTyped
  <2>2. input \in Small
    <3>1. input \in Seq(97 .. 122)  BY <2>1, LettersWiden
    <3> QED BY <3>1 DEF Small
  <2>3. \A k \in Cases : Sought(k, input, input)  BY DEF Sought
  <2>4. w \in Small /\ w # <<>>
        /\ \A k \in Cases : Has(Similar!EndingVariants(InCase(k, w)), input)
    <3>1. "small" \in Cases  BY DEF Cases
    <3> QED BY <1>2, <2>2, <2>3, <3>1, InflectionIsCut
  <2>5. input \in Seq(Nat)  BY <2>2, SmallIs
  <2>6. \A k \in Cases : Similar!SimpleLookupWord({input}, InCase(k, w)).found = input
    BY <2>4, <2>5, OnlyWordIsFound
  <2>7. InCase("small", w) = w /\ InCase("capitals", w) = Similar!Up(w)
        /\ InCase("capitalised", w) = Similar!Title(w)
    BY <2>4, CasesAre
  <2>8. \A form \in {w, Similar!Up(w), Similar!Title(w)} :
           Similar!SimpleLookupWord({input}, form).found = input
    BY <2>6, <2>7 DEF Cases
  <2>9. PICK x : x = Similar!Up(input)  OBVIOUS
  <2>10. x \in Seq(Nat) /\ x = InCase("capitals", input)  BY <2>2, <2>5, <2>9, UpIs, CasesAre
  <2>11. Has(Similar!EndingVariants(InCase("capitals", w)), x)
    <3>1. Sought("capitals", input, x) /\ "capitals" \in Cases  BY <2>10 DEF Sought, Cases
    <3> QED BY <1>2, <2>2, <3>1, InflectionIsCut
  <2>12. Similar!SimpleLookupWord({x}, Similar!Up(w)).found = x
    BY <2>7, <2>10, <2>11, OnlyWordIsFound
  <2> QED BY <2>8, <2>9, <2>12
<1> QED BY <1>1, <1>2, Zenon DEF SimilarIsFound

\* LookupSimilarWord finds a word of which only the case is not that of the word
\* sought, wherever it stands in any dictionary, and the word an English inflection
\* is of, in small letters, capitals or capitalised: for words of any length.
THEOREM SimilarIsAlwaysFound == InputSpec => []SimilarIsFound
<1>1. StringsTyped => SimilarIsFound  BY SimilarOfStrings
<1> QED BY <1>1, StringsAlwaysTyped, PTL
=============================================================================
