--------------------------- MODULE WordNavigation ---------------------------
(***************************************************************************)
(* Walking through the words of several dictionaries as if they were one   *)
(* sorted list: poGetCurrentWord, poGetNextWord and poGetPreWord of Libs   *)
(* (stddict.cpp 2232-2518), which the word list of lookup and the commands *)
(* next and previous call once per word (stardictdmain.cpp 548-595).       *)
(*                                                                         *)
(* Each dictionary of the mask has two cursors, one in its index and one   *)
(* in its synonyms.  Here they are the columns of one row, in the order of *)
(* the loops: first every index, then every synonym file.                  *)
(*                                                                         *)
(* A word read is a pointer into the one page its file has in memory, and  *)
(* the functions compare and return such pointers: reading another page of *)
(* the file changes what they point at.                                    *)
(*                                                                         *)
(* Words are integers in the order of stardict_server_collate(), which is  *)
(* total and tells all different words apart.                              *)
(***************************************************************************)
EXTENDS Integers, Sequences, FiniteSetsExt

CONSTANTS
    Words,         \* the words of dictionaries and queries
    Dicts,         \* the dictionaries
    Synonyms,      \* those with a synonym file
    Masks,         \* the values of query_dictmask: sequences of dictionaries
    MaxLength,     \* bound on the number of words of a file
    MaxCount,      \* bound on the words a list may have
    PageOf(_, _),  \* the page of a file its word at a position is on
    NoWord         \* NULL

ASSUME NavigationAssumption ==
    /\ Words \subseteq Int /\ NoWord \notin Words
    /\ Synonyms \subseteq Dicts /\ Masks \subseteq Seq(Dicts) \ {<<>>}
    /\ MaxLength \in Nat \ {0} /\ MaxCount \in Nat \ {0}

UNSET_INDEX == -1
INVALID_INDEX == -100

VARIABLES
    words,    \* the words of each file, sorted
    mask,     \* query_dictmask
    page,     \* the page of each file in memory
    cur,      \* iCurrent: the position of each column
    command,  \* what is executed: "none", "lookup", "next" or "previous"
    pc,       \* the loop it is in: see Steps
    col,      \* the column the loop is at (iLib)
    ptr,      \* poCurrentWord: a column and a position in its file
    key,      \* sWord, NoWord in every call but the first
    sent,     \* the words sent
    places,   \* maxwordcount
    goal,     \* history: the words that were to be sent
    fresh     \* history: each word read through poCurrentWord was the one it was set to

vars == <<words, mask, page, cur, command, pc, col, ptr, key, sent, places, goal, fresh>>

Steps == {"idle", "choose", "skip", "advance", "current", "send",
          "choosePrev", "skipPrev", "stepBack"}

Files == (Dicts \X {"idx"}) \cup (Synonyms \X {"syn"})

Sorted(s) == \A i, j \in 1 .. Len(s) : i <= j => s[i] <= s[j]

Positions(f) == 0 .. Len(words[f]) - 1
Last(f) == Len(words[f]) - 1
At(f, p) == words[f][p + 1]
Pages(f) == {PageOf(f, p) : p \in Positions(f)}

Columns == 1 .. 2 * Len(mask)
FileOf(c) == IF c <= Len(mask) THEN <<mask[c], "idx">> ELSE <<mask[c - Len(mask)], "syn">>
HasFile(c) == FileOf(c) \in Files

Unset == [c \in Columns |-> UNSET_INDEX]
NoPtr == <<0, 0>>

\* The page of the pointer p is in memory.
InPage(p, pages) == pages[FileOf(p[1])] = PageOf(FileOf(p[1]), p[2])

\* The word a pointer points at: any, once the page is another one.
Texts(p, pages) == IF InPage(p, pages) THEN {At(FileOf(p[1]), p[2])} ELSE Words

Init ==
    /\ words \in [Files -> UNION {{s \in [1 .. n -> Words] : Sorted(s)} : n \in 1 .. MaxLength}]
    /\ mask \in Masks
    /\ page = [f \in Files |-> PageOf(f, Last(f))]
    /\ cur = Unset
    /\ command = "none" /\ pc = "idle" /\ col = 1 /\ ptr = NoPtr /\ key = NoWord
    /\ sent = <<>> /\ places = 1 /\ goal = {} /\ fresh = TRUE

\* Where Lookup() puts the cursor of a column: on the word, if it is there, else
\* on the first greater one (module IndexLookup).
Places(c, w) ==
    LET f == FileOf(c)
        same == {p \in Positions(f) : At(f, p) = w}
        above == {p \in Positions(f) : At(f, p) > w} IN
    IF ~HasFile(c) THEN {UNSET_INDEX}
    ELSE IF same # {} THEN same
    ELSE IF above # {} THEN {Min(above)} ELSE {INVALID_INDEX}

AllWords == UNION {{At(FileOf(c), p) : p \in Positions(FileOf(c))} : c \in {d \in Columns : HasFile(d)}}
Above(w) == {v \in AllWords : v > w}
Below(w) == {v \in AllWords : v < w}

\* The words at or after the cursors.
WordsFrom(row) ==
    UNION {{At(FileOf(c), p) : p \in row[c] .. Last(FileOf(c))} : c \in {d \in Columns : row[d] >= 0}}

Idle == pc = "idle"

Begin(cmd, step, w) ==
    /\ Idle
    /\ command' = cmd /\ pc' = step /\ key' = w
    /\ col' = 1 /\ ptr' = NoPtr /\ sent' = <<>> /\ fresh' = TRUE
    /\ places' \in 1 .. MaxCount
    /\ UNCHANGED <<words, mask, page>>

\* lookup: SimpleLookupToTextWin found the word itself, or one like it, in each
\* dictionary on its own; its cursors may be anywhere.
ListWords ==
    /\ Begin("lookup", "current", NoWord)
    /\ cur' \in [Columns -> {UNSET_INDEX, INVALID_INDEX} \cup 0 .. MaxLength - 1]
    /\ \A c \in Columns :
          cur'[c] \in IF HasFile(c) THEN {INVALID_INDEX} \cup Positions(FileOf(c)) ELSE {UNSET_INDEX}
    /\ \A b, c \in Columns : FileOf(b) = FileOf(c) => cur'[b] = cur'[c]
    /\ goal' = WordsFrom(cur')

\* The first word from w on is passed over, whether it is w or not.
NextWords(w) ==
    /\ Begin("next", "choose", w)
    /\ goal' = IF Above(w - 1) = {} THEN {} ELSE Above(Min(Above(w - 1)))
    /\ UNCHANGED cur

PreviousWords(w) ==
    /\ Begin("previous", "choosePrev", w)
    /\ goal' = Below(w)
    /\ UNCHANGED cur

\* The call with the word looks it up in the column first, which leaves some
\* page of the file in memory.
Searching == key # NoWord /\ pc # "current"

\* The same file answers the same lookup with the same position.
Cursors(c) ==
    IF Searching
    THEN {p \in Places(c, key) : \A b \in 1 .. c - 1 : FileOf(b) = FileOf(c) => p = cur[b]}
    ELSE {cur[c]}

AfterLookup(c) ==
    IF ~Searching \/ ~HasFile(c) THEN {page}
    ELSE {[page EXCEPT ![FileOf(c)] = g] : g \in Pages(FileOf(c))}

\* getWord(): the page of the word is in memory.
Read(pages, c, p) == [pages EXCEPT ![FileOf(c)] = PageOf(FileOf(c), p)]

\* A word is read through poCurrentWord.
ReadPointer(pages) == fresh' = (fresh /\ InPage(ptr, pages))

LoopEnds(from, to) ==
    /\ pc = from /\ col \notin Columns
    /\ pc' = to /\ col' = 1
    /\ UNCHANGED <<words, mask, page, cur, command, ptr, key, sent, places, goal, fresh>>

\* The loops that look for the least word at a cursor: in poGetCurrentWord, and
\* the first two of poGetNextWord.
Choose ==
    /\ pc \in {"choose", "current"} /\ col \in Columns
    /\ \E p \in Cursors(col), looked \in AfterLookup(col) :
          /\ cur' = [cur EXCEPT ![col] = p]
          /\ \/ p < 0 /\ page' = looked /\ UNCHANGED <<ptr, fresh>>
             \/ /\ p >= 0
                /\ page' = Read(looked, col, p)
                /\ \/ ptr = NoPtr /\ ptr' = <<col, p>> /\ UNCHANGED fresh
                   \/ /\ ptr # NoPtr /\ ReadPointer(page')
                      /\ \E t \in Texts(ptr, page') :
                            ptr' = IF t > At(FileOf(col), p) THEN <<col, p>> ELSE ptr
    /\ col' = col + 1
    /\ UNCHANGED <<words, mask, command, pc, key, sent, places, goal>>

Chosen == LoopEnds("choose", IF ptr = NoPtr THEN "send" ELSE "skip")

\* GetWordNext(): past all entries of the same word.
NextPos(f, p) ==
    IF \E q \in Positions(f) : q > p /\ At(f, q) # At(f, p)
    THEN Min({q \in Positions(f) : q > p /\ At(f, q) # At(f, p)})
    ELSE INVALID_INDEX

\* It reads as far as the word it finds, or the last one.
Advance(c, pages) ==
    LET f == FileOf(c)
        n == NextPos(f, cur[c]) IN
    /\ cur' = [cur EXCEPT ![c] = n]
    /\ page' = Read(pages, c, IF n = INVALID_INDEX THEN Last(f) ELSE n)

\* Mutant: the column chosen is not left for the end.
SkipEqualChosen ==
    /\ pc = "skip" /\ col \in Columns
    /\ \/ /\ cur[col] < 0
          /\ UNCHANGED <<cur, page, fresh>>
       \/ /\ cur[col] >= 0
          /\ LET pages == Read(page, col, cur[col]) IN
             /\ ReadPointer(pages)
             /\ \E t \in Texts(ptr, pages) :
                   IF t = At(FileOf(col), cur[col]) THEN Advance(col, pages)
                                                    ELSE page' = pages /\ UNCHANGED cur
    /\ col' = col + 1
    /\ UNCHANGED <<words, mask, command, pc, ptr, key, sent, places, goal>>

\* Mutant: columns that hold the same word stay where they are.
SkipEqualStays ==
    /\ pc = "skip" /\ col \in Columns
    /\ \/ /\ col = ptr[1] \/ cur[col] < 0
          /\ UNCHANGED <<cur, page, fresh>>
       \/ /\ col # ptr[1] /\ cur[col] >= 0
          /\ page' = Read(page, col, cur[col]) /\ ReadPointer(page') /\ UNCHANGED cur
    /\ col' = col + 1
    /\ UNCHANGED <<words, mask, command, pc, ptr, key, sent, places, goal>>

\* The other columns that hold the word chosen go past it.
SkipEqual ==
    /\ pc = "skip" /\ col \in Columns
    /\ \/ /\ col = ptr[1] \/ cur[col] < 0
          /\ UNCHANGED <<cur, page, fresh>>
       \/ /\ col # ptr[1] /\ cur[col] >= 0
          /\ LET pages == Read(page, col, cur[col]) IN
             /\ ReadPointer(pages)
             /\ \E t \in Texts(ptr, pages) :
                   IF t = At(FileOf(col), cur[col]) THEN Advance(col, pages)
                                                    ELSE page' = pages /\ UNCHANGED cur
    /\ col' = col + 1
    /\ UNCHANGED <<words, mask, command, pc, ptr, key, sent, places, goal>>

Skipped == LoopEnds("skip", "advance")

\* "GetWordNext will change poCurrentWord's content, so do it at the last."
AdvanceChosen ==
    /\ pc = "advance"
    /\ Advance(ptr[1], page)
    /\ pc' = "current" /\ ptr' = NoPtr
    /\ UNCHANGED <<words, mask, command, col, key, sent, places, goal, fresh>>

CurrentFound == LoopEnds("current", "send")

\* GetWordPrev(): the last entry of the word before, or none.
PrevPos(f, p) ==
    LET before == {q \in Positions(f) : q < p /\ At(f, q) # At(f, p)} IN
    IF p = INVALID_INDEX THEN Last(f)
    ELSE IF before # {} THEN Max(before) ELSE UNSET_INDEX

\* The columns poGetPreWord passes over.
NoneBefore(p) == p # INVALID_INDEX /\ p <= 0

\* poGetPreWord looks for the greatest word before a cursor.
ChoosePrev ==
    /\ pc = "choosePrev" /\ col \in Columns
    /\ \E p \in Cursors(col), looked \in AfterLookup(col) :
          LET f == FileOf(col)
              q == PrevPos(f, p) IN
          /\ cur' = [cur EXCEPT ![col] = p]
          /\ \/ NoneBefore(p) /\ page' = looked /\ UNCHANGED <<ptr, fresh>>
             \/ /\ ~NoneBefore(p) /\ q = UNSET_INDEX
                /\ page' = Read(looked, col, 0) /\ UNCHANGED <<ptr, fresh>>
             \/ /\ ~NoneBefore(p) /\ q # UNSET_INDEX
                /\ page' = Read(looked, col, q)
                /\ \/ ptr = NoPtr /\ ptr' = <<col, q>> /\ UNCHANGED fresh
                   \/ /\ ptr # NoPtr /\ ReadPointer(page')
                      /\ \E t \in Texts(ptr, page') :
                            ptr' = IF t < At(f, q) THEN <<col, q>> ELSE ptr
    /\ col' = col + 1
    /\ UNCHANGED <<words, mask, command, pc, key, sent, places, goal>>

ChosenPrev == LoopEnds("choosePrev", IF ptr = NoPtr THEN "send" ELSE "skipPrev")

\* The other columns before which the same word stands go back to it.
SkipPrev ==
    /\ pc = "skipPrev" /\ col \in Columns
    /\ \/ /\ col = ptr[1] \/ NoneBefore(cur[col])
          /\ UNCHANGED <<cur, page, fresh>>
       \/ /\ col # ptr[1] /\ ~NoneBefore(cur[col])
          /\ LET f == FileOf(col)
                 q == PrevPos(f, cur[col]) IN
             \/ q = UNSET_INDEX /\ page' = Read(page, col, 0) /\ UNCHANGED <<cur, fresh>>
             \/ /\ q # UNSET_INDEX
                /\ page' = Read(page, col, q) /\ ReadPointer(page')
                /\ \E t \in Texts(ptr, page') :
                      cur' = IF t = At(f, q) THEN [cur EXCEPT ![col] = q] ELSE cur
    /\ col' = col + 1
    /\ UNCHANGED <<words, mask, command, pc, ptr, key, sent, places, goal>>

SkippedPrev == LoopEnds("skipPrev", "stepBack")

\* Reads the same words as when the column was chosen, and ends on the same page.
StepBack ==
    /\ pc = "stepBack"
    /\ LET c == ptr[1]
           q == PrevPos(FileOf(c), cur[c]) IN
       /\ cur' = [cur EXCEPT ![c] = q]
       /\ page' = IF cur[c] = INVALID_INDEX THEN page ELSE Read(page, c, q)
    /\ pc' = "send"
    /\ UNCHANGED <<words, mask, command, col, ptr, key, sent, places, goal, fresh>>

\* The word goes to the client, and the next call begins unless that was the last.
Send ==
    /\ pc = "send" /\ ptr # NoPtr
    /\ ReadPointer(page)
    /\ \E t \in Texts(ptr, page) : sent' = Append(sent, t)
    /\ \/ /\ Len(sent') < places
          /\ pc' = IF command = "previous" THEN "choosePrev" ELSE "choose"
          /\ UNCHANGED cur
       \/ /\ Len(sent') = places
          /\ pc' = "idle" /\ cur' = Unset
    /\ ptr' = NoPtr /\ key' = NoWord
    /\ UNCHANGED <<words, mask, page, command, col, places, goal>>

\* NULL: no dictionary has another word.
Exhausted ==
    /\ pc = "send" /\ ptr = NoPtr
    /\ pc' = "idle" /\ key' = NoWord /\ cur' = Unset
    /\ UNCHANGED <<words, mask, page, command, col, ptr, sent, places, goal, fresh>>

Walk == Choose \/ Chosen \/ SkipEqual \/ Skipped \/ AdvanceChosen \/ CurrentFound
        \/ ChoosePrev \/ ChosenPrev \/ SkipPrev \/ SkippedPrev \/ StepBack \/ Send \/ Exhausted

Next ==
    \/ ListWords
    \/ \E w \in Words : NextWords(w) \/ PreviousWords(w)
    \/ Walk

Spec == Init /\ [][Next]_vars

-----------------------------------------------------------------------------
(* Properties.                                                             *)

Row == [Columns -> {UNSET_INDEX, INVALID_INDEX} \cup 0 .. MaxLength - 1]

TypeOK ==
    /\ page \in [Files -> UNION {Pages(f) : f \in Files}]
    /\ cur \in Row /\ pc \in Steps /\ col \in 1 .. 2 * Len(mask) + 1
    /\ \A c \in Columns : cur[c] >= 0 => HasFile(c) /\ cur[c] \in Positions(FileOf(c))
    /\ \A c \in Columns : HasFile(c) \/ cur[c] = UNSET_INDEX
    /\ ptr # NoPtr => ptr[1] \in Columns /\ ptr[2] \in Positions(FileOf(ptr[1]))
    /\ key \in Words \cup {NoWord}
    /\ \A i \in 1 .. Len(sent) : sent[i] \in Words

\* A column of another file is still to be compared with the pointer.
Compares ==
    \E c \in Columns :
        /\ c >= col /\ HasFile(c) /\ FileOf(c) # FileOf(ptr[1])
        /\ Searching \/ cur[c] >= 0

\* In the loops over equal words another cursor of the pointer's file has gone on.
Overtaken == pc = "skip" /\ \E c \in Columns : c < col /\ c # ptr[1] /\ FileOf(c) = FileOf(ptr[1])

\* poCurrentWord still points at the word it was set to when it is compared or
\* sent: no step reads another page of its file in between, but for masks that
\* name its dictionary twice, where the second cursor goes on before the loops
\* over equal words are done.
PointerFresh ==
    /\ TypeOK
    /\ fresh /\ ptr # NoPtr /\ (pc = "send" \/ (pc \notin {"advance", "stepBack"} /\ Compares)) =>
        Texts(ptr, page) = {At(FileOf(ptr[1]), ptr[2])} \/ Overtaken
    /\ ~fresh => \E b, c \in Columns : b # c /\ FileOf(b) = FileOf(c)

Wanted ==
    IF sent = <<>> THEN goal
    ELSE {w \in goal : IF command = "previous" THEN w < sent[Len(sent)] ELSE w > sent[Len(sent)]}

List == INSTANCE WordList WITH
    wanted <- Wanted, sent <- sent, down <- command = "previous", places <- places,
    open <- pc # "idle"

\* However words, homographs and synonyms are spread over the files and their
\* pages, and whichever dictionaries the mask names twice, a list holds the words
\* after the cursors (before the word, for previous), each once, in order and with
\* none left out, up to the first word read from a page that has been replaced.
KeepsPromise == List!Init /\ [][fresh' => [List!Next]_(List!vars)]_vars

=============================================================================
