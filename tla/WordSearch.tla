----------------------------- MODULE WordSearch -----------------------------
(***************************************************************************)
(* The searches that look at every word (stddict.cpp, LookupWithFuzzy,     *)
(* LookupWithRule, LookupWithRegex, LookupData): the files of the mask are *)
(* read one after the other, of each dictionary the index and then the     *)
(* synonyms, and the words that qualify are gathered in a list of bounded  *)
(* size.                                                                   *)
(*                                                                         *)
(* A fuzzy search fills ListSize places.  They all start with the greatest *)
(* distance; a better word replaces one of the worst, and what must be     *)
(* beaten, max, is computed again.  A pattern takes the first Limit words  *)
(* that match in each file.  A search in the articles takes the words whose*)
(* article has what is sought.                                             *)
(*                                                                         *)
(* A word is a number, in the order of stardict_strcmp; its distance to    *)
(* the query is what CalEditDistance returns below the limit (EditDistance)*)
(* for the word in lower case, cut to the length of the query.             *)
(***************************************************************************)
EXTENDS Integers, Sequences, FiniteSets, SequencesExt

CONSTANTS
    Words,       \* integers, 0 is not one of them
    Length,      \* the characters of each word
    Distance,    \* its distance to the query
    QueryLength, \* the characters of the query
    Matches,     \* the words that match the pattern or regular expression
    MaxDistance, \* iMaxFuzzyDistance
    ListSize,    \* MAX_FUZZY_MATCH_ITEM
    Limit,       \* MAX_MATCH_ITEM_PER_LIB
    Masks        \* what a mask may be: sequences of the files to be read

NoWord == 0

\* A file is an index or a file of synonyms, with its words in order.
File == [lib : Nat, kind : {"idx", "syn"}, words : Seq(Words)]

ASSUME SearchAssumption ==
    /\ Words \subseteq Nat \ {NoWord}
    /\ Length \in [Words -> Nat] /\ Distance \in [Words -> Nat]
    /\ QueryLength \in Nat \ {0}
    /\ Matches \subseteq Words
    /\ MaxDistance \in Nat \ {0} /\ ListSize \in Nat \ {0} /\ Limit \in Nat \ {0}
    /\ Masks \subseteq Seq(File)

\* The words of an index are in order, and a mask has the index of one
\* dictionary after that of another: a dictionary is its position in the mask.
ASSUME OrderAssumption ==
    \A m \in Masks : \A g \in DOMAIN m : m[g].kind = "idx" =>
        /\ \A j, k \in DOMAIN m[g].words : j < k => m[g].words[j] <= m[g].words[k]
        /\ \A h \in DOMAIN m : m[h].kind = "idx" /\ g < h => m[g].lib < m[h].lib

VARIABLES
    method, \* "fuzzy", "pattern" (rules and regular expressions) or "data"
    files,  \* the files of the mask
    f,      \* the file in hand
    index,  \* the next word in it
    slots,  \* oFuzzystruct
    max,    \* iMaxDistance
    count,  \* iIndexCount: matches taken from the file in hand
    list,   \* ppMatchWord; of a search in articles, reslist with its library
    hits,   \* history: the entries whose article had what was sought
    answer  \* reslist as the caller reads it, when done

vars == <<method, files, f, index, slots, max, count, list, hits, answer>>

Places == 1 .. ListSize
Slot == [word : Words \cup {NoWord}, distance : Nat]
Running == f <= Len(files)
Word == files[f].words[index]
HasWord == Running /\ index <= Len(files[f].words)

Init ==
    /\ method \in {"fuzzy", "pattern", "data"}
    /\ files \in Masks
    /\ f = 1 /\ index = 1
    /\ slots = [j \in Places |-> [word |-> NoWord, distance |-> MaxDistance]]
    /\ max = MaxDistance
    /\ count = 0 /\ list = <<>> /\ hits = {} /\ answer = <<>>

Forward == index' = index + 1 /\ UNCHANGED <<method, files, f, answer>>

-----------------------------------------------------------------------------
(* Fuzzy search.                                                           *)

LengthDifference(w) ==
    IF Length[w] > QueryLength THEN Length[w] - QueryLength ELSE QueryLength - Length[w]

Qualifies(w) ==
    /\ LengthDifference(w) < max
    /\ Distance[w] < max /\ Distance[w] < QueryLength

ListedFirst(w) == slots[1].word = w
Listed(w) == \E j \in Places : slots[j].word = w

\* The last of the worst places, or the first place if max is nowhere (which
\* the comment at 3068 rules out).
IsWorst(j) ==
    IF \E k \in Places : slots[k].distance = max
    THEN /\ slots[j].distance = max
         /\ \A k \in Places : k > j => slots[k].distance # max
    ELSE j = 1

Greatest(s) ==
    {m \in {s[j].distance : j \in Places} : \A j \in Places : s[j].distance <= m}

PassOver ==
    /\ method = "fuzzy" /\ HasWord
    /\ ~Qualifies(Word) \/ Listed(Word)
    /\ Forward
    /\ UNCHANGED <<slots, max, count, list, hits>>

Replace ==
    /\ method = "fuzzy" /\ HasWord
    /\ Qualifies(Word) /\ ~Listed(Word)
    /\ \E j \in Places :
         /\ IsWorst(j)
         /\ slots' = [slots EXCEPT ![j] = [word |-> Word, distance |-> Distance[Word]]]
    /\ max' \in Greatest(slots')
    /\ Forward
    /\ UNCHANGED <<count, list, hits>>

-----------------------------------------------------------------------------
(* Patterns: aiIndex holds the first Limit matches of a file, which are    *)
(* then added to the list unless they are in it.                           *)

TakeMatch ==
    /\ method = "pattern" /\ HasWord
    /\ Word \in Matches /\ count < Limit
    /\ count' = count + 1
    /\ list' = IF Contains(list, Word) THEN list ELSE Append(list, Word)
    /\ Forward
    /\ UNCHANGED <<slots, max, hits>>

LeaveWord ==
    /\ method = "pattern" /\ HasWord
    /\ Word \notin Matches \/ count >= Limit
    /\ Forward
    /\ UNCHANGED <<slots, max, count, list, hits>>

-----------------------------------------------------------------------------
(* Articles: the words of the index files only; a homograph is listed once.*)

Key(lib, w) == [lib |-> lib, word |-> w]

ReadArticle ==
    /\ method = "data" /\ HasWord /\ files[f].kind = "idx"
    /\ \/ UNCHANGED <<list, hits>>
       \/ LET key == Key(files[f].lib, Word)
          IN /\ hits' = hits \cup {<<f, index>>}
             /\ list' = IF list # <<>> /\ Last(list) = key THEN list ELSE Append(list, key)
    /\ Forward
    /\ UNCHANGED <<slots, max, count>>

-----------------------------------------------------------------------------

EndFile ==
    /\ Running
    /\ ~HasWord \/ (method = "data" /\ files[f].kind = "syn")
    /\ f' = f + 1 /\ index' = 1 /\ count' = 0
    /\ UNCHANGED <<method, files, slots, max, list, hits, answer>>

\* Fuzzystruct's operator<: by distance, then by word; of two empty places
\* or a word and an empty place at one distance neither is less.
Before(a, b) ==
    IF a.distance # b.distance THEN a.distance < b.distance
    ELSE a.word # NoWord /\ b.word # NoWord /\ a.word < b.word

\* A word is a number: its place in the order of stardict_strcmp.
less_for_compare(lh, rh) == lh < rh

\* What std::sort() makes of s: an element follows those that are less than it
\* (and, if neither of two is less, the one that was before it).
InOrder(s, Less(_, _)) ==
    LET Earlier(i) == {j \in DOMAIN s :
                          Less(s[j], s[i]) \/ (j < i /\ ~Less(s[i], s[j]))}
    IN [n \in DOMAIN s |-> s[CHOOSE i \in DOMAIN s : Cardinality(Earlier(i)) = n - 1]]

\* s[1 .. n] where n + 1 is the first empty place: the caller reads so far.
UntilEmpty(s) ==
    LET empty == {j \in DOMAIN s : s[j].word = NoWord}
        n == IF empty = {} THEN Len(s) ELSE (CHOOSE j \in empty : \A k \in empty : j <= k) - 1
    IN [j \in 1 .. n |-> s[j].word]

Unsorted(s) == IF method = "fuzzy" THEN UntilEmpty(s) ELSE s
Sorted(s) ==
    IF method = "fuzzy" THEN UntilEmpty(InOrder(s, Before))
    ELSE IF method = "pattern" THEN InOrder(s, less_for_compare)
    ELSE s

Finish ==
    /\ f = Len(files) + 1
    /\ f' = f + 1
    /\ answer' = Sorted(IF method = "fuzzy" THEN slots ELSE list)
    /\ UNCHANGED <<method, files, index, slots, max, count, list, hits>>

Next == PassOver \/ Replace \/ TakeMatch \/ LeaveWord \/ ReadArticle \/ EndFile \/ Finish
Spec == Init /\ [][Next]_vars

-----------------------------------------------------------------------------
(* Properties.                                                             *)

\* The types of the variables; the list of patterns stays within the
\* 2 * Limit places for each dictionary that the callers allocate
\* (stardictdmain.cpp 464, 483).
TypeOK ==
    /\ method \in {"fuzzy", "pattern", "data"}
    /\ files \in Seq(File)
    /\ f \in 1 .. Len(files) + 2 /\ index \in Nat \ {0}
    /\ slots \in [Places -> Slot] /\ max \in Nat
    /\ count \in 0 .. Limit
    /\ method = "pattern" => list \in Seq(Words) /\ Len(list) <= Limit * Len(files)

Rank(w) == IF Distance[w] > LengthDifference(w) THEN Distance[w] ELSE LengthDifference(w)

\* What the places of a fuzzy search hold, at any time, is the best of what
\* was read: no word twice, each with its distance, and a word that was read
\* and is not there is worse than or as bad as every word that is, for its
\* distance or its length, however the words came, were dropped and came
\* again from another dictionary.  In particular the worst place, which the
\* code takes for certain to find, exists.
Passed(g, k) == g < f \/ (g = f /\ k < index)
NoWordTwice ==
    \A j, k \in Places : slots[j].word # NoWord /\ slots[j].word = slots[k].word => j = k
DistancesFit ==
    \A j \in Places : slots[j].word # NoWord => slots[j].distance = Distance[slots[j].word]
NoBetterWord(w) ==
    \/ Listed(w)
    \/ Distance[w] >= QueryLength
    \/ \A j \in Places : slots[j].distance <= Rank(w)
FuzzyBest ==
    method = "fuzzy" =>
    /\ max \in Greatest(slots)
    /\ NoWordTwice
    /\ DistancesFit
    /\ \A g \in DOMAIN files : \A k \in DOMAIN files[g].words :
         Passed(g, k) => NoBetterWord(files[g].words[k])

Increasing(s) == \A j, k \in DOMAIN s : j < k => s[j] < s[k]
WordAt(p) == files[p[1]].words[p[2]]
AllPlaces == UNION {{<<g, k>> : k \in DOMAIN files[g].words} : g \in DOMAIN files}

\* Places of words that match with fewer than Limit matches before them.
Taken ==
    {p \in AllPlaces :
        /\ WordAt(p) \in Matches
        /\ Cardinality({k \in 1 .. p[2] - 1 : files[p[1]].words[k] \in Matches}) < Limit}

\* What the caller is given: the words of a fuzzy search by distance, none of
\* them hidden behind an empty place; each match of a pattern once, in order,
\* none left out but those beyond the limit of their file; each word of a
\* dictionary that has an article with the words sought once, in the order of
\* its index.
AnswerRight ==
    f = Len(files) + 2 =>
    CASE method = "fuzzy" ->
            /\ ToSet(answer) = {slots[j].word : j \in Places} \ {NoWord}
            /\ \A j, k \in DOMAIN answer : j < k =>
                 \/ Distance[answer[j]] < Distance[answer[k]]
                 \/ Distance[answer[j]] = Distance[answer[k]] /\ answer[j] < answer[k]
      [] method = "pattern" ->
            /\ Increasing(answer)
            /\ ToSet(answer) = {WordAt(p) : p \in Taken}
      [] method = "data" ->
            /\ ToSet(answer) = {Key(files[p[1]].lib, WordAt(p)) : p \in hits}
            /\ \A j, k \in DOMAIN answer : j < k =>
                 \/ answer[j].lib < answer[k].lib
                 \/ answer[j].lib = answer[k].lib /\ answer[j].word < answer[k].word
=============================================================================
