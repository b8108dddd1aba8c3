---------------------------- MODULE IndexLookup ----------------------------
(***************************************************************************)
(* The word index of a dictionary (offset_index, stddict.cpp 212-899): the *)
(* .idx file stays on disk, in pages of ENTR_PER_PAGE entries, one of      *)
(* which is in memory.  lookup() searches first the pages, by the key each *)
(* begins with, then the entries of one page, and then walks back to the   *)
(* word it suggests in place of one it did not find.                       *)
(*                                                                         *)
(* A key is an integer and its order that of stardict_strcmp().  Keys may  *)
(* repeat: homographs have an entry each.  How much of a query a key agrees *)
(* with need not go with that order: prefix_match() takes the capitals of   *)
(* every alphabet for their small letters, stardict_strcmp() those of ASCII *)
(* only.                                                                   *)
(***************************************************************************)
EXTENDS Integers, Sequences

CONSTANTS
    Keys,       \* the keys that occur in indices and queries
    Entries,    \* ENTR_PER_PAGE
    MaxWords,   \* bound on the number of words of an index
    Match       \* Match[q][k]: the characters that q and k begin with alike

ASSUME IndexAssumption ==
    /\ Keys \subseteq Int
    /\ Entries \in Nat \ {0} /\ MaxWords \in Nat \ {0}
    /\ Match \in [Keys -> [Keys -> Nat]]

INVALID_INDEX == -100

VARIABLES
    index,      \* the keys in the file, sorted
    page,       \* page.idx: the page in memory
    pc,         \* what the index does: see Steps
    query,      \* str
    from,       \* iFrom
    to,         \* iTo
    idx,        \* idx
    suggest,    \* idx_suggest
    best,       \* the characters that agree with the word suggested
    found       \* bFound

vars == <<index, page, pc, query, from, to, idx, suggest, best, found>>

Steps == {"idle", "pages", "entries", "suggest", "done"}

WordCount == Len(index)
Key(i) == index[i + 1]
Positions == 0 .. WordCount - 1
Last == WordCount - 1

\* npages: one entry of the page table more than there are pages.
NPages == (WordCount - 1) \div Entries + 2

LastPage == NPages - 2

\* Mutant: a full last page has no entries.
EntriesOnModulo(p) == IF p = LastPage THEN WordCount % Entries ELSE Entries

\* load_page(): how many entries a page has.
EntriesOn(p) ==
    IF p = LastPage /\ WordCount % Entries # 0 THEN WordCount % Entries ELSE Entries

FirstOn(p) == Key(p * Entries)
Entry(p, j) == Key(p * Entries + j)

Sorted(s) == \A i, j \in 1 .. Len(s) : i <= j => s[i] <= s[j]

\* load() reads the last key, which leaves the last page in memory.
Init ==
    /\ \E n \in 1 .. MaxWords : index \in [1 .. n -> Keys]
    /\ Sorted(index)
    /\ page = LastPage
    /\ pc = "idle" /\ query \in Keys
    /\ from = 0 /\ to = 0 /\ idx = 0 /\ suggest = 0 /\ best = 0
    /\ found = FALSE

Ready == pc \in {"idle", "done"}

Answer(f, i, s) ==
    /\ pc' = "done"
    /\ found' = f /\ idx' = i /\ suggest' = s

\* get_key(): other callers read any word, and leave its page in memory.
GetKey ==
    /\ Ready
    /\ \E i \in Positions : page' = i \div Entries
    /\ pc' = "idle"
    /\ UNCHANGED <<index, query, from, to, idx, suggest, best, found>>

\* lookup() of a word outside the index, or the start of the search.
Lookup ==
    /\ Ready
    /\ \E q \in Keys :
          /\ query' = q
          /\ \/ /\ q < Key(0)
                /\ Answer(FALSE, 0, 0)
                /\ UNCHANGED <<from, to>>
             \/ /\ q > Key(Last)
                /\ Answer(FALSE, INVALID_INDEX, Last)
                /\ UNCHANGED <<from, to>>
             \/ /\ Key(0) <= q /\ q <= Key(Last)
                /\ pc' = "pages"
                /\ from' = 0 /\ to' = LastPage
                /\ UNCHANGED <<found, idx, suggest>>
    /\ UNCHANGED <<index, page, best>>

Middle == (from + to) \div 2

\* Mutant: the lower half keeps the page that was too high.
ProbePageForever ==
    /\ pc = "pages" /\ from <= to
    /\ \/ /\ query > FirstOn(Middle)
          /\ from' = Middle
          /\ UNCHANGED <<pc, to, found, idx, suggest>>
       \/ /\ query < FirstOn(Middle)
          /\ to' = Middle - 1
          /\ UNCHANGED <<pc, from, found, idx, suggest>>
       \/ /\ query = FirstOn(Middle)
          /\ Answer(TRUE, Middle * Entries, Middle * Entries)
          /\ UNCHANGED <<from, to>>
    /\ UNCHANGED <<index, page, query, best>>

\* The first key of a page comes from the file, and moves no page.
ProbePage ==
    /\ pc = "pages" /\ from <= to
    /\ \/ /\ query > FirstOn(Middle)
          /\ from' = Middle + 1
          /\ UNCHANGED <<pc, to, found, idx, suggest>>
       \/ /\ query < FirstOn(Middle)
          /\ to' = Middle - 1
          /\ UNCHANGED <<pc, from, found, idx, suggest>>
       \/ /\ query = FirstOn(Middle)
          /\ Answer(TRUE, Middle * Entries, Middle * Entries)
          /\ UNCHANGED <<from, to>>
    /\ UNCHANGED <<index, page, query, best>>

\* The page before the first one that begins with a greater key.
ChoosePage ==
    /\ pc = "pages" /\ from > to
    /\ pc' = "entries"
    /\ idx' = to /\ page' = to
    /\ from' = 1 /\ to' = EntriesOn(to) - 1
    /\ UNCHANGED <<index, query, suggest, best, found>>

ProbeEntry ==
    /\ pc = "entries" /\ from <= to
    /\ \/ /\ query > Entry(page, Middle)
          /\ from' = Middle + 1
          /\ UNCHANGED <<pc, to, found, idx, suggest>>
       \/ /\ query < Entry(page, Middle)
          /\ to' = Middle - 1
          /\ UNCHANGED <<pc, from, found, idx, suggest>>
       \/ /\ query = Entry(page, Middle)
          /\ Answer(TRUE, idx * Entries + Middle, idx * Entries + Middle)
          /\ UNCHANGED <<from, to>>
    /\ UNCHANGED <<index, page, query, best>>

\* The word is not there.  It would stand before position idx, which may be the
\* first one of the next page; the entry compared is of the page in memory all
\* the same.
NotFound ==
    /\ pc = "entries" /\ from > to
    /\ pc' = "suggest"
    /\ idx' = idx * Entries + from
    /\ suggest' = idx'
    /\ best' = Match[query][Entry(page, suggest' % Entries)]
    /\ UNCHANGED <<index, page, query, from, to, found>>

\* The page that holds the word before the one suggested.
PageBefore == IF suggest % Entries = 0 THEN (suggest - 1) \div Entries ELSE page

\* Mutant: each word is compared with the first one only.
WalkBackKeepsBest ==
    /\ pc = "suggest" /\ suggest > 0
    /\ page' = PageBefore
    /\ LET back == Match[query][Entry(PageBefore, (suggest - 1) % Entries)] IN
       \/ /\ back # 0 /\ back >= best
          /\ suggest' = suggest - 1
          /\ UNCHANGED <<pc, found, idx>>
       \/ /\ back = 0 \/ back < best
          /\ Answer(FALSE, idx, suggest)
    /\ UNCHANGED <<index, query, from, to, best>>

\* One word back, as long as no fewer characters agree.
WalkBack ==
    /\ pc = "suggest" /\ suggest > 0
    /\ page' = PageBefore
    /\ LET back == Match[query][Entry(PageBefore, (suggest - 1) % Entries)] IN
       \/ /\ back # 0 /\ back >= best
          /\ best' = back /\ suggest' = suggest - 1
          /\ UNCHANGED <<pc, found, idx>>
       \/ /\ back = 0 \/ back < best
          /\ Answer(FALSE, idx, suggest)
          /\ UNCHANGED best
    /\ UNCHANGED <<index, query, from, to>>

WalkEnds ==
    /\ pc = "suggest" /\ suggest = 0
    /\ Answer(FALSE, idx, suggest)
    /\ UNCHANGED <<index, page, query, from, to, best>>

Search == ProbePage \/ ChoosePage \/ ProbeEntry \/ NotFound \/ WalkBack \/ WalkEnds

Next == GetKey \/ Lookup \/ Search

\* lookup() runs to its end.
Spec == Init /\ [][Next]_vars /\ WF_vars(Search)

-----------------------------------------------------------------------------
(* Properties.                                                             *)

TypeOK ==
    /\ index \in Seq(Keys) /\ index # <<>> /\ Sorted(index)
    /\ page \in 0 .. LastPage
    /\ pc \in Steps /\ query \in Keys
    /\ from \in Nat /\ to \in -1 .. WordCount
    /\ idx \in Positions \cup {INVALID_INDEX} /\ suggest \in Positions
    /\ best \in Nat /\ found \in BOOLEAN

\* Whatever page was in memory before, lookup() finds a word exactly if the index
\* has it, and else the position where it would stand: that of the first greater
\* word, or INVALID_INDEX.  This is where lists begin and previous and next start
\* from.
LookupCorrect ==
    pc = "done" =>
        /\ found <=> \E i \in Positions : Key(i) = query
        /\ found => idx \in Positions /\ Key(idx) = query
        /\ ~found => IF idx = INVALID_INDEX
                     THEN \A i \in Positions : Key(i) < query
                     ELSE \A i \in Positions : IF i < idx THEN Key(i) < query
                                                          ELSE Key(i) > query

\* The search reads pages and entries that exist, among them the assertion of
\* read_first_on_page_key: page_idx+1 < npages.
ReadsExist ==
    /\ pc = "pages" /\ from <= to => Middle >= 0 /\ Middle + 1 < NPages
    /\ pc = "entries" => page \in 0 .. LastPage /\ idx = page
    /\ pc = "entries" /\ from <= to => Middle \in 0 .. EntriesOn(page) - 1
    /\ pc = "suggest" /\ suggest > 0 => PageBefore = (suggest - 1) \div Entries

\* How much of the query the word at position i agrees with.
Agree(i) == Match[query][Key(i)]

\* What the walk compares with first: where the place of the query is at the
\* beginning of a page, the first word of the page before.
AtPlace == IF idx % Entries = 0 THEN Agree(idx - Entries) ELSE Agree(idx)

\* Before the place, words agree with more of the query the nearer they are.
OrderGoesWithMatch ==
    \A i, j \in Positions : i <= j /\ j < idx => Agree(i) <= Agree(j)

\* The word suggested is the end of the walk from the place of the query through
\* words that agree with no less of it each, wherever page boundaries lie and
\* whatever page was in memory; so nothing on the way agrees with more, and where
\* matches go with the order no word before the place does (for letters beyond
\* ASCII they need not, stddict.cpp 44-51 and 84-96).
SuggestsBestOfWalk ==
    pc = "done" /\ ~found /\ idx # INVALID_INDEX /\ idx # 0 =>
        /\ suggest <= idx
        /\ \A i, j \in suggest .. idx - 1 : i <= j => Agree(j) # 0 /\ Agree(j) <= Agree(i)
        /\ suggest < idx => AtPlace <= Agree(idx - 1)
        /\ suggest > 0 => \/ Agree(suggest - 1) = 0
                          \/ Agree(suggest - 1) < IF suggest < idx THEN Agree(suggest) ELSE AtPlace
        /\ OrderGoesWithMatch =>
             \A i \in Positions : i < idx => Agree(i) <= Agree(suggest)

\* Every lookup ends, for every index and every query.
LookupEnds == pc = "pages" ~> pc = "done"

=============================================================================
