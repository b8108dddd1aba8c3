----------------------------- MODULE WordFiles -----------------------------
(***************************************************************************)
(* The other forms of a list of words (stddict.cpp): a compressed index    *)
(* kept in memory (wordlist_index), the synonyms, read by pages            *)
(* (synonym_file), and either in the order of a collation                  *)
(* (collation_file).  What IndexLookup shows of offset_index step by step  *)
(* is here a function of the file.                                         *)
(*                                                                         *)
(* A file is a sequence of cells: the letters of a word, NUL, and numbers  *)
(* of a cell each, two in an index and one in a file of synonyms.  Words   *)
(* are counted from 0.                                                     *)
(***************************************************************************)
LOCAL INSTANCE Integers
LOCAL INSTANCE Sequences
LOCAL INSTANCE SequencesExt
LOCAL Word == INSTANCE SimilarWord

CONSTANT Entries    \* ENTR_PER_PAGE

NUL == 0
INVALID_INDEX == -100

\* stardict_strcmp and, with a collation that takes letters as they are, strcmp.
Strcmp(s, t) == IF s = t THEN 0 ELSE IF Word!Below(s, t) THEN -1 ELSE 1
Bytecmp(s, t) ==
    LET n == Len(LongestCommonPrefix({s, t}))
    IN CASE s = t -> 0
         [] Len(s) = n /\ s # t -> -1
         [] Len(t) = n /\ s # t -> 1
         [] OTHER -> s[n + 1] - t[n + 1]

\* g_unichar_tolower, which knows the capitals of other alphabets too: here those
\* of English and of Russian.
UnicharLower(c) == IF c \in 65 .. 90 \union 1040 .. 1071 THEN c + 32 ELSE c

\* The letters two words begin with alike, but for their case.  Strcmp has the
\* capitals of English with the small letters and all other ones before them.
prefix_match(s, t) ==
    LET Folded(w) == [i \in DOMAIN w |-> UnicharLower(w[i])]
    IN Len(LongestCommonPrefix({Folded(s), Folded(t)}))

\* Where each word of a file begins, and where the last one ends.
StrLen(file, p) == (CHOOSE n \in 0 .. Len(file) - p :
                        file[p + n] = NUL /\ \A k \in 0 .. n - 1 : file[p + k] # NUL)
Starts(file, wc, numbers) ==
    LET start[i \in 0 .. wc] ==
            IF i = 0 THEN 1 ELSE start[i - 1] + StrLen(file, start[i - 1]) + 1 + numbers
    IN start
StrAt(file, p) == SubSeq(file, p, p + StrLen(file, p) - 1)

\* Halving lo .. hi, where sign says on which side of each place the word is.
Search(sign, lo, hi) ==
    LET at[from \in lo .. hi + 1, to \in lo - 1 .. hi] ==
            LET this == (from + to) \div 2
            IN CASE from > to -> [found |-> FALSE, from |-> from, to |-> to, this |-> lo]
                 [] from <= to /\ sign[this] > 0 -> at[this + 1, to]
                 [] from <= to /\ sign[this] < 0 -> at[from, this - 1]
                 [] from <= to /\ sign[this] = 0 -> [found |-> TRUE, from |-> from, to |-> to, this |-> this]
    IN at[lo, hi]

-----------------------------------------------------------------------------
\* wordlist_index: the whole file, and where its words are.
LoadWordList(file, wc, fsize) ==
    IF Len(file) < fsize THEN [loaded |-> FALSE]
    ELSE [loaded |-> TRUE, data |-> SubSeq(file, 1, fsize), wordcount |-> wc,
          wordlist |-> Starts(SubSeq(file, 1, fsize), wc, 2)]

GetKey(list, i) == StrAt(list.data, list.wordlist[i])
GetData(list, i) ==
    LET p == list.wordlist[i] + StrLen(list.data, list.wordlist[i]) + 1
    IN [offset |-> list.data[p], size |-> list.data[p + 1]]

\* The first of the words before place that match the query no worse than the one after.
WalkBack(match, place) ==
    LET back[s \in 0 .. place] ==
            IF s = 0 \/ match[s - 1] = 0 \/ match[s - 1] < match[s] THEN s ELSE back[s - 1]
    IN back[place]

\* lookup() of a sequence of wc words in order: in memory, or in a collation file.
LookupIn(key, wc, sign, str) ==
    LET match == [i \in 0 .. wc - 1 |-> prefix_match(str, key[i])]
        r == Search(sign, 0, wc - 1)
    IN CASE sign[0] < 0 -> [found |-> FALSE, idx |-> 0, idx_suggest |-> 0]
         [] sign[0] >= 0 /\ sign[wc - 1] > 0 ->
                [found |-> FALSE, idx |-> INVALID_INDEX, idx_suggest |-> wc - 1]
         [] sign[0] >= 0 /\ sign[wc - 1] <= 0 ->
                IF r.found THEN [found |-> TRUE, idx |-> r.this, idx_suggest |-> r.this]
                ELSE [found |-> FALSE, idx |-> r.from, idx_suggest |-> WalkBack(match, r.from)]

LookupWordList(list, str) ==
    LET key == [i \in 0 .. list.wordcount - 1 |-> GetKey(list, i)]
    IN LookupIn(key, list.wordcount, [i \in DOMAIN key |-> Strcmp(str, key[i])], str)

\* The order of a collation: by Bytecmp, equal words as they are in the file.
\* CltIndexToOrig: where a word of it is in the file.
WordOffsets(key, wc) ==
    LET Before(i, j) == Bytecmp(key[i], key[j]) < 0 \/ (key[i] = key[j] /\ i < j)
    IN [n \in 0 .. wc - 1 |->
           CHOOSE i \in 0 .. wc - 1 : Len(SelectSeq([k \in 1 .. wc |-> k - 1], LAMBDA j : Before(j, i))) = n]

LookupCollated(key, wc, str) ==
    LET offsets == WordOffsets(key, wc)
        GetWord == [n \in 0 .. wc - 1 |-> key[offsets[n]]]
    IN LookupIn(GetWord, wc, [n \in 0 .. wc - 1 |-> Bytecmp(str, GetWord[n])], str)

CltIndexToOrig(key, wc, idx) == IF idx = INVALID_INDEX THEN idx ELSE WordOffsets(key, wc)[idx]

-----------------------------------------------------------------------------
\* synonym_file: where its pages begin, copies of the words that begin three of
\* them and of the last word, and the page in memory.
NPages(wc) == (wc - 1) \div Entries + 2
EntriesOn(syn, p) ==
    IF p = NPages(syn.wordcount) - 2 /\ syn.wordcount % Entries # 0
    THEN syn.wordcount % Entries ELSE Entries

Fill(syn, p) ==
    LET data == SubSeq(syn.file, syn.wordoffset[p], syn.wordoffset[p + 1] - 1)
        start == Starts(data, EntriesOn(syn, p), 1)
    IN [j \in 0 .. EntriesOn(syn, p) - 1 |->
           [keystr |-> StrAt(data, start[j]), index |-> data[start[j + 1] - 1]]]

\* Mutant: the page in memory is kept for the one before.
LoadPageAlike(syn, p) ==
    IF p <= syn.page.idx THEN syn ELSE [syn EXCEPT !.page = [idx |-> p, entries |-> Fill(syn, p)]]

LoadPage(syn, p) ==
    IF p = syn.page.idx THEN syn ELSE [syn EXCEPT !.page = [idx |-> p, entries |-> Fill(syn, p)]]

\* get_key: the page of the word, and in it the word and the index of its article.
SynPage(syn, i) == LoadPage(syn, i \div Entries)
SynEntry(syn, i) == SynPage(syn, i).page.entries[i % Entries]

ReadFirstOnPage(syn, p) == StrAt(syn.file, syn.wordoffset[p])

LoadSynonyms(file, wc) ==
    LET n == NPages(wc)
        start == Starts(file, wc, 1)
        syn == [file |-> file, wordcount |-> wc, page |-> [idx |-> -1, entries |-> <<>>],
                wordoffset |-> [j \in 0 .. n - 1 |-> IF j = n - 1 THEN start[wc] ELSE start[j * Entries]]]
        Copy(p) == [idx |-> p, keystr |-> ReadFirstOnPage(syn, p)]
        read == SynPage(syn, wc - 1)
    IN [f \in DOMAIN syn \union {"first", "last", "middle", "real_last"} |->
           CASE f = "first" -> Copy(0)
             [] f = "last" -> Copy(n - 2)
             [] f = "middle" -> Copy((n - 2) \div 2)
             [] f = "real_last" -> SynEntry(syn, wc - 1).keystr
             [] OTHER -> read[f]]

FirstOnPage(syn, p) ==
    CASE p < syn.middle.idx -> IF p = syn.first.idx THEN syn.first.keystr ELSE ReadFirstOnPage(syn, p)
      [] p > syn.middle.idx -> IF p = syn.last.idx THEN syn.last.keystr ELSE ReadFirstOnPage(syn, p)
      [] p = syn.middle.idx -> syn.middle.keystr

\* The walk back from word s, the words read from the page in memory.
RECURSIVE SynWalk(_, _, _, _)
SynWalk(syn, str, s, best) ==
    LET near == IF s % Entries = 0 THEN LoadPage(syn, (s - 1) \div Entries) ELSE syn
        back == prefix_match(str, near.page.entries[(s - 1) % Entries].keystr)
    IN IF s = 0 THEN [idx_suggest |-> 0, syn |-> syn]
       ELSE IF back = 0 \/ back < best THEN [idx_suggest |-> s, syn |-> near]
       ELSE SynWalk(near, str, s - 1, back)

\* lookup(): the page, the word on it, and the walk, whose first comparison is with
\* the page in memory though the place may be on the next one.
LookupSynonym(syn, str) ==
    LET wc == syn.wordcount
        last == NPages(wc) - 2
        pages == Search([p \in 0 .. last |-> Strcmp(str, FirstOnPage(syn, p))], 0, last)
        near == LoadPage(syn, pages.to)
        n == EntriesOn(syn, pages.to)
        words == Search([j \in 1 .. n - 1 |-> Strcmp(str, near.page.entries[j].keystr)], 1, n - 1)
        place == pages.to * Entries + words.from
        walk == SynWalk(near, str, place, prefix_match(str, near.page.entries[place % Entries].keystr))
        At(i, s) == [found |-> TRUE, idx |-> i, idx_suggest |-> i, syn |-> s]
        Not(i, g, s) == [found |-> FALSE, idx |-> i, idx_suggest |-> g, syn |-> s]
    IN IF Strcmp(str, syn.first.keystr) < 0 THEN Not(0, 0, syn)
       ELSE IF Strcmp(str, syn.real_last) > 0 THEN Not(INVALID_INDEX, wc - 1, syn)
       ELSE IF pages.found THEN At(pages.this * Entries, syn)
       ELSE IF words.found THEN At(pages.to * Entries + words.this, near)
       ELSE Not(place, walk.idx_suggest, walk.syn)

-----------------------------------------------------------------------------
\* GetOrigWordCount: the entries of the word at idx.
GetOrigWordCount(key, wc, idx) ==
    LET back[i \in 0 .. idx] == IF i > 0 /\ key[i - 1] = key[idx] THEN back[i - 1] ELSE i
        on[i \in idx .. wc - 1] == IF i < wc - 1 /\ key[i + 1] = key[idx] THEN on[i + 1] ELSE i
    IN [first |-> back[idx], count |-> on[idx] - back[idx] + 1]

\* GetSuggestWord: of the words the dictionaries suggest, and then their synonyms,
\* the one that matches best and, of those, comes first.
GetSuggestWord(str, suggested) ==
    LET Better(word, best) ==
            \/ prefix_match(str, word) > prefix_match(str, best)
            \/ /\ prefix_match(str, word) = prefix_match(str, best)
               /\ Strcmp(best, word) > 0
    IN FoldLeft(LAMBDA best, word : IF Better(word, best) THEN word ELSE best,
                Head(suggested), Tail(suggested))
=============================================================================
