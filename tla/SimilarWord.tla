----------------------------- MODULE SimilarWord -----------------------------
(***************************************************************************)
(* What is looked up when a word is not in a dictionary (stddict.cpp,      *)
(* Libs::LookupSimilarWord and LookupSynonymSimilarWord): the word in      *)
(* other cases, and for English the words it may be an inflection of.      *)
(*                                                                         *)
(* A word is a sequence of ASCII codes.  A dictionary is a set of words in *)
(* the order of stardict_strcmp; Lookup is as IndexLookup shows it to be.  *)
(***************************************************************************)
EXTENDS Integers, Sequences, FiniteSets, SequencesExt

\* g_ascii_strdown, g_ascii_strup and the letters of the endings.
IsUpper(c) == c \in 65 .. 90
IsLower(c) == c \in 97 .. 122
Down(w) == [i \in DOMAIN w |-> IF IsUpper(w[i]) THEN w[i] + 32 ELSE w[i]]
Up(w) == [i \in DOMAIN w |-> IF IsLower(w[i]) THEN w[i] - 32 ELSE w[i]]
Title(w) == IF w = <<>> THEN w ELSE Up(<<Head(w)>>) \o Down(Tail(w))

cc == 99
dd == 100
ee == 101
gg == 103
hh == 104
ii == 105
ll == 108
nn == 110
oo == 111
rr == 114
ss == 115
tt == 116
xx == 120
yy == 121

bIsPureEnglish(w) == \A i \in DOMAIN w : w[i] < 128
bIsVowel(c) == Down(<<c>>)[1] \in {97, ee, ii, oo, 117}

\* stardict_strcmp < 0
Below(s, t) ==
    LET \* strcmp
        Before(a, b) ==
            \E n \in 0 .. Len(a) :
                /\ n < Len(b) /\ SubSeq(a, 1, n) = SubSeq(b, 1, n)
                /\ n = Len(a) \/ a[n + 1] < b[n + 1]
    IN IF Down(s) # Down(t) THEN Before(Down(s), Down(t)) ELSE Before(s, t)

SameButCase(s, t) == Down(s) = Down(t)

InOrder(dict) ==
    [i \in 1 .. Cardinality(dict) |->
        CHOOSE v \in dict : Cardinality({u \in dict : Below(u, v)}) = i - 1]

-----------------------------------------------------------------------------
\* The word in lower case, in upper case, and capitalised, if that is another word.
CaseVariants(w) ==
    LET IfOther(v) == IF v # w THEN <<v>> ELSE <<>>
    IN IfOther(Down(w)) \o IfOther(Up(w)) \o IfOther(Title(w))

\* The walk from the place of the word: back as long as the word before is the
\* same but for its case, or else the word at the place; <<>> if neither is.
Walk(dict, w) ==
    LET sorted == InOrder(dict)
        place == Cardinality({v \in dict : Below(v, w)}) + 1
        Back[i \in 1 .. place] ==
            IF i > 1 /\ SameButCase(sorted[i - 1], w) THEN Back[i - 1] ELSE i
        at == Back[place]
    IN IF at <= Len(sorted) /\ SameButCase(sorted[at], w) THEN <<sorted[at]>> ELSE <<>>

\* A stem, and in lower case too if the word begins in upper case or its ending
\* is in upper case.
StemVariants(stem, w, isupcase) ==
    <<stem>> \o (IF (isupcase \/ IsUpper(w[1])) /\ Down(stem) # stem THEN <<Down(stem)>> ELSE <<>>)

Ends(w, ending) == IsSuffix(ending, w)
Cut(w, n) == SubSeq(w, 1, Len(w) - n)

\* The last letter is a doubled consonant after a vowel.
Doubled(stem) ==
    LET n == Len(stem)
    IN n > 3 /\ stem[n] = stem[n - 1] /\ ~bIsVowel(stem[n - 1]) /\ bIsVowel(stem[n - 2])

\* As Stems below, where the doubled consonant is not restored for the next attempt.
StemsNotRestored(w, ending, doubles) ==
    LET stem == Cut(w, Len(ending))
        isupcase == Ends(w, Up(ending))
    IN IF doubles /\ Doubled(stem) THEN StemVariants(Cut(stem, 1), w, isupcase)
       ELSE StemVariants(stem, w, isupcase)

\* The stems of a word with this ending: cut it, undouble the consonant if it can
\* be doubled, add a letter.
Stems(w, ending, doubles) ==
    LET stem == Cut(w, Len(ending))
        isupcase == Ends(w, Up(ending))
    IN (IF doubles /\ Doubled(stem) THEN StemVariants(Cut(stem, 1), w, isupcase) ELSE <<>>)
       \o StemVariants(stem, w, isupcase)

StemsWith(w, ending, letter) ==
    LET isupcase == Ends(w, Up(ending))
    IN StemVariants(Cut(w, Len(ending)) \o (IF isupcase THEN Up(<<letter>>) ELSE <<letter>>),
                    w, isupcase)

\* In one case throughout, and long enough.
HasEnding(w, ending, more) ==
    Len(w) > more /\ (Ends(w, ending) \/ Ends(w, Up(ending)))

\* "s", or the "d" of "ed".
CutLetter(w) ==
    LET isupcase == Ends(w, Up(<<ss>>)) \/ Ends(w, Up(<<ee, dd>>))
    IN IF Len(w) > 1 /\ (isupcase \/ Ends(w, <<ss>>) \/ Ends(w, <<ee, dd>>))
       THEN StemVariants(Cut(w, 1), w, isupcase) ELSE <<>>

CutLy(w) == IF HasEnding(w, <<ll, yy>>, 2) THEN Stems(w, <<ll, yy>>, TRUE) ELSE <<>>

CutIng(w) ==
    IF HasEnding(w, <<ii, nn, gg>>, 3)
    THEN Stems(w, <<ii, nn, gg>>, TRUE) \o StemsWith(w, <<ii, nn, gg>>, ee) ELSE <<>>

CutEs(w) ==
    LET es == <<ee, ss>>
        After(endings) == \E e \in endings : HasEnding(w, e \o es, Len(e) + 2)
    IN IF Len(w) > 3 /\ After({<<ss>>, <<xx>>, <<oo>>, <<cc, hh>>, <<ss, hh>>})
       THEN Stems(w, es, FALSE) ELSE <<>>

CutEd(w) == IF HasEnding(w, <<ee, dd>>, 3) THEN Stems(w, <<ee, dd>>, TRUE) ELSE <<>>
CutIed(w) == IF HasEnding(w, <<ii, ee, dd>>, 3) THEN StemsWith(w, <<ii, ee, dd>>, yy) ELSE <<>>
CutIes(w) == IF HasEnding(w, <<ii, ee, ss>>, 3) THEN StemsWith(w, <<ii, ee, ss>>, yy) ELSE <<>>
CutEr(w) == IF HasEnding(w, <<ee, rr>>, 2) THEN Stems(w, <<ee, rr>>, FALSE) ELSE <<>>
CutEst(w) == IF HasEnding(w, <<ee, ss, tt>>, 3) THEN Stems(w, <<ee, ss, tt>>, FALSE) ELSE <<>>

EndingVariants(w) ==
    IF ~bIsPureEnglish(w) THEN <<>>
    ELSE CutLetter(w) \o CutLy(w) \o CutIng(w) \o CutEs(w) \o CutEd(w) \o CutIed(w) \o CutIes(w)
         \o CutEr(w) \o CutEst(w)

-----------------------------------------------------------------------------
\* What is found, and which variant the suggestion was looked up for: the last,
\* as every lookup sets it; <<>> if there was no lookup.
Tried(dict, variants) ==
    LET hits == {i \in DOMAIN variants : variants[i] \in dict}
    IN IF hits = {} THEN variants
       ELSE SubSeq(variants, 1, CHOOSE i \in hits : \A j \in hits : i <= j)

LastOr(s, default) == IF s = <<>> THEN default ELSE Last(s)

LookupSimilarWord(dict, w) ==
    LET cases == Tried(dict, CaseVariants(w))
        walked == Walk(dict, w)
        endings == Tried(dict, EndingVariants(w))
    IN CASE LastOr(cases, w) \in dict -> [found |-> Last(cases), suggest |-> Last(cases)]
         [] LastOr(cases, w) \notin dict /\ walked # <<>> ->
               [found |-> walked[1], suggest |-> LastOr(cases, w)]
         [] LastOr(cases, w) \notin dict /\ walked = <<>> /\ LastOr(endings, w) \in dict ->
               [found |-> Last(endings), suggest |-> Last(endings)]
         [] OTHER -> [found |-> <<>>, suggest |-> LastOr(endings, LastOr(cases, w))]

\* Synonyms: no endings, and the suggestion is left as it was unless a word is
\* found; it is not set at all if that was by the walk alone.
LookupSynonymSimilarWord(dict, w) ==
    LET cases == Tried(dict, CaseVariants(w))
        walked == Walk(dict, w)
    IN CASE LastOr(cases, w) \in dict -> [found |-> Last(cases), suggest |-> Last(cases)]
         [] LastOr(cases, w) \notin dict /\ walked # <<>> ->
               [found |-> walked[1], suggest |-> LastOr(cases, <<>>)]
         [] OTHER -> [found |-> <<>>, suggest |-> w]

\* SimpleLookupWord, SimpleLookupSynonymWord: the word itself comes first.
SimpleLookupWord(dict, w) ==
    IF w \in dict THEN [found |-> w, suggest |-> w] ELSE LookupSimilarWord(dict, w)
SimpleLookupSynonymWord(dict, w) ==
    IF w \in dict THEN [found |-> w, suggest |-> w] ELSE LookupSynonymSimilarWord(dict, w)

-----------------------------------------------------------------------------
\* English the other way: how the forms of a word end.
Inflections(v) ==
    LET n == Len(v)
        E(e) == v \o e
        Without(k, e) == Cut(v, k) \o e
        double == v \o <<v[n]>>
    IN {E(<<ss>>), E(<<ll, yy>>), E(<<ii, nn, gg>>), E(<<ee, dd>>), E(<<ee, rr>>), E(<<ee, ss, tt>>)}
       \union (IF v[n] = ee THEN {E(<<dd>>), Without(1, <<ii, nn, gg>>)} ELSE {})
       \union (IF v[n] \in {ss, xx, oo} \/ Ends(v, <<cc, hh>>) \/ Ends(v, <<ss, hh>>)
               THEN {E(<<ee, ss>>)} ELSE {})
       \union (IF v[n] = yy THEN {Without(1, <<ii, ee, dd>>), Without(1, <<ii, ee, ss>>)} ELSE {})
       \union (IF n > 2 /\ ~bIsVowel(v[n]) /\ bIsVowel(v[n - 1])
               THEN {double \o <<ii, nn, gg>>, double \o <<ee, dd>>} ELSE {})
=============================================================================
