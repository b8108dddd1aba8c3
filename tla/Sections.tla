------------------------------ MODULE Sections ------------------------------
(***************************************************************************)
(* The layout inside an article: how the server fills in the types that a  *)
(* dictionary with a sametypesequence leaves out (DictBase::GetWordData),  *)
(* how it searches the sections for words (SearchData), and how the client *)
(* walks them (print_data).                                                *)
(*                                                                         *)
(* A byte is a number below Base.  A section of a lower-case type ends     *)
(* with NUL; one of an upper-case type begins with its size, two bytes     *)
(* here for the four of the program, the high one first in a dictionary.   *)
(* The argument little says whether the machine has the low one first: how *)
(* it reads a size that nobody swaps.  A loop over the sections is the     *)
(* function from the number of rounds to the state of the loop.            *)
(***************************************************************************)
EXTENDS Integers, Sequences, SequencesExt

CONSTANTS
    Base,           \* number of values of a byte
    TextTypes,      \* m l g x t y k w h: shown and searched
    SizedTypes      \* upper-case letters

NUL == 0
SizeBytes == 2
Bytes(n) == <<n \div Base, n % Base>>
BytesOfHost(n, little) == IF little THEN <<n % Base, n \div Base>> ELSE Bytes(n)
ntohl(s, p) == s[p] * Base + s[p + 1]
get_uint32(s, p, little) == IF little THEN s[p + 1] * Base + s[p] ELSE ntohl(s, p)

\* Reading has gone beyond the article, and nothing can be said of the data.
Astray == [p |-> 0, data |-> <<>>]

\* The first NUL from p on, or a place beyond the end.
EndOfString(s, p) ==
    IF \E q \in p .. Len(s) : s[q] = NUL
    THEN CHOOSE q \in p .. Len(s) : s[q] = NUL /\ \A r \in p .. q - 1 : s[r] # NUL
    ELSE Len(s) + 1

Occurs(s, w) == \E i \in 0 .. Len(s) - Len(w) : SubSeq(s, i + 1, i + Len(w)) = w

-----------------------------------------------------------------------------
\* An article of the dictionary, with or without the types of its sections.
Body(section, last) ==
    IF section.type \in SizedTypes
    THEN (IF last THEN <<>> ELSE Bytes(Len(section.data))) \o section.data
    ELSE section.data \o (IF last THEN <<>> ELSE <<NUL>>)

ArticleOf(sections) ==
    FlattenSeq([i \in 1 .. Len(sections) |-> <<sections[i].type>> \o Body(sections[i], FALSE)])
ArticleOfSameTypes(sections) ==
    FlattenSeq([i \in 1 .. Len(sections) |-> Body(sections[i], i = Len(sections))])

-----------------------------------------------------------------------------
\* How far a section reaches that begins at p, its type left out.
SizeOfSection(s, p, type, little) ==
    IF type \in SizedTypes THEN get_uint32(s, p, little) + SizeBytes
    ELSE EndOfString(s, p) + 1 - p

\* GetWordData: all sections but the last are copied behind their types, the
\* rest of the article is the last one.
CopySection(article, st, type, little) ==
    LET end == IF st = Astray \/ (type \in SizedTypes /\ st.p >= Len(article)) THEN Len(article) + 1
               ELSE st.p + SizeOfSection(article, st.p, type, little) - 1
    IN IF end > Len(article) THEN Astray
       ELSE [p |-> end + 1, data |-> st.data \o <<type>> \o SubSeq(article, st.p, end)]

\* As LastSection, where any section ends like a text.
LastSectionText(article, st, type, little) ==
    st.data \o <<type>> \o SubSeq(article, st.p, Len(article)) \o <<NUL>>

LastSection(article, st, type, little) ==
    LET rest == SubSeq(article, st.p, Len(article))
    IN st.data \o <<type>>
       \o (IF type \in SizedTypes THEN BytesOfHost(Len(rest), little) \o rest ELSE rest \o <<NUL>>)

\* types is the sametypesequence, or empty if the sections come with their types.
GetWordData(article, types, little) ==
    LET After[k \in 0 .. Len(types) - 1] ==
            IF k = 0 THEN [p |-> 1, data |-> <<>>]
            ELSE CopySection(article, After[k - 1], types[k], little)
        head == After[Len(types) - 1]
    IN IF types = <<>> THEN article
       ELSE IF head = Astray THEN Astray.data
       ELSE LastSection(article, head, types[Len(types)], little)

-----------------------------------------------------------------------------
\* print_data: what is shown, a line break between two sections whatever they
\* are.
PrintSection(type, text) ==
    IF type \in TextTypes /\ text # <<>> THEN <<[type |-> type, data |-> text]>> ELSE <<>>

PrintNext(data, st) ==
    LET size == IF data[st.p] \in SizedTypes
                THEN (IF st.p + SizeBytes > Len(data) THEN Len(data)
                      ELSE ntohl(data, st.p + 1) + SizeBytes)
                ELSE EndOfString(data, st.p + 1) - st.p
        text == SubSeq(data, st.p + 1, st.p + size - 1)
    IN IF st.p > Len(data) THEN st
       ELSE [p |-> st.p + 1 + size,
             shown |-> st.shown \o (IF st.p = 1 THEN <<>> ELSE <<"br">>) \o PrintSection(data[st.p], text)]

print_data(data) ==
    LET After[k \in 0 .. Len(data)] ==
            IF k = 0 THEN [p |-> 1, shown |-> <<>>]
            ELSE PrintNext(data, After[k - 1])
    IN After[Len(data)].shown

-----------------------------------------------------------------------------
\* SearchData with a sametypesequence: the texts that are searched.
SearchNextOfSame(article, st, type, little) ==
    LET size == IF st.p > Len(article) \/ (type \in SizedTypes /\ st.p = Len(article))
                THEN Len(article) ELSE SizeOfSection(article, st.p, type, little)
    IN [p |-> st.p + size,
        texts |-> st.texts \union (IF type \in TextTypes
                                  THEN {SubSeq(article, st.p, st.p + size - 2)} ELSE {})]

SearchedInSame(article, types, little) ==
    LET After[k \in 0 .. Len(types) - 1] ==
            IF k = 0 THEN [p |-> 1, texts |-> {}]
            ELSE SearchNextOfSame(article, After[k - 1], types[k], little)
        head == After[Len(types) - 1]
    IN head.texts \union (IF types[Len(types)] \in TextTypes
                         THEN {SubSeq(article, head.p, Len(article))} ELSE {})

\* Without one, p stays at the type: a text is searched with its type in front,
\* and the size of a section is read one byte too early.
SearchNext(article, st, little) ==
    LET size == IF article[st.p] \in SizedTypes
                THEN (IF st.p = Len(article) THEN 1 ELSE get_uint32(article, st.p, little) + SizeBytes)
                ELSE EndOfString(article, st.p) + 1 - st.p
    IN IF st.p > Len(article) THEN st
       ELSE [p |-> st.p + size,
             texts |-> st.texts \union (IF article[st.p] \in TextTypes
                                       THEN {SubSeq(article, st.p, st.p + size - 2)} ELSE {})]

SearchedInTyped(article, little) ==
    LET After[k \in 0 .. Len(article)] ==
            IF k = 0 THEN [p |-> 1, texts |-> {}]
            ELSE SearchNext(article, After[k - 1], little)
    IN After[Len(article)].texts

Searched(article, types, little) ==
    IF types = <<>> THEN SearchedInTyped(article, little) ELSE SearchedInSame(article, types, little)

SearchData(words, article, types, little) ==
    \A w \in words : \E text \in Searched(article, types, little) : Occurs(text, w)
=============================================================================
