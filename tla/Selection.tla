----------------------------- MODULE Selection -----------------------------
(***************************************************************************)
(* The words selectquery and smartquery look for in the text around what   *)
(* a user has selected (stardictdmain.cpp), in the order in which they are *)
(* tried: the first that a dictionary has is answered.                     *)
(*                                                                         *)
(* A text is a sequence of characters by their code.  A character beyond   *)
(* ASCII is one element; BeginPos is that of the beginning of a character, *)
(* counted from 1.                                                         *)
(***************************************************************************)
LOCAL INSTANCE Integers
LOCAL INSTANCE Sequences
LOCAL INSTANCE SequencesExt
LOCAL Letter == INSTANCE SimilarWord

Blank == 32
Dash == 45
IsUpper(c) == c \in 65 .. 90
IsLower(c) == c \in 97 .. 122
IsAlpha(c) == IsUpper(c) \/ IsLower(c)

\* The first place from p on, and the last one up to p, at which not all of Is holds
\* of the characters between.
After(text, p, end, Is(_)) ==
    CHOOSE q \in p .. end : (\A k \in p .. q - 1 : Is(text[k])) /\ (q = end \/ ~Is(text[q]))
Before(text, p, Is(_)) ==
    CHOOSE q \in 1 .. p : (\A k \in q .. p - 1 : Is(text[k])) /\ (q = 1 \/ ~Is(text[q - 1]))

-----------------------------------------------------------------------------
\* SimpleLookupToFloat: blanks at the beginning are dropped, others are one.
Formatted(text) ==
    LET Add(w, c) == IF c # Blank THEN Append(w, c)
                     ELSE IF w = <<>> \/ Last(w) = Blank THEN w ELSE Append(w, Blank)
        word == FoldLeft(Add, <<>>, text)
    IN IF word = <<>> THEN text ELSE word

\* What is tried after word: without its last word, or its last character if it is
\* not pure English.
Shortened(word) ==
    LET blanks == {i \in DOMAIN word : word[i] = Blank}
    IN IF ~Letter!bIsPureEnglish(word) THEN Front(word)
       ELSE IF blanks = {} THEN <<>>
       ELSE SubSeq(word, 1, (CHOOSE i \in blanks : \A j \in blanks : j <= i) - 1)

RECURSIVE FloatWords(_)
FloatWords(word) == IF word = <<>> THEN <<>> ELSE <<word>> \o FloatWords(Shortened(word))

\* The letters and blanks from the first letter on.
GetPureEnglishAlpha(text) ==
    LET first == After(text, 1, Len(text) + 1, LAMBDA c : ~IsAlpha(c))
    IN SubSeq(text, first, After(text, first, Len(text) + 1, LAMBDA c : IsAlpha(c) \/ c = Blank) - 1)

SelectQueryWords(text) ==
    LET a == GetPureEnglishAlpha(text)
    IN FloatWords(Formatted(text))
       \o IF Letter!bIsPureEnglish(text) /\ a # <<>> /\ a # text THEN FloatWords(Formatted(a)) ELSE <<>>

-----------------------------------------------------------------------------
\* smartquery: the word is text[from .. end - 1], and times counts the words left.
Place(text, pos) ==
    LET at == IF pos > 1 /\ text[pos] = Blank THEN pos - 1 ELSE pos
    IN [text |-> text, times |-> 2,
        from |-> IF pos = 1 THEN 1 ELSE Before(text, at, LAMBDA c : c # Blank),
        end |-> After(text, pos + 1, Len(text) + 1, LAMBDA c : c # Blank)]

WordAt(s) == SubSeq(s.text, s.from, s.end - 1)
Stop == [times |-> 0]

\* The word from p to q, if one of them is new.
Narrowed(s, p, q) == IF q = s.end /\ p = s.from THEN Stop ELSE [s EXCEPT !.from = p, !.end = q]

\* The part of an English word at pos: capitals, or small letters with a capital.
EnglishPart(s, pos) ==
    LET c == s.text[pos]
        next == IF pos + 1 < s.end THEN s.text[pos + 1] ELSE 0
        uppers == Before(s.text, pos, IsUpper)
        lowers == Before(s.text, pos, IsLower)
        letters == Before(s.text, pos, IsAlpha)
        capital == IF lowers > 1 /\ IsUpper(s.text[lowers - 1]) THEN lowers - 1 ELSE lowers
    IN CASE IsUpper(c) /\ IsUpper(next) -> Narrowed(s, uppers, After(s.text, pos + 2, s.end, IsUpper))
         [] IsUpper(c) /\ IsLower(next) -> Narrowed(s, pos, After(s.text, pos + 2, s.end, IsLower))
         [] IsUpper(c) /\ ~IsAlpha(next) /\ next # 0 -> Narrowed(s, pos, pos + 1)
         [] IsUpper(c) /\ next = 0 -> Narrowed(s, uppers, s.end)
         [] IsLower(c) -> Narrowed(s, capital, After(s.text, pos + 1, s.end, IsLower))
         [] c = Dash -> [s EXCEPT !.text[pos] = Blank, !.times = 2]
         [] ~IsAlpha(c) /\ c # Dash -> IF letters = pos THEN Stop ELSE [s EXCEPT !.from = letters, !.end = pos]

\* A mutant of OtherPart: the words left are not counted anew.
OtherPartTwice(s, pos) ==
    IF s.from # pos THEN [s EXCEPT !.from = pos]
    ELSE IF s.end - 1 > pos THEN [s EXCEPT !.end = @ - 1]
    ELSE Stop

\* Beyond ASCII, what begins at pos is tried, a character less each time.
OtherPart(s, pos) ==
    IF s.from # pos THEN [s EXCEPT !.from = pos, !.times = 2]
    ELSE IF s.end - 1 > pos THEN [s EXCEPT !.end = @ - 1, !.times = 2]
    ELSE Stop

RECURSIVE SmartWords(_, _)
SmartWords(s, pos) ==
    LET left == [s EXCEPT !.times = @ - 1]
        next == IF Letter!bIsPureEnglish(WordAt(s)) THEN EnglishPart(left, pos) ELSE OtherPart(left, pos)
    IN <<WordAt(s)>> \o IF left.times = 0 \/ next.times = 0 THEN <<>> ELSE SmartWords(next, pos)

SmartQueryWords(text, pos) == SmartWords(Place(text, pos), pos)
=============================================================================
