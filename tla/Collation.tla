----------------------------- MODULE Collation -----------------------------
(***************************************************************************)
(* The order of words in a collation (collation.cpp, ctype-utf8.cpp,       *)
(* ctype-mb.cpp, ctype-uca.cpp): by upper case (utf8_general_ci), by bytes *)
(* (utf8_bin), and by weights of the Unicode Collation Algorithm, as they  *)
(* are or tailored to a language.                                          *)
(*                                                                         *)
(* A word is a sequence of bytes.  Of the tables only the Latin letters    *)
(* that the tailorings here move are here; every entry of the tables of    *)
(* weights ends in 0, so that an entry is the sequence of its weights.     *)
(***************************************************************************)
LOCAL INSTANCE Integers
LOCAL INSTANCE Sequences
LOCAL INSTANCE SequencesExt
LOCAL INSTANCE TLC

\* memcmp of the bytes two words have, and then the longer one is the greater:
\* bincmp, my_strnncoll_mb_bin and strcmp.
Bytecmp(s, t) ==
    LET n == Len(LongestCommonPrefix({s, t}))
    IN IF n < Len(s) /\ n < Len(t) THEN s[n + 1] - t[n + 1] ELSE Len(s) - Len(t)

MY_CS_ILSEQ == 0
MY_CS_TOOSMALL == -101

\* my_utf8_uni: the character at p of a word and its length.  It is built without
\* UNICODE_32BIT: a character of four bytes is an illegal sequence.
MbWc(s, p) ==
    LET c == s[p]
        Tail80(n) == p + n <= Len(s) /\ s[p + n] \in 128 .. 191
        Bits(n) == s[p + n] - 128
        Illegal == [len |-> MY_CS_ILSEQ, wc |-> 0]
    IN IF p > Len(s) THEN [len |-> MY_CS_TOOSMALL, wc |-> 0]
       ELSE IF c < 128 THEN [len |-> 1, wc |-> c]
       ELSE IF c < 194 THEN Illegal
       ELSE IF c < 224
            THEN IF p + 1 > Len(s) THEN [len |-> MY_CS_TOOSMALL - 1, wc |-> 0]
                 ELSE IF Tail80(1) THEN [len |-> 2, wc |-> (c % 32) * 64 + Bits(1)]
                 ELSE Illegal
       ELSE IF c < 240
            THEN IF p + 2 > Len(s) THEN [len |-> MY_CS_TOOSMALL - 2, wc |-> 0]
                 ELSE IF Tail80(1) /\ Tail80(2) /\ (c >= 225 \/ s[p + 1] >= 160)
                      THEN [len |-> 3, wc |-> (c % 16) * 4096 + Bits(1) * 64 + Bits(2)]
                 ELSE Illegal
       ELSE Illegal

-----------------------------------------------------------------------------
\* utf8_general_ci.  The tables of upper case, as far as they are used.
Upper == (228 :> 65) @@ (246 :> 79) @@ (241 :> 78) @@ (269 :> 67) @@ (353 :> 83)
Sort(wc) == IF wc \in 97 .. 122 THEN wc - 32 ELSE IF wc \in DOMAIN Upper THEN Upper[wc] ELSE wc

\* my_strnncoll_utf8: at the first illegal sequence in either word what is left of
\* both is compared by bytes.
RECURSIVE GeneralFrom(_, _, _, _)
GeneralFrom(s, p, t, q) ==
    LET a == MbWc(s, p)
        b == MbWc(t, q)
    IN IF p > Len(s) \/ q > Len(t) THEN (Len(s) - p) - (Len(t) - q)
       ELSE IF a.len <= 0 \/ b.len <= 0 THEN Bytecmp(SubSeq(s, p, Len(s)), SubSeq(t, q, Len(t)))
       ELSE IF Sort(a.wc) # Sort(b.wc) THEN Sort(a.wc) - Sort(b.wc)
       ELSE GeneralFrom(s, p + a.len, t, q + b.len)

-----------------------------------------------------------------------------
\* The default weights of the characters: the letters A to Z, either case, and
\* some that tailorings move.  U+0308, the diaeresis, has none.
LatinWeights == <<3635, 3658, 3680, 3693, 3723, 3769, 3777, 3809, 3835, 3856, 3873, 3886, 3931,
                  3940, 3970, 4007, 4020, 4032, 4074, 4098, 4127, 4164, 4177, 4186, 4190, 4202>>
OtherWeights ==
    (228 :> 3635) @@ (196 :> 3635) @@ (229 :> 3635) @@ (197 :> 3635) @@ (230 :> 3640) @@ (198 :> 3640)
    @@ (245 :> 3970) @@ (213 :> 3970) @@ (246 :> 3970) @@ (214 :> 3970) @@ (248 :> 3981) @@ (216 :> 3981)
    @@ (252 :> 4127) @@ (220 :> 4127) @@ (241 :> 3940) @@ (209 :> 3940) @@ (269 :> 3680) @@ (268 :> 3680)
    @@ (345 :> 4032) @@ (344 :> 4032) @@ (353 :> 4074) @@ (352 :> 4074) @@ (382 :> 4202) @@ (381 :> 4202)
    @@ (281 :> 3723) @@ (280 :> 3723) @@ (279 :> 3723) @@ (278 :> 3723)
    @@ (337 :> 3970) @@ (336 :> 3970) @@ (369 :> 4127) @@ (368 :> 4127)

UcaWeight ==
    [c \in 65 .. 90 |-> <<LatinWeights[c - 64]>>] @@ [c \in 97 .. 122 |-> <<LatinWeights[c - 96]>>]
    @@ [c \in DOMAIN OtherWeights |-> <<OtherWeights[c]>>] @@ (776 :> <<>>)

\* A character of a page without a table has two weights made of its code.
Implicit(wc) ==
    LET page == wc \div 256
        base == IF wc \in 13312 .. 19893 THEN 64384              \* 0x3400 .. 0x4DB5: 0xFB80
                ELSE IF wc \in 19968 .. 40869 THEN 64320         \* 0x4E00 .. 0x9FA5: 0xFB40
                ELSE 64448                                       \* 0xFBC0
    IN <<page \div 128 + base, (wc % 32768) + 32768>>

-----------------------------------------------------------------------------
\* A tailoring is a sequence of lexems: Shift (&), the differences < << <<<, and
\* characters by their code.
Shift == -10
P1 == -1
P2 == -2
P3 == -3
IsDiff(lexem) == lexem \in {P1, P2, P3}
IsChar(lexem) == lexem > 0

\* Mutant: every primary difference is of one.
AddedOnce(diff, lexem) ==
    CASE lexem = P1 -> <<1, 0, 0>>
      [] lexem = P2 -> <<diff[1], diff[2] + 1, 0>>
      [] lexem = P3 -> <<diff[1], diff[2], diff[3] + 1>>

\* The difference to the base: a greater one sets the smaller ones back.
Added(diff, lexem) ==
    CASE lexem = P1 -> <<diff[1] + 1, 0, 0>>
      [] lexem = P2 -> <<diff[1], diff[2] + 1, 0>>
      [] lexem = P3 -> <<diff[1], diff[2], diff[3] + 1>>

\* my_coll_rule_parse: the rules of a tailoring.  A character after a character is
\* the second one of a contraction.
Parse(lexems) ==
    LET NoRule == [base |-> 0, curr |-> <<0, 0>>, diff |-> <<0, 0, 0>>]
        Rule(st, i) ==
            LET second == IF i < Len(lexems) /\ IsChar(lexems[i + 1]) THEN lexems[i + 1] ELSE 0
                item == [st.item EXCEPT !.curr = <<lexems[i], second>>, !.diff = Added(@, st.prev)]
            IN [st EXCEPT !.item = item, !.rules = Append(@, item), !.state = 1, !.taken = (second # 0)]
        Step(st, i) ==
            CASE ~st.ok -> st
              [] st.ok /\ st.taken -> [st EXCEPT !.taken = FALSE]
              [] st.ok /\ ~st.taken /\ st.state \in {0, 1} ->
                    IF lexems[i] = Shift \/ (st.state = 1 /\ IsDiff(lexems[i]))
                    THEN [st EXCEPT !.prev = lexems[i], !.state = 2] ELSE [st EXCEPT !.ok = FALSE]
              [] st.ok /\ ~st.taken /\ st.state = 2 ->
                    IF ~IsChar(lexems[i]) THEN [st EXCEPT !.ok = FALSE]
                    ELSE IF st.prev = Shift
                    THEN [st EXCEPT !.item.base = lexems[i], !.item.diff = <<0, 0, 0>>, !.state = 1]
                    ELSE Rule(st, i)
    IN FoldLeft(Step, [ok |-> TRUE, state |-> 0, prev |-> 0, item |-> NoRule, rules |-> <<>>, taken |-> FALSE],
                [i \in DOMAIN lexems |-> i])

IsLatin(c) == c \in 64 .. 127

Untailored == [weight |-> UcaWeight, contractions |-> <<>>]

\* create_tailoring: a character gets the weights of its base, the first of them
\* with the primary difference; a contraction, of two basic latin letters and a
\* base of one weight, gets that weight with the difference.
Shifted(r) == [UcaWeight[r.base] EXCEPT ![1] = @ + r.diff[1]]
Contractible(r) == Len(UcaWeight[r.base]) = 1 /\ IsLatin(r.curr[1]) /\ IsLatin(r.curr[2])

TablesOf(ok, single, pairs) ==
    IF ~ok \/ \E r \in ToSet(pairs) : ~Contractible(r)
    THEN [ok |-> FALSE, tables |-> Untailored]
    ELSE [ok |-> TRUE,
          tables |-> [weight |-> FoldLeft(LAMBDA w, r : (r.curr[1] :> Shifted(r)) @@ w, UcaWeight, single),
                      contractions |-> FoldLeft(LAMBDA w, r : (r.curr :> Shifted(r)[1]) @@ w, <<>>, pairs)]]

TailoringOf(parsed) ==
    TablesOf(parsed.ok, SelectSeq(parsed.rules, LAMBDA r : r.curr[2] = 0),
             SelectSeq(parsed.rules, LAMBDA r : r.curr[2] # 0))

CreateTailoring(lexems) == TailoringOf(Parse(lexems))

-----------------------------------------------------------------------------
\* my_uca_scanner_next_any: the weights of a word up to its end or its first
\* illegal sequence.  When a letter is followed by an illegal sequence, wc still
\* holds the letter itself: two of it may be a contraction.
Weights(tables, s) ==
    LET Follows(c) == c \in 65 .. 127
        of[p \in 1 .. Len(s) + 1] ==
            LET one == MbWc(s, p)
                two == MbWc(s, p + one.len)
                pair == <<one.wc, IF two.len > 0 THEN two.wc ELSE one.wc>>
            IN IF one.len <= 0 THEN <<>>
               ELSE IF Follows(one.wc) /\ two.len >= 0 /\ Follows(pair[2]) /\ pair \in DOMAIN tables.contractions
               THEN <<tables.contractions[pair]>> \o of[p + one.len + two.len]
               ELSE (IF one.wc \in DOMAIN tables.weight THEN tables.weight[one.wc] ELSE Implicit(one.wc))
                    \o of[p + one.len]
    IN of[1]

\* my_strnncoll_uca: -1 stands for the end of a word.
CompareWeights(a, b) ==
    LET n == Len(LongestCommonPrefix({a, b}))
        At(w) == IF n < Len(w) THEN w[n + 1] ELSE -1
    IN At(a) - At(b)

UcaCompare(tables, s, t) == CompareWeights(Weights(tables, s), Weights(tables, t))

ByCollation(cs, s, t) ==
    CASE cs.kind = "general" -> GeneralFrom(s, 1, t, 1)
      [] cs.kind = "bin" -> Bytecmp(s, t)
      [] cs.kind = "uca" -> UcaCompare(cs.tables, s, t)

\* stardict_collate: words the collation takes for equal are ordered by bytes.
OrByBytes(x, s, t) == IF x = 0 THEN Bytecmp(s, t) ELSE x
Collate(cs, s, t) == OrByBytes(ByCollation(cs, s, t), s, t)

-----------------------------------------------------------------------------
\* Tailorings of the source.
Tailoring == [
    unicode |-> <<>>,
    estonian |-> <<Shift, 83, P1, 353, P3, 352, P1, 122, P3, 90, P1, 382, P3, 381,
                   Shift, 87, P1, 245, P3, 213, P1, 228, P3, 196, P1, 246, P3, 214, P1, 252, P3, 220>>,
    spanish |-> <<Shift, 78, P1, 241, P3, 209>>,
    czech |-> <<Shift, 67, P1, 269, P3, 268, Shift, 72, P1, 99, 104, P3, 67, 104, P3, 67, 72,
                Shift, 82, P1, 345, P3, 344, Shift, 83, P1, 353, P3, 352, Shift, 90, P1, 382, P3, 381>>,
    danish |-> <<Shift, 89, P2, 252, P3, 220, P2, 369, P3, 368,
                 Shift, 90, P1, 230, P3, 198, P2, 228, P3, 196, P1, 248, P3, 216, P2, 246, P3, 214,
                 P2, 337, P3, 336, P1, 229, P3, 197, P2, 97, 97, P3, 65, 97, P3, 65, 65>>,
    lithuanian |-> <<Shift, 67, P2, 99, 104, P3, 67, 104, P3, 67, 72, P1, 269, P3, 268,
                     Shift, 69, P2, 281, P3, 280, P2, 279, P3, 278, Shift, 73, P2, 121, P3, 89,
                     Shift, 83, P1, 353, P3, 352, Shift, 90, P1, 382, P3, 381>>,
    spanish2 |-> <<Shift, 67, P1, 99, 104, P3, 67, 104, P3, 67, 72,
                   Shift, 76, P1, 108, 108, P3, 76, 108, P3, 76, 76, Shift, 78, P1, 241, P3, 209>>,
    roman |-> <<Shift, 73, P2, 106, P3, 74, Shift, 86, P2, 117, P3, 85>>]
=============================================================================
