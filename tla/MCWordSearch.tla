---------------------------- MODULE MCWordSearch ----------------------------
EXTENDS WordSearch

\* Query of 3 characters: words that differ in length, in letters, or both.
MCLength == <<3, 4, 3, 5, 2>>
MCDistance == <<1, 0, 2, 0, 2>>

Indexes(n) == {s \in BoundedSeq(Words, n) : \A j, k \in DOMAIN s : j < k => s[j] <= s[k]}
F(lib, kind, words) == [lib |-> lib, kind |-> kind, words |-> words]

\* Two dictionaries, the first with and without synonyms.
MCMasks ==
    {<<F(1, "idx", a)>> \o (IF b = <<>> THEN <<>> ELSE <<F(1, "syn", b)>>)
        \o <<F(2, "idx", c)>> : a \in Indexes(3), b \in Indexes(2), c \in Indexes(2)}
=============================================================================
