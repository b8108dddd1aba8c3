---------------------------- MODULE EditDistance ----------------------------
(***************************************************************************)
(* EditDistance::CalEditDistance (distance.cpp): the number of letters to  *)
(* delete, insert, substitute or transpose, as far as it is below a limit. *)
(*                                                                         *)
(* The matrix lives as long as the object and is not cleared between       *)
(* calls: a cell that is read before this call has written it holds what   *)
(* an earlier call has left, Stale here.  The cells are written in the     *)
(* shape of an L that moves along the diagonal of the longer string's end, *)
(* and the call ends when the corner reaches the limit.                    *)
(***************************************************************************)
EXTENDS Integers, Sequences, SequencesExt

Stale == 0 - 9

\* The letters that both strings begin with.
CommonPrefix(s, t) ==
    CHOOSE n \in 0 .. Len(s) :
        /\ n <= Len(t) /\ SubSeq(s, 1, n) = SubSeq(t, 1, n)
        /\ n < Len(s) /\ n < Len(t) => s[n + 1] # t[n + 1]

Drop(s, n) == SubSeq(s, n + 1, Len(s))
Chop(s, n) == SubSeq(s, 1, Len(s) - n)

Least(a, b, c) == IF a < b THEN (IF a < c THEN a ELSE c) ELSE (IF b < c THEN b ELSE c)

\* The cell of row j and column i, and those of n columns and m rows.
At(j, i) == <<j, i>>
Cells(n, m) == (0 .. m) \X (0 .. n)

\* Step 2: row j, column i; the columns belong to the shorter string.
Borders(n, m) ==
    [c \in Cells(n, m) |->
        IF c[1] = 0 THEN c[2] ELSE IF c[2] = 0 THEN c[1] ELSE Stale]

\* A cell from its neighbours: what is deleted, inserted or substituted.
Cheapest(d, s, t, j, i) ==
    LET cost == IF s[i] = t[j] THEN 0 ELSE 1
    IN Least(d[At(j - 1, i)] + 1, d[At(j, i - 1)] + 1, d[At(j - 1, i - 1)] + cost)

\* As Put, where any two letters count as transposed.
PutAnyPair(d, s, t, j, i) ==
    LET v == Cheapest(d, s, t, j, i)
        transposed == i >= 2 /\ j >= 2 /\ v - d[At(j - 2, i - 2)] = 2
    IN [d EXCEPT ![At(j, i)] = IF transposed THEN v - 1 ELSE v]

\* One cell of step 3; a transposition is one edit where it was counted as two.
Put(d, s, t, j, i) ==
    LET v == Cheapest(d, s, t, j, i)
        transposed == /\ i >= 2 /\ j >= 2
                      /\ v - d[At(j - 2, i - 2)] = 2
                      /\ s[i - 1] = t[j] /\ s[i] = t[j - 1]
    IN [d EXCEPT ![At(j, i)] = IF transposed THEN v - 1 ELSE v]

\* The cells of round i in the order they are written: down column i to above
\* the corner, then along the corner's row.
Round(i, diff) ==
    [k \in 1 .. diff + i - 1 |-> At(k, i)] \o [k \in 1 .. i |-> At(diff + i, k)]

Written(d, s, t, cells) ==
    LET After[k \in 0 .. Len(cells)] ==
            IF k = 0 THEN d ELSE Put(After[k - 1], s, t, cells[k][1], cells[k][2])
    IN After[Len(cells)]

\* Round after round until a corner reaches the limit or the strings end.
Fill(s, t, limit) ==
    LET n == Len(s)
        diff == Len(t) - n
        After[i \in 0 .. n] ==
            IF i = 0 THEN Borders(n, Len(t))
            ELSE Written(After[i - 1], s, t, Round(i, diff))
        Corner(i) == After[i][At(diff + i, i)]
        stop == CHOOSE i \in 1 .. n :
                    /\ i = n \/ Corner(i) >= limit
                    /\ \A k \in 1 .. i - 1 : Corner(k) < limit
    IN Corner(stop)

CalEditDistance(s, t, limit) ==
    LET p == CommonPrefix(s, t)
        s1 == Drop(s, p)
        t1 == Drop(t, p)
        q == CommonPrefix(Reverse(s1), Reverse(t1))
        s2 == Chop(s1, q)
        t2 == Chop(t1, q)
        short == IF Len(t2) < Len(s2) THEN t2 ELSE s2
        long == IF Len(t2) < Len(s2) THEN s2 ELSE t2
    IN IF short = <<>> THEN Len(long)
       ELSE IF Len(long) - Len(short) >= limit THEN Len(long) - Len(short)
       ELSE Fill(short, long, limit)

\* The distance as it is defined: whole strings, every cell, no limit.
EditsAt(D, s, t, j, i) ==
    IF j = 0 THEN i
    ELSE IF i = 0 THEN j
    ELSE LET cost == IF s[i] = t[j] THEN 0 ELSE 1
             v == Least(D[At(j - 1, i)] + 1, D[At(j, i - 1)] + 1, D[At(j - 1, i - 1)] + cost)
         IN IF i >= 2 /\ j >= 2 /\ s[i] = t[j - 1] /\ s[i - 1] = t[j]
               /\ D[At(j - 2, i - 2)] + 1 < v
            THEN D[At(j - 2, i - 2)] + 1 ELSE v

Edits(s, t) ==
    LET D[c \in Cells(Len(s), Len(t))] == EditsAt(D, s, t, c[1], c[2])
    IN D[At(Len(t), Len(s))]
=============================================================================
