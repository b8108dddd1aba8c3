--------------------------- MODULE MCIndexLookup ---------------------------
(* Keys are words of two alike letters in either case, in the order of      *)
(* stardict_strcmp: 3 and 4 are the small letters of 1 and 2, beyond ASCII. *)
EXTENDS IndexLookup

MCWords == <<<<1>>, <<1, 3>>, <<1, 4>>, <<2, 3>>, <<3>>, <<3, 3>>, <<3, 4>>, <<4, 3>>>>
MCKeys == DOMAIN MCWords

Small(w) == [i \in DOMAIN w |-> IF w[i] < 3 THEN w[i] + 2 ELSE w[i]]
MCMatch ==
    [q \in MCKeys |-> [k \in MCKeys |->
        LET a == Small(MCWords[q])
            b == Small(MCWords[k])
        IN CHOOSE n \in 0 .. Len(a) :
              /\ n <= Len(b) /\ SubSeq(a, 1, n) = SubSeq(b, 1, n)
              /\ n < Len(a) /\ n < Len(b) => a[n + 1] # b[n + 1]]]
=============================================================================
