----------------------------- MODULE MCAccounts -----------------------------
(* Small instances of Accounts: two dictionaries, one for everybody and one *)
(* for users of level 1, and the masks that name none, one or both.         *)
EXTENDS Accounts, TLC

MCDicts == {"free", "paid"}
MCDictLevel == [d \in MCDicts |-> IF d = "paid" THEN 1 ELSE 0]
MCMasks == {"", "free paid"}

\* SetServerDictMask keeps what the level may search.
MCResolve ==
    [m \in MCMasks |-> [l \in Levels |->
        IF m = "" THEN {} ELSE {d \in MCDicts : MCDictLevel[d] <= l}]]

Symmetry == Permutations(Sessions)
=============================================================================
