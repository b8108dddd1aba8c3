------------------------------ MODULE WordList ------------------------------
(***************************************************************************)
(* What a word list promises its reader: the words wanted, each once, in   *)
(* order, none left out, until they or the places asked for run out.       *)
(***************************************************************************)
EXTENDS Integers, Sequences

CONSTANTS
    Words,    \* the words, integers in their order
    MaxCount  \* bound on the words asked for

VARIABLES
    wanted,   \* the words still to come
    sent,     \* the words of the list so far
    down,     \* the list runs downwards
    places,   \* how many words may be sent
    open      \* a list is being sent

vars == <<wanted, sent, down, places, open>>

Init ==
    /\ wanted = {} /\ sent = <<>> /\ places = 1
    /\ down = FALSE /\ open = FALSE

Begin ==
    /\ ~open /\ open' = TRUE
    /\ wanted' \in SUBSET Words /\ sent' = <<>>
    /\ places' \in 1 .. MaxCount /\ down' \in BOOLEAN

Nearest(w) ==
    /\ w \in wanted
    /\ \A v \in wanted : IF down THEN v <= w ELSE w <= v

Send ==
    /\ open /\ Len(sent) < places
    /\ \E w \in wanted :
          /\ Nearest(w)
          /\ sent' = Append(sent, w) /\ wanted' = wanted \ {w}
    /\ UNCHANGED <<down, places, open>>

\* The last word may go out in the step that ends the list.
SendLast ==
    /\ open /\ Len(sent) + 1 = places
    /\ \E w \in wanted :
          /\ Nearest(w)
          /\ sent' = Append(sent, w) /\ wanted' = wanted \ {w}
    /\ open' = FALSE
    /\ UNCHANGED <<down, places>>

End ==
    /\ open /\ wanted = {}
    /\ open' = FALSE
    /\ UNCHANGED <<wanted, sent, down, places>>

Next == Begin \/ Send \/ SendLast \/ End

Spec == Init /\ [][Next]_vars
=============================================================================
