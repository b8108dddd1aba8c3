----------------------------- MODULE Admission -----------------------------
(***************************************************************************)
(* What the process pool promises, without counters, a master or zombies:  *)
(* at most Limit connections hold a process; a client that was given one   *)
(* and stays gets a reply from it, unless somebody kills the process       *)
(* first; and the server itself cuts only connections that hold none.      *)
(***************************************************************************)
EXTENDS Naturals, FiniteSets

CONSTANTS
    Conns,   \* the connections
    Limit    \* server/process_limit

VARIABLES
    holders, \* the connections that hold a process
    view     \* what each client has seen

vars == <<holders, view>>

Init ==
    /\ holders = {}
    /\ view = [c \in Conns |-> "away"]

Arrive(c) ==
    /\ view[c] = "away" /\ c \notin holders
    /\ view' = [view EXCEPT ![c] = "waiting"]
    /\ UNCHANGED holders

\* A client that does not wait for its reply, or for the end of its session.
HangUp(c) ==
    /\ view[c] \in {"waiting", "served"}
    /\ view' = [view EXCEPT ![c] = "left"]
    /\ UNCHANGED holders

Grant(c) ==
    /\ view[c] \in {"waiting", "left"} /\ c \notin holders
    /\ Cardinality(holders) < Limit
    /\ holders' = holders \cup {c}
    /\ UNCHANGED view

\* The banner reaches the client.
Greet(c) ==
    /\ c \in holders /\ view[c] = "waiting"
    /\ view' = [view EXCEPT ![c] = "served"]
    /\ UNCHANGED holders

\* What the client knows when its process ends: it has been served, or left,
\* or is told to come back later.
Ended(c) == IF view[c] = "waiting" THEN "told420" ELSE "away"

\* The same when the process is killed: the only way to learn nothing.
Lost(c) == IF view[c] = "waiting" THEN "lost" ELSE "away"

\* A process ends by itself or is killed.  What it held is freed later, by a
\* step of its own, or at once.
End(c) ==
    /\ c \in holders /\ view[c] \in {"waiting", "served", "left"}
    /\ \E known \in {Ended(c), Lost(c)} : view' = [view EXCEPT ![c] = known]
    /\ holders' \in {holders, holders \ {c}}

Free(c) ==
    /\ c \in holders /\ view[c] \notin {"waiting", "served", "left"}
    /\ holders' = holders \ {c}
    /\ UNCHANGED view

\* The connections of C, which hold no process, end with no status line.
TurnAway(C) ==
    /\ C # {}
    /\ \A c \in C : view[c] \in {"waiting", "left"} /\ c \notin holders
    /\ view' = [c \in Conns |->
                  IF c \in C THEN IF view[c] = "waiting" THEN "cut" ELSE "away"
                             ELSE view[c]]
    /\ UNCHANGED holders

\* A client whose connection ended is free to come back.
Part(c) ==
    /\ view[c] \in {"told420", "cut", "lost"}
    /\ view' = [view EXCEPT ![c] = "away"]
    /\ UNCHANGED holders

Next ==
    \/ \E c \in Conns : \/ Arrive(c) \/ HangUp(c) \/ Grant(c) \/ Greet(c)
                        \/ End(c) \/ Free(c) \/ Part(c)
    \/ \E C \in SUBSET Conns : TurnAway(C)

Spec == Init /\ [][Next]_vars
=============================================================================
