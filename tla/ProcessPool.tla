---------------------------- MODULE ProcessPool ----------------------------
(***************************************************************************)
(* The master process of stardictd: StardictdMain::run (stardictdmain.cpp) *)
(* accepts connections and forks one process for each of them, and the     *)
(* SIGCHLD handler `reaper' collects the processes that ended.  The master *)
(* never keeps a list of its children: the only admission control is the   *)
(* difference of two counters, _dict_forks - _dict_reaps.                  *)
(*                                                                         *)
(* A connection and the process forked for it share an identity c; c is    *)
(* used again once both are gone.                                          *)
(***************************************************************************)
EXTENDS Integers, Sequences, FiniteSets

CONSTANTS
    Conns,       \* the connections that may be open at once
    Limit,       \* server/process_limit
    QuietLimit,  \* the least count that is not < _dict_daemon_limit * 0.9
    Depth,       \* DICT_QUEUE_DEPTH, the backlog of the listening socket
    CounterSize, \* 2^32: the counters are C ints and wrap around
    NoConn       \* the value of childSocket between two connections

ASSUME PoolAssumption ==
    /\ IsFiniteSet(Conns)
    /\ NoConn \notin Conns
    /\ Limit \in Nat \ {0}
    /\ QuietLimit \in 1 .. Limit
    /\ Depth \in Nat
    /\ CounterSize \in Nat
    /\ Limit < CounterSize

VARIABLES
    master,    \* where run() is: "accept", "count", "admit"; "exited" once gone
    sock,      \* childSocket: the connection the master has in hand
    daemons,   \* dict_daemon_count, as read for the connection in hand
    forks,     \* _dict_forks
    reaps,     \* _dict_reaps
    reaping,   \* the handler `reaper' is running; run() is suspended meanwhile
    sigchld,   \* SIGCHLD is pending: one bit, however many children ended
    proc,      \* the process of each connection
    backlog,   \* connections the kernel completed and run() has not accepted
    client,    \* what the client of each connection has seen so far
    failed     \* history: the number of forks that failed

vars == <<master, sock, daemons, forks, reaps, reaping, sigchld, proc,
          backlog, client, failed>>

masterVars == <<master, sock, daemons, forks, reaps, reaping, sigchld, failed>>

Counter == 0 .. CounterSize - 1

\* Mutation of the next: a difference that stops at zero.
DifferenceSaturates(m, n) == IF m >= n THEN m - n ELSE 0

\* ++_dict_forks and _dict_forks - _dict_reaps in the counters' width.
Increment(n) == IF n = CounterSize - 1 THEN 0 ELSE n + 1
Difference(m, n) == IF m >= n THEN m - n ELSE m - n + CounterSize

\* "serving": in the command loop; "refusing": forked with error = 1, to say
\* 420 and leave; "zombie": ended and not yet collected.
ProcState == {"none", "serving", "refusing", "zombie"}

\* "away": not connected (any more); "waiting": connected, nothing received;
\* "served": a 220 banner came; "told420": a 420 status came, then the end of
\* the connection; "left": it hung up, and the server has not seen that yet;
\* "cut": the server ended the connection without a status line; "lost": so
\* did a signal that ended the process before it had written one.
ClientState == {"away", "waiting", "served", "told420", "left", "cut", "lost"}

Procs == {c \in Conns : proc[c] # "none"}
Running == {c \in Conns : proc[c] \in {"serving", "refusing"}}
Backlog == {backlog[i] : i \in 1 .. Len(backlog)}

TypeOK ==
    /\ master \in {"accept", "count", "admit", "exited"}
    /\ sock \in Conns \cup {NoConn}
    /\ daemons \in Counter
    /\ forks \in Counter
    /\ reaps \in Counter
    /\ reaping \in BOOLEAN
    /\ sigchld \in BOOLEAN
    /\ proc \in [Conns -> ProcState]
    /\ backlog \in Seq(Conns)
    /\ client \in [Conns -> ClientState]
    /\ failed \in Nat

Init ==
    /\ master = "accept"
    /\ sock = NoConn
    /\ daemons = 0
    /\ forks = 0
    /\ reaps = 0
    /\ reaping = FALSE
    /\ sigchld = FALSE
    /\ proc = [c \in Conns |-> "none"]
    /\ backlog = <<>>
    /\ client = [c \in Conns |-> "away"]
    /\ failed = 0

-----------------------------------------------------------------------------
(* Clients.                                                                *)

\* The listening socket exists while any process holds it: the master, and
\* every child, since run() never closes masterSocket in the child.
Listening == master # "exited" \/ Running # {}

\* A connection request; the kernel drops it when the backlog is full and
\* the client tries again, so the action simply waits for a free place.
Connect(c) ==
    /\ Listening
    /\ client[c] = "away" /\ proc[c] = "none"
    /\ Len(backlog) < Depth
    /\ backlog' = Append(backlog, c)
    /\ client' = [client EXCEPT ![c] = "waiting"]
    /\ UNCHANGED <<masterVars, proc>>

\* A client hangs up, at any time: its connection keeps its place in the
\* backlog, in the master's hand or with a process.
HangUp(c) ==
    /\ client[c] \in {"waiting", "served"}
    /\ client' = [client EXCEPT ![c] = "left"]
    /\ UNCHANGED <<masterVars, proc, backlog>>

\* What the client sees, if it is still there, of the end of its connection.
Seen(c, ending) == IF client[c] = "waiting" THEN ending ELSE "away"

\* A client whose connection ended is free to come back.
Leave(c) ==
    /\ client[c] \in {"told420", "cut", "lost"}
    /\ client' = [client EXCEPT ![c] = "away"]
    /\ UNCHANGED <<masterVars, proc, backlog>>

\* When the last holder of the listening socket ends, the kernel resets the
\* connections that were never accepted.
ResetBacklog ==
    /\ ~Listening
    /\ backlog # <<>>
    /\ backlog' = <<>>
    /\ client' = [c \in Conns |-> IF c \in Backlog THEN Seen(c, "cut") ELSE client[c]]
    /\ UNCHANGED <<masterVars, proc>>

-----------------------------------------------------------------------------
(* run(): the signal handler suspends it at any point.                     *)

InRun(at) == master = at /\ ~reaping

Accept ==
    /\ InRun("accept")
    /\ backlog # <<>>
    /\ sock' = Head(backlog)
    /\ backlog' = Tail(backlog)
    /\ master' = "count"
    /\ UNCHANGED <<daemons, forks, reaps, reaping, sigchld, proc, client, failed>>

CountDaemons ==
    /\ InRun("count")
    /\ daemons' = Difference(forks, reaps)
    /\ master' = "admit"
    /\ UNCHANGED <<sock, forks, reaps, reaping, sigchld, proc, backlog, client, failed>>

\* start_daemon() counts the fork before it knows whether there was one.
StartDaemon == forks' = Increment(forks)

BackToAccept == sock' = NoConn /\ master' = "accept"

\* The child serves when dict_daemon_count < _dict_daemon_limit * 0.9.
Quiet == daemons < QuietLimit

ForkServing ==
    /\ InRun("admit")
    /\ daemons < Limit /\ Quiet
    /\ StartDaemon
    /\ proc' = [proc EXCEPT ![sock] = "serving"]
    /\ BackToAccept
    /\ UNCHANGED <<daemons, reaps, reaping, sigchld, backlog, client, failed>>

\* Mutation: <= for < in the test against the limit.
ForkRefusingOffByOne ==
    /\ InRun("admit")
    /\ daemons <= Limit /\ ~Quiet
    /\ StartDaemon
    /\ proc' = [proc EXCEPT ![sock] = "refusing"]
    /\ BackToAccept
    /\ UNCHANGED <<daemons, reaps, reaping, sigchld, backlog, client, failed>>

ForkRefusing ==
    /\ InRun("admit")
    /\ daemons < Limit /\ ~Quiet
    /\ StartDaemon
    /\ proc' = [proc EXCEPT ![sock] = "refusing"]
    /\ BackToAccept
    /\ UNCHANGED <<daemons, reaps, reaping, sigchld, backlog, client, failed>>

\* Mutation: the socket is closed only when there is a child.
ForkFailsAndKeepsSocket ==
    /\ InRun("admit")
    /\ daemons < Limit
    /\ StartDaemon
    /\ failed' = failed + 1
    /\ BackToAccept
    /\ UNCHANGED <<daemons, reaps, reaping, sigchld, proc, backlog, client>>

\* fork() returned -1: run() takes the parent's branch and closes the
\* connection; nothing takes the increment of _dict_forks back.
ForkFails ==
    /\ InRun("admit")
    /\ daemons < Limit
    /\ StartDaemon
    /\ failed' = failed + 1
    /\ client' = [client EXCEPT ![sock] = Seen(sock, "cut")]
    /\ BackToAccept
    /\ UNCHANGED <<daemons, reaps, reaping, sigchld, proc, backlog>>

\* At the limit the master itself calls dict_daemon(..., error = 2), which
\* closes the connection, and then reaches the exit(0) meant for a child.
TooBusy ==
    /\ InRun("admit")
    /\ daemons >= Limit
    /\ client' = [client EXCEPT ![sock] = Seen(sock, "cut")]
    /\ sock' = NoConn
    /\ master' = "exited"
    /\ UNCHANGED <<daemons, forks, reaps, reaping, sigchld, proc, backlog, failed>>

\* A terminating signal to the master: handler() exits at once, whatever
\* connection is in hand.
TerminateMaster ==
    /\ master # "exited"
    /\ master' = "exited"
    /\ reaping' = FALSE
    /\ sock' = NoConn
    /\ client' = IF sock = NoConn THEN client ELSE [client EXCEPT ![sock] = Seen(sock, "cut")]
    /\ UNCHANGED <<daemons, forks, reaps, sigchld, proc, backlog, failed>>

-----------------------------------------------------------------------------
(* Children.                                                               *)

\* The child's first output: the 220 banner.
Greet(c) ==
    /\ proc[c] = "serving" /\ client[c] = "waiting"
    /\ client' = [client EXCEPT ![c] = "served"]
    /\ UNCHANGED <<masterVars, proc, backlog>>

\* exit(): a zombie until the master collects it, or nobody when the master
\* is gone and init collects it.
Exit(c) ==
    /\ proc' = [proc EXCEPT ![c] = IF master = "exited" THEN "none" ELSE "zombie"]
    /\ sigchld' = (sigchld \/ master # "exited")

\* Mutation: the process closes the connection without a status line.
RefuseSilently(c) ==
    /\ proc[c] = "refusing"
    /\ client' = [client EXCEPT ![c] = Seen(c, "cut")]
    /\ Exit(c)
    /\ UNCHANGED <<master, sock, daemons, forks, reaps, reaping, backlog, failed>>

\* error = 1: the 420 status, close, exit(0).  Nobody reads it when the client
\* has hung up; the write may then raise SIGPIPE, and handler() exits as well.
Refuse(c) ==
    /\ proc[c] = "refusing"
    /\ client' = [client EXCEPT ![c] = Seen(c, "told420")]
    /\ Exit(c)
    /\ UNCHANGED <<master, sock, daemons, forks, reaps, reaping, backlog, failed>>

\* The command loop ends: quit, SIGALRM (armed only after the banner), or the
\* end of file of a client that hung up, where SIGPIPE may come before it.
EndSession(c) ==
    /\ proc[c] = "serving" /\ client[c] \in {"served", "left"}
    /\ client' = [client EXCEPT ![c] = "away"]
    /\ Exit(c)
    /\ UNCHANGED <<master, sock, daemons, forks, reaps, reaping, backlog, failed>>

\* A signal from outside ends the process wherever it is, also before it has
\* written anything: handler() exits, and SIGKILL does not even ask it.
Killed(c) ==
    /\ proc[c] \in {"serving", "refusing"}
    /\ client' = [client EXCEPT ![c] = Seen(c, "lost")]
    /\ Exit(c)
    /\ UNCHANGED <<master, sock, daemons, forks, reaps, reaping, backlog, failed>>

-----------------------------------------------------------------------------
(* reaper(): SIGCHLD is blocked while it runs, and one delivery may stand  *)
(* for several children.                                                   *)

Zombies == {c \in Conns : proc[c] = "zombie"}

CatchSigchld ==
    /\ master # "exited" /\ sigchld /\ ~reaping
    /\ sigchld' = FALSE
    /\ reaping' = TRUE
    /\ UNCHANGED <<master, sock, daemons, forks, reaps, proc, backlog, client, failed>>

\* One wait3(WNOHANG) that returns a child.
Reap(c) ==
    /\ reaping
    /\ proc[c] = "zombie"
    /\ proc' = [proc EXCEPT ![c] = "none"]
    /\ reaps' = Increment(reaps)
    /\ UNCHANGED <<master, sock, daemons, forks, reaping, sigchld, backlog, client, failed>>

\* Mutation: if for while, one wait3 per signal.
ReaperReturnsEarly ==
    /\ reaping
    /\ reaping' = FALSE
    /\ UNCHANGED <<master, sock, daemons, forks, reaps, sigchld, proc, backlog, client, failed>>

\* The wait3 that returns none ends the loop and the handler.
ReaperReturns ==
    /\ reaping
    /\ Zombies = {}
    /\ reaping' = FALSE
    /\ UNCHANGED <<master, sock, daemons, forks, reaps, sigchld, proc, backlog, client, failed>>

\* Zombies of a master that is gone are collected by init.
InitReaps(c) ==
    /\ master = "exited"
    /\ proc[c] = "zombie"
    /\ proc' = [proc EXCEPT ![c] = "none"]
    /\ UNCHANGED <<masterVars, backlog, client>>

-----------------------------------------------------------------------------

Admit == ForkServing \/ ForkRefusing \/ ForkFails \/ TooBusy

Reaper == ReaperReturns \/ \E c \in Conns : Reap(c)

Child(c) == Greet(c) \/ Refuse(c) \/ EndSession(c)

\* What happens when nobody signals the master.
NextUnattended ==
    \/ Accept
    \/ CountDaemons
    \/ Admit
    \/ CatchSigchld
    \/ Reaper
    \/ ResetBacklog
    \/ \E c \in Conns : \/ Connect(c) \/ HangUp(c) \/ Leave(c)
                        \/ Child(c) \/ Killed(c) \/ InitReaps(c)

Next == NextUnattended \/ TerminateMaster

Spec == Init /\ [][Next]_vars

(***************************************************************************)
(* The master and the kernel run; a child's session ends, because between  *)
(* two commands the alarm of delay_time is armed and during one the alarm  *)
(* of max_cost_time (the assumption is that no client sends commands for   *)
(* ever).  No fairness for clients that come or hang up, or for signals.   *)
(***************************************************************************)
Fairness ==
    /\ WF_vars(Accept)
    /\ WF_vars(CountDaemons)
    /\ WF_vars(Admit)
    /\ WF_vars(CatchSigchld)
    /\ WF_vars(Reaper)
    /\ WF_vars(ResetBacklog)
    /\ \A c \in Conns : WF_vars(Child(c)) /\ WF_vars(InitReaps(c))

FairSpec == Spec /\ Fairness

UnattendedSpec == Init /\ [][NextUnattended]_vars

-----------------------------------------------------------------------------
(* Properties.                                                             *)

\* The counters of a running master count its processes, zombies included,
\* and every fork that ever failed, in spite of their wrap-around and of
\* signals that stand for several children (stardictdmain.cpp:41-49, 134,
\* 170): this is all the master knows of its load.
CountersAccount ==
    master # "exited" => Difference(forks, reaps) = Cardinality(Procs) + failed

\* There are never more processes than process_limit, although children are
\* reaped between the reading of dict_daemon_count and the fork it decides
\* (stardictdmain.cpp:170-172).
ProcessLimit == Cardinality(Procs) <= Limit

-----------------------------------------------------------------------------
(* The inductive invariant.                                                *)

\* Where a connection is: in the backlog once, in the master's hand, or with
\* a process; the client of each knows accordingly.
Coherent ==
    /\ sock # NoConn <=> master \in {"count", "admit"}
    /\ sock # NoConn => /\ client[sock] \in {"waiting", "left"}
                        /\ proc[sock] = "none" /\ sock \notin Backlog
    /\ \A c \in Backlog : client[c] \in {"waiting", "left"} /\ proc[c] = "none"
    /\ \A i, j \in 1 .. Len(backlog) : backlog[i] = backlog[j] => i = j
    /\ \A c \in Conns : /\ proc[c] = "zombie" => client[c] \notin {"waiting", "served", "left"}
                        /\ proc[c] = "refusing" => client[c] \in {"waiting", "left"}
                        /\ proc[c] = "serving" => client[c] \in {"waiting", "served", "left"}
    /\ master = "exited" => ~reaping

\* The count read for the connection in hand may be stale, but only in the
\* safe direction: children leave while the master decides, none arrive.
StaleCountIsSafe ==
    master = "admit" => Cardinality(Procs) + failed <= daemons

LoadBounded ==
    /\ Cardinality(Procs) <= Limit
    /\ master # "exited" => Cardinality(Procs) + failed <= Limit

IInv == TypeOK /\ Coherent /\ CountersAccount /\ StaleCountIsSafe /\ LoadBounded

-----------------------------------------------------------------------------

\* A process that gives full service was forked with fewer than 90% of the
\* limit in use (stardictdmain.cpp:173), whatever was reaped meanwhile.
FullServiceOnlyWhenQuiet ==
    [][\A c \in Conns :
         proc[c] # "serving" /\ proc'[c] = "serving" => Cardinality(Procs) < QuietLimit]_vars

\* The limits of the pool hold although dict_daemon_count is stale when it is
\* used: the count errs on the safe side, there are never more processes than
\* process_limit, and full service starts below 90% of it only.
LimitsHold ==
    [][/\ ProcessLimit' /\ StaleCountIsSafe'
       /\ \A c \in Conns :
            proc[c] # "serving" /\ proc'[c] = "serving" => Cardinality(Procs) < QuietLimit]_vars

\* A connection that the kernel completed is answered or closed in the end,
\* also when the master is gone and only its children keep the listening
\* socket open (stardictdmain.cpp:163-186; masterSocket is never closed).
EveryClientResolved ==
    \A c \in Conns : client[c] = "waiting" ~> client[c] # "waiting"

\* No zombie stays: SIGCHLD coalesces, and the loop of reaper() makes up for
\* it (stardictdmain.cpp:45).
EveryZombieCollected ==
    \A c \in Conns : proc[c] = "zombie" ~> proc[c] = "none"

\* What the log line for error = 2 says, "daemon too busy: drop connection"
\* (daemon.cpp:940): overload costs a connection, not the server.
OverloadOnlyDropsTheConnection == failed = 0 => master # "exited"

\* The pool keeps the promise of module Admission: the process given to a
\* client that stays ends without a status line only when a signal from
\* outside ends it, whatever becomes of the master, of other clients and of
\* other processes (run, start_daemon, _handleconn, handler and reaper).
Promise == INSTANCE Admission WITH holders <- Procs, view <- client
KeepsPromise == Promise!Spec
=============================================================================
