------------------------- MODULE ProcessPoolProofs -------------------------
(***************************************************************************)
(* Theorems about the process pool, for every set of connections, every    *)
(* process_limit and every counter width above it.                         *)
(*                                                                         *)
(* The count of processes changes in two ways only, ForkServing or         *)
(* ForkRefusing and Reap or InitReaps; lemmas about Procs give its         *)
(* cardinality after each kind of step, and the inductive invariant IInv   *)
(* is then carried over each action.                                       *)
(***************************************************************************)
EXTENDS ProcessPool, FiniteSetTheorems, TLAPS

(***************************************************************************)
(* Counters.                                                               *)
(***************************************************************************)

\* Adding one to either counter moves the difference by one, wrap-around
\* included, as long as the difference stays within the counters' width.
LEMMA CounterArithmetic ==
    ASSUME NEW m \in Counter, NEW n \in Counter
    PROVE  /\ Difference(m, n) \in Counter
           /\ Increment(m) \in Counter
           /\ Difference(m, n) + 1 < CounterSize
                => Difference(Increment(m), n) = Difference(m, n) + 1
           /\ Difference(m, n) > 0
                => Difference(m, Increment(n)) = Difference(m, n) - 1
BY PoolAssumption DEF Counter, Difference, Increment

(***************************************************************************)
(* The set of processes.                                                   *)
(***************************************************************************)

\* A set of connections is finite, so its cardinality is a number.
LEMMA ProcsFinite == IsFiniteSet(Procs) /\ Cardinality(Procs) \in Nat
<1>1. Procs \subseteq Conns
  BY DEF Procs
<1>2. QED
  BY <1>1, PoolAssumption, FS_Subset, FS_CardinalityType

\* A fork for a connection without a process adds one process.
LEMMA ForkAddsOne ==
    ASSUME TypeOK, NEW c \in Conns, proc[c] = "none",
           NEW s \in {"serving", "refusing"}, proc' = [proc EXCEPT ![c] = s]
    PROVE  Procs' = Procs \cup {c} /\ Cardinality(Procs') = Cardinality(Procs) + 1
<1>1. Procs' = Procs \cup {c} /\ c \notin Procs
  BY DEF Procs, TypeOK
<1>2. QED
  BY <1>1, ProcsFinite, FS_AddElement

\* Collecting a child removes one.
LEMMA ReapRemovesOne ==
    ASSUME TypeOK, NEW c \in Conns, proc[c] # "none",
           proc' = [proc EXCEPT ![c] = "none"]
    PROVE  Procs' = Procs \ {c} /\ Cardinality(Procs') = Cardinality(Procs) - 1
<1>1. Procs' = Procs \ {c} /\ c \in Procs
  BY DEF Procs, TypeOK
<1>2. QED
  BY <1>1, ProcsFinite, FS_RemoveElement

\* A child that ends under a running master is still counted.
LEMMA ZombieStillCounts ==
    ASSUME TypeOK, NEW c \in Conns, proc[c] # "none",
           proc' = [proc EXCEPT ![c] = "zombie"]
    PROVE  Procs' = Procs
BY DEF Procs, TypeOK

(***************************************************************************)
(* Type correctness.                                                       *)
(***************************************************************************)

LEMMA TypeInit == Init => TypeOK
<1>1. 0 \in Counter
  BY PoolAssumption DEF Counter
<1>2. <<>> \in Seq(Conns)
  OBVIOUS
<1>3. Init => reaping \in BOOLEAN /\ sigchld \in BOOLEAN
  BY Zenon DEF Init
<1>4. Init => proc \in [Conns -> ProcState] /\ client \in [Conns -> ClientState]
  BY DEF Init, ProcState, ClientState
<1>5. Init => backlog \in Seq(Conns)
  BY <1>2 DEF Init
<1>6. QED
  BY <1>1, <1>3, <1>4, <1>5 DEF Init, TypeOK

LEMMA TypeStep == TypeOK /\ [Next]_vars => TypeOK'
<1> SUFFICES ASSUME TypeOK, [Next]_vars PROVE TypeOK'
  OBVIOUS
<1> USE DEF TypeOK, ProcState, ClientState, masterVars
<1>1. CASE Accept
  BY <1>1 DEF Accept, InRun
<1>2. CASE CountDaemons
  BY <1>2, CounterArithmetic DEF CountDaemons, InRun
<1>3. CASE ForkServing
  BY <1>3, CounterArithmetic DEF ForkServing, InRun, StartDaemon, BackToAccept
<1>4. CASE ForkRefusing
  BY <1>4, CounterArithmetic DEF ForkRefusing, InRun, StartDaemon, BackToAccept
<1>5. CASE ForkFails
  <2>1. forks' \in Counter
    BY <1>5, CounterArithmetic DEF ForkFails, StartDaemon
  <2>2. failed' \in Nat
    BY <1>5 DEF ForkFails
  <2>3. client' \in [Conns -> ClientState]
    BY <1>5 DEF ForkFails, Seen, ClientState
  <2>4. QED
    BY <1>5, <2>1, <2>2, <2>3 DEF ForkFails, BackToAccept
<1>6. CASE TooBusy
  BY <1>6 DEF TooBusy, InRun, Seen
<1>7. CASE CatchSigchld
  BY <1>7 DEF CatchSigchld
<1>8. CASE ReaperReturns
  BY <1>8 DEF ReaperReturns
<1>9. ASSUME NEW c \in Conns, Reap(c) PROVE TypeOK'
  BY <1>9, CounterArithmetic DEF Reap
<1>10. CASE ResetBacklog
  BY <1>10 DEF ResetBacklog, Seen
<1>11. ASSUME NEW c \in Conns, Connect(c) PROVE TypeOK'
  BY <1>11 DEF Connect
<1>12. ASSUME NEW c \in Conns, Leave(c) PROVE TypeOK'
  BY <1>12 DEF Leave
<1>13. ASSUME NEW c \in Conns, Greet(c) PROVE TypeOK'
  BY <1>13 DEF Greet
<1>14. ASSUME NEW c \in Conns, Refuse(c) PROVE TypeOK'
  BY <1>14 DEF Refuse, Exit, Seen
<1>15. ASSUME NEW c \in Conns, EndSession(c) PROVE TypeOK'
  BY <1>15 DEF EndSession, Exit
<1>16. ASSUME NEW c \in Conns, InitReaps(c) PROVE TypeOK'
  BY <1>16 DEF InitReaps
<1>17. CASE TerminateMaster
  BY <1>17 DEF TerminateMaster, Seen
<1>18. ASSUME NEW c \in Conns, HangUp(c) PROVE TypeOK'
  BY <1>18 DEF HangUp
<1>19. ASSUME NEW c \in Conns, Killed(c) PROVE TypeOK'
  BY <1>19 DEF Killed, Exit, Seen
<1>20. CASE UNCHANGED vars
  BY <1>20 DEF vars
<1>21. QED
  BY <1>1, <1>2, <1>3, <1>4, <1>5, <1>6, <1>7, <1>8, <1>9, <1>10, <1>11, <1>12,
     <1>13, <1>14, <1>15, <1>16, <1>17, <1>18, <1>19, <1>20
  DEF Next, NextUnattended, Admit, Reaper, Child

\* Every variable keeps its type; in particular both counters stay within
\* their width (StardictdMain::run and reaper).
THEOREM TypeCorrect == Spec => []TypeOK
BY TypeInit, TypeStep, PTL DEF Spec

(***************************************************************************)
(* The backlog as a set.                                                   *)
(***************************************************************************)

LEMMA AppendBacklog ==
    ASSUME TypeOK, NEW c \in Conns, backlog' = Append(backlog, c)
    PROVE  /\ Backlog' = Backlog \cup {c}
           /\ Len(backlog') = Len(backlog) + 1
           /\ \A i \in 1 .. Len(backlog) : backlog'[i] = backlog[i]
           /\ backlog'[Len(backlog) + 1] = c
<1>1. /\ Len(backlog') = Len(backlog) + 1
      /\ \A i \in 1 .. Len(backlog) : backlog'[i] = backlog[i]
      /\ backlog'[Len(backlog) + 1] = c
      /\ Len(backlog) \in Nat
  BY DEF TypeOK
<1>2. QED
  BY <1>1 DEF Backlog

LEMMA TailBacklog ==
    ASSUME TypeOK, backlog # <<>>, backlog' = Tail(backlog)
    PROVE  /\ Backlog' \subseteq Backlog
           /\ backlog[1] \in Backlog
           /\ Head(backlog) = backlog[1]
           /\ Len(backlog) \in Nat \ {0}
           /\ Len(backlog') = Len(backlog) - 1
           /\ \A i \in 1 .. Len(backlog') : backlog'[i] = backlog[i + 1]
<1>1. /\ Len(backlog') = Len(backlog) - 1
      /\ \A i \in 1 .. Len(backlog') : backlog'[i] = backlog[i + 1]
      /\ Head(backlog) = backlog[1]
      /\ Len(backlog) \in Nat \ {0}
  BY DEF TypeOK
<1>2. QED
  BY <1>1 DEF Backlog

(***************************************************************************)
(* Where connections are.                                                  *)
(***************************************************************************)

LEMMA CoherentInit == Init => Coherent
BY PoolAssumption DEF Init, Coherent, Backlog

LEMMA CoherentStep == TypeOK /\ Coherent /\ [Next]_vars => Coherent'
<1> SUFFICES ASSUME TypeOK, Coherent, [Next]_vars PROVE Coherent'
  OBVIOUS
<1> USE DEF masterVars
<1>1. CASE Accept
  <2>1. backlog # <<>> /\ backlog' = Tail(backlog) /\ sock' = backlog[1]
    BY <1>1, TailBacklog DEF Accept
  <2>2. sock' \notin Backlog'
    BY <2>1, TailBacklog DEF Backlog, Coherent
  <2>3. \A i, j \in 1 .. Len(backlog') : backlog'[i] = backlog'[j] => i = j
    <3>1. SUFFICES ASSUME NEW i \in 1 .. Len(backlog'), NEW j \in 1 .. Len(backlog'),
                          backlog'[i] = backlog'[j]
                   PROVE  i = j
      OBVIOUS
    <3>2. i + 1 \in 1 .. Len(backlog) /\ j + 1 \in 1 .. Len(backlog)
      BY <2>1, TailBacklog
    <3>3. QED
      BY <2>1, <3>1, <3>2, TailBacklog DEF Coherent
  <2>4. sock' \in Conns /\ sock' # NoConn /\ client[sock'] \in {"waiting", "left"}
        /\ proc[sock'] = "none"
    BY <2>1, TailBacklog, PoolAssumption DEF Coherent, TypeOK
  <2>5. \A c \in Backlog' : client[c] \in {"waiting", "left"} /\ proc[c] = "none"
    BY <2>1, TailBacklog DEF Coherent
  <2>6. QED
    BY <1>1, <2>2, <2>3, <2>4, <2>5 DEF Coherent, Accept, InRun
<1>2. CASE CountDaemons
  BY <1>2 DEF CountDaemons, InRun, Coherent, Backlog
<1>3. CASE ForkServing
  BY <1>3, PoolAssumption DEF ForkServing, InRun, BackToAccept, Coherent, Backlog, TypeOK
<1>4. CASE ForkRefusing
  BY <1>4, PoolAssumption DEF ForkRefusing, InRun, BackToAccept, Coherent, Backlog, TypeOK
<1>5. CASE ForkFails
  BY <1>5, PoolAssumption DEF ForkFails, InRun, BackToAccept, Seen, Coherent, Backlog, TypeOK
<1>6. CASE TooBusy
  BY <1>6, PoolAssumption DEF TooBusy, InRun, Seen, Coherent, Backlog, TypeOK
<1>7. CASE CatchSigchld
  BY <1>7 DEF CatchSigchld, Coherent, Backlog
<1>8. CASE ReaperReturns
  BY <1>8 DEF ReaperReturns, Coherent, Backlog
<1>9. ASSUME NEW c \in Conns, Reap(c) PROVE Coherent'
  BY <1>9 DEF Reap, Coherent, Backlog, TypeOK
<1>10. CASE ResetBacklog
  <2>1. Backlog' = {} /\ Len(backlog') = 0
    BY <1>10 DEF ResetBacklog, Backlog
  <2>2. master = "exited" /\ sock = NoConn /\ Running = {}
    BY <1>10 DEF ResetBacklog, Listening, Coherent
  <2>3. \A c \in Conns : client'[c] = IF c \in Backlog THEN Seen(c, "cut") ELSE client[c]
    BY <1>10 DEF ResetBacklog
  <2>4. QED
    BY <1>10, <2>1, <2>2, <2>3 DEF ResetBacklog, Coherent, Running, TypeOK, ProcState
<1>11. ASSUME NEW c \in Conns, Connect(c) PROVE Coherent'
  <2>1. /\ backlog' = Append(backlog, c) /\ client' = [client EXCEPT ![c] = "waiting"]
        /\ client[c] = "away" /\ proc[c] = "none"
        /\ UNCHANGED <<master, sock, reaping, proc>>
    BY <1>11 DEF Connect
  <2>2. c \notin Backlog /\ c # sock
    BY <2>1, PoolAssumption DEF Coherent, TypeOK
  <2>3. \A i, j \in 1 .. Len(backlog') : backlog'[i] = backlog'[j] => i = j
    <3>1. Len(backlog) \in Nat
      BY DEF TypeOK
    <3>2. \A i \in 1 .. Len(backlog) : backlog[i] # c
      BY <2>2 DEF Backlog
    <3>3. \A i \in 1 .. Len(backlog') : i \in 1 .. Len(backlog) \/ i = Len(backlog) + 1
      BY <2>1, <3>1, AppendBacklog
    <3>4. QED
      BY <2>1, <3>1, <3>2, <3>3, AppendBacklog DEF Coherent
  <2>4. QED
    BY <2>1, <2>2, <2>3, AppendBacklog DEF Coherent, TypeOK
<1>12. ASSUME NEW c \in Conns, Leave(c) PROVE Coherent'
  BY <1>12 DEF Leave, Coherent, Backlog, TypeOK
<1>13. ASSUME NEW c \in Conns, Greet(c) PROVE Coherent'
  BY <1>13 DEF Greet, Coherent, Backlog, TypeOK
<1>14. ASSUME NEW c \in Conns, Refuse(c) PROVE Coherent'
  BY <1>14 DEF Refuse, Exit, Seen, Coherent, Backlog, TypeOK
<1>15. ASSUME NEW c \in Conns, EndSession(c) PROVE Coherent'
  BY <1>15 DEF EndSession, Exit, Coherent, Backlog, TypeOK
<1>16. ASSUME NEW c \in Conns, InitReaps(c) PROVE Coherent'
  BY <1>16 DEF InitReaps, Coherent, Backlog, TypeOK
<1>17. CASE TerminateMaster
  BY <1>17, PoolAssumption DEF TerminateMaster, Seen, Coherent, Backlog, TypeOK
<1>18. ASSUME NEW c \in Conns, HangUp(c) PROVE Coherent'
  BY <1>18 DEF HangUp, Coherent, Backlog, TypeOK
<1>19. ASSUME NEW c \in Conns, Killed(c) PROVE Coherent'
  BY <1>19 DEF Killed, Exit, Seen, Coherent, Backlog, TypeOK
<1>20. CASE UNCHANGED vars
  BY <1>20 DEF vars, Coherent, Backlog
<1>21. QED
  BY <1>1, <1>2, <1>3, <1>4, <1>5, <1>6, <1>7, <1>8, <1>9, <1>10, <1>11, <1>12,
     <1>13, <1>14, <1>15, <1>16, <1>17, <1>18, <1>19, <1>20
  DEF Next, NextUnattended, Admit, Reaper, Child

(***************************************************************************)
(* The load.                                                               *)
(***************************************************************************)

Load == CountersAccount /\ StaleCountIsSafe /\ LoadBounded

LEMMA LoadInit == Init => Load
<1>1. SUFFICES ASSUME Init PROVE Load
  OBVIOUS
<1>2. Procs = {}
  BY <1>1 DEF Init, Procs
<1>3. Cardinality(Procs) = 0
  BY <1>2, FS_EmptySet
<1>4. QED
  BY <1>1, <1>3, PoolAssumption
  DEF Init, Load, CountersAccount, StaleCountIsSafe, LoadBounded, Difference

\* A step that leaves the counters and the set of processes alone, and
\* takes no count, keeps the load accounted for.
LEMMA SameLoad ==
    ASSUME TypeOK, Load, UNCHANGED <<forks, reaps, daemons, failed>>, Procs' = Procs,
           master' \in {master, "accept", "count", "exited"},
           master = "exited" => master' = "exited"
    PROVE  Load'
BY DEF Load, CountersAccount, StaleCountIsSafe, LoadBounded

\* A fork under the limit, successful or not.
LEMMA OneMoreFork ==
    ASSUME TypeOK, Load, master = "admit", daemons < Limit, master' = "accept",
           StartDaemon, reaps' = reaps,
           Cardinality(Procs') \in Nat,
           Cardinality(Procs') + failed' = Cardinality(Procs) + failed + 1,
           failed' \in Nat
    PROVE  Load'
<1>1. /\ Cardinality(Procs) \in Nat /\ failed \in Nat /\ daemons \in Nat
      /\ Difference(forks, reaps) = Cardinality(Procs) + failed
      /\ Cardinality(Procs) + failed <= daemons
  BY ProcsFinite DEF Load, CountersAccount, StaleCountIsSafe, TypeOK, Counter
<1>2. Limit \in Nat /\ CounterSize \in Nat /\ Limit < CounterSize
  BY PoolAssumption
<1>3. Difference(forks', reaps') = Difference(forks, reaps) + 1
  BY <1>1, <1>2, CounterArithmetic DEF StartDaemon, TypeOK
<1>4. QED
  BY <1>1, <1>2, <1>3 DEF Load, CountersAccount, StaleCountIsSafe, LoadBounded

LEMMA LoadStep == TypeOK /\ Coherent /\ Load /\ [Next]_vars => Load'
<1> SUFFICES ASSUME TypeOK, Coherent, Load, [Next]_vars PROVE Load'
  OBVIOUS
<1> USE DEF masterVars
<1>1. CASE Accept
  BY <1>1, SameLoad DEF Accept, InRun, Procs
<1>2. CASE CountDaemons
  <2>1. Procs' = Procs /\ master = "count" /\ master' = "admit"
        /\ daemons' = Difference(forks, reaps) /\ UNCHANGED <<forks, reaps, failed>>
    BY <1>2 DEF CountDaemons, InRun, Procs
  <2>2. QED
    BY <2>1, ProcsFinite DEF Load, CountersAccount, StaleCountIsSafe, LoadBounded, TypeOK
<1>3. CASE ForkServing
  <2>1. sock \in Conns /\ proc[sock] = "none"
    BY <1>3 DEF ForkServing, InRun, Coherent, TypeOK
  <2>2. proc' = [proc EXCEPT ![sock] = "serving"] /\ failed' = failed /\ failed \in Nat
    BY <1>3 DEF ForkServing, TypeOK
  <2>3. Cardinality(Procs') = Cardinality(Procs) + 1
    BY <2>1, <2>2, ForkAddsOne
  <2>4. QED
    BY <1>3, <2>2, <2>3, ProcsFinite, OneMoreFork DEF ForkServing, InRun, BackToAccept
<1>4. CASE ForkRefusing
  <2>1. sock \in Conns /\ proc[sock] = "none"
    BY <1>4 DEF ForkRefusing, InRun, Coherent, TypeOK
  <2>2. proc' = [proc EXCEPT ![sock] = "refusing"] /\ failed' = failed /\ failed \in Nat
    BY <1>4 DEF ForkRefusing, TypeOK
  <2>3. Cardinality(Procs') = Cardinality(Procs) + 1
    BY <2>1, <2>2, ForkAddsOne
  <2>4. QED
    BY <1>4, <2>2, <2>3, ProcsFinite, OneMoreFork DEF ForkRefusing, InRun, BackToAccept
<1>5. CASE ForkFails
  <2>1. Procs' = Procs /\ failed' = failed + 1 /\ failed \in Nat
    BY <1>5 DEF ForkFails, Procs, TypeOK
  <2>2. QED
    BY <1>5, <2>1, ProcsFinite, OneMoreFork DEF ForkFails, InRun, BackToAccept
<1>6. CASE TooBusy
  BY <1>6, SameLoad DEF TooBusy, InRun, Procs
<1>7. CASE CatchSigchld
  BY <1>7, SameLoad DEF CatchSigchld, Procs
<1>8. CASE ReaperReturns
  BY <1>8, SameLoad DEF ReaperReturns, Procs
<1>9. ASSUME NEW c \in Conns, Reap(c) PROVE Load'
  <2>1. Cardinality(Procs') = Cardinality(Procs) - 1 /\ Cardinality(Procs) \in Nat
        /\ Cardinality(Procs') \in Nat
    <3>1. Procs' = Procs \ {c} /\ c \in Procs
      BY <1>9 DEF Reap, Procs, TypeOK
    <3>2. QED
      BY <3>1, ProcsFinite, FS_RemoveElement, FS_CardinalityType
  <2>2. master # "exited" /\ UNCHANGED <<master, forks, daemons, failed>>
        /\ reaps' = Increment(reaps)
    BY <1>9 DEF Reap, Coherent
  <2>3. Difference(forks, reaps) = Cardinality(Procs) + failed
        /\ failed \in Nat /\ Cardinality(Procs) + failed > 0
    BY <2>1, <2>2 DEF Load, CountersAccount, TypeOK
  <2>4. Difference(forks, Increment(reaps)) = Difference(forks, reaps) - 1
    BY <2>3, CounterArithmetic DEF TypeOK
  <2>5. daemons \in Nat /\ Limit \in Nat
    BY PoolAssumption DEF TypeOK, Counter
  <2>6. QED
    BY <2>1, <2>2, <2>3, <2>4, <2>5 DEF Load, CountersAccount, StaleCountIsSafe, LoadBounded
<1>10. CASE ResetBacklog
  BY <1>10, SameLoad DEF ResetBacklog, Procs
<1>11. ASSUME NEW c \in Conns, Connect(c) PROVE Load'
  BY <1>11, SameLoad DEF Connect, Procs
<1>12. ASSUME NEW c \in Conns, Leave(c) PROVE Load'
  BY <1>12, SameLoad DEF Leave, Procs
<1>13. ASSUME NEW c \in Conns, Greet(c) PROVE Load'
  BY <1>13, SameLoad DEF Greet, Procs
<1>14. ASSUME NEW c \in Conns, proc[c] \in {"serving", "refusing"}, Exit(c),
              UNCHANGED <<master, daemons, forks, reaps, failed>>
       PROVE  Load'
  <2>1. CASE master = "exited"
    <3>1. Cardinality(Procs') = Cardinality(Procs) - 1
      BY <1>14, <2>1, ReapRemovesOne DEF Exit
    <3>2. QED
      BY <1>14, <2>1, <3>1, ProcsFinite, PoolAssumption
      DEF Load, CountersAccount, StaleCountIsSafe, LoadBounded
  <2>2. CASE master # "exited"
    <3>1. Procs' = Procs
      BY <1>14, <2>2, ZombieStillCounts DEF Exit
    <3>2. QED
      BY <1>14, <3>1, SameLoad
  <2>3. QED
    BY <2>1, <2>2
<1>15. ASSUME NEW c \in Conns, Refuse(c) PROVE Load'
  BY <1>14, <1>15 DEF Refuse
<1>16. ASSUME NEW c \in Conns, EndSession(c) PROVE Load'
  BY <1>14, <1>16 DEF EndSession
<1>17. ASSUME NEW c \in Conns, InitReaps(c) PROVE Load'
  <2>1. Cardinality(Procs') = Cardinality(Procs) - 1
    BY <1>17, ReapRemovesOne DEF InitReaps
  <2>2. QED
    BY <1>17, <2>1, ProcsFinite, PoolAssumption
    DEF InitReaps, Load, CountersAccount, StaleCountIsSafe, LoadBounded
<1>18. CASE TerminateMaster
  BY <1>18, SameLoad DEF TerminateMaster, Procs
<1>19. ASSUME NEW c \in Conns, HangUp(c) PROVE Load'
  BY <1>19, SameLoad DEF HangUp, Procs
<1>20. ASSUME NEW c \in Conns, Killed(c) PROVE Load'
  BY <1>14, <1>20 DEF Killed
<1>21. CASE UNCHANGED vars
  BY <1>21, SameLoad DEF vars, Procs
<1>22. QED
  BY <1>1, <1>2, <1>3, <1>4, <1>5, <1>6, <1>7, <1>8, <1>9, <1>10, <1>11, <1>12,
     <1>13, <1>15, <1>16, <1>17, <1>18, <1>19, <1>20, <1>21
  DEF Next, NextUnattended, Admit, Reaper, Child

LEMMA IInvInvariant == Spec => []IInv
<1>1. Init => IInv
  BY TypeInit, CoherentInit, LoadInit DEF IInv, Load
<1>2. IInv /\ [Next]_vars => IInv'
  BY TypeStep, CoherentStep, LoadStep DEF IInv, Load
<1>3. QED
  BY <1>1, <1>2, PTL DEF Spec

\* The two counters account for every process and every failed fork, across
\* wrap-around and coalesced signals (start_daemon, reaper).
THEOREM CountersCorrect == Spec => []CountersAccount
<1>1. IInv => CountersAccount
  BY DEF IInv
<1>2. QED
  BY <1>1, IInvInvariant, PTL

\* A count that went stale before its use errs on the safe side only (run).
THEOREM StaleCountCorrect == Spec => []StaleCountIsSafe
<1>1. IInv => StaleCountIsSafe
  BY DEF IInv
<1>2. QED
  BY <1>1, IInvInvariant, PTL

\* process_limit is never exceeded, zombies included (run).
THEOREM LimitRespected == Spec => []ProcessLimit
<1>1. IInv => ProcessLimit
  BY DEF IInv, LoadBounded, ProcessLimit
<1>2. QED
  BY <1>1, IInvInvariant, PTL

\* Full service is only ever started below the threshold (run).
THEOREM QuietService == Spec => FullServiceOnlyWhenQuiet
<1> DEFINE Quietly ==
        \A c \in Conns :
          proc[c] # "serving" /\ proc'[c] = "serving" => Cardinality(Procs) < QuietLimit
<1>1. ASSUME IInv, [Next]_vars PROVE [Quietly]_vars
  <2>1. SUFFICES ASSUME NEW c \in Conns, proc[c] # "serving", proc'[c] = "serving"
                 PROVE  Cardinality(Procs) < QuietLimit
    OBVIOUS
  <2>2. ForkServing
    BY <1>1, <2>1
    DEF IInv, TypeOK, Next, NextUnattended, Accept, CountDaemons, Admit, ForkRefusing, ForkFails,
        TooBusy, CatchSigchld, Reaper, ReaperReturns, Reap, TerminateMaster,
        ResetBacklog, Connect, HangUp, Leave, Child, Greet, Refuse, EndSession,
        Killed, Exit, InitReaps, vars
  <2>3. daemons < QuietLimit /\ Cardinality(Procs) + failed <= daemons
    BY <1>1, <2>2 DEF ForkServing, InRun, Quiet, IInv, StaleCountIsSafe
  <2>4. /\ Cardinality(Procs) \in Nat /\ failed \in Nat
        /\ daemons \in Nat /\ QuietLimit \in Nat
    BY <1>1, ProcsFinite, PoolAssumption DEF IInv, TypeOK, Counter
  <2>5. QED
    BY <2>3, <2>4
<1>2. QED
  BY <1>1, IInvInvariant, PTL DEF Spec, FullServiceOnlyWhenQuiet

(***************************************************************************)
(* The pool implements module Admission.                                   *)
(***************************************************************************)

LEMMA PromiseInit == Init => Promise!Init
BY DEF Init, Promise!Init, Procs

LEMMA PromiseStep == IInv /\ [Next]_vars => [Promise!Next]_(Promise!vars)
<1> SUFFICES ASSUME IInv, [Next]_vars PROVE [Promise!Next]_(Promise!vars)
  OBVIOUS
<1> TypeOK /\ Coherent /\ StaleCountIsSafe
  BY DEF IInv
<1> DEFINE Stutter == UNCHANGED <<Procs, client>>
<1>a. Stutter => UNCHANGED Promise!vars
  BY DEF Promise!vars
<1>b. ASSUME NEW c \in Conns,
             \/ Promise!Arrive(c) \/ Promise!HangUp(c) \/ Promise!Grant(c)
             \/ Promise!Greet(c) \/ Promise!End(c) \/ Promise!Free(c)
             \/ Promise!Part(c)
      PROVE  Promise!Next
  BY <1>b DEF Promise!Next
<1>c. ASSUME NEW C \in SUBSET Conns, Promise!TurnAway(C)
      PROVE  Promise!Next
  BY <1>c DEF Promise!Next
<1>d. ASSUME sock # NoConn, master \in {"count", "admit"}, Procs' = Procs,
             client' = [client EXCEPT ![sock] = Seen(sock, "cut")]
      PROVE  Promise!Next
  <2>1. {sock} \in SUBSET Conns /\ client[sock] \in {"waiting", "left"} /\ sock \notin Procs
    BY <1>d DEF TypeOK, Coherent, Procs
  <2>2. client' = [c \in Conns |-> IF c \in {sock}
                                     THEN IF client[c] = "waiting" THEN "cut" ELSE "away"
                                     ELSE client[c]]
    BY <1>d DEF TypeOK, Seen
  <2>3. Promise!TurnAway({sock})
    BY <1>d, <2>1, <2>2 DEF Promise!TurnAway
  <2>4. QED
    BY <2>1, <2>3, <1>c
<1>e. ASSUME master = "admit", daemons < Limit, NEW s \in {"serving", "refusing"},
             proc' = [proc EXCEPT ![sock] = s], client' = client
      PROVE  Promise!Next
  <2>1. sock \in Conns /\ client[sock] \in {"waiting", "left"} /\ proc[sock] = "none"
    BY <1>e DEF TypeOK, Coherent
  <2>2. sock \notin Procs /\ Procs' = Procs \cup {sock}
    BY <1>e, <2>1, ForkAddsOne DEF Procs
  <2>3. Cardinality(Procs) < Limit
    <3>1. Cardinality(Procs) \in Nat /\ failed \in Nat /\ daemons \in Nat /\ Limit \in Nat
      BY ProcsFinite, PoolAssumption DEF TypeOK, Counter
    <3>2. QED
      BY <1>e, <3>1 DEF StaleCountIsSafe
  <2>4. Promise!Cardinality(Procs) = Cardinality(Procs)
    BY Zenon DEF Promise!Cardinality, Cardinality
  <2>5. Promise!Grant(sock)
    BY <1>e, <2>1, <2>2, <2>3, <2>4 DEF Promise!Grant
  <2>6. QED
    BY <2>1, <2>5, <1>b
<1>f. ASSUME NEW c \in Conns, proc[c] = "zombie", proc' = [proc EXCEPT ![c] = "none"],
             client' = client
      PROVE  Promise!Next
  <2>1. c \in Procs /\ Procs' = Procs \ {c} /\ client[c] \notin {"waiting", "served", "left"}
    BY <1>f, ReapRemovesOne DEF Coherent, Procs
  <2>2. QED
    BY <1>b, <1>f, <2>1 DEF Promise!Free
<1>g. ASSUME NEW c \in Conns, proc[c] \in {"serving", "refusing"}, Exit(c),
             NEW ending \in {"told420", "lost"},
             client' = [client EXCEPT ![c] = Seen(c, ending)]
      PROVE  Promise!Next
  <2>1. c \in Procs /\ client[c] \in {"waiting", "served", "left"}
    BY <1>g DEF Procs, Coherent
  <2>2. Procs' \in {Procs, Procs \ {c}}
    <3>1. CASE master = "exited"
      BY <1>g, <3>1, ReapRemovesOne DEF Exit
    <3>2. CASE master # "exited"
      BY <1>g, <3>2, ZombieStillCounts DEF Exit
    <3>3. QED
      BY <3>1, <3>2
  <2>3. Seen(c, ending) \in {Promise!Ended(c), Promise!Lost(c)}
    BY <1>g DEF Seen, Promise!Ended, Promise!Lost
  <2>4. Promise!End(c)
    BY <1>g, <2>1, <2>2, <2>3 DEF Promise!End
  <2>5. QED
    BY <2>4, <1>b
<1> USE DEF masterVars
<1>1. CASE Accept
  BY <1>1, <1>a DEF Accept, Procs
<1>2. CASE CountDaemons
  BY <1>2, <1>a DEF CountDaemons, Procs
<1>3. CASE ForkServing
  BY <1>3, <1>e DEF ForkServing, InRun
<1>4. CASE ForkRefusing
  BY <1>4, <1>e DEF ForkRefusing, InRun
<1>5. CASE ForkFails
  BY <1>5, <1>d DEF ForkFails, InRun, Coherent, Procs
<1>6. CASE TooBusy
  BY <1>6, <1>d DEF TooBusy, InRun, Coherent, Procs
<1>7. CASE CatchSigchld
  BY <1>7, <1>a DEF CatchSigchld, Procs
<1>8. CASE ReaperReturns
  BY <1>8, <1>a DEF ReaperReturns, Procs
<1>9. ASSUME NEW c \in Conns, Reap(c) PROVE Promise!Next
  BY <1>9, <1>f DEF Reap
<1>10. CASE ResetBacklog
  <2>1. Backlog \in SUBSET Conns /\ Backlog # {}
    <3>1. backlog # << >> /\ backlog \in Seq(Conns)
      BY <1>10 DEF ResetBacklog, TypeOK
    <3>2. /\ Len(backlog) \in Nat \ {0} /\ Head(backlog) = backlog[1]
          /\ \A i \in 1 .. Len(backlog) : backlog[i] \in Conns
      BY <3>1
    <3>3. backlog[1] \in Backlog
      BY <3>2 DEF Backlog
    <3>4. QED
      BY <3>2, <3>3 DEF Backlog
  <2>2. Procs' = Procs
        /\ \A c \in Backlog : client[c] \in {"waiting", "left"} /\ c \notin Procs
    BY <1>10 DEF ResetBacklog, Coherent, Procs
  <2>3. Promise!TurnAway(Backlog)
    BY <1>10, <2>1, <2>2 DEF ResetBacklog, Seen, Promise!TurnAway
  <2>4. QED
    BY <2>1, <2>3, <1>c
<1>11. ASSUME NEW c \in Conns, Connect(c) PROVE Promise!Next
  <2>1. Promise!Arrive(c)
    BY <1>11 DEF Connect, Promise!Arrive, Procs
  <2>2. QED
    BY <2>1, <1>b
<1>12. ASSUME NEW c \in Conns, Leave(c) PROVE Promise!Next
  <2>1. Promise!Part(c)
    BY <1>12 DEF Leave, Promise!Part, Procs
  <2>2. QED
    BY <2>1, <1>b
<1>13. ASSUME NEW c \in Conns, Greet(c) PROVE Promise!Next
  <2>1. Promise!Greet(c)
    BY <1>13 DEF Greet, Promise!Greet, Procs
  <2>2. QED
    BY <2>1, <1>b
<1>14. ASSUME NEW c \in Conns, Refuse(c) PROVE Promise!Next
  BY <1>14, <1>g DEF Refuse
<1>15. ASSUME NEW c \in Conns, EndSession(c) PROVE Promise!Next
  <2>1. Seen(c, "told420") = "away"
    BY <1>15 DEF EndSession, Seen
  <2>2. QED
    BY <1>15, <1>g, <2>1 DEF EndSession
<1>16. ASSUME NEW c \in Conns, InitReaps(c) PROVE Promise!Next
  BY <1>16, <1>f DEF InitReaps
<1>17. CASE TerminateMaster
  <2>1. Procs' = Procs
    BY <1>17 DEF TerminateMaster, Procs
  <2>2. CASE sock = NoConn
    BY <1>17, <2>1, <2>2, <1>a DEF TerminateMaster
  <2>3. CASE sock # NoConn
    BY <1>17, <2>1, <2>3, <1>d DEF TerminateMaster, Coherent
  <2>4. QED
    BY <2>2, <2>3
<1>18. ASSUME NEW c \in Conns, HangUp(c) PROVE Promise!Next
  <2>1. Promise!HangUp(c)
    BY <1>18 DEF HangUp, Promise!HangUp, Procs
  <2>2. QED
    BY <2>1, <1>b
<1>19. ASSUME NEW c \in Conns, Killed(c) PROVE Promise!Next
  BY <1>19, <1>g DEF Killed
<1>20. CASE UNCHANGED vars
  BY <1>20, <1>a DEF vars, Procs
<1>21. QED
  BY <1>1, <1>2, <1>3, <1>4, <1>5, <1>6, <1>7, <1>8, <1>9, <1>10, <1>11, <1>12,
     <1>13, <1>14, <1>15, <1>16, <1>17, <1>18, <1>19, <1>20
  DEF Next, NextUnattended, Admit, Reaper, Child

\* The limits of the pool hold in spite of a stale count (run, start_daemon).
THEOREM LimitsAreHeld == Spec => LimitsHold
<1>1. Spec => []ProcessLimit /\ []StaleCountIsSafe
  BY LimitRespected, StaleCountCorrect
<1>2. QED
  BY <1>1, QuietService, PTL DEF LimitsHold, FullServiceOnlyWhenQuiet

\* run(), start_daemon(), the children and reaper() together do what module
\* Admission promises.
THEOREM PoolKeepsPromise == Spec => KeepsPromise
<1>1. Init => Promise!Init
  BY PromiseInit
<1>2. IInv /\ [Next]_vars => [Promise!Next]_(Promise!vars)
  BY PromiseStep
<1>3. QED
  BY <1>1, <1>2, IInvInvariant, PTL DEF Spec, KeepsPromise, Promise!Spec
=============================================================================
