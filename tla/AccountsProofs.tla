--------------------------- MODULE AccountsProofs ---------------------------
(***************************************************************************)
(* Theorems about the sessions and their accounts, for every set of        *)
(* connections, names, passwords, masks and dictionaries and every fault.  *)
(*                                                                         *)
(* DataOK is inductive by itself.  The other invariants are carried        *)
(* together, in two halves: a step of session s leaves the variables of    *)
(* every other session alone and the tables only grow (Untouched,    *)
(* TablesGrow), which keeps what holds of the others; what holds of s is   *)
(* shown action by action.                                                 *)
(***************************************************************************)
EXTENDS Accounts, TLAPS

(***************************************************************************)
(* Constants and the parts of a command.                                   *)
(***************************************************************************)

\* The assumption on the constants, in pieces.
LEMMA Bounds == MaxUsers \in Nat /\ MaxLevel \in Nat /\ EmptyMask \in Masks
BY Zenon, AccountsAssumption DEF AccountsAssumption

LEMMA NoRowIsNoRow == NoRow \notin Row /\ NoRow \notin Basic
BY Zenon, AccountsAssumption DEF AccountsAssumption

LEMMA NamesAreNotSpecial == {"root", "guest", ""} \cap Names = {}
BY Zenon, AccountsAssumption DEF AccountsAssumption

LEMMA ResolveType ==
    ASSUME NEW m \in Masks, NEW l \in Levels
    PROVE  Resolve[m][l] \in SUBSET Dicts
<1>1. Resolve \in [Masks -> [Levels -> SUBSET Dicts]]
  BY Zenon, AccountsAssumption DEF AccountsAssumption
<1>2. QED
  BY <1>1

LEMMA ResolveRespectsLevel ==
    ASSUME NEW m \in Masks, NEW l \in Levels, NEW d \in Resolve[m][l]
    PROVE  DictLevel[d] <= l
BY Zenon, AccountsAssumption DEF AccountsAssumption

LEMMA GuestMasksType == GuestMasks \subseteq SUBSET Dicts
BY Zenon, AccountsAssumption DEF AccountsAssumption

LEMMA ZeroIsALevel == 0 \in Levels
BY Bounds DEF Levels

\* The default command, and what is remembered of a finished one.
LEMMA BlankIsAJob == Blank \in Job
BY Bounds, ZeroIsALevel DEF Blank, Job, Step

LEMMA PlainJob ==
    ASSUME NEW op \in AllCommands
    PROVE  [Blank EXCEPT !.op = op] \in Job
BY BlankIsAJob DEF Job

LEMMA BlankIsIdle == Blank.at = "done" /\ Blank.op = "none"
BY DEF Blank

LEMMA FinishedIsAJob ==
    ASSUME NEW cmd \in Job
    PROVE  Finished(cmd) \in Job /\ Finished(cmd).at = "done"
           /\ Finished(cmd).op = cmd.op /\ Finished(cmd).name = cmd.name
BY BlankIsAJob DEF Finished, Blank, Job

(***************************************************************************)
(* Type correctness.                                                       *)
(***************************************************************************)

\* A command answered at once.
LEMMA AnswerKeepsJobs ==
    ASSUME JobsOK, NEW s \in Sessions, NEW cmd \in Job, NEW code \in Codes,
           Answer(s, cmd, code), UNCHANGED <<alive, db>>
    PROVE  JobsOK'
<1>1. <<code>> \in Seq(Codes)
  OBVIOUS
<1>2. replies' \in [Sessions -> Seq(Codes)]
  BY <1>1 DEF JobsOK, Answer
<1>3. job' \in [Sessions -> Job]
  BY FinishedIsAJob DEF JobsOK, Answer
<1>4. faulty' \in [Sessions -> BOOLEAN]
  BY DEF JobsOK, Answer
<1>5. QED
  BY <1>2, <1>3, <1>4 DEF JobsOK

\* A command that wants the database.
LEMMA WithDatabaseKeepsJobs ==
    ASSUME JobsOK, NEW s \in Sessions, NEW cmd \in Job,
           WithDatabase(s, cmd), UNCHANGED alive
    PROVE  JobsOK'
<1>1. <<"DENIED">> \in Seq(Codes) /\ <<>> \in Seq(Codes)
  BY DEF Codes
<1>2. replies' \in [Sessions -> Seq(Codes)]
  BY <1>1 DEF JobsOK, Answer, WithDatabase, Begin
<1>3. job' \in [Sessions -> Job]
  BY FinishedIsAJob DEF JobsOK, Answer, WithDatabase, Begin
<1>4. faulty' \in [Sessions -> BOOLEAN]
  BY DEF JobsOK, Answer, WithDatabase, Begin
<1>5. db' \in [Sessions -> {"unused", "up", "down"}]
  BY DEF JobsOK, WithDatabase
<1>6. QED
  BY <1>2, <1>3, <1>4, <1>5 DEF JobsOK

\* A statement after which the command ends.
LEMMA ReplyKeepsJobs ==
    ASSUME JobsOK, NEW s \in Sessions, NEW code \in Codes, NEW step, NEW outcome,
           Statement(s, step, outcome), Reply(s, code)
    PROVE  JobsOK'
<1>1. replies' \in [Sessions -> Seq(Codes)]
  BY DEF JobsOK, Reply, Say
<1>2. job' \in [Sessions -> Job]
  BY FinishedIsAJob DEF JobsOK, Reply, Finish
<1>3. faulty' \in [Sessions -> BOOLEAN]
  BY DEF JobsOK, Statement, Fault
<1>4. QED
  BY <1>1, <1>2, <1>3 DEF JobsOK, Statement

\* A statement after which another one follows.
LEMMA GotoKeepsJobs ==
    ASSUME JobsOK, NEW s \in Sessions, NEW step, NEW outcome, NEW next \in Step,
           Statement(s, step, outcome), Goto(s, next),
           replies' \in [Sessions -> Seq(Codes)]
    PROVE  JobsOK'
<1>1. [job[s] EXCEPT !.at = next] \in Job
  BY ZenonT(60) DEF JobsOK, Job
<1>2. job' = [job EXCEPT ![s] = [job[s] EXCEPT !.at = next]]
  BY Zenon DEF Goto
<1>3. job' \in [Sessions -> Job]
  BY <1>1, <1>2 DEF JobsOK
<1>4. faulty' \in [Sessions -> BOOLEAN]
  BY DEF JobsOK, Statement, Fault
<1>5. QED
  BY <1>3, <1>4 DEF JobsOK, Statement

LEMMA TypeInit == Init => TypeOK
<1>1. ASSUME Init PROVE TablesOK
  BY <1>1 DEF Init, TablesOK
<1>2. ASSUME Init PROVE IdentityOK
  BY <1>2, ZeroIsALevel DEF Init, IdentityOK
<1>3. ASSUME Init PROVE SearchOK
  BY <1>3 DEF Init, SearchOK
<1>4. ASSUME Init PROVE JobsOK
  <2>1. <<>> \in Seq(Codes)
    OBVIOUS
  <2>2. faulty \in [Sessions -> BOOLEAN]
    BY Zenon, <1>4 DEF Init
  <2>3. QED
    BY <1>4, <2>1, <2>2, BlankIsAJob DEF Init, JobsOK
<1>5. ASSUME Init PROVE \A s \in Sessions : HasWhatItNeeds(s)
  BY <1>5 DEF Init, HasWhatItNeeds, Blank
<1>6. Init => guest \in GuestMasks
  BY DEF Init
<1>7. QED
  BY <1>1, <1>2, <1>3, <1>4, <1>5, <1>6 DEF DataOK, TypeOK

\* Commands that are answered at once and change nothing else.
Quick(s) == RejectParameters(s) \/ RejectUnknownUser(s) \/ AuthGuest(s)
            \/ GetLevel(s) \/ Info(s)

\* Commands that go to the database.
Ask(s) == \/ AuthUser(s) \/ Register(s) \/ ChangePassword(s) \/ UserLevel(s)
          \/ SetDictMaskColumn(s) \/ SetCollateFunc(s) \/ SetOther(s) \/ GetColumn(s)

\* What a command needs when it starts.
Prepared(s, cmd) ==
    /\ cmd.at \in {"column.update", "collate.update", "column.select"} => uid[s] # NoUser
    /\ cmd.at \notin {"auth.basic", "register.basic"}
    /\ cmd.at \in {"auth.select", "register.user"} =>
           cmd.name \in Names /\ cmd.pw \in Passwords
    /\ cmd.at \in {"password.select", "password.update"} => cmd.new \in Passwords
    /\ cmd.at = "auth.select" <=> cmd.op = "auth"
    /\ cmd.at = "register.user" <=> cmd.op = "register"
    /\ cmd.at # "done" /\ cmd.op \notin {"query", "list"}

\* An answer that promises nothing.
Harmless(cmd, code) ==
    /\ cmd.op = "auth" => cmd.name \notin Names
    /\ cmd.op = "register" => code # "OK"
    /\ cmd.op \notin {"query", "list"}

LEMMA PlainCommand ==
    ASSUME NEW op \in AllCommands \ {"auth", "query", "list"}, NEW code,
           op = "register" => code # "OK"
    PROVE  [Blank EXCEPT !.op = op] \in Job /\ Harmless([Blank EXCEPT !.op = op], code)
<1>1. [Blank EXCEPT !.op = op] \in Job
  BY BlankIsAJob DEF Job
<1>2. [Blank EXCEPT !.op = op].op = op
  BY DEF Blank
<1>3. QED
  BY <1>1, <1>2 DEF Harmless

LEMMA QuickAnswers ==
    ASSUME NEW s \in Sessions, Quick(s)
    PROVE  /\ s \in alive /\ UNCHANGED <<tables, alive, identity, search, db>>
           /\ \E cmd \in Job, code \in Codes : Answer(s, cmd, code) /\ Harmless(cmd, code)
<1>1. CASE RejectParameters(s)
  <2>1. PICK op \in {"register", "change_password", "userlevel", "setcollatefunc",
                     "setother"} :
            Ready(s, op) /\ Answer(s, [Blank EXCEPT !.op = op], "DENIED")
    BY <1>1 DEF RejectParameters
  <2>2. op \in AllCommands \ {"auth", "query", "list"} /\ "DENIED" \in Codes
    BY DEF AllCommands, Codes
  <2>3. QED
    BY <1>1, <2>1, <2>2, PlainCommand DEF RejectParameters, Ready
<1>2. CASE RejectUnknownUser(s)
  <2>1. PICK op \in {"setdictmask", "setcollatefunc", "setother", "getdictmask", "get",
                     "getuserlevel", "maxdictcount"} :
            /\ Ready(s, op)
            /\ Answer(s, [Blank EXCEPT !.op = op],
                IF op \in {"getdictmask", "maxdictcount"} THEN "NOUSER" ELSE "DENIED")
    BY <1>2 DEF RejectUnknownUser
  <2>2. op \in AllCommands \ {"auth", "query", "list"} /\ op # "register"
    BY DEF AllCommands
  <2>3. (IF op \in {"getdictmask", "maxdictcount"} THEN "NOUSER" ELSE "DENIED") \in Codes
    BY DEF Codes
  <2>4. QED
    BY <1>2, <2>1, <2>2, <2>3, PlainCommand DEF RejectUnknownUser, Ready
<1>3. CASE AuthGuest(s)
  <2>1. [Blank EXCEPT !.op = "auth", !.name = "guest"] \in Job
    BY BlankIsAJob DEF Job, AllCommands
  <2>2. Harmless([Blank EXCEPT !.op = "auth", !.name = "guest"], "OK")
    BY NamesAreNotSpecial DEF Harmless, Blank
  <2>3. "OK" \in Codes
    BY DEF Codes
  <2>4. QED
    BY <1>3, <2>1, <2>2, <2>3 DEF AuthGuest, Ready
<1>4. CASE GetLevel(s)
  <2>1. PICK op \in {"getuserlevel", "maxdictcount"} :
            Ready(s, op) /\ Answer(s, [Blank EXCEPT !.op = op], "OK")
    BY <1>4 DEF GetLevel
  <2>2. op \in AllCommands \ {"auth", "query", "list"} /\ op # "register" /\ "OK" \in Codes
    BY DEF AllCommands, Codes
  <2>3. QED
    BY <1>4, <2>1, <2>2, PlainCommand DEF GetLevel, Ready
<1>5. CASE Info(s)
  <2>1. PICK code \in {"OK", "DENIED", "SYNTAX"} :
            Answer(s, [Blank EXCEPT !.op = "info"], code)
    BY <1>5 DEF Info
  <2>2. "info" \in AllCommands \ {"auth", "query", "list"} /\ code \in Codes
    BY DEF AllCommands, Codes
  <2>3. QED
    BY <1>5, <2>1, <2>2, PlainCommand DEF Info, Ready
<1>6. QED
  BY <1>1, <1>2, <1>3, <1>4, <1>5 DEF Quick

LEMMA AskAsks ==
    ASSUME NEW s \in Sessions, Ask(s)
    PROVE  /\ s \in alive /\ UNCHANGED <<tables, alive, identity, search>>
           /\ \E cmd \in Job : Prepared(s, cmd) /\ WithDatabase(s, cmd)
<1>1. CASE AuthUser(s)
  BY ZenonT(60), <1>1, BlankIsAJob DEF AuthUser, Ready, Prepared, Blank, Job, AllCommands, Step
<1>2. CASE Register(s)
  BY ZenonT(60), <1>2, BlankIsAJob DEF Register, Ready, Prepared, Blank, Job, AllCommands, Step
<1>3. CASE ChangePassword(s)
  <2>1. PICK n \in Names, old \in Passwords, new \in Passwords :
            WithDatabase(s, [Blank EXCEPT
              !.op = "change_password", !.name = n, !.pw = old, !.new = new,
              !.at = IF auth[s] = "root" THEN "password.update"
                                         ELSE "password.select"])
    BY <1>3 DEF ChangePassword
  <2>2. PICK first \in {"password.update", "password.select"} :
            first = IF auth[s] = "root" THEN "password.update" ELSE "password.select"
    OBVIOUS
  <2>3. WithDatabase(s, [Blank EXCEPT !.op = "change_password", !.name = n,
                                      !.pw = old, !.new = new, !.at = first])
    BY Zenon, <2>1, <2>2
  <2>4. [Blank EXCEPT !.op = "change_password", !.name = n, !.pw = old, !.new = new,
                      !.at = first] \in Job
    BY BlankIsAJob DEF Job, AllCommands, Step
  <2>5. Prepared(s, [Blank EXCEPT !.op = "change_password", !.name = n, !.pw = old,
                                  !.new = new, !.at = first])
    BY DEF Prepared, Blank
  <2>6. s \in alive /\ UNCHANGED <<tables, alive, identity, search>>
    BY <1>3 DEF ChangePassword, Ready
  <2>7. QED
    BY <2>3, <2>4, <2>5, <2>6
<1>4. CASE UserLevel(s)
  BY ZenonT(60), <1>4, BlankIsAJob DEF UserLevel, Ready, Prepared, Blank, Job, AllCommands, Step
<1>5. CASE SetDictMaskColumn(s)
  BY ZenonT(60), <1>5, BlankIsAJob DEF SetDictMaskColumn, Ready, Prepared, Blank, Job, AllCommands, Step
<1>6. CASE SetCollateFunc(s)
  BY ZenonT(60), <1>6, BlankIsAJob DEF SetCollateFunc, Ready, Prepared, Blank, Job, AllCommands, Step
<1>7. CASE SetOther(s)
  BY ZenonT(60), <1>7, BlankIsAJob DEF SetOther, Ready, Prepared, Blank, Job, AllCommands, Step
<1>8. CASE GetColumn(s)
  BY ZenonT(60), <1>8, BlankIsAJob DEF GetColumn, Ready, Prepared, Blank, Job, AllCommands, Step
<1>9. QED
  BY <1>1, <1>2, <1>3, <1>4, <1>5, <1>6, <1>7, <1>8 DEF Ask

\* A finished command needs nothing, and the needs of the other sessions are
\* met as long as their commands and ids stay.
LEMMA NeedsAfterEnd ==
    ASSUME DataOK, NEW s \in Sessions, job'[s].at = "done",
           \A t \in Sessions \ {s} : job'[t] = job[t] /\ uid'[t] = uid[t]
    PROVE  \A t \in Sessions : HasWhatItNeeds(t)'
<1>1. HasWhatItNeeds(s)'
  BY DEF HasWhatItNeeds
<1>2. ASSUME NEW t \in Sessions \ {s} PROVE HasWhatItNeeds(t)'
  BY <1>2 DEF DataOK, HasWhatItNeeds
<1>3. QED
  BY <1>1, <1>2

LEMMA NeedsAfterReply ==
    ASSUME DataOK, NEW s \in Sessions, NEW code, Reply(s, code),
           \A t \in Sessions \ {s} : uid'[t] = uid[t]
    PROVE  \A t \in Sessions : HasWhatItNeeds(t)'
<1>1. job' = [job EXCEPT ![s] = Finished(job[s])] /\ job[s] \in Job /\ job \in [Sessions -> Job]
  BY DEF Reply, Finish, DataOK, JobsOK
<1>2. job'[s].at = "done" /\ \A t \in Sessions \ {s} : job'[t] = job[t]
  BY <1>1, FinishedIsAJob
<1>3. QED
  BY <1>2, NeedsAfterEnd

LEMMA NeedsAfterGoto ==
    ASSUME DataOK, NEW s \in Sessions, NEW next \in Step, Goto(s, next),
           \A t \in Sessions \ {s} : uid'[t] = uid[t],
           next \in {"auth.basic", "register.basic"} => uid'[s] # NoUser,
           next = "auth.basic" => job[s].name \in Names /\ job[s].pw \in Passwords,
           next = "password.update" => job[s].new \in Passwords,
           next \in {"auth.basic", "register.basic", "password.update", "level.update"}
    PROVE  \A t \in Sessions : HasWhatItNeeds(t)'
<1>1. job' = [job EXCEPT ![s] = [job[s] EXCEPT !.at = next]]
  BY Zenon DEF Goto
<1>2. job \in [Sessions -> Job] /\ job[s] \in Job
  BY DEF DataOK, JobsOK
<1>3. /\ job'[s].at = next /\ job'[s].name = job[s].name
      /\ job'[s].pw = job[s].pw /\ job'[s].new = job[s].new
  BY <1>1, <1>2 DEF Job
<1>4. HasWhatItNeeds(s)'
  BY <1>3 DEF HasWhatItNeeds
<1>5. ASSUME NEW t \in Sessions \ {s} PROVE HasWhatItNeeds(t)'
  <2>1. job'[t] = job[t] /\ uid'[t] = uid[t] /\ HasWhatItNeeds(t)
    BY <1>1, <1>2 DEF DataOK
  <2>2. QED
    BY <2>1 DEF HasWhatItNeeds
<1>6. QED
  BY <1>4, <1>5

LEMMA QuickType ==
    ASSUME DataOK, NEW s \in Sessions, Quick(s)
    PROVE  DataOK'
<1>1. PICK cmd \in Job, code \in Codes : Answer(s, cmd, code)
  BY QuickAnswers
<1>2. UNCHANGED <<tables, alive, identity, search, db>>
  BY QuickAnswers
<1>3. TablesOK' /\ IdentityOK' /\ SearchOK'
  BY <1>2 DEF DataOK, TablesOK, IdentityOK, SearchOK, tables, identity, search
<1>4. JobsOK'
  BY <1>1, <1>2, AnswerKeepsJobs DEF DataOK
<1>5. job'[s].at = "done" /\ \A t \in Sessions \ {s} : job'[t] = job[t] /\ uid'[t] = uid[t]
  BY <1>1, <1>2, FinishedIsAJob DEF Answer, DataOK, JobsOK, identity
<1>6. QED
  BY <1>3, <1>4, <1>5, NeedsAfterEnd DEF DataOK

LEMMA AskType ==
    ASSUME DataOK, NEW s \in Sessions, Ask(s)
    PROVE  DataOK'
<1>1. PICK cmd \in Job : Prepared(s, cmd) /\ WithDatabase(s, cmd)
  BY AskAsks
<1>2. UNCHANGED <<tables, alive, identity, search>>
  BY AskAsks
<1>3. TablesOK' /\ IdentityOK' /\ SearchOK'
  BY <1>2 DEF DataOK, TablesOK, IdentityOK, SearchOK, tables, identity, search
<1>4. JobsOK'
  BY <1>1, <1>2, WithDatabaseKeepsJobs DEF DataOK
<1>5. uid' = uid /\ \A t \in Sessions \ {s} : job'[t] = job[t]
  BY <1>1, <1>2 DEF WithDatabase, Begin, Answer, DataOK, JobsOK, identity
<1>6. job'[s] = cmd \/ job'[s].at = "done"
  BY <1>1, FinishedIsAJob DEF WithDatabase, Begin, Answer, DataOK, JobsOK
<1>7. CASE job'[s].at = "done"
  BY <1>3, <1>4, <1>5, <1>7, NeedsAfterEnd DEF DataOK
<1>8. CASE job'[s] = cmd
  <2>1. HasWhatItNeeds(s)'
    BY <1>1, <1>5, <1>8 DEF HasWhatItNeeds, Prepared
  <2>2. ASSUME NEW t \in Sessions \ {s} PROVE HasWhatItNeeds(t)'
    BY <1>5, <2>2 DEF DataOK, HasWhatItNeeds
  <2>3. QED
    BY <1>3, <1>4, <2>1, <2>2 DEF DataOK
<1>9. QED
  BY <1>6, <1>7, <1>8

\* The settings of a session keep their types.
LEMMA SettingsType ==
    ASSUME SearchOK, NEW s \in Sessions, NEW dicts \in SUBSET Dicts,
           NEW func \in CollateFuncs \cup {0},
           SetServerCollateFunc(s, dicts, func),
           SetDictMask(s, dicts) \/ UNCHANGED mask
    PROVE  SearchOK'
<1>1. mask' \in [Sessions -> SUBSET Dicts] /\ collate' \in [Sessions -> CollateFuncs \cup {0}]
  BY DEF SearchOK, SetServerCollateFunc, SetDictMask
<1>2. loaded' \in [Sessions -> SUBSET (Dicts \X CollateFuncs)]
  <2>1. CASE func = 0
    BY <2>1 DEF SearchOK, SetServerCollateFunc
  <2>2. CASE func # 0
    <3>1. loaded[s] \cup (dicts \X {func}) \in SUBSET (Dicts \X CollateFuncs)
      BY <2>2 DEF SearchOK
    <3>2. QED
      BY <2>2, <3>1 DEF SearchOK, SetServerCollateFunc
  <2>3. QED
    BY <2>1, <2>2
<1>3. QED
  BY <1>1, <1>2 DEF SearchOK

LEMMA ProcessType ==
    ASSUME DataOK, NEW s \in Sessions, Open(s) \/ Terminate(s)
    PROVE  DataOK'
<1>1. CASE Open(s)
  BY <1>1 DEF Open, DataOK, TablesOK, IdentityOK, SearchOK, JobsOK, HasWhatItNeeds,
              tables, identity, search
<1>2. CASE Terminate(s)
  <2>1. TablesOK'
    BY <1>2 DEF Terminate, DataOK, TablesOK, tables
  <2>2. IdentityOK'
    BY <1>2, ZeroIsALevel DEF Terminate, Forget, DataOK, IdentityOK
  <2>3. SearchOK'
    BY <1>2 DEF Terminate, Forget, DataOK, SearchOK
  <2>4. JobsOK'
    <3>1. <<>> \in Seq(Codes)
      OBVIOUS
    <3>2. QED
      BY <1>2, <3>1, BlankIsAJob DEF Terminate, Forget, DataOK, JobsOK
  <2>5. \A t \in Sessions : HasWhatItNeeds(t)'
    <3>1. job'[s].at = "done"
      BY <1>2 DEF Terminate, Forget, DataOK, JobsOK, Blank
    <3>2. \A t \in Sessions \ {s} : job'[t] = job[t] /\ uid'[t] = uid[t]
      BY <1>2 DEF Terminate, Forget, DataOK, JobsOK, IdentityOK
    <3>3. QED
      BY <3>1, <3>2, NeedsAfterEnd
  <2>6. QED
    BY <2>1, <2>2, <2>3, <2>4, <2>5 DEF DataOK
<1>3. QED
  BY <1>1, <1>2

\* The commands that change the identity or the search without a statement.
LEMMA LocalType ==
    ASSUME TypeOK, NEW s \in Sessions,
           AuthRoot(s) \/ LookupinTmpdictmask(s) \/ Query(s)
    PROVE  DataOK'
<1>0. DataOK /\ guest \in GuestMasks
  BY DEF TypeOK
<1>1. /\ UNCHANGED <<tables, alive, uid, level, db>>
      /\ \E cmd \in Job, code \in Codes : Answer(s, cmd, code)
  <2>1. CASE AuthRoot(s)
    BY ZenonT(60), <2>1, BlankIsAJob DEF AuthRoot, Codes, Job, AllCommands
  <2>2. CASE LookupinTmpdictmask(s)
    BY <2>2, BlankIsAJob DEF LookupinTmpdictmask, Codes, Job, AllCommands
  <2>3. CASE Query(s)
    <3>1. PICK op \in {"query", "list"} :
              Answer(s, [Blank EXCEPT !.op = op], IF Unset(s) THEN "NOTSET" ELSE "OK")
      BY <2>3 DEF Query
    <3>2. [Blank EXCEPT !.op = op] \in Job
      BY BlankIsAJob DEF Job, AllCommands
    <3>3. (IF Unset(s) THEN "NOTSET" ELSE "OK") \in Codes
      BY DEF Codes
    <3>4. QED
      BY <2>3, <3>1, <3>2, <3>3 DEF Query
  <2>4. QED
    BY <2>1, <2>2, <2>3
<1>2. PICK cmd \in Job, code \in Codes : Answer(s, cmd, code)
  BY <1>1
<1>3. TablesOK'
  BY <1>0, <1>1 DEF DataOK, TablesOK, tables
<1>4. IdentityOK'
  BY <1>0, <1>1 DEF DataOK, IdentityOK, AuthRoot, LookupinTmpdictmask, Query, BecomeGuest, search
<1>5. SearchOK'
  <2>1. CASE AuthRoot(s)
    BY <1>0, <2>1 DEF AuthRoot, SetDictMask, DataOK, SearchOK
  <2>2. CASE LookupinTmpdictmask(s)
    <3>1. PICK m \in Masks : SetDictMask(s, Resolve[m][0])
                             /\ SetServerCollateFunc(s, Resolve[m][0], 0)
      BY <2>2 DEF LookupinTmpdictmask
    <3>2. Resolve[m][0] \in SUBSET Dicts
      BY ResolveType, ZeroIsALevel
    <3>3. QED
      BY <1>0, <3>1, <3>2, SettingsType DEF DataOK
  <2>3. CASE Query(s)
    BY <1>0, <2>3, GuestMasksType, SettingsType
    DEF Query, BecomeGuest, search, TypeOK, DataOK, SearchOK
  <2>4. QED
    BY <2>1, <2>2, <2>3
<1>6. JobsOK'
  BY <1>1, <1>2, AnswerKeepsJobs, <1>0 DEF DataOK
<1>7. job'[s].at = "done" /\ \A t \in Sessions \ {s} : job'[t] = job[t] /\ uid'[t] = uid[t]
  BY <1>1, <1>2, <1>0, FinishedIsAJob DEF Answer, DataOK, JobsOK
<1>8. QED
  BY <1>3, <1>4, <1>5, <1>6, <1>7, NeedsAfterEnd, <1>0 DEF DataOK

\* Statements after which the command ends with an answer.
LEMMA LastStatementType ==
    ASSUME DataOK, NEW s \in Sessions, NEW code \in Codes, NEW step, NEW outcome,
           Statement(s, step, outcome), Reply(s, code),
           TablesOK', SearchOK', IdentityOK',
           \A t \in Sessions \ {s} : uid'[t] = uid[t]
    PROVE  DataOK'
<1>1. JobsOK'
  BY ReplyKeepsJobs DEF DataOK
<1>2. \A t \in Sessions : HasWhatItNeeds(t)'
  BY NeedsAfterReply
<1>3. QED
  BY <1>1, <1>2 DEF DataOK

LEMMA AuthSelectType ==
    ASSUME DataOK, NEW s \in Sessions, AuthSelect(s)
    PROVE  DataOK'
<1>1. PICK outcome \in Outcomes(s) :
        /\ Statement(s, "auth.select", outcome)
        /\ \/ Reply(s, "DENIED") /\ UNCHANGED identity
           \/ \E i \in IdsNamed(job[s].name) :
                /\ uid' = [uid EXCEPT ![s] = i]
                /\ level' = [level EXCEPT ![s] = users[i].level]
                /\ \/ Reply(s, "DENIED") /\ UNCHANGED auth
                   \/ /\ Goto(s, "auth.basic") /\ Say(s, "OK")
                      /\ auth' = [auth EXCEPT ![s] = job[s].name]
        /\ UNCHANGED <<tables, search>>
  BY Zenon DEF AuthSelect
<1>2. TablesOK' /\ SearchOK'
  BY <1>1 DEF DataOK, TablesOK, SearchOK, tables, search
<1>3. job[s] \in Job /\ "DENIED" \in Codes /\ "auth.basic" \in Step
  BY DEF DataOK, JobsOK, Codes, Step
<1>4. CASE Reply(s, "DENIED") /\ UNCHANGED identity
  <2>1. IdentityOK' /\ uid' = uid
    BY <1>4 DEF DataOK, IdentityOK, identity
  <2>2. QED
    BY <1>1, <1>2, <1>3, <1>4, <2>1, LastStatementType
<1>5. ASSUME NEW i \in IdsNamed(job[s].name),
             uid' = [uid EXCEPT ![s] = i],
             level' = [level EXCEPT ![s] = users[i].level],
             \/ Reply(s, "DENIED") /\ UNCHANGED auth
             \/ /\ Goto(s, "auth.basic") /\ Say(s, "OK")
                /\ auth' = [auth EXCEPT ![s] = job[s].name]
      PROVE  DataOK'
  <2>1. i \in Ids /\ users[i] \in Row
    BY <1>5 DEF IdsNamed, DataOK, TablesOK
  <2>2. job[s].name \in Names /\ job[s].pw \in Passwords
    BY <1>1 DEF DataOK, HasWhatItNeeds, Statement
  <2>3. IdentityOK'
    BY <1>5, <2>1, <2>2 DEF DataOK, IdentityOK, Row
  <2>4. \A t \in Sessions \ {s} : uid'[t] = uid[t]
    BY <1>5 DEF DataOK, IdentityOK
  <2>5. CASE Reply(s, "DENIED")
    BY <1>1, <1>2, <1>3, <2>3, <2>4, <2>5, LastStatementType
  <2>6. CASE Goto(s, "auth.basic") /\ Say(s, "OK")
    <3>1. replies' \in [Sessions -> Seq(Codes)]
      BY <2>6 DEF Say, DataOK, JobsOK, Codes
    <3>2. JobsOK'
      BY <1>1, <1>3, <2>6, <3>1, GotoKeepsJobs DEF DataOK
    <3>3. uid'[s] # NoUser
      <4>1. i # NoUser
        BY <2>1, Bounds DEF Ids, NoUser
      <4>2. uid'[s] = i
        BY <1>5 DEF DataOK, IdentityOK
      <4>3. QED
        BY <4>1, <4>2
    <3>4. \A t \in Sessions : HasWhatItNeeds(t)'
      BY <1>3, <2>2, <2>4, <2>6, <3>3, NeedsAfterGoto
    <3>5. QED
      BY <1>2, <2>3, <3>2, <3>4 DEF DataOK
  <2>7. QED
    BY <1>5, <2>5, <2>6
<1>6. QED
  BY <1>1, <1>4, <1>5

LEMMA AuthBasicType ==
    ASSUME DataOK, NEW s \in Sessions, AuthBasic(s)
    PROVE  DataOK'
<1>1. PICK outcome \in Outcomes(s) :
        /\ Statement(s, "auth.basic", outcome)
        /\ \/ Reply(s, "DENIED") /\ UNCHANGED search
           \/ Finish(s) /\ ClearSearch(s) /\ UNCHANGED replies
           \/ /\ basic[uid[s]] # NoRow
              /\ Finish(s)
              /\ SetDictMask(s, Resolve[basic[uid[s]].dictmask][level[s]])
              /\ SetServerCollateFunc(s, Resolve[basic[uid[s]].dictmask][level[s]],
                     IF MayCollate(level[s]) THEN basic[uid[s]].collatefunc ELSE 0)
              /\ UNCHANGED replies
        /\ UNCHANGED <<tables, identity>>
  BY Zenon DEF AuthBasic
<1>2. TablesOK' /\ IdentityOK' /\ uid' = uid
  BY <1>1 DEF DataOK, TablesOK, IdentityOK, tables, identity
<1>3. CASE Reply(s, "DENIED") /\ UNCHANGED search
  <2>1. SearchOK' /\ "DENIED" \in Codes
    BY <1>3 DEF DataOK, SearchOK, search, Codes
  <2>2. QED
    BY <1>1, <1>2, <1>3, <2>1, LastStatementType
<1>4. ASSUME Finish(s), UNCHANGED replies PROVE JobsOK' /\ \A t \in Sessions : HasWhatItNeeds(t)'
  <2>1. job' = [job EXCEPT ![s] = Finished(job[s])] /\ job[s] \in Job /\ job \in [Sessions -> Job]
    BY <1>4 DEF Finish, DataOK, JobsOK
  <2>2. job' \in [Sessions -> Job] /\ job'[s].at = "done" /\ \A t \in Sessions \ {s} : job'[t] = job[t]
    BY <2>1, FinishedIsAJob
  <2>3. faulty' \in [Sessions -> BOOLEAN]
    BY <1>1 DEF Statement, Fault, DataOK, JobsOK
  <2>4. JobsOK'
    BY <1>1, <1>4, <2>2, <2>3 DEF DataOK, JobsOK, Statement
  <2>5. QED
    BY <1>2, <2>2, <2>4, NeedsAfterEnd
<1>5. CASE Finish(s) /\ ClearSearch(s) /\ UNCHANGED replies
  <2>1. SearchOK'
    BY <1>5, SettingsType DEF ClearSearch, DataOK
  <2>2. QED
    BY <1>2, <1>4, <1>5, <2>1 DEF DataOK
<1>6. ASSUME basic[uid[s]] # NoRow, Finish(s), UNCHANGED replies,
             SetDictMask(s, Resolve[basic[uid[s]].dictmask][level[s]]),
             SetServerCollateFunc(s, Resolve[basic[uid[s]].dictmask][level[s]],
                 IF MayCollate(level[s]) THEN basic[uid[s]].collatefunc ELSE 0)
      PROVE  DataOK'
  <2>1. uid[s] \in Ids
    BY <1>1 DEF Statement, DataOK, IdentityOK, HasWhatItNeeds
  <2>2. basic[uid[s]] \in Basic /\ level[s] \in Levels
    BY <1>6, <2>1 DEF DataOK, TablesOK, IdentityOK
  <2>3. Resolve[basic[uid[s]].dictmask][level[s]] \in SUBSET Dicts
    BY <2>2, ResolveType DEF Basic
  <2>4. (IF MayCollate(level[s]) THEN basic[uid[s]].collatefunc ELSE 0) \in CollateFuncs \cup {0}
    BY <2>2 DEF Basic
  <2>5. SearchOK'
    BY <1>6, <2>3, <2>4, SettingsType DEF DataOK
  <2>6. QED
    BY <1>2, <1>4, <1>6, <2>5 DEF DataOK
<1>7. QED
  BY <1>1, <1>3, <1>5, <1>6

LEMMA RegisterUserType ==
    ASSUME DataOK, NEW s \in Sessions, RegisterUser(s)
    PROVE  DataOK'
<1>1. PICK outcome \in Outcomes(s) :
        /\ Statement(s, "register.user", outcome)
        /\ \/ Reply(s, "DENIED") /\ UNCHANGED <<users, uid>>
           \/ \E i \in NextIds :
                 /\ users' = [users EXCEPT ![i] =
                        [name |-> job[s].name, pw |-> job[s].pw, level |-> 0]]
                 /\ \/ /\ uid' = [uid EXCEPT ![s] = i]
                       /\ Goto(s, "register.basic")
                       /\ UNCHANGED replies
                    \/ Reply(s, "DENIED") /\ UNCHANGED uid
        /\ UNCHANGED <<basic, auth, level, search>>
  BY Zenon DEF RegisterUser
<1>2. "DENIED" \in Codes /\ "register.basic" \in Step
  BY DEF Codes, Step
<1>3. SearchOK'
  BY <1>1 DEF DataOK, SearchOK, search
<1>4. CASE Reply(s, "DENIED") /\ UNCHANGED <<users, uid>>
  <2>1. TablesOK' /\ IdentityOK'
    BY <1>1, <1>4 DEF DataOK, TablesOK, IdentityOK
  <2>2. QED
    BY <1>1, <1>2, <1>3, <1>4, <2>1, LastStatementType
<1>5. ASSUME NEW i \in NextIds,
             users' = [users EXCEPT ![i] =
                 [name |-> job[s].name, pw |-> job[s].pw, level |-> 0]],
             \/ /\ uid' = [uid EXCEPT ![s] = i]
                /\ Goto(s, "register.basic")
                /\ UNCHANGED replies
             \/ Reply(s, "DENIED") /\ UNCHANGED uid
      PROVE  DataOK'
  <2>1. i \in Ids /\ i # NoUser
    BY Bounds DEF NextIds, Ids, NoUser
  <2>2. job[s].name \in Names /\ job[s].pw \in Passwords
    BY <1>1 DEF DataOK, HasWhatItNeeds, Statement
  <2>3. TablesOK'
    BY <1>1, <1>5, <2>1, <2>2, ZeroIsALevel DEF DataOK, TablesOK, Row
  <2>4. IdentityOK' /\ \A t \in Sessions \ {s} : uid'[t] = uid[t]
    BY ZenonT(60), <1>1, <1>5, <2>1 DEF DataOK, IdentityOK
  <2>5. CASE Reply(s, "DENIED")
    BY <1>1, <1>2, <1>3, <2>3, <2>4, <2>5, LastStatementType
  <2>6. CASE /\ uid' = [uid EXCEPT ![s] = i]
             /\ Goto(s, "register.basic")
             /\ UNCHANGED replies
    <3>1. uid'[s] # NoUser
      BY <2>1, <2>6 DEF DataOK, IdentityOK
    <3>2. JobsOK'
      BY <1>1, <1>2, <2>6, GotoKeepsJobs DEF DataOK, JobsOK
    <3>3. \A t \in Sessions : HasWhatItNeeds(t)'
      BY <1>2, <2>4, <2>6, <3>1, NeedsAfterGoto
    <3>4. QED
      BY <1>3, <2>3, <2>4, <3>2, <3>3 DEF DataOK
  <2>7. QED
    BY <1>5, <2>5, <2>6
<1>6. QED
  BY <1>1, <1>4, <1>5

LEMMA RegisterBasicType ==
    ASSUME DataOK, NEW s \in Sessions, RegisterBasic(s)
    PROVE  DataOK'
<1>1. PICK outcome \in Outcomes(s) :
        /\ Statement(s, "register.basic", outcome)
        /\ basic' = IF TakesEffect(outcome) /\ basic[uid[s]] = NoRow
                    THEN [basic EXCEPT ![uid[s]] =
                             [dictmask |-> EmptyMask, collatefunc |-> 0]]
                    ELSE basic
        /\ Reply(s, "OK")
        /\ UNCHANGED <<users, identity, search>>
  BY DEF RegisterBasic
<1>2. [dictmask |-> EmptyMask, collatefunc |-> 0] \in Basic
  BY Bounds DEF Basic
<1>3. TablesOK'
  BY <1>1, <1>2 DEF DataOK, TablesOK
<1>4. IdentityOK' /\ SearchOK' /\ uid' = uid /\ "OK" \in Codes
  BY <1>1 DEF DataOK, IdentityOK, SearchOK, identity, search, Codes
<1>5. QED
  BY <1>1, <1>3, <1>4, LastStatementType

\* A SELECT of change_password or userlevel, whose UPDATE is next.
LEMMA SelectType ==
    ASSUME DataOK, NEW s \in Sessions, NEW outcome, NEW step,
           NEW next \in {"password.update", "level.update"},
           next = "password.update" => step = "password.select",
           Statement(s, step, outcome),
           (Goto(s, next) /\ UNCHANGED replies) \/ Reply(s, "DENIED"),
           UNCHANGED <<tables, identity, search>>
    PROVE  DataOK'
<1>1. TablesOK' /\ IdentityOK' /\ SearchOK' /\ uid' = uid
  BY DEF DataOK, TablesOK, IdentityOK, SearchOK, tables, identity, search
<1>2. "DENIED" \in Codes /\ next \in Step
  BY DEF Codes, Step
<1>3. CASE Reply(s, "DENIED")
  BY <1>1, <1>2, <1>3, LastStatementType
<1>4. CASE Goto(s, next) /\ UNCHANGED replies
  <2>1. JobsOK'
    BY <1>2, <1>4, GotoKeepsJobs DEF DataOK, JobsOK
  <2>2. next = "password.update" => job[s].new \in Passwords
    BY DEF DataOK, HasWhatItNeeds, Statement
  <2>3. \A t \in Sessions : HasWhatItNeeds(t)'
    BY <1>1, <1>2, <1>4, <2>2, NeedsAfterGoto
  <2>4. QED
    BY <1>1, <2>1, <2>3 DEF DataOK
<1>5. QED
  BY <1>3, <1>4

LEMMA SelectsType ==
    ASSUME DataOK, NEW s \in Sessions, PasswordSelect(s) \/ LevelSelect(s)
    PROVE  DataOK'
<1>1. CASE PasswordSelect(s)
  <2>1. PICK outcome \in Outcomes(s) :
          /\ Statement(s, "password.select", outcome)
          /\ (Goto(s, "password.update") /\ UNCHANGED replies) \/ Reply(s, "DENIED")
          /\ UNCHANGED <<tables, identity, search>>
    BY Zenon, <1>1 DEF PasswordSelect
  <2>2. QED
    BY <2>1, SelectType
<1>2. CASE LevelSelect(s)
  <2>1. PICK outcome \in Outcomes(s) :
          /\ Statement(s, "level.select", outcome)
          /\ (Goto(s, "level.update") /\ UNCHANGED replies) \/ Reply(s, "DENIED")
          /\ UNCHANGED <<tables, identity, search>>
    BY Zenon, <1>2 DEF LevelSelect
  <2>2. QED
    BY <2>1, SelectType
<1>3. QED
  BY <1>1, <1>2

\* A statement after which the command answers OK or DENIED, and which leaves
\* the session as it is.
LEMMA AnsweringStatementType ==
    ASSUME DataOK, NEW s \in Sessions, NEW step, NEW outcome, NEW ok \in BOOLEAN,
           Statement(s, step, outcome), Reply(s, IF ok THEN "OK" ELSE "DENIED"),
           UNCHANGED <<identity, search>>, TablesOK'
    PROVE  DataOK'
<1>1. IdentityOK' /\ SearchOK' /\ uid' = uid
  BY DEF DataOK, IdentityOK, SearchOK, identity, search
<1>2. (IF ok THEN "OK" ELSE "DENIED") \in Codes
  BY DEF Codes
<1>3. QED
  BY <1>1, <1>2, LastStatementType

LEMMA PasswordUpdateType ==
    ASSUME DataOK, NEW s \in Sessions, PasswordUpdate(s)
    PROVE  DataOK'
<1>1. PICK outcome \in Outcomes(s) :
        /\ Statement(s, "password.update", outcome)
        /\ users' = [i \in Ids |->
               IF TakesEffect(outcome) /\ i \in IdsNamed(job[s].name)
               THEN [users[i] EXCEPT !.pw = job[s].new] ELSE users[i]]
        /\ Reply(s, IF outcome = "ok" THEN "OK" ELSE "DENIED")
        /\ UNCHANGED <<basic, identity, search>>
  BY Zenon DEF PasswordUpdate
<1>2. job[s].new \in Passwords
  BY <1>1 DEF Statement, DataOK, HasWhatItNeeds
<1>3. \A i \in Ids : users[i] # NoRow => [users[i] EXCEPT !.pw = job[s].new] \in Row
  BY <1>2 DEF DataOK, TablesOK, Row
<1>4. TablesOK'
  BY <1>1, <1>3 DEF DataOK, TablesOK, IdsNamed
<1>5. QED
  BY <1>1, <1>4, AnsweringStatementType

LEMMA LevelUpdateType ==
    ASSUME DataOK, NEW s \in Sessions, LevelUpdate(s)
    PROVE  DataOK'
<1>1. PICK outcome \in Outcomes(s) :
        /\ Statement(s, "level.update", outcome)
        /\ users' = [i \in Ids |->
               IF TakesEffect(outcome) /\ i \in IdsNamed(job[s].name)
               THEN [users[i] EXCEPT !.level = job[s].to] ELSE users[i]]
        /\ Reply(s, IF outcome = "ok" THEN "OK" ELSE "DENIED")
        /\ UNCHANGED <<basic, identity, search>>
  BY Zenon DEF LevelUpdate
<1>2. job[s].to \in Levels
  BY DEF DataOK, JobsOK, Job
<1>3. \A i \in Ids : users[i] # NoRow => [users[i] EXCEPT !.level = job[s].to] \in Row
  BY <1>2 DEF DataOK, TablesOK, Row
<1>4. TablesOK'
  BY <1>1, <1>3 DEF DataOK, TablesOK, IdsNamed
<1>5. QED
  BY <1>1, <1>4, AnsweringStatementType

LEMMA ColumnUpdateType ==
    ASSUME DataOK, NEW s \in Sessions, ColumnUpdate(s)
    PROVE  DataOK'
<1>1. PICK outcome \in Outcomes(s) :
        /\ Statement(s, "column.update", outcome)
        /\ basic' = IF /\ TakesEffect(outcome) /\ basic[uid[s]] # NoRow
                       /\ job[s].op = "setdictmask"
                    THEN [basic EXCEPT ![uid[s]].dictmask = job[s].mask]
                    ELSE basic
        /\ Reply(s, IF outcome = "ok" THEN "OK" ELSE "DENIED")
        /\ UNCHANGED <<users, identity, search>>
  BY Zenon DEF ColumnUpdate
<1>2. job[s].mask \in Masks
  BY DEF DataOK, JobsOK, Job
<1>3. TablesOK'
  BY <1>1, <1>2 DEF DataOK, TablesOK, Basic
<1>4. QED
  BY <1>1, <1>3, AnsweringStatementType

LEMMA CollateUpdateType ==
    ASSUME DataOK, NEW s \in Sessions, CollateUpdate(s)
    PROVE  DataOK'
<1>1. PICK outcome \in Outcomes(s) :
        /\ Statement(s, "collate.update", outcome)
        /\ basic' = IF TakesEffect(outcome) /\ basic[uid[s]] # NoRow
                    THEN [basic EXCEPT ![uid[s]].collatefunc = job[s].func]
                    ELSE basic
        /\ \/ SetServerCollateFunc(s, mask[s], job[s].func) /\ Reply(s, "OK")
           \/ Reply(s, "DENIED") /\ UNCHANGED <<collate, loaded>>
        /\ UNCHANGED <<users, identity, mask>>
  BY DEF CollateUpdate
<1>2. job[s] \in Job /\ job[s].func \in CollateFuncs \cup {0} /\ mask[s] \in SUBSET Dicts
  BY DEF DataOK, JobsOK, Job, SearchOK
<1>3. TablesOK' /\ IdentityOK' /\ uid' = uid
  BY <1>1, <1>2 DEF DataOK, TablesOK, Basic, IdentityOK, identity
<1>4. SearchOK'
  BY <1>1, <1>2, SettingsType DEF DataOK, SearchOK
<1>5. "OK" \in Codes /\ "DENIED" \in Codes
  BY DEF Codes
<1>6. QED
  BY <1>1, <1>3, <1>4, <1>5, LastStatementType

LEMMA ColumnSelectType ==
    ASSUME DataOK, NEW s \in Sessions, ColumnSelect(s)
    PROVE  DataOK'
<1>1. PICK outcome \in Outcomes(s) :
        /\ Statement(s, "column.select", outcome)
        /\ Reply(s, IF outcome = "ok" /\ basic[uid[s]] # NoRow THEN "OK" ELSE "DENIED")
        /\ UNCHANGED <<tables, identity, search>>
  BY Zenon DEF ColumnSelect
<1>2. TablesOK'
  BY <1>1 DEF DataOK, TablesOK, tables
<1>3. QED
  BY <1>1, <1>2, AnsweringStatementType

\* Every step keeps the types.
LEMMA TypeNext == TypeOK /\ [Next]_<<vars, guest>> => TypeOK'
<1>0. SUFFICES ASSUME TypeOK, Next PROVE DataOK'
  <2>1. TypeOK /\ UNCHANGED <<vars, guest>> => TypeOK'
    BY DEF vars, TypeOK, DataOK, TablesOK, IdentityOK, SearchOK, JobsOK, HasWhatItNeeds
  <2>2. TypeOK /\ Next /\ DataOK' => TypeOK'
    BY DEF TypeOK, Next
  <2>3. QED
    BY <2>1, <2>2
<1>1. DataOK /\ TypeOK /\ Next
  BY <1>0 DEF TypeOK
<1>2. PICK s \in Sessions : Open(s) \/ Terminate(s) \/ Dispatch(s) \/ Execute(s)
  BY <1>1 DEF Next
<1>3. CASE Open(s) \/ Terminate(s)
  BY <1>1, <1>3, ProcessType
<1>4. CASE Dispatch(s)
  BY <1>1, <1>4, QuickType, AskType, LocalType DEF Dispatch, Quick, Ask
<1>5. CASE Execute(s)
  BY <1>1, <1>5, AuthSelectType, AuthBasicType, RegisterUserType, RegisterBasicType,
     SelectsType, PasswordUpdateType, LevelUpdateType, ColumnUpdateType,
     CollateUpdateType, ColumnSelectType DEF Execute
<1>6. QED
  BY <1>2, <1>3, <1>4, <1>5

\* The variables keep their types, and every statement finds the user id, the
\* name and the password it is made of.
THEOREM TypeCorrect == Spec => []TypeOK
<1>1. QED
  BY TypeInit, TypeNext, PTL DEF Spec

(***************************************************************************)
(* The invariant: what a step of s does to the other sessions.             *)
(***************************************************************************)

\* Nothing of session t has changed.
Untouched(t) ==
    /\ t \in alive' <=> t \in alive
    /\ auth'[t] = auth[t] /\ uid'[t] = uid[t] /\ level'[t] = level[t]
    /\ mask'[t] = mask[t] /\ collate'[t] = collate[t] /\ loaded'[t] = loaded[t]
    /\ job'[t] = job[t] /\ replies'[t] = replies[t] /\ faulty'[t] = faulty[t]

\* Rows stay, with their names, and preferences are only added by the session
\* that registers their user.
TablesGrow(s) ==
    /\ \A i \in Ids : users[i] # NoRow =>
          users'[i] # NoRow /\ users'[i].name = users[i].name
    /\ \A i \in Ids : basic[i] # NoRow => basic'[i] # NoRow
    /\ \A i \in Ids : basic[i] = NoRow /\ basic'[i] # NoRow =>
          i = uid[s] /\ job[s].at = "register.basic"

\* What holds of the other sessions still holds.
LEMMA OthersKeep ==
    ASSUME IInv, NEW s \in Sessions, NEW t \in Sessions \ {s},
           Untouched(t), TablesGrow(s)
    PROVE  SessionOK(t)'
<1>1. SessionOK(t) /\ (uid[t] # NoUser => uid[t] \in Ids)
  BY DEF IInv, DataOK, IdentityOK
<1>2. uid[t] # NoUser => users[uid[t]] # NoRow
  BY <1>1 DEF SessionOK, InHand
<1>3. uid[t] # NoUser => users'[uid[t]] # NoRow /\ users'[uid[t]].name = users[uid[t]].name
  BY <1>1, <1>2 DEF TablesGrow
<1>4. job[t].at \in {"auth.basic", "register.basic"} => uid[t] # NoUser
  BY DEF IInv, DataOK, HasWhatItNeeds
<1>5. job[t].at = "register.basic" => basic'[uid[t]] = NoRow
  BY <1>1, <1>4 DEF SessionOK, InHand, TablesGrow, IInv, RowsPaired
<1>6. uid[t] # NoUser /\ basic[uid[t]] # NoRow => basic'[uid[t]] # NoRow
  BY <1>1 DEF TablesGrow
<1>7. InHand(t)'
  BY <1>1, <1>3, <1>4, <1>5 DEF SessionOK, InHand, Untouched
<1>8. FilesLoaded(t)' /\ Answered(t)'
  BY <1>1 DEF SessionOK, FilesLoaded, Answered, Done, Untouched
<1>9. Registered(t)' /\ RightsSet(t)'
  BY <1>1, <1>3, <1>6 DEF SessionOK, Registered, RightsSet, Done, Untouched
<1>10. QED
  BY <1>7, <1>8, <1>9 DEF SessionOK

\* Steps that leave both tables as they are.
LEMMA SameTablesGrow ==
    ASSUME NEW s \in Sessions, UNCHANGED tables
    PROVE  TablesGrow(s)
BY DEF TablesGrow, tables

\* No step of s touches another session.
LEMMA StatementTouches ==
    ASSUME DataOK, NEW s \in Sessions, NEW t \in Sessions \ {s}, Execute(s)
    PROVE  Untouched(t)
<1>1. /\ auth \in [Sessions -> Names \cup {"root", "guest", ""}]
      /\ uid \in [Sessions -> Ids \cup {NoUser}] /\ level \in [Sessions -> Levels]
      /\ mask \in [Sessions -> SUBSET Dicts]
      /\ collate \in [Sessions -> CollateFuncs \cup {0}]
      /\ loaded \in [Sessions -> SUBSET (Dicts \X CollateFuncs)]
      /\ job \in [Sessions -> Job] /\ replies \in [Sessions -> Seq(Codes)]
      /\ faulty \in [Sessions -> BOOLEAN]
  BY DEF DataOK, IdentityOK, SearchOK, JobsOK
<1>2. \A step, outcome : Statement(s, step, outcome) => alive' = alive /\ faulty'[t] = faulty[t]
  BY <1>1 DEF Statement, Fault
<1>3. \A code : Reply(s, code) => job'[t] = job[t] /\ replies'[t] = replies[t]
  BY <1>1 DEF Reply, Finish, Say
<1>4. \A step : Goto(s, step) => job'[t] = job[t]
  BY <1>1 DEF Goto
<1>5. \A code : Say(s, code) => replies'[t] = replies[t]
  BY <1>1 DEF Say
<1>6. \A dicts, func : SetServerCollateFunc(s, dicts, func) =>
          collate'[t] = collate[t] /\ loaded'[t] = loaded[t]
  BY <1>1 DEF SetServerCollateFunc
<1>7. \A dicts : SetDictMask(s, dicts) => mask'[t] = mask[t]
  BY <1>1 DEF SetDictMask
<1>8. Finish(s) => job'[t] = job[t]
  BY <1>1 DEF Finish
<1>9. CASE AuthSelect(s)
  BY <1>1, <1>2, <1>3, <1>4, <1>5, <1>9 DEF AuthSelect, Untouched, identity, search
<1>10. CASE AuthBasic(s)
  BY <1>1, <1>2, <1>3, <1>6, <1>7, <1>8, <1>10
  DEF AuthBasic, ClearSearch, Untouched, identity, search
<1>11. CASE RegisterUser(s)
  BY <1>1, <1>2, <1>3, <1>4, <1>11 DEF RegisterUser, Untouched, search
<1>12. CASE RegisterBasic(s)
  BY <1>2, <1>3, <1>12 DEF RegisterBasic, Untouched, identity, search
<1>13. CASE PasswordSelect(s) \/ LevelSelect(s)
  BY <1>2, <1>3, <1>4, <1>13 DEF PasswordSelect, LevelSelect, Untouched, identity, search
<1>14. CASE PasswordUpdate(s) \/ LevelUpdate(s) \/ ColumnUpdate(s) \/ ColumnSelect(s)
  BY <1>2, <1>3, <1>14
  DEF PasswordUpdate, LevelUpdate, ColumnUpdate, ColumnSelect, Untouched, identity, search
<1>15. CASE CollateUpdate(s)
  BY <1>2, <1>3, <1>6, <1>15 DEF CollateUpdate, Untouched, identity
<1>16. QED
  BY <1>9, <1>10, <1>11, <1>12, <1>13, <1>14, <1>15 DEF Execute

LEMMA DispatchTouches ==
    ASSUME DataOK, NEW s \in Sessions, NEW t \in Sessions \ {s}, Dispatch(s)
    PROVE  Untouched(t) /\ s \in alive /\ UNCHANGED tables
<1>1. /\ auth \in [Sessions -> Names \cup {"root", "guest", ""}]
      /\ mask \in [Sessions -> SUBSET Dicts]
      /\ collate \in [Sessions -> CollateFuncs \cup {0}]
      /\ loaded \in [Sessions -> SUBSET (Dicts \X CollateFuncs)]
      /\ job \in [Sessions -> Job] /\ replies \in [Sessions -> Seq(Codes)]
      /\ faulty \in [Sessions -> BOOLEAN]
  BY DEF DataOK, IdentityOK, SearchOK, JobsOK
<1>2. \A cmd, code : Answer(s, cmd, code) =>
          job'[t] = job[t] /\ replies'[t] = replies[t] /\ faulty'[t] = faulty[t]
  BY <1>1 DEF Answer
<1>3. \A cmd : WithDatabase(s, cmd) =>
          job'[t] = job[t] /\ replies'[t] = replies[t] /\ faulty'[t] = faulty[t]
  BY <1>1 DEF WithDatabase, Begin, Answer
<1>4. \A dicts, func : SetServerCollateFunc(s, dicts, func) =>
          collate'[t] = collate[t] /\ loaded'[t] = loaded[t]
  BY <1>1 DEF SetServerCollateFunc
<1>5. \A dicts : SetDictMask(s, dicts) => mask'[t] = mask[t]
  BY <1>1 DEF SetDictMask
<1>6. CASE Quick(s)
  BY <1>2, <1>6, QuickAnswers DEF Untouched, identity, search
<1>7. CASE Ask(s)
  BY <1>3, <1>7, AskAsks DEF Untouched, identity, search
<1>8. CASE AuthRoot(s)
  BY <1>1, <1>2, <1>5, <1>8 DEF AuthRoot, Ready, Untouched, tables
<1>9. CASE LookupinTmpdictmask(s)
  BY <1>1, <1>2, <1>4, <1>5, <1>9 DEF LookupinTmpdictmask, Ready, Untouched, tables
<1>10. CASE Query(s)
  BY <1>1, <1>2, <1>4, <1>5, <1>10 DEF Query, BecomeGuest, Ready, Untouched, tables, search
<1>11. QED
  BY <1>6, <1>7, <1>8, <1>9, <1>10 DEF Dispatch, Quick, Ask

LEMMA ProcessTouches ==
    ASSUME DataOK, NEW s \in Sessions, NEW t \in Sessions \ {s}, Open(s) \/ Terminate(s)
    PROVE  Untouched(t) /\ UNCHANGED tables
<1>1. CASE Open(s)
  BY <1>1 DEF Open, Untouched, tables, identity, search
<1>2. CASE Terminate(s)
  BY <1>2 DEF Terminate, Forget, Untouched, DataOK, IdentityOK, SearchOK, JobsOK
<1>3. QED
  BY <1>1, <1>2

\* A statement only adds rows, or changes a password, a level or a preference.
LEMMA StatementGrows ==
    ASSUME DataOK, NEW s \in Sessions, Execute(s)
    PROVE  TablesGrow(s)
<1>1. users \in [Ids -> Row \cup {NoRow}] /\ basic \in [Ids -> Basic \cup {NoRow}]
  BY DEF DataOK, TablesOK
<1>2. CASE AuthSelect(s) \/ AuthBasic(s) \/ PasswordSelect(s) \/ LevelSelect(s)
           \/ ColumnSelect(s)
  BY <1>2, SameTablesGrow DEF AuthSelect, AuthBasic, PasswordSelect, LevelSelect, ColumnSelect
<1>3. CASE RegisterUser(s)
  <2>1. basic' = basic
    BY <1>3 DEF RegisterUser
  <2>2. \/ users' = users
        \/ \E i \in NextIds : users' = [users EXCEPT ![i] =
                [name |-> job[s].name, pw |-> job[s].pw, level |-> 0]]
    BY Zenon, <1>3 DEF RegisterUser
  <2>3. \A i \in NextIds : i \in Ids /\ users[i] = NoRow
    BY DEF NextIds
  <2>4. QED
    BY <1>1, <2>1, <2>2, <2>3 DEF TablesGrow
<1>4. CASE RegisterBasic(s)
  <2>1. job[s].at = "register.basic" /\ users' = users
    BY <1>4 DEF RegisterBasic, Statement
  <2>2. \/ basic' = basic
        \/ basic' = [basic EXCEPT ![uid[s]] = [dictmask |-> EmptyMask, collatefunc |-> 0]]
    BY <1>4 DEF RegisterBasic
  <2>3. [dictmask |-> EmptyMask, collatefunc |-> 0] # NoRow
    BY Bounds, NoRowIsNoRow DEF Basic
  <2>4. QED
    BY <1>1, <2>1, <2>2, <2>3 DEF TablesGrow
<1>5. CASE PasswordUpdate(s)
  <2>1. basic' = basic /\ job[s].new \in Passwords
    BY <1>5 DEF PasswordUpdate, Statement, DataOK, HasWhatItNeeds
  <2>2. \A i \in Ids : users'[i] \in {users[i], [users[i] EXCEPT !.pw = job[s].new]}
    BY <1>5 DEF PasswordUpdate
  <2>3. \A r \in Row : [r EXCEPT !.pw = job[s].new] \in Row
                      /\ [r EXCEPT !.pw = job[s].new].name = r.name
    BY <2>1 DEF Row
  <2>4. ASSUME NEW i \in Ids, users[i] # NoRow
        PROVE  users'[i] # NoRow /\ users'[i].name = users[i].name
    <3>1. users[i] \in Row
      BY <1>1, <2>4
    <3>2. users'[i] \in Row /\ users'[i].name = users[i].name
      BY <2>2, <2>3, <3>1
    <3>3. QED
      BY <3>2, NoRowIsNoRow
  <2>5. QED
    BY <2>1, <2>4 DEF TablesGrow
<1>9. CASE LevelUpdate(s)
  <2>1. basic' = basic /\ job[s].to \in Levels
    BY <1>9 DEF LevelUpdate, DataOK, JobsOK, Job
  <2>2. \A i \in Ids : users'[i] \in {users[i], [users[i] EXCEPT !.level = job[s].to]}
    BY <1>9 DEF LevelUpdate
  <2>3. \A r \in Row : [r EXCEPT !.level = job[s].to] \in Row
                      /\ [r EXCEPT !.level = job[s].to].name = r.name
    BY <2>1 DEF Row
  <2>4. ASSUME NEW i \in Ids, users[i] # NoRow
        PROVE  users'[i] # NoRow /\ users'[i].name = users[i].name
    <3>1. users[i] \in Row
      BY <1>1, <2>4
    <3>2. users'[i] \in Row /\ users'[i].name = users[i].name
      BY <2>2, <2>3, <3>1
    <3>3. QED
      BY <3>2, NoRowIsNoRow
  <2>5. QED
    BY <2>1, <2>4 DEF TablesGrow
<1>6. CASE ColumnUpdate(s)
  <2>1. users' = users /\ uid[s] \in Ids
    BY <1>6 DEF ColumnUpdate, Statement, DataOK, IdentityOK, HasWhatItNeeds
  <2>2. \/ basic' = basic
        \/ /\ basic[uid[s]] # NoRow
           /\ basic' = [basic EXCEPT ![uid[s]].dictmask = job[s].mask]
    BY <1>6 DEF ColumnUpdate
  <2>3. basic[uid[s]] # NoRow => [basic[uid[s]] EXCEPT !.dictmask = job[s].mask] \in Basic
    BY <1>1, <2>1 DEF Basic, DataOK, JobsOK, Job
  <2>4. QED
    BY <1>1, <2>1, <2>2, <2>3, NoRowIsNoRow DEF TablesGrow
<1>7. CASE CollateUpdate(s)
  <2>1. users' = users /\ uid[s] \in Ids
    BY <1>7 DEF CollateUpdate, Statement, DataOK, IdentityOK, HasWhatItNeeds
  <2>2. \/ basic' = basic
        \/ /\ basic[uid[s]] # NoRow
           /\ basic' = [basic EXCEPT ![uid[s]].collatefunc = job[s].func]
    BY <1>7 DEF CollateUpdate
  <2>3. basic[uid[s]] # NoRow => [basic[uid[s]] EXCEPT !.collatefunc = job[s].func] \in Basic
    BY <1>1, <2>1 DEF Basic, DataOK, JobsOK, Job
  <2>4. QED
    BY <1>1, <2>1, <2>2, <2>3, NoRowIsNoRow DEF TablesGrow
<1>8. QED
  BY <1>2, <1>3, <1>4, <1>5, <1>6, <1>7, <1>9 DEF Execute

(***************************************************************************)
(* The invariant: what a step of s does to s itself.                       *)
(***************************************************************************)

\* The sequences a command's replies go through.
LEMMA Replies ==
    ASSUME NEW code
    PROVE  /\ Len(<<code>>) = 1 /\ Len(Append(<<code>>, "DENIED")) = 2
           /\ Append(<<>>, code) = <<code>>
           /\ Append(<<code>>, "DENIED") # <<"OK">>
           /\ <<code>> = <<"OK">> => code = "OK"
<1>1. Len(<<code>>) = 1 /\ Len(Append(<<code>>, "DENIED")) = 2
      /\ Append(<<>>, code) = <<code>>
  OBVIOUS
<1>2. <<code>>[1] = code /\ <<"OK">>[1] = "OK" /\ Len(<<"OK">>) = 1
  OBVIOUS
<1>3. QED
  BY <1>1, <1>2

LEMMA QuickOK ==
    ASSUME IInv, NEW s \in Sessions, Quick(s)
    PROVE  SessionOK(s)'
<1>1. PICK cmd \in Job, code \in Codes : Answer(s, cmd, code) /\ Harmless(cmd, code)
  BY QuickAnswers
<1>2. s \in alive /\ alive' = alive /\ UNCHANGED <<tables, identity, search>>
  BY QuickAnswers
<1>3. job'[s] = Finished(cmd) /\ replies'[s] = <<code>>
  BY <1>1 DEF Answer, IInv, DataOK, JobsOK
<1>4. job'[s].at = "done" /\ job'[s].op = cmd.op /\ job'[s].name = cmd.name
  BY <1>3, FinishedIsAJob
<1>5. SessionOK(s)
  BY DEF IInv
<1>6. InHand(s)'
  BY <1>2, <1>4, <1>5 DEF SessionOK, InHand, tables, identity
<1>7. FilesLoaded(s)'
  BY <1>2, <1>5 DEF SessionOK, FilesLoaded, search
<1>8. Registered(s)' /\ RightsSet(s)'
  BY <1>1, <1>3, <1>4, Replies DEF Registered, RightsSet, Done, Harmless
<1>9. Answered(s)'
  BY <1>3, Replies DEF Answered
<1>10. QED
  BY <1>6, <1>7, <1>8, <1>9 DEF SessionOK

LEMMA AskOK ==
    ASSUME IInv, NEW s \in Sessions, Ask(s)
    PROVE  SessionOK(s)'
<1>1. PICK cmd \in Job : Prepared(s, cmd) /\ WithDatabase(s, cmd)
  BY AskAsks
<1>2. s \in alive /\ alive' = alive /\ UNCHANGED <<tables, identity, search>>
  BY AskAsks
<1>3. SessionOK(s)
  BY DEF IInv
<1>4. FilesLoaded(s)'
  BY <1>2, <1>3 DEF SessionOK, FilesLoaded, search
<1>5. CASE job'[s] = cmd /\ replies'[s] = <<>>
  <2>1. InHand(s)'
    BY <1>1, <1>2, <1>3, <1>5 DEF SessionOK, InHand, Prepared, tables, identity
  <2>2. Registered(s)' /\ RightsSet(s)' /\ Answered(s)'
    BY <1>1, <1>5 DEF Registered, RightsSet, Answered, Done, Prepared
  <2>3. QED
    BY <1>4, <2>1, <2>2 DEF SessionOK
<1>6. CASE job'[s] = Finished(cmd) /\ replies'[s] = <<"DENIED">>
  <2>1. job'[s].at = "done" /\ job'[s].op = cmd.op
    BY <1>6, FinishedIsAJob
  <2>2. InHand(s)'
    BY <1>2, <1>3, <2>1 DEF SessionOK, InHand, tables, identity
  <2>3. Registered(s)' /\ RightsSet(s)' /\ Answered(s)'
    BY <1>6, <2>1, Replies DEF Registered, RightsSet, Answered, Done
  <2>4. QED
    BY <1>4, <2>2, <2>3 DEF SessionOK
<1>7. QED
  BY <1>1, <1>5, <1>6 DEF WithDatabase, Begin, Answer, IInv, DataOK, JobsOK

LEMMA ProcessOK ==
    ASSUME IInv, NEW s \in Sessions, Open(s) \/ Terminate(s)
    PROVE  SessionOK(s)'
<1>1. SessionOK(s)
  BY DEF IInv
<1>2. CASE Open(s)
  <2>1. job'[s] = Blank /\ UNCHANGED <<tables, identity, search, job, replies>> /\ s \in alive'
    BY <1>1, <1>2 DEF Open, SessionOK, InHand
  <2>2. InHand(s)'
    BY <1>1, <2>1 DEF SessionOK, InHand, Blank, tables, identity
  <2>3. FilesLoaded(s)'
    BY <1>1, <2>1 DEF SessionOK, FilesLoaded, search
  <2>4. Registered(s)' /\ RightsSet(s)' /\ Answered(s)'
    <3>1. job'[s].op = "none"
      BY <2>1, BlankIsIdle
    <3>2. QED
      BY <3>1 DEF Registered, RightsSet, Answered, Done
  <2>5. QED
    BY <2>2, <2>3, <2>4 DEF SessionOK
<1>3. CASE Terminate(s)
  <2>1. /\ job'[s] = Blank /\ replies'[s] = <<>> /\ uid'[s] = NoUser
        /\ collate'[s] = 0 /\ s \notin alive'
    BY <1>3 DEF Terminate, Forget, IInv, DataOK, JobsOK, IdentityOK, SearchOK
  <2>2. InHand(s)'
    <3>1. job'[s].at = "done"
      BY <2>1, BlankIsIdle
    <3>2. QED
      BY <2>1, <3>1 DEF InHand
  <2>3. FilesLoaded(s)' /\ Registered(s)' /\ RightsSet(s)' /\ Answered(s)'
    BY <2>1 DEF FilesLoaded, Registered, RightsSet, Answered, Done, Blank
  <2>4. QED
    BY <2>2, <2>3 DEF SessionOK
<1>4. QED
  BY <1>2, <1>3

\* An answer at the end of a command other than auth and register, or a refusal.
LEMMA ReplyOK ==
    ASSUME IInv, NEW s \in Sessions, NEW step, NEW outcome, NEW code \in Codes,
           Statement(s, step, outcome), Reply(s, code),
           step \notin {"done", "auth.basic"},
           step \in {"auth.select", "register.user", "register.basic"} => code = "DENIED",
           step \in Step,
           uid'[s] # NoUser => users'[uid'[s]] # NoRow, FilesLoaded(s)'
    PROVE  SessionOK(s)'
<1>1. s \in alive /\ alive' = alive /\ job[s].at = step /\ SessionOK(s)
  BY DEF Statement, IInv
<1>2. replies[s] = <<>> /\ job[s] \in Job
  BY <1>1 DEF SessionOK, InHand, IInv, DataOK, JobsOK
<1>3. job'[s] = Finished(job[s]) /\ replies'[s] = <<code>>
  BY <1>2, Replies DEF Reply, Finish, Say, IInv, DataOK, JobsOK
<1>4. job'[s].at = "done" /\ job'[s].op = job[s].op
  BY <1>2, <1>3, FinishedIsAJob
<1>5. InHand(s)'
  BY <1>1, <1>4 DEF InHand
<1>6. Answered(s)'
  BY <1>3, Replies DEF Answered
<1>7. job[s].op \in {"auth", "register", "query", "list"} => code = "DENIED"
  BY <1>1 DEF SessionOK, InHand
<1>8. Registered(s)' /\ RightsSet(s)'
  BY <1>3, <1>4, <1>7, Replies DEF Registered, RightsSet, Done
<1>9. QED
  BY <1>5, <1>6, <1>8 DEF SessionOK

\* Setting the function for the dictionaries of the mask loads their files.
LEMMA SettingLoads ==
    ASSUME DataOK, NEW s \in Sessions, NEW dicts, NEW func,
           SetServerCollateFunc(s, dicts, func), mask'[s] = dicts
    PROVE  FilesLoaded(s)' /\ collate'[s] = func
<1>1. collate'[s] = func
  BY DEF SetServerCollateFunc, DataOK, SearchOK
<1>2. func # 0 => loaded'[s] = loaded[s] \cup (dicts \X {func})
  BY DEF SetServerCollateFunc, DataOK, SearchOK
<1>3. QED
  BY <1>1, <1>2 DEF FilesLoaded

LEMMA AuthRootOK ==
    ASSUME IInv, NEW s \in Sessions, AuthRoot(s)
    PROVE  SessionOK(s)'
<1>1. PICK code \in Codes :
        /\ Answer(s, [Blank EXCEPT !.op = "auth", !.name = "root"], code)
        /\ mask'[s] = {} \/ mask' = mask
  BY DEF AuthRoot, Codes, SetDictMask, IInv, DataOK, SearchOK
<1>2. s \in alive /\ UNCHANGED <<tables, alive, uid, level, collate, loaded>>
  BY DEF AuthRoot, Ready
<1>3. [Blank EXCEPT !.op = "auth", !.name = "root"] \in Job
  BY BlankIsAJob DEF Job, AllCommands
<1>4. /\ [Blank EXCEPT !.op = "auth", !.name = "root"].op = "auth"
      /\ [Blank EXCEPT !.op = "auth", !.name = "root"].name = "root"
  BY DEF Blank
<1>5. /\ job'[s] = Finished([Blank EXCEPT !.op = "auth", !.name = "root"])
      /\ replies'[s] = <<code>>
  BY <1>1 DEF Answer, IInv, DataOK, JobsOK
<1>6. job'[s].at = "done" /\ job'[s].op = "auth" /\ job'[s].name = "root"
  BY <1>3, <1>4, <1>5, FinishedIsAJob
<1>7. SessionOK(s) /\ "root" \notin Names
  BY NamesAreNotSpecial DEF IInv
<1>8. InHand(s)'
  BY <1>2, <1>6, <1>7 DEF SessionOK, InHand, tables
<1>9. FilesLoaded(s)'
  BY <1>1, <1>2, <1>7 DEF SessionOK, FilesLoaded
<1>10. Registered(s)' /\ RightsSet(s)' /\ Answered(s)'
  BY <1>5, <1>6, <1>7, Replies DEF Registered, RightsSet, Answered, Done
<1>11. QED
  BY <1>8, <1>9, <1>10 DEF SessionOK

LEMMA TmpdictmaskOK ==
    ASSUME IInv, NEW s \in Sessions, LookupinTmpdictmask(s)
    PROVE  SessionOK(s)'
<1>1. PICK m \in Masks : SetDictMask(s, Resolve[m][0])
                         /\ SetServerCollateFunc(s, Resolve[m][0], 0)
  BY DEF LookupinTmpdictmask
<1>2. /\ s \in alive /\ UNCHANGED <<tables, alive, uid, level>>
      /\ Answer(s, [Blank EXCEPT !.op = "tmpdictmask"], "OK")
  BY DEF LookupinTmpdictmask, Ready
<1>3. /\ [Blank EXCEPT !.op = "tmpdictmask"] \in Job
      /\ [Blank EXCEPT !.op = "tmpdictmask"].op = "tmpdictmask"
  <2>1. [Blank EXCEPT !.op = "tmpdictmask"] \in Job
    BY BlankIsAJob DEF Job, AllCommands
  <2>2. QED
    BY <2>1 DEF Blank
<1>4. job'[s] = Finished([Blank EXCEPT !.op = "tmpdictmask"]) /\ replies'[s] = <<"OK">>
  BY <1>2 DEF Answer, IInv, DataOK, JobsOK
<1>5. job'[s].at = "done" /\ job'[s].op = "tmpdictmask"
  BY <1>3, <1>4, FinishedIsAJob
<1>6. SessionOK(s)
  BY DEF IInv
<1>7. InHand(s)'
  BY <1>2, <1>5, <1>6 DEF SessionOK, InHand, tables
<1>8. FilesLoaded(s)'
  <2>1. mask'[s] = Resolve[m][0]
    BY <1>1 DEF SetDictMask, IInv, DataOK, SearchOK
  <2>2. QED
    BY <1>1, <2>1, SettingLoads DEF IInv
<1>9. Registered(s)' /\ RightsSet(s)' /\ Answered(s)'
  BY <1>4, <1>5, Replies DEF Registered, RightsSet, Answered, Done
<1>10. QED
  BY <1>7, <1>8, <1>9 DEF SessionOK

LEMMA QueryOK ==
    ASSUME IInv, NEW s \in Sessions, Query(s)
    PROVE  SessionOK(s)'
<1>1. PICK op \in {"query", "list"} :
          Answer(s, [Blank EXCEPT !.op = op], IF Unset(s) THEN "NOTSET" ELSE "OK")
  BY DEF Query
<1>2. PICK code : code = IF Unset(s) THEN "NOTSET" ELSE "OK"
  OBVIOUS
<1>3. s \in alive /\ UNCHANGED <<tables, alive, uid, level>>
  BY DEF Query, Ready
<1>4. [Blank EXCEPT !.op = op] \in Job /\ [Blank EXCEPT !.op = op].op = op
  <2>1. [Blank EXCEPT !.op = op] \in Job
    BY BlankIsAJob DEF Job, AllCommands
  <2>2. QED
    BY <2>1 DEF Blank
<1>5. job'[s] = Finished([Blank EXCEPT !.op = op]) /\ replies'[s] = <<code>>
  BY <1>1, <1>2 DEF Answer, IInv, DataOK, JobsOK
<1>6. job'[s].at = "done" /\ job'[s].op = op
  BY <1>4, <1>5, FinishedIsAJob
<1>7. SessionOK(s)
  BY DEF IInv
<1>8. InHand(s)'
  BY <1>3, <1>6, <1>7 DEF SessionOK, InHand, tables
<1>9. CASE BecomeGuest(s)
  <2>1. mask'[s] = guest
    BY <1>9 DEF BecomeGuest, SetDictMask, IInv, DataOK, SearchOK
  <2>2. FilesLoaded(s)'
    BY <1>9, <2>1, SettingLoads DEF BecomeGuest, IInv
  <2>3. QED
    BY <1>5, <1>6, <1>8, <2>2, Replies
    DEF SessionOK, Registered, RightsSet, Answered, Done
<1>10. CASE auth[s] # "" /\ UNCHANGED <<auth, search>>
  <2>1. FilesLoaded(s)'
    BY <1>7, <1>10 DEF SessionOK, FilesLoaded, search
  <2>2. QED
    BY <1>5, <1>6, <1>8, <2>1, Replies
    DEF SessionOK, Registered, RightsSet, Answered, Done
<1>11. QED
  BY <1>9, <1>10 DEF Query

\* A step from one statement of a command to the next.
LEMMA GotoOK ==
    ASSUME IInv, NEW s \in Sessions, NEW step, NEW outcome, NEW next \in Step,
           Statement(s, step, outcome), Goto(s, next),
           next # "done",
           uid'[s] # NoUser => users'[uid'[s]] # NoRow, FilesLoaded(s)',
           next = "auth.basic" =>
               /\ job[s].op = "auth" /\ replies'[s] = <<"OK">>
               /\ auth'[s] = job[s].name /\ users'[uid'[s]].name = auth'[s],
           next = "register.basic" =>
               /\ job[s].op = "register" /\ basic'[uid'[s]] = NoRow
               /\ users'[uid'[s]].name = job[s].name,
           next \in {"auth.select", "register.user"} => FALSE,
           next \notin {"auth.basic", "register.basic"} =>
               job[s].op \notin {"auth", "register", "query", "list"},
           next # "auth.basic" => replies'[s] = <<>>
    PROVE  SessionOK(s)'
<1>1. job' = [job EXCEPT ![s] = [job[s] EXCEPT !.at = next]]
  BY Zenon DEF Goto
<1>2. job \in [Sessions -> Job] /\ job[s] \in Job
  BY DEF IInv, DataOK, JobsOK
<1>3. job'[s].at = next /\ job'[s].op = job[s].op /\ job'[s].name = job[s].name
  BY <1>1, <1>2 DEF Job
<1>4. s \in alive'
  BY DEF Statement
<1>5. InHand(s)'
  BY <1>3, <1>4 DEF InHand
<1>6. Registered(s)' /\ RightsSet(s)' /\ Answered(s)'
  BY <1>3 DEF Registered, RightsSet, Answered, Done
<1>7. QED
  BY <1>5, <1>6 DEF SessionOK

LEMMA AuthSelectOK ==
    ASSUME IInv, NEW s \in Sessions, AuthSelect(s)
    PROVE  SessionOK(s)'
<1>1. PICK outcome \in Outcomes(s) :
        /\ Statement(s, "auth.select", outcome)
        /\ \/ Reply(s, "DENIED") /\ UNCHANGED identity
           \/ \E i \in IdsNamed(job[s].name) :
                /\ uid' = [uid EXCEPT ![s] = i]
                /\ \/ Reply(s, "DENIED") /\ UNCHANGED auth
                   \/ /\ Goto(s, "auth.basic") /\ Say(s, "OK")
                      /\ auth' = [auth EXCEPT ![s] = job[s].name]
        /\ UNCHANGED <<tables, search>>
  BY Zenon DEF AuthSelect
<1>2. SessionOK(s) /\ "DENIED" \in Codes /\ "auth.select" \in Step /\ "auth.basic" \in Step
  BY DEF IInv, Codes, Step
<1>3. FilesLoaded(s)'
  BY <1>1, <1>2 DEF SessionOK, FilesLoaded, search
<1>4. CASE Reply(s, "DENIED") /\ UNCHANGED identity
  <2>1. uid'[s] # NoUser => users'[uid'[s]] # NoRow
    BY <1>1, <1>2, <1>4 DEF SessionOK, InHand, identity, tables
  <2>2. QED
    BY <1>1, <1>2, <1>3, <1>4, <2>1, ReplyOK
<1>5. ASSUME NEW i \in IdsNamed(job[s].name), uid' = [uid EXCEPT ![s] = i],
             \/ Reply(s, "DENIED") /\ UNCHANGED auth
             \/ /\ Goto(s, "auth.basic") /\ Say(s, "OK")
                /\ auth' = [auth EXCEPT ![s] = job[s].name]
      PROVE  SessionOK(s)'
  <2>1. uid'[s] = i /\ users'[i] # NoRow /\ users'[i].name = job[s].name
    BY <1>1, <1>5 DEF IInv, DataOK, IdentityOK, IdsNamed, tables
  <2>2. CASE Reply(s, "DENIED")
    BY <1>1, <1>2, <1>3, <2>1, <2>2, ReplyOK
  <2>3. CASE /\ Goto(s, "auth.basic") /\ Say(s, "OK")
             /\ auth' = [auth EXCEPT ![s] = job[s].name]
    <3>1. job[s].op = "auth" /\ replies[s] = <<>>
      BY <1>1, <1>2 DEF SessionOK, InHand, Statement
    <3>2. replies'[s] = <<"OK">> /\ auth'[s] = job[s].name
      BY <2>3, <3>1, Replies DEF Say, IInv, DataOK, JobsOK, IdentityOK
    <3>3. QED
      BY <1>1, <1>2, <1>3, <2>1, <2>3, <3>1, <3>2, GotoOK
  <2>4. QED
    BY <1>5, <2>2, <2>3
<1>6. QED
  BY <1>1, <1>4, <1>5

LEMMA AuthBasicOK ==
    ASSUME IInv, NEW s \in Sessions, AuthBasic(s)
    PROVE  SessionOK(s)'
<1>1. PICK outcome \in Outcomes(s) :
        /\ Statement(s, "auth.basic", outcome)
        /\ \/ Reply(s, "DENIED") /\ UNCHANGED search /\ outcome # "ok"
           \/ Finish(s) /\ ClearSearch(s) /\ UNCHANGED replies
           \/ /\ basic[uid[s]] # NoRow
              /\ Finish(s)
              /\ SetDictMask(s, Resolve[basic[uid[s]].dictmask][level[s]])
              /\ SetServerCollateFunc(s, Resolve[basic[uid[s]].dictmask][level[s]],
                     IF MayCollate(level[s]) THEN basic[uid[s]].collatefunc ELSE 0)
              /\ UNCHANGED replies
        /\ UNCHANGED <<tables, identity>>
  BY Zenon DEF AuthBasic
<1>2. /\ s \in alive /\ alive' = alive /\ job[s].at = "auth.basic"
      /\ faulty' = [faulty EXCEPT ![s] = faulty[s] \/ outcome # "ok"]
  BY <1>1 DEF Statement, Fault
<1>3. SessionOK(s) /\ job[s] \in Job /\ uid[s] \in Ids
  BY <1>2 DEF IInv, DataOK, JobsOK, IdentityOK, HasWhatItNeeds
<1>4. /\ job[s].op = "auth" /\ replies[s] = <<"OK">> /\ auth[s] = job[s].name
      /\ users[uid[s]].name = auth[s] /\ users[uid[s]] # NoRow /\ uid[s] # NoUser
  BY <1>2, <1>3 DEF SessionOK, InHand, IInv, DataOK, HasWhatItNeeds
<1>5. job'[s] = Finished(job[s])
  BY <1>1 DEF Reply, Finish, IInv, DataOK, JobsOK
<1>6. job'[s].at = "done" /\ job'[s].op = "auth" /\ job'[s].name = job[s].name
  BY <1>3, <1>4, <1>5, FinishedIsAJob
<1>7. InHand(s)'
  BY <1>1, <1>2, <1>4, <1>6 DEF InHand, tables, identity
<1>8. Registered(s)'
  BY <1>6 DEF Registered, Done
<1>9. CASE Reply(s, "DENIED") /\ UNCHANGED search /\ outcome # "ok"
  <2>1. FilesLoaded(s)'
    BY <1>3, <1>9 DEF SessionOK, FilesLoaded, search
  <2>2. replies'[s] = Append(<<"OK">>, "DENIED")
    BY <1>4, <1>9 DEF Reply, Say, IInv, DataOK, JobsOK
  <2>3. faulty'[s] = TRUE
    BY <1>2, <1>9 DEF IInv, DataOK, JobsOK
  <2>4. Answered(s)' /\ RightsSet(s)'
    BY <1>6, <2>2, <2>3, Replies DEF Answered, RightsSet
  <2>5. QED
    BY <1>7, <1>8, <2>1, <2>4 DEF SessionOK
<1>10. CASE Finish(s) /\ ClearSearch(s) /\ UNCHANGED replies
  <2>1. mask'[s] = {}
    BY <1>10 DEF ClearSearch, SetDictMask, IInv, DataOK, SearchOK
  <2>2. FilesLoaded(s)' /\ collate'[s] = 0
    BY <1>10, <2>1, SettingLoads DEF ClearSearch, IInv
  <2>3. Answered(s)'
    BY <1>4, <1>10, Replies DEF Answered
  <2>4. RightsSet(s)'
    BY <1>1, <1>4, <1>6, <2>1, <2>2 DEF RightsSet, tables, identity
  <2>5. QED
    BY <1>7, <1>8, <2>2, <2>3, <2>4 DEF SessionOK
<1>11. CASE /\ basic[uid[s]] # NoRow
            /\ SetDictMask(s, Resolve[basic[uid[s]].dictmask][level[s]])
            /\ SetServerCollateFunc(s, Resolve[basic[uid[s]].dictmask][level[s]],
                     IF MayCollate(level[s]) THEN basic[uid[s]].collatefunc ELSE 0)
            /\ UNCHANGED replies
  <2> DEFINE dicts == Resolve[basic[uid[s]].dictmask][level[s]]
  <2>1. basic[uid[s]].dictmask \in Masks /\ level[s] \in Levels
    BY <1>3, <1>11 DEF IInv, DataOK, TablesOK, IdentityOK, Basic
  <2>2. \A d \in dicts : DictLevel[d] <= level[s]
    BY <2>1, ResolveRespectsLevel
  <2>3. mask'[s] = dicts
    BY <1>11 DEF SetDictMask, IInv, DataOK, SearchOK
  <2>4. FilesLoaded(s)' /\ collate'[s] = IF MayCollate(level[s])
                                         THEN basic[uid[s]].collatefunc ELSE 0
    BY <1>11, <2>3, SettingLoads DEF IInv
  <2>5. collate'[s] # 0 => level[s] > 0 \/ EnableCollate0
    BY <2>4 DEF MayCollate
  <2>6. Answered(s)'
    BY <1>4, <1>11, Replies DEF Answered
  <2>7. RightsSet(s)'
    BY <1>1, <1>4, <1>6, <2>2, <2>3, <2>5 DEF RightsSet, tables, identity
  <2>8. QED
    BY <1>7, <1>8, <2>4, <2>6, <2>7 DEF SessionOK
<1>12. QED
  BY <1>1, <1>9, <1>10, <1>11

LEMMA RegisterUserOK ==
    ASSUME IInv, NEW s \in Sessions, RegisterUser(s)
    PROVE  SessionOK(s)'
<1>1. PICK outcome \in Outcomes(s) :
        /\ Statement(s, "register.user", outcome)
        /\ \/ Reply(s, "DENIED") /\ UNCHANGED <<users, uid>>
           \/ \E i \in NextIds :
                 /\ users' = [users EXCEPT ![i] =
                        [name |-> job[s].name, pw |-> job[s].pw, level |-> 0]]
                 /\ \/ /\ uid' = [uid EXCEPT ![s] = i]
                       /\ Goto(s, "register.basic")
                       /\ UNCHANGED replies
                    \/ Reply(s, "DENIED") /\ UNCHANGED uid
        /\ UNCHANGED <<basic, auth, level, search>>
  BY Zenon DEF RegisterUser
<1>2. /\ SessionOK(s) /\ "DENIED" \in Codes
      /\ "register.user" \in Step /\ "register.basic" \in Step
  BY DEF IInv, Codes, Step
<1>3. FilesLoaded(s)'
  BY <1>1, <1>2 DEF SessionOK, FilesLoaded, search
<1>4. uid[s] # NoUser => uid[s] \in Ids /\ users[uid[s]] # NoRow
  BY <1>2 DEF SessionOK, InHand, IInv, DataOK, IdentityOK
<1>5. CASE Reply(s, "DENIED") /\ UNCHANGED <<users, uid>>
  BY <1>1, <1>2, <1>3, <1>4, <1>5, ReplyOK
<1>6. ASSUME NEW i \in NextIds,
             users' = [users EXCEPT ![i] =
                 [name |-> job[s].name, pw |-> job[s].pw, level |-> 0]],
             \/ /\ uid' = [uid EXCEPT ![s] = i]
                /\ Goto(s, "register.basic")
                /\ UNCHANGED replies
             \/ Reply(s, "DENIED") /\ UNCHANGED uid
      PROVE  SessionOK(s)'
  <2>1. i \in Ids /\ users[i] = NoRow
    BY DEF NextIds
  <2>2. job[s].name \in Names /\ job[s].pw \in Passwords
    BY <1>1 DEF IInv, DataOK, HasWhatItNeeds, Statement
  <2>3. [name |-> job[s].name, pw |-> job[s].pw, level |-> 0] # NoRow
    BY <2>2, ZeroIsALevel, NoRowIsNoRow DEF Row
  <2>4. users'[i] # NoRow /\ users'[i].name = job[s].name
    BY <1>6, <2>1, <2>3 DEF IInv, DataOK, TablesOK
  <2>5. CASE Reply(s, "DENIED") /\ UNCHANGED uid
    <3>1. uid'[s] # NoUser => users'[uid'[s]] # NoRow
      BY <1>4, <1>6, <2>1, <2>5 DEF IInv, DataOK, TablesOK
    <3>2. QED
      BY <1>1, <1>2, <1>3, <2>5, <3>1, ReplyOK
  <2>6. CASE /\ uid' = [uid EXCEPT ![s] = i]
             /\ Goto(s, "register.basic")
             /\ UNCHANGED replies
    <3>1. uid'[s] = i
      BY <2>6 DEF IInv, DataOK, IdentityOK
    <3>2. basic'[i] = NoRow
      BY <1>1, <2>1 DEF IInv, RowsPaired
    <3>3. job[s].op = "register" /\ replies'[s] = <<>>
      BY <1>1, <1>2, <2>6 DEF SessionOK, InHand, Statement
    <3>4. QED
      BY <1>1, <1>2, <1>3, <2>4, <2>6, <3>1, <3>2, <3>3, GotoOK
  <2>7. QED
    BY <1>6, <2>5, <2>6
<1>7. QED
  BY <1>1, <1>5, <1>6

LEMMA RegisterBasicOK ==
    ASSUME IInv, NEW s \in Sessions, RegisterBasic(s)
    PROVE  SessionOK(s)'
<1>1. PICK outcome \in Outcomes(s) :
        /\ Statement(s, "register.basic", outcome)
        /\ basic' = IF TakesEffect(outcome) /\ basic[uid[s]] = NoRow
                    THEN [basic EXCEPT ![uid[s]] =
                             [dictmask |-> EmptyMask, collatefunc |-> 0]]
                    ELSE basic
        /\ Reply(s, "OK")
        /\ UNCHANGED <<users, identity, search>>
  BY Zenon DEF RegisterBasic
<1>2. SessionOK(s) /\ s \in alive /\ alive' = alive /\ job[s].at = "register.basic"
  BY <1>1 DEF IInv, Statement
<1>3. /\ job[s] \in Job /\ replies[s] = <<>> /\ job[s].op = "register"
      /\ uid[s] # NoUser /\ uid[s] \in Ids /\ users[uid[s]] # NoRow
      /\ users[uid[s]].name = job[s].name /\ basic[uid[s]] = NoRow
  BY <1>2 DEF SessionOK, InHand, IInv, DataOK, JobsOK, IdentityOK, HasWhatItNeeds
<1>4. job'[s] = Finished(job[s]) /\ replies'[s] = <<"OK">>
  BY <1>1, <1>3, Replies DEF Reply, Finish, Say, IInv, DataOK, JobsOK
<1>5. job'[s].at = "done" /\ job'[s].op = "register" /\ job'[s].name = job[s].name
  BY <1>3, <1>4, FinishedIsAJob
<1>6. InHand(s)'
  BY <1>1, <1>2, <1>3, <1>5 DEF InHand, identity
<1>7. FilesLoaded(s)'
  BY <1>1, <1>2 DEF SessionOK, FilesLoaded, search
<1>8. Answered(s)' /\ RightsSet(s)'
  BY <1>4, <1>5, Replies DEF Answered, RightsSet, Done
<1>9. ASSUME ~faulty'[s] PROVE basic'[uid[s]] # NoRow
  <2>1. outcome = "ok"
    BY <1>1, <1>9 DEF Statement, Fault, IInv, DataOK, JobsOK
  <2>2. [dictmask |-> EmptyMask, collatefunc |-> 0] # NoRow
    BY Bounds, NoRowIsNoRow DEF Basic
  <2>3. QED
    BY <1>1, <1>3, <2>1, <2>2 DEF TakesEffect, IInv, DataOK, TablesOK
<1>10. Registered(s)'
  BY <1>1, <1>3, <1>5, <1>9 DEF Registered, identity
<1>11. QED
  BY <1>6, <1>7, <1>8, <1>10 DEF SessionOK

\* change_password and userlevel, their SELECTs.
LEMMA SelectsOK ==
    ASSUME IInv, NEW s \in Sessions, PasswordSelect(s) \/ LevelSelect(s)
    PROVE  SessionOK(s)'
<1>1. PICK outcome \in Outcomes(s), step \in {"password.select", "level.select"},
           next \in {"password.update", "level.update"} :
        /\ Statement(s, step, outcome)
        /\ (Goto(s, next) /\ UNCHANGED replies) \/ Reply(s, "DENIED")
        /\ UNCHANGED <<tables, identity, search>>
  <2>1. CASE PasswordSelect(s)
    <3>1. \E outcome \in Outcomes(s) :
            /\ Statement(s, "password.select", outcome)
            /\ (Goto(s, "password.update") /\ UNCHANGED replies) \/ Reply(s, "DENIED")
            /\ UNCHANGED <<tables, identity, search>>
      BY Zenon, <2>1 DEF PasswordSelect
    <3>2. QED
      BY Zenon, <3>1
  <2>2. CASE LevelSelect(s)
    <3>1. \E outcome \in Outcomes(s) :
            /\ Statement(s, "level.select", outcome)
            /\ (Goto(s, "level.update") /\ UNCHANGED replies) \/ Reply(s, "DENIED")
            /\ UNCHANGED <<tables, identity, search>>
      BY Zenon, <2>2 DEF LevelSelect
    <3>2. QED
      BY Zenon, <3>1
  <2>3. QED
    BY <2>1, <2>2
<1>2. SessionOK(s) /\ "DENIED" \in Codes /\ step \in Step /\ next \in Step
  BY DEF IInv, Codes, Step
<1>3. FilesLoaded(s)'
  BY <1>1, <1>2 DEF SessionOK, FilesLoaded, search
<1>4. uid'[s] # NoUser => users'[uid'[s]] # NoRow
  BY <1>1, <1>2 DEF SessionOK, InHand, identity, tables
<1>5. CASE Reply(s, "DENIED")
  BY <1>1, <1>2, <1>3, <1>4, <1>5, ReplyOK
<1>6. CASE Goto(s, next) /\ UNCHANGED replies
  <2>1. job[s].op \notin {"auth", "register", "query", "list"} /\ replies'[s] = <<>>
    BY <1>1, <1>2, <1>6 DEF SessionOK, InHand, Statement
  <2>2. QED
    BY <1>1, <1>2, <1>3, <1>4, <1>6, <2>1, GotoOK
<1>7. QED
  BY <1>1, <1>5, <1>6

\* Statements that end with OK or DENIED and keep the session's settings.
LEMMA AnsweringStatementOK ==
    ASSUME IInv, NEW s \in Sessions, NEW step, NEW outcome, NEW ok \in BOOLEAN,
           step \in {"password.update", "level.update", "column.update", "column.select"},
           Statement(s, step, outcome), Reply(s, IF ok THEN "OK" ELSE "DENIED"),
           UNCHANGED <<identity, search>>, TablesGrow(s)
    PROVE  SessionOK(s)'
<1>1. (IF ok THEN "OK" ELSE "DENIED") \in Codes /\ step \in Step
  BY DEF Codes, Step
<1>2. SessionOK(s) /\ (uid[s] # NoUser => uid[s] \in Ids)
  BY DEF IInv, DataOK, IdentityOK
<1>3. FilesLoaded(s)'
  BY <1>2 DEF SessionOK, FilesLoaded, search
<1>4. uid'[s] # NoUser => users'[uid'[s]] # NoRow
  BY <1>2 DEF SessionOK, InHand, identity, TablesGrow
<1>5. QED
  BY <1>1, <1>3, <1>4, ReplyOK

LEMMA UpdatesOK ==
    ASSUME IInv, NEW s \in Sessions,
           PasswordUpdate(s) \/ LevelUpdate(s) \/ ColumnUpdate(s) \/ ColumnSelect(s)
    PROVE  SessionOK(s)'
<1>1. TablesGrow(s)
  BY StatementGrows DEF Execute, IInv
<1>2. CASE PasswordUpdate(s)
  <2>1. PICK outcome \in Outcomes(s) :
          /\ Statement(s, "password.update", outcome)
          /\ Reply(s, IF outcome = "ok" THEN "OK" ELSE "DENIED")
          /\ UNCHANGED <<identity, search>>
    BY Zenon, <1>2 DEF PasswordUpdate
  <2>2. QED
    BY <1>1, <2>1, AnsweringStatementOK
<1>3. CASE LevelUpdate(s)
  <2>1. PICK outcome \in Outcomes(s) :
          /\ Statement(s, "level.update", outcome)
          /\ Reply(s, IF outcome = "ok" THEN "OK" ELSE "DENIED")
          /\ UNCHANGED <<identity, search>>
    BY Zenon, <1>3 DEF LevelUpdate
  <2>2. QED
    BY <1>1, <2>1, AnsweringStatementOK
<1>4. CASE ColumnUpdate(s)
  <2>1. PICK outcome \in Outcomes(s) :
          /\ Statement(s, "column.update", outcome)
          /\ Reply(s, IF outcome = "ok" THEN "OK" ELSE "DENIED")
          /\ UNCHANGED <<identity, search>>
    BY Zenon, <1>4 DEF ColumnUpdate
  <2>2. QED
    BY <1>1, <2>1, AnsweringStatementOK
<1>5. CASE ColumnSelect(s)
  <2>1. PICK outcome \in Outcomes(s) :
          /\ Statement(s, "column.select", outcome)
          /\ Reply(s, IF outcome = "ok" /\ basic[uid[s]] # NoRow THEN "OK" ELSE "DENIED")
          /\ UNCHANGED <<identity, search>>
    BY Zenon, <1>5 DEF ColumnSelect
  <2>2. QED
    BY <1>1, <2>1, AnsweringStatementOK
<1>6. QED
  BY <1>2, <1>3, <1>4, <1>5

LEMMA CollateUpdateOK ==
    ASSUME IInv, NEW s \in Sessions, CollateUpdate(s)
    PROVE  SessionOK(s)'
<1>1. PICK outcome \in Outcomes(s) :
        /\ Statement(s, "collate.update", outcome)
        /\ \/ SetServerCollateFunc(s, mask[s], job[s].func) /\ Reply(s, "OK")
           \/ Reply(s, "DENIED") /\ UNCHANGED <<collate, loaded>>
        /\ UNCHANGED <<users, identity, mask>>
  BY Zenon DEF CollateUpdate
<1>2. /\ SessionOK(s) /\ "OK" \in Codes /\ "DENIED" \in Codes /\ "collate.update" \in Step
  BY DEF IInv, Codes, Step
<1>3. uid'[s] # NoUser => users'[uid'[s]] # NoRow
  BY <1>1, <1>2 DEF SessionOK, InHand, identity
<1>4. FilesLoaded(s)'
  BY <1>1, <1>2, SettingLoads DEF SessionOK, FilesLoaded, IInv
<1>5. QED
  BY <1>1, <1>2, <1>3, <1>4, ReplyOK

(***************************************************************************)
(* The invariant: the steps together.                                      *)
(***************************************************************************)

\* A session reaches the second INSERT of register with an id that was free.
LEMMA DispatchIsNotRegisterBasic ==
    ASSUME IInv, NEW s \in Sessions, Dispatch(s)
    PROVE  job'[s].at # "register.basic"
<1>1. job \in [Sessions -> Job]
  BY DEF IInv, DataOK, JobsOK
<1>2. ASSUME NEW cmd \in Job, NEW code, Answer(s, cmd, code)
      PROVE  job'[s].at # "register.basic"
  BY <1>1, <1>2, FinishedIsAJob DEF Answer
<1>3. CASE Quick(s)
  BY <1>2, <1>3, QuickAnswers
<1>4. CASE Ask(s)
  <2>1. PICK cmd \in Job : Prepared(s, cmd) /\ WithDatabase(s, cmd)
    BY <1>4, AskAsks
  <2>2. cmd.at # "register.basic"
    BY <2>1 DEF Prepared
  <2>3. QED
    BY <1>1, <1>2, <2>1, <2>2 DEF WithDatabase, Begin
<1>5. CASE AuthRoot(s)
  <2>1. [Blank EXCEPT !.op = "auth", !.name = "root"] \in Job
    BY BlankIsAJob DEF Job, AllCommands
  <2>2. QED
    BY <1>2, <1>5, <2>1 DEF AuthRoot
<1>6. CASE LookupinTmpdictmask(s) \/ Query(s)
  <2>1. \E op \in {"tmpdictmask", "query", "list"}, code \in Codes :
            Answer(s, [Blank EXCEPT !.op = op], code)
    BY <1>6 DEF LookupinTmpdictmask, Query, Codes
  <2>2. \A op \in {"tmpdictmask", "query", "list"} : [Blank EXCEPT !.op = op] \in Job
    BY PlainJob DEF AllCommands
  <2>3. QED
    BY <1>2, <2>1, <2>2
<1>7. QED
  BY <1>3, <1>4, <1>5, <1>6 DEF Dispatch, Quick, Ask

LEMMA RegisterBasicIdIsNew ==
    ASSUME IInv, NEW s \in Sessions, Execute(s), job'[s].at = "register.basic"
    PROVE  uid'[s] \in Ids /\ users[uid'[s]] = NoRow
<1>1. job \in [Sessions -> Job] /\ job[s] \in Job /\ uid \in [Sessions -> Ids \cup {NoUser}]
  BY DEF IInv, DataOK, JobsOK, IdentityOK
<1>2. ASSUME NEW step, Goto(s, step) PROVE job'[s].at = step
  <2>1. job' = [job EXCEPT ![s] = [job[s] EXCEPT !.at = step]]
    BY Zenon, <1>2 DEF Goto
  <2>2. QED
    BY <1>1, <2>1 DEF Job
<1>3. ~Finish(s)
  BY <1>1, FinishedIsAJob DEF Finish
<1>4. CASE RegisterUser(s)
  <2>1. \E i \in NextIds : uid' = [uid EXCEPT ![s] = i]
    <3>1. Reply(s, "DENIED") \/ \E i \in NextIds : uid' = [uid EXCEPT ![s] = i]
      BY Zenon, <1>3, <1>4 DEF RegisterUser, Reply
    <3>2. QED
      BY <1>3, <3>1 DEF Reply
  <2>2. QED
    BY <1>1, <2>1 DEF NextIds
<1>5. CASE AuthSelect(s)
  BY <1>2, <1>3, <1>5 DEF AuthSelect, Reply
<1>6. CASE PasswordSelect(s) \/ LevelSelect(s)
  BY <1>2, <1>3, <1>6 DEF PasswordSelect, LevelSelect, Reply
<1>7. CASE \/ AuthBasic(s) \/ RegisterBasic(s) \/ PasswordUpdate(s) \/ LevelUpdate(s)
           \/ ColumnUpdate(s) \/ CollateUpdate(s) \/ ColumnSelect(s)
  BY <1>3, <1>7 DEF AuthBasic, RegisterBasic, PasswordUpdate, LevelUpdate,
     ColumnUpdate, CollateUpdate, ColumnSelect, Reply
<1>8. QED
  BY <1>4, <1>5, <1>6, <1>7 DEF Execute

\* The rows of the two tables stay paired.
LEMMA RowsStayPaired ==
    ASSUME IInv, NEW s \in Sessions, TablesGrow(s),
           \A t \in Sessions \ {s} : Untouched(t),
           job'[s].at = "register.basic" => uid'[s] \in Ids /\ users[uid'[s]] = NoRow
    PROVE  RowsPaired'
<1>1. ASSUME NEW t \in Sessions, job[t].at = "register.basic"
      PROVE  uid[t] \in Ids /\ users[uid[t]] # NoRow
  BY ZenonT(60), <1>1 DEF IInv, DataOK, IdentityOK, HasWhatItNeeds, SessionOK, InHand
<1>2. ASSUME NEW i \in Ids, basic'[i] # NoRow PROVE users'[i] # NoRow
  <2>1. CASE basic[i] # NoRow
    BY <2>1 DEF IInv, RowsPaired, TablesGrow
  <2>2. CASE basic[i] = NoRow
    BY <1>1, <1>2, <2>2 DEF TablesGrow
  <2>3. QED
    BY <2>1, <2>2
<1>3. ASSUME NEW a \in Sessions, NEW b \in Sessions,
             job'[a].at = "register.basic", job'[b].at = "register.basic",
             uid'[a] = uid'[b]
      PROVE  a = b
  <2>1. ASSUME NEW t \in Sessions \ {s}, job'[t].at = "register.basic"
        PROVE  uid'[t] = uid[t] /\ job[t].at = "register.basic" /\ users[uid'[t]] # NoRow
    BY <1>1, <2>1 DEF Untouched
  <2>2. CASE a # s /\ b # s
    BY <1>3, <2>1, <2>2 DEF IInv, RowsPaired
  <2>3. CASE a = s \/ b = s
    BY <1>3, <2>1, <2>3
  <2>4. QED
    BY <2>2, <2>3
<1>4. QED
  BY <1>2, <1>3 DEF RowsPaired

LEMMA InvInit == Init => IInv
<1>1. SUFFICES ASSUME Init PROVE IInv
  OBVIOUS
<1>2. DataOK /\ guest \in GuestMasks
  BY <1>1, TypeInit DEF TypeOK
<1>3. /\ alive = {} /\ \A i \in Ids : basic[i] = NoRow
      /\ \A s \in Sessions : /\ job[s] = Blank /\ uid[s] = NoUser
                             /\ collate[s] = 0 /\ replies[s] = <<>>
  BY <1>1 DEF Init
<1>4. RowsPaired
  BY <1>3, BlankIsIdle DEF RowsPaired
<1>5. ASSUME NEW s \in Sessions PROVE SessionOK(s)
  BY <1>3, BlankIsIdle
  DEF SessionOK, InHand, FilesLoaded, Registered, Answered, RightsSet, Done
<1>6. QED
  BY <1>2, <1>4, <1>5 DEF IInv

\* What an unchanged state keeps.
LEMMA StutterKeeps ==
    ASSUME IInv, UNCHANGED <<vars, guest>>
    PROVE  IInv'
<1>1. guest' \in GuestMasks /\ DataOK'
  BY TypeNext DEF IInv, TypeOK
<1>2. RowsPaired'
  BY DEF IInv, RowsPaired, vars
<1>3. ASSUME NEW s \in Sessions PROVE SessionOK(s)'
  <2>1. InHand(s)'
    BY DEF IInv, SessionOK, InHand, vars
  <2>2. FilesLoaded(s)' /\ Registered(s)' /\ Answered(s)' /\ RightsSet(s)'
       
    BY DEF IInv, SessionOK, FilesLoaded, Registered, Answered, RightsSet,
       Done, vars
  <2>3. QED
    BY <2>1, <2>2 DEF SessionOK
<1>4. QED
  BY <1>1, <1>2, <1>3 DEF IInv

\* Every step keeps the invariant.
LEMMA InvNext == IInv /\ [Next]_<<vars, guest>> => IInv'
<1>1. SUFFICES ASSUME IInv, Next PROVE IInv'
  <2>1. ASSUME IInv, UNCHANGED <<vars, guest>> PROVE IInv'
    BY <2>1, StutterKeeps
  <2>2. QED
    BY <2>1
<1>2. DataOK /\ DataOK' /\ guest' \in GuestMasks
  BY <1>1, TypeNext DEF IInv, TypeOK
<1>3. PICK s \in Sessions : Open(s) \/ Terminate(s) \/ Dispatch(s) \/ Execute(s)
  BY <1>1 DEF Next
<1>4. TablesGrow(s) /\ \A t \in Sessions \ {s} : Untouched(t)
  <2>1. CASE Open(s) \/ Terminate(s)
    <3>1. ASSUME NEW t \in Sessions \ {s} PROVE Untouched(t)
      BY <1>2, <2>1, ProcessTouches
    <3>2. UNCHANGED tables
      BY <2>1 DEF Open, Terminate, tables
    <3>3. QED
      BY <3>1, <3>2, SameTablesGrow
  <2>2. CASE Dispatch(s)
    <3>1. ASSUME NEW t \in Sessions \ {s} PROVE Untouched(t)
      BY <1>2, <2>2, DispatchTouches
    <3>2. UNCHANGED tables
      BY <2>2, QuickAnswers, AskAsks
      DEF Dispatch, Quick, Ask, AuthRoot, LookupinTmpdictmask, Query, tables
    <3>3. QED
      BY <3>1, <3>2, SameTablesGrow
  <2>3. CASE Execute(s)
    <3>1. ASSUME NEW t \in Sessions \ {s} PROVE Untouched(t)
      BY <1>2, <2>3, StatementTouches
    <3>2. QED
      BY <1>2, <2>3, <3>1, StatementGrows
  <2>4. QED
    BY <1>3, <2>1, <2>2, <2>3
<1>5. SessionOK(s)'
  <2>1. CASE Open(s) \/ Terminate(s)
    BY <1>1, <2>1, ProcessOK
  <2>2. CASE Dispatch(s)
    BY <1>1, <2>2, QuickOK, AskOK, AuthRootOK, TmpdictmaskOK, QueryOK
    DEF Dispatch, Quick, Ask
  <2>3. CASE Execute(s)
    BY <1>1, <2>3, AuthSelectOK, AuthBasicOK, RegisterUserOK, RegisterBasicOK,
       SelectsOK, UpdatesOK, CollateUpdateOK DEF Execute
  <2>4. QED
    BY <1>3, <2>1, <2>2, <2>3
<1>6. job'[s].at = "register.basic" => uid'[s] \in Ids /\ users[uid'[s]] = NoRow
  <2>1. CASE Open(s) \/ Terminate(s)
    <3>1. job'[s] = Blank
      BY <1>1, <2>1 DEF Open, Terminate, Forget, IInv, DataOK, JobsOK, SessionOK, InHand
    <3>2. QED
      BY <3>1, BlankIsIdle
  <2>2. QED
    BY <1>1, <1>3, <2>1, DispatchIsNotRegisterBasic, RegisterBasicIdIsNew
<1>7. RowsPaired'
  BY <1>1, <1>4, <1>6, RowsStayPaired
<1>8. \A t \in Sessions \ {s} : SessionOK(t)'
  BY <1>1, <1>4, OthersKeep
<1>9. QED
  BY <1>2, <1>5, <1>7, <1>8 DEF IInv

\* The invariant holds of every execution.
LEMMA Invariant == Spec => []IInv
<1>1. QED
  BY InvInit, InvNext, PTL DEF Spec

(***************************************************************************)
(* What the invariant is for.                                              *)
(***************************************************************************)

\* In whatever order mask and collation function are set, the collation file
\* of every dictionary searched is loaded (SetDictMask, SetServerCollateFunc).
THEOREM CollationFilesAreLoaded == Spec => []CollateFilesLoaded
<1>1. IInv => CollateFilesLoaded
  BY DEF IInv, SessionOK, CollateFilesLoaded
<1>2. QED
  BY <1>1, Invariant, PTL

\* However many sessions register at once, each completes its own account
\* (daemon_register).
THEOREM RegistrationsAreComplete == Spec => []RegistrationComplete
<1>1. IInv => RegistrationComplete
  BY DEF IInv, SessionOK, RegistrationComplete
<1>2. QED
  BY <1>1, Invariant, PTL

\* A command is answered with one status line, whatever its statements do;
\* only an auth whose second SELECT fails has two.
THEOREM CommandsAreAnsweredOnce == Spec => []AnsweredOnce
<1>1. IInv => AnsweredOnce
  BY DEF IInv, SessionOK, AnsweredOnce
<1>2. QED
  BY <1>1, Invariant, PTL

\* A login leaves nothing of the rights the connection had before it
\* (daemon_auth).
THEOREM LoginsSetRights == Spec => []LoginSetsRights
<1>1. IInv => LoginSetsRights
  BY DEF IInv, SessionOK, LoginSetsRights
<1>2. QED
  BY <1>1, Invariant, PTL

\* What executes a statement is no query.
LEMMA StatementIsNoQuery ==
    ASSUME IInv, NEW s \in Sessions, Execute(s)
    PROVE  job'[s].op \notin {"query", "list"}
<1>1. job \in [Sessions -> Job] /\ job[s] \in Job /\ SessionOK(s)
  BY DEF IInv, DataOK, JobsOK
<1>2. \A step, outcome : Statement(s, step, outcome) => job[s].at = step
  BY DEF Statement
<1>3. Finish(s) => job'[s].op = job[s].op
  BY <1>1, FinishedIsAJob DEF Finish
<1>4. \A code : Reply(s, code) => job'[s].op = job[s].op
  BY <1>3 DEF Reply
<1>5. \A step : Goto(s, step) => job'[s].op = job[s].op
  BY <1>1 DEF Goto, Job
<1>6. job[s].at \in Step \ {"done"} /\ job'[s].op = job[s].op
  <2>1. CASE AuthSelect(s)
    BY <1>2, <1>4, <1>5, <2>1 DEF AuthSelect, Step
  <2>2. CASE AuthBasic(s)
    BY <1>2, <1>3, <1>4, <2>2 DEF AuthBasic, Step
  <2>3. CASE RegisterUser(s) \/ RegisterBasic(s)
    BY <1>2, <1>4, <1>5, <2>3 DEF RegisterUser, RegisterBasic, Step
  <2>4. CASE PasswordSelect(s) \/ LevelSelect(s)
    BY <1>2, <1>4, <1>5, <2>4 DEF PasswordSelect, LevelSelect, Step
  <2>5. CASE PasswordUpdate(s) \/ LevelUpdate(s) \/ ColumnUpdate(s) \/ ColumnSelect(s)
    BY <1>2, <1>4, <2>5 DEF PasswordUpdate, LevelUpdate, ColumnUpdate, ColumnSelect, Step
  <2>6. CASE CollateUpdate(s)
    BY <1>2, <1>4, <2>6 DEF CollateUpdate, Step
  <2>7. QED
    BY <2>1, <2>2, <2>3, <2>4, <2>5, <2>6 DEF Execute
<1>7. QED
  BY <1>1, <1>6 DEF SessionOK, InHand

\* Only a query is answered as one.
LEMMA OtherCommandsAnswerNoQuery ==
    ASSUME IInv, NEW s \in Sessions, Dispatch(s), ~Query(s)
    PROVE  ~AnsweredNow(s)
<1>1. job \in [Sessions -> Job] /\ replies \in [Sessions -> Seq(Codes)]
  BY DEF IInv, DataOK, JobsOK
<1>2. ASSUME NEW cmd \in Job, NEW code, Answer(s, cmd, code),
             cmd.op \notin {"query", "list"}
      PROVE  ~AnsweredNow(s)
  BY <1>1, <1>2, FinishedIsAJob DEF Answer, AnsweredNow
<1>3. CASE Quick(s)
  BY <1>2, <1>3, QuickAnswers DEF Harmless
<1>4. CASE Ask(s)
  <2>1. PICK cmd \in Job : Prepared(s, cmd) /\ WithDatabase(s, cmd)
    BY <1>4, AskAsks
  <2>2. cmd.at # "done" /\ cmd.op \notin {"query", "list"}
    BY <2>1 DEF Prepared
  <2>3. CASE Begin(s, cmd)
    BY <1>1, <2>2, <2>3 DEF Begin, AnsweredNow
  <2>4. QED
    BY <1>2, <2>1, <2>2, <2>3 DEF WithDatabase
<1>5. CASE AuthRoot(s)
  <2>1. /\ [Blank EXCEPT !.op = "auth", !.name = "root"] \in Job
        /\ [Blank EXCEPT !.op = "auth", !.name = "root"].op = "auth"
    BY BlankIsAJob DEF Job, AllCommands
  <2>2. QED
    BY <1>2, <1>5, <2>1 DEF AuthRoot
<1>6. CASE LookupinTmpdictmask(s)
  <2>1. Answer(s, [Blank EXCEPT !.op = "tmpdictmask"], "OK")
    BY <1>6 DEF LookupinTmpdictmask
  <2>2. [Blank EXCEPT !.op = "tmpdictmask"] \in Job
    BY PlainJob DEF AllCommands
  <2>3. [Blank EXCEPT !.op = "tmpdictmask"].op = "tmpdictmask"
    BY DEF Blank
  <2>4. QED
    BY <1>2, <2>1, <2>2, <2>3
<1>7. QED
  BY <1>3, <1>4, <1>5, <1>6 DEF Dispatch, Quick, Ask

\* What check_dictmask() lets through.
LEMMA QueryHasDictionaries ==
    ASSUME IInv, NEW s \in Sessions, Query(s), AnsweredNow(s)
    PROVE  mask'[s] # {} \/ (auth[s] = "" /\ guest = {})
<1>1. CASE BecomeGuest(s)
  <2>1. mask'[s] = guest /\ auth[s] = ""
    BY <1>1 DEF BecomeGuest, SetDictMask, IInv, DataOK, SearchOK
  <2>2. QED
    BY <2>1
<1>2. CASE auth[s] # "" /\ UNCHANGED <<auth, search>>
  <2>1. PICK cmd : Answer(s, cmd, IF Unset(s) THEN "NOTSET" ELSE "OK")
    BY DEF Query
  <2>2. replies'[s] = <<IF Unset(s) THEN "NOTSET" ELSE "OK">>
    BY <2>1 DEF Answer, IInv, DataOK, JobsOK
  <2>3. replies'[s] = <<"OK">>
    BY DEF AnsweredNow
  <2>4. (IF Unset(s) THEN "NOTSET" ELSE "OK") = "OK"
    <3>1. PICK code : code = IF Unset(s) THEN "NOTSET" ELSE "OK"
      OBVIOUS
    <3>2. <<code>> = <<"OK">>
      BY <2>2, <2>3, <3>1
    <3>3. code = "OK"
      BY <3>2
    <3>4. QED
      BY <3>1, <3>3
  <2>5. ~Unset(s)
    BY <2>4
  <2>6. QED
    BY <1>2, <2>5 DEF Unset, search
<1>3. QED
  BY <1>1, <1>2 DEF Query

\* A query that is answered OK had a dictionary to search, but for the first of
\* a nameless connection to a server that gives guests none (check_dictmask).
THEOREM QueriesFindDictionaries == Spec => QueriesHaveDictionaries
<1>1. ASSUME IInv, [Next]_<<vars, guest>>, NEW s \in Sessions, AnsweredNow(s)
      PROVE  mask'[s] # {} \/ (auth[s] = "" /\ guest = {})
  <2>1. DataOK /\ job'[s] # job[s]
    BY <1>1 DEF IInv, AnsweredNow
  <2>2. Next
    BY <1>1, <2>1 DEF vars
  <2>3. PICK t \in Sessions : Open(t) \/ Terminate(t) \/ Dispatch(t) \/ Execute(t)
    BY <2>2 DEF Next
  <2>4. t = s
    BY <2>1, <2>3, ProcessTouches, DispatchTouches, StatementTouches DEF Untouched
  <2>5. CASE Open(s) \/ Terminate(s)
    BY <1>1, <2>1, <2>5 DEF Open, Terminate, AnsweredNow
  <2>6. CASE Execute(s)
    BY <1>1, <2>6, StatementIsNoQuery DEF AnsweredNow
  <2>7. CASE Dispatch(s)
    BY <1>1, <2>7, OtherCommandsAnswerNoQuery, QueryHasDictionaries
  <2>8. QED
    BY <2>3, <2>4, <2>5, <2>6, <2>7
<1>2. IInv /\ [Next]_<<vars, guest>> =>
        [\A s \in Sessions :
            AnsweredNow(s) => mask'[s] # {} \/ (auth[s] = "" /\ guest = {})]_vars
  BY <1>1
<1>3. QED
  BY <1>2, Invariant, PTL DEF Spec, QueriesHaveDictionaries

=============================================================================
