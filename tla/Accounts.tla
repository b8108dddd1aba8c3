------------------------------ MODULE Accounts ------------------------------
(***************************************************************************)
(* The commands of stardictd that use the account database (daemon.cpp     *)
(* 75-853): any number of sessions, each a process with its own copy of    *)
(* auth_user, userID, userLevel and the search settings, over one MySQL    *)
(* database.  Every SQL statement is a step of its own, because that is    *)
(* the only unit the server makes atomic, and a session may end by a       *)
(* signal between any two steps.                                           *)
(*                                                                         *)
(* A password stands for its salted MD5 sum, an auth key for the password  *)
(* it was computed from.  Of a user_basic row only dictmask and            *)
(* collatefunc are kept: nothing depends on email, language and time.      *)
(***************************************************************************)
EXTENDS Integers, Sequences, FiniteSets

CONSTANTS
    Sessions,       \* the connections that may be open at once
    Names,          \* names of ordinary users
    Passwords,      \* passwords of ordinary users
    RootEnabled,    \* root-user/password is set
    MaxUsers,       \* bound on the AUTO_INCREMENT of stardict_users
    MaxLevel,       \* 5: the highest user level
    Masks,          \* the dictmask strings in use
    EmptyMask,      \* the empty string
    Dicts,          \* the dictionaries loaded
    DictLevel,      \* DictLevel[d]: the least user level that may search d
    Resolve,        \* Resolve[m][l]: what SetServerDictMask makes of the
                    \* string m for a user of level l
    GuestMasks,     \* what it may make of guest-user/dictmask in stardictd.conf
    CollateFuncs,   \* the collation functions, 1 .. COLLATE_FUNC_NUMS
    EnableCollate0, \* level-0-user/enable_collate
    Commands,       \* the commands clients send in this instance
    Faults,         \* the ways statements may fail in this instance
    NoRow           \* the result of a SELECT that finds nothing

Levels == 0 .. MaxLevel
Ids == 1 .. MaxUsers
NoUser == 0         \* userID is the empty string

Row == [name : Names, pw : Passwords, level : Levels]
Basic == [dictmask : Masks, collatefunc : CollateFuncs \cup {0}]

\* "query" stands for lookup, query, selectquery, smartquery and define, "list"
\* for previous and next, "setother" for setlanguage and setemail, "get" for
\* getcollatefunc, getlanguage and getemail, "info" for the commands that
\* neither read nor change the variables below.
AllCommands == {"auth", "register", "change_password", "userlevel",
                "setdictmask", "setcollatefunc", "setother", "getdictmask",
                "get", "getuserlevel", "maxdictcount", "tmpdictmask", "query",
                "list", "info"}

ASSUME AccountsAssumption ==
    /\ MaxUsers \in Nat /\ MaxLevel \in Nat
    /\ {"root", "guest", ""} \cap Names = {}
    /\ EmptyMask \in Masks
    /\ Resolve \in [Masks -> [Levels -> SUBSET Dicts]]
    /\ DictLevel \in [Dicts -> Levels]
    /\ \A m \in Masks, l \in Levels : \A d \in Resolve[m][l] : DictLevel[d] <= l
    /\ \A l \in Levels : Resolve[EmptyMask][l] = {}
    /\ GuestMasks \subseteq SUBSET Dicts
    /\ 0 \notin CollateFuncs
    /\ EnableCollate0 \in BOOLEAN /\ RootEnabled \in BOOLEAN
    /\ NoRow \notin Row /\ NoRow \notin Basic
    /\ Commands \subseteq AllCommands
    /\ Faults \subseteq {"connect", "failed", "lost", "signal"}

VARIABLES
    users,    \* table stardict_users: id -> [name, pw, level] or NoRow
    basic,    \* table user_basic: id -> [dictmask, collatefunc] or NoRow
    alive,    \* the sessions whose process runs
    auth,     \* auth_user
    uid,      \* userID
    level,    \* userLevel
    mask,     \* query_dictmask
    collate,  \* servercollatefunc
    loaded,   \* the <<dictionary, function>> whose collation file is loaded
    db,       \* MySQLConn: "unused", "up", or "down": init() once failed
    job,      \* the command in hand, or the last one
    replies,  \* the status codes sent for it
    faulty,   \* history: a statement of it failed
    guest     \* what guest-user/dictmask names: configuration, read at start

\* All but guest, which never changes.
vars == <<users, basic, alive, auth, uid, level, mask, collate, loaded, db,
          job, replies, faulty>>

tables == <<users, basic>>
identity == <<auth, uid, level>>
search == <<mask, collate, loaded>>

Codes == {"OK", "DENIED", "NOUSER", "NOTSET", "SYNTAX"}

\* Where a command is: before the statement named, or "done".
Step == {"done", "auth.select", "auth.basic", "register.user", "register.basic",
         "password.select", "password.update", "level.select", "level.update",
         "column.update", "collate.update", "column.select"}

\* A command with the arguments it needs; the rest keep a default.
Blank == [op |-> "none", at |-> "done", name |-> "", pw |-> "", new |-> "",
          mask |-> EmptyMask, func |-> 0, from |-> 0, to |-> 0]

\* The guest's mask is empty unless the configuration says otherwise
\* (conf.cpp:19), and may name no dictionary there is.
Init ==
    /\ guest \in GuestMasks
    /\ users = [i \in Ids |-> NoRow]
    /\ basic = [i \in Ids |-> NoRow]
    /\ alive = {}
    /\ auth = [s \in Sessions |-> ""]
    /\ uid = [s \in Sessions |-> NoUser]
    /\ level = [s \in Sessions |-> 0]
    /\ mask = [s \in Sessions |-> {}]
    /\ collate = [s \in Sessions |-> 0]
    /\ loaded = [s \in Sessions |-> {}]
    /\ db = [s \in Sessions |-> "unused"]
    /\ job = [s \in Sessions |-> Blank]
    /\ replies = [s \in Sessions |-> <<>>]
    /\ faulty = [s \in Sessions |-> FALSE]

-----------------------------------------------------------------------------
(* Processes.                                                              *)

Forget(s) ==
    /\ auth' = [auth EXCEPT ![s] = ""]
    /\ uid' = [uid EXCEPT ![s] = NoUser]
    /\ level' = [level EXCEPT ![s] = 0]
    /\ mask' = [mask EXCEPT ![s] = {}]
    /\ collate' = [collate EXCEPT ![s] = 0]
    /\ loaded' = [loaded EXCEPT ![s] = {}]
    /\ db' = [db EXCEPT ![s] = "unused"]
    /\ job' = [job EXCEPT ![s] = Blank]
    /\ replies' = [replies EXCEPT ![s] = <<>>]
    /\ faulty' = [faulty EXCEPT ![s] = FALSE]

\* The master forks a process, whose state is the one it had at start.
Open(s) ==
    /\ s \notin alive
    /\ alive' = alive \cup {s}
    /\ UNCHANGED <<tables, identity, search, db, job, replies, faulty>>

\* SIGALRM, SIGPIPE or the client's end of file: daemon_terminate().
Terminate(s) ==
    /\ s \in alive
    /\ "signal" \in Faults \/ job[s].at = "done"
    /\ alive' = alive \ {s}
    /\ Forget(s)
    /\ UNCHANGED tables

-----------------------------------------------------------------------------
(* Commands: how they begin, answer and end.                               *)

Ready(s, op) == s \in alive /\ op \in Commands /\ job[s].at = "done"

\* Of a finished command only its kind and its user are remembered.
Finished(cmd) == [Blank EXCEPT !.op = cmd.op, !.name = cmd.name]
Finish(s) == job' = [job EXCEPT ![s] = Finished(@)]

\* The dispatcher starts a command that will execute statements.
Begin(s, cmd) ==
    /\ job' = [job EXCEPT ![s] = cmd]
    /\ replies' = [replies EXCEPT ![s] = <<>>]
    /\ faulty' = [faulty EXCEPT ![s] = FALSE]

\* A command answered at once.
Answer(s, cmd, code) ==
    /\ job' = [job EXCEPT ![s] = Finished(cmd)]
    /\ replies' = [replies EXCEPT ![s] = <<code>>]
    /\ faulty' = [faulty EXCEPT ![s] = FALSE]

Goto(s, step) == job' = [job EXCEPT ![s].at = step]
Say(s, code) == replies' = [replies EXCEPT ![s] = Append(@, code)]
Fault(s, outcome) == faulty' = [faulty EXCEPT ![s] = @ \/ outcome # "ok"]

\* init_database() and then the first statement of cmd, or a refusal.  The
\* static flag of MySQLConn::init is set before the connection is tried, so
\* that later calls report success whatever came of it.
WithDatabase(s, cmd) ==
    \/ /\ db[s] # "unused"
       /\ Begin(s, cmd)
       /\ UNCHANGED db
    \/ /\ db[s] = "unused"
       /\ db' = [db EXCEPT ![s] = "up"]
       /\ Begin(s, cmd)
    \/ /\ db[s] = "unused" /\ "connect" \in Faults
       /\ db' = [db EXCEPT ![s] = "down"]
       /\ Answer(s, cmd, "DENIED")

\* What may become of a statement: "lost" took effect, but the answer of the
\* database did not arrive.
Outcomes(s) ==
    IF db[s] = "up" THEN {"ok"} \cup (Faults \cap {"failed", "lost"}) ELSE {"failed"}

TakesEffect(outcome) == outcome \in {"ok", "lost"}

Reply(s, code) == Finish(s) /\ Say(s, code)

\* The one statement that s is about to execute in step, with its outcome.
Statement(s, step, outcome) ==
    /\ s \in alive /\ job[s].at = step
    /\ Fault(s, outcome)
    /\ UNCHANGED <<alive, db>>

\* The row of a name, as a set: username is a UNIQUE key.
IdsNamed(name) == {i \in Ids : users[i] # NoRow /\ users[i].name = name}

\* Parameters that the command itself rejects, or userlevel from somebody who
\* is not root: no database is needed for that.
RejectParameters(s) ==
    /\ \E op \in {"register", "change_password", "userlevel", "setcollatefunc",
                  "setother"} :
          Ready(s, op) /\ Answer(s, [Blank EXCEPT !.op = op], "DENIED")
    /\ UNCHANGED <<tables, alive, identity, search, db>>

\* Commands of a session whose userID is empty.
RejectUnknownUser(s) ==
    /\ uid[s] = NoUser
    /\ \E op \in {"setdictmask", "setcollatefunc", "setother", "getdictmask", "get",
                  "getuserlevel", "maxdictcount"} :
          /\ Ready(s, op)
          /\ Answer(s, [Blank EXCEPT !.op = op],
                IF op \in {"getdictmask", "maxdictcount"} THEN "NOUSER" ELSE "DENIED")
    /\ UNCHANGED <<tables, alive, identity, search, db>>

-----------------------------------------------------------------------------
(* Search settings.                                                        *)

\* SetDictMask()
SetDictMask(s, dicts) == mask' = [mask EXCEPT ![s] = dicts]

\* Mutant: the files are loaded only when the function changes.
SetServerCollateFuncIfNew(s, dicts, func) ==
    /\ collate' = [collate EXCEPT ![s] = func]
    /\ loaded' = [loaded EXCEPT ![s] =
                    IF func \in {0, collate[s]} THEN @ ELSE @ \cup (dicts \X {func})]

\* SetServerCollateFunc(): the files are those of the mask as it is then.
SetServerCollateFunc(s, dicts, func) ==
    /\ collate' = [collate EXCEPT ![s] = func]
    /\ loaded' = [loaded EXCEPT ![s] =
                    IF func = 0 THEN @ ELSE @ \cup (dicts \X {func})]

MayCollate(l) == l > 0 \/ EnableCollate0

\* Mutant: an account without preferences keeps the search as it is.
ClearNothing(s) == UNCHANGED search

\* An account without preferences searches nothing.
ClearSearch(s) == SetDictMask(s, {}) /\ SetServerCollateFunc(s, {}, 0)

-----------------------------------------------------------------------------
(* auth.                                                                   *)

\* auth guest changes nothing.
AuthGuest(s) ==
    /\ Ready(s, "auth")
    /\ Answer(s, [Blank EXCEPT !.op = "auth", !.name = "guest"], "OK")
    /\ UNCHANGED <<tables, alive, identity, search, db>>

\* root is checked against the configuration, and searches no dictionary.
AuthRoot(s) ==
    /\ Ready(s, "auth")
    /\ LET cmd == [Blank EXCEPT !.op = "auth", !.name = "root"] IN
       \/ /\ RootEnabled
          /\ Answer(s, cmd, "OK")
          /\ auth' = [auth EXCEPT ![s] = "root"]
          /\ SetDictMask(s, {})
       \/ /\ Answer(s, cmd, "DENIED")
          /\ UNCHANGED <<auth, mask>>
    /\ UNCHANGED <<tables, alive, uid, level, collate, loaded, db>>

AuthUser(s) ==
    /\ Ready(s, "auth")
    /\ \E n \in Names, p \in Passwords :
          WithDatabase(s, [Blank EXCEPT !.op = "auth", !.at = "auth.select",
                                        !.name = n, !.pw = p])
    /\ UNCHANGED <<tables, alive, identity, search>>

\* The row is read, userID and userLevel taken from it, and only then the key
\* compared.  The OK goes out before the preferences are read.
AuthSelect(s) ==
    \E outcome \in Outcomes(s) :
        /\ Statement(s, "auth.select", outcome)
        /\ \/ /\ outcome # "ok" \/ IdsNamed(job[s].name) = {}
              /\ Reply(s, "DENIED")
              /\ UNCHANGED identity
           \/ /\ outcome = "ok"
              /\ \E i \in IdsNamed(job[s].name) :
                    /\ uid' = [uid EXCEPT ![s] = i]
                    /\ level' = [level EXCEPT ![s] = users[i].level]
                    /\ \/ /\ users[i].pw # job[s].pw
                          /\ Reply(s, "DENIED")
                          /\ UNCHANGED auth
                       \/ /\ users[i].pw = job[s].pw
                          /\ Goto(s, "auth.basic") /\ Say(s, "OK")
                          /\ auth' = [auth EXCEPT ![s] = job[s].name]
        /\ UNCHANGED <<tables, search>>

\* The preferences, if there is a row of them.
AuthBasic(s) ==
    \E outcome \in Outcomes(s) :
        /\ Statement(s, "auth.basic", outcome)
        /\ \/ /\ outcome # "ok"
              /\ Reply(s, "DENIED")
              /\ UNCHANGED search
           \/ /\ outcome = "ok" /\ basic[uid[s]] = NoRow
              /\ Finish(s)
              /\ ClearSearch(s)
              /\ UNCHANGED replies
           \/ /\ outcome = "ok" /\ basic[uid[s]] # NoRow
              /\ Finish(s)
              /\ LET row == basic[uid[s]]
                     dicts == Resolve[row.dictmask][level[s]]
                 IN /\ SetDictMask(s, dicts)
                    /\ SetServerCollateFunc(s, dicts,
                           IF MayCollate(level[s]) THEN row.collatefunc ELSE 0)
              /\ UNCHANGED replies
        /\ UNCHANGED <<tables, identity>>

-----------------------------------------------------------------------------
(* register.                                                               *)

Register(s) ==
    /\ Ready(s, "register")
    /\ \E n \in Names, p \in Passwords :
          WithDatabase(s, [Blank EXCEPT !.op = "register", !.at = "register.user",
                                        !.name = n, !.pw = p])
    /\ UNCHANGED <<tables, alive, identity, search>>

\* AUTO_INCREMENT; no row is ever deleted.  An INSERT fails when it is used up.
NextIds == {i \in Ids : users[i] = NoRow /\ \A j \in 1 .. (i - 1) : users[j] # NoRow}

\* INSERT INTO stardict_users, and lastInsertID().
RegisterUser(s) ==
    \E outcome \in Outcomes(s) :
        /\ Statement(s, "register.user", outcome)
        /\ \/ /\ \/ outcome = "failed"
                 \/ IdsNamed(job[s].name) # {} \/ NextIds = {}
              /\ Reply(s, "DENIED")
              /\ UNCHANGED <<users, uid>>
           \/ /\ TakesEffect(outcome) /\ IdsNamed(job[s].name) = {}
              /\ \E i \in NextIds :
                    /\ users' = [users EXCEPT ![i] =
                           [name |-> job[s].name, pw |-> job[s].pw, level |-> 0]]
                    /\ \/ /\ outcome = "ok"
                          /\ uid' = [uid EXCEPT ![s] = i]
                          /\ Goto(s, "register.basic")
                          /\ UNCHANGED replies
                       \/ /\ outcome # "ok"
                          /\ Reply(s, "DENIED")
                          /\ UNCHANGED uid
        /\ UNCHANGED <<basic, auth, level, search>>

\* Mutant: the id is the greatest one in the table, not lastInsertID().
RegisterBasicMaxId(s) ==
    \E outcome \in Outcomes(s), i \in Ids :
        /\ Statement(s, "register.basic", outcome)
        /\ users[i] # NoRow /\ \A j \in Ids : users[j] # NoRow => j <= i
        /\ basic' = IF TakesEffect(outcome) /\ basic[i] = NoRow
                    THEN [basic EXCEPT ![i] = [dictmask |-> EmptyMask, collatefunc |-> 0]]
                    ELSE basic
        /\ Reply(s, "OK")
        /\ UNCHANGED <<users, identity, search>>

\* Mutant: the failure is reported, and then success as well.
RegisterBasicFallsThrough(s) ==
    /\ job[s].at = "register.basic" /\ "failed" \in Outcomes(s)
    /\ Statement(s, "register.basic", "failed")
    /\ Finish(s)
    /\ replies' = [replies EXCEPT ![s] = @ \o <<"DENIED", "OK">>]
    /\ UNCHANGED <<users, basic, identity, search>>

\* INSERT INTO user_basic.  A failure is logged, and the answer OK all the same.
RegisterBasic(s) ==
    \E outcome \in Outcomes(s) :
        /\ Statement(s, "register.basic", outcome)
        /\ basic' = IF TakesEffect(outcome) /\ basic[uid[s]] = NoRow
                    THEN [basic EXCEPT ![uid[s]] =
                             [dictmask |-> EmptyMask, collatefunc |-> 0]]
                    ELSE basic
        /\ Reply(s, "OK")
        /\ UNCHANGED <<users, identity, search>>

-----------------------------------------------------------------------------
(* change_password.                                                        *)

\* root need not know the old password.
ChangePassword(s) ==
    /\ Ready(s, "change_password")
    /\ \E n \in Names, old \in Passwords, new \in Passwords :
          WithDatabase(s, [Blank EXCEPT
              !.op = "change_password", !.name = n, !.pw = old, !.new = new,
              !.at = IF auth[s] = "root" THEN "password.update"
                                         ELSE "password.select"])
    /\ UNCHANGED <<tables, alive, identity, search>>

PasswordSelect(s) ==
    \E outcome \in Outcomes(s) :
        /\ Statement(s, "password.select", outcome)
        /\ \/ /\ outcome = "ok"
              /\ \E i \in IdsNamed(job[s].name) : users[i].pw = job[s].pw
              /\ Goto(s, "password.update")
              /\ UNCHANGED replies
           \/ /\ \/ outcome # "ok"
                 \/ \A i \in IdsNamed(job[s].name) : users[i].pw # job[s].pw
              /\ Reply(s, "DENIED")
        /\ UNCHANGED <<tables, identity, search>>

\* An UPDATE that matches no row is no error.
PasswordUpdate(s) ==
    \E outcome \in Outcomes(s) :
        /\ Statement(s, "password.update", outcome)
        /\ users' = [i \in Ids |->
               IF TakesEffect(outcome) /\ i \in IdsNamed(job[s].name)
               THEN [users[i] EXCEPT !.pw = job[s].new] ELSE users[i]]
        /\ Reply(s, IF outcome = "ok" THEN "OK" ELSE "DENIED")
        /\ UNCHANGED <<basic, identity, search>>

-----------------------------------------------------------------------------
(* userlevel.                                                              *)

UserLevel(s) ==
    /\ Ready(s, "userlevel") /\ auth[s] = "root"
    /\ \E n \in Names, from \in Levels : \E to \in Levels \ {from} :
          WithDatabase(s, [Blank EXCEPT !.op = "userlevel", !.at = "level.select",
                               !.name = n, !.from = from, !.to = to])
    /\ UNCHANGED <<tables, alive, identity, search>>

\* Mutant: the statement is tried again until the database answers.
LevelSelectRetries(s) ==
    \E outcome \in Outcomes(s) :
        /\ Statement(s, "level.select", outcome)
        /\ \/ outcome # "ok" /\ UNCHANGED <<job, replies>>
           \/ outcome = "ok" /\ Reply(s, "DENIED")
        /\ UNCHANGED <<tables, identity, search>>

LevelSelect(s) ==
    \E outcome \in Outcomes(s) :
        /\ Statement(s, "level.select", outcome)
        /\ \/ /\ outcome = "ok"
              /\ \E i \in IdsNamed(job[s].name) : users[i].level = job[s].from
              /\ Goto(s, "level.update")
              /\ UNCHANGED replies
           \/ /\ \/ outcome # "ok"
                 \/ \A i \in IdsNamed(job[s].name) : users[i].level # job[s].from
              /\ Reply(s, "DENIED")
        /\ UNCHANGED <<tables, identity, search>>

LevelUpdate(s) ==
    \E outcome \in Outcomes(s) :
        /\ Statement(s, "level.update", outcome)
        /\ users' = [i \in Ids |->
               IF TakesEffect(outcome) /\ i \in IdsNamed(job[s].name)
               THEN [users[i] EXCEPT !.level = job[s].to] ELSE users[i]]
        /\ Reply(s, IF outcome = "ok" THEN "OK" ELSE "DENIED")
        /\ UNCHANGED <<basic, identity, search>>

-----------------------------------------------------------------------------
(* The preferences of the user whose id is userID.                         *)

\* Mutant: no check that there is a userID.
SetDictMaskOfNobody(s) ==
    /\ Ready(s, "setdictmask")
    /\ \E m \in Masks :
          WithDatabase(s, [Blank EXCEPT !.op = "setdictmask", !.at = "column.update",
                                        !.mask = m])
    /\ UNCHANGED <<tables, alive, identity, search>>

SetDictMaskColumn(s) ==
    /\ Ready(s, "setdictmask") /\ uid[s] # NoUser
    /\ \E m \in Masks :
          WithDatabase(s, [Blank EXCEPT !.op = "setdictmask", !.at = "column.update",
                                        !.mask = m])
    /\ UNCHANGED <<tables, alive, identity, search>>

SetCollateFunc(s) ==
    /\ Ready(s, "setcollatefunc") /\ uid[s] # NoUser /\ MayCollate(level[s])
    /\ \E f \in CollateFuncs \cup {0} :
          WithDatabase(s, [Blank EXCEPT !.op = "setcollatefunc",
                               !.at = "collate.update", !.func = f])
    /\ UNCHANGED <<tables, alive, identity, search>>

\* setlanguage and setemail
SetOther(s) ==
    /\ Ready(s, "setother") /\ uid[s] # NoUser
    /\ WithDatabase(s, [Blank EXCEPT !.op = "setother", !.at = "column.update"])
    /\ UNCHANGED <<tables, alive, identity, search>>

\* An UPDATE of a row that is not there is no error.
ColumnUpdate(s) ==
    \E outcome \in Outcomes(s) :
        /\ Statement(s, "column.update", outcome)
        /\ basic' = IF /\ TakesEffect(outcome) /\ basic[uid[s]] # NoRow
                       /\ job[s].op = "setdictmask"
                    THEN [basic EXCEPT ![uid[s]].dictmask = job[s].mask]
                    ELSE basic
        /\ Reply(s, IF outcome = "ok" THEN "OK" ELSE "DENIED")
        /\ UNCHANGED <<users, identity, search>>

\* The collation of the session follows the one stored, at once.
CollateUpdate(s) ==
    \E outcome \in Outcomes(s) :
        /\ Statement(s, "collate.update", outcome)
        /\ basic' = IF TakesEffect(outcome) /\ basic[uid[s]] # NoRow
                    THEN [basic EXCEPT ![uid[s]].collatefunc = job[s].func]
                    ELSE basic
        /\ \/ /\ outcome = "ok"
              /\ SetServerCollateFunc(s, mask[s], job[s].func)
              /\ Reply(s, "OK")
           \/ /\ outcome # "ok"
              /\ Reply(s, "DENIED")
              /\ UNCHANGED <<collate, loaded>>
        /\ UNCHANGED <<users, identity, mask>>

GetColumn(s) ==
    /\ uid[s] # NoUser
    /\ \E op \in {"getdictmask", "get"} :
          /\ Ready(s, op)
          /\ WithDatabase(s, [Blank EXCEPT !.op = op, !.at = "column.select"])
    /\ UNCHANGED <<tables, alive, identity, search>>

ColumnSelect(s) ==
    \E outcome \in Outcomes(s) :
        /\ Statement(s, "column.select", outcome)
        /\ Reply(s, IF outcome = "ok" /\ basic[uid[s]] # NoRow THEN "OK" ELSE "DENIED")
        /\ UNCHANGED <<tables, identity, search>>

-----------------------------------------------------------------------------
(* Commands without the database.                                          *)

\* getuserlevel and maxdictcount, for a known user.
GetLevel(s) ==
    /\ uid[s] # NoUser
    /\ \E op \in {"getuserlevel", "maxdictcount"} :
          Ready(s, op) /\ Answer(s, [Blank EXCEPT !.op = op], "OK")
    /\ UNCHANGED <<tables, alive, identity, search, db>>

Info(s) ==
    /\ Ready(s, "info")
    /\ \E code \in {"OK", "DENIED", "SYNTAX"} :
          Answer(s, [Blank EXCEPT !.op = "info"], code)
    /\ UNCHANGED <<tables, alive, identity, search, db>>

LookupinTmpdictmask(s) ==
    /\ Ready(s, "tmpdictmask")
    /\ Answer(s, [Blank EXCEPT !.op = "tmpdictmask"], "OK")
    /\ auth' = [auth EXCEPT ![s] = "guest"]
    /\ \E m \in Masks :
          /\ SetDictMask(s, Resolve[m][0])
          /\ SetServerCollateFunc(s, Resolve[m][0], 0)
    /\ UNCHANGED <<tables, alive, uid, level, db>>

\* check_dictmask(): who never said who he is becomes a guest.
BecomeGuest(s) ==
    /\ auth[s] = ""
    /\ auth' = [auth EXCEPT ![s] = "guest"]
    /\ SetDictMask(s, guest)
    /\ SetServerCollateFunc(s, guest, 0)

\* Mutant: only users who logged in are asked for their dictionaries.
UnsetByUser(s) == auth[s] \in Names /\ mask[s] = {}

Unset(s) == auth[s] # "" /\ mask[s] = {}

Query(s) ==
    /\ \E op \in {"query", "list"} :
          /\ Ready(s, op)
          /\ Answer(s, [Blank EXCEPT !.op = op], IF Unset(s) THEN "NOTSET" ELSE "OK")
    /\ \/ BecomeGuest(s)
       \/ auth[s] # "" /\ UNCHANGED <<auth, search>>
    /\ UNCHANGED <<tables, alive, uid, level, db>>

-----------------------------------------------------------------------------
Dispatch(s) ==
    \/ RejectParameters(s) \/ RejectUnknownUser(s)
    \/ AuthGuest(s) \/ AuthRoot(s) \/ AuthUser(s)
    \/ Register(s) \/ ChangePassword(s) \/ UserLevel(s)
    \/ SetDictMaskColumn(s) \/ SetCollateFunc(s) \/ SetOther(s) \/ GetColumn(s)
    \/ GetLevel(s) \/ Info(s) \/ LookupinTmpdictmask(s) \/ Query(s)

Execute(s) ==
    \/ AuthSelect(s) \/ AuthBasic(s)
    \/ RegisterUser(s) \/ RegisterBasic(s)
    \/ PasswordSelect(s) \/ PasswordUpdate(s)
    \/ LevelSelect(s) \/ LevelUpdate(s)
    \/ ColumnUpdate(s) \/ CollateUpdate(s) \/ ColumnSelect(s)

Next ==
    /\ \E s \in Sessions : Open(s) \/ Terminate(s) \/ Dispatch(s) \/ Execute(s)
    /\ UNCHANGED guest

\* A process that has a statement to execute executes it.
Spec == Init /\ [][Next]_<<vars, guest>> /\ \A s \in Sessions : WF_vars(Execute(s))

-----------------------------------------------------------------------------
(* Properties.                                                             *)

Job == [op : AllCommands \cup {"none"}, at : Step,
        name : Names \cup {"root", "guest", ""},
        pw : Passwords \cup {""}, new : Passwords \cup {""}, mask : Masks,
        func : CollateFuncs \cup {0}, from : Levels, to : Levels]

\* What a statement needs of the command that executes it.
HasWhatItNeeds(s) ==
    /\ job[s].at \in {"auth.basic", "register.basic", "column.update",
                     "collate.update", "column.select"} => uid[s] # NoUser
    /\ job[s].at \in {"auth.select", "auth.basic", "register.user"} =>
           job[s].name \in Names /\ job[s].pw \in Passwords
    /\ job[s].at \in {"password.select", "password.update"} => job[s].new \in Passwords

TablesOK ==
    /\ users \in [Ids -> Row \cup {NoRow}]
    /\ basic \in [Ids -> Basic \cup {NoRow}]

IdentityOK ==
    /\ auth \in [Sessions -> Names \cup {"root", "guest", ""}]
    /\ uid \in [Sessions -> Ids \cup {NoUser}]
    /\ level \in [Sessions -> Levels]

SearchOK ==
    /\ mask \in [Sessions -> SUBSET Dicts]
    /\ collate \in [Sessions -> CollateFuncs \cup {0}]
    /\ loaded \in [Sessions -> SUBSET (Dicts \X CollateFuncs)]

JobsOK ==
    /\ alive \subseteq Sessions
    /\ db \in [Sessions -> {"unused", "up", "down"}]
    /\ job \in [Sessions -> Job]
    /\ replies \in [Sessions -> Seq(Codes)]
    /\ faulty \in [Sessions -> BOOLEAN]

\* The types of the variables.  It is more than their sets: a statement that
\* needs a user id or a password finds one in the session that executes it.
DataOK ==
    /\ TablesOK /\ IdentityOK /\ SearchOK /\ JobsOK
    /\ \A s \in Sessions : HasWhatItNeeds(s)
TypeOK == DataOK /\ guest \in GuestMasks

\* Searching with a collation function, a session has the collation file of
\* every dictionary it searches loaded already: mask and function are set by
\* different commands in any order (SetDictMask, SetServerCollateFunc), and what
\* they leave out has to be sorted in the middle of a query (collate_load).
FilesLoaded(s) == collate[s] # 0 => mask[s] \X {collate[s]} \subseteq loaded[s]
CollateFilesLoaded == \A s \in Sessions : FilesLoaded(s)

Done(s, op) == s \in alive /\ job[s].at = "done" /\ job[s].op = op

\* A registration during which no statement failed leaves the account with its
\* preferences, and the session with its id, also when others register at the
\* same time (daemon_register takes the id from lastInsertID).
Registered(s) ==
    Done(s, "register") /\ replies[s] = <<"OK">> /\ ~faulty[s] =>
        /\ uid[s] # NoUser /\ users[uid[s]].name = job[s].name
        /\ basic[uid[s]] # NoRow
RegistrationComplete == \A s \in Sessions : Registered(s)

\* A finished command has been answered, and answered once: a second status
\* line would be taken for the answer to the next command.  The exception is
\* auth, whose OK precedes the SELECT of the preferences, when that fails.
Answered(s) ==
    s \in alive /\ job[s].at = "done" /\ job[s].op # "none" =>
        \/ Len(replies[s]) = 1
        \/ Len(replies[s]) = 2 /\ job[s].op = "auth" /\ faulty[s]
AnsweredOnce == \A s \in Sessions : Answered(s)

\* After a login that went well the session searches only dictionaries that the
\* level of its user gives it, and collates only if that level may: nothing of
\* an earlier login, guest search or tmpdictmask of the connection is left.
RightsSet(s) ==
    Done(s, "auth") /\ job[s].name \in Names /\ replies[s] = <<"OK">> =>
        /\ auth[s] = job[s].name
        /\ uid[s] # NoUser /\ users[uid[s]].name = auth[s]
        /\ \A d \in mask[s] : DictLevel[d] <= level[s]
        /\ collate[s] # 0 => level[s] > 0 \/ EnableCollate0
LoginSetsRights == \A s \in Sessions : RightsSet(s)

\* The answer OK to a query promises a search: the paths to an empty mask (root,
\* no row, preferences never set, a level or a tmpdictmask that leaves nothing)
\* all end in 522.  check_dictmask() makes one exception, which this says is the
\* only one: the first query of a connection that has not said who it is, when
\* the configuration gives guests no dictionary; its next one is told 522 too.
AnsweredNow(s) ==
    /\ job'[s] # job[s]
    /\ s \in alive' /\ job'[s].at = "done" /\ job'[s].op \in {"query", "list"}
    /\ replies'[s] = <<"OK">>
QueriesHaveDictionaries ==
    [][\A s \in Sessions :
          AnsweredNow(s) => mask'[s] # {} \/ (auth[s] = "" /\ guest = {})]_vars

\* The state of a session in the middle of a command.
InHand(s) ==
    /\ s \notin alive => job[s] = Blank
    /\ uid[s] # NoUser => users[uid[s]] # NoRow
    /\ job[s].at \in {"auth.select", "auth.basic"} => job[s].op = "auth"
    /\ job[s].at \in {"register.user", "register.basic"} => job[s].op = "register"
    /\ job[s].at \in Step \ {"done", "auth.select", "auth.basic",
                             "register.user", "register.basic"} =>
           job[s].op \notin {"auth", "register", "query", "list"}
    /\ job[s].at \notin {"done", "auth.basic"} => replies[s] = <<>>
    /\ job[s].at = "auth.basic" =>
           /\ replies[s] = <<"OK">>
           /\ auth[s] = job[s].name /\ users[uid[s]].name = auth[s]
    /\ job[s].at = "register.basic" =>
           users[uid[s]].name = job[s].name /\ basic[uid[s]] = NoRow

\* Preferences belong to accounts, and an account is completed by one session.
RowsPaired ==
    /\ \A i \in Ids : basic[i] # NoRow => users[i] # NoRow
    /\ \A s, t \in Sessions :
          job[s].at = "register.basic" /\ job[t].at = "register.basic"
              /\ uid[s] = uid[t] => s = t

SessionOK(s) ==
    InHand(s) /\ FilesLoaded(s) /\ Registered(s) /\ Answered(s) /\ RightsSet(s)

\* The inductive invariant.
IInv ==
    guest \in GuestMasks /\ DataOK /\ RowsPaired /\ \A s \in Sessions : SessionOK(s)

\* Every command that has begun ends, however its statements fare.
EveryCommandEnds == \A s \in Sessions : job[s].at # "done" ~> job[s].at = "done"

=============================================================================
