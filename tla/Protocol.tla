------------------------------ MODULE Protocol ------------------------------
(***************************************************************************)
(* One run of stardict-client: the list of commands it builds from its     *)
(* arguments, the session of stardictd that answers them, and the stream   *)
(* of lines, strings and blocks of data between the two.                   *)
(*                                                                         *)
(* Nothing in the stream says where a reply ends or what the next field    *)
(* is.  A status line decides whether anything follows; lists end with an  *)
(* empty string and the articles of a word with a block of size zero.  The *)
(* writers (stardictdmain.cpp) and the readers (command.cpp) must agree on *)
(* all of it, or what is left of one reply is read as the next.            *)
(*                                                                         *)
(* Words, names of dictionaries and articles are members of small sets     *)
(* that do not hold the empty string: the loaders refuse an .ifo file      *)
(* without bookname, and an empty word or article would be a malformed     *)
(* dictionary.                                                             *)
(***************************************************************************)
EXTENDS Integers, Sequences, SequencesExt

CONSTANTS
    Scripts,     \* the commands users give, as sequences of operations
    Books,       \* the dictionaries of the mask, a sequence of names
    Queries,     \* words that are looked up, as replies begin with them
    Words,       \* words that may be found or listed
    Articles,    \* articles of words
    Entries,     \* what a dictionary may have for a word: words with articles
    WordSeqs,    \* the lists of words that a list or a search may find
    AccountLevel,\* the level of the user who logs in
    FaultSets    \* "signal": the session may die; "database": statements fail

StatusOps == {"client", "auth", "auth_guest", "register", "change_password",
              "tmpdictmask", "setdictmask", "setcollatefunc", "setlanguage", "setemail",
              "userlevel"}
StringOps == {"getdictmask", "dictslist", "getcollatefunc", "getlanguage",
              "getemail", "getuserlevel", "maxdictcount", "dirinfo", "fromto",
              "dictinfo"}
ResultOps == {"query", "selectquery", "define"}
ListOps == {"previous", "next"}
QueryOps == ResultOps \cup ListOps \cup {"lookup"}
Ops == StatusOps \cup StringOps \cup QueryOps \cup {"quit"}

\* What ends a list in a reply; the size zero of a block of data is its like.
Empty == ""

\* A word with one article or more (homographs).
Entry == [word : Words, articles : Seq(Articles) \ {<<>>}]

ASSUME ProtocolAssumption ==
    /\ Scripts \subseteq Seq(Ops \ {"client", "quit"})
    /\ Empty \notin Words /\ Empty \notin Articles
    /\ Entries \subseteq Seq(Entry) /\ WordSeqs \subseteq Seq(Words)
    /\ Books \in Seq({Books[i] : i \in DOMAIN Books})
    /\ \A i \in DOMAIN Books : Books[i] # Empty
    /\ AccountLevel \in Nat
    /\ FaultSets \subseteq SUBSET {"signal", "database"}

VARIABLES
    commands, \* cmd_list of the client
    current,  \* the command in hand
    pc,       \* the client: what it is about to send or to read
    shown,    \* what it has printed for the command in hand
    wire,     \* sent by the session and not yet read
    request,  \* the session has a line to read
    open,     \* the session holds its end of the connection
    who,      \* auth_user: nobody yet, "guest" or the "user"
    level,    \* UserLevel
    found,    \* history: what the session had to say in its last reply
    answered, \* history: for every command served, as whom
    result,   \* history: how the client ended, or "running"
    faults    \* what may go wrong in this run

vars == <<commands, current, pc, shown, wire, request, open, who, level, found,
          answered, result, faults>>
server == <<open, who, level, found, answered, faults>>

-----------------------------------------------------------------------------
(* What the session writes.                                                *)

Line(code) == <<[kind |-> "line", v |-> code]>>
Str(s) == <<[kind |-> "str", v |-> s]>>
Data(a) == <<[kind |-> "data", v |-> a]>>
NoData == Data(Empty)

Concat(F(_), s) == FlattenSeq([i \in DOMAIN s |-> F(s[i])])

ShowEntryFirst(e) == Str(e.word) \o Data(e.articles[1]) \o NoData
ShowEntry(e) == Str(e.word) \o Concat(Data, e.articles) \o NoData
ShowBook(b) == Str(b.name) \o Concat(ShowEntry, b.entries) \o Str(Empty)

\* A block of its own for users of level 0, like a dictionary with one word.
Ad == [name |-> "Links", entries |-> <<[word |-> "ad", articles |-> <<"ad">>]>>]
Ads(l) == IF l = 0 THEN <<Ad>> ELSE <<>>

\* The dictionaries that have something, in the order of the mask.
Having(entries) ==
    FlattenSeq([i \in DOMAIN Books |->
        IF entries[i] = <<>> THEN <<>>
        ELSE <<[name |-> Books[i], entries |-> entries[i]]>>])

ShowDataUnended(oword, books) == Str(oword) \o Concat(ShowBook, books)
ShowData(oword, books) == Str(oword) \o Concat(ShowBook, books) \o Str(Empty)
ShowNotFound(oword) == Str(oword) \o Str(Empty)

\* SimpleLookupToTextWin, SimpleLookup and SimpleLookupToFloat: one result,
\* whether something is found or not; ads only come with something.
Shown(entries) ==
    LET books == Having(entries)
    IN IF books = <<>> THEN <<>> ELSE books \o Ads(level)
DictResult(oword, books) ==
    IF books = <<>> THEN ShowNotFound(oword) ELSE ShowData(oword, books)

WordList(ws) == Concat(Str, ws) \o Str(Empty)
ShowDataBook(b) == Str(b.name) \o WordList(b.words)
DataList(books) == Concat(ShowDataBook, books) \o Str(Empty)

\* The dictionaries that have words with what is searched in their articles.
HavingWords(hits) ==
    FlattenSeq([i \in DOMAIN Books |->
        IF hits[i] = <<>> THEN <<>> ELSE <<[name |-> Books[i], words |-> hits[i]]>>])

\* What lookup adds: the words of a list ("l"), of a pattern ("r"), a regular
\* expression ("g") or a fuzzy search ("f"), or those of a search in the
\* articles, dictionary by dictionary ("d").  A search that finds no word shows
\* NotFound and an empty list.
Searches(books) ==
    {s \in {[tag |-> t, list |-> ws] : t \in {"l", "r", "g", "f"}, ws \in WordSeqs}
           \cup {[tag |-> "d", list |-> HavingWords(hits)] :
                    hits \in [DOMAIN Books -> WordSeqs]} :
        s.list = <<>> /\ s.tag # "l" => books = <<>>}

ShowList(s) ==
    Str(s.tag) \o (IF s.tag = "d" THEN DataList(s.list) ELSE WordList(s.list))

Nothing == [oword |-> Empty, books |-> <<>>, search |-> [tag |-> Empty, list |-> <<>>]]

-----------------------------------------------------------------------------
(* The session.                                                            *)

Refusals(op) ==
    IF op \in QueryOps THEN {"NOTSET"}
    ELSE IF op \in {"getdictmask", "maxdictcount"} THEN {"DENIED", "NOUSER"}
    ELSE IF op \in {"client", "auth_guest", "tmpdictmask", "fromto", "dictslist"} THEN {}
    ELSE {"DENIED"}

\* A query of a session that has not authenticated makes it the guest's, and is
\* answered OK whatever the guest's mask holds; later ones can be refused.
Asker(op) == IF op \in QueryOps /\ who = "nobody" THEN "guest" ELSE who
Answered(op) == answered' = Append(answered, [op |-> op, by |-> Asker(op)])

Command == commands[current]

Refuse(op) ==
    \E code \in Refusals(op) :
        /\ op \in QueryOps => who # "nobody"
        /\ wire' = wire \o Line(code)
        /\ found' = Nothing
        /\ Answered(op)
        /\ level' \in {level} \cup (IF op = "auth" THEN {AccountLevel} ELSE {})
        /\ UNCHANGED <<open, who>>

\* auth answers before it reads the preferences, and again if that fails.
Authenticate(op) ==
    /\ op = "auth"
    /\ who' = "user" /\ level' = AccountLevel
    /\ \/ wire' = wire \o Line("OK")
       \/ "database" \in faults /\ wire' = wire \o Line("OK") \o Line("DENIED")
    /\ found' = Nothing
    /\ Answered(op)
    /\ UNCHANGED open

DoStatusSilent(op) ==
    /\ op \in StatusOps \ {"auth"}
    /\ wire' = IF op = "setcollatefunc" THEN wire ELSE wire \o Line("OK")
    /\ who' = IF op = "tmpdictmask" THEN "guest" ELSE who
    /\ found' = Nothing
    /\ Answered(op)
    /\ UNCHANGED <<open, level>>
DoStatus(op) ==
    /\ op \in StatusOps \ {"auth"}
    /\ wire' = wire \o Line("OK")
    /\ who' = IF op = "tmpdictmask" THEN "guest" ELSE who
    /\ found' = Nothing
    /\ Answered(op)
    /\ UNCHANGED <<open, level>>

DoString(op) ==
    /\ op \in StringOps
    /\ wire' = wire \o Line("OK") \o Str("value")
    /\ found' = Nothing
    /\ Answered(op)
    /\ UNCHANGED <<open, who, level>>

DoQuery(op) ==
    \E entries \in [DOMAIN Books -> Entries], oword \in Queries :
        LET books == Shown(entries)
        IN /\ op \in ResultOps
           /\ wire' = wire \o Line("OK") \o DictResult(oword, books)
           /\ found' = [Nothing EXCEPT !.oword = oword, !.books = books]
           /\ who' = Asker(op)
           /\ Answered(op)
           /\ UNCHANGED <<open, level>>

DoLookup(op) ==
    \E entries \in [DOMAIN Books -> Entries], oword \in Queries :
        LET books == Shown(entries)
        IN /\ op = "lookup"
           /\ \E s \in Searches(books) :
                /\ wire' = wire \o Line("OK") \o DictResult(oword, books) \o ShowList(s)
                /\ found' = [oword |-> oword, books |-> books, search |-> s]
           /\ who' = Asker(op)
           /\ Answered(op)
           /\ UNCHANGED <<open, level>>

DoList(op) ==
    \E ws \in WordSeqs :
        /\ op \in ListOps
        /\ wire' = wire \o Line("OK") \o WordList(ws)
        /\ found' = [Nothing EXCEPT !.search = [tag |-> "l", list |-> ws]]
        /\ who' = Asker(op)
        /\ Answered(op)
        /\ UNCHANGED <<open, level>>

\* The word is empty: SimpleLookupToFloat does not enter its loop and
\* FreeResultData walks tables that were allocated and never filled, which
\* finds nothing or crashes.
SelectNothing(op) ==
    /\ op = "selectquery"
    /\ wire' = wire \o Line("OK")
    /\ open' = FALSE
    /\ found' = Nothing
    /\ who' = Asker(op)
    /\ Answered(op)
    /\ UNCHANGED level

Quit(op) ==
    /\ op = "quit"
    /\ wire' = wire \o Line("GOODBYE")
    /\ open' = FALSE
    /\ found' = Nothing
    /\ Answered(op)
    /\ UNCHANGED <<who, level>>

Serve ==
    /\ open /\ request
    /\ request' = FALSE
    /\ \/ Refuse(Command) \/ Authenticate(Command) \/ DoStatus(Command)
       \/ DoString(Command) \/ DoQuery(Command) \/ DoLookup(Command)
       \/ DoList(Command) \/ SelectNothing(Command) \/ Quit(Command)
    /\ UNCHANGED <<commands, current, pc, shown, result, faults>>

\* The session ends by SIGALRM or another signal, or because its input ended:
\* what it had not written is never sent.
Cut ==
    /\ open
    /\ "signal" \in faults \/ pc = "ended"
    /\ \E n \in 0 .. Len(wire) : wire' = SubSeq(wire, 1, n)
    /\ open' = FALSE
    /\ UNCHANGED <<commands, current, pc, shown, request, who, level, found,
                   answered, result, faults>>

-----------------------------------------------------------------------------
(* The client.                                                             *)

Start(script) == <<"client">> \o script \o <<"quit">>

Init ==
    /\ commands \in {Start(script) : script \in Scripts}
    /\ current = 0 /\ pc = "banner" /\ shown = <<>>
    /\ request = FALSE
    /\ \/ wire = Line("HELLO") /\ open = TRUE
       \/ wire \in {Line("UNAVAILABLE"), <<>>} /\ open = FALSE
    /\ who = "nobody" /\ level = 0
    /\ found = Nothing /\ answered = <<>>
    /\ result = "running" /\ faults \in FaultSets

Goto(label) == pc' = label /\ UNCHANGED <<current, request, result>>
End(how) == pc' = "ended" /\ result' = how /\ UNCHANGED <<current, request>>

\* Read f goes on as Then says for the next field if that is of kind k, and
\* ends the client when the stream ends.  A field of another kind would be
\* read as bytes of this one.
Read(label, k, Then(_)) ==
    /\ pc = label
    /\ \/ /\ wire # <<>> /\ Head(wire).kind = k
          /\ wire' = Tail(wire)
          /\ Then(Head(wire).v)
       \/ /\ wire # <<>> /\ Head(wire).kind # k
          /\ wire' = <<>> /\ End("confused") /\ UNCHANGED shown
       \/ /\ wire = <<>> /\ ~open
          /\ End("cutoff") /\ UNCHANGED <<wire, shown>>
    /\ UNCHANGED <<commands, server>>

Banner ==
    Read("banner", "line", LAMBDA code :
        /\ IF code = "HELLO"
           THEN pc' = "request" /\ current' = 1 /\ UNCHANGED <<request, result>>
           ELSE End("unserved")
        /\ UNCHANGED shown)

\* A request that cannot be sent ends the client, and so does a reply that
\* says no: the commands after it are not sent, not even quit.
Request ==
    /\ pc = "request"
    /\ \/ /\ pc' = "status" /\ shown' = <<>> /\ request' = TRUE
          /\ UNCHANGED <<current, result>>
       \/ ~open /\ End("cutoff") /\ UNCHANGED shown
    /\ UNCHANGED <<commands, wire, server>>

Expected(op) == IF op = "quit" THEN "GOODBYE" ELSE "OK"

AfterStatus(op) ==
    IF op \in StringOps THEN "string"
    ELSE IF op \in ResultOps \cup {"lookup"} THEN "oword"
    ELSE IF op \in ListOps THEN "list"
    ELSE "done"

StatusHeedless ==
    Read("status", "line", LAMBDA code :
        Goto(IF code \in {"OK", "GOODBYE"} THEN AfterStatus(Command) ELSE "done")
        /\ UNCHANGED shown)
Status ==
    Read("status", "line", LAMBDA code :
        /\ IF code = Expected(Command) THEN Goto(AfterStatus(Command)) ELSE End("refused")
        /\ UNCHANGED shown)

ReadString == Read("string", "str", LAMBDA s : Goto("done") /\ UNCHANGED shown)

Show(x) == shown' = Append(shown, x)

\* print_dict_result: the word, then dictionaries until an empty name, in each
\* words until an empty word, for each an article and more until size zero.
\* Floating (selectquery) it prints the word first, and of the words of the
\* dictionaries only those that are not that one.
Floating == Command = "selectquery"
OWord ==
    Read("oword", "str", LAMBDA s :
        Goto("book") /\ IF Floating THEN Show(s) ELSE UNCHANGED shown)
Book ==
    Read("book", "str", LAMBDA s :
        IF s = Empty
        THEN Goto(IF Command = "lookup" THEN "tag" ELSE "done") /\ UNCHANGED shown
        ELSE Goto("word") /\ Show(s))
Word ==
    Read("word", "str", LAMBDA s :
        IF s = Empty THEN Goto("book") /\ UNCHANGED shown
        ELSE /\ Goto("article")
             /\ IF Floating /\ s = Head(shown) THEN UNCHANGED shown ELSE Show(s))
Article == Read("article", "data", LAMBDA a : Goto("more") /\ Show(a))
More ==
    Read("more", "data", LAMBDA a :
        IF a = Empty THEN Goto("word") /\ UNCHANGED shown
        ELSE Goto("more") /\ Show(a))

\* process_command_lookup and print_word_list.
Tag ==
    Read("tag", "str", LAMBDA s :
        Goto(IF s = "d" THEN "databook" ELSE "list") /\ Show(s))
List ==
    Read("list", "str", LAMBDA s :
        IF s = Empty THEN Goto("done") /\ UNCHANGED shown
        ELSE Goto("list") /\ Show(s))
DataBook ==
    Read("databook", "str", LAMBDA s :
        IF s = Empty THEN Goto("done") /\ UNCHANGED shown
        ELSE Goto("dataword") /\ Show(s))
DataWord ==
    Read("dataword", "str", LAMBDA s :
        IF s = Empty THEN Goto("databook") /\ UNCHANGED shown
        ELSE Goto("dataword") /\ Show(s))

Done ==
    /\ pc = "done"
    /\ IF current < Len(commands)
       THEN pc' = "request" /\ current' = current + 1 /\ UNCHANGED result
       ELSE pc' = "ended" /\ result' = "finished" /\ UNCHANGED current
    /\ UNCHANGED <<commands, shown, wire, request, server>>

Client == \/ Banner \/ Request \/ Status \/ ReadString \/ OWord \/ Book \/ Word
          \/ Article \/ More \/ Tag \/ List \/ DataBook \/ DataWord \/ Done
Server == Serve \/ Cut
Next == Client \/ Server

\* Both processes run; a session without a command waits (delay_time) without
\* being obliged to end.
Spec == Init /\ [][Next]_vars /\ WF_vars(Client) /\ WF_vars(Serve)
-----------------------------------------------------------------------------
(* Properties.                                                             *)

Labels == {"banner", "request", "status", "string", "oword", "book", "word",
           "article", "more", "tag", "list", "databook", "dataword", "done",
           "ended"}

\* The types of the variables: the client stays within its commands.
TypeOK ==
    /\ commands \in {Start(script) : script \in Scripts}
    /\ current \in 0 .. Len(commands)
    /\ pc \in Labels
    /\ \A i \in DOMAIN wire : wire[i].kind \in {"line", "str", "data"}
    /\ request \in BOOLEAN /\ open \in BOOLEAN
    /\ who \in {"nobody", "guest", "user"} /\ level \in {0, AccountLevel}
    /\ result \in {"running", "finished", "cutoff", "refused", "unserved", "confused"}
    /\ faults \in FaultSets

\* When the client sends a command (request_command) nothing of an earlier
\* reply is left in the stream, and it never takes one kind of field for
\* another.  The one exception is auth, which may say DENIED after its OK
\* (daemon.cpp 149, 154): that line is taken for the answer to the next
\* command.
InStep ==
    /\ TypeOK
    /\ result # "confused"
    /\ pc = "request" =>
         \/ wire = <<>>
         \/ wire = Line("DENIED") /\ commands[current - 1] = "auth"

\* What the client prints for op of what the session found: a selected word
\* stands above everything and is not said again.
OfEntry(said, e) == (IF e.word = said THEN <<>> ELSE <<e.word>>) \o e.articles
OfEntries(said, entries) == Concat(LAMBDA e : OfEntry(said, e), entries)
OfBook(said, b) == <<b.name>> \o OfEntries(said, b.entries)
OfBooks(said, books) == Concat(LAMBDA b : OfBook(said, b), books)
OfResult(op, oword, books) ==
    IF op = "selectquery" THEN <<oword>> \o OfBooks(oword, books) ELSE OfBooks(Empty, books)
OfDataBook(b) == <<b.name>> \o b.words
OfSearch(op, s) ==
    IF s.tag = Empty THEN <<>>
    ELSE IF s.tag = "d" THEN <<s.tag>> \o Concat(OfDataBook, s.list)
    ELSE IF op \in ListOps THEN s.list ELSE <<s.tag>> \o s.list
Printed(op, f) == OfResult(op, f.oword, f.books) \o OfSearch(op, f.search)

\* A query that the client has read to the end shows every dictionary, word
\* and article the session found, each once, in order and under its own
\* dictionary and word, and the words of the search.  The window of a selected
\* word has that word as its heading, and leaves it out where a dictionary
\* gives it: such an article follows the one before it without a word between.
ShownIsSent ==
    pc = "done" /\ Command \in QueryOps => shown = Printed(Command, found)

\* A query that comes after a login, with no tmpdictmask between, is answered
\* with the dictionaries of the user: a failed login never falls back to those
\* of the guest (check_dictmask), since the client stops.
NeverAsGuest ==
    \A i \in DOMAIN answered :
        /\ answered[i].op \in QueryOps
        /\ \E j \in 1 .. i - 1 :
             /\ answered[j].op = "auth"
             /\ \A k \in j + 1 .. i - 1 : answered[k].op # "tmpdictmask"
        => answered[i].by = "user"

\* The client ends, whatever it is answered: no reader waits for a field that
\* is not sent while the session waits for the next command.  The session's
\* alarm is not needed for that.
ClientEnds == <>(pc = "ended")
=============================================================================
