------------------------------ MODULE Escaping ------------------------------
(***************************************************************************)
(* What happens to a string between the arguments of stardict-client and   *)
(* the search: arg_escape (command.cpp), net_read_line (net.cpp), args_new *)
(* (daemon.cpp), analyse_query and stardict_input_escape (lib.cpp), and    *)
(* the splitting of LookupData (stddict.cpp).                              *)
(*                                                                         *)
(* A string is a sequence of characters; "\n" and "\r" stand for the line  *)
(* feed and the carriage return, "n" for the letter.  A backslash at the   *)
(* end of a string makes args_new and LookupData step over the terminating *)
(* NUL and go on in whatever memory follows: that is Beyond.               *)
(***************************************************************************)
EXTENDS Integers, Sequences, SequencesExt

BS == "\\"
LF == "\n"
CR == "\r"
Blank == " "
Beyond == <<"beyond">>

\* As Escaped, where blanks are left alone.
EscapedOnce(c) ==
    IF c = BS THEN <<BS, BS>> ELSE IF c = LF THEN <<BS, "n">> ELSE <<c>>

\* arg_escape
Escaped(c) ==
    IF c = BS THEN <<BS, BS>>
    ELSE IF c = Blank THEN <<BS, Blank>>
    ELSE IF c = LF THEN <<BS, "n">>
    ELSE <<c>>
ArgEscape(s) == FlattenSeq([i \in DOMAIN s |-> Escaped(s[i])])

\* make_command: a name and its arguments, and the end of the line.
CommandLine(args) ==
    (<<"q">> \o FlattenSeq([i \in DOMAIN args |-> <<Blank>> \o ArgEscape(args[i])])) \o <<LF>>

\* net_read_line: up to the first line feed, without carriage returns.
ReadLine(s) ==
    LET n == CHOOSE k \in DOMAIN s : s[k] = LF /\ \A j \in 1 .. k - 1 : s[j] # LF
        line == SubSeq(s, 1, n - 1)
    IN FlattenSeq([i \in DOMAIN line |-> IF line[i] = CR THEN <<>> ELSE <<line[i]>>])

\* The loop of args_new and LookupData over a string with escapes: what is
\* between blanks; special says what some escaped characters stand for.
\* st: the words so far, the word in hand, whether a backslash was just read.
SplitStep(st, c, special) ==
    IF st.escaped
    THEN [words |-> st.words, escaped |-> FALSE,
          word |-> Append(st.word, IF c \in DOMAIN special THEN special[c] ELSE c)]
    ELSE IF c = BS THEN [st EXCEPT !.escaped = TRUE]
    ELSE IF c = Blank
    THEN [words |-> Append(st.words, st.word), word |-> <<>>, escaped |-> FALSE]
    ELSE [st EXCEPT !.word = Append(@, c)]

Split(s, special) ==
    LET After[i \in 0 .. Len(s)] ==
            IF i = 0 THEN [words |-> <<>>, word |-> <<>>, escaped |-> FALSE]
            ELSE SplitStep(After[i - 1], s[i], special)
        end == After[Len(s)]
    IN IF end.escaped THEN Beyond ELSE Append(end.words, end.word)

ArgsNew(s) == Split(s, [c \in {"n"} |-> LF])

\* LookupData drops empty words.
SearchWords(s) ==
    LET words == Split(s, [c \in {"n", "t"} |-> IF c = "n" THEN LF ELSE "\t"])
    IN IF words = Beyond THEN Beyond ELSE SelectSeq(words, LAMBDA w : w # <<>>)

\* analyse_query: the kind of search and the string to search for.
UnescapeStep(st, c) ==
    IF st.escaped THEN [st EXCEPT !.res = Append(@, c), !.escaped = FALSE]
    ELSE IF c = BS THEN [st EXCEPT !.escaped = TRUE]
    ELSE [st EXCEPT !.res = Append(@, c), !.pattern = @ \/ c \in {"*", "?"}]

Unescaped(s) ==
    LET After[i \in 0 .. Len(s)] ==
            IF i = 0 THEN [res |-> <<>>, pattern |-> FALSE, escaped |-> FALSE]
            ELSE UnescapeStep(After[i - 1], s[i])
    IN After[Len(s)]

AnalyseQuery(s) ==
    IF s = <<>> THEN [kind |-> "simple", res |-> <<>>]
    ELSE IF s[1] = "/" THEN [kind |-> "fuzzy", res |-> Tail(s)]
    ELSE IF s[1] = ":" THEN [kind |-> "regex", res |-> Tail(s)]
    ELSE IF s[1] = "|" THEN [kind |-> "data", res |-> Tail(s)]
    ELSE LET u == Unescaped(s)
         IN [kind |-> IF u.pattern THEN "pattern" ELSE "simple", res |-> u.res]

\* stardict_input_escape
InputEscape(s) ==
    LET Each(c) == IF c \in {BS, "*", "?"} THEN <<BS, c>> ELSE <<c>>
        Chars(t) == FlattenSeq([i \in DOMAIN t |-> Each(t[i])])
    IN IF s # <<>> /\ s[1] \in {"/", "|", ":"}
       THEN <<BS, s[1]>> \o Chars(Tail(s))
       ELSE Chars(s)

-----------------------------------------------------------------------------
(* What the two ends promise each other.                                   *)

\* Arguments of a command arrive as they were given, on a line net_read_line takes (it
\* gives up after 10240 characters, and the session ends).
ArgumentsArrive(args) == ArgsNew(ReadLine(CommandLine(args))) = <<<<"q">>>> \o args

\* A word escaped for the query language is searched as it is, by the plain search.
WordIsPlain(s) == AnalyseQuery(InputEscape(s)) = [kind |-> "simple", res |-> s]
=============================================================================
