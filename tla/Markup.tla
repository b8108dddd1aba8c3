------------------------------- MODULE Markup -------------------------------
(***************************************************************************)
(* How the client turns the text of an article into HTML (printdata.cpp):  *)
(* plain text, PowerWord marks, xdxf and Pango markup.                     *)
(*                                                                         *)
(* HTML is a sequence of tokens: an opened or closed element, a character  *)
(* as it is shown, and the two ends of an attribute value that is written  *)
(* in two steps.  An element is opened with the value of an attribute that *)
(* is copied from the article; what the code itself sets is left out.      *)
(***************************************************************************)
EXTENDS Integers, Sequences, SequencesExt

LF == "\n"
Blank == " "

Attributed(n, value) == <<<<"open", n, value>>>>
Open(n) == Attributed(n, <<>>)
Close(n) == <<<<"close", n>>>>
Text(c) == <<<<"text", c>>>>
Break == Text("<br>")

HTML(F(_), s) == FlattenSeq([i \in DOMAIN s |-> F(s[i])])
Opened(names) == HTML(Open, names)
Closed(names) == HTML(Close, Reverse(names))

-----------------------------------------------------------------------------
\* Plain text: stardict_markup_escape_text and escape_text.
Entity(s, i) ==
    CASE s[i] = "&" -> "&amp;"
      [] s[i] = "<" -> "&lt;"
      [] s[i] = ">" -> "&gt;"
      [] s[i] = "'" -> "&#39;"
      [] s[i] = "\"" -> "&quot;"
      [] s[i] = LF -> "<br>"
      [] s[i] = Blank /\ (IF i = 1 THEN TRUE ELSE s[i - 1] \in {Blank, LF}) -> "&nbsp;"
      [] OTHER -> s[i]

EscapeText(s) == HTML(LAMBDA i : Text(Entity(s, i)), [i \in DOMAIN s |-> i])

-----------------------------------------------------------------------------
\* PowerWord: "&b{...}" sets what is between the braces in bold, and so on.

\* The two tables of phonetic letters: which sign a letter stands for.
Phonetic(table, s) == HTML(LAMBDA c : Text(table \o c), s)
toUtfPhonetic(s) == Phonetic("X", s)
toUtfPhonetic2(s) == Phonetic("2", s)

Links == {"l", "D", "L", "U"}
Elements(mark) ==
    CASE mark \in {"b", "B"} -> <<"b">>
      [] mark = "I" -> <<"i">>
      [] mark = "+" -> <<"sup">>
      [] mark = "-" -> <<"sub">>
      [] mark \in Links \union {"x"} -> <<"font", "u">>
      [] OTHER -> <<>>

\* marks: marktags up to currentmarktag; link: previous_islink; next: where the
\* loop goes on.
EndMark(st, p) ==
    LET mark == Last(st.marks)
    IN [out |-> st.out \o Closed(Elements(mark)), marks |-> Front(st.marks),
        link |-> mark \in Links, next |-> p + 1]

BeginMark(st, p, mark) ==
    [st EXCEPT !.out = @ \o (IF mark \in Links /\ st.link THEN Text("\t") ELSE <<>>)
                         \o Opened(Elements(mark)),
               !.marks = Append(@, mark),
               !.next = p + 3]

\* "&X{" and "&2{" end at the next brace, whatever is between.
Pronounce(st, p, s) ==
    LET ends == {i \in p + 3 .. Len(s) : s[i] = "}"}
        end == IF ends = {} THEN Len(s) + 1 ELSE CHOOSE i \in ends : \A j \in ends : i <= j
        letters == SubSeq(s, p + 3, end - 1)
    IN [st EXCEPT !.out = @ \o Open("font")
                            \o (IF s[p + 1] = "X" THEN toUtfPhonetic(letters) ELSE toUtfPhonetic2(letters))
                            \o Close("font"),
                  !.link = FALSE,
                  !.next = end + 1]

Show(st, p, s) ==
    [st EXCEPT !.out = @ \o Text(Entity(s, p)), !.link = FALSE, !.next = p + 1]

PowerwordStep(st, p, s) ==
    LET marked == s[p] = "&" /\ p + 2 <= Len(s) /\ s[p + 2] = "{"
    IN CASE p # st.next -> st
         [] s[p] = "}" /\ st.marks # <<>> -> EndMark(st, p)
         [] marked /\ s[p + 1] \in {"X", "2"} -> Pronounce(st, p, s)
         [] marked /\ s[p + 1] \notin {"X", "2"} -> BeginMark(st, p, s[p + 1])
         [] OTHER -> Show(st, p, s)

PowerwordLoop(s) ==
    FoldLeft(LAMBDA st, p : PowerwordStep(st, p, s),
             [out |-> <<>>, marks |-> <<>>, link |-> FALSE, next |-> 1],
             [p \in DOMAIN s |-> p])

\* As Powerword, where marks that are open at the end are closed in the order
\* in which they were opened.
PowerwordInOrder(s) ==
    LET end == PowerwordLoop(s)
    IN end.out \o HTML(LAMBDA m : Closed(Elements(m)), end.marks)

\* powerword_markup_escape_text: what is still open at the end is closed.
Powerword(s) ==
    LET end == PowerwordLoop(s)
    IN end.out \o HTML(LAMBDA m : Closed(Elements(m)), Reverse(end.marks))

-----------------------------------------------------------------------------
\* A PowerWord article: func_parse_start_element, func_parse_passthrough.  The
\* article is a sequence of elements, <<"start", n>>, and of the CDATA in one,
\* <<"cdata", n, s>>.
Headings == {"CY", "usage", "idiom", "phrase", "note"}

PowerwordHeading(st, n) ==
    IF n = "CY" /\ st.first THEN [st EXCEPT !.first = FALSE]
    ELSE IF n \in Headings
    THEN [st EXCEPT !.out = @ \o Break \o Open("font") \o Text(n) \o Close("font")]
    ELSE st

PowerwordElements(n) ==
    CASE n = "YX" -> <<"b">>
      [] n = "DX" -> <<"i">>
      [] n = "PY" -> <<"font", "u">>
      [] n \in {"CB", "LY", "LS"} -> <<"font">>
      [] OTHER -> <<>>

Trim(s) ==
    LET solid == {i \in DOMAIN s : s[i] \notin {Blank, LF}}
        first == CHOOSE i \in solid : \A j \in solid : i <= j
        last == CHOOSE i \in solid : \A j \in solid : i >= j
    IN IF solid = {} THEN <<>> ELSE SubSeq(s, first, last)

\* The word itself is not repeated as its own original, nor is any beginning of it.
PowerwordCDATA(st, n, s, oword) ==
    LET text == Trim(s)
        inside == CASE n = "CB" -> toUtfPhonetic(text)
                    [] n = "YX" -> EscapeText(text)
                    [] OTHER -> Powerword(text)
        bracket(c) == IF n = "CB" THEN Text(c) ELSE <<>>
    IN IF text = <<>> \/ (n = "YX" /\ IsPrefix(text, oword)) THEN st
       ELSE [st EXCEPT !.out = @ \o (IF @ = <<>> THEN <<>> ELSE Break)
                               \o bracket("[") \o Opened(PowerwordElements(n)) \o inside
                               \o Closed(PowerwordElements(n)) \o bracket("]")]

PowerwordArticle(events, oword) ==
    LET Step(st, e) == IF e[1] = "start" THEN PowerwordHeading(st, e[2])
                       ELSE PowerwordCDATA(st, e[2], e[3], oword)
    IN FoldLeft(Step, [out |-> <<>>, first |-> TRUE], events).out

-----------------------------------------------------------------------------
\* GMarkup: what it calls for a document, until the first error; the error is
\* ignored, and so is what follows it.  A document is a sequence of tags
\* <<"start", n, a>>, <<"empty", n, a>> and <<"end", n>>, of <<"comment">>, of
\* characters <<"char", c>>, and of <<"bad">>, what it cannot read.  In an element
\* every "<" calls text() with what is before it, an empty string if nothing is.
\* Of the attributes a, what is copied (value) and what styles they ask for.
NoAttributes == [value |-> <<>>, styles |-> <<>>]
Start(n) == <<"start", n, NoAttributes>>
End(n) == <<"end", n>>

ReadNext(rd, t) ==
    LET inside == rd.open # <<>>
        told == IF inside THEN Append(rd.calls, <<"text", rd.text, Last(rd.open)[2]>>) ELSE rd.calls
        read == [rd EXCEPT !.calls = told, !.text = <<>>]
    IN CASE ~rd.reads -> rd
         [] rd.reads /\ t[1] = "start" ->
               [read EXCEPT !.calls = Append(@, t), !.open = Append(@, t)]
         [] rd.reads /\ t[1] = "empty" ->
               [read EXCEPT !.calls = @ \o <<<<"start", t[2], t[3]>>, End(t[2])>>]
         [] rd.reads /\ t[1] = "end" ->
               IF inside /\ Last(rd.open)[2] = t[2]
               THEN [read EXCEPT !.calls = Append(@, t), !.open = Front(@)]
               ELSE [read EXCEPT !.reads = FALSE]
         [] rd.reads /\ t[1] = "comment" -> read
         [] rd.reads /\ t[1] = "char" ->
               IF inside THEN [rd EXCEPT !.text = Append(@, t[2])]
               ELSE [rd EXCEPT !.reads = t[2] \in {Blank, LF}]
         [] rd.reads /\ t[1] = "bad" -> [rd EXCEPT !.reads = FALSE]

Read(doc) == FoldLeft(ReadNext, [calls |-> <<>>, text |-> <<>>, open |-> <<>>, reads |-> TRUE], doc)

-----------------------------------------------------------------------------
\* xdxf: xdxf_parse_start_element, xdxf_parse_end_element, xdxf_parse_text.
XdxfElements(n) ==
    CASE n = "abr" -> <<"font", "i">>
      [] n \in {"b", "i", "sup", "sub", "tt", "big", "small", "blockquote"} -> <<n>>
      [] n = "tr" -> <<"b">>
      [] n \in {"ex", "c"} -> <<"font">>
      [] OTHER -> <<>>

\* The color of <c> is copied as it is.
XdxfStart(st, n, a) ==
    [st EXCEPT !.out = @ \o (CASE n = "kref" -> <<<<"href", "a">>>>
                               [] n = "c" -> Attributed("font", a.value)
                               [] OTHER -> Opened(XdxfElements(n)))
                         \o (IF n = "tr" THEN Text("[") ELSE <<>>)]

XdxfEnd(st, n) ==
    [st EXCEPT !.out = @ \o (IF n = "tr" THEN Text("]") ELSE <<>>)
                         \o (IF n = "kref" THEN Close("a") ELSE Closed(XdxfElements(n)))]

XdxfText(st, s, element) ==
    LET \* the first line feed after <k></k>
        rest == IF st.out = <<>> /\ s # <<>> /\ s[1] = LF THEN Tail(s) ELSE s
    IN IF element = "k" /\ st.firstk THEN [st EXCEPT !.firstk = FALSE]
       ELSE IF element = "kref"
       THEN [st EXCEPT !.out = @ \o EscapeText(s) \o <<<<"hrefend", "a">>>> \o EscapeText(s)]
       ELSE [st EXCEPT !.out = @ \o EscapeText(rest)]

XdxfRead(doc) == Read(<<Start("ar")>> \o doc \o <<End("ar")>>)

Xdxf(doc) ==
    LET Step(st, e) ==
            CASE e[1] = "start" -> XdxfStart(st, e[2], e[3])
              [] e[1] = "end" -> XdxfEnd(st, e[2])
              [] e[1] = "text" -> XdxfText(st, e[2], e[3])
    IN FoldLeft(Step, [out |-> <<>>, firstk |-> TRUE], XdxfRead(doc).calls).out

-----------------------------------------------------------------------------
\* Pango: pango_parse_start_element, pango_parse_end_element, pango_parse_text.
\* The styles of a <span> become elements inside it, and face, colors and language
\* are copied as they are.  span_elements, one string for all spans, is what its
\* end tag closes.
PangoStart(st, n, a) ==
    IF n = "span"
    THEN [out |-> st.out \o Attributed("span", a.value) \o Opened(a.styles),
          toClose |-> Closed(a.styles) \o st.toClose]
    ELSE IF n = "markup" THEN st
    ELSE [st EXCEPT !.out = @ \o Open(n)]

PangoEnd(st, n) ==
    IF n = "span" THEN [out |-> st.out \o st.toClose \o Close("span"), toClose |-> <<>>]
    ELSE IF n = "markup" THEN st
    ELSE [st EXCEPT !.out = @ \o Close(n)]

PangoRead(doc) ==
    Read(IF IsPrefix(<<Start("markup")>>, doc) THEN doc
         ELSE <<Start("markup")>> \o doc \o <<End("markup")>>)

Pango(doc) ==
    LET Step(st, e) ==
            CASE e[1] = "start" -> PangoStart(st, e[2], e[3])
              [] e[1] = "end" -> PangoEnd(st, e[2])
              [] e[1] = "text" -> [st EXCEPT !.out = @ \o EscapeText(e[2])]
    IN FoldLeft(Step, [out |-> <<>>, toClose |-> <<>>], PangoRead(doc).calls).out

-----------------------------------------------------------------------------
\* What a browser makes of it: the elements that are left open, whether in an
\* attribute, and whether so far every element was closed after those inside it,
\* no tag was inside an attribute, no attribute ended that had not begun, and none
\* holds the quote that ends it.
LeftOpen(html) ==
    LET Step(st, t) ==
            CASE t[1] = "text" -> st
              [] t[1] = "open" -> [st EXCEPT !.open = Append(@, t[2]),
                                             !.ok = @ /\ ~st.quoted /\ ~Contains(t[3], "\"")]
              [] t[1] = "href" -> [st EXCEPT !.open = Append(@, t[2]), !.ok = @ /\ ~st.quoted,
                                             !.quoted = TRUE]
              [] t[1] = "hrefend" -> [st EXCEPT !.ok = @ /\ st.quoted, !.quoted = FALSE]
              [] t[1] = "close" ->
                    IF st.open # <<>> /\ Last(st.open) = t[2] /\ ~st.quoted
                    THEN [st EXCEPT !.open = Front(@)] ELSE [st EXCEPT !.ok = FALSE]
    IN FoldLeft(Step, [open |-> <<>>, quoted |-> FALSE, ok |-> TRUE], html)

Balanced(html) == LeftOpen(html) = [open |-> <<>>, quoted |-> FALSE, ok |-> TRUE]

\* The characters that are shown.
Shown(html) ==
    LET Step(st, t) ==
            CASE t[1] = "href" -> [st EXCEPT !.quoted = TRUE]
              [] t[1] = "hrefend" -> [st EXCEPT !.quoted = FALSE]
              [] t[1] = "text" /\ ~st.quoted -> [st EXCEPT !.text = Append(@, t[2])]
              [] OTHER -> st
    IN FoldLeft(Step, [text |-> <<>>, quoted |-> FALSE], html).text
=============================================================================
