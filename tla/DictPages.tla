------------------------------ MODULE DictPages ------------------------------
(***************************************************************************)
(* What the client shows of the dictionaries: the pages it makes of the    *)
(* replies to dirinfo, getdictmask and dictinfo.  A reply is a sequence of *)
(* events as in DictTree; a page is the sequence of its entries, the HTML  *)
(* around them left out.                                                   *)
(***************************************************************************)
LOCAL INSTANCE Integers
LOCAL INSTANCE Sequences
LOCAL INSTANCE SequencesExt
LOCAL INSTANCE FiniteSets

CONSTANTS Special,     \* the texts that are no text in XML unless escaped: & and <
          Unsigned     \* 2^32

\* GMarkup calls the handlers for the events before the first text it cannot
\* read, and not for a text that is empty.
Readable(e) ==
    /\ e[1] = "raw" => e[3] \notin Special
    /\ e[1] = "path" => ToSet(e[3]) \intersect Special = {}
Parsed(reply) ==
    LET bad == {i \in DOMAIN reply : ~Readable(reply[i])}
        read == {i \in DOMAIN reply : \A j \in bad : i < j}
    IN SelectSeq(SubSeq(reply, 1, Cardinality(read)), LAMBDA e : e[1] \in {"raw", "text"} => e[3] # "")

\* Cleared fields: a number that is not there counts as 0.
Blank(fields) ==
    [f \in fields |-> IF f \in {"level", "dictcount", "wordcount", "synwordcount"} THEN 0 ELSE ""]

-----------------------------------------------------------------------------
\* dirinfo.
DirFields == {"name", "dirname", "dictcount"}
DictFields == {"islink", "level", "uid", "bookname", "wordcount"}

NewPage == [parent |-> <<>>, userlevel |-> 0, in_dir |-> FALSE, in_dict |-> FALSE,
            dir |-> Blank(DirFields), dict |-> Blank(DictFields), html |-> <<>>]

DirInfoStart(d, el) ==
    CASE el = "dir" -> [d EXCEPT !.in_dir = TRUE, !.dir = Blank(DirFields)]
      [] el = "dict" -> [d EXCEPT !.in_dict = TRUE, !.dict = Blank(DictFields)]
      [] OTHER -> d

\* The entry of a directory leads to its path.  That of a dictionary has the
\* button that adds it, if asked for: + if the user has the level it needs.
Button(d, adddict) == IF ~adddict THEN "" ELSE IF d.userlevel < d.dict.level THEN "$" ELSE "+"

DirInfoEnd(d, el, adddict) ==
    CASE el = "dir" ->
            [d EXCEPT !.in_dir = FALSE,
                      !.html = Append(@, [kind |-> "dir", path |-> d.parent \o <<d.dir.name, "/">>,
                                          dirname |-> d.dir.dirname, dictcount |-> d.dir.dictcount])]
      [] el = "dict" ->
            [d EXCEPT !.in_dict = FALSE,
                      !.html = Append(@, [kind |-> "dict", button |-> Button(d, adddict),
                                          link |-> d.dict.islink = "1", uid |-> d.dict.uid,
                                          bookname |-> d.dict.bookname, wordcount |-> d.dict.wordcount])]
      [] OTHER -> d

DirInfoText(d, el, v) ==
    CASE el = "parent" -> [d EXCEPT !.parent = v]
      [] el = "userlevel" -> [d EXCEPT !.userlevel = v % Unsigned]
      [] el \in DirFields /\ d.in_dir -> [d EXCEPT !.dir[el] = v]
      [] el \in DictFields /\ d.in_dict -> [d EXCEPT !.dict[el] = v]
      [] OTHER -> d

DirInfoPage(reply, adddict) ==
    LET Step(d, e) == CASE e[1] = "start" -> DirInfoStart(d, e[2])
                        [] e[1] = "end" -> DirInfoEnd(d, e[2], adddict)
                        [] OTHER -> DirInfoText(d, e[2], e[3])
    IN FoldLeft(Step, NewPage, Parsed(reply)).html

-----------------------------------------------------------------------------
\* getdictmask: an option for each dictionary.
OptionFields == {"uid", "bookname", "wordcount"}
DictMaskPage(reply) ==
    LET Step(d, e) ==
            CASE e = <<"start", "dict">> -> [d EXCEPT !.dict = Blank(OptionFields)]
              [] e = <<"end", "dict">> -> [d EXCEPT !.html = Append(@, d.dict)]
              [] Len(e) = 3 /\ e[2] \in OptionFields -> [d EXCEPT !.dict[e[2]] = e[3]]
              [] OTHER -> d
    IN FoldLeft(Step, [dict |-> Blank(OptionFields), html |-> <<>>], Parsed(reply)).html

\* dictinfo: the number of synonyms and the download are left out if there are none.
InfoFields == {"bookname", "wordcount", "synwordcount", "author", "email", "website",
               "description", "date", "download"}
DictInfoPage(reply) ==
    LET Rows(info) == {<<f, info[f]>> : f \in {f \in InfoFields :
                           f \in {"synwordcount", "download"} => info[f] # Blank(InfoFields)[f]}}
        Step(d, e) ==
            CASE e = <<"start", "dictinfo">> -> [d EXCEPT !.info = Blank(InfoFields)]
              [] e = <<"end", "dictinfo">> -> [d EXCEPT !.html = @ \union Rows(d.info)]
              [] Len(e) = 3 /\ e[2] \in InfoFields -> [d EXCEPT !.info[e[2]] = e[3]]
              [] OTHER -> d
    IN FoldLeft(Step, [info |-> Blank(InfoFields), html |-> {}], Parsed(reply)).html
=============================================================================
