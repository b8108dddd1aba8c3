----------------------------- MODULE MCFunctions -----------------------------
(***************************************************************************)
(* The pure functions of client and server against what they promise, over *)
(* all short inputs (Inputs).                                              *)
(***************************************************************************)
EXTENDS Integers, Sequences, FiniteSets, SequencesExt, TLC, Inputs

CONSTANT Unset

Html == INSTANCE Markup
\* Dictionaries a and b; any other path does not load.
Books == [p \in {"a", "b"} |-> [bookname |-> p, wordcount |-> 7, date |-> "2007",
                                synwordcount |-> IF p = "b" THEN 3 ELSE 0]]
Tree == INSTANCE DictTree WITH Spaced <- {}, Unsigned <- 8
Page == INSTANCE DictPages WITH Special <- {"&"}, Unsigned <- 8
Files == INSTANCE WordFiles WITH Entries <- 2
Coll == INSTANCE Collation
Pick == INSTANCE Selection
Tables == [l \in DOMAIN Coll!Tailoring |-> Coll!CreateTailoring(Coll!Tailoring[l])]

\* The letters of some alphabets, in order, around those that a tailoring moves;
\* ch, ll, aa and the letters beyond ASCII are one letter each.
Alphabet == [
    estonian |-> <<<<115>>, <<197, 161>>, <<122>>, <<197, 190>>, <<116>>, <<119>>, <<195, 181>>, <<120>>>>,
    spanish2 |-> <<<<99>>, <<99, 104>>, <<104>>, <<108>>, <<108, 108>>, <<110>>, <<195, 177>>>>,
    czech |-> <<<<99>>, <<196, 141>>, <<100>>, <<104>>, <<99, 104>>, <<105>>, <<197, 161>>, <<116>>>>,
    danish |-> <<<<97>>, <<98>>, <<122>>, <<195, 166>>, <<195, 184>>, <<97, 97>>>>]

\* Data of sections, without and with NULs: 1 and 3 are types as well.
TextsUpTo(n) == UNION {[1 .. m -> {1, 3}] : m \in 0 .. n}
BytesUpTo(n) == UNION {[1 .. m -> {0, 1, 3}] : m \in 0 .. n}
MCOtherWords == {<<65, 96>>, <<98>>, <<200, 200>>}
MCSoughtWords == {<<1>>, <<3>>, <<1, 3>>, <<3, 1>>, <<1, 1>>}

\* The longest inputs.
MCLongest == [distance |-> 4, escaping |-> 5, md5 |-> 4,
            powerword |-> 5, xdxf |-> 5, pango |-> 5,
            sections |-> 3, inflection |-> 4, cases |-> 3, tree |-> 3, indexes |-> 5, selection |-> 6, header |-> 5,
            collation |-> 2] @@ [l \in DOMAIN Alphabet |-> 2]

\* A tag with attributes; <<"end">> alone ends the innermost element.
With(tag, n, value, styles) == <<tag, n, [value |-> value, styles |-> styles]>>

MCLetters == [f \in Functions |->
    CASE f = "distance" -> {"a", "b", "c"}
      [] f = "escaping" -> {"a", "n", "*", "/", Esc!BS, Esc!Blank, Esc!LF}
      [] f = "md5" -> {[i \in 1 .. n |-> i] : n \in 0 .. 9}
      [] f = "powerword" ->
            {<<"&">>, <<"{">>, <<"}">>, <<"b">>, <<"&", "b", "{">>, <<"&", "x", "{">>,
             <<"&", "X", "{">>}
      [] f = "xdxf" ->
            {Html!Start("k"), Html!Start("kref"), Html!Start("tr"), With("start", "c", <<"\"">>, <<>>),
             <<"end">>, Html!End("tr"), With("empty", "kref", <<>>, <<>>),
             <<"char", "<">>, <<"char", Html!LF>>, <<"comment">>, <<"bad">>}
      [] f = "pango" ->
            {Html!Start("markup"), Html!Start("b"), With("start", "span", <<"\"">>, <<>>),
             With("start", "span", <<"a">>, <<>>), With("start", "span", <<>>, <<"b", "i">>),
             With("empty", "span", <<>>, <<"i">>), <<"end">>, Html!End("b"), <<"char", "a">>, <<"bad">>}
      [] f = "sections" ->
            [type : {1, 2}, data : TextsUpTo(2)]
            \union [type : {3}, data : BytesUpTo(1) \union {<<1, 0>>, <<3, 3>>, <<0, 1, 3, 0, 1>>}]
      [] f = "inflection" -> {97, Similar!ee, Similar!oo, Similar!yy, Similar!ss, Similar!hh,
                              Similar!cc, Similar!nn}
      [] f = "cases" -> {97, 65, 98, 66, 200}
      [] f = "tree" ->
            ({"root", "s"} \X {<<"dict", "u", 0, "a">>, <<"dict", "u", 0, "b">>, <<"dict", "v", 2, "b">>,
                               <<"dict", "w", -1, "a">>, <<"dict", "v", 0, "missing">>,
                               <<"link", "u">>, <<"link", "v">>})
            \union {<<"root", <<"subdir", d>>>> : d \in {"s", "&", "t"}}
      \* words of A, a, b, and of a capital and two small letters of Russian
      [] f = "indexes" -> {<<97>>, <<65>>, <<65, 98>>, <<98>>, <<1048, 1080>>, <<1080>>, <<1103>>}
      [] f = "header" -> {<<"chunk", 1>>, <<"chunk", 258>>, <<"name", 97>>, <<"comment", 98>>, <<"crc", 1>>}
      \* a, B, a blank, a dash, and a character beyond ASCII
      [] f = "selection" -> {97, 66, 32, 45, 200}
      \* a, B, c, h, a with diaeresis, the diaeresis alone, a CJK character, and one
      \* of four bytes
      [] f = "collation" -> {<<97>>, <<66>>, <<99>>, <<104>>, <<195, 164>>, <<204, 136>>,
                             <<228, 184, 128>>, <<240, 159, 152, 128>>}
      [] f \in DOMAIN Alphabet -> DOMAIN Alphabet[f]]

TwoInputs == {"distance", "collation"} \union DOMAIN Alphabet
MCSecondLetters == [f \in Functions |-> IF f \in TwoInputs THEN MCLetters[f] ELSE {}]
MCSecondLongest == [f \in Functions |-> IF f = "collation" THEN 1 ELSE MCLongest[f]]

MCLimits == 1 .. 5

-----------------------------------------------------------------------------
\* A document of these letters, in an element root, wherever it ends.
Document(root, letters) ==
    LET Add(doc, t) ==
            LET open == Html!Read(<<Html!Start(root)>> \o doc).open
            IN IF t # <<"end">> THEN Append(doc, t)
               ELSE Append(doc, Html!End(IF open = <<>> THEN root ELSE Last(open)[2]))
    IN FoldLeft(Add, <<>>, letters)

\* Every <kref> holds one piece of text and nothing else.
ReferencesArePlain(calls) ==
    \A i \in DOMAIN calls : calls[i][1] = "start" /\ calls[i][2] = "kref" =>
        /\ i + 1 \in DOMAIN calls => calls[i + 1][1] = "text"
        /\ i + 2 \in DOMAIN calls => calls[i + 2][1] = "end"

\* No span is in a span with styles.
SpansApart(doc) ==
    \A i \in DOMAIN doc : doc[i][1] \in {"start", "empty"} /\ doc[i][2] = "span" =>
        \A t \in ToSet(Html!PangoRead(SubSeq(doc, 1, i - 1)).open) : t[3].styles = <<>>

\* No value is copied that holds a quote.
NoQuotes(doc) ==
    \A t \in ToSet(doc) : t[1] \in {"start", "empty"} => ~Contains(t[3].value, "\"")

\* The HTML leaves open what is for the tags that are open where reading stops:
\* nothing, if the document is read to its end.
LeavesOpen(html, read, ElementsOf(_)) ==
    LET left == Html!LeftOpen(html)
    IN /\ left.ok
       /\ left.open = FlattenSeq([i \in DOMAIN read.open |-> ElementsOf(read.open[i])])
       /\ left.quoted = (read.calls # <<>> /\ Last(read.calls)[1] = "start" /\ Last(read.calls)[2] = "kref")

ElementsOfXdxf(t) == IF t[2] = "kref" THEN <<"a">> ELSE Html!XdxfElements(t[2])
ElementsOfPango(t) ==
    CASE t[2] = "markup" -> <<>>
      [] t[2] = "span" -> <<"span">> \o t[3].styles
      [] OTHER -> <<t[2]>>

\* The HTML of an article closes every element it opens, in order, and lets no
\* text out of an attribute: in PowerWord whatever marks there are, however badly
\* nested; in xdxf and Pango as far as the document is read, since the error that
\* ends it is ignored and what is open there stays open.  The text of an xdxf
\* article read to its end is shown as it is, references included.  Excepted are
\* references that hold no text or markup, spans inside a span with a style, and
\* attributes with a quote, which is copied.
HtmlIsBalanced ==
    /\ function = "powerword" =>
          /\ Html!Balanced(Html!Powerword(FlattenSeq(input)))
          /\ \A n \in {"CB", "YX", "LY", "JX"} :
                Html!Balanced(Html!PowerwordArticle(
                    <<<<"start", "CY">>, <<"cdata", n, FlattenSeq(input)>>,
                      <<"start", "CY">>, <<"cdata", n, FlattenSeq(input)>>>>, <<"b", "b">>))
    /\ function = "xdxf" =>
          LET doc == Document("ar", input)
              read == Html!XdxfRead(doc)
              html == Html!Xdxf(doc)
              chars == FlattenSeq([i \in DOMAIN doc |->
                           IF doc[i][1] = "char" THEN <<doc[i][2]>> ELSE <<>>])
          IN ReferencesArePlain(read.calls) =>
                /\ NoQuotes(doc) => LeavesOpen(html, read, ElementsOfXdxf)
                /\ read.reads /\ ToSet(input) \intersect {Html!Start("k"), Html!Start("tr"), <<"char", Html!LF>>} = {}
                    => Html!Shown(html) = Html!Shown(Html!EscapeText(chars))
    /\ function = "pango" =>
          LET doc == Document("markup", input)
          IN NoQuotes(doc) /\ SpansApart(doc) =>
                LeavesOpen(Html!Pango(doc), Html!PangoRead(doc), ElementsOfPango)

\* The files a sequence of letters stands for: an item goes to the file of the
\* root or of the directory s; the directory & has an empty file, t has none.
ItemEvents(item) ==
    CASE item[1] = "dict" ->
            Tree!Within("dict",
                <<<<"text", "path", item[4]>>, <<"text", "uid", item[2]>>, <<"text", "from", "en">>,
                  <<"text", "to", item[4]>>, <<"text", "level", item[3]>>>>)
      [] item[1] = "link" -> Tree!Within("linkdict", <<<<"text", "uid", item[2]>>>>)
      [] item[1] = "subdir" -> <<<<"text", "subdir", item[2]>>>>

FilesOf(letters) ==
    LET Of(file) == FlattenSeq([i \in DOMAIN letters |->
                        IF letters[i][1] = file THEN ItemEvents(letters[i][2]) ELSE <<>>])
    IN [dir \in {<<>>, <<"s">>, <<"&">>} |->
            CASE dir = <<>> -> Of("root") [] dir = <<"s">> -> Of("s") [] dir = <<"&">> -> <<>>]

ItemsOfKind(items, k) == SelectSeq(items, LAMBDA i : i.isdir = k)

DictTreeIsWhole(tree) ==
    LET dicts == tree.libs.dicts
        dirs == ItemsOfKind(tree.root.items, 1)
        all == tree.root.items \o FlattenSeq([i \in DOMAIN dirs |-> dirs[i].items])
        loaded == {dicts[i].uid : i \in DOMAIN dicts}
        times(file) == IF file = "root" THEN 1 ELSE Cardinality({i \in DOMAIN dirs : dirs[i].name = "s"})
    IN /\ Cardinality(loaded) = Len(dicts)
       /\ Len(ItemsOfKind(all, 0)) = Len(dicts)
       /\ {ItemsOfKind(all, 0)[i].dict : i \in DOMAIN ItemsOfKind(all, 0)} = DOMAIN dicts
       /\ \A u \in {"u", "v"} :
            Len(SelectSeq(ItemsOfKind(all, 2), LAMBDA i : dicts[i.dict].uid = u))
              = IF u \notin loaded THEN 0
                ELSE FoldLeft(LAMBDA n, t : n + IF t[2] = <<"link", u>> THEN times(t[1]) ELSE 0, 0, input)
       /\ tree.root.dictcount = IF \E i \in DOMAIN dirs : dirs[i].name = "t" THEN Unset ELSE Len(dicts)
       /\ \A i \in DOMAIN dirs :
            dirs[i].dictcount = IF dirs[i].name = "t" THEN Unset ELSE Len(ItemsOfKind(dirs[i].items, 0))
       /\ \A to \in {"a", "b"} :
            LET Has(i) == dicts[i.dict].to = to
            IN Len(SelectSeq(ItemsOfKind(all, 0) \o ItemsOfKind(all, 2), Has))
                 = (IF "en" \in DOMAIN Tree!FromTo(tree)
                    THEN FoldLeft(LAMBDA n, t : n + IF t.to = to THEN Len(t.uids) ELSE 0, 0, Tree!FromTo(tree)["en"])
                    ELSE 0)

\* However dictionaries, links and directories are put in the files: no two
\* dictionaries have a uid, every link is to the dictionary of its uid, none is lost
\* whose dictionary is loaded anywhere, and a directory has as many dictionaries
\* as it says, but for one without a file and those it is in, which say anything.
TreeIsWhole == function = "tree" => DictTreeIsWhole(Tree!LoadFromXML(FilesOf(input)))

SomePaths == {<<"/">>, <<"/", "/">>, <<"/", "s", "/">>, <<"/", "/", "s", "/">>,
              <<"/", "s", "/", "/">>, <<"/", "s">>, <<"s", "/">>, <<"/", "t", "/">>}

ShownPage(info) == Page!DirInfoPage(info, TRUE)

\* The pages of one path, asked for first and now, name the same; items is what is
\* in the directory.
SameListing(items, first, now) ==
    LET NoPath(page) == [i \in DOMAIN page |-> [f \in DOMAIN page[i] \ {"path"} |-> page[i][f]]]
    IN /\ NoPath(now) = NoPath(first)
       /\ Len(now) <= Len(items)
       /\ (\A i \in DOMAIN items : items[i].isdir = 1 => items[i].name # "&") => Len(now) = Len(items)

\* The entries of a page lead to what they say.
EntriesOpen(tree, infos, page, once) ==
    \A i \in DOMAIN page :
        /\ page[i].kind = "dir" /\ page[i].dictcount # Unset /\ once =>
            Len(SelectSeq(ShownPage(Tree!DirInfo(tree, infos, page[i].path, 1).info),
                          LAMBDA e : e.kind = "dict" /\ ~e.link)) = page[i].dictcount
        /\ page[i].kind = "dict" =>
            {<<"bookname", page[i].bookname>>, <<"wordcount", page[i].wordcount>>}
                \subseteq Page!DictInfoPage(Tree!GetDictInfo(tree, page[i].uid))

PathOpens(tree, path, first, now) ==
    /\ (first.info = Tree!NoInfo) <=> (now.info = Tree!NoInfo)
    /\ now.info # Tree!NoInfo =>
        /\ SameListing(Tree!DirOf(tree, path).items, ShownPage(first.info), ShownPage(now.info))
        /\ EntriesOpen(tree, now.infos, ShownPage(now.info),
                       \A i, j \in DOMAIN input : i < j /\ input[i][2][1] = "subdir" => input[i] # input[j])

PathsOpen(tree) ==
    \A before, path \in SomePaths :
        PathOpens(tree, path, Tree!DirInfo(tree, <<>>, path, 1),
                  Tree!DirInfo(tree, Tree!DirInfo(tree, <<>>, before, 1).infos, path, 1))

\* Whichever way a directory was asked for before, the client is shown what is in
\* it, up to the first directory whose name is not escaped; the path it is shown
\* for a directory opens it, and the dictionaries there are as many as it says, if
\* that was counted.
ListingOpens == function = "tree" => PathsOpen(Tree!LoadFromXML(FilesOf(input)))

UsersSearchShown(tree) ==
    LET uids == {"u", "v", "w", "x"}
    IN \A userLevel \in 0 .. 2 :
       /\ \A mask \in {<<u, v>> : u, v \in uids}, max \in 0 .. 2 :
            LET options == Page!DictMaskPage(Tree!GetDictsList(tree, mask, max, userLevel))
                searched == Tree!SetServerDictMask(tree, mask, max, userLevel)
            IN [i \in DOMAIN options |-> options[i].uid] = [i \in DOMAIN searched |-> tree.libs.dicts[searched[i]].uid]
       /\ \A path \in {<<"/">>, <<"/", "s", "/">>} :
            LET page == ShownPage(Tree!DirInfo(tree, <<>>, path, userLevel).info)
            IN \A i \in DOMAIN page :
                page[i].kind = "dict" =>
                    (page[i].button = "+" <=>
                        Tree!SetServerDictMask(tree, <<page[i].uid>>, 1, userLevel) # <<>>)

\* The dictionaries a user is listed are those the user's queries search, in the
\* same order; and the listing of a directory offers to add a dictionary if and
\* only if that would be one of them.
ShownIsSearched ==
    function = "tree" => UsersSearchShown(Tree!LoadFromXML(FilesOf(input)))

\* However a list of words is kept, in memory, by pages, or in the order of a
\* collation, and whatever page was read before, a word is found if and only if
\* it is there, all its entries with it; otherwise the place is that of the word
\* after.  The word suggested instead is the first of those, just before the place,
\* of which each agrees with no less of the query than the one after it; it agrees
\* with as much as any word, if all are of English letters.  Read by pages it is
\* the same word, but where the place is at the beginning of a page.  Of what
\* several lists suggest a best one is taken.
IndexesAgree ==
    function = "indexes" /\ input # <<>> /\ (\A i \in 1 .. Len(input) - 1 : Files!Strcmp(input[i], input[i + 1]) <= 0) =>
        LET wc == Len(input)
            Cells(numbers) == FlattenSeq([i \in DOMAIN input |-> input[i] \o <<0>> \o [n \in 1 .. numbers |-> i - 1]])
            list == Files!LoadWordList(Cells(2), wc, Len(Cells(2)))
            syn == Files!LoadSynonyms(Cells(1), wc)
            key == [i \in 0 .. wc - 1 |-> input[i + 1]]
            Same(r) == [found |-> r.found, idx |-> r.idx]
            EntriesOf(q) == {i \in 0 .. wc - 1 : key[i] = q}
            All(i) == LET r == Files!GetOrigWordCount(key, wc, i) IN r.first .. r.first + r.count - 1
        IN /\ \A i \in 0 .. wc - 1 :
                /\ Files!GetKey(list, i) = key[i]
                /\ Files!GetData(list, i) = [offset |-> i, size |-> i]
                /\ Files!SynEntry(syn, i) = [keystr |-> key[i], index |-> i]
           /\ \A q \in Letters["indexes"]
                         \union {<<98, 98>>, <<66>>, <<97, 98>>, <<90>>, <<1080, 1080>>, <<1048>>} :
                LET mem == Files!LookupWordList(list, q)
                    clt == Files!LookupCollated(key, wc, q)
                    less == {i \in 0 .. wc - 1 : Files!Strcmp(key[i], q) < 0}
                    Match(i) == Files!prefix_match(q, key[i])
                    Upward(s, place) == \A i \in s .. place - 1 : Match(i) # 0 /\ Match(i) >= Match(i + 1)
                    English(w) == \A i \in DOMAIN w : w[i] < 128
                IN /\ mem.found <=> EntriesOf(q) # {}
                   /\ mem.found => All(mem.idx) = EntriesOf(q)
                   /\ ~mem.found => mem.idx = IF Cardinality(less) = wc THEN Files!INVALID_INDEX
                                              ELSE Cardinality(less)
                   /\ clt.found <=> mem.found
                   /\ clt.found => All(Files!CltIndexToOrig(key, wc, clt.idx)) = EntriesOf(q)
                   /\ ~mem.found /\ mem.idx # Files!INVALID_INDEX =>
                        mem.idx_suggest = Min({s \in 0 .. mem.idx : Upward(s, mem.idx)})
                   /\ ~mem.found /\ English(q) /\ (\A i \in 0 .. wc - 1 : English(key[i])) =>
                        \A i \in 0 .. wc - 1 : Match(i) <= Match(mem.idx_suggest)
                   /\ \A before \in 0 .. wc - 1 :
                        LET read == Files!LookupSynonym(Files!SynPage(syn, before), q)
                        IN /\ read.found <=> mem.found
                           /\ IF mem.found THEN All(read.idx) = EntriesOf(q) ELSE read.idx = mem.idx
                           /\ ~mem.found /\ (mem.idx < 1 \/ mem.idx % 2 # 0) => read.idx_suggest = mem.idx_suggest
                           /\ \A i \in 0 .. wc - 1 : Files!SynEntry(read.syn, i).keystr = key[i]
                           /\ LET word == Files!GetSuggestWord(q, <<key[mem.idx_suggest], key[read.idx_suggest]>>)
                              IN Files!prefix_match(q, word) >= Match(read.idx_suggest)

\* Two words are never equal, and one before another is before all that is after it.
CollationOrders ==
    function = "collation" =>
        LET charsets == {[kind |-> "general"], [kind |-> "bin"]}
                \union {[kind |-> "uca", tables |-> Tables[l].tables] : l \in {"unicode", "czech", "danish", "roman"}}
            s == FlattenSeq(input)
            t == FlattenSeq(input2)
        IN /\ \A l \in DOMAIN Tables : Tables[l].ok
           /\ \A cs \in charsets :
                LET st == Coll!Collate(cs, s, t)
                IN /\ (st = 0) <=> (s = t)
                   /\ (st < 0) <=> Coll!Collate(cs, t, s) > 0
                   /\ st < 0 => \A u \in Letters["collation"] :
                        Coll!Collate(cs, t, u) < 0 => Coll!Collate(cs, s, u) < 0

\* No letter ends where one of two letters could begin.
NoneSplit(l, w) ==
    \A i \in 1 .. Len(w) - 1 :
        LET a == Alphabet[l][w[i]]
            b == Alphabet[l][w[i + 1]]
        IN <<Last(a), Head(b)>> \notin {<<99, 104>>, <<108, 108>>, <<97, 97>>}

\* The order of the alphabet of a language.
AlphabeticalOrder ==
    function \in DOMAIN Alphabet /\ NoneSplit(function, input) /\ NoneSplit(function, input2) =>
        LET cs == [kind |-> "uca", tables |-> Tables[function].tables]
            Word(w) == FlattenSeq([i \in DOMAIN w |-> Alphabet[function][w[i]]])
            Before(u, v) ==
                \E n \in 0 .. Len(u) :
                    /\ n < Len(v) /\ SubSeq(u, 1, n) = SubSeq(v, 1, n)
                    /\ n = Len(u) \/ u[n + 1] < v[n + 1]
        IN (Coll!Collate(cs, Word(input), Word(input2)) < 0) <=> Before(input, input2)

\* Whatever the collation, words are in one order, as halving a list of them needs;
\* in that of a language they are in the order of its alphabet, the letters that
\* the tailoring moves where it puts them.
WordsAreOrdered == CollationOrders /\ AlphabeticalOrder

\* The end of a text that is a word, or not.
IsEnd(w, n) == n = Len(w) \/ w[n + 1] = Pick!Blank
FirstOf(words, known) ==
    LET found == SelectSeq(words, LAMBDA w : w \in known) IN IF found = <<>> THEN <<>> ELSE found[1]

\* An English part: capitals, small letters, or small letters with a capital.
IsPart(w) ==
    /\ w # <<>> /\ \A i \in 2 .. Len(w) : Pick!IsAlpha(w[i])
    /\ \/ \A i \in DOMAIN w : Pick!IsUpper(w[i])
       \/ Pick!IsAlpha(w[1]) /\ \A i \in 2 .. Len(w) : Pick!IsLower(w[i])

\* Of the beginnings of a selected text that end with a word, the longest one in a
\* dictionary is answered.  Wherever a user points in a text, all that is tried is
\* around that place, its blank-delimited word first; in English an English part
\* that nothing adds to is tried, and beyond ASCII the longest word that begins
\* there is found.  Excepted is a capital before what is no letter.
SelectionIsFound ==
    function = "selection" /\ input # <<>> =>
        /\ LET w == Pick!Formatted(input)
               tried == Pick!SelectQueryWords(input)
               ends == {n \in 1 .. Len(w) : IsEnd(w, n) /\ w[n] # Pick!Blank}
           IN \A m, n \in ends :
                FirstOf(tried, {SubSeq(w, 1, m), SubSeq(w, 1, n)}) = SubSeq(w, 1, IF m > n THEN m ELSE n)
        /\ \A pos \in DOMAIN input :
            LET tried == Pick!SmartQueryWords(input, pos)
                text == [input EXCEPT ![pos] = IF @ = Pick!Dash THEN Pick!Blank ELSE @]
                from == Pick!Before(input, pos, LAMBDA c : c # Pick!Blank)
                end == Pick!After(input, pos, Len(input) + 1, LAMBDA c : c # Pick!Blank)
                whole == SubSeq(input, from, end - 1)
                Around(t, i, j, w) == i <= pos /\ pos <= j + 1 /\ SubSeq(t, i, j) = w
            IN /\ \A k \in DOMAIN tried :
                    \E i, j \in 1 .. Len(input) : Around(input, i, j, tried[k]) \/ Around(text, i, j, tried[k])
               /\ input[pos] # Pick!Blank => tried[1] = whole
               /\ Pick!IsAlpha(input[pos]) /\ Similar!bIsPureEnglish(whole) =>
                    \/ Pick!IsUpper(input[pos]) /\ pos < Len(input) /\ ~Pick!IsAlpha(input[pos + 1])
                    \/ \E i \in 1 .. pos, j \in pos .. Len(input) :
                        /\ SubSeq(input, i, j) \in ToSet(tried) /\ IsPart(SubSeq(input, i, j))
                        /\ i > 1 => ~IsPart(SubSeq(input, i - 1, j))
                        /\ j < Len(input) => ~IsPart(SubSeq(input, i, j + 1))
               /\ (\A i \in DOMAIN whole : whole[i] = 200) =>
                    \A m, n \in pos .. end - 1 :
                        FirstOf(tried, {SubSeq(input, pos, m), SubSeq(input, pos, n)})
                            = SubSeq(input, pos, IF m > n THEN m ELSE n)
=============================================================================
