------------------------------ MODULE DictTree ------------------------------
(***************************************************************************)
(* The tree of dictionaries of Libs: how LoadFromXML builds it from the    *)
(* stardictd.xml file of each directory, and what the server tells of it   *)
(* (dirinfo, fromto, dictinfo, getdictmask) and searches of it.            *)
(*                                                                         *)
(* A file is the sequence of events GMarkup makes of it: <<"start", el>>,  *)
(* <<"end", el>>, <<"text", el, value>>.  A directory is the sequence of   *)
(* names that leads to it; files maps those that have a file to it.  What  *)
(* the server sends is a sequence of events too: a <<"raw", el, value>> is *)
(* a text written without g_markup_escape_text, a <<"number", el, n>> a    *)
(* number, a <<"path", el, path>> a path.                                  *)
(***************************************************************************)
LOCAL INSTANCE Integers
LOCAL INSTANCE Sequences
LOCAL INSTANCE SequencesExt

CONSTANTS Books,      \* path of a dictionary that loads -> bookname, wordcount, synwordcount, date
          Spaced,     \* the uids that contain a space
          Unset,      \* an unsigned int that is not initialised
          Unsigned    \* 2^32: levels are unsigned int

AsInt(level) == IF level >= Unsigned \div 2 THEN level - Unsigned ELSE level

NoLibs == [dicts |-> <<>>, uidmap |-> <<>>]

\* ParseUserData, with the list of items and the dirname it fills.
NewParse == [indict |-> FALSE, inlinkdict |-> FALSE, path |-> "", uid |-> "", level |-> 0,
             download |-> "", from |-> "", to |-> "", linkuid |-> "", items |-> <<>>, dirname |-> ""]

StartElement(p, el) ==
    CASE el = "dict" -> [p EXCEPT !.indict = TRUE, !.path = "", !.uid = "", !.level = 0,
                                  !.download = "", !.from = "", !.to = ""]
      [] el = "linkdict" -> [p EXCEPT !.inlinkdict = TRUE, !.linkuid = ""]
      [] OTHER -> p

\* The dictionary that begins at <dict> is loaded at </dict>, its index being
\* its place among the loaded ones.  libs is [dicts, uidmap], s [libs, p].
AddDict(s) ==
    LET p == s.p
        id == Len(s.libs.dicts) + 1
        dict == [uid |-> p.uid, level |-> p.level % Unsigned, download |-> p.download,
                 from |-> p.from, to |-> p.to, path |-> p.path]
    IN IF p.path = "" \/ p.uid = "" \/ p.path \notin DOMAIN Books THEN s
       ELSE [libs |-> [dicts |-> Append(s.libs.dicts, dict),
                       uidmap |-> [u \in DOMAIN s.libs.uidmap \union {p.uid} |->
                                      IF u = p.uid THEN id ELSE s.libs.uidmap[u]]],
             p |-> [p EXCEPT !.items = Append(@, [isdir |-> 0, dict |-> id])]]

EndElement(s, el) ==
    CASE el = "dict" -> LET t == AddDict(s) IN [t EXCEPT !.p.indict = FALSE]
      [] el = "linkdict" ->
            LET t == [s EXCEPT !.p.inlinkdict = FALSE]
            IN IF s.p.linkuid = "" THEN t
               ELSE [t EXCEPT !.p.items = Append(@, [isdir |-> 2, linkuid |-> s.p.linkuid])]
      [] OTHER -> s

\* A mutant of TakeUid: the uids that are taken are not looked up.
TakeAnyUid(s, uid) ==
    IF s.p.indict
    THEN IF uid \in Spaced THEN s ELSE [s EXCEPT !.p.uid = uid]
    ELSE IF s.p.inlinkdict THEN [s EXCEPT !.p.linkuid = uid] ELSE s

\* A uid that another dictionary has, or that has a space, is not taken.
TakeUid(s, uid) ==
    IF s.p.indict
    THEN IF uid \in Spaced \union DOMAIN s.libs.uidmap THEN s ELSE [s EXCEPT !.p.uid = uid]
    ELSE IF s.p.inlinkdict THEN [s EXCEPT !.p.linkuid = uid] ELSE s

\* The links are not counted; a directory without a file keeps the dictcount the
\* constructor does not set, any number, and so does what it is added to.
CountDicts(items) ==
    LET Has(i) == CASE i.isdir = 1 -> i.dictcount [] i.isdir = 0 -> 1 [] i.isdir = 2 -> 0
    IN IF \E k \in DOMAIN items : Has(items[k]) = Unset THEN Unset
       ELSE FoldLeft(LAMBDA n, i : n + Has(i), 0, items)

RECURSIVE LoadXMLDir(_, _, _)
LoadXMLDir(files, dir, libs) ==
    LET Subdir(s, name) ==
            LET sub == LoadXMLDir(files, Append(dir, name), s.libs)
            IN [libs |-> sub.libs,
                p |-> [s.p EXCEPT !.items = Append(@, [isdir |-> 1, name |-> name, dirname |-> sub.dirname,
                                                       items |-> sub.items, dictcount |-> sub.dictcount])]]
        Text(s, el, v) ==
            CASE el = "subdir" -> Subdir(s, v)
              [] el = "uid" -> TakeUid(s, v)
              [] el \in {"dirname", "path", "level", "download", "from", "to"} -> [s EXCEPT !.p[el] = v]
              [] OTHER -> s
        Step(s, e) == CASE e[1] = "start" -> [s EXCEPT !.p = StartElement(@, e[2])]
                        [] e[1] = "end" -> EndElement(s, e[2])
                        [] e[1] = "text" -> Text(s, e[2], e[3])
        s == FoldLeft(Step, [libs |-> libs, p |-> NewParse], files[dir])
    IN IF dir \notin DOMAIN files
       THEN [libs |-> libs, items |-> <<>>, dirname |-> "", dictcount |-> Unset]
       ELSE [libs |-> s.libs, items |-> s.p.items, dirname |-> s.p.dirname,
             dictcount |-> CountDicts(s.p.items)]

\* Once all is loaded, a link gets the dictionary of its uid; one without is erased.
RECURSIVE GenLinkDict(_, _)
GenLinkDict(items, uidmap) ==
    LET Linked(i) == CASE i.isdir = 0 -> i
                       [] i.isdir = 1 -> [i EXCEPT !.items = GenLinkDict(@, uidmap)]
                       [] i.isdir = 2 -> [isdir |-> 2, dict |-> uidmap[i.linkuid]]
        kept == SelectSeq(items, LAMBDA i : i.isdir = 2 => i.linkuid \in DOMAIN uidmap)
    IN [k \in DOMAIN kept |-> Linked(kept[k])]

LoadFromXML(files) ==
    LET root == LoadXMLDir(files, <<>>, NoLibs)
    IN [libs |-> root.libs,
        root |-> [isdir |-> 1, name |-> "/", dirname |-> root.dirname, dictcount |-> root.dictcount,
                  items |-> GenLinkDict(root.items, root.libs.uidmap)]]

-----------------------------------------------------------------------------
\* A path is a sequence of "/" and names.  The names between the slashes are
\* followed, those that are empty skipped; what is after the last slash must be
\* empty.
NoDir == [items |-> <<>>, isdir |-> 3]

Follow(item, name) ==
    LET dirs == IF item = NoDir THEN <<>>
                ELSE SelectSeq(item.items, LAMBDA i : i.isdir = 1 /\ name = <<i.name>>)
    IN IF dirs = <<>> THEN NoDir ELSE dirs[1]

NamesOf(path) ==
    LET Add(names, c) == IF c = "/" THEN Append(names, <<>>)
                         ELSE [names EXCEPT ![Len(names)] = Append(@, c)]
    IN SelectSeq(FoldLeft(Add, <<<<>>>>, path), LAMBDA name : name # <<>>)

DirOf(tree, path) ==
    IF path = <<>> \/ path[1] # "/" \/ path[Len(path)] # "/" THEN NoDir
    ELSE FoldLeft(Follow, tree.root, NamesOf(path))

Element(el, v) == <<<<"text", el, v>>>>
Raw(el, v) == <<<<"raw", el, v>>>>
Number(el, n) == <<<<"number", el, n>>>>
Within(el, events) == <<<<"start", el>>>> \o events \o <<<<"end", el>>>>

\* An entry of a listing, and a dictionary as get_dicts_list has it.
DirEntry(dir) ==
    Within("dir", Raw("name", dir.name) \o Raw("dirname", dir.dirname) \o Number("dictcount", dir.dictcount))

DictEntry(dict, uid, marks) ==
    Within("dict", marks \o Raw("uid", uid)
                   \o Element("bookname", Books[dict.path].bookname)
                   \o Number("wordcount", Books[dict.path].wordcount))

LinkedEntry(tree, item) ==
    LET dict == tree.libs.dicts[item.dict]
        link == IF item.isdir = 2 THEN Raw("islink", "1") ELSE <<>>
        level == IF dict.level # 0 THEN Number("level", dict.level) ELSE <<>>
    IN DictEntry(dict, dict.uid, link \o level)

Listing(tree, dir, path) ==
    <<<<"path", "parent", path>>>>
    \o FlattenSeq([i \in DOMAIN dir.items |->
           IF dir.items[i].isdir = 1 THEN DirEntry(dir.items[i]) ELSE LinkedEntry(tree, dir.items[i])])

NoInfo == <<>>

\* A mutant of GetDirInfo: the listing is added to that of the directory.
GetDirInfoAdded(tree, infos, path) ==
    LET dir == DirOf(tree, path)
        names == NamesOf(path)
        info == (IF names \in DOMAIN infos THEN infos[names] ELSE <<>>) \o Listing(tree, dir, path)
    IN IF dir = NoDir THEN [infos |-> infos, info |-> NoInfo]
       ELSE [infos |-> [n \in DOMAIN infos \union {names} |-> IF n = names THEN info ELSE infos[n]],
             info |-> info]

\* dirinfo: the listing a directory is given first is kept with it, the path it
\* was asked for under included.  infos maps directories, as NamesOf, to them.
GetDirInfo(tree, infos, path) ==
    LET dir == DirOf(tree, path)
        names == NamesOf(path)
        info == IF names \in DOMAIN infos THEN infos[names] ELSE Listing(tree, dir, path)
    IN IF dir = NoDir THEN [infos |-> infos, info |-> NoInfo]
       ELSE [infos |-> [n \in DOMAIN infos \union {names} |-> IF n = names THEN info ELSE infos[n]],
             info |-> info]

DirInfo(tree, infos, path, userLevel) ==
    LET r == GetDirInfo(tree, infos, path)
    IN [r EXCEPT !.info = IF @ = NoInfo THEN NoInfo ELSE Number("userlevel", userLevel) \o @]

\* fromto: for each language the languages it is translated to, in the order of
\* the tree, each with its dictionaries.  A linked dictionary is there again.
RECURSIVE GenFromTo(_, _, _)
GenFromTo(tree, items, map) ==
    LET AddTo(tos, to, uid) ==
            IF \E i \in DOMAIN tos : tos[i].to = to
            THEN [i \in DOMAIN tos |-> IF tos[i].to = to THEN [tos[i] EXCEPT !.uids = Append(@, uid)] ELSE tos[i]]
            ELSE Append(tos, [to |-> to, uids |-> <<uid>>])
        Add(m, i) ==
            IF i.isdir = 1 THEN GenFromTo(tree, i.items, m)
            ELSE LET d == tree.libs.dicts[i.dict]
                     old == IF d.from \in DOMAIN m THEN m[d.from] ELSE <<>>
                 IN IF d.from = "" \/ d.to = "" THEN m
                    ELSE [f \in DOMAIN m \union {d.from} |->
                             IF f = d.from THEN AddTo(old, d.to, d.uid) ELSE m[f]]
    IN FoldLeft(Add, map, items)

FromTo(tree) == GenFromTo(tree, tree.root.items, <<>>)

-----------------------------------------------------------------------------
GetDictLevel(tree, uid) ==
    IF uid \in DOMAIN tree.libs.uidmap THEN AsInt(tree.libs.dicts[tree.libs.uidmap[uid]].level) ELSE -1

\* getdictmask, dictslist: mask is the sequence of its uids.
GetDictsList(tree, mask, max, userLevel) ==
    LET listed == SelectSeq(mask, LAMBDA u : GetDictLevel(tree, u) \in 0 .. userLevel)
        first == SubSeq(listed, 1, IF Len(listed) < max THEN Len(listed) ELSE max)
    IN FlattenSeq([i \in DOMAIN first |->
           DictEntry(tree.libs.dicts[tree.libs.uidmap[first[i]]], first[i], <<>>)])

\* A mutant of SetServerDictMask: dictionaries above the level count too.
SetServerDictMaskCounted(tree, mask, max, userLevel) ==
    LET known == SelectSeq(mask, LAMBDA u : u \in DOMAIN tree.libs.uidmap)
        first == SubSeq(known, 1, IF max >= 0 /\ Len(known) > max THEN max ELSE Len(known))
        Allowed(u) == userLevel < 0 \/ userLevel >= tree.libs.dicts[tree.libs.uidmap[u]].level
        allowed == SelectSeq(first, Allowed)
    IN [i \in DOMAIN allowed |-> tree.libs.uidmap[allowed[i]]]

\* The dictionaries a session searches, by their index; the level is not asked
\* for if userLevel is negative, and a negative max is none.
SetServerDictMask(tree, mask, max, userLevel) ==
    LET known == SelectSeq(mask, LAMBDA u : u \in DOMAIN tree.libs.uidmap)
        Take(ids, u) ==
            LET id == tree.libs.uidmap[u]
            IN IF max >= 0 /\ Len(ids) >= max THEN ids
               ELSE IF userLevel >= 0 /\ userLevel < tree.libs.dicts[id].level THEN ids
               ELSE Append(ids, id)
    IN FoldLeft(Take, <<>>, known)

\* dictinfo: as the .ifo file has it, and where it is downloaded.
GetDictInfo(tree, uid) ==
    LET dict == tree.libs.dicts[tree.libs.uidmap[uid]]
        book == Books[dict.path]
        synonyms == IF book.synwordcount = 0 THEN <<>> ELSE Number("synwordcount", book.synwordcount)
    IN IF uid \notin DOMAIN tree.libs.uidmap THEN NoInfo
       ELSE Within("dictinfo", Element("bookname", book.bookname) \o Number("wordcount", book.wordcount)
                \o synonyms \o Element("date", book.date) \o Element("download", dict.download))
=============================================================================
