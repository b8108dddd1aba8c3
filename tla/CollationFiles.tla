--------------------------- MODULE CollationFiles ---------------------------
(***************************************************************************)
(* What the children of one master share besides the database.             *)
(*                                                                         *)
(* The master opens every .idx and .syn file before it forks, so that all  *)
(* children read a file at one offset, the kernel's: load_page() moves it  *)
(* in fseek() and uses it in fread().                                      *)
(*                                                                         *)
(* collate_load() (stddict.cpp 708-725) maps the .clt file with the words  *)
(* of a dictionary sorted by a collation function, or sorts them itself,   *)
(* which reads every page, and saves the file.  The file lies beside the   *)
(* dictionary, or in the user's cache directory under the dictionary's     *)
(* base name, numbered if the files before it belong to others.  stdio     *)
(* writes a file in blocks: the head with the number of entries, the       *)
(* middle, and the tail with the magic string and the url.  A child may be *)
(* killed between any two of these steps.                                  *)
(*                                                                         *)
(* A child uses one dictionary and one collation function; it meets those  *)
(* that use others in files only.  All dictionaries have the same base     *)
(* name and equally long .clt files: files of other names never meet, and  *)
(* files of other lengths are rejected.                                    *)
(***************************************************************************)
EXTENDS Integers, Sequences

CONSTANTS
    Children,   \* processes
    Dicts,      \* index files
    Writable,   \* those in directories that the server may write to
    Pages,      \* pages of an index file
    Blocks,     \* blocks of a .clt file, two or more
    Copies      \* bound on the numbers base, base(2), ... of files in the cache directory

ASSUME CollationAssumption ==
    /\ Writable \subseteq Dicts
    /\ Pages \in Nat \ {0} /\ Copies \in Nat \ {0}
    /\ Blocks \in Nat /\ Blocks >= 2

Zero == <<"zero", FALSE>>        \* a block nobody has written yet, before one that is written
NoSort == <<"no sort", -1>>
Memory == <<"memory", -1>>

\* Where a .clt file may lie: beside dictionary d, or in the cache directory.
Places == (Dicts \X {0}) \cup ({"cache"} \X (1 .. Copies))

\* A block of a sort of dictionary d that has, or has not, its words in order.
Contents == {Zero} \cup (Dicts \X BOOLEAN)

VARIABLES
    offset,     \* offset[d]: the page that the offset of index file d stands at
    file,       \* file[p]: the blocks of the file; a file without any need not exist
    pc,         \* what child c does: see Steps
    dict,       \* the dictionary it uses
    page,       \* page.idx
    exact,      \* the page in memory is the page page.idx
    sought,     \* between fseek() and fread() of page want
    want,       \* the page it needs
    saving,     \* it looks for a file to save to, not to load
    nth,        \* the number of the file it looks at, 0 for the one beside the dictionary
    seen,       \* st_size of that file
    sort,       \* the sort it made has the words in order
    view,       \* where wordoffset points to: NoSort, Memory or a file
    right,      \* what the last lookup has read, entry or word, is right
    crossed,    \* history: index files that two children were reading at once
    mixed       \* history: .clt files opened for writing while others wrote or used them

cacheVars == <<saving, nth, seen>>
pageVars == <<page, exact, sought, want>>
useVars == <<sort, view, right>>
vars == <<offset, file, pc, dict, cacheVars, pageVars, useVars, crossed, mixed>>

Steps == {"none", "dead", "ready", "stat", "check", "sort", "open", "write", "lookup"}

Init ==
    /\ offset = [d \in Dicts |-> Pages + 1]
    /\ file = [p \in Places |-> <<>>]
    /\ pc = [c \in Children |-> "none"]
    /\ dict \in [Children -> Dicts]
    /\ page = [c \in Children |-> Pages] /\ exact = [c \in Children |-> TRUE]
    /\ sought = [c \in Children |-> FALSE] /\ want = [c \in Children |-> Pages]
    /\ saving = [c \in Children |-> FALSE]
    /\ nth = [c \in Children |-> 0] /\ seen = [c \in Children |-> 0]
    /\ sort = [c \in Children |-> TRUE] /\ view = [c \in Children |-> NoSort]
    /\ right = [c \in Children |-> TRUE]
    /\ crossed = {} /\ mixed = {}

\* The place of number n among those of dictionary d.
PlaceOf(d, n) == IF n = 0 THEN <<d, 0>> ELSE <<"cache", n>>
Place(c) == PlaceOf(dict[c], nth[c])

Go(c, step) == pc' = [pc EXCEPT ![c] = step]

-----------------------------------------------------------------------------
(* Processes come and go.                                                  *)

\* A child starts with what the master had in memory: the last page, which load()
\* has read, and no sort.
Fork(c) ==
    /\ pc[c] = "none"
    /\ Go(c, "ready")
    /\ UNCHANGED <<offset, file, dict, cacheVars, pageVars, useVars, crossed, mixed>>

\* A signal, the end of the session, or SIGBUS.  exit() writes no more than part
\* of what was still to be written.
Die(c) ==
    /\ Go(c, "dead")
    /\ page' = [page EXCEPT ![c] = Pages] /\ exact' = [exact EXCEPT ![c] = TRUE]
    /\ sought' = [sought EXCEPT ![c] = FALSE] /\ want' = [want EXCEPT ![c] = Pages]
    /\ saving' = [saving EXCEPT ![c] = FALSE]
    /\ nth' = [nth EXCEPT ![c] = 0] /\ seen' = [seen EXCEPT ![c] = 0]
    /\ sort' = [sort EXCEPT ![c] = TRUE] /\ view' = [view EXCEPT ![c] = NoSort]
    /\ right' = [right EXCEPT ![c] = TRUE]
    /\ UNCHANGED <<offset, file, dict, crossed, mixed>>

Kill(c) == pc[c] \notin {"none", "dead"} /\ Die(c)

-----------------------------------------------------------------------------
(* load_page(), in the two steps that others may come between.             *)

\* fseek() moves the offset of the file.
Seek(c) ==
    /\ pc[c] \in {"sort", "lookup"} /\ page[c] # want[c] /\ ~sought[c]
    /\ sought' = [sought EXCEPT ![c] = TRUE]
    /\ offset' = [offset EXCEPT ![dict[c]] = want[c]]
    /\ crossed' = IF \E o \in Children \ {c} : sought[o] /\ dict[o] = dict[c]
                  THEN crossed \cup {dict[c]} ELSE crossed
    /\ UNCHANGED <<file, pc, dict, cacheVars, page, exact, want, useVars, mixed>>

After(p) == IF p > Pages THEN p ELSE p + 1

\* fread() reads where the offset stands, and page.fill() takes it for page want.
Read(c) ==
    /\ sought[c]
    /\ sought' = [sought EXCEPT ![c] = FALSE]
    /\ page' = [page EXCEPT ![c] = want[c]]
    /\ exact' = [exact EXCEPT ![c] = offset[dict[c]] = want[c]]
    /\ offset' = [offset EXCEPT ![dict[c]] = After(@)]
    /\ UNCHANGED <<file, pc, dict, cacheVars, want, useVars, crossed, mixed>>

\* Mutant: the page in memory is taken for the page wanted.
AnyPageLoaded(c) == ~sought[c]

\* The page is in memory: load_page() has returned.
PageLoaded(c) == ~sought[c] /\ page[c] = want[c]

-----------------------------------------------------------------------------
(* collate_load()                                                          *)

CollateLoad(c) ==
    /\ pc[c] = "ready" /\ view[c] = NoSort
    /\ Go(c, "stat")
    /\ saving' = [saving EXCEPT ![c] = FALSE] /\ nth' = [nth EXCEPT ![c] = 0]
    /\ UNCHANGED <<offset, file, dict, seen, pageVars, useVars, crossed, mixed>>

\* The file cannot be used.  A load tries the cache directory next and then sorts;
\* a save takes the file.
Unusable(c) ==
    \/ /\ saving[c]
       /\ Go(c, "open")
       /\ UNCHANGED <<nth, want, sort>>
    \/ /\ ~saving[c] /\ nth[c] = 0
       /\ Go(c, "stat")
       /\ nth' = [nth EXCEPT ![c] = 1]
       /\ UNCHANGED <<want, sort>>
    \/ /\ ~saving[c] /\ nth[c] > 0
       /\ Go(c, "sort")
       /\ want' = [want EXCEPT ![c] = 1] /\ sort' = [sort EXCEPT ![c] = TRUE]
       /\ UNCHANGED nth

\* g_stat(): there is no file, or an empty one, which mmap() refuses; or there is
\* something to check.
Stat(c) ==
    /\ pc[c] = "stat"
    /\ seen' = [seen EXCEPT ![c] = Len(file[Place(c)])]
    /\ \/ /\ file[Place(c)] = <<>>
          /\ Unusable(c)
       \/ /\ file[Place(c)] # <<>>
          /\ Go(c, "check")
          /\ UNCHANGED <<nth, want, sort>>
    /\ UNCHANGED <<offset, file, dict, saving, page, exact, sought, view, right,
                   crossed, mixed>>

\* Mutant: the checks that find a file too short are left out.
AcceptsPartial(c) ==
    /\ file[Place(c)][1] # Zero
    /\ file[Place(c)][seen[c]] # Zero

\* The checks of get_cache_loadfile() before the url: the number of entries leads
\* to the magic string, and the file ends where the url does.
WellFormed(c) ==
    /\ seen[c] = Blocks
    /\ file[Place(c)][1] # Zero
    /\ file[Place(c)][Blocks] # Zero

\* Mutant: files are told apart by their base name.
OwnByName(c) == TRUE

\* The url in the file is the dictionary's.
Own(c) == file[Place(c)][seen[c]][1] = dict[c]

\* The file is right: it is mapped, or written anew.
Found(c) ==
    /\ WellFormed(c) /\ Own(c)
    /\ \/ /\ ~saving[c]
          /\ Go(c, "ready")
          /\ view' = [view EXCEPT ![c] = Place(c)]
          /\ nth' = [nth EXCEPT ![c] = 0]
       \/ /\ saving[c]
          /\ Go(c, "open")
          /\ UNCHANGED <<nth, view>>
    /\ UNCHANGED <<want, sort>>

\* The file is that of another dictionary: it looks at the next one, within the
\* bound.
NextName(c) ==
    /\ WellFormed(c) /\ ~Own(c)
    /\ nth[c] < Copies
    /\ nth' = [nth EXCEPT ![c] = nth[c] + 1]
    /\ Go(c, "stat")
    /\ UNCHANGED <<want, sort, view>>

Malformed(c) == ~WellFormed(c) /\ Unusable(c) /\ UNCHANGED view

\* The file is mapped at the size seen before, and checked.  The child does not
\* survive if the file has become shorter.
Check(c) ==
    /\ pc[c] = "check"
    /\ \/ /\ Len(file[Place(c)]) < seen[c]
          /\ Die(c)
       \/ /\ Len(file[Place(c)]) >= seen[c]
          /\ Found(c) \/ NextName(c) \/ Malformed(c)
          /\ seen' = [seen EXCEPT ![c] = 0]
          /\ UNCHANGED <<offset, file, dict, saving, page, exact, sought, right,
                         crossed, mixed>>

\* Another page of the words to be sorted.
SortPage(c) ==
    /\ pc[c] = "sort" /\ PageLoaded(c) /\ want[c] < Pages
    /\ sort' = [sort EXCEPT ![c] = @ /\ exact[c]]
    /\ want' = [want EXCEPT ![c] = @ + 1]
    /\ UNCHANGED <<offset, file, pc, dict, cacheVars, page, exact, sought, view, right, crossed, mixed>>

\* The words are sorted; save_cache() begins, beside the dictionary.
Sorted(c) ==
    /\ pc[c] = "sort" /\ PageLoaded(c) /\ want[c] = Pages
    /\ sort' = [sort EXCEPT ![c] = @ /\ exact[c]]
    /\ view' = [view EXCEPT ![c] = Memory]
    /\ saving' = [saving EXCEPT ![c] = TRUE] /\ nth' = [nth EXCEPT ![c] = 0]
    /\ Go(c, "stat")
    /\ UNCHANGED <<offset, file, dict, seen, pageVars, right, crossed, mixed>>

\* fopen(..., "wb") fails: the cache directory is next.
OpenFails(c) ==
    /\ pc[c] = "open" /\ nth[c] = 0 /\ dict[c] \notin Writable
    /\ nth' = [nth EXCEPT ![c] = 1]
    /\ Go(c, "stat")
    /\ UNCHANGED <<offset, file, dict, saving, seen, pageVars, useVars, crossed, mixed>>

\* fopen(..., "wb") empties the file, for those who write or map it as well.
Open(c) ==
    /\ pc[c] = "open" /\ (nth[c] = 0 => dict[c] \in Writable)
    /\ file' = [file EXCEPT ![Place(c)] = <<>>]
    /\ mixed' = IF \E o \in Children \ {c} : \/ pc[o] = "write" /\ Place(o) = Place(c)
                                             \/ view[o] = Place(c)
                THEN mixed \cup {Place(c)} ELSE mixed
    /\ seen' = [seen EXCEPT ![c] = 0]
    /\ Go(c, "write")
    /\ UNCHANGED <<offset, dict, saving, nth, pageVars, useVars, crossed>>

\* The file s with x as its block i.  What was never written before it reads as zeros.
WithBlock(s, i, x) ==
    [j \in 1 .. (IF Len(s) < i THEN i ELSE Len(s)) |->
        IF j = i THEN x ELSE IF j <= Len(s) THEN s[j] ELSE Zero]

\* A block, at the child's own offset in the file.
WriteBlock(c) ==
    file' = [file EXCEPT ![Place(c)] = WithBlock(@, seen[c] + 1, <<dict[c], sort[c]>>)]

Write(c) ==
    /\ pc[c] = "write" /\ seen[c] + 1 < Blocks
    /\ WriteBlock(c)
    /\ seen' = [seen EXCEPT ![c] = @ + 1]
    /\ UNCHANGED <<offset, pc, dict, saving, nth, pageVars, useVars, crossed, mixed>>

\* The last block, and fclose().
WriteLast(c) ==
    /\ pc[c] = "write" /\ seen[c] + 1 = Blocks
    /\ WriteBlock(c)
    /\ Go(c, "ready")
    /\ saving' = [saving EXCEPT ![c] = FALSE]
    /\ nth' = [nth EXCEPT ![c] = 0] /\ seen' = [seen EXCEPT ![c] = 0]
    /\ UNCHANGED <<offset, dict, pageVars, useVars, crossed, mixed>>

-----------------------------------------------------------------------------
(* A lookup reads entries of the sort and the words they stand for.        *)

\* An entry in block i: of the index itself if no collation function is set, of the
\* child's own sort, or of the file as it is now.
Lookup(c) ==
    /\ pc[c] = "ready"
    /\ \E i \in 1 .. Blocks :
          \/ /\ view[c] \in Places /\ Len(file[view[c]]) < i
             /\ Die(c)
          \/ /\ view[c] \in Places => Len(file[view[c]]) >= i
             /\ right' = [right EXCEPT ![c] =
                    IF view[c] \in Places THEN file[view[c]][i] = <<dict[c], TRUE>> ELSE sort[c]]
             /\ \E q \in 1 .. Pages : want' = [want EXCEPT ![c] = q]
             /\ Go(c, "lookup")
             /\ UNCHANGED <<offset, file, dict, cacheVars, page, exact, sought, sort, view, crossed, mixed>>

\* get_key() returns the word.
Answer(c) ==
    /\ pc[c] = "lookup" /\ PageLoaded(c)
    /\ right' = [right EXCEPT ![c] = @ /\ exact[c] /\ page[c] = want[c]]
    /\ Go(c, "ready")
    /\ UNCHANGED <<offset, file, dict, cacheVars, pageVars, sort, view, crossed, mixed>>

Next == \E c \in Children :
    \/ Fork(c) \/ Kill(c)
    \/ Seek(c) \/ Read(c)
    \/ CollateLoad(c) \/ Stat(c) \/ Check(c) \/ SortPage(c) \/ Sorted(c)
    \/ OpenFails(c) \/ Open(c) \/ Write(c) \/ WriteLast(c)
    \/ Lookup(c) \/ Answer(c)

Spec == Init /\ [][Next]_vars

-----------------------------------------------------------------------------
(* Properties.                                                             *)

IsFile(s) == s \in Seq(Contents) /\ Len(s) <= Blocks

TypeOK ==
    /\ offset \in [Dicts -> 1 .. Pages + 1]
    /\ DOMAIN file = Places /\ \A p \in Places : IsFile(file[p])
    /\ pc \in [Children -> Steps] /\ dict \in [Children -> Dicts]
    /\ page \in [Children -> 1 .. Pages] /\ exact \in [Children -> BOOLEAN]
    /\ sought \in [Children -> BOOLEAN] /\ want \in [Children -> 1 .. Pages]
    /\ saving \in [Children -> BOOLEAN]
    /\ nth \in [Children -> 0 .. Copies] /\ seen \in [Children -> 0 .. Blocks]
    /\ sort \in [Children -> BOOLEAN]
    /\ view \in [Children -> {NoSort, Memory} \cup Places]
    /\ right \in [Children -> BOOLEAN]
    /\ crossed \subseteq Dicts /\ mixed \subseteq Places

\* The sort that child c uses has the words of its dictionary in order.
UsesRightSort(c) ==
    /\ view[c] = Memory => sort[c]
    /\ view[c] \in Places => file[view[c]] = [i \in 1 .. Blocks |-> <<dict[c], TRUE>>]

\* Whatever files others with the same name have left, complete or cut off where a
\* child was killed, a child uses the sort of its own dictionary, all of it and in
\* order, unless two children have read the index at once or the file was opened
\* for writing while another wrote or mapped it.
SortsAreRight ==
    \A c \in Children :
        dict[c] \notin crossed /\ view[c] \notin mixed => UsesRightSort(c)

\* Under the same conditions every word a lookup reads is the one it asked for.
WordsAreRight ==
    \A c \in Children : dict[c] \notin crossed /\ view[c] \notin mixed => right[c]

\* DEFINE finds the word in the dictionaries that have it (StarDict-Protocol_v04, 2.7):
\* a lookup reads the words of the index.
LookupReadsWords == \A c \in Children : right[c]

=============================================================================
