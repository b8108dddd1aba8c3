# stardictd in TLA+

A verification development for the StarDict dictionary server (`stardictd`),
its protocol and its command line client (`stardict-client`). Paths below are
relative to `src/source_codes/`; `S` stands for `stardictd/src`, `L` for
`stardictd/src/lib` and `C` for `stardict-client/src`.

## 1. The system

`stardictd` serves dictionaries over a line protocol (`stardictd/doc/StarDict-Protocol_v04`).
One **master process** (`S/stardictdmain.cpp`, `run`) loads the dictionaries, listens, and
forks **one process per connection**. Each child runs a **command loop** (`S/daemon.cpp`,
`_handleconn`) with a little state of its own (who is logged in, which dictionaries it
searches, which collation), shares with its siblings **one MySQL database**, **one directory
of cache files** and **the offsets of the index files the master opened**, and ends at `quit`, at the client's end of file, or at an
alarm signal. Queries go to the **dictionary library** (`L/stddict.cpp`), which reads
dictionary files through paged indexes, a decompressing reader and several small caches.

### Inventory

| Component | Source | State | Operations | Hard behaviour |
|---|---|---|---|---|
| Master process | `S/stardictdmain.cpp` 25-187, `S/main.cpp`, `S/net.cpp` 52-85 | `_dict_forks`, `_dict_reaps`, `childSocket`, `_is_daemon`, the listening socket | accept, count, fork for full service / for 420 / not at all, reap, terminate on signal | a signal handler interrupts `run` anywhere; SIGCHLD coalesces; the count is read before the fork it decides; `fork` fails; counters are C ints |
| Command loop | `S/daemon.cpp` 870-1070, `S/net.cpp` 113-164 | the alarm, the line buffer, the socket | read a line, split, dispatch, reply; terminate | SIGALRM/SIGPIPE end a child between any two statements, database updates included |
| Session and accounts | `S/daemon.cpp` 23-713, `S/main.cpp` 189-210, `S/db.cpp` | `auth_user`, `userID`, `userLevel`, `query_dictmask`, `servercollatefunc`, `UserLang`; tables `stardict_users`, `user_basic` | client, auth, register, change_password, set/get dictmask, collatefunc, language, email, userlevel, tmpdictmask, queries with their dict mask check | several sessions on one database, each command several SQL statements without a transaction; statements fail; replies already sent when a later statement fails |
| Dictionary mask | `L/stddict.cpp` 1911-2080 | the map uid -> dictionary | SetServerDictMask, LoadCollateFile, get_dicts_list | duplicates, unknown and forbidden dictionaries, the count limit |
| Index lookup | `L/stddict.cpp` 44-270, 720-1248 | offset table, one page buffer, page cache | lookup of a word with suggestion, page load, synonym index | binary search over page heads then inside a page; a page buffer that is valid for one page only; first/last boundaries |
| Merged word list | `L/stddict.cpp` 1261-1514, 2177-2954 | one cursor per dictionary and per synonym file | current, next and previous word over several dictionaries, similar word | cursors at both ends, synonyms, INVALID and UNSET indexes, equal words in several dictionaries |
| Search | `L/stddict.cpp` 2956-3303, `L/distance.cpp` | the bounded list of best candidates | fuzzy, pattern, regular expression and full text search | a bounded list with replacement, early exit, limits of result buffers |
| Article data | `L/data.cpp`, `L/dictziplib.cpp` | ring of 10 articles, LRU cache of decompressed chunks | GetWordData, SearchData, read of a byte range | ring keyed by offset only, answers are copies made at once (`stardict_datadup`), chunk boundaries |
| Collation files | `L/stddict.cpp` 265-725, `L/mapfile.hpp` | `.oft` and `.clt` files in a shared cache directory, the offsets of open index files | load, check, sort, save, load_page | children write and read the same file without lock or rename, and read index files through one offset |
| Dictionary tree | `L/stddict.cpp` 1516-1909 | directories, dictionaries, levels, cached listing strings | LoadFromXML, GenLinkDict, get_dir_info, get_fromto_info | links to dictionaries that do not exist, counts, cached strings |
| Query dispatch | `S/stardictdmain.cpp` 212-889, `L/lib.cpp` | the words found | lookup, define, selectquery, smartquery, next, previous | which search a query string selects, the shape of the reply |
| Client | `C/command.cpp`, `C/stardict-client.cpp`, `C/net.cpp` | queue of commands, reply of each, the server's stamp and key | make_command, process_banner, process_command, parsers | one reply per command or the streams get out of step; commands encrypted before the banner brings the key |
| Similar words | `L/stddict.cpp` 2520-2970 | - | LookupSimilarWord, LookupSynonymSimilarWord | the order in which variants are tried, what a failed one leaves behind |
| Escaping | `L/lib.cpp` 7-64, `S/daemon.cpp` 899-931, `C/command.cpp` 28-43 | - | analyse_query, args_new, arg_escape | escapes within escapes, at the end of a line |
| Markup | `C/printdata.cpp` | the open marks of an article | HTML of plain text, PowerWord, xdxf, Pango | marks nested, crossed and left open; errors of the parser ignored |
| Configuration, logging | `S/conf.cpp`, `S/log.cpp` | - | read once at start | none: read before the first fork |
| Collation tables | `L/collation.cpp`, `L/ctype-*.cpp` | the tailored tables of each language | utf8_collate, create_tailoring, the scanner of weights | contractions, ties, illegal sequences |
| MD5 | `S/md5.c`, `C/md5.c` | block in hand, count of bits | MD5Init, MD5Update, MD5Final | pieces that fill a block, no room for the length |
| RSA | `S/rsa.cpp`, `C/rsa.cpp` | - | a cipher for passwords | not modelled, see 5 |
| Web front end | `stardict.org/` | PHP sessions | forms that run `stardict-client` | not modelled: every request is one run of the client |
| Tools | `S/tools` | - | generate the XML tree, unzip | not modelled: one-shot scripts |

Interactions: the kernel delivers connections and signals to the master; the master gives a
child the connection and a copy of its memory; children meet in the database (SQL statements,
each atomic, no transactions), in the cache directory and in the kernel's offsets of the files
that were open before the fork; client and child meet in a byte
stream in which every command is answered by one status line and its data.

What makes each component correct, in one line:

- master: never more processes than the limit, every client is answered or closed, every zombie
  is collected, the counters tell the number of processes whatever interrupts what;
- sessions: one reply for each command, who a session is and what it may search agree, accounts
  are created whole and are not mixed up between sessions;
- index: a lookup finds a word exactly if it is there, and otherwise its place;
- collation files: a child uses the sort of its own dictionary, whole;
- word list: the words of all dictionaries in order, each once, none left out;
- article data: the bytes answered are those of the article;
- search: the candidates kept are the best ones, whatever order they come in;
- tree: no link leads nowhere, every listing shows what there is and opens what it shows;
- client: replies stay in step with commands, what was sent is shown, the client ends;
- functions: what one side writes the other reads back, and words have one order.

## 2. The modules

| Module | Models | Composes or implements |
|---|---|---|
| `Admission` | abstract: what the process pool promises | - |
| `ProcessPool` | master process, its children, the kernel's part | implements `Admission` |
| `Accounts` | sessions and database | - |
| `IndexLookup` | paged index of one dictionary | - |
| `WordList` | abstract: what a word list promises | - |
| `WordNavigation` | several dictionaries merged, page buffers | implements `WordList`; starts from what `IndexLookup` returns |
| `ArticleData` | ring of articles, cache of chunks, BuildResultData | - |
| `CollationFiles` | children sorting, saving, mapping and reading | the processes of `ProcessPool`, the pages of `IndexLookup` |
| `Protocol` | one run of the client and its session | the status lines of `Accounts` with the queries of the library |
| `WordSearch` | fuzzy, pattern and article search over the files of a mask | the distance of `EditDistance` as a function |
| `EditDistance`, `SimilarWord`, `Selection`, `WordFiles`, `Collation` | words: distance, variants, parts of a selection, lists in memory and by pages, order | `WordFiles` uses `SimilarWord`'s order, `Selection` its test for English |
| `Escaping`, `MD5` | parameters, queries, digests | - |
| `Inputs` | every input of a function, and what `EditDistance`, `Escaping`, `MD5`, `Sections`, `DzHeader` and `SimilarWord` promise for it | their instances |
| `DictTree`, `DictPages` | tree of dictionaries, what the client shows of it | joined in `MCFunctions`: what is shown opens |
| `Sections`, `DzHeader`, `Markup` | inside of an article, header of its file, its HTML | `Sections` writes as the server and reads as the client |
| `*Proofs` | theorems about the module they extend | - |
| `MC*` | the instances TLC checks | - |

### 2.1 ProcessPool and Admission

`master` is the place in `run()`: at `accept`, between reading the counters and using them
(`CountDaemons`), at the fork (`ForkServing`, `ForkRefusing`, `ForkFails`, `TooBusy`). `forks` and
`reaps` are `_dict_forks` and `_dict_reaps` in counters of `CounterSize` values. `reaping` is TRUE
while the handler runs: `run()` stands still then, which is all a handler does in a single thread.
`sigchld` is one bit, so that signals coalesce. `proc` and `client` are the two ends of each
connection; `Greet`, `Refuse`, `EndSession` are a child's life, `Killed` its end by a signal at any
step of it, `InitReaps` the reaping of orphans after the master is gone. A client may hang up at any
time (`HangUp`); its connection stays where it is, in the backlog, in the master's hand or with a
process, until somebody closes it. `TooBusy` ends the master as the code does.

`Admission` has neither counters nor a master: at most `Limit` connections hold a process, and a
client that was given one and stays hears from it, unless the process is killed before ("lost"); a
connection that ends without a status line for any other reason ("cut") never held a process.
`ProcessPool` implements it with `holders <- Procs, view <- client`.

### 2.2 Accounts

One action for the checks of a command before its first statement (`AuthUser`, `Register`, ...) and
one for each SQL statement (`AuthSelect`, `AuthBasic`, ...). `job[s]` is the command in hand: its
parameters and `at`, the statement to be executed. A statement returns, fails, or is executed and
its answer lost (`Faults`); the process may end at every step (`Terminate`). `loaded` records the
collation files that `SetDictMask` and `SetServerCollateFunc` have asked for.
`guest` is what the configuration's `guest-user/dictmask` names, possibly nothing (`conf.cpp:19`): it
is chosen at the start and never changes. `QueriesHaveDictionaries` says of each step that answers a
query OK that there is something to search, and names the one exception of `check_dictmask`.

Abstractions: the names `root`, `guest` and the empty name are not in `Names` (rows of these names
are not created by `register`); the AUTO_INCREMENT bound `MaxUsers` counts as an INSERT that fails;
columns a row is created without are level 0 and the empty mask, as MySQL fills them in when it is
not in strict mode (`etc/stardict.sql` declares them NOT NULL without defaults); a key stands for
the password it was made from; email, language and time are left out.

### 2.3 IndexLookup

The variables are those of `offset_index::lookup`: `from`, `to`, `idx`, `suggest`, `best`, `found`;
`page` is the page in memory. One action for each turn of each loop (`ProbePage`, `ProbeEntry`,
`WalkBack`) and one for each change of loop. `GetKey` is a read by anyone else, which leaves some
page in memory before the next lookup. A key is an integer, its order that of `stardict_strcmp`,
and `Match[q][k]` what `prefix_match` counts. Nothing relates the two: the order folds ASCII letters
only, `prefix_match` all of them, so that the last word before the place need not be the best (of
Иванова and Киев before яблоко, "иванов" agrees with the first only, and the walk back never gets
there). `SuggestsBestOfWalk` therefore says what the code gives for any `Match`: the word suggested is
the end of a walk in which the agreement never falls, or the place itself; and it is the best word
before the place for the queries whose matches do go with the order (`OrderGoesWithMatch`).
`synonym_file::lookup` is the same code on another file.
The module reads an index alone; what happens when several children read one is in CollationFiles.

### 2.4 WordNavigation and WordList

The cursors `iCurrent` are one row `cur` with a column for each index and each synonym file, in the
order in which the loops go through them. `ptr` is `poCurrentWord`: not a word but a place in the
page buffer of a file; `page` says which page that buffer holds. A pointer to a page that is no
longer there reads any word. After a lookup the cursors may be anywhere that
`LookupSimilarWord` may leave them. A mask may name a dictionary twice (`SetServerDictMask` takes what
it is given), and then two columns stand in one file. `goal` and `fresh` are history: the words that
the list should send, and whether each word read through `ptr` was still the one it was set to.

`WordList` promises the words of `goal`: each once, in order, none left out. `WordNavigation` implements
it as long as `fresh` holds. `PointerFresh` says when it may cease to: only where a mask names the
dictionary of the pointer twice, and its second cursor goes on before the loops over equal words end.

### 2.5 ArticleData

A byte is its position in the uncompressed file, so that an answer can be compared with the file.
`ring` is the ring of articles that GetWordData keeps, `cache` the slots of inflated chunks with
their stamps, `buffer` what read() has copied so far. One action for one turn of read()'s loop
(`UseSlot`, `Inflate`), for an article found in the ring (`FromRing`), for a synonym that is skipped
(`SkipSynonym`). Stamps are ints that wrap. Two assumptions come from the format: articles with the
same offset have the same size (the ring is keyed by offset), and no word is twice among the
synonyms found. Reading past the tables yields any bytes, a spoilt `zStream`, or the end of the
process (`ReadPastTable`).

### 2.6 CollationFiles

A child is a process; three of them, each forked once, make a history with a child that died, one
that runs, and one that comes later. `offset[d]` is the kernel's offset of an index file that all
children inherit. load_page() is `Seek` and `Read`: the two system calls others may come between
(stdio may answer from its own buffer instead, which is right whatever others do; the model takes
the calls). collate_load() goes through the names in `PlaceOf` with `Stat` and `Check`, sorts with
one read of every page, and saves with `Open` and one `Write` for each block stdio writes; `Check`
looks at the first and last block of a file as the program does, not between them. A file is a
sequence of blocks and empty if it does not exist. A mapped file is read as it is now (`MAP_SHARED`),
and reading past its end kills the child. `crossed` and `mixed` record which index files were read by
two at once and which `.clt` files were opened for writing while in use.

Abstractions: one base name for all dictionaries (others never meet) and equally long `.clt` files
(others fail the size check); index files are not replaced while the server runs, so that the
comparison of times always succeeds; a child uses one dictionary and one function.

### 2.7 Protocol

One run of `stardict-client`: `commands` is its queue, `pc` the field its reader waits for (one value
for each loop of `command.cpp`), `wire` the lines, strings and blocks of data sent and not yet read.
A reply carries no length; its shape is the only thing writer and reader share. `Serve` is one
command of the session, from the line to the last byte of its reply; what `found` holds is all a
query may find for the mask: `Entries` and `WordSeqs` are what a dictionary and a list may hold, of any
length; a search in articles names every dictionary with a hit (`HavingWords`). The client prints a
selected word (`Floating`) once, above everything, and leaves it out where a dictionary gives it; the word
the reply is about is the first thing it has shown. `Cut` is the end of the session at any time (alarm, signal, refusal of
the connection); `faults` says whether statements may fail. `who` and `level` are what `Accounts`
calls `auth_user` and `userLevel`, reduced to nobody, guest and user. Left out: the text of status
lines, the encryption of passwords, and requests of no command.

### 2.8 WordSearch

The files of a mask are read in order; `PassOver` and `Replace` are the two outcomes of a word in a
fuzzy search, `TakeMatch` and `LeaveWord` those of a pattern, `ReadArticle` that of a search in the
articles, `EndFile` the step to the next file, `Finish` the sorting and the loop of the caller that
stops at the first empty place. What std::sort() does is `InOrder`: each element goes behind those
less than it. `Distance` and `Matches` say what CalEditDistance and the library's
matcher answer. `hits` is history. Greater limits than those of the code are not needed: the list is
full with two places.

### 2.9 Functions

Modules without variables, one definition for each function of the code. `Inputs` writes their input
letter by letter, in every way (`InputSpec`), and compares with a definition of what the function is for:
it does so for the functions that section 4 proves about, and `MCFunctions`, which extends it, for those
whose modules need RECURSIVE operators.

- `EditDistance`: the matrix with the cells an earlier call has left (`Stale`), the L-shaped rounds and
  the early end; compared with the distance by definition, the whole matrix of the whole strings.
- `Escaping`: a string from the client's argument through `arg_escape`, the line, `args_new` and
  `analyse_query`. A backslash at the end of a line makes the loops go past the NUL (`Beyond`).
  `ArgumentsArrive` and `WordIsPlain` say what the two ends promise each other; section 4 proves both
  for every string.
- `MD5`: blocks, padding, count; `MD5Transform` appends the block to the state, so that equal states
  mean equal blocks. Block, length and words are scaled down by CONSTANTS. `DigestOf` is the message with
  its mark, zeros and length cut into blocks at once, `Digest` what the calls make of it piece by piece.
- `Markup`: HTML as tokens; PowerWord marks, the calls GMarkup makes for xdxf and Pango. The inputs of these two
  are tags, ends, characters, comments and what cannot be read, in any order: ends that match nothing, elements
  that are not closed, ends of the root, attributes that hold a quote. GMarkup stops at the first error
  and the client goes on with the HTML so far, so that `HtmlIsBalanced` says what is left open: exactly the elements of the
  tags open where reading stopped, none if the document was read to its end.
- `Sections`: articles with and without the types of their sections, on machines of both byte orders: how
  `GetWordData` and `SearchData` walk them and how `print_data` shows them. A loop is the function from the
  number of rounds to its state. The inputs are whole sections, up to three of them.
- `SimilarWord`: the variants in the order they are tried, case first, then English endings.
- `DictTree`, `DictPages`: the XML of each directory as events, links resolved after all directories,
  the cache of listings, masks; and what the client makes of the replies. The count of a directory without
  a file is `Unset`, any number, and so is one it is added to. Unescaped names end what
  GMarkup reads, as they do in the program.
- `WordFiles`: the index in memory, synonyms by pages with any page loaded before, the search in the
  order of a collation, the entries of a word, the best suggestion of several dictionaries. What
  `IndexLookup` shows step by step is here a function of the file. The order folds ASCII letters only
  (`Strcmp`) and `prefix_match` all letters (`UnicharLower`), and the words of the inputs include Russian
  capitals and small letters, which the two treat differently.
- `Collation`: utf8_general_ci, utf8_bin and the weights of the Unicode Collation Algorithm with the
  tailorings of seven languages, contractions included. A character of four bytes is illegal here.
- `Selection`: what selectquery and smartquery try, in order.
- `DzHeader`: the header of a dictzip file and the places of its chunks, where `ArticleData` begins. The inputs
  add a chunk, a character of the name or comment, or the CRC to a file. What a name or comment of 10240 bytes
  or more does to its buffer is not modelled, and `ChunksAreThere` excepts it.

## 3. The runs

| Run | Instance | Shows |
|---|---|---|
| `pool` | 3 connections, limit 2, threshold 1, backlog 2, counters of 4 values | counters, limits, refinement of `Admission`, liveness |
| `pool_overload` | the same, no one terminates the master | **violation**: one connection too many ends the server |
| `accounts` | 1 session, 2 names, 2 passwords, all commands and faults, guests with all dictionaries or none | what a session searches fits who it is; every command ends |
| `accounts_race` | 2 sessions, 2 names, auth, register, getdictmask, all faults | registrations do not mix; one reply for each command |
| `index_lookup` | every sorted index of up to 5 of 8 keys, pages of 2 | lookup and suggestion; termination |
| `word_lists` | 2 dictionaries, one with synonyms, 3 words, files of 1 or 2 words; lists of up to 2 words; masks of both dictionaries and of one twice | refinement of `WordList`, no stale pointer but where a dictionary is twice in the mask |
| `articles` | 6 bytes, chunks of 2, 2 slots, ring of 2, stamps -3..2, 3 indices | the right bytes, complete |
| `collation_files` | 3 children, 2 dictionaries, 2 pages, 2 blocks, 2 numbered names | sorts and words are right unless reads cross or files are rewritten in use |
| `shared_offset` | the same | **violation**: a lookup reads words of another page |
| `client_server` | every command alone, after each way to log in, and before another; 2 dictionaries with up to 2 words and 3 articles, lists of up to 3 words; with and without faults | in step, shown as sent, never as guest by mistake, the client ends |
| `word_search` | 5 words, 2 places, 2 matches for each file, distance below 3, all pairs of dictionaries with up to 3 words and synonyms | the lists hold the best, and all within the limits |
| `functions` | every input up to the length in `Longest` over the letters in `MCLetters`, `MCSecondLetters` | the 13 functions and pairs of functions of 2.9 |

Why the bounds are enough. Each is the least at which every case of the code happens: a limit of 2
with a threshold of 1 has counts below, at and above both; counters of 4 values wrap several times;
three pages have a first, a middle and a last one, and the last is full or not; three chunks have
first, middle and last ones in one read, and two slots make every read of three replace one of its
own; a ring of two wraps within an answer; 3 words in up to 3 files put a word in none, one, several
or twice in one file; three children are a dead, a living and a later one;
five words differ from the query in length, in letters, in both or not at all, and two places are
filled, overfilled and emptied of a word that comes again. The letters of `functions` are those that
the code treats differently and one it does not; the lengths leave room for each construct within,
before and after another. For what is proved (below)
the bounds do not matter. In `collation_files` no directory of a dictionary can be written to, as
when the server runs under its own user; the file beside a dictionary is then only looked for.

CHECK_DEADLOCK is off where the system may stop: when the master has exited, when a read has failed
its assertion, when every child of CollationFiles has ended, when the client has ended, when a search is
done and when an input has its full length.

Fairness. `ProcessPool`: the kernel delivers connections and signals, the master and the handler
run, a child is ended by its alarm at the latest; `TerminateMaster`, `ForkFails` and clients are under
no obligation. `Accounts`: WF on `Execute`, since every statement returns or fails, and the alarm
(30 s) ends a child otherwise. `IndexLookup`: WF on `Search`, a loop nothing interrupts. `Protocol`: WF
on `Client` and on `Serve`, two processes that run; none on `Cut`, so that `ClientEnds` does not rest on
an alarm.

## 4. The proofs

| Module | Theorems | Inductive invariant |
|---|---|---|
| `ProcessPoolProofs` | TypeCorrect, CountersCorrect, StaleCountCorrect, LimitRespected, QuietService, LimitsAreHeld, PoolKeepsPromise | `IInv`: types; `Coherent` (a process in hand of the master does not exist yet, the backlog has no connection twice); `CountersAccount`; `StaleCountIsSafe`; `LoadBounded`, that processes and failed forks stay within the limit and so within the counters |
| `AccountsProofs` | TypeCorrect, CollationFilesAreLoaded, RegistrationsAreComplete, CommandsAreAnsweredOnce, LoginsSetRights, QueriesFindDictionaries | `IInv`: types; `RowsPaired`; for each session what its command has done so far (`SessionOK`) |
| `IndexLookupProofs` | TypeCorrect, LookupIsCorrect, SuggestionIsBest, ReadsStayInside | `IInv`: the bounds of the two searches and what they have excluded, page by page and entry by entry |
| `ArticleDataProofs` | TypeCorrect, SlotsAreChunks, AnswersAreRight, AssertionHolds, AnswersComplete; of `Sections`: SectionsAlwaysSurvive; of `DzHeader`: ChunksAreAlwaysThere | `IInv`: `SlotsHoldChunks`, `RingHolds`, `BufferHolds`, that the buffer is the part of the article before the chunk in hand; `Progress`: what a lookup has still to do is the rest of what it asks for, what it has answered is what the part done yields |
| `CollationFilesProofs` | TypeCorrect, SortsRight, WordsRight; of `SimilarWord`: SimilarIsAlwaysFound | `IInv`: types; `ReadInv` (the offset is where the only reader put it), `LoadInv`, `SortInv`, `FileInv`, `WriterInv`, `ViewInv` (a mapped file is whole) |
| `WordSearchProofs` | TypeCorrect, FuzzyListIsBest, AnswersAreRight; of `EditDistance`: CutOffIsAlwaysExact | `IInv`: types; `ListInv`, the room that the files read so far leave in the array of matches; `FuzzyBest` itself, which is inductive. `WholeInv`: what is in the list of each method is what was found in the places passed (`FuzzyInv`, `PatternInv`, `DataInv`), and the answer is that list sorted (`AnswerInv`) |
| `ProtocolProofs` | TypeCorrect, InStepHolds, ShownIsSentHolds, NeverAsGuestHolds; of `Escaping`: ArgumentsSurvive, WordSurvives, TextAlwaysSurvives; of `MD5`: DigestIsOfWhole | `IInv`: types; `Position`, for each place of the client what the stream holds and what it has still to print; `UserInv`, that a session logged in is the user's or will not be asked again |
| `WordNavigationProofs` | PointerIsFresh, ListsAreMerged | `IInv`: types; cursors within their files; `PointerOK`: the pointer is into the page in memory, of a column passed already, and on the way back where the cursor of its column will go. `ListInv`: what each loop knows of the words before and after the cursors and of those still wanted (`UpInv`, `DownInv`) |

ProcessPool. The counters are useless by themselves: that a stale count is safe needs that processes
only end between the count and the fork, that the wrapping difference is the number of processes and
failed forks needs that this number stays below CounterSize, and that needs the limit. Hence one
invariant of all parts. PoolKeepsPromise maps each step of the pool to a step of Admission or a stutter.

Accounts. A step of one session changes its own variables and at most one row of each table. Lemmas
say what a step leaves alone (`Untouched`) and that rows are only added or overwritten with their names
kept (`TablesGrow`); what the invariant says of another session follows from these, and what it says
of its own session from the action. `RowsPaired` is needed because two sessions could otherwise
complete the same account.

IndexLookup. Lemmas on div and mod give the page of a position and its place there; the
search needs that the key sought lies between the first keys of the pages left, and the suggestion
that each word walked over agrees with no less of the query than the words after it (`Walked`).

ArticleData. `ChunkFacts` gives the chunks of a range, `RunsJoin` that the part copied from a chunk
continues what is in the buffer. `AssertionHolds` assumes `EndsInside`, that no article ends where
a full last chunk ends; without it the assertion of read() does fail (section 5). `AnswersComplete`
follows the list of a lookup, homographs first and then synonyms: `Kept` says which of the part done
are in the answer and in what order, and each turn (`KeptHead`, `KeptSynonym`, `KeptSkip`) moves one
entry from what is to do into it. That a synonym is skipped only if an article of the answer has its
place needs that the homographs come first.

CollationFiles. A file that is not `mixed` has one writer, which has written as many blocks as the
file has, all of one sort, and fewer than `Blocks` (`WriterInv`): a child that finds `Blocks` of them
has come after the last, so that the file does not change under its map (`ViewInv`). That its entries
are in order is carried from the reads of the child that sorted it (`ReadInv`, `SortInv`, `FileInv`).
The theorems hold for any `Writable`, with files beside the dictionaries as well.

WordSearch. What must be beaten only falls, so that a word once passed over stays worse than every
word in the list; a word that was dropped was a worst one (`BestStep`). The matches of a pattern fit
the array by `RoomGrows`: no file adds more than `Limit`. `AnswersAreRight` needs to know what sorting
does: `InOrder` puts each element behind as many as are to be before it, and `ArrangedFacts` proves
that this is a permutation in order for every comparison that is a weak order. `Before` is none in
general: an empty place and a word at one distance are alike, and so are two empty places, which would
hide words from the caller. It is one on the places of a search because an empty place is as far away as
is looked for and a word is nearer (`EmptyIsFar`). For a pattern, `count` is the number of matches before
the word in hand, up to the limit (`CountFits`), so that what is taken is decided by the file alone
(`IsTaken`). For a search in articles each key is that of a later entry, and so the last of the list or
after all of it (`KeysAscend`); that rests on `OrderAssumption`, that an index is in order and that
dictionaries follow one another in a mask.

EditDistance. `CutOffIsAlwaysExact` is about any two strings over any letters and any limit. The distance
by definition is the last cell of a matrix (`Table`) in which neighbours differ by one at most
(`TableSmooth`), which is the same read the other way round, and which a common beginning or end of the strings
does not change (`PrefixFree`, `SuffixFree`, `EditsStripped`). The code's matrix has stale cells: `WrittenHolds`
says that a cell the rounds have written holds the distance, `RoundHolds` that a round reads cells
of that kind only, so that nothing stale is ever read. The early end is right since no corner of a
round is greater than the last cell (`CornersGrow`).

MD5. `DigestIsOfWhole` takes any size of block and any number of bits of a byte, a length shorter than a
block, and a word that counts the bits of whole blocks. `Fed(ctx, msg, w, r)` is what a context knows of
the message it has been given: w blocks of it hashed, r bytes in hand, all bits counted in two words
(`CountBitsIs` has the carry, `CountIs` that the place in the block follows from the low word alone although
it wraps). `UpdateIs` keeps it through the three cases of MD5Update, `WholeBlocksIs` through the loop over
blocks; `FinalIs` compares what MD5Final adds with `DigestOf`, with and without room for the length.

Sections. `SectionsAlwaysSurvive` takes any number of sections, of any types but NUL and data that ends at
its first NUL or has a size, any word, and a byte of any number of values; what it excepts is in the
property (section 5). An article is its sections one behind the other, so that the piece of each stands in
its place whatever is around it (`StandIn`, `PiecesStand`); read there, a text ends at its NUL and a section
with a size at its size (`TextEnds`, `SizeReads`), the last one of an article without types at the end of the
article. With that, each loop has after k rounds passed k sections and made of them what it is to make: what
GetWordData copies is the article with its types (`GetWordDataIs`), print_data shows each of its texts once
(`PrintDataIs`), and the texts searched are those of the sections of text types (`SearchedInSameIs`,
`SearchedInTypedIs`), with the type in front where the types are in the article.

DzHeader. `ChunksAreAlwaysThere` takes any name and comment without NUL that fit their buffer, a CRC or none, and any number of
chunks of any length (`DzFits` says what the format can hold). A file is its parts one behind the other:
`DzFileStands` gives the place of each, by the lemmas on pieces that `Sections` uses. Read from there, the
extra field gives back the table (`ExtraFieldIs`), a name or a comment ends at its NUL and nothing is
skipped that the flags do not announce (`SkipStringIs`, `SkipCRCIs`, `FlagsAre`), so that what
`read_header` takes for the length of the header is where the body begins (`ReadHeaderIs`). The loop over
the offsets adds the lengths (`OffsetsAre`), and the pieces of the body end at the same sums (`OpenedIsRight`).

Protocol. A reply has no lengths, so the invariant says where the reader is in it: `Reads(op, h,
label, w, out)` holds if a client that is at `label` of a reply to `op` will read `w`, no more and no less,
and print `out`, where it leaves out the word `h` (`Said`: the heading of a selected word, once there is
one, `Begun`). `Underway` says this of the stream, with what a broken connection may have lost behind it;
`ToCome` of a reply whose status line has not been read; `LeftOver` allows for the second answer of `auth`.
Each read of the client takes one field off `w` and one step in `Reads` (`Onward`); that what `Serve`
writes is read so from the beginning is proved for each kind of reply by regrouping its blocks
(`AddsUp`, `Flat`). `InStepHolds` and `ShownIsSentHolds` follow. For `NeverAsGuestHolds`, a login that
failed leaves the session without a user, but the client ends when it reads the refusal: `Doomed`
covers the steps between.

SimilarWord. `SimilarIsAlwaysFound` takes any finite dictionary with a word of which only the case is not that of
the word sought. If a variant of case is in the dictionary it is found; if none is, the walk goes back from
the place of the word sought over the words alike. The order of the index compares words in small letters first, so that words
alike are next to each other (`AlikeTogether`) and the walk reaches one of them (`WalkFinds`); the place of a word is
the number of words before it (`Rank`, `SortedAt`), and where the walk stops comes from a recursive function
that exists (`WalkEnds`). For inflections the word is written as a stem and an ending, in one of three cases
(`InCase`, `InCaseSplits`); each ending is cut by one of nine rules, which puts back an e, a y or a single letter
for a double one (`StemsHave`, `StemsWithHave`, `DoubleIsCut`), and every rule that has the word leads
to it (`InflectionIsCut`, `EndingVariantsAre`, `OnlyWordIsFound`).

Escaping. The loops of `args_new` and `analyse_query` are runs of a step over the characters of a string
(`IsRun`, `Runs`). What is written for one character leads from a word in hand to that word with the
character added (`EscapedRuns`, `WrittenRuns`), whatever escape it needs; `RunsFlat` joins such runs along
a string, and, used once more, the blank and the escaped argument along the arguments (`LineRuns`). An
escaped line holds no line feed, so that `net_read_line` takes all of it (`LineIsRead`). The characters
are any set without the carriage return, which `net_read_line` drops; its limit of 10240 characters, at
which the session ends, is not in the statement. A word that begins with `/`, `:` or `|` is led by a
backslash, so that no escaped word is taken for another kind of search (`SignsDiffer`).

WordNavigation. A column reads pages of its own file only. For masks that name a dictionary twice, the
columns of one file go together: they are at one position when a word is sought (`Together`), and in the
loops over equal words those passed have moved as far as the others will (`MovedPast`, `MovedBack`). So
the page of the pointer stays in memory while a word is chosen and on the way back (`PageInv`); in the
loop of `poGetNextWord` it is replaced only once the second cursor of its file has gone on (`Ahead`),
which is the one way to a stale pointer (`FreshInv`; section 5).
`ListsAreMerged` maps each step to a step of WordList or a stutter. Upwards, the words wanted are those
from the cursors on (`WordsFrom`), less what the loop has yet to skip: `LeastSoFar` while the least word
is sought, `GonePast` while the other columns leave it. Downwards, the words before the cursors
(`WordsUntil`) with `GreatestSoFar` and `GoneBack`. `NextRest` and `PrevUntil` say what GetWordNext and
GetWordPrev keep of a file, `PlacesOK` where a lookup splits it. Both theorems take any placing of words
on pages, and any number of homographs.

The type invariants are theorems (`TypeCorrect`) and conjuncts of the invariants checked;
`PointerFresh` and `InStep` begin with the type invariant. Also proved and not
listed as a property of a run: `ReadsStayInside` (no page or entry outside the index is read) and
`SlotsAreChunks` (a slot holds the chunk it names).

Induction. The induction theorems of the library take an operator, which the provers cannot instantiate.
Where a proof needs induction over the positions of a sequence (`AddsUp`, `ArrangedFacts`,
`UntilEmptyFacts`, `RunsFlat`), it takes the least position at which the claim fails (`LeastPosition`) instead;
the loops of `EditDistance`, `MD5`, `Sections` and `DzHeader` go by a set of numbers that holds each if it holds the one before
(`UptoInduction`), and the values of a recursive function come from `StepsExist`, which builds them up to n.

Only model-checked: liveness (`EveryClientResolved`, `EveryZombieCollected`, `EveryCommandEnds`,
`LookupEnds`, `ClientEnds`; fairness and ENABLED are beyond the prover) and seven of the properties of
`functions`: all but `CutOffIsExact`, `TextSurvives`, `DigestOfWhole`, `SectionsSurvive`, `ChunksAreThere`
and `SimilarIsFound`. `MCFunctions`, where they are stated, reaches RECURSIVE operators (`Collation`,
`DictTree`, `Selection`, `WordFiles`), which the prover's SMT backend does not take; `Markup` is folds over
sequences, which would need induction over data. The two violations are runs only. Every safety invariant and every action property of the
other passing runs is a theorem.

## 5. Findings

1. `shared_offset`: children read an index file through one shared offset; a word that is there is
   not found, or another one is, and sorts made meanwhile are saved for all later children
   (`L/stddict.cpp` 787; the files are opened at 758, before the fork).
2. `pool_overload`: at the process limit the master itself runs into `exit(0)` (`S/stardictdmain.cpp` 184).

Seen while modelling, without a run of their own:

- Articles. An article that ends where a full last chunk ends is read past the chunk tables
  (`L/dictziplib.cpp` 409); if that spoils `zStream`, the assertion at 489 fails later. `AssertionHolds`
  states when it cannot.
- Word lists. With a dictionary twice in a mask, `poGetNextWord` moves the second cursor of the file before
  the comparisons end, against its own comment (`L/stddict.cpp` 2361-2364, 2383): a word may be repeated or left
  out (`PointerFresh` and `KeepsPromise` except it); `next` for a word in no dictionary leaves out the first word after it
  (2297).
- Sessions. `auth` has a second status line when the preferences cannot be read (`S/daemon.cpp` 149;
  `AnsweredOnce` and `InStep` except it, the client takes it for the next reply); `register` answers OK
  when the INSERT of the preferences failed (294); two `userlevel` or `change_password` commands may both
  succeed from the same old value (694, 240); `setdictmask` changes the database only, the session
  searches its old dictionaries until it authenticates again (378); where guests have no dictionary, the
  first query of a nameless connection is answered OK and only the next one 522 (773-781).
- Protocol. `previous` and `next` answer 522, which the protocol does not list for them (838); its text
  says version "0.3" (2.2) where the server asks for 0.4 (859). `selectquery` of no word has undefined
  behaviour (`S/stardictdmain.cpp` 679). smartquery takes its position from the client unchecked (771).
- Collation files. `fopen("wb")` on a file in use may leave a mixture of two sorts that passes every check
  of later loads, if one of the writers is killed between its blocks (`mixed`).
- Search in articles. Without a sametypesequence the type byte is searched with the text, and the size
  of an upper-case section is read at the type byte and in the order of the machine (`L/data.cpp` 306,
  315, 123); `SectionsSurvive` excepts these.
- Index. The walk to a suggestion stops at the first word that agrees with less of the query, while the order
  folds only ASCII letters (`L/stddict.cpp` 44-51) and the comparison all of them (94): the suggestion need not be the best.
  Its first comparison is with the page in memory even when the place is at the beginning of the next one (878).
  `SuggestsBestOfWalk` and `IndexesAgree` promise no more than that.
- Similar words. `iIndex_suggest` is not initialised if only the walk over equal words finds one (2526).
- Dictionary tree. A negative user level (root) is compared as int in one place and unsigned in another;
  a directory without a stardictd.xml has an uninitialised count (`L/stddict.cpp` 1709); names and uids are
  sent without XML escapes (1872); a directory listed twice is reachable once only.
- Collation. A letter before a character of four bytes is taken twice if the pair is a contraction
  (`L/ctype-uca.cpp` 6956); utf8_general_ci is not transitive on illegal UTF-8.
- dictzip. The test for the table of chunks is `||` for `&&` (`L/dictziplib.cpp` 185), another extra field is
  skipped one byte short (214), a further subfield after the table makes the length of the header wrong. A name or
  comment of 10240 bytes or more runs over the buffer it is read to (219-222, 231-234).
- Markup. Errors of GMarkup are ignored (`C/printdata.cpp` 714-719, 850-861): what is open there stays open in
  the HTML, and the rest of the article is lost. Colors, faces and languages are copied without escapes (619-636,
  737-802), so that a quote ends the attribute. A span inside a styled span of Pango (723-828) and markup inside
  `kref` of xdxf (595-692) are closed in the wrong place, and a `kref` without text leaves its attribute open.
  `HtmlIsBalanced` excepts these and says of errors what they leave open.
- RSA (`S/rsa.cpp`, `C/rsa.cpp`, the same file). Numbers of 800 cells keep their length in the last one, but
  `cmp` (58-76) and `add` read it from cell 99: primes are not tested, the private exponent has no
  length, and what is computed depends on what lies in memory. `rsa_encrypt` drops the second last
  character (869-953), `rsa_decrypt` uses one variable for two loops (956-1033). The client also encrypts
  before the banner has brought the key (`C/command.cpp` 91 and 426).

## 6. Plan

Done, in this order: ProcessPool and Admission; Accounts; IndexLookup; WordNavigation, WordList and
ArticleData; CollationFiles; WordSearch and EditDistance; DictTree and DictPages; Protocol and Escaping;
SimilarWord; Markup, Sections, MD5; WordFiles, Collation, Selection, DzHeader.

What could still be added: proofs about further functions, whose RECURSIVE operators would have to become
recursive functions first (Selection, WordFiles); the replacement of index files under a running server; a connection that several clients share (the web front end does not).

Not modelled:

- RSA: undefined behaviour throughout, see above.
- The tables of characters beyond the Latin letters of the tailorings modelled, and the functions of the
  charsets that stardictd does not call (case conversion, LIKE, hashes, number parsing): data and dead
  code of another program. `kmp.cpp` is not used either.
- Configuration and logging: read once before the first fork; the values are CONSTANTS.
- Web front end and tools: each use is a run of the client, or by hand.
- zlib, MySQL, GMarkup, fnmatch and POSIX regular expressions: libraries, modelled by what the code uses
  of them.
