---------------------------- MODULE ArticleData ----------------------------
(***************************************************************************)
(* The articles of a compressed dictionary.  BuildResultData()             *)
(* (stardictdmain.cpp 246-285) asks for the articles of a headword and of  *)
(* its synonyms, LookupData() (stddict.cpp 3264-3292) for all of them;     *)
(* DictBase (data.cpp) keeps the last articles in a ring, found by their   *)
(* offset; dictData::read() (dictziplib.cpp 358-500) cuts an article out   *)
(* of chunks that it inflates one at a time and keeps in a few slots, the  *)
(* least recently used of which it reuses.                                 *)
(*                                                                         *)
(* A byte of the uncompressed file is represented by its position there:   *)
(* no two are alike, so that a wrong byte is always noticed.  One action   *)
(* of ReadChunk is one turn of the loop of read().                         *)
(***************************************************************************)
EXTENDS Integers, Sequences, SequencesExt

CONSTANTS
    Length,         \* bytes of the uncompressed file
    ChunkLength,    \* chunkLength
    CacheSize,      \* DICT_CACHE_SIZE
    RingSize,       \* WORDDATA_CACHE_NUM
    MaxStamp,       \* the greatest int
    Indices,        \* the indices considered: sequences of [offset, size]
    MaxSynonyms     \* bound on the synonyms of a lookup

ASSUME SizesAssumption ==
    /\ Length \in Nat \ {0} /\ ChunkLength \in Nat \ {0}
    /\ CacheSize \in Nat \ {0} /\ RingSize \in Nat \ {0}
    /\ MaxStamp \in Nat \ {0} /\ MaxSynonyms \in Nat

\* An article lies within the file, and where it begins says how long it is.
ASSUME IndicesAssumption ==
    \A idx \in Indices :
        /\ idx \in Seq([offset : Nat, size : Nat]) /\ idx # <<>>
        /\ \A a \in DOMAIN idx : idx[a].offset + idx[a].size <= Length
        /\ \A a, b \in DOMAIN idx :
              idx[a].offset = idx[b].offset => idx[a].size = idx[b].size

VARIABLES
    index,      \* wordentry_offset and wordentry_size of the entries
    at,         \* what the process does: see Steps
    query,      \* what is asked for: a headword's articles or the full text
    todo,       \* the entries still to be read
    answer,     \* the entries read and the bytes found for them
    chunk,      \* read(): i
    buffer,     \* read(): buffer up to pt
    cache,      \* dictData::cache
    stamp,      \* read(): static int stamp
    stream,     \* zStream: "ok", or "bad" after it met what is no chunk
    ring,       \* DictBase::cache
    ringCur     \* DictBase::cache_cur

store == <<cache, stamp, stream>>
articles == <<ring, ringCur>>
vars == <<index, at, query, todo, answer, chunk, buffer, store, articles>>

\* "aborted": the assertion of read() failed; "crashed": it left its tables.
Steps == {"idle", "articles", "read", "aborted", "crashed"}

Slots == 0 .. CacheSize - 1
RingSlots == 0 .. RingSize - 1
ChunkCount == (Length + ChunkLength - 1) \div ChunkLength
InChunk == 0 .. ChunkLength - 1

\* A byte that is none of the file's: malloc() left it there, or inflate()
\* made it of something that is no chunk.
Garbage == -1
Bytes == 0 .. Length - 1

SizeOf(c) == IF (c + 1) * ChunkLength <= Length THEN ChunkLength
                                                ELSE Length - c * ChunkLength
\* The bytes of an entry.
Text(e) == [k \in 1 .. e.size |-> e.offset + k - 1]

End(e) == e.offset + e.size
FirstChunk(e) == e.offset \div ChunkLength
LastChunk(e) == End(e) \div ChunkLength

EmptySlot == [chunk |-> -1, stamp |-> -1, count |-> 0,
              data |-> [k \in InChunk |-> Garbage]]
EmptyRing == [used |-> FALSE, offset |-> 0, data |-> <<>>]
NoQuery == [kind |-> "none", first |-> 1, count |-> 0, synonyms |-> <<>>]

Init ==
    /\ index \in Indices
    /\ at = "idle" /\ query = NoQuery /\ todo = <<>> /\ answer = <<>>
    /\ chunk = 0 /\ buffer = <<>>
    /\ cache = [s \in Slots |-> EmptySlot] /\ stamp = 0 /\ stream = "ok"
    /\ ring = [r \in RingSlots |-> EmptyRing] /\ ringCur = 0

\* Mutant: the entry after the headword's articles passes for one of them.
InRangeOffByOne(q, a) == a >= q.first /\ a <= q.first + q.count

\* An article of the headword itself, which a synonym does not bring again.
InRange(q, a) == a >= q.first /\ a < q.first + q.count

Begin(q, entries) ==
    /\ at = "idle" /\ at' = "articles"
    /\ query' = q /\ todo' = entries
    /\ UNCHANGED <<index, answer, chunk, buffer, store, articles>>

\* BuildResultData: count articles from first on (none if only a synonym was
\* found), then those its synonyms name.
Lookup ==
    \E first \in DOMAIN index, count \in 0 .. Len(index) :
    \E synonyms \in SeqOf(DOMAIN index, MaxSynonyms) :
        LET q == [kind |-> "lookup", first |-> first, count |-> count,
                  synonyms |-> synonyms]
        IN  /\ first + count - 1 <= Len(index) /\ IsInjective(synonyms)
            /\ Begin(q, [k \in 1 .. count |-> first + k - 1] \o synonyms)

\* LookupData: SearchData of every entry, which neither uses nor fills the ring.
FullText ==
    Begin([NoQuery EXCEPT !.kind = "data"], [a \in DOMAIN index |-> a])

Entry == index[Head(todo)]
InRing(r) == ring[r].used /\ ring[r].offset = Entry.offset

Answer(data) ==
    /\ answer' = Append(answer, [entry |-> Head(todo), data |-> data])
    /\ todo' = Tail(todo)
    /\ at' = "articles"

\* A synonym of an article that was read for the headword already.
Again ==
    /\ query.kind = "lookup" /\ Len(answer) >= query.count
    /\ InRange(query, Head(todo))

SkipSynonym ==
    /\ at = "articles" /\ todo # <<>> /\ Again
    /\ todo' = Tail(todo)
    /\ UNCHANGED <<index, at, query, answer, chunk, buffer, store, articles>>

\* GetWordData finds the article in the ring.
FromRing ==
    /\ at = "articles" /\ todo # <<>> /\ ~Again /\ query.kind = "lookup"
    /\ \E r \in RingSlots :
          /\ InRing(r) /\ \A q \in RingSlots : InRing(q) => r <= q
          /\ Answer(ring[r].data)
    /\ UNCHANGED <<index, query, chunk, buffer, store, articles>>

StartRead ==
    /\ at = "articles" /\ todo # <<>> /\ ~Again /\ at' = "read"
    /\ query.kind = "lookup" => ~\E r \in RingSlots : InRing(r)
    /\ chunk' = FirstChunk(Entry) /\ buffer' = <<>>
    /\ UNCHANGED <<index, query, todo, answer, store, articles>>

EndQuery ==
    /\ at = "articles" /\ todo = <<>> /\ at' = "idle"
    /\ query' = NoQuery /\ answer' = <<>>
    /\ UNCHANGED <<index, todo, chunk, buffer, store, articles>>

Holds(i) == {s \in Slots : cache[s].chunk = i}

\* The loop meets s before t, or finds an older stamp in it.
Before(s, t) ==
    \/ cache[s].stamp < cache[t].stamp
    \/ cache[s].stamp = cache[t].stamp /\ s <= t

\* Mutant: the slot used least recently, whatever another holds.
OldestAnyway(i, s) == \A t \in Slots : Before(s, t)

\* The slot of chunk i, or the first of those used least recently.
IsTarget(i, s) ==
    IF Holds(i) # {} THEN s \in Holds(i) /\ \A t \in Holds(i) : s <= t
                     ELSE \A t \in Slots : Before(s, t)

NextStamp == IF stamp = MaxStamp THEN -MaxStamp - 1 ELSE stamp + 1

\* What inflate() leaves of a chunk in a buffer that held old.
Inflated(i, old) ==
    [k \in InChunk |-> IF k < SizeOf(i) THEN i * ChunkLength + k ELSE old[k]]

Filled(count, data) ==
    [chunk |-> chunk, stamp |-> NextStamp, count |-> count, data |-> data]

IsFirst == chunk = FirstChunk(Entry)
IsLast == chunk = LastChunk(Entry)

CopyFrom(i) == IF IsFirst THEN Entry.offset - i * ChunkLength ELSE 0
CopyTo(i) == IF IsLast THEN End(Entry) - i * ChunkLength ELSE ChunkLength

\* buffer after the memcpy() of this turn.
Copied(data) ==
    buffer \o [k \in 1 .. CopyTo(chunk) - CopyFrom(chunk) |->
                   data[CopyFrom(chunk) + k - 1]]

\* GetWordData puts what it has read in the place of the oldest of the ring.
Keep(data) ==
    /\ ring' = [ring EXCEPT ![ringCur] = [used |-> TRUE, data |-> data,
                                         offset |-> Entry.offset]]
    /\ ringCur' = (ringCur + 1) % RingSize

\* The rest of the turn once slot holds the chunk.
Copy(slot) ==
    IF ~IsFirst /\ ~IsLast /\ slot.count # ChunkLength THEN
        /\ at' = "aborted"
        /\ UNCHANGED <<todo, answer, chunk, buffer, articles>>
    ELSE IF ~IsLast THEN
        /\ chunk' = chunk + 1 /\ buffer' = Copied(slot.data)
        /\ UNCHANGED <<at, todo, answer, articles>>
    ELSE
        /\ chunk' = 0 /\ buffer' = <<>>
        /\ Answer(Copied(slot.data))
        /\ IF query.kind = "lookup" THEN Keep(Copied(slot.data))
                                    ELSE UNCHANGED articles

\* One turn of the loop, with slot in the place s of the cache.
Turn(s, slot) ==
    /\ at = "read" /\ IsTarget(chunk, s)
    /\ cache' = [cache EXCEPT ![s] = slot] /\ stamp' = NextStamp
    /\ Copy(slot)
    /\ UNCHANGED <<index, query>>

UseSlot ==
    /\ Holds(chunk) # {} /\ UNCHANGED stream
    /\ \E s \in Slots : Turn(s, [cache[s] EXCEPT !.stamp = NextStamp])

\* A chunk of the table is inflated; a stream that is bad yields nothing.
Inflate ==
    /\ Holds(chunk) = {} /\ chunk < ChunkCount /\ UNCHANGED stream
    /\ \E s \in Slots :
          Turn(s, IF stream = "ok"
                  THEN Filled(SizeOf(chunk), Inflated(chunk, cache[s].data))
                  ELSE Filled(0, cache[s].data))

\* An article that ends where the last chunk does, and the last chunk is full:
\* chunks[] and offsets[] are read past their end.  What is there may be empty,
\* may be inflated into anything or spoil the stream, or be no address at all.
ReadPastTable ==
    /\ at = "read" /\ Holds(chunk) = {} /\ chunk = ChunkCount
    /\ \/ /\ at' = "crashed"
          /\ UNCHANGED <<index, query, todo, answer, chunk, buffer, store, articles>>
       \/ /\ stream' \in {stream, "bad"}
          /\ \E s \in Slots :
                \/ Turn(s, Filled(0, cache[s].data))
                \/ Turn(s, Filled(ChunkLength, [k \in InChunk |-> Garbage]))

Next ==
    \/ Lookup \/ FullText \/ SkipSynonym \/ FromRing \/ StartRead \/ EndQuery
    \/ UseSlot \/ Inflate \/ ReadPastTable

Spec == Init /\ [][Next]_vars

-----------------------------------------------------------------------------

Data == [InChunk -> Bytes \cup {Garbage}]
Pieces == Seq(Bytes \cup {Garbage})

\* The types, and the places a read can be at: within its article.
TypeOK ==
    /\ index \in Indices /\ at \in Steps
    /\ query \in [kind : {"none", "lookup", "data"}, first : DOMAIN index,
                   count : 0 .. Len(index), synonyms : Seq(DOMAIN index)]
    /\ todo \in Seq(DOMAIN index)
    /\ answer \in Seq([entry : DOMAIN index, data : Pieces])
    /\ chunk \in 0 .. ChunkCount /\ buffer \in Pieces
    /\ cache \in [Slots -> [chunk : -1 .. ChunkCount, count : 0 .. ChunkLength,
                            stamp : -MaxStamp - 1 .. MaxStamp, data : Data]]
    /\ stamp \in -MaxStamp - 1 .. MaxStamp /\ stream \in {"ok", "bad"}
    /\ ring \in [RingSlots -> [used : BOOLEAN, offset : 0 .. Length, data : Pieces]]
    /\ ringCur \in RingSlots
    /\ at = "read" =>
          /\ todo # <<>>
          /\ chunk \in FirstChunk(Entry) .. LastChunk(Entry)

\* Every article read is the one the index names, byte for byte, whichever
\* chunks and articles were cached before, were replaced or share a slot, and
\* however often the stamps have wrapped, until a read past the table (see
\* ReadPastTable) spoils the stream.
AnswersAreArticles ==
    stream = "ok" =>
        \A k \in DOMAIN answer : answer[k].data = Text(index[answer[k].entry])

\* A lookup answered has every article of the headword, in order, and then every
\* article its synonyms name, and none of them twice: the two overlap when a
\* synonym is spelled like its headword.
AnswersAreComplete ==
    at = "articles" /\ todo = <<>> /\ query.kind = "lookup" =>
        LET entries == [k \in DOMAIN answer |-> answer[k].entry]
        IN  /\ IsInjective(entries)
            /\ \A k \in 1 .. query.count : entries[k] = query.first + k - 1
            /\ Range(entries) = Range(query.synonyms)
                   \cup query.first .. query.first + query.count - 1

\* The chunk a slot says it holds is the one its buffer holds, and no two slots
\* hold the same: least recently used slots are for chunks not there.
SlotsHoldChunks ==
    /\ \A s \in Slots : stream = "ok" /\ cache[s].chunk \in 0 .. ChunkCount - 1 =>
          \A k \in 0 .. SizeOf(cache[s].chunk) - 1 :
              cache[s].data[k] = cache[s].chunk * ChunkLength + k
    /\ \A s, t \in Slots : cache[s].chunk = cache[t].chunk /\ cache[s].chunk # -1 => s = t

\* dictziplib.cpp:489: assert( count == this->chunkLength ).  It fails once a
\* read past the table has spoiled the stream all chunks are inflated with.
MiddleChunksAreFull == at # "aborted"

=============================================================================
