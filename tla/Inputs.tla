------------------------------- MODULE Inputs --------------------------------
(***************************************************************************)
(* Pure functions of client and server and what they promise for every     *)
(* input.  A behaviour picks a function and writes its input, a sequence   *)
(* of letters, letter by letter, and a second one where there are two: its *)
(* states are all inputs up to the longest.                                *)
(***************************************************************************)
EXTENDS Integers, Sequences, FiniteSets, SequencesExt

CONSTANTS
    Functions,
    Letters,        \* what the input of each function is written with
    SecondLetters,  \* and the second one, no letters if there is none
    Longest,        \* the length of the longest input of each function
    SecondLongest,
    Limits,         \* of the edit distance
    BlockSize,      \* of MD5: the bytes of a block (64), of the length in the
    LengthSize,     \* last one (8), the values of a word (2^32), the bits of
    WordValues,     \* a byte (8)
    ByteBits,
    Base,           \* of articles: see Sections
    TextTypes,
    SizedTypes,
    SoughtWords,    \* the words they are searched for
    OtherWords      \* of a dictionary, besides those alike

Edit == INSTANCE EditDistance
Esc == INSTANCE Escaping
Hash == INSTANCE MD5 WITH Word <- WordValues, Bits <- ByteBits
Art == INSTANCE Sections
Dz == INSTANCE DzHeader
Similar == INSTANCE SimilarWord

\* A string of C is a pointer to characters, and arg_escape is given one without
\* carriage returns; a word of the counter of MD5 counts the bits of whole blocks;
\* the sections of an article have a type and data that ends at the first NUL or
\* has a size that can be written; the characters of a name are not NUL.
\* Words are ASCII codes and others, those of English in small letters.
ASSUME InputsAssumption ==
    /\ "escaping" \in Functions => Esc!CR \notin Letters["escaping"]
    /\ Limits \subseteq Nat
    /\ "md5" \in Functions => Letters["md5"] \subseteq Seq(Nat)
    /\ BlockSize \in Nat \ {0} /\ LengthSize \in Nat /\ LengthSize < BlockSize
    /\ ByteBits \in Nat \ {0} /\ WordValues \in Nat \ {0}
    /\ WordValues % (BlockSize * ByteBits) = 0
    /\ Base \in Nat \ {0} /\ TextTypes \intersect SizedTypes = {}
    /\ SoughtWords \subseteq Seq(0 .. Base - 1)
    /\ "sections" \in Functions =>
         \A s \in Letters["sections"] :
            /\ s \in [type : 1 .. Base - 1, data : Seq(0 .. Base - 1)]
            /\ IF s.type \in SizedTypes THEN Len(s.data) < Base * Base
               ELSE \A i \in 1 .. Len(s.data) : s.data[i] # Art!NUL
    /\ "header" \in Functions =>
         Letters["header"] \subseteq {"chunk"} \X Nat
                                    \union {"name", "comment", "crc"} \X (Nat \ {0})
    /\ OtherWords \subseteq Seq(Nat) /\ IsFiniteSet(OtherWords)
    /\ "cases" \in Functions => Letters["cases"] \subseteq Nat
    /\ "inflection" \in Functions => Letters["inflection"] \subseteq 97 .. 122

VARIABLES function, input, input2
inputs == <<function, input, input2>>

InputInit == function \in Functions /\ input = <<>> /\ input2 = <<>>

WriteLetter ==
    /\ Len(input) < Longest[function]
    /\ \E c \in Letters[function] : input' = Append(input, c)
    /\ UNCHANGED <<function, input2>>

WriteSecond ==
    /\ Len(input2) < SecondLongest[function]
    /\ \E c \in SecondLetters[function] : input2' = Append(input2, c)
    /\ UNCHANGED <<function, input>>

InputNext == WriteLetter \/ WriteSecond
InputSpec == InputInit /\ [][InputNext]_inputs

-----------------------------------------------------------------------------
\* CalEditDistance returns the distance itself as long as it is below the
\* limit, whatever earlier calls have left in its matrix and although it stops
\* early; otherwise something that is not below the limit.
CutOffIsExact ==
    function = "distance" =>
        \A limit \in Limits :
            LET d == Edit!CalEditDistance(input, input2, limit)
                edits == Edit!Edits(input, input2)
            IN IF edits < limit THEN d = edits ELSE d >= limit

\* What the client is asked for is what the server searches: an argument comes
\* out of arg_escape, the line and args_new as it went in, next to any other
\* argument, and a word that was escaped for the query language is searched as
\* the word it is, by the plain search.
TextSurvives ==
    function = "escaping" =>
        Esc!ArgumentsArrive(<<input, Esc!InputEscape(input)>>) /\ Esc!WordIsPlain(input)

\* A message given to MD5Update in pieces of any sizes is hashed as the whole.
DigestOfWhole ==
    function = "md5" => Hash!Digest(input) = Hash!DigestOf(FlattenSeq(input))

\* What the client shows of an article: its texts in order, a line break between
\* two sections.
ShownOf(sections) ==
    FlattenSeq([i \in 1 .. Len(sections) |->
        (IF i = 1 THEN <<>> ELSE <<"br">>) \o Art!PrintSection(sections[i].type, sections[i].data)])

\* A text of the article has the word, or would with its type in front.
HasText(sections, w) ==
    \E i \in 1 .. Len(sections) :
        sections[i].type \in TextTypes /\ Art!Occurs(sections[i].data, w)
HasTextOrType(sections, w) ==
    \E i \in 1 .. Len(sections) :
        sections[i].type \in TextTypes /\ Art!Occurs(<<sections[i].type>> \o sections[i].data, w)

Unsized(sections, n) == \A i \in 1 .. n : sections[i].type \notin SizedTypes

\* The client shows the sections of an article as the dictionary has them, in
\* order, whether it leaves out their types or not; and a search for a word
\* finds it if and only if a text of the article has it.  Excepted are sections
\* with a size: with types left out on a little-endian machine, and in searches
\* of articles that have their types, where the type itself is searched too.
SectionsSurvive ==
    function = "sections" /\ input # <<>> =>
        \A little \in BOOLEAN :
            LET n == Len(input)
                types == [i \in 1 .. n |-> input[i].type]
                article == Art!ArticleOfSameTypes(input)
                typed == Art!ArticleOf(input)
            IN /\ Art!print_data(Art!GetWordData(typed, <<>>, little)) = ShownOf(input)
               /\ (little => Unsized(input, n)) =>
                    Art!print_data(Art!GetWordData(article, types, little)) = ShownOf(input)
               /\ \A w \in SoughtWords :
                    /\ (little => Unsized(input, n - 1)) =>
                        (Art!SearchData({w}, article, types, little) <=> HasText(input, w))
                    /\ Unsized(input, n) =>
                        /\ HasText(input, w) => Art!SearchData({w}, typed, <<>>, little)
                        /\ Art!SearchData({w}, typed, <<>>, little) => HasTextOrType(input, w)

\* A dictzip file as RFC 1952 and dictzip have it: a letter adds a chunk of that
\* many bytes, a character to the name or to the comment, or the CRC of the header.
\* What a chunk holds is its number.
DzLetters(letters, kind) ==
    FlattenSeq([i \in 1 .. Len(letters) |->
        IF letters[i][1] = kind THEN <<letters[i][2]>> ELSE <<>>])
DzText(text) == IF text = <<>> THEN <<>> ELSE text \o <<Dz!NUL>>
DzFlags(name, comment, crc) ==
    Dz!FEXTRA + (IF crc = <<>> THEN 0 ELSE Dz!FHCRC)
    + (IF name = <<>> THEN 0 ELSE Dz!FNAME) + (IF comment = <<>> THEN 0 ELSE Dz!COMMENT)

TwoBytes(n) == <<n % 256, n \div 256>>
DzHead(flags, n) ==
    <<31, 139, 8, flags, 1, 2, 3, 4, 2, 3, (2 * n + 10) % 256, (2 * n + 10) \div 256,
      Dz!RND_S1, Dz!RND_S2, (2 * n + 6) % 256, (2 * n + 6) \div 256, 1, 0, 188, 2,
      n % 256, n \div 256>>
DzTable(chunks) == FlattenSeq([i \in 1 .. Len(chunks) |-> TwoBytes(chunks[i])])
Chunk(chunks, i) == [k \in 1 .. chunks[i] |-> i]
DzBody(chunks) == FlattenSeq([i \in 1 .. Len(chunks) |-> Chunk(chunks, i)])
DzTail == <<1, 2, 3, 4, 7, 1, 0, 0>>
DzFile(chunks, name, comment, crc) ==
    FlattenSeq(<<DzHead(DzFlags(name, comment, crc), Len(chunks)), DzTable(chunks),
                 DzText(name), DzText(comment), IF crc = <<>> THEN <<>> ELSE <<5, 6>>,
                 DzBody(chunks), DzTail>>)

\* The lengths of the table and of each chunk have two bytes.
DzFits(chunks) ==
    /\ 2 * Len(chunks) + 10 < 65536
    /\ \A i \in 1 .. Len(chunks) : chunks[i] < 65536

\* The name and the comment do not run over the buffer of read_header.
DzNamed == \A kind \in {"name", "comment"} : Len(DzLetters(input, kind)) < Dz!BUFFERSIZE

\* A dictzip file and a text are opened for what they are, and every chunk is where
\* the offsets say.
DzFiles(bytes) == [fname \in {"dz", "text"} |-> IF fname = "dz" THEN bytes ELSE Tail(bytes)]
DzOpens(bytes, chunks) ==
    LET dz == Dz!open(DzFiles(bytes), "dz")
        text == Dz!open(DzFiles(bytes), "text")
    IN /\ dz.ok <=> chunks # <<>>
       /\ text.ok /\ text.header.type = "text" /\ text.header.length = Len(bytes) - 1
       /\ dz.ok =>
            /\ dz.header.type = "dzip" /\ dz.header.length = 263 /\ dz.header.chunkLength = 700
            /\ dz.header.chunks = chunks
            /\ \A i \in 1 .. Len(chunks) :
                LET from == dz.header.offsets[i]
                IN SubSeq(dz.map, from + 1, from + chunks[i]) = Chunk(chunks, i)

\* Whatever else its header holds, every chunk of a dictzip file is where the
\* offsets say, with the length of the table; a file that is none is a text.
\* Excepted are names and comments too long for their buffer.
ChunksAreThere ==
    function = "header" =>
        LET chunks == DzLetters(input, "chunk")
            bytes == DzFile(chunks, DzLetters(input, "name"), DzLetters(input, "comment"),
                            DzLetters(input, "crc"))
        IN DzFits(chunks) /\ DzNamed => DzOpens(bytes, chunks)

\* A word that is not in the dictionary leads to one that is the same but for its
\* case, wherever that stands among the others; and a regular form of an English
\* word leads to the word, in small letters, capitals or capitalised.
SimilarIsFound ==
    /\ function = "cases" /\ input # <<>> =>
         LET forms == {w \in [DOMAIN input -> Letters["cases"]] : Similar!SameButCase(w, input)}
         IN \A u, v \in forms :
              LET all == {u, v} \union OtherWords
              IN /\ Similar!SimpleLookupWord(all, input).found # <<>>
                 /\ Similar!SameButCase(Similar!SimpleLookupWord(all, input).found, input)
                 /\ Similar!SimpleLookupSynonymWord(all, input).found = Similar!SimpleLookupWord(all, input).found
    /\ function = "inflection" /\ Len(input) > 2 =>
         \A w \in Similar!Inflections(input) :
            /\ \A form \in {w, Similar!Up(w), Similar!Title(w)} :
                   Similar!SimpleLookupWord({input}, form).found = input
            /\ Similar!SimpleLookupWord({Similar!Up(input)}, Similar!Up(w)).found = Similar!Up(input)
=============================================================================
