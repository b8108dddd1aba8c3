------------------------- MODULE ArticleDataProofs --------------------------
(***************************************************************************)
(* The bytes of an article are right for every file, chunk length, number  *)
(* of slots and order of reading.                                          *)
(*                                                                         *)
(* ChunkFacts is the arithmetic of read(): which part of which chunk an    *)
(* article needs, and that the chunk has it.  The invariant then says what *)
(* is in the slots, in the ring and in the buffer after so many turns.     *)
(*                                                                         *)
(* Also of the texts that a search in articles and the client find in an   *)
(* article, whatever sections it has (Sections), and of the chunks that    *)
(* opening a dictionary file finds, whatever its header holds (DzHeader).  *)
(***************************************************************************)
EXTENDS ArticleData, Inputs, FiniteSetTheorems, SequenceTheorems, WellFoundedInduction, TLAPS

-----------------------------------------------------------------------------
(* Products and quotients of positions by the size of a chunk.             *)

\* Multiplication by a size is strictly monotone.
LEMMA TimesMonotone ==
    ASSUME NEW a \in Int, NEW b \in Int, NEW e \in Nat, a < b
    PROVE  a * e + e <= b * e
<1>1. (b - a - 1) * e >= 0
  <2>1. b - a - 1 \in Nat  OBVIOUS
  <2> QED BY <2>1, SMT
<1>2. (b - a - 1) * e = b * e - a * e - e  BY SMT
<1> QED BY <1>1, <1>2, SMT

\* \div and % of a position by a size: its page and its place there.
LEMMA Division ==
    ASSUME NEW i \in Int, NEW e \in Nat \ {0}
    PROVE  /\ i \div e \in Int
           /\ i % e \in 0 .. e - 1
           /\ i = (i \div e) * e + (i % e)
BY SMT

\* What is left of a position after the sizes that fit below it.
LEMMA Remainder ==
    ASSUME NEW i \in Int, NEW e \in Nat \ {0}
    PROVE  /\ i \div e \in Int
           /\ (i \div e) * e \in Int
           /\ i - (i \div e) * e \in 0 .. e - 1
<1> DEFINE q == i \div e
<1> DEFINE r == i % e
<1>1. q \in Int /\ r \in 0 .. e - 1 /\ i = q * e + r  BY Division
<1>2. q * e \in Int  BY <1>1, SMT
<1> HIDE DEF q, r
<1>3. i - q * e = r  BY <1>1, <1>2
<1> QED BY <1>1, <1>2, <1>3 DEF q

-----------------------------------------------------------------------------
(* The chunks of an article.                                               *)

Entries == [offset : Nat, size : Nat]

\* An entry of an index of the instance lies within the file.
LEMMA EntryFacts ==
    ASSUME NEW idx \in Indices, NEW a \in DOMAIN idx
    PROVE  idx[a] \in Entries /\ End(idx[a]) <= Length
<1>1. idx \in Seq(Entries)  BY IndicesAssumption DEF Entries
<1> QED BY <1>1, IndicesAssumption DEF End

\* There are as many chunks as it takes to cover the file.
LEMMA CountFacts ==
    /\ ChunkCount \in Nat \ {0}
    /\ Length <= ChunkCount * ChunkLength
    /\ \A c \in 0 .. ChunkCount - 1 :
          /\ c * ChunkLength \in Nat
          /\ c * ChunkLength < Length
          /\ SizeOf(c) \in 1 .. ChunkLength
          /\ c * ChunkLength + SizeOf(c) <= Length
<1> DEFINE e == ChunkLength
<1> DEFINE n == Length + ChunkLength - 1
<1> DEFINE q == n \div e
<1> DEFINE r == n % e
<1>1. e \in Nat \ {0} /\ Length \in Nat \ {0}  BY SizesAssumption
<1>2. n \in Nat /\ n = Length + e - 1  BY <1>1
<1>3. q \in Int /\ r \in 0 .. e - 1 /\ n = q * e + r
  <2> HIDE DEF n
  <2> QED BY <1>1, <1>2, Division
<1>4. q * e \in Int  BY <1>1, <1>3, SMT
<1>5. Length <= q * e /\ q * e < Length + e
  <2> HIDE DEF q, r, n, e
  <2> QED BY <1>1, <1>2, <1>3, <1>4
<1>6. q >= 1
  <2>1. q < 1 => q * e + e <= 1 * e  BY <1>1, <1>3, TimesMonotone
  <2>2. 1 * e = e  BY <1>1
  <2> HIDE DEF q, r, n, e
  <2> QED BY <1>1, <1>3, <1>4, <1>5, <2>1, <2>2
<1>7. ASSUME NEW c \in 0 .. q - 1
      PROVE  /\ c * e \in Nat
             /\ c * e < Length
             /\ (c + 1) * e = c * e + e
  <2>1. c \in Nat /\ c * e \in Nat /\ (c + 1) * e = c * e + e
    <3>1. c \in Nat
      <4> HIDE DEF q
      <4> QED BY <1>3
    <3> QED BY <1>1, <3>1, SMT
  <2>2. c < q  
    <3> HIDE DEF q
    <3> QED BY <1>3
  <2>3. c * e + e <= q * e  BY <1>1, <1>3, <2>1, <2>2, TimesMonotone
  <2> HIDE DEF q, r, n, e
  <2> QED BY <1>1, <1>4, <1>5, <2>1, <2>3
<1>8. ChunkCount = q  BY DEF ChunkCount
<1>9. ASSUME NEW c \in 0 .. q - 1
      PROVE  SizeOf(c) \in 1 .. e /\ c * e + SizeOf(c) <= Length
  <2>1. SizeOf(c) = IF (c + 1) * e <= Length THEN e ELSE Length - c * e  BY DEF SizeOf
  <2> HIDE DEF q, r, n, e
  <2> QED BY <1>1, <1>7, <2>1
<1> HIDE DEF q, r, n
<1> QED BY <1>1, <1>3, <1>5, <1>6, <1>7, <1>8, <1>9

\* An article ends in the chunk it begins in or in a later one.
LEMMA FirstBeforeLast ==
    ASSUME NEW e \in Entries
    PROVE  FirstChunk(e) \in Int /\ LastChunk(e) \in Int /\ FirstChunk(e) <= LastChunk(e)
<1> DEFINE n == ChunkLength
<1> DEFINE s == e.offset
<1> DEFINE t == End(e)
<1> DEFINE f == s \div n
<1> DEFINE l == t \div n
<1>1. n \in Nat \ {0} /\ s \in Nat /\ t \in Nat /\ s <= t
  BY SizesAssumption DEF Entries, End
<1>2. f \in Int /\ f * n \in Int /\ s - f * n \in 0 .. n - 1
  <2> HIDE DEF s, t, n
  <2> QED BY <1>1, Remainder
<1>3. l \in Int /\ l * n \in Int /\ t - l * n \in 0 .. n - 1
  <2> HIDE DEF s, t, n
  <2> QED BY <1>1, Remainder
<1>4. f <= l
  <2>1. l < f => l * n + n <= f * n  BY <1>1, <1>2, <1>3, TimesMonotone
  <2> HIDE DEF f, l, n, s, t
  <2> QED BY <1>1, <1>2, <1>3, <2>1
<1> QED BY <1>2, <1>3, <1>4 DEF FirstChunk, LastChunk

\* What a chunk has of an article.
LEMMA ChunkFacts ==
    ASSUME NEW e \in Entries, End(e) <= Length, NEW c \in FirstChunk(e) .. LastChunk(e)
    PROVE  /\ FirstChunk(e) \in Nat /\ LastChunk(e) \in Nat
           /\ FirstChunk(e) <= LastChunk(e) /\ LastChunk(e) <= ChunkCount
           /\ c * ChunkLength \in Nat /\ (c + 1) * ChunkLength = c * ChunkLength + ChunkLength
           /\ c = FirstChunk(e) => e.offset - c * ChunkLength \in 0 .. ChunkLength - 1
           /\ c # FirstChunk(e) => c * ChunkLength > e.offset
           /\ c = LastChunk(e) => End(e) - c * ChunkLength \in 0 .. ChunkLength - 1
           /\ c # LastChunk(e) => (c + 1) * ChunkLength <= End(e)
           /\ c # ChunkCount =>
                /\ c \in 0 .. ChunkCount - 1
                /\ c = LastChunk(e) => End(e) - c * ChunkLength <= SizeOf(c)
                /\ c # LastChunk(e) => SizeOf(c) = ChunkLength
           /\ c = ChunkCount => c = LastChunk(e) /\ End(e) = c * ChunkLength
<1> DEFINE n == ChunkLength
<1> DEFINE s == e.offset
<1> DEFINE t == End(e)
<1> DEFINE f == FirstChunk(e)
<1> DEFINE l == LastChunk(e)
<1> DEFINE m == ChunkCount
<1>1. n \in Nat \ {0} /\ Length \in Nat \ {0}  BY SizesAssumption
<1>2. s \in Nat /\ t \in Nat /\ s <= t /\ t <= Length  BY DEF Entries, End
<1>3. f \in Int /\ s - f * n \in 0 .. n - 1 /\ f * n \in Int
  <2>1. f = s \div n  BY DEF FirstChunk
  <2> HIDE DEF f, s, n
  <2> QED BY <1>1, <1>2, <2>1, Remainder
<1>4. l \in Int /\ t - l * n \in 0 .. n - 1 /\ l * n \in Int
  <2>1. l = t \div n  BY DEF LastChunk
  <2> HIDE DEF l, t, n
  <2> QED BY <1>1, <1>2, <2>1, Remainder
<1>5. m \in Nat \ {0} /\ Length <= m * n /\ m * n \in Int
  <2>1. m \in Nat \ {0} /\ Length <= m * n  BY CountFacts
  <2>2. m * n \in Int  BY <1>1, <2>1, SMT
  <2> QED BY <2>1, <2>2
<1>6. 0 <= f
  <2>1. f < 0 => f * n + n <= 0 * n  BY <1>1, <1>3, TimesMonotone
  <2>2. 0 * n = 0  BY <1>1
  <2> HIDE DEF f, n, s
  <2> QED BY <1>1, <1>2, <1>3, <2>1, <2>2
<1>7. f <= l
  <2>1. l < f => l * n + n <= f * n  BY <1>1, <1>3, <1>4, TimesMonotone
  <2> HIDE DEF f, l, n, s, t
  <2> QED BY <1>1, <1>2, <1>3, <1>4, <2>1
<1>8. l <= m
  <2>1. m < l => m * n + n <= l * n  BY <1>1, <1>4, <1>5, TimesMonotone
  <2> HIDE DEF l, n, t, m
  <2> QED BY <1>1, <1>2, <1>4, <1>5, <2>1
<1>9. c \in Nat /\ f <= c /\ c <= l
  <2>1. c \in f .. l  OBVIOUS
  <2> HIDE DEF f, l
  <2> QED BY <1>3, <1>4, <1>6, <2>1
<1>10. c * n \in Nat /\ (c + 1) * n = c * n + n  BY <1>1, <1>9, SMT
<1>11. c # f => c * n > s
  <2>1. f < c => f * n + n <= c * n  BY <1>1, <1>3, <1>9, TimesMonotone
  <2> HIDE DEF f, n, s
  <2> QED BY <1>1, <1>2, <1>3, <1>9, <1>10, <2>1
<1>12. c # l => c * n + n <= t
  <2>1. c < l => c * n + n <= l * n  BY <1>1, <1>4, <1>9, TimesMonotone
  <2> HIDE DEF l, n, t
  <2> QED BY <1>1, <1>2, <1>4, <1>9, <1>10, <2>1
<1>13. c # m => c \in 0 .. m - 1
  <2> HIDE DEF l, m
  <2> QED BY <1>4, <1>5, <1>8, <1>9
<1>14. SizeOf(c) = IF c * n + n <= Length THEN n ELSE Length - c * n
  BY <1>10 DEF SizeOf
<1>15. c # m /\ c = l => t - c * n <= SizeOf(c)
  <2> HIDE DEF l, m, t, n
  <2> QED BY <1>1, <1>2, <1>4, <1>10, <1>14
<1>16. c # l => SizeOf(c) = n
  <2> HIDE DEF l, t, n
  <2> QED BY <1>1, <1>2, <1>10, <1>12, <1>14
<1>17. c = m => c = l /\ t = c * n
  <2> HIDE DEF l, m, t, n
  <2> QED BY <1>1, <1>2, <1>4, <1>5, <1>8, <1>9, <1>10
<1> QED
  <2> HIDE DEF f, l, m, t, n, s
  <2>1. /\ f \in Nat /\ l \in Nat /\ f <= l /\ l <= m
        /\ c * n \in Nat /\ (c + 1) * n = c * n + n
        /\ c = f => s - c * n \in 0 .. n - 1
        /\ c # f => c * n > s
        /\ c = l => t - c * n \in 0 .. n - 1
        /\ c # l => (c + 1) * n <= t
        /\ c # m => /\ c \in 0 .. m - 1
                    /\ c = l => t - c * n <= SizeOf(c)
                    /\ c # l => SizeOf(c) = n
        /\ c = m => c = l /\ t = c * n
    BY <1>3, <1>4, <1>6, <1>7, <1>8, <1>10, <1>11, <1>12, <1>13, <1>15, <1>16, <1>17
  <2> QED BY <2>1 DEF f, l, m, t, n, s

-----------------------------------------------------------------------------
(* The buffer of a read.                                                   *)

Pos == Bytes \cup {Garbage}

\* n bytes of the file from a on.
Run(a, n) == [k \in 1 .. n |-> a + k - 1]

LEMMA RunFacts ==
    ASSUME NEW a \in Nat, NEW n \in Nat
    PROVE  /\ Run(a, n) \in Seq(Nat) /\ Len(Run(a, n)) = n
           /\ \A k \in 1 .. n : Run(a, n)[k] = a + k - 1
BY DEF Run

LEMMA RunsJoin ==
    ASSUME NEW a \in Nat, NEW m \in Nat, NEW n \in Nat
    PROVE  Run(a, m) \o Run(a + m, n) = Run(a, m + n)
<1> DEFINE b == a + m
<1> DEFINE x == Run(a, m)
<1> DEFINE y == Run(b, n)
<1> DEFINE l == x \o y
<1>1. b \in Nat /\ m + n \in Nat  OBVIOUS
<1>2. x \in Seq(Nat) /\ Len(x) = m  BY RunFacts
<1>3. y \in Seq(Nat) /\ Len(y) = n  BY <1>1, RunFacts
<1>4. l \in Seq(Nat) /\ Len(l) = m + n /\ \A k \in 1 .. m + n :
          l[k] = IF k <= m THEN x[k] ELSE y[k - m]
  <2> HIDE DEF x, y
  <2> QED BY <1>2, <1>3, ConcatProperties
<1>5. ASSUME NEW k \in 1 .. m + n  PROVE l[k] = a + k - 1
  <2>1. CASE k <= m
    <3>1. k \in 1 .. m  BY <2>1
    <3>2. x[k] = a + k - 1  BY <3>1, RunFacts
    <3> HIDE DEF l, x, y
    <3> QED BY <1>4, <2>1, <3>2
  <2>2. CASE k > m
    <3>1. k - m \in 1 .. n  BY <2>2
    <3>2. y[k - m] = b + (k - m) - 1  BY <1>1, <3>1, RunFacts
    <3> HIDE DEF l, x, y
    <3> QED BY <1>4, <2>2, <3>2
  <2> HIDE DEF l, b
  <2> QED BY <2>1, <2>2
<1>6. Run(a, m + n) \in Seq(Nat) /\ Len(Run(a, m + n)) = m + n
      /\ \A k \in 1 .. m + n : Run(a, m + n)[k] = a + k - 1
  BY <1>1, RunFacts
<1>7. l = Run(a, m + n)
  <2> DEFINE r == Run(a, m + n)
  <2>1. r \in Seq(Nat) /\ Len(l) = Len(r) /\ \A k \in 1 .. Len(l) : l[k] = r[k]
    <3> HIDE DEF l
    <3> QED BY <1>4, <1>5, <1>6
  <2> HIDE DEF l, r
  <2>2. l = r  BY <1>4, <2>1, SeqEqual
  <2> QED BY <2>2 DEF r
<1> QED BY <1>7

\* What a read has so far: nothing, or all of the chunks before this one.
SoFar == IF IsFirst THEN 0 ELSE chunk * ChunkLength - Entry.offset

\* What it has after this turn.
AfterTurn == IF IsLast THEN Entry.size ELSE (chunk + 1) * ChunkLength - Entry.offset

Has(data, i) == \A k \in 0 .. SizeOf(i) - 1 : data[k] = i * ChunkLength + k

\* The entry being read.
LEMMA EntryRead ==
    ASSUME TypeOK, todo # <<>>
    PROVE  /\ Head(todo) \in DOMAIN index /\ Tail(todo) \in Seq(DOMAIN index)
           /\ Entry \in Entries /\ End(Entry) <= Length /\ Entry.offset \in 0 .. Length
           /\ \A k \in 0 .. Entry.size - 1 : Entry.offset + k \in Bytes
<1>1. Head(todo) \in DOMAIN index /\ Tail(todo) \in Seq(DOMAIN index)  BY DEF TypeOK
<1>2. Entry \in Entries /\ End(Entry) <= Length  BY <1>1, EntryFacts DEF TypeOK, Entry
<1>3. Length \in Nat  BY SizesAssumption
<1>4. Entry.offset \in Nat /\ Entry.size \in Nat /\ Entry.offset + Entry.size <= Length
  BY <1>2 DEF Entries, End
<1> QED BY <1>1, <1>2, <1>3, <1>4 DEF Bytes

\* The part of a chunk that a turn copies.
LEMMA CopyFacts ==
    ASSUME TypeOK, at = "read"
    PROVE  /\ CopyFrom(chunk) \in InChunk
           /\ CopyTo(chunk) \in 0 .. ChunkLength /\ CopyFrom(chunk) <= CopyTo(chunk)
           /\ SoFar \in Nat /\ AfterTurn \in Nat
           /\ Entry.offset + SoFar = chunk * ChunkLength + CopyFrom(chunk)
           /\ AfterTurn = SoFar + (CopyTo(chunk) - CopyFrom(chunk))
           /\ chunk # ChunkCount => /\ chunk \in 0 .. ChunkCount - 1
                                    /\ CopyTo(chunk) <= SizeOf(chunk)
           /\ chunk = ChunkCount => IsLast /\ CopyTo(chunk) = 0
<1> DEFINE n == ChunkLength
<1> DEFINE b == chunk * ChunkLength
<1> DEFINE s == Entry.offset
<1> DEFINE t == End(Entry)
<1> DEFINE b1 == (chunk + 1) * ChunkLength
<1>1. todo # <<>> /\ chunk \in FirstChunk(Entry) .. LastChunk(Entry)  BY DEF TypeOK
<1>2. Entry \in Entries /\ End(Entry) <= Length  BY <1>1, EntryRead
<1>3. n \in Nat \ {0} /\ s \in Nat /\ t \in Nat /\ t = s + Entry.size /\ Entry.size \in Nat
  BY <1>2, SizesAssumption DEF Entries, End
<1>4. /\ b \in Nat /\ b1 = b + n
      /\ IsFirst => s - b \in 0 .. n - 1
      /\ ~IsFirst => b > s
      /\ IsLast => t - b \in 0 .. n - 1
      /\ ~IsLast => b1 <= t
      /\ chunk # ChunkCount => /\ chunk \in 0 .. ChunkCount - 1
                               /\ IsLast => t - b <= SizeOf(chunk)
                               /\ ~IsLast => SizeOf(chunk) = n
      /\ chunk = ChunkCount => IsLast /\ t = b
  BY <1>1, <1>2, ChunkFacts DEF IsFirst, IsLast
<1>5. /\ CopyFrom(chunk) = IF IsFirst THEN s - b ELSE 0
      /\ CopyTo(chunk) = IF IsLast THEN t - b ELSE n
      /\ SoFar = IF IsFirst THEN 0 ELSE b - s
      /\ AfterTurn = IF IsLast THEN t - s ELSE b1 - s
  BY <1>3 DEF CopyFrom, CopyTo, SoFar, AfterTurn
<1> HIDE DEF n, b, s, t, b1
<1>6. /\ CopyFrom(chunk) \in 0 .. n - 1 /\ CopyTo(chunk) \in 0 .. n
      /\ CopyFrom(chunk) <= CopyTo(chunk)
      /\ SoFar \in Nat /\ AfterTurn \in Nat
      /\ s + SoFar = b + CopyFrom(chunk)
      /\ AfterTurn = SoFar + (CopyTo(chunk) - CopyFrom(chunk))
  BY <1>3, <1>4, <1>5
<1>7. /\ chunk # ChunkCount => CopyTo(chunk) <= SizeOf(chunk)
      /\ chunk = ChunkCount => CopyTo(chunk) = 0
  BY <1>3, <1>4, <1>5
<1> QED BY <1>4, <1>6, <1>7 DEF n, b, s, InChunk

\* A turn copies bytes, whatever the chunk's buffer holds.
LEMMA CopyHasType ==
    ASSUME TypeOK, at = "read", NEW data \in Data
    PROVE  Copied(data) \in Pieces
<1> DEFINE f == CopyFrom(chunk)
<1> DEFINE t == CopyTo(chunk)
<1>1. f \in InChunk /\ t \in 0 .. ChunkLength /\ f <= t /\ ChunkLength \in Nat
  BY CopyFacts, SizesAssumption
<1>2. f \in Nat /\ t \in Nat /\ t - f \in Nat
  <2> HIDE DEF f, t
  <2> QED BY <1>1 DEF InChunk
<1>3. \A k \in 1 .. t - f : f + k - 1 \in InChunk
  <2> HIDE DEF f, t
  <2> QED BY <1>1, <1>2 DEF InChunk
<1> DEFINE piece == [k \in 1 .. t - f |-> data[f + k - 1]]
<1>4. \A k \in 1 .. t - f : data[f + k - 1] \in Pos
  <2> HIDE DEF f, t
  <2> QED BY <1>3 DEF Data, Pos
<1>5. piece \in Seq(Pos)
  <2> HIDE DEF f, t
  <2> QED BY <1>2, <1>4
<1>6. buffer \in Seq(Pos)  BY DEF TypeOK, Pieces, Pos
<1>7. Copied(data) = buffer \o piece  BY DEF Copied
<1> HIDE DEF piece, f, t
<1> QED BY <1>5, <1>6, <1>7 DEF Pieces, Pos

\* A turn copies the bytes of the article that follow those it has, if the
\* chunk's buffer holds the chunk; past the table it copies none.
LEMMA CopyIsRight ==
    ASSUME TypeOK, at = "read", buffer = Run(Entry.offset, SoFar),
           NEW data, chunk # ChunkCount => Has(data, chunk)
    PROVE  Copied(data) = Run(Entry.offset, AfterTurn)
<1> DEFINE f == CopyFrom(chunk)
<1> DEFINE t == CopyTo(chunk)
<1> DEFINE b == chunk * ChunkLength
<1>1. /\ f \in InChunk /\ t \in 0 .. ChunkLength /\ f <= t /\ ChunkLength \in Nat
      /\ SoFar \in Nat /\ AfterTurn = SoFar + (t - f)
      /\ Entry.offset + SoFar = b + f
      /\ chunk # ChunkCount => t <= SizeOf(chunk) /\ chunk \in 0 .. ChunkCount - 1
      /\ chunk = ChunkCount => t = 0
  BY CopyFacts, SizesAssumption
<1>2. f \in Nat /\ t \in Nat /\ t - f \in Nat
  <2> HIDE DEF f, t, b
  <2> QED BY <1>1 DEF InChunk
<1>3. Entry.offset \in Nat  BY EntryRead DEF TypeOK
<1>4. b \in Int
  <2>1. chunk \in Nat /\ ChunkLength \in Nat  BY CountFacts, SizesAssumption DEF TypeOK
  <2> QED BY <2>1, SMT
<1> DEFINE piece == [k \in 1 .. t - f |-> data[f + k - 1]]
<1>5. ASSUME NEW k \in 1 .. t - f  PROVE data[f + k - 1] = (b + f) + k - 1
  <2>1. chunk # ChunkCount
    <3> HIDE DEF f, t, b
    <3> QED BY <1>1, <1>2
  <2>2. SizeOf(chunk) \in 1 .. ChunkLength  BY <1>1, <2>1, CountFacts
  <2>3. f + k - 1 \in 0 .. SizeOf(chunk) - 1
    <3> HIDE DEF f, t, b
    <3> QED BY <1>1, <1>2, <2>1, <2>2
  <2>4. data[f + k - 1] = b + (f + k - 1)  BY <2>1, <2>3 DEF Has
  <2> HIDE DEF f, t, b
  <2> QED BY <1>2, <1>4, <2>4
<1>6. piece = Run(b + f, t - f)
  <2> HIDE DEF f, t, b
  <2> QED BY <1>5 DEF Run
<1>7. Copied(data) = buffer \o piece  BY DEF Copied
<1>8. b + f = Entry.offset + SoFar  BY <1>1
<1> HIDE DEF piece, f, t, b
<1>9. Run(Entry.offset, SoFar) \o Run(b + f, t - f) = Run(Entry.offset, SoFar + (t - f))
  <2> DEFINE o == Entry.offset
  <2> DEFINE m == SoFar
  <2> DEFINE n == t - f
  <2> DEFINE g == b + f
  <2>1. o \in Nat /\ m \in Nat /\ n \in Nat /\ g = o + m  BY <1>1, <1>2, <1>3, <1>8
  <2> HIDE DEF o, m, n, g
  <2>2. Run(o, m) \o Run(o + m, n) = Run(o, m + n)  BY <2>1, RunsJoin
  <2>3. Run(o, m) \o Run(g, n) = Run(o, m + n)  BY <2>1, <2>2
  <2> QED BY <2>3 DEF o, m, n, g
<1> QED BY <1>1, <1>6, <1>7, <1>9

-----------------------------------------------------------------------------
(* The inductive invariant.                                                *)

\* The ring holds articles.
RingHolds ==
    stream = "ok" =>
        \A r \in RingSlots : ring[r].used =>
            \E a \in DOMAIN index :
                ring[r].offset = index[a].offset /\ ring[r].data = Text(index[a])

\* The buffer holds the article up to the chunk this turn is about.
BufferHolds ==
    stream = "ok" /\ at = "read" => buffer = Run(Entry.offset, SoFar)

IInv == TypeOK /\ SlotsHoldChunks /\ RingHolds /\ BufferHolds /\ AnswersAreArticles

SlotType == [chunk : -1 .. ChunkCount, count : 0 .. ChunkLength,
             stamp : -MaxStamp - 1 .. MaxStamp, data : Data]

LEMMA InitHolds == Init => IInv
<1> SUFFICES ASSUME Init  PROVE IInv  OBVIOUS
<1> USE DEF Init
<1>1. /\ Length \in Nat \ {0} /\ ChunkLength \in Nat \ {0} /\ ChunkCount \in Nat \ {0}
      /\ RingSize \in Nat \ {0} /\ MaxStamp \in Nat \ {0}
  BY SizesAssumption, CountFacts
<1>2. index \in Seq(Entries) /\ index # <<>> /\ 1 \in DOMAIN index
  BY IndicesAssumption DEF Entries
<1>3. EmptySlot \in SlotType
  <2>1. [k \in InChunk |-> Garbage] \in Data  BY DEF Data
  <2> QED BY <1>1, <2>1 DEF EmptySlot, SlotType
<1>4. EmptyRing \in [used : BOOLEAN, offset : 0 .. Length, data : Pieces]
  BY <1>1 DEF EmptyRing, Pieces
<1>5. query \in [kind : {"none", "lookup", "data"}, first : DOMAIN index,
                 count : 0 .. Len(index), synonyms : Seq(DOMAIN index)]
  BY <1>2 DEF NoQuery
<1>6. cache \in [Slots -> SlotType]  BY <1>3
<1>7. TypeOK
  <2>1. stamp \in -MaxStamp - 1 .. MaxStamp /\ chunk \in 0 .. ChunkCount /\ ringCur \in RingSlots
    BY <1>1 DEF RingSlots
  <2>2. buffer \in Pieces /\ todo \in Seq(DOMAIN index)
        /\ answer \in Seq([entry : DOMAIN index, data : Pieces])  BY DEF Pieces
  <2>3. ring \in [RingSlots -> [used : BOOLEAN, offset : 0 .. Length, data : Pieces]]
    BY <1>4
  <2> QED BY <1>5, <1>6, <2>1, <2>2, <2>3 DEF TypeOK, SlotType, Steps
<1>8. SlotsHoldChunks
  <2>1. \A s \in Slots : cache[s].chunk = -1  BY DEF EmptySlot
  <2> QED BY <1>1, <2>1 DEF SlotsHoldChunks
<1>9. RingHolds  BY DEF RingHolds, EmptyRing
<1>10. BufferHolds  BY DEF BufferHolds
<1>11. AnswersAreArticles  BY DEF AnswersAreArticles
<1> QED BY <1>7, <1>8, <1>9, <1>10, <1>11 DEF IInv

-----------------------------------------------------------------------------
(* One turn of the loop of read().                                         *)

\* What the three ways of a turn have in common: the slot is of its type, is of
\* this chunk and, as long as the stream is good, holds it.
GoodTurn(s, slot) ==
    /\ Turn(s, slot)
    /\ slot \in SlotType /\ slot.chunk = chunk
    /\ stream' \in {"ok", "bad"} /\ (stream' = "ok" => stream = "ok")
    /\ stream' = "ok" /\ chunk # ChunkCount => Has(slot.data, chunk)

LEMMA TurnTypes ==
    ASSUME IInv, NEW s \in Slots, NEW slot, GoodTurn(s, slot)
    PROVE  TypeOK'
<1>1. /\ TypeOK /\ Turn(s, slot) /\ Copy(slot) /\ at = "read" /\ slot \in SlotType
      /\ index' = index /\ query' = query /\ stream' \in {"ok", "bad"}
  BY DEF IInv, GoodTurn, Turn
<1>2. todo # <<>> /\ chunk \in FirstChunk(Entry) .. LastChunk(Entry)
  BY <1>1 DEF TypeOK
<1>3. Head(todo) \in DOMAIN index /\ Tail(todo) \in Seq(DOMAIN index)
      /\ Entry.offset \in 0 .. Length /\ Entry \in Entries /\ End(Entry) <= Length
  BY <1>1, <1>2, EntryRead
<1>4. Copied(slot.data) \in Pieces  BY <1>1, CopyHasType DEF SlotType
<1>5. cache' \in [Slots -> SlotType]  BY <1>1 DEF TypeOK, SlotType, Turn
<1>6. stamp' \in -MaxStamp - 1 .. MaxStamp
  BY <1>1, SizesAssumption DEF TypeOK, Turn, NextStamp
<1>7. /\ index' \in Indices /\ query' \in [kind : {"none", "lookup", "data"},
             first : DOMAIN index', count : 0 .. Len(index'), synonyms : Seq(DOMAIN index')]
  BY <1>1 DEF TypeOK
<1>8. CASE ~IsFirst /\ ~IsLast /\ slot.count # ChunkLength
  <2>1. at' = "aborted" /\ UNCHANGED <<todo, answer, chunk, buffer, articles>>
    BY <1>1, <1>8 DEF Copy
  <2> QED BY <1>1, <1>5, <1>6, <1>7, <2>1 DEF TypeOK, SlotType, Steps, articles
<1>9. CASE ~(~IsFirst /\ ~IsLast /\ slot.count # ChunkLength) /\ ~IsLast
  <2>1. chunk' = chunk + 1 /\ buffer' = Copied(slot.data)
        /\ UNCHANGED <<at, todo, answer, articles>>
    BY <1>1, <1>9 DEF Copy
  <2>2. Entry' = Entry  BY <1>1, <2>1 DEF Entry
  <2>3. chunk' \in FirstChunk(Entry) .. LastChunk(Entry) /\ chunk' \in 0 .. ChunkCount
    <3>1. FirstChunk(Entry) \in Nat /\ LastChunk(Entry) \in Nat /\ LastChunk(Entry) <= ChunkCount
      BY <1>2, <1>3, ChunkFacts
    <3> QED BY <1>2, <1>9, <2>1, <3>1, CountFacts DEF IsLast
  <2>4. FirstChunk(Entry)' = FirstChunk(Entry) /\ LastChunk(Entry)' = LastChunk(Entry)
    BY <2>2 DEF FirstChunk, LastChunk, End
  <2> QED BY <1>1, <1>2, <1>4, <1>5, <1>6, <1>7, <2>1, <2>3, <2>4 DEF TypeOK, SlotType, articles
<1>10. CASE IsLast
  <2>1. chunk' = 0 /\ buffer' = <<>> /\ Answer(Copied(slot.data))
        /\ IF query.kind = "lookup" THEN Keep(Copied(slot.data)) ELSE UNCHANGED articles
    BY <1>1, <1>10 DEF Copy
  <2>2. at' = "articles" /\ todo' \in Seq(DOMAIN index)
        /\ answer' \in Seq([entry : DOMAIN index, data : Pieces])
    BY <1>1, <1>3, <1>4, <2>1 DEF Answer, TypeOK
  <2>3. chunk' \in 0 .. ChunkCount /\ buffer' \in Pieces  BY <2>1, CountFacts DEF Pieces
  <2>4. /\ ring' \in [RingSlots -> [used : BOOLEAN, offset : 0 .. Length, data : Pieces]]
        /\ ringCur' \in RingSlots
    <3>1. CASE query.kind = "lookup"
      <4>1. (ringCur + 1) % RingSize \in RingSlots
        <5>1. ringCur + 1 \in Int /\ RingSize \in Nat \ {0}
          BY <1>1, SizesAssumption DEF TypeOK, RingSlots
        <5> QED BY <5>1, Division DEF RingSlots
      <4>2. [used |-> TRUE, data |-> Copied(slot.data), offset |-> Entry.offset]
              \in [used : BOOLEAN, offset : 0 .. Length, data : Pieces]
        BY <1>3, <1>4
      <4> QED BY <1>1, <2>1, <3>1, <4>1, <4>2 DEF Keep, TypeOK
    <3>2. CASE query.kind # "lookup"
      BY <1>1, <2>1, <3>2 DEF TypeOK, articles
    <3> QED BY <3>1, <3>2
  <2> QED BY <1>1, <1>5, <1>6, <1>7, <2>2, <2>3, <2>4 DEF TypeOK, SlotType, Steps
<1> QED BY <1>8, <1>9, <1>10

LEMMA TurnSlots ==
    ASSUME IInv, NEW s \in Slots, NEW slot, GoodTurn(s, slot)
    PROVE  SlotsHoldChunks'
<1>1. /\ TypeOK /\ SlotsHoldChunks /\ IsTarget(chunk, s)
      /\ cache' = [cache EXCEPT ![s] = slot]
  BY DEF IInv, GoodTurn, Turn
<1>2. cache'[s] = slot /\ \A t \in Slots \ {s} : cache'[t] = cache[t]
  BY <1>1 DEF TypeOK
<1>3. chunk \in 0 .. ChunkCount /\ chunk # -1  BY <1>1, CountFacts DEF TypeOK
<1>4. ASSUME NEW t \in Slots \ {s}  PROVE cache[t].chunk # chunk
  <2>1. CASE Holds(chunk) = {}  BY <2>1 DEF Holds
  <2>2. CASE Holds(chunk) # {}
    <3>1. cache[s].chunk = chunk  BY <1>1, <2>2 DEF IsTarget, Holds
    <3> QED BY <1>1, <1>3, <3>1 DEF SlotsHoldChunks
  <2> QED BY <2>1, <2>2
<1>5. ASSUME NEW t \in Slots, stream' = "ok", cache'[t].chunk \in 0 .. ChunkCount - 1
      PROVE  Has(cache'[t].data, cache'[t].chunk)
  <2>1. stream = "ok"  BY <1>5 DEF GoodTurn
  <2>2. CASE t = s
    <3>1. cache'[t].chunk = chunk /\ chunk # ChunkCount
      BY <1>2, <1>5, <2>2, CountFacts DEF GoodTurn
    <3> QED BY <1>2, <1>5, <2>2, <3>1 DEF GoodTurn
  <2>3. CASE t # s  BY <1>1, <1>2, <1>5, <2>1, <2>3 DEF SlotsHoldChunks, Has
  <2> QED BY <2>2, <2>3
<1>6. ASSUME NEW t \in Slots, NEW u \in Slots,
             cache'[t].chunk = cache'[u].chunk, cache'[t].chunk # -1
      PROVE  t = u
  <2>1. slot.chunk = chunk  BY DEF GoodTurn
  <2>2. CASE t = s \/ u = s  BY <1>2, <1>4, <1>6, <2>1, <2>2
  <2>3. CASE t # s /\ u # s  BY <1>1, <1>2, <1>6, <2>3 DEF SlotsHoldChunks
  <2> QED BY <2>2, <2>3
<1>7. \A c \in 0 .. ChunkCount - 1 : SizeOf(c)' = SizeOf(c)  BY DEF SizeOf
<1> QED BY <1>5, <1>6, <1>7 DEF SlotsHoldChunks, Has

LEMMA TurnData ==
    ASSUME IInv, NEW s \in Slots, NEW slot, GoodTurn(s, slot)
    PROVE  RingHolds' /\ BufferHolds' /\ AnswersAreArticles'
<1> SUFFICES ASSUME stream' = "ok"  PROVE RingHolds' /\ BufferHolds' /\ AnswersAreArticles'
  BY DEF RingHolds, BufferHolds, AnswersAreArticles
<1>1. /\ TypeOK /\ Copy(slot) /\ at = "read" /\ index' = index /\ query' = query
      /\ stream = "ok" /\ (chunk # ChunkCount => Has(slot.data, chunk))
      /\ RingHolds /\ BufferHolds /\ AnswersAreArticles
  BY DEF IInv, GoodTurn, Turn
<1>2. todo # <<>> /\ chunk \in FirstChunk(Entry) .. LastChunk(Entry)  BY <1>1 DEF TypeOK
<1>3. Head(todo) \in DOMAIN index /\ Entry \in Entries /\ End(Entry) <= Length
  BY <1>1, <1>2, EntryRead
<1>4. Copied(slot.data) = Run(Entry.offset, AfterTurn)
  BY <1>1, CopyIsRight DEF BufferHolds
<1>5. \A e : Text(e)' = Text(e)  BY DEF Text
<1>6. CASE at' = "aborted" /\ UNCHANGED <<todo, answer, chunk, buffer, articles>>
  BY <1>1, <1>6 DEF RingHolds, BufferHolds, AnswersAreArticles, articles, Text
<1>7. CASE /\ ~IsLast /\ chunk' = chunk + 1 /\ buffer' = Copied(slot.data)
           /\ UNCHANGED <<at, todo, answer, articles>>
  <2>1. Entry' = Entry  BY <1>1, <1>7 DEF Entry
  <2>2. FirstChunk(Entry)' = FirstChunk(Entry)  BY <2>1 DEF FirstChunk
  <2>3. ~IsFirst'
    <3>1. FirstChunk(Entry) \in Nat /\ LastChunk(Entry) \in Nat  BY <1>2, <1>3, ChunkFacts
    <3> QED BY <1>2, <1>7, <2>2, <3>1 DEF IsFirst
  <2>4. SoFar' = AfterTurn  BY <1>7, <2>1, <2>3 DEF SoFar, AfterTurn
  <2>5. BufferHolds'
    <3>1. buffer' = Run(Entry.offset, AfterTurn)  BY <1>4, <1>7
    <3>2. Run(Entry.offset, AfterTurn) = Run(Entry.offset, SoFar)'  BY <2>1, <2>4 DEF Run
    <3> QED BY <3>1, <3>2 DEF BufferHolds
  <2> QED BY <1>1, <1>7, <2>5 DEF RingHolds, AnswersAreArticles, articles, Text
<1>8. CASE /\ IsLast /\ chunk' = 0 /\ buffer' = <<>> /\ Answer(Copied(slot.data))
           /\ IF query.kind = "lookup" THEN Keep(Copied(slot.data)) ELSE UNCHANGED articles
  <2>1. Copied(slot.data) = Text(Entry)  BY <1>4, <1>8 DEF AfterTurn, Run, Text
  <2>2. BufferHolds'  BY <1>8 DEF Answer, BufferHolds
  <2>3. AnswersAreArticles'
    <3>1. answer' = Append(answer, [entry |-> Head(todo), data |-> Text(Entry)])
      BY <1>8, <2>1 DEF Answer
    <3>2. answer \in Seq([entry : DOMAIN index, data : Pieces])  BY <1>1 DEF TypeOK
    <3>3. \A k \in DOMAIN answer' : answer'[k].data = Text(index[answer'[k].entry])
      BY <1>1, <3>1, <3>2 DEF AnswersAreArticles, Entry
    <3> QED BY <1>1, <3>3 DEF AnswersAreArticles, Text
  <2>4. RingHolds'
    <3>1. CASE query.kind = "lookup"
      <4>1. ring' = [ring EXCEPT ![ringCur] = [used |-> TRUE, data |-> Text(Entry),
                                              offset |-> Entry.offset]]
        BY <1>8, <2>1, <3>1 DEF Keep
      <4>2. \A r \in RingSlots : ring'[r].used =>
               \E a \in DOMAIN index :
                   ring'[r].offset = index[a].offset /\ ring'[r].data = Text(index[a])
        BY <1>1, <1>3, <4>1 DEF RingHolds, TypeOK, Entry
      <4> QED BY <1>1, <4>2 DEF RingHolds, Text
    <3>2. CASE query.kind # "lookup"
      BY <1>1, <1>8, <3>2 DEF RingHolds, articles, Text
    <3> QED BY <3>1, <3>2
  <2> QED BY <2>2, <2>3, <2>4
<1> QED BY <1>1, <1>6, <1>7, <1>8 DEF Copy

LEMMA TurnHolds ==
    ASSUME IInv, NEW s \in Slots, NEW slot, GoodTurn(s, slot)
    PROVE  IInv'
BY TurnTypes, TurnSlots, TurnData DEF IInv

-----------------------------------------------------------------------------
(* The three ways of a turn.                                               *)

\* What the parts of a record for a slot are.
LEMMA SlotFacts ==
    ASSUME TypeOK
    PROVE  /\ \A s \in Slots : cache[s] \in SlotType
           /\ NextStamp \in -MaxStamp - 1 .. MaxStamp
           /\ chunk \in -1 .. ChunkCount /\ 0 \in 0 .. ChunkLength
           /\ ChunkLength \in 0 .. ChunkLength
<1>1. ChunkLength \in Nat /\ MaxStamp \in Nat /\ ChunkCount \in Nat
  BY SizesAssumption, CountFacts
<1> QED BY <1>1 DEF TypeOK, SlotType, NextStamp

LEMMA UseSlotHolds ==
    ASSUME IInv, UseSlot  PROVE IInv'
<1>1. PICK s \in Slots : Turn(s, [cache[s] EXCEPT !.stamp = NextStamp])
  BY DEF UseSlot
<1> DEFINE slot == [cache[s] EXCEPT !.stamp = NextStamp]
<1>2. TypeOK /\ SlotsHoldChunks /\ stream' = stream /\ Holds(chunk) # {}
  BY DEF IInv, UseSlot
<1>3. cache[s] \in SlotType /\ cache[s].chunk = chunk
  BY <1>1, <1>2, SlotFacts DEF Turn, IsTarget, Holds
<1>4. slot \in SlotType /\ slot.chunk = chunk /\ slot.data = cache[s].data
  BY <1>2, <1>3, SlotFacts DEF SlotType
<1>5. ASSUME stream = "ok", chunk # ChunkCount  PROVE Has(slot.data, chunk)
  <2>1. chunk \in 0 .. ChunkCount - 1  BY <1>2, <1>5, CountFacts DEF TypeOK
  <2> QED BY <1>2, <1>3, <1>4, <1>5, <2>1 DEF SlotsHoldChunks, Has
<1>6. stream \in {"ok", "bad"}  BY <1>2 DEF TypeOK
<1>7. GoodTurn(s, slot)  BY <1>1, <1>2, <1>4, <1>5, <1>6 DEF GoodTurn
<1> QED BY <1>7, TurnHolds

LEMMA InflateHolds ==
    ASSUME IInv, Inflate  PROVE IInv'
<1> DEFINE Slot(s) == IF stream = "ok"
                      THEN Filled(SizeOf(chunk), Inflated(chunk, cache[s].data))
                      ELSE Filled(0, cache[s].data)
<1>1. PICK s \in Slots : Turn(s, Slot(s))  BY DEF Inflate
<1>2. TypeOK /\ stream' = stream /\ chunk < ChunkCount  BY DEF IInv, Inflate
<1>3. /\ chunk \in 0 .. ChunkCount - 1
      /\ SizeOf(chunk) \in 1 .. ChunkLength /\ SizeOf(chunk) \in 0 .. ChunkLength
      /\ chunk * ChunkLength \in Nat /\ chunk * ChunkLength + SizeOf(chunk) <= Length
      /\ ChunkLength \in Nat /\ Length \in Nat
  <2>1. chunk \in 0 .. ChunkCount - 1  BY <1>2, CountFacts DEF TypeOK
  <2> QED BY <2>1, CountFacts, SizesAssumption
<1>4. cache[s].data \in Data  BY <1>2, SlotFacts DEF SlotType
<1>5. Inflated(chunk, cache[s].data) \in Data
  <2> DEFINE b == chunk * ChunkLength
  <2> DEFINE z == SizeOf(chunk)
  <2>1. b \in Nat /\ z \in 1 .. ChunkLength /\ b + z <= Length  BY <1>3
  <2>2. \A k \in InChunk : k < z => b + k \in Bytes
    <3> HIDE DEF b, z
    <3> QED BY <1>3, <2>1 DEF InChunk, Bytes
  <2>3. Inflated(chunk, cache[s].data)
          = [k \in InChunk |-> IF k < z THEN b + k ELSE cache[s].data[k]]
    BY DEF Inflated
  <2> HIDE DEF b, z
  <2> QED BY <1>4, <2>2, <2>3 DEF Data
<1>6. Slot(s) \in SlotType /\ Slot(s).chunk = chunk
  BY <1>2, <1>3, <1>4, <1>5, SlotFacts DEF Filled, SlotType
<1>7. ASSUME stream = "ok"  PROVE Has(Slot(s).data, chunk)
  <2>1. Slot(s).data = Inflated(chunk, cache[s].data)  BY <1>7 DEF Filled
  <2>2. \A k \in 0 .. SizeOf(chunk) - 1 : k \in InChunk /\ k < SizeOf(chunk)
    BY <1>3 DEF InChunk
  <2> QED BY <2>1, <2>2 DEF Has, Inflated
<1>8. stream \in {"ok", "bad"}  BY <1>2 DEF TypeOK
<1>9. GoodTurn(s, Slot(s))
  <2> HIDE DEF Slot
  <2> QED BY <1>1, <1>2, <1>6, <1>7, <1>8 DEF GoodTurn
<1> QED BY <1>9, TurnHolds

LEMMA ReadPastTableHolds ==
    ASSUME IInv, ReadPastTable  PROVE IInv'
<1>1. TypeOK /\ chunk = ChunkCount  BY DEF IInv, ReadPastTable
<1>2. CASE /\ at' = "crashed"
           /\ UNCHANGED <<index, query, todo, answer, chunk, buffer, store, articles>>
  <2>1. TypeOK'  BY <1>1, <1>2 DEF TypeOK, Steps, store, articles
  <2>2. SlotsHoldChunks' /\ RingHolds' /\ AnswersAreArticles'
    BY <1>2 DEF IInv, SlotsHoldChunks, RingHolds, AnswersAreArticles,
                store, articles, Text, SizeOf
  <2>3. BufferHolds'  BY <1>2 DEF BufferHolds
  <2> QED BY <2>1, <2>2, <2>3 DEF IInv
<1>3. ASSUME NEW s \in Slots, NEW count \in {0, ChunkLength}, NEW data \in Data,
             Turn(s, Filled(count, data)), stream' \in {stream, "bad"}
      PROVE  IInv'
  <2>1. Filled(count, data) \in SlotType /\ Filled(count, data).chunk = chunk
    BY <1>1, SlotFacts DEF Filled, SlotType
  <2>2. stream \in {"ok", "bad"}  BY <1>1 DEF TypeOK
  <2>3. GoodTurn(s, Filled(count, data))  BY <1>1, <1>3, <2>1, <2>2 DEF GoodTurn
  <2> QED BY <2>3, TurnHolds
<1>4. [k \in InChunk |-> Garbage] \in Data  BY DEF Data
<1>5. \A s \in Slots : cache[s].data \in Data  BY <1>1, SlotFacts DEF SlotType
<1> QED BY <1>2, <1>3, <1>4, <1>5 DEF ReadPastTable

-----------------------------------------------------------------------------
(* The other actions.                                                      *)

Queries == [kind : {"none", "lookup", "data"}, first : DOMAIN index,
            count : 0 .. Len(index), synonyms : Seq(DOMAIN index)]

\* A query begins without touching the cache or the ring.
LEMMA BeginHolds ==
    ASSUME IInv, NEW q \in Queries, NEW entries \in Seq(DOMAIN index), Begin(q, entries)
    PROVE  IInv'
<1>1. TypeOK /\ at' = "articles" /\ query' = q /\ todo' = entries
      /\ UNCHANGED <<index, answer, chunk, buffer, store, articles>>
  BY DEF IInv, Begin
<1>2. TypeOK'  BY <1>1 DEF TypeOK, Steps, Queries, store, articles
<1>3. BufferHolds'  BY <1>1 DEF BufferHolds
<1>4. SlotsHoldChunks'  BY <1>1 DEF IInv, SlotsHoldChunks, store, SizeOf
<1>5. RingHolds'  BY <1>1 DEF IInv, RingHolds, articles, store, Text
<1>6. AnswersAreArticles'  BY <1>1 DEF IInv, AnswersAreArticles, store, Text
<1> QED BY <1>2, <1>3, <1>4, <1>5, <1>6 DEF IInv

LEMMA IndexFacts ==
    ASSUME TypeOK
    PROVE  /\ index \in Seq(Entries) /\ Len(index) \in Nat \ {0}
           /\ DOMAIN index = 1 .. Len(index)
<1>1. index \in Seq(Entries) /\ index # <<>>
  BY IndicesAssumption DEF TypeOK, Entries
<1> QED BY <1>1

LEMMA LookupHolds ==
    ASSUME IInv, Lookup  PROVE IInv'
<1>1. PICK first \in DOMAIN index, count \in 0 .. Len(index),
           synonyms \in SeqOf(DOMAIN index, MaxSynonyms) :
         /\ first + count - 1 <= Len(index)
         /\ Begin([kind |-> "lookup", first |-> first, count |-> count,
                   synonyms |-> synonyms],
                  [k \in 1 .. count |-> first + k - 1] \o synonyms)
  BY DEF Lookup
<1>2. DOMAIN index = 1 .. Len(index) /\ Len(index) \in Nat  BY IndexFacts DEF IInv
<1>3. synonyms \in Seq(DOMAIN index)
  <2>1. PICK m \in 0 .. MaxSynonyms : synonyms \in [1 .. m -> DOMAIN index]
    BY <1>1 DEF SeqOf
  <2>2. m \in Nat  BY <2>1, SizesAssumption
  <2> QED BY <2>1, <2>2
<1>4. [k \in 1 .. count |-> first + k - 1] \in Seq(DOMAIN index)
  <2>1. \A k \in 1 .. count : first + k - 1 \in DOMAIN index  BY <1>1, <1>2
  <2>2. count \in Nat  BY <1>1, <1>2
  <2> QED BY <2>1, <2>2
<1>5. [k \in 1 .. count |-> first + k - 1] \o synonyms \in Seq(DOMAIN index)
  BY <1>3, <1>4, ConcatProperties
<1>6. [kind |-> "lookup", first |-> first, count |-> count, synonyms |-> synonyms]
        \in Queries
  BY <1>1, <1>3 DEF Queries
<1> QED BY <1>1, <1>5, <1>6, BeginHolds

LEMMA FullTextHolds ==
    ASSUME IInv, FullText  PROVE IInv'
<1>1. DOMAIN index = 1 .. Len(index) /\ Len(index) \in Nat \ {0}  BY IndexFacts DEF IInv
<1>2. [a \in DOMAIN index |-> a] \in Seq(DOMAIN index)  BY <1>1
<1>3. [NoQuery EXCEPT !.kind = "data"]
        = [kind |-> "data", first |-> 1, count |-> 0, synonyms |-> <<>>]
  BY DEF NoQuery
<1>4. [kind |-> "data", first |-> 1, count |-> 0, synonyms |-> <<>>] \in Queries
  BY <1>1 DEF Queries
<1> QED BY <1>2, <1>3, <1>4, BeginHolds DEF FullText

LEMMA FromRingHolds ==
    ASSUME IInv, FromRing  PROVE IInv'
<1>1. TypeOK /\ todo # <<>> /\ RingHolds /\ AnswersAreArticles
      /\ UNCHANGED <<index, query, chunk, buffer, store, articles>>
  BY DEF IInv, FromRing
<1>2. PICK r \in RingSlots : InRing(r) /\ Answer(ring[r].data)  BY DEF FromRing
<1>3. Head(todo) \in DOMAIN index /\ Tail(todo) \in Seq(DOMAIN index)
  BY <1>1, EntryRead
<1>4. ring[r].data \in Pieces  BY <1>1 DEF TypeOK
<1>5. /\ answer' = Append(answer, [entry |-> Head(todo), data |-> ring[r].data])
      /\ todo' = Tail(todo) /\ at' = "articles"
  BY <1>2 DEF Answer
<1>6. TypeOK'
  BY <1>1, <1>3, <1>4, <1>5 DEF TypeOK, Steps, store, articles
<1>7. AnswersAreArticles'
  <2> SUFFICES ASSUME stream = "ok"  PROVE AnswersAreArticles'
    BY <1>1 DEF AnswersAreArticles, store
  <2>1. PICK a \in DOMAIN index :
           ring[r].offset = index[a].offset /\ ring[r].data = Text(index[a])
    BY <1>1, <1>2 DEF RingHolds, InRing
  <2>2. Entry.offset = index[a].offset  BY <1>2, <2>1 DEF InRing
  <2>3. Entry.size = index[a].size
    BY <1>1, <1>3, <2>2, IndicesAssumption DEF Entry, TypeOK
  <2>4. ring[r].data = Text(Entry)  BY <2>1, <2>2, <2>3 DEF Text
  <2>5. answer \in Seq([entry : DOMAIN index, data : Pieces])  BY <1>1 DEF TypeOK
  <2>6. \A k \in DOMAIN answer' : answer'[k].data = Text(index[answer'[k].entry])
    BY <1>1, <1>5, <2>4, <2>5 DEF AnswersAreArticles, Entry
  <2> QED BY <1>1, <2>6 DEF AnswersAreArticles, Text
<1> QED BY <1>1, <1>5, <1>6, <1>7 DEF IInv, SlotsHoldChunks, RingHolds, BufferHolds,
              store, articles, Text, SizeOf

LEMMA StartReadHolds ==
    ASSUME IInv, StartRead  PROVE IInv'
<1>1. TypeOK /\ todo # <<>> /\ at' = "read" /\ chunk' = FirstChunk(Entry) /\ buffer' = <<>>
      /\ UNCHANGED <<index, query, todo, answer, store, articles>>
  BY DEF IInv, StartRead
<1>2. Entry \in Entries /\ End(Entry) <= Length /\ Entry' = Entry
  BY <1>1, EntryRead DEF Entry
<1>3. FirstChunk(Entry)' = FirstChunk(Entry) /\ LastChunk(Entry)' = LastChunk(Entry)
  BY <1>2 DEF FirstChunk, LastChunk, End
<1>4. FirstChunk(Entry) \in FirstChunk(Entry) .. LastChunk(Entry)
      /\ FirstChunk(Entry) \in 0 .. ChunkCount
  <2>1. FirstChunk(Entry) \in Int /\ LastChunk(Entry) \in Int
        /\ FirstChunk(Entry) <= LastChunk(Entry)
    BY <1>2, FirstBeforeLast
  <2>2. FirstChunk(Entry) \in FirstChunk(Entry) .. LastChunk(Entry)  BY <2>1
  <2>3. FirstChunk(Entry) \in Nat /\ LastChunk(Entry) <= ChunkCount
    BY <1>2, <2>2, ChunkFacts
  <2> QED BY <2>1, <2>2, <2>3, CountFacts
<1>5. TypeOK'
  BY <1>1, <1>3, <1>4 DEF TypeOK, Steps, Pieces, store, articles
<1>6. SoFar' = 0  BY <1>1, <1>3 DEF SoFar, IsFirst
<1>7. BufferHolds'
  <2>1. buffer' = Run(Entry.offset, 0)  BY <1>1 DEF Run
  <2>2. Run(Entry.offset, 0) = Run(Entry.offset, SoFar)'  BY <1>2, <1>6 DEF Run
  <2> QED BY <2>1, <2>2 DEF BufferHolds
<1> QED BY <1>1, <1>5, <1>7 DEF IInv, SlotsHoldChunks, RingHolds, AnswersAreArticles,
              store, articles, Text, SizeOf

-----------------------------------------------------------------------------
(* The theorems.                                                           *)

LEMMA NextHolds == IInv /\ [Next]_vars => IInv'
<1> SUFFICES ASSUME IInv, [Next]_vars  PROVE IInv'  OBVIOUS
<1>1. CASE Lookup  BY <1>1, LookupHolds
<1>2. CASE FullText  BY <1>2, FullTextHolds
<1>3. CASE SkipSynonym
  <2>1. TypeOK /\ todo # <<>> /\ at = "articles" /\ todo' = Tail(todo)
        /\ UNCHANGED <<index, at, query, answer, chunk, buffer, store, articles>>
    BY <1>3 DEF IInv, SkipSynonym
  <2>2. todo' \in Seq(DOMAIN index)  BY <2>1, EntryRead
  <2>3. TypeOK'  BY <2>1, <2>2 DEF TypeOK, store, articles
  <2> QED BY <2>1, <2>3 DEF IInv, SlotsHoldChunks, RingHolds, BufferHolds,
                 AnswersAreArticles, store, articles, Text, SizeOf
<1>4. CASE FromRing  BY <1>4, FromRingHolds
<1>5. CASE StartRead  BY <1>5, StartReadHolds
<1>6. CASE EndQuery
  <2>1. TypeOK /\ at' = "idle" /\ query' = NoQuery /\ answer' = <<>>
        /\ UNCHANGED <<index, todo, chunk, buffer, store, articles>>
    BY <1>6 DEF IInv, EndQuery
  <2>2. NoQuery \in Queries
    <3>1. DOMAIN index = 1 .. Len(index) /\ Len(index) \in Nat \ {0}  BY <2>1, IndexFacts
    <3> QED BY <3>1 DEF NoQuery, Queries
  <2>3. TypeOK'  BY <2>1, <2>2 DEF TypeOK, Queries, Steps, store, articles
  <2> QED BY <2>1, <2>3 DEF IInv, SlotsHoldChunks, RingHolds, BufferHolds,
                 AnswersAreArticles, store, articles, Text, SizeOf
<1>7. CASE UseSlot  BY <1>7, UseSlotHolds
<1>8. CASE Inflate  BY <1>8, InflateHolds
<1>9. CASE ReadPastTable  BY <1>9, ReadPastTableHolds
<1>10. CASE UNCHANGED vars
  <2>1. UNCHANGED <<index, at, query, todo, answer, chunk, buffer, store, articles>>
    BY <1>10 DEF vars
  <2>2. TypeOK'
    BY <2>1 DEF IInv, TypeOK, Entry, FirstChunk, LastChunk, End, store, articles
  <2>3. SlotsHoldChunks'  BY <2>1 DEF IInv, SlotsHoldChunks, store, SizeOf
  <2>4. RingHolds'  BY <2>1 DEF IInv, RingHolds, articles, store, Text
  <2>5. AnswersAreArticles'  BY <2>1 DEF IInv, AnswersAreArticles, store, Text
  <2>6. Entry' = Entry  BY <2>1 DEF Entry
  <2>7. SoFar' = SoFar  BY <2>1, <2>6 DEF SoFar, IsFirst, FirstChunk
  <2>8. BufferHolds'  BY <2>1, <2>6, <2>7 DEF IInv, BufferHolds, Run, store
  <2> QED BY <2>2, <2>3, <2>4, <2>5, <2>8 DEF IInv
<1> QED BY <1>1, <1>2, <1>3, <1>4, <1>5, <1>6, <1>7, <1>8, <1>9, <1>10 DEF Next

LEMMA InvariantHolds == Spec => []IInv
<1>1. Init => IInv  BY InitHolds
<1>2. IInv /\ [Next]_vars => IInv'  BY NextHolds
<1> QED BY <1>1, <1>2, PTL DEF Spec

\* A read stays within its article, its buffers and the ring (dictData::read,
\* DictBase::GetWordData).
THEOREM TypeCorrect == Spec => []TypeOK
<1>1. IInv => TypeOK  BY DEF IInv
<1> QED BY <1>1, InvariantHolds, PTL

\* A slot of dictData::cache holds the chunk it names, and no two hold the same.
THEOREM SlotsAreChunks == Spec => []SlotsHoldChunks
<1>1. IInv => SlotsHoldChunks  BY DEF IInv
<1> QED BY <1>1, InvariantHolds, PTL

\* Whatever was read before, an article is answered byte for byte, as long as no
\* read past the chunk table has spoiled the stream.
THEOREM AnswersAreRight == Spec => []AnswersAreArticles
<1>1. IInv => AnswersAreArticles  BY DEF IInv
<1> QED BY <1>1, InvariantHolds, PTL

-----------------------------------------------------------------------------
(* The assertion of read().                                                *)

\* No article ends where a full last chunk does.
EndsInside ==
    \A idx \in Indices : \A a \in DOMAIN idx : End(idx[a]) < ChunkCount * ChunkLength

\* Nothing is read past the chunk table, so that every slot is as full as its chunk.
SlotsAreFull ==
    /\ stream = "ok" /\ at \notin {"aborted", "crashed"}
    /\ \A s \in Slots :
          cache[s].chunk # -1 => /\ cache[s].chunk # ChunkCount
                                 /\ cache[s].count = SizeOf(cache[s].chunk)

LEMMA ChunkInTable ==
    ASSUME EndsInside, TypeOK, at = "read"
    PROVE  /\ chunk \in 0 .. ChunkCount - 1
           /\ ~IsLast => SizeOf(chunk) = ChunkLength
<1>1. todo # <<>> /\ chunk \in FirstChunk(Entry) .. LastChunk(Entry)  BY DEF TypeOK
<1>2. Entry \in Entries /\ End(Entry) <= Length /\ Head(todo) \in DOMAIN index
  BY <1>1, EntryRead
<1>3. End(Entry) < ChunkCount * ChunkLength
  BY <1>2 DEF EndsInside, TypeOK, Entry
<1>4. /\ chunk # ChunkCount => /\ chunk \in 0 .. ChunkCount - 1
                               /\ chunk # LastChunk(Entry) => SizeOf(chunk) = ChunkLength
      /\ chunk = ChunkCount => End(Entry) = chunk * ChunkLength
      /\ LastChunk(Entry) \in Nat
  BY <1>1, <1>2, ChunkFacts
<1>5. chunk # ChunkCount
  <2> SUFFICES ASSUME chunk = ChunkCount  PROVE FALSE  OBVIOUS
  <2>1. End(Entry) = ChunkCount * ChunkLength /\ End(Entry) \in Nat
    BY <1>2, <1>4 DEF Entries, End
  <2> QED BY <1>3, <2>1
<1> QED BY <1>4, <1>5 DEF IsLast

LEMMA FullTurn ==
    ASSUME EndsInside, TypeOK, SlotsAreFull, UNCHANGED stream,
           NEW s \in Slots, NEW slot, Turn(s, slot),
           slot.chunk = chunk, slot.count = SizeOf(chunk)
    PROVE  SlotsAreFull'
<1>1. chunk \in 0 .. ChunkCount - 1 /\ (~IsLast => SizeOf(chunk) = ChunkLength)
  BY ChunkInTable DEF Turn
<1>2. at' \in {"read", "articles"}
  BY <1>1 DEF Turn, Copy, Answer
<1>3. chunk # ChunkCount  BY <1>1, CountFacts
<1>4. cache' = [cache EXCEPT ![s] = slot]  BY DEF Turn
<1>5. \A t \in Slots : cache'[t] = IF t = s THEN slot ELSE cache[t]
  BY <1>4 DEF TypeOK
<1>6. ASSUME NEW t \in Slots, cache'[t].chunk # -1
      PROVE  cache'[t].chunk # ChunkCount /\ cache'[t].count = SizeOf(cache'[t].chunk)
  BY <1>3, <1>5, <1>6 DEF SlotsAreFull
<1> QED BY <1>2, <1>6 DEF SlotsAreFull, SizeOf, ChunkCount

LEMMA FullNext ==
    ASSUME EndsInside, IInv, SlotsAreFull, [Next]_vars
    PROVE  SlotsAreFull'
<1>1. TypeOK  BY DEF IInv
<1>2. CASE UNCHANGED store /\ at' \in {"idle", "articles", "read"}
  BY <1>2 DEF SlotsAreFull, store, SizeOf
<1>3. CASE Lookup \/ FullText \/ SkipSynonym \/ FromRing \/ StartRead \/ EndQuery
  BY <1>2, <1>3 DEF Lookup, FullText, SkipSynonym, FromRing, StartRead, EndQuery,
                    Begin, Answer
<1>4. CASE UseSlot
  <2>1. PICK s \in Slots : Turn(s, [cache[s] EXCEPT !.stamp = NextStamp])
    BY <1>4 DEF UseSlot
  <2>2. Holds(chunk) # {} /\ UNCHANGED stream /\ at = "read" /\ IsTarget(chunk, s)
    BY <1>4, <2>1 DEF UseSlot, Turn
  <2>3. cache[s] \in SlotType /\ cache[s].chunk = chunk /\ chunk # -1
    BY <1>1, <2>2, SlotFacts, ChunkInTable DEF IsTarget, Holds
  <2> DEFINE slot == [cache[s] EXCEPT !.stamp = NextStamp]
  <2>4. slot.chunk = chunk /\ slot.count = SizeOf(chunk)
    BY <2>3 DEF SlotType, SlotsAreFull
  <2> HIDE DEF slot
  <2> QED BY <1>1, <2>1, <2>2, <2>4, FullTurn DEF slot
<1>5. CASE Inflate
  <2>1. UNCHANGED stream /\ stream = "ok"  BY <1>5 DEF Inflate, SlotsAreFull
  <2>2. PICK s \in Slots : Turn(s, Filled(SizeOf(chunk), Inflated(chunk, cache[s].data)))
    BY <1>5, <2>1 DEF Inflate
  <2> DEFINE slot == Filled(SizeOf(chunk), Inflated(chunk, cache[s].data))
  <2>3. slot.chunk = chunk /\ slot.count = SizeOf(chunk)  BY DEF Filled
  <2> HIDE DEF slot
  <2> QED BY <1>1, <2>1, <2>2, <2>3, FullTurn DEF slot
<1>6. ~ReadPastTable
  <2> SUFFICES ASSUME ReadPastTable  PROVE FALSE  OBVIOUS
  <2>1. chunk \in 0 .. ChunkCount - 1 /\ chunk = ChunkCount
    BY <1>1, ChunkInTable DEF ReadPastTable
  <2> QED BY <2>1, CountFacts
<1>7. CASE UNCHANGED vars
  BY <1>7 DEF vars, store, SlotsAreFull, SizeOf
<1> QED BY <1>3, <1>4, <1>5, <1>6, <1>7 DEF Next

\* The assertion of dictziplib.cpp:489 never fails in a file none of whose articles
\* ends where a full last chunk does: what articles_full finds is all that there is.
THEOREM AssertionHolds ==
    ASSUME EndsInside
    PROVE  Spec => []MiddleChunksAreFull
<1>1. Init => SlotsAreFull  BY DEF Init, SlotsAreFull, EmptySlot
<1>2. IInv /\ SlotsAreFull /\ [Next]_vars => SlotsAreFull'  BY FullNext
<1>3. SlotsAreFull => MiddleChunksAreFull  BY DEF SlotsAreFull, MiddleChunksAreFull
<1> QED BY <1>1, <1>2, <1>3, InvariantHolds, PTL DEF Spec

-----------------------------------------------------------------------------
(* Which articles a lookup is answered with: f is its first entry, c how many *)
(* the headword has, s what its synonyms name.                                *)

\* The entries a lookup asks for, in order, the headword's articles first.
Queued(f, c, s, i) == IF i <= c THEN f + i - 1 ELSE s[i - c]

\* What InRange says of a query.
Inside(f, c, a) == a >= f /\ a < f + c

\* The entries e[1], .. e[n] answered once the first d have been seen: those of
\* the headword in order, and the synonyms that are not articles of the headword.
HeadKept(f, c, n, d, e) ==
    /\ IF d <= c THEN n = d ELSE n >= c
    /\ \A k \in 1 .. n : k <= c => e[k] = f + k - 1
NamedKept(f, c, s, n, d, e) ==
    \A k \in c + 1 .. n : ~Inside(f, c, e[k]) /\ \E i \in 1 .. d - c : s[i] = e[k]
OnceKept(c, n, e) == \A j, k \in c + 1 .. n : e[j] = e[k] => j = k
AllKept(f, c, s, n, d, e) ==
    \A i \in 1 .. d - c : Inside(f, c, s[i]) \/ \E k \in c + 1 .. n : e[k] = s[i]
Kept(f, c, s, n, d, e) ==
    /\ HeadKept(f, c, n, d, e) /\ NamedKept(f, c, s, n, d, e)
    /\ OnceKept(c, n, e) /\ AllKept(f, c, s, n, d, e)

\* A synonym that is one of the headword's articles adds nothing.
LEMMA KeptSkip ==
    ASSUME NEW f \in Nat, NEW c \in Nat, NEW s, NEW n \in Nat, NEW d \in Nat, NEW e,
           Kept(f, c, s, n, d, e), n >= c, d >= c, Inside(f, c, s[(d + 1) - c])
    PROVE  Kept(f, c, s, n, d + 1, e)
<1>1. HeadKept(f, c, n, d + 1, e)
  <2>1. \A k \in 1 .. n : k <= c => e[k] = f + k - 1  BY DEF Kept, HeadKept
  <2>2. IF d + 1 <= c THEN n = d + 1 ELSE n >= c  OBVIOUS
  <2> QED BY <2>1, <2>2 DEF HeadKept
<1>2. NamedKept(f, c, s, n, d + 1, e)
  <2>1. \A i \in 1 .. d - c : i \in 1 .. (d + 1) - c  OBVIOUS
  <2>2. NamedKept(f, c, s, n, d, e)  BY DEF Kept
  <2> QED BY <2>1, <2>2, Zenon DEF NamedKept
<1>3. OnceKept(c, n, e)  BY DEF Kept
<1>4. AllKept(f, c, s, n, d + 1, e)
  <2>1. \A i \in 1 .. (d + 1) - c : i \in 1 .. d - c \/ i = (d + 1) - c  OBVIOUS
  <2>2. AllKept(f, c, s, n, d, e)  BY DEF Kept
  <2> QED BY <2>1, <2>2, Zenon DEF AllKept
<1> QED BY <1>1, <1>2, <1>3, <1>4 DEF Kept

\* Another article of the headword is the next in order.
LEMMA KeptHead ==
    ASSUME NEW f \in Nat, NEW c \in Nat, NEW s, NEW n \in Nat, NEW d \in Nat, NEW e,
           Kept(f, c, s, n, d, e), d < c,
           NEW g, \A k \in 1 .. n : g[k] = e[k], g[n + 1] = f + d
    PROVE  Kept(f, c, s, n + 1, d + 1, g)
<1>1. n = d /\ \A k \in 1 .. n : k <= c => e[k] = f + k - 1  BY DEF Kept, HeadKept
<1>2. HeadKept(f, c, n + 1, d + 1, g)
  <2>1. ASSUME NEW k \in 1 .. n + 1, k <= c PROVE g[k] = f + k - 1
    <3>1. CASE k \in 1 .. n
      <4>1. e[k] = f + k - 1  BY <1>1, <2>1, <3>1
      <4> QED BY <3>1, <4>1
    <3>2. CASE k = n + 1
      <4>1. g[k] = f + d /\ f + d = f + k - 1  BY <1>1, <3>2
      <4> QED BY <4>1
    <3> QED BY <3>1, <3>2
  <2>2. IF d + 1 <= c THEN n + 1 = d + 1 ELSE n + 1 >= c  BY <1>1
  <2> QED BY <2>1, <2>2 DEF HeadKept
<1>3. ~(\E k \in c + 1 .. n + 1 : TRUE) /\ ~(\E i \in 1 .. (d + 1) - c : TRUE)  BY <1>1
<1>4. NamedKept(f, c, s, n + 1, d + 1, g) /\ OnceKept(c, n + 1, g)
      /\ AllKept(f, c, s, n + 1, d + 1, g)
  BY <1>3, Zenon DEF NamedKept, OnceKept, AllKept
<1> QED BY <1>2, <1>4 DEF Kept

\* Another article of a synonym is one not met before.
LEMMA KeptSynonym ==
    ASSUME NEW f \in Nat, NEW c \in Nat, NEW s, NEW n \in Nat, NEW d \in Nat, NEW e,
           Kept(f, c, s, n, d, e), d >= c, n >= c,
           NEW x, x = s[(d + 1) - c], ~Inside(f, c, x), \A i \in 1 .. d - c : s[i] # x,
           NEW g, \A k \in 1 .. n : g[k] = e[k], g[n + 1] = x
    PROVE  Kept(f, c, s, n + 1, d + 1, g)
<1>1. /\ \A k \in c + 1 .. n + 1 : k \in c + 1 .. n \/ k = n + 1
      /\ \A k \in c + 1 .. n : k \in 1 .. n /\ k \in c + 1 .. n + 1
      /\ n + 1 \in c + 1 .. n + 1
  OBVIOUS
<1>2. /\ \A i \in 1 .. d - c : i \in 1 .. (d + 1) - c
      /\ \A i \in 1 .. (d + 1) - c : i \in 1 .. d - c \/ i = (d + 1) - c
      /\ (d + 1) - c \in 1 .. (d + 1) - c
  OBVIOUS
<1>3. HeadKept(f, c, n + 1, d + 1, g)
  <2>1. \A k \in 1 .. n : k <= c => e[k] = f + k - 1  BY DEF Kept, HeadKept
  <2>2. \A k \in 1 .. n + 1 : k <= c => k \in 1 .. n  OBVIOUS
  <2>3. \A k \in 1 .. n + 1 : k <= c => g[k] = f + k - 1  BY <2>1, <2>2
  <2>4. IF d + 1 <= c THEN n + 1 = d + 1 ELSE n + 1 >= c  OBVIOUS
  <2> QED BY <2>3, <2>4 DEF HeadKept
<1>4. \A k \in c + 1 .. n : ~Inside(f, c, e[k]) /\ \E i \in 1 .. d - c : s[i] = e[k]
  BY DEF Kept, NamedKept
<1>5. \A k \in c + 1 .. n : g[k] = e[k]  BY <1>1
<1>6. \A k \in c + 1 .. n : g[k] # x  BY <1>4, <1>5
<1>7. NamedKept(f, c, s, n + 1, d + 1, g)
  <2> SUFFICES ASSUME NEW k \in c + 1 .. n + 1
               PROVE  ~Inside(f, c, g[k]) /\ \E i \in 1 .. (d + 1) - c : s[i] = g[k]
    BY DEF NamedKept
  <2>1. CASE k = n + 1  BY <1>2, <2>1, Zenon
  <2>2. CASE k \in c + 1 .. n  BY <1>2, <1>4, <1>5, <2>2, Zenon
  <2> QED BY <1>1, <2>1, <2>2
<1>8. OnceKept(c, n + 1, g)
  <2> SUFFICES ASSUME NEW j \in c + 1 .. n + 1, NEW k \in c + 1 .. n + 1, g[j] = g[k]
               PROVE  j = k
    BY DEF OnceKept
  <2>1. CASE j \in c + 1 .. n /\ k \in c + 1 .. n
    <3>1. e[j] = e[k]  BY <1>5, <2>1
    <3> QED BY <2>1, <3>1, Zenon DEF Kept, OnceKept
  <2>2. CASE j = n + 1 /\ k \in c + 1 .. n  BY <1>6, <2>2
  <2>3. CASE k = n + 1 /\ j \in c + 1 .. n  BY <1>6, <2>3
  <2> QED BY <1>1, <2>1, <2>2, <2>3
<1>9. AllKept(f, c, s, n + 1, d + 1, g)
  <2> SUFFICES ASSUME NEW i \in 1 .. (d + 1) - c
               PROVE  Inside(f, c, s[i]) \/ \E k \in c + 1 .. n + 1 : g[k] = s[i]
    BY DEF AllKept
  <2>1. CASE i = (d + 1) - c  BY <1>1, <2>1, Zenon
  <2>2. CASE i \in 1 .. d - c
    <3>1. Inside(f, c, s[i]) \/ \E k \in c + 1 .. n : e[k] = s[i]
      BY <2>2, Zenon DEF Kept, AllKept
    <3> QED BY <1>1, <1>5, <3>1, Zenon
  <2> QED BY <1>2, <2>1, <2>2
<1> QED BY <1>3, <1>7, <1>8, <1>9 DEF Kept

\* When all are seen the answer is complete.
LEMMA KeptAll ==
    ASSUME NEW f \in Nat, NEW c \in Nat, NEW m \in Nat, NEW s, DOMAIN s = 1 .. m,
           \A i \in 1 .. m : s[i] \in Nat,
           NEW n \in Nat, NEW e, DOMAIN e = 1 .. n, Kept(f, c, s, n, c + m, e)
    PROVE  /\ IsInjective(e)
           /\ \A k \in 1 .. c : e[k] = f + k - 1
           /\ Range(e) = Range(s) \cup f .. f + c - 1
<1>1. n >= c /\ \A k \in 1 .. n : k <= c => e[k] = f + k - 1  BY DEF Kept, HeadKept
<1>2. c + m - c = m  OBVIOUS
<1>3. \A k \in c + 1 .. n : ~Inside(f, c, e[k]) /\ \E i \in 1 .. m : s[i] = e[k]
  BY <1>2 DEF Kept, NamedKept
<1>4. \A i \in 1 .. m : Inside(f, c, s[i]) \/ \E k \in c + 1 .. n : e[k] = s[i]
  BY <1>2 DEF Kept, AllKept
<1>5. /\ \A k \in 1 .. n : k \in 1 .. c \/ k \in c + 1 .. n
      /\ \A k \in c + 1 .. n : k \in 1 .. n
  OBVIOUS
<1>6. \A k \in 1 .. c : k \in 1 .. n /\ e[k] = f + k - 1  BY <1>1
<1>7. \A k \in 1 .. c : Inside(f, c, e[k]) /\ e[k] \in f .. f + c - 1
  <2> TAKE k \in 1 .. c
  <2>1. e[k] = f + k - 1  BY <1>6
  <2>2. Inside(f, c, f + k - 1) /\ f + k - 1 \in f .. f + c - 1  BY DEF Inside
  <2> QED BY <2>1, <2>2
<1>8. IsInjective(e)
  <2>1. SUFFICES ASSUME NEW j \in 1 .. n, NEW k \in 1 .. n, e[j] = e[k] PROVE j = k
    BY DEF IsInjective
  <2>2. CASE j \in 1 .. c /\ k \in 1 .. c
    <3>1. f + j - 1 = f + k - 1  BY <1>6, <2>1, <2>2
    <3> QED BY <3>1
  <2>3. CASE j \in c + 1 .. n /\ k \in c + 1 .. n
    BY <2>1, <2>3, Zenon DEF Kept, OnceKept
  <2>4. CASE j \in 1 .. c /\ k \in c + 1 .. n  BY <1>3, <1>7, <2>1, <2>4, Zenon
  <2>5. CASE k \in 1 .. c /\ j \in c + 1 .. n  BY <1>3, <1>7, <2>1, <2>5, Zenon
  <2> QED BY <1>5, <2>2, <2>3, <2>4, <2>5
<1>9. ASSUME NEW x \in Range(e) PROVE x \in Range(s) \cup f .. f + c - 1
  <2>1. PICK k \in 1 .. n : x = e[k]  BY DEF Range
  <2>2. CASE k \in 1 .. c  BY <1>7, <2>1, <2>2
  <2>3. CASE k \in c + 1 .. n  BY <1>3, <2>1, <2>3, Zenon DEF Range
  <2> QED BY <1>5, <2>2, <2>3
<1>10. ASSUME NEW x \in f .. f + c - 1 PROVE x \in Range(e)
  <2>1. x - f + 1 \in 1 .. c  OBVIOUS
  <2>2. e[x - f + 1] = f + (x - f + 1) - 1  BY <1>6, <2>1
  <2>3. e[x - f + 1] = x /\ x - f + 1 \in 1 .. n  BY <1>6, <2>1, <2>2
  <2> QED BY <2>3, Zenon DEF Range
<1>11. ASSUME NEW x \in Range(s) PROVE x \in Range(e)
  <2>1. PICK i \in 1 .. m : x = s[i]  BY DEF Range
  <2>2. CASE Inside(f, c, x)
    <3>1. x \in Nat  BY <2>1
    <3>2. x \in f .. f + c - 1  BY <2>2, <3>1 DEF Inside
    <3> QED BY <1>10, <3>2
  <2>3. CASE \E k \in c + 1 .. n : e[k] = x  BY <1>5, <2>3, Zenon DEF Range
  <2> QED BY <1>4, <2>1, <2>2, <2>3
<1>12. Range(e) = Range(s) \cup f .. f + c - 1  BY <1>9, <1>10, <1>11
<1> QED BY <1>6, <1>8, <1>12

\* An article that a lookup is still to be answered with, and is not a repetition,
\* is the next of the headword or of a synonym not met before.
LEMMA KeptAdd ==
    ASSUME NEW f \in Nat, NEW c \in Nat, NEW m \in Nat, NEW s, DOMAIN s = 1 .. m,
           IsInjective(s), NEW n \in Nat, NEW d \in Nat, NEW e,
           Kept(f, c, s, n, d, e), d < c + m,
           NEW x, x = Queued(f, c, s, d + 1), n >= c => ~Inside(f, c, x),
           NEW g, \A k \in 1 .. n : g[k] = e[k], g[n + 1] = x
    PROVE  Kept(f, c, s, n + 1, d + 1, g)
<1>1. CASE d < c
  <2>1. x = f + (d + 1) - 1 /\ f + (d + 1) - 1 = f + d  BY <1>1 DEF Queued
  <2>2. g[n + 1] = f + d  BY <2>1
  <2> QED BY <1>1, <2>2, KeptHead
<1>2. CASE d >= c
  <2>1. n >= c
    <3>1. IF d <= c THEN n = d ELSE n >= c  BY DEF Kept, HeadKept
    <3> QED BY <1>2, <3>1
  <2>2. x = s[(d + 1) - c]  BY <1>2 DEF Queued
  <2>3. /\ (d + 1) - c \in 1 .. m
        /\ \A i \in 1 .. d - c : i \in 1 .. m /\ i # (d + 1) - c
    <3>1. d \in Nat /\ c \in Nat /\ m \in Nat /\ d < c + m /\ d >= c  BY <1>2
    <3>2. (d + 1) - c \in 1 .. m  BY <3>1
    <3>3. \A i \in 1 .. d - c : i \in 1 .. m /\ i # (d + 1) - c  BY <3>1
    <3> QED BY <3>2, <3>3
  <2>4. \A i \in 1 .. d - c : s[i] # x  BY <2>2, <2>3, Zenon DEF IsInjective
  <2> QED BY <1>2, <2>1, <2>2, <2>4, KeptSynonym
<1> QED BY <1>1, <1>2

\* What is to do is the rest of what a lookup asks for.
ToDo(f, c, s, m, td) ==
    /\ Len(td) <= c + m
    /\ \A k \in 1 .. Len(td) : td[k] = Queued(f, c, s, (c + m) - Len(td) + k)

\* One less to do.
LEMMA ToDoTail ==
    ASSUME NEW f \in Nat, NEW c \in Nat, NEW m \in Nat, NEW s,
           NEW D, NEW td \in Seq(D), td # <<>>, ToDo(f, c, s, m, td)
    PROVE  /\ (c + m) - Len(td) \in Nat /\ (c + m) - Len(td) < c + m
           /\ (c + m) - Len(Tail(td)) = ((c + m) - Len(td)) + 1
           /\ Head(td) = Queued(f, c, s, ((c + m) - Len(td)) + 1)
           /\ ToDo(f, c, s, m, Tail(td))
<1> DEFINE t == Len(td)
           u == Tail(td)
<1>1. t \in Nat \ {0} /\ Head(td) = td[1]  BY EmptySeq, LenProperties
<1>2. u \in Seq(D) /\ Len(u) = t - 1 /\ \A k \in 1 .. t - 1 : u[k] = td[k + 1]
  BY HeadTailProperties
<1> HIDE DEF t, u
<1>3. t <= c + m /\ \A k \in 1 .. t : td[k] = Queued(f, c, s, (c + m) - t + k)
  BY DEF ToDo, t
<1>4. td[1] = Queued(f, c, s, (c + m) - t + 1)  BY <1>1, <1>3
<1>5. \A k \in 1 .. t - 1 : k + 1 \in 1 .. t /\ (c + m) - t + (k + 1) = (c + m) - (t - 1) + k
  BY <1>1
<1>6. \A k \in 1 .. t - 1 : u[k] = Queued(f, c, s, (c + m) - (t - 1) + k)
  BY <1>2, <1>3, <1>5
<1>7. ToDo(f, c, s, m, u)
  <2>1. t - 1 <= c + m  BY <1>1, <1>3
  <2> QED BY <1>2, <1>6, <2>1 DEF ToDo
<1>8. (c + m) - t \in Nat /\ (c + m) - t < c + m /\ (c + m) - (t - 1) = ((c + m) - t) + 1
  BY <1>1, <1>3
<1> QED BY <1>1, <1>2, <1>4, <1>7, <1>8 DEF t, u

EntriesOf(a) == [k \in DOMAIN a |-> a[k].entry]

\* The lookup q, with td still to do and a found, is on its way.
OnItsWay(q, td, a) ==
    LET m == Len(q.synonyms)
    IN  /\ IsInjective(q.synonyms)
        /\ ToDo(q.first, q.count, q.synonyms, m, td)
        /\ Kept(q.first, q.count, q.synonyms, Len(a), (q.count + m) - Len(td), EntriesOf(a))

\* Of an idle process nothing is left; a lookup is on its way, and an article is
\* read only if no synonym repeats it.
Progress ==
    /\ at = "idle" => answer = <<>>
    /\ at \in {"articles", "read"} /\ query.kind = "lookup" => OnItsWay(query, todo, answer)
    /\ at = "read" => ~Again

\* A lookup begins with everything to do.
LEMMA OnItsWayBegins ==
    ASSUME NEW q, NEW f \in Nat, NEW c \in Nat, NEW s \in Seq(Nat),
           q.first = f, q.count = c, q.synonyms = s, IsInjective(s)
    PROVE  OnItsWay(q, [k \in 1 .. c |-> f + k - 1] \o s, <<>>)
<1> DEFINE h == [k \in 1 .. c |-> f + k - 1]
           td == h \o s
           m == Len(s)
<1>1. h \in Seq(Nat) /\ Len(h) = c /\ \A k \in 1 .. c : h[k] = f + k - 1
  <2>1. \A k \in 1 .. c : f + k - 1 \in Nat  OBVIOUS
  <2>2. h \in [1 .. c -> Nat]  BY <2>1
  <2> QED BY <2>2
<1>2. m \in Nat  BY LenProperties
<1> HIDE DEF h, m
<1>3. /\ Len(td) = c + m
      /\ \A k \in 1 .. c + m : td[k] = IF k <= c THEN h[k] ELSE s[k - c]
  <2>1. /\ Len(h \o s) = Len(h) + Len(s)
        /\ \A k \in 1 .. Len(h) + Len(s) :
              (h \o s)[k] = IF k <= Len(h) THEN h[k] ELSE s[k - Len(h)]
    BY <1>1, ConcatProperties, Zenon
  <2>2. Len(h) = c /\ Len(s) = m  BY <1>1 DEF m
  <2> QED BY <2>1, <2>2, Zenon
<1> HIDE DEF td
<1>4. \A k \in 1 .. c + m : td[k] = Queued(f, c, s, (c + m) - Len(td) + k)
  <2> TAKE k \in 1 .. c + m
  <2>1. (c + m) - Len(td) + k = k  BY <1>2, <1>3
  <2>2. CASE k <= c
    <3>1. td[k] = f + k - 1  BY <1>1, <1>2, <1>3, <2>2
    <3> QED BY <2>1, <2>2, <3>1 DEF Queued
  <2>3. CASE ~(k <= c)  BY <1>3, <2>1, <2>3 DEF Queued
  <2> QED BY <2>2, <2>3
<1>5. ToDo(f, c, s, m, td)  BY <1>2, <1>3, <1>4 DEF ToDo
<1>6. Kept(f, c, s, 0, 0, EntriesOf(<<>>))
  <2>1. ~(\E k \in 1 .. 0 : TRUE) /\ ~(\E k \in c + 1 .. 0 : TRUE)
        /\ ~(\E k \in 1 .. 0 - c : TRUE)
    OBVIOUS
  <2>2. HeadKept(f, c, 0, 0, EntriesOf(<<>>))
    <3>1. IF 0 <= c THEN 0 = 0 ELSE 0 >= c  OBVIOUS
    <3> QED BY <2>1, <3>1, Zenon DEF HeadKept
  <2>3. /\ NamedKept(f, c, s, 0, 0, EntriesOf(<<>>)) /\ OnceKept(c, 0, EntriesOf(<<>>))
        /\ AllKept(f, c, s, 0, 0, EntriesOf(<<>>))
    BY <2>1, Zenon DEF NamedKept, OnceKept, AllKept
  <2> QED BY <2>2, <2>3 DEF Kept
<1>7. Len(<<>>) = 0 /\ (c + m) - Len(td) = 0  BY <1>2, <1>3
<1>8. Kept(f, c, s, Len(<<>>), (c + m) - Len(td), EntriesOf(<<>>))  BY <1>6, <1>7
<1>9. OnItsWay(q, td, <<>>)  BY <1>5, <1>8, Zenon DEF OnItsWay, m
<1> QED BY <1>9 DEF td, h

\* A repetition is passed over.
LEMMA OnItsWaySkips ==
    ASSUME NEW q, NEW f \in Nat, NEW c \in Nat, NEW s \in Seq(Nat),
           q.first = f, q.count = c, q.synonyms = s,
           NEW D, NEW td \in Seq(D), td # <<>>, NEW E, NEW a \in Seq(E),
           OnItsWay(q, td, a), Len(a) >= c, InRange(q, Head(td))
    PROVE  OnItsWay(q, Tail(td), a)
<1> DEFINE m == Len(s)
           n == Len(a)
           d == (c + m) - Len(td)
           e == EntriesOf(a)
<1>1. m \in Nat /\ n \in Nat  BY LenProperties
<1>2. IsInjective(s) /\ ToDo(f, c, s, m, td) /\ Kept(f, c, s, n, d, e)
  BY Zenon DEF OnItsWay
<1> DEFINE u == (c + m) - Len(Tail(td))
<1> HIDE DEF m
<1>3. /\ d \in Nat /\ u = d + 1
      /\ Head(td) = Queued(f, c, s, d + 1) /\ ToDo(f, c, s, m, Tail(td))
  BY <1>1, <1>2, ToDoTail
<1>4. Inside(f, c, Queued(f, c, s, d + 1))  BY <1>3 DEF InRange, Inside
<1> HIDE DEF d, e, u, n
<1>5. n >= c  BY DEF n
<1>6. d >= c
  <2>1. IF d <= c THEN n = d ELSE n >= c  BY <1>2 DEF Kept, HeadKept
  <2> QED BY <1>1, <1>3, <1>5, <2>1
<1>7. Inside(f, c, s[(d + 1) - c])  BY <1>3, <1>4, <1>6 DEF Queued
<1>8. Kept(f, c, s, n, d + 1, e)  BY <1>1, <1>2, <1>3, <1>5, <1>6, <1>7, KeptSkip
<1>9. Kept(f, c, s, n, u, e)  BY <1>3, <1>8
<1> QED BY <1>2, <1>3, <1>9, Zenon DEF OnItsWay, m, n, u, e

\* An article is added that is no repetition.
LEMMA OnItsWayAdds ==
    ASSUME NEW q, NEW f \in Nat, NEW c \in Nat, NEW s \in Seq(Nat),
           q.first = f, q.count = c, q.synonyms = s,
           NEW D, NEW td \in Seq(D), td # <<>>, NEW E, NEW a \in Seq(E),
           OnItsWay(q, td, a), ~(Len(a) >= c /\ InRange(q, Head(td))),
           NEW r, r.entry = Head(td)
    PROVE  OnItsWay(q, Tail(td), Append(a, r))
<1> DEFINE m == Len(s)
           n == Len(a)
           d == (c + m) - Len(td)
           b == Append(a, r)
           e == EntriesOf(a)
           g == EntriesOf(b)
           u == (c + m) - Len(Tail(td))
           x == Head(td)
<1>1. m \in Nat /\ n \in Nat /\ DOMAIN s = 1 .. m /\ DOMAIN a = 1 .. n  BY LenProperties
<1>2. IsInjective(s) /\ ToDo(f, c, s, m, td) /\ Kept(f, c, s, n, d, e)
  BY Zenon DEF OnItsWay
<1>3. /\ Len(b) = n + 1 /\ DOMAIN b = 1 .. n + 1
      /\ \A k \in 1 .. n : b[k] = a[k]
      /\ b[n + 1] = r
  <2>1. a \in Seq(E \cup {r}) /\ r \in E \cup {r}  BY SeqDef, SMT
  <2> QED BY <2>1, AppendProperties
<1> HIDE DEF m, b
<1>4. /\ d \in Nat /\ d < c + m /\ u = d + 1
      /\ x = Queued(f, c, s, d + 1) /\ ToDo(f, c, s, m, Tail(td))
  <2>1. ToDo(f, c, s, m, td)  BY <1>2
  <2>2. d \in Nat /\ d < c + m  BY <1>1, <2>1, ToDoTail
  <2>2a. u = d + 1
    <3>1. Len(Tail(td)) = Len(td) - 1 /\ Len(td) \in Nat  BY HeadTailProperties, LenProperties
    <3> QED BY <1>1, <3>1
  <2>2b. x = Queued(f, c, s, d + 1)
    <3>1. Len(td) \in Nat \ {0} /\ x = td[1]  BY EmptySeq, LenProperties
    <3>2. 1 \in 1 .. Len(td)  BY <3>1
    <3>3. \A k \in 1 .. Len(td) : td[k] = Queued(f, c, s, (c + m) - Len(td) + k)
      BY <2>1 DEF ToDo
    <3>4. td[1] = Queued(f, c, s, d + 1)  BY <3>2, <3>3
    <3> QED BY <3>1, <3>4
  <2>3. ToDo(f, c, s, m, Tail(td))  BY <1>1, <2>1, ToDoTail
  <2> QED BY <2>2, <2>2a, <2>2b, <2>3
<1>5. Len(a) >= c => ~Inside(f, c, x)  BY DEF InRange, Inside
<1>6. \A k \in 1 .. n : g[k] = e[k]
  <2> TAKE k \in 1 .. n
  <2>1. k \in 1 .. n + 1 /\ k \in DOMAIN a /\ k \in DOMAIN b  BY <1>1, <1>3
  <2> QED BY <1>3, <2>1 DEF EntriesOf
<1>7. g[n + 1] = x
  <2>1. n + 1 \in DOMAIN b  BY <1>1, <1>3
  <2> QED BY <1>3, <2>1 DEF EntriesOf
<1>8. n >= c => ~Inside(f, c, x)  BY <1>5
<1> HIDE DEF n, d, e, g, u, x
<1>9. Kept(f, c, s, n + 1, d + 1, g)
  BY <1>1, <1>2, <1>4, <1>6, <1>7, <1>8, KeptAdd
<1>10. Kept(f, c, s, Len(b), u, g)  BY <1>3, <1>4, <1>9
<1> QED BY <1>2, <1>4, <1>10, Zenon DEF OnItsWay, m, g, u, b

\* What the type invariant says of a lookup and what it is answered with.
LEMMA ProgressTypes ==
    ASSUME TypeOK
    PROVE  /\ query.first \in Nat /\ query.count \in Nat /\ query.synonyms \in Seq(Nat)
           /\ todo \in Seq(DOMAIN index)
           /\ answer \in Seq([entry : DOMAIN index, data : Pieces])
<1>1. DOMAIN index = 1 .. Len(index) /\ Len(index) \in Nat  BY IndexFacts
<1>2. query \in Queries  BY DEF TypeOK, Queries
<1>3. /\ query.first \in DOMAIN index /\ query.count \in 0 .. Len(index)
      /\ query.synonyms \in Seq(DOMAIN index)
  BY <1>2 DEF Queries
<1>4. DOMAIN index \subseteq Nat  BY <1>1
<1>5. query.synonyms \in Seq(Nat)  BY <1>3, <1>4, SeqMonotonic, Zenon
<1>6. query.first \in Nat /\ query.count \in Nat  BY <1>1, <1>3
<1> QED BY <1>5, <1>6 DEF TypeOK

\* A lookup that is answered with an entry is on its way still.
LEMMA AnswerProgresses ==
    ASSUME TypeOK, Progress, at \in {"articles", "read"}, todo # <<>>, ~Again,
           NEW data, Answer(data), query' = query
    PROVE  Progress'
<1>1. /\ at' = "articles" /\ todo' = Tail(todo)
      /\ answer' = Append(answer, [entry |-> Head(todo), data |-> data])
  BY DEF Answer
<1>2. ASSUME query.kind = "lookup"  PROVE OnItsWay(query, todo', answer')
  <2> DEFINE r == [entry |-> Head(todo), data |-> data]
  <2>1. r.entry = Head(todo)  OBVIOUS
  <2>2. OnItsWay(query, todo, answer)  BY <1>2 DEF Progress
  <2>3. ~(Len(answer) >= query.count /\ InRange(query, Head(todo)))  BY <1>2 DEF Again
  <2> HIDE DEF r
  <2>4. OnItsWay(query, Tail(todo), Append(answer, r))
    BY <2>1, <2>2, <2>3, ProgressTypes, OnItsWayAdds
  <2> QED BY <1>1, <2>4 DEF r
<1> QED BY <1>1, <1>2 DEF Progress

\* A turn of the loop of read() either goes on with the article or answers it.
LEMMA TurnProgresses ==
    ASSUME TypeOK, Progress, NEW s, NEW slot, Turn(s, slot)
    PROVE  Progress'
<1>1. at = "read" /\ Copy(slot) /\ UNCHANGED <<index, query>> /\ todo # <<>> /\ ~Again
  BY DEF Turn, TypeOK, Progress
<1>2. CASE at' = "aborted"  BY <1>2 DEF Progress
<1>3. CASE UNCHANGED <<at, todo, answer>>
  BY <1>1, <1>3 DEF Progress, Again, InRange
<1>4. CASE Answer(Copied(slot.data))
  <2> DEFINE data == Copied(slot.data)
  <2> HIDE DEF data
  <2>1. Answer(data)  BY <1>4 DEF data
  <2> QED BY <1>1, <2>1, AnswerProgresses
<1> QED BY <1>1, <1>2, <1>3, <1>4 DEF Copy

LEMMA LookupProgresses ==
    ASSUME IInv, Progress, Lookup  PROVE Progress'
<1>1. PICK first \in DOMAIN index, count \in 0 .. Len(index),
           synonyms \in SeqOf(DOMAIN index, MaxSynonyms) :
         /\ IsInjective(synonyms)
         /\ Begin([kind |-> "lookup", first |-> first, count |-> count,
                   synonyms |-> synonyms],
                  [k \in 1 .. count |-> first + k - 1] \o synonyms)
  BY DEF Lookup
<1> DEFINE q == [kind |-> "lookup", first |-> first, count |-> count,
                 synonyms |-> synonyms]
<1>2. DOMAIN index = 1 .. Len(index) /\ Len(index) \in Nat  BY IndexFacts DEF IInv
<1>3. first \in Nat /\ count \in Nat  BY <1>2
<1>4. synonyms \in Seq(Nat)
  <2>1. PICK m \in 0 .. MaxSynonyms : synonyms \in [1 .. m -> DOMAIN index]
    BY <1>1 DEF SeqOf
  <2>2. m \in Nat /\ DOMAIN index \subseteq Nat  BY <1>2, <2>1, SizesAssumption
  <2>3. synonyms \in [1 .. m -> Nat]  BY <2>1, <2>2
  <2> QED BY <2>2, <2>3
<1>5. q.first = first /\ q.count = count /\ q.synonyms = synonyms  OBVIOUS
<1> HIDE DEF q
<1>6. OnItsWay(q, [k \in 1 .. count |-> first + k - 1] \o synonyms, <<>>)
  BY <1>1, <1>3, <1>4, <1>5, OnItsWayBegins, Zenon
<1>7. /\ at = "idle" /\ at' = "articles" /\ query' = q /\ answer' = answer
      /\ todo' = [k \in 1 .. count |-> first + k - 1] \o synonyms
  BY <1>1 DEF Begin, q
<1>8. answer' = <<>>  BY <1>7 DEF Progress
<1>9. OnItsWay(query', todo', answer')  BY <1>6, <1>7, <1>8
<1> QED BY <1>7, <1>9 DEF Progress

LEMMA ProgressNext == IInv /\ Progress /\ [Next]_vars => Progress'
<1> SUFFICES ASSUME IInv, Progress, [Next]_vars  PROVE Progress'  OBVIOUS
<1>1. TypeOK  BY DEF IInv
<1>2. CASE Lookup  BY <1>2, LookupProgresses
<1>3. CASE FullText
  <2>1. [NoQuery EXCEPT !.kind = "data"]
          = [kind |-> "data", first |-> 1, count |-> 0, synonyms |-> <<>>]
    BY DEF NoQuery
  <2>2. at' = "articles" /\ query'.kind = "data"  BY <1>3, <2>1 DEF FullText, Begin
  <2> QED BY <2>2 DEF Progress
<1>4. CASE SkipSynonym
  <2>1. /\ at = "articles" /\ todo # <<>> /\ Again /\ todo' = Tail(todo)
        /\ UNCHANGED <<at, query, answer>>
    BY <1>4 DEF SkipSynonym
  <2>2. /\ OnItsWay(query, todo, answer) /\ Len(answer) >= query.count
        /\ InRange(query, Head(todo))
    BY <2>1 DEF Progress, Again
  <2>3. OnItsWay(query, Tail(todo), answer)
    BY <1>1, <2>1, <2>2, ProgressTypes, OnItsWaySkips
  <2> QED BY <2>1, <2>3 DEF Progress
<1>5. CASE FromRing
  <2>1. at = "articles" /\ todo # <<>> /\ ~Again /\ query' = query  BY <1>5 DEF FromRing
  <2>2. PICK r \in RingSlots : Answer(ring[r].data)  BY <1>5 DEF FromRing
  <2> QED BY <1>1, <2>1, <2>2, AnswerProgresses
<1>6. CASE StartRead
  BY <1>6 DEF StartRead, Progress, Again, InRange
<1>7. CASE EndQuery  BY <1>7 DEF EndQuery, Progress
<1>8. CASE UseSlot
  <2>1. PICK s \in Slots : Turn(s, [cache[s] EXCEPT !.stamp = NextStamp])
    BY <1>8 DEF UseSlot
  <2> QED BY <1>1, <2>1, TurnProgresses
<1>9. CASE Inflate
  <2>1. PICK s \in Slots : \E slot : Turn(s, slot)  BY <1>9 DEF Inflate
  <2>2. PICK slot : Turn(s, slot)  BY <2>1
  <2> QED BY <1>1, <2>2, TurnProgresses
<1>10. CASE ReadPastTable
  <2>1. CASE at' = "crashed"  BY <2>1 DEF Progress
  <2>2. CASE \E s \in Slots : \E slot : Turn(s, slot)
    BY <1>1, <2>2, TurnProgresses
  <2> QED BY <1>10, <2>1, <2>2, Zenon DEF ReadPastTable
<1>11. CASE UNCHANGED vars
  BY <1>11 DEF vars, Progress, Again, InRange
<1> QED BY <1>2, <1>3, <1>4, <1>5, <1>6, <1>7, <1>8, <1>9, <1>10, <1>11 DEF Next

\* A lookup with nothing left to do has the articles it asks for.
LEMMA ProgressComplete == TypeOK /\ Progress => AnswersAreComplete
<1> SUFFICES ASSUME TypeOK, Progress, at = "articles", todo = <<>>, query.kind = "lookup"
             PROVE  LET entries == EntriesOf(answer)
                    IN  /\ IsInjective(entries)
                        /\ \A k \in 1 .. query.count : entries[k] = query.first + k - 1
                        /\ Range(entries) = Range(query.synonyms)
                               \cup query.first .. query.first + query.count - 1
  BY DEF AnswersAreComplete, EntriesOf
<1> DEFINE f == query.first
           c == query.count
           s == query.synonyms
           m == Len(s)
           n == Len(answer)
           e == EntriesOf(answer)
<1>1. f \in Nat /\ c \in Nat /\ s \in Seq(Nat)  BY ProgressTypes
<1>2. answer \in Seq([entry : DOMAIN index, data : Pieces])  BY DEF TypeOK
<1>3. DOMAIN e = 1 .. n /\ n \in Nat
  <2>1. DOMAIN answer = 1 .. n /\ n \in Nat  BY <1>2, LenProperties
  <2> QED BY <2>1 DEF EntriesOf
<1>4. m \in Nat /\ DOMAIN s = 1 .. m /\ \A i \in 1 .. m : s[i] \in Nat
  BY <1>1, LenProperties, ElementOfSeq
<1>5. Kept(f, c, s, n, (c + m) - Len(todo), e)  BY Zenon DEF Progress, OnItsWay
<1> HIDE DEF f, c, s, m, n, e
<1>6. (c + m) - Len(todo) = c + m  BY <1>1, <1>4
<1>7. Kept(f, c, s, n, c + m, e)  BY <1>5, <1>6
<1>8. /\ IsInjective(e)
      /\ \A k \in 1 .. c : e[k] = f + k - 1
      /\ Range(e) = Range(s) \cup f .. f + c - 1
  BY <1>1, <1>3, <1>4, <1>7, KeptAll
<1> QED BY <1>8 DEF f, c, s, e

\* A lookup is answered with every article of the headword, in order, and every
\* one its synonyms name, and none twice (BuildResultData), whatever was cached.
THEOREM AnswersComplete == Spec => []AnswersAreComplete
<1>1. Init => Progress  BY DEF Init, Progress
<1>2. IInv /\ Progress /\ [Next]_vars => Progress'  BY ProgressNext
<1>3. IInv /\ Progress => AnswersAreComplete  BY ProgressComplete DEF IInv
<1> QED BY <1>1, <1>2, <1>3, InvariantHolds, PTL DEF Spec

-----------------------------------------------------------------------------
(* Induction, and what the inputs of functions are.                        *)

\* A set of positions has a least one.
LEMMA LeastPosition ==
    ASSUME NEW n \in Nat, NEW S \in SUBSET (0 .. n), S # {}
    PROVE  \E m \in S : \A y \in S : m <= y
<1> DEFINE UpTo(x) == {y \in S : y <= x}
           T == {UpTo(x) : x \in S}
<1>1. \A x, y, z \in S : x \in Int /\ (x <= y /\ y <= z => x <= z)  OBVIOUS
<1>2. T \in SUBSET SUBSET (0 .. n) /\ T # {}  OBVIOUS
<1> HIDE DEF T
<1>3. PICK a \in T : \A b \in T : b \subseteq a => b = a
  <2>1. IsFiniteSet(0 .. n)  BY FS_Interval
  <2>2. T \subseteq FiniteSubsetsOf(0 .. n)  BY <1>2, <2>1, FS_FiniteSubsetsOfFinite
  <2>3. IsWellFoundedOn(StrictSubsetOrdering(0 .. n), FiniteSubsetsOf(0 .. n))
    BY FS_StrictSubsetOrderingWellFounded
  <2>4. PICK a \in T : \A b \in T : ~ (<<b, a>> \in StrictSubsetOrdering(0 .. n))
    BY <1>2, <2>2, <2>3, WFMin
  <2> QED BY <1>2, <2>4 DEF StrictSubsetOrdering
<1>4. PICK m \in S : a = UpTo(m)  BY <1>3 DEF T
<1>5. ASSUME NEW y \in S, y < m PROVE FALSE
  <2>1. UpTo(y) \in T  BY DEF T
  <2>2. y <= m  BY <1>1, <1>5
  <2>2a. UpTo(y) \subseteq UpTo(m)  BY <2>2, <1>1
  <2>3. m \in UpTo(y)  BY <1>1, <1>3, <1>4, <2>1, <2>2a
  <2> QED BY <2>3, <1>1, <1>5
<1> QED BY <1>1, <1>5

\* What holds at 0 and at a number if at the one before it, holds up to n.
LEMMA UptoInduction ==
    ASSUME NEW n \in Nat, NEW S, 0 \in S, \A k \in 1 .. n : k - 1 \in S => k \in S
    PROVE  \A k \in 0 .. n : k \in S
<1> DEFINE Bad == {k \in 0 .. n : k \notin S}
<1> SUFFICES ASSUME Bad # {} PROVE FALSE  OBVIOUS
<1>1. Bad \in SUBSET (0 .. n)  OBVIOUS
<1>2. PICK k \in Bad : \A y \in Bad : k <= y
  <2> HIDE DEF Bad
  <2> QED BY <1>1, LeastPosition
<1>3. k \in 0 .. n /\ k \notin S  BY <1>2
<1>4. k \in 1 .. n /\ k - 1 \in 0 .. n /\ ~(k <= k - 1)  BY <1>3
<1>5. k - 1 \notin Bad  BY <1>2, <1>4
<1> QED BY <1>3, <1>4, <1>5

\* A string of one set of letters is one of a larger set.
LEMMA LettersWiden ==
    ASSUME NEW A, NEW B, A \subseteq B
    PROVE  Seq(A) \subseteq Seq(B)
<1> SUFFICES ASSUME NEW s \in Seq(A) PROVE s \in Seq(B)  OBVIOUS
<1>1. s \in [1 .. Len(s) -> B] /\ Len(s) \in Nat  BY LenProperties
<1> QED BY <1>1, SeqDef

StringsTyped ==
    /\ function \in Functions
    /\ input \in Seq(Letters[function]) /\ input2 \in Seq(SecondLetters[function])

LEMMA StringsWritten == StringsTyped /\ [InputNext]_inputs => StringsTyped'
<1> SUFFICES ASSUME StringsTyped, [InputNext]_inputs PROVE StringsTyped'  OBVIOUS
<1>1. CASE WriteLetter
  <2>1. /\ function' = function /\ input2' = input2
        /\ \E c \in Letters[function] : input' = Append(input, c)
    BY <1>1 DEF WriteLetter
  <2> QED BY <2>1, AppendProperties DEF StringsTyped
<1>2. CASE WriteSecond
  <2>1. /\ function' = function /\ input' = input
        /\ \E c \in SecondLetters[function] : input2' = Append(input2, c)
    BY <1>2 DEF WriteSecond
  <2> QED BY <2>1, AppendProperties DEF StringsTyped
<1>3. CASE UNCHANGED inputs  BY <1>3 DEF inputs, StringsTyped
<1> QED BY <1>1, <1>2, <1>3 DEF InputNext

LEMMA StringsAlwaysTyped == InputSpec => []StringsTyped
<1>1. InputInit => StringsTyped  BY EmptySeq DEF InputInit, StringsTyped
<1> QED BY <1>1, StringsWritten, PTL DEF InputSpec

-----------------------------------------------------------------------------
(* The sections of an article.                                             *)

\* G adds up the members of seqs from the first on, as FlattenSeq does.
AddsUp(G, seqs) ==
    G = [i \in 1 .. Len(seqs) |-> IF i = 1 THEN seqs[i] ELSE G[i - 1] \o seqs[i]]

\* Every sequence can be added up.
LEMMA SumExists ==
    ASSUME NEW S, NEW seqs \in Seq(Seq(S))
    PROVE  \E G : AddsUp(G, seqs)
<1> DEFINE n == Len(seqs)
           Sums(m, G) == G = [i \in 1 .. m |-> IF i = 1 THEN seqs[i] ELSE G[i - 1] \o seqs[i]]
           Bad == {m \in 0 .. n : ~ \E G : Sums(m, G)}
<1>1. n \in Nat  OBVIOUS
<1>2. ASSUME Bad # {} PROVE FALSE
  <2>1. PICK m \in Bad : \A y \in Bad : m <= y  BY <1>1, <1>2, LeastPosition
  <2>2. Sums(0, <<>>)  OBVIOUS
  <2>3. m # 0  BY <2>2
  <2>4. m \in 1 .. n /\ m - 1 \in 0 .. n  BY <1>1, <2>3
  <2>5. PICK G : Sums(m - 1, G)
    <3>1. ~(m <= m - 1)  BY <2>4
    <3>2. m - 1 \notin Bad  BY <2>1, <3>1
    <3> HIDE DEF Sums
    <3> QED BY <2>4, <3>2
  <2> DEFINE H == [i \in 1 .. m |-> IF i = m THEN IF m = 1 THEN seqs[m] ELSE G[m - 1] \o seqs[m]
                                    ELSE G[i]]
  <2>6. ASSUME NEW i \in 1 .. m
        PROVE  H[i] = IF i = 1 THEN seqs[i] ELSE H[i - 1] \o seqs[i]
    <3>1. CASE i = m
      <4>1. CASE m = 1  BY <3>1, <4>1
      <4>2. CASE m # 1
        <5>1. m - 1 \in 1 .. m /\ m - 1 # m  BY <2>4, <4>2
        <5>2. H[m - 1] = G[m - 1]  BY <5>1
        <5> QED BY <3>1, <4>2, <5>2
      <4> QED BY <4>1, <4>2
    <3>2. CASE i # m
      <4>1. i \in 1 .. m - 1  BY <2>4, <3>2
      <4>2. H[i] = G[i]  BY <3>2
      <4>3. G[i] = IF i = 1 THEN seqs[i] ELSE G[i - 1] \o seqs[i]
        BY <4>1, <2>5
      <4>4. i # 1 => i - 1 \in 1 .. m /\ i - 1 # m  BY <2>4, <4>1
      <4>5. i # 1 => H[i - 1] = G[i - 1]  BY <4>4
      <4> QED BY <4>2, <4>3, <4>5
    <3> QED BY <3>1, <3>2
  <2>7. Sums(m, H)  BY <2>6
  <2> QED BY <2>1, <2>7
<1>3. n \in 0 .. n  BY <1>1
<1> QED BY <1>2, <1>3 DEF AddsUp

\* What it adds up to are sequences again.
LEMMA SumType ==
    ASSUME NEW S, NEW seqs \in Seq(Seq(S)), NEW G, AddsUp(G, seqs)
    PROVE  \A i \in 1 .. Len(seqs) : G[i] \in Seq(S)
<1> DEFINE n == Len(seqs)
           Bad == {m \in 1 .. n : G[m] \notin Seq(S)}
<1>1. n \in Nat /\ Bad \in SUBSET (0 .. n)  OBVIOUS
<1>2. ASSUME Bad # {} PROVE FALSE
  <2>1. PICK m \in Bad : \A y \in Bad : m <= y  BY <1>1, <1>2, LeastPosition
  <2>2. m \in 1 .. n /\ seqs[m] \in Seq(S)  BY <2>1
  <2>3. G[m] = IF m = 1 THEN seqs[m] ELSE G[m - 1] \o seqs[m]
    BY <2>2 DEF AddsUp
  <2>4. m # 1 => m - 1 \in 1 .. n /\ ~(m <= m - 1)  BY <2>2, <1>1
  <2>5. m # 1 => G[m - 1] \in Seq(S)  BY <2>1, <2>4
  <2>6. G[m] \in Seq(S)  BY <2>2, <2>3, <2>5, ConcatProperties
  <2> QED BY <2>1, <2>6
<1> QED BY <1>2

\* FlattenSeq ends where such a sum ends.
LEMMA FlattenIsSum ==
    ASSUME NEW S, NEW seqs \in Seq(Seq(S)), seqs # <<>>
    PROVE  \E G : /\ AddsUp(G, seqs)
                  /\ FlattenSeq(seqs) = G[Len(seqs)]
                  /\ \A i \in 1 .. Len(seqs) : G[i] \in Seq(S)
<1> DEFINE G == CHOOSE flatten : AddsUp(flatten, seqs)
<1>1. AddsUp(G, seqs)  BY SumExists
<1>2. Len(seqs) # 0  BY EmptySeq
<1>3. FlattenSeq(seqs) = G[Len(seqs)]  BY <1>2 DEF FlattenSeq, AddsUp
<1>4. \A i \in 1 .. Len(seqs) : G[i] \in Seq(S)  BY <1>1, SumType
<1> QED BY <1>1, <1>3, <1>4

\* Nothing adds up to nothing.
LEMMA FlattenEmpty == FlattenSeq(<<>>) = <<>>
BY DEF FlattenSeq

\* FlattenSeq of a sequence of sequences is a sequence.
LEMMA FlattenType ==
    ASSUME NEW S, NEW seqs \in Seq(Seq(S))
    PROVE  FlattenSeq(seqs) \in Seq(S)
<1>2. CASE seqs = <<>>  BY <1>2, FlattenEmpty, EmptySeq
<1>3. CASE seqs # <<>>
  <2>1. Len(seqs) \in 1 .. Len(seqs)  BY <1>3, EmptySeq
  <2> QED BY <1>3, <2>1, FlattenIsSum
<1> QED BY <1>2, <1>3

\* F is the sum of the first of seqs, and the sum of all has each of them in its
\* place.
LiesAt(F, seqs, k) ==
    LET all == FlattenSeq(seqs)
    IN /\ F[k] = F[k - 1] \o seqs[k]
       /\ Len(F[k]) = Len(F[k - 1]) + Len(seqs[k])
       /\ Len(F[k]) <= Len(all)
       /\ \A j \in 1 .. Len(seqs[k]) : all[Len(F[k - 1]) + j] = seqs[k][j]
Laid(F, seqs, S) ==
    /\ F \in [0 .. Len(seqs) -> Seq(S)]
    /\ F[0] = <<>> /\ F[Len(seqs)] = FlattenSeq(seqs)
    /\ \A k \in 1 .. Len(seqs) : LiesAt(F, seqs, k)

\* Any sequences can be laid behind one another.
LEMMA FlattenIsLaid ==
    ASSUME NEW S, NEW seqs \in Seq(Seq(S))
    PROVE  \E F : Laid(F, seqs, S)
<1> DEFINE n == Len(seqs)
           all == FlattenSeq(seqs)
<1>1. n \in Nat  BY LenProperties
<1>2. CASE seqs = <<>>
  <2> DEFINE F == [k \in 0 .. n |-> <<>>]
  <2>1. n = 0 /\ all = <<>>  BY <1>2, FlattenEmpty, EmptySeq
  <2>2. F \in [0 .. n -> Seq(S)] /\ F[0] = <<>> /\ F[n] = all
    BY <2>1, EmptySeq
  <2>3. 1 .. n = {}  BY <2>1
  <2> QED BY <2>2, <2>3 DEF Laid
<1>3. CASE seqs # <<>>
  <2>1. PICK G : AddsUp(G, seqs) /\ all = G[n] /\ \A i \in 1 .. n : G[i] \in Seq(S)
    BY <1>3, FlattenIsSum
  <2> DEFINE F == [k \in 0 .. n |-> IF k = 0 THEN <<>> ELSE G[k]]
  <2>2. n # 0  BY <1>3, EmptySeq
  <2>3. F \in [0 .. n -> Seq(S)] /\ F[0] = <<>>
    <3>1. \A k \in 0 .. n : k # 0 => k \in 1 .. n  BY <1>1
    <3>2. <<>> \in Seq(S) /\ 0 \in 0 .. n  BY <1>1, EmptySeq
    <3>3. \A k \in 0 .. n : (IF k = 0 THEN <<>> ELSE G[k]) \in Seq(S)  BY <2>1, <3>1, <3>2
    <3> QED BY <3>2, <3>3
  <2>4. F[n] = all  BY <1>1, <2>1, <2>2
  <2>5. ASSUME NEW k \in 1 .. n PROVE F[k] = F[k - 1] \o seqs[k]
    <3>1. k \in 0 .. n /\ k - 1 \in 0 .. n /\ k # 0 /\ F[k] = G[k]  BY <1>1
    <3>2. G[k] = IF k = 1 THEN seqs[k] ELSE G[k - 1] \o seqs[k]  BY <2>1 DEF AddsUp
    <3>3. seqs[k] \in Seq(S)  BY ElementOfSeq
    <3>4. CASE k = 1
      <4>1. k - 1 = 0  BY <3>4
      <4>2. F[k - 1] = <<>>  BY <4>1, <2>3
      <4> QED BY <3>1, <3>2, <3>3, <3>4, <4>2, ConcatEmptySeq
    <3>5. CASE k # 1
      <4>1. k - 1 # 0  BY <3>1, <3>5
      <4>2. F[k - 1] = G[k - 1]  BY <3>1, <4>1
      <4> QED BY <3>1, <3>2, <3>5, <4>2
    <3> QED BY <3>4, <3>5
  <2> HIDE DEF F, n, all
  <2>6. ASSUME NEW k \in 1 .. n
        PROVE  /\ F[k - 1] \in Seq(S) /\ F[k] \in Seq(S) /\ seqs[k] \in Seq(S)
               /\ Len(F[k - 1]) \in Nat /\ Len(seqs[k]) \in Nat
               /\ Len(F[k]) = Len(F[k - 1]) + Len(seqs[k])
               /\ Len(F[k - 1]) <= Len(F[k])
               /\ \A j \in 1 .. Len(F[k - 1]) : F[k][j] = F[k - 1][j]
               /\ \A j \in 1 .. Len(seqs[k]) : /\ Len(F[k - 1]) + j \in 1 .. Len(F[k])
                                              /\ F[k][Len(F[k - 1]) + j] = seqs[k][j]
    <3>1. F[k - 1] \in Seq(S) /\ F[k] \in Seq(S) /\ seqs[k] \in Seq(S)
      <4>1. k - 1 \in 0 .. n /\ k \in 0 .. n  BY <1>1
      <4>2. seqs[k] \in Seq(S)  BY ElementOfSeq DEF n
      <4> QED BY <4>1, <4>2, <2>3
    <3>2. F[k] = F[k - 1] \o seqs[k]  BY <2>5
    <3>3. PICK x : x = F[k - 1]  OBVIOUS
    <3>4. PICK y : y = seqs[k]  OBVIOUS
    <3>5. /\ Len(x \o y) = Len(x) + Len(y) /\ Len(x) \in Nat /\ Len(y) \in Nat
          /\ \A j \in 1 .. Len(x) + Len(y) : (x \o y)[j] = IF j <= Len(x) THEN x[j] ELSE y[j - Len(x)]
      BY <3>1, <3>3, <3>4, ConcatProperties, LenProperties
    <3>6. \A j \in 1 .. Len(x) : (x \o y)[j] = x[j]  BY <3>5
    <3>7. \A j \in 1 .. Len(y) : Len(x) + j \in 1 .. Len(x \o y) /\ (x \o y)[Len(x) + j] = y[j]
      <4>1. ASSUME NEW j \in 1 .. Len(y)
            PROVE  Len(x) + j \in 1 .. Len(x \o y) /\ (x \o y)[Len(x) + j] = y[j]
        <5>1. /\ Len(x) + j \in 1 .. Len(x) + Len(y) /\ ~(Len(x) + j <= Len(x))
              /\ Len(x) + j - Len(x) = j
          BY <3>5
        <5> QED BY <3>5, <5>1
      <4> QED BY <4>1
    <3>8. Len(x) <= Len(x \o y)  BY <3>5
    <3>9. F[k] = x \o y  BY <3>2, <3>3, <3>4
    <3> QED BY <3>1, <3>3, <3>4, <3>5, <3>6, <3>7, <3>8, <3>9
  \* The sum so far is a beginning of each later one.
  <2> DEFINE StartsAlike(k, m) == /\ Len(F[k]) <= Len(F[m])
                             /\ \A j \in 1 .. Len(F[k]) : F[m][j] = F[k][j]
             B == {m \in 0 .. n : \A k \in 0 .. m : StartsAlike(k, m)}
  <2>7. \A m \in 0 .. n : m \in B
    <3>1. 0 \in B
      <4>1. 0 \in 0 .. n /\ F[0] \in Seq(S) /\ \A k \in 0 .. 0 : k = 0  BY <1>1, <2>3
      <4>2. StartsAlike(0, 0)  BY <4>1
      <4> QED BY <4>1, <4>2
    <3>2. ASSUME NEW m \in 1 .. n, m - 1 \in B PROVE m \in B
      <4>1. m \in 0 .. n /\ m - 1 \in 0 .. n  BY <1>1
      <4>2. ASSUME NEW k \in 0 .. m PROVE StartsAlike(k, m)
        <5>1. F[m] \in Seq(S)  BY <2>6
        <5>2. CASE k = m  BY <5>1, <5>2
        <5>3. CASE k # m
          <6>1. k \in 0 .. m - 1 /\ k \in 0 .. n
            <7>1. k \in Int /\ m \in Int /\ n \in Int /\ 0 <= k /\ k <= m /\ m <= n  BY <1>1
            <7> QED BY <7>1, <5>3
          <6>2. StartsAlike(k, m - 1)  BY <3>2, <6>1
          <6>3. F[k] \in Seq(S)  BY <2>3, <6>1
          <6>4. Len(F[m - 1]) <= Len(F[m])  BY <2>6
          <6>5. F[m - 1] \in Seq(S)  BY <2>6
          <6>6. Len(F[k]) \in Nat /\ Len(F[m - 1]) \in Nat /\ Len(F[m]) \in Nat
            BY <5>1, <6>3, <6>5, LenProperties
          <6>7. Len(F[k]) <= Len(F[m])  BY <6>2, <6>4, <6>6
          <6>8. ASSUME NEW j \in 1 .. Len(F[k]) PROVE F[m][j] = F[k][j]
            <7>1. j \in 1 .. Len(F[m - 1])  BY <6>2, <6>6
            <7>2. F[m][j] = F[m - 1][j]  BY <2>6, <7>1
            <7>3. F[m - 1][j] = F[k][j]  BY <6>2
            <7> QED BY <7>2, <7>3
          <6> QED BY <6>7, <6>8
        <5> QED BY <5>2, <5>3
      <4> QED BY <4>1, <4>2
    <3> HIDE DEF B
    <3> QED BY <1>1, <3>1, <3>2, UptoInduction
  <2>8. ASSUME NEW k \in 1 .. n PROVE LiesAt(F, seqs, k)
    <3>1. n \in 0 .. n /\ k \in 0 .. n /\ n = Len(seqs)  BY <1>1 DEF n
    <3>2. StartsAlike(k, n)  BY <2>7, <3>1
    <3>3. Len(F[k]) = Len(F[k - 1]) + Len(seqs[k])  BY <2>6
    <3>4. Len(F[k]) <= Len(all)  BY <2>4, <3>2
    <3>5. ASSUME NEW j \in 1 .. Len(seqs[k]) PROVE all[Len(F[k - 1]) + j] = seqs[k][j]
      <4>1. /\ Len(F[k - 1]) + j \in 1 .. Len(F[k])
            /\ F[k][Len(F[k - 1]) + j] = seqs[k][j]
        BY <2>6
      <4> QED BY <2>4, <3>2, <4>1
    <3> QED BY <2>5, <3>3, <3>4, <3>5 DEF LiesAt, all
  <2> QED BY <2>3, <2>4, <2>8 DEF Laid, n, all
<1> QED BY <1>2, <1>3

\* piece lies in a behind the first q.
StandsAt(a, q, piece) ==
    q \in Nat /\ q + Len(piece) <= Len(a) /\ \A j \in 1 .. Len(piece) : a[q + j] = piece[j]

\* So do its parts, and it can be cut out.
LEMMA StandsRead ==
    ASSUME NEW a \in Seq(Nat), NEW q, NEW piece \in Seq(Nat), StandsAt(a, q, piece)
    PROVE  SubSeq(a, q + 1, q + Len(piece)) = piece
<1>1. q \in Nat /\ q + Len(piece) <= Len(a) /\ Len(piece) \in Nat /\ Len(a) \in Nat
  BY DEF StandsAt
<1> DEFINE c == SubSeq(a, q + 1, q + Len(piece))
<1>2. \A i \in q + 1 .. q + Len(piece) : a[i] \in Nat  BY <1>1
<1>3. /\ c \in Seq(Nat) /\ Len(c) = Len(piece)
      /\ \A i \in 1 .. Len(piece) : c[i] = a[q + 1 + i - 1]
  BY <1>1, <1>2, SubSeqProperties
<1>4. \A i \in 1 .. Len(piece) : c[i] = piece[i]
  <2>1. ASSUME NEW i \in 1 .. Len(piece) PROVE c[i] = piece[i]
    <3>1. q + 1 + i - 1 = q + i  BY <1>1
    <3>2. c[i] = a[q + 1 + i - 1]  BY <1>3
    <3>3. a[q + i] = piece[i]  BY DEF StandsAt
    <3> QED BY <3>1, <3>2, <3>3
  <2> QED BY <2>1
<1> HIDE DEF c
<1>5. c = piece  BY <1>3, <1>4, SeqEqual
<1> QED BY <1>5 DEF c

LEMMA StandsSplit ==
    ASSUME NEW a \in Seq(Nat), NEW q, NEW x \in Seq(Nat), NEW y \in Seq(Nat), StandsAt(a, q, x \o y)
    PROVE  StandsAt(a, q, x) /\ StandsAt(a, q + Len(x), y)
<1>1. /\ q \in Nat /\ Len(x) \in Nat /\ Len(y) \in Nat /\ Len(a) \in Nat
      /\ Len(x \o y) = Len(x) + Len(y)
  BY DEF StandsAt
<1>2. \A i \in 1 .. Len(x) : (x \o y)[i] = x[i] /\ i \in 1 .. Len(x \o y)  BY <1>1
<1>3. \A i \in 1 .. Len(y) : (x \o y)[Len(x) + i] = y[i] /\ Len(x) + i \in 1 .. Len(x \o y)
  BY <1>1
<1>4. StandsAt(a, q, x)  BY <1>1, <1>2 DEF StandsAt
<1>5. \A i \in 1 .. Len(y) : a[q + Len(x) + i] = y[i]
  <2>1. ASSUME NEW i \in 1 .. Len(y) PROVE a[q + Len(x) + i] = y[i]
    <3>1. q + Len(x) + i = q + (Len(x) + i)  BY <1>1
    <3>2. a[q + (Len(x) + i)] = (x \o y)[Len(x) + i]  BY <1>3 DEF StandsAt
    <3> QED BY <1>3, <3>1, <3>2
  <2> QED BY <2>1
<1>6. q + Len(x) + Len(y) <= Len(a)  BY <1>1 DEF StandsAt
<1> QED BY <1>1, <1>4, <1>5, <1>6 DEF StandsAt

\* A text ends at its NUL.
LEMMA TextEnds ==
    ASSUME NEW a \in Seq(Nat), NEW q, NEW d \in Seq(Nat), StandsAt(a, q, d \o <<Art!NUL>>),
           \A i \in 1 .. Len(d) : d[i] # Art!NUL
    PROVE  Art!EndOfString(a, q + 1) = q + 1 + Len(d)
<1> DEFINE e == q + 1 + Len(d)
<1>1. q \in Nat /\ Len(d) \in Nat /\ Len(a) \in Nat /\ <<Art!NUL>> \in Seq(Nat)
  BY DEF StandsAt, Art!NUL
<1>2. StandsAt(a, q, d) /\ StandsAt(a, q + Len(d), <<Art!NUL>>)  BY <1>1, StandsSplit
<1>3. a[e] = Art!NUL /\ e \in q + 1 .. Len(a)
  <2>1. q + Len(d) + 1 = e /\ 1 \in 1 .. Len(<<Art!NUL>>) /\ Len(<<Art!NUL>>) = 1  BY <1>1
  <2> QED BY <1>1, <1>2, <2>1 DEF StandsAt
<1>4. \A r \in q + 1 .. e - 1 : a[r] # Art!NUL
  <2>1. ASSUME NEW r \in q + 1 .. e - 1 PROVE a[r] # Art!NUL
    <3>1. r - q \in 1 .. Len(d) /\ q + (r - q) = r  BY <1>1
    <3> QED BY <1>2, <3>1 DEF StandsAt
  <2> QED BY <2>1
<1> HIDE DEF e
<1> DEFINE Is(x) == a[x] = Art!NUL /\ \A r \in q + 1 .. x - 1 : a[r] # Art!NUL
<1>5. ASSUME NEW x \in q + 1 .. Len(a), Is(x) PROVE x = e
  <2>1. x \in Int /\ e \in Int  BY <1>1, <1>3
  <2>2. CASE x < e  BY <1>1, <1>3, <1>4, <1>5, <2>2
  <2>3. CASE x > e  BY <1>1, <1>3, <1>5, <2>3
  <2> QED BY <2>1, <2>2, <2>3
<1>6. Is(e)  BY <1>3, <1>4
<1>7. (CHOOSE x \in q + 1 .. Len(a) : Is(x)) = e  BY <1>3, <1>5, <1>6
<1>8. Art!EndOfString(a, q + 1) = e  BY <1>3, <1>7 DEF Art!EndOfString
<1> QED BY <1>8 DEF e

\* A size is read as it was written.
LEMMA SizeReads ==
    ASSUME NEW a \in Seq(Nat), NEW q, NEW d \in Seq(Nat), StandsAt(a, q, Art!Bytes(Len(d)) \o d)
    PROVE  Art!ntohl(a, q + 1) = Len(d) /\ q + 2 + Len(d) <= Len(a)
<1>1. PICK n : n = Len(d)  OBVIOUS
<1>2. n \in Nat /\ Base \in Nat \ {0}  BY <1>1, InputsAssumption
<1>3. PICK h : h = n \div Base  OBVIOUS
<1>4. PICK l : l = n % Base  OBVIOUS
<1>5. h \in Nat /\ l \in Nat /\ h * Base + l = n
  <2>1. h \in Int /\ l \in 0 .. Base - 1 /\ n = h * Base + l  BY <1>2, <1>3, <1>4
  <2>2. h >= 0
    <3>1. CASE h <= 0 - 1
      <4>1. h * Base <= 0 - Base  BY <1>2, <2>1, <3>1
      <4> QED BY <1>2, <2>1, <4>1
    <3> QED BY <2>1, <3>1
  <2> QED BY <1>2, <2>1, <2>2
<1>6. Art!Bytes(Len(d)) = <<h, l>>  BY <1>1, <1>3, <1>4 DEF Art!Bytes
<1>7. <<h, l>> \in Seq(Nat) /\ Len(<<h, l>>) = 2  BY <1>5
<1>8. StandsAt(a, q, <<h, l>>) /\ StandsAt(a, q + 2, d)  BY <1>6, <1>7, StandsSplit
<1>9. q \in Nat /\ a[q + 1] = h /\ a[q + 2] = l
  BY <1>7, <1>8 DEF StandsAt
<1>10. Art!ntohl(a, q + 1) = n
  <2>1. q + 1 + 1 = q + 2  BY <1>9
  <2> QED BY <1>5, <1>9, <2>1 DEF Art!ntohl
<1> QED BY <1>1, <1>8, <1>10 DEF StandsAt

-----------------------------------------------------------------------------
\* A section of type t with data d, as a dictionary may have it; how it stands in
\* an article if it is not the last, without and with its type; and what can be
\* read on a machine of either byte order.
IsSection(t, d) ==
    /\ t \in Nat /\ t # Art!NUL /\ d \in Seq(Nat)
    /\ t \notin SizedTypes => \A i \in 1 .. Len(d) : d[i] # Art!NUL
Bare(t, d) == IF t \in SizedTypes THEN Art!Bytes(Len(d)) \o d ELSE d \o <<Art!NUL>>
WithType(t, d) == <<t>> \o Bare(t, d)
Readable(t, little) == ~little \/ t \notin SizedTypes

LEMMA BytesAre ==
    ASSUME NEW n, n \in Nat
    PROVE  Art!Bytes(n) \in Seq(Nat) /\ Len(Art!Bytes(n)) = 2
<1>1. Base \in Nat \ {0}  BY InputsAssumption
<1>2. PICK h : h = n \div Base  OBVIOUS
<1>3. PICK l : l = n % Base  OBVIOUS
<1>4. h \in Int /\ l \in 0 .. Base - 1 /\ n = h * Base + l  BY <1>1, <1>2, <1>3
<1>5. h >= 0
  <2>1. CASE h <= 0 - 1
    <3>1. h * Base <= 0 - Base  BY <1>1, <1>4, <2>1
    <3> QED BY <1>1, <1>4, <3>1
  <2> QED BY <1>4, <2>1
<1>6. h \in Nat /\ l \in Nat  BY <1>1, <1>4, <1>5
<1>7. Art!Bytes(n) = <<h, l>>  BY <1>2, <1>3 DEF Art!Bytes
<1> QED BY <1>6, <1>7

LEMMA BareIs ==
    ASSUME NEW t, NEW d, IsSection(t, d)
    PROVE  /\ Bare(t, d) \in Seq(Nat) /\ Len(Bare(t, d)) \in Nat /\ Len(d) \in Nat
           /\ t \in SizedTypes => Len(Bare(t, d)) = Len(d) + 2
           /\ t \notin SizedTypes => Len(Bare(t, d)) = Len(d) + 1
<1>1. d \in Seq(Nat) /\ Len(d) \in Nat  BY LenProperties DEF IsSection
<1>2. <<Art!NUL>> \in Seq(Nat) /\ Len(<<Art!NUL>>) = 1  BY DEF Art!NUL
<1>3. CASE t \in SizedTypes
  <2>1. PICK x : x = Art!Bytes(Len(d))  OBVIOUS
  <2>2. x \in Seq(Nat) /\ Len(x) = 2  BY <1>1, <2>1, BytesAre
  <2>3. x \o d \in Seq(Nat) /\ Len(x \o d) = Len(x) + Len(d)  BY <1>1, <2>2, ConcatProperties
  <2>4. Bare(t, d) = x \o d  BY <1>3, <2>1 DEF Bare
  <2> QED BY <1>1, <1>3, <2>2, <2>3, <2>4
<1>4. CASE t \notin SizedTypes
  <2>1. PICK x : x = <<Art!NUL>>  OBVIOUS
  <2>2. x \in Seq(Nat) /\ Len(x) = 1  BY <1>2, <2>1
  <2>3. d \o x \in Seq(Nat) /\ Len(d \o x) = Len(d) + Len(x)  BY <1>1, <2>2, ConcatProperties
  <2>4. Bare(t, d) = d \o x  BY <1>4, <2>1 DEF Bare
  <2> QED BY <1>1, <1>4, <2>2, <2>3, <2>4
<1> QED BY <1>3, <1>4

LEMMA TypedLength ==
    ASSUME NEW t, NEW d, IsSection(t, d)
    PROVE  WithType(t, d) \in Seq(Nat) /\ Len(WithType(t, d)) = 1 + Len(Bare(t, d))
<1>1. PICK x : x = Bare(t, d)  OBVIOUS
<1>2. PICK y : y = <<t>>  OBVIOUS
<1>3. y \in Seq(Nat) /\ Len(y) = 1 /\ x \in Seq(Nat)  BY <1>1, <1>2, BareIs DEF IsSection
<1>4. y \o x \in Seq(Nat) /\ Len(y \o x) = Len(y) + Len(x)  BY <1>3, ConcatProperties
<1>5. WithType(t, d) = y \o x  BY <1>1, <1>2 DEF WithType
<1> QED BY <1>1, <1>3, <1>4, <1>5

LEMMA TypedIs ==
    ASSUME NEW t, NEW d, IsSection(t, d), NEW a \in Seq(Nat), NEW q, StandsAt(a, q, WithType(t, d))
    PROVE  q \in Nat /\ a[q + 1] = t /\ StandsAt(a, q + 1, Bare(t, d))
<1>1. PICK x : x = Bare(t, d)  OBVIOUS
<1>2. PICK y : y = <<t>>  OBVIOUS
<1>3. y \in Seq(Nat) /\ Len(y) = 1 /\ y[1] = t /\ x \in Seq(Nat)
  BY <1>1, <1>2, BareIs DEF IsSection
<1>4. StandsAt(a, q, y \o x)  BY <1>1, <1>2 DEF WithType
<1>5. StandsAt(a, q, y) /\ StandsAt(a, q + Len(y), x)  BY <1>3, <1>4, StandsSplit
<1>6. q \in Nat /\ a[q + 1] = t  BY <1>3, <1>5 DEF StandsAt
<1> QED BY <1>1, <1>3, <1>5, <1>6

\* A section of the article is as long as it was written.
LEMMA SizedEnds ==
    ASSUME NEW t, NEW d, IsSection(t, d), NEW a \in Seq(Nat), NEW q, StandsAt(a, q, Bare(t, d)),
           t \in SizedTypes
    PROVE  Art!ntohl(a, q + 1) = Len(d) /\ q + 2 + Len(d) <= Len(a)
<1>1. StandsAt(a, q, Art!Bytes(Len(d)) \o d)  BY DEF Bare
<1> QED BY <1>1, SizeReads DEF IsSection

LEMMA UnsizedEnds ==
    ASSUME NEW t, NEW d, IsSection(t, d), NEW a \in Seq(Nat), NEW q, StandsAt(a, q, Bare(t, d)),
           t \notin SizedTypes
    PROVE  Art!EndOfString(a, q + 1) = q + 1 + Len(d) /\ SubSeq(a, q + 1, q + Len(d)) = d
<1>1. d \in Seq(Nat) /\ \A i \in 1 .. Len(d) : d[i] # Art!NUL  BY DEF IsSection
<1>2. PICK x : x = <<Art!NUL>>  OBVIOUS
<1>3. x \in Seq(Nat)  BY <1>2 DEF Art!NUL
<1>4. StandsAt(a, q, d \o x)  BY <1>2 DEF Bare
<1>5. Art!EndOfString(a, q + 1) = q + 1 + Len(d)  BY <1>1, <1>2, <1>4, TextEnds
<1>6. StandsAt(a, q, d)  BY <1>1, <1>3, <1>4, StandsSplit
<1> QED BY <1>1, <1>5, <1>6, StandsRead

LEMMA SectionEnds ==
    ASSUME NEW t, NEW d, IsSection(t, d), NEW a \in Seq(Nat), NEW q, StandsAt(a, q, Bare(t, d)),
           NEW little, Readable(t, little)
    PROVE  Art!SizeOfSection(a, q + 1, t, little) = Len(Bare(t, d))
<1>1. PICK n : n = Len(d)  OBVIOUS
<1>2. n \in Nat /\ q \in Nat  BY <1>1, BareIs DEF StandsAt
<1>3. CASE t \in SizedTypes
  <2>1. Art!ntohl(a, q + 1) = n  BY <1>1, <1>3, SizedEnds
  <2>2. ~little  BY <1>3 DEF Readable
  <2>3. Art!get_uint32(a, q + 1, little) = n  BY <2>1, <2>2 DEF Art!get_uint32
  <2>4. Art!SizeOfSection(a, q + 1, t, little) = n + 2
    BY <1>3, <2>3 DEF Art!SizeOfSection, Art!SizeBytes
  <2> QED BY <1>1, <1>3, <2>4, BareIs
<1>4. CASE t \notin SizedTypes
  <2>1. Art!EndOfString(a, q + 1) = q + 1 + n  BY <1>1, <1>4, UnsizedEnds
  <2>2. Art!SizeOfSection(a, q + 1, t, little) = q + 1 + n + 1 - (q + 1)
    BY <1>4, <2>1 DEF Art!SizeOfSection
  <2>3. q + 1 + n + 1 - (q + 1) = n + 1  BY <1>2
  <2> QED BY <1>1, <1>4, <2>2, <2>3, BareIs
<1> QED BY <1>3, <1>4

\* One round of each loop, at a section.
CopiesNext(a, q, t, d, little, x) ==
    Art!CopySection(a, [p |-> q + 1, data |-> x], t, little)
        = [p |-> q + Len(Bare(t, d)) + 1, data |-> x \o <<t>> \o Bare(t, d)]

LEMMA CopySectionIs ==
    ASSUME NEW t, NEW d, IsSection(t, d), NEW a \in Seq(Nat), NEW q, StandsAt(a, q, Bare(t, d)),
           NEW little, Readable(t, little), NEW x
    PROVE  CopiesNext(a, q, t, d, little, x)
<1> DEFINE st == [p |-> q + 1, data |-> x]
<1>1. PICK n : n = Len(Bare(t, d))  OBVIOUS
<1>1a. PICK e : e = Len(a)  OBVIOUS
<1>2. q \in Nat /\ n \in Nat /\ q + n <= e /\ e \in Nat /\ (t \in SizedTypes => n >= 2)
  <2>1. t \in SizedTypes => n = Len(d) + 2 /\ Len(d) \in Nat  BY <1>1, BareIs
  <2> QED BY <1>1, <1>1a, <2>1, BareIs, LenProperties DEF StandsAt
<1>3. Art!SizeOfSection(a, q + 1, t, little) = n  BY <1>1, SectionEnds
<1>4. SubSeq(a, q + 1, q + n) = Bare(t, d)  BY <1>1, BareIs, StandsRead
<1>5. st.p = q + 1 /\ st.data = x  OBVIOUS
<1>6. st # Art!Astray  BY <1>2, <1>5 DEF Art!Astray
<1> HIDE DEF st
<1>7. ~(t \in SizedTypes /\ st.p >= Len(a))  BY <1>1a, <1>2, <1>5
<1>8. st.p + Art!SizeOfSection(a, st.p, t, little) - 1 = q + n
  <2>1. q + 1 + n - 1 = q + n  BY <1>2
  <2> QED BY <1>3, <1>5, <2>1
<1>9. ~(q + n > Len(a))  BY <1>1a, <1>2
<1>10. Art!CopySection(a, st, t, little)
         = [p |-> q + n + 1, data |-> x \o <<t>> \o Bare(t, d)]
  BY <1>4, <1>5, <1>6, <1>7, <1>8, <1>9 DEF Art!CopySection
<1> QED BY <1>1, <1>10 DEF st, CopiesNext

PrintsNext(a, q, t, d, x) ==
    Art!PrintNext(a, [p |-> q + 1, shown |-> x])
        = [p |-> q + Len(WithType(t, d)) + 1,
           shown |-> x \o (IF q = 0 THEN <<>> ELSE <<"br">>) \o Art!PrintSection(t, d)]

LEMMA PrintNextIs ==
    ASSUME NEW t, NEW d, IsSection(t, d), NEW a \in Seq(Nat), NEW q, StandsAt(a, q, WithType(t, d)), NEW x
    PROVE  PrintsNext(a, q, t, d, x)
<1> DEFINE st == [p |-> q + 1, shown |-> x]
           size == IF a[st.p] \in SizedTypes
                   THEN (IF st.p + Art!SizeBytes > Len(a) THEN Len(a)
                         ELSE Art!ntohl(a, st.p + 1) + Art!SizeBytes)
                   ELSE Art!EndOfString(a, st.p + 1) - st.p
           text == SubSeq(a, st.p + 1, st.p + size - 1)
<1>1. PICK n : n = Len(WithType(t, d))  OBVIOUS
<1>2. PICK m : m = Len(d)  OBVIOUS
<1>3. PICK e : e = Len(a)  OBVIOUS
<1>4. q \in Nat /\ a[q + 1] = t /\ StandsAt(a, q + 1, Bare(t, d))  BY TypedIs
<1>5. n \in Nat /\ m \in Nat /\ e \in Nat /\ q + n <= e
  BY <1>1, <1>2, <1>3, TypedLength, BareIs, LenProperties DEF StandsAt
<1>6. (t \in SizedTypes => n = m + 3) /\ (t \notin SizedTypes => n = m + 2)
  <2>1. PICK k : k = Len(Bare(t, d))  OBVIOUS
  <2>2. n = 1 + k  BY <1>1, <2>1, TypedLength
  <2>3. (t \in SizedTypes => k = m + 2) /\ (t \notin SizedTypes => k = m + 1)
    BY <1>2, <2>1, BareIs
  <2> QED BY <1>5, <2>2, <2>3
<1>7. st.p = q + 1 /\ st.shown = x  OBVIOUS
<1> HIDE DEF st
<1>8. st.p + 1 = q + 1 + 1  BY <1>7
<1>9. size = n - 1
  <2>1. CASE t \in SizedTypes
    <3>1. Art!ntohl(a, q + 1 + 1) = m  BY <1>2, <1>4, <2>1, SizedEnds
    <3>2. ~(st.p + 2 > e)  BY <1>4, <1>5, <1>6, <1>7, <2>1
    <3>3. size = m + 2  BY <1>3, <1>4, <1>7, <1>8, <2>1, <3>1, <3>2 DEF Art!SizeBytes
    <3> QED BY <1>5, <1>6, <2>1, <3>3
  <2>2. CASE t \notin SizedTypes
    <3>1. Art!EndOfString(a, q + 1 + 1) = q + 1 + 1 + m
      <4>1. PICK r : r = q + 1  OBVIOUS
      <4>2. Art!EndOfString(a, r + 1) = r + 1 + Len(d)  BY <1>4, <2>2, <4>1, UnsizedEnds
      <4> QED BY <1>2, <4>1, <4>2
    <3>2. size = q + 1 + 1 + m - (q + 1)
      <4>1. a[st.p] \notin SizedTypes  BY <1>4, <1>7, <2>2
      <4>2. size = Art!EndOfString(a, st.p + 1) - st.p  BY <4>1
      <4>3. Art!EndOfString(a, st.p + 1) = q + 1 + 1 + m  BY <1>8, <3>1
      <4>4. PICK loop : loop = Art!EndOfString(a, st.p + 1)  OBVIOUS
      <4>5. size = loop - st.p  BY <4>2, <4>4
      <4>6. loop = q + 1 + 1 + m  BY <4>3, <4>4
      <4> HIDE DEF size
      <4> QED BY <1>4, <1>5, <1>7, <4>5, <4>6
    <3>3. q + 1 + 1 + m - (q + 1) = n - 1  BY <1>4, <1>5, <1>6, <2>2
    <3> QED BY <3>2, <3>3
  <2> QED BY <2>1, <2>2
<1> HIDE DEF size
<1>10. Art!PrintSection(t, text) = Art!PrintSection(t, d)
  <2>1. CASE t \in TextTypes
    <3>1. t \notin SizedTypes  BY <2>1, InputsAssumption
    <3>2. st.p + size - 1 = q + 1 + m  BY <1>4, <1>5, <1>6, <1>7, <1>9, <3>1
    <3>3. SubSeq(a, q + 1 + 1, q + 1 + m) = d
      <4>1. PICK r : r = q + 1  OBVIOUS
      <4>2. StandsAt(a, r, Bare(t, d))  BY <1>4, <4>1
      <4>3. SubSeq(a, r + 1, r + Len(d)) = d  BY <3>1, <4>2, UnsizedEnds
      <4> QED BY <1>2, <4>1, <4>3
    <3>4. text = d  BY <1>8, <3>2, <3>3
    <3> QED BY <3>4
  <2>2. CASE t \notin TextTypes  BY <2>2 DEF Art!PrintSection
  <2> QED BY <2>1, <2>2
<1>11. Art!PrintNext(a, st)
         = IF st.p > Len(a) THEN st
           ELSE [p |-> st.p + 1 + size,
                 shown |-> st.shown \o (IF st.p = 1 THEN <<>> ELSE <<"br">>)
                           \o Art!PrintSection(a[st.p], text)]
  BY DEF Art!PrintNext, size
<1> HIDE DEF text
<1>12. n >= 2  BY <1>5, <1>6
<1>13. ~(st.p > Len(a))  BY <1>3, <1>4, <1>5, <1>7, <1>12
<1>14. st.p + 1 + size = q + n + 1 /\ (st.p = 1 <=> q = 0)  BY <1>4, <1>5, <1>7, <1>9
<1>15. a[st.p] = t  BY <1>4, <1>7
<1>16. Art!PrintNext(a, st)
         = [p |-> q + n + 1,
            shown |-> x \o (IF q = 0 THEN <<>> ELSE <<"br">>) \o Art!PrintSection(t, d)]
  BY <1>7, <1>10, <1>11, <1>13, <1>14, <1>15
<1> QED BY <1>1, <1>16 DEF st, PrintsNext

SearchesNextOfSame(a, q, t, d, little, x) ==
    Art!SearchNextOfSame(a, [p |-> q + 1, texts |-> x], t, little)
        = [p |-> q + Len(Bare(t, d)) + 1, texts |-> x \cup (IF t \in TextTypes THEN {d} ELSE {})]

LEMMA SearchNextOfSameIs ==
    ASSUME NEW t, NEW d, IsSection(t, d), NEW a \in Seq(Nat), NEW q, StandsAt(a, q, Bare(t, d)),
           NEW little, Readable(t, little), NEW x
    PROVE  SearchesNextOfSame(a, q, t, d, little, x)
<1> DEFINE st == [p |-> q + 1, texts |-> x]
           size == IF st.p > Len(a) \/ (t \in SizedTypes /\ st.p = Len(a))
                   THEN Len(a) ELSE Art!SizeOfSection(a, st.p, t, little)
           text == SubSeq(a, st.p, st.p + size - 2)
<1>1. PICK n : n = Len(Bare(t, d))  OBVIOUS
<1>2. PICK m : m = Len(d)  OBVIOUS
<1>3. PICK e : e = Len(a)  OBVIOUS
<1>4. q \in Nat /\ n \in Nat /\ m \in Nat /\ e \in Nat /\ q + n <= e
  BY <1>1, <1>2, <1>3, BareIs, LenProperties DEF StandsAt
<1>5. (t \in SizedTypes => n = m + 2) /\ (t \notin SizedTypes => n = m + 1)
  BY <1>1, <1>2, BareIs
<1>6. st.p = q + 1 /\ st.texts = x  OBVIOUS
<1> HIDE DEF st
<1>7. ~(st.p > e \/ (t \in SizedTypes /\ st.p = e))  BY <1>4, <1>5, <1>6
<1>8. size = n
  <2>1. Art!SizeOfSection(a, q + 1, t, little) = n  BY <1>1, SectionEnds
  <2> QED BY <1>3, <1>6, <1>7, <2>1
<1> HIDE DEF size
<1>9. t \in TextTypes => text = d
  <2>1. SUFFICES ASSUME t \in TextTypes PROVE text = d  OBVIOUS
  <2>2. t \notin SizedTypes  BY <2>1, InputsAssumption
  <2>3. st.p + size - 2 = q + m  BY <1>4, <1>5, <1>6, <1>8, <2>2
  <2>4. SubSeq(a, q + 1, q + m) = d  BY <1>2, <2>2, UnsizedEnds
  <2> QED BY <1>6, <2>3, <2>4
<1>10. Art!SearchNextOfSame(a, st, t, little)
         = [p |-> st.p + size,
            texts |-> st.texts \cup (IF t \in TextTypes THEN {text} ELSE {})]
  BY DEF Art!SearchNextOfSame, size
<1> HIDE DEF text
<1>11. st.p + size = q + n + 1  BY <1>4, <1>6, <1>8
<1>12. Art!SearchNextOfSame(a, st, t, little)
         = [p |-> q + n + 1, texts |-> x \cup (IF t \in TextTypes THEN {d} ELSE {})]
  BY <1>6, <1>9, <1>10, <1>11
<1> QED BY <1>1, <1>12 DEF st, SearchesNextOfSame

SearchesNext(a, q, t, d, little, x) ==
    Art!SearchNext(a, [p |-> q + 1, texts |-> x], little)
        = [p |-> q + Len(WithType(t, d)) + 1,
           texts |-> x \cup (IF t \in TextTypes THEN {<<t>> \o d} ELSE {})]

LEMMA SearchNextIs ==
    ASSUME NEW t, NEW d, IsSection(t, d), NEW a \in Seq(Nat), NEW q, StandsAt(a, q, WithType(t, d)),
           t \notin SizedTypes, NEW little, NEW x
    PROVE  SearchesNext(a, q, t, d, little, x)
<1> DEFINE st == [p |-> q + 1, texts |-> x]
           size == IF a[st.p] \in SizedTypes
                   THEN (IF st.p = Len(a) THEN 1 ELSE Art!get_uint32(a, st.p, little) + Art!SizeBytes)
                   ELSE Art!EndOfString(a, st.p) + 1 - st.p
           text == SubSeq(a, st.p, st.p + size - 2)
<1>1. PICK n : n = Len(WithType(t, d))  OBVIOUS
<1>2. PICK y : y = <<t>> \o d  OBVIOUS
<1>3. PICK e : e = Len(a)  OBVIOUS
<1>4. PICK z : z = <<Art!NUL>>  OBVIOUS
<1>5. PICK u : u = <<t>>  OBVIOUS
<1>6. PICK m : m = Len(d)  OBVIOUS
<1>7. /\ u \in Seq(Nat) /\ Len(u) = 1 /\ u[1] = t /\ t # Art!NUL /\ z \in Seq(Nat) /\ Len(z) = 1
      /\ d \in Seq(Nat) /\ m \in Nat /\ e \in Nat /\ \A i \in 1 .. m : d[i] # Art!NUL
  BY <1>3, <1>4, <1>5, <1>6, LenProperties DEF IsSection, Art!NUL
<1>8. /\ y \in Seq(Nat) /\ Len(y) = 1 + m
      /\ \A i \in 1 .. 1 + m : y[i] = IF i <= 1 THEN u[i] ELSE d[i - 1]
  BY <1>2, <1>5, <1>6, <1>7, ConcatProperties
<1>9. WithType(t, d) = y \o z
  <2>1. WithType(t, d) = u \o (d \o z)  BY <1>4, <1>5 DEF WithType, Bare
  <2>2. u \o (d \o z) = (u \o d) \o z
    <3>1. u \in Seq(Nat) /\ d \in Seq(Nat) /\ z \in Seq(Nat)  BY <1>7
    <3> QED BY <3>1, ConcatAssociative
  <2> QED BY <1>2, <1>5, <2>1, <2>2
<1>10. n = m + 2 /\ q \in Nat /\ q + n <= e /\ a[q + 1] = t
  <2>1. Len(y \o z) = Len(y) + Len(z)  BY <1>7, <1>8, ConcatProperties
  <2>2. n = m + 2  BY <1>1, <1>7, <1>8, <1>9, <2>1
  <2>3. q \in Nat /\ a[q + 1] = t  BY TypedIs
  <2>4. q + n <= e  BY <1>1, <1>3 DEF StandsAt
  <2> QED BY <2>2, <2>3, <2>4
<1>11. \A i \in 1 .. Len(y) : y[i] # Art!NUL
  <2>1. ASSUME NEW i \in 1 .. 1 + m PROVE y[i] # Art!NUL
    <3>1. CASE i = 1  BY <1>7, <1>8, <3>1
    <3>2. CASE i # 1
      <4>1. i - 1 \in 1 .. m /\ ~(i <= 1)  BY <1>7, <3>2
      <4>2. y[i] = d[i - 1]  BY <1>8, <4>1
      <4> QED BY <1>7, <4>1, <4>2
    <3> QED BY <3>1, <3>2
  <2> QED BY <1>8, <2>1
<1>12. Art!EndOfString(a, q + 1) = q + 1 + Len(y) /\ SubSeq(a, q + 1, q + Len(y)) = y
  <2>1. StandsAt(a, q, y \o z)  BY <1>9
  <2>2. Art!EndOfString(a, q + 1) = q + 1 + Len(y)  BY <1>4, <1>8, <1>11, <2>1, TextEnds
  <2>3. StandsAt(a, q, y)  BY <1>7, <1>8, <2>1, StandsSplit
  <2> QED BY <1>8, <2>2, <2>3, StandsRead
<1>13. st.p = q + 1 /\ st.texts = x  OBVIOUS
<1> HIDE DEF st
<1>14. size = n
  <2>1. size = q + 1 + (1 + m) + 1 - (q + 1)  BY <1>8, <1>10, <1>12, <1>13
  <2>2. q + 1 + (1 + m) + 1 - (q + 1) = n  BY <1>7, <1>10
  <2> QED BY <2>1, <2>2
<1> HIDE DEF size
<1>15. text = y
  <2>1. st.p + size - 2 = q + (1 + m)  BY <1>7, <1>10, <1>13, <1>14
  <2> QED BY <1>8, <1>12, <1>13, <2>1
<1>16. Art!SearchNext(a, st, little)
         = IF st.p > Len(a) THEN st
           ELSE [p |-> st.p + size,
                 texts |-> st.texts \cup (IF a[st.p] \in TextTypes THEN {text} ELSE {})]
  BY DEF Art!SearchNext, size
<1> HIDE DEF text
<1>17. ~(st.p > Len(a)) /\ st.p + size = q + n + 1
  <2>0. q \in Nat /\ n \in Nat /\ m \in Nat /\ e \in Nat /\ n = m + 2 /\ q + n <= e  BY <1>7, <1>10
  <2>1. q + 1 <= e /\ q + 1 + n = q + n + 1  BY <2>0
  <2>2. ~(st.p > e)  BY <2>0, <1>13, <2>1
  <2> QED BY <1>3, <1>13, <1>14, <2>1, <2>2
<1>18. a[st.p] = t  BY <1>10, <1>13
<1>19. Art!SearchNext(a, st, little)
         = [p |-> q + n + 1, texts |-> x \cup (IF t \in TextTypes THEN {y} ELSE {})]
  BY <1>13, <1>15, <1>16, <1>17, <1>18
<1> QED BY <1>1, <1>2, <1>19 DEF st, SearchesNext

-----------------------------------------------------------------------------
\* Each piece stands in the article behind those before it; E are their ends.
EndAt(E, a, pieces, k) ==
    E[k] = E[k - 1] + Len(pieces[k]) /\ StandsAt(a, E[k - 1], pieces[k])
StandIn(E, a, pieces) ==
    /\ E \in [0 .. Len(pieces) -> Nat] /\ E[0] = 0 /\ E[Len(pieces)] = Len(a)
    /\ \A k \in 1 .. Len(pieces) : EndAt(E, a, pieces, k)

LEMMA PiecesStand ==
    ASSUME NEW pieces \in Seq(Seq(Nat))
    PROVE  \E E : StandIn(E, FlattenSeq(pieces), pieces)
<1>1. PICK F : Laid(F, pieces, Nat)  BY FlattenIsLaid
<1>2. PICK n : n = Len(pieces)  OBVIOUS
<1>3. PICK a : a = FlattenSeq(pieces)  OBVIOUS
<1>4. n \in Nat  BY <1>2, LenProperties
<1>5. /\ F \in [0 .. n -> Seq(Nat)] /\ F[0] = <<>> /\ F[n] = a
      /\ \A k \in 1 .. n : LiesAt(F, pieces, k)
  BY <1>1, <1>2, <1>3 DEF Laid
<1> DEFINE E == [k \in 0 .. n |-> Len(F[k])]
<1>6. \A k \in 0 .. n : E[k] = Len(F[k]) /\ E[k] \in Nat
  <2>1. ASSUME NEW k \in 0 .. n PROVE E[k] = Len(F[k]) /\ E[k] \in Nat
    <3>1. F[k] \in Seq(Nat)  BY <1>5
    <3>2. Len(F[k]) \in Nat  BY <3>1, LenProperties
    <3> QED BY <3>2
  <2> QED BY <2>1
<1>7. E \in [0 .. n -> Nat] /\ E[0] = 0 /\ E[n] = Len(a)
  <2>1. 0 \in 0 .. n /\ n \in 0 .. n  BY <1>4
  <2>2. Len(<<>>) = 0  BY EmptySeq
  <2>3. E \in [0 .. n -> Nat]  BY <1>6
  <2> QED BY <1>5, <1>6, <2>1, <2>2, <2>3
<1> HIDE DEF E
<1>8. ASSUME NEW k \in 1 .. n PROVE EndAt(E, a, pieces, k)
  <2>1. k \in 0 .. n /\ k - 1 \in 0 .. n  BY <1>4
  <2>2. E[k] = Len(F[k]) /\ E[k - 1] = Len(F[k - 1]) /\ E[k - 1] \in Nat  BY <1>6, <2>1
  <2>3. LiesAt(F, pieces, k)  BY <1>5
  <2>4. PICK x : x = pieces[k]  OBVIOUS
  <2>5. PICK e : e = E[k - 1]  OBVIOUS
  <2>6. /\ E[k] = e + Len(x) /\ E[k] <= Len(a)
        /\ \A j \in 1 .. Len(x) : a[e + j] = x[j]
    BY <1>3, <2>2, <2>3, <2>4, <2>5 DEF LiesAt
  <2>7. StandsAt(a, e, x)  BY <2>2, <2>5, <2>6 DEF StandsAt
  <2> QED BY <2>4, <2>5, <2>6, <2>7 DEF EndAt
<1>9. StandIn(E, a, pieces)  BY <1>2, <1>7, <1>8 DEF StandIn
<1> QED BY <1>3, <1>9

-----------------------------------------------------------------------------
\* The articles of sections.
Sectioned(ss) ==
    Len(ss) \in Nat \ {0} /\ \A i \in 1 .. Len(ss) : IsSection(ss[i].type, ss[i].data)

TypedPieces(ss) == [i \in 1 .. Len(ss) |-> <<ss[i].type>> \o Art!Body(ss[i], FALSE)]
BarePieces(ss) == [i \in 1 .. Len(ss) |-> Art!Body(ss[i], i = Len(ss))]

LEMMA SectionsFlatten ==
    \A ss : /\ Art!ArticleOf(ss) = FlattenSeq(TypedPieces(ss))
            /\ Art!ArticleOfSameTypes(ss) = FlattenSeq(BarePieces(ss))
BY DEF Art!ArticleOf, Art!ArticleOfSameTypes, Art!FlattenSeq, FlattenSeq, TypedPieces, BarePieces

LEMMA BodyIs ==
    ASSUME NEW s, IsSection(s.type, s.data)
    PROVE  Art!Body(s, FALSE) = Bare(s.type, s.data) /\ Art!Body(s, TRUE) = s.data
<1>1. Art!Body(s, FALSE) = Bare(s.type, s.data)  BY DEF Art!Body, Bare
<1>2. PICK d : d = s.data  OBVIOUS
<1>3. d \in Seq(Nat)  BY <1>2 DEF IsSection
<1>4. d \o <<>> = d /\ <<>> \o d = d  BY <1>3, ConcatEmptySeq
<1> QED BY <1>1, <1>2, <1>4 DEF Art!Body

LEMMA PiecesAre ==
    ASSUME NEW ss, Sectioned(ss), NEW n, n = Len(ss)
    PROVE  /\ TypedPieces(ss) \in Seq(Seq(Nat)) /\ Len(TypedPieces(ss)) = n
           /\ BarePieces(ss) \in Seq(Seq(Nat)) /\ Len(BarePieces(ss)) = n
           /\ \A i \in 1 .. n : TypedPieces(ss)[i] = WithType(ss[i].type, ss[i].data)
           /\ \A i \in 1 .. n : i # n => BarePieces(ss)[i] = Bare(ss[i].type, ss[i].data)
           /\ BarePieces(ss)[n] = ss[n].data
<1>1. n \in Nat \ {0}  BY DEF Sectioned
<1> DEFINE T(i) == <<ss[i].type>> \o Art!Body(ss[i], FALSE)
           B(i) == Art!Body(ss[i], i = n)
<1>2. TypedPieces(ss) = [i \in 1 .. n |-> T(i)] /\ BarePieces(ss) = [i \in 1 .. n |-> B(i)]
  BY DEF TypedPieces, BarePieces
<1>3. ASSUME NEW i \in 1 .. n
      PROVE  /\ T(i) = WithType(ss[i].type, ss[i].data) /\ T(i) \in Seq(Nat)
             /\ i # n => B(i) = Bare(ss[i].type, ss[i].data)
             /\ i = n => B(i) = ss[i].data
             /\ B(i) \in Seq(Nat)
  <2>1. PICK s : s = ss[i]  OBVIOUS
  <2>2. IsSection(s.type, s.data)  BY <2>1 DEF Sectioned
  <2>3. Art!Body(s, FALSE) = Bare(s.type, s.data) /\ Art!Body(s, TRUE) = s.data  BY <2>2, BodyIs
  <2>4. T(i) = WithType(s.type, s.data)  BY <2>1, <2>3 DEF WithType
  <2>5. WithType(s.type, s.data) \in Seq(Nat) /\ Bare(s.type, s.data) \in Seq(Nat) /\ s.data \in Seq(Nat)
    BY <2>2, TypedLength, BareIs DEF IsSection
  <2>6. CASE i = n
    <3>1. B(i) = Art!Body(s, TRUE)  BY <2>1, <2>6
    <3> QED BY <2>1, <2>3, <2>4, <2>5, <2>6, <3>1
  <2>7. CASE i # n
    <3>1. B(i) = Art!Body(s, FALSE)  BY <2>1, <2>7
    <3> QED BY <2>1, <2>3, <2>4, <2>5, <2>7, <3>1
  <2> QED BY <2>6, <2>7
<1> HIDE DEF T, B
<1>4. n \in 1 .. n  BY <1>1
<1>5. TypedPieces(ss) \in [1 .. n -> Seq(Nat)] /\ BarePieces(ss) \in [1 .. n -> Seq(Nat)]
  BY <1>2, <1>3
<1>6. /\ TypedPieces(ss) \in Seq(Seq(Nat)) /\ Len(TypedPieces(ss)) = n
      /\ BarePieces(ss) \in Seq(Seq(Nat)) /\ Len(BarePieces(ss)) = n
  <2>1. ASSUME NEW p \in [1 .. n -> Seq(Nat)] PROVE p \in Seq(Seq(Nat)) /\ Len(p) = n
    <3>1. n \in Nat  BY <1>1
    <3>2. p \in Seq(Seq(Nat))  BY <3>1, SeqDef
    <3>3. DOMAIN p = 1 .. n  OBVIOUS
    <3> QED BY <3>1, <3>2, <3>3
  <2> QED BY <1>5, <2>1
<1>7. \A i \in 1 .. n : TypedPieces(ss)[i] = T(i) /\ BarePieces(ss)[i] = B(i)  BY <1>2
<1> QED BY <1>3, <1>4, <1>6, <1>7

-----------------------------------------------------------------------------
\* What print_data shows of an article with types.
ShownPieces(ss) ==
    [i \in 1 .. Len(ss) |->
        (IF i = 1 THEN <<>> ELSE <<"br">>) \o Art!PrintSection(ss[i].type, ss[i].data)]

\* loop are the states of the loop of print_data.
Walks(loop, a) ==
    loop = [k \in 0 .. Len(a) |-> IF k = 0 THEN [p |-> 1, shown |-> <<>>] ELSE Art!PrintNext(a, loop[k - 1])]

LEMMA PrintDataEnds ==
    ASSUME NEW a \in Seq(Nat), NEW H, Walks(H, a)
    PROVE  Art!print_data(a) = H[Len(a)].shown
<1> DEFINE loop == CHOOSE loop : Walks(loop, a)
           S == {k \in 0 .. Len(a) : loop[k] = H[k]}
<1>1. PICK n : n = Len(a)  OBVIOUS
<1>2. n \in Nat  BY <1>1, LenProperties
<1>3. Walks(loop, a)  OBVIOUS
<1>4. Art!print_data(a) = loop[Len(a)].shown  BY DEF Art!print_data, Walks
<1> HIDE DEF loop
<1>5. \A k \in 0 .. n :
        /\ loop[k] = IF k = 0 THEN [p |-> 1, shown |-> <<>>] ELSE Art!PrintNext(a, loop[k - 1])
        /\ H[k] = IF k = 0 THEN [p |-> 1, shown |-> <<>>] ELSE Art!PrintNext(a, H[k - 1])
  BY <1>1, <1>3 DEF Walks
<1>6. 0 \in S  BY <1>1, <1>2, <1>5
<1>7. ASSUME NEW k \in 1 .. n, k - 1 \in S PROVE k \in S
  <2>1. k \in 0 .. n /\ k # 0  BY <1>2
  <2>2. loop[k - 1] = H[k - 1]  BY <1>7
  <2>3. loop[k] = H[k]  BY <1>5, <2>1, <2>2
  <2> QED BY <1>1, <2>1, <2>3
<1>8. n \in S
  <2> HIDE DEF S
  <2>1. \A k \in 0 .. n : k \in S  BY <1>2, <1>6, <1>7, UptoInduction
  <2> QED BY <1>2, <2>1
<1> QED BY <1>1, <1>4, <1>8

\* Each section of an article with types stands behind the others, and ends after
\* at least as many bytes as there are sections so far.
TypedStand(E, a, ss, n) ==
    /\ \A k \in 0 .. n : E[k] \in Nat /\ k <= E[k]
    /\ \A k \in 1 .. n : /\ StandsAt(a, E[k - 1], WithType(ss[k].type, ss[k].data))
                         /\ E[k] = E[k - 1] + Len(WithType(ss[k].type, ss[k].data))
                         /\ IsSection(ss[k].type, ss[k].data)
    /\ n \in Nat /\ n <= Len(a) /\ E[0] = 0 /\ E[n] = Len(a)

LEMMA SectionsAreLong ==
    ASSUME NEW ss, Sectioned(ss), NEW a \in Seq(Nat), NEW E, StandIn(E, a, TypedPieces(ss))
    PROVE  TypedStand(E, a, ss, Len(ss))
<1>0. PICK n : n = Len(ss)  OBVIOUS
<1>1. /\ n \in Nat /\ n \in 0 .. n /\ Len(TypedPieces(ss)) = n
      /\ \A i \in 1 .. n : TypedPieces(ss)[i] = WithType(ss[i].type, ss[i].data)
      /\ \A i \in 1 .. n : IsSection(ss[i].type, ss[i].data)
  <2>1. n \in Nat /\ \A i \in 1 .. n : IsSection(ss[i].type, ss[i].data)  BY <1>0 DEF Sectioned
  <2>2. /\ Len(TypedPieces(ss)) = n
        /\ \A i \in 1 .. n : TypedPieces(ss)[i] = WithType(ss[i].type, ss[i].data)
    BY <1>0, PiecesAre
  <2> QED BY <2>1, <2>2
<1>2. /\ E \in [0 .. n -> Nat] /\ E[0] = 0 /\ E[n] = Len(a)
      /\ \A k \in 1 .. n : EndAt(E, a, TypedPieces(ss), k)
  BY <1>1 DEF StandIn
<1>3. ASSUME NEW k \in 1 .. n
      PROVE  /\ StandsAt(a, E[k - 1], WithType(ss[k].type, ss[k].data))
             /\ E[k] = E[k - 1] + Len(WithType(ss[k].type, ss[k].data))
             /\ IsSection(ss[k].type, ss[k].data)
             /\ E[k - 1] \in Nat /\ E[k] \in Nat /\ E[k] >= E[k - 1] + 1
  <2>1. PICK x : x = WithType(ss[k].type, ss[k].data)  OBVIOUS
  <2>2. TypedPieces(ss)[k] = x /\ IsSection(ss[k].type, ss[k].data)  BY <1>1, <2>1
  <2>3. E[k] = E[k - 1] + Len(x) /\ StandsAt(a, E[k - 1], x)  BY <1>2, <2>2 DEF EndAt
  <2>4. k - 1 \in 0 .. n /\ k \in 0 .. n  BY <1>1
  <2>5. E[k - 1] \in Nat /\ E[k] \in Nat  BY <1>2, <2>4
  <2>6. Len(x) \in Nat /\ Len(x) >= 1  BY <2>1, <2>2, TypedLength, BareIs
  <2>7. PICK l : l = Len(x)  OBVIOUS
  <2>8. E[k] >= E[k - 1] + 1  BY <2>3, <2>5, <2>6, <2>7
  <2> QED BY <2>1, <2>2, <2>3, <2>5, <2>8
<1> DEFINE S == {k \in 0 .. n : k <= E[k]}
<1>4. 0 \in S  BY <1>1, <1>2
<1>5. ASSUME NEW k \in 1 .. n, k - 1 \in S PROVE k \in S
  <2>1. k - 1 <= E[k - 1] /\ k \in 0 .. n  BY <1>1, <1>5
  <2>2. E[k - 1] \in Nat /\ E[k] \in Nat /\ E[k] >= E[k - 1] + 1  BY <1>3
  <2>3. k <= E[k]  BY <2>1, <2>2
  <2> QED BY <2>1, <2>3
<1>6. \A k \in 0 .. n : k \in S
  <2> HIDE DEF S
  <2> QED BY <1>1, <1>4, <1>5, UptoInduction
<1>7. \A k \in 0 .. n : E[k] \in Nat /\ k <= E[k]  BY <1>2, <1>6
<1>8. n <= Len(a)  BY <1>1, <1>2, <1>7
<1> QED BY <1>0, <1>1, <1>2, <1>3, <1>7, <1>8 DEF TypedStand

\* The client shows the sections in order.
LEMMA PrintDataIs ==
    ASSUME NEW ss, Sectioned(ss)
    PROVE  Art!print_data(Art!ArticleOf(ss)) = ShownOf(ss)
<1>1. PICK n : n = Len(ss)  OBVIOUS
<1>2. PICK a : a = Art!ArticleOf(ss)  OBVIOUS
<1>3. TypedPieces(ss) \in Seq(Seq(Nat)) /\ n \in Nat \ {0}  BY <1>1, PiecesAre DEF Sectioned
<1>4. a = FlattenSeq(TypedPieces(ss))  BY <1>2, SectionsFlatten
<1>5. a \in Seq(Nat)  BY <1>3, <1>4, FlattenType
<1>6. PICK E : StandIn(E, a, TypedPieces(ss))  BY <1>3, <1>4, PiecesStand
<1>7. /\ \A k \in 0 .. n : E[k] \in Nat /\ k <= E[k]
      /\ \A k \in 1 .. n : /\ StandsAt(a, E[k - 1], WithType(ss[k].type, ss[k].data))
                           /\ E[k] = E[k - 1] + Len(WithType(ss[k].type, ss[k].data))
                           /\ IsSection(ss[k].type, ss[k].data)
      /\ n <= Len(a) /\ E[0] = 0 /\ E[n] = Len(a)
  <2>1. TypedStand(E, a, ss, n)  BY <1>1, <1>5, <1>6, SectionsAreLong
  <2> QED BY <2>1 DEF TypedStand
<1> DEFINE Items == {"br"} \cup {[type |-> ss[i].type, data |-> ss[i].data] : i \in 1 .. n}
           Q == ShownPieces(ss)
           Break(i) == IF i = 1 THEN <<>> ELSE <<"br">>
           Shows(i) == Art!PrintSection(ss[i].type, ss[i].data)
<1>8. Len(Q) = n /\ Q \in Seq(Seq(Items)) /\ \A i \in 1 .. n : Q[i] = Break(i) \o Shows(i)
  <2>1. ASSUME NEW i \in 1 .. n PROVE Break(i) \in Seq(Items) /\ Shows(i) \in Seq(Items)
    <3>1. PICK r : r = [type |-> ss[i].type, data |-> ss[i].data]  OBVIOUS
    <3>2. r \in Items /\ "br" \in Items  BY <3>1
    <3> HIDE DEF Items
    <3>3. <<>> \in Seq(Items) /\ <<r>> \in Seq(Items) /\ <<"br">> \in Seq(Items)  BY <3>2, EmptySeq
    <3>4. Shows(i) = <<r>> \/ Shows(i) = <<>>  BY <3>1 DEF Art!PrintSection
    <3> QED BY <3>3, <3>4
  <2> HIDE DEF Items, Shows, Break
  <2>2. \A i \in 1 .. n : Break(i) \o Shows(i) \in Seq(Items)  BY <2>1, ConcatProperties
  <2>3. Q = [i \in 1 .. n |-> Break(i) \o Shows(i)]  BY <1>1 DEF ShownPieces, Break, Shows
  <2> HIDE DEF Q
  <2>4. Q \in [1 .. n -> Seq(Items)]  BY <2>2, <2>3
  <2>5. n \in Nat  BY <1>3
  <2>6. Q \in Seq(Seq(Items))  BY <2>4, <2>5, SeqDef
  <2>7. DOMAIN Q = 1 .. n  BY <2>3
  <2>8. Len(Q) = n  BY <2>5, <2>6, <2>7
  <2> QED BY <2>3, <2>6, <2>8
<1>9. \A i \in 1 .. n : Break(i) \in Seq(Items) /\ Shows(i) \in Seq(Items)
  <2>1. ASSUME NEW i \in 1 .. n PROVE Break(i) \in Seq(Items) /\ Shows(i) \in Seq(Items)
    <3>1. PICK r : r = [type |-> ss[i].type, data |-> ss[i].data]  OBVIOUS
    <3>2. r \in Items /\ "br" \in Items  BY <3>1
    <3> HIDE DEF Items
    <3>3. <<>> \in Seq(Items) /\ <<r>> \in Seq(Items) /\ <<"br">> \in Seq(Items)  BY <3>2, EmptySeq
    <3>4. Shows(i) = <<r>> \/ Shows(i) = <<>>  BY <3>1 DEF Art!PrintSection
    <3> QED BY <3>3, <3>4
  <2> QED BY <2>1
<1>10. ShownOf(ss) = FlattenSeq(Q)  BY <1>1 DEF ShownOf, ShownPieces
<1> HIDE DEF Q, Items, Shows
<1>11. PICK G : Laid(G, Q, Items)  BY <1>8, FlattenIsLaid
<1>12. /\ G \in [0 .. n -> Seq(Items)] /\ G[0] = <<>> /\ G[n] = FlattenSeq(Q)
       /\ \A k \in 1 .. n : G[k] = G[k - 1] \o (Break(k) \o Shows(k))
  BY <1>8, <1>11 DEF Laid, LiesAt
<1>13. PICK N : N = Len(a)  OBVIOUS
<1>14. N \in Nat /\ n <= N /\ n \in Nat  BY <1>3, <1>5, <1>7, <1>13, LenProperties
<1> DEFINE cell(k) == [p |-> E[k] + 1, shown |-> G[k]]
           H == [k \in 0 .. N |-> IF k <= n THEN cell(k) ELSE cell(n)]
<1>15. ASSUME NEW k \in 1 .. n PROVE cell(k) = Art!PrintNext(a, cell(k - 1))
  <2>1. PICK t : t = ss[k].type  OBVIOUS
  <2>2. PICK d : d = ss[k].data  OBVIOUS
  <2>3. PICK e : e = E[k - 1]  OBVIOUS
  <2>4. PICK g : g = G[k - 1]  OBVIOUS
  <2>5. k - 1 \in 0 .. n /\ k \in 0 .. n /\ k \in Nat  BY <1>14
  <2>6. StandsAt(a, e, WithType(t, d)) /\ E[k] = e + Len(WithType(t, d)) /\ IsSection(t, d)
    BY <1>7, <2>1, <2>2, <2>3
  <2>7. e = 0 <=> k = 1
    <3>1. e \in Nat /\ k - 1 <= e  BY <1>7, <2>3, <2>5
    <3>2. k = 1 => e = 0  BY <1>7, <2>3
    <3> QED BY <2>5, <3>1, <3>2
  <2>8. (IF e = 0 THEN <<>> ELSE <<"br">>) = Break(k)  BY <2>7
  <2>9. Art!PrintNext(a, [p |-> e + 1, shown |-> g])
          = [p |-> e + Len(WithType(t, d)) + 1, shown |-> g \o Break(k) \o Shows(k)]
    <3>1. Art!PrintNext(a, [p |-> e + 1, shown |-> g])
            = [p |-> e + Len(WithType(t, d)) + 1,
               shown |-> g \o (IF e = 0 THEN <<>> ELSE <<"br">>) \o Art!PrintSection(t, d)]
      <4>1. StandsAt(a, e, WithType(t, d)) /\ IsSection(t, d)  BY <2>6
      <4>2. PrintsNext(a, e, t, d, g)  BY <1>5, <4>1, PrintNextIs
      <4> QED BY <4>2 DEF PrintsNext
    <3> QED BY <2>1, <2>2, <2>8, <3>1 DEF Shows
  <2>10. G[k] = g \o Break(k) \o Shows(k)
    <3>1. g \in Seq(Items) /\ Break(k) \in Seq(Items) /\ Shows(k) \in Seq(Items)
      BY <1>9, <1>12, <2>4, <2>5
    <3>2. G[k] = g \o (Break(k) \o Shows(k))  BY <1>12, <2>4
    <3> HIDE DEF Break
    <3> QED BY <3>1, <3>2, ConcatAssociative
  <2> HIDE DEF Break
  <2> QED BY <2>3, <2>4, <2>6, <2>9, <2>10
<1>16. cell(n) = Art!PrintNext(a, cell(n))
  <2>1. cell(n).p = N + 1  BY <1>7, <1>13
  <2>2. cell(n).p > Len(a)  BY <1>13, <1>14, <2>1
  <2> HIDE DEF cell
  <2> QED BY <2>2 DEF Art!PrintNext
<1>17. cell(0) = [p |-> 1, shown |-> <<>>]  BY <1>7, <1>12
<1> HIDE DEF cell
<1>18. ASSUME NEW k \in 0 .. N
       PROVE  H[k] = IF k = 0 THEN [p |-> 1, shown |-> <<>>] ELSE Art!PrintNext(a, H[k - 1])
  <2>1. CASE k = 0  BY <1>14, <1>17, <2>1
  <2>2. CASE k \in 1 .. n
    <3>1. k # 0 /\ k - 1 \in 0 .. N /\ k - 1 <= n /\ k <= n  BY <1>14, <2>2
    <3>2. H[k] = cell(k) /\ H[k - 1] = cell(k - 1)  BY <3>1
    <3> QED BY <1>15, <2>2, <3>1, <3>2
  <2>3. CASE k > n
    <3>1. k # 0 /\ k - 1 \in 0 .. N /\ n <= k - 1 /\ ~(k <= n)  BY <1>14, <2>3
    <3>2. H[k] = cell(n)  BY <3>1
    <3>3. H[k - 1] = cell(n)
      <4>1. CASE k - 1 <= n
        <5>1. k - 1 = n  BY <1>14, <3>1, <4>1
        <5> QED BY <3>1, <4>1, <5>1
      <4>2. CASE ~(k - 1 <= n)  BY <3>1, <4>2
      <4> QED BY <4>1, <4>2
    <3> QED BY <1>16, <3>1, <3>2, <3>3
  <2> QED BY <1>14, <2>1, <2>2, <2>3
<1>19. Walks(H, a)
  <2>1. PICK h : h = H  OBVIOUS
  <2>2. h = [k \in 0 .. N |-> h[k]]  BY <2>1
  <2>3. \A k \in 0 .. N :
          h[k] = IF k = 0 THEN [p |-> 1, shown |-> <<>>] ELSE Art!PrintNext(a, h[k - 1])
    BY <1>18, <2>1
  <2> HIDE DEF H
  <2>4. h = [k \in 0 .. N |->
               IF k = 0 THEN [p |-> 1, shown |-> <<>>] ELSE Art!PrintNext(a, h[k - 1])]
    BY <2>2, <2>3
  <2> QED BY <1>13, <2>1, <2>4 DEF Walks
<1>20. H[N].shown = G[n]
  <2>1. N \in 0 .. N /\ (N <= n => N = n)  BY <1>14
  <2>2. H[N] = cell(n)  BY <2>1
  <2> QED BY <2>2 DEF cell
<1> HIDE DEF H
<1>21. Art!print_data(a) = H[N].shown  BY <1>5, <1>13, <1>19, PrintDataEnds
<1> QED BY <1>2, <1>10, <1>12, <1>20, <1>21

-----------------------------------------------------------------------------
\* The same for an article without types.
TypesOf(ss) == [i \in 1 .. Len(ss) |-> ss[i].type]
BareStand(E, a, ss, n) ==
    /\ n \in Nat \ {0} /\ E[0] = 0
    /\ \A k \in 0 .. n : E[k] \in Nat
    /\ \A k \in 1 .. n : IsSection(ss[k].type, ss[k].data)
    /\ \A k \in 1 .. n - 1 : /\ StandsAt(a, E[k - 1], Bare(ss[k].type, ss[k].data))
                             /\ E[k] = E[k - 1] + Len(Bare(ss[k].type, ss[k].data))
    /\ SubSeq(a, E[n - 1] + 1, Len(a)) = ss[n].data

LEMMA BareStands ==
    ASSUME NEW ss, Sectioned(ss), NEW a, a = Art!ArticleOfSameTypes(ss)
    PROVE  a \in Seq(Nat) /\ \E E : BareStand(E, a, ss, Len(ss))
<1>1. PICK n : n = Len(ss)  OBVIOUS
<1>2. n \in Nat \ {0} /\ n \in 1 .. n /\ \A k \in 1 .. n : IsSection(ss[k].type, ss[k].data)
  BY <1>1 DEF Sectioned
<1>3. PICK Q : Q = BarePieces(ss)  OBVIOUS
<1>4. /\ Q \in Seq(Seq(Nat)) /\ Len(Q) = n
      /\ \A i \in 1 .. n : i # n => Q[i] = Bare(ss[i].type, ss[i].data)
      /\ Q[n] = ss[n].data
  BY <1>1, <1>3, PiecesAre
<1>5. a = FlattenSeq(Q)  BY <1>3, SectionsFlatten
<1>6. a \in Seq(Nat)  BY <1>4, <1>5, FlattenType
<1>7. PICK E : StandIn(E, a, Q)  BY <1>4, <1>5, PiecesStand
<1>8. /\ E \in [0 .. n -> Nat] /\ E[0] = 0 /\ E[n] = Len(a)
      /\ \A k \in 1 .. n : EndAt(E, a, Q, k)
  BY <1>4, <1>7 DEF StandIn
<1>9. ASSUME NEW k \in 1 .. n - 1
      PROVE  /\ StandsAt(a, E[k - 1], Bare(ss[k].type, ss[k].data))
             /\ E[k] = E[k - 1] + Len(Bare(ss[k].type, ss[k].data))
  <2>1. k \in 1 .. n /\ k # n  BY <1>2
  <2>2. Q[k] = Bare(ss[k].type, ss[k].data)  BY <1>4, <2>1
  <2> QED BY <1>8, <2>1, <2>2 DEF EndAt
<1>10. SubSeq(a, E[n - 1] + 1, Len(a)) = ss[n].data
  <2>1. PICK d : d = Q[n]  OBVIOUS
  <2>2. PICK e : e = E[n - 1]  OBVIOUS
  <2>3. d \in Seq(Nat)
    <3>1. n \in 1 .. Len(Q)  BY <1>2, <1>4
    <3> QED BY <1>4, <2>1, <3>1, ElementOfSeq
  <2>4. E[n] = e + Len(d) /\ StandsAt(a, e, d)  BY <1>2, <1>8, <2>1, <2>2 DEF EndAt
  <2>5. SubSeq(a, e + 1, e + Len(d)) = d  BY <1>6, <2>3, <2>4, StandsRead
  <2> QED BY <1>4, <1>8, <2>1, <2>2, <2>4, <2>5
<1>11. BareStand(E, a, ss, n)  BY <1>2, <1>8, <1>9, <1>10 DEF BareStand
<1> QED BY <1>1, <1>6, <1>11

\* loop are the states of the loop of GetWordData.
Copies(loop, a, types, little) ==
    loop = [k \in 0 .. Len(types) - 1 |->
            IF k = 0 THEN [p |-> 1, data |-> <<>>] ELSE Art!CopySection(a, loop[k - 1], types[k], little)]

LEMMA GetWordDataEnds ==
    ASSUME NEW a, NEW types, NEW little, NEW n, n \in Nat \ {0}, Len(types) = n, types # <<>>,
           NEW H, Copies(H, a, types, little)
    PROVE  Art!GetWordData(a, types, little)
               = IF H[n - 1] = Art!Astray THEN Art!Astray.data
                 ELSE Art!LastSection(a, H[n - 1], types[n], little)
<1> DEFINE loop == CHOOSE loop : Copies(loop, a, types, little)
           S == {k \in 0 .. n - 1 : loop[k] = H[k]}
<1>1. Copies(loop, a, types, little)  OBVIOUS
<1>2. Art!GetWordData(a, types, little)
        = IF loop[n - 1] = Art!Astray THEN Art!Astray.data
          ELSE Art!LastSection(a, loop[n - 1], types[n], little)
  BY DEF Art!GetWordData, Copies
<1> HIDE DEF loop
<1>3. \A k \in 0 .. n - 1 :
        /\ loop[k] = IF k = 0 THEN [p |-> 1, data |-> <<>>] ELSE Art!CopySection(a, loop[k - 1], types[k], little)
        /\ H[k] = IF k = 0 THEN [p |-> 1, data |-> <<>>] ELSE Art!CopySection(a, H[k - 1], types[k], little)
  BY <1>1 DEF Copies
<1>4. n - 1 \in Nat /\ 0 \in 0 .. n - 1 /\ n - 1 \in 0 .. n - 1  OBVIOUS
<1>5. 0 \in S  BY <1>3, <1>4
<1>6. ASSUME NEW k \in 1 .. n - 1, k - 1 \in S PROVE k \in S
  <2>1. k \in 0 .. n - 1 /\ k # 0  BY <1>4
  <2>2. loop[k - 1] = H[k - 1]  BY <1>6
  <2>3. loop[k] = H[k]  BY <1>3, <2>1, <2>2
  <2> QED BY <2>1, <2>3
<1>7. n - 1 \in S
  <2> HIDE DEF S
  <2>1. PICK m : m = n - 1  OBVIOUS
  <2>2. \A k \in 0 .. m : k \in S  BY <1>4, <1>5, <1>6, <2>1, UptoInduction
  <2> QED BY <1>4, <2>1, <2>2
<1> QED BY <1>2, <1>7

\* Appending three sequences of bytes.
LEMMA ConcatThree ==
    ASSUME NEW x \in Seq(Nat), NEW y \in Seq(Nat), NEW z \in Seq(Nat)
    PROVE  x \o (y \o z) = (x \o y) \o z
BY ConcatAssociative

\* The server fills in the types.
LEMMA GetWordDataIs ==
    ASSUME NEW ss, Sectioned(ss), NEW little, little => Unsized(ss, Len(ss))
    PROVE  Art!GetWordData(Art!ArticleOfSameTypes(ss), TypesOf(ss), little) = Art!ArticleOf(ss)
<1>1. PICK n : n = Len(ss)  OBVIOUS
<1>2. PICK a : a = Art!ArticleOfSameTypes(ss)  OBVIOUS
<1>3. PICK types : types = TypesOf(ss)  OBVIOUS
<1>4. a \in Seq(Nat)  BY <1>2, BareStands
<1>5. PICK E : BareStand(E, a, ss, n)  BY <1>1, <1>2, BareStands
<1>6. n \in Nat \ {0} /\ n \in 1 .. n /\ n - 1 \in Nat  BY <1>5 DEF BareStand
<1>7. types = [i \in 1 .. n |-> ss[i].type]  BY <1>1, <1>3 DEF TypesOf
<1>8. Len(types) = n /\ types # <<>> /\ \A i \in 1 .. n : types[i] = ss[i].type
  <2>1. DOMAIN types = 1 .. n /\ \A i \in 1 .. n : types[i] = ss[i].type  BY <1>7
  <2>2. types \in Seq({ss[i].type : i \in 1 .. n})  BY <1>6, <1>7
  <2>3. Len(types) = n  BY <1>6, <2>1, <2>2
  <2>4. types # <<>>  BY <1>6, <2>3, EmptySeq
  <2> QED BY <2>1, <2>3, <2>4
<1>9. PICK P : P = TypedPieces(ss)  OBVIOUS
<1>10. /\ P \in Seq(Seq(Nat)) /\ Len(P) = n
       /\ \A i \in 1 .. n : P[i] = WithType(ss[i].type, ss[i].data)
  BY <1>1, <1>9, PiecesAre
<1>11. Art!ArticleOf(ss) = FlattenSeq(P)  BY <1>9, SectionsFlatten
<1>12. PICK G : Laid(G, P, Nat)  BY <1>10, FlattenIsLaid
<1>13. /\ G \in [0 .. n -> Seq(Nat)] /\ G[0] = <<>> /\ G[n] = FlattenSeq(P)
       /\ \A k \in 1 .. n : G[k] = G[k - 1] \o P[k]
  BY <1>10, <1>12 DEF Laid, LiesAt
<1>14. ASSUME NEW k \in 1 .. n
       PROVE  /\ G[k] = G[k - 1] \o <<ss[k].type>> \o Bare(ss[k].type, ss[k].data)
              /\ IsSection(ss[k].type, ss[k].data) /\ Readable(ss[k].type, little)
  <2>a. PICK t : t = ss[k].type  OBVIOUS
  <2>b. PICK d : d = ss[k].data  OBVIOUS
  <2>1. IsSection(t, d)  BY <1>5, <2>a, <2>b DEF BareStand
  <2>2. Readable(t, little)  BY <1>1, <2>a DEF Readable, Unsized
  <2>3. k - 1 \in 0 .. n  BY <1>6
  <2>4. PICK g : g = G[k - 1]  OBVIOUS
  <2>5. PICK u : u = <<t>>  OBVIOUS
  <2>6. PICK b : b = Bare(t, d)  OBVIOUS
  <2>7. g \in Seq(Nat) /\ u \in Seq(Nat) /\ b \in Seq(Nat)
    BY <1>13, <2>1, <2>3, <2>4, <2>5, <2>6, BareIs DEF IsSection
  <2>8. G[k] = g \o (u \o b)
    BY <1>10, <1>13, <2>a, <2>b, <2>4, <2>5, <2>6 DEF WithType
  <2>9. g \o (u \o b) = (g \o u) \o b
    BY <2>7, ConcatThree
  <2> QED BY <2>a, <2>b, <2>1, <2>2, <2>4, <2>5, <2>6, <2>8, <2>9
<1> DEFINE cell(k) == [p |-> E[k] + 1, data |-> G[k]]
           H == [k \in 0 .. n - 1 |-> cell(k)]
<1>15. ASSUME NEW k \in 1 .. n - 1
       PROVE  cell(k) = Art!CopySection(a, cell(k - 1), types[k], little)
  <2>1. PICK t : t = ss[k].type  OBVIOUS
  <2>2. PICK d : d = ss[k].data  OBVIOUS
  <2>3. PICK e : e = E[k - 1]  OBVIOUS
  <2>4. PICK g : g = G[k - 1]  OBVIOUS
  <2>5. k \in 1 .. n /\ types[k] = t  BY <1>6, <1>8, <2>1
  <2>6. StandsAt(a, e, Bare(t, d)) /\ E[k] = e + Len(Bare(t, d))
    BY <1>5, <2>1, <2>2, <2>3 DEF BareStand
  <2>7. G[k] = g \o <<t>> \o Bare(t, d) /\ IsSection(t, d) /\ Readable(t, little)
    BY <1>14, <2>1, <2>2, <2>4, <2>5
  <2>8. CopiesNext(a, e, t, d, little, g)  BY <1>4, <2>6, <2>7, CopySectionIs
  <2>9. Art!CopySection(a, [p |-> e + 1, data |-> g], t, little)
          = [p |-> e + Len(Bare(t, d)) + 1, data |-> g \o <<t>> \o Bare(t, d)]
    BY <2>8 DEF CopiesNext
  <2> QED BY <2>3, <2>4, <2>5, <2>6, <2>7, <2>9
<1>16. cell(0) = [p |-> 1, data |-> <<>>]  BY <1>5, <1>13 DEF BareStand
<1> HIDE DEF cell
<1>17. Copies(H, a, types, little)
  <2>1. PICK h : h = H  OBVIOUS
  <2>2. h = [k \in 0 .. n - 1 |-> h[k]]  BY <2>1
  <2>3. \A k \in 0 .. n - 1 :
          h[k] = IF k = 0 THEN [p |-> 1, data |-> <<>>] ELSE Art!CopySection(a, h[k - 1], types[k], little)
    <3>1. ASSUME NEW k \in 0 .. n - 1
          PROVE  h[k] = IF k = 0 THEN [p |-> 1, data |-> <<>>]
                        ELSE Art!CopySection(a, h[k - 1], types[k], little)
      <4>1. CASE k = 0  BY <1>6, <1>16, <2>1, <4>1
      <4>2. CASE k # 0
        <5>1. k \in 1 .. n - 1 /\ k - 1 \in 0 .. n - 1  BY <1>6, <4>2
        <5>2. h[k] = cell(k) /\ h[k - 1] = cell(k - 1)  BY <2>1, <5>1
        <5> QED BY <1>15, <4>2, <5>1, <5>2
      <4> QED BY <4>1, <4>2
    <3> QED BY <3>1
  <2> HIDE DEF H
  <2>4. h = [k \in 0 .. n - 1 |->
               IF k = 0 THEN [p |-> 1, data |-> <<>>] ELSE Art!CopySection(a, h[k - 1], types[k], little)]
    BY <2>2, <2>3
  <2> QED BY <1>8, <2>1, <2>4 DEF Copies
<1>18. H[n - 1] = cell(n - 1)  BY <1>6
<1> HIDE DEF H
<1>19. PICK h : h = cell(n - 1)  OBVIOUS
<1>20. Art!GetWordData(a, types, little)
         = IF h = Art!Astray THEN Art!Astray.data ELSE Art!LastSection(a, h, types[n], little)
  BY <1>6, <1>8, <1>17, <1>18, <1>19, GetWordDataEnds
<1>21. PICK t : t = ss[n].type  OBVIOUS
<1>22. PICK d : d = ss[n].data  OBVIOUS
<1>23. PICK g : g = G[n - 1]  OBVIOUS
<1>24. PICK e : e = E[n - 1]  OBVIOUS
<1>25. h.p = e + 1 /\ h.data = g /\ e \in Nat
  <2>1. n - 1 \in 0 .. n  BY <1>6
  <2>2. e \in Nat  BY <1>5, <1>24, <2>1 DEF BareStand
  <2> QED BY <1>19, <1>23, <1>24, <2>2 DEF cell
<1>26. h # Art!Astray  BY <1>25 DEF Art!Astray
<1>27. SubSeq(a, h.p, Len(a)) = d  BY <1>5, <1>22, <1>24, <1>25 DEF BareStand
<1>28. types[n] = t  BY <1>6, <1>8, <1>21
<1>29. G[n] = g \o <<t>> \o Bare(t, d) /\ Readable(t, little)
  <2>1. PICK k : k = n  OBVIOUS
  <2>2. k \in 1 .. n /\ ss[k].type = t /\ ss[k].data = d  BY <1>6, <1>21, <1>22, <2>1
  <2>3. G[k] = G[k - 1] \o <<t>> \o Bare(t, d) /\ Readable(t, little)  BY <1>14, <2>2
  <2> QED BY <1>23, <2>1, <2>3
<1>30. Art!LastSection(a, h, t, little) = g \o <<t>> \o Bare(t, d)
  <2>1. Art!LastSection(a, h, t, little)
          = g \o <<t>> \o (IF t \in SizedTypes THEN Art!BytesOfHost(Len(d), little) \o d
                           ELSE d \o <<Art!NUL>>)
    BY <1>25, <1>27 DEF Art!LastSection
  <2>2. t \in SizedTypes => Art!BytesOfHost(Len(d), little) = Art!Bytes(Len(d))
    BY <1>29 DEF Readable, Art!BytesOfHost
  <2> QED BY <2>1, <2>2 DEF Bare
<1> QED BY <1>2, <1>3, <1>11, <1>13, <1>20, <1>26, <1>28, <1>29, <1>30

-----------------------------------------------------------------------------
\* The texts among the first k sections, alone and behind their types.
TextsOf(ss, k) == {ss[i].data : i \in {j \in 1 .. k : ss[j].type \in TextTypes}}
TypedTextsOf(ss, k) ==
    {<<ss[i].type>> \o ss[i].data : i \in {j \in 1 .. k : ss[j].type \in TextTypes}}

LEMMA TextsGrow ==
    ASSUME NEW ss, NEW k, k \in Nat \ {0}
    PROVE  /\ TextsOf(ss, 0) = {} /\ TypedTextsOf(ss, 0) = {}
           /\ TextsOf(ss, k) = TextsOf(ss, k - 1)
                  \cup (IF ss[k].type \in TextTypes THEN {ss[k].data} ELSE {})
           /\ TypedTextsOf(ss, k) = TypedTextsOf(ss, k - 1)
                  \cup (IF ss[k].type \in TextTypes THEN {<<ss[k].type>> \o ss[k].data} ELSE {})
<1>1. \A i : i \in 1 .. k <=> i \in 1 .. k - 1 \/ i = k  OBVIOUS
<1>2. 1 .. 0 = {}  OBVIOUS
<1>3. TextsOf(ss, 0) = {} /\ TypedTextsOf(ss, 0) = {}  BY <1>2 DEF TextsOf, TypedTextsOf
<1> DEFINE J(m) == {j \in 1 .. m : ss[j].type \in TextTypes}
<1>4. J(k) = J(k - 1) \cup (IF ss[k].type \in TextTypes THEN {k} ELSE {})  BY <1>1
<1>5. TextsOf(ss, k) = TextsOf(ss, k - 1)
          \cup (IF ss[k].type \in TextTypes THEN {ss[k].data} ELSE {})
  <2>1. TextsOf(ss, k) = {ss[i].data : i \in J(k)} /\ TextsOf(ss, k - 1) = {ss[i].data : i \in J(k - 1)}
    BY DEF TextsOf
  <2> HIDE DEF J
  <2> QED BY <1>4, <2>1
<1>6. TypedTextsOf(ss, k) = TypedTextsOf(ss, k - 1)
          \cup (IF ss[k].type \in TextTypes THEN {<<ss[k].type>> \o ss[k].data} ELSE {})
  <2>1. /\ TypedTextsOf(ss, k) = {<<ss[i].type>> \o ss[i].data : i \in J(k)}
        /\ TypedTextsOf(ss, k - 1) = {<<ss[i].type>> \o ss[i].data : i \in J(k - 1)}
    BY DEF TypedTextsOf
  <2> HIDE DEF J
  <2> QED BY <1>4, <2>1
<1> QED BY <1>3, <1>5, <1>6

\* loop are the states of the loop of SearchData over an article without types.
SearchesSame(loop, a, types, little) ==
    loop = [k \in 0 .. Len(types) - 1 |->
            IF k = 0 THEN [p |-> 1, texts |-> {}] ELSE Art!SearchNextOfSame(a, loop[k - 1], types[k], little)]

LEMMA SearchedInSameEnds ==
    ASSUME NEW a, NEW types, NEW little, NEW n, n \in Nat \ {0}, Len(types) = n,
           NEW H, SearchesSame(H, a, types, little)
    PROVE  Art!SearchedInSame(a, types, little)
               = H[n - 1].texts \cup (IF types[n] \in TextTypes
                                      THEN {SubSeq(a, H[n - 1].p, Len(a))} ELSE {})
<1> DEFINE loop == CHOOSE loop : SearchesSame(loop, a, types, little)
           S == {k \in 0 .. n - 1 : loop[k] = H[k]}
<1>1. SearchesSame(loop, a, types, little)  OBVIOUS
<1>2. Art!SearchedInSame(a, types, little)
        = loop[n - 1].texts \cup (IF types[n] \in TextTypes THEN {SubSeq(a, loop[n - 1].p, Len(a))} ELSE {})
  BY DEF Art!SearchedInSame, SearchesSame
<1> HIDE DEF loop
<1>3. \A k \in 0 .. n - 1 :
        /\ loop[k] = IF k = 0 THEN [p |-> 1, texts |-> {}] ELSE Art!SearchNextOfSame(a, loop[k - 1], types[k], little)
        /\ H[k] = IF k = 0 THEN [p |-> 1, texts |-> {}] ELSE Art!SearchNextOfSame(a, H[k - 1], types[k], little)
  BY <1>1 DEF SearchesSame
<1>4. n - 1 \in Nat /\ 0 \in 0 .. n - 1 /\ n - 1 \in 0 .. n - 1  OBVIOUS
<1>5. 0 \in S  BY <1>3, <1>4
<1>6. ASSUME NEW k \in 1 .. n - 1, k - 1 \in S PROVE k \in S
  <2>1. k \in 0 .. n - 1 /\ k # 0  BY <1>4
  <2>2. loop[k - 1] = H[k - 1]  BY <1>6
  <2>3. loop[k] = H[k]  BY <1>3, <2>1, <2>2
  <2> QED BY <2>1, <2>3
<1>7. n - 1 \in S
  <2> HIDE DEF S
  <2>1. PICK m : m = n - 1  OBVIOUS
  <2>2. \A k \in 0 .. m : k \in S  BY <1>4, <1>5, <1>6, <2>1, UptoInduction
  <2> QED BY <1>4, <2>1, <2>2
<1> QED BY <1>2, <1>7

\* The types of sections as a sequence.
LEMMA TypesAre ==
    ASSUME NEW ss, Sectioned(ss), NEW n, n = Len(ss)
    PROVE  /\ Len(TypesOf(ss)) = n /\ TypesOf(ss) # <<>>
           /\ \A i \in 1 .. n : TypesOf(ss)[i] = ss[i].type
<1>1. n \in Nat \ {0} /\ TypesOf(ss) = [i \in 1 .. n |-> ss[i].type]  BY DEF TypesOf, Sectioned
<1>2. PICK types : types = TypesOf(ss)  OBVIOUS
<1>3. DOMAIN types = 1 .. n /\ \A i \in 1 .. n : types[i] = ss[i].type  BY <1>1, <1>2
<1>4. types \in Seq({ss[i].type : i \in 1 .. n})  BY <1>1, <1>2
<1>5. Len(types) = n  BY <1>1, <1>3, <1>4
<1>6. types # <<>>  BY <1>1, <1>5, EmptySeq
<1> QED BY <1>2, <1>3, <1>5, <1>6

\* The server searches the texts of the article.
LEMMA SearchedInSameIs ==
    ASSUME NEW ss, Sectioned(ss), NEW little, little => Unsized(ss, Len(ss) - 1)
    PROVE  Art!SearchedInSame(Art!ArticleOfSameTypes(ss), TypesOf(ss), little) = TextsOf(ss, Len(ss))
<1>1. PICK n : n = Len(ss)  OBVIOUS
<1>2. PICK a : a = Art!ArticleOfSameTypes(ss)  OBVIOUS
<1>3. PICK types : types = TypesOf(ss)  OBVIOUS
<1>4. a \in Seq(Nat)  BY <1>2, BareStands
<1>5. PICK E : BareStand(E, a, ss, n)  BY <1>1, <1>2, BareStands
<1>6. n \in Nat \ {0} /\ n \in 1 .. n /\ n - 1 \in Nat  BY <1>5 DEF BareStand
<1>7. Len(types) = n /\ \A i \in 1 .. n : types[i] = ss[i].type  BY <1>1, <1>3, TypesAre
<1> DEFINE cell(k) == [p |-> E[k] + 1, texts |-> TextsOf(ss, k)]
           H == [k \in 0 .. n - 1 |-> cell(k)]
<1>8. ASSUME NEW k \in 1 .. n - 1
      PROVE  cell(k) = Art!SearchNextOfSame(a, cell(k - 1), types[k], little)
  <2>1. PICK t : t = ss[k].type  OBVIOUS
  <2>2. PICK d : d = ss[k].data  OBVIOUS
  <2>3. PICK e : e = E[k - 1]  OBVIOUS
  <2>4. PICK x : x = TextsOf(ss, k - 1)  OBVIOUS
  <2>5. k \in 1 .. n /\ types[k] = t /\ k \in Nat \ {0}  BY <1>6, <1>7, <2>1
  <2>6. StandsAt(a, e, Bare(t, d)) /\ E[k] = e + Len(Bare(t, d))
    BY <1>5, <2>1, <2>2, <2>3 DEF BareStand
  <2>7. IsSection(t, d)  BY <1>5, <2>1, <2>2, <2>5 DEF BareStand
  <2>8. Readable(t, little)  BY <1>1, <2>1 DEF Readable, Unsized
  <2>9. SearchesNextOfSame(a, e, t, d, little, x)  BY <1>4, <2>6, <2>7, <2>8, SearchNextOfSameIs
  <2>10. TextsOf(ss, k) = x \cup (IF t \in TextTypes THEN {d} ELSE {})
    <3>1. k \in Nat \ {0}  BY <2>5
    <3>2. TextsOf(ss, k) = TextsOf(ss, k - 1) \cup (IF ss[k].type \in TextTypes THEN {ss[k].data} ELSE {})
      BY <3>1, TextsGrow
    <3> QED BY <2>1, <2>2, <2>4, <3>2
  <2>11. Art!SearchNextOfSame(a, [p |-> e + 1, texts |-> x], t, little)
           = [p |-> e + Len(Bare(t, d)) + 1, texts |-> x \cup (IF t \in TextTypes THEN {d} ELSE {})]
    BY <2>9 DEF SearchesNextOfSame
  <2> QED BY <2>3, <2>4, <2>5, <2>6, <2>10, <2>11
<1>9. cell(0) = [p |-> 1, texts |-> {}]
  <2>1. TextsOf(ss, 0) = {}  BY <1>6, TextsGrow
  <2>2. E[0] = 0  BY <1>5 DEF BareStand
  <2>3. E[0] + 1 = 1  BY <2>2
  <2>4. cell(0) = [p |-> E[0] + 1, texts |-> TextsOf(ss, 0)]  OBVIOUS
  <2> HIDE DEF cell
  <2> QED BY <2>1, <2>3, <2>4
<1> HIDE DEF cell
<1>10. SearchesSame(H, a, types, little)
  <2>1. PICK h : h = H  OBVIOUS
  <2>2. h = [k \in 0 .. n - 1 |-> h[k]]  BY <2>1
  <2>3. \A k \in 0 .. n - 1 :
          h[k] = IF k = 0 THEN [p |-> 1, texts |-> {}] ELSE Art!SearchNextOfSame(a, h[k - 1], types[k], little)
    <3>1. ASSUME NEW k \in 0 .. n - 1
          PROVE  h[k] = IF k = 0 THEN [p |-> 1, texts |-> {}]
                        ELSE Art!SearchNextOfSame(a, h[k - 1], types[k], little)
      <4>1. CASE k = 0  BY <1>6, <1>9, <2>1, <4>1
      <4>2. CASE k # 0
        <5>1. k \in 1 .. n - 1 /\ k - 1 \in 0 .. n - 1  BY <1>6, <4>2
        <5>2. h[k] = cell(k) /\ h[k - 1] = cell(k - 1)  BY <2>1, <5>1
        <5> QED BY <1>8, <4>2, <5>1, <5>2
      <4> QED BY <4>1, <4>2
    <3> QED BY <3>1
  <2> HIDE DEF H
  <2>4. h = [k \in 0 .. n - 1 |->
               IF k = 0 THEN [p |-> 1, texts |-> {}] ELSE Art!SearchNextOfSame(a, h[k - 1], types[k], little)]
    BY <2>2, <2>3
  <2> QED BY <1>7, <2>1, <2>4 DEF SearchesSame
<1>11. H[n - 1] = cell(n - 1)  BY <1>6
<1> HIDE DEF H
<1>12. PICK h : h = cell(n - 1)  OBVIOUS
<1>13. Art!SearchedInSame(a, types, little)
         = h.texts \cup (IF types[n] \in TextTypes THEN {SubSeq(a, h.p, Len(a))} ELSE {})
  BY <1>6, <1>7, <1>10, <1>11, <1>12, SearchedInSameEnds
<1>14. h.texts = TextsOf(ss, n - 1) /\ SubSeq(a, h.p, Len(a)) = ss[n].data
  BY <1>5, <1>12 DEF cell, BareStand
<1>15. TextsOf(ss, n) = TextsOf(ss, n - 1) \cup (IF ss[n].type \in TextTypes THEN {ss[n].data} ELSE {})
  BY <1>6, TextsGrow
<1>16. types[n] = ss[n].type  BY <1>6, <1>7
<1>17. Art!SearchedInSame(a, types, little) = TextsOf(ss, n)  BY <1>13, <1>14, <1>15, <1>16
<1> QED BY <1>1, <1>2, <1>3, <1>17

\* loop are the states of the loop over an article with types.
SearchesTyped(loop, a, little) ==
    loop = [k \in 0 .. Len(a) |-> IF k = 0 THEN [p |-> 1, texts |-> {}] ELSE Art!SearchNext(a, loop[k - 1], little)]

LEMMA SearchedInTypedEnds ==
    ASSUME NEW a \in Seq(Nat), NEW little, NEW H, SearchesTyped(H, a, little)
    PROVE  Art!SearchedInTyped(a, little) = H[Len(a)].texts
<1> DEFINE loop == CHOOSE loop : SearchesTyped(loop, a, little)
           S == {k \in 0 .. Len(a) : loop[k] = H[k]}
<1>1. PICK n : n = Len(a)  OBVIOUS
<1>2. n \in Nat  BY <1>1, LenProperties
<1>3. SearchesTyped(loop, a, little)  OBVIOUS
<1>4. Art!SearchedInTyped(a, little) = loop[Len(a)].texts  BY DEF Art!SearchedInTyped, SearchesTyped
<1> HIDE DEF loop
<1>5. \A k \in 0 .. n :
        /\ loop[k] = IF k = 0 THEN [p |-> 1, texts |-> {}] ELSE Art!SearchNext(a, loop[k - 1], little)
        /\ H[k] = IF k = 0 THEN [p |-> 1, texts |-> {}] ELSE Art!SearchNext(a, H[k - 1], little)
  BY <1>1, <1>3 DEF SearchesTyped
<1>6. 0 \in S  BY <1>1, <1>2, <1>5
<1>7. ASSUME NEW k \in 1 .. n, k - 1 \in S PROVE k \in S
  <2>1. k \in 0 .. n /\ k # 0  BY <1>2
  <2>2. loop[k - 1] = H[k - 1]  BY <1>7
  <2>3. loop[k] = H[k]  BY <1>5, <2>1, <2>2
  <2> QED BY <1>1, <2>1, <2>3
<1>8. n \in S
  <2> HIDE DEF S
  <2>1. \A k \in 0 .. n : k \in S  BY <1>2, <1>6, <1>7, UptoInduction
  <2> QED BY <1>2, <2>1
<1> QED BY <1>1, <1>4, <1>8

\* There the server searches them behind their types.
LEMMA SearchedInTypedIs ==
    ASSUME NEW ss, Sectioned(ss), NEW little, Unsized(ss, Len(ss))
    PROVE  Art!SearchedInTyped(Art!ArticleOf(ss), little) = TypedTextsOf(ss, Len(ss))
<1>1. PICK n : n = Len(ss)  OBVIOUS
<1>2. PICK a : a = Art!ArticleOf(ss)  OBVIOUS
<1>3. TypedPieces(ss) \in Seq(Seq(Nat)) /\ n \in Nat \ {0}  BY <1>1, PiecesAre DEF Sectioned
<1>4. a = FlattenSeq(TypedPieces(ss))  BY <1>2, SectionsFlatten
<1>5. a \in Seq(Nat)  BY <1>3, <1>4, FlattenType
<1>6. PICK E : StandIn(E, a, TypedPieces(ss))  BY <1>3, <1>4, PiecesStand
<1>7. TypedStand(E, a, ss, n)  BY <1>1, <1>5, <1>6, SectionsAreLong
<1>8. PICK N : N = Len(a)  OBVIOUS
<1>9. N \in Nat /\ n <= N /\ n \in Nat /\ E[0] = 0 /\ E[n] = N
  BY <1>3, <1>5, <1>7, <1>8, LenProperties DEF TypedStand
<1> DEFINE cell(k) == [p |-> E[k] + 1, texts |-> TypedTextsOf(ss, k)]
           H == [k \in 0 .. N |-> IF k <= n THEN cell(k) ELSE cell(n)]
<1>10. ASSUME NEW k \in 1 .. n PROVE cell(k) = Art!SearchNext(a, cell(k - 1), little)
  <2>1. PICK t : t = ss[k].type  OBVIOUS
  <2>2. PICK d : d = ss[k].data  OBVIOUS
  <2>3. PICK e : e = E[k - 1]  OBVIOUS
  <2>4. PICK x : x = TypedTextsOf(ss, k - 1)  OBVIOUS
  <2>5. k \in Nat \ {0}  BY <1>9
  <2>6. StandsAt(a, e, WithType(t, d)) /\ E[k] = e + Len(WithType(t, d)) /\ IsSection(t, d)
    BY <1>7, <2>1, <2>2, <2>3 DEF TypedStand
  <2>7. t \notin SizedTypes  BY <1>1, <2>1 DEF Unsized
  <2>8. StandsAt(a, e, WithType(t, d)) /\ IsSection(t, d)  BY <2>6
  <2>9. SearchesNext(a, e, t, d, little, x)  BY <1>5, <2>7, <2>8, SearchNextIs
  <2>10. TypedTextsOf(ss, k) = x \cup (IF t \in TextTypes THEN {<<t>> \o d} ELSE {})
    BY <2>1, <2>2, <2>4, <2>5, TextsGrow
  <2>11. Art!SearchNext(a, [p |-> e + 1, texts |-> x], little)
           = [p |-> e + Len(WithType(t, d)) + 1, texts |-> x \cup (IF t \in TextTypes THEN {<<t>> \o d} ELSE {})]
    BY <2>9 DEF SearchesNext
  <2> QED BY <2>3, <2>4, <2>6, <2>10, <2>11
<1>11. cell(n) = Art!SearchNext(a, cell(n), little)
  <2>1. cell(n).p = N + 1  BY <1>9
  <2>2. cell(n).p > Len(a)  BY <1>8, <1>9, <2>1
  <2> HIDE DEF cell
  <2> QED BY <2>2 DEF Art!SearchNext
<1>12. cell(0) = [p |-> 1, texts |-> {}]
  <2>1. TypedTextsOf(ss, 0) = {}  BY <1>3, TextsGrow
  <2>2. E[0] + 1 = 1  BY <1>9
  <2> HIDE DEF H
  <2> QED BY <2>1, <2>2
<1> HIDE DEF cell
<1>13. ASSUME NEW k \in 0 .. N
       PROVE  H[k] = IF k = 0 THEN [p |-> 1, texts |-> {}] ELSE Art!SearchNext(a, H[k - 1], little)
  <2>1. CASE k = 0  BY <1>9, <1>12, <2>1
  <2>2. CASE k \in 1 .. n
    <3>1. k # 0 /\ k - 1 \in 0 .. N /\ k - 1 <= n /\ k <= n  BY <1>9, <2>2
    <3>2. H[k] = cell(k) /\ H[k - 1] = cell(k - 1)  BY <3>1
    <3> QED BY <1>10, <2>2, <3>1, <3>2
  <2>3. CASE k > n
    <3>1. k # 0 /\ k - 1 \in 0 .. N /\ n <= k - 1 /\ ~(k <= n)  BY <1>9, <2>3
    <3>2. H[k] = cell(n)  BY <3>1
    <3>3. H[k - 1] = cell(n)
      <4>1. CASE k - 1 <= n
        <5>1. k - 1 = n  BY <1>9, <3>1, <4>1
        <5> QED BY <3>1, <4>1, <5>1
      <4>2. CASE ~(k - 1 <= n)  BY <3>1, <4>2
      <4> QED BY <4>1, <4>2
    <3> QED BY <1>11, <3>1, <3>2, <3>3
  <2> QED BY <1>9, <2>1, <2>2, <2>3
<1>14. SearchesTyped(H, a, little)
  <2>1. PICK h : h = H  OBVIOUS
  <2>2. h = [k \in 0 .. N |-> h[k]]  BY <2>1
  <2>3. \A k \in 0 .. N :
          h[k] = IF k = 0 THEN [p |-> 1, texts |-> {}] ELSE Art!SearchNext(a, h[k - 1], little)
    BY <1>13, <2>1
  <2> HIDE DEF H
  <2>4. h = [k \in 0 .. N |->
               IF k = 0 THEN [p |-> 1, texts |-> {}] ELSE Art!SearchNext(a, h[k - 1], little)]
    BY <2>2, <2>3
  <2> QED BY <1>8, <2>1, <2>4 DEF SearchesTyped
<1>15. H[N].texts = TypedTextsOf(ss, n)
  <2>1. N \in 0 .. N /\ (N <= n => N = n)  BY <1>9
  <2>2. H[N] = cell(n)  BY <2>1
  <2> QED BY <2>2 DEF cell
<1> HIDE DEF H
<1>16. Art!SearchedInTyped(a, little) = H[N].texts  BY <1>5, <1>8, <1>14, SearchedInTypedEnds
<1> QED BY <1>1, <1>2, <1>15, <1>16

-----------------------------------------------------------------------------
\* A word in a text is in what begins with a type and goes on with the text.
LEMMA OccursBehind ==
    ASSUME NEW t \in Nat, NEW d \in Seq(Nat), NEW w \in Seq(Nat), Art!Occurs(d, w)
    PROVE  Art!Occurs(<<t>> \o d, w)
<1>1. PICK m : m = Len(w)  OBVIOUS
<1>2. PICK l : l = Len(d)  OBVIOUS
<1>3. PICK u : u = <<t>>  OBVIOUS
<1>4. PICK x : x = u \o d  OBVIOUS
<1>5. m \in Nat /\ l \in Nat /\ u \in Seq(Nat) /\ Len(u) = 1  BY <1>1, <1>2, <1>3, LenProperties
<1>6. /\ x \in Seq(Nat) /\ Len(x) = 1 + l
      /\ \A j \in 1 .. 1 + l : x[j] = IF j <= 1 THEN u[j] ELSE d[j - 1]
  <2>1. d \in Seq(Nat) /\ u \in Seq(Nat)  BY <1>5
  <2>2. /\ u \o d \in Seq(Nat) /\ Len(u \o d) = Len(u) + Len(d)
        /\ \A j \in 1 .. Len(u) + Len(d) : (u \o d)[j] = IF j <= Len(u) THEN u[j] ELSE d[j - Len(u)]
    BY <2>1, ConcatProperties
  <2> QED BY <1>2, <1>4, <1>5, <2>2
<1>7. PICK i \in 0 .. l - m : SubSeq(d, i + 1, i + m) = w  BY <1>1, <1>2 DEF Art!Occurs
<1>8. i \in Nat /\ i + m <= l  BY <1>5
<1>9. \A j \in 1 .. m : w[j] = d[i + j]
  <2>1. \A j \in i + 1 .. i + m : d[j] \in Nat
    <3>1. \A j \in i + 1 .. i + m : j \in 1 .. l  BY <1>5, <1>8
    <3> QED BY <1>2, <3>1, ElementOfSeq
  <2>2. \A j \in 1 .. i + m - (i + 1) + 1 : SubSeq(d, i + 1, i + m)[j] = d[i + 1 + j - 1]
    BY <1>5, <1>8, <2>1, SubSeqProperties
  <2>3. ASSUME NEW j \in 1 .. m PROVE w[j] = d[i + j]
    <3>1. j \in 1 .. i + m - (i + 1) + 1 /\ i + 1 + j - 1 = i + j  BY <1>5, <1>8
    <3> QED BY <1>7, <2>2, <3>1
  <2> QED BY <2>3
<1>10. StandsAt(x, i + 1, w)
  <2>1. ASSUME NEW j \in 1 .. m PROVE x[i + 1 + j] = w[j]
    <3>1. i + 1 + j \in 1 .. 1 + l /\ ~(i + 1 + j <= 1) /\ i + 1 + j - 1 = i + j  BY <1>5, <1>8
    <3>2. x[i + 1 + j] = d[i + j]  BY <1>6, <3>1
    <3> QED BY <1>9, <3>2
  <2>2. i + 1 \in Nat /\ i + 1 + m <= Len(x)  BY <1>5, <1>6, <1>8
  <2> QED BY <1>1, <2>1, <2>2 DEF StandsAt
<1>11. SubSeq(x, i + 1 + 1, i + 1 + m) = w  BY <1>1, <1>6, <1>10, StandsRead
<1>12. i + 1 \in 0 .. Len(x) - m  BY <1>5, <1>6, <1>8
<1> QED BY <1>1, <1>3, <1>4, <1>11, <1>12 DEF Art!Occurs

\* The sections of an input are sections of an article.
LEMMA InputSectioned ==
    ASSUME StringsTyped, function = "sections", input # <<>>
    PROVE  Sectioned(input)
<1>1. /\ input \in Seq(Letters["sections"])
      /\ \A s \in Letters["sections"] :
            /\ s \in [type : 1 .. Base - 1, data : Seq(0 .. Base - 1)]
            /\ IF s.type \in SizedTypes THEN Len(s.data) < Base * Base
               ELSE \A i \in 1 .. Len(s.data) : s.data[i] # Art!NUL
  BY InputsAssumption DEF StringsTyped
<1>2. Len(input) \in Nat \ {0}
  <2>1. Len(input) \in Nat  BY <1>1, LenProperties
  <2>2. Len(input) # 0  BY <1>1, EmptySeq
  <2> QED BY <2>1, <2>2
<1>3. ASSUME NEW i \in 1 .. Len(input) PROVE IsSection(input[i].type, input[i].data)
  <2>1. PICK s : s = input[i]  OBVIOUS
  <2>2. s \in Letters["sections"]  BY <1>1, <2>1, ElementOfSeq
  <2>3. s.type \in 1 .. Base - 1 /\ s.data \in Seq(0 .. Base - 1)  BY <1>1, <2>2
  <2>4. Base \in Nat \ {0}  BY InputsAssumption
  <2>5. s.type \in Nat /\ s.type # Art!NUL  BY <2>3, <2>4 DEF Art!NUL
  <2>6. s.data \in Seq(Nat)
    <3>1. 0 .. Base - 1 \subseteq Nat  BY <2>4
    <3>2. Seq(0 .. Base - 1) \subseteq Seq(Nat)  BY <3>1, LettersWiden
    <3> QED BY <2>3, <3>2
  <2>7. s.type \notin SizedTypes => \A j \in 1 .. Len(s.data) : s.data[j] # Art!NUL
    BY <1>1, <2>2
  <2> QED BY <2>1, <2>5, <2>6, <2>7 DEF IsSection
<1> QED BY <1>2, <1>3 DEF Sectioned

\* Searches for a word find it where they should.
LEMMA SearchDataIs ==
    ASSUME NEW ss, Sectioned(ss), NEW w, NEW little, little => Unsized(ss, Len(ss) - 1)
    PROVE  Art!SearchData({w}, Art!ArticleOfSameTypes(ss), TypesOf(ss), little) <=> HasText(ss, w)
<1>1. PICK a : a = Art!ArticleOfSameTypes(ss)  OBVIOUS
<1>2. PICK types : types = TypesOf(ss)  OBVIOUS
<1>3. types # <<>>  BY <1>2, TypesAre
<1>4. Art!Searched(a, types, little) = TextsOf(ss, Len(ss))
  BY <1>1, <1>2, <1>3, SearchedInSameIs DEF Art!Searched
<1>5. Art!SearchData({w}, a, types, little) <=> \E text \in TextsOf(ss, Len(ss)) : Art!Occurs(text, w)
  BY <1>4 DEF Art!SearchData
<1>6. (\E text \in TextsOf(ss, Len(ss)) : Art!Occurs(text, w)) <=> HasText(ss, w)
  BY DEF TextsOf, HasText
<1> QED BY <1>1, <1>2, <1>5, <1>6

LEMMA SearchTypedIs ==
    ASSUME NEW ss, Sectioned(ss), NEW w \in Seq(Nat), NEW little, Unsized(ss, Len(ss))
    PROVE  /\ HasText(ss, w) => Art!SearchData({w}, Art!ArticleOf(ss), <<>>, little)
           /\ Art!SearchData({w}, Art!ArticleOf(ss), <<>>, little) => HasTextOrType(ss, w)
<1>1. PICK a : a = Art!ArticleOf(ss)  OBVIOUS
<1>2. PICK n : n = Len(ss)  OBVIOUS
<1>3. Art!Searched(a, <<>>, little) = TypedTextsOf(ss, n)
  BY <1>1, <1>2, SearchedInTypedIs DEF Art!Searched
<1>4. Art!SearchData({w}, a, <<>>, little) <=> \E text \in TypedTextsOf(ss, n) : Art!Occurs(text, w)
  BY <1>3 DEF Art!SearchData
<1>5. (\E text \in TypedTextsOf(ss, n) : Art!Occurs(text, w)) <=> HasTextOrType(ss, w)
  BY <1>2 DEF TypedTextsOf, HasTextOrType
<1>6. HasText(ss, w) => HasTextOrType(ss, w)
  <2>1. SUFFICES ASSUME HasText(ss, w) PROVE HasTextOrType(ss, w)  OBVIOUS
  <2>2. PICK i \in 1 .. n : ss[i].type \in TextTypes /\ Art!Occurs(ss[i].data, w)
    BY <1>2, <2>1 DEF HasText
  <2>3. PICK t : t = ss[i].type  OBVIOUS
  <2>4. PICK d : d = ss[i].data  OBVIOUS
  <2>5. IsSection(t, d)  BY <1>2, <2>3, <2>4 DEF Sectioned
  <2>6. t \in Nat /\ d \in Seq(Nat) /\ Art!Occurs(d, w)  BY <2>2, <2>4, <2>5 DEF IsSection
  <2>7. Art!Occurs(<<t>> \o d, w)  BY <2>6, OccursBehind
  <2> QED BY <1>2, <2>2, <2>3, <2>4, <2>7 DEF HasTextOrType
<1> QED BY <1>1, <1>4, <1>5, <1>6

LEMMA InputSectionsSurvive == StringsTyped => SectionsSurvive
<1> SUFFICES ASSUME StringsTyped, function = "sections", input # <<>>,
                    NEW little \in BOOLEAN, NEW n, n = Len(input),
                    NEW types, types = [i \in 1 .. n |-> input[i].type],
                    NEW article, article = Art!ArticleOfSameTypes(input),
                    NEW typed, typed = Art!ArticleOf(input)
             PROVE  /\ Art!print_data(Art!GetWordData(typed, <<>>, little)) = ShownOf(input)
                    /\ (little => Unsized(input, n)) =>
                         Art!print_data(Art!GetWordData(article, types, little)) = ShownOf(input)
                    /\ \A w \in SoughtWords :
                         /\ (little => Unsized(input, n - 1)) =>
                             (Art!SearchData({w}, article, types, little) <=> HasText(input, w))
                         /\ Unsized(input, n) =>
                             /\ HasText(input, w) => Art!SearchData({w}, typed, <<>>, little)
                             /\ Art!SearchData({w}, typed, <<>>, little) => HasTextOrType(input, w)
  BY DEF SectionsSurvive
<1>1. Sectioned(input) /\ types = TypesOf(input)  BY InputSectioned DEF TypesOf
<1>2. Art!GetWordData(typed, <<>>, little) = typed  BY DEF Art!GetWordData
<1>3. Art!print_data(typed) = ShownOf(input)  BY <1>1, PrintDataIs
<1>4. (little => Unsized(input, n)) => Art!GetWordData(article, types, little) = typed
  BY <1>1, GetWordDataIs
<1>5. ASSUME NEW w \in SoughtWords, little => Unsized(input, n - 1)
      PROVE  Art!SearchData({w}, article, types, little) <=> HasText(input, w)
  BY <1>1, <1>5, SearchDataIs
<1>6. ASSUME NEW w \in SoughtWords, Unsized(input, n)
      PROVE  /\ HasText(input, w) => Art!SearchData({w}, typed, <<>>, little)
             /\ Art!SearchData({w}, typed, <<>>, little) => HasTextOrType(input, w)
  <2>1. 0 .. Base - 1 \subseteq Nat  BY InputsAssumption
  <2>2. Seq(0 .. Base - 1) \subseteq Seq(Nat)  BY <2>1, LettersWiden
  <2>3. w \in Seq(Nat)  BY <2>2, InputsAssumption
  <2> QED BY <1>1, <1>6, <2>3, SearchTypedIs
<1> QED BY <1>2, <1>3, <1>4, <1>5, <1>6

\* Whatever sections an article has, the client shows them in order after the server
\* has filled in the types that a dictionary leaves out, and a search finds the words
\* of its texts (DictBase::GetWordData, DictBase::SearchData, print_data); sections
\* with a size are excepted as in SectionsSurvive.
THEOREM SectionsAlwaysSurvive == InputSpec => []SectionsSurvive
BY StringsAlwaysTyped, InputSectionsSurvive, PTL

-----------------------------------------------------------------------------
(* The header of a dictzip file.                                           *)

\* What stands in a piece stands in what the piece stands in.
LEMMA StandsWithin ==
    ASSUME NEW a \in Seq(Nat), NEW q, NEW b \in Seq(Nat), NEW r, NEW piece \in Seq(Nat),
           StandsAt(a, q, b), StandsAt(b, r, piece)
    PROVE  StandsAt(a, q + r, piece)
<1>1. /\ q \in Nat /\ r \in Nat /\ Len(a) \in Nat /\ Len(b) \in Nat /\ Len(piece) \in Nat
      /\ q + Len(b) <= Len(a) /\ r + Len(piece) <= Len(b)
  BY DEF StandsAt
<1>2. ASSUME NEW j \in 1 .. Len(piece) PROVE a[q + r + j] = piece[j]
  <2>1. r + j \in 1 .. Len(b) /\ q + (r + j) = q + r + j  BY <1>1
  <2>2. a[q + (r + j)] = b[r + j]  BY <2>1 DEF StandsAt
  <2>3. b[r + j] = piece[j]  BY DEF StandsAt
  <2> QED BY <2>1, <2>2, <2>3
<1>3. q + r \in Nat /\ q + r + Len(piece) <= Len(a)  BY <1>1
<1> QED BY <1>2, <1>3 DEF StandsAt

\* getc reads what stands there.
LEMMA StandsGet ==
    ASSUME NEW a \in Seq(Nat), NEW q, NEW piece \in Seq(Nat), StandsAt(a, q, piece),
           NEW j \in 0 .. Len(piece) - 1
    PROVE  Dz!getc(a, q + j) = piece[j + 1] /\ q + j < Len(a)
<1>1. q \in Nat /\ Len(a) \in Nat /\ Len(piece) \in Nat /\ q + Len(piece) <= Len(a)
  BY DEF StandsAt
<1>2. j + 1 \in 1 .. Len(piece) /\ q + (j + 1) = q + j + 1 /\ q + j < Len(a)  BY <1>1
<1>3. a[q + (j + 1)] = piece[j + 1]  BY <1>2 DEF StandsAt
<1> QED BY <1>2, <1>3 DEF Dz!getc

\* A number of two bytes is read as it was written.
LEMMA TwoBytesRead ==
    ASSUME NEW a \in Seq(Nat), NEW q, NEW n \in Nat, StandsAt(a, q, TwoBytes(n))
    PROVE  Dz!Int16(a, q) = n
<1>1. PICK l : l = n % 256  OBVIOUS
<1>2. PICK h : h = n \div 256  OBVIOUS
<1>3. l \in Nat /\ h \in Nat /\ l + 256 * h = n  BY <1>1, <1>2
<1>4. TwoBytes(n) = <<l, h>>  BY <1>1, <1>2 DEF TwoBytes
<1>5. <<l, h>> \in Seq(Nat) /\ Len(<<l, h>>) = 2  BY <1>3
<1>6. q \in Nat  BY DEF StandsAt
<1> DEFINE b == <<l, h>>
<1>7. 0 \in 0 .. Len(b) - 1 /\ 1 \in 0 .. Len(b) - 1 /\ b[0 + 1] = l /\ b[1 + 1] = h  BY <1>5
<1>7a. b \in Seq(Nat) /\ StandsAt(a, q, b)  BY <1>4, <1>5
<1> HIDE DEF b
<1>8. Dz!getc(a, q + 0) = l  BY <1>7, <1>7a, StandsGet
<1>9. Dz!getc(a, q + 1) = h  BY <1>7, <1>7a, StandsGet
<1>10. q + 0 = q  BY <1>6
<1> QED BY <1>3, <1>8, <1>9, <1>10 DEF Dz!Int16

\* A name or a comment ends at its NUL.
LEMMA StringLengthIs ==
    ASSUME NEW a \in Seq(Nat), NEW q, NEW d \in Seq(Nat), StandsAt(a, q, d \o <<Dz!NUL>>),
           \A i \in 1 .. Len(d) : d[i] # Dz!NUL
    PROVE  Dz!StringLength(a, q) = Len(d)
<1> DEFINE Is(x) == /\ Dz!getc(a, q + x) \in {Dz!NUL, Dz!EOF}
                    /\ \A k \in 0 .. x - 1 : Dz!getc(a, q + k) \notin {Dz!NUL, Dz!EOF}
<1>1. q \in Nat /\ Len(d) \in Nat /\ Len(a) \in Nat /\ <<Dz!NUL>> \in Seq(Nat)
  BY DEF StandsAt, Dz!NUL
<1>2. StandsAt(a, q, d) /\ StandsAt(a, q + Len(d), <<Dz!NUL>>)  BY <1>1, StandsSplit
<1>3. Dz!getc(a, q + Len(d)) = Dz!NUL /\ Len(d) \in 0 .. Len(a)
  <2>1. 0 \in 0 .. Len(<<Dz!NUL>>) - 1 /\ <<Dz!NUL>>[0 + 1] = Dz!NUL  OBVIOUS
  <2>2. Dz!getc(a, q + Len(d) + 0) = Dz!NUL /\ q + Len(d) + 0 < Len(a)
    BY <1>1, <1>2, <2>1, StandsGet
  <2>3. q + Len(d) + 0 = q + Len(d)  BY <1>1
  <2> QED BY <1>1, <2>2, <2>3
<1>4. \A k \in 0 .. Len(d) - 1 : Dz!getc(a, q + k) \notin {Dz!NUL, Dz!EOF}
  <2>1. ASSUME NEW k \in 0 .. Len(d) - 1 PROVE Dz!getc(a, q + k) \notin {Dz!NUL, Dz!EOF}
    <3>1. Dz!getc(a, q + k) = d[k + 1]  BY <1>2, StandsGet
    <3>2. k + 1 \in 1 .. Len(d)  BY <1>1
    <3>3. d[k + 1] \in Nat /\ d[k + 1] # Dz!NUL  BY <3>2
    <3>4. Dz!EOF \notin Nat  BY DEF Dz!EOF
    <3> QED BY <3>1, <3>3, <3>4
  <2> QED BY <2>1
<1>5. Is(Len(d))  BY <1>3, <1>4
<1>6. ASSUME NEW x \in 0 .. Len(a), Is(x) PROVE x = Len(d)
  <2>1. x \in Int /\ Len(d) \in Int /\ 0 <= x /\ 0 <= Len(d)  BY <1>1
  <2>2. CASE x < Len(d)
    <3>1. x \in 0 .. Len(d) - 1  BY <2>1, <2>2
    <3> QED BY <1>4, <1>6, <3>1
  <2>3. CASE x > Len(d)
    <3>1. Len(d) \in 0 .. x - 1  BY <2>1, <2>3
    <3> QED BY <1>3, <1>6, <3>1
  <2> QED BY <2>1, <2>2, <2>3
<1> HIDE DEF Is
<1>7. (CHOOSE x \in 0 .. Len(a) : Is(x)) = Len(d)  BY <1>3, <1>5, <1>6
<1>8. Dz!StringLength(a, q) = CHOOSE x \in 0 .. Len(a) : Is(x)  BY DEF Dz!StringLength, Is
<1> QED BY <1>7, <1>8

\* What read_header knows of a header while it reads it.
Reading(place, length, chunks) ==
    [type |-> "dzip", at |-> place, length |-> length, chunks |-> chunks]

\* A name or a comment is skipped, if there is one.
Follows(a, place, flag, d) ==
    /\ a \in Seq(Nat) /\ d \in Seq(Nat \ {0}) /\ StandsAt(a, place, DzText(d))
    /\ Dz!IsSet(Dz!getc(a, Dz!FLG), flag) <=> d # <<>>

LEMMA SkipStringIs ==
    ASSUME NEW a, NEW place, NEW length \in Nat, NEW chunks, NEW flag, NEW d,
           Follows(a, place, flag, d)
    PROVE  Dz!SkipString(a, Reading(place, length, chunks), flag)
               = Reading(place + Len(DzText(d)), length + Len(DzText(d)), chunks)
<1>1. PICK h : h = Reading(place, length, chunks)  OBVIOUS
<1>2. h.at = place /\ h.length = length  BY <1>1 DEF Reading
<1>3. a \in Seq(Nat) /\ d \in Seq(Nat \ {0}) /\ StandsAt(a, place, DzText(d)) /\ place \in Nat
  BY DEF Follows, StandsAt
<1>3a. Dz!IsSet(Dz!getc(a, Dz!FLG), flag) <=> d # <<>>  BY DEF Follows
<1>4. CASE d = <<>>
  <2>1. DzText(d) = <<>> /\ Len(<<>>) = 0  BY <1>4, EmptySeq DEF DzText
  <2>2. Dz!SkipString(a, h, flag) = h  BY <1>3a, <1>4 DEF Dz!SkipString
  <2>3. place + 0 = place /\ length + 0 = length  BY <1>3
  <2> QED BY <1>1, <2>1, <2>2, <2>3
<1>5. CASE d # <<>>
  <2>1. d \in Seq(Nat)
    <3>1. Nat \ {0} \subseteq Nat  OBVIOUS
    <3> QED BY <1>3, <3>1, LettersWiden
  <2>2. \A i \in 1 .. Len(d) : d[i] # Dz!NUL
    <3>1. \A i \in 1 .. Len(d) : d[i] \in Nat \ {0}  BY <1>3, ElementOfSeq
    <3> QED BY <3>1 DEF Dz!NUL
  <2>3. DzText(d) = d \o <<Dz!NUL>>  BY <1>5 DEF DzText
  <2>4. PICK n : n = Len(d)  OBVIOUS
  <2>5. Dz!StringLength(a, place) = n  BY <1>3, <2>1, <2>2, <2>3, <2>4, StringLengthIs
  <2>6. Len(DzText(d)) = n + 1 /\ n \in Nat
    <3>1. <<Dz!NUL>> \in Seq(Nat) /\ Len(<<Dz!NUL>>) = 1  BY DEF Dz!NUL
    <3>2. Len(d \o <<Dz!NUL>>) = Len(d) + Len(<<Dz!NUL>>) /\ Len(d) \in Nat
      BY <2>1, <3>1, ConcatProperties, LenProperties
    <3> QED BY <2>3, <2>4, <3>1, <3>2
  <2>7. PICK p : p = place + n + 1  OBVIOUS
  <2>8. PICK l : l = length + n + 1  OBVIOUS
  <2>9. Dz!SkipString(a, h, flag) = [[h EXCEPT !.at = p] EXCEPT !.length = l]
    <3>1. Dz!SkipString(a, h, flag) = [h EXCEPT !.at = @ + n + 1, !.length = @ + n + 1]
      BY <1>2, <1>3a, <1>5, <2>5 DEF Dz!SkipString
    <3>2. [h EXCEPT !.at = @ + n + 1, !.length = @ + n + 1] = [[h EXCEPT !.at = p] EXCEPT !.length = l]
      BY <1>1, <2>7, <2>8 DEF Reading
    <3> QED BY <3>1, <3>2
  <2>10. [[h EXCEPT !.at = p] EXCEPT !.length = l] = Reading(p, l, chunks)
    <3>1. [h EXCEPT !.at = p] = Reading(p, length, chunks)  BY <1>1 DEF Reading
    <3>2. PICK g : g = Reading(p, length, chunks)  OBVIOUS
    <3>3. [g EXCEPT !.length = l] = Reading(p, l, chunks)  BY <3>2 DEF Reading
    <3> QED BY <3>1, <3>2, <3>3
  <2>11. p = place + (n + 1) /\ l = length + (n + 1)  BY <1>3, <2>6, <2>7, <2>8
  <2> QED BY <1>1, <2>6, <2>9, <2>10, <2>11
<1> QED BY <1>4, <1>5

-----------------------------------------------------------------------------
\* The table of a file: two bytes for each chunk.
TablePieces(chunks) == [i \in 1 .. Len(chunks) |-> TwoBytes(chunks[i])]

LEMMA TwoBytesType ==
    ASSUME NEW n \in Nat
    PROVE  TwoBytes(n) \in Seq(Nat) /\ Len(TwoBytes(n)) = 2
<1>1. n % 256 \in Nat /\ n \div 256 \in Nat  OBVIOUS
<1> QED BY <1>1 DEF TwoBytes

\* A function on the first numbers is a sequence.
LEMMA PiecesAreSeq ==
    ASSUME NEW S, NEW n \in Nat, NEW p \in [1 .. n -> S]
    PROVE  p \in Seq(S) /\ Len(p) = n
<1>1. p \in Seq(S)  BY SeqDef
<1>2. DOMAIN p = 1 .. n  OBVIOUS
<1> QED BY <1>1, <1>2

LEMMA TableIs ==
    ASSUME NEW chunks \in Seq(Nat), NEW n, n = Len(chunks), NEW table, table = DzTable(chunks)
    PROVE  /\ table \in Seq(Nat) /\ Len(table) = 2 * n
           /\ \A i \in 1 .. n : StandsAt(table, 2 * (i - 1), TwoBytes(chunks[i]))
<1>1. n \in Nat  BY LenProperties
<1>2. ASSUME NEW i \in 1 .. n
      PROVE  TwoBytes(chunks[i]) \in Seq(Nat) /\ Len(TwoBytes(chunks[i])) = 2
  <2>1. chunks[i] \in Nat  BY ElementOfSeq
  <2> QED BY <2>1, TwoBytesType
<1>3. PICK pieces : pieces = TablePieces(chunks)  OBVIOUS
<1>4. pieces = [i \in 1 .. n |-> TwoBytes(chunks[i])]  BY <1>3 DEF TablePieces
<1>5. pieces \in [1 .. n -> Seq(Nat)]  BY <1>2, <1>4
<1>6. pieces \in Seq(Seq(Nat)) /\ Len(pieces) = n  BY <1>1, <1>5, PiecesAreSeq
<1>7. table = FlattenSeq(pieces)  BY <1>3 DEF DzTable, TablePieces
<1>8. table \in Seq(Nat)  BY <1>6, <1>7, FlattenType
<1>9. PICK E : StandIn(E, table, pieces)  BY <1>6, <1>7, PiecesStand
<1>10. /\ E \in [0 .. n -> Nat] /\ E[0] = 0 /\ E[n] = Len(table)
       /\ \A i \in 1 .. n : E[i] = E[i - 1] + 2 /\ StandsAt(table, E[i - 1], TwoBytes(chunks[i]))
  <2>1. E \in [0 .. n -> Nat] /\ E[0] = 0 /\ E[n] = Len(table)  BY <1>6, <1>9 DEF StandIn
  <2>2. ASSUME NEW i \in 1 .. n
        PROVE  E[i] = E[i - 1] + 2 /\ StandsAt(table, E[i - 1], TwoBytes(chunks[i]))
    <3>1. EndAt(E, table, pieces, i)  BY <1>6, <1>9 DEF StandIn
    <3>2. pieces[i] = TwoBytes(chunks[i])  BY <1>4
    <3> QED BY <1>2, <3>1, <3>2 DEF EndAt
  <2> QED BY <2>1, <2>2
<1> DEFINE Good == {i \in 0 .. n : E[i] = 2 * i}
<1>11. \A i \in 0 .. n : i \in Good
  <2>1. 0 \in Good  BY <1>1, <1>10
  <2>2. ASSUME NEW i \in 1 .. n, i - 1 \in Good PROVE i \in Good
    <3>1. E[i - 1] = 2 * (i - 1) /\ i \in 0 .. n  BY <2>2, <1>1
    <3>2. E[i] = 2 * (i - 1) + 2  BY <1>10, <3>1
    <3> QED BY <3>1, <3>2
  <2> HIDE DEF Good
  <2> QED BY <1>1, <2>1, <2>2, UptoInduction
<1>12. \A i \in 0 .. n : E[i] = 2 * i  BY <1>11
<1>13. Len(table) = 2 * n
  <2>1. n \in 0 .. n  BY <1>1
  <2> QED BY <1>10, <1>12, <2>1
<1>14. ASSUME NEW i \in 1 .. n PROVE StandsAt(table, 2 * (i - 1), TwoBytes(chunks[i]))
  <2>1. i - 1 \in 0 .. n  BY <1>1
  <2>2. E[i - 1] = 2 * (i - 1)  BY <1>12, <2>1
  <2> QED BY <1>10, <2>2
<1> QED BY <1>8, <1>13, <1>14

\* The chunks of a file, one behind the other.
LEMMA BodyOfChunks ==
    ASSUME NEW chunks \in Seq(Nat), NEW n, n = Len(chunks), NEW body, body = DzBody(chunks)
    PROVE  /\ body \in Seq(Nat)
           /\ \E E \in [0 .. n -> Nat] :
                /\ E[0] = 0
                /\ \A i \in 1 .. n : /\ E[i] = E[i - 1] + chunks[i]
                                     /\ StandsAt(body, E[i - 1], Chunk(chunks, i))
                                     /\ Chunk(chunks, i) \in Seq(Nat)
                                     /\ Len(Chunk(chunks, i)) = chunks[i]
<1>1. n \in Nat  BY LenProperties
<1>2. ASSUME NEW i \in 1 .. n
      PROVE  Chunk(chunks, i) \in Seq(Nat) /\ Len(Chunk(chunks, i)) = chunks[i]
  <2>1. chunks[i] \in Nat  BY ElementOfSeq
  <2>2. PICK c : c = chunks[i]  OBVIOUS
  <2>3. c \in Nat /\ i \in Nat  BY <1>1, <2>1, <2>2
  <2>4. Chunk(chunks, i) = [k \in 1 .. c |-> i]  BY <2>2 DEF Chunk
  <2>5. Chunk(chunks, i) \in [1 .. c -> Nat]  BY <2>3, <2>4
  <2> QED BY <2>2, <2>3, <2>5, PiecesAreSeq
<1>3. PICK pieces : pieces = [i \in 1 .. n |-> Chunk(chunks, i)]  OBVIOUS
<1>4. pieces \in [1 .. n -> Seq(Nat)]  BY <1>2, <1>3
<1>5. pieces \in Seq(Seq(Nat)) /\ Len(pieces) = n  BY <1>1, <1>4, PiecesAreSeq
<1>6. body = FlattenSeq(pieces)  BY <1>3 DEF DzBody
<1>7. body \in Seq(Nat)  BY <1>5, <1>6, FlattenType
<1>8. PICK E : StandIn(E, body, pieces)  BY <1>5, <1>6, PiecesStand
<1>9. E \in [0 .. n -> Nat] /\ E[0] = 0  BY <1>5, <1>8 DEF StandIn
<1>10. ASSUME NEW i \in 1 .. n
       PROVE  E[i] = E[i - 1] + chunks[i] /\ StandsAt(body, E[i - 1], Chunk(chunks, i))
  <2>1. EndAt(E, body, pieces, i)  BY <1>5, <1>8 DEF StandIn
  <2>2. pieces[i] = Chunk(chunks, i)  BY <1>3
  <2> QED BY <1>2, <2>1, <2>2 DEF EndAt
<1> QED BY <1>2, <1>7, <1>9, <1>10

\* What is read in the first bytes of a dictzip file.
HeadIs(a, flags, n) ==
    /\ Dz!getc(a, 0) = 31 /\ Dz!getc(a, 1) = 139 /\ Dz!getc(a, Dz!FLG) = flags
    /\ Dz!Int16(a, Dz!XLEN) = 2 * n + 10 /\ Dz!getc(a, Dz!SI1) = Dz!RND_S1
    /\ Dz!Int16(a, Dz!CHUNKLEN) = 700 /\ Dz!Int16(a, Dz!CHUNKCNT) = n

LEMMA HeadReads ==
    ASSUME NEW a \in Seq(Nat), NEW flags \in Nat, NEW n \in Nat, StandsAt(a, 0, DzHead(flags, n))
    PROVE  HeadIs(a, flags, n)
<1>1. PICK xl, xh : xl = (2 * n + 10) % 256 /\ xh = (2 * n + 10) \div 256  OBVIOUS
<1>2. PICK sl, sh : sl = (2 * n + 6) % 256 /\ sh = (2 * n + 6) \div 256  OBVIOUS
<1>3. PICK nl, nh : nl = n % 256 /\ nh = n \div 256  OBVIOUS
<1>4. /\ xl \in Nat /\ xh \in Nat /\ xl + 256 * xh = 2 * n + 10
      /\ sl \in Nat /\ sh \in Nat /\ nl \in Nat /\ nh \in Nat /\ nl + 256 * nh = n
  BY <1>1, <1>2, <1>3
<1>5. PICK h : h = <<31, 139, 8, flags, 1, 2, 3, 4, 2, 3, xl, xh, 82, 65, sl, sh, 1, 0, 188, 2, nl, nh>>
  OBVIOUS
<1>6. h = DzHead(flags, n)  BY <1>1, <1>2, <1>3, <1>5 DEF DzHead, Dz!RND_S1, Dz!RND_S2
<1>7. h \in Seq(Nat) /\ Len(h) = 22  BY <1>4, <1>5
<1>8. /\ h[1] = 31 /\ h[2] = 139 /\ h[4] = flags /\ h[11] = xl /\ h[12] = xh /\ h[13] = 82
      /\ h[19] = 188 /\ h[20] = 2 /\ h[21] = nl /\ h[22] = nh
  BY <1>5
<1>9. ASSUME NEW j \in 0 .. 21 PROVE Dz!getc(a, j) = h[j + 1]
  <2>1. Len(h) - 1 = 21  BY <1>7
  <2>2. j \in 0 .. Len(h) - 1 /\ StandsAt(a, 0, h) /\ h \in Seq(Nat)  BY <1>6, <1>7, <2>1
  <2>3. Dz!getc(a, 0 + j) = h[j + 1]  BY <2>2, StandsGet
  <2>4. 0 + j = j  OBVIOUS
  <2> QED BY <2>3, <2>4
<1>10. Dz!getc(a, 0) = 31 /\ Dz!getc(a, 1) = 139 /\ Dz!getc(a, 3) = flags /\ Dz!getc(a, 12) = 82
  <2>1. 0 + 1 = 1 /\ 1 + 1 = 2 /\ 3 + 1 = 4 /\ 12 + 1 = 13  OBVIOUS
  <2>2. 0 \in 0 .. 21 /\ 1 \in 0 .. 21 /\ 3 \in 0 .. 21 /\ 12 \in 0 .. 21  OBVIOUS
  <2>3. /\ Dz!getc(a, 0) = h[1] /\ Dz!getc(a, 1) = h[2]
        /\ Dz!getc(a, 3) = h[4] /\ Dz!getc(a, 12) = h[13]
    BY <1>9, <2>1, <2>2
  <2> QED BY <1>8, <2>3
<1>11. Dz!Int16(a, 10) = 2 * n + 10
  <2>1. 10 + 1 = 11 /\ 11 + 1 = 12 /\ 10 \in 0 .. 21 /\ 11 \in 0 .. 21  OBVIOUS
  <2>1a. Dz!getc(a, 10) = h[11] /\ Dz!getc(a, 11) = h[12]  BY <1>9, <2>1
  <2>2. Dz!getc(a, 10) = xl /\ Dz!getc(a, 11) = xh  BY <1>8, <2>1a
  <2>3. Dz!Int16(a, 10) = xl + 256 * xh  BY <2>1, <2>2 DEF Dz!Int16
  <2> QED BY <1>4, <2>3
<1>12. Dz!Int16(a, 18) = 700
  <2>1. 18 + 1 = 19 /\ 19 + 1 = 20 /\ 18 \in 0 .. 21 /\ 19 \in 0 .. 21  OBVIOUS
  <2>2. Dz!getc(a, 18) = h[19] /\ Dz!getc(a, 19) = h[20]  BY <1>9, <2>1
  <2>3. Dz!getc(a, 18) = 188 /\ Dz!getc(a, 19) = 2  BY <1>8, <2>2
  <2>4. Dz!Int16(a, 18) = 188 + 256 * 2  BY <2>1, <2>3 DEF Dz!Int16
  <2> QED BY <2>4
<1>13. Dz!Int16(a, 20) = n
  <2>1. 20 + 1 = 21 /\ 21 + 1 = 22 /\ 20 \in 0 .. 21 /\ 21 \in 0 .. 21  OBVIOUS
  <2>1a. Dz!getc(a, 20) = h[21] /\ Dz!getc(a, 21) = h[22]  BY <1>9, <2>1
  <2>2. Dz!getc(a, 20) = nl /\ Dz!getc(a, 21) = nh  BY <1>8, <2>1a
  <2>3. Dz!Int16(a, 20) = nl + 256 * nh  BY <2>1, <2>2 DEF Dz!Int16
  <2> QED BY <1>4, <2>3
<1> QED BY <1>10, <1>11, <1>12, <1>13
         DEF HeadIs, Dz!FLG, Dz!XLEN, Dz!SI1, Dz!RND_S1, Dz!CHUNKLEN, Dz!CHUNKCNT

\* The flags say what the header has.
LEMMA FlagsAre ==
    ASSUME NEW name, NEW comment, NEW crc, NEW flags, flags = DzFlags(name, comment, crc)
    PROVE  /\ flags \in Nat /\ Dz!IsSet(flags, Dz!FEXTRA)
           /\ Dz!IsSet(flags, Dz!FNAME) <=> name # <<>>
           /\ Dz!IsSet(flags, Dz!COMMENT) <=> comment # <<>>
           /\ Dz!IsSet(flags, Dz!FHCRC) <=> crc # <<>>
<1>1. PICK x : x = IF crc = <<>> THEN 0 ELSE 2  OBVIOUS
<1>2. PICK y : y = IF name = <<>> THEN 0 ELSE 8  OBVIOUS
<1>3. PICK z : z = IF comment = <<>> THEN 0 ELSE 16  OBVIOUS
<1>4. flags = 4 + x + y + z
  BY <1>1, <1>2, <1>3 DEF DzFlags, Dz!FEXTRA, Dz!FHCRC, Dz!FNAME, Dz!COMMENT
<1>5. x \in {0, 2} /\ y \in {0, 8} /\ z \in {0, 16}  BY <1>1, <1>2, <1>3
<1>6. /\ flags \in Nat /\ (flags \div 4) % 2 = 1
      /\ ((flags \div 8) % 2 = 1) <=> y = 8
      /\ ((flags \div 16) % 2 = 1) <=> z = 16
      /\ ((flags \div 2) % 2 = 1) <=> x = 2
  BY <1>4, <1>5
<1>7. (x = 2 <=> crc # <<>>) /\ (y = 8 <=> name # <<>>) /\ (z = 16 <=> comment # <<>>)
  BY <1>1, <1>2, <1>3
<1> QED BY <1>6, <1>7 DEF Dz!IsSet, Dz!FEXTRA, Dz!FHCRC, Dz!FNAME, Dz!COMMENT

\* The table is read as it was written.
LEMMA ExtraFieldIs ==
    ASSUME NEW a \in Seq(Nat), NEW chunks \in Seq(Nat), NEW n, n = Len(chunks), NEW flags \in Nat,
           Dz!IsSet(flags, Dz!FEXTRA), StandsAt(a, 0, DzHead(flags, n)), StandsAt(a, 22, DzTable(chunks))
    PROVE  Dz!ExtraField(a) = Reading(22 + 2 * n, 2 * n + 12, chunks)
<1>1. n \in Nat  BY LenProperties
<1>2. PICK table : table = DzTable(chunks)  OBVIOUS
<1>3. /\ table \in Seq(Nat)
      /\ \A i \in 1 .. n : StandsAt(table, 2 * (i - 1), TwoBytes(chunks[i]))
  BY <1>2, TableIs
<1>4. ASSUME NEW i \in 1 .. n PROVE Dz!Int16(a, 22 + 2 * (i - 1)) = chunks[i]
  <2>1. chunks[i] \in Nat  BY ElementOfSeq
  <2>2. TwoBytes(chunks[i]) \in Seq(Nat)  BY <2>1, TwoBytesType
  <2>3. StandsAt(a, 22 + 2 * (i - 1), TwoBytes(chunks[i]))
    BY <1>2, <1>3, <2>2, StandsWithin
  <2> QED BY <2>1, <2>3, TwoBytesRead
<1>5. chunks = [i \in 1 .. n |-> chunks[i]]  BY <1>1, SeqDef
<1>6. chunks = [i \in 1 .. n |-> Dz!Int16(a, 22 + 2 * (i - 1))]  BY <1>4, <1>5
<1>7. /\ Dz!getc(a, Dz!FLG) = flags /\ Dz!getc(a, Dz!SI1) = Dz!RND_S1
      /\ Dz!Int16(a, Dz!XLEN) = 2 * n + 10 /\ Dz!Int16(a, Dz!CHUNKCNT) = n
  <2>1. HeadIs(a, flags, n)  BY <1>1, HeadReads
  <2> QED BY <2>1 DEF HeadIs
<1>8. 2 * n + 10 + 2 = 2 * n + 12  BY <1>1
<1>9. Dz!RNDDATA = 22  BY DEF Dz!RNDDATA
<1>10. Dz!ExtraField(a)
         = [type |-> "dzip", at |-> Dz!RNDDATA + 2 * n, length |-> 2 * n + 10 + 2,
            chunks |-> [i \in 1 .. n |-> Dz!Int16(a, Dz!RNDDATA + 2 * (i - 1))]]
  BY <1>7 DEF Dz!ExtraField
<1> QED BY <1>6, <1>8, <1>9, <1>10 DEF Reading

\* Where the parts of a dictzip file stand.
DzStands(a, chunks, name, comment, crc, x, y, z, body, tail) ==
    LET n == Len(chunks)
    IN /\ StandsAt(a, 0, DzHead(DzFlags(name, comment, crc), n))
       /\ StandsAt(a, 22, DzTable(chunks))
       /\ StandsAt(a, 22 + 2 * n, DzText(name)) /\ x = Len(DzText(name))
       /\ StandsAt(a, 22 + 2 * n + x, DzText(comment)) /\ y = Len(DzText(comment))
       /\ z = IF crc = <<>> THEN 0 ELSE 2
       /\ StandsAt(a, 22 + 2 * n + x + y + z, body)
       /\ Len(a) \in Nat /\ Len(a) >= 30 /\ StandsAt(a, Len(a) - 8, tail)

LEMMA DzTextType ==
    ASSUME NEW d \in Seq(Nat \ {0})
    PROVE  DzText(d) \in Seq(Nat) /\ Len(DzText(d)) \in Nat
<1>1. Nat \ {0} \subseteq Nat  OBVIOUS
<1>2. d \in Seq(Nat)  BY <1>1, LettersWiden
<1>3. <<Dz!NUL>> \in Seq(Nat) /\ <<>> \in Seq(Nat)  BY DEF Dz!NUL
<1>4. d \o <<Dz!NUL>> \in Seq(Nat)  BY <1>2, <1>3, ConcatProperties
<1>5. DzText(d) \in Seq(Nat)  BY <1>3, <1>4 DEF DzText
<1> QED BY <1>5, LenProperties

LEMMA HeadType ==
    ASSUME NEW flags \in Nat, NEW n \in Nat
    PROVE  DzHead(flags, n) \in Seq(Nat) /\ Len(DzHead(flags, n)) = 22
<1>1. PICK xl, xh : xl = (2 * n + 10) % 256 /\ xh = (2 * n + 10) \div 256  OBVIOUS
<1>2. PICK sl, sh : sl = (2 * n + 6) % 256 /\ sh = (2 * n + 6) \div 256  OBVIOUS
<1>3. PICK nl, nh : nl = n % 256 /\ nh = n \div 256  OBVIOUS
<1>4. xl \in Nat /\ xh \in Nat /\ sl \in Nat /\ sh \in Nat /\ nl \in Nat /\ nh \in Nat
  BY <1>1, <1>2, <1>3
<1>5. DzHead(flags, n) = <<31, 139, 8, flags, 1, 2, 3, 4, 2, 3, xl, xh, 82, 65, sl, sh, 1, 0, 188, 2, nl, nh>>
  BY <1>1, <1>2, <1>3 DEF DzHead, Dz!RND_S1, Dz!RND_S2
<1> QED BY <1>4, <1>5

LEMMA DzFileStands ==
    ASSUME NEW chunks \in Seq(Nat), NEW name \in Seq(Nat \ {0}), NEW comment \in Seq(Nat \ {0}), NEW crc,
           NEW a, a = DzFile(chunks, name, comment, crc)
    PROVE  /\ a \in Seq(Nat)
           /\ \E x, y, z \in Nat :
                DzStands(a, chunks, name, comment, crc, x, y, z, DzBody(chunks), DzTail)
<1>1. PICK n : n = Len(chunks)  OBVIOUS
<1>2. PICK p1 : p1 = DzHead(DzFlags(name, comment, crc), n)  OBVIOUS
<1>3. PICK p2 : p2 = DzTable(chunks)  OBVIOUS
<1>4. PICK p3 : p3 = DzText(name)  OBVIOUS
<1>5. PICK p4 : p4 = DzText(comment)  OBVIOUS
<1>6. PICK p5 : p5 = IF crc = <<>> THEN <<>> ELSE <<5, 6>>  OBVIOUS
<1>7. PICK p6 : p6 = DzBody(chunks)  OBVIOUS
<1>8. PICK p7 : p7 = DzTail  OBVIOUS
<1>9. PICK z : z = IF crc = <<>> THEN 0 ELSE 2  OBVIOUS
<1>10. n \in Nat  BY <1>1, LenProperties
<1>11. p1 \in Seq(Nat) /\ Len(p1) = 22  BY <1>2, <1>10, FlagsAre, HeadType
<1>12. p2 \in Seq(Nat) /\ Len(p2) = 2 * n  BY <1>1, <1>3, TableIs
<1>13. p3 \in Seq(Nat) /\ Len(p3) \in Nat /\ p4 \in Seq(Nat) /\ Len(p4) \in Nat
  BY <1>4, <1>5, DzTextType
<1>14. p5 \in Seq(Nat) /\ Len(p5) = z /\ z \in Nat
  <2>1. <<>> \in Seq(Nat) /\ Len(<<>>) = 0 /\ <<5, 6>> \in Seq(Nat) /\ Len(<<5, 6>>) = 2  OBVIOUS
  <2> QED BY <1>6, <1>9, <2>1
<1>15. p6 \in Seq(Nat) /\ Len(p6) \in Nat
  <2>1. p6 \in Seq(Nat)  BY <1>7, BodyOfChunks
  <2> QED BY <2>1, LenProperties
<1>16. p7 \in Seq(Nat) /\ Len(p7) = 8  BY <1>8 DEF DzTail
<1>17. PICK pieces : pieces = <<p1, p2, p3, p4, p5, p6, p7>>  OBVIOUS
<1>18. pieces \in Seq(Seq(Nat)) /\ Len(pieces) = 7
  <2>1. PICK S : S = Seq(Nat)  OBVIOUS
  <2>2. p1 \in S /\ p2 \in S /\ p3 \in S /\ p4 \in S /\ p5 \in S /\ p6 \in S /\ p7 \in S
    BY <1>11, <1>12, <1>13, <1>14, <1>15, <1>16, <2>1
  <2>3. pieces \in Seq(S) /\ Len(pieces) = 7  BY <1>17, <2>2
  <2> QED BY <2>1, <2>3
<1>19. a = FlattenSeq(pieces)
  BY <1>1, <1>2, <1>3, <1>4, <1>5, <1>6, <1>7, <1>8, <1>17 DEF DzFile
<1>20. a \in Seq(Nat)  BY <1>18, <1>19, FlattenType
<1>21. PICK E : StandIn(E, a, pieces)  BY <1>18, <1>19, PiecesStand
<1>22. E[0] = 0 /\ E[7] = Len(a) /\ Len(a) \in Nat /\ \A k \in 1 .. 7 : EndAt(E, a, pieces, k)
  BY <1>18, <1>20, <1>21, LenProperties DEF StandIn
<1>23. E[1] = 22 /\ StandsAt(a, 0, p1)
  <2>1. EndAt(E, a, pieces, 1) /\ pieces[1] = p1  BY <1>17, <1>22
  <2>2. E[1] = E[1 - 1] + Len(p1) /\ StandsAt(a, E[1 - 1], p1)  BY <2>1 DEF EndAt
  <2>3. E[1 - 1] = 0  BY <1>22
  <2> QED BY <1>11, <2>2, <2>3
<1>24. E[2] = 22 + 2 * n /\ StandsAt(a, 22, p2)
  <2>1. EndAt(E, a, pieces, 2) /\ pieces[2] = p2  BY <1>17, <1>22
  <2> QED BY <1>12, <1>23, <2>1 DEF EndAt
<1>25. PICK x : x = Len(p3)  OBVIOUS
<1>26. PICK y : y = Len(p4)  OBVIOUS
<1>27. E[3] = 22 + 2 * n + x /\ StandsAt(a, 22 + 2 * n, p3)
  <2>1. EndAt(E, a, pieces, 3) /\ pieces[3] = p3  BY <1>17, <1>22
  <2> QED BY <1>24, <1>25, <2>1 DEF EndAt
<1>28. E[4] = 22 + 2 * n + x + y /\ StandsAt(a, 22 + 2 * n + x, p4)
  <2>1. EndAt(E, a, pieces, 4) /\ pieces[4] = p4  BY <1>17, <1>22
  <2> QED BY <1>26, <1>27, <2>1 DEF EndAt
<1>29. E[5] = 22 + 2 * n + x + y + z
  <2>1. EndAt(E, a, pieces, 5) /\ pieces[5] = p5  BY <1>17, <1>22
  <2> QED BY <1>14, <1>28, <2>1 DEF EndAt
<1>30. E[6] = E[5] + Len(p6) /\ StandsAt(a, 22 + 2 * n + x + y + z, p6)
  <2>1. EndAt(E, a, pieces, 6) /\ pieces[6] = p6  BY <1>17, <1>22
  <2> QED BY <1>29, <2>1 DEF EndAt
<1>31. Len(a) = E[6] + 8 /\ StandsAt(a, E[6], p7)
  <2>1. EndAt(E, a, pieces, 7) /\ pieces[7] = p7  BY <1>17, <1>22
  <2>2. E[7] = E[7 - 1] + Len(p7) /\ StandsAt(a, E[7 - 1], p7)  BY <2>1 DEF EndAt
  <2>3. 7 - 1 = 6  OBVIOUS
  <2> QED BY <1>16, <1>22, <2>2, <2>3
<1>32. E[6] = Len(a) - 8 /\ Len(a) >= 30
  BY <1>10, <1>13, <1>14, <1>15, <1>22, <1>25, <1>26, <1>29, <1>30, <1>31
<1>33. x \in Nat /\ y \in Nat /\ z \in Nat  BY <1>13, <1>14, <1>25, <1>26
<1>34. DzStands(a, chunks, name, comment, crc, x, y, z, p6, p7)
  BY <1>1, <1>2, <1>3, <1>4, <1>5, <1>9, <1>22, <1>23, <1>24, <1>25, <1>26, <1>27, <1>28, <1>30, <1>31, <1>32
     DEF DzStands
<1> QED BY <1>7, <1>8, <1>20, <1>33, <1>34

\* loop are the states of the loop over the offsets: the sums of the lengths so far.
Sums(loop, chunks, start) ==
    loop = [i \in 0 .. Len(chunks) |-> IF i = 0 THEN start ELSE loop[i - 1] + chunks[i]]

EndsOf(E, chunks) ==
    /\ E \in [0 .. Len(chunks) -> Nat] /\ E[0] = 0
    /\ \A i \in 1 .. Len(chunks) : E[i] = E[i - 1] + chunks[i]

LEMMA OffsetsAre ==
    ASSUME NEW chunks \in Seq(Nat), NEW start \in Nat, NEW E, EndsOf(E, chunks)
    PROVE  \A i \in 1 .. Len(chunks) : Dz!Offsets(chunks, start)[i] = start + E[i - 1]
<1>0a. PICK n : n = Len(chunks)  OBVIOUS
<1>0b. E \in [0 .. n -> Nat] /\ E[0] = 0 /\ \A i \in 1 .. n : E[i] = E[i - 1] + chunks[i]
  BY <1>0a DEF EndsOf
<1> DEFINE loop == CHOOSE loop : Sums(loop, chunks, start)
           H == [i \in 0 .. n |-> start + E[i]]
           S == {i \in 0 .. n : loop[i] = start + E[i]}
<1>1. n \in Nat  BY <1>0a, LenProperties
<1>2. ASSUME NEW i \in 0 .. n PROVE H[i] = IF i = 0 THEN start ELSE H[i - 1] + chunks[i]
  <2>1. CASE i = 0  BY <1>0b, <2>1
  <2>2. CASE i # 0
    <3>1. i \in 1 .. n /\ i - 1 \in 0 .. n  BY <1>1, <2>2
    <3>2. E[i] = E[i - 1] + chunks[i] /\ E[i - 1] \in Nat /\ chunks[i] \in Nat
      BY <1>0a, <1>0b, <3>1, ElementOfSeq
    <3>3. H[i] = start + E[i] /\ H[i - 1] = start + E[i - 1]  BY <3>1
    <3>4. start + (E[i - 1] + chunks[i]) = start + E[i - 1] + chunks[i]  BY <3>2
    <3> QED BY <2>2, <3>2, <3>3, <3>4
  <2> QED BY <2>1, <2>2
<1>3. Sums(H, chunks, start)
  <2>1. H = [i \in 0 .. n |-> H[i]]  OBVIOUS
  <2> HIDE DEF H
  <2>2. H = [i \in 0 .. n |-> IF i = 0 THEN start ELSE H[i - 1] + chunks[i]]  BY <1>2, <2>1
  <2> QED BY <1>0a, <2>2 DEF Sums
<1> HIDE DEF H
<1>4. Sums(loop, chunks, start)  BY <1>3
<1>5. Dz!Offsets(chunks, start) = [i \in 1 .. n |-> loop[i - 1]]  BY <1>0a DEF Dz!Offsets, Sums
<1> HIDE DEF loop
<1>6. \A i \in 0 .. n : loop[i] = IF i = 0 THEN start ELSE loop[i - 1] + chunks[i]
  BY <1>0a, <1>4 DEF Sums
<1>7. 0 \in S
  <2>1. 0 \in 0 .. n /\ start + 0 = start  BY <1>1
  <2>2. loop[0] = start  BY <1>6, <2>1
  <2> QED BY <1>0b, <2>1, <2>2
<1>8. ASSUME NEW i \in 1 .. n, i - 1 \in S PROVE i \in S
  <2>1. i \in 0 .. n /\ i - 1 \in 0 .. n /\ i # 0  BY <1>1
  <2>2. loop[i] = loop[i - 1] + chunks[i] /\ loop[i - 1] = start + E[i - 1]  BY <1>6, <1>8, <2>1
  <2>3. E[i] = E[i - 1] + chunks[i] /\ E[i - 1] \in Nat /\ chunks[i] \in Nat
    BY <1>0a, <1>0b, <2>1, ElementOfSeq
  <2>4. loop[i] = start + E[i]  BY <2>2, <2>3
  <2> QED BY <2>1, <2>4
<1>9. \A i \in 0 .. n : i \in S
  <2> HIDE DEF S
  <2> QED BY <1>1, <1>7, <1>8, UptoInduction
<1>10. ASSUME NEW i \in 1 .. n PROVE Dz!Offsets(chunks, start)[i] = start + E[i - 1]
  <2>1. i - 1 \in 0 .. n  BY <1>1
  <2>2. loop[i - 1] = start + E[i - 1]  BY <1>9, <2>1
  <2> QED BY <1>5, <2>2
<1> QED BY <1>0a, <1>10

\* The last four bytes are the length of what was compressed.
LEMMA LengthReads ==
    ASSUME NEW a \in Seq(Nat), NEW q, q = Len(a) - 8, StandsAt(a, q, DzTail)
    PROVE  Dz!Int32(a, Len(a) - 4) = 263
<1>1. PICK t : t = DzTail  OBVIOUS
<1>2. t \in Seq(Nat) /\ Len(t) = 8 /\ t[5] = 7 /\ t[6] = 1 /\ t[7] = 0 /\ t[8] = 0  BY <1>1 DEF DzTail
<1>3. StandsAt(a, q, t) /\ q \in Nat /\ Len(a) \in Nat  BY <1>1, LenProperties DEF StandsAt
<1>4. ASSUME NEW j \in 0 .. 7 PROVE Dz!getc(a, q + j) = t[j + 1]
  <2>1. Len(t) - 1 = 7  BY <1>2
  <2>2. j \in 0 .. Len(t) - 1  BY <2>1
  <2> QED BY <1>2, <1>3, <2>2, StandsGet
<1>5. PICK p : p = Len(a) - 4  OBVIOUS
<1>6. p = q + 4 /\ p + 1 = q + 5 /\ p + 2 = q + 6 /\ p + 2 + 1 = q + 7  BY <1>3, <1>5
<1>7. Dz!getc(a, p) = 7 /\ Dz!getc(a, p + 1) = 1
  <2>1. Dz!getc(a, q + 4) = t[4 + 1] /\ Dz!getc(a, q + 5) = t[5 + 1]  BY <1>4
  <2>2. 4 + 1 = 5 /\ 5 + 1 = 6  OBVIOUS
  <2> QED BY <1>2, <1>6, <2>1, <2>2
<1>8. Dz!getc(a, p + 2) = 0 /\ Dz!getc(a, p + 2 + 1) = 0
  <2>1. Dz!getc(a, q + 6) = t[6 + 1] /\ Dz!getc(a, q + 7) = t[7 + 1]  BY <1>4
  <2>2. 6 + 1 = 7 /\ 7 + 1 = 8  OBVIOUS
  <2> QED BY <1>2, <1>6, <2>1, <2>2
<1>9. Dz!Int16(a, p) = 263  BY <1>7 DEF Dz!Int16
<1>10. Dz!Int16(a, p + 2) = 0  BY <1>8 DEF Dz!Int16
<1>11. Dz!Int32(a, p) = 263  BY <1>9, <1>10 DEF Dz!Int32
<1> QED BY <1>5, <1>11

\* The CRC of the header is skipped, if there is one.
CRCTakes(a, z) == z = IF Dz!IsSet(Dz!getc(a, Dz!FLG), Dz!FHCRC) THEN 2 ELSE 0

WithCRC(a, length, after) == \E z : CRCTakes(a, z) /\ length \in Nat /\ after = length + z

LEMMA SkipCRCIs ==
    ASSUME NEW a, NEW place, NEW length, NEW after, NEW chunks, WithCRC(a, length, after)
    PROVE  Dz!SkipCRC(a, Reading(place, length, chunks)) = Reading(place, after, chunks)
<1>0. PICK z : CRCTakes(a, z) /\ length \in Nat /\ after = length + z  BY DEF WithCRC
<1>1. PICK h : h = Reading(place, length, chunks)  OBVIOUS
<1>2. h.length = length  BY <1>1 DEF Reading
<1>3. CASE ~Dz!IsSet(Dz!getc(a, Dz!FLG), Dz!FHCRC)
  <2>1. Dz!SkipCRC(a, h) = h  BY <1>3 DEF Dz!SkipCRC
  <2>2. z = 0  BY <1>0, <1>3 DEF CRCTakes
  <2>3. after = length  BY <1>0, <2>2
  <2> QED BY <1>1, <2>1, <2>3
<1>4. CASE Dz!IsSet(Dz!getc(a, Dz!FLG), Dz!FHCRC)
  <2>1. z = 2  BY <1>0, <1>4 DEF CRCTakes
  <2>2. after = length + 2  BY <1>0, <2>1
  <2>3. Dz!SkipCRC(a, h) = [h EXCEPT !.length = after]  BY <1>2, <1>4, <2>2 DEF Dz!SkipCRC
  <2>4. [h EXCEPT !.length = after] = Reading(place, after, chunks)  BY <1>1 DEF Reading
  <2> QED BY <1>1, <2>3, <2>4
<1> QED BY <1>3, <1>4

\* What read_header makes of a dictzip file.
HeaderOf(chunks, start) ==
    [ok |-> TRUE, type |-> "dzip", length |-> 263, chunkLength |-> 700,
     chunks |-> chunks, offsets |-> Dz!Offsets(chunks, start)]

DzRead(a, chunks, name, comment, crc, x, y, z) ==
    /\ a \in Seq(Nat) /\ chunks \in Seq(Nat) /\ name \in Seq(Nat \ {0}) /\ comment \in Seq(Nat \ {0})
    /\ x \in Nat /\ y \in Nat /\ z \in Nat
    /\ DzStands(a, chunks, name, comment, crc, x, y, z, DzBody(chunks), DzTail)

LEMMA ReadHeaderIs ==
    ASSUME NEW a, NEW chunks, NEW name, NEW comment, NEW crc, NEW x, NEW y, NEW z,
           DzRead(a, chunks, name, comment, crc, x, y, z)
    PROVE  Dz!read_header(a) = IF chunks = <<>> THEN [ok |-> FALSE]
                               ELSE HeaderOf(chunks, 22 + 2 * Len(chunks) + x + y + z)
<1> USE DEF DzRead
<1>0. PICK n : n = Len(chunks)  OBVIOUS
<1>1. n \in Nat  BY <1>0, LenProperties
<1>2. PICK flags : flags = DzFlags(name, comment, crc)  OBVIOUS
<1>3. /\ flags \in Nat /\ Dz!IsSet(flags, Dz!FEXTRA)
      /\ Dz!IsSet(flags, Dz!FNAME) <=> name # <<>>
      /\ Dz!IsSet(flags, Dz!COMMENT) <=> comment # <<>>
      /\ Dz!IsSet(flags, Dz!FHCRC) <=> crc # <<>>
  BY <1>2, FlagsAre
<1>4. /\ StandsAt(a, 0, DzHead(flags, n)) /\ StandsAt(a, 22, DzTable(chunks))
      /\ StandsAt(a, 22 + 2 * n, DzText(name)) /\ x = Len(DzText(name))
      /\ StandsAt(a, 22 + 2 * n + x, DzText(comment)) /\ y = Len(DzText(comment))
      /\ z = (IF crc = <<>> THEN 0 ELSE 2)
      /\ StandsAt(a, Len(a) - 8, DzTail)
  BY <1>0, <1>2 DEF DzStands
<1>5. HeadIs(a, flags, n)  BY <1>1, <1>3, <1>4, HeadReads
<1>6. Dz!getc(a, 0) = 31 /\ Dz!getc(a, 1) = 139 /\ Dz!getc(a, Dz!FLG) = flags /\ Dz!Int16(a, Dz!CHUNKLEN) = 700
  BY <1>5 DEF HeadIs
<1>7. PICK p : p = 22 + 2 * n  OBVIOUS
<1>8. PICK l : l = 2 * n + 12  OBVIOUS
<1>9. Dz!ExtraField(a) = Reading(p, l, chunks)
  BY <1>0, <1>3, <1>4, <1>7, <1>8, ExtraFieldIs
<1>10. p \in Nat /\ l \in Nat /\ l + x \in Nat /\ l + x + y \in Nat  BY <1>1, <1>7, <1>8
<1>11. Dz!SkipString(a, Reading(p, l, chunks), Dz!FNAME) = Reading(p + x, l + x, chunks)
  <2>1. x = Len(DzText(name))  BY <1>4
  <2>2. Follows(a, p, Dz!FNAME, name)  BY <1>3, <1>4, <1>6, <1>7 DEF Follows
  <2>3. Dz!SkipString(a, Reading(p, l, chunks), Dz!FNAME)
          = Reading(p + Len(DzText(name)), l + Len(DzText(name)), chunks)
    BY <1>10, <2>2, SkipStringIs
  <2> QED BY <2>1, <2>3
<1>12. Dz!SkipString(a, Reading(p + x, l + x, chunks), Dz!COMMENT) = Reading(p + x + y, l + x + y, chunks)
  <2>1. y = Len(DzText(comment))  BY <1>4
  <2>2. Follows(a, p + x, Dz!COMMENT, comment)  BY <1>3, <1>4, <1>6, <1>7 DEF Follows
  <2>3. Dz!SkipString(a, Reading(p + x, l + x, chunks), Dz!COMMENT)
          = Reading(p + x + Len(DzText(comment)), l + x + Len(DzText(comment)), chunks)
    BY <1>10, <2>2, SkipStringIs
  <2> QED BY <2>1, <2>3
<1>13. Dz!SkipCRC(a, Reading(p + x + y, l + x + y, chunks)) = Reading(p + x + y, l + x + y + z, chunks)
  <2>1. CRCTakes(a, z)  BY <1>3, <1>4, <1>6 DEF CRCTakes
  <2>2. PICK q : q = p + x + y  OBVIOUS
  <2>3. PICK m : m = l + x + y  OBVIOUS
  <2>4. PICK after : after = m + z  OBVIOUS
  <2>5. WithCRC(a, m, after)
    <3>1. m \in Nat  BY <1>10, <2>3
    <3> QED BY <2>1, <2>4, <3>1 DEF WithCRC
  <2>6. Dz!SkipCRC(a, Reading(q, m, chunks)) = Reading(q, after, chunks)  BY <2>5, SkipCRCIs
  <2> QED BY <2>2, <2>3, <2>4, <2>6
<1>14. PICK h : h = Dz!SkipCRC(a, Dz!SkipString(a, Dz!SkipString(a, Dz!ExtraField(a), Dz!FNAME), Dz!COMMENT))
  OBVIOUS
<1>15. h.length = l + x + y + z  BY <1>9, <1>11, <1>12, <1>13, <1>14 DEF Reading
<1>16. PICK e : e = Dz!ExtraField(a)  OBVIOUS
<1>17. e.type = "dzip" /\ e.chunks = chunks  BY <1>9, <1>16 DEF Reading
<1>18. Dz!Int32(a, Len(a) - 4) = 263  BY <1>4, LengthReads
<1>19. Dz!XLEN - 1 + h.length + 1 = 22 + 2 * n + x + y + z
  BY <1>1, <1>8, <1>15 DEF Dz!XLEN
<1>20. Dz!read_header(a)
         = IF e.type = "dzip" /\ e.chunks = <<>> THEN [ok |-> FALSE]
           ELSE [ok |-> TRUE, type |-> e.type, length |-> Dz!Int32(a, Len(a) - 4),
                 chunkLength |-> Dz!Int16(a, Dz!CHUNKLEN), chunks |-> e.chunks,
                 offsets |-> Dz!Offsets(e.chunks, Dz!XLEN - 1 + h.length + 1)]
  BY <1>6, <1>14, <1>16 DEF Dz!read_header
<1>21. Dz!read_header(a)
         = IF chunks = <<>> THEN [ok |-> FALSE]
           ELSE [ok |-> TRUE, type |-> "dzip", length |-> 263, chunkLength |-> 700, chunks |-> chunks,
                 offsets |-> Dz!Offsets(chunks, 22 + 2 * n + x + y + z)]
  BY <1>6, <1>17, <1>18, <1>19, <1>20
<1> QED BY <1>0, <1>21 DEF HeaderOf

\* A file that begins otherwise is a text.
LEMMA TextIs ==
    ASSUME NEW a \in Seq(Nat), Len(a) >= 2, Dz!getc(a, 1) = 139
    PROVE  Dz!read_header(Tail(a)) = [ok |-> TRUE, type |-> "text", length |-> Len(a) - 1]
<1>1. PICK t : t = Tail(a)  OBVIOUS
<1>2. Len(a) \in Nat /\ a # <<>>  BY EmptySeq, LenProperties
<1>3. Len(t) = Len(a) - 1 /\ t[1] = a[1 + 1]
  <2>1. Len(Tail(a)) = Len(a) - 1 /\ \A i \in 1 .. Len(a) - 1 : Tail(a)[i] = a[i + 1]
    BY <1>2, HeadTailProperties
  <2>2. 1 \in 1 .. Len(a) - 1  BY <1>2
  <2> QED BY <1>1, <2>1, <2>2
<1>4. a[1 + 1] = 139  BY <1>2 DEF Dz!getc
<1>5. Dz!getc(t, 0) # 31
  <2>1. 0 < Len(t) /\ 0 + 1 = 1  BY <1>2, <1>3
  <2>2. Dz!getc(t, 0) = t[0 + 1]  BY <2>1 DEF Dz!getc
  <2> QED BY <1>3, <1>4, <2>1, <2>2
<1>6. Dz!read_header(t) = [ok |-> TRUE, type |-> "text", length |-> Len(t)]
  BY <1>5 DEF Dz!read_header
<1> QED BY <1>1, <1>3, <1>6

-----------------------------------------------------------------------------
\* The letters of one kind.
LEMMA DzLettersType ==
    ASSUME NEW L, NEW letters \in Seq(L), NEW kind, NEW S, \A l \in L : l[1] = kind => l[2] \in S
    PROVE  DzLetters(letters, kind) \in Seq(S)
<1>1. PICK n : n = Len(letters)  OBVIOUS
<1>2. n \in Nat  BY <1>1, LenProperties
<1> DEFINE p(i) == IF letters[i][1] = kind THEN <<letters[i][2]>> ELSE <<>>
<1>3. ASSUME NEW i \in 1 .. n PROVE p(i) \in Seq(S)
  <2>1. letters[i] \in L  BY <1>1, ElementOfSeq
  <2>2. <<>> \in Seq(S)  OBVIOUS
  <2>3. CASE letters[i][1] = kind
    <3>1. letters[i][2] \in S  BY <2>1, <2>3
    <3>2. <<letters[i][2]>> \in Seq(S)  BY <3>1
    <3> QED BY <2>3, <3>2
  <2>4. CASE letters[i][1] # kind  BY <2>2, <2>4
  <2> QED BY <2>3, <2>4
<1>4. PICK pieces : pieces = [i \in 1 .. n |-> p(i)]  OBVIOUS
<1>5. DzLetters(letters, kind) = FlattenSeq(pieces)  BY <1>1, <1>4 DEF DzLetters
<1> HIDE DEF p
<1>6. pieces \in [1 .. n -> Seq(S)]  BY <1>3, <1>4
<1>7. pieces \in Seq(Seq(S))  BY <1>2, <1>6, PiecesAreSeq
<1> QED BY <1>5, <1>7, FlattenType

\* What is opened has its chunks where the offsets say.
LEMMA OpenedIsRight ==
    ASSUME NEW chunks \in Seq(Nat), NEW name \in Seq(Nat \ {0}), NEW comment \in Seq(Nat \ {0}), NEW crc
    PROVE  DzOpens(DzFile(chunks, name, comment, crc), chunks)
<1>0a. PICK bytes : bytes = DzFile(chunks, name, comment, crc)  OBVIOUS
<1>0b. PICK files : files = [fname \in {"dz", "text"} |-> IF fname = "dz" THEN bytes ELSE Tail(bytes)]
  OBVIOUS
<1>0c. PICK dz : dz = Dz!open(files, "dz")  OBVIOUS
<1>0d. PICK text : text = Dz!open(files, "text")  OBVIOUS
<1>0e. files = DzFiles(bytes)  BY <1>0b DEF DzFiles
<1>1. PICK n : n = Len(chunks)  OBVIOUS
<1>2. bytes \in Seq(Nat)  BY <1>0a, DzFileStands
<1>3. PICK x, y, z \in Nat :
        DzStands(bytes, chunks, name, comment, crc, x, y, z, DzBody(chunks), DzTail)
  BY <1>0a, DzFileStands
<1>4. PICK start : start = 22 + 2 * n + x + y + z  OBVIOUS
<1>5. n \in Nat /\ start \in Nat
  <2>1. n \in Nat  BY <1>1, LenProperties
  <2> QED BY <1>4, <2>1
<1>6. Dz!read_header(bytes) = IF chunks = <<>> THEN [ok |-> FALSE] ELSE HeaderOf(chunks, start)
  <2>1. Dz!read_header(bytes) = IF chunks = <<>> THEN [ok |-> FALSE]
                                ELSE HeaderOf(chunks, 22 + 2 * Len(chunks) + x + y + z)
    <3>1. DzRead(bytes, chunks, name, comment, crc, x, y, z)  BY <1>2, <1>3 DEF DzRead
    <3> QED BY <3>1, ReadHeaderIs
  <2> QED BY <1>1, <1>4, <2>1
<1>7. Dz!read_header(Tail(bytes)) = [ok |-> TRUE, type |-> "text", length |-> Len(bytes) - 1]
  <2>1. PICK flags : flags = DzFlags(name, comment, crc)  OBVIOUS
  <2>2. StandsAt(bytes, 0, DzHead(flags, n)) /\ flags \in Nat /\ Len(bytes) \in Nat /\ Len(bytes) >= 30
    BY <1>1, <1>3, <2>1, FlagsAre DEF DzStands
  <2>3. HeadIs(bytes, flags, n)  BY <1>2, <1>5, <2>2, HeadReads
  <2>4. Dz!getc(bytes, 1) = 139 /\ Len(bytes) >= 2  BY <2>2, <2>3 DEF HeadIs
  <2> QED BY <1>2, <2>4, TextIs
<1>8. DOMAIN files = {"dz", "text"} /\ files["dz"] = bytes /\ files["text"] = Tail(bytes)
  BY <1>0b
<1>9. text = [header |-> [ok |-> TRUE, type |-> "text", length |-> Len(bytes) - 1],
              map |-> Tail(bytes), ok |-> TRUE]
  <2>1. PICK t : t = Dz!read_header(Tail(bytes))  OBVIOUS
  <2>2. t.ok  BY <1>7, <2>1
  <2>3. text = [header |-> t, map |-> Tail(bytes), ok |-> TRUE]
    BY <1>0d, <1>8, <2>1, <2>2 DEF Dz!open
  <2> QED BY <1>7, <2>1, <2>3
<1>9a. text.ok /\ text.header.type = "text" /\ text.header.length = Len(bytes) - 1  BY <1>9
<1>10. /\ dz.ok <=> chunks # <<>>
       /\ dz.ok =>
            /\ dz.header.type = "dzip" /\ dz.header.length = 263 /\ dz.header.chunkLength = 700
            /\ dz.header.chunks = chunks
            /\ \A i \in 1 .. Len(chunks) :
                 SubSeq(dz.map, dz.header.offsets[i] + 1, dz.header.offsets[i] + chunks[i])
                     = Chunk(chunks, i)
  <2>1. CASE chunks = <<>>
    <3>1. PICK t : t = Dz!read_header(bytes)  OBVIOUS
    <3>2. ~t.ok  BY <1>6, <2>1, <3>1
    <3>3. dz = [ok |-> FALSE]  BY <1>0c, <1>8, <3>1, <3>2 DEF Dz!open
    <3>4. ~dz.ok  BY <3>3
    <3> QED BY <2>1, <3>4
  <2>2. CASE chunks # <<>>
    <3>1. PICK t : t = Dz!read_header(bytes)  OBVIOUS
    <3>2. t = HeaderOf(chunks, start)  BY <1>6, <2>2, <3>1
    <3>3. t.ok  BY <3>2 DEF HeaderOf
    <3>4. dz = [header |-> t, map |-> bytes, ok |-> TRUE]  BY <1>0c, <1>8, <3>1, <3>3 DEF Dz!open
    <3>5. dz.ok /\ dz.header = t /\ dz.map = bytes  BY <3>4
    <3>6. /\ t.type = "dzip" /\ t.length = 263 /\ t.chunkLength = 700 /\ t.chunks = chunks
          /\ t.offsets = Dz!Offsets(chunks, start)
      BY <3>2 DEF HeaderOf
    <3>7. PICK body : body = DzBody(chunks)  OBVIOUS
    <3>8. body \in Seq(Nat) /\ StandsAt(bytes, start, body)
      BY <1>1, <1>3, <1>4, <3>7, BodyOfChunks DEF DzStands
    <3>9. PICK E \in [0 .. n -> Nat] :
            /\ E[0] = 0
            /\ \A i \in 1 .. n : /\ E[i] = E[i - 1] + chunks[i]
                                 /\ StandsAt(body, E[i - 1], Chunk(chunks, i))
                                 /\ Chunk(chunks, i) \in Seq(Nat)
                                 /\ Len(Chunk(chunks, i)) = chunks[i]
      BY <1>1, <3>7, BodyOfChunks
    <3>10. \A i \in 1 .. n : t.offsets[i] = start + E[i - 1]
      <4>1. EndsOf(E, chunks)  BY <1>1, <3>9 DEF EndsOf
      <4>2. \A i \in 1 .. n : Dz!Offsets(chunks, start)[i] = start + E[i - 1]
        BY <1>1, <1>5, <4>1, OffsetsAre
      <4> QED BY <3>6, <4>2
    <3>11. ASSUME NEW i \in 1 .. n
           PROVE  SubSeq(bytes, t.offsets[i] + 1, t.offsets[i] + chunks[i]) = Chunk(chunks, i)
      <4>1. PICK c : c = Chunk(chunks, i)  OBVIOUS
      <4>2. c \in Seq(Nat) /\ Len(c) = chunks[i] /\ StandsAt(body, E[i - 1], c)  BY <3>9, <4>1
      <4>3. StandsAt(bytes, start + E[i - 1], c)  BY <1>2, <3>8, <4>2, StandsWithin
      <4>4. StandsAt(bytes, t.offsets[i], c)  BY <3>10, <4>3
      <4> QED BY <1>2, <4>1, <4>2, <4>4, StandsRead
    <3>12. \A i \in 1 .. Len(chunks) :
             SubSeq(dz.map, dz.header.offsets[i] + 1, dz.header.offsets[i] + chunks[i])
                 = Chunk(chunks, i)
      BY <1>1, <3>5, <3>11
    <3>13. /\ dz.header.type = "dzip" /\ dz.header.length = 263 /\ dz.header.chunkLength = 700
           /\ dz.header.chunks = chunks
      BY <3>5, <3>6
    <3> QED BY <2>2, <3>5, <3>12, <3>13
  <2> QED BY <2>1, <2>2
<1> QED BY <1>0a, <1>0c, <1>0d, <1>0e, <1>9a, <1>10 DEF DzOpens

LEMMA InputChunksAreThere == StringsTyped => ChunksAreThere
<1> SUFFICES ASSUME StringsTyped, function = "header" PROVE ChunksAreThere  BY DEF ChunksAreThere
<1>1. /\ input \in Seq(Letters["header"])
      /\ Letters["header"] \subseteq {"chunk"} \X Nat
                                     \union {"name", "comment", "crc"} \X (Nat \ {0})
  BY InputsAssumption DEF StringsTyped
<1>2. ASSUME NEW l \in Letters["header"]
      PROVE  (l[1] = "chunk" => l[2] \in Nat) /\ (l[1] # "chunk" => l[2] \in Nat \ {0})
  BY <1>1
<1>3. DzLetters(input, "chunk") \in Seq(Nat)  BY <1>1, <1>2, DzLettersType
<1>4. DzLetters(input, "name") \in Seq(Nat \ {0})
  <2>1. \A l \in Letters["header"] : l[1] = "name" => l[2] \in Nat \ {0}  BY <1>2
  <2> QED BY <1>1, <2>1, DzLettersType
<1>5. DzLetters(input, "comment") \in Seq(Nat \ {0})
  <2>1. \A l \in Letters["header"] : l[1] = "comment" => l[2] \in Nat \ {0}  BY <1>2
  <2> QED BY <1>1, <2>1, DzLettersType
<1> QED BY <1>3, <1>4, <1>5, OpenedIsRight DEF ChunksAreThere

\* Every chunk of a dictzip file is where dictData::read_header says, with the length
\* it says, whatever the name and comment in the header and however many chunks there
\* are; a file that does not begin like one is opened as a text, and one without
\* chunks is not opened.
THEOREM ChunksAreAlwaysThere == InputSpec => []ChunksAreThere
BY StringsAlwaysTyped, InputChunksAreThere, PTL
=============================================================================
