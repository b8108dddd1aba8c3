--------------------------- MODULE ProtocolProofs ---------------------------
(***************************************************************************)
(* The client and the session read and write the same replies, for every   *)
(* set of scripts, dictionaries, words and articles; what their lines are  *)
(* made of comes through the escapes (Escaping), for every string; and the *)
(* digests by which they know each other do not depend on the pieces in    *)
(* which MD5Update is given a message (MD5).                               *)
(***************************************************************************)
EXTENDS Protocol, Inputs, FiniteSetTheorems, WellFoundedInduction, SequenceTheorems, TLAPS

-----------------------------------------------------------------------------
(* Flattening.                                                             *)

\* A set of positions has a least one.
LEMMA LeastPosition ==
    ASSUME NEW n \in Nat, NEW S \in SUBSET (0 .. n), S # {}
    PROVE  \E m \in S : \A y \in S : m <= y
<1> DEFINE UpTo(x) == {y \in S : y <= x}
           T == {UpTo(x) : x \in S}
<1>1. \A x, y, z \in S : x \in Int /\ (x <= y /\ y <= z => x <= z)  OBVIOUS
<1>2. T \in SUBSET SUBSET (0 .. n) /\ T # {}  OBVIOUS
<1> HIDE DEF T
<1>3. PICK a \in T : \A b \in T : b \subseteq a => b = a
  <2>1. IsFiniteSet(0 .. n)  BY FS_Interval
  <2>2. T \subseteq FiniteSubsetsOf(0 .. n)  BY <1>2, <2>1, FS_FiniteSubsetsOfFinite
  <2>3. IsWellFoundedOn(StrictSubsetOrdering(0 .. n), FiniteSubsetsOf(0 .. n))
    BY FS_StrictSubsetOrderingWellFounded
  <2>4. PICK a \in T : \A b \in T : ~ (<<b, a>> \in StrictSubsetOrdering(0 .. n))
    BY <1>2, <2>2, <2>3, WFMin
  <2> QED BY <1>2, <2>4 DEF StrictSubsetOrdering
<1>4. PICK m \in S : a = UpTo(m)  BY <1>3 DEF T
<1>5. ASSUME NEW y \in S, y < m PROVE FALSE
  <2>1. UpTo(y) \in T  BY DEF T
  <2>2. y <= m  BY <1>1, <1>5
  <2>2a. UpTo(y) \subseteq UpTo(m)  BY <2>2, <1>1
  <2>3. m \in UpTo(y)  BY <1>1, <1>3, <1>4, <2>1, <2>2a
  <2> QED BY <2>3, <1>1, <1>5
<1> QED BY <1>1, <1>5

\* G adds up the members of seqs from the first on, as FlattenSeq does.
AddsUp(G, seqs) ==
    G = [i \in 1 .. Len(seqs) |-> IF i = 1 THEN seqs[i] ELSE G[i - 1] \o seqs[i]]

\* Every sequence can be added up.
LEMMA SumExists ==
    ASSUME NEW S, NEW seqs \in Seq(Seq(S))
    PROVE  \E G : AddsUp(G, seqs)
<1> DEFINE n == Len(seqs)
           Sums(m, G) == G = [i \in 1 .. m |-> IF i = 1 THEN seqs[i] ELSE G[i - 1] \o seqs[i]]
           Bad == {m \in 0 .. n : ~ \E G : Sums(m, G)}
<1>1. n \in Nat  OBVIOUS
<1>2. ASSUME Bad # {} PROVE FALSE
  <2>1. PICK m \in Bad : \A y \in Bad : m <= y  BY <1>1, <1>2, LeastPosition
  <2>2. Sums(0, <<>>)  OBVIOUS
  <2>3. m # 0  BY <2>2
  <2>4. m \in 1 .. n /\ m - 1 \in 0 .. n  BY <1>1, <2>3
  <2>5. PICK G : Sums(m - 1, G)
    <3>1. ~(m <= m - 1)  BY <2>4
    <3>2. m - 1 \notin Bad  BY <2>1, <3>1
    <3> HIDE DEF Sums
    <3> QED BY <2>4, <3>2
  <2> DEFINE H == [i \in 1 .. m |-> IF i = m THEN IF m = 1 THEN seqs[m] ELSE G[m - 1] \o seqs[m]
                                    ELSE G[i]]
  <2>6. ASSUME NEW i \in 1 .. m
        PROVE  H[i] = IF i = 1 THEN seqs[i] ELSE H[i - 1] \o seqs[i]
    <3>1. CASE i = m
      <4>1. CASE m = 1  BY <3>1, <4>1
      <4>2. CASE m # 1
        <5>1. m - 1 \in 1 .. m /\ m - 1 # m  BY <2>4, <4>2
        <5>2. H[m - 1] = G[m - 1]  BY <5>1
        <5> QED BY <3>1, <4>2, <5>2
      <4> QED BY <4>1, <4>2
    <3>2. CASE i # m
      <4>1. i \in 1 .. m - 1  BY <2>4, <3>2
      <4>2. H[i] = G[i]  BY <3>2
      <4>3. G[i] = IF i = 1 THEN seqs[i] ELSE G[i - 1] \o seqs[i]
        BY <4>1, <2>5
      <4>4. i # 1 => i - 1 \in 1 .. m /\ i - 1 # m  BY <2>4, <4>1
      <4>5. i # 1 => H[i - 1] = G[i - 1]  BY <4>4
      <4> QED BY <4>2, <4>3, <4>5
    <3> QED BY <3>1, <3>2
  <2>7. Sums(m, H)  BY <2>6
  <2> QED BY <2>1, <2>7
<1>3. n \in 0 .. n  BY <1>1
<1> QED BY <1>2, <1>3 DEF AddsUp

\* What it adds up to are sequences again.
LEMMA SumType ==
    ASSUME NEW S, NEW seqs \in Seq(Seq(S)), NEW G, AddsUp(G, seqs)
    PROVE  \A i \in 1 .. Len(seqs) : G[i] \in Seq(S)
<1> DEFINE n == Len(seqs)
           Bad == {m \in 1 .. n : G[m] \notin Seq(S)}
<1>1. n \in Nat /\ Bad \in SUBSET (0 .. n)  OBVIOUS
<1>2. ASSUME Bad # {} PROVE FALSE
  <2>1. PICK m \in Bad : \A y \in Bad : m <= y  BY <1>1, <1>2, LeastPosition
  <2>2. m \in 1 .. n /\ seqs[m] \in Seq(S)  BY <2>1
  <2>3. G[m] = IF m = 1 THEN seqs[m] ELSE G[m - 1] \o seqs[m]
    BY <2>2 DEF AddsUp
  <2>4. m # 1 => m - 1 \in 1 .. n /\ ~(m <= m - 1)  BY <2>2, <1>1
  <2>5. m # 1 => G[m - 1] \in Seq(S)  BY <2>1, <2>4
  <2>6. G[m] \in Seq(S)  BY <2>2, <2>3, <2>5, ConcatProperties
  <2> QED BY <2>1, <2>6
<1> QED BY <1>2

\* Sequences of sequences.
Lists(S) == Seq(Seq(S))

\* FlattenSeq ends where such a sum ends.
LEMMA FlattenIsSum ==
    ASSUME NEW S, NEW seqs \in Seq(Seq(S)), seqs # <<>>
    PROVE  \E G : /\ AddsUp(G, seqs)
                  /\ FlattenSeq(seqs) = G[Len(seqs)]
                  /\ \A i \in 1 .. Len(seqs) : G[i] \in Seq(S)
<1> DEFINE G == CHOOSE flatten : AddsUp(flatten, seqs)
<1>1. AddsUp(G, seqs)  BY SumExists
<1>2. Len(seqs) # 0  BY EmptySeq
<1>3. FlattenSeq(seqs) = G[Len(seqs)]  BY <1>2 DEF FlattenSeq, AddsUp
<1>4. \A i \in 1 .. Len(seqs) : G[i] \in Seq(S)  BY <1>1, SumType
<1> QED BY <1>1, <1>3, <1>4

\* Nothing adds up to nothing.
LEMMA FlattenEmpty == FlattenSeq(<<>>) = <<>>
BY DEF FlattenSeq

\* FlattenSeq of a sequence of sequences is a sequence.
LEMMA FlattenType ==
    ASSUME NEW S, NEW seqs \in Seq(Seq(S))
    PROVE  FlattenSeq(seqs) \in Seq(S)
<1>2. CASE seqs = <<>>  BY <1>2, FlattenEmpty, EmptySeq
<1>3. CASE seqs # <<>>
  <2>1. Len(seqs) \in 1 .. Len(seqs)  BY <1>3, EmptySeq
  <2> QED BY <1>3, <2>1, FlattenIsSum
<1> QED BY <1>2, <1>3

\* It begins with the first of them and goes on with the others.
LEMMA FlattenCons ==
    ASSUME NEW S, NEW seqs \in Lists(S), seqs # <<>>
    PROVE  FlattenSeq(seqs) = seqs[1] \o FlattenSeq(Tail(seqs))
<1> DEFINE n == Len(seqs)
           t == Tail(seqs)
<1>1. n \in Nat \ {0} /\ seqs[1] \in Seq(S)  BY EmptySeq DEF Lists
<1>2. /\ t \in Lists(S) /\ Len(t) = n - 1
      /\ \A i \in 1 .. n - 1 : t[i] = seqs[i + 1]
  BY HeadTailProperties DEF Lists
<1>3. PICK G : AddsUp(G, seqs) /\ FlattenSeq(seqs) = G[n]  BY FlattenIsSum DEF Lists
<1>4. 1 \in 1 .. n /\ G[1] = seqs[1]  BY <1>1, <1>3 DEF AddsUp
<1> HIDE DEF n, t
<1>5. CASE n = 1
  <2>1. t = <<>>  BY <1>2, <1>5, EmptySeq DEF Lists
  <2>2. FlattenSeq(t) = <<>>  BY <2>1, FlattenEmpty
  <2> QED BY <1>1, <1>3, <1>4, <1>5, <2>2, ConcatEmptySeq DEF t
<1>6. CASE n # 1
  <2>1. n - 1 \in Nat \ {0} /\ t # <<>>  BY <1>1, <1>2, <1>6, EmptySeq DEF Lists
  <2>2. PICK H : /\ AddsUp(H, t) /\ FlattenSeq(t) = H[n - 1]
                 /\ \A i \in 1 .. n - 1 : H[i] \in Seq(S)
    BY <1>2, <2>1, FlattenIsSum DEF Lists
  <2> DEFINE Bad == {m \in 1 .. n - 1 : G[m + 1] # seqs[1] \o H[m]}
  <2>b. \A m \in 1 .. n - 1 : G[m + 1] # seqs[1] \o H[m] <=> m \in Bad  OBVIOUS
  <2>c. Bad \subseteq 1 .. n - 1  OBVIOUS
  <2> HIDE DEF Bad
  <2>3. ASSUME Bad # {} PROVE FALSE
    <3>1. PICK m \in Bad : \A y \in Bad : m <= y
      <4>1. 1 .. n - 1 \subseteq 0 .. n /\ n \in Nat  BY <1>1
      <4> QED BY <2>3, <2>c, <4>1, LeastPosition
    <3>2. m \in 1 .. n - 1 /\ m + 1 \in 1 .. n /\ m + 1 # 1 /\ (m + 1) - 1 = m  BY <1>1, <2>c
    <3>3. G[m + 1] = G[m] \o seqs[m + 1]  BY <1>3, <3>2 DEF AddsUp, n
    <3>4. H[m] = IF m = 1 THEN t[m] ELSE H[m - 1] \o t[m]
      BY <1>2, <2>2, <3>2 DEF AddsUp
    <3>5. t[m] = seqs[m + 1] /\ t[m] \in Seq(S)  BY <1>2, <3>2 DEF Lists
    <3>6. CASE m = 1  BY <2>b, <3>1, <3>2, <3>3, <3>4, <3>5, <3>6, <1>4
    <3>7. CASE m # 1
      <4>1. m - 1 \in 1 .. n - 1 /\ (m - 1) + 1 = m /\ ~(m <= m - 1)  BY <3>2, <3>7, <1>1
      <4>2. G[m] = seqs[1] \o H[m - 1]  BY <2>b, <3>1, <4>1
      <4>3. H[m - 1] \in Seq(S)  BY <2>2, <4>1
      <4>4. H[m] = H[m - 1] \o t[m]  BY <3>4, <3>7
      <4>5. G[m] \o t[m] = seqs[1] \o H[m]
        <5> DEFINE a == seqs[1]
                   b == H[m - 1]
                   c == t[m]
        <5>1. a \in Seq(S) /\ b \in Seq(S) /\ c \in Seq(S)  BY <1>1, <4>3, <3>5
        <5>2. G[m] \o t[m] = (a \o b) \o c /\ seqs[1] \o H[m] = a \o (b \o c)
          BY <4>2, <4>4
        <5> HIDE DEF a, b, c
        <5>3. (a \o b) \o c = a \o (b \o c)  BY <5>1, ConcatAssociative
        <5> QED BY <5>2, <5>3
      <4> QED BY <2>b, <3>1, <3>2, <3>3, <3>4, <3>5, <4>5
    <3> QED BY <3>6, <3>7
  <2>4. n - 1 \in 1 .. n - 1 /\ (n - 1) + 1 = n  BY <2>1, <1>1
  <2> QED BY <1>3, <2>2, <2>3, <2>4, <2>b DEF t
<1> QED BY <1>5, <1>6

\* The members of s as F shows them, one after the other.
Mapped(F, s) == [i \in DOMAIN s |-> F[s[i]]]
Flat(F, s) == FlattenSeq(Mapped(F, s))

\* Mapping keeps the first member first.
LEMMA MappedCons ==
    ASSUME NEW T, NEW S, NEW F \in [T -> Seq(S)], NEW s \in Seq(T)
    PROVE  /\ Mapped(F, s) \in Lists(S)
           /\ s = <<>> => Mapped(F, s) = <<>>
           /\ s # <<>> => /\ Mapped(F, s) # <<>>
                          /\ Mapped(F, s)[1] = F[Head(s)]
                          /\ Tail(Mapped(F, s)) = Mapped(F, Tail(s))
<1> DEFINE n == Len(s)
           g == Mapped(F, s)
<1>1. n \in Nat /\ DOMAIN s = 1 .. n /\ \A i \in 1 .. n : s[i] \in T  OBVIOUS
<1>2. g \in [1 .. n -> Seq(S)] /\ \A i \in 1 .. n : g[i] = F[s[i]]
  BY <1>1 DEF Mapped
<1>3. g \in Lists(S) /\ Len(g) = n
  <2> HIDE DEF g, n
  <2>1. g \in Seq(Seq(S))  BY <1>1, <1>2, SeqDef
  <2> QED BY <1>1, <1>2, <2>1, LenProperties DEF Lists
<1>4. s = <<>> => g = <<>>
  <2>1. s = <<>> => Len(g) = 0  BY <1>3
  <2> QED BY <2>1, <1>3, EmptySeq DEF Lists
<1>5. ASSUME s # <<>>
      PROVE  g # <<>> /\ g[1] = F[Head(s)] /\ Tail(g) = Mapped(F, Tail(s))
  <2> DEFINE t == Tail(s)
             h == Tail(g)
  <2>1. n # 0 /\ 1 \in 1 .. n /\ Head(s) = s[1]  BY <1>1, <1>5
  <2>2. g # <<>> /\ g[1] = F[Head(s)]
    <3>1. g[1] = F[Head(s)]  BY <1>2, <2>1
    <3>2. g # <<>>
      <4>1. CASE g = <<>>
        <5>1. Len(g) = 0  BY <4>1
        <5> QED BY <5>1, <1>3, <2>1
      <4> QED BY <4>1
    <3> QED BY <3>1, <3>2
  <2>3. /\ t \in Seq(T) /\ Len(t) = n - 1 /\ DOMAIN t = 1 .. n - 1
        /\ \A i \in 1 .. n - 1 : t[i] = s[i + 1]
    BY <1>1, <1>5, HeadTailProperties, LenProperties
  <2>4. /\ h \in Seq(Seq(S)) /\ Len(h) = n - 1 /\ DOMAIN h = 1 .. n - 1
        /\ \A i \in 1 .. n - 1 : h[i] = g[i + 1]
    <3> HIDE DEF g
    <3> QED BY <1>1, <1>3, <2>2, HeadTailProperties, LenProperties DEF Lists
  <2>5. \A i \in 1 .. n - 1 : h[i] = F[t[i]]
    <3> TAKE i \in 1 .. n - 1
    <3>1. i + 1 \in 1 .. n  BY <1>1
    <3> QED BY <1>2, <2>3, <2>4, <3>1
  <2>6. h = [i \in 1 .. n - 1 |-> h[i]]
    <3> HIDE DEF h, n
    <3>1. h \in [1 .. n - 1 -> Seq(S)]  BY <2>4, LenProperties
    <3> QED BY <3>1
  <2>7. Mapped(F, t) = [i \in 1 .. n - 1 |-> F[t[i]]]  BY <2>3 DEF Mapped
  <2> HIDE DEF t, h, n, g
  <2> QED BY <2>2, <2>5, <2>6, <2>7 DEF t, h
<1> QED BY <1>3, <1>4, <1>5

\* So does showing.
LEMMA FlatCons ==
    ASSUME NEW T, NEW S, NEW F \in [T -> Seq(S)], NEW s \in Seq(T)
    PROVE  /\ Flat(F, s) \in Seq(S)
           /\ s = <<>> => Flat(F, s) = <<>>
           /\ s # <<>> => Flat(F, s) = F[Head(s)] \o Flat(F, Tail(s))
<1>1. Flat(F, s) \in Seq(S)  BY MappedCons, FlattenType DEF Flat, Lists
<1>2. s = <<>> => Flat(F, s) = <<>>
  <2>1. s = <<>> => Mapped(F, s) = <<>>  BY MappedCons
  <2> QED BY <2>1, FlattenEmpty DEF Flat
<1>3. ASSUME s # <<>> PROVE Flat(F, s) = F[Head(s)] \o Flat(F, Tail(s))
  <2> DEFINE g == Mapped(F, s)
  <2>1. g \in Lists(S) /\ g # <<>> /\ g[1] = F[Head(s)] /\ Tail(g) = Mapped(F, Tail(s))
    BY <1>3, MappedCons
  <2> HIDE DEF g
  <2>2. FlattenSeq(g) = g[1] \o FlattenSeq(Tail(g))  BY <2>1, FlattenCons
  <2> QED BY <2>1, <2>2 DEF Flat, g
<1> QED BY <1>1, <1>2, <1>3

-----------------------------------------------------------------------------
(* What is in the stream and what is printed.                              *)

Codes == {"HELLO", "UNAVAILABLE", "OK", "GOODBYE", "DENIED", "NOTSET", "NOUSER"}
Tags == {"l", "r", "g", "f", "d"}
Names == {Books[i] : i \in DOMAIN Books}
Value == Codes \cup Tags \cup {Empty, "value", "Links", "ad"}
             \cup Names \cup Queries \cup Words \cup Articles
Field == [kind : {"line", "str", "data"}, v : Value]

\* Names, words and articles, none of which looks like the end of a list.
Named == Value \ {Empty}
EntryBlock == [word : Named, articles : Seq(Named) \ {<<>>}]
BookBlock == [name : Named, entries : Seq(EntryBlock)]
DataBlock == [name : Named, words : Seq(Named)]
SearchBlock == [tag : {"l", "r", "g", "f"}, list : Seq(Named)]
                 \cup [tag : {"d"}, list : Seq(DataBlock)]

\* One field.
LEMMA FieldType ==
    ASSUME NEW v \in Value
    PROVE  /\ Line(v) \in Seq(Field) /\ Str(v) \in Seq(Field) /\ Data(v) \in Seq(Field)
           /\ Line(v) = <<[kind |-> "line", v |-> v]>>
           /\ Str(v) = <<[kind |-> "str", v |-> v]>>
           /\ Data(v) = <<[kind |-> "data", v |-> v]>>
           /\ [kind |-> "line", v |-> v] \in Field /\ [kind |-> "str", v |-> v] \in Field
           /\ [kind |-> "data", v |-> v] \in Field
BY DEF Line, Str, Data, Field

\* The first of what is sent is read first.
LEMMA Prepend ==
    ASSUME NEW S, NEW x \in S, NEW r \in Seq(S)
    PROVE  /\ <<x>> \o r \in Seq(S) /\ <<x>> \o r # <<>>
           /\ Head(<<x>> \o r) = x /\ Tail(<<x>> \o r) = r
<1> DEFINE q == <<x>> \o r
<1>1. q \in Seq(S) /\ Len(q) = 1 + Len(r) /\ q[1] = x  OBVIOUS
<1>2. q # <<>>  BY <1>1
<1>3. Head(q) = x  BY <1>1, <1>2
<1>4. Len(r) \in Nat /\ \A i \in 1 .. Len(r) : q[i + 1] = r[i]  OBVIOUS
<1>5. Tail(q) \in Seq(S) /\ Len(Tail(q)) = Len(r) /\ \A i \in 1 .. Len(r) : Tail(q)[i] = r[i]
  <2> HIDE DEF q
  <2> QED BY <1>1, <1>2, <1>4, HeadTailProperties
<1>6. Tail(q) = r
  <2> HIDE DEF q
  <2> QED BY <1>5, SeqEqual
<1> QED BY <1>1, <1>2, <1>3, <1>6

\* A sequence is its first member and the others.
LEMMA HeadThenTail ==
    ASSUME NEW S, NEW s \in Seq(S), s # <<>>
    PROVE  s = <<Head(s)>> \o Tail(s)
OBVIOUS

\* Reading leaves what is lost behind the rest.
LEMMA ReadFront ==
    ASSUME NEW S, NEW w \in Seq(S), NEW lost \in Seq(S), w # <<>>
    PROVE  /\ w \o lost \in Seq(S) /\ Tail(w) \in Seq(S) /\ Head(w) \in S
           /\ Head(w \o lost) = Head(w) /\ Tail(w \o lost) = Tail(w) \o lost
<1> DEFINE x == Head(w)
           r == Tail(w)
<1>1. x \in S /\ r \in Seq(S)  BY HeadTailProperties
<1>2. w = <<x>> \o r  OBVIOUS
<1> HIDE DEF x, r
<1>3. w \o lost = <<x>> \o (r \o lost)
  <2>1. <<x>> \in Seq(S)  BY <1>1
  <2> QED BY <1>1, <1>2, <2>1, ConcatAssociative
<1>4. r \o lost \in Seq(S)  BY <1>1, ConcatProperties
<1>5. Head(w \o lost) = x /\ Tail(w \o lost) = r \o lost /\ w \o lost \in Seq(S)
  BY <1>1, <1>3, <1>4, Prepend
<1> QED BY <1>1, <1>5 DEF x, r

\* What is shown grows at its end.
LEMMA ShowNext ==
    ASSUME NEW S, NEW p \in Seq(S), NEW x \in S, NEW o \in Seq(S)
    PROVE  Append(p, x) \in Seq(S) /\ p \o (<<x>> \o o) = Append(p, x) \o o
<1>1. <<x>> \in Seq(S)  OBVIOUS
<1>2. Append(p, x) = p \o <<x>> /\ Append(p, x) \in Seq(S)
  BY AppendIsConcat, AppendProperties
<1>3. (p \o <<x>>) \o o = p \o (<<x>> \o o)  BY <1>1, ConcatAssociative
<1> QED BY <1>2, <1>3

\* What the session writes for one dictionary, word or article, and what the
\* client prints of it, are sequences.
LEMMA BlockTypes ==
    /\ \A a \in Named : Str(a) \in Seq(Field) /\ Data(a) \in Seq(Field) /\ <<a>> \in Seq(Value)
    /\ Str(Empty) \in Seq(Field) /\ NoData \in Seq(Field)
    /\ \A s \in Seq(Named) : s \in Seq(Value)
<1>1. Named \subseteq Value /\ Empty \in Value  BY DEF Named, Value
<1>2. \A a \in Value : Str(a) \in Seq(Field) /\ Data(a) \in Seq(Field)  BY FieldType
<1>3. \A s \in Seq(Named) : s \in Seq(Value)  BY <1>1, SeqMonotonic
<1>4. \A a \in Value : <<a>> \in Seq(Value)  OBVIOUS
<1> QED BY <1>1, <1>2, <1>3, <1>4 DEF NoData

\* Blocks of data, one after the other.
LEMMA DataCons ==
    ASSUME NEW s \in Seq(Named)
    PROVE  /\ Concat(Data, s) \in Seq(Field)
           /\ s = <<>> => Concat(Data, s) = <<>>
           /\ s # <<>> => Concat(Data, s) = Data(Head(s)) \o Concat(Data, Tail(s))
<1> DEFINE F == [x \in Named |-> Data(x)]
<1>1. F \in [Named -> Seq(Field)]  BY BlockTypes
<1>2. \A t \in Seq(Named) : Concat(Data, t) = Flat(F, t)
  <2> TAKE t \in Seq(Named)
  <2>1. \A i \in DOMAIN t : t[i] \in Named  OBVIOUS
  <2> QED BY <2>1 DEF Concat, Flat, Mapped
<1>3. s # <<>> => Head(s) \in Named /\ Tail(s) \in Seq(Named)  BY HeadTailProperties
<1>4. s # <<>> => F[Head(s)] = Data(Head(s))  BY <1>3
<1> HIDE DEF F
<1>5. /\ Flat(F, s) \in Seq(Field)
      /\ s = <<>> => Flat(F, s) = <<>>
      /\ s # <<>> => Flat(F, s) = F[Head(s)] \o Flat(F, Tail(s))
  BY <1>1, FlatCons
<1> QED BY <1>2, <1>3, <1>4, <1>5

\* Strings, one after the other.
LEMMA StrCons ==
    ASSUME NEW s \in Seq(Named)
    PROVE  /\ Concat(Str, s) \in Seq(Field)
           /\ s = <<>> => Concat(Str, s) = <<>>
           /\ s # <<>> => Concat(Str, s) = Str(Head(s)) \o Concat(Str, Tail(s))
<1> DEFINE F == [x \in Named |-> Str(x)]
<1>1. F \in [Named -> Seq(Field)]  BY BlockTypes
<1>2. \A t \in Seq(Named) : Concat(Str, t) = Flat(F, t)
  <2> TAKE t \in Seq(Named)
  <2>1. \A i \in DOMAIN t : t[i] \in Named  OBVIOUS
  <2> QED BY <2>1 DEF Concat, Flat, Mapped
<1>3. s # <<>> => Head(s) \in Named /\ Tail(s) \in Seq(Named)  BY HeadTailProperties
<1>4. s # <<>> => F[Head(s)] = Str(Head(s))  BY <1>3
<1> HIDE DEF F
<1>5. /\ Flat(F, s) \in Seq(Field)
      /\ s = <<>> => Flat(F, s) = <<>>
      /\ s # <<>> => Flat(F, s) = F[Head(s)] \o Flat(F, Tail(s))
  BY <1>1, FlatCons
<1> QED BY <1>2, <1>3, <1>4, <1>5

\* A word with its articles.
LEMMA EntryTypes ==
    ASSUME NEW e \in EntryBlock, NEW h
    PROVE  /\ e.word \in Named /\ e.articles \in Seq(Named) /\ e.articles # <<>>
           /\ ShowEntry(e) \in Seq(Field) /\ OfEntry(h, e) \in Seq(Value)
<1>1. e.word \in Named /\ e.articles \in Seq(Named) /\ e.articles # <<>>  BY DEF EntryBlock
<1> DEFINE a == Str(e.word)
           b == Concat(Data, e.articles)
           c == IF e.word = h THEN <<>> ELSE <<e.word>>
           d == e.articles
<1>2. a \in Seq(Field) /\ b \in Seq(Field) /\ NoData \in Seq(Field)
  BY <1>1, BlockTypes, DataCons
<1>3. c \in Seq(Value) /\ d \in Seq(Value)
  <2>1. <<e.word>> \in Seq(Value) /\ d \in Seq(Value)  BY <1>1, BlockTypes
  <2>2. <<>> \in Seq(Value)  BY EmptySeq
  <2> QED BY <2>1, <2>2
<1>4. ShowEntry(e) = a \o b \o NoData /\ OfEntry(h, e) = c \o d  BY DEF ShowEntry, OfEntry
<1> HIDE DEF a, b, c, d
<1>5. a \o b \in Seq(Field)  BY <1>2, ConcatProperties
<1>6. a \o b \o NoData \in Seq(Field)  BY <1>2, <1>5, ConcatProperties
<1>7. c \o d \in Seq(Value)  BY <1>3, ConcatProperties
<1> QED BY <1>1, <1>4, <1>6, <1>7

\* The words of a dictionary as they are sent.
LEMMA ShowEntryCons ==
    ASSUME NEW s \in Seq(EntryBlock)
    PROVE  /\ Concat(ShowEntry, s) \in Seq(Field)
           /\ s = <<>> => Concat(ShowEntry, s) = <<>>
           /\ s # <<>> => Concat(ShowEntry, s) = ShowEntry(Head(s)) \o Concat(ShowEntry, Tail(s))
<1> DEFINE F == [x \in EntryBlock |-> ShowEntry(x)]
<1>1. F \in [EntryBlock -> Seq(Field)]  BY EntryTypes
<1>2. \A t \in Seq(EntryBlock) : Concat(ShowEntry, t) = Flat(F, t)
  <2> TAKE t \in Seq(EntryBlock)
  <2>1. \A i \in DOMAIN t : t[i] \in EntryBlock  OBVIOUS
  <2> QED BY <2>1 DEF Concat, Flat, Mapped
<1>3. s # <<>> => Head(s) \in EntryBlock /\ Tail(s) \in Seq(EntryBlock)  BY HeadTailProperties
<1>4. s # <<>> => F[Head(s)] = ShowEntry(Head(s))  BY <1>3
<1> HIDE DEF F
<1>5. /\ Flat(F, s) \in Seq(Field)
      /\ s = <<>> => Flat(F, s) = <<>>
      /\ s # <<>> => Flat(F, s) = F[Head(s)] \o Flat(F, Tail(s))
  BY <1>1, FlatCons
<1> QED BY <1>2, <1>3, <1>4, <1>5

\* The words of a dictionary as they are printed.
LEMMA OfEntryCons ==
    ASSUME NEW s \in Seq(EntryBlock), NEW h
    PROVE  /\ OfEntries(h, s) \in Seq(Value)
           /\ s = <<>> => OfEntries(h, s) = <<>>
           /\ s # <<>> => OfEntries(h, s) = OfEntry(h, Head(s)) \o OfEntries(h, Tail(s))
<1> DEFINE F == [x \in EntryBlock |-> OfEntry(h, x)]
<1>1. F \in [EntryBlock -> Seq(Value)]  BY EntryTypes
<1>2. \A t \in Seq(EntryBlock) : OfEntries(h, t) = Flat(F, t)
  <2> TAKE t \in Seq(EntryBlock)
  <2>1. \A i \in DOMAIN t : t[i] \in EntryBlock  OBVIOUS
  <2> QED BY <2>1 DEF OfEntries, Concat, Flat, Mapped
<1>3. s # <<>> => Head(s) \in EntryBlock /\ Tail(s) \in Seq(EntryBlock)  BY HeadTailProperties
<1>4. s # <<>> => F[Head(s)] = OfEntry(h, Head(s))  BY <1>3
<1> HIDE DEF F
<1>5. /\ Flat(F, s) \in Seq(Value)
      /\ s = <<>> => Flat(F, s) = <<>>
      /\ s # <<>> => Flat(F, s) = F[Head(s)] \o Flat(F, Tail(s))
  BY <1>1, FlatCons
<1> QED BY <1>2, <1>3, <1>4, <1>5

\* A dictionary with its words.
LEMMA BookTypes ==
    ASSUME NEW b \in BookBlock, NEW h
    PROVE  /\ b.name \in Named /\ b.entries \in Seq(EntryBlock)
           /\ ShowBook(b) \in Seq(Field) /\ OfBook(h, b) \in Seq(Value)
<1>1. b.name \in Named /\ b.entries \in Seq(EntryBlock)  BY DEF BookBlock
<1> DEFINE n == Str(b.name)
           c == Concat(ShowEntry, b.entries)
           p == <<b.name>>
           d == OfEntries(h, b.entries)
<1>2. n \in Seq(Field) /\ c \in Seq(Field) /\ Str(Empty) \in Seq(Field)
  BY <1>1, BlockTypes, ShowEntryCons
<1>3. p \in Seq(Value) /\ d \in Seq(Value)  BY <1>1, BlockTypes, OfEntryCons
<1>4. ShowBook(b) = n \o c \o Str(Empty) /\ OfBook(h, b) = p \o d  BY DEF ShowBook, OfBook
<1> HIDE DEF n, c, p, d
<1>5. n \o c \in Seq(Field)  BY <1>2, ConcatProperties
<1>6. n \o c \o Str(Empty) \in Seq(Field)  BY <1>2, <1>5, ConcatProperties
<1>7. p \o d \in Seq(Value)  BY <1>3, ConcatProperties
<1> QED BY <1>1, <1>4, <1>6, <1>7

\* The dictionaries of a reply as they are sent.
LEMMA ShowBookCons ==
    ASSUME NEW s \in Seq(BookBlock)
    PROVE  /\ Concat(ShowBook, s) \in Seq(Field)
           /\ s = <<>> => Concat(ShowBook, s) = <<>>
           /\ s # <<>> => Concat(ShowBook, s) = ShowBook(Head(s)) \o Concat(ShowBook, Tail(s))
<1> DEFINE F == [x \in BookBlock |-> ShowBook(x)]
<1>1. F \in [BookBlock -> Seq(Field)]  BY BookTypes
<1>2. \A t \in Seq(BookBlock) : Concat(ShowBook, t) = Flat(F, t)
  <2> TAKE t \in Seq(BookBlock)
  <2>1. \A i \in DOMAIN t : t[i] \in BookBlock  OBVIOUS
  <2> QED BY <2>1 DEF Concat, Flat, Mapped
<1>3. s # <<>> => Head(s) \in BookBlock /\ Tail(s) \in Seq(BookBlock)  BY HeadTailProperties
<1>4. s # <<>> => F[Head(s)] = ShowBook(Head(s))  BY <1>3
<1> HIDE DEF F
<1>5. /\ Flat(F, s) \in Seq(Field)
      /\ s = <<>> => Flat(F, s) = <<>>
      /\ s # <<>> => Flat(F, s) = F[Head(s)] \o Flat(F, Tail(s))
  BY <1>1, FlatCons
<1> QED BY <1>2, <1>3, <1>4, <1>5

\* The dictionaries of a reply as they are printed.
LEMMA OfBookCons ==
    ASSUME NEW s \in Seq(BookBlock), NEW h
    PROVE  /\ OfBooks(h, s) \in Seq(Value)
           /\ s = <<>> => OfBooks(h, s) = <<>>
           /\ s # <<>> => OfBooks(h, s) = OfBook(h, Head(s)) \o OfBooks(h, Tail(s))
<1> DEFINE F == [x \in BookBlock |-> OfBook(h, x)]
<1>1. F \in [BookBlock -> Seq(Value)]  BY BookTypes
<1>2. \A t \in Seq(BookBlock) : OfBooks(h, t) = Flat(F, t)
  <2> TAKE t \in Seq(BookBlock)
  <2>1. \A i \in DOMAIN t : t[i] \in BookBlock  OBVIOUS
  <2> QED BY <2>1 DEF OfBooks, Concat, Flat, Mapped
<1>3. s # <<>> => Head(s) \in BookBlock /\ Tail(s) \in Seq(BookBlock)  BY HeadTailProperties
<1>4. s # <<>> => F[Head(s)] = OfBook(h, Head(s))  BY <1>3
<1> HIDE DEF F
<1>5. /\ Flat(F, s) \in Seq(Value)
      /\ s = <<>> => Flat(F, s) = <<>>
      /\ s # <<>> => Flat(F, s) = F[Head(s)] \o Flat(F, Tail(s))
  BY <1>1, FlatCons
<1> QED BY <1>2, <1>3, <1>4, <1>5

\* A list of words.
LEMMA WordListType ==
    ASSUME NEW ws \in Seq(Named)
    PROVE  WordList(ws) \in Seq(Field) /\ ws \in Seq(Value)
<1>1. Concat(Str, ws) \in Seq(Field) /\ Str(Empty) \in Seq(Field) /\ ws \in Seq(Value)
  BY StrCons, BlockTypes
<1> QED BY <1>1, ConcatProperties DEF WordList

\* A dictionary with the words of a search in its articles.
LEMMA DataBookTypes ==
    ASSUME NEW b \in DataBlock
    PROVE  /\ b.name \in Named /\ b.words \in Seq(Named)
           /\ ShowDataBook(b) \in Seq(Field) /\ OfDataBook(b) \in Seq(Value)
<1>1. b.name \in Named /\ b.words \in Seq(Named)  BY DEF DataBlock
<1> DEFINE n == Str(b.name)
           c == WordList(b.words)
           p == <<b.name>>
           d == b.words
<1>2. n \in Seq(Field) /\ c \in Seq(Field)  BY <1>1, BlockTypes, WordListType
<1>3. p \in Seq(Value) /\ d \in Seq(Value)  BY <1>1, BlockTypes
<1>4. ShowDataBook(b) = n \o c /\ OfDataBook(b) = p \o d  BY DEF ShowDataBook, OfDataBook
<1> HIDE DEF n, c, p, d
<1>5. n \o c \in Seq(Field) /\ p \o d \in Seq(Value)  BY <1>2, <1>3, ConcatProperties
<1> QED BY <1>1, <1>4, <1>5

\* Such dictionaries as they are sent.
LEMMA ShowDataBookCons ==
    ASSUME NEW s \in Seq(DataBlock)
    PROVE  /\ Concat(ShowDataBook, s) \in Seq(Field)
           /\ s = <<>> => Concat(ShowDataBook, s) = <<>>
           /\ s # <<>> => Concat(ShowDataBook, s) = ShowDataBook(Head(s)) \o Concat(ShowDataBook, Tail(s))
<1> DEFINE F == [x \in DataBlock |-> ShowDataBook(x)]
<1>1. F \in [DataBlock -> Seq(Field)]  BY DataBookTypes
<1>2. \A t \in Seq(DataBlock) : Concat(ShowDataBook, t) = Flat(F, t)
  <2> TAKE t \in Seq(DataBlock)
  <2>1. \A i \in DOMAIN t : t[i] \in DataBlock  OBVIOUS
  <2> QED BY <2>1 DEF Concat, Flat, Mapped
<1>3. s # <<>> => Head(s) \in DataBlock /\ Tail(s) \in Seq(DataBlock)  BY HeadTailProperties
<1>4. s # <<>> => F[Head(s)] = ShowDataBook(Head(s))  BY <1>3
<1> HIDE DEF F
<1>5. /\ Flat(F, s) \in Seq(Field)
      /\ s = <<>> => Flat(F, s) = <<>>
      /\ s # <<>> => Flat(F, s) = F[Head(s)] \o Flat(F, Tail(s))
  BY <1>1, FlatCons
<1> QED BY <1>2, <1>3, <1>4, <1>5

\* Such dictionaries as they are printed.
LEMMA OfDataBookCons ==
    ASSUME NEW s \in Seq(DataBlock)
    PROVE  /\ Concat(OfDataBook, s) \in Seq(Value)
           /\ s = <<>> => Concat(OfDataBook, s) = <<>>
           /\ s # <<>> => Concat(OfDataBook, s) = OfDataBook(Head(s)) \o Concat(OfDataBook, Tail(s))
<1> DEFINE F == [x \in DataBlock |-> OfDataBook(x)]
<1>1. F \in [DataBlock -> Seq(Value)]  BY DataBookTypes
<1>2. \A t \in Seq(DataBlock) : Concat(OfDataBook, t) = Flat(F, t)
  <2> TAKE t \in Seq(DataBlock)
  <2>1. \A i \in DOMAIN t : t[i] \in DataBlock  OBVIOUS
  <2> QED BY <2>1 DEF Concat, Flat, Mapped
<1>3. s # <<>> => Head(s) \in DataBlock /\ Tail(s) \in Seq(DataBlock)  BY HeadTailProperties
<1>4. s # <<>> => F[Head(s)] = OfDataBook(Head(s))  BY <1>3
<1> HIDE DEF F
<1>5. /\ Flat(F, s) \in Seq(Value)
      /\ s = <<>> => Flat(F, s) = <<>>
      /\ s # <<>> => Flat(F, s) = F[Head(s)] \o Flat(F, Tail(s))
  BY <1>1, FlatCons
<1> QED BY <1>2, <1>3, <1>4, <1>5

-----------------------------------------------------------------------------
(* What a client at a label has still to read of a reply to op, and what   *)
(* it will print of that: rest and out.  Of the words of the dictionaries  *)
(* it will not print h.                                                    *)

AfterBooks(op, rest, out) ==
    IF op = "lookup"
    THEN \E s \in SearchBlock : rest = ShowList(s) /\ out = OfSearch(op, s)
    ELSE rest = <<>> /\ out = <<>>

AtBook(op, h, rest, out) ==
    \E bs \in Seq(BookBlock), r \in Seq(Field), o \in Seq(Value) :
        /\ AfterBooks(op, r, o)
        /\ rest = Concat(ShowBook, bs) \o (Str(Empty) \o r)
        /\ out = OfBooks(h, bs) \o o

AtWord(op, h, rest, out) ==
    \E es \in Seq(EntryBlock), r \in Seq(Field), o \in Seq(Value) :
        /\ AtBook(op, h, r, o)
        /\ rest = Concat(ShowEntry, es) \o (Str(Empty) \o r)
        /\ out = OfEntries(h, es) \o o

\* Articles of the word in hand; more is FALSE as long as none has been read.
AtArticle(op, h, rest, out, more) ==
    \E as \in Seq(Named), r \in Seq(Field), o \in Seq(Value) :
        /\ AtWord(op, h, r, o)
        /\ more \/ as # <<>>
        /\ rest = Concat(Data, as) \o (NoData \o r)
        /\ out = as \o o

AtList(rest, out) ==
    \E ws \in Seq(Named) : rest = WordList(ws) /\ out = ws

AtDataBook(rest, out) ==
    \E bs \in Seq(DataBlock) : rest = DataList(bs) /\ out = Concat(OfDataBook, bs)

AtDataWord(rest, out) ==
    \E ws \in Seq(Named), r \in Seq(Field), o \in Seq(Value) :
        AtDataBook(r, o) /\ rest = WordList(ws) \o r /\ out = ws \o o

\* What is not printed after the word of the reply.
Said(op, oword) == IF op = "selectquery" THEN oword ELSE Empty

Reads(op, h, label, rest, out) ==
    \/ label = "done" /\ rest = <<>> /\ out = <<>>
    \/ label = "string" /\ rest = Str("value") /\ out = <<>>
    \/ /\ label = "oword"
       /\ \E w \in Value, r \in Seq(Field), o \in Seq(Value) :
            /\ AtBook(op, Said(op, w), r, o)
            /\ rest = Str(w) \o r
            /\ out = IF op = "selectquery" THEN <<w>> \o o ELSE o
    \/ label = "book" /\ AtBook(op, h, rest, out)
    \/ label = "word" /\ AtWord(op, h, rest, out)
    \/ label = "article" /\ AtArticle(op, h, rest, out, FALSE)
    \/ label = "more" /\ AtArticle(op, h, rest, out, TRUE)
    \/ label = "tag" /\ op = "lookup" /\ AfterBooks(op, rest, out)
    \/ label = "list" /\ AtList(rest, out)
    \/ label = "databook" /\ AtDataBook(rest, out)
    \/ label = "dataword" /\ AtDataWord(rest, out)

\* Concatenation under a name of its own, of which the provers then know
\* only what the next lemmas say.
Cat(a, b) == a \o b

\* It yields sequences and is associative.
LEMMA CatType == \A S : \A a, b \in Seq(S) : Cat(a, b) \in Seq(S)
BY ConcatProperties DEF Cat
LEMMA CatAssoc == \A S : \A a, b, c \in Seq(S) : Cat(Cat(a, b), c) = Cat(a, Cat(b, c))
BY ConcatAssociative DEF Cat

\* Regrouping what is sent and what is printed, first field first.
LEMMA Regroup4 ==
    ASSUME NEW S, NEW a \in Seq(S), NEW b \in Seq(S), NEW c \in Seq(S), NEW d \in Seq(S)
    PROVE  Cat(Cat(Cat(a, b), c), d) = Cat(a, Cat(b, Cat(c, d)))
<1>1. Cat(a, b) \in Seq(S) /\ Cat(c, d) \in Seq(S)  BY CatType
<1>2. Cat(Cat(Cat(a, b), c), d) = Cat(Cat(a, b), Cat(c, d))  BY <1>1, CatAssoc
<1>3. Cat(Cat(a, b), Cat(c, d)) = Cat(a, Cat(b, Cat(c, d)))  BY <1>1, CatAssoc
<1> QED BY <1>2, <1>3
LEMMA Regroup5 ==
    ASSUME NEW S, NEW a \in Seq(S), NEW b \in Seq(S), NEW c \in Seq(S), NEW d \in Seq(S),
           NEW e \in Seq(S)
    PROVE  Cat(Cat(Cat(Cat(a, b), c), d), e) = Cat(a, Cat(b, Cat(c, Cat(d, e))))
<1>1. Cat(a, b) \in Seq(S) /\ Cat(d, e) \in Seq(S)  BY CatType
<1>2. Cat(Cat(Cat(Cat(a, b), c), d), e) = Cat(Cat(a, b), Cat(c, Cat(d, e)))
  BY <1>1, Regroup4
<1>3. Cat(c, Cat(d, e)) \in Seq(S)  BY <1>1, CatType
<1>4. Cat(Cat(a, b), Cat(c, Cat(d, e))) = Cat(a, Cat(b, Cat(c, Cat(d, e))))
  BY <1>3, CatAssoc
<1> QED BY <1>2, <1>4

\* The same for fields and values.
LEMMA FieldCat == \A a, b \in Seq(Field) : Cat(a, b) \in Seq(Field)
BY CatType
LEMMA FieldRegroup3 ==
    \A a, b, c \in Seq(Field) : Cat(Cat(a, b), c) = Cat(a, Cat(b, c))
BY CatAssoc
LEMMA FieldRegroup4 ==
    \A a, b, c, d \in Seq(Field) : Cat(Cat(Cat(a, b), c), d) = Cat(a, Cat(b, Cat(c, d)))
BY Regroup4
LEMMA FieldRegroup5 ==
    \A a, b, c, d, e \in Seq(Field) :
        Cat(Cat(Cat(Cat(a, b), c), d), e) = Cat(a, Cat(b, Cat(c, Cat(d, e))))
BY Regroup5
LEMMA ValueCat == \A a, b \in Seq(Value) : Cat(a, b) \in Seq(Value)
BY CatType
LEMMA ValueRegroup3 ==
    \A a, b, c \in Seq(Value) : Cat(Cat(a, b), c) = Cat(a, Cat(b, c))
BY CatAssoc
LEMMA ValueRegroup4 ==
    \A a, b, c, d \in Seq(Value) : Cat(Cat(Cat(a, b), c), d) = Cat(a, Cat(b, Cat(c, d)))
BY Regroup4

\* A field in front is read first: what it is and what is left.
LEMMA FieldRead ==
    ASSUME NEW v \in Value, NEW r \in Seq(Field)
    PROVE  /\ Str(v) \o r # <<>> /\ Data(v) \o r # <<>>
           /\ Head(Str(v) \o r) = [kind |-> "str", v |-> v]
           /\ Head(Data(v) \o r) = [kind |-> "data", v |-> v]
           /\ Tail(Str(v) \o r) = r /\ Tail(Data(v) \o r) = r
<1>1. /\ Str(v) = <<[kind |-> "str", v |-> v]>> /\ Data(v) = <<[kind |-> "data", v |-> v]>>
      /\ [kind |-> "str", v |-> v] \in Field /\ [kind |-> "data", v |-> v] \in Field
  BY FieldType
<1> DEFINE x == [kind |-> "str", v |-> v]
           y == [kind |-> "data", v |-> v]
<1>2. x \in Field /\ y \in Field /\ Str(v) = <<x>> /\ Data(v) = <<y>>  BY <1>1
<1> HIDE DEF x, y
<1>3. <<x>> \o r # <<>> /\ Head(<<x>> \o r) = x /\ Tail(<<x>> \o r) = r  BY <1>2, Prepend
<1>4. <<y>> \o r # <<>> /\ Head(<<y>> \o r) = y /\ Tail(<<y>> \o r) = r  BY <1>2, Prepend
<1> QED BY <1>2, <1>3, <1>4 DEF x, y

\* An empty name ends the dictionaries; another one begins its words.
LEMMA BookRead ==
    ASSUME NEW op, NEW h, NEW rest, NEW out, AtBook(op, h, rest, out)
    PROVE  /\ rest # <<>> /\ Head(rest).kind = "str" /\ Head(rest).v \in Value
           /\ Head(rest).v = Empty => AfterBooks(op, Tail(rest), out)
           /\ Head(rest).v # Empty =>
                \E o \in Seq(Value) : out = <<Head(rest).v>> \o o /\ AtWord(op, h, Tail(rest), o)
<1>1. PICK bs \in Seq(BookBlock), r \in Seq(Field), o \in Seq(Value) :
        /\ AfterBooks(op, r, o)
        /\ rest = Concat(ShowBook, bs) \o (Str(Empty) \o r)
        /\ out = OfBooks(h, bs) \o o
  BY DEF AtBook
<1> DEFINE z == Str(Empty)
           y == z \o r
<1>2. Empty \in Value /\ Named \subseteq Value /\ Empty \notin Named  BY DEF Value, Named
<1>3. z \in Seq(Field)  BY BlockTypes
<1>4. y \in Seq(Field)  BY <1>3, ConcatProperties
<1>5. CASE bs = <<>>
  <2>1. Concat(ShowBook, bs) = <<>> /\ OfBooks(h, bs) = <<>>  BY <1>5, ShowBookCons, OfBookCons
  <2>2. rest = y /\ out = o
    <3> HIDE DEF y
    <3>1. <<>> \o y = y /\ <<>> \o o = o  BY <1>4, ConcatEmptySeq
    <3> QED BY <1>1, <2>1, <3>1 DEF y
  <2>3. rest # <<>> /\ Head(rest) = [kind |-> "str", v |-> Empty] /\ Tail(rest) = r
    BY <2>2, <1>2, FieldRead
  <2> HIDE DEF y, z
  <2>4. AfterBooks(op, Tail(rest), out)  BY <1>1, <2>2, <2>3
  <2>5. Head(rest).kind = "str" /\ Head(rest).v = Empty  BY <2>3
  <2> QED BY <1>2, <2>3, <2>4, <2>5
<1>6. CASE bs # <<>>
  <2> DEFINE b == Head(bs)
             n == Str(b.name)
             c == Concat(ShowEntry, b.entries)
             d == Concat(ShowBook, Tail(bs))
             p == <<b.name>>
             q == OfEntries(h, b.entries)
             u == OfBooks(h, Tail(bs))
             r1 == d \o y
             r2 == c \o (z \o r1)
             o1 == u \o o
             o2 == q \o o1
  <2>1. b \in BookBlock /\ Tail(bs) \in Seq(BookBlock)  BY <1>6, HeadTailProperties
  <2>2. /\ b.name \in Named /\ b.entries \in Seq(EntryBlock)
        /\ n \in Seq(Field) /\ c \in Seq(Field) /\ d \in Seq(Field)
        /\ p \in Seq(Value) /\ q \in Seq(Value) /\ u \in Seq(Value)
    BY <2>1, BookTypes, BlockTypes, ShowEntryCons, OfEntryCons, ShowBookCons, OfBookCons
  <2>3. Concat(ShowBook, bs) = ((n \o c) \o z) \o d /\ OfBooks(h, bs) = (p \o q) \o u
    <3>1. Concat(ShowBook, bs) = ShowBook(b) \o d /\ OfBooks(h, bs) = OfBook(h, b) \o u
      BY <1>6, ShowBookCons, OfBookCons
    <3>2. ShowBook(b) = (n \o c) \o z /\ OfBook(h, b) = p \o q  BY DEF ShowBook, OfBook
    <3> HIDE DEF n, c, z, d, p, q, u, b
    <3> QED BY <3>1, <3>2
  <2>4. rest = n \o r2 /\ r1 \in Seq(Field) /\ r2 \in Seq(Field)
    <3>1. n \in Seq(Field) /\ c \in Seq(Field) /\ d \in Seq(Field)  BY <2>2
    <3>2. rest = Cat(Cat(Cat(Cat(n, c), z), d), y)  BY <1>1, <2>3 DEF Cat
    <3>3. r1 = Cat(d, y) /\ r2 = Cat(c, Cat(z, r1)) /\ n \o r2 = Cat(n, r2)  BY DEF Cat
    <3> HIDE DEF n, c, d, y, z, p, q, u, b, r1, r2
    <3>4. rest = Cat(n, Cat(c, Cat(z, Cat(d, y))))  BY <1>3, <1>4, <3>1, <3>2, FieldRegroup5
    <3>5. r1 \in Seq(Field)  BY <1>4, <3>1, <3>3, FieldCat
    <3>6. Cat(z, r1) \in Seq(Field)  BY <1>3, <3>5, FieldCat
    <3>7. r2 \in Seq(Field)  BY <3>1, <3>3, <3>6, FieldCat
    <3> QED BY <3>3, <3>4, <3>5, <3>7
  <2>5. out = p \o o2 /\ o1 \in Seq(Value) /\ o2 \in Seq(Value)
    <3>1. p \in Seq(Value) /\ q \in Seq(Value) /\ u \in Seq(Value)  BY <2>2
    <3>2. out = Cat(Cat(Cat(p, q), u), o)  BY <1>1, <2>3 DEF Cat
    <3>3. o1 = Cat(u, o) /\ o2 = Cat(q, o1) /\ p \o o2 = Cat(p, o2)  BY DEF Cat
    <3> HIDE DEF p, q, u, b, o1, o2
    <3>4. out = Cat(p, Cat(q, Cat(u, o)))  BY <3>1, <3>2, ValueRegroup4
    <3>5. o1 \in Seq(Value)  BY <3>1, <3>3, ValueCat
    <3>6. o2 \in Seq(Value)  BY <3>1, <3>3, <3>5, ValueCat
    <3> QED BY <3>3, <3>4, <3>5, <3>6
  <2>6. AtBook(op, h, r1, o1)
    <3> HIDE DEF b
    <3> QED BY <1>1, <2>1, <2>4, <2>5 DEF AtBook, r1, o1, y, z, d, u
  <2>7. AtWord(op, h, r2, o2)
    <3> HIDE DEF b, r1, o1
    <3> QED BY <2>2, <2>4, <2>5, <2>6 DEF AtWord, r2, o2, z
  <2>8. rest # <<>> /\ Head(rest) = [kind |-> "str", v |-> b.name] /\ Tail(rest) = r2
    <3> HIDE DEF r2, b
    <3> QED BY <1>2, <2>2, <2>4, FieldRead
  <2>9. Head(rest).kind = "str" /\ Head(rest).v = b.name
    <3> HIDE DEF b, r2
    <3> QED BY <2>8
  <2>10. b.name \in Value /\ b.name # Empty  BY <1>2, <2>2
  <2> HIDE DEF r2, o2, b
  <2>11. out = <<Head(rest).v>> \o o2 /\ AtWord(op, h, Tail(rest), o2) /\ o2 \in Seq(Value)
    BY <2>5, <2>7, <2>8, <2>9
  <2> QED BY <2>8, <2>9, <2>10, <2>11
<1> QED BY <1>5, <1>6

\* An empty word ends the words of a dictionary; another one has an article.
LEMMA WordRead ==
    ASSUME NEW op, NEW h, NEW rest, NEW out, AtWord(op, h, rest, out)
    PROVE  /\ rest # <<>> /\ Head(rest).kind = "str" /\ Head(rest).v \in Value
           /\ Head(rest).v = Empty => AtBook(op, h, Tail(rest), out)
           /\ Head(rest).v # Empty =>
                \E o \in Seq(Value) :
                    /\ out = IF Head(rest).v # h THEN <<Head(rest).v>> \o o ELSE o
                    /\ AtArticle(op, h, Tail(rest), o, FALSE)
<1>1. PICK bs \in Seq(EntryBlock), r \in Seq(Field), o \in Seq(Value) :
        /\ AtBook(op, h, r, o)
        /\ rest = Concat(ShowEntry, bs) \o (Str(Empty) \o r)
        /\ out = OfEntries(h, bs) \o o
  BY DEF AtWord
<1> DEFINE z == Str(Empty)
           y == z \o r
<1>2. Empty \in Value /\ Named \subseteq Value /\ Empty \notin Named  BY DEF Value, Named
<1>3. z \in Seq(Field)  BY BlockTypes
<1>4. y \in Seq(Field)  BY <1>3, ConcatProperties
<1>5. CASE bs = <<>>
  <2>1. Concat(ShowEntry, bs) = <<>> /\ OfEntries(h, bs) = <<>>  BY <1>5, ShowEntryCons, OfEntryCons
  <2>2. rest = y /\ out = o
    <3> HIDE DEF y
    <3>1. <<>> \o y = y /\ <<>> \o o = o  BY <1>4, ConcatEmptySeq
    <3> QED BY <1>1, <2>1, <3>1 DEF y
  <2>3. rest # <<>> /\ Head(rest) = [kind |-> "str", v |-> Empty] /\ Tail(rest) = r
    BY <2>2, <1>2, FieldRead
  <2> HIDE DEF y, z
  <2>4. AtBook(op, h, Tail(rest), out)  BY <1>1, <2>2, <2>3
  <2>5. Head(rest).kind = "str" /\ Head(rest).v = Empty  BY <2>3
  <2> QED BY <1>2, <2>3, <2>4, <2>5
<1>6. CASE bs # <<>>
  <2> DEFINE b == Head(bs)
             n == Str(b.word)
             c == Concat(Data, b.articles)
             d == Concat(ShowEntry, Tail(bs))
             p == IF b.word = h THEN <<>> ELSE <<b.word>>
             q == b.articles
             u == OfEntries(h, Tail(bs))
             r1 == d \o y
             e == NoData
             r2 == c \o (e \o r1)
             o1 == u \o o
             o2 == q \o o1
  <2>1. b \in EntryBlock /\ Tail(bs) \in Seq(EntryBlock)  BY <1>6, HeadTailProperties
  <2>2. /\ b.word \in Named /\ b.articles \in Seq(Named) /\ b.articles # <<>>
        /\ n \in Seq(Field) /\ c \in Seq(Field) /\ d \in Seq(Field)
        /\ p \in Seq(Value) /\ q \in Seq(Value) /\ u \in Seq(Value)
    <3>1. /\ b.word \in Named /\ b.articles \in Seq(Named) /\ b.articles # <<>>
          /\ n \in Seq(Field) /\ c \in Seq(Field) /\ d \in Seq(Field)
          /\ <<b.word>> \in Seq(Value) /\ q \in Seq(Value) /\ u \in Seq(Value)
      BY <2>1, EntryTypes, BlockTypes, DataCons, ShowEntryCons, OfEntryCons
    <3>2. <<>> \in Seq(Value)  BY EmptySeq
    <3> QED BY <3>1, <3>2
  <2>3. Concat(ShowEntry, bs) = ((n \o c) \o e) \o d /\ OfEntries(h, bs) = (p \o q) \o u
    <3>1. Concat(ShowEntry, bs) = ShowEntry(b) \o d /\ OfEntries(h, bs) = OfEntry(h, b) \o u
      BY <1>6, ShowEntryCons, OfEntryCons
    <3>2. ShowEntry(b) = (n \o c) \o e /\ OfEntry(h, b) = p \o q  BY DEF ShowEntry, OfEntry
    <3> HIDE DEF n, c, e, d, p, q, u, b
    <3> QED BY <3>1, <3>2
  <2>4. rest = n \o r2 /\ r1 \in Seq(Field) /\ r2 \in Seq(Field)
    <3>1. n \in Seq(Field) /\ c \in Seq(Field) /\ d \in Seq(Field) /\ e \in Seq(Field)
      BY <2>2, BlockTypes
    <3>2. rest = Cat(Cat(Cat(Cat(n, c), e), d), y)  BY <1>1, <2>3 DEF Cat
    <3>3. r1 = Cat(d, y) /\ r2 = Cat(c, Cat(e, r1)) /\ n \o r2 = Cat(n, r2)  BY DEF Cat
    <3> HIDE DEF n, c, d, e, y, z, p, q, u, b, r1, r2
    <3>4. rest = Cat(n, Cat(c, Cat(e, Cat(d, y))))  BY <1>3, <1>4, <3>1, <3>2, FieldRegroup5
    <3>5. r1 \in Seq(Field)  BY <1>4, <3>1, <3>3, FieldCat
    <3>6. Cat(e, r1) \in Seq(Field)  BY <3>1, <3>5, FieldCat
    <3>7. r2 \in Seq(Field)  BY <3>1, <3>3, <3>6, FieldCat
    <3> QED BY <3>3, <3>4, <3>5, <3>7
  <2>5. out = p \o o2 /\ o1 \in Seq(Value) /\ o2 \in Seq(Value)
    <3>1. p \in Seq(Value) /\ q \in Seq(Value) /\ u \in Seq(Value)  BY <2>2
    <3>2. out = Cat(Cat(Cat(p, q), u), o)  BY <1>1, <2>3 DEF Cat
    <3>3. o1 = Cat(u, o) /\ o2 = Cat(q, o1) /\ p \o o2 = Cat(p, o2)  BY DEF Cat
    <3> HIDE DEF p, q, u, b, o1, o2
    <3>4. out = Cat(p, Cat(q, Cat(u, o)))  BY <3>1, <3>2, ValueRegroup4
    <3>5. o1 \in Seq(Value)  BY <3>1, <3>3, ValueCat
    <3>6. o2 \in Seq(Value)  BY <3>1, <3>3, <3>5, ValueCat
    <3> QED BY <3>3, <3>4, <3>5, <3>6
  <2>6. AtWord(op, h, r1, o1)
    <3> HIDE DEF b
    <3> QED BY <1>1, <2>1, <2>4, <2>5 DEF AtWord, r1, o1, y, z, d, u
  <2>7. AtArticle(op, h, r2, o2, FALSE)
    <3> HIDE DEF b, r1, o1
    <3> QED BY <2>2, <2>4, <2>5, <2>6 DEF AtArticle, r2, o2, e
  <2>8. rest # <<>> /\ Head(rest) = [kind |-> "str", v |-> b.word] /\ Tail(rest) = r2
    <3> HIDE DEF r2, b
    <3> QED BY <1>2, <2>2, <2>4, FieldRead
  <2>9. Head(rest).kind = "str" /\ Head(rest).v = b.word
    <3> HIDE DEF b, r2
    <3> QED BY <2>8
  <2>10. b.word \in Value /\ b.word # Empty  BY <1>2, <2>2
  <2> HIDE DEF r2, o2, b, n, c, d, q, u, r1, o1, e
  <2>11. AtArticle(op, h, Tail(rest), o2, FALSE) /\ o2 \in Seq(Value)
    BY <2>5, <2>7, <2>8
  <2>12. out = IF Head(rest).v # h THEN <<Head(rest).v>> \o o2 ELSE o2
    <3>1. CASE b.word = h
      <4>1. out = <<>> \o o2  BY <2>5, <3>1
      <4>2. <<>> \o o2 = o2  BY <2>11, ConcatEmptySeq
      <4> QED BY <2>9, <3>1, <4>1, <4>2
    <3>2. CASE b.word # h
      <4>1. out = <<b.word>> \o o2  BY <2>5, <3>2
      <4> QED BY <2>9, <3>2, <4>1
    <3> QED BY <3>1, <3>2
  <2> QED BY <2>8, <2>9, <2>10, <2>11, <2>12
<1> QED BY <1>5, <1>6

\* The size zero ends the articles of a word; another one is printed.
LEMMA ArticleRead ==
    ASSUME NEW op, NEW h, NEW rest, NEW out, NEW more \in BOOLEAN, AtArticle(op, h, rest, out, more)
    PROVE  /\ rest # <<>> /\ Head(rest).kind = "data" /\ Head(rest).v \in Value
           /\ more \/ Head(rest).v # Empty
           /\ Head(rest).v = Empty => AtWord(op, h, Tail(rest), out)
           /\ Head(rest).v # Empty =>
                \E o \in Seq(Value) :
                    out = <<Head(rest).v>> \o o /\ AtArticle(op, h, Tail(rest), o, TRUE)
<1>1. PICK as \in Seq(Named), r \in Seq(Field), o \in Seq(Value) :
        /\ AtWord(op, h, r, o)
        /\ more \/ as # <<>>
        /\ rest = Concat(Data, as) \o (NoData \o r)
        /\ out = as \o o
  BY DEF AtArticle
<1> DEFINE z == NoData
           y == z \o r
<1>2. Empty \in Value /\ Named \subseteq Value /\ Empty \notin Named  BY DEF Value, Named
<1>3. z \in Seq(Field)  BY BlockTypes
<1>4. y \in Seq(Field)  BY <1>3, ConcatProperties
<1>5. CASE as = <<>>
  <2>1. Concat(Data, as) = <<>>  BY <1>5, DataCons
  <2>2. rest = y /\ out = o
    <3> HIDE DEF y
    <3>1. <<>> \o y = y /\ <<>> \o o = o  BY <1>4, ConcatEmptySeq
    <3> QED BY <1>1, <1>5, <2>1, <3>1 DEF y
  <2>3. rest # <<>> /\ Head(rest) = [kind |-> "data", v |-> Empty] /\ Tail(rest) = r
    BY <2>2, <1>2, FieldRead DEF NoData
  <2> HIDE DEF y, z
  <2>4. AtWord(op, h, Tail(rest), out)  BY <1>1, <2>2, <2>3
  <2>5. Head(rest).kind = "data" /\ Head(rest).v = Empty  BY <2>3
  <2> QED BY <1>1, <1>2, <1>5, <2>3, <2>4, <2>5
<1>6. CASE as # <<>>
  <2> DEFINE hd == Head(as)
             t == Tail(as)
             n == Data(hd)
             c == Concat(Data, t)
             p == <<hd>>
             r1 == c \o y
             o1 == t \o o
  <2>1. hd \in Named /\ t \in Seq(Named) /\ as = p \o t
    <3>1. hd \in Named /\ t \in Seq(Named)  BY <1>6, HeadTailProperties
    <3>2. as = p \o t  BY <1>6, HeadThenTail
    <3> QED BY <3>1, <3>2
  <2>2. /\ n \in Seq(Field) /\ c \in Seq(Field) /\ p \in Seq(Value) /\ t \in Seq(Value)
        /\ Concat(Data, as) = n \o c
    BY <1>6, <2>1, BlockTypes, DataCons
  <2>3. rest = n \o r1 /\ r1 \in Seq(Field)
    <3>1. rest = Cat(Cat(n, c), y)  BY <1>1, <2>2 DEF Cat
    <3>2. r1 = Cat(c, y) /\ n \o r1 = Cat(n, r1)  BY DEF Cat
    <3>3. n \in Seq(Field) /\ c \in Seq(Field)  BY <2>2
    <3> HIDE DEF n, c, y, r1, hd, t, z
    <3> QED BY <1>4, <3>1, <3>2, <3>3, FieldRegroup3, FieldCat
  <2>4. out = p \o o1 /\ o1 \in Seq(Value)
    <3>1. out = Cat(Cat(p, t), o)  BY <1>1, <2>1 DEF Cat
    <3>2. o1 = Cat(t, o) /\ p \o o1 = Cat(p, o1)  BY DEF Cat
    <3>3. p \in Seq(Value) /\ t \in Seq(Value)  BY <2>2
    <3> HIDE DEF p, o1, hd, t
    <3> QED BY <3>1, <3>2, <3>3, ValueRegroup3, ValueCat
  <2>5. AtArticle(op, h, r1, o1, TRUE)
    <3> HIDE DEF t
    <3> QED BY <1>1, <2>1, <2>3, <2>4 DEF AtArticle, r1, o1, y, z, c
  <2>6. rest # <<>> /\ Head(rest) = [kind |-> "data", v |-> hd] /\ Tail(rest) = r1
    <3> HIDE DEF r1, hd
    <3> QED BY <1>2, <2>1, <2>3, FieldRead
  <2> HIDE DEF r1, o1, hd
  <2>7. Head(rest).kind = "data" /\ Head(rest).v = hd  BY <2>6
  <2>8. hd \in Value /\ hd # Empty  BY <1>2, <2>1
  <2>9. out = <<Head(rest).v>> \o o1 /\ AtArticle(op, h, Tail(rest), o1, TRUE) /\ o1 \in Seq(Value)
    BY <2>4, <2>5, <2>6, <2>7
  <2> QED BY <2>6, <2>7, <2>8, <2>9
<1> QED BY <1>5, <1>6

\* A list is an empty string or a word before a list.
LEMMA WordListCons ==
    ASSUME NEW ws \in Seq(Named)
    PROVE  /\ ws = <<>> => WordList(ws) = Str(Empty)
           /\ ws # <<>> => /\ Head(ws) \in Named /\ Tail(ws) \in Seq(Named)
                           /\ WordList(ws) = Str(Head(ws)) \o WordList(Tail(ws))
                           /\ ws = <<Head(ws)>> \o Tail(ws)
<1> DEFINE z == Str(Empty)
<1>1. z \in Seq(Field)  BY BlockTypes
<1>2. CASE ws = <<>>
  <2>1. Concat(Str, ws) = <<>>  BY <1>2, StrCons
  <2>2. <<>> \o z = z
    <3> HIDE DEF z
    <3> QED BY <1>1, ConcatEmptySeq
  <2> QED BY <1>2, <2>1, <2>2 DEF WordList
<1>3. CASE ws # <<>>
  <2> DEFINE n == Str(Head(ws))
             c == Concat(Str, Tail(ws))
  <2>1. Head(ws) \in Named /\ Tail(ws) \in Seq(Named) /\ ws = <<Head(ws)>> \o Tail(ws)
    BY <1>3, HeadTailProperties
  <2>2. n \in Seq(Field) /\ c \in Seq(Field) /\ Concat(Str, ws) = n \o c
    BY <1>3, <2>1, BlockTypes, StrCons
  <2>3. WordList(ws) = Cat(Cat(n, c), z) /\ n \o WordList(Tail(ws)) = Cat(n, Cat(c, z))
    BY <2>2 DEF WordList, Cat
  <2>4. Cat(Cat(n, c), z) = Cat(n, Cat(c, z))
    <3> HIDE DEF n, c, z
    <3> QED BY <1>1, <2>2, FieldRegroup3
  <2> QED BY <1>3, <2>1, <2>3, <2>4
<1> QED BY <1>2, <1>3

\* An empty string ends a list; another one is printed.
LEMMA ListRead ==
    ASSUME NEW rest, NEW out, AtList(rest, out)
    PROVE  /\ rest # <<>> /\ Head(rest).kind = "str" /\ Head(rest).v \in Value
           /\ Head(rest).v = Empty => Tail(rest) = <<>> /\ out = <<>>
           /\ Head(rest).v # Empty =>
                \E o \in Seq(Value) : out = <<Head(rest).v>> \o o /\ AtList(Tail(rest), o)
<1>1. PICK ws \in Seq(Named) : rest = WordList(ws) /\ out = ws  BY DEF AtList
<1>2. Empty \in Value /\ Named \subseteq Value /\ Empty \notin Named  BY DEF Value, Named
<1>3. CASE ws = <<>>
  <2>1. rest = Str(Empty)  BY <1>1, <1>3, WordListCons
  <2>2. Str(Empty) = Str(Empty) \o <<>> /\ <<>> \in Seq(Field)
    BY BlockTypes, ConcatEmptySeq, EmptySeq
  <2>3. rest # <<>> /\ Head(rest) = [kind |-> "str", v |-> Empty] /\ Tail(rest) = <<>>
    BY <1>2, <2>1, <2>2, FieldRead
  <2>4. Head(rest).kind = "str" /\ Head(rest).v = Empty  BY <2>3
  <2> QED BY <1>1, <1>2, <1>3, <2>3, <2>4
<1>4. CASE ws # <<>>
  <2> DEFINE h == Head(ws)
             t == Tail(ws)
             r1 == WordList(t)
  <2>1. h \in Named /\ t \in Seq(Named) /\ rest = Str(h) \o r1 /\ out = <<h>> \o t
    BY <1>1, <1>4, WordListCons
  <2>2. r1 \in Seq(Field) /\ t \in Seq(Value)  BY <2>1, WordListType
  <2>3. AtList(r1, t)
    <3> HIDE DEF t
    <3> QED BY <2>1 DEF AtList
  <2> HIDE DEF r1, h, t
  <2>4. rest # <<>> /\ Head(rest) = [kind |-> "str", v |-> h] /\ Tail(rest) = r1
    BY <1>2, <2>1, <2>2, FieldRead
  <2>5. Head(rest).kind = "str" /\ Head(rest).v = h  BY <2>4
  <2>6. h \in Value /\ h # Empty  BY <1>2, <2>1
  <2>7. out = <<Head(rest).v>> \o t /\ AtList(Tail(rest), t)  BY <2>1, <2>3, <2>4, <2>5
  <2> QED BY <2>2, <2>4, <2>5, <2>6, <2>7
<1> QED BY <1>3, <1>4

\* An empty word ends the words of a dictionary; another one is printed.
LEMMA DataWordRead ==
    ASSUME NEW rest, NEW out, AtDataWord(rest, out)
    PROVE  /\ rest # <<>> /\ Head(rest).kind = "str" /\ Head(rest).v \in Value
           /\ Head(rest).v = Empty => AtDataBook(Tail(rest), out)
           /\ Head(rest).v # Empty =>
                \E o \in Seq(Value) : out = <<Head(rest).v>> \o o /\ AtDataWord(Tail(rest), o)
<1>1. PICK ws \in Seq(Named), r \in Seq(Field), o \in Seq(Value) :
        AtDataBook(r, o) /\ rest = WordList(ws) \o r /\ out = ws \o o
  BY DEF AtDataWord
<1>2. Empty \in Value /\ Named \subseteq Value /\ Empty \notin Named  BY DEF Value, Named
<1>3. CASE ws = <<>>
  <2>1. rest = Str(Empty) \o r /\ out = o
    <3>1. <<>> \o o = o  BY ConcatEmptySeq
    <3> QED BY <1>1, <1>3, <3>1, WordListCons
  <2>2. rest # <<>> /\ Head(rest) = [kind |-> "str", v |-> Empty] /\ Tail(rest) = r
    BY <1>2, <2>1, FieldRead
  <2>3. Head(rest).kind = "str" /\ Head(rest).v = Empty  BY <2>2
  <2>4. AtDataBook(Tail(rest), out)  BY <1>1, <2>1, <2>2
  <2> QED BY <1>2, <2>2, <2>3, <2>4
<1>4. CASE ws # <<>>
  <2> DEFINE h == Head(ws)
             t == Tail(ws)
             n == Str(h)
             c == WordList(t)
             p == <<h>>
             r1 == c \o r
             o1 == t \o o
  <2>1. h \in Named /\ t \in Seq(Named) /\ WordList(ws) = n \o c /\ ws = p \o t
    BY <1>4, WordListCons
  <2>2. n \in Seq(Field) /\ c \in Seq(Field) /\ p \in Seq(Value) /\ t \in Seq(Value)
    BY <2>1, BlockTypes, WordListType
  <2>3. rest = n \o r1 /\ r1 \in Seq(Field)
    <3>1. rest = Cat(Cat(n, c), r)  BY <1>1, <2>1 DEF Cat
    <3>2. r1 = Cat(c, r) /\ n \o r1 = Cat(n, r1)  BY DEF Cat
    <3>3. n \in Seq(Field) /\ c \in Seq(Field)  BY <2>2
    <3> HIDE DEF n, c, r1, h, t
    <3> QED BY <3>1, <3>2, <3>3, FieldRegroup3, FieldCat
  <2>4. out = p \o o1 /\ o1 \in Seq(Value)
    <3>1. out = Cat(Cat(p, t), o)  BY <1>1, <2>1 DEF Cat
    <3>2. o1 = Cat(t, o) /\ p \o o1 = Cat(p, o1)  BY DEF Cat
    <3>3. p \in Seq(Value) /\ t \in Seq(Value)  BY <2>2
    <3> HIDE DEF p, o1, h, t
    <3> QED BY <3>1, <3>2, <3>3, ValueRegroup3, ValueCat
  <2>5. AtDataWord(r1, o1)
    <3> HIDE DEF t
    <3> QED BY <1>1, <2>1 DEF AtDataWord, r1, o1, c
  <2>6. rest # <<>> /\ Head(rest) = [kind |-> "str", v |-> h] /\ Tail(rest) = r1
    <3> HIDE DEF r1, h
    <3> QED BY <1>2, <2>1, <2>3, FieldRead
  <2> HIDE DEF r1, o1, h
  <2>7. Head(rest).kind = "str" /\ Head(rest).v = h  BY <2>6
  <2>8. h \in Value /\ h # Empty  BY <1>2, <2>1
  <2>9. out = <<Head(rest).v>> \o o1 /\ AtDataWord(Tail(rest), o1) /\ o1 \in Seq(Value)
    BY <2>4, <2>5, <2>6, <2>7
  <2> QED BY <2>6, <2>7, <2>8, <2>9
<1> QED BY <1>3, <1>4

\* An empty name ends the dictionaries of such a search.
LEMMA DataBookRead ==
    ASSUME NEW rest, NEW out, AtDataBook(rest, out)
    PROVE  /\ rest # <<>> /\ Head(rest).kind = "str" /\ Head(rest).v \in Value
           /\ Head(rest).v = Empty => Tail(rest) = <<>> /\ out = <<>>
           /\ Head(rest).v # Empty =>
                \E o \in Seq(Value) : out = <<Head(rest).v>> \o o /\ AtDataWord(Tail(rest), o)
<1>1. PICK bs \in Seq(DataBlock) : rest = DataList(bs) /\ out = Concat(OfDataBook, bs)
  BY DEF AtDataBook
<1>2. Empty \in Value /\ Named \subseteq Value /\ Empty \notin Named  BY DEF Value, Named
<1> DEFINE z == Str(Empty)
<1>3. z \in Seq(Field)  BY BlockTypes
<1>4. CASE bs = <<>>
  <2>1. Concat(ShowDataBook, bs) = <<>> /\ out = <<>>
    BY <1>1, <1>4, ShowDataBookCons, OfDataBookCons
  <2>2. rest = Str(Empty) \o <<>> /\ <<>> \in Seq(Field)
    <3>1. <<>> \o z = z /\ z \o <<>> = z
      <4> HIDE DEF z
      <4> QED BY <1>3, ConcatEmptySeq
    <3> QED BY <1>1, <2>1, <3>1, EmptySeq DEF DataList
  <2>3. rest # <<>> /\ Head(rest) = [kind |-> "str", v |-> Empty] /\ Tail(rest) = <<>>
    BY <1>2, <2>2, FieldRead
  <2>4. Head(rest).kind = "str" /\ Head(rest).v = Empty  BY <2>3
  <2> QED BY <1>2, <2>1, <2>3, <2>4
<1>5. CASE bs # <<>>
  <2> DEFINE b == Head(bs)
             n == Str(b.name)
             c == WordList(b.words)
             d == Concat(ShowDataBook, Tail(bs))
             p == <<b.name>>
             q == b.words
             u == Concat(OfDataBook, Tail(bs))
             r1 == d \o z
             r2 == c \o r1
             o2 == q \o u
  <2>1. b \in DataBlock /\ Tail(bs) \in Seq(DataBlock)  BY <1>5, HeadTailProperties
  <2>2. /\ b.name \in Named /\ b.words \in Seq(Named)
        /\ n \in Seq(Field) /\ c \in Seq(Field) /\ d \in Seq(Field)
        /\ p \in Seq(Value) /\ q \in Seq(Value) /\ u \in Seq(Value)
    BY <2>1, DataBookTypes, BlockTypes, WordListType, ShowDataBookCons, OfDataBookCons
  <2>3. Concat(ShowDataBook, bs) = (n \o c) \o d /\ out = (p \o q) \o u
    <3>1. Concat(ShowDataBook, bs) = ShowDataBook(b) \o d
      BY <1>5, ShowDataBookCons
    <3>2. out = OfDataBook(b) \o u  BY <1>1, <1>5, OfDataBookCons
    <3>3. ShowDataBook(b) = n \o c /\ OfDataBook(b) = p \o q
      BY DEF ShowDataBook, OfDataBook
    <3> HIDE DEF n, c, d, p, q, u, b
    <3> QED BY <3>1, <3>2, <3>3
  <2>4. rest = n \o r2 /\ r1 \in Seq(Field) /\ r2 \in Seq(Field)
    <3>1. n \in Seq(Field) /\ c \in Seq(Field) /\ d \in Seq(Field)  BY <2>2
    <3>2. rest = Cat(Cat(Cat(n, c), d), z)  BY <1>1, <2>3 DEF Cat, DataList
    <3>3. r1 = Cat(d, z) /\ r2 = Cat(c, r1) /\ n \o r2 = Cat(n, r2)  BY DEF Cat
    <3> HIDE DEF n, c, d, z, b, r1, r2, p, q, u
    <3>4. rest = Cat(n, Cat(c, Cat(d, z)))  BY <1>3, <3>1, <3>2, FieldRegroup4
    <3>5. r1 \in Seq(Field)  BY <1>3, <3>1, <3>3, FieldCat
    <3>6. r2 \in Seq(Field)  BY <3>1, <3>3, <3>5, FieldCat
    <3> QED BY <3>3, <3>4, <3>5, <3>6
  <2>5. out = p \o o2 /\ o2 \in Seq(Value)
    <3>1. p \in Seq(Value) /\ q \in Seq(Value) /\ u \in Seq(Value)  BY <2>2
    <3>2. out = Cat(Cat(p, q), u)  BY <2>3 DEF Cat
    <3>3. o2 = Cat(q, u) /\ p \o o2 = Cat(p, o2)  BY DEF Cat
    <3> HIDE DEF p, q, u, b, o2
    <3> QED BY <3>1, <3>2, <3>3, ValueRegroup3, ValueCat
  <2>6. AtDataBook(r1, u)  BY <2>1 DEF AtDataBook, DataList
  <2>7. AtDataWord(r2, o2)
    <3>1. q \in Seq(Named) /\ r1 \in Seq(Field) /\ u \in Seq(Value)  BY <2>2, <2>4
    <3>2. r2 = WordList(q) \o r1 /\ o2 = q \o u  OBVIOUS
    <3> HIDE DEF q, r1, u, b, r2, o2
    <3> QED BY <2>6, <3>1, <3>2 DEF AtDataWord
  <2>8. rest # <<>> /\ Head(rest) = [kind |-> "str", v |-> b.name] /\ Tail(rest) = r2
    <3> HIDE DEF r2, b
    <3> QED BY <1>2, <2>2, <2>4, FieldRead
  <2>9. Head(rest).kind = "str" /\ Head(rest).v = b.name
    <3> HIDE DEF b, r2
    <3> QED BY <2>8
  <2>10. b.name \in Value /\ b.name # Empty  BY <1>2, <2>2
  <2> HIDE DEF r2, o2, b
  <2>11. out = <<Head(rest).v>> \o o2 /\ AtDataWord(Tail(rest), o2) /\ o2 \in Seq(Value)
    BY <2>5, <2>7, <2>8, <2>9
  <2> QED BY <2>8, <2>9, <2>10, <2>11
<1> QED BY <1>4, <1>5

\* The tag says which kind of list the search of a lookup has.
LEMMA TagRead ==
    ASSUME NEW rest, NEW out, AfterBooks("lookup", rest, out)
    PROVE  /\ rest # <<>> /\ Head(rest).kind = "str" /\ Head(rest).v \in Value
           /\ \E o \in Seq(Value) :
                /\ out = <<Head(rest).v>> \o o
                /\ IF Head(rest).v = "d" THEN AtDataBook(Tail(rest), o)
                   ELSE AtList(Tail(rest), o)
<1>1. PICK s \in SearchBlock : rest = ShowList(s) /\ out = OfSearch("lookup", s)
  BY DEF AfterBooks
<1>2. s.tag \in Tags /\ s.tag # Empty
  <2>1. s.tag \in Tags  BY DEF SearchBlock, Tags
  <2>2. Empty \notin Tags  BY Zenon DEF Tags, Empty
  <2> QED BY <2>1, <2>2
<1>3. s.tag \in Value  BY <1>2 DEF Value
<1>4. "lookup" \notin ListOps  BY DEF ListOps
<1>5. CASE s.tag = "d"
  <2>1. s.list \in Seq(DataBlock)  BY <1>5 DEF SearchBlock
  <2> DEFINE r == DataList(s.list)
             o == Concat(OfDataBook, s.list)
  <2>2. rest = Str(s.tag) \o r /\ out = <<s.tag>> \o o
    BY <1>1, <1>2, <1>5 DEF ShowList, OfSearch
  <2>3. r \in Seq(Field) /\ o \in Seq(Value)
    <3>1. Concat(ShowDataBook, s.list) \in Seq(Field) /\ Str(Empty) \in Seq(Field)
      BY <2>1, ShowDataBookCons, BlockTypes
    <3>2. r = Cat(Concat(ShowDataBook, s.list), Str(Empty))  BY DEF DataList, Cat
    <3> HIDE DEF r
    <3> QED BY <2>1, <3>1, <3>2, OfDataBookCons, FieldCat
  <2>4. AtDataBook(r, o)  BY <2>1 DEF AtDataBook
  <2> HIDE DEF r, o
  <2>5. rest # <<>> /\ Head(rest) = [kind |-> "str", v |-> s.tag] /\ Tail(rest) = r
    BY <1>3, <2>2, <2>3, FieldRead
  <2>6. Head(rest).kind = "str" /\ Head(rest).v = s.tag  BY <2>5
  <2> QED BY <1>3, <1>5, <2>2, <2>3, <2>4, <2>5, <2>6
<1>6. CASE s.tag # "d"
  <2>1. s.list \in Seq(Named)  BY <1>6 DEF SearchBlock
  <2> DEFINE r == WordList(s.list)
             o == s.list
  <2>2. rest = Str(s.tag) \o r /\ out = <<s.tag>> \o o
    BY <1>1, <1>2, <1>4, <1>6 DEF ShowList, OfSearch
  <2>3. r \in Seq(Field) /\ o \in Seq(Value)  BY <2>1, WordListType
  <2>4. AtList(r, o)  BY <2>1 DEF AtList
  <2> HIDE DEF r, o
  <2>5. rest # <<>> /\ Head(rest) = [kind |-> "str", v |-> s.tag] /\ Tail(rest) = r
    BY <1>3, <2>2, <2>3, FieldRead
  <2>6. Head(rest).kind = "str" /\ Head(rest).v = s.tag  BY <2>5
  <2> QED BY <1>3, <1>6, <2>2, <2>3, <2>4, <2>5, <2>6
<1> QED BY <1>5, <1>6

-----------------------------------------------------------------------------
(* What the session sends is what the client expects to read.              *)

\* The empty string is none of the literals of the protocol.
LEMMA NotEmpty ==
    Empty # "ad" /\ Empty # "Links" /\ Empty # "l" /\ Empty # "d" /\ Empty # "value"
BY Zenon DEF Empty

\* A dictionary has words that can be told from the end of a list.
LEMMA EntriesType == \A es \in Entries : es \in Seq(EntryBlock)
<1>1. Words \subseteq Named /\ Articles \subseteq Named
  BY ProtocolAssumption DEF Named, Value
<1>2. Seq(Articles) \subseteq Seq(Named)  BY <1>1, SeqMonotonic
<1>3. Entry \subseteq EntryBlock  BY <1>1, <1>2 DEF Entry, EntryBlock
<1>4. Seq(Entry) \subseteq Seq(EntryBlock)  BY <1>3, SeqMonotonic
<1> QED BY <1>4, ProtocolAssumption

\* The dictionaries that have something.
LEMMA HavingType ==
    ASSUME NEW entries \in [DOMAIN Books -> Entries]
    PROVE  Having(entries) \in Seq(BookBlock)
<1> DEFINE One(i) == IF entries[i] = <<>> THEN <<>>
                     ELSE <<[name |-> Books[i], entries |-> entries[i]]>>
           g == [i \in DOMAIN Books |-> One(i)]
<1>1. ASSUME NEW i \in DOMAIN Books PROVE One(i) \in Seq(BookBlock)
  <2>1. Books[i] \in Named  BY ProtocolAssumption DEF Named, Value, Names
  <2>2. entries[i] \in Seq(EntryBlock)  BY EntriesType
  <2>3. [name |-> Books[i], entries |-> entries[i]] \in BookBlock  BY <2>1, <2>2 DEF BookBlock
  <2> DEFINE b == [name |-> Books[i], entries |-> entries[i]]
  <2>4. <<b>> \in Seq(BookBlock) /\ <<>> \in Seq(BookBlock)
    <3> HIDE DEF b
    <3>1. b \in BookBlock  BY <2>3 DEF b
    <3> QED BY <3>1
  <2> QED BY <2>4
<1>2. Len(Books) \in Nat /\ DOMAIN Books = 1 .. Len(Books)
  BY ProtocolAssumption, LenProperties
<1>3. g \in [1 .. Len(Books) -> Seq(BookBlock)]
  <2> HIDE DEF One
  <2> QED BY <1>1, <1>2
<1>4. g \in Seq(Seq(BookBlock))
  <2> HIDE DEF g
  <2> QED BY <1>2, <1>3, SeqDef
<1>5. Having(entries) = FlattenSeq(g)  BY DEF Having
<1> HIDE DEF g
<1> QED BY <1>4, <1>5, FlattenType

\* With the links that users of level 0 get.
LEMMA ShownType ==
    ASSUME NEW entries \in [DOMAIN Books -> Entries]
    PROVE  Shown(entries) \in Seq(BookBlock)
<1>1. "ad" \in Named /\ "Links" \in Named
  <2>1. "ad" \in Value /\ "Links" \in Value  BY DEF Value
  <2> QED BY <2>1, NotEmpty DEF Named
<1>2. Ad \in BookBlock
  <2> DEFINE e == [word |-> "ad", articles |-> <<"ad">>]
  <2>1. <<"ad">> \in Seq(Named) /\ <<"ad">> # <<>>  BY <1>1
  <2>2. e \in EntryBlock  BY <1>1, <2>1 DEF EntryBlock
  <2>3. <<e>> \in Seq(EntryBlock)
    <3> HIDE DEF e
    <3> QED BY <2>2
  <2>4. Ad = [name |-> "Links", entries |-> <<e>>]  BY DEF Ad
  <2> HIDE DEF e
  <2> QED BY <1>1, <2>3, <2>4 DEF BookBlock
<1>3. Ads(level) \in Seq(BookBlock)  BY <1>2 DEF Ads
<1>4. Having(entries) \in Seq(BookBlock)  BY HavingType
<1>5. Having(entries) \o Ads(level) \in Seq(BookBlock)  BY <1>3, <1>4, ConcatProperties
<1> QED BY <1>5, EmptySeq DEF Shown

\* The words of a list, and what a lookup adds.
LEMMA SearchType ==
    /\ \A ws \in WordSeqs : ws \in Seq(Named)
    /\ \A books : Searches(books) \subseteq SearchBlock
<1>1. \A ws \in WordSeqs : ws \in Seq(Named)
  <2>1. Words \subseteq Named  BY ProtocolAssumption DEF Named, Value
  <2>2. Seq(Words) \subseteq Seq(Named)  BY <2>1, SeqMonotonic
  <2> QED BY <2>2, ProtocolAssumption
<1>2. ASSUME NEW hits \in [DOMAIN Books -> WordSeqs]
      PROVE  HavingWords(hits) \in Seq(DataBlock)
  <2> DEFINE One(i) == IF hits[i] = <<>> THEN <<>>
                       ELSE <<[name |-> Books[i], words |-> hits[i]]>>
             g == [i \in DOMAIN Books |-> One(i)]
  <2>1. ASSUME NEW i \in DOMAIN Books PROVE One(i) \in Seq(DataBlock)
    <3>1. Books[i] \in Named  BY ProtocolAssumption DEF Named, Value, Names
    <3>2. hits[i] \in Seq(Named)  BY <1>1
    <3> DEFINE b == [name |-> Books[i], words |-> hits[i]]
    <3>3. b \in DataBlock  BY <3>1, <3>2 DEF DataBlock
    <3>4. <<b>> \in Seq(DataBlock) /\ <<>> \in Seq(DataBlock)
      <4> HIDE DEF b
      <4> QED BY <3>3
    <3> QED BY <3>4
  <2>2. Len(Books) \in Nat /\ DOMAIN Books = 1 .. Len(Books)
    BY ProtocolAssumption, LenProperties
  <2>3. g \in [1 .. Len(Books) -> Seq(DataBlock)]
    <3> HIDE DEF One
    <3> QED BY <2>1, <2>2
  <2>4. g \in Seq(Seq(DataBlock))
    <3> HIDE DEF g
    <3> QED BY <2>2, <2>3, SeqDef
  <2>5. HavingWords(hits) = FlattenSeq(g)  BY DEF HavingWords
  <2> HIDE DEF g
  <2> QED BY <2>4, <2>5, FlattenType
<1>3. ASSUME NEW books, NEW s \in Searches(books) PROVE s \in SearchBlock
  <2>1. \/ \E t \in {"l", "r", "g", "f"}, ws \in WordSeqs : s = [tag |-> t, list |-> ws]
        \/ \E hits \in [DOMAIN Books -> WordSeqs] :
              s = [tag |-> "d", list |-> HavingWords(hits)]
    BY <1>3 DEF Searches
  <2>2. CASE \E t \in {"l", "r", "g", "f"}, ws \in WordSeqs : s = [tag |-> t, list |-> ws]
    BY <1>1, <2>2 DEF SearchBlock
  <2>3. CASE \E hits \in [DOMAIN Books -> WordSeqs] :
               s = [tag |-> "d", list |-> HavingWords(hits)]
    BY <1>2, <2>3 DEF SearchBlock
  <2> QED BY <2>1, <2>2, <2>3
<1> QED BY <1>1, <1>3

\* What is printed of a result.
LEMMA ResultType ==
    ASSUME NEW op, NEW oword \in Value, NEW books \in Seq(BookBlock)
    PROVE  OfResult(op, oword, books) \in Seq(Value)
<1>1. \A h : OfBooks(h, books) \in Seq(Value)  BY OfBookCons
<1>2. <<oword>> \in Seq(Value)  OBVIOUS
<1>3. <<oword>> \o OfBooks(oword, books) \in Seq(Value)  BY <1>1, <1>2, ConcatProperties
<1> QED BY <1>1, <1>3 DEF OfResult

\* A result, and what follows it, is read from the word that was looked up on.
LEMMA ResultReads ==
    ASSUME NEW op, NEW oword \in Value, NEW books \in Seq(BookBlock), NEW r \in Seq(Field),
           NEW o \in Seq(Value), AfterBooks(op, r, o)
    PROVE  /\ DictResult(oword, books) \in Seq(Field)
           /\ OfResult(op, oword, books) \in Seq(Value)
           /\ \A h : Reads(op, h, "oword", DictResult(oword, books) \o r,
                          OfResult(op, oword, books) \o o)
<1> DEFINE w == Str(oword)
           c == Concat(ShowBook, books)
           z == Str(Empty)
           q == c \o (z \o r)
<1>1. oword \in Value /\ Empty \in Value  BY DEF Value
<1>2. w \in Seq(Field) /\ z \in Seq(Field) /\ c \in Seq(Field)
  BY <1>1, FieldType, BlockTypes, ShowBookCons
<1>3. DictResult(oword, books) = Cat(Cat(w, c), z)
  <2>1. CASE books = <<>>
    <3>1. c = <<>>  BY <2>1, ShowBookCons
    <3>2. w \o <<>> = w
      <4> HIDE DEF w
      <4> QED BY <1>2, ConcatEmptySeq
    <3> QED BY <2>1, <3>1, <3>2 DEF DictResult, ShowNotFound, Cat
  <2>2. CASE books # <<>>  BY <2>2 DEF DictResult, ShowData, Cat
  <2> QED BY <2>1, <2>2
<1>4. DictResult(oword, books) \in Seq(Field)
  <2> HIDE DEF w, c, z
  <2>1. Cat(w, c) \in Seq(Field)  BY <1>2, FieldCat
  <2> QED BY <1>2, <1>3, <2>1, FieldCat
<1>5. DictResult(oword, books) \o r = w \o q /\ q \in Seq(Field)
  <2>1. DictResult(oword, books) \o r = Cat(Cat(Cat(w, c), z), r)  BY <1>3 DEF Cat
  <2>2. q = Cat(c, Cat(z, r)) /\ w \o q = Cat(w, q)  BY DEF Cat
  <2> HIDE DEF w, c, z, q
  <2>3. Cat(Cat(Cat(w, c), z), r) = Cat(w, Cat(c, Cat(z, r)))  BY <1>2, FieldRegroup4
  <2>4. Cat(z, r) \in Seq(Field)  BY <1>2, FieldCat
  <2>5. q \in Seq(Field)  BY <1>2, <2>2, <2>4, FieldCat
  <2> QED BY <2>1, <2>2, <2>3, <2>5
<1> DEFINE said == Said(op, oword)
           p == OfBooks(said, books)
<1>6. p \in Seq(Value)  BY OfBookCons
<1>7. AtBook(op, said, q, p \o o)  BY DEF AtBook
<1>8. OfResult(op, oword, books) = IF op = "selectquery" THEN <<oword>> \o p ELSE p
  BY DEF OfResult, Said
<1> HIDE DEF q, p, said, w, c, z
<1>9. p \o o \in Seq(Value) /\ <<oword>> \in Seq(Value)  BY <1>1, <1>6, ConcatProperties
<1>10. OfResult(op, oword, books) \in Seq(Value)  BY <1>6, <1>8, <1>9, ConcatProperties
<1>11. OfResult(op, oword, books) \o o
         = IF op = "selectquery" THEN <<oword>> \o (p \o o) ELSE p \o o
  BY <1>6, <1>8, <1>9, ConcatAssociative
<1>12. AtBook(op, Said(op, oword), q, p \o o)  BY <1>7 DEF said
<1>13. DictResult(oword, books) \o r = Str(oword) \o q  BY <1>5 DEF w
<1>14. \A h : Reads(op, h, "oword", Str(oword) \o q, OfResult(op, oword, books) \o o)
  BY <1>5, <1>9, <1>11, <1>12 DEF Reads
<1> QED BY <1>4, <1>10, <1>13, <1>14

-----------------------------------------------------------------------------
(* The invariant.                                                          *)

\* Labels at which the client is in the middle of a reply.
Fields == {"oword", "book", "word", "article", "more", "string", "tag", "list",
           "databook", "dataword"}

\* Before a reply the stream is empty, or auth has left a second answer in it.
LeftOver(i) == wire = <<>> \/ (wire = Line("DENIED") /\ commands[i] = "auth")

\* The stream w, with what a broken connection has lost behind it, is what a
\* client at that label reads, and it will then have shown all of the reply.
\* A client that floats shows the word of the reply first.
Begun(label) == IF label = "oword" THEN shown = <<>> ELSE Command = "selectquery" => shown # <<>>
Underway(label, w) ==
    /\ Begun(label)
    /\ \E lost \in Seq(Field), out \in Seq(Value) :
         /\ Reads(Command, Said(Command, Head(shown)), label, w \o lost, out)
         /\ shown \o out = Printed(Command, found)
         /\ open => lost = <<>>

\* A reply is in the stream, from its status line on.
ToCome ==
    \/ wire = <<>> /\ ~open
    \/ /\ wire # <<>> /\ Head(wire).kind = "line" /\ Head(wire).v \in Value
       /\ \/ Head(wire).v # Expected(Command)
          \/ Command = "auth" /\ Tail(wire) \in {<<>>, Line("DENIED")}
          \/ Underway(AfterStatus(Command), Tail(wire))

\* Where the client is, and what is in the stream for it.
Position ==
    /\ pc = "banner" =>
         current = 0 /\ ~request /\ (wire = <<>> \/ \E c \in Codes : wire = Line(c))
    /\ pc \in Fields \cup {"request", "status", "done"} => current \in 1 .. Len(commands)
    /\ pc = "request" => ~request /\ LeftOver(current - 1)
    /\ pc = "status" => shown = <<>> /\ (IF request THEN LeftOver(current - 1) ELSE ToCome)
    /\ pc \in Fields => ~request /\ Underway(pc, wire)
    /\ pc = "done" =>
         /\ ~request
         /\ Underway("done", wire) \/ (Command = "auth" /\ wire \in {<<>>, Line("DENIED")})

IInv == TypeOK /\ wire \in Seq(Field) /\ shown \in Seq(Value) /\ Position /\ result # "confused"

\* The commands begin and end as request_command is told to.
LEMMA CommandsType ==
    ASSUME TypeOK
    PROVE  /\ commands \in Seq(Ops) /\ Len(commands) \in Nat \ {0}
           /\ current \in 0 .. Len(commands)
           /\ current # 0 => Command \in Ops
<1>1. PICK script \in Scripts : commands = <<"client">> \o script \o <<"quit">>
  BY DEF TypeOK, Start
<1>2. script \in Seq(Ops)
  <2>1. script \in Seq(Ops \ {"client", "quit"})  BY ProtocolAssumption
  <2> QED BY <2>1, SeqMonotonic
<1>3. <<"client">> \in Seq(Ops) /\ <<"quit">> \in Seq(Ops)
  <2>1. "client" \in Ops /\ "quit" \in Ops  BY DEF Ops, StatusOps
  <2> QED BY <2>1
<1>4. <<"client">> \o script \in Seq(Ops) /\ Len(<<"client">> \o script) = 1 + Len(script)
  BY <1>2, <1>3, ConcatProperties
<1>5. commands \in Seq(Ops) /\ Len(commands) = 2 + Len(script)
  <2> DEFINE cs == <<"client">> \o script
  <2>1. Len(<<"quit">>) = 1 /\ cs \in Seq(Ops) /\ Len(cs) = 1 + Len(script)  BY <1>4
  <2> HIDE DEF cs
  <2>2. cs \o <<"quit">> \in Seq(Ops) /\ Len(cs \o <<"quit">>) = Len(cs) + 1
    BY <1>3, <2>1, ConcatProperties
  <2>3. Len(script) \in Nat  BY <1>2
  <2> QED BY <1>1, <2>1, <2>2, <2>3 DEF cs
<1>6. Len(script) \in Nat  BY <1>2
<1>7. current \in 0 .. Len(commands)  BY DEF TypeOK
<1>8. current # 0 => current \in 1 .. Len(commands)  BY <1>5, <1>6, <1>7
<1> QED BY <1>5, <1>6, <1>7, <1>8 DEF Command

\* Nothing but a status line comes first, and the stream holds fields.
LEMMA LineFacts ==
    /\ \A c \in Codes : /\ Line(c) \in Seq(Field) /\ Line(c) # <<>>
                        /\ Head(Line(c)) = [kind |-> "line", v |-> c] /\ Tail(Line(c)) = <<>>
                        /\ Len(Line(c)) = 1
    /\ Len(<<>>) = 0
    /\ "DENIED" \in Codes /\ "OK" \in Codes /\ "GOODBYE" \in Codes
    /\ \A op : Expected(op) \in {"OK", "GOODBYE"}
<1>1. Codes \subseteq Value  BY DEF Value
<1>2. ASSUME NEW c \in Codes
      PROVE  /\ Line(c) \in Seq(Field) /\ Line(c) # <<>>
             /\ Head(Line(c)) = [kind |-> "line", v |-> c] /\ Tail(Line(c)) = <<>>
             /\ Len(Line(c)) = 1
  <2> DEFINE x == [kind |-> "line", v |-> c]
  <2>1. x \in Field /\ Line(c) = <<x>>  BY <1>1, FieldType
  <2> HIDE DEF x
  <2>2. /\ <<x>> \in Seq(Field) /\ <<x>> # <<>> /\ Head(<<x>>) = x /\ Tail(<<x>>) = <<>>
        /\ Len(<<x>>) = 1
    BY <2>1
  <2> QED BY <2>1, <2>2 DEF x
<1> QED BY <1>2 DEF Codes, Expected

\* A label in a reply says which kind of field comes next.
LEMMA KindRead ==
    ASSUME NEW op, NEW h, NEW label \in Fields, NEW rest, NEW out, Reads(op, h, label, rest, out)
    PROVE  /\ rest # <<>> /\ Head(rest).v \in Value
           /\ Head(rest).kind = IF label \in {"article", "more"} THEN "data" ELSE "str"
<1>1. CASE label \in {"article", "more"}
  <2>1. \E more \in BOOLEAN : AtArticle(op, h, rest, out, more)  BY <1>1 DEF Reads
  <2> QED BY <1>1, <2>1, ArticleRead
<1>2. CASE label \in {"string", "oword"}
  <2>1. \E v \in Value, r \in Seq(Field) : rest = Str(v) \o r
    <3>1. "value" \in Value  BY DEF Value
    <3>2. Str("value") = Str("value") \o <<>> /\ <<>> \in Seq(Field)
      BY <3>1, FieldType, ConcatEmptySeq, EmptySeq
    <3> QED BY <1>2, <3>1, <3>2 DEF Reads
  <2>2. PICK v \in Value, r \in Seq(Field) : rest = Str(v) \o r  BY <2>1
  <2>3. rest # <<>> /\ Head(rest) = [kind |-> "str", v |-> v]  BY <2>2, FieldRead
  <2> QED BY <1>2, <2>3
<1>3. CASE label = "book"
  <2>1. AtBook(op, h, rest, out)  BY <1>3 DEF Reads
  <2> QED BY <1>3, <2>1, BookRead
<1>4. CASE label = "word"
  <2>1. AtWord(op, h, rest, out)  BY <1>4 DEF Reads
  <2> QED BY <1>4, <2>1, WordRead
<1>5. CASE label = "tag"
  <2>1. AfterBooks("lookup", rest, out)  BY <1>5 DEF Reads
  <2>2. rest # <<>> /\ Head(rest).kind = "str" /\ Head(rest).v \in Value  BY <2>1, TagRead
  <2> QED BY <1>5, <2>2
<1>6. CASE label = "list"
  <2>1. AtList(rest, out)  BY <1>6 DEF Reads
  <2> QED BY <1>6, <2>1, ListRead
<1>7. CASE label = "databook"
  <2>1. AtDataBook(rest, out)  BY <1>7 DEF Reads
  <2> QED BY <1>7, <2>1, DataBookRead
<1>8. CASE label = "dataword"
  <2>1. AtDataWord(rest, out)  BY <1>8 DEF Reads
  <2> QED BY <1>8, <2>1, DataWordRead
<1> QED BY <1>1, <1>2, <1>3, <1>4, <1>5, <1>6, <1>7, <1>8 DEF Fields

\* So a reader in a reply never meets a field of another kind: the stream has
\* the field it expects, or the connection is gone.
LEMMA NextField ==
    ASSUME IInv, pc \in Fields
    PROVE  /\ ~request /\ current \in 1 .. Len(commands)
           /\ wire = <<>> => ~open
           /\ wire # <<>> =>
                /\ Head(wire).kind = IF pc \in {"article", "more"} THEN "data" ELSE "str"
                /\ Head(wire).v \in Value /\ Tail(wire) \in Seq(Field)
                /\ Begun(pc)
                /\ \E lost \in Seq(Field), out \in Seq(Value), rest \in Seq(Field) :
                     /\ Reads(Command, Said(Command, Head(shown)), pc, rest, out) /\ Head(rest) = Head(wire)
                     /\ Tail(rest) = Tail(wire) \o lost
                     /\ shown \o out = Printed(Command, found)
                     /\ open => lost = <<>>
<1>1. Underway(pc, wire) /\ ~request /\ current \in 1 .. Len(commands) /\ wire \in Seq(Field)
  BY DEF IInv, Position
<1>2. PICK lost \in Seq(Field), out \in Seq(Value) :
        /\ Reads(Command, Said(Command, Head(shown)), pc, wire \o lost, out)
        /\ shown \o out = Printed(Command, found)
        /\ open => lost = <<>>
  BY <1>1 DEF Underway
<1> DEFINE rest == wire \o lost
<1>3. /\ rest # <<>> /\ Head(rest).v \in Value
      /\ Head(rest).kind = IF pc \in {"article", "more"} THEN "data" ELSE "str"
  BY <1>2, KindRead
<1>4. wire = <<>> => rest = lost  BY <1>2, ConcatEmptySeq
<1>5. wire # <<>> => /\ Head(rest) = Head(wire) /\ Tail(rest) = Tail(wire) \o lost
                     /\ rest \in Seq(Field) /\ Tail(wire) \in Seq(Field)
  BY <1>1, ReadFront
<1>6. Reads(Command, Said(Command, Head(shown)), pc, rest, out)  BY <1>2
<1> HIDE DEF rest
<1>7. wire = <<>> => ~open  BY <1>2, <1>3, <1>4
<1>8. Begun(pc)  BY <1>1 DEF Underway
<1> QED BY <1>1, <1>2, <1>3, <1>5, <1>6, <1>7, <1>8

\* What a client at a label does on the value v: where it goes on, whether it
\* prints v, and what it will then not print.
Onward(op, label, v) ==
    CASE label = "string" -> "done"
      [] label = "oword" -> "book"
      [] label = "book" ->
           IF v # Empty THEN "word" ELSE IF op = "lookup" THEN "tag" ELSE "done"
      [] label = "word" -> IF v = Empty THEN "book" ELSE "article"
      [] label = "article" -> "more"
      [] label = "more" -> IF v = Empty THEN "word" ELSE "more"
      [] label = "tag" -> IF v = "d" THEN "databook" ELSE "list"
      [] label = "list" -> IF v = Empty THEN "done" ELSE "list"
      [] label = "databook" -> IF v = Empty THEN "done" ELSE "dataword"
      [] label = "dataword" -> IF v = Empty THEN "databook" ELSE "dataword"
Prints(op, h, label, v) ==
    \/ label \in {"article", "tag"}
    \/ label = "oword" /\ op = "selectquery"
    \/ label = "word" /\ v # Empty /\ v # h
    \/ label \in {"book", "more", "list", "databook", "dataword"} /\ v # Empty
Leaves(op, h, label, v) == IF label = "oword" THEN Said(op, v) ELSE h

\* After a field the client reads on at the right label.
LEMMA ReadsOn ==
    ASSUME NEW op, NEW h, NEW label \in Fields, NEW rest, NEW out \in Seq(Value),
           Reads(op, h, label, rest, out)
    PROVE  LET v == Head(rest).v
               n == Onward(op, label, v)
           IN /\ n \in Fields \cup {"done"}
              /\ \E o \in Seq(Value) :
                   /\ out = IF Prints(op, h, label, v) THEN <<v>> \o o ELSE o
                   /\ Reads(op, Leaves(op, h, label, v), n, Tail(rest), o)
<1> DEFINE v == Head(rest).v
           n == Onward(op, label, v)
           Goal == /\ n \in Fields \cup {"done"}
                   /\ \E o \in Seq(Value) :
                        /\ out = IF Prints(op, h, label, v) THEN <<v>> \o o ELSE o
                        /\ Reads(op, Leaves(op, h, label, v), n, Tail(rest), o)
<1>0. label # "oword" => Leaves(op, h, label, v) = h  BY DEF Leaves
<1>1. CASE label = "string"
  <2>1. rest = Str("value") /\ out = <<>>  BY <1>1 DEF Reads
  <2>2. "value" \in Value  BY DEF Value
  <2>3. Str("value") = Str("value") \o <<>> /\ <<>> \in Seq(Field)
    BY <2>2, FieldType, ConcatEmptySeq, EmptySeq
  <2>4. Tail(rest) = <<>>  BY <2>1, <2>2, <2>3, FieldRead
  <2>5. n = "done" /\ ~Prints(op, h, label, v)  BY <1>1 DEF Onward, Prints
  <2>6. Reads(op, h, "done", <<>>, <<>>)  BY DEF Reads
  <2> QED BY <1>1, <1>0, <2>1, <2>4, <2>5, <2>6
<1>2. CASE label = "oword"
  <2>1. PICK w \in Value, r \in Seq(Field), o \in Seq(Value) :
          /\ AtBook(op, Said(op, w), r, o)
          /\ rest = Str(w) \o r
          /\ out = IF op = "selectquery" THEN <<w>> \o o ELSE o
    BY <1>2 DEF Reads
  <2>2. Tail(rest) = r /\ Head(rest) = [kind |-> "str", v |-> w]  BY <2>1, FieldRead
  <2>3. v = w  BY <2>2
  <2>4. n = "book" /\ (Prints(op, h, label, v) <=> op = "selectquery")
    BY <1>2 DEF Onward, Prints
  <2>5. Leaves(op, h, label, v) = Said(op, w)  BY <1>2, <2>3 DEF Leaves
  <2>6. Reads(op, Said(op, w), "book", r, o)  BY <2>1 DEF Reads
  <2>7. "book" \in Fields  BY DEF Fields
  <2>8. out = IF Prints(op, h, label, v) THEN <<v>> \o o ELSE o  BY <2>1, <2>3, <2>4
  <2> QED BY <2>2, <2>4, <2>5, <2>6, <2>7, <2>8
<1>3. CASE label = "book"
  <2>1. AtBook(op, h, rest, out)  BY <1>3 DEF Reads
  <2>2. CASE v = Empty
    <3>1. AfterBooks(op, Tail(rest), out)  BY <2>1, <2>2, BookRead
    <3>2. ~Prints(op, h, label, v)  BY <1>3, <2>2 DEF Prints
    <3>3. CASE op = "lookup"
      <4>1. n = "tag"  BY <1>3, <2>2, <3>3 DEF Onward
      <4>2. Reads(op, h, "tag", Tail(rest), out)  BY <3>1, <3>3 DEF Reads
      <4>3. "tag" \in Fields  BY DEF Fields
      <4> QED BY <1>3, <1>0, <3>2, <4>1, <4>2, <4>3
    <3>4. CASE op # "lookup"
      <4>1. n = "done"  BY <1>3, <2>2, <3>4 DEF Onward
      <4>2. Tail(rest) = <<>> /\ out = <<>>  BY <3>1, <3>4 DEF AfterBooks
      <4>3. Reads(op, h, "done", Tail(rest), out)  BY <4>2 DEF Reads
      <4> QED BY <1>3, <1>0, <3>2, <4>1, <4>3
    <3> QED BY <3>3, <3>4
  <2>3. CASE v # Empty
    <3>1. PICK o \in Seq(Value) : out = <<v>> \o o /\ AtWord(op, h, Tail(rest), o)
      BY <2>1, <2>3, BookRead
    <3>2. Prints(op, h, label, v) /\ n = "word"  BY <1>3, <2>3 DEF Prints, Onward
    <3>3. Reads(op, h, "word", Tail(rest), o)  BY <3>1 DEF Reads
    <3>4. "word" \in Fields  BY DEF Fields
    <3> QED BY <1>3, <1>0, <3>1, <3>2, <3>3, <3>4
  <2> QED BY <2>2, <2>3
<1>4. CASE label = "word"
  <2>1. AtWord(op, h, rest, out)  BY <1>4 DEF Reads
  <2>2. CASE v = Empty
    <3>1. AtBook(op, h, Tail(rest), out)  BY <2>1, <2>2, WordRead
    <3>2. ~Prints(op, h, label, v) /\ n = "book"  BY <1>4, <2>2 DEF Prints, Onward
    <3>3. Reads(op, h, "book", Tail(rest), out)  BY <3>1 DEF Reads
    <3>4. "book" \in Fields  BY DEF Fields
    <3> QED BY <1>4, <1>0, <3>2, <3>3, <3>4
  <2>3. CASE v # Empty
    <3>1. PICK o \in Seq(Value) :
            /\ out = IF v # h THEN <<v>> \o o ELSE o
            /\ AtArticle(op, h, Tail(rest), o, FALSE)
      BY <2>1, <2>3, WordRead
    <3>2. (Prints(op, h, label, v) <=> v # h) /\ n = "article"
      BY <1>4, <2>3 DEF Prints, Onward
    <3>3. Reads(op, h, "article", Tail(rest), o)  BY <3>1 DEF Reads
    <3>4. "article" \in Fields  BY DEF Fields
    <3> QED BY <1>4, <1>0, <3>1, <3>2, <3>3, <3>4
  <2> QED BY <2>2, <2>3
<1>5. CASE label = "article"
  <2>1. AtArticle(op, h, rest, out, FALSE)  BY <1>5 DEF Reads
  <2>2. v # Empty  BY <2>1, ArticleRead
  <2>3. PICK o \in Seq(Value) : out = <<v>> \o o /\ AtArticle(op, h, Tail(rest), o, TRUE)
    BY <2>1, <2>2, ArticleRead
  <2>4. Prints(op, h, label, v) /\ n = "more"  BY <1>5 DEF Prints, Onward
  <2>5. Reads(op, h, "more", Tail(rest), o)  BY <2>3 DEF Reads
  <2>6. "more" \in Fields  BY DEF Fields
  <2> QED BY <1>5, <1>0, <2>3, <2>4, <2>5, <2>6
<1>6. CASE label = "more"
  <2>1. AtArticle(op, h, rest, out, TRUE)  BY <1>6 DEF Reads
  <2>2. CASE v = Empty
    <3>1. AtWord(op, h, Tail(rest), out)  BY <2>1, <2>2, ArticleRead
    <3>2. ~Prints(op, h, label, v) /\ n = "word"  BY <1>6, <2>2 DEF Prints, Onward
    <3>3. Reads(op, h, "word", Tail(rest), out)  BY <3>1 DEF Reads
    <3>4. "word" \in Fields  BY DEF Fields
    <3> QED BY <1>6, <1>0, <3>2, <3>3, <3>4
  <2>3. CASE v # Empty
    <3>1. PICK o \in Seq(Value) : out = <<v>> \o o /\ AtArticle(op, h, Tail(rest), o, TRUE)
      BY <2>1, <2>3, ArticleRead
    <3>2. Prints(op, h, label, v) /\ n = "more"  BY <1>6, <2>3 DEF Prints, Onward
    <3>3. Reads(op, h, "more", Tail(rest), o)  BY <3>1 DEF Reads
    <3>4. "more" \in Fields  BY DEF Fields
    <3> QED BY <1>6, <1>0, <3>1, <3>2, <3>3, <3>4
  <2> QED BY <2>2, <2>3
<1>7. CASE label = "tag"
  <2>1. AfterBooks("lookup", rest, out)  BY <1>7 DEF Reads
  <2>2. PICK o \in Seq(Value) :
          /\ out = <<v>> \o o
          /\ IF v = "d" THEN AtDataBook(Tail(rest), o) ELSE AtList(Tail(rest), o)
    BY <2>1, TagRead
  <2>3. Prints(op, h, label, v)  BY <1>7 DEF Prints
  <2>4. n = IF v = "d" THEN "databook" ELSE "list"  BY <1>7 DEF Onward
  <2>5. Reads(op, h, n, Tail(rest), o)  BY <2>2, <2>4 DEF Reads
  <2>6. "databook" \in Fields /\ "list" \in Fields  BY DEF Fields
  <2> QED BY <1>7, <1>0, <2>2, <2>3, <2>4, <2>5, <2>6
<1>8. CASE label = "list"
  <2>1. AtList(rest, out)  BY <1>8 DEF Reads
  <2>2. CASE v = Empty
    <3>1. Tail(rest) = <<>> /\ out = <<>>  BY <2>1, <2>2, ListRead
    <3>2. ~Prints(op, h, label, v) /\ n = "done"  BY <1>8, <2>2 DEF Prints, Onward
    <3>3. Reads(op, h, "done", Tail(rest), out)  BY <3>1 DEF Reads
    <3> QED BY <1>8, <1>0, <3>2, <3>3
  <2>3. CASE v # Empty
    <3>1. PICK o \in Seq(Value) : out = <<v>> \o o /\ AtList(Tail(rest), o)
      BY <2>1, <2>3, ListRead
    <3>2. Prints(op, h, label, v) /\ n = "list"  BY <1>8, <2>3 DEF Prints, Onward
    <3>3. Reads(op, h, "list", Tail(rest), o)  BY <3>1 DEF Reads
    <3>4. "list" \in Fields  BY DEF Fields
    <3> QED BY <1>8, <1>0, <3>1, <3>2, <3>3, <3>4
  <2> QED BY <2>2, <2>3
<1>9. CASE label = "databook"
  <2>1. AtDataBook(rest, out)  BY <1>9 DEF Reads
  <2>2. CASE v = Empty
    <3>1. Tail(rest) = <<>> /\ out = <<>>  BY <2>1, <2>2, DataBookRead
    <3>2. ~Prints(op, h, label, v) /\ n = "done"  BY <1>9, <2>2 DEF Prints, Onward
    <3>3. Reads(op, h, "done", Tail(rest), out)  BY <3>1 DEF Reads
    <3> QED BY <1>9, <1>0, <3>2, <3>3
  <2>3. CASE v # Empty
    <3>1. PICK o \in Seq(Value) : out = <<v>> \o o /\ AtDataWord(Tail(rest), o)
      BY <2>1, <2>3, DataBookRead
    <3>2. Prints(op, h, label, v) /\ n = "dataword"  BY <1>9, <2>3 DEF Prints, Onward
    <3>3. Reads(op, h, "dataword", Tail(rest), o)  BY <3>1 DEF Reads
    <3>4. "dataword" \in Fields  BY DEF Fields
    <3> QED BY <1>9, <1>0, <3>1, <3>2, <3>3, <3>4
  <2> QED BY <2>2, <2>3
<1>10. CASE label = "dataword"
  <2>1. AtDataWord(rest, out)  BY <1>10 DEF Reads
  <2>2. CASE v = Empty
    <3>1. AtDataBook(Tail(rest), out)  BY <2>1, <2>2, DataWordRead
    <3>2. ~Prints(op, h, label, v) /\ n = "databook"  BY <1>10, <2>2 DEF Prints, Onward
    <3>3. Reads(op, h, "databook", Tail(rest), out)  BY <3>1 DEF Reads
    <3>4. "databook" \in Fields  BY DEF Fields
    <3> QED BY <1>10, <1>0, <3>2, <3>3, <3>4
  <2>3. CASE v # Empty
    <3>1. PICK o \in Seq(Value) : out = <<v>> \o o /\ AtDataWord(Tail(rest), o)
      BY <2>1, <2>3, DataWordRead
    <3>2. Prints(op, h, label, v) /\ n = "dataword"  BY <1>10, <2>3 DEF Prints, Onward
    <3>3. Reads(op, h, "dataword", Tail(rest), o)  BY <3>1 DEF Reads
    <3>4. "dataword" \in Fields  BY DEF Fields
    <3> QED BY <1>10, <1>0, <3>1, <3>2, <3>3, <3>4
  <2> QED BY <2>2, <2>3
<1> QED BY <1>1, <1>2, <1>3, <1>4, <1>5, <1>6, <1>7, <1>8, <1>9, <1>10 DEF Fields

\* The steps of a client in a reply.
Reading == \/ ReadString \/ OWord \/ Book \/ Word \/ Article \/ More \/ Tag \/ List
           \/ DataBook \/ DataWord
FieldKind(label) == IF label \in {"article", "more"} THEN "data" ELSE "str"

\* Each of them takes the next field and goes on as Onward and Prints say, or
\* meets a field of another kind, or the end of the stream.
LEMMA ReadingSteps ==
    ASSUME Reading
    PROVE  /\ pc \in Fields /\ UNCHANGED <<commands, current, request, server>>
           /\ \/ /\ wire # <<>> /\ wire' = Tail(wire)
                 /\ pc' = Onward(Command, pc, Head(wire).v) /\ result' = result
                 /\ shown' = IF Prints(Command, Said(Command, Head(shown)), pc, Head(wire).v)
                             THEN Append(shown, Head(wire).v) ELSE shown
              \/ wire # <<>> /\ Head(wire).kind # FieldKind(pc)
              \/ /\ wire = <<>> /\ ~open
                 /\ pc' = "ended" /\ result' = "cutoff" /\ UNCHANGED <<wire, shown>>
<1>1. CASE ReadString  BY <1>1 DEF ReadString, Read, Goto, End, Fields, FieldKind, Onward, Prints
<1>2. CASE OWord
  BY <1>2 DEF OWord, Read, Goto, End, Show, Floating, Fields, FieldKind, Onward, Prints
<1>3. CASE Book  BY <1>3 DEF Book, Read, Goto, End, Show, Fields, FieldKind, Onward, Prints
<1>4. CASE Word
  <2> DEFINE v == Head(wire).v
             h == Said(Command, Head(shown))
  <2>1. v # Empty => ((Floating /\ v = Head(shown)) <=> v = h)  BY DEF Floating, Said
  <2>2. /\ pc = "word" /\ UNCHANGED <<commands, current, request, server>>
        /\ \/ /\ wire # <<>> /\ wire' = Tail(wire) /\ result' = result
              /\ IF v = Empty THEN pc' = "book" /\ shown' = shown
                 ELSE /\ pc' = "article"
                      /\ IF Floating /\ v = Head(shown) THEN shown' = shown
                         ELSE shown' = Append(shown, v)
           \/ wire # <<>> /\ Head(wire).kind # "str"
           \/ /\ wire = <<>> /\ ~open
              /\ pc' = "ended" /\ result' = "cutoff" /\ UNCHANGED <<wire, shown>>
    BY <1>4 DEF Word, Read, Goto, End, Show
  <2> HIDE DEF v, h
  <2>3. Prints(Command, h, pc, v) <=> v # Empty /\ v # h  BY <2>2 DEF Prints
  <2>4. pc \in Fields /\ FieldKind(pc) = "str"  BY <2>2 DEF Fields, FieldKind
  <2>5. Onward(Command, pc, v) = IF v = Empty THEN "book" ELSE "article"  BY <2>2 DEF Onward
  <2> QED BY <2>1, <2>2, <2>3, <2>4, <2>5 DEF v, h
<1>5. CASE Article
  BY <1>5 DEF Article, Read, Goto, End, Show, Fields, FieldKind, Onward, Prints
<1>6. CASE More  BY <1>6 DEF More, Read, Goto, End, Show, Fields, FieldKind, Onward, Prints
<1>7. CASE Tag  BY <1>7 DEF Tag, Read, Goto, End, Show, Fields, FieldKind, Onward, Prints
<1>8. CASE List  BY <1>8 DEF List, Read, Goto, End, Show, Fields, FieldKind, Onward, Prints
<1>9. CASE DataBook
  BY <1>9 DEF DataBook, Read, Goto, End, Show, Fields, FieldKind, Onward, Prints
<1>10. CASE DataWord
  BY <1>10 DEF DataWord, Read, Goto, End, Show, Fields, FieldKind, Onward, Prints
<1> QED BY <1>1, <1>2, <1>3, <1>4, <1>5, <1>6, <1>7, <1>8, <1>9, <1>10 DEF Reading

\* The kinds of the fields in a stream.
LEMMA WireKinds ==
    \A w \in Seq(Field) : \A i \in DOMAIN w : w[i].kind \in {"line", "str", "data"}
<1>1. \A x \in Field : x.kind \in {"line", "str", "data"}  BY DEF Field
<1>2. \A w \in Seq(Field) : \A i \in DOMAIN w : w[i] \in Field  OBVIOUS
<1> QED BY <1>1, <1>2

\* A client that has ended wants nothing more of the stream.
LEMMA EndKeeps ==
    ASSUME IInv, pc' = "ended", wire' \in {wire, Tail(wire), <<>>},
           result' \in {"cutoff", "refused", "unserved"},
           UNCHANGED <<commands, current, request, shown, server>>
    PROVE  IInv'
<1>1. wire' \in Seq(Field)
  <2>1. wire \in Seq(Field) /\ <<>> \in Seq(Field)  BY DEF IInv
  <2>2. wire = <<>> => Tail(wire) = <<>>  OBVIOUS
  <2>3. wire # <<>> => Tail(wire) \in Seq(Field)  BY <2>1, HeadTailProperties
  <2> QED BY <2>1, <2>2, <2>3
<1>2. \A i \in DOMAIN wire' : wire'[i].kind \in {"line", "str", "data"}
  BY <1>1, WireKinds
<1>3. TypeOK'  BY <1>2 DEF IInv, TypeOK, Labels, server
<1>4. Position'  BY DEF Position, Fields
<1>5. shown' \in Seq(Value) /\ result' # "confused"  BY DEF IInv
<1> QED BY <1>1, <1>3, <1>4, <1>5 DEF IInv

\* The first of what is shown stays the first.
LEMMA FirstStays ==
    ASSUME NEW S, NEW s \in Seq(S), NEW v \in S, s # <<>>
    PROVE  Append(s, v) # <<>> /\ Head(Append(s, v)) = Head(s)
<1>1. Len(s) \in Nat /\ Len(s) # 0  BY EmptySeq
<1>2. Len(Append(s, v)) = Len(s) + 1 /\ Append(s, v)[1] = s[1]  BY <1>1, AppendProperties
<1> QED BY <1>1, <1>2

\* What is still to read and to print keeps its promise as a field is taken.
LEMMA ReadingKeeps ==
    ASSUME IInv, Reading
    PROVE  IInv'
<1>1. pc \in Fields /\ UNCHANGED <<commands, current, request, server>>  BY ReadingSteps
<1> DEFINE v == Head(wire).v
           n == Onward(Command, pc, v)
           h == Said(Command, Head(shown))
           k == Leaves(Command, h, pc, v)
<1>2. wire # <<>> => Head(wire).kind = FieldKind(pc)  BY <1>1, NextField DEF FieldKind
<1>3. CASE wire = <<>>
  <2>1. pc' = "ended" /\ result' = "cutoff" /\ UNCHANGED <<wire, shown>>
    BY <1>3, ReadingSteps
  <2> QED BY <1>1, <2>1, EndKeeps
<1>4. CASE wire # <<>>
  <2>1. /\ wire' = Tail(wire) /\ pc' = n /\ result' = result
        /\ shown' = IF Prints(Command, h, pc, v) THEN Append(shown, v) ELSE shown
    BY <1>2, <1>4, ReadingSteps
  <2>2. PICK lost \in Seq(Field), out \in Seq(Value), rest \in Seq(Field) :
          /\ Reads(Command, h, pc, rest, out) /\ Head(rest) = Head(wire)
          /\ Tail(rest) = Tail(wire) \o lost
          /\ shown \o out = Printed(Command, found)
          /\ open => lost = <<>>
    BY <1>1, <1>4, NextField
  <2>3. /\ n \in Fields \cup {"done"}
        /\ \E o \in Seq(Value) :
             /\ out = IF Prints(Command, h, pc, v) THEN <<v>> \o o ELSE o
             /\ Reads(Command, k, n, Tail(wire) \o lost, o)
    <3>1. /\ Onward(Command, pc, Head(rest).v) \in Fields \cup {"done"}
          /\ \E o \in Seq(Value) :
               /\ out = IF Prints(Command, h, pc, Head(rest).v) THEN <<Head(rest).v>> \o o ELSE o
               /\ Reads(Command, Leaves(Command, h, pc, Head(rest).v),
                        Onward(Command, pc, Head(rest).v), Tail(rest), o)
      BY <1>1, <2>2, ReadsOn, Zenon
    <3>2. Head(rest).v = v /\ Tail(rest) = Tail(wire) \o lost  BY <2>2
    <3> HIDE DEF v, h
    <3> QED BY <3>1, <3>2, Zenon
  <2>4. PICK o \in Seq(Value) :
          /\ out = IF Prints(Command, h, pc, v) THEN <<v>> \o o ELSE o
          /\ Reads(Command, k, n, Tail(wire) \o lost, o)
    BY <2>3
  <2>5. /\ v \in Value /\ Tail(wire) \in Seq(Field) /\ ~request
        /\ current \in 1 .. Len(commands)
    BY <1>1, <1>4, NextField
  <2>6. shown \in Seq(Value) /\ TypeOK /\ result # "confused"  BY DEF IInv
  <2>7. shown' \in Seq(Value) /\ shown' \o o = Printed(Command, found)
    <3> HIDE DEF v, n, h, k
    <3>1. CASE Prints(Command, h, pc, v)
      <4>1. shown' = Append(shown, v) /\ shown \o (<<v>> \o o) = Printed(Command, found)
        BY <2>1, <2>2, <2>4, <3>1
      <4>2. Append(shown, v) \in Seq(Value) /\ shown \o (<<v>> \o o) = Append(shown, v) \o o
        BY <2>4, <2>5, <2>6, ShowNext
      <4> QED BY <4>1, <4>2
    <3>2. CASE ~Prints(Command, h, pc, v)
      <4>1. shown' = shown /\ out = o  BY <2>1, <2>4, <3>2
      <4> QED BY <2>2, <2>6, <4>1
    <3> QED BY <3>1, <3>2
  <2>8. Command' = Command /\ found' = found /\ (open' = open)
    BY <1>1 DEF Command, server
  <2>9. /\ Command = "selectquery" => shown' # <<>>
        /\ Said(Command, Head(shown')) = k
    <3>1. Begun(pc)  BY <1>1, <1>4, NextField
    <3>3. CASE Command # "selectquery"
      <4>1. h = Empty /\ Said(Command, v) = Empty /\ Said(Command, Head(shown')) = Empty
        BY <3>3 DEF Said
      <4> QED BY <3>3, <4>1 DEF Leaves
    <3>4. CASE Command = "selectquery" /\ pc = "oword"
      <4>1. shown = <<>> /\ shown' = Append(shown, v)
        BY <2>1, <3>1, <3>4 DEF Begun, Prints
      <4> HIDE DEF v
      <4>2. shown' = <<v>>  BY <4>1
      <4>3. shown' # <<>> /\ Head(shown') = v  BY <4>2
      <4> QED BY <3>4, <4>3 DEF Leaves
    <3>5. CASE Command = "selectquery" /\ pc # "oword"
      <4>1. shown # <<>>  BY <3>1, <3>5 DEF Begun
      <4>2. shown' = Append(shown, v) \/ shown' = shown  BY <2>1
      <4> HIDE DEF v
      <4>3. Append(shown, v) # <<>> /\ Head(Append(shown, v)) = Head(shown)
        BY <2>5, <2>6, <4>1, FirstStays DEF v
      <4>4. shown' # <<>> /\ Head(shown') = Head(shown)  BY <4>1, <4>2, <4>3
      <4> QED BY <3>5, <4>4 DEF Leaves
    <3> QED BY <3>3, <3>4, <3>5
  <2>12. Underway(pc, wire)'
    <3>1. Reads(Command', Said(Command', Head(shown')), pc', wire' \o lost, o)
      BY <2>1, <2>4, <2>8, <2>9
    <3>2. shown' \o o = Printed(Command', found')  BY <2>7, <2>8
    <3>3. open' => lost = <<>>  BY <2>2, <2>8
    <3>4. Begun(pc)'
      <4>1. Begun(pc)' <=> (IF pc' = "oword" THEN shown' = <<>>
                            ELSE Command' = "selectquery" => shown' # <<>>)
        BY DEF Begun
      <4>2. pc' # "oword"
        <5> HIDE DEF v
        <5>1. n # "oword"  BY <1>1 DEF Onward, Fields
        <5> QED BY <2>1, <5>1
      <4> QED BY <2>8, <2>9, <4>1, <4>2
    <3> QED BY <3>1, <3>2, <3>3, <3>4 DEF Underway
  <2>10. TypeOK' /\ pc' \in Fields \cup {"done"}
    <3>1. pc' \in Fields \cup {"done"} /\ pc' \in Labels  BY <2>1, <2>3 DEF Fields, Labels
    <3>2. \A i \in DOMAIN wire' : wire'[i].kind \in {"line", "str", "data"}
      BY <2>1, <2>5, WireKinds
    <3> QED BY <1>1, <2>1, <2>6, <3>1, <3>2 DEF TypeOK, server
  <2>11. Position'
    <3>1. ~request' /\ current' \in 1 .. Len(commands')  BY <1>1, <2>5
    <3>2. pc' \notin {"banner", "request", "status"}  BY <2>10 DEF Fields
    <3>3. Underway(pc, wire)'  BY <2>12
    <3>4. pc' = "done" => Underway("done", wire)'  BY <2>12 DEF Underway, Begun
    <3> QED BY <3>1, <3>2, <3>3, <3>4 DEF Position
  <2> QED BY <2>1, <2>5, <2>6, <2>7, <2>10, <2>11 DEF IInv
<1> QED BY <1>3, <1>4

\* The banner is a line, or nothing at all.
LEMMA BannerKeeps ==
    ASSUME IInv, Banner
    PROVE  IInv'
<1>1. /\ pc = "banner" /\ current = 0 /\ ~request /\ UNCHANGED <<commands, shown, server>>
      /\ wire = <<>> \/ \E c \in Codes : wire = Line(c)
  BY DEF Banner, Read, End, IInv, Position
<1>2. wire # <<>> => Head(wire).kind = "line" /\ Tail(wire) = <<>>
  BY <1>1, LineFacts
<1>3. CASE wire # <<>> /\ Head(wire).v = "HELLO"
  <2>1. wire' = <<>> /\ pc' = "request" /\ current' = 1 /\ UNCHANGED <<request, result>>
    BY <1>2, <1>3 DEF Banner, Read
  <2>2. TypeOK /\ Len(commands) \in Nat \ {0} /\ wire' \in Seq(Field)
    BY <2>1, CommandsType DEF IInv
  <2>3. current' \in 1 .. Len(commands')  BY <1>1, <2>1, <2>2
  <2>4. \A i \in DOMAIN wire' : wire'[i].kind \in {"line", "str", "data"}
    BY <2>2, WireKinds
  <2>5. TypeOK'
    <3>1. current' \in 0 .. Len(commands')  BY <2>2, <2>3
    <3> QED BY <1>1, <2>1, <2>2, <2>4, <3>1 DEF TypeOK, server, Labels
  <2>6. Position'  BY <1>1, <2>1, <2>3 DEF Position, Fields, LeftOver
  <2> QED BY <1>1, <2>1, <2>2, <2>5, <2>6 DEF IInv
<1>4. CASE ~(wire # <<>> /\ Head(wire).v = "HELLO")
  <2>1. /\ pc' = "ended" /\ wire' \in {wire, Tail(wire), <<>>}
        /\ result' \in {"cutoff", "refused", "unserved"} /\ UNCHANGED <<current, request>>
    BY <1>2, <1>4 DEF Banner, Read, End
  <2> QED BY <1>1, <2>1, EndKeeps
<1> QED BY <1>3, <1>4

\* A command is sent when nothing is to be read but a second answer of auth.
LEMMA RequestKeeps ==
    ASSUME IInv, Request
    PROVE  IInv'
<1>1. CASE pc' = "status"
  <2>1. /\ pc = "request" /\ shown' = <<>> /\ request' = TRUE
        /\ UNCHANGED <<commands, current, wire, result, server>>
    BY <1>1 DEF Request, End
  <2>2. TypeOK /\ wire \in Seq(Field) /\ <<>> \in Seq(Value) /\ result # "confused"
    BY DEF IInv
  <2>3. current \in 1 .. Len(commands) /\ LeftOver(current - 1)  BY <2>1 DEF IInv, Position
  <2>4. TypeOK'  BY <1>1, <2>1, <2>2 DEF TypeOK, server, Labels
  <2>5. Position'  BY <1>1, <2>1, <2>3 DEF Position, Fields, LeftOver
  <2> QED BY <2>1, <2>2, <2>4, <2>5 DEF IInv
<1>2. CASE pc' # "status"
  <2>1. /\ pc' = "ended" /\ result' = "cutoff"
        /\ UNCHANGED <<commands, current, request, wire, shown, server>>
    BY <1>2 DEF Request, End
  <2> QED BY <2>1, EndKeeps
<1> QED BY <1>1, <1>2

\* The status decides what is read next.
LEMMA StatusKeeps ==
    ASSUME IInv, Status
    PROVE  IInv'
<1>1. /\ pc = "status" /\ shown = <<>> /\ UNCHANGED <<commands, current, request, shown, server>>
      /\ current \in 1 .. Len(commands)
  BY DEF Status, Read, Goto, End, IInv, Position
<1>2. wire # <<>> => Head(wire).kind = "line"
  <2>1. CASE request
    <3>1. wire = <<>> \/ wire = Line("DENIED")
      BY <1>1, <2>1 DEF IInv, Position, LeftOver
    <3> QED BY <3>1, LineFacts
  <2>2. CASE ~request  BY <1>1, <2>2 DEF IInv, Position, ToCome
  <2> QED BY <2>1, <2>2
<1>3. CASE wire # <<>> /\ Head(wire).v = Expected(Command)
  <2>1. wire' = Tail(wire) /\ pc' = AfterStatus(Command) /\ result' = result
    BY <1>2, <1>3 DEF Status, Read, Goto
  <2>2. ~request
    <3>1. CASE request
      <4>1. wire = Line("DENIED")  BY <1>1, <1>3, <3>1 DEF IInv, Position, LeftOver
      <4>2. Head(wire).v = "DENIED"  BY <4>1, LineFacts
      <4>3. "DENIED" \notin {"OK", "GOODBYE"}  OBVIOUS
      <4> QED BY <1>3, <4>2, <4>3, LineFacts
    <3> QED BY <3>1
  <2>3. \/ Command = "auth" /\ Tail(wire) \in {<<>>, Line("DENIED")}
        \/ Underway(AfterStatus(Command), Tail(wire))
    BY <1>1, <1>3, <2>2 DEF IInv, Position, ToCome
  <2>4. wire' \in Seq(Field) /\ TypeOK /\ result # "confused" /\ shown \in Seq(Value)
    BY <1>3, <2>1, HeadTailProperties DEF IInv
  <2>5. pc' \in Fields \cup {"done"} /\ pc' \in Labels
    BY <2>1 DEF AfterStatus, Fields, Labels
  <2>6. \A i \in DOMAIN wire' : wire'[i].kind \in {"line", "str", "data"}
    BY <2>4, WireKinds
  <2>7. TypeOK'  BY <1>1, <2>1, <2>4, <2>5, <2>6 DEF TypeOK, server
  <2>8. Command' = Command /\ found' = found /\ open' = open  BY <1>1 DEF Command, server
  <2>9. \/ Command' = "auth" /\ wire' \in {<<>>, Line("DENIED")} /\ pc' = "done"
        \/ Underway(pc, wire)'
    <3>1. CASE Command = "auth" /\ Tail(wire) \in {<<>>, Line("DENIED")}
      <4>1. AfterStatus("auth") = "done"
        BY DEF AfterStatus, StringOps, ResultOps, ListOps
      <4> QED BY <2>1, <2>8, <3>1, <4>1
    <3>2. CASE Underway(AfterStatus(Command), Tail(wire))
      <4>1. PICK lost \in Seq(Field), out \in Seq(Value) :
              /\ Reads(Command, Said(Command, Head(shown)), AfterStatus(Command), Tail(wire) \o lost, out)
              /\ shown \o out = Printed(Command, found)
              /\ open => lost = <<>>
        BY <3>2 DEF Underway
      <4>2. Reads(Command', Said(Command', Head(shown')), pc', wire' \o lost, out)
        BY <1>1, <2>1, <2>8, <4>1
      <4>3. shown' \o out = Printed(Command', found')  BY <1>1, <2>8, <4>1
      <4>4. open' => lost = <<>>  BY <2>8, <4>1
      <4>5. Begun(pc)'  BY <1>1, <2>1, <2>8, <3>2 DEF Underway, Begun
      <4> QED BY <4>2, <4>3, <4>4, <4>5 DEF Underway
    <3> QED BY <2>3, <3>1, <3>2
  <2>10. Position'
    <3>1. ~request' /\ current' \in 1 .. Len(commands')  BY <1>1, <2>2
    <3>2. pc' \notin {"banner", "request", "status"}  BY <2>5 DEF Fields
    <3>3. "done" \notin Fields  BY DEF Fields
    <3>4. CASE Command' = "auth" /\ wire' \in {<<>>, Line("DENIED")} /\ pc' = "done"
      BY <3>1, <3>2, <3>3, <3>4 DEF Position
    <3>5. CASE Underway(pc, wire)'
      <4>1. pc' = "done" => Underway("done", wire)'  BY <3>5 DEF Underway, Begun
      <4> QED BY <3>1, <3>2, <3>3, <3>5, <4>1 DEF Position
    <3> QED BY <2>9, <3>4, <3>5
  <2> QED BY <1>1, <2>1, <2>4, <2>7, <2>10 DEF IInv
<1>4. CASE ~(wire # <<>> /\ Head(wire).v = Expected(Command))
  <2>1. /\ pc' = "ended" /\ wire' \in {wire, Tail(wire), <<>>}
        /\ result' \in {"cutoff", "refused", "unserved"}
    BY <1>2, <1>4 DEF Status, Read, End
  <2> QED BY <1>1, <2>1, EndKeeps
<1> QED BY <1>3, <1>4

\* A reply read to its end leaves nothing but what auth may have added.
LEMMA DoneKeeps ==
    ASSUME IInv, Done
    PROVE  IInv'
<1>1. /\ pc = "done" /\ UNCHANGED <<commands, shown, wire, request, server>> /\ ~request
      /\ current \in 1 .. Len(commands) /\ Len(commands) \in Nat
      /\ TypeOK /\ wire \in Seq(Field) /\ shown \in Seq(Value) /\ result # "confused"
  BY CommandsType DEF Done, IInv, Position
<1>2. wire = <<>> \/ (wire = Line("DENIED") /\ Command = "auth")
  <2>1. Underway("done", wire) => wire = <<>>
    <3>1. SUFFICES ASSUME Underway("done", wire) PROVE wire = <<>>
      OBVIOUS
    <3>2. PICK lost \in Seq(Field), out \in Seq(Value) :
            Reads(Command, Said(Command, Head(shown)), "done", wire \o lost, out)
      BY <3>1 DEF Underway
    <3>3. wire \o lost = <<>>  BY <3>2 DEF Reads
    <3>4. Len(wire \o lost) = Len(wire) + Len(lost) /\ Len(wire) \in Nat /\ Len(lost) \in Nat
      BY <1>1, ConcatProperties
    <3>5. Len(wire) = 0  BY <3>3, <3>4
    <3> QED BY <1>1, <3>5
  <2> QED BY <1>1, <2>1 DEF IInv, Position
<1>3. CASE current < Len(commands)
  <2>1. pc' = "request" /\ current' = current + 1 /\ result' = result  BY <1>3 DEF Done
  <2>2. current' \in 1 .. Len(commands') /\ current' - 1 = current  BY <1>1, <1>3, <2>1
  <2>3. TypeOK'
    <3>1. current' \in 0 .. Len(commands')  BY <1>1, <2>2
    <3> QED BY <1>1, <2>1, <3>1 DEF TypeOK, server, Labels
  <2>4. LeftOver(current - 1)'
    <3>1. wire' = <<>> \/ (wire' = Line("DENIED") /\ commands'[current' - 1] = "auth")
      BY <1>1, <1>2, <2>2 DEF Command
    <3> QED BY <3>1 DEF LeftOver
  <2>5. Position'  BY <1>1, <2>1, <2>2, <2>4 DEF Position, Fields
  <2> QED BY <1>1, <2>1, <2>3, <2>5 DEF IInv
<1>4. CASE ~(current < Len(commands))
  <2>1. pc' = "ended" /\ result' = "finished" /\ current' = current  BY <1>4 DEF Done
  <2>2. TypeOK'  BY <1>1, <2>1 DEF TypeOK, server, Labels
  <2>3. Position'  BY <2>1 DEF Position, Fields
  <2> QED BY <1>1, <2>1, <2>2, <2>3 DEF IInv
<1> QED BY <1>3, <1>4

\* It holds at the start: a banner, or none.
LEMMA InitHolds ==
    ASSUME Init
    PROVE  IInv
<1>1. /\ current = 0 /\ pc = "banner" /\ shown = <<>> /\ ~request /\ request \in BOOLEAN
      /\ open \in BOOLEAN /\ who = "nobody" /\ level = 0 /\ result = "running"
      /\ commands \in {Start(script) : script \in Scripts} /\ faults \in FaultSets
  BY DEF Init
<1>2. wire = <<>> \/ \E c \in Codes : wire = Line(c)  BY DEF Init, Codes
<1>3. wire \in Seq(Field)  BY <1>2, LineFacts, EmptySeq
<1>4. TypeOK
  <2>1. \A i \in DOMAIN wire : wire[i].kind \in {"line", "str", "data"}  BY <1>3, WireKinds
  <2>2. Len(commands) \in Nat
    <3>1. PICK script \in Scripts : commands = <<"client">> \o script \o <<"quit">>
      BY <1>1 DEF Start
    <3>2. script \in Seq(Ops \ {"client", "quit"})  BY <3>1, ProtocolAssumption
    <3>3. \E S : script \in Seq(S) /\ "client" \in S /\ "quit" \in S
      <4> DEFINE S == (Ops \ {"client", "quit"}) \cup {"client", "quit"}
      <4>1. script \in Seq(S)  BY <3>2, SeqMonotonic
      <4> QED BY <4>1
    <3>4. PICK S : script \in Seq(S) /\ "client" \in S /\ "quit" \in S  BY <3>3
    <3>5. <<"client">> \in Seq(S) /\ <<"quit">> \in Seq(S)  BY <3>4
    <3>6. <<"client">> \o script \in Seq(S)  BY <3>4, <3>5, ConcatProperties
    <3>7. commands \in Seq(S)  BY <3>1, <3>5, <3>6, ConcatProperties
    <3> QED BY <3>7
  <2>3. current \in 0 .. Len(commands)  BY <1>1, <2>2
  <2> QED BY <1>1, <2>1, <2>3 DEF TypeOK, Labels
<1>5. Position  BY <1>1, <1>2 DEF Position, Fields
<1> QED BY <1>1, <1>3, <1>4, <1>5, EmptySeq DEF IInv

\* The front of a stream of one field is empty or all of it.
LEMMA FrontOfOne ==
    ASSUME NEW S, NEW a \in Seq(S), NEW r \in Seq(S), Len(a \o r) <= 1
    PROVE  a = <<>> \/ a = a \o r
<1>1. Len(a \o r) = Len(a) + Len(r) /\ Len(a) \in Nat /\ Len(r) \in Nat
  BY ConcatProperties
<1>2. CASE Len(a) = 0  BY <1>2
<1>3. CASE Len(a) # 0
  <2>1. r = <<>>  BY <1>1, <1>3
  <2> QED BY <2>1, ConcatEmptySeq
<1> QED BY <1>2, <1>3

\* A front of a sequence and what is behind it.
LEMMA FrontAndRest ==
    ASSUME NEW S, NEW w \in Seq(S), NEW a \in Seq(S), NEW b \in Seq(S),
           Len(w) = Len(a) + Len(b),
           \A i \in 1 .. Len(a) : a[i] = w[i],
           \A i \in 1 .. Len(b) : b[i] = w[Len(a) + i]
    PROVE  w = a \o b
<1> DEFINE c == a \o b
<1>1. /\ c \in Seq(S) /\ Len(c) = Len(a) + Len(b)
      /\ \A i \in 1 .. Len(a) + Len(b) : c[i] = IF i <= Len(a) THEN a[i] ELSE b[i - Len(a)]
  BY ConcatProperties
<1> HIDE DEF c
<1>2. Len(a) \in Nat /\ Len(b) \in Nat  OBVIOUS
<1>3. \A i \in 1 .. Len(w) : c[i] = w[i]
  <2> TAKE i \in 1 .. Len(w)
  <2>1. i \in 1 .. Len(a) + Len(b)  OBVIOUS
  <2>2. CASE i <= Len(a)  BY <1>1, <1>2, <2>1, <2>2
  <2>3. CASE ~(i <= Len(a))
    <3>1. i - Len(a) \in 1 .. Len(b) /\ Len(a) + (i - Len(a)) = i  BY <1>2, <2>1, <2>3
    <3> QED BY <1>1, <2>1, <2>3, <3>1
  <2> QED BY <2>2, <2>3
<1>4. c = w  BY <1>1, <1>3, SeqEqual
<1> QED BY <1>4 DEF c

\* What is left of a stream that is cut.
LEMMA CutStream ==
    ASSUME NEW w \in Seq(Field), NEW n \in 0 .. Len(w)
    PROVE  \E a, b \in Seq(Field) :
             /\ a = SubSeq(w, 1, n) /\ w = a \o b
             /\ a # <<>> => /\ w # <<>> /\ Head(a) = Head(w)
                            /\ Tail(a) \in Seq(Field) /\ Tail(w) \in Seq(Field)
                            /\ Tail(w) = Tail(a) \o b
<1>1. Len(w) \in Nat /\ n \in Nat /\ n <= Len(w)  OBVIOUS
<1>2. PICK a \in Seq(Field) :
        a = SubSeq(w, 1, n) /\ Len(a) = n /\ \A i \in 1 .. n : a[i] = w[i]
  <2> DEFINE a == SubSeq(w, 1, n)
  <2>1. a \in Seq(Field) /\ Len(a) = n /\ \A i \in 1 .. n : a[i] = w[i]
    BY <1>1, SubSeqProperties
  <2>2. a = SubSeq(w, 1, n)  OBVIOUS
  <2> HIDE DEF a
  <2> QED BY <2>1, <2>2
<1>3. PICK b \in Seq(Field) : Len(b) = Len(w) - n /\ \A i \in 1 .. Len(w) - n : b[i] = w[n + i]
  <2> DEFINE b == SubSeq(w, n + 1, Len(w))
  <2>1. b \in Seq(Field) /\ Len(b) = Len(w) - n /\ \A i \in 1 .. Len(w) - n : b[i] = w[n + i]
    BY <1>1, SubSeqProperties
  <2> HIDE DEF b
  <2> QED BY <2>1
<1>4. /\ Len(w) = Len(a) + Len(b) /\ \A i \in 1 .. Len(a) : a[i] = w[i]
      /\ \A i \in 1 .. Len(b) : b[i] = w[Len(a) + i]
  BY <1>1, <1>2, <1>3
<1>5. w = a \o b  BY <1>4, FrontAndRest
<1>6. ASSUME a # <<>> PROVE /\ w # <<>> /\ Head(a) = Head(w)
                           /\ Tail(a) \in Seq(Field) /\ Tail(w) = Tail(a) \o b
                           /\ Tail(w) \in Seq(Field)
  <2>1. /\ a \o b \in Seq(Field) /\ Head(a \o b) = Head(a) /\ Tail(a \o b) = Tail(a) \o b
        /\ Tail(a) \in Seq(Field)
    BY <1>6, ReadFront
  <2>2. Tail(a) \o b \in Seq(Field)  BY <2>1, ConcatProperties
  <2>3. Len(a) # 0  BY <1>6, EmptySeq
  <2>4. w # <<>>  BY <1>4, <2>3
  <2> QED BY <1>5, <2>1, <2>2, <2>4
<1> QED BY <1>2, <1>5, <1>6

\* What the connection loses is what is still to read but not in the stream.
LEMMA CutUnderway ==
    ASSUME NEW label, NEW w \in Seq(Field), NEW c \in Seq(Field), NEW r \in Seq(Field),
           w = c \o r, Underway(label, w), ~open',
           UNCHANGED <<commands, current, shown, found>>
    PROVE  /\ Begun(label)'
           /\ \E lost \in Seq(Field), out \in Seq(Value) :
             /\ Reads(Command', Said(Command', Head(shown')), label, c \o lost, out)
             /\ shown' \o out = Printed(Command', found')
             /\ open' => lost = <<>>
<1>1. PICK lost \in Seq(Field), out \in Seq(Value) :
        /\ Reads(Command, Said(Command, Head(shown)), label, w \o lost, out)
        /\ shown \o out = Printed(Command, found)
  BY DEF Underway
<1>2. w \o lost = c \o (r \o lost) /\ r \o lost \in Seq(Field)
  BY ConcatAssociative, ConcatProperties
<1>3. Command' = Command /\ Printed(Command', found') = Printed(Command, found)
  BY DEF Command, Printed
<1>4. Reads(Command', Said(Command', Head(shown')), label, c \o (r \o lost), out)
  BY <1>1, <1>2, <1>3
<1>5. shown' \o out = Printed(Command', found')  BY <1>1, <1>3
<1>6. Begun(label)'  BY <1>3 DEF Underway, Begun
<1> QED BY <1>2, <1>4, <1>5, <1>6

\* A connection that breaks takes the end of the stream with it.
LEMMA CutKeeps ==
    ASSUME IInv, Cut
    PROVE  IInv'
<1>1. /\ ~open' /\ open' \in BOOLEAN
      /\ UNCHANGED <<commands, current, pc, shown, request, who, level, found, answered,
                     result, faults>>
      /\ wire \in Seq(Field) /\ shown \in Seq(Value) /\ result # "confused" /\ TypeOK
  BY DEF Cut, IInv
<1>2. PICK rest \in Seq(Field) :
        /\ wire' \in Seq(Field) /\ wire = wire' \o rest
        /\ wire' # <<>> => /\ wire # <<>> /\ Head(wire') = Head(wire)
                           /\ Tail(wire') \in Seq(Field) /\ Tail(wire) \in Seq(Field)
                           /\ Tail(wire) = Tail(wire') \o rest
  <2>1. PICK n \in 0 .. Len(wire) : wire' = SubSeq(wire, 1, n)  BY DEF Cut
  <2>2. \E a, b \in Seq(Field) :
          /\ a = SubSeq(wire, 1, n) /\ wire = a \o b
          /\ a # <<>> => /\ wire # <<>> /\ Head(a) = Head(wire)
                         /\ Tail(a) \in Seq(Field) /\ Tail(wire) \in Seq(Field)
                         /\ Tail(wire) = Tail(a) \o b
    BY <1>1, CutStream
  <2> QED BY <2>1, <2>2, Zenon
<1>3. wire = <<>> => wire' = <<>>  BY <1>2
<1>4. TypeOK'
  <2>1. \A i \in DOMAIN wire' : wire'[i].kind \in {"line", "str", "data"}  BY <1>2, WireKinds
  <2> QED BY <1>1, <2>1 DEF TypeOK
<1>5. ASSUME NEW c \in Codes, wire = Line(c) PROVE wire' = <<>> \/ wire' = Line(c)
  <2>1. Len(wire) = 1  BY <1>5, LineFacts
  <2>2. wire' = <<>> \/ wire' = wire' \o rest
    <3>1. Len(wire' \o rest) <= 1  BY <1>2, <2>1
    <3> QED BY <1>2, <3>1, FrontOfOne
  <2> QED BY <1>2, <1>5, <2>2
<1>6. ASSUME NEW i, LeftOver(i) PROVE wire' = <<>> \/ (wire' = Line("DENIED") /\ commands[i] = "auth")
  <2>1. CASE wire = <<>>  BY <1>3, <2>1
  <2>2. CASE wire = Line("DENIED") /\ commands[i] = "auth"
    BY <1>5, <2>2, LineFacts
  <2> QED BY <1>6, <2>1, <2>2 DEF LeftOver
<1>7. ASSUME NEW label, Underway(label, wire)
      PROVE  /\ Begun(label)'
             /\ \E lost \in Seq(Field), out \in Seq(Value) :
               /\ Reads(Command', Said(Command', Head(shown')), label, wire' \o lost, out)
               /\ shown' \o out = Printed(Command', found')
               /\ open' => lost = <<>>
  <2>1. \A c \in Seq(Field) : wire = c \o rest =>
          /\ Begun(label)'
          /\ \E lost \in Seq(Field), out \in Seq(Value) :
               /\ Reads(Command', Said(Command', Head(shown')), label, c \o lost, out)
               /\ shown' \o out = Printed(Command', found')
               /\ open' => lost = <<>>
    BY <1>1, <1>7, CutUnderway
  <2> QED BY <1>2, <2>1
<1>8. ASSUME ToCome PROVE ToCome'
  <2>1. CASE wire' = <<>>  BY <1>1, <2>1 DEF ToCome
  <2>2. CASE wire' # <<>>
    <3>1. /\ wire # <<>> /\ Head(wire') = Head(wire)
          /\ Tail(wire') \in Seq(Field) /\ Tail(wire) \in Seq(Field)
      BY <1>2, <2>2
    <3>2. Tail(wire) = Tail(wire') \o rest  BY <1>2, <2>2
    <3>3. Head(wire).kind = "line" /\ Head(wire).v \in Value  BY <1>8, <3>1 DEF ToCome
    <3>4. Command' = Command  BY <1>1 DEF Command
    <3>5. CASE Head(wire).v # Expected(Command)  BY <2>2, <3>1, <3>3, <3>4, <3>5 DEF ToCome
    <3>6. CASE Command = "auth" /\ Tail(wire) \in {<<>>, Line("DENIED")}
      <4> DEFINE w == Tail(wire)
                 c == Tail(wire')
      <4>1. w = <<>> \/ w = Line("DENIED")  BY <3>6
      <4> HIDE DEF w
      <4>2. Len(w) <= 1
        <5> DEFINE d == Line("DENIED")
        <5>1. Len(d) = 1 /\ Len(<<>>) = 0 /\ (w = <<>> \/ w = d)  BY <4>1, LineFacts
        <5> HIDE DEF d
        <5>2. Len(w) = 0 \/ Len(w) = 1  BY <5>1
        <5> QED BY <5>2
      <4>3. c \in Seq(Field) /\ w = c \o rest  BY <3>1, <3>2 DEF w
      <4> HIDE DEF c
      <4>4. Len(c \o rest) <= 1  BY <4>2, <4>3
      <4>5. c = <<>> \/ c = c \o rest  BY <4>3, <4>4, FrontOfOne
      <4>6. Tail(wire') \in {<<>>, Line("DENIED")}  BY <4>1, <4>3, <4>5 DEF c
      <4> QED BY <2>2, <3>1, <3>3, <3>4, <3>6, <4>6 DEF ToCome
    <3>7. CASE Underway(AfterStatus(Command), Tail(wire))
      <4>0. PICK label : label = AfterStatus(Command)  OBVIOUS
      <4>3. Underway(label, Tail(wire))  BY <3>7, <4>0
      <4>4. /\ Begun(label)'
            /\ \E lost \in Seq(Field), out \in Seq(Value) :
                 /\ Reads(Command', Said(Command', Head(shown')), label,
                          Tail(wire') \o lost, out)
                 /\ shown' \o out = Printed(Command', found')
                 /\ open' => lost = <<>>
        BY <1>1, <3>1, <3>2, <4>3, CutUnderway
      <4>1. /\ Begun(AfterStatus(Command))'
            /\ \E lost \in Seq(Field), out \in Seq(Value) :
                 /\ Reads(Command', Said(Command', Head(shown')), AfterStatus(Command),
                          Tail(wire') \o lost, out)
                 /\ shown' \o out = Printed(Command', found')
                 /\ open' => lost = <<>>
        BY <3>4, <4>0, <4>4 DEF Begun
      <4>2. Underway(AfterStatus(Command), Tail(wire))'  BY <3>4, <4>1 DEF Underway
      <4> QED BY <2>2, <3>1, <3>3, <4>2 DEF ToCome
    <3> QED BY <1>8, <3>1, <3>5, <3>6, <3>7 DEF ToCome
  <2> QED BY <2>1, <2>2
<1>9. Position'
  <2>1. CASE pc = "banner"
    <3>1. wire = <<>> \/ \E c \in Codes : wire = Line(c)  BY <2>1 DEF IInv, Position
    <3>3. wire' = <<>> \/ \E c \in Codes : wire' = Line(c)  BY <1>3, <1>5, <3>1
    <3> QED BY <1>1, <2>1, <3>3 DEF IInv, Position, Fields
  <2>2. CASE pc = "request"
    <3>1. LeftOver(current - 1)'  BY <1>1, <1>6, <2>2 DEF IInv, Position, LeftOver
    <3> QED BY <1>1, <2>2, <3>1 DEF IInv, Position, Fields
  <2>3. CASE pc = "status"
    <3>1. request => LeftOver(current - 1)'
      BY <1>1, <1>6, <2>3 DEF IInv, Position, LeftOver
    <3>2. ~request => ToCome'  BY <1>8, <2>3 DEF IInv, Position
    <3> QED BY <1>1, <2>3, <3>1, <3>2 DEF IInv, Position, Fields
  <2>4. CASE pc \in Fields
    <3>1. Underway(pc, wire)  BY <2>4 DEF IInv, Position
    <3>2. Underway(pc, wire)'  BY <1>1, <1>7, <3>1 DEF Underway, Begun
    <3>3. ~request' /\ current' \in 1 .. Len(commands') /\ pc' \in Fields
      BY <1>1, <2>4 DEF IInv, Position
    <3>4. pc' \notin {"banner", "request", "status", "done"}  BY <3>3 DEF Fields
    <3> QED BY <3>2, <3>3, <3>4 DEF Position
  <2>5. CASE pc = "done"
    <3>1. ~request' /\ current' \in 1 .. Len(commands') /\ pc' = "done"
      BY <1>1, <2>5 DEF IInv, Position
    <3>2. Underway("done", wire) => Underway("done", wire)'  BY <1>7 DEF Underway
    <3>3. wire \in {<<>>, Line("DENIED")} => wire' \in {<<>>, Line("DENIED")}
      BY <1>3, <1>5, LineFacts
    <3>4. Command' = Command  BY <1>1 DEF Command
    <3>5. Underway("done", wire)' \/ (Command' = "auth" /\ wire' \in {<<>>, Line("DENIED")})
      BY <2>5, <3>2, <3>3, <3>4 DEF IInv, Position
    <3>6. "done" \notin Fields  BY DEF Fields
    <3> QED BY <3>1, <3>5, <3>6 DEF Position
  <2>6. CASE pc = "ended"  BY <1>1, <2>6 DEF Position, Fields
  <2> QED BY <1>1, <2>1, <2>2, <2>3, <2>4, <2>5, <2>6 DEF TypeOK, Labels, Fields
<1> QED BY <1>1, <1>2, <1>4, <1>9 DEF IInv

\* Concatenation with nothing.
LEMMA NothingAdded ==
    ASSUME NEW S, NEW s \in Seq(S)
    PROVE  s \o <<>> = s /\ <<>> \o s = s /\ <<>> \in Seq(S)
BY ConcatEmptySeq, EmptySeq

\* What lookup adds, as fields and as printed.
LEMMA ShowListType ==
    ASSUME NEW s \in SearchBlock
    PROVE  ShowList(s) \in Seq(Field) /\ OfSearch("lookup", s) \in Seq(Value)
           /\ AfterBooks("lookup", ShowList(s), OfSearch("lookup", s))
<1>1. s.tag \in Tags /\ s.tag # Empty /\ s.tag \in Value
  <2>1. s.tag \in Tags  BY DEF SearchBlock, Tags
  <2>2. Empty \notin Tags  BY Zenon DEF Tags, Empty
  <2> QED BY <2>1, <2>2 DEF Value
<1>2. Str(s.tag) \in Seq(Field) /\ <<s.tag>> \in Seq(Value)
  <2> DEFINE t == s.tag
  <2>1. t \in Value  BY <1>1
  <2> HIDE DEF t
  <2>2. Str(t) \in Seq(Field)  BY <2>1, FieldType
  <2>3. <<t>> \in Seq(Value)  BY <2>1
  <2> QED BY <2>2, <2>3 DEF t
<1>3. AfterBooks("lookup", ShowList(s), OfSearch("lookup", s))  BY DEF AfterBooks
<1>4. CASE s.tag = "d"
  <2>1. s.list \in Seq(DataBlock)  BY <1>4 DEF SearchBlock
  <2>2. DataList(s.list) \in Seq(Field) /\ Concat(OfDataBook, s.list) \in Seq(Value)
    <3>1. Concat(ShowDataBook, s.list) \in Seq(Field)  BY <2>1, ShowDataBookCons
    <3>2. Concat(OfDataBook, s.list) \in Seq(Value)  BY <2>1, OfDataBookCons
    <3>3. Str(Empty) \in Seq(Field)  BY BlockTypes
    <3> QED BY <3>1, <3>2, <3>3, ConcatProperties DEF DataList
  <2>3. /\ ShowList(s) = Str(s.tag) \o DataList(s.list)
        /\ OfSearch("lookup", s) = <<s.tag>> \o Concat(OfDataBook, s.list)
    BY <1>1, <1>4 DEF ShowList, OfSearch
  <2> QED BY <1>2, <1>3, <2>2, <2>3, ConcatProperties
<1>5. CASE s.tag # "d"
  <2>1. s.list \in Seq(Named)  BY <1>5 DEF SearchBlock
  <2>2. WordList(s.list) \in Seq(Field) /\ s.list \in Seq(Value)  BY <2>1, WordListType
  <2>3. ShowList(s) = Str(s.tag) \o WordList(s.list)  BY <1>5 DEF ShowList
  <2>4. OfSearch("lookup", s) = <<s.tag>> \o s.list
    <3>1. "lookup" \notin ListOps  BY DEF ListOps
    <3> QED BY <1>1, <1>5, <3>1 DEF OfSearch
  <2> QED BY <1>2, <1>3, <2>2, <2>3, <2>4, ConcatProperties
<1> QED BY <1>4, <1>5

\* The reply to a command, from its status on: the client refuses it, or can
\* read all of it and prints what was found.
Answers(op, code, r, f, whole) ==
    \/ code # Expected(op)
    \/ op = "auth" /\ r \in {<<>>, Line("DENIED")}
    \/ \E lost \in Seq(Field) :
         /\ \A h : Reads(op, h, AfterStatus(op), r \o lost, Printed(op, f))
         /\ Printed(op, f) \in Seq(Value)
         /\ whole => lost = <<>>

\* Such a reply behind what is left in the stream is one the client can read.
LEMMA ServedKeeps ==
    ASSUME IInv, request, request' = FALSE,
           UNCHANGED <<commands, current, pc, shown, result, faults>>,
           open' \in BOOLEAN, who' \in {"nobody", "guest", "user"}, level' \in {0, AccountLevel},
           NEW code \in Codes, NEW r \in Seq(Field), wire' = wire \o (Line(code) \o r),
           Answers(Command, code, r, found', open')
    PROVE  IInv'
<1> DEFINE x == [kind |-> "line", v |-> code]
           q == Line(code) \o r
<1>1. x \in Field /\ Line(code) = <<x>> /\ code \in Value
  <2>1. code \in Value  BY DEF Value
  <2> QED BY <2>1, FieldType
<1>2. q \in Seq(Field) /\ q # <<>> /\ Head(q) = x /\ Tail(q) = r
  <2> HIDE DEF x
  <2> QED BY <1>1, Prepend
<1>3. wire \in Seq(Field) /\ shown \in Seq(Value) /\ result # "confused" /\ TypeOK
  BY DEF IInv
<1>4. wire' \in Seq(Field)
  <2> HIDE DEF q
  <2>1. wire' = wire \o q  BY DEF q
  <2> QED BY <1>2, <1>3, <2>1, ConcatProperties
<1>5. TypeOK'
  <2>1. \A i \in DOMAIN wire' : wire'[i].kind \in {"line", "str", "data"}  BY <1>4, WireKinds
  <2> QED BY <1>3, <2>1 DEF TypeOK
<1>6. pc \notin Fields \cup {"banner", "request", "done"}  BY DEF IInv, Position
<1>7. CASE pc = "status"
  <2>1. shown = <<>> /\ LeftOver(current - 1) /\ current \in 1 .. Len(commands)
    BY <1>7 DEF IInv, Position
  <2>2. Command' = Command  BY DEF Command
  <2>3. CASE wire = <<>>
    <3>1. wire' = q
      <4> HIDE DEF q
      <4>1. wire' = <<>> \o q  BY <2>3 DEF q
      <4> QED BY <1>2, <4>1, NothingAdded
    <3>2. /\ wire' # <<>> /\ Head(wire') = x /\ Tail(wire') = r  BY <1>2, <3>1
    <3>3. Head(wire').kind = "line" /\ Head(wire').v = code /\ code \in Value
      BY <1>1, <3>2
    <3>4. ToCome'
      <4>1. CASE code # Expected(Command)  BY <2>2, <3>2, <3>3, <4>1 DEF ToCome
      <4>2. CASE Command = "auth" /\ r \in {<<>>, Line("DENIED")}
        BY <2>2, <3>2, <3>3, <4>2 DEF ToCome
      <4>3. CASE \E lost \in Seq(Field) :
                   /\ \A h : Reads(Command, h, AfterStatus(Command), r \o lost, Printed(Command, found'))
                   /\ Printed(Command, found') \in Seq(Value)
                   /\ open' => lost = <<>>
        <5>1. PICK lost \in Seq(Field) :
                   /\ \A h : Reads(Command, h, AfterStatus(Command), r \o lost, Printed(Command, found'))
                   /\ Printed(Command, found') \in Seq(Value)
                   /\ open' => lost = <<>>
          BY <4>3
        <5> DEFINE out == Printed(Command, found')
        <5>2. out \in Seq(Value) /\ \A h : Reads(Command, h, AfterStatus(Command), r \o lost, out)
          BY <5>1
        <5>3. out = Printed(Command', found')  BY <2>2
        <5> HIDE DEF out
        <5>4. shown' \o out = out  BY <2>1, <5>2, NothingAdded
        <5>5. Underway(AfterStatus(Command), Tail(wire))'
          <6>1. \A h : Reads(Command', h, AfterStatus(Command'), Tail(wire') \o lost, out)
            BY <2>2, <3>2, <5>2
          <6>2. shown' \o out = Printed(Command', found')  BY <5>3, <5>4
          <6>3. Reads(Command', Said(Command', Head(shown')), AfterStatus(Command'),
                      Tail(wire') \o lost, out)
            BY <6>1
          <6>4. Begun(AfterStatus(Command))'
            <7>1. shown' = <<>>  BY <2>1
            <7>2. Command' = "selectquery" => AfterStatus(Command') = "oword"
              BY DEF AfterStatus, StringOps, ResultOps
            <7> QED BY <7>1, <7>2 DEF Begun
          <6> QED BY <5>1, <5>2, <6>2, <6>3, <6>4 DEF Underway
        <5> QED BY <3>2, <3>3, <5>5 DEF ToCome
      <4> QED BY <4>1, <4>2, <4>3 DEF Answers
    <3> QED BY <1>3, <1>4, <1>5, <1>7, <2>1, <3>4 DEF IInv, Position, Fields
  <2>4. CASE wire = Line("DENIED")
    <3> DEFINE d == [kind |-> "line", v |-> "DENIED"]
    <3>1. "DENIED" \in Value /\ d \in Field /\ wire = <<d>>
      <4>1. "DENIED" \in Value  BY DEF Value, Codes
      <4> QED BY <2>4, <4>1, FieldType
    <3>2. wire' # <<>> /\ Head(wire') = d
      <4> HIDE DEF d, q
      <4>1. wire' = <<d>> \o q  BY <3>1 DEF q
      <4> QED BY <1>2, <3>1, <4>1, Prepend
    <3>3. Head(wire').kind = "line" /\ Head(wire').v = "DENIED"  BY <3>2
    <3>4. "DENIED" # Expected(Command')  BY DEF Expected
    <3>5. ToCome'  BY <3>1, <3>2, <3>3, <3>4 DEF ToCome
    <3> QED BY <1>3, <1>4, <1>5, <1>7, <2>1, <3>5 DEF IInv, Position, Fields
  <2> QED BY <2>1, <2>3, <2>4 DEF LeftOver
<1>8. CASE pc # "status"
  <2>1. pc' \notin Fields \cup {"banner", "request", "done", "status"}  BY <1>6, <1>8
  <2>2. Position'  BY <2>1 DEF Position
  <2> QED BY <1>3, <1>4, <1>5, <2>2 DEF IInv
<1> QED BY <1>7, <1>8

\* What is printed of nothing, of dictionaries alone, and of a list alone.
LEMMA PrintedParts ==
    /\ \A op : op # "selectquery" => Printed(op, Nothing) = <<>>
    /\ \A op : \A oword \in Value, books \in Seq(BookBlock) :
         Printed(op, [Nothing EXCEPT !.oword = oword, !.books = books])
           = OfResult(op, oword, books)
    /\ \A op \in ListOps : \A ws \in Seq(Named) :
         Printed(op, [Nothing EXCEPT !.search = [tag |-> "l", list |-> ws]]) = ws
<1>1. \A op : op # "selectquery" => OfResult(op, Empty, <<>>) = <<>>
  <2>1. <<>> \in Seq(BookBlock)  OBVIOUS
  <2>2. OfBooks(Empty, <<>>) = <<>>  BY <2>1, OfBookCons
  <2> QED BY <2>2 DEF OfResult
<1>2. \A op : OfSearch(op, [tag |-> Empty, list |-> <<>>]) = <<>>  BY DEF OfSearch
<1>3. ASSUME NEW op, op # "selectquery" PROVE Printed(op, Nothing) = <<>>
  <2>1. Printed(op, Nothing)
          = OfResult(op, Empty, <<>>) \o OfSearch(op, [tag |-> Empty, list |-> <<>>])
    BY DEF Printed, Nothing
  <2> QED BY <1>1, <1>2, <1>3, <2>1
<1>4. ASSUME NEW op, NEW oword \in Value, NEW books \in Seq(BookBlock)
      PROVE  Printed(op, [Nothing EXCEPT !.oword = oword, !.books = books])
               = OfResult(op, oword, books)
  <2> DEFINE c == OfResult(op, oword, books)
             f == [Nothing EXCEPT !.oword = oword, !.books = books]
  <2>1. c \in Seq(Value)  BY ResultType
  <2>2. Printed(op, f) = c \o OfSearch(op, [tag |-> Empty, list |-> <<>>])
    BY DEF Printed, Nothing
  <2> HIDE DEF c, f
  <2>3. Printed(op, f) = c \o <<>>  BY <1>2, <2>2
  <2>4. Printed(op, f) = c  BY <2>1, <2>3, NothingAdded
  <2> QED BY <2>4 DEF c, f
<1>5. ASSUME NEW op \in ListOps, NEW ws \in Seq(Named)
      PROVE  Printed(op, [Nothing EXCEPT !.search = [tag |-> "l", list |-> ws]]) = ws
  <2> DEFINE s == [tag |-> "l", list |-> ws]
  <2>1. OfSearch(op, s) = ws
    <3>1. s.tag # Empty /\ s.tag # "d" /\ s.list = ws  BY NotEmpty
    <3> HIDE DEF s
    <3> QED BY <3>1 DEF OfSearch
  <2>2. Printed(op, [Nothing EXCEPT !.search = s]) = OfResult(op, Empty, <<>>) \o OfSearch(op, s)
    <3> HIDE DEF s
    <3> QED BY DEF Printed, Nothing
  <2>3. <<>> \o ws = ws  BY NothingAdded
  <2>4. op # "selectquery"  BY DEF ListOps
  <2> HIDE DEF s
  <2>5. Printed(op, [Nothing EXCEPT !.search = s]) = ws  BY <1>1, <2>1, <2>2, <2>3, <2>4
  <2> QED BY <2>5 DEF s
<1> QED BY <1>3, <1>4, <1>5

\* A refusal is never the answer the client hopes for.
LEMMA RefuseKeeps ==
    ASSUME IInv, request, request' = FALSE,
           UNCHANGED <<commands, current, pc, shown, result, faults>>, open' \in BOOLEAN,
           Refuse(Command)
    PROVE  IInv'
<1>1. PICK code \in Refusals(Command) :
        /\ wire' = wire \o Line(code) /\ UNCHANGED <<open, who>>
        /\ level' \in {level} \cup (IF Command = "auth" THEN {AccountLevel} ELSE {})
  BY DEF Refuse
<1>2. code \in {"NOTSET", "DENIED", "NOUSER"}  BY DEF Refusals
<1>3. code \in Codes /\ code # Expected(Command)  BY <1>2 DEF Codes, Expected
<1>4. who' \in {"nobody", "guest", "user"} /\ level' \in {0, AccountLevel}
  BY <1>1 DEF IInv, TypeOK
<1>5. <<>> \in Seq(Field) /\ wire' = wire \o (Line(code) \o <<>>)
  <2>1. Line(code) \in Seq(Field)  BY <1>3, LineFacts
  <2> QED BY <1>1, <2>1, NothingAdded
<1>6. Answers(Command, code, <<>>, found', open')  BY <1>3 DEF Answers
<1> QED BY <1>3, <1>4, <1>5, <1>6, ServedKeeps

\* auth may have a second answer.
LEMMA AuthenticateKeeps ==
    ASSUME IInv, request, request' = FALSE,
           UNCHANGED <<commands, current, pc, shown, result, faults>>, open' \in BOOLEAN,
           Authenticate(Command)
    PROVE  IInv'
<1>1. /\ Command = "auth" /\ who' = "user" /\ level' = AccountLevel
      /\ \/ wire' = wire \o Line("OK")
         \/ wire' = wire \o Line("OK") \o Line("DENIED")
  BY DEF Authenticate
<1>2. /\ "OK" \in Codes /\ Line("OK") \in Seq(Field) /\ Line("DENIED") \in Seq(Field)
      /\ <<>> \in Seq(Field) /\ wire \in Seq(Field)
  BY LineFacts, EmptySeq DEF IInv
<1>3. \E r \in {<<>>, Line("DENIED")} : wire' = wire \o (Line("OK") \o r)
  <2>1. CASE wire' = wire \o Line("OK")
    <3>1. wire' = wire \o (Line("OK") \o <<>>)  BY <1>2, <2>1, NothingAdded
    <3> QED BY <3>1
  <2>2. CASE wire' = wire \o Line("OK") \o Line("DENIED")
    <3>1. wire' = wire \o (Line("OK") \o Line("DENIED"))
      BY <1>2, <2>2, ConcatAssociative
    <3> QED BY <3>1
  <2> QED BY <1>1, <2>1, <2>2
<1>4. PICK r \in {<<>>, Line("DENIED")} : wire' = wire \o (Line("OK") \o r)  BY <1>3
<1>5. Answers(Command, "OK", r, found', open') /\ r \in Seq(Field)
  BY <1>1, <1>2, <1>4 DEF Answers
<1> QED BY <1>1, <1>2, <1>4, <1>5, ServedKeeps

\* A reply that is no more than its status.
LEMMA StatusAnswers ==
    ASSUME NEW op \in (StatusOps \ {"auth"}) \cup {"quit"}, NEW whole
    PROVE  /\ AfterStatus(op) = "done"
           /\ \A code : Answers(op, code, <<>>, Nothing, whole)
<1>1. AfterStatus(op) = "done"
  BY DEF AfterStatus, StatusOps, StringOps, ResultOps, ListOps
<1>2. <<>> \in Seq(Field) /\ <<>> \o <<>> = <<>> /\ <<>> \in Seq(Value)
  BY EmptySeq, ConcatEmptySeq
<1>3. Printed(op, Nothing) = <<>>
  <2>1. op # "selectquery"  BY DEF StatusOps
  <2> QED BY <2>1, PrintedParts
<1>4. \A h : Reads(op, h, "done", <<>>, <<>>)  BY DEF Reads
<1>5. \A h : Reads(op, h, AfterStatus(op), <<>> \o <<>>, Printed(op, Nothing))
  BY <1>1, <1>2, <1>3, <1>4
<1> QED BY <1>1, <1>2, <1>3, <1>5 DEF Answers

\* Commands that have a status only.
LEMMA DoStatusKeeps ==
    ASSUME IInv, request, request' = FALSE,
           UNCHANGED <<commands, current, pc, shown, result, faults>>, open' \in BOOLEAN,
           DoStatus(Command) \/ Quit(Command)
    PROVE  IInv'
<1>1. PICK code \in {"OK", "GOODBYE"} :
        /\ Command \in (StatusOps \ {"auth"}) \cup {"quit"} /\ wire' = wire \o Line(code)
        /\ found' = Nothing /\ level' = level /\ who' \in {who, "guest"}
  BY DEF DoStatus, Quit
<1>2. code \in Codes  BY DEF Codes
<1>3. <<>> \in Seq(Field) /\ wire' = wire \o (Line(code) \o <<>>)
  <2>1. Line(code) \in Seq(Field)  BY <1>2, LineFacts
  <2> QED BY <1>1, <2>1, NothingAdded
<1>4. Answers(Command, code, <<>>, found', open')  BY <1>1, StatusAnswers
<1>5. who' \in {"nobody", "guest", "user"} /\ level' \in {0, AccountLevel}
  BY <1>1 DEF IInv, TypeOK
<1> QED BY <1>2, <1>3, <1>4, <1>5, ServedKeeps

\* A query's asker is somebody.
LEMMA AskerType ==
    ASSUME TypeOK
    PROVE  \A op : Asker(op) \in {"nobody", "guest", "user"}
BY DEF TypeOK, Asker

\* The status and one string.
LEMMA DoStringKeeps ==
    ASSUME IInv, request, request' = FALSE,
           UNCHANGED <<commands, current, pc, shown, result, faults>>, open' \in BOOLEAN,
           DoString(Command)
    PROVE  IInv'
<1>1. /\ Command \in StringOps /\ found' = Nothing /\ UNCHANGED <<who, level>>
      /\ wire' = wire \o Line("OK") \o Str("value")
  BY DEF DoString
<1>2. /\ "OK" \in Codes /\ Line("OK") \in Seq(Field) /\ Str("value") \in Seq(Field)
      /\ wire \in Seq(Field)
  <2>1. "value" \in Value  BY DEF Value
  <2> QED BY <2>1, LineFacts, FieldType DEF IInv
<1>3. wire' = wire \o (Line("OK") \o Str("value"))  BY <1>1, <1>2, ConcatAssociative
<1>4. Answers(Command, "OK", Str("value"), found', open')
  <2>1. AfterStatus(Command) = "string"  BY <1>1 DEF AfterStatus
  <2>2. Str("value") \o <<>> = Str("value") /\ <<>> \in Seq(Field) /\ <<>> \in Seq(Value)
    BY <1>2, NothingAdded, EmptySeq
  <2>3. \A h : Reads(Command, h, "string", Str("value"), <<>>)  BY DEF Reads
  <2>4. Printed(Command, found') = <<>>
    <3>1. Command # "selectquery"  BY <1>1 DEF StringOps
    <3> QED BY <1>1, <3>1, PrintedParts
  <2>5. \A h : Reads(Command, h, AfterStatus(Command), Str("value") \o <<>>, Printed(Command, found'))
    BY <2>1, <2>2, <2>3, <2>4
  <2> QED BY <2>2, <2>4, <2>5 DEF Answers
<1>5. who' \in {"nobody", "guest", "user"} /\ level' \in {0, AccountLevel}
  BY <1>1 DEF IInv, TypeOK
<1> QED BY <1>2, <1>3, <1>4, <1>5, ServedKeeps

\* A query: the result with its end behind the status.
LEMMA DoQueryKeeps ==
    ASSUME IInv, request, request' = FALSE,
           UNCHANGED <<commands, current, pc, shown, result, faults>>, open' \in BOOLEAN,
           DoQuery(Command)
    PROVE  IInv'
<1>1. PICK entries \in [DOMAIN Books -> Entries], oword \in Queries :
        /\ Command \in ResultOps /\ who' = Asker(Command) /\ level' = level
        /\ wire' = wire \o Line("OK") \o DictResult(oword, Shown(entries))
        /\ found' = [Nothing EXCEPT !.oword = oword, !.books = Shown(entries)]
  BY DEF DoQuery
<1>2. PICK books \in Seq(BookBlock) : books = Shown(entries)  BY ShownType
<1>3. <<>> \in Seq(Field) /\ <<>> \in Seq(Value)  BY EmptySeq
<1>4. AfterBooks(Command, <<>>, <<>>)
  <2>1. Command # "lookup"  BY <1>1 DEF ResultOps
  <2> QED BY <2>1 DEF AfterBooks
<1> DEFINE r == DictResult(oword, books)
           c == OfResult(Command, oword, books)
<1>12. oword \in Value  BY DEF Value
<1>5. /\ r \in Seq(Field) /\ c \in Seq(Value)
      /\ \A h : Reads(Command, h, "oword", r \o <<>>, c \o <<>>)
  BY <1>3, <1>4, <1>12, ResultReads
<1>6. /\ "OK" \in Codes /\ Line("OK") \in Seq(Field) /\ wire \in Seq(Field)
  BY LineFacts DEF IInv
<1>7. Printed(Command, found') = c  BY <1>1, <1>2, <1>12, PrintedParts
<1>8. wire' = wire \o Line("OK") \o r  BY <1>1, <1>2
<1> HIDE DEF r, c
<1>9. wire' = wire \o (Line("OK") \o r)  BY <1>5, <1>6, <1>8, ConcatAssociative
<1>10. Answers(Command, "OK", r, found', open')
  <2>1. AfterStatus(Command) = "oword"
    BY <1>1 DEF AfterStatus, ResultOps, StringOps
  <2>2. c \o <<>> = c  BY <1>5, NothingAdded
  <2>3. \A h : Reads(Command, h, AfterStatus(Command), r \o <<>>, Printed(Command, found'))
    BY <1>5, <1>7, <2>1, <2>2
  <2> QED BY <1>3, <1>5, <1>7, <2>3 DEF Answers
<1>11. who' \in {"nobody", "guest", "user"} /\ level' \in {0, AccountLevel}
  BY <1>1, AskerType DEF IInv, TypeOK
<1> QED BY <1>5, <1>6, <1>9, <1>10, <1>11, ServedKeeps

\* A lookup: a search behind the result.
LEMMA DoLookupKeeps ==
    ASSUME IInv, request, request' = FALSE,
           UNCHANGED <<commands, current, pc, shown, result, faults>>, open' \in BOOLEAN,
           DoLookup(Command)
    PROVE  IInv'
<1>1. PICK entries \in [DOMAIN Books -> Entries], oword \in Queries :
        /\ Command = "lookup" /\ who' = Asker(Command) /\ level' = level
        /\ \E s \in Searches(Shown(entries)) :
             /\ wire' = wire \o Line("OK") \o DictResult(oword, Shown(entries)) \o ShowList(s)
             /\ found' = [oword |-> oword, books |-> Shown(entries), search |-> s]
  BY DEF DoLookup
<1>2. PICK books \in Seq(BookBlock) : books = Shown(entries)  BY ShownType
<1>3. PICK s \in SearchBlock :
        /\ wire' = wire \o Line("OK") \o DictResult(oword, books) \o ShowList(s)
        /\ found' = [oword |-> oword, books |-> books, search |-> s]
  BY <1>1, <1>2, SearchType
<1> DEFINE r == DictResult(oword, books)
           c == OfResult(Command, oword, books)
           l == ShowList(s)
           o == OfSearch("lookup", s)
<1>4. l \in Seq(Field) /\ o \in Seq(Value) /\ AfterBooks("lookup", l, o)  BY ShowListType
<1>14. oword \in Value  BY DEF Value
<1>5. /\ r \in Seq(Field) /\ c \in Seq(Value)
      /\ \A h : Reads(Command, h, "oword", r \o l, c \o o)
  BY <1>1, <1>4, <1>14, ResultReads
<1>6. /\ "OK" \in Codes /\ Line("OK") \in Seq(Field) /\ wire \in Seq(Field)
  BY LineFacts DEF IInv
<1>7. Printed(Command, found') = c \o o  BY <1>1, <1>3 DEF Printed
<1>8. wire' = wire \o Line("OK") \o r \o l  BY <1>3
<1> HIDE DEF r, c, l, o
<1>9. wire' = wire \o (Line("OK") \o (r \o l)) /\ r \o l \in Seq(Field)
  <2> DEFINE k == Line("OK")
  <2>1. k \in Seq(Field) /\ wire' = Cat(Cat(Cat(wire, k), r), l)  BY <1>6, <1>8 DEF Cat
  <2> HIDE DEF k
  <2>2. wire' = Cat(wire, Cat(k, Cat(r, l)))  BY <1>4, <1>5, <1>6, <2>1, FieldRegroup4
  <2>3. Cat(r, l) \in Seq(Field)  BY <1>4, <1>5, FieldCat
  <2> QED BY <2>2, <2>3 DEF Cat, k
<1> DEFINE q == r \o l
           p == c \o o
<1>10. q \in Seq(Field) /\ p \in Seq(Value) /\ \A h : Reads(Command, h, "oword", q, p)
  BY <1>4, <1>5, <1>9, ConcatProperties
<1>11. Printed(Command, found') = p /\ wire' = wire \o (Line("OK") \o q)  BY <1>7, <1>9
<1> HIDE DEF q, p
<1>12. Answers(Command, "OK", q, found', open')
  <2>1. AfterStatus("lookup") = "oword"  BY DEF AfterStatus, ResultOps, StringOps
  <2>2. q \o <<>> = q /\ <<>> \in Seq(Field)  BY <1>10, NothingAdded
  <2>3. \A h : Reads(Command, h, AfterStatus(Command), q \o <<>>, Printed(Command, found'))
    BY <1>1, <1>10, <1>11, <2>1, <2>2
  <2> QED BY <1>10, <1>11, <2>2, <2>3 DEF Answers
<1>13. who' \in {"nobody", "guest", "user"} /\ level' \in {0, AccountLevel}
  BY <1>1, AskerType DEF IInv, TypeOK
<1> QED BY <1>6, <1>10, <1>11, <1>12, <1>13, ServedKeeps

\* Neighbours of a word: a list behind the status.
LEMMA DoListKeeps ==
    ASSUME IInv, request, request' = FALSE,
           UNCHANGED <<commands, current, pc, shown, result, faults>>, open' \in BOOLEAN,
           DoList(Command)
    PROVE  IInv'
<1>1. PICK ws \in WordSeqs :
        /\ Command \in ListOps /\ who' = Asker(Command) /\ level' = level
        /\ wire' = wire \o Line("OK") \o WordList(ws)
        /\ found' = [Nothing EXCEPT !.search = [tag |-> "l", list |-> ws]]
  BY DEF DoList
<1>2. ws \in Seq(Named)  BY SearchType
<1> DEFINE r == WordList(ws)
<1>3. r \in Seq(Field) /\ ws \in Seq(Value)  BY <1>2, WordListType
<1>4. \A h : Reads(Command, h, "list", r, ws)  BY <1>2 DEF Reads, AtList
<1>5. Printed(Command, found') = ws  BY <1>1, <1>2, PrintedParts
<1>6. wire' = wire \o Line("OK") \o r  BY <1>1
<1> HIDE DEF r
<1>7. /\ "OK" \in Codes /\ Line("OK") \in Seq(Field) /\ wire \in Seq(Field)
  BY LineFacts DEF IInv
<1>8. wire' = wire \o (Line("OK") \o r)  BY <1>3, <1>6, <1>7, ConcatAssociative
<1>9. Answers(Command, "OK", r, found', open')
  <2>1. AfterStatus(Command) = "list"
    BY <1>1 DEF AfterStatus, ResultOps, StringOps, ListOps
  <2>2. r \o <<>> = r /\ <<>> \in Seq(Field)  BY <1>3, NothingAdded
  <2>3. \A h : Reads(Command, h, AfterStatus(Command), r \o <<>>, Printed(Command, found'))
    BY <1>4, <1>5, <2>1, <2>2
  <2> QED BY <1>3, <1>5, <2>2, <2>3 DEF Answers
<1>10. who' \in {"nobody", "guest", "user"} /\ level' \in {0, AccountLevel}
  BY <1>1, AskerType DEF IInv, TypeOK
<1> QED BY <1>3, <1>7, <1>8, <1>9, <1>10, ServedKeeps

\* The session dies at the result of an empty word; it would have found nothing.
LEMMA SelectNothingKeeps ==
    ASSUME IInv, request, request' = FALSE,
           UNCHANGED <<commands, current, pc, shown, result, faults>>, open' \in BOOLEAN,
           SelectNothing(Command)
    PROVE  IInv'
<1>1. /\ Command = "selectquery" /\ who' = Asker(Command) /\ level' = level /\ ~open'
      /\ wire' = wire \o Line("OK") /\ found' = Nothing
  BY DEF SelectNothing
<1>2. <<>> \in Seq(Field) /\ <<>> \in Seq(Value) /\ <<>> \in Seq(BookBlock)  BY EmptySeq
<1>3. AfterBooks(Command, <<>>, <<>>)  BY <1>1 DEF AfterBooks
<1> DEFINE r == DictResult(Empty, <<>>)
           c == OfResult(Command, Empty, <<>>)
<1>4. Empty \in Value  BY DEF Value
<1>5. /\ r \in Seq(Field) /\ c \in Seq(Value)
      /\ \A h : Reads(Command, h, "oword", r \o <<>>, c \o <<>>)
  BY <1>2, <1>3, <1>4, ResultReads
<1>11. Printed(Command, found') = c
  <2>1. Printed(Command, found') = c \o OfSearch(Command, [tag |-> Empty, list |-> <<>>])
    BY <1>1 DEF Printed, Nothing
  <2>2. OfSearch(Command, [tag |-> Empty, list |-> <<>>]) = <<>>  BY DEF OfSearch
  <2> HIDE DEF c
  <2> QED BY <1>5, <2>1, <2>2, NothingAdded
<1> HIDE DEF r, c
<1>6. \A h : Reads(Command, h, "oword", <<>> \o r, c)
  <2>1. r \o <<>> = r /\ <<>> \o r = r  BY <1>5, NothingAdded
  <2>2. c \o <<>> = c  BY <1>5, NothingAdded
  <2> QED BY <1>5, <2>1, <2>2
<1>7. /\ "OK" \in Codes /\ Line("OK") \in Seq(Field) /\ wire \in Seq(Field)
  BY LineFacts DEF IInv
<1>8. wire' = wire \o (Line("OK") \o <<>>)  BY <1>1, <1>7, NothingAdded
<1>9. Answers(Command, "OK", <<>>, found', open')
  <2>1. AfterStatus("selectquery") = "oword"  BY DEF AfterStatus, ResultOps, StringOps
  <2>2. \A h : Reads(Command, h, AfterStatus(Command), <<>> \o r, Printed(Command, found'))
    BY <1>1, <1>6, <1>11, <2>1
  <2> QED BY <1>1, <1>5, <1>11, <2>2 DEF Answers
<1>10. who' \in {"nobody", "guest", "user"} /\ level' \in {0, AccountLevel}
  BY <1>1, AskerType DEF IInv, TypeOK
<1> QED BY <1>2, <1>7, <1>8, <1>9, <1>10, ServedKeeps

\* Whatever the session does with a command.
LEMMA ServeKeeps ==
    ASSUME IInv, Serve
    PROVE  IInv'
<1>1. /\ request /\ request' = FALSE /\ open
      /\ UNCHANGED <<commands, current, pc, shown, result, faults>>
  BY DEF Serve
<1>2. CASE Refuse(Command)
  <2>1. open' \in BOOLEAN  BY <1>2 DEF Refuse, IInv, TypeOK
  <2> QED BY <1>1, <1>2, <2>1, RefuseKeeps
<1>3. CASE Authenticate(Command)
  <2>1. open' \in BOOLEAN  BY <1>3 DEF Authenticate, IInv, TypeOK
  <2> QED BY <1>1, <1>3, <2>1, AuthenticateKeeps
<1>4. CASE DoStatus(Command) \/ Quit(Command)
  <2>1. open' \in BOOLEAN  BY <1>4 DEF DoStatus, Quit, IInv, TypeOK
  <2> QED BY <1>1, <1>4, <2>1, DoStatusKeeps
<1>5. CASE DoString(Command)
  <2>1. open' \in BOOLEAN  BY <1>5 DEF DoString, IInv, TypeOK
  <2> QED BY <1>1, <1>5, <2>1, DoStringKeeps
<1>6. CASE DoQuery(Command)
  <2>1. open' \in BOOLEAN  BY <1>6 DEF DoQuery, IInv, TypeOK
  <2> QED BY <1>1, <1>6, <2>1, DoQueryKeeps
<1>7. CASE DoLookup(Command)
  <2>1. open' \in BOOLEAN  BY <1>7 DEF DoLookup, IInv, TypeOK
  <2> QED BY <1>1, <1>7, <2>1, DoLookupKeeps
<1>8. CASE DoList(Command)
  <2>1. open' \in BOOLEAN  BY <1>8 DEF DoList, IInv, TypeOK
  <2> QED BY <1>1, <1>8, <2>1, DoListKeeps
<1>9. CASE SelectNothing(Command)
  <2>1. open' \in BOOLEAN  BY <1>9 DEF SelectNothing
  <2> QED BY <1>1, <1>9, <2>1, SelectNothingKeeps
<1> QED BY <1>2, <1>3, <1>4, <1>5, <1>6, <1>7, <1>8, <1>9 DEF Serve

\* A step that changes nothing.
LEMMA StutterKeeps ==
    ASSUME IInv, UNCHANGED vars
    PROVE  IInv'
<1>1. UNCHANGED <<commands, current, pc, shown, wire, request, open, who, level, found,
                  answered, result, faults>>
  BY DEF vars
<1>2. TypeOK'  BY <1>1 DEF IInv, TypeOK
<1>3. Position'
  BY <1>1 DEF IInv, Position, LeftOver, ToCome, Underway, Begun, Command
<1> QED BY <1>1, <1>2, <1>3 DEF IInv

\* So what is still to read and to print is right at every step.
LEMMA StepKeeps ==
    ASSUME IInv, [Next]_vars
    PROVE  IInv'
<1>1. Next => \/ Banner \/ Request \/ Status \/ Reading \/ Done \/ Serve \/ Cut
  BY DEF Next, Client, Server, Reading
<1> QED BY <1>1, BannerKeeps, RequestKeeps, StatusKeeps, ReadingKeeps, DoneKeeps, ServeKeeps,
           CutKeeps, StutterKeeps

\* The invariant holds in every run.
THEOREM StreamInvariant == Spec => []IInv
<1>1. Init => IInv  BY InitHolds
<1>2. IInv /\ [Next]_vars => IInv'  BY StepKeeps
<1> QED BY <1>1, <1>2, PTL DEF Spec

\* TypeOK: every variable keeps its type and the client stays within its
\* commands, whatever the session answers and wherever the connection breaks.
THEOREM TypeCorrect == Spec => []TypeOK
<1>1. IInv => TypeOK  BY DEF IInv
<1> QED BY <1>1, StreamInvariant, PTL

\* InStep: the client sends a command only when nothing of an earlier reply is
\* left but a second answer of auth, and never takes one field for another.
THEOREM InStepHolds == Spec => []InStep
<1>1. ASSUME IInv PROVE InStep
  <2>1. TypeOK /\ result # "confused"  BY <1>1 DEF IInv
  <2>2. pc = "request" => LeftOver(current - 1)  BY <1>1 DEF IInv, Position
  <2> QED BY <2>1, <2>2 DEF InStep, LeftOver
<1> QED BY <1>1, StreamInvariant, PTL

\* ShownIsSent: of a query that was read to its end the client has shown all
\* that the session found, and nothing else.
THEOREM ShownIsSentHolds == Spec => []ShownIsSent
<1>1. ASSUME IInv, pc = "done", Command \in QueryOps PROVE shown = Printed(Command, found)
  <2>1. Command # "auth"  BY <1>1 DEF QueryOps, ResultOps, ListOps
  <2>2. Underway("done", wire)  BY <1>1, <2>1 DEF IInv, Position
  <2>3. PICK lost \in Seq(Field), out \in Seq(Value) :
          /\ Reads(Command, Said(Command, Head(shown)), "done", wire \o lost, out)
          /\ shown \o out = Printed(Command, found)
    BY <2>2 DEF Underway
  <2>4. out = <<>>  BY <2>3 DEF Reads
  <2>5. shown \o <<>> = shown  BY <1>1, NothingAdded DEF IInv
  <2> QED BY <2>3, <2>4, <2>5
<1>2. IInv => ShownIsSent  BY <1>1 DEF ShownIsSent
<1> QED BY <1>2, StreamInvariant, PTL

-----------------------------------------------------------------------------
(* As whom queries are answered.                                           *)

Answer == [op : Ops, by : {"nobody", "guest", "user"}]

\* There was a login and no tmpdictmask since.
LoggedIn(a) ==
    \E j \in DOMAIN a :
        a[j].op = "auth" /\ \A k \in j + 1 .. Len(a) : a[k].op # "tmpdictmask"

AsUser(a) ==
    \A i \in DOMAIN a :
        /\ a[i].op \in QueryOps
        /\ \E j \in 1 .. i - 1 :
             a[j].op = "auth" /\ \A k \in j + 1 .. i - 1 : a[k].op # "tmpdictmask"
        => a[i].by = "user"

\* The session will not be asked again: it is gone, or the client has ended or
\* is about to because it reads a refusal.
Doomed ==
    \/ ~open
    \/ /\ ~request
       /\ pc = "ended" \/ (pc = "status" /\ wire # <<>> /\ Head(wire).v # Expected(Command))

\* A session that is logged in is the user's, unless the login failed.
UserInv ==
    /\ request => current # 0
    /\ answered \in Seq(Answer)
    /\ AsUser(answered)
    /\ LoggedIn(answered) => who = "user" \/ Doomed

\* One more command.
LEMMA OneMore ==
    ASSUME NEW a \in Seq(Answer), NEW x \in Answer
    PROVE  /\ Append(a, x) \in Seq(Answer)
           /\ LoggedIn(Append(a, x)) =>
                x.op = "auth" \/ (LoggedIn(a) /\ x.op # "tmpdictmask")
           /\ AsUser(a) /\ (x.op \in QueryOps /\ LoggedIn(a) => x.by = "user")
                => AsUser(Append(a, x))
<1> DEFINE b == Append(a, x)
           n == Len(a)
<1>1. /\ n \in Nat /\ b \in Seq(Answer) /\ Len(b) = n + 1 /\ b[n + 1] = x
      /\ \A i \in 1 .. n : b[i] = a[i]
      /\ DOMAIN a = 1 .. n /\ DOMAIN b = 1 .. n + 1
  BY AppendProperties, LenProperties
<1> HIDE DEF b
<1>2. ASSUME LoggedIn(b) PROVE x.op = "auth" \/ (LoggedIn(a) /\ x.op # "tmpdictmask")
  <2>1. PICK j \in 1 .. n + 1 :
          b[j].op = "auth" /\ \A k \in j + 1 .. n + 1 : b[k].op # "tmpdictmask"
    BY <1>1, <1>2 DEF LoggedIn
  <2>2. CASE j = n + 1  BY <1>1, <2>1, <2>2
  <2>3. CASE j # n + 1
    <3>1. j \in 1 .. n /\ n + 1 \in j + 1 .. n + 1  BY <1>1, <2>1, <2>3
    <3>2. \A k \in j + 1 .. n : k \in j + 1 .. n + 1 /\ k \in 1 .. n  BY <1>1, <3>1
    <3>3. a[j].op = "auth" /\ x.op # "tmpdictmask"  BY <1>1, <2>1, <3>1
    <3>4. \A k \in j + 1 .. n : a[k].op # "tmpdictmask"  BY <1>1, <2>1, <3>2
    <3> QED BY <1>1, <3>1, <3>3, <3>4 DEF LoggedIn
  <2> QED BY <2>2, <2>3
<1>3. ASSUME AsUser(a), x.op \in QueryOps /\ LoggedIn(a) => x.by = "user"
      PROVE  AsUser(b)
  <2>1. SUFFICES ASSUME NEW i \in 1 .. n + 1, b[i].op \in QueryOps,
                        NEW j \in 1 .. i - 1, b[j].op = "auth",
                        \A k \in j + 1 .. i - 1 : b[k].op # "tmpdictmask"
                 PROVE  b[i].by = "user"
    BY <1>1 DEF AsUser
  <2>2. j \in 1 .. n /\ \A k \in j + 1 .. i - 1 : k \in 1 .. n  BY <1>1
  <2>3. a[j].op = "auth" /\ \A k \in j + 1 .. i - 1 : a[k].op # "tmpdictmask"
    BY <1>1, <2>1, <2>2
  <2>4. CASE i = n + 1
    <3>1. i - 1 = n  BY <1>1, <2>4
    <3>2. LoggedIn(a)  BY <1>1, <2>2, <2>3, <3>1 DEF LoggedIn
    <3> QED BY <1>1, <1>3, <2>1, <2>4, <3>2
  <2>5. CASE i # n + 1
    <3>1. i \in 1 .. n  BY <1>1, <2>5
    <3>2. b[i] = a[i]  BY <1>1, <3>1
    <3> QED BY <1>1, <1>3, <2>1, <2>3, <3>1, <3>2 DEF AsUser
  <2> QED BY <2>4, <2>5
<1> QED BY <1>1, <1>2, <1>3 DEF b

\* A command is asked for only in a reply's place, and then it is one of Ops.
LEMMA Asked ==
    ASSUME IInv, UserInv, request
    PROVE  /\ pc \in {"status", "ended"} /\ Command \in Ops
           /\ pc = "status" => wire = <<>> \/ wire = Line("DENIED")
<1>1. pc \in {"status", "ended"}
  BY DEF IInv, TypeOK, Labels, Position, Fields
<1>2. Command \in Ops  BY CommandsType DEF IInv, UserInv
<1>3. pc = "status" => wire = <<>> \/ wire = Line("DENIED")  BY DEF IInv, Position, LeftOver
<1> QED BY <1>1, <1>2, <1>3

\* A refused login is the end.
LEMMA RefusedIsDoomed ==
    ASSUME IInv, UserInv, request, request' = FALSE, UNCHANGED <<commands, current, pc>>,
           Refuse(Command)
    PROVE  Doomed'
<1>1. pc \in {"status", "ended"} /\ (pc = "status" => wire = <<>> \/ wire = Line("DENIED"))
  BY Asked
<1>2. PICK code \in Refusals(Command) : wire' = wire \o Line(code)  BY DEF Refuse
<1>3. code \in Codes /\ code \notin {"OK", "GOODBYE"}
  <2>1. code \in {"NOTSET", "DENIED", "NOUSER"}  BY <1>2 DEF Refusals
  <2> QED BY <2>1 DEF Codes
<1>4. CASE pc = "ended"  BY <1>4 DEF Doomed
<1>5. CASE pc = "status"
  <2>1. Line(code) \in Seq(Field) /\ Line(code) # <<>>
        /\ Head(Line(code)) = [kind |-> "line", v |-> code]
    BY <1>3, LineFacts
  <2>2. CASE wire = <<>>
    <3>1. wire' = Line(code)  BY <1>2, <2>1, <2>2, NothingAdded
    <3>2. wire' # <<>> /\ Head(wire').v = code  BY <2>1, <3>1
    <3>3. code # Expected(Command')  BY <1>3, LineFacts
    <3> QED BY <1>5, <3>2, <3>3 DEF Doomed
  <2>3. CASE wire = Line("DENIED")
    <3> DEFINE d == [kind |-> "line", v |-> "DENIED"]
    <3>1. d \in Field /\ wire = <<d>> /\ d.v = "DENIED"
      <4>1. "DENIED" \in Value  BY DEF Value, Codes
      <4> QED BY <2>3, <4>1, FieldType
    <3> HIDE DEF d
    <3>2. wire' # <<>> /\ Head(wire') = d  BY <1>2, <2>1, <3>1, Prepend
    <3>3. Head(wire').v = "DENIED" /\ "DENIED" # Expected(Command')
      <4>1. "DENIED" # Expected(Command')  BY DEF Expected
      <4> QED BY <3>1, <3>2, <4>1
    <3> QED BY <1>5, <3>2, <3>3 DEF Doomed
  <2> QED BY <1>1, <1>5, <2>2, <2>3
<1> QED BY <1>1, <1>4, <1>5

\* Whoever is served.
LEMMA ServeAsUser ==
    ASSUME IInv, UserInv, Serve
    PROVE  UserInv'
<1>1. /\ request /\ request' = FALSE /\ open
      /\ UNCHANGED <<commands, current, pc, shown, result, faults>>
  BY DEF Serve
<1> DEFINE op == Command
           x == [op |-> op, by |-> Asker(op)]
<1>2. op \in Ops  BY <1>1, Asked
<1>3. answered' = Append(answered, x)
  BY DEF Serve, Refuse, Authenticate, DoStatus, DoString, DoQuery, DoLookup, DoList,
         SelectNothing, Quit, Answered
<1>4. x \in Answer  BY <1>2, AskerType DEF IInv, Answer
<1>5. x.op = op /\ x.by = Asker(op)  OBVIOUS
<1>6. LoggedIn(answered) => who = "user"  BY <1>1 DEF UserInv, Doomed
<1>7. answered \in Seq(Answer) /\ AsUser(answered)  BY DEF UserInv
<1>8. op \in QueryOps /\ LoggedIn(answered) => Asker(op) = "user"  BY <1>6 DEF Asker
<1>9. op # "auth" /\ op # "tmpdictmask" /\ who = "user" => who' = "user"
  BY DEF Serve, Refuse, Authenticate, DoStatus, DoString, DoQuery, DoLookup, DoList,
         SelectNothing, Quit, Asker
<1>10. op = "auth" => who' = "user" \/ Refuse(op)
  BY DEF Serve, Authenticate, DoStatus, DoString, DoQuery, DoLookup, DoList,
         SelectNothing, Quit, StringOps, ResultOps, ListOps
<1>11. Refuse(op) => Doomed'
  <2>1. UNCHANGED <<commands, current, pc>>  BY <1>1
  <2>2. ASSUME Refuse(Command) PROVE Doomed'  BY <1>1, <2>1, <2>2, RefusedIsDoomed, Zenon
  <2> QED BY <2>2
<1> HIDE DEF x, op
<1>12. /\ answered' \in Seq(Answer) /\ AsUser(answered')
       /\ LoggedIn(answered') => op = "auth" \/ (LoggedIn(answered) /\ op # "tmpdictmask")
  <2>1. /\ Append(answered, x) \in Seq(Answer)
        /\ LoggedIn(Append(answered, x)) =>
             x.op = "auth" \/ (LoggedIn(answered) /\ x.op # "tmpdictmask")
        /\ AsUser(answered) /\ (x.op \in QueryOps /\ LoggedIn(answered) => x.by = "user")
             => AsUser(Append(answered, x))
    BY <1>4, <1>7, OneMore
  <2> QED BY <1>3, <1>5, <1>7, <1>8, <2>1
<1>13. LoggedIn(answered') => who' = "user" \/ Doomed'
  BY <1>6, <1>9, <1>10, <1>11, <1>12
<1> QED BY <1>1, <1>12, <1>13 DEF UserInv

\* No step of the client, and no broken connection, makes a doomed session live.
LEMMA OthersAsUser ==
    ASSUME IInv, UserInv, Next \/ UNCHANGED vars, ~Serve
    PROVE  UserInv'
<1>1. UNCHANGED <<who, answered>>
  BY DEF Next, Client, Server, Cut, Banner, Request, Status, ReadString, OWord, Book, Word,
         Article, More, Tag, List, DataBook, DataWord, Done, Read, server, vars
<1>2. \/ Banner \/ Request \/ Status \/ Reading \/ Done \/ Cut \/ UNCHANGED vars
  BY DEF Next, Client, Server, Reading
<1>3. request' => current' # 0
  <2>1. CASE Banner  BY <2>1 DEF Banner, Read, End, IInv, Position
  <2>2. CASE Request
    <3>1. current \in 1 .. Len(commands)  BY <2>2 DEF Request, IInv, Position
    <3>2. current' = current /\ current # 0  BY <2>2, <3>1 DEF Request, End
    <3> QED BY <3>2
  <2>3. CASE Status  BY <2>3 DEF Status, Read, Goto, End, UserInv
  <2>4. CASE Reading  BY <2>4, ReadingSteps DEF UserInv
  <2>5. CASE Done  BY <2>5 DEF Done, IInv, Position
  <2>6. CASE Cut  BY <2>6 DEF Cut, UserInv
  <2>7. CASE UNCHANGED vars  BY <2>7 DEF vars, UserInv
  <2> QED BY <1>2, <2>1, <2>2, <2>3, <2>4, <2>5, <2>6, <2>7
<1>4. Doomed => Doomed'
  <2>1. CASE Banner  BY <2>1 DEF Banner, Read, End, Doomed, server
  <2>2. CASE Request  BY <2>2 DEF Request, End, Doomed, server
  <2>3. CASE Status  BY <2>3 DEF Status, Read, Goto, End, Doomed, server
  <2>4. CASE Reading
    <3>1. pc \in Fields /\ UNCHANGED <<request, server>>  BY <2>4, ReadingSteps
    <3>2. Doomed => ~open  BY <3>1 DEF Doomed, Fields
    <3> QED BY <3>1, <3>2 DEF Doomed, server
  <2>5. CASE Done  BY <2>5 DEF Done, Doomed, server
  <2>6. CASE Cut  BY <2>6 DEF Cut, Doomed
  <2>7. CASE UNCHANGED vars  BY <2>7 DEF vars, Doomed, Command
  <2> QED BY <1>2, <2>1, <2>2, <2>3, <2>4, <2>5, <2>6, <2>7
<1> QED BY <1>1, <1>3, <1>4 DEF UserInv

\* NeverAsGuest: a query after a login and no tmpdictmask since is answered as
\* the user's, whichever login was refused and wherever the connection broke.
THEOREM NeverAsGuestHolds == Spec => []NeverAsGuest
<1>1. Init => UserInv
  <2>1. SUFFICES ASSUME Init PROVE UserInv
    OBVIOUS
  <2>2. ~request /\ answered = <<>>  BY <2>1 DEF Init
  <2>3. DOMAIN answered = {} /\ answered \in Seq(Answer)  BY <2>2, EmptySeq
  <2> QED BY <2>2, <2>3 DEF UserInv, AsUser, LoggedIn
<1>2. IInv /\ UserInv /\ [Next]_vars => UserInv'  BY ServeAsUser, OthersAsUser
<1>3. UserInv => NeverAsGuest  BY DEF UserInv, AsUser, NeverAsGuest
<1> QED BY <1>1, <1>2, <1>3, StreamInvariant, PTL DEF Spec

-----------------------------------------------------------------------------
(* Reading a string character by character.                                *)

\* Sequences over a set are sequences over a larger one.
LEMMA SeqWidens ==
    ASSUME NEW A, NEW B, A \subseteq B
    PROVE  Seq(A) \subseteq Seq(B)
<1> SUFFICES ASSUME NEW s \in Seq(A) PROVE s \in Seq(B)  OBVIOUS
<1>1. s \in [1 .. Len(s) -> B] /\ Len(s) \in Nat  BY LenProperties
<1> QED BY <1>1, SeqDef

\* A is what F makes of q and the members of s, one after the other.
IsRun(F, q, s, A) ==
    \A i \in 0 .. Len(s) : A[i] = IF i = 0 THEN q ELSE F[<<A[i - 1], s[i]>>]
Runs(F, q, s, r) == \E A : IsRun(F, q, s, A) /\ A[Len(s)] = r

\* Two runs over one string end alike.
LEMMA RunsOnce ==
    ASSUME NEW S, NEW s \in Seq(S), NEW F, NEW q, NEW A, NEW B, IsRun(F, q, s, A), IsRun(F, q, s, B)
    PROVE  A[Len(s)] = B[Len(s)]
<1> DEFINE n == Len(s)
           Bad == {m \in 0 .. n : A[m] # B[m]}
<1>1. n \in Nat  BY LenProperties
<1> HIDE DEF n
<1>2. ASSUME Bad # {} PROVE FALSE
  <2>1. PICK m \in Bad : \A y \in Bad : m <= y  BY <1>1, <1>2, LeastPosition
  <2>2. m \in 0 .. n /\ A[m] # B[m]  BY <2>1
  <2>3. /\ A[m] = IF m = 0 THEN q ELSE F[<<A[m - 1], s[m]>>]
        /\ B[m] = IF m = 0 THEN q ELSE F[<<B[m - 1], s[m]>>]
    BY <2>2 DEF IsRun, n
  <2>4. m # 0 => m - 1 \in 0 .. n /\ ~(m <= m - 1)  BY <1>1, <2>2
  <2>5. m # 0 => A[m - 1] = B[m - 1]  BY <2>1, <2>4
  <2> QED BY <2>2, <2>3, <2>5
<1>3. n \in 0 .. n  BY <1>1
<1> QED BY <1>2, <1>3 DEF n

\* Such a loop as a function of the places of s.
IsLoop(F, q, s, A) ==
    A = [i \in 0 .. Len(s) |-> IF i = 0 THEN q ELSE F[<<A[i - 1], s[i]>>]]

\* There is a run over every string.
LEMMA RunExists ==
    ASSUME NEW S, NEW s \in Seq(S), NEW F, NEW q
    PROVE  \E A : IsLoop(F, q, s, A)
<1> DEFINE n == Len(s)
           UpTo(m, A) == A = [i \in 0 .. m |-> IF i = 0 THEN q ELSE F[<<A[i - 1], s[i]>>]]
           Bad == {m \in 0 .. n : ~ \E A : UpTo(m, A)}
<1>1. n \in Nat  BY LenProperties
<1> HIDE DEF n
<1>2. ASSUME Bad # {} PROVE FALSE
  <2>1. PICK m \in Bad : \A y \in Bad : m <= y  BY <1>1, <1>2, LeastPosition
  <2>2. m \in 0 .. n /\ ~ \E A : UpTo(m, A)  BY <2>1
  <2>3. CASE m = 0
    <3>1. UpTo(0, [i \in 0 .. 0 |-> q])  OBVIOUS
    <3> QED BY <2>2, <2>3, <3>1
  <2>4. CASE m # 0
    <3>1. m - 1 \in 0 .. n /\ ~(m <= m - 1)  BY <1>1, <2>2, <2>4
    <3>2. PICK A : UpTo(m - 1, A)
      <4> HIDE DEF UpTo
      <4> QED BY <2>1, <3>1
    <3> DEFINE a(i) == IF i = m THEN F[<<A[m - 1], s[m]>>] ELSE A[i]
               B == [i \in 0 .. m |-> a(i)]
    <3>3. ASSUME NEW i \in 0 .. m
          PROVE  a(i) = IF i = 0 THEN q ELSE F[<<B[i - 1], s[i]>>]
      <4>1. i # 0 => i - 1 \in 0 .. m /\ i - 1 # m  BY <2>2
      <4>2. i # 0 => B[i - 1] = A[i - 1]  BY <4>1
      <4>3. i # m => i \in 0 .. m - 1  BY <2>2, <2>4
      <4>4. i # m => A[i] = IF i = 0 THEN q ELSE F[<<A[i - 1], s[i]>>]
        BY <4>3, <3>2
      <4> QED BY <2>4, <4>2, <4>4
    <3>4. UpTo(m, B)
      <4> HIDE DEF a
      <4> QED BY <3>3
    <3> QED BY <2>2, <3>4
  <2> QED BY <2>3, <2>4
<1>3. n \in 0 .. n  BY <1>1
<1> QED BY <1>2, <1>3 DEF n, IsLoop

\* What a loop over a string ends with is where any run over it ends.
LEMMA RunEnds ==
    ASSUME NEW S, NEW s \in Seq(S), NEW F, NEW q, NEW r, Runs(F, q, s, r), NEW After,
           After = CHOOSE A : IsLoop(F, q, s, A)
    PROVE  After[Len(s)] = r
<1>1. IsLoop(F, q, s, After)  BY RunExists
<1>2. IsRun(F, q, s, After)
  <2> SUFFICES ASSUME NEW i \in 0 .. Len(s)
               PROVE  After[i] = IF i = 0 THEN q ELSE F[<<After[i - 1], s[i]>>]
    BY DEF IsRun
  <2> QED BY <1>1 DEF IsLoop
<1>3. PICK A : IsRun(F, q, s, A) /\ A[Len(s)] = r  BY DEF Runs
<1> QED BY <1>2, <1>3, RunsOnce

\* A run over one string and then over another is a run over both.
LEMMA RunsJoin ==
    ASSUME NEW S, NEW s \in Seq(S), NEW t \in Seq(S), NEW F, NEW q, NEW r, NEW u,
           Runs(F, q, s, r), Runs(F, r, t, u)
    PROVE  Runs(F, q, s \o t, u)
<1> DEFINE n == Len(s)
           m == Len(t)
<1>1. n \in Nat /\ m \in Nat  BY LenProperties
<1>2. /\ s \o t \in Seq(S) /\ Len(s \o t) = n + m
      /\ \A i \in 1 .. n + m : (s \o t)[i] = IF i <= n THEN s[i] ELSE t[i - n]
  BY ConcatProperties
<1>3. PICK A : IsRun(F, q, s, A) /\ A[n] = r  BY DEF Runs
<1>4. PICK B : IsRun(F, r, t, B) /\ B[m] = u  BY DEF Runs
<1>5. /\ \A i \in 0 .. n : A[i] = IF i = 0 THEN q ELSE F[<<A[i - 1], s[i]>>]
      /\ \A i \in 0 .. m : B[i] = IF i = 0 THEN r ELSE F[<<B[i - 1], t[i]>>]
  BY <1>3, <1>4 DEF IsRun
<1> DEFINE d == [i \in 0 .. n + m |-> IF i <= n THEN A[i] ELSE B[i - n]]
<1> HIDE DEF n, m
<1>5a. \A i \in 0 .. n + m : d[i] = IF i <= n THEN A[i] ELSE B[i - n]  OBVIOUS
<1> HIDE DEF d
<1>6. ASSUME NEW i \in 0 .. n + m
      PROVE  d[i] = IF i = 0 THEN q ELSE F[<<d[i - 1], (s \o t)[i]>>]
  <2>1. CASE i <= n
    <3>1. i \in 0 .. n /\ (i # 0 => i - 1 \in 0 .. n + m /\ i - 1 <= n /\ i \in 1 .. n + m)
      BY <1>1, <2>1
    <3> QED BY <1>2, <1>5, <1>5a, <2>1, <3>1
  <2>2. CASE i > n
    <3>1. /\ i - n \in 1 .. m /\ i \in 1 .. n + m /\ i # 0 /\ i - n # 0 /\ ~(i <= n)
          /\ i - 1 \in 0 .. n + m /\ i - n - 1 = (i - n) - 1 /\ i - n \in 0 .. m
      BY <1>1, <2>2
    <3>2. d[i] = B[i - n] /\ (s \o t)[i] = t[i - n]  BY <1>2, <1>5a, <3>1
    <3>3. B[i - n] = F[<<B[(i - n) - 1], t[i - n]>>]  BY <1>5, <3>1
    <3>4. d[i - 1] = B[(i - n) - 1]
      <4>1. CASE i - 1 <= n
        <5>1. i - 1 = n /\ (i - n) - 1 = 0 /\ 0 \in 0 .. m  BY <1>1, <2>2, <4>1
        <5>2. d[i - 1] = A[n]  BY <1>5a, <3>1, <4>1, <5>1
        <5>3. B[0] = r  BY <1>5, <5>1
        <5> QED BY <1>3, <5>1, <5>2, <5>3 DEF n
      <4>2. CASE ~(i - 1 <= n)
        <5>1. d[i - 1] = B[(i - 1) - n]  BY <1>5a, <3>1, <4>2
        <5>2. (i - 1) - n = (i - n) - 1  BY <1>1, <2>2
        <5> QED BY <5>1, <5>2
      <4> QED BY <4>1, <4>2
    <3> QED BY <3>1, <3>2, <3>3, <3>4
  <2>3. i <= n \/ i > n  BY <1>1
  <2> QED BY <2>1, <2>2, <2>3
<1>7. d[n + m] = u
  <2>1. n + m \in 0 .. n + m  BY <1>1
  <2>2. CASE m = 0
    <3>1. d[n + m] = A[n]  BY <1>1, <1>5a, <2>1, <2>2
    <3>2. B[0] = r  BY <1>1, <1>5, <2>2
    <3> QED BY <1>3, <1>4, <2>2, <3>1, <3>2 DEF n, m
  <2>3. CASE m # 0
    <3>1. ~(n + m <= n) /\ (n + m) - n = m  BY <1>1, <2>3
    <3>2. d[n + m] = B[m]  BY <1>5a, <2>1, <3>1
    <3> QED BY <1>4, <3>2 DEF m
  <2> QED BY <2>2, <2>3
<1>8. IsRun(F, q, s \o t, d)  BY <1>2, <1>6 DEF IsRun, n, m
<1> QED BY <1>2, <1>7, <1>8 DEF Runs, n, m

\* Runs over nothing and over one character.
LEMMA RunsShort ==
    ASSUME NEW F, NEW q, NEW c
    PROVE  Runs(F, q, <<>>, q) /\ Runs(F, q, <<c>>, F[<<q, c>>])
<1>1. Runs(F, q, <<>>, q)
  <2> DEFINE A == [i \in 0 .. 0 |-> q]
  <2>1. IsRun(F, q, <<>>, A) /\ A[Len(<<>>)] = q  BY DEF IsRun
  <2> QED BY <2>1 DEF Runs
<1>2. Runs(F, q, <<c>>, F[<<q, c>>])
  <2> DEFINE A == [i \in 0 .. 1 |-> IF i = 0 THEN q ELSE F[<<q, c>>]]
  <2>1. Len(<<c>>) = 1 /\ <<c>>[1] = c  OBVIOUS
  <2>2. A[0] = q /\ A[1] = F[<<q, c>>]  OBVIOUS
  <2>3. \A i \in 0 .. 1 : i = 0 \/ i = 1  OBVIOUS
  <2> HIDE DEF A
  <2>4. IsRun(F, q, <<c>>, A)
    <3> SUFFICES ASSUME NEW i \in 0 .. 1
                 PROVE  A[i] = IF i = 0 THEN q ELSE F[<<A[i - 1], <<c>>[i]>>]
      BY <2>1 DEF IsRun
    <3>1. CASE i = 0  BY <2>2, <3>1
    <3>2. CASE i = 1  BY <2>1, <2>2, <3>2
    <3> QED BY <2>3, <3>1, <3>2
  <2> QED BY <2>1, <2>2, <2>4 DEF Runs
<1> QED BY <1>1, <1>2

\* And over two.
LEMMA RunsPair ==
    ASSUME NEW F, NEW q, NEW c, NEW e
    PROVE  Runs(F, q, <<c, e>>, F[<<F[<<q, c>>], e>>])
<1>1. <<c>> \in Seq({c, e}) /\ <<e>> \in Seq({c, e})  OBVIOUS
<1>2. Runs(F, q, <<c>>, F[<<q, c>>]) /\ Runs(F, F[<<q, c>>], <<e>>, F[<<F[<<q, c>>], e>>])
  BY RunsShort
<1>3. Runs(F, q, <<c>> \o <<e>>, F[<<F[<<q, c>>], e>>])  BY <1>1, <1>2, RunsJoin
<1>4. <<c>> \o <<e>> = <<c, e>>
  <2>1. <<c>> \o <<e>> = Append(<<c>>, e)  BY <1>1, AppendIsConcat
  <2> DEFINE a == Append(<<c>>, e)
             b == <<c, e>>
  <2>2. a \in Seq({c, e}) /\ Len(a) = 2 /\ a[1] = c /\ a[2] = e
    <3>1. Len(<<c>>) = 1 /\ <<c>>[1] = c /\ e \in {c, e}  OBVIOUS
    <3> QED BY <1>1, <3>1, AppendProperties
  <2>3. b \in Seq({c, e}) /\ Len(b) = 2 /\ b[1] = c /\ b[2] = e  OBVIOUS
  <2> HIDE DEF a, b
  <2>4. \A i \in 1 .. Len(a) : a[i] = b[i]
    <3>1. \A i \in 1 .. 2 : i = 1 \/ i = 2  OBVIOUS
    <3> QED BY <2>2, <2>3, <3>1
  <2>5. a = b  BY <2>2, <2>3, <2>4, SeqEqual
  <2> QED BY <2>1, <2>5 DEF a, b
<1> QED BY <1>3, <1>4

\* What FlatCons says of a string.
FlatGoesOn(S, E, s) ==
    /\ Flat(E, s) \in Seq(S)
    /\ s = <<>> => Flat(E, s) = <<>>
    /\ s # <<>> => Flat(E, s) = E[Head(s)] \o Flat(E, Tail(s))
LEMMA FlatIs ==
    ASSUME NEW T, NEW S, NEW E \in [T -> Seq(S)]
    PROVE  \A s \in Seq(T) : FlatGoesOn(S, E, s)
<1> SUFFICES ASSUME NEW s \in Seq(T) PROVE FlatGoesOn(S, E, s)  OBVIOUS
<1>1. Flat(E, s) \in Seq(S)  BY FlatCons
<1>2. s = <<>> => Flat(E, s) = <<>>
  <2>1. s = <<>> => Mapped(E, s) = <<>>  BY MappedCons
  <2> QED BY <2>1, FlattenEmpty DEF Flat
<1>3. s # <<>> => Flat(E, s) = E[Head(s)] \o Flat(E, Tail(s))  BY FlatCons
<1> QED BY <1>1, <1>2, <1>3 DEF FlatGoesOn

\* If what E makes of a character leads from Q of a list to Q of the list with it,
\* then what E makes of a string leads to Q of the list with all of it.
LEMMA RunsFlat ==
    ASSUME NEW T, NEW S, NEW E \in [T -> Seq(S)], NEW F, NEW Q,
           \A w \in Seq(T) : \A c \in T : Runs(F, Q[w], E[c], Q[Append(w, c)])
    PROVE  \A w, s \in Seq(T) : Runs(F, Q[w], Flat(E, s), Q[w \o s])
<1>0. \A s \in Seq(T) : FlatGoesOn(S, E, s)  BY FlatIs, Zenon
<1> DEFINE P(k) == \A w, s \in Seq(T) : Len(s) = k => Runs(F, Q[w], Flat(E, s), Q[w \o s])
<1>1. SUFFICES ASSUME NEW n \in Nat PROVE P(n)
  <2>1. \A s \in Seq(T) : Len(s) \in Nat  BY LenProperties
  <2> HIDE DEF P
  <2>2. \A n \in Nat : P(n)  BY <1>1
  <2> QED BY <2>1, <2>2 DEF P
<1> DEFINE Bad == {k \in 0 .. n : ~P(k)}
<1> HIDE DEF P
<1>2. ASSUME Bad # {} PROVE FALSE
  <2>1. PICK k \in Bad : \A y \in Bad : k <= y  BY <1>2, LeastPosition
  <2>2. k \in 0 .. n /\ ~P(k)  BY <2>1
  <2>3. PICK w \in Seq(T), s \in Seq(T) : Len(s) = k /\ ~Runs(F, Q[w], Flat(E, s), Q[w \o s])
    BY <2>2 DEF P
  <2>4. CASE s = <<>>
    <3>1. Flat(E, s) = <<>>  BY <1>0, <2>4 DEF FlatGoesOn
    <3>2. w \o s = w  BY <2>4, ConcatEmptySeq
    <3> QED BY <2>3, <3>1, <3>2, RunsShort
  <2>5. CASE s # <<>>
    <3> DEFINE c == Head(s)
               t == Tail(s)
               v == Append(w, c)
    <3>1. c \in T /\ t \in Seq(T) /\ Len(t) = k - 1 /\ k # 0 /\ s = <<c>> \o t
      BY <2>3, <2>5, HeadTailProperties, EmptySeq
    <3>2. v \in Seq(T) /\ w \o s = v \o t
      <4>1. v = w \o <<c>>  BY <3>1
      <4>2. <<c>> \in Seq(T)  BY <3>1
      <4> HIDE DEF c, t
      <4>3. w \o (<<c>> \o t) = (w \o <<c>>) \o t  BY <3>1, <4>2, ConcatAssociative
      <4>4. v \in Seq(T)  BY <3>1, AppendProperties
      <4> QED BY <3>1, <4>1, <4>3, <4>4
    <3>3. Flat(E, s) = E[c] \o Flat(E, t)  BY <1>0, <2>5 DEF FlatGoesOn
    <3>4. E[c] \in Seq(S) /\ Flat(E, t) \in Seq(S)
      <4>1. t \in Seq(T)  BY <3>1
      <4>2. E[c] \in Seq(S)  BY <3>1
      <4> HIDE DEF c, t
      <4> QED BY <1>0, <4>1, <4>2 DEF FlatGoesOn
    <3> HIDE DEF c, t, v
    <3>5. Runs(F, Q[w], E[c], Q[v])  BY <3>1 DEF v
    <3>6. P(k - 1)
      <4>1. k - 1 \in 0 .. n /\ ~(k <= k - 1)  BY <2>2, <3>1
      <4> QED BY <2>1, <4>1
    <3>7. Runs(F, Q[v], Flat(E, t), Q[v \o t])  BY <3>1, <3>2, <3>6 DEF P
    <3>8. Runs(F, Q[w], E[c] \o Flat(E, t), Q[v \o t])  BY <3>4, <3>5, <3>7, RunsJoin
    <3> QED BY <2>3, <3>2, <3>3, <3>8
  <2> QED BY <2>4, <2>5
<1>3. n \in 0 .. n  OBVIOUS
<1> QED BY <1>2, <1>3

-----------------------------------------------------------------------------
(* The words of a command line (Escaping).                                 *)

\* Escaping flattens as SequencesExt does.
LEMMA FlattenAlike == \A x : Esc!FlattenSeq(x) = FlattenSeq(x)
BY DEF Esc!FlattenSeq, FlattenSeq

\* The characters the escapes are made of.
Marks == {Esc!BS, Esc!LF, Esc!Blank, "n", "q"}

\* Which of them differ.
LEMMA MarksDiffer ==
    /\ Esc!BS # Esc!LF /\ Esc!BS # Esc!Blank /\ Esc!BS # "n" /\ Esc!BS # "q" /\ Esc!BS # Esc!CR
    /\ Esc!Blank # "n" /\ Esc!Blank # "q" /\ Esc!Blank # Esc!LF /\ Esc!Blank # Esc!CR
    /\ Esc!LF # "n" /\ Esc!LF # "q" /\ Esc!CR # "n" /\ Esc!CR # "q" /\ Esc!CR # Esc!LF
BY DEF Esc!BS, Esc!LF, Esc!Blank, Esc!CR

\* The states of the loop over characters of D, and the loop's step as a function.
Between(W, w, e) == [words |-> W, word |-> w, escaped |-> e]
Splits(D) == [words : Seq(Seq(D)), word : Seq(D), escaped : BOOLEAN]
NewLine == [c \in {"n"} |-> Esc!LF]
Meant(c) == IF c = "n" THEN Esc!LF ELSE c
Stepped(D) == [p \in Splits(D) \X D |-> Esc!SplitStep(p[1], p[2], NewLine)]

\* What a step does with a character after a backslash, with a backslash, a blank, and others.
LEMMA StepEscaped ==
    ASSUME NEW W, NEW w, NEW c
    PROVE  Esc!SplitStep(Between(W, w, TRUE), c, NewLine) = Between(W, Append(w, Meant(c)), FALSE)
<1>1. DOMAIN NewLine = {"n"} /\ NewLine["n"] = Esc!LF  BY DEF NewLine
<1>2. (IF c \in DOMAIN NewLine THEN NewLine[c] ELSE c) = Meant(c)  BY <1>1 DEF Meant
<1> QED BY <1>2 DEF Esc!SplitStep, Between

LEMMA StepBackslash ==
    ASSUME NEW W, NEW w
    PROVE  Esc!SplitStep(Between(W, w, FALSE), Esc!BS, NewLine) = Between(W, w, TRUE)
BY DEF Esc!SplitStep, Between

LEMMA StepBlank ==
    ASSUME NEW W, NEW w
    PROVE  Esc!SplitStep(Between(W, w, FALSE), Esc!Blank, NewLine)
             = Between(Append(W, w), <<>>, FALSE)
BY MarksDiffer DEF Esc!SplitStep, Between

LEMMA StepPlain ==
    ASSUME NEW W, NEW w, NEW c, c # Esc!BS, c # Esc!Blank
    PROVE  Esc!SplitStep(Between(W, w, FALSE), c, NewLine) = Between(W, Append(w, c), FALSE)
BY DEF Esc!SplitStep, Between

\* A state is made of its parts, and a step leads to a state.
LEMMA SplitType ==
    ASSUME NEW D, Marks \subseteq D
    PROVE  /\ \A W \in Seq(Seq(D)), w \in Seq(D), e \in BOOLEAN : Between(W, w, e) \in Splits(D)
           /\ \A x \in Splits(D), c \in D : Esc!SplitStep(x, c, NewLine) \in Splits(D)
           /\ Stepped(D) \in [Splits(D) \X D -> Splits(D)]
           /\ \A x \in Splits(D), c \in D : Stepped(D)[<<x, c>>] = Esc!SplitStep(x, c, NewLine)
<1>1. \A W \in Seq(Seq(D)), w \in Seq(D), e \in BOOLEAN : Between(W, w, e) \in Splits(D)
  BY DEF Between, Splits
<1>2. ASSUME NEW x \in Splits(D), NEW c \in D
      PROVE  Esc!SplitStep(x, c, NewLine) \in Splits(D)
  <2> DEFINE W == x.words
             w == x.word
             k == Meant(c)
  <2>1. W \in Seq(Seq(D)) /\ w \in Seq(D) /\ x.escaped \in BOOLEAN  BY DEF Splits
  <2>2. x = Between(W, w, TRUE) \/ x = Between(W, w, FALSE)  BY DEF Splits, Between
  <2>3. k \in D  BY DEF Marks, Meant
  <2> HIDE DEF W, w, k
  <2>4. /\ Append(w, k) \in Seq(D) /\ Append(w, c) \in Seq(D)
        /\ Append(W, w) \in Seq(Seq(D)) /\ <<>> \in Seq(D)
    BY <2>1, <2>3, AppendProperties, EmptySeq
  <2>5. CASE x = Between(W, w, TRUE)
    <3>1. Esc!SplitStep(Between(W, w, TRUE), c, NewLine) = Between(W, Append(w, k), FALSE)
      BY StepEscaped, Zenon DEF k
    <3> QED BY <1>1, <2>1, <2>4, <2>5, <3>1
  <2>6. CASE x = Between(W, w, FALSE)
    <3> DEFINE y == Esc!SplitStep(Between(W, w, FALSE), c, NewLine)
    <3>1. \/ y = Between(W, w, TRUE)
          \/ y = Between(Append(W, w), <<>>, FALSE)
          \/ y = Between(W, Append(w, c), FALSE)
      <4>1. CASE c = Esc!BS  BY <4>1, StepBackslash
      <4>2. CASE c = Esc!Blank  BY <4>2, StepBlank
      <4>3. CASE c # Esc!BS /\ c # Esc!Blank  BY <4>3, StepPlain
      <4> QED BY <4>1, <4>2, <4>3
    <3> QED BY <1>1, <2>1, <2>4, <2>6, <3>1
  <2> QED BY <2>2, <2>5, <2>6
<1>3. \A p \in Splits(D) \X D : p[1] \in Splits(D) /\ p[2] \in D  OBVIOUS
<1>4. Stepped(D) \in [Splits(D) \X D -> Splits(D)]  BY <1>2, <1>3 DEF Stepped
<1>5. \A x \in Splits(D), c \in D : Stepped(D)[<<x, c>>] = Esc!SplitStep(x, c, NewLine)
  BY DEF Stepped
<1> QED BY <1>1, <1>2, <1>4, <1>5

\* What a run goes through are states.
LEMMA RunStays ==
    ASSUME NEW X, NEW D, NEW F \in [X \X D -> X], NEW q \in X, NEW s \in Seq(D), NEW A,
           IsRun(F, q, s, A)
    PROVE  \A i \in 0 .. Len(s) : A[i] \in X
<1> DEFINE n == Len(s)
           Bad == {m \in 0 .. n : A[m] \notin X}
<1>1. n \in Nat /\ \A i \in 1 .. n : s[i] \in D  BY LenProperties
<1>2. \A i \in 0 .. n : A[i] = IF i = 0 THEN q ELSE F[<<A[i - 1], s[i]>>]  BY DEF IsRun
<1> HIDE DEF n
<1>3. ASSUME Bad # {} PROVE FALSE
  <2>1. PICK m \in Bad : \A y \in Bad : m <= y  BY <1>1, <1>3, LeastPosition
  <2>2. m \in 0 .. n /\ A[m] \notin X  BY <2>1
  <2>3. m # 0 => m - 1 \in 0 .. n /\ ~(m <= m - 1) /\ m \in 1 .. n  BY <1>1, <2>2
  <2>4. m # 0 => A[m - 1] \in X /\ s[m] \in D  BY <1>1, <2>1, <2>3
  <2>5. m # 0 => A[m] = F[<<A[m - 1], s[m]>>]  BY <1>2, <2>2
  <2>6. m = 0 => A[m] = q  BY <1>2, <2>2
  <2>7. m # 0 => A[m] \in X  BY <2>4, <2>5
  <2> QED BY <2>2, <2>6, <2>7
<1> QED BY <1>3 DEF n

\* Where args_new is when its loop over s ends, if a run over s ends in r.
LEMMA SplitEnds ==
    ASSUME NEW D, Marks \subseteq D, NEW s \in Seq(D), NEW r, NEW After,
           Runs(Stepped(D), Between(<<>>, <<>>, FALSE), s, r),
           After = CHOOSE A : A = [i \in 0 .. Len(s) |->
                      IF i = 0 THEN Between(<<>>, <<>>, FALSE)
                      ELSE Esc!SplitStep(A[i - 1], s[i], NewLine)]
    PROVE  After[Len(s)] = r
<1> DEFINE n == Len(s)
           q == Between(<<>>, <<>>, FALSE)
           F == Stepped(D)
           X == Splits(D)
           IsSplit(A) == A = [i \in 0 .. n |-> IF i = 0 THEN q
                                               ELSE Esc!SplitStep(A[i - 1], s[i], NewLine)]
<1>1. n \in Nat /\ \A i \in 1 .. n : s[i] \in D  BY LenProperties
<1>2. F \in [X \X D -> X] /\ \A x \in X, c \in D : F[<<x, c>>] = Esc!SplitStep(x, c, NewLine)
  BY SplitType
<1>2a. \A x \in X, c \in D : Esc!SplitStep(x, c, NewLine) \in X  BY SplitType
<1>3. q \in X
  <2>1. <<>> \in Seq(D) /\ <<>> \in Seq(Seq(D)) /\ FALSE \in BOOLEAN  BY EmptySeq
  <2> QED BY <2>1, SplitType
<1>r. Runs(F, q, s, r) /\ After = CHOOSE A : IsSplit(A)  OBVIOUS
<1> HIDE DEF F, X, q
<1>4. PICK A : IsLoop(F, q, s, A)  BY RunExists
<1>5. IsRun(F, q, s, A)  BY <1>4 DEF IsLoop, IsRun
<1>6. \A i \in 0 .. n : A[i] \in X  BY <1>2, <1>3, <1>5, RunStays
<1> HIDE DEF n
<1>7. A = [i \in 0 .. n |-> IF i = 0 THEN q ELSE F[<<A[i - 1], s[i]>>]]
  BY <1>4 DEF IsLoop, n
<1>8. \A i \in 0 .. n : i # 0 => F[<<A[i - 1], s[i]>>] = Esc!SplitStep(A[i - 1], s[i], NewLine)
  <2> TAKE i \in 0 .. n
  <2>1. i # 0 => i - 1 \in 0 .. n /\ i \in 1 .. n  BY <1>1
  <2> QED BY <1>1, <1>2, <1>6, <2>1
<1>9. IsSplit(A)  BY <1>7, <1>8
<1>10. IsSplit(After)
  <2> HIDE DEF IsSplit
  <2> QED BY <1>9, <1>r
<1>11. \A i \in 0 .. n : After[i] = IF i = 0 THEN q ELSE Esc!SplitStep(After[i - 1], s[i], NewLine)
  BY <1>10
<1> DEFINE Bad == {m \in 0 .. n : After[m] \notin X}
<1>12. ASSUME Bad # {} PROVE FALSE
  <2>1. PICK m \in Bad : \A y \in Bad : m <= y  BY <1>1, <1>12, LeastPosition
  <2>2. m \in 0 .. n /\ After[m] \notin X  BY <2>1
  <2>3. m # 0 => m - 1 \in 0 .. n /\ ~(m <= m - 1) /\ m \in 1 .. n  BY <1>1, <2>2
  <2>4. m # 0 => After[m - 1] \in X /\ s[m] \in D  BY <1>1, <2>1, <2>3
  <2>5. m # 0 => After[m] \in X  BY <1>2a, <1>11, <2>2, <2>4
  <2>6. m = 0 => After[m] = q  BY <1>11, <2>2
  <2> QED BY <1>3, <2>2, <2>5, <2>6
<1>13. IsRun(F, q, s, After)
  <2> SUFFICES ASSUME NEW i \in 0 .. n
               PROVE  After[i] = IF i = 0 THEN q ELSE F[<<After[i - 1], s[i]>>]
    BY DEF IsRun, n
  <2>1. i # 0 => i - 1 \in 0 .. n /\ i \in 1 .. n  BY <1>1
  <2>2. i # 0 => After[i - 1] \in X /\ s[i] \in D  BY <1>1, <1>12, <2>1
  <2>3. i # 0 => F[<<After[i - 1], s[i]>>] = Esc!SplitStep(After[i - 1], s[i], NewLine)
    BY <1>2, <2>2
  <2> HIDE DEF F, q
  <2> QED BY <1>11, <2>3
<1>14. PICK B : IsRun(F, q, s, B) /\ B[n] = r  BY <1>r DEF Runs, n
<1> QED BY <1>13, <1>14, RunsOnce DEF n

\* Escaped characters, and the runs over them.
Escapes(D) == [c \in D |-> Esc!Escaped(c)]
LEMMA EscapedRuns ==
    ASSUME NEW D, Marks \subseteq D, NEW W \in Seq(Seq(D))
    PROVE  /\ Escapes(D) \in [D -> Seq(D \ {Esc!LF})]
           /\ \A w \in Seq(D), c \in D :
                Runs(Stepped(D), Between(W, w, FALSE), Escapes(D)[c], Between(W, Append(w, c), FALSE))
<1> DEFINE N == D \ {Esc!LF}
           F == Stepped(D)
<1>0. /\ Esc!BS \in N /\ Esc!Blank \in N /\ "n" \in N /\ Esc!LF \in D /\ Esc!BS \in D /\ "n" \in D
      /\ Esc!Blank \in D
  BY MarksDiffer DEF Marks
<1>1. ASSUME NEW c \in D PROVE Esc!Escaped(c) \in Seq(N)
  <2> HIDE DEF N
  <2>1. \A x, y \in N : <<x, y>> \in Seq(N) /\ <<x>> \in Seq(N)  OBVIOUS
  <2>2. c = Esc!LF \/ c \in N  BY DEF N
  <2> QED BY <1>0, <2>1, <2>2, MarksDiffer DEF Esc!Escaped
<1>2. Escapes(D) \in [D -> Seq(N)]
  <2> HIDE DEF N
  <2> QED BY <1>1 DEF Escapes
<1>3. ASSUME NEW w \in Seq(D), NEW c \in D
      PROVE  Runs(F, Between(W, w, FALSE), Escapes(D)[c], Between(W, Append(w, c), FALSE))
  <2> DEFINE a == Between(W, w, FALSE)
             b == Between(W, w, TRUE)
             z == Between(W, Append(w, c), FALSE)
  <2>1. a \in Splits(D) /\ b \in Splits(D)
    <3>1. TRUE \in BOOLEAN /\ FALSE \in BOOLEAN  OBVIOUS
    <3> QED BY <3>1, SplitType
  <2>2. \A x \in Splits(D), k \in D : F[<<x, k>>] = Esc!SplitStep(x, k, NewLine)
    BY SplitType, Zenon
  <2>3. Esc!SplitStep(a, Esc!BS, NewLine) = b  BY StepBackslash, Zenon
  <2>4. \A k \in D : Esc!SplitStep(b, k, NewLine) = Between(W, Append(w, Meant(k)), FALSE)
    BY StepEscaped, Zenon
  <2>5. c \notin {Esc!BS, Esc!Blank} => Esc!SplitStep(a, c, NewLine) = z  BY StepPlain, Zenon
  <2>6. Escapes(D)[c] = Esc!Escaped(c)  BY DEF Escapes
  <2> HIDE DEF a, b, F
  <2>7. F[<<a, Esc!BS>>] = b  BY <1>0, <2>1, <2>2, <2>3
  <2>8. \A k \in D : Meant(k) = c => F[<<b, k>>] = z  BY <2>1, <2>2, <2>4
  <2>9. ASSUME NEW k \in D, Meant(k) = c PROVE Runs(F, a, <<Esc!BS, k>>, z)
    <3>1. Runs(F, a, <<Esc!BS, k>>, F[<<F[<<a, Esc!BS>>], k>>])  BY RunsPair
    <3> QED BY <2>7, <2>8, <2>9, <3>1
  <2>10. CASE c \in {Esc!BS, Esc!Blank}
    <3>1. Meant(c) = c  BY <2>10, MarksDiffer DEF Meant
    <3>2. Esc!Escaped(c) = <<Esc!BS, c>>  BY <2>10 DEF Esc!Escaped
    <3> QED BY <2>6, <2>9, <3>1, <3>2 DEF a
  <2>11. CASE c = Esc!LF
    <3>1. Meant("n") = c  BY <2>11 DEF Meant
    <3>2. Esc!Escaped(c) = <<Esc!BS, "n">>  BY <2>11, MarksDiffer DEF Esc!Escaped
    <3> QED BY <1>0, <2>6, <2>9, <3>1, <3>2 DEF a
  <2>12. CASE c \notin {Esc!BS, Esc!Blank, Esc!LF}
    <3>1. Esc!Escaped(c) = <<c>>  BY <2>12 DEF Esc!Escaped
    <3>2. F[<<a, c>>] = z  BY <2>1, <2>2, <2>5, <2>12
    <3>3. Runs(F, a, <<c>>, F[<<a, c>>])  BY RunsShort
    <3> QED BY <2>6, <3>1, <3>2, <3>3 DEF a
  <2> QED BY <2>10, <2>11, <2>12
<1> QED BY <1>2, <1>3

\* The run over an escaped word.
LEMMA WordRuns ==
    ASSUME NEW D, Marks \subseteq D, NEW W \in Seq(Seq(D)), NEW s \in Seq(D)
    PROVE  /\ Esc!ArgEscape(s) \in Seq(D \ {Esc!LF})
           /\ Runs(Stepped(D), Between(W, <<>>, FALSE), Esc!ArgEscape(s), Between(W, s, FALSE))
<1> DEFINE N == D \ {Esc!LF}
           E == Escapes(D)
           Q == [w \in Seq(D) |-> Between(W, w, FALSE)]
<1>1. E \in [D -> Seq(N)]  BY EscapedRuns
<1>2. \A w \in Seq(D), c \in D :
        Runs(Stepped(D), Between(W, w, FALSE), E[c], Between(W, Append(w, c), FALSE))
  BY EscapedRuns
<1>3. Esc!ArgEscape(s) = Flat(E, s)
  <2>1. \A i \in DOMAIN s : s[i] \in D  OBVIOUS
  <2>2. [i \in DOMAIN s |-> Esc!Escaped(s[i])] = Mapped(E, s)  BY <2>1 DEF Mapped, Escapes
  <2> QED BY <2>2, FlattenAlike DEF Esc!ArgEscape, Flat
<1>4. \A w \in Seq(D) : Q[w] = Between(W, w, FALSE)  OBVIOUS
<1> HIDE DEF E, N, Q
<1>5. \A w \in Seq(D) : \A c \in D : Runs(Stepped(D), Q[w], E[c], Q[Append(w, c)])
  <2> TAKE w \in Seq(D)
  <2> TAKE c \in D
  <2>1. Append(w, c) \in Seq(D)  BY AppendProperties
  <2> QED BY <1>2, <1>4, <2>1
<1>6. \A w, t \in Seq(D) : Runs(Stepped(D), Q[w], Flat(E, t), Q[w \o t])
  BY <1>1, <1>5, RunsFlat
<1>7. <<>> \in Seq(D) /\ <<>> \o s = s  BY EmptySeq, ConcatEmptySeq
<1>8. Runs(Stepped(D), Q[<<>>], Flat(E, s), Q[s])  BY <1>6, <1>7
<1>9. Flat(E, s) \in Seq(N)
  <2>1. FlatGoesOn(N, E, s)  BY <1>1, FlatIs
  <2> QED BY <2>1 DEF FlatGoesOn
<1> QED BY <1>3, <1>4, <1>7, <1>8, <1>9 DEF N

\* What an appended member leaves in front.
LEMMA FrontOfAppend ==
    ASSUME NEW T, NEW G \in Seq(T), NEW a \in T
    PROVE  Front(Append(G, a)) = G /\ Last(Append(G, a)) = a
<1> DEFINE n == Len(G)
           H == Append(G, a)
           f == SubSeq(H, 1, n)
<1>1. n \in Nat  BY LenProperties
<1>2. H \in Seq(T) /\ Len(H) = n + 1 /\ H[n + 1] = a /\ \A i \in 1 .. n : H[i] = G[i]
  BY AppendProperties
<1>3. Front(H) = f /\ Last(H) = a
  <2> HIDE DEF H, n
  <2>1. (n + 1) - 1 = n  BY <1>1
  <2> QED BY <1>2, <2>1 DEF Front, Last
<1> HIDE DEF H, n
<1>4. f \in Seq(T) /\ Len(f) = n /\ \A i \in 1 .. n : f[i] = H[i]
  <2>1. \A i \in 1 .. n : H[i] \in T  BY <1>1, <1>2, LenProperties
  <2>2. 1 \in Int /\ n \in Int  BY <1>1
  <2>3. /\ f \in Seq(T) /\ Len(f) = IF 1 <= n THEN n - 1 + 1 ELSE 0
        /\ \A i \in 1 .. n - 1 + 1 : f[i] = H[1 + i - 1]
    BY <2>1, <2>2, SubSeqProperties
  <2> HIDE DEF f
  <2>4. n - 1 + 1 = n /\ \A i \in 1 .. n : 1 + i - 1 = i  BY <1>1
  <2>5. Len(f) = n  BY <1>1, <2>3
  <2> QED BY <2>3, <2>4, <2>5
<1> HIDE DEF f
<1>5. f = G
  <2>1. Len(G) = n  BY DEF n
  <2> QED BY <1>2, <1>4, <2>1, SeqEqual
<1> QED BY <1>3, <1>5 DEF H

\* The words of a command so far, the last of them still in hand.
Parts(L) == <<<<"q">>>> \o L
InHand(L) == Between(Front(Parts(L)), Last(Parts(L)), FALSE)

\* One more word.
LEMMA WordsGrow ==
    ASSUME NEW T, <<"q">> \in T, NEW L \in Seq(T)
    PROVE  /\ Parts(L) \in Seq(T) /\ Front(Parts(L)) \in Seq(T) /\ Last(Parts(L)) \in T
           /\ Append(Front(Parts(L)), Last(Parts(L))) = Parts(L)
           /\ \A a \in T : /\ Append(L, a) \in Seq(T)
                           /\ Front(Parts(Append(L, a))) = Parts(L)
                           /\ Last(Parts(Append(L, a))) = a
<1> DEFINE one == <<<<"q">>>>
           G == one \o L
<1>1. one \in Seq(T) /\ one # <<>>  BY EmptySeq
<1> HIDE DEF one
<1>2. G \in Seq(T) /\ G # <<>>
  <2>1. G \in Seq(T) /\ Len(G) = Len(one) + Len(L)  BY <1>1, ConcatProperties
  <2>2. Len(one) \in Nat \ {0} /\ Len(L) \in Nat  BY <1>1, EmptySeq, LenProperties
  <2>3. Len(G) # 0  BY <2>1, <2>2
  <2> QED BY <2>1, <2>3, EmptySeq
<1>3. Parts(L) = G  BY DEF Parts, one
<1> HIDE DEF G
<1>4. Front(G) \in Seq(T) /\ Last(G) \in T /\ Append(Front(G), Last(G)) = G
  <2> DEFINE n == Len(G)
  <2>1. n \in Nat /\ n # 0 /\ \A i \in 1 .. n : G[i] \in T  BY <1>2, EmptySeq, LenProperties
  <2>2. Front(G) = SubSeq(G, 1, n - 1) /\ Last(G) = G[n]  BY DEF Front, Last
  <2>3. SubSeq(G, 1, n - 1) \in Seq(T)
    <3> HIDE DEF n
    <3>1. \A i \in 1 .. n - 1 : G[i] \in T  BY <2>1
    <3>2. n - 1 \in Int /\ 1 \in Int  BY <2>1
    <3> QED BY <3>1, <3>2, SubSeqProperties
  <2>4. G = SubSeq(G, 1, n - 1) \o <<G[n]>>
    <3>1. SubSeq(G, 1, n) = G  BY <1>2, SubSeqFull
    <3>2. 1 \in 1 .. Len(G) /\ n \in 1 .. Len(G)  BY <2>1
    <3>3. SubSeq(G, 1, n) = SubSeq(G, 1, n - 1) \o <<G[n]>>
      BY <1>2, <3>2, SubSeqRecursiveSecond
    <3> QED BY <3>1, <3>3, Zenon
  <2> HIDE DEF n
  <2>5. G[n] \in T  BY <2>1
  <2> QED BY <2>2, <2>3, <2>4, <2>5, AppendIsConcat
<1>5. ASSUME NEW a \in T
      PROVE  /\ Append(L, a) \in Seq(T)
             /\ Front(Parts(Append(L, a))) = Parts(L)
             /\ Last(Parts(Append(L, a))) = a
  <2>1. Append(L, a) \in Seq(T) /\ Append(L, a) = L \o <<a>>  BY AppendProperties, AppendIsConcat
  <2>2. <<a>> \in Seq(T)  OBVIOUS
  <2>3. Parts(Append(L, a)) = Append(G, a)
    <3>1. one \o (L \o <<a>>) = (one \o L) \o <<a>>  BY <1>1, <2>2, ConcatAssociative
    <3>2. G \o <<a>> = Append(G, a)  BY <1>2, AppendIsConcat
    <3> QED BY <2>1, <3>1, <3>2 DEF Parts, one, G
  <2>4. Front(Append(G, a)) = G /\ Last(Append(G, a)) = a
    BY <1>2, FrontOfAppend
  <2> QED BY <1>3, <2>1, <2>3, <2>4
<1> QED BY <1>2, <1>3, <1>4, <1>5

\* The words of a command, as they are on the line and as args_new reads them.
OnLine(D) == [a \in Seq(D) |-> <<Esc!Blank>> \o Esc!ArgEscape(a)]
Typed(D, args) == <<"q">> \o Flat(OnLine(D), args)

\* A word on the line ends the one in hand and leaves itself in hand.
LEMMA LineRuns ==
    ASSUME NEW D, Marks \subseteq D, NEW args \in Seq(Seq(D))
    PROVE  /\ OnLine(D) \in [Seq(D) -> Seq(D \ {Esc!LF})]
           /\ Typed(D, args) \in Seq(D \ {Esc!LF})
           /\ Runs(Stepped(D), Between(<<>>, <<>>, FALSE), Typed(D, args), InHand(args))
<1> DEFINE N == D \ {Esc!LF}
           F == Stepped(D)
           T == Seq(D)
           E == OnLine(D)
           Q == [L \in Seq(T) |-> InHand(L)]
           start == Between(<<>>, <<>>, FALSE)
<1>0. Esc!Blank \in N /\ "q" \in N /\ Esc!Blank \in D /\ "q" \in D  BY MarksDiffer DEF Marks
<1>1. <<>> \in T /\ <<"q">> \in T /\ <<>> \in Seq(T) /\ <<"q">> \in Seq(N) /\ <<Esc!Blank>> \in Seq(N)
  <2> HIDE DEF N
  <2> QED BY <1>0, EmptySeq
<1>2. Seq(N) \subseteq T
  <2>1. N \subseteq D  OBVIOUS
  <2> HIDE DEF N
  <2> QED BY <2>1, SeqWidens
<1>3. \A x \in Splits(D), c \in D : F[<<x, c>>] = Esc!SplitStep(x, c, NewLine)
  BY SplitType, Zenon
<1>3a. \A W \in Seq(T), w \in T : Between(W, w, FALSE) \in Splits(D)
  <2>1. FALSE \in BOOLEAN  OBVIOUS
  <2> QED BY <2>1, SplitType
<1> HIDE DEF N, F
<1>4. ASSUME NEW a \in T PROVE E[a] \in Seq(N) /\ E[a] = <<Esc!Blank>> \o Esc!ArgEscape(a)
  <2>1. E[a] = <<Esc!Blank>> \o Esc!ArgEscape(a)  BY DEF OnLine
  <2>2. Esc!ArgEscape(a) \in Seq(N)  BY <1>1, WordRuns DEF N
  <2> QED BY <1>1, <2>1, <2>2, ConcatProperties
<1>5. E \in [T -> Seq(N)]
  <2> HIDE DEF T
  <2>1. E = [a \in T |-> <<Esc!Blank>> \o Esc!ArgEscape(a)]  BY DEF OnLine, T
  <2> QED BY <1>4, <2>1
<1> HIDE DEF E
<1>6. \A L \in Seq(T) : Q[L] = InHand(L)  OBVIOUS
<1> HIDE DEF Q
<1>7. ASSUME NEW L \in Seq(T), NEW a \in T PROVE Runs(F, Q[L], E[a], Q[Append(L, a)])
  <2> DEFINE W == Front(Parts(L))
             w == Last(Parts(L))
  <2>1. /\ W \in Seq(T) /\ w \in T /\ Append(W, w) \in Seq(T) /\ Append(L, a) \in Seq(T)
        /\ Front(Parts(Append(L, a))) = Append(W, w) /\ Last(Parts(Append(L, a))) = a
    <3> HIDE DEF T
    <3> QED BY <1>1, WordsGrow
  <2>2. Q[L] = Between(W, w, FALSE)  BY <1>6 DEF InHand
  <2>3. Q[Append(L, a)] = Between(Append(W, w), a, FALSE)  BY <1>6, <2>1 DEF InHand
  <2> HIDE DEF W, w
  <2>4. F[<<Between(W, w, FALSE), Esc!Blank>>] = Between(Append(W, w), <<>>, FALSE)
    <3>1. Between(W, w, FALSE) \in Splits(D)  BY <1>3a, <2>1
    <3>2. F[<<Between(W, w, FALSE), Esc!Blank>>] = Esc!SplitStep(Between(W, w, FALSE), Esc!Blank, NewLine)
      BY <1>0, <1>3, <3>1
    <3> QED BY <3>2, StepBlank
  <2>5. Runs(F, Between(W, w, FALSE), <<Esc!Blank>>, Between(Append(W, w), <<>>, FALSE))
    <3>1. Runs(F, Between(W, w, FALSE), <<Esc!Blank>>, F[<<Between(W, w, FALSE), Esc!Blank>>])
      BY RunsShort
    <3> QED BY <2>4, <3>1
  <2>6. /\ Runs(F, Between(Append(W, w), <<>>, FALSE), Esc!ArgEscape(a), Between(Append(W, w), a, FALSE))
        /\ Esc!ArgEscape(a) \in Seq(N)
    BY <2>1, WordRuns DEF F, N
  <2>7. Runs(F, Between(W, w, FALSE), <<Esc!Blank>> \o Esc!ArgEscape(a), Between(Append(W, w), a, FALSE))
    BY <1>1, <2>5, <2>6, RunsJoin
  <2> QED BY <1>4, <2>2, <2>3, <2>7
<1>8. \A L, t \in Seq(T) : Runs(F, Q[L], Flat(E, t), Q[L \o t])
  <2> HIDE DEF T
  <2>1. \A L \in Seq(T) : \A a \in T : Runs(F, Q[L], E[a], Q[Append(L, a)])  BY <1>7
  <2> QED BY <1>5, <2>1, RunsFlat
<1>9. Flat(E, args) \in Seq(N)
  <2>1. FlatGoesOn(N, E, args)  BY <1>5, FlatIs
  <2> QED BY <2>1 DEF FlatGoesOn
<1>10. Typed(D, args) = <<"q">> \o Flat(E, args) /\ Typed(D, args) \in Seq(N)
  BY <1>1, <1>9, ConcatProperties DEF Typed, E
<1>11. Q[<<>>] = Between(<<>>, <<"q">>, FALSE)
  <2>1. Parts(<<>>) = <<<<"q">>>>
    <3>1. <<<<"q">>>> \in Seq(T)  BY <1>1
    <3> QED BY <3>1, ConcatEmptySeq DEF Parts
  <2>2. \A x : Append(<<>>, x) = <<x>>  OBVIOUS
  <2>3. Front(Parts(<<>>)) = <<>> /\ Last(Parts(<<>>)) = <<"q">>
    <3> DEFINE a == <<"q">>
               G == <<>>
    <3> HIDE DEF T
    <3>1. G \in Seq(T) /\ a \in T /\ Append(G, a) = Parts(<<>>)  BY <1>1, <2>1, <2>2
    <3> HIDE DEF a, G
    <3>2. Front(Append(G, a)) = G /\ Last(Append(G, a)) = a  BY <3>1, FrontOfAppend
    <3> QED BY <3>1, <3>2 DEF a, G
  <2> QED BY <1>1, <1>6, <2>3 DEF InHand
<1>12. Runs(F, start, <<"q">>, Q[<<>>])
  <2>1. start \in Splits(D)  BY <1>1, <1>3a
  <2>2. Esc!SplitStep(start, "q", NewLine) = Between(<<>>, Append(<<>>, "q"), FALSE)
    BY MarksDiffer, StepPlain
  <2>3. Append(<<>>, "q") = <<"q">>  OBVIOUS
  <2>4. F[<<start, "q">>] = Q[<<>>]  BY <1>0, <1>3, <1>11, <2>1, <2>2, <2>3
  <2>5. Runs(F, start, <<"q">>, F[<<start, "q">>])  BY RunsShort
  <2> QED BY <2>4, <2>5
<1>13. Runs(F, Q[<<>>], Flat(E, args), Q[args])
  <2>1. <<>> \o args = args  BY ConcatEmptySeq
  <2> QED BY <1>1, <1>8, <2>1
<1>14. Runs(F, start, <<"q">> \o Flat(E, args), Q[args])
  BY <1>1, <1>9, <1>12, <1>13, RunsJoin
<1> QED BY <1>5, <1>6, <1>10, <1>14 DEF F, N, E

\* The characters of s one by one are s.
LEMMA OneByOne ==
    ASSUME NEW N, NEW s \in Seq(N)
    PROVE  FlattenSeq([i \in DOMAIN s |-> <<s[i]>>]) = s
<1> DEFINE E == [c \in N |-> <<c>>]
           P(t) == Flat(E, t) = t
           Bad == {k \in 0 .. Len(s) : \E t \in Seq(N) : Len(t) = k /\ ~P(t)}
<1>1. E \in [N -> Seq(N)]  OBVIOUS
<1>2. \A t \in Seq(N) : FlatGoesOn(N, E, t)  BY <1>1, FlatIs, Zenon
<1>3. \A c \in N : E[c] = <<c>>  OBVIOUS
<1>4. Len(s) \in Nat  BY LenProperties
<1> HIDE DEF E
<1>5. ASSUME Bad # {} PROVE FALSE
  <2>1. PICK k \in Bad : \A y \in Bad : k <= y  BY <1>4, <1>5, LeastPosition
  <2>2. PICK t \in Seq(N) : Len(t) = k /\ ~P(t)  BY <2>1
  <2>3. k \in 0 .. Len(s)  BY <2>1
  <2>4. CASE t = <<>>
    <3>1. Flat(E, t) = <<>>  BY <1>2, <2>4 DEF FlatGoesOn
    <3> QED BY <2>2, <2>4, <3>1
  <2>5. CASE t # <<>>
    <3> DEFINE c == Head(t)
               u == Tail(t)
    <3>1. c \in N /\ u \in Seq(N) /\ Len(u) = k - 1 /\ k # 0 /\ t = <<c>> \o u
      BY <2>2, <2>5, HeadTailProperties, EmptySeq
    <3>2. Flat(E, t) = E[c] \o Flat(E, u)  BY <1>2, <2>5 DEF FlatGoesOn
    <3>3. k - 1 \in 0 .. Len(s) /\ ~(k <= k - 1)  BY <1>4, <2>3, <3>1
    <3> HIDE DEF c, u
    <3>4. P(u)  BY <2>1, <3>1, <3>3
    <3>5. E[c] = <<c>>  BY <1>3, <3>1
    <3> QED BY <2>2, <3>1, <3>2, <3>4, <3>5
  <2> QED BY <2>4, <2>5
<1>6. P(s)  BY <1>4, <1>5
<1>7. \A i \in DOMAIN s : s[i] \in N  OBVIOUS
<1>8. [i \in DOMAIN s |-> <<s[i]>>] = Mapped(E, s)  BY <1>3, <1>7 DEF Mapped
<1> QED BY <1>6, <1>8 DEF Flat

\* A line without carriage returns and line feeds is read up to its line feed, as it is.
LEMMA LineIsRead ==
    ASSUME NEW N, Esc!CR \notin N, Esc!LF \notin N, NEW s \in Seq(N)
    PROVE  Esc!ReadLine(s \o <<Esc!LF>>) = s
<1> DEFINE M == N \cup {Esc!LF}
           n == Len(s)
           u == s \o <<Esc!LF>>
           IsEnd(k) == u[k] = Esc!LF /\ \A j \in 1 .. k - 1 : u[j] # Esc!LF
           e == CHOOSE k \in DOMAIN u : IsEnd(k)
           t == SubSeq(u, 1, e - 1)
<1>1. n \in Nat /\ \A i \in 1 .. n : s[i] \in N  BY LenProperties
<1>2. s \in Seq(M) /\ <<Esc!LF>> \in Seq(M)
  <2>1. s \in [1 .. n -> M]  BY <1>1, LenProperties
  <2>2. s \in Seq(M)  BY <1>1, <2>1, SeqDef
  <2> QED BY <2>2
<1>3. /\ u \in Seq(M) /\ Len(u) = n + 1 /\ DOMAIN u = 1 .. n + 1
      /\ \A i \in 1 .. n : u[i] = s[i]
      /\ u[n + 1] = Esc!LF
  <2>1. Len(<<Esc!LF>>) = 1 /\ <<Esc!LF>>[1] = Esc!LF  OBVIOUS
  <2>2. /\ u \in Seq(M) /\ Len(u) = n + 1
        /\ \A i \in 1 .. n + 1 : u[i] = IF i <= n THEN s[i] ELSE <<Esc!LF>>[i - n]
    BY <1>2, <2>1, ConcatProperties
  <2> HIDE DEF u, n
  <2>3. n + 1 \in 1 .. n + 1 /\ ~(n + 1 <= n) /\ (n + 1) - n = 1  BY <1>1
  <2>4. DOMAIN u = 1 .. n + 1  BY <2>2, LenProperties
  <2>5. \A i \in 1 .. n : i \in 1 .. n + 1 /\ i <= n  BY <1>1
  <2> QED BY <2>1, <2>2, <2>3, <2>4, <2>5
<1> HIDE DEF u, n
<1>4. e = n + 1
  <2>1. \A i \in 1 .. n : u[i] # Esc!LF  BY <1>1, <1>3
  <2>2. n + 1 \in DOMAIN u /\ IsEnd(n + 1)
    <3>1. (n + 1) - 1 = n /\ n + 1 \in 1 .. n + 1  BY <1>1
    <3> QED BY <1>3, <2>1, <3>1
  <2>3. e \in DOMAIN u /\ IsEnd(e)
    <3> HIDE DEF IsEnd
    <3> QED BY <2>2
  <2> HIDE DEF e
  <2>4. e \in 1 .. n + 1 /\ u[e] = Esc!LF  BY <1>3, <2>3
  <2>5. e \notin 1 .. n  BY <2>1, <2>4
  <2> QED BY <1>1, <2>4, <2>5
<1>5. t = SubSeq(u, 1, n)
  <2> HIDE DEF e
  <2>1. e - 1 = n  BY <1>1, <1>4
  <2> QED BY <2>1
<1>6. t = s
  <2>1. \A i \in 1 .. n : u[i] \in N  BY <1>1, <1>3
  <2>2. /\ SubSeq(u, 1, n) \in Seq(N) /\ Len(SubSeq(u, 1, n)) = IF 1 <= n THEN n - 1 + 1 ELSE 0
        /\ \A i \in 1 .. n - 1 + 1 : SubSeq(u, 1, n)[i] = u[1 + i - 1]
    BY <1>1, <2>1, SubSeqProperties
  <2> DEFINE v == SubSeq(u, 1, n)
  <2> HIDE DEF v
  <2>3. Len(v) = n /\ v \in Seq(N)  BY <1>1, <2>2 DEF v
  <2>4. \A i \in 1 .. n : i \in 1 .. n - 1 + 1 /\ 1 + i - 1 = i  BY <1>1
  <2>5. \A i \in 1 .. n : v[i] = s[i]  BY <1>3, <2>2, <2>4 DEF v
  <2>6. v = s
    <3>1. Len(s) = n  BY DEF n
    <3> QED BY <2>3, <2>5, <3>1, SeqEqual
  <2> QED BY <1>5, <2>6 DEF v
<1>7. Esc!ReadLine(u) = FlattenSeq([i \in DOMAIN t |-> IF t[i] = Esc!CR THEN <<>> ELSE <<t[i]>>])
  BY FlattenAlike DEF Esc!ReadLine
<1>8. [i \in DOMAIN s |-> IF s[i] = Esc!CR THEN <<>> ELSE <<s[i]>>] = [i \in DOMAIN s |-> <<s[i]>>]
  <2>1. \A i \in DOMAIN s : s[i] # Esc!CR  BY <1>1 DEF n
  <2> QED BY <2>1
<1> HIDE DEF t
<1>9. Esc!ReadLine(u) = FlattenSeq([i \in DOMAIN s |-> <<s[i]>>])  BY <1>6, <1>7, <1>8
<1> QED BY <1>9, OneByOne DEF u

\* Every list of arguments without carriage returns arrives at the server as it was
\* given: arg_escape and make_command against net_read_line and args_new.  (A line of more
\* than 10240 characters ends the session; net_read_line takes no more.)
THEOREM ArgumentsSurvive ==
    ASSUME NEW C, Esc!CR \notin C
    PROVE  \A args \in Seq(Seq(C)) : Esc!ArgumentsArrive(args)
<1> DEFINE D == C \cup Marks
           N == D \ {Esc!LF}
           start == Between(<<>>, <<>>, FALSE)
<1> SUFFICES ASSUME NEW args \in Seq(Seq(C)) PROVE Esc!ArgumentsArrive(args)  OBVIOUS
<1>1. Marks \subseteq D /\ Esc!CR \notin D /\ "q" \in D
  <2>1. Esc!CR \notin Marks  BY MarksDiffer DEF Marks
  <2> QED BY <2>1 DEF Marks
<1>2. args \in Seq(Seq(D)) /\ <<"q">> \in Seq(D)
  <2>1. C \subseteq D  OBVIOUS
  <2>2. <<"q">> \in Seq(D)  BY <1>1
  <2> HIDE DEF D
  <2> DEFINE S == Seq(C)
             T == Seq(D)
  <2>3. S \subseteq T  BY <2>1, SeqWidens
  <2>4. args \in Seq(S)  OBVIOUS
  <2> HIDE DEF S, T
  <2>5. args \in Seq(T)  BY <2>3, <2>4, SeqWidens
  <2> QED BY <2>2, <2>5 DEF T
<1> DEFINE line == Typed(D, args)
<1>3. OnLine(D) \in [Seq(D) -> Seq(N)] /\ line \in Seq(N)
  <2> HIDE DEF D
  <2> QED BY <1>1, <1>2, LineRuns
<1>4. Runs(Stepped(D), start, line, InHand(args))
  <2> HIDE DEF D
  <2> QED BY <1>1, <1>2, LineRuns
<1>5. Esc!CommandLine(args) = line \o <<Esc!LF>>
  <2>1. \A i \in DOMAIN args : args[i] \in Seq(D)  BY <1>2
  <2> HIDE DEF D
  <2>2. [i \in DOMAIN args |-> <<Esc!Blank>> \o Esc!ArgEscape(args[i])] = Mapped(OnLine(D), args)
    BY <2>1 DEF Mapped, OnLine
  <2> QED BY <2>2, FlattenAlike DEF Esc!CommandLine, Typed, Flat
<1>6. Esc!ReadLine(Esc!CommandLine(args)) = line
  <2>1. Esc!CR \notin N /\ Esc!LF \notin N  BY <1>1
  <2> HIDE DEF N, line
  <2> QED BY <1>3, <1>5, <2>1, LineIsRead
<1> HIDE DEF D, line
<1>7. line \in Seq(D)
  <2>1. N \subseteq D  OBVIOUS
  <2> QED BY <1>3, <2>1, SeqWidens
<1> DEFINE After == CHOOSE A : A = [i \in 0 .. Len(line) |->
                       IF i = 0 THEN start ELSE Esc!SplitStep(A[i - 1], line[i], NewLine)]
<1>8. After[Len(line)] = InHand(args)  BY <1>1, <1>4, <1>7, SplitEnds
<1>9. Esc!ArgsNew(line) = IF After[Len(line)].escaped THEN Esc!Beyond
                          ELSE Append(After[Len(line)].words, After[Len(line)].word)
  BY DEF Esc!ArgsNew, Esc!Split, NewLine, Between
<1> HIDE DEF After
<1>10. Esc!ArgsNew(line) = Append(Front(Parts(args)), Last(Parts(args)))
  <2> DEFINE W == Front(Parts(args))
             w == Last(Parts(args))
  <2> HIDE DEF W, w
  <2>1. /\ Between(W, w, FALSE).escaped = FALSE /\ Between(W, w, FALSE).words = W
        /\ Between(W, w, FALSE).word = w
    BY DEF Between
  <2>2. After[Len(line)] = Between(W, w, FALSE)  BY <1>8 DEF InHand, W, w
  <2>3. Esc!ArgsNew(line) = Append(W, w)  BY <1>9, <2>1, <2>2
  <2> QED BY <2>3 DEF W, w
<1>11. Esc!ArgsNew(line) = Parts(args)
  <2> DEFINE T == Seq(D)
  <2> HIDE DEF T
  <2>1. Append(Front(Parts(args)), Last(Parts(args))) = Parts(args)  BY <1>2, WordsGrow DEF T
  <2> QED BY <1>10, <2>1
<1> QED BY <1>6, <1>11 DEF Esc!ArgumentsArrive, Parts

-----------------------------------------------------------------------------
(* A word of the query language (Escaping).                                *)

\* The characters the query language gives a meaning.
Signs == {Esc!BS, "*", "?"}
Leaders == {"/", "|", ":"}

\* None of the ones that lead is a backslash, or a part of a pattern.
LEMMA SignsDiffer ==
    /\ Esc!BS \notin Leaders /\ "*" \notin Leaders /\ "?" \notin Leaders
    /\ Esc!BS # "*" /\ Esc!BS # "?"
BY DEF Esc!BS, Leaders

\* The states of the loop of analyse_query, and its step as a function.
Unescaping(w, e) == [res |-> w, pattern |-> FALSE, escaped |-> e]
Readings(D) == [res : Seq(D), pattern : BOOLEAN, escaped : BOOLEAN]
ReadStep(D) == [p \in Readings(D) \X D |-> Esc!UnescapeStep(p[1], p[2])]

\* What a step does with an escaped character, with a backslash and with others.
LEMMA ReadEscaped ==
    ASSUME NEW w, NEW c
    PROVE  Esc!UnescapeStep(Unescaping(w, TRUE), c) = Unescaping(Append(w, c), FALSE)
BY DEF Esc!UnescapeStep, Unescaping

LEMMA ReadBackslash ==
    ASSUME NEW w
    PROVE  Esc!UnescapeStep(Unescaping(w, FALSE), Esc!BS) = Unescaping(w, TRUE)
BY DEF Esc!UnescapeStep, Unescaping

LEMMA ReadPlain ==
    ASSUME NEW w, NEW c, c \notin Signs
    PROVE  Esc!UnescapeStep(Unescaping(w, FALSE), c) = Unescaping(Append(w, c), FALSE)
<1>1. (FALSE \/ c \in {"*", "?"}) = FALSE  BY DEF Signs
<1> QED BY <1>1 DEF Esc!UnescapeStep, Unescaping, Signs

\* A step leads from a state to a state.
LEMMA ReadType ==
    ASSUME NEW D
    PROVE  /\ \A w \in Seq(D), e \in BOOLEAN : Unescaping(w, e) \in Readings(D)
           /\ \A x \in Readings(D), c \in D : Esc!UnescapeStep(x, c) \in Readings(D)
           /\ ReadStep(D) \in [Readings(D) \X D -> Readings(D)]
           /\ \A x \in Readings(D), c \in D : ReadStep(D)[<<x, c>>] = Esc!UnescapeStep(x, c)
<1>1. \A w \in Seq(D), e \in BOOLEAN : Unescaping(w, e) \in Readings(D)
  <2>1. FALSE \in BOOLEAN  OBVIOUS
  <2> QED BY <2>1 DEF Unescaping, Readings
<1>2. ASSUME NEW x \in Readings(D), NEW c \in D
      PROVE  Esc!UnescapeStep(x, c) \in Readings(D)
  <2>1. /\ x = [res |-> x.res, pattern |-> x.pattern, escaped |-> x.escaped]
        /\ x.res \in Seq(D) /\ x.pattern \in BOOLEAN /\ x.escaped \in BOOLEAN
    BY DEF Readings
  <2>2. Append(x.res, c) \in Seq(D)  BY <2>1, AppendProperties
  <2>3. CASE x.escaped  BY <2>1, <2>2, <2>3 DEF Esc!UnescapeStep, Readings
  <2>4. CASE ~x.escaped /\ c = Esc!BS  BY <2>1, <2>4 DEF Esc!UnescapeStep, Readings
  <2>5. CASE ~x.escaped /\ c # Esc!BS
    <3> DEFINE p == x.pattern \/ c \in {"*", "?"}
    <3>1. p \in BOOLEAN  OBVIOUS
    <3>2. Esc!UnescapeStep(x, c) = [x EXCEPT !.res = Append(x.res, c), !.pattern = p]
      BY <2>5 DEF Esc!UnescapeStep
    <3> HIDE DEF p
    <3> QED BY <2>1, <2>2, <3>1, <3>2 DEF Readings
  <2> QED BY <2>3, <2>4, <2>5
<1>3. \A p \in Readings(D) \X D : p[1] \in Readings(D) /\ p[2] \in D  OBVIOUS
<1>4. ReadStep(D) \in [Readings(D) \X D -> Readings(D)]  BY <1>2, <1>3 DEF ReadStep
<1>5. \A x \in Readings(D), c \in D : ReadStep(D)[<<x, c>>] = Esc!UnescapeStep(x, c)
  BY DEF ReadStep
<1> QED BY <1>1, <1>2, <1>4, <1>5

\* Where the loop of analyse_query ends, if a run over s ends in r.
LEMMA UnescapeEnds ==
    ASSUME NEW D, NEW s \in Seq(D), NEW r, Runs(ReadStep(D), Unescaping(<<>>, FALSE), s, r)
    PROVE  Esc!Unescaped(s) = r
<1> DEFINE n == Len(s)
           q == Unescaping(<<>>, FALSE)
           F == ReadStep(D)
           X == Readings(D)
           IsRead(A) == A = [i \in 0 .. n |-> IF i = 0 THEN q ELSE Esc!UnescapeStep(A[i - 1], s[i])]
           After == CHOOSE A : IsRead(A)
<1>0. Esc!Unescaped(s) = After[n]  BY DEF Esc!Unescaped, Unescaping
<1>1. n \in Nat /\ \A i \in 1 .. n : s[i] \in D  BY LenProperties
<1>2. F \in [X \X D -> X] /\ \A x \in X, c \in D : F[<<x, c>>] = Esc!UnescapeStep(x, c)
  BY ReadType
<1>2a. \A x \in X, c \in D : Esc!UnescapeStep(x, c) \in X  BY ReadType
<1>3. q \in X
  <2>1. <<>> \in Seq(D) /\ FALSE \in BOOLEAN  BY EmptySeq
  <2> QED BY <2>1, ReadType
<1>r. Runs(F, q, s, r)  OBVIOUS
<1> HIDE DEF F, X, q
<1>4. PICK A : IsLoop(F, q, s, A)  BY RunExists
<1>5. IsRun(F, q, s, A)  BY <1>4 DEF IsLoop, IsRun
<1>6. \A i \in 0 .. n : A[i] \in X  BY <1>2, <1>3, <1>5, RunStays
<1> HIDE DEF n
<1>7. A = [i \in 0 .. n |-> IF i = 0 THEN q ELSE F[<<A[i - 1], s[i]>>]]
  BY <1>4 DEF IsLoop, n
<1>8. \A i \in 0 .. n : i # 0 => F[<<A[i - 1], s[i]>>] = Esc!UnescapeStep(A[i - 1], s[i])
  <2> TAKE i \in 0 .. n
  <2>1. i # 0 => i - 1 \in 0 .. n /\ i \in 1 .. n  BY <1>1
  <2> QED BY <1>1, <1>2, <1>6, <2>1
<1>9. IsRead(A)  BY <1>7, <1>8
<1>10. IsRead(After)
  <2> HIDE DEF IsRead
  <2> QED BY <1>9
<1> HIDE DEF After
<1>11. \A i \in 0 .. n : After[i] = IF i = 0 THEN q ELSE Esc!UnescapeStep(After[i - 1], s[i])
  BY <1>10
<1> DEFINE Bad == {m \in 0 .. n : After[m] \notin X}
<1>12. ASSUME Bad # {} PROVE FALSE
  <2>1. PICK m \in Bad : \A y \in Bad : m <= y  BY <1>1, <1>12, LeastPosition
  <2>2. m \in 0 .. n /\ After[m] \notin X  BY <2>1
  <2>3. m # 0 => m - 1 \in 0 .. n /\ ~(m <= m - 1) /\ m \in 1 .. n  BY <1>1, <2>2
  <2>4. m # 0 => After[m - 1] \in X /\ s[m] \in D  BY <1>1, <2>1, <2>3
  <2>5. m # 0 => After[m] \in X  BY <1>2a, <1>11, <2>2, <2>4
  <2>6. m = 0 => After[m] = q  BY <1>11, <2>2
  <2> QED BY <1>3, <2>2, <2>5, <2>6
<1>13. IsRun(F, q, s, After)
  <2> SUFFICES ASSUME NEW i \in 0 .. n
               PROVE  After[i] = IF i = 0 THEN q ELSE F[<<After[i - 1], s[i]>>]
    BY DEF IsRun, n
  <2>1. i # 0 => i - 1 \in 0 .. n /\ i \in 1 .. n  BY <1>1
  <2>2. i # 0 => After[i - 1] \in X /\ s[i] \in D  BY <1>1, <1>12, <2>1
  <2>3. i # 0 => F[<<After[i - 1], s[i]>>] = Esc!UnescapeStep(After[i - 1], s[i])
    BY <1>2, <2>2
  <2> QED BY <1>11, <2>3
<1>14. PICK B : IsRun(F, q, s, B) /\ B[n] = r  BY <1>r DEF Runs, n
<1> QED BY <1>0, <1>13, <1>14, RunsOnce DEF n

\* How stardict_input_escape writes a character, and the runs over it.
Written(D) == [c \in D |-> IF c \in Signs THEN <<Esc!BS, c>> ELSE <<c>>]
LEMMA WrittenRuns ==
    ASSUME NEW D, Esc!BS \in D
    PROVE  /\ Written(D) \in [D -> Seq(D)]
           /\ \A w, s \in Seq(D) : Runs(ReadStep(D), Unescaping(w, FALSE), Flat(Written(D), s),
                                        Unescaping(w \o s, FALSE))
           /\ \A w \in Seq(D), c \in D : Runs(ReadStep(D), Unescaping(w, FALSE), <<Esc!BS, c>>,
                                              Unescaping(Append(w, c), FALSE))
<1> DEFINE F == ReadStep(D)
           E == Written(D)
           Q == [w \in Seq(D) |-> Unescaping(w, FALSE)]
<1>1. E \in [D -> Seq(D)]
  <2>1. \A c \in D : <<Esc!BS, c>> \in Seq(D) /\ <<c>> \in Seq(D)  OBVIOUS
  <2> QED BY <2>1 DEF Written
<1>2. \A x \in Readings(D), c \in D : F[<<x, c>>] = Esc!UnescapeStep(x, c)
  BY ReadType, Zenon
<1>3. ASSUME NEW w \in Seq(D), NEW c \in D
      PROVE  Runs(F, Unescaping(w, FALSE), <<Esc!BS, c>>, Unescaping(Append(w, c), FALSE))
  <2> DEFINE a == Unescaping(w, FALSE)
             b == Unescaping(w, TRUE)
  <2>1. a \in Readings(D) /\ b \in Readings(D)
    <3>1. TRUE \in BOOLEAN /\ FALSE \in BOOLEAN  OBVIOUS
    <3> QED BY <3>1, ReadType
  <2>2. Esc!UnescapeStep(a, Esc!BS) = b /\ Esc!UnescapeStep(b, c) = Unescaping(Append(w, c), FALSE)
    BY ReadBackslash, ReadEscaped, Zenon
  <2> HIDE DEF a, b, F
  <2>3. F[<<a, Esc!BS>>] = b /\ F[<<b, c>>] = Unescaping(Append(w, c), FALSE)  BY <1>2, <2>1, <2>2
  <2>4. Runs(F, a, <<Esc!BS, c>>, F[<<F[<<a, Esc!BS>>], c>>])  BY RunsPair
  <2> QED BY <2>3, <2>4 DEF a
<1>4. ASSUME NEW w \in Seq(D), NEW c \in D, c \notin Signs
      PROVE  Runs(F, Unescaping(w, FALSE), <<c>>, Unescaping(Append(w, c), FALSE))
  <2>1. Unescaping(w, FALSE) \in Readings(D)
    <3>1. FALSE \in BOOLEAN  OBVIOUS
    <3> QED BY <3>1, ReadType
  <2>2. Esc!UnescapeStep(Unescaping(w, FALSE), c) = Unescaping(Append(w, c), FALSE)
    BY <1>4, ReadPlain, Zenon
  <2> HIDE DEF F
  <2>3. F[<<Unescaping(w, FALSE), c>>] = Unescaping(Append(w, c), FALSE)  BY <1>2, <2>1, <2>2
  <2>4. Runs(F, Unescaping(w, FALSE), <<c>>, F[<<Unescaping(w, FALSE), c>>])  BY RunsShort
  <2> QED BY <2>3, <2>4
<1>5. \A w \in Seq(D) : Q[w] = Unescaping(w, FALSE)  OBVIOUS
<1>6. \A c \in D : E[c] = IF c \in Signs THEN <<Esc!BS, c>> ELSE <<c>>  BY DEF Written
<1> HIDE DEF E, F, Q
<1>7. \A w \in Seq(D) : \A c \in D : Runs(F, Q[w], E[c], Q[Append(w, c)])
  <2> TAKE w \in Seq(D)
  <2> TAKE c \in D
  <2>1. Append(w, c) \in Seq(D)  BY AppendProperties
  <2>2. CASE c \in Signs  BY <1>3, <1>5, <1>6, <2>1, <2>2
  <2>3. CASE c \notin Signs  BY <1>4, <1>5, <1>6, <2>1, <2>3
  <2> QED BY <2>2, <2>3
<1>8. \A w, s \in Seq(D) : Runs(F, Q[w], Flat(E, s), Q[w \o s])  BY <1>1, <1>7, RunsFlat
<1>9. \A w, s \in Seq(D) : w \o s \in Seq(D)  BY ConcatProperties
<1> QED BY <1>1, <1>3, <1>5, <1>8, <1>9 DEF E, F

\* What stardict_input_escape writes, character by character.
LEMMA InputEscapes ==
    ASSUME NEW C, NEW s \in Seq(C), NEW D, D = C \cup {Esc!BS}, NEW E, E = Written(D)
    PROVE  /\ Esc!BS \in D /\ s \in Seq(D)
           /\ E \in [D -> Seq(D)]
           /\ \A c \in D : E[c] = IF c \in Signs THEN <<Esc!BS, c>> ELSE <<c>>
           /\ \A t \in Seq(D) : FlatGoesOn(D, E, t)
           /\ s # <<>> /\ s[1] \in Leaders => Esc!InputEscape(s) = <<Esc!BS, s[1]>> \o Flat(E, Tail(s))
           /\ ~(s # <<>> /\ s[1] \in Leaders) => Esc!InputEscape(s) = Flat(E, s)
<1> DEFINE out == Esc!InputEscape(s)
<1>1. Esc!BS \in D /\ s \in Seq(D)
  <2>1. C \subseteq D  OBVIOUS
  <2> QED BY <2>1, SeqWidens
<1>2. E \in [D -> Seq(D)] /\ \A c \in D : E[c] = IF c \in Signs THEN <<Esc!BS, c>> ELSE <<c>>
  <2>1. \A c \in D : E[c] = IF c \in Signs THEN <<Esc!BS, c>> ELSE <<c>>  BY DEF Written
  <2> QED BY <1>1, <2>1, WrittenRuns
<1>3. \A t \in Seq(D) : Esc!FlattenSeq([i \in DOMAIN t |->
          IF t[i] \in {Esc!BS, "*", "?"} THEN <<Esc!BS, t[i]>> ELSE <<t[i]>>]) = Flat(E, t)
  <2> TAKE t \in Seq(D)
  <2>1. \A i \in DOMAIN t : t[i] \in D  OBVIOUS
  <2>2. [i \in DOMAIN t |-> IF t[i] \in {Esc!BS, "*", "?"} THEN <<Esc!BS, t[i]>> ELSE <<t[i]>>]
          = Mapped(E, t)
    BY <1>2, <2>1 DEF Mapped, Signs
  <2> QED BY <2>2, FlattenAlike DEF Flat
<1>4. \A t \in Seq(D) : FlatGoesOn(D, E, t)
  <2> QED BY <1>2, FlatIs, Zenon
<1>5. out = IF s # <<>> /\ s[1] \in {"/", "|", ":"}
            THEN <<Esc!BS, s[1]>> \o Esc!FlattenSeq([i \in DOMAIN Tail(s) |->
                   IF Tail(s)[i] \in {Esc!BS, "*", "?"} THEN <<Esc!BS, Tail(s)[i]>> ELSE <<Tail(s)[i]>>])
            ELSE Esc!FlattenSeq([i \in DOMAIN s |->
                   IF s[i] \in {Esc!BS, "*", "?"} THEN <<Esc!BS, s[i]>> ELSE <<s[i]>>])
  BY DEF Esc!InputEscape
<1>6. /\ s # <<>> /\ s[1] \in Leaders => out = <<Esc!BS, s[1]>> \o Flat(E, Tail(s))
      /\ ~(s # <<>> /\ s[1] \in Leaders) => out = Flat(E, s)
  <2>1. s # <<>> => Tail(s) \in Seq(D)  BY <1>1, HeadTailProperties
  <2> HIDE DEF out
  <2> QED BY <1>1, <1>3, <1>5, <2>1 DEF Leaders
<1> QED BY <1>1, <1>2, <1>4, <1>6

\* A string escaped for the query language is looked up as it is, whatever it is made of:
\* stardict_input_escape against analyse_query.
THEOREM WordSurvives ==
    ASSUME NEW C
    PROVE  \A s \in Seq(C) : Esc!WordIsPlain(s)
<1> SUFFICES ASSUME NEW s \in Seq(C) PROVE Esc!WordIsPlain(s)  OBVIOUS
<1> DEFINE D == C \cup {Esc!BS}
           E == Written(D)
           start == Unescaping(<<>>, FALSE)
           plain == [kind |-> "simple", res |-> s]
           out == Esc!InputEscape(s)
<1>1. /\ Esc!BS \in D /\ s \in Seq(D)
      /\ E \in [D -> Seq(D)]
      /\ \A c \in D : E[c] = IF c \in Signs THEN <<Esc!BS, c>> ELSE <<c>>
      /\ \A t \in Seq(D) : FlatGoesOn(D, E, t)
      /\ s # <<>> /\ s[1] \in Leaders => out = <<Esc!BS, s[1]>> \o Flat(E, Tail(s))
      /\ ~(s # <<>> /\ s[1] \in Leaders) => out = Flat(E, s)
  BY InputEscapes
<1>2. /\ \A w, t \in Seq(D) : Runs(ReadStep(D), Unescaping(w, FALSE), Flat(E, t),
                                   Unescaping(w \o t, FALSE))
      /\ \A w \in Seq(D), c \in D : Runs(ReadStep(D), Unescaping(w, FALSE), <<Esc!BS, c>>,
                                         Unescaping(Append(w, c), FALSE))
  <2> HIDE DEF D
  <2> QED BY <1>1, WrittenRuns
<1> HIDE DEF D, E, out
<1>3. ASSUME out \in Seq(D), out # <<>>, out[1] \notin Leaders,
             Runs(ReadStep(D), start, out, Unescaping(s, FALSE))
      PROVE  Esc!AnalyseQuery(out) = plain
  <2>1. Esc!Unescaped(out) = Unescaping(s, FALSE)  BY <1>3, UnescapeEnds
  <2>2. Unescaping(s, FALSE).res = s /\ Unescaping(s, FALSE).pattern = FALSE  BY DEF Unescaping
  <2>3. out[1] # "/" /\ out[1] # ":" /\ out[1] # "|"  BY <1>3 DEF Leaders
  <2>4. Esc!AnalyseQuery(out) =
          [kind |-> IF Esc!Unescaped(out).pattern THEN "pattern" ELSE "simple",
           res |-> Esc!Unescaped(out).res]
    BY <1>3, <2>3 DEF Esc!AnalyseQuery
  <2> QED BY <2>1, <2>2, <2>4
<1>4. CASE s = <<>>
  <2>1. out = <<>>  BY <1>1, <1>4 DEF FlatGoesOn
  <2>2. Esc!AnalyseQuery(out) = [kind |-> "simple", res |-> <<>>]
    BY <2>1 DEF Esc!AnalyseQuery
  <2> QED BY <1>4, <2>2 DEF Esc!WordIsPlain, out
<1>5. CASE s # <<>>
  <2> DEFINE c == Head(s)
             t == Tail(s)
  <2>1. /\ c \in D /\ c = s[1] /\ t \in Seq(D) /\ s = <<c>> \o t
        /\ <<>> \in Seq(D) /\ <<c>> \in Seq(D) /\ Append(<<>>, c) = <<c>>
    <3>1. c \in D /\ t \in Seq(D) /\ s = <<c>> \o t  BY <1>1, <1>5, HeadTailProperties
    <3>2. c = s[1]  BY <1>1, <1>5
    <3> HIDE DEF c, t
    <3> QED BY <3>1, <3>2, EmptySeq
  <2> HIDE DEF c, t
  <2>2. Flat(E, t) \in Seq(D) /\ Flat(E, s) = E[c] \o Flat(E, t)
    <3>1. FlatGoesOn(D, E, t) /\ FlatGoesOn(D, E, s)  BY <1>1, <2>1
    <3> QED BY <1>5, <3>1 DEF FlatGoesOn, c, t
  <2>3. ASSUME NEW h, NEW u \in Seq(D), h \in D, NEW g \in Seq(D), Len(g) # 0, g[1] = h
        PROVE  g \o u \in Seq(D) /\ g \o u # <<>> /\ (g \o u)[1] = h
    <3>1. Len(g) \in Nat /\ Len(g) # 0 /\ g[1] = h  BY <2>3, LenProperties
    <3>2. /\ g \o u \in Seq(D) /\ Len(g \o u) = Len(g) + Len(u)
          /\ \A i \in 1 .. Len(g) + Len(u) : (g \o u)[i] = IF i <= Len(g) THEN g[i] ELSE u[i - Len(g)]
      BY ConcatProperties
    <3>3. Len(u) \in Nat  BY LenProperties
    <3> DEFINE v == g \o u
    <3> HIDE DEF v
    <3>4. 1 \in 1 .. Len(g) + Len(u) /\ 1 <= Len(g)  BY <3>1, <3>3
    <3>5. v[1] = h  BY <3>1, <3>2, <3>4 DEF v
    <3>6. v \in Seq(D) /\ Len(v) # 0  BY <3>1, <3>2, <3>3 DEF v
    <3> QED BY <3>5, <3>6, EmptySeq DEF v
  <2>4. CASE c \in Leaders
    <3> DEFINE g == <<Esc!BS, c>>
    <3>1. out = g \o Flat(E, t)  BY <1>1, <1>5, <2>1, <2>4 DEF t
    <3>2. g \in Seq(D) /\ Len(g) # 0 /\ g[1] = Esc!BS  BY <1>1, <2>1
    <3> HIDE DEF g
    <3>3. out \in Seq(D) /\ out # <<>> /\ out[1] = Esc!BS  BY <1>1, <2>2, <2>3, <3>1, <3>2
    <3>4. Runs(ReadStep(D), start, g, Unescaping(<<c>>, FALSE))  BY <1>2, <2>1 DEF g
    <3>5. Runs(ReadStep(D), Unescaping(<<c>>, FALSE), Flat(E, t), Unescaping(s, FALSE))
      BY <1>2, <2>1
    <3>6. Runs(ReadStep(D), start, g \o Flat(E, t), Unescaping(s, FALSE))
      BY <2>2, <3>2, <3>4, <3>5, RunsJoin
    <3> QED BY <1>3, <3>1, <3>3, <3>6, SignsDiffer DEF Esc!WordIsPlain, out
  <2>5. CASE c \notin Leaders
    <3> DEFINE g == E[c]
    <3>1. out = g \o Flat(E, t)  BY <1>1, <2>1, <2>2, <2>5
    <3>2. g = IF c \in Signs THEN <<Esc!BS, c>> ELSE <<c>>  BY <1>1, <2>1
    <3>3. g \in Seq(D)  BY <1>1, <2>1
    <3> HIDE DEF g
    <3>4. out \in Seq(D) /\ out # <<>> /\ out[1] \notin Leaders
      <4>1. CASE c \in Signs
        <5>1. Len(g) # 0 /\ g[1] = Esc!BS  BY <3>2, <4>1
        <5>2. out \in Seq(D) /\ out # <<>> /\ out[1] = Esc!BS
          BY <1>1, <2>1, <2>2, <2>3, <3>1, <3>3, <5>1
        <5> QED BY <5>2, SignsDiffer
      <4>2. CASE c \notin Signs
        <5>1. Len(g) # 0 /\ g[1] = c  BY <3>2, <4>2
        <5>2. out \in Seq(D) /\ out # <<>> /\ out[1] = c
          BY <2>1, <2>2, <2>3, <3>1, <3>3, <5>1
        <5> QED BY <5>2, <2>5
      <4> QED BY <4>1, <4>2
    <3>5. out = Flat(E, s)  BY <1>1, <2>1, <2>5
    <3>6. Runs(ReadStep(D), start, Flat(E, s), Unescaping(s, FALSE))
      <4>1. <<>> \o s = s  BY <1>1, ConcatEmptySeq
      <4>2. Runs(ReadStep(D), start, Flat(E, s), Unescaping(<<>> \o s, FALSE))
        BY <1>1, <1>2, <2>1
      <4> QED BY <4>1, <4>2
    <3> QED BY <1>3, <3>4, <3>5, <3>6 DEF Esc!WordIsPlain, out
  <2> QED BY <2>4, <2>5
<1> QED BY <1>4, <1>5


-----------------------------------------------------------------------------
(* The functions over every input (Inputs).                                *)

InputTyped == function \in Functions /\ input \in Seq(Letters[function])

LEMMA LetterWritten == InputTyped /\ [InputNext]_inputs => InputTyped'
<1> SUFFICES ASSUME InputTyped, [InputNext]_inputs PROVE InputTyped'  OBVIOUS
<1>1. CASE WriteLetter
  <2>1. function' = function /\ \E c \in Letters[function] : input' = Append(input, c)
    BY <1>1 DEF WriteLetter
  <2> QED BY <2>1, AppendProperties DEF InputTyped
<1>2. CASE WriteSecond  BY <1>2 DEF WriteSecond, InputTyped
<1>3. CASE UNCHANGED inputs  BY <1>3 DEF inputs, InputTyped
<1> QED BY <1>1, <1>2, <1>3 DEF InputNext

LEMMA InputsTyped == InputSpec => []InputTyped
<1>1. InputInit => InputTyped  BY EmptySeq DEF InputInit, InputTyped
<1> QED BY <1>1, LetterWritten, PTL DEF InputSpec

\* An escaped word has no other characters than the word and the backslash.
LEMMA InputEscapeTyped ==
    ASSUME NEW C, NEW s \in Seq(C)
    PROVE  Esc!InputEscape(s) \in Seq(C \cup {Esc!BS})
<1> DEFINE D == C \cup {Esc!BS}
           E == Written(D)
           out == Esc!InputEscape(s)
<1>1. /\ Esc!BS \in D /\ s \in Seq(D)
      /\ \A t \in Seq(D) : FlatGoesOn(D, E, t)
      /\ s # <<>> /\ s[1] \in Leaders => out = <<Esc!BS, s[1]>> \o Flat(E, Tail(s))
      /\ ~(s # <<>> /\ s[1] \in Leaders) => out = Flat(E, s)
  BY InputEscapes
<1> HIDE DEF D, E, out
<1>2. CASE s # <<>> /\ s[1] \in Leaders
  <2>1. Tail(s) \in Seq(D) /\ s[1] \in D  BY <1>1, <1>2, HeadTailProperties
  <2>2. Flat(E, Tail(s)) \in Seq(D)  BY <1>1, <2>1 DEF FlatGoesOn
  <2>3. <<Esc!BS, s[1]>> \in Seq(D)  BY <1>1, <2>1
  <2>4. out \in Seq(D)  BY <1>1, <1>2, <2>2, <2>3, ConcatProperties
  <2> QED BY <2>4 DEF D, out
<1>3. CASE ~(s # <<>> /\ s[1] \in Leaders)
  <2>1. out \in Seq(D)  BY <1>1, <1>3 DEF FlatGoesOn
  <2> QED BY <2>1 DEF D, out
<1> QED BY <1>2, <1>3

\* Any string that can be an argument comes through both escapes.
LEMMA InputSurvives == InputTyped => TextSurvives
<1> SUFFICES ASSUME InputTyped, function = "escaping" PROVE
      Esc!ArgumentsArrive(<<input, Esc!InputEscape(input)>>) /\ Esc!WordIsPlain(input)
  BY DEF TextSurvives
<1> DEFINE C == Letters["escaping"]
<1>1. input \in Seq(C) /\ Esc!CR \notin C  BY InputsAssumption DEF InputTyped
<1>2. Esc!WordIsPlain(input)  BY <1>1, WordSurvives
<1>3. Esc!ArgumentsArrive(<<input, Esc!InputEscape(input)>>)
  <2> DEFINE D == C \cup {Esc!BS}
             W == Seq(D)
  <2>1. Esc!CR \notin D  BY <1>1, MarksDiffer DEF Marks
  <2>2. \A args \in Seq(W) : Esc!ArgumentsArrive(args)  BY <2>1, ArgumentsSurvive
  <2>3. Esc!InputEscape(input) \in W  BY <1>1, InputEscapeTyped
  <2>4. input \in W
    <3>1. C \subseteq D  OBVIOUS
    <3> HIDE DEF C, D
    <3> QED BY <1>1, <3>1, SeqWidens
  <2> HIDE DEF W
  <2>5. <<input, Esc!InputEscape(input)>> \in Seq(W)  BY <2>3, <2>4
  <2> QED BY <2>2, <2>5
<1> QED BY <1>2, <1>3

\* Whatever string a client is given, the server searches that string: it comes through
\* the escapes of the command line, and through those of the query language.
THEOREM TextAlwaysSurvives == InputSpec => []TextSurvives
BY InputsTyped, InputSurvives, PTL

-----------------------------------------------------------------------------
(* The hash of a message in pieces.                                        *)

\* What holds at 0 and at a number if at the one before it, holds up to n.
LEMMA UptoInduction ==
    ASSUME NEW n \in Nat, NEW S, 0 \in S, \A k \in 1 .. n : k - 1 \in S => k \in S
    PROVE  \A k \in 0 .. n : k \in S
<1> DEFINE Bad == {k \in 0 .. n : k \notin S}
<1> SUFFICES ASSUME Bad # {} PROVE FALSE  OBVIOUS
<1>1. Bad \in SUBSET (0 .. n)  OBVIOUS
<1>2. PICK k \in Bad : \A y \in Bad : k <= y
  <2> HIDE DEF Bad
  <2> QED BY <1>1, LeastPosition
<1>3. k \in 0 .. n /\ k \notin S  BY <1>2
<1>4. k \in 1 .. n /\ k - 1 \in 0 .. n /\ ~(k <= k - 1)  BY <1>3
<1>5. k - 1 \notin Bad  BY <1>2, <1>4
<1> QED BY <1>3, <1>4, <1>5

\* A quotient and a remainder are those of the division.
LEMMA DivIs ==
    ASSUME NEW a, a \in Int, NEW b, b \in Nat \ {0}, NEW q, q \in Int, NEW r, r \in 0 .. b - 1,
           a = q * b + r
    PROVE  a \div b = q /\ a % b = r
<1> DEFINE p == a \div b
           s == a % b
<1>1. p \in Int /\ s \in 0 .. b - 1 /\ a = p * b + s
  OBVIOUS
<1> HIDE DEF p, s
<1>2. p * b - q * b = r - s  BY <1>1
<1>3. (p - q) * b = r - s  BY <1>1, <1>2
<1>4. r - s < b /\ r - s > 0 - b  BY <1>1
<1>5. PICK e \in Int : e = p - q  BY <1>1
<1>6. e * b < b /\ e * b > 0 - b  BY <1>3, <1>4, <1>5
<1>7. e = 0
  <2>1. CASE e >= 1
    <3>1. e * b >= b  BY <2>1
    <3> QED BY <1>6, <3>1
  <2>2. CASE e <= 0 - 1
    <3>1. e * b <= 0 - b  BY <2>2
    <3> QED BY <1>6, <3>1
  <2> QED BY <2>1, <2>2
<1>8. p = q /\ r = s  BY <1>1, <1>3, <1>5, <1>7
<1> QED BY <1>8 DEF p, s

Divided(a, b, q, r) ==
    q \in Int /\ r \in Int /\ 0 <= r /\ r < b /\ a = q * b + r /\ a \div b = q /\ a % b = r

LEMMA DivMod ==
    ASSUME NEW a, a \in Int, NEW b, b \in Nat \ {0}
    PROVE  \E q, r : Divided(a, b, q, r)
<1>1. a \div b \in Int /\ a % b \in 0 .. b - 1 /\ a = (a \div b) * b + (a % b)  OBVIOUS
<1>2. Divided(a, b, a \div b, a % b)  BY <1>1 DEF Divided
<1> QED BY <1>2

\* The counter: n bytes have been counted in two words.
IsCounted(ctx, n) ==
    /\ ctx.lo = (n * ByteBits) % WordValues
    /\ ctx.hi = ((n * ByteBits) \div WordValues) % WordValues

Sizes ==
    /\ BlockSize \in Nat \ {0} /\ LengthSize \in Nat /\ LengthSize < BlockSize
    /\ ByteBits \in Nat \ {0} /\ WordValues \in Nat \ {0}
    /\ WordValues % (BlockSize * ByteBits) = 0

LEMMA SizesAre == Sizes
BY InputsAssumption DEF Sizes

LEMMA CountIs ==
    ASSUME NEW ctx, NEW w, w \in Nat, NEW r, r \in 0 .. BlockSize - 1,
           IsCounted(ctx, w * BlockSize + r)
    PROVE  Hash!Count(ctx) = r
<1> DEFINE B == BlockSize
           Y == ByteBits
           W == WordValues
           n == w * B + r
<1>1. /\ B \in Nat \ {0} /\ Y \in Nat \ {0} /\ W \in Nat \ {0} /\ W % (B * Y) = 0
      /\ W \in Int
  BY SizesAre DEF Sizes
<1>2. ctx.lo = (n * Y) % W /\ Hash!Count(ctx) = (ctx.lo \div Y) % B /\ r \in 0 .. B - 1
  BY DEF IsCounted, Hash!Count
<1> HIDE DEF B, Y, W
<1>3. PICK z \in Int : W = z * (B * Y)
  <2>1. PICK c : c \in Nat \ {0} /\ c = B * Y  BY <1>1
  <2>2. PICK q, x : Divided(W, c, q, x)  BY <1>1, <2>1, DivMod
  <2>3. x = 0  BY <1>1, <2>1, <2>2 DEF Divided
  <2>4. q \in Int /\ W = q * c + 0  BY <2>2, <2>3 DEF Divided
  <2>5. q * c \in Int  BY <2>1, <2>4
  <2>6. W = q * c  BY <2>4, <2>5
  <2> QED BY <2>1, <2>4, <2>6
<1>4. w * B \in Nat /\ n \in Nat /\ n * Y \in Nat  BY <1>1, <1>2
<1>5. PICK q, l : Divided(n * Y, W, q, l)
  <2>1. PICK a : a \in Int /\ a = n * Y  BY <1>4
  <2>2. PICK q, l : Divided(a, W, q, l)  BY <1>1, <2>1, DivMod
  <2> QED BY <2>1, <2>2
<1>6. q \in Int /\ l \in Int /\ n * Y = q * W + l /\ (n * Y) % W = l  BY <1>5 DEF Divided
<1>7. PICK u \in Int : u = q * z  BY <1>6
<1>8. PICK x \in Int : x = (w - u) * B + r /\ x = n - u * B
  <2>1. (w - u) * B + r \in Int /\ (w - u) * B + r = n - u * B  BY <1>1
  <2> QED BY <2>1
<1>9. l = x * Y
  <2>1. q * W = (u * B) * Y  BY <1>1, <1>3, <1>6, <1>7
  <2>2. PICK v \in Int : v = u * B  BY <1>1
  <2>3. PICK N \in Nat : N = n  BY <1>4
  <2>4. q * W = v * Y  BY <2>1, <2>2
  <2>5. N * Y = q * W + l  BY <1>6, <2>3
  <2>6. x = N - v  BY <1>8, <2>2, <2>3
  <2>7. PICK m \in Int : m = q * W  BY <1>1, <1>6
  <2>8. l = N * Y - v * Y  BY <1>1, <1>6, <2>4, <2>5, <2>7
  <2> HIDE DEF n
  <2> QED BY <1>1, <2>6, <2>8
<1>10. l \div Y = x
  <2>1. 0 \in 0 .. Y - 1 /\ l = x * Y + 0
    <3>1. x * Y \in Int  BY <1>1
    <3> QED BY <1>1, <1>9, <3>1
  <2> QED BY <1>1, <1>6, <2>1, DivIs
<1>11. x % B = r
  <2>1. PICK y \in Int : y = w - u  OBVIOUS
  <2>2. x = y * B + r  BY <1>8, <2>1
  <2> QED BY <1>1, <1>2, <2>2, DivIs
<1> QED BY <1>2, <1>6, <1>10, <1>11

Bytes == Nat \cup {Hash!Pad, Hash!Zero, Hash!Stale} \cup (Nat \X Nat)
Blocks == [1 .. BlockSize -> Bytes]
Contexts == [state : Seq(Blocks), in : Blocks, lo : Nat, hi : Nat]

LEMMA CountBitsIs ==
    ASSUME NEW ctx \in Contexts, NEW n, n \in Nat, NEW k, k \in Nat, IsCounted(ctx, n)
    PROVE  /\ Hash!CountBits(ctx, k) \in Contexts /\ IsCounted(Hash!CountBits(ctx, k), n + k)
           /\ Hash!CountBits(ctx, k).state = ctx.state /\ Hash!CountBits(ctx, k).in = ctx.in
<1> DEFINE Y == ByteBits
           W == WordValues
           lo == (ctx.lo + k * Y) % W
           carry == IF lo < ctx.lo THEN 1 ELSE 0
           hi == (ctx.hi + carry + (k * Y) \div W) % W
           new == Hash!CountBits(ctx, k)
<1>1. Y \in Nat \ {0} /\ W \in Nat \ {0} /\ W \in Int /\ n * Y \in Int /\ k * Y \in Int
  BY SizesAre DEF Sizes
<1>2. new = [ctx EXCEPT !.lo = lo, !.hi = (@ + carry + (k * Y) \div W) % W]
  BY DEF Hash!CountBits
<1>3. ctx.lo = (n * Y) % W /\ ctx.hi = ((n * Y) \div W) % W  BY DEF IsCounted
<1> HIDE DEF Y, W
<1>4. ctx.lo \in Nat /\ ctx.hi \in Nat  BY DEF Contexts
<1>5. PICK a : a \in Int /\ a = n * Y  BY <1>1
<1>6. PICK b : b \in Int /\ b = k * Y  BY <1>1
<1>7. PICK q, l : Divided(a, W, q, l)  BY <1>1, <1>5, DivMod
<1>8. PICK p, x : Divided(b, W, p, x)  BY <1>1, <1>6, DivMod
<1>9. PICK g, h : Divided(q, W, g, h)
  <2>1. q \in Int  BY <1>7 DEF Divided
  <2> QED BY <1>1, <2>1, DivMod
<1>10. /\ q \in Int /\ l \in Int /\ 0 <= l /\ l < W /\ a = q * W + l /\ a \div W = q /\ a % W = l
       /\ p \in Int /\ x \in Int /\ 0 <= x /\ x < W /\ b = p * W + x /\ b \div W = p
       /\ g \in Int /\ h \in Int /\ 0 <= h /\ h < W /\ q = g * W + h /\ q % W = h
  BY <1>7, <1>8, <1>9 DEF Divided
<1>11. ctx.lo = l /\ ctx.hi = h  BY <1>3, <1>5, <1>10
<1>12. PICK c \in {0, 1} : /\ 0 <= l + x - c * W /\ l + x - c * W < W
                           /\ c = 1 <=> l + x - c * W < l
  <2>1. CASE l + x < W
    <3>1. 0 <= l + x - 0 * W /\ l + x - 0 * W < W /\ ~(l + x - 0 * W < l)  BY <1>1, <1>10, <2>1
    <3> QED BY <3>1
  <2>2. CASE ~(l + x < W)
    <3>1. 0 <= l + x - 1 * W /\ l + x - 1 * W < W /\ l + x - 1 * W < l  BY <1>1, <1>10, <2>2
    <3> QED BY <3>1
  <2> QED BY <2>1, <2>2
<1>13. PICK m : m = l + x - c * W  OBVIOUS
<1>14. m \in 0 .. W - 1 /\ m \in Int
  <2>1. c * W \in Int  BY <1>1, <1>12
  <2> QED BY <1>1, <1>10, <1>12, <1>13, <2>1
<1>15. lo = m
  <2>1. l + b = (p + c) * W + m
    <3>1. CASE c = 0  BY <1>1, <1>10, <1>13, <3>1
    <3>2. CASE c = 1  BY <1>1, <1>10, <1>13, <3>2
    <3> QED BY <1>12, <3>1, <3>2
  <2>2. p + c \in Int /\ l + b \in Int  BY <1>6, <1>10, <1>12
  <2>3. (l + b) % W = m
    <3>1. PICK e \in Int : e = p + c  BY <2>2
    <3>2. PICK f \in Int : f = l + b /\ f = e * W + m  BY <2>1, <2>2, <3>1
    <3>3. f % W = m  BY <1>1, <1>14, <3>2, DivIs
    <3> QED BY <3>2, <3>3
  <2> QED BY <1>6, <1>11, <2>3
<1>16. carry = c
  <2>1. carry = 1 <=> m < l  BY <1>11, <1>15
  <2>2. c = 1 <=> m < l  BY <1>12, <1>13
  <2>3. carry \in {0, 1}  OBVIOUS
  <2> HIDE DEF carry
  <2> QED BY <1>12, <2>1, <2>2, <2>3
<1> HIDE DEF lo, carry
<1>17. PICK s : s \in Int /\ s = q + p + c  BY <1>10, <1>12
<1>18. a + b = s * W + m
  <2>1. CASE c = 0  BY <1>1, <1>10, <1>13, <1>17, <2>1
  <2>2. CASE c = 1  BY <1>1, <1>10, <1>13, <1>17, <2>2
  <2> QED BY <1>12, <2>1, <2>2
<1>19. (a + b) % W = m /\ (a + b) \div W = s
  <2>1. PICK f \in Int : f = a + b /\ f = s * W + m  BY <1>5, <1>6, <1>18
  <2>2. f % W = m /\ f \div W = s  BY <1>1, <1>14, <1>17, <2>1, DivIs
  <2> QED BY <2>1, <2>2
<1>20. hi = s % W
  <2>1. hi = (h + c + p) % W  BY <1>6, <1>10, <1>11, <1>16
  <2>2. PICK t, r : Divided(h + c + p, W, t, r)
    <3>1. PICK f : f \in Int /\ f = h + c + p  BY <1>10, <1>12
    <3>2. PICK t, r : Divided(f, W, t, r)  BY <1>1, <3>1, DivMod
    <3> QED BY <3>1, <3>2
  <2>3. /\ t \in Int /\ r \in Int /\ 0 <= r /\ r < W /\ h + c + p = t * W + r
        /\ (h + c + p) % W = r
    BY <2>2 DEF Divided
  <2>4. s = (g + t) * W + r
    <3>1. PICK u \in Int : u = g * W  BY <1>1, <1>10
    <3>2. PICK v \in Int : v = t * W  BY <1>1, <2>3
    <3>3. (g + t) * W = u + v  BY <1>1, <1>10, <2>3, <3>1, <3>2
    <3>4. q = u + h /\ h + c + p = v + r  BY <1>10, <2>3, <3>1, <3>2
    <3> QED BY <1>10, <1>12, <1>17, <2>3, <3>3, <3>4
  <2>5. s % W = r
    <3>1. PICK e \in Int : e = g + t  BY <1>10, <2>3
    <3>2. s = e * W + r /\ r \in 0 .. W - 1  BY <1>1, <2>3, <2>4, <3>1
    <3> QED BY <1>1, <1>17, <3>2, DivIs
  <2> QED BY <2>1, <2>3, <2>5
<1> HIDE DEF hi
<1>21. (n + k) * Y = a + b  BY <1>1, <1>5, <1>6
<1>22. IsCounted(new, n + k)
  <2>1. new.lo = lo /\ new.hi = hi  BY <1>2 DEF Contexts, hi
  <2> HIDE DEF new
  <2>2. new.lo = ((n + k) * Y) % W  BY <1>15, <1>19, <1>21, <2>1
  <2>3. new.hi = (((n + k) * Y) \div W) % W  BY <1>19, <1>20, <1>21, <2>1
  <2> QED BY <2>2, <2>3 DEF IsCounted, Y, W
<1>23. lo \in Nat /\ hi \in Nat
  <2>1. PICK t, r : Divided(s, W, t, r)  BY <1>1, <1>17, DivMod
  <2> QED BY <1>1, <1>14, <1>15, <1>20, <2>1 DEF Divided
<1>24. new \in Contexts /\ new.state = ctx.state /\ new.in = ctx.in
  <2>1. new = [ctx EXCEPT !.lo = lo, !.hi = hi]  BY <1>2 DEF hi
  <2> HIDE DEF new
  <2> QED BY <1>23, <2>1 DEF Contexts
<1> QED BY <1>22, <1>24

\* What MD5Update leaves alone.
SameCount(new, ctx) == new.lo = ctx.lo /\ new.hi = ctx.hi

\* buf has been copied to a place of the block in hand.
Copied(new, ctx, at, buf) ==
    /\ new \in Contexts /\ SameCount(new, ctx) /\ new.state = ctx.state
    /\ \A i \in 1 .. BlockSize :
           new.in[i] = IF i > at /\ i <= at + Len(buf) THEN buf[i - at] ELSE ctx.in[i]

LEMMA CopyIs ==
    ASSUME NEW ctx \in Contexts, NEW at, at \in Nat, NEW buf \in Seq(Bytes)
    PROVE  Copied(Hash!Copy(ctx, at, buf), ctx, at, buf)
<1> DEFINE B == BlockSize
           b == [i \in 1 .. B |-> IF i > at /\ i <= at + Len(buf) THEN buf[i - at] ELSE ctx.in[i]]
           new == Hash!Copy(ctx, at, buf)
<1>1. new = [ctx EXCEPT !.in = b]  BY DEF Hash!Copy
<1>2. B \in Nat /\ Len(buf) \in Nat  BY SizesAre DEF Sizes
<1>3. ctx.in \in [1 .. B -> Bytes]  BY DEF Contexts, Blocks
<1>4. ASSUME NEW i \in 1 .. B, i > at, i <= at + Len(buf) PROVE buf[i - at] \in Bytes
  <2>1. i - at \in 1 .. Len(buf)  BY <1>2, <1>4
  <2> QED BY <2>1
<1>5. ASSUME NEW i \in 1 .. B PROVE ctx.in[i] \in Bytes  BY <1>3
<1>6. b \in Blocks  BY <1>4, <1>5 DEF Blocks
<1>7. \A i \in 1 .. B :
           b[i] = IF i > at /\ i <= at + Len(buf) THEN buf[i - at] ELSE ctx.in[i]
  OBVIOUS
<1> HIDE DEF b, new
<1>8. new \in Contexts /\ SameCount(new, ctx) /\ new.state = ctx.state /\ new.in = b
  BY <1>1, <1>6 DEF Contexts, SameCount
<1>9. Copied(new, ctx, at, buf)  BY <1>7, <1>8 DEF Copied
<1> QED BY <1>9 DEF new

\* The blocks that have been hashed are the first w of m, and the block in hand
\* begins with the next r bytes of it.
Hashed(ctx, m, w) ==
    /\ Len(ctx.state) = w
    /\ \A k \in 1 .. w : \A i \in 1 .. BlockSize :
           ctx.state[k][i] = m[(k - 1) * BlockSize + i]
Held(ctx, m, w, r) == \A i \in 1 .. r : ctx.in[i] = m[w * BlockSize + i]

\* A whole block in hand is one more that is hashed.
LEMMA TransformIs ==
    ASSUME NEW ctx \in Contexts, NEW m, NEW w, w \in Nat,
           Hashed(ctx, m, w), Held(ctx, m, w, BlockSize)
    PROVE  /\ Hash!MD5Transform(ctx) \in Contexts /\ Hashed(Hash!MD5Transform(ctx), m, w + 1)
           /\ SameCount(Hash!MD5Transform(ctx), ctx)
<1> DEFINE B == BlockSize
           new == Hash!MD5Transform(ctx)
<1>1. new = [ctx EXCEPT !.state = Append(ctx.state, ctx.in)]  BY DEF Hash!MD5Transform
<1>2. ctx.state \in Seq(Blocks) /\ ctx.in \in Blocks  BY DEF Contexts
<1>3. /\ Append(ctx.state, ctx.in) \in Seq(Blocks)
      /\ Len(Append(ctx.state, ctx.in)) = Len(ctx.state) + 1
      /\ \A k \in 1 .. Len(ctx.state) : Append(ctx.state, ctx.in)[k] = ctx.state[k]
      /\ Append(ctx.state, ctx.in)[Len(ctx.state) + 1] = ctx.in
  BY <1>2, AppendProperties
<1> HIDE DEF new
<1>4. new \in Contexts /\ SameCount(new, ctx) /\ new.state = Append(ctx.state, ctx.in)
  BY <1>1, <1>3 DEF Contexts, SameCount
<1>5. Len(ctx.state) = w /\ \A k \in 1 .. w : \A i \in 1 .. B : ctx.state[k][i] = m[(k - 1) * B + i]
  BY DEF Hashed
<1>6. ASSUME NEW k \in 1 .. w + 1, NEW i \in 1 .. B
      PROVE  new.state[k][i] = m[(k - 1) * B + i]
  <2>1. CASE k = w + 1
    <3>1. new.state[k] = ctx.in /\ k - 1 = w  BY <1>3, <1>4, <1>5, <2>1
    <3> QED BY <3>1 DEF Held
  <2>2. CASE k # w + 1
    <3>1. k \in 1 .. w  BY <2>2
    <3>2. new.state[k] = ctx.state[k]  BY <1>3, <1>4, <1>5, <3>1
    <3> QED BY <1>5, <3>1, <3>2
  <2> QED BY <2>1, <2>2
<1>7. Len(new.state) = w + 1  BY <1>3, <1>4, <1>5
<1>8. Hashed(new, m, w + 1)  BY <1>6, <1>7 DEF Hashed
<1> QED BY <1>4, <1>8 DEF new

\* Nothing of that is changed by a copy into the block in hand.
LEMMA CutStays ==
    ASSUME NEW new, NEW ctx, NEW m, NEW w, new.state = ctx.state, Hashed(ctx, m, w)
    PROVE  Hashed(new, m, w)
BY DEF Hashed

\* buf is m from its block w on.
From(m, w, buf) == \A j \in 1 .. Len(buf) : m[w * BlockSize + j] = buf[j]

\* The bytes of buf after p and up to q are at the beginning of the block in hand.
Begins(new, ctx, buf, p, q) ==
    /\ new \in Contexts /\ SameCount(new, ctx) /\ new.state = ctx.state
    /\ \A i \in 1 .. BlockSize : i <= q - p => new.in[i] = buf[p + i]

LEMMA PartCopied ==
    ASSUME NEW ctx \in Contexts, NEW buf \in Seq(Bytes), NEW p, p \in Nat,
           NEW q, q \in Nat, p <= q, q <= Len(buf)
    PROVE  Begins(Hash!Copy(ctx, 0, SubSeq(buf, p + 1, q)), ctx, buf, p, q)
<1> DEFINE s == SubSeq(buf, p + 1, q)
           new == Hash!Copy(ctx, 0, s)
<1>1. s \in Seq(Bytes) /\ Len(s) = q - p /\ \A i \in 1 .. q - p : s[i] = buf[p + i]
  <2>1. PICK m \in Int : m = p + 1  OBVIOUS
  <2>2. PICK n \in Int : n = q  OBVIOUS
  <2>3. \A i \in m .. n : buf[i] \in Bytes  BY <2>1, <2>2
  <2>4. /\ SubSeq(buf, m, n) \in Seq(Bytes)
        /\ Len(SubSeq(buf, m, n)) = IF m <= n THEN n - m + 1 ELSE 0
        /\ \A i \in 1 .. n - m + 1 : SubSeq(buf, m, n)[i] = buf[m + i - 1]
    BY <2>3, SubSeqProperties
  <2>5. s = SubSeq(buf, m, n)  BY <2>1, <2>2
  <2> HIDE DEF s
  <2>6. n - m + 1 = q - p /\ (IF m <= n THEN n - m + 1 ELSE 0) = q - p  BY <2>1, <2>2
  <2>7. \A i \in 1 .. q - p : m + i - 1 = p + i  BY <2>1
  <2> QED BY <2>4, <2>5, <2>6, <2>7
<1> HIDE DEF s
<1>2. 0 \in Nat /\ Copied(new, ctx, 0, s)  BY <1>1, CopyIs
<1> HIDE DEF new
<1>3. \A i \in 1 .. BlockSize : i <= q - p => new.in[i] = buf[p + i]
  <2> SUFFICES ASSUME NEW i \in 1 .. BlockSize, i <= q - p PROVE new.in[i] = buf[p + i]
    OBVIOUS
  <2>1. BlockSize \in Nat  BY SizesAre DEF Sizes
  <2>2. i > 0 /\ i <= 0 + Len(s) /\ i - 0 = i /\ i \in 1 .. q - p  BY <1>1, <2>1
  <2>3. new.in[i] = s[i]  BY <1>2, <2>2 DEF Copied
  <2> QED BY <1>1, <2>2, <2>3
<1>4. Begins(new, ctx, buf, p, q)  BY <1>2, <1>3 DEF Begins, Copied
<1> QED BY <1>4 DEF s, new

\* A function that is defined step by step, from each value to the next.
Steps(F, first, n, step) ==
    F = [k \in 0 .. n |-> IF k = 0 THEN first ELSE step[k][F[k - 1]]]

LEMMA StepsExist ==
    ASSUME NEW V, NEW first \in V, NEW n, n \in Nat, NEW step \in [1 .. n -> [V -> V]]
    PROVE  \E F \in [0 .. n -> V] : Steps(F, first, n, step)
<1> DEFINE Upto(F, h) == /\ F \in [0 .. n -> V] /\ F[0] = first
                         /\ \A k \in 1 .. n : k <= h => F[k] = step[k][F[k - 1]]
           S == {h \in 0 .. n : \E F : Upto(F, h)}
<1>1. 0 \in S
  <2>1. [k \in 0 .. n |-> first] \in [0 .. n -> V]  OBVIOUS
  <2>2. 0 \in 0 .. n /\ \A k \in 1 .. n : ~(k <= 0)  OBVIOUS
  <2>3. Upto([k \in 0 .. n |-> first], 0)  BY <2>1, <2>2
  <2> QED BY <2>2, <2>3
<1>2. ASSUME NEW h \in 1 .. n, h - 1 \in S PROVE h \in S
  <2>1. PICK F : Upto(F, h - 1)  BY <1>2
  <2> DEFINE g == [k \in 0 .. n |-> IF k = h THEN step[h][F[h - 1]] ELSE F[k]]
  <2>2. h - 1 \in 0 .. n /\ h \in 0 .. n /\ 0 \in 0 .. n /\ h # 0  OBVIOUS
  <2>3. F[h - 1] \in V  BY <2>1, <2>2
  <2>4. step[h][F[h - 1]] \in V  BY <2>3
  <2>5. g \in [0 .. n -> V] /\ g[0] = first  BY <2>1, <2>2, <2>4
  <2>6. ASSUME NEW k \in 1 .. n, k <= h PROVE g[k] = step[k][g[k - 1]]
    <3>1. k \in 0 .. n /\ k - 1 \in 0 .. n /\ k - 1 # h  BY <2>6
    <3>2. g[k - 1] = F[k - 1]  BY <3>1
    <3>3. CASE k = h
      <4>1. g[k] = step[h][F[h - 1]]  BY <3>1, <3>3
      <4> QED BY <3>2, <3>3, <4>1
    <3>4. CASE k # h
      <4>1. g[k] = F[k] /\ k <= h - 1  BY <2>6, <3>1, <3>4
      <4> QED BY <2>1, <3>2, <4>1
    <3> QED BY <3>3, <3>4
  <2>7. Upto(g, h)  BY <2>5, <2>6
  <2> QED BY <2>2, <2>7
<1>3. n \in S
  <2> HIDE DEF S
  <2>1. n \in 0 .. n  OBVIOUS
  <2> QED BY <1>1, <1>2, <2>1, UptoInduction
<1>4. PICK F : Upto(F, n)  BY <1>3
<1>5. \A k \in 0 .. n : F[k] = IF k = 0 THEN first ELSE step[k][F[k - 1]]
  <2> SUFFICES ASSUME NEW k \in 0 .. n, k # 0 PROVE F[k] = step[k][F[k - 1]]
    BY <1>4
  <2>1. k \in 1 .. n /\ k <= n  OBVIOUS
  <2> QED BY <1>4, <2>1
<1>6. F \in [0 .. n -> V]  BY <1>4
<1>7. F = [k \in 0 .. n |-> IF k = 0 THEN first ELSE step[k][F[k - 1]]]  BY <1>5, <1>6
<1> QED BY <1>6, <1>7 DEF Steps

\* A context with w blocks of m hashed, the next r bytes of it in hand and the count of old.
Holds(ctx, old, m, w, r) ==
    ctx \in Contexts /\ SameCount(ctx, old) /\ Hashed(ctx, m, w) /\ Held(ctx, m, w, r)

\* MD5Update over a piece that begins with a block of the message.
LEMMA WholeBlocksIs ==
    ASSUME NEW ctx \in Contexts, NEW m, NEW w, w \in Nat, Hashed(ctx, m, w),
           NEW buf \in Seq(Bytes), From(m, w, buf), NEW d, NEW r,
           Divided(Len(buf), BlockSize, d, r)
    PROVE  Holds(Hash!Blocks(ctx, buf), ctx, m, w + d, r)
<1> DEFINE B == BlockSize
           n == Len(buf)
           Part(k) == SubSeq(buf, (k - 1) * B + 1, k * B)
           Next1(x, k) == Hash!MD5Transform(Hash!Copy(x, 0, Part(k)))
           step == [k \in 1 .. d |-> [x \in Contexts |-> Next1(x, k)]]
           F == CHOOSE F : F = [k \in 0 .. n \div B |->
                    IF k = 0 THEN ctx
                    ELSE Hash!MD5Transform(Hash!Copy(F[k - 1], 0,
                             SubSeq(buf, (k - 1) * B + 1, k * B)))]
<1>1. /\ d \in Int /\ r \in Int /\ 0 <= r /\ r < B /\ n = d * B + r /\ n \div B = d
      /\ B \in Nat \ {0} /\ n \in Nat
  BY SizesAre DEF Sizes, Divided
<1> HIDE DEF B
<1>2. d \in Nat
  <2>1. CASE d <= 0 - 1
    <3>1. d * B <= 0 - B  BY <1>1, <2>1
    <3> QED BY <1>1, <3>1
  <2> QED BY <1>1, <2>1
<1>3. ASSUME NEW k \in 1 .. d
      PROVE  /\ (k - 1) * B \in Nat /\ k * B \in Nat /\ (k - 1) * B <= k * B
             /\ k * B <= n /\ k * B - (k - 1) * B = B
  <2>1. PICK a \in Nat : a = d - k  BY <1>2
  <2>2. PICK b \in Nat : b = k - 1  BY <1>2
  <2>3. a * B \in Nat /\ b * B \in Nat /\ k * B \in Nat /\ d * B \in Nat  BY <1>1, <1>2, <2>1, <2>2
  <2>4. k * B = b * B + B /\ d * B = a * B + k * B  BY <1>1, <1>2, <2>1, <2>2
  <2> QED BY <1>1, <2>2, <2>3, <2>4
<1>4. ASSUME NEW x \in Contexts, NEW k \in 1 .. d
      PROVE  Begins(Hash!Copy(x, 0, Part(k)), x, buf, (k - 1) * B, k * B)
  <2>1. PICK p : p \in Nat /\ p = (k - 1) * B  BY <1>3
  <2>2. PICK q : q \in Nat /\ q = k * B  BY <1>3
  <2>3. p <= q /\ q <= Len(buf) /\ q - p = B  BY <1>3, <2>1, <2>2
  <2>4. Begins(Hash!Copy(x, 0, SubSeq(buf, p + 1, q)), x, buf, p, q)
    BY <2>1, <2>2, <2>3, PartCopied
  <2> QED BY <2>1, <2>2, <2>4
<1>5. ASSUME NEW x \in Contexts, NEW k \in 1 .. d, Hashed(x, m, w + (k - 1))
      PROVE  Next1(x, k) \in Contexts /\ SameCount(Next1(x, k), x) /\ Hashed(Next1(x, k), m, w + k)
  <2> DEFINE y == Hash!Copy(x, 0, Part(k))
  <2>0. Begins(y, x, buf, (k - 1) * B, k * B)  BY <1>4
  <2> HIDE DEF y
  <2>1. \A i \in 1 .. B : y.in[i] = buf[(k - 1) * B + i]
    <3>1. \A i \in 1 .. B : i <= k * B - (k - 1) * B  BY <1>1, <1>3
    <3> QED BY <2>0, <3>1 DEF Begins, B
  <2>2. y \in Contexts /\ SameCount(y, x) /\ y.state = x.state  BY <2>0 DEF Begins
  <2>3. PICK v : v \in Nat /\ v = w + (k - 1) /\ v + 1 = w + k  BY <1>2
  <2>4. Hashed(y, m, v)  BY <1>5, <2>2, <2>3, CutStays
  <2>5. ASSUME NEW i \in 1 .. B PROVE y.in[i] = m[v * B + i]
    <3>1. PICK a \in Nat : a = (k - 1) * B  BY <1>3
    <3>2. PICK c \in Nat : c = w * B  BY <1>1
    <3>3. v * B = c + a
      <4>1. PICK b \in Nat : b = k - 1  BY <1>2
      <4>2. v = w + b /\ a = b * B  BY <2>3, <3>1, <4>1
      <4> QED BY <1>1, <3>2, <4>2
    <3>4. a + i \in 1 .. n
      <4>1. a + B <= n  BY <1>1, <1>3, <3>1
      <4> QED BY <1>1, <3>1, <4>1
    <3>5. m[w * B + (a + i)] = buf[a + i]  BY <3>4 DEF From, B
    <3>6. w * B + (a + i) = v * B + i  BY <1>1, <3>1, <3>2, <3>3
    <3> QED BY <2>1, <3>1, <3>5, <3>6
  <2>6. Held(y, m, v, B)  BY <2>5 DEF Held, B
  <2>7. /\ Hash!MD5Transform(y) \in Contexts /\ Hashed(Hash!MD5Transform(y), m, v + 1)
        /\ SameCount(Hash!MD5Transform(y), y)
    BY <2>2, <2>3, <2>4, <2>6, TransformIs DEF B
  <2> QED BY <2>2, <2>3, <2>7 DEF SameCount, y
<1>6. step \in [1 .. d -> [Contexts -> Contexts]]
  <2>1. ASSUME NEW k \in 1 .. d, NEW x \in Contexts PROVE Next1(x, k) \in Contexts
    <3>1. Hash!Copy(x, 0, Part(k)) \in Contexts  BY <1>4 DEF Begins
    <3>2. ASSUME NEW y \in Contexts PROVE Hash!MD5Transform(y) \in Contexts
      <4>1. y.state \in Seq(Blocks) /\ y.in \in Blocks  BY DEF Contexts
      <4>2. Append(y.state, y.in) \in Seq(Blocks)  BY <4>1, AppendProperties
      <4> QED BY <4>2 DEF Contexts, Hash!MD5Transform
    <3> QED BY <3>1, <3>2
  <2> HIDE DEF Next1
  <2> QED BY <2>1
<1>7. PICK G \in [0 .. d -> Contexts] : Steps(G, ctx, d, step)  BY <1>2, <1>6, StepsExist
<1>8. G = [k \in 0 .. n \div B |-> IF k = 0 THEN ctx
              ELSE Hash!MD5Transform(Hash!Copy(G[k - 1], 0,
                       SubSeq(buf, (k - 1) * B + 1, k * B)))]
  <2>1. G = [k \in 0 .. d |-> IF k = 0 THEN ctx ELSE step[k][G[k - 1]]]  BY <1>7 DEF Steps
  <2>2. ASSUME NEW k \in 0 .. d, k # 0 PROVE step[k][G[k - 1]] = Next1(G[k - 1], k)
    <3>1. k \in 1 .. d /\ k - 1 \in 0 .. d  BY <1>2, <2>2
    <3>2. G[k - 1] \in Contexts  BY <3>1
    <3> HIDE DEF Next1
    <3> QED BY <3>1, <3>2
  <2> HIDE DEF step
  <2> QED BY <1>1, <2>1, <2>2
<1>9. F = [k \in 0 .. n \div B |-> IF k = 0 THEN ctx
              ELSE Hash!MD5Transform(Hash!Copy(F[k - 1], 0,
                       SubSeq(buf, (k - 1) * B + 1, k * B)))]
  BY <1>8
<1>10. F[0] = ctx /\ \A k \in 1 .. d : F[k] = Next1(F[k - 1], k)
  <2>1. 0 \in 0 .. n \div B /\ \A k \in 1 .. d : k \in 0 .. n \div B /\ k # 0  BY <1>1, <1>2
  <2> HIDE DEF F
  <2> QED BY <1>9, <2>1
<1>11. Hash!Blocks(ctx, buf) = Hash!Copy(F[d], 0, SubSeq(buf, d * B + 1, n))
  BY <1>1 DEF Hash!Blocks, B
<1> HIDE DEF F
<1> DEFINE S == {k \in 0 .. d : F[k] \in Contexts /\ SameCount(F[k], ctx) /\ Hashed(F[k], m, w + k)}
<1>12. 0 \in S
  <2>1. 0 \in 0 .. d /\ w + 0 = w  BY <1>2
  <2> QED BY <1>10, <2>1 DEF SameCount
<1>13. ASSUME NEW k \in 1 .. d, k - 1 \in S PROVE k \in S
  <2>1. F[k - 1] \in Contexts /\ SameCount(F[k - 1], ctx) /\ Hashed(F[k - 1], m, w + (k - 1))
    BY <1>13
  <2>2. /\ Next1(F[k - 1], k) \in Contexts /\ SameCount(Next1(F[k - 1], k), F[k - 1])
        /\ Hashed(Next1(F[k - 1], k), m, w + k)
    BY <1>5, <2>1
  <2>3. F[k] = Next1(F[k - 1], k) /\ k \in 0 .. d  BY <1>10, <1>2
  <2> QED BY <2>1, <2>2, <2>3 DEF SameCount
<1>14. d \in S
  <2> HIDE DEF S
  <2>1. d \in 0 .. d  BY <1>2
  <2> QED BY <1>2, <1>12, <1>13, <2>1, UptoInduction
<1>15. F[d] \in Contexts /\ SameCount(F[d], ctx) /\ Hashed(F[d], m, w + d)  BY <1>14
<1> DEFINE y == F[d]
           z == Hash!Copy(y, 0, SubSeq(buf, d * B + 1, n))
<1>16. Begins(z, y, buf, d * B, n)
  <2>1. PICK p : p \in Nat /\ p = d * B  BY <1>1, <1>2
  <2>0. p <= n /\ n \in Nat  BY <1>1, <2>1
  <2>2. PICK q : q \in Nat /\ q = n /\ p <= q /\ q <= Len(buf)  BY <2>0
  <2>3. y \in Contexts  BY <1>15
  <2>4. Begins(Hash!Copy(y, 0, SubSeq(buf, p + 1, q)), y, buf, p, q)
    BY <2>1, <2>2, <2>3, PartCopied
  <2> QED BY <2>1, <2>2, <2>4
<1> HIDE DEF z
<1>17. z \in Contexts /\ SameCount(z, y) /\ z.state = y.state  BY <1>16 DEF Begins
<1>18. Hashed(z, m, w + d)  BY <1>15, <1>17, CutStays
<1>19. ASSUME NEW i \in 1 .. r PROVE z.in[i] = m[(w + d) * B + i]
  <2>1. PICK a \in Nat : a = d * B  BY <1>1, <1>2
  <2>2. PICK c \in Nat : c = w * B  BY <1>1
  <2>3. (w + d) * B = c + a  BY <1>1, <1>2, <2>1, <2>2
  <2>4. a + i \in 1 .. n /\ i \in 1 .. B /\ i <= r  BY <1>1, <2>1
  <2>5. m[w * B + (a + i)] = buf[a + i]  BY <2>4 DEF From, B
  <2>6. w * B + (a + i) = (w + d) * B + i  BY <1>1, <2>1, <2>2, <2>3
  <2>7. z.in[i] = buf[a + i]
    <3>1. i <= n - d * B  BY <1>1, <2>1, <2>4
    <3> QED BY <1>16, <2>1, <2>4, <3>1 DEF Begins, B
  <2> QED BY <2>1, <2>5, <2>6, <2>7
<1>20. Held(z, m, w + d, r)  BY <1>19 DEF Held, B
<1>21. Hash!Blocks(ctx, buf) = z  BY <1>11 DEF z
<1> QED BY <1>15, <1>17, <1>18, <1>20, <1>21 DEF Holds, SameCount

\* msg is what MD5Update has been given: its first w blocks are hashed, the r bytes
\* that are left are in hand, and all of it is counted.
Fed(ctx, msg, w, r) ==
    /\ ctx \in Contexts /\ w \in Nat /\ r \in 0 .. BlockSize - 1
    /\ Len(msg) = w * BlockSize + r /\ IsCounted(ctx, Len(msg))
    /\ Hashed(ctx, msg, w) /\ Held(ctx, msg, w, r)

\* The places of blocks that lie within the first w.
LEMMA WithinBlocks ==
    ASSUME NEW w, w \in Nat, NEW k, k \in 1 .. w, NEW i, i \in 1 .. BlockSize
    PROVE  (k - 1) * BlockSize + i \in 1 .. w * BlockSize
<1> DEFINE B == BlockSize
<1>1. B \in Nat  BY SizesAre DEF Sizes
<1> HIDE DEF B
<1>2. PICK a \in Nat : a = w - k  OBVIOUS
<1>3. PICK b \in Nat : b = k - 1  OBVIOUS
<1>4. a * B \in Nat /\ b * B \in Nat /\ w * B = a * B + b * B + B  BY <1>1, <1>2, <1>3
<1>5. b * B + i \in 1 .. w * B
  <2>1. i \in 1 .. B  BY DEF B
  <2> QED BY <1>1, <1>3, <1>4, <2>1
<1> QED BY <1>3, <1>5 DEF B

\* What has been hashed of a message has been hashed of a longer one.
LEMMA CutOfLonger ==
    ASSUME NEW ctx, NEW msg \in Seq(Bytes), NEW buf \in Seq(Bytes), NEW w, w \in Nat,
           Hashed(ctx, msg, w), w * BlockSize <= Len(msg)
    PROVE  Hashed(ctx, msg \o buf, w)
<1>1. /\ Len(msg \o buf) = Len(msg) + Len(buf)
      /\ \A j \in 1 .. Len(msg) : (msg \o buf)[j] = msg[j]
  BY ConcatProperties
<1>2. ASSUME NEW k \in 1 .. w, NEW i \in 1 .. BlockSize
      PROVE  ctx.state[k][i] = (msg \o buf)[(k - 1) * BlockSize + i]
  <2>1. PICK p : p = (k - 1) * BlockSize + i  OBVIOUS
  <2>2. p \in 1 .. w * BlockSize  BY <2>1, WithinBlocks
  <2>3. p \in 1 .. Len(msg)
    <3>1. PICK e \in Int : e = w * BlockSize  BY SizesAre DEF Sizes
    <3> QED BY <2>2, <3>1
  <2>4. ctx.state[k][i] = msg[p]  BY <2>1 DEF Hashed
  <2> QED BY <1>1, <2>1, <2>3, <2>4
<1> QED BY <1>2 DEF Hashed

\* MD5Update with one more piece of the message.
LEMMA UpdateIs ==
    ASSUME NEW ctx, NEW msg \in Seq(Bytes), NEW buf \in Seq(Bytes), NEW w, NEW r,
           Fed(ctx, msg, w, r)
    PROVE  \E w2, r2 : Fed(Hash!MD5Update(ctx, buf), msg \o buf, w2, r2)
<1> DEFINE B == BlockSize
           n == Len(buf)
           m == msg \o buf
           counted == Hash!CountBits(ctx, n)
           room == B - r
           u == Hash!MD5Update(ctx, buf)
<1>1. /\ ctx \in Contexts /\ w \in Nat /\ r \in 0 .. B - 1 /\ B \in Nat \ {0} /\ n \in Nat
      /\ Len(msg) = w * B + r /\ IsCounted(ctx, Len(msg))
      /\ Hashed(ctx, msg, w) /\ Held(ctx, msg, w, r)
  BY SizesAre DEF Fed, Sizes
<1>2. /\ m \in Seq(Bytes) /\ Len(m) = Len(msg) + n /\ Len(msg) \in Nat
      /\ \A j \in 1 .. Len(msg) : m[j] = msg[j]
      /\ \A j \in 1 .. n : m[Len(msg) + j] = buf[j]
  BY ConcatProperties
<1>3. Hash!Count(ctx) = r
  <2>1. IsCounted(ctx, w * BlockSize + r) /\ r \in 0 .. BlockSize - 1  BY <1>1
  <2> QED BY <1>1, <2>1, CountIs
<1>4. /\ counted \in Contexts /\ IsCounted(counted, Len(msg) + n)
      /\ counted.state = ctx.state /\ counted.in = ctx.in
  <2>1. PICK l : l \in Nat /\ l = Len(msg)  BY <1>2
  <2>2. IsCounted(ctx, l)  BY <1>1, <2>1
  <2> QED BY <1>1, <2>1, <2>2, CountBitsIs
<1>5. Hashed(counted, m, w)
  <2>1. w * BlockSize <= Len(msg)  BY <1>1
  <2>2. Hashed(ctx, m, w)  BY <1>1, <2>1, CutOfLonger
  <2> QED BY <1>4, <2>2, CutStays
<1>6. u = IF r = 0 THEN Hash!Blocks(counted, buf)
          ELSE IF n < room THEN Hash!Copy(counted, r, buf)
          ELSE Hash!Blocks(Hash!MD5Transform(Hash!Copy(counted, r, SubSeq(buf, 1, room))),
                           SubSeq(buf, room + 1, n))
  BY <1>3 DEF Hash!MD5Update
<1> HIDE DEF u, counted, m, B
<1>7. PICK c \in Nat : c = w * B  BY <1>1
<1>a. Len(msg) = c + r /\ Len(m) = c + r + n /\ r \in Nat /\ r < B
  BY <1>1, <1>2, <1>7
<1>8. ASSUME NEW i \in 1 .. r PROVE counted.in[i] = m[w * B + i]
  <2>1. w * B + i \in 1 .. Len(msg)  BY <1>1, <1>7
  <2>2. ctx.in[i] = msg[w * B + i]  BY <1>1 DEF Held, B
  <2> QED BY <1>2, <1>4, <2>1, <2>2
<1>9. ASSUME NEW new, NEW old, NEW v, v \in Nat, NEW s, s \in 0 .. B - 1,
             SameCount(old, counted), Holds(new, old, m, v, s), Len(m) = v * B + s
      PROVE  Fed(new, m, v, s)
  <2>1. new \in Contexts /\ SameCount(new, old) /\ Hashed(new, m, v) /\ Held(new, m, v, s)
    BY <1>9 DEF Holds
  <2>2. IsCounted(new, Len(m))  BY <1>2, <1>4, <1>9, <2>1 DEF SameCount, IsCounted
  <2> QED BY <1>9, <2>1, <2>2 DEF Fed, B
<1>10. CASE r = 0
  <2>1. PICK d, s : Divided(n, BlockSize, d, s)
    <3>1. n \in Int /\ BlockSize \in Nat \ {0}  BY <1>1 DEF B
    <3> QED BY <3>1, DivMod
  <2>2. d \in Int /\ s \in 0 .. B - 1 /\ n = d * B + s  BY <1>1, <2>1 DEF Divided, B
  <2>3. d \in Nat
    <3>1. CASE d <= 0 - 1
      <4>1. d * B <= 0 - B  BY <1>1, <3>1, <2>2
      <4>2. d * B \in Int  BY <1>1, <2>2
      <4> QED BY <1>1, <2>2, <4>1, <4>2
    <3> QED BY <2>2, <3>1
  <2>4. From(m, w, buf)
    <3>1. \A j \in 1 .. n : m[w * B + j] = buf[j]  BY <1>1, <1>2, <1>7, <1>10
    <3> QED BY <3>1 DEF From, B
  <2>5. Holds(Hash!Blocks(counted, buf), counted, m, w + d, s)
    BY <1>1, <1>4, <1>5, <2>1, <2>4, WholeBlocksIs
  <2>6. Len(m) = (w + d) * B + s /\ w + d \in Nat
    <3>1. PICK e \in Nat : e = d * B  BY <1>1, <2>3
    <3>2. (w + d) * B = c + e  BY <1>1, <1>7, <2>3, <3>1
    <3>3. n = e + s /\ s \in Nat  BY <1>1, <2>2, <3>1
    <3>4. w + d \in Nat  BY <1>1, <2>3
    <3> QED BY <1>a, <1>10, <3>2, <3>3, <3>4
  <2>7. Fed(Hash!Blocks(counted, buf), m, w + d, s)
    <3>1. PICK v : v \in Nat /\ v = w + d  BY <2>6
    <3>2. SameCount(counted, counted)  BY DEF SameCount
    <3> QED BY <1>9, <2>2, <2>5, <2>6, <3>1, <3>2
  <2> QED BY <1>6, <1>10, <2>7 DEF u, m
<1>11. CASE r # 0 /\ n < room
  <2>1. Copied(Hash!Copy(counted, r, buf), counted, r, buf)  BY <1>a, <1>4, CopyIs
  <2>2. u = Hash!Copy(counted, r, buf)  BY <1>6, <1>11
  <2>3. /\ u \in Contexts /\ SameCount(u, counted) /\ u.state = counted.state
        /\ \A i \in 1 .. B : u.in[i] = IF i > r /\ i <= r + n THEN buf[i - r] ELSE counted.in[i]
    BY <2>1, <2>2 DEF Copied, B
  <2>4. Hashed(u, m, w)  BY <1>5, <2>3, CutStays
  <2>5. ASSUME NEW i \in 1 .. r + n PROVE u.in[i] = m[w * B + i]
    <3>1. i \in 1 .. B  BY <1>1, <1>11
    <3>2. CASE i <= r
      <4>1. i \in 1 .. r /\ ~(i > r)  BY <1>1, <3>1, <3>2
      <4>2. u.in[i] = counted.in[i]  BY <2>3, <3>1, <4>1
      <4> QED BY <1>8, <4>1, <4>2
    <3>3. CASE ~(i <= r)
      <4>1. i - r \in 1 .. n /\ i > r /\ i <= r + n  BY <1>1, <3>3
      <4>2. u.in[i] = buf[i - r]  BY <2>3, <3>1, <4>1
      <4>3. Len(msg) + (i - r) = w * B + i  BY <1>1, <1>7
      <4> QED BY <1>2, <4>1, <4>2, <4>3
    <3> QED BY <3>2, <3>3
  <2>6. Held(u, m, w, r + n)  BY <2>5 DEF Held, B
  <2>7. Holds(u, counted, m, w, r + n)  BY <2>3, <2>4, <2>6 DEF Holds
  <2>8. PICK s : s \in 0 .. B - 1 /\ s = r + n /\ Len(m) = w * B + s
    <3>1. r + n \in 0 .. B - 1  BY <1>1, <1>a, <1>11
    <3>2. Len(m) = w * B + (r + n)  BY <1>1, <1>a, <1>7
    <3> QED BY <3>1, <3>2
  <2>9. Fed(u, m, w, s)
    <3>1. SameCount(counted, counted)  BY DEF SameCount
    <3> QED BY <1>1, <1>9, <2>7, <2>8, <3>1
  <2> QED BY <2>9 DEF u, m
<1>12. CASE r # 0 /\ ~(n < room)
  <2> DEFINE head == SubSeq(buf, 1, room)
             tail == SubSeq(buf, room + 1, n)
             full == Hash!Copy(counted, r, head)
             hashed == Hash!MD5Transform(full)
  <2>1. room \in Nat /\ room >= 1 /\ room <= n /\ room \in Int /\ r + room = B  BY <1>1, <1>12
  <2>2. head \in Seq(Bytes) /\ Len(head) = room /\ \A j \in 1 .. room : head[j] = buf[j]
    <3>1. PICK b \in Int : b = room  BY <2>1
    <3>2. \A j \in 1 .. b : buf[j] \in Bytes  BY <1>1, <2>1, <3>1
    <3>3. /\ SubSeq(buf, 1, b) \in Seq(Bytes)
          /\ Len(SubSeq(buf, 1, b)) = IF 1 <= b THEN b - 1 + 1 ELSE 0
          /\ \A j \in 1 .. b - 1 + 1 : SubSeq(buf, 1, b)[j] = buf[1 + j - 1]
      BY <3>2, SubSeqProperties
    <3>4. SubSeq(buf, 1, b) = head /\ b - 1 + 1 = b /\ 1 <= b  BY <2>1, <3>1
    <3>5. \A j \in 1 .. b : 1 + j - 1 = j  OBVIOUS
    <3> HIDE DEF head
    <3> QED BY <3>1, <3>3, <3>4, <3>5
  <2>3. tail \in Seq(Bytes) /\ Len(tail) = n - room /\ \A j \in 1 .. n - room : tail[j] = buf[room + j]
    <3>1. PICK a \in Int : a = room + 1  BY <2>1
    <3>2. PICK b \in Int : b = n  BY <1>1
    <3>3. \A j \in a .. b : buf[j] \in Bytes  BY <1>1, <2>1, <3>1, <3>2
    <3>4. /\ SubSeq(buf, a, b) \in Seq(Bytes)
          /\ Len(SubSeq(buf, a, b)) = IF a <= b THEN b - a + 1 ELSE 0
          /\ \A j \in 1 .. b - a + 1 : SubSeq(buf, a, b)[j] = buf[a + j - 1]
      BY <3>3, SubSeqProperties
    <3>5. SubSeq(buf, a, b) = tail /\ b - a + 1 = n - room  BY <1>1, <2>1, <3>1, <3>2
    <3>6. (IF a <= b THEN b - a + 1 ELSE 0) = n - room  BY <1>1, <2>1, <3>1, <3>2
    <3>7. \A j \in 1 .. n - room : a + j - 1 = room + j  BY <1>1, <2>1, <3>1
    <3> HIDE DEF tail
    <3> QED BY <3>4, <3>5, <3>6, <3>7
  <2> HIDE DEF head, tail
  <2>4. Copied(full, counted, r, head)
    <3>1. r \in Nat  BY <1>1
    <3> QED BY <1>4, <2>2, <3>1, CopyIs
  <2> HIDE DEF full
  <2>5. /\ full \in Contexts /\ SameCount(full, counted) /\ full.state = counted.state
        /\ \A i \in 1 .. B : full.in[i] =
               IF i > r /\ i <= r + room THEN head[i - r] ELSE counted.in[i]
    BY <2>2, <2>4 DEF Copied, B
  <2>6. Hashed(full, m, w)  BY <1>5, <2>5, CutStays
  <2>7. ASSUME NEW i \in 1 .. B PROVE full.in[i] = m[w * B + i]
    <3>2. CASE i <= r
      <4>1. i \in 1 .. r /\ ~(i > r)  BY <1>1, <3>2
      <4>2. full.in[i] = counted.in[i]  BY <2>5, <4>1
      <4> QED BY <1>8, <4>1, <4>2
    <3>3. CASE ~(i <= r)
      <4>1. /\ i - r \in 1 .. room /\ i - r \in 1 .. n /\ i > r /\ i <= r + room
        BY <1>1, <2>1, <3>3
      <4>2. full.in[i] = head[i - r]  BY <2>5, <4>1
      <4>3. head[i - r] = buf[i - r]  BY <2>2, <4>1
      <4>4. Len(msg) + (i - r) = w * B + i  BY <1>1, <1>7
      <4> QED BY <1>2, <4>1, <4>2, <4>3, <4>4
    <3> QED BY <3>2, <3>3
  <2>8. Held(full, m, w, BlockSize)  BY <2>7 DEF Held, B
  <2>9. hashed \in Contexts /\ Hashed(hashed, m, w + 1) /\ SameCount(hashed, full)
    BY <1>1, <2>5, <2>6, <2>8, TransformIs
  <2> HIDE DEF hashed
  <2>10. PICK v : v \in Nat /\ v = w + 1 /\ v * B = c + B
    <3>1. (w + 1) * B = c + B /\ w + 1 \in Nat  BY <1>1, <1>7
    <3> QED BY <3>1
  <2>11. From(m, v, tail)
    <3>1. ASSUME NEW j \in 1 .. n - room PROVE m[v * B + j] = tail[j]
      <4>1. room + j \in 1 .. n /\ Len(msg) + (room + j) = v * B + j
        BY <1>1, <1>7, <2>1, <2>10
      <4> QED BY <1>2, <2>3, <4>1
    <3> QED BY <2>3, <3>1 DEF From, B
  <2>12. PICK d, s : Divided(Len(tail), BlockSize, d, s)
    <3>1. Len(tail) \in Int /\ BlockSize \in Nat \ {0}  BY <1>1, <2>1, <2>3 DEF B
    <3> QED BY <3>1, DivMod
  <2>13. d \in Int /\ s \in 0 .. B - 1 /\ n - room = d * B + s
    <3>1. /\ d \in Int /\ s \in Int /\ 0 <= s /\ s < B /\ Len(tail) = d * B + s
      BY <2>12 DEF Divided, B
    <3>2. s \in 0 .. B - 1  BY <1>1, <3>1
    <3> QED BY <2>3, <3>1, <3>2
  <2>14. d \in Nat
    <3>1. CASE d <= 0 - 1
      <4>1. d * B <= 0 - B  BY <1>1, <3>1, <2>13
      <4>2. d * B \in Int  BY <1>1, <2>13
      <4> QED BY <1>1, <2>1, <2>13, <4>1, <4>2
    <3> QED BY <2>13, <3>1
  <2>15. Holds(Hash!Blocks(hashed, tail), hashed, m, v + d, s)
    <3>1. Hashed(hashed, m, v)  BY <2>9, <2>10
    <3> QED BY <2>3, <2>9, <2>10, <2>11, <2>12, <3>1, WholeBlocksIs
  <2>16. Len(m) = (v + d) * B + s /\ v + d \in Nat
    <3>1. PICK e \in Nat : e = d * B  BY <1>1, <2>14
    <3>2. (v + d) * B = (c + B) + e
      <4>1. PICK x \in Nat : x = v * B  BY <2>10, <1>1, <1>7
      <4>2. (v + d) * B = x + e  BY <1>1, <2>10, <2>14, <3>1, <4>1
      <4> QED BY <2>10, <4>1, <4>2
    <3>3. n - room = e + s /\ s \in Nat  BY <1>1, <2>13, <3>1
    <3>4. v + d \in Nat  BY <2>10, <2>14
    <3>5. n = room + e + s  BY <1>1, <2>1, <3>3
    <3>6. c + r + n = (c + B) + e + s  BY <1>a, <1>1, <2>1, <3>3, <3>5
    <3> QED BY <1>a, <3>2, <3>4, <3>6
  <2>17. Fed(Hash!Blocks(hashed, tail), m, v + d, s)
    <3>1. PICK x : x \in Nat /\ x = v + d  BY <2>16
    <3>2. SameCount(hashed, counted)  BY <2>5, <2>9 DEF SameCount
    <3> QED BY <1>9, <2>13, <2>15, <2>16, <3>1, <3>2
  <2>18. u = Hash!Blocks(hashed, tail)  BY <1>6, <1>12 DEF hashed, full, head, tail
  <2> QED BY <2>17, <2>18 DEF u, m
<1> QED BY <1>10, <1>11, <1>12

\* A message with its mark, zeros to the length and the length, blocks blocks in all.
Counts(n) == <<(n * ByteBits) % WordValues, ((n * ByteBits) \div WordValues) % WordValues>>
Whole(msg, total) ==
    msg \o <<Hash!Pad>> \o Hash!Fill(Hash!Zero, total - Len(msg) - 1 - LengthSize)
        \o Hash!Fill(Counts(Len(msg)), LengthSize)

\* What it has at each place.
LaidOut(m, msg, total) ==
    /\ m \in Seq(Bytes) /\ Len(m) = total
    /\ \A p \in 1 .. Len(msg) : m[p] = msg[p]
    /\ m[Len(msg) + 1] = Hash!Pad
    /\ \A p \in Len(msg) + 2 .. total - LengthSize : m[p] = Hash!Zero
    /\ \A p \in total - LengthSize + 1 .. total : m[p] = Counts(Len(msg))

\* The bytes that are not of the message.
LEMMA MarksAreBytes ==
    /\ Hash!Pad \in Bytes /\ Hash!Zero \in Bytes
    /\ \A n \in Nat : Counts(n) \in Bytes
<1>1. ByteBits \in Nat \ {0} /\ WordValues \in Nat \ {0}  BY SizesAre DEF Sizes
<1>2. ASSUME NEW n \in Nat PROVE Counts(n) \in Nat \X Nat
  <2>1. PICK a \in Nat : a = n * ByteBits  BY <1>1
  <2>2. a % WordValues \in Nat /\ a \div WordValues \in Nat  BY <1>1
  <2>3. (a \div WordValues) % WordValues \in Nat  BY <1>1, <2>2
  <2> QED BY <2>1, <2>2, <2>3 DEF Counts
<1> QED BY <1>2 DEF Bytes

\* One byte over and over.
LEMMA FillIsSeq ==
    ASSUME NEW x \in Bytes, NEW n, n \in Nat
    PROVE  /\ Hash!Fill(x, n) \in Seq(Bytes) /\ Len(Hash!Fill(x, n)) = n
           /\ \A i \in 1 .. n : Hash!Fill(x, n)[i] = x
<1> DEFINE s == Hash!Fill(x, n)
<1>1. s = [i \in 1 .. n |-> x]  BY DEF Hash!Fill
<1> HIDE DEF s
<1>2. s \in [1 .. n -> Bytes]  BY <1>1
<1>3. s \in Seq(Bytes)  BY <1>2, SeqDef
<1>4. Len(s) = n  BY <1>2, <1>3, LenProperties
<1> QED BY <1>1, <1>3, <1>4 DEF s

\* The mark as a piece of its own.
LEMMA MarkIsSeq ==
    <<Hash!Pad>> \in Seq(Bytes) /\ Len(<<Hash!Pad>>) = 1 /\ <<Hash!Pad>>[1] = Hash!Pad
<1>1. PICK x \in Bytes : x = Hash!Pad  BY MarksAreBytes
<1>2. <<x>> \in Seq(Bytes) /\ Len(<<x>>) = 1 /\ <<x>>[1] = x  OBVIOUS
<1> QED BY <1>1, <1>2

\* One piece after another.
Joined(u, s, t) ==
    /\ u \in Seq(Bytes) /\ Len(u) = Len(s) + Len(t)
    /\ \A p \in 1 .. Len(s) : u[p] = s[p]
    /\ \A p \in 1 .. Len(t) : u[Len(s) + p] = t[p]

LEMMA JoinIs ==
    ASSUME NEW s \in Seq(Bytes), NEW t \in Seq(Bytes)
    PROVE  Joined(s \o t, s, t)
<1>1. /\ s \o t \in Seq(Bytes) /\ Len(s \o t) = Len(s) + Len(t)
      /\ \A p \in 1 .. Len(s) + Len(t) :
             (s \o t)[p] = IF p <= Len(s) THEN s[p] ELSE t[p - Len(s)]
  BY ConcatProperties
<1>2. Len(s) \in Nat /\ Len(t) \in Nat  OBVIOUS
<1>3. PICK u : u = s \o t  OBVIOUS
<1>4. \A p \in 1 .. Len(s) : u[p] = s[p]  BY <1>1, <1>2, <1>3
<1>5. \A p \in 1 .. Len(t) : u[Len(s) + p] = t[p]
  <2> SUFFICES ASSUME NEW p \in 1 .. Len(t) PROVE u[Len(s) + p] = t[p]  OBVIOUS
  <2>1. /\ Len(s) + p \in 1 .. Len(s) + Len(t) /\ ~(Len(s) + p <= Len(s))
        /\ (Len(s) + p) - Len(s) = p
    BY <1>2
  <2> QED BY <1>1, <1>3, <2>1
<1> QED BY <1>1, <1>3, <1>4, <1>5 DEF Joined

LEMMA WholeIs ==
    ASSUME NEW msg \in Seq(Bytes), NEW total, total \in Nat, Len(msg) + 1 + LengthSize <= total
    PROVE  LaidOut(Whole(msg, total), msg, total)
<1> DEFINE n == Len(msg)
           x == Counts(n)
           z == total - n - 1 - LengthSize
           a == <<Hash!Pad>>
           b == Hash!Fill(Hash!Zero, z)
           c == Hash!Fill(x, LengthSize)
           m == Whole(msg, total)
<1>1. n \in Nat /\ LengthSize \in Nat /\ z \in Nat  BY SizesAre DEF Sizes
<1>2. a \in Seq(Bytes) /\ Len(a) = 1 /\ a[1] = Hash!Pad  BY MarkIsSeq
<1>3. b \in Seq(Bytes) /\ Len(b) = z /\ \A i \in 1 .. z : b[i] = Hash!Zero
  BY <1>1, MarksAreBytes, FillIsSeq
<1>4. c \in Seq(Bytes) /\ Len(c) = LengthSize /\ \A i \in 1 .. LengthSize : c[i] = x
  <2>1. x \in Bytes  BY <1>1, MarksAreBytes
  <2> HIDE DEF x
  <2> QED BY <1>1, <2>1, FillIsSeq
<1>5. m = ((msg \o a) \o b) \o c  BY DEF Whole
<1> HIDE DEF a, b, c, m, x
<1>6. PICK d : d = msg \o a  OBVIOUS
<1>7. /\ d \in Seq(Bytes) /\ Len(d) = n + 1
      /\ \A p \in 1 .. n : d[p] = msg[p]
      /\ \A p \in 1 .. 1 : d[n + p] = a[p]
  <2>1. Joined(d, msg, a)  BY <1>2, <1>6, JoinIs
  <2> QED BY <1>2, <2>1 DEF Joined
<1>8. PICK e : e = d \o b  OBVIOUS
<1>9. /\ e \in Seq(Bytes) /\ Len(e) = n + 1 + z
      /\ \A p \in 1 .. n + 1 : e[p] = d[p]
      /\ \A p \in 1 .. z : e[n + 1 + p] = b[p]
  <2>1. Joined(e, d, b)  BY <1>3, <1>7, <1>8, JoinIs
  <2> HIDE DEF z
  <2> QED BY <1>3, <1>7, <2>1 DEF Joined
<1>10. m = e \o c  BY <1>5, <1>6, <1>8
<1>11. /\ m \in Seq(Bytes) /\ Len(m) = n + 1 + z + LengthSize
       /\ \A p \in 1 .. n + 1 + z : m[p] = e[p]
       /\ \A p \in 1 .. LengthSize : m[n + 1 + z + p] = c[p]
  <2>1. Joined(m, e, c)  BY <1>4, <1>9, <1>10, JoinIs
  <2> HIDE DEF z
  <2> QED BY <1>4, <1>9, <2>1 DEF Joined
<1>12. n + 1 + z = total - LengthSize /\ n + 1 + z + LengthSize = total  BY <1>1
<1>13. ASSUME NEW p \in 1 .. n PROVE m[p] = msg[p]
  <2>1. p \in 1 .. n + 1 /\ p \in 1 .. n + 1 + z  BY <1>1
  <2> QED BY <1>7, <1>9, <1>11, <2>1
<1>14. m[n + 1] = Hash!Pad
  <2>1. n + 1 \in 1 .. n + 1 /\ n + 1 \in 1 .. n + 1 + z /\ 1 \in 1 .. 1  BY <1>1
  <2> QED BY <1>2, <1>7, <1>9, <1>11, <2>1
<1>15. ASSUME NEW p \in n + 2 .. total - LengthSize PROVE m[p] = Hash!Zero
  <2>1. p - (n + 1) \in 1 .. z /\ p \in 1 .. n + 1 + z /\ n + 1 + (p - (n + 1)) = p
    BY <1>1, <1>12
  <2>2. e[p] = b[p - (n + 1)]  BY <1>9, <2>1
  <2> QED BY <1>3, <1>11, <2>1, <2>2
<1>16. ASSUME NEW p \in total - LengthSize + 1 .. total PROVE m[p] = x
  <2>1. /\ p - (n + 1 + z) \in 1 .. LengthSize
        /\ n + 1 + z + (p - (n + 1 + z)) = p
    BY <1>1, <1>12
  <2>2. m[p] = c[p - (n + 1 + z)]  BY <1>11, <2>1
  <2> QED BY <1>4, <2>1, <2>2
<1>17. Len(m) = total  BY <1>11, <1>12
<1> HIDE DEF z
<1> QED BY <1>11, <1>13, <1>14, <1>15, <1>16, <1>17 DEF LaidOut, m, x

\* The state is the first q blocks of m.
IsCutUp(state, m, q) ==
    state = [k \in 1 .. q |-> SubSeq(m, (k - 1) * BlockSize + 1, k * BlockSize)]

\* Once all q blocks of m are hashed, the state is m cut into blocks.
LEMMA StateIs ==
    ASSUME NEW ctx \in Contexts, NEW m \in Seq(Bytes), NEW q, q \in Nat, Hashed(ctx, m, q),
           Len(m) = q * BlockSize
    PROVE  IsCutUp(ctx.state, m, q)
<1> DEFINE B == BlockSize
<1>1. B \in Nat \ {0}  BY SizesAre DEF Sizes
<1>2. ctx.state \in Seq(Blocks) /\ Len(ctx.state) = q  BY DEF Contexts, Hashed
<1>3. ctx.state \in [1 .. q -> Blocks]  BY <1>2, LenProperties
<1>4. ASSUME NEW k \in 1 .. q
      PROVE  ctx.state[k] = SubSeq(m, (k - 1) * B + 1, k * B)
  <2>1. ctx.state[k] \in Blocks  BY <1>3
  <2>2. ctx.state[k] \in [1 .. B -> Bytes]  BY <2>1 DEF Blocks
  <2>3. \A i \in 1 .. B : ctx.state[k][i] = m[(k - 1) * B + i]  BY DEF Hashed
  <2>4. \A i \in 1 .. B : (k - 1) * B + i \in 1 .. q * B  BY WithinBlocks
  <2> HIDE DEF B
  <2>5. PICK p : p \in Nat /\ p = (k - 1) * B  BY <1>1
  <2>6. k * B = p + B
    <3>1. PICK j \in Nat : j = k - 1  OBVIOUS
    <3> QED BY <1>1, <2>5, <3>1
  <2>7. PICK x \in Int : x = p + 1  BY <2>5
  <2>8. PICK y \in Int : y = k * B /\ y = p + B  BY <1>1, <2>5, <2>6
  <2>9. PICK e \in Int : e = q * B  BY <1>1
  <2>10. Len(m) = e  BY <2>9 DEF B
  <2>11. \A i \in 1 .. B : p + i \in 1 .. Len(m)
    <3>1. \A i \in 1 .. B : p + i \in 1 .. e  BY <2>4, <2>5, <2>9
    <3> QED BY <2>10, <3>1
  <2>12. \A j \in x .. y : m[j] \in Bytes
    <3> SUFFICES ASSUME NEW j \in x .. y PROVE m[j] \in Bytes  OBVIOUS
    <3>1. j - p \in 1 .. B /\ p + (j - p) = j  BY <1>1, <2>5, <2>7, <2>8
    <3>2. j \in 1 .. Len(m)  BY <2>11, <3>1
    <3> QED BY <3>2
  <2>13. /\ SubSeq(m, x, y) \in Seq(Bytes)
         /\ Len(SubSeq(m, x, y)) = IF x <= y THEN y - x + 1 ELSE 0
         /\ \A i \in 1 .. y - x + 1 : SubSeq(m, x, y)[i] = m[x + i - 1]
    BY <2>12, SubSeqProperties
  <2>14. PICK s : s = SubSeq(m, x, y)  OBVIOUS
  <2>15. y - x + 1 = B /\ (IF x <= y THEN y - x + 1 ELSE 0) = B
    BY <1>1, <2>5, <2>7, <2>8
  <2>16. s \in Seq(Bytes) /\ Len(s) = B /\ \A i \in 1 .. B : s[i] = m[x + i - 1]
    BY <2>13, <2>14, <2>15
  <2>17. s \in [1 .. B -> Bytes]  BY <2>16, LenProperties
  <2>18. \A i \in 1 .. B : s[i] = m[p + i]
    <3>1. \A i \in 1 .. B : x + i - 1 = p + i  BY <2>5, <2>7
    <3> QED BY <2>16, <3>1
  <2>19. \A i \in 1 .. B : ctx.state[k][i] = s[i]  BY <2>3, <2>5, <2>18
  <2>20. ctx.state[k] = s
    <3>1. PICK g : g = ctx.state[k]  OBVIOUS
    <3>2. g \in [1 .. B -> Bytes] /\ \A i \in 1 .. B : g[i] = s[i]  BY <2>2, <2>19, <3>1
    <3>3. g = [i \in 1 .. B |-> g[i]] /\ s = [i \in 1 .. B |-> s[i]]  BY <2>17, <3>2
    <3>4. [i \in 1 .. B |-> g[i]] = [i \in 1 .. B |-> s[i]]  BY <3>2
    <3> QED BY <3>1, <3>3, <3>4
  <2> QED BY <2>5, <2>7, <2>8, <2>14, <2>20
<1>5. ctx.state = [k \in 1 .. q |-> SubSeq(m, (k - 1) * BlockSize + 1, k * BlockSize)]
  BY <1>3, <1>4
<1> QED BY <1>5 DEF IsCutUp

\* The number of blocks of a message with its mark and its length.
BlocksOf(msg) == (Len(msg) + 1 + LengthSize + BlockSize - 1) \div BlockSize

LEMMA DigestOfIs ==
    ASSUME NEW msg \in Seq(Bytes), NEW q, q \in Nat, q = BlocksOf(msg)
    PROVE  Hash!DigestOf(msg) = [k \in 1 .. q |->
               SubSeq(Whole(msg, q * BlockSize), (k - 1) * BlockSize + 1, k * BlockSize)]
<1>1. (q * BlockSize) \div BlockSize = q
  <2>1. PICK b : b \in Nat \ {0} /\ b = BlockSize  BY SizesAre DEF Sizes
  <2>2. PICK a : a \in Int /\ a = q * b  BY <2>1
  <2>3. a = q * b + 0 /\ 0 \in 0 .. b - 1  BY <2>1, <2>2
  <2>4. a \div b = q  BY <2>1, <2>2, <2>3, DivIs
  <2> QED BY <2>1, <2>2, <2>4
<1>2. Hash!DigestOf(msg) = [k \in 1 .. (q * BlockSize) \div BlockSize |->
          SubSeq(Whole(msg, q * BlockSize), (k - 1) * BlockSize + 1, k * BlockSize)]
  BY DEF Hash!DigestOf, Whole, Counts, BlocksOf
<1> QED BY <1>1, <1>2

\* The last block: zeros after what is in hand, and the length.
Closing(old, at, k, n) ==
    Hash!Copy(Hash!Copy(old, at, Hash!Fill(Hash!Zero, k)), BlockSize - LengthSize,
              Hash!Fill(Counts(n), LengthSize))

LEMMA ClosingIs ==
    ASSUME NEW old \in Contexts, NEW m, NEW msg \in Seq(Bytes), NEW v, v \in Nat, NEW at, at \in Nat,
           NEW k, k \in Nat, at + k = BlockSize - LengthSize, NEW g, g \in Nat,
           g = v * BlockSize, LaidOut(m, msg, g + BlockSize), Len(msg) + 1 <= g + at,
           Hashed(old, m, v), Held(old, m, v, at)
    PROVE  IsCutUp(Hash!MD5Transform(Closing(old, at, k, Len(msg))).state, m, v + 1)
<1> DEFINE B == BlockSize
           L == LengthSize
           n == Len(msg)
           x == Counts(n)
           z == Hash!Fill(Hash!Zero, k)
           mid == Hash!Copy(old, at, z)
           tail == Hash!Fill(x, L)
           new == Hash!Copy(mid, B - L, tail)
<1>1. B \in Nat /\ L \in Nat /\ L < B /\ n \in Nat /\ n + 1 <= g + at
  BY SizesAre DEF Sizes
<1>2. PICK e : e \in Nat /\ e = g + B  BY <1>1
<1>3. /\ m \in Seq(Bytes) /\ Len(m) = e
      /\ \A p \in n + 2 .. e - L : m[p] = Hash!Zero
      /\ \A p \in e - L + 1 .. e : m[p] = x
  BY <1>2 DEF LaidOut
<1>4. z \in Seq(Bytes) /\ Len(z) = k /\ \A i \in 1 .. k : z[i] = Hash!Zero
  BY MarksAreBytes, FillIsSeq
<1>5. tail \in Seq(Bytes) /\ Len(tail) = L /\ \A i \in 1 .. L : tail[i] = x
  <2>1. x \in Bytes  BY <1>1, MarksAreBytes
  <2> HIDE DEF x
  <2> QED BY <1>1, <2>1, FillIsSeq
<1>6. Closing(old, at, k, n) = new  BY DEF Closing
<1> HIDE DEF z, tail, x
<1>7. Copied(mid, old, at, z)  BY <1>4, CopyIs
<1> HIDE DEF mid
<1>8. /\ mid \in Contexts /\ mid.state = old.state
      /\ \A i \in 1 .. B : mid.in[i] = IF i > at /\ i <= at + k THEN z[i - at] ELSE old.in[i]
  BY <1>4, <1>7 DEF Copied
<1>9. PICK b : b \in Nat /\ b = B - L  BY <1>1
<1>10. Copied(Hash!Copy(mid, b, tail), mid, b, tail)  BY <1>5, <1>8, <1>9, CopyIs
<1>11. /\ new \in Contexts /\ new.state = mid.state
       /\ \A i \in 1 .. B : new.in[i] = IF i > b /\ i <= b + L THEN tail[i - b] ELSE mid.in[i]
  BY <1>5, <1>9, <1>10 DEF Copied
<1> HIDE DEF new
<1>12. ASSUME NEW i \in 1 .. B PROVE new.in[i] = m[g + i]
  <2>1. CASE i > b
    <3>1. /\ i <= b + L /\ i - b \in 1 .. L /\ g + i \in e - L + 1 .. e
      BY <1>1, <1>2, <1>9, <2>1
    <3>2. new.in[i] = tail[i - b]  BY <1>11, <2>1, <3>1
    <3> QED BY <1>3, <1>5, <3>1, <3>2
  <2>2. CASE ~(i > b) /\ i > at
    <3>1. i <= at + k /\ i - at \in 1 .. k /\ g + i \in n + 2 .. e - L
      BY <1>1, <1>2, <1>9, <2>2
    <3>2. new.in[i] = mid.in[i]  BY <1>11, <2>2
    <3>3. mid.in[i] = z[i - at]  BY <1>8, <2>2, <3>1
    <3> QED BY <1>3, <1>4, <3>1, <3>2, <3>3
  <2>3. CASE ~(i > b) /\ ~(i > at)
    <3>1. i \in 1 .. at  BY <2>3
    <3>2. new.in[i] = mid.in[i]  BY <1>11, <2>3
    <3>3. mid.in[i] = old.in[i]  BY <1>8, <2>3
    <3>4. old.in[i] = m[v * B + i]  BY <3>1 DEF Held
    <3> QED BY <3>2, <3>3, <3>4
  <2> QED BY <2>1, <2>2, <2>3
<1>13. Held(new, m, v, BlockSize)  BY <1>12 DEF Held
<1>14. Hashed(new, m, v)
  <2>1. new.state = old.state  BY <1>8, <1>11
  <2> QED BY <2>1, CutStays
<1>15. Hash!MD5Transform(new) \in Contexts /\ Hashed(Hash!MD5Transform(new), m, v + 1)
  BY <1>11, <1>13, <1>14, TransformIs
<1>16. PICK y : y \in Nat /\ y = v + 1  OBVIOUS
<1>17. Len(m) = y * BlockSize
  <2>1. (v + 1) * B = g + B  BY <1>1
  <2> QED BY <1>2, <1>3, <1>16, <2>1
<1>18. PICK final : final = Hash!MD5Transform(new)  OBVIOUS
<1>19. final \in Contexts /\ Hashed(final, m, y)  BY <1>15, <1>16, <1>18
<1>20. IsCutUp(final.state, m, y)  BY <1>3, <1>16, <1>17, <1>19, StateIs
<1> QED BY <1>6, <1>16, <1>18, <1>20

\* MD5Final closes what has been fed with the mark, the zeros and the length.
LEMMA FinalIs ==
    ASSUME NEW ctx, NEW msg \in Seq(Bytes), NEW w, NEW r, Fed(ctx, msg, w, r)
    PROVE  Hash!MD5Final(ctx) = Hash!DigestOf(msg)
<1> DEFINE B == BlockSize
           L == LengthSize
           n == Len(msg)
           x == Counts(n)
           padded == Hash!Copy(ctx, r, <<Hash!Pad>>)
           left == B - 1 - r
           more == left < L
           zeros == Hash!Fill(Hash!Zero, left)
           few == Hash!Fill(Hash!Zero, left - L)
           first == Hash!Copy(padded, r + 1, zeros)
           hashed == Hash!MD5Transform(first)
           upto == Hash!Fill(Hash!Zero, B - L)
           zeroed == IF more THEN Hash!Copy(hashed, 0, upto) ELSE Hash!Copy(padded, r + 1, few)
           tail == Hash!Fill(x, L)
           closed == Hash!Copy(zeroed, B - L, tail)
           final == Hash!MD5Transform(closed)
           q == IF more THEN w + 2 ELSE w + 1
           m == Whole(msg, q * B)
<1>1. /\ ctx \in Contexts /\ w \in Nat /\ r \in 0 .. B - 1 /\ B \in Nat \ {0}
      /\ L \in Nat /\ L < B /\ n \in Nat
      /\ Len(msg) = w * B + r /\ IsCounted(ctx, n) /\ Hashed(ctx, msg, w) /\ Held(ctx, msg, w, r)
  BY SizesAre DEF Fed, Sizes
<1>2. Hash!Count(ctx) = r
  <2>1. IsCounted(ctx, w * BlockSize + r) /\ r \in 0 .. BlockSize - 1  BY <1>1
  <2> QED BY <1>1, <2>1, CountIs
<1>3. Hash!LengthBytes(ctx) = tail
  BY <1>1 DEF Hash!LengthBytes, IsCounted, Counts
<1>4. Hash!MD5Final(ctx) = final.state
  BY <1>2, <1>3 DEF Hash!MD5Final
<1>5. x \in Bytes /\ Hash!Pad \in Bytes /\ Hash!Zero \in Bytes  BY <1>1, MarksAreBytes
<1>6. PICK c : c \in Nat /\ c = w * B /\ (w + 1) * B = c + B /\ (w + 2) * B = c + B + B
  <2>1. w * B \in Nat /\ (w + 1) * B = w * B + B /\ (w + 2) * B = w * B + B + B  BY <1>1
  <2> QED BY <2>1
<1>7. /\ n = c + r /\ n \in Nat /\ r \in Nat /\ r < B /\ B \in Nat /\ B > 0
      /\ L \in Nat /\ L < B /\ c \in Nat
  BY <1>1, <1>6
<1>8. q \in Nat /\ q = BlocksOf(msg) /\ n + 1 + L <= q * B /\ q * B \in Nat
  <2> DEFINE t == n + 1 + L + B - 1
  <2>1. CASE more
    <3>1. r + 1 + L + B - 1 - (B + B) \in 0 .. B - 1  BY <1>1, <2>1
    <3>2. PICK s : s \in 0 .. B - 1 /\ s = r + 1 + L + B - 1 - (B + B)  BY <3>1
    <3>3. PICK v : v \in Int /\ v = w + 2 /\ v * B = c + B + B  BY <1>1, <1>6
    <3>4. PICK a : a \in Int /\ a = t  BY <1>1
    <3>5. PICK b : b \in Nat \ {0} /\ b = B  BY <1>1
    <3>6. a = v * b + s
      <4>1. a = c + B + B + s  BY <1>7, <3>2, <3>4
      <4> QED BY <3>3, <3>5, <4>1
    <3>7. s \in 0 .. b - 1  BY <3>2, <3>5
    <3>8. a \div b = v  BY <3>3, <3>4, <3>5, <3>6, <3>7, DivIs
    <3>9. BlocksOf(msg) = v  BY <3>4, <3>5, <3>8 DEF BlocksOf
    <3>10. n + 1 + L <= c + B + B /\ c + B + B \in Nat  BY <1>1, <1>6, <1>7
    <3> QED BY <1>1, <1>6, <2>1, <3>3, <3>9, <3>10
  <2>2. CASE ~more
    <3>1. r + 1 + L + B - 1 - B \in 0 .. B - 1  BY <1>1, <2>2
    <3>2. PICK s : s \in 0 .. B - 1 /\ s = r + 1 + L + B - 1 - B  BY <3>1
    <3>3. PICK v : v \in Int /\ v = w + 1 /\ v * B = c + B  BY <1>1, <1>6
    <3>4. PICK a : a \in Int /\ a = t  BY <1>1
    <3>5. PICK b : b \in Nat \ {0} /\ b = B  BY <1>1
    <3>6. a = v * b + s
      <4>1. a = c + B + s  BY <1>7, <3>2, <3>4
      <4> QED BY <3>3, <3>5, <4>1
    <3>7. s \in 0 .. b - 1  BY <3>2, <3>5
    <3>8. a \div b = v  BY <3>3, <3>4, <3>5, <3>6, <3>7, DivIs
    <3>9. BlocksOf(msg) = v  BY <3>4, <3>5, <3>8 DEF BlocksOf
    <3>10. n + 1 + L <= c + B /\ c + B \in Nat  BY <1>1, <1>6, <1>7, <2>2
    <3> QED BY <1>1, <1>6, <2>2, <3>3, <3>9, <3>10
  <2> QED BY <2>1, <2>2
<1> HIDE DEF m
<1>9. LaidOut(m, msg, q * B)
  <2>1. PICK t : t \in Nat /\ t = q * B  BY <1>8
  <2>2. Len(msg) + 1 + LengthSize <= t  BY <1>8, <2>1
  <2>3. LaidOut(Whole(msg, t), msg, t)  BY <2>1, <2>2, WholeIs
  <2> HIDE DEF q
  <2> QED BY <2>1, <2>3 DEF m
<1>10. PICK e : e \in Nat /\ e = q * B  BY <1>8
<1>11. e = IF more THEN c + B + B ELSE c + B  BY <1>6, <1>10
<1>12. /\ m \in Seq(Bytes) /\ Len(m) = e
       /\ \A p \in 1 .. n : m[p] = msg[p]
       /\ m[n + 1] = Hash!Pad
       /\ \A p \in n + 2 .. e - L : m[p] = Hash!Zero
       /\ \A p \in e - L + 1 .. e : m[p] = x
  BY <1>9, <1>10 DEF LaidOut
<1> HIDE DEF x, q
<1>13. Hashed(ctx, m, w)
  <2>1. ASSUME NEW k \in 1 .. w, NEW i \in 1 .. B
        PROVE  ctx.state[k][i] = m[(k - 1) * B + i]
    <3>1. PICK p : p = (k - 1) * B + i  OBVIOUS
    <3>2. p \in 1 .. w * B  BY <1>1, <3>1, WithinBlocks
    <3>3. p \in 1 .. n  BY <1>1, <1>6, <1>7, <3>2
    <3>4. ctx.state[k][i] = msg[p]  BY <1>1, <3>1 DEF Hashed
    <3> QED BY <1>12, <3>1, <3>3, <3>4
  <2>2. Len(ctx.state) = w  BY <1>1 DEF Hashed
  <2> QED BY <2>1, <2>2 DEF Hashed
<1>14. /\ padded \in Contexts /\ padded.state = ctx.state
       /\ \A i \in 1 .. B : padded.in[i] =
              IF i > r /\ i <= r + 1 THEN <<Hash!Pad>>[i - r] ELSE ctx.in[i]
  <2>1. PICK a : a = <<Hash!Pad>>  OBVIOUS
  <2>2. a \in Seq(Bytes) /\ Len(a) = 1 /\ a[1] = Hash!Pad  BY <2>1, MarkIsSeq
  <2>3. Copied(Hash!Copy(ctx, r, a), ctx, r, a)  BY <1>1, <1>7, <2>2, CopyIs
  <2> QED BY <2>1, <2>2, <2>3 DEF Copied
<1> HIDE DEF padded
<1>15. ASSUME NEW i \in 1 .. r + 1 PROVE padded.in[i] = m[c + i] /\ i \in 1 .. B
  <2>1. i \in 1 .. B  BY <1>1
  <2>2. CASE i = r + 1
    <3>1. i > r /\ i <= r + 1 /\ i - r = 1 /\ c + i = n + 1  BY <1>6, <1>7, <2>2
    <3>2. padded.in[i] = <<Hash!Pad>>[1]  BY <1>14, <2>1, <3>1
    <3> QED BY <1>12, <2>1, <3>1, <3>2, MarkIsSeq
  <2>3. CASE i # r + 1
    <3>1. i \in 1 .. r /\ ~(i > r) /\ c + i \in 1 .. n  BY <1>1, <1>6, <1>7, <2>3
    <3>2. padded.in[i] = ctx.in[i]  BY <1>14, <2>1, <3>1
    <3>3. ctx.in[i] = msg[c + i]  BY <1>1, <1>6, <3>1 DEF Held
    <3> QED BY <1>12, <2>1, <3>1, <3>2, <3>3
  <2> QED BY <2>2, <2>3
<1>17. IsCutUp(final.state, m, q)
  <2>1. CASE ~more
    <3>1. PICK at : at \in Nat /\ at = r + 1  BY <1>7
    <3>2. PICK k : k \in Nat /\ k = left - L /\ at + k = BlockSize - LengthSize
      BY <1>7, <2>1, <3>1
    <3>3. Hashed(padded, m, w)  BY <1>13, <1>14, CutStays
    <3>4. Held(padded, m, w, at)  BY <1>6, <1>15, <3>1 DEF Held
    <3>5. c + BlockSize = e /\ Len(msg) + 1 <= c + at  BY <1>7, <1>11, <2>1, <3>1
    <3>6. closed = Closing(padded, at, k, Len(msg))
      BY <2>1, <3>1, <3>2 DEF Closing, x
    <3>7. LaidOut(m, msg, c + BlockSize)  BY <1>9, <1>10, <3>5
    <3> HIDE DEF closed, more, tail
    <3>8. IsCutUp(Hash!MD5Transform(closed).state, m, w + 1)
      BY <1>1, <1>6, <1>14, <3>1, <3>2, <3>3, <3>4, <3>5, <3>6, <3>7, ClosingIs
    <3> QED BY <2>1, <3>8 DEF q
  <2>2. CASE more
    <3>1. PICK at : at \in Nat /\ at = r + 1  BY <1>1
    <3>2. PICK k : k \in Nat /\ k = left /\ at + k = B  BY <1>1, <3>1
    <3>3. PICK z : z = Hash!Fill(Hash!Zero, k)  OBVIOUS
    <3>4. z \in Seq(Bytes) /\ Len(z) = k /\ \A i \in 1 .. k : z[i] = Hash!Zero
      BY <1>5, <3>2, <3>3, FillIsSeq
    <3>5. first = Hash!Copy(padded, at, z)  BY <3>1, <3>2, <3>3
    <3>6. Copied(Hash!Copy(padded, at, z), padded, at, z)  BY <1>14, <3>1, <3>4, CopyIs
    <3>7. closed = Closing(hashed, 0, B - L, Len(msg))  BY <2>2 DEF Closing, x
    <3> HIDE DEF first, closed, more, tail
    <3>8. /\ first \in Contexts /\ first.state = padded.state
          /\ \A i \in 1 .. B : first.in[i] =
                 IF i > at /\ i <= at + k THEN z[i - at] ELSE padded.in[i]
      BY <3>4, <3>5, <3>6 DEF Copied
    <3>9. ASSUME NEW i \in 1 .. B PROVE first.in[i] = m[c + i]
      <4>1. CASE i <= at
        <5>1. i \in 1 .. r + 1 /\ ~(i > at)  BY <1>1, <3>1, <4>1
        <5>2. first.in[i] = padded.in[i]  BY <3>8, <5>1
        <5> QED BY <1>15, <5>1, <5>2
      <4>2. CASE ~(i <= at)
        <5>1. /\ i > at /\ i <= at + k /\ i - at \in 1 .. k
              /\ c + i \in n + 2 .. e - L
          BY <1>1, <1>6, <1>7, <1>11, <2>2, <3>1, <3>2, <4>2
        <5>2. first.in[i] = z[i - at]  BY <3>8, <5>1
        <5> QED BY <1>12, <3>4, <5>1, <5>2
      <4> QED BY <4>1, <4>2
    <3>10. Held(first, m, w, BlockSize)  BY <1>6, <3>9 DEF Held
    <3>11. Hashed(first, m, w)
      <4>1. first.state = ctx.state  BY <1>14, <3>8
      <4> QED BY <1>13, <4>1, CutStays
    <3>12. hashed \in Contexts /\ Hashed(hashed, m, w + 1)
      BY <1>1, <3>8, <3>10, <3>11, TransformIs
    <3> HIDE DEF hashed
    <3>13. PICK v : v \in Nat /\ v = w + 1 /\ v * B = c + B  BY <1>1, <1>6
    <3>14. PICK g : /\ g \in Nat /\ g = v * BlockSize /\ g + BlockSize = e
                    /\ Len(msg) + 1 <= g + 0
      <4>1. c + BlockSize + BlockSize = e /\ c + BlockSize \in Nat  BY <1>7, <1>11, <2>2
      <4>2. Len(msg) + 1 <= (c + BlockSize) + 0  BY <1>7
      <4> QED BY <3>13, <4>1, <4>2
    <3>15. PICK l : l \in Nat /\ l = B - L /\ 0 + l = BlockSize - LengthSize  BY <1>7
    <3>16. Held(hashed, m, v, 0)  BY DEF Held
    <3>17. IsCutUp(Hash!MD5Transform(closed).state, m, v + 1)
      <4>1. closed = Closing(hashed, 0, l, Len(msg))  BY <3>7, <3>15
      <4>2. 0 \in Nat /\ Hashed(hashed, m, v)  BY <3>12, <3>13
      <4>3. LaidOut(m, msg, g + BlockSize)  BY <1>9, <1>10, <3>14
      <4> QED BY <3>12, <3>13, <3>14, <3>15, <3>16, <4>1, <4>2, <4>3, ClosingIs
    <3>18. v + 1 = q  BY <1>1, <2>2, <3>13 DEF q
    <3> QED BY <3>17, <3>18
  <2> QED BY <2>1, <2>2
<1> HIDE DEF final
<1>18. Hash!DigestOf(msg) = [k \in 1 .. q |->
           SubSeq(Whole(msg, q * BlockSize), (k - 1) * BlockSize + 1, k * BlockSize)]
  BY <1>8, DigestOfIs
<1> QED BY <1>4, <1>17, <1>18 DEF m, IsCutUp

\* Before the first piece.
LEMMA InitIsFed == Fed(Hash!MD5Init, <<>>, 0, 0)
<1> DEFINE B == BlockSize
<1>1. /\ B \in Nat \ {0} /\ ByteBits \in Nat \ {0} /\ WordValues \in Nat \ {0}
  BY SizesAre DEF Sizes
<1>2. Hash!MD5Init = [state |-> <<>>, in |-> Hash!Fill(Hash!Stale, B), lo |-> 0, hi |-> 0]
  BY DEF Hash!MD5Init
<1>3. Hash!Fill(Hash!Stale, B) \in Blocks
  <2>1. PICK x \in Bytes : x = Hash!Stale  BY DEF Bytes
  <2>2. [i \in 1 .. B |-> x] \in [1 .. B -> Bytes]  OBVIOUS
  <2> QED BY <2>1, <2>2 DEF Hash!Fill, Blocks
<1>4. <<>> \in Seq(Blocks) /\ Len(<<>>) = 0  OBVIOUS
<1> DEFINE x == Hash!MD5Init
<1>5. x \in Contexts /\ x.state = <<>> /\ x.lo = 0 /\ x.hi = 0  BY <1>2, <1>3, <1>4 DEF Contexts
<1> HIDE DEF x
<1>6. IsCounted(x, 0)
  <2>1. 0 * ByteBits = 0 /\ 0 % WordValues = 0 /\ 0 \div WordValues = 0  BY <1>1
  <2> QED BY <1>5, <2>1 DEF IsCounted
<1>7. Hashed(x, <<>>, 0) /\ Held(x, <<>>, 0, 0)
  <2>1. Len(x.state) = 0  BY <1>4, <1>5
  <2> QED BY <2>1 DEF Hashed, Held
<1>8. Len(<<>>) = 0 * B + 0 /\ 0 \in 0 .. B - 1 /\ 0 \in Nat  BY <1>1, <1>4
<1>9. IsCounted(x, Len(<<>>))  BY <1>4, <1>6
<1> QED BY <1>5, <1>7, <1>8, <1>9 DEF Fed, x

\* Something has been fed with a message.
IsFed(ctx, msg) == \E w, r : Fed(ctx, msg, w, r)

LEMMA PieceIsFed ==
    ASSUME NEW ctx, NEW msg \in Seq(Bytes), NEW buf \in Seq(Bytes), IsFed(ctx, msg)
    PROVE  IsFed(Hash!MD5Update(ctx, buf), msg \o buf)
BY UpdateIs DEF IsFed

LEMMA FedIsContext ==
    ASSUME NEW ctx, NEW msg, IsFed(ctx, msg)
    PROVE  ctx \in Contexts
BY DEF IsFed, Fed

\* A message in pieces has the digest of what they add up to.
LEMMA DigestIs ==
    ASSUME NEW pieces \in Seq(Seq(Bytes))
    PROVE  Hash!Digest(pieces) = Hash!DigestOf(FlattenSeq(pieces))
<1> DEFINE n == Len(pieces)
           fed(x, k) == Hash!MD5Update(x, pieces[k])
           step == [k \in 1 .. n |-> [x \in Contexts |->
                       IF fed(x, k) \in Contexts THEN fed(x, k) ELSE Hash!MD5Init]]
           F == CHOOSE F : F = [k \in 0 .. n |->
                    IF k = 0 THEN Hash!MD5Init ELSE Hash!MD5Update(F[k - 1], pieces[k])]
<1>1. n \in Nat /\ \A k \in 1 .. n : pieces[k] \in Seq(Bytes)  OBVIOUS
<1>2. IsFed(Hash!MD5Init, <<>>) /\ Hash!MD5Init \in Contexts
  BY InitIsFed, FedIsContext DEF IsFed
<1>3. PICK M : /\ M[0] = <<>> /\ M[n] = FlattenSeq(pieces)
               /\ \A k \in 0 .. n : M[k] \in Seq(Bytes)
               /\ \A k \in 1 .. n : M[k] = M[k - 1] \o pieces[k]
  <2>1. CASE n = 0
    <3>1. pieces = <<>>  BY <2>1, EmptySeq
    <3>2. FlattenSeq(pieces) = <<>>  BY <3>1, FlattenEmpty
    <3>3. PICK M : M = [k \in 0 .. n |-> <<>>]  OBVIOUS
    <3>4. \A k \in 0 .. n : M[k] = <<>>  BY <3>3
    <3>5. <<>> \in Seq(Bytes)  OBVIOUS
    <3>6. M[0] = <<>> /\ M[n] = FlattenSeq(pieces)  BY <2>1, <3>2, <3>4
    <3>7. \A k \in 0 .. n : M[k] \in Seq(Bytes)  BY <3>4, <3>5
    <3>8. \A k \in 1 .. n : FALSE  BY <2>1
    <3> QED BY <3>6, <3>7, <3>8
  <2>2. CASE n # 0
    <3>1. pieces # <<>> /\ n \in 1 .. n  BY <1>1, <2>2
    <3>2. PICK G : /\ AddsUp(G, pieces) /\ FlattenSeq(pieces) = G[n]
                   /\ \A i \in 1 .. n : G[i] \in Seq(Bytes)
      BY <3>1, FlattenIsSum
    <3>3. PICK M : M = [k \in 0 .. n |-> IF k = 0 THEN <<>> ELSE G[k]]  OBVIOUS
    <3>4. M[0] = <<>> /\ \A k \in 1 .. n : M[k] = G[k]  BY <1>1, <3>3
    <3>5. <<>> \in Seq(Bytes)  OBVIOUS
    <3>6. \A k \in 0 .. n : M[k] \in Seq(Bytes)
      <4> SUFFICES ASSUME NEW k \in 0 .. n PROVE M[k] \in Seq(Bytes)  OBVIOUS
      <4>1. CASE k = 0  BY <3>4, <3>5, <4>1
      <4>2. CASE k # 0
        <5>1. k \in 1 .. n  BY <4>2
        <5> QED BY <3>2, <3>4, <5>1
      <4> QED BY <4>1, <4>2
    <3>7. ASSUME NEW k \in 1 .. n PROVE M[k] = M[k - 1] \o pieces[k]
      <4>1. G[k] = IF k = 1 THEN pieces[k] ELSE G[k - 1] \o pieces[k]  BY <3>2 DEF AddsUp
      <4>2. CASE k = 1
        <5>1. pieces[k] \in Seq(Bytes)  BY <1>1
        <5>2. <<>> \o pieces[k] = pieces[k]  BY <5>1, ConcatEmptySeq
        <5>3. k - 1 = 0  BY <4>2
        <5> QED BY <3>4, <4>1, <4>2, <5>2, <5>3
      <4>3. CASE k # 1
        <5>1. k - 1 \in 1 .. n  BY <4>3
        <5> QED BY <3>4, <4>1, <4>3, <5>1
      <4> QED BY <4>2, <4>3
    <3> QED BY <3>1, <3>2, <3>4, <3>6, <3>7
  <2> QED BY <2>1, <2>2
<1>4. step \in [1 .. n -> [Contexts -> Contexts]]
  <2> HIDE DEF fed
  <2> QED BY <1>2
<1>5. PICK G \in [0 .. n -> Contexts] : Steps(G, Hash!MD5Init, n, step)
  BY <1>1, <1>2, <1>4, StepsExist
<1>6. G = [k \in 0 .. n |-> IF k = 0 THEN Hash!MD5Init ELSE step[k][G[k - 1]]]  BY <1>5 DEF Steps
<1> DEFINE S == {k \in 0 .. n : /\ IsFed(G[k], M[k])
                                /\ k # 0 => G[k] = fed(G[k - 1], k)}
<1>7. 0 \in S
  <2>1. 0 \in 0 .. n  BY <1>1
  <2>2. G[0] = Hash!MD5Init  BY <1>6, <2>1
  <2> QED BY <1>2, <1>3, <2>1, <2>2
<1>8. ASSUME NEW k \in 1 .. n, k - 1 \in S PROVE k \in S
  <2>1. k \in 0 .. n /\ k # 0 /\ k - 1 \in 0 .. n  BY <1>1
  <2>2. G[k] = step[k][G[k - 1]]  BY <1>6, <2>1
  <2>3. IsFed(G[k - 1], M[k - 1])  BY <1>8
  <2>4. pieces[k] \in Seq(Bytes) /\ M[k - 1] \in Seq(Bytes)  BY <1>1, <1>3, <2>1
  <2>5. IsFed(fed(G[k - 1], k), M[k])
    <3>1. M[k] = M[k - 1] \o pieces[k]  BY <1>3
    <3> QED BY <2>3, <2>4, <3>1, PieceIsFed
  <2>6. fed(G[k - 1], k) \in Contexts
    <3>1. PICK x : x = fed(G[k - 1], k)  OBVIOUS
    <3> QED BY <2>5, <3>1, FedIsContext
  <2>7. step[k][G[k - 1]] = fed(G[k - 1], k)
    <3>1. G[k - 1] \in Contexts  BY <1>5, <2>1
    <3> HIDE DEF fed
    <3> QED BY <2>6, <3>1
  <2> HIDE DEF step, fed
  <2> QED BY <2>1, <2>2, <2>5, <2>7
<1>9. \A k \in 0 .. n : k \in S
  <2> HIDE DEF S, step
  <2> QED BY <1>1, <1>7, <1>8, UptoInduction
<1>10. G = [k \in 0 .. n |->
               IF k = 0 THEN Hash!MD5Init ELSE Hash!MD5Update(G[k - 1], pieces[k])]
  <2>1. \A k \in 0 .. n : G[k] = IF k = 0 THEN Hash!MD5Init
                                 ELSE Hash!MD5Update(G[k - 1], pieces[k])
    <3> SUFFICES ASSUME NEW k \in 0 .. n
                 PROVE  G[k] = IF k = 0 THEN Hash!MD5Init
                               ELSE Hash!MD5Update(G[k - 1], pieces[k])
      OBVIOUS
    <3>1. CASE k = 0  BY <1>6, <3>1
    <3>2. CASE k # 0  BY <1>9, <3>2
    <3> QED BY <3>1, <3>2
  <2>2. G \in [0 .. n -> Contexts]  BY <1>5
  <2> HIDE DEF S, step
  <2> QED BY <2>1, <2>2
<1>11. F = [k \in 0 .. n |->
               IF k = 0 THEN Hash!MD5Init ELSE Hash!MD5Update(F[k - 1], pieces[k])]
  BY <1>10
<1> DEFINE T == {k \in 0 .. n : IsFed(F[k], M[k])}
<1>12. 0 \in T
  <2>1. 0 \in 0 .. n  BY <1>1
  <2> HIDE DEF F
  <2>2. F[0] = Hash!MD5Init  BY <1>11, <2>1
  <2> QED BY <1>2, <1>3, <2>1, <2>2
<1>13. ASSUME NEW k \in 1 .. n, k - 1 \in T PROVE k \in T
  <2> HIDE DEF F
  <2>1. k \in 0 .. n /\ k # 0 /\ k - 1 \in 0 .. n  BY <1>1
  <2>2. F[k] = Hash!MD5Update(F[k - 1], pieces[k])  BY <1>11, <2>1
  <2>3. IsFed(F[k - 1], M[k - 1])  BY <1>13
  <2>4. pieces[k] \in Seq(Bytes) /\ M[k - 1] \in Seq(Bytes)  BY <1>1, <1>3, <2>1
  <2>5. M[k] = M[k - 1] \o pieces[k]  BY <1>3
  <2>6. IsFed(F[k], M[k])  BY <2>2, <2>3, <2>4, <2>5, PieceIsFed
  <2> QED BY <2>1, <2>6
<1>14. n \in T
  <2> HIDE DEF T
  <2>1. n \in 0 .. n  BY <1>1
  <2> QED BY <1>1, <1>12, <1>13, <2>1, UptoInduction
<1>15. Hash!Digest(pieces) = Hash!MD5Final(F[n])  BY DEF Hash!Digest
<1> HIDE DEF F
<1>16. PICK w, r : Fed(F[n], M[n], w, r)  BY <1>14 DEF IsFed
<1>17. M[n] \in Seq(Bytes)
  <2>1. n \in 0 .. n  BY <1>1
  <2> QED BY <1>3, <2>1
<1>18. Hash!MD5Final(F[n]) = Hash!DigestOf(M[n])  BY <1>16, <1>17, FinalIs
<1> QED BY <1>3, <1>15, <1>18

\* The pieces that are written are sequences of bytes.
LEMMA InputDigested == InputTyped => DigestOfWhole
<1> SUFFICES ASSUME InputTyped, function = "md5"
             PROVE  Hash!Digest(input) = Hash!DigestOf(FlattenSeq(input))
  BY DEF DigestOfWhole
<1>1. input \in Seq(Letters["md5"]) /\ Letters["md5"] \subseteq Seq(Nat)
  BY InputsAssumption DEF InputTyped
<1>2. Nat \subseteq Bytes  BY DEF Bytes
<1>3. Seq(Nat) \subseteq Seq(Bytes)  BY <1>2, SeqWidens
<1>4. Letters["md5"] \subseteq Seq(Bytes)  BY <1>1, <1>3
<1>5. input \in Seq(Seq(Bytes))  BY <1>1, <1>4, SeqWidens
<1> QED BY <1>5, DigestIs

\* However a message is cut into pieces, and however often a piece fills the block in
\* hand or leaves no room for the length, MD5Update and MD5Final hash the message with
\* its mark, its zeros and its length (md5.c).
THEOREM DigestIsOfWhole == InputSpec => []DigestOfWhole
BY InputsTyped, InputDigested, PTL
=============================================================================
