----------------------------- MODULE LoadOrderProofs -----------------------------
(***************************************************************************)
(* SourceLoader implements LoadOrder: the trees come out as one thread     *)
(* would produce them, for any listed files, names and number of threads.  *)
(***************************************************************************)
EXTENDS SourceLoaderProofs

(***************************************************************************)
(* A set of sequences that has the empty one, and with each sequence every *)
(* longer one by an element, has all of them.                              *)
(***************************************************************************)
LEMMA SeqGrows ==
    ASSUME NEW S, NEW P, <<>> \in P, \A s \in Seq(S), e \in S : s \in P => Append(s, e) \in P
    PROVE  Seq(S) \subseteq P
<1> SUFFICES ASSUME NEW s \in Seq(S) PROVE s \in P
  OBVIOUS
<1> DEFINE K == {k \in Nat : SubSeq(s, 1, k) \in P}
<1>1. Len(s) \in Nat /\ \A k \in 1 .. Len(s) : s[k] \in S
  BY SeqFacts
<1>2. 0 \in K
  <2>1. SubSeq(s, 1, 0) = <<>>
    BY SubSeqEmpty
  <2> QED
    BY <2>1
<1>3. ASSUME NEW k \in Nat, k < Len(s), k \in K PROVE k + 1 \in K
  <2>1. PICK n : n = k + 1
    OBVIOUS
  <2>2. n \in 1 .. Len(s) /\ 1 \in 1 .. Len(s) /\ n \in 1 .. Len(s) /\ n - 1 = k /\ 1 \in Int /\ n \in Int
    BY <1>1, <1>3, <2>1
  <2>3. SubSeq(s, 1, n) = SubSeq(s, 1, n - 1) \o << s[n] >>
    BY <2>2, SubSeqRecursiveSecond
  <2>4. SubSeq(s, 1, k) \in Seq(S)
    BY <1>1, <2>2, SubSeqProperties
  <2>5. SubSeq(s, 1, n) = Append(SubSeq(s, 1, k), s[n])
    BY <1>1, <2>2, <2>3, <2>4, AppendIsConcat
  <2>6. SubSeq(s, 1, k) \in P /\ s[n] \in S
    BY <1>1, <1>3, <2>2
  <2>7. SubSeq(s, 1, n) \in P
    BY <2>4, <2>5, <2>6
  <2> QED
    BY <2>1, <2>7
<1>4. Len(s) \in K
  <2>1. Len(s) \in 0 .. Len(s)
    BY <1>1
  <2> HIDE DEF K
  <2> QED
    BY <1>1, <1>2, <1>3, <2>1, CountUp
<1> QED
  BY <1>4, SubSeqFull, ZenonT(60)

LEMMA EmptyFacts ==
    /\ Len(<<>>) = 0 /\ DOMAIN <<>> = {} /\ \A S : <<>> \in Seq(S)
  OBVIOUS

LEMMA FlattenEmpty == FlattenSeq(<<>>) = <<>>
  BY EmptyFacts DEF FlattenSeq

LEMMA FlattenOne ==
    ASSUME NEW seqs, Len(seqs) = 1
    PROVE  FlattenSeq(seqs) = seqs[1]
<1>1. PICK f : IsFlat(f, seqs)
  BY FlatExists
<1> DEFINE g == CHOOSE f1 : IsFlat(f1, seqs)
<1>2. IsFlat(g, seqs) /\ FlattenSeq(seqs) = g[1]
  BY <1>1, FlattenIsFlat
<1> HIDE DEF g
<1>3. g[1] = Flattened(g, seqs, 1)
  BY <1>2 DEF IsFlat
<1> QED
  BY <1>2, <1>3 DEF Flattened

\* One sequence more comes last.
LEMMA FlattenAppend ==
    ASSUME NEW S, NEW seqs \in Seq(Seq(S)), NEW s \in Seq(S)
    PROVE  FlattenSeq(Append(seqs, s)) = FlattenSeq(seqs) \o s
<1> DEFINE n == Len(seqs)
           longer == Append(seqs, s)
<1>1. n \in Nat /\ Len(longer) = n + 1 /\ longer[n + 1] = s /\ \A k \in 1 .. n : longer[k] = seqs[k]
  BY AppendFacts, SeqFacts
<1>2. CASE n = 0
  <2>1. seqs = <<>>
    BY <1>2
  <2>2. FlattenSeq(longer) = s
    BY <1>1, <1>2, FlattenOne
  <2> QED
    BY <2>1, <2>2, FlattenEmpty, ConcatEmptySeq
<1>3. CASE n # 0
  <2> DEFINE f == CHOOSE h : IsFlat(h, seqs)
             g == CHOOSE h : IsFlat(h, longer)
  <2>1. IsFlat(f, seqs) /\ FlattenSeq(seqs) = f[n]
    BY <1>1, <1>3, FlatExists, FlattenIsFlat
  <2>2. IsFlat(g, longer) /\ FlattenSeq(longer) = g[n + 1]
    <3>1. Len(longer) \in Nat /\ Len(longer) # 0
      BY <1>1
    <3> HIDE DEF longer
    <3> QED
      BY <1>1, <3>1, FlatExists, FlattenIsFlat
  <2> HIDE DEF f, g, longer
  <2>3. \A k \in 1 .. n : f[k] = Flattened(f, seqs, k)
    BY <2>1 DEF IsFlat
  <2>4. \A k \in 1 .. n + 1 : g[k] = Flattened(g, longer, k)
    BY <1>1, <2>2 DEF IsFlat
  <2> DEFINE K == {0} \cup {k \in 1 .. n : f[k] = g[k]}
  <2>5. ASSUME NEW k \in Nat, k < n, k \in K PROVE k + 1 \in K
    <3>1. PICK j : j = k + 1
      OBVIOUS
    <3>2. j \in 1 .. n /\ j \in 1 .. n + 1 /\ j - 1 = k
      BY <1>1, <2>5, <3>1
    <3>3. CASE j = 1
      BY <1>1, <2>3, <2>4, <3>1, <3>2, <3>3 DEF Flattened
    <3>4. CASE j # 1
      <4>1. k # 0
        BY <3>2, <3>4
      <4>2. f[k] = g[k]
        BY <2>5, <4>1
      <4>3. f[j] = Flattened(f, seqs, j) /\ g[j] = Flattened(g, longer, j)
        BY <2>3, <2>4, <3>2
      <4>4. /\ Flattened(f, seqs, j) = f[j - 1] \o seqs[j]
            /\ Flattened(g, longer, j) = g[j - 1] \o longer[j]
        BY <3>4, FlattenedOn
      <4>5. f[j - 1] = g[j - 1] /\ seqs[j] = longer[j]
        BY <1>1, <3>2, <4>2
      <4>6. f[j] = g[j]
        BY <4>3, <4>4, <4>5
      <4> QED
        BY <3>1, <3>2, <4>6
    <3> QED
      BY <3>3, <3>4
  <2>6. n \in K
    <3>1. 0 \in K /\ n \in 0 .. n
      BY <1>1
    <3> HIDE DEF K, n
    <3> QED
      BY <1>1, <2>5, <3>1, CountUp
  <2>7. f[n] = g[n]
    BY <1>3, <2>6
  <2>8. g[n + 1] = g[n] \o longer[n + 1]
    <3>1. PICK j : j = n + 1
      OBVIOUS
    <3>2. j \in 1 .. n + 1 /\ j - 1 = n /\ j # 1
      BY <1>1, <1>3, <3>1
    <3>3. g[j] = g[n] \o longer[j]
      BY <2>4, <3>2, FlattenedOn
    <3> QED
      BY <3>1, <3>3
  <2> QED
    BY <1>1, <2>1, <2>2, <2>7, <2>8 DEF longer
<1> QED
  BY <1>2, <1>3

\* A function on 1 .. n + 1 is a sequence, its last value appended.
LEMMA MadeAppend ==
    ASSUME NEW S, NEW n \in Nat, NEW f, f = [k \in 1 .. n + 1 |-> f[k]], \A k \in 1 .. n + 1 : f[k] \in S
    PROVE  /\ f \in Seq(S) /\ [k \in 1 .. n |-> f[k]] \in Seq(S)
           /\ f = Append([k \in 1 .. n |-> f[k]], f[n + 1])
<1> DEFINE g == [k \in 1 .. n |-> f[k]]
<1>1. f \in Seq(S) /\ Len(f) = n + 1
  <2>1. PICK m : m = n + 1
    OBVIOUS
  <2>2. m \in Nat /\ f \in [1 .. m -> S]
    BY <2>1
  <2> QED
    BY <2>1, <2>2
<1>2. \A k \in 1 .. n : k \in 1 .. n + 1
  OBVIOUS
<1>3. g \in Seq(S) /\ Len(g) = n /\ \A k \in 1 .. n : g[k] = f[k]
  <2>1. g \in [1 .. n -> S] /\ \A k \in 1 .. n : g[k] = f[k]
    BY <1>2
  <2> HIDE DEF g
  <2>2. g \in Seq(S) /\ Len(g) = n
    BY <2>1
  <2> QED
    BY <2>1, <2>2
<1> HIDE DEF g
<1>4. f[n + 1] \in S
  OBVIOUS
<1>5. /\ Append(g, f[n + 1]) \in Seq(S) /\ Len(Append(g, f[n + 1])) = n + 1
      /\ \A k \in 1 .. n : Append(g, f[n + 1])[k] = f[k]
      /\ Append(g, f[n + 1])[n + 1] = f[n + 1]
  <2>1. PICK e \in S : e = f[n + 1]
    BY <1>4
  <2>2. /\ Append(g, e) \in Seq(S) /\ Len(Append(g, e)) = Len(g) + 1
        /\ \A k \in 1 .. Len(g) : Append(g, e)[k] = g[k]
        /\ Append(g, e)[Len(g) + 1] = e
    BY <1>3, AppendProperties
  <2> QED
    BY <1>3, <2>1, <2>2
<1>6. \A k \in 1 .. n + 1 : k \in 1 .. n \/ k = n + 1
  OBVIOUS
<1>7. f = Append(g, f[n + 1])
  BY <1>1, <1>5, <1>6, SeqEqual
<1> QED
  BY <1>1, <1>3, <1>7 DEF g
-----------------------------------------------------------------------------
(***************************************************************************)
(* Sift: it goes through a sequence element by element, so it may be done  *)
(* in parts and twice.                                                     *)
(***************************************************************************)
OneKept(x, set) == IF x \in set THEN <<x>> ELSE <<>>

LEMMA OneKeptIsSeq ==
    ASSUME NEW S, NEW x \in S, NEW set
    PROVE  OneKept(x, set) \in Seq(S)
  BY DEF OneKept

LEMMA SiftEmpty == \A set : Sift(<<>>, set) = <<>>
<1> SUFFICES ASSUME NEW set PROVE Sift(<<>>, set) = <<>>
  OBVIOUS
<1> DEFINE parts == [k \in DOMAIN <<>> |-> IF <<>>[k] \in set THEN << <<>>[k] >> ELSE <<>>]
<1>1. parts = <<>>
  BY EmptyFacts
<1>2. Sift(<<>>, set) = FlattenSeq(parts)
  BY DEF Sift
<1> HIDE DEF parts
<1> QED
  BY <1>1, <1>2, FlattenEmpty

LEMMA SiftParts ==
    ASSUME NEW S, NEW names \in Seq(S), NEW set
    PROVE  /\ Sift(names, set) = FlattenSeq([k \in 1 .. Len(names) |-> OneKept(names[k], set)])
           /\ [k \in 1 .. Len(names) |-> OneKept(names[k], set)] \in Seq(Seq(S))
<1> DEFINE n == Len(names)
           parts == [k \in 1 .. n |-> OneKept(names[k], set)]
<1>1. n \in Nat /\ DOMAIN names = 1 .. n /\ \A k \in 1 .. n : names[k] \in S
  BY SeqFacts
<1>2. Sift(names, set) = FlattenSeq(parts)
  BY <1>1 DEF Sift, OneKept
<1>3. \A k \in 1 .. n : parts[k] \in Seq(S)
  BY <1>1, OneKeptIsSeq
<1>4. parts = [k \in 1 .. n |-> parts[k]]
  OBVIOUS
<1> HIDE DEF parts, n
<1>5. parts \in Seq(Seq(S))
  BY <1>1, <1>3, <1>4
<1> QED
  BY <1>2, <1>5 DEF parts, n

LEMMA SiftIsSeq ==
    ASSUME NEW S, NEW names \in Seq(S), NEW set
    PROVE  Sift(names, set) \in Seq(S)
<1>1. PICK parts \in Seq(Seq(S)) : Sift(names, set) = FlattenSeq(parts)
  BY SiftParts
<1> QED
  BY <1>1, FlattenFacts

LEMMA SiftAppend ==
    ASSUME NEW S, NEW names \in Seq(S), NEW x \in S, NEW set
    PROVE  Sift(Append(names, x), set) = Sift(names, set) \o OneKept(x, set)
<1> DEFINE n == Len(names)
           longer == Append(names, x)
           parts == [k \in 1 .. n + 1 |-> OneKept(longer[k], set)]
           fewer == [k \in 1 .. n |-> OneKept(names[k], set)]
<1>1. /\ n \in Nat /\ longer \in Seq(S) /\ Len(longer) = n + 1
      /\ longer[n + 1] = x /\ \A k \in 1 .. n : longer[k] = names[k]
  BY AppendProperties, SeqFacts
<1> HIDE DEF longer
<1>2. /\ Sift(longer, set) = FlattenSeq(parts) /\ parts \in Seq(Seq(S))
      /\ Sift(names, set) = FlattenSeq(fewer) /\ fewer \in Seq(Seq(S))
  BY <1>1, SiftParts
<1>3. parts = [k \in 1 .. n + 1 |-> parts[k]]
  OBVIOUS
<1>4. \A k \in 1 .. n + 1 : parts[k] \in Seq(S)
  <2>1. \A k \in 1 .. n + 1 : longer[k] \in S
    BY <1>1, SeqFacts
  <2> QED
    BY <2>1, OneKeptIsSeq
<1>5. [k \in 1 .. n |-> parts[k]] = fewer
  <2>1. \A k \in 1 .. n : k \in 1 .. n + 1
    BY <1>1
  <2> QED
    BY <1>1, <2>1
<1>6. parts[n + 1] = OneKept(x, set)
  BY <1>1
<1> HIDE DEF parts, fewer, n
<1>7. parts = Append([k \in 1 .. n |-> parts[k]], parts[n + 1])
  BY <1>1, <1>3, <1>4, MadeAppend
<1>8. parts = Append(fewer, OneKept(x, set))
  BY <1>5, <1>6, <1>7
<1>9. FlattenSeq(parts) = FlattenSeq(fewer) \o OneKept(x, set)
  BY <1>2, <1>8, OneKeptIsSeq, FlattenAppend
<1> QED
  BY <1>2, <1>9 DEF longer

LEMMA SiftJoined ==
    ASSUME NEW S, NEW a \in Seq(S), NEW b \in Seq(S), NEW set
    PROVE  Sift(a \o b, set) = Sift(a, set) \o Sift(b, set)
<1> DEFINE P == {s \in Seq(S) : Sift(a \o s, set) = Sift(a, set) \o Sift(s, set)}
<1>1. <<>> \in P
  <2>1. a \o <<>> = a /\ Sift(a, set) \o <<>> = Sift(a, set) /\ <<>> \in Seq(S)
    BY SiftIsSeq, ConcatEmptySeq
  <2> QED
    BY <2>1, SiftEmpty
<1>2. ASSUME NEW s \in Seq(S), NEW e \in S, s \in P PROVE Append(s, e) \in P
  <2>1. <<e>> \in Seq(S) /\ a \o s \in Seq(S) /\ Append(s, e) \in Seq(S)
    BY ConcatProperties, AppendProperties
  <2>2. Append(s, e) = s \o <<e>> /\ Append(a \o s, e) = (a \o s) \o <<e>>
    BY <2>1, AppendIsConcat
  <2>3. a \o Append(s, e) = Append(a \o s, e)
    BY <2>1, <2>2, ConcatAssociative
  <2>4. /\ Sift(Append(a \o s, e), set) = Sift(a \o s, set) \o OneKept(e, set)
        /\ Sift(Append(s, e), set) = Sift(s, set) \o OneKept(e, set)
    BY <2>1, SiftAppend
  <2>5. Sift(a \o s, set) = Sift(a, set) \o Sift(s, set)
    BY <1>2
  <2>6. (Sift(a, set) \o Sift(s, set)) \o OneKept(e, set) = Sift(a, set) \o (Sift(s, set) \o OneKept(e, set))
    BY SiftIsSeq, OneKeptIsSeq, ConcatAssociative
  <2> QED
    BY <2>1, <2>3, <2>4, <2>5, <2>6
<1>3. Seq(S) \subseteq P
  <2> HIDE DEF P
  <2> QED
    BY <1>1, <1>2, SeqGrows
<1> QED
  BY <1>3

LEMMA SiftOne == \A x, set : Sift(<<x>>, set) = OneKept(x, set)
<1> SUFFICES ASSUME NEW x, NEW set PROVE Sift(<<x>>, set) = OneKept(x, set)
  OBVIOUS
<1>1. <<>> \in Seq({x}) /\ x \in {x} /\ Append(<<>>, x) = <<x>>
  OBVIOUS
<1>2. Sift(<<x>>, set) = Sift(<<>>, set) \o OneKept(x, set)
  BY <1>1, SiftAppend
<1>3. OneKept(x, set) \in Seq({x})
  BY <1>1, OneKeptIsSeq
<1>4. <<>> \o OneKept(x, set) = OneKept(x, set)
  BY <1>3, ConcatEmptySeq
<1> QED
  BY <1>1, <1>2, <1>4, SiftEmpty

\* What a smaller set keeps is kept by the larger one first.
LEMMA SiftTwice ==
    ASSUME NEW S, NEW s \in Seq(S), NEW set, NEW less, less \subseteq set
    PROVE  Sift(Sift(s, set), less) = Sift(s, less)
<1> DEFINE P == {t \in Seq(S) : Sift(Sift(t, set), less) = Sift(t, less)}
<1>1. <<>> \in P
  BY SiftEmpty, EmptyFacts
<1>2. ASSUME NEW t \in Seq(S), NEW e \in S, t \in P PROVE Append(t, e) \in P
  <2>1. Append(t, e) \in Seq(S)
    BY AppendProperties
  <2>2. /\ Sift(Append(t, e), set) = Sift(t, set) \o OneKept(e, set)
        /\ Sift(Append(t, e), less) = Sift(t, less) \o OneKept(e, less)
    BY SiftAppend
  <2>3. Sift(Sift(t, set) \o OneKept(e, set), less) = Sift(Sift(t, set), less) \o Sift(OneKept(e, set), less)
      <3>1. PICK u \in Seq(S) : u = Sift(t, set)
      BY SiftIsSeq
    <3>2. PICK v \in Seq(S) : v = OneKept(e, set)
      BY OneKeptIsSeq
    <3>3. Sift(u \o v, less) = Sift(u, less) \o Sift(v, less)
      BY SiftJoined
    <3> QED
      BY <3>1, <3>2, <3>3
  <2>4. Sift(OneKept(e, set), less) = OneKept(e, less)
    BY SiftOne, SiftEmpty DEF OneKept
  <2> QED
    BY <1>2, <2>1, <2>2, <2>3, <2>4
<1>3. Seq(S) \subseteq P
  <2> HIDE DEF P
  <2> QED
    BY <1>1, <1>2, SeqGrows
<1> QED
  BY <1>3

LEMMA SiftNone ==
    ASSUME NEW S, NEW s \in Seq(S), NEW set, \A k \in 1 .. Len(s) : s[k] \notin set
    PROVE  Sift(s, set) = <<>>
<1> DEFINE left == S \ set
           P == {t \in Seq(left) : Sift(t, set) = <<>>}
<1>1. <<>> \in P
  BY SiftEmpty, EmptyFacts
<1>2. ASSUME NEW t \in Seq(left), NEW e \in left, t \in P PROVE Append(t, e) \in P
  <2>1. Append(t, e) \in Seq(left)
    BY AppendProperties
  <2>2. Sift(Append(t, e), set) = Sift(t, set) \o OneKept(e, set)
    BY SiftAppend
  <2>3. OneKept(e, set) = <<>> /\ Sift(t, set) = <<>>
    BY <1>2 DEF OneKept
  <2>4. <<>> \o <<>> = <<>>
    OBVIOUS
  <2> QED
    BY <2>1, <2>2, <2>3, <2>4
<1>3. Seq(left) \subseteq P
  <2> HIDE DEF P, left
  <2> QED
    BY <1>1, <1>2, SeqGrows
<1>4. s \in Seq(left)
  <2>1. Len(s) \in Nat /\ s \in [1 .. Len(s) -> S]
    BY LenProperties
  <2>2. s \in [1 .. Len(s) -> left]
    BY <2>1
  <2> HIDE DEF left
  <2> QED
    BY <2>1, <2>2
<1> QED
  BY <1>3, <1>4

\* A sifted sequence begins with what is sifted of its beginning.
LEMMA SiftLast ==
    ASSUME NEW S, NEW s \in Seq(S), NEW set, NEW n \in Nat, n + 1 <= Len(s), s[n + 1] \in set,
           \A j \in 1 .. Len(s) : j > n + 1 => s[j] \notin set
    PROVE  /\ SubSeq(s, 1, n) \in Seq(S)
           /\ Sift(s, set) = Append(Sift(SubSeq(s, 1, n), set), s[n + 1])
<1> DEFINE m == n + 1
           below == SubSeq(s, 1, n)
           above == SubSeq(s, m + 1, Len(s))
<1>1. Len(s) \in Nat /\ \A k \in 1 .. Len(s) : s[k] \in S
  BY SeqFacts
<1>2. /\ 1 \in 1 .. Len(s) + 1 /\ 1 \in 1 .. Len(s) /\ m \in 1 .. Len(s) /\ m \in 1 - 1 .. Len(s)
      /\ Len(s) \in m .. Len(s) /\ m - 1 = n /\ n \in Int /\ m + 1 \in Int /\ Len(s) \in Int
      /\ 1 \in Int
  BY <1>1
<1>3. below \in Seq(S)
  <2>1. \A i \in 1 .. n : s[i] \in S
    BY <1>1
  <2> QED
    BY <1>2, <2>1, SubSeqProperties
<1>4. above \in Seq(S) /\ \A k \in 1 .. Len(above) : above[k] \notin set
  <2>1. \A i \in m + 1 .. Len(s) : s[i] \in S
    BY <1>1, <1>2
  <2>2. /\ above \in Seq(S)
        /\ Len(above) = IF m + 1 <= Len(s) THEN Len(s) - (m + 1) + 1 ELSE 0
        /\ \A k \in 1 .. Len(s) - (m + 1) + 1 : above[k] = s[m + 1 + k - 1]
    BY <1>2, <2>1, SubSeqProperties
  <2> HIDE DEF above
  <2>3. ASSUME NEW k \in 1 .. Len(above) PROVE above[k] \notin set
    <3>1. k \in 1 .. Len(s) - (m + 1) + 1
      BY <1>1, <2>2
    <3>2. m + 1 + k - 1 \in 1 .. Len(s) /\ m + 1 + k - 1 > n + 1
      BY <1>1, <3>1
    <3> QED
      BY <2>2, <3>1, <3>2
  <2> QED
    BY <2>2, <2>3
<1>5. SubSeq(s, 1, m) = below \o <<s[m]>>
  BY <1>2, SubSeqRecursiveSecond
<1>6. SubSeq(s, 1, m) \o above = s
  <2>1. SubSeq(s, 1, m) \o SubSeq(s, m + 1, Len(s)) = SubSeq(s, 1, Len(s))
    BY <1>2, ConcatAdjacentSubSeq
  <2> QED
    BY <2>1, SubSeqFull
<1> HIDE DEF below, above, m
<1>7. <<s[m]>> \in Seq(S) /\ below \o <<s[m]>> \in Seq(S)
  BY <1>1, <1>2, <1>3, ConcatProperties
<1>8. Sift(s, set) = Sift(below \o <<s[m]>>, set) \o Sift(above, set)
  <2>1. PICK front \in Seq(S) : front = below \o <<s[m]>>
    BY <1>7
  <2>2. front \o above = s
    BY <1>5, <1>6, <2>1
  <2>3. Sift(front \o above, set) = Sift(front, set) \o Sift(above, set)
    BY <1>4, SiftJoined
  <2> QED
    BY <2>1, <2>2, <2>3
<1>9. Sift(above, set) = <<>>
  BY <1>4, SiftNone
<1>10. Sift(below \o <<s[m]>>, set) = Sift(below, set) \o <<s[m]>>
  <2>1. PICK one \in Seq(S) : one = <<s[m]>>
    BY <1>7
  <2>2. Sift(below \o one, set) = Sift(below, set) \o Sift(one, set)
    BY <1>3, SiftJoined
  <2>3. Sift(one, set) = <<s[m]>>
    BY <2>1, SiftOne DEF OneKept, m
  <2> QED
    BY <2>1, <2>2, <2>3
<1>11. Sift(below, set) \in Seq(S) /\ s[m] \in S
  BY <1>1, <1>2, <1>3, SiftIsSeq
<1>12. Append(Sift(below, set), s[m]) = Sift(below, set) \o <<s[m]>>
  BY <1>11, AppendIsConcat
<1>13. Sift(below, set) \o <<s[m]>> \in Seq(S)
  BY <1>7, <1>11, ConcatProperties
<1>14. Sift(s, set) = Append(Sift(below, set), s[m])
  BY <1>8, <1>9, <1>10, <1>12, <1>13, ConcatEmptySeq
<1> QED
  BY <1>3, <1>14 DEF m, below
-----------------------------------------------------------------------------
(***************************************************************************)
(* A stack of loads: the names on it from below, and which file was found  *)
(* for which name.                                                         *)
(***************************************************************************)
NamesOf(s) == [k \in DOMAIN s |-> s[k].name]
Sought(s, set) == Sift(NamesOf(s), set)
LoadsIn(s) == {<<s[k].name, s[k].file>> : k \in DOMAIN s}
Separate(s) == IsInjective(NamesOf(s))

LEMMA NamesOfFacts ==
    ASSUME NEW s, IsLoads(s)
    PROVE  /\ Len(s) \in Nat /\ DOMAIN s = 1 .. Len(s)
           /\ NamesOf(s) \in Seq(Names) /\ Len(NamesOf(s)) = Len(s)
           /\ DOMAIN NamesOf(s) = DOMAIN s /\ \A k \in DOMAIN s : NamesOf(s)[k] = s[k].name
<1>1. Len(s) \in Nat /\ DOMAIN s = 1 .. Len(s)
  BY SeqFacts DEF IsLoads
<1>2. /\ NamesOf(s) = [k \in 1 .. Len(s) |-> NamesOf(s)[k]]
      /\ \A k \in 1 .. Len(s) : NamesOf(s)[k] = s[k].name
  BY <1>1 DEF NamesOf
<1>3. \A k \in 1 .. Len(s) : NamesOf(s)[k] \in Names
  BY <1>1, <1>2 DEF IsLoads
<1>4. NamesOf(s) \in Seq(Names) /\ Len(NamesOf(s)) = Len(s)
  BY <1>1, <1>2, <1>3
<1>5. DOMAIN NamesOf(s) = DOMAIN s
  BY DEF NamesOf
<1> QED
  BY <1>1, <1>2, <1>4, <1>5

LEMMA SoughtIsSeq ==
    ASSUME NEW s, IsLoads(s), NEW set
    PROVE  Sought(s, set) \in Seq(Names)
  BY NamesOfFacts, SiftIsSeq DEF Sought

LEMMA SeparateNames ==
    ASSUME NEW s, IsLoads(s), Separate(s), NEW j \in DOMAIN s, NEW k \in DOMAIN s, s[j].name = s[k].name
    PROVE  j = k
  BY NamesOfFacts DEF Separate, IsInjective

LEMMA EmptyStack ==
    /\ IsLoads(<<>>) /\ Separate(<<>>) /\ LoadsIn(<<>>) = {} /\ \A set : Sought(<<>>, set) = <<>>
    /\ NamesOf(<<>>) = <<>>
<1>1. NamesOf(<<>>) = <<>>
  BY EmptyFacts DEF NamesOf
<1>2. IsLoads(<<>>) /\ LoadsIn(<<>>) = {}
  BY EmptyFacts DEF IsLoads, LoadsIn
<1>3. \A set : Sought(<<>>, set) = <<>>
  BY <1>1, SiftEmpty DEF Sought
<1>4. Separate(<<>>)
  BY <1>1, EmptyFacts DEF Separate, IsInjective
<1> QED
  BY <1>1, <1>2, <1>3, <1>4

\* Where the elements of a concatenation come from.
LEMMA JoinedAt ==
    ASSUME NEW S, NEW a \in Seq(S), NEW b \in Seq(S)
    PROVE  /\ Len(a) \in Nat /\ Len(b) \in Nat
           /\ a \o b \in Seq(S) /\ Len(a \o b) = Len(a) + Len(b)
           /\ DOMAIN (a \o b) = 1 .. Len(a) + Len(b)
           /\ \A i \in 1 .. Len(a) : i \in 1 .. Len(a) + Len(b) /\ (a \o b)[i] = a[i]
           /\ \A i \in 1 .. Len(b) : Len(a) + i \in 1 .. Len(a) + Len(b) /\ (a \o b)[Len(a) + i] = b[i]
           /\ \A i \in 1 .. Len(a) + Len(b) : i \in 1 .. Len(a) \/ \E j \in 1 .. Len(b) : i = Len(a) + j
<1> DEFINE n == Len(a)
           m == Len(b)
           ab == a \o b
<1>1. /\ n \in Nat /\ m \in Nat /\ ab \in Seq(S) /\ Len(ab) = n + m
      /\ \A i \in 1 .. n + m : ab[i] = IF i <= n THEN a[i] ELSE b[i - n]
  BY ConcatProperties, SeqFacts
<1>2. DOMAIN ab = 1 .. n + m
  BY <1>1, SeqFacts
<1> HIDE DEF n, m, ab
<1>3. \A i \in 1 .. n : i \in 1 .. n + m /\ ab[i] = a[i]
  BY <1>1
<1>4. \A i \in 1 .. m : n + i \in 1 .. n + m /\ ab[n + i] = b[i]
  <2>1. \A i \in 1 .. m : n + i \in 1 .. n + m /\ ~(n + i <= n) /\ n + i - n = i
    BY <1>1
  <2> QED
    BY <1>1, <2>1
<1>5. ASSUME NEW i \in 1 .. n + m PROVE i \in 1 .. n \/ \E j \in 1 .. m : i = n + j
  <2>1. CASE i <= n
    BY <1>1, <2>1
  <2>2. CASE ~(i <= n)
    <3>1. i - n \in 1 .. m /\ i = n + (i - n)
      BY <1>1, <2>2
    <3> QED
      BY <3>1
  <2> QED
    BY <2>1, <2>2
<1> QED
  BY <1>1, <1>2, <1>3, <1>4, <1>5 DEF n, m, ab

LEMMA StacksJoined ==
    ASSUME NEW a, IsLoads(a), NEW b, IsLoads(b)
    PROVE  /\ IsLoads(a \o b)
           /\ NamesOf(a \o b) = NamesOf(a) \o NamesOf(b)
           /\ LoadsIn(a \o b) = LoadsIn(a) \cup LoadsIn(b)
<1> DEFINE n == Len(a)
           m == Len(b)
           ab == a \o b
<1>1. PICK A : a \in Seq(A)
  BY DEF IsLoads
<1>2. PICK B : b \in Seq(B)
  BY DEF IsLoads
<1>3. a \in Seq(A \cup B) /\ b \in Seq(A \cup B)
  BY <1>1, <1>2, SeqMonotonic
<1>4. /\ n \in Nat /\ m \in Nat /\ ab \in Seq(A \cup B) /\ Len(ab) = n + m /\ DOMAIN ab = 1 .. n + m
      /\ \A i \in 1 .. n : i \in 1 .. n + m /\ ab[i] = a[i]
      /\ \A i \in 1 .. m : n + i \in 1 .. n + m /\ ab[n + i] = b[i]
      /\ \A i \in 1 .. n + m : i \in 1 .. n \/ \E j \in 1 .. m : i = n + j
  BY <1>3, JoinedAt
<1>5. DOMAIN a = 1 .. n /\ DOMAIN b = 1 .. m
  BY <1>1, <1>2, SeqFacts
<1>6. PICK na \in Seq(Names) : na = NamesOf(a)
  BY NamesOfFacts
<1>7. PICK nb \in Seq(Names) : nb = NamesOf(b)
  BY NamesOfFacts
<1>8. /\ Len(na) = n /\ Len(nb) = m
      /\ \A k \in 1 .. n : na[k] = a[k].name
      /\ \A k \in 1 .. m : nb[k] = b[k].name
  BY <1>5, <1>6, <1>7, NamesOfFacts
<1>9. /\ na \o nb \in Seq(Names) /\ Len(na \o nb) = n + m
      /\ \A i \in 1 .. n : (na \o nb)[i] = na[i]
      /\ \A i \in 1 .. m : (na \o nb)[n + i] = nb[i]
  <2>1. /\ na \o nb \in Seq(Names) /\ Len(na \o nb) = Len(na) + Len(nb)
        /\ \A i \in 1 .. Len(na) : i \in 1 .. Len(na) + Len(nb) /\ (na \o nb)[i] = na[i]
        /\ \A i \in 1 .. Len(nb) : Len(na) + i \in 1 .. Len(na) + Len(nb) /\ (na \o nb)[Len(na) + i] = nb[i]
    BY JoinedAt
  <2> QED
    BY <1>8, <2>1
<1> HIDE DEF ab, n, m
<1>10. \A i \in 1 .. n + m : \/ i \in 1 .. n /\ ab[i] = a[i]
                             \/ \E j \in 1 .. m : i = n + j /\ ab[i] = b[j]
  BY <1>4
<1>11. IsLoads(ab)
  <2>1. \A i \in 1 .. n + m : ab[i].name \in Names /\ ab[i].file \in Files \cup {NoFile}
    BY <1>10, <1>5 DEF IsLoads
  <2> QED
    BY <1>4, <2>1 DEF IsLoads
<1>12. NamesOf(ab) = na \o nb
  <2>1. /\ NamesOf(ab) \in Seq(Names) /\ Len(NamesOf(ab)) = n + m
        /\ \A k \in 1 .. n + m : NamesOf(ab)[k] = ab[k].name
    BY <1>4, <1>11, NamesOfFacts
  <2>2. ASSUME NEW k \in 1 .. n + m PROVE NamesOf(ab)[k] = (na \o nb)[k]
    <3>1. CASE k \in 1 .. n /\ ab[k] = a[k]
      BY <1>8, <1>9, <2>1, <3>1
    <3>2. CASE \E j \in 1 .. m : k = n + j /\ ab[k] = b[j]
      <4>1. PICK j \in 1 .. m : k = n + j /\ ab[k] = b[j]
        BY <3>2
      <4>2. (na \o nb)[n + j] = nb[j] /\ nb[j] = b[j].name
        BY <1>8, <1>9
      <4> QED
        BY <2>1, <4>1, <4>2
    <3> QED
      BY <1>10, <3>1, <3>2
  <2> QED
    BY <1>9, <2>1, <2>2, SeqEqual
<1>13. LoadsIn(ab) \subseteq LoadsIn(a) \cup LoadsIn(b)
  <2> SUFFICES ASSUME NEW i \in 1 .. n + m
               PROVE  <<ab[i].name, ab[i].file>> \in LoadsIn(a) \cup LoadsIn(b)
    BY <1>4 DEF LoadsIn
  <2> QED
    BY <1>5, <1>10 DEF LoadsIn
<1>14. LoadsIn(a) \subseteq LoadsIn(ab)
  BY <1>4, <1>5 DEF LoadsIn
<1>15. LoadsIn(b) \subseteq LoadsIn(ab)
  BY <1>4, <1>5 DEF LoadsIn
<1> QED
  BY <1>6, <1>7, <1>11, <1>12, <1>13, <1>14, <1>15 DEF ab

LEMMA SoughtJoined ==
    ASSUME NEW a, IsLoads(a), NEW b, IsLoads(b), NEW set
    PROVE  Sought(a \o b, set) = Sought(a, set) \o Sought(b, set)
<1>1. PICK na \in Seq(Names) : na = NamesOf(a)
  BY NamesOfFacts
<1>2. PICK nb \in Seq(Names) : nb = NamesOf(b)
  BY NamesOfFacts
<1>3. Sift(na \o nb, set) = Sift(na, set) \o Sift(nb, set)
  BY SiftJoined
<1> QED
  BY <1>1, <1>2, <1>3, StacksJoined DEF Sought

LEMMA OneLoad ==
    ASSUME NEW l, l.name \in Names, l.file \in Files \cup {NoFile}
    PROVE  /\ IsLoads(<<l>>) /\ NamesOf(<<l>>) = <<l.name>> /\ LoadsIn(<<l>>) = {<<l.name, l.file>>}
           /\ \A set : Sought(<<l>>, set) = OneKept(l.name, set)
<1> DEFINE one == <<l>>
<1>1. one \in Seq({l}) /\ Len(one) = 1 /\ one[1] = l /\ DOMAIN one = {1} /\ 1 .. 1 = {1}
  OBVIOUS
<1> HIDE DEF one
<1>2. IsLoads(one)
  BY <1>1 DEF IsLoads
<1>3. LoadsIn(one) = {<<l.name, l.file>>}
  BY <1>1 DEF LoadsIn
<1>4. NamesOf(one) = <<l.name>>
  <2>1. NamesOf(one) = [k \in {1} |-> l.name]
    BY <1>1 DEF NamesOf
  <2>2. \A n : [k \in {1} |-> n] = <<n>>
    BY <1>1
  <2> QED
    BY <2>1, <2>2
<1>5. \A set : Sought(one, set) = OneKept(l.name, set)
  BY <1>4, SiftOne DEF Sought
<1> QED
  BY <1>2, <1>3, <1>4, <1>5 DEF one

\* Two stacks with no name in common.
LEMMA SeparateJoined ==
    ASSUME NEW a, IsLoads(a), Separate(a), NEW b, IsLoads(b), Separate(b),
           \A j \in DOMAIN a, k \in DOMAIN b : a[j].name # b[k].name
    PROVE  Separate(a \o b)
<1>1. /\ NamesOf(a) \in Seq(Names) /\ NamesOf(b) \in Seq(Names)
      /\ DOMAIN NamesOf(a) = DOMAIN a /\ DOMAIN NamesOf(b) = DOMAIN b
      /\ \A k \in DOMAIN a : NamesOf(a)[k] = a[k].name
      /\ \A k \in DOMAIN b : NamesOf(b)[k] = b[k].name
  BY NamesOfFacts
<1>2. ToSet(NamesOf(a)) \cap ToSet(NamesOf(b)) = {}
  BY <1>1 DEF ToSet
<1>3. IsInjective(NamesOf(a) \o NamesOf(b))
  BY <1>1, <1>2, JoinedFacts DEF Separate
<1> QED
  BY <1>3, StacksJoined DEF Separate

\* Conversely, the parts of a stack without a name twice.
LEMMA SeparateParts ==
    ASSUME NEW a, IsLoads(a), NEW b, IsLoads(b), Separate(a \o b)
    PROVE  /\ Separate(a) /\ Separate(b)
           /\ \A j \in DOMAIN a, k \in DOMAIN b : a[j].name # b[k].name
<1>1. PICK na \in Seq(Names) : na = NamesOf(a)
  BY NamesOfFacts
<1>2. PICK nb \in Seq(Names) : nb = NamesOf(b)
  BY NamesOfFacts
<1> DEFINE n == Len(na)
           m == Len(nb)
           ab == na \o nb
<1>3. /\ DOMAIN a = 1 .. n /\ DOMAIN na = 1 .. n /\ \A k \in 1 .. n : na[k] = a[k].name
      /\ DOMAIN b = 1 .. m /\ DOMAIN nb = 1 .. m /\ \A k \in 1 .. m : nb[k] = b[k].name
  BY <1>1, <1>2, NamesOfFacts
<1>4. /\ n \in Nat /\ m \in Nat /\ DOMAIN ab = 1 .. n + m
      /\ \A i \in 1 .. n : i \in 1 .. n + m /\ ab[i] = na[i]
      /\ \A i \in 1 .. m : n + i \in 1 .. n + m /\ ab[n + i] = nb[i]
  BY JoinedAt
<1>5. IsInjective(ab)
  BY <1>1, <1>2, StacksJoined DEF Separate
<1> HIDE DEF ab, n, m
<1>6. \A i, j \in 1 .. n + m : ab[i] = ab[j] => i = j
  BY <1>4, <1>5 DEF IsInjective
<1>7. Separate(a)
  BY <1>1, <1>3, <1>4, <1>6 DEF Separate, IsInjective
<1>8. Separate(b)
  <2> SUFFICES ASSUME NEW i \in 1 .. m, NEW j \in 1 .. m, nb[i] = nb[j] PROVE i = j
    BY <1>2, <1>3 DEF Separate, IsInjective
  <2>1. n + i = n + j
    BY <1>4, <1>6
  <2> QED
    BY <1>4, <2>1
<1>9. \A j \in DOMAIN a, k \in DOMAIN b : a[j].name # b[k].name
  <2> SUFFICES ASSUME NEW j \in 1 .. n, NEW k \in 1 .. m, a[j].name = b[k].name PROVE FALSE
    BY <1>3
  <2>1. ab[j] = ab[n + k]
    BY <1>3, <1>4
  <2>2. j = n + k
    BY <1>4, <1>6, <2>1
  <2> QED
    BY <1>4, <2>2
<1> QED
  BY <1>7, <1>8, <1>9
-----------------------------------------------------------------------------
(***************************************************************************)
(* What findBuffer finds, and what one more tree changes in what is known, *)
(* missing and in the cache.                                               *)
(***************************************************************************)
CanBe(name) == ToSet(Candidates[name]) \cap Readable

LEMMA FoundIn ==
    ASSUME NEW name \in Names, NEW ca, FindBuffer(name, ca) # NoFile
    PROVE  /\ FindBuffer(name, ca) \in CanBe(name) /\ FindBuffer(name, ca) \notin ca
           /\ FindBuffer(name, ca) \in Files
<1> DEFINE paths == Candidates[name]
           I == {i \in 1 .. Len(paths) : paths[i] \notin ca /\ paths[i] \in Readable}
           k == SelectInSeq(paths, LAMBDA f : f \notin ca /\ f \in Readable)
<1>1. paths \in Seq(Files)
  BY TreesOK
<1>2. k = IF I # {} THEN Min(I) ELSE 0
  BY DEF SelectInSeq
<1>3. FindBuffer(name, ca) = IF k = 0 THEN NoFile ELSE paths[k]
  BY DEF FindBuffer
<1>4. Len(paths) \in Nat /\ \A i \in 1 .. Len(paths) : paths[i] \in ToSet(paths) /\ paths[i] \in Files
  BY <1>1, SeqFacts
<1>5. I \in SUBSET Nat
  BY <1>4
<1>6. k # 0
  BY <1>3
<1>7. I # {}
  BY <1>2, <1>6
<1>8. k \in I
  BY <1>2, <1>5, <1>7, LeastIndex
<1>9. k \in 1 .. Len(paths) /\ paths[k] \notin ca /\ paths[k] \in Readable
  BY <1>8
<1> HIDE DEF k, I
<1>10. paths[k] \in CanBe(name) /\ paths[k] \in Files
  BY <1>4, <1>9 DEF CanBe
<1> QED
  BY <1>3, <1>6, <1>9, <1>10

LEMMA FoundNone ==
    ASSUME NEW name \in Names, NEW ca
    PROVE  FindBuffer(name, ca) = NoFile <=> CanBe(name) \subseteq ca
<1> DEFINE paths == Candidates[name]
           I == {i \in 1 .. Len(paths) : paths[i] \notin ca /\ paths[i] \in Readable}
           k == SelectInSeq(paths, LAMBDA f : f \notin ca /\ f \in Readable)
<1>1. paths \in Seq(Files)
  BY TreesOK
<1>2. k = IF I # {} THEN Min(I) ELSE 0
  BY DEF SelectInSeq
<1>3. FindBuffer(name, ca) = IF k = 0 THEN NoFile ELSE paths[k]
  BY DEF FindBuffer
<1>4. Len(paths) \in Nat /\ ToSet(paths) = {paths[i] : i \in 1 .. Len(paths)}
  BY <1>1, SeqFacts
<1>5. CASE I = {}
  <2>1. \A i \in 1 .. Len(paths) : paths[i] \in Readable => paths[i] \in ca
    BY <1>5
  <2>2. CanBe(name) \subseteq ca
    BY <1>4, <2>1 DEF CanBe
  <2> QED
    BY <1>2, <1>3, <1>5, <2>2
<1>6. CASE I # {}
  <2>1. PICK i \in I : TRUE
    BY <1>6
  <2>2. paths[i] \in CanBe(name) /\ paths[i] \notin ca
    BY <1>4, <2>1 DEF CanBe
  <2>3. I \in SUBSET Nat
    BY <1>4
  <2>4. k \in I
    BY <1>2, <1>6, <2>3, LeastIndex
  <2>5. k \in 1 .. Len(paths)
    BY <2>4
  <2> HIDE DEF k, I
  <2>6. k # 0 /\ paths[k] \in Files
    BY <1>1, <1>4, <2>5, SeqFacts
  <2>7. FindBuffer(name, ca) \in Files
    BY <1>3, <2>6
  <2> QED
    BY <2>2, <2>7, TreesOK
<1> QED
  BY <1>5, <1>6

\* Only the candidates matter.
LEMMA FoundSame ==
    ASSUME NEW name \in Names, NEW ca, NEW other, CanBe(name) \cap ca = CanBe(name) \cap other
    PROVE  FindBuffer(name, ca) = FindBuffer(name, other)
<1> DEFINE paths == Candidates[name]
           I(c) == {i \in 1 .. Len(paths) : paths[i] \notin c /\ paths[i] \in Readable}
           k(c) == SelectInSeq(paths, LAMBDA f : f \notin c /\ f \in Readable)
<1>1. paths \in Seq(Files)
  BY TreesOK
<1>2. ToSet(paths) = {paths[i] : i \in 1 .. Len(paths)}
  BY <1>1, SeqFacts
<1>3. \A i \in 1 .. Len(paths) : paths[i] \in Readable => (paths[i] \in ca <=> paths[i] \in other)
  BY <1>2 DEF CanBe
<1>4. I(ca) = I(other)
  BY <1>3
<1>5. k(ca) = (IF I(ca) # {} THEN Min(I(ca)) ELSE 0) /\ k(other) = (IF I(other) # {} THEN Min(I(other)) ELSE 0)
  BY DEF SelectInSeq
<1>6. /\ FindBuffer(name, ca) = IF k(ca) = 0 THEN NoFile ELSE paths[k(ca)]
      /\ FindBuffer(name, other) = IF k(other) = 0 THEN NoFile ELSE paths[k(other)]
  BY DEF FindBuffer
<1> HIDE DEF I, k
<1> QED
  BY <1>4, <1>5, <1>6

\* NewNames: every name the tree refers to that is not excluded, once.
LEMMA NewNamesOnce ==
    ASSUME NEW tree, tree.files \in Seq(Files), NEW excluded
    PROVE  /\ ToSet(NewNames(tree, excluded)) = ToSet(ReferredBy(tree)) \ excluded
           /\ IsInjective(NewNames(tree, excluded))
<1> DEFINE refs == ReferredBy(tree)
           fresh(k) == refs[k] \notin excluded /\ \A j \in 1 .. k - 1 : refs[j] # refs[k]
           parts == [k \in DOMAIN refs |-> IF fresh(k) THEN <<refs[k]>> ELSE <<>>]
<1>1. NewNames(tree, excluded) = FlattenSeq(parts)
  BY DEF NewNames
<1>2. PICK rs \in Seq(Names) : rs = refs
  BY ReferredByFacts
<1>3. /\ Len(rs) \in Nat /\ DOMAIN rs = 1 .. Len(rs) /\ \A k \in DOMAIN rs : rs[k] \in Names
      /\ ToSet(rs) = {rs[k] : k \in 1 .. Len(rs)}
  BY SeqFacts
<1>4. \A k \in 1 .. Len(rs) : fresh(k) <=> (rs[k] \notin excluded /\ \A j \in 1 .. k - 1 : rs[j] # rs[k])
  BY <1>2
<1>5. /\ parts = [k \in 1 .. Len(rs) |-> parts[k]]
      /\ \A k \in 1 .. Len(rs) : parts[k] = IF fresh(k) THEN <<rs[k]>> ELSE <<>>
  BY <1>2, <1>3
<1> HIDE DEF parts, fresh, refs
<1>6. ASSUME NEW x \in Names
      PROVE  /\ <<x>> \in Seq(Names) /\ ToSet(<<x>>) = {x} /\ IsInjective(<<x>>)
             /\ <<>> \in Seq(Names) /\ ToSet(<<>>) = {} /\ IsInjective(<<>>)
  <2> DEFINE one == <<x>>
  <2>1. one \in Seq({x}) /\ Len(one) = 1 /\ one[1] = x /\ DOMAIN one = {1} /\ one \in Seq(Names)
    OBVIOUS
  <2> HIDE DEF one
  <2>2. ToSet(one) = {x} /\ IsInjective(one)
    BY <2>1 DEF ToSet, IsInjective
  <2>3. ToSet(<<>>) = {} /\ IsInjective(<<>>)
    BY EmptyFacts DEF ToSet, IsInjective
  <2> QED
    BY <2>1, <2>2, <2>3, EmptyFacts DEF one
<1>7. ASSUME NEW k \in 1 .. Len(rs)
      PROVE  /\ parts[k] \in Seq(Names) /\ IsInjective(parts[k])
             /\ ToSet(parts[k]) = IF fresh(k) THEN {rs[k]} ELSE {}
  <2>1. PICK x \in Names : x = rs[k]
    BY <1>3
  <2> QED
    BY <1>5, <1>6, <2>1
<1>8. parts \in Seq(Seq(Names)) /\ DOMAIN parts = 1 .. Len(rs)
  BY <1>3, <1>5, <1>7
<1>9. Apart(parts)
  <2> SUFFICES ASSUME NEW j \in 1 .. Len(rs), NEW k \in 1 .. Len(rs), j # k
               PROVE  ToSet(parts[j]) \cap ToSet(parts[k]) = {}
    BY <1>7, <1>8 DEF Apart
  <2>1. j \in 1 .. k - 1 \/ k \in 1 .. j - 1
    BY <1>3
  <2> QED
    BY <1>4, <1>7, <2>1
<1>10. /\ IsInjective(FlattenSeq(parts))
       /\ ToSet(FlattenSeq(parts)) = UNION {ToSet(s) : s \in ToSet(parts)}
       /\ ToSet(parts) = {parts[k] : k \in 1 .. Len(rs)}
  <2>1. ToSet(parts) = {parts[k] : k \in 1 .. Len(rs)}
    BY <1>8 DEF ToSet
  <2> QED
    BY <1>8, <1>9, <2>1, FlattenFacts
<1>11. ASSUME NEW x \in ToSet(FlattenSeq(parts)) PROVE x \in ToSet(rs) \ excluded
  <2>1. PICK k \in 1 .. Len(rs) : x \in ToSet(parts[k])
    BY <1>10
  <2> QED
    BY <1>3, <1>4, <1>7, <2>1
<1>12. ASSUME NEW x \in ToSet(rs) \ excluded PROVE x \in ToSet(FlattenSeq(parts))
  <2> DEFINE I == {i \in 1 .. Len(rs) : rs[i] = x}
  <2>1. I \in SUBSET Nat /\ I # {}
    BY <1>3
  <2>2. Min(I) \in I /\ \A i \in I : Min(I) <= i
    <3> HIDE DEF I
    <3> QED
      BY <2>1, LeastIndex
  <2>3. PICK k \in 1 .. Len(rs) : rs[k] = x /\ \A i \in 1 .. Len(rs) : rs[i] = x => k <= i
    BY <2>2
  <2>4. fresh(k)
    <3>1. \A j \in 1 .. k - 1 : j \in 1 .. Len(rs) /\ ~(k <= j)
      BY <1>3
    <3> QED
      BY <1>4, <2>3, <3>1
  <2>5. x \in ToSet(parts[k])
    BY <1>7, <2>3, <2>4
  <2> QED
    BY <1>10, <2>5
<1>13. ToSet(FlattenSeq(parts)) = ToSet(rs) \ excluded
  BY <1>11, <1>12
<1> QED
  BY <1>1, <1>2, <1>10, <1>13 DEF refs
-----------------------------------------------------------------------------
CachedOf(ts) == UNION { CachedBy(t) : t \in ToSet(ts) }

LEMMA WantedNames ==
    ASSUME NEW ts, NEW n
    PROVE  n \in Wanted(ts) <=> /\ n \in Names /\ n \notin Known(ts)
                                /\ FindBuffer(n, CachedOf(ts)) # NoFile
<1> DEFINE ca == CachedOf(ts)
<1>1. Wanted(ts) = { m \in Names \ Known(ts) : FindBuffer(m, ca) # NoFile }
  BY DEF Wanted, CachedOf
<1> HIDE DEF ca
<1> QED
  BY <1>1 DEF ca

\* What the tree of a searched file says of it.
LEMMA TreeOfFile ==
    ASSUME NEW file, NEW tree, tree.files = <<file>>
    PROVE  /\ DeclaredBy(tree) = Declares[file]
           /\ CachedBy(tree) = {file} \cup Includes[file]
<1>1. ToSet(<<file>>) = {file}
  <2> DEFINE one == <<file>>
  <2>1. one[1] = file /\ DOMAIN one = {1}
    OBVIOUS
  <2> HIDE DEF one
  <2>2. ToSet(one) = {file}
    BY <2>1 DEF ToSet
  <2> QED
    BY <2>2 DEF one
<1>2. ToSet(tree.files) = {file}
  BY <1>1
<1> QED
  BY <1>2 DEF DeclaredBy, CachedBy

MissedBy(ts) == UNION { ToSet(ReferredBy(t)) : t \in ToSet(ts) }

LEMMA MissedNames == \A ts : Missing(ts) = MissedBy(ts) \ Known(ts)
  BY DEF Missing, MissedBy

LEMMA OneMoreTree ==
    ASSUME NEW T, NEW ts \in Seq(T), NEW file \in Files, NEW tree, tree.files = <<file>>
    PROVE  /\ Known(Append(ts, tree)) = Known(ts) \cup Declares[file]
           /\ CachedOf(Append(ts, tree)) = CachedOf(ts) \cup {file} \cup Includes[file]
           /\ Missing(Append(ts, tree)) = (Missing(ts) \ Declares[file]) \cup
                  ToSet(NewNames(tree, Known(ts) \cup Declares[file] \cup Missing(ts)))
<1>1. ToSet(Append(ts, tree)) = ToSet(ts) \cup {tree}
  BY AppendedSet
<1>2. DeclaredBy(tree) = Declares[file] /\ CachedBy(tree) = {file} \cup Includes[file]
  BY TreeOfFile
<1>3. Known(Append(ts, tree)) = Known(ts) \cup Declares[file]
  BY <1>1, <1>2 DEF Known
<1>4. CachedOf(Append(ts, tree)) = CachedOf(ts) \cup {file} \cup Includes[file]
  BY <1>1, <1>2 DEF CachedOf
<1> DEFINE Missed == MissedBy(ts)
           MissedNow == MissedBy(Append(ts, tree))
           refs == ToSet(ReferredBy(tree))
<1>5. MissedNow = Missed \cup refs
  BY <1>1 DEF MissedBy
<1>6. Missing(ts) = Missed \ Known(ts) /\ Missing(Append(ts, tree)) = MissedNow \ Known(Append(ts, tree))
  BY MissedNames
<1>7. tree.files \in Seq(Files)
  OBVIOUS
<1>8. ToSet(NewNames(tree, Known(ts) \cup Declares[file] \cup Missing(ts)))
        = refs \ (Known(ts) \cup Declares[file] \cup Missing(ts))
  BY <1>7, NewNamesOnce
<1> HIDE DEF Missed, MissedNow, refs
<1>9. Missing(Append(ts, tree)) = (Missing(ts) \ Declares[file]) \cup
          (refs \ (Known(ts) \cup Declares[file] \cup Missing(ts)))
  BY <1>3, <1>5, <1>6
<1> QED
  BY <1>3, <1>4, <1>8, <1>9

\* With another tree fewer names are worth a search.
LEMMA WantedFewer ==
    ASSUME NEW T, NEW ts \in Seq(T), NEW file \in Files, NEW tree, tree.files = <<file>>
    PROVE  Wanted(Append(ts, tree)) \subseteq Wanted(ts)
<1> SUFFICES ASSUME NEW n \in Wanted(Append(ts, tree)) PROVE n \in Wanted(ts)
  OBVIOUS
<1>1. n \in Names /\ n \notin Known(Append(ts, tree)) /\ FindBuffer(n, CachedOf(Append(ts, tree))) # NoFile
  BY WantedNames
<1>2. n \notin Known(ts) /\ CachedOf(ts) \subseteq CachedOf(Append(ts, tree))
  <2>1. /\ Known(Append(ts, tree)) = Known(ts) \cup Declares[file]
        /\ CachedOf(Append(ts, tree)) = CachedOf(ts) \cup {file} \cup Includes[file]
    BY OneMoreTree
  <2> QED
    BY <1>1, <2>1
<1>3. FindBuffer(n, CachedOf(ts)) # NoFile
  BY <1>1, <1>2, FoundNone
<1> QED
  BY <1>1, <1>2, <1>3, WantedNames
-----------------------------------------------------------------------------
(***************************************************************************)
(* A stack is sound if every file on it is the one a search among the      *)
(* trees would find for its name, and every other file that a wanted name  *)
(* could have and that is in the cache is there because of a tree.         *)
(***************************************************************************)
FileSound(n, f, ts) ==
    /\ n \in Names /\ n \in Known(ts) \cup Missing(ts)
    /\ f # NoFile => /\ f \in CanBe(n)
                     /\ n \notin Known(ts) => f = FindBuffer(n, CachedOf(ts))

Sound(L, ts, ca) ==
    /\ CachedOf(ts) \subseteq ca
    /\ \A l \in L : FileSound(l[1], l[2], ts)
    /\ \A n \in Names \ Known(ts) : \A f \in CanBe(n) \cap ca : f \in CachedOf(ts) \/ <<n, f>> \in L

\* A name nobody has a file for yet finds among the trees what it finds in the cache.
LEMMA FindsSame ==
    ASSUME NEW L, NEW ts, NEW ca, Sound(L, ts, ca), NEW n \in Names, n \notin Known(ts),
           \A f : f # NoFile => <<n, f>> \notin L
    PROVE  FindBuffer(n, ca) = FindBuffer(n, CachedOf(ts))
<1>1. NoFile \notin CanBe(n)
  BY TreesOK DEF CanBe
<1>2. CanBe(n) \cap ca = CanBe(n) \cap CachedOf(ts)
  BY <1>1 DEF Sound
<1> QED
  BY <1>2, FoundSame

\* Loads that have no file, or whose name is declared, may go.
LEMMA SoundWithout ==
    ASSUME NEW L, NEW ts, NEW ca, Sound(L, ts, ca), NEW M, M \subseteq L,
           \A l \in L : l \in M \/ l[2] = NoFile \/ l[1] \in Known(ts)
    PROVE  Sound(M, ts, ca)
<1>1. ASSUME NEW n \in Names \ Known(ts), NEW f \in CanBe(n) \cap ca
      PROVE  f \in CachedOf(ts) \/ <<n, f>> \in M
  <2>1. f # NoFile
    BY TreesOK DEF CanBe
  <2>2. f \in CachedOf(ts) \/ <<n, f>> \in L
    BY DEF Sound
  <2>3. <<n, f>> \in L => <<n, f>> \in M
    BY <2>1
  <2> QED
    BY <2>2, <2>3
<1> QED
  BY <1>1 DEF Sound

\* New names without files may come.
LEMMA SoundWith ==
    ASSUME NEW L, NEW ts, NEW ca, Sound(L, ts, ca), NEW M, L \subseteq M,
           \A l \in M : l \in L \/ (l[1] \in Names /\ l[1] \in Missing(ts) /\ l[2] = NoFile)
    PROVE  Sound(M, ts, ca)
<1>1. \A l \in M : FileSound(l[1], l[2], ts)
  BY DEF Sound, FileSound
<1> QED
  BY <1>1 DEF Sound

\* The file of a name is opened.
LEMMA SoundOpened ==
    ASSUME NEW L, NEW ts, NEW ca, Sound(L, ts, ca), NEW n \in Names, n \notin Known(ts), n \in Missing(ts),
           \A l \in L : l[1] # n,
           NEW file, file = FindBuffer(n, CachedOf(ts)), file # NoFile,
           \A m \in Names : m # n => file \notin CanBe(m)
    PROVE  Sound(L \cup {<<n, file>>}, ts, ca \cup {file})
<1> DEFINE M == L \cup {<<n, file>>}
           more == ca \cup {file}
<1>1. file \in CanBe(n)
  BY FoundIn
<1>2. FileSound(n, file, ts)
  BY <1>1 DEF FileSound
<1>3. \A l \in M : FileSound(l[1], l[2], ts)
  BY <1>2 DEF Sound
<1>4. ASSUME NEW m \in Names \ Known(ts), NEW f \in CanBe(m) \cap more
      PROVE  f \in CachedOf(ts) \/ <<m, f>> \in M
  BY <1>4 DEF Sound
<1> QED
  BY <1>3, <1>4 DEF Sound

\* What a file of the batch includes is in no search.
LEMMA SoundIncluded ==
    ASSUME NEW L, NEW ts, NEW ca, Sound(L, ts, ca), NEW file, file \in ca,
           \A m \in Names : Includes[file] \cap CanBe(m) \subseteq {file}
    PROVE  Sound(L, ts, ca \cup Includes[file])
<1> DEFINE more == ca \cup Includes[file]
<1>1. ASSUME NEW m \in Names \ Known(ts), NEW f \in CanBe(m) \cap more
      PROVE  f \in CachedOf(ts) \/ <<m, f>> \in L
  <2>1. f \in ca
    OBVIOUS
  <2> QED
    BY <2>1 DEF Sound
<1> QED
  BY <1>1 DEF Sound

\* The file of a name that no other load has, and what its tree leaves in the cache.
Fits(L, ts, ca, n, x, file, more) ==
    /\ n \in Names /\ n \notin Known(ts)
    /\ file = FindBuffer(n, CachedOf(ts)) /\ file # NoFile
    /\ x \in {NoFile, file} /\ Sound(L \cup {<<n, x>>}, ts, ca)
    /\ \A l \in L : l[1] # n
    /\ \A l \in L : l[2] = NoFile \/ CanBe(l[1]) \cap ({file} \cup Includes[file]) = {}
    /\ more = ca \cup {file} \cup Includes[file]

LEMMA SoundTree ==
    ASSUME NEW T, NEW ts \in Seq(T), NEW L, NEW ca, NEW n, NEW x, NEW file, NEW more,
           Fits(L, ts, ca, n, x, file, more), NEW tree, tree.files = <<file>>
    PROVE  Sound(L, Append(ts, tree), more)
<1> DEFINE us == Append(ts, tree)
<1>1. /\ n \in Names /\ n \notin Known(ts)
      /\ file = FindBuffer(n, CachedOf(ts)) /\ file # NoFile
      /\ x \in {NoFile, file} /\ Sound(L \cup {<<n, x>>}, ts, ca)
      /\ \A l \in L : l[1] # n
      /\ \A l \in L : l[2] = NoFile \/ CanBe(l[1]) \cap ({file} \cup Includes[file]) = {}
      /\ more = ca \cup {file} \cup Includes[file]
  BY DEF Fits
<1>2. file \in Files
  BY <1>1, FoundIn
<1>3. /\ Known(us) = Known(ts) \cup Declares[file]
      /\ CachedOf(us) = CachedOf(ts) \cup {file} \cup Includes[file]
      /\ Missing(ts) \ Declares[file] \subseteq Missing(us)
  <2>1. /\ Known(us) = Known(ts) \cup Declares[file]
        /\ CachedOf(us) = CachedOf(ts) \cup {file} \cup Includes[file]
        /\ Missing(us) = (Missing(ts) \ Declares[file]) \cup
               ToSet(NewNames(tree, Known(ts) \cup Declares[file] \cup Missing(ts)))
    BY <1>2, OneMoreTree
  <2> QED
    BY <2>1
<1> HIDE DEF us
<1>4. ASSUME NEW l \in L PROVE FileSound(l[1], l[2], us)
  <2>1. FileSound(l[1], l[2], ts)
    BY <1>1 DEF Sound
  <2>2. l[1] \in Known(us) \cup Missing(us) /\ l[1] \in Names
    BY <1>3, <2>1 DEF FileSound
  <2>3. ASSUME l[2] # NoFile, l[1] \notin Known(us) PROVE l[2] = FindBuffer(l[1], CachedOf(us))
    <3>1. l[2] = FindBuffer(l[1], CachedOf(ts))
      BY <1>3, <2>1, <2>3 DEF FileSound
    <3>2. CanBe(l[1]) \cap CachedOf(ts) = CanBe(l[1]) \cap CachedOf(us)
      BY <1>1, <1>3, <2>3
    <3>3. FindBuffer(l[1], CachedOf(ts)) = FindBuffer(l[1], CachedOf(us))
      BY <2>2, <3>2, FoundSame
    <3> QED
      BY <3>1, <3>3
  <2> QED
    BY <2>1, <2>2, <2>3 DEF FileSound
<1>5. ASSUME NEW m \in Names \ Known(us), NEW f \in CanBe(m) \cap more
      PROVE  f \in CachedOf(us) \/ <<m, f>> \in L
  <2>1. f \in CachedOf(us) \/ f \in ca
    BY <1>1, <1>3
  <2>2. CASE f \in ca
    <3>1. m \in Names \ Known(ts)
      BY <1>3
    <3>2. f \in CachedOf(ts) \/ <<m, f>> \in L \cup {<<n, x>>}
      BY <1>1, <2>2, <3>1 DEF Sound
    <3>3. f # NoFile
      BY TreesOK DEF CanBe
    <3>4. <<m, f>> = <<n, x>> => f = file
      BY <1>1, <3>3
    <3> QED
      BY <1>3, <3>2, <3>4
  <2> QED
    BY <2>1, <2>2
<1>6. CachedOf(us) \subseteq more
  <2>1. CachedOf(ts) \subseteq ca
    BY <1>1 DEF Sound
  <2> QED
    BY <1>1, <1>3, <2>1
<1> QED
  BY <1>4, <1>5, <1>6 DEF Sound, us
-----------------------------------------------------------------------------
(***************************************************************************)
(* Taking the last, the first and the first so many loads of a stack.      *)
(***************************************************************************)
\* A stack is what is below one of its loads, the load, and what is above.
LEMMA StackParts ==
    ASSUME NEW s, IsLoads(s), NEW n \in Nat, n + 1 <= Len(s)
    PROVE  /\ IsLoads(SubSeq(s, 1, n)) /\ IsLoads(SubSeq(s, 1, n + 1))
           /\ Len(SubSeq(s, 1, n)) = n
           /\ \A k \in 1 .. n : SubSeq(s, 1, n)[k] = s[k]
           /\ SubSeq(s, 1, n + 1) = SubSeq(s, 1, n) \o <<s[n + 1]>>
           /\ SubSeq(s, 1, n + 1) \o SubSeq(s, n + 2, Len(s)) = s
<1>1. PICK T : s \in Seq(T)
  BY DEF IsLoads
<1>2. Len(s) \in Nat /\ DOMAIN s = 1 .. Len(s) /\ \A k \in 1 .. Len(s) : s[k] \in T
  BY <1>1, SeqFacts
<1>3. ASSUME NEW m \in Nat, m <= Len(s)
      PROVE  /\ IsLoads(SubSeq(s, 1, m)) /\ Len(SubSeq(s, 1, m)) = m
             /\ \A k \in 1 .. m : SubSeq(s, 1, m)[k] = s[k]
  <2> DEFINE t == SubSeq(s, 1, m)
  <2>1. 1 \in Int /\ m \in Int /\ \A i \in 1 .. m : s[i] \in T /\ i \in 1 .. m - 1 + 1 /\ 1 + i - 1 = i
    BY <1>2, <1>3
  <2>2. /\ t \in Seq(T) /\ Len(t) = (IF 1 <= m THEN m - 1 + 1 ELSE 0)
        /\ \A i \in 1 .. m - 1 + 1 : t[i] = s[1 + i - 1]
    BY <2>1, SubSeqProperties
  <2> HIDE DEF t
  <2>3. Len(t) = m /\ \A i \in 1 .. m : t[i] = s[i]
    BY <1>3, <2>1, <2>2
  <2>4. DOMAIN t = 1 .. m
    BY <2>2, <2>3, SeqFacts
  <2>5. IsLoads(t)
    BY <1>2, <1>3, <2>2, <2>3, <2>4 DEF IsLoads
  <2> QED
    BY <2>3, <2>5 DEF t
<1>4. PICK m : m = n + 1
  OBVIOUS
<1>5. /\ n <= Len(s) /\ m \in Nat /\ m <= Len(s) /\ m \in 1 .. Len(s) /\ m - 1 = n /\ n + 2 = m + 1
      /\ 1 \in 1 .. Len(s) /\ m \in 1 .. Len(s)
      /\ 1 \in 1 .. Len(s) + 1 /\ m \in 1 - 1 .. Len(s) /\ Len(s) \in m .. Len(s)
  BY <1>2, <1>4
<1>6. SubSeq(s, 1, m) = SubSeq(s, 1, m - 1) \o <<s[m]>>
  BY <1>1, <1>5, SubSeqRecursiveSecond
<1>7. SubSeq(s, 1, m) \o SubSeq(s, m + 1, Len(s)) = SubSeq(s, 1, Len(s))
  BY <1>1, <1>5, ConcatAdjacentSubSeq
<1>8. SubSeq(s, 1, Len(s)) = s
  BY <1>1, SubSeqFull
<1> QED
  BY <1>3, <1>4, <1>5, <1>6, <1>7, <1>8

\* The load on top of others, its name nowhere among them.
TopOf(r, l, s) ==
    /\ IsLoads(r) /\ Separate(r) /\ l.name \in Names /\ l.file \in Files \cup {NoFile}
    /\ LoadsIn(s) = LoadsIn(r) \cup {<<l.name, l.file>>}
    /\ \A x \in LoadsIn(r) : x[1] # l.name
    /\ \A set : Sought(s, set) = Sought(r, set) \o OneKept(l.name, set)

LEMMA TopTaken ==
    ASSUME NEW r, IsLoads(r), NEW l, l.name \in Names, l.file \in Files \cup {NoFile},
           Separate(r \o <<l>>)
    PROVE  TopOf(r, l, r \o <<l>>)
<1> DEFINE one == <<l>>
<1>1. /\ IsLoads(one) /\ LoadsIn(one) = {<<l.name, l.file>>}
      /\ \A set : Sought(one, set) = OneKept(l.name, set)
  BY OneLoad
<1>2. 1 \in DOMAIN one /\ one[1] = l
  OBVIOUS
<1>3. Separate(r \o one)
  OBVIOUS
<1> HIDE DEF one
<1>4. /\ Separate(r) /\ \A j \in DOMAIN r : r[j].name # l.name
      /\ LoadsIn(r \o one) = LoadsIn(r) \cup {<<l.name, l.file>>}
      /\ \A set : Sought(r \o one, set) = Sought(r, set) \o OneKept(l.name, set)
  <2>1. Separate(r) /\ \A j \in DOMAIN r, k \in DOMAIN one : r[j].name # one[k].name
    BY <1>1, <1>3, SeparateParts
  <2>2. LoadsIn(r \o one) = LoadsIn(r) \cup LoadsIn(one)
    BY <1>1, StacksJoined
  <2>3. ASSUME NEW set PROVE Sought(r \o one, set) = Sought(r, set) \o Sought(one, set)
    BY <1>1, SoughtJoined
  <2> QED
    BY <1>1, <1>2, <2>1, <2>2, <2>3
<1>5. \A x \in LoadsIn(r) : x[1] # l.name
  BY <1>4 DEF LoadsIn
<1> QED
  BY <1>4, <1>5 DEF TopOf, one

LEMMA LastTaken ==
    ASSUME NEW s, IsLoads(s), Separate(s), s # <<>>
    PROVE  TopOf(Front(s), Last(s), s)
<1>1. PICK T : s \in Seq(T)
  BY DEF IsLoads
<1>2. Len(s) \in Nat /\ Len(s) # 0 /\ DOMAIN s = 1 .. Len(s)
  BY <1>1, EmptySeq, SeqFacts
<1>3. PICK n \in Nat : n = Len(s) - 1
  <2>1. \A l \in Nat : l # 0 => l - 1 \in Nat
    OBVIOUS
  <2>2. Len(s) - 1 \in Nat
    BY <1>2, <2>1
  <2> QED
    BY <2>2
<1>4. n + 1 = Len(s) /\ n + 1 <= Len(s) /\ Len(s) \in DOMAIN s
  BY <1>2, <1>3
<1>5. IsLoads(SubSeq(s, 1, n)) /\ SubSeq(s, 1, n + 1) = SubSeq(s, 1, n) \o <<s[n + 1]>>
  BY <1>4, StackParts
<1>6. Front(s) = SubSeq(s, 1, n) /\ Last(s) = s[Len(s)]
  BY <1>3 DEF Front, Last
<1>7. SubSeq(s, 1, Len(s)) = s
  BY <1>1, SubSeqFull
<1>8. s = Front(s) \o <<Last(s)>> /\ IsLoads(Front(s))
  BY <1>4, <1>5, <1>6, <1>7
<1>9. Last(s).name \in Names /\ Last(s).file \in Files \cup {NoFile}
  BY <1>4, <1>6 DEF IsLoads
<1>10. PICK r : r = Front(s)
  OBVIOUS
<1>11. PICK l : l = Last(s)
  OBVIOUS
<1>12. TopOf(r, l, r \o <<l>>)
  BY <1>8, <1>9, <1>10, <1>11, TopTaken
<1> QED
  BY <1>8, <1>10, <1>11, <1>12

LEMMA PrefixTaken ==
    ASSUME NEW s, IsLoads(s), Separate(s), NEW n \in Nat, n + 1 <= Len(s)
    PROVE  /\ Separate(SubSeq(s, 1, n + 1))
           /\ TopOf(SubSeq(s, 1, n), s[n + 1], SubSeq(s, 1, n + 1))
<1>1. PICK r : r = SubSeq(s, 1, n)
  OBVIOUS
<1>2. PICK l : l = s[n + 1]
  OBVIOUS
<1>3. IsLoads(r) /\ SubSeq(s, 1, n + 1) = r \o <<l>>
  BY <1>1, <1>2, StackParts
<1>4. l.name \in Names /\ l.file \in Files \cup {NoFile}
  <2>1. n + 1 \in DOMAIN s
    BY NamesOfFacts
  <2> QED
    BY <1>2, <2>1 DEF IsLoads
<1>5. Separate(r \o <<l>>)
  <2> DEFINE whole == SubSeq(s, 1, n + 1)
             rest == SubSeq(s, n + 2, Len(s))
  <2>1. IsLoads(whole) /\ whole \o rest = s
    BY StackParts
  <2>2. Len(whole) = n + 1 /\ \A k \in 1 .. n + 1 : whole[k] = s[k]
    <3>1. PICK T : s \in Seq(T)
      BY DEF IsLoads
    <3>2. /\ Len(s) \in Nat
          /\ \A i \in 1 .. n + 1 : s[i] \in T /\ i \in 1 .. n + 1 - 1 + 1 /\ 1 + i - 1 = i
      BY <3>1, SeqFacts
    <3>3. PICK m \in Int : m = n + 1
      OBVIOUS
    <3>4. /\ Len(SubSeq(s, 1, m)) = (IF 1 <= m THEN m - 1 + 1 ELSE 0)
          /\ \A i \in 1 .. m - 1 + 1 : SubSeq(s, 1, m)[i] = s[1 + i - 1]
      BY <3>2, <3>3, SubSeqProperties
    <3> QED
      BY <3>2, <3>3, <3>4
  <2> HIDE DEF whole
  <2>3. /\ DOMAIN NamesOf(whole) = 1 .. n + 1 /\ \A k \in 1 .. n + 1 : NamesOf(whole)[k] = s[k].name
    BY <2>1, <2>2, NamesOfFacts
  <2>4. \A j, k \in 1 .. n + 1 : s[j].name = s[k].name => j = k
    <3>1. \A j \in 1 .. n + 1 : j \in DOMAIN s
      BY NamesOfFacts
    <3> QED
      BY <3>1, SeparateNames
  <2>5. Separate(whole)
    BY <2>3, <2>4 DEF Separate, IsInjective
  <2> QED
    BY <1>3, <2>5 DEF whole
<1>6. TopOf(r, l, r \o <<l>>)
  BY <1>3, <1>4, <1>5, TopTaken
<1> QED
  BY <1>1, <1>2, <1>3, <1>5, <1>6

\* What is above a load adds nothing if nobody seeks its names.
LEMMA NothingAbove ==
    ASSUME NEW s, IsLoads(s), NEW n \in Nat, n + 1 <= Len(s), NEW set,
           \A j \in 1 .. Len(s) : j > n + 1 => s[j].name \notin set, s[n + 1].name \in set
    PROVE  Sought(s, set) = Append(Sought(SubSeq(s, 1, n), set), s[n + 1].name)
<1>1. PICK names \in Seq(Names) : names = NamesOf(s)
  BY NamesOfFacts
<1>2. /\ Len(names) = Len(s) /\ Len(s) \in Nat /\ \A k \in 1 .. Len(s) : names[k] = s[k].name
  BY <1>1, NamesOfFacts
<1>3. n + 1 \in 1 .. Len(s)
  BY <1>2
<1>4. /\ SubSeq(names, 1, n) \in Seq(Names)
      /\ Sift(names, set) = Append(Sift(SubSeq(names, 1, n), set), names[n + 1])
  BY <1>2, <1>3, SiftLast
<1>5. NamesOf(SubSeq(s, 1, n)) = SubSeq(names, 1, n)
  <2> DEFINE t == SubSeq(s, 1, n)
             u == SubSeq(names, 1, n)
  <2>1. IsLoads(t) /\ Len(t) = n /\ \A k \in 1 .. n : t[k] = s[k]
    BY StackParts
  <2>2. Len(u) = n /\ \A k \in 1 .. n : u[k] = names[k]
    <3>1. \A i \in 1 .. n : i \in 1 .. Len(names) /\ i \in 1 .. n - 1 + 1 /\ 1 + i - 1 = i
      BY <1>2
    <3>2. 1 \in Int /\ n \in Int /\ \A i \in 1 .. n : names[i] \in Names
      BY <3>1, SeqFacts
    <3>3. /\ Len(u) = (IF 1 <= n THEN n - 1 + 1 ELSE 0)
          /\ \A i \in 1 .. n - 1 + 1 : u[i] = names[1 + i - 1]
      BY <3>2, SubSeqProperties
    <3> HIDE DEF u
    <3> QED
      BY <3>1, <3>3
  <2> HIDE DEF t, u
  <2>3. NamesOf(t) \in Seq(Names) /\ Len(NamesOf(t)) = n /\ \A k \in 1 .. n : NamesOf(t)[k] = t[k].name
    BY <2>1, NamesOfFacts
  <2>4. \A k \in 1 .. n : k \in 1 .. Len(s)
    BY <1>2
  <2>5. u \in Seq(Names)
    BY <1>4 DEF u
  <2>6. NamesOf(t) = u
    BY <1>2, <2>1, <2>2, <2>3, <2>4, <2>5, SeqEqual
  <2> QED
    BY <2>6 DEF t, u
<1> QED
  BY <1>1, <1>2, <1>3, <1>4, <1>5 DEF Sought
-----------------------------------------------------------------------------
(***************************************************************************)
(* A load of the batch takes the place of the one it was made from.        *)
(***************************************************************************)
LEMMA SameStack ==
    ASSUME NEW s, NEW t, DOMAIN t = DOMAIN s,
           \A k \in DOMAIN s : t[k].name = s[k].name /\ t[k].file = s[k].file
    PROVE  NamesOf(t) = NamesOf(s) /\ LoadsIn(t) = LoadsIn(s)
<1>1. NamesOf(t) = NamesOf(s)
  BY DEF NamesOf
<1>2. LoadsIn(t) = LoadsIn(s)
  BY DEF LoadsIn
<1> QED
  BY <1>1, <1>2

LEMMA HeadMoved ==
    ASSUME NEW b, IsLoads(b), NEW w, IsLoads(w), w # <<>>, Separate(b \o w),
           NEW x, x.name = Head(w).name, x.file \in Files \cup {NoFile}
    PROVE  LET R == LoadsIn(b) \cup LoadsIn(Tail(w))
               n == Head(w).name
           IN  /\ NamesOf(Append(b, x) \o Tail(w)) = NamesOf(b \o w)
               /\ n \in Names
               /\ LoadsIn(b \o w) = R \cup {<<n, Head(w).file>>}
               /\ LoadsIn(Append(b, x) \o Tail(w)) = R \cup {<<n, x.file>>}
               /\ \A l \in R : l[1] # n
               /\ LoadsIn(w) = {<<n, Head(w).file>>} \cup LoadsIn(Tail(w))
<1>1. PICK W : w \in Seq(W)
  BY DEF IsLoads
<1>2. PICK B : b \in Seq(B)
  BY DEF IsLoads
<1>3. Len(w) \in Nat /\ Len(w) # 0 /\ DOMAIN w = 1 .. Len(w) /\ 1 \in DOMAIN w
  BY <1>1, EmptySeq, SeqFacts
<1>4. PICK h : h = w[1]
  OBVIOUS
<1>5. Head(w) = h /\ h.name \in Names /\ h.file \in Files \cup {NoFile}
  BY <1>3, <1>4 DEF IsLoads
<1>6. PICK rest : rest = Tail(w)
  OBVIOUS
<1>7. w = <<h>> \o rest /\ rest \in Seq(W)
  <2>1. 1 \in 1 .. Len(w) /\ Len(w) \in 1 .. Len(w)
    BY <1>3
  <2>2. SubSeq(w, 1, Len(w)) = <<w[1]>> \o SubSeq(w, 1 + 1, Len(w))
    BY <1>1, <2>1, SubSeqRecursiveFirst
  <2>3. Tail(w) = SubSeq(w, 2, Len(w)) /\ Tail(w) \in Seq(W)
    BY <1>1, TailIsSubSeq, HeadTailProperties
  <2>4. SubSeq(w, 1, Len(w)) = w
    BY <1>1, SubSeqFull
  <2> QED
    BY <1>4, <1>6, <2>2, <2>3, <2>4
<1>8. IsLoads(rest)
  <2>1. /\ Len(rest) = Len(w) - 1 /\ \A i \in 1 .. Len(rest) : rest[i] = w[i + 1]
    BY <1>1, <1>6, HeadTailProperties
  <2>2. DOMAIN rest = 1 .. Len(rest)
    BY <1>7, SeqFacts
  <2>3. \A i \in DOMAIN rest : i + 1 \in DOMAIN w
    BY <1>3, <2>1, <2>2
  <2> QED
    BY <1>7, <2>1, <2>2, <2>3 DEF IsLoads
<1>9. PICK one : one = <<h>>
  OBVIOUS
<1>10. IsLoads(one) /\ NamesOf(one) = <<h.name>> /\ LoadsIn(one) = {<<h.name, h.file>>}
  BY <1>5, <1>9, OneLoad
<1>11. PICK two : two = <<x>>
  OBVIOUS
<1>12. IsLoads(two) /\ NamesOf(two) = <<h.name>> /\ LoadsIn(two) = {<<h.name, x.file>>}
  BY <1>5, <1>11, OneLoad
<1>13. Append(b, x) = b \o two
  BY <1>2, <1>11, AppendFacts
<1>14. /\ NamesOf(w) = NamesOf(one) \o NamesOf(rest)
       /\ LoadsIn(w) = LoadsIn(one) \cup LoadsIn(rest)
  BY <1>7, <1>8, <1>9, <1>10, StacksJoined
<1>15. /\ NamesOf(b \o w) = NamesOf(b) \o NamesOf(w)
       /\ LoadsIn(b \o w) = LoadsIn(b) \cup LoadsIn(w)
  BY StacksJoined
<1>16. /\ IsLoads(b \o two) /\ NamesOf(b \o two) = NamesOf(b) \o NamesOf(two)
       /\ LoadsIn(b \o two) = LoadsIn(b) \cup LoadsIn(two)
  BY <1>12, StacksJoined
<1>17. /\ NamesOf((b \o two) \o rest) = NamesOf(b \o two) \o NamesOf(rest)
       /\ LoadsIn((b \o two) \o rest) = LoadsIn(b \o two) \cup LoadsIn(rest)
  BY <1>8, <1>16, StacksJoined
<1>18. NamesOf((b \o two) \o rest) = NamesOf(b \o w)
  <2>1. NamesOf(b) \in Seq(Names) /\ NamesOf(rest) \in Seq(Names) /\ NamesOf(one) \in Seq(Names)
    BY <1>8, <1>10, NamesOfFacts
  <2>2. (NamesOf(b) \o NamesOf(one)) \o NamesOf(rest) = NamesOf(b) \o (NamesOf(one) \o NamesOf(rest))
    BY <2>1, ConcatAssociative
  <2>3. NamesOf(one) = NamesOf(two)
    BY <1>10, <1>12
  <2> QED
    BY <1>14, <1>15, <1>16, <1>17, <2>2, <2>3
<1>19. \A l \in LoadsIn(b) \cup LoadsIn(rest) : l[1] # h.name
  <2>1. Separate(w) /\ \A j \in DOMAIN b, k \in DOMAIN w : b[j].name # w[k].name
    BY SeparateParts
  <2>2. Separate(one \o rest)
    BY <1>7, <1>9, <2>1
  <2>3. \A j \in DOMAIN one, k \in DOMAIN rest : one[j].name # rest[k].name
    BY <1>8, <1>10, <2>2, SeparateParts
  <2>4. 1 \in DOMAIN one /\ one[1] = h
    BY <1>9
  <2>5. \A j \in DOMAIN b : b[j].name # h.name
    BY <1>3, <1>4, <2>1
  <2>6. \A k \in DOMAIN rest : rest[k].name # h.name
    BY <2>3, <2>4
  <2> QED
    BY <2>5, <2>6 DEF LoadsIn
<1>20. LoadsIn((b \o two) \o rest) = (LoadsIn(b) \cup LoadsIn(rest)) \cup {<<h.name, x.file>>}
  BY <1>12, <1>16, <1>17
<1>21. LoadsIn(b \o w) = (LoadsIn(b) \cup LoadsIn(rest)) \cup {<<h.name, h.file>>}
  BY <1>10, <1>14, <1>15
<1>22. LoadsIn(w) = {<<h.name, h.file>>} \cup LoadsIn(rest)
  BY <1>10, <1>14
<1> QED
  BY <1>5, <1>6, <1>13, <1>18, <1>19, <1>20, <1>21, <1>22
-----------------------------------------------------------------------------
(***************************************************************************)
(* What a batch leaves on the stack: the loads that StillWanted drops are  *)
(* of names that nobody seeks.                                             *)
(***************************************************************************)
LoadOf(k) == [name |-> batch[k].name, file |-> batch[k].file]
LeftOf(k, names) == IF batch[k].parsed /\ batch[k].name \notin names THEN <<LoadOf(k)>> ELSE <<>>

LEMMA StillWantedNone == \A names : StillWanted(0, names) = <<>>
<1> SUFFICES ASSUME NEW names PROVE StillWanted(0, names) = <<>>
  OBVIOUS
<1> DEFINE parts == [k \in 1 .. 0 |-> IF batch[k].parsed /\ batch[k].name \notin names
                        THEN <<[name |-> batch[k].name, file |-> batch[k].file]>> ELSE <<>>]
<1>1. parts = <<>>
  BY EmptyFacts
<1>2. StillWanted(0, names) = FlattenSeq(parts)
  BY DEF StillWanted
<1> HIDE DEF parts
<1> QED
  BY <1>1, <1>2, FlattenEmpty

LEMMA StillWantedNext ==
    ASSUME NEW n \in Nat, NEW names
    PROVE  StillWanted(n + 1, names) = StillWanted(n, names) \o LeftOf(n + 1, names)
<1> DEFINE L == {LoadOf(k) : k \in 1 .. n + 1}
           parts == [k \in 1 .. n + 1 |-> LeftOf(k, names)]
           fewer == [k \in 1 .. n |-> LeftOf(k, names)]
<1>1. StillWanted(n + 1, names) = FlattenSeq(parts) /\ StillWanted(n, names) = FlattenSeq(fewer)
  BY DEF StillWanted, LeftOf, LoadOf
<1>2. parts = [k \in 1 .. n + 1 |-> parts[k]]
  OBVIOUS
<1>3. ASSUME NEW k \in 1 .. n + 1 PROVE parts[k] \in Seq(L)
  <2>1. LoadOf(k) \in L
    OBVIOUS
  <2>2. parts[k] = LeftOf(k, names)
    OBVIOUS
  <2> HIDE DEF parts, L
  <2> QED
    BY <2>1, <2>2 DEF LeftOf
<1>4. [k \in 1 .. n |-> parts[k]] = fewer
  <2>1. \A k \in 1 .. n : k \in 1 .. n + 1
    OBVIOUS
  <2> QED
    BY <2>1
<1>5. n + 1 \in 1 .. n + 1 /\ parts[n + 1] = LeftOf(n + 1, names)
  OBVIOUS
<1> HIDE DEF parts, fewer, L
<1>6. parts = Append(fewer, LeftOf(n + 1, names)) /\ fewer \in Seq(Seq(L))
  <2>1. /\ [k \in 1 .. n |-> parts[k]] \in Seq(Seq(L))
        /\ parts = Append([k \in 1 .. n |-> parts[k]], parts[n + 1])
    BY <1>2, <1>3, MadeAppend
  <2> QED
    BY <1>4, <1>5, <2>1
<1>7. LeftOf(n + 1, names) \in Seq(L)
  BY <1>3, <1>5
<1>8. FlattenSeq(parts) = FlattenSeq(fewer) \o LeftOf(n + 1, names)
  BY <1>6, <1>7, FlattenAppend
<1> QED
  BY <1>1, <1>8

\* What StillWanted leaves of the first n loads of the batch.
LeftRight(n, names, set) ==
    LET left == StillWanted(n, names)
        below == SubSeq(batch, 1, n)
    IN  /\ IsLoads(left) /\ Separate(left)
        /\ LoadsIn(left) \subseteq LoadsIn(below)
        /\ \A l \in LoadsIn(below) : l \in LoadsIn(left) \/ l[2] = NoFile \/ l[1] \in names
        /\ Sought(left, set) = Sought(below, set)

LEMMA StillWantedStep ==
    ASSUME IsLoads(batch), Separate(batch), NEW n \in Nat, n + 1 <= Len(batch), NEW names, NEW set,
           batch[n + 1].parsed \/ batch[n + 1].file = NoFile,
           (batch[n + 1].parsed /\ batch[n + 1].name \notin names) \/ batch[n + 1].name \notin set,
           LeftRight(n, names, set)
    PROVE  LeftRight(n + 1, names, set)
<1> DEFINE left == StillWanted(n, names)
           below == SubSeq(batch, 1, n)
           x == batch[n + 1]
<1>1. TopOf(below, x, SubSeq(batch, 1, n + 1))
  BY PrefixTaken
<1>2. /\ IsLoads(left) /\ Separate(left) /\ LoadsIn(left) \subseteq LoadsIn(below)
      /\ \A l \in LoadsIn(below) : l \in LoadsIn(left) \/ l[2] = NoFile \/ l[1] \in names
      /\ Sought(left, set) = Sought(below, set)
  BY DEF LeftRight
<1>3. StillWanted(n + 1, names) = left \o LeftOf(n + 1, names)
  BY StillWantedNext
<1>4. PICK whole : whole = SubSeq(batch, 1, n + 1)
  OBVIOUS
<1> HIDE DEF left, below, x
<1>5. /\ LoadsIn(whole) = LoadsIn(below) \cup {<<x.name, x.file>>}
      /\ \A l \in LoadsIn(below) : l[1] # x.name
      /\ x.name \in Names /\ x.file \in Files \cup {NoFile}
      /\ Sought(whole, set) = Sought(below, set) \o OneKept(x.name, set)
  BY <1>1, <1>4 DEF TopOf
<1>6. CASE x.parsed /\ x.name \notin names
  <2>1. PICK y : y = LoadOf(n + 1)
    OBVIOUS
  <2>2. y.name = x.name /\ y.file = x.file
    BY <2>1 DEF LoadOf, x
  <2>3. LeftOf(n + 1, names) = <<y>>
    BY <1>6, <2>1 DEF LeftOf, x
  <2>4. PICK one : one = <<y>>
    OBVIOUS
  <2>5. /\ IsLoads(one) /\ LoadsIn(one) = {<<x.name, x.file>>} /\ Sought(one, set) = OneKept(x.name, set)
    BY <1>5, <2>2, <2>4, OneLoad
  <2>6. PICK more : more = left \o one
    OBVIOUS
  <2>7. /\ IsLoads(more) /\ LoadsIn(more) = LoadsIn(left) \cup LoadsIn(one)
        /\ Sought(more, set) = Sought(left, set) \o Sought(one, set)
    <3>1. IsLoads(left \o one) /\ LoadsIn(left \o one) = LoadsIn(left) \cup LoadsIn(one)
      BY <1>2, <2>5, StacksJoined
    <3>2. IsLoads(left) /\ IsLoads(one)
      BY <1>2, <2>5
    <3>3. Sought(left \o one, set) = Sought(left, set) \o Sought(one, set)
      BY <3>2, SoughtJoined
    <3> QED
      BY <2>6, <3>1, <3>3
  <2>8. Separate(more)
    <3>1. \A j \in DOMAIN left : left[j].name # x.name
      <4>1. \A j \in DOMAIN left : <<left[j].name, left[j].file>> \in LoadsIn(left)
        BY DEF LoadsIn
      <4> QED
        BY <1>2, <1>5, <4>1
    <3>2. NamesOf(one) = <<x.name>> /\ DOMAIN one = {1} /\ one[1].name = x.name
      <4>1. NamesOf(one) = <<y.name>>
        BY <1>5, <2>2, <2>4, OneLoad
      <4>2. DOMAIN one = {1} /\ one[1] = y
        BY <2>4
      <4> QED
        BY <2>2, <4>1, <4>2
    <3>3. Separate(one)
      BY <3>2 DEF Separate, IsInjective
    <3>4. \A j \in DOMAIN left, k \in DOMAIN one : left[j].name # one[k].name
      BY <3>1, <3>2
    <3> QED
      BY <1>2, <2>5, <2>6, <3>3, <3>4, SeparateJoined
  <2>9. StillWanted(n + 1, names) = more
    BY <1>3, <2>3, <2>4, <2>6
  <2>10. LoadsIn(more) \subseteq LoadsIn(whole)
    BY <1>2, <1>5, <2>5, <2>7
  <2>11. \A l \in LoadsIn(whole) : l \in LoadsIn(more) \/ l[2] = NoFile \/ l[1] \in names
    BY <1>2, <1>5, <2>5, <2>7
  <2>12. Sought(more, set) = Sought(whole, set)
    BY <1>2, <1>5, <2>5, <2>7
  <2> QED
    BY <1>4, <2>7, <2>8, <2>9, <2>10, <2>11, <2>12 DEF LeftRight
<1>7. CASE ~(x.parsed /\ x.name \notin names)
  <2>1. LeftOf(n + 1, names) = <<>>
    BY <1>7 DEF LeftOf, x
  <2>2. StillWanted(n + 1, names) = left
    <3>1. \E T : left \in Seq(T)
      BY <1>2 DEF IsLoads
    <3> QED
      BY <1>3, <2>1, <3>1, ConcatEmptySeq
  <2>3. x.name \notin set
    BY <1>7 DEF x
  <2>4. x.file = NoFile \/ x.name \in names
    BY <1>7 DEF x
  <2>5. Sought(whole, set) = Sought(below, set)
    <3>1. IsLoads(below) /\ Sought(below, set) \in Seq(Names)
      BY <1>1, SoughtIsSeq DEF TopOf
    <3>2. OneKept(x.name, set) = <<>>
      BY <2>3 DEF OneKept
    <3> QED
      BY <1>5, <3>1, <3>2, ConcatEmptySeq
  <2>6. \A l \in LoadsIn(whole) : l \in LoadsIn(left) \/ l[2] = NoFile \/ l[1] \in names
    BY <1>2, <1>5, <2>4
  <2>7. LoadsIn(left) \subseteq LoadsIn(whole)
    BY <1>2, <1>5
  <2>8. Sought(left, set) = Sought(whole, set)
    BY <1>2, <2>5
  <2> QED
    BY <1>2, <1>4, <2>2, <2>6, <2>7, <2>8 DEF LeftRight
<1> QED
  BY <1>6, <1>7

LEMMA WhatIsLeft ==
    ASSUME IsLoads(batch), Separate(batch), NEW count \in Nat, count <= Len(batch), NEW names, NEW set,
           \A k \in 1 .. count :
               /\ batch[k].parsed \/ batch[k].file = NoFile
               /\ (batch[k].parsed /\ batch[k].name \notin names) \/ batch[k].name \notin set
    PROVE  LeftRight(count, names, set)
<1> DEFINE K == {k \in 0 .. count : LeftRight(k, names, set)}
<1>1. Len(batch) \in Nat
  BY NamesOfFacts
<1>2. 0 \in K
  <2>1. SubSeq(batch, 1, 0) = <<>>
    BY SubSeqEmpty
  <2>2. LeftRight(0, names, set)
    BY <2>1, StillWantedNone, EmptyStack DEF LeftRight
  <2> QED
    BY <2>2
<1>3. ASSUME NEW k \in Nat, k < count, k \in K PROVE k + 1 \in K
  <2>1. k + 1 \in 1 .. count /\ k + 1 \in 0 .. count /\ k + 1 <= Len(batch)
    BY <1>1, <1>3
  <2>2. LeftRight(k, names, set)
    BY <1>3
  <2>3. LeftRight(k + 1, names, set)
    BY <2>1, <2>2, StillWantedStep
  <2> QED
    BY <2>1, <2>3
<1>4. count \in K
  <2>1. count \in 0 .. count
    OBVIOUS
  <2> HIDE DEF K
  <2> QED
    BY <1>2, <1>3, <2>1, CountUp
<1> QED
  BY <1>4
-----------------------------------------------------------------------------
(***************************************************************************)
(* The inductive invariant of the refinement: what loadTrees knows is what *)
(* its trees say, no name is on the stack twice, and the files on it are   *)
(* those one thread would find.                                            *)
(***************************************************************************)
Stack == batch \o worklist
Pending == Sought(Stack, Wanted(trees))

\* A load of the batch: without a file, nobody seeks its name.
Expects(l, ts, ca) ==
    /\ l.file # NoFile \/ l.name \in Known(ts) \/ FindBuffer(l.name, CachedOf(ts)) = NoFile
    /\ l.parsed => Includes[l.file] \subseteq ca

\* A file that was parsed for the stack has its includes in the cache.
ParsedBefore(wl, ca) ==
    \A l \in LoadsIn(wl) : l[2] # NoFile => Workers # {} /\ Includes[l[2]] \subseteq ca

OrderOK ==
    /\ known = Known(trees) /\ missing = Missing(trees)
    /\ Separate(Stack)
    /\ Sound(LoadsIn(Stack), trees, cached)
    /\ \A k \in DOMAIN batch : Expects(batch[k], trees, cached)
    /\ ParsedBefore(worklist, cached)
    /\ phase = "search" => batch = <<>>
    /\ phase \in {"batch", "commit"} => worklist = <<>>
    /\ phase # "search" => Workers # {}
    /\ phase = "commit" => \A k \in DOMAIN batch : batch[k].parsed \/ batch[k].file = NoFile

OrderInv ==
    /\ phase \notin Searched => trees = <<>>
    /\ phase \in Searched \ {"done"} => OrderOK

LEMMA StackIsLoads ==
    ASSUME IsLoads(batch), IsLoads(worklist)
    PROVE  /\ IsLoads(Stack)
           /\ batch = <<>> => Stack = worklist
           /\ worklist = <<>> => Stack = batch
<1>1. IsLoads(Stack)
  BY StacksJoined DEF Stack
<1>2. PICK B : batch \in Seq(B)
  BY DEF IsLoads
<1>3. PICK W : worklist \in Seq(W)
  BY DEF IsLoads
<1>4. batch \o <<>> = batch /\ <<>> \o worklist = worklist
  BY <1>2, <1>3, ConcatEmptySeq
<1> QED
  BY <1>1, <1>4 DEF Stack

\* No file of a batch makes a difference to the search of another name.
LEMMA Apartness ==
    ASSUME Independent, Workers # {}, NEW n \in Names, NEW file \in CanBe(n)
    PROVE  /\ \A m \in Names : m # n => CanBe(m) \cap ({file} \cup Includes[file]) = {}
           /\ \A m \in Names : m # n => file \notin CanBe(m)
           /\ \A m \in Names : Includes[file] \cap CanBe(m) \subseteq {file}
<1>1. \A m \in Names : CanBe(m) \subseteq SearchFiles
  BY DEF SearchFiles, CanBe
<1>2. Includes[file] \cap SearchFiles \subseteq {file}
  BY <1>1 DEF Independent
<1>3. \A m \in Names : m # n => file \notin CanBe(m)
  BY DEF Independent, CanBe
<1> QED
  BY <1>1, <1>2, <1>3

-----------------------------------------------------------------------------
(***************************************************************************)
(* The tree that AddTree adds, and the step of LoadOrder that it is.       *)
(***************************************************************************)
TreeOf(file) == Tree(<<file>>, TRUE, Inherits)
NewOf(file) == NewNames(TreeOf(file), Known(trees) \cup Declares[file] \cup Missing(trees))

LEMMA NewLoadsAre ==
    ASSUME NEW file \in Files, known = Known(trees), missing = Missing(trees)
    PROVE  /\ NewOf(file) \in Seq(Names)
           /\ IsLoads(NewLoads(file)) /\ Separate(NewLoads(file))
           /\ NamesOf(NewLoads(file)) = NewOf(file)
           /\ LoadsIn(NewLoads(file)) = {<<n, NoFile>> : n \in ToSet(NewOf(file))}
           /\ {l.name : l \in ToSet(NewLoads(file))} = ToSet(NewOf(file))
           /\ ToSet(NewOf(file)) \cap (Known(trees) \cup Missing(trees)) = {}
<1>1. TreeOf(file).files = <<file>> /\ TreeOf(file).files \in Seq(Files)
  BY DEF TreeOf, Tree
<1>2. DeclaredBy(TreeOf(file)) = Declares[file]
  BY <1>1, TreeOfFile
<1>3. /\ NewOf(file) \in Seq(Names) /\ IsInjective(NewOf(file))
      /\ ToSet(NewOf(file)) \cap (Known(trees) \cup Missing(trees)) = {}
  <2>1. NewOf(file) \in Seq(Names)
    BY <1>1, NewNamesFacts DEF NewOf
  <2>2. /\ IsInjective(NewOf(file))
        /\ ToSet(NewOf(file)) = ToSet(ReferredBy(TreeOf(file))) \ (Known(trees) \cup Declares[file] \cup Missing(trees))
    BY <1>1, NewNamesOnce DEF NewOf
  <2> QED
    BY <2>1, <2>2
<1>4. PICK new \in Seq(Names) : new = NewOf(file)
  BY <1>3
<1>5. NewLoads(file) = [k \in DOMAIN new |-> [name |-> new[k], file |-> NoFile]]
  <2>1. NewOf(file) = NewNames(TreeOf(file), known \cup DeclaredBy(TreeOf(file)) \cup missing)
    BY <1>2 DEF NewOf
  <2> QED
    BY <1>4, <2>1 DEF NewLoads, TreeOf
<1>6. PICK s : s = NewLoads(file)
  OBVIOUS
<1>7. /\ DOMAIN s = DOMAIN new
      /\ \A k \in DOMAIN new : s[k] = [name |-> new[k], file |-> NoFile]
  BY <1>5, <1>6
<1>8. \A k \in DOMAIN new : s[k].name = new[k] /\ s[k].file = NoFile
  BY <1>7
<1>9. Len(new) \in Nat /\ DOMAIN new = 1 .. Len(new) /\ \A k \in DOMAIN new : new[k] \in Names
  BY SeqFacts
<1>10. s \in Seq(NewLoadSet)
  BY <1>4, <1>6, NewLoadsFacts
<1>11. IsLoads(s)
  BY <1>7, <1>8, <1>9, <1>10 DEF IsLoads
<1>12. NamesOf(s) = new
  <2>1. /\ NamesOf(s) \in Seq(Names) /\ Len(NamesOf(s)) = Len(s) /\ DOMAIN s = 1 .. Len(s)
        /\ Len(s) \in Nat /\ \A k \in DOMAIN s : NamesOf(s)[k] = s[k].name
    BY <1>11, NamesOfFacts
  <2>2. Len(s) = Len(new)
    BY <1>7, <1>9, <2>1
  <2> QED
    BY <1>8, <1>9, <2>1, <2>2, SeqEqual
<1>13. Separate(s)
  BY <1>3, <1>4, <1>12 DEF Separate
<1>14. LoadsIn(s) = {<<n, NoFile>> : n \in ToSet(new)}
  BY <1>7, <1>8 DEF LoadsIn, ToSet
<1>15. {l.name : l \in ToSet(s)} = ToSet(new)
  BY <1>7, <1>8 DEF ToSet
<1> QED
  BY <1>3, <1>4, <1>6, <1>11, <1>12, <1>13, <1>14, <1>15

\* The tree is added to the loads that are left, the file that of a name.
Takes(T, n, x, file, rest, stack, more) ==
    /\ trees \in Seq(T) /\ known = Known(trees) /\ missing = Missing(trees)
    /\ IsLoads(rest) /\ Separate(rest)
    /\ Fits(LoadsIn(rest), trees, cached, n, x, file, more)
    /\ AddTree(file, stack)

LEMMA TreeKeepsOrder ==
    ASSUME NEW T, NEW n, NEW x, NEW file, NEW rest, NEW stack, NEW more,
           Takes(T, n, x, file, rest, stack, more)
    PROVE  /\ file \in Files
           /\ known' = Known(trees') /\ missing' = Missing(trees')
           /\ trees' = Append(trees, TreeOf(file))
           /\ IsLoads(rest \o NewLoads(file)) /\ Separate(rest \o NewLoads(file))
           /\ Sound(LoadsIn(rest \o NewLoads(file)), trees', more)
           /\ LoadsIn(rest \o NewLoads(file)) = LoadsIn(rest) \cup {<<m, NoFile>> : m \in ToSet(NewOf(file))}
<1>1. file \in Files
  BY FoundIn DEF Takes, Fits
<1>2. PICK tree : tree = TreeOf(file)
  OBVIOUS
<1>3. tree.files = <<file>>
  BY <1>2 DEF TreeOf, Tree
<1>4. /\ trees' = Append(trees, tree)
      /\ known' = known \cup DeclaredBy(tree)
      /\ missing' = (missing \ DeclaredBy(tree)) \cup { l.name : l \in ToSet(NewLoads(file)) }
  BY <1>2 DEF Takes, AddTree, TreeOf
<1>5. DeclaredBy(tree) = Declares[file]
  BY <1>3, TreeOfFile
<1>6. trees \in Seq(T) /\ known = Known(trees) /\ missing = Missing(trees)
  BY DEF Takes
<1>7. /\ NewOf(file) \in Seq(Names)
      /\ IsLoads(NewLoads(file)) /\ Separate(NewLoads(file))
      /\ LoadsIn(NewLoads(file)) = {<<m, NoFile>> : m \in ToSet(NewOf(file))}
      /\ {l.name : l \in ToSet(NewLoads(file))} = ToSet(NewOf(file))
      /\ ToSet(NewOf(file)) \cap (Known(trees) \cup Missing(trees)) = {}
  BY <1>1, <1>6, NewLoadsAre
<1>8. PICK ts : ts = Append(trees, tree)
  OBVIOUS
<1>9. /\ Known(ts) = Known(trees) \cup Declares[file]
      /\ CachedOf(ts) = CachedOf(trees) \cup {file} \cup Includes[file]
      /\ Missing(ts) = (Missing(trees) \ Declares[file]) \cup ToSet(NewOf(file))
  <2>1. /\ Known(ts) = Known(trees) \cup Declares[file]
        /\ CachedOf(ts) = CachedOf(trees) \cup {file} \cup Includes[file]
        /\ Missing(ts) = (Missing(trees) \ Declares[file]) \cup
               ToSet(NewNames(tree, Known(trees) \cup Declares[file] \cup Missing(trees)))
    BY <1>1, <1>3, <1>6, <1>8, OneMoreTree
  <2> QED
    BY <1>2, <2>1 DEF NewOf
<1>10. known' = Known(ts) /\ missing' = Missing(ts) /\ trees' = ts
  BY <1>4, <1>5, <1>6, <1>7, <1>8, <1>9
<1>11. /\ IsLoads(rest) /\ Separate(rest)
       /\ Sound(LoadsIn(rest) \cup {<<n, x>>}, trees, cached)
  BY DEF Takes, Fits
<1>12. Sound(LoadsIn(rest), ts, more)
  <2>1. PICK L : L = LoadsIn(rest)
    OBVIOUS
  <2>2. Fits(L, trees, cached, n, x, file, more)
    BY <2>1 DEF Takes
  <2>3. Sound(L, Append(trees, tree), more)
    BY <1>3, <1>6, <2>2, SoundTree
  <2> QED
    BY <1>8, <2>1, <2>3
<1>13. /\ IsLoads(rest \o NewLoads(file))
       /\ LoadsIn(rest \o NewLoads(file)) = LoadsIn(rest) \cup LoadsIn(NewLoads(file))
  BY <1>7, <1>11, StacksJoined
<1>14. ToSet(NewOf(file)) \subseteq Names
  BY <1>7, SeqFacts
<1>15. Sound(LoadsIn(rest \o NewLoads(file)), ts, more)
  <2>1. PICK M : M = LoadsIn(rest \o NewLoads(file))
    OBVIOUS
  <2>2. PICK L : L = LoadsIn(rest)
    OBVIOUS
  <2>3. M = L \cup {<<m, NoFile>> : m \in ToSet(NewOf(file))}
    BY <1>7, <1>13, <2>1, <2>2
  <2>4. \A l \in M : l \in L \/ (l[1] \in Names /\ l[1] \in Missing(ts) /\ l[2] = NoFile)
    BY <1>9, <1>14, <2>3
  <2>5. L \subseteq M /\ Sound(L, ts, more)
    BY <1>12, <2>2, <2>3
  <2>6. Sound(M, ts, more)
    BY <2>4, <2>5, SoundWith
  <2> QED
    BY <2>1, <2>6
<1>16. Separate(rest \o NewLoads(file))
  <2>1. \A j \in DOMAIN rest : rest[j].name \in Known(trees) \cup Missing(trees)
    <3>1. \A j \in DOMAIN rest : <<rest[j].name, rest[j].file>> \in LoadsIn(rest)
      BY DEF LoadsIn
    <3>2. \A l \in LoadsIn(rest) : l[1] \in Known(trees) \cup Missing(trees)
      BY <1>11 DEF Sound, FileSound
    <3>3. ASSUME NEW j \in DOMAIN rest PROVE rest[j].name \in Known(trees) \cup Missing(trees)
      <4>1. PICK l \in LoadsIn(rest) : l = <<rest[j].name, rest[j].file>>
        BY <3>1
      <4> QED
        BY <3>2, <4>1
    <3> QED
      BY <3>3
  <2>2. PICK new : new = NewLoads(file)
    OBVIOUS
  <2>3. \A k \in DOMAIN new : new[k].name \in ToSet(NewOf(file))
    BY <1>7, <2>2 DEF ToSet
  <2>4. \A j \in DOMAIN rest, k \in DOMAIN new : rest[j].name # new[k].name
    BY <1>7, <2>1, <2>3
  <2> QED
    BY <1>7, <1>11, <2>2, <2>4, SeparateJoined
<1> QED
  BY <1>1, <1>2, <1>7, <1>8, <1>10, <1>13, <1>15, <1>16
-----------------------------------------------------------------------------
(***************************************************************************)
(* The steps of LoadOrder.                                                 *)
(***************************************************************************)
LEMMA OrderState ==
    /\ Order!orderVars = <<trees, Pending>>
    /\ Order!orderVars' = <<trees, Pending>>'
  BY DEF Order!orderVars, Pending, Sought, NamesOf, Stack

\* The words of LoadOrder are those of this module.
LEMMA SameWords ==
    /\ \A s : Order!ToSet(s) = ToSet(s) /\ Order!FlattenSeq(s) = FlattenSeq(s)
    /\ \A s : Order!Last(s) = Last(s) /\ Order!Front(s) = Front(s)
    /\ \A s : Order!IsInjective(s) = IsInjective(s)
    /\ \A t : /\ Order!DeclaredBy(t) = DeclaredBy(t) /\ Order!ReferredBy(t) = ReferredBy(t)
              /\ Order!CachedBy(t) = CachedBy(t)
    /\ \A ts : Order!Known(ts) = Known(ts) /\ Order!Missing(ts) = Missing(ts)
    /\ \A ts : Order!Wanted(ts) = Wanted(ts)
    /\ \A n, c : Order!FindBuffer(n, c) = FindBuffer(n, c)
    /\ \A s, c : Order!Sift(s, c) = Sift(s, c) /\ Order!NewNames(s, c) = NewNames(s, c)
<1>1. \A s : Order!ToSet(s) = ToSet(s)
  BY DEF Order!ToSet, ToSet
<1>2. \A s : Order!Last(s) = Last(s) /\ Order!Front(s) = Front(s)
  BY DEF Order!Last, Last, Order!Front, Front
<1>3. \A s : Order!FlattenSeq(s) = FlattenSeq(s)
  BY DEF Order!FlattenSeq, FlattenSeq
<1>4. \A s : Order!IsInjective(s) = IsInjective(s)
  BY DEF Order!IsInjective, IsInjective
<1>5. \A S : Order!Min(S) = Min(S)
  BY DEF Order!Min, Min
<1>6. \A t : Order!DeclaredBy(t) = DeclaredBy(t)
  BY <1>1 DEF Order!DeclaredBy, DeclaredBy
<1>7. \A t : Order!ReferredBy(t) = ReferredBy(t)
  BY <1>3 DEF Order!ReferredBy, ReferredBy
<1>8. \A t : Order!CachedBy(t) = CachedBy(t)
  BY <1>1 DEF Order!CachedBy, CachedBy
<1>9. \A ts : Order!Known(ts) = Known(ts)
  BY <1>1, <1>6 DEF Order!Known, Known
<1>10. \A ts : Order!Missing(ts) = Missing(ts)
  BY <1>1, <1>7, <1>9 DEF Order!Missing, Missing
<1>11. \A n, c : Order!FindBuffer(n, c) = FindBuffer(n, c)
  BY <1>5 DEF Order!FindBuffer, FindBuffer, Order!SelectInSeq, SelectInSeq
<1>12. \A s, c : Order!Sift(s, c) = Sift(s, c)
  BY <1>3 DEF Order!Sift, Sift
<1>13. \A s, c : Order!NewNames(s, c) = NewNames(s, c)
  BY <1>3, <1>7 DEF Order!NewNames, NewNames
<1>14. \A s : Order!Wanted(s) = Wanted(s)
  BY <1>1, <1>8, <1>9, <1>11 DEF Order!Wanted, Wanted
<1> QED
  BY <1>1, <1>2, <1>3, <1>4, <1>6, <1>7, <1>8, <1>9, <1>10, <1>11, <1>12, <1>13, <1>14

\* What ParseMissing says, with the names of this module.
ParsesNext(name, file, tree, new) ==
    /\ Pending # <<>> /\ name = Last(Pending)
    /\ file = FindBuffer(name, CachedOf(trees))
    /\ tree = [files |-> <<file>>, isLibraryUnit |-> TRUE, inherits |-> trees'[Len(trees')].inherits]
    /\ new = NewNames(tree, Known(trees) \cup DeclaredBy(tree) \cup Missing(trees))
    /\ trees' = Append(trees, tree)
    /\ Pending' = Sift(Front(Pending) \o new, Wanted(trees'))

LEMMA ParsesNextOne ==
    ASSUME NEW name, NEW file, NEW tree, NEW new, ParsesNext(name, file, tree, new)
    PROVE  Order!ParseMissing
<1> DEFINE bound == LET stack == batch \o worklist
                     IN  Sift([k \in DOMAIN stack |-> stack[k].name], Wanted(trees))
<1>1. bound = Pending
  BY DEF Pending, Sought, NamesOf, Stack
<1>2. bound' = Pending'
  BY DEF Pending, Sought, NamesOf, Stack
<1>3. CachedOf(trees) = UNION { CachedBy(t) : t \in ToSet(trees) }
  BY DEF CachedOf
<1>4. UNION { Order!CachedBy(t) : t \in Order!ToSet(trees) } = CachedOf(trees)
  BY <1>3, SameWords
<1> HIDE DEF bound
<1>5. /\ bound # <<>> /\ name = Order!Last(bound)
      /\ file = Order!FindBuffer(name, CachedOf(trees))
      /\ tree = [files |-> <<file>>, isLibraryUnit |-> TRUE, inherits |-> trees'[Len(trees')].inherits]
      /\ new = Order!NewNames(tree, Order!Known(trees) \cup Order!DeclaredBy(tree) \cup Order!Missing(trees))
      /\ trees' = Append(trees, tree)
      /\ bound' = Order!Sift(Order!Front(bound) \o new, Order!Wanted(trees'))
  BY <1>1, <1>2, SameWords DEF ParsesNext
<1> QED
  BY <1>4, <1>5 DEF Order!ParseMissing, bound

LEMMA ParsesTree ==
    ASSUME NEW T, trees \in Seq(T), NEW rest \in Seq(Names), NEW name \in Names, NEW file \in Files,
           Pending = Append(rest, name), file = FindBuffer(name, CachedOf(trees)),
           trees' = Append(trees, TreeOf(file)),
           Pending' = Sift(rest \o NewOf(file), Wanted(trees'))
    PROVE  Order!ParseMissing
<1> DEFINE tree == TreeOf(file)
<1>1. /\ Append(rest, name) # <<>> /\ Last(Append(rest, name)) = name
      /\ Front(Append(rest, name)) = rest
  <2>1. /\ Len(rest) \in Nat /\ Len(Append(rest, name)) = Len(rest) + 1
        /\ Append(rest, name)[Len(rest) + 1] = name
        /\ Append(rest, name) \in Seq(Names)
        /\ \A k \in 1 .. Len(rest) : Append(rest, name)[k] = rest[k]
    BY AppendProperties, SeqFacts
  <2>2. PICK s \in Seq(Names) : s = Append(rest, name)
    BY <2>1
  <2>3. PICK n \in Nat : n = Len(rest)
    BY <2>1
  <2>4. Len(s) = n + 1 /\ s[n + 1] = name /\ \A k \in 1 .. n : s[k] = rest[k]
    BY <2>1, <2>2, <2>3
  <2>5. s # <<>> /\ Last(s) = name
    BY <2>3, <2>4, EmptyFacts DEF Last
  <2>6. Front(s) = SubSeq(s, 1, n)
    BY <2>3, <2>4 DEF Front
  <2>7. SubSeq(s, 1, n) \in Seq(Names) /\ Len(SubSeq(s, 1, n)) = n /\ \A k \in 1 .. n : SubSeq(s, 1, n)[k] = s[k]
    <3>1. 1 \in Int /\ n \in Int /\ \A i \in 1 .. n : s[i] \in Names /\ i \in 1 .. n - 1 + 1 /\ 1 + i - 1 = i
      BY <2>3, <2>4, SeqFacts
    <3>2. /\ SubSeq(s, 1, n) \in Seq(Names)
          /\ Len(SubSeq(s, 1, n)) = (IF 1 <= n THEN n - 1 + 1 ELSE 0)
          /\ \A i \in 1 .. n - 1 + 1 : SubSeq(s, 1, n)[i] = s[1 + i - 1]
      BY <3>1, SubSeqProperties
    <3> QED
      BY <3>1, <3>2
  <2>8. SubSeq(s, 1, n) = rest
    BY <2>3, <2>4, <2>7, SeqEqual
  <2> QED
    BY <2>2, <2>5, <2>6, <2>8
<1>2. tree.files = <<file>> /\ tree = [files |-> <<file>>, isLibraryUnit |-> TRUE, inherits |-> Inherits]
  BY DEF TreeOf, Tree
<1>3. DeclaredBy(tree) = Declares[file]
  BY <1>2, TreeOfFile
<1>4. trees'[Len(trees')] = tree
  BY AppendFacts
<1>5. tree = [files |-> <<file>>, isLibraryUnit |-> TRUE, inherits |-> trees'[Len(trees')].inherits]
  <2>1. tree.inherits = Inherits
    BY <1>2
  <2> HIDE DEF tree
  <2> QED
    BY <1>2, <1>4, <2>1
<1>6. NewOf(file) = NewNames(tree, Known(trees) \cup DeclaredBy(tree) \cup Missing(trees))
  BY <1>3 DEF NewOf
<1> HIDE DEF tree
<1>7. ParsesNext(name, file, tree, NewOf(file))
  BY <1>1, <1>5, <1>6 DEF ParsesNext, tree
<1> QED
  BY <1>7, ParsesNextOne

\* Stacks of which the same names are sought.
SameSought(a, b, set) == Sought(a, set) = Sought(b, set)

\* Of what was left below a tree, those are sought that still are.
LEMMA SoughtAbove ==
    ASSUME NEW left, IsLoads(left), NEW rest, IsLoads(rest), NEW loads, IsLoads(loads),
           NEW W, NEW W1, W1 \subseteq W, SameSought(rest, left, W1)
    PROVE  Sought(rest \o loads, W1) = Sift(Sought(left, W) \o NamesOf(loads), W1)
<1>1. PICK names \in Seq(Names) : names = NamesOf(left)
  BY NamesOfFacts
<1>2. PICK new \in Seq(Names) : new = NamesOf(loads)
  BY NamesOfFacts
<1>3. PICK before \in Seq(Names) : before = Sift(names, W)
  BY SiftIsSeq
<1>4. Sift(before \o new, W1) = Sift(before, W1) \o Sift(new, W1)
  BY SiftJoined
<1>5. Sift(before, W1) = Sift(names, W1)
  BY <1>3, SiftTwice
<1>6. Sought(rest \o loads, W1) = Sought(rest, W1) \o Sought(loads, W1)
  BY SoughtJoined
<1>7. Sought(rest, W1) = Sift(names, W1) /\ Sought(loads, W1) = Sift(new, W1)
  BY <1>1, <1>2 DEF Sought, SameSought
<1>8. Sought(left, W) = before
  BY <1>1, <1>3 DEF Sought
<1> QED
  BY <1>2, <1>4, <1>5, <1>6, <1>7, <1>8

\* The tree is the one LoadOrder parses next.
LEMMA TakesNext ==
    ASSUME NEW T, NEW n, NEW x, NEW file, NEW rest, NEW stack, NEW more,
           Takes(T, n, x, file, rest, stack, more),
           NEW left, IsLoads(left), NEW below, IsLoads(below),
           SameSought(below, left, Wanted(trees')),
           Pending = Append(Sought(left, Wanted(trees)), n),
           Stack' = below \o NewLoads(file)
    PROVE  Order!ParseMissing
<1>1. /\ file \in Files /\ trees' = Append(trees, TreeOf(file))
  BY TreeKeepsOrder
<1>2. /\ trees \in Seq(T) /\ n \in Names /\ file = FindBuffer(n, CachedOf(trees))
      /\ known = Known(trees) /\ missing = Missing(trees)
  BY DEF Takes, Fits
<1>3. /\ NewOf(file) \in Seq(Names) /\ IsLoads(NewLoads(file)) /\ NamesOf(NewLoads(file)) = NewOf(file)
  BY <1>1, <1>2, NewLoadsAre
<1>4. Wanted(trees') \subseteq Wanted(trees)
  <2>1. TreeOf(file).files = <<file>>
    BY DEF TreeOf, Tree
  <2> QED
    BY <1>1, <1>2, <2>1, WantedFewer
<1>5. PICK new \in Seq(Names) : new = NewOf(file)
  BY <1>3
<1>6. PICK before \in Seq(Names) : before = Sought(left, Wanted(trees))
  BY SoughtIsSeq
<1>7. Sought(below \o NewLoads(file), Wanted(trees')) = Sift(before \o new, Wanted(trees'))
  <2>1. PICK W : W = Wanted(trees)
    OBVIOUS
  <2>2. PICK W1 : W1 = Wanted(trees')
    OBVIOUS
  <2>3. PICK loads : loads = NewLoads(file)
    OBVIOUS
  <2>4. IsLoads(left) /\ IsLoads(below) /\ IsLoads(loads)
    BY <1>2, <1>3, <2>3
  <2>5. W1 \subseteq W /\ SameSought(below, left, W1)
    BY <1>4, <2>1, <2>2
  <2>6. Sought(below \o loads, W1) = Sift(Sought(left, W) \o NamesOf(loads), W1)
    BY <2>4, <2>5, SoughtAbove
  <2> QED
    BY <1>3, <1>5, <1>6, <2>1, <2>2, <2>3, <2>6
<1>8. Pending' = Sift(before \o new, Wanted(trees'))
  BY <1>7 DEF Pending
<1>9. Pending = Append(before, n)
  BY <1>6
<1> QED
  BY <1>1, <1>2, <1>5, <1>8, <1>9, ParsesTree
-----------------------------------------------------------------------------
(***************************************************************************)
(* SearchOne: the last load of the stack is dropped, or its file parsed.   *)
(***************************************************************************)
\* What the invariant of the search says of the stack.
LEMMA InSearch ==
    ASSUME SearchInv, phase \in Searched
    PROVE  /\ IsLoads(batch) /\ IsLoads(worklist) /\ \E T : trees \in Seq(T)
           /\ BatchOK(batch)
           /\ \A k \in DOMAIN worklist : worklist[k].file # NoFile => worklist[k].file \in cached
           /\ \A k \in DOMAIN batch : batch[k].file # NoFile => batch[k].file \in cached
  BY DEF SearchInv, SearchOK, Waiting, Holds

LEMMA EmptySearch == OrderOK /\ phase = "search" /\ SearchInv => Stack = worklist /\ Pending = Sought(worklist, Wanted(trees))
  BY InSearch, StackIsLoads DEF OrderOK, Searched, Pending

\* A load on top that no search would find a file for.
LEMMA TopDropped ==
    ASSUME NEW s, IsLoads(s), Separate(s), s # <<>>, NEW ts, NEW ca, Sound(LoadsIn(s), ts, ca),
           \/ Last(s).name \in Known(ts)
           \/ Last(s).file = NoFile /\ FindBuffer(Last(s).name, ca) = NoFile
    PROVE  /\ IsLoads(Front(s)) /\ Separate(Front(s)) /\ Sound(LoadsIn(Front(s)), ts, ca)
           /\ LoadsIn(Front(s)) \subseteq LoadsIn(s)
           /\ Sought(Front(s), Wanted(ts)) = Sought(s, Wanted(ts))
<1>1. PICK r : r = Front(s)
  OBVIOUS
<1>2. PICK l : l = Last(s)
  OBVIOUS
<1>3. TopOf(r, l, s)
  BY <1>1, <1>2, LastTaken
<1>4. /\ IsLoads(r) /\ Separate(r) /\ l.name \in Names
      /\ LoadsIn(s) = LoadsIn(r) \cup {<<l.name, l.file>>}
      /\ \A x \in LoadsIn(r) : x[1] # l.name
      /\ \A set : Sought(s, set) = Sought(r, set) \o OneKept(l.name, set)
  BY <1>3 DEF TopOf
<1>5. l.file = NoFile \/ l.name \in Known(ts)
  BY <1>2
<1>6. PICK L : L = LoadsIn(s)
  OBVIOUS
<1>7. PICK M : M = LoadsIn(r)
  OBVIOUS
<1>8. Sound(M, ts, ca)
  <2>1. M \subseteq L /\ \A x \in L : x \in M \/ x[2] = NoFile \/ x[1] \in Known(ts)
    BY <1>4, <1>5, <1>6, <1>7
  <2>2. Sound(L, ts, ca)
    BY <1>6
  <2> QED
    BY <2>1, <2>2, SoundWithout
<1>9. l.name \notin Wanted(ts)
  <2>1. CASE l.name \in Known(ts)
    BY <2>1, WantedNames
  <2>2. CASE l.name \notin Known(ts)
    <3>1. l.file = NoFile /\ FindBuffer(l.name, ca) = NoFile
      BY <1>2, <2>2
    <3>2. \A f : f # NoFile => <<l.name, f>> \notin L
      BY <1>4, <1>6, <3>1
    <3>3. PICK n \in Names : n = l.name
      BY <1>4
    <3>4. Sound(L, ts, ca) /\ n \notin Known(ts) /\ \A f : f # NoFile => <<n, f>> \notin L
      BY <1>6, <2>2, <3>2, <3>3
    <3>5. FindBuffer(n, ca) = FindBuffer(n, CachedOf(ts))
      BY <3>4, FindsSame
    <3> QED
      BY <3>1, <3>3, <3>5, WantedNames
  <2> QED
    BY <2>1, <2>2
<1>10. Sought(r, Wanted(ts)) = Sought(s, Wanted(ts))
  <2>1. OneKept(l.name, Wanted(ts)) = <<>>
    BY <1>9 DEF OneKept
  <2>2. Sought(r, Wanted(ts)) \in Seq(Names)
    BY <1>4, SoughtIsSeq
  <2>3. Sought(s, Wanted(ts)) = Sought(r, Wanted(ts)) \o <<>>
    BY <1>4, <2>1
  <2> QED
    BY <2>2, <2>3, ConcatEmptySeq
<1> QED
  BY <1>1, <1>4, <1>6, <1>7, <1>8, <1>10

LEMMA FewerParsed ==
    ASSUME NEW w, NEW v, NEW ca, ParsedBefore(w, ca), LoadsIn(v) \subseteq LoadsIn(w)
    PROVE  ParsedBefore(v, ca)
  BY DEF ParsedBefore

LEMMA SearchOneDrops ==
    ASSUME SearchInv, OrderOK, phase = "search", worklist # <<>>,
           \/ Last(worklist).name \in known
           \/ Last(worklist).file = NoFile /\ FindBuffer(Last(worklist).name, cached) = NoFile,
           worklist' = Front(worklist),
           UNCHANGED <<trees, cached, known, missing, batch, phase>>
    PROVE  OrderOK' /\ Pending' = Pending
<1>1. IsLoads(batch) /\ IsLoads(worklist) /\ batch = <<>> /\ Stack = worklist
  BY InSearch, EmptySearch DEF Searched, OrderOK
<1>2. known = Known(trees) /\ Separate(worklist) /\ Sound(LoadsIn(worklist), trees, cached)
  BY <1>1 DEF OrderOK
<1>3. PICK w : w = Front(worklist)
  OBVIOUS
<1>4. /\ IsLoads(w) /\ Separate(w) /\ Sound(LoadsIn(w), trees, cached)
      /\ LoadsIn(w) \subseteq LoadsIn(worklist)
      /\ Sought(w, Wanted(trees)) = Sought(worklist, Wanted(trees))
  BY <1>2, <1>1, <1>3, TopDropped
<1>5. Stack' = w
  <2>1. PICK T : w \in Seq(T)
    BY <1>4 DEF IsLoads
  <2>2. <<>> \o w = w
    BY <2>1, ConcatEmptySeq
  <2> QED
    BY <1>1, <1>3, <2>2 DEF Stack
<1>6. ParsedBefore(w, cached)
  BY <1>4, FewerParsed DEF OrderOK
<1>7. Pending' = Pending
  BY <1>1, <1>4, <1>5 DEF Pending
<1>8. OrderOK'
  BY <1>1, <1>3, <1>4, <1>5, <1>6 DEF OrderOK
<1> QED
  BY <1>7, <1>8
\* The file on the stack, or the one found in the cache, is the one found among the trees.
TopFile(L, M, ts, ca, n, x, file) ==
    /\ n \in Names /\ L = M \cup {<<n, x>>} /\ Sound(L, ts, ca)
    /\ n \notin Known(ts) /\ \A l \in M : l[1] # n
    /\ file = IF x # NoFile THEN x ELSE FindBuffer(n, ca)

LEMMA FileOfTop ==
    ASSUME NEW L, NEW M, NEW ts, NEW ca, NEW n, NEW x, NEW file, TopFile(L, M, ts, ca, n, x, file)
    PROVE  file = FindBuffer(n, CachedOf(ts)) /\ (x = NoFile \/ x = file)
<1> USE DEF TopFile
<1>1. CASE x # NoFile
  <2>1. FileSound(n, x, ts)
    <3>1. <<n, x>> \in L
      OBVIOUS
    <3>2. \A l \in L : FileSound(l[1], l[2], ts)
      BY DEF Sound
    <3>3. PICK l \in L : l = <<n, x>>
      BY <3>1
    <3> QED
      BY <3>2, <3>3
  <2> QED
    BY <1>1, <2>1 DEF FileSound
<1>2. CASE x = NoFile
  <2>1. \A f : f # NoFile => <<n, f>> \notin L
    BY <1>2
  <2>2. FindBuffer(n, ca) = FindBuffer(n, CachedOf(ts))
    BY <2>1, FindsSame
  <2> QED
    BY <1>2, <2>2
<1> QED
  BY <1>1, <1>2

\* The other loads with files are of names the tree of this one does not matter to.
OtherLoads(L, n) == \A l \in L : l[1] \in Names /\ l[1] # n /\ (l[2] # NoFile => Workers # {})

LEMMA OthersApart ==
    ASSUME Independent, NEW n \in Names, NEW file, file \in CanBe(n), NEW L, OtherLoads(L, n)
    PROVE  \A l \in L : l[2] = NoFile \/ CanBe(l[1]) \cap ({file} \cup Includes[file]) = {}
<1> SUFFICES ASSUME NEW l \in L, l[2] # NoFile
             PROVE  CanBe(l[1]) \cap ({file} \cup Includes[file]) = {}
  OBVIOUS
<1>1. PICK m \in Names : m = l[1]
  BY DEF OtherLoads
<1>2. m # n /\ Workers # {}
  BY <1>1 DEF OtherLoads
<1>3. \A k \in Names : k # n => CanBe(k) \cap ({file} \cup Includes[file]) = {}
  BY <1>2, Apartness
<1> QED
  BY <1>1, <1>2, <1>3

LEMMA NamesOfLoads ==
    ASSUME NEW s, IsLoads(s)
    PROVE  \A l \in LoadsIn(s) : l[1] \in Names
  BY DEF LoadsIn, IsLoads

LEMMA ParsedAbove ==
    ASSUME NEW w, NEW v, NEW ca, NEW more, ParsedBefore(w, ca), ca \subseteq more,
           \A l \in LoadsIn(v) : l \in LoadsIn(w) \/ l[2] = NoFile
    PROVE  ParsedBefore(v, more)
  BY DEF ParsedBefore

LEMMA SearchOneTakes ==
    ASSUME Independent, SearchInv, OrderOK, phase = "search", worklist # <<>>,
           Last(worklist).name \notin known,
           NEW file, file # NoFile,
           file = IF Last(worklist).file # NoFile THEN Last(worklist).file
                  ELSE FindBuffer(Last(worklist).name, cached),
           AddTree(file, Front(worklist)), cached' = cached \cup {file} \cup Includes[file],
           batch' = batch, phase' = phase
    PROVE  OrderOK' /\ Order!ParseMissing
<1>1. /\ IsLoads(batch) /\ IsLoads(worklist) /\ batch = <<>> /\ Stack = worklist
      /\ Pending = Sought(worklist, Wanted(trees))
  BY InSearch, EmptySearch DEF Searched, OrderOK
<1>2. /\ known = Known(trees) /\ missing = Missing(trees)
      /\ Separate(worklist) /\ Sound(LoadsIn(worklist), trees, cached) /\ ParsedBefore(worklist, cached)
  BY <1>1 DEF OrderOK
<1>3. PICK T : trees \in Seq(T)
  BY InSearch DEF Searched
<1>4. PICK r : r = Front(worklist)
  OBVIOUS
<1>5. PICK l : l = Last(worklist)
  OBVIOUS
<1>6. PICK W : W = Wanted(trees)
  OBVIOUS
<1>7. TopOf(r, l, worklist)
  <2>1. PICK w : w = worklist
    OBVIOUS
  <2>2. IsLoads(w) /\ Separate(w) /\ w # <<>>
    BY <1>1, <1>2, <2>1
  <2>3. TopOf(Front(w), Last(w), w)
    BY <2>2, LastTaken
  <2> QED
    BY <1>4, <1>5, <2>1, <2>3
<1>8. PICK n \in Names : n = l.name
  BY <1>7 DEF TopOf
<1>9. PICK x : x = l.file
  OBVIOUS
<1>10. PICK L : L = LoadsIn(r)
  OBVIOUS
<1>11. PICK M : M = LoadsIn(worklist)
  OBVIOUS
<1>12. /\ IsLoads(r) /\ Separate(r)
       /\ M = L \cup {<<n, x>>} /\ \A y \in L : y[1] # n
       /\ Sought(worklist, W) = Sought(r, W) \o OneKept(n, W)
  BY <1>7, <1>8, <1>9, <1>10, <1>11 DEF TopOf
<1>13. n \notin Known(trees) /\ file = IF x # NoFile THEN x ELSE FindBuffer(n, cached)
  BY <1>2, <1>5, <1>8, <1>9
<1>14. file = FindBuffer(n, CachedOf(trees)) /\ (x = NoFile \/ x = file)
  <2>1. Sound(M, trees, cached)
    BY <1>2, <1>11
  <2>2. TopFile(M, L, trees, cached, n, x, file)
    BY <1>12, <1>13, <2>1 DEF TopFile
  <2> QED
    BY <2>2, FileOfTop
<1>15. file \in CanBe(n)
  BY <1>14, FoundIn
<1>16. PICK more : more = cached \cup {file} \cup Includes[file]
  OBVIOUS
<1>17. Fits(L, trees, cached, n, x, file, more)
  <2>1. OtherLoads(L, n)
    <3>1. \A y \in L : y[1] \in Names
      BY <1>10, <1>12, NamesOfLoads
    <3>2. L \subseteq LoadsIn(worklist)
      BY <1>11, <1>12
    <3> QED
      BY <1>2, <1>12, <3>1, <3>2 DEF ParsedBefore, OtherLoads
  <2>2. \A y \in L : y[2] = NoFile \/ CanBe(y[1]) \cap ({file} \cup Includes[file]) = {}
    BY <1>15, <2>1, OthersApart
  <2>3. Sound(L \cup {<<n, x>>}, trees, cached)
    BY <1>2, <1>11, <1>12
  <2> QED
    BY <1>12, <1>13, <1>14, <1>16, <2>2, <2>3 DEF Fits
<1>18. Takes(T, n, x, file, r, r, more)
  BY <1>2, <1>3, <1>4, <1>10, <1>12, <1>17 DEF Takes
<1>19. worklist' = r \o NewLoads(file) /\ cached' = more
  BY <1>4, <1>16 DEF AddTree
<1>20. PICK v : v = r \o NewLoads(file)
  OBVIOUS
<1>21. /\ known' = Known(trees') /\ missing' = Missing(trees')
       /\ IsLoads(v) /\ Separate(v) /\ Sound(LoadsIn(v), trees', more)
       /\ LoadsIn(v) = L \cup {<<m, NoFile>> : m \in ToSet(NewOf(file))}
  BY <1>10, <1>18, <1>20, TreeKeepsOrder
<1>22. Stack' = v
  <2>1. PICK V : v \in Seq(V)
    BY <1>21 DEF IsLoads
  <2>2. <<>> \o v = v
    BY <2>1, ConcatEmptySeq
  <2> QED
    BY <1>1, <1>19, <1>20, <2>2 DEF Stack
<1>23. ParsedBefore(v, more)
  <2>1. \A y \in LoadsIn(v) : y \in LoadsIn(worklist) \/ y[2] = NoFile
    BY <1>11, <1>12, <1>21
  <2>2. cached \subseteq more
    BY <1>16
  <2> QED
    BY <1>2, <2>1, <2>2, ParsedAbove
<1>24. OrderOK'
  <2>1. Separate(Stack') /\ Sound(LoadsIn(Stack'), trees', cached')
    BY <1>19, <1>21, <1>22
  <2>2. ParsedBefore(worklist', cached')
    BY <1>19, <1>20, <1>23
  <2>3. known' = Known(trees') /\ missing' = Missing(trees')
    BY <1>21
  <2>4. phase' = "search" /\ batch' = <<>> /\ DOMAIN <<>> = {}
    BY <1>1, EmptyFacts
  <2>5. \A k \in DOMAIN batch' : Expects(batch'[k], trees', cached')
    BY <2>4
  <2> QED
    BY <2>1, <2>2, <2>3, <2>4, <2>5 DEF OrderOK
<1>25. Order!ParseMissing
  <2>1. n \in Wanted(trees)
    BY <1>13, <1>14, WantedNames
  <2>2. Sought(r, W) \in Seq(Names)
    BY <1>12, SoughtIsSeq
  <2>3. Pending = Append(Sought(r, Wanted(trees)), n)
    <3>1. OneKept(n, W) = <<n>>
      BY <1>6, <2>1 DEF OneKept
    <3>2. Append(Sought(r, W), n) = Sought(r, W) \o <<n>>
      BY <2>2, AppendFacts
    <3> QED
      BY <1>1, <1>6, <1>12, <3>1, <3>2
  <2>4. Stack' = r \o NewLoads(file)
    BY <1>20, <1>22
  <2>5. SameSought(r, r, Wanted(trees'))
    BY DEF SameSought
  <2> QED
    BY <1>12, <1>18, <2>3, <2>4, <2>5, TakesNext
<1> QED
  BY <1>24, <1>25

LEMMA SearchOneInOrder ==
    ASSUME Independent, SearchInv, OrderOK, SearchOne
    PROVE  OrderOK' /\ ((trees' = trees /\ Pending' = Pending) \/ Order!ParseMissing)
<1>1. phase = "search" /\ worklist # <<>> /\ phase' = phase /\ batch' = batch
  BY DEF SearchOne
<1>2. PICK file : file = IF Last(worklist).file # NoFile THEN Last(worklist).file
                         ELSE FindBuffer(Last(worklist).name, cached)
  OBVIOUS
<1>3. CASE Last(worklist).name \in known \/ file = NoFile
  <2>1. worklist' = Front(worklist) /\ UNCHANGED <<trees, cached, known, missing>>
    BY <1>2, <1>3 DEF SearchOne
  <2>2. \/ Last(worklist).name \in known
        \/ Last(worklist).file = NoFile /\ FindBuffer(Last(worklist).name, cached) = NoFile
    BY <1>2, <1>3
  <2>3. OrderOK' /\ Pending' = Pending
    BY <1>1, <2>1, <2>2, SearchOneDrops
  <2> QED
    BY <2>1, <2>3
<1>4. CASE ~(Last(worklist).name \in known \/ file = NoFile)
  <2>1. AddTree(file, Front(worklist)) /\ cached' = cached \cup {file} \cup Includes[file]
    BY <1>2, <1>4 DEF SearchOne
  <2> QED
    BY <1>1, <1>2, <1>4, <2>1, SearchOneTakes
<1> QED
  BY <1>3, <1>4
-----------------------------------------------------------------------------
(***************************************************************************)
(* FindNext and ParseFound: a load goes into the batch with the file that  *)
(* one thread would find, and nothing it includes is in a later search.    *)
(***************************************************************************)
Opens(R, n, x, file, ts, ca) ==
    /\ n \in Names /\ \A l \in R : l[1] # n
    /\ Sound(R \cup {<<n, x>>}, ts, ca)
    /\ x # NoFile => x \in ca
    /\ file = IF x # NoFile THEN x ELSE IF n \in Known(ts) THEN NoFile ELSE FindBuffer(n, ca)

LEMMA FileOpened ==
    ASSUME Independent, Workers # {},
           NEW R, NEW n, NEW x, NEW file, NEW ts, NEW ca, Opens(R, n, x, file, ts, ca)
    PROVE  /\ Sound(R \cup {<<n, file>>}, ts, ca \cup ({file} \ {NoFile}))
           /\ file # NoFile \/ n \in Known(ts) \/ FindBuffer(n, CachedOf(ts)) = NoFile
<1>1. PICK L : L = R \cup {<<n, x>>}
  OBVIOUS
<1>2. /\ n \in Names /\ Sound(L, ts, ca) /\ \A l \in R : l[1] # n
      /\ x # NoFile => x \in ca
      /\ file = IF x # NoFile THEN x ELSE IF n \in Known(ts) THEN NoFile ELSE FindBuffer(n, ca)
  BY <1>1 DEF Opens
<1>3. CASE x # NoFile \/ n \in Known(ts)
  <2>1. file = x \/ (x = NoFile /\ file = NoFile)
    BY <1>2, <1>3
  <2>2. ca \cup ({file} \ {NoFile}) = ca
    BY <1>2, <2>1
  <2>3. R \cup {<<n, file>>} = L
    BY <1>1, <2>1
  <2> QED
    BY <1>2, <1>3, <2>2, <2>3
<1>4. CASE x = NoFile /\ n \notin Known(ts)
  <2>1. \A f : f # NoFile => <<n, f>> \notin L
    BY <1>1, <1>2, <1>4
  <2>2. file = FindBuffer(n, CachedOf(ts))
    <3>1. FindBuffer(n, ca) = FindBuffer(n, CachedOf(ts))
      BY <1>2, <1>4, <2>1, FindsSame
    <3> QED
      BY <1>2, <1>4, <3>1
  <2>3. CASE file = NoFile
    <3>1. ca \cup ({file} \ {NoFile}) = ca /\ R \cup {<<n, file>>} = L
      BY <1>1, <1>4, <2>3
    <3> QED
      BY <1>2, <2>2, <2>3, <3>1
  <2>4. CASE file # NoFile
    <3>1. file \in CanBe(n)
      BY <1>2, <2>2, <2>4, FoundIn
    <3>2. \A m \in Names : m # n => file \notin CanBe(m)
      BY <1>2, <3>1, Apartness
    <3>3. Sound(R, ts, ca)
      <4>1. R \subseteq L /\ \A l \in L : l \in R \/ l[2] = NoFile \/ l[1] \in Known(ts)
        BY <1>1, <1>4
      <4> QED
        BY <1>2, <4>1, SoundWithout
    <3>4. n \in Missing(ts)
      <4>1. PICK l \in L : l = <<n, x>>
        BY <1>1
      <4>2. FileSound(l[1], l[2], ts)
        BY <1>2 DEF Sound
      <4> QED
        BY <1>4, <4>1, <4>2 DEF FileSound
    <3>5. Sound(R \cup {<<n, file>>}, ts, ca \cup {file})
      BY <1>2, <1>4, <2>2, <2>4, <3>2, <3>3, <3>4, SoundOpened
    <3>6. {file} \ {NoFile} = {file}
      BY <2>4
    <3> QED
      BY <2>4, <3>5, <3>6
  <2> QED
    BY <2>3, <2>4
<1> QED
  BY <1>3, <1>4

LEMMA ExpectsStill ==
    ASSUME NEW l, NEW ts, NEW ca, Expects(l, ts, ca), NEW more, ca \subseteq more
    PROVE  Expects(l, ts, more)
  BY DEF Expects

LEMMA FindNextInOrder ==
    ASSUME Independent, SearchInv, OrderOK, FindNext
    PROVE  OrderOK' /\ trees' = trees /\ Pending' = Pending
<1>1. /\ phase = "find" /\ worklist # <<>> /\ worklist' = Tail(worklist)
      /\ phase' = (IF Len(worklist) = 1 THEN "batch" ELSE "find")
      /\ UNCHANGED <<trees, known, missing>>
  BY DEF FindNext
<1>2. IsLoads(batch) /\ IsLoads(worklist)
  BY <1>1, InSearch DEF Searched
<1>3. PICK w : w = worklist
  OBVIOUS
<1>4. PICK b : b = batch
  OBVIOUS
<1>5. PICK h : h = Head(w)
  OBVIOUS
<1>6. PICK file : file = IF h.file # NoFile THEN h.file
                         ELSE IF h.name \in known THEN NoFile ELSE FindBuffer(h.name, cached)
  OBVIOUS
<1>7. PICK x : x = [name |-> h.name, file |-> file, parsed |-> h.file # NoFile]
  OBVIOUS
<1>8. batch' = Append(b, x) /\ cached' = cached \cup ({file} \ {NoFile})
  BY <1>3, <1>4, <1>5, <1>6, <1>7 DEF FindNext
<1>9. x.name = h.name /\ x.file = file /\ (x.parsed <=> h.file # NoFile)
  BY <1>7
<1>10. /\ Workers # {} /\ known = Known(trees) /\ missing = Missing(trees)
       /\ Separate(b \o w) /\ Sound(LoadsIn(b \o w), trees, cached)
       /\ ParsedBefore(w, cached) /\ \A k \in DOMAIN b : Expects(b[k], trees, cached)
  BY <1>1, <1>3, <1>4 DEF OrderOK, Stack
<1>11. PICK W : w \in Seq(W)
  BY <1>2, <1>3 DEF IsLoads
<1>12. /\ w # <<>> /\ 1 \in DOMAIN w /\ h = w[1]
       /\ h.name \in Names /\ h.file \in Files \cup {NoFile}
  <2>1. w # <<>> /\ 1 \in DOMAIN w /\ Head(w) = w[1]
    BY <1>1, <1>3, <1>11, TailIsPart
  <2> QED
    BY <1>2, <1>3, <1>5, <2>1 DEF IsLoads
<1>13. file \in Files \cup {NoFile}
  BY <1>6, <1>12, FindBufferFacts
<1>14. PICK n : n = h.name
  OBVIOUS
<1>15. PICK R : R = LoadsIn(b) \cup LoadsIn(Tail(w))
  OBVIOUS
<1>16. /\ NamesOf(Append(b, x) \o Tail(w)) = NamesOf(b \o w)
       /\ n \in Names
       /\ LoadsIn(b \o w) = R \cup {<<n, h.file>>}
       /\ LoadsIn(Append(b, x) \o Tail(w)) = R \cup {<<n, file>>}
       /\ \A l \in R : l[1] # n
       /\ LoadsIn(w) = {<<n, h.file>>} \cup LoadsIn(Tail(w))
  <2>1. IsLoads(b) /\ IsLoads(w) /\ Separate(b \o w) /\ w # <<>>
    BY <1>2, <1>3, <1>4, <1>10, <1>12
  <2>2. x.name = Head(w).name /\ x.file \in Files \cup {NoFile}
    BY <1>5, <1>9, <1>13
  <2> QED
    BY <1>5, <1>9, <1>14, <1>15, <2>1, <2>2, HeadMoved
<1>17. Opens(R, n, h.file, file, trees, cached)
  <2>1. h.file # NoFile => h.file \in cached
    BY <1>1, <1>3, <1>12, InSearch DEF Searched
  <2> QED
    BY <1>6, <1>10, <1>14, <1>16, <2>1 DEF Opens
<1>18. /\ Sound(R \cup {<<n, file>>}, trees, cached')
       /\ file # NoFile \/ n \in Known(trees) \/ FindBuffer(n, CachedOf(trees)) = NoFile
  <2>1. PICK f : f = h.file
    OBVIOUS
  <2>2. Opens(R, n, f, file, trees, cached)
    BY <1>17, <2>1
  <2>3. Workers # {}
    BY <1>10
  <2>4. /\ Sound(R \cup {<<n, file>>}, trees, cached \cup ({file} \ {NoFile}))
        /\ file # NoFile \/ n \in Known(trees) \/ FindBuffer(n, CachedOf(trees)) = NoFile
    BY <2>2, <2>3, FileOpened
  <2> QED
    BY <1>8, <2>4
<1>19. PICK more : more = cached'
  OBVIOUS
<1>20. cached \subseteq more
  BY <1>8, <1>19
<1>21. Expects(x, trees, more)
  <2>1. h.file # NoFile => Includes[file] \subseteq cached
    <3>1. ASSUME h.file # NoFile PROVE Includes[h.file] \subseteq cached
      <4>1. PICK l \in LoadsIn(w) : l = <<n, h.file>>
        BY <1>16
      <4> QED
        BY <1>10, <3>1, <4>1 DEF ParsedBefore
    <3> QED
      BY <1>6, <3>1
  <2> QED
    BY <1>9, <1>14, <1>18, <1>20, <2>1 DEF Expects
<1>22. \A k \in DOMAIN Append(b, x) : Expects(Append(b, x)[k], trees, more)
  <2>1. PICK B : b \in Seq(B)
    BY <1>2, <1>4 DEF IsLoads
  <2>2. PICK c : c = Append(b, x)
    OBVIOUS
  <2>3. /\ c \in Seq(B \cup {x}) /\ Len(c) = Len(b) + 1 /\ Len(b) \in Nat /\ DOMAIN b = 1 .. Len(b)
        /\ \A k \in 1 .. Len(b) : c[k] = b[k]
        /\ c[Len(b) + 1] = x
    BY <2>1, <2>2, AppendFacts, SeqFacts
  <2>4. DOMAIN c = 1 .. Len(b) + 1
    BY <2>3, SeqFacts
  <2>5. \A k \in DOMAIN c : (k \in DOMAIN b /\ c[k] = b[k]) \/ c[k] = x
    BY <2>3, <2>4
  <2>6. \A k \in DOMAIN b : Expects(b[k], trees, more)
    BY <1>10, <1>20, ExpectsStill
  <2> QED
    BY <1>21, <2>2, <2>5, <2>6
<1>23. ParsedBefore(Tail(w), more)
  <2>1. \A l \in LoadsIn(Tail(w)) : l \in LoadsIn(w) \/ l[2] = NoFile
    BY <1>16
  <2> QED
    BY <1>10, <1>20, <2>1, ParsedAbove
<1>24. phase' = "batch" => Tail(w) = <<>>
  <2>1. ASSUME Len(w) = 1 PROVE Tail(w) = <<>>
    <3>1. Tail(w) \in Seq(W) /\ Len(Tail(w)) = Len(w) - 1
      BY <1>11, <1>12, HeadTailProperties
    <3>2. PICK t \in Seq(W) : t = Tail(w)
      BY <3>1
    <3>3. Len(t) = 0
      BY <2>1, <3>1, <3>2
    <3> QED
      BY <3>2, <3>3, EmptySeq
  <2> QED
    BY <1>1, <1>3, <2>1
<1>25. Stack' = Append(b, x) \o Tail(w)
  BY <1>1, <1>3, <1>8 DEF Stack
<1>26. PICK s : s = Append(b, x) \o Tail(w)
  OBVIOUS
<1>27. NamesOf(s) = NamesOf(Stack) /\ Stack' = s /\ LoadsIn(s) = R \cup {<<n, file>>}
  BY <1>3, <1>4, <1>16, <1>25, <1>26 DEF Stack
<1>28. Pending' = Pending
  BY <1>1, <1>27 DEF Pending, Sought
<1>29. Separate(s) /\ Sound(LoadsIn(s), trees, more)
  BY <1>3, <1>4, <1>10, <1>18, <1>19, <1>27 DEF Separate, Stack
<1>30. OrderOK'
  <2>1. Separate(Stack') /\ Sound(LoadsIn(Stack'), trees', cached')
    BY <1>1, <1>19, <1>27, <1>29
  <2>2. ParsedBefore(worklist', cached')
    BY <1>1, <1>3, <1>19, <1>23
  <2>3. known' = Known(trees') /\ missing' = Missing(trees')
    BY <1>1, <1>10
  <2>4. \A k \in DOMAIN batch' : Expects(batch'[k], trees', cached')
    BY <1>1, <1>8, <1>19, <1>22
  <2>5. phase' \in {"batch", "find"} /\ (phase' = "batch" => worklist' = <<>>)
    BY <1>1, <1>3, <1>24
  <2> QED
    BY <1>10, <2>1, <2>2, <2>3, <2>4, <2>5 DEF OrderOK
<1> QED
  BY <1>1, <1>28, <1>30

\* The load is marked, nothing else of the batch changes.
LEMMA LoadMarked ==
    ASSUME IsLoads(batch), BatchOK(batch), NEW k \in DOMAIN batch,
           batch' = [batch EXCEPT ![k].parsed = TRUE]
    PROVE  /\ DOMAIN batch' = DOMAIN batch /\ \E S : batch' \in Seq(S)
           /\ \A j \in DOMAIN batch : batch'[j].name = batch[j].name /\ batch'[j].file = batch[j].file
           /\ \A j \in DOMAIN batch : j # k => batch'[j] = batch[j]
<1>1. PICK B : batch \in Seq(B)
  BY DEF IsLoads
<1>2. Len(batch) \in Nat /\ DOMAIN batch = 1 .. Len(batch)
  BY <1>1, SeqFacts
<1> DEFINE name == batch[k].name
           file == batch[k].file
           b == [name |-> name, file |-> file, parsed |-> TRUE]
<1>3. batch' = [batch EXCEPT ![k] = b]
  <2>1. batch[k] = [name |-> name, file |-> file, parsed |-> batch[k].parsed]
    BY DEF BatchOK
  <2>2. [batch[k] EXCEPT !.parsed = TRUE] = b
    <3>1. [[name |-> name, file |-> file, parsed |-> batch[k].parsed] EXCEPT !.parsed = TRUE] = b
      BY ParsedLoad, Zenon
    <3> HIDE DEF name, file, b
    <3> QED
      BY <2>1, <3>1, Zenon
  <2> HIDE DEF b
  <2>3. batch' = [batch EXCEPT ![k] = [batch[k] EXCEPT !.parsed = TRUE]]
    OBVIOUS
  <2> QED
    BY <2>2, <2>3
<1>4. b.name = name /\ b.file = file
  OBVIOUS
<1> HIDE DEF b
<1>5. /\ \E S : batch' \in Seq(S)
      /\ DOMAIN batch' = DOMAIN batch
      /\ \A j \in DOMAIN batch : batch'[j] = IF j = k THEN b ELSE batch[j]
  <2>1. batch \in Seq(B \cup {b}) /\ b \in B \cup {b} /\ k \in 1 .. Len(batch)
    BY <1>1, <1>2, SeqMonotonic
  <2>2. PICK c : c = [batch EXCEPT ![k] = b]
    OBVIOUS
  <2>3. /\ c \in Seq(B \cup {b}) /\ Len(c) = Len(batch)
        /\ \A j \in 1 .. Len(batch) : c[j] = IF j = k THEN b ELSE batch[j]
    BY <2>1, <2>2, ExceptSeq
  <2>4. DOMAIN c = 1 .. Len(c)
    BY <2>3, SeqFacts
  <2>5. batch' = c
    BY <1>3, <2>2
  <2> QED
    BY <1>2, <2>3, <2>4, <2>5
<1> QED
  BY <1>4, <1>5

LEMMA ParseFoundInOrder ==
    ASSUME Independent, SearchInv, OrderOK, ParseFound
    PROVE  OrderOK' /\ trees' = trees /\ Pending' = Pending
<1>1. phase = "batch" /\ UNCHANGED <<phase, trees, known, missing, worklist>>
  BY DEF ParseFound
<1>2. PICK k \in DOMAIN batch :
          /\ batch[k].file # NoFile
          /\ batch' = [batch EXCEPT ![k].parsed = TRUE]
          /\ cached' = cached \cup Includes[batch[k].file]
  BY DEF ParseFound
<1>3. /\ IsLoads(batch) /\ IsLoads(worklist) /\ BatchOK(batch)
      /\ batch[k].file \in cached
  BY <1>1, <1>2, InSearch DEF Searched
<1>4. worklist = <<>> /\ Stack = batch
  BY <1>1, <1>3, StackIsLoads DEF OrderOK
<1>5. /\ Workers # {} /\ known = Known(trees) /\ missing = Missing(trees)
      /\ Separate(batch) /\ Sound(LoadsIn(batch), trees, cached)
      /\ \A j \in DOMAIN batch : Expects(batch[j], trees, cached)
      /\ ParsedBefore(worklist, cached)
  BY <1>1, <1>4 DEF OrderOK
<1>6. /\ DOMAIN batch' = DOMAIN batch /\ \E S : batch' \in Seq(S)
      /\ \A j \in DOMAIN batch : batch'[j].name = batch[j].name /\ batch'[j].file = batch[j].file
      /\ \A j \in DOMAIN batch : j # k => batch'[j] = batch[j]
  BY <1>2, <1>3, LoadMarked
<1>7. PICK c : c = batch'
  OBVIOUS
<1>8. NamesOf(c) = NamesOf(batch) /\ LoadsIn(c) = LoadsIn(batch)
  BY <1>6, <1>7, SameStack
<1>9. PICK n : n = batch[k].name
  OBVIOUS
<1>10. PICK file : file = batch[k].file
  OBVIOUS
<1>11. PICK L : L = LoadsIn(batch)
  OBVIOUS
<1>12. n \in Names /\ file \in CanBe(n)
  <2>1. PICK l \in L : l = <<n, file>>
    BY <1>9, <1>10, <1>11 DEF LoadsIn
  <2>2. FileSound(l[1], l[2], trees)
    BY <1>5, <1>11, <2>1 DEF Sound
  <2> QED
    BY <1>2, <1>10, <2>1, <2>2 DEF FileSound
<1>13. PICK more : more = cached \cup Includes[file]
  OBVIOUS
<1>14. Sound(L, trees, more)
  <2>1. \A m \in Names : Includes[file] \cap CanBe(m) \subseteq {file}
    BY <1>5, <1>12, Apartness
  <2>2. Sound(L, trees, cached) /\ file \in cached
    BY <1>3, <1>5, <1>10, <1>11
  <2> QED
    BY <1>13, <2>1, <2>2, SoundIncluded
<1>15. cached' = more /\ cached \subseteq more
  BY <1>2, <1>10, <1>13
<1>16. \A j \in DOMAIN c : Expects(c[j], trees, more)
  <2>1. ASSUME NEW j \in DOMAIN batch, j # k PROVE Expects(c[j], trees, more)
    BY <1>5, <1>6, <1>7, <1>15, <2>1, ExpectsStill
  <2>2. Expects(c[k], trees, more)
    <3>1. c[k].name = n /\ c[k].file = file
      BY <1>6, <1>7, <1>9, <1>10
    <3> QED
      BY <1>2, <1>10, <1>13, <3>1 DEF Expects
  <2> QED
    BY <1>6, <1>7, <2>1, <2>2
<1>17. Stack' = c
  <2>1. PICK S : c \in Seq(S)
    BY <1>6, <1>7
  <2>2. c \o <<>> = c
    BY <2>1, ConcatEmptySeq
  <2> QED
    BY <1>1, <1>4, <1>7, <2>2 DEF Stack
<1>18. Pending' = Pending
  BY <1>1, <1>4, <1>8, <1>17 DEF Pending, Sought
<1>19. OrderOK'
  <2>1. Separate(Stack') /\ Sound(LoadsIn(Stack'), trees', cached')
    BY <1>1, <1>5, <1>8, <1>11, <1>14, <1>15, <1>17 DEF Separate
  <2>2. ParsedBefore(worklist', cached')
    <3>1. ParsedBefore(worklist, more)
      BY <1>5, <1>15, ParsedAbove
    <3> QED
      BY <1>1, <1>15, <3>1
  <2>3. known' = Known(trees') /\ missing' = Missing(trees')
    BY <1>1, <1>5
  <2>4. \A j \in DOMAIN batch' : Expects(batch'[j], trees', cached')
    BY <1>1, <1>7, <1>15, <1>16
  <2>5. phase' = "batch" /\ worklist' = <<>>
    BY <1>1, <1>4
  <2> QED
    BY <1>5, <2>1, <2>2, <2>3, <2>4, <2>5 DEF OrderOK
<1> QED
  BY <1>1, <1>18, <1>19
-----------------------------------------------------------------------------
(***************************************************************************)
(* Commit: the last load of the batch that is still wanted is the one that *)
(* one thread would take next.                                             *)
(***************************************************************************)
LEMMA Unwanted ==
    ASSUME NEW l, NEW ts, NEW ca, Expects(l, ts, ca), l.parsed \/ l.file = NoFile,
           ~(l.parsed /\ l.name \notin Known(ts))
    PROVE  /\ l.name \notin Wanted(ts)
           /\ l.file = NoFile \/ l.name \in Known(ts)
  BY WantedNames DEF Expects

LEMMA ExpectsMore ==
    ASSUME NEW l, NEW ts, NEW us, NEW ca, Expects(l, ts, ca), l.name \in Names,
           Known(ts) \subseteq Known(us), CachedOf(ts) \subseteq CachedOf(us)
    PROVE  Expects(l, us, ca)
<1>1. FindBuffer(l.name, CachedOf(ts)) = NoFile => FindBuffer(l.name, CachedOf(us)) = NoFile
  <2>1. PICK n \in Names : n = l.name
    OBVIOUS
  <2>2. FindBuffer(n, CachedOf(ts)) = NoFile => FindBuffer(n, CachedOf(us)) = NoFile
    BY FoundNone
  <2> QED
    BY <2>1, <2>2
<1> QED
  BY <1>1 DEF Expects

\* The batch is done, or one of its loads is the last that is wanted.
LastIs(k) ==
    /\ k \in Nat /\ k + 1 \in DOMAIN batch
    /\ batch[k + 1].parsed /\ batch[k + 1].name \notin known
    /\ \A j \in DOMAIN batch : j > k + 1 => ~(batch[j].parsed /\ batch[j].name \notin known)

LEMMA WhichIsLast ==
    ASSUME IsLoads(batch), NEW k, k = SelectLastInSeq(batch, LAMBDA l : l.parsed /\ l.name \notin known)
    PROVE  \/ k = 0 /\ \A j \in DOMAIN batch : ~(batch[j].parsed /\ batch[j].name \notin known)
           \/ k # 0 /\ \E n \in Nat : k = n + 1 /\ n = k - 1 /\ LastIs(n)
<1> DEFINE I == {i \in 1 .. Len(batch) : batch[i].parsed /\ batch[i].name \notin known}
<1>1. k = IF I # {} THEN Max(I) ELSE 0
  BY DEF SelectLastInSeq
<1>2. Len(batch) \in Nat /\ DOMAIN batch = 1 .. Len(batch)
  BY NamesOfFacts
<1>3. CASE I = {}
  <2>1. \A j \in DOMAIN batch : ~(batch[j].parsed /\ batch[j].name \notin known)
    BY <1>2, <1>3
  <2> QED
    BY <1>1, <1>3, <2>1
<1>4. CASE I # {}
  <2>1. k \in I /\ \A j \in I : k >= j
    <3>1. I \in SUBSET (1 .. Len(batch))
      OBVIOUS
    <3> HIDE DEF I
    <3> QED
      BY <1>1, <1>2, <1>4, <3>1, GreatestIndex
  <2>2. k \in 1 .. Len(batch) /\ batch[k].parsed /\ batch[k].name \notin known
    BY <2>1
  <2>3. \A j \in DOMAIN batch : j > k => ~(batch[j].parsed /\ batch[j].name \notin known)
    <3>1. \A j \in DOMAIN batch : j > k => j \notin I
      <4> SUFFICES ASSUME NEW j \in 1 .. Len(batch), j > k, j \in I PROVE FALSE
        BY <1>2
      <4> HIDE DEF I
      <4>1. k \in Nat /\ j \in Nat /\ k >= j
        <5>1. PICK m \in Nat : m = Len(batch)
          BY <1>2
        <5>2. k \in 1 .. m /\ j \in 1 .. m
          BY <2>2, <5>1
        <5>3. k >= j
          BY <2>1
        <5> QED
          BY <5>2, <5>3
      <4> QED
        BY <4>1
    <3> QED
      BY <1>2, <3>1
  <2> HIDE DEF I
  <2>4. PICK n \in Nat : n = k - 1 /\ k = n + 1
    <3>1. k - 1 \in Nat /\ k = (k - 1) + 1
      BY <1>2, <2>2
    <3> QED
      BY <3>1
  <2>5. k # 0
    BY <1>2, <2>2
  <2>6. LastIs(n)
    BY <1>2, <2>2, <2>3, <2>4 DEF LastIs
  <2> QED
    BY <2>4, <2>5, <2>6
<1> QED
  BY <1>3, <1>4

LEMMA NoneSought ==
    ASSUME NEW s, IsLoads(s), NEW set, \A k \in DOMAIN s : s[k].name \notin set
    PROVE  Sought(s, set) = <<>>
<1>1. PICK names \in Seq(Names) : names = NamesOf(s)
  BY NamesOfFacts
<1>2. Len(names) = Len(s) /\ DOMAIN s = 1 .. Len(s) /\ \A k \in DOMAIN s : names[k] = s[k].name
  BY <1>1, NamesOfFacts
<1>3. \A k \in 1 .. Len(names) : names[k] \notin set
  BY <1>2
<1>4. Sift(names, set) = <<>>
  BY <1>3, SiftNone
<1> QED
  BY <1>1, <1>4 DEF Sought

\* What the invariants say when a batch is committed.
Commits ==
    /\ IsLoads(batch) /\ IsLoads(worklist) /\ worklist = <<>> /\ Stack = batch
    /\ Workers # {} /\ known = Known(trees) /\ missing = Missing(trees)
    /\ Separate(batch) /\ Sound(LoadsIn(batch), trees, cached)
    /\ \A j \in DOMAIN batch : Expects(batch[j], trees, cached)
    /\ \A j \in DOMAIN batch : batch[j].parsed \/ batch[j].file = NoFile
    /\ \A j \in DOMAIN batch : batch[j].file # NoFile => batch[j].file \in cached
    /\ \A j \in DOMAIN batch : batch[j].parsed => batch[j].file # NoFile

LEMMA WhenCommitting ==
    ASSUME SearchInv, OrderOK, phase = "commit"
    PROVE  Commits
<1>1. /\ IsLoads(batch) /\ IsLoads(worklist) /\ BatchOK(batch)
      /\ \A j \in DOMAIN batch : batch[j].file # NoFile => batch[j].file \in cached
  BY InSearch DEF Searched
<1>2. worklist = <<>> /\ Stack = batch
  BY <1>1, StackIsLoads DEF OrderOK
<1> QED
  BY <1>1, <1>2 DEF OrderOK, Commits, BatchOK

LEMMA NothingLeft ==
    ASSUME Commits, \A j \in DOMAIN batch : ~(batch[j].parsed /\ batch[j].name \notin known),
           batch' = <<>>, phase' = "search", UNCHANGED <<trees, known, missing, worklist, cached>>
    PROVE  OrderOK' /\ Pending' = Pending
<1> USE DEF Commits
<1>1. ASSUME NEW j \in DOMAIN batch
      PROVE  batch[j].name \notin Wanted(trees) /\ (batch[j].file = NoFile \/ batch[j].name \in Known(trees))
  <2>1. PICK l : l = batch[j]
    OBVIOUS
  <2>2. Expects(l, trees, cached) /\ (l.parsed \/ l.file = NoFile) /\ ~(l.parsed /\ l.name \notin Known(trees))
    BY <2>1
  <2> QED
    BY <2>1, <2>2, Unwanted
<1>2. Sought(batch, Wanted(trees)) = <<>>
  BY <1>1, NoneSought
<1>3. worklist' = <<>> /\ Stack' = <<>>
  <2>1. <<>> \o <<>> = <<>>
    OBVIOUS
  <2> QED
    BY <2>1 DEF Stack
<1>4. Sound(LoadsIn(<<>>), trees, cached)
  <2>1. PICK L : L = LoadsIn(batch)
    OBVIOUS
  <2>2. \A l \in L : l[2] = NoFile \/ l[1] \in Known(trees)
    BY <1>1, <2>1 DEF LoadsIn
  <2>3. Sound(L, trees, cached) /\ {} \subseteq L
    BY <2>1
  <2>4. Sound({}, trees, cached)
    BY <2>2, <2>3, SoundWithout
  <2> QED
    BY <2>4, EmptyStack
<1>5. Pending' = Pending
  BY <1>2, <1>3, EmptyStack DEF Pending
<1>6. OrderOK'
  <2>1. Separate(Stack') /\ Sound(LoadsIn(Stack'), trees', cached')
    BY <1>3, <1>4, EmptyStack
  <2>2. ParsedBefore(worklist', cached')
    <3>1. ParsedBefore(<<>>, cached)
      BY EmptyStack DEF ParsedBefore
    <3> QED
      BY <1>3, <3>1
  <2>3. known' = Known(trees') /\ missing' = Missing(trees')
    OBVIOUS
  <2>4. \A k \in DOMAIN batch' : Expects(batch'[k], trees', cached')
    BY EmptyFacts
  <2> QED
    BY <2>1, <2>2, <2>3, <2>4 DEF OrderOK
<1> QED
  BY <1>5, <1>6

\* The tree the batch commits, and the loads below it.
IsAbove(n, name, file, below) ==
    name = batch[n + 1].name /\ file = batch[n + 1].file /\ below = SubSeq(batch, 1, n)

LEMMA LastTree ==
    ASSUME Independent, Commits, NEW n, LastIs(n), NEW T, trees \in Seq(T),
           NEW name, NEW file, NEW below, IsAbove(n, name, file, below),
           NEW stack, AddTree(file, stack)
    PROVE  /\ Takes(T, name, file, file, below, stack, cached)
           /\ Pending = Append(Sought(below, Wanted(trees)), name)
           /\ IsLoads(below) /\ Len(below) = n /\ \A j \in 1 .. n : j \in DOMAIN batch /\ below[j] = batch[j]
           /\ LoadsIn(below) \subseteq LoadsIn(batch)
<1>1. PICK b : b = batch
  OBVIOUS
<1>2. /\ IsLoads(b) /\ Separate(b) /\ Sound(LoadsIn(b), trees, cached)
      /\ Workers # {} /\ known = Known(trees) /\ missing = Missing(trees) /\ Stack = b
      /\ \A j \in DOMAIN b : Expects(b[j], trees, cached)
      /\ \A j \in DOMAIN b : b[j].parsed \/ b[j].file = NoFile
      /\ \A j \in DOMAIN b : b[j].file # NoFile => b[j].file \in cached
      /\ \A j \in DOMAIN b : b[j].parsed => b[j].file # NoFile
  BY <1>1 DEF Commits
<1>3. /\ n \in Nat /\ n + 1 \in DOMAIN b
      /\ b[n + 1].parsed /\ b[n + 1].name \notin known
      /\ \A j \in DOMAIN b : j > n + 1 => ~(b[j].parsed /\ b[j].name \notin known)
  BY <1>1 DEF LastIs
<1>4. Len(b) \in Nat /\ DOMAIN b = 1 .. Len(b)
  BY <1>2, NamesOfFacts
<1>5. n + 1 <= Len(b)
  BY <1>3, <1>4
<1>6. PICK whole : whole = SubSeq(b, 1, n + 1)
  OBVIOUS
<1>7. /\ IsLoads(below) /\ IsLoads(whole) /\ Len(below) = n /\ \A j \in 1 .. n : below[j] = b[j]
  <2>1. IsLoads(b) /\ n \in Nat /\ n + 1 <= Len(b)
    BY <1>2, <1>3, <1>5
  <2>2. /\ IsLoads(SubSeq(b, 1, n)) /\ IsLoads(SubSeq(b, 1, n + 1)) /\ Len(SubSeq(b, 1, n)) = n
        /\ \A j \in 1 .. n : SubSeq(b, 1, n)[j] = b[j]
    BY <2>1, StackParts
  <2>3. below = SubSeq(b, 1, n)
    BY <1>1 DEF IsAbove
  <2> QED
    BY <1>6, <2>2, <2>3
<1>8. PICK x : x = b[n + 1]
  OBVIOUS
<1>9. Separate(whole) /\ TopOf(below, x, whole)
  <2>1. below = SubSeq(b, 1, n)
    BY <1>1 DEF IsAbove
  <2> QED
    BY <1>2, <1>3, <1>5, <1>6, <1>8, <2>1, PrefixTaken
<1>10. x.name = name /\ x.file = file /\ x.parsed
  BY <1>1, <1>3, <1>8 DEF IsAbove
<1>11. /\ name \in Names /\ name \notin Known(trees) /\ file \in cached /\ file # NoFile
       /\ Includes[file] \subseteq cached
  BY <1>2, <1>3, <1>8, <1>9, <1>10 DEF TopOf, Expects
<1>12. ASSUME NEW j \in DOMAIN b, j > n + 1
       PROVE  b[j].name \notin Wanted(trees) /\ (b[j].file = NoFile \/ b[j].name \in Known(trees))
  <2>1. PICK l : l = b[j]
    OBVIOUS
  <2>2. Expects(l, trees, cached) /\ (l.parsed \/ l.file = NoFile) /\ ~(l.parsed /\ l.name \notin Known(trees))
    BY <1>2, <1>3, <1>12, <2>1
  <2> QED
    BY <2>1, <2>2, Unwanted
<1>13. \A j \in 1 .. n : j \in DOMAIN b
  BY <1>3, <1>4, <1>5
<1>14. PICK L : L = LoadsIn(below)
  OBVIOUS
<1>15. PICK M : M = LoadsIn(whole)
  OBVIOUS
<1>16. M = L \cup {<<name, file>>} /\ Separate(below) /\ \A l \in L : l[1] # name
  BY <1>9, <1>10, <1>14, <1>15 DEF TopOf
<1>17. L \subseteq LoadsIn(b)
  <2>1. DOMAIN below = 1 .. n
    BY <1>7, NamesOfFacts
  <2> QED
    BY <1>7, <1>13, <1>14, <2>1 DEF LoadsIn
<1>18. Sound(M, trees, cached)
  <2>1. PICK B : B = LoadsIn(b)
    OBVIOUS
  <2>2. M \subseteq B
    <3>1. <<name, file>> \in B
      BY <1>3, <1>8, <1>10, <2>1 DEF LoadsIn
    <3> QED
      BY <1>16, <1>17, <2>1, <3>1
  <2>3. ASSUME NEW l \in B PROVE l \in M \/ l[2] = NoFile \/ l[1] \in Known(trees)
    <3>1. PICK j \in DOMAIN b : l = <<b[j].name, b[j].file>>
      BY <2>1 DEF LoadsIn
    <3>2. CASE j > n + 1
      BY <1>12, <3>1, <3>2
    <3>3. CASE j = n + 1
      BY <1>8, <1>10, <1>16, <3>1, <3>3
    <3>4. CASE j <= n
      <4>1. j \in 1 .. n /\ DOMAIN below = 1 .. n
        BY <1>3, <1>4, <1>7, <3>4, NamesOfFacts
      <4>2. l \in L
        BY <1>7, <1>14, <3>1, <4>1 DEF LoadsIn
      <4> QED
        BY <1>16, <4>2
    <3> QED
      BY <1>3, <1>4, <3>2, <3>3, <3>4
  <2>4. Sound(B, trees, cached)
    BY <1>2, <2>1
  <2> QED
    BY <2>2, <2>3, <2>4, SoundWithout
<1>19. file = FindBuffer(name, CachedOf(trees))
  <2>1. file = IF file # NoFile THEN file ELSE FindBuffer(name, cached)
    BY <1>11
  <2>2. TopFile(M, L, trees, cached, name, file, file)
    BY <1>11, <1>16, <1>18, <2>1 DEF TopFile
  <2> QED
    BY <2>2, FileOfTop
<1>20. Fits(L, trees, cached, name, file, file, cached)
  <2>1. file \in CanBe(name)
    BY <1>11, <1>19, FoundIn
  <2>2. OtherLoads(L, name)
    <3>1. \A l \in L : l[1] \in Names
      BY <1>7, <1>14, NamesOfLoads
    <3> QED
      BY <1>2, <1>16, <3>1 DEF OtherLoads
  <2>3. \A l \in L : l[2] = NoFile \/ CanBe(l[1]) \cap ({file} \cup Includes[file]) = {}
    BY <1>11, <2>1, <2>2, OthersApart
  <2>4. cached = cached \cup {file} \cup Includes[file]
    BY <1>11
  <2>5. Sound(L \cup {<<name, file>>}, trees, cached)
    BY <1>16, <1>18
  <2> QED
    BY <1>11, <1>16, <1>19, <2>3, <2>4, <2>5 DEF Fits
<1>21. Takes(T, name, file, file, below, stack, cached)
  BY <1>2, <1>7, <1>14, <1>16, <1>20 DEF Takes
<1>22. Pending = Append(Sought(below, Wanted(trees)), name)
  <2>1. PICK W : W = Wanted(trees)
    OBVIOUS
  <2>2. name \in W
    BY <1>11, <1>19, <2>1, WantedNames
  <2>3. \A j \in 1 .. Len(b) : j > n + 1 => b[j].name \notin W
    BY <1>4, <1>12, <2>1
  <2>4. b[n + 1].name \in W
    BY <1>8, <1>10, <2>2
  <2>5. Sought(b, W) = Append(Sought(SubSeq(b, 1, n), W), b[n + 1].name)
    BY <1>2, <1>3, <1>5, <2>3, <2>4, NothingAbove
  <2>6. below = SubSeq(b, 1, n)
    BY <1>1 DEF IsAbove
  <2> QED
    BY <1>2, <1>8, <1>10, <2>1, <2>5, <2>6 DEF Pending
<1> QED
  BY <1>1, <1>7, <1>13, <1>14, <1>17, <1>21, <1>22
LEMMA NextTree ==
    ASSUME NEW T, trees \in Seq(T), NEW file \in Files
    PROVE  /\ Known(Append(trees, TreeOf(file))) = Known(trees) \cup Declares[file]
           /\ CachedOf(Append(trees, TreeOf(file))) = CachedOf(trees) \cup {file} \cup Includes[file]
           /\ Wanted(Append(trees, TreeOf(file))) \subseteq Wanted(trees)
<1>1. PICK tree : tree = TreeOf(file)
  OBVIOUS
<1>2. tree.files = <<file>>
  BY <1>1 DEF TreeOf, Tree
<1>3. /\ Known(Append(trees, tree)) = Known(trees) \cup Declares[file]
      /\ CachedOf(Append(trees, tree)) = CachedOf(trees) \cup {file} \cup Includes[file]
  BY <1>2, OneMoreTree
<1>4. Wanted(Append(trees, tree)) \subseteq Wanted(trees)
  BY <1>2, WantedFewer
<1> QED
  BY <1>1, <1>3, <1>4

\* The tree misses nothing new: the batch goes on without it.
LEMMA CommitGoesOn ==
    ASSUME Independent, Commits, NEW n, LastIs(n), NEW T, trees \in Seq(T),
           NEW file, file = batch[n + 1].file, NewLoads(file) = <<>>, AddTree(file, <<>>),
           batch' = SubSeq(batch, 1, n), cached' = cached, phase' = "commit"
    PROVE  OrderOK' /\ Order!ParseMissing
<1>1. PICK name : name = batch[n + 1].name
  OBVIOUS
<1>2. PICK below : below = SubSeq(batch, 1, n)
  OBVIOUS
<1>3. PICK none : none = <<>>
  OBVIOUS
<1>4. /\ Takes(T, name, file, file, below, none, cached)
      /\ Pending = Append(Sought(below, Wanted(trees)), name)
      /\ IsLoads(below) /\ Len(below) = n
      /\ \A j \in 1 .. n : j \in DOMAIN batch /\ below[j] = batch[j]
  <2>1. IsAbove(n, name, file, below) /\ AddTree(file, none)
    BY <1>1, <1>2, <1>3 DEF IsAbove
  <2> QED
    BY <2>1, LastTree
<1>5. /\ file \in Files /\ known' = Known(trees') /\ missing' = Missing(trees')
      /\ trees' = Append(trees, TreeOf(file))
      /\ Separate(below \o NewLoads(file)) /\ Sound(LoadsIn(below \o NewLoads(file)), trees', cached)
  BY <1>4, TreeKeepsOrder
<1>6. PICK B : below \in Seq(B)
  BY <1>4 DEF IsLoads
<1>7. below \o <<>> = below /\ <<>> \o <<>> = <<>>
  BY <1>6, ConcatEmptySeq
<1>8. batch' = below /\ worklist' = <<>> /\ Stack' = below
  <2>1. worklist' = <<>>
    BY <1>7 DEF AddTree
  <2> QED
    BY <1>2, <1>7, <2>1 DEF Stack
<1>9. Separate(below) /\ Sound(LoadsIn(below), trees', cached)
  BY <1>5, <1>7
<1>10. Order!ParseMissing
  <2>1. SameSought(below, below, Wanted(trees'))
    BY DEF SameSought
  <2>2. Stack' = below \o NewLoads(file)
    BY <1>7, <1>8
  <2> QED
    BY <1>4, <2>1, <2>2, TakesNext
<1>11. PICK ts : ts = trees'
  OBVIOUS
<1>12. Known(trees) \subseteq Known(ts) /\ CachedOf(trees) \subseteq CachedOf(ts)
  BY <1>5, <1>11, NextTree
<1>13. DOMAIN below = 1 .. n
  BY <1>4, NamesOfFacts
<1>14. \A j \in DOMAIN below : Expects(below[j], ts, cached) /\ (below[j].parsed \/ below[j].file = NoFile)
  <2> SUFFICES ASSUME NEW j \in DOMAIN below
               PROVE  Expects(below[j], ts, cached) /\ (below[j].parsed \/ below[j].file = NoFile)
    OBVIOUS
  <2>1. PICK l : l = below[j]
    OBVIOUS
  <2>2. j \in DOMAIN batch /\ l = batch[j]
    BY <1>4, <1>13, <2>1
  <2>3. Expects(l, trees, cached) /\ l.name \in Names /\ (l.parsed \/ l.file = NoFile)
    BY <2>2 DEF Commits, IsLoads
  <2>4. Expects(l, ts, cached)
    BY <1>12, <2>3, ExpectsMore
  <2> QED
    BY <2>1, <2>3, <2>4
<1>15. ParsedBefore(<<>>, cached)
  BY EmptyStack DEF ParsedBefore
<1>16. OrderOK'
  <2>1. Separate(Stack') /\ Sound(LoadsIn(Stack'), trees', cached')
    BY <1>8, <1>9
  <2>2. ParsedBefore(worklist', cached')
    BY <1>8, <1>15
  <2>3. known' = Known(trees') /\ missing' = Missing(trees')
    BY <1>5
  <2>4. \A k \in DOMAIN batch' : Expects(batch'[k], trees', cached') /\ (batch'[k].parsed \/ batch'[k].file = NoFile)
    BY <1>8, <1>11, <1>14
  <2>5. Workers # {} /\ phase' = "commit" /\ worklist' = <<>>
    BY <1>8 DEF Commits
  <2> QED
    BY <2>1, <2>2, <2>3, <2>4, <2>5 DEF OrderOK
<1> QED
  BY <1>10, <1>16

\* What the tree misses goes above what is left of the batch.
LEMMA CommitStops ==
    ASSUME Independent, Commits, NEW n, LastIs(n), NEW T, trees \in Seq(T),
           NEW file, file = batch[n + 1].file,
           AddTree(file, StillWanted(n, known \cup Declares[file])),
           batch' = <<>>, cached' = cached, phase' = "search"
    PROVE  OrderOK' /\ Order!ParseMissing
<1>1. PICK name : name = batch[n + 1].name
  OBVIOUS
<1>2. PICK below : below = SubSeq(batch, 1, n)
  OBVIOUS
<1>3. PICK names : names = known \cup Declares[file]
  OBVIOUS
<1>4. PICK left : left = StillWanted(n, names)
  OBVIOUS
<1>5. /\ Takes(T, name, file, file, below, left, cached)
      /\ Pending = Append(Sought(below, Wanted(trees)), name)
      /\ IsLoads(below) /\ Len(below) = n
      /\ \A j \in 1 .. n : j \in DOMAIN batch /\ below[j] = batch[j]
      /\ LoadsIn(below) \subseteq LoadsIn(batch)
  <2>1. IsAbove(n, name, file, below) /\ AddTree(file, left)
    BY <1>1, <1>2, <1>3, <1>4 DEF IsAbove
  <2> QED
    BY <2>1, LastTree
<1>6. PICK new : new = NewLoads(file)
  OBVIOUS
<1>7. PICK ts : ts = trees'
  OBVIOUS
<1>8. /\ file \in Files /\ known' = Known(ts) /\ missing' = Missing(ts)
      /\ ts = Append(trees, TreeOf(file))
      /\ IsLoads(below \o new) /\ Separate(below \o new) /\ Sound(LoadsIn(below \o new), ts, cached)
  BY <1>5, <1>6, <1>7, TreeKeepsOrder
<1>9. IsLoads(new) /\ LoadsIn(new) = {<<m, NoFile>> : m \in ToSet(NewOf(file))}
  BY <1>6, <1>8, NewLoadsAre DEF Commits
<1>12. Known(ts) = names /\ Wanted(ts) \subseteq Wanted(trees)
  BY <1>3, <1>8, NextTree DEF Commits
<1>13. PICK set : set = Wanted(ts)
  OBVIOUS
<1>14. LeftRight(n, names, set)
  <2>1. n \in Nat /\ n <= Len(batch)
    <3>1. DOMAIN batch = 1 .. Len(batch) /\ Len(batch) \in Nat
      BY NamesOfFacts DEF Commits
    <3> QED
      BY <3>1 DEF LastIs
  <2>2. ASSUME NEW k \in 1 .. n
        PROVE  /\ batch[k].parsed \/ batch[k].file = NoFile
               /\ (batch[k].parsed /\ batch[k].name \notin names) \/ batch[k].name \notin set
    <3>1. PICK l : l = batch[k]
      OBVIOUS
    <3>2. Expects(l, trees, cached) /\ (l.parsed \/ l.file = NoFile)
      BY <1>5, <3>1 DEF Commits
    <3>3. l.name \in names => l.name \notin set
      BY <1>12, <1>13, WantedNames
    <3>4. ~l.parsed => l.name \notin set
      BY <1>12, <1>13, <3>2, Unwanted
    <3> QED
      BY <3>1, <3>2, <3>3, <3>4
  <2> QED
    BY <2>1, <2>2, WhatIsLeft DEF Commits
<1>15. /\ IsLoads(left) /\ Separate(left) /\ LoadsIn(left) \subseteq LoadsIn(below)
       /\ \A l \in LoadsIn(below) : l \in LoadsIn(left) \/ l[2] = NoFile \/ l[1] \in names
       /\ SameSought(left, below, set)
  BY <1>2, <1>4, <1>14 DEF LeftRight, SameSought
<1>16. PICK w : w = left \o new
  OBVIOUS
<1>17. /\ IsLoads(w) /\ LoadsIn(w) = LoadsIn(left) \cup LoadsIn(new)
       /\ LoadsIn(below \o new) = LoadsIn(below) \cup LoadsIn(new)
  BY <1>5, <1>9, <1>15, <1>16, StacksJoined
<1>18. Separate(w)
  <2>1. Separate(new) /\ \A j \in DOMAIN below, k \in DOMAIN new : below[j].name # new[k].name
    BY <1>5, <1>8, <1>9, SeparateParts
  <2>2. \A j \in DOMAIN left : \E i \in DOMAIN below : left[j].name = below[i].name
    <3> SUFFICES ASSUME NEW j \in DOMAIN left PROVE \E i \in DOMAIN below : left[j].name = below[i].name
      OBVIOUS
    <3>1. <<left[j].name, left[j].file>> \in LoadsIn(below)
      BY <1>15 DEF LoadsIn
    <3> QED
      BY <3>1 DEF LoadsIn
  <2>3. \A j \in DOMAIN left, k \in DOMAIN new : left[j].name # new[k].name
    BY <2>1, <2>2
  <2> QED
    BY <1>9, <1>15, <1>16, <2>1, <2>3, SeparateJoined
<1>19. Sound(LoadsIn(w), ts, cached)
  <2>1. PICK L : L = LoadsIn(below \o new)
    OBVIOUS
  <2>2. PICK M : M = LoadsIn(w)
    OBVIOUS
  <2>3. M \subseteq L /\ \A l \in L : l \in M \/ l[2] = NoFile \/ l[1] \in Known(ts)
    BY <1>12, <1>15, <1>17, <2>1, <2>2
  <2>4. Sound(L, ts, cached)
    BY <1>8, <2>1
  <2> QED
    BY <2>2, <2>3, <2>4, SoundWithout
<1>20. worklist' = w
  BY <1>3, <1>4, <1>6, <1>16 DEF AddTree
<1>21. Stack' = w
  <2>1. PICK W : w \in Seq(W)
    BY <1>17 DEF IsLoads
  <2>2. <<>> \o w = w
    BY <2>1, ConcatEmptySeq
  <2> QED
    BY <1>20, <2>2 DEF Stack
<1>22. Order!ParseMissing
  <2>1. SameSought(left, below, Wanted(trees'))
    BY <1>7, <1>13, <1>15
  <2>2. Stack' = left \o NewLoads(file)
    BY <1>6, <1>16, <1>21
  <2> QED
    BY <1>5, <1>15, <2>1, <2>2, TakesNext
<1>23. ParsedBefore(w, cached)
  <2> SUFFICES ASSUME NEW l \in LoadsIn(w), l[2] # NoFile
               PROVE  Workers # {} /\ Includes[l[2]] \subseteq cached
    BY DEF ParsedBefore
  <2>1. l \in LoadsIn(batch)
    BY <1>5, <1>9, <1>15, <1>17
  <2>2. PICK k \in DOMAIN batch : l = <<batch[k].name, batch[k].file>>
    BY <2>1 DEF LoadsIn
  <2>3. batch[k].file # NoFile /\ l[2] = batch[k].file
    BY <2>2
  <2>4. Expects(batch[k], trees, cached) /\ batch[k].parsed
    BY <2>3 DEF Commits
  <2> QED
    BY <2>3, <2>4 DEF Expects, Commits
<1>24. OrderOK'
  <2>1. Separate(Stack') /\ Sound(LoadsIn(Stack'), trees', cached')
    BY <1>7, <1>18, <1>19, <1>21
  <2>2. ParsedBefore(worklist', cached')
    BY <1>20, <1>23
  <2>3. known' = Known(trees') /\ missing' = Missing(trees')
    BY <1>7, <1>8
  <2>4. \A k \in DOMAIN batch' : Expects(batch'[k], trees', cached')
    BY EmptyFacts
  <2> QED
    BY <2>1, <2>2, <2>3, <2>4 DEF OrderOK
<1> QED
  BY <1>22, <1>24

LEMMA CommitInOrder ==
    ASSUME Independent, SearchInv, OrderOK, Commit
    PROVE  OrderOK' /\ ((trees' = trees /\ Pending' = Pending) \/ Order!ParseMissing)
<1>1. phase = "commit" /\ cached' = cached
  BY DEF Commit
<1>2. Commits
  BY <1>1, WhenCommitting
<1>3. PICK T : trees \in Seq(T)
  BY <1>1, InSearch DEF Searched
<1>4. PICK k : k = SelectLastInSeq(batch, LAMBDA l : l.parsed /\ l.name \notin known)
  OBVIOUS
<1>5. \/ k = 0 /\ \A j \in DOMAIN batch : ~(batch[j].parsed /\ batch[j].name \notin known)
      \/ k # 0 /\ \E n \in Nat : k = n + 1 /\ n = k - 1 /\ LastIs(n)
  BY <1>2, <1>4, WhichIsLast DEF Commits
<1>6. \/ k = 0 /\ batch' = <<>> /\ phase' = "search" /\ UNCHANGED <<trees, known, missing, worklist>>
      \/ /\ k # 0 /\ NewLoads(batch[k].file) = <<>>
         /\ AddTree(batch[k].file, <<>>) /\ batch' = SubSeq(batch, 1, k - 1) /\ phase' = phase
      \/ /\ k # 0
         /\ AddTree(batch[k].file, StillWanted(k - 1, known \cup Declares[batch[k].file]))
         /\ batch' = <<>> /\ phase' = "search"
  BY <1>4 DEF Commit
<1>7. CASE k = 0
  <2>1. batch' = <<>> /\ phase' = "search" /\ UNCHANGED <<trees, known, missing, worklist>>
    BY <1>6, <1>7
  <2>2. \A j \in DOMAIN batch : ~(batch[j].parsed /\ batch[j].name \notin known)
    BY <1>5, <1>7
  <2>3. OrderOK' /\ Pending' = Pending
    BY <1>1, <1>2, <2>1, <2>2, NothingLeft
  <2> QED
    BY <2>1, <2>3
<1>8. CASE k # 0
  <2>1. PICK n \in Nat : k = n + 1 /\ n = k - 1 /\ LastIs(n)
    BY <1>5, <1>8
  <2>2. PICK file : file = batch[n + 1].file
    OBVIOUS
  <2>3. \/ /\ NewLoads(file) = <<>>
           /\ AddTree(file, <<>>) /\ batch' = SubSeq(batch, 1, n) /\ phase' = "commit"
        \/ /\ AddTree(file, StillWanted(n, known \cup Declares[file]))
           /\ batch' = <<>> /\ phase' = "search"
    BY <1>1, <1>6, <1>8, <2>1, <2>2
  <2>4. CASE NewLoads(file) = <<>> /\ AddTree(file, <<>>) /\ batch' = SubSeq(batch, 1, n) /\ phase' = "commit"
    BY <1>1, <1>2, <1>3, <2>1, <2>2, <2>4, CommitGoesOn
  <2>5. CASE AddTree(file, StillWanted(n, known \cup Declares[file])) /\ batch' = <<>> /\ phase' = "search"
    BY <1>1, <1>2, <1>3, <2>1, <2>2, <2>5, CommitStops
  <2> QED
    BY <2>3, <2>4, <2>5
<1> QED
  BY <1>7, <1>8
-----------------------------------------------------------------------------
(***************************************************************************)
(* The first pass of loadTrees puts the names missed on the stack.         *)
(***************************************************************************)
Unopened(new) == [k \in DOMAIN new |-> [name |-> new[k], file |-> NoFile]]

LEMMA UnopenedFacts ==
    ASSUME NEW new \in Seq(Names)
    PROVE  /\ Unopened(new) \in Seq(NewLoadSet) /\ IsLoads(Unopened(new))
           /\ Len(Unopened(new)) = Len(new)
           /\ NamesOf(Unopened(new)) = new
           /\ \A l \in LoadsIn(Unopened(new)) : l[1] \in ToSet(new) /\ l[2] = NoFile
<1>1. Len(new) \in Nat /\ DOMAIN new = 1 .. Len(new) /\ \A k \in DOMAIN new : new[k] \in Names
  BY SeqFacts
<1>2. DOMAIN Unopened(new) = DOMAIN new
  BY DEF Unopened
<1>3. \A k \in DOMAIN new : Unopened(new)[k].name = new[k] /\ Unopened(new)[k].file = NoFile
  BY DEF Unopened
<1>4. Unopened(new) \in Seq(NewLoadSet)
  BY LoadsOfNames DEF Unopened
<1>5. IsLoads(Unopened(new))
  BY <1>1, <1>2, <1>3, <1>4 DEF IsLoads
<1>6. NamesOf(Unopened(new)) = [k \in DOMAIN new |-> new[k]]
  BY <1>2, <1>3 DEF NamesOf
<1>7. Len(Unopened(new)) = Len(new)
  BY <1>1, <1>2, <1>4
<1>8. \A l \in LoadsIn(Unopened(new)) : l[1] \in ToSet(new) /\ l[2] = NoFile
  BY <1>2, <1>3 DEF LoadsIn, ToSet
<1> QED
  BY <1>1, <1>4, <1>5, <1>6, <1>7, <1>8

LEMMA UnopenedJoined ==
    ASSUME NEW a \in Seq(Names), NEW b \in Seq(Names)
    PROVE  Unopened(a \o b) = Unopened(a) \o Unopened(b)
<1> DEFINE ua == Unopened(a)
           ub == Unopened(b)
           u == Unopened(a \o b)
<1>1. /\ ua \in Seq(NewLoadSet) /\ ub \in Seq(NewLoadSet) /\ Len(ua) = Len(a) /\ Len(ub) = Len(b)
  BY UnopenedFacts
<1>2. /\ Len(a) \in Nat /\ Len(b) \in Nat /\ a \o b \in Seq(Names) /\ Len(a \o b) = Len(a) + Len(b)
      /\ \A i \in 1 .. Len(a) : (a \o b)[i] = a[i]
      /\ \A i \in 1 .. Len(b) : (a \o b)[Len(a) + i] = b[i]
  BY JoinedAt
<1>3. u \in Seq(NewLoadSet) /\ Len(u) = Len(a) + Len(b)
  BY <1>2, UnopenedFacts
<1> HIDE DEF ua, ub, u
<1>4. /\ ua \o ub \in Seq(NewLoadSet) /\ Len(ua \o ub) = Len(a) + Len(b)
      /\ \A i \in 1 .. Len(a) : (ua \o ub)[i] = ua[i]
      /\ \A i \in 1 .. Len(b) : (ua \o ub)[Len(a) + i] = ub[i]
      /\ \A i \in 1 .. Len(a) + Len(b) : i \in 1 .. Len(a) \/ \E j \in 1 .. Len(b) : i = Len(a) + j
  <2>1. ua \in Seq(NewLoadSet) /\ ub \in Seq(NewLoadSet)
    BY <1>1
  <2>2. /\ ua \o ub \in Seq(NewLoadSet) /\ Len(ua \o ub) = Len(ua) + Len(ub)
        /\ \A i \in 1 .. Len(ua) : (ua \o ub)[i] = ua[i]
        /\ \A i \in 1 .. Len(ub) : (ua \o ub)[Len(ua) + i] = ub[i]
    BY <2>1, JoinedAt
  <2>3. \A i \in 1 .. Len(a) + Len(b) : i \in 1 .. Len(a) \/ \E j \in 1 .. Len(b) : i = Len(a) + j
    BY JoinedAt
  <2> QED
    BY <1>1, <2>2, <2>3
<1>5. /\ \A i \in 1 .. Len(a) : ua[i] = [name |-> a[i], file |-> NoFile]
      /\ \A i \in 1 .. Len(b) : ub[i] = [name |-> b[i], file |-> NoFile]
      /\ \A i \in 1 .. Len(a) + Len(b) : u[i] = [name |-> (a \o b)[i], file |-> NoFile]
  BY <1>2 DEF Unopened, ua, ub, u
<1>6. ASSUME NEW i \in 1 .. Len(a) + Len(b) PROVE u[i] = (ua \o ub)[i]
  <2>1. CASE i \in 1 .. Len(a)
    BY <1>2, <1>4, <1>5, <2>1, ZenonT(60)
  <2>2. CASE \E j \in 1 .. Len(b) : i = Len(a) + j
    <3>1. PICK j \in 1 .. Len(b) : i = Len(a) + j
      BY <2>2
    <3>2. (ua \o ub)[i] = ub[j] /\ (a \o b)[i] = b[j]
      BY <1>2, <1>4, <3>1
    <3> QED
      BY <1>5, <3>1, <3>2
  <2> QED
    BY <1>4, <2>1, <2>2
<1>7. u = ua \o ub
  BY <1>3, <1>4, <1>6, <1>2, SeqEqual
<1> QED
  BY <1>7 DEF u, ua, ub

UnopenedAll(seqs) == [k \in DOMAIN seqs |-> Unopened(seqs[k])]

LEMMA UnopenedAllAppend ==
    ASSUME NEW seqs \in Seq(Seq(Names)), NEW s \in Seq(Names)
    PROVE  /\ UnopenedAll(seqs) \in Seq(Seq(NewLoadSet))
           /\ UnopenedAll(Append(seqs, s)) = Append(UnopenedAll(seqs), Unopened(s))
<1> DEFINE n == Len(seqs)
           longer == Append(seqs, s)
           f == UnopenedAll(longer)
<1>1. n \in Nat /\ DOMAIN seqs = 1 .. n /\ \A k \in 1 .. n : seqs[k] \in Seq(Names)
  BY SeqFacts
<1>2. /\ longer \in Seq(Seq(Names)) /\ Len(longer) = n + 1 /\ longer[n + 1] = s
      /\ \A k \in 1 .. n : longer[k] = seqs[k]
  BY AppendFacts, AppendProperties
<1> HIDE DEF longer
<1>3. DOMAIN longer = 1 .. n + 1 /\ \A k \in 1 .. n + 1 : longer[k] \in Seq(Names)
  BY <1>2, SeqFacts
<1>4. f = [k \in 1 .. n + 1 |-> f[k]] /\ \A k \in 1 .. n + 1 : f[k] = Unopened(longer[k])
  BY <1>3 DEF UnopenedAll
<1>5. \A k \in 1 .. n + 1 : f[k] \in Seq(NewLoadSet)
  BY <1>3, <1>4, UnopenedFacts
<1> HIDE DEF f
<1>6. f = Append([k \in 1 .. n |-> f[k]], f[n + 1]) /\ [k \in 1 .. n |-> f[k]] \in Seq(Seq(NewLoadSet))
  BY <1>1, <1>4, <1>5, MadeAppend
<1>7. UnopenedAll(seqs) = [k \in 1 .. n |-> f[k]]
  <2>1. \A k \in 1 .. n : f[k] = Unopened(seqs[k])
    BY <1>1, <1>2, <1>4
  <2> QED
    BY <1>1, <2>1 DEF UnopenedAll
<1>8. f[n + 1] = Unopened(s)
  <2>1. n + 1 \in 1 .. n + 1
    BY <1>1
  <2> QED
    BY <1>2, <1>4, <2>1
<1> QED
  BY <1>6, <1>7, <1>8 DEF f, longer

LEMMA UnopenedFlat ==
    ASSUME NEW seqs \in Seq(Seq(Names))
    PROVE  FlattenSeq(UnopenedAll(seqs)) = Unopened(FlattenSeq(seqs))
<1> DEFINE P == {ss \in Seq(Seq(Names)) : FlattenSeq(UnopenedAll(ss)) = Unopened(FlattenSeq(ss))}
<1>1. <<>> \in P
  <2>1. <<>> \in Seq(Seq(Names)) /\ DOMAIN <<>> = {}
    BY EmptyFacts
  <2>2. UnopenedAll(<<>>) = <<>> /\ Unopened(<<>>) = <<>>
    BY <2>1 DEF UnopenedAll, Unopened
  <2> QED
    BY <2>1, <2>2, FlattenEmpty
<1>2. ASSUME NEW ss \in Seq(Seq(Names)), NEW s \in Seq(Names), ss \in P
      PROVE  Append(ss, s) \in P
  <2>1. Append(ss, s) \in Seq(Seq(Names))
    BY AppendProperties
  <2>2. FlattenSeq(Append(ss, s)) = FlattenSeq(ss) \o s /\ FlattenSeq(ss) \in Seq(Names)
    BY FlattenAppend, FlattenFacts
  <2>3. Unopened(FlattenSeq(Append(ss, s))) = Unopened(FlattenSeq(ss)) \o Unopened(s)
    BY <2>2, UnopenedJoined
  <2>4. UnopenedAll(ss) \in Seq(Seq(NewLoadSet)) /\ Unopened(s) \in Seq(NewLoadSet)
    BY UnopenedAllAppend, UnopenedFacts
  <2>5. FlattenSeq(UnopenedAll(Append(ss, s))) = FlattenSeq(UnopenedAll(ss)) \o Unopened(s)
    BY <2>4, UnopenedAllAppend, FlattenAppend
  <2>6. FlattenSeq(UnopenedAll(ss)) = Unopened(FlattenSeq(ss))
    BY <1>2
  <2> QED
    BY <2>1, <2>3, <2>5, <2>6
<1> HIDE DEF P
<1>3. Seq(Seq(Names)) \subseteq P
  BY <1>1, <1>2, SeqGrows
<1> QED
  BY <1>3 DEF P
-----------------------------------------------------------------------------
(***************************************************************************)
(* Of several trees, each puts on the stack what no tree declares and none *)
(* before it misses.                                                       *)
(***************************************************************************)
ReferredBefore(ts, k) == UNION {ToSet(ReferredBy(ts[j])) : j \in 1 .. k - 1}
FirstMissed(ts, k) == NewNames(ts[k], Known(ts) \cup ReferredBefore(ts, k))
FirstParts(ts) == [k \in DOMAIN ts |-> FirstMissed(ts, k)]
FirstNames(ts) == FlattenSeq(FirstParts(ts))

LEMMA ReferredEarlier ==
    ASSUME NEW ts, NEW n \in Nat, NEW k \in 1 .. n, NEW j \in 1 .. n, j < k
    PROVE  ToSet(ReferredBy(ts[j])) \subseteq ReferredBefore(ts, k)
<1>1. j \in 1 .. k - 1
  OBVIOUS
<1> QED
  BY <1>1 DEF ReferredBefore

LEMMA FirstNamesFacts ==
    ASSUME NEW ts, NEW P, Holds(ts, P)
    PROVE  /\ FirstParts(ts) \in Seq(Seq(Names)) /\ FirstNames(ts) \in Seq(Names)
           /\ IsInjective(FirstNames(ts))
           /\ ToSet(FirstNames(ts)) \subseteq Missing(ts)
<1> DEFINE parts == FirstParts(ts)
<1>1. PICK n \in Nat : DOMAIN ts = 1 .. n
  BY SeqFacts DEF Holds
<1>2. parts = [k \in 1 .. n |-> parts[k]] /\ \A k \in 1 .. n : parts[k] = FirstMissed(ts, k)
  BY <1>1 DEF FirstParts
<1> HIDE DEF parts
<1>3. ASSUME NEW k \in 1 .. n
      PROVE  /\ parts[k] \in Seq(Names)
             /\ ToSet(parts[k]) = ToSet(ReferredBy(ts[k])) \ (Known(ts) \cup ReferredBefore(ts, k))
             /\ IsInjective(parts[k])
  <2>1. ts[k].files \in Seq(Files)
    BY <1>1 DEF Holds
  <2>2. PICK excluded : excluded = Known(ts) \cup ReferredBefore(ts, k)
    OBVIOUS
  <2>3. parts[k] = NewNames(ts[k], excluded)
    BY <1>2, <2>2 DEF FirstMissed
  <2>4. /\ NewNames(ts[k], excluded) \in Seq(Names)
        /\ ToSet(NewNames(ts[k], excluded)) = ToSet(ReferredBy(ts[k])) \ excluded
        /\ IsInjective(NewNames(ts[k], excluded))
    BY <2>1, NewNamesFacts, NewNamesOnce
  <2> QED
    BY <2>2, <2>3, <2>4
<1>4. parts \in Seq(Seq(Names)) /\ DOMAIN parts = 1 .. n
  BY <1>2, <1>3
<1>5. ASSUME NEW j \in 1 .. n, NEW k \in 1 .. n, j < k
      PROVE  ToSet(parts[j]) \cap ToSet(parts[k]) = {}
  <2>1. ToSet(ReferredBy(ts[j])) \subseteq ReferredBefore(ts, k)
    BY <1>5, ReferredEarlier
  <2>2. ToSet(parts[j]) \subseteq ToSet(ReferredBy(ts[j]))
    BY <1>3
  <2>3. ToSet(parts[k]) \cap ReferredBefore(ts, k) = {}
    BY <1>3
  <2> QED
    BY <2>1, <2>2, <2>3
<1>6. Apart(parts)
  <2> SUFFICES ASSUME NEW k \in 1 .. n
               PROVE  /\ IsInjective(parts[k])
                      /\ \A j \in 1 .. n : j # k => ToSet(parts[j]) \cap ToSet(parts[k]) = {}
    BY <1>4 DEF Apart
  <2>1. ASSUME NEW j \in 1 .. n, j # k PROVE ToSet(parts[j]) \cap ToSet(parts[k]) = {}
    <3>1. CASE j < k
      BY <1>5, <3>1
    <3>2. CASE k < j
      BY <1>5, <3>2
    <3> QED
      BY <2>1, <3>1, <3>2
  <2> QED
    BY <1>3, <2>1
<1>7. /\ FlattenSeq(parts) \in Seq(Names) /\ IsInjective(FlattenSeq(parts))
      /\ ToSet(FlattenSeq(parts)) = UNION {ToSet(s) : s \in ToSet(parts)}
  BY <1>4, <1>6, FlattenFacts
<1>8. ToSet(FlattenSeq(parts)) \subseteq Missing(ts)
  <2> SUFFICES ASSUME NEW name \in ToSet(FlattenSeq(parts)) PROVE name \in Missing(ts)
    OBVIOUS
  <2>1. PICK k \in 1 .. n : name \in ToSet(parts[k])
    <3>1. ToSet(parts) = {parts[k] : k \in 1 .. n}
      BY <1>4 DEF ToSet
    <3>2. PICK s \in ToSet(parts) : name \in ToSet(s)
      BY <1>7
    <3> QED
      BY <3>1, <3>2
  <2>2. name \in ToSet(ReferredBy(ts[k])) /\ name \notin Known(ts)
    BY <1>3, <2>1
  <2>3. ts[k] \in ToSet(ts)
    BY <1>1 DEF ToSet
  <2>4. name \in MissedBy(ts)
    BY <2>2, <2>3 DEF MissedBy
  <2> QED
    BY <2>2, <2>4, MissedNames
<1> QED
  BY <1>4, <1>7, <1>8 DEF FirstNames, parts

LEMMA FirstLoadsAre ==
    ASSUME NEW ts, NEW P, Holds(ts, P)
    PROVE  /\ IsLoads(FirstLoads(ts)) /\ NamesOf(FirstLoads(ts)) = FirstNames(ts)
           /\ Separate(FirstLoads(ts))
           /\ \A l \in LoadsIn(FirstLoads(ts)) : l[1] \in Missing(ts) /\ l[1] \in Names /\ l[2] = NoFile
<1>1. /\ FirstParts(ts) \in Seq(Seq(Names)) /\ FirstNames(ts) \in Seq(Names)
      /\ IsInjective(FirstNames(ts)) /\ ToSet(FirstNames(ts)) \subseteq Missing(ts)
  BY FirstNamesFacts
<1>2. FirstLoads(ts) = FlattenSeq(UnopenedAll(FirstParts(ts)))
  <2>1. UnopenedAll(FirstParts(ts)) = [k \in DOMAIN ts |-> Unopened(FirstMissed(ts, k))]
    BY DEF UnopenedAll, FirstParts
  <2> QED
    BY <2>1 DEF FirstLoads, Unopened, FirstMissed, ReferredBefore
<1>3. FirstLoads(ts) = Unopened(FirstNames(ts))
  BY <1>1, <1>2, UnopenedFlat DEF FirstNames
<1>4. \A name \in ToSet(FirstNames(ts)) : name \in Names
  BY <1>1, SeqFacts DEF ToSet
<1> QED
  BY <1>1, <1>3, <1>4, UnopenedFacts DEF Separate
-----------------------------------------------------------------------------
(***************************************************************************)
(* Arrange parses the listed files, and starts the search with the names   *)
(* they miss.                                                              *)
(***************************************************************************)
AllFiles(ts) == FlattenSeq([k \in DOMAIN ts |-> ts[k].files])

LEMMA EachFileOnce ==
    ASSUME NEW ts, NEW P, Holds(ts, P)
    PROVE  IsInjective(AllFiles(ts))
<1> DEFINE parts == [k \in DOMAIN ts |-> ts[k].files]
<1>1. PICK n \in Nat : DOMAIN ts = 1 .. n
  BY SeqFacts DEF Holds
<1>2. parts = [k \in 1 .. n |-> parts[k]] /\ \A k \in 1 .. n : parts[k] = ts[k].files
  BY <1>1
<1> HIDE DEF parts
<1>3. parts \in Seq(Seq(Files)) /\ DOMAIN parts = 1 .. n
  <2>1. \A k \in 1 .. n : parts[k] \in Seq(Files)
    BY <1>1, <1>2 DEF Holds
  <2> QED
    BY <1>2, <2>1
<1>4. Apart(parts)
  BY <1>1, <1>2, <1>3 DEF Apart, Holds
<1>5. IsInjective(FlattenSeq(parts))
  BY <1>3, <1>4, FlattenFacts
<1> QED
  BY <1>5 DEF parts, AllFiles

ParsesListed(names) ==
    /\ trees = <<>> /\ IsInjective(AllFiles(trees'))
    /\ names = FirstNames(trees')
    /\ Pending' = Sift(names, Wanted(trees'))

LEMMA ParsesListedOnce ==
    ASSUME NEW names, ParsesListed(names)
    PROVE  Order!ParseListed
<1> DEFINE bound == LET stack == batch \o worklist
                     IN  Sift([k \in DOMAIN stack |-> stack[k].name], Wanted(trees))
           before(k) == UNION { Order!ToSet(Order!ReferredBy(trees'[j])) : j \in 1 .. k - 1 }
           missed(k) == Order!NewNames(trees'[k], Order!Known(trees') \cup before(k))
           parts == [k \in DOMAIN trees' |-> missed(k)]
<1>1. bound' = Pending'
  BY DEF Pending, Sought, NamesOf, Stack
<1>2. ASSUME NEW k \in DOMAIN trees' PROVE missed(k) = FirstMissed(trees', k)
  <2>1. before(k) = ReferredBefore(trees', k)
    BY SameWords DEF ReferredBefore
  <2> HIDE DEF before
  <2> QED
    BY <2>1, SameWords DEF FirstMissed
<1> HIDE DEF missed
<1>3. parts = FirstParts(trees')
  BY <1>2 DEF FirstParts
<1> HIDE DEF bound, parts
<1>4. /\ trees = <<>>
      /\ Order!IsInjective(Order!FlattenSeq([k \in DOMAIN trees' |-> trees'[k].files]))
      /\ bound' = Order!Sift(Order!FlattenSeq(parts), Order!Wanted(trees'))
  BY <1>1, <1>3, SameWords DEF ParsesListed, AllFiles, FirstNames
<1> QED
  BY <1>4 DEF Order!ParseListed, bound, parts, missed, before

\* Nothing is opened but the listed files and what they include.
LEMMA FirstSound ==
    ASSUME NEW ts, NEW paths, Holds(ts, FilesIn(ts)), paths \cap Readable \subseteq FilesIn(ts)
    PROVE  Sound(LoadsIn(FirstLoads(ts)), ts, paths \cup CachedOf(ts))
<1>1. FilesIn(ts) \subseteq CachedOf(ts)
  BY FilesCached DEF CachedOf
<1>2. \A n \in Names : CanBe(n) \cap (paths \cup CachedOf(ts)) \subseteq CachedOf(ts)
  BY <1>1 DEF CanBe
<1>3. \A l \in LoadsIn(FirstLoads(ts)) : FileSound(l[1], l[2], ts)
  BY FirstLoadsAre DEF FileSound
<1> QED
  BY <1>2, <1>3 DEF Sound

LEMMA NothingSearched ==
    ASSUME NEW ts, NEW names \in Seq(Names), ~Searching
    PROVE  Sift(names, Wanted(ts)) = <<>>
<1>1. ASSUME NEW n \in Names PROVE n \notin Wanted(ts)
  <2>1. Candidates[n] = <<>>
    BY LoaderOK
  <2>2. CanBe(n) = {}
    BY <2>1, EmptyFacts DEF CanBe, ToSet
  <2> QED
    BY <2>2, FoundNone, WantedNames
<1> QED
  BY <1>1, SiftNone, SeqFacts
LEMMA ArrangeInOrder ==
    ASSUME LoadInv, SearchInv, OrderInv, Arrange
    PROVE  OrderInv' /\ Order!ParseListed
<1>1. phase = "arrange" /\ batch' = batch
  BY DEF Arrange
<1>2. trees = <<>> /\ worklist = <<>> /\ batch = <<>>
  BY <1>1 DEF SearchInv, OrderInv, Searched
<1> DEFINE paths == { e.path : e \in ToSet(entries) }
<1>3. PICK libraries \in Orders(Libraries), units \in Orders(Units) :
          /\ trees' = ArrangeTrees(libraries, units)
          /\ cached' = paths \cup CachedOf(trees')
          /\ IF Searching THEN /\ known' = Known(trees') /\ missing' = Missing(trees')
                               /\ worklist' = FirstLoads(trees') /\ phase' = "search"
                          ELSE phase' = "done" /\ worklist' = worklist
  <2>1. PICK ts \in Arrangements :
            /\ trees' = ts
            /\ cached' = paths \cup CachedOf(ts)
            /\ IF Searching THEN /\ known' = Known(ts) /\ missing' = Missing(ts)
                                 /\ worklist' = FirstLoads(ts) /\ phase' = "search"
                            ELSE phase' = "done" /\ worklist' = worklist
    BY DEF Arrange, CachedOf
  <2>2. PICK libraries \in Orders(Libraries), units \in Orders(Units) : ts = ArrangeTrees(libraries, units)
    BY DEF Arrangements
  <2> QED
    BY <2>1, <2>2
<1>4. EntriesOK /\ AllClassified(entries, results)
  BY <1>1 DEF LoadInv, Listed, EntriesOK
<1>5. Holds(trees', Paths(CanRead)) /\ Paths(CanRead) = FilesIn(trees')
  BY <1>3, <1>4, ArrangedHolds, FilesHeld
<1>6. paths \cap Readable \subseteq FilesIn(trees')
  <2> SUFFICES ASSUME NEW f \in paths, f \in Readable PROVE f \in Paths(CanRead)
    BY <1>5
  <2>1. PICK k \in DOMAIN entries : f = entries[k].path
    BY DEF ToSet
  <2> QED
    BY <2>1 DEF Paths, CanRead
<1>7. IsInjective(AllFiles(trees'))
  BY <1>5, EachFileOnce
<1> HIDE DEF paths
<1>8. FirstNames(trees') \in Seq(Names)
  BY <1>5, FirstNamesFacts
<1>9. CASE Searching
  <2>1. /\ phase' = "search" /\ known' = Known(trees') /\ missing' = Missing(trees')
        /\ worklist' = FirstLoads(trees') /\ batch' = <<>>
    BY <1>1, <1>2, <1>3, <1>9
  <2>2. /\ IsLoads(worklist') /\ NamesOf(worklist') = FirstNames(trees') /\ Separate(worklist')
        /\ \A l \in LoadsIn(worklist') : l[2] = NoFile
    BY <1>5, <2>1, FirstLoadsAre
  <2>3. Stack' = worklist'
    <3>1. PICK S : worklist' \in Seq(S)
      BY <2>2 DEF IsLoads
    <3> QED
      BY <2>1, <3>1, ConcatEmptySeq DEF Stack
  <2>4. Pending' = Sift(FirstNames(trees'), Wanted(trees'))
    BY <2>2, <2>3 DEF Pending, Sought
  <2>5. Order!ParseListed
    BY <1>2, <1>7, <2>4, ParsesListedOnce DEF ParsesListed
  <2>6. Sound(LoadsIn(worklist'), trees', cached')
    BY <1>3, <1>5, <1>6, <2>1, FirstSound
  <2>7. ParsedBefore(worklist', cached')
    BY <2>2 DEF ParsedBefore
  <2>8. DOMAIN batch' = {}
    BY <2>1, EmptyFacts
  <2>9. OrderOK'
    BY <2>1, <2>2, <2>3, <2>6, <2>7, <2>8 DEF OrderOK
  <2> QED
    BY <2>1, <2>5, <2>9 DEF OrderInv, Searched
<1>10. CASE ~Searching
  <2>1. phase' = "done" /\ worklist' = <<>> /\ batch' = <<>>
    BY <1>1, <1>2, <1>3, <1>10
  <2>2. Stack' = <<>>
    BY <2>1, EmptyFacts, ConcatEmptySeq DEF Stack
  <2>3. Pending' = <<>>
    BY <2>2, EmptyStack DEF Pending
  <2>4. Sift(FirstNames(trees'), Wanted(trees')) = <<>>
    BY <1>8, <1>10, NothingSearched
  <2>5. Order!ParseListed
    BY <1>2, <1>7, <2>3, <2>4, ParsesListedOnce DEF ParsesListed
  <2>6. OrderInv'
    BY <2>1 DEF OrderInv, Searched
  <2> QED
    BY <2>5, <2>6
<1> QED
  BY <1>9, <1>10

\* Before the search there are neither trees nor missing names.
LEMMA BeforeSearchInOrder ==
    ASSUME OrderInv, UNCHANGED <<trees, batch, worklist>>, phase \notin Searched, phase' \notin Searched
    PROVE  OrderInv' /\ trees' = trees /\ Pending' = Pending
<1>1. OrderInv'
  BY DEF OrderInv, Searched
<1>2. Stack' = Stack
  BY DEF Stack
<1> QED
  BY <1>1, <1>2 DEF Pending

\* Steps that only take loadTrees from one phase to the next.
LEMMA PhaseInOrder ==
    ASSUME OrderInv, UNCHANGED <<trees, cached, known, missing, worklist, batch>>,
           phase \in Searched, phase' \in Searched,
           phase # "done" \/ phase' = "done",
           phase' = "search" => phase = "search",
           phase' \in {"batch", "commit"} => phase \in {"batch", "commit"},
           phase' # "search" => Workers # {} \/ phase' = "done",
           phase' = "commit" => \A k \in DOMAIN batch : batch[k].parsed \/ batch[k].file = NoFile
    PROVE  OrderInv' /\ trees' = trees /\ Pending' = Pending
<1>1. Stack' = Stack
  BY DEF Stack
<1>2. Pending' = Pending
  BY <1>1 DEF Pending
<1>3. CASE phase' = "done"
  BY <1>2, <1>3 DEF OrderInv, Searched
<1>4. CASE phase' # "done"
  <2>1. OrderOK
    BY <1>4 DEF OrderInv
  <2>2. OrderOK'
    BY <1>1, <1>4, <2>1 DEF OrderOK
  <2> QED
    BY <1>2, <2>2 DEF OrderInv
<1> QED
  BY <1>3, <1>4

LEMMA NextInOrder ==
    ASSUME Independent
    PROVE  LoadInv /\ SearchInv /\ OrderInv /\ [Next]_vars =>
               OrderInv' /\ ((trees' = trees /\ Pending' = Pending)
                             \/ Order!ParseListed \/ Order!ParseMissing)
<1> SUFFICES ASSUME LoadInv, SearchInv, OrderInv, [Next]_vars
             PROVE  OrderInv' /\ ((trees' = trees /\ Pending' = Pending)
                                  \/ Order!ParseListed \/ Order!ParseMissing)
  OBVIOUS
<1>1. CASE \/ AddFiles \/ AddLibraryMaps \/ LoadSources \/ StartThreaded \/ StartSequential
           \/ \E w \in Workers : BeginLoad(w) \/ EndAppend(w) \/ LoadAndParse(w)
           \/ WaitForLoads
  <2>1. /\ phase \notin Searched /\ phase' \notin Searched
        /\ UNCHANGED <<trees, batch, worklist>>
    BY <1>1 DEF AddFiles, AddLibraryMaps, LoadSources, StartThreaded, StartSequential, BeginLoad,
                EndAppend, LoadAndParse, WaitForLoads, searchVars, Searched
  <2> QED
    BY <2>1, BeforeSearchInOrder
<1>2. CASE Arrange
  BY <1>2, ArrangeInOrder
<1>3. CASE SearchOne \/ FindNext \/ ParseFound \/ Commit
  <2>1. phase \in Searched \ {"done"} /\ phase' \in Searched
    BY <1>3 DEF SearchOne, FindNext, ParseFound, Commit, Searched
  <2>2. OrderOK
    BY <2>1 DEF OrderInv
  <2>3. OrderOK' /\ ((trees' = trees /\ Pending' = Pending) \/ Order!ParseMissing)
    BY <1>3, <2>2, SearchOneInOrder, FindNextInOrder, ParseFoundInOrder, CommitInOrder
  <2>4. OrderInv'
    BY <2>1, <2>3 DEF OrderInv
  <2> QED
    BY <2>3, <2>4
<1>4. CASE StartBatch
  <2>1. /\ phase = "search" /\ phase' = "find" /\ Workers # {}
        /\ UNCHANGED <<trees, cached, known, missing, worklist, batch>>
    BY <1>4 DEF StartBatch, searchVars
  <2> QED
    BY <2>1, PhaseInOrder DEF Searched
<1>5. CASE WaitForBatch
  <2>1. /\ phase = "batch" /\ phase' = "commit"
        /\ UNCHANGED <<trees, cached, known, missing, worklist, batch>>
        /\ \A k \in DOMAIN batch : batch[k].parsed \/ batch[k].file = NoFile
    BY <1>5 DEF WaitForBatch, searchVars
  <2>2. Workers # {}
    BY <2>1 DEF OrderInv, OrderOK, Searched
  <2> QED
    BY <2>1, <2>2, PhaseInOrder DEF Searched
<1>6. CASE FinishSearch
  <2>1. /\ phase = "search" /\ phase' = "done"
        /\ UNCHANGED <<trees, cached, known, missing, worklist, batch>>
    BY <1>6 DEF FinishSearch, searchVars
  <2> QED
    BY <2>1, PhaseInOrder DEF Searched
<1>7. CASE Terminated \/ UNCHANGED vars
  <2>1. UNCHANGED vars
    BY <1>7 DEF Terminated
  <2>2. UNCHANGED <<trees, cached, known, missing, worklist, batch, phase>>
    BY <2>1 DEF vars
  <2>3. Stack' = Stack
    BY <2>2 DEF Stack
  <2>4. Pending' = Pending
    BY <2>2, <2>3 DEF Pending
  <2>5. OrderOK => OrderOK'
    BY <2>2, <2>3 DEF OrderOK
  <2> QED
    BY <2>2, <2>4, <2>5 DEF OrderInv
<1> QED
  BY <1>1, <1>2, <1>3, <1>4, <1>5, <1>6, <1>7 DEF Next, Work

LEMMA InitInOrder == Init => OrderInv /\ Order!OrderInit
<1> SUFFICES ASSUME Init PROVE OrderInv /\ Order!OrderInit
  OBVIOUS
<1>1. trees = <<>> /\ batch = <<>> /\ worklist = <<>> /\ phase \notin Searched
  BY DEF Init, Searched
<1>2. Stack = <<>>
  BY <1>1, EmptyFacts, ConcatEmptySeq DEF Stack
<1>3. Pending = <<>>
  BY <1>2, EmptyStack DEF Pending
<1>4. OrderInv
  BY <1>1 DEF OrderInv, Searched
<1> QED
  BY <1>1, <1>3, <1>4 DEF Order!OrderInit, Pending, Sought, NamesOf, Stack

(***************************************************************************)
(* With any number of threads the trees come out as one thread would       *)
(* produce them, in the same order: loadTrees with its batches implements  *)
(* LoadOrder.  If a file could be found for two names, or a file found     *)
(* included another, opening the files of a batch early could change what  *)
(* is found; one thread needs no such hypothesis.                          *)
(***************************************************************************)
THEOREM OneThreadsTrees == ASSUME Independent PROVE Spec => LoadsInOrder
<1>1. Init => OrderInv /\ Order!OrderInit
  BY InitInOrder
<1>2. LoadInv /\ SearchInv /\ OrderInv /\ [Next]_vars => OrderInv'
  BY NextInOrder
<1>3. LoadInv /\ SearchInv /\ OrderInv /\ [Next]_vars =>
          [Order!ParseListed \/ Order!ParseMissing]_(Order!orderVars)
  BY NextInOrder, OrderState
<1> QED
  BY <1>1, <1>2, <1>3, LoadInvariant, SearchInvariant, PTL DEF Spec, LoadsInOrder, Order!OrderSpec
===============================================================================
