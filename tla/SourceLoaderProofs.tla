--------------------------- MODULE SourceLoaderProofs ---------------------------
(***************************************************************************)
(* Proofs about SourceLoader, for any number of threads, calls, library    *)
(* maps, files and names: ties between libraries that are reported, and    *)
(* the files of the trees.                                                 *)
(***************************************************************************)
EXTENDS SourceLoader, FiniteSetTheorems, SequenceTheorems, WellFoundedInduction, TLAPS

(***************************************************************************)
(* What holds of 0 and passes from each number below n to the next holds   *)
(* up to n.                                                                *)
(***************************************************************************)
LEMMA CountUp ==
    ASSUME NEW n \in Nat, NEW S, 0 \in S, \A k \in Nat : k < n /\ k \in S => k + 1 \in S
    PROVE  \A k \in 0 .. n : k \in S
<1> DEFINE R == {ss \in Nat \X Nat : ss[1] < ss[2]}
           Missed == {k \in 0 .. n : k \notin S}
<1> SUFFICES ASSUME Missed # {} PROVE FALSE
  OBVIOUS
<1>1. IsWellFoundedOn(R, Nat)
  BY NatLessThanWellFounded DEF OpToRel
<1>2. Missed \subseteq Nat
  OBVIOUS
<1>3. PICK k \in Missed : \A j \in Missed : ~(<<j, k>> \in R)
  <2> HIDE DEF R, Missed
  <2> QED
    BY <1>1, <1>2, WFMin
<1>4. k \in Nat /\ k # 0 /\ k - 1 \in Nat /\ k - 1 < n /\ k - 1 \in 0 .. n
  BY <1>3
<1>5. k - 1 \notin S
  <2>1. k - 1 + 1 = k
    BY <1>4
  <2> QED
    BY <1>3, <1>4, <2>1
<1>6. k - 1 \in Missed /\ <<k - 1, k>> \in R
  BY <1>4, <1>5
<1> QED
  BY <1>3, <1>6
-----------------------------------------------------------------------------
(***************************************************************************)
(* Sequences: the elements of a concatenation, and when they are distinct. *)
(***************************************************************************)
LEMMA SeqFacts ==
    ASSUME NEW S, NEW s \in Seq(S)
    PROVE  /\ Len(s) \in Nat /\ DOMAIN s = 1 .. Len(s)
           /\ \A k \in 1 .. Len(s) : s[k] \in S
           /\ ToSet(s) = {s[k] : k \in 1 .. Len(s)} /\ ToSet(s) \subseteq S
           /\ s \in Seq(ToSet(s))
<1>1. /\ Len(s) \in Nat /\ DOMAIN s = 1 .. Len(s)
      /\ \A k \in 1 .. Len(s) : s[k] \in S
  BY LenProperties
<1>2. ToSet(s) = {s[k] : k \in 1 .. Len(s)}
  BY <1>1 DEF ToSet
<1>3. \A k \in 1 .. Len(s) : s[k] \in ToSet(s)
  BY <1>2
<1>4. s \in [1 .. Len(s) -> ToSet(s)]
  BY <1>1, <1>3, LenProperties
<1>5. s \in Seq(ToSet(s))
  BY <1>1, <1>4
<1>6. ToSet(s) \subseteq S
  BY <1>1, <1>2
<1> QED
  BY <1>1, <1>2, <1>5, <1>6

LEMMA JoinedFacts ==
    ASSUME NEW S, NEW a \in Seq(S), NEW b \in Seq(S)
    PROVE  /\ a \o b \in Seq(S)
           /\ ToSet(a \o b) = ToSet(a) \cup ToSet(b)
           /\ IsInjective(a) /\ IsInjective(b) /\ ToSet(a) \cap ToSet(b) = {}
                  => IsInjective(a \o b)
<1>1. /\ Len(a) \in Nat /\ Len(b) \in Nat
      /\ a \o b \in Seq(S) /\ Len(a \o b) = Len(a) + Len(b)
      /\ \A i \in 1 .. Len(a) + Len(b) : (a \o b)[i] = IF i <= Len(a) THEN a[i] ELSE b[i - Len(a)]
  BY ConcatProperties, SeqFacts
<1>2. ToSet(a) = {a[k] : k \in 1 .. Len(a)} /\ ToSet(b) = {b[k] : k \in 1 .. Len(b)}
  BY SeqFacts
<1>3. /\ DOMAIN (a \o b) = 1 .. Len(a) + Len(b)
      /\ ToSet(a \o b) = {(a \o b)[k] : k \in 1 .. Len(a) + Len(b)}
      /\ DOMAIN a = 1 .. Len(a) /\ DOMAIN b = 1 .. Len(b)
  BY <1>1, SeqFacts
<1> DEFINE ab == a \o b
           n == Len(a)
           m == Len(b)
<1>4. n \in Nat /\ m \in Nat /\ \A i \in 1 .. n + m : ab[i] = IF i <= n THEN a[i] ELSE b[i - n]
  BY <1>1
<1>5. /\ ToSet(ab) = {ab[k] : k \in 1 .. n + m} /\ ToSet(a) = {a[k] : k \in 1 .. n}
      /\ ToSet(b) = {b[k] : k \in 1 .. m}
      /\ DOMAIN ab = 1 .. n + m /\ DOMAIN a = 1 .. n /\ DOMAIN b = 1 .. m
  BY <1>2, <1>3
<1> HIDE DEF ab, n, m
<1>6. ASSUME NEW x \in ToSet(ab) PROVE x \in ToSet(a) \cup ToSet(b)
  <2>1. PICK i \in 1 .. n + m : x = ab[i]
    BY <1>5
  <2>2. CASE i <= n
    BY <1>4, <1>5, <2>1, <2>2
  <2>3. CASE ~(i <= n)
    <3>1. i - n \in 1 .. m
      BY <1>4, <2>3
    <3> QED
      BY <1>4, <1>5, <2>1, <2>3, <3>1
  <2> QED
    BY <2>2, <2>3
<1>7. ASSUME NEW x \in ToSet(a) PROVE x \in ToSet(ab)
  <2>1. PICK i \in 1 .. n : x = a[i]
    BY <1>5
  <2>2. i \in 1 .. n + m /\ i <= n
    BY <1>4
  <2> QED
    BY <1>4, <1>5, <2>1, <2>2
<1>8. ASSUME NEW x \in ToSet(b) PROVE x \in ToSet(ab)
  <2>1. PICK i \in 1 .. m : x = b[i]
    BY <1>5
  <2>2. n + i \in 1 .. n + m /\ ~(n + i <= n) /\ n + i - n = i
    BY <1>4
  <2> QED
    BY <1>4, <1>5, <2>1, <2>2
<1>9. ASSUME IsInjective(a), IsInjective(b), ToSet(a) \cap ToSet(b) = {}
      PROVE  IsInjective(ab)
  <2> SUFFICES ASSUME NEW i \in 1 .. n + m, NEW j \in 1 .. n + m, ab[i] = ab[j], i # j
               PROVE  FALSE
    BY <1>5 DEF IsInjective
  <2>1. ASSUME NEW k \in 1 .. n + m
        PROVE  \/ k \in 1 .. n /\ ab[k] = a[k] /\ ab[k] \in ToSet(a)
               \/ k - n \in 1 .. m /\ ab[k] = b[k - n] /\ ab[k] \in ToSet(b)
    <3>1. k \in 1 .. n \/ k - n \in 1 .. m
      BY <1>4
    <3>2. k \in 1 .. n => k <= n
      BY <1>4
    <3>3. k - n \in 1 .. m => ~(k <= n)
      BY <1>4
    <3> QED
      BY <1>4, <1>5, <3>1, <3>2, <3>3
  <2>2. i - n # j - n
    BY <1>4
  <2> QED
    BY <1>5, <1>9, <2>1, <2>2 DEF IsInjective
<1> QED
  BY <1>1, <1>6, <1>7, <1>8, <1>9 DEF ab

LEMMA AppendedSet ==
    ASSUME NEW S, NEW s \in Seq(S), NEW e
    PROVE  ToSet(Append(s, e)) = ToSet(s) \cup {e}
<1> DEFINE one == <<e>>
<1>1. s \in Seq(S \cup {e}) /\ e \in S \cup {e} /\ one \in Seq(S \cup {e})
  BY SeqMonotonic
<1>2. Append(s, e) = s \o one
  BY <1>1, AppendIsConcat
<1>3. ToSet(one) = {e}
  <2>1. one \in Seq({e}) /\ Len(one) = 1 /\ one[1] = e
    OBVIOUS
  <2>2. ToSet(one) = {one[k] : k \in 1 .. 1}
    BY <2>1, SeqFacts
  <2> QED
    BY <2>1, <2>2
<1> HIDE DEF one
<1>4. ToSet(s \o one) = ToSet(s) \cup ToSet(one)
  BY <1>1, JoinedFacts
<1> QED
  BY <1>2, <1>3, <1>4

LEMMA AppendFacts ==
    ASSUME NEW S, NEW s \in Seq(S), NEW e
    PROVE  /\ Append(s, e) \in Seq(S \cup {e})
           /\ Append(s, e) = s \o <<e>>
           /\ Len(Append(s, e)) = Len(s) + 1
           /\ \A k \in 1 .. Len(s) : Append(s, e)[k] = s[k]
           /\ Append(s, e)[Len(s) + 1] = e
<1>1. s \in Seq(S \cup {e}) /\ e \in S \cup {e} /\ <<e>> \in Seq(S \cup {e})
  BY SeqMonotonic
<1>2. Append(s, e) = s \o <<e>>
  BY <1>1, AppendIsConcat
<1> QED
  BY <1>1, <1>2, AppendProperties, LenProperties

\* The sequence of the values of a function on 1 .. n.
LEMMA MadeSeq ==
    ASSUME NEW n \in Nat, NEW f, f = [k \in 1 .. n |-> f[k]]
    PROVE  /\ f \in Seq({f[k] : k \in 1 .. n}) /\ Len(f) = n /\ DOMAIN f = 1 .. n
           /\ ToSet(f) = {f[k] : k \in 1 .. n}
<1>1. f \in [1 .. n -> {f[k] : k \in 1 .. n}] /\ DOMAIN f = 1 .. n
  BY Zenon
<1>2. f \in Seq({f[k] : k \in 1 .. n}) /\ Len(f) = n
  BY <1>1
<1> QED
  BY <1>1, <1>2 DEF ToSet
-----------------------------------------------------------------------------
(***************************************************************************)
(* FlattenSeq: all elements of all sequences.                              *)
(***************************************************************************)
Flattened(f, seqs, i) == IF i = 1 THEN seqs[i] ELSE f[i - 1] \o seqs[i]

IsFlat(f, seqs) == f = [i \in 1 .. Len(seqs) |-> Flattened(f, seqs, i)]

LEMMA FlattenedOn ==
    ASSUME NEW f, NEW seqs, NEW i, i # 1
    PROVE  Flattened(f, seqs, i) = f[i - 1] \o seqs[i]
  BY DEF Flattened

LEMMA FlattenIsFlat ==
    ASSUME NEW seqs, Len(seqs) # 0
    PROVE  FlattenSeq(seqs) = (CHOOSE f : IsFlat(f, seqs))[Len(seqs)]
  BY DEF FlattenSeq, IsFlat, Flattened

LEMMA FlatExists ==
    ASSUME NEW seqs, Len(seqs) \in Nat
    PROVE  \E f : IsFlat(f, seqs)
<1> DEFINE S == {k \in Nat : \E f : f = [i \in 1 .. k |-> Flattened(f, seqs, i)]}
<1>1. 0 \in S
  <2> DEFINE f == [i \in 1 .. 0 |-> seqs[i]]
  <2>1. 1 .. 0 = {}
    OBVIOUS
  <2>2. f = [i \in 1 .. 0 |-> Flattened(f, seqs, i)]
    BY <2>1
  <2> HIDE DEF f
  <2> QED
    BY <2>2
<1>2. ASSUME NEW k \in Nat, k \in S PROVE k + 1 \in S
  <2>1. PICK g : g = [i \in 1 .. k |-> Flattened(g, seqs, i)]
    BY <1>2
  <2> DEFINE f == [i \in 1 .. k + 1 |-> Flattened(g, seqs, i)]
  <2>2. \A i \in 1 .. k : f[i] = g[i]
    <3>1. \A i \in 1 .. k : i \in 1 .. k + 1
      OBVIOUS
    <3> QED
      BY <2>1, <3>1
  <2>3. ASSUME NEW i \in 1 .. k + 1 PROVE Flattened(f, seqs, i) = Flattened(g, seqs, i)
    <3>1. CASE i = 1
      BY <3>1 DEF Flattened
    <3>2. CASE i # 1
      <4>1. i - 1 \in 1 .. k
        BY <3>2
      <4>2. f[i - 1] = g[i - 1]
        BY <2>2, <4>1
      <4> HIDE DEF f
      <4> QED
        BY <4>2 DEF Flattened
    <3> QED
      BY <3>1, <3>2
  <2>4. f = [i \in 1 .. k + 1 |-> Flattened(f, seqs, i)]
    BY <2>3
  <2> HIDE DEF f
  <2> QED
    BY <2>4
<1>3. Len(seqs) \in S
  <2>1. Len(seqs) \in 0 .. Len(seqs)
    OBVIOUS
  <2> HIDE DEF S
  <2> QED
    BY <1>1, <1>2, <2>1, CountUp
<1> QED
  BY <1>3 DEF IsFlat

\* The elements of the first n sequences.
Elements(seqs, n) == UNION {ToSet(seqs[k]) : k \in 1 .. n}

\* None of the sequences has an element twice or one of another sequence.
Apart(seqs) ==
    \A k \in DOMAIN seqs :
        /\ IsInjective(seqs[k])
        /\ \A j \in DOMAIN seqs : j # k => ToSet(seqs[j]) \cap ToSet(seqs[k]) = {}

LEMMA FlattenFacts ==
    ASSUME NEW S, NEW seqs \in Seq(Seq(S))
    PROVE  /\ FlattenSeq(seqs) \in Seq(S)
           /\ ToSet(FlattenSeq(seqs)) = UNION {ToSet(s) : s \in ToSet(seqs)}
           /\ Apart(seqs) => IsInjective(FlattenSeq(seqs))
<1> DEFINE n == Len(seqs)
<1>1. /\ n \in Nat /\ DOMAIN seqs = 1 .. n /\ ToSet(seqs) = {seqs[k] : k \in 1 .. n}
      /\ \A k \in 1 .. n : seqs[k] \in Seq(S)
  BY SeqFacts
<1>2. Elements(seqs, n) = UNION {ToSet(s) : s \in ToSet(seqs)}
  BY <1>1 DEF Elements
<1>3. CASE n = 0
  <2>1. seqs = <<>>
    BY <1>3
  <2>2. FlattenSeq(seqs) = <<>>
    BY <1>3, <2>1 DEF FlattenSeq
  <2>3. <<>> \in Seq(S) /\ ToSet(<<>>) = {} /\ IsInjective(<<>>)
    BY DEF ToSet, IsInjective
  <2>4. Elements(seqs, n) = {}
    BY <1>3 DEF Elements
  <2> QED
    BY <1>2, <2>2, <2>3, <2>4
<1>4. CASE n # 0
  <2> DEFINE f == CHOOSE g : IsFlat(g, seqs)
             Right(k) == /\ f[k] \in Seq(S)
                         /\ ToSet(f[k]) = Elements(seqs, k)
                         /\ Apart(seqs) => IsInjective(f[k])
             P == {0} \cup {k \in 1 .. n : Right(k)}
  <2>1. IsFlat(f, seqs) /\ FlattenSeq(seqs) = f[n]
    BY <1>1, <1>4, FlatExists, FlattenIsFlat
  <2> HIDE DEF f
  <2>2. \A k \in 1 .. n : f[k] = Flattened(f, seqs, k)
    BY <2>1 DEF IsFlat
  <2>3. ASSUME NEW k \in Nat, k < n, k \in P PROVE k + 1 \in P
    <3>1. k + 1 \in 1 .. n /\ seqs[k + 1] \in Seq(S)
      BY <1>1, <2>3
    <3>2. ToSet(seqs[k + 1]) \cup Elements(seqs, k) = Elements(seqs, k + 1)
      <4>1. 1 .. k + 1 = (1 .. k) \cup {k + 1}
        OBVIOUS
      <4> QED
        BY <4>1 DEF Elements
    <3>3. CASE k = 0
      <4>1. f[k + 1] = seqs[k + 1]
        BY <2>2, <3>1, <3>3 DEF Flattened
      <4>2. Elements(seqs, k) = {}
        BY <3>3 DEF Elements
      <4>3. Apart(seqs) => IsInjective(seqs[k + 1])
        BY <1>1, <3>1 DEF Apart
      <4> QED
        BY <3>1, <3>2, <4>1, <4>2, <4>3
    <3>4. CASE k # 0
      <4>1. k + 1 # 1 /\ k + 1 - 1 = k /\ k \in 1 .. n
        BY <1>1, <2>3, <3>4
      <4>2. f[k + 1] = f[k] \o seqs[k + 1]
        <5>1. f[k + 1] = Flattened(f, seqs, k + 1)
          BY <2>2, <3>1
        <5>2. PICK j : j = k + 1
          OBVIOUS
        <5>3. j # 1 /\ j - 1 = k
          BY <4>1, <5>2
        <5>4. Flattened(f, seqs, j) = f[j - 1] \o seqs[j]
          BY <5>3, FlattenedOn
        <5> QED
          BY <5>1, <5>2, <5>3, <5>4
      <4>3. Right(k)
        BY <2>3, <3>4
      <4>4. Apart(seqs) => /\ IsInjective(seqs[k + 1])
                           /\ Elements(seqs, k) \cap ToSet(seqs[k + 1]) = {}
        <5>1. \A j \in 1 .. k : j \in 1 .. n /\ j # k + 1
          BY <1>1, <3>1
        <5> QED
          BY <1>1, <3>1, <5>1 DEF Apart, Elements
      <4>5. /\ f[k + 1] \in Seq(S)
            /\ ToSet(f[k + 1]) = ToSet(f[k]) \cup ToSet(seqs[k + 1])
            /\ Apart(seqs) => IsInjective(f[k + 1])
        BY <3>1, <4>2, <4>3, <4>4, JoinedFacts
      <4>6. ToSet(f[k + 1]) = Elements(seqs, k + 1)
        BY <3>2, <4>3, <4>5
      <4> QED
        BY <3>1, <4>5, <4>6
    <3> QED
      BY <3>3, <3>4
  <2>4. n \in P
    <3>1. 0 \in P /\ n \in 0 .. n
      BY <1>1
    <3> HIDE DEF P, n
    <3> QED
      BY <1>1, <2>3, <3>1, CountUp
  <2>5. Right(n)
    BY <1>4, <2>4
  <2> QED
    BY <1>2, <2>1, <2>5
<1> QED
  BY <1>3, <1>4
-----------------------------------------------------------------------------
(***************************************************************************)
(* FoldLeft over the files of a pattern or the members of a library map:   *)
(* one step after the other, from the first to the last.                   *)
(***************************************************************************)
LEMMA GreatestIndex ==
    ASSUME NEW n \in Nat, NEW s \in SUBSET (1 .. n), s # {}
    PROVE  Max(s) \in s /\ \A j \in s : Max(s) >= j
<1> DEFINE P == {k \in Nat : s \cap (1 .. k) # {} =>
                                 \E m \in s \cap (1 .. k) : \A j \in s \cap (1 .. k) : m >= j}
<1>1. 0 \in P
  OBVIOUS
<1>2. ASSUME NEW k \in Nat, k \in P PROVE k + 1 \in P
  <2>1. 1 .. k + 1 = (1 .. k) \cup {k + 1} /\ \A j \in 1 .. k + 1 : k + 1 >= j
    OBVIOUS
  <2>2. CASE k + 1 \in s
    BY <2>1, <2>2
  <2>3. CASE k + 1 \notin s
    <3>1. s \cap (1 .. k + 1) = s \cap (1 .. k)
      BY <2>1, <2>3
    <3>2. k + 1 \in Nat
      OBVIOUS
    <3> QED
      BY <1>2, <3>1, <3>2
  <2> QED
    BY <2>2, <2>3
<1>3. n \in P
  <2>1. n \in 0 .. n
    OBVIOUS
  <2> HIDE DEF P
  <2> QED
    BY <1>1, <1>2, <2>1, CountUp
<1>4. s \cap (1 .. n) = s
  OBVIOUS
<1>5. PICK m \in s : \A j \in s : m >= j
  BY <1>3, <1>4
<1> QED
  BY <1>5 DEF Max

LEMMA IntervalTop ==
    ASSUME NEW k \in Nat
    PROVE  /\ Max(1 .. k + 1) = k + 1
           /\ (1 .. k + 1) \ {k + 1} = 1 .. k
           /\ 1 .. k + 1 # {}
<1>1. 1 .. k + 1 # {} /\ k + 1 \in 1 .. k + 1 /\ (1 .. k + 1) \ {k + 1} = 1 .. k /\ k + 1 \in Nat
  OBVIOUS
<1>2. Max(1 .. k + 1) \in 1 .. k + 1 /\ \A j \in 1 .. k + 1 : Max(1 .. k + 1) >= j
  BY <1>1, GreatestIndex
<1> QED
  BY <1>1, <1>2

AddMember(list, member) ==
    IF member.kind = "recursive" THEN [list EXCEPT !.errors = Append(@, member)]
    ELSE AddFilesInternal(list, member.call)

\* A step of one of the two folds.
Added(list, x) ==
    IF x.over = "files" THEN AddPath(list, x.path, x.call, x.rank) ELSE AddMember(list, x.member)

Folded(it, s, list, xs) ==
    IF s = {} THEN list ELSE Added(it[s \ {Max(s)}], xs[Max(s)])

IsFold(it, n, list, xs) == it = [s \in SUBSET (1 .. n) |-> Folded(it, s, list, xs)]

LEMMA FoldExists ==
    ASSUME NEW n \in Nat, NEW list, NEW xs
    PROVE  \E it : IsFold(it, n, list, xs)
<1> DEFINE P == {k \in Nat : \E it : it = [s \in SUBSET (1 .. k) |-> Folded(it, s, list, xs)]}
<1>1. 0 \in P
  <2> DEFINE it == [s \in SUBSET (1 .. 0) |-> list]
  <2>1. \A s \in SUBSET (1 .. 0) : s = {}
    OBVIOUS
  <2>2. it = [s \in SUBSET (1 .. 0) |-> Folded(it, s, list, xs)]
    BY <2>1 DEF Folded
  <2> HIDE DEF it
  <2> QED
    BY <2>2
<1>2. ASSUME NEW k \in Nat, k \in P PROVE k + 1 \in P
  <2>1. PICK g : g = [s \in SUBSET (1 .. k) |-> Folded(g, s, list, xs)]
    BY <1>2
  <2> DEFINE it == [s \in SUBSET (1 .. k + 1) |-> Folded(g, s, list, xs)]
  <2>2. \A s \in SUBSET (1 .. k) : it[s] = g[s]
    <3>1. \A s \in SUBSET (1 .. k) : s \in SUBSET (1 .. k + 1)
      OBVIOUS
    <3> QED
      BY <2>1, <3>1
  <2>3. ASSUME NEW s \in SUBSET (1 .. k + 1)
        PROVE  Folded(it, s, list, xs) = Folded(g, s, list, xs)
    <3>1. CASE s = {}
      BY <3>1 DEF Folded
    <3>2. CASE s # {}
      <4>1. Max(s) \in s /\ \A j \in s : Max(s) >= j
        <5>1. PICK m \in Nat : m = k + 1
          OBVIOUS
        <5>2. s \in SUBSET (1 .. m)
          BY <5>1
        <5> QED
          BY <3>2, <5>2, GreatestIndex
      <4>2. s \ {Max(s)} \in SUBSET (1 .. k)
        <5>1. PICK top : top = Max(s)
          OBVIOUS
        <5>2. \A j \in s : j \in 1 .. k + 1 /\ top >= j
          BY <4>1, <5>1
        <5>3. top \in 1 .. k + 1
          BY <4>1, <5>1, <5>2
        <5>4. ASSUME NEW j \in s, j # top PROVE j \in 1 .. k
          <6>1. j \in 1 .. k + 1 /\ top >= j
            BY <5>2
          <6> QED
            BY <5>3, <5>4, <6>1
        <5> QED
          BY <5>1, <5>4
      <4>3. it[s \ {Max(s)}] = g[s \ {Max(s)}]
        BY <2>2, <4>2
      <4> HIDE DEF it
      <4> QED
        BY <4>3 DEF Folded
    <3> QED
      BY <3>1, <3>2
  <2>4. it = [s \in SUBSET (1 .. k + 1) |-> Folded(it, s, list, xs)]
    BY <2>3
  <2> HIDE DEF it
  <2> QED
    BY <2>4
<1>3. n \in 0 .. n
  OBVIOUS
<1> HIDE DEF P
<1>4. n \in P
  BY <1>1, <1>2, <1>3, CountUp
<1> QED
  BY <1>4 DEF P, IsFold

\* The steps of a fold, from its base to its result.
IsTrace(trace, n, list, xs, result) ==
    /\ trace[0] = list /\ trace[n] = result
    /\ \A k \in 0 .. n - 1 : trace[k + 1] = Added(trace[k], xs[k + 1])

LEMMA FoldUnrolls ==
    ASSUME NEW n \in Nat, NEW list, NEW xs, NEW it, IsFold(it, n, list, xs)
    PROVE  \E trace : IsTrace(trace, n, list, xs, it[1 .. n])
<1> DEFINE trace == [k \in 0 .. n |-> it[1 .. k]]
<1>1. \A k \in 0 .. n : trace[k] = it[1 .. k] /\ 1 .. k \in SUBSET (1 .. n)
  OBVIOUS
<1>2. 1 .. 0 = {} /\ 0 \in 0 .. n /\ n \in 0 .. n
  OBVIOUS
<1> HIDE DEF trace
<1>3. trace[0] = list
  BY <1>1, <1>2 DEF Folded, IsFold
<1>4. ASSUME NEW k \in 0 .. n - 1 PROVE trace[k + 1] = Added(trace[k], xs[k + 1])
  <2>1. k \in Nat /\ k \in 0 .. n /\ k + 1 \in 0 .. n
    OBVIOUS
  <2>2. it[1 .. k + 1] = Folded(it, 1 .. k + 1, list, xs)
    BY <1>1, <2>1 DEF IsFold
  <2>3. it[1 .. k + 1] = Added(it[1 .. k], xs[k + 1])
    BY <2>1, <2>2, IntervalTop DEF Folded
  <2> QED
    BY <1>1, <2>1, <2>3
<1> QED
  BY <1>1, <1>2, <1>3, <1>4 DEF IsTrace
FilesAdded(list, files, call, rank) ==
    FoldLeft(LAMBDA l, path : AddPath(l, path, call, rank), list, files)

FilesTrace(trace, n, files, call, rank) ==
    \A k \in 0 .. n - 1 : trace[k + 1] = AddPath(trace[k], files[k + 1], call, rank)

LEMMA FilesUnroll ==
    ASSUME NEW F, NEW files \in Seq(F), NEW list, NEW call, NEW rank
    PROVE  \E trace : /\ trace[0] = list
                      /\ trace[Len(files)] = FilesAdded(list, files, call, rank)
                      /\ FilesTrace(trace, Len(files), files, call, rank)
<1> DEFINE n == Len(files)
           x(k) == [over |-> "files", path |-> files[k], call |-> call, rank |-> rank]
           xs == [k \in 1 .. n |-> x(k)]
           Step(it, s) == IF s = {} THEN list
                          ELSE AddPath(it[s \ {Max(s)}], files[Max(s)], call, rank)
           fold == CHOOSE it : it = [s \in SUBSET DOMAIN files |-> Step(it, s)]
<1>1. FilesAdded(list, files, call, rank) = fold[DOMAIN files]
  BY DEF FilesAdded, FoldLeft, MapThenFoldSet
<1>2. n \in Nat /\ DOMAIN files = 1 .. n
  BY SeqFacts
<1>3. ASSUME NEW k \in 1 .. n, NEW l PROVE Added(l, xs[k]) = AddPath(l, files[k], call, rank)
  <2>1. xs[k] = x(k)
    OBVIOUS
  <2> QED
    BY <2>1 DEF Added
<1> HIDE DEF xs, n
<1>4. ASSUME NEW it, NEW s \in SUBSET (1 .. n) PROVE Step(it, s) = Folded(it, s, list, xs)
  <2>1. CASE s = {}
    BY <2>1 DEF Folded
  <2>2. CASE s # {}
    <3>1. Max(s) \in s
      BY <1>2, <2>2, GreatestIndex
    <3>2. Max(s) \in 1 .. n
      BY <3>1
    <3> QED
      BY <1>3, <2>2, <3>2 DEF Folded
  <2> QED
    BY <2>1, <2>2
<1> HIDE DEF Step
<1>5. PICK it : IsFold(it, n, list, xs)
  BY <1>2, FoldExists
<1>6. it = [s \in SUBSET DOMAIN files |-> Step(it, s)]
  BY <1>2, <1>4, <1>5 DEF IsFold
<1>7. fold = [s \in SUBSET DOMAIN files |-> Step(fold, s)]
  BY <1>6
<1> HIDE DEF fold
<1>8. IsFold(fold, n, list, xs)
  BY <1>2, <1>4, <1>7 DEF IsFold
<1>9. PICK trace : IsTrace(trace, n, list, xs, fold[1 .. n])
  BY <1>2, <1>8, FoldUnrolls
<1>10. ASSUME NEW k \in 0 .. n - 1 PROVE trace[k + 1] = AddPath(trace[k], files[k + 1], call, rank)
  <2>1. k + 1 \in 1 .. n
    BY <1>2
  <2>2. trace[k + 1] = Added(trace[k], xs[k + 1])
    BY <1>9 DEF IsTrace
  <2> QED
    BY <1>3, <2>1, <2>2
<1>11. trace[0] = list /\ trace[n] = fold[1 .. n]
  BY <1>9 DEF IsTrace
<1>12. /\ trace[0] = list
       /\ trace[n] = FilesAdded(list, files, call, rank)
       /\ FilesTrace(trace, n, files, call, rank)
  BY <1>1, <1>2, <1>10, <1>11 DEF FilesTrace
<1> QED
  BY <1>12 DEF n

MembersAdded(list, members) == FoldLeft(AddMember, list, members)

MembersTrace(trace, n, members) ==
    \A k \in 0 .. n - 1 : trace[k + 1] = AddMember(trace[k], members[k + 1])

LEMMA MembersUnroll ==
    ASSUME NEW M, NEW members \in Seq(M), NEW list
    PROVE  \E trace : /\ trace[0] = list
                      /\ trace[Len(members)] = MembersAdded(list, members)
                      /\ MembersTrace(trace, Len(members), members)
<1> DEFINE n == Len(members)
           x(k) == [over |-> "members", member |-> members[k]]
           xs == [k \in 1 .. n |-> x(k)]
           Step(it, s) == IF s = {} THEN list ELSE AddMember(it[s \ {Max(s)}], members[Max(s)])
           fold == CHOOSE it : it = [s \in SUBSET DOMAIN members |-> Step(it, s)]
<1>1. MembersAdded(list, members) = fold[DOMAIN members]
  BY DEF MembersAdded, FoldLeft, MapThenFoldSet
<1>2. n \in Nat /\ DOMAIN members = 1 .. n
  BY SeqFacts
<1>3. ASSUME NEW k \in 1 .. n, NEW l PROVE Added(l, xs[k]) = AddMember(l, members[k])
  <2>1. xs[k] = x(k)
    OBVIOUS
  <2> QED
    BY <2>1 DEF Added
<1> HIDE DEF xs, n
<1>4. ASSUME NEW it, NEW s \in SUBSET (1 .. n) PROVE Step(it, s) = Folded(it, s, list, xs)
  <2>1. CASE s = {}
    BY <2>1 DEF Folded
  <2>2. CASE s # {}
    <3>1. Max(s) \in s
      BY <1>2, <2>2, GreatestIndex
    <3>2. Max(s) \in 1 .. n
      BY <3>1
    <3> QED
      BY <1>3, <2>2, <3>2 DEF Folded
  <2> QED
    BY <2>1, <2>2
<1> HIDE DEF Step
<1>5. PICK it : IsFold(it, n, list, xs)
  BY <1>2, FoldExists
<1>6. it = [s \in SUBSET DOMAIN members |-> Step(it, s)]
  BY <1>2, <1>4, <1>5 DEF IsFold
<1>7. fold = [s \in SUBSET DOMAIN members |-> Step(fold, s)]
  BY <1>6
<1> HIDE DEF fold
<1>8. IsFold(fold, n, list, xs)
  BY <1>2, <1>4, <1>7 DEF IsFold
<1>9. PICK trace : IsTrace(trace, n, list, xs, fold[1 .. n])
  BY <1>2, <1>8, FoldUnrolls
<1>10. ASSUME NEW k \in 0 .. n - 1 PROVE trace[k + 1] = AddMember(trace[k], members[k + 1])
  <2>1. k + 1 \in 1 .. n
    BY <1>2
  <2>2. trace[k + 1] = Added(trace[k], xs[k + 1])
    BY <1>9 DEF IsTrace
  <2> QED
    BY <1>3, <2>1, <2>2
<1>11. trace[0] = list /\ trace[n] = fold[1 .. n]
  BY <1>9 DEF IsTrace
<1>12. /\ trace[0] = list
       /\ trace[n] = MembersAdded(list, members)
       /\ MembersTrace(trace, n, members)
  BY <1>1, <1>2, <1>10, <1>11 DEF MembersTrace
<1> QED
  BY <1>12 DEF n

LEMMA MapFold ==
    ASSUME NEW list, NEW members
    PROVE  LET Do(l, member) ==
                   IF member.kind = "recursive" THEN [l EXCEPT !.errors = Append(@, member)]
                   ELSE AddFilesInternal(l, member.call)
           IN  FoldLeft(Do, list, members) = MembersAdded(list, members)
  BY DEF MembersAdded, FoldLeft, MapThenFoldSet, AddMember
-----------------------------------------------------------------------------
(***************************************************************************)
(* addLibraryMapsInternal: what reading a map gives, however maps include  *)
(* each other.                                                             *)
(***************************************************************************)
Reads == (DOMAIN Maps) \X (SUBSET DOMAIN Maps)

MembersRead(r, map, seenMaps) ==
    [k \in DOMAIN Maps[map] |->
        IF Maps[map][k].kind = "include" THEN r[<<Maps[map][k].map, seenMaps \cup {map}>>]
        ELSE <<Maps[map][k]>>]

ReadMap(r, map, seenMaps) ==
    IF map \in seenMaps THEN <<[kind |-> "recursive", map |-> map]>>
    ELSE FlattenSeq(MembersRead(r, map, seenMaps))

IsReading(r) == r = [p \in Reads |-> ReadMap(r, p[1], p[2])]

LEMMA MapsAreRead == \A root : AddMaps(root) = (CHOOSE r : IsReading(r))[<<root, {}>>]
  BY DEF AddMaps, IsReading, ReadMap, MembersRead, Reads

\* The maps that a call may still go into.
Left(p) == Cardinality((DOMAIN Maps) \ p[2])

Deepest == Cardinality(DOMAIN Maps) + 1

LEMMA LeftBounded ==
    /\ Deepest \in Nat
    /\ \A p \in Reads : Left(p) \in Nat /\ Left(p) < Deepest
<1>1. Cardinality(DOMAIN Maps) \in Nat
  BY CallsOK, FS_CardinalityType
<1>2. ASSUME NEW p \in Reads PROVE Left(p) \in Nat /\ Left(p) < Deepest
  <2>1. (DOMAIN Maps) \ p[2] \in SUBSET DOMAIN Maps
    OBVIOUS
  <2>2. /\ Cardinality((DOMAIN Maps) \ p[2]) <= Cardinality(DOMAIN Maps)
        /\ IsFiniteSet((DOMAIN Maps) \ p[2])
    BY CallsOK, <2>1, FS_Subset
  <2>3. Cardinality((DOMAIN Maps) \ p[2]) \in Nat
    BY <2>2, FS_CardinalityType
  <2> QED
    BY <1>1, <2>2, <2>3 DEF Left, Deepest
<1> QED
  BY <1>1, <1>2 DEF Deepest

LEMMA LeftShrinks ==
    ASSUME NEW p \in Reads, p[1] \notin p[2], NEW map \in DOMAIN Maps
    PROVE  <<map, p[2] \cup {p[1]}>> \in Reads /\ Left(<<map, p[2] \cup {p[1]}>>) < Left(p)
<1> DEFINE q == <<map, p[2] \cup {p[1]}>>
           A == (DOMAIN Maps) \ p[2]
<1>1. p[1] \in DOMAIN Maps /\ p[2] \in SUBSET DOMAIN Maps /\ IsFiniteSet(DOMAIN Maps)
  BY CallsOK DEF Reads
<1>2. q \in Reads /\ q[2] = p[2] \cup {p[1]}
  BY <1>1 DEF Reads
<1>3. IsFiniteSet(A) /\ p[1] \in A
  BY <1>1, FS_Subset
<1>4. (DOMAIN Maps) \ q[2] = A \ {p[1]}
  BY <1>2
<1>5. Cardinality(A \ {p[1]}) = Cardinality(A) - 1 /\ Cardinality(A) \in Nat
  BY <1>3, FS_RemoveElement, FS_CardinalityType
<1>6. Left(q) = Cardinality(A \ {p[1]}) /\ Left(p) = Cardinality(A)
  BY <1>4 DEF Left
<1>7. Left(q) < Left(p)
  <2> HIDE DEF A, q
  <2> QED
    BY <1>5, <1>6
<1> QED
  BY <1>2, <1>7

LEMMA ReadingExists == \E r : IsReading(r)
<1> DEFINE Near(k) == {p \in Reads : Left(p) < k}
           IsRead(r, k) == r = [p \in Near(k) |-> ReadMap(r, p[1], p[2])]
           P == {k \in Nat : \E r : IsRead(r, k)}
<1>1. \A map \in DOMAIN Maps : \A k \in DOMAIN Maps[map] :
          Maps[map][k].kind = "include" => Maps[map][k].map \in DOMAIN Maps
  BY CallsOK DEF ToSet
<1>2. \A p \in Reads : p[1] \in DOMAIN Maps
  BY DEF Reads
<1>3. Deepest \in Nat /\ \A p \in Reads : Left(p) \in Nat /\ Left(p) < Deepest
  BY LeftBounded
<1>5. 0 \in P
  <2>1. Near(0) = {}
    BY <1>3
  <2> DEFINE r == [p \in {} |-> p]
  <2>2. IsRead(r, 0)
    BY <2>1
  <2> HIDE DEF IsRead
  <2> QED
    BY <2>2
<1>6. ASSUME NEW k \in Nat, k \in P PROVE k + 1 \in P
  <2>1. PICK g : IsRead(g, k)
    BY <1>6
  <2> DEFINE r == [p \in Near(k + 1) |-> ReadMap(g, p[1], p[2])]
  <2>2. ASSUME NEW p \in Near(k) PROVE r[p] = g[p]
    <3>1. Left(p) \in Nat /\ Left(p) < k
      BY <1>3
    <3>2. p \in Near(k + 1)
      BY <3>1
    <3> QED
      BY <2>1, <3>2
  <2> HIDE DEF r
  <2>3. ASSUME NEW p \in Near(k + 1) PROVE ReadMap(r, p[1], p[2]) = ReadMap(g, p[1], p[2])
    <3>1. CASE p[1] \in p[2]
      BY <3>1 DEF ReadMap
    <3>2. CASE p[1] \notin p[2]
      <4>1. ASSUME NEW j \in DOMAIN Maps[p[1]], Maps[p[1]][j].kind = "include"
            PROVE  r[<<Maps[p[1]][j].map, p[2] \cup {p[1]}>>]
                       = g[<<Maps[p[1]][j].map, p[2] \cup {p[1]}>>]
        <5> DEFINE q == <<Maps[p[1]][j].map, p[2] \cup {p[1]}>>
        <5>1. q \in Reads /\ Left(q) < Left(p)
          BY <1>1, <1>2, <3>2, <4>1, LeftShrinks
        <5> HIDE DEF q
        <5>2. q \in Near(k)
          <6>1. Left(p) < k + 1 /\ Left(p) \in Nat /\ Left(q) \in Nat
            BY <1>3, <5>1
          <6>2. Left(q) < k
            BY <5>1, <6>1
          <6> QED
            BY <5>1, <6>2
        <5> QED
          BY <2>2, <5>2 DEF q
      <4>2. MembersRead(r, p[1], p[2]) = MembersRead(g, p[1], p[2])
        BY <4>1 DEF MembersRead
      <4> QED
        BY <4>2 DEF ReadMap
    <3> QED
      BY <3>1, <3>2
  <2>4. IsRead(r, k + 1)
    BY <2>3 DEF r
  <2> HIDE DEF IsRead
  <2> QED
    BY <2>4
<1>7. Deepest \in P
  <2>1. Deepest \in 0 .. Deepest
    BY <1>3
  <2> HIDE DEF P
  <2> QED
    BY <1>3, <1>5, <1>6, <2>1, CountUp
<1>8. Near(Deepest) = Reads
  BY <1>3
<1> QED
  BY <1>7, <1>8 DEF IsReading

\* What addLibraryMapsInternal goes through: recursive maps, and calls to make.
Member(m) == m.kind = "recursive" \/ (m.kind = "library" /\ m.call.globs \in Seq(Globs))

Reading == CHOOSE r : IsReading(r)

LEMMA ReadsFacts ==
    \E M : (\A m \in M : Member(m)) /\ \A p \in Reads : Reading[p] \in Seq(M)
<1> DEFINE r == Reading
           M == {m \in {[kind |-> "recursive", map |-> map] : map \in DOMAIN Maps}
                           \cup UNION {ToSet(Maps[map]) : map \in DOMAIN Maps} : Member(m)}
           P == {k \in Nat : \A p \in Reads : Left(p) < k => r[p] \in Seq(M)}
<1>1. IsReading(r)
  BY ReadingExists DEF Reading
<1> HIDE DEF r
<1>2. \A map \in DOMAIN Maps :
          /\ Maps[map] \in Seq(ToSet(Maps[map]))
          /\ \A k \in DOMAIN Maps[map] :
                 \/ Maps[map][k].kind = "include" /\ Maps[map][k].map \in DOMAIN Maps
                 \/ Maps[map][k].kind # "include" /\ Member(Maps[map][k])
  BY CallsOK DEF ToSet, Member
<1>3. /\ \A p \in Reads : p[1] \in DOMAIN Maps
      /\ Deepest \in Nat /\ \A p \in Reads : Left(p) \in Nat /\ Left(p) < Deepest
  BY LeftBounded DEF Reads
<1>4. /\ \A map \in DOMAIN Maps : [kind |-> "recursive", map |-> map] \in M
      /\ \A map \in DOMAIN Maps : \A k \in DOMAIN Maps[map] :
             Maps[map][k].kind # "include" => Maps[map][k] \in M
  <2>1. \A map : Member([kind |-> "recursive", map |-> map])
    BY DEF Member
  <2>2. \A map \in DOMAIN Maps : \A k \in DOMAIN Maps[map] : Maps[map][k] \in ToSet(Maps[map])
    BY DEF ToSet
  <2> QED
    BY <1>2, <2>1, <2>2
<1>5. \A m \in M : Member(m)
  OBVIOUS
<1> HIDE DEF M
<1>6. 0 \in P
  BY <1>3
<1>7. ASSUME NEW k \in Nat, k \in P PROVE k + 1 \in P
  <2> SUFFICES ASSUME NEW p \in Reads, Left(p) < k + 1 PROVE r[p] \in Seq(M)
    OBVIOUS
  <2>1. r[p] = ReadMap(r, p[1], p[2])
    BY <1>1 DEF IsReading
  <2>2. CASE p[1] \in p[2]
    <3>1. r[p] = <<[kind |-> "recursive", map |-> p[1]]>>
      BY <2>1, <2>2 DEF ReadMap
    <3>2. [kind |-> "recursive", map |-> p[1]] \in M
      BY <1>3, <1>4
    <3> QED
      BY <3>1, <3>2
  <2>3. CASE p[1] \notin p[2]
    <3> DEFINE members == MembersRead(r, p[1], p[2])
               n == Len(Maps[p[1]])
    <3>1. n \in Nat /\ DOMAIN Maps[p[1]] = 1 .. n
      BY <1>2, <1>3, SeqFacts
    <3>2. ASSUME NEW j \in 1 .. n PROVE members[j] \in Seq(M)
      <4>1. CASE Maps[p[1]][j].kind = "include"
        <5> DEFINE q == <<Maps[p[1]][j].map, p[2] \cup {p[1]}>>
        <5>1. q \in Reads /\ Left(q) < Left(p)
          BY <1>2, <1>3, <2>3, <3>1, <4>1, LeftShrinks
        <5>2. members[j] = r[q]
          BY <3>1, <4>1 DEF MembersRead
        <5> HIDE DEF q, members
        <5>3. Left(q) < k
          <6>1. Left(p) \in Nat /\ Left(q) \in Nat
            BY <1>3, <5>1
          <6> QED
            BY <5>1, <6>1
        <5> QED
          BY <1>7, <5>1, <5>2, <5>3
      <4>2. CASE Maps[p[1]][j].kind # "include"
        <5>1. members[j] = <<Maps[p[1]][j]>>
          BY <3>1, <4>2 DEF MembersRead
        <5>2. Maps[p[1]][j] \in M
          BY <1>3, <1>4, <3>1, <4>2
        <5> QED
          BY <5>1, <5>2
      <4> QED
        BY <4>1, <4>2
    <3>3. members = [j \in 1 .. n |-> members[j]]
      BY <3>1 DEF MembersRead
    <3>4. r[p] = FlattenSeq(members)
      BY <2>1, <2>3 DEF ReadMap
    <3> HIDE DEF members, n
    <3>5. members \in Seq(Seq(M))
      BY <3>1, <3>2, <3>3
    <3> QED
      BY <3>4, <3>5, FlattenFacts
  <2> QED
    BY <2>2, <2>3
<1>8. Deepest \in P
  <2>1. Deepest \in 0 .. Deepest
    BY <1>3
  <2> HIDE DEF P
  <2> QED
    BY <1>3, <1>6, <1>7, <2>1, CountUp
<1>9. \A p \in Reads : r[p] \in Seq(M)
  BY <1>3, <1>8
<1> QED
  BY <1>5, <1>9 DEF r

LEMMA MapsFacts ==
    ASSUME NEW root \in DOMAIN Maps
    PROVE  \E M : AddMaps(root) \in Seq(M) /\ \A m \in M : Member(m)
<1>1. <<root, {}>> \in Reads
  BY DEF Reads
<1>2. AddMaps(root) = Reading[<<root, {}>>]
  BY MapsAreRead DEF Reading
<1> QED
  BY <1>1, <1>2, ReadsFacts
-----------------------------------------------------------------------------
(***************************************************************************)
(* The list that the calls fill: its entries are about different files.    *)
(***************************************************************************)
IsEntry(e) ==
    /\ e = [path |-> e.path, library |-> e.library, secondLib |-> e.secondLib, unit |-> e.unit,
            libraryRank |-> e.libraryRank, isLibraryFile |-> e.isLibraryFile]
    /\ e.path \in Files

Distinct(es) == \A j, k \in DOMAIN es : es[j].path = es[k].path => j = k

Listed(list) ==
    /\ list = [entries |-> list.entries, errors |-> list.errors]
    /\ \E E : list.entries \in Seq(E)
    /\ \E R : list.errors \in Seq(R)
    /\ \A k \in DOMAIN list.entries : IsEntry(list.entries[k])
    /\ Distinct(list.entries)

NewEntry(path, call, rank) ==
    [path |-> path, library |-> call.library, secondLib |-> NoLibrary, unit |-> call.unit,
     libraryRank |-> rank, isLibraryFile |-> call.isLibraryFile]

\* What adding one path does.
PathAdded(list, new, path, call, rank) ==
    \/ /\ \A k \in DOMAIN list.entries : list.entries[k].path # path
       /\ new = [list EXCEPT !.entries = Append(@, NewEntry(path, call, rank))]
    \/ \E k \in DOMAIN list.entries :
           /\ list.entries[k].path = path
           /\ call.unit # NoUnit \/ list.entries[k].unit # NoUnit
           /\ new = [list EXCEPT !.errors = Append(@, MultipleUnits(path))]
    \/ \E k \in DOMAIN list.entries :
           /\ list.entries[k].path = path
           /\ call.unit = NoUnit /\ list.entries[k].unit = NoUnit
           /\ new = [list EXCEPT !.entries[k] = Reconsider(@, call, rank)]

LEMMA LeastIndex ==
    ASSUME NEW I \in SUBSET Nat, I # {}
    PROVE  Min(I) \in I /\ \A j \in I : Min(I) <= j
<1> DEFINE R == { p \in Nat \X Nat : p[1] < p[2] }
<1>1. IsWellFoundedOn(R, Nat)
  BY NatLessThanWellFounded DEF OpToRel
<1> HIDE DEF R
<1>2. PICK i \in I : \A j \in I : ~(<<j, i>> \in R)
  BY <1>1, WFMin
<1>3. \A j \in I : i <= j
  <2> SUFFICES ASSUME NEW j \in I PROVE i <= j
    OBVIOUS
  <2>1. i \in Nat /\ j \in Nat /\ ~(<<j, i>> \in R)
    BY <1>2
  <2> QED
    BY <2>1 DEF R
<1> QED
  BY <1>3 DEF Min

LEMMA AddPathSteps ==
    ASSUME NEW list, Listed(list), NEW path, NEW call, NEW rank
    PROVE  PathAdded(list, AddPath(list, path, call, rank), path, call, rank)
<1> DEFINE es == list.entries
           I == {i \in 1 .. Len(es) : es[i].path = path}
           k == SelectInSeq(es, LAMBDA e : e.path = path)
<1>1. k = IF I # {} THEN Min(I) ELSE 0
  BY DEF SelectInSeq
<1>2. Len(es) \in Nat /\ DOMAIN es = 1 .. Len(es)
  BY SeqFacts DEF Listed
<1>3. I \in SUBSET Nat
  BY <1>2
<1>4. CASE I = {}
  <2>1. k = 0
    BY <1>1, <1>4
  <2>2. AddPath(list, path, call, rank) = [list EXCEPT !.entries = Append(@, NewEntry(path, call, rank))]
    BY <2>1 DEF AddPath, NewEntry
  <2> QED
    BY <1>2, <1>4, <2>2 DEF PathAdded
<1>5. CASE I # {}
  <2>1. k \in I
    BY <1>1, <1>3, <1>5, LeastIndex
  <2>2. k \in DOMAIN es /\ es[k].path = path /\ k # 0
    BY <1>2, <2>1
  <2>3. AddPath(list, path, call, rank) =
            IF call.unit # NoUnit \/ es[k].unit # NoUnit
              THEN [list EXCEPT !.errors = Append(@, MultipleUnits(path))]
              ELSE [list EXCEPT !.entries[k] = Reconsider(@, call, rank)]
    BY <2>2 DEF AddPath
  <2> HIDE DEF k
  <2> QED
    BY <2>2, <2>3 DEF PathAdded
<1> QED
  BY <1>4, <1>5

\* A file that is listed again keeps its path and its unit.
LEMMA ReconsiderFacts ==
    ASSUME NEW e, IsEntry(e), NEW call, NEW rank
    PROVE  /\ IsEntry(Reconsider(e, call, rank))
           /\ Reconsider(e, call, rank).path = e.path
           /\ Reconsider(e, call, rank).unit = e.unit
<1> DEFINE flag == e.isLibraryFile /\ call.isLibraryFile
           Made(library, secondLib, libraryRank) ==
               [path |-> e.path, library |-> library, secondLib |-> secondLib, unit |-> e.unit,
                libraryRank |-> libraryRank, isLibraryFile |-> flag]
           both == [e EXCEPT !.isLibraryFile = @ /\ call.isLibraryFile]
           better == [both EXCEPT !.library = call.library, !.libraryRank = rank, !.secondLib = NoLibrary]
           tied == [both EXCEPT !.secondLib = call.library]
<1>1. Reconsider(e, call, rank) \in {both, better, tied}
  BY DEF Reconsider
<1> HIDE DEF flag
<1>2. both = Made(e.library, e.secondLib, e.libraryRank)
  BY DEF IsEntry, flag
<1> HIDE DEF both
<1>3. better = Made(call.library, NoLibrary, rank)
  <2> DEFINE renamed == [both EXCEPT !.library = call.library]
             ranked == [renamed EXCEPT !.libraryRank = rank]
             untied == [ranked EXCEPT !.secondLib = NoLibrary]
  <2>1. better = untied
    OBVIOUS
  <2>2. renamed = Made(call.library, e.secondLib, e.libraryRank)
    BY <1>2
  <2> HIDE DEF renamed
  <2>3. ranked = Made(call.library, e.secondLib, rank)
    BY <2>2
  <2> HIDE DEF ranked
  <2>4. untied = Made(call.library, NoLibrary, rank)
    BY <2>3
  <2> QED
    BY <2>1, <2>4
<1>4. tied = Made(e.library, call.library, e.libraryRank)
  BY <1>2
<1>5. \A l, s, r : IsEntry(Made(l, s, r)) /\ Made(l, s, r).path = e.path /\ Made(l, s, r).unit = e.unit
  BY DEF IsEntry
<1> HIDE DEF Made, better, tied
<1> QED
  BY <1>1, <1>2, <1>3, <1>4, <1>5

LEMMA PathKeepsListed ==
    ASSUME NEW list, Listed(list), NEW path \in Files, NEW call, NEW rank, NEW new,
           PathAdded(list, new, path, call, rank)
    PROVE  Listed(new)
<1> DEFINE es == list.entries
           errs == list.errors
<1>1. PICK E : es \in Seq(E)
  BY DEF Listed
<1>2. PICK R : errs \in Seq(R)
  BY DEF Listed
<1>3. list = [entries |-> es, errors |-> errs] /\ Distinct(es) /\ \A k \in DOMAIN es : IsEntry(es[k])
  BY DEF Listed
<1> HIDE DEF es, errs
<1>4. Len(es) \in Nat /\ DOMAIN es = 1 .. Len(es)
  BY <1>1, SeqFacts
<1>5. CASE /\ \A k \in DOMAIN list.entries : list.entries[k].path # path
           /\ new = [list EXCEPT !.entries = Append(@, NewEntry(path, call, rank))]
  <2> DEFINE e == NewEntry(path, call, rank)
             grown == Append(es, e)
  <2>1. new = [entries |-> grown, errors |-> errs]
    BY <1>3, <1>5
  <2>2. IsEntry(e) /\ e.path = path
    BY DEF NewEntry, IsEntry
  <2> HIDE DEF e
  <2>3. /\ grown \in Seq(E \cup {e}) /\ Len(grown) = Len(es) + 1 /\ grown[Len(es) + 1] = e
        /\ \A k \in 1 .. Len(es) : grown[k] = es[k]
    BY <1>1, AppendFacts
  <2>4. DOMAIN grown = (1 .. Len(es)) \cup {Len(es) + 1}
    BY <1>4, <2>3, SeqFacts
  <2>5. \A k \in 1 .. Len(es) : es[k].path # path
    BY <1>3, <1>4, <1>5
  <2> HIDE DEF grown
  <2>6. Distinct(grown) /\ \A k \in DOMAIN grown : IsEntry(grown[k])
    BY <1>3, <1>4, <2>2, <2>3, <2>4, <2>5 DEF Distinct
  <2> QED
    BY <1>2, <2>1, <2>3, <2>6 DEF Listed
<1>6. CASE \E k \in DOMAIN list.entries :
           /\ list.entries[k].path = path
           /\ call.unit # NoUnit \/ list.entries[k].unit # NoUnit
           /\ new = [list EXCEPT !.errors = Append(@, MultipleUnits(path))]
  <2> DEFINE grown == Append(errs, MultipleUnits(path))
  <2>1. new = [entries |-> es, errors |-> grown]
    BY <1>3, <1>6
  <2>2. grown \in Seq(R \cup {MultipleUnits(path)})
    BY <1>2, AppendFacts
  <2> HIDE DEF grown
  <2> QED
    BY <1>1, <1>3, <2>1, <2>2 DEF Listed
<1>7. CASE \E k \in DOMAIN list.entries :
           /\ list.entries[k].path = path
           /\ call.unit = NoUnit /\ list.entries[k].unit = NoUnit
           /\ new = [list EXCEPT !.entries[k] = Reconsider(@, call, rank)]
  <2>1. PICK k \in DOMAIN es : new = [list EXCEPT !.entries[k] = Reconsider(@, call, rank)]
    BY <1>3, <1>7
  <2> DEFINE e == Reconsider(es[k], call, rank)
             changed == [es EXCEPT ![k] = e]
  <2>2. new = [entries |-> changed, errors |-> errs]
    BY <1>3, <2>1
  <2>3. IsEntry(e) /\ e.path = es[k].path
    BY <1>3, ReconsiderFacts
  <2> HIDE DEF e
  <2>4. /\ changed \in Seq(E \cup {e}) /\ DOMAIN changed = DOMAIN es
        /\ \A j \in DOMAIN es : changed[j] = IF j = k THEN e ELSE es[j]
    <3>1. es \in Seq(E \cup {e}) /\ e \in E \cup {e} /\ k \in 1 .. Len(es)
      BY <1>1, <1>4, SeqMonotonic
    <3> QED
      BY <1>4, <3>1, ExceptSeq
  <2> HIDE DEF changed
  <2>5. Distinct(changed) /\ \A j \in DOMAIN changed : IsEntry(changed[j])
    BY <1>3, <2>3, <2>4 DEF Distinct
  <2> QED
    BY <1>2, <2>2, <2>4, <2>5 DEF Listed
<1> QED
  BY <1>5, <1>6, <1>7 DEF PathAdded
-----------------------------------------------------------------------------
\* A pattern that matched gives files and a rank.
LEMMA MatchesFacts ==
    ASSUME NEW call, call.globs \in Seq(Globs), Matches(call).found
    PROVE  Matches(call).files \in Seq(Files) /\ Matches(call).rank \in Nat
<1> DEFINE I == {i \in 1 .. Len(call.globs) : call.globs[i].found}
           k == SelectInSeq(call.globs, LAMBDA g : g.found)
<1>1. k = IF I # {} THEN Min(I) ELSE 0
  BY DEF SelectInSeq
<1>2. Len(call.globs) \in Nat /\ \A i \in 1 .. Len(call.globs) : call.globs[i] \in Globs
  BY SeqFacts
<1>3. I \in SUBSET Nat
  BY <1>2
<1>4. CASE I = {}
  <2>1. Matches(call) = [found |-> FALSE]
    BY <1>1, <1>4 DEF Matches
  <2>2. [found |-> FALSE].found = FALSE
    OBVIOUS
  <2> QED
    BY <2>1, <2>2
<1>5. CASE I # {}
  <2>1. k \in I
    BY <1>1, <1>3, <1>5, LeastIndex
  <2>2. k \in 1 .. Len(call.globs) /\ call.globs[k].found /\ k # 0
    BY <1>3, <2>1
  <2>3. Matches(call) = call.globs[k]
    BY <2>2 DEF Matches
  <2> HIDE DEF k
  <2>4. call.globs[k] \in Globs
    BY <1>2, <2>2
  <2>5. ASSUME NEW g \in Globs, g.found PROVE g.files \in Seq(Files) /\ g.rank \in Nat
    <3>1. CASE g \in [found : {FALSE}]
      BY <2>5, <3>1
    <3>2. CASE g \in [found : {TRUE}, files : Seq(Files), rank : Nat]
      BY <3>2
    <3> QED
      BY <3>1, <3>2 DEF Globs
  <2> QED
    BY <2>2, <2>3, <2>4, <2>5
<1> QED
  BY <1>4, <1>5

LEMMA ErrorKeepsListed ==
    ASSUME NEW list, Listed(list), NEW err
    PROVE  Listed([list EXCEPT !.errors = Append(@, err)])
<1>1. PICK R : list.errors \in Seq(R)
  BY DEF Listed
<1> DEFINE grown == Append(list.errors, err)
           es == list.entries
           errs == list.errors
<1>2. grown \in Seq(R \cup {err})
  BY <1>1, AppendFacts
<1>3. list = [entries |-> es, errors |-> errs]
  BY DEF Listed
<1> HIDE DEF es, errs
<1>4. [list EXCEPT !.errors = Append(@, err)] = [entries |-> es, errors |-> grown]
  BY <1>3
<1>5. (\E E : es \in Seq(E)) /\ Distinct(es) /\ \A k \in DOMAIN es : IsEntry(es[k])
  BY DEF Listed, es
<1> HIDE DEF grown
<1>6. Listed([entries |-> es, errors |-> grown])
  BY <1>2, <1>5 DEF Listed
<1> QED
  BY <1>4, <1>6

LEMMA CallKeepsListed ==
    ASSUME NEW list, Listed(list), NEW call, call.globs \in Seq(Globs)
    PROVE  Listed(AddFilesInternal(list, call))
<1>1. CASE ~Matches(call).found
  <2>1. AddFilesInternal(list, call)
            = [list EXCEPT !.errors = Append(@, [kind |-> "nomatch", call |-> call])]
    BY <1>1 DEF AddFilesInternal
  <2>2. PICK err : err = [kind |-> "nomatch", call |-> call]
    OBVIOUS
  <2>3. AddFilesInternal(list, call) = [list EXCEPT !.errors = Append(@, err)]
    BY <2>1, <2>2
  <2> QED
    BY <2>3, ErrorKeepsListed, ZenonT(60)
<1>2. CASE Matches(call).found
  <2> DEFINE files == Matches(call).files
             rank == Matches(call).rank
             n == Len(files)
  <2>1. files \in Seq(Files)
    BY <1>2, MatchesFacts
  <2>2. AddFilesInternal(list, call) = FilesAdded(list, files, call, rank)
    BY <1>2 DEF AddFilesInternal, FilesAdded
  <2> HIDE DEF files, rank
  <2>3. PICK trace : /\ trace[0] = list
                     /\ trace[n] = FilesAdded(list, files, call, rank)
                     /\ FilesTrace(trace, n, files, call, rank)
    BY <2>1, FilesUnroll
  <2>4. n \in Nat
    BY <2>1, SeqFacts
  <2> HIDE DEF n
  <2> DEFINE S == {k \in 0 .. n : Listed(trace[k])}
  <2>5. 0 \in S
    BY <2>3, <2>4
  <2>6. ASSUME NEW k \in Nat, k < n, k \in S PROVE k + 1 \in S
    <3>1. k \in 0 .. n - 1 /\ k + 1 \in 0 .. n
      BY <2>4, <2>6
    <3>2. trace[k + 1] = AddPath(trace[k], files[k + 1], call, rank) /\ Listed(trace[k])
      BY <2>3, <2>6, <3>1 DEF FilesTrace
    <3>3. files[k + 1] \in Files
      BY <2>1, <2>4, <3>1, SeqFacts DEF n
    <3>4. Listed(trace[k + 1])
      BY <3>2, <3>3, AddPathSteps, PathKeepsListed
    <3> QED
      BY <3>1, <3>4
  <2>7. n \in 0 .. n
    BY <2>4
  <2> HIDE DEF S
  <2>8. n \in S
    BY <2>4, <2>5, <2>6, <2>7, CountUp
  <2> QED
    BY <2>2, <2>3, <2>8 DEF S
<1> QED
  BY <1>1, <1>2

LEMMA MapKeepsListed ==
    ASSUME NEW list, Listed(list), NEW map \in DOMAIN Maps
    PROVE  Listed(MembersAdded(list, AddMaps(map)))
<1> DEFINE members == AddMaps(map)
           n == Len(members)
<1>1. PICK M : members \in Seq(M) /\ \A m \in M : Member(m)
  BY MapsFacts
<1> HIDE DEF members
<1>2. PICK trace : /\ trace[0] = list
                   /\ trace[n] = MembersAdded(list, members)
                   /\ MembersTrace(trace, n, members)
  BY <1>1, MembersUnroll
<1>3. n \in Nat /\ \A k \in 1 .. n : Member(members[k])
  BY <1>1, SeqFacts
<1> HIDE DEF n
<1> DEFINE S == {k \in 0 .. n : Listed(trace[k])}
<1>4. 0 \in S
  BY <1>2, <1>3
<1>5. ASSUME NEW k \in Nat, k < n, k \in S PROVE k + 1 \in S
  <2>1. k \in 0 .. n - 1 /\ k + 1 \in 0 .. n /\ k + 1 \in 1 .. n
    BY <1>3, <1>5
  <2>2. trace[k + 1] = AddMember(trace[k], members[k + 1]) /\ Listed(trace[k])
    BY <1>2, <1>5, <2>1 DEF MembersTrace
  <2>3. Member(members[k + 1])
    BY <1>3, <2>1
  <2>4. ASSUME NEW m, Member(m), NEW l, Listed(l) PROVE Listed(AddMember(l, m))
    <3>1. CASE m.kind = "recursive"
      BY <2>4, <3>1, ErrorKeepsListed DEF AddMember
    <3>2. CASE m.kind # "recursive"
      BY <2>4, <3>2, CallKeepsListed DEF AddMember, Member
    <3> QED
      BY <3>1, <3>2
  <2>5. Listed(trace[k + 1])
    BY <2>2, <2>3, <2>4
  <2> QED
    BY <2>1, <2>5
<1>6. n \in 0 .. n
  BY <1>3
<1> HIDE DEF S
<1>7. n \in S
  BY <1>3, <1>4, <1>5, <1>6, CountUp
<1> QED
  BY <1>2, <1>7 DEF S, members
-----------------------------------------------------------------------------
(***************************************************************************)
(* The inductive invariant of the first half: the list, the pool that      *)
(* loads the entries, and the ties that are in errors already.             *)
(***************************************************************************)
Searched == {"search", "find", "batch", "commit", "done"}

Tied(e) == e.secondLib # NoLibrary
Reported(e, errs) == MultipleLibraries(e) \in ToSet(errs)

\* No two entries that a race of two appends could be about.
OneTie(es) == \A j, k \in DOMAIN es : Tied(es[j]) /\ Tied(es[k]) => j = k

TaskOK(t, es) ==
    t # NoTask => /\ t.entry \in DOMAIN es
                  /\ t.at \in {"append", "load"}
                  /\ t.at = "append" => Tied(es[t.entry])
                  /\ t.size \in Nat

\* The main part of loading entry k has begun or is over.
PastAppend(k, res, tasks) ==
    \/ res[k] # "none"
    \/ \E w \in Workers : tasks[w] # NoTask /\ tasks[w].entry = k /\ tasks[w].at = "load"

Loading(es, errs, res, tasks) ==
    /\ Threaded
    /\ DOMAIN res = DOMAIN es
    /\ \A k \in DOMAIN es : res[k] \in {"none", Classify(es[k])}
    /\ \A w \in Workers : TaskOK(tasks[w], es)
    /\ OneTie(es) => \A k \in DOMAIN es :
                         Tied(es[k]) /\ PastAppend(k, res, tasks) => Reported(es[k], errs)

AllReported(es, errs) == \A k \in DOMAIN es : Tied(es[k]) => Reported(es[k], errs)

AllClassified(es, res) == /\ DOMAIN res = DOMAIN es
                          /\ \A k \in DOMAIN es : res[k] = Classify(es[k])

LoadInv ==
    /\ phase \in {"add", "parse", "arrange", "loaded"} \cup Searched
    /\ phase # "loaded" => Listed([entries |-> entries, errors |-> errors])
    /\ DOMAIN task = Workers /\ task = [w \in Workers |-> task[w]]
    /\ phase = "add" => \A w \in Workers : task[w] = NoTask
    /\ phase = "parse" => Loading(entries, errors, results, task)
    /\ phase \in {"arrange"} \cup Searched =>
           /\ AllClassified(entries, results)
           /\ ~Threaded \/ OneTie(entries) => AllReported(entries, errors)

LEMMA ListedInit == Listed([entries |-> <<>>, errors |-> <<>>])
<1>1. <<>> \in Seq({}) /\ DOMAIN <<>> = {}
  OBVIOUS
<1> QED
  BY <1>1 DEF Listed, Distinct

LEMMA LoadInvInit == Init => LoadInv
<1> SUFFICES ASSUME Init PROVE LoadInv
  OBVIOUS
<1>1. phase = "add" /\ entries = <<>> /\ errors = <<>> /\ task = [w \in Workers |-> NoTask]
  BY DEF Init
<1>2. DOMAIN task = Workers /\ \A w \in Workers : task[w] = NoTask
  BY <1>1
<1>3. task = [w \in Workers |-> task[w]]
  BY <1>1
<1> QED
  BY <1>1, <1>2, <1>3, ListedInit DEF LoadInv, Searched

LEMMA ClassifyFacts == \A e : Classify(e) \in {"error", "unit", "single", "deferred", "tree"}
  BY DEF Classify

\* The entries stay and errors grow: the list stays one.
LEMMA ErrorsGrow ==
    ASSUME NEW es, NEW errs, Listed([entries |-> es, errors |-> errs]), NEW more, NEW T, more \in Seq(T)
    PROVE  /\ Listed([entries |-> es, errors |-> errs \o more])
           /\ ToSet(errs \o more) = ToSet(errs) \cup ToSet(more)
<1>1. PICK R : errs \in Seq(R)
  BY DEF Listed
<1>2. errs \in Seq(R \cup T) /\ more \in Seq(R \cup T)
  BY <1>1, SeqMonotonic
<1>3. errs \o more \in Seq(R \cup T) /\ ToSet(errs \o more) = ToSet(errs) \cup ToSet(more)
  BY <1>2, JoinedFacts
<1>4. (\E E : es \in Seq(E)) /\ Distinct(es) /\ \A k \in DOMAIN es : IsEntry(es[k])
  BY DEF Listed
<1> DEFINE all == errs \o more
<1> HIDE DEF all
<1>5. Listed([entries |-> es, errors |-> all])
  BY <1>3, <1>4 DEF Listed, all
<1> QED
  BY <1>3, <1>5 DEF all
-----------------------------------------------------------------------------
LEMMA AddFilesKeepsLoadInv == LoadInv /\ AddFiles => LoadInv'
<1> SUFFICES ASSUME LoadInv, AddFiles PROVE LoadInv'
  OBVIOUS
<1> DEFINE old == [entries |-> entries, errors |-> errors]
<1>1. PICK c \in DOMAIN Calls \ called :
          /\ entries' = AddFilesInternal(old, Calls[c]).entries
          /\ errors' = AddFilesInternal(old, Calls[c]).errors
  BY DEF AddFiles
<1>2. phase = "add" /\ phase' = "add" /\ task' = task
  BY DEF AddFiles
<1>3. Listed(old) /\ Calls[c].globs \in Seq(Globs)
  BY <1>2, CallsOK DEF LoadInv
<1> DEFINE new == AddFilesInternal(old, Calls[c])
<1> HIDE DEF old
<1>4. Listed(new)
  BY <1>3, CallKeepsListed
<1>5. new = [entries |-> entries', errors |-> errors']
  BY <1>1, <1>4 DEF Listed
<1> HIDE DEF new
<1>6. Listed([entries |-> entries', errors |-> errors'])
  BY <1>4, <1>5
<1> QED
  BY <1>2, <1>6 DEF LoadInv, Searched

LEMMA AddLibraryMapsKeepsLoadInv == LoadInv /\ AddLibraryMaps => LoadInv'
<1> SUFFICES ASSUME LoadInv, AddLibraryMaps PROVE LoadInv'
  OBVIOUS
<1> DEFINE old == [entries |-> entries, errors |-> errors]
<1>1. PICK map \in RootMaps \ called :
          /\ entries' = MembersAdded(old, AddMaps(map)).entries
          /\ errors' = MembersAdded(old, AddMaps(map)).errors
  BY MapFold DEF AddLibraryMaps
<1>2. phase = "add" /\ phase' = "add" /\ task' = task
  BY DEF AddLibraryMaps
<1>3. Listed(old) /\ map \in DOMAIN Maps
  BY <1>2, LoaderOK DEF LoadInv
<1> DEFINE new == MembersAdded(old, AddMaps(map))
<1> HIDE DEF old
<1>4. Listed(new)
  BY <1>3, MapKeepsListed
<1>5. new = [entries |-> entries', errors |-> errors']
  BY <1>1, <1>4 DEF Listed
<1> HIDE DEF new
<1>6. Listed([entries |-> entries', errors |-> errors'])
  BY <1>4, <1>5
<1> QED
  BY <1>2, <1>6 DEF LoadInv, Searched

LEMMA StartThreadedKeepsLoadInv == LoadInv /\ StartThreaded => LoadInv'
<1> SUFFICES ASSUME LoadInv, StartThreaded PROVE LoadInv'
  OBVIOUS
<1>1. /\ phase = "add" /\ phase' = "parse" /\ Threaded
      /\ results' = [k \in DOMAIN entries |-> "none"]
      /\ entries' = entries /\ errors' = errors /\ task' = task /\ options' = options
  BY DEF StartThreaded
<1>2. /\ DOMAIN results' = DOMAIN entries
      /\ \A k \in DOMAIN entries : results'[k] = "none"
  BY <1>1
<1>3. \A w \in Workers : task'[w] = NoTask
  BY <1>1 DEF LoadInv
<1>4. Loading(entries, errors, results, task)'
  BY <1>1, <1>2, <1>3 DEF Loading, Threaded, TaskOK, PastAppend
<1> QED
  BY <1>1, <1>4 DEF LoadInv, Searched

LEMMA TiedReportsAreSeq ==
    ASSUME NEW es, NEW E, es \in Seq(E)
    PROVE  LET reports == [k \in DOMAIN es |->
                              IF es[k].secondLib # NoLibrary THEN <<MultipleLibraries(es[k])>> ELSE <<>>]
           IN  /\ \E T : FlattenSeq(reports) \in Seq(T) /\ \A m \in T : m.kind = "libraries"
               /\ \A k \in DOMAIN es : Tied(es[k]) => Reported(es[k], FlattenSeq(reports))
<1> DEFINE reports == [k \in DOMAIN es |->
                          IF es[k].secondLib # NoLibrary THEN <<MultipleLibraries(es[k])>> ELSE <<>>]
           T == {MultipleLibraries(es[k]) : k \in DOMAIN es}
<1>1. Len(es) \in Nat /\ DOMAIN es = 1 .. Len(es)
  BY SeqFacts
<1>2. \A k \in DOMAIN es : MultipleLibraries(es[k]) \in T
  OBVIOUS
<1>3. ASSUME NEW k \in DOMAIN es
      PROVE  /\ reports[k] \in Seq(T)
             /\ Tied(es[k]) => reports[k] = <<MultipleLibraries(es[k])>>
  <2>1. PICK m \in T : m = MultipleLibraries(es[k])
    BY <1>2
  <2>2. <<m>> \in Seq(T) /\ <<>> \in Seq(T)
    OBVIOUS
  <2> HIDE DEF T
  <2> QED
    BY <2>1, <2>2 DEF Tied
<1>4. reports = [k \in 1 .. Len(es) |-> reports[k]]
  BY <1>1
<1>5. reports \in Seq(Seq(T)) /\ DOMAIN reports = DOMAIN es
  <2> HIDE DEF reports, T
  <2> QED
    BY <1>1, <1>3, <1>4
<1>6. ASSUME NEW k \in DOMAIN es, Tied(es[k]) PROVE Reported(es[k], FlattenSeq(reports))
  <2> DEFINE m == MultipleLibraries(es[k])
  <2>1. reports[k] = <<m>>
    BY <1>3, <1>6
  <2>2. m \in ToSet(<<m>>)
    <3> HIDE DEF m
    <3> QED
      BY DEF ToSet
  <2>3. reports[k] \in ToSet(reports)
    BY <1>5 DEF ToSet
  <2> HIDE DEF reports, T, m
  <2>4. m \in ToSet(FlattenSeq(reports))
    BY <1>5, <2>1, <2>2, <2>3, FlattenFacts
  <2> QED
    BY <2>4 DEF Reported, m
<1>7. FlattenSeq(reports) \in Seq(T)
  BY <1>5, FlattenFacts
<1>8. \A m \in T : m.kind = "libraries"
  BY DEF MultipleLibraries
<1> HIDE DEF T
<1> QED
  BY <1>6, <1>7, <1>8

LEMMA StartSequentialKeepsLoadInv == LoadInv /\ StartSequential => LoadInv'
<1> SUFFICES ASSUME LoadInv, StartSequential PROVE LoadInv'
  OBVIOUS
<1> DEFINE reports == [k \in DOMAIN entries |->
                          IF entries[k].secondLib # NoLibrary THEN <<MultipleLibraries(entries[k])>> ELSE <<>>]
<1>1. /\ phase = "add" /\ phase' = "arrange" /\ ~Threaded
      /\ results' = [k \in DOMAIN entries |-> Classify(entries[k])]
      /\ errors' = errors \o FlattenSeq(reports)
      /\ entries' = entries /\ task' = task /\ options' = options
  BY DEF StartSequential
<1>2. Listed([entries |-> entries, errors |-> errors])
  BY <1>1 DEF LoadInv
<1>3. PICK E : entries \in Seq(E)
  BY <1>2 DEF Listed
<1>4. /\ \E T : FlattenSeq(reports) \in Seq(T)
      /\ \A k \in DOMAIN entries : Tied(entries[k]) => Reported(entries[k], FlattenSeq(reports))
  BY <1>3, TiedReportsAreSeq
<1> HIDE DEF reports
<1>5. PICK T : FlattenSeq(reports) \in Seq(T)
  BY <1>4
<1>6. /\ Listed([entries |-> entries, errors |-> errors'])
      /\ ToSet(errors') = ToSet(errors) \cup ToSet(FlattenSeq(reports))
  BY <1>1, <1>2, <1>5, ErrorsGrow
<1>7. AllReported(entries, errors')
  BY <1>4, <1>6 DEF AllReported, Reported
<1>8. AllClassified(entries, results)'
  BY <1>1 DEF AllClassified, Classify
<1> QED
  BY <1>1, <1>6, <1>7, <1>8 DEF LoadInv, Searched

\* A worker changes its own task only.
LEMMA TaskFacts ==
    ASSUME NEW tasks, DOMAIN tasks = Workers, NEW w \in Workers, NEW t
    PROVE  /\ DOMAIN [tasks EXCEPT ![w] = t] = Workers
           /\ [tasks EXCEPT ![w] = t] = [v \in Workers |-> [tasks EXCEPT ![w] = t][v]]
           /\ \A v \in Workers : [tasks EXCEPT ![w] = t][v] = IF v = w THEN t ELSE tasks[v]
<1> DEFINE new == [tasks EXCEPT ![w] = t]
<1>1. DOMAIN new = Workers /\ \A v \in Workers : new[v] = IF v = w THEN t ELSE tasks[v]
  OBVIOUS
<1>2. new = [v \in Workers |-> new[v]]
  OBVIOUS
<1> QED
  BY <1>1, <1>2

LEMMA BeginLoadKeepsLoadInv ==
    ASSUME NEW w \in Workers
    PROVE  LoadInv /\ BeginLoad(w) => LoadInv'
<1> SUFFICES ASSUME LoadInv, BeginLoad(w) PROVE LoadInv'
  OBVIOUS
<1>1. PICK k \in DOMAIN entries :
          task' = [task EXCEPT ![w] =
                      [entry |-> k, at |-> IF entries[k].secondLib # NoLibrary THEN "append" ELSE "load",
                       size |-> Len(errors)]]
  BY DEF BeginLoad
<1>2. /\ phase = "parse" /\ phase' = "parse"
      /\ entries' = entries /\ errors' = errors /\ results' = results /\ options' = options
  BY DEF BeginLoad
<1> DEFINE t == [entry |-> k, at |-> IF entries[k].secondLib # NoLibrary THEN "append" ELSE "load",
                 size |-> Len(errors)]
<1>3. /\ DOMAIN task' = Workers /\ task' = [v \in Workers |-> task'[v]]
      /\ \A v \in Workers : task'[v] = IF v = w THEN t ELSE task[v]
  BY <1>1, TaskFacts DEF LoadInv
<1>4. Len(errors) \in Nat
  BY <1>2, SeqFacts DEF LoadInv, Listed
<1>5. /\ t.entry = k /\ t.at \in {"append", "load"} /\ t.size \in Nat
      /\ t.at = "append" => Tied(entries[k])
      /\ t.at = "load" => ~Tied(entries[k])
  BY <1>4 DEF Tied
<1> HIDE DEF t
<1>6. Loading(entries, errors, results, task)
  BY <1>2 DEF LoadInv
<1>7. \A v \in Workers : TaskOK(task'[v], entries)
  BY <1>3, <1>5, <1>6 DEF Loading, TaskOK
<1>8. ASSUME NEW j \in DOMAIN entries, Tied(entries[j]), PastAppend(j, results, task')
      PROVE  PastAppend(j, results, task)
  BY <1>3, <1>5, <1>8 DEF PastAppend
<1>9. Loading(entries, errors, results, task')
  BY <1>6, <1>7, <1>8 DEF Loading
<1>10. Loading(entries, errors, results, task)'
  BY <1>2, <1>9 DEF Loading, Threaded, Classify
<1> QED
  BY <1>2, <1>3, <1>10 DEF LoadInv, Searched

LEMMA EndAppendKeepsLoadInv ==
    ASSUME NEW w \in Workers
    PROVE  LoadInv /\ EndAppend(w) => LoadInv'
<1> SUFFICES ASSUME LoadInv, EndAppend(w) PROVE LoadInv'
  OBVIOUS
<1> DEFINE k == task[w].entry
           size == task[w].size
           m == MultipleLibraries(entries[k])
           t == [task[w] EXCEPT !.at = "load"]
<1>1. /\ phase = "parse" /\ phase' = "parse" /\ task[w] # NoTask /\ task[w].at = "append"
      /\ task' = [task EXCEPT ![w].at = "load"]
      /\ entries' = entries /\ results' = results /\ options' = options
  BY DEF EndAppend
<1>2. Loading(entries, errors, results, task)
  BY <1>1 DEF LoadInv
<1>3. /\ DOMAIN task' = Workers /\ task' = [v \in Workers |-> task'[v]]
      /\ \A v \in Workers : task'[v] = IF v = w THEN t ELSE task[v]
  <2>1. task' = [task EXCEPT ![w] = t]
    BY <1>1
  <2> HIDE DEF t
  <2> QED
    BY <2>1, TaskFacts DEF LoadInv
<1>4. k \in DOMAIN entries /\ Tied(entries[k]) /\ size \in Nat
  BY <1>1, <1>2 DEF Loading, TaskOK
<1>5. PICK kept \in Slots(size) : errors' = Append(kept, m)
  BY DEF EndAppend
<1>6. (\E R : errors' \in Seq(R)) /\ ToSet(errors') = ToSet(kept) \cup {m}
  <2>1. kept = [i \in 1 .. size |-> kept[i]]
    BY DEF Slots
  <2> HIDE DEF size, m
  <2>2. PICK R : kept \in Seq(R)
    BY <1>4, <2>1, MadeSeq
  <2>3. Append(kept, m) \in Seq(R \cup {m})
    BY <2>2, AppendFacts
  <2>4. ToSet(Append(kept, m)) = ToSet(kept) \cup {m}
    BY <2>2, AppendedSet
  <2> QED
    BY <1>5, <2>3, <2>4
<1>7. Listed([entries |-> entries, errors |-> errors'])
  BY <1>1, <1>6 DEF LoadInv, Listed
<1>8. \A v \in Workers : TaskOK(task'[v], entries)
  <2>1. TaskOK(t, entries)
    <3>1. t.entry = k /\ t.at = "load" /\ t.size = size
      BY <1>2
    <3> QED
      BY <1>4, <3>1 DEF TaskOK
  <2> HIDE DEF t
  <2> QED
    BY <1>2, <1>3, <2>1 DEF Loading
<1>9. ASSUME OneTie(entries), NEW j \in DOMAIN entries, Tied(entries[j])
      PROVE  Reported(entries[j], errors')
  BY <1>4, <1>6, <1>9 DEF OneTie, Reported
<1> HIDE DEF k, size, m, t
<1>10. Loading(entries, errors', results, task')
  BY <1>2, <1>8, <1>9 DEF Loading
<1>11. Loading(entries, errors, results, task)'
  BY <1>1, <1>10 DEF Loading, Threaded, Classify
<1> QED
  BY <1>1, <1>3, <1>7, <1>11 DEF LoadInv, Searched

LEMMA LoadAndParseKeepsLoadInv ==
    ASSUME NEW w \in Workers
    PROVE  LoadInv /\ LoadAndParse(w) => LoadInv'
<1> SUFFICES ASSUME LoadInv, LoadAndParse(w) PROVE LoadInv'
  OBVIOUS
<1> DEFINE k == task[w].entry
<1>1. /\ phase = "parse" /\ phase' = "parse" /\ task[w] # NoTask /\ task[w].at = "load"
      /\ results' = [results EXCEPT ![k] = Classify(entries[k])]
      /\ task' = [task EXCEPT ![w] = NoTask]
      /\ entries' = entries /\ errors' = errors /\ options' = options
  BY DEF LoadAndParse
<1>2. Loading(entries, errors, results, task)
  BY <1>1 DEF LoadInv
<1>3. /\ DOMAIN task' = Workers /\ task' = [v \in Workers |-> task'[v]]
      /\ \A v \in Workers : task'[v] = IF v = w THEN NoTask ELSE task[v]
  BY <1>1, TaskFacts DEF LoadInv
<1>4. k \in DOMAIN entries
  BY <1>1, <1>2 DEF Loading, TaskOK
<1>5. PastAppend(k, results, task)
  BY <1>1 DEF PastAppend
<1> HIDE DEF k
<1>6. /\ DOMAIN results' = DOMAIN entries
      /\ \A j \in DOMAIN entries : results'[j] = IF j = k THEN Classify(entries[k]) ELSE results[j]
  BY <1>1, <1>2, <1>4 DEF Loading
<1>7. \A v \in Workers : TaskOK(task'[v], entries)
  BY <1>2, <1>3 DEF Loading, TaskOK
<1>8. ASSUME NEW j \in DOMAIN entries, PastAppend(j, results', task')
      PROVE  PastAppend(j, results, task)
  <2>1. CASE j = k
    BY <1>5, <2>1
  <2>2. CASE j # k
    BY <1>3, <1>6, <1>8, <2>2 DEF PastAppend
  <2> QED
    BY <2>1, <2>2
<1>9. \A j \in DOMAIN entries : results'[j] \in {"none", Classify(entries[j])}
  BY <1>2, <1>6 DEF Loading
<1>10. Loading(entries, errors, results', task')
  BY <1>2, <1>6, <1>7, <1>8, <1>9 DEF Loading
<1>11. Loading(entries, errors, results, task)'
  BY <1>1, <1>10 DEF Loading, Threaded, Classify
<1> QED
  BY <1>1, <1>3, <1>11 DEF LoadInv, Searched

LEMMA WaitForLoadsKeepsLoadInv == LoadInv /\ WaitForLoads => LoadInv'
<1> SUFFICES ASSUME LoadInv, WaitForLoads PROVE LoadInv'
  OBVIOUS
<1>1. /\ phase = "parse" /\ phase' = "arrange"
      /\ \A k \in DOMAIN entries : results[k] # "none"
      /\ entries' = entries /\ errors' = errors /\ results' = results /\ task' = task
      /\ options' = options
  BY DEF WaitForLoads
<1>2. Loading(entries, errors, results, task)
  BY <1>1 DEF LoadInv
<1>3. OneTie(entries) => AllReported(entries, errors)
  BY <1>1, <1>2 DEF Loading, PastAppend, AllReported
<1>4. AllClassified(entries, results)
  BY <1>1, <1>2 DEF Loading, AllClassified
<1>5. AllClassified(entries, results)'
  BY <1>1, <1>4 DEF AllClassified, Classify
<1>6. Threaded'
  BY <1>1, <1>2 DEF Loading, Threaded
<1> QED
  BY <1>1, <1>3, <1>5, <1>6 DEF LoadInv, Searched
-----------------------------------------------------------------------------
(***************************************************************************)
(* The files of the entries with one result: each once.                    *)
(***************************************************************************)
Selected(result, es) == {k \in DOMAIN entries : results[k] = result /\ entries[k] \in es}
Paths(I) == {entries[k].path : k \in I}

LEMMA FilesWithFacts ==
    ASSUME NEW E, entries \in Seq(E), Distinct(entries), NEW result, NEW es
    PROVE  /\ FilesWith(result, es) \in Seq(Paths(DOMAIN entries))
           /\ ToSet(FilesWith(result, es)) = Paths(Selected(result, es))
           /\ IsInjective(FilesWith(result, es))
<1> DEFINE parts == [k \in DOMAIN entries |->
                        IF results[k] = result /\ entries[k] \in es THEN <<entries[k].path>> ELSE <<>>]
           P == Paths(DOMAIN entries)
           I == Selected(result, es)
<1>1. Len(entries) \in Nat /\ DOMAIN entries = 1 .. Len(entries)
  BY SeqFacts
<1>2. FilesWith(result, es) = FlattenSeq(parts)
  BY DEF FilesWith
<1>3. \A p : /\ \A S : p \in S => <<p>> \in Seq(S)
             /\ ToSet(<<p>>) = {p} /\ IsInjective(<<p>>)
  <2> SUFFICES ASSUME NEW p PROVE /\ \A S : p \in S => <<p>> \in Seq(S)
                                  /\ ToSet(<<p>>) = {p} /\ IsInjective(<<p>>)
    OBVIOUS
  <2> DEFINE one == <<p>>
  <2>1. one \in Seq({p}) /\ Len(one) = 1 /\ one[1] = p /\ DOMAIN one = {1}
    OBVIOUS
  <2>2. ToSet(one) = {p} /\ IsInjective(one)
    BY <2>1 DEF ToSet, IsInjective
  <2> QED
    BY <2>1, <2>2
<1>4. \A S : <<>> \in Seq(S) /\ ToSet(<<>>) = {} /\ IsInjective(<<>>)
  BY DEF ToSet, IsInjective
<1>5. \A k \in DOMAIN entries : entries[k].path \in P
  BY DEF Paths
<1>6. ASSUME NEW k \in DOMAIN entries
      PROVE  /\ parts[k] \in Seq(P) /\ IsInjective(parts[k])
             /\ ToSet(parts[k]) = IF k \in I THEN {entries[k].path} ELSE {}
  <2>1. CASE k \in I
    <3>1. parts[k] = <<entries[k].path>>
      BY <2>1 DEF Selected
    <3> HIDE DEF parts, I, P
    <3> QED
      BY <1>3, <1>5, <2>1, <3>1
  <2>2. CASE k \notin I
    <3>1. parts[k] = <<>>
      BY <2>2 DEF Selected
    <3> HIDE DEF parts, I, P
    <3> QED
      BY <1>4, <2>2, <3>1
  <2> QED
    BY <2>1, <2>2
<1>7. parts = [k \in 1 .. Len(entries) |-> parts[k]]
  BY <1>1
<1>8. I \subseteq DOMAIN entries
  BY DEF Selected
<1> HIDE DEF parts, P, I
<1>9. parts \in Seq(Seq(P)) /\ DOMAIN parts = DOMAIN entries
  BY <1>1, <1>6, <1>7
<1>10. FlattenSeq(parts) \in Seq(P)
  BY <1>9, FlattenFacts
<1>11. ToSet(FlattenSeq(parts)) = Paths(I)
  <2>1. ToSet(FlattenSeq(parts)) = UNION {ToSet(s) : s \in ToSet(parts)}
    BY <1>9, FlattenFacts
  <2>2. ToSet(parts) = {parts[k] : k \in DOMAIN entries}
    BY <1>9 DEF ToSet
  <2>3. UNION {ToSet(s) : s \in ToSet(parts)} = UNION {ToSet(parts[k]) : k \in DOMAIN entries}
    BY <2>2
  <2>4. UNION {ToSet(parts[k]) : k \in DOMAIN entries} = Paths(I)
    BY <1>6, <1>8 DEF Paths
  <2> QED
    BY <2>1, <2>3, <2>4
<1>12. Apart(parts)
  <2> SUFFICES ASSUME NEW k \in DOMAIN entries, NEW j \in DOMAIN entries, j # k
               PROVE  ToSet(parts[j]) \cap ToSet(parts[k]) = {}
    BY <1>6, <1>9 DEF Apart
  <2>1. entries[j].path # entries[k].path
    BY DEF Distinct
  <2>2. ToSet(parts[j]) \subseteq {entries[j].path} /\ ToSet(parts[k]) \subseteq {entries[k].path}
    BY <1>6
  <2> QED
    BY <2>1, <2>2
<1>13. IsInjective(FlattenSeq(parts))
  BY <1>9, <1>12, FlattenFacts
<1> QED
  BY <1>2, <1>10, <1>11, <1>13 DEF P, I
-----------------------------------------------------------------------------
\* What Arrange says of the files that cannot be read.
LEMMA CannotReadFacts ==
    ASSUME NEW E, entries \in Seq(E), Distinct(entries)
    PROVE  LET bad == FilesWith("error", ToSet(entries))
               reports == [k \in DOMAIN bad |-> CannotRead(bad[k])]
           IN  /\ \E T : reports \in Seq(T)
               /\ ToSet(reports) = {CannotRead(p) : p \in ToSet(bad)}
<1> DEFINE bad == FilesWith("error", ToSet(entries))
           reports == [k \in DOMAIN bad |-> CannotRead(bad[k])]
<1>1. bad \in Seq(Paths(DOMAIN entries))
  BY FilesWithFacts
<1> HIDE DEF bad
<1>2. Len(bad) \in Nat /\ DOMAIN bad = 1 .. Len(bad)
  BY <1>1, SeqFacts
<1>3. /\ reports = [k \in 1 .. Len(bad) |-> reports[k]]
      /\ \A k \in 1 .. Len(bad) : reports[k] = CannotRead(bad[k])
  BY <1>2
<1> HIDE DEF reports
<1>4. \E T : reports \in Seq(T)
  BY <1>2, <1>3, MadeSeq
<1>5. ToSet(reports) = {reports[k] : k \in 1 .. Len(bad)}
  BY <1>2, <1>3, MadeSeq
<1>6. ToSet(reports) = {CannotRead(p) : p \in ToSet(bad)}
  BY <1>2, <1>3, <1>5 DEF ToSet
<1> QED
  BY <1>4, <1>6 DEF reports, bad

LEMMA ArrangeKeepsLoadInv == LoadInv /\ Arrange => LoadInv'
<1> SUFFICES ASSUME LoadInv, Arrange PROVE LoadInv'
  OBVIOUS
<1> DEFINE bad == FilesWith("error", ToSet(entries))
           reports == [k \in DOMAIN bad |-> CannotRead(bad[k])]
<1>1. /\ phase = "arrange" /\ phase' \in {"search", "done"}
      /\ errors' = errors \o reports
      /\ entries' = entries /\ results' = results /\ task' = task /\ options' = options
  BY DEF Arrange
<1>2. Listed([entries |-> entries, errors |-> errors])
  BY <1>1 DEF LoadInv
<1>3. PICK E : entries \in Seq(E)
  BY <1>2 DEF Listed
<1>4. Distinct(entries)
  BY <1>2 DEF Listed
<1>5. PICK T : reports \in Seq(T)
  BY <1>3, <1>4, CannotReadFacts
<1> HIDE DEF reports
<1>6. /\ Listed([entries |-> entries, errors |-> errors'])
      /\ ToSet(errors') = ToSet(errors) \cup ToSet(reports)
  BY <1>1, <1>2, <1>5, ErrorsGrow
<1>7. ~Threaded \/ OneTie(entries) => AllReported(entries, errors')
  BY <1>1, <1>6 DEF LoadInv, AllReported, Reported
<1>8. AllClassified(entries, results)'
  BY <1>1 DEF LoadInv, AllClassified, Classify
<1>9. Threaded' <=> Threaded
  BY <1>1 DEF Threaded
<1> QED
  BY <1>1, <1>6, <1>7, <1>8, <1>9 DEF LoadInv, Searched

\* The search leaves what the entries became alone.
LEMMA SearchKeepsLoadInv ==
    ASSUME LoadInv, phase \in Searched, phase' \in Searched,
           UNCHANGED <<entries, errors, results, task, options>>
    PROVE  LoadInv'
<1>1. AllClassified(entries, results)'
  BY DEF LoadInv, AllClassified, Classify
<1>2. Threaded' <=> Threaded
  BY DEF Threaded
<1> QED
  BY <1>1, <1>2 DEF LoadInv, Searched

LEMMA NextKeepsLoadInv == LoadInv /\ [Next]_vars => LoadInv'
<1> SUFFICES ASSUME LoadInv, [Next]_vars PROVE LoadInv'
  OBVIOUS
<1>1. CASE AddFiles
  BY <1>1, AddFilesKeepsLoadInv
<1>2. CASE AddLibraryMaps
  BY <1>2, AddLibraryMapsKeepsLoadInv
<1>3. CASE LoadSources
  BY <1>3 DEF LoadSources, LoadInv, Searched
<1>4. CASE StartThreaded
  BY <1>4, StartThreadedKeepsLoadInv
<1>5. CASE StartSequential
  BY <1>5, StartSequentialKeepsLoadInv
<1>6. CASE \E w \in Workers : BeginLoad(w) \/ EndAppend(w) \/ LoadAndParse(w)
  BY <1>6, BeginLoadKeepsLoadInv, EndAppendKeepsLoadInv, LoadAndParseKeepsLoadInv
<1>7. CASE WaitForLoads
  BY <1>7, WaitForLoadsKeepsLoadInv
<1>8. CASE Arrange
  BY <1>8, ArrangeKeepsLoadInv
<1>9. CASE SearchOne \/ StartBatch \/ FindNext \/ ParseFound \/ WaitForBatch \/ Commit \/ FinishSearch
  <2>1. /\ phase \in Searched /\ phase' \in Searched
        /\ UNCHANGED <<entries, errors, results, task, options>>
    BY <1>9 DEF SearchOne, StartBatch, FindNext, ParseFound, WaitForBatch, Commit, FinishSearch,
                searchVars, Searched
  <2> QED
    BY <2>1, SearchKeepsLoadInv
<1>10. CASE Terminated \/ UNCHANGED vars
  <2>1. UNCHANGED <<phase, entries, errors, results, task, options>>
    BY <1>10 DEF Terminated, vars
  <2>2. (AllClassified(entries, results)' <=> AllClassified(entries, results)) /\ (Threaded' <=> Threaded)
        /\ (Loading(entries, errors, results, task)' <=> Loading(entries, errors, results, task))
    BY <2>1 DEF AllClassified, Classify, Threaded, Loading
  <2> QED
    BY <2>1, <2>2 DEF LoadInv, Searched
<1> QED
  BY <1>1, <1>2, <1>3, <1>4, <1>5, <1>6, <1>7, <1>8, <1>9, <1>10 DEF Next, Work

(***************************************************************************)
(* What loadAndParseSources keeps while threads load the entries: each     *)
(* path is listed once, a result says what loadAndParse makes of its       *)
(* entry, and the ties that no race lost are in errors.                    *)
(***************************************************************************)
THEOREM LoadInvariant == Spec => []LoadInv
  BY LoadInvInit, NextKeepsLoadInv, PTL DEF Spec

(***************************************************************************)
(* A file that two libraries claim is reported by loadAndParseSources: by  *)
(* the main thread always, by the pool whenever no second such file is     *)
(* there for two threads to append at once.                                *)
(***************************************************************************)
LEMMA FewTies ==
    ASSUME NEW E, entries \in Seq(E), Distinct(entries),
           Cardinality({e \in ToSet(entries) : e.secondLib # NoLibrary}) < 2
    PROVE  OneTie(entries)
<1> DEFINE tied == {e \in ToSet(entries) : e.secondLib # NoLibrary}
<1> SUFFICES ASSUME NEW j \in DOMAIN entries, NEW k \in DOMAIN entries,
                    Tied(entries[j]), Tied(entries[k]), j # k
             PROVE  FALSE
  BY DEF OneTie
<1>1. entries[j] \in tied /\ entries[k] \in tied
  BY DEF ToSet, Tied
<1>2. entries[j] # entries[k]
  BY DEF Distinct
<1>3. IsFiniteSet(tied)
  <2>1. Len(entries) \in Nat /\ DOMAIN entries = 1 .. Len(entries)
    BY SeqFacts
  <2>2. IsFiniteSet(1 .. Len(entries))
    BY <2>1, FS_Interval
  <2>3. ToSet(entries) = {entries[i] : i \in 1 .. Len(entries)}
    BY <2>1 DEF ToSet
  <2>4. IsFiniteSet(ToSet(entries))
    <3>1. entries \in Surjection(1 .. Len(entries), ToSet(entries))
      BY <2>1, <2>3 DEF Surjection
    <3> QED
      BY <2>2, <3>1, FS_Surjection
  <2> QED
    BY <2>4, FS_Subset
<1> DEFINE two == {entries[j], entries[k]}
<1>4. Cardinality(two) <= Cardinality(tied) /\ Cardinality(tied) \in Nat
  BY <1>1, <1>3, FS_Subset, FS_CardinalityType
<1>5. Cardinality(two) = 2
  <2>1. PICK a : a = entries[j]
    OBVIOUS
  <2>2. PICK b : b = entries[k]
    OBVIOUS
  <2>3. PICK one : one = {a}
    OBVIOUS
  <2>4. Cardinality(one) = 1 /\ IsFiniteSet(one)
    BY <2>3, FS_Singleton
  <2>5. b \notin one
    BY <1>2, <2>1, <2>2, <2>3
  <2>6. Cardinality(one \cup {b}) = Cardinality(one) + 1
    BY <2>4, <2>5, FS_AddElement
  <2>7. two = one \cup {b}
    BY <2>1, <2>2, <2>3
  <2> HIDE DEF two
  <2> QED
    BY <2>4, <2>6, <2>7
<1>6. Cardinality(tied) < 2
  OBVIOUS
<1> HIDE DEF two, tied
<1> QED
  BY <1>4, <1>5, <1>6

(***************************************************************************)
(* A file that two libraries claim with the same rank is reported by       *)
(* loadAndParse, unless two such files let two threads append at once.     *)
(***************************************************************************)
THEOREM TiesReported == Spec => []UnracedTiesReported
<1>1. LoadInv => UnracedTiesReported
  <2> SUFFICES ASSUME LoadInv,
                      phase \in {"arrange", "search", "find", "batch", "commit", "done"},
                      \/ ~Threaded
                      \/ Cardinality({e \in ToSet(entries) : e.secondLib # NoLibrary}) < 2,
                      NEW e \in {x \in ToSet(entries) : x.secondLib # NoLibrary}
               PROVE  MultipleLibraries(e) \in ToSet(errors)
    BY DEF UnracedTiesReported
  <2>1. (\E E : entries \in Seq(E)) /\ Distinct(entries)
    BY DEF LoadInv, Listed
  <2>2. ~Threaded \/ OneTie(entries)
    BY <2>1, FewTies
  <2>3. AllReported(entries, errors)
    BY <2>2 DEF LoadInv, Searched
  <2>4. PICK k \in DOMAIN entries : e = entries[k]
    BY DEF ToSet
  <2> QED
    BY <2>3, <2>4 DEF AllReported, Tied, Reported
<1> QED
  BY <1>1, LoadInvariant, PTL
-----------------------------------------------------------------------------
(***************************************************************************)
(* Trees that hold each of a set of files once.                            *)
(***************************************************************************)
Holds(ts, P) ==
    /\ \E T : ts \in Seq(T)
    /\ \A k \in DOMAIN ts : ts[k].files \in Seq(Files) /\ IsInjective(ts[k].files)
    /\ \A j, k \in DOMAIN ts : j # k => ToSet(ts[j].files) \cap ToSet(ts[k].files) = {}
    /\ P = UNION {ToSet(ts[k].files) : k \in DOMAIN ts}

LEMMA HoldsNothing == Holds(<<>>, {})
<1>1. <<>> \in Seq({}) /\ DOMAIN <<>> = {}
  OBVIOUS
<1> QED
  BY <1>1 DEF Holds

LEMMA HoldsOne ==
    ASSUME NEW tree, tree.files \in Seq(Files), IsInjective(tree.files)
    PROVE  Holds(<<tree>>, ToSet(tree.files))
<1> DEFINE one == <<tree>>
<1>1. one \in Seq({tree}) /\ DOMAIN one = {1} /\ one[1] = tree
  OBVIOUS
<1> HIDE DEF one
<1>2. Holds(one, ToSet(tree.files))
  BY <1>1 DEF Holds
<1> QED
  BY <1>2 DEF one

LEMMA HoldsJoined ==
    ASSUME NEW a, NEW P, Holds(a, P), NEW b, NEW Q, Holds(b, Q), P \cap Q = {}
    PROVE  Holds(a \o b, P \cup Q)
<1>1. PICK A : a \in Seq(A)
  BY DEF Holds
<1>2. PICK B : b \in Seq(B)
  BY DEF Holds
<1> DEFINE ab == a \o b
           n == Len(a)
           m == Len(b)
<1>3. a \in Seq(A \cup B) /\ b \in Seq(A \cup B)
  BY <1>1, <1>2, SeqMonotonic
<1>4. /\ n \in Nat /\ m \in Nat /\ DOMAIN a = 1 .. n /\ DOMAIN b = 1 .. m
      /\ ab \in Seq(A \cup B) /\ Len(ab) = n + m
  BY <1>3, SeqFacts, ConcatProperties
<1>5. \A i \in 1 .. n + m : ab[i] = IF i <= n THEN a[i] ELSE b[i - n]
  BY <1>3, ConcatProperties
<1>6. DOMAIN ab = 1 .. n + m
  BY <1>4, SeqFacts
<1> HIDE DEF ab, n, m
<1>7. ASSUME NEW i \in 1 .. n + m
      PROVE  \/ i \in 1 .. n /\ ab[i] = a[i] /\ ToSet(ab[i].files) \subseteq P
             \/ i - n \in 1 .. m /\ ab[i] = b[i - n] /\ ToSet(ab[i].files) \subseteq Q
  <2>1. CASE i <= n
    <3>1. i \in 1 .. n /\ ab[i] = a[i]
      BY <1>4, <1>5, <2>1
    <3> QED
      BY <1>4, <3>1 DEF Holds
  <2>2. CASE ~(i <= n)
    <3>1. i - n \in 1 .. m /\ ab[i] = b[i - n]
      BY <1>4, <1>5, <2>2
    <3> QED
      BY <1>4, <3>1 DEF Holds
  <2> QED
    BY <2>1, <2>2
<1>8. \A i \in DOMAIN ab : ab[i].files \in Seq(Files) /\ IsInjective(ab[i].files)
  BY <1>4, <1>6, <1>7 DEF Holds
<1>9. ASSUME NEW i \in DOMAIN ab, NEW j \in DOMAIN ab, i # j
      PROVE  ToSet(ab[i].files) \cap ToSet(ab[j].files) = {}
  <2>1. i \in 1 .. n + m /\ j \in 1 .. n + m /\ i - n # j - n
    BY <1>4, <1>6, <1>9
  <2>2. CASE i \in 1 .. n /\ ab[i] = a[i] /\ j \in 1 .. n /\ ab[j] = a[j]
    BY <1>4, <1>9, <2>2 DEF Holds
  <2>3. CASE i - n \in 1 .. m /\ ab[i] = b[i - n] /\ j - n \in 1 .. m /\ ab[j] = b[j - n]
    BY <1>4, <2>1, <2>3 DEF Holds
  <2>4. CASE \/ ToSet(ab[i].files) \subseteq P /\ ToSet(ab[j].files) \subseteq Q
             \/ ToSet(ab[i].files) \subseteq Q /\ ToSet(ab[j].files) \subseteq P
    BY <2>4
  <2> QED
    BY <1>7, <2>1, <2>2, <2>3, <2>4
<1>10. P \cup Q = UNION {ToSet(ab[k].files) : k \in DOMAIN ab}
  <2>1. \A k \in 1 .. n : k \in 1 .. n + m /\ ab[k] = a[k]
    BY <1>4, <1>5
  <2>2. \A k \in 1 .. m : n + k \in 1 .. n + m /\ ab[n + k] = b[k]
    <3> SUFFICES ASSUME NEW k \in 1 .. m PROVE n + k \in 1 .. n + m /\ ab[n + k] = b[k]
      OBVIOUS
    <3>1. n + k \in 1 .. n + m /\ ~(n + k <= n) /\ n + k - n = k
      BY <1>4
    <3>2. PICK i \in 1 .. n + m : i = n + k
      BY <3>1
    <3>3. ab[i] = IF i <= n THEN a[i] ELSE b[i - n]
      BY <1>5
    <3>4. ~(i <= n) /\ i - n = k
      BY <1>4, <3>2
    <3>5. ab[i] = b[k]
      BY <3>3, <3>4
    <3> QED
      BY <3>1, <3>2, <3>5
  <2>3. P = UNION {ToSet(a[k].files) : k \in 1 .. n} /\ Q = UNION {ToSet(b[k].files) : k \in 1 .. m}
    BY <1>4 DEF Holds
  <2>4. \A x \in P : \E k \in 1 .. n : x \in ToSet(ab[k].files)
    BY <2>1, <2>3
  <2>5. \A x \in Q : \E k \in 1 .. m : x \in ToSet(ab[n + k].files)
    BY <2>2, <2>3
  <2>6. P \cup Q \subseteq UNION {ToSet(ab[k].files) : k \in DOMAIN ab}
    BY <1>6, <2>1, <2>2, <2>4, <2>5
  <2>7. UNION {ToSet(ab[k].files) : k \in DOMAIN ab} \subseteq P \cup Q
    BY <1>6, <1>7
  <2> QED
    BY <2>6, <2>7
<1> QED
  BY <1>4, <1>8, <1>9, <1>10 DEF Holds, ab

\* A file of its own for each tree.
LEMMA HoldsEach ==
    ASSUME NEW files \in Seq(Files), IsInjective(files), NEW ts,
           ts = [k \in DOMAIN files |-> ts[k]],
           \A k \in DOMAIN files : ts[k].files = <<files[k]>>
    PROVE  Holds(ts, ToSet(files))
<1>1. Len(files) \in Nat /\ DOMAIN files = 1 .. Len(files) /\ \A k \in DOMAIN files : files[k] \in Files
  BY SeqFacts
<1>2. DOMAIN ts = DOMAIN files /\ \E T : ts \in Seq(T)
  <2>1. ts = [k \in 1 .. Len(files) |-> ts[k]]
    BY <1>1
  <2> QED
    BY <1>1, <2>1, MadeSeq
<1>3. ASSUME NEW k \in DOMAIN files
      PROVE  /\ ts[k].files \in Seq(Files) /\ IsInjective(ts[k].files)
             /\ ToSet(ts[k].files) = {files[k]}
  <2> DEFINE one == <<files[k]>>
  <2>1. one \in Seq(Files) /\ Len(one) = 1 /\ one[1] = files[k] /\ DOMAIN one = {1}
    BY <1>1
  <2> HIDE DEF one
  <2>2. ToSet(one) = {files[k]} /\ IsInjective(one)
    BY <2>1 DEF ToSet, IsInjective
  <2>3. ts[k].files = one
    BY DEF one
  <2> QED
    BY <2>1, <2>2, <2>3
<1>4. ToSet(files) = UNION {ToSet(ts[k].files) : k \in DOMAIN ts}
  BY <1>2, <1>3 DEF ToSet
<1>5. ASSUME NEW j \in DOMAIN files, NEW k \in DOMAIN files, j # k
      PROVE  ToSet(ts[j].files) \cap ToSet(ts[k].files) = {}
  <2>1. files[j] # files[k]
    BY <1>5 DEF IsInjective
  <2>2. ToSet(ts[j].files) = {files[j]} /\ ToSet(ts[k].files) = {files[k]}
    BY <1>3
  <2> QED
    BY <2>1, <2>2
<1> QED
  BY <1>2, <1>3, <1>4, <1>5 DEF Holds

\* A tree for each group, the groups in any order.
Grouped(G, S) ==
    /\ \A g \in S : G[g] \in Seq(Files) /\ IsInjective(G[g])
    /\ \A g, h \in S : g # h => ToSet(G[g]) \cap ToSet(G[h]) = {}

OneTreeEach(ts, G, order) ==
    /\ ts = [k \in DOMAIN order |-> ts[k]]
    /\ \A k \in DOMAIN order : ts[k].files = G[order[k]]

LEMMA HoldsGroups ==
    ASSUME NEW S, IsFiniteSet(S), NEW order \in Orders(S), NEW G, Grouped(G, S),
           NEW ts, OneTreeEach(ts, G, order)
    PROVE  Holds(ts, UNION {ToSet(G[g]) : g \in S})
<1> DEFINE n == Cardinality(S)
<1>1. n \in Nat /\ order \in [1 .. n -> S] /\ IsInjective(order) /\ DOMAIN order = 1 .. n
  BY FS_CardinalityType DEF Orders
<1>2. \A g \in S : \E k \in 1 .. n : order[k] = g
  <2>1. order \in Injection(1 .. n, S)
    BY <1>1 DEF Injection, IsInjective
  <2>2. Cardinality(1 .. n) = n
    BY <1>1, FS_Interval
  <2>3. order \in Surjection(1 .. n, S)
    BY <2>1, <2>2, FS_Injection
  <2> QED
    BY <2>3 DEF Surjection
<1> HIDE DEF n
<1>3. DOMAIN ts = 1 .. n /\ \E T : ts \in Seq(T)
  <2>1. ts = [k \in 1 .. n |-> ts[k]]
    BY <1>1 DEF OneTreeEach
  <2> QED
    BY <1>1, <2>1, MadeSeq
<1>4. \A k \in 1 .. n : order[k] \in S /\ ts[k].files = G[order[k]]
  BY <1>1 DEF OneTreeEach
<1>5. \A k \in 1 .. n : ts[k].files \in Seq(Files) /\ IsInjective(ts[k].files)
  BY <1>4 DEF Grouped
<1>6. ASSUME NEW j \in 1 .. n, NEW k \in 1 .. n, j # k
      PROVE  ToSet(ts[j].files) \cap ToSet(ts[k].files) = {}
  <2>1. order[j] # order[k]
    BY <1>1, <1>6 DEF IsInjective
  <2> QED
    BY <1>4, <2>1 DEF Grouped
<1>7. UNION {ToSet(G[g]) : g \in S} = UNION {ToSet(ts[k].files) : k \in 1 .. n}
  BY <1>2, <1>4
<1> QED
  BY <1>3, <1>5, <1>6, <1>7 DEF Holds
-----------------------------------------------------------------------------
(***************************************************************************)
(* ArrangeTrees: every entry that can be read is in one tree.              *)
(***************************************************************************)
OfLibrary(l) == { e \in ToSet(entries) : e.library = l }
OfUnit(u) == { e \in ToSet(entries) : e.unit = u }

EntriesOK == /\ \E E : entries \in Seq(E)
             /\ Distinct(entries)
             /\ \A k \in DOMAIN entries : IsEntry(entries[k])

LEMMA PathsApart ==
    ASSUME EntriesOK, NEW I \in SUBSET DOMAIN entries, NEW J \in SUBSET DOMAIN entries, I \cap J = {}
    PROVE  Paths(I) \cap Paths(J) = {}
  BY DEF EntriesOK, Distinct, Paths

LEMMA FilesAreFiles ==
    ASSUME EntriesOK, NEW result, NEW es
    PROVE  /\ FilesWith(result, es) \in Seq(Files)
           /\ ToSet(FilesWith(result, es)) = Paths(Selected(result, es))
           /\ IsInjective(FilesWith(result, es))
<1>1. PICK E : entries \in Seq(E)
  BY DEF EntriesOK
<1>2. /\ FilesWith(result, es) \in Seq(Paths(DOMAIN entries))
      /\ ToSet(FilesWith(result, es)) = Paths(Selected(result, es))
      /\ IsInjective(FilesWith(result, es))
  BY <1>1, FilesWithFacts DEF EntriesOK
<1>3. Paths(DOMAIN entries) \subseteq Files
  BY DEF EntriesOK, IsEntry, Paths
<1>4. FilesWith(result, es) \in Seq(Files)
  BY <1>2, <1>3, SeqMonotonic
<1> QED
  BY <1>2, <1>4

LEMMA GroupsAreFinite == EntriesOK => IsFiniteSet(Libraries) /\ IsFiniteSet(Units)
<1> SUFFICES ASSUME EntriesOK PROVE IsFiniteSet(Libraries) /\ IsFiniteSet(Units)
  OBVIOUS
<1>1. PICK n \in Nat : DOMAIN entries = 1 .. n
  BY SeqFacts DEF EntriesOK
<1> DEFINE libraries == [k \in 1 .. n |-> entries[k].library]
           units == [k \in 1 .. n |-> entries[k].unit]
           L == {libraries[k] : k \in 1 .. n}
           U == {units[k] : k \in 1 .. n}
<1>2. IsFiniteSet(1 .. n)
  BY FS_Interval
<1>3. libraries \in Surjection(1 .. n, L) /\ units \in Surjection(1 .. n, U)
  BY DEF Surjection
<1>4. IsFiniteSet(L) /\ IsFiniteSet(U)
  <2> HIDE DEF libraries, units, L, U
  <2> QED
    BY <1>2, <1>3, FS_Surjection
<1>5. Libraries \subseteq L /\ Units \subseteq U
  BY <1>1 DEF Libraries, Units, ToSet
<1> HIDE DEF L, U
<1> QED
  BY <1>4, <1>5, FS_Subset

Together(I, S) == UNION {I[g] : g \in S}
PathsTogether(I, S) == UNION {Paths(I[g]) : g \in S}

LEMMA PathsOfUnion == \A S, I : PathsTogether(I, S) = Paths(Together(I, S))
<1> SUFFICES ASSUME NEW S, NEW I PROVE PathsTogether(I, S) = Paths(Together(I, S))
  OBVIOUS
<1>1. \A p : p \in PathsTogether(I, S) <=> \E g \in S : \E k \in I[g] : p = entries[k].path
  BY DEF Paths, PathsTogether
<1>2. \A p : p \in Paths(Together(I, S)) <=> \E g \in S : \E k \in I[g] : p = entries[k].path
  BY DEF Paths, Together
<1> QED
  BY <1>1, <1>2

LEMMA LibrariesHold ==
    ASSUME EntriesOK, NEW order \in Orders(Libraries), NEW ts,
           ts = [k \in DOMAIN order |-> ts[k]],
           \A k \in DOMAIN order : ts[k].files = SingleFiles(order[k])
    PROVE  Holds(ts, Paths(UNION {Selected("single", OfLibrary(l)) : l \in Libraries}))
<1> DEFINE G == [l \in Libraries |-> SingleFiles(l)]
           I == [l \in Libraries |-> Selected("single", OfLibrary(l))]
<1>1. \A l \in Libraries : /\ G[l] = FilesWith("single", OfLibrary(l))
                           /\ Selected("single", OfLibrary(l)) \in SUBSET DOMAIN entries
  BY DEF SingleFiles, OfLibrary, Selected
<1>2. DOMAIN order = 1 .. Cardinality(Libraries) /\ \A k \in DOMAIN order : order[k] \in Libraries
  BY DEF Orders
<1>3. OneTreeEach(ts, G, order)
  BY <1>2 DEF OneTreeEach
<1> HIDE DEF G
<1>4. \A l \in Libraries : /\ G[l] \in Seq(Files) /\ IsInjective(G[l])
                           /\ ToSet(G[l]) = Paths(Selected("single", OfLibrary(l)))
  BY <1>1, FilesAreFiles
<1>5. ASSUME NEW l \in Libraries, NEW m \in Libraries, l # m
      PROVE  ToSet(G[l]) \cap ToSet(G[m]) = {}
  <2>1. Selected("single", OfLibrary(l)) \cap Selected("single", OfLibrary(m)) = {}
    BY <1>5 DEF Selected, OfLibrary
  <2> QED
    BY <1>1, <1>4, <2>1, PathsApart
<1>6. IsFiniteSet(Libraries)
  BY GroupsAreFinite
<1>7. Grouped(G, Libraries)
  BY <1>4, <1>5 DEF Grouped
<1>8. Holds(ts, UNION {ToSet(G[l]) : l \in Libraries})
  BY <1>3, <1>6, <1>7, HoldsGroups
<1>9. \A l \in Libraries : ToSet(G[l]) = Paths(I[l]) /\ I[l] = Selected("single", OfLibrary(l))
  BY <1>4
<1> HIDE DEF I
<1>10. UNION {ToSet(G[l]) : l \in Libraries} = PathsTogether(I, Libraries)
  BY <1>9 DEF PathsTogether
<1>11. Together(I, Libraries) = UNION {Selected("single", OfLibrary(l)) : l \in Libraries}
  BY <1>9 DEF Together
<1>12. PathsTogether(I, Libraries) = Paths(Together(I, Libraries))
  BY PathsOfUnion
<1> QED
  BY <1>8, <1>10, <1>11, <1>12

LEMMA UnitsHold ==
    ASSUME EntriesOK, NEW order \in Orders(Units), NEW ts,
           ts = [k \in DOMAIN order |-> ts[k]],
           \A k \in DOMAIN order : ts[k].files = UnitFiles(order[k])
    PROVE  Holds(ts, Paths(UNION {Selected("unit", OfUnit(u)) : u \in Units}))
<1> DEFINE G == [u \in Units |-> UnitFiles(u)]
           I == [u \in Units |-> Selected("unit", OfUnit(u))]
<1>1. \A u \in Units : /\ G[u] = FilesWith("unit", OfUnit(u))
                       /\ Selected("unit", OfUnit(u)) \in SUBSET DOMAIN entries
  BY DEF UnitFiles, OfUnit, Selected
<1>2. DOMAIN order = 1 .. Cardinality(Units) /\ \A k \in DOMAIN order : order[k] \in Units
  BY DEF Orders
<1>3. OneTreeEach(ts, G, order)
  BY <1>2 DEF OneTreeEach
<1> HIDE DEF G
<1>4. \A u \in Units : /\ G[u] \in Seq(Files) /\ IsInjective(G[u])
                       /\ ToSet(G[u]) = Paths(Selected("unit", OfUnit(u)))
  BY <1>1, FilesAreFiles
<1>5. ASSUME NEW u \in Units, NEW v \in Units, u # v
      PROVE  ToSet(G[u]) \cap ToSet(G[v]) = {}
  <2>1. Selected("unit", OfUnit(u)) \cap Selected("unit", OfUnit(v)) = {}
    BY <1>5 DEF Selected, OfUnit
  <2> QED
    BY <1>1, <1>4, <2>1, PathsApart
<1>6. IsFiniteSet(Units)
  BY GroupsAreFinite
<1>7. Grouped(G, Units)
  BY <1>4, <1>5 DEF Grouped
<1>8. Holds(ts, UNION {ToSet(G[u]) : u \in Units})
  BY <1>3, <1>6, <1>7, HoldsGroups
<1>9. \A u \in Units : ToSet(G[u]) = Paths(I[u]) /\ I[u] = Selected("unit", OfUnit(u))
  BY <1>4
<1> HIDE DEF I
<1>10. UNION {ToSet(G[u]) : u \in Units} = PathsTogether(I, Units)
  BY <1>9 DEF PathsTogether
<1>11. Together(I, Units) = UNION {Selected("unit", OfUnit(u)) : u \in Units}
  BY <1>9 DEF Together
<1>12. PathsTogether(I, Units) = Paths(Together(I, Units))
  BY PathsOfUnion
<1> QED
  BY <1>8, <1>10, <1>11, <1>12

\* The entries that go into each part of the sequence of trees.
Alone == Selected("tree", ToSet(entries))
Waited == Selected("deferred", ToSet(entries))
InUnit == UNION {Selected("unit", OfUnit(u)) : u \in Units}
Singles == Selected("single", OfLibrary(NoLibrary))
InLibrary == UNION {Selected("single", OfLibrary(l)) : l \in Libraries}

CanRead == {k \in DOMAIN entries : entries[k].path \in Readable}

LEMMA ClassifyError == \A e : (Classify(e) = "error") <=> e.path \notin Readable
  BY DEF Classify

LEMMA ClassifyUnit == \A e : Classify(e) = "unit" => e.unit # NoUnit
  BY DEF Classify

LEMMA PartsCover ==
    ASSUME EntriesOK, AllClassified(entries, results)
    PROVE  Alone \cup Singles \cup InLibrary \cup InUnit \cup Waited = CanRead
<1>1. ASSUME NEW k \in Alone \cup Singles \cup InLibrary \cup InUnit \cup Waited
      PROVE  k \in CanRead
  <2>1. k \in DOMAIN entries /\ results[k] \in {"tree", "single", "unit", "deferred"}
    BY DEF Alone, Singles, InLibrary, InUnit, Waited, Selected
  <2>2. Classify(entries[k]) # "error"
    BY <2>1 DEF AllClassified
  <2> QED
    BY <2>1, <2>2, ClassifyError DEF CanRead
<1>2. ASSUME NEW k \in CanRead
      PROVE  k \in Alone \cup Singles \cup InLibrary \cup InUnit \cup Waited
  <2>1. k \in DOMAIN entries /\ results[k] = Classify(entries[k]) /\ results[k] # "error"
    BY ClassifyError DEF CanRead, AllClassified
  <2>2. results[k] \in {"unit", "single", "deferred", "tree"}
    BY <2>1, ClassifyFacts
  <2>3. entries[k] \in ToSet(entries)
    BY <2>1 DEF ToSet
  <2>4. CASE results[k] \in {"deferred", "tree"}
    BY <2>1, <2>3, <2>4 DEF Alone, Waited, Selected
  <2>5. CASE results[k] = "single"
    <3> DEFINE l == entries[k].library
    <3>1. k \in Selected("single", OfLibrary(l))
      BY <2>1, <2>3, <2>5 DEF Selected, OfLibrary
    <3>2. CASE l = NoLibrary
      BY <3>1, <3>2 DEF Singles
    <3>3. CASE l # NoLibrary
      <4>1. entries[k].path \in ToSet(SingleFiles(l))
        BY <3>1, FilesAreFiles DEF SingleFiles, OfLibrary, Paths
      <4>2. SingleFiles(l) # <<>>
        BY <4>1 DEF ToSet
      <4>3. l \in Libraries
        BY <2>3, <3>3, <4>2 DEF Libraries
      <4> QED
        BY <3>1, <4>3 DEF InLibrary
    <3> QED
      BY <3>2, <3>3
  <2>6. CASE results[k] = "unit"
    <3> DEFINE u == entries[k].unit
    <3>1. k \in Selected("unit", OfUnit(u))
      BY <2>1, <2>3, <2>6 DEF Selected, OfUnit
    <3>2. u # NoUnit
      BY <2>1, <2>6, ClassifyUnit
    <3>3. entries[k].path \in ToSet(UnitFiles(u))
      BY <3>1, FilesAreFiles DEF UnitFiles, OfUnit, Paths
    <3>4. UnitFiles(u) # <<>>
      BY <3>3 DEF ToSet
    <3>5. u \in Units
      BY <2>3, <3>2, <3>4 DEF Units
    <3> QED
      BY <3>1, <3>5 DEF InUnit
  <2> QED
    BY <2>2, <2>4, <2>5, <2>6
<1> QED
  BY <1>1, <1>2

LEMMA PartsApart ==
    /\ Alone \subseteq DOMAIN entries /\ Singles \subseteq DOMAIN entries
    /\ InLibrary \subseteq DOMAIN entries /\ InUnit \subseteq DOMAIN entries
    /\ Waited \subseteq DOMAIN entries
    /\ Alone \cap Singles = {} /\ (Alone \cup Singles) \cap InLibrary = {}
    /\ (Alone \cup Singles \cup InLibrary) \cap InUnit = {}
    /\ (Alone \cup Singles \cup InLibrary \cup InUnit) \cap Waited = {}
<1>1. \A k \in Alone : k \in DOMAIN entries /\ results[k] = "tree"
  BY DEF Alone, Selected
<1>2. \A k \in Singles : k \in DOMAIN entries /\ results[k] = "single" /\ entries[k].library = NoLibrary
  BY DEF Singles, Selected, OfLibrary
<1>3. \A k \in InLibrary : k \in DOMAIN entries /\ results[k] = "single" /\ entries[k].library # NoLibrary
  <2>1. \A l \in Libraries : l # NoLibrary
    BY DEF Libraries
  <2> QED
    BY <2>1 DEF InLibrary, Selected, OfLibrary
<1>4. \A k \in InUnit : k \in DOMAIN entries /\ results[k] = "unit"
  BY DEF InUnit, Selected
<1>5. \A k \in Waited : k \in DOMAIN entries /\ results[k] = "deferred"
  BY DEF Waited, Selected
<1> QED
  BY <1>1, <1>2, <1>3, <1>4, <1>5

LEMMA PathsJoined == \A I, J : Paths(I) \cup Paths(J) = Paths(I \cup J)
  BY DEF Paths

\* Trees of one part of the entries after trees of others.
LEMMA PartJoins ==
    ASSUME EntriesOK, NEW I \in SUBSET DOMAIN entries, NEW J \in SUBSET DOMAIN entries, I \cap J = {},
           NEW a, Holds(a, Paths(I)), NEW b, Holds(b, Paths(J))
    PROVE  Holds(a \o b, Paths(I \cup J))
<1>1. Paths(I) \cap Paths(J) = {}
  BY PathsApart
<1>2. Holds(a \o b, Paths(I) \cup Paths(J))
  BY <1>1, HoldsJoined
<1> QED
  BY <1>2, PathsJoined

LEMMA ArrangedHolds ==
    ASSUME EntriesOK, AllClassified(entries, results),
           NEW libraries \in Orders(Libraries), NEW units \in Orders(Units)
    PROVE  Holds(ArrangeTrees(libraries, units), Paths(CanRead))
<1> DEFINE parsed == [k \in DOMAIN ParsedFiles |->
                         Tree(<<ParsedFiles[k]>>, IsLibraryFile(ParsedFiles[k]) \/ options.onlyLint, FALSE)]
           single == IF Inherits THEN <<Tree(SingleFiles(NoLibrary), options.onlyLint, FALSE)>> ELSE <<>>
           ofLibraries == [k \in DOMAIN libraries |-> Tree(SingleFiles(libraries[k]), TRUE, Inherits)]
           ofUnits == [k \in DOMAIN units |->
                          Tree(UnitFiles(units[k]), options.onlyLint \/ LibraryOf(units[k]) # NoLibrary,
                               Inherits)]
           deferred == [k \in DOMAIN DeferredFiles |-> Tree(<<DeferredFiles[k]>>, TRUE, Inherits)]
<1>1. \A f, l, i : Tree(f, l, i).files = f
  BY DEF Tree
<1>2. Holds(parsed, Paths(Alone))
  <2>1. ParsedFiles \in Seq(Files) /\ ToSet(ParsedFiles) = Paths(Alone) /\ IsInjective(ParsedFiles)
    BY FilesAreFiles DEF ParsedFiles, Alone
  <2>2. \A k \in DOMAIN ParsedFiles : parsed[k].files = <<ParsedFiles[k]>>
    BY <1>1
  <2>3. parsed = [k \in DOMAIN ParsedFiles |-> parsed[k]]
    OBVIOUS
  <2> HIDE DEF parsed
  <2> QED
    BY <2>1, <2>2, <2>3, HoldsEach
<1>3. Holds(deferred, Paths(Waited))
  <2>1. DeferredFiles \in Seq(Files) /\ ToSet(DeferredFiles) = Paths(Waited) /\ IsInjective(DeferredFiles)
    BY FilesAreFiles DEF DeferredFiles, Waited
  <2>2. \A k \in DOMAIN DeferredFiles : deferred[k].files = <<DeferredFiles[k]>>
    BY <1>1
  <2>3. deferred = [k \in DOMAIN DeferredFiles |-> deferred[k]]
    OBVIOUS
  <2> HIDE DEF deferred
  <2> QED
    BY <2>1, <2>2, <2>3, HoldsEach
<1>4. Holds(single, Paths(Singles))
  <2> DEFINE files == SingleFiles(NoLibrary)
             tree == Tree(files, options.onlyLint, FALSE)
  <2>1. files \in Seq(Files) /\ ToSet(files) = Paths(Singles) /\ IsInjective(files)
    BY FilesAreFiles DEF SingleFiles, OfLibrary, Singles
  <2>2. CASE Inherits
    <3>1. tree.files = files /\ single = <<tree>>
      BY <1>1, <2>2
    <3> HIDE DEF tree, files
    <3>2. Holds(<<tree>>, ToSet(tree.files))
      BY <2>1, <3>1, HoldsOne
    <3> QED
      BY <2>1, <3>1, <3>2
  <2>3. CASE ~Inherits
    <3>1. single = <<>> /\ files = <<>>
      BY <2>3 DEF Inherits
    <3>2. ToSet(<<>>) = {}
      BY DEF ToSet
    <3> QED
      BY <2>1, <3>1, <3>2, HoldsNothing
  <2> QED
    BY <2>2, <2>3
<1>5. Holds(ofLibraries, Paths(InLibrary))
  <2>1. \A k \in DOMAIN libraries : ofLibraries[k].files = SingleFiles(libraries[k])
    BY <1>1
  <2>2. ofLibraries = [k \in DOMAIN libraries |-> ofLibraries[k]]
    OBVIOUS
  <2> HIDE DEF ofLibraries
  <2> QED
    BY <2>1, <2>2, LibrariesHold DEF InLibrary
<1>6. Holds(ofUnits, Paths(InUnit))
  <2>1. \A k \in DOMAIN units : ofUnits[k].files = UnitFiles(units[k])
    BY <1>1
  <2>2. ofUnits = [k \in DOMAIN units |-> ofUnits[k]]
    OBVIOUS
  <2> HIDE DEF ofUnits
  <2> QED
    BY <2>1, <2>2, UnitsHold DEF InUnit
<1>7. ArrangeTrees(libraries, units) = parsed \o single \o ofLibraries \o ofUnits \o deferred
  BY DEF ArrangeTrees
<1> HIDE DEF parsed, single, ofLibraries, ofUnits, deferred
<1>8. Holds(parsed \o single, Paths(Alone \cup Singles))
  BY <1>2, <1>4, PartsApart, PartJoins
<1>9. Holds(parsed \o single \o ofLibraries, Paths(Alone \cup Singles \cup InLibrary))
  BY <1>5, <1>8, PartsApart, PartJoins
<1>10. Holds(parsed \o single \o ofLibraries \o ofUnits, Paths(Alone \cup Singles \cup InLibrary \cup InUnit))
  BY <1>6, <1>9, PartsApart, PartJoins
<1>11. Holds(parsed \o single \o ofLibraries \o ofUnits \o deferred,
             Paths(Alone \cup Singles \cup InLibrary \cup InUnit \cup Waited))
  BY <1>3, <1>10, PartsApart, PartJoins
<1> QED
  BY <1>7, <1>11, PartsCover
-----------------------------------------------------------------------------
(***************************************************************************)
(* The names on the stack of loadTrees, and the files found for them.      *)
(***************************************************************************)
NewLoadSet == [name : Names, file : {NoFile}]

IsLoads(s) ==
    /\ \E T : s \in Seq(T)
    /\ \A k \in DOMAIN s : s[k].name \in Names /\ s[k].file \in Files \cup {NoFile}

\* The files found are in no tree, and each is there once.
Waiting(s, P, ca) ==
    /\ IsLoads(s)
    /\ \A k \in DOMAIN s : s[k].file # NoFile => s[k].file \in ca /\ s[k].file \notin P
    /\ \A j, k \in DOMAIN s : j # k /\ s[j].file # NoFile => s[j].file # s[k].file

Unshared(s, t) == \A j \in DOMAIN s, k \in DOMAIN t : s[j].file # NoFile => s[j].file # t[k].file

LEMMA FindBufferFacts ==
    ASSUME NEW name \in Names, NEW ca
    PROVE  \/ FindBuffer(name, ca) = NoFile
           \/ FindBuffer(name, ca) \in Files /\ FindBuffer(name, ca) \notin ca
<1> DEFINE paths == Candidates[name]
           I == {i \in 1 .. Len(paths) : paths[i] \notin ca /\ paths[i] \in Readable}
           k == SelectInSeq(paths, LAMBDA f : f \notin ca /\ f \in Readable)
<1>1. paths \in Seq(Files)
  BY TreesOK
<1>2. k = IF I # {} THEN Min(I) ELSE 0
  BY DEF SelectInSeq
<1>3. FindBuffer(name, ca) = IF k = 0 THEN NoFile ELSE paths[k]
  BY DEF FindBuffer
<1>4. Len(paths) \in Nat /\ \A i \in 1 .. Len(paths) : paths[i] \in Files
  BY <1>1, SeqFacts
<1>5. I \in SUBSET Nat
  BY <1>4
<1>6. CASE I = {}
  BY <1>2, <1>3, <1>6
<1>7. CASE I # {}
  <2>1. k \in I
    BY <1>2, <1>5, <1>7, LeastIndex
  <2>2. k \in 1 .. Len(paths) /\ paths[k] \notin ca /\ k # 0
    BY <1>5, <2>1
  <2> HIDE DEF k, I, paths
  <2> QED
    BY <1>3, <1>4, <2>2
<1> QED
  BY <1>6, <1>7

LEMMA ReferredByFacts ==
    ASSUME NEW tree, tree.files \in Seq(Files)
    PROVE  ReferredBy(tree) \in Seq(Names)
<1> DEFINE files == tree.files
           refs == [k \in DOMAIN files |-> Refers[files[k]]]
<1>1. Len(files) \in Nat /\ DOMAIN files = 1 .. Len(files) /\ \A k \in DOMAIN files : files[k] \in Files
  BY SeqFacts
<1>2. \A k \in DOMAIN files : refs[k] \in Seq(Names)
  BY <1>1, TreesOK
<1>3. refs = [k \in 1 .. Len(files) |-> refs[k]]
  BY <1>1
<1>4. ReferredBy(tree) = FlattenSeq(refs)
  BY DEF ReferredBy
<1> HIDE DEF refs, files
<1>5. refs \in Seq(Seq(Names))
  BY <1>1, <1>2, <1>3
<1> QED
  BY <1>4, <1>5, FlattenFacts

LEMMA NewNamesFacts ==
    ASSUME NEW tree, tree.files \in Seq(Files), NEW excluded
    PROVE  NewNames(tree, excluded) \in Seq(Names)
<1> DEFINE refs == ReferredBy(tree)
           parts == [k \in DOMAIN refs |->
                        IF refs[k] \notin excluded /\ \A j \in 1 .. k - 1 : refs[j] # refs[k]
                          THEN <<refs[k]>> ELSE <<>>]
<1>1. NewNames(tree, excluded) = FlattenSeq(parts)
  BY DEF NewNames
<1>2. refs \in Seq(Names)
  BY ReferredByFacts
<1> HIDE DEF refs
<1>3. Len(refs) \in Nat /\ DOMAIN refs = 1 .. Len(refs) /\ \A k \in DOMAIN refs : refs[k] \in Names
  BY <1>2, SeqFacts
<1>4. ASSUME NEW k \in DOMAIN refs PROVE parts[k] \in Seq(Names)
  <2>1. <<refs[k]>> \in Seq(Names) /\ <<>> \in Seq(Names)
    BY <1>3
  <2>2. parts[k] \in {<<refs[k]>>, <<>>}
    OBVIOUS
  <2> HIDE DEF parts
  <2> QED
    BY <2>1, <2>2
<1>5. parts = [k \in 1 .. Len(refs) |-> parts[k]]
  BY <1>3
<1> HIDE DEF parts
<1>6. parts \in Seq(Seq(Names))
  BY <1>3, <1>4, <1>5
<1> QED
  BY <1>1, <1>6, FlattenFacts

\* What a tree misses goes on the stack without a file.
LEMMA LoadsOfNames ==
    ASSUME NEW new \in Seq(Names)
    PROVE  [k \in DOMAIN new |-> [name |-> new[k], file |-> NoFile]] \in Seq(NewLoadSet)
<1> DEFINE s == [k \in DOMAIN new |-> [name |-> new[k], file |-> NoFile]]
<1>1. Len(new) \in Nat /\ DOMAIN new = 1 .. Len(new) /\ \A k \in DOMAIN new : new[k] \in Names
  BY SeqFacts
<1>2. \A k \in DOMAIN new : s[k] \in NewLoadSet
  BY <1>1 DEF NewLoadSet
<1>3. s = [k \in 1 .. Len(new) |-> s[k]]
  BY <1>1
<1> HIDE DEF s
<1>4. s \in Seq(NewLoadSet)
  BY <1>1, <1>2, <1>3
<1> QED
  BY <1>4 DEF s

LEMMA NewLoadsFacts ==
    ASSUME NEW file \in Files
    PROVE  NewLoads(file) \in Seq(NewLoadSet)
<1> DEFINE tree == Tree(<<file>>, TRUE, Inherits)
           new == NewNames(tree, known \cup DeclaredBy(tree) \cup missing)
<1>1. tree.files \in Seq(Files)
  BY DEF Tree
<1>2. NewLoads(file) = [k \in DOMAIN new |-> [name |-> new[k], file |-> NoFile]]
  BY DEF NewLoads
<1> HIDE DEF tree
<1>3. new \in Seq(Names)
  BY <1>1, NewNamesFacts
<1> HIDE DEF new
<1> QED
  BY <1>2, <1>3, LoadsOfNames

LEMMA FirstLoadsFacts ==
    ASSUME NEW ts, NEW P, Holds(ts, P)
    PROVE  FirstLoads(ts) \in Seq(NewLoadSet)
<1> DEFINE Missed(k) == NewNames(ts[k], Known(ts) \cup UNION { ToSet(ReferredBy(ts[j])) : j \in 1 .. k - 1 })
           parts == [k \in DOMAIN ts |->
                        [n \in DOMAIN Missed(k) |-> [name |-> Missed(k)[n], file |-> NoFile]]]
<1>1. FirstLoads(ts) = FlattenSeq(parts)
  BY DEF FirstLoads
<1>2. PICK n \in Nat : DOMAIN ts = 1 .. n
  BY SeqFacts DEF Holds
<1>3. ASSUME NEW k \in DOMAIN ts PROVE parts[k] \in Seq(NewLoadSet)
  <2> DEFINE new == Missed(k)
  <2>1. parts[k] = [j \in DOMAIN new |-> [name |-> new[j], file |-> NoFile]]
    OBVIOUS
  <2>2. new \in Seq(Names)
    BY NewNamesFacts DEF Holds
  <2> HIDE DEF new, parts
  <2> QED
    BY <2>1, <2>2, LoadsOfNames
<1>4. parts = [k \in 1 .. n |-> parts[k]]
  BY <1>2
<1> HIDE DEF parts
<1>5. parts \in Seq(Seq(NewLoadSet))
  BY <1>2, <1>3, <1>4
<1> QED
  BY <1>1, <1>5, FlattenFacts
-----------------------------------------------------------------------------
(***************************************************************************)
(* What taking from the stack, adding to it and parsing a file do to the   *)
(* files that wait.                                                        *)
(***************************************************************************)
\* t is what s holds from some place on.
IsPart(t, s, skipped) ==
    /\ \E T : t \in Seq(T)
    /\ \A i \in DOMAIN t : i + skipped \in DOMAIN s /\ t[i] = s[i + skipped]

LEMMA PartWaits ==
    ASSUME NEW s, NEW P, NEW ca, Waiting(s, P, ca), NEW t, NEW skipped \in Nat, IsPart(t, s, skipped)
    PROVE  Waiting(t, P, ca)
<1>1. \A i \in DOMAIN t : i + skipped \in DOMAIN s /\ t[i] = s[i + skipped]
  BY DEF IsPart
<1>2. IsLoads(t)
  BY <1>1 DEF IsPart, Waiting, IsLoads
<1>3. \A i \in DOMAIN t : t[i].file # NoFile => t[i].file \in ca /\ t[i].file \notin P
  BY <1>1 DEF Waiting
<1>4. ASSUME NEW i \in DOMAIN t, NEW j \in DOMAIN t, i # j, t[i].file # NoFile
      PROVE  t[i].file # t[j].file
  <2>1. PICK n \in Nat : DOMAIN t = 1 .. n
    BY SeqFacts DEF IsPart
  <2>2. i + skipped # j + skipped
    BY <1>4, <2>1
  <2> QED
    BY <1>1, <1>4, <2>2 DEF Waiting
<1> QED
  BY <1>2, <1>3, <1>4 DEF Waiting

LEMMA SomeFirst ==
    ASSUME NEW T, NEW s \in Seq(T), NEW n \in Nat, n <= Len(s)
    PROVE  IsPart(SubSeq(s, 1, n), s, 0)
<1> DEFINE t == SubSeq(s, 1, n)
<1>1. Len(s) \in Nat /\ DOMAIN s = 1 .. Len(s) /\ \A k \in 1 .. Len(s) : s[k] \in T
  BY SeqFacts
<1>2. 1 \in Int /\ n \in Int /\ \A i \in 1 .. n : s[i] \in T
  BY <1>1
<1>3. /\ t \in Seq(T) /\ Len(t) = (IF 1 <= n THEN n - 1 + 1 ELSE 0)
      /\ \A i \in 1 .. n - 1 + 1 : t[i] = s[1 + i - 1]
  BY <1>2, SubSeqProperties
<1> HIDE DEF t
<1>4. DOMAIN t = 1 .. Len(t)
  BY <1>3, SeqFacts
<1>5. ASSUME NEW i \in DOMAIN t PROVE i + 0 \in DOMAIN s /\ t[i] = s[i + 0]
  <2>1. i \in 1 .. n /\ i \in 1 .. n - 1 + 1 /\ i + 0 = i /\ 1 + i - 1 = i
    BY <1>3, <1>4
  <2> QED
    BY <1>1, <1>3, <2>1
<1> QED
  BY <1>3, <1>5 DEF IsPart, t

LEMMA FrontIsPart ==
    ASSUME NEW T, NEW s \in Seq(T), s # <<>>
    PROVE  /\ IsPart(Front(s), s, 0) /\ Len(s) \in DOMAIN s
           /\ \A i \in DOMAIN Front(s) : i # Len(s)
<1>1. Len(s) \in Nat /\ Len(s) # 0 /\ DOMAIN s = 1 .. Len(s)
  BY EmptySeq, SeqFacts
<1>2. PICK n \in Nat : n = Len(s) - 1
  <2>1. \A l \in Nat : l # 0 => l - 1 \in Nat
    OBVIOUS
  <2>2. Len(s) - 1 \in Nat
    BY <1>1, <2>1
  <2> QED
    BY <2>2
<1>3. Front(s) = SubSeq(s, 1, n)
  BY <1>2 DEF Front
<1>4. IsPart(Front(s), s, 0)
  BY <1>1, <1>2, <1>3, SomeFirst
<1>5. Len(Front(s)) = n
  <2>1. 1 \in Int /\ n \in Int /\ \A i \in 1 .. n : s[i] \in T
    BY <1>1, <1>2, SeqFacts
  <2>2. Len(SubSeq(s, 1, n)) = IF 1 <= n THEN n - 1 + 1 ELSE 0
    BY <2>1, SubSeqProperties
  <2> QED
    BY <1>3, <2>2
<1>6. DOMAIN Front(s) = 1 .. n
  BY <1>4, <1>5, SeqFacts DEF IsPart
<1> QED
  BY <1>1, <1>2, <1>4, <1>6

LEMMA TailIsPart ==
    ASSUME NEW T, NEW s \in Seq(T), s # <<>>
    PROVE  /\ IsPart(Tail(s), s, 1) /\ 1 \in DOMAIN s /\ Head(s) = s[1]
           /\ \A i \in DOMAIN Tail(s) : i + 1 # 1
<1>1. Len(s) \in Nat /\ Len(s) # 0 /\ DOMAIN s = 1 .. Len(s)
  BY EmptySeq, SeqFacts
<1>2. /\ Tail(s) \in Seq(T) /\ Len(Tail(s)) = Len(s) - 1
      /\ \A i \in 1 .. Len(Tail(s)) : Tail(s)[i] = s[i + 1]
  BY HeadTailProperties
<1>3. DOMAIN Tail(s) = 1 .. Len(s) - 1
  BY <1>2, SeqFacts
<1>4. \A i \in 1 .. Len(s) - 1 : i + 1 \in 1 .. Len(s) /\ i + 1 # 1
  BY <1>1
<1>5. Head(s) = s[1]
  BY <1>1
<1> QED
  BY <1>1, <1>2, <1>3, <1>4, <1>5 DEF IsPart

\* Another file is parsed, and more files are in the cache.
LEMMA WaitsOn ==
    ASSUME NEW s, NEW P, NEW ca, Waiting(s, P, ca), NEW Q, NEW more, ca \subseteq more,
           \A k \in DOMAIN s : s[k].file # NoFile => s[k].file \notin Q
    PROVE  Waiting(s, P \cup Q, more)
  BY DEF Waiting

LEMMA NewLoadsWait ==
    ASSUME NEW s, NEW P, NEW ca, Waiting(s, P, ca), NEW new \in Seq(NewLoadSet)
    PROVE  Waiting(s \o new, P, ca)
<1>1. PICK T : s \in Seq(T)
  BY DEF Waiting, IsLoads
<1> DEFINE all == s \o new
           n == Len(s)
           m == Len(new)
<1>2. s \in Seq(T \cup NewLoadSet) /\ new \in Seq(T \cup NewLoadSet)
  BY <1>1, SeqMonotonic
<1>3. /\ all \in Seq(T \cup NewLoadSet) /\ Len(all) = n + m
      /\ \A i \in 1 .. n + m : all[i] = IF i <= n THEN s[i] ELSE new[i - n]
  BY <1>2, ConcatProperties
<1>4. n \in Nat /\ m \in Nat /\ DOMAIN s = 1 .. n /\ DOMAIN new = 1 .. m /\ \A i \in 1 .. m : new[i] \in NewLoadSet
  BY <1>1, SeqFacts
<1>5. DOMAIN all = 1 .. n + m
  BY <1>3, SeqFacts
<1> HIDE DEF all, n, m
<1>6. ASSUME NEW i \in DOMAIN all
      PROVE  \/ i \in DOMAIN s /\ all[i] = s[i]
             \/ all[i].name \in Names /\ all[i].file = NoFile
  <2>1. CASE i <= n
    BY <1>3, <1>4, <1>5, <2>1
  <2>2. CASE ~(i <= n)
    <3>1. i - n \in 1 .. m /\ all[i] = new[i - n]
      BY <1>3, <1>4, <1>5, <2>2
    <3>2. \A x \in NewLoadSet : x.name \in Names /\ x.file = NoFile
      BY DEF NewLoadSet
    <3> QED
      BY <1>4, <3>1, <3>2
  <2> QED
    BY <2>1, <2>2
<1>7. IsLoads(all)
  BY <1>3, <1>6 DEF IsLoads, Waiting
<1>8. \A k \in DOMAIN all : all[k].file # NoFile => all[k].file \in ca /\ all[k].file \notin P
  BY <1>6 DEF Waiting
<1>9. ASSUME NEW j \in DOMAIN all, NEW k \in DOMAIN all, j # k, all[j].file # NoFile
      PROVE  all[j].file # all[k].file
  BY <1>6, <1>9 DEF Waiting
<1> QED
  BY <1>7, <1>8, <1>9 DEF Waiting, all

LEMMA NothingWaits == \A P, ca : Waiting(<<>>, P, ca)
<1>1. <<>> \in Seq({}) /\ DOMAIN <<>> = {}
  OBVIOUS
<1> QED
  BY <1>1 DEF Waiting, IsLoads

LEMMA OnlyNewWait ==
    ASSUME NEW new \in Seq(NewLoadSet), NEW P, NEW ca
    PROVE  Waiting(new, P, ca)
<1>1. DOMAIN new = 1 .. Len(new) /\ \A k \in 1 .. Len(new) : new[k] \in NewLoadSet
  BY SeqFacts
<1>2. \A k \in DOMAIN new : new[k].name \in Names /\ new[k].file = NoFile
  BY <1>1 DEF NewLoadSet
<1> QED
  BY <1>2 DEF Waiting, IsLoads
-----------------------------------------------------------------------------
(***************************************************************************)
(* The inductive invariant of the search: the trees hold each of their     *)
(* files once, all of them are in the cache, and the files found and not   *)
(* added yet are in the cache and in no tree.                              *)
(***************************************************************************)
FilesIn(ts) == UNION {ToSet(ts[k].files) : k \in DOMAIN ts}

BatchOK(bt) ==
    \A k \in DOMAIN bt :
        /\ bt[k] = [name |-> bt[k].name, file |-> bt[k].file, parsed |-> bt[k].parsed]
        /\ bt[k].parsed => bt[k].file # NoFile

SearchOK(ts, ca, wl, bt) ==
    /\ Holds(ts, FilesIn(ts))
    /\ FilesIn(ts) \subseteq ca
    /\ Waiting(wl, FilesIn(ts), ca)
    /\ Waiting(bt, FilesIn(ts), ca)
    /\ Unshared(bt, wl)
    /\ BatchOK(bt)

\* The listed files: parsed, or named as unreadable.
ListedParsed(es, ts, errs) ==
    \A k \in DOMAIN es :
        IF es[k].path \in Readable THEN es[k].path \in FilesIn(ts)
        ELSE CannotRead(es[k].path) \in ToSet(errs)

SearchInv ==
    /\ phase \notin Searched => worklist = <<>> /\ batch = <<>>
    /\ phase \in Searched => /\ SearchOK(trees, cached, worklist, batch)
                             /\ ListedParsed(entries, trees, errors)

LEMMA FilesHeld == \A ts, P : Holds(ts, P) => P = FilesIn(ts)
  BY DEF Holds, FilesIn

LEMMA UnsharedParts ==
    ASSUME NEW s, NEW t, Unshared(s, t), NEW a, NEW b, NEW i \in Nat, NEW j \in Nat,
           IsPart(a, s, i), IsPart(b, t, j)
    PROVE  Unshared(a, b)
  BY DEF Unshared, IsPart

LEMMA WholePart ==
    ASSUME NEW s, NEW T, s \in Seq(T)
    PROVE  IsPart(s, s, 0)
<1>1. DOMAIN s = 1 .. Len(s) /\ Len(s) \in Nat
  BY SeqFacts
<1>2. \A i \in DOMAIN s : i + 0 = i
  BY <1>1
<1> QED
  BY <1>2 DEF IsPart

LEMMA UnsharedNew ==
    ASSUME NEW s, NEW t, Unshared(s, t), NEW T, t \in Seq(T), NEW new \in Seq(NewLoadSet)
    PROVE  Unshared(s, t \o new)
<1> DEFINE all == t \o new
           n == Len(t)
           m == Len(new)
<1>1. t \in Seq(T \cup NewLoadSet) /\ new \in Seq(T \cup NewLoadSet)
  BY SeqMonotonic
<1>2. /\ all \in Seq(T \cup NewLoadSet) /\ Len(all) = n + m
      /\ \A i \in 1 .. n + m : all[i] = IF i <= n THEN t[i] ELSE new[i - n]
  BY <1>1, ConcatProperties
<1>3. n \in Nat /\ m \in Nat /\ DOMAIN t = 1 .. n /\ DOMAIN new = 1 .. m /\ \A i \in 1 .. m : new[i] \in NewLoadSet
  BY SeqFacts
<1>4. DOMAIN all = 1 .. n + m
  BY <1>2, SeqFacts
<1> HIDE DEF all, n, m
<1>5. ASSUME NEW i \in DOMAIN all
      PROVE  (i \in DOMAIN t /\ all[i] = t[i]) \/ all[i].file = NoFile
  <2>1. CASE i <= n
    BY <1>2, <1>3, <1>4, <2>1
  <2>2. CASE ~(i <= n)
    <3>1. i - n \in 1 .. m /\ all[i] = new[i - n]
      BY <1>2, <1>3, <1>4, <2>2
    <3>2. \A x \in NewLoadSet : x.file = NoFile
      BY DEF NewLoadSet
    <3> QED
      BY <1>3, <3>1, <3>2
  <2> QED
    BY <2>1, <2>2
<1> QED
  BY <1>5 DEF Unshared, all

LEMMA TreeParsed ==
    ASSUME Holds(trees, FilesIn(trees)), NEW file \in Files, file \notin FilesIn(trees),
           NEW tree, tree.files = <<file>>
    PROVE  /\ Holds(Append(trees, tree), FilesIn(trees) \cup {file})
           /\ FilesIn(Append(trees, tree)) = FilesIn(trees) \cup {file}
<1>1. PICK T : trees \in Seq(T)
  BY DEF Holds
<1>2. Append(trees, tree) = trees \o <<tree>>
  BY <1>1, AppendFacts
<1> DEFINE one == <<file>>
<1>3. one \in Seq(Files) /\ Len(one) = 1 /\ one[1] = file /\ DOMAIN one = {1}
  OBVIOUS
<1> HIDE DEF one
<1>4. one \in Seq(Files) /\ IsInjective(one) /\ ToSet(one) = {file}
  BY <1>3 DEF IsInjective, ToSet
<1>5. tree.files = one
  BY DEF one
<1>6. Holds(<<tree>>, {file})
  BY <1>4, <1>5, HoldsOne
<1>7. FilesIn(trees) \cap {file} = {}
  OBVIOUS
<1>8. Holds(trees \o <<tree>>, FilesIn(trees) \cup {file})
  BY <1>6, <1>7, HoldsJoined
<1> QED
  BY <1>2, <1>8, FilesHeld

\* A file that waits nowhere any more is parsed, and what it misses goes on the stack.
LEMMA TreeAdded ==
    ASSUME NEW file \in Files, file \notin FilesIn(trees), Holds(trees, FilesIn(trees)),
           FilesIn(trees) \subseteq cached,
           NEW stack, Waiting(stack, FilesIn(trees), cached),
           NEW left, Waiting(left, FilesIn(trees), cached), Unshared(left, stack),
           \A k \in DOMAIN stack : stack[k].file # file,
           \A k \in DOMAIN left : left[k].file # file,
           BatchOK(left),
           NEW ca, cached \cup {file} \subseteq ca,
           AddTree(file, stack)
    PROVE  SearchOK(trees', ca, worklist', left) /\ FilesIn(trees) \subseteq FilesIn(trees')
<1> DEFINE tree == Tree(<<file>>, TRUE, Inherits)
           new == NewLoads(file)
           P == FilesIn(trees) \cup {file}
<1>1. trees' = Append(trees, tree) /\ worklist' = stack \o new
  BY DEF AddTree
<1>2. tree.files = <<file>>
  BY DEF Tree
<1> HIDE DEF tree
<1>3. Holds(trees', P) /\ FilesIn(trees') = P
  BY <1>1, <1>2, TreeParsed
<1>4. new \in Seq(NewLoadSet)
  BY NewLoadsFacts
<1> HIDE DEF new
<1>5. cached \subseteq ca /\ P \subseteq ca
  OBVIOUS
<1>6. Waiting(stack, P, ca)
  <2>1. \A k \in DOMAIN stack : stack[k].file # NoFile => stack[k].file \notin {file}
    OBVIOUS
  <2> QED
    BY <1>5, <2>1, WaitsOn
<1>7. Waiting(left, P, ca)
  <2>1. \A k \in DOMAIN left : left[k].file # NoFile => left[k].file \notin {file}
    OBVIOUS
  <2> QED
    BY <1>5, <2>1, WaitsOn
<1>8. Waiting(worklist', P, ca)
  BY <1>1, <1>4, <1>6, NewLoadsWait
<1>9. Unshared(left, worklist')
  <2>1. PICK T : stack \in Seq(T)
    BY DEF Waiting, IsLoads
  <2> QED
    BY <1>1, <1>4, <2>1, UnsharedNew
<1> HIDE DEF P
<1>10. SearchOK(trees', ca, worklist', left)
  BY <1>3, <1>5, <1>7, <1>8, <1>9 DEF SearchOK
<1> QED
  BY <1>3, <1>10 DEF P
-----------------------------------------------------------------------------
SearchState == SearchOK(trees, cached, worklist, batch)

LEMMA SearchOneKeepsFiles ==
    ASSUME SearchState, SearchOne
    PROVE  SearchState' /\ FilesIn(trees) \subseteq FilesIn(trees')
<1> DEFINE load == Last(worklist)
           file == IF load.file # NoFile THEN load.file ELSE FindBuffer(load.name, cached)
           rest == Front(worklist)
           n == Len(worklist)
<1>1. worklist # <<>> /\ batch' = batch
  BY DEF SearchOne
<1>2. PICK T : worklist \in Seq(T)
  BY DEF SearchState, SearchOK, Waiting, IsLoads
<1>3. PICK B : batch \in Seq(B)
  BY DEF SearchState, SearchOK, Waiting, IsLoads
<1>4. /\ IsPart(rest, worklist, 0) /\ n \in DOMAIN worklist /\ load = worklist[n]
      /\ \A i \in DOMAIN rest : i # n
  BY <1>1, <1>2, FrontIsPart DEF Last
<1>5. Waiting(rest, FilesIn(trees), cached)
  BY <1>4, PartWaits DEF SearchState, SearchOK
<1>6. Unshared(batch, rest)
  BY <1>3, <1>4, WholePart, UnsharedParts DEF SearchState, SearchOK
<1>7. CASE worklist' = rest /\ UNCHANGED <<trees, cached, known, missing>>
  BY <1>1, <1>5, <1>6, <1>7 DEF SearchState, SearchOK
<1>8. CASE /\ file # NoFile
           /\ AddTree(file, rest) /\ cached' = cached \cup {file} \cup Includes[file]
  <2>1. load.name \in Names /\ load.file \in Files \cup {NoFile}
    BY <1>4 DEF SearchState, SearchOK, Waiting, IsLoads
  <2>2. \/ load.file # NoFile /\ file = load.file
        \/ load.file = NoFile /\ file \notin cached
    BY <1>8, <2>1, FindBufferFacts
  <2>3. file \in Files
    BY <1>8, <2>1, FindBufferFacts
  <2> HIDE DEF file
  <2>4. file \notin FilesIn(trees)
    BY <1>4, <1>8, <2>2 DEF SearchState, SearchOK, Waiting
  <2>5. ASSUME NEW k \in DOMAIN rest PROVE rest[k].file # file
    <3>1. PICK m \in Nat : DOMAIN worklist = 1 .. m
      BY <1>2, SeqFacts
    <3>2. k \in DOMAIN worklist /\ rest[k] = worklist[k] /\ k # n
      <4>1. PICK r \in Nat : DOMAIN rest = 1 .. r
        BY <1>4, SeqFacts DEF IsPart
      <4>2. k + 0 = k
        BY <4>1
      <4> QED
        BY <1>4, <4>2 DEF IsPart
    <3> HIDE DEF rest, n, load
    <3> QED
      BY <1>4, <1>8, <2>2, <3>2 DEF SearchState, SearchOK, Waiting
  <2>6. \A k \in DOMAIN batch : batch[k].file # file
    BY <1>4, <1>8, <2>2 DEF SearchState, SearchOK, Waiting, Unshared
  <2>7. cached \cup {file} \subseteq cached'
    BY <1>8
  <2> HIDE DEF rest
  <2>8. SearchOK(trees', cached', worklist', batch) /\ FilesIn(trees) \subseteq FilesIn(trees')
    BY <1>5, <1>6, <1>8, <2>3, <2>4, <2>5, <2>6, <2>7, TreeAdded DEF SearchState, SearchOK
  <2> QED
    BY <1>1, <2>8 DEF SearchState
<1>9. \/ worklist' = rest /\ UNCHANGED <<trees, cached, known, missing>>
      \/ /\ file # NoFile
         /\ AddTree(file, rest) /\ cached' = cached \cup {file} \cup Includes[file]
  BY DEF SearchOne
<1> QED
  BY <1>7, <1>8, <1>9

LEMMA FindNextKeeps ==
    ASSUME SearchState, FindNext
    PROVE  SearchState' /\ trees' = trees
<1> DEFINE load == Head(worklist)
           file == IF load.file # NoFile THEN load.file
                   ELSE IF load.name \in known THEN NoFile ELSE FindBuffer(load.name, cached)
           found == [name |-> load.name, file |-> file, parsed |-> load.file # NoFile]
           rest == Tail(worklist)
           P == FilesIn(trees)
<1>1. /\ worklist # <<>> /\ trees' = trees /\ worklist' = rest
      /\ batch' = Append(batch, found) /\ cached' = cached \cup ({file} \ {NoFile})
  BY DEF FindNext
<1>2. PICK T : worklist \in Seq(T)
  BY DEF SearchState, SearchOK, Waiting, IsLoads
<1>3. PICK B : batch \in Seq(B)
  BY DEF SearchState, SearchOK, Waiting, IsLoads
<1>4. /\ IsPart(rest, worklist, 1) /\ 1 \in DOMAIN worklist /\ load = worklist[1]
      /\ \A i \in DOMAIN rest : i + 1 # 1
  BY <1>1, <1>2, TailIsPart
<1>5. Waiting(rest, P, cached) /\ cached \subseteq cached'
  BY <1>1, <1>4, PartWaits DEF SearchState, SearchOK
<1>6. Unshared(batch, rest)
  BY <1>3, <1>4, WholePart, UnsharedParts DEF SearchState, SearchOK
<1>7. load.name \in Names /\ load.file \in Files \cup {NoFile}
  BY <1>4 DEF SearchState, SearchOK, Waiting, IsLoads
<1>8. \/ load.file # NoFile /\ file = load.file
      \/ load.file = NoFile /\ (file = NoFile \/ (file \notin cached /\ file \in Files))
  BY <1>7, FindBufferFacts
<1>9. /\ found.name = load.name /\ found.file = file /\ (found.parsed => file # NoFile)
      /\ found = [name |-> found.name, file |-> found.file, parsed |-> found.parsed]
  BY <1>8
<1> HIDE DEF file, found
<1>10. file \in Files \cup {NoFile} /\ (file # NoFile => file \in cached' /\ file \notin P)
  <2>1. P \subseteq cached
    BY DEF SearchState, SearchOK
  <2>2. load.file # NoFile => load.file \notin P
    BY <1>4 DEF SearchState, SearchOK, Waiting
  <2> QED
    BY <1>1, <1>7, <1>8, <2>1, <2>2
<1>11. ASSUME file # NoFile, NEW k \in DOMAIN rest PROVE rest[k].file # file
  <2>1. k + 1 \in DOMAIN worklist /\ rest[k] = worklist[k + 1] /\ k + 1 # 1
    BY <1>4 DEF IsPart
  <2> HIDE DEF rest, load, P
  <2> QED
    BY <1>4, <1>8, <1>11, <2>1 DEF SearchState, SearchOK, Waiting
<1>12. ASSUME file # NoFile, NEW k \in DOMAIN batch PROVE batch[k].file # file
  BY <1>4, <1>8, <1>12 DEF SearchState, SearchOK, Waiting, Unshared
<1>13. /\ \E S : batch' \in Seq(S)
       /\ \A k \in DOMAIN batch' : (k \in DOMAIN batch /\ batch'[k] = batch[k]) \/ batch'[k] = found
       /\ \A j, k \in DOMAIN batch' : batch'[j] = found /\ batch'[k] = found /\ j # k
                                          => j \in DOMAIN batch \/ k \in DOMAIN batch
       /\ \A k \in DOMAIN batch : k \in DOMAIN batch' /\ batch'[k] = batch[k]
  <2> DEFINE n == Len(batch)
  <2>1. n \in Nat /\ DOMAIN batch = 1 .. n
    BY <1>3, SeqFacts
  <2>2. /\ batch' \in Seq(B \cup {found}) /\ Len(batch') = n + 1
        /\ \A k \in 1 .. n : batch'[k] = batch[k]
        /\ batch'[n + 1] = found
    BY <1>1, <1>3, AppendFacts
  <2>3. DOMAIN batch' = 1 .. n + 1
    BY <2>2, SeqFacts
  <2>4. \A k \in 1 .. n + 1 : k \in 1 .. n \/ k = n + 1
    BY <2>1
  <2> HIDE DEF n
  <2> QED
    BY <2>1, <2>2, <2>3, <2>4
<1> HIDE DEF load, rest, P
<1>14. Waiting(batch', P, cached')
  <2>1. Waiting(batch, P, cached)
    BY DEF SearchState, SearchOK, P
  <2>2. IsLoads(batch')
    BY <1>7, <1>9, <1>10, <1>13, <2>1 DEF IsLoads, Waiting
  <2>3. \A k \in DOMAIN batch' : batch'[k].file # NoFile => batch'[k].file \in cached' /\ batch'[k].file \notin P
    BY <1>5, <1>9, <1>10, <1>13, <2>1 DEF Waiting
  <2>4. ASSUME NEW j \in DOMAIN batch', NEW k \in DOMAIN batch', j # k, batch'[j].file # NoFile
        PROVE  batch'[j].file # batch'[k].file
    <3>1. CASE j \in DOMAIN batch /\ k \in DOMAIN batch
      BY <1>13, <2>1, <2>4, <3>1 DEF Waiting
    <3>2. CASE j \in DOMAIN batch /\ k \notin DOMAIN batch
      <4>1. batch'[k].file = file /\ batch'[j] = batch[j]
        BY <1>9, <1>13, <3>2
      <4> QED
        BY <1>12, <2>4, <3>2, <4>1
    <3>3. CASE j \notin DOMAIN batch /\ k \in DOMAIN batch
      <4>1. batch'[j].file = file /\ batch'[k] = batch[k]
        BY <1>9, <1>13, <3>3
      <4> QED
        BY <1>12, <2>4, <3>3, <4>1
    <3>4. CASE j \notin DOMAIN batch /\ k \notin DOMAIN batch
      BY <1>13, <2>4, <3>4
    <3> QED
      BY <3>1, <3>2, <3>3, <3>4
  <2> QED
    BY <2>2, <2>3, <2>4 DEF Waiting
<1>15. Unshared(batch', rest)
  BY <1>6, <1>9, <1>11, <1>13 DEF Unshared
<1>16. BatchOK(batch')
  BY <1>9, <1>13 DEF SearchState, SearchOK, BatchOK
<1>17. Waiting(rest, P, cached')
  BY <1>5 DEF Waiting
<1>18. Holds(trees, P) /\ P = FilesIn(trees) /\ P \subseteq cached'
  BY <1>5 DEF SearchState, SearchOK, P
<1>19. SearchOK(trees, cached', rest, batch')
  BY <1>14, <1>15, <1>16, <1>17, <1>18 DEF SearchOK
<1> QED
  BY <1>1, <1>19 DEF SearchState

LEMMA ParsedLoad ==
    \A n, f, p, q : [[name |-> n, file |-> f, parsed |-> p] EXCEPT !.parsed = q]
                       = [name |-> n, file |-> f, parsed |-> q]
OBVIOUS

LEMMA ParseFoundKeeps ==
    ASSUME SearchState, ParseFound
    PROVE  SearchState' /\ trees' = trees
<1>1. PICK k \in DOMAIN batch :
          /\ batch[k].file # NoFile
          /\ batch' = [batch EXCEPT ![k].parsed = TRUE]
          /\ cached' = cached \cup Includes[batch[k].file]
  BY DEF ParseFound
<1>2. trees' = trees /\ worklist' = worklist
  BY DEF ParseFound
<1>3. PICK B : batch \in Seq(B)
  BY DEF SearchState, SearchOK, Waiting, IsLoads
<1>4. Len(batch) \in Nat /\ DOMAIN batch = 1 .. Len(batch)
  BY <1>3, SeqFacts
<1> DEFINE name == batch[k].name
           file == batch[k].file
           b == [name |-> name, file |-> file, parsed |-> TRUE]
<1>5. batch' = [batch EXCEPT ![k] = b]
  <2>1. batch[k] = [name |-> name, file |-> file, parsed |-> batch[k].parsed]
    BY DEF SearchState, SearchOK, BatchOK
  <2>2. [batch[k] EXCEPT !.parsed = TRUE] = b
    <3>1. [[name |-> name, file |-> file, parsed |-> batch[k].parsed] EXCEPT !.parsed = TRUE] = b
      BY ParsedLoad, Zenon
    <3> HIDE DEF name, file, b
    <3> QED
      BY <2>1, <3>1, Zenon
  <2> HIDE DEF b
  <2>3. batch' = [batch EXCEPT ![k] = [batch[k] EXCEPT !.parsed = TRUE]]
    BY <1>1
  <2> QED
    BY <2>2, <2>3
<1>6. b.name = name /\ b.file = file /\ b = [name |-> b.name, file |-> b.file, parsed |-> b.parsed]
  OBVIOUS
<1> HIDE DEF b
<1>7. /\ \E S : batch' \in Seq(S)
      /\ DOMAIN batch' = DOMAIN batch
      /\ \A j \in DOMAIN batch : batch'[j] = IF j = k THEN b ELSE batch[j]
  <2>1. batch \in Seq(B \cup {b}) /\ b \in B \cup {b} /\ k \in 1 .. Len(batch)
    BY <1>3, <1>4, SeqMonotonic
  <2> QED
    BY <1>4, <1>5, <2>1, ExceptSeq
<1>8. \A j \in DOMAIN batch : batch'[j].name = batch[j].name /\ batch'[j].file = batch[j].file
  BY <1>6, <1>7
<1>9. Waiting(batch', FilesIn(trees), cached')
  <2>1. IsLoads(batch')
    BY <1>7, <1>8 DEF SearchState, SearchOK, Waiting, IsLoads
  <2>2. \A j \in DOMAIN batch' : batch'[j].file # NoFile
                                   => batch'[j].file \in cached' /\ batch'[j].file \notin FilesIn(trees)
    BY <1>1, <1>7, <1>8 DEF SearchState, SearchOK, Waiting
  <2>3. \A i, j \in DOMAIN batch' : i # j /\ batch'[i].file # NoFile => batch'[i].file # batch'[j].file
    BY <1>7, <1>8 DEF SearchState, SearchOK, Waiting
  <2> QED
    BY <2>1, <2>2, <2>3 DEF Waiting
<1>10. Unshared(batch', worklist)
  BY <1>7, <1>8 DEF SearchState, SearchOK, Unshared
<1>11. BatchOK(batch')
  BY <1>1, <1>6, <1>7 DEF SearchState, SearchOK, BatchOK
<1>12. Waiting(worklist, FilesIn(trees), cached') /\ FilesIn(trees) \subseteq cached'
  BY <1>1 DEF SearchState, SearchOK, Waiting
<1>13. SearchOK(trees, cached', worklist, batch')
  BY <1>9, <1>10, <1>11, <1>12 DEF SearchState, SearchOK
<1> QED
  BY <1>2, <1>13 DEF SearchState

\* Stack entries for files among the first n of the batch.
FilesAmong(s, n) == \A j \in DOMAIN s : \E k \in 1 .. n : s[j].file = batch[k].file

\* The trees that go back on the stack still wait, each once.
LEMMA StillWantedWait ==
    ASSUME NEW count \in Nat, count <= Len(batch), NEW names, NEW P, NEW ca,
           Waiting(batch, P, ca), BatchOK(batch)
    PROVE  /\ Waiting(StillWanted(count, names), P, ca)
           /\ FilesAmong(StillWanted(count, names), count)
<1> DEFINE l(k) == [name |-> batch[k].name, file |-> batch[k].file]
           I == {k \in 1 .. count : batch[k].parsed /\ batch[k].name \notin names}
           parts == [k \in 1 .. count |-> IF batch[k].parsed /\ batch[k].name \notin names
                                            THEN <<l(k)>> ELSE <<>>]
           s == StillWanted(count, names)
           L == {l(k) : k \in I}
<1>1. s = FlattenSeq(parts)
  BY DEF StillWanted
<1>2. PICK B : batch \in Seq(B)
  BY DEF Waiting, IsLoads
<1>3. Len(batch) \in Nat /\ DOMAIN batch = 1 .. Len(batch)
  BY <1>2, SeqFacts
<1>4. \A k \in 1 .. count : k \in DOMAIN batch
  BY <1>3
<1>5. \A k : l(k).name = batch[k].name /\ l(k).file = batch[k].file
  OBVIOUS
<1>6. \A k \in I : k \in DOMAIN batch /\ batch[k].file # NoFile
  BY <1>4 DEF BatchOK
<1>7. \A k \in 1 .. count : parts[k] = IF k \in I THEN <<l(k)>> ELSE <<>>
  OBVIOUS
<1>8. parts = [k \in 1 .. count |-> parts[k]]
  OBVIOUS
<1>9. \A j, k \in I : j # k => l(j) # l(k)
  BY <1>5, <1>6 DEF Waiting
<1>10. \A k \in I : l(k) \in L
  OBVIOUS
<1>11. \A k \in I : k \in 1 .. count
  OBVIOUS
<1>12. \A x \in L : \E k \in I : x = l(k)
  OBVIOUS
<1> HIDE DEF parts, I, L, l, s
<1>13. ASSUME NEW x PROVE /\ \A S : x \in S => <<x>> \in Seq(S)
                          /\ ToSet(<<x>>) = {x} /\ IsInjective(<<x>>)
  <2> DEFINE one == <<x>>
  <2>1. one \in Seq({x}) /\ Len(one) = 1 /\ one[1] = x /\ DOMAIN one = {1}
    OBVIOUS
  <2>2. ToSet(one) = {x} /\ IsInjective(one)
    BY <2>1 DEF ToSet, IsInjective
  <2> QED
    BY <2>1, <2>2
<1>14. \A S : <<>> \in Seq(S) /\ ToSet(<<>>) = {} /\ IsInjective(<<>>)
  BY DEF ToSet, IsInjective
<1>15. ASSUME NEW k \in 1 .. count
       PROVE  /\ parts[k] \in Seq(L) /\ IsInjective(parts[k])
              /\ ToSet(parts[k]) = IF k \in I THEN {l(k)} ELSE {}
  <2>1. CASE k \in I
    <3>1. PICK x : x = l(k)
      OBVIOUS
    <3>2. parts[k] = <<x>> /\ x \in L
      BY <1>7, <1>10, <2>1, <3>1
    <3>3. <<x>> \in Seq(L) /\ ToSet(<<x>>) = {x} /\ IsInjective(<<x>>)
      BY <1>13, <3>2
    <3> QED
      BY <2>1, <3>1, <3>2, <3>3
  <2>2. CASE k \notin I
    BY <1>7, <1>14, <2>2
  <2> QED
    BY <2>1, <2>2
<1>16. parts \in Seq(Seq(L)) /\ DOMAIN parts = 1 .. count
  BY <1>8, <1>15
<1>17. Apart(parts)
  <2> SUFFICES ASSUME NEW k \in 1 .. count, NEW j \in 1 .. count, j # k
               PROVE  ToSet(parts[j]) \cap ToSet(parts[k]) = {}
    BY <1>15, <1>16 DEF Apart
  <2> QED
    BY <1>9, <1>15
<1>18. s \in Seq(L) /\ IsInjective(s)
  BY <1>1, <1>16, <1>17, FlattenFacts
<1>19. \A j \in DOMAIN s : \E k \in I : s[j] = l(k)
  <2>1. \A j \in DOMAIN s : s[j] \in L
    BY <1>18, SeqFacts
  <2> QED
    BY <1>12, <2>1
<1>20. IsLoads(s)
  BY <1>5, <1>6, <1>18, <1>19 DEF IsLoads, Waiting
<1>21. \A j \in DOMAIN s : s[j].file \in ca /\ s[j].file \notin P
  BY <1>5, <1>6, <1>19 DEF Waiting
<1>22. ASSUME NEW i \in DOMAIN s, NEW j \in DOMAIN s, i # j PROVE s[i].file # s[j].file
  <2>1. PICK a \in I : s[i] = l(a)
    BY <1>19
  <2>2. PICK b \in I : s[j] = l(b)
    BY <1>19
  <2>3. a # b
    BY <1>18, <1>22, <2>1, <2>2 DEF IsInjective
  <2> QED
    BY <1>5, <1>6, <2>1, <2>2, <2>3 DEF Waiting
<1>23. Waiting(s, P, ca)
  BY <1>20, <1>21, <1>22 DEF Waiting
<1>24. \A j \in DOMAIN s : \E k \in 1 .. count : s[j].file = batch[k].file
  BY <1>5, <1>11, <1>19
<1> QED
  BY <1>23, <1>24 DEF s, FilesAmong

\* What is left of a batch below the tree that is added.
LEMMA BatchBelow ==
    ASSUME NEW P, NEW ca, Waiting(batch, P, ca), BatchOK(batch), NEW n \in Nat, n + 1 \in DOMAIN batch,
           batch[n + 1].file # NoFile
    PROVE  /\ Waiting(SubSeq(batch, 1, n), P, ca)
           /\ BatchOK(SubSeq(batch, 1, n))
           /\ \A i \in DOMAIN SubSeq(batch, 1, n) : SubSeq(batch, 1, n)[i].file # batch[n + 1].file
<1> DEFINE left == SubSeq(batch, 1, n)
<1>1. PICK B : batch \in Seq(B)
  BY DEF Waiting, IsLoads
<1>2. Len(batch) \in Nat /\ DOMAIN batch = 1 .. Len(batch) /\ n <= Len(batch)
  BY <1>1, SeqFacts
<1>3. IsPart(left, batch, 0)
  BY <1>1, <1>2, SomeFirst
<1>4. Waiting(left, P, ca)
  BY <1>3, PartWaits
<1>5. \A i \in DOMAIN left : i \in DOMAIN batch /\ left[i] = batch[i] /\ i # n + 1
  <2>1. 1 \in Int /\ n \in Int /\ \A i \in 1 .. n : batch[i] \in B
    BY <1>1, <1>2, SeqFacts
  <2>2. left \in Seq(B) /\ Len(left) = IF 1 <= n THEN n - 1 + 1 ELSE 0
    BY <2>1, SubSeqProperties
  <2>3. DOMAIN left = 1 .. n
    BY <2>2, SeqFacts
  <2>4. \A i \in 1 .. n : i + 0 = i /\ i # n + 1
    OBVIOUS
  <2> HIDE DEF left
  <2> QED
    BY <1>3, <2>3, <2>4 DEF IsPart
<1>6. BatchOK(left)
  BY <1>5 DEF BatchOK
<1>7. \A i \in DOMAIN left : left[i].file # batch[n + 1].file
  BY <1>5 DEF Waiting
<1> QED
  BY <1>4, <1>6, <1>7

\* The tree that is committed was in the batch, and in no tree.
LEMMA LastWanted ==
    ASSUME SearchState, NEW k, k = SelectLastInSeq(batch, LAMBDA l : l.parsed /\ l.name \notin known)
    PROVE  \/ k = 0
           \/ /\ k \in DOMAIN batch /\ k - 1 \in Nat /\ k - 1 + 1 = k /\ k - 1 <= Len(batch)
              /\ batch[k].file \in Files /\ batch[k].file # NoFile
              /\ batch[k].file \in cached /\ batch[k].file \notin FilesIn(trees)
<1> DEFINE I == {i \in 1 .. Len(batch) : batch[i].parsed /\ batch[i].name \notin known}
<1>1. k = IF I # {} THEN Max(I) ELSE 0
  BY DEF SelectLastInSeq
<1>2. PICK B : batch \in Seq(B)
  BY DEF SearchState, SearchOK, Waiting, IsLoads
<1>3. Len(batch) \in Nat /\ DOMAIN batch = 1 .. Len(batch)
  BY <1>2, SeqFacts
<1>4. I \in SUBSET (1 .. Len(batch))
  OBVIOUS
<1>5. CASE I = {}
  BY <1>1, <1>5
<1>6. CASE I # {}
  <2>1. k \in I
    <3> HIDE DEF I
    <3> QED
      BY <1>1, <1>3, <1>4, <1>6, GreatestIndex
  <2>2. k \in 1 .. Len(batch) /\ batch[k].parsed
    BY <2>1
  <2>3. k \in DOMAIN batch /\ k - 1 \in Nat /\ k - 1 + 1 = k /\ k - 1 <= Len(batch)
    BY <1>3, <2>2
  <2>4. batch[k].file # NoFile
    BY <2>2, <2>3 DEF SearchState, SearchOK, BatchOK
  <2> QED
    BY <2>3, <2>4 DEF SearchState, SearchOK, Waiting, IsLoads
<1> QED
  BY <1>5, <1>6

LEMMA UnsharedWithNone ==
    /\ \A s : Unshared(<<>>, s) /\ Unshared(s, <<>>)
    /\ BatchOK(<<>>)
<1>1. DOMAIN <<>> = {}
  OBVIOUS
<1> QED
  BY <1>1 DEF Unshared, BatchOK

LEMMA CommitKeeps ==
    ASSUME SearchState, Commit
    PROVE  SearchState' /\ FilesIn(trees) \subseteq FilesIn(trees')
<1> DEFINE P == FilesIn(trees)
<1>1. PICK k : k = SelectLastInSeq(batch, LAMBDA l : l.parsed /\ l.name \notin known)
  OBVIOUS
<1>2. cached' = cached
  BY DEF Commit
<1>3. \/ batch' = <<>> /\ UNCHANGED <<trees, known, missing, worklist>>
      \/ /\ k # 0
         /\ AddTree(batch[k].file, <<>>) /\ batch' = SubSeq(batch, 1, k - 1)
      \/ /\ k # 0
         /\ AddTree(batch[k].file, StillWanted(k - 1, known \cup Declares[batch[k].file]))
         /\ batch' = <<>>
  BY <1>1 DEF Commit
<1>4. Waiting(batch, P, cached) /\ BatchOK(batch) /\ Holds(trees, P) /\ P \subseteq cached
  BY DEF SearchState, SearchOK
<1>5. CASE batch' = <<>> /\ UNCHANGED <<trees, known, missing, worklist>>
  BY <1>2, <1>5, NothingWaits, UnsharedWithNone DEF SearchState, SearchOK
<1>6. ASSUME k # 0 PROVE /\ k \in DOMAIN batch /\ k - 1 \in Nat /\ k - 1 + 1 = k /\ k - 1 <= Len(batch)
                         /\ batch[k].file \in Files /\ batch[k].file # NoFile
                         /\ batch[k].file \in cached /\ batch[k].file \notin P
  BY <1>1, <1>6, LastWanted
<1>7. CASE k # 0 /\ AddTree(batch[k].file, <<>>) /\ batch' = SubSeq(batch, 1, k - 1)
  <2>1. PICK n : n = k - 1
    OBVIOUS
  <2>2. n \in Nat /\ n + 1 = k /\ n + 1 \in DOMAIN batch /\ batch[n + 1].file # NoFile
    BY <1>6, <1>7, <2>1
  <2>3. /\ Waiting(batch', P, cached) /\ BatchOK(batch')
        /\ \A i \in DOMAIN batch' : batch'[i].file # batch[k].file
    <3>1. batch' = SubSeq(batch, 1, n)
      BY <1>7, <2>1
    <3> QED
      BY <1>4, <2>2, <3>1, BatchBelow
  <2>4. DOMAIN <<>> = {} /\ Waiting(<<>>, P, cached) /\ Unshared(batch', <<>>)
    BY NothingWaits, UnsharedWithNone
  <2>5. cached \cup {batch[k].file} \subseteq cached
    BY <1>6, <1>7
  <2>6. SearchOK(trees', cached, worklist', batch') /\ P \subseteq FilesIn(trees')
    BY <1>4, <1>6, <1>7, <2>3, <2>4, <2>5, TreeAdded
  <2> QED
    BY <1>2, <2>6 DEF SearchState
<1>8. CASE /\ k # 0
           /\ AddTree(batch[k].file, StillWanted(k - 1, known \cup Declares[batch[k].file]))
           /\ batch' = <<>>
  <2>1. PICK n : n = k - 1
    OBVIOUS
  <2>2. n \in Nat /\ n + 1 = k /\ n <= Len(batch)
    BY <1>6, <1>8, <2>1
  <2>3. PICK names : names = known \cup Declares[batch[k].file]
    OBVIOUS
  <2>4. AddTree(batch[k].file, StillWanted(n, names))
    BY <1>8, <2>1, <2>3
  <2>5. /\ Waiting(StillWanted(n, names), P, cached)
        /\ FilesAmong(StillWanted(n, names), n)
    BY <1>4, <2>2, StillWantedWait
  <2>6. \A i \in 1 .. n : batch[i].file # batch[k].file
    <3>1. PICK B : batch \in Seq(B)
      BY DEF SearchState, SearchOK, Waiting, IsLoads
    <3>2. Len(batch) \in Nat /\ DOMAIN batch = 1 .. Len(batch)
      BY <3>1, SeqFacts
    <3>3. \A i \in 1 .. n : i \in DOMAIN batch /\ i # k
      BY <2>2, <3>2
    <3> QED
      BY <1>4, <1>6, <1>8, <3>3 DEF Waiting
  <2>7. \A j \in DOMAIN StillWanted(n, names) : StillWanted(n, names)[j].file # batch[k].file
    BY <2>5, <2>6 DEF FilesAmong
  <2>8. /\ DOMAIN <<>> = {} /\ Waiting(<<>>, P, cached) /\ BatchOK(<<>>)
        /\ Unshared(<<>>, StillWanted(n, names))
    BY NothingWaits, UnsharedWithNone
  <2>9. cached \cup {batch[k].file} \subseteq cached
    BY <1>6, <1>8
  <2>10. SearchOK(trees', cached, worklist', <<>>) /\ P \subseteq FilesIn(trees')
    BY <1>4, <1>6, <1>8, <2>4, <2>5, <2>7, <2>8, <2>9, TreeAdded
  <2> QED
    BY <1>2, <1>8, <2>10 DEF SearchState
<1> QED
  BY <1>3, <1>5, <1>7, <1>8
-----------------------------------------------------------------------------
(***************************************************************************)
(* Arrange begins the search with every file that can be read in a tree.   *)
(***************************************************************************)
LEMMA UnreadableReported ==
    ASSUME EntriesOK, AllClassified(entries, results), NEW E, entries \in Seq(E),
           NEW k \in DOMAIN entries, entries[k].path \notin Readable
    PROVE  LET bad == FilesWith("error", ToSet(entries))
               reports == [j \in DOMAIN bad |-> CannotRead(bad[j])]
           IN  CannotRead(entries[k].path) \in ToSet(reports)
<1> DEFINE bad == FilesWith("error", ToSet(entries))
           reports == [j \in DOMAIN bad |-> CannotRead(bad[j])]
<1>1. results[k] = "error"
  BY ClassifyError DEF AllClassified
<1>2. k \in Selected("error", ToSet(entries))
  BY <1>1 DEF Selected, ToSet
<1>3. ToSet(bad) = Paths(Selected("error", ToSet(entries)))
  BY FilesAreFiles
<1>4. entries[k].path \in ToSet(bad)
  BY <1>2, <1>3 DEF Paths
<1>5. ToSet(reports) = {CannotRead(p) : p \in ToSet(bad)}
  BY CannotReadFacts DEF EntriesOK
<1> QED
  BY <1>4, <1>5

LEMMA FilesCached ==
    ASSUME NEW ts, NEW P, Holds(ts, P)
    PROVE  FilesIn(ts) \subseteq UNION {CachedBy(t) : t \in ToSet(ts)}
<1> SUFFICES ASSUME NEW k \in DOMAIN ts, NEW f \in ToSet(ts[k].files)
             PROVE  f \in UNION {CachedBy(t) : t \in ToSet(ts)}
  BY DEF FilesIn
<1>1. ts[k] \in ToSet(ts)
  BY DEF ToSet
<1>2. f \in CachedBy(ts[k])
  BY DEF CachedBy
<1> QED
  BY <1>1, <1>2

LEMMA ArrangeStartsSearch ==
    ASSUME LoadInv, SearchInv, Arrange
    PROVE  SearchInv'
<1> DEFINE bad == FilesWith("error", ToSet(entries))
           reports == [k \in DOMAIN bad |-> CannotRead(bad[k])]
<1>1. /\ phase = "arrange" /\ phase' \in Searched
      /\ errors' = errors \o reports /\ entries' = entries /\ batch' = batch
  BY DEF Arrange, Searched
<1>2. worklist = <<>> /\ batch = <<>>
  BY <1>1 DEF SearchInv, Searched
<1>3. PICK libraries \in Orders(Libraries), units \in Orders(Units) :
          /\ trees' = ArrangeTrees(libraries, units)
          /\ cached' = { e.path : e \in ToSet(entries) } \cup UNION { CachedBy(t) : t \in ToSet(trees') }
          /\ worklist' = FirstLoads(trees') \/ worklist' = worklist
  <2>1. PICK ts \in Arrangements :
            /\ trees' = ts
            /\ cached' = { e.path : e \in ToSet(entries) } \cup UNION { CachedBy(t) : t \in ToSet(ts) }
            /\ worklist' = FirstLoads(ts) \/ worklist' = worklist
    BY DEF Arrange
  <2>2. PICK libraries \in Orders(Libraries), units \in Orders(Units) : ts = ArrangeTrees(libraries, units)
    BY DEF Arrangements
  <2> QED
    BY <2>1, <2>2
<1>4. Listed([entries |-> entries, errors |-> errors])
  BY <1>1 DEF LoadInv
<1>5. PICK E : entries \in Seq(E)
  BY <1>4 DEF Listed
<1>6. EntriesOK
  BY <1>4 DEF Listed, EntriesOK
<1>7. AllClassified(entries, results)
  BY <1>1 DEF LoadInv
<1>8. Holds(trees', Paths(CanRead)) /\ Paths(CanRead) = FilesIn(trees')
  BY <1>3, <1>6, <1>7, ArrangedHolds, FilesHeld
<1>9. FilesIn(trees') \subseteq cached'
  BY <1>3, <1>8, FilesCached
<1>10. Waiting(worklist', FilesIn(trees'), cached')
  <2>1. FirstLoads(trees') \in Seq(NewLoadSet)
    BY <1>8, FirstLoadsFacts
  <2> QED
    BY <1>2, <1>3, <2>1, OnlyNewWait, NothingWaits
<1>11. SearchOK(trees', cached', worklist', batch')
  BY <1>1, <1>2, <1>8, <1>9, <1>10, NothingWaits, UnsharedWithNone DEF SearchOK
<1>12. ListedParsed(entries, trees', errors')
  <2> SUFFICES ASSUME NEW k \in DOMAIN entries
               PROVE  IF entries[k].path \in Readable THEN entries[k].path \in FilesIn(trees')
                      ELSE CannotRead(entries[k].path) \in ToSet(errors')
    BY DEF ListedParsed
  <2>1. CASE entries[k].path \in Readable
    BY <1>8, <2>1 DEF Paths, CanRead
  <2>2. CASE entries[k].path \notin Readable
    <3>1. CannotRead(entries[k].path) \in ToSet(reports)
      BY <1>5, <1>6, <1>7, <2>2, UnreadableReported
    <3>2. PICK T : reports \in Seq(T)
      BY <1>5, <1>6, CannotReadFacts DEF EntriesOK
    <3> HIDE DEF reports
    <3>3. ToSet(errors') = ToSet(errors) \cup ToSet(reports)
      BY <1>1, <1>4, <3>2, ErrorsGrow
    <3> QED
      BY <2>2, <3>1, <3>3
  <2> QED
    BY <2>1, <2>2
<1> QED
  BY <1>1, <1>11, <1>12 DEF SearchInv

LEMMA ListedStaysParsed ==
    ASSUME ListedParsed(entries, trees, errors), FilesIn(trees) \subseteq FilesIn(trees'),
           UNCHANGED <<entries, errors>>
    PROVE  ListedParsed(entries, trees, errors)'
  BY DEF ListedParsed

LEMMA SearchInvInit == Init => SearchInv
  BY DEF Init, SearchInv, Searched

LEMMA NextKeepsSearchInv == LoadInv /\ SearchInv /\ [Next]_vars => SearchInv'
<1> SUFFICES ASSUME LoadInv, SearchInv, [Next]_vars PROVE SearchInv'
  OBVIOUS
<1>1. CASE \/ AddFiles \/ AddLibraryMaps \/ LoadSources \/ StartThreaded \/ StartSequential
           \/ \E w \in Workers : BeginLoad(w) \/ EndAppend(w) \/ LoadAndParse(w)
           \/ WaitForLoads
  <2>1. /\ phase \notin Searched /\ phase' \notin Searched
        /\ worklist' = worklist /\ batch' = batch
    BY <1>1 DEF AddFiles, AddLibraryMaps, LoadSources, StartThreaded, StartSequential, BeginLoad,
                EndAppend, LoadAndParse, WaitForLoads, searchVars, Searched
  <2> QED
    BY <2>1 DEF SearchInv
<1>2. CASE Arrange
  BY <1>2, ArrangeStartsSearch
<1>3. CASE SearchOne \/ FindNext \/ ParseFound \/ Commit
  <2>1. phase \in Searched /\ phase' \in Searched /\ UNCHANGED <<entries, errors>>
    BY <1>3 DEF SearchOne, FindNext, ParseFound, Commit, Searched
  <2>2. SearchState
    BY <2>1 DEF SearchInv, SearchState
  <2>3. SearchState' /\ FilesIn(trees) \subseteq FilesIn(trees')
    BY <1>3, <2>2, SearchOneKeepsFiles, FindNextKeeps, ParseFoundKeeps, CommitKeeps
  <2>4. ListedParsed(entries, trees, errors)'
    BY <2>1, <2>3, ListedStaysParsed DEF SearchInv
  <2> QED
    BY <2>1, <2>3, <2>4 DEF SearchInv, SearchState
<1>4. CASE StartBatch \/ WaitForBatch \/ FinishSearch \/ Terminated \/ UNCHANGED vars
  <2>1. /\ UNCHANGED <<trees, cached, worklist, batch, entries, errors>>
        /\ phase \in Searched <=> phase' \in Searched
    BY <1>4 DEF StartBatch, WaitForBatch, FinishSearch, Terminated, vars, searchVars, Searched
  <2> QED
    BY <2>1 DEF SearchInv, SearchOK, ListedParsed
<1> QED
  BY <1>1, <1>2, <1>3, <1>4 DEF Next, Work

(***************************************************************************)
(* What loadTrees keeps while it searches, one name at a time or in        *)
(* batches: a file found and not yet added to the trees is in the cache,   *)
(* in no tree, and waits in one place.                                     *)
(***************************************************************************)
THEOREM SearchInvariant == Spec => []SearchInv
  BY LoadInvariant, SearchInvInit, NextKeepsSearchInv, PTL DEF Spec

LEMMA HeldOnce ==
    ASSUME NEW P, Holds(trees, P)
    PROVE  LET files == FlattenSeq([k \in DOMAIN trees |-> trees[k].files])
           IN  IsInjective(files) /\ ToSet(files) = P
<1> DEFINE parts == [k \in DOMAIN trees |-> trees[k].files]
<1>1. PICK n \in Nat : DOMAIN trees = 1 .. n
  BY SeqFacts DEF Holds
<1>2. parts = [k \in 1 .. n |-> parts[k]] /\ \A k \in 1 .. n : parts[k] = trees[k].files
  BY <1>1
<1> HIDE DEF parts
<1>3. parts \in Seq(Seq(Files)) /\ DOMAIN parts = 1 .. n
  <2>1. \A k \in 1 .. n : parts[k] \in Seq(Files)
    BY <1>1, <1>2 DEF Holds
  <2> QED
    BY <1>2, <2>1
<1>4. Apart(parts)
  BY <1>1, <1>2, <1>3 DEF Apart, Holds
<1>5. IsInjective(FlattenSeq(parts)) /\ ToSet(FlattenSeq(parts)) = UNION {ToSet(s) : s \in ToSet(parts)}
  BY <1>3, <1>4, FlattenFacts
<1>6. ToSet(parts) = {parts[k] : k \in 1 .. n}
  BY <1>3 DEF ToSet
<1>7. UNION {ToSet(s) : s \in ToSet(parts)} = UNION {ToSet(parts[k]) : k \in 1 .. n}
  BY <1>6
<1>8. P = UNION {ToSet(parts[k]) : k \in 1 .. n}
  BY <1>1, <1>2 DEF Holds
<1> QED
  BY <1>5, <1>7, <1>8 DEF parts

(***************************************************************************)
(* loadAndParseSources and loadTrees: every listed file that can be read   *)
(* is parsed exactly once, alone or with its unit or library, and the      *)
(* others are reported; no file found for a missing name was parsed        *)
(* before, however many threads find and parse.                            *)
(***************************************************************************)
THEOREM FilesOnce == Spec => []EveryFileOnce
<1>1. LoadInv /\ SearchInv => EveryFileOnce
  <2> SUFFICES ASSUME LoadInv, SearchInv, phase \in Searched
               PROVE  LET files == FlattenSeq([k \in DOMAIN trees |-> trees[k].files])
                      IN  /\ IsInjective(files)
                          /\ \A e \in ToSet(entries) :
                                 IF e.path \in Readable THEN e.path \in ToSet(files)
                                 ELSE CannotRead(e.path) \in ToSet(errors)
    BY DEF EveryFileOnce, Searched
  <2> DEFINE files == FlattenSeq([k \in DOMAIN trees |-> trees[k].files])
  <2>1. Holds(trees, FilesIn(trees)) /\ ListedParsed(entries, trees, errors)
    BY DEF SearchInv, SearchOK
  <2>2. IsInjective(files) /\ ToSet(files) = FilesIn(trees)
    BY <2>1, HeldOnce
  <2>3. \A e \in ToSet(entries) : \E k \in DOMAIN entries : e = entries[k]
    BY DEF ToSet
  <2> HIDE DEF files
  <2>4. \A e \in ToSet(entries) : IF e.path \in Readable THEN e.path \in ToSet(files)
                                  ELSE CannotRead(e.path) \in ToSet(errors)
    BY <2>1, <2>2, <2>3 DEF ListedParsed
  <2> QED
    BY <2>2, <2>4 DEF files
<1> QED
  BY <1>1, LoadInvariant, SearchInvariant, PTL
-----------------------------------------------------------------------------
(***************************************************************************)
(* The claims on an entry, one for every time a pattern with a library     *)
(* found its file.                                                         *)
(***************************************************************************)
Rank(x) == Matches(x[3]).rank
FileOf(x) == Matches(x[3]).files[x[4]]
OnFile(C, path) == {x \in C : FileOf(x) = path}

IsClaim(x) == x[3].library # NoLibrary /\ Rank(x) \in Nat

\* Two claims on an entry that nothing ranks above.
TwoBest(rank, D) == \E x, y \in D : x # y /\ Rank(x) = rank /\ Rank(y) = rank

Owned(e, D) ==
    IF D = {} THEN e.library = NoLibrary /\ e.secondLib = NoLibrary
    ELSE /\ e.library # NoLibrary
         /\ \E x \in D : Rank(x) = e.libraryRank /\ x[3].library = e.library
         /\ \A x \in D : e.libraryRank <= Rank(x)
         /\ e.secondLib # NoLibrary <=> TwoBest(e.libraryRank, D)

\* Each claim is about an entry, and each entry belongs where its claims say.
Attributed(es, C) ==
    /\ IsFiniteSet(C)
    /\ \A x \in C : IsClaim(x) /\ \E k \in DOMAIN es : es[k].path = FileOf(x)
    /\ \A k \in DOMAIN es : es[k].unit = NoUnit => Owned(es[k], OnFile(C, es[k].path))

\* What the call claims when it finds the file at path: X, nothing or one claim.
Claiming(X, path, call, rank) ==
    IF call.library = NoLibrary \/ call.unit # NoUnit THEN X = {}
    ELSE \E x : X = {x} /\ x[3] = call /\ FileOf(x) = path /\ Rank(x) = rank

\* What Reconsider makes of the library of an entry.
LEMMA ReconsiderCases ==
    ASSUME NEW e, IsEntry(e), NEW call, NEW rank, NEW new, new = Reconsider(e, call, rank)
    PROVE  \/ /\ call.library = NoLibrary \/ ~(e.library = NoLibrary \/ rank < e.libraryRank)
              /\ call.library = NoLibrary \/ rank # e.libraryRank
              /\ new.library = e.library /\ new.libraryRank = e.libraryRank
              /\ new.secondLib = e.secondLib
           \/ /\ call.library # NoLibrary /\ (e.library = NoLibrary \/ rank < e.libraryRank)
              /\ new.library = call.library /\ new.libraryRank = rank /\ new.secondLib = NoLibrary
           \/ /\ call.library # NoLibrary /\ e.library # NoLibrary /\ rank = e.libraryRank
              /\ ~(rank < e.libraryRank)
              /\ new.library = e.library /\ new.libraryRank = e.libraryRank
              /\ new.secondLib = call.library
<1> DEFINE both == [e EXCEPT !.isLibraryFile = @ /\ call.isLibraryFile]
           better == [both EXCEPT !.library = call.library, !.libraryRank = rank, !.secondLib = NoLibrary]
           tied == [both EXCEPT !.secondLib = call.library]
           flag == e.isLibraryFile /\ call.isLibraryFile
<1>1. Reconsider(e, call, rank) =
          IF call.library = NoLibrary THEN both
          ELSE IF e.library = NoLibrary \/ rank < e.libraryRank THEN better
          ELSE IF rank = e.libraryRank THEN tied ELSE both
  BY DEF Reconsider
<1>2. both = [path |-> e.path, library |-> e.library, secondLib |-> e.secondLib, unit |-> e.unit,
              libraryRank |-> e.libraryRank, isLibraryFile |-> flag]
  <2> HIDE DEF flag
  <2> QED
    BY DEF IsEntry, flag
<1> HIDE DEF both, flag
<1>3. /\ both.library = e.library /\ both.secondLib = e.secondLib /\ both.libraryRank = e.libraryRank
      /\ better.library = call.library /\ better.libraryRank = rank /\ better.secondLib = NoLibrary
      /\ tied.library = e.library /\ tied.libraryRank = e.libraryRank /\ tied.secondLib = call.library
  BY <1>2
<1> HIDE DEF better, tied
<1>4. CASE call.library = NoLibrary
  <2>1. new = both
    BY <1>1, <1>4
  <2> QED
    BY <1>3, <1>4, <2>1
<1>5. CASE call.library # NoLibrary /\ (e.library = NoLibrary \/ rank < e.libraryRank)
  <2>1. new = better
    BY <1>1, <1>5
  <2> QED
    BY <1>3, <1>5, <2>1
<1>6. CASE call.library # NoLibrary /\ ~(e.library = NoLibrary \/ rank < e.libraryRank)
  <2>1. CASE rank = e.libraryRank
    <3>1. new = tied
      BY <1>1, <1>6, <2>1
    <3> QED
      BY <1>3, <1>6, <2>1, <3>1
  <2>2. CASE rank # e.libraryRank
    <3>1. new = both
      BY <1>1, <1>6, <2>2
    <3> QED
      BY <1>3, <1>6, <2>2, <3>1
  <2> QED
    BY <2>1, <2>2
<1> QED
  BY <1>4, <1>5, <1>6

\* A new claim on an entry is settled by its rank.
LEMMA ReconsiderOwned ==
    ASSUME NEW e, IsEntry(e), NEW D, \A x \in D : Rank(x) \in Nat, Owned(e, D),
           NEW path, NEW call, NEW rank \in Nat, call.unit = NoUnit,
           NEW X, Claiming(X, path, call, rank), X \cap D = {}
    PROVE  Owned(Reconsider(e, call, rank), D \cup X)
<1> DEFINE new == Reconsider(e, call, rank)
<1>1. CASE call.library = NoLibrary
  <2>1. X = {} /\ D \cup X = D
    BY <1>1 DEF Claiming
  <2>2. new.library = e.library /\ new.libraryRank = e.libraryRank /\ new.secondLib = e.secondLib
    BY <1>1, ReconsiderCases
  <2> HIDE DEF new
  <2>3. Owned(new, D)
    BY <2>2 DEF Owned
  <2> QED
    BY <2>1, <2>3 DEF new
<1>2. CASE call.library # NoLibrary
  <2>1. PICK x : X = {x} /\ x[3] = call /\ Rank(x) = rank
    BY <1>2 DEF Claiming
  <2> DEFINE all == D \cup X
  <2>2. x \notin D /\ x \in all /\ \A y : y \in all <=> (y \in D \/ y = x)
    BY <2>1
  <2>3. PICK l : l = x[3].library /\ l = call.library
    BY <2>1
  <2> HIDE DEF all
  <2>4. CASE e.library = NoLibrary \/ rank < e.libraryRank
    <3>1. new.library = l /\ new.libraryRank = rank /\ new.secondLib = NoLibrary
      BY <1>2, <2>3, <2>4, ReconsiderCases
    <3> HIDE DEF new
    <3>2. \A y \in D : rank < Rank(y)
      <4>1. CASE D = {}
        BY <4>1
      <4>2. CASE D # {}
        <5>1. e.library # NoLibrary /\ \A y \in D : e.libraryRank <= Rank(y)
          BY <4>2 DEF Owned
        <5>2. PICK y \in D : Rank(y) = e.libraryRank
          BY <4>2 DEF Owned
        <5>3. e.libraryRank \in Nat
          BY <5>2
        <5> QED
          BY <2>4, <5>1, <5>3
      <4> QED
        BY <4>1, <4>2
    <3>3. \A y \in D : Rank(y) # rank
      BY <3>2
    <3>4. ~TwoBest(rank, all)
      BY <2>2, <3>3 DEF TwoBest
    <3>5. all # {} /\ new.library # NoLibrary
      BY <1>2, <2>2, <2>3, <3>1
    <3>6. \E y \in all : Rank(y) = new.libraryRank /\ y[3].library = new.library
      BY <2>1, <2>2, <2>3, <3>1
    <3>7. \A y \in all : new.libraryRank <= Rank(y)
      BY <2>1, <2>2, <3>1, <3>2
    <3>8. new.secondLib # NoLibrary <=> TwoBest(new.libraryRank, all)
      BY <3>1, <3>4
    <3>9. Owned(new, all)
      BY <3>5, <3>6, <3>7, <3>8 DEF Owned
    <3> QED
      BY <3>9 DEF new, all
  <2>5. CASE ~(e.library = NoLibrary \/ rank < e.libraryRank)
    <3>1. D # {} /\ new.library = e.library /\ new.libraryRank = e.libraryRank
      <4>1. D # {}
        BY <2>5 DEF Owned
      <4> QED
        BY <1>2, <2>5, <4>1, ReconsiderCases
    <3>2. new.secondLib = IF rank = e.libraryRank THEN l ELSE e.secondLib
      BY <1>2, <2>3, <2>5, ReconsiderCases
    <3> HIDE DEF new
    <3>3. PICK y \in D : Rank(y) = e.libraryRank /\ y[3].library = e.library
      BY <3>1 DEF Owned
    <3>4. e.libraryRank \in Nat /\ e.libraryRank <= rank /\ \A z \in D : e.libraryRank <= Rank(z)
      BY <2>5, <3>1, <3>3 DEF Owned
    <3>5. CASE rank = e.libraryRank
      <4>1. TwoBest(e.libraryRank, all)
        BY <2>1, <2>2, <3>3, <3>5 DEF TwoBest
      <4> QED
        BY <1>2, <2>1, <2>2, <2>3, <2>5, <3>1, <3>2, <3>3, <3>4, <3>5, <4>1 DEF Owned, new, all
    <3>6. CASE rank # e.libraryRank
      <4>1. TwoBest(e.libraryRank, all) <=> TwoBest(e.libraryRank, D)
        BY <2>1, <2>2, <3>6 DEF TwoBest
      <4>2. e.secondLib # NoLibrary <=> TwoBest(e.libraryRank, D)
        BY <3>1 DEF Owned
      <4> QED
        BY <2>1, <2>2, <2>5, <3>1, <3>2, <3>3, <3>4, <3>6, <4>1, <4>2 DEF Owned, new, all
    <3> QED
      BY <3>5, <3>6
  <2> QED
    BY <2>4, <2>5
<1> QED
  BY <1>1, <1>2

LEMMA NewEntryOwned ==
    ASSUME NEW path, NEW call, NEW rank \in Nat, call.unit = NoUnit,
           NEW X, Claiming(X, path, call, rank)
    PROVE  Owned(NewEntry(path, call, rank), X)
<1> DEFINE new == NewEntry(path, call, rank)
<1>1. new.library = call.library /\ new.libraryRank = rank /\ new.secondLib = NoLibrary
  BY DEF NewEntry
<1> HIDE DEF new
<1>2. CASE call.library = NoLibrary
  <2>1. X = {}
    BY <1>2 DEF Claiming
  <2>2. Owned(new, {})
    BY <1>1, <1>2 DEF Owned
  <2> QED
    BY <2>1, <2>2 DEF new
<1>3. CASE call.library # NoLibrary
  <2>1. PICK x : X = {x} /\ x[3] = call /\ Rank(x) = rank
    BY <1>3 DEF Claiming
  <2>2. ~TwoBest(rank, X) /\ X # {} /\ x \in X /\ \A y \in X : y = x
    BY <2>1 DEF TwoBest
  <2>3. Owned(new, X)
    BY <1>1, <1>3, <2>1, <2>2 DEF Owned
  <2> QED
    BY <2>3 DEF new
<1> QED
  BY <1>2, <1>3

\* Adding a path to the list keeps the entries with their claims.
LEMMA PathAttributed ==
    ASSUME NEW list, Listed(list), NEW path \in Files, NEW call, NEW rank \in Nat, NEW new,
           PathAdded(list, new, path, call, rank),
           NEW C, Attributed(list.entries, C),
           NEW X, Claiming(X, path, call, rank), X \cap C = {}
    PROVE  Attributed(new.entries, C \cup X)
<1> DEFINE es == list.entries
           all == C \cup X
<1>1. PICK E : es \in Seq(E)
  BY DEF Listed
<1>2. /\ list = [entries |-> es, errors |-> list.errors] /\ Distinct(es)
      /\ \A k \in DOMAIN es : IsEntry(es[k])
  BY DEF Listed
<1> HIDE DEF es
<1>3. Len(es) \in Nat /\ DOMAIN es = 1 .. Len(es)
  BY <1>1, SeqFacts
<1>4. /\ IsFiniteSet(C) /\ Attributed(es, C)
      /\ \A x \in C : IsClaim(x) /\ \E k \in DOMAIN es : es[k].path = FileOf(x)
      /\ \A k \in DOMAIN es : es[k].unit = NoUnit => Owned(es[k], OnFile(C, es[k].path))
  BY DEF Attributed, es
<1>5. IsFiniteSet(X) /\ IsFiniteSet(all) /\ \A x \in X : IsClaim(x) /\ FileOf(x) = path
  <2>1. CASE call.library = NoLibrary \/ call.unit # NoUnit
    BY <1>4, <2>1, FS_EmptySet DEF Claiming
  <2>2. CASE ~(call.library = NoLibrary \/ call.unit # NoUnit)
    <3>1. PICK x : X = {x} /\ x[3] = call /\ FileOf(x) = path /\ Rank(x) = rank
      BY <2>2 DEF Claiming
    <3>2. IsFiniteSet(X)
      BY <3>1, FS_Singleton
    <3>3. IsFiniteSet(all)
      BY <1>4, <3>2, FS_Union
    <3>4. IsClaim(x)
      BY <2>2, <3>1 DEF IsClaim
    <3> QED
      BY <3>1, <3>2, <3>3, <3>4
  <2> QED
    BY <2>1, <2>2
<1>6. \A p : p # path => OnFile(all, p) = OnFile(C, p)
  BY <1>5 DEF OnFile
<1>7. OnFile(all, path) = OnFile(C, path) \cup X
  BY <1>5 DEF OnFile
<1>8. \A x \in all : IsClaim(x) /\ (x \in X \/ x \in C)
  BY <1>4, <1>5
<1>9. OnFile(C, path) \cap X = {} /\ \A x \in OnFile(C, path) : Rank(x) \in Nat
  BY <1>4 DEF OnFile, IsClaim
<1> HIDE DEF all
<1>10. CASE /\ \A k \in DOMAIN list.entries : list.entries[k].path # path
            /\ new = [list EXCEPT !.entries = Append(@, NewEntry(path, call, rank))]
  <2> DEFINE e == NewEntry(path, call, rank)
             grown == Append(es, e)
  <2>1. new.entries = grown
    BY <1>2, <1>10
  <2>2. e.path = path /\ e.unit = call.unit
    BY DEF NewEntry
  <2>3. e.unit = NoUnit => Owned(e, X)
    BY <2>2, NewEntryOwned
  <2> HIDE DEF e
  <2>4. /\ grown \in Seq(E \cup {e}) /\ Len(grown) = Len(es) + 1 /\ grown[Len(es) + 1] = e
        /\ \A k \in 1 .. Len(es) : grown[k] = es[k]
    BY <1>1, AppendFacts
  <2>5. DOMAIN grown = DOMAIN es \cup {Len(es) + 1} /\ grown[Len(es) + 1] = e
        /\ \A k \in DOMAIN es : grown[k] = es[k]
    BY <1>3, <2>4, SeqFacts
  <2>6. \A k \in DOMAIN es : es[k].path # path
    BY <1>10 DEF es
  <2> HIDE DEF grown
  <2>7. OnFile(C, path) = {}
    BY <1>4, <2>6 DEF OnFile
  <2>8. OnFile(all, path) = X
    BY <1>7, <2>7
  <2>9. \A x \in all : \E k \in DOMAIN grown : grown[k].path = FileOf(x)
    BY <1>4, <1>5, <1>8, <2>2, <2>5
  <2>10. ASSUME NEW k \in DOMAIN grown, grown[k].unit = NoUnit
         PROVE  Owned(grown[k], OnFile(all, grown[k].path))
    <3>1. CASE k \in DOMAIN es
      BY <1>4, <1>6, <2>5, <2>6, <2>10, <3>1
    <3>2. CASE k = Len(es) + 1
      BY <2>2, <2>3, <2>5, <2>8, <2>10, <3>2
    <3> QED
      BY <2>5, <3>1, <3>2
  <2> QED
    BY <1>5, <1>8, <2>1, <2>9, <2>10 DEF Attributed, all
<1>11. CASE \E k \in DOMAIN list.entries :
            /\ list.entries[k].path = path
            /\ call.unit # NoUnit \/ list.entries[k].unit # NoUnit
            /\ new = [list EXCEPT !.errors = Append(@, MultipleUnits(path))]
  <2>1. PICK k \in DOMAIN es : es[k].path = path /\ (call.unit # NoUnit \/ es[k].unit # NoUnit)
    BY <1>11 DEF es
  <2>2. new.entries = es
    BY <1>2, <1>11
  <2>3. \A x \in all : \E j \in DOMAIN es : es[j].path = FileOf(x)
    BY <1>4, <1>5, <1>8, <2>1
  <2>4. ASSUME NEW j \in DOMAIN es, es[j].unit = NoUnit
        PROVE  Owned(es[j], OnFile(all, es[j].path))
    <3>1. CASE es[j].path # path
      BY <1>4, <1>6, <2>4, <3>1
    <3>2. CASE es[j].path = path
      <4>1. j = k
        BY <1>2, <2>1, <3>2 DEF Distinct
      <4>2. X = {}
        BY <2>1, <2>4, <4>1 DEF Claiming
      <4>3. OnFile(all, path) = OnFile(C, path)
        BY <1>7, <4>2
      <4> QED
        BY <1>4, <2>4, <3>2, <4>3
    <3> QED
      BY <3>1, <3>2
  <2> QED
    BY <1>5, <1>8, <2>2, <2>3, <2>4 DEF Attributed, all
<1>12. CASE \E k \in DOMAIN list.entries :
            /\ list.entries[k].path = path
            /\ call.unit = NoUnit /\ list.entries[k].unit = NoUnit
            /\ new = [list EXCEPT !.entries[k] = Reconsider(@, call, rank)]
  <2>1. PICK k \in DOMAIN es :
            /\ es[k].path = path /\ call.unit = NoUnit /\ es[k].unit = NoUnit
            /\ new = [list EXCEPT !.entries[k] = Reconsider(@, call, rank)]
    BY <1>12 DEF es
  <2> DEFINE e == Reconsider(es[k], call, rank)
             changed == [es EXCEPT ![k] = e]
  <2>2. new.entries = changed
    BY <1>2, <2>1
  <2>3. e.path = path
    BY <1>2, <2>1, ReconsiderFacts
  <2>4. Owned(e, OnFile(C, path) \cup X)
    BY <1>2, <1>4, <1>9, <2>1, ReconsiderOwned
  <2> HIDE DEF e
  <2>5. DOMAIN changed = DOMAIN es /\ \A j \in DOMAIN es : changed[j] = IF j = k THEN e ELSE es[j]
    BY <1>1
  <2> HIDE DEF changed
  <2>6. \A x \in all : \E j \in DOMAIN changed : changed[j].path = FileOf(x)
    <3>1. \A j \in DOMAIN es : changed[j].path = es[j].path
      BY <2>1, <2>3, <2>5
    <3> QED
      BY <1>4, <1>5, <1>8, <2>1, <2>5, <3>1
  <2>7. ASSUME NEW j \in DOMAIN changed, changed[j].unit = NoUnit
        PROVE  Owned(changed[j], OnFile(all, changed[j].path))
    <3>1. CASE j = k
      BY <1>7, <2>3, <2>4, <2>5, <3>1
    <3>2. CASE j # k
      <4>1. changed[j] = es[j] /\ es[j].path # path
        BY <1>2, <2>1, <2>5, <3>2 DEF Distinct
      <4> QED
        BY <1>4, <1>6, <2>5, <2>7, <4>1
    <3> QED
      BY <3>1, <3>2
  <2> QED
    BY <1>5, <1>8, <2>2, <2>6, <2>7 DEF Attributed, all
<1> QED
  BY <1>10, <1>11, <1>12 DEF PathAdded
-----------------------------------------------------------------------------
\* The claims of a call are apart from those made before: they have its id and place.
LEMMA CallAttributed ==
    ASSUME NEW list, Listed(list), NEW call, call.globs \in Seq(Globs), NEW id, NEW i,
           NEW C, Attributed(list.entries, C), ClaimsBy(id, i, call) \cap C = {}
    PROVE  Attributed(AddFilesInternal(list, call).entries, C \cup ClaimsBy(id, i, call))
<1>1. CASE ~Matches(call).found
  <2>1. AddFilesInternal(list, call)
            = [list EXCEPT !.errors = Append(@, [kind |-> "nomatch", call |-> call])]
    BY <1>1 DEF AddFilesInternal
  <2>2. PICK errs : errs = Append(list.errors, [kind |-> "nomatch", call |-> call])
    OBVIOUS
  <2>3. AddFilesInternal(list, call) = [list EXCEPT !.errors = errs]
    BY <2>1, <2>2
  <2>4. AddFilesInternal(list, call).entries = list.entries
    BY <2>3 DEF Listed
  <2>5. ClaimsBy(id, i, call) = {} /\ C \cup ClaimsBy(id, i, call) = C
    BY <1>1 DEF ClaimsBy
  <2> QED
    BY <2>4, <2>5
<1>2. CASE Matches(call).found
  <2> DEFINE files == Matches(call).files
             rank == Matches(call).rank
             n == Len(files)
             claims == ClaimsBy(id, i, call)
             First(k) == {x \in claims : x[4] <= k}
  <2>1. files \in Seq(Files) /\ rank \in Nat
    BY <1>2, MatchesFacts
  <2>2. AddFilesInternal(list, call) = FilesAdded(list, files, call, rank)
    BY <1>2 DEF AddFilesInternal, FilesAdded
  <2>3. n \in Nat /\ DOMAIN files = 1 .. n /\ \A k \in 1 .. n : files[k] \in Files
    BY <2>1, SeqFacts
  <2>4. claims = IF call.library = NoLibrary \/ call.unit # NoUnit THEN {}
                 ELSE {<<id, i, call, j>> : j \in 1 .. n}
    BY <1>2, <2>3 DEF ClaimsBy
  <2>5. \A j : <<id, i, call, j>>[3] = call /\ <<id, i, call, j>>[4] = j
               /\ FileOf(<<id, i, call, j>>) = files[j] /\ Rank(<<id, i, call, j>>) = rank
    BY DEF FileOf, Rank
  <2> HIDE DEF files, rank, n, claims
  <2>6. PICK trace : /\ trace[0] = list
                     /\ trace[n] = FilesAdded(list, files, call, rank)
                     /\ FilesTrace(trace, n, files, call, rank)
    BY <2>1, FilesUnroll DEF n
  <2>7. First(0) = {} /\ First(n) = claims
    BY <2>3, <2>4, <2>5
  <2> DEFINE Next1(k) == First(k + 1) \ First(k)
  <2>8. ASSUME NEW k \in 0 .. n - 1
        PROVE  /\ Claiming(Next1(k), files[k + 1], call, rank)
               /\ First(k + 1) = First(k) \cup Next1(k) /\ First(k) \cap Next1(k) = {}
               /\ Next1(k) \subseteq claims
    <3>1. k \in Nat /\ k + 1 \in 1 .. n
      BY <2>3
    <3>2. First(k) \subseteq First(k + 1)
      <4>1. \A x \in claims : x[4] \in Nat
        BY <2>3, <2>4, <2>5
      <4> QED
        BY <3>1, <4>1
    <3>3. CASE call.library = NoLibrary \/ call.unit # NoUnit
      <4>1. Next1(k) = {}
        BY <2>4, <3>3
      <4> QED
        BY <3>2, <3>3, <4>1 DEF Claiming
    <3>4. CASE ~(call.library = NoLibrary \/ call.unit # NoUnit)
      <4> DEFINE x == <<id, i, call, k + 1>>
      <4>1. Next1(k) = {x}
        <5>1. claims = {<<id, i, call, j>> : j \in 1 .. n}
          BY <2>4, <3>4
        <5>2. x \in Next1(k)
          BY <2>5, <3>1, <5>1
        <5>3. ASSUME NEW y \in Next1(k) PROVE y = x
          <6>1. PICK j \in 1 .. n : y = <<id, i, call, j>>
            BY <5>1
          <6>2. y[4] = j
            BY <2>5, <6>1
          <6>3. y[4] <= k + 1 /\ ~(y[4] <= k)
            OBVIOUS
          <6>4. j = k + 1
            BY <2>3, <3>1, <6>2, <6>3
          <6> QED
            BY <6>1, <6>4
        <5> QED
          BY <5>2, <5>3
      <4>2. x[3] = call /\ FileOf(x) = files[k + 1] /\ Rank(x) = rank
        BY <2>5
      <4> HIDE DEF x, First
      <4>3. Claiming(Next1(k), files[k + 1], call, rank)
        BY <3>4, <4>1, <4>2 DEF Claiming
      <4> QED
        BY <3>2, <4>3 DEF First
    <3> QED
      BY <3>3, <3>4
  <2> HIDE DEF First, Next1
  <2> DEFINE S == {k \in 0 .. n : Listed(trace[k]) /\ Attributed(trace[k].entries, C \cup First(k))}
  <2>9. 0 \in S
    <3>1. C \cup First(0) = C
      BY <2>7
    <3>2. Listed(trace[0]) /\ Attributed(trace[0].entries, C)
      BY <2>6
    <3>3. 0 \in 0 .. n
      BY <2>3
    <3> QED
      BY <3>1, <3>2, <3>3
  <2>10. ASSUME NEW k \in Nat, k < n, k \in S PROVE k + 1 \in S
    <3>1. k \in 0 .. n - 1 /\ k + 1 \in 0 .. n /\ k + 1 \in 1 .. n
      BY <2>3, <2>10
    <3>2. trace[k + 1] = AddPath(trace[k], files[k + 1], call, rank) /\ Listed(trace[k])
      BY <2>6, <2>10, <3>1 DEF FilesTrace
    <3>3. files[k + 1] \in Files
      BY <2>3, <3>1
    <3>4. PathAdded(trace[k], trace[k + 1], files[k + 1], call, rank)
      BY <3>2, AddPathSteps
    <3>5. Listed(trace[k + 1])
      BY <3>2, <3>3, <3>4, PathKeepsListed
    <3> DEFINE before == C \cup First(k)
    <3>6. Attributed(trace[k].entries, before)
      BY <2>10
    <3>7. /\ Claiming(Next1(k), files[k + 1], call, rank) /\ Next1(k) \cap before = {}
          /\ before \cup Next1(k) = C \cup First(k + 1)
      BY <2>8, <3>1 DEF claims
    <3> HIDE DEF before
    <3>8. Attributed(trace[k + 1].entries, before \cup Next1(k))
      BY <2>1, <3>2, <3>3, <3>4, <3>6, <3>7, PathAttributed
    <3> QED
      BY <3>1, <3>5, <3>7, <3>8
  <2>11. n \in 0 .. n
    BY <2>3
  <2> HIDE DEF S
  <2>12. n \in S
    BY <2>3, <2>9, <2>10, <2>11, CountUp
  <2>13. Attributed(trace[n].entries, C \cup First(n))
    BY <2>12 DEF S
  <2> QED
    BY <2>2, <2>6, <2>7, <2>13 DEF claims
<1> QED
  BY <1>1, <1>2

\* Whose claim, and of which call of a map.
LEMMA ClaimsByFacts == \A id, k, call : \A x \in ClaimsBy(id, k, call) : x[1] = id /\ x[2] = k
  BY DEF ClaimsBy

LEMMA MapAttributed ==
    ASSUME NEW list, Listed(list), NEW map \in DOMAIN Maps,
           NEW C, Attributed(list.entries, C), ClaimsOfMap(map) \cap C = {}
    PROVE  Attributed(MembersAdded(list, AddMaps(map)).entries, C \cup ClaimsOfMap(map))
<1> DEFINE members == AddMaps(map)
           n == Len(members)
           claims == ClaimsOfMap(map)
           By(k) == ClaimsBy(map, k, members[k].call)
           First(k) == {x \in claims : x[2] <= k}
<1>1. PICK M : members \in Seq(M) /\ \A m \in M : Member(m)
  BY MapsFacts
<1>2. n \in Nat /\ DOMAIN members = 1 .. n /\ \A k \in 1 .. n : Member(members[k])
  BY <1>1, SeqFacts
<1>3. claims = UNION {By(k) : k \in {j \in 1 .. n : members[j].kind = "library"}}
  BY <1>2 DEF ClaimsOfMap
<1>4. \A k : \A x \in By(k) : x[2] = k
  BY ClaimsByFacts
<1> HIDE DEF members, n, By, claims
<1>5. PICK trace : /\ trace[0] = list
                   /\ trace[n] = MembersAdded(list, members)
                   /\ MembersTrace(trace, n, members)
  BY <1>1, MembersUnroll DEF n
<1>6. First(0) = {} /\ First(n) = claims
  BY <1>2, <1>3, <1>4
<1>7. ASSUME NEW k \in 0 .. n - 1
      PROVE  First(k + 1) = IF members[k + 1].kind = "library" THEN First(k) \cup By(k + 1) ELSE First(k)
  <2>1. k \in Nat /\ k + 1 \in 1 .. n
    BY <1>2
  <2>2. ASSUME NEW x
        PROVE  x \in First(k + 1) <=> x \in First(k) \/ (members[k + 1].kind = "library" /\ x \in By(k + 1))
    <3>1. CASE x \in claims
      <4>1. PICK j \in 1 .. n : members[j].kind = "library" /\ x \in By(j)
        BY <1>3, <3>1
      <4>2. x[2] = j
        BY <1>4, <4>1
      <4>3. x \in First(k + 1) <=> j <= k + 1
        BY <3>1, <4>2
      <4>4. x \in First(k) <=> j <= k
        BY <3>1, <4>2
      <4>5. x \in By(k + 1) <=> j = k + 1
        BY <1>4, <4>1, <4>2
      <4> HIDE DEF First
      <4> QED
        BY <1>2, <2>1, <4>1, <4>3, <4>4, <4>5
    <3>2. CASE x \notin claims
      <4>1. ~(members[k + 1].kind = "library" /\ x \in By(k + 1))
        BY <1>3, <2>1, <3>2
      <4> QED
        BY <3>2, <4>1
    <3> QED
      BY <3>1, <3>2
  <2> HIDE DEF First
  <2> QED
    BY <2>2
<1>8. \A k : First(k) \subseteq claims
  OBVIOUS
<1>9. ASSUME NEW k \in 1 .. n, members[k].kind = "library" PROVE By(k) \subseteq claims
  BY <1>3, <1>9
<1>10. ASSUME NEW k \in 0 .. n - 1 PROVE By(k + 1) \cap First(k) = {}
  BY <1>2, <1>4
<1> HIDE DEF First
<1> DEFINE S == {k \in 0 .. n : Listed(trace[k]) /\ Attributed(trace[k].entries, C \cup First(k))}
<1>11. 0 \in S
  <2>1. C \cup First(0) = C
    BY <1>6
  <2>2. Listed(trace[0]) /\ Attributed(trace[0].entries, C)
    BY <1>5
  <2>3. 0 \in 0 .. n
    BY <1>2
  <2> QED
    BY <2>1, <2>2, <2>3
<1>12. ASSUME NEW k \in Nat, k < n, k \in S PROVE k + 1 \in S
  <2>1. k \in 0 .. n - 1 /\ k + 1 \in 0 .. n /\ k + 1 \in 1 .. n
    BY <1>2, <1>12
  <2>2. trace[k + 1] = AddMember(trace[k], members[k + 1]) /\ Listed(trace[k])
        /\ Attributed(trace[k].entries, C \cup First(k))
    BY <1>5, <1>12, <2>1 DEF MembersTrace
  <2>3. Member(members[k + 1])
    BY <1>2, <2>1
  <2>4. CASE members[k + 1].kind = "recursive"
    <3>1. trace[k + 1] = [trace[k] EXCEPT !.errors = Append(@, members[k + 1])]
      BY <2>2, <2>4 DEF AddMember
    <3>2. Listed(trace[k + 1])
      <4>1. ASSUME NEW m, m.kind = "recursive", NEW l, Listed(l) PROVE Listed(AddMember(l, m))
        BY <4>1, ErrorKeepsListed DEF AddMember
      <4> QED
        BY <2>2, <2>4, <4>1
    <3>3. PICK errs : errs = Append(trace[k].errors, members[k + 1])
      OBVIOUS
    <3>4. trace[k + 1].entries = trace[k].entries
      <4>1. trace[k + 1] = [trace[k] EXCEPT !.errors = errs]
        BY <3>1, <3>3
      <4> QED
        BY <2>2, <4>1 DEF Listed
    <3>5. First(k + 1) = First(k)
      BY <1>7, <2>1, <2>4
    <3> QED
      BY <2>1, <2>2, <3>2, <3>4, <3>5
  <2>5. CASE members[k + 1].kind # "recursive"
    <3> DEFINE call == members[k + 1].call
               before == C \cup First(k)
    <3>1. members[k + 1].kind = "library" /\ call.globs \in Seq(Globs)
      BY <2>3, <2>5 DEF Member
    <3>2. trace[k + 1] = AddFilesInternal(trace[k], call)
      BY <2>2, <2>5 DEF AddMember
    <3>3. By(k + 1) = ClaimsBy(map, k + 1, call)
      BY DEF By
    <3>4. ClaimsBy(map, k + 1, call) \cap before = {}
      <4>1. By(k + 1) \subseteq claims
        BY <1>9, <2>1, <3>1
      <4>2. By(k + 1) \cap C = {}
        BY <4>1 DEF claims
      <4> QED
        BY <1>10, <2>1, <3>3, <4>2
    <3>5. C \cup First(k + 1) = before \cup ClaimsBy(map, k + 1, call)
      BY <1>7, <2>1, <3>1, <3>3
    <3>6. Attributed(trace[k].entries, before)
      BY <2>2
    <3> HIDE DEF call, before
    <3>7. Listed(trace[k + 1])
      BY <2>2, <3>1, <3>2, CallKeepsListed
    <3>8. Attributed(trace[k + 1].entries, before \cup ClaimsBy(map, k + 1, call))
      BY <2>2, <3>1, <3>2, <3>4, <3>6, CallAttributed
    <3> QED
      BY <2>1, <3>5, <3>7, <3>8
  <2> QED
    BY <2>4, <2>5
<1>13. n \in 0 .. n
  BY <1>2
<1> HIDE DEF S
<1>14. n \in S
  BY <1>2, <1>11, <1>12, <1>13, CountUp
<1>15. Attributed(trace[n].entries, C \cup First(n))
  BY <1>14 DEF S
<1> QED
  BY <1>5, <1>6, <1>15 DEF claims, members
-----------------------------------------------------------------------------
\* The invariant behind BestLibrary.
ClaimsInv == Attributed(entries, ClaimsMade)

\* The calls made so far made all the claims.
LEMMA ClaimsAreOfCalls ==
    /\ \A ids, x : x \in ClaimsOfCalls(ids) <=> \E c \in ids : x \in ClaimsBy(c, 1, Calls[c])
    /\ \A maps, x : x \in ClaimsOfMaps(maps) <=> \E map \in maps : x \in ClaimsOfMap(map)
    /\ \A map : \A x \in ClaimsOfMap(map) : x[1] = map
    /\ \A x \in ClaimsMade : x[1] \in called
<1>1. \A ids, x : x \in ClaimsOfCalls(ids) <=> \E c \in ids : x \in ClaimsBy(c, 1, Calls[c])
  BY DEF ClaimsOfCalls
<1>2. \A maps, x : x \in ClaimsOfMaps(maps) <=> \E map \in maps : x \in ClaimsOfMap(map)
  BY DEF ClaimsOfMaps
<1>3. \A map : \A x \in ClaimsOfMap(map) : x[1] = map
  BY ClaimsByFacts DEF ClaimsOfMap
<1>4. \A x \in ClaimsMade : x[1] \in called
  BY <1>1, <1>2, <1>3, ClaimsByFacts DEF ClaimsMade
<1> QED
  BY <1>1, <1>2, <1>3, <1>4

LEMMA OneMoreCall ==
    \A ids, c : ClaimsOfCalls(ids \cup {c}) = ClaimsOfCalls(ids) \cup ClaimsBy(c, 1, Calls[c])
<1> SUFFICES ASSUME NEW ids, NEW c, NEW x
             PROVE  x \in ClaimsOfCalls(ids \cup {c})
                        <=> x \in ClaimsOfCalls(ids) \cup ClaimsBy(c, 1, Calls[c])
  OBVIOUS
<1>1. x \in ClaimsOfCalls(ids \cup {c}) <=> \E d \in ids \cup {c} : x \in ClaimsBy(d, 1, Calls[d])
  BY ClaimsAreOfCalls
<1>2. x \in ClaimsOfCalls(ids) <=> \E d \in ids : x \in ClaimsBy(d, 1, Calls[d])
  BY ClaimsAreOfCalls
<1> QED
  BY <1>1, <1>2

LEMMA OneMoreMap ==
    \A maps, map : ClaimsOfMaps(maps \cup {map}) = ClaimsOfMaps(maps) \cup ClaimsOfMap(map)
<1> SUFFICES ASSUME NEW maps, NEW map, NEW x
             PROVE  x \in ClaimsOfMaps(maps \cup {map}) <=> x \in ClaimsOfMaps(maps) \cup ClaimsOfMap(map)
  OBVIOUS
<1>1. x \in ClaimsOfMaps(maps \cup {map}) <=> \E m \in maps \cup {map} : x \in ClaimsOfMap(m)
  BY ClaimsAreOfCalls
<1>2. x \in ClaimsOfMaps(maps) <=> \E m \in maps : x \in ClaimsOfMap(m)
  BY ClaimsAreOfCalls
<1> QED
  BY <1>1, <1>2

LEMMA ClaimsInvInit == Init => ClaimsInv
<1> SUFFICES ASSUME Init PROVE ClaimsInv
  OBVIOUS
<1>1. ClaimsMade = {} /\ DOMAIN entries = {}
  BY ClaimsAreOfCalls DEF Init
<1>2. IsFiniteSet(ClaimsMade)
  BY <1>1, FS_EmptySet
<1> QED
  BY <1>1, <1>2 DEF ClaimsInv, Attributed

LEMMA AddFilesKeepsClaims == LoadInv /\ ClaimsInv /\ AddFiles => ClaimsInv'
<1> SUFFICES ASSUME LoadInv, ClaimsInv, AddFiles PROVE ClaimsInv'
  OBVIOUS
<1> DEFINE old == [entries |-> entries, errors |-> errors]
           C == ClaimsMade
<1>1. PICK c \in DOMAIN Calls \ called :
          /\ entries' = AddFilesInternal(old, Calls[c]).entries
          /\ called' = called \cup {c}
  BY DEF AddFiles
<1>2. Listed(old) /\ Calls[c].globs \in Seq(Globs) /\ c \notin RootMaps
  BY CallsOK DEF LoadInv, AddFiles
<1>3. ClaimsMade' = C \cup ClaimsBy(c, 1, Calls[c])
  <2>1. called' \ RootMaps = (called \ RootMaps) \cup {c} /\ called' \cap RootMaps = called \cap RootMaps
    BY <1>1, <1>2
  <2>2. ClaimsMade' = ClaimsOfCalls((called \ RootMaps) \cup {c}) \cup ClaimsOfMaps(called \cap RootMaps)
    BY <2>1 DEF ClaimsMade
  <2>3. ClaimsOfCalls((called \ RootMaps) \cup {c}) = ClaimsOfCalls(called \ RootMaps) \cup ClaimsBy(c, 1, Calls[c])
    BY OneMoreCall
  <2> QED
    BY <2>2, <2>3 DEF ClaimsMade
<1>4. ClaimsBy(c, 1, Calls[c]) \cap C = {}
  BY <1>1, ClaimsAreOfCalls, ClaimsByFacts
<1>5. Attributed(old.entries, C)
  BY DEF ClaimsInv
<1> HIDE DEF old, C
<1>6. Attributed(AddFilesInternal(old, Calls[c]).entries, C \cup ClaimsBy(c, 1, Calls[c]))
  BY <1>2, <1>4, <1>5, CallAttributed
<1> QED
  BY <1>1, <1>3, <1>6 DEF ClaimsInv

LEMMA AddLibraryMapsKeepsClaims == LoadInv /\ ClaimsInv /\ AddLibraryMaps => ClaimsInv'
<1> SUFFICES ASSUME LoadInv, ClaimsInv, AddLibraryMaps PROVE ClaimsInv'
  OBVIOUS
<1> DEFINE old == [entries |-> entries, errors |-> errors]
           C == ClaimsMade
<1>1. PICK map \in RootMaps \ called :
          /\ entries' = MembersAdded(old, AddMaps(map)).entries
          /\ called' = called \cup {map}
  BY MapFold DEF AddLibraryMaps
<1>2. Listed(old) /\ map \in DOMAIN Maps
  BY LoaderOK DEF LoadInv, AddLibraryMaps
<1>3. ClaimsMade' = C \cup ClaimsOfMap(map)
  <2>1. called' \ RootMaps = called \ RootMaps /\ called' \cap RootMaps = (called \cap RootMaps) \cup {map}
    BY <1>1
  <2>2. ClaimsMade' = ClaimsOfCalls(called \ RootMaps) \cup ClaimsOfMaps((called \cap RootMaps) \cup {map})
    BY <2>1 DEF ClaimsMade
  <2>3. ClaimsOfMaps((called \cap RootMaps) \cup {map}) = ClaimsOfMaps(called \cap RootMaps) \cup ClaimsOfMap(map)
    BY OneMoreMap
  <2> QED
    BY <2>2, <2>3 DEF ClaimsMade
<1>4. ClaimsOfMap(map) \cap C = {}
  BY <1>1, ClaimsAreOfCalls
<1>5. Attributed(old.entries, C)
  BY DEF ClaimsInv
<1> HIDE DEF old, C
<1>6. Attributed(MembersAdded(old, AddMaps(map)).entries, C \cup ClaimsOfMap(map))
  BY <1>2, <1>4, <1>5, MapAttributed
<1> QED
  BY <1>1, <1>3, <1>6 DEF ClaimsInv

LEMMA NextKeepsClaims == LoadInv /\ ClaimsInv /\ [Next]_vars => ClaimsInv'
<1> SUFFICES ASSUME LoadInv, ClaimsInv, [Next]_vars PROVE ClaimsInv'
  OBVIOUS
<1>1. CASE AddFiles
  BY <1>1, AddFilesKeepsClaims
<1>2. CASE AddLibraryMaps
  BY <1>2, AddLibraryMapsKeepsClaims
<1>3. CASE UNCHANGED <<called, entries>>
  <2>1. ClaimsMade' = ClaimsMade
    BY <1>3 DEF ClaimsMade
  <2> QED
    BY <1>3, <2>1 DEF ClaimsInv
<1>4. CASE ~AddFiles /\ ~AddLibraryMaps
  <2>1. UNCHANGED <<called, entries>>
    BY <1>4 DEF Next, Work, LoadSources, StartThreaded, StartSequential, BeginLoad, EndAppend, LoadAndParse,
                WaitForLoads, Arrange, SearchOne, StartBatch, FindNext, ParseFound, WaitForBatch, Commit,
                FinishSearch, Terminated, vars
  <2> QED
    BY <1>3, <2>1
<1> QED
  BY <1>1, <1>2, <1>4

(***************************************************************************)
(* What addFilesInternal keeps whatever the order of the calls: an entry   *)
(* without a unit has the library of a claim that none outranks, the rank  *)
(* of that claim, and a second library exactly if two claims have it.      *)
(***************************************************************************)
THEOREM ClaimsInvariant == Spec => []ClaimsInv
  BY LoadInvariant, ClaimsInvInit, NextKeepsClaims, PTL DEF Spec

\* More than one: two that differ.
LEMMA MoreThanOne ==
    ASSUME NEW D, IsFiniteSet(D)
    PROVE  Cardinality(D) > 1 <=> \E x, y \in D : x # y
<1>1. CASE D = {}
  BY <1>1, FS_EmptySet
<1>2. CASE D # {}
  <2>1. PICK x : x \in D
    BY <1>2
  <2> DEFINE rest == D \ {x}
  <2>2. IsFiniteSet(rest) /\ Cardinality(rest) = Cardinality(D) - 1 /\ Cardinality(D) \in Nat
    BY <2>1, FS_RemoveElement, FS_CardinalityType
  <2>3. Cardinality(rest) \in Nat /\ (Cardinality(rest) = 0 <=> rest = {})
    BY <2>2, FS_EmptySet, FS_CardinalityType
  <2>4. rest # {} <=> \E y, z \in D : y # z
    BY <2>1
  <2> HIDE DEF rest
  <2> QED
    BY <2>2, <2>3, <2>4
<1> QED
  BY <1>1, <1>2

(***************************************************************************)
(* Whatever the order of the calls and maps, a file belongs to a library   *)
(* whose pattern ranks best for it, and addFilesInternal remembers a tie   *)
(* exactly if two claims rank best.                                        *)
(***************************************************************************)
THEOREM LibrariesBest == Spec => []BestLibrary
<1>1. ClaimsInv => BestLibrary
  <2> SUFFICES ASSUME ClaimsInv, NEW e \in ToSet(entries), e.unit = NoUnit
               PROVE  LET claims == ClaimsOn(e.path)
                          best == { c \in claims : \A d \in claims :
                                      Matches(c[3]).rank <= Matches(d[3]).rank }
                      IN  /\ (e.library = NoLibrary) = (claims = {})
                          /\ claims # {} => \E c \in best : c[3].library = e.library
                          /\ (e.secondLib # NoLibrary) = (Cardinality(best) > 1)
    BY DEF BestLibrary
  <2> DEFINE claims == ClaimsOn(e.path)
             best == { c \in claims : \A d \in claims : Matches(c[3]).rank <= Matches(d[3]).rank }
  <2>1. PICK k \in DOMAIN entries : e = entries[k]
    BY DEF ToSet
  <2>2. claims = OnFile(ClaimsMade, e.path)
    BY DEF ClaimsOn, OnFile, FileOf
  <2>3. Owned(e, claims)
    BY <2>1, <2>2 DEF ClaimsInv, Attributed
  <2>4. IsFiniteSet(ClaimsMade) /\ \A x \in claims : x \in ClaimsMade /\ Rank(x) \in Nat
    BY <2>2 DEF ClaimsInv, Attributed, OnFile, IsClaim
  <2>5. best = { c \in claims : \A d \in claims : Rank(c) <= Rank(d) }
    BY DEF Rank
  <2>6. IsFiniteSet(best)
    <3>1. best \subseteq ClaimsMade
      BY <2>4
    <3> QED
      BY <2>4, <3>1, FS_Subset
  <2>7. Cardinality(best) > 1 <=> \E x, y \in best : x # y
    BY <2>6, MoreThanOne
  <2> HIDE DEF claims, best
  <2>8. CASE claims = {}
    <3>1. e.library = NoLibrary /\ e.secondLib = NoLibrary
      BY <2>3, <2>8 DEF Owned
    <3>2. ~(Cardinality(best) > 1)
      BY <2>5, <2>7, <2>8
    <3> QED
      BY <2>8, <3>1, <3>2 DEF claims, best
  <2>9. CASE claims # {}
    <3>1. /\ e.library # NoLibrary
          /\ \A x \in claims : e.libraryRank <= Rank(x)
          /\ e.secondLib # NoLibrary <=> TwoBest(e.libraryRank, claims)
      BY <2>3, <2>9 DEF Owned
    <3>2. PICK x \in claims : Rank(x) = e.libraryRank /\ x[3].library = e.library
      BY <2>3, <2>9 DEF Owned
    <3>3. \A y : y \in best <=> y \in claims /\ Rank(y) = e.libraryRank
      BY <2>4, <2>5, <3>1, <3>2
    <3>4. x \in best
      BY <3>2, <3>3
    <3>5. TwoBest(e.libraryRank, claims) <=> Cardinality(best) > 1
      BY <2>7, <3>3 DEF TwoBest
    <3>6. (e.library = NoLibrary) = (claims = {})
      BY <2>9, <3>1
    <3>7. (e.secondLib # NoLibrary) = (Cardinality(best) > 1)
      BY <3>1, <3>5
    <3> QED
      BY <3>2, <3>4, <3>6, <3>7 DEF claims, best
  <2> QED
    BY <2>8, <2>9
<1> QED
  BY <1>1, ClaimsInvariant, PTL
-----------------------------------------------------------------------------
(***************************************************************************)
(* Maps that lead to a map that includes itself, and what is read of them. *)
(***************************************************************************)
Closed(T) == T \subseteq DOMAIN Maps /\ \A m \in T : IncludedBy(m) \subseteq T

Cyclic(map) == map \in ReachedFrom(IncludedBy(map))
Live(map) == \E m \in ReachedFrom({map}) : Cyclic(m)

LEMMA IncludesAreMaps ==
    ASSUME NEW map \in DOMAIN Maps
    PROVE  /\ IncludedBy(map) \subseteq DOMAIN Maps
           /\ \A c : c \in IncludedBy(map) <=> \E k \in DOMAIN Maps[map] :
                         Maps[map][k].kind = "include" /\ Maps[map][k].map = c
<1>1. \A c : c \in IncludedBy(map) <=> \E k \in DOMAIN Maps[map] :
                 Maps[map][k].kind = "include" /\ Maps[map][k].map = c
  BY DEF IncludedBy, ToSet
<1>2. \A k \in DOMAIN Maps[map] : Maps[map][k].kind = "include" => Maps[map][k].map \in DOMAIN Maps
  BY CallsOK DEF ToSet
<1> QED
  BY <1>1, <1>2

\* ReachedFrom is the least closed set.
LEMMA ReachedIsClosed ==
    ASSUME NEW S \in SUBSET DOMAIN Maps
    PROVE  S \subseteq ReachedFrom(S) /\ Closed(ReachedFrom(S))
<1>1. S \subseteq ReachedFrom(S)
  BY DEF ReachedFrom
<1>2. ASSUME NEW m \in ReachedFrom(S), NEW c \in IncludedBy(m) PROVE c \in ReachedFrom(S)
  <2>1. m \in DOMAIN Maps
    BY DEF ReachedFrom
  <2>2. c \in DOMAIN Maps
    BY <2>1, IncludesAreMaps
  <2> SUFFICES ASSUME NEW T \in SUBSET DOMAIN Maps, S \subseteq T, \A x \in T : IncludedBy(x) \subseteq T
               PROVE  c \in T
    BY <2>2 DEF ReachedFrom
  <2>3. m \in T
    BY DEF ReachedFrom
  <2> QED
    BY <2>3
<1> QED
  BY <1>1, <1>2 DEF Closed, ReachedFrom

LEMMA ReachedIsLeast == \A S, T : S \subseteq T /\ Closed(T) => ReachedFrom(S) \subseteq T
  BY DEF Closed, ReachedFrom

LEMMA ReachedFromEach ==
    ASSUME NEW S \in SUBSET DOMAIN Maps, NEW m
    PROVE  m \in ReachedFrom(S) <=> \E s \in S : m \in ReachedFrom({s})
<1> DEFINE T == {x \in DOMAIN Maps : \E s \in S : x \in ReachedFrom({s})}
<1>1. \A s \in S : s \in ReachedFrom({s}) /\ Closed(ReachedFrom({s}))
  BY ReachedIsClosed
<1>2. S \subseteq T
  BY <1>1
<1>3. Closed(T)
  <2> SUFFICES ASSUME NEW x \in T, NEW c \in IncludedBy(x) PROVE c \in T
    BY DEF Closed
  <2>1. PICK s \in S : x \in ReachedFrom({s})
    OBVIOUS
  <2>2. c \in ReachedFrom({s}) /\ c \in DOMAIN Maps
    BY <1>1, <2>1 DEF Closed
  <2> QED
    BY <2>2
<1>4. ReachedFrom(S) \subseteq T
  BY <1>2, <1>3, ReachedIsLeast
<1>5. ASSUME NEW s \in S PROVE ReachedFrom({s}) \subseteq ReachedFrom(S)
  BY ReachedIsClosed, ReachedIsLeast
<1> QED
  BY <1>4, <1>5

\* What an included map leads to, the map that includes it does.
LEMMA ReachedThrough ==
    ASSUME NEW map \in DOMAIN Maps, NEW c \in IncludedBy(map)
    PROVE  ReachedFrom({c}) \subseteq ReachedFrom({map}) /\ ReachedFrom({c}) \subseteq ReachedFrom(IncludedBy(map))
<1>1. {map} \in SUBSET DOMAIN Maps /\ IncludedBy(map) \in SUBSET DOMAIN Maps
  BY IncludesAreMaps
<1>2. map \in ReachedFrom({map}) /\ Closed(ReachedFrom({map})) /\ Closed(ReachedFrom(IncludedBy(map)))
  BY <1>1, ReachedIsClosed
<1>3. {c} \subseteq ReachedFrom({map})
  BY <1>2 DEF Closed
<1>4. {c} \subseteq ReachedFrom(IncludedBy(map))
  BY <1>1, ReachedIsClosed
<1> QED
  BY <1>2, <1>3, <1>4, ReachedIsLeast

LEMMA ReachedNext ==
    ASSUME NEW map \in DOMAIN Maps, NEW m \in ReachedFrom({map})
    PROVE  m = map \/ \E c \in IncludedBy(map) : m \in ReachedFrom({c})
<1> DEFINE T == {map} \cup ReachedFrom(IncludedBy(map))
<1>1. IncludedBy(map) \in SUBSET DOMAIN Maps
  BY IncludesAreMaps
<1>2. IncludedBy(map) \subseteq ReachedFrom(IncludedBy(map)) /\ Closed(ReachedFrom(IncludedBy(map)))
  BY <1>1, ReachedIsClosed
<1>3. Closed(T)
  BY <1>2 DEF Closed
<1>4. m \in T
  BY <1>3, ReachedIsLeast
<1> QED
  BY <1>1, <1>4, ReachedFromEach

LEMMA LiveNext ==
    ASSUME NEW map \in DOMAIN Maps
    PROVE  Live(map) <=> \E c \in IncludedBy(map) : Live(c)
<1>1. ASSUME Live(map) PROVE \E c \in IncludedBy(map) : Live(c)
  <2>1. PICK m \in ReachedFrom({map}) : Cyclic(m)
    BY <1>1 DEF Live
  <2>2. CASE m = map
    <3>1. PICK c \in IncludedBy(map) : map \in ReachedFrom({c})
      BY <2>1, <2>2, ReachedFromEach, IncludesAreMaps DEF Cyclic
    <3> QED
      BY <2>1, <2>2, <3>1 DEF Live
  <2>3. CASE m # map
    BY <2>1, <2>3, ReachedNext DEF Live
  <2> QED
    BY <2>2, <2>3
<1>2. ASSUME NEW c \in IncludedBy(map), Live(c) PROVE Live(map)
  BY <1>2, ReachedThrough DEF Live
<1> QED
  BY <1>1, <1>2

\* Does a sequence of members or errors hold one about a map that includes itself?
HasRecursion(s) == \E m \in ToSet(s) : m.kind = "recursive"

LEMMA ReadOnce ==
    ASSUME NEW p \in Reads
    PROVE  HasRecursion(Reading[p]) <=>
               \/ p[1] \in p[2]
               \/ p[1] \notin p[2] /\ \E c \in IncludedBy(p[1]) : HasRecursion(Reading[<<c, p[2] \cup {p[1]}>>])
<1>1. IsReading(Reading)
  BY ReadingExists DEF Reading
<1>2. p[1] \in DOMAIN Maps
  BY DEF Reads
<1>3. Reading[p] = ReadMap(Reading, p[1], p[2])
  BY <1>1 DEF IsReading
<1>4. CASE p[1] \in p[2]
  <2>1. PICK m : m = [kind |-> "recursive", map |-> p[1]]
    OBVIOUS
  <2>2. Reading[p] = <<m>>
    BY <1>3, <1>4, <2>1 DEF ReadMap
  <2>3. m.kind = "recursive" /\ m \in ToSet(<<m>>)
    BY <2>1 DEF ToSet
  <2> QED
    BY <1>4, <2>2, <2>3 DEF HasRecursion
<1>5. CASE p[1] \notin p[2]
  <2> DEFINE members == MembersRead(Reading, p[1], p[2])
             n == Len(Maps[p[1]])
             q(c) == <<c, p[2] \cup {p[1]}>>
  <2>1. n \in Nat /\ DOMAIN Maps[p[1]] = 1 .. n
    <3>1. Maps[p[1]] \in Seq(ToSet(Maps[p[1]]))
      BY <1>2, CallsOK
    <3> QED
      BY <3>1, SeqFacts
  <2>2. PICK M : (\A m \in M : Member(m)) /\ \A x \in Reads : Reading[x] \in Seq(M)
    BY ReadsFacts
  <2>3. \A j \in 1 .. n : members[j] = IF Maps[p[1]][j].kind = "include" THEN Reading[q(Maps[p[1]][j].map)]
                                       ELSE <<Maps[p[1]][j]>>
    BY <2>1 DEF MembersRead
  <2>4. members = [j \in 1 .. n |-> members[j]]
    BY <2>1 DEF MembersRead
  <2>5. \A j \in 1 .. n : \/ Maps[p[1]][j].kind = "include" /\ Maps[p[1]][j].map \in IncludedBy(p[1])
                          \/ Maps[p[1]][j].kind = "library"
    <3> SUFFICES ASSUME NEW j \in 1 .. n
                 PROVE  \/ Maps[p[1]][j].kind = "include" /\ Maps[p[1]][j].map \in IncludedBy(p[1])
                        \/ Maps[p[1]][j].kind = "library"
      OBVIOUS
    <3>1. Maps[p[1]][j] \in ToSet(Maps[p[1]])
      BY <2>1 DEF ToSet
    <3>2. Maps[p[1]][j].kind \in {"include", "library"}
      BY <1>2, <3>1, CallsOK
    <3>3. Maps[p[1]][j].kind = "include" => Maps[p[1]][j].map \in IncludedBy(p[1])
      BY <1>2, <2>1, IncludesAreMaps
    <3> QED
      BY <3>2, <3>3
  <2>6. \A c \in IncludedBy(p[1]) : q(c) \in Reads
    <3>1. \A c \in IncludedBy(p[1]) : c \in DOMAIN Maps
      BY <1>2, IncludesAreMaps
    <3> QED
      BY <1>2, <3>1 DEF Reads
  <2>7. Reading[p] = FlattenSeq(members)
    BY <1>3, <1>5 DEF ReadMap
  <2> DEFINE U == M \cup {Maps[p[1]][j] : j \in 1 .. n}
  <2> HIDE DEF members, n, q
  <2>8. ASSUME NEW j \in 1 .. n
        PROVE  /\ members[j] \in Seq(U)
               /\ HasRecursion(members[j]) <=>
                      Maps[p[1]][j].kind = "include" /\ HasRecursion(Reading[q(Maps[p[1]][j].map)])
    <3>1. CASE Maps[p[1]][j].kind = "include"
      <4>1. members[j] = Reading[q(Maps[p[1]][j].map)]
        BY <2>3, <3>1
      <4>2. members[j] \in Seq(M)
        BY <2>2, <2>5, <2>6, <3>1, <4>1
      <4>3. members[j] \in Seq(U)
        BY <4>2, SeqMonotonic
      <4> QED
        BY <3>1, <4>1, <4>3
    <3>2. CASE Maps[p[1]][j].kind = "library"
      <4>1. PICK m : m = Maps[p[1]][j]
        OBVIOUS
      <4>2. members[j] = <<m>> /\ m \in U /\ m.kind = "library"
        BY <2>3, <3>2, <4>1
      <4>3. <<m>> \in Seq(U) /\ ToSet(<<m>>) = {m}
        <5>1. <<m>> \in Seq({m}) /\ <<m>> \in Seq(U) /\ Len(<<m>>) = 1 /\ <<m>>[1] = m
          BY <4>2
        <5>2. ToSet(<<m>>) = {<<m>>[k] : k \in 1 .. 1}
          BY <5>1, SeqFacts
        <5> QED
          BY <5>1, <5>2
      <4> QED
        BY <3>2, <4>2, <4>3 DEF HasRecursion
    <3> QED
      BY <2>5, <3>1, <3>2
  <2> HIDE DEF U
  <2>9. members \in Seq(Seq(U)) /\ ToSet(members) = {members[j] : j \in 1 .. n}
    <3>1. \A j \in 1 .. n : members[j] \in Seq(U)
      BY <2>8
    <3>2. members \in Seq(Seq(U))
      BY <2>1, <2>4, <3>1
    <3> QED
      BY <2>1, <2>4, <3>2, MadeSeq
  <2>10. HasRecursion(Reading[p]) <=> \E j \in 1 .. n : HasRecursion(members[j])
    <3>1. ToSet(Reading[p]) = UNION {ToSet(s) : s \in ToSet(members)}
      BY <2>7, <2>9, FlattenFacts
    <3>2. \A m : m \in ToSet(Reading[p]) <=> \E j \in 1 .. n : m \in ToSet(members[j])
      BY <2>9, <3>1
    <3> QED
      BY <3>2 DEF HasRecursion
  <2>11. \A c : c \in IncludedBy(p[1]) <=>
             \E j \in 1 .. n : Maps[p[1]][j].kind = "include" /\ Maps[p[1]][j].map = c
    BY <1>2, <2>1, IncludesAreMaps
  <2>12. HasRecursion(Reading[p]) <=> \E c \in IncludedBy(p[1]) : HasRecursion(Reading[q(c)])
    BY <2>8, <2>10, <2>11
  <2> QED
    BY <1>5, <2>12 DEF q
<1> QED
  BY <1>4, <1>5

\* A map that leads to one that includes itself is read with an error, wherever reading began.
LEMMA LiveIsRead == \A p \in Reads : Live(p[1]) => HasRecursion(Reading[p])
<1> DEFINE P == {k \in Nat : \A p \in Reads : Left(p) < k /\ Live(p[1]) => HasRecursion(Reading[p])}
<1>1. Deepest \in Nat /\ \A p \in Reads : Left(p) \in Nat /\ Left(p) < Deepest
  BY LeftBounded
<1>2. 0 \in P
  BY <1>1
<1>3. ASSUME NEW k \in Nat, k \in P PROVE k + 1 \in P
  <2> SUFFICES ASSUME NEW p \in Reads, Left(p) < k + 1, Live(p[1]) PROVE HasRecursion(Reading[p])
    OBVIOUS
  <2>1. CASE p[1] \in p[2]
    BY <2>1, ReadOnce
  <2>2. CASE p[1] \notin p[2]
    <3>1. p[1] \in DOMAIN Maps
      BY DEF Reads
    <3>2. PICK c \in IncludedBy(p[1]) : Live(c)
      BY <3>1, LiveNext
    <3> DEFINE q == <<c, p[2] \cup {p[1]}>>
    <3>3. q \in Reads /\ Left(q) < Left(p) /\ q[1] = c
      BY <2>2, <3>1, IncludesAreMaps, LeftShrinks
    <3> HIDE DEF q
    <3>4. Left(q) < k
      <4>1. Left(p) \in Nat /\ Left(q) \in Nat
        BY <1>1, <3>3
      <4> QED
        BY <3>3, <4>1
    <3>5. HasRecursion(Reading[q])
      BY <1>3, <3>2, <3>3, <3>4
    <3> QED
      BY <2>2, <3>5, ReadOnce DEF q
  <2> QED
    BY <2>1, <2>2
<1>4. Deepest \in P
  <2>1. Deepest \in 0 .. Deepest
    BY <1>1
  <2> HIDE DEF P
  <2> QED
    BY <1>1, <1>2, <1>3, <2>1, CountUp
<1> QED
  BY <1>1, <1>4

\* An error is about a map that includes itself or one that is being read.
LEMMA ReadIsLive ==
    \A p \in Reads : HasRecursion(Reading[p]) => \E m \in ReachedFrom({p[1]}) : m \in p[2] \/ Cyclic(m)
<1> DEFINE Found(p) == \E m \in ReachedFrom({p[1]}) : m \in p[2] \/ Cyclic(m)
           P == {k \in Nat : \A p \in Reads : Left(p) < k /\ HasRecursion(Reading[p]) => Found(p)}
<1>1. Deepest \in Nat /\ \A p \in Reads : Left(p) \in Nat /\ Left(p) < Deepest
  BY LeftBounded
<1>2. 0 \in P
  BY <1>1
<1>3. ASSUME NEW k \in Nat, k \in P PROVE k + 1 \in P
  <2> SUFFICES ASSUME NEW p \in Reads, Left(p) < k + 1, HasRecursion(Reading[p]) PROVE Found(p)
    OBVIOUS
  <2>1. p[1] \in DOMAIN Maps /\ p[1] \in ReachedFrom({p[1]})
    <3>1. p[1] \in DOMAIN Maps
      BY DEF Reads
    <3> QED
      BY <3>1, ReachedIsClosed
  <2>2. CASE p[1] \in p[2]
    BY <2>1, <2>2
  <2>3. CASE p[1] \notin p[2]
    <3>1. PICK c \in IncludedBy(p[1]) : HasRecursion(Reading[<<c, p[2] \cup {p[1]}>>])
      BY <2>3, ReadOnce
    <3> DEFINE q == <<c, p[2] \cup {p[1]}>>
    <3>2. q \in Reads /\ Left(q) < Left(p) /\ q[1] = c /\ q[2] = p[2] \cup {p[1]}
      BY <2>1, <2>3, IncludesAreMaps, LeftShrinks
    <3>3. HasRecursion(Reading[q])
      BY <3>1
    <3> HIDE DEF q
    <3>4. Left(q) < k
      <4>1. Left(p) \in Nat /\ Left(q) \in Nat
        BY <1>1, <3>2
      <4> QED
        BY <3>2, <4>1
    <3>5. PICK m \in ReachedFrom({c}) : m \in q[2] \/ Cyclic(m)
      BY <1>3, <3>2, <3>3, <3>4
    <3>6. m \in ReachedFrom({p[1]}) /\ m \in ReachedFrom(IncludedBy(p[1]))
      BY <2>1, ReachedThrough
    <3>7. m = p[1] => Cyclic(m)
      BY <3>6 DEF Cyclic
    <3> QED
      BY <3>2, <3>5, <3>6, <3>7
  <2> QED
    BY <2>2, <2>3
<1>4. Deepest \in P
  <2>1. Deepest \in 0 .. Deepest
    BY <1>1
  <2> HIDE DEF P
  <2> QED
    BY <1>1, <1>2, <1>3, <2>1, CountUp
<1> QED
  BY <1>1, <1>4

LEMMA MapsReadThemselves ==
    ASSUME NEW map \in DOMAIN Maps
    PROVE  HasRecursion(AddMaps(map)) <=> Live(map)
<1> DEFINE p == <<map, {}>>
<1>1. p \in Reads /\ p[1] = map /\ p[2] = {}
  BY DEF Reads
<1>2. AddMaps(map) = Reading[p]
  BY MapsAreRead DEF Reading
<1> HIDE DEF p
<1> QED
  BY <1>1, <1>2, LiveIsRead, ReadIsLive DEF Live
-----------------------------------------------------------------------------
(***************************************************************************)
(* What the calls and the loading of the entries do to such an error.      *)
(***************************************************************************)
LEMMA RecursionAppended ==
    ASSUME NEW R, NEW s \in Seq(R), NEW e
    PROVE  HasRecursion(Append(s, e)) <=> HasRecursion(s) \/ e.kind = "recursive"
<1>1. ToSet(Append(s, e)) = ToSet(s) \cup {e}
  BY AppendedSet
<1> QED
  BY <1>1 DEF HasRecursion

LEMMA RecursionJoined ==
    ASSUME NEW es, NEW errs, Listed([entries |-> es, errors |-> errs]),
           NEW T, NEW more \in Seq(T), \A m \in T : m.kind # "recursive"
    PROVE  HasRecursion(errs \o more) <=> HasRecursion(errs)
<1>1. ToSet(errs \o more) = ToSet(errs) \cup ToSet(more)
  BY ErrorsGrow
<1>2. ToSet(more) \subseteq T
  BY SeqFacts
<1> QED
  BY <1>1, <1>2 DEF HasRecursion

LEMMA PathRecursion ==
    ASSUME NEW list, Listed(list), NEW path, NEW call, NEW rank, NEW new,
           PathAdded(list, new, path, call, rank)
    PROVE  HasRecursion(new.errors) <=> HasRecursion(list.errors)
<1> DEFINE es == list.entries
           errs == list.errors
<1>1. list = [entries |-> es, errors |-> errs] /\ \E R : errs \in Seq(R)
  BY DEF Listed
<1> HIDE DEF es, errs
<1>2. CASE new = [list EXCEPT !.entries = Append(@, NewEntry(path, call, rank))]
  <2>1. PICK grown : grown = Append(es, NewEntry(path, call, rank))
    OBVIOUS
  <2>2. new = [list EXCEPT !.entries = grown]
    BY <1>1, <1>2, <2>1
  <2>3. new.errors = errs /\ list.errors = errs
    BY <1>1, <2>2
  <2> QED
    BY <2>3
<1>3. CASE new = [list EXCEPT !.errors = Append(@, MultipleUnits(path))]
  <2>1. PICK m : m = MultipleUnits(path) /\ m.kind = "units"
    <3>1. MultipleUnits(path).kind = "units"
      BY DEF MultipleUnits
    <3> QED
      BY <3>1
  <2>2. PICK grown : grown = Append(errs, m)
    OBVIOUS
  <2>3. new = [list EXCEPT !.errors = grown]
    BY <1>1, <1>3, <2>1, <2>2
  <2>4. new.errors = grown /\ list.errors = errs
    BY <1>1, <2>3
  <2>5. HasRecursion(grown) <=> HasRecursion(errs)
    BY <1>1, <2>1, <2>2, RecursionAppended
  <2> QED
    BY <2>4, <2>5
<1>4. CASE \E k \in DOMAIN list.entries : new = [list EXCEPT !.entries[k] = Reconsider(@, call, rank)]
  <2>1. PICK k : new = [list EXCEPT !.entries[k] = Reconsider(@, call, rank)]
    BY <1>4
  <2>2. PICK changed : changed = [es EXCEPT ![k] = Reconsider(@, call, rank)]
    OBVIOUS
  <2>3. new = [list EXCEPT !.entries = changed]
    BY <1>1, <2>1, <2>2
  <2>4. new.errors = errs /\ list.errors = errs
    BY <1>1, <2>3
  <2> QED
    BY <2>4
<1> QED
  BY <1>2, <1>3, <1>4 DEF PathAdded

LEMMA CallRecursion ==
    ASSUME NEW list, Listed(list), NEW call, call.globs \in Seq(Globs)
    PROVE  HasRecursion(AddFilesInternal(list, call).errors) <=> HasRecursion(list.errors)
<1>1. CASE ~Matches(call).found
  <2>1. PICK err : err = [kind |-> "nomatch", call |-> call]
    OBVIOUS
  <2>2. AddFilesInternal(list, call) = [list EXCEPT !.errors = Append(@, err)]
    BY <1>1, <2>1 DEF AddFilesInternal
  <2>3. PICK grown : grown = Append(list.errors, err)
    OBVIOUS
  <2>4. AddFilesInternal(list, call) = [list EXCEPT !.errors = grown]
    BY <2>2, <2>3
  <2>5. AddFilesInternal(list, call).errors = grown
    BY <2>4 DEF Listed
  <2>6. err.kind = "nomatch" /\ \E R : list.errors \in Seq(R)
    BY <2>1 DEF Listed
  <2>7. HasRecursion(grown) <=> HasRecursion(list.errors)
    BY <2>3, <2>6, RecursionAppended
  <2> QED
    BY <2>5, <2>7
<1>2. CASE Matches(call).found
  <2> DEFINE files == Matches(call).files
             rank == Matches(call).rank
             n == Len(files)
  <2>1. files \in Seq(Files)
    BY <1>2, MatchesFacts
  <2>2. AddFilesInternal(list, call) = FilesAdded(list, files, call, rank)
    BY <1>2 DEF AddFilesInternal, FilesAdded
  <2> HIDE DEF files, rank
  <2>3. PICK trace : /\ trace[0] = list
                     /\ trace[n] = FilesAdded(list, files, call, rank)
                     /\ FilesTrace(trace, n, files, call, rank)
    BY <2>1, FilesUnroll
  <2>4. n \in Nat /\ \A k \in 1 .. n : files[k] \in Files
    BY <2>1, SeqFacts
  <2> HIDE DEF n
  <2> DEFINE S == {k \in 0 .. n : /\ Listed(trace[k])
                                  /\ HasRecursion(trace[k].errors) <=> HasRecursion(list.errors)}
  <2>5. 0 \in S
    BY <2>3, <2>4
  <2>6. ASSUME NEW k \in Nat, k < n, k \in S PROVE k + 1 \in S
    <3>1. k \in 0 .. n - 1 /\ k + 1 \in 0 .. n /\ k + 1 \in 1 .. n
      BY <2>4, <2>6
    <3>2. trace[k + 1] = AddPath(trace[k], files[k + 1], call, rank) /\ Listed(trace[k])
      BY <2>3, <2>6, <3>1 DEF FilesTrace
    <3>3. files[k + 1] \in Files
      BY <2>4, <3>1
    <3>4. PathAdded(trace[k], trace[k + 1], files[k + 1], call, rank)
      BY <3>2, AddPathSteps
    <3>5. Listed(trace[k + 1])
      BY <3>2, <3>3, <3>4, PathKeepsListed
    <3>6. HasRecursion(trace[k + 1].errors) <=> HasRecursion(trace[k].errors)
      BY <3>2, <3>4, PathRecursion
    <3> QED
      BY <2>6, <3>1, <3>5, <3>6
  <2>7. n \in 0 .. n
    BY <2>4
  <2> HIDE DEF S
  <2>8. n \in S
    BY <2>4, <2>5, <2>6, <2>7, CountUp
  <2>9. HasRecursion(trace[n].errors) <=> HasRecursion(list.errors)
    BY <2>8 DEF S
  <2> QED
    BY <2>2, <2>3, <2>9
<1> QED
  BY <1>1, <1>2

LEMMA MemberRecursion ==
    ASSUME NEW list, Listed(list), NEW m, Member(m)
    PROVE  /\ Listed(AddMember(list, m))
           /\ HasRecursion(AddMember(list, m).errors) <=> HasRecursion(list.errors) \/ m.kind = "recursive"
<1>1. CASE m.kind = "recursive"
  <2>1. AddMember(list, m) = [list EXCEPT !.errors = Append(@, m)]
    BY <1>1 DEF AddMember
  <2>2. Listed(AddMember(list, m))
    BY <1>1, ErrorKeepsListed DEF AddMember
  <2>3. PICK grown : grown = Append(list.errors, m)
    OBVIOUS
  <2>4. AddMember(list, m) = [list EXCEPT !.errors = grown]
    BY <2>1, <2>3
  <2>5. AddMember(list, m).errors = grown
    BY <2>4 DEF Listed
  <2>6. \E R : list.errors \in Seq(R)
    BY DEF Listed
  <2>7. HasRecursion(grown) <=> HasRecursion(list.errors) \/ m.kind = "recursive"
    BY <2>3, <2>6, RecursionAppended
  <2> QED
    BY <2>2, <2>5, <2>7
<1>2. CASE m.kind # "recursive"
  <2>1. AddMember(list, m) = AddFilesInternal(list, m.call) /\ m.call.globs \in Seq(Globs)
    BY <1>2 DEF AddMember, Member
  <2> QED
    BY <1>2, <2>1, CallKeepsListed, CallRecursion
<1> QED
  BY <1>1, <1>2

LEMMA MapRecursion ==
    ASSUME NEW list, Listed(list), NEW map \in DOMAIN Maps
    PROVE  HasRecursion(MembersAdded(list, AddMaps(map)).errors)
               <=> HasRecursion(list.errors) \/ HasRecursion(AddMaps(map))
<1> DEFINE members == AddMaps(map)
           n == Len(members)
           Until(k) == \E j \in 1 .. k : members[j].kind = "recursive"
<1>1. PICK M : members \in Seq(M) /\ \A m \in M : Member(m)
  BY MapsFacts
<1> HIDE DEF members
<1>2. PICK trace : /\ trace[0] = list
                   /\ trace[n] = MembersAdded(list, members)
                   /\ MembersTrace(trace, n, members)
  BY <1>1, MembersUnroll
<1>3. n \in Nat /\ (\A k \in 1 .. n : Member(members[k])) /\ ToSet(members) = {members[k] : k \in 1 .. n}
  BY <1>1, SeqFacts
<1>4. HasRecursion(members) <=> Until(n)
  BY <1>3 DEF HasRecursion
<1>5. ~Until(0) /\ \A k \in Nat : Until(k + 1) <=> Until(k) \/ members[k + 1].kind = "recursive"
  <2>1. \A k \in Nat : \A j : j \in 1 .. k + 1 <=> j \in 1 .. k \/ j = k + 1
    OBVIOUS
  <2> QED
    BY <2>1
<1> HIDE DEF n, Until
<1> DEFINE S == {k \in 0 .. n : /\ Listed(trace[k])
                                /\ HasRecursion(trace[k].errors) <=> HasRecursion(list.errors) \/ Until(k)}
<1>6. 0 \in S
  BY <1>2, <1>3, <1>5
<1>7. ASSUME NEW k \in Nat, k < n, k \in S PROVE k + 1 \in S
  <2>1. k \in 0 .. n - 1 /\ k + 1 \in 0 .. n /\ k + 1 \in 1 .. n
    BY <1>3, <1>7
  <2>2. trace[k + 1] = AddMember(trace[k], members[k + 1]) /\ Listed(trace[k])
    BY <1>2, <1>7, <2>1 DEF MembersTrace
  <2>3. Member(members[k + 1])
    BY <1>3, <2>1
  <2>4. /\ Listed(trace[k + 1])
        /\ HasRecursion(trace[k + 1].errors)
               <=> HasRecursion(trace[k].errors) \/ members[k + 1].kind = "recursive"
    BY <2>2, <2>3, MemberRecursion
  <2> QED
    BY <1>5, <1>7, <2>1, <2>4
<1>8. n \in 0 .. n
  BY <1>3
<1> HIDE DEF S
<1>9. n \in S
  BY <1>3, <1>6, <1>7, <1>8, CountUp
<1>10. HasRecursion(trace[n].errors) <=> HasRecursion(list.errors) \/ Until(n)
  BY <1>9 DEF S
<1> QED
  BY <1>2, <1>4, <1>10 DEF members
-----------------------------------------------------------------------------
\* An error of this kind is where no thread can overwrite it.
Kept(errs, tasks) ==
    \E k \in DOMAIN errs :
        /\ errs[k].kind = "recursive"
        /\ \A w \in Workers : tasks[w] # NoTask /\ tasks[w].at = "append" => k <= tasks[w].size

CalledLive(ids) == \E map \in ids \cap RootMaps : Live(map)

RecursionInv ==
    /\ HasRecursion(errors) <=> CalledLive(called)
    /\ phase = "parse" /\ HasRecursion(errors) => Kept(errors, task)

\* As long as files are added, or when the threads are through, only the errors matter.
LEMMA RecursionStays ==
    ASSUME RecursionInv, called' = called, phase' # "parse", HasRecursion(errors)' <=> HasRecursion(errors)
    PROVE  RecursionInv'
  BY DEF RecursionInv

LEMMA RecursionInvInit == Init => RecursionInv
<1> SUFFICES ASSUME Init PROVE RecursionInv
  OBVIOUS
<1>1. errors = <<>> /\ called = {} /\ phase = "add"
  BY DEF Init
<1>2. ToSet(<<>>) = {}
  BY DEF ToSet
<1> QED
  BY <1>1, <1>2 DEF RecursionInv, HasRecursion, CalledLive

LEMMA AddFilesKeepsRecursion == LoadInv /\ RecursionInv /\ AddFiles => RecursionInv'
<1> SUFFICES ASSUME LoadInv, RecursionInv, AddFiles PROVE RecursionInv'
  OBVIOUS
<1> DEFINE old == [entries |-> entries, errors |-> errors]
<1>1. PICK c \in DOMAIN Calls \ called :
          errors' = AddFilesInternal(old, Calls[c]).errors /\ called' = called \cup {c}
  BY DEF AddFiles
<1>2. phase = "add" /\ phase' = "add"
  BY DEF AddFiles
<1>3. Listed(old) /\ Calls[c].globs \in Seq(Globs) /\ c \notin RootMaps /\ old.errors = errors
  BY <1>2, CallsOK DEF LoadInv
<1> HIDE DEF old
<1>4. HasRecursion(errors') <=> HasRecursion(errors)
  BY <1>1, <1>3, CallRecursion
<1>5. called' \cap RootMaps = called \cap RootMaps
  BY <1>1, <1>3
<1> QED
  BY <1>2, <1>4, <1>5 DEF RecursionInv, CalledLive, HasRecursion

LEMMA AddLibraryMapsKeepsRecursion == LoadInv /\ RecursionInv /\ AddLibraryMaps => RecursionInv'
<1> SUFFICES ASSUME LoadInv, RecursionInv, AddLibraryMaps PROVE RecursionInv'
  OBVIOUS
<1> DEFINE old == [entries |-> entries, errors |-> errors]
<1>1. PICK map \in RootMaps \ called :
          errors' = MembersAdded(old, AddMaps(map)).errors /\ called' = called \cup {map}
  BY MapFold DEF AddLibraryMaps
<1>2. phase = "add" /\ phase' = "add"
  BY DEF AddLibraryMaps
<1>3. Listed(old) /\ map \in DOMAIN Maps /\ old.errors = errors
  BY <1>2, LoaderOK DEF LoadInv
<1> HIDE DEF old
<1>4. HasRecursion(errors') <=> HasRecursion(errors) \/ HasRecursion(AddMaps(map))
  BY <1>1, <1>3, MapRecursion
<1>5. HasRecursion(errors') <=> HasRecursion(errors) \/ Live(map)
  BY <1>3, <1>4, MapsReadThemselves
<1>6. CalledLive(called') <=> CalledLive(called) \/ Live(map)
  BY <1>1 DEF CalledLive
<1> QED
  BY <1>2, <1>5, <1>6 DEF RecursionInv, CalledLive, HasRecursion

LEMMA StartThreadedKeepsRecursion == LoadInv /\ RecursionInv /\ StartThreaded => RecursionInv'
<1> SUFFICES ASSUME LoadInv, RecursionInv, StartThreaded PROVE RecursionInv'
  OBVIOUS
<1>1. phase = "add" /\ UNCHANGED <<errors, called, task>> /\ \A w \in Workers : task[w] = NoTask
  BY DEF StartThreaded, LoadInv
<1>2. HasRecursion(errors) => Kept(errors, task)
  BY <1>1 DEF HasRecursion, Kept, ToSet
<1> QED
  BY <1>1, <1>2 DEF RecursionInv, HasRecursion, Kept, CalledLive

LEMMA StartSequentialKeepsRecursion == LoadInv /\ RecursionInv /\ StartSequential => RecursionInv'
<1> SUFFICES ASSUME LoadInv, RecursionInv, StartSequential PROVE RecursionInv'
  OBVIOUS
<1> DEFINE reports == FlattenSeq([k \in DOMAIN entries |->
               IF entries[k].secondLib # NoLibrary THEN <<MultipleLibraries(entries[k])>> ELSE <<>>])
<1>1. phase = "add" /\ phase' = "arrange" /\ called' = called /\ errors' = errors \o reports
  BY DEF StartSequential
<1>2. Listed([entries |-> entries, errors |-> errors]) /\ \E E : entries \in Seq(E)
  BY <1>1 DEF LoadInv, Listed
<1>3. \E T : reports \in Seq(T) /\ \A m \in T : m.kind = "libraries"
  BY <1>2, TiedReportsAreSeq
<1> HIDE DEF reports
<1>4. HasRecursion(errors \o reports) <=> HasRecursion(errors)
  BY <1>2, <1>3, RecursionJoined
<1> QED
  BY <1>1, <1>4, RecursionStays DEF HasRecursion

LEMMA BeginLoadKeepsRecursion ==
    ASSUME NEW w \in Workers
    PROVE  LoadInv /\ RecursionInv /\ BeginLoad(w) => RecursionInv'
<1> SUFFICES ASSUME LoadInv, RecursionInv, BeginLoad(w) PROVE RecursionInv'
  OBVIOUS
<1>1. phase = "parse" /\ phase' = "parse" /\ UNCHANGED <<errors, called>>
  BY DEF BeginLoad
<1>2. PICK k \in DOMAIN entries :
          task' = [task EXCEPT ![w] =
                     [entry |-> k, at |-> IF entries[k].secondLib # NoLibrary THEN "append" ELSE "load",
                      size |-> Len(errors)]]
  BY DEF BeginLoad
<1> DEFINE t == [entry |-> k, at |-> IF entries[k].secondLib # NoLibrary THEN "append" ELSE "load",
                 size |-> Len(errors)]
<1>3. t.size = Len(errors)
  OBVIOUS
<1> HIDE DEF t
<1>4. \A v \in Workers : task'[v] = IF v = w THEN t ELSE task[v]
  BY <1>2, TaskFacts DEF LoadInv, t
<1>5. Len(errors) \in Nat /\ DOMAIN errors = 1 .. Len(errors)
  BY <1>1, SeqFacts DEF LoadInv, Listed
<1>6. Kept(errors, task) => Kept(errors, task')
  BY <1>3, <1>4, <1>5 DEF Kept
<1> QED
  BY <1>1, <1>6 DEF RecursionInv, HasRecursion, Kept, CalledLive

LEMMA EndAppendKeepsRecursion ==
    ASSUME NEW w \in Workers
    PROVE  LoadInv /\ RecursionInv /\ EndAppend(w) => RecursionInv'
<1> SUFFICES ASSUME LoadInv, RecursionInv, EndAppend(w) PROVE RecursionInv'
  OBVIOUS
<1> DEFINE size == task[w].size
           m == MultipleLibraries(entries[task[w].entry])
           t == [task[w] EXCEPT !.at = "load"]
           reports == { MultipleLibraries(e) : e \in ToSet(entries) }
<1>1. /\ phase = "parse" /\ phase' = "parse" /\ called' = called
      /\ task[w] # NoTask /\ task[w].at = "append" /\ task' = [task EXCEPT ![w].at = "load"]
  BY DEF EndAppend
<1>2. TaskOK(task[w], entries) /\ size \in Nat
  BY <1>1 DEF LoadInv, Loading, TaskOK
<1>3. \A v \in Workers : task'[v] = IF v = w THEN t ELSE task[v]
  <2>1. task' = [task EXCEPT ![w] = t]
    BY <1>1
  <2> HIDE DEF t
  <2> QED
    BY <2>1, TaskFacts DEF LoadInv
<1>4. t.at = "load"
  BY <1>2
<1>5. PICK kept \in Slots(size) : errors' = Append(kept, m)
  BY DEF EndAppend
<1>6. PICK old \in [Len(errors) + 1 .. size -> reports] :
          kept = [k \in 1 .. size |-> IF k <= Len(errors) THEN errors[k] ELSE old[k]]
  BY <1>5 DEF Slots
<1>7. \A r \in reports \cup {m} : r.kind = "libraries"
  BY DEF MultipleLibraries
<1>8. Len(errors) \in Nat /\ DOMAIN errors = 1 .. Len(errors)
  BY <1>1, SeqFacts DEF LoadInv, Listed
<1> HIDE DEF size, m, t, reports
<1>9. \A k \in 1 .. size : kept[k] = IF k <= Len(errors) THEN errors[k] ELSE old[k]
  BY <1>6
<1>10. /\ DOMAIN errors' = 1 .. size + 1 /\ errors'[size + 1] = m
       /\ \A k \in 1 .. size : errors'[k] = kept[k]
  <2>1. kept = [k \in 1 .. size |-> kept[k]]
    BY <1>6
  <2>2. kept \in Seq({kept[k] : k \in 1 .. size}) /\ Len(kept) = size
    BY <1>2, <2>1, MadeSeq
  <2> DEFINE S == {kept[k] : k \in 1 .. size}
  <2> HIDE DEF S
  <2>3. kept \in Seq(S)
    BY <2>2 DEF S
  <2>4. /\ Append(kept, m) \in Seq(S \cup {m}) /\ Len(Append(kept, m)) = size + 1
        /\ Append(kept, m)[size + 1] = m /\ \A k \in 1 .. size : Append(kept, m)[k] = kept[k]
    BY <2>2, <2>3, AppendFacts
  <2>5. DOMAIN Append(kept, m) = 1 .. size + 1
    BY <2>4, SeqFacts
  <2> QED
    BY <1>5, <2>4, <2>5
<1>11. Kept(errors, task) => Kept(errors', task')
  <2> SUFFICES ASSUME Kept(errors, task) PROVE Kept(errors', task')
    OBVIOUS
  <2>1. PICK k \in DOMAIN errors :
            /\ errors[k].kind = "recursive"
            /\ \A v \in Workers : task[v] # NoTask /\ task[v].at = "append" => k <= task[v].size
    BY DEF Kept
  <2>2. k \in 1 .. size /\ k <= Len(errors)
    BY <1>1, <1>2, <1>8, <2>1 DEF size
  <2>3. k \in DOMAIN errors' /\ errors'[k] = errors[k]
    BY <1>2, <1>9, <1>10, <2>2
  <2>4. \A v \in Workers : task'[v] # NoTask /\ task'[v].at = "append" => k <= task'[v].size
    BY <1>3, <1>4, <2>1
  <2> QED
    BY <2>1, <2>3, <2>4 DEF Kept
<1>12. HasRecursion(errors') => HasRecursion(errors)
  <2> SUFFICES ASSUME HasRecursion(errors') PROVE HasRecursion(errors)
    OBVIOUS
  <2>1. PICK k \in 1 .. size + 1 : errors'[k].kind = "recursive"
    BY <1>10 DEF HasRecursion, ToSet
  <2>2. k # size + 1
    BY <1>7, <1>10, <2>1
  <2>3. k \in 1 .. size
    BY <1>2, <2>1, <2>2
  <2>4. k <= Len(errors)
    <3> SUFFICES ASSUME ~(k <= Len(errors)) PROVE FALSE
      OBVIOUS
    <3>1. k \in Len(errors) + 1 .. size
      BY <1>2, <1>8, <2>3
    <3>2. old[k] \in reports /\ errors'[k] = old[k]
      BY <1>6, <1>9, <1>10, <2>3, <3>1
    <3> QED
      BY <1>7, <2>1, <3>2
  <2>5. k \in DOMAIN errors /\ errors'[k] = errors[k]
    BY <1>2, <1>8, <1>9, <1>10, <2>3, <2>4
  <2> QED
    BY <2>1, <2>5 DEF HasRecursion, ToSet
<1>13. Kept(errors', task') => HasRecursion(errors')
  BY DEF Kept, HasRecursion, ToSet
<1>14. HasRecursion(errors') <=> HasRecursion(errors)
  BY <1>1, <1>11, <1>12, <1>13 DEF RecursionInv
<1> QED
  BY <1>1, <1>11, <1>14 DEF RecursionInv, HasRecursion, Kept, CalledLive

LEMMA LoadAndParseKeepsRecursion ==
    ASSUME NEW w \in Workers
    PROVE  LoadInv /\ RecursionInv /\ LoadAndParse(w) => RecursionInv'
<1> SUFFICES ASSUME LoadInv, RecursionInv, LoadAndParse(w) PROVE RecursionInv'
  OBVIOUS
<1>1. /\ phase = "parse" /\ phase' = "parse" /\ UNCHANGED <<errors, called>>
      /\ task' = [task EXCEPT ![w] = NoTask]
  BY DEF LoadAndParse
<1>2. \A v \in Workers : task'[v] = IF v = w THEN NoTask ELSE task[v]
  BY <1>1, TaskFacts DEF LoadInv
<1>3. Kept(errors, task) => Kept(errors, task')
  BY <1>2 DEF Kept
<1> QED
  BY <1>1, <1>3 DEF RecursionInv, HasRecursion, Kept, CalledLive

LEMMA ArrangeKeepsRecursion == LoadInv /\ RecursionInv /\ Arrange => RecursionInv'
<1> SUFFICES ASSUME LoadInv, RecursionInv, Arrange PROVE RecursionInv'
  OBVIOUS
<1> DEFINE bad == FilesWith("error", ToSet(entries))
           reports == [k \in DOMAIN bad |-> CannotRead(bad[k])]
<1>1. phase = "arrange" /\ phase' # "parse" /\ called' = called /\ errors' = errors \o reports
  BY DEF Arrange
<1>2. Listed([entries |-> entries, errors |-> errors])
  BY <1>1 DEF LoadInv
<1>3. (\E E : entries \in Seq(E)) /\ Distinct(entries)
  BY <1>2 DEF Listed
<1>4. (\E T : reports \in Seq(T)) /\ ToSet(reports) = {CannotRead(p) : p \in ToSet(bad)}
  BY <1>3, CannotReadFacts
<1> HIDE DEF reports
<1>5. reports \in Seq(ToSet(reports))
  BY <1>4, SeqFacts
<1>6. \A m \in ToSet(reports) : m.kind # "recursive"
  BY <1>4 DEF CannotRead
<1>7. HasRecursion(errors \o reports) <=> HasRecursion(errors)
  BY <1>2, <1>5, <1>6, RecursionJoined
<1> QED
  BY <1>1, <1>7, RecursionStays DEF HasRecursion

LEMMA LoadSourcesKeepsRecursion == LoadInv /\ RecursionInv /\ LoadSources => RecursionInv'
<1> SUFFICES ASSUME LoadInv, RecursionInv, LoadSources PROVE RecursionInv'
  OBVIOUS
<1> DEFINE each == [k \in DOMAIN entries |->
               IF entries[k].path \notin Readable THEN <<CannotRead(entries[k].path)>> ELSE <<>>]
           T == {CannotRead(entries[k].path) : k \in DOMAIN entries}
<1>1. phase = "add" /\ phase' = "loaded" /\ called' = called /\ errors' = errors \o FlattenSeq(each)
  BY DEF LoadSources
<1>2. Listed([entries |-> entries, errors |-> errors]) /\ \E E : entries \in Seq(E)
  BY <1>1 DEF LoadInv, Listed
<1>3. Len(entries) \in Nat /\ DOMAIN entries = 1 .. Len(entries)
  BY <1>2, SeqFacts
<1>4. \A k \in DOMAIN entries : CannotRead(entries[k].path) \in T
  OBVIOUS
<1>5. \A m \in T : m.kind # "recursive"
  BY DEF CannotRead
<1>6. ASSUME NEW k \in DOMAIN entries PROVE each[k] \in Seq(T)
  <2>1. PICK m \in T : m = CannotRead(entries[k].path)
    BY <1>4
  <2>2. <<m>> \in Seq(T) /\ <<>> \in Seq(T)
    OBVIOUS
  <2> HIDE DEF T
  <2> QED
    BY <2>1, <2>2
<1>7. each = [k \in 1 .. Len(entries) |-> each[k]]
  BY <1>3
<1> HIDE DEF each, T
<1>8. each \in Seq(Seq(T))
  BY <1>3, <1>6, <1>7
<1>9. FlattenSeq(each) \in Seq(T)
  BY <1>8, FlattenFacts
<1>10. HasRecursion(errors \o FlattenSeq(each)) <=> HasRecursion(errors)
  BY <1>2, <1>5, <1>9, RecursionJoined
<1> QED
  BY <1>1, <1>10, RecursionStays DEF HasRecursion

LEMMA NextKeepsRecursion == LoadInv /\ RecursionInv /\ [Next]_vars => RecursionInv'
<1> SUFFICES ASSUME LoadInv, RecursionInv, [Next]_vars PROVE RecursionInv'
  OBVIOUS
<1>1. CASE AddFiles
  BY <1>1, AddFilesKeepsRecursion
<1>2. CASE AddLibraryMaps
  BY <1>2, AddLibraryMapsKeepsRecursion
<1>3. CASE LoadSources
  BY <1>3, LoadSourcesKeepsRecursion
<1>4. CASE StartThreaded
  BY <1>4, StartThreadedKeepsRecursion
<1>5. CASE StartSequential
  BY <1>5, StartSequentialKeepsRecursion
<1>6. CASE \E w \in Workers : BeginLoad(w) \/ EndAppend(w) \/ LoadAndParse(w)
  BY <1>6, BeginLoadKeepsRecursion, EndAppendKeepsRecursion, LoadAndParseKeepsRecursion
<1>7. CASE Arrange
  BY <1>7, ArrangeKeepsRecursion
<1>8. CASE WaitForLoads \/ SearchOne \/ StartBatch \/ FindNext \/ ParseFound \/ WaitForBatch \/ Commit
           \/ FinishSearch
  <2>1. phase' # "parse" /\ UNCHANGED <<errors, called>>
    BY <1>8 DEF WaitForLoads, SearchOne, StartBatch, FindNext, ParseFound, WaitForBatch, Commit,
                FinishSearch
  <2> QED
    BY <2>1, RecursionStays DEF HasRecursion
<1>9. CASE Terminated \/ UNCHANGED vars
  BY <1>9 DEF Terminated, vars, RecursionInv, HasRecursion, Kept, CalledLive
<1> QED
  BY <1>1, <1>2, <1>3, <1>4, <1>5, <1>6, <1>7, <1>8, <1>9 DEF Next, Work

(***************************************************************************)
(* A library map is reported as included recursively exactly if reading    *)
(* the maps that were given leads to a map that includes itself; the       *)
(* threads that append to errors never overwrite such a report.            *)
(***************************************************************************)
THEOREM RecursionFound == Spec => []RecursionReported
<1>1. RecursionInv => RecursionReported
  <2> SUFFICES ASSUME RecursionInv PROVE RecursionReported
    OBVIOUS
  <2> DEFINE roots == called \cap RootMaps
  <2>1. roots \in SUBSET DOMAIN Maps
    BY LoaderOK
  <2>2. HasRecursion(errors) <=> \E map \in roots : Live(map)
    BY DEF RecursionInv, CalledLive
  <2> HIDE DEF roots
  <2>3. (\E map \in roots : Live(map)) <=> \E m \in ReachedFrom(roots) : Cyclic(m)
    BY <2>1, ReachedFromEach DEF Live
  <2>4. (\E err \in ToSet(errors) : err.kind = "recursive")
            <=> \E m \in ReachedFrom(roots) : m \in ReachedFrom(IncludedBy(m))
    BY <2>2, <2>3 DEF HasRecursion, Cyclic
  <2> QED
    BY <2>4 DEF RecursionReported, roots
<1>2. Spec => []RecursionInv
  BY LoadInvariant, RecursionInvInit, NextKeepsRecursion, PTL DEF Spec
<1> QED
  BY <1>1, <1>2, PTL
===============================================================================
