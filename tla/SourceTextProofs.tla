---------------------------- MODULE SourceTextProofs ----------------------------
(***************************************************************************)
(* Proofs about the text algorithms of SourceManager, for texts, offsets   *)
(* and `line directives of any length.                                     *)
(***************************************************************************)
EXTENDS SourceText, WellFoundedInduction, FiniteSetTheorems, TLAPS

(***************************************************************************)
(* Induction over data, as the existence of a least counterexample.        *)
(***************************************************************************)
LEMMA LeastNumber ==
    ASSUME NEW T \in SUBSET Nat, T # {}
    PROVE  \E x \in T : \A y \in T : x <= y
<1> DEFINE R == {ss \in Nat \X Nat : ss[1] < ss[2]}
<1>1. IsWellFoundedOn(R, Nat)
  BY NatLessThanWellFounded DEF OpToRel
<1> HIDE DEF R
<1>2. PICK x \in T : \A y \in T : ~(<<y, x>> \in R)
  BY <1>1, WFMin
<1>3. ASSUME NEW y \in T PROVE x <= y
  <2>1. x \in Nat /\ y \in Nat
    OBVIOUS
  <2>2. y < x => <<y, x>> \in R
    BY <2>1 DEF R
  <2>3. ~(y < x)
    BY <1>2, <2>2
  <2> QED
    BY <2>1, <2>3
<1> QED
  BY <1>3

(***************************************************************************)
(* The search of LowerBound, as a function of where it starts and of how   *)
(* many elements are left.                                                 *)
(***************************************************************************)
Ranges(n) == {r \in (0 .. n) \X (0 .. n) : r[1] + r[2] <= n}

IsSearch(s, x, f) ==
    f = [r \in Ranges(Len(s)) |->
            IF r[2] = 0 THEN r[1]
            ELSE IF s[r[1] + (r[2] \div 2) + 1] < x
                 THEN f[<<r[1] + (r[2] \div 2) + 1, r[2] - (r[2] \div 2) - 1>>]
                 ELSE f[<<r[1], r[2] \div 2>>]]
LEMMA LowerBoundIsSearch ==
    ASSUME NEW s \in Seq(Int), NEW x \in Int
    PROVE  LowerBound(s, x) = (CHOOSE f : IsSearch(s, x, f))[<<0, Len(s)>>]
  BY DEF LowerBound, IsSearch, Ranges
LEMMA Halved ==
    ASSUME NEW n \in Nat, NEW r \in Ranges(n), r[2] # 0
    PROVE  /\ r[2] \div 2 \in Nat /\ r[2] \div 2 < r[2]
           /\ r[1] + (r[2] \div 2) + 1 \in 1 .. n
           /\ <<r[1] + (r[2] \div 2) + 1, r[2] - (r[2] \div 2) - 1>> \in Ranges(n)
           /\ <<r[1], r[2] \div 2>> \in Ranges(n)
<1>1. /\ r[1] \in Nat /\ r[2] \in Nat /\ r[1] + r[2] <= n
  BY DEF Ranges
<1>2. r[2] \div 2 \in Nat /\ r[2] \div 2 < r[2]
  BY <1>1
<1> QED
  BY <1>1, <1>2 DEF Ranges

LEMMA SearchExists ==
    ASSUME NEW s \in Seq(Int), NEW x \in Int
    PROVE  \E f : IsSearch(s, x, f)
<1> DEFINE n == Len(s)
           Shorter(k) == {r \in Ranges(n) : r[2] < k}
           Step(f, r) == IF r[2] = 0 THEN r[1]
                         ELSE IF s[r[1] + (r[2] \div 2) + 1] < x
                              THEN f[<<r[1] + (r[2] \div 2) + 1, r[2] - (r[2] \div 2) - 1>>]
                              ELSE f[<<r[1], r[2] \div 2>>]
           Solved(k) == \E f : f = [r \in Shorter(k) |-> Step(f, r)]
<1>0. n \in Nat
  OBVIOUS
<1>1. Solved(0)
  <2>1. Shorter(0) = {}
    BY <1>0 DEF Ranges
  <2> DEFINE f == [r \in {} |-> 0]
  <2>2. f = [r \in Shorter(0) |-> Step(f, r)]
    BY <2>1
  <2> QED
    BY <2>2
<1>2. ASSUME NEW k \in Nat, Solved(k) PROVE Solved(k + 1)
  <2>1. PICK g : g = [r \in Shorter(k) |-> Step(g, r)]
    BY <1>2
  <2> DEFINE f == [r \in Shorter(k + 1) |-> Step(g, r)]
  <2>2. Shorter(k) \subseteq Shorter(k + 1)
    BY <1>0 DEF Ranges
  <2>3. \A r \in Shorter(k) : f[r] = g[r]
    <3> HIDE DEF Step, Shorter
    <3> QED
      BY <2>1, <2>2
  <2>4. ASSUME NEW r \in Shorter(k + 1) PROVE Step(f, r) = Step(g, r)
    <3>1. CASE r[2] = 0
      BY <3>1
    <3>2. CASE r[2] # 0
      <4>1. r \in Ranges(n) /\ r[2] < k + 1 /\ r[2] \in Nat
        BY DEF Ranges
      <4>2. /\ <<r[1] + (r[2] \div 2) + 1, r[2] - (r[2] \div 2) - 1>> \in Ranges(n)
            /\ <<r[1], r[2] \div 2>> \in Ranges(n)
            /\ r[2] \div 2 \in Nat /\ r[2] \div 2 < r[2]
        <5> HIDE DEF n
        <5> QED
          BY <1>0, <3>2, <4>1, Halved
      <4>3. r[2] \div 2 < k /\ r[2] - (r[2] \div 2) - 1 < k
        BY <4>1, <4>2
      <4>4. /\ <<r[1] + (r[2] \div 2) + 1, r[2] - (r[2] \div 2) - 1>> \in Shorter(k)
            /\ <<r[1], r[2] \div 2>> \in Shorter(k)
        BY <4>2, <4>3
      <4> HIDE DEF f, Shorter
      <4> QED
        BY <2>3, <3>2, <4>4
    <3> QED
      BY <3>1, <3>2
  <2>5. f = [r \in Shorter(k + 1) |-> Step(f, r)]
    BY <2>4
  <2> QED
    BY <2>5
<1>3. \A k \in Nat : Solved(k)
  <2> SUFFICES ASSUME {k \in Nat : ~Solved(k)} # {} PROVE FALSE
    OBVIOUS
  <2> HIDE DEF Solved
  <2>1. PICK k \in {j \in Nat : ~Solved(j)} : \A j \in {i \in Nat : ~Solved(i)} : k <= j
    BY LeastNumber
  <2>2. k # 0 /\ k - 1 \in Nat
    BY <1>1, <2>1
  <2>3. Solved(k - 1)
    BY <2>1, <2>2
  <2>4. Solved(k - 1 + 1)
    BY <1>2, <2>2, <2>3
  <2> QED
    BY <2>1, <2>2, <2>4
<1>4. Shorter(n + 1) = Ranges(n)
  BY <1>0 DEF Ranges
<1>5. Solved(n + 1)
  <2> HIDE DEF Solved
  <2> QED
    BY <1>0, <1>3
<1> QED
  BY <1>4, <1>5 DEF IsSearch

Sorted(s) == \A i, j \in 1 .. Len(s) : i <= j => s[i] <= s[j]

(***************************************************************************)
(* The result of a search: of the len elements after the first ones, those *)
(* less than x are the ones before it.                                     *)
(***************************************************************************)
Found(s, x, first, len, it) ==
    /\ it \in first .. first + len
    /\ \A i \in first + 1 .. it : s[i] < x
    /\ \A i \in it + 1 .. first + len : s[i] >= x

LEMMA FoundRight ==
    ASSUME NEW s \in Seq(Int), Sorted(s), NEW x \in Int,
           NEW first \in Nat, NEW len \in Nat, NEW half \in Nat, half < len,
           first + len <= Len(s), s[first + half + 1] < x,
           NEW it, Found(s, x, first + half + 1, len - half - 1, it)
    PROVE  Found(s, x, first, len, it)
<1> DEFINE middle == first + half + 1
<1>1. middle \in 1 .. Len(s) /\ Len(s) \in Nat
  OBVIOUS
<1>2. /\ it \in middle .. first + len
      /\ \A i \in middle + 1 .. it : s[i] < x
      /\ \A i \in it + 1 .. first + len : s[i] >= x
  BY DEF Found
<1>3. \A i \in first + 1 .. it : s[i] < x
  <2> SUFFICES ASSUME NEW i \in first + 1 .. it, i <= middle PROVE s[i] < x
    BY <1>1, <1>2
  <2>1. i \in 1 .. Len(s)
    BY <1>1
  <2>2. s[i] <= s[middle]
    BY <1>1, <2>1 DEF Sorted
  <2>3. s[i] \in Int /\ s[middle] \in Int
    BY <1>1, <2>1
  <2> QED
    BY <2>2, <2>3
<1>4. it \in first .. first + len
  BY <1>2
<1> QED
  BY <1>2, <1>3, <1>4 DEF Found

LEMMA FoundLeft ==
    ASSUME NEW s \in Seq(Int), Sorted(s), NEW x \in Int,
           NEW first \in Nat, NEW len \in Nat, NEW half \in Nat, half < len,
           first + len <= Len(s), s[first + half + 1] >= x,
           NEW it, Found(s, x, first, half, it)
    PROVE  Found(s, x, first, len, it)
<1> DEFINE middle == first + half + 1
<1>1. middle \in 1 .. Len(s) /\ Len(s) \in Nat
  OBVIOUS
<1>2. /\ it \in first .. first + half
      /\ \A i \in first + 1 .. it : s[i] < x
      /\ \A i \in it + 1 .. first + half : s[i] >= x
  BY DEF Found
<1>3. \A i \in it + 1 .. first + len : s[i] >= x
  <2> SUFFICES ASSUME NEW i \in it + 1 .. first + len, middle <= i PROVE s[i] >= x
    BY <1>1, <1>2
  <2>1. i \in 1 .. Len(s)
    BY <1>1
  <2>2. s[middle] <= s[i]
    BY <1>1, <2>1 DEF Sorted
  <2>3. s[i] \in Int /\ s[middle] \in Int
    BY <1>1, <2>1
  <2> QED
    BY <2>2, <2>3
<1>4. it \in first .. first + len
  BY <1>2
<1> QED
  BY <1>2, <1>3, <1>4 DEF Found

LEMMA SearchFinds ==
    ASSUME NEW s \in Seq(Int), Sorted(s), NEW x \in Int, NEW f, IsSearch(s, x, f)
    PROVE  \A r \in Ranges(Len(s)) : Found(s, x, r[1], r[2], f[r])
<1> DEFINE n == Len(s)
           Fails(r) == ~Found(s, x, r[1], r[2], f[r])
           Failures == {k \in Nat : \E r \in Ranges(n) : r[2] = k /\ Fails(r)}
<1>0. n \in Nat /\ \A r \in Ranges(n) : r[1] \in Nat /\ r[2] \in Nat /\ r[1] + r[2] <= n
  BY DEF Ranges
<1> SUFFICES ASSUME Failures # {} PROVE FALSE
  BY <1>0
<1>1. PICK k \in Failures : \A j \in Failures : k <= j
  <2> HIDE DEF Failures
  <2>1. Failures \subseteq Nat
    BY DEF Failures
  <2> QED
    BY <2>1, LeastNumber
<1>2. PICK r \in Ranges(n) : r[2] = k /\ Fails(r)
  BY <1>1
<1>r. r[1] \in Nat /\ r[2] \in Nat /\ r[1] + r[2] <= Len(s)
  BY <1>0
<1> DEFINE half == r[2] \div 2
           right == <<r[1] + half + 1, r[2] - half - 1>>
           left == <<r[1], half>>
<1>3. \A q \in Ranges(n) : q[2] < r[2] => ~Fails(q)
  <2> HIDE DEF Fails
  <2> QED
    BY <1>0, <1>1, <1>2
<1>4. f[r] = IF r[2] = 0 THEN r[1]
             ELSE IF s[r[1] + half + 1] < x THEN f[right] ELSE f[left]
  BY <1>2 DEF IsSearch
<1>5. r[2] # 0
  <2> SUFFICES ASSUME r[2] = 0 PROVE FALSE
    OBVIOUS
  <2>1. f[r] = r[1]
    BY <1>4
  <2>2. Found(s, x, r[1], r[2], f[r])
    BY <1>r, <2>1 DEF Found
  <2> QED
    BY <1>2, <2>2
<1>6. /\ half \in Nat /\ half < r[2] /\ r[1] + half + 1 \in 1 .. n
      /\ right \in Ranges(n) /\ left \in Ranges(n)
  <2> HIDE DEF n
  <2> QED
    BY <1>0, <1>2, <1>5, Halved
<1>7. right[2] < r[2] /\ left[2] < r[2]
  <2>1. right[2] = r[2] - half - 1 /\ left[2] = half
    OBVIOUS
  <2> HIDE DEF half, right, left
  <2> QED
    BY <1>r, <1>6, <2>1
<1>8. Found(s, x, r[1] + half + 1, r[2] - half - 1, f[right]) /\ Found(s, x, r[1], half, f[left])
  <2> HIDE DEF half
  <2> QED
    BY <1>3, <1>6, <1>7
<1> HIDE DEF half, right, left
<1>9. Found(s, x, r[1], r[2], f[r])
  <2>1. CASE s[r[1] + half + 1] < x
    BY <1>r, <1>4, <1>5, <1>6, <1>8, <2>1, FoundRight
  <2>2. CASE ~(s[r[1] + half + 1] < x)
    <3>1. s[r[1] + half + 1] >= x
      BY <1>6, <2>2
    <3>2. f[r] = f[left]
      BY <1>4, <1>5, <2>2
    <3>3. Found(s, x, r[1], r[2], f[left])
      BY <1>r, <1>6, <1>8, <3>1, FoundLeft
    <3> QED
      BY <3>2, <3>3
  <2> QED
    BY <2>1, <2>2
<1> QED
  BY <1>2, <1>9

(***************************************************************************)
(* The halving search of std::ranges::lower_bound over a sorted sequence   *)
(* of any length splits it at x.                                           *)
(***************************************************************************)
THEOREM LowerBoundSplits ==
    ASSUME NEW s \in Seq(Int), Sorted(s), NEW x \in Int
    PROVE  Found(s, x, 0, Len(s), LowerBound(s, x))
<1> DEFINE f == CHOOSE g : IsSearch(s, x, g)
           r == <<0, Len(s)>>
<1>1. IsSearch(s, x, f)
  BY SearchExists
<1>2. LowerBound(s, x) = f[r]
  BY LowerBoundIsSearch
<1>3. r \in Ranges(Len(s)) /\ r[1] = 0 /\ r[2] = Len(s)
  BY DEF Ranges
<1> HIDE DEF f, r
<1> QED
  BY <1>1, <1>2, <1>3, SearchFinds

-------------------------------------------------------------------------------
(***************************************************************************)
(* The tail of getRawLineNumber: for the offsets of the lines of any text  *)
(* the raw line is the number of lines that start at or before the offset. *)
(***************************************************************************)
THEOREM RawLineCounts ==
    ASSUME NEW offsets \in Seq(Nat),
           \A i, j \in 1 .. Len(offsets) : i < j => offsets[i] < offsets[j],
           NEW offset \in Nat
    PROVE  /\ RawLine(offsets, offset) \in 0 .. Len(offsets)
           /\ \A i \in 1 .. Len(offsets) :
                  offsets[i] <= offset <=> i <= RawLine(offsets, offset)
<1> DEFINE it == LowerBound(offsets, offset)
<1>0. /\ offsets \in Seq(Int) /\ Len(offsets) \in Nat /\ offset \in Int
      /\ \A i \in 1 .. Len(offsets) : offsets[i] \in Nat
  OBVIOUS
<1>1. Sorted(offsets)
  BY <1>0 DEF Sorted
<1>2. /\ it \in 0 .. Len(offsets)
      /\ \A i \in 1 .. it : offsets[i] < offset
      /\ \A i \in it + 1 .. Len(offsets) : offsets[i] >= offset
  BY <1>0, <1>1, LowerBoundSplits DEF Found
<1>3. RawLine(offsets, offset) =
          IF it < Len(offsets) /\ offsets[it + 1] = offset THEN it + 1 ELSE it
  BY DEF RawLine
<1> HIDE DEF it
<1>4. CASE it < Len(offsets) /\ offsets[it + 1] = offset
  <2>1. \A i \in it + 2 .. Len(offsets) : offsets[i] > offset
    BY <1>0, <1>2, <1>4
  <2>2. RawLine(offsets, offset) = it + 1
    BY <1>3, <1>4
  <2>3. \A i \in 1 .. Len(offsets) : offsets[i] <= offset <=> i <= it + 1
    BY <1>0, <1>2, <1>4, <2>1
  <2> QED
    BY <1>2, <1>4, <2>2, <2>3
<1>5. CASE ~(it < Len(offsets) /\ offsets[it + 1] = offset)
  <2>1. \A i \in it + 1 .. Len(offsets) : offsets[i] > offset
    <3> SUFFICES ASSUME NEW i \in it + 1 .. Len(offsets) PROVE offsets[i] > offset
      OBVIOUS
    <3>1. it + 1 \in 1 .. Len(offsets) /\ i \in 1 .. Len(offsets)
      BY <1>2
    <3>2. offsets[it + 1] > offset
      BY <1>0, <1>2, <1>5, <3>1
    <3> QED
      BY <1>0, <1>2, <3>1, <3>2
  <2>2. RawLine(offsets, offset) = it
    BY <1>3, <1>5
  <2>3. \A i \in 1 .. Len(offsets) : offsets[i] <= offset <=> i <= it
    BY <1>0, <1>2, <2>1
  <2> QED
    BY <1>2, <2>2, <2>3
<1> QED
  BY <1>4, <1>5

(***************************************************************************)
(* FileInfo::getPreviousLineDirective: whatever `line directives a buffer  *)
(* has, as long as they are in the order of their lines, the one returned  *)
(* governs the raw line.  The two tests after the search are needed for    *)
(* the first directive only; the one for the last never succeeds.          *)
(***************************************************************************)
THEOREM DirectiveGoverns ==
    ASSUME NEW Info, \A d \in Info : d.lineInFile \in Nat,
           NEW directives \in Seq(Info),
           \A i, j \in 1 .. Len(directives) :
               i <= j => directives[i].lineInFile <= directives[j].lineInFile,
           NEW raw \in Nat
    PROVE  IsGoverning(directives, raw, PreviousLineDirective(directives, raw))
<1> DEFINE lines == [i \in DOMAIN directives |-> directives[i].lineInFile]
           it == LowerBound(lines, raw)
<1>0. /\ Len(directives) \in Nat /\ DOMAIN directives = 1 .. Len(directives)
      /\ \A i \in 1 .. Len(directives) : directives[i].lineInFile \in Nat
  OBVIOUS
<1>1. /\ lines \in Seq(Int) /\ Len(lines) = Len(directives)
      /\ \A i \in 1 .. Len(directives) : lines[i] = directives[i].lineInFile
  BY <1>0
<1>2. Sorted(lines)
  <2> HIDE DEF lines
  <2> QED
    BY <1>1 DEF Sorted
<1>3. /\ it \in 0 .. Len(directives)
      /\ \A i \in 1 .. it : directives[i].lineInFile < raw
      /\ \A i \in it + 1 .. Len(directives) : directives[i].lineInFile >= raw
  <2>1. Found(lines, raw, 0, Len(lines), it)
    <3> HIDE DEF lines
    <3> QED
      BY <1>1, <1>2, LowerBoundSplits
  <2> HIDE DEF lines, it
  <2>2. /\ it \in 0 .. Len(lines)
        /\ \A i \in 1 .. it : lines[i] < raw
        /\ \A i \in it + 1 .. Len(lines) : lines[i] >= raw
    BY <1>0, <1>1, <2>1 DEF Found
  <2>3. /\ \A i \in 1 .. it : i \in 1 .. Len(directives)
        /\ \A i \in it + 1 .. Len(directives) : i \in 1 .. Len(directives)
    BY <1>0, <1>1, <2>2
  <2> QED
    BY <1>1, <2>2, <2>3
<1>4. PreviousLineDirective(directives, raw) =
          CASE directives = <<>> -> 0
            [] it = 0 /\ directives # <<>> -> IF directives[1].lineInFile = raw THEN 1 ELSE 0
            [] it > 0 /\ it = Len(directives) /\ directives[it].lineInFile >= raw -> 0
            [] OTHER -> it
  BY DEF PreviousLineDirective
<1> HIDE DEF lines, it
<1>5. CASE directives = <<>>
  <2>1. PreviousLineDirective(directives, raw) = 0
    BY <1>3, <1>4, <1>5
  <2> QED
    BY <1>5, <2>1 DEF IsGoverning
<1>6. CASE it = 0 /\ directives # <<>>
  <2>1. PreviousLineDirective(directives, raw) =
            IF directives[1].lineInFile = raw THEN 1 ELSE 0
    BY <1>4, <1>6
  <2>2. \A e \in DOMAIN directives : directives[e].lineInFile >= raw
    BY <1>0, <1>3, <1>6
  <2> QED
    BY <1>6, <2>1, <2>2 DEF IsGoverning
<1>7. CASE it # 0 /\ directives # <<>>
  <2>1. directives[it].lineInFile < raw /\ it \in DOMAIN directives /\ it > 0
    BY <1>0, <1>3, <1>7
  <2>2. ~(directives[it].lineInFile >= raw)
    BY <1>0, <2>1
  <2>3. PreviousLineDirective(directives, raw) = it
    <3>1. /\ ~(directives = <<>>)
          /\ ~(it = 0 /\ directives # <<>>)
          /\ ~(it > 0 /\ it = Len(directives) /\ directives[it].lineInFile >= raw)
      BY <1>7, <2>2
    <3> QED
      BY <1>4, <3>1
  <2>4. \A e \in DOMAIN directives : directives[e].lineInFile < raw => e <= it
    BY <1>0, <1>3
  <2> QED
    BY <2>1, <2>3, <2>4 DEF IsGoverning
<1> QED
  BY <1>5, <1>6, <1>7

-------------------------------------------------------------------------------
(***************************************************************************)
(* Induction over the positions of a text from its end to its beginning.   *)
(***************************************************************************)
LEMMA FromTheEnd ==
    ASSUME NEW n \in Nat, NEW S,
           \A i \in 1 .. n + 1 : (\A j \in i + 1 .. n + 1 : j \in S) => i \in S
    PROVE  1 .. n + 1 \subseteq S
<1> DEFINE Missing == {k \in Nat : k <= n /\ n + 1 - k \notin S}
<1>1. CASE Missing = {}
  <2> SUFFICES ASSUME NEW i \in 1 .. n + 1 PROVE i \in S
    OBVIOUS
  <2>1. n + 1 - i \in Nat /\ n + 1 - i <= n /\ n + 1 - (n + 1 - i) = i
    OBVIOUS
  <2> QED
    BY <1>1, <2>1
<1>2. CASE Missing # {}
  <2>1. PICK k \in Missing : \A j \in Missing : k <= j
    <3>1. Missing \in SUBSET Nat
      OBVIOUS
    <3> HIDE DEF Missing
    <3> QED
      BY <1>2, <3>1, LeastNumber
  <2>2. k \in Nat /\ k <= n /\ n + 1 - k \notin S
    BY <2>1
  <2>3. ASSUME NEW j \in n + 1 - k + 1 .. n + 1 PROVE j \in S
    <3>1. n + 1 - j \in Nat /\ n + 1 - j <= n /\ n + 1 - j < k /\ n + 1 - (n + 1 - j) = j
      BY <2>2
    <3>2. n + 1 - j \notin Missing
      BY <2>1, <2>2, <3>1
    <3> QED
      BY <3>1, <3>2
  <2>4. n + 1 - k \in 1 .. n + 1
    BY <2>2
  <2> QED
    BY <2>2, <2>3, <2>4
<1> QED
  BY <1>1, <1>2

(***************************************************************************)
(* The loop of computeLineOffsets, as a function of where it stands.       *)
(***************************************************************************)
PairAt(text, i) ==
    i < Len(text) /\ text[i + 1] \in Newlines /\ text[i + 1] # text[i]

After(text, i) == IF PairAt(text, i) THEN i + 2 ELSE i + 1

IsScan(text, f) ==
    f = [i \in 1 .. Len(text) + 1 |->
            IF i > Len(text) THEN <<>>
            ELSE IF text[i] \in Newlines
                 THEN <<After(text, i) - 1>> \o f[After(text, i)]
                 ELSE f[i + 1]]

LEMMA OffsetsAreScan ==
    ASSUME NEW text \in Seq(Chars)
    PROVE  ComputeLineOffsets(text) = <<0>> \o (CHOOSE f : IsScan(text, f))[1]
  BY DEF ComputeLineOffsets, IsScan, After, PairAt

LEMMA AfterBounds ==
    ASSUME NEW text \in Seq(Chars), NEW n \in Nat, n = Len(text), NEW i \in 1 .. n
    PROVE  /\ After(text, i) \in i + 1 .. n + 1
           /\ PairAt(text, i) => i + 1 \in 1 .. n
  BY DEF After, PairAt

LEMMA ScanExists ==
    ASSUME NEW text \in Seq(Chars)
    PROVE  \E f : IsScan(text, f)
<1>0. PICK n \in Nat : n = Len(text)
  OBVIOUS
<1> DEFINE Step(f, i) == IF i > n THEN <<>>
                         ELSE IF text[i] \in Newlines
                              THEN <<After(text, i) - 1>> \o f[After(text, i)]
                              ELSE f[i + 1]
           Solved(i) == \E f : f = [j \in i .. n + 1 |-> Step(f, j)]
           S == {i \in 1 .. n + 1 : Solved(i)}
<1>1. ASSUME NEW i \in 1 .. n + 1, NEW g,
             i <= n => g = [j \in i + 1 .. n + 1 |-> Step(g, j)]
      PROVE  Solved(i)
  <2> DEFINE f == [j \in i .. n + 1 |-> Step(g, j)]
  <2>1. \A j \in i + 1 .. n + 1 : f[j] = g[j]
    <3> SUFFICES ASSUME NEW j \in i + 1 .. n + 1 PROVE f[j] = g[j]
      OBVIOUS
    <3>1. i <= n /\ j \in i .. n + 1
      BY <1>0
    <3>2. g = [k \in i + 1 .. n + 1 |-> Step(g, k)]
      BY <1>1, <3>1
    <3> HIDE DEF Step
    <3>3. g[j] = Step(g, j)
      BY <3>2
    <3> QED
      BY <3>1, <3>3
  <2>2. ASSUME NEW j \in i .. n + 1 PROVE Step(f, j) = Step(g, j)
    <3>1. CASE j > n
      BY <3>1
    <3>2. CASE ~(j > n)
      <4>1. j \in 1 .. n
        BY <1>0, <3>2
      <4>2. After(text, j) \in j + 1 .. n + 1
        BY <1>0, <4>1, AfterBounds
      <4>3. After(text, j) \in i + 1 .. n + 1 /\ j + 1 \in i + 1 .. n + 1
        BY <1>0, <4>1, <4>2
      <4>4. f[After(text, j)] = g[After(text, j)] /\ f[j + 1] = g[j + 1]
        <5> HIDE DEF f
        <5> QED
          BY <2>1, <4>3
      <4> HIDE DEF f
      <4> QED
        BY <4>4
    <3> QED
      BY <3>1, <3>2
  <2>3. f = [j \in i .. n + 1 |-> Step(f, j)]
    <3> HIDE DEF Step
    <3> QED
      BY <2>2
  <2> HIDE DEF f, Step
  <2> QED
    BY <2>3
<1>2. ASSUME NEW i \in 1 .. n + 1, \A j \in i + 1 .. n + 1 : j \in S
      PROVE  i \in S
  <2>1. CASE i <= n
    <3>1. Solved(i + 1)
      <4> HIDE DEF Solved
      <4>1. i + 1 \in i + 1 .. n + 1
        BY <1>0, <2>1
      <4> QED
        BY <1>2, <4>1
    <3>2. PICK g : g = [j \in i + 1 .. n + 1 |-> Step(g, j)]
      BY <3>1
    <3> HIDE DEF Step
    <3>3. Solved(i)
      BY <1>1, <3>2
    <3> HIDE DEF Solved
    <3> QED
      BY <3>3
  <2>2. CASE ~(i <= n)
    <3>1. Solved(i)
      <4> HIDE DEF Solved
      <4> QED
        BY <1>1, <2>2
    <3> HIDE DEF Solved
    <3> QED
      BY <3>1
  <2> QED
    BY <2>1, <2>2
<1>3. 1 \in S
  <2> HIDE DEF S
  <2>1. 1 .. n + 1 \subseteq S
    BY <1>0, <1>2, FromTheEnd
  <2> QED
    BY <1>0, <2>1
<1>4. PICK f : f = [j \in 1 .. n + 1 |-> Step(f, j)]
  BY <1>3
<1> QED
  BY <1>0, <1>4 DEF IsScan

(***************************************************************************)
(* What the loop appends from position i on: ends of line breaks, rising,  *)
(* none before i and none behind the text.                                 *)
(***************************************************************************)
Rising(s, first, last) ==
    /\ s \in Seq(Nat)
    /\ \A k \in 1 .. Len(s) : s[k] \in first .. last
    /\ \A j, k \in 1 .. Len(s) : j < k => s[j] < s[k]

LEMMA RisingPrepended ==
    ASSUME NEW first \in Nat, NEW a \in Nat, NEW last \in Nat,
           first <= a, a <= last, NEW s, Rising(s, a + 1, last)
    PROVE  /\ Rising(<<a>> \o s, first, last)
           /\ Len(<<a>> \o s) = Len(s) + 1
           /\ (<<a>> \o s)[1] = a
           /\ \A k \in 1 .. Len(s) : (<<a>> \o s)[k + 1] = s[k]
<1> DEFINE t == <<a>> \o s
<1>0. PICK m \in Nat : m = Len(s)
  BY DEF Rising
<1>1. /\ t \in Seq(Nat) /\ Len(t) = m + 1 /\ t[1] = a
      /\ \A k \in 1 .. m : t[k + 1] = s[k]
  BY <1>0 DEF Rising
<1>2. /\ \A k \in 1 .. m : s[k] \in Nat /\ a < s[k] /\ s[k] <= last
      /\ \A j, k \in 1 .. m : j < k => s[j] < s[k]
  BY <1>0 DEF Rising
<1> HIDE DEF t
<1>3. \A k \in 1 .. m + 1 : k = 1 \/ (k - 1 \in 1 .. m /\ t[k] = s[k - 1])
  <2> SUFFICES ASSUME NEW k \in 1 .. m + 1, k # 1
               PROVE  k - 1 \in 1 .. m /\ t[k] = s[k - 1]
    OBVIOUS
  <2>1. k - 1 \in 1 .. m /\ k - 1 + 1 = k
    BY <1>0
  <2>2. t[k - 1 + 1] = s[k - 1]
    BY <1>1, <2>1
  <2> QED
    BY <2>1, <2>2
<1>4. ASSUME NEW k \in 1 .. m + 1 PROVE t[k] \in first .. last
  <2>1. CASE k = 1
    BY <1>1, <2>1
  <2>2. CASE k # 1
    <3>1. k - 1 \in 1 .. m /\ t[k] = s[k - 1]
      BY <1>3, <2>2
    <3> QED
      BY <1>2, <3>1
  <2> QED
    BY <2>1, <2>2
<1>5. ASSUME NEW j \in 1 .. m + 1, NEW k \in 1 .. m + 1, j < k
      PROVE  t[j] < t[k]
  <2>1. k # 1 /\ k - 1 \in 1 .. m /\ t[k] = s[k - 1]
    BY <1>0, <1>3, <1>5
  <2>2. CASE j = 1
    BY <1>1, <1>2, <2>1, <2>2
  <2>3. CASE j # 1
    <3>1. j - 1 \in 1 .. m /\ t[j] = s[j - 1] /\ j - 1 < k - 1
      BY <1>0, <1>3, <1>5, <2>3
    <3> QED
      BY <1>2, <2>1, <3>1
  <2> QED
    BY <2>2, <2>3
<1>6. Rising(t, first, last)
  BY <1>1, <1>4, <1>5 DEF Rising
<1> QED
  BY <1>0, <1>1, <1>6 DEF t

LEMMA ScanRises ==
    ASSUME NEW text \in Seq(Chars), NEW n \in Nat, n = Len(text),
           NEW f, IsScan(text, f)
    PROVE  \A i \in 1 .. n + 1 : Rising(f[i], i, n)
<1> DEFINE S == {i \in 1 .. n + 1 : Rising(f[i], i, n)}
<1>1. ASSUME NEW i \in 1 .. n + 1, \A j \in i + 1 .. n + 1 : j \in S
      PROVE  i \in S
  <2>1. f[i] = IF i > n THEN <<>>
               ELSE IF text[i] \in Newlines
                    THEN <<After(text, i) - 1>> \o f[After(text, i)]
                    ELSE f[i + 1]
    BY DEF IsScan
  <2>2. CASE i > n
    <3>1. f[i] = <<>>
      BY <2>1, <2>2
    <3>2. <<>> \in Seq(Nat) /\ Len(<<>>) = 0
      OBVIOUS
    <3>3. Rising(<<>>, i, n)
      BY <3>2 DEF Rising
    <3> QED
      BY <3>1, <3>3
  <2>3. CASE i \in 1 .. n /\ text[i] \in Newlines
    <3>1. PICK a \in Nat : a + 1 = After(text, i) /\ i <= a /\ a <= n
      <4>1. After(text, i) \in i + 1 .. n + 1
        BY <2>3, AfterBounds
      <4>2. After(text, i) - 1 \in Nat /\ After(text, i) - 1 + 1 = After(text, i)
            /\ i <= After(text, i) - 1 /\ After(text, i) - 1 <= n
        BY <4>1
      <4> QED
        BY <4>2
    <3>2. a + 1 \in S
      BY <1>1, <3>1
    <3>3. f[i] = <<a>> \o f[a + 1]
      <4>1. After(text, i) - 1 = a /\ ~(i > n)
        BY <2>3, <3>1
      <4> QED
        BY <2>1, <2>3, <3>1, <4>1
    <3>4. Rising(<<a>> \o f[a + 1], i, n)
      BY <3>1, <3>2, RisingPrepended
    <3> QED
      BY <3>3, <3>4
  <2>4. CASE i \in 1 .. n /\ text[i] \notin Newlines
    <3>1. f[i] = f[i + 1] /\ i + 1 \in S
      BY <1>1, <2>1, <2>4
    <3>2. Rising(f[i], i + 1, n)
      BY <3>1
    <3>3. Rising(f[i], i, n)
      BY <3>2 DEF Rising
    <3> QED
      BY <3>3
  <2> QED
    BY <2>2, <2>3, <2>4
<1> HIDE DEF S
<1>2. 1 .. n + 1 \subseteq S
  BY <1>1, FromTheEnd
<1> QED
  BY <1>2 DEF S

(***************************************************************************)
(* The line breaks of the part of a text that begins at position i, as in  *)
(* StartsLine: they cover what ends lines there and nothing else, do not   *)
(* overlap, and are as long as they can be.                                *)
(***************************************************************************)
TilesFrom(text, i, breaks) ==
    /\ \A b \in breaks : /\ b \in (1 .. Len(text)) \X (1 .. Len(text))
                         /\ b[1] >= i
                         /\ b[2] \in {b[1], b[1] + 1}
    /\ \A k \in 1 .. Len(text) :
           (k >= i /\ text[k] \in Newlines) <=> \E b \in breaks : b[1] <= k /\ k <= b[2]
    /\ \A b \in breaks, c \in breaks : b = c \/ b[2] < c[1] \/ c[2] < b[1]
    /\ \A b \in breaks :
           IF b[1] = b[2]
           THEN b[1] = Len(text) \/ text[b[1] + 1] \notin Newlines \ {text[b[1]]}
           ELSE text[b[1]] # text[b[2]]

LEMMA StartsLineTiles ==
    ASSUME NEW text \in Seq(Chars), NEW o
    PROVE  StartsLine(text, o) <=>
               \E breaks : TilesFrom(text, 1, breaks) /\ \E b \in breaks : b[2] = o
<1>0. PICK n \in Nat : n = Len(text)
  OBVIOUS
<1> DEFINE Boxes == {b \in (1 .. n) \X (1 .. n) : b[2] \in {b[1], b[1] + 1}}
           Breaking == {k \in 1 .. n : text[k] \in Newlines}
           Apart(B) == \A b \in B, c \in B : b = c \/ b[2] < c[1] \/ c[2] < b[1]
           Long(B) == \A b \in B :
                          IF b[1] = b[2]
                          THEN b[1] = n \/ text[b[1] + 1] \notin Newlines \ {text[b[1]]}
                          ELSE text[b[1]] # text[b[2]]
<1>1. ASSUME NEW B \in SUBSET Boxes
      PROVE  UNION {b[1] .. b[2] : b \in B} = Breaking <=>
             \A k \in 1 .. n : text[k] \in Newlines <=>
                                   \E b \in B : b[1] <= k /\ k <= b[2]
  <2>1. ASSUME NEW b \in B PROVE b[1] \in 1 .. n /\ b[2] \in 1 .. n
    OBVIOUS
  <2>2. ASSUME NEW k
        PROVE  k \in UNION {b[1] .. b[2] : b \in B} <=>
               (k \in 1 .. n /\ \E b \in B : b[1] <= k /\ k <= b[2])
    <3>1. ASSUME NEW b \in B
          PROVE  k \in b[1] .. b[2] <=> (k \in 1 .. n /\ b[1] <= k /\ k <= b[2])
      BY <1>0, <2>1
    <3> QED
      BY <3>1
  <2>3. (UNION {b[1] .. b[2] : b \in B} = Breaking) <=>
        \A k : k \in UNION {b[1] .. b[2] : b \in B} <=> k \in Breaking
    OBVIOUS
  <2> QED
    BY <2>2, <2>3
<1>2. StartsLine(text, o) <=>
          \E B \in SUBSET Boxes : /\ o \in {b[2] : b \in B}
                                  /\ UNION {b[1] .. b[2] : b \in B} = Breaking
                                  /\ Apart(B) /\ Long(B)
  BY <1>0 DEF StartsLine
<1>3. ASSUME NEW B
      PROVE  TilesFrom(text, 1, B) <=>
                 /\ B \in SUBSET Boxes
                 /\ \A k \in 1 .. n : text[k] \in Newlines <=>
                                          \E b \in B : b[1] <= k /\ k <= b[2]
                 /\ Apart(B) /\ Long(B)
  <2>1. (\A b \in B : b \in (1 .. n) \X (1 .. n) /\ b[1] >= 1 /\ b[2] \in {b[1], b[1] + 1})
            <=> B \in SUBSET Boxes
    OBVIOUS
  <2>2. \A k \in 1 .. n : k >= 1
    OBVIOUS
  <2> HIDE DEF Boxes
  <2> QED
    BY <1>0, <2>1, <2>2 DEF TilesFrom
<1> HIDE DEF Boxes, Breaking, Apart, Long
<1> QED
  BY <1>1, <1>2, <1>3

(***************************************************************************)
(* A text has line breaks ...                                              *)
(***************************************************************************)
LEMMA TilingExists ==
    ASSUME NEW text \in Seq(Chars)
    PROVE  \E breaks : TilesFrom(text, 1, breaks)
<1>0. PICK n \in Nat : n = Len(text)
  OBVIOUS
<1> DEFINE S == {i \in 1 .. n + 1 : \E breaks : TilesFrom(text, i, breaks)}
<1>1. ASSUME NEW i \in 1 .. n + 1, \A j \in i + 1 .. n + 1 : j \in S
      PROVE  i \in S
  <2>1. CASE i > n
    <3>1. TilesFrom(text, i, {})
      BY <1>0, <2>1 DEF TilesFrom
    <3> QED
      BY <3>1
  <2>2. CASE i \in 1 .. n /\ text[i] \notin Newlines
    <3>1. PICK B : TilesFrom(text, i + 1, B)
      <4>1. i + 1 \in i + 1 .. n + 1
        BY <2>2
      <4> QED
        BY <1>1, <4>1
    <3>2. \A b \in B : b[1] >= i
      BY <1>0, <2>2, <3>1 DEF TilesFrom
    <3>3. \A k \in 1 .. n : (k >= i /\ text[k] \in Newlines) <=>
                                (k >= i + 1 /\ text[k] \in Newlines)
      BY <2>2
    <3>4. TilesFrom(text, i, B)
      BY <1>0, <3>1, <3>2, <3>3 DEF TilesFrom
    <3> QED
      BY <3>4
  <2>3. CASE i \in 1 .. n /\ text[i] \in Newlines
    <3>1. PICK a \in Nat : /\ a + 1 = After(text, i) /\ i <= a /\ a <= n
                           /\ a \in {i, i + 1}
      <4>1. After(text, i) \in i + 1 .. n + 1
        BY <1>0, <2>3, AfterBounds
      <4>2. /\ After(text, i) - 1 \in Nat /\ After(text, i) - 1 + 1 = After(text, i)
            /\ i <= After(text, i) - 1 /\ After(text, i) - 1 <= n
        BY <4>1
      <4>3. After(text, i) - 1 \in {i, i + 1}
        BY <2>3 DEF After
      <4> QED
        BY <4>2, <4>3
    <3>2. PICK B : TilesFrom(text, a + 1, B)
      <4>1. a + 1 \in i + 1 .. n + 1
        BY <3>1
      <4> QED
        BY <1>1, <4>1
    <3> DEFINE d == <<i, a>>
               C == B \cup {d}
    <3>3. d \in (1 .. n) \X (1 .. n) /\ d[1] = i /\ d[2] = a
      BY <2>3, <3>1
    <3>4. \A b \in B : /\ b \in (1 .. n) \X (1 .. n) /\ b[1] >= a + 1
                       /\ b[2] \in {b[1], b[1] + 1}
                       /\ b[1] \in Nat /\ b[2] \in Nat
      BY <1>0, <3>2 DEF TilesFrom
    <3>5. IF i = a
          THEN i = n \/ text[i + 1] \notin Newlines \ {text[i]}
          ELSE text[i] # text[a]
      <4>1. CASE PairAt(text, i)
        <5>1. a = i + 1
          BY <2>3, <3>1, <4>1 DEF After
        <5> QED
          BY <2>3, <4>1, <5>1 DEF PairAt
      <4>2. CASE ~PairAt(text, i)
        <5>1. a = i
          BY <2>3, <3>1, <4>2 DEF After
        <5>2. ~(i < n /\ text[i + 1] \in Newlines /\ text[i + 1] # text[i])
          BY <1>0, <4>2 DEF PairAt
        <5> QED
          BY <2>3, <5>1, <5>2
      <4> QED
        BY <4>1, <4>2
    <3>6. text[a] \in Newlines
      <4>1. CASE a = i
        BY <2>3, <4>1
      <4>2. CASE a # i
        <5>1. PairAt(text, i) /\ a = i + 1
          BY <2>3, <3>1, <4>2 DEF After
        <5> QED
          BY <5>1 DEF PairAt
      <4> QED
        BY <4>1, <4>2
    <3> HIDE DEF d
    <3>7. \A b \in C : b \in (1 .. n) \X (1 .. n) /\ b[1] >= i /\ b[2] \in {b[1], b[1] + 1}
      <4> SUFFICES ASSUME NEW b \in C
                   PROVE  b \in (1 .. n) \X (1 .. n) /\ b[1] >= i /\ b[2] \in {b[1], b[1] + 1}
        OBVIOUS
      <4>1. CASE b = d
        BY <3>1, <3>3, <4>1
      <4>2. CASE b \in B
        BY <2>3, <3>1, <3>4, <4>2
      <4> QED
        BY <4>1, <4>2
    <3>8. ASSUME NEW k \in 1 .. n
          PROVE  (k >= i /\ text[k] \in Newlines) <=> \E b \in C : b[1] <= k /\ k <= b[2]
      <4>1. (k >= a + 1 /\ text[k] \in Newlines) <=> \E b \in B : b[1] <= k /\ k <= b[2]
        BY <1>0, <3>2 DEF TilesFrom
      <4>2. (\E b \in C : b[1] <= k /\ k <= b[2]) <=>
                \/ i <= k /\ k <= a
                \/ \E b \in B : b[1] <= k /\ k <= b[2]
        BY <3>3
      <4>3. i <= k /\ k <= a => text[k] \in Newlines
        <5>1. i <= k /\ k <= a => k = i \/ k = a
          BY <2>3, <3>1
        <5> QED
          BY <2>3, <3>6, <5>1
      <4>4. k >= i <=> (i <= k /\ k <= a) \/ k >= a + 1
        BY <2>3, <3>1
      <4> QED
        BY <4>1, <4>2, <4>3, <4>4
    <3>9. \A b \in C, c \in C : b = c \/ b[2] < c[1] \/ c[2] < b[1]
      <4>1. \A b \in B, c \in B : b = c \/ b[2] < c[1] \/ c[2] < b[1]
        BY <3>2 DEF TilesFrom
      <4>2. \A b \in B : d[2] < b[1]
        BY <3>1, <3>3, <3>4
      <4> QED
        BY <4>1, <4>2
    <3>10. \A b \in C : IF b[1] = b[2]
                        THEN b[1] = n \/ text[b[1] + 1] \notin Newlines \ {text[b[1]]}
                        ELSE text[b[1]] # text[b[2]]
      <4>1. \A b \in B : IF b[1] = b[2]
                         THEN b[1] = n \/ text[b[1] + 1] \notin Newlines \ {text[b[1]]}
                         ELSE text[b[1]] # text[b[2]]
        BY <1>0, <3>2 DEF TilesFrom
      <4>2. IF d[1] = d[2]
            THEN d[1] = n \/ text[d[1] + 1] \notin Newlines \ {text[d[1]]}
            ELSE text[d[1]] # text[d[2]]
        BY <3>3, <3>5
      <4> QED
        BY <4>1, <4>2
    <3>11. TilesFrom(text, i, C)
      <4> HIDE DEF C
      <4> QED
        BY <1>0, <3>7, <3>8, <3>9, <3>10 DEF TilesFrom
    <3> HIDE DEF C
    <3> QED
      BY <3>11
  <2> QED
    BY <2>1, <2>2, <2>3
<1>2. 1 \in S
  <2> HIDE DEF S
  <2>1. 1 .. n + 1 \subseteq S
    BY <1>0, <1>1, FromTheEnd
  <2> QED
    BY <1>0, <2>1
<1> QED
  BY <1>2

(***************************************************************************)
(* ... and only one way to have them: the loop finds the ends of any.      *)
(***************************************************************************)
EndsFrom(breaks, i) == {b[2] : b \in {c \in breaks : c[1] >= i}}

Elements(s) == {s[k] : k \in 1 .. Len(s)}

LEMMA ElementsPrepended ==
    ASSUME NEW a \in Nat, NEW s \in Seq(Nat)
    PROVE  Elements(<<a>> \o s) = {a} \cup Elements(s)
<1>0. PICK m \in Nat : m = Len(s)
  OBVIOUS
<1> DEFINE t == <<a>> \o s
<1>1. Len(t) = m + 1 /\ t[1] = a /\ \A k \in 1 .. m : t[k + 1] = s[k]
  BY <1>0
<1> HIDE DEF t
<1>2. ASSUME NEW k \in 1 .. m + 1 PROVE k = 1 \/ t[k] \in Elements(s)
  <2>1. CASE k # 1
    <3>1. k - 1 \in 1 .. m /\ k - 1 + 1 = k
      BY <1>0, <2>1
    <3>2. t[k - 1 + 1] = s[k - 1]
      BY <1>1, <3>1
    <3> QED
      BY <1>0, <3>1, <3>2 DEF Elements
  <2> QED
    BY <2>1
<1>3. \A k \in 1 .. m : s[k] = t[k + 1] /\ k + 1 \in 1 .. m + 1
  BY <1>0, <1>1
<1>4. 1 \in 1 .. m + 1
  BY <1>0
<1>5. Elements(t) \subseteq {a} \cup Elements(s)
  BY <1>1, <1>2 DEF Elements
<1>6. {a} \cup Elements(s) \subseteq Elements(t)
  BY <1>0, <1>1, <1>3, <1>4, ZenonT(60) DEF Elements
<1> QED
  BY <1>5, <1>6 DEF t

LEMMA ScanFindsBreaks ==
    ASSUME NEW text \in Seq(Chars), NEW f, IsScan(text, f),
           NEW B, TilesFrom(text, 1, B)
    PROVE  EndsFrom(B, 1) = Elements(f[1])
<1>0. PICK n \in Nat : n = Len(text)
  OBVIOUS
<1> DEFINE Uncrossed(i) == \A b \in B : ~(b[1] < i /\ i <= b[2])
           S == {i \in 1 .. n + 1 : Uncrossed(i) => EndsFrom(B, i) = Elements(f[i])}
<1>1. \A b \in B : /\ b \in (1 .. n) \X (1 .. n)
                   /\ b[1] \in 1 .. n /\ b[2] \in 1 .. n
                   /\ b[2] \in {b[1], b[1] + 1}
  BY <1>0 DEF TilesFrom
<1>2. \A k \in 1 .. n : text[k] \in Newlines <=> \E b \in B : b[1] <= k /\ k <= b[2]
  BY <1>0 DEF TilesFrom
<1>3. /\ \A b \in B, c \in B : b = c \/ b[2] < c[1] \/ c[2] < b[1]
      /\ \A b \in B : IF b[1] = b[2]
                      THEN b[1] = n \/ text[b[1] + 1] \notin Newlines \ {text[b[1]]}
                      ELSE text[b[1]] # text[b[2]]
  BY <1>0 DEF TilesFrom
<1>4. \A i \in 1 .. n + 1 :
          f[i] = IF i > n THEN <<>>
                 ELSE IF text[i] \in Newlines
                      THEN <<After(text, i) - 1>> \o f[After(text, i)]
                      ELSE f[i + 1]
  BY <1>0 DEF IsScan
<1>5. \A i \in 1 .. n + 1 : f[i] \in Seq(Nat)
  BY <1>0, ScanRises DEF Rising
<1>6. ASSUME NEW i \in 1 .. n + 1, \A j \in i + 1 .. n + 1 : j \in S, Uncrossed(i)
      PROVE  EndsFrom(B, i) = Elements(f[i])
  <2>1. CASE i > n
    <3>1. f[i] = <<>>
      BY <1>4, <2>1
    <3>2. Elements(<<>>) = {}
      BY DEF Elements
    <3>3. EndsFrom(B, i) = {}
      BY <1>0, <1>1, <2>1 DEF EndsFrom
    <3> QED
      BY <3>1, <3>2, <3>3
  <2>2. CASE i \in 1 .. n /\ text[i] \notin Newlines
    <3>1. f[i] = f[i + 1]
      <4>1. i \in 1 .. n + 1 /\ ~(i > n)
        BY <2>2
      <4> QED
        BY <1>4, <2>2, <4>1
    <3>2. \A b \in B : ~(b[1] <= i /\ i <= b[2])
      BY <1>2, <2>2
    <3>3. Uncrossed(i + 1)
      BY <1>1, <2>2, <3>2
    <3>4. \A b \in B : b[1] >= i <=> b[1] >= i + 1
      BY <1>1, <2>2, <3>2
    <3>5. EndsFrom(B, i) = EndsFrom(B, i + 1)
      BY <3>4 DEF EndsFrom
    <3>6. i + 1 \in S
      BY <1>6, <2>2
    <3> QED
      BY <3>1, <3>3, <3>5, <3>6
  <2>3. CASE i \in 1 .. n /\ text[i] \in Newlines
    <3>1. PICK b \in B : b[1] <= i /\ i <= b[2]
      BY <1>2, <2>3
    <3>2. b[1] = i
      BY <1>1, <1>6, <2>3, <3>1
    <3>3. b[2] + 1 = After(text, i)
      <4>1. CASE b[2] = i
        <5>1. i = n \/ text[i + 1] \notin Newlines \ {text[i]}
          BY <1>3, <3>2, <4>1
        <5>2. ~PairAt(text, i)
          BY <1>0, <5>1 DEF PairAt
        <5> QED
          BY <4>1, <5>2 DEF After
      <4>2. CASE b[2] = i + 1
        <5>1. text[i] # text[i + 1] /\ i < n
          BY <1>1, <1>3, <2>3, <3>2, <4>2
        <5>2. text[i + 1] \in Newlines
          <6>1. i + 1 \in 1 .. n
            BY <2>3, <5>1
          <6>2. b[1] <= i + 1 /\ i + 1 <= b[2]
            BY <2>3, <3>2, <4>2
          <6> QED
            BY <1>2, <6>1, <6>2
        <5>3. PairAt(text, i)
          BY <1>0, <5>1, <5>2 DEF PairAt
        <5> QED
          BY <2>3, <4>2, <5>3 DEF After
      <4> QED
        BY <1>1, <3>2, <4>1, <4>2
    <3>4. PICK a \in Nat : a = b[2] /\ i <= a /\ a <= n
      BY <1>1, <3>1
    <3>5. \A c \in B : c = b \/ c[1] > a \/ c[2] < i
      BY <1>1, <1>3, <3>2, <3>4
    <3>6. Uncrossed(a + 1)
      <4> SUFFICES ASSUME NEW c \in B, c[1] < a + 1, a + 1 <= c[2] PROVE FALSE
        OBVIOUS
      <4>1. c[1] \in Nat /\ c[2] \in Nat
        BY <1>1
      <4> QED
        BY <2>3, <3>4, <3>5, <4>1
    <3>7. EndsFrom(B, i) = {a} \cup EndsFrom(B, a + 1)
      <4>1. \A c \in B : c[1] >= i <=> (c = b \/ c[1] >= a + 1)
        <5> SUFFICES ASSUME NEW c \in B
                     PROVE  c[1] >= i <=> (c = b \/ c[1] >= a + 1)
          OBVIOUS
        <5>1. c[1] \in Nat /\ c[2] \in Nat /\ c[1] <= c[2]
          BY <1>1
        <5> QED
          BY <2>3, <3>2, <3>4, <3>5, <5>1
      <4>2. {c \in B : c[1] >= i} = {b} \cup {c \in B : c[1] >= a + 1}
        BY <4>1
      <4> QED
        BY <3>4, <4>2 DEF EndsFrom
    <3>8. f[i] = <<a>> \o f[a + 1]
      <4>1. After(text, i) - 1 = a /\ After(text, i) = a + 1 /\ ~(i > n)
        BY <2>3, <3>3, <3>4
      <4> QED
        BY <1>4, <2>3, <4>1
    <3>9. a + 1 \in i + 1 .. n + 1 /\ a + 1 \in 1 .. n + 1
      BY <2>3, <3>4
    <3>10. EndsFrom(B, a + 1) = Elements(f[a + 1])
      BY <1>6, <3>6, <3>9
    <3>11. Elements(<<a>> \o f[a + 1]) = {a} \cup Elements(f[a + 1])
      BY <1>5, <3>9, ElementsPrepended
    <3> QED
      BY <3>7, <3>8, <3>10, <3>11
  <2> QED
    BY <2>1, <2>2, <2>3
<1>7. 1 \in S
  <2>1. ASSUME NEW i \in 1 .. n + 1, \A j \in i + 1 .. n + 1 : j \in S
        PROVE  i \in S
    BY <1>6, <2>1
  <2> HIDE DEF S
  <2>2. 1 .. n + 1 \subseteq S
    BY <1>0, <2>1, FromTheEnd
  <2> QED
    BY <1>0, <2>2
<1>8. Uncrossed(1)
  BY <1>1
<1> QED
  BY <1>7, <1>8

(***************************************************************************)
(* computeLineOffsets and the binary search of getRawLineNumber together:  *)
(* in a text of any length, whatever line breaks it has, every offset gets *)
(* the line it is on.                                                      *)
(***************************************************************************)
THEOREM OffsetsExact ==
    ASSUME NEW text \in Seq(Chars), NEW offset \in Nat
    PROVE  /\ ComputeLineOffsets(text) \in Seq(Nat)
           /\ Len(ComputeLineOffsets(text)) # 0
           /\ RawLine(ComputeLineOffsets(text), offset) = LineOf(text, offset)
<1> DEFINE f == CHOOSE g : IsScan(text, g)
           offsets == ComputeLineOffsets(text)
           line == RawLine(offsets, offset)
           Before == {o \in 1 .. Len(text) : o <= offset /\ StartsLine(text, o)}
<1>0. PICK n \in Nat : n = Len(text)
  OBVIOUS
<1>1. IsScan(text, f)
  BY ScanExists
<1>2. offsets = <<0>> \o f[1]
  BY OffsetsAreScan
<1> HIDE DEF f
<1>3. PICK s : s = f[1]
  OBVIOUS
<1>4. Rising(s, 1, n)
  <2>1. 1 \in 1 .. n + 1
    BY <1>0
  <2> QED
    BY <1>0, <1>1, <1>3, <2>1, ScanRises
<1>5. PICK m \in Nat : m = Len(s)
  BY <1>4 DEF Rising
<1>6. /\ Rising(offsets, 0, n) /\ Len(offsets) = m + 1 /\ offsets[1] = 0
      /\ \A k \in 1 .. m : offsets[k + 1] = s[k]
  <2>1. Rising(s, 0 + 1, n)
    BY <1>4
  <2> HIDE DEF offsets
  <2> QED
    BY <1>0, <1>2, <1>3, <1>5, <2>1, RisingPrepended
<1>7. offsets \in Seq(Nat) /\ Len(offsets) # 0
  BY <1>5, <1>6 DEF Rising
<1>8. /\ line \in 0 .. m + 1
      /\ \A i \in 1 .. m + 1 : offsets[i] <= offset <=> i <= line
  <2>1. \A i, j \in 1 .. Len(offsets) : i < j => offsets[i] < offsets[j]
    BY <1>6 DEF Rising
  <2> HIDE DEF offsets
  <2> QED
    BY <1>6, <1>7, <2>1, RawLineCounts
<1> HIDE DEF offsets, line
<1>9. line \in 1 .. m + 1
  <2>1. 1 \in 1 .. m + 1 /\ offsets[1] <= offset
    BY <1>5, <1>6
  <2> QED
    BY <1>5, <1>8, <2>1
<1>10. PICK before \in Nat : before + 1 = line /\ before <= m
  BY <1>5, <1>9
<1>11. /\ \A k \in 1 .. m : s[k] \in 1 .. n /\ s[k] \in Nat
       /\ \A j, k \in 1 .. m : j < k => s[j] < s[k]
  BY <1>4, <1>5 DEF Rising
<1>12. \A k \in 1 .. m : s[k] <= offset <=> k <= before
  <2> SUFFICES ASSUME NEW k \in 1 .. m PROVE s[k] <= offset <=> k <= before
    OBVIOUS
  <2>1. k + 1 \in 1 .. m + 1 /\ offsets[k + 1] = s[k]
    BY <1>5, <1>6
  <2>2. offsets[k + 1] <= offset <=> k + 1 <= line
    BY <1>8, <2>1
  <2> QED
    BY <1>10, <2>1, <2>2
<1>13. \A o : StartsLine(text, o) <=> \E k \in 1 .. m : s[k] = o
  <2>1. ASSUME NEW B, TilesFrom(text, 1, B), NEW o
        PROVE  (\E b \in B : b[2] = o) <=> \E k \in 1 .. m : s[k] = o
    <3>1. EndsFrom(B, 1) = Elements(s)
      BY <1>1, <1>3, <2>1, ScanFindsBreaks
    <3>2. \A b \in B : b[1] >= 1
      BY <2>1 DEF TilesFrom
    <3>3. EndsFrom(B, 1) = {b[2] : b \in B}
      BY <3>2 DEF EndsFrom
    <3> QED
      BY <1>5, <3>1, <3>3 DEF Elements
  <2> TAKE o
  <2>2. StartsLine(text, o) <=>
            \E B : TilesFrom(text, 1, B) /\ \E b \in B : b[2] = o
    BY StartsLineTiles
  <2>3. PICK B : TilesFrom(text, 1, B)
    BY TilingExists
  <2>4. (\E k \in 1 .. m : s[k] = o) => StartsLine(text, o)
    BY <2>1, <2>2, <2>3
  <2>5. StartsLine(text, o) => \E k \in 1 .. m : s[k] = o
    BY <2>1, <2>2
  <2> QED
    BY <2>4, <2>5
<1>14. Before = {s[k] : k \in 1 .. before}
  <2>1. \A k \in 1 .. before : k \in 1 .. m
    BY <1>5, <1>10
  <2>2. ASSUME NEW o \in Before PROVE o \in {s[k] : k \in 1 .. before}
    <3>1. PICK k \in 1 .. m : s[k] = o
      BY <1>13, <2>2
    <3>2. k \in 1 .. before
      BY <1>10, <1>12, <2>2, <3>1
    <3> QED
      BY <3>1, <3>2
  <2>3. ASSUME NEW k \in 1 .. before PROVE s[k] \in Before
    <3>1. s[k] \in 1 .. n /\ s[k] <= offset
      BY <1>10, <1>11, <1>12, <2>1
    <3> QED
      BY <1>0, <1>13, <2>1, <3>1
  <2> QED
    BY <2>2, <2>3
<1>15. Cardinality(Before) = before
  <2> DEFINE g == [k \in 1 .. before |-> s[k]]
  <2>1. \A j, k \in 1 .. before : g[j] = g[k] => j = k
    <3> SUFFICES ASSUME NEW j \in 1 .. before, NEW k \in 1 .. before, s[j] = s[k]
                 PROVE  j = k
      OBVIOUS
    <3>1. j \in 1 .. m /\ k \in 1 .. m /\ s[j] \in Nat /\ s[k] \in Nat
      BY <1>5, <1>10, <1>11
    <3>2. ~(j < k) /\ ~(k < j)
      BY <1>11, <3>1
    <3> QED
      BY <3>1, <3>2
  <2>2. g \in Bijection(1 .. before, Before)
    <3> HIDE DEF Before
    <3>1. g \in [1 .. before -> Before]
      BY <1>14
    <3>2. \A o \in Before : \E k \in 1 .. before : g[k] = o
      BY <1>14
    <3> HIDE DEF g
    <3> QED
      BY <2>1, <3>1, <3>2 DEF Bijection, Injection, Surjection, IsInjective
  <2>3. ExistsBijection(1 .. before, Before)
    BY <2>2 DEF ExistsBijection
  <2>4. IsFiniteSet(1 .. before) /\ Cardinality(1 .. before) = before
    <3>1. /\ IsFiniteSet(1 .. before)
          /\ Cardinality(1 .. before) = IF 1 > before THEN 0 ELSE before - 1 + 1
      <4>1. before \in Int /\ 1 \in Int
        BY <1>10
      <4> HIDE DEF g
      <4> QED
        BY <4>1, FS_Interval
    <3>2. (IF 1 > before THEN 0 ELSE before - 1 + 1) = before
      BY <1>10
    <3> QED
      BY <3>1, <3>2
  <2> HIDE DEF Before
  <2> QED
    BY <2>3, <2>4, FS_Bijection
<1>16. LineOf(text, offset) = 1 + Cardinality(Before)
  BY DEF LineOf
<1> HIDE DEF Before
<1>17. line = LineOf(text, offset)
  BY <1>10, <1>15, <1>16
<1> QED
  BY <1>7, <1>17 DEF line, offsets
===============================================================================
