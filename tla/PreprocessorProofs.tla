--------------------------- MODULE PreprocessorProofs ---------------------------
(***************************************************************************)
(* Proofs about Preprocessor, for any files, macros and include depth: its *)
(* stacks stay aligned, conditional directives let through the text they   *)
(* should, expansions are complete, includes that are skipped for a header *)
(* guard lose nothing, and files are read with the right keywords.  The    *)
(* first two assume nothing of what the files say or of what an expansion  *)
(* gives; each of the others names what it asks of the programs.           *)
(***************************************************************************)
EXTENDS Preprocessor, FiniteSetTheorems, SequenceTheorems, WellFoundedInduction, TLAPS

(***************************************************************************)
(* Stacks: a sequence without its last element, with another last element, *)
(* and with one more.                                                      *)
(***************************************************************************)
LEMMA Popped ==
    ASSUME NEW S, NEW s \in Seq(S), s # <<>>
    PROVE  /\ Len(s) \in Nat /\ Len(s) >= 1
           /\ Front(s) \in Seq(S)
           /\ Len(Front(s)) = Len(s) - 1
           /\ \A k \in 1 .. Len(s) - 1 : Front(s)[k] = s[k]
           /\ Last(s) = s[Len(s)] /\ Last(s) \in S
<1>1. Len(s) \in Nat /\ Len(s) >= 1 /\ \A k \in 1 .. Len(s) : s[k] \in S
  BY EmptySeq
<1>2. \A k \in 1 .. Len(s) - 1 : s[k] \in S /\ 1 + k - 1 = k
  BY <1>1
<1>3. /\ Front(s) \in Seq(S)
      /\ Len(Front(s)) = IF 1 <= Len(s) - 1 THEN Len(s) - 1 - 1 + 1 ELSE 0
      /\ \A k \in 1 .. Len(s) - 1 - 1 + 1 : Front(s)[k] = s[1 + k - 1]
  BY <1>1, <1>2, SubSeqProperties DEF Front
<1>4. ASSUME NEW n \in Nat, n >= 1
      PROVE  n - 1 - 1 + 1 = n - 1 /\ (IF 1 <= n - 1 THEN n - 1 - 1 + 1 ELSE 0) = n - 1
  BY <1>4
<1>5. /\ Len(Front(s)) = Len(s) - 1
      /\ \A k \in 1 .. Len(s) - 1 : Front(s)[k] = s[k]
  BY <1>1, <1>2, <1>3, <1>4
<1>6. Last(s) = s[Len(s)] /\ Len(s) \in 1 .. Len(s)
  BY <1>1 DEF Last
<1> QED
  BY <1>1, <1>3, <1>5, <1>6

LEMMA Pushed ==
    ASSUME NEW S, NEW s \in Seq(S), NEW e
    PROVE  /\ Len(s) \in Nat
           /\ Append(s, e) \in Seq(S \cup {e})
           /\ Append(s, e) # <<>>
           /\ Len(Append(s, e)) = Len(s) + 1
           /\ \A k \in 1 .. Len(s) : Append(s, e)[k] = s[k]
           /\ Append(s, e)[Len(s) + 1] = e
<1>1. s \in Seq(S \cup {e}) /\ e \in S \cup {e}
  OBVIOUS
<1> QED
  BY <1>1, AppendProperties, LenProperties

WithTop(s, e) == Front(s) \o <<e>>

LEMMA WithLastIsSeq ==
    ASSUME NEW S, NEW s \in Seq(S), s # <<>>, NEW e
    PROVE  /\ WithTop(s, e) \in Seq(S \cup {e})
           /\ WithTop(s, e) # <<>>
           /\ Len(WithTop(s, e)) = Len(s)
<1>1. /\ Len(s) \in Nat /\ Len(s) >= 1
      /\ Front(s) \in Seq(S)
      /\ Len(Front(s)) = Len(s) - 1
  BY Popped
<1>2. Front(s) \in Seq(S \cup {e}) /\ e \in S \cup {e}
  BY <1>1, SeqMonotonic
<1>3. Front(s) \o <<e>> = Append(Front(s), e)
  BY <1>2, AppendIsConcat
<1>4. /\ Append(Front(s), e) \in Seq(S \cup {e})
      /\ Append(Front(s), e) # <<>>
      /\ Len(Append(Front(s), e)) = Len(Front(s)) + 1
  BY <1>1, Pushed
<1> QED
  BY <1>1, <1>3, <1>4 DEF WithTop

LEMMA WithLast ==
    ASSUME NEW S, NEW s \in Seq(S), NEW n \in Nat, Len(s) = n + 1, NEW e
    PROVE  /\ Len(WithTop(s, e)) = n + 1
           /\ \A k \in 1 .. n : WithTop(s, e)[k] = s[k]
           /\ WithTop(s, e)[n + 1] = e
<1>1. s # <<>>
  BY EmptySeq
<1>2. n + 1 - 1 = n
  OBVIOUS
<1>3. /\ Front(s) \in Seq(S)
      /\ Len(Front(s)) = n
      /\ \A k \in 1 .. n : Front(s)[k] = s[k]
  BY <1>1, <1>2, Popped
<1>4. Front(s) \in Seq(S \cup {e}) /\ e \in S \cup {e}
  BY <1>3, SeqMonotonic
<1>5. WithTop(s, e) = Append(Front(s), e)
  BY <1>4, AppendIsConcat DEF WithTop
<1>6. /\ Len(Append(Front(s), e)) = n + 1
      /\ \A k \in 1 .. n : Append(Front(s), e)[k] = Front(s)[k]
      /\ Append(Front(s), e)[n + 1] = e
  BY <1>3, Pushed
<1> QED
  BY <1>3, <1>5, <1>6

\* The height of a stack that is not empty.
LEMMA Height ==
    ASSUME NEW S, NEW s \in Seq(S), s # <<>>
    PROVE  \E n \in Nat : Len(s) = n + 1 /\ Last(s) = s[n + 1]
<1>1. Len(s) \in Nat /\ Len(s) # 0
  BY EmptySeq
<1>2. ASSUME NEW m \in Nat, m # 0
      PROVE  m - 1 \in Nat /\ m = m - 1 + 1
  BY <1>2
<1> QED
  BY <1>1, <1>2 DEF Last

LEMMA NotEmpty ==
    ASSUME NEW S, NEW s \in Seq(S)
    PROVE  Len(s) \in Nat /\ (s = <<>> <=> Len(s) = 0)
  BY EmptySeq, LenProperties
-----------------------------------------------------------------------------
(***************************************************************************)
(* The files: the included ones are the last includeDepth of the lexers.   *)
(***************************************************************************)
IsLexer(l) == l = [file |-> l.file, pos |-> l.pos, included |-> l.included, begun |-> l.begun]

Sources(ls, depth) ==
    /\ \E L : ls \in Seq(L)
    /\ \A k \in 1 .. Len(ls) : IsLexer(ls[k])
    /\ depth \in 0 .. Len(ls) /\ depth <= MaxIncludeDepth
    /\ \A k \in 1 .. Len(ls) : ls[k].included <=> k > Len(ls) - depth

(***************************************************************************)
(* The paused expansions wait for a file below the top, each for another.  *)
(***************************************************************************)
Paused(fs, height) ==
    /\ \E F : fs \in Seq(F)
    /\ \A k \in 1 .. Len(fs) : /\ fs[k].lexerDepth = fs[k].owner
                              /\ fs[k].owner \in Nat /\ fs[k].owner < height
    /\ \A j, k \in 1 .. Len(fs) : j < k => fs[j].owner < fs[k].owner

StackInv ==
    /\ Sources(lexers, includeDepth)
    /\ \E G : guards \in Seq(G)
    /\ Len(guards) = Len(lexers)
    /\ expanded # <<>> => owner = Depth
    /\ Paused(frames, Depth)

LEMMA CountIncluded ==
    ASSUME NEW ls, NEW depth, Sources(ls, depth)
    PROVE  depth = Cardinality({ k \in DOMAIN ls : ls[k].included })
<1>1. Len(ls) \in Nat /\ DOMAIN ls = 1 .. Len(ls) /\ depth \in 0 .. Len(ls)
  BY DEF Sources
<1>2. { k \in DOMAIN ls : ls[k].included } = Len(ls) - depth + 1 .. Len(ls)
  BY <1>1 DEF Sources
<1>3. Cardinality(Len(ls) - depth + 1 .. Len(ls)) = depth
  <2>1. Len(ls) - depth + 1 \in Int /\ Len(ls) \in Int
    BY <1>1
  <2>2. Cardinality(Len(ls) - depth + 1 .. Len(ls)) =
          IF Len(ls) - depth + 1 > Len(ls) THEN 0 ELSE Len(ls) - (Len(ls) - depth + 1) + 1
    BY <2>1, FS_Interval
  <2>3. ASSUME NEW n \in Nat, NEW d \in 0 .. n
        PROVE  (IF n - d + 1 > n THEN 0 ELSE n - (n - d + 1) + 1) = d
    BY <2>3
  <2> QED
    BY <1>1, <2>2, <2>3
<1> QED
  BY <1>2, <1>3

\* A lexer goes on in its file.
LEMMA LexerMoves ==
    ASSUME NEW l, IsLexer(l), NEW p, NEW b
    PROVE  /\ IsLexer([l EXCEPT !.pos = p]) /\ [l EXCEPT !.pos = p].included = l.included
           /\ IsLexer([l EXCEPT !.begun = b]) /\ [l EXCEPT !.begun = b].included = l.included
<1>1. l = [file |-> l.file, pos |-> l.pos, included |-> l.included, begun |-> l.begun]
  BY DEF IsLexer
<1>2. /\ [l EXCEPT !.pos = p] = [file |-> l.file, pos |-> p, included |-> l.included,
                                  begun |-> l.begun]
      /\ [l EXCEPT !.begun = b] = [file |-> l.file, pos |-> l.pos, included |-> l.included,
                                    begun |-> b]
  BY <1>1
<1> QED
  BY <1>2 DEF IsLexer

LEMMA SourcesMove ==
    ASSUME NEW ls, NEW depth, Sources(ls, depth), ls # <<>>,
           NEW l, IsLexer(l), l.included = ls[Len(ls)].included
    PROVE  /\ Sources([ls EXCEPT ![Len(ls)] = l], depth)
           /\ Len([ls EXCEPT ![Len(ls)] = l]) = Len(ls)
           /\ [ls EXCEPT ![Len(ls)] = l] # <<>>
           /\ [ls EXCEPT ![Len(ls)] = l][Len(ls)] = l
<1> DEFINE new == [ls EXCEPT ![Len(ls)] = l]
<1>1. PICK L : ls \in Seq(L)
  BY DEF Sources
<1>2. Len(ls) \in Nat /\ Len(ls) # 0 /\ Len(ls) \in 1 .. Len(ls)
  BY <1>1, NotEmpty
<1>3. ls \in Seq(L \cup {l}) /\ l \in L \cup {l}
  BY <1>1, SeqMonotonic
<1>4. /\ new \in Seq(L \cup {l}) /\ Len(new) = Len(ls)
      /\ \A k \in 1 .. Len(ls) : new[k] = IF k = Len(ls) THEN l ELSE ls[k]
  BY <1>2, <1>3, ExceptSeq
<1>5. new # <<>>
  BY <1>2, <1>4, NotEmpty
<1> HIDE DEF new
<1>6. Sources(new, depth)
  BY <1>2, <1>4 DEF Sources
<1> QED
  BY <1>2, <1>4, <1>5, <1>6 DEF new

\* What taking an item does to the lexers.
LEMMA AdvancedKeeps ==
    ASSUME StackInv, HasItem
    PROVE  /\ Sources(Advanced, includeDepth)
           /\ Len(Advanced) = Len(lexers) /\ Len(lexers) \in Nat /\ Len(lexers) # 0
           /\ Advanced # <<>>
           /\ IsLexer(Advanced[Depth])
<1>1. PICK L : lexers \in Seq(L)
  BY DEF StackInv, Sources
<1>2. lexers # <<>> /\ Len(lexers) \in Nat /\ Len(lexers) # 0 /\ Len(lexers) \in 1 .. Len(lexers)
  BY <1>1, NotEmpty DEF HasItem
<1>3. IsLexer(lexers[Len(lexers)]) /\ Sources(lexers, includeDepth)
  BY <1>2 DEF StackInv, Sources
<1>4. CASE expanded # <<>>
  BY <1>2, <1>3, <1>4 DEF Advanced, Depth
<1>5. CASE expanded = <<>>
  <2> DEFINE l == [lexers[Len(lexers)] EXCEPT !.pos = lexers[Len(lexers)].pos + 1]
  <2>1. IsLexer(l) /\ l.included = lexers[Len(lexers)].included
    BY <1>3, LexerMoves
  <2>2. Advanced = [lexers EXCEPT ![Len(lexers)] = l]
    BY <1>5 DEF Advanced, Depth
  <2> HIDE DEF l
  <2> QED
    BY <1>2, <1>3, <2>1, <2>2, SourcesMove DEF Depth
<1> QED
  BY <1>4, <1>5

LEMMA BegunKeeps ==
    ASSUME StackInv, HasItem, NEW b
    PROVE  LET new == [Advanced EXCEPT ![Depth].begun = b]
           IN  Sources(new, includeDepth) /\ Len(new) = Len(lexers)
<1>1. /\ Sources(Advanced, includeDepth)
      /\ Len(Advanced) = Depth /\ Depth = Len(lexers)
      /\ Advanced # <<>> /\ IsLexer(Advanced[Depth])
  BY AdvancedKeeps DEF Depth
<1> DEFINE l == [Advanced[Depth] EXCEPT !.begun = b]
<1>2. IsLexer(l) /\ l.included = Advanced[Depth].included
  BY <1>1, LexerMoves
<1>3. [Advanced EXCEPT ![Depth].begun = b] = [Advanced EXCEPT ![Len(Advanced)] = l]
  BY <1>1
<1> HIDE DEF l
<1> QED
  BY <1>1, <1>2, <1>3, SourcesMove

\* The header guards of the files stay one for each.
LEMMA GuardsKeep ==
    ASSUME StackInv, HasItem, NEW kind
    PROVE  /\ \E G : Checked(kind) \in Seq(G)
           /\ Len(Checked(kind)) = Len(lexers)
           /\ \A g : /\ \E G : WithGuard(Checked(kind), g) \in Seq(G)
                     /\ Len(WithGuard(Checked(kind), g)) = Len(lexers)
<1>1. PICK G : guards \in Seq(G)
  BY DEF StackInv
<1>2. Len(guards) = Len(lexers) /\ Len(lexers) # 0 /\ guards # <<>>
  BY <1>1, NotEmpty, AdvancedKeeps DEF StackInv
<1>3. \A H, gs, g : gs \in Seq(H) /\ gs # <<>> =>
          /\ WithGuard(gs, g) \in Seq(H \cup {g})
          /\ WithGuard(gs, g) # <<>>
          /\ Len(WithGuard(gs, g)) = Len(gs)
  <2> SUFFICES ASSUME NEW H, NEW gs \in Seq(H), gs # <<>>, NEW g
               PROVE  /\ WithGuard(gs, g) \in Seq(H \cup {g})
                      /\ WithGuard(gs, g) # <<>>
                      /\ Len(WithGuard(gs, g)) = Len(gs)
    OBVIOUS
  <2>1. /\ WithTop(gs, g) \in Seq(H \cup {g})
        /\ WithTop(gs, g) # <<>>
        /\ Len(WithTop(gs, g)) = Len(gs)
    BY WithLastIsSeq
  <2>2. WithGuard(gs, g) = WithTop(gs, g)
    BY DEF WithGuard, WithTop
  <2> QED
    BY <2>1, <2>2
<1>4. PICK H : Checked(kind) \in Seq(H) /\ Checked(kind) # <<>>
               /\ Len(Checked(kind)) = Len(guards)
  <2> DEFINE cancelled == [Last(guards) EXCEPT !.state = "cancelled"]
  <2>1. Checked(kind) \in {guards, WithGuard(guards, cancelled)}
    BY DEF Checked
  <2> HIDE DEF cancelled
  <2>2. /\ WithGuard(guards, cancelled) \in Seq(G \cup {cancelled})
        /\ WithGuard(guards, cancelled) # <<>>
        /\ Len(WithGuard(guards, cancelled)) = Len(guards)
    BY <1>1, <1>2, <1>3
  <2>3. CASE Checked(kind) = guards
    BY <1>1, <1>2, <2>3
  <2>4. CASE Checked(kind) = WithGuard(guards, cancelled)
    BY <2>2, <2>4
  <2> QED
    BY <2>1, <2>3, <2>4
<1>5. ASSUME NEW g
      PROVE  /\ WithGuard(Checked(kind), g) \in Seq(H \cup {g})
             /\ Len(WithGuard(Checked(kind), g)) = Len(lexers)
  BY <1>2, <1>3, <1>4
<1> QED
  BY <1>2, <1>4, <1>5

\* An item is taken and no file begins or ends.
LEMMA TakenKeeps ==
    ASSUME StackInv, HasItem, Sources(lexers', includeDepth), Len(lexers') = Len(lexers),
           UNCHANGED <<includeDepth, frames>>,
           \E G : guards' \in Seq(G), Len(guards') = Len(lexers),
           expanded' # <<>> => owner' = Depth
    PROVE  StackInv'
  BY DEF StackInv, Depth

LEMMA TakeKeeps ==
    ASSUME StackInv, HasItem, lexers' = Advanced, expanded' = Rest,
           UNCHANGED <<includeDepth, owner, frames>>,
           \/ guards' = guards
           \/ \E kind : \/ guards' = Checked(kind)
                        \/ \E g : guards' = WithGuard(Checked(kind), g)
    PROVE  StackInv'
<1>1. expanded' # <<>> => owner' = Depth
  BY DEF Rest, StackInv
<1>2. (\E G : guards' \in Seq(G)) /\ Len(guards') = Len(lexers)
  BY GuardsKeep DEF StackInv
<1> QED
  BY <1>1, <1>2, AdvancedKeeps, TakenKeeps

\* A file begins, and pauses the expansion it is in.
LEMMA PushKeeps ==
    ASSUME StackInv, HasItem, includeDepth < MaxIncludeDepth, includeDepth' = includeDepth + 1,
           NEW file, PushSource(file)
    PROVE  StackInv'
<1> DEFINE l == Lexer(file, TRUE)
           paused == [items |-> Rest, owner |-> owner, lexerDepth |-> FrameDepth(Depth + 1)]
<1>1. PICK L : Advanced \in Seq(L)
  BY AdvancedKeeps DEF Sources
<1>2. /\ Sources(Advanced, includeDepth) /\ Len(Advanced) = Depth /\ Depth \in Nat
  BY AdvancedKeeps DEF Depth
<1>3. IsLexer(l) /\ l.included = TRUE
  BY DEF IsLexer, Lexer
<1>4. lexers' = Append(Advanced, l)
  BY DEF PushSource
<1> HIDE DEF l
<1>5. /\ lexers' \in Seq(L \cup {l}) /\ Len(lexers') = Depth + 1
      /\ \A k \in 1 .. Depth : lexers'[k] = Advanced[k]
      /\ lexers'[Depth + 1] = l
  BY <1>1, <1>2, <1>4, Pushed
<1>6. Sources(lexers', includeDepth')
  BY <1>2, <1>3, <1>5, PreprocessorOK DEF Sources
<1>7. (\E G : guards' \in Seq(G)) /\ Len(guards') = Depth + 1
  <2>1. PICK G : Checked("include") \in Seq(G)
    BY GuardsKeep
  <2>2. guards' = Append(Checked("include"), NewGuard(Len(branches)))
    BY DEF PushSource
  <2>3. Len(Checked("include")) = Depth
    BY GuardsKeep DEF Depth
  <2> DEFINE g == NewGuard(Len(branches))
  <2> HIDE DEF g
  <2>4. guards' = Append(Checked("include"), g)
    BY <2>2 DEF g
  <2> QED
    BY <2>1, <2>3, <2>4, Pushed
<1>8. Paused(frames, Depth)
  BY DEF StackInv
<1>9. Paused(frames', Depth + 1)
  <2>1. CASE Rest = <<>>
    <3>1. frames' = frames
      BY <2>1 DEF PushSource
    <3> QED
      BY <1>2, <1>8, <3>1 DEF Paused
  <2>2. CASE Rest # <<>>
    <3>1. owner = Depth
      BY <2>2 DEF StackInv, Rest
    <3>2. paused.owner = Depth /\ paused.lexerDepth = Depth
      BY <1>2, <3>1 DEF FrameDepth
    <3>3. frames' = Append(frames, paused)
      BY <2>2 DEF PushSource
    <3> HIDE DEF paused
    <3>4. PICK F : frames \in Seq(F)
      BY <1>8 DEF Paused
    <3>5. /\ Len(frames) \in Nat
          /\ frames' \in Seq(F \cup {paused}) /\ Len(frames') = Len(frames) + 1
          /\ \A k \in 1 .. Len(frames) : frames'[k] = frames[k]
          /\ frames'[Len(frames) + 1] = paused
      BY <3>3, <3>4, Pushed
    <3>6. \A k \in 1 .. Len(frames') : /\ frames'[k].lexerDepth = frames'[k].owner
                                       /\ frames'[k].owner \in Nat
                                       /\ frames'[k].owner < Depth + 1
      <4> SUFFICES ASSUME NEW k \in 1 .. Len(frames')
                   PROVE  /\ frames'[k].lexerDepth = frames'[k].owner
                          /\ frames'[k].owner \in Nat /\ frames'[k].owner < Depth + 1
        OBVIOUS
      <4>1. CASE k \in 1 .. Len(frames)
        BY <1>2, <1>8, <3>5, <4>1 DEF Paused
      <4>2. CASE k = Len(frames) + 1
        BY <1>2, <3>2, <3>5, <4>2
      <4> QED
        BY <3>5, <4>1, <4>2
    <3>7. \A j, k \in 1 .. Len(frames') : j < k => frames'[j].owner < frames'[k].owner
      <4> SUFFICES ASSUME NEW j \in 1 .. Len(frames'), NEW k \in 1 .. Len(frames'), j < k
                   PROVE  frames'[j].owner < frames'[k].owner
        OBVIOUS
      <4>1. CASE k \in 1 .. Len(frames)
        BY <1>8, <3>5, <4>1 DEF Paused
      <4>2. CASE k = Len(frames) + 1
        BY <1>8, <3>2, <3>5, <4>2 DEF Paused
      <4> QED
        BY <3>5, <4>1, <4>2
    <3> QED
      BY <3>5, <3>6, <3>7 DEF Paused
  <2> QED
    BY <2>1, <2>2
<1>10. expanded' = <<>>
  BY DEF PushSource
<1> QED
  BY <1>5, <1>6, <1>7, <1>9, <1>10 DEF StackInv, Depth

\* A file ends; the expansion that waits for the one below goes on.
LEMMA PopKeeps ==
    ASSUME StackInv, EndOfFile
    PROVE  StackInv'
<1>1. PICK L, G, F : lexers \in Seq(L) /\ guards \in Seq(G) /\ frames \in Seq(F)
  BY DEF StackInv, Sources, Paused
<1>2. /\ lexers # <<>> /\ expanded = <<>> /\ lexers' = Front(lexers) /\ guards' = Front(guards)
      /\ includeDepth' = IF includeDepth > 0 THEN includeDepth - 1 ELSE 0
  BY DEF EndOfFile, AtEnd
<1>3. /\ Len(lexers) \in Nat /\ Len(lexers) >= 1
      /\ lexers' \in Seq(L) /\ Len(lexers') = Len(lexers) - 1
      /\ \A k \in 1 .. Len(lexers) - 1 : lexers'[k] = lexers[k]
  BY <1>1, <1>2, Popped
<1>4. guards' \in Seq(G) /\ Len(guards') = Len(lexers) - 1
  <2>1. Len(guards) = Len(lexers) /\ guards # <<>>
    BY <1>1, <1>3, NotEmpty DEF StackInv
  <2> QED
    BY <1>1, <1>2, <2>1, Popped
<1>5. Sources(lexers', includeDepth')
  <2>1. /\ \A k \in 1 .. Len(lexers) : IsLexer(lexers[k])
        /\ includeDepth \in 0 .. Len(lexers) /\ includeDepth <= MaxIncludeDepth
        /\ \A k \in 1 .. Len(lexers) : lexers[k].included <=> k > Len(lexers) - includeDepth
    BY DEF StackInv, Sources
  <2>2. \A k \in 1 .. Len(lexers') : IsLexer(lexers'[k])
    BY <1>3, <2>1
  <2>3. includeDepth' \in 0 .. Len(lexers') /\ includeDepth' <= MaxIncludeDepth
    BY <1>2, <1>3, <2>1, PreprocessorOK
  <2>4. \A k \in 1 .. Len(lexers') : lexers'[k].included <=> k > Len(lexers') - includeDepth'
    BY <1>2, <1>3, <2>1
  <2> QED
    BY <1>3, <2>2, <2>3, <2>4 DEF Sources
<1>6. /\ \A k \in 1 .. Len(frames) : /\ frames[k].lexerDepth = frames[k].owner
                                     /\ frames[k].owner \in Nat
                                     /\ frames[k].owner < Len(lexers)
      /\ \A j, k \in 1 .. Len(frames) : j < k => frames[j].owner < frames[k].owner
  BY DEF StackInv, Paused, Depth
<1> DEFINE resumes == frames # <<>> /\ Len(Front(lexers)) = Last(frames).lexerDepth
<1>7. CASE resumes
  <2>1. /\ expanded' = Last(frames).items /\ owner' = Last(frames).owner
        /\ frames' = Front(frames) /\ frames # <<>>
        /\ Len(lexers') = Last(frames).lexerDepth
    BY <1>2, <1>7 DEF EndOfFile
  <2>2. /\ Len(frames) \in Nat /\ Len(frames) >= 1
        /\ frames' \in Seq(F) /\ Len(frames') = Len(frames) - 1
        /\ \A k \in 1 .. Len(frames) - 1 : frames'[k] = frames[k]
        /\ Last(frames) = frames[Len(frames)]
    BY <1>1, <2>1, Popped
  <2>3. Last(frames).owner = Len(lexers')
    BY <1>6, <2>1, <2>2
  <2>4. \A k \in 1 .. Len(frames') : /\ frames'[k].lexerDepth = frames'[k].owner
                                    /\ frames'[k].owner \in Nat
                                    /\ frames'[k].owner < Len(lexers')
    <3> SUFFICES ASSUME NEW k \in 1 .. Len(frames')
                 PROVE  /\ frames'[k].lexerDepth = frames'[k].owner
                        /\ frames'[k].owner \in Nat
                        /\ frames'[k].owner < Len(lexers')
      OBVIOUS
    <3>1. /\ k \in 1 .. Len(frames) /\ Len(frames) \in 1 .. Len(frames) /\ k < Len(frames)
          /\ frames'[k] = frames[k]
      BY <2>2
    <3> QED
      BY <1>6, <2>2, <2>3, <3>1
  <2>5. \A j, k \in 1 .. Len(frames') : j < k => frames'[j].owner < frames'[k].owner
    BY <1>6, <2>2
  <2>6. Paused(frames', Len(lexers'))
    BY <2>2, <2>4, <2>5 DEF Paused
  <2> QED
    BY <1>3, <1>4, <1>5, <2>1, <2>3, <2>6 DEF StackInv, Depth
<1>8. CASE ~resumes
  <2>1. UNCHANGED <<expanded, owner, frames>>
    BY <1>8 DEF EndOfFile, macroVars
  <2>2. \A k \in 1 .. Len(frames) : frames[k].owner < Len(lexers')
    <3> SUFFICES ASSUME NEW k \in 1 .. Len(frames) PROVE frames[k].owner < Len(lexers')
      OBVIOUS
    <3>1. frames # <<>> /\ Len(frames) \in Nat /\ Len(frames) \in 1 .. Len(frames)
      BY <1>1, NotEmpty
    <3>2. Last(frames).lexerDepth # Len(lexers')
      BY <1>2, <1>8, <3>1
    <3>3. Last(frames) = frames[Len(frames)]
      BY DEF Last
    <3>4. frames[Len(frames)].owner < Len(lexers')
      BY <1>3, <1>6, <3>1, <3>2, <3>3
    <3>5. k = Len(frames) \/ frames[k].owner < frames[Len(frames)].owner
      BY <1>6, <3>1
    <3> QED
      BY <1>3, <1>6, <3>1, <3>4, <3>5
  <2>3. Paused(frames', Len(lexers'))
    BY <1>1, <1>6, <2>1, <2>2 DEF Paused
  <2> QED
    BY <1>2, <1>3, <1>4, <1>5, <2>1, <2>3 DEF StackInv, Depth
<1> QED
  BY <1>7, <1>8

LEMMA StackInit == Init => StackInv
<1> SUFFICES ASSUME Init PROVE StackInv
  OBVIOUS
<1>1. PICK program \in Programs :
          LET sources == Reverse(program.sources)
          IN  /\ lexers = [k \in DOMAIN sources |-> Lexer(sources[k], FALSE)]
              /\ guards = [k \in DOMAIN sources |-> NewGuard(0)]
  BY DEF Init
<1> DEFINE sources == Reverse(program.sources)
           n == Len(program.sources)
<1>2. n \in Nat /\ DOMAIN sources = 1 .. n
  BY PreprocessorOK DEF Reverse
<1> HIDE DEF sources, n
<1>3. \A k \in 1 .. n : IsLexer(lexers[k]) /\ lexers[k].included = FALSE
  BY <1>1, <1>2 DEF sources, IsLexer, Lexer
<1>4. \E L : lexers \in Seq(L)
  <2> DEFINE L == { lexers[k] : k \in 1 .. n }
  <2>1. lexers \in [1 .. n -> L]
    BY <1>1, <1>2 DEF sources
  <2> QED
    BY <1>2, <2>1, SeqDef
<1>5. \E G : guards \in Seq(G)
  <2> DEFINE G == { NewGuard(0) }
  <2>1. guards \in [1 .. n -> G]
    BY <1>1, <1>2 DEF sources
  <2> QED
    BY <1>2, <2>1, SeqDef
<1>6. DOMAIN lexers = 1 .. n /\ DOMAIN guards = 1 .. n
  BY <1>1, <1>2 DEF sources
<1>7. Len(lexers) = n /\ Len(guards) = n
  BY <1>2, <1>4, <1>5, <1>6, LenProperties
<1>8. Sources(lexers, 0)
  BY <1>2, <1>3, <1>4, <1>7, PreprocessorOK DEF Sources
<1>9. Paused(<<>>, n)
  <2>1. (\A F : <<>> \in Seq(F)) /\ Len(<<>>) = 0
    OBVIOUS
  <2> QED
    BY <2>1 DEF Paused
<1> QED
  BY <1>5, <1>7, <1>8, <1>9 DEF Init, StackInv, Depth

LEMMA StackStep == StackInv /\ [Next]_vars => StackInv'
<1> SUFFICES ASSUME StackInv, [Next]_vars PROVE StackInv'
  OBVIOUS
<1>1. CASE Token
  BY <1>1, TakeKeeps DEF Token, Take, Handles
<1>2. CASE IfDef
  BY <1>2, TakeKeeps DEF IfDef, Take, Handles
<1>3. CASE ElseBranch
  BY <1>3, TakeKeeps DEF ElseBranch, Take, Handles
<1>4. CASE EndIf
  BY <1>4, TakeKeeps DEF EndIf, Take, Handles
<1>5. CASE Skip
  <2>1. CASE StopsSkipping(Item.kind)
    BY <1>5, <2>1 DEF Skip, PutBack, macroVars, StackInv, Depth
  <2>2. CASE ~StopsSkipping(Item.kind)
    BY <1>5, <2>2, TakeKeeps DEF Skip
  <2> QED
    BY <2>1, <2>2
<1>6. CASE Define
  BY <1>6, TakeKeeps DEF Define, Take, Handles
<1>7. CASE Undef \/ UndefineAll \/ Once
  BY <1>7, TakeKeeps DEF Undef, UndefineAll, Once, Take, Handles
<1>8. CASE MacroUsage
  <2>1. HasItem /\ guards' = Checked("use") /\ lexers' = Advanced
        /\ UNCHANGED <<includeDepth, frames>>
    BY <1>8 DEF MacroUsage, Handles
  <2>2. CASE UNCHANGED owner /\ expanded' = Rest
    BY <2>1, <2>2, TakeKeeps
  <2>3. CASE owner' = Depth
    BY <2>1, <2>3, AdvancedKeeps, GuardsKeep, TakenKeeps
  <2> QED
    BY <1>8, <2>2, <2>3 DEF MacroUsage
<1>9. CASE Include
  <2>1. HasItem
    BY <1>9 DEF Include, Handles
  <2>2. CASE includeDepth < MaxIncludeDepth /\ Item.name \in Files /\ ~IncludedOnce(Item.name)
    BY <1>9, <2>1, <2>2, PushKeeps DEF Include
  <2>3. CASE ~(includeDepth < MaxIncludeDepth /\ Item.name \in Files /\ ~IncludedOnce(Item.name))
    BY <1>9, <2>1, <2>3, TakeKeeps DEF Include, Take
  <2> QED
    BY <2>2, <2>3
<1>10. CASE BeginKeywords
  <2>1. /\ HasItem /\ expanded' = Rest /\ UNCHANGED <<owner, frames, includeDepth>>
        /\ guards' = Checked("begin_keywords")
    BY <1>10 DEF BeginKeywords, Handles, Take
  <2>2. CASE Take
    BY <2>1, <2>2, TakeKeeps DEF Take
  <2>3. CASE \E b : lexers' = [Advanced EXCEPT ![Depth].begun = b]
    <3>1. Sources(lexers', includeDepth) /\ Len(lexers') = Len(lexers)
      BY <2>1, <2>3, BegunKeeps
    <3>2. expanded' # <<>> => owner' = Depth
      BY <2>1 DEF Rest, StackInv
    <3> QED
      BY <2>1, <3>1, <3>2, GuardsKeep, TakenKeeps
  <2> QED
    BY <1>10, <2>2, <2>3 DEF BeginKeywords
<1>11. CASE EndKeywords
  <2>1. /\ HasItem /\ expanded' = Rest /\ UNCHANGED <<owner, frames, includeDepth>>
        /\ \E b : lexers' = [Advanced EXCEPT ![Depth].begun = b]
        /\ guards' = Checked("end_keywords")
    BY <1>11 DEF EndKeywords, Handles
  <2>2. Sources(lexers', includeDepth) /\ Len(lexers') = Len(lexers)
    BY <2>1, BegunKeeps
  <2>3. expanded' # <<>> => owner' = Depth
    BY <2>1 DEF Rest, StackInv
  <2> QED
    BY <2>1, <2>2, <2>3, GuardsKeep, TakenKeeps
<1>12. CASE EndOfFile
  BY <1>12, PopKeeps
<1>13. CASE UNCHANGED vars
  BY <1>13 DEF vars, sourceVars, macroVars, StackInv, Depth
<1> QED
  BY <1>1, <1>2, <1>3, <1>4, <1>5, <1>6, <1>7, <1>8, <1>9, <1>10, <1>11, <1>12, <1>13 DEF Next

(***************************************************************************)
(* For any files, macros and limit: includeDepth is the number of included *)
(* files being read and never above the limit, every file has its header   *)
(* guard state, and an expansion paused by an `include goes on in the file *)
(* that used the macro and nowhere else.                                   *)
(***************************************************************************)
THEOREM StacksStayAligned == Spec => []StacksAligned
<1>1. StackInv => StacksAligned
  <2> SUFFICES ASSUME StackInv PROVE StacksAligned
    OBVIOUS
  <2>1. includeDepth = Cardinality({ k \in DOMAIN lexers : lexers[k].included })
    BY CountIncluded DEF StackInv
  <2>2. PICK F : frames \in Seq(F)
    BY DEF StackInv, Paused
  <2>3. DOMAIN frames = 1 .. Len(frames) /\ Len(frames) \in Nat
    BY <2>2, LenProperties
  <2>4. ASSUME NEW k \in DOMAIN frames
        PROVE  /\ frames[k].lexerDepth = frames[k].owner
               /\ frames[k].owner < Depth
               /\ k > 1 => frames[k - 1].owner < frames[k].owner
    <3>1. k \in 1 .. Len(frames)
      BY <2>3
    <3>2. k > 1 => k - 1 \in 1 .. Len(frames) /\ k - 1 < k
      BY <2>3, <3>1
    <3> QED
      BY <3>1, <3>2 DEF StackInv, Paused
  <2> QED
    BY <2>1, <2>4 DEF StackInv, Sources, StacksAligned
<1> QED
  BY <1>1, StackInit, StackStep, PTL DEF Spec
-----------------------------------------------------------------------------
(***************************************************************************)
(* Conditional directives.  The branches are the first of the nesting, and *)
(* a branch is active where everything up to it is on; its chain has been  *)
(* taken, where its parents are on, when a condition of the chain held.    *)
(***************************************************************************)
AllOn(ne, k) == \A j \in 1 .. k : ne[j].on

BranchFollows(branch, met, on, parentsOn) ==
    /\ branch.currentActive => on
    /\ on => branch.currentActive
    /\ parentsOn /\ branch.anyTaken => met.done
    /\ parentsOn /\ met.done => branch.anyTaken

Matches(br, ne) ==
    \A k \in 1 .. Len(br) : BranchFollows(br[k], ne[k], AllOn(ne, k), AllOn(ne, k - 1))

LEMMA AllOnStep ==
    ASSUME NEW ne, NEW k \in Nat, k >= 1
    PROVE  AllOn(ne, k) <=> AllOn(ne, k - 1) /\ ne[k].on
<1>1. \A j : j \in 1 .. k <=> j \in 1 .. k - 1 \/ j = k
  OBVIOUS
<1> QED
  BY <1>1 DEF AllOn

LEMMA AllOnSame ==
    ASSUME NEW ne, NEW me, NEW n \in Nat, \A j \in 1 .. n : me[j] = ne[j]
    PROVE  \A k \in 0 .. n : AllOn(me, k) <=> AllOn(ne, k)
<1> SUFFICES ASSUME NEW k \in 0 .. n PROVE AllOn(me, k) <=> AllOn(ne, k)
  OBVIOUS
<1>1. \A j \in 1 .. k : me[j] = ne[j]
  OBVIOUS
<1> QED
  BY <1>1 DEF AllOn

\* What is met above the branches does not matter to them.
LEMMA MatchesSame ==
    ASSUME NEW br, Len(br) \in Nat, NEW ne, NEW me, Matches(br, ne),
           \A j \in 1 .. Len(br) : me[j] = ne[j]
    PROVE  Matches(br, me)
<1> SUFFICES ASSUME NEW k \in 1 .. Len(br)
             PROVE  BranchFollows(br[k], me[k], AllOn(me, k), AllOn(me, k - 1))
  BY DEF Matches
<1>1. (AllOn(me, k) <=> AllOn(ne, k)) /\ (AllOn(me, k - 1) <=> AllOn(ne, k - 1))
  BY AllOnSame
<1>2. BranchFollows(br[k], ne[k], AllOn(ne, k), AllOn(ne, k - 1))
  BY DEF Matches
<1> QED
  BY <1>1, <1>2 DEF BranchFollows

\* The last branch or a new one, with what is met for it.
LEMMA MatchesTop ==
    ASSUME NEW br, NEW ne, NEW n \in Nat, Matches(br, ne), n <= Len(br), Len(br) \in Nat,
           NEW cr, Len(cr) = n + 1, \A j \in 1 .. n : cr[j] = br[j],
           NEW me, \A j \in 1 .. n : me[j] = ne[j],
           cr[n + 1].currentActive => AllOn(ne, n) /\ me[n + 1].on,
           AllOn(ne, n) /\ me[n + 1].on => cr[n + 1].currentActive,
           AllOn(ne, n) /\ cr[n + 1].anyTaken => me[n + 1].done,
           AllOn(ne, n) /\ me[n + 1].done => cr[n + 1].anyTaken
    PROVE  /\ Matches(cr, me)
           /\ cr[n + 1].currentActive => AllOn(me, n + 1)
           /\ AllOn(me, n + 1) => cr[n + 1].currentActive
<1>1. \A k \in 0 .. n : AllOn(me, k) <=> AllOn(ne, k)
  BY AllOnSame
<1>2. AllOn(me, n + 1) <=> AllOn(me, n + 1 - 1) /\ me[n + 1].on
  BY AllOnStep
<1>3. n + 1 - 1 = n /\ n \in 0 .. n
  OBVIOUS
<1>4. AllOn(me, n + 1) <=> AllOn(ne, n) /\ me[n + 1].on
  BY <1>1, <1>2, <1>3
<1>5. ASSUME NEW k \in 1 .. n + 1
      PROVE  BranchFollows(cr[k], me[k], AllOn(me, k), AllOn(me, k - 1))
  <2>1. CASE k = n + 1
    BY <1>1, <1>3, <1>4, <2>1 DEF BranchFollows
  <2>2. CASE k \in 1 .. n
    <3>1. k \in 1 .. Len(br) /\ k \in 0 .. n /\ k - 1 \in 0 .. n
      BY <2>2
    <3>2. BranchFollows(br[k], ne[k], AllOn(ne, k), AllOn(ne, k - 1))
      BY <3>1 DEF Matches
    <3>3. (AllOn(me, k) <=> AllOn(ne, k)) /\ (AllOn(me, k - 1) <=> AllOn(ne, k - 1))
      BY <1>1, <3>1
    <3> QED
      BY <2>2, <3>2, <3>3 DEF BranchFollows
  <2> QED
    BY <2>1, <2>2
<1> QED
  BY <1>4, <1>5 DEF Matches

\* Without the last branch.
LEMMA MatchesPop ==
    ASSUME NEW br, NEW ne, NEW n \in Nat, Len(br) = n + 1, Matches(br, ne),
           NEW cr, Len(cr) = n, \A j \in 1 .. n : cr[j] = br[j],
           NEW me, \A j \in 1 .. n : me[j] = ne[j]
    PROVE  Matches(cr, me)
<1> SUFFICES ASSUME NEW k \in 1 .. n
             PROVE  BranchFollows(cr[k], me[k], AllOn(me, k), AllOn(me, k - 1))
  BY DEF Matches
<1>1. k \in 1 .. Len(br) /\ k \in 0 .. n /\ k - 1 \in 0 .. n
  OBVIOUS
<1>2. (AllOn(me, k) <=> AllOn(ne, k)) /\ (AllOn(me, k - 1) <=> AllOn(ne, k - 1))
  BY <1>1, AllOnSame
<1>3. BranchFollows(br[k], ne[k], AllOn(ne, k), AllOn(ne, k - 1))
  BY <1>1 DEF Matches
<1> QED
  BY <1>2, <1>3 DEF BranchFollows

\* Where the branches match, the last one says whether everything is on.
LEMMA TopActive ==
    ASSUME NEW B, NEW br \in Seq(B), NEW ne, Matches(br, ne)
    PROVE  /\ br = <<>> \/ Last(br).currentActive => AllOn(ne, Len(br))
           /\ AllOn(ne, Len(br)) => br = <<>> \/ Last(br).currentActive
<1>1. CASE br = <<>>
  <2>1. Len(br) = 0
    BY <1>1, NotEmpty
  <2>2. AllOn(ne, Len(br))
    BY <2>1 DEF AllOn
  <2> QED
    BY <1>1, <2>2
<1>2. CASE br # <<>>
  <2>1. PICK n \in Nat : Len(br) = n + 1 /\ Last(br) = br[n + 1]
    BY <1>2, Height
  <2>2. BranchFollows(br[n + 1], ne[n + 1], AllOn(ne, n + 1), AllOn(ne, n + 1 - 1))
    BY <2>1 DEF Matches
  <2> QED
    BY <1>2, <2>1, <2>2 DEF BranchFollows
<1> QED
  BY <1>1, <1>2

(***************************************************************************)
(* The inductive invariant.  Between the end of what is skipped and the    *)
(* directive that ends it, that directive is the next item.                *)
(***************************************************************************)
Siblings == {"endif", "else", "elsif"}

Pending == HasItem /\ Item.kind \in Siblings

InPlace == lexers # <<>> /\ "UnexpectedConditionalDirective" \notin diags

BranchesFollow ==
    /\ Len(nesting) = Len(branches) + nested
    /\ Matches(branches, nesting)
    /\ skipping => branches # <<>> /\ ~AllOn(nesting, Len(branches))
    /\ ~skipping => nested = 0 /\ (AllOn(nesting, Len(nesting)) \/ Pending)

LiveInv ==
    /\ \E B : branches \in Seq(B)
    /\ \E N : nesting \in Seq(N)
    /\ nested \in Nat /\ skipping \in BOOLEAN
    /\ InPlace => BranchesFollow

LEMMA LiveInit == Init => LiveInv
<1> SUFFICES ASSUME Init PROVE LiveInv
  OBVIOUS
<1>1. (\A S : <<>> \in Seq(S)) /\ Len(<<>>) = 0
  OBVIOUS
<1>2. branches = <<>> /\ nesting = <<>> /\ nested = 0 /\ skipping = FALSE
  BY DEF Init
<1>3. Matches(<<>>, <<>>) /\ AllOn(<<>>, 0)
  BY <1>1 DEF Matches, AllOn
<1>4. BranchesFollow
  <2>1. Len(nesting) = 0 /\ Len(branches) = 0 /\ ~skipping /\ nested = 0
    BY <1>1, <1>2
  <2>2. Matches(branches, nesting) /\ AllOn(nesting, Len(nesting))
    BY <1>1, <1>2, <1>3
  <2> QED
    BY <2>1, <2>2 DEF BranchesFollow
<1>5. (\E B : branches \in Seq(B)) /\ (\E N : nesting \in Seq(N))
  BY <1>1, <1>2
<1> QED
  BY <1>2, <1>4, <1>5 DEF LiveInv

\* An item that is not about branches.
LEMMA TextKeeps ==
    ASSUME LiveInv, HasItem, ~skipping, Item.kind \notin Siblings,
           UNCHANGED branchVars, diags \subseteq diags'
    PROVE  LiveInv'
<1>1. InPlace' => BranchesFollow'
  <2> SUFFICES ASSUME InPlace' PROVE BranchesFollow'
    OBVIOUS
  <2>1. InPlace /\ ~Pending
    BY DEF InPlace, HasItem, Pending
  <2>2. nested = 0 /\ AllOn(nesting, Len(nesting)) /\ Len(nesting) = Len(branches) + nested
        /\ Matches(branches, nesting)
    BY <2>1 DEF LiveInv, BranchesFollow
  <2> QED
    BY <2>2 DEF BranchesFollow, branchVars
<1> QED
  BY <1>1 DEF LiveInv, branchVars

\* Where the parser gets text, everything met is on.
LEMMA LiveAt ==
    ASSUME LiveInv, InPlace, ~skipping
    PROVE  /\ nested = 0 /\ Len(nesting) = Len(branches) /\ Len(branches) \in Nat
           /\ Matches(branches, nesting)
           /\ ~Pending => AllOn(nesting, Len(branches))
  BY LenProperties DEF LiveInv, BranchesFollow

LEMMA IfDefKeeps ==
    ASSUME LiveInv, IfDef
    PROVE  LiveInv'
<1> DEFINE holds == IsDefined(Item.name) # (Item.kind = "ifndef")
           taken == Active /\ holds
           b == Branch(taken)
           e == [on |-> holds, done |-> holds]
<1>1. /\ HasItem /\ ~skipping /\ Item.kind \in {"ifdef", "ifndef"}
      /\ branches' = Append(branches, b) /\ nested' = 0 /\ skipping' = ~taken
      /\ nesting' = Follow(Item) /\ diags' = diags
  BY DEF IfDef, Handles, TakeBranch
<1>2. nesting' = Append(nesting, e)
  BY <1>1 DEF Follow, FollowIn
<1>3. PICK B, N : branches \in Seq(B) /\ nesting \in Seq(N)
  BY DEF LiveInv
<1>4. /\ b.currentActive = taken /\ b.anyTaken = taken
      /\ e.on = holds /\ e.done = holds
      /\ taken \in BOOLEAN /\ holds \in BOOLEAN
  BY DEF Branch
<1>5. Active <=> branches = <<>> \/ Last(branches).currentActive
  BY DEF Active
<1> HIDE DEF b, e
<1>6. /\ Len(branches) \in Nat /\ branches' \in Seq(B \cup {b})
      /\ Len(branches') = Len(branches) + 1 /\ branches' # <<>>
      /\ \A k \in 1 .. Len(branches) : branches'[k] = branches[k]
      /\ branches'[Len(branches) + 1] = b
  BY <1>1, <1>3, Pushed
<1>7. /\ Len(nesting) \in Nat /\ nesting' \in Seq(N \cup {e})
      /\ Len(nesting') = Len(nesting) + 1
      /\ \A k \in 1 .. Len(nesting) : nesting'[k] = nesting[k]
      /\ nesting'[Len(nesting) + 1] = e
  BY <1>2, <1>3, Pushed
<1>8. InPlace' => BranchesFollow'
  <2> SUFFICES ASSUME InPlace' PROVE BranchesFollow'
    OBVIOUS
  <2>1. InPlace /\ ~Pending
    BY <1>1 DEF InPlace, HasItem, Pending, Siblings
  <2>2. /\ Len(nesting) = Len(branches)
        /\ Matches(branches, nesting) /\ AllOn(nesting, Len(branches))
    BY <1>1, <2>1, LiveAt
  <2>3. Active
    BY <1>3, <1>5, <2>2, TopActive
  <2>4. taken <=> holds
    BY <2>3
  <2> HIDE DEF taken, holds
  <2>5. /\ Matches(branches', nesting')
        /\ branches'[Len(branches) + 1].currentActive => AllOn(nesting', Len(branches) + 1)
        /\ AllOn(nesting', Len(branches) + 1) => branches'[Len(branches) + 1].currentActive
    BY <1>4, <1>6, <1>7, <2>2, <2>4, MatchesTop
  <2>6. taken <=> AllOn(nesting', Len(branches'))
    BY <1>4, <1>6, <2>5
  <2>7. Len(nesting') = Len(branches') /\ Len(branches') + 0 = Len(branches')
    BY <1>6, <1>7, <2>2
  <2> QED
    BY <1>1, <1>6, <2>5, <2>6, <2>7 DEF BranchesFollow
<1> QED
  BY <1>1, <1>6, <1>7, <1>8 DEF LiveInv

LEMMA ElseKeeps ==
    ASSUME LiveInv, ElseBranch
    PROVE  LiveInv'
<1>1. /\ HasItem /\ ~skipping /\ Item.kind \in {"elsif", "else"} /\ nested' = 0
      /\ nesting' = Follow(Item)
  BY DEF ElseBranch, Handles, TakeBranch
<1>2. PICK B, N : branches \in Seq(B) /\ nesting \in Seq(N)
  BY DEF LiveInv
<1> DEFINE last == Last(nesting)
           holds == IF Item.kind = "else" THEN TRUE
                    ELSE IsDefined(Item.name) # (Item.kind = "ifndef")
           e == [on |-> ~last.done /\ holds, done |-> last.done \/ holds]
<1>3. nesting' = IF nesting # <<>> THEN WithTop(nesting, e) ELSE nesting
  BY <1>1 DEF Follow, FollowIn, WithTop
<1>4. /\ holds <=> (Item.kind = "else" \/ IsDefined(Item.name))
      /\ holds \in BOOLEAN
  BY <1>1 DEF IsDefined
<1>5. /\ e.on => ~last.done /\ holds
      /\ ~last.done /\ holds => e.on
      /\ e.done => last.done \/ holds
      /\ last.done \/ holds => e.done
  OBVIOUS
<1> HIDE DEF e, holds
<1>6. \E M : nesting' \in Seq(M)
  <2>1. CASE nesting = <<>>
    BY <1>2, <1>3, <2>1
  <2>2. CASE nesting # <<>>
    BY <1>2, <1>3, <2>2, WithLastIsSeq
  <2> QED
    BY <2>1, <2>2
<1>7. CASE branches = <<>> \/ Last(branches).hasElse
  <2>1. /\ "UnexpectedConditionalDirective" \in diags' /\ branches' = branches
        /\ skipping' = FALSE
    BY <1>7 DEF ElseBranch, Report, TakeBranch
  <2> QED
    BY <1>1, <1>2, <1>6, <2>1 DEF LiveInv, InPlace
<1>8. CASE ~(branches = <<>> \/ Last(branches).hasElse)
  <2> DEFINE branch == Last(branches)
             parent == Len(branches) = 1 \/ branches[Len(branches) - 1].currentActive
             taken == ShouldTakeElse(branch, parent, Item.kind = "else" \/ IsDefined(Item.name))
             b == [anyTaken |-> branch.anyTaken \/ taken, currentActive |-> taken,
                   hasElse |-> Item.kind = "else"]
  <2>1. /\ branches # <<>> /\ branches' = WithTop(branches, b)
        /\ skipping' = ~taken /\ diags' = diags
    BY <1>8 DEF ElseBranch, TakeBranch, WithTop
  <2>2. /\ taken => ~branch.anyTaken /\ parent /\ holds
        /\ ~branch.anyTaken /\ parent /\ holds => taken
        /\ taken \in BOOLEAN
    BY <1>4 DEF ShouldTakeElse
  <2>3. /\ b.currentActive => taken
        /\ taken => b.currentActive
        /\ b.anyTaken => branch.anyTaken \/ taken
        /\ branch.anyTaken \/ taken => b.anyTaken
    OBVIOUS
  <2> HIDE DEF b, taken
  <2>4. PICK n \in Nat : Len(branches) = n + 1 /\ branch = branches[n + 1]
    BY <1>2, <2>1, Height
  <2>5. /\ branches' \in Seq(B \cup {b}) /\ branches' # <<>> /\ Len(branches') = n + 1
        /\ \A k \in 1 .. n : branches'[k] = branches[k]
        /\ branches'[n + 1] = b
    BY <1>2, <2>1, <2>4, WithLast, WithLastIsSeq
  <2>6. InPlace' => BranchesFollow'
    <3> SUFFICES ASSUME InPlace' PROVE BranchesFollow'
      OBVIOUS
    <3>1. InPlace
      BY <1>1, <2>1 DEF InPlace, HasItem
    <3>2. Len(nesting) = n + 1 /\ Matches(branches, nesting)
      BY <1>1, <2>4, <3>1, LiveAt
    <3>3. nesting # <<>>
      BY <1>2, <2>4, <3>2, NotEmpty
    <3>4. /\ Len(nesting') = n + 1
          /\ \A k \in 1 .. n : nesting'[k] = nesting[k]
          /\ nesting'[n + 1] = e
          /\ last = nesting[n + 1]
      <4>1. nesting' = WithTop(nesting, e)
        BY <1>3, <3>3
      <4> QED
        BY <1>2, <3>2, <4>1, WithLast DEF Last
    <3>5. BranchFollows(branches[n + 1], nesting[n + 1],
                        AllOn(nesting, n + 1), AllOn(nesting, n + 1 - 1))
      BY <2>4, <3>2 DEF Matches
    <3>6. n + 1 - 1 = n
      BY <2>4
    <3>7. (parent => AllOn(nesting, n)) /\ (AllOn(nesting, n) => parent)
      <4>1. CASE n = 0
        <5>1. Len(branches) = 1
          BY <2>4, <4>1
        <5>2. AllOn(nesting, n)
          BY <4>1 DEF AllOn
        <5> QED
          BY <5>1, <5>2
      <4>2. CASE n # 0
        <5>0. n \in 1 .. n + 1 /\ n + 1 # 1 /\ n + 1 - 1 = n
          BY <4>2
        <5>1. n \in 1 .. Len(branches) /\ Len(branches) # 1 /\ Len(branches) - 1 = n
          BY <2>4, <4>2, <5>0
        <5>2. BranchFollows(branches[n], nesting[n], AllOn(nesting, n), AllOn(nesting, n - 1))
          BY <3>2, <5>1 DEF Matches
        <5> QED
          BY <5>1, <5>2 DEF BranchFollows
      <4> QED
        BY <4>1, <4>2
    <3> HIDE DEF parent
    <3>8. /\ AllOn(nesting, n) /\ branch.anyTaken => last.done
          /\ AllOn(nesting, n) /\ last.done => branch.anyTaken
      BY <2>4, <3>4, <3>5, <3>6 DEF BranchFollows
    <3> HIDE DEF branch, last
    <3>9. /\ b.currentActive => AllOn(nesting, n) /\ e.on
          /\ AllOn(nesting, n) /\ e.on => b.currentActive
          /\ AllOn(nesting, n) /\ b.anyTaken => e.done
          /\ AllOn(nesting, n) /\ e.done => b.anyTaken
      <4>1. b.currentActive => AllOn(nesting, n) /\ e.on
        BY <1>5, <2>2, <2>3, <3>7, <3>8
      <4>2. AllOn(nesting, n) /\ e.on => b.currentActive
        BY <1>5, <2>2, <2>3, <3>7, <3>8
      <4>3. AllOn(nesting, n) /\ b.anyTaken => e.done
        BY <1>5, <2>2, <2>3, <3>7, <3>8
      <4>4. AllOn(nesting, n) /\ e.done => b.anyTaken
        BY <1>5, <2>2, <2>3, <3>7, <3>8
      <4> QED
        BY <4>1, <4>2, <4>3, <4>4
    <3>11. /\ Matches(branches', nesting')
           /\ branches'[n + 1].currentActive => AllOn(nesting', n + 1)
           /\ AllOn(nesting', n + 1) => branches'[n + 1].currentActive
      <4>1. /\ branches'[n + 1].currentActive => AllOn(nesting, n) /\ nesting'[n + 1].on
            /\ AllOn(nesting, n) /\ nesting'[n + 1].on => branches'[n + 1].currentActive
            /\ AllOn(nesting, n) /\ branches'[n + 1].anyTaken => nesting'[n + 1].done
            /\ AllOn(nesting, n) /\ nesting'[n + 1].done => branches'[n + 1].anyTaken
        BY <2>5, <3>4, <3>9
      <4>0. n <= Len(branches) /\ Len(branches) \in Nat
        BY <2>4
      <4>2. /\ Matches(branches, nesting) /\ Len(branches') = n + 1
            /\ \A j \in 1 .. n : branches'[j] = branches[j]
            /\ \A j \in 1 .. n : nesting'[j] = nesting[j]
        BY <3>2, <3>4, <2>5
      <4> HIDE DEF Matches, AllOn
      <4> QED
        BY <2>4, <4>0, <4>1, <4>2, MatchesTop
    <3>12. (taken => AllOn(nesting', n + 1)) /\ (AllOn(nesting', n + 1) => taken)
      BY <2>3, <2>5, <3>11
    <3>13. n + 1 + 0 = n + 1
      BY <2>4
    <3> QED
      BY <1>1, <2>1, <2>5, <3>4, <3>11, <3>12, <3>13 DEF BranchesFollow
  <2> QED
    BY <1>1, <1>6, <2>1, <2>2, <2>5, <2>6 DEF LiveInv
<1> QED
  BY <1>7, <1>8

LEMMA EndIfKeeps ==
    ASSUME LiveInv, EndIf
    PROVE  LiveInv'
<1>1. /\ HasItem /\ ~skipping /\ Item.kind = "endif" /\ nested' = 0
      /\ nesting' = IF nesting # <<>> THEN Front(nesting) ELSE nesting
  BY DEF EndIf, Handles, TakeBranch, Follow, FollowIn
<1>2. PICK B, N : branches \in Seq(B) /\ nesting \in Seq(N)
  BY DEF LiveInv
<1>3. \E M : nesting' \in Seq(M)
  <2>1. CASE nesting = <<>>
    BY <1>1, <1>2, <2>1
  <2>2. CASE nesting # <<>>
    BY <1>1, <1>2, <2>2, Popped
  <2> QED
    BY <2>1, <2>2
<1>4. CASE branches = <<>>
  <2>1. /\ "UnexpectedConditionalDirective" \in diags' /\ branches' = branches
        /\ skipping' = FALSE
    BY <1>4 DEF EndIf, Report, TakeBranch
  <2> QED
    BY <1>1, <1>2, <1>3, <2>1 DEF LiveInv, InPlace
<1>5. CASE branches # <<>>
  <2> DEFINE left == Front(branches)
             taken == left = <<>> \/ Last(left).currentActive
  <2>1. branches' = left /\ skipping' = ~taken /\ diags' = diags
    BY <1>5 DEF EndIf, TakeBranch
  <2>2. PICK n \in Nat : Len(branches) = n + 1
    BY <1>2, <1>5, Height
  <2>3. n + 1 - 1 = n
    BY <2>2
  <2>4. left \in Seq(B) /\ Len(left) = n /\ \A k \in 1 .. n : left[k] = branches[k]
    BY <1>2, <1>5, <2>2, <2>3, Popped
  <2> HIDE DEF left
  <2>5. InPlace' => BranchesFollow'
    <3> SUFFICES ASSUME InPlace' PROVE BranchesFollow'
      OBVIOUS
    <3>1. InPlace
      BY <1>1, <2>1 DEF InPlace, HasItem
    <3>2. Len(nesting) = n + 1 /\ Matches(branches, nesting)
      BY <1>1, <2>2, <3>1, LiveAt
    <3>3. nesting # <<>>
      BY <1>2, <2>2, <3>2, NotEmpty
    <3>4. Len(nesting') = n /\ \A k \in 1 .. n : nesting'[k] = nesting[k]
      BY <1>1, <1>2, <2>2, <2>3, <3>2, <3>3, Popped
    <3>5. Matches(left, nesting')
      BY <2>2, <2>4, <3>2, <3>4, MatchesPop
    <3>6. (taken => AllOn(nesting', n)) /\ (AllOn(nesting', n) => taken)
      BY <2>4, <3>5, TopActive
    <3>7. ~taken => left # <<>>
      OBVIOUS
    <3> HIDE DEF taken
    <3>8. n + 0 = n
      BY <2>2
    <3> QED
      BY <1>1, <2>1, <2>4, <3>4, <3>5, <3>6, <3>7, <3>8 DEF BranchesFollow
  <2>6. taken \in BOOLEAN => skipping' \in BOOLEAN
    BY <2>1
  <2> QED
    BY <1>1, <1>3, <2>1, <2>4, <2>5 DEF LiveInv
<1> QED
  BY <1>4, <1>5

\* What is met above the branches while they skip.
LEMMA SkippedKeeps ==
    ASSUME LiveInv, HasItem, skipping, UNCHANGED <<branches, skipping, diags>>,
           nested' \in Nat, \E M : nesting' \in Seq(M),
           InPlace => /\ Len(nesting') = Len(branches) + nested'
                      /\ \A j \in 1 .. Len(branches) : nesting'[j] = nesting[j]
    PROVE  LiveInv'
<1>1. InPlace' => BranchesFollow'
  <2> SUFFICES ASSUME InPlace' PROVE BranchesFollow'
    OBVIOUS
  <2>1. InPlace
    BY DEF InPlace, HasItem
  <2>2. PICK B : branches \in Seq(B)
    BY DEF LiveInv
  <2>3. Len(branches) \in Nat
    BY <2>2, NotEmpty
  <2>4. Matches(branches, nesting) /\ branches # <<>> /\ ~AllOn(nesting, Len(branches))
    BY <2>1 DEF LiveInv, BranchesFollow
  <2>5. Matches(branches, nesting')
    BY <2>1, <2>3, <2>4, MatchesSame
  <2>6. ~AllOn(nesting', Len(branches))
    <3>1. \A k \in 0 .. Len(branches) : AllOn(nesting', k) <=> AllOn(nesting, k)
      BY <2>1, <2>3, AllOnSame
    <3> QED
      BY <2>3, <2>4, <3>1
  <2> QED
    BY <2>1, <2>4, <2>5, <2>6 DEF BranchesFollow
<1> QED
  BY <1>1 DEF LiveInv

LEMMA SkipKeeps ==
    ASSUME LiveInv, Skip
    PROVE  LiveInv'
<1>1. HasItem /\ skipping /\ UNCHANGED <<text, branches, diags>>
  BY DEF Skip
<1>2. PICK B, N : branches \in Seq(B) /\ nesting \in Seq(N)
  BY DEF LiveInv
<1>3. nested \in Nat /\ Len(branches) \in Nat /\ Len(nesting) \in Nat
  BY <1>2, NotEmpty DEF LiveInv
<1>4. InPlace => Len(nesting) = Len(branches) + nested
  BY DEF LiveInv, BranchesFollow
<1>5. CASE StopsSkipping(Item.kind)
  <2>1. skipping' = FALSE /\ UNCHANGED <<nested, nesting, lexers, expanded>>
    BY <1>5 DEF Skip, PutBack, macroVars
  <2>2. nested = 0 /\ Item.kind \in Siblings
    BY <1>5 DEF StopsSkipping, Siblings
  <2>3. Pending'
    BY <1>1, <2>1, <2>2 DEF Pending, HasItem, AtEnd, Top, Item
  <2>4. InPlace' => InPlace
    BY <1>1, <2>1 DEF InPlace
  <2> QED
    BY <1>1, <2>1, <2>2, <2>3, <2>4 DEF LiveInv, BranchesFollow
<1>6. CASE ~StopsSkipping(Item.kind)
  <2>1. /\ nested' = CASE Item.kind \in {"ifdef", "ifndef"} -> nested + 1
                      [] Item.kind = "endif" /\ nested > 0 -> nested - 1
                      [] OTHER -> nested
        /\ nesting' = Follow(Item) /\ UNCHANGED skipping
    BY <1>6 DEF Skip
  <2>2. CASE Item.kind \in {"ifdef", "ifndef"}
    <3>1. nested' = nested + 1
      BY <2>1, <2>2
    <3>2. \E e : nesting' = Append(nesting, e)
      BY <2>1, <2>2 DEF Follow, FollowIn
    <3>3. PICK e : nesting' = Append(nesting, e)
      BY <3>2
    <3>4. /\ nesting' \in Seq(N \cup {e}) /\ Len(nesting') = Len(nesting) + 1
          /\ \A k \in 1 .. Len(nesting) : nesting'[k] = nesting[k]
      BY <1>2, <3>3, Pushed
    <3>5. InPlace => /\ Len(nesting') = Len(branches) + nested'
                     /\ \A j \in 1 .. Len(branches) : nesting'[j] = nesting[j]
      BY <1>3, <1>4, <3>1, <3>4
    <3>6. nested' \in Nat
      BY <1>3, <3>1
    <3> QED
      BY <1>1, <2>1, <3>4, <3>5, <3>6, SkippedKeeps
  <2>3. CASE Item.kind = "endif"
    <3>1. nested > 0
      BY <1>3, <1>6, <2>3 DEF StopsSkipping
    <3>2. nested' = nested - 1 /\ nested' \in Nat
      BY <1>3, <2>1, <2>3, <3>1
    <3>3. CASE nesting = <<>>
      <4>1. nesting' = nesting
        BY <2>1, <2>3, <3>3 DEF Follow, FollowIn
      <4>2. ~InPlace
        <5>1. Len(nesting) = 0
          BY <1>2, <3>3, NotEmpty
        <5> QED
          BY <1>3, <1>4, <3>1, <5>1
      <4> QED
        BY <1>1, <1>2, <2>1, <3>2, <4>1, <4>2, SkippedKeeps
    <3>4. CASE nesting # <<>>
      <4>1. nesting' = Front(nesting)
        BY <2>1, <2>3, <3>4 DEF Follow, FollowIn
      <4>2. /\ nesting' \in Seq(N) /\ Len(nesting') = Len(nesting) - 1
            /\ \A k \in 1 .. Len(nesting) - 1 : nesting'[k] = nesting[k]
        BY <1>2, <3>4, <4>1, Popped
      <4>3. InPlace => /\ Len(nesting') = Len(branches) + nested'
                       /\ \A j \in 1 .. Len(branches) : nesting'[j] = nesting[j]
        BY <1>3, <1>4, <3>1, <3>2, <4>2
      <4> QED
        BY <1>1, <2>1, <3>2, <4>2, <4>3, SkippedKeeps
    <3> QED
      BY <3>3, <3>4
  <2>4. CASE Item.kind \in {"elsif", "else"}
    <3>1. nested' = nested
      BY <2>1, <2>4
    <3>2. nested > 0
      BY <1>3, <1>6, <2>4 DEF StopsSkipping
    <3>3. CASE nesting = <<>>
      <4>1. nesting' = nesting
        BY <2>1, <2>4, <3>3 DEF Follow, FollowIn
      <4>2. ~InPlace
        <5>1. Len(nesting) = 0
          BY <1>2, <3>3, NotEmpty
        <5> QED
          BY <1>3, <1>4, <3>2, <5>1
      <4> QED
        BY <1>1, <1>2, <1>3, <2>1, <3>1, <4>1, <4>2, SkippedKeeps
    <3>4. CASE nesting # <<>>
      <4>1. \E e : nesting' = WithTop(nesting, e)
        BY <2>1, <2>4, <3>4 DEF Follow, FollowIn, WithTop
      <4>2. PICK e : nesting' = WithTop(nesting, e)
        BY <4>1
      <4>3. PICK n \in Nat : Len(nesting) = n + 1
        BY <1>2, <3>4, Height
      <4>4. /\ nesting' \in Seq(N \cup {e}) /\ Len(nesting') = n + 1
            /\ \A k \in 1 .. n : nesting'[k] = nesting[k]
        BY <1>2, <3>4, <4>2, <4>3, WithLast, WithLastIsSeq
      <4>5. InPlace => /\ Len(nesting') = Len(branches) + nested'
                       /\ \A j \in 1 .. Len(branches) : nesting'[j] = nesting[j]
        BY <1>3, <1>4, <3>1, <3>2, <4>3, <4>4
      <4> QED
        BY <1>1, <1>3, <2>1, <3>1, <4>4, <4>5, SkippedKeeps
    <3> QED
      BY <3>3, <3>4
  <2>5. CASE Item.kind \notin {"ifdef", "ifndef", "endif", "elsif", "else"}
    <3>1. nested' = nested /\ nesting' = nesting
      BY <2>1, <2>5 DEF Follow, FollowIn
    <3> QED
      BY <1>1, <1>2, <1>3, <1>4, <2>1, <3>1, SkippedKeeps
  <2> QED
    BY <2>2, <2>3, <2>4, <2>5
<1> QED
  BY <1>5, <1>6

LEMMA EndOfFileKeeps ==
    ASSUME LiveInv, EndOfFile
    PROVE  LiveInv'
<1>1. /\ AtEnd /\ skipping' = (skipping /\ lexers' # <<>>) /\ diags \subseteq diags'
      /\ UNCHANGED <<branches, nested, nesting>>
  BY DEF EndOfFile, Report
<1>2. InPlace' => BranchesFollow'
  <2> SUFFICES ASSUME InPlace' PROVE BranchesFollow'
    OBVIOUS
  <2>1. InPlace /\ ~Pending
    BY <1>1 DEF InPlace, AtEnd, Pending, HasItem
  <2>2. (skipping' => skipping) /\ (skipping => skipping')
    BY <1>1 DEF InPlace
  <2> QED
    BY <1>1, <2>1, <2>2 DEF LiveInv, BranchesFollow
<1> QED
  BY <1>1, <1>2 DEF LiveInv

LEMMA LiveStep == LiveInv /\ [Next]_vars => LiveInv'
<1> SUFFICES ASSUME LiveInv, [Next]_vars PROVE LiveInv'
  OBVIOUS
<1>1. CASE Token
  BY <1>1, TextKeeps DEF Token, Handles, Siblings
<1>2. CASE IfDef
  BY <1>2, IfDefKeeps
<1>3. CASE ElseBranch
  BY <1>3, ElseKeeps
<1>4. CASE EndIf
  BY <1>4, EndIfKeeps
<1>5. CASE Skip
  BY <1>5, SkipKeeps
<1>6. CASE Define
  BY <1>6, TextKeeps DEF Define, Handles, Siblings, Report
<1>7. CASE Undef
  BY <1>7, TextKeeps DEF Undef, Handles, Siblings, Report
<1>8. CASE UndefineAll
  BY <1>8, TextKeeps DEF UndefineAll, Handles, Siblings
<1>9. CASE MacroUsage
  BY <1>9, TextKeeps DEF MacroUsage, Handles, Siblings, Report
<1>10. CASE Include
  BY <1>10, TextKeeps DEF Include, PushSource, Handles, Siblings, Report
<1>11. CASE Once
  BY <1>11, TextKeeps DEF Once, Handles, Siblings
<1>12. CASE BeginKeywords
  BY <1>12, TextKeeps DEF BeginKeywords, Take, Handles, Siblings, Report
<1>13. CASE EndKeywords
  BY <1>13, TextKeeps DEF EndKeywords, Handles, Siblings, Report
<1>14. CASE EndOfFile
  BY <1>14, EndOfFileKeeps
<1>15. CASE UNCHANGED vars
  BY <1>15 DEF vars, sourceVars, macroVars, branchVars, LiveInv, InPlace, BranchesFollow,
       Pending, HasItem, AtEnd, Item, Top
<1> QED
  BY <1>1, <1>2, <1>3, <1>4, <1>5, <1>6, <1>7, <1>8, <1>9, <1>10, <1>11, <1>12, <1>13,
     <1>14, <1>15 DEF Next

(***************************************************************************)
(* For any files and macros: text reaches the parser exactly when every    *)
(* branch around it is the first of its chain whose condition held, as     *)
(* long as no conditional directive was out of place.                      *)
(***************************************************************************)
THEOREM LiveTextOnly == Spec => []TextIsLive
<1>1. LiveInv => TextIsLive
  <2> SUFFICES ASSUME LiveInv, HasItem, "UnexpectedConditionalDirective" \notin diags,
                      Item.kind \notin {"ifdef", "ifndef", "elsif", "else", "endif"}
               PROVE  skipping = \E k \in DOMAIN nesting : ~nesting[k].on
    BY DEF TextIsLive
  <2>1. InPlace /\ ~Pending /\ BranchesFollow
    BY DEF InPlace, HasItem, Pending, Siblings, LiveInv
  <2>2. PICK B, N : branches \in Seq(B) /\ nesting \in Seq(N)
    BY DEF LiveInv
  <2>3. DOMAIN nesting = 1 .. Len(nesting) /\ Len(nesting) \in Nat /\ Len(branches) \in Nat
    BY <2>2, LenProperties
  <2>4. CASE skipping
    <3>1. ~AllOn(nesting, Len(branches)) /\ Len(nesting) = Len(branches) + nested
      BY <2>1, <2>4 DEF BranchesFollow
    <3>2. PICK k \in 1 .. Len(branches) : ~nesting[k].on
      BY <3>1 DEF AllOn
    <3>3. k \in DOMAIN nesting
      BY <2>3, <3>1, <3>2 DEF LiveInv
    <3>4. \E j \in DOMAIN nesting : ~nesting[j].on
      BY <3>2, <3>3
    <3>5. skipping = TRUE
      BY <2>4 DEF LiveInv
    <3> QED
      BY <3>4, <3>5
  <2>5. CASE ~skipping
    <3>1. AllOn(nesting, Len(nesting))
      BY <2>1, <2>5 DEF BranchesFollow
    <3>2. ~ \E j \in DOMAIN nesting : ~nesting[j].on
      BY <2>3, <3>1 DEF AllOn
    <3>3. skipping = FALSE
      BY <2>5 DEF LiveInv
    <3> QED
      BY <3>2, <3>3
  <2> QED
    BY <2>4, <2>5
<1> QED
  BY <1>1, LiveInit, LiveStep, PTL DEF Spec
-----------------------------------------------------------------------------
(***************************************************************************)
(* What holds of 0 and passes from each number below n to the next holds   *)
(* up to n.                                                                *)
(***************************************************************************)
LEMMA CountUp ==
    ASSUME NEW n \in Nat, NEW S, 0 \in S, \A k \in Nat : k < n /\ k \in S => k + 1 \in S
    PROVE  \A k \in 0 .. n : k \in S
<1> DEFINE R == {ss \in Nat \X Nat : ss[1] < ss[2]}
           Missed == {k \in 0 .. n : k \notin S}
<1> SUFFICES ASSUME Missed # {} PROVE FALSE
  OBVIOUS
<1>1. IsWellFoundedOn(R, Nat)
  BY NatLessThanWellFounded DEF OpToRel
<1>2. Missed \subseteq Nat
  OBVIOUS
<1>3. PICK k \in Missed : \A j \in Missed : ~(<<j, k>> \in R)
  <2> HIDE DEF R, Missed
  <2> QED
    BY <1>1, <1>2, WFMin
<1>4. k \in Nat /\ k # 0 /\ k - 1 \in Nat /\ k - 1 < n /\ k - 1 \in 0 .. n
  BY <1>3
<1>5. k - 1 \notin S
  <2>1. k - 1 + 1 = k
    BY <1>4
  <2> QED
    BY <1>3, <1>4, <2>1
<1>6. k - 1 \in Missed /\ <<k - 1, k>> \in R
  BY <1>4, <1>5
<1> QED
  BY <1>3, <1>6

(***************************************************************************)
(* The items of a sequence, and what FlattenSeq makes of several.          *)
(***************************************************************************)
IsIn(e, s) == \E k \in 1 .. Len(s) : s[k] = e

LEMMA ConcatItems ==
    ASSUME NEW I, NEW s \in Seq(I), NEW t \in Seq(I)
    PROVE  /\ s \o t \in Seq(I)
           /\ \A e : IsIn(e, s \o t) => IsIn(e, s) \/ IsIn(e, t)
<1>1. /\ s \o t \in Seq(I) /\ Len(s) \in Nat /\ Len(t) \in Nat
      /\ Len(s \o t) = Len(s) + Len(t)
      /\ \A k \in 1 .. Len(s) + Len(t) :
            (s \o t)[k] = IF k <= Len(s) THEN s[k] ELSE t[k - Len(s)]
  OBVIOUS
<1>2. ASSUME NEW e, IsIn(e, s \o t) PROVE IsIn(e, s) \/ IsIn(e, t)
  <2>1. PICK k \in 1 .. Len(s) + Len(t) : (s \o t)[k] = e
    BY <1>1, <1>2 DEF IsIn
  <2>2. CASE k <= Len(s)
    <3>1. k \in 1 .. Len(s) /\ s[k] = e
      BY <1>1, <2>1, <2>2
    <3> QED
      BY <3>1 DEF IsIn
  <2>3. CASE ~(k <= Len(s))
    <3>1. k - Len(s) \in 1 .. Len(t)
      BY <1>1, <2>1, <2>3
    <3>2. t[k - Len(s)] = e
      BY <1>1, <2>1, <2>3
    <3> QED
      BY <3>1, <3>2 DEF IsIn
  <2> QED
    BY <2>2, <2>3
<1> QED
  BY <1>1, <1>2

LEMMA FlattenItems ==
    ASSUME NEW I, NEW ss \in Seq(Seq(I))
    PROVE  /\ FlattenSeq(ss) \in Seq(I)
           /\ \A e : IsIn(e, FlattenSeq(ss)) => \E a \in 1 .. Len(ss) : IsIn(e, ss[a])
<1> DEFINE n == Len(ss)
           Step(f, i) == IF i = 1 THEN ss[i] ELSE f[i - 1] \o ss[i]
           flat == CHOOSE f : f = [i \in 1 .. n |-> Step(f, i)]
<1>1. FlattenSeq(ss) = IF n = 0 THEN ss ELSE flat[n]
  BY DEF FlattenSeq
<1>2. n \in Nat /\ \A i \in 1 .. n : ss[i] \in Seq(I)
  OBVIOUS
<1>3. CASE n = 0
  <2>1. ss = <<>>
    BY <1>3
  <2> QED
    BY <1>1, <1>3, <2>1 DEF IsIn
<1>4. CASE n # 0
  <2> HIDE DEF n
  <2> DEFINE P == {k \in Nat : \E f : f = [i \in 1 .. k |-> Step(f, i)]}
  <2>1. 0 \in P
    <3> DEFINE f == [i \in 1 .. 0 |-> 0]
    <3>1. f = [i \in 1 .. 0 |-> Step(f, i)]
      <4>1. 1 .. 0 = {}
        OBVIOUS
      <4> QED
        BY <4>1
    <3> HIDE DEF f
    <3> QED
      BY <3>1
  <2>2. ASSUME NEW k \in Nat, k \in P PROVE k + 1 \in P
    <3>1. PICK f : f = [i \in 1 .. k |-> Step(f, i)]
      BY <2>2
    <3> DEFINE g == [i \in 1 .. k + 1 |-> Step(f, i)]
    <3>2. \A i \in 1 .. k : g[i] = f[i]
      <4>1. \A i \in 1 .. k : i \in 1 .. k + 1
        OBVIOUS
      <4> HIDE DEF Step
      <4> QED
        BY <3>1, <4>1
    <3>3. ASSUME NEW i \in 1 .. k + 1 PROVE Step(g, i) = Step(f, i)
      <4>1. i = 1 \/ i - 1 \in 1 .. k
        OBVIOUS
      <4> HIDE DEF g
      <4> QED
        BY <3>2, <4>1
    <3>4. g = [i \in 1 .. k + 1 |-> Step(g, i)]
      <4> HIDE DEF Step
      <4> QED
        BY <3>3
    <3>5. k + 1 \in Nat
      OBVIOUS
    <3> HIDE DEF g, Step
    <3> QED
      BY <3>4, <3>5
  <2>3. n \in P
    <3>1. n \in 0 .. n
      BY <1>2
    <3> HIDE DEF P
    <3> QED
      BY <1>2, <2>1, <2>2, <3>1, CountUp
  <2>4. flat = [i \in 1 .. n |-> Step(flat, i)]
    <3>1. PICK f : f = [i \in 1 .. n |-> Step(f, i)]
      BY <2>3
    <3> HIDE DEF Step
    <3> QED
      BY <3>1
  <2> HIDE DEF flat
  <2>5. \A i \in 1 .. n : flat[i] = Step(flat, i)
    <3> HIDE DEF Step
    <3> QED
      BY <2>4
  <2>5a. \A i \in 1 .. n : i # 1 => flat[i] = flat[i - 1] \o ss[i]
    <3> SUFFICES ASSUME NEW i \in 1 .. n, i # 1 PROVE flat[i] = flat[i - 1] \o ss[i]
      OBVIOUS
    <3>1. flat[i] = Step(flat, i)
      BY <2>5
    <3> QED
      BY <3>1, Zenon
  <2> DEFINE Q == {k \in Nat : k # 0 /\ k <= n =>
                      /\ flat[k] \in Seq(I)
                      /\ \A e : IsIn(e, flat[k]) => \E a \in 1 .. k : IsIn(e, ss[a])}
  <2>6. 0 \in Q
    OBVIOUS
  <2>7. ASSUME NEW k \in Nat, k < n, k \in Q PROVE k + 1 \in Q
    <3>1. k + 1 \in 1 .. n /\ k + 1 \in Nat /\ k + 1 - 1 = k
      BY <1>2, <2>7
    <3>2. CASE k = 0
      <4>1. flat[1] = ss[1] /\ 1 \in 1 .. 1 /\ k + 1 = 1 /\ 1 \in 1 .. n
        BY <2>5, <3>1, <3>2
      <4> QED
        BY <1>2, <3>1, <4>1
    <3>3. CASE k # 0
      <4>1. flat[k + 1] = flat[k] \o ss[k + 1]
        <5>1. k + 1 # 1
          BY <3>3
        <5>2. PICK j \in 1 .. n : j = k + 1 /\ j - 1 = k /\ j # 1
          BY <3>1, <5>1
        <5>3. flat[j] = flat[j - 1] \o ss[j]
          BY <2>5a, <5>2
        <5> QED
          BY <5>2, <5>3
      <4>2. /\ flat[k] \in Seq(I) /\ ss[k + 1] \in Seq(I)
            /\ \A e : IsIn(e, flat[k]) => \E a \in 1 .. k : IsIn(e, ss[a])
        BY <1>2, <2>7, <3>1, <3>3
      <4>3. /\ flat[k + 1] \in Seq(I)
            /\ \A e : IsIn(e, flat[k + 1]) => IsIn(e, flat[k]) \/ IsIn(e, ss[k + 1])
        BY <4>1, <4>2, ConcatItems
      <4>4. k + 1 \in 1 .. k + 1 /\ \A a \in 1 .. k : a \in 1 .. k + 1
        OBVIOUS
      <4> QED
        BY <3>1, <4>2, <4>3, <4>4
    <3> QED
      BY <3>2, <3>3
  <2>8. n \in Q
    <3>1. n \in 0 .. n
      BY <1>2
    <3> HIDE DEF Q
    <3> QED
      BY <1>2, <2>6, <2>7, <3>1, CountUp
  <2>9. /\ flat[n] \in Seq(I)
        /\ \A e : IsIn(e, flat[n]) => \E a \in 1 .. n : IsIn(e, ss[a])
    BY <1>2, <1>4, <2>8
  <2> QED
    BY <1>1, <1>4, <2>9 DEF n
<1> QED
  BY <1>3, <1>4

(***************************************************************************)
(* One expansion of the macros in a list of items: an item of the result   *)
(* is one that was not to be expanded, or of the body of one that was.     *)
(***************************************************************************)
IsUse(e, name) == e.kind = "use" /\ e.name = name

\* The bodies of the macros are made of I.
BodiesOf(I) == \A m \in Names : macros[m].body \in Seq(I)

LEMMA ExpandedItems ==
    ASSUME NEW I, BodiesOf(I), NEW items \in Seq(I)
    PROVE  /\ ExpandOnce(items) \in Seq(I)
           /\ \A e : IsIn(e, ExpandOnce(items)) =>
                 \/ ~(e.kind = "use" /\ IsDefined(e.name))
                 \/ \E u : IsIn(u, items) /\ u.kind = "use" /\ IsDefined(u.name)
                           /\ IsIn(e, macros[u.name].body)
<1> DEFINE ss == [k \in DOMAIN items |-> Replacement(items[k])]
<1>1. ExpandOnce(items) = FlattenSeq(ss)
  <2>1. ExpandOnce(items) \in {FlattenSeq([k \in DOMAIN list |-> Replacement(list[k])]) : list \in {items}}
    <3> DEFINE S == {FlattenSeq([k \in DOMAIN list |-> Replacement(list[k])]) : list \in {items}}
    <3>1. ExpandOnce(items) = CHOOSE result \in S : TRUE
      BY DEF ExpandOnce
    <3>2. FlattenSeq(ss) \in S
      OBVIOUS
    <3> HIDE DEF S
    <3>3. ExpandOnce(items) \in S
      BY <3>1, <3>2
    <3> QED
      BY <3>3 DEF S
  <2> QED
    BY <2>1
<1>2. ASSUME NEW k \in 1 .. Len(items) PROVE Replacement(items[k]) \in Seq(I)
  <2>1. items[k] \in I
    OBVIOUS
  <2>2. CASE items[k].kind = "use" /\ IsDefined(items[k].name)
    BY <2>2 DEF Replacement, IsDefined, BodiesOf
  <2>3. CASE ~(items[k].kind = "use" /\ IsDefined(items[k].name))
    <3>1. Replacement(items[k]) = <<items[k]>>
      BY <2>3 DEF Replacement
    <3> QED
      BY <2>1, <3>1
  <2> QED
    BY <2>2, <2>3
<1>3. ss \in Seq(Seq(I)) /\ Len(ss) = Len(items) /\ Len(items) \in Nat
      /\ \A k \in 1 .. Len(items) : ss[k] = Replacement(items[k])
  <2>1. DOMAIN items = 1 .. Len(items) /\ Len(items) \in Nat
    OBVIOUS
  <2>2. ss \in [1 .. Len(items) -> Seq(I)]
    BY <1>2, <2>1
  <2>3. \A k \in 1 .. Len(items) : ss[k] = Replacement(items[k])
    BY <2>1
  <2> HIDE DEF ss
  <2> QED
    BY <2>1, <2>2, <2>3
<1> HIDE DEF ss
<1>4. /\ FlattenSeq(ss) \in Seq(I)
      /\ \A e : IsIn(e, FlattenSeq(ss)) => \E a \in 1 .. Len(ss) : IsIn(e, ss[a])
  BY <1>3, FlattenItems
<1>5. ASSUME NEW e, IsIn(e, ExpandOnce(items))
      PROVE  \/ ~(e.kind = "use" /\ IsDefined(e.name))
             \/ \E u : IsIn(u, items) /\ u.kind = "use" /\ IsDefined(u.name)
                       /\ IsIn(e, macros[u.name].body)
  <2>1. PICK a \in 1 .. Len(items) : IsIn(e, Replacement(items[a]))
    BY <1>1, <1>3, <1>4, <1>5
  <2>2. IsIn(items[a], items)
    BY DEF IsIn
  <2>3. CASE items[a].kind = "use" /\ IsDefined(items[a].name)
    <3>1. Replacement(items[a]) = macros[items[a].name].body
      BY <2>3 DEF Replacement
    <3> QED
      BY <2>1, <2>2, <2>3, <3>1
  <2>4. CASE ~(items[a].kind = "use" /\ IsDefined(items[a].name))
    <3>1. Replacement(items[a]) = <<items[a]>>
      BY <2>4 DEF Replacement
    <3>2. e = items[a]
      <4>1. IsIn(e, <<items[a]>>)
        BY <2>1, <3>1
      <4> QED
        BY <4>1 DEF IsIn
    <3> QED
      BY <2>4, <3>2
  <2> QED
    BY <2>3, <2>4
<1> QED
  BY <1>1, <1>4, <1>5

(***************************************************************************)
(* Met is the least set of macros that has the given ones and those that   *)
(* its members use.  A macro that is not recursive meets more than the     *)
(* macros it uses do.                                                      *)
(***************************************************************************)
LEMMA MetClosed ==
    ASSUME NEW ms
    PROVE  /\ Met(ms) \subseteq Names
           /\ \A n \in Names : n \in ms => n \in Met(ms)
           /\ \A u \in Met(ms) : Used(u) \subseteq Met(ms)
<1>1. ASSUME NEW u \in Met(ms), NEW n \in Used(u) PROVE n \in Met(ms)
  <2>1. n \in Names
    BY DEF Used
  <2>2. ASSUME NEW set \in SUBSET Names, ms \subseteq set, \A v \in set : Used(v) \subseteq set
        PROVE  n \in set
    <3>1. u \in set
      BY <2>2 DEF Met
    <3> QED
      BY <2>2, <3>1
  <2> QED
    BY <2>1, <2>2 DEF Met
<1> QED
  BY <1>1 DEF Met

LEMMA MetLeast ==
    ASSUME NEW ms, NEW set \in SUBSET Names, ms \subseteq set,
           \A u \in set : Used(u) \subseteq set
    PROVE  Met(ms) \subseteq set
BY DEF Met

\* How many macros a macro meets.
Rank(n) == Cardinality(Met(Used(n)))

LEMMA RankFalls ==
    ASSUME NEW m \in Names, ~IsRecursive(m), NEW n \in Met({m}), NEW u \in Used(n)
    PROVE  /\ u \in Met({m})
           /\ Rank(u) \in Nat /\ Rank(n) \in Nat /\ Rank(u) + 1 <= Rank(n)
           /\ Rank(n) <= Cardinality(Names)
<1>1. u \in Met({m}) /\ u \in Names
  BY MetClosed DEF Used
<1>2. u \in Met(Used(n))
  BY <1>1, MetClosed
<1>3. Met(Used(u)) \subseteq Met(Used(n))
  <2>1. Used(u) \subseteq Met(Used(n))
    BY <1>2, MetClosed
  <2>2. Met(Used(n)) \in SUBSET Names /\ \A v \in Met(Used(n)) : Used(v) \subseteq Met(Used(n))
    BY MetClosed
  <2> QED
    BY <2>1, <2>2, MetLeast
<1>4. u \notin Met(Used(u))
  BY <1>1 DEF IsRecursive
<1>5. IsFiniteSet(Names) /\ Met(Used(n)) \in SUBSET Names
  BY PreprocessorOK, MetClosed
<1>6. IsFiniteSet(Met(Used(n))) /\ Cardinality(Met(Used(n))) <= Cardinality(Names)
  BY <1>5, FS_Subset
<1>7. /\ IsFiniteSet(Met(Used(u)))
      /\ Cardinality(Met(Used(u))) <= Cardinality(Met(Used(n)))
      /\ Cardinality(Met(Used(u))) # Cardinality(Met(Used(n)))
  BY <1>2, <1>3, <1>4, <1>6, FS_Subset
<1>8. Rank(u) \in Nat /\ Rank(n) \in Nat
  BY <1>6, <1>7, FS_CardinalityType DEF Rank
<1>9. Rank(u) <= Rank(n) /\ Rank(u) # Rank(n) /\ Rank(n) <= Cardinality(Names)
  BY <1>6, <1>7 DEF Rank
<1> QED
  BY <1>1, <1>8, <1>9

-----------------------------------------------------------------------------
(***************************************************************************)
(* FoldLeft over the rounds of an expansion and over the items of a text:  *)
(* one step after the other, from the first to the last.                   *)
(***************************************************************************)
LEMMA GreatestIndex ==
    ASSUME NEW n \in Nat, NEW s \in SUBSET (1 .. n), s # {}
    PROVE  Max(s) \in s /\ \A j \in s : Max(s) >= j
<1> DEFINE P == {k \in Nat : s \cap (1 .. k) # {} =>
                                 \E m \in s \cap (1 .. k) : \A j \in s \cap (1 .. k) : m >= j}
<1>1. 0 \in P
  OBVIOUS
<1>2. ASSUME NEW k \in Nat, k \in P PROVE k + 1 \in P
  <2>1. 1 .. k + 1 = (1 .. k) \cup {k + 1} /\ \A j \in 1 .. k + 1 : k + 1 >= j
    OBVIOUS
  <2>2. CASE k + 1 \in s
    BY <2>1, <2>2
  <2>3. CASE k + 1 \notin s
    <3>1. s \cap (1 .. k + 1) = s \cap (1 .. k)
      BY <2>1, <2>3
    <3>2. k + 1 \in Nat
      OBVIOUS
    <3> QED
      BY <1>2, <3>1, <3>2
  <2> QED
    BY <2>2, <2>3
<1>3. n \in P
  <2>1. n \in 0 .. n
    OBVIOUS
  <2> HIDE DEF P
  <2> QED
    BY <1>1, <1>2, <2>1, CountUp
<1>4. s \cap (1 .. n) = s
  OBVIOUS
<1>5. PICK m \in s : \A j \in s : m >= j
  BY <1>3, <1>4
<1> QED
  BY <1>5 DEF Max

LEMMA IntervalTop ==
    ASSUME NEW k \in Nat
    PROVE  /\ Max(1 .. k + 1) = k + 1
           /\ (1 .. k + 1) \ {k + 1} = 1 .. k
           /\ 1 .. k + 1 # {}
<1>1. 1 .. k + 1 # {} /\ k + 1 \in 1 .. k + 1 /\ (1 .. k + 1) \ {k + 1} = 1 .. k /\ k + 1 \in Nat
  OBVIOUS
<1>2. Max(1 .. k + 1) \in 1 .. k + 1 /\ \A j \in 1 .. k + 1 : Max(1 .. k + 1) >= j
  BY <1>1, GreatestIndex
<1> QED
  BY <1>1, <1>2

Added(acc, x) ==
    IF x.over = "rounds" THEN ExpandOnce(acc)
    ELSE IF x.over = "sources" THEN PushKeywords(acc, x.file)
    ELSE Reads(acc, x.item)

Folded(it, s, list, xs) ==
    IF s = {} THEN list ELSE Added(it[s \ {Max(s)}], xs[Max(s)])

IsFold(it, n, list, xs) == it = [s \in SUBSET (1 .. n) |-> Folded(it, s, list, xs)]

LEMMA FoldExists ==
    ASSUME NEW n \in Nat, NEW list, NEW xs
    PROVE  \E it : IsFold(it, n, list, xs)
<1> DEFINE P == {k \in Nat : \E it : it = [s \in SUBSET (1 .. k) |-> Folded(it, s, list, xs)]}
<1>1. 0 \in P
  <2> DEFINE it == [s \in SUBSET (1 .. 0) |-> list]
  <2>1. \A s \in SUBSET (1 .. 0) : s = {}
    OBVIOUS
  <2>2. it = [s \in SUBSET (1 .. 0) |-> Folded(it, s, list, xs)]
    BY <2>1 DEF Folded
  <2> HIDE DEF it
  <2> QED
    BY <2>2
<1>2. ASSUME NEW k \in Nat, k \in P PROVE k + 1 \in P
  <2>1. PICK g : g = [s \in SUBSET (1 .. k) |-> Folded(g, s, list, xs)]
    BY <1>2
  <2> DEFINE it == [s \in SUBSET (1 .. k + 1) |-> Folded(g, s, list, xs)]
  <2>2. \A s \in SUBSET (1 .. k) : it[s] = g[s]
    <3>1. \A s \in SUBSET (1 .. k) : s \in SUBSET (1 .. k + 1)
      OBVIOUS
    <3> QED
      BY <2>1, <3>1
  <2>3. ASSUME NEW s \in SUBSET (1 .. k + 1)
        PROVE  Folded(it, s, list, xs) = Folded(g, s, list, xs)
    <3>1. CASE s = {}
      BY <3>1 DEF Folded
    <3>2. CASE s # {}
      <4>1. Max(s) \in s /\ \A j \in s : Max(s) >= j
        <5>1. PICK m \in Nat : m = k + 1
          OBVIOUS
        <5>2. s \in SUBSET (1 .. m)
          BY <5>1
        <5> QED
          BY <3>2, <5>2, GreatestIndex
      <4>2. s \ {Max(s)} \in SUBSET (1 .. k)
        <5>1. PICK top : top = Max(s)
          OBVIOUS
        <5>2. \A j \in s : j \in 1 .. k + 1 /\ top >= j
          BY <4>1, <5>1
        <5>3. top \in 1 .. k + 1
          BY <4>1, <5>1, <5>2
        <5>4. ASSUME NEW j \in s, j # top PROVE j \in 1 .. k
          <6>1. j \in 1 .. k + 1 /\ top >= j
            BY <5>2
          <6> QED
            BY <5>3, <5>4, <6>1
        <5> QED
          BY <5>1, <5>4
      <4>3. it[s \ {Max(s)}] = g[s \ {Max(s)}]
        BY <2>2, <4>2
      <4> HIDE DEF it
      <4> QED
        BY <4>3 DEF Folded
    <3> QED
      BY <3>1, <3>2
  <2>4. it = [s \in SUBSET (1 .. k + 1) |-> Folded(it, s, list, xs)]
    BY <2>3
  <2> HIDE DEF it
  <2> QED
    BY <2>4
<1>3. n \in 0 .. n
  OBVIOUS
<1> HIDE DEF P
<1>4. n \in P
  BY <1>1, <1>2, <1>3, CountUp
<1> QED
  BY <1>4 DEF P, IsFold

\* The steps of a fold, from its base to its result.
IsTrace(trace, n, list, xs, result) ==
    /\ trace[0] = list /\ trace[n] = result
    /\ \A k \in 0 .. n - 1 : trace[k + 1] = Added(trace[k], xs[k + 1])

LEMMA FoldUnrolls ==
    ASSUME NEW n \in Nat, NEW list, NEW xs, NEW it, IsFold(it, n, list, xs)
    PROVE  \E trace : IsTrace(trace, n, list, xs, it[1 .. n])
<1> DEFINE trace == [k \in 0 .. n |-> it[1 .. k]]
<1>1. \A k \in 0 .. n : trace[k] = it[1 .. k] /\ 1 .. k \in SUBSET (1 .. n)
  OBVIOUS
<1>2. 1 .. 0 = {} /\ 0 \in 0 .. n /\ n \in 0 .. n
  OBVIOUS
<1> HIDE DEF trace
<1>3. trace[0] = list
  BY <1>1, <1>2 DEF Folded, IsFold
<1>4. ASSUME NEW k \in 0 .. n - 1 PROVE trace[k + 1] = Added(trace[k], xs[k + 1])
  <2>1. k \in Nat /\ k \in 0 .. n /\ k + 1 \in 0 .. n
    OBVIOUS
  <2>2. it[1 .. k + 1] = Folded(it, 1 .. k + 1, list, xs)
    BY <1>1, <2>1 DEF IsFold
  <2>3. it[1 .. k + 1] = Added(it[1 .. k], xs[k + 1])
    BY <2>1, <2>2, IntervalTop DEF Folded
  <2> QED
    BY <1>1, <2>1, <2>3
<1> QED
  BY <1>1, <1>2, <1>3, <1>4 DEF IsTrace

LEMMA ExpansionUnroll ==
    ASSUME NEW m, NEW n \in Nat, n = Cardinality(Names)
    PROVE  \E trace : /\ trace[0] = macros[m].body
                      /\ trace[n] = ExpandReplacementList(m)
                      /\ \A k \in 0 .. n - 1 : trace[k + 1] = ExpandOnce(trace[k])
<1> DEFINE base == macros[m].body
           rounds == [k \in 1 .. Cardinality(Names) |-> k]
           xs == [k \in 1 .. n |-> [over |-> "rounds"]]
           Step(it, s) == IF s = {} THEN base ELSE ExpandOnce(it[s \ {Max(s)}])
           fold == CHOOSE it : it = [s \in SUBSET DOMAIN rounds |-> Step(it, s)]
<1>1. ExpandReplacementList(m) = fold[DOMAIN rounds]
  BY DEF ExpandReplacementList, FoldLeft, MapThenFoldSet
<1>2. DOMAIN rounds = 1 .. n
  OBVIOUS
<1>3. \A k \in 1 .. n : \A l : Added(l, xs[k]) = ExpandOnce(l)
  BY DEF Added
<1> HIDE DEF xs, rounds, base
<1>4. ASSUME NEW it, NEW s \in SUBSET (1 .. n) PROVE Step(it, s) = Folded(it, s, base, xs)
  <2>1. CASE s = {}
    BY <2>1 DEF Folded
  <2>2. CASE s # {}
    <3>1. Max(s) \in s
      BY <2>2, GreatestIndex
    <3>2. Max(s) \in 1 .. n
      BY <3>1
    <3> QED
      BY <1>3, <2>2, <3>2 DEF Folded
  <2> QED
    BY <2>1, <2>2
<1> HIDE DEF Step
<1>5. PICK it : IsFold(it, n, base, xs)
  BY FoldExists
<1>6. it = [s \in SUBSET DOMAIN rounds |-> Step(it, s)]
  BY <1>2, <1>4, <1>5 DEF IsFold
<1>7. fold = [s \in SUBSET DOMAIN rounds |-> Step(fold, s)]
  BY <1>6
<1> HIDE DEF fold
<1>8. IsFold(fold, n, base, xs)
  BY <1>2, <1>4, <1>7 DEF IsFold
<1>9. PICK trace : IsTrace(trace, n, base, xs, fold[1 .. n])
  BY <1>8, FoldUnrolls
<1>10. ASSUME NEW k \in 0 .. n - 1 PROVE trace[k + 1] = ExpandOnce(trace[k])
  <2>1. k + 1 \in 1 .. n
    OBVIOUS
  <2>2. trace[k + 1] = Added(trace[k], xs[k + 1])
    BY <1>9 DEF IsTrace
  <2> QED
    BY <1>3, <2>1, <2>2
<1>11. trace[0] = base /\ trace[n] = fold[1 .. n]
  BY <1>9 DEF IsTrace
<1> QED
  BY <1>1, <1>2, <1>10, <1>11 DEF base

(***************************************************************************)
(* The expansion of a macro that is not recursive leaves no use of a macro *)
(* that is defined: each round the macros left to expand meet fewer.       *)
(***************************************************************************)
ReadyIn(items) == { n \in Names : IsDefined(n) /\ \E e : IsIn(e, items) /\ IsUse(e, n) }

LEMMA ReadyInBody ==
    ASSUME NEW I, BodiesOf(I), NEW m \in Names
    PROVE  ReadyIn(macros[m].body) = Used(m)
<1>1. DOMAIN macros[m].body = 1 .. Len(macros[m].body)
  BY DEF BodiesOf
<1> QED
  BY <1>1 DEF ReadyIn, Used, IsIn, IsUse

LEMMA NothingLeft ==
    ASSUME NEW I, BodiesOf(I), NEW m \in Names, ~IsRecursive(m)
    PROVE  /\ ExpandReplacementList(m) \in Seq(I)
           /\ ReadyIn(ExpandReplacementList(m)) = {}
<1>1. PICK n \in Nat : n = Cardinality(Names)
  BY PreprocessorOK, FS_CardinalityType
<1>2. PICK trace : /\ trace[0] = macros[m].body
                   /\ trace[n] = ExpandReplacementList(m)
                   /\ \A k \in 0 .. n - 1 : trace[k + 1] = ExpandOnce(trace[k])
  BY <1>1, ExpansionUnroll
<1> DEFINE Fewer(k) == \A u \in ReadyIn(trace[k]) : u \in Met({m}) /\ Rank(u) + k + 1 <= n
           S == {k \in Nat : k <= n => trace[k] \in Seq(I) /\ Fewer(k)}
<1>3. 0 \in S
  <2>1. trace[0] \in Seq(I) /\ ReadyIn(trace[0]) = Used(m)
    BY <1>2, ReadyInBody DEF BodiesOf
  <2>2. ASSUME NEW u \in Used(m) PROVE u \in Met({m}) /\ Rank(u) + 0 + 1 <= n
    <3>1. m \in Met({m})
      BY MetClosed
    <3>2. /\ u \in Met({m}) /\ Rank(u) \in Nat /\ Rank(m) \in Nat /\ Rank(u) + 1 <= Rank(m)
          /\ Rank(m) <= n
      BY <1>1, <3>1, RankFalls
    <3> QED
      BY <3>2
  <2>3. Fewer(0)
    BY <2>1, <2>2
  <2> HIDE DEF Fewer
  <2> QED
    BY <2>1, <2>3
<1>4. ASSUME NEW k \in Nat, k < n, k \in S PROVE k + 1 \in S
  <2>1. trace[k + 1] = ExpandOnce(trace[k])
    BY <1>2, <1>4
  <2>2. trace[k] \in Seq(I) /\ Fewer(k)
    <3>1. k <= n
      BY <1>4
    <3> HIDE DEF Fewer
    <3> QED
      BY <1>4, <3>1
  <2>3. /\ ExpandOnce(trace[k]) \in Seq(I)
        /\ \A e : IsIn(e, ExpandOnce(trace[k])) =>
              \/ ~(e.kind = "use" /\ IsDefined(e.name))
              \/ \E u : IsIn(u, trace[k]) /\ u.kind = "use" /\ IsDefined(u.name)
                        /\ IsIn(e, macros[u.name].body)
    BY <2>2, ExpandedItems
  <2>4. ASSUME NEW v \in ReadyIn(trace[k + 1]) PROVE v \in Met({m}) /\ Rank(v) + (k + 1) + 1 <= n
    <3>1. PICK e : IsIn(e, trace[k + 1]) /\ IsUse(e, v)
      BY DEF ReadyIn
    <3>2. v \in Names /\ IsDefined(v) /\ e.kind = "use" /\ e.name = v
      BY <3>1 DEF ReadyIn, IsUse
    <3>3. PICK u : IsIn(u, trace[k]) /\ u.kind = "use" /\ IsDefined(u.name)
                   /\ IsIn(e, macros[u.name].body)
      BY <2>1, <2>3, <3>1, <3>2
    <3>4. u.name \in Names /\ u.name \in ReadyIn(trace[k])
      BY <3>3 DEF ReadyIn, IsDefined, IsUse
    <3>5. v \in Used(u.name)
      BY <3>2, <3>3, <3>4, ReadyInBody DEF ReadyIn, IsUse
    <3>6. u.name \in Met({m}) /\ Rank(u.name) + k + 1 <= n
      BY <2>2, <3>4
    <3>7. /\ v \in Met({m}) /\ Rank(v) \in Nat /\ Rank(u.name) \in Nat
          /\ Rank(v) + 1 <= Rank(u.name)
      BY <3>5, <3>6, RankFalls
    <3>8. ASSUME NEW a \in Nat, NEW b \in Nat, a + 1 <= b, b + k + 1 <= n
          PROVE  a + (k + 1) + 1 <= n
      BY <3>8
    <3>9. PICK a, b : a = Rank(v) /\ b = Rank(u.name)
      OBVIOUS
    <3>10. a \in Nat /\ b \in Nat /\ a + 1 <= b /\ b + k + 1 <= n
      BY <3>6, <3>7, <3>9
    <3> QED
      BY <3>7, <3>8, <3>9, <3>10
  <2>5. Fewer(k + 1) /\ k + 1 \in Nat
    <3>1. \A v \in ReadyIn(trace[k + 1]) : v \in Met({m}) /\ Rank(v) + (k + 1) + 1 <= n
      BY <2>4
    <3>2. k + 1 \in Nat
      OBVIOUS
    <3> QED
      BY <3>1, <3>2
  <2>6. trace[k + 1] \in Seq(I)
    BY <2>1, <2>3
  <2> HIDE DEF Fewer
  <2> QED
    BY <2>5, <2>6
<1>5. n \in S
  <2>1. n \in 0 .. n
    OBVIOUS
  <2> HIDE DEF S
  <2> QED
    BY <1>3, <1>4, <2>1, CountUp
<1>6. trace[n] \in Seq(I) /\ Fewer(n)
  <2>1. n <= n
    OBVIOUS
  <2> HIDE DEF Fewer
  <2> QED
    BY <1>5, <2>1
<1>7. ASSUME NEW u \in ReadyIn(trace[n]) PROVE FALSE
  <2>1. u \in Met({m}) /\ Rank(u) + n + 1 <= n
    BY <1>6
  <2>2. Rank(u) \in Nat
    <3>1. IsFiniteSet(Met(Used(u)))
      BY PreprocessorOK, MetClosed, FS_Subset
    <3> QED
      BY <3>1, FS_CardinalityType DEF Rank
  <2> QED
    BY <2>1, <2>2
<1>8. ReadyIn(trace[n]) = {}
  BY <1>7
<1>9. trace[n] \in Seq(I) /\ trace[n] = ExpandReplacementList(m)
  BY <1>2, <1>6
<1>10. PICK result : result = trace[n]
  OBVIOUS
<1>11. result = ExpandReplacementList(m) /\ result \in Seq(I) /\ ReadyIn(result) = {}
  BY <1>8, <1>9, <1>10
<1> QED
  BY <1>11

-----------------------------------------------------------------------------
(***************************************************************************)
(* What a step does to the files and to the expansions: nothing, take the  *)
(* next item, expand a macro, begin a file, or end one.                    *)
(***************************************************************************)
Moved(ls) ==
    /\ Len(ls) = Depth
    /\ \A k \in 1 .. Depth :
          /\ ls[k].file = lexers[k].file
          /\ ls[k].pos = IF k = Depth /\ expanded = <<>> THEN lexers[k].pos + 1 ELSE lexers[k].pos

LEMMA AdvancedMoves ==
    ASSUME StackInv, HasItem
    PROVE  Moved(Advanced) /\ \A b : Moved([Advanced EXCEPT ![Depth].begun = b])
<1>1. PICK L : lexers \in Seq(L)
  BY DEF StackInv, Sources
<1>2. /\ Len(lexers) \in Nat /\ Depth = Len(lexers) /\ Depth \in 1 .. Depth
      /\ DOMAIN lexers = 1 .. Depth
  BY <1>1, NotEmpty DEF HasItem, Depth
<1>3. \A k \in 1 .. Depth : IsLexer(lexers[k])
  BY <1>2 DEF StackInv, Sources
<1>4. Moved(Advanced) /\ DOMAIN Advanced = 1 .. Depth /\ \A k \in 1 .. Depth : IsLexer(Advanced[k])
  <2>1. CASE expanded # <<>>
    BY <1>2, <1>3, <2>1 DEF Advanced, Moved
  <2>2. CASE expanded = <<>>
    <3> DEFINE l == [lexers[Depth] EXCEPT !.pos = lexers[Depth].pos + 1]
    <3>1. Advanced = [lexers EXCEPT ![Depth] = l]
      BY <2>2 DEF Advanced
    <3>2. IsLexer(l) /\ l.file = lexers[Depth].file /\ l.pos = lexers[Depth].pos + 1
      <4>1. IsLexer(lexers[Depth])
        BY <1>2, <1>3
      <4>2. l = [file |-> lexers[Depth].file, pos |-> lexers[Depth].pos + 1,
                 included |-> lexers[Depth].included, begun |-> lexers[Depth].begun]
        BY <4>1 DEF IsLexer
      <4> QED
        BY <4>2 DEF IsLexer
    <3> HIDE DEF l
    <3>3. /\ DOMAIN Advanced = 1 .. Depth /\ Len(Advanced) = Depth
          /\ \A k \in 1 .. Depth : Advanced[k] = IF k = Depth THEN l ELSE lexers[k]
      <4>1. lexers \in Seq(L \cup {l}) /\ l \in L \cup {l}
        BY <1>1, SeqMonotonic
      <4>2. /\ Advanced \in Seq(L \cup {l}) /\ Len(Advanced) = Depth
            /\ \A k \in 1 .. Depth : Advanced[k] = IF k = Depth THEN l ELSE lexers[k]
        BY <1>2, <3>1, <4>1, ExceptSeq
      <4> QED
        BY <1>2, <4>2, LenProperties
    <3> QED
      BY <1>2, <1>3, <2>2, <3>2, <3>3 DEF Moved
  <2> QED
    BY <2>1, <2>2
<1>5. ASSUME NEW b PROVE Moved([Advanced EXCEPT ![Depth].begun = b])
  <2> DEFINE l == [Advanced[Depth] EXCEPT !.begun = b]
             new == [Advanced EXCEPT ![Depth] = l]
  <2>1. [Advanced EXCEPT ![Depth].begun = b] = new
    OBVIOUS
  <2>2. l.file = Advanced[Depth].file /\ l.pos = Advanced[Depth].pos
    <3>1. IsLexer(Advanced[Depth])
      BY <1>2, <1>4
    <3>2. l = [file |-> Advanced[Depth].file, pos |-> Advanced[Depth].pos,
               included |-> Advanced[Depth].included, begun |-> b]
      BY <3>1 DEF IsLexer
    <3> QED
      BY <3>2
  <2> HIDE DEF l
  <2>3. Len(new) = Depth /\ \A k \in 1 .. Depth : new[k] = IF k = Depth THEN l ELSE Advanced[k]
    <3>1. PICK M : Advanced \in Seq(M)
      BY AdvancedKeeps DEF Sources
    <3>2. Advanced \in Seq(M \cup {l}) /\ l \in M \cup {l} /\ Len(Advanced) = Depth
      BY <1>4, <3>1, SeqMonotonic DEF Moved
    <3> QED
      BY <1>2, <3>2, ExceptSeq
  <2>4. Moved(new)
    BY <1>2, <1>4, <2>2, <2>3 DEF Moved
  <2> QED
    BY <2>1, <2>4
<1> QED
  BY <1>4, <1>5

Stays == UNCHANGED <<lexers, expanded, owner, frames>>

Takes == HasItem /\ Moved(lexers') /\ expanded' = Rest /\ UNCHANGED frames

Expands ==
    /\ HasItem /\ Moved(lexers') /\ UNCHANGED <<frames, macros>>
    /\ IsDefined(Item.name) /\ ~IsRecursive(Item.name)
    /\ expanded' = ExpandReplacementList(Item.name)

Begins == HasItem /\ Item.name \in Files /\ PushSource(Item.name)

LEMMA StepShape ==
    ASSUME StackInv, [Next]_vars
    PROVE  Stays \/ Takes \/ Expands \/ Begins \/ EndOfFile
<1>1. HasItem => Moved(Advanced) /\ \A b : Moved([Advanced EXCEPT ![Depth].begun = b])
  BY AdvancedMoves
<1>2. HasItem /\ Take => Takes
  BY <1>1 DEF Take, Takes
<1>3. CASE Token \/ IfDef \/ ElseBranch \/ EndIf
  BY <1>2, <1>3 DEF Token, IfDef, ElseBranch, EndIf, Handles
<1>4. CASE Skip
  BY <1>1, <1>4 DEF Skip, PutBack, macroVars, Stays, Takes
<1>5. CASE Define \/ Undef \/ UndefineAll \/ Once
  BY <1>2, <1>5 DEF Define, Undef, UndefineAll, Once, Handles
<1>6. CASE MacroUsage
  <2>1. HasItem /\ Moved(lexers') /\ UNCHANGED <<frames, macros>>
    BY <1>1, <1>6 DEF MacroUsage, Handles
  <2>2. \/ expanded' = Rest
        \/ /\ IsDefined(Item.name) /\ ~IsRecursive(Item.name)
           /\ expanded' = ExpandReplacementList(Item.name)
    BY <1>6 DEF MacroUsage
  <2> QED
    BY <2>1, <2>2 DEF Takes, Expands
<1>7. CASE Include
  BY <1>2, <1>7 DEF Include, Handles, Begins
<1>8. CASE BeginKeywords
  <2>1. CASE Take
    BY <1>2, <1>8, <2>1 DEF BeginKeywords, Handles
  <2>2. CASE ~Take
    <3>1. /\ HasItem /\ expanded' = Rest /\ UNCHANGED frames
          /\ \E b : lexers' = [Advanced EXCEPT ![Depth].begun = b]
      BY <1>8, <2>2 DEF BeginKeywords, Handles
    <3> QED
      BY <1>1, <3>1 DEF Takes
  <2> QED
    BY <2>1, <2>2
<1>9. CASE EndKeywords
  <2>1. HasItem /\ expanded' = Rest /\ UNCHANGED frames
        /\ \E b : lexers' = [Advanced EXCEPT ![Depth].begun = b]
    BY <1>9 DEF EndKeywords, Handles
  <2> QED
    BY <1>1, <2>1 DEF Takes
<1>10. CASE EndOfFile
  BY <1>10
<1>11. CASE UNCHANGED vars
  BY <1>11 DEF vars, sourceVars, macroVars, Stays
<1> QED
  BY <1>3, <1>4, <1>5, <1>6, <1>7, <1>8, <1>9, <1>10, <1>11 DEF Next


-----------------------------------------------------------------------------
(***************************************************************************)
(* Everything that is read is made of I.                                   *)
(***************************************************************************)
MaterialInv(I) ==
    /\ \A f \in Files : text[f] \in Seq(I)
    /\ macros = [m \in Names |-> macros[m]]
    /\ BodiesOf(I)
    /\ expanded \in Seq(I)
    /\ \A k \in 1 .. Len(frames) : frames[k].items \in Seq(I)
    /\ \A k \in 1 .. Len(lexers) : /\ lexers[k].file \in Files
                                   /\ lexers[k].pos \in Nat /\ lexers[k].pos > 0

LEMMA BaseBodies ==
    ASSUME NEW I, MadeOf(I)
    PROVE  /\ BaseMacros = [m \in Names |-> BaseMacros[m]]
           /\ \A m \in Names : BaseMacros[m].body \in Seq(I)
<1>1. OneToken \in Seq(I) /\ Undefined.body \in Seq(I)
  BY DEF MadeOf, OneToken, Undefined
<1>2. ASSUME NEW m \in Names PROVE BaseMacros[m].body \in Seq(I)
  <2>1. \/ BaseMacros[m] = [origin |-> "builtIn", body |-> OneToken]
        \/ BaseMacros[m] = [origin |-> "commandLine", body |-> OneToken]
        \/ BaseMacros[m] = Undefined
    BY DEF BaseMacros
  <2> QED
    BY <1>1, <2>1
<1> QED
  BY <1>2 DEF BaseMacros

LEMMA MaterialInit ==
    ASSUME NEW I, MadeOf(I), Init
    PROVE  MaterialInv(I)
<1>1. PICK program \in Programs :
          LET sources == Reverse(program.sources)
          IN  /\ text = program.text
              /\ lexers = [k \in DOMAIN sources |-> Lexer(sources[k], FALSE)]
  BY DEF Init
<1> DEFINE sources == Reverse(program.sources)
           n == Len(program.sources)
<1>2. n \in Nat /\ DOMAIN sources = 1 .. n /\ \A k \in 1 .. n : sources[k] \in Files
  <2>1. program.sources \in Seq(Files)
    BY PreprocessorOK
  <2>2. n \in Nat /\ sources = [k \in 1 .. n |-> program.sources[n - k + 1]]
    BY <2>1 DEF Reverse
  <2>3. ASSUME NEW m \in Nat, NEW k \in 1 .. m PROVE m - k + 1 \in 1 .. m
    OBVIOUS
  <2>4. ASSUME NEW k \in 1 .. n PROVE program.sources[n - k + 1] \in Files
    <3>1. n - k + 1 \in 1 .. n
      BY <2>2, <2>3
    <3> QED
      BY <2>1, <3>1
  <2> HIDE DEF sources, n
  <2> QED
    BY <2>2, <2>4
<1> HIDE DEF sources, n
<1>3. \A k \in 1 .. n : lexers[k].file \in Files /\ lexers[k].pos = 1
  BY <1>1, <1>2 DEF sources, Lexer
<1>4. Len(lexers) = n
  <2> DEFINE L == { lexers[k] : k \in 1 .. n }
  <2>1. lexers \in [1 .. n -> L]
    BY <1>1, <1>2 DEF sources
  <2> QED
    BY <1>2, <2>1
<1>5. /\ \A f \in Files : text[f] \in Seq(I)
      /\ \A k \in 1 .. Len(lexers) : /\ lexers[k].file \in Files
                                     /\ lexers[k].pos \in Nat /\ lexers[k].pos > 0
  <2>1. text = program.text
    BY <1>1
  <2>2. \A f \in Files : program.text[f] \in Seq(I)
    BY DEF MadeOf
  <2> QED
    BY <1>2, <1>3, <1>4, <2>1, <2>2
<1>6. macros = BaseMacros /\ expanded = <<>> /\ frames = <<>>
  BY DEF Init
<1>7. expanded \in Seq(I) /\ \A k \in 1 .. Len(frames) : frames[k].items \in Seq(I)
  BY <1>6
<1>8. macros = [m \in Names |-> macros[m]] /\ BodiesOf(I)
  BY <1>6, BaseBodies DEF BodiesOf
<1> QED
  BY <1>5, <1>7, <1>8 DEF MaterialInv

\* What is played and read is made of I too.
LEMMA ItemIn ==
    ASSUME NEW I, MaterialInv(I), StackInv, HasItem
    PROVE  /\ Item \in I /\ Rest \in Seq(I)
           /\ \A e : IsIn(e, Rest) => IsIn(e, expanded)
           /\ expanded # <<>> => /\ IsIn(Item, expanded)
                                 /\ \A e : IsIn(e, expanded) => e = Item \/ IsIn(e, Rest)
           /\ expanded = <<>> => /\ Depth \in 1 .. Depth
                                 /\ Top = lexers[Depth]
                                 /\ Top.pos \in 1 .. Len(text[Top.file])
<1>1. CASE expanded # <<>>
  <2>1. expanded \in Seq(I)
    BY DEF MaterialInv
  <2>2. /\ Item = expanded[1] /\ 1 \in 1 .. Len(expanded) /\ expanded[1] \in I
        /\ Rest = Tail(expanded)
    BY <1>1, <2>1 DEF Item, Rest
  <2>3. /\ Tail(expanded) \in Seq(I) /\ Len(Tail(expanded)) = Len(expanded) - 1
        /\ Len(expanded) \in Nat
        /\ \A k \in 1 .. Len(expanded) - 1 : Tail(expanded)[k] = expanded[k + 1]
    BY <1>1, <2>1
  <2>4. ASSUME NEW e, IsIn(e, Rest) PROVE IsIn(e, expanded)
    <3>1. PICK k \in 1 .. Len(expanded) - 1 : expanded[k + 1] = e
      BY <2>2, <2>3, <2>4 DEF IsIn
    <3>2. k + 1 \in 1 .. Len(expanded)
      BY <2>3
    <3> QED
      BY <3>1, <3>2 DEF IsIn
  <2>5. ASSUME NEW e, IsIn(e, expanded) PROVE e = Item \/ IsIn(e, Rest)
    <3>1. PICK k \in 1 .. Len(expanded) : expanded[k] = e
      BY <2>5 DEF IsIn
    <3>2. CASE k = 1
      BY <2>2, <3>1, <3>2
    <3>3. CASE k # 1
      <4>1. PICK j \in 1 .. Len(expanded) - 1 : j + 1 = k
        <5>1. k - 1 \in 1 .. Len(expanded) - 1 /\ k - 1 + 1 = k
          BY <2>3, <3>3
        <5> QED
          BY <5>1
      <4>2. Rest[j] = e /\ j \in 1 .. Len(Rest)
        BY <2>2, <2>3, <3>1, <4>1
      <4> QED
        BY <4>2 DEF IsIn
    <3> QED
      BY <3>2, <3>3
  <2> QED
    BY <1>1, <2>2, <2>3, <2>4, <2>5 DEF IsIn
<1>2. CASE expanded = <<>>
  <2>1. PICK L : lexers \in Seq(L)
    BY DEF StackInv, Sources
  <2>2. Depth \in Nat /\ Depth # 0 /\ Depth \in 1 .. Depth /\ Top = lexers[Depth]
    BY <2>1, NotEmpty DEF HasItem, Depth, Top, Last
  <2>3. Top.file \in Files /\ Top.pos \in Nat /\ Top.pos > 0 /\ text[Top.file] \in Seq(I)
    BY <2>2 DEF MaterialInv, Depth
  <2>4. ~(Top.pos > Len(text[Top.file]))
    BY <1>2 DEF HasItem, AtEnd
  <2>5. Top.pos \in 1 .. Len(text[Top.file])
    BY <2>3, <2>4
  <2>6. Item = text[Top.file][Top.pos] /\ Item \in I /\ Rest = <<>>
    BY <1>2, <2>3, <2>5 DEF Item, Rest
  <2>7. Rest \in Seq(I) /\ \A e : ~IsIn(e, Rest)
    BY <2>6 DEF IsIn
  <2> QED
    BY <1>2, <2>2, <2>5, <2>6, <2>7
<1> QED
  BY <1>1, <1>2

\* What a step does to the macros.
LEMMA MacrosStep ==
    ASSUME NEW I, MadeOf(I), MaterialInv(I), StackInv, [Next]_vars
    PROVE  /\ text' = text
           /\ macros' = [m \in Names |-> macros'[m]]
           /\ BodiesOf(I)'
<1>1. text' = text
  BY DEF Next, Token, IfDef, ElseBranch, EndIf, Skip, Define, Undef, UndefineAll, MacroUsage,
         Include, PushSource, Once, BeginKeywords, EndKeywords, EndOfFile, Take, vars
<1>2. macros = [m \in Names |-> macros[m]] /\ \A m \in Names : macros[m].body \in Seq(I)
  BY DEF MaterialInv, BodiesOf
<1>3. ASSUME NEW n, NEW d, macros' = [macros EXCEPT ![n] = d], d.body \in Seq(I)
      PROVE  /\ macros' = [m \in Names |-> macros'[m]]
             /\ \A m \in Names : macros'[m].body \in Seq(I)
  <2>1. \A m \in Names : macros'[m] = IF m = n THEN d ELSE macros[m]
    BY <1>2, <1>3
  <2>2. macros' = [m \in Names |-> macros'[m]]
    BY <1>2, <1>3
  <2>3. ASSUME NEW m \in Names PROVE macros'[m].body \in Seq(I)
    <3>1. CASE m = n
      BY <1>3, <2>1, <3>1
    <3>2. CASE m # n
      BY <1>2, <2>1, <3>2
    <3> QED
      BY <3>1, <3>2
  <2> QED
    BY <2>2, <2>3
<1>4. CASE Define
  <2>1. Item \in I /\ Item.kind = "define"
    BY <1>4, ItemIn DEF Define, Handles
  <2> DEFINE new == [origin |-> "source", body |-> Item.body]
  <2>2. new.body \in Seq(I)
    BY <2>1 DEF MadeOf
  <2>3. macros' = macros \/ macros' = [macros EXCEPT ![Item.name] = new]
    BY <1>4 DEF Define
  <2> HIDE DEF new
  <2> QED
    BY <1>1, <1>2, <1>3, <2>2, <2>3 DEF BodiesOf
<1>5. CASE Undef
  <2>1. Undefined.body \in Seq(I)
    BY DEF Undefined
  <2>2. macros' = macros \/ macros' = [macros EXCEPT ![Item.name] = Undefined]
    BY <1>5 DEF Undef
  <2> QED
    BY <1>1, <1>2, <1>3, <2>1, <2>2 DEF BodiesOf
<1>6. CASE UndefineAll
  <2>1. macros' = BaseMacros
    BY <1>6 DEF UndefineAll
  <2> QED
    BY <1>1, <2>1, BaseBodies DEF BodiesOf
<1>7. CASE ~(Define \/ Undef \/ UndefineAll)
  <2>1. macros' = macros
    BY <1>7 DEF Next, Token, IfDef, ElseBranch, EndIf, Skip, MacroUsage, Include, PushSource,
                Once, BeginKeywords, EndKeywords, EndOfFile, vars
  <2> QED
    BY <1>1, <1>2, <2>1 DEF BodiesOf
<1> QED
  BY <1>4, <1>5, <1>6, <1>7

LexersIn(ls) ==
    \A k \in 1 .. Len(ls) : ls[k].file \in Files /\ ls[k].pos \in Nat /\ ls[k].pos > 0

FramesOf(I, fs) == \A k \in 1 .. Len(fs) : fs[k].items \in Seq(I)

LEMMA MovedIn ==
    ASSUME NEW I, MaterialInv(I), NEW ls, Moved(ls)
    PROVE  LexersIn(ls)
<1> SUFFICES ASSUME NEW k \in 1 .. Depth
             PROVE  ls[k].file \in Files /\ ls[k].pos \in Nat /\ ls[k].pos > 0
  BY DEF Moved, LexersIn
<1>1. lexers[k].file \in Files /\ lexers[k].pos \in Nat /\ lexers[k].pos > 0
  BY DEF MaterialInv, Depth
<1>2. ls[k].file = lexers[k].file /\ (ls[k].pos = lexers[k].pos \/ ls[k].pos = lexers[k].pos + 1)
  BY DEF Moved
<1> QED
  BY <1>1, <1>2

LEMMA BeginShape ==
    ASSUME StackInv, HasItem, NEW file, PushSource(file)
    PROVE  /\ Depth \in Nat
           /\ Moved(Advanced)
           /\ Len(lexers') = Depth + 1
           /\ \A k \in 1 .. Depth : lexers'[k] = Advanced[k]
           /\ lexers'[Depth + 1] = Lexer(file, TRUE)
           /\ expanded' = <<>>
           /\ \/ Rest = <<>> /\ frames' = frames
              \/ /\ Rest # <<>> /\ Len(frames) \in Nat /\ Len(frames') = Len(frames) + 1
                 /\ \A k \in 1 .. Len(frames) : frames'[k] = frames[k]
                 /\ frames'[Len(frames) + 1].items = Rest
                 /\ frames'[Len(frames) + 1].owner = Depth
<1>1. PICK L, F : Advanced \in Seq(L) /\ frames \in Seq(F)
  BY AdvancedKeeps DEF Sources, StackInv, Paused
<1>2. Len(Advanced) = Depth /\ Depth \in Nat /\ Moved(Advanced)
  BY AdvancedKeeps, AdvancedMoves DEF Depth
<1>3. lexers' = Append(Advanced, Lexer(file, TRUE)) /\ expanded' = <<>>
  BY DEF PushSource
<1>4. /\ Len(lexers') = Depth + 1
      /\ \A k \in 1 .. Depth : lexers'[k] = Advanced[k]
      /\ lexers'[Depth + 1] = Lexer(file, TRUE)
  <2> DEFINE l == Lexer(file, TRUE)
  <2>1. lexers' = Append(Advanced, l)
    BY <1>3
  <2> HIDE DEF l
  <2>2. /\ Len(lexers') = Depth + 1
        /\ \A k \in 1 .. Depth : lexers'[k] = Advanced[k]
        /\ lexers'[Depth + 1] = l
    BY <1>1, <1>2, <2>1, Pushed
  <2> QED
    BY <2>2 DEF l
<1>5. CASE Rest = <<>>
  BY <1>2, <1>3, <1>4, <1>5 DEF PushSource
<1>6. CASE Rest # <<>>
  <2> DEFINE paused == [items |-> Rest, owner |-> owner, lexerDepth |-> FrameDepth(Depth + 1)]
  <2>1. frames' = Append(frames, paused)
    BY <1>6 DEF PushSource
  <2>2. paused.items = Rest /\ paused.owner = Depth
    BY <1>6 DEF StackInv, Rest
  <2> HIDE DEF paused
  <2>3. /\ Len(frames) \in Nat /\ Len(frames') = Len(frames) + 1
        /\ \A k \in 1 .. Len(frames) : frames'[k] = frames[k]
        /\ frames'[Len(frames) + 1] = paused
    BY <1>1, <2>1, Pushed
  <2> QED
    BY <1>2, <1>3, <1>4, <1>6, <2>2, <2>3
<1> QED
  BY <1>5, <1>6

LEMMA EndShape ==
    ASSUME StackInv, EndOfFile
    PROVE  /\ Depth \in Nat /\ Depth >= 1 /\ expanded = <<>>
           /\ Len(lexers') = Depth - 1
           /\ \A k \in 1 .. Depth - 1 : lexers'[k] = lexers[k]
           /\ \/ UNCHANGED <<expanded, frames>>
              \/ /\ Len(frames) \in Nat /\ Len(frames) >= 1
                 /\ expanded' = frames[Len(frames)].items
                 /\ frames[Len(frames)].owner = Depth - 1
                 /\ Len(frames') = Len(frames) - 1
                 /\ \A k \in 1 .. Len(frames) - 1 : frames'[k] = frames[k]
<1>1. PICK L, F : lexers \in Seq(L) /\ frames \in Seq(F)
  BY DEF StackInv, Sources, Paused
<1>2. lexers # <<>> /\ expanded = <<>> /\ lexers' = Front(lexers)
  BY DEF EndOfFile, AtEnd
<1>3. /\ Len(lexers) \in Nat /\ Len(lexers) >= 1 /\ Len(lexers') = Len(lexers) - 1
      /\ \A k \in 1 .. Len(lexers) - 1 : lexers'[k] = lexers[k]
  BY <1>1, <1>2, Popped
<1> DEFINE resumes == frames # <<>> /\ Len(Front(lexers)) = Last(frames).lexerDepth
<1>4. CASE resumes
  <2>1. /\ expanded' = Last(frames).items /\ frames' = Front(frames) /\ frames # <<>>
        /\ Last(frames).lexerDepth = Len(lexers) - 1
    BY <1>2, <1>3, <1>4 DEF EndOfFile
  <2>2. /\ Len(frames) \in Nat /\ Len(frames) >= 1 /\ Len(frames') = Len(frames) - 1
        /\ \A k \in 1 .. Len(frames) - 1 : frames'[k] = frames[k]
        /\ Last(frames) = frames[Len(frames)]
    BY <1>1, <2>1, Popped
  <2>3. frames[Len(frames)].owner = Len(lexers) - 1
    BY <2>1, <2>2 DEF StackInv, Paused
  <2> QED
    BY <1>2, <1>3, <2>1, <2>2, <2>3 DEF Depth
<1>5. CASE ~resumes
  <2>1. UNCHANGED <<expanded, frames>>
    BY <1>5 DEF EndOfFile, macroVars
  <2> QED
    BY <1>2, <1>3, <2>1 DEF Depth
<1> QED
  BY <1>4, <1>5

LEMMA MaterialStep ==
    ASSUME NEW CONSTANT I, MadeOf(I), MaterialInv(I), StackInv, [Next]_vars
    PROVE  MaterialInv(I)'
<1>1. /\ \A f \in Files : text'[f] \in Seq(I)
      /\ macros' = [m \in Names |-> macros'[m]]
      /\ BodiesOf(I)'
  BY MacrosStep DEF MaterialInv
<1>2. LexersIn(lexers) /\ FramesOf(I, frames) /\ expanded \in Seq(I) /\ BodiesOf(I)
  BY DEF MaterialInv, LexersIn, FramesOf
<1>3. SUFFICES LexersIn(lexers') /\ FramesOf(I, frames') /\ expanded' \in Seq(I)
  BY <1>1 DEF MaterialInv, LexersIn, FramesOf
<1>4. CASE Stays
  BY <1>2, <1>4 DEF Stays, LexersIn, FramesOf
<1>5. CASE Takes
  <2>1. HasItem /\ Moved(lexers') /\ expanded' = Rest /\ frames' = frames
    BY <1>5 DEF Takes
  <2> QED
    BY <1>2, <2>1, ItemIn, MovedIn
<1>6. CASE Expands
  <2>1. /\ HasItem /\ Moved(lexers') /\ frames' = frames
        /\ expanded' = ExpandReplacementList(Item.name)
        /\ Item.name \in Names /\ ~IsRecursive(Item.name)
    BY <1>6 DEF Expands, IsDefined
  <2>2. ExpandReplacementList(Item.name) \in Seq(I)
    BY <1>2, <2>1, NothingLeft
  <2> QED
    BY <1>2, <2>1, <2>2, MovedIn
<1>7. CASE Begins
  <2>1. HasItem /\ Item.name \in Files /\ PushSource(Item.name)
    BY <1>7 DEF Begins
  <2>2. PICK file \in Files : file = Item.name
    BY <2>1
  <2>3. /\ Depth \in Nat /\ Moved(Advanced) /\ Len(lexers') = Depth + 1
        /\ \A k \in 1 .. Depth : lexers'[k] = Advanced[k]
        /\ lexers'[Depth + 1] = Lexer(file, TRUE)
        /\ expanded' = <<>>
        /\ \/ Rest = <<>> /\ frames' = frames
           \/ /\ Rest # <<>> /\ Len(frames) \in Nat /\ Len(frames') = Len(frames) + 1
              /\ \A k \in 1 .. Len(frames) : frames'[k] = frames[k]
              /\ frames'[Len(frames) + 1].items = Rest
    BY <2>1, <2>2, BeginShape
  <2>4. LexersIn(Advanced) /\ Len(Advanced) = Depth /\ Rest \in Seq(I)
    BY <2>1, <2>3, MovedIn, ItemIn DEF Moved
  <2>5. LexersIn(lexers')
    <3>1. \A l : l = Lexer(file, TRUE) => l.file \in Files /\ l.pos \in Nat /\ l.pos > 0
      BY DEF Lexer
    <3>2. ASSUME NEW k \in 1 .. Len(lexers')
          PROVE  lexers'[k].file \in Files /\ lexers'[k].pos \in Nat /\ lexers'[k].pos > 0
      <4>1. k \in 1 .. Depth \/ k = Depth + 1
        BY <2>3
      <4>2. CASE k \in 1 .. Depth
        BY <2>3, <2>4, <4>2 DEF LexersIn
      <4>3. CASE k = Depth + 1
        <5>1. lexers'[Depth + 1] = Lexer(file, TRUE)
          BY <2>3
        <5>2. lexers'[k] = Lexer(file, TRUE)
          BY <4>3, <5>1, Zenon
        <5> QED
          BY <3>1, <5>2, Zenon
      <4> QED
        BY <4>1, <4>2, <4>3
    <3> QED
      BY <3>2 DEF LexersIn
  <2>6. FramesOf(I, frames')
    BY <1>2, <2>3, <2>4 DEF FramesOf
  <2> QED
    BY <2>3, <2>5, <2>6
<1>8. CASE EndOfFile
  <2>1. /\ Depth \in Nat /\ Depth >= 1 /\ expanded = <<>>
        /\ Len(lexers') = Depth - 1
        /\ \A k \in 1 .. Depth - 1 : lexers'[k] = lexers[k]
        /\ \/ UNCHANGED <<expanded, frames>>
           \/ /\ Len(frames) \in Nat /\ Len(frames) >= 1
              /\ expanded' = frames[Len(frames)].items
              /\ Len(frames') = Len(frames) - 1
              /\ \A k \in 1 .. Len(frames) - 1 : frames'[k] = frames[k]
    BY <1>8, EndShape
  <2>2. LexersIn(lexers')
    BY <1>2, <2>1 DEF LexersIn, Depth
  <2>3. FramesOf(I, frames') /\ expanded' \in Seq(I)
    <3>1. CASE UNCHANGED <<expanded, frames>>
      BY <1>2, <3>1
    <3>2. CASE ~UNCHANGED <<expanded, frames>>
      <4>1. Len(frames) \in 1 .. Len(frames) /\ frames[Len(frames)].items \in Seq(I)
        BY <1>2, <2>1, <3>2 DEF FramesOf
      <4>2. \A k \in 1 .. Len(frames') : k \in 1 .. Len(frames) /\ frames'[k] = frames[k]
        BY <2>1, <3>2
      <4>3. FramesOf(I, frames')
        BY <1>2, <4>2 DEF FramesOf
      <4> QED
        BY <2>1, <3>2, <4>1, <4>3
    <3> QED
      BY <3>1, <3>2
  <2> QED
    BY <2>2, <2>3
<1> QED
  BY <1>4, <1>5, <1>6, <1>7, <1>8, StepShape

-----------------------------------------------------------------------------
(***************************************************************************)
(* What is played and what is paused uses no macro that is defined.        *)
(***************************************************************************)
NoneReady == \A n \in Names : IsDefined(n) => ~Awaited(n)

UsedIn(items, n) == \E e : IsIn(e, items) /\ IsUse(e, n)

LEMMA AwaitedOf ==
    ASSUME NEW I, NEW ex \in Seq(I), NEW fs, DOMAIN fs = 1 .. Len(fs), FramesOf(I, fs), NEW n
    PROVE  (\E items \in {ex} \cup { fs[k].items : k \in DOMAIN fs } :
                \E j \in DOMAIN items : items[j].kind = "use" /\ items[j].name = n)
             <=> UsedIn(ex, n) \/ \E k \in 1 .. Len(fs) : UsedIn(fs[k].items, n)
<1>1. ASSUME NEW items \in Seq(I)
      PROVE  (\E j \in DOMAIN items : items[j].kind = "use" /\ items[j].name = n)
                <=> UsedIn(items, n)
  <2>1. DOMAIN items = 1 .. Len(items)
    OBVIOUS
  <2> QED
    BY <2>1 DEF UsedIn, IsIn, IsUse
<1> DEFINE Uses(items) == \E j \in DOMAIN items : items[j].kind = "use" /\ items[j].name = n
<1>2. Uses(ex) <=> UsedIn(ex, n)
  BY <1>1
<1>3. ASSUME NEW k \in 1 .. Len(fs) PROVE Uses(fs[k].items) <=> UsedIn(fs[k].items, n)
  <2>1. fs[k].items \in Seq(I)
    BY DEF FramesOf
  <2> QED
    BY <1>1, <2>1
<1>4. DOMAIN fs = 1 .. Len(fs)
  OBVIOUS
<1> HIDE DEF Uses
<1>5. (\E items \in {ex} \cup { fs[k].items : k \in DOMAIN fs } : Uses(items))
         <=> Uses(ex) \/ \E k \in DOMAIN fs : Uses(fs[k].items)
  OBVIOUS
<1> QED
  BY <1>2, <1>3, <1>4, <1>5 DEF Uses

LEMMA AwaitedIn ==
    ASSUME NEW I, MaterialInv(I), StackInv, NEW n
    PROVE  Awaited(n) <=> \/ UsedIn(expanded, n)
                          \/ \E k \in 1 .. Len(frames) : UsedIn(frames[k].items, n)
<1>1. expanded \in Seq(I) /\ FramesOf(I, frames) /\ DOMAIN frames = 1 .. Len(frames)
  BY DEF MaterialInv, FramesOf, StackInv, Paused
<1> QED
  BY <1>1, AwaitedOf DEF Awaited

LEMMA ReadyStep ==
    ASSUME NEW CONSTANT I, MadeOf(I), MaterialInv(I), StackInv, NoneReady, [Next]_vars,
           DefinesNothingAwaited
    PROVE  NoneReady'
<1> SUFFICES ASSUME NEW n \in Names, IsDefined(n)', Awaited(n)' PROVE FALSE
  BY DEF NoneReady
<1>1. IsDefined(n) /\ ~Awaited(n)
  BY DEF NoneReady, DefinesNothingAwaited
<1>2. /\ ~UsedIn(expanded, n)
      /\ ~\E k \in 1 .. Len(frames) : UsedIn(frames[k].items, n)
  BY <1>1, AwaitedIn
<1>3. \/ UsedIn(expanded', n)
      \/ \E k \in 1 .. Len(frames') : UsedIn(frames'[k].items, n)
  <2>1. MaterialInv(I)' /\ StackInv'
    BY MaterialStep, StackStep
  <2>2. /\ expanded' \in Seq(I) /\ FramesOf(I, frames')
        /\ DOMAIN frames' = 1 .. Len(frames')
    BY <2>1 DEF MaterialInv, FramesOf, StackInv, Paused
  <2>3. \E items \in {expanded'} \cup { frames'[k].items : k \in DOMAIN frames' } :
            \E j \in DOMAIN items : items[j].kind = "use" /\ items[j].name = n
    BY DEF Awaited
  <2> QED
    BY <2>2, <2>3, AwaitedOf
<1>4. CASE Stays
  BY <1>2, <1>3, <1>4 DEF Stays
<1>5. CASE Takes
  <2>1. HasItem /\ expanded' = Rest /\ frames' = frames
    BY <1>5 DEF Takes
  <2> QED
    BY <1>2, <1>3, <2>1, ItemIn DEF UsedIn
<1>6. CASE Expands
  <2>1. /\ frames' = frames /\ macros' = macros
        /\ expanded' = ExpandReplacementList(Item.name)
        /\ Item.name \in Names /\ ~IsRecursive(Item.name)
    BY <1>6 DEF Expands, IsDefined
  <2>2. ReadyIn(ExpandReplacementList(Item.name)) = {}
    <3>1. BodiesOf(I)
      BY DEF MaterialInv
    <3> QED
      BY <2>1, <3>1, NothingLeft
  <2>3. ~UsedIn(expanded', n)
    BY <1>1, <2>1, <2>2 DEF ReadyIn, UsedIn
  <2> QED
    BY <1>2, <1>3, <2>1, <2>3
<1>7. CASE Begins
  <2>1. HasItem /\ PushSource(Item.name)
    BY <1>7 DEF Begins
  <2>2. /\ expanded' = <<>>
        /\ \/ Rest = <<>> /\ frames' = frames
           \/ /\ Rest # <<>> /\ Len(frames) \in Nat /\ Len(frames') = Len(frames) + 1
              /\ \A k \in 1 .. Len(frames) : frames'[k] = frames[k]
              /\ frames'[Len(frames) + 1].items = Rest
    BY <2>1, BeginShape
  <2>3. ~UsedIn(expanded', n)
    BY <2>2 DEF UsedIn, IsIn
  <2>4. ~UsedIn(Rest, n)
    BY <1>2, <2>1, ItemIn DEF UsedIn
  <2> QED
    BY <1>2, <1>3, <2>2, <2>3, <2>4
<1>8. CASE EndOfFile
  <2>1. \/ UNCHANGED <<expanded, frames>>
        \/ /\ Len(frames) \in Nat /\ Len(frames) >= 1
           /\ expanded' = frames[Len(frames)].items
           /\ Len(frames') = Len(frames) - 1
           /\ \A k \in 1 .. Len(frames) - 1 : frames'[k] = frames[k]
    BY <1>8, EndShape
  <2> QED
    BY <1>2, <1>3, <2>1
<1> QED
  BY <1>4, <1>5, <1>6, <1>7, <1>8, StepShape

(***************************************************************************)
(* handleTopLevelMacro asserts that it is not called in the middle of an   *)
(* expansion: expandReplacementList replaced every use of a macro that it  *)
(* met.  This holds of all programs, for any macros, as long as nothing    *)
(* defines a macro that an expansion being played or paused still uses;    *)
(* the run pp_nested_macro shows that without that it fails.               *)
(***************************************************************************)
THEOREM NestedMacrosExpanded ==
    ASSUME NEW CONSTANT I, MadeOf(I)
    PROVE  Spec /\ NoLateDefinition => []FullyExpanded
<1> DEFINE Inv == StackInv /\ MaterialInv(I) /\ NoneReady
<1>1. Init => Inv
  <2> SUFFICES ASSUME Init PROVE Inv
    OBVIOUS
  <2>1. StackInv /\ MaterialInv(I)
    BY StackInit, MaterialInit
  <2>2. expanded = <<>> /\ frames = <<>>
    BY DEF Init
  <2>3. \A n : ~Awaited(n)
    BY <2>2 DEF Awaited
  <2> QED
    BY <2>1, <2>3 DEF NoneReady
<1>2. Inv /\ [Next]_vars /\ [DefinesNothingAwaited]_vars => Inv'
  <2> SUFFICES ASSUME Inv, [Next]_vars, [DefinesNothingAwaited]_vars PROVE Inv'
    OBVIOUS
  <2>1. StackInv' /\ MaterialInv(I)'
    BY StackStep, MaterialStep
  <2>2. CASE DefinesNothingAwaited
    BY <2>1, <2>2, ReadyStep
  <2>3. CASE UNCHANGED vars
    <3>1. UNCHANGED <<macros, expanded, frames>>
      BY <2>3 DEF vars, macroVars
    <3> QED
      BY <2>1, <3>1 DEF NoneReady, IsDefined, Awaited
  <2> QED
    BY <2>2, <2>3
<1>3. Inv => FullyExpanded
  <2> SUFFICES ASSUME Inv, HasItem, Item.kind = "use", IsDefined(Item.name), Rest # <<>>
               PROVE  FALSE
    BY DEF FullyExpanded, Handles
  <2>1. expanded # <<>> /\ IsIn(Item, expanded) /\ IsUse(Item, Item.name)
    BY ItemIn DEF Rest, IsUse
  <2>2. Awaited(Item.name)
    BY <2>1, AwaitedIn DEF UsedIn
  <2> QED
    BY <2>2 DEF NoneReady, IsDefined
<1> QED
  BY <1>1, <1>2, <1>3, PTL DEF Spec, NoLateDefinition

-----------------------------------------------------------------------------
(***************************************************************************)
(* Header guards.  A text of which all is in one branch: nothing of it is  *)
(* live where the condition of the branch does not hold.                   *)
(***************************************************************************)
CountTo(kinds, items, n) == Cardinality({ k \in 1 .. n : items[k].kind \in kinds })

LEMMA CountStep ==
    ASSUME NEW kinds, NEW items, NEW n \in Nat
    PROVE  /\ CountTo(kinds, items, n) \in Nat
           /\ items[n + 1].kind \in kinds =>
                 CountTo(kinds, items, n + 1) = CountTo(kinds, items, n) + 1
           /\ items[n + 1].kind \notin kinds =>
                 CountTo(kinds, items, n + 1) = CountTo(kinds, items, n)
<1> DEFINE S == { k \in 1 .. n : items[k].kind \in kinds }
           T == { k \in 1 .. n + 1 : items[k].kind \in kinds }
<1>1. IsFiniteSet(S)
  <2>1. IsFiniteSet(1 .. n)
    BY FS_Interval
  <2>2. S \subseteq 1 .. n
    OBVIOUS
  <2> HIDE DEF S
  <2> QED
    BY <2>1, <2>2, FS_Subset
<1>2. n + 1 \notin S /\ \A k : k \in 1 .. n + 1 <=> k \in 1 .. n \/ k = n + 1
  OBVIOUS
<1>3. items[n + 1].kind \in kinds => T = S \cup {n + 1}
  BY <1>2
<1>4. items[n + 1].kind \notin kinds => T = S
  BY <1>2
<1>5. CountTo(kinds, items, n) = Cardinality(S) /\ CountTo(kinds, items, n + 1) = Cardinality(T)
  BY DEF CountTo
<1> HIDE DEF S, T
<1>6. Cardinality(S) \in Nat /\ Cardinality(S \cup {n + 1}) = Cardinality(S) + 1
  BY <1>1, <1>2, FS_CardinalityType, FS_AddElement
<1> QED
  BY <1>3, <1>4, <1>5, <1>6

\* How deep the branches are after some items.
LEMMA DepthStep ==
    ASSUME NEW items, NEW n \in Nat
    PROVE  /\ Opened(items, n) \in Nat /\ Closed(items, n) \in Nat
           /\ items[n + 1].kind \in {"ifdef", "ifndef"} =>
                 /\ Opened(items, n + 1) = Opened(items, n) + 1
                 /\ Closed(items, n + 1) = Closed(items, n)
           /\ items[n + 1].kind = "endif" =>
                 /\ Opened(items, n + 1) = Opened(items, n)
                 /\ Closed(items, n + 1) = Closed(items, n) + 1
           /\ items[n + 1].kind \notin {"ifdef", "ifndef", "endif"} =>
                 /\ Opened(items, n + 1) = Opened(items, n)
                 /\ Closed(items, n + 1) = Closed(items, n)
<1>1. \A m : Opened(items, m) = CountTo({"ifdef", "ifndef"}, items, m)
  BY DEF Opened, CountTo
<1>2. \A m : Closed(items, m) = CountTo({"endif"}, items, m)
  BY DEF Closed, CountTo
<1> QED
  BY <1>1, <1>2, CountStep

LEMMA DepthZero ==
    ASSUME NEW items
    PROVE  Opened(items, 0) = 0 /\ Closed(items, 0) = 0
<1>1. { k \in 1 .. 0 : items[k].kind \in {"ifdef", "ifndef"} } = {}
  OBVIOUS
<1>2. { k \in 1 .. 0 : items[k].kind = "endif" } = {}
  OBVIOUS
<1> QED
  BY <1>1, <1>2, FS_EmptySet DEF Opened, Closed

\* What an item does to the branches that are met.
FollowedBy(nest, item, next) ==
    /\ Len(nest) \in Nat /\ \E M : next \in Seq(M)
    /\ item.kind \in {"ifdef", "ifndef"} =>
          /\ Len(next) = Len(nest) + 1
          /\ \A j \in 1 .. Len(nest) : next[j] = nest[j]
          /\ next[Len(nest) + 1].on <=> (IsDefined(item.name) # (item.kind = "ifndef"))
    /\ item.kind \in {"elsif", "else"} /\ nest # <<>> =>
          /\ Len(next) = Len(nest)
          /\ \A j \in 1 .. Len(nest) - 1 : next[j] = nest[j]
    /\ item.kind = "endif" /\ nest # <<>> =>
          /\ Len(next) = Len(nest) - 1
          /\ \A j \in 1 .. Len(nest) - 1 : next[j] = nest[j]
    /\ item.kind \notin Conditionals => next = nest

LEMMA FollowShape ==
    ASSUME NEW N, NEW nest \in Seq(N), NEW item
    PROVE  FollowedBy(nest, item, FollowIn(nest, item))
<1> DEFINE last == Last(nest)
           holds == IF item.kind = "else" THEN TRUE
                    ELSE IsDefined(item.name) # (item.kind = "ifndef")
<1>0. PICK next : next = FollowIn(nest, item)
  OBVIOUS
<1> SUFFICES FollowedBy(nest, item, next)
  BY <1>0
<1>1. Len(nest) \in Nat
  OBVIOUS
<1>2. CASE item.kind \in {"ifdef", "ifndef"}
  <2> DEFINE e == [on |-> holds, done |-> holds]
  <2>1. next = Append(nest, e)
    BY <1>0, <1>2 DEF FollowIn
  <2>2. e.on <=> (IsDefined(item.name) # (item.kind = "ifndef"))
    BY <1>2
  <2> HIDE DEF e
  <2>3. /\ next \in Seq(N \cup {e}) /\ Len(next) = Len(nest) + 1
        /\ \A j \in 1 .. Len(nest) : next[j] = nest[j]
        /\ next[Len(nest) + 1] = e
    BY <2>1, Pushed
  <2>4. next[Len(nest) + 1].on <=> (IsDefined(item.name) # (item.kind = "ifndef"))
    BY <2>2, <2>3
  <2> QED
    BY <1>1, <1>2, <2>3, <2>4 DEF FollowedBy, Conditionals
<1>3. CASE item.kind \in {"elsif", "else"} /\ nest # <<>>
  <2> DEFINE e == [on |-> ~last.done /\ holds, done |-> last.done \/ holds]
  <2>1. next = Front(nest) \o <<e>>
    BY <1>0, <1>3 DEF FollowIn
  <2> HIDE DEF e
  <2>2. next = WithTop(nest, e)
    BY <2>1 DEF WithTop
  <2>3. next \in Seq(N \cup {e}) /\ Len(next) = Len(nest)
    BY <1>3, <2>2, WithLastIsSeq
  <2>4. PICK n \in Nat : Len(nest) = n + 1
    BY <1>3, Height
  <2>5. \A j \in 1 .. n : next[j] = nest[j]
    BY <2>2, <2>4, WithLast
  <2>6. \A j \in 1 .. Len(nest) - 1 : next[j] = nest[j]
    BY <2>4, <2>5
  <2> QED
    BY <1>1, <1>3, <2>3, <2>6 DEF FollowedBy, Conditionals
<1>4. CASE item.kind = "endif" /\ nest # <<>>
  <2>1. next = Front(nest)
    BY <1>0, <1>4 DEF FollowIn
  <2>2. /\ next \in Seq(N) /\ Len(next) = Len(nest) - 1
        /\ \A j \in 1 .. Len(nest) - 1 : next[j] = nest[j]
    BY <1>4, <2>1, Popped
  <2> QED
    BY <1>1, <1>4, <2>2 DEF FollowedBy, Conditionals
<1>5. CASE ~(\/ item.kind \in {"ifdef", "ifndef"}
             \/ item.kind \in {"elsif", "else"} /\ nest # <<>>
             \/ item.kind = "endif" /\ nest # <<>>)
  <2>1. next = nest
    BY <1>0, <1>5 DEF FollowIn
  <2> QED
    BY <1>1, <1>5, <2>1 DEF FollowedBy
<1> QED
  BY <1>2, <1>3, <1>4, <1>5

Outcome(start, items) == FoldLeft(Reads, start, items)

LEMMA ReadsUnroll ==
    ASSUME NEW items, NEW n \in Nat, DOMAIN items = 1 .. n, NEW start
    PROVE  \E trace : /\ trace[0] = start
                      /\ trace[n] = Outcome(start, items)
                      /\ \A k \in 0 .. n - 1 : trace[k + 1] = Reads(trace[k], items[k + 1])
<1> DEFINE xs == [k \in 1 .. n |-> [over |-> "items", item |-> items[k]]]
           Step(it, s) == IF s = {} THEN start ELSE Reads(it[s \ {Max(s)}], items[Max(s)])
           fold == CHOOSE it : it = [s \in SUBSET DOMAIN items |-> Step(it, s)]
<1>1. Outcome(start, items) = fold[DOMAIN items]
  BY DEF Outcome, FoldLeft, MapThenFoldSet
<1>3. \A k \in 1 .. n : \A l : Added(l, xs[k]) = Reads(l, items[k])
  BY DEF Added
<1> HIDE DEF xs
<1>4. ASSUME NEW it, NEW s \in SUBSET (1 .. n) PROVE Step(it, s) = Folded(it, s, start, xs)
  <2>1. CASE s = {}
    BY <2>1 DEF Folded
  <2>2. CASE s # {}
    <3>1. Max(s) \in s
      BY <2>2, GreatestIndex
    <3>2. Max(s) \in 1 .. n
      BY <3>1
    <3> QED
      BY <1>3, <2>2, <3>2 DEF Folded
  <2> QED
    BY <2>1, <2>2
<1> HIDE DEF Step
<1>5. PICK it : IsFold(it, n, start, xs)
  BY FoldExists
<1>6. it = [s \in SUBSET DOMAIN items |-> Step(it, s)]
  BY <1>4, <1>5 DEF IsFold
<1>7. fold = [s \in SUBSET DOMAIN items |-> Step(fold, s)]
  BY <1>6
<1> HIDE DEF fold
<1>8. IsFold(fold, n, start, xs)
  BY <1>4, <1>7 DEF IsFold
<1>9. PICK trace : IsTrace(trace, n, start, xs, fold[1 .. n])
  BY <1>8, FoldUnrolls
<1>10. ASSUME NEW k \in 0 .. n - 1 PROVE trace[k + 1] = Reads(trace[k], items[k + 1])
  <2>1. k + 1 \in 1 .. n
    OBVIOUS
  <2>2. trace[k + 1] = Added(trace[k], xs[k + 1])
    BY <1>9 DEF IsTrace
  <2> QED
    BY <1>3, <2>1, <2>2
<1>11. trace[0] = start /\ trace[n] = fold[1 .. n]
  BY <1>9 DEF IsTrace
<1> QED
  BY <1>1, <1>10, <1>11

LEMMA ReadsFields ==
    ASSUME NEW state, NEW item
    PROVE  /\ Reads(state, item).nest = FollowIn(state.nest, item)
           /\ ~state.live /\ Reads(state, item).live =>
                 \/ item.kind \notin Conditionals /\ \A k \in DOMAIN state.nest : state.nest[k].on
                 \/ item.kind \in {"elsif", "else", "endif"} /\ state.nest = <<>>
<1>1. PICK nest, live :
          /\ Reads(state, item) = [nest |-> nest, live |-> live]
          /\ nest = FollowIn(state.nest, item)
          /\ live = (\/ state.live
                     \/ item.kind \notin Conditionals /\ \A k \in DOMAIN state.nest : state.nest[k].on
                     \/ item.kind \in {"elsif", "else", "endif"} /\ state.nest = <<>>)
  BY DEF Reads
<1>2. Reads(state, item).nest = nest /\ Reads(state, item).live = live
  BY <1>1
<1> QED
  BY <1>1, <1>2

\* No `else and no `elsif belongs to the outermost branch.
OneBranch(items) ==
    \A n \in DOMAIN items : items[n].kind \in {"elsif", "else"} =>
        Opened(items, n) # Closed(items, n) + 1

\* Arithmetic.
LEMMA NotOneMore ==
    ASSUME NEW l \in Nat, NEW c \in Nat, NEW o \in Nat, l + c = o, o # c + 1
    PROVE  l # 1
  OBVIOUS

LEMMA GuardedIsDead ==
    ASSUME NEW I, NEW f, text[f] \in Seq(I), IsGuarded(text[f]), OneBranch(text[f]),
           IsDefined(text[f][1].name)
    PROVE  ~LiveIn(f)
<1>1. PICK items \in Seq(I) : items = text[f]
  OBVIOUS
<1>2. PICK n \in Nat : n = Len(items) /\ DOMAIN items = 1 .. n
  OBVIOUS
<1>0. PICK start : start = [nest |-> <<>>, live |-> FALSE]
  OBVIOUS
<1>3. PICK trace : /\ trace[0] = start
                   /\ trace[n] = Outcome(start, items)
                   /\ \A k \in 0 .. n - 1 : trace[k + 1] = Reads(trace[k], items[k + 1])
  <2>1. n \in Nat /\ DOMAIN items = 1 .. n
    BY <1>2
  <2> QED
    BY <2>1, ReadsUnroll
<1>4. LiveIn(f) = trace[n].live
  <2>1. LiveIn(f) = Outcome([nest |-> <<>>, live |-> FALSE], text[f]).live
    BY DEF LiveIn, Outcome
  <2> QED
    BY <1>0, <1>1, <1>3, <2>1
<1>5. /\ n > 2 /\ items[1].kind = "ifndef" /\ IsDefined(items[1].name)
      /\ \A m \in 1 .. n - 1 : Opened(items, m) > Closed(items, m)
      /\ \A m \in 1 .. n : items[m].kind \in {"elsif", "else"} =>
            Opened(items, m) # Closed(items, m) + 1
  BY <1>1, <1>2 DEF IsGuarded, OneBranch
<1> DEFINE Dead(k) ==
              /\ \E N : trace[k].nest \in Seq(N)
              /\ Len(trace[k].nest) + Closed(items, k) = Opened(items, k)
              /\ ~trace[k].live
              /\ trace[k].nest # <<>> => ~trace[k].nest[1].on
           S == {k \in Nat : k <= n => Dead(k)}
<1>6. 0 \in S
  <2>1. trace[0].nest = <<>> /\ trace[0].live = FALSE
    BY <1>0, <1>3
  <2>2. (\A N : <<>> \in Seq(N)) /\ Len(<<>>) = 0
    OBVIOUS
  <2>3. Dead(0)
    BY <2>1, <2>2, DepthZero
  <2> HIDE DEF Dead
  <2> QED
    BY <2>3
<1>7. ASSUME NEW k \in Nat, k < n, k \in S PROVE k + 1 \in S
  <2>1. /\ k \in 0 .. n - 1 /\ k + 1 \in 1 .. n /\ k + 1 \in Nat /\ k <= n
        /\ (k = 0 \/ k \in 1 .. n - 1)
    BY <1>7
  <2>2. Dead(k)
    BY <1>7, <2>1
  <2>3. PICK nest, item, next : nest = trace[k].nest /\ item = items[k + 1] /\ next = trace[k + 1].nest
    OBVIOUS
  <2>4. PICK N : nest \in Seq(N)
    BY <2>2, <2>3
  <2>5. /\ Len(nest) + Closed(items, k) = Opened(items, k) /\ ~trace[k].live
        /\ nest # <<>> => ~nest[1].on
    BY <2>2, <2>3
  <2> HIDE DEF Dead
  <2>6. trace[k + 1] = Reads(trace[k], item)
    BY <1>3, <2>1, <2>3
  <2>7. /\ next = FollowIn(nest, item)
        /\ trace[k + 1].live =>
              \/ item.kind \notin Conditionals /\ \A j \in DOMAIN nest : nest[j].on
              \/ item.kind \in {"elsif", "else", "endif"} /\ nest = <<>>
    BY <2>3, <2>5, <2>6, ReadsFields
  <2>8. FollowedBy(nest, item, next)
    BY <2>4, <2>7, FollowShape
  <2>9. /\ Opened(items, k) \in Nat /\ Closed(items, k) \in Nat
        /\ item.kind \in {"ifdef", "ifndef"} =>
              /\ Opened(items, k + 1) = Opened(items, k) + 1
              /\ Closed(items, k + 1) = Closed(items, k)
        /\ item.kind = "endif" =>
              /\ Opened(items, k + 1) = Opened(items, k)
              /\ Closed(items, k + 1) = Closed(items, k) + 1
        /\ item.kind \notin {"ifdef", "ifndef", "endif"} =>
              /\ Opened(items, k + 1) = Opened(items, k)
              /\ Closed(items, k + 1) = Closed(items, k)
    BY <2>3, DepthStep
  <2>10. Len(nest) \in Nat /\ (nest = <<>> <=> Len(nest) = 0) /\ DOMAIN nest = 1 .. Len(nest)
    BY <2>4, NotEmpty
  <2>11. PICK M : next \in Seq(M)
    BY <2>8 DEF FollowedBy
  <2>12. Len(next) \in Nat /\ (next = <<>> <=> Len(next) = 0)
    BY <2>11, NotEmpty
  <2>13. CASE k = 0
    <3>1. item.kind = "ifndef" /\ IsDefined(item.name)
      BY <1>5, <2>3, <2>13
    <3>2. Opened(items, k) = 0 /\ Closed(items, k) = 0
      BY <2>13, DepthZero
    <3>3. Len(nest) = 0
      BY <2>5, <2>10, <3>2
    <3>4. Len(next) = 1 /\ ~next[1].on
      <4>1. /\ Len(next) = Len(nest) + 1
            /\ next[Len(nest) + 1].on <=> (IsDefined(item.name) # (item.kind = "ifndef"))
        BY <2>8, <3>1 DEF FollowedBy
      <4>2. Len(nest) + 1 = 1
        BY <3>3
      <4> QED
        BY <3>1, <4>1, <4>2
    <3>5. ~trace[k + 1].live
      BY <2>7, <3>1 DEF Conditionals
    <3>6. Len(next) + Closed(items, k + 1) = Opened(items, k + 1)
      <4>1. Opened(items, k + 1) = Opened(items, k) + 1 /\ Closed(items, k + 1) = Closed(items, k)
        BY <2>9, <3>1
      <4>2. Opened(items, k + 1) = 1 /\ Closed(items, k + 1) = 0
        BY <3>2, <4>1
      <4>3. Len(next) = 1
        BY <3>4
      <4> QED
        BY <4>2, <4>3
    <3> QED
      BY <2>1, <2>3, <2>11, <3>4, <3>5, <3>6 DEF Dead
  <2>14. PICK o \in Nat, c \in Nat, l \in Nat :
             o = Opened(items, k) /\ c = Closed(items, k) /\ l = Len(nest) /\ l + c = o
    BY <2>5, <2>9, <2>10
  <2>15. CASE k \in 1 .. n - 1
    <3>1. Len(nest) >= 1 /\ nest # <<>> /\ ~nest[1].on /\ 1 \in DOMAIN nest
      <4>1. Opened(items, k) > Closed(items, k)
        BY <1>5, <2>15
      <4>2. o > c
        BY <2>14, <4>1
      <4>3. l >= 1
        BY <2>14, <4>2
      <4>4. Len(nest) >= 1
        BY <2>14, <4>3
      <4>5. Len(nest) # 0 /\ 1 \in 1 .. Len(nest)
        BY <2>10, <4>4
      <4>6. nest # <<>>
        BY <2>10, <4>5
      <4> QED
        BY <2>5, <2>10, <4>4, <4>5, <4>6
    <3>2. ~trace[k + 1].live
      BY <2>7, <3>1
    <3>3. Len(next) + Closed(items, k + 1) = Opened(items, k + 1)
      <4>1. CASE item.kind \in {"ifdef", "ifndef"}
        <5>1. Len(next) = l + 1
          BY <2>8, <2>14, <4>1 DEF FollowedBy
        <5>2. Opened(items, k + 1) = o + 1 /\ Closed(items, k + 1) = c
          BY <2>9, <2>14, <4>1
        <5>3. l + 1 + c = o + 1
          BY <2>14
        <5> QED
          BY <5>1, <5>2, <5>3
      <4>2. CASE item.kind = "endif"
        <5>1. Len(next) = l - 1
          BY <2>8, <2>14, <3>1, <4>2 DEF FollowedBy
        <5>2. Opened(items, k + 1) = o /\ Closed(items, k + 1) = c + 1
          BY <2>9, <2>14, <4>2
        <5>3. l - 1 + (c + 1) = o
          BY <2>14
        <5> QED
          BY <5>1, <5>2, <5>3
      <4>3. CASE item.kind \in {"elsif", "else"}
        <5>1. Len(next) = l
          BY <2>8, <2>14, <3>1, <4>3 DEF FollowedBy
        <5>2. Opened(items, k + 1) = o /\ Closed(items, k + 1) = c
          BY <2>9, <2>14, <4>3
        <5> QED
          BY <2>14, <5>1, <5>2
      <4>4. CASE item.kind \notin Conditionals
        <5>1. Len(next) = l
          BY <2>8, <2>14, <4>4 DEF FollowedBy, Conditionals
        <5>2. Opened(items, k + 1) = o /\ Closed(items, k + 1) = c
          BY <2>9, <2>14, <4>4 DEF Conditionals
        <5> QED
          BY <2>14, <5>1, <5>2
      <4> QED
        BY <4>1, <4>2, <4>3, <4>4 DEF Conditionals
    <3>4. ASSUME next # <<>> PROVE ~next[1].on
      <4>1. CASE item.kind \in {"ifdef", "ifndef"}
        <5>1. 1 \in 1 .. Len(nest) /\ \A j \in 1 .. Len(nest) : next[j] = nest[j]
          BY <2>8, <2>10, <3>1, <4>1 DEF FollowedBy
        <5> QED
          BY <3>1, <5>1
      <4>2. CASE item.kind = "endif"
        <5>1. Len(next) = Len(nest) - 1 /\ \A j \in 1 .. Len(nest) - 1 : next[j] = nest[j]
          BY <2>8, <3>1, <4>2 DEF FollowedBy
        <5>2. Len(nest) - 1 # 0 /\ Len(nest) - 1 >= 0
          BY <2>10, <2>12, <3>1, <3>4, <5>1
        <5>3. 1 \in 1 .. Len(nest) - 1
          BY <2>10, <5>2
        <5>4. next[1] = nest[1]
          BY <5>1, <5>3
        <5> QED
          BY <3>1, <5>4
      <4>3. CASE item.kind \in {"elsif", "else"}
        <5>1. Len(next) = Len(nest) /\ \A j \in 1 .. Len(nest) - 1 : next[j] = nest[j]
          BY <2>8, <3>1, <4>3 DEF FollowedBy
        <5>2. Len(nest) # 1
          <6>1. Opened(items, k + 1) # Closed(items, k + 1) + 1
            BY <1>5, <2>1, <2>3, <4>3
          <6>2. Opened(items, k + 1) = Opened(items, k) /\ Closed(items, k + 1) = Closed(items, k)
            BY <2>9, <4>3
          <6>3. o # c + 1
            BY <2>14, <6>1, <6>2
          <6>4. l # 1
            <7>1. l + c = o
              BY <2>14
            <7> QED
              BY <6>3, <7>1, NotOneMore
          <6> QED
            BY <2>14, <6>4
        <5>3. 1 \in 1 .. Len(nest) - 1
          BY <2>10, <3>1, <5>2
        <5>4. next[1] = nest[1]
          BY <5>1, <5>3
        <5> QED
          BY <3>1, <5>4
      <4>4. CASE item.kind \notin Conditionals
        <5>1. next = nest
          BY <2>8, <4>4 DEF FollowedBy, Conditionals
        <5> QED
          BY <3>1, <5>1
      <4> QED
        BY <4>1, <4>2, <4>3, <4>4 DEF Conditionals
    <3> QED
      BY <2>1, <2>3, <2>11, <3>2, <3>3, <3>4 DEF Dead
  <2> QED
    BY <2>1, <2>13, <2>15
<1>8. n \in S
  <2>1. n \in 0 .. n
    OBVIOUS
  <2> HIDE DEF S
  <2> QED
    BY <1>6, <1>7, <2>1, CountUp
<1>9. ~trace[n].live
  BY <1>8
<1> QED
  BY <1>4, <1>9

(***************************************************************************)
(* A branch is taken only where all branches around it are.                *)
(***************************************************************************)
NestedIn(bs) ==
    \A j, k \in 1 .. Len(bs) : j < k /\ bs[k].currentActive => bs[j].currentActive

BranchInv ==
    /\ LiveInv
    /\ lexers # <<>> /\ ~skipping => nested = 0
    /\ skipping => branches # <<>>
    /\ NestedIn(branches)

LEMMA NestedPush ==
    ASSUME NEW n \in Nat, NEW bs, Len(bs) >= n, Len(bs) \in Nat, NestedIn(bs),
           NEW cs, Len(cs) = n + 1, \A k \in 1 .. n : cs[k] = bs[k],
           cs[n + 1].currentActive => n = 0 \/ bs[n].currentActive
    PROVE  NestedIn(cs)
<1> SUFFICES ASSUME NEW j \in 1 .. n + 1, NEW k \in 1 .. n + 1, j < k, cs[k].currentActive
             PROVE  cs[j].currentActive
  BY DEF NestedIn
<1>1. j \in 1 .. n /\ j \in 1 .. Len(bs) /\ cs[j] = bs[j]
  OBVIOUS
<1>2. CASE k \in 1 .. n
  <2>1. k \in 1 .. Len(bs) /\ cs[k] = bs[k]
    BY <1>2
  <2> QED
    BY <1>1, <2>1 DEF NestedIn
<1>3. CASE k = n + 1
  <2>1. n \in 1 .. Len(bs) /\ bs[n].currentActive
    BY <1>1, <1>3
  <2>2. CASE j = n
    BY <1>1, <2>1, <2>2
  <2>3. CASE j < n
    BY <1>1, <2>1, <2>3 DEF NestedIn
  <2> QED
    BY <1>1, <2>2, <2>3
<1> QED
  BY <1>2, <1>3

LEMMA NestedPop ==
    ASSUME NEW n \in Nat, NEW bs, Len(bs) >= n, Len(bs) \in Nat, NestedIn(bs),
           NEW cs, Len(cs) = n, \A k \in 1 .. n : cs[k] = bs[k]
    PROVE  NestedIn(cs)
<1> SUFFICES ASSUME NEW j \in 1 .. n, NEW k \in 1 .. n, j < k, cs[k].currentActive
             PROVE  cs[j].currentActive
  BY DEF NestedIn
<1>1. j \in 1 .. Len(bs) /\ k \in 1 .. Len(bs)
  OBVIOUS
<1> QED
  BY <1>1 DEF NestedIn

LEMMA BranchInit == Init => BranchInv
<1> SUFFICES ASSUME Init PROVE BranchInv
  OBVIOUS
<1>1. branches = <<>> /\ nested = 0 /\ skipping = FALSE
  BY DEF Init
<1>2. NestedIn(branches)
  BY <1>1 DEF NestedIn
<1> QED
  BY <1>1, <1>2, LiveInit DEF BranchInv

\* What the directives do to the branches.
LEMMA IfDefBranches ==
    ASSUME BranchInv, IfDef
    PROVE  /\ Len(branches) \in Nat /\ Len(branches') = Len(branches) + 1
           /\ \A k \in 1 .. Len(branches) : branches'[k] = branches[k]
           /\ nested' = 0 /\ skipping' \in BOOLEAN /\ branches' # <<>>
           /\ ~skipping' => Active
           /\ NestedIn(branches')
<1>1. PICK B : branches \in Seq(B)
  BY DEF BranchInv, LiveInv
<1>2. PICK taken \in BOOLEAN :
          /\ branches' = Append(branches, Branch(taken)) /\ skipping' = ~taken /\ nested' = 0
          /\ taken => Active
  <2> DEFINE t == Active /\ (IsDefined(Item.name) # (Item.kind = "ifndef"))
  <2>1. branches' = Append(branches, Branch(t)) /\ skipping' = ~t /\ nested' = 0
    BY DEF IfDef, TakeBranch
  <2>2. (t => Active) /\ t \in BOOLEAN
    OBVIOUS
  <2> HIDE DEF t
  <2> QED
    BY <2>1, <2>2
<1>3. PICK b : b = Branch(taken) /\ b.currentActive = taken
  <2>1. Branch(taken).currentActive = taken
    BY DEF Branch
  <2> QED
    BY <2>1
<1>4. /\ Len(branches) \in Nat /\ Len(branches') = Len(branches) + 1
      /\ \A k \in 1 .. Len(branches) : branches'[k] = branches[k]
      /\ branches'[Len(branches) + 1] = b
      /\ branches' # <<>>
  BY <1>1, <1>2, <1>3, Pushed
<1>5. Active => Len(branches) = 0 \/ branches[Len(branches)].currentActive
  BY <1>1, NotEmpty DEF Active, Last
<1>6. branches'[Len(branches) + 1].currentActive =>
          Len(branches) = 0 \/ branches[Len(branches)].currentActive
  BY <1>2, <1>3, <1>4, <1>5
<1>7. NestedIn(branches')
  <2>1. PICK n \in Nat : n = Len(branches)
    BY <1>4
  <2> QED
    BY <1>4, <1>6, <2>1, NestedPush DEF BranchInv
<1> QED
  BY <1>2, <1>4, <1>7

LEMMA ElseBranches ==
    ASSUME BranchInv, ElseBranch
    PROVE  /\ Len(branches) \in Nat /\ Len(branches') = Len(branches)
           /\ \A k \in 1 .. Len(branches) - 1 : branches'[k] = branches[k]
           /\ nested' = 0 /\ skipping' \in BOOLEAN
           /\ skipping' => branches' # <<>>
           /\ NestedIn(branches')
<1>1. PICK B : branches \in Seq(B)
  BY DEF BranchInv, LiveInv
<1>2. Len(branches) \in Nat /\ (branches = <<>> <=> Len(branches) = 0)
  BY <1>1, NotEmpty
<1>3. CASE branches = <<>> \/ Last(branches).hasElse
  <2>1. branches' = branches /\ skipping' = FALSE /\ nested' = 0
    BY <1>3 DEF ElseBranch, TakeBranch
  <2> QED
    BY <1>2, <2>1 DEF BranchInv
<1>4. CASE ~(branches = <<>> \/ Last(branches).hasElse)
  <2> DEFINE branch == Last(branches)
             parent == Len(branches) = 1 \/ branches[Len(branches) - 1].currentActive
             taken == ShouldTakeElse(branch, parent, Item.kind = "else" \/ IsDefined(Item.name))
             e == [anyTaken |-> branch.anyTaken \/ taken, currentActive |-> taken,
                   hasElse |-> Item.kind = "else"]
  <2>1. /\ branches' = WithTop(branches, e) /\ skipping' = ~taken /\ nested' = 0
    BY <1>4 DEF ElseBranch, TakeBranch, WithTop
  <2>2. (taken => parent) /\ taken \in BOOLEAN /\ e.currentActive = taken
    BY DEF ShouldTakeElse
  <2>3. PICK t \in BOOLEAN, b \in {e} : t = taken /\ b = e /\ b.currentActive = t
    BY <2>2
  <2>4. PICK n \in Nat : Len(branches) = n + 1
    BY <1>1, <1>4, Height
  <2>5. t => n = 0 \/ branches[n].currentActive
    <3>1. n + 1 - 1 = n /\ (n + 1 = 1 => n = 0)
      OBVIOUS
    <3> QED
      BY <2>2, <2>3, <2>4, <3>1
  <2> HIDE DEF e, taken, parent
  <2>6. branches' = WithTop(branches, b) /\ skipping' = ~t /\ nested' = 0
    BY <2>1, <2>3
  <2>7. /\ Len(branches') = n + 1
        /\ \A k \in 1 .. n : branches'[k] = branches[k]
        /\ branches'[n + 1] = b
    BY <1>1, <2>4, <2>6, WithLast
  <2>8. NestedIn(branches')
    <3>1. branches'[n + 1].currentActive => n = 0 \/ branches[n].currentActive
      BY <2>3, <2>5, <2>7
    <3> QED
      BY <1>2, <2>4, <2>7, <3>1, NestedPush DEF BranchInv
  <2>9. branches' # <<>>
    BY <1>1, <1>4, <2>6, WithLastIsSeq
  <2> QED
    BY <1>2, <2>3, <2>4, <2>6, <2>7, <2>8, <2>9
<1> QED
  BY <1>3, <1>4

LEMMA EndIfBranches ==
    ASSUME BranchInv, EndIf
    PROVE  /\ nested' = 0 /\ skipping' \in BOOLEAN
           /\ Len(branches) \in Nat
           /\ \/ Len(branches) = 0 /\ Len(branches') = 0 /\ branches' = branches /\ ~skipping'
              \/ /\ Len(branches) > 0 /\ Len(branches') = Len(branches) - 1
                 /\ \A k \in 1 .. Len(branches) - 1 : branches'[k] = branches[k]
                 /\ Len(branches) - 1 = 0 => ~skipping'
                 /\ Len(branches) - 1 # 0 =>
                       (skipping' <=> ~branches[Len(branches) - 1].currentActive)
           /\ skipping' => branches' # <<>>
           /\ NestedIn(branches')
<1>1. PICK B : branches \in Seq(B)
  BY DEF BranchInv, LiveInv
<1>2. Len(branches) \in Nat /\ (branches = <<>> <=> Len(branches) = 0)
  BY <1>1, NotEmpty
<1>3. CASE branches = <<>>
  <2>1. branches' = branches /\ skipping' = FALSE /\ nested' = 0
    BY <1>3 DEF EndIf, TakeBranch
  <2> QED
    BY <1>2, <1>3, <2>1 DEF BranchInv
<1>4. CASE branches # <<>>
  <2>1. PICK left : left = Front(branches)
    OBVIOUS
  <2>2. /\ branches' = left /\ nested' = 0
        /\ skipping' = ~(left = <<>> \/ Last(left).currentActive)
    BY <1>4, <2>1 DEF EndIf, TakeBranch
  <2>3. /\ left \in Seq(B) /\ Len(left) = Len(branches) - 1 /\ Len(branches) >= 1
        /\ \A k \in 1 .. Len(branches) - 1 : left[k] = branches[k]
    BY <1>1, <1>4, <2>1, Popped
  <2>4. PICK n \in Nat : n = Len(branches) - 1
    BY <1>2, <2>3
  <2>5. NestedIn(left)
    <3>1. NestedIn(branches)
      BY DEF BranchInv
    <3> QED
      BY <1>2, <2>3, <2>4, <3>1, NestedPop
  <2>6. left = <<>> <=> Len(left) = 0
    BY <2>3, NotEmpty
  <2>7. left # <<>> => Last(left) = branches[n]
    <3>1. Last(left) = left[n]
      BY <2>3, <2>4 DEF Last
    <3> QED
      BY <2>3, <2>4, <2>6, <3>1
  <2>8. /\ n = 0 => ~skipping' /\ left = <<>>
        /\ n # 0 => (skipping' <=> ~branches[n].currentActive) /\ left # <<>>
        /\ skipping' \in BOOLEAN
    BY <2>2, <2>3, <2>4, <2>6, <2>7
  <2> QED
    BY <1>2, <2>2, <2>3, <2>4, <2>5, <2>8
<1> QED
  BY <1>3, <1>4

LEMMA BranchStep ==
    ASSUME BranchInv, [Next]_vars
    PROVE  BranchInv'
<1>1. LiveInv'
  BY LiveStep DEF BranchInv
<1>2. SUFFICES /\ lexers' # <<>> /\ ~skipping' => nested' = 0
               /\ skipping' => branches' # <<>>
               /\ NestedIn(branches')
  BY <1>1 DEF BranchInv, NestedIn
<1>3. CASE IfDef
  BY <1>3, IfDefBranches
<1>4. CASE ElseBranch
  BY <1>4, ElseBranches
<1>5. CASE EndIf
  BY <1>5, EndIfBranches
<1>6. CASE Skip
  <2>1. branches' = branches /\ skipping = TRUE
    BY <1>6 DEF Skip, BranchInv, LiveInv
  <2>2. (~skipping' => nested = 0 /\ nested' = nested)
    BY <1>6, <2>1 DEF Skip, PutBack, StopsSkipping
  <2> QED
    BY <2>1, <2>2 DEF BranchInv
<1>7. CASE EndOfFile
  <2>1. /\ branches' = branches /\ nested' = nested /\ skipping' = (skipping /\ lexers' # <<>>)
        /\ lexers # <<>>
    BY <1>7 DEF EndOfFile, AtEnd
  <2> QED
    BY <2>1 DEF BranchInv
<1>8. CASE Token \/ Define \/ Undef \/ UndefineAll \/ MacroUsage \/ Include \/ Once
             \/ BeginKeywords \/ EndKeywords
  <2>1. UNCHANGED branchVars /\ lexers # <<>>
    BY <1>8 DEF Token, Define, Undef, UndefineAll, MacroUsage, Include, PushSource, Once,
                BeginKeywords, EndKeywords, Handles, HasItem
  <2> QED
    BY <2>1 DEF BranchInv, branchVars
<1>9. CASE UNCHANGED vars
  BY <1>9 DEF vars, branchVars, sourceVars, BranchInv
<1> QED
  BY <1>3, <1>4, <1>5, <1>6, <1>7, <1>8, <1>9 DEF Next

(***************************************************************************)
(* What has been read of a file that may turn out to be guarded, while it  *)
(* is read and while it waits for one that it includes.                    *)
(***************************************************************************)

\* The first n items are an `ifndef, a `define, and what is inside of them.
Inside(items, guard, n) ==
    /\ n \in Nat /\ n >= 2
    /\ items[1].kind = "ifndef" /\ items[1].name = guard.ifndef
    /\ items[2].kind = "define" /\ items[2].name = guard.define
    /\ \A m \in 1 .. n : Opened(items, m) > Closed(items, m)

\* The branch around the file, if any, is taken.
ActiveAround(bs, depth) == depth = 0 \/ bs[depth].currentActive

\* The file waits until the one above ends.
WaitsInGuard(guard, items, n, above) ==
    /\ guard.state \in {"ifndef", "endif", "cancelled"}
    /\ guard.state = "ifndef" => n = 0 /\ guard.depth = 0
    /\ guard.state = "endif" =>
          /\ Inside(items, guard, n)
          /\ above.depth + Closed(items, n) = guard.depth + Opened(items, n)

\* The file is read; pending: its next item is a sibling of the branch.
ReadInGuard(guard, items, n, pending, bs, skips, deep) ==
    /\ guard.state \in {"ifndef", "define", "endif", "eof", "cancelled"}
    /\ guard.state = "ifndef" =>
          /\ Len(bs) >= guard.depth
          /\ n = 0 \/ Len(bs) > guard.depth
          /\ skips => Len(bs) > guard.depth
    /\ guard.state = "define" =>
          /\ items[1].kind = "ifndef" /\ items[1].name = guard.ifndef
          /\ \/ /\ n = 1 /\ ~skips /\ Len(bs) = guard.depth + 1
                /\ ActiveAround(bs, guard.depth)
             \/ skips
             \/ pending
    /\ guard.state = "endif" =>
          /\ Inside(items, guard, n)
          /\ Len(bs) + deep + Closed(items, n) = guard.depth + Opened(items, n)
          /\ Len(bs) > guard.depth
          /\ ActiveAround(bs, guard.depth)
    /\ guard.state = "eof" =>
          /\ ~skips /\ n \in 1 .. Len(items)
          /\ Inside(items, guard, n - 1)
          /\ Opened(items, n) = Closed(items, n)

IsGuard(g) ==
    /\ g = [state |-> g.state, ifndef |-> g.ifndef, define |-> g.define, depth |-> g.depth]
    /\ g.depth \in Nat

GuardRecord(state, ifndef, define, depth) ==
    [state |-> state, ifndef |-> ifndef, define |-> define, depth |-> depth]

LEMMA GuardMoves ==
    ASSUME NEW guard, IsGuard(guard), NEW state, NEW name
    PROVE  /\ [guard EXCEPT !.state = state] =
                 GuardRecord(state, guard.ifndef, guard.define, guard.depth)
           /\ [guard EXCEPT !.state = state, !.ifndef = name] =
                 GuardRecord(state, name, guard.define, guard.depth)
           /\ [guard EXCEPT !.state = state, !.define = name] =
                 GuardRecord(state, guard.ifndef, name, guard.depth)
<1>1. PICK st, ifn, def, dep :
          /\ guard = [state |-> st, ifndef |-> ifn, define |-> def, depth |-> dep]
          /\ ifn = guard.ifndef /\ def = guard.define /\ dep = guard.depth
  BY DEF IsGuard
<1>2. /\ [guard EXCEPT !.state = state, !.ifndef = name] =
            [[guard EXCEPT !.state = state] EXCEPT !.ifndef = name]
      /\ [guard EXCEPT !.state = state, !.define = name] =
            [[guard EXCEPT !.state = state] EXCEPT !.define = name]
  BY <1>1
<1>3. PICK moved : moved = [guard EXCEPT !.state = state]
  OBVIOUS
<1>4. moved = [state |-> state, ifndef |-> ifn, define |-> def, depth |-> dep]
  BY <1>1, <1>3
<1>5. /\ [moved EXCEPT !.ifndef = name] =
            [state |-> state, ifndef |-> name, define |-> def, depth |-> dep]
      /\ [moved EXCEPT !.define = name] =
            [state |-> state, ifndef |-> ifn, define |-> name, depth |-> dep]
  BY <1>4
<1> QED
  BY <1>1, <1>2, <1>3, <1>4, <1>5 DEF GuardRecord

LEMMA RecordIsGuard ==
    ASSUME NEW state, NEW ifndef, NEW define, NEW depth \in Nat
    PROVE  LET g == GuardRecord(state, ifndef, define, depth)
           IN  /\ IsGuard(g) /\ g.state = state /\ g.ifndef = ifndef /\ g.define = define
               /\ g.depth = depth
  BY DEF GuardRecord, IsGuard

\* The guard of the file when an item was looked at.
Seen(guard, kind) ==
    IF Cancels(guard.state, kind) THEN [guard EXCEPT !.state = "cancelled"] ELSE guard

LEMMA SeenIs ==
    ASSUME NEW guard, IsGuard(guard), NEW kind
    PROVE  /\ IsGuard(Seen(guard, kind)) /\ Seen(guard, kind).depth = guard.depth
           /\ Cancels(guard.state, kind) => Seen(guard, kind).state = "cancelled"
           /\ ~Cancels(guard.state, kind) => Seen(guard, kind) = guard
<1>1. [guard EXCEPT !.state = "cancelled"] =
         [state |-> "cancelled", ifndef |-> guard.ifndef, define |-> guard.define,
          depth |-> guard.depth]
  BY DEF IsGuard
<1> QED
  BY <1>1 DEF Seen, IsGuard

\* A cancelled guard stays what it is.
LEMMA CancelledRead ==
    ASSUME NEW guard, guard.state = "cancelled"
    PROVE  \A items, n, pending, bs, skips, deep :
               ReadInGuard(guard, items, n, pending, bs, skips, deep)
  BY DEF ReadInGuard

\* One more item that is inside.
LEMMA InsideStep ==
    ASSUME NEW items, NEW guard, NEW n, Inside(items, guard, n),
           Opened(items, n + 1) > Closed(items, n + 1)
    PROVE  Inside(items, guard, n + 1)
<1>1. n \in Nat /\ n >= 2
  BY DEF Inside
<1>2. \A m \in 1 .. n + 1 : m \in 1 .. n \/ m = n + 1
  BY <1>1
<1>3. \A m \in 1 .. n + 1 : Opened(items, m) > Closed(items, m)
  BY <1>2 DEF Inside
<1> QED
  BY <1>1, <1>3 DEF Inside

\* An item that is not about branches.
LEMMA PlainRead ==
    ASSUME NEW guard, IsGuard(guard), NEW items, NEW n \in Nat, NEW bs, Len(bs) \in Nat,
           ReadInGuard(guard, items, n, FALSE, bs, FALSE, 0),
           NEW kind, kind \notin Conditionals, ~(guard.state = "define" /\ kind = "define"),
           NEW m, \/ m = n + 1 /\ items[n + 1].kind = kind
                  \/ m = n
    PROVE  /\ Seen(guard, kind).state \in {"endif", "cancelled"}
           /\ \A pending : ReadInGuard(Seen(guard, kind), items, m, pending, bs, FALSE, 0)
<1>1. CASE Cancels(guard.state, kind)
  BY <1>1, SeenIs, CancelledRead
<1>2. CASE ~Cancels(guard.state, kind)
  <2>1. Seen(guard, kind) = guard
    BY <1>2, SeenIs
  <2>2. guard.state \in {"endif", "cancelled"}
    BY <1>2 DEF Cancels, Conditionals, ReadInGuard
  <2>3. CASE guard.state = "cancelled"
    BY <2>1, <2>3, CancelledRead
  <2>4. CASE guard.state = "endif"
    <3>1. /\ Inside(items, guard, n)
          /\ Len(bs) + 0 + Closed(items, n) = guard.depth + Opened(items, n)
          /\ Len(bs) > guard.depth /\ ActiveAround(bs, guard.depth)
      BY <2>4 DEF ReadInGuard
    <3>2. /\ Inside(items, guard, m)
          /\ Len(bs) + 0 + Closed(items, m) = guard.depth + Opened(items, m)
      <4>1. CASE m = n
        BY <3>1, <4>1
      <4>2. CASE m = n + 1 /\ items[n + 1].kind = kind
        <5>1. /\ Opened(items, n + 1) = Opened(items, n)
              /\ Closed(items, n + 1) = Closed(items, n)
          BY <4>2, DepthStep DEF Conditionals
        <5>2. Opened(items, n) > Closed(items, n)
          BY <3>1 DEF Inside
        <5> QED
          BY <3>1, <4>2, <5>1, <5>2, InsideStep
      <4> QED
        BY <4>1, <4>2
    <3> QED
      BY <2>1, <2>4, <3>1, <3>2 DEF ReadInGuard
  <2> QED
    BY <2>2, <2>3, <2>4
<1> QED
  BY <1>1, <1>2

\* The `define of the guard.
LEMMA DefineRead ==
    ASSUME NEW guard, IsGuard(guard), guard.state = "define",
           NEW items, NEW n \in Nat, NEW bs, Len(bs) \in Nat,
           ReadInGuard(guard, items, n, FALSE, bs, FALSE, 0),
           items[n + 1].kind = "define"
    PROVE  LET after == [guard EXCEPT !.state = "endif", !.define = items[n + 1].name]
           IN  /\ Len(bs) = guard.depth + 1
               /\ IsGuard(after) /\ after.depth = guard.depth /\ after.state = "endif"
               /\ \A pending : ReadInGuard(after, items, n + 1, pending, bs, FALSE, 0)
<1>1. PICK after : after = [guard EXCEPT !.state = "endif", !.define = items[n + 1].name]
  OBVIOUS
<1>2. /\ IsGuard(after) /\ after.depth = guard.depth /\ after.state = "endif"
      /\ after.ifndef = guard.ifndef /\ after.define = items[n + 1].name
  <2>1. PICK name : name = items[n + 1].name
    OBVIOUS
  <2>2. after = GuardRecord("endif", guard.ifndef, name, guard.depth)
    BY <1>1, <2>1, GuardMoves
  <2>3. guard.depth \in Nat
    BY DEF IsGuard
  <2> QED
    BY <2>1, <2>2, <2>3, RecordIsGuard
<1>3. /\ items[1].kind = "ifndef" /\ items[1].name = guard.ifndef
      /\ n = 1 /\ Len(bs) = guard.depth + 1 /\ ActiveAround(bs, guard.depth)
  BY DEF ReadInGuard
<1>4. Opened(items, 1) = 1 /\ Closed(items, 1) = 0
  <2>1. 0 + 1 = 1 /\ 0 \in Nat
    OBVIOUS
  <2>2. /\ Opened(items, 0 + 1) = Opened(items, 0) + 1
        /\ Closed(items, 0 + 1) = Closed(items, 0)
    BY <1>3, <2>1, DepthStep
  <2> QED
    BY <2>1, <2>2, DepthZero
<1>5. Opened(items, 2) = 1 /\ Closed(items, 2) = 0
  <2>1. 1 + 1 = 2 /\ 1 \in Nat
    OBVIOUS
  <2>2. items[1 + 1].kind \notin {"ifdef", "ifndef", "endif"}
    BY <1>3
  <2>3. /\ Opened(items, 1 + 1) = Opened(items, 1)
        /\ Closed(items, 1 + 1) = Closed(items, 1)
    BY <2>1, <2>2, DepthStep
  <2> QED
    BY <1>4, <2>1, <2>3
<1>6. Inside(items, after, n + 1)
  <2>1. \A m \in 1 .. 2 : m = 1 \/ m = 2
    OBVIOUS
  <2>2. \A m \in 1 .. 2 : Opened(items, m) > Closed(items, m)
    BY <1>4, <1>5, <2>1
  <2> QED
    BY <1>2, <1>3, <2>2 DEF Inside
<1>7. guard.depth \in Nat
  BY DEF IsGuard
<1>8. Len(bs) + 0 + Closed(items, n + 1) = after.depth + Opened(items, n + 1)
  BY <1>2, <1>3, <1>5, <1>7
<1>9. \A pending : ReadInGuard(after, items, n + 1, pending, bs, FALSE, 0)
  <2>1. Len(bs) > after.depth /\ ActiveAround(bs, after.depth)
    BY <1>2, <1>3, <1>7
  <2> QED
    BY <1>2, <1>6, <1>8, <2>1 DEF ReadInGuard
<1> QED
  BY <1>1, <1>2, <1>3, <1>9

\* Branches open inside of a file: as many as it opened and did not close.
LEMMA Balance ==
    ASSUME NEW l \in Nat, NEW d \in Nat, NEW c \in Nat, NEW o \in Nat, NEW g \in Nat,
           l + d + c = g + o, l > g
    PROVE  /\ o > c
           /\ l + (d + 1) + c = g + (o + 1) /\ o + 1 > c
           /\ d > 0 => l + (d - 1) + (c + 1) = g + o /\ o > c + 1
           /\ l - 1 # g => l - 1 > g /\ (l - 1) + d + (c + 1) = g + o
           /\ l - 1 # g /\ d = 0 => o > c + 1
           /\ l - 1 = g /\ d = 0 => o = c + 1
  OBVIOUS

\* A branch begins in a file that is guarded so far, or begins the guard.
BeginsBranch(guard, items, n, bs, pending, kind, m, name, cs, skips) ==
    /\ IsGuard(guard) /\ n \in Nat /\ Len(bs) \in Nat
    /\ ReadInGuard(guard, items, n, pending, bs, FALSE, 0)
    /\ kind \in {"ifdef", "ifndef"}
    /\ \/ m = n + 1 /\ items[n + 1].kind = kind /\ items[n + 1].name = name
       \/ m = n /\ guard.state = "cancelled"
    /\ Len(cs) = Len(bs) + 1 /\ \A k \in 1 .. Len(bs) : cs[k] = bs[k]
    /\ ~skips => Len(bs) = 0 \/ bs[Len(bs)].currentActive

LEMMA IfDefRead ==
    ASSUME NEW guard, NEW items, NEW n, NEW bs, NEW pending, NEW kind, NEW m, NEW name,
           NEW cs, NEW skips,
           BeginsBranch(guard, items, n, bs, pending, kind, m, name, cs, skips)
    PROVE  LET seen == Seen(guard, kind)
               after == IF kind = "ifndef" /\ seen.state = "ifndef" /\ Len(bs) = seen.depth
                          THEN [seen EXCEPT !.state = "define", !.ifndef = name] ELSE seen
           IN  /\ IsGuard(after) /\ after.depth = guard.depth
               /\ guard.state = "cancelled" => after.state = "cancelled"
               /\ \A p : ReadInGuard(after, items, m, p, cs, skips, 0)
<1> USE DEF BeginsBranch
<1>1. PICK seen : seen = Seen(guard, kind)
  OBVIOUS
<1>2. PICK after : after = IF kind = "ifndef" /\ seen.state = "ifndef" /\ Len(bs) = seen.depth
                             THEN [seen EXCEPT !.state = "define", !.ifndef = name] ELSE seen
  OBVIOUS
<1>3. SUFFICES /\ IsGuard(after) /\ after.depth = guard.depth
               /\ guard.state = "cancelled" => after.state = "cancelled"
               /\ \A p : ReadInGuard(after, items, m, p, cs, skips, 0)
  BY <1>1, <1>2
<1>4. guard.depth \in Nat
  BY DEF IsGuard
<1>5. CASE Cancels(guard.state, kind) \/ guard.state = "cancelled"
  <2>1. seen.state = "cancelled" /\ IsGuard(seen) /\ seen.depth = guard.depth
    BY <1>1, <1>5, SeenIs
  <2>2. after = seen
    BY <1>2, <2>1
  <2> QED
    BY <2>1, <2>2, CancelledRead
<1>6. CASE ~(Cancels(guard.state, kind) \/ guard.state = "cancelled")
  <2>1. seen = guard
    BY <1>1, <1>6, SeenIs
  <2>2. m = n + 1 /\ items[n + 1].kind = kind /\ items[n + 1].name = name
    BY <1>6
  <2>3. guard.state = "endif" \/ (guard.state = "ifndef" /\ kind = "ifndef")
    <3>1. \/ guard.state = "ifndef" \/ guard.state = "define" \/ guard.state = "endif"
          \/ guard.state = "eof" \/ guard.state = "cancelled"
      BY DEF ReadInGuard
    <3>2. guard.state # "eof" /\ guard.state # "cancelled"
      BY <1>6, Zenon DEF Cancels
    <3>3. kind # "define"
      OBVIOUS
    <3>4. guard.state # "define"
      BY <1>6, <3>3, Zenon DEF Cancels
    <3>5. guard.state = "ifndef" => kind = "ifndef"
      BY <1>6, Zenon DEF Cancels
    <3> QED
      BY <3>1, <3>2, <3>4, <3>5
  <2>4. CASE guard.state = "endif"
    <3>1. after = guard
      BY <1>2, <2>1, <2>4
    <3>2. /\ Inside(items, guard, n)
          /\ Len(bs) + 0 + Closed(items, n) = guard.depth + Opened(items, n)
          /\ Len(bs) > guard.depth /\ ActiveAround(bs, guard.depth)
      BY <2>4 DEF ReadInGuard
    <3>3. PICK o \in Nat, c \in Nat :
              /\ Opened(items, n) = o /\ Closed(items, n) = c
              /\ Opened(items, n + 1) = o + 1 /\ Closed(items, n + 1) = c
      BY <2>2, DepthStep
    <3>4. Len(bs) + 0 + c = guard.depth + o /\ Len(bs) > guard.depth
      BY <3>2, <3>3
    <3>5. /\ Len(cs) + 0 + c = guard.depth + (o + 1) /\ Len(cs) > guard.depth /\ o + 1 > c
      BY <1>4, <3>4
    <3>6. Inside(items, guard, m) /\ Len(cs) + 0 + Closed(items, m) = guard.depth + Opened(items, m)
      BY <2>2, <3>2, <3>3, <3>5, InsideStep
    <3>7. ActiveAround(cs, guard.depth)
      BY <1>4, <3>2 DEF ActiveAround
    <3> QED
      BY <2>4, <3>1, <3>5, <3>6, <3>7 DEF ReadInGuard
  <2>5. CASE guard.state = "ifndef" /\ kind = "ifndef"
    <3>1. Len(bs) >= guard.depth /\ (n = 0 \/ Len(bs) > guard.depth)
      BY <2>5 DEF ReadInGuard
    <3>2. CASE Len(bs) = guard.depth
      <4>1. n = 0 /\ m = 1
        <5>1. n = 0
          BY <1>4, <3>1, <3>2
        <5>2. m = n + 1
          BY <2>2, ZenonT(60)
        <5> QED
          BY <5>1, <5>2
      <4>2. after = GuardRecord("define", name, guard.define, guard.depth)
        <5>1. after = [guard EXCEPT !.state = "define", !.ifndef = name]
          BY <1>2, <2>1, <2>5, <3>2, Zenon
        <5> QED
          BY <5>1, GuardMoves
      <4>3. /\ IsGuard(after) /\ after.state = "define" /\ after.ifndef = name
            /\ after.depth = guard.depth
        BY <1>4, <4>2, RecordIsGuard
      <4>4. items[1].kind = "ifndef" /\ items[1].name = after.ifndef
        BY <2>2, <2>5, <4>1, <4>3
      <4>5. ~skips => ActiveAround(cs, guard.depth)
        BY <1>4, <3>2 DEF ActiveAround
      <4>6. Len(cs) = after.depth + 1
        BY <3>2, <4>3
      <4> QED
        BY <2>5, <4>1, <4>3, <4>4, <4>5, <4>6 DEF ReadInGuard
    <3>3. CASE Len(bs) # guard.depth
      <4>1. after = guard
        BY <1>2, <2>1, <3>3
      <4>2. Len(cs) > guard.depth /\ Len(cs) >= guard.depth
        BY <1>4, <3>1
      <4> QED
        BY <2>5, <4>1, <4>2 DEF ReadInGuard
    <3> QED
      BY <3>2, <3>3
  <2> QED
    BY <2>3, <2>4, <2>5
<1> QED
  BY <1>5, <1>6

\* Another branch of the chain.
LEMMA ElseRead ==
    ASSUME NEW guard, IsGuard(guard), NEW items, NEW n \in Nat, NEW bs, Len(bs) \in Nat,
           NEW pending, ReadInGuard(guard, items, n, pending, bs, FALSE, 0),
           NEW kind \in {"elsif", "else"}, NEW m,
           \/ m = n + 1 /\ items[n + 1].kind = kind
           \/ m = n /\ guard.state = "cancelled",
           NEW cs, Len(cs) = Len(bs), \A k \in 1 .. Len(bs) - 1 : cs[k] = bs[k]
    PROVE  LET seen == Seen(guard, kind)
           IN  \A p, skips : ReadInGuard(seen, items, m, p, cs, skips, 0)
<1>1. PICK seen : seen = Seen(guard, kind)
  OBVIOUS
<1>2. CASE Cancels(guard.state, kind) \/ guard.state = "cancelled"
  <2>1. Seen(guard, kind).state = "cancelled"
    BY <1>2, SeenIs
  <2> QED
    BY <2>1, CancelledRead
<1>3. CASE ~(Cancels(guard.state, kind) \/ guard.state = "cancelled")
  <2>1. Seen(guard, kind) = guard
    BY <1>3, SeenIs
  <2>2. m = n + 1 /\ items[n + 1].kind = kind /\ guard.state = "endif"
    BY <1>3 DEF Cancels, ReadInGuard
  <2>3. /\ Inside(items, guard, n)
        /\ Len(bs) + 0 + Closed(items, n) = guard.depth + Opened(items, n)
        /\ Len(bs) > guard.depth /\ ActiveAround(bs, guard.depth)
    BY <2>2 DEF ReadInGuard
  <2>4. Opened(items, m) = Opened(items, n) /\ Closed(items, m) = Closed(items, n)
    BY <2>2, DepthStep
  <2>5. Inside(items, guard, m)
    <3>1. Opened(items, n) > Closed(items, n)
      BY <2>3 DEF Inside
    <3> QED
      BY <2>2, <2>3, <2>4, <3>1, InsideStep
  <2>6. ActiveAround(cs, guard.depth)
    <3>1. guard.depth \in Nat
      BY DEF IsGuard
    <3> QED
      BY <2>3, <3>1 DEF ActiveAround
  <2> QED
    BY <2>1, <2>2, <2>3, <2>4, <2>5, <2>6 DEF ReadInGuard
<1> QED
  BY <1>2, <1>3

\* A branch ends, perhaps the one of the guard.
EndsBranch(guard, items, n, bs, pending, m, cs, skips) ==
    /\ IsGuard(guard) /\ n \in Nat /\ Len(bs) \in Nat
    /\ ReadInGuard(guard, items, n, pending, bs, FALSE, 0)
    /\ \/ m = n + 1 /\ items[n + 1].kind = "endif" /\ m \in 1 .. Len(items)
       \/ m = n /\ guard.state = "cancelled"
    /\ Len(bs) > 0 /\ Len(cs) = Len(bs) - 1 /\ \A k \in 1 .. Len(bs) - 1 : cs[k] = bs[k]
    /\ Len(bs) - 1 = 0 => ~skips
    /\ Len(bs) - 1 # 0 => (skips <=> ~bs[Len(bs) - 1].currentActive)

LEMMA EndIfRead ==
    ASSUME NEW guard, NEW items, NEW n, NEW bs, NEW pending, NEW m, NEW cs, NEW skips,
           EndsBranch(guard, items, n, bs, pending, m, cs, skips)
    PROVE  LET seen == Seen(guard, "endif")
               after == IF seen.state = "endif" /\ Len(cs) = seen.depth
                          THEN [seen EXCEPT !.state = "eof"] ELSE seen
           IN  /\ IsGuard(after) /\ after.depth = guard.depth
               /\ guard.state = "cancelled" => after.state = "cancelled"
               /\ \A p : ReadInGuard(after, items, m, p, cs, skips, 0)
<1> USE DEF EndsBranch
<1>1. PICK seen : seen = Seen(guard, "endif")
  OBVIOUS
<1>2. PICK after : after = IF seen.state = "endif" /\ Len(cs) = seen.depth
                             THEN [seen EXCEPT !.state = "eof"] ELSE seen
  OBVIOUS
<1>3. SUFFICES /\ IsGuard(after) /\ after.depth = guard.depth
               /\ guard.state = "cancelled" => after.state = "cancelled"
               /\ \A p : ReadInGuard(after, items, m, p, cs, skips, 0)
  BY <1>1, <1>2
<1>4. guard.depth \in Nat
  BY DEF IsGuard
<1>5. CASE Cancels(guard.state, "endif") \/ guard.state = "cancelled"
  <2>1. seen.state = "cancelled" /\ IsGuard(seen) /\ seen.depth = guard.depth
    BY <1>1, <1>5, SeenIs
  <2>2. after = seen
    BY <1>2, <2>1
  <2> QED
    BY <2>1, <2>2, CancelledRead
<1>6. CASE ~(Cancels(guard.state, "endif") \/ guard.state = "cancelled")
  <2>1. seen = guard
    BY <1>1, <1>6, SeenIs
  <2>2. m = n + 1 /\ items[n + 1].kind = "endif" /\ m \in 1 .. Len(items) /\ guard.state = "endif"
    BY <1>6 DEF Cancels, ReadInGuard
  <2>3. /\ Inside(items, guard, n)
        /\ Len(bs) + 0 + Closed(items, n) = guard.depth + Opened(items, n)
        /\ Len(bs) > guard.depth /\ ActiveAround(bs, guard.depth)
    BY <2>2 DEF ReadInGuard
  <2>4. PICK o \in Nat, c \in Nat :
            /\ Opened(items, n) = o /\ Closed(items, n) = c
            /\ Opened(items, m) = o /\ Closed(items, m) = c + 1
    BY <2>2, DepthStep
  <2>4a. Len(bs) + 0 + c = guard.depth + o
    BY <2>3, <2>4
  <2>5. CASE Len(cs) = guard.depth
    <3>1. after = GuardRecord("eof", guard.ifndef, guard.define, guard.depth)
      BY <1>2, <2>1, <2>2, <2>5, GuardMoves
    <3>2. /\ IsGuard(after) /\ after.state = "eof" /\ after.depth = guard.depth
          /\ after.ifndef = guard.ifndef /\ after.define = guard.define
      BY <1>4, <3>1, RecordIsGuard
    <3>3. Inside(items, after, m - 1)
      <4>1. m - 1 = n
        BY <2>2
      <4>2. Inside(items, after, n)
        BY <2>3, <3>2 DEF Inside
      <4> QED
        BY <4>1, <4>2
    <3>4. Opened(items, m) = Closed(items, m)
      <4>1. PICK l \in Nat : l = Len(bs) /\ Len(cs) = l - 1 /\ l > guard.depth
        BY <2>3
      <4>2. l - 1 = guard.depth /\ l + 0 + c = guard.depth + o
        BY <2>4a, <2>5, <4>1
      <4>3. o = c + 1
        BY <1>4, <4>1, <4>2
      <4> QED
        BY <2>4, <4>3
    <3>5. ~skips
      BY <1>4, <2>3, <2>5 DEF ActiveAround
    <3> QED
      BY <2>2, <3>2, <3>3, <3>4, <3>5 DEF ReadInGuard
  <2>6. CASE Len(cs) # guard.depth
    <3>1. after = guard
      BY <1>2, <2>1, <2>6
    <3>1a. Len(cs) > guard.depth /\ o > c + 1 /\ Len(cs) + 0 + (c + 1) = guard.depth + o
      <4>1. PICK l \in Nat : l = Len(bs) /\ Len(cs) = l - 1 /\ l > guard.depth
        BY <2>3
      <4>2. l + 0 + c = guard.depth + o /\ l - 1 # guard.depth
        BY <2>4a, <2>6, <4>1
      <4>3. l - 1 > guard.depth /\ (l - 1) + 0 + (c + 1) = guard.depth + o /\ o > c + 1
        BY <1>4, <4>1, <4>2, Balance
      <4> QED
        BY <4>1, <4>3
    <3>2. Len(cs) > guard.depth /\ Opened(items, m) > Closed(items, m)
          /\ Len(cs) + 0 + Closed(items, m) = guard.depth + Opened(items, m)
      BY <2>4, <3>1a
    <3>3. Inside(items, guard, m)
      BY <2>2, <2>3, <3>2, InsideStep
    <3>4. ActiveAround(cs, guard.depth)
      <4>1. CASE guard.depth = 0
        BY <4>1 DEF ActiveAround
      <4>2. CASE guard.depth # 0
        <5>1. PICK l \in Nat : l = Len(bs) /\ Len(cs) = l - 1 /\ l > guard.depth
          BY <2>3
        <5>2. l - 1 > guard.depth
          BY <3>2, <5>1
        <5>3. guard.depth \in 1 .. l - 1
          BY <1>4, <4>2, <5>1, <5>2
        <5>4. cs[guard.depth] = bs[guard.depth]
          BY <5>1, <5>3
        <5> QED
          BY <2>3, <4>2, <5>4 DEF ActiveAround
      <4> QED
        BY <4>1, <4>2
    <3> QED
      BY <2>2, <3>1, <3>2, <3>3, <3>4 DEF ReadInGuard
  <2> QED
    BY <2>5, <2>6
<1> QED
  BY <1>5, <1>6

\* An item is skipped.
LEMMA SkipRead ==
    ASSUME NEW guard, IsGuard(guard), NEW items, NEW n \in Nat, NEW bs, Len(bs) \in Nat,
           NEW deep \in Nat, NEW pending, ReadInGuard(guard, items, n, pending, bs, TRUE, deep),
           NEW kind, NEW m, NEW down \in Nat,
           \/ m = n + 1 /\ items[n + 1].kind = kind
           \/ m = n /\ (guard.state = "endif" => kind \notin Conditionals),
           kind \in {"ifdef", "ifndef"} => down = deep + 1,
           kind = "endif" => deep > 0 /\ down = deep - 1,
           kind \notin {"ifdef", "ifndef", "endif"} => down = deep
    PROVE  \A p : ReadInGuard(guard, items, m, p, bs, TRUE, down)
<1>1. guard.state # "eof"
  BY DEF ReadInGuard
<1>2. CASE guard.state # "endif"
  BY <1>1, <1>2 DEF ReadInGuard
<1>3. CASE guard.state = "endif"
  <2>1. /\ Inside(items, guard, n)
        /\ Len(bs) + deep + Closed(items, n) = guard.depth + Opened(items, n)
        /\ Len(bs) > guard.depth /\ ActiveAround(bs, guard.depth)
    BY <1>3 DEF ReadInGuard
  <2>2. CASE m = n /\ kind \notin Conditionals
    <3>1. down = deep
      BY <2>2 DEF Conditionals
    <3> QED
      BY <1>3, <2>1, <2>2, <3>1 DEF ReadInGuard
  <2>3. CASE m = n + 1 /\ items[n + 1].kind = kind
    <3>1. Len(bs) + down + Closed(items, m) = guard.depth + Opened(items, m)
          /\ Opened(items, m) > Closed(items, m)
      <4>1. PICK o \in Nat, c \in Nat, p \in Nat, d \in Nat :
                /\ Opened(items, n) = o /\ Closed(items, n) = c
                /\ Opened(items, m) = p /\ Closed(items, m) = d
                /\ \/ kind \in {"ifdef", "ifndef"} /\ p = o + 1 /\ d = c
                   \/ kind = "endif" /\ p = o /\ d = c + 1
                   \/ kind \notin {"ifdef", "ifndef", "endif"} /\ p = o /\ d = c
        <5>1. Opened(items, n) \in Nat /\ Closed(items, n) \in Nat
          BY DepthStep
        <5>2. CASE kind \in {"ifdef", "ifndef"}
          <6>1. /\ Opened(items, m) = Opened(items, n) + 1
                /\ Closed(items, m) = Closed(items, n)
            BY <2>3, <5>2, DepthStep
          <6> QED
            BY <5>1, <5>2, <6>1
        <5>3. CASE kind = "endif"
          <6>1. /\ Opened(items, m) = Opened(items, n)
                /\ Closed(items, m) = Closed(items, n) + 1
            BY <2>3, <5>3, DepthStep
          <6> QED
            BY <5>1, <5>3, <6>1
        <5>4. CASE kind \notin {"ifdef", "ifndef", "endif"}
          <6>1. /\ Opened(items, m) = Opened(items, n)
                /\ Closed(items, m) = Closed(items, n)
            BY <2>3, <5>4, DepthStep
          <6> QED
            BY <5>1, <5>4, <6>1
        <5> QED
          BY <5>2, <5>3, <5>4
      <4>2. guard.depth \in Nat
        BY DEF IsGuard
      <4>3. Len(bs) + deep + c = guard.depth + o /\ Len(bs) > guard.depth
        BY <2>1, <4>1
      <4>4. Len(bs) + down + d = guard.depth + p /\ p > d
        <5>1. PICK l \in Nat, g \in Nat : l = Len(bs) /\ g = guard.depth
          BY <4>2
        <5>2. /\ o > c /\ l + (deep + 1) + c = g + (o + 1) /\ o + 1 > c
              /\ deep > 0 => l + (deep - 1) + (c + 1) = g + o /\ o > c + 1
          BY <4>3, <5>1, Balance
        <5>3. CASE kind \in {"ifdef", "ifndef"}
          <6>1. p = o + 1 /\ d = c /\ down = deep + 1
            BY <4>1, <5>3
          <6> QED
            BY <5>1, <5>2, <6>1
        <5>4. CASE kind = "endif"
          <6>1. p = o /\ d = c + 1 /\ deep > 0 /\ down = deep - 1
            BY <4>1, <5>4
          <6> QED
            BY <5>1, <5>2, <6>1
        <5>5. CASE kind \notin {"ifdef", "ifndef", "endif"}
          <6>1. p = o /\ d = c /\ down = deep
            BY <4>1, <5>5
          <6> QED
            BY <4>3, <5>1, <5>2, <6>1
        <5> QED
          BY <5>3, <5>4, <5>5
      <4> QED
        BY <4>1, <4>4
    <3>2. Inside(items, guard, m)
      BY <2>1, <2>3, <3>1, InsideStep
    <3> QED
      BY <1>3, <2>1, <3>1, <3>2 DEF ReadInGuard
  <2> QED
    BY <1>3, <2>2, <2>3
<1> QED
  BY <1>2, <1>3

\* Skipping ends at a sibling of the branch.
LEMMA PutBackRead ==
    ASSUME NEW guard, NEW items, NEW n, NEW bs, NEW deep, NEW pending,
           ReadInGuard(guard, items, n, pending, bs, TRUE, deep)
    PROVE  ReadInGuard(guard, items, n, TRUE, bs, FALSE, deep)
  BY DEF ReadInGuard

(***************************************************************************)
(* The header guards of all files being read.                              *)
(***************************************************************************)
TextAt(k) == text[lexers[k].file]
ReadAt(k) == lexers[k].pos - 1

GuardInv ==
    /\ \A k \in 1 .. Depth : IsGuard(guards[k])
    /\ \A k \in 1 .. Depth - 1 : WaitsInGuard(guards[k], TextAt(k), ReadAt(k), guards[k + 1])
    /\ Depth > 0 =>
          /\ ReadInGuard(guards[Depth], TextAt(Depth), ReadAt(Depth), Pending,
                         branches, skipping, nested)
          /\ expanded # <<>> => guards[Depth].state \in {"endif", "cancelled"}
    /\ \A k \in 1 .. Len(frames) : /\ frames[k].owner > 0
                                   /\ guards[frames[k].owner].state \in {"endif", "cancelled"}

\* Where the next item comes from.
LEMMA NextItem ==
    ASSUME NEW I, MaterialInv(I), StackInv, GuardInv, HasItem
    PROVE  /\ Depth \in Nat /\ Depth >= 1 /\ Depth \in 1 .. Depth
           /\ ReadAt(Depth) \in Nat
           /\ IsGuard(guards[Depth])
           /\ expanded = <<>> => /\ Item = TextAt(Depth)[ReadAt(Depth) + 1]
                                 /\ ReadAt(Depth) + 1 \in 1 .. Len(TextAt(Depth))
           /\ expanded # <<>> => guards[Depth].state \in {"endif", "cancelled"}
<1>1. PICK L : lexers \in Seq(L)
  BY DEF StackInv, Sources
<1>2. Depth \in Nat /\ Depth >= 1 /\ Depth \in 1 .. Depth
  <2>1. Depth \in Nat /\ Depth # 0
    BY <1>1, NotEmpty DEF HasItem, Depth
  <2> QED
    BY <2>1
<1>3. lexers[Depth].pos \in Nat /\ lexers[Depth].pos > 0
  BY <1>2 DEF MaterialInv, Depth
<1>4. ReadAt(Depth) \in Nat /\ ReadAt(Depth) + 1 = lexers[Depth].pos
  BY <1>3 DEF ReadAt
<1>5. expanded = <<>> => /\ Item = TextAt(Depth)[ReadAt(Depth) + 1]
                         /\ ReadAt(Depth) + 1 \in 1 .. Len(TextAt(Depth))
  <2> SUFFICES ASSUME expanded = <<>>
               PROVE  /\ Item = TextAt(Depth)[ReadAt(Depth) + 1]
                      /\ ReadAt(Depth) + 1 \in 1 .. Len(TextAt(Depth))
    OBVIOUS
  <2>1. Top = lexers[Depth] /\ Top.pos \in 1 .. Len(text[Top.file])
    BY ItemIn
  <2>2. Item = text[Top.file][Top.pos]
    BY DEF Item
  <2> QED
    BY <1>4, <2>1, <2>2 DEF TextAt
<1> QED
  BY <1>2, <1>4, <1>5 DEF GuardInv

\* The guard of the file, and those of the ones below.
LEMMA CheckedShape ==
    ASSUME StackInv, HasItem, NEW kind
    PROVE  /\ Depth \in Nat /\ Depth >= 1
           /\ Last(guards) = guards[Depth]
           /\ Len(Checked(kind)) = Depth
           /\ \A k \in 1 .. Depth - 1 : Checked(kind)[k] = guards[k]
           /\ Checked(kind)[Depth] = Seen(guards[Depth], kind)
           /\ Last(Checked(kind)) = Seen(guards[Depth], kind)
           /\ \A g : /\ Len(WithGuard(Checked(kind), g)) = Depth
                     /\ \A k \in 1 .. Depth - 1 : WithGuard(Checked(kind), g)[k] = guards[k]
                     /\ WithGuard(Checked(kind), g)[Depth] = g
           /\ \E G : Checked(kind) \in Seq(G)
<1>1. PICK G : guards \in Seq(G)
  BY DEF StackInv
<1>2. Len(guards) = Depth /\ guards # <<>>
  BY <1>1, NotEmpty, AdvancedKeeps DEF StackInv, Depth
<1>3. PICK n \in Nat : Depth = n + 1 /\ Last(guards) = guards[n + 1]
  BY <1>1, <1>2, Height
<1>4. ASSUME NEW H, NEW gs \in Seq(H), Len(gs) = n + 1, \A k \in 1 .. n : gs[k] = guards[k], NEW g
      PROVE  /\ Len(WithGuard(gs, g)) = n + 1
             /\ \A k \in 1 .. n : WithGuard(gs, g)[k] = guards[k]
             /\ WithGuard(gs, g)[n + 1] = g
             /\ WithGuard(gs, g) \in Seq(H \cup {g})
  <2>1. WithGuard(gs, g) = WithTop(gs, g) /\ gs # <<>>
    BY <1>4, NotEmpty DEF WithGuard, WithTop
  <2> QED
    BY <1>4, <2>1, WithLast, WithLastIsSeq
<1>5. PICK seen : seen = Seen(guards[n + 1], kind)
  OBVIOUS
<1>6. /\ Len(Checked(kind)) = n + 1
      /\ \A k \in 1 .. n : Checked(kind)[k] = guards[k]
      /\ Checked(kind)[n + 1] = seen
      /\ Checked(kind) \in Seq(G \cup {seen})
  <2>1. CASE Cancels(Last(guards).state, kind)
    <3>1. seen = [Last(guards) EXCEPT !.state = "cancelled"]
      BY <1>3, <1>5, <2>1 DEF Seen
    <3>2. Checked(kind) = WithGuard(guards, seen)
      BY <2>1, <3>1 DEF Checked
    <3>3. guards \in Seq(G) /\ Len(guards) = n + 1 /\ \A k \in 1 .. n : guards[k] = guards[k]
      BY <1>1, <1>2, <1>3
    <3>4. /\ Len(WithGuard(guards, seen)) = n + 1
          /\ \A k \in 1 .. n : WithGuard(guards, seen)[k] = guards[k]
          /\ WithGuard(guards, seen)[n + 1] = seen
          /\ WithGuard(guards, seen) \in Seq(G \cup {seen})
      BY <3>3, <1>4
    <3> QED
      BY <3>2, <3>4
  <2>2. CASE ~Cancels(Last(guards).state, kind)
    <3>1. Checked(kind) = guards /\ seen = guards[n + 1]
      BY <1>3, <1>5, <2>2 DEF Checked, Seen
    <3>2. guards \in Seq(G \cup {seen})
      BY <1>1, SeqMonotonic
    <3> QED
      BY <1>2, <1>3, <3>1, <3>2
  <2> QED
    BY <2>1, <2>2
<1>7. Last(Checked(kind)) = seen
  BY <1>6 DEF Last
<1>8. \A g : /\ Len(WithGuard(Checked(kind), g)) = n + 1
             /\ \A k \in 1 .. n : WithGuard(Checked(kind), g)[k] = guards[k]
             /\ WithGuard(Checked(kind), g)[n + 1] = g
  <2>1. PICK H : H = G \cup {seen}
    OBVIOUS
  <2>2. PICK gs : gs = Checked(kind)
    OBVIOUS
  <2>3. gs \in Seq(H) /\ Len(gs) = n + 1 /\ \A k \in 1 .. n : gs[k] = guards[k]
    BY <1>6, <2>1, <2>2
  <2>4. \A g : /\ Len(WithGuard(gs, g)) = n + 1
               /\ \A k \in 1 .. n : WithGuard(gs, g)[k] = guards[k]
               /\ WithGuard(gs, g)[n + 1] = g
    <3> SUFFICES ASSUME NEW g
                 PROVE  /\ Len(WithGuard(gs, g)) = n + 1
                        /\ \A k \in 1 .. n : WithGuard(gs, g)[k] = guards[k]
                        /\ WithGuard(gs, g)[n + 1] = g
      OBVIOUS
    <3>1. WithGuard(gs, g) = WithTop(gs, g) /\ gs # <<>>
      BY <2>3, NotEmpty DEF WithGuard, WithTop
    <3> QED
      BY <2>3, <3>1, WithLast
  <2> QED
    BY <2>2, <2>4
<1>9. n + 1 - 1 = n /\ n + 1 >= 1
  OBVIOUS
<1> QED
  BY <1>3, <1>5, <1>6, <1>7, <1>8, <1>9

\* A step within the file that is read.
LEMMA LevelKeeps ==
    ASSUME NEW CONSTANT I, MaterialInv(I), StackInv, GuardInv, HasItem,
           Moved(lexers'), text' = text, frames' = frames,
           Len(guards') = Depth, \A k \in 1 .. Depth - 1 : guards'[k] = guards[k],
           IsGuard(guards'[Depth]), guards'[Depth].depth = guards[Depth].depth,
           NEW m, m = IF expanded = <<>> THEN ReadAt(Depth) + 1 ELSE ReadAt(Depth),
           ReadInGuard(guards'[Depth], TextAt(Depth), m, Pending', branches', skipping', nested'),
           expanded' # <<>> => guards'[Depth].state \in {"endif", "cancelled"}
    PROVE  GuardInv'
<1>1. /\ Depth \in Nat /\ Depth >= 1 /\ Depth' = Depth
      /\ \A k \in 1 .. Depth : TextAt(k)' = TextAt(k)
      /\ \A k \in 1 .. Depth - 1 : ReadAt(k)' = ReadAt(k)
      /\ ReadAt(Depth)' = m
  <2>1. Depth \in Nat /\ Depth >= 1
    BY NextItem
  <2>2. Depth' = Depth
    BY DEF Moved, Depth
  <2>3. \A k \in 1 .. Depth :
            /\ lexers'[k].file = lexers[k].file
            /\ lexers'[k].pos = IF k = Depth /\ expanded = <<>> THEN lexers[k].pos + 1
                                ELSE lexers[k].pos
    BY DEF Moved
  <2>4. \A k \in 1 .. Depth : TextAt(k)' = TextAt(k)
    BY <2>3 DEF TextAt
  <2>5. \A k \in 1 .. Depth - 1 : ReadAt(k)' = ReadAt(k)
    BY <2>1, <2>3 DEF ReadAt
  <2>6. lexers'[Depth].pos - 1 = m
    <3>1. Depth \in 1 .. Depth /\ lexers[Depth].pos \in Nat
      BY <2>1 DEF MaterialInv, Depth
    <3>2. CASE expanded = <<>>
      <4>1. lexers'[Depth].pos = lexers[Depth].pos + 1
        BY <2>3, <3>1, <3>2
      <4> QED
        BY <3>1, <3>2, <4>1 DEF ReadAt
    <3>3. CASE expanded # <<>>
      <4>1. lexers'[Depth].pos = lexers[Depth].pos
        BY <2>3, <3>1, <3>3
      <4> QED
        BY <3>3, <4>1 DEF ReadAt
    <3> QED
      BY <3>2, <3>3
  <2>7. ReadAt(Depth)' = m
    BY <2>2, <2>6 DEF ReadAt
  <2> QED
    BY <2>1, <2>2, <2>4, <2>5, <2>7
<1>2. \A k \in 1 .. Depth : IsGuard(guards'[k])
  <2> SUFFICES ASSUME NEW k \in 1 .. Depth PROVE IsGuard(guards'[k])
    OBVIOUS
  <2>1. k = Depth \/ k \in 1 .. Depth - 1
    BY <1>1
  <2>2. k \in 1 .. Depth - 1 => IsGuard(guards[k])
    BY DEF GuardInv
  <2> QED
    BY <2>1, <2>2
<1>3. \A k \in 1 .. Depth - 1 :
          WaitsInGuard(guards'[k], TextAt(k), ReadAt(k), guards'[k + 1])
  <2> SUFFICES ASSUME NEW k \in 1 .. Depth - 1
               PROVE  WaitsInGuard(guards'[k], TextAt(k), ReadAt(k), guards'[k + 1])
    OBVIOUS
  <2>1. WaitsInGuard(guards[k], TextAt(k), ReadAt(k), guards[k + 1])
    BY DEF GuardInv
  <2>2. guards'[k] = guards[k]
    OBVIOUS
  <2>3. guards'[k + 1].depth = guards[k + 1].depth
    <3>1. k + 1 = Depth \/ k + 1 \in 1 .. Depth - 1
      BY <1>1
    <3> QED
      BY <3>1
  <2> QED
    BY <2>1, <2>2, <2>3 DEF WaitsInGuard
<1>4. \A k \in 1 .. Len(frames) : /\ frames[k].owner > 0
                                  /\ guards'[frames[k].owner].state \in {"endif", "cancelled"}
  <2> SUFFICES ASSUME NEW k \in 1 .. Len(frames)
               PROVE  /\ frames[k].owner > 0
                      /\ guards'[frames[k].owner].state \in {"endif", "cancelled"}
    OBVIOUS
  <2>1. /\ frames[k].owner > 0 /\ guards[frames[k].owner].state \in {"endif", "cancelled"}
        /\ frames[k].owner \in Nat /\ frames[k].owner < Depth
    BY DEF GuardInv, StackInv, Paused
  <2>2. frames[k].owner \in 1 .. Depth - 1
    BY <1>1, <2>1
  <2> QED
    BY <2>1, <2>2
<1>5. /\ \A k \in 1 .. Depth' - 1 : WaitsInGuard(guards[k], TextAt(k), ReadAt(k), guards[k + 1])'
      /\ \A k \in 1 .. Depth' : IsGuard(guards[k])'
      /\ ReadInGuard(guards[Depth], TextAt(Depth), ReadAt(Depth), Pending,
                     branches, skipping, nested)'
  <2>1. \A k \in 1 .. Depth' - 1 : WaitsInGuard(guards[k], TextAt(k), ReadAt(k), guards[k + 1])'
    BY <1>1, <1>3 DEF WaitsInGuard
  <2>2. \A k \in 1 .. Depth' : IsGuard(guards[k])'
    BY <1>1, <1>2 DEF IsGuard
  <2>3. Depth \in 1 .. Depth
    BY <1>1
  <2>4. ReadInGuard(guards[Depth], TextAt(Depth), ReadAt(Depth), Pending,
                    branches, skipping, nested)'
    BY <1>1, <2>3 DEF ReadInGuard
  <2> QED
    BY <2>1, <2>2, <2>4
<1> QED
  BY <1>1, <1>4, <1>5 DEF GuardInv

\* What is known where an item is taken, m being what is read of the file then.
LEMMA Here ==
    ASSUME NEW CONSTANT I, MaterialInv(I), StackInv, BranchInv, GuardInv, HasItem
    PROVE  /\ IsGuard(guards[Depth]) /\ ReadAt(Depth) \in Nat /\ Len(branches) \in Nat
           /\ nested \in Nat /\ skipping \in BOOLEAN
           /\ ReadInGuard(guards[Depth], TextAt(Depth), ReadAt(Depth), Pending,
                          branches, skipping, nested)
           /\ ~skipping => skipping = FALSE /\ nested = 0
           /\ ~skipping /\ ~Pending =>
                 ReadInGuard(guards[Depth], TextAt(Depth), ReadAt(Depth), FALSE,
                             branches, FALSE, 0)
           /\ \E m : /\ m = IF expanded = <<>> THEN ReadAt(Depth) + 1 ELSE ReadAt(Depth)
                     /\ \/ /\ m = ReadAt(Depth) + 1 /\ m \in 1 .. Len(TextAt(Depth))
                           /\ TextAt(Depth)[ReadAt(Depth) + 1] = Item
                           /\ expanded = <<>> /\ Rest = <<>>
                        \/ /\ m = ReadAt(Depth) /\ expanded # <<>>
                           /\ guards[Depth].state \in {"endif", "cancelled"}
<1>1. Depth > 0
  <2>1. Depth \in Nat /\ Depth >= 1
    BY NextItem
  <2> QED
    BY <2>1
<1>2. ReadInGuard(guards[Depth], TextAt(Depth), ReadAt(Depth), Pending,
                  branches, skipping, nested)
  BY <1>1 DEF GuardInv
<1>3. nested \in Nat /\ skipping \in BOOLEAN /\ Len(branches) \in Nat
  <2>1. PICK B : branches \in Seq(B)
    BY DEF BranchInv, LiveInv
  <2> QED
    BY <2>1 DEF BranchInv, LiveInv
<1>4. ~skipping => skipping = FALSE /\ nested = 0
  BY <1>3 DEF BranchInv, HasItem
<1>5. ~skipping /\ ~Pending =>
          ReadInGuard(guards[Depth], TextAt(Depth), ReadAt(Depth), FALSE, branches, FALSE, 0)
  BY <1>2, <1>4 DEF ReadInGuard
<1>6. IsGuard(guards[Depth]) /\ ReadAt(Depth) \in Nat
  BY NextItem
<1>7. CASE expanded = <<>>
  <2>1. /\ Item = TextAt(Depth)[ReadAt(Depth) + 1]
        /\ ReadAt(Depth) + 1 \in 1 .. Len(TextAt(Depth))
    BY <1>7, NextItem
  <2>2. Rest = <<>>
    BY <1>7 DEF Rest
  <2> QED
    BY <1>2, <1>3, <1>4, <1>5, <1>6, <1>7, <2>1, <2>2
<1>8. CASE expanded # <<>>
  <2>1. guards[Depth].state \in {"endif", "cancelled"}
    BY <1>8, NextItem
  <2> QED
    BY <1>2, <1>3, <1>4, <1>5, <1>6, <1>8, <2>1
<1> QED
  BY <1>7, <1>8

\* An item that is not about branches, nor the `define of the guard.
LEMMA PlainChecked ==
    ASSUME NEW CONSTANT I, MaterialInv(I), StackInv, BranchInv, GuardInv, HasItem,
           ~skipping, Item.kind \notin Conditionals,
           ~(guards[Depth].state = "define" /\ Item.kind = "define"),
           NEW m, m = IF expanded = <<>> THEN ReadAt(Depth) + 1 ELSE ReadAt(Depth)
    PROVE  /\ IsGuard(Checked(Item.kind)[Depth])
           /\ Checked(Item.kind)[Depth].depth = guards[Depth].depth
           /\ Checked(Item.kind)[Depth].state \in {"endif", "cancelled"}
           /\ \A pending : ReadInGuard(Checked(Item.kind)[Depth], TextAt(Depth), m, pending,
                                       branches, FALSE, 0)
<1>1. PICK kind : kind = Item.kind
  OBVIOUS
<1>2. ~Pending
  BY DEF Pending, Siblings, Conditionals
<1>3. PICK guard, items, n : guard = guards[Depth] /\ items = TextAt(Depth) /\ n = ReadAt(Depth)
  OBVIOUS
<1>4. /\ IsGuard(guard) /\ n \in Nat /\ Len(branches) \in Nat
      /\ ReadInGuard(guard, items, n, FALSE, branches, FALSE, 0)
  BY <1>2, <1>3, Here
<1>5. \/ m = n + 1 /\ items[n + 1].kind = kind
      \/ m = n
  <2>1. expanded = <<>> => Item = TextAt(Depth)[ReadAt(Depth) + 1]
    BY NextItem
  <2> QED
    BY <1>1, <1>3, <2>1
<1>6. /\ Seen(guard, kind).state \in {"endif", "cancelled"}
      /\ \A pending : ReadInGuard(Seen(guard, kind), items, m, pending, branches, FALSE, 0)
  BY <1>1, <1>3, <1>4, <1>5, PlainRead
<1>7. IsGuard(Seen(guard, kind)) /\ Seen(guard, kind).depth = guard.depth
  BY <1>4, SeenIs
<1>8. Checked(kind)[Depth] = Seen(guard, kind)
  BY <1>3, CheckedShape
<1> QED
  BY <1>1, <1>3, <1>6, <1>7, <1>8

LEMMA PlainKeeps ==
    ASSUME NEW CONSTANT I, MaterialInv(I), StackInv, BranchInv, GuardInv, HasItem,
           ~skipping, Item.kind \notin Conditionals,
           ~(guards[Depth].state = "define" /\ Item.kind = "define"),
           Moved(lexers'), UNCHANGED <<text, frames, branches, skipping, nested>>,
           guards' = Checked(Item.kind)
    PROVE  GuardInv'
<1>1. PICK m : m = IF expanded = <<>> THEN ReadAt(Depth) + 1 ELSE ReadAt(Depth)
  OBVIOUS
<1>2. /\ IsGuard(guards'[Depth])
      /\ guards'[Depth].depth = guards[Depth].depth
      /\ guards'[Depth].state \in {"endif", "cancelled"}
      /\ \A pending : ReadInGuard(guards'[Depth], TextAt(Depth), m, pending, branches, FALSE, 0)
  BY <1>1, PlainChecked
<1>3. skipping = FALSE /\ nested = 0
  BY Here
<1>4. ReadInGuard(guards'[Depth], TextAt(Depth), m, Pending', branches', skipping', nested')
  BY <1>2, <1>3
<1>5. Len(guards') = Depth /\ \A k \in 1 .. Depth - 1 : guards'[k] = guards[k]
  BY CheckedShape
<1> QED
  BY <1>1, <1>2, <1>4, <1>5, LevelKeeps

\* The `define of a guard.
LEMMA GuardDefineKeeps ==
    ASSUME NEW CONSTANT I, MaterialInv(I), StackInv, BranchInv, GuardInv, Define,
           guards[Depth].state = "define"
    PROVE  GuardInv'
<1>1. HasItem /\ ~skipping /\ Item.kind = "define"
  BY DEF Define, Handles
<1>2. ~Pending
  BY <1>1 DEF Pending, Siblings
<1>3. PICK guard, items, n : guard = guards[Depth] /\ items = TextAt(Depth) /\ n = ReadAt(Depth)
  OBVIOUS
<1>4. /\ IsGuard(guard) /\ n \in Nat /\ Len(branches) \in Nat
      /\ ReadInGuard(guard, items, n, FALSE, branches, FALSE, 0)
      /\ skipping = FALSE /\ nested = 0
  BY <1>1, <1>2, <1>3, Here
<1>5. expanded = <<>> /\ items[n + 1] = Item
  BY <1>1, <1>3, NextItem
<1>6. PICK after : after = [guard EXCEPT !.state = "endif", !.define = items[n + 1].name]
  OBVIOUS
<1>7. /\ Len(branches) = guard.depth + 1
      /\ IsGuard(after) /\ after.depth = guard.depth /\ after.state = "endif"
      /\ \A pending : ReadInGuard(after, items, n + 1, pending, branches, FALSE, 0)
  <2>1. guard.state = "define" /\ items[n + 1].kind = "define"
    BY <1>1, <1>3, <1>5
  <2>2. LET a == [guard EXCEPT !.state = "endif", !.define = items[n + 1].name]
        IN  /\ Len(branches) = guard.depth + 1
            /\ IsGuard(a) /\ a.depth = guard.depth /\ a.state = "endif"
            /\ \A pending : ReadInGuard(a, items, n + 1, pending, branches, FALSE, 0)
    BY <1>4, <2>1, DefineRead
  <2> QED
    BY <1>6, <2>2
<1>8. guards' = WithGuard(Checked("define"), after)
  <2>1. Seen(guard, "define") = guard
    BY <1>3 DEF Seen, Cancels
  <2>2. Last(Checked("define")) = guard
    BY <1>1, <1>3, <2>1, CheckedShape
  <2> QED
    BY <1>3, <1>5, <1>6, <1>7, <2>2 DEF Define
<1>9. /\ Len(guards') = Depth /\ guards'[Depth] = after
      /\ \A k \in 1 .. Depth - 1 : guards'[k] = guards[k]
  BY <1>1, <1>8, CheckedShape
<1>10. /\ Moved(lexers') /\ UNCHANGED <<text, frames, branches, skipping, nested>>
       /\ expanded' = <<>>
  <2>1. Rest = <<>>
    BY <1>5 DEF Rest
  <2> QED
    BY <1>1, <2>1, AdvancedMoves DEF Define, Take, branchVars
<1>11. PICK m : m = IF expanded = <<>> THEN ReadAt(Depth) + 1 ELSE ReadAt(Depth)
  OBVIOUS
<1>12. m = n + 1
  BY <1>3, <1>5, <1>11
<1>13. ReadInGuard(guards'[Depth], TextAt(Depth), m, Pending', branches', skipping', nested')
  BY <1>3, <1>4, <1>7, <1>9, <1>10, <1>12
<1>14. IsGuard(guards'[Depth]) /\ guards'[Depth].depth = guards[Depth].depth
  BY <1>3, <1>7, <1>9
<1> QED
  BY <1>1, <1>9, <1>10, <1>11, <1>13, <1>14, LevelKeeps

\* A conditional directive of the file, or of an expansion outside of a guard.
LEMMA HereConditional ==
    ASSUME NEW CONSTANT I, MaterialInv(I), StackInv, BranchInv, GuardInv, HasItem,
           BranchesStayInside, Item.kind \in Conditionals
    PROVE  \E m : /\ m = IF expanded = <<>> THEN ReadAt(Depth) + 1 ELSE ReadAt(Depth)
                  /\ \/ /\ m = ReadAt(Depth) + 1 /\ m \in 1 .. Len(TextAt(Depth))
                        /\ TextAt(Depth)[ReadAt(Depth) + 1] = Item
                        /\ Rest = <<>>
                     \/ m = ReadAt(Depth) /\ guards[Depth].state = "cancelled"
<1>1. PICK m : /\ m = IF expanded = <<>> THEN ReadAt(Depth) + 1 ELSE ReadAt(Depth)
               /\ \/ /\ m = ReadAt(Depth) + 1 /\ m \in 1 .. Len(TextAt(Depth))
                     /\ TextAt(Depth)[ReadAt(Depth) + 1] = Item
                     /\ expanded = <<>> /\ Rest = <<>>
                  \/ /\ m = ReadAt(Depth) /\ expanded # <<>>
                     /\ guards[Depth].state \in {"endif", "cancelled"}
  BY Here
<1>2. expanded # <<>> => guards[Depth].state # "endif"
  <2>1. Last(guards) = guards[Depth]
    BY CheckedShape
  <2> QED
    BY <2>1 DEF BranchesStayInside
<1> QED
  BY <1>1, <1>2

LEMMA IfDefGuards ==
    ASSUME NEW CONSTANT I, MaterialInv(I), StackInv, BranchInv, GuardInv, BranchesStayInside,
           IfDef
    PROVE  GuardInv'
<1>1. HasItem /\ ~skipping /\ Item.kind \in {"ifdef", "ifndef"}
  BY DEF IfDef, Handles
<1>2. PICK guard, items, n, kind, name :
          /\ guard = guards[Depth] /\ items = TextAt(Depth) /\ n = ReadAt(Depth)
          /\ kind = Item.kind /\ name = Item.name
  OBVIOUS
<1>3. PICK m : /\ m = IF expanded = <<>> THEN ReadAt(Depth) + 1 ELSE ReadAt(Depth)
               /\ \/ /\ m = n + 1 /\ items[n + 1] = Item /\ Rest = <<>>
                  \/ m = n /\ guard.state = "cancelled"
  <2>1. Item.kind \in Conditionals
    BY <1>1 DEF Conditionals
  <2> QED
    BY <1>1, <1>2, <2>1, HereConditional
<1>4. /\ IsGuard(guard) /\ n \in Nat /\ Len(branches) \in Nat
      /\ ReadInGuard(guard, items, n, Pending, branches, FALSE, 0)
  <2>1. skipping = FALSE /\ nested = 0
    BY <1>1, Here
  <2>2. ReadInGuard(guards[Depth], TextAt(Depth), ReadAt(Depth), Pending, branches, skipping, nested)
    BY <1>1, Here
  <2> QED
    BY <1>1, <1>2, <2>1, <2>2, Here
<1>5. PICK bs, cs, skips :
          /\ bs = branches /\ cs = branches' /\ skips = skipping'
          /\ Len(cs) = Len(bs) + 1 /\ \A k \in 1 .. Len(bs) : cs[k] = bs[k]
          /\ ~skips => Len(bs) = 0 \/ bs[Len(bs)].currentActive
          /\ nested' = 0
  <2>1. PICK B : branches \in Seq(B)
    BY DEF BranchInv, LiveInv
  <2>2. Active => Len(branches) = 0 \/ branches[Len(branches)].currentActive
    BY <2>1, NotEmpty DEF Active, Last
  <2> QED
    BY <2>2, IfDefBranches
<1>6. PICK seen : seen = Seen(guard, kind)
  OBVIOUS
<1>7. PICK after : after = IF kind = "ifndef" /\ seen.state = "ifndef" /\ Len(bs) = seen.depth
                             THEN [seen EXCEPT !.state = "define", !.ifndef = name] ELSE seen
  OBVIOUS
<1>8. /\ IsGuard(after) /\ after.depth = guard.depth
      /\ guard.state = "cancelled" => after.state = "cancelled"
      /\ \A p : ReadInGuard(after, items, m, p, cs, skips, 0)
  <2>1. \/ m = n + 1 /\ items[n + 1].kind = kind /\ items[n + 1].name = name
        \/ m = n /\ guard.state = "cancelled"
    BY <1>2, <1>3
  <2>2. /\ kind \in {"ifdef", "ifndef"} /\ Len(bs) \in Nat
        /\ ReadInGuard(guard, items, n, Pending, bs, FALSE, 0)
    BY <1>1, <1>2, <1>4, <1>5
  <2>3. BeginsBranch(guard, items, n, bs, Pending, kind, m, name, cs, skips)
    BY <1>4, <1>5, <2>1, <2>2 DEF BeginsBranch
  <2>4. LET s == Seen(guard, kind)
            a == IF kind = "ifndef" /\ s.state = "ifndef" /\ Len(bs) = s.depth
                   THEN [s EXCEPT !.state = "define", !.ifndef = name] ELSE s
        IN  /\ IsGuard(a) /\ a.depth = guard.depth
            /\ guard.state = "cancelled" => a.state = "cancelled"
            /\ \A p : ReadInGuard(a, items, m, p, cs, skips, 0)
    BY <2>3, IfDefRead
  <2> QED
    BY <1>6, <1>7, <2>4
<1>9. /\ Last(Checked(kind)) = seen /\ Checked(kind)[Depth] = seen
      /\ Len(Checked(kind)) = Depth
      /\ \A k \in 1 .. Depth - 1 : Checked(kind)[k] = guards[k]
      /\ \A g : /\ Len(WithGuard(Checked(kind), g)) = Depth
                /\ \A k \in 1 .. Depth - 1 : WithGuard(Checked(kind), g)[k] = guards[k]
                /\ WithGuard(Checked(kind), g)[Depth] = g
  BY <1>1, <1>2, <1>6, CheckedShape
<1>10. guards' = (IF kind = "ifndef" /\ seen.state = "ifndef" /\ Len(bs) = seen.depth
                    THEN WithGuard(Checked(kind), [seen EXCEPT !.state = "define", !.ifndef = name])
                    ELSE Checked(kind))
  BY <1>2, <1>5, <1>9 DEF IfDef
<1>11. /\ Len(guards') = Depth /\ guards'[Depth] = after
       /\ \A k \in 1 .. Depth - 1 : guards'[k] = guards[k]
  BY <1>7, <1>9, <1>10
<1>12. Moved(lexers') /\ UNCHANGED <<text, frames>> /\ expanded' = Rest
  BY <1>1, AdvancedMoves DEF IfDef, Take
<1>13. expanded' # <<>> => guards'[Depth].state \in {"endif", "cancelled"}
  BY <1>3, <1>8, <1>11, <1>12
<1>14. ReadInGuard(guards'[Depth], TextAt(Depth), m, Pending', branches', skipping', nested')
  BY <1>2, <1>5, <1>8, <1>11
<1>15. IsGuard(guards'[Depth]) /\ guards'[Depth].depth = guards[Depth].depth
  BY <1>2, <1>8, <1>11
<1> QED
  BY <1>1, <1>3, <1>11, <1>12, <1>13, <1>14, <1>15, LevelKeeps

\* An `elsif or `else, or an `endif out of place: the number of branches stays.
LEMMA SiblingGuards ==
    ASSUME NEW CONSTANT I, MaterialInv(I), StackInv, BranchInv, GuardInv, HasItem,
           ~skipping, NEW kind, kind = Item.kind, NEW m,
           m = IF expanded = <<>> THEN ReadAt(Depth) + 1 ELSE ReadAt(Depth),
           \/ m = ReadAt(Depth) + 1 /\ TextAt(Depth)[ReadAt(Depth) + 1] = Item /\ Rest = <<>>
           \/ m = ReadAt(Depth) /\ guards[Depth].state = "cancelled",
           Moved(lexers'), UNCHANGED <<text, frames>>, expanded' = Rest,
           guards' = Checked(kind),
           \A p : ReadInGuard(Seen(guards[Depth], kind), TextAt(Depth), m, p, branches', skipping', nested')
    PROVE  GuardInv'
<1>1. IsGuard(guards[Depth])
  BY Here
<1>2. /\ Len(guards') = Depth /\ guards'[Depth] = Seen(guards[Depth], kind)
      /\ \A k \in 1 .. Depth - 1 : guards'[k] = guards[k]
  BY CheckedShape
<1>3. IsGuard(guards'[Depth]) /\ guards'[Depth].depth = guards[Depth].depth
  BY <1>1, <1>2, SeenIs
<1>4. expanded' # <<>> => guards'[Depth].state \in {"endif", "cancelled"}
  <2>1. guards[Depth].state = "cancelled" => Seen(guards[Depth], kind) = guards[Depth]
    BY <1>1, SeenIs DEF Cancels
  <2> QED
    BY <1>2, <2>1
<1>5. ReadInGuard(guards'[Depth], TextAt(Depth), m, Pending', branches', skipping', nested')
  BY <1>2
<1> QED
  BY <1>2, <1>3, <1>4, <1>5, LevelKeeps

LEMMA ElseGuards ==
    ASSUME NEW CONSTANT I, MaterialInv(I), StackInv, BranchInv, GuardInv, BranchesStayInside,
           ElseBranch
    PROVE  GuardInv'
<1>1. HasItem /\ ~skipping /\ Item.kind \in {"elsif", "else"}
  BY DEF ElseBranch, Handles
<1>2. PICK guard, items, n, kind :
          /\ guard = guards[Depth] /\ items = TextAt(Depth) /\ n = ReadAt(Depth) /\ kind = Item.kind
  OBVIOUS
<1>3. PICK m : /\ m = IF expanded = <<>> THEN ReadAt(Depth) + 1 ELSE ReadAt(Depth)
               /\ \/ /\ m = n + 1 /\ items[n + 1] = Item /\ Rest = <<>>
                  \/ m = n /\ guard.state = "cancelled"
  <2>1. Item.kind \in Conditionals
    BY <1>1 DEF Conditionals
  <2> QED
    BY <1>1, <1>2, <2>1, HereConditional
<1>4. /\ IsGuard(guard) /\ n \in Nat /\ Len(branches) \in Nat
      /\ ReadInGuard(guard, items, n, Pending, branches, FALSE, 0)
  <2>1. skipping = FALSE /\ nested = 0
    BY <1>1, Here
  <2>2. ReadInGuard(guards[Depth], TextAt(Depth), ReadAt(Depth), Pending, branches, skipping, nested)
    BY <1>1, Here
  <2> QED
    BY <1>1, <1>2, <2>1, <2>2, Here
<1>5. PICK bs, cs :
          /\ bs = branches /\ cs = branches' /\ nested' = 0
          /\ Len(cs) = Len(bs) /\ \A k \in 1 .. Len(bs) - 1 : cs[k] = bs[k]
  BY ElseBranches
<1>6. \A p, skips : ReadInGuard(Seen(guard, kind), items, m, p, cs, skips, 0)
  <2>1. \/ m = n + 1 /\ items[n + 1].kind = kind
        \/ m = n /\ guard.state = "cancelled"
    BY <1>2, <1>3
  <2>2. /\ kind \in {"elsif", "else"} /\ Len(bs) \in Nat
        /\ ReadInGuard(guard, items, n, Pending, bs, FALSE, 0)
    BY <1>1, <1>2, <1>4, <1>5
  <2>3. LET s == Seen(guard, kind)
        IN  \A p, skips : ReadInGuard(s, items, m, p, cs, skips, 0)
    BY <1>4, <1>5, <2>1, <2>2, ElseRead
  <2> QED
    BY <2>3
<1>7. /\ guards' = Checked(kind) /\ Moved(lexers') /\ UNCHANGED <<text, frames>>
      /\ expanded' = Rest
  BY <1>1, <1>2, AdvancedMoves DEF ElseBranch, Take
<1>8. \A p : ReadInGuard(Seen(guards[Depth], kind), TextAt(Depth), m, p, branches', skipping', nested')
  BY <1>2, <1>5, <1>6
<1>9. \/ m = ReadAt(Depth) + 1 /\ TextAt(Depth)[ReadAt(Depth) + 1] = Item /\ Rest = <<>>
      \/ m = ReadAt(Depth) /\ guards[Depth].state = "cancelled"
  BY <1>2, <1>3
<1> QED
  BY <1>1, <1>2, <1>3, <1>7, <1>8, <1>9, SiblingGuards

LEMMA EndIfGuards ==
    ASSUME NEW CONSTANT I, MaterialInv(I), StackInv, BranchInv, GuardInv, BranchesStayInside,
           EndIf
    PROVE  GuardInv'
<1>1. HasItem /\ ~skipping /\ Item.kind = "endif"
  BY DEF EndIf, Handles
<1>2. PICK guard, items, n, kind :
          /\ guard = guards[Depth] /\ items = TextAt(Depth) /\ n = ReadAt(Depth) /\ kind = "endif"
  OBVIOUS
<1>3. PICK m : /\ m = IF expanded = <<>> THEN ReadAt(Depth) + 1 ELSE ReadAt(Depth)
               /\ \/ /\ m = n + 1 /\ items[n + 1] = Item /\ Rest = <<>> /\ m \in 1 .. Len(items)
                  \/ m = n /\ guard.state = "cancelled"
  <2>1. Item.kind \in Conditionals
    BY <1>1 DEF Conditionals
  <2> QED
    BY <1>1, <1>2, <2>1, HereConditional
<1>4. /\ IsGuard(guard) /\ n \in Nat /\ Len(branches) \in Nat
      /\ ReadInGuard(guard, items, n, Pending, branches, FALSE, 0)
  <2>1. skipping = FALSE /\ nested = 0
    BY <1>1, Here
  <2>2. ReadInGuard(guards[Depth], TextAt(Depth), ReadAt(Depth), Pending, branches, skipping, nested)
    BY <1>1, Here
  <2> QED
    BY <1>1, <1>2, <2>1, <2>2, Here
<1>5. Moved(lexers') /\ UNCHANGED <<text, frames>> /\ expanded' = Rest /\ nested' = 0
  BY <1>1, AdvancedMoves, EndIfBranches DEF EndIf, Take
<1>6. CASE Len(branches) = 0
  <2>1. branches = <<>> /\ Len(branches') = 0
    <3>1. PICK B : branches \in Seq(B)
      BY DEF BranchInv, LiveInv
    <3>2. branches = <<>>
      BY <1>6, <3>1, NotEmpty
    <3> QED
      BY <1>6, <3>2 DEF EndIf
  <2>2. guards' = Checked(kind)
    BY <1>2, <2>1 DEF EndIf
  <2>3. Seen(guard, kind).state = "cancelled"
    <3>1. guard.state \in {"ifndef", "define", "eof", "cancelled"}
      <4>1. guard.depth \in Nat
        BY <1>4 DEF IsGuard
      <4>2. ~(0 > guard.depth)
        BY <4>1
      <4>3. guard.state # "endif"
        BY <1>4, <1>6, <4>2 DEF ReadInGuard
      <4>4. guard.state \in {"ifndef", "define", "endif", "eof", "cancelled"}
        BY <1>4 DEF ReadInGuard
      <4> QED
        BY <4>3, <4>4
    <3>2. Cancels(guard.state, kind) \/ guard.state = "cancelled"
      BY <1>2, <3>1 DEF Cancels
    <3> QED
      BY <1>4, <3>2, SeenIs
  <2>4. \A p : ReadInGuard(Seen(guards[Depth], kind), TextAt(Depth), m, p, branches', skipping', nested')
    BY <1>2, <2>3, CancelledRead
  <2>5. \/ m = ReadAt(Depth) + 1 /\ TextAt(Depth)[ReadAt(Depth) + 1] = Item /\ Rest = <<>>
        \/ m = ReadAt(Depth) /\ guards[Depth].state = "cancelled"
    BY <1>2, <1>3
  <2>6. kind = Item.kind
    BY <1>1, <1>2
  <2> QED
    BY <1>1, <1>3, <1>5, <2>2, <2>4, <2>5, <2>6, SiblingGuards
<1>7. CASE Len(branches) > 0
  <2>1. PICK bs, cs, skips :
            /\ bs = branches /\ cs = branches' /\ skips = skipping'
            /\ Len(cs) = Len(bs) - 1 /\ \A k \in 1 .. Len(bs) - 1 : cs[k] = bs[k]
            /\ Len(bs) - 1 = 0 => ~skips
            /\ Len(bs) - 1 # 0 => (skips <=> ~bs[Len(bs) - 1].currentActive)
    BY <1>7, EndIfBranches
  <2>2. PICK seen : seen = Seen(guard, kind)
    OBVIOUS
  <2>3. PICK after : after = IF seen.state = "endif" /\ Len(cs) = seen.depth
                               THEN [seen EXCEPT !.state = "eof"] ELSE seen
    OBVIOUS
  <2>4. /\ IsGuard(after) /\ after.depth = guard.depth
        /\ guard.state = "cancelled" => after.state = "cancelled"
        /\ \A p : ReadInGuard(after, items, m, p, cs, skips, 0)
    <3>1. \/ m = n + 1 /\ items[n + 1].kind = "endif" /\ m \in 1 .. Len(items)
          \/ m = n /\ guard.state = "cancelled"
      BY <1>1, <1>3
    <3>2. /\ Len(bs) \in Nat /\ Len(bs) > 0
          /\ ReadInGuard(guard, items, n, Pending, bs, FALSE, 0)
      BY <1>4, <1>7, <2>1
    <3>3. seen = Seen(guard, "endif")
      BY <1>2, <2>2
    <3>4. EndsBranch(guard, items, n, bs, Pending, m, cs, skips)
      BY <1>4, <2>1, <3>1, <3>2 DEF EndsBranch
    <3>5. LET s == Seen(guard, "endif")
              a == IF s.state = "endif" /\ Len(cs) = s.depth
                     THEN [s EXCEPT !.state = "eof"] ELSE s
          IN  /\ IsGuard(a) /\ a.depth = guard.depth
              /\ guard.state = "cancelled" => a.state = "cancelled"
              /\ \A p : ReadInGuard(a, items, m, p, cs, skips, 0)
      BY <3>4, EndIfRead
    <3> QED
      BY <2>3, <3>3, <3>5
  <2>5. /\ Last(Checked(kind)) = seen /\ Checked(kind)[Depth] = seen
        /\ Len(Checked(kind)) = Depth
        /\ \A k \in 1 .. Depth - 1 : Checked(kind)[k] = guards[k]
        /\ \A g : /\ Len(WithGuard(Checked(kind), g)) = Depth
                  /\ \A k \in 1 .. Depth - 1 : WithGuard(Checked(kind), g)[k] = guards[k]
                  /\ WithGuard(Checked(kind), g)[Depth] = g
    BY <1>1, <1>2, <2>2, CheckedShape
  <2>6. guards' = (IF seen.state = "endif" /\ Len(cs) = seen.depth
                     THEN WithGuard(Checked(kind), [seen EXCEPT !.state = "eof"])
                     ELSE Checked(kind))
    <3>1. branches # <<>>
      <4>1. PICK B : branches \in Seq(B)
        BY DEF BranchInv, LiveInv
      <4> QED
        BY <1>7, <4>1, NotEmpty
    <3> QED
      BY <1>2, <2>1, <2>5, <3>1 DEF EndIf
  <2>7. /\ Len(guards') = Depth /\ guards'[Depth] = after
        /\ \A k \in 1 .. Depth - 1 : guards'[k] = guards[k]
    BY <2>3, <2>5, <2>6
  <2>8. expanded' # <<>> => guards'[Depth].state \in {"endif", "cancelled"}
    BY <1>3, <1>5, <2>4, <2>7
  <2>9. ReadInGuard(guards'[Depth], TextAt(Depth), m, Pending', branches', skipping', nested')
    BY <1>2, <1>5, <2>1, <2>4, <2>7
  <2>10. IsGuard(guards'[Depth]) /\ guards'[Depth].depth = guards[Depth].depth
    BY <1>2, <2>4, <2>7
  <2> QED
    BY <1>1, <1>3, <1>5, <2>7, <2>8, <2>9, <2>10, LevelKeeps
<1> QED
  BY <1>4, <1>6, <1>7

\* Skipped text.
LEMMA SkippedGuards ==
    ASSUME NEW CONSTANT I, MaterialInv(I), StackInv, BranchInv, GuardInv, BranchesStayInside,
           Skip, ~StopsSkipping(Item.kind)
    PROVE  GuardInv'
<1>1. /\ HasItem /\ skipping = TRUE /\ skipping' = skipping /\ UNCHANGED <<text, frames, branches, guards>>
      /\ nested' = CASE Item.kind \in {"ifdef", "ifndef"} -> nested + 1
                     [] Item.kind = "endif" /\ nested > 0 -> nested - 1
                     [] OTHER -> nested
      /\ lexers' = Advanced /\ expanded' = Rest
  BY DEF Skip, BranchInv, LiveInv
<1>2. PICK guard, items, n, kind, deep, bs :
          /\ guard = guards[Depth] /\ items = TextAt(Depth) /\ n = ReadAt(Depth)
          /\ kind = Item.kind /\ deep = nested /\ bs = branches
  OBVIOUS
<1>3. /\ IsGuard(guard) /\ n \in Nat /\ Len(bs) \in Nat /\ deep \in Nat
      /\ ReadInGuard(guard, items, n, Pending, bs, TRUE, deep)
  <2>1. ReadInGuard(guards[Depth], TextAt(Depth), ReadAt(Depth), Pending, branches, skipping, nested)
    BY <1>1, Here
  <2> QED
    BY <1>1, <1>2, <2>1, Here
<1>4. PICK m : /\ m = IF expanded = <<>> THEN ReadAt(Depth) + 1 ELSE ReadAt(Depth)
               /\ \/ m = n + 1 /\ items[n + 1] = Item /\ expanded = <<>> /\ Rest = <<>>
                  \/ m = n /\ expanded # <<>> /\ guard.state \in {"endif", "cancelled"}
  BY <1>1, <1>2, Here
<1>5. \/ m = n + 1 /\ items[n + 1].kind = kind
      \/ m = n /\ (guard.state = "endif" => kind \notin Conditionals)
  <2>1. Last(guards) = guards[Depth]
    BY <1>1, CheckedShape
  <2>2. expanded # <<>> /\ guard.state = "endif" => kind \notin Conditionals
    BY <1>1, <1>2, <2>1 DEF BranchesStayInside
  <2> QED
    BY <1>2, <1>4, <2>2
<1>6. PICK down : down = nested'
  OBVIOUS
<1>7. /\ down \in Nat
      /\ kind \in {"ifdef", "ifndef"} => down = deep + 1
      /\ kind = "endif" => deep > 0 /\ down = deep - 1
      /\ kind \notin {"ifdef", "ifndef", "endif"} => down = deep
  <2>1. down = CASE kind \in {"ifdef", "ifndef"} -> deep + 1
                 [] kind = "endif" /\ deep > 0 -> deep - 1
                 [] OTHER -> deep
    BY <1>1, <1>2, <1>6
  <2>2. kind = "endif" => deep > 0
    <3>1. kind = "endif" => deep # 0
      BY <1>2 DEF StopsSkipping
    <3> QED
      BY <1>3, <3>1
  <2> QED
    BY <1>3, <2>1, <2>2
<1>8. \A p : ReadInGuard(guard, items, m, p, bs, TRUE, down)
  BY <1>3, <1>5, <1>7, SkipRead
<1>9. ReadInGuard(guards'[Depth], TextAt(Depth), m, Pending', branches', skipping', nested')
  BY <1>1, <1>2, <1>6, <1>8
<1>10. Moved(lexers')
  BY <1>1, AdvancedMoves
<1>11. expanded' # <<>> => guards'[Depth].state \in {"endif", "cancelled"}
  BY <1>1, <1>2, <1>4
<1>12. Len(guards') = Depth /\ \A k \in 1 .. Depth - 1 : guards'[k] = guards[k]
  BY <1>1 DEF StackInv, Depth
<1>13. IsGuard(guards'[Depth]) /\ guards'[Depth].depth = guards[Depth].depth
  BY <1>1, <1>2, <1>3
<1> QED
  BY <1>1, <1>4, <1>9, <1>10, <1>11, <1>12, <1>13, LevelKeeps

\* Nothing is taken: only skipping and what is pending may change.
LEMMA SameGuards ==
    ASSUME GuardInv, UNCHANGED <<text, lexers, expanded, owner, frames, guards, branches, nested>>,
           Depth > 0 => ReadInGuard(guards[Depth], TextAt(Depth), ReadAt(Depth), Pending',
                                    branches, skipping', nested)
    PROVE  GuardInv'
<1>1. Depth' = Depth
  BY DEF Depth
<1>2. \A k : TextAt(k)' = TextAt(k) /\ ReadAt(k)' = ReadAt(k)
  BY DEF TextAt, ReadAt
<1>3. Depth' > 0 => /\ ReadInGuard(guards[Depth], TextAt(Depth), ReadAt(Depth), Pending,
                                   branches, skipping, nested)'
                    /\ (expanded # <<>>)' => guards[Depth]'.state \in {"endif", "cancelled"}
  <2>1. Depth > 0 => (expanded # <<>> => guards[Depth].state \in {"endif", "cancelled"})
    BY DEF GuardInv
  <2> QED
    BY <1>1, <1>2, <2>1 DEF ReadInGuard
<1>4. /\ \A k \in 1 .. Depth : IsGuard(guards[k])
      /\ \A k \in 1 .. Depth - 1 : WaitsInGuard(guards[k], TextAt(k), ReadAt(k), guards[k + 1])
      /\ \A k \in 1 .. Len(frames) : /\ frames[k].owner > 0
                                     /\ guards[frames[k].owner].state \in {"endif", "cancelled"}
  BY DEF GuardInv
<1>5. \A k \in 1 .. Depth' - 1 : WaitsInGuard(guards[k], TextAt(k), ReadAt(k), guards[k + 1])'
  BY <1>1, <1>2, <1>4 DEF WaitsInGuard
<1>6. \A k \in 1 .. Depth' : IsGuard(guards[k])'
  BY <1>1, <1>4 DEF IsGuard
<1> QED
  BY <1>3, <1>4, <1>5, <1>6 DEF GuardInv

LEMMA PutBackGuards ==
    ASSUME NEW CONSTANT I, MaterialInv(I), StackInv, BranchInv, GuardInv,
           Skip, StopsSkipping(Item.kind)
    PROVE  GuardInv'
<1>1. /\ HasItem /\ skipping = TRUE /\ skipping' = FALSE
      /\ UNCHANGED <<text, lexers, expanded, owner, frames, guards, branches, nested>>
      /\ Item.kind \in Siblings
  BY DEF Skip, PutBack, macroVars, BranchInv, LiveInv, StopsSkipping, Siblings
<1>2. Pending'
  <2>1. HasItem' /\ Item' = Item
    BY <1>1 DEF HasItem, AtEnd, Item, Top
  <2> QED
    BY <1>1, <2>1 DEF Pending
<1>3. PICK guard, items, n, bs, deep :
          /\ guard = guards[Depth] /\ items = TextAt(Depth) /\ n = ReadAt(Depth)
          /\ bs = branches /\ deep = nested
  OBVIOUS
<1>4. ReadInGuard(guard, items, n, TRUE, bs, FALSE, deep)
  <2>1. ReadInGuard(guard, items, n, Pending, bs, TRUE, deep)
    BY <1>1, <1>3, Here
  <2> QED
    BY <2>1, PutBackRead
<1>5. ReadInGuard(guard, items, n, Pending', bs, FALSE, deep)
  BY <1>2, <1>4 DEF ReadInGuard
<1>6. ReadInGuard(guards[Depth], TextAt(Depth), ReadAt(Depth), Pending', branches, skipping', nested)
  BY <1>1, <1>3, <1>5
<1> QED
  BY <1>1, <1>6, SameGuards

\* A file begins; the one that includes it waits.
LEMMA BeginGuards ==
    ASSUME NEW CONSTANT I, MaterialInv(I), StackInv, BranchInv, GuardInv, HasItem, ~skipping,
           Item.kind = "include", NEW file, PushSource(file)
    PROVE  GuardInv'
<1>1. PICK m : m = IF expanded = <<>> THEN ReadAt(Depth) + 1 ELSE ReadAt(Depth)
  OBVIOUS
<1>2. PICK top : top = Checked("include")[Depth]
  OBVIOUS
<1>3. /\ IsGuard(top) /\ top.depth = guards[Depth].depth
      /\ top.state \in {"endif", "cancelled"}
      /\ \A pending : ReadInGuard(top, TextAt(Depth), m, pending, branches, FALSE, 0)
  <2>1. Item.kind \notin Conditionals /\ Item.kind # "define"
    BY DEF Conditionals
  <2> QED
    BY <1>1, <1>2, <2>1, PlainChecked
<1>4. /\ Depth \in Nat /\ Depth >= 1 /\ Len(branches) \in Nat
      /\ skipping = FALSE /\ nested = 0
  BY Here, NextItem
<1>5. PICK D \in Nat, l \in Nat : D = Depth /\ l = Len(branches)
  BY <1>4
<1>6. PICK new : new = NewGuard(l) /\ IsGuard(new) /\ new.depth = l /\ new.state = "ifndef"
  <2>1. NewGuard(l) = GuardRecord("ifndef", NoMacro, NoMacro, l)
    BY DEF NewGuard, GuardRecord
  <2> QED
    BY <1>5, <2>1, RecordIsGuard
<1>7. /\ Len(guards') = D + 1 /\ guards'[D + 1] = new /\ guards'[D] = top
      /\ \A k \in 1 .. D - 1 : guards'[k] = guards[k]
  <2>1. PICK G, gs : gs \in Seq(G) /\ gs = Checked("include")
    BY CheckedShape
  <2>2. Len(gs) = D /\ gs[D] = top /\ \A k \in 1 .. D - 1 : gs[k] = guards[k]
    BY <1>2, <1>5, <2>1, CheckedShape
  <2>3. guards' = Append(gs, new)
    BY <1>5, <1>6, <2>1 DEF PushSource
  <2>4. /\ Len(guards') = D + 1 /\ guards'[D + 1] = new
        /\ \A k \in 1 .. D : guards'[k] = gs[k]
    BY <2>1, <2>2, <2>3, Pushed
  <2>5. D \in 1 .. D /\ \A k \in 1 .. D - 1 : k \in 1 .. D
    BY <1>4, <1>5
  <2> QED
    BY <2>2, <2>4, <2>5
<1>8. /\ Moved(Advanced) /\ Len(lexers') = D + 1
      /\ \A k \in 1 .. D : lexers'[k] = Advanced[k]
      /\ lexers'[D + 1] = Lexer(file, TRUE)
      /\ expanded' = <<>>
      /\ \/ frames' = frames
         \/ /\ Len(frames) \in Nat /\ Len(frames') = Len(frames) + 1
            /\ \A k \in 1 .. Len(frames) : frames'[k] = frames[k]
            /\ frames'[Len(frames) + 1].owner = D
  BY <1>5, BeginShape
<1>9. Depth' = D + 1 /\ text' = text /\ UNCHANGED <<branches, skipping, nested>>
  BY <1>8 DEF Depth, PushSource, branchVars
<1>10. /\ \A k \in 1 .. D : TextAt(k)' = TextAt(k)
       /\ \A k \in 1 .. D - 1 : ReadAt(k)' = ReadAt(k)
       /\ ReadAt(D)' = m /\ ReadAt(D + 1)' = 0
  <2>1. \A k \in 1 .. D :
            /\ lexers'[k].file = lexers[k].file
            /\ lexers'[k].pos = IF k = D /\ expanded = <<>> THEN lexers[k].pos + 1
                                ELSE lexers[k].pos
    BY <1>5, <1>8 DEF Moved
  <2>2. \A k \in 1 .. D : TextAt(k)' = TextAt(k)
    BY <1>9, <2>1 DEF TextAt
  <2>3. \A k \in 1 .. D - 1 : ReadAt(k)' = ReadAt(k)
    BY <1>5, <2>1 DEF ReadAt
  <2>4. D \in 1 .. D /\ lexers[D].pos \in Nat
    BY <1>4, <1>5 DEF MaterialInv, Depth
  <2>5. CASE expanded = <<>>
    <3>1. lexers'[D].pos = lexers[D].pos + 1 /\ m = lexers[D].pos - 1 + 1
      BY <1>1, <1>5, <2>1, <2>4, <2>5 DEF ReadAt
    <3> QED
      BY <1>8, <2>2, <2>3, <2>4, <3>1 DEF ReadAt, Lexer
  <2>6. CASE expanded # <<>>
    <3>1. lexers'[D].pos = lexers[D].pos /\ m = lexers[D].pos - 1
      BY <1>1, <1>5, <2>1, <2>4, <2>6 DEF ReadAt
    <3> QED
      BY <1>8, <2>2, <2>3, <2>4, <3>1 DEF ReadAt, Lexer
  <2> QED
    BY <2>5, <2>6
<1>11. \A k \in 1 .. D + 1 : k = D + 1 \/ k = D \/ k \in 1 .. D - 1
  OBVIOUS
<1>12. \A k \in 1 .. D + 1 : IsGuard(guards'[k])
  <2>1. \A k \in 1 .. D - 1 : IsGuard(guards[k])
    BY <1>5 DEF GuardInv
  <2> QED
    BY <1>3, <1>6, <1>7, <1>11, <2>1
<1>13. \A k \in 1 .. D : WaitsInGuard(guards'[k], TextAt(k), ReadAt(k)', guards'[k + 1])
  <2> SUFFICES ASSUME NEW k \in 1 .. D
               PROVE  WaitsInGuard(guards'[k], TextAt(k), ReadAt(k)', guards'[k + 1])
    OBVIOUS
  <2>1. CASE k = D
    <3>1. /\ top.state = "endif" => /\ Inside(TextAt(D), top, m)
                                    /\ l + 0 + Closed(TextAt(D), m) = top.depth + Opened(TextAt(D), m)
      BY <1>3, <1>5 DEF ReadInGuard
    <3>2. WaitsInGuard(top, TextAt(D), m, new)
      <4>1. l + 0 = l
        BY <1>5
      <4> QED
        BY <1>3, <1>6, <3>1, <4>1 DEF WaitsInGuard
    <3> QED
      BY <1>7, <1>10, <2>1, <3>2
  <2>2. CASE k \in 1 .. D - 1
    <3>1. WaitsInGuard(guards[k], TextAt(k), ReadAt(k), guards[k + 1])
      BY <1>5, <2>2 DEF GuardInv
    <3>2. guards'[k + 1].depth = guards[k + 1].depth
      <4>1. k + 1 = D \/ k + 1 \in 1 .. D - 1
        BY <2>2
      <4> QED
        BY <1>3, <1>5, <1>7, <4>1
    <3>3. guards'[k] = guards[k] /\ ReadAt(k)' = ReadAt(k)
      BY <1>7, <1>10, <2>2
    <3> QED
      BY <3>1, <3>2, <3>3 DEF WaitsInGuard
  <2>3. k = D \/ k \in 1 .. D - 1
    OBVIOUS
  <2> QED
    BY <2>1, <2>2, <2>3
<1>14. \A k \in 1 .. Len(frames') :
           /\ frames'[k].owner > 0
           /\ guards'[frames'[k].owner].state \in {"endif", "cancelled"}
  <2>1. ASSUME NEW k \in 1 .. Len(frames)
        PROVE  /\ frames[k].owner > 0
               /\ guards'[frames[k].owner].state \in {"endif", "cancelled"}
    <3>1. /\ frames[k].owner > 0 /\ guards[frames[k].owner].state \in {"endif", "cancelled"}
          /\ frames[k].owner \in Nat /\ frames[k].owner < D
      BY <1>5 DEF GuardInv, StackInv, Paused, Depth
    <3>2. frames[k].owner \in 1 .. D - 1
      BY <3>1
    <3> QED
      BY <1>7, <3>1, <3>2
  <2>2. CASE frames' = frames
    BY <2>1, <2>2
  <2>3. CASE /\ Len(frames) \in Nat /\ Len(frames') = Len(frames) + 1
             /\ \A k \in 1 .. Len(frames) : frames'[k] = frames[k]
             /\ frames'[Len(frames) + 1].owner = D
    <3> SUFFICES ASSUME NEW k \in 1 .. Len(frames')
                 PROVE  /\ frames'[k].owner > 0
                        /\ guards'[frames'[k].owner].state \in {"endif", "cancelled"}
      OBVIOUS
    <3>1. k = Len(frames) + 1 \/ k \in 1 .. Len(frames)
      BY <2>3
    <3>2. CASE k = Len(frames) + 1
      <4>1. frames'[k].owner = D /\ D > 0
        BY <1>4, <1>5, <2>3, <3>2
      <4> QED
        BY <1>3, <1>7, <4>1
    <3>3. CASE k \in 1 .. Len(frames)
      BY <2>1, <2>3, <3>3
    <3> QED
      BY <3>1, <3>2, <3>3
  <2> QED
    BY <1>8, <2>2, <2>3
<1>15. ReadInGuard(guards'[D + 1], TextAt(D + 1)', 0, Pending', branches', skipping', nested')
  <2>1. Len(branches) >= new.depth
    BY <1>5, <1>6
  <2> QED
    BY <1>4, <1>6, <1>7, <1>9, <2>1 DEF ReadInGuard
<1>16. /\ \A k \in 1 .. Depth' : IsGuard(guards[k])'
       /\ \A k \in 1 .. Depth' - 1 : WaitsInGuard(guards[k], TextAt(k), ReadAt(k), guards[k + 1])'
       /\ ReadInGuard(guards[Depth], TextAt(Depth), ReadAt(Depth), Pending,
                      branches, skipping, nested)'
  <2>1. \A k \in 1 .. Depth' : IsGuard(guards[k])'
    BY <1>9, <1>12 DEF IsGuard
  <2>2. \A k \in 1 .. D : WaitsInGuard(guards[k], TextAt(k), ReadAt(k), guards[k + 1])'
    BY <1>10, <1>13 DEF WaitsInGuard
  <2>3. Depth' - 1 = D
    BY <1>9
  <2>4. ReadInGuard(guards[Depth], TextAt(Depth), ReadAt(Depth), Pending,
                    branches, skipping, nested)'
    BY <1>9, <1>10, <1>15 DEF ReadInGuard
  <2> QED
    BY <2>1, <2>2, <2>3, <2>4
<1> QED
  BY <1>8, <1>14, <1>16 DEF GuardInv

\* A file ends; the one that included it goes on.
LEMMA EndGuards ==
    ASSUME NEW CONSTANT I, MaterialInv(I), StackInv, BranchInv, GuardInv, BranchesStayInside,
           EndOfFile
    PROVE  GuardInv'
<1>1. /\ Depth \in Nat /\ Depth >= 1 /\ expanded = <<>>
      /\ Len(lexers') = Depth - 1
      /\ \A k \in 1 .. Depth - 1 : lexers'[k] = lexers[k]
      /\ \/ UNCHANGED <<expanded, frames>>
         \/ /\ Len(frames) \in Nat /\ Len(frames) >= 1
            /\ frames[Len(frames)].owner = Depth - 1
            /\ Len(frames') = Len(frames) - 1
            /\ \A k \in 1 .. Len(frames) - 1 : frames'[k] = frames[k]
  BY EndShape
<1>2. PICK d \in Nat : d = Depth - 1 /\ Depth = d + 1
  BY <1>1
<1>3. /\ AtEnd /\ guards' = Front(guards) /\ text' = text
      /\ UNCHANGED <<branches, nested>> /\ skipping' = (skipping /\ lexers' # <<>>)
  BY DEF EndOfFile
<1>4. \A k \in 1 .. d : guards'[k] = guards[k]
  <2>1. PICK G : guards \in Seq(G)
    BY DEF StackInv
  <2>2. Len(guards) = d + 1 /\ guards # <<>>
    <3>1. Len(guards) = Depth /\ Len(guards) # 0
      BY <1>1 DEF StackInv, Depth
    <3> QED
      BY <1>2, <2>1, <3>1, NotEmpty
  <2>3. \A k \in 1 .. Len(guards) - 1 : guards'[k] = guards[k]
    BY <1>3, <2>1, <2>2, Popped
  <2>4. Len(guards) - 1 = d
    BY <2>2
  <2> QED
    BY <2>3, <2>4
<1>5. Depth' = d
  BY <1>1, <1>2 DEF Depth
<1>6. \A k \in 1 .. d : TextAt(k)' = TextAt(k) /\ ReadAt(k)' = ReadAt(k)
  BY <1>1, <1>2, <1>3 DEF TextAt, ReadAt
<1>7. \A k \in 1 .. d : k \in 1 .. Depth /\ k \in 1 .. Depth - 1
  BY <1>2
<1>8. \A k \in 1 .. Len(frames') :
          /\ frames'[k].owner > 0
          /\ guards'[frames'[k].owner].state \in {"endif", "cancelled"}
  <2> SUFFICES ASSUME NEW k \in 1 .. Len(frames')
               PROVE  /\ frames'[k].owner > 0
                      /\ guards'[frames'[k].owner].state \in {"endif", "cancelled"}
    OBVIOUS
  <2>1. k \in 1 .. Len(frames) /\ frames'[k] = frames[k]
    BY <1>1
  <2>2. /\ frames[k].owner > 0 /\ guards[frames[k].owner].state \in {"endif", "cancelled"}
        /\ frames[k].owner \in Nat /\ frames[k].owner < Depth
    BY <2>1 DEF GuardInv, StackInv, Paused, Depth
  <2>3. frames[k].owner \in 1 .. d
    BY <1>2, <2>2
  <2> QED
    BY <1>4, <2>1, <2>2, <2>3
<1>9. ASSUME d > 0
      PROVE  /\ ReadInGuard(guards[d], TextAt(d), ReadAt(d), Pending', branches, skipping', nested)
             /\ expanded' # <<>> => guards[d].state \in {"endif", "cancelled"}
  <2>1. d \in 1 .. d /\ d + 1 = Depth
    BY <1>2, <1>9
  <2>2. PICK guard, items, n, bs, above :
            /\ guard = guards[d] /\ items = TextAt(d) /\ n = ReadAt(d) /\ bs = branches
            /\ above = guards[Depth]
            /\ IsGuard(guard) /\ WaitsInGuard(guard, items, n, above)
    BY <1>2, <1>7, <2>1 DEF GuardInv
  <2>3. skipping \in BOOLEAN /\ NestedIn(bs) /\ (skipping => bs # <<>>)
    BY <2>2 DEF BranchInv, LiveInv
  <2>4. PICK B : bs \in Seq(B)
    BY <2>2 DEF BranchInv, LiveInv
  <2>5. Len(bs) \in Nat /\ (bs = <<>> <=> Len(bs) = 0)
    BY <2>4, NotEmpty
  <2>6. skipping' => skipping
    BY <1>3, <2>3
  <2>7. \A p : ReadInGuard(guard, items, n, p, bs, skipping', nested)
    <3>1. CASE guard.state = "ifndef"
      <4>1. n = 0 /\ guard.depth = 0
        BY <2>2, <3>1 DEF WaitsInGuard
      <4>2. Len(bs) >= 0 /\ (skipping' => Len(bs) > 0)
        BY <2>3, <2>5, <2>6
      <4> QED
        BY <3>1, <4>1, <4>2 DEF ReadInGuard
    <3>2. CASE guard.state = "cancelled"
      BY <3>2, CancelledRead
    <3>3. CASE guard.state = "endif"
      <4>1. /\ Inside(items, guard, n)
            /\ above.depth + Closed(items, n) = guard.depth + Opened(items, n)
        BY <2>2, <3>3 DEF WaitsInGuard
      <4>2. ~skipping /\ Active /\ Len(bs) = above.depth
        <5>1. \E k \in 1 .. Depth - 1 : guards[k].state = "endif"
          BY <1>2, <2>1, <2>2, <3>3
        <5>2. Last(guards) = guards[Depth]
          BY DEF StackInv, Last, Depth
        <5> QED
          BY <1>3, <2>2, <5>1, <5>2 DEF BranchesStayInside
      <4>3. nested = 0
        BY <1>3, <4>2 DEF BranchInv, AtEnd
      <4>4. Len(bs) > guard.depth
        <5>1. Opened(items, n) > Closed(items, n)
          BY <4>1 DEF Inside
        <5>2. PICK o, c : o = Opened(items, n) /\ c = Closed(items, n)
          OBVIOUS
        <5>3. o \in Nat /\ c \in Nat
          <6>1. n \in Nat
            BY <4>1 DEF Inside
          <6> QED
            BY <5>2, <6>1, DepthStep
        <5>4. PICK g \in Nat : g = guard.depth
          BY <2>2 DEF IsGuard
        <5>5. \A l \in Nat : l + c = g + o /\ o > c => l > g
          BY <5>3
        <5> QED
          BY <2>5, <4>1, <4>2, <5>1, <5>2, <5>4, <5>5
      <4>5. ActiveAround(bs, guard.depth)
        <5>1. PICK l \in Nat, g \in Nat : l = Len(bs) /\ g = guard.depth /\ l > g
          BY <2>2, <2>5, <4>4 DEF IsGuard
        <5>2. bs[l].currentActive
          <6>1. bs # <<>>
            BY <2>5, <5>1
          <6> QED
            BY <2>2, <4>2, <5>1, <6>1 DEF Active, Last
        <5>3. g = 0 \/ g \in 1 .. l
          BY <5>1
        <5>4. l \in 1 .. l
          BY <5>1
        <5> QED
          BY <2>3, <5>1, <5>2, <5>3, <5>4 DEF ActiveAround, NestedIn
      <4>6. Len(bs) + nested + Closed(items, n) = guard.depth + Opened(items, n)
        <5>1. Len(bs) + 0 = Len(bs)
          BY <2>5
        <5> QED
          BY <4>1, <4>2, <4>3, <5>1
      <4> QED
        BY <3>3, <4>1, <4>4, <4>5, <4>6 DEF ReadInGuard
    <3> QED
      BY <2>2, <3>1, <3>2, <3>3 DEF WaitsInGuard
  <2>8. expanded' # <<>> => guard.state \in {"endif", "cancelled"}
    <3>1. CASE UNCHANGED <<expanded, frames>>
      BY <1>1, <3>1
    <3>2. CASE Len(frames) \in Nat /\ Len(frames) >= 1 /\ frames[Len(frames)].owner = Depth - 1
      <4>1. Len(frames) \in 1 .. Len(frames)
        BY <3>2
      <4>2. guards[frames[Len(frames)].owner].state \in {"endif", "cancelled"}
        BY <4>1 DEF GuardInv
      <4> QED
        BY <1>2, <2>2, <3>2, <4>2
    <3> QED
      BY <1>1, <3>1, <3>2
  <2> QED
    BY <2>2, <2>7, <2>8
<1>10. /\ \A k \in 1 .. Depth' : IsGuard(guards[k])'
       /\ \A k \in 1 .. Depth' - 1 : WaitsInGuard(guards[k], TextAt(k), ReadAt(k), guards[k + 1])'
  <2>1. \A k \in 1 .. d : IsGuard(guards[k])
    BY <1>7 DEF GuardInv
  <2>2. \A k \in 1 .. d : IsGuard(guards[k])'
    BY <1>4, <2>1 DEF IsGuard
  <2>3. \A k \in 1 .. d - 1 : k \in 1 .. d /\ k + 1 \in 1 .. d
    OBVIOUS
  <2>4. \A k \in 1 .. d : WaitsInGuard(guards[k], TextAt(k), ReadAt(k), guards[k + 1])
    BY <1>7 DEF GuardInv
  <2>5. \A k \in 1 .. d - 1 : WaitsInGuard(guards[k], TextAt(k), ReadAt(k), guards[k + 1])'
    BY <1>4, <1>6, <2>3, <2>4 DEF WaitsInGuard
  <2> QED
    BY <1>5, <2>2, <2>5
<1>11. Depth' > 0 => /\ ReadInGuard(guards[Depth], TextAt(Depth), ReadAt(Depth), Pending,
                                    branches, skipping, nested)'
                     /\ (expanded # <<>>)' => guards[Depth]'.state \in {"endif", "cancelled"}
  <2> SUFFICES ASSUME d > 0
               PROVE  /\ ReadInGuard(guards[Depth], TextAt(Depth), ReadAt(Depth), Pending,
                                     branches, skipping, nested)'
                      /\ (expanded # <<>>)' => guards[Depth]'.state \in {"endif", "cancelled"}
    BY <1>5
  <2>1. d \in 1 .. d
    OBVIOUS
  <2>2. /\ guards'[d] = guards[d] /\ TextAt(d)' = TextAt(d) /\ ReadAt(d)' = ReadAt(d)
    BY <1>4, <1>6, <2>1
  <2>3. /\ ReadInGuard(guards[d], TextAt(d), ReadAt(d), Pending', branches, skipping', nested)
        /\ expanded' # <<>> => guards[d].state \in {"endif", "cancelled"}
    BY <1>9
  <2> QED
    BY <1>3, <1>5, <2>2, <2>3 DEF ReadInGuard
<1> QED
  BY <1>8, <1>10, <1>11 DEF GuardInv

LEMMA GuardInit == Init => GuardInv
<1> SUFFICES ASSUME Init PROVE GuardInv
  OBVIOUS
<1>1. PICK program \in Programs :
          LET sources == Reverse(program.sources)
          IN  /\ lexers = [k \in DOMAIN sources |-> Lexer(sources[k], FALSE)]
              /\ guards = [k \in DOMAIN sources |-> NewGuard(0)]
  BY DEF Init
<1> DEFINE sources == Reverse(program.sources)
           n == Len(program.sources)
<1>2. n \in Nat /\ DOMAIN sources = 1 .. n
  BY PreprocessorOK DEF Reverse
<1> HIDE DEF sources, n
<1>3. PICK new : new = NewGuard(0) /\ IsGuard(new) /\ new.depth = 0 /\ new.state = "ifndef"
  <2>1. NewGuard(0) = GuardRecord("ifndef", NoMacro, NoMacro, 0)
    BY DEF NewGuard, GuardRecord
  <2> QED
    BY <2>1, RecordIsGuard
<1>4. \A k \in 1 .. n : lexers[k].pos = 1 /\ guards[k] = new
  BY <1>1, <1>2, <1>3 DEF sources, Lexer
<1>5. Depth = n
  <2> DEFINE L == { lexers[k] : k \in 1 .. n }
  <2>1. lexers \in [1 .. n -> L]
    BY <1>1, <1>2 DEF sources
  <2> QED
    BY <1>2, <2>1 DEF Depth
<1>6. \A k \in 1 .. n : ReadAt(k) = 0
  BY <1>4 DEF ReadAt
<1>7. \A k \in 1 .. n - 1 : k \in 1 .. n /\ k + 1 \in 1 .. n
  BY <1>2
<1>8. \A k \in 1 .. n - 1 : WaitsInGuard(guards[k], TextAt(k), ReadAt(k), guards[k + 1])
  BY <1>3, <1>4, <1>6, <1>7 DEF WaitsInGuard
<1>9. /\ branches = <<>> /\ skipping = FALSE /\ nested = 0
      /\ expanded = <<>> /\ frames = <<>>
  BY DEF Init
<1>10. n > 0 => ReadInGuard(guards[n], TextAt(n), ReadAt(n), Pending, branches, skipping, nested)
  <2> SUFFICES ASSUME n > 0
               PROVE  ReadInGuard(guards[n], TextAt(n), ReadAt(n), Pending, branches, skipping, nested)
    OBVIOUS
  <2>1. n \in 1 .. n
    BY <1>2
  <2>2. guards[n] = new /\ ReadAt(n) = 0 /\ Len(branches) = 0
    BY <1>4, <1>6, <1>9, <2>1
  <2> QED
    BY <1>3, <1>9, <2>2 DEF ReadInGuard
<1>11. Len(frames) = 0
  BY <1>9
<1> QED
  BY <1>3, <1>4, <1>5, <1>8, <1>9, <1>10, <1>11 DEF GuardInv

LEMMA GuardStep ==
    ASSUME NEW CONSTANT I, MaterialInv(I), StackInv, BranchInv, GuardInv, BranchesStayInside,
           [Next]_vars
    PROVE  GuardInv'
<1>1. HasItem => Moved(Advanced) /\ \A b : Moved([Advanced EXCEPT ![Depth].begun = b])
  BY AdvancedMoves
<1>2. ASSUME Token \/ Undef \/ UndefineAll \/ MacroUsage \/ Once \/ BeginKeywords \/ EndKeywords
      PROVE  /\ HasItem /\ ~skipping /\ Item.kind \notin Conditionals \cup {"define"}
             /\ Moved(lexers') /\ UNCHANGED <<text, frames, branches, skipping, nested>>
             /\ guards' = Checked(Item.kind)
  <2>1. CASE Token
    BY <1>1, <2>1 DEF Token, Handles, Take, branchVars, Conditionals
  <2>2. CASE Undef
    BY <1>1, <2>2 DEF Undef, Handles, Take, branchVars, Conditionals
  <2>3. CASE UndefineAll
    BY <1>1, <2>3 DEF UndefineAll, Handles, Take, branchVars, Conditionals
  <2>4. CASE MacroUsage
    BY <1>1, <2>4 DEF MacroUsage, Handles, branchVars, Conditionals
  <2>5. CASE Once
    BY <1>1, <2>5 DEF Once, Handles, Take, branchVars, Conditionals
  <2>6. CASE BeginKeywords
    <3>1. /\ HasItem /\ ~skipping /\ Item.kind = "begin_keywords"
          /\ UNCHANGED <<text, frames, branches, skipping, nested>>
          /\ guards' = Checked(Item.kind)
          /\ \/ lexers' = Advanced
             \/ \E b : lexers' = [Advanced EXCEPT ![Depth].begun = b]
      BY <2>6 DEF BeginKeywords, Handles, Take, branchVars
    <3> QED
      BY <1>1, <3>1 DEF Conditionals
  <2>7. CASE EndKeywords
    <3>1. HasItem /\ \E b : lexers' = [Advanced EXCEPT ![Depth].begun = b]
      BY <2>7 DEF EndKeywords, Handles
    <3> QED
      BY <1>1, <2>7, <3>1 DEF EndKeywords, Handles, branchVars, Conditionals
  <2> QED
    BY <1>2, <2>1, <2>2, <2>3, <2>4, <2>5, <2>6, <2>7
<1>3. CASE Token \/ Undef \/ UndefineAll \/ MacroUsage \/ Once \/ BeginKeywords \/ EndKeywords
  BY <1>2, <1>3, PlainKeeps
<1>4. CASE Define
  <2>1. /\ HasItem /\ ~skipping /\ Item.kind = "define" /\ Moved(lexers')
        /\ UNCHANGED <<text, frames, branches, skipping, nested>>
    BY <1>1, <1>4 DEF Define, Handles, Take, branchVars
  <2>2. CASE guards[Depth].state = "define"
    BY <1>4, <2>2, GuardDefineKeeps
  <2>3. CASE guards[Depth].state # "define"
    <3>1. PICK top : top = Checked("define")[Depth]
      OBVIOUS
    <3>2. top.state \in {"endif", "cancelled"} /\ IsGuard(guards[Depth])
          /\ top = Seen(guards[Depth], "define")
      <4>1. PICK m : m = IF expanded = <<>> THEN ReadAt(Depth) + 1 ELSE ReadAt(Depth)
        OBVIOUS
      <4>2. Item.kind \notin Conditionals
        BY <2>1 DEF Conditionals
      <4> QED
        BY <2>1, <2>3, <3>1, <4>1, <4>2, PlainChecked, CheckedShape, Here
    <3>3. Last(Checked("define")).state # "define"
      <4>1. Last(Checked("define")) = Seen(guards[Depth], "define")
        BY <2>1, CheckedShape
      <4> QED
        BY <3>2, <4>1
    <3>4. guards' = Checked("define")
      BY <1>4, <3>3 DEF Define
    <3>5. Item.kind \notin Conditionals
      BY <2>1 DEF Conditionals
    <3> QED
      BY <2>1, <2>3, <3>4, <3>5, PlainKeeps
  <2> QED
    BY <2>2, <2>3
<1>5. CASE Include
  <2>1. HasItem /\ ~skipping /\ Item.kind = "include"
    BY <1>5 DEF Include, Handles
  <2>2. CASE PushSource(Item.name)
    BY <2>1, <2>2, BeginGuards
  <2>3. CASE Take /\ guards' = Checked("include") /\ UNCHANGED branchVars
    <3>1. Item.kind \notin Conditionals /\ Item.kind # "define"
      BY <2>1 DEF Conditionals
    <3>2. Moved(lexers') /\ UNCHANGED <<text, frames, branches, skipping, nested>>
      BY <1>1, <2>1, <2>3 DEF Take, branchVars
    <3> QED
      BY <2>1, <2>3, <3>1, <3>2, PlainKeeps
  <2> QED
    BY <1>5, <2>2, <2>3 DEF Include
<1>6. CASE Skip
  BY <1>6, SkippedGuards, PutBackGuards
<1>7. CASE UNCHANGED vars
  <2>1. UNCHANGED <<text, lexers, expanded, owner, frames, guards, branches, skipping, nested>>
    BY <1>7 DEF vars, sourceVars, macroVars, branchVars
  <2>2. Pending' <=> Pending
    BY <2>1 DEF Pending, HasItem, AtEnd, Item, Top
  <2>3. Depth > 0 => ReadInGuard(guards[Depth], TextAt(Depth), ReadAt(Depth), Pending',
                                 branches, skipping', nested)
    <3>1. Depth > 0 => ReadInGuard(guards[Depth], TextAt(Depth), ReadAt(Depth), Pending,
                                   branches, skipping, nested)
      BY DEF GuardInv
    <3> QED
      BY <2>1, <2>2, <3>1 DEF ReadInGuard
  <2> QED
    BY <2>1, <2>3, SameGuards
<1> QED
  BY <1>3, <1>4, <1>5, <1>6, <1>7, IfDefGuards, ElseGuards, EndIfGuards, EndGuards DEF Next

(***************************************************************************)
(* A file is remembered with a guard only if all of it is guarded.         *)
(***************************************************************************)
Remembered ==
    /\ includeOnce = [f \in Files |-> includeOnce[f]]
    /\ \A f \in Files : includeOnce[f] \in Names =>
          IsGuarded(text[f]) /\ text[f][1].name = includeOnce[f]

GuardedAreDead == \A f \in Files : IsGuarded(text[f]) => OneBranch(text[f])

\* The whole file was read and its guard was closed last.
LEMMA EofIsGuarded ==
    ASSUME NEW CONSTANT I, MaterialInv(I), StackInv, GuardInv, AtEnd,
           Last(guards).state = "eof", Last(guards).ifndef = Last(guards).define
    PROVE  /\ Top.file \in Files /\ IsGuarded(text[Top.file])
           /\ text[Top.file][1].name = Last(guards).ifndef
<1>1. PICK L : lexers \in Seq(L)
  BY DEF StackInv, Sources
<1>2. Depth \in Nat /\ Depth > 0 /\ Depth \in 1 .. Depth /\ Top = lexers[Depth]
  BY <1>1, NotEmpty DEF AtEnd, Depth, Top, Last
<1>3. Last(guards) = guards[Depth]
  BY DEF StackInv, Last, Depth
<1>4. PICK items, n, guard :
          /\ items = TextAt(Depth) /\ n = ReadAt(Depth) /\ guard = guards[Depth]
  OBVIOUS
<1>5. /\ n \in 1 .. Len(items) /\ Inside(items, guard, n - 1)
      /\ Opened(items, n) = Closed(items, n)
  BY <1>2, <1>3, <1>4 DEF GuardInv, ReadInGuard
<1>6. /\ Top.file \in Files /\ items = text[Top.file] /\ items \in Seq(I)
      /\ Top.pos \in Nat /\ n = Top.pos - 1 /\ Top.pos > Len(items)
  BY <1>2, <1>4 DEF MaterialInv, Depth, TextAt, ReadAt, AtEnd
<1>7. n = Len(items) /\ Len(items) \in Nat
  BY <1>5, <1>6
<1>8. /\ n - 1 >= 2
      /\ items[1].kind = "ifndef" /\ items[1].name = guard.ifndef
      /\ items[2].kind = "define" /\ items[2].name = guard.define
      /\ \A m \in 1 .. n - 1 : Opened(items, m) > Closed(items, m)
  BY <1>5 DEF Inside
<1>9. n > 2
  BY <1>7, <1>8
<1>10. IsGuarded(items)
  BY <1>3, <1>4, <1>5, <1>7, <1>8, <1>9 DEF IsGuarded
<1> QED
  BY <1>3, <1>4, <1>6, <1>8, <1>10

LEMMA RememberedStep ==
    ASSUME NEW CONSTANT I, MadeOf(I), MaterialInv(I), StackInv, GuardInv, Remembered, [Next]_vars
    PROVE  Remembered'
<1>1. text' = text
  BY MacrosStep
<1>2. ASSUME NEW file \in Files, NEW name, includeOnce' = [includeOnce EXCEPT ![file] = name],
             name \in Names => IsGuarded(text[file]) /\ text[file][1].name = name
      PROVE  Remembered'
  <2>1. \A f \in Files : includeOnce'[f] = IF f = file THEN name ELSE includeOnce[f]
    BY <1>2 DEF Remembered
  <2>2. includeOnce' = [f \in Files |-> includeOnce'[f]]
    BY <1>2 DEF Remembered
  <2>3. ASSUME NEW f \in Files, includeOnce'[f] \in Names
        PROVE  IsGuarded(text[f]) /\ text[f][1].name = includeOnce'[f]
    <3>1. CASE f = file
      BY <1>2, <2>1, <2>3, <3>1
    <3>2. CASE f # file
      BY <2>1, <2>3, <3>2 DEF Remembered
    <3> QED
      BY <3>1, <3>2
  <2> QED
    BY <1>1, <2>2, <2>3 DEF Remembered
<1>3. CASE includeOnce' = includeOnce
  BY <1>1, <1>3 DEF Remembered
<1>4. CASE Once
  <2>1. CASE expanded = <<>>
    <3>1. Top.file \in Files
      <4>1. HasItem /\ Top = lexers[Depth] /\ Depth \in 1 .. Depth
        BY <1>4, <2>1, ItemIn DEF Once, Handles
      <4> QED
        BY <4>1 DEF MaterialInv, Depth
    <3>2. Always \notin Names
      BY PreprocessorOK
    <3>3. includeOnce' = includeOnce \/ includeOnce' = [includeOnce EXCEPT ![Top.file] = Always]
      BY <1>4 DEF Once
    <3> QED
      BY <1>2, <1>3, <3>1, <3>2, <3>3
  <2>2. CASE expanded # <<>>
    <3>1. includeOnce' = includeOnce
      BY <1>4, <2>2 DEF Once
    <3> QED
      BY <1>3, <3>1
  <2> QED
    BY <2>1, <2>2
<1>5. CASE EndOfFile
  <2>1. CASE includeOnce' = includeOnce
    BY <1>3, <2>1
  <2>2. CASE includeOnce' # includeOnce
    <3>1. /\ AtEnd /\ GuardOf(Last(guards)) # NoMacro
          /\ includeOnce' = [includeOnce EXCEPT ![Top.file] = GuardOf(Last(guards))]
      BY <1>5, <2>2 DEF EndOfFile
    <3>2. /\ Last(guards).state = "eof" /\ Last(guards).ifndef = Last(guards).define
          /\ GuardOf(Last(guards)) = Last(guards).ifndef
      BY <3>1 DEF GuardOf
    <3>3. /\ Top.file \in Files /\ IsGuarded(text[Top.file])
          /\ text[Top.file][1].name = Last(guards).ifndef
      BY <3>1, <3>2, EofIsGuarded
    <3>4. PICK name : name = Last(guards).ifndef
      OBVIOUS
    <3>5. includeOnce' = [includeOnce EXCEPT ![Top.file] = name]
      BY <3>1, <3>2, <3>4
    <3> QED
      BY <1>2, <3>3, <3>4, <3>5
  <2> QED
    BY <2>1, <2>2
<1>6. CASE ~(Once \/ EndOfFile)
  <2>1. includeOnce' = includeOnce
    BY <1>6 DEF Next, Token, IfDef, ElseBranch, EndIf, Skip, Define, Undef, UndefineAll, MacroUsage,
                Include, PushSource, BeginKeywords, EndKeywords, vars, sourceVars
  <2> QED
    BY <1>3, <2>1
<1> QED
  BY <1>4, <1>5, <1>6

(***************************************************************************)
(* An `include that is skipped for the header guard of its file loses      *)
(* nothing: headerGuardStack takes a file for a guarded one only if it is  *)
(* one `ifndef that begins with a `define, so that nothing of it is live   *)
(* once the macro is defined.  This holds of all programs in which no      *)
(* guard has an `else or `elsif and branches do not leave the file or the  *)
(* expansion in which they begin while a guard is open.                    *)
(***************************************************************************)
THEOREM GuardsSkipNothing ==
    ASSUME NEW CONSTANT I, MadeOf(I), GuardsHaveNoElse
    PROVE  Spec /\ []BranchesStayInside => []SkipsNothingLive
<1> DEFINE Inv == /\ StackInv /\ MaterialInv(I) /\ BranchInv /\ GuardInv
                  /\ Remembered /\ GuardedAreDead
<1>1. Init => Inv
  <2> SUFFICES ASSUME Init PROVE Inv
    OBVIOUS
  <2>1. Remembered
    <3>1. includeOnce = [f \in Files |-> Never] /\ Never \notin Names
      BY PreprocessorOK DEF Init
    <3>2. \A f \in Files : includeOnce[f] \notin Names
      BY <3>1
    <3>3. includeOnce = [f \in Files |-> includeOnce[f]]
      BY <3>1
    <3> QED
      BY <3>2, <3>3 DEF Remembered
  <2>2. GuardedAreDead
    <3>1. PICK program \in Programs : text = program.text
      BY DEF Init
    <3> QED
      BY <3>1 DEF GuardsHaveNoElse, GuardedAreDead, OneBranch
  <2> QED
    BY <2>1, <2>2, StackInit, MaterialInit, BranchInit, GuardInit
<1>2. Inv /\ [Next]_vars /\ BranchesStayInside => Inv'
  <2> SUFFICES ASSUME Inv, [Next]_vars, BranchesStayInside PROVE Inv'
    OBVIOUS
  <2>1. StackInv' /\ MaterialInv(I)' /\ BranchInv' /\ GuardInv' /\ Remembered'
    BY StackStep, MaterialStep, BranchStep, GuardStep, RememberedStep
  <2>2. text' = text
    BY MacrosStep
  <2>3. GuardedAreDead'
    BY <2>2 DEF GuardedAreDead
  <2> QED
    BY <2>1, <2>3
<1>3. Inv => SkipsNothingLive
  <2> SUFFICES ASSUME Inv, NEW f \in Files, includeOnce[f] \in Names, IsDefined(includeOnce[f])
               PROVE  ~LiveIn(f)
    BY DEF SkipsNothingLive
  <2>1. IsGuarded(text[f]) /\ text[f][1].name = includeOnce[f]
    BY DEF Remembered
  <2>2. OneBranch(text[f]) /\ text[f] \in Seq(I)
    BY <2>1 DEF GuardedAreDead, MaterialInv
  <2>3. IsDefined(text[f][1].name)
    BY <2>1
  <2> QED
    BY <2>1, <2>2, <2>3, GuardedIsDead
<1> QED
  BY <1>1, <1>2, <1>3, PTL DEF Spec

-----------------------------------------------------------------------------
(***************************************************************************)
(* Keywords.  From bottom to top, the stack holds the default and, for     *)
(* every file, the entry it pushed when it began, if any, and those of the *)
(* `begin_keywords that are open in it; at[k] entries are below file k.    *)
(***************************************************************************)
Pushes(ks, n, file) == IF ~Unmapped(file) \/ ks[n].source = "mapping" THEN 1 ELSE 0

LastDirective(ks, n, d) ==
    /\ d \in 1 .. n /\ ks[d].source = "directive"
    /\ \A i \in d + 1 .. n : ks[i].source # "directive"

\* A version is restored from the last `begin_keywords.
IsKeywords(ks) ==
    /\ \E S : ks \in Seq(S)
    /\ Len(ks) >= 1 /\ ks[1].source = "directive"
    /\ \A k \in 1 .. Len(ks) : ks[k].source \in {"directive", "mapping", "restored"}
    /\ \A k \in 1 .. Len(ks) : ks[k].source = "restored" =>
          \A d \in 1 .. k : LastDirective(ks, k, d) => ks[k].version = ks[d].version

\* The entries of the file l.
Block(ks, low, high, l) ==
    /\ low >= 1
    /\ ~Unmapped(l.file) => ks[low + 1] = Keyword(KeywordVersion[l.file], "mapping")
    /\ Unmapped(l.file) => ks[low].source # "restored"
    /\ Unmapped(l.file) /\ ks[low].source = "mapping" => ks[low + 1].source = "restored"
    /\ l.begun \in Nat /\ high = low + Pushes(ks, low, l.file) + l.begun
    /\ \A i \in low + Pushes(ks, low, l.file) + 1 .. high : ks[i].source = "directive"

Placed(ls, ks, at) ==
    /\ at[1] = 1 /\ at[Len(ls) + 1] = Len(ks)
    /\ \A k \in 1 .. Len(ls) + 1 : at[k] \in Nat
    /\ \A j, k \in 1 .. Len(ls) + 1 : j <= k => at[j] <= at[k]
    /\ \A k \in 1 .. Len(ls) : Block(ks, at[k], at[k + 1], ls[k])

LEMMA BlockSame ==
    ASSUME NEW low \in Nat, NEW high \in Nat, NEW ks, NEW l, Block(ks, low, high, l),
           NEW ks2, \A i \in 1 .. high : ks2[i] = ks[i],
           NEW l2, l2.file = l.file, l2.begun = l.begun
    PROVE  Block(ks2, low, high, l2)
<1>1. PICK p \in {0, 1} : p = Pushes(ks, low, l.file)
  BY DEF Pushes
<1>2. /\ low >= 1 /\ l.begun \in Nat /\ high = low + p + l.begun
      /\ \A i \in low + p + 1 .. high : ks[i].source = "directive"
  BY <1>1 DEF Block
<1>3. low \in 1 .. high /\ (p = 1 => low + 1 \in 1 .. high)
      /\ \A i \in low + p + 1 .. high : i \in 1 .. high
  BY <1>1, <1>2
<1>4. ks2[low] = ks[low] /\ (p = 1 => ks2[low + 1] = ks[low + 1])
  BY <1>3
<1>5. Pushes(ks2, low, l2.file) = p
  BY <1>1, <1>4 DEF Pushes
<1>6. \A i \in low + p + 1 .. high : ks2[i].source = "directive"
  BY <1>2, <1>3
<1>7. ~Unmapped(l.file) \/ ks[low].source = "mapping" => p = 1
  BY <1>1 DEF Pushes
<1> QED
  BY <1>1, <1>2, <1>4, <1>5, <1>6, <1>7 DEF Block

\* Fewer keywords, and one more.
LEMMA FewerKeywords ==
    ASSUME NEW ks, IsKeywords(ks), NEW T, NEW ks2 \in Seq(T), Len(ks2) >= 1, Len(ks2) <= Len(ks),
           \A i \in 1 .. Len(ks2) : ks2[i] = ks[i]
    PROVE  IsKeywords(ks2)
<1>1. PICK n \in Nat, m \in Nat : n = Len(ks2) /\ m = Len(ks) /\ n >= 1 /\ n <= m
  <2>1. PICK S : ks \in Seq(S)
    BY DEF IsKeywords
  <2> QED
    BY <2>1
<1>2. \A i \in 1 .. n : i \in 1 .. m /\ ks2[i] = ks[i]
  BY <1>1
<1>3. ASSUME NEW k \in 1 .. n, NEW d \in 1 .. k, LastDirective(ks2, k, d)
      PROVE  LastDirective(ks, k, d)
  <2>1. \A i \in 1 .. k : i \in 1 .. n
    BY <1>1
  <2>2. \A i \in d + 1 .. k : i \in 1 .. k
    OBVIOUS
  <2> QED
    BY <1>2, <1>3, <2>1, <2>2 DEF LastDirective
<1>4. ASSUME NEW k \in 1 .. n, ks2[k].source = "restored", NEW d \in 1 .. k, LastDirective(ks2, k, d)
      PROVE  ks2[k].version = ks2[d].version
  <2>1. d \in 1 .. n
    BY <1>1
  <2>2. ks[k].version = ks[d].version
    BY <1>1, <1>2, <1>3, <1>4 DEF IsKeywords
  <2> QED
    BY <1>2, <2>1, <2>2
<1>5. 1 \in 1 .. n
  BY <1>1
<1> QED
  BY <1>1, <1>2, <1>4, <1>5 DEF IsKeywords

LEMMA OneMoreKeyword ==
    ASSUME NEW ks, IsKeywords(ks), NEW T, NEW ks2 \in Seq(T), NEW n \in Nat, n = Len(ks),
           Len(ks2) = n + 1, \A i \in 1 .. n : ks2[i] = ks[i],
           ks2[n + 1].source \in {"directive", "mapping", "restored"},
           ks2[n + 1].source = "restored" =>
              \A d \in 1 .. n : LastDirective(ks, n, d) => ks2[n + 1].version = ks[d].version
    PROVE  IsKeywords(ks2)
<1>1. \A k \in 1 .. n + 1 : k = n + 1 \/ k \in 1 .. n
  OBVIOUS
<1>2. \A k \in 1 .. n + 1 : ks2[k].source \in {"directive", "mapping", "restored"}
  BY <1>1 DEF IsKeywords
<1>3. 1 \in 1 .. n /\ ks2[1].source = "directive"
  BY DEF IsKeywords
<1>4. ASSUME NEW k \in 1 .. n + 1, ks2[k].source = "restored", NEW d \in 1 .. k,
             LastDirective(ks2, k, d)
      PROVE  ks2[k].version = ks2[d].version
  <2>1. d # k /\ ks2[d].source = "directive" /\ \A i \in d + 1 .. k : ks2[i].source # "directive"
    BY <1>4 DEF LastDirective
  <2>2. d \in 1 .. n /\ ks2[d] = ks[d]
    BY <2>1
  <2>3. CASE k = n + 1
    <3>1. LastDirective(ks, n, d)
      <4>1. \A i \in d + 1 .. n : i \in d + 1 .. k /\ i \in 1 .. n
        BY <2>3
      <4>2. \A i \in d + 1 .. n : ks[i].source # "directive"
        BY <2>1, <4>1
      <4> QED
        BY <2>1, <2>2, <4>2 DEF LastDirective
    <3> QED
      BY <1>4, <2>2, <2>3, <3>1
  <2>4. CASE k \in 1 .. n
    <3>1. LastDirective(ks, k, d)
      <4>1. \A i \in d + 1 .. k : i \in 1 .. n
        BY <2>4
      <4>2. \A i \in d + 1 .. k : ks[i].source # "directive"
        BY <2>1, <4>1
      <4> QED
        BY <2>1, <2>2, <4>2 DEF LastDirective
    <3>2. ks[k].version = ks[d].version /\ ks2[k] = ks[k]
      BY <1>4, <2>4, <3>1 DEF IsKeywords
    <3> QED
      BY <2>2, <3>2
  <2> QED
    BY <1>1, <2>3, <2>4
<1> QED
  BY <1>2, <1>3, <1>4 DEF IsKeywords

\* The last `begin_keywords, or the default.
LEMMA TopDirective ==
    ASSUME NEW ks, IsKeywords(ks), NEW d,
           d = SelectLastInSeq(ks, LAMBDA e : e.source = "directive")
    PROVE  LastDirective(ks, Len(ks), d)
<1> DEFINE S == { i \in 1 .. Len(ks) : ks[i].source = "directive" }
<1>1. PICK n \in Nat : n = Len(ks) /\ n >= 1 /\ ks[1].source = "directive"
  BY DEF IsKeywords
<1>2. S \subseteq 1 .. n /\ 1 \in S /\ S # {}
  BY <1>1
<1>3. d = Max(S)
  BY <1>2 DEF SelectLastInSeq
<1>4. S \in SUBSET (1 .. n)
  BY <1>2
<1> HIDE DEF S
<1>5. d \in S /\ \A j \in S : d >= j
  BY <1>2, <1>3, <1>4, GreatestIndex
<1>6. d \in 1 .. n /\ ks[d].source = "directive"
  BY <1>1, <1>5 DEF S
<1>7. ASSUME NEW i \in d + 1 .. n PROVE ks[i].source # "directive"
  <2>1. i \in 1 .. n /\ ~(d >= i)
    BY <1>6
  <2> QED
    BY <1>1, <1>5, <2>1 DEF S
<1> QED
  BY <1>1, <1>6, <1>7 DEF LastDirective

LEMMA LastDirectiveIs ==
    ASSUME NEW ks, NEW n \in Nat, NEW d, NEW e, LastDirective(ks, n, d), LastDirective(ks, n, e)
    PROVE  d = e
<1>1. d \in 1 .. n /\ e \in 1 .. n
  BY DEF LastDirective
<1>2. ASSUME d < e PROVE FALSE
  BY <1>1, <1>2 DEF LastDirective
<1>3. ASSUME e < d PROVE FALSE
  BY <1>1, <1>3 DEF LastDirective
<1> QED
  BY <1>1, <1>2, <1>3

\* What is restored: the last version that does not come from a mapping.
LEMMA RestoredVersion ==
    ASSUME NEW ks, IsKeywords(ks), NEW n \in Nat, n = Len(ks), NEW k,
           k = SelectLastInSeq(ks, LAMBDA e : e.source # "mapping"),
           NEW d, LastDirective(ks, n, d)
    PROVE  ks[k].version = ks[d].version
<1> DEFINE S == { i \in 1 .. Len(ks) : ks[i].source # "mapping" }
<1>1. n >= 1 /\ ks[1].source = "directive"
  BY DEF IsKeywords
<1>2. S \subseteq 1 .. n /\ 1 \in S /\ S # {}
  BY <1>1
<1>3. k = Max(S)
  BY <1>2 DEF SelectLastInSeq
<1>4. S \in SUBSET (1 .. n)
  BY <1>2
<1> HIDE DEF S
<1>5. k \in S /\ \A j \in S : k >= j
  BY <1>2, <1>3, <1>4, GreatestIndex
<1>6. k \in 1 .. n /\ ks[k].source # "mapping"
  BY <1>5 DEF S
<1>7. d \in 1 .. n /\ ks[d].source = "directive" /\ \A i \in d + 1 .. n : ks[i].source # "directive"
  BY DEF LastDirective
<1>8. d \in S
  BY <1>7 DEF S
<1>9. d <= k /\ d \in 1 .. k
  BY <1>5, <1>6, <1>7, <1>8
<1>10. CASE k = d
  BY <1>10
<1>11. CASE k # d
  <2>1. k \in d + 1 .. n
    BY <1>6, <1>7, <1>9, <1>11
  <2>2. ks[k].source = "restored"
    BY <1>6, <1>7, <2>1 DEF IsKeywords
  <2>3. LastDirective(ks, k, d)
    <3>1. \A i \in d + 1 .. k : i \in d + 1 .. n
      BY <1>6
    <3> QED
      BY <1>7, <1>9, <3>1 DEF LastDirective
  <2> QED
    BY <1>6, <1>9, <2>2, <2>3 DEF IsKeywords
<1> QED
  BY <1>10, <1>11

\* The files and what they began.
SameFiles(ls2, ls, n) ==
    \A k \in 1 .. n : ls2[k].file = ls[k].file /\ ls2[k].begun = ls[k].begun

LEMMA PlacedAt ==
    ASSUME NEW ls, NEW n \in Nat, Len(ls) = n, NEW ks, NEW at, Placed(ls, ks, at)
    PROVE  /\ Len(ks) \in Nat /\ at[n + 1] = Len(ks)
           /\ \A k \in 1 .. n + 1 : at[k] \in 1 .. Len(ks)
<1>1. 1 \in 1 .. n + 1 /\ n + 1 \in 1 .. n + 1
  OBVIOUS
<1>2. at[1] = 1 /\ at[n + 1] = Len(ks) /\ \A k \in 1 .. n + 1 : at[k] \in Nat
  BY DEF Placed
<1>3. \A k \in 1 .. n + 1 : at[1] <= at[k] /\ at[k] <= at[n + 1]
  <2>1. \A k \in 1 .. n + 1 : 1 <= k /\ k <= n + 1
    OBVIOUS
  <2> QED
    BY <1>1, <2>1 DEF Placed
<1> QED
  BY <1>1, <1>2, <1>3

\* Neither the files nor the keywords change.
LEMMA PlacedSame ==
    ASSUME NEW ls, NEW n \in Nat, Len(ls) = n, NEW ks, NEW at, Placed(ls, ks, at),
           NEW ls2, Len(ls2) = n, SameFiles(ls2, ls, n)
    PROVE  Placed(ls2, ks, at)
<1>1. \A k \in 1 .. n : k \in 1 .. n + 1 /\ k + 1 \in 1 .. n + 1
  OBVIOUS
<1>2. ASSUME NEW k \in 1 .. n PROVE Block(ks, at[k], at[k + 1], ls2[k])
  <2>1. at[k] \in Nat /\ at[k + 1] \in Nat /\ Block(ks, at[k], at[k + 1], ls[k])
    BY <1>1 DEF Placed
  <2>2. ls2[k].file = ls[k].file /\ ls2[k].begun = ls[k].begun
    BY DEF SameFiles
  <2> QED
    BY <2>1, <2>2, BlockSame
<1> QED
  BY <1>2 DEF Placed

\* The keywords of the top file change, above what it pushed.
LEMMA PlacedTop ==
    ASSUME NEW ls, NEW n \in Nat, Len(ls) = n + 1, NEW ks, NEW at, Placed(ls, ks, at),
           NEW ls2, Len(ls2) = n + 1, SameFiles(ls2, ls, n),
           NEW ks2, Len(ks2) \in Nat, \A i \in 1 .. at[n + 1] : ks2[i] = ks[i],
           at[n + 1] <= Len(ks2),
           Block(ks2, at[n + 1], Len(ks2), ls2[n + 1])
    PROVE  \E at2 : Placed(ls2, ks2, at2)
<1> DEFINE at2 == [k \in 1 .. n + 2 |-> IF k = n + 2 THEN Len(ks2) ELSE at[k]]
<1>1. /\ \A k \in 1 .. n + 1 : at2[k] = at[k] /\ at[k] \in Nat /\ at[k] <= at[n + 1]
      /\ at2[n + 2] = Len(ks2)
  <2>1. \A k \in 1 .. n + 1 : k # n + 2 /\ k \in 1 .. n + 2 /\ k <= n + 1
    OBVIOUS
  <2>2. n + 2 \in 1 .. n + 2 /\ n + 1 + 1 = n + 2 /\ n + 1 \in 1 .. n + 2
    OBVIOUS
  <2>3. \A k \in 1 .. n + 1 : at[k] \in Nat /\ at[k] <= at[n + 1]
    BY <2>1, <2>2 DEF Placed
  <2> QED
    BY <2>1, <2>2, <2>3
<1> HIDE DEF at2
<1>2. \A k \in 1 .. n + 2 : k = n + 2 \/ k \in 1 .. n + 1
  OBVIOUS
<1>3. at2[1] = 1 /\ at2[n + 2] = Len(ks2)
  <2>1. 1 \in 1 .. n + 1
    OBVIOUS
  <2> QED
    BY <1>1, <2>1 DEF Placed
<1>4. \A k \in 1 .. n + 2 : at2[k] \in Nat
  BY <1>1, <1>2
<1>5. ASSUME NEW j \in 1 .. n + 2, NEW k \in 1 .. n + 2, j <= k PROVE at2[j] <= at2[k]
  <2>1. CASE k \in 1 .. n + 1
    <3>1. j \in 1 .. n + 1 /\ j \in 1 .. n + 1 + 1 /\ k \in 1 .. n + 1 + 1
      BY <1>5, <2>1
    <3>2. at[j] <= at[k]
      BY <1>5, <3>1 DEF Placed
    <3> QED
      BY <1>1, <2>1, <3>1, <3>2
  <2>2. CASE k = n + 2
    <3>1. CASE j = n + 2
      BY <1>4, <2>2, <3>1
    <3>2. CASE j \in 1 .. n + 1
      <4>1. at[j] \in Nat /\ at[n + 1] \in Nat /\ at[j] <= at[n + 1]
        <5>1. n + 1 \in 1 .. n + 1
          OBVIOUS
        <5> QED
          BY <1>1, <3>2, <5>1
      <4>2. at[j] <= Len(ks2)
        BY <4>1
      <4> QED
        BY <1>1, <2>2, <3>2, <4>2
    <3> QED
      BY <1>2, <3>1, <3>2
  <2> QED
    BY <1>2, <2>1, <2>2
<1>6. ASSUME NEW k \in 1 .. n + 1 PROVE Block(ks2, at2[k], at2[k + 1], ls2[k])
  <2>1. CASE k = n + 1
    <3>1. at2[k] = at[n + 1] /\ at2[k + 1] = Len(ks2)
      <4>1. n + 1 + 1 = n + 2
        OBVIOUS
      <4> QED
        BY <1>1, <2>1, <4>1
    <3> QED
      BY <2>1, <3>1
  <2>2. CASE k # n + 1
    <3>1. k \in 1 .. n /\ k + 1 \in 1 .. n + 1 /\ n + 1 \in 1 .. n + 1
      BY <2>2
    <3>2. PICK low \in Nat, high \in Nat : low = at[k] /\ high = at[k + 1] /\ high <= at[n + 1]
      BY <1>1, <3>1
    <3>3. at2[k] = low /\ at2[k + 1] = high
      BY <1>1, <3>1, <3>2
    <3>4. Block(ks, low, high, ls[k])
      BY <3>2 DEF Placed
    <3>5. at[n + 1] \in Nat
      BY <1>1, <3>1
    <3>6. \A i \in 1 .. high : i \in 1 .. at[n + 1]
      BY <3>2, <3>5
    <3>7. \A i \in 1 .. high : ks2[i] = ks[i]
      BY <3>6
    <3>8. ls2[k].file = ls[k].file /\ ls2[k].begun = ls[k].begun
      BY <3>1 DEF SameFiles
    <3> QED
      BY <3>3, <3>4, <3>7, <3>8, BlockSame
  <2> QED
    BY <2>1, <2>2
<1>7. n + 1 + 1 = n + 2
  OBVIOUS
<1> QED
  BY <1>3, <1>4, <1>5, <1>6, <1>7 DEF Placed

\* A file begins.
LEMMA PlacedPush ==
    ASSUME NEW ls, NEW n \in Nat, Len(ls) = n, NEW ks, NEW at, Placed(ls, ks, at),
           NEW ls2, Len(ls2) = n + 1, SameFiles(ls2, ls, n),
           NEW ks2, Len(ks2) \in Nat, \A i \in 1 .. Len(ks) : ks2[i] = ks[i],
           Len(ks) <= Len(ks2),
           Block(ks2, Len(ks), Len(ks2), ls2[n + 1])
    PROVE  \E at2 : Placed(ls2, ks2, at2)
<1>1. /\ Len(ks) \in Nat /\ at[n + 1] = Len(ks)
      /\ \A k \in 1 .. n + 1 : at[k] \in 1 .. Len(ks)
  <2>1. 1 \in 1 .. n + 1 /\ n + 1 \in 1 .. n + 1 /\ \A k \in 1 .. n + 1 : 1 <= k /\ k <= n + 1
    OBVIOUS
  <2>2. at[1] = 1 /\ at[n + 1] = Len(ks) /\ \A k \in 1 .. n + 1 : at[k] \in Nat
    BY DEF Placed
  <2>3. \A k \in 1 .. n + 1 : at[1] <= at[k] /\ at[k] <= at[n + 1]
    BY <2>1 DEF Placed
  <2> QED
    BY <2>1, <2>2, <2>3
<1> DEFINE at2 == [k \in 1 .. n + 2 |-> IF k = n + 2 THEN Len(ks2) ELSE at[k]]
<1>2. /\ \A k \in 1 .. n + 1 : at2[k] = at[k] /\ at[k] \in Nat /\ at[k] <= Len(ks)
      /\ at2[n + 2] = Len(ks2)
  <2>1. \A k \in 1 .. n + 1 : k # n + 2 /\ k \in 1 .. n + 2
    OBVIOUS
  <2>2. n + 2 \in 1 .. n + 2
    OBVIOUS
  <2> QED
    BY <1>1, <2>1, <2>2
<1> HIDE DEF at2
<1>3. \A k \in 1 .. n + 2 : k = n + 2 \/ k \in 1 .. n + 1
  OBVIOUS
<1>4. at2[1] = 1 /\ at2[n + 2] = Len(ks2)
  <2>1. 1 \in 1 .. n + 1
    OBVIOUS
  <2> QED
    BY <1>2, <2>1 DEF Placed
<1>5. \A k \in 1 .. n + 2 : at2[k] \in Nat
  BY <1>2, <1>3
<1>6. ASSUME NEW j \in 1 .. n + 2, NEW k \in 1 .. n + 2, j <= k PROVE at2[j] <= at2[k]
  <2>1. CASE k \in 1 .. n + 1
    <3>1. j \in 1 .. n + 1
      BY <1>6, <2>1
    <3>2. at[j] <= at[k]
      BY <1>6, <2>1, <3>1 DEF Placed
    <3> QED
      BY <1>2, <2>1, <3>1, <3>2
  <2>2. CASE k = n + 2
    <3>1. CASE j = n + 2
      BY <1>5, <2>2, <3>1
    <3>2. CASE j \in 1 .. n + 1
      BY <1>1, <1>2, <2>2, <3>2
    <3> QED
      BY <1>3, <3>1, <3>2
  <2> QED
    BY <1>3, <2>1, <2>2
<1>7. ASSUME NEW k \in 1 .. n + 1 PROVE Block(ks2, at2[k], at2[k + 1], ls2[k])
  <2>1. CASE k = n + 1
    <3>1. at2[k] = Len(ks) /\ at2[k + 1] = Len(ks2)
      <4>1. n + 1 + 1 = n + 2
        OBVIOUS
      <4> QED
        BY <1>1, <1>2, <2>1, <4>1
    <3> QED
      BY <2>1, <3>1
  <2>2. CASE k # n + 1
    <3>1. k \in 1 .. n /\ k + 1 \in 1 .. n + 1
      BY <2>2
    <3>2. PICK low \in Nat, high \in Nat : low = at[k] /\ high = at[k + 1] /\ high <= Len(ks)
      BY <1>2, <3>1
    <3>3. at2[k] = low /\ at2[k + 1] = high
      BY <1>2, <3>1, <3>2
    <3>4. Block(ks, low, high, ls[k])
      BY <3>1, <3>2 DEF Placed
    <3>5. \A i \in 1 .. high : i \in 1 .. Len(ks)
      BY <1>1, <3>2
    <3>6. \A i \in 1 .. high : ks2[i] = ks[i]
      BY <3>5
    <3>7. ls2[k].file = ls[k].file /\ ls2[k].begun = ls[k].begun
      BY <3>1 DEF SameFiles
    <3> QED
      BY <3>3, <3>4, <3>6, <3>7, BlockSame
  <2> QED
    BY <2>1, <2>2
<1>8. n + 1 + 1 = n + 2
  OBVIOUS
<1> QED
  BY <1>4, <1>5, <1>6, <1>7, <1>8 DEF Placed

\* A file ends.
LEMMA PlacedPop ==
    ASSUME NEW ls, NEW n \in Nat, Len(ls) = n + 1, NEW ks, NEW at, Placed(ls, ks, at),
           NEW ls2, Len(ls2) = n, SameFiles(ls2, ls, n),
           NEW ks2, Len(ks2) = at[n + 1], \A i \in 1 .. at[n + 1] : ks2[i] = ks[i]
    PROVE  Placed(ls2, ks2, at)
<1>1. \A k \in 1 .. n + 1 : k \in 1 .. n + 1 + 1 /\ k <= n + 1
  OBVIOUS
<1>2. n + 1 \in 1 .. n + 1 + 1
  OBVIOUS
<1>3. \A k \in 1 .. n + 1 : at[k] \in Nat /\ at[k] <= at[n + 1]
  BY <1>1, <1>2 DEF Placed
<1>4. ASSUME NEW k \in 1 .. n PROVE Block(ks2, at[k], at[k + 1], ls2[k])
  <2>1. k \in 1 .. n + 1 /\ k + 1 \in 1 .. n + 1 /\ n + 1 \in 1 .. n + 1
    OBVIOUS
  <2>2. PICK low \in Nat, high \in Nat : low = at[k] /\ high = at[k + 1] /\ high <= at[n + 1]
    BY <1>3, <2>1
  <2>3. Block(ks, low, high, ls[k])
    BY <2>1, <2>2 DEF Placed
  <2>4. at[n + 1] \in Nat
    BY <1>3, <2>1
  <2>5. \A i \in 1 .. high : i \in 1 .. at[n + 1]
    BY <2>2, <2>4
  <2>6. \A i \in 1 .. high : ks2[i] = ks[i]
    BY <2>5
  <2>7. ls2[k].file = ls[k].file /\ ls2[k].begun = ls[k].begun
    BY DEF SameFiles
  <2> QED
    BY <2>2, <2>3, <2>6, <2>7, BlockSame
<1>5. \A j, k \in 1 .. n + 1 : j <= k => at[j] <= at[k]
  BY <1>1 DEF Placed
<1>6. at[1] = 1
  BY DEF Placed
<1> QED
  BY <1>3, <1>4, <1>5, <1>6 DEF Placed

\* Taking an item changes no file and nothing it began; `begin_keywords and
\* `end_keywords change what the top one began.
LEMMA AdvancedBegun ==
    ASSUME StackInv, HasItem
    PROVE  /\ Depth \in Nat /\ Depth >= 1
           /\ Len(Advanced) = Depth /\ SameFiles(Advanced, lexers, Depth)
           /\ \A b : LET new == [Advanced EXCEPT ![Depth].begun = b]
                     IN  /\ Len(new) = Depth /\ SameFiles(new, lexers, Depth - 1)
                         /\ new[Depth].file = lexers[Depth].file /\ new[Depth].begun = b
<1>1. PICK L : lexers \in Seq(L)
  BY DEF StackInv, Sources
<1>2. /\ Len(lexers) \in Nat /\ Depth = Len(lexers) /\ Depth \in 1 .. Depth /\ Depth >= 1
      /\ DOMAIN lexers = 1 .. Depth
  BY <1>1, NotEmpty DEF HasItem, Depth
<1>3. \A k \in 1 .. Depth : IsLexer(lexers[k])
  BY <1>2 DEF StackInv, Sources
<1>4. PICK M : Advanced \in Seq(M) /\ Len(Advanced) = Depth /\ IsLexer(Advanced[Depth])
  BY AdvancedKeeps DEF Sources, Depth
<1>5. SameFiles(Advanced, lexers, Depth)
  <2>1. CASE expanded # <<>>
    BY <2>1 DEF Advanced, SameFiles
  <2>2. CASE expanded = <<>>
    <3> DEFINE l == [lexers[Depth] EXCEPT !.pos = lexers[Depth].pos + 1]
    <3>1. Advanced = [lexers EXCEPT ![Depth] = l]
      BY <2>2 DEF Advanced
    <3>2. l.file = lexers[Depth].file /\ l.begun = lexers[Depth].begun
      <4>1. IsLexer(lexers[Depth])
        BY <1>2, <1>3
      <4>2. l = [file |-> lexers[Depth].file, pos |-> lexers[Depth].pos + 1,
                 included |-> lexers[Depth].included, begun |-> lexers[Depth].begun]
        BY <4>1 DEF IsLexer
      <4> QED
        BY <4>2
    <3> HIDE DEF l
    <3>3. \A k \in 1 .. Depth : Advanced[k] = IF k = Depth THEN l ELSE lexers[k]
      BY <1>2, <3>1
    <3> QED
      BY <3>2, <3>3 DEF SameFiles
  <2> QED
    BY <2>1, <2>2
<1>6. ASSUME NEW b
      PROVE  LET new == [Advanced EXCEPT ![Depth].begun = b]
             IN  /\ Len(new) = Depth /\ SameFiles(new, lexers, Depth - 1)
                 /\ new[Depth].file = lexers[Depth].file /\ new[Depth].begun = b
  <2> DEFINE l == [Advanced[Depth] EXCEPT !.begun = b]
             new == [Advanced EXCEPT ![Depth] = l]
  <2>1. [Advanced EXCEPT ![Depth].begun = b] = new
    OBVIOUS
  <2>2. l.file = Advanced[Depth].file /\ l.begun = b
    <3>1. l = [file |-> Advanced[Depth].file, pos |-> Advanced[Depth].pos,
               included |-> Advanced[Depth].included, begun |-> b]
      BY <1>4 DEF IsLexer
    <3> QED
      BY <3>1
  <2> HIDE DEF l
  <2>3. Len(new) = Depth /\ \A k \in 1 .. Depth : new[k] = IF k = Depth THEN l ELSE Advanced[k]
    <3>1. Advanced \in Seq(M \cup {l}) /\ l \in M \cup {l}
      BY <1>4, SeqMonotonic
    <3> QED
      BY <1>2, <1>4, <3>1, ExceptSeq
  <2> HIDE DEF new
  <2>4. new[Depth].file = lexers[Depth].file /\ new[Depth].begun = b
    BY <1>2, <1>5, <2>2, <2>3 DEF SameFiles
  <2>5. SameFiles(new, lexers, Depth - 1)
    <3>1. \A k \in 1 .. Depth - 1 : k \in 1 .. Depth /\ k # Depth
      BY <1>2
    <3> QED
      BY <1>5, <2>3, <3>1 DEF SameFiles
  <2> QED
    BY <2>1, <2>3, <2>4, <2>5
<1> QED
  BY <1>2, <1>4, <1>5, <1>6

KeywordInv == IsKeywords(keywords) /\ \E at : Placed(lexers, keywords, at)

\* No file begins or ends and no keyword changes.
LEMMA KeywordsSame ==
    ASSUME KeywordInv, UNCHANGED keywords, Depth \in Nat,
           Len(lexers') = Depth, SameFiles(lexers', lexers, Depth)
    PROVE  KeywordInv'
<1>1. PICK at : Placed(lexers, keywords, at)
  BY DEF KeywordInv
<1>2. PICK n \in Nat : n = Depth
  OBVIOUS
<1>3. Len(lexers) = n /\ Len(lexers') = n /\ SameFiles(lexers', lexers, n)
  BY <1>2 DEF Depth
<1>4. Placed(lexers', keywords, at)
  BY <1>1, <1>3, PlacedSame
<1> QED
  BY <1>4 DEF KeywordInv

\* What is below the file on top and above.
LEMMA TopBlock ==
    ASSUME NEW n \in Nat, Len(lexers) = n + 1, NEW at, Placed(lexers, keywords, at)
    PROVE  /\ Len(keywords) \in Nat /\ at[n + 1] \in Nat /\ at[n + 1] >= 1
           /\ at[n + 1] <= Len(keywords)
           /\ Block(keywords, at[n + 1], Len(keywords), lexers[n + 1])
<1>1. n + 1 \in 1 .. n + 1 /\ n + 1 \in 1 .. n + 1 + 1 /\ n + 1 + 1 \in 1 .. n + 1 + 1
      /\ n + 1 <= n + 1 + 1
  OBVIOUS
<1>2. /\ at[n + 1 + 1] = Len(keywords) /\ at[n + 1] \in Nat /\ at[n + 1 + 1] \in Nat
      /\ at[n + 1] <= at[n + 1 + 1]
      /\ Block(keywords, at[n + 1], at[n + 1 + 1], lexers[n + 1])
  BY <1>1 DEF Placed
<1> QED
  BY <1>2 DEF Block

LEMMA BlockGrows ==
    ASSUME NEW low \in Nat, NEW high \in Nat, NEW ks, NEW l, Block(ks, low, high, l),
           NEW ks2, \A i \in 1 .. high : ks2[i] = ks[i], ks2[high + 1].source = "directive",
           NEW l2, l2.file = l.file, l2.begun = l.begun + 1
    PROVE  Block(ks2, low, high + 1, l2)
<1>1. PICK p \in {0, 1} : p = Pushes(ks, low, l.file)
  BY DEF Pushes
<1>2. /\ low >= 1 /\ l.begun \in Nat /\ high = low + p + l.begun
      /\ \A i \in low + p + 1 .. high : ks[i].source = "directive"
  BY <1>1 DEF Block
<1>3. low \in 1 .. high /\ (p = 1 => low + 1 \in 1 .. high)
      /\ \A i \in low + p + 1 .. high + 1 : i = high + 1 \/ (i \in low + p + 1 .. high /\ i \in 1 .. high)
  BY <1>1, <1>2
<1>4. ks2[low] = ks[low] /\ (p = 1 => ks2[low + 1] = ks[low + 1])
  BY <1>3
<1>5. Pushes(ks2, low, l2.file) = p
  BY <1>1, <1>4 DEF Pushes
<1>6. \A i \in low + p + 1 .. high + 1 : ks2[i].source = "directive"
  BY <1>2, <1>3
<1>7. ~Unmapped(l.file) \/ ks[low].source = "mapping" => p = 1
  BY <1>1 DEF Pushes
<1>8. l2.begun \in Nat /\ high + 1 = low + p + l2.begun
  BY <1>1, <1>2
<1> QED
  BY <1>1, <1>2, <1>4, <1>5, <1>6, <1>7, <1>8 DEF Block

\* If the file began keywords, the last ones are its own.
LEMMA LastIsOwn ==
    ASSUME NEW low \in Nat, NEW high \in Nat, NEW ks, NEW l, Block(ks, low, high, l), l.begun > 0
    PROVE  high > low /\ ks[high].source = "directive"
<1>1. PICK p \in {0, 1} : p = Pushes(ks, low, l.file)
  BY DEF Pushes
<1>2. /\ l.begun \in Nat /\ high = low + p + l.begun
      /\ \A i \in low + p + 1 .. high : ks[i].source = "directive"
  BY <1>1 DEF Block
<1>3. high > low /\ high \in low + p + 1 .. high
  BY <1>1, <1>2
<1> QED
  BY <1>2, <1>3

\* `end_keywords: the file l becomes l2, without the last of its keywords.
LosesOne(low, high, ks, l, ks2, l2) ==
    /\ low \in Nat /\ high \in Nat
    /\ Block(ks, low, high, l) /\ l.begun > 0
    /\ \A i \in 1 .. high - 1 : ks2[i] = ks[i]
    /\ l2.file = l.file /\ l2.begun = l.begun - 1

LEMMA BlockShrinks ==
    ASSUME NEW low, NEW high, NEW ks, NEW l, NEW ks2, NEW l2, LosesOne(low, high, ks, l, ks2, l2)
    PROVE  Block(ks2, low, high - 1, l2)
<1>0. low \in Nat /\ high \in Nat
  BY DEF LosesOne
<1> low \in Nat /\ high \in Nat
  BY <1>0
<1>1. PICK p \in {0, 1} : p = Pushes(ks, low, l.file)
  BY DEF Pushes
<1>2. /\ low >= 1 /\ l.begun \in Nat /\ high = low + p + l.begun
      /\ \A i \in low + p + 1 .. high : ks[i].source = "directive"
  BY <1>1 DEF Block, LosesOne
<1>3. /\ l.begun > 0 /\ l2.file = l.file /\ l2.begun = l.begun - 1
      /\ \A i \in 1 .. high - 1 : ks2[i] = ks[i]
  BY DEF LosesOne
<1>4. /\ low \in 1 .. high - 1 /\ (p = 1 => low + 1 \in 1 .. high - 1)
      /\ \A i \in low + p + 1 .. high - 1 : i \in low + p + 1 .. high /\ i \in 1 .. high - 1
  BY <1>1, <1>2, <1>3
<1>5. ks2[low] = ks[low] /\ (p = 1 => ks2[low + 1] = ks[low + 1])
  BY <1>3, <1>4
<1>6. Pushes(ks2, low, l2.file) = p
  BY <1>1, <1>3, <1>5 DEF Pushes
<1>7. \A i \in low + p + 1 .. high - 1 : ks2[i].source = "directive"
  BY <1>2, <1>3, <1>4
<1>8. ~Unmapped(l.file) \/ ks[low].source = "mapping" => p = 1
  BY <1>1 DEF Pushes
<1>9. l2.begun \in Nat /\ high - 1 = low + p + l2.begun
  BY <1>1, <1>2, <1>3
<1>10. /\ ~Unmapped(l2.file) => ks2[low + 1] = Keyword(KeywordVersion[l2.file], "mapping")
       /\ Unmapped(l2.file) => ks2[low].source # "restored"
       /\ Unmapped(l2.file) /\ ks2[low].source = "mapping" => ks2[low + 1].source = "restored"
  BY <1>3, <1>5, <1>8 DEF Block, LosesOne
<1> QED
  BY <1>2, <1>6, <1>7, <1>9, <1>10 DEF Block

\* pushSource: the file l begins, where n keywords are below it.
Starts(ks, n, l, new) ==
    /\ IsKeywords(ks) /\ n \in Nat /\ n = Len(ks)
    /\ Unmapped(l.file) => ks[n].source # "restored"
    /\ l.begun = 0
    /\ new = PushKeywords(ks, l.file)

LEMMA PushedKeywords ==
    ASSUME NEW ks, NEW n, NEW l, NEW new, Starts(ks, n, l, new)
    PROVE  /\ IsKeywords(new) /\ Len(new) \in Nat /\ n <= Len(new)
           /\ \A i \in 1 .. n : new[i] = ks[i]
           /\ Block(new, n, Len(new), l)
           /\ new[Len(new)].source = "mapping" => ~Unmapped(l.file)
           /\ new[Len(new)].source = "restored" => Unmapped(l.file) /\ ks[n].source = "mapping"
<1> USE DEF Starts
<1> DEFINE file == l.file
<1>1. PICK S : ks \in Seq(S)
  BY DEF IsKeywords
<1>2. n >= 1 /\ Last(ks) = ks[n] /\ n \in 1 .. n
      /\ ks[n].source \in {"directive", "mapping", "restored"}
  BY <1>1 DEF IsKeywords, Last
<1>3. ASSUME NEW e, new = Append(ks, e)
      PROVE  /\ new \in Seq(S \cup {e}) /\ Len(new) = n + 1 /\ new[n + 1] = e
             /\ \A i \in 1 .. n : new[i] = ks[i]
  <2>1. /\ Append(ks, e) \in Seq(S \cup {e}) /\ Len(Append(ks, e)) = Len(ks) + 1
        /\ \A k \in 1 .. Len(ks) : Append(ks, e)[k] = ks[k]
        /\ Append(ks, e)[Len(ks) + 1] = e
    BY <1>1, Pushed
  <2> QED
    BY <1>3, <2>1
<1>4. ASSUME NEW i \in n + 1 + 1 .. n + 1 PROVE FALSE
  OBVIOUS
<1>5. \A v, s : Keyword(v, s).version = v /\ Keyword(v, s).source = s
  BY DEF Keyword
<1>6. CASE ~Unmapped(file)
  <2>1. PICK e : e = Keyword(KeywordVersion[file], "mapping") /\ e.source = "mapping"
    BY <1>5
  <2>2. new = Append(ks, e)
    BY <1>6, <2>1 DEF PushKeywords, Unmapped
  <2>3. /\ new \in Seq(S \cup {e}) /\ Len(new) = n + 1 /\ new[n + 1] = e
        /\ \A i \in 1 .. n : new[i] = ks[i]
    BY <1>3, <2>2
  <2>4. IsKeywords(new)
    BY <2>1, <2>3, OneMoreKeyword
  <2>5. Pushes(new, n, l.file) = 1 /\ l.begun \in Nat /\ n + 1 = n + 1 + l.begun
    BY <1>6 DEF Pushes
  <2>6. Block(new, n, n + 1, l)
    BY <1>2, <1>4, <1>6, <2>1, <2>3, <2>5 DEF Block
  <2>7. n + 1 \in Nat /\ n <= n + 1
    OBVIOUS
  <2> QED
    BY <1>6, <2>1, <2>3, <2>4, <2>6, <2>7
<1>7. CASE Unmapped(file) /\ ks[n].source = "mapping"
  <2> DEFINE k == SelectLastInSeq(ks, LAMBDA e : e.source # "mapping")
  <2>1. PICK e : e = Keyword(ks[k].version, "restored") /\ e.source = "restored"
                 /\ e.version = ks[k].version
    <3> HIDE DEF k
    <3> QED
      BY <1>5
  <2>2. new = Append(ks, e)
    BY <1>2, <1>7, <2>1 DEF PushKeywords, Unmapped
  <2>3. /\ new \in Seq(S \cup {e}) /\ Len(new) = n + 1 /\ new[n + 1] = e
        /\ \A i \in 1 .. n : new[i] = ks[i]
    BY <1>3, <2>2
  <2>4. ASSUME NEW d \in 1 .. n, LastDirective(ks, n, d) PROVE e.version = ks[d].version
    BY <2>1, <2>4, RestoredVersion
  <2>5. IsKeywords(new)
    BY <2>1, <2>3, <2>4, OneMoreKeyword
  <2>6. new[n] = ks[n]
    BY <1>2, <2>3
  <2>7. Pushes(new, n, l.file) = 1 /\ l.begun \in Nat /\ n + 1 = n + 1 + l.begun
    BY <1>7, <2>6 DEF Pushes
  <2>8. Block(new, n, n + 1, l)
    BY <1>2, <1>4, <1>7, <2>1, <2>3, <2>6, <2>7 DEF Block
  <2>9. n + 1 \in Nat /\ n <= n + 1
    OBVIOUS
  <2> QED
    BY <1>7, <2>1, <2>3, <2>5, <2>8, <2>9
<1>8. CASE Unmapped(file) /\ ks[n].source = "directive"
  <2>1. new = ks
    BY <1>2, <1>8 DEF PushKeywords, Unmapped
  <2>2. Pushes(ks, n, l.file) = 0 /\ l.begun \in Nat /\ n = n + 0 + l.begun
    BY <1>8 DEF Pushes
  <2>3. ASSUME NEW i \in n + 0 + 1 .. n PROVE FALSE
    OBVIOUS
  <2>4. Block(ks, n, n, l)
    BY <1>2, <1>8, <2>2, <2>3 DEF Block
  <2> QED
    BY <1>8, <2>1, <2>4
<1> QED
  BY <1>2, <1>6, <1>7, <1>8

\* The height of the lexers that an item comes from.
LEMMA TopFile ==
    ASSUME StackInv, KeywordInv, lexers # <<>>
    PROVE  \E n, h, at, S :
              /\ n \in Nat /\ h \in Nat
              /\ Depth = n + 1 /\ Len(lexers) = n + 1 /\ Top = lexers[n + 1]
              /\ keywords \in Seq(S) /\ h = Len(keywords) /\ Last(keywords) = keywords[h]
              /\ Placed(lexers, keywords, at)
              /\ at[n + 1] \in Nat /\ at[n + 1] >= 1 /\ at[n + 1] <= h
              /\ Block(keywords, at[n + 1], h, lexers[n + 1])
<1>1. PICK L : lexers \in Seq(L)
  BY DEF StackInv, Sources
<1>2. PICK n \in Nat : Len(lexers) = n + 1 /\ Last(lexers) = lexers[n + 1]
  BY <1>1, Height
<1>3. PICK at : Placed(lexers, keywords, at)
  BY DEF KeywordInv
<1>4. PICK S : keywords \in Seq(S)
  BY DEF KeywordInv, IsKeywords
<1>5. /\ Len(keywords) \in Nat /\ at[n + 1] \in Nat /\ at[n + 1] >= 1
      /\ at[n + 1] <= Len(keywords)
      /\ Block(keywords, at[n + 1], Len(keywords), lexers[n + 1])
  BY <1>2, <1>3, TopBlock
<1>6. Last(keywords) = keywords[Len(keywords)]
  BY DEF Last
<1> QED
  BY <1>2, <1>3, <1>4, <1>5, <1>6 DEF Depth, Top

LEMMA BegunMoves ==
    ASSUME StackInv, HasItem, NEW n \in Nat, Depth = n + 1
    PROVE  /\ SameFiles(Advanced, lexers, n + 1)
           /\ \A b : LET new == [Advanced EXCEPT ![Depth].begun = b]
                     IN  /\ Len(new) = n + 1 /\ SameFiles(new, lexers, n)
                         /\ new[n + 1].file = lexers[n + 1].file /\ new[n + 1].begun = b
<1>1. PICK d : d = Depth - 1
  OBVIOUS
<1>2. d = n
  BY <1>1
<1>3. SameFiles(Advanced, lexers, Depth)
  BY AdvancedBegun
<1>4. ASSUME NEW b
      PROVE  LET new == [Advanced EXCEPT ![Depth].begun = b]
             IN  /\ Len(new) = n + 1 /\ SameFiles(new, lexers, n)
                 /\ new[n + 1].file = lexers[n + 1].file /\ new[n + 1].begun = b
  <2>1. PICK new : new = [Advanced EXCEPT ![Depth].begun = b]
    OBVIOUS
  <2>2. /\ Len(new) = Depth /\ SameFiles(new, lexers, d)
        /\ new[Depth].file = lexers[Depth].file /\ new[Depth].begun = b
    BY <1>1, <2>1, AdvancedBegun
  <2>3. /\ Len(new) = n + 1 /\ SameFiles(new, lexers, n)
        /\ new[n + 1].file = lexers[n + 1].file /\ new[n + 1].begun = b
    BY <1>2, <2>2
  <2> QED
    BY <2>1, <2>3
<1> QED
  BY <1>3, <1>4

LEMMA RecognizedKeeps ==
    ASSUME StackInv, KeywordInv, BeginKeywords, Item.name # NoVersion
    PROVE  KeywordInv'
<1>1. HasItem /\ lexers # <<>>
  BY DEF BeginKeywords, Handles, HasItem
<1>2. PICK n, h, at, S :
              /\ n \in Nat /\ h \in Nat
              /\ Depth = n + 1 /\ Len(lexers) = n + 1
              /\ keywords \in Seq(S) /\ h = Len(keywords)
              /\ Placed(lexers, keywords, at)
              /\ at[n + 1] \in Nat /\ at[n + 1] >= 1 /\ at[n + 1] <= h
              /\ Block(keywords, at[n + 1], h, lexers[n + 1])
  BY <1>1, TopFile
<1> n \in Nat /\ h \in Nat
  BY <1>2
<1>3. /\ SameFiles(Advanced, lexers, n + 1)
      /\ \A b : LET new == [Advanced EXCEPT ![Depth].begun = b]
                IN  /\ Len(new) = n + 1 /\ SameFiles(new, lexers, n)
                    /\ new[n + 1].file = lexers[n + 1].file /\ new[n + 1].begun = b
  BY <1>1, <1>2, BegunMoves
<1>4. Advanced[Depth].begun = lexers[n + 1].begun
  <2>1. n + 1 \in 1 .. n + 1
    OBVIOUS
  <2> QED
    BY <1>2, <1>3, <2>1 DEF SameFiles
<1>5. PICK b : b = Advanced[Depth].begun + 1 /\ lexers' = [Advanced EXCEPT ![Depth].begun = b]
  BY DEF BeginKeywords
<1>6. /\ Len(lexers') = n + 1 /\ SameFiles(lexers', lexers, n)
      /\ lexers'[n + 1].file = lexers[n + 1].file
      /\ lexers'[n + 1].begun = lexers[n + 1].begun + 1
  BY <1>3, <1>4, <1>5
<1>7. PICK e : keywords' = Append(keywords, e) /\ e.source = "directive"
  <2>1. PICK e : e = Keyword(Item.name, "directive")
    OBVIOUS
  <2>2. e.source = "directive"
    BY <2>1 DEF Keyword
  <2> QED
    BY <2>1, <2>2 DEF BeginKeywords
<1>8. /\ keywords' \in Seq(S \cup {e}) /\ Len(keywords') = h + 1 /\ keywords'[h + 1] = e
      /\ \A i \in 1 .. h : keywords'[i] = keywords[i]
  BY <1>2, <1>7, Pushed
<1>9. IsKeywords(keywords')
  <2>1. IsKeywords(keywords)
    BY DEF KeywordInv
  <2> QED
    BY <1>2, <1>7, <1>8, <2>1, OneMoreKeyword
<1>10. Block(keywords', at[n + 1], h + 1, lexers'[n + 1])
  <2>1. PICK low, l, l2, ks2 :
            /\ low \in Nat /\ low = at[n + 1] /\ ks2 = keywords'
            /\ l = lexers[n + 1] /\ l2 = lexers'[n + 1]
    BY <1>2
  <2> low \in Nat
    BY <2>1
  <2>2. /\ Block(keywords, low, h, l) /\ l2.file = l.file /\ l2.begun = l.begun + 1
        /\ \A i \in 1 .. h : ks2[i] = keywords[i]
        /\ ks2[h + 1].source = "directive"
    BY <1>2, <1>6, <1>7, <1>8, <2>1
  <2>3. Block(ks2, low, h + 1, l2)
    BY <2>2, BlockGrows
  <2> QED
    BY <2>1, <2>3
<1>11. /\ \A i \in 1 .. at[n + 1] : keywords'[i] = keywords[i]
       /\ at[n + 1] <= Len(keywords') /\ Len(keywords') \in Nat
  <2>1. \A i \in 1 .. at[n + 1] : i \in 1 .. h
    BY <1>2
  <2> QED
    BY <1>2, <1>8, <2>1
<1>12. \E at2 : Placed(lexers', keywords', at2)
  BY <1>2, <1>6, <1>8, <1>10, <1>11, PlacedTop
<1> QED
  BY <1>9, <1>12 DEF KeywordInv

LEMMA BeginKeywordsKeeps == StackInv /\ KeywordInv /\ BeginKeywords => KeywordInv'
<1> SUFFICES ASSUME StackInv, KeywordInv, BeginKeywords PROVE KeywordInv'
  OBVIOUS
<1>1. CASE Item.name = NoVersion
  <2>1. HasItem /\ lexers' = Advanced /\ UNCHANGED keywords
    BY <1>1 DEF BeginKeywords, Handles, Take
  <2> QED
    BY <2>1, AdvancedBegun, KeywordsSame
<1>2. CASE Item.name # NoVersion
  BY <1>2, RecognizedKeeps
<1> QED
  BY <1>1, <1>2

LEMMA LastRemoved ==
    ASSUME NEW S, NEW s \in Seq(S), NEW h \in Nat, h = Len(s), h >= 1
    PROVE  /\ RemoveAt(s, h) \in Seq(S) /\ Len(RemoveAt(s, h)) = h - 1
           /\ \A i \in 1 .. h - 1 : RemoveAt(s, h)[i] = s[i]
<1>1. /\ SubSeq(s, 1, h - 1) \in Seq(S) /\ Len(SubSeq(s, 1, h - 1)) = h - 1
      /\ \A i \in 1 .. h - 1 : SubSeq(s, 1, h - 1)[i] = s[i]
  <2>1. /\ Front(s) \in Seq(S) /\ Len(Front(s)) = h - 1
        /\ \A i \in 1 .. h - 1 : Front(s)[i] = s[i]
    BY EmptySeq, Popped
  <2> QED
    BY <2>1 DEF Front
<1>2. SubSeq(s, h + 1, Len(s)) = <<>>
  BY SubSeqEmpty
<1>3. RemoveAt(s, h) = SubSeq(s, 1, h - 1) \o <<>>
  BY <1>2 DEF RemoveAt
<1>4. SubSeq(s, 1, h - 1) \o <<>> = SubSeq(s, 1, h - 1)
  BY <1>1, ConcatEmptySeq
<1> QED
  BY <1>1, <1>3, <1>4

LEMMA EndKeywordsKeeps == StackInv /\ KeywordInv /\ KeywordsNest /\ EndKeywords => KeywordInv'
<1> SUFFICES ASSUME StackInv, KeywordInv, KeywordsNest, EndKeywords PROVE KeywordInv'
  OBVIOUS
<1>1. HasItem /\ lexers # <<>> /\ Handles({"end_keywords"})
  BY DEF EndKeywords, Handles, HasItem
<1>2. PICK n, h, at, S :
              /\ n \in Nat /\ h \in Nat
              /\ Depth = n + 1 /\ Len(lexers) = n + 1 /\ Top = lexers[n + 1]
              /\ keywords \in Seq(S) /\ h = Len(keywords)
              /\ Placed(lexers, keywords, at)
              /\ at[n + 1] \in Nat /\ at[n + 1] >= 1 /\ at[n + 1] <= h
              /\ Block(keywords, at[n + 1], h, lexers[n + 1])
  BY <1>1, TopFile
<1> n \in Nat /\ h \in Nat
  BY <1>2
<1>3. /\ SameFiles(Advanced, lexers, n + 1)
      /\ \A b : LET new == [Advanced EXCEPT ![Depth].begun = b]
                IN  /\ Len(new) = n + 1 /\ SameFiles(new, lexers, n)
                    /\ new[n + 1].file = lexers[n + 1].file /\ new[n + 1].begun = b
  BY <1>1, <1>2, BegunMoves
<1>4. Advanced[Depth].begun = lexers[n + 1].begun /\ lexers[n + 1].begun \in Nat
  <2>1. n + 1 \in 1 .. n + 1
    OBVIOUS
  <2> QED
    BY <1>2, <1>3, <2>1 DEF SameFiles, Block
<1>5. PICK b : /\ b = IF lexers[n + 1].begun > 0 THEN lexers[n + 1].begun - 1 ELSE 0
               /\ lexers' = [Advanced EXCEPT ![Depth].begun = b]
  <2>1. lexers' = [Advanced EXCEPT ![Depth].begun =
                      IF Advanced[Depth].begun > 0 THEN Advanced[Depth].begun - 1 ELSE 0]
    BY DEF EndKeywords
  <2> QED
    BY <1>4, <2>1
<1>6. /\ Len(lexers') = n + 1 /\ SameFiles(lexers', lexers, n)
      /\ lexers'[n + 1].file = lexers[n + 1].file /\ lexers'[n + 1].begun = b
  BY <1>3, <1>5
<1>7. IsKeywords(keywords)
  BY DEF KeywordInv
<1>8. PICK k : /\ k = SelectLastInSeq(keywords, LAMBDA e : e.source = "directive")
               /\ keywords' = IF k = 1 THEN keywords ELSE RemoveAt(keywords, k)
  BY DEF EndKeywords
<1>9. LastDirective(keywords, h, k)
  BY <1>2, <1>7, <1>8, TopDirective
<1>10. CASE lexers[n + 1].begun = 0
  <2>1. \A i \in 2 .. h : keywords[i].source # "directive"
    BY <1>1, <1>2, <1>10 DEF KeywordsNest
  <2>2. k \in 1 .. h /\ keywords[k].source = "directive"
    BY <1>9 DEF LastDirective
  <2>3. k = 1
    BY <2>1, <2>2
  <2>4. keywords' = keywords
    BY <1>8, <2>3
  <2>5. SameFiles(lexers', lexers, n + 1)
    <3>1. \A i \in 1 .. n + 1 : i \in 1 .. n \/ i = n + 1
      OBVIOUS
    <3>2. lexers'[n + 1].begun = lexers[n + 1].begun
      BY <1>5, <1>6, <1>10
    <3> QED
      BY <1>6, <3>1, <3>2 DEF SameFiles
  <2> QED
    BY <1>2, <1>6, <2>4, <2>5, KeywordsSame
<1>11. CASE lexers[n + 1].begun > 0
  <2>1. b = lexers[n + 1].begun - 1
    BY <1>5, <1>11
  <2>2. h > at[n + 1] /\ keywords[h].source = "directive"
    <3>1. PICK low, l : low = at[n + 1] /\ l = lexers[n + 1]
      OBVIOUS
    <3>2. low \in Nat /\ h \in Nat /\ Block(keywords, low, h, l) /\ l.begun > 0
      BY <1>2, <1>11, <3>1
    <3>3. h > low /\ keywords[h].source = "directive"
      BY <3>2, LastIsOwn
    <3> QED
      BY <3>1, <3>3
  <2>3. k = h /\ h # 1
    <3>1. LastDirective(keywords, h, h)
      <4>1. h \in 1 .. h
        BY <1>2
      <4>2. ASSUME NEW i \in h + 1 .. h PROVE FALSE
        OBVIOUS
      <4> QED
        BY <2>2, <4>1, <4>2 DEF LastDirective
    <3> QED
      BY <1>2, <1>9, <2>2, <3>1, LastDirectiveIs
  <2>4. keywords' = RemoveAt(keywords, h)
    BY <1>8, <2>3
  <2>5. /\ keywords' \in Seq(S) /\ Len(keywords') = h - 1
        /\ \A i \in 1 .. h - 1 : keywords'[i] = keywords[i]
    <3>1. keywords \in Seq(S) /\ h = Len(keywords) /\ h >= 1
      BY <1>2, <2>2
    <3>2. /\ RemoveAt(keywords, h) \in Seq(S) /\ Len(RemoveAt(keywords, h)) = h - 1
          /\ \A i \in 1 .. h - 1 : RemoveAt(keywords, h)[i] = keywords[i]
      BY <3>1, LastRemoved
    <3> QED
      BY <2>4, <3>2
  <2>6. /\ h - 1 \in Nat /\ h - 1 >= 1 /\ h - 1 <= h /\ at[n + 1] <= h - 1
        /\ \A i \in 1 .. at[n + 1] : i \in 1 .. h - 1
    BY <1>2, <2>2
  <2>7. IsKeywords(keywords')
    BY <1>2, <1>7, <2>5, <2>6, FewerKeywords
  <2>8. Block(keywords', at[n + 1], h - 1, lexers'[n + 1])
    <3>1. PICK low, l, l2, ks2 :
              low = at[n + 1] /\ l = lexers[n + 1] /\ l2 = lexers'[n + 1] /\ ks2 = keywords'
      OBVIOUS
    <3>2. low \in Nat /\ h \in Nat /\ Block(keywords, low, h, l) /\ l.begun > 0
      BY <1>2, <1>11, <3>1
    <3>3. l2.file = l.file /\ l2.begun = l.begun - 1
      BY <1>6, <2>1, <3>1
    <3>4. \A i \in 1 .. h - 1 : ks2[i] = keywords[i]
      BY <2>5, <3>1
    <3>5. LosesOne(low, h, keywords, l, ks2, l2)
      BY <3>2, <3>3, <3>4 DEF LosesOne
    <3>6. Block(ks2, low, h - 1, l2)
      BY <3>5, BlockShrinks
    <3> QED
      BY <3>1, <3>6
  <2>9. \E at2 : Placed(lexers', keywords', at2)
    BY <1>2, <1>6, <2>5, <2>6, <2>8, PlacedTop
  <2> QED
    BY <2>7, <2>9 DEF KeywordInv
<1> QED
  BY <1>4, <1>10, <1>11

LEMMA BeginFileKeeps ==
    ASSUME StackInv, KeywordInv, HasItem, NEW file, PushSource(file), PopsItsOwn
    PROVE  KeywordInv'
<1>1. lexers # <<>>
  BY DEF HasItem
<1>2. PICK h, at : /\ h \in Nat /\ h = Len(keywords) /\ Last(keywords) = keywords[h]
                   /\ Placed(lexers, keywords, at)
  BY <1>1, TopFile
<1> h \in Nat
  BY <1>2
<1>3. PICK D \in Nat : D = Depth /\ D = Len(lexers)
  BY AdvancedBegun DEF Depth
<1>4. PICK l : l = Lexer(file, TRUE) /\ l.file = file /\ l.begun = 0
  <2>1. Lexer(file, TRUE).file = file /\ Lexer(file, TRUE).begun = 0
    BY DEF Lexer
  <2> QED
    BY <2>1
<1>5. /\ Len(lexers') = D + 1 /\ lexers'[D + 1] = l
      /\ \A k \in 1 .. D : lexers'[k] = Advanced[k]
  BY <1>3, <1>4, BeginShape
<1>6. SameFiles(lexers', lexers, D)
  BY <1>3, <1>5, AdvancedBegun DEF SameFiles
<1>7. Unmapped(file) => keywords[h].source # "restored"
  <2>1. Len(lexers') > Len(lexers) /\ Last(lexers') = l
    BY <1>3, <1>5 DEF Last
  <2> QED
    BY <1>2, <1>4, <2>1 DEF PopsItsOwn
<1>8. keywords' = PushKeywords(keywords, file) /\ IsKeywords(keywords)
  BY DEF PushSource, KeywordInv
<1>9. PICK new : new = PushKeywords(keywords, file)
  OBVIOUS
<1>10. /\ IsKeywords(new) /\ Len(new) \in Nat /\ h <= Len(new)
       /\ \A i \in 1 .. h : new[i] = keywords[i]
       /\ Block(new, h, Len(new), l)
  <2>1. Starts(keywords, h, l, new)
    BY <1>2, <1>4, <1>7, <1>8, <1>9 DEF Starts
  <2> QED
    BY <2>1, PushedKeywords
<1>11. \E at2 : Placed(lexers', new, at2)
  <2>1. PICK ls2 : ls2 = lexers'
    OBVIOUS
  <2>2. Len(ls2) = D + 1 /\ SameFiles(ls2, lexers, D) /\ Block(new, h, Len(new), ls2[D + 1])
    BY <1>5, <1>6, <1>10, <2>1
  <2>3. \E at2 : Placed(ls2, new, at2)
    BY <1>2, <1>3, <1>10, <2>2, PlacedPush
  <2> QED
    BY <2>1, <2>3
<1> QED
  BY <1>8, <1>9, <1>10, <1>11 DEF KeywordInv

LEMMA EndFileKeeps == StackInv /\ KeywordInv /\ KeywordsNest /\ EndOfFile => KeywordInv'
<1> SUFFICES ASSUME StackInv, KeywordInv, KeywordsNest, EndOfFile PROVE KeywordInv'
  OBVIOUS
<1>1. AtEnd /\ lexers # <<>>
  BY DEF EndOfFile, AtEnd
<1>2. PICK n, h, at, S :
              /\ n \in Nat /\ h \in Nat
              /\ Depth = n + 1 /\ Len(lexers) = n + 1 /\ Top = lexers[n + 1]
              /\ keywords \in Seq(S) /\ h = Len(keywords) /\ Last(keywords) = keywords[h]
              /\ Placed(lexers, keywords, at)
              /\ at[n + 1] \in Nat /\ at[n + 1] >= 1 /\ at[n + 1] <= h
              /\ Block(keywords, at[n + 1], h, lexers[n + 1])
  BY <1>1, TopFile
<1> n \in Nat /\ h \in Nat
  BY <1>2
<1>3. PICK low \in Nat : low = at[n + 1] /\ low >= 1 /\ low <= h
  BY <1>2
<1>4. IsKeywords(keywords) /\ keywords[low].source \in {"directive", "mapping", "restored"}
  <2>1. low \in 1 .. h
    BY <1>3
  <2> QED
    BY <1>2, <2>1 DEF KeywordInv, IsKeywords
<1>5. lexers[n + 1].begun = 0
  BY <1>1, <1>2 DEF KeywordsNest
<1>6. PICK p \in {0, 1} : p = Pushes(keywords, low, lexers[n + 1].file)
  BY DEF Pushes
<1>7. Block(keywords, low, h, lexers[n + 1]) /\ h = low + p
  <2>1. Block(keywords, low, h, lexers[n + 1])
    BY <1>2, <1>3
  <2>2. h = low + p + lexers[n + 1].begun
    BY <1>6, <2>1 DEF Block
  <2> QED
    BY <1>3, <1>5, <2>1, <2>2
<1>8. p = 1 => keywords[h].source # "directive"
  <2>1. ASSUME p = 1 PROVE h = low + 1 /\ keywords[low + 1].source # "directive"
    BY <1>6, <1>7, <2>1 DEF Block, Pushes, Keyword
  <2> QED
    BY <2>1
<1>9. p = 0 => keywords[h].source = "directive"
  BY <1>2, <1>3, <1>4, <1>6, <1>7 DEF Block, Pushes
<1>10. keywords' = IF keywords[h].source # "directive" THEN Front(keywords) ELSE keywords
  BY <1>2 DEF EndOfFile, PopKeywords
<1>11. /\ \E T : keywords' \in Seq(T)
       /\ Len(keywords') = low /\ \A i \in 1 .. low : keywords'[i] = keywords[i]
  <2>1. CASE p = 1
    <3>1. keywords' = Front(keywords) /\ low = h - 1 /\ h >= 1
      BY <1>3, <1>7, <1>8, <1>10, <2>1
    <3>2. keywords # <<>>
      BY <1>2, <3>1
    <3>3. /\ Front(keywords) \in Seq(S) /\ Len(Front(keywords)) = Len(keywords) - 1
          /\ \A i \in 1 .. Len(keywords) - 1 : Front(keywords)[i] = keywords[i]
      BY <1>2, <3>2, Popped
    <3> QED
      BY <1>2, <3>1, <3>3
  <2>2. CASE p = 0
    <3>1. keywords' = keywords /\ low = h
      BY <1>3, <1>7, <1>9, <1>10, <2>2
    <3> QED
      BY <1>2, <3>1
  <2> QED
    BY <2>1, <2>2
<1>12. IsKeywords(keywords')
  BY <1>2, <1>3, <1>4, <1>11, FewerKeywords
<1>13. Len(lexers') = n /\ SameFiles(lexers', lexers, n)
  <2>1. n + 1 - 1 = n
    OBVIOUS
  <2>2. Len(lexers') = Depth - 1 /\ \A k \in 1 .. Depth - 1 : lexers'[k] = lexers[k]
    BY EndShape
  <2> QED
    BY <1>2, <2>1, <2>2 DEF SameFiles
<1>14. Placed(lexers', keywords', at)
  BY <1>2, <1>3, <1>11, <1>13, PlacedPop
<1> QED
  BY <1>12, <1>14 DEF KeywordInv

LEMMA KeywordStep ==
    StackInv /\ KeywordInv /\ KeywordsNest /\ PopsItsOwn /\ [Next]_vars => KeywordInv'
<1> SUFFICES ASSUME StackInv, KeywordInv, KeywordsNest, PopsItsOwn, [Next]_vars PROVE KeywordInv'
  OBVIOUS
<1>1. HasItem /\ lexers' = Advanced /\ UNCHANGED keywords => KeywordInv'
  BY AdvancedBegun, KeywordsSame
<1>2. UNCHANGED <<lexers, keywords>> => KeywordInv'
  BY DEF KeywordInv
<1>3. CASE Token \/ IfDef \/ ElseBranch \/ EndIf
  BY <1>1, <1>3 DEF Token, IfDef, ElseBranch, EndIf, Handles, Take
<1>4. CASE Skip
  BY <1>1, <1>2, <1>4 DEF Skip, PutBack, macroVars
<1>5. CASE Define \/ Undef \/ UndefineAll \/ Once
  BY <1>1, <1>5 DEF Define, Undef, UndefineAll, Once, Handles, Take
<1>6. CASE MacroUsage
  BY <1>1, <1>6 DEF MacroUsage, Handles
<1>7. CASE Include
  <2>1. HasItem
    BY <1>7 DEF Include, Handles
  <2>2. CASE PushSource(Item.name)
    BY <2>1, <2>2, BeginFileKeeps
  <2>3. CASE ~PushSource(Item.name)
    <3>1. lexers' = Advanced /\ UNCHANGED keywords
      BY <1>7, <2>3 DEF Include, Take
    <3> QED
      BY <1>1, <2>1, <3>1
  <2> QED
    BY <2>2, <2>3
<1>8. CASE BeginKeywords
  BY <1>8, BeginKeywordsKeeps
<1>9. CASE EndKeywords
  BY <1>9, EndKeywordsKeeps
<1>10. CASE EndOfFile
  BY <1>10, EndFileKeeps
<1>11. CASE UNCHANGED vars
  BY <1>2, <1>11 DEF vars, sourceVars
<1> QED
  BY <1>3, <1>4, <1>5, <1>6, <1>7, <1>8, <1>9, <1>10, <1>11 DEF Next

Keywords(start, files) == FoldLeft(PushKeywords, start, files)

LEMMA KeywordsUnroll ==
    ASSUME NEW files, NEW n \in Nat, DOMAIN files = 1 .. n, NEW start
    PROVE  \E trace : /\ trace[0] = start
                      /\ trace[n] = Keywords(start, files)
                      /\ \A k \in 0 .. n - 1 : trace[k + 1] = PushKeywords(trace[k], files[k + 1])
<1> DEFINE xs == [k \in 1 .. n |-> [over |-> "sources", file |-> files[k]]]
           Step(it, s) == IF s = {} THEN start ELSE PushKeywords(it[s \ {Max(s)}], files[Max(s)])
           fold == CHOOSE it : it = [s \in SUBSET DOMAIN files |-> Step(it, s)]
<1>1. Keywords(start, files) = fold[DOMAIN files]
  BY DEF Keywords, FoldLeft, MapThenFoldSet
<1>2. \A k \in 1 .. n : \A l : Added(l, xs[k]) = PushKeywords(l, files[k])
  BY DEF Added
<1> HIDE DEF xs
<1>3. ASSUME NEW it, NEW s \in SUBSET (1 .. n) PROVE Step(it, s) = Folded(it, s, start, xs)
  <2>1. CASE s = {}
    BY <2>1 DEF Folded
  <2>2. CASE s # {}
    <3>1. Max(s) \in s
      BY <2>2, GreatestIndex
    <3>2. Max(s) \in 1 .. n
      BY <3>1
    <3> QED
      BY <1>2, <2>2, <3>2 DEF Folded
  <2> QED
    BY <2>1, <2>2
<1> HIDE DEF Step
<1>4. PICK it : IsFold(it, n, start, xs)
  BY FoldExists
<1>5. it = [s \in SUBSET DOMAIN files |-> Step(it, s)]
  BY <1>3, <1>4 DEF IsFold
<1>6. fold = [s \in SUBSET DOMAIN files |-> Step(fold, s)]
  BY <1>5
<1> HIDE DEF fold
<1>7. IsFold(fold, n, start, xs)
  BY <1>3, <1>6 DEF IsFold
<1>8. PICK trace : IsTrace(trace, n, start, xs, fold[1 .. n])
  BY <1>7, FoldUnrolls
<1>9. ASSUME NEW k \in 0 .. n - 1 PROVE trace[k + 1] = PushKeywords(trace[k], files[k + 1])
  <2>1. k + 1 \in 1 .. n
    OBVIOUS
  <2>2. trace[k + 1] = Added(trace[k], xs[k + 1])
    BY <1>8 DEF IsTrace
  <2> QED
    BY <1>2, <2>1, <2>2
<1>10. trace[0] = start /\ trace[n] = fold[1 .. n]
  BY <1>8 DEF IsTrace
<1> QED
  BY <1>1, <1>9, <1>10

Prefix(ls, k) == [i \in 1 .. k |-> ls[i]]

LEMMA PrefixIs ==
    ASSUME NEW ls, NEW k \in Nat
    PROVE  Len(Prefix(ls, k)) = k /\ \A i \in 1 .. k : Prefix(ls, k)[i] = ls[i]
<1>1. Prefix(ls, k) \in Seq({ ls[i] : i \in 1 .. k }) /\ DOMAIN Prefix(ls, k) = 1 .. k
  <2>1. Prefix(ls, k) \in [1 .. k -> { ls[i] : i \in 1 .. k }]
    BY DEF Prefix
  <2> QED
    BY <2>1, SeqDef
<1>2. Len(Prefix(ls, k)) = k
  BY <1>1, LenProperties
<1> QED
  BY <1>2 DEF Prefix

\* The first k files of ls pushed the keywords ks.
Began(ls, ks, k) ==
    /\ IsKeywords(ks) /\ \E at : Placed(Prefix(ls, k), ks, at)
    /\ ks[Len(ks)].source = "mapping" => k >= 1 /\ ~Unmapped(ls[k].file)
    /\ ks[Len(ks)].source = "restored" =>
          k >= 2 /\ Unmapped(ls[k].file) /\ ~Unmapped(ls[k - 1].file)

LEMMA BeganNone ==
    ASSUME NEW ls, NEW e, e.source = "directive"
    PROVE  Began(ls, <<e>>, 0)
<1>1. PICK ks : ks = <<e>>
  OBVIOUS
<1>2. ks \in Seq({e}) /\ Len(ks) = 1 /\ ks[1] = e
  BY <1>1
<1>3. IsKeywords(ks)
  BY <1>2 DEF IsKeywords
<1>4. Len(Prefix(ls, 0)) = 0
  BY PrefixIs
<1>5. Placed(Prefix(ls, 0), ks, [k \in {1} |-> 1])
  <2>1. \A k \in 1 .. 0 + 1 : k = 1
    OBVIOUS
  <2>2. ASSUME NEW k \in 1 .. 0 PROVE FALSE
    OBVIOUS
  <2>3. 0 + 1 = 1
    OBVIOUS
  <2> QED
    BY <1>2, <1>4, <2>1, <2>2, <2>3 DEF Placed
<1> QED
  BY <1>1, <1>2, <1>3, <1>5 DEF Began

LEMMA BeganOneMore ==
    ASSUME NEW ls, NEW ks, NEW k \in Nat, Began(ls, ks, k), ls[k + 1].begun = 0,
           k >= 2 /\ ~Unmapped(ls[k - 1].file) /\ Unmapped(ls[k].file) => ~Unmapped(ls[k + 1].file),
           NEW new, new = PushKeywords(ks, ls[k + 1].file)
    PROVE  Began(ls, new, k + 1)
<1>1. PICK n \in Nat : n = Len(ks)
  <2>1. PICK S : ks \in Seq(S)
    BY DEF Began, IsKeywords
  <2> QED
    BY <2>1
<1>2. PICK l : l = ls[k + 1]
  OBVIOUS
<1>3. Starts(ks, n, l, new)
  BY <1>1, <1>2 DEF Starts, Began
<1>4. /\ IsKeywords(new) /\ Len(new) \in Nat /\ n <= Len(new)
      /\ \A i \in 1 .. n : new[i] = ks[i]
      /\ Block(new, n, Len(new), l)
      /\ new[Len(new)].source = "mapping" => ~Unmapped(l.file)
      /\ new[Len(new)].source = "restored" => Unmapped(l.file) /\ ks[n].source = "mapping"
  BY <1>3, PushedKeywords
<1>5. k + 1 \in Nat /\ k + 1 >= 1 /\ k + 1 - 1 = k /\ (k >= 1 => k + 1 >= 2)
  OBVIOUS
<1>6. \E at : Placed(Prefix(ls, k + 1), new, at)
  <2>1. PICK at : Placed(Prefix(ls, k), ks, at)
    BY DEF Began
  <2>2. PICK pre, next : pre = Prefix(ls, k) /\ next = Prefix(ls, k + 1)
    OBVIOUS
  <2>3. Len(pre) = k /\ Len(next) = k + 1
    BY <1>5, <2>2, PrefixIs
  <2>4. \A i \in 1 .. k : pre[i] = ls[i] /\ i \in 1 .. k + 1
    BY <2>2, PrefixIs
  <2>5. \A i \in 1 .. k + 1 : next[i] = ls[i]
    BY <1>5, <2>2, PrefixIs
  <2>6. SameFiles(next, pre, k)
    BY <2>4, <2>5 DEF SameFiles
  <2>7. k + 1 \in 1 .. k + 1
    OBVIOUS
  <2>8. Block(new, n, Len(new), next[k + 1])
    BY <1>2, <1>4, <2>5, <2>7
  <2>9. \E at2 : Placed(next, new, at2)
    BY <1>1, <1>4, <2>1, <2>2, <2>3, <2>6, <2>8, PlacedPush
  <2> QED
    BY <2>2, <2>9
<1>7. ks[n].source = "mapping" => k >= 1 /\ ~Unmapped(ls[k].file)
  BY <1>1 DEF Began
<1> QED
  BY <1>2, <1>4, <1>5, <1>6, <1>7 DEF Began

LEMMA KeywordInit == SourcesPopTheirOwn /\ Init => KeywordInv
<1> SUFFICES ASSUME SourcesPopTheirOwn, Init PROVE KeywordInv
  OBVIOUS
<1>1. PICK program \in Programs :
          LET sources == Reverse(program.sources)
          IN  /\ lexers = [k \in DOMAIN sources |-> Lexer(sources[k], FALSE)]
              /\ keywords = FoldLeft(PushKeywords, <<Keyword(DefaultVersion, "directive")>>, sources)
  BY DEF Init
<1>2. PICK n, sources : /\ n \in Nat /\ n = Len(program.sources)
                        /\ sources = Reverse(program.sources)
                        /\ DOMAIN sources = 1 .. n /\ DOMAIN program.sources = 1 .. n
                        /\ \A k \in 1 .. n : sources[k] = program.sources[n - k + 1]
  <2>1. program.sources \in Seq(Files)
    BY PreprocessorOK
  <2>2. Len(program.sources) \in Nat /\ DOMAIN program.sources = 1 .. Len(program.sources)
    BY <2>1, LenProperties
  <2>3. Reverse(program.sources)
          = [k \in 1 .. Len(program.sources) |-> program.sources[Len(program.sources) - k + 1]]
    BY DEF Reverse
  <2> QED
    BY <2>2, <2>3
<1> n \in Nat
  BY <1>2
<1>3. PICK default : default = Keyword(DefaultVersion, "directive") /\ default.source = "directive"
  <2>1. Keyword(DefaultVersion, "directive").source = "directive"
    BY DEF Keyword
  <2> QED
    BY <2>1
<1>4. lexers = [k \in 1 .. n |-> Lexer(sources[k], FALSE)] /\ keywords = Keywords(<<default>>, sources)
  BY <1>1, <1>2, <1>3 DEF Keywords
<1>5. \A k \in 1 .. n : lexers[k].file = sources[k] /\ lexers[k].begun = 0
  BY <1>4 DEF Lexer
<1>6. PICK trace : /\ trace[0] = <<default>> /\ trace[n] = keywords
                   /\ \A k \in 0 .. n - 1 : trace[k + 1] = PushKeywords(trace[k], sources[k + 1])
  <2>1. PICK start : start = <<default>>
    OBVIOUS
  <2>2. \E trace : /\ trace[0] = start /\ trace[n] = Keywords(start, sources)
                   /\ \A k \in 0 .. n - 1 : trace[k + 1] = PushKeywords(trace[k], sources[k + 1])
    <3>1. DOMAIN sources = 1 .. n
      BY <1>2
    <3> QED
      BY <3>1, KeywordsUnroll
  <2> QED
    BY <1>4, <2>1, <2>2
<1> DEFINE P == { k \in 0 .. n : Began(lexers, trace[k], k) }
<1>7. 0 \in P
  <2>1. Began(lexers, trace[0], 0)
    BY <1>3, <1>6, BeganNone
  <2> QED
    BY <2>1
<1>8. ASSUME NEW k \in Nat, k < n, k \in P PROVE k + 1 \in P
  <2>1. k + 1 \in 0 .. n /\ k + 1 \in 1 .. n /\ k \in 0 .. n - 1
    BY <1>8
  <2>2. Began(lexers, trace[k], k) /\ lexers[k + 1].begun = 0
    BY <1>5, <1>8, <2>1
  <2>3. ASSUME k >= 2, ~Unmapped(lexers[k - 1].file), Unmapped(lexers[k].file),
               Unmapped(lexers[k + 1].file)
        PROVE  FALSE
    <3>1. k - 1 \in 1 .. n /\ k \in 1 .. n
      BY <1>8, <2>3
    <3>2. /\ ~Unmapped(sources[k - 1]) /\ Unmapped(sources[k]) /\ Unmapped(sources[k + 1])
      BY <1>5, <2>1, <2>3, <3>1
    <3>3. PICK i \in Nat, j \in Nat : /\ i = n - (k + 1) + 1 /\ j = n - (k - 1) + 1
                                      /\ n - k + 1 = i + 1
                                      /\ i \in 1 .. n /\ i + 1 \in 1 .. n /\ j \in 1 .. n /\ i + 1 < j
      <4>1. /\ n - (k + 1) + 1 \in Nat /\ n - (k - 1) + 1 \in Nat
            /\ n - k + 1 = n - (k + 1) + 1 + 1
            /\ n - (k + 1) + 1 \in 1 .. n /\ n - (k + 1) + 1 + 1 \in 1 .. n
            /\ n - (k - 1) + 1 \in 1 .. n /\ n - (k + 1) + 1 + 1 < n - (k - 1) + 1
        BY <1>8, <2>3
      <4> QED
        BY <4>1
    <3>4. /\ sources[k + 1] = program.sources[i] /\ sources[k] = program.sources[i + 1]
          /\ sources[k - 1] = program.sources[j]
      BY <1>2, <2>1, <3>1, <3>3
    <3>5. i \in DOMAIN program.sources /\ j \in DOMAIN program.sources
      BY <1>2, <3>3
    <3>6. Unmapped(program.sources[i]) /\ Unmapped(program.sources[i + 1]) /\ ~Unmapped(program.sources[j])
      BY <3>2, <3>4
    <3>7. \A a, b \in DOMAIN program.sources :
             a + 1 < b /\ Unmapped(program.sources[a]) /\ Unmapped(program.sources[a + 1])
                => Unmapped(program.sources[b])
      BY DEF SourcesPopTheirOwn
    <3> QED
      BY <3>3, <3>5, <3>6, <3>7
  <2>4. trace[k + 1] = PushKeywords(trace[k], lexers[k + 1].file)
    BY <1>5, <1>6, <2>1
  <2>5. Began(lexers, trace[k + 1], k + 1)
    BY <2>2, <2>3, <2>4, BeganOneMore
  <2> QED
    BY <2>1, <2>5
<1>9. n \in P
  <2> HIDE DEF P
  <2>1. n \in 0 .. n
    OBVIOUS
  <2> QED
    BY <1>7, <1>8, <2>1, CountUp
<1>10. Began(lexers, keywords, n)
  BY <1>6, <1>9
<1>11. Prefix(lexers, n) = lexers
  BY <1>4 DEF Prefix
<1> QED
  BY <1>10, <1>11 DEF Began, KeywordInv

LEMMA Scoped == StackInv /\ KeywordInv => KeywordsScoped
<1> SUFFICES ASSUME StackInv, KeywordInv, lexers # <<>>,
                    NEW d, d = SelectLastInSeq(keywords, LAMBDA e : e.source = "directive")
             PROVE  Last(keywords).version =
                      IF KeywordVersion[Top.file] # NoVersion /\ Top.begun = 0
                        THEN KeywordVersion[Top.file] ELSE keywords[d].version
  BY DEF KeywordsScoped
<1>1. PICK n, h, at, S :
              /\ n \in Nat /\ h \in Nat
              /\ Top = lexers[n + 1]
              /\ keywords \in Seq(S) /\ h = Len(keywords) /\ Last(keywords) = keywords[h]
              /\ at[n + 1] \in Nat /\ at[n + 1] >= 1 /\ at[n + 1] <= h
              /\ Block(keywords, at[n + 1], h, lexers[n + 1])
  BY TopFile
<1> n \in Nat /\ h \in Nat
  BY <1>1
<1>2. PICK low \in Nat : low = at[n + 1] /\ low >= 1 /\ low <= h
  BY <1>1
<1>3. PICK p \in {0, 1} : p = Pushes(keywords, low, Top.file)
  BY DEF Pushes
<1>4. /\ Top.begun \in Nat /\ h = low + p + Top.begun
      /\ \A i \in low + p + 1 .. h : keywords[i].source = "directive"
      /\ ~Unmapped(Top.file) => keywords[low + 1] = Keyword(KeywordVersion[Top.file], "mapping")
      /\ Unmapped(Top.file) => keywords[low].source # "restored"
      /\ Unmapped(Top.file) /\ keywords[low].source = "mapping" => keywords[low + 1].source = "restored"
  BY <1>1, <1>2, <1>3 DEF Block
<1>5. IsKeywords(keywords)
  BY DEF KeywordInv
<1>6. LastDirective(keywords, h, d)
  BY <1>1, <1>5, TopDirective
<1>7. keywords[h].source = "directive" => d = h
  <2>1. h \in 1 .. h /\ h \in Nat
    BY <1>2
  <2>2. ASSUME NEW i \in h + 1 .. h PROVE FALSE
    OBVIOUS
  <2>3. ASSUME keywords[h].source = "directive" PROVE LastDirective(keywords, h, h)
    BY <2>1, <2>2, <2>3 DEF LastDirective
  <2> QED
    BY <1>6, <2>3, LastDirectiveIs
<1>8. keywords[h].source = "restored" => keywords[h].version = keywords[d].version
  <2>1. h \in 1 .. h /\ d \in 1 .. h
    BY <1>2, <1>6 DEF LastDirective
  <2> QED
    BY <1>1, <1>5, <1>6, <2>1 DEF IsKeywords
<1>9. CASE Top.begun > 0
  <2>1. h \in low + p + 1 .. h
    BY <1>2, <1>4, <1>9
  <2>2. keywords[h].source = "directive" /\ Top.begun # 0
    BY <1>4, <1>9, <2>1
  <2> QED
    BY <1>1, <1>7, <2>2
<1>10. CASE Top.begun = 0 /\ ~Unmapped(Top.file)
  <2>1. p = 1 /\ h = low + 1
    BY <1>2, <1>3, <1>4, <1>10 DEF Pushes
  <2>2. keywords[h].version = KeywordVersion[Top.file]
    BY <1>4, <1>10, <2>1 DEF Keyword
  <2> QED
    BY <1>1, <1>10, <2>2 DEF Unmapped
<1>11. CASE Top.begun = 0 /\ Unmapped(Top.file)
  <2>1. keywords[low].source \in {"directive", "mapping"}
    <3>1. low \in 1 .. h
      BY <1>2
    <3> QED
      BY <1>1, <1>4, <1>5, <1>11, <3>1 DEF IsKeywords
  <2>2. keywords[h].source \in {"directive", "restored"}
    BY <1>2, <1>3, <1>4, <1>11, <2>1 DEF Pushes
  <2>3. keywords[h].version = keywords[d].version
    BY <1>7, <1>8, <2>2
  <2> QED
    BY <1>1, <1>11, <2>3 DEF Unmapped
<1> QED
  BY <1>4, <1>9, <1>10, <1>11

(***************************************************************************)
(* Every file is read with the right keywords: those of its mapping, if it *)
(* has one and has not begun others, else those of the last                *)
(* `begin_keywords.  This holds of all programs in which no unmapped file  *)
(* begins right after another one in a mapped file, for which popSource    *)
(* takes the entry of the other, and files end the keywords they begin.    *)
(***************************************************************************)
THEOREM KeywordsStayScoped ==
    ASSUME SourcesPopTheirOwn
    PROVE  Spec /\ FilesPopTheirOwn /\ []KeywordsNest => []KeywordsScoped
<1>1. Init => StackInv /\ KeywordInv
  BY StackInit, KeywordInit
<1>2. StackInv /\ KeywordInv /\ [Next]_vars /\ [PopsItsOwn]_vars /\ KeywordsNest
        => (StackInv /\ KeywordInv)'
  <2> SUFFICES ASSUME StackInv, KeywordInv, [Next]_vars, [PopsItsOwn]_vars, KeywordsNest
               PROVE  StackInv' /\ KeywordInv'
    OBVIOUS
  <2>1. CASE PopsItsOwn
    BY <2>1, StackStep, KeywordStep
  <2>2. CASE UNCHANGED vars
    <3>1. UNCHANGED <<lexers, keywords>>
      BY <2>2 DEF vars, sourceVars
    <3>2. KeywordInv'
      BY <3>1 DEF KeywordInv
    <3> QED
      BY <3>2, StackStep
  <2> QED
    BY <2>1, <2>2
<1>3. StackInv /\ KeywordInv => KeywordsScoped
  BY Scoped
<1> QED
  BY <1>1, <1>2, <1>3, PTL DEF Spec, FilesPopTheirOwn
===============================================================================
