------------------------ MODULE AnalysisManagerProofs ------------------------
(***************************************************************************)
(* Proofs about AnalysisManager, for any design and any number of threads. *)
(***************************************************************************)
EXTENDS AnalysisManager, SequenceTheorems, TLAPS

(***************************************************************************)
(* The calls in progress of a thread.                                      *)
(***************************************************************************)
Items == Scopes \cup DOMAIN CanonicalBody \cup DOMAIN Subs \cup {m.item : m \in AllMembers}

CallLists == Seq(DOMAIN Subs)

Frames ==
    [fn : {"scope", "inst", "sub", "proc", "expr", "nettype"}, item : Items,
     pc : {"members", "notify", "note", "lookup", "analyze", "emplace", "add", "timing",
           "controls", "next", "collect", "check"},
     pos : Nat \ {0}, calls : CallLists, todo : CallLists,
     seen : SUBSET DOMAIN Subs, got : SUBSET DOMAIN Subs]

Stacks == [Threads -> Seq(Frames)]

\* The member of a scope that a frame is about.
IsAbout(f, m) == m.kind = f.fn /\ m.item = f.item /\ m.calls = f.calls

FrameOK(f) ==
    /\ f.fn = "scope" => /\ f.item \in Scopes /\ f.pc \in {"members", "notify"}
                         /\ f.pos <= Len(Members[f.item]) + 1
                         /\ f.pc = "notify" => f.pos > Len(Members[f.item])
    /\ f.fn = "inst" => f.item \in DOMAIN CanonicalBody /\ f.pc = "note"
    /\ f.fn = "sub" => /\ f.item \in DOMAIN Subs
                       /\ f.pc \in {"lookup", "analyze", "emplace", "add", "notify"}
    /\ f.fn \in {"proc", "expr", "nettype"} => \E m \in AllMembers : IsAbout(f, m)
    /\ f.fn = "proc" => f.pc \in {"timing", "controls", "next", "collect"}
    /\ f.fn = "expr" => f.pc \in {"next", "collect"}
    /\ f.fn = "nettype" => f.pc \in {"analyze", "check"}
    /\ f.pc \in {"controls", "collect"} => f.todo # <<>>

\* A call waits for the call above it.
Awaits(f, g) ==
    \/ f.fn = "scope" /\ f.pc = "members"
    \/ f.fn = "inst"
    \/ f.fn \in {"proc", "expr"} /\ f.pc \in {"controls", "collect"}
       /\ g.fn = "sub" /\ g.item = Head(f.todo)
    \/ f.fn = "nettype" /\ f.pc = "check" /\ g.fn = "sub" /\ g.item = Head(f.calls)

StackOK(s) ==
    /\ \A h \in 1 .. Len(s) : FrameOK(s[h])
    /\ \A h \in 1 .. Len(s) : h > 1 => Awaits(s[h - 1], s[h])

(***************************************************************************)
(* What a step does to the calls of its thread: the ones below the top     *)
(* stay.                                                                   *)
(***************************************************************************)
Keeps(s, r, n) ==
    /\ n \in Nat /\ Len(s) = n + 1
    /\ r \in Seq(Frames) /\ \A h \in 1 .. n : r[h] = s[h]

Pops(s, r, n) == Keeps(s, r, n) /\ Len(r) = n

Moves(s, r, n, f) == Keeps(s, r, n) /\ Len(r) = n + 1 /\ r[n + 1] = f

Pushes(s, r, n, f, g) == Keeps(s, r, n) /\ Len(r) = n + 2 /\ r[n + 1] = f /\ r[n + 2] = g

LEMMA LowerPart ==
    ASSUME NEW S, NEW s \in Seq(S), s # <<>>
    PROVE  \E n \in Nat :
               /\ Len(s) = n + 1 /\ s[n + 1] \in S
               /\ SubSeq(s, 1, Len(s) - 1) \in Seq(S)
               /\ Len(SubSeq(s, 1, Len(s) - 1)) = n
               /\ \A h \in 1 .. n : SubSeq(s, 1, Len(s) - 1)[h] = s[h]
<1>1. Len(s) \in Nat /\ Len(s) # 0 /\ \A h \in 1 .. Len(s) : s[h] \in S
  BY EmptySeq
<1>2. ASSUME NEW m \in Nat, m # 0
      PROVE  m - 1 \in Nat /\ m = m - 1 + 1
  BY <1>2
<1>3. PICK n \in Nat : Len(s) = n + 1
  BY <1>1, <1>2
<1>4. Len(s) - 1 = n /\ n + 1 \in 1 .. Len(s)
  BY <1>3
<1>5. \A h \in 1 .. n : s[h] \in S /\ 1 + h - 1 = h
  BY <1>1, <1>3
<1>6. /\ SubSeq(s, 1, n) \in Seq(S)
      /\ Len(SubSeq(s, 1, n)) = IF 1 <= n THEN n - 1 + 1 ELSE 0
      /\ \A h \in 1 .. n - 1 + 1 : SubSeq(s, 1, n)[h] = s[1 + h - 1]
  BY <1>1, <1>3, <1>5, SubSeqProperties
<1>7. (IF 1 <= n THEN n - 1 + 1 ELSE 0) = n /\ n - 1 + 1 = n
  BY <1>3
<1> QED
  BY <1>1, <1>3, <1>4, <1>5, <1>6, <1>7

LEMMA Extended ==
    ASSUME NEW S, NEW s \in Seq(S), NEW n \in Nat, Len(s) = n, NEW e \in S
    PROVE  /\ Append(s, e) \in Seq(S) /\ Len(Append(s, e)) = n + 1
           /\ Append(s, e)[n + 1] = e
           /\ \A h \in 1 .. n : Append(s, e)[h] = s[h]
  BY AppendProperties

LEMMA Returns ==
    ASSUME stack \in Stacks, NEW t \in Threads, stack[t] # <<>>, Return(t)
    PROVE  /\ stack' \in Stacks /\ \A u \in Threads \ {t} : stack'[u] = stack[u]
           /\ \E n \in Nat : Pops(stack[t], stack'[t], n) /\ Top(t) = stack[t][n + 1]
<1>1. stack[t] \in Seq(Frames)
  BY DEF Stacks
<1>2. PICK n \in Nat :
          /\ Len(stack[t]) = n + 1 /\ stack[t][n + 1] \in Frames
          /\ Below(t) \in Seq(Frames) /\ Len(Below(t)) = n
          /\ \A h \in 1 .. n : Below(t)[h] = stack[t][h]
  BY <1>1, LowerPart DEF Below
<1>3. Below(t) \o <<>> = Below(t)
  BY <1>2
<1>4. stack'[t] = Below(t) /\ \A u \in Threads \ {t} : stack'[u] = stack[u]
  BY <1>3 DEF Return, Replace, Stacks
<1>5. stack' \in Stacks
  BY <1>2, <1>3 DEF Return, Replace, Stacks
<1> QED
  BY <1>2, <1>4, <1>5 DEF Pops, Keeps, Top

LEMMA Replaces ==
    ASSUME stack \in Stacks, NEW t \in Threads, stack[t] # <<>>, NEW f \in Frames,
           Replace(t, <<f>>)
    PROVE  /\ stack' \in Stacks /\ \A u \in Threads \ {t} : stack'[u] = stack[u]
           /\ \E n \in Nat : Moves(stack[t], stack'[t], n, f) /\ Top(t) = stack[t][n + 1]
<1>1. stack[t] \in Seq(Frames)
  BY DEF Stacks
<1>2. PICK n \in Nat :
          /\ Len(stack[t]) = n + 1 /\ stack[t][n + 1] \in Frames
          /\ Below(t) \in Seq(Frames) /\ Len(Below(t)) = n
          /\ \A h \in 1 .. n : Below(t)[h] = stack[t][h]
  BY <1>1, LowerPart DEF Below
<1>3. Below(t) \o <<f>> = Append(Below(t), f)
  BY <1>2, AppendIsConcat
<1>4. stack'[t] = Append(Below(t), f) /\ \A u \in Threads \ {t} : stack'[u] = stack[u]
  BY <1>3 DEF Replace, Stacks
<1>5. /\ Append(Below(t), f) \in Seq(Frames) /\ Len(Append(Below(t), f)) = n + 1
      /\ Append(Below(t), f)[n + 1] = f
      /\ \A h \in 1 .. n : Append(Below(t), f)[h] = Below(t)[h]
  BY <1>2, Extended
<1>6. stack' \in Stacks
  BY <1>3, <1>5 DEF Replace, Stacks
<1> QED
  BY <1>2, <1>4, <1>5, <1>6 DEF Moves, Keeps, Top

LEMMA Calling ==
    ASSUME stack \in Stacks, NEW t \in Threads, stack[t] # <<>>,
           NEW f \in Frames, NEW g \in Frames,
           stack' = [stack EXCEPT ![t] = Append(Append(Below(t), f), g)]
    PROVE  /\ stack' \in Stacks /\ \A u \in Threads \ {t} : stack'[u] = stack[u]
           /\ \E n \in Nat : Pushes(stack[t], stack'[t], n, f, g) /\ Top(t) = stack[t][n + 1]
<1>1. stack[t] \in Seq(Frames)
  BY DEF Stacks
<1>2. PICK n \in Nat :
          /\ Len(stack[t]) = n + 1 /\ stack[t][n + 1] \in Frames
          /\ Below(t) \in Seq(Frames) /\ Len(Below(t)) = n
          /\ \A h \in 1 .. n : Below(t)[h] = stack[t][h]
  BY <1>1, LowerPart DEF Below
<1> DEFINE r == Append(Below(t), f)
<1>3. /\ r \in Seq(Frames) /\ Len(r) = n + 1 /\ r[n + 1] = f
      /\ \A h \in 1 .. n : r[h] = Below(t)[h]
  BY <1>2, Extended
<1> HIDE DEF r
<1>4. n + 1 \in Nat /\ n + 1 + 1 = n + 2 /\ \A h \in 1 .. n : h \in 1 .. n + 1
  BY <1>2
<1>5. /\ Append(r, g) \in Seq(Frames) /\ Len(Append(r, g)) = n + 2
      /\ Append(r, g)[n + 2] = g
      /\ \A h \in 1 .. n + 1 : Append(r, g)[h] = r[h]
  <2>1. /\ Append(r, g) \in Seq(Frames) /\ Len(Append(r, g)) = n + 1 + 1
        /\ Append(r, g)[n + 1 + 1] = g
        /\ \A h \in 1 .. n + 1 : Append(r, g)[h] = r[h]
    BY <1>3, <1>4, Extended
  <2> QED
    BY <1>4, <2>1
<1>6. stack' = [stack EXCEPT ![t] = Append(r, g)]
  BY DEF r
<1>7. stack'[t] = Append(r, g) /\ \A u \in Threads \ {t} : stack'[u] = stack[u]
  BY <1>6 DEF Stacks
<1>8. stack' \in Stacks
  BY <1>5, <1>6 DEF Stacks
<1>9. n + 1 \in 1 .. n + 1
  BY <1>2
<1> QED
  BY <1>2, <1>3, <1>4, <1>5, <1>7, <1>8, <1>9 DEF Pushes, Keeps, Top

LEMMA CallingTwo ==
    ASSUME stack \in Stacks, NEW t \in Threads, stack[t] # <<>>,
           NEW f \in Frames, NEW g \in Frames, Replace(t, <<f, g>>)
    PROVE  stack' = [stack EXCEPT ![t] = Append(Append(Below(t), f), g)]
<1>1. Below(t) \in Seq(Frames)
  BY LowerPart DEF Below, Stacks
<1>2. Below(t) \o <<f, g>> = Append(Append(Below(t), f), g)
  BY <1>1, ConcatProperties, AppendProperties
<1> QED
  BY <1>2 DEF Replace

PushesTwo(s, r, n, f, g, e) ==
    /\ Keeps(s, r, n) /\ Len(r) = n + 3
    /\ r[n + 1] = f /\ r[n + 2] = g /\ r[n + 3] = e

LEMMA CallingNested ==
    ASSUME stack \in Stacks, NEW t \in Threads, stack[t] # <<>>,
           NEW f \in Frames, NEW g \in Frames, NEW e \in Frames,
           stack' = [stack EXCEPT ![t] = Append(Append(Append(Below(t), f), g), e)]
    PROVE  /\ stack' \in Stacks /\ \A u \in Threads \ {t} : stack'[u] = stack[u]
           /\ \E n \in Nat : PushesTwo(stack[t], stack'[t], n, f, g, e) /\ Top(t) = stack[t][n + 1]
<1>1. stack[t] \in Seq(Frames)
  BY DEF Stacks
<1>2. PICK n \in Nat :
          /\ Len(stack[t]) = n + 1 /\ stack[t][n + 1] \in Frames
          /\ Below(t) \in Seq(Frames) /\ Len(Below(t)) = n
          /\ \A h \in 1 .. n : Below(t)[h] = stack[t][h]
  BY <1>1, LowerPart DEF Below
<1> DEFINE r == Append(Below(t), f)
           q == Append(r, g)
<1>3. /\ r \in Seq(Frames) /\ Len(r) = n + 1 /\ r[n + 1] = f
      /\ \A h \in 1 .. n : r[h] = Below(t)[h]
  BY <1>2, Extended
<1> HIDE DEF r
<1>4. /\ n + 1 \in Nat /\ n + 2 \in Nat /\ n + 1 + 1 = n + 2 /\ n + 2 + 1 = n + 3
      /\ \A h \in 1 .. n : h \in 1 .. n + 1 /\ h \in 1 .. n + 2
      /\ n + 1 \in 1 .. n + 1 /\ n + 1 \in 1 .. n + 2 /\ n + 2 \in 1 .. n + 2
  BY <1>2
<1>5. /\ q \in Seq(Frames) /\ Len(q) = n + 1 + 1 /\ q[n + 1 + 1] = g
      /\ \A h \in 1 .. n + 1 : q[h] = r[h]
  BY <1>3, <1>4, Extended
<1> HIDE DEF q
<1>6. /\ Append(q, e) \in Seq(Frames) /\ Len(Append(q, e)) = n + 2 + 1
      /\ Append(q, e)[n + 2 + 1] = e
      /\ \A h \in 1 .. n + 2 : Append(q, e)[h] = q[h]
  BY <1>4, <1>5, Extended
<1>7. stack' = [stack EXCEPT ![t] = Append(q, e)]
  BY DEF r, q
<1>8. stack'[t] = Append(q, e) /\ \A u \in Threads \ {t} : stack'[u] = stack[u]
  BY <1>7 DEF Stacks
<1>9. stack' \in Stacks
  BY <1>6, <1>7 DEF Stacks
<1>10. PushesTwo(stack[t], stack'[t], n, f, g, e)
  BY <1>2, <1>3, <1>4, <1>5, <1>6, <1>8 DEF PushesTwo, Keeps
<1> QED
  BY <1>2, <1>8, <1>9, <1>10 DEF Top

(***************************************************************************)
(* What makes a stack right stays so.                                      *)
(***************************************************************************)
LEMMA PopOK ==
    ASSUME NEW s, NEW r, NEW n, StackOK(s), Pops(s, r, n)
    PROVE  StackOK(r)
<1>1. \A h \in 1 .. n : h \in 1 .. Len(s) /\ r[h] = s[h] /\ (h > 1 => h - 1 \in 1 .. n)
  BY DEF Pops, Keeps
<1> QED
  BY <1>1 DEF Pops, StackOK

LEMMA MoveOK ==
    ASSUME NEW s, NEW r, NEW n, NEW f, StackOK(s), Moves(s, r, n, f), FrameOK(f),
           f.fn = s[n + 1].fn, f.item = s[n + 1].item
    PROVE  StackOK(r)
<1>1. n \in Nat /\ n + 1 \in 1 .. n + 1 /\ n + 1 - 1 = n /\ Len(s) = n + 1 /\ Len(r) = n + 1
  BY DEF Moves, Keeps
<1>2. \A h \in 1 .. n : /\ h \in 1 .. Len(s) /\ r[h] = s[h]
                        /\ h > 1 => h - 1 \in 1 .. n
  BY DEF Moves, Keeps
<1>3. \A h \in 1 .. n + 1 : h = n + 1 \/ h \in 1 .. n
  BY <1>1
<1>4. r[n + 1] = f
  BY DEF Moves
<1>5. \A h \in 1 .. n + 1 : FrameOK(r[h])
  BY <1>2, <1>3, <1>4 DEF StackOK
<1>6. ASSUME NEW h \in 1 .. n + 1, h > 1
      PROVE  Awaits(r[h - 1], r[h])
  <2>1. CASE h \in 1 .. n
    <3>1. Awaits(s[h - 1], s[h])
      BY <1>2, <1>6, <2>1 DEF StackOK
    <3> QED
      BY <1>2, <1>6, <2>1, <3>1
  <2>2. CASE h = n + 1
    <3>1. n \in 1 .. n /\ Awaits(s[n], s[n + 1])
      BY <1>1, <1>6, <2>2 DEF StackOK
    <3>2. r[n] = s[n]
      BY <1>2, <3>1
    <3> QED
      BY <1>1, <1>4, <2>2, <3>1, <3>2 DEF Awaits
  <2> QED
    BY <1>3, <2>1, <2>2
<1> QED
  BY <1>1, <1>5, <1>6 DEF StackOK

LEMMA AddOK ==
    ASSUME NEW r, NEW q, NEW k \in Nat, k >= 1, Len(r) = k, StackOK(r), Len(q) = k + 1,
           \A h \in 1 .. k : q[h] = r[h],
           FrameOK(q[k + 1]), Awaits(q[k], q[k + 1])
    PROVE  StackOK(q)
<1>1. \A h \in 1 .. k + 1 : h = k + 1 \/ h \in 1 .. k
  OBVIOUS
<1>2. \A h \in 1 .. k + 1 : FrameOK(q[h])
  BY <1>1 DEF StackOK
<1>3. ASSUME NEW h \in 1 .. k + 1, h > 1
      PROVE  Awaits(q[h - 1], q[h])
  <2>1. CASE h = k + 1
    <3>1. h - 1 = k
      BY <2>1
    <3> QED
      BY <2>1, <3>1
  <2>2. CASE h \in 1 .. k
    <3>1. h - 1 \in 1 .. k /\ Awaits(r[h - 1], r[h])
      BY <1>3, <2>2 DEF StackOK
    <3> QED
      BY <2>2, <3>1
  <2> QED
    BY <1>1, <2>1, <2>2
<1> QED
  BY <1>2, <1>3 DEF StackOK

LEMMA PushOK ==
    ASSUME NEW s, NEW r, NEW n, NEW f, NEW g, StackOK(s), Pushes(s, r, n, f, g),
           FrameOK(f), f.fn = s[n + 1].fn, f.item = s[n + 1].item,
           FrameOK(g), Awaits(f, g)
    PROVE  StackOK(r)
<1>1. n \in Nat /\ n + 1 \in Nat /\ n + 1 >= 1 /\ n + 1 + 1 = n + 2
  BY DEF Pushes, Keeps
<1> DEFINE q == [h \in 1 .. n + 1 |-> r[h]]
<1>2. r \in Seq(Frames) /\ Len(r) = n + 2 /\ r[n + 1] = f /\ r[n + 2] = g
  BY DEF Pushes, Keeps
<1>3. \A h \in 1 .. n + 1 : r[h] \in Frames
  <2>1. \A h \in 1 .. n + 1 : h \in 1 .. n + 2
    BY <1>1
  <2> QED
    BY <1>2, <2>1
<1>4. q \in Seq(Frames) /\ Len(q) = n + 1 /\ \A h \in 1 .. n + 1 : q[h] = r[h]
  BY <1>1, <1>3
<1> HIDE DEF q
<1>5. n + 1 \in 1 .. n + 1 /\ \A h \in 1 .. n : h \in 1 .. n + 1
  BY <1>1
<1>6. Moves(s, q, n, f)
  BY <1>1, <1>2, <1>4, <1>5 DEF Moves, Pushes, Keeps
<1>7. StackOK(q)
  BY <1>6, MoveOK
<1> QED
  BY <1>1, <1>2, <1>4, <1>7, AddOK

LEMMA PushTwoOK ==
    ASSUME NEW s, NEW r, NEW n, NEW f, NEW g, NEW e, StackOK(s), PushesTwo(s, r, n, f, g, e),
           FrameOK(f), f.fn = s[n + 1].fn, f.item = s[n + 1].item,
           FrameOK(g), Awaits(f, g), FrameOK(e), Awaits(g, e)
    PROVE  StackOK(r)
<1>1. /\ n \in Nat /\ n + 2 \in Nat /\ n + 2 >= 1 /\ n + 2 + 1 = n + 3
      /\ n + 1 \in 1 .. n + 2 /\ n + 2 \in 1 .. n + 2
      /\ \A h \in 1 .. n : h \in 1 .. n + 2
      /\ \A h \in 1 .. n + 2 : h \in 1 .. n + 3
  BY DEF PushesTwo, Keeps
<1> DEFINE q == [h \in 1 .. n + 2 |-> r[h]]
<1>2. r \in Seq(Frames) /\ Len(r) = n + 3 /\ r[n + 1] = f /\ r[n + 2] = g /\ r[n + 3] = e
  BY DEF PushesTwo, Keeps
<1>3. \A h \in 1 .. n + 2 : r[h] \in Frames
  BY <1>1, <1>2
<1>4. q \in Seq(Frames) /\ Len(q) = n + 2 /\ \A h \in 1 .. n + 2 : q[h] = r[h]
  BY <1>1, <1>3
<1> HIDE DEF q
<1>5. Pushes(s, q, n, f, g)
  BY <1>1, <1>2, <1>4 DEF Pushes, PushesTwo, Keeps
<1>6. StackOK(q)
  BY <1>5, PushOK
<1> QED
  BY <1>1, <1>2, <1>4, <1>6, AddOK

(***************************************************************************)
(* Types and shapes: what is called, what waits for what, and who may be   *)
(* at work when there is no pool and when analyze() has returned.          *)
(***************************************************************************)
ShapeInv ==
    /\ stack \in Stacks
    /\ \A t \in Threads : StackOK(stack[t])
    /\ tasks \in Seq(Scopes)
    /\ analyzedScopes \in [Scopes -> {"absent", "pending", "done"}]
    /\ analyzedSubroutines \subseteq DOMAIN Subs /\ visitedNonProcCalls \subseteq DOMAIN Subs
    /\ main \in [pc : {"analyze", "threw", "done"}, pos : Nat \ {0}]
    /\ pooled \in BOOLEAN /\ pendingException \in BOOLEAN
    /\ ~pooled => tasks = <<>> /\ \A t \in Workers : stack[t] = <<>>
    /\ Done => tasks = <<>> /\ ~pendingException /\ \A t \in Threads : stack[t] = <<>>

Others(t) == stack' \in Stacks /\ \A u \in Threads \ {t} : stack'[u] = stack[u]

Popped(t) ==
    /\ Others(t)
    /\ \E n \in Nat : Pops(stack[t], stack'[t], n) /\ Top(t) = stack[t][n + 1]

Moved(t, f) ==
    /\ Others(t) /\ FrameOK(f) /\ f.fn = Top(t).fn /\ f.item = Top(t).item
    /\ \E n \in Nat : Moves(stack[t], stack'[t], n, f) /\ Top(t) = stack[t][n + 1]

Called(t, f, g) ==
    /\ Others(t) /\ FrameOK(f) /\ f.fn = Top(t).fn /\ f.item = Top(t).item
    /\ FrameOK(g) /\ Awaits(f, g)
    /\ \E n \in Nat : Pushes(stack[t], stack'[t], n, f, g) /\ Top(t) = stack[t][n + 1]

CalledTwo(t, f, g, e) ==
    /\ Others(t) /\ FrameOK(f) /\ f.fn = Top(t).fn /\ f.item = Top(t).item
    /\ FrameOK(g) /\ Awaits(f, g) /\ FrameOK(e) /\ Awaits(g, e)
    /\ \E n \in Nat : PushesTwo(stack[t], stack'[t], n, f, g, e) /\ Top(t) = stack[t][n + 1]

Entered(t, f) ==
    Others(t) /\ FrameOK(f) /\ stack[t] = <<>> /\ Len(stack'[t]) = 1 /\ stack'[t][1] = f

Cleared(t) == Others(t) /\ stack'[t] = <<>>

LEMMA TopOK ==
    ASSUME ShapeInv, NEW t \in Threads, stack[t] # <<>>
    PROVE  Top(t) \in Frames /\ FrameOK(Top(t))
<1>1. stack[t] \in Seq(Frames) /\ StackOK(stack[t])
  BY DEF ShapeInv, Stacks
<1>2. Len(stack[t]) \in 1 .. Len(stack[t])
  BY <1>1, EmptySeq
<1> QED
  BY <1>1, <1>2 DEF Top, StackOK

LEMMA Popping ==
    ASSUME ShapeInv, NEW t \in Threads, stack[t] # <<>>, Return(t)
    PROVE  Popped(t)
  BY Returns DEF ShapeInv, Popped, Others

LEMMA Moving ==
    ASSUME ShapeInv, NEW t \in Threads, stack[t] # <<>>, NEW f \in Frames, Replace(t, <<f>>),
           FrameOK(f), f.fn = Top(t).fn, f.item = Top(t).item
    PROVE  Moved(t, f)
  BY Replaces DEF ShapeInv, Moved, Others

LEMMA Pushing ==
    ASSUME ShapeInv, NEW t \in Threads, stack[t] # <<>>, NEW f \in Frames, NEW g \in Frames,
           Replace(t, <<f, g>>) \/ stack' = [stack EXCEPT ![t] = Append(Append(Below(t), f), g)],
           FrameOK(f), f.fn = Top(t).fn, f.item = Top(t).item, FrameOK(g), Awaits(f, g)
    PROVE  Called(t, f, g)
  BY Calling, CallingTwo DEF ShapeInv, Called, Others

LEMMA PushingTwo ==
    ASSUME ShapeInv, NEW t \in Threads, stack[t] # <<>>,
           NEW f \in Frames, NEW g \in Frames, NEW e \in Frames,
           stack' = [stack EXCEPT ![t] = Append(Append(Append(Below(t), f), g), e)],
           FrameOK(f), f.fn = Top(t).fn, f.item = Top(t).item, FrameOK(g), Awaits(f, g),
           FrameOK(e), Awaits(g, e)
    PROVE  CalledTwo(t, f, g, e)
<1>1. stack \in Stacks
  BY DEF ShapeInv
<1>2. /\ stack' \in Stacks /\ \A u \in Threads \ {t} : stack'[u] = stack[u]
      /\ \E n \in Nat : PushesTwo(stack[t], stack'[t], n, f, g, e) /\ Top(t) = stack[t][n + 1]
  BY <1>1, CallingNested
<1> QED
  BY <1>2 DEF CalledTwo, Others

LEMMA StacksKept ==
    ASSUME ShapeInv, NEW t \in Threads,
           \/ Popped(t) \/ Cleared(t)
           \/ \E f : Moved(t, f) \/ Entered(t, f)
           \/ \E f, g : Called(t, f, g)
           \/ \E f, g, e : CalledTwo(t, f, g, e)
    PROVE  stack' \in Stacks /\ \A u \in Threads : StackOK(stack'[u])
<1>1. \A u \in Threads : StackOK(stack[u])
  BY DEF ShapeInv
<1>2. Others(t)
  BY DEF Popped, Cleared, Moved, Entered, Called, CalledTwo
<1>3. StackOK(stack'[t])
  <2>1. CASE Popped(t)
    BY <1>1, <2>1, PopOK DEF Popped
  <2>2. CASE Cleared(t)
    <3>1. Len(stack'[t]) = 0
      BY <2>2 DEF Cleared
    <3> QED
      BY <3>1 DEF StackOK
  <2>3. ASSUME NEW f, Moved(t, f)
        PROVE  StackOK(stack'[t])
    BY <1>1, <2>3, MoveOK DEF Moved
  <2>4. ASSUME NEW f, Entered(t, f)
        PROVE  StackOK(stack'[t])
    <3>1. \A h \in 1 .. 1 : h = 1
      OBVIOUS
    <3> QED
      BY <2>4, <3>1 DEF Entered, StackOK
  <2>5. ASSUME NEW f, NEW g, Called(t, f, g)
        PROVE  StackOK(stack'[t])
    BY <1>1, <2>5, PushOK DEF Called
  <2>6. ASSUME NEW f, NEW g, NEW e, CalledTwo(t, f, g, e)
        PROVE  StackOK(stack'[t])
    BY <1>1, <2>6, PushTwoOK DEF CalledTwo
  <2> QED
    BY <2>1, <2>2, <2>3, <2>4, <2>5, <2>6
<1>4. \A u \in Threads : u = t \/ u \in Threads \ {t}
  OBVIOUS
<1> QED
  BY <1>1, <1>2, <1>3, <1>4 DEF Others

(***************************************************************************)
(* What each step does to the calls of its thread.                         *)
(***************************************************************************)
LEMMA AtTop ==
    ASSUME ShapeInv, NEW t \in Threads, NEW fn, NEW pc, At(t, fn, pc)
    PROVE  /\ stack[t] # <<>> /\ Top(t) \in Frames /\ FrameOK(Top(t))
           /\ Top(t).fn = fn /\ Top(t).pc = pc
  BY TopOK DEF At

LEMMA Steers ==
    ASSUME ShapeInv, NEW t \in Threads, stack[t] # <<>>, NEW pc, Goto(t, pc),
           [Top(t) EXCEPT !.pc = pc] \in Frames, FrameOK([Top(t) EXCEPT !.pc = pc])
    PROVE  Moved(t, [Top(t) EXCEPT !.pc = pc])
<1>1. Top(t) \in Frames
  BY TopOK
<1>2. /\ [Top(t) EXCEPT !.pc = pc].fn = Top(t).fn
      /\ [Top(t) EXCEPT !.pc = pc].item = Top(t).item
  BY <1>1 DEF Frames
<1>3. PICK f : f = [Top(t) EXCEPT !.pc = pc]
  OBVIOUS
<1> QED
  BY <1>2, <1>3, Moving DEF Goto

LEMMA SubSteers ==
    ASSUME NEW f \in Frames, FrameOK(f), f.fn = "sub",
           NEW pc \in {"analyze", "emplace", "add", "notify"}
    PROVE  [f EXCEPT !.pc = pc] \in Frames /\ FrameOK([f EXCEPT !.pc = pc])
  BY DEF Frames, FrameOK

LEMMA SubroutineSteps ==
    ASSUME ShapeInv, NEW t \in Threads
    PROVE  /\ LookupSubroutine(t) =>
                  IF Top(t).item \in analyzedSubroutines THEN Popped(t)
                  ELSE Moved(t, [Top(t) EXCEPT !.pc = "analyze"])
           /\ AnalyzeProcedure(t) =>
                  IF Top(t).item \in throwing THEN Cleared(t) /\ Throw(t)
                  ELSE Moved(t, [Top(t) EXCEPT !.pc = "emplace"])
           /\ EmplaceSubroutine(t) =>
                  IF Top(t).item \in analyzedSubroutines THEN Popped(t)
                  ELSE Moved(t, [Top(t) EXCEPT !.pc = "add"])
           /\ AddSubroutineDrivers(t) => Moved(t, [Top(t) EXCEPT !.pc = "notify"])
           /\ NotifySubroutine(t) => Popped(t)
<1>1. ASSUME LookupSubroutine(t)
      PROVE  IF Top(t).item \in analyzedSubroutines THEN Popped(t)
             ELSE Moved(t, [Top(t) EXCEPT !.pc = "analyze"])
  BY <1>1, AtTop, Popping, Steers, SubSteers DEF LookupSubroutine
<1>2. ASSUME AnalyzeProcedure(t)
      PROVE  IF Top(t).item \in throwing THEN Cleared(t) /\ Throw(t)
             ELSE Moved(t, [Top(t) EXCEPT !.pc = "emplace"])
  <2>1. CASE Top(t).item \in throwing
    <3>1. Throw(t)
      BY <1>2, <2>1 DEF AnalyzeProcedure
    <3>2. Cleared(t)
      BY <3>1 DEF Throw, Cleared, Others, ShapeInv, Stacks
    <3> QED
      BY <2>1, <3>1, <3>2
  <2>2. CASE Top(t).item \notin throwing
    BY <1>2, <2>2, AtTop, Steers, SubSteers DEF AnalyzeProcedure
  <2> QED
    BY <2>1, <2>2
<1>3. ASSUME EmplaceSubroutine(t)
      PROVE  IF Top(t).item \in analyzedSubroutines THEN Popped(t)
             ELSE Moved(t, [Top(t) EXCEPT !.pc = "add"])
  BY <1>3, AtTop, Popping, Steers, SubSteers DEF EmplaceSubroutine
<1>4. ASSUME AddSubroutineDrivers(t)
      PROVE  Moved(t, [Top(t) EXCEPT !.pc = "notify"])
  BY <1>4, AtTop, Steers, SubSteers DEF AddSubroutineDrivers
<1>5. ASSUME NotifySubroutine(t)
      PROVE  Popped(t)
  BY <1>5, AtTop, Popping DEF NotifySubroutine
<1> QED
  BY <1>1, <1>2, <1>3, <1>4, <1>5

LEMMA NewSub ==
    ASSUME NEW f \in DOMAIN Subs
    PROVE  LET e == Frame("sub", f, "lookup", <<>>)
           IN  e \in Frames /\ FrameOK(e) /\ e.fn = "sub" /\ e.item = f /\ e.pc = "lookup"
  BY DEF Frame, Frames, FrameOK, Items, CallLists

\* The next of the calls left, and the ones after it.
LEMMA HeadOfCalls ==
    ASSUME NEW calls \in CallLists, calls # <<>>
    PROVE  /\ Head(calls) \in DOMAIN Subs /\ Tail(calls) \in CallLists
           /\ Subs[Head(calls)].calls \o Tail(calls) \in CallLists
  BY MembersOK, HeadTailProperties, ConcatProperties DEF CallLists

TaskFrame(f) == [f EXCEPT !.pos = @ + 1, !.todo = <<f.calls[f.pos]>>]

SkipFrame(f) == [f EXCEPT !.todo = Tail(@)]

ControlsFrame(f) == [f EXCEPT !.pc = "controls", !.seen = @ \cup {Head(f.todo)}]

TimingFrame(f) ==
    [f EXCEPT !.pc = "timing", !.todo = Subs[Head(f.todo)].calls \o Tail(@),
              !.got = IF Subs[Head(f.todo)].timed THEN @ \cup {Head(f.todo)} ELSE @]

CollectFrame(f) == [f EXCEPT !.pc = "collect", !.seen = @ \cup {Head(f.todo)}]

NextFrame(f) ==
    [f EXCEPT !.pc = "next", !.todo = Subs[Head(@)].calls \o Tail(@),
              !.got = @ \cup {Head(f.todo)}]

\* What these change, and that the frame stays right.
LEMMA CallerFrames ==
    ASSUME NEW f \in Frames, FrameOK(f), f.fn \in {"proc", "expr"}
    PROVE  /\ f.fn = "proc" =>
                  /\ Walk(f) \in Frames /\ FrameOK(Walk(f))
                  /\ Walk(f).fn = f.fn /\ Walk(f).item = f.item
           /\ f.pos <= Len(f.calls) /\ f.pc = "timing" =>
                  /\ TaskFrame(f) \in Frames /\ FrameOK(TaskFrame(f))
                  /\ TaskFrame(f).fn = f.fn /\ TaskFrame(f).item = f.item
           /\ f.todo # <<>> /\ f.pc \in {"timing", "next"} =>
                  /\ SkipFrame(f) \in Frames /\ FrameOK(SkipFrame(f))
                  /\ SkipFrame(f).fn = f.fn /\ SkipFrame(f).item = f.item
           /\ f.todo # <<>> /\ f.fn = "proc" =>
                  /\ ControlsFrame(f) \in Frames /\ FrameOK(ControlsFrame(f))
                  /\ ControlsFrame(f).fn = f.fn /\ ControlsFrame(f).item = f.item
                  /\ TimingFrame(f) \in Frames /\ FrameOK(TimingFrame(f))
                  /\ TimingFrame(f).fn = f.fn /\ TimingFrame(f).item = f.item
           /\ f.todo # <<>> =>
                  /\ CollectFrame(f) \in Frames /\ FrameOK(CollectFrame(f))
                  /\ CollectFrame(f).fn = f.fn /\ CollectFrame(f).item = f.item
                  /\ NextFrame(f) \in Frames /\ FrameOK(NextFrame(f))
                  /\ NextFrame(f).fn = f.fn /\ NextFrame(f).item = f.item
<1>1. /\ f.calls \in CallLists /\ f.todo \in CallLists /\ f.pos \in Nat \ {0}
      /\ f.seen \subseteq DOMAIN Subs /\ f.got \subseteq DOMAIN Subs
      /\ f = [fn |-> f.fn, item |-> f.item, pc |-> f.pc, pos |-> f.pos, calls |-> f.calls,
              todo |-> f.todo, seen |-> f.seen, got |-> f.got]
  BY DEF Frames
<1>2. PICK m \in AllMembers : IsAbout(f, m)
  BY DEF FrameOK
<1>3. ASSUME f.fn = "proc"
      PROVE  /\ Walk(f) \in Frames /\ FrameOK(Walk(f))
             /\ Walk(f).fn = f.fn /\ Walk(f).item = f.item
  BY <1>1, <1>2, <1>3 DEF Walk, Frames, FrameOK, IsAbout
<1>4. ASSUME f.pos <= Len(f.calls), f.pc = "timing"
      PROVE  /\ TaskFrame(f) \in Frames /\ FrameOK(TaskFrame(f))
             /\ TaskFrame(f).fn = f.fn /\ TaskFrame(f).item = f.item
  <2>1. f.calls[f.pos] \in DOMAIN Subs
    BY <1>1, <1>4 DEF CallLists
  <2>2. <<f.calls[f.pos]>> \in CallLists /\ f.pos + 1 \in Nat \ {0}
    BY <1>1, <2>1 DEF CallLists
  <2> QED
    BY <1>1, <1>2, <1>4, <2>2 DEF TaskFrame, Frames, FrameOK, IsAbout
<1>5. ASSUME f.todo # <<>>
      PROVE  /\ Tail(f.todo) \in CallLists /\ Head(f.todo) \in DOMAIN Subs
             /\ Subs[Head(f.todo)].calls \o Tail(f.todo) \in CallLists
  BY <1>1, <1>5, HeadOfCalls
<1>6. ASSUME f.todo # <<>>, f.pc \in {"timing", "next"}
      PROVE  /\ SkipFrame(f) \in Frames /\ FrameOK(SkipFrame(f))
             /\ SkipFrame(f).fn = f.fn /\ SkipFrame(f).item = f.item
  BY <1>1, <1>2, <1>5, <1>6 DEF SkipFrame, Frames, FrameOK, IsAbout
<1>7. ASSUME f.todo # <<>>, f.fn = "proc"
      PROVE  /\ ControlsFrame(f) \in Frames /\ FrameOK(ControlsFrame(f))
             /\ ControlsFrame(f).fn = f.fn /\ ControlsFrame(f).item = f.item
  BY <1>1, <1>2, <1>5, <1>7 DEF ControlsFrame, Frames, FrameOK, IsAbout
<1>8. ASSUME f.todo # <<>>, f.fn = "proc"
      PROVE  /\ TimingFrame(f) \in Frames /\ FrameOK(TimingFrame(f))
             /\ TimingFrame(f).fn = f.fn /\ TimingFrame(f).item = f.item
  BY <1>1, <1>2, <1>5, <1>8 DEF TimingFrame, Frames, FrameOK, IsAbout
<1>9. ASSUME f.todo # <<>>
      PROVE  /\ CollectFrame(f) \in Frames /\ FrameOK(CollectFrame(f))
             /\ CollectFrame(f).fn = f.fn /\ CollectFrame(f).item = f.item
  BY <1>1, <1>2, <1>5, <1>9 DEF CollectFrame, Frames, FrameOK, IsAbout
<1>10. ASSUME f.todo # <<>>
       PROVE  /\ NextFrame(f) \in Frames /\ FrameOK(NextFrame(f))
              /\ NextFrame(f).fn = f.fn /\ NextFrame(f).item = f.item
  BY <1>1, <1>2, <1>5, <1>10 DEF NextFrame, Frames, FrameOK, IsAbout
<1> QED
  BY <1>3, <1>4, <1>6, <1>7, <1>8, <1>9, <1>10

LEMMA TimingSteps ==
    ASSUME ShapeInv, NEW t \in Threads
    PROVE  LET f == Top(t)
           IN  /\ NextTaskCall(t) => IF f.got # {} \/ f.pos > Len(f.calls)
                                     THEN Moved(t, Walk(f)) ELSE Moved(t, TaskFrame(f))
               /\ VisitTask(t) => IF ~Subs[Head(f.todo)].task \/ Head(f.todo) \in f.seen
                                  THEN Moved(t, SkipFrame(f))
                                  ELSE Called(t, ControlsFrame(f),
                                              Frame("sub", Head(f.todo), "lookup", <<>>))
               /\ CollectControls(t) => Moved(t, TimingFrame(f))
<1> DEFINE f == Top(t)
           e == Frame("sub", Head(f.todo), "lookup", <<>>)
<1>1. ASSUME NextTaskCall(t)
      PROVE  IF f.got # {} \/ f.pos > Len(f.calls)
             THEN Moved(t, Walk(f)) ELSE Moved(t, TaskFrame(f))
  <2>1. stack[t] # <<>> /\ f \in Frames /\ FrameOK(f) /\ f.fn = "proc" /\ f.pc = "timing"
    BY <1>1, AtTop DEF NextTaskCall
  <2>2. CASE f.got # {} \/ f.pos > Len(f.calls)
    <3>1. Replace(t, <<Walk(f)>>)
      BY <1>1, <2>2 DEF NextTaskCall
    <3> QED
      BY <2>1, <2>2, <3>1, CallerFrames, Moving
  <2>3. CASE ~(f.got # {} \/ f.pos > Len(f.calls))
    <3>1. Replace(t, <<TaskFrame(f)>>)
      BY <1>1, <2>3 DEF NextTaskCall, TaskFrame
    <3>2. f.pos <= Len(f.calls)
      BY <2>1, <2>3, LenProperties DEF Frames, CallLists
    <3> QED
      BY <2>1, <2>3, <3>1, <3>2, CallerFrames, Moving
  <2> QED
    BY <2>2, <2>3
<1>2. ASSUME VisitTask(t)
      PROVE  IF ~Subs[Head(f.todo)].task \/ Head(f.todo) \in f.seen
             THEN Moved(t, SkipFrame(f)) ELSE Called(t, ControlsFrame(f), e)
  <2>1. /\ stack[t] # <<>> /\ f \in Frames /\ FrameOK(f) /\ f.fn = "proc" /\ f.pc = "timing"
        /\ f.todo # <<>>
    BY <1>2, AtTop DEF VisitTask
  <2>2. CASE ~Subs[Head(f.todo)].task \/ Head(f.todo) \in f.seen
    <3>1. Replace(t, <<SkipFrame(f)>>)
      BY <1>2, <2>2 DEF VisitTask, SkipFrame
    <3> QED
      BY <2>1, <2>2, <3>1, CallerFrames, Moving
  <2>3. CASE ~(~Subs[Head(f.todo)].task \/ Head(f.todo) \in f.seen)
    <3>1. Replace(t, <<ControlsFrame(f), e>>)
      BY <1>2, <2>3 DEF VisitTask, ControlsFrame
    <3>2. Head(f.todo) \in DOMAIN Subs
      BY <2>1, HeadOfCalls DEF Frames
    <3>3. e \in Frames /\ FrameOK(e) /\ e.fn = "sub" /\ e.item = Head(f.todo)
      BY <3>2, NewSub
    <3>4. Awaits(ControlsFrame(f), e)
      <4>1. ControlsFrame(f).fn = "proc" /\ ControlsFrame(f).pc = "controls"
            /\ ControlsFrame(f).todo = f.todo
        BY <2>1 DEF ControlsFrame, Frames
      <4> QED
        BY <3>3, <4>1 DEF Awaits
    <3> HIDE DEF e
    <3> QED
      BY <2>1, <2>3, <3>1, <3>3, <3>4, CallerFrames, Pushing
  <2> QED
    BY <2>2, <2>3
<1>3. ASSUME CollectControls(t)
      PROVE  Moved(t, TimingFrame(f))
  <2>1. /\ stack[t] # <<>> /\ f \in Frames /\ FrameOK(f) /\ f.fn = "proc" /\ f.pc = "controls"
        /\ f.todo # <<>>
    BY <1>3, AtTop DEF CollectControls, FrameOK
  <2>2. Replace(t, <<TimingFrame(f)>>)
    BY <1>3 DEF CollectControls, TimingFrame
  <2> QED
    BY <2>1, <2>2, CallerFrames, Moving
<1> QED
  BY <1>1, <1>2, <1>3

LEMMA WalkSteps ==
    ASSUME ShapeInv, NEW t \in Threads
    PROVE  LET f == Top(t)
           IN  /\ VisitCall(t) => IF Subs[Head(f.todo)].task \/ Head(f.todo) \in Visited(t)
                                  THEN Moved(t, SkipFrame(f))
                                  ELSE Called(t, CollectFrame(f),
                                              Frame("sub", Head(f.todo), "lookup", <<>>))
               /\ CollectDrivers(t) => Moved(t, NextFrame(f))
               /\ FinishCaller(t) => Popped(t)
<1> DEFINE f == Top(t)
           e == Frame("sub", Head(f.todo), "lookup", <<>>)
<1>1. ASSUME VisitCall(t)
      PROVE  IF Subs[Head(f.todo)].task \/ Head(f.todo) \in Visited(t)
             THEN Moved(t, SkipFrame(f)) ELSE Called(t, CollectFrame(f), e)
  <2>1. /\ stack[t] # <<>> /\ f \in Frames /\ FrameOK(f) /\ f.fn \in {"proc", "expr"}
        /\ f.pc = "next" /\ f.todo # <<>>
    BY <1>1, AtTop DEF VisitCall
  <2>2. CASE Subs[Head(f.todo)].task \/ Head(f.todo) \in Visited(t)
    <3>1. Replace(t, <<SkipFrame(f)>>)
      BY <1>1, <2>2 DEF VisitCall, SkipFrame
    <3> QED
      BY <2>1, <2>2, <3>1, CallerFrames, Moving
  <2>3. CASE ~(Subs[Head(f.todo)].task \/ Head(f.todo) \in Visited(t))
    <3>1. Replace(t, <<CollectFrame(f), e>>)
      BY <1>1, <2>3 DEF VisitCall, CollectFrame
    <3>2. Head(f.todo) \in DOMAIN Subs
      BY <2>1, HeadOfCalls DEF Frames
    <3>3. e \in Frames /\ FrameOK(e) /\ e.fn = "sub" /\ e.item = Head(f.todo)
      BY <3>2, NewSub
    <3>4. Awaits(CollectFrame(f), e)
      <4>1. CollectFrame(f).fn = f.fn /\ CollectFrame(f).pc = "collect"
            /\ CollectFrame(f).todo = f.todo
        BY <2>1 DEF CollectFrame, Frames
      <4> QED
        BY <2>1, <3>3, <4>1 DEF Awaits
    <3> HIDE DEF e
    <3> QED
      BY <2>1, <2>3, <3>1, <3>3, <3>4, CallerFrames, Pushing
  <2> QED
    BY <2>2, <2>3
<1>2. ASSUME CollectDrivers(t)
      PROVE  Moved(t, NextFrame(f))
  <2>1. /\ stack[t] # <<>> /\ f \in Frames /\ FrameOK(f) /\ f.fn \in {"proc", "expr"}
        /\ f.pc = "collect" /\ f.todo # <<>>
    BY <1>2, AtTop DEF CollectDrivers, FrameOK
  <2>2. Replace(t, <<NextFrame(f)>>)
    BY <1>2 DEF CollectDrivers, NextFrame
  <2> QED
    BY <2>1, <2>2, CallerFrames, Moving
<1>3. ASSUME FinishCaller(t)
      PROVE  Popped(t)
  BY <1>3, AtTop, Popping DEF FinishCaller
<1> QED
  BY <1>1, <1>2, <1>3

ScopeFrame(s) == Frame("scope", s, "members", <<>>)

PastMember(f) == [f EXCEPT !.pos = @ + 1]

NextMember(f) == Members[f.item][f.pos]

\* The frame of a member that is analyzed by the thread that meets it.
MemberFrame(m) ==
    CASE m.kind = "inst" -> Frame("inst", m.item, "note", <<>>)
      [] m.kind = "sub" -> Frame("sub", m.item, "lookup", <<>>)
      [] m.kind = "proc" /\ m.timing -> Frame("proc", m.item, "timing", m.calls)
      [] m.kind \in {"proc", "expr"} /\ ~m.timing ->
            Walk(Frame(m.kind, m.item, "next", m.calls))
      [] m.kind = "nettype" -> Frame("nettype", m.item, "analyze", m.calls)

LEMMA NewScope ==
    ASSUME NEW s \in Scopes
    PROVE  /\ ScopeFrame(s) \in Frames /\ FrameOK(ScopeFrame(s))
           /\ ScopeFrame(s).fn = "scope" /\ ScopeFrame(s).item = s
           /\ ScopeFrame(s).pc = "members" /\ ScopeFrame(s).pos = 1
<1>1. Len(Members[s]) \in Nat /\ <<>> \in CallLists
  BY MembersOK, LenProperties DEF CallLists
<1> QED
  BY <1>1 DEF ScopeFrame, Frame, Frames, FrameOK, Items

LEMMA ScopeTop ==
    ASSUME NEW f \in Frames, FrameOK(f), f.fn = "scope", f.pc = "members"
    PROVE  /\ f.item \in Scopes /\ f.pos \in Nat \ {0} /\ Len(Members[f.item]) \in Nat
           /\ f.pos <= Len(Members[f.item]) =>
                  /\ NextMember(f) \in AllMembers /\ f.pos \in DOMAIN Members[f.item]
                  /\ PastMember(f) \in Frames /\ FrameOK(PastMember(f))
                  /\ PastMember(f).fn = "scope" /\ PastMember(f).item = f.item
                  /\ PastMember(f).pc = "members" /\ PastMember(f).pos = f.pos + 1
<1>1. f.item \in Scopes /\ f.pos \in Nat \ {0}
  BY DEF Frames, FrameOK
<1>2. Members[f.item] \in Seq(AllMembers)
  BY <1>1, MembersOK
<1>3. Len(Members[f.item]) \in Nat /\ DOMAIN Members[f.item] = 1 .. Len(Members[f.item])
  BY <1>2, LenProperties
<1>4. ASSUME f.pos <= Len(Members[f.item])
      PROVE  /\ NextMember(f) \in AllMembers /\ f.pos \in DOMAIN Members[f.item]
             /\ PastMember(f) \in Frames /\ FrameOK(PastMember(f))
             /\ PastMember(f).fn = "scope" /\ PastMember(f).item = f.item
             /\ PastMember(f).pc = "members" /\ PastMember(f).pos = f.pos + 1
  <2>1. f.pos \in 1 .. Len(Members[f.item])
    BY <1>1, <1>3, <1>4
  <2>2. NextMember(f) \in AllMembers /\ f.pos \in DOMAIN Members[f.item]
    BY <1>2, <1>3, <2>1 DEF NextMember
  <2>3. f.pos + 1 \in Nat \ {0} /\ f.pos + 1 <= Len(Members[f.item]) + 1
    BY <1>1, <1>3, <1>4
  <2>4. /\ PastMember(f) \in Frames /\ PastMember(f).fn = "scope"
        /\ PastMember(f).item = f.item /\ PastMember(f).pc = "members"
        /\ PastMember(f).pos = f.pos + 1
    BY <2>3 DEF PastMember, Frames
  <2>5. FrameOK(PastMember(f))
    BY <1>1, <2>3, <2>4 DEF FrameOK
  <2> QED
    BY <2>2, <2>4, <2>5
<1> QED
  BY <1>1, <1>3, <1>4

LEMMA NewMember ==
    ASSUME NEW m \in AllMembers, m.kind # "scope", m.kind = "expr" => ~m.timing
    PROVE  /\ MemberFrame(m) \in Frames /\ FrameOK(MemberFrame(m))
           /\ MemberFrame(m).fn = m.kind /\ MemberFrame(m).item = m.item
<1>1. /\ m.kind \in {"inst", "sub", "proc", "expr", "nettype"} /\ m.timing \in BOOLEAN
      /\ m.calls \in CallLists /\ <<>> \in CallLists /\ m.item \in Items
      /\ m.kind = "inst" => m.item \in DOMAIN CanonicalBody
      /\ m.kind = "sub" => m.item \in DOMAIN Subs
  BY MembersOK DEF CallLists, Items
<1>2. CASE m.kind \in {"inst", "sub", "nettype"}
  BY <1>1, <1>2 DEF MemberFrame, Frame, Frames, FrameOK, IsAbout
<1>3. CASE m.kind = "proc" /\ m.timing
  BY <1>1, <1>3 DEF MemberFrame, Frame, Frames, FrameOK, IsAbout
<1>4. CASE m.kind \in {"proc", "expr"} /\ ~m.timing
  <2>1. MemberFrame(m) = [fn |-> m.kind, item |-> m.item, pc |-> "next", pos |-> 1,
                          calls |-> m.calls, todo |-> m.calls, seen |-> {}, got |-> {}]
    BY <1>4 DEF MemberFrame, Frame, Walk
  <2> QED
    BY <1>1, <1>4, <2>1 DEF Frames, FrameOK, IsAbout
<1> QED
  BY <1>1, <1>2, <1>3, <1>4

\* What a step of a scope does to the calls.
MemberSteps(t) ==
    LET f == Top(t)
        m == NextMember(f)
        fresh(s) == analyzedScopes[s] = "absent" /\ ~pooled
    IN  /\ f.pos <= Len(Members[f.item])
        /\ m.kind = "scope" => IF fresh(m.item) THEN Called(t, PastMember(f), ScopeFrame(m.item))
                               ELSE Moved(t, PastMember(f))
        /\ m.kind = "inst" =>
               IF fresh(CanonicalBody[m.item])
               THEN CalledTwo(t, PastMember(f), MemberFrame(m), ScopeFrame(CanonicalBody[m.item]))
               ELSE Called(t, PastMember(f), MemberFrame(m))
        /\ m.kind \notin {"scope", "inst"} => /\ m.kind = "expr" => ~m.timing
                                              /\ Called(t, PastMember(f), MemberFrame(m))

LEMMA MemberStep ==
    ASSUME ShapeInv, NEW t \in Threads, VisitMember(t)
    PROVE  MemberSteps(t)
<1> DEFINE f == Top(t)
           m == NextMember(f)
           rest == Append(Below(t), PastMember(f))
           fresh(s) == analyzedScopes[s] = "absent" /\ ~pooled
<1>1. /\ stack[t] # <<>> /\ f \in Frames /\ FrameOK(f) /\ f.fn = "scope" /\ f.pc = "members"
      /\ f.pos <= Len(Members[f.item])
  BY AtTop DEF VisitMember
<1>2. /\ m \in AllMembers
      /\ PastMember(f) \in Frames /\ FrameOK(PastMember(f))
      /\ PastMember(f).fn = f.fn /\ PastMember(f).item = f.item
      /\ PastMember(f).pc = "members"
  BY <1>1, ScopeTop
<1>3. \A g : Awaits(PastMember(f), g)
  BY <1>1, <1>2 DEF Awaits
<1>4. ASSUME m.kind = "scope"
      PROVE  IF fresh(m.item) THEN Called(t, PastMember(f), ScopeFrame(m.item))
             ELSE Moved(t, PastMember(f))
  <2>1. AnalyzeScopeAsync(t, m.item, rest)
    BY <1>4 DEF VisitMember, NextMember, PastMember
  <2>2. m.item \in Scopes
    BY <1>2, <1>4, MembersOK
  <2>3. CASE fresh(m.item)
    <3>1. stack' = [stack EXCEPT ![t] = Append(rest, ScopeFrame(m.item))]
      BY <2>1, <2>3 DEF AnalyzeScopeAsync, ScopeFrame
    <3> QED
      BY <1>1, <1>2, <1>3, <2>2, <2>3, <3>1, NewScope, Pushing
  <2>4. CASE ~fresh(m.item)
    <3>1. stack' = [stack EXCEPT ![t] = rest]
      BY <2>1, <2>4 DEF AnalyzeScopeAsync
    <3>2. rest = Below(t) \o <<PastMember(f)>>
      <4>1. Below(t) \in Seq(Frames)
        BY <1>1, LowerPart DEF Below, ShapeInv, Stacks
      <4> QED
        BY <1>2, <4>1, AppendIsConcat
    <3>3. Replace(t, <<PastMember(f)>>)
      BY <3>1, <3>2 DEF Replace
    <3> QED
      BY <1>1, <1>2, <2>4, <3>3, Moving
  <2> QED
    BY <2>3, <2>4
<1>5. ASSUME m.kind = "inst"
      PROVE  IF fresh(CanonicalBody[m.item])
             THEN CalledTwo(t, PastMember(f), MemberFrame(m), ScopeFrame(CanonicalBody[m.item]))
             ELSE Called(t, PastMember(f), MemberFrame(m))
  <2>1. MemberFrame(m) = Frame("inst", m.item, "note", <<>>)
    BY <1>5 DEF MemberFrame
  <2>2. AnalyzeScopeAsync(t, CanonicalBody[m.item], Append(rest, MemberFrame(m)))
    BY <1>5, <2>1 DEF VisitMember, NextMember, PastMember
  <2>3. CanonicalBody[m.item] \in Scopes
    BY <1>2, <1>5, MembersOK
  <2>4. /\ MemberFrame(m) \in Frames /\ FrameOK(MemberFrame(m)) /\ MemberFrame(m).fn = "inst"
    BY <1>2, <1>5, NewMember
  <2>5. CASE fresh(CanonicalBody[m.item])
    <3>1. stack' = [stack EXCEPT ![t] =
                       Append(Append(rest, MemberFrame(m)), ScopeFrame(CanonicalBody[m.item]))]
      BY <2>2, <2>5 DEF AnalyzeScopeAsync, ScopeFrame
    <3>2. Awaits(MemberFrame(m), ScopeFrame(CanonicalBody[m.item]))
      BY <2>4 DEF Awaits
    <3>3. /\ ScopeFrame(CanonicalBody[m.item]) \in Frames
          /\ FrameOK(ScopeFrame(CanonicalBody[m.item]))
      BY <2>3, NewScope
    <3> QED
      BY <1>1, <1>2, <1>3, <2>4, <2>5, <3>1, <3>2, <3>3, PushingTwo
  <2>6. CASE ~fresh(CanonicalBody[m.item])
    <3>1. stack' = [stack EXCEPT ![t] = Append(rest, MemberFrame(m))]
      BY <2>2, <2>6 DEF AnalyzeScopeAsync
    <3> QED
      BY <1>1, <1>2, <1>3, <2>4, <2>6, <3>1, Pushing
  <2> QED
    BY <2>5, <2>6
<1>6. ASSUME m.kind \notin {"scope", "inst"}
      PROVE  /\ m.kind = "expr" => ~m.timing
             /\ Called(t, PastMember(f), MemberFrame(m))
  <2>1. m.kind \in {"sub", "proc", "expr", "nettype"}
    BY <1>2, <1>6, MembersOK
  <2>2. /\ m.kind = "expr" => ~m.timing
        /\ stack' = [stack EXCEPT ![t] = Append(rest, MemberFrame(m))]
    <3>1. CASE m.kind = "sub"
      BY <3>1 DEF VisitMember, NextMember, PastMember, MemberFrame
    <3>2. CASE m.kind = "proc" /\ m.timing
      BY <3>2 DEF VisitMember, NextMember, PastMember, MemberFrame
    <3>3. CASE m.kind \in {"proc", "expr"} /\ ~m.timing
      BY <3>3 DEF VisitMember, NextMember, PastMember, MemberFrame
    <3>4. CASE m.kind = "nettype"
      BY <3>4 DEF VisitMember, NextMember, PastMember, MemberFrame
    <3>5. CASE m.kind = "expr" /\ m.timing
      BY <3>5 DEF VisitMember, NextMember
    <3> QED
      BY <2>1, <3>1, <3>2, <3>3, <3>4, <3>5
  <2>3. MemberFrame(m) \in Frames /\ FrameOK(MemberFrame(m))
    BY <1>2, <1>6, <2>2, NewMember
  <2> QED
    BY <1>1, <1>2, <1>3, <2>2, <2>3, Pushing
<1> QED
  BY <1>1, <1>4, <1>5, <1>6 DEF MemberSteps

CheckFrame(f) == [f EXCEPT !.pc = "check"]

LEMMA OtherSteps ==
    ASSUME ShapeInv, NEW t \in Threads
    PROVE  /\ NoteInstance(t) => Popped(t)
           /\ PublishScope(t) => Moved(t, [Top(t) EXCEPT !.pc = "notify"])
           /\ NotifyScope(t) => Popped(t)
           /\ MemberThrows(t) => Cleared(t) /\ Throw(t)
           /\ AnalyzeResolution(t) => Called(t, CheckFrame(Top(t)),
                                             Frame("sub", Head(Top(t).calls), "lookup", <<>>))
           /\ CheckNetType(t) => Popped(t)
<1>1. ASSUME NoteInstance(t)
      PROVE  Popped(t)
  BY <1>1, AtTop, Popping DEF NoteInstance
<1>2. ASSUME PublishScope(t)
      PROVE  Moved(t, [Top(t) EXCEPT !.pc = "notify"])
  <2>1. /\ stack[t] # <<>> /\ Top(t) \in Frames /\ FrameOK(Top(t))
        /\ Top(t).fn = "scope" /\ Top(t).pc = "members"
        /\ Top(t).pos > Len(Members[Top(t).item])
    BY <1>2, AtTop DEF PublishScope
  <2>2. /\ [Top(t) EXCEPT !.pc = "notify"] \in Frames
        /\ FrameOK([Top(t) EXCEPT !.pc = "notify"])
    BY <2>1 DEF Frames, FrameOK
  <2> QED
    BY <1>2, <2>1, <2>2, Steers DEF PublishScope
<1>3. ASSUME NotifyScope(t)
      PROVE  Popped(t)
  BY <1>3, AtTop, Popping DEF NotifyScope
<1>4. ASSUME MemberThrows(t)
      PROVE  Cleared(t) /\ Throw(t)
  BY <1>4 DEF MemberThrows, Throw, Cleared, Others, ShapeInv, Stacks
<1>5. ASSUME AnalyzeResolution(t)
      PROVE  Called(t, CheckFrame(Top(t)), Frame("sub", Head(Top(t).calls), "lookup", <<>>))
  <2> DEFINE f == Top(t)
             e == Frame("sub", Head(f.calls), "lookup", <<>>)
  <2>1. /\ stack[t] # <<>> /\ f \in Frames /\ FrameOK(f) /\ f.fn = "nettype"
        /\ f.pc = "analyze"
    BY <1>5, AtTop DEF AnalyzeResolution
  <2>2. PICK m \in AllMembers : IsAbout(f, m)
    BY <2>1 DEF FrameOK
  <2>3. f.calls # <<>> /\ f.calls \in CallLists
    BY <2>1, <2>2, MembersOK DEF IsAbout, Frames
  <2>4. Head(f.calls) \in DOMAIN Subs
    BY <2>3, HeadOfCalls
  <2>5. e \in Frames /\ FrameOK(e) /\ e.fn = "sub" /\ e.item = Head(f.calls)
    BY <2>4, NewSub
  <2>6. /\ CheckFrame(f) \in Frames /\ FrameOK(CheckFrame(f))
        /\ CheckFrame(f).fn = f.fn /\ CheckFrame(f).item = f.item
        /\ CheckFrame(f).calls = f.calls /\ CheckFrame(f).pc = "check"
    BY <2>1, <2>2 DEF CheckFrame, Frames, FrameOK, IsAbout
  <2>7. Awaits(CheckFrame(f), e)
    BY <2>1, <2>5, <2>6 DEF Awaits
  <2>8. Replace(t, <<CheckFrame(f), e>>)
    BY <1>5 DEF AnalyzeResolution, CheckFrame
  <2> HIDE DEF e
  <2>9. Called(t, CheckFrame(f), e)
    BY <2>1, <2>5, <2>6, <2>7, <2>8, Pushing
  <2> QED
    BY <2>9 DEF e
<1>6. ASSUME CheckNetType(t)
      PROVE  Popped(t)
  BY <1>6, AtTop, Popping DEF CheckNetType
<1> QED
  BY <1>1, <1>2, <1>3, <1>4, <1>5, <1>6

LEMMA EntersScope ==
    ASSUME ShapeInv, NEW t \in Threads, stack[t] = <<>>, NEW s \in Scopes,
           stack' = [stack EXCEPT ![t] = <<ScopeFrame(s)>>]
    PROVE  Entered(t, ScopeFrame(s))
<1>1. ScopeFrame(s) \in Frames /\ FrameOK(ScopeFrame(s))
  BY NewScope
<1>2. <<ScopeFrame(s)>> \in Seq(Frames) /\ Len(<<ScopeFrame(s)>>) = 1
      /\ <<ScopeFrame(s)>>[1] = ScopeFrame(s)
  BY <1>1
<1>3. stack \in Stacks
  BY DEF ShapeInv
<1>4. /\ stack' \in Stacks /\ stack'[t] = <<ScopeFrame(s)>>
      /\ \A u \in Threads \ {t} : stack'[u] = stack[u]
  BY <1>2, <1>3 DEF Stacks
<1> QED
  BY <1>1, <1>2, <1>4 DEF Entered, Others

LEMMA TaskSteps ==
    ASSUME ShapeInv
    PROVE  /\ AnalyzeRoot =>
                  /\ Main \in Threads /\ Roots[main.pos] \in Scopes
                  /\ IF analyzedScopes[Roots[main.pos]] = "absent" /\ ~pooled
                     THEN Entered(Main, ScopeFrame(Roots[main.pos]))
                     ELSE stack' = stack
           /\ \A t \in Workers : TakeTask(t) =>
                  /\ Len(tasks) \in Nat \ {0} /\ t \in Threads
                  /\ Head(tasks) = tasks[1] /\ tasks[1] \in Scopes
                  /\ Tail(tasks) \in Seq(Scopes) /\ Len(tasks') = Len(tasks) - 1
                  /\ \A k \in 1 .. Len(tasks) - 1 : tasks'[k] = tasks[k + 1]
                  /\ Entered(t, ScopeFrame(tasks[1]))
<1>1. ASSUME AnalyzeRoot
      PROVE  /\ Main \in Threads /\ Roots[main.pos] \in Scopes
             /\ IF analyzedScopes[Roots[main.pos]] = "absent" /\ ~pooled
                THEN Entered(Main, ScopeFrame(Roots[main.pos]))
                ELSE stack' = stack
  <2>1. /\ Main \in Threads /\ stack[Main] = <<>> /\ main.pos \in Nat \ {0}
        /\ main.pos <= Len(Roots) /\ AnalyzeScopeAsync(Main, Roots[main.pos], <<>>)
    BY <1>1 DEF AnalyzeRoot, Threads, ShapeInv
  <2>2. Len(Roots) \in Nat /\ main.pos \in 1 .. Len(Roots)
    BY <2>1, MembersOK, LenProperties
  <2>3. Roots[main.pos] \in Scopes
    BY <2>2, MembersOK
  <2>4. CASE analyzedScopes[Roots[main.pos]] = "absent" /\ ~pooled
    <3>1. stack' = [stack EXCEPT ![Main] = Append(<<>>, ScopeFrame(Roots[main.pos]))]
      BY <2>1, <2>4 DEF AnalyzeScopeAsync, ScopeFrame
    <3>2. Append(<<>>, ScopeFrame(Roots[main.pos])) = <<ScopeFrame(Roots[main.pos])>>
      OBVIOUS
    <3>3. stack' = [stack EXCEPT ![Main] = <<ScopeFrame(Roots[main.pos])>>]
      BY <3>1, <3>2
    <3> QED
      BY <2>1, <2>3, <2>4, <3>3, EntersScope
  <2>5. CASE ~(analyzedScopes[Roots[main.pos]] = "absent" /\ ~pooled)
    <3>1. stack' = [stack EXCEPT ![Main] = <<>>]
      BY <2>1, <2>5 DEF AnalyzeScopeAsync
    <3>2. stack' = stack
      BY <2>1, <3>1 DEF ShapeInv, Stacks
    <3> QED
      BY <2>1, <2>3, <2>5, <3>2
  <2> QED
    BY <2>4, <2>5
<1>2. ASSUME NEW t \in Workers, TakeTask(t)
      PROVE  /\ Len(tasks) \in Nat \ {0} /\ t \in Threads
             /\ Head(tasks) = tasks[1] /\ tasks[1] \in Scopes
             /\ Tail(tasks) \in Seq(Scopes) /\ Len(tasks') = Len(tasks) - 1
             /\ \A k \in 1 .. Len(tasks) - 1 : tasks'[k] = tasks[k + 1]
             /\ Entered(t, ScopeFrame(tasks[1]))
  <2>1. /\ t \in Threads /\ stack[t] = <<>> /\ tasks # <<>> /\ tasks' = Tail(tasks)
        /\ stack' = [stack EXCEPT ![t] = <<ScopeFrame(Head(tasks))>>]
    BY <1>2 DEF TakeTask, Threads, ScopeFrame
  <2>2. tasks \in Seq(Scopes)
    BY DEF ShapeInv
  <2>3. Len(tasks) \in Nat \ {0} /\ Head(tasks) = tasks[1] /\ tasks[1] \in Scopes
    <3>1. Len(tasks) \in Nat /\ Len(tasks) # 0
      BY <2>1, <2>2, EmptySeq
    <3>2. 1 \in 1 .. Len(tasks)
      BY <3>1
    <3> QED
      BY <2>1, <2>2, <3>1, <3>2, HeadTailProperties
  <2>4. /\ Tail(tasks) \in Seq(Scopes) /\ Len(Tail(tasks)) = Len(tasks) - 1
        /\ \A k \in 1 .. Len(tasks) - 1 : Tail(tasks)[k] = tasks[k + 1]
    BY <2>1, <2>2, HeadTailProperties
  <2>5. Entered(t, ScopeFrame(tasks[1]))
    BY <2>1, <2>3, EntersScope
  <2> QED
    BY <2>1, <2>3, <2>4, <2>5
<1> QED
  BY <1>1, <1>2

LEMMA ShapeInit == Init => ShapeInv
<1> SUFFICES ASSUME Init PROVE ShapeInv
  OBVIOUS
<1>1. (\A S : <<>> \in Seq(S)) /\ Len(<<>>) = 0
  OBVIOUS
<1>2. stack \in Stacks /\ \A t \in Threads : stack[t] = <<>>
  BY <1>1 DEF Init, Stacks
<1>3. \A t \in Threads : StackOK(stack[t])
  BY <1>1, <1>2 DEF StackOK
<1>4. pooled \in BOOLEAN /\ main = [pc |-> "analyze", pos |-> 1]
  BY MembersOK DEF Init
<1>5. Workers \subseteq Threads
  BY DEF Threads
<1>6. /\ main \in [pc : {"analyze", "threw", "done"}, pos : Nat \ {0}] /\ ~Done
      /\ tasks = <<>> /\ tasks \in Seq(Scopes) /\ pendingException \in BOOLEAN
  <2>1. tasks = <<>> /\ pendingException = FALSE
    BY DEF Init
  <2>2. <<>> \in Seq(Scopes)
    BY <1>1
  <2>3. main.pc = "analyze" /\ [pc |-> "analyze", pos |-> 1] \in
            [pc : {"analyze", "threw", "done"}, pos : Nat \ {0}]
    BY <1>4
  <2> QED
    BY <1>4, <2>1, <2>2, <2>3 DEF Done
<1>7. /\ analyzedScopes \in [Scopes -> {"absent", "pending", "done"}]
      /\ analyzedSubroutines \subseteq DOMAIN Subs /\ visitedNonProcCalls \subseteq DOMAIN Subs
  BY DEF Init
<1> QED
  BY <1>2, <1>3, <1>4, <1>5, <1>6, <1>7 DEF ShapeInv

\* A step of a thread that is at work.
LEMMA ShapeFollows ==
    ASSUME ShapeInv, NEW t \in Threads, stack[t] # <<>>,
           \/ Popped(t) \/ Cleared(t)
           \/ \E f : Moved(t, f)
           \/ \E f, g : Called(t, f, g)
           \/ \E f, g, e : CalledTwo(t, f, g, e),
           tasks' \in Seq(Scopes), ~pooled => tasks' = tasks,
           analyzedScopes' \in [Scopes -> {"absent", "pending", "done"}],
           analyzedSubroutines' \subseteq DOMAIN Subs, visitedNonProcCalls' \subseteq DOMAIN Subs,
           main' = main \/ main' = [main EXCEPT !.pc = "threw"], pendingException' \in BOOLEAN,
           UNCHANGED pooled
    PROVE  ShapeInv'
<1>1. stack' \in Stacks /\ \A u \in Threads : StackOK(stack'[u])
  BY StacksKept
<1>2. main.pc # "done"
  BY DEF ShapeInv, Done
<1>3. main' \in [pc : {"analyze", "threw", "done"}, pos : Nat \ {0}] /\ main'.pc # "done"
  BY <1>2 DEF ShapeInv
<1>4. ASSUME ~pooled
      PROVE  tasks' = <<>> /\ \A u \in Workers : stack'[u] = <<>>
  <2>1. t = Main
    BY <1>4 DEF ShapeInv, Threads
  <2>2. Others(t)
    BY DEF Popped, Cleared, Moved, Called, CalledTwo
  <2>3. \A u \in Workers : u \in Threads \ {t} /\ stack[u] = <<>>
    BY <1>4, <2>1, ThreadsOK DEF ShapeInv, Threads
  <2> QED
    BY <1>4, <2>2, <2>3 DEF Others, ShapeInv
<1> QED
  BY <1>1, <1>3, <1>4 DEF ShapeInv, Done

LEMMA ShapeAsync ==
    ASSUME ShapeInv, NEW t, NEW s \in Scopes, NEW rest, AnalyzeScopeAsync(t, s, rest)
    PROVE  /\ tasks' \in Seq(Scopes) /\ (~pooled => tasks' = tasks)
           /\ analyzedScopes' \in [Scopes -> {"absent", "pending", "done"}]
<1>1. Append(tasks, s) \in Seq(Scopes)
  BY DEF ShapeInv
<1> QED
  BY <1>1 DEF ShapeInv, AnalyzeScopeAsync

LEMMA ShapeMember ==
    ASSUME ShapeInv, NEW t \in Threads, VisitMember(t), UNCHANGED pooled
    PROVE  ShapeInv'
<1> DEFINE f == Top(t)
           m == NextMember(f)
<1>1. /\ stack[t] # <<>> /\ f \in Frames /\ FrameOK(f) /\ f.fn = "scope" /\ f.pc = "members"
      /\ f.pos <= Len(Members[f.item])
  BY AtTop DEF VisitMember
<1>2. m \in AllMembers
  BY <1>1, ScopeTop
<1>3. MemberSteps(t)
  BY MemberStep
<1>4. \/ \E g : Moved(t, g)
      \/ \E g, e : Called(t, g, e)
      \/ \E g, e, d : CalledTwo(t, g, e, d)
  BY <1>3 DEF MemberSteps
<1>5. /\ tasks' \in Seq(Scopes) /\ (~pooled => tasks' = tasks)
      /\ analyzedScopes' \in [Scopes -> {"absent", "pending", "done"}]
  <2>1. CASE m.kind = "scope"
    <3>1. m.item \in Scopes
      BY <1>2, <2>1, MembersOK
    <3>2. \E rest : AnalyzeScopeAsync(t, m.item, rest)
      BY <2>1 DEF VisitMember, NextMember
    <3> QED
      BY <3>1, <3>2, ShapeAsync
  <2>2. CASE m.kind = "inst"
    <3>1. CanonicalBody[m.item] \in Scopes
      BY <1>2, <2>2, MembersOK
    <3>2. \E rest : AnalyzeScopeAsync(t, CanonicalBody[m.item], rest)
      BY <2>2 DEF VisitMember, NextMember
    <3> QED
      BY <3>1, <3>2, ShapeAsync
  <2>3. CASE m.kind \notin {"scope", "inst"}
    <3>1. UNCHANGED <<maps, pool>>
      BY <2>3 DEF VisitMember, NextMember
    <3> QED
      BY <3>1 DEF maps, pool, ShapeInv
  <2> QED
    BY <2>1, <2>2, <2>3
<1>6. /\ UNCHANGED <<analyzedSubroutines, visitedNonProcCalls, pendingException, main>>
  BY DEF VisitMember, maps, pool
<1> QED
  BY <1>1, <1>4, <1>5, <1>6, ShapeFollows DEF ShapeInv

LEMMA ShapeThrow ==
    ASSUME ShapeInv, NEW t \in Threads, stack[t] # <<>>, Cleared(t), Throw(t), UNCHANGED pooled
    PROVE  ShapeInv'
<1>1. /\ UNCHANGED <<analyzedScopes, analyzedSubroutines, visitedNonProcCalls, tasks>>
      /\ main' = main \/ main' = [main EXCEPT !.pc = "threw"]
      /\ pendingException' \in BOOLEAN
  BY DEF Throw, maps, ShapeInv
<1> QED
  BY <1>1, ShapeFollows DEF ShapeInv

\* A step that starts no scope and throws nothing.
LEMMA ShapeCalls ==
    ASSUME ShapeInv, NEW t \in Threads, stack[t] # <<>>,
           Popped(t) \/ (\E f : Moved(t, f)) \/ (\E f, g : Called(t, f, g)),
           UNCHANGED <<pool, main, pooled>>,
           analyzedScopes' \in [Scopes -> {"absent", "pending", "done"}],
           analyzedSubroutines' \subseteq DOMAIN Subs, visitedNonProcCalls' \subseteq DOMAIN Subs
    PROVE  ShapeInv'
<1>1. UNCHANGED <<tasks, pendingException>>
  BY DEF pool
<1> QED
  BY <1>1, ShapeFollows DEF ShapeInv

LEMMA ShapeThreadStep ==
    ASSUME ShapeInv, NEW t \in Threads, Step(t)
    PROVE  ShapeInv'
<1>0. UNCHANGED pooled
  BY DEF Step, design
<1>1. CASE VisitMember(t)
  BY <1>0, <1>1, ShapeMember
<1>2. CASE MemberThrows(t)
  BY <1>0, <1>2, AtTop, OtherSteps, ShapeThrow DEF MemberThrows
<1>3. CASE NoteInstance(t)
  BY <1>0, <1>3, AtTop, OtherSteps, ShapeCalls DEF NoteInstance, maps, ShapeInv
<1>4. CASE PublishScope(t)
  <2>1. analyzedScopes' \in [Scopes -> {"absent", "pending", "done"}]
    BY <1>4 DEF PublishScope, ShapeInv
  <2> QED
    BY <1>0, <1>4, <2>1, AtTop, OtherSteps, ShapeCalls DEF PublishScope, ShapeInv
<1>5. CASE NotifyScope(t)
  BY <1>0, <1>5, AtTop, OtherSteps, ShapeCalls DEF NotifyScope, maps, ShapeInv
<1>6. CASE LookupSubroutine(t)
  BY <1>0, <1>6, AtTop, SubroutineSteps, ShapeCalls DEF LookupSubroutine, maps, ShapeInv
<1>7. CASE AnalyzeProcedure(t)
  <2>1. stack[t] # <<>>
    BY <1>7 DEF AnalyzeProcedure, At
  <2>2. CASE Top(t).item \in throwing
    BY <1>0, <1>7, <2>1, <2>2, SubroutineSteps, ShapeThrow
  <2>3. CASE Top(t).item \notin throwing
    <3>1. /\ UNCHANGED <<analyzedScopes, analyzedSubroutines, visitedNonProcCalls, pool, main>>
          /\ Moved(t, [Top(t) EXCEPT !.pc = "emplace"])
      BY <1>7, <2>3, SubroutineSteps DEF AnalyzeProcedure
    <3> QED
      BY <1>0, <2>1, <3>1, ShapeCalls DEF ShapeInv
  <2> QED
    BY <2>2, <2>3
<1>8. CASE EmplaceSubroutine(t)
  <2>1. /\ stack[t] # <<>> /\ Top(t).item \in DOMAIN Subs
    BY <1>8, AtTop DEF EmplaceSubroutine, FrameOK
  <2>2. /\ analyzedSubroutines' \subseteq DOMAIN Subs
        /\ UNCHANGED <<analyzedScopes, visitedNonProcCalls, pool, main>>
    BY <1>8, <2>1 DEF EmplaceSubroutine, ShapeInv
  <2> QED
    BY <1>0, <1>8, <2>1, <2>2, SubroutineSteps, ShapeCalls DEF ShapeInv
<1>9. CASE AddSubroutineDrivers(t)
  BY <1>0, <1>9, AtTop, SubroutineSteps, ShapeCalls DEF AddSubroutineDrivers, maps, ShapeInv
<1>10. CASE NotifySubroutine(t)
  BY <1>0, <1>10, AtTop, SubroutineSteps, ShapeCalls DEF NotifySubroutine, maps, ShapeInv
<1>11. CASE NextTaskCall(t)
  BY <1>0, <1>11, AtTop, TimingSteps, ShapeCalls DEF NextTaskCall, maps, ShapeInv
<1>12. CASE VisitTask(t)
  BY <1>0, <1>12, AtTop, TimingSteps, ShapeCalls DEF VisitTask, maps, ShapeInv
<1>13. CASE CollectControls(t)
  BY <1>0, <1>13, AtTop, TimingSteps, ShapeCalls DEF CollectControls, maps, ShapeInv
<1>14. CASE VisitCall(t)
  <2>1. /\ stack[t] # <<>> /\ Top(t) \in Frames /\ Top(t).todo # <<>>
    BY <1>14, AtTop DEF VisitCall
  <2>2. Head(Top(t).todo) \in DOMAIN Subs
    BY <2>1, HeadOfCalls DEF Frames
  <2>3. /\ visitedNonProcCalls' \subseteq DOMAIN Subs
        /\ UNCHANGED <<analyzedScopes, analyzedSubroutines, pool, main>>
    BY <1>14, <2>2 DEF VisitCall, ShapeInv
  <2> QED
    BY <1>0, <1>14, <2>1, <2>3, WalkSteps, ShapeCalls DEF ShapeInv
<1>15. CASE CollectDrivers(t)
  BY <1>0, <1>15, AtTop, WalkSteps, ShapeCalls DEF CollectDrivers, maps, ShapeInv
<1>16. CASE FinishCaller(t)
  BY <1>0, <1>16, AtTop, WalkSteps, ShapeCalls DEF FinishCaller, maps, ShapeInv
<1>17. CASE AnalyzeResolution(t)
  BY <1>0, <1>17, AtTop, OtherSteps, ShapeCalls DEF AnalyzeResolution, maps, ShapeInv
<1>18. CASE CheckNetType(t)
  BY <1>0, <1>18, AtTop, OtherSteps, ShapeCalls DEF CheckNetType, maps, ShapeInv
<1> QED
  BY <1>1, <1>2, <1>3, <1>4, <1>5, <1>6, <1>7, <1>8, <1>9, <1>10, <1>11, <1>12, <1>13, <1>14,
     <1>15, <1>16, <1>17, <1>18 DEF Step

LEMMA ShapeStep == ShapeInv /\ [Next]_vars => ShapeInv'
<1> SUFFICES ASSUME ShapeInv, [Next]_vars PROVE ShapeInv'
  OBVIOUS
<1>1. CASE AnalyzeRoot
  <2>1. /\ Main \in Threads /\ stack[Main] = <<>> /\ main.pc = "analyze"
        /\ Roots[main.pos] \in Scopes /\ AnalyzeScopeAsync(Main, Roots[main.pos], <<>>)
        /\ main' = [main EXCEPT !.pos = @ + 1]
        /\ UNCHANGED <<analyzedSubroutines, visitedNonProcCalls, pendingException, pooled>>
    BY <1>1, TaskSteps DEF AnalyzeRoot, design
  <2>2. /\ tasks' \in Seq(Scopes) /\ (~pooled => tasks' = tasks)
        /\ analyzedScopes' \in [Scopes -> {"absent", "pending", "done"}]
    BY <2>1, ShapeAsync
  <2>3. main' \in [pc : {"analyze", "threw", "done"}, pos : Nat \ {0}] /\ main'.pc # "done"
    BY <2>1 DEF ShapeInv
  <2>4. /\ stack' \in Stacks /\ \A u \in Threads : StackOK(stack'[u])
        /\ \A u \in Threads \ {Main} : stack'[u] = stack[u]
    <3>1. CASE stack' = stack
      BY <3>1 DEF ShapeInv
    <3>2. CASE Entered(Main, ScopeFrame(Roots[main.pos]))
      BY <2>1, <3>2, StacksKept DEF Entered, Others
    <3> QED
      BY <1>1, <3>1, <3>2, TaskSteps
  <2>5. \A u \in Workers : u \in Threads \ {Main}
    BY ThreadsOK DEF Threads
  <2> QED
    BY <2>1, <2>2, <2>3, <2>4, <2>5 DEF ShapeInv, Done
<1>2. CASE Wait
  <2>1. /\ UNCHANGED <<stack, tasks, pendingException, pooled, analyzedScopes,
                       analyzedSubroutines, visitedNonProcCalls>>
        /\ tasks = <<>> /\ \A t \in Threads : stack[t] = <<>>
    BY <1>2 DEF Wait, maps, pool, design, Threads
  <2>2. /\ main' \in [pc : {"analyze", "threw", "done"}, pos : Nat \ {0}]
        /\ main'.pc = "done" => ~pendingException
    BY <1>2 DEF Wait, ShapeInv
  <2> QED
    BY <2>1, <2>2 DEF ShapeInv, Done
<1>3. ASSUME NEW t \in Workers, TakeTask(t)
      PROVE  ShapeInv'
  <2>1. /\ t \in Threads /\ tasks # <<>> /\ tasks' \in Seq(Scopes)
        /\ Entered(t, ScopeFrame(tasks[1]))
        /\ UNCHANGED <<pendingException, pooled, main, analyzedScopes, analyzedSubroutines,
                       visitedNonProcCalls>>
    BY <1>3, TaskSteps DEF TakeTask, maps, design
  <2>2. stack' \in Stacks /\ \A u \in Threads : StackOK(stack'[u])
    BY <2>1, StacksKept
  <2> QED
    BY <2>1, <2>2 DEF ShapeInv, Done
<1>4. CASE UNCHANGED vars
  BY <1>4 DEF vars, maps, pool, design, ShapeInv, Done
<1> QED
  BY <1>1, <1>2, <1>3, <1>4, ShapeThreadStep DEF Next, Stutter
-----------------------------------------------------------------------------
(***************************************************************************)
(* Subroutines.  Between the publication of an analysis and the last call  *)
(* of its listeners one thread, and only one, is at work for it.           *)
(***************************************************************************)
Adding(t, f) == At(t, "sub", "add") /\ Top(t).item = f

Notifying(t, f) == At(t, "sub", "notify") /\ Top(t).item = f

Publishing(t, f) == Adding(t, f) \/ Notifying(t, f)

OnceInv ==
    /\ driverAdds \in [DOMAIN Subs -> Nat] /\ procCalls \in [DOMAIN Subs -> Nat]
    /\ \A f \in DOMAIN Subs :
           /\ \A t \in Threads : Publishing(t, f) => f \in analyzedSubroutines
           /\ \A t, u \in Threads : Publishing(t, f) /\ Publishing(u, f) => t = u
           /\ f \notin analyzedSubroutines => driverAdds[f] = 0 /\ procCalls[f] = 0
           /\ f \in analyzedSubroutines =>
                  /\ driverAdds[f] = IF \E t \in Threads : Adding(t, f) THEN 0 ELSE 1
                  /\ procCalls[f] = IF \E t \in Threads : Publishing(t, f) THEN 0 ELSE 1

Quiet(t) == ~At(t, "sub", "add") /\ ~At(t, "sub", "notify")

LEMMA OthersSame ==
    ASSUME NEW t \in Threads, Others(t), NEW u \in Threads \ {t}
    PROVE  /\ \A fn, pc : At(u, fn, pc)' <=> At(u, fn, pc)
           /\ Top(u)' = Top(u)
  BY DEF Others, At, Top

LEMMA TopAfter ==
    ASSUME ShapeInv, NEW t \in Threads
    PROVE  /\ Popped(t) => \A pc : ~At(t, "sub", pc)'
           /\ Cleared(t) => \A fn, pc : ~At(t, fn, pc)'
           /\ \A f : Moved(t, f) \/ Entered(t, f) => stack'[t] # <<>> /\ Top(t)' = f
           /\ \A f, g : Called(t, f, g) => stack'[t] # <<>> /\ Top(t)' = g
           /\ \A f, g, e : CalledTwo(t, f, g, e) => stack'[t] # <<>> /\ Top(t)' = e
<1>1. ASSUME Popped(t)
      PROVE  \A pc : ~At(t, "sub", pc)'
  <2>1. PICK n \in Nat : Pops(stack[t], stack'[t], n)
    BY <1>1 DEF Popped
  <2>2. CASE n = 0
    <3>1. stack'[t] = <<>>
      BY <2>1, <2>2, EmptySeq DEF Pops, Keeps
    <3> QED
      BY <3>1 DEF At
  <2>3. CASE n # 0
    <3>1. /\ n \in 1 .. n /\ n + 1 \in 1 .. n + 1 /\ n + 1 > 1 /\ n + 1 - 1 = n
      BY <2>3
    <3>2. Len(stack[t]) = n + 1 /\ Len(stack'[t]) = n /\ stack'[t][n] = stack[t][n]
      BY <2>1, <3>1 DEF Pops, Keeps
    <3>3. Awaits(stack[t][n], stack[t][n + 1])
      <4>1. StackOK(stack[t])
        BY DEF ShapeInv
      <4>2. \A h \in 1 .. n + 1 : h > 1 => Awaits(stack[t][h - 1], stack[t][h])
        BY <3>2, <4>1 DEF StackOK
      <4>3. n + 1 > 1 => Awaits(stack[t][n + 1 - 1], stack[t][n + 1])
        BY <3>1, <4>2
      <4> QED
        BY <3>1, <4>3
    <3>4. stack[t][n].fn # "sub"
      BY <3>3 DEF Awaits
    <3> QED
      BY <3>2, <3>4 DEF At, Top
  <2> QED
    BY <2>2, <2>3
<1>2. ASSUME Cleared(t)
      PROVE  \A fn, pc : ~At(t, fn, pc)'
  BY <1>2 DEF Cleared, At
<1>3. ASSUME NEW f, Moved(t, f)
      PROVE  stack'[t] # <<>> /\ Top(t)' = f
  <2>1. PICK n \in Nat : Moves(stack[t], stack'[t], n, f)
    BY <1>3 DEF Moved
  <2>2. stack'[t] # <<>>
    BY <2>1, EmptySeq DEF Moves, Keeps
  <2> QED
    BY <2>1, <2>2 DEF Moves, Top
<1>4. ASSUME NEW f, Entered(t, f)
      PROVE  stack'[t] # <<>> /\ Top(t)' = f
  <2>1. stack'[t] \in Seq(Frames) /\ Len(stack'[t]) = 1 /\ stack'[t][1] = f
    BY <1>4 DEF Entered, Others, Stacks
  <2>2. stack'[t] # <<>>
    BY <2>1, EmptySeq
  <2> QED
    BY <2>1, <2>2 DEF Top
<1>5. ASSUME NEW f, NEW g, Called(t, f, g)
      PROVE  stack'[t] # <<>> /\ Top(t)' = g
  <2>1. PICK n \in Nat : Pushes(stack[t], stack'[t], n, f, g)
    BY <1>5 DEF Called
  <2>2. stack'[t] # <<>>
    BY <2>1, EmptySeq DEF Pushes, Keeps
  <2> QED
    BY <2>1, <2>2 DEF Pushes, Top
<1>6. ASSUME NEW f, NEW g, NEW e, CalledTwo(t, f, g, e)
      PROVE  stack'[t] # <<>> /\ Top(t)' = e
  <2>1. PICK n \in Nat : PushesTwo(stack[t], stack'[t], n, f, g, e)
    BY <1>6 DEF CalledTwo
  <2>2. stack'[t] # <<>>
    BY <2>1, EmptySeq DEF PushesTwo, Keeps
  <2> QED
    BY <2>1, <2>2 DEF PushesTwo, Top
<1> QED
  BY <1>1, <1>2, <1>3, <1>4, <1>5, <1>6

LEMMA OnceKept ==
    ASSUME OnceInv, NEW t \in Threads, Others(t), Quiet(t), Quiet(t)',
           UNCHANGED <<analyzedSubroutines, driverAdds, procCalls>>
    PROVE  OnceInv'
<1>1. \A u \in Threads, f \in DOMAIN Subs :
          /\ Adding(u, f)' <=> Adding(u, f)
          /\ Notifying(u, f)' <=> Notifying(u, f)
  <2> SUFFICES ASSUME NEW u \in Threads, NEW f \in DOMAIN Subs
               PROVE  /\ Adding(u, f)' <=> Adding(u, f)
                      /\ Notifying(u, f)' <=> Notifying(u, f)
    OBVIOUS
  <2>1. CASE u = t
    BY <2>1 DEF Quiet, Adding, Notifying
  <2>2. CASE u # t
    <3>1. /\ \A fn, pc : At(u, fn, pc)' <=> At(u, fn, pc)
          /\ Top(u)' = Top(u)
      BY <2>2, OthersSame
    <3> QED
      BY <3>1 DEF Adding, Notifying
  <2> QED
    BY <2>1, <2>2
<1> QED
  BY <1>1 DEF OnceInv, Publishing

\* The steps of a thread that is not publishing, and does not begin to.
LEMMA QuietStep ==
    ASSUME ShapeInv, NEW t \in Threads, Quiet(t),
           \/ Popped(t) \/ Cleared(t)
           \/ \E f : (Moved(t, f) \/ Entered(t, f)) /\ ~(f.fn = "sub" /\ f.pc \in {"add", "notify"})
           \/ \E f, g : Called(t, f, g) /\ ~(g.fn = "sub" /\ g.pc \in {"add", "notify"})
           \/ \E f, g, e : CalledTwo(t, f, g, e) /\ ~(e.fn = "sub" /\ e.pc \in {"add", "notify"}),
           UNCHANGED <<analyzedSubroutines, driverAdds, procCalls>>, OnceInv
    PROVE  OnceInv'
<1>1. Others(t)
  BY DEF Popped, Cleared, Moved, Entered, Called, CalledTwo
<1>2. Quiet(t)'
  BY TopAfter DEF Quiet, At
<1> QED
  BY <1>1, <1>2, OnceKept

\* The calls that a thread begins, and the ones it goes on with.
Plain(f) == (f.fn = "sub" => f.pc = "lookup") /\ (f.fn = "nettype" => f.pc = "analyze")

Begins(t) ==
    \/ \E f : (Moved(t, f) \/ Entered(t, f)) /\ Plain(f)
    \/ \E f, g : Called(t, f, g) /\ Plain(g)
    \/ \E f, g, e : CalledTwo(t, f, g, e) /\ Plain(e)

LEMMA MemberBegins ==
    ASSUME ShapeInv, NEW t \in Threads, VisitMember(t)
    PROVE  Begins(t) /\ Quiet(t) /\ Top(t).fn = "scope" /\ Top(t).pc = "members"
<1> DEFINE f == Top(t)
           m == NextMember(f)
<1>1. /\ stack[t] # <<>> /\ f \in Frames /\ FrameOK(f) /\ f.fn = "scope" /\ f.pc = "members"
      /\ f.pos <= Len(Members[f.item])
  BY AtTop DEF VisitMember
<1>2. /\ m \in AllMembers /\ PastMember(f).fn = "scope"
  BY <1>1, ScopeTop
<1>3. MemberSteps(t)
  BY MemberStep
<1>4. Quiet(t)
  BY <1>1 DEF Quiet, At
<1>5. ASSUME m.kind \notin {"scope", "inst"}, m.kind = "expr" => ~m.timing
      PROVE  Plain(MemberFrame(m))
  <2>1. CASE m.kind = "sub"
    BY <2>1 DEF MemberFrame, Frame, Plain
  <2>2. CASE m.kind = "nettype"
    BY <2>2 DEF MemberFrame, Frame, Plain
  <2>3. CASE m.kind \notin {"sub", "nettype"}
    BY <1>2, <1>5, <2>3, NewMember DEF Plain
  <2> QED
    BY <2>1, <2>2, <2>3
<1>6. m.kind = "inst" => Plain(MemberFrame(m))
  BY DEF MemberFrame, Frame, Plain
<1>7. /\ \A s : Plain(ScopeFrame(s))
      /\ \A g : g.fn = "scope" => Plain(g)
  BY DEF ScopeFrame, Frame, Plain
<1>8. Begins(t)
  <2> HIDE DEF f, m
  <2>1. CASE m.kind = "scope"
    BY <1>2, <1>3, <1>7, <2>1 DEF MemberSteps, Begins, f, m
  <2>2. CASE m.kind = "inst"
    BY <1>3, <1>6, <1>7, <2>2 DEF MemberSteps, Begins, f, m
  <2>3. CASE m.kind \notin {"scope", "inst"}
    BY <1>3, <1>5, <2>3 DEF MemberSteps, Begins, f, m
  <2> QED
    BY <2>1, <2>2, <2>3
<1> QED
  BY <1>1, <1>4, <1>8

LEMMA BeginsQuietly ==
    ASSUME ShapeInv, OnceInv, NEW t \in Threads, Quiet(t), Begins(t),
           UNCHANGED <<analyzedSubroutines, driverAdds, procCalls>>
    PROVE  OnceInv'
<1>1. \A f : Plain(f) => ~(f.fn = "sub" /\ f.pc \in {"add", "notify"})
  BY DEF Plain
<1> QED
  BY <1>1, QuietStep DEF Begins

LEMMA CallsBegin ==
    ASSUME ShapeInv, NEW t \in Threads,
           \/ NextTaskCall(t) \/ VisitTask(t) \/ CollectControls(t)
           \/ VisitCall(t) \/ CollectDrivers(t) \/ AnalyzeResolution(t) \/ PublishScope(t)
    PROVE  /\ Begins(t) /\ Quiet(t) /\ stack[t] # <<>> /\ Top(t).fn # "sub"
           /\ UNCHANGED <<analyzedSubroutines, analyzedAssertions, driverAdds, procCalls, netTypes>>
<1>1. Quiet(t) /\ Top(t).fn # "sub" /\ stack[t] # <<>>
  BY DEF NextTaskCall, VisitTask, CollectControls, VisitCall, CollectDrivers,
         AnalyzeResolution, PublishScope, Quiet, At
<1>2. \/ \E g : Moved(t, g)
      \/ \E g, h : Called(t, g, Frame("sub", h, "lookup", <<>>))
  BY TimingSteps, WalkSteps, OtherSteps
<1>3. \A h : Plain(Frame("sub", h, "lookup", <<>>))
  BY DEF Frame, Plain
<1>4. ASSUME NEW g, Moved(t, g)
      PROVE  Begins(t)
  <2>1. CASE AnalyzeResolution(t)
    BY <1>3, <2>1, OtherSteps DEF Begins
  <2>2. CASE ~AnalyzeResolution(t)
    <3>1. Top(t).fn # "nettype"
      BY <2>2 DEF NextTaskCall, VisitTask, CollectControls, VisitCall, CollectDrivers,
                  PublishScope, At
    <3>2. Plain(g)
      BY <1>1, <1>4, <3>1 DEF Moved, Plain
    <3> QED
      BY <1>4, <3>2 DEF Begins
  <2> QED
    BY <2>1, <2>2
<1>5. Begins(t)
  BY <1>2, <1>3, <1>4 DEF Begins
<1>6. UNCHANGED <<analyzedSubroutines, analyzedAssertions, driverAdds, procCalls, netTypes>>
  BY DEF NextTaskCall, VisitTask, CollectControls, VisitCall, CollectDrivers,
         AnalyzeResolution, PublishScope, maps, effects
<1> QED
  BY <1>1, <1>5, <1>6

LEMMA TaskBegins ==
    ASSUME ShapeInv, NEW t \in Threads, NEW s, Entered(t, ScopeFrame(s))
    PROVE  Begins(t) /\ Quiet(t)
<1>1. Plain(ScopeFrame(s))
  BY DEF ScopeFrame, Frame, Plain
<1>2. Quiet(t)
  BY DEF Entered, Quiet, At
<1> QED
  BY <1>1, <1>2 DEF Begins

\* The publication of an analysis: the first to insert it has it.
LEMMA OnceEmplace ==
    ASSUME ShapeInv, OnceInv, NEW t \in Threads, EmplaceSubroutine(t)
    PROVE  OnceInv'
<1> DEFINE f == Top(t).item
           g == [Top(t) EXCEPT !.pc = "add"]
<1>1. /\ stack[t] # <<>> /\ Top(t) \in Frames /\ FrameOK(Top(t)) /\ Top(t).fn = "sub"
      /\ Top(t).pc = "emplace" /\ f \in DOMAIN Subs
  BY AtTop DEF EmplaceSubroutine, FrameOK
<1>2. Quiet(t)
  BY <1>1 DEF Quiet, At
<1>3. /\ UNCHANGED <<driverAdds, procCalls>>
      /\ analyzedSubroutines' = analyzedSubroutines \cup {f}
  BY DEF EmplaceSubroutine, effects
<1>4. CASE f \in analyzedSubroutines
  <2>1. Popped(t)
    BY <1>4, SubroutineSteps
  <2>2. analyzedSubroutines' = analyzedSubroutines
    BY <1>3, <1>4
  <2> QED
    BY <1>2, <1>3, <2>1, <2>2, QuietStep
<1>5. CASE f \notin analyzedSubroutines
  <2>1. Moved(t, g)
    BY <1>5, SubroutineSteps
  <2>2. g.fn = "sub" /\ g.item = f /\ g.pc = "add"
    BY <1>1 DEF Frames
  <2> HIDE DEF g
  <2>3. stack'[t] # <<>> /\ Top(t)' = g
    BY <2>1, TopAfter
  <2>4. \A h : (Adding(t, h)' <=> h = f) /\ ~Notifying(t, h)'
    BY <2>2, <2>3 DEF Adding, Notifying, At
  <2>5. \A u \in Threads \ {t} : \A h : /\ Adding(u, h)' <=> Adding(u, h)
                                        /\ Notifying(u, h)' <=> Notifying(u, h)
    BY <2>1, OthersSame DEF Moved, Adding, Notifying
  <2>6. \A h : ~Adding(t, h) /\ ~Notifying(t, h)
    BY <1>2 DEF Quiet, Adding, Notifying
  <2>7. \A u \in Threads : ~Adding(u, f) /\ ~Notifying(u, f)
    BY <1>1, <1>5 DEF OnceInv, Publishing
  <2>8. \A h \in DOMAIN Subs \ {f} :
            /\ (\E u \in Threads : Adding(u, h)') <=> \E u \in Threads : Adding(u, h)
            /\ (\E u \in Threads : Publishing(u, h)') <=> \E u \in Threads : Publishing(u, h)
            /\ h \in analyzedSubroutines' <=> h \in analyzedSubroutines
    BY <1>3, <2>4, <2>5, <2>6 DEF Publishing
  <2> HIDE DEF f
  <2>9. ASSUME NEW h \in DOMAIN Subs
        PROVE  /\ \A u \in Threads : Publishing(u, h)' => h \in analyzedSubroutines'
               /\ \A u, v \in Threads : Publishing(u, h)' /\ Publishing(v, h)' => u = v
               /\ h \notin analyzedSubroutines' => driverAdds'[h] = 0 /\ procCalls'[h] = 0
               /\ h \in analyzedSubroutines' =>
                      /\ driverAdds'[h] = IF \E u \in Threads : Adding(u, h)' THEN 0 ELSE 1
                      /\ procCalls'[h] = IF \E u \in Threads : Publishing(u, h)' THEN 0 ELSE 1
    <3>1. CASE h = f
      <4>1. \A u \in Threads : Publishing(u, h)' <=> u = t
        BY <2>4, <2>5, <2>7, <3>1 DEF Publishing
      <4>2. Adding(t, h)' /\ h \in analyzedSubroutines'
        BY <1>3, <2>4, <3>1
      <4>3. driverAdds'[h] = 0 /\ procCalls'[h] = 0
        BY <1>1, <1>3, <1>5, <3>1 DEF OnceInv, f
      <4> QED
        BY <4>1, <4>2, <4>3
    <3>2. CASE h # f
      <4>1. \A u \in Threads : Publishing(u, h)' <=> Publishing(u, h)
        BY <2>4, <2>5, <2>6, <3>2 DEF Publishing
      <4> QED
        BY <1>3, <2>8, <3>2, <4>1 DEF OnceInv
    <3> QED
      BY <3>1, <3>2
  <2> QED
    BY <1>3, <2>9 DEF OnceInv
<1> QED
  BY <1>4, <1>5

LEMMA OnceAdd ==
    ASSUME ShapeInv, OnceInv, NEW t \in Threads, AddSubroutineDrivers(t)
    PROVE  OnceInv'
<1> DEFINE f == Top(t).item
           g == [Top(t) EXCEPT !.pc = "notify"]
<1>1. /\ stack[t] # <<>> /\ Top(t) \in Frames /\ FrameOK(Top(t)) /\ Top(t).fn = "sub"
      /\ Top(t).pc = "add" /\ f \in DOMAIN Subs
  BY AtTop DEF AddSubroutineDrivers, FrameOK
<1>2. Moved(t, g)
  BY SubroutineSteps
<1>3. g.fn = "sub" /\ g.item = f /\ g.pc = "notify"
  BY <1>1 DEF Frames
<1>4. /\ UNCHANGED <<analyzedSubroutines, procCalls>>
      /\ driverAdds' = [driverAdds EXCEPT ![f] = @ + 1]
  BY DEF AddSubroutineDrivers, maps
<1>5. /\ \A h : Adding(t, h) <=> h = f
      /\ \A h : ~Notifying(t, h)
  BY <1>1 DEF Adding, Notifying, At
<1> HIDE DEF f, g
<1>6. stack'[t] # <<>> /\ Top(t)' = g
  BY <1>2, TopAfter
<1>7. \A h : (Notifying(t, h)' <=> h = f) /\ ~Adding(t, h)'
  BY <1>3, <1>6 DEF Adding, Notifying, At
<1>8. \A u \in Threads \ {t} : \A h : /\ Adding(u, h)' <=> Adding(u, h)
                                      /\ Notifying(u, h)' <=> Notifying(u, h)
  BY <1>2, OthersSame DEF Moved, Adding, Notifying
<1>9. \A u \in Threads, h \in DOMAIN Subs : Publishing(u, h)' <=> Publishing(u, h)
  BY <1>5, <1>7, <1>8 DEF Publishing
<1>10. Publishing(t, f) /\ f \in analyzedSubroutines /\ driverAdds[f] = 0
  BY <1>1, <1>5 DEF OnceInv, Publishing
<1>11. /\ driverAdds' \in [DOMAIN Subs -> Nat] /\ driverAdds'[f] = 1
       /\ \A h \in DOMAIN Subs \ {f} : driverAdds'[h] = driverAdds[h]
  BY <1>1, <1>4, <1>10 DEF OnceInv
<1>12. ASSUME NEW h \in DOMAIN Subs, h \in analyzedSubroutines'
       PROVE  /\ driverAdds'[h] = IF \E u \in Threads : Adding(u, h)' THEN 0 ELSE 1
              /\ procCalls'[h] = IF \E u \in Threads : Publishing(u, h)' THEN 0 ELSE 1
  <2>1. procCalls'[h] = IF \E u \in Threads : Publishing(u, h)' THEN 0 ELSE 1
    BY <1>4, <1>9, <1>12 DEF OnceInv
  <2>2. CASE h = f
    <3>1. \A u \in Threads : Publishing(u, f) => u = t
      BY <1>1, <1>10 DEF OnceInv, f
    <3>2. ~\E u \in Threads : Adding(u, h)'
      BY <1>7, <1>8, <2>2, <3>1 DEF Publishing
    <3> QED
      BY <1>11, <2>1, <2>2, <3>2
  <2>3. CASE h # f
    <3>1. (\E u \in Threads : Adding(u, h)') <=> \E u \in Threads : Adding(u, h)
      BY <1>5, <1>7, <1>8, <2>3
    <3> QED
      BY <1>4, <1>11, <1>12, <2>1, <2>3, <3>1 DEF OnceInv
  <2> QED
    BY <2>2, <2>3
<1>13. \A h \in DOMAIN Subs : h \notin analyzedSubroutines' => driverAdds'[h] = 0 /\ procCalls'[h] = 0
  BY <1>4, <1>10, <1>11 DEF OnceInv
<1> QED
  BY <1>4, <1>9, <1>11, <1>12, <1>13 DEF OnceInv

LEMMA OnceNotify ==
    ASSUME ShapeInv, OnceInv, NEW t \in Threads, NotifySubroutine(t)
    PROVE  OnceInv'
<1> DEFINE f == Top(t).item
<1>1. /\ stack[t] # <<>> /\ Top(t) \in Frames /\ FrameOK(Top(t)) /\ Top(t).fn = "sub"
      /\ Top(t).pc = "notify" /\ f \in DOMAIN Subs
  BY AtTop DEF NotifySubroutine, FrameOK
<1>2. Popped(t)
  BY SubroutineSteps
<1>3. /\ UNCHANGED <<analyzedSubroutines, driverAdds>>
      /\ procCalls' = [procCalls EXCEPT ![f] = @ + 1]
  BY DEF NotifySubroutine, maps
<1>4. /\ \A h : Notifying(t, h) <=> h = f
      /\ \A h : ~Adding(t, h)
  BY <1>1 DEF Adding, Notifying, At
<1> HIDE DEF f
<1>5. \A h : ~Notifying(t, h)' /\ ~Adding(t, h)'
  BY <1>2, TopAfter DEF Adding, Notifying
<1>6. \A u \in Threads \ {t} : \A h : /\ Adding(u, h)' <=> Adding(u, h)
                                      /\ Notifying(u, h)' <=> Notifying(u, h)
  BY <1>2, OthersSame DEF Popped, Adding, Notifying
<1>7. Publishing(t, f) /\ f \in analyzedSubroutines /\ procCalls[f] = 0
  BY <1>1, <1>4 DEF OnceInv, Publishing
<1>8. /\ procCalls' \in [DOMAIN Subs -> Nat] /\ procCalls'[f] = 1
      /\ \A h \in DOMAIN Subs \ {f} : procCalls'[h] = procCalls[h]
  BY <1>1, <1>3, <1>7 DEF OnceInv
<1>9. \A u \in Threads, h \in DOMAIN Subs :
          /\ Adding(u, h)' <=> Adding(u, h)
          /\ Publishing(u, h)' => Publishing(u, h)
          /\ h # f => (Publishing(u, h) => Publishing(u, h)')
  BY <1>4, <1>5, <1>6 DEF Publishing
<1>10. ASSUME NEW h \in DOMAIN Subs, h = f
       PROVE  ~\E u \in Threads : Publishing(u, h)'
  <2>1. \A u \in Threads : Publishing(u, h) => u = t
    BY <1>7, <1>10 DEF OnceInv
  <2>2. \A u \in Threads : Publishing(u, h)' => Publishing(u, h)
    BY <1>9
  <2>3. ~Publishing(t, h)'
    BY <1>5 DEF Publishing
  <2> QED
    BY <2>1, <2>2, <2>3
<1>11. ASSUME NEW h \in DOMAIN Subs, h \in analyzedSubroutines'
       PROVE  /\ driverAdds'[h] = IF \E u \in Threads : Adding(u, h)' THEN 0 ELSE 1
              /\ procCalls'[h] = IF \E u \in Threads : Publishing(u, h)' THEN 0 ELSE 1
  <2>1. driverAdds'[h] = IF \E u \in Threads : Adding(u, h)' THEN 0 ELSE 1
    <3>1. (\E u \in Threads : Adding(u, h)') <=> \E u \in Threads : Adding(u, h)
      BY <1>9
    <3> QED
      BY <1>3, <1>11, <3>1 DEF OnceInv
  <2>2. CASE h = f
    BY <1>8, <1>10, <2>1, <2>2
  <2>3. CASE h # f
    <3>1. (\E u \in Threads : Publishing(u, h)') <=> \E u \in Threads : Publishing(u, h)
      BY <1>9, <2>3
    <3> QED
      BY <1>3, <1>8, <1>11, <2>1, <2>3, <3>1 DEF OnceInv
  <2> QED
    BY <2>2, <2>3
<1>12. \A h \in DOMAIN Subs : h \notin analyzedSubroutines' => driverAdds'[h] = 0 /\ procCalls'[h] = 0
  BY <1>3, <1>7, <1>8 DEF OnceInv
<1> QED
  BY <1>3, <1>8, <1>9, <1>11, <1>12 DEF OnceInv

\* The other steps of a thread do not publish.
LEMMA OnceThreadStep ==
    ASSUME ShapeInv, OnceInv, NEW t \in Threads, Step(t)
    PROVE  OnceInv'
<1>1. CASE VisitMember(t)
  BY <1>1, MemberBegins, BeginsQuietly DEF VisitMember, maps, effects
<1>2. CASE MemberThrows(t)
  <2>1. Cleared(t) /\ Throw(t) /\ Quiet(t)
    BY <1>2, AtTop, OtherSteps DEF MemberThrows, Quiet, At
  <2> QED
    BY <2>1, QuietStep DEF Throw, maps, effects
<1>3. CASE NoteInstance(t) \/ NotifyScope(t) \/ CheckNetType(t) \/ FinishCaller(t)
  <2>1. Popped(t) /\ Quiet(t)
    BY <1>3, OtherSteps, WalkSteps
       DEF NoteInstance, NotifyScope, CheckNetType, FinishCaller, Quiet, At
  <2>2. UNCHANGED <<analyzedSubroutines, driverAdds, procCalls>>
    BY <1>3 DEF NoteInstance, NotifyScope, CheckNetType, FinishCaller, maps
  <2> QED
    BY <2>1, <2>2, QuietStep
<1>5. CASE LookupSubroutine(t) \/ AnalyzeProcedure(t)
  <2>1. Top(t) \in Frames /\ Quiet(t)
    BY <1>5, AtTop DEF LookupSubroutine, AnalyzeProcedure, Quiet, At
  <2>2. \/ Popped(t) \/ Cleared(t)
        \/ \E pc \in {"analyze", "emplace"} : Moved(t, [Top(t) EXCEPT !.pc = pc])
    BY <1>5, SubroutineSteps
  <2>3. \A pc : [Top(t) EXCEPT !.pc = pc].pc = pc
    BY <2>1 DEF Frames
  <2>4. Popped(t) \/ Cleared(t) \/ \E g : Moved(t, g) /\ ~(g.pc \in {"add", "notify"})
    BY <2>2, <2>3
  <2>5. UNCHANGED <<analyzedSubroutines, driverAdds, procCalls>>
    BY <1>5 DEF LookupSubroutine, AnalyzeProcedure, Throw, maps, effects
  <2> QED
    BY <2>1, <2>4, <2>5, QuietStep
<1>6. CASE EmplaceSubroutine(t)
  BY <1>6, OnceEmplace
<1>7. CASE AddSubroutineDrivers(t)
  BY <1>7, OnceAdd
<1>8. CASE NotifySubroutine(t)
  BY <1>8, OnceNotify
<1>4. CASE \/ NextTaskCall(t) \/ VisitTask(t) \/ CollectControls(t)
           \/ VisitCall(t) \/ CollectDrivers(t) \/ AnalyzeResolution(t) \/ PublishScope(t)
  BY <1>4, CallsBegin, BeginsQuietly
<1> QED
  BY <1>1, <1>2, <1>3, <1>4, <1>5, <1>6, <1>7, <1>8 DEF Step

LEMMA OnceInit == Init => OnceInv
<1> SUFFICES ASSUME Init PROVE OnceInv
  OBVIOUS
<1>1. \A t \in Threads : \A fn, pc : ~At(t, fn, pc)
  BY DEF Init, At
<1> QED
  BY <1>1 DEF Init, OnceInv, Publishing, Adding, Notifying

LEMMA OnceStep == ShapeInv /\ OnceInv /\ [Next]_vars => OnceInv'
<1> SUFFICES ASSUME ShapeInv, OnceInv, [Next]_vars PROVE OnceInv'
  OBVIOUS
<1>1. ASSUME UNCHANGED stack, UNCHANGED <<analyzedSubroutines, driverAdds, procCalls>>
      PROVE  OnceInv'
  BY <1>1 DEF OnceInv, Publishing, Adding, Notifying, At, Top
<1>2. ASSUME NEW t \in Threads, NEW s \in Scopes, Entered(t, ScopeFrame(s)),
             UNCHANGED <<analyzedSubroutines, driverAdds, procCalls>>
      PROVE  OnceInv'
  BY <1>2, TaskBegins, BeginsQuietly
<1>3. CASE AnalyzeRoot
  <2>1. UNCHANGED <<analyzedSubroutines, driverAdds, procCalls>>
    BY <1>3 DEF AnalyzeRoot, effects
  <2> QED
    BY <1>1, <1>2, <1>3, <2>1, TaskSteps
<1>4. CASE Wait \/ UNCHANGED vars
  BY <1>1, <1>4 DEF Wait, vars, maps, effects
<1>5. ASSUME NEW t \in Workers, TakeTask(t)
      PROVE  OnceInv'
  <2>1. UNCHANGED <<analyzedSubroutines, driverAdds, procCalls>>
    BY <1>5 DEF TakeTask, maps, effects
  <2> QED
    BY <1>2, <1>5, <2>1, TaskSteps
<1> QED
  BY <1>3, <1>4, <1>5, OnceThreadStep DEF Next, Stutter

\* However many threads analyze a subroutine, its drivers are added and its listeners called
\* at most once, and exactly once when analyze() has returned.
THEOREM PublishedOnce == Spec => []SubroutinesOnce
<1>1. Init => ShapeInv /\ OnceInv
  BY ShapeInit, OnceInit
<1>2. ShapeInv /\ OnceInv /\ [Next]_vars => (ShapeInv /\ OnceInv)'
  BY ShapeStep, OnceStep
<1>3. ASSUME ShapeInv, OnceInv
      PROVE  SubroutinesOnce
  <2> SUFFICES ASSUME NEW f \in DOMAIN Subs
               PROVE  /\ procCalls[f] <= driverAdds[f] /\ driverAdds[f] <= 1
                      /\ Done => /\ procCalls[f] = IF f \in analyzedSubroutines THEN 1 ELSE 0
                                 /\ driverAdds[f] = procCalls[f]
    BY DEF SubroutinesOnce
  <2>1. (\E t \in Threads : Adding(t, f)) => \E t \in Threads : Publishing(t, f)
    BY DEF Publishing
  <2>2. Done => \A t \in Threads : ~Adding(t, f) /\ ~Publishing(t, f)
    BY <1>3 DEF ShapeInv, Publishing, Adding, Notifying, At
  <2> QED
    BY <1>3, <2>1, <2>2 DEF OnceInv
<1> QED
  BY <1>1, <1>2, <1>3, PTL DEF Spec
-----------------------------------------------------------------------------
(***************************************************************************)
(* Without a pool.  Nobody else inserts what Main has looked up, so every  *)
(* analysis is the first one; and what is looked up for a nettype has been *)
(* published when it is checked.                                           *)
(***************************************************************************)
Analyzing(t) == At(t, "sub", "analyze") \/ At(t, "sub", "emplace")

Recorded(f) ==
    analyzedAssertions[f] = 0
        \/ (analyzedAssertions[f] = 1
            /\ (f \in analyzedSubroutines \/ (At(Main, "sub", "emplace") /\ Top(Main).item = f)))

SeqInv ==
    /\ analyzedAssertions \in [DOMAIN Subs -> Nat]
    /\ ~pooled =>
           /\ Analyzing(Main) => Top(Main).item \notin analyzedSubroutines
           /\ \A f \in DOMAIN Subs : Recorded(f)
           /\ At(Main, "nettype", "check") => Head(Top(Main).calls) \in analyzedSubroutines
           /\ NetTypesReported

\* Only a subroutine is waited for by a nettype.
LEMMA Reveals ==
    ASSUME ShapeInv, NEW t \in Threads, Popped(t), At(t, "nettype", "check")'
    PROVE  Top(t).fn = "sub" /\ Head(Top(t)'.calls) = Top(t).item
<1>1. PICK n \in Nat : Pops(stack[t], stack'[t], n) /\ Top(t) = stack[t][n + 1]
  BY DEF Popped
<1>2. n # 0
  BY <1>1, EmptySeq DEF Pops, Keeps, At
<1>3. n \in 1 .. n /\ n + 1 \in 1 .. n + 1 /\ n + 1 > 1 /\ n + 1 - 1 = n
  BY <1>2
<1>4. Len(stack[t]) = n + 1 /\ Len(stack'[t]) = n /\ stack'[t][n] = stack[t][n]
  BY <1>1, <1>3 DEF Pops, Keeps
<1>5. Top(t)' = stack[t][n]
  BY <1>4 DEF Top
<1>6. Awaits(stack[t][n], stack[t][n + 1])
  <2>1. StackOK(stack[t])
    BY DEF ShapeInv
  <2>2. \A h \in 1 .. n + 1 : h > 1 => Awaits(stack[t][h - 1], stack[t][h])
    BY <1>4, <2>1 DEF StackOK
  <2>3. n + 1 > 1 => Awaits(stack[t][n + 1 - 1], stack[t][n + 1])
    BY <1>3, <2>2
  <2> QED
    BY <1>3, <2>3
<1>7. stack[t][n].fn = "nettype"
  BY <1>5 DEF At
<1> QED
  BY <1>1, <1>5, <1>6, <1>7 DEF Awaits

\* A step of Main that analyzes no subroutine.
LEMMA SeqKept ==
    ASSUME ShapeInv, SeqInv, ~pooled, UNCHANGED pooled, ~At(Main, "sub", "emplace"),
           \/ Begins(Main) \/ Cleared(Main)
           \/ Popped(Main) /\ (Top(Main).fn = "sub" => Top(Main).item \in analyzedSubroutines'),
           analyzedSubroutines \subseteq analyzedSubroutines',
           UNCHANGED analyzedAssertions, NetTypesReported'
    PROVE  SeqInv'
<1>1. Main \in Threads
  BY DEF Threads
<1>2. ~Analyzing(Main)' /\ (At(Main, "nettype", "check")' =>
                                Head(Top(Main)'.calls) \in analyzedSubroutines')
  <2>1. CASE Cleared(Main)
    BY <1>1, <2>1, TopAfter DEF Analyzing
  <2>2. CASE Popped(Main) /\ (Top(Main).fn = "sub" => Top(Main).item \in analyzedSubroutines')
    BY <1>1, <2>2, TopAfter, Reveals DEF Analyzing
  <2>3. CASE Begins(Main)
    <3>1. PICK f : Plain(f) /\ Top(Main)' = f
      BY <1>1, <2>3, TopAfter DEF Begins
    <3> QED
      BY <3>1 DEF Plain, Analyzing, At
  <2> QED
    BY <2>1, <2>2, <2>3
<1>3. \A f \in DOMAIN Subs : Recorded(f)'
  BY DEF SeqInv, Recorded
<1> QED
  BY <1>2, <1>3 DEF SeqInv

LEMMA SeqSubroutine ==
    ASSUME ShapeInv, OnceInv, SeqInv, ~pooled, UNCHANGED <<pooled, netTypes>>,
           \/ LookupSubroutine(Main) \/ AnalyzeProcedure(Main) \/ EmplaceSubroutine(Main)
           \/ AddSubroutineDrivers(Main) \/ NotifySubroutine(Main)
    PROVE  SeqInv'
<1> DEFINE f == Top(Main).item
           moved(pc) == [Top(Main) EXCEPT !.pc = pc]
<1>0. Main \in Threads
  BY DEF Threads
<1>1. stack[Main] # <<>> /\ Top(Main) \in Frames /\ FrameOK(Top(Main)) /\ Top(Main).fn = "sub"
      /\ f \in DOMAIN Subs
  BY <1>0, AtTop DEF LookupSubroutine, AnalyzeProcedure, EmplaceSubroutine, AddSubroutineDrivers,
                     NotifySubroutine, FrameOK
<1>2. NetTypesReported /\ NetTypesReported'
  BY DEF SeqInv, NetTypesReported
<1>3. \A pc : /\ moved(pc).fn = "sub" /\ moved(pc).item = f /\ moved(pc).pc = pc
  BY <1>1 DEF Frames
<1>4. ASSUME NEW pc, Moved(Main, moved(pc))
      PROVE  /\ stack'[Main] # <<>>
             /\ \E g : g = Top(Main)' /\ g.fn = "sub" /\ g.item = f /\ g.pc = pc
  BY <1>0, <1>3, <1>4, TopAfter
<1>5. \A h \in DOMAIN Subs : Recorded(h)
  BY DEF SeqInv
<1>6. CASE LookupSubroutine(Main)
  <2>1. UNCHANGED <<analyzedSubroutines, analyzedAssertions>> /\ ~At(Main, "sub", "emplace")
    BY <1>6 DEF LookupSubroutine, maps, At
  <2>2. CASE f \in analyzedSubroutines
    <3>1. Popped(Main)
      BY <1>0, <1>6, <2>2, SubroutineSteps
    <3> QED
      BY <1>2, <2>1, <2>2, <3>1, SeqKept
  <2>3. CASE f \notin analyzedSubroutines
    <3>1. Moved(Main, moved("analyze"))
      BY <1>0, <1>6, <2>3, SubroutineSteps
    <3>2. ~At(Main, "nettype", "check")' /\ Top(Main)'.item = f /\ ~At(Main, "sub", "emplace")'
      BY <1>4, <3>1 DEF At
    <3>3. \A h \in DOMAIN Subs : Recorded(h)'
      BY <1>5, <2>1 DEF Recorded
    <3> QED
      BY <1>2, <2>1, <2>3, <3>2, <3>3 DEF SeqInv
  <2> QED
    BY <2>2, <2>3
<1>7. CASE AnalyzeProcedure(Main)
  <2>0. UNCHANGED analyzedSubroutines /\ ~At(Main, "sub", "emplace")
    BY <1>7 DEF AnalyzeProcedure, Throw, maps, At
  <2>1. CASE f \in throwing
    <3>1. Cleared(Main) /\ UNCHANGED analyzedAssertions
      BY <1>0, <1>7, <2>1, SubroutineSteps DEF Throw, maps
    <3> QED
      BY <1>2, <2>0, <3>1, SeqKept
  <2>2. CASE f \notin throwing
    <3>1. /\ Moved(Main, moved("emplace"))
          /\ analyzedAssertions' = [analyzedAssertions EXCEPT ![f] =
                                       IF Subs[f].asserts THEN @ + 1 ELSE @]
      BY <1>0, <1>7, <2>2, SubroutineSteps DEF AnalyzeProcedure
    <3>2. /\ ~At(Main, "nettype", "check")' /\ Top(Main)'.item = f
          /\ At(Main, "sub", "emplace")'
      BY <1>4, <3>1 DEF At
    <3>3. f \notin analyzedSubroutines
      BY <1>7 DEF SeqInv, Analyzing, AnalyzeProcedure
    <3>4. analyzedAssertions[f] = 0
      BY <1>1, <1>5, <2>0, <3>3 DEF Recorded
    <3>5. ASSUME NEW h \in DOMAIN Subs
          PROVE  Recorded(h)'
      <4>1. CASE h = f
        BY <1>1, <3>1, <3>2, <3>4, <4>1 DEF Recorded, SeqInv
      <4>2. CASE h # f
        BY <1>5, <2>0, <3>1, <4>2 DEF Recorded, SeqInv
      <4> QED
        BY <4>1, <4>2
    <3>6. analyzedAssertions' \in [DOMAIN Subs -> Nat]
      <4>1. PICK k \in Nat : k = IF Subs[f].asserts THEN analyzedAssertions[f] + 1
                                ELSE analyzedAssertions[f]
        BY <1>1 DEF SeqInv
      <4>2. analyzedAssertions' = [analyzedAssertions EXCEPT ![f] = k]
        BY <3>1, <4>1
      <4> QED
        BY <4>1, <4>2 DEF SeqInv
    <3> QED
      BY <1>2, <2>0, <3>2, <3>3, <3>5, <3>6 DEF SeqInv
  <2> QED
    BY <2>1, <2>2
<1>8. CASE EmplaceSubroutine(Main)
  <2>1. f \notin analyzedSubroutines
    BY <1>8 DEF SeqInv, Analyzing, EmplaceSubroutine
  <2>2. /\ Moved(Main, moved("add")) /\ UNCHANGED analyzedAssertions
        /\ analyzedSubroutines' = analyzedSubroutines \cup {f}
    BY <1>0, <1>8, <2>1, SubroutineSteps DEF EmplaceSubroutine
  <2>3. ~At(Main, "nettype", "check")' /\ ~Analyzing(Main)'
    BY <1>4, <2>2 DEF At, Analyzing
  <2>4. \A h \in DOMAIN Subs : Recorded(h)'
    BY <1>5, <2>2 DEF Recorded
  <2> QED
    BY <1>2, <2>2, <2>3, <2>4 DEF SeqInv
<1>9. CASE AddSubroutineDrivers(Main)
  <2>1. /\ Moved(Main, moved("notify")) /\ UNCHANGED <<analyzedSubroutines, analyzedAssertions>>
        /\ ~At(Main, "sub", "emplace")
    BY <1>0, <1>9, SubroutineSteps DEF AddSubroutineDrivers, maps, At
  <2>2. ~At(Main, "nettype", "check")' /\ ~Analyzing(Main)'
    BY <1>4, <2>1 DEF At, Analyzing
  <2>3. \A h \in DOMAIN Subs : Recorded(h)'
    BY <1>5, <2>1 DEF Recorded
  <2> QED
    BY <1>2, <2>1, <2>2, <2>3 DEF SeqInv
<1>10. CASE NotifySubroutine(Main)
  <2>1. /\ Popped(Main) /\ UNCHANGED <<analyzedSubroutines, analyzedAssertions>>
        /\ ~At(Main, "sub", "emplace")
    BY <1>0, <1>10, SubroutineSteps DEF NotifySubroutine, maps, At
  <2>2. f \in analyzedSubroutines
    BY <1>0, <1>1, <1>10 DEF NotifySubroutine, OnceInv, Publishing, Notifying
  <2> QED
    BY <1>2, <2>1, <2>2, SeqKept
<1> QED
  BY <1>6, <1>7, <1>8, <1>9, <1>10

LEMMA SeqCheck ==
    ASSUME ShapeInv, OnceInv, SeqInv, ~pooled, UNCHANGED pooled, CheckNetType(Main)
    PROVE  SeqInv'
<1> DEFINE g == Head(Top(Main).calls)
<1>0. Main \in Threads
  BY DEF Threads
<1>1. /\ stack[Main] # <<>> /\ Top(Main) \in Frames /\ FrameOK(Top(Main))
      /\ Top(Main).fn = "nettype" /\ Top(Main).pc = "check"
  BY <1>0, AtTop DEF CheckNetType
<1>2. Popped(Main) /\ UNCHANGED <<analyzedSubroutines, analyzedAssertions>>
      /\ ~At(Main, "sub", "emplace")
  BY <1>0, <1>1, OtherSteps DEF CheckNetType, maps, At
<1>3. g \in analyzedSubroutines
  BY DEF SeqInv, CheckNetType
<1>4. driverAdds[g] = 1
  <2>1. g \in DOMAIN Subs
    BY <1>3 DEF ShapeInv
  <2>2. \A t \in Threads : ~Adding(t, g)
    <3>1. ~Adding(Main, g)
      BY <1>1 DEF Adding, At
    <3>2. \A t \in Workers : stack[t] = <<>>
      BY DEF ShapeInv
    <3> QED
      BY <3>1, <3>2 DEF Threads, Adding, At
  <2> QED
    BY <1>3, <2>1, <2>2 DEF OnceInv
<1>5. /\ netTypes'.checked = netTypes.checked \cup {<<Top(Main).item, g>>}
      /\ netTypes'.reported = IF Subs[g].drivesArg THEN netTypes.reported \cup {<<Top(Main).item, g>>}
                              ELSE netTypes.reported
  BY <1>4 DEF CheckNetType
<1>6. NetTypesReported
  BY DEF SeqInv
<1>7. NetTypesReported'
  BY <1>5, <1>6 DEF NetTypesReported
<1> QED
  BY <1>1, <1>2, <1>7, SeqKept

LEMMA SeqInit == Init => SeqInv
<1> SUFFICES ASSUME Init PROVE SeqInv
  OBVIOUS
<1>1. \A fn, pc : ~At(Main, fn, pc)
  BY DEF Init, At, Threads
<1> QED
  BY <1>1 DEF Init, SeqInv, Analyzing, Recorded, NetTypesReported

LEMMA SeqStep == ShapeInv /\ OnceInv /\ SeqInv /\ [Next]_vars => SeqInv'
<1> SUFFICES ASSUME ShapeInv, OnceInv, SeqInv, [Next]_vars PROVE SeqInv'
  OBVIOUS
<1>0. UNCHANGED pooled
  BY DEF Next, AnalyzeRoot, Wait, TakeTask, Step, Stutter, vars, design
<1>1. CASE pooled
  <2>1. \/ UNCHANGED analyzedAssertions
        \/ \E t \in Threads : AnalyzeProcedure(t)
    BY ZenonT(60) DEF Next, AnalyzeRoot, Wait, TakeTask, Step, Stutter, vars, maps, VisitMember,
           MemberThrows, Throw, NoteInstance, PublishScope, NotifyScope, LookupSubroutine,
           EmplaceSubroutine, AddSubroutineDrivers, NotifySubroutine, NextTaskCall, VisitTask,
           CollectControls, VisitCall, CollectDrivers, FinishCaller, AnalyzeResolution,
           CheckNetType
  <2>2. ASSUME NEW t \in Threads, AnalyzeProcedure(t)
        PROVE  analyzedAssertions' \in [DOMAIN Subs -> Nat]
    <3>1. Top(t).item \in DOMAIN Subs
      BY <2>2, AtTop DEF AnalyzeProcedure, FrameOK
    <3>2. CASE Top(t).item \in throwing
      BY <2>2, <3>2 DEF AnalyzeProcedure, Throw, maps, SeqInv
    <3>3. CASE Top(t).item \notin throwing
      <4>1. PICK k \in Nat : k = IF Subs[Top(t).item].asserts
                                 THEN analyzedAssertions[Top(t).item] + 1
                                 ELSE analyzedAssertions[Top(t).item]
        BY <3>1 DEF SeqInv
      <4>2. analyzedAssertions' = [analyzedAssertions EXCEPT ![Top(t).item] = k]
        BY <2>2, <3>3, <4>1 DEF AnalyzeProcedure
      <4> QED
        BY <4>1, <4>2 DEF SeqInv
    <3> QED
      BY <3>2, <3>3
  <2> QED
    BY <1>0, <1>1, <2>1, <2>2 DEF SeqInv
<1>2. CASE ~pooled
  <2>0. Main \in Threads /\ \A t \in Workers : stack[t] = <<>>
    BY <1>2 DEF ShapeInv, Threads
  <2>1. ASSUME UNCHANGED <<stack, analyzedSubroutines, analyzedAssertions, netTypes>>
        PROVE  SeqInv'
    BY <1>0, <2>1 DEF SeqInv, Analyzing, Recorded, NetTypesReported, At, Top
  <2>2. UNCHANGED netTypes => NetTypesReported'
    BY <1>2 DEF SeqInv, NetTypesReported
  <2>3. CASE AnalyzeRoot
    <3>1. UNCHANGED <<analyzedSubroutines, analyzedAssertions, netTypes>>
      BY <2>3 DEF AnalyzeRoot, effects
    <3>2. ~At(Main, "sub", "emplace")
      BY <2>3 DEF AnalyzeRoot, At
    <3>3. ASSUME Entered(Main, ScopeFrame(Roots[main.pos]))
          PROVE  SeqInv'
      BY <1>0, <1>2, <2>0, <2>2, <3>1, <3>2, <3>3, TaskBegins, SeqKept
    <3> QED
      BY <2>1, <2>3, <3>1, <3>3, TaskSteps
  <2>4. CASE Wait \/ UNCHANGED vars
    BY <2>1, <2>4 DEF Wait, vars, maps, effects
  <2>5. ASSUME NEW t \in Workers, TakeTask(t)
        PROVE  FALSE
    BY <1>2, <2>5 DEF TakeTask, ShapeInv
  <2>6. ASSUME NEW t \in Threads, Step(t)
        PROVE  t = Main
    <3>1. stack[t] # <<>>
      BY <2>6 DEF Step, VisitMember, MemberThrows, NoteInstance, PublishScope, NotifyScope,
             LookupSubroutine, AnalyzeProcedure, EmplaceSubroutine, AddSubroutineDrivers,
             NotifySubroutine, NextTaskCall, VisitTask, CollectControls, VisitCall,
             CollectDrivers, FinishCaller, AnalyzeResolution, CheckNetType, At
    <3> QED
      BY <2>0, <3>1 DEF Threads
  <2>7. CASE Step(Main)
    <3>1. CASE VisitMember(Main)
      <4>1. /\ UNCHANGED <<analyzedSubroutines, analyzedAssertions, netTypes>>
            /\ ~At(Main, "sub", "emplace") /\ Begins(Main)
        BY <2>0, <3>1, MemberBegins DEF VisitMember, maps, effects, At
      <4> QED
        BY <1>0, <1>2, <2>2, <4>1, SeqKept
    <3>2. CASE MemberThrows(Main)
      <4>1. /\ UNCHANGED <<analyzedSubroutines, analyzedAssertions, netTypes>>
            /\ ~At(Main, "sub", "emplace") /\ Cleared(Main)
        BY <2>0, <3>2, OtherSteps DEF MemberThrows, Throw, maps, effects, At
      <4> QED
        BY <1>0, <1>2, <2>2, <4>1, SeqKept
    <3>3. CASE NoteInstance(Main) \/ NotifyScope(Main) \/ FinishCaller(Main)
      <4>1. /\ Top(Main).fn # "sub" /\ ~At(Main, "sub", "emplace")
            /\ UNCHANGED <<analyzedSubroutines, analyzedAssertions, netTypes>>
        BY <3>3 DEF NoteInstance, NotifyScope, FinishCaller, At, maps
      <4>2. Popped(Main)
        BY <2>0, <3>3, OtherSteps, WalkSteps
      <4> QED
        BY <1>0, <1>2, <2>2, <4>1, <4>2, SeqKept
    <3>4. CASE \/ NextTaskCall(Main) \/ VisitTask(Main) \/ CollectControls(Main)
               \/ VisitCall(Main) \/ CollectDrivers(Main) \/ AnalyzeResolution(Main)
               \/ PublishScope(Main)
      <4>1. /\ Begins(Main) /\ Top(Main).fn # "sub"
            /\ UNCHANGED <<analyzedSubroutines, analyzedAssertions, netTypes>>
        BY <2>0, <3>4, CallsBegin
      <4>2. ~At(Main, "sub", "emplace")
        BY <4>1 DEF At
      <4> QED
        BY <1>0, <1>2, <2>2, <4>1, <4>2, SeqKept
    <3>5. CASE \/ LookupSubroutine(Main) \/ AnalyzeProcedure(Main) \/ EmplaceSubroutine(Main)
               \/ AddSubroutineDrivers(Main) \/ NotifySubroutine(Main)
      <4>1. UNCHANGED netTypes
        BY <3>5 DEF LookupSubroutine, AnalyzeProcedure, EmplaceSubroutine,
                    AddSubroutineDrivers, NotifySubroutine, Throw, effects
      <4> QED
        BY <1>0, <1>2, <3>5, <4>1, SeqSubroutine
    <3>6. CASE CheckNetType(Main)
      BY <1>0, <1>2, <3>6, SeqCheck
    <3> QED
      BY <2>7, <3>1, <3>2, <3>3, <3>4, <3>5, <3>6 DEF Step
  <2> QED
    BY <2>3, <2>4, <2>5, <2>6, <2>7 DEF Next, Stutter
<1> QED
  BY <1>1, <1>2

\* Without a pool every nettype that drives its argument is reported, and the assertions of a
\* subroutine are recorded at most once.
THEOREM ReportedInOrder == Spec => []SequentialReports
<1>1. Init => ShapeInv /\ OnceInv /\ SeqInv
  BY ShapeInit, OnceInit, SeqInit
<1>2. ShapeInv /\ OnceInv /\ SeqInv /\ [Next]_vars => (ShapeInv /\ OnceInv /\ SeqInv)'
  BY ShapeStep, OnceStep, SeqStep
<1>3. SeqInv => SequentialReports
  BY DEF SeqInv, SequentialReports, Recorded
<1> QED
  BY <1>1, <1>2, <1>3, PTL DEF Spec
-----------------------------------------------------------------------------
(***************************************************************************)
(* The frames of all threads.  InStack: one of them is in a set S.  Lone:  *)
(* no two of them are.  Beneath: one other than the top of t is.           *)
(***************************************************************************)
InStack(stk, S) == \E u \in Threads : \E h \in 1 .. Len(stk[u]) : stk[u][h] \in S

Lone(stk, S) ==
    \A u, v \in Threads : \A h \in 1 .. Len(stk[u]), k \in 1 .. Len(stk[v]) :
        stk[u][h] \in S /\ stk[v][k] \in S => u = v /\ h = k

Beneath(t, S) ==
    \E u \in Threads : \E h \in 1 .. Len(stack[u]) :
        ~(u = t /\ h = Len(stack[t])) /\ stack[u][h] \in S

LEMMA TopAndBeneath ==
    ASSUME ShapeInv, NEW t \in Threads, NEW S
    PROVE  /\ stack[t] # <<>> => /\ InStack(stack, S) <=> Beneath(t, S) \/ Top(t) \in S
                                 /\ Lone(stack, S) /\ Top(t) \in S => ~Beneath(t, S)
           /\ stack[t] = <<>> => (InStack(stack, S) <=> Beneath(t, S))
<1>1. stack[t] \in Seq(Frames) /\ Len(stack[t]) \in Nat
  BY DEF ShapeInv, Stacks
<1>2. ASSUME stack[t] # <<>>
      PROVE  Len(stack[t]) \in 1 .. Len(stack[t])
  BY <1>1, <1>2, EmptySeq
<1>3. ASSUME stack[t] # <<>>
      PROVE  InStack(stack, S) <=> Beneath(t, S) \/ Top(t) \in S
  BY <1>2, <1>3 DEF InStack, Beneath, Top
<1>4. ASSUME stack[t] # <<>>, Lone(stack, S), Top(t) \in S
      PROVE  ~Beneath(t, S)
  <2>1. Len(stack[t]) \in 1 .. Len(stack[t])
    BY <1>2, <1>4
  <2> QED
    BY <1>4, <2>1 DEF Lone, Beneath, Top
<1>5. ASSUME stack[t] = <<>>
      PROVE  InStack(stack, S) <=> Beneath(t, S)
  <2>1. \A h : h \notin 1 .. Len(stack[t])
    BY <1>5
  <2> QED
    BY <2>1 DEF InStack, Beneath
<1> QED
  BY <1>3, <1>4, <1>5

\* The frames a step leaves in place, and the ones it puts above them.
LEMMA PlacesAfter ==
    ASSUME NEW t \in Threads, Others(t), NEW n \in Nat,
           NEW S, Len(stack'[t]) \in Nat, Len(stack'[t]) >= n,
           \A h \in 1 .. n : stack'[t][h] = stack[t][h],
           Len(stack[t]) = n + 1 \/ (n = 0 /\ Len(stack[t]) = 0)
    PROVE  /\ InStack(stack', S) <=>
                  \/ Beneath(t, S)
                  \/ \E h \in 1 .. Len(stack'[t]) : h > n /\ stack'[t][h] \in S
           /\ /\ Lone(stack, S)
              /\ \A h, k \in 1 .. Len(stack'[t]) :
                     h > n /\ k > n /\ stack'[t][h] \in S /\ stack'[t][k] \in S => h = k
              /\ (\E h \in 1 .. Len(stack'[t]) : h > n /\ stack'[t][h] \in S) => ~Beneath(t, S)
              => Lone(stack', S)
<1>1. \A u \in Threads \ {t} : stack'[u] = stack[u]
  BY DEF Others
<1>2. /\ \A h \in 1 .. Len(stack'[t]) : h > n \/ h \in 1 .. n
      /\ \A h \in 1 .. n : h \in 1 .. Len(stack'[t]) /\ h \in 1 .. Len(stack[t])
                           /\ h # Len(stack[t])
      /\ \A h \in 1 .. Len(stack[t]) : h = Len(stack[t]) \/ h \in 1 .. n
  OBVIOUS
<1> DEFINE Old(u, h) == ~(u = t /\ h = Len(stack[t]))
           New(u, h) == ~(u = t /\ h > n)
<1>3. \A u \in Threads : \A h \in 1 .. Len(stack'[u]) : New(u, h) =>
          h \in 1 .. Len(stack[u]) /\ Old(u, h) /\ stack'[u][h] = stack[u][h]
  BY <1>1, <1>2
<1>4. \A u \in Threads : \A h \in 1 .. Len(stack[u]) : Old(u, h) =>
          h \in 1 .. Len(stack'[u]) /\ New(u, h) /\ stack'[u][h] = stack[u][h]
  <2>1. \A h \in 1 .. n : ~(h > n)
    OBVIOUS
  <2> QED
    BY <1>1, <1>2, <2>1
<1>5. Beneath(t, S) <=>
          \E u \in Threads : \E h \in 1 .. Len(stack'[u]) : New(u, h) /\ stack'[u][h] \in S
  <2>1. Beneath(t, S) <=>
            \E u \in Threads : \E h \in 1 .. Len(stack[u]) : Old(u, h) /\ stack[u][h] \in S
    BY DEF Beneath
  <2> HIDE DEF Old, New
  <2> QED
    BY <1>3, <1>4, <2>1
<1>6. InStack(stack', S) <=>
          Beneath(t, S) \/ \E h \in 1 .. Len(stack'[t]) : h > n /\ stack'[t][h] \in S
  BY <1>5 DEF InStack
<1>7. ASSUME Lone(stack, S),
             \A h, k \in 1 .. Len(stack'[t]) :
                 h > n /\ k > n /\ stack'[t][h] \in S /\ stack'[t][k] \in S => h = k,
             (\E h \in 1 .. Len(stack'[t]) : h > n /\ stack'[t][h] \in S) => ~Beneath(t, S),
             NEW u \in Threads, NEW v \in Threads,
             NEW h \in 1 .. Len(stack'[u]), NEW k \in 1 .. Len(stack'[v]),
             stack'[u][h] \in S, stack'[v][k] \in S
      PROVE  u = v /\ h = k
  <2>1. CASE New(u, h) /\ New(v, k)
    <3>1. h \in 1 .. Len(stack[u]) /\ stack[u][h] \in S
      BY <1>3, <1>7, <2>1
    <3>2. k \in 1 .. Len(stack[v]) /\ stack[v][k] \in S
      BY <1>3, <1>7, <2>1
    <3> QED
      BY <1>7, <3>1, <3>2 DEF Lone
  <2>2. CASE ~New(u, h) /\ ~New(v, k)
    BY <1>7, <2>2
  <2>3. CASE ~New(u, h) /\ New(v, k)
    BY <1>5, <1>7, <2>3
  <2>4. CASE New(u, h) /\ ~New(v, k)
    BY <1>5, <1>7, <2>4
  <2> QED
    BY <2>1, <2>2, <2>3, <2>4
<1>8. /\ Lone(stack, S)
      /\ \A h, k \in 1 .. Len(stack'[t]) :
             h > n /\ k > n /\ stack'[t][h] \in S /\ stack'[t][k] \in S => h = k
      /\ (\E h \in 1 .. Len(stack'[t]) : h > n /\ stack'[t][h] \in S) => ~Beneath(t, S)
      => Lone(stack', S)
  BY <1>7 DEF Lone
<1> QED
  BY <1>6, <1>8

\* What becomes of the frames in S when t pops its top, ...
LEMMA FramesPopped ==
    ASSUME NEW t \in Threads, Popped(t), NEW S
    PROVE  /\ InStack(stack', S) <=> Beneath(t, S)
           /\ Lone(stack, S) => Lone(stack', S)
<1>1. Others(t)
  BY DEF Popped
<1>2. PICK n \in Nat : Pops(stack[t], stack'[t], n)
  BY DEF Popped
<1>3. Len(stack'[t]) = n /\ Len(stack[t]) = n + 1 /\ \A h \in 1 .. n : stack'[t][h] = stack[t][h]
  BY <1>2 DEF Pops, Keeps
<1>4. \A h \in 1 .. Len(stack'[t]) : ~(h > n)
  BY <1>3
<1> QED
  BY <1>1, <1>3, <1>4, PlacesAfter

\* ... changes it, ...
LEMMA FramesMoved ==
    ASSUME NEW t \in Threads, NEW f, Moved(t, f), NEW S
    PROVE  /\ InStack(stack', S) <=> Beneath(t, S) \/ f \in S
           /\ Lone(stack, S) /\ (f \in S => ~Beneath(t, S)) => Lone(stack', S)
<1>1. Others(t)
  BY DEF Moved
<1>2. PICK n \in Nat : Moves(stack[t], stack'[t], n, f)
  BY DEF Moved
<1>3. /\ Len(stack'[t]) = n + 1 /\ Len(stack[t]) = n + 1 /\ stack'[t][n + 1] = f
      /\ \A h \in 1 .. n : stack'[t][h] = stack[t][h]
  BY <1>2 DEF Moves, Keeps
<1>4. n + 1 \in Nat /\ n + 1 >= n /\ \A h \in 1 .. n + 1 : h > n <=> h = n + 1
  OBVIOUS
<1>5. n + 1 \in 1 .. n + 1
  OBVIOUS
<1>6. (\E h \in 1 .. Len(stack'[t]) : h > n /\ stack'[t][h] \in S) <=> f \in S
  BY <1>3, <1>4, <1>5
<1>7. \A h, k \in 1 .. Len(stack'[t]) : h > n /\ k > n => h = k
  BY <1>3, <1>4
<1> QED
  BY <1>1, <1>3, <1>4, <1>6, <1>7, PlacesAfter

\* ... changes it and calls, ...
LEMMA FramesCalled ==
    ASSUME NEW t \in Threads, NEW f, NEW g, Called(t, f, g), NEW S
    PROVE  /\ InStack(stack', S) <=> Beneath(t, S) \/ f \in S \/ g \in S
           /\ /\ Lone(stack, S) /\ ~(f \in S /\ g \in S)
              /\ f \in S \/ g \in S => ~Beneath(t, S)
              => Lone(stack', S)
<1>1. Others(t)
  BY DEF Called
<1>2. PICK n \in Nat : Pushes(stack[t], stack'[t], n, f, g)
  BY DEF Called
<1>3. /\ Len(stack'[t]) = n + 2 /\ Len(stack[t]) = n + 1
      /\ stack'[t][n + 1] = f /\ stack'[t][n + 2] = g
      /\ \A h \in 1 .. n : stack'[t][h] = stack[t][h]
  BY <1>2 DEF Pushes, Keeps
<1>4. /\ n + 2 \in Nat /\ n + 2 >= n
      /\ \A h \in 1 .. n + 2 : h > n <=> h = n + 1 \/ h = n + 2
  OBVIOUS
<1>5. n + 1 \in 1 .. n + 2 /\ n + 2 \in 1 .. n + 2
  OBVIOUS
<1>6. (\E h \in 1 .. Len(stack'[t]) : h > n /\ stack'[t][h] \in S) <=> f \in S \/ g \in S
  BY <1>3, <1>4, <1>5
<1>7. ~(f \in S /\ g \in S) =>
          \A h, k \in 1 .. Len(stack'[t]) :
              h > n /\ k > n /\ stack'[t][h] \in S /\ stack'[t][k] \in S => h = k
  BY <1>3, <1>4
<1> QED
  BY <1>1, <1>3, <1>4, <1>6, <1>7, PlacesAfter

\* ... calls twice, ...
LEMMA FramesCalledTwo ==
    ASSUME NEW t \in Threads, NEW f, NEW g, NEW e, CalledTwo(t, f, g, e), NEW S
    PROVE  /\ InStack(stack', S) <=> Beneath(t, S) \/ f \in S \/ g \in S \/ e \in S
           /\ /\ Lone(stack, S)
              /\ ~(f \in S /\ g \in S) /\ ~(f \in S /\ e \in S) /\ ~(g \in S /\ e \in S)
              /\ f \in S \/ g \in S \/ e \in S => ~Beneath(t, S)
              => Lone(stack', S)
<1>1. Others(t)
  BY DEF CalledTwo
<1>2. PICK n \in Nat : PushesTwo(stack[t], stack'[t], n, f, g, e)
  BY DEF CalledTwo
<1>3. /\ Len(stack'[t]) = n + 3 /\ Len(stack[t]) = n + 1
      /\ stack'[t][n + 1] = f /\ stack'[t][n + 2] = g /\ stack'[t][n + 3] = e
      /\ \A h \in 1 .. n : stack'[t][h] = stack[t][h]
  BY <1>2 DEF PushesTwo, Keeps
<1>4. /\ n + 3 \in Nat /\ n + 3 >= n
      /\ \A h \in 1 .. n + 3 : h > n <=> h = n + 1 \/ h = n + 2 \/ h = n + 3
  OBVIOUS
<1>5. n + 1 \in 1 .. n + 3 /\ n + 2 \in 1 .. n + 3 /\ n + 3 \in 1 .. n + 3
  OBVIOUS
<1>6. (\E h \in 1 .. Len(stack'[t]) : h > n /\ stack'[t][h] \in S) <=>
          f \in S \/ g \in S \/ e \in S
  BY <1>3, <1>4, <1>5
<1>7. ~(f \in S /\ g \in S) /\ ~(f \in S /\ e \in S) /\ ~(g \in S /\ e \in S) =>
          \A h, k \in 1 .. Len(stack'[t]) :
              h > n /\ k > n /\ stack'[t][h] \in S /\ stack'[t][k] \in S => h = k
  BY <1>3, <1>4
<1> QED
  BY <1>1, <1>3, <1>4, <1>6, <1>7, PlacesAfter

\* ... or begins to work.
LEMMA FramesEntered ==
    ASSUME NEW t \in Threads, NEW f, Entered(t, f), NEW S
    PROVE  /\ InStack(stack', S) <=> Beneath(t, S) \/ f \in S
           /\ Lone(stack, S) /\ (f \in S => ~Beneath(t, S)) => Lone(stack', S)
<1>1. Others(t) /\ stack[t] = <<>> /\ Len(stack'[t]) = 1 /\ stack'[t][1] = f
  BY DEF Entered
<1>2. Len(stack[t]) = 0 /\ (\A h : h \notin 1 .. 0) /\ \A h : h \in 1 .. 1 <=> h = 1 /\ h > 0
  BY <1>1
<1>3. (\E h \in 1 .. Len(stack'[t]) : h > 0 /\ stack'[t][h] \in S) <=> f \in S
  BY <1>1, <1>2
<1>4. /\ \A h, k \in 1 .. Len(stack'[t]) : h > 0 /\ k > 0 => h = k
      /\ 0 \in Nat /\ Len(stack'[t]) \in Nat /\ Len(stack'[t]) >= 0
      /\ \A h \in 1 .. 0 : stack'[t][h] = stack[t][h]
  BY <1>1, <1>2
<1> QED
  BY <1>1, <1>2, <1>3, <1>4, PlacesAfter
-----------------------------------------------------------------------------
(***************************************************************************)
(* The scopes.  Unless something was thrown, a scope that is pending is    *)
(* queued or worked on, by one thread only; its children are started when  *)
(* it is past them, and an instance is noted between that and the end.     *)
(***************************************************************************)
LEMMA ReachableClosed ==
    /\ ReachableScopes \subseteq Scopes
    /\ \A n \in DOMAIN Roots : Roots[n] \in ReachableScopes
    /\ \A s \in ReachableScopes : \A n \in DOMAIN Members[s] :
           LET m == Members[s][n]
           IN  /\ m.kind = "scope" => m.item \in ReachableScopes
               /\ m.kind = "inst" => CanonicalBody[m.item] \in ReachableScopes
<1> DEFINE Closed(C) == /\ \A n \in DOMAIN Roots : Roots[n] \in C
                        /\ \A s \in C : ChildScopes(s) \subseteq C
<1>1. ReachableScopes = {s \in Scopes : \A C \in SUBSET Scopes : Closed(C) => s \in C}
  BY DEF ReachableScopes
<1>2. \A n \in DOMAIN Roots : Roots[n] \in ReachableScopes
  <2>1. \A n \in DOMAIN Roots : Roots[n] \in Scopes
    BY MembersOK
  <2> QED
    BY <1>1, <2>1
<1>3. ASSUME NEW s \in ReachableScopes, NEW c \in ChildScopes(s), c \in Scopes
      PROVE  c \in ReachableScopes
  <2>1. ASSUME NEW C \in SUBSET Scopes, Closed(C)
        PROVE  c \in C
    BY <1>1, <1>3, <2>1
  <2> HIDE DEF Closed
  <2> QED
    BY <1>1, <1>3, <2>1
<1>4. ASSUME NEW s \in ReachableScopes, NEW n \in DOMAIN Members[s]
      PROVE  LET m == Members[s][n]
             IN  /\ m.kind = "scope" => m.item \in ReachableScopes
                 /\ m.kind = "inst" => CanonicalBody[m.item] \in ReachableScopes
  <2> DEFINE m == Members[s][n]
  <2>1. s \in Scopes
    BY <1>1
  <2>2. m \in MembersOf(s) /\ m \in AllMembers
    BY <2>1 DEF MembersOf, AllMembers
  <2>3. CASE m.kind = "scope"
    <3>1. m.item \in ChildScopes(s) /\ m.item \in Scopes
      BY <2>2, <2>3, MembersOK DEF ChildScopes
    <3> QED
      BY <1>3, <2>3, <3>1
  <2>4. CASE m.kind = "inst"
    <3>1. CanonicalBody[m.item] \in ChildScopes(s) /\ CanonicalBody[m.item] \in Scopes
      BY <2>2, <2>4, MembersOK DEF ChildScopes
    <3> QED
      BY <1>3, <2>4, <3>1
  <2> QED
    BY <2>3, <2>4
<1> QED
  BY <1>1, <1>2, <1>4

LEMMA ReachableLeast ==
    ASSUME NEW C \in SUBSET Scopes,
           \A n \in DOMAIN Roots : Roots[n] \in C,
           \A s \in C : \A n \in DOMAIN Members[s] :
               LET m == Members[s][n]
               IN  /\ m.kind = "scope" => m.item \in C
                   /\ m.kind = "inst" => CanonicalBody[m.item] \in C
    PROVE  ReachableScopes \subseteq C
<1>1. \A s \in C : ChildScopes(s) \subseteq C
  <2> SUFFICES ASSUME NEW s \in C, NEW c \in ChildScopes(s)
               PROVE  c \in C
    OBVIOUS
  <2>1. PICK m \in MembersOf(s) : \/ m.kind = "scope" /\ c = m.item
                                  \/ m.kind = "inst" /\ c = CanonicalBody[m.item]
    BY DEF ChildScopes
  <2>2. PICK n \in DOMAIN Members[s] : m = Members[s][n]
    BY DEF MembersOf
  <2> QED
    BY <2>1, <2>2
<1> QED
  BY <1>1 DEF ReachableScopes

Thrown == pendingException \/ main.pc = "threw"

ScopeFrames(s) == {f \in Frames : f.fn = "scope" /\ f.item = s}

Ahead(s, n) == {f \in Frames : f.fn = "scope" /\ f.item = s /\ f.pos > n}

Notifies(s) == {f \in Frames : f.fn = "scope" /\ f.item = s /\ f.pc = "notify"}

InstFrames(i) == {f \in Frames : f.fn = "inst" /\ f.item = i}

Queued(s) == \E k \in 1 .. Len(tasks) : tasks[k] = s

Working(s) == InStack(stack, ScopeFrames(s))

Announcing(s) == InStack(stack, Notifies(s))

Past(s, n) == analyzedScopes[s] = "done" \/ InStack(stack, Ahead(s, n))

Noting(i) == InStack(stack, InstFrames(i))

ScopeOK(s) ==
    /\ Lone(stack, ScopeFrames(s))
    /\ analyzedScopes[s] # "absent" => s \in ReachableScopes
    /\ Queued(s) => analyzedScopes[s] = "pending" /\ ~Working(s)
    /\ analyzedScopes[s] = "pending" => Queued(s) \/ Working(s)
    /\ Working(s) => analyzedScopes[s] # "absent"
    /\ Announcing(s) => analyzedScopes[s] = "done"
    /\ analyzedScopes[s] = "done" /\ Working(s) => Announcing(s)
    /\ scopeCalls[s] = IF analyzedScopes[s] = "done" /\ ~Working(s) THEN 1 ELSE 0

MemberOK(s, n) ==
    LET m == Members[s][n]
    IN  /\ Past(s, n) /\ m.kind = "scope" => analyzedScopes[m.item] # "absent"
        /\ Past(s, n) /\ m.kind = "inst" => analyzedScopes[CanonicalBody[m.item]] # "absent"
        /\ m.kind = "inst" =>
               /\ Noting(m.item) => Past(s, n)
               /\ instanceNotes[m.item] = IF Past(s, n) /\ ~Noting(m.item) THEN 1 ELSE 0

QueueOK == \A j, k \in 1 .. Len(tasks) : tasks[j] = tasks[k] => j = k

ScopesOK ==
    /\ QueueOK
    /\ \A s \in Scopes : ScopeOK(s)
    /\ \A s \in Scopes : \A n \in DOMAIN Members[s] : MemberOK(s, n)
    /\ \A i \in DOMAIN CanonicalBody : Lone(stack, InstFrames(i))
    /\ \A k \in DOMAIN Roots : k < main.pos => analyzedScopes[Roots[k]] # "absent"

ScopeInv ==
    /\ scopeCalls \in [Scopes -> Nat]
    /\ instanceNotes \in [DOMAIN CanonicalBody -> Nat]
    /\ Done => main.pos > Len(Roots)
    /\ ~Thrown => ScopesOK

\* When analyze() returns, every scope the design reaches is done.
LEMMA AllAnalyzed ==
    ASSUME ShapeInv, ScopeInv
    PROVE  EverythingAnalyzed
<1> SUFFICES ASSUME Done
             PROVE  /\ \A s \in Scopes :
                           /\ analyzedScopes[s] = IF s \in ReachableScopes THEN "done" ELSE "absent"
                           /\ scopeCalls[s] = IF s \in ReachableScopes THEN 1 ELSE 0
                    /\ \A m \in ReachableMembers : m.kind = "inst" => instanceNotes[m.item] = 1
                    /\ \A t \in Threads : stack[t] = <<>>
  BY DEF EverythingAnalyzed
<1>1. /\ tasks = <<>> /\ ~pendingException /\ \A t \in Threads : stack[t] = <<>>
      /\ main.pos > Len(Roots) /\ main.pos \in Nat /\ main.pc = "done"
  BY DEF ShapeInv, ScopeInv, Done
<1>2. ScopesOK
  BY <1>1 DEF ScopeInv, Thrown
<1>3. \A S : ~InStack(stack, S)
  BY <1>1 DEF InStack
<1>4. \A s \in Scopes : ~Queued(s)
  BY <1>1 DEF Queued
<1>5. \A s \in Scopes : analyzedScopes[s] \in {"absent", "pending", "done"}
  BY DEF ShapeInv
<1>6. \A s \in Scopes : /\ analyzedScopes[s] \in {"absent", "done"}
                        /\ analyzedScopes[s] = "done" => s \in ReachableScopes
                        /\ scopeCalls[s] = IF analyzedScopes[s] = "done" THEN 1 ELSE 0
  BY <1>2, <1>3, <1>4, <1>5 DEF ScopesOK, ScopeOK, Working
<1> DEFINE C == {s \in Scopes : analyzedScopes[s] = "done"}
<1>7. \A n \in DOMAIN Roots : Roots[n] \in C
  <2>1. \A n \in DOMAIN Roots : Roots[n] \in Scopes /\ n < main.pos
    BY <1>1, MembersOK, LenProperties
  <2> QED
    BY <1>2, <1>6, <2>1 DEF ScopesOK
<1>8. \A s \in C : \A n \in DOMAIN Members[s] :
          LET m == Members[s][n]
          IN  /\ m.kind = "scope" => m.item \in C
              /\ m.kind = "inst" => CanonicalBody[m.item] \in C
  <2> SUFFICES ASSUME NEW s \in C, NEW n \in DOMAIN Members[s]
               PROVE  LET m == Members[s][n]
                      IN  /\ m.kind = "scope" => m.item \in C
                          /\ m.kind = "inst" => CanonicalBody[m.item] \in C
    OBVIOUS
  <2> DEFINE m == Members[s][n]
  <2>1. Past(s, n) /\ MemberOK(s, n)
    BY <1>2 DEF Past, ScopesOK
  <2>2. m \in AllMembers
    BY DEF MembersOf, AllMembers
  <2>3. /\ m.kind = "scope" => m.item \in Scopes
        /\ m.kind = "inst" => CanonicalBody[m.item] \in Scopes
    BY <2>2, MembersOK
  <2> QED
    BY <1>6, <2>1, <2>3 DEF MemberOK
<1>9. ReachableScopes \subseteq C
  <2> HIDE DEF C
  <2>1. C \in SUBSET Scopes
    BY DEF C
  <2> QED
    BY <1>7, <1>8, <2>1, ReachableLeast
<1>10. ASSUME NEW m \in ReachableMembers, m.kind = "inst"
       PROVE  instanceNotes[m.item] = 1
  <2>1. PICK s \in ReachableScopes : \E n \in DOMAIN Members[s] : m = Members[s][n]
    BY DEF ReachableMembers, MembersOf
  <2>2. PICK n \in DOMAIN Members[s] : m = Members[s][n]
    BY <2>1
  <2>3. s \in Scopes /\ Past(s, n)
    BY <1>9 DEF Past
  <2>4. MemberOK(s, n)
    BY <1>2, <2>3 DEF ScopesOK
  <2> QED
    BY <1>3, <1>10, <2>2, <2>3, <2>4 DEF MemberOK, Noting
<1> QED
  BY <1>1, <1>6, <1>9, <1>10

\* A step that changes no frame of a scope or of an instance.
SameScopes ==
    \A S : (\A f \in S : f.fn \in {"scope", "inst"}) =>
               /\ InStack(stack', S) <=> InStack(stack, S)
               /\ Lone(stack, S) => Lone(stack', S)

LEMMA OtherFrames ==
    ASSUME ShapeInv, NEW t \in Threads, stack[t] # <<>>, Top(t).fn \notin {"scope", "inst"},
           \/ Popped(t) \/ \E f : Moved(t, f)
           \/ \E f, g : Called(t, f, g) /\ g.fn \notin {"scope", "inst"}
    PROVE  SameScopes
<1> SUFFICES ASSUME NEW S, \A f \in S : f.fn \in {"scope", "inst"}
             PROVE  /\ InStack(stack', S) <=> InStack(stack, S)
                    /\ Lone(stack, S) => Lone(stack', S)
  BY DEF SameScopes
<1>1. InStack(stack, S) <=> Beneath(t, S)
  BY TopAndBeneath
<1>2. CASE Popped(t)
  BY <1>1, <1>2, FramesPopped
<1>3. ASSUME NEW f, Moved(t, f)
      PROVE  /\ InStack(stack', S) <=> InStack(stack, S)
             /\ Lone(stack, S) => Lone(stack', S)
  <2>1. f \notin S
    BY <1>3 DEF Moved
  <2> QED
    BY <1>1, <1>3, <2>1, FramesMoved
<1>4. ASSUME NEW f, NEW g, Called(t, f, g), g.fn \notin {"scope", "inst"}
      PROVE  /\ InStack(stack', S) <=> InStack(stack, S)
             /\ Lone(stack, S) => Lone(stack', S)
  <2>1. f \notin S /\ g \notin S
    BY <1>4 DEF Called
  <2> QED
    BY <1>1, <1>4, <2>1, FramesCalled
<1> QED
  BY <1>2, <1>3, <1>4

LEMMA ScopesKept ==
    ASSUME ScopeInv, SameScopes,
           UNCHANGED <<analyzedScopes, pendingException, tasks, main, scopeCalls, instanceNotes>>
    PROVE  ScopeInv'
<1>1. \A s, n : /\ \A f \in ScopeFrames(s) : f.fn \in {"scope", "inst"}
                /\ \A f \in Ahead(s, n) : f.fn \in {"scope", "inst"}
                /\ \A f \in Notifies(s) : f.fn \in {"scope", "inst"}
                /\ \A f \in InstFrames(s) : f.fn \in {"scope", "inst"}
  BY DEF ScopeFrames, Ahead, Notifies, InstFrames
<1>2. \A s, n : /\ InStack(stack', ScopeFrames(s)) <=> InStack(stack, ScopeFrames(s))
                /\ InStack(stack', Ahead(s, n)) <=> InStack(stack, Ahead(s, n))
                /\ InStack(stack', Notifies(s)) <=> InStack(stack, Notifies(s))
                /\ InStack(stack', InstFrames(s)) <=> InStack(stack, InstFrames(s))
                /\ Lone(stack, ScopeFrames(s)) => Lone(stack', ScopeFrames(s))
                /\ Lone(stack, InstFrames(s)) => Lone(stack', InstFrames(s))
  BY <1>1 DEF SameScopes
<1>3. ~Thrown => ScopesOK
  BY DEF ScopeInv
<1>4. ASSUME ~Thrown'
      PROVE  ScopesOK'
  <2>1. ScopesOK
    BY <1>3, <1>4 DEF Thrown
  <2>2. \A s \in Scopes : ScopeOK(s)'
    BY <1>2, <2>1 DEF ScopesOK, ScopeOK, Queued, Working, Announcing
  <2>3. \A s \in Scopes : \A n \in DOMAIN Members[s] : MemberOK(s, n)'
    BY <1>2, <2>1 DEF ScopesOK, MemberOK, Past, Noting
  <2> QED
    BY <1>2, <2>1, <2>2, <2>3 DEF ScopesOK, QueueOK
<1> QED
  BY <1>4 DEF ScopeInv, Done

\* A scope that is needed is started: queued, or worked on at once.
LEMMA ScopeStarted ==
    ASSUME ShapeInv, QueueOK, \A s \in Scopes : ScopeOK(s),
           NEW c \in ReachableScopes, UNCHANGED scopeCalls,
           analyzedScopes' = [analyzedScopes EXCEPT ![c] =
                                 IF analyzedScopes[c] = "absent" THEN "pending" ELSE @],
           tasks' = IF analyzedScopes[c] = "absent" /\ pooled THEN Append(tasks, c) ELSE tasks,
           \A s \in Scopes :
               /\ Working(s)' <=>
                      Working(s) \/ (s = c /\ analyzedScopes[c] = "absent" /\ ~pooled)
               /\ Lone(stack', ScopeFrames(s))
               /\ Announcing(s)' <=> Announcing(s)
    PROVE  QueueOK' /\ \A s \in Scopes : ScopeOK(s)'
<1> DEFINE new == analyzedScopes[c] = "absent"
<1>1. c \in Scopes /\ analyzedScopes \in [Scopes -> {"absent", "pending", "done"}]
  BY ReachableClosed DEF ShapeInv
<1>2. \A s \in Scopes : analyzedScopes'[s] = IF s = c /\ new THEN "pending" ELSE analyzedScopes[s]
  BY <1>1
<1>3. tasks \in Seq(Scopes) /\ Len(tasks) \in Nat
  BY DEF ShapeInv
<1>4. new => ~Queued(c)
  BY <1>1 DEF ScopeOK
<1>5. CASE new /\ pooled
  <2>1. /\ Len(tasks') = Len(tasks) + 1 /\ tasks'[Len(tasks) + 1] = c
        /\ \A k \in 1 .. Len(tasks) : tasks'[k] = tasks[k]
    BY <1>1, <1>3, <1>5, AppendProperties
  <2>2. /\ \A k \in 1 .. Len(tasks) + 1 : k = Len(tasks) + 1 \/ k \in 1 .. Len(tasks)
        /\ \A k \in 1 .. Len(tasks) : k \in 1 .. Len(tasks) + 1
        /\ Len(tasks) + 1 \in 1 .. Len(tasks) + 1
    BY <1>3
  <2>3. \A s : Queued(s)' <=> Queued(s) \/ s = c
    BY <2>1, <2>2 DEF Queued
  <2>4. QueueOK'
    BY <1>4, <1>5, <2>1, <2>2 DEF QueueOK, Queued
  <2>5. ASSUME NEW s \in Scopes
        PROVE  ScopeOK(s)'
    BY <1>1, <1>2, <1>5, <2>3 DEF ScopeOK
  <2> QED
    BY <2>4, <2>5
<1>6. CASE ~(new /\ pooled)
  <2>1. tasks' = tasks
    BY <1>6
  <2>2. QueueOK' /\ \A s : Queued(s)' <=> Queued(s)
    BY <2>1 DEF QueueOK, Queued
  <2>3. ASSUME NEW s \in Scopes
        PROVE  ScopeOK(s)'
    <3>1. CASE s = c /\ new
      BY <1>1, <1>2, <1>4, <1>6, <2>2, <3>1 DEF ScopeOK
    <3>2. CASE ~(s = c /\ new)
      BY <1>2, <2>2, <3>2 DEF ScopeOK
    <3> QED
      BY <3>1, <3>2
  <2> QED
    BY <2>2, <2>3
<1> QED
  BY <1>5, <1>6

\* Where the thread that visits a member is, and what it is past.
LEMMA AtMember ==
    ASSUME ShapeInv, \A s \in Scopes : ScopeOK(s), NEW t \in Threads, At(t, "scope", "members")
    PROVE  LET s == Top(t).item
           IN  /\ s \in Scopes /\ Working(s) /\ ~Queued(s)
               /\ analyzedScopes[s] = "pending" /\ ~Announcing(s) /\ s \in ReachableScopes
               /\ ~Beneath(t, ScopeFrames(s)) /\ Top(t) \in ScopeFrames(s)
               /\ \A n : Past(s, n) <=> Top(t).pos > n
<1> DEFINE s == Top(t).item
<1>1. /\ stack[t] # <<>> /\ Top(t) \in Frames /\ FrameOK(Top(t)) /\ Top(t).fn = "scope"
      /\ Top(t).pc = "members" /\ s \in Scopes
  BY AtTop DEF FrameOK
<1>2. Top(t) \in ScopeFrames(s) /\ Top(t) \notin Notifies(s)
  BY <1>1 DEF ScopeFrames, Notifies
<1>3. Working(s) /\ ~Beneath(t, ScopeFrames(s))
  BY <1>1, <1>2, TopAndBeneath DEF Working, ScopeOK
<1>4. ~Beneath(t, Notifies(s)) /\ \A n : ~Beneath(t, Ahead(s, n))
  BY <1>3 DEF Beneath, ScopeFrames, Notifies, Ahead
<1>5. ~Announcing(s)
  BY <1>1, <1>2, <1>4, TopAndBeneath DEF Announcing
<1>6. analyzedScopes[s] = "pending"
  BY <1>1, <1>3, <1>5 DEF ScopeOK, ShapeInv
<1>7. \A n : InStack(stack, Ahead(s, n)) <=> Top(t).pos > n
  <2>1. \A n : InStack(stack, Ahead(s, n)) <=> Top(t) \in Ahead(s, n)
    BY <1>1, <1>4, TopAndBeneath
  <2> QED
    BY <1>1, <2>1 DEF Ahead
<1> QED
  BY <1>1, <1>2, <1>3, <1>5, <1>6, <1>7 DEF ScopeOK, Past

LEMMA ScopeNotes ==
    ASSUME ShapeInv, ScopeInv, NEW t \in Threads, NoteInstance(t)
    PROVE  ScopeInv'
<1> DEFINE i == Top(t).item
<1>1. /\ stack[t] # <<>> /\ Top(t) \in Frames /\ FrameOK(Top(t)) /\ Top(t).fn = "inst"
      /\ i \in DOMAIN CanonicalBody
  BY AtTop DEF NoteInstance, FrameOK
<1>2. Popped(t)
  BY OtherSteps
<1>3. /\ UNCHANGED <<analyzedScopes, pendingException, tasks, main, scopeCalls>>
      /\ instanceNotes' = [instanceNotes EXCEPT ![i] = @ + 1]
  BY DEF NoteInstance, maps, pool
<1>4. \A S : /\ Top(t) \notin S => (InStack(stack', S) <=> InStack(stack, S))
             /\ Lone(stack, S) => Lone(stack', S)
             /\ Top(t) \in S /\ Lone(stack, S) => InStack(stack, S) /\ ~InStack(stack', S)
  BY <1>1, <1>2, FramesPopped, TopAndBeneath
<1>5. /\ \A s, n : /\ Top(t) \notin ScopeFrames(s) /\ Top(t) \notin Ahead(s, n)
                   /\ Top(t) \notin Notifies(s)
      /\ \A j : Top(t) \in InstFrames(j) <=> j = i
  BY <1>1 DEF ScopeFrames, Ahead, Notifies, InstFrames
<1>6. ASSUME ~Thrown'
      PROVE  ScopesOK'
  <2>1. ScopesOK
    BY <1>3, <1>6 DEF ScopeInv, Thrown
  <2>2. \A s \in Scopes : ScopeOK(s)'
    <3>1. \A s : /\ Queued(s)' <=> Queued(s)
                 /\ Working(s)' <=> Working(s)
                 /\ Announcing(s)' <=> Announcing(s)
                 /\ Lone(stack, ScopeFrames(s)) => Lone(stack', ScopeFrames(s))
      BY <1>3, <1>4, <1>5 DEF Queued, Working, Announcing
    <3> QED
      BY <1>3, <2>1, <3>1 DEF ScopesOK, ScopeOK
  <2>3. ASSUME NEW s \in Scopes, NEW n \in DOMAIN Members[s]
        PROVE  MemberOK(s, n)'
    <3> DEFINE m == Members[s][n]
    <3>1. Past(s, n)' <=> Past(s, n)
      BY <1>3, <1>4, <1>5 DEF Past
    <3>2. MemberOK(s, n) /\ Lone(stack, InstFrames(i))
      BY <1>1, <2>1 DEF ScopesOK
    <3>3. m \in AllMembers
      BY DEF MembersOf, AllMembers
    <3>4. ASSUME m.kind = "inst"
          PROVE  /\ Noting(m.item)' => Past(s, n)'
                 /\ instanceNotes'[m.item] = IF Past(s, n)' /\ ~Noting(m.item)' THEN 1 ELSE 0
      <4>1. m.item \in DOMAIN CanonicalBody
        BY <3>3, <3>4, MembersOK
      <4>2. CASE m.item = i
        <5>1. Noting(m.item) /\ ~Noting(m.item)'
          BY <1>4, <1>5, <3>2, <4>2 DEF Noting
        <5>2. instanceNotes[i] = 0 /\ Past(s, n)
          BY <3>2, <3>4, <4>2, <5>1 DEF MemberOK
        <5>3. instanceNotes'[i] = 1
          BY <1>1, <1>3, <5>2 DEF ScopeInv
        <5> QED
          BY <3>1, <4>2, <5>1, <5>2, <5>3
      <4>3. CASE m.item # i
        <5>1. Noting(m.item)' <=> Noting(m.item)
          BY <1>4, <1>5, <4>3 DEF Noting
        <5>2. instanceNotes'[m.item] = instanceNotes[m.item]
          BY <1>3, <4>1, <4>3 DEF ScopeInv
        <5> QED
          BY <3>1, <3>2, <3>4, <5>1, <5>2 DEF MemberOK
      <4> QED
        BY <4>2, <4>3
    <3> QED
      BY <1>3, <3>1, <3>2, <3>4 DEF MemberOK
  <2> QED
    BY <1>3, <1>4, <2>1, <2>2, <2>3 DEF ScopesOK, QueueOK
<1>7. instanceNotes' \in [DOMAIN CanonicalBody -> Nat]
  <2>1. PICK k \in Nat : k = instanceNotes[i] + 1
    BY <1>1 DEF ScopeInv
  <2>2. instanceNotes' = [instanceNotes EXCEPT ![i] = k]
    BY <1>3, <2>1
  <2> QED
    BY <2>1, <2>2 DEF ScopeInv
<1> QED
  BY <1>3, <1>6, <1>7 DEF ScopeInv, Done

LEMMA ScopePublishes ==
    ASSUME ShapeInv, ScopeInv, NEW t \in Threads, PublishScope(t)
    PROVE  ScopeInv'
<1> DEFINE s0 == Top(t).item
           g == [Top(t) EXCEPT !.pc = "notify"]
<1>1. /\ stack[t] # <<>> /\ Top(t) \in Frames /\ FrameOK(Top(t)) /\ Top(t).fn = "scope"
      /\ Top(t).pc = "members" /\ s0 \in Scopes /\ Top(t).pos > Len(Members[s0])
      /\ Top(t).pos \in Nat
  BY AtTop DEF PublishScope, FrameOK, Frames
<1>2. Moved(t, g)
  BY OtherSteps
<1>3. /\ UNCHANGED <<pendingException, tasks, main, scopeCalls, instanceNotes>>
      /\ analyzedScopes' = [analyzedScopes EXCEPT ![s0] = "done"]
  BY DEF PublishScope, pool, effects
<1>4. /\ g \in Frames /\ g.fn = "scope" /\ g.item = s0 /\ g.pc = "notify" /\ g.pos = Top(t).pos
  BY <1>1 DEF Frames
<1> HIDE DEF g
<1>5. \A S : /\ Top(t) \notin S /\ g \notin S => (InStack(stack', S) <=> InStack(stack, S))
             /\ g \in S => InStack(stack', S)
             /\ Lone(stack, S) /\ (g \in S => Top(t) \in S) => Lone(stack', S)
  BY <1>1, <1>2, FramesMoved, TopAndBeneath
<1>6. /\ \A s : /\ Top(t) \in ScopeFrames(s) <=> s = s0
                /\ g \in ScopeFrames(s) <=> s = s0
                /\ g \in Notifies(s) <=> s = s0
                /\ Top(t) \notin Notifies(s)
      /\ \A i : Top(t) \notin InstFrames(i) /\ g \notin InstFrames(i)
      /\ \A s, n : s # s0 => Top(t) \notin Ahead(s, n) /\ g \notin Ahead(s, n)
  BY <1>1, <1>4 DEF ScopeFrames, Ahead, Notifies, InstFrames
<1>7. ASSUME ~Thrown'
      PROVE  ScopesOK'
  <2>1. ScopesOK
    BY <1>3, <1>7 DEF ScopeInv, Thrown
  <2>2. At(t, "scope", "members") /\ \A s \in Scopes : ScopeOK(s)
    BY <2>1 DEF PublishScope, ScopesOK
  <2>3. /\ Working(s0) /\ ~Queued(s0) /\ analyzedScopes[s0] = "pending"
        /\ s0 \in ReachableScopes
        /\ \A n : Past(s0, n) <=> Top(t).pos > n
    BY <2>2, AtMember
  <2>4. \A s \in Scopes : analyzedScopes'[s] = IF s = s0 THEN "done" ELSE analyzedScopes[s]
    BY <1>1, <1>3 DEF ShapeInv
  <2>5. ASSUME NEW s \in Scopes
        PROVE  ScopeOK(s)'
    <3>1. /\ Queued(s)' <=> Queued(s)
          /\ Lone(stack', ScopeFrames(s))
      BY <1>3, <1>5, <1>6, <2>2 DEF Queued, ScopeOK
    <3>2. CASE s = s0
      <4>1. Working(s)' /\ Announcing(s)'
        BY <1>5, <1>6, <3>2 DEF Working, Announcing
      <4>2. scopeCalls[s] = 0
        BY <2>2, <2>3, <3>2 DEF ScopeOK
      <4> QED
        BY <1>3, <2>3, <2>4, <3>1, <3>2, <4>1, <4>2 DEF ScopeOK
    <3>3. CASE s # s0
      <4>1. (Working(s)' <=> Working(s)) /\ (Announcing(s)' <=> Announcing(s))
        BY <1>5, <1>6, <3>3 DEF Working, Announcing
      <4> QED
        BY <1>3, <2>2, <2>4, <3>1, <3>3, <4>1 DEF ScopeOK
    <3> QED
      BY <3>2, <3>3
  <2>6. ASSUME NEW s \in Scopes, NEW n \in DOMAIN Members[s]
        PROVE  MemberOK(s, n)'
    <3> DEFINE m == Members[s][n]
    <3>1. Past(s, n)' <=> Past(s, n)
      <4>1. CASE s = s0
        <5>1. Len(Members[s]) \in Nat /\ n \in 1 .. Len(Members[s])
          BY MembersOK, LenProperties
        <5>2. Top(t).pos > n
          BY <1>1, <4>1, <5>1
        <5> QED
          BY <2>3, <2>4, <4>1, <5>2 DEF Past
      <4>2. CASE s # s0
        BY <1>5, <1>6, <2>4, <4>2 DEF Past
      <4> QED
        BY <4>1, <4>2
    <3>2. MemberOK(s, n)
      BY <2>1 DEF ScopesOK
    <3>3. \A i : Noting(i)' <=> Noting(i)
      BY <1>5, <1>6 DEF Noting
    <3>4. m \in AllMembers
      BY DEF MembersOf, AllMembers
    <3>5. /\ m.kind = "scope" => m.item \in Scopes
          /\ m.kind = "inst" => CanonicalBody[m.item] \in Scopes
      BY <3>4, MembersOK
    <3> QED
      BY <1>3, <2>4, <3>1, <3>2, <3>3, <3>5 DEF MemberOK
  <2>7. \A i \in DOMAIN CanonicalBody : Lone(stack', InstFrames(i))
    BY <1>5, <1>6, <2>1 DEF ScopesOK
  <2>8. \A k \in DOMAIN Roots : k < main'.pos => analyzedScopes'[Roots[k]] # "absent"
    <3>1. \A k \in DOMAIN Roots : Roots[k] \in Scopes
      BY MembersOK
    <3> QED
      BY <1>3, <2>1, <2>4, <3>1 DEF ScopesOK
  <2> QED
    BY <1>3, <2>1, <2>5, <2>6, <2>7, <2>8 DEF ScopesOK, QueueOK
<1> QED
  BY <1>3, <1>7 DEF ScopeInv, Done

LEMMA ScopeNotifies ==
    ASSUME ShapeInv, ScopeInv, NEW t \in Threads, NotifyScope(t)
    PROVE  ScopeInv'
<1> DEFINE s0 == Top(t).item
<1>1. /\ stack[t] # <<>> /\ Top(t) \in Frames /\ FrameOK(Top(t)) /\ Top(t).fn = "scope"
      /\ Top(t).pc = "notify" /\ s0 \in Scopes
  BY AtTop DEF NotifyScope, FrameOK
<1>2. Popped(t)
  BY OtherSteps
<1>3. /\ UNCHANGED <<analyzedScopes, pendingException, tasks, main, instanceNotes>>
      /\ scopeCalls' = [scopeCalls EXCEPT ![s0] = @ + 1]
  BY DEF NotifyScope, maps, pool
<1>4. \A S : /\ Top(t) \notin S => (InStack(stack', S) <=> InStack(stack, S))
             /\ Lone(stack, S) => Lone(stack', S)
             /\ Top(t) \in S => InStack(stack, S)
             /\ Top(t) \in S /\ Lone(stack, S) => ~InStack(stack', S)
  BY <1>1, <1>2, FramesPopped, TopAndBeneath
<1>5. /\ \A s : /\ Top(t) \in ScopeFrames(s) <=> s = s0
                /\ Top(t) \in Notifies(s) <=> s = s0
      /\ \A s, n : s # s0 => Top(t) \notin Ahead(s, n)
      /\ \A i : Top(t) \notin InstFrames(i)
  BY <1>1 DEF ScopeFrames, Ahead, Notifies, InstFrames
<1>6. ASSUME ~Thrown'
      PROVE  ScopesOK'
  <2>1. ScopesOK
    BY <1>3, <1>6 DEF ScopeInv, Thrown
  <2>2. /\ ScopeOK(s0) /\ Working(s0) /\ Announcing(s0)
        /\ \A s : s = s0 => ~Working(s)'
    BY <1>1, <1>4, <1>5, <2>1 DEF ScopesOK, ScopeOK, Working, Announcing
  <2>3. /\ analyzedScopes[s0] = "done" /\ scopeCalls[s0] = 0 /\ ~Queued(s0)
        /\ \A s : s = s0 => ~Announcing(s)'
    <3>1. analyzedScopes[s0] = "done" /\ scopeCalls[s0] = 0 /\ ~Queued(s0)
      BY <2>2 DEF ScopeOK
    <3>2. \A s : s = s0 => ~Announcing(s)'
      BY <2>2 DEF Working, Announcing, InStack, ScopeFrames, Notifies
    <3> QED
      BY <3>1, <3>2
  <2>4. \A s \in Scopes : scopeCalls'[s] = IF s = s0 THEN 1 ELSE scopeCalls[s]
    BY <1>1, <1>3, <2>3 DEF ScopeInv
  <2>5. ASSUME NEW s \in Scopes
        PROVE  ScopeOK(s)'
    <3>1. /\ Queued(s)' <=> Queued(s)
          /\ Lone(stack', ScopeFrames(s)) /\ ScopeOK(s)
      BY <1>3, <1>4, <2>1 DEF Queued, ScopesOK, ScopeOK
    <3>2. CASE s = s0
      BY <1>3, <2>2, <2>3, <2>4, <3>1, <3>2 DEF ScopeOK
    <3>3. CASE s # s0
      <4>1. (Working(s)' <=> Working(s)) /\ (Announcing(s)' <=> Announcing(s))
        BY <1>4, <1>5, <3>3 DEF Working, Announcing
      <4> QED
        BY <1>3, <2>4, <3>1, <3>3, <4>1 DEF ScopeOK
    <3> QED
      BY <3>2, <3>3
  <2>6. ASSUME NEW s \in Scopes, NEW n \in DOMAIN Members[s]
        PROVE  MemberOK(s, n)'
    <3>1. Past(s, n)' <=> Past(s, n)
      BY <1>3, <1>4, <1>5, <2>3 DEF Past
    <3>2. \A i : Noting(i)' <=> Noting(i)
      BY <1>4, <1>5 DEF Noting
    <3>3. MemberOK(s, n)
      BY <2>1 DEF ScopesOK
    <3> QED
      BY <1>3, <3>1, <3>2, <3>3 DEF MemberOK
  <2> QED
    BY <1>3, <1>4, <2>1, <2>5, <2>6 DEF ScopesOK, QueueOK
<1>7. scopeCalls' \in [Scopes -> Nat]
  <2>1. PICK k \in Nat : k = scopeCalls[s0] + 1
    BY <1>1 DEF ScopeInv
  <2>2. scopeCalls' = [scopeCalls EXCEPT ![s0] = k]
    BY <1>3, <2>1
  <2> QED
    BY <2>1, <2>2 DEF ScopeInv
<1> QED
  BY <1>3, <1>6, <1>7 DEF ScopeInv, Done

LEMMA ScopeTaken ==
    ASSUME ShapeInv, ScopeInv, NEW t \in Workers, TakeTask(t)
    PROVE  ScopeInv'
<1> DEFINE g == ScopeFrame(tasks[1])
<1>1. /\ Len(tasks) \in Nat \ {0} /\ t \in Threads /\ tasks[1] \in Scopes
      /\ Len(tasks') = Len(tasks) - 1
      /\ \A k \in 1 .. Len(tasks) - 1 : tasks'[k] = tasks[k + 1]
      /\ Entered(t, g)
  BY TaskSteps
<1>2. UNCHANGED <<analyzedScopes, pendingException, main, scopeCalls, instanceNotes>>
  BY DEF TakeTask, maps, effects
<1>3. /\ g \in Frames /\ g.fn = "scope" /\ g.item = tasks[1] /\ g.pc = "members" /\ g.pos = 1
  BY <1>1, NewScope
<1>4. PICK c \in Scopes : c = tasks[1]
  BY <1>1
<1> HIDE DEF g
<1>5. \A S : /\ InStack(stack', S) <=> InStack(stack, S) \/ g \in S
             /\ Lone(stack, S) /\ (g \in S => ~InStack(stack, S)) => Lone(stack', S)
  <2>1. stack[t] = <<>>
    BY <1>1 DEF Entered
  <2> QED
    BY <1>1, <2>1, FramesEntered, TopAndBeneath
<1>6. /\ \A s : (g \in ScopeFrames(s) <=> s = c) /\ g \notin Notifies(s)
      /\ \A s : \A n \in Nat \ {0} : g \notin Ahead(s, n)
      /\ \A i : g \notin InstFrames(i)
  BY <1>3, <1>4 DEF ScopeFrames, Notifies, Ahead, InstFrames
<1>7. ASSUME ~Thrown'
      PROVE  ScopesOK'
  <2>1. ScopesOK
    BY <1>2, <1>7 DEF ScopeInv, Thrown
  <2>2. 1 \in 1 .. Len(tasks) /\ Queued(c)
    BY <1>1, <1>4 DEF Queued
  <2>3. \A s : Queued(s)' <=> Queued(s) /\ s # c
    <3>1. ASSUME NEW s, Queued(s)'
          PROVE  Queued(s) /\ s # c
      <4>1. PICK k \in 1 .. Len(tasks) - 1 : tasks'[k] = s
        BY <1>1, <3>1 DEF Queued
      <4>2. k + 1 \in 1 .. Len(tasks) /\ tasks[k + 1] = s /\ k + 1 # 1
        BY <1>1, <4>1
      <4>3. tasks[k + 1] # tasks[1]
        BY <2>1, <2>2, <4>2 DEF ScopesOK, QueueOK
      <4> QED
        BY <1>4, <4>2, <4>3 DEF Queued
    <3>2. ASSUME NEW s, Queued(s), s # c
          PROVE  Queued(s)'
      <4>1. PICK k \in 1 .. Len(tasks) : tasks[k] = s
        BY <3>2 DEF Queued
      <4>2. k # 1
        BY <1>4, <3>2, <4>1
      <4>3. k - 1 \in 1 .. Len(tasks) - 1 /\ k - 1 + 1 = k
        BY <1>1, <4>1, <4>2
      <4>4. tasks'[k - 1] = s
        BY <1>1, <4>1, <4>3
      <4> QED
        BY <1>1, <4>3, <4>4 DEF Queued
    <3> QED
      BY <3>1, <3>2
  <2>4. QueueOK'
    <3>1. \A j, k \in 1 .. Len(tasks') :
              /\ j + 1 \in 1 .. Len(tasks) /\ k + 1 \in 1 .. Len(tasks)
              /\ tasks'[j] = tasks[j + 1] /\ tasks'[k] = tasks[k + 1]
              /\ j + 1 = k + 1 => j = k
      BY <1>1
    <3> QED
      BY <2>1, <3>1 DEF ScopesOK, QueueOK
  <2>5. ASSUME NEW s \in Scopes
        PROVE  ScopeOK(s)'
    <3>1. ScopeOK(s) /\ ScopeOK(c)
      BY <2>1 DEF ScopesOK
    <3>2. ~Working(c)
      BY <2>2, <3>1 DEF ScopeOK
    <3>3. /\ Working(s)' <=> Working(s) \/ s = c
          /\ Announcing(s)' <=> Announcing(s)
      BY <1>5, <1>6 DEF Working, Announcing
    <3>4. Lone(stack', ScopeFrames(s))
      BY <1>5, <1>6, <3>1, <3>2 DEF Working, ScopeOK
    <3> QED
      BY <1>2, <2>2, <2>3, <3>1, <3>2, <3>3, <3>4 DEF ScopeOK
  <2>6. ASSUME NEW s \in Scopes, NEW n \in DOMAIN Members[s]
        PROVE  MemberOK(s, n)'
    <3>1. n \in Nat \ {0}
      BY MembersOK, LenProperties
    <3>2. Past(s, n)' <=> Past(s, n)
      BY <1>2, <1>5, <1>6, <3>1 DEF Past
    <3>3. \A i : Noting(i)' <=> Noting(i)
      BY <1>5, <1>6 DEF Noting
    <3>4. MemberOK(s, n)
      BY <2>1 DEF ScopesOK
    <3> QED
      BY <1>2, <3>2, <3>3, <3>4 DEF MemberOK
  <2> QED
    BY <1>2, <1>5, <1>6, <2>1, <2>4, <2>5, <2>6 DEF ScopesOK
<1> QED
  BY <1>2, <1>7 DEF ScopeInv, Done

LEMMA MembersStarted ==
    ASSUME \A s \in Scopes : \A n \in DOMAIN Members[s] : MemberOK(s, n),
           NEW s0 \in Scopes, NEW p0 \in DOMAIN Members[s0], ~Past(s0, p0),
           \A s \in Scopes : \A n \in DOMAIN Members[s] :
               Past(s, n)' <=> Past(s, n) \/ (s = s0 /\ n = p0),
           \A s \in Scopes : analyzedScopes[s] # "absent" => analyzedScopes'[s] # "absent",
           LET m0 == Members[s0][p0]
           IN  /\ m0.kind = "scope" => analyzedScopes'[m0.item] # "absent"
               /\ m0.kind = "inst" => analyzedScopes'[CanonicalBody[m0.item]] # "absent"
               /\ \A i : Noting(i)' <=> Noting(i) \/ (m0.kind = "inst" /\ i = m0.item),
           UNCHANGED instanceNotes
    PROVE  \A s \in Scopes : \A n \in DOMAIN Members[s] : MemberOK(s, n)'
<1> SUFFICES ASSUME NEW s \in Scopes, NEW n \in DOMAIN Members[s]
             PROVE  MemberOK(s, n)'
  OBVIOUS
<1> DEFINE m == Members[s][n]
           m0 == Members[s0][p0]
<1>1. m \in AllMembers
  BY DEF MembersOf, AllMembers
<1>2. /\ m.kind = "scope" => m.item \in Scopes
      /\ m.kind = "inst" => CanonicalBody[m.item] \in Scopes
  BY <1>1, MembersOK
<1>3. MemberOK(s, n)
  OBVIOUS
<1>4. CASE s = s0 /\ n = p0
  <2>1. Past(s, n)' /\ ~Past(s, n)
    BY <1>4
  <2>2. m.kind = "inst" => /\ Noting(m.item)' /\ instanceNotes[m.item] = 0
    BY <1>3, <1>4, <2>1 DEF MemberOK
  <2> QED
    BY <1>4, <2>1, <2>2 DEF MemberOK
<1>5. CASE ~(s = s0 /\ n = p0)
  <2>1. Past(s, n)' <=> Past(s, n)
    BY <1>5
  <2>2. ASSUME m.kind = "inst"
        PROVE  Noting(m.item)' <=> Noting(m.item)
    <3>1. ~(m0.kind = "inst" /\ m.item = m0.item)
      BY <1>5, <2>2, MembersDistinct
    <3> QED
      BY <3>1
  <2> QED
    BY <1>2, <1>3, <2>1, <2>2 DEF MemberOK
<1> QED
  BY <1>4, <1>5

Child(m) == IF m.kind = "scope" THEN m.item ELSE CanonicalBody[m.item]

\* Is the scope of the member worked on at once?
AtOnce(m) ==
    m.kind \in {"scope", "inst"} /\ analyzedScopes[Child(m)] = "absent" /\ ~pooled

LEMMA VisitFrames ==
    ASSUME ShapeInv, NEW t \in Threads, VisitMember(t),
           NEW S, \A f \in S : f.fn \in {"scope", "inst"}
    PROVE  LET m == NextMember(Top(t))
               a == PastMember(Top(t)) \in S
               b == m.kind = "inst" /\ MemberFrame(m) \in S
               c == AtOnce(m) /\ ScopeFrame(Child(m)) \in S
           IN  /\ InStack(stack', S) <=> Beneath(t, S) \/ a \/ b \/ c
               /\ Lone(stack, S) /\ ~(a /\ b) /\ ~(a /\ c) /\ ~(b /\ c)
                  /\ (a \/ b \/ c => ~Beneath(t, S)) => Lone(stack', S)
<1> DEFINE f == Top(t)
           m == NextMember(f)
<1>1. MemberSteps(t)
  BY MemberStep
<1>2. /\ stack[t] # <<>> /\ f \in Frames /\ FrameOK(f) /\ f.fn = "scope" /\ f.pc = "members"
      /\ f.pos <= Len(Members[f.item])
  BY AtTop DEF VisitMember
<1>3. m \in AllMembers
  BY <1>2, ScopeTop
<1>4. CASE m.kind = "scope"
  <2>1. CASE AtOnce(m)
    <3>1. Called(t, PastMember(f), ScopeFrame(Child(m)))
      BY <1>1, <1>4, <2>1 DEF MemberSteps, AtOnce, Child
    <3> QED
      BY <1>4, <2>1, <3>1, FramesCalled
  <2>2. CASE ~AtOnce(m)
    <3>1. Moved(t, PastMember(f))
      BY <1>1, <1>4, <2>2 DEF MemberSteps, AtOnce, Child
    <3> QED
      BY <1>4, <2>2, <3>1, FramesMoved
  <2> QED
    BY <2>1, <2>2
<1>5. CASE m.kind = "inst"
  <2>1. CASE AtOnce(m)
    <3>1. CalledTwo(t, PastMember(f), MemberFrame(m), ScopeFrame(Child(m)))
      BY <1>1, <1>5, <2>1 DEF MemberSteps, AtOnce, Child
    <3> QED
      BY <1>5, <2>1, <3>1, FramesCalledTwo
  <2>2. CASE ~AtOnce(m)
    <3>1. Called(t, PastMember(f), MemberFrame(m))
      BY <1>1, <1>5, <2>2 DEF MemberSteps, AtOnce, Child
    <3> QED
      BY <1>5, <2>2, <3>1, FramesCalled
  <2> QED
    BY <2>1, <2>2
<1>6. CASE m.kind \notin {"scope", "inst"}
  <2>1. Called(t, PastMember(f), MemberFrame(m)) /\ (m.kind = "expr" => ~m.timing)
    BY <1>1, <1>6 DEF MemberSteps
  <2>2. MemberFrame(m) \notin S
    BY <1>3, <1>6, <2>1, NewMember
  <2>3. ~AtOnce(m)
    BY <1>6 DEF AtOnce
  <2> QED
    BY <1>6, <2>1, <2>2, <2>3, FramesCalled
<1> QED
  BY <1>4, <1>5, <1>6

LEMMA ScopeVisits ==
    ASSUME ShapeInv, ScopeInv, NEW t \in Threads, VisitMember(t)
    PROVE  ScopeInv'
<1> DEFINE f == Top(t)
           m == NextMember(f)
           a == PastMember(f)
<1>1. /\ stack[t] # <<>> /\ f \in Frames /\ FrameOK(f) /\ f.fn = "scope" /\ f.pc = "members"
      /\ f.pos <= Len(Members[f.item]) /\ At(t, "scope", "members")
  BY AtTop DEF VisitMember
<1>2. /\ m \in AllMembers /\ f.item \in Scopes /\ f.pos \in DOMAIN Members[f.item]
      /\ f.pos \in Nat \ {0}
      /\ a \in Frames /\ a.fn = "scope" /\ a.item = f.item /\ a.pc = "members"
      /\ a.pos = f.pos + 1
  BY <1>1, ScopeTop
<1>3. UNCHANGED <<pendingException, main, scopeCalls, instanceNotes>>
  BY DEF VisitMember, pool, effects
<1>4. \A S : (\A g \in S : g.fn \in {"scope", "inst"}) =>
          LET b == m.kind = "inst" /\ MemberFrame(m) \in S
              c == AtOnce(m) /\ ScopeFrame(Child(m)) \in S
          IN  /\ InStack(stack', S) <=> Beneath(t, S) \/ a \in S \/ b \/ c
              /\ Lone(stack, S) /\ ~(a \in S /\ b) /\ ~(a \in S /\ c) /\ ~(b /\ c)
                 /\ (a \in S \/ b \/ c => ~Beneath(t, S)) => Lone(stack', S)
  BY VisitFrames
<1>5. PICK s0 \in Scopes, p0 \in Nat \ {0} :
          /\ s0 = f.item /\ p0 = f.pos /\ p0 \in DOMAIN Members[s0]
  BY <1>2
<1>6. /\ m = Members[s0][p0]
      /\ m.kind = "scope" => m.item \in Scopes
      /\ m.kind = "inst" => m.item \in DOMAIN CanonicalBody /\ CanonicalBody[m.item] \in Scopes
  BY <1>2, <1>5, MembersOK DEF NextMember
<1>7. \A S : InStack(stack, S) <=> Beneath(t, S) \/ f \in S
  BY <1>1, TopAndBeneath
<1>8. m.kind = "inst" => /\ MemberFrame(m) \in Frames /\ MemberFrame(m).fn = "inst"
                         /\ MemberFrame(m).item = m.item
  BY <1>2, NewMember
<1>9. m.kind \in {"scope", "inst"} =>
          /\ Child(m) \in Scopes /\ ScopeFrame(Child(m)) \in Frames
          /\ ScopeFrame(Child(m)).fn = "scope" /\ ScopeFrame(Child(m)).item = Child(m)
          /\ ScopeFrame(Child(m)).pc = "members" /\ ScopeFrame(Child(m)).pos = 1
  BY <1>6, NewScope DEF Child
<1>10. /\ AtOnce(m) => m.kind \in {"scope", "inst"} /\ analyzedScopes[Child(m)] = "absent"
       /\ AtOnce(m) => ~pooled
  BY DEF AtOnce
<1>11. PICK k \in {m.kind}, c \in {Child(m)}, i \in {m.item} : TRUE
  OBVIOUS
<1>12. CASE Thrown'
  <2>1. UNCHANGED <<scopeCalls, instanceNotes, main>>
    BY <1>3
  <2> QED
    BY <1>12, <2>1 DEF ScopeInv, Done
<1>13. CASE ~Thrown'
  <2>1. ScopesOK
    BY <1>3, <1>13 DEF ScopeInv, Thrown
  <2>2. \A s \in Scopes : ScopeOK(s)
    BY <2>1 DEF ScopesOK
  <2>3. /\ Working(s0) /\ analyzedScopes[s0] = "pending" /\ s0 \in ReachableScopes
        /\ ~Beneath(t, ScopeFrames(s0))
        /\ \A n : Past(s0, n) <=> p0 > n
    BY <1>1, <1>5, <2>2, AtMember
  <2> HIDE DEF f, m, a
  <2>4. AtOnce(m) => c # s0
    BY <1>10, <1>11, <2>3
  <2>5. \A s : /\ Working(s)' <=> Working(s) \/ (AtOnce(m) /\ s = c)
               /\ Announcing(s)' <=> Announcing(s)
    <3> SUFFICES ASSUME NEW s
                 PROVE  /\ Working(s)' <=> Working(s) \/ (AtOnce(m) /\ s = c)
                        /\ Announcing(s)' <=> Announcing(s)
      OBVIOUS
    <3>1. /\ f \in ScopeFrames(s) <=> s = s0
          /\ a \in ScopeFrames(s) <=> s = s0
          /\ m.kind = "inst" => MemberFrame(m) \notin ScopeFrames(s)
          /\ AtOnce(m) => (ScopeFrame(Child(m)) \in ScopeFrames(s) <=> s = c)
          /\ \A g \in ScopeFrames(s) : g.fn \in {"scope", "inst"}
      BY <1>1, <1>2, <1>5, <1>8, <1>9, <1>10, <1>11 DEF ScopeFrames
    <3>2. /\ f \notin Notifies(s) /\ a \notin Notifies(s)
          /\ m.kind = "inst" => MemberFrame(m) \notin Notifies(s)
          /\ AtOnce(m) => ScopeFrame(Child(m)) \notin Notifies(s)
          /\ \A g \in Notifies(s) : g.fn \in {"scope", "inst"}
      BY <1>1, <1>2, <1>5, <1>8, <1>9, <1>10, <1>11 DEF Notifies
    <3>3. Working(s)' <=> Working(s) \/ (AtOnce(m) /\ s = c)
      BY <1>4, <1>7, <3>1 DEF Working
    <3>4. Announcing(s)' <=> Announcing(s)
      BY <1>4, <1>7, <3>2 DEF Announcing
    <3> QED
      BY <3>3, <3>4
  <2>6. ASSUME NEW s \in Scopes
        PROVE  Lone(stack', ScopeFrames(s))
    <3>1. /\ f \in ScopeFrames(s) <=> s = s0
          /\ a \in ScopeFrames(s) <=> s = s0
          /\ m.kind = "inst" => MemberFrame(m) \notin ScopeFrames(s)
          /\ AtOnce(m) => (ScopeFrame(Child(m)) \in ScopeFrames(s) <=> s = c)
          /\ \A g \in ScopeFrames(s) : g.fn \in {"scope", "inst"}
      BY <1>1, <1>2, <1>5, <1>8, <1>9, <1>10, <1>11 DEF ScopeFrames
    <3>2. Lone(stack, ScopeFrames(s))
      BY <2>2 DEF ScopeOK
    <3>3. ASSUME AtOnce(m), s = c
          PROVE  ~Beneath(t, ScopeFrames(s))
      BY <1>7, <1>10, <1>11, <2>2, <3>3 DEF ScopeOK, Working
    <3> QED
      BY <1>4, <2>3, <2>4, <3>1, <3>2, <3>3
  <2>7. ASSUME NEW s \in Scopes, NEW n \in DOMAIN Members[s]
        PROVE  InStack(stack', Ahead(s, n)) <=>
                   InStack(stack, Ahead(s, n)) \/ (s = s0 /\ n = p0)
    <3>0. n \in Nat \ {0}
      BY MembersOK, LenProperties
    <3>1. /\ f \in Ahead(s, n) <=> s = s0 /\ p0 > n
          /\ a \in Ahead(s, n) <=> s = s0 /\ p0 + 1 > n
          /\ m.kind = "inst" => MemberFrame(m) \notin Ahead(s, n)
          /\ AtOnce(m) => ScopeFrame(Child(m)) \notin Ahead(s, n)
          /\ \A g \in Ahead(s, n) : g.fn \in {"scope", "inst"}
      BY <1>1, <1>2, <1>5, <1>8, <1>9, <1>10, <1>11, <3>0 DEF Ahead
    <3>2. p0 + 1 > n <=> p0 > n \/ n = p0
      BY <1>5, <3>0
    <3> QED
      BY <1>4, <1>7, <3>1, <3>2
  <2>8. \A j : /\ Noting(j)' <=> Noting(j) \/ (m.kind = "inst" /\ j = i)
               /\ Lone(stack, InstFrames(j)) /\ (m.kind = "inst" /\ j = i => ~Noting(j))
                      => Lone(stack', InstFrames(j))
    <3> SUFFICES ASSUME NEW j
                 PROVE  /\ Noting(j)' <=> Noting(j) \/ (m.kind = "inst" /\ j = i)
                        /\ Lone(stack, InstFrames(j)) /\ (m.kind = "inst" /\ j = i => ~Noting(j))
                               => Lone(stack', InstFrames(j))
      OBVIOUS
    <3>1. /\ f \notin InstFrames(j) /\ a \notin InstFrames(j)
          /\ m.kind = "inst" => (MemberFrame(m) \in InstFrames(j) <=> j = i)
          /\ AtOnce(m) => ScopeFrame(Child(m)) \notin InstFrames(j)
          /\ \A g \in InstFrames(j) : g.fn \in {"scope", "inst"}
      BY <1>1, <1>2, <1>5, <1>8, <1>9, <1>10, <1>11 DEF InstFrames
    <3> QED
      BY <1>4, <1>7, <3>1 DEF Noting
  <2>9. ~Past(s0, p0)
    BY <1>5, <2>3
  <2>10. MemberOK(s0, p0)
    BY <1>5, <2>1 DEF ScopesOK
  <2>11. \A j \in DOMAIN CanonicalBody : Lone(stack', InstFrames(j))
    <3>1. m.kind = "inst" => ~Noting(i)
      BY <1>6, <1>11, <2>9, <2>10 DEF MemberOK
    <3> QED
      BY <2>1, <2>8, <3>1 DEF ScopesOK
  <2>12. /\ QueueOK' /\ \A s \in Scopes : ScopeOK(s)'
         /\ \A s \in Scopes : analyzedScopes[s] # "absent" => analyzedScopes'[s] # "absent"
         /\ m.kind = "scope" => analyzedScopes'[m.item] # "absent"
         /\ m.kind = "inst" => analyzedScopes'[CanonicalBody[m.item]] # "absent"
         /\ analyzedScopes' = analyzedScopes \/ \E s \in Scopes : analyzedScopes[s] = "absent" /\
                analyzedScopes' = [analyzedScopes EXCEPT ![s] = "pending"]
    <3>1. CASE m.kind \in {"scope", "inst"}
      <4>1. c \in ReachableScopes /\ c \in Scopes
        BY <1>5, <1>6, <1>9, <1>11, <2>3, <3>1, ReachableClosed DEF Child
      <4>2. /\ analyzedScopes' = [analyzedScopes EXCEPT ![c] =
                                     IF analyzedScopes[c] = "absent" THEN "pending" ELSE @]
            /\ tasks' = IF analyzedScopes[c] = "absent" /\ pooled THEN Append(tasks, c) ELSE tasks
        BY <1>11, <3>1 DEF VisitMember, AnalyzeScopeAsync, Child, NextMember, f, m
      <4>3. AtOnce(m) <=> analyzedScopes[c] = "absent" /\ ~pooled
        BY <1>11, <3>1 DEF AtOnce
      <4>4. QueueOK' /\ \A s \in Scopes : ScopeOK(s)'
        <5>1. \A s \in Scopes :
                  /\ Working(s)' <=>
                         Working(s) \/ (s = c /\ analyzedScopes[c] = "absent" /\ ~pooled)
                  /\ Lone(stack', ScopeFrames(s))
                  /\ Announcing(s)' <=> Announcing(s)
          BY <2>5, <2>6, <4>3
        <5> QED
          BY <1>3, <2>1, <2>2, <4>1, <4>2, <5>1, ScopeStarted DEF ScopesOK
      <4>5. analyzedScopes'[c] # "absent"
        BY <4>1, <4>2 DEF ShapeInv
      <4>6. \A s \in Scopes : analyzedScopes[s] # "absent" => analyzedScopes'[s] # "absent"
        BY <4>1, <4>2 DEF ShapeInv
      <4>7. analyzedScopes' = analyzedScopes \/ \E s \in Scopes : analyzedScopes[s] = "absent" /\
                analyzedScopes' = [analyzedScopes EXCEPT ![s] = "pending"]
        BY <4>1, <4>2 DEF ShapeInv
      <4> QED
        BY <1>11, <4>4, <4>5, <4>6, <4>7 DEF Child
    <3>2. CASE m.kind \notin {"scope", "inst"}
      <4>1. UNCHANGED <<analyzedScopes, tasks>>
        BY <3>2 DEF VisitMember, NextMember, f, m, maps, pool
      <4>2. ~AtOnce(m)
        BY <3>2 DEF AtOnce
      <4>3. QueueOK' /\ \A s : Queued(s)' <=> Queued(s)
        BY <2>1, <4>1 DEF ScopesOK, QueueOK, Queued
      <4>4. ASSUME NEW s \in Scopes
            PROVE  ScopeOK(s)'
        BY <1>3, <2>2, <2>5, <2>6, <4>1, <4>2, <4>3 DEF ScopeOK
      <4> QED
        BY <3>2, <4>1, <4>3, <4>4
    <3> QED
      BY <3>1, <3>2
  <2>13. \A s \in Scopes : \A n \in DOMAIN Members[s] :
             Past(s, n)' <=> Past(s, n) \/ (s = s0 /\ n = p0)
    <3>1. \A s \in Scopes : analyzedScopes'[s] = "done" <=> analyzedScopes[s] = "done"
      BY <2>12 DEF ShapeInv
    <3> QED
      BY <2>7, <3>1 DEF Past
  <2>14. \A s \in Scopes : \A n \in DOMAIN Members[s] : MemberOK(s, n)'
    <3>1. \A j : Noting(j)' <=> Noting(j) \/ (m.kind = "inst" /\ j = m.item)
      BY <1>11, <2>8
    <3> QED
      BY <1>3, <1>5, <1>6, <2>1, <2>9, <2>12, <2>13, <3>1, MembersStarted DEF ScopesOK
  <2>15. \A k1 \in DOMAIN Roots : k1 < main'.pos => analyzedScopes'[Roots[k1]] # "absent"
    <3>1. \A k1 \in DOMAIN Roots : Roots[k1] \in Scopes
      BY MembersOK
    <3> QED
      BY <1>3, <2>1, <2>12, <3>1 DEF ScopesOK
  <2>16. ScopesOK'
    BY <2>11, <2>12, <2>14, <2>15 DEF ScopesOK
  <2> QED
    BY <1>3, <2>16 DEF ScopeInv, Done
<1> QED
  BY <1>12, <1>13

LEMMA ScopeRoots ==
    ASSUME ShapeInv, ScopeInv, AnalyzeRoot
    PROVE  ScopeInv'
<1> DEFINE root == Roots[main.pos]
           g == ScopeFrame(root)
<1>1. /\ Main \in Threads /\ root \in Scopes /\ stack[Main] = <<>> /\ main.pc = "analyze"
      /\ AnalyzeScopeAsync(Main, root, <<>>) /\ main.pos <= Len(Roots)
      /\ main.pos \in Nat \ {0} /\ main' = [main EXCEPT !.pos = @ + 1]
      /\ UNCHANGED <<pendingException, scopeCalls, instanceNotes>>
  BY TaskSteps DEF AnalyzeRoot, effects, ShapeInv
<1>2. /\ main.pos \in DOMAIN Roots /\ root \in ReachableScopes
      /\ main'.pos = main.pos + 1 /\ main'.pc = main.pc
  <2>1. main.pos \in DOMAIN Roots
    BY <1>1, MembersOK, LenProperties
  <2> QED
    BY <1>1, <2>1, ReachableClosed DEF ShapeInv
<1>3. PICK c \in ReachableScopes : c = root
  BY <1>2
<1>4. IF analyzedScopes[c] = "absent" /\ ~pooled THEN Entered(Main, g) ELSE stack' = stack
  BY <1>3, TaskSteps
<1>5. /\ c \in Scopes /\ g \in Frames /\ g.fn = "scope" /\ g.item = c /\ g.pc = "members"
      /\ g.pos = 1
  BY <1>1, <1>3, NewScope
<1> HIDE DEF g
<1>6. \A S : /\ InStack(stack', S) <=>
                    \/ InStack(stack, S)
                    \/ analyzedScopes[c] = "absent" /\ ~pooled /\ g \in S
             /\ Lone(stack, S) /\ (g \in S /\ analyzedScopes[c] = "absent" => ~InStack(stack, S))
                    => Lone(stack', S)
  <2>1. CASE analyzedScopes[c] = "absent" /\ ~pooled
    BY <1>1, <1>4, <2>1, FramesEntered, TopAndBeneath
  <2>2. CASE ~(analyzedScopes[c] = "absent" /\ ~pooled)
    BY <1>4, <2>2
  <2> QED
    BY <2>1, <2>2
<1>7. /\ \A s : (g \in ScopeFrames(s) <=> s = c) /\ g \notin Notifies(s)
      /\ \A s : \A n \in Nat \ {0} : g \notin Ahead(s, n)
      /\ \A i : g \notin InstFrames(i)
  BY <1>5 DEF ScopeFrames, Notifies, Ahead, InstFrames
<1>8. ASSUME ~Thrown'
      PROVE  ScopesOK'
  <2>1. ScopesOK
    BY <1>1, <1>2, <1>8 DEF ScopeInv, Thrown
  <2>2. /\ analyzedScopes' = [analyzedScopes EXCEPT ![c] =
                                 IF analyzedScopes[c] = "absent" THEN "pending" ELSE @]
        /\ tasks' = IF analyzedScopes[c] = "absent" /\ pooled THEN Append(tasks, c) ELSE tasks
    BY <1>1, <1>3 DEF AnalyzeScopeAsync
  <2>3. \A s \in Scopes :
            /\ Working(s)' <=>
                   Working(s) \/ (s = c /\ analyzedScopes[c] = "absent" /\ ~pooled)
            /\ Lone(stack', ScopeFrames(s))
            /\ Announcing(s)' <=> Announcing(s)
    BY <1>6, <1>7, <2>1 DEF Working, Announcing, ScopesOK, ScopeOK
  <2>4. QueueOK' /\ \A s \in Scopes : ScopeOK(s)'
    BY <1>1, <2>1, <2>2, <2>3, ScopeStarted DEF ScopesOK
  <2>5. /\ \A s \in Scopes : analyzedScopes[s] # "absent" => analyzedScopes'[s] # "absent"
        /\ \A s \in Scopes : analyzedScopes'[s] = "done" <=> analyzedScopes[s] = "done"
        /\ analyzedScopes'[c] # "absent"
    BY <1>5, <2>2 DEF ShapeInv
  <2>6. ASSUME NEW s \in Scopes, NEW n \in DOMAIN Members[s]
        PROVE  MemberOK(s, n)'
    <3> DEFINE m == Members[s][n]
    <3>1. n \in Nat \ {0}
      BY MembersOK, LenProperties
    <3>2. Past(s, n)' <=> Past(s, n)
      BY <1>6, <1>7, <2>5, <3>1 DEF Past
    <3>3. \A i : Noting(i)' <=> Noting(i)
      BY <1>6, <1>7 DEF Noting
    <3>4. MemberOK(s, n)
      BY <2>1 DEF ScopesOK
    <3>5. m \in AllMembers
      BY DEF MembersOf, AllMembers
    <3>6. /\ m.kind = "scope" => m.item \in Scopes
          /\ m.kind = "inst" => CanonicalBody[m.item] \in Scopes
      BY <3>5, MembersOK
    <3> QED
      BY <1>1, <2>5, <3>2, <3>3, <3>4, <3>6 DEF MemberOK
  <2>7. \A i \in DOMAIN CanonicalBody : Lone(stack', InstFrames(i))
    BY <1>6, <1>7, <2>1 DEF ScopesOK
  <2>8. ASSUME NEW k \in DOMAIN Roots, k < main'.pos
        PROVE  analyzedScopes'[Roots[k]] # "absent"
    <3>1. k \in Nat /\ Roots[k] \in Scopes
      BY MembersOK, LenProperties
    <3>2. k < main.pos \/ k = main.pos
      BY <1>1, <1>2, <2>8, <3>1
    <3>3. CASE k < main.pos
      BY <2>1, <2>5, <3>1, <3>3 DEF ScopesOK
    <3>4. CASE k = main.pos
      BY <1>3, <2>5, <3>4
    <3> QED
      BY <3>2, <3>3, <3>4
  <2> QED
    BY <2>4, <2>6, <2>7, <2>8 DEF ScopesOK
<1> QED
  BY <1>1, <1>2, <1>8 DEF ScopeInv, Done

LEMMA ScopeThrows ==
    ASSUME ShapeInv, ScopeInv, NEW t, Throw(t)
    PROVE  ScopeInv'
<1>1. UNCHANGED <<scopeCalls, instanceNotes>>
  BY DEF Throw, effects
<1>2. (pendingException' = TRUE /\ main' = main) \/ main'.pc = "threw"
  BY DEF Throw, ShapeInv
<1>3. Thrown' /\ (Done' => Done /\ main' = main)
  BY <1>2 DEF Thrown, Done
<1> QED
  BY <1>1, <1>3 DEF ScopeInv

LEMMA ScopeInit == Init => ScopeInv
<1> SUFFICES ASSUME Init PROVE ScopeInv
  OBVIOUS
<1>1. \A S : ~InStack(stack, S)
  BY DEF Init, InStack
<1>2. \A S : Lone(stack, S)
  BY DEF Init, Lone
<1>3. tasks = <<>> /\ Len(<<>>) = 0 /\ \A s : ~Queued(s)
  BY DEF Init, Queued
<1>4. main.pos = 1 /\ main.pc = "analyze"
  BY DEF Init
<1>5. \A s \in Scopes : ScopeOK(s)
  BY <1>1, <1>2, <1>3 DEF Init, ScopeOK, Working, Announcing
<1>6. ASSUME NEW s \in Scopes, NEW n \in DOMAIN Members[s]
      PROVE  MemberOK(s, n)
  <2>1. Members[s][n] \in AllMembers
    BY DEF MembersOf, AllMembers
  <2>2. Members[s][n].kind = "inst" => instanceNotes[Members[s][n].item] = 0
    BY <2>1, MembersOK DEF Init
  <2>3. ~Past(s, n) /\ \A i : ~Noting(i)
    BY <1>1 DEF Init, Past, Noting
  <2> QED
    BY <2>2, <2>3 DEF MemberOK
<1>7. \A k \in DOMAIN Roots : ~(k < main.pos)
  BY <1>4, MembersOK, LenProperties
<1>8. QueueOK
  BY <1>3 DEF QueueOK
<1>9. /\ scopeCalls \in [Scopes -> Nat] /\ instanceNotes \in [DOMAIN CanonicalBody -> Nat]
      /\ ~Done
  BY <1>4 DEF Init, Done
<1> QED
  BY <1>2, <1>5, <1>6, <1>7, <1>8, <1>9 DEF ScopeInv, ScopesOK

LEMMA ScopeThreadStep ==
    ASSUME ShapeInv, ScopeInv, NEW t \in Threads, Step(t)
    PROVE  ScopeInv'
<1>1. CASE VisitMember(t)
  BY <1>1, ScopeVisits
<1>2. CASE MemberThrows(t)
  BY <1>2, ScopeThrows DEF MemberThrows
<1>3. CASE NoteInstance(t)
  BY <1>3, ScopeNotes
<1>4. CASE PublishScope(t)
  BY <1>4, ScopePublishes
<1>5. CASE NotifyScope(t)
  BY <1>5, ScopeNotifies
<1>6. CASE AnalyzeProcedure(t) /\ Top(t).item \in throwing
  BY <1>6, ScopeThrows DEF AnalyzeProcedure
<1>7. CASE \/ LookupSubroutine(t) \/ EmplaceSubroutine(t)
           \/ AddSubroutineDrivers(t) \/ NotifySubroutine(t)
  <2>1. stack[t] # <<>> /\ Top(t).fn = "sub"
    BY <1>7 DEF LookupSubroutine, EmplaceSubroutine, AddSubroutineDrivers, NotifySubroutine, At
  <2>2. Popped(t) \/ \E f : Moved(t, f)
    BY <1>7, SubroutineSteps
  <2>3. UNCHANGED <<analyzedScopes, pendingException, tasks, main, scopeCalls, instanceNotes>>
    BY <1>7 DEF LookupSubroutine, EmplaceSubroutine, AddSubroutineDrivers,
                NotifySubroutine, maps, pool, effects
  <2> QED
    BY <2>1, <2>2, <2>3, OtherFrames, ScopesKept
<1>9. CASE AnalyzeProcedure(t)
  <2>1. CASE Top(t).item \notin throwing
    <3>1. stack[t] # <<>> /\ Top(t).fn = "sub"
      BY <1>9 DEF AnalyzeProcedure, At
    <3>2. Popped(t) \/ \E f : Moved(t, f)
      BY <1>9, <2>1, SubroutineSteps
    <3>3. UNCHANGED <<analyzedScopes, pendingException, tasks, main, scopeCalls, instanceNotes>>
      BY <1>9, <2>1 DEF AnalyzeProcedure, maps, pool, effects
    <3> QED
      BY <3>1, <3>2, <3>3, OtherFrames, ScopesKept
  <2> QED
    BY <1>6, <1>9, <2>1
<1>8. CASE \/ NextTaskCall(t) \/ VisitTask(t) \/ CollectControls(t) \/ VisitCall(t)
           \/ CollectDrivers(t) \/ FinishCaller(t) \/ AnalyzeResolution(t) \/ CheckNetType(t)
  <2>1. stack[t] # <<>> /\ Top(t).fn \in {"proc", "expr", "nettype"}
    BY <1>8 DEF NextTaskCall, VisitTask, CollectControls, VisitCall, CollectDrivers,
                FinishCaller, AnalyzeResolution, CheckNetType, At
  <2>2. \/ Popped(t)
        \/ \E f : Moved(t, f)
        \/ \E f, h : Called(t, f, Frame("sub", h, "lookup", <<>>))
    BY <1>8, TimingSteps, WalkSteps, OtherSteps
  <2>3. \A h : Frame("sub", h, "lookup", <<>>).fn = "sub"
    BY DEF Frame
  <2>4. \/ Popped(t)
        \/ \E f : Moved(t, f)
        \/ \E f, g : Called(t, f, g) /\ g.fn = "sub"
    BY <2>2, <2>3
  <2>5. UNCHANGED <<analyzedScopes, pendingException, tasks, main, scopeCalls, instanceNotes>>
    BY <1>8 DEF NextTaskCall, VisitTask, CollectControls, VisitCall, CollectDrivers,
                FinishCaller, AnalyzeResolution, CheckNetType, maps, pool, effects
  <2> QED
    BY <2>1, <2>4, <2>5, OtherFrames, ScopesKept
<1>10. Step(t)
  OBVIOUS
<1> QED
  BY <1>1, <1>2, <1>3, <1>4, <1>5, <1>7, <1>8, <1>9, <1>10 DEF Step

LEMMA ScopeStep == ShapeInv /\ ScopeInv /\ [Next]_vars => ScopeInv'
<1> SUFFICES ASSUME ShapeInv, ScopeInv, [Next]_vars PROVE ScopeInv'
  OBVIOUS
<1>1. CASE Wait
  <2>1. /\ UNCHANGED <<stack, analyzedScopes, pendingException, tasks, scopeCalls, instanceNotes>>
        /\ main.pos > Len(Roots) /\ main.pc = "analyze"
        /\ main'.pos = main.pos /\ main'.pc = IF pendingException THEN "threw" ELSE "done"
    BY <1>1 DEF Wait, maps, pool, effects, ShapeInv
  <2>2. ASSUME ~Thrown'
        PROVE  ScopesOK'
    <3>1. ScopesOK
      BY <2>1, <2>2 DEF ScopeInv, Thrown
    <3>2. /\ \A s \in Scopes : ScopeOK(s)'
          /\ \A s \in Scopes : \A n \in DOMAIN Members[s] : MemberOK(s, n)'
      BY <2>1, <3>1 DEF ScopesOK, ScopeOK, MemberOK, Queued, Working, Announcing, Past, Noting
    <3> QED
      BY <2>1, <3>1, <3>2 DEF ScopesOK, QueueOK
  <2> QED
    BY <2>1, <2>2 DEF ScopeInv
<1>2. CASE UNCHANGED vars
  <2>1. SameScopes
    BY <1>2 DEF vars, SameScopes
  <2> QED
    BY <1>2, <2>1, ScopesKept DEF vars, maps, pool, effects
<1> QED
  BY <1>1, <1>2, ScopeRoots, ScopeTaken, ScopeThreadStep DEF Next, Stutter

\* When analyze() returns, every scope the design reaches has a result and was announced to the
\* listeners once, its instances were noted once, and nobody is at work.
THEOREM AllReached == Spec => []EverythingAnalyzed
<1>1. Init => ShapeInv /\ ScopeInv
  BY ShapeInit, ScopeInit
<1>2. ShapeInv /\ ScopeInv /\ [Next]_vars => (ShapeInv /\ ScopeInv)'
  BY ShapeStep, ScopeStep
<1> QED
  BY <1>1, <1>2, AllAnalyzed, PTL DEF Spec
-----------------------------------------------------------------------------
(***************************************************************************)
(* The walks over calls.  A procedure walks the functions it reaches, and  *)
(* before that, one call at a time, the tasks it reaches.                  *)
(***************************************************************************)
LEMMA ReachedClosed ==
    ASSUME NEW calls, NEW kind
    PROVE  /\ Reached(calls, kind) \subseteq kind /\ calls \cap kind \subseteq Reached(calls, kind)
           /\ \A f \in Reached(calls, kind) :
                  ToSet(Subs[f].calls) \cap kind \subseteq Reached(calls, kind)
<1> DEFINE Closed(C) == /\ calls \cap kind \subseteq C
                        /\ \A f \in C : ToSet(Subs[f].calls) \cap kind \subseteq C
<1>1. Reached(calls, kind) = {f \in kind : \A C \in SUBSET kind : Closed(C) => f \in C}
  BY DEF Reached
<1>2. ASSUME NEW f \in Reached(calls, kind), NEW g \in ToSet(Subs[f].calls) \cap kind
      PROVE  g \in Reached(calls, kind)
  <2>1. ASSUME NEW C \in SUBSET kind, Closed(C)
        PROVE  g \in C
    BY <1>1, <2>1
  <2> HIDE DEF Closed
  <2> QED
    BY <1>1, <2>1
<1> QED
  BY <1>1, <1>2

LEMMA ReachedLeast ==
    ASSUME NEW calls, NEW kind, NEW C \in SUBSET kind, calls \cap kind \subseteq C,
           \A f \in C : ToSet(Subs[f].calls) \cap kind \subseteq C
    PROVE  Reached(calls, kind) \subseteq C
  BY DEF Reached

LEMMA ToSetFacts ==
    /\ ToSet(<<>>) = {} /\ \A x : ToSet(<<x>>) = {x}
    /\ \A c, d \in CallLists : ToSet(c \o d) = ToSet(c) \cup ToSet(d)
    /\ \A c \in CallLists :
           /\ ToSet(c) \subseteq DOMAIN Subs
           /\ c # <<>> => /\ Tail(c) \in CallLists /\ Head(c) \in DOMAIN Subs
                          /\ ToSet(c) = {Head(c)} \cup ToSet(Tail(c))
<1>1. ToSet(<<>>) = {} /\ \A x : ToSet(<<x>>) = {x}
  BY DEF ToSet
<1>2. ASSUME NEW c \in CallLists, NEW d \in CallLists
      PROVE  ToSet(c \o d) = ToSet(c) \cup ToSet(d)
  <2>1. PICK m \in Nat, n \in Nat : /\ m = Len(c) /\ DOMAIN c = 1 .. m
                                    /\ n = Len(d) /\ DOMAIN d = 1 .. n
    BY LenProperties DEF CallLists
  <2>2. /\ DOMAIN (c \o d) = 1 .. m + n
        /\ \A k \in 1 .. m + n : (c \o d)[k] = IF k <= m THEN c[k] ELSE d[k - m]
    BY <2>1, ConcatProperties, LenProperties DEF CallLists
  <2>3. /\ \A k \in 1 .. m : k \in 1 .. m + n /\ k <= m
        /\ \A k \in 1 .. n : k + m \in 1 .. m + n /\ ~(k + m <= m) /\ k + m - m = k
        /\ \A k \in 1 .. m + n : IF k <= m THEN k \in 1 .. m ELSE k - m \in 1 .. n
    BY <2>1
  <2>4. \A k \in 1 .. m : (c \o d)[k] = c[k]
    BY <2>2, <2>3
  <2>5. \A k \in 1 .. n : (c \o d)[k + m] = d[k]
    BY <2>2, <2>3
  <2>6. \A k \in 1 .. m + n : (c \o d)[k] \in ToSet(c) \cup ToSet(d)
    BY <2>1, <2>2, <2>3 DEF ToSet
  <2> QED
    BY <2>1, <2>2, <2>3, <2>4, <2>5, <2>6 DEF ToSet
<1>3. ASSUME NEW c \in CallLists
      PROVE  ToSet(c) \subseteq DOMAIN Subs
  BY DEF ToSet, CallLists
<1>4. ASSUME NEW c \in CallLists, c # <<>>
      PROVE  /\ Tail(c) \in CallLists /\ Head(c) \in DOMAIN Subs
             /\ ToSet(c) = {Head(c)} \cup ToSet(Tail(c))
  <2>1. /\ Tail(c) \in CallLists /\ Head(c) \in DOMAIN Subs /\ <<Head(c)>> \in CallLists
        /\ <<Head(c)>> \o Tail(c) = c
    BY <1>4, HeadTailProperties, ConcatProperties DEF CallLists
  <2> QED
    BY <1>1, <1>2, <2>1
<1> QED
  BY <1>1, <1>2, <1>3, <1>4

\* The walk over functions: all it visits is reached, and what it does not have yet is in todo.
WalkOK(f) ==
    LET R == Reached(ToSet(f.calls), Functions)
        known == f.seen \cup ToSet(f.todo)
    IN  /\ f.seen \subseteq R /\ ToSet(f.todo) \cap Functions \subseteq R
        /\ f.seen = f.got \cup (IF f.pc = "collect" THEN {Head(f.todo)} ELSE {})
        /\ ToSet(f.calls) \cap Functions \subseteq known
        /\ \A g \in f.got : ToSet(Subs[g].calls) \cap Functions \subseteq known

\* The walk over tasks: it stops at the first with a delay.
TimingOK(f) ==
    LET R == Reached(ToSet(f.calls), Tasks)
        known == f.seen \cup ToSet(f.todo)
    IN  /\ f.seen \subseteq R /\ ToSet(f.todo) \cap Tasks \subseteq R
        /\ f.got \subseteq f.seen /\ \A g \in f.got : Subs[g].timed
        /\ f.pc = "controls" => Head(f.todo) \in f.seen
        /\ f.got = {} => \A g \in f.seen :
               \/ f.pc = "controls" /\ g = Head(f.todo)
               \/ ~Subs[g].timed /\ ToSet(Subs[g].calls) \cap Tasks \subseteq known
        /\ \A k \in DOMAIN f.calls : k < f.pos /\ f.calls[k] \in Tasks => f.calls[k] \in known

ProcOK(f) ==
    /\ f.pc \in {"next", "collect"} => WalkOK(f)
    /\ f.pc \in {"timing", "controls"} => TimingOK(f)

HasDelay(calls) == \E g \in Reached(ToSet(calls), Tasks) : Subs[g].timed

\* The steps of the walk over functions, ...
LEMMA WalkFrames ==
    ASSUME NEW f \in Frames, ProcOK(f)
    PROVE  /\ ProcOK(Walk(f))
           /\ f.todo # <<>> /\ f.pc = "next" =>
                  /\ Head(f.todo) \notin Functions \/ Head(f.todo) \in f.seen
                         => ProcOK(SkipFrame(f))
                  /\ Head(f.todo) \in Functions => ProcOK(CollectFrame(f))
           /\ f.todo # <<>> /\ f.pc = "collect" => ProcOK(NextFrame(f))
           /\ f.todo = <<>> /\ f.pc = "next" => f.got = Reached(ToSet(f.calls), Functions)
<1> DEFINE R == Reached(ToSet(f.calls), Functions)
           known == f.seen \cup ToSet(f.todo)
<1>1. f.calls \in CallLists /\ f.todo \in CallLists
  BY DEF Frames
<1>2. /\ R \subseteq Functions /\ ToSet(f.calls) \cap Functions \subseteq R
      /\ \A g \in R : ToSet(Subs[g].calls) \cap Functions \subseteq R
  BY ReachedClosed
<1>3. ASSUME f.todo # <<>>
      PROVE  /\ Tail(f.todo) \in CallLists /\ Head(f.todo) \in DOMAIN Subs
             /\ ToSet(f.todo) = {Head(f.todo)} \cup ToSet(Tail(f.todo))
             /\ ToSet(Subs[Head(f.todo)].calls \o Tail(f.todo)) =
                    ToSet(Subs[Head(f.todo)].calls) \cup ToSet(Tail(f.todo))
  BY <1>1, <1>3, ToSetFacts, MembersOK DEF CallLists
<1>4. ProcOK(Walk(f))
  <2>1. /\ Walk(f).pc = "next" /\ Walk(f).todo = f.calls /\ Walk(f).calls = f.calls
        /\ Walk(f).seen = {} /\ Walk(f).got = {}
    BY DEF Walk, Frames
  <2> QED
    BY <1>2, <2>1 DEF ProcOK, WalkOK
<1>5. f.pc \in {"next", "collect"} =>
          /\ f.seen \subseteq R /\ ToSet(f.todo) \cap Functions \subseteq R
          /\ f.seen = f.got \cup (IF f.pc = "collect" THEN {Head(f.todo)} ELSE {})
          /\ ToSet(f.calls) \cap Functions \subseteq known
          /\ \A g \in f.got : ToSet(Subs[g].calls) \cap Functions \subseteq known
  BY DEF ProcOK, WalkOK
<1>6. ASSUME f.todo # <<>>, f.pc = "next", Head(f.todo) \notin Functions \/ Head(f.todo) \in f.seen
      PROVE  ProcOK(SkipFrame(f))
  <2>1. /\ SkipFrame(f).pc = "next" /\ SkipFrame(f).todo = Tail(f.todo)
        /\ SkipFrame(f).calls = f.calls /\ SkipFrame(f).seen = f.seen /\ SkipFrame(f).got = f.got
    BY <1>6 DEF SkipFrame, Frames
  <2> DEFINE k == f.seen \cup ToSet(Tail(f.todo))
  <2>2. \A g \in Functions : g \in known => g \in k
    BY <1>3, <1>6
  <2> HIDE DEF k, known
  <2>3. /\ ToSet(f.calls) \cap Functions \subseteq k
        /\ \A g \in f.got : ToSet(Subs[g].calls) \cap Functions \subseteq k
    BY <1>5, <1>6, <2>2
  <2>4. ToSet(Tail(f.todo)) \cap Functions \subseteq R
    BY <1>3, <1>5, <1>6
  <2> QED
    BY <1>5, <1>6, <2>1, <2>3, <2>4 DEF ProcOK, WalkOK, k
<1>7. ASSUME f.todo # <<>>, f.pc = "next", Head(f.todo) \in Functions
      PROVE  ProcOK(CollectFrame(f))
  <2>1. /\ CollectFrame(f).pc = "collect" /\ CollectFrame(f).todo = f.todo
        /\ CollectFrame(f).calls = f.calls /\ CollectFrame(f).got = f.got
        /\ CollectFrame(f).seen = f.seen \cup {Head(f.todo)}
    BY <1>7 DEF CollectFrame, Frames
  <2>2. Head(f.todo) \in R
    BY <1>3, <1>5, <1>7
  <2>3. f.seen = f.got
    BY <1>5, <1>7
  <2> QED
    BY <1>5, <1>7, <2>1, <2>2, <2>3 DEF ProcOK, WalkOK
<1>8. ASSUME f.todo # <<>>, f.pc = "collect"
      PROVE  ProcOK(NextFrame(f))
  <2> DEFINE h == Head(f.todo)
             k == f.seen \cup ToSet(Subs[h].calls) \cup ToSet(Tail(f.todo))
  <2>1. /\ NextFrame(f).pc = "next" /\ NextFrame(f).todo = Subs[h].calls \o Tail(f.todo)
        /\ NextFrame(f).calls = f.calls /\ NextFrame(f).got = f.got \cup {h}
        /\ NextFrame(f).seen = f.seen
    BY <1>8 DEF NextFrame, Frames
  <2>2. f.seen = f.got \cup {h} /\ h \in R
    BY <1>5, <1>8
  <2>3. NextFrame(f).seen \cup ToSet(NextFrame(f).todo) = k
    BY <1>3, <1>8, <2>1
  <2>4. known \subseteq k
    BY <1>3, <1>8, <2>2
  <2>5. ToSet(NextFrame(f).todo) \cap Functions \subseteq R
    BY <1>2, <1>3, <1>5, <1>8, <2>1, <2>2
  <2>6. \A g \in f.got \cup {h} : ToSet(Subs[g].calls) \cap Functions \subseteq k
    BY <1>5, <1>8, <2>4
  <2> HIDE DEF k, h
  <2> QED
    BY <1>5, <1>8, <2>1, <2>2, <2>3, <2>4, <2>5, <2>6 DEF ProcOK, WalkOK
<1>9. ASSUME f.todo = <<>>, f.pc = "next"
      PROVE  f.got = R
  <2>1. ToSet(f.todo) = {}
    BY <1>9, ToSetFacts
  <2>2. f.seen = f.got /\ known = f.got /\ f.got \subseteq R
    BY <1>5, <1>9, <2>1
  <2>3. R \subseteq f.got
    BY <1>2, <1>5, <1>9, <2>2, ReachedLeast
  <2> QED
    BY <2>2, <2>3
<1> QED
  BY <1>4, <1>6, <1>7, <1>8, <1>9

\* ... and of the walk over tasks.
LEMMA TimingFrames ==
    ASSUME NEW f \in Frames, ProcOK(f)
    PROVE  /\ f.todo = <<>> /\ f.pc = "timing" =>
                  /\ f.got = {} /\ f.pos <= Len(f.calls) => ProcOK(TaskFrame(f))
                  /\ f.got # {} => HasDelay(f.calls)
                  /\ f.got = {} /\ f.pos > Len(f.calls) => ~HasDelay(f.calls)
           /\ f.todo # <<>> /\ f.pc = "timing" =>
                  /\ Head(f.todo) \notin Tasks \/ Head(f.todo) \in f.seen => ProcOK(SkipFrame(f))
                  /\ Head(f.todo) \in Tasks => ProcOK(ControlsFrame(f))
           /\ f.todo # <<>> /\ f.pc = "controls" => ProcOK(TimingFrame(f))
<1> DEFINE R == Reached(ToSet(f.calls), Tasks)
           known == f.seen \cup ToSet(f.todo)
<1>1. /\ f.calls \in CallLists /\ f.todo \in CallLists /\ f.pos \in Nat \ {0}
      /\ Len(f.calls) \in Nat /\ DOMAIN f.calls = 1 .. Len(f.calls)
  BY LenProperties DEF Frames, CallLists
<1>2. /\ R \subseteq Tasks /\ ToSet(f.calls) \cap Tasks \subseteq R
      /\ \A g \in R : ToSet(Subs[g].calls) \cap Tasks \subseteq R
  BY ReachedClosed
<1>3. ASSUME f.todo # <<>>
      PROVE  /\ Tail(f.todo) \in CallLists /\ Head(f.todo) \in DOMAIN Subs
             /\ ToSet(f.todo) = {Head(f.todo)} \cup ToSet(Tail(f.todo))
             /\ ToSet(Subs[Head(f.todo)].calls \o Tail(f.todo)) =
                    ToSet(Subs[Head(f.todo)].calls) \cup ToSet(Tail(f.todo))
  BY <1>1, <1>3, ToSetFacts, MembersOK DEF CallLists
<1>4. f.pc \in {"timing", "controls"} =>
          /\ f.seen \subseteq R /\ ToSet(f.todo) \cap Tasks \subseteq R
          /\ f.got \subseteq f.seen /\ \A g \in f.got : Subs[g].timed
          /\ f.pc = "controls" => Head(f.todo) \in f.seen
          /\ f.got = {} => \A g \in f.seen :
                 \/ f.pc = "controls" /\ g = Head(f.todo)
                 \/ ~Subs[g].timed /\ ToSet(Subs[g].calls) \cap Tasks \subseteq known
          /\ \A k \in DOMAIN f.calls : k < f.pos /\ f.calls[k] \in Tasks => f.calls[k] \in known
  BY DEF ProcOK, TimingOK
<1>5. ASSUME f.todo = <<>>, f.pc = "timing"
      PROVE  known = f.seen
  BY <1>5, ToSetFacts
<1>6. ASSUME f.todo = <<>>, f.pc = "timing", f.got = {}, f.pos <= Len(f.calls)
      PROVE  ProcOK(TaskFrame(f))
  <2> DEFINE c == f.calls[f.pos]
             k == f.seen \cup {c}
  <2>1. /\ TaskFrame(f).pc = "timing" /\ TaskFrame(f).todo = <<c>> /\ TaskFrame(f).calls = f.calls
        /\ TaskFrame(f).seen = f.seen /\ TaskFrame(f).got = f.got
        /\ TaskFrame(f).pos = f.pos + 1 /\ ToSet(<<c>>) = {c}
    BY <1>6, ToSetFacts DEF TaskFrame, Frames
  <2>2. f.pos \in DOMAIN f.calls /\ c \in ToSet(f.calls)
    BY <1>1, <1>6 DEF ToSet
  <2>3. \A j \in DOMAIN f.calls : j < f.pos + 1 => j < f.pos \/ j = f.pos
    BY <1>1
  <2>4. \A j \in DOMAIN f.calls : j < f.pos + 1 /\ f.calls[j] \in Tasks => f.calls[j] \in k
    BY <1>4, <1>5, <1>6, <2>3
  <2>5. {c} \cap Tasks \subseteq R
    BY <1>2, <2>2
  <2> HIDE DEF c
  <2> QED
    BY <1>4, <1>5, <1>6, <2>1, <2>4, <2>5 DEF ProcOK, TimingOK
<1>7. ASSUME f.pc = "timing", f.got # {}
      PROVE  HasDelay(f.calls)
  BY <1>4, <1>7 DEF HasDelay
<1>8. ASSUME f.todo = <<>>, f.pc = "timing", f.got = {}, f.pos > Len(f.calls)
      PROVE  ~HasDelay(f.calls)
  <2>1. ToSet(f.calls) \cap Tasks \subseteq f.seen
    <3>1. \A k \in DOMAIN f.calls : k < f.pos
      BY <1>1, <1>8
    <3> QED
      BY <1>4, <1>5, <1>8, <3>1 DEF ToSet
  <2>2. \A g \in f.seen : ~Subs[g].timed /\ ToSet(Subs[g].calls) \cap Tasks \subseteq f.seen
    BY <1>4, <1>5, <1>8
  <2>3. R \subseteq f.seen
    BY <1>2, <1>4, <1>8, <2>1, <2>2, ReachedLeast
  <2> QED
    BY <2>2, <2>3 DEF HasDelay
<1>9. ASSUME f.todo # <<>>, f.pc = "timing", Head(f.todo) \notin Tasks \/ Head(f.todo) \in f.seen
      PROVE  ProcOK(SkipFrame(f))
  <2> DEFINE k == f.seen \cup ToSet(Tail(f.todo))
  <2>1. /\ SkipFrame(f).pc = "timing" /\ SkipFrame(f).todo = Tail(f.todo)
        /\ SkipFrame(f).calls = f.calls /\ SkipFrame(f).seen = f.seen /\ SkipFrame(f).got = f.got
        /\ SkipFrame(f).pos = f.pos
    BY <1>9 DEF SkipFrame, Frames
  <2>2. \A g \in Tasks : g \in known => g \in k
    BY <1>3, <1>9
  <2>3. ToSet(Tail(f.todo)) \cap Tasks \subseteq R
    BY <1>3, <1>4, <1>9
  <2> HIDE DEF known
  <2>4. f.got = {} => \A g \in f.seen :
                          ~Subs[g].timed /\ ToSet(Subs[g].calls) \cap Tasks \subseteq k
    BY <1>4, <1>9, <2>2
  <2>5. \A j \in DOMAIN f.calls : j < f.pos /\ f.calls[j] \in Tasks => f.calls[j] \in k
    BY <1>4, <1>9, <2>2
  <2> HIDE DEF k
  <2> QED
    BY <1>4, <1>9, <2>1, <2>3, <2>4, <2>5 DEF ProcOK, TimingOK, k
<1>10. ASSUME f.todo # <<>>, f.pc = "timing", Head(f.todo) \in Tasks
       PROVE  ProcOK(ControlsFrame(f))
  <2> DEFINE h == Head(f.todo)
             g0 == ControlsFrame(f)
  <2>1. /\ g0.pc = "controls" /\ g0.todo = f.todo /\ g0.calls = f.calls /\ g0.got = f.got
        /\ g0.seen = f.seen \cup {h} /\ g0.pos = f.pos
    BY <1>10 DEF ControlsFrame, Frames
  <2>2. h \in R /\ g0.seen \cup ToSet(g0.todo) = known
    BY <1>3, <1>4, <1>10, <2>1
  <2> HIDE DEF h, g0
  <2>3. f.got = {} => \A g \in g0.seen :
            g = h \/ (~Subs[g].timed /\ ToSet(Subs[g].calls) \cap Tasks \subseteq known)
    <3>1. f.got = {} => \A g \in f.seen :
              ~Subs[g].timed /\ ToSet(Subs[g].calls) \cap Tasks \subseteq known
      BY <1>4, <1>10
    <3> HIDE DEF known
    <3> QED
      BY <2>1, <3>1
  <2>4. TimingOK(g0)
    BY <1>4, <1>10, <2>1, <2>2, <2>3 DEF TimingOK, h
  <2> QED
    BY <2>1, <2>4 DEF ProcOK, g0
<1>11. ASSUME f.todo # <<>>, f.pc = "controls"
       PROVE  ProcOK(TimingFrame(f))
  <2> DEFINE h == Head(f.todo)
             g0 == TimingFrame(f)
             k == f.seen \cup ToSet(Subs[h].calls) \cup ToSet(Tail(f.todo))
  <2>1. /\ g0.pc = "timing" /\ g0.todo = Subs[h].calls \o Tail(f.todo) /\ g0.calls = f.calls
        /\ g0.got = IF Subs[h].timed THEN f.got \cup {h} ELSE f.got
        /\ g0.seen = f.seen /\ g0.pos = f.pos
    BY <1>11 DEF TimingFrame, Frames
  <2>2. h \in R /\ h \in f.seen
    BY <1>4, <1>11
  <2>3. g0.seen \cup ToSet(g0.todo) = k /\ known \subseteq k
    BY <1>3, <1>11, <2>1, <2>2
  <2>4. ToSet(g0.todo) \cap Tasks \subseteq R
    BY <1>2, <1>3, <1>4, <1>11, <2>1, <2>2
  <2>5. ToSet(Subs[h].calls) \cap Tasks \subseteq k
    OBVIOUS
  <2> HIDE DEF h, g0, k, known
  <2>6. g0.got = {} => \A g \in f.seen :
            ~Subs[g].timed /\ ToSet(Subs[g].calls) \cap Tasks \subseteq k
    <3> SUFFICES ASSUME g0.got = {}, NEW g \in f.seen
                 PROVE  ~Subs[g].timed /\ ToSet(Subs[g].calls) \cap Tasks \subseteq k
      OBVIOUS
    <3>1. ~Subs[h].timed /\ f.got = {}
      BY <2>1
    <3>2. CASE g = h
      BY <2>5, <3>1, <3>2
    <3>3. CASE g # h
      BY <1>4, <1>11, <2>3, <3>1, <3>3 DEF h
    <3> QED
      BY <3>2, <3>3
  <2>7. g0.got \subseteq f.seen /\ \A g \in g0.got : Subs[g].timed
    BY <1>4, <1>11, <2>1, <2>2
  <2>8. \A j \in DOMAIN f.calls : j < f.pos /\ f.calls[j] \in Tasks => f.calls[j] \in k
    BY <1>4, <1>11, <2>3
  <2>9. TimingOK(g0)
    BY <1>4, <1>11, <2>1, <2>3, <2>4, <2>6, <2>7, <2>8 DEF TimingOK
  <2> QED
    BY <2>1, <2>9 DEF ProcOK, g0
<1> QED
  BY <1>6, <1>7, <1>8, <1>9, <1>10, <1>11

(***************************************************************************)
(* What the steps do to the calls of callers, and to the members that are  *)
(* past.                                                                   *)
(***************************************************************************)
Caller(f) == f.fn \in {"proc", "expr"}

CallersSame ==
    \A S : (\A f \in S : Caller(f)) => /\ InStack(stack', S) <=> InStack(stack, S)
                                       /\ Lone(stack, S) => Lone(stack', S)

Turned(t, f) ==
    \A S : (\A g \in S : Caller(g)) =>
               /\ InStack(stack', S) <=> Beneath(t, S) \/ f \in S
               /\ Lone(stack, S) /\ (f \in S => ~Beneath(t, S)) => Lone(stack', S)

Left(t) ==
    \A S : /\ InStack(stack', S) <=> Beneath(t, S)
           /\ Lone(stack, S) => Lone(stack', S)

PastSame == \A s \in Scopes : \A n \in DOMAIN Members[s] : Past(s, n)' <=> Past(s, n)

CallerStep(t) ==
    \/ NextTaskCall(t) \/ VisitTask(t) \/ CollectControls(t)
    \/ VisitCall(t) \/ CollectDrivers(t) \/ FinishCaller(t)

LEMMA ThrownStays ==
    ASSUME ShapeInv, [Next]_vars, ~Thrown'
    PROVE  ~Thrown
<1> SUFFICES ASSUME Thrown PROVE Thrown'
  OBVIOUS
<1>1. CASE AnalyzeRoot
  BY <1>1 DEF AnalyzeRoot, Thrown, ShapeInv
<1>2. CASE Wait
  BY <1>2 DEF Wait, Thrown, pool
<1>3. ASSUME NEW t \in Workers, TakeTask(t)
      PROVE  Thrown'
  BY <1>3 DEF TakeTask, Thrown
<1>4. ASSUME NEW t \in Threads, Step(t)
      PROVE  Thrown'
  <2>1. CASE UNCHANGED <<pendingException, main>>
    BY <2>1 DEF Thrown
  <2>2. ASSUME Throw(t)
        PROVE  Thrown'
    BY <2>2 DEF Throw, Thrown, ShapeInv
  <2>3. CASE MemberThrows(t)
    BY <2>2, <2>3 DEF MemberThrows
  <2>4. CASE AnalyzeProcedure(t)
    BY <2>1, <2>2, <2>4 DEF AnalyzeProcedure, pool
  <2>5. CASE VisitMember(t) \/ NoteInstance(t) \/ PublishScope(t) \/ NotifyScope(t)
    BY <2>1, <2>5 DEF VisitMember, NoteInstance, PublishScope, NotifyScope, pool
  <2>6. CASE \/ LookupSubroutine(t) \/ EmplaceSubroutine(t) \/ AddSubroutineDrivers(t)
             \/ NotifySubroutine(t) \/ AnalyzeResolution(t) \/ CheckNetType(t)
    BY <2>1, <2>6 DEF LookupSubroutine, EmplaceSubroutine, AddSubroutineDrivers,
                      NotifySubroutine, AnalyzeResolution, CheckNetType, pool
  <2>7. CASE CallerStep(t)
    BY <2>1, <2>7 DEF CallerStep, NextTaskCall, VisitTask, CollectControls, VisitCall,
                      CollectDrivers, FinishCaller, pool
  <2> QED
    BY <1>4, <2>3, <2>4, <2>5, <2>6, <2>7 DEF Step, CallerStep
<1>5. CASE UNCHANGED vars
  BY <1>5 DEF vars, pool, Thrown
<1> QED
  BY <1>1, <1>2, <1>3, <1>4, <1>5 DEF Next, Stutter

LEMMA OtherCallers ==
    ASSUME ShapeInv, NEW t \in Threads,
           \/ stack[t] # <<>> /\ ~Caller(Top(t)) /\ Popped(t)
           \/ stack[t] # <<>> /\ ~Caller(Top(t)) /\ \E f : Moved(t, f)
           \/ stack[t] # <<>> /\ ~Caller(Top(t)) /\ \E f, g : Called(t, f, g) /\ ~Caller(g)
           \/ \E f : Entered(t, f) /\ ~Caller(f)
    PROVE  CallersSame
<1> SUFFICES ASSUME NEW S, \A f \in S : Caller(f)
             PROVE  /\ InStack(stack', S) <=> InStack(stack, S)
                    /\ Lone(stack, S) => Lone(stack', S)
  BY DEF CallersSame
<1>1. ASSUME stack[t] # <<>>, ~Caller(Top(t))
      PROVE  InStack(stack, S) <=> Beneath(t, S)
  BY <1>1, TopAndBeneath
<1>2. CASE stack[t] # <<>> /\ ~Caller(Top(t)) /\ Popped(t)
  BY <1>1, <1>2, FramesPopped
<1>3. ASSUME stack[t] # <<>>, ~Caller(Top(t)), NEW f, Moved(t, f)
      PROVE  /\ InStack(stack', S) <=> InStack(stack, S)
             /\ Lone(stack, S) => Lone(stack', S)
  <2>1. f \notin S
    BY <1>3 DEF Moved, Caller
  <2> QED
    BY <1>1, <1>3, <2>1, FramesMoved
<1>4. ASSUME stack[t] # <<>>, ~Caller(Top(t)), NEW f, NEW g, Called(t, f, g), ~Caller(g)
      PROVE  /\ InStack(stack', S) <=> InStack(stack, S)
             /\ Lone(stack, S) => Lone(stack', S)
  <2>1. f \notin S /\ g \notin S
    BY <1>4 DEF Called, Caller
  <2> QED
    BY <1>1, <1>4, <2>1, FramesCalled
<1>5. ASSUME NEW f, Entered(t, f), ~Caller(f)
      PROVE  /\ InStack(stack', S) <=> InStack(stack, S)
             /\ Lone(stack, S) => Lone(stack', S)
  <2>1. f \notin S /\ stack[t] = <<>>
    BY <1>5 DEF Entered
  <2> QED
    BY <1>5, <2>1, FramesEntered, TopAndBeneath
<1> QED
  BY <1>2, <1>3, <1>4, <1>5

LEMMA CallerTurns ==
    ASSUME NEW t \in Threads, NEW f, Moved(t, f) \/ \E g : Called(t, f, g) /\ ~Caller(g)
    PROVE  Turned(t, f)
<1> SUFFICES ASSUME NEW S, \A g \in S : Caller(g)
             PROVE  /\ InStack(stack', S) <=> Beneath(t, S) \/ f \in S
                    /\ Lone(stack, S) /\ (f \in S => ~Beneath(t, S)) => Lone(stack', S)
  BY DEF Turned
<1>1. CASE Moved(t, f)
  BY <1>1, FramesMoved
<1>2. ASSUME NEW g, Called(t, f, g), ~Caller(g)
      PROVE  /\ InStack(stack', S) <=> Beneath(t, S) \/ f \in S
             /\ Lone(stack, S) /\ (f \in S => ~Beneath(t, S)) => Lone(stack', S)
  <2>1. g \notin S
    BY <1>2
  <2> QED
    BY <1>2, <2>1, FramesCalled
<1> QED
  BY <1>1, <1>2

LEMMA CallerLeaves ==
    ASSUME NEW t \in Threads, Popped(t)
    PROVE  Left(t)
  BY FramesPopped DEF Left

LEMMA PastKept ==
    ASSUME SameScopes, UNCHANGED analyzedScopes
    PROVE  PastSame
<1>1. \A s, n : \A f \in Ahead(s, n) : f.fn \in {"scope", "inst"}
  BY DEF Ahead
<1>2. \A s, n : InStack(stack', Ahead(s, n)) <=> InStack(stack, Ahead(s, n))
  BY <1>1 DEF SameScopes
<1> QED
  BY <1>2 DEF PastSame, Past

\* The steps of callers keep the scopes.
LEMMA CallerKeepsScopes ==
    ASSUME ShapeInv, NEW t \in Threads, CallerStep(t)
    PROVE  PastSame /\ stack[t] # <<>> /\ Caller(Top(t)) /\ Top(t) \in Frames /\ FrameOK(Top(t))
<1>1. stack[t] # <<>> /\ Top(t).fn \in {"proc", "expr"}
  BY DEF CallerStep, NextTaskCall, VisitTask, CollectControls, VisitCall,
         CollectDrivers, FinishCaller, At
<1>2. \/ Popped(t)
      \/ \E f : Moved(t, f)
      \/ \E f, h : Called(t, f, Frame("sub", h, "lookup", <<>>))
  BY TimingSteps, WalkSteps DEF CallerStep
<1>3. \A h : Frame("sub", h, "lookup", <<>>).fn = "sub"
  BY DEF Frame
<1>4. \/ Popped(t)
      \/ \E f : Moved(t, f)
      \/ \E f, g : Called(t, f, g) /\ g.fn = "sub"
  BY <1>2, <1>3
<1>5. UNCHANGED analyzedScopes
  BY DEF CallerStep, NextTaskCall, VisitTask, CollectControls, VisitCall,
         CollectDrivers, FinishCaller, maps
<1>6. SameScopes
  BY <1>1, <1>4, OtherFrames
<1> QED
  BY <1>1, <1>5, <1>6, PastKept, TopOK DEF Caller

\* The member that is visited becomes past, and if it is a caller, it begins its walk.
LEMMA CallerVisited ==
    ASSUME ShapeInv, NEW t \in Threads, VisitMember(t)
    PROVE  LET s0 == Top(t).item
               n0 == Top(t).pos
               m == NextMember(Top(t))
           IN  /\ s0 \in Scopes /\ n0 \in DOMAIN Members[s0] /\ m = Members[s0][n0]
               /\ m \in AllMembers /\ At(t, "scope", "members")
               /\ \A s \in Scopes : \A n \in DOMAIN Members[s] :
                      Past(s, n)' <=> Past(s, n) \/ (s = s0 /\ n = n0)
               /\ m.kind \notin {"proc", "expr"} => CallersSame
               /\ m.kind \in {"proc", "expr"} =>
                      /\ m.kind = "expr" => ~m.timing
                      /\ \A S : (\A f \in S : Caller(f)) =>
                             /\ InStack(stack', S) <=> InStack(stack, S) \/ MemberFrame(m) \in S
                             /\ Lone(stack, S) /\ (MemberFrame(m) \in S => ~InStack(stack, S))
                                    => Lone(stack', S)
               /\ UNCHANGED <<visitedNonProcCalls, inlined, delays>>
<1> DEFINE f == Top(t)
           m == NextMember(f)
           a == PastMember(f)
<1>1. /\ stack[t] # <<>> /\ f \in Frames /\ FrameOK(f) /\ f.fn = "scope" /\ f.pc = "members"
      /\ f.pos <= Len(Members[f.item]) /\ At(t, "scope", "members")
  BY AtTop DEF VisitMember
<1>2. /\ m \in AllMembers /\ f.item \in Scopes /\ f.pos \in DOMAIN Members[f.item]
      /\ f.pos \in Nat \ {0}
      /\ a \in Frames /\ a.fn = "scope" /\ a.item = f.item /\ a.pc = "members"
      /\ a.pos = f.pos + 1
  BY <1>1, ScopeTop
<1>3. UNCHANGED <<visitedNonProcCalls, inlined, delays>>
  BY DEF VisitMember, effects, maps
<1>4. MemberSteps(t)
  BY MemberStep
<1>5. \A S : InStack(stack, S) <=> Beneath(t, S) \/ f \in S
  BY <1>1, TopAndBeneath
<1>6. /\ m.kind = "inst" => MemberFrame(m) \in Frames /\ MemberFrame(m).fn = "inst"
      /\ \A s \in Scopes : /\ ScopeFrame(s) \in Frames /\ ScopeFrame(s).fn = "scope"
                           /\ ScopeFrame(s).pos = 1
      /\ m.kind \in {"scope", "inst"} => Child(m) \in Scopes
  BY <1>2, NewMember, NewScope, MembersOK DEF Child
<1>7. ASSUME NEW s \in Scopes, NEW n \in DOMAIN Members[s]
      PROVE  Past(s, n)' <=> Past(s, n) \/ (s = f.item /\ n = f.pos)
  <2>1. n \in Nat \ {0}
    BY MembersOK, LenProperties
  <2>2. /\ f \in Ahead(s, n) <=> s = f.item /\ f.pos > n
        /\ a \in Ahead(s, n) <=> s = f.item /\ f.pos + 1 > n
        /\ m.kind = "inst" => MemberFrame(m) \notin Ahead(s, n)
        /\ AtOnce(m) => ScopeFrame(Child(m)) \notin Ahead(s, n)
        /\ \A g \in Ahead(s, n) : g.fn \in {"scope", "inst"}
    BY <1>1, <1>2, <1>6, <2>1 DEF Ahead, AtOnce
  <2>3. f.pos + 1 > n <=> f.pos > n \/ n = f.pos
    BY <1>2, <2>1
  <2>4. InStack(stack', Ahead(s, n)) <=>
            Beneath(t, Ahead(s, n)) \/ a \in Ahead(s, n)
    BY <2>2, VisitFrames
  <2>5. analyzedScopes'[s] = "done" <=> analyzedScopes[s] = "done"
    <3>1. CASE m.kind \in {"scope", "inst"}
      <4>1. analyzedScopes' = [analyzedScopes EXCEPT ![Child(m)] =
                                  IF analyzedScopes[Child(m)] = "absent" THEN "pending" ELSE @]
        BY <3>1 DEF VisitMember, AnalyzeScopeAsync, Child, NextMember
      <4> QED
        BY <1>6, <3>1, <4>1 DEF ShapeInv
    <3>2. CASE m.kind \notin {"scope", "inst"}
      BY <3>2 DEF VisitMember, NextMember, maps
    <3> QED
      BY <3>1, <3>2
  <2> HIDE DEF a
  <2> QED
    BY <1>5, <2>2, <2>3, <2>4, <2>5 DEF Past
<1>8. /\ m.kind = "proc" \/ m.kind = "expr" => /\ Called(t, a, MemberFrame(m))
                                               /\ m.kind = "expr" => ~m.timing
      /\ m.kind \notin {"proc", "expr"} =>
             \/ \E g : Called(t, a, g) /\ ~Caller(g)
             \/ \E g, e : CalledTwo(t, a, g, e) /\ ~Caller(g) /\ ~Caller(e)
             \/ Moved(t, a)
  <2>1. CASE m.kind = "scope"
    <3>1. ~Caller(ScopeFrame(m.item))
      BY DEF ScopeFrame, Frame, Caller
    <3> QED
      BY <1>4, <2>1, <3>1 DEF MemberSteps
  <2>2. CASE m.kind = "inst"
    <3>1. ~Caller(MemberFrame(m)) /\ ~Caller(ScopeFrame(CanonicalBody[m.item]))
      BY <1>6, <2>2 DEF ScopeFrame, Frame, Caller
    <3> QED
      BY <1>4, <2>2, <3>1 DEF MemberSteps
  <2>3. CASE m.kind \notin {"scope", "inst"}
    <3>1. Called(t, a, MemberFrame(m)) /\ (m.kind = "expr" => ~m.timing)
      BY <1>4, <2>3 DEF MemberSteps
    <3>2. MemberFrame(m).fn = m.kind
      BY <1>2, <2>3, <3>1, NewMember
    <3> QED
      BY <2>3, <3>1, <3>2 DEF Caller
  <2> QED
    BY <2>1, <2>2, <2>3
<1>9. ASSUME NEW S, \A g \in S : Caller(g)
      PROVE  /\ InStack(stack, S) <=> Beneath(t, S)
             /\ a \notin S
  BY <1>1, <1>2, <1>5, <1>9 DEF Caller
<1>10. ASSUME m.kind \notin {"proc", "expr"}
       PROVE  CallersSame
  <2> SUFFICES ASSUME NEW S, \A g \in S : Caller(g)
               PROVE  /\ InStack(stack', S) <=> InStack(stack, S)
                      /\ Lone(stack, S) => Lone(stack', S)
    BY DEF CallersSame
  <2> HIDE DEF a, m
  <2>1. ASSUME NEW g, Called(t, a, g), ~Caller(g)
        PROVE  /\ InStack(stack', S) <=> InStack(stack, S)
               /\ Lone(stack, S) => Lone(stack', S)
    <3>1. g \notin S
      BY <2>1
    <3> QED
      BY <1>9, <2>1, <3>1, FramesCalled
  <2>2. ASSUME NEW g, NEW e, CalledTwo(t, a, g, e), ~Caller(g), ~Caller(e)
        PROVE  /\ InStack(stack', S) <=> InStack(stack, S)
               /\ Lone(stack, S) => Lone(stack', S)
    <3>1. g \notin S /\ e \notin S
      BY <2>2
    <3> QED
      BY <1>9, <2>2, <3>1, FramesCalledTwo
  <2>3. CASE Moved(t, a)
    BY <1>9, <2>3, FramesMoved
  <2> QED
    BY <1>8, <1>10, <2>1, <2>2, <2>3
<1>11. ASSUME m.kind \in {"proc", "expr"}, NEW S, \A g \in S : Caller(g)
       PROVE  /\ InStack(stack', S) <=> InStack(stack, S) \/ MemberFrame(m) \in S
              /\ Lone(stack, S) /\ (MemberFrame(m) \in S => ~InStack(stack, S))
                     => Lone(stack', S)
  <2>1. Called(t, a, MemberFrame(m))
    BY <1>8, <1>11
  <2> HIDE DEF a, m
  <2> QED
    BY <1>9, <1>11, <2>1, FramesCalled
<1> QED
  BY <1>1, <1>2, <1>3, <1>7, <1>8, <1>10, <1>11 DEF NextMember

\* Every other step leaves the callers alone.
LEMMA CallersKept ==
    ASSUME ShapeInv, ScopeInv, [Next]_vars, ~Thrown'
    PROVE  \/ CallersSame /\ PastSame /\ UNCHANGED <<visitedNonProcCalls, inlined, delays>>
           \/ \E t \in Threads : VisitMember(t) \/ CallerStep(t)
<1>1. ScopesOK
  BY ThrownStays DEF ScopeInv
<1>2. ASSUME stack' = stack
      PROVE  CallersSame /\ SameScopes
  BY <1>2 DEF CallersSame, SameScopes
<1>3. ASSUME NEW t \in Threads, NEW s \in Scopes, Entered(t, ScopeFrame(s)),
             \A r \in Scopes : analyzedScopes'[r] = "done" <=> analyzedScopes[r] = "done"
      PROVE  CallersSame /\ PastSame
  <2>1. /\ ScopeFrame(s) \in Frames /\ ScopeFrame(s).fn = "scope" /\ ScopeFrame(s).pos = 1
    BY NewScope
  <2>2. CallersSame
    BY <1>3, <2>1, OtherCallers DEF Caller
  <2>3. ASSUME NEW r \in Scopes, NEW n \in DOMAIN Members[r]
        PROVE  InStack(stack', Ahead(r, n)) <=> InStack(stack, Ahead(r, n))
    <3>1. n \in Nat \ {0}
      BY MembersOK, LenProperties
    <3>2. ScopeFrame(s) \notin Ahead(r, n)
      BY <2>1, <3>1 DEF Ahead
    <3>3. stack[t] = <<>>
      BY <1>3 DEF Entered
    <3> QED
      BY <1>3, <3>2, <3>3, FramesEntered, TopAndBeneath
  <2> QED
    BY <1>3, <2>2, <2>3 DEF PastSame, Past
<1>4. CASE AnalyzeRoot
  <2>1. UNCHANGED <<visitedNonProcCalls, inlined, delays>>
    BY <1>4 DEF AnalyzeRoot, effects
  <2>2. Roots[main.pos] \in Scopes /\ Main \in Threads
    BY <1>4, TaskSteps
  <2>3. PICK c \in Scopes : c = Roots[main.pos]
    BY <2>2
  <2>4. analyzedScopes' = [analyzedScopes EXCEPT ![c] =
                              IF analyzedScopes[c] = "absent" THEN "pending" ELSE @]
    BY <1>4, <2>3 DEF AnalyzeRoot, AnalyzeScopeAsync
  <2>5. \A r \in Scopes : analyzedScopes'[r] = "done" <=> analyzedScopes[r] = "done"
    BY <2>4 DEF ShapeInv
  <2>6. Entered(Main, ScopeFrame(c)) \/ stack' = stack
    BY <1>4, <2>3, TaskSteps
  <2>7. CASE stack' = stack
    <3>1. PastSame
      BY <2>5, <2>7 DEF PastSame, Past
    <3> QED
      BY <1>2, <2>1, <2>7, <3>1
  <2> QED
    BY <1>3, <2>1, <2>2, <2>5, <2>6, <2>7
<1>5. CASE Wait \/ UNCHANGED vars
  <2>1. UNCHANGED <<stack, analyzedScopes, visitedNonProcCalls, inlined, delays>>
    BY <1>5 DEF Wait, vars, maps, effects
  <2> QED
    BY <1>2, <2>1, PastKept
<1>6. ASSUME NEW t \in Workers, TakeTask(t)
      PROVE  CallersSame /\ PastSame /\ UNCHANGED <<visitedNonProcCalls, inlined, delays>>
  <2>1. UNCHANGED <<analyzedScopes, visitedNonProcCalls, inlined, delays>>
    BY <1>6 DEF TakeTask, maps, effects
  <2> QED
    BY <1>3, <1>6, <2>1, TaskSteps
<1>7. ASSUME NEW t \in Threads, NoteInstance(t)
      PROVE  CallersSame /\ PastSame /\ UNCHANGED <<visitedNonProcCalls, inlined, delays>>
  <2>1. UNCHANGED <<analyzedScopes, visitedNonProcCalls, inlined, delays>>
    BY <1>7 DEF NoteInstance, maps
  <2>2. Popped(t) /\ stack[t] # <<>> /\ Top(t).fn = "inst"
    BY <1>7, OtherSteps, AtTop DEF NoteInstance
  <2>3. CallersSame
    BY <2>2, OtherCallers DEF Caller
  <2>4. \A s, n : Top(t) \notin Ahead(s, n)
    BY <2>2 DEF Ahead
  <2>5. \A s, n : InStack(stack', Ahead(s, n)) <=> InStack(stack, Ahead(s, n))
    BY <2>2, <2>4, FramesPopped, TopAndBeneath
  <2> QED
    BY <2>1, <2>3, <2>5 DEF PastSame, Past
<1>8. ASSUME NEW t \in Threads, PublishScope(t)
      PROVE  CallersSame /\ PastSame /\ UNCHANGED <<visitedNonProcCalls, inlined, delays>>
  <2>1. UNCHANGED <<visitedNonProcCalls, inlined, delays>>
    BY <1>8 DEF PublishScope, effects
  <2> DEFINE g == [Top(t) EXCEPT !.pc = "notify"]
  <2>2. /\ Moved(t, g) /\ stack[t] # <<>> /\ Top(t).fn = "scope" /\ Top(t) \in Frames
        /\ FrameOK(Top(t)) /\ Top(t).pos > Len(Members[Top(t).item])
    BY <1>8, OtherSteps, AtTop DEF PublishScope
  <2>3. /\ g \in Frames /\ g.fn = "scope" /\ g.item = Top(t).item /\ g.pos = Top(t).pos
    BY <2>2 DEF Frames
  <2> HIDE DEF g
  <2>4. CallersSame
    BY <2>2, OtherCallers DEF Caller
  <2>5. \A s, n : g \in Ahead(s, n) <=> Top(t) \in Ahead(s, n)
    BY <2>2, <2>3 DEF Ahead
  <2>6. \A s, n : InStack(stack', Ahead(s, n)) <=> InStack(stack, Ahead(s, n))
    BY <2>2, <2>5, FramesMoved, TopAndBeneath
  <2>7. ASSUME NEW s \in Scopes, NEW n \in DOMAIN Members[s]
        PROVE  Past(s, n)' <=> Past(s, n)
    <3>1. CASE s = Top(t).item
      <4>1. Top(t).pos > n
        BY <2>2, <3>1, MembersOK, LenProperties DEF Frames
      <4>2. Top(t) \in Ahead(s, n)
        BY <2>2, <3>1, <4>1 DEF Ahead
      <4>3. InStack(stack, Ahead(s, n))
        BY <2>2, <4>2, TopAndBeneath
      <4> QED
        BY <2>6, <4>3 DEF Past
    <3>2. CASE s # Top(t).item
      <4>1. analyzedScopes'[s] = analyzedScopes[s]
        BY <1>8, <3>2 DEF PublishScope, ShapeInv
      <4> QED
        BY <2>6, <4>1 DEF Past
    <3> QED
      BY <3>1, <3>2
  <2> QED
    BY <2>1, <2>4, <2>7 DEF PastSame
<1>9. ASSUME NEW t \in Threads, NotifyScope(t)
      PROVE  CallersSame /\ PastSame /\ UNCHANGED <<visitedNonProcCalls, inlined, delays>>
  <2>1. UNCHANGED <<analyzedScopes, visitedNonProcCalls, inlined, delays>>
    BY <1>9 DEF NotifyScope, maps
  <2>2. /\ Popped(t) /\ stack[t] # <<>> /\ Top(t).fn = "scope" /\ Top(t).pc = "notify"
        /\ Top(t) \in Frames /\ FrameOK(Top(t)) /\ Top(t).item \in Scopes
    BY <1>9, OtherSteps, AtTop DEF NotifyScope, FrameOK
  <2>3. CallersSame
    BY <2>2, OtherCallers DEF Caller
  <2>4. \A s, n : s # Top(t).item => Top(t) \notin Ahead(s, n)
    BY DEF Ahead
  <2>5. \A s, n : s # Top(t).item =>
            (InStack(stack', Ahead(s, n)) <=> InStack(stack, Ahead(s, n)))
    BY <2>2, <2>4, FramesPopped, TopAndBeneath
  <2>6. Top(t) \in Notifies(Top(t).item)
    BY <2>2 DEF Notifies
  <2>7. Announcing(Top(t).item)
    BY <2>2, <2>6, TopAndBeneath DEF Announcing
  <2>8. analyzedScopes[Top(t).item] = "done"
    BY <1>1, <2>2, <2>7 DEF ScopesOK, ScopeOK
  <2> QED
    BY <2>1, <2>3, <2>5, <2>8 DEF PastSame, Past
<1>10. ASSUME NEW t \in Threads,
              \/ LookupSubroutine(t) \/ EmplaceSubroutine(t) \/ AddSubroutineDrivers(t)
              \/ NotifySubroutine(t) \/ AnalyzeResolution(t) \/ CheckNetType(t)
              \/ (AnalyzeProcedure(t) /\ Top(t).item \notin throwing)
       PROVE  CallersSame /\ PastSame /\ UNCHANGED <<visitedNonProcCalls, inlined, delays>>
  <2>1. UNCHANGED <<analyzedScopes, visitedNonProcCalls, inlined, delays>>
    BY <1>10 DEF LookupSubroutine, EmplaceSubroutine, AddSubroutineDrivers, NotifySubroutine,
                 AnalyzeResolution, CheckNetType, AnalyzeProcedure, maps, effects
  <2>2. stack[t] # <<>> /\ Top(t).fn \in {"sub", "nettype"}
    BY <1>10 DEF LookupSubroutine, EmplaceSubroutine, AddSubroutineDrivers, NotifySubroutine,
                 AnalyzeResolution, CheckNetType, AnalyzeProcedure, At
  <2>3. \/ Popped(t)
        \/ \E f : Moved(t, f)
        \/ \E f, h : Called(t, f, Frame("sub", h, "lookup", <<>>))
    BY <1>10, SubroutineSteps, OtherSteps
  <2>4. \A h : Frame("sub", h, "lookup", <<>>).fn = "sub"
    BY DEF Frame
  <2>5. \/ Popped(t)
        \/ \E f : Moved(t, f)
        \/ \E f, g : Called(t, f, g) /\ g.fn = "sub"
    BY <2>3, <2>4
  <2>6. SameScopes
    BY <2>2, <2>5, OtherFrames
  <2>7. CallersSame
    BY <2>2, <2>5, OtherCallers DEF Caller
  <2> QED
    BY <2>1, <2>6, <2>7, PastKept
<1>11. ASSUME NEW t \in Threads, Throw(t)
       PROVE  FALSE
  BY <1>11 DEF Throw, Thrown, ShapeInv
<1>12. ASSUME NEW t \in Threads, Step(t)
       PROVE  \/ CallersSame /\ PastSame /\ UNCHANGED <<visitedNonProcCalls, inlined, delays>>
              \/ VisitMember(t) \/ CallerStep(t)
  <2>1. CASE MemberThrows(t)
    BY <1>11, <2>1 DEF MemberThrows
  <2>2. CASE AnalyzeProcedure(t)
    BY <1>10, <1>11, <2>2 DEF AnalyzeProcedure
  <2> QED
    BY <1>7, <1>8, <1>9, <1>10, <1>12, <2>1, <2>2 DEF Step, CallerStep
<1> QED
  BY <1>4, <1>5, <1>6, <1>12 DEF Next, Stutter

(***************************************************************************)
(* The procedures: every walk in progress is right, and a procedure that   *)
(* is past and not being walked has the functions and the delay it needs.  *)
(***************************************************************************)
WrongProcs == {f \in Frames : f.fn = "proc" /\ ~ProcOK(f)}

ProcFrames(i) == {f \in Frames : f.fn = "proc" /\ f.item = i}

Walking(i) == {f \in Frames : f.fn = "proc" /\ f.item = i /\ f.pc \in {"next", "collect"}}

DelayKnown(m) == m.timing /\ HasDelay(m.calls) => m.item \in delays

ProcOver(s, n) ==
    LET m == Members[s][n]
    IN  m.kind = "proc" /\ Past(s, n) /\ ~InStack(stack, ProcFrames(m.item)) =>
            inlined[m.item] = Reached(ToSet(m.calls), Functions) /\ DelayKnown(m)

ProcsOK ==
    /\ ~InStack(stack, WrongProcs)
    /\ \A m \in AllMembers : m.kind = "proc" =>
           /\ m.item \in delays => HasDelay(m.calls)
           /\ InStack(stack, Walking(m.item)) => DelayKnown(m)
    /\ \A s \in Scopes : \A n \in DOMAIN Members[s] : ProcOver(s, n)

ProcInv ==
    /\ inlined \in [Callers -> (SUBSET DOMAIN Subs) \cup {NotYet}]
    /\ ~Thrown => ProcsOK

LEMMA OneMember ==
    ASSUME NEW m \in AllMembers, NEW l \in AllMembers, m.item = l.item,
           m.kind \in {"proc", "expr"}, l.kind \in {"proc", "expr"}
    PROVE  m = l /\ m.item \in Callers
<1>1. PICK s \in Scopes : m \in MembersOf(s)
  BY DEF AllMembers
<1>2. PICK r \in Scopes : l \in MembersOf(r)
  BY DEF AllMembers
<1>3. PICK n \in DOMAIN Members[s] : m = Members[s][n]
  BY <1>1 DEF MembersOf
<1>4. PICK k \in DOMAIN Members[r] : l = Members[r][k]
  BY <1>2 DEF MembersOf
<1>5. s = r /\ n = k
  BY <1>3, <1>4, MembersDistinct
<1> QED
  BY <1>3, <1>4, <1>5 DEF Callers

LEMMA CallerSets ==
    /\ \A f \in WrongProcs : Caller(f)
    /\ \A i : /\ \A f \in ProcFrames(i) : Caller(f)
              /\ \A f \in Walking(i) : Caller(f)
  BY DEF WrongProcs, ProcFrames, Walking, Caller

LEMMA ProcsSame ==
    ASSUME ProcsOK, CallersSame, PastSame, UNCHANGED <<inlined, delays>>
    PROVE  ProcsOK'
<1>1. /\ InStack(stack', WrongProcs) <=> InStack(stack, WrongProcs)
      /\ \A i : /\ InStack(stack', ProcFrames(i)) <=> InStack(stack, ProcFrames(i))
                /\ InStack(stack', Walking(i)) <=> InStack(stack, Walking(i))
  BY CallerSets DEF CallersSame
<1>2. ASSUME NEW s \in Scopes, NEW n \in DOMAIN Members[s]
      PROVE  ProcOver(s, n)'
  BY <1>1 DEF ProcsOK, ProcOver, PastSame, DelayKnown
<1> QED
  BY <1>1, <1>2 DEF ProcsOK, DelayKnown

\* The frame a walk begins with is right.
LEMMA WalkBegins ==
    ASSUME NEW m \in AllMembers, m.kind = "proc"
    PROVE  /\ MemberFrame(m) \in Frames /\ MemberFrame(m).fn = "proc"
           /\ MemberFrame(m).item = m.item /\ ProcOK(MemberFrame(m))
           /\ m.timing => MemberFrame(m) \notin Walking(m.item)
<1>1. MemberFrame(m) \in Frames /\ MemberFrame(m).fn = "proc" /\ MemberFrame(m).item = m.item
  BY NewMember
<1>2. CASE m.timing
  <2>1. MemberFrame(m) = [fn |-> "proc", item |-> m.item, pc |-> "timing", pos |-> 1,
                          calls |-> m.calls, todo |-> <<>>, seen |-> {}, got |-> {}]
    BY <1>2 DEF MemberFrame, Frame
  <2>2. m.calls \in CallLists
    BY MembersOK DEF CallLists
  <2>3. \A k \in DOMAIN m.calls : ~(k < 1)
    BY <2>2, LenProperties DEF CallLists
  <2>4. TimingOK(MemberFrame(m))
    BY <2>1, <2>3, ToSetFacts DEF TimingOK
  <2> QED
    BY <1>1, <2>1, <2>4 DEF ProcOK, Walking
<1>3. CASE ~m.timing
  <2>1. MemberFrame(m) = [fn |-> "proc", item |-> m.item, pc |-> "next", pos |-> 1,
                          calls |-> m.calls, todo |-> m.calls, seen |-> {}, got |-> {}]
    BY <1>3 DEF MemberFrame, Frame, Walk
  <2>2. WalkOK(MemberFrame(m))
    BY <2>1, ReachedClosed DEF WalkOK
  <2> QED
    BY <1>1, <1>3, <2>1, <2>2 DEF ProcOK
<1> QED
  BY <1>2, <1>3

LEMMA ProcsVisited ==
    ASSUME ShapeInv, ProcsOK, NEW t \in Threads, VisitMember(t)
    PROVE  ProcsOK'
<1>1. PICK s0 \in Scopes, n0 \in DOMAIN Members[Top(t).item], m \in AllMembers :
          /\ n0 \in DOMAIN Members[s0] /\ m = Members[s0][n0]
          /\ \A s \in Scopes : \A n \in DOMAIN Members[s] :
                 Past(s, n)' <=> Past(s, n) \/ (s = s0 /\ n = n0)
          /\ m.kind \notin {"proc", "expr"} => CallersSame
          /\ m.kind \in {"proc", "expr"} =>
                 /\ m.kind = "expr" => ~m.timing
                 /\ \A S : (\A f \in S : Caller(f)) =>
                        (InStack(stack', S) <=> InStack(stack, S) \/ MemberFrame(m) \in S)
          /\ UNCHANGED <<inlined, delays>>
  BY CallerVisited
<1>2. /\ m.kind = "proc" => /\ MemberFrame(m) \in Frames /\ MemberFrame(m).fn = "proc"
                            /\ MemberFrame(m).item = m.item /\ ProcOK(MemberFrame(m))
                            /\ m.timing => MemberFrame(m) \notin Walking(m.item)
      /\ m.kind = "expr" => MemberFrame(m).fn = "expr"
  BY <1>1, WalkBegins, NewMember
<1>3. /\ InStack(stack', WrongProcs) <=> InStack(stack, WrongProcs)
      /\ \A i : /\ InStack(stack', ProcFrames(i)) <=>
                       InStack(stack, ProcFrames(i)) \/ (m.kind = "proc" /\ i = m.item)
                /\ InStack(stack', Walking(i)) =>
                       \/ InStack(stack, Walking(i))
                       \/ m.kind = "proc" /\ i = m.item /\ ~m.timing
  <2>1. CASE m.kind \notin {"proc", "expr"}
    BY <1>1, <2>1, CallerSets DEF CallersSame
  <2>2. CASE m.kind = "proc"
    <3>1. /\ MemberFrame(m) \notin WrongProcs
          /\ \A i : /\ MemberFrame(m) \in ProcFrames(i) <=> i = m.item
                    /\ MemberFrame(m) \in Walking(i) => i = m.item /\ ~m.timing
      BY <1>2, <2>2 DEF WrongProcs, ProcFrames, Walking
    <3> QED
      BY <1>1, <2>2, <3>1, CallerSets
  <2>3. CASE m.kind = "expr"
    <3>1. /\ MemberFrame(m) \notin WrongProcs
          /\ \A i : MemberFrame(m) \notin ProcFrames(i) /\ MemberFrame(m) \notin Walking(i)
      BY <1>2, <2>3 DEF WrongProcs, ProcFrames, Walking
    <3> QED
      BY <1>1, <2>3, <3>1, CallerSets
  <2> QED
    BY <2>1, <2>2, <2>3
<1>4. ASSUME NEW l \in AllMembers, l.kind = "proc", InStack(stack', Walking(l.item))
      PROVE  DelayKnown(l)'
  <2>1. CASE InStack(stack, Walking(l.item))
    BY <1>1, <1>4, <2>1 DEF ProcsOK, DelayKnown
  <2>2. CASE m.kind = "proc" /\ l.item = m.item /\ ~m.timing
    <3>1. l = m
      BY <1>1, <1>4, <2>2, OneMember
    <3> QED
      BY <2>2, <3>1 DEF DelayKnown
  <2> QED
    BY <1>3, <1>4, <2>1, <2>2
<1>5. ASSUME NEW s \in Scopes, NEW n \in DOMAIN Members[s]
      PROVE  ProcOver(s, n)'
  <2> SUFFICES ASSUME Members[s][n].kind = "proc", Past(s, n)',
                      ~InStack(stack', ProcFrames(Members[s][n].item))
               PROVE  /\ inlined'[Members[s][n].item] =
                             Reached(ToSet(Members[s][n].calls), Functions)
                      /\ DelayKnown(Members[s][n])'
    BY DEF ProcOver
  <2>1. ~(s = s0 /\ n = n0)
    BY <1>1, <1>3
  <2>2. Past(s, n) /\ ~InStack(stack, ProcFrames(Members[s][n].item))
    BY <1>1, <1>3, <2>1
  <2>3. ProcOver(s, n)
    BY DEF ProcsOK
  <2> QED
    BY <1>1, <2>2, <2>3 DEF ProcOver, DelayKnown
<1> QED
  BY <1>1, <1>3, <1>4, <1>5 DEF ProcsOK

\* A step of the walk of a procedure.
LEMMA ProcsTurned ==
    ASSUME ShapeInv, ProcsOK, NEW t \in Threads, stack[t] # <<>>, Top(t).fn = "proc",
           Top(t) \in Frames, NEW f \in Frames, Turned(t, f), f.fn = "proc",
           f.item = Top(t).item, ProcOK(f), PastSame, inlined' = inlined,
           NEW m \in AllMembers, IsAbout(Top(t), m),
           delays' = delays \/ (delays' = delays \cup {m.item} /\ HasDelay(m.calls)),
           f.pc \in {"next", "collect"} =>
               Top(t).pc \in {"next", "collect"} \/ (HasDelay(m.calls) => m.item \in delays')
    PROVE  ProcsOK'
<1>1. m.kind = "proc" /\ m.item = Top(t).item
  BY DEF IsAbout
<1>2. \A S : InStack(stack, S) <=> Beneath(t, S) \/ Top(t) \in S
  BY TopAndBeneath
<1>3. /\ f \notin WrongProcs
      /\ \A i : /\ f \in ProcFrames(i) <=> i = m.item
                /\ Top(t) \in ProcFrames(i) <=> i = m.item
                /\ f \in Walking(i) => i = m.item /\ f.pc \in {"next", "collect"}
                /\ i = m.item /\ Top(t).pc \in {"next", "collect"} => Top(t) \in Walking(i)
  BY <1>1 DEF WrongProcs, ProcFrames, Walking
<1>4. /\ InStack(stack', WrongProcs) => InStack(stack, WrongProcs)
      /\ \A i : /\ InStack(stack', ProcFrames(i)) <=> InStack(stack, ProcFrames(i))
                /\ InStack(stack', Walking(i)) =>
                       \/ InStack(stack, Walking(i))
                       \/ i = m.item /\ (HasDelay(m.calls) => m.item \in delays')
  <2>1. InStack(stack', WrongProcs) => InStack(stack, WrongProcs)
    BY <1>2, <1>3, CallerSets DEF Turned
  <2>2. ASSUME NEW i
        PROVE  InStack(stack', ProcFrames(i)) <=> InStack(stack, ProcFrames(i))
    BY <1>2, <1>3, CallerSets DEF Turned
  <2>3. ASSUME NEW i, InStack(stack', Walking(i))
        PROVE  \/ InStack(stack, Walking(i))
               \/ i = m.item /\ (HasDelay(m.calls) => m.item \in delays')
    <3>1. Beneath(t, Walking(i)) \/ f \in Walking(i)
      BY <2>3, CallerSets DEF Turned
    <3> QED
      BY <1>2, <1>3, <3>1
  <2> QED
    BY <2>1, <2>2, <2>3
<1>5. delays \subseteq delays'
  OBVIOUS
<1>6. ASSUME NEW l \in AllMembers, l.kind = "proc"
      PROVE  /\ l.item \in delays' => HasDelay(l.calls)
             /\ InStack(stack', Walking(l.item)) => DelayKnown(l)'
  <2>1. CASE l.item = m.item
    <3>1. l = m
      BY <1>1, <1>6, <2>1, OneMember
    <3> QED
      BY <1>4, <1>5, <1>6, <3>1 DEF ProcsOK, DelayKnown
  <2>2. CASE l.item # m.item
    BY <1>4, <1>5, <1>6, <2>2 DEF ProcsOK, DelayKnown
  <2> QED
    BY <2>1, <2>2
<1>7. ASSUME NEW s \in Scopes, NEW n \in DOMAIN Members[s]
      PROVE  ProcOver(s, n)'
  <2>1. ProcOver(s, n) /\ (Past(s, n)' <=> Past(s, n))
    BY DEF ProcsOK, PastSame
  <2> QED
    BY <1>4, <1>5, <2>1 DEF ProcOver, DelayKnown
<1> QED
  BY <1>4, <1>6, <1>7 DEF ProcsOK

\* The end of a walk.
LEMMA ProcsFinished ==
    ASSUME ShapeInv, ProcsOK, NEW t \in Threads, stack[t] # <<>>, Top(t).fn = "proc",
           Top(t) \in Frames, Left(t), PastSame, UNCHANGED delays,
           Top(t).pc = "next", Top(t).todo = <<>>,
           inlined \in [Callers -> (SUBSET DOMAIN Subs) \cup {NotYet}],
           inlined' = [inlined EXCEPT ![Top(t).item] = Top(t).got],
           NEW m \in AllMembers, IsAbout(Top(t), m)
    PROVE  ProcsOK'
<1>1. m.kind = "proc" /\ m.item = Top(t).item /\ m.calls = Top(t).calls /\ m.item \in Callers
  BY OneMember DEF IsAbout
<1>2. \A S : InStack(stack, S) <=> Beneath(t, S) \/ Top(t) \in S
  BY TopAndBeneath
<1>3. ProcOK(Top(t))
  BY <1>2 DEF ProcsOK, WrongProcs
<1>4. Top(t).got = Reached(ToSet(m.calls), Functions)
  BY <1>1, <1>3, WalkFrames
<1>5. DelayKnown(m)
  <2>1. Top(t) \in Walking(m.item)
    BY <1>1 DEF Walking
  <2> QED
    BY <1>1, <1>2, <2>1 DEF ProcsOK
<1>6. \A S : InStack(stack', S) => InStack(stack, S)
  BY <1>2 DEF Left
<1>7. \A i : i # m.item => (InStack(stack', ProcFrames(i)) <=> InStack(stack, ProcFrames(i)))
  BY <1>1, <1>2 DEF Left, ProcFrames
<1>8. /\ inlined'[m.item] = Top(t).got
      /\ \A l \in AllMembers : l.kind = "proc" /\ l.item # m.item =>
             inlined'[l.item] = inlined[l.item]
  BY <1>1
<1>9. ASSUME NEW s \in Scopes, NEW n \in DOMAIN Members[s]
      PROVE  ProcOver(s, n)'
  <2> DEFINE l == Members[s][n]
  <2>0. l \in AllMembers
    BY DEF AllMembers, MembersOf
  <2>1. ProcOver(s, n) /\ (Past(s, n)' <=> Past(s, n))
    BY DEF ProcsOK, PastSame
  <2>2. CASE l.kind = "proc" /\ l.item = m.item
    <3>1. l = m
      BY <1>1, <2>0, <2>2, OneMember
    <3> QED
      BY <1>4, <1>5, <1>8, <3>1 DEF ProcOver, DelayKnown
  <2>3. CASE l.kind = "proc" /\ l.item # m.item
    BY <1>7, <1>8, <2>0, <2>1, <2>3 DEF ProcOver, DelayKnown
  <2> QED
    BY <2>2, <2>3 DEF ProcOver
<1> QED
  BY <1>6, <1>9 DEF ProcsOK, DelayKnown

\* A step of the walk of an expression.
LEMMA ProcsElsewhere ==
    ASSUME ShapeInv, ProcsOK, NEW t \in Threads, stack[t] # <<>>, Top(t).fn = "expr",
           Left(t) \/ \E f : Turned(t, f) /\ f.fn = "expr",
           PastSame, UNCHANGED delays,
           NEW m \in AllMembers, IsAbout(Top(t), m),
           \A c \in Callers : c # m.item => inlined'[c] = inlined[c]
    PROVE  ProcsOK'
<1>1. m.kind = "expr" /\ m.item = Top(t).item
  BY DEF IsAbout
<1>2. \A S : InStack(stack, S) <=> Beneath(t, S) \/ Top(t) \in S
  BY TopAndBeneath
<1>3. \A i : \A f : f.fn = "expr" => /\ f \notin WrongProcs /\ f \notin ProcFrames(i)
                                     /\ f \notin Walking(i)
  BY DEF WrongProcs, ProcFrames, Walking
<1>4. /\ InStack(stack', WrongProcs) <=> InStack(stack, WrongProcs)
      /\ \A i : /\ InStack(stack', ProcFrames(i)) <=> InStack(stack, ProcFrames(i))
                /\ InStack(stack', Walking(i)) <=> InStack(stack, Walking(i))
  <2>1. CASE Left(t)
    BY <1>2, <1>3, <2>1 DEF Left
  <2>2. ASSUME NEW f, Turned(t, f), f.fn = "expr"
        PROVE  /\ InStack(stack', WrongProcs) <=> InStack(stack, WrongProcs)
               /\ \A i : /\ InStack(stack', ProcFrames(i)) <=> InStack(stack, ProcFrames(i))
                         /\ InStack(stack', Walking(i)) <=> InStack(stack, Walking(i))
    BY <1>2, <1>3, <2>2, CallerSets DEF Turned
  <2> QED
    BY <2>1, <2>2
<1>5. ASSUME NEW s \in Scopes, NEW n \in DOMAIN Members[s]
      PROVE  ProcOver(s, n)'
  <2> DEFINE l == Members[s][n]
  <2>0. l \in AllMembers
    BY DEF AllMembers, MembersOf
  <2>1. ProcOver(s, n) /\ (Past(s, n)' <=> Past(s, n))
    BY DEF ProcsOK, PastSame
  <2>2. l.kind = "proc" => l.item # m.item /\ l.item \in Callers
    BY <1>1, <2>0, OneMember
  <2> QED
    BY <1>4, <2>1, <2>2 DEF ProcOver, DelayKnown
<1> QED
  BY <1>4, <1>5 DEF ProcsOK, DelayKnown

LEMMA TaskOrFunction ==
    \A g \in DOMAIN Subs : /\ Subs[g].task => g \notin Functions /\ g \in Tasks
                           /\ ~Subs[g].task => g \in Functions /\ g \notin Tasks
  BY DEF Functions, Tasks

\* Where the thread of a walk is.
LEMMA AtCaller ==
    ASSUME ShapeInv, NEW t \in Threads, CallerStep(t)
    PROVE  /\ stack[t] # <<>> /\ Top(t) \in Frames /\ FrameOK(Top(t))
           /\ Top(t).fn \in {"proc", "expr"}
           /\ \E m \in AllMembers : IsAbout(Top(t), m)
           /\ Top(t).todo # <<>> => Head(Top(t).todo) \in DOMAIN Subs
           /\ Top(t).pc \in {"controls", "collect"} => Top(t).todo # <<>>
<1>1. /\ stack[t] # <<>> /\ Top(t) \in Frames /\ FrameOK(Top(t))
      /\ Top(t).fn \in {"proc", "expr"}
  BY CallerKeepsScopes DEF Caller
<1>2. Top(t).todo \in CallLists
  BY <1>1 DEF Frames
<1> QED
  BY <1>1, <1>2, ToSetFacts DEF FrameOK

LEMMA ProcsTimed ==
    ASSUME ShapeInv, ProcsOK, NEW t \in Threads,
           NextTaskCall(t) \/ VisitTask(t) \/ CollectControls(t)
    PROVE  ProcsOK'
<1> DEFINE f == Top(t)
<1>1. /\ CallerStep(t) /\ stack[t] # <<>> /\ f \in Frames /\ FrameOK(f) /\ f.fn = "proc"
      /\ f.todo # <<>> => Head(f.todo) \in DOMAIN Subs
      /\ f.pc \in {"controls", "collect"} => f.todo # <<>>
      /\ inlined' = inlined
  <2>1. CallerStep(t) /\ f.fn = "proc" /\ inlined' = inlined
    BY DEF CallerStep, NextTaskCall, VisitTask, CollectControls, At, effects
  <2> QED
    BY <2>1, AtCaller
<1>2. PICK m \in AllMembers : IsAbout(f, m)
  BY <1>1, AtCaller
<1>3. m.item = f.item /\ m.calls = f.calls
  BY <1>2 DEF IsAbout
<1>4. PastSame
  BY <1>1, CallerKeepsScopes
<1>5. ProcOK(f)
  BY <1>1, TopAndBeneath DEF ProcsOK, WrongProcs
<1>6. \A h : ~Caller(Frame("sub", h, "lookup", <<>>))
  BY DEF Frame, Caller
<1>7. CASE NextTaskCall(t)
  <2>1. f.pc = "timing" /\ f.todo = <<>>
    BY <1>7 DEF NextTaskCall, At
  <2>2. CASE f.got # {} \/ f.pos > Len(f.calls)
    <3>1. Moved(t, Walk(f)) /\ Turned(t, Walk(f))
      BY <1>7, <2>2, TimingSteps, CallerTurns
    <3>2. /\ Walk(f) \in Frames /\ Walk(f).fn = "proc" /\ Walk(f).item = f.item
          /\ ProcOK(Walk(f))
      BY <1>1, <1>5, CallerFrames, WalkFrames
    <3>3. delays' = IF f.got # {} THEN delays \cup {f.item} ELSE delays
      BY <1>7, <2>2 DEF NextTaskCall
    <3>4. HasDelay(f.calls) <=> f.got # {}
      BY <1>1, <1>5, <2>1, <2>2, TimingFrames
    <3>5. /\ delays' = delays \/ (delays' = delays \cup {m.item} /\ HasDelay(m.calls))
          /\ HasDelay(m.calls) => m.item \in delays'
      BY <1>3, <3>3, <3>4
    <3> HIDE DEF f
    <3> QED
      BY <1>1, <1>2, <1>4, <3>1, <3>2, <3>5, ProcsTurned DEF f
  <2>3. CASE ~(f.got # {} \/ f.pos > Len(f.calls))
    <3>1. Moved(t, TaskFrame(f)) /\ Turned(t, TaskFrame(f))
      BY <1>7, <2>3, TimingSteps, CallerTurns
    <3>2. f.got = {} /\ f.pos <= Len(f.calls)
      BY <1>1, <2>3, LenProperties DEF Frames, CallLists
    <3>3. /\ TaskFrame(f) \in Frames /\ TaskFrame(f).fn = "proc" /\ TaskFrame(f).item = f.item
          /\ ProcOK(TaskFrame(f))
      BY <1>1, <1>5, <2>1, <3>2, CallerFrames, TimingFrames
    <3>4. TaskFrame(f).pc = "timing"
      BY <1>1, <2>1 DEF TaskFrame, Frames
    <3>5. delays' = delays
      BY <1>7, <2>3 DEF NextTaskCall
    <3> HIDE DEF f
    <3> QED
      BY <1>1, <1>2, <1>4, <3>1, <3>3, <3>4, <3>5, ProcsTurned DEF f
  <2> QED
    BY <2>2, <2>3
<1>8. CASE VisitTask(t)
  <2>1. f.pc = "timing" /\ f.todo # <<>> /\ delays' = delays
    BY <1>8 DEF VisitTask, At, effects
  <2>2. CASE ~Subs[Head(f.todo)].task \/ Head(f.todo) \in f.seen
    <3>1. Turned(t, SkipFrame(f))
      BY <1>8, <2>2, TimingSteps, CallerTurns
    <3>2. Head(f.todo) \notin Tasks \/ Head(f.todo) \in f.seen
      BY <1>1, <2>1, <2>2, TaskOrFunction
    <3>3. /\ SkipFrame(f) \in Frames /\ SkipFrame(f).fn = "proc" /\ SkipFrame(f).item = f.item
          /\ ProcOK(SkipFrame(f))
      BY <1>1, <1>5, <2>1, <3>2, CallerFrames, TimingFrames
    <3>4. SkipFrame(f).pc = "timing"
      BY <1>1, <2>1 DEF SkipFrame, Frames
    <3> HIDE DEF f
    <3> QED
      BY <1>1, <1>2, <1>4, <2>1, <3>1, <3>3, <3>4, ProcsTurned DEF f
  <2>3. CASE ~(~Subs[Head(f.todo)].task \/ Head(f.todo) \in f.seen)
    <3>1. Turned(t, ControlsFrame(f))
      BY <1>6, <1>8, <2>3, TimingSteps, CallerTurns
    <3>2. Head(f.todo) \in Tasks
      BY <1>1, <2>1, <2>3, TaskOrFunction
    <3>3. /\ ControlsFrame(f) \in Frames /\ ControlsFrame(f).fn = "proc"
          /\ ControlsFrame(f).item = f.item /\ ProcOK(ControlsFrame(f))
      BY <1>1, <1>5, <2>1, <3>2, CallerFrames, TimingFrames
    <3>4. ControlsFrame(f).pc = "controls"
      BY <1>1 DEF ControlsFrame, Frames
    <3> HIDE DEF f
    <3> QED
      BY <1>1, <1>2, <1>4, <2>1, <3>1, <3>3, <3>4, ProcsTurned DEF f
  <2> QED
    BY <2>2, <2>3
<1>9. CASE CollectControls(t)
  <2>1. f.pc = "controls" /\ f.todo # <<>> /\ delays' = delays
    BY <1>1, <1>9 DEF CollectControls, At, effects
  <2>2. Turned(t, TimingFrame(f))
    BY <1>9, TimingSteps, CallerTurns
  <2>3. /\ TimingFrame(f) \in Frames /\ TimingFrame(f).fn = "proc"
        /\ TimingFrame(f).item = f.item /\ ProcOK(TimingFrame(f))
    BY <1>1, <1>5, <2>1, CallerFrames, TimingFrames
  <2>4. TimingFrame(f).pc = "timing"
    BY <1>1 DEF TimingFrame, Frames
  <2> HIDE DEF f
  <2> QED
    BY <1>1, <1>2, <1>4, <2>1, <2>2, <2>3, <2>4, ProcsTurned DEF f
<1> QED
  BY <1>7, <1>8, <1>9

\* What a step of a walk over functions does to the frame of the caller.
LEMMA WalkTurns ==
    ASSUME ShapeInv, NEW t \in Threads, VisitCall(t) \/ CollectDrivers(t)
    PROVE  LET f == Top(t)
           IN  /\ UNCHANGED <<inlined, delays>>
               /\ f.todo # <<>> /\ f.fn \in {"proc", "expr"}
               /\ VisitCall(t) =>
                      /\ f.pc = "next"
                      /\ \/ /\ Head(f.todo) \notin Functions \/ Head(f.todo) \in Visited(t)
                            /\ Turned(t, SkipFrame(f)) /\ UNCHANGED visitedNonProcCalls
                         \/ /\ Head(f.todo) \in Functions /\ Head(f.todo) \notin Visited(t)
                            /\ Turned(t, CollectFrame(f))
                            /\ visitedNonProcCalls' =
                                   IF f.fn = "expr" THEN visitedNonProcCalls \cup {Head(f.todo)}
                                   ELSE visitedNonProcCalls
               /\ CollectDrivers(t) => /\ f.pc = "collect" /\ Turned(t, NextFrame(f))
                                       /\ UNCHANGED visitedNonProcCalls
<1> DEFINE f == Top(t)
<1>1. UNCHANGED <<inlined, delays>> /\ CallerStep(t)
  BY DEF VisitCall, CollectDrivers, effects, CallerStep
<1>2. /\ f.fn \in {"proc", "expr"}
      /\ f.todo # <<>> => Head(f.todo) \in DOMAIN Subs
      /\ f.pc \in {"controls", "collect"} => f.todo # <<>>
  BY <1>1, AtCaller
<1>3. \A h : ~Caller(Frame("sub", h, "lookup", <<>>))
  BY DEF Frame, Caller
<1>4. ASSUME VisitCall(t)
      PROVE  /\ f.pc = "next" /\ f.todo # <<>>
             /\ \/ /\ Head(f.todo) \notin Functions \/ Head(f.todo) \in Visited(t)
                   /\ Turned(t, SkipFrame(f)) /\ UNCHANGED visitedNonProcCalls
                \/ /\ Head(f.todo) \in Functions /\ Head(f.todo) \notin Visited(t)
                   /\ Turned(t, CollectFrame(f))
                   /\ visitedNonProcCalls' =
                          IF f.fn = "expr" THEN visitedNonProcCalls \cup {Head(f.todo)}
                          ELSE visitedNonProcCalls
  <2>1. f.pc = "next" /\ f.todo # <<>>
    BY <1>4 DEF VisitCall, At
  <2>2. CASE Subs[Head(f.todo)].task \/ Head(f.todo) \in Visited(t)
    <3>1. Turned(t, SkipFrame(f))
      BY <1>4, <2>2, WalkSteps, CallerTurns
    <3>2. UNCHANGED visitedNonProcCalls
      BY <1>4, <2>2 DEF VisitCall
    <3> QED
      BY <1>2, <2>1, <2>2, <3>1, <3>2, TaskOrFunction
  <2>3. CASE ~(Subs[Head(f.todo)].task \/ Head(f.todo) \in Visited(t))
    <3>1. Turned(t, CollectFrame(f))
      BY <1>3, <1>4, <2>3, WalkSteps, CallerTurns
    <3>2. visitedNonProcCalls' = IF f.fn = "expr" THEN visitedNonProcCalls \cup {Head(f.todo)}
                                 ELSE visitedNonProcCalls
      BY <1>4, <2>3 DEF VisitCall
    <3>3. Head(f.todo) \in Functions /\ Head(f.todo) \notin Visited(t)
      BY <1>2, <2>1, <2>3, TaskOrFunction
    <3> QED
      BY <2>1, <3>1, <3>2, <3>3
  <2> QED
    BY <2>2, <2>3
<1>5. ASSUME CollectDrivers(t)
      PROVE  /\ f.pc = "collect" /\ f.todo # <<>> /\ Turned(t, NextFrame(f))
             /\ UNCHANGED visitedNonProcCalls
  <2>1. f.pc = "collect" /\ UNCHANGED visitedNonProcCalls
    BY <1>5 DEF CollectDrivers, At, maps
  <2> QED
    BY <1>2, <1>5, <2>1, WalkSteps, CallerTurns
<1> QED
  BY <1>1, <1>2, <1>4, <1>5

LEMMA ProcsWalked ==
    ASSUME ShapeInv, ProcsOK, NEW t \in Threads,
           VisitCall(t) \/ CollectDrivers(t) \/ FinishCaller(t),
           inlined \in [Callers -> (SUBSET DOMAIN Subs) \cup {NotYet}]
    PROVE  ProcsOK'
<1> DEFINE f == Top(t)
<1>1. /\ CallerStep(t) /\ stack[t] # <<>> /\ f \in Frames /\ FrameOK(f) /\ f.fn \in {"proc", "expr"}
      /\ f.todo # <<>> => Head(f.todo) \in DOMAIN Subs
      /\ f.pc \in {"controls", "collect"} => f.todo # <<>>
      /\ delays' = delays /\ PastSame
  <2>1. CallerStep(t) /\ delays' = delays
    BY DEF CallerStep, VisitCall, CollectDrivers, FinishCaller, effects
  <2> QED
    BY <2>1, AtCaller, CallerKeepsScopes
<1>2. PICK m \in AllMembers : IsAbout(f, m)
  BY <1>1, AtCaller
<1>3. CASE FinishCaller(t)
  <2>1. /\ Left(t) /\ f.pc = "next" /\ f.todo = <<>>
        /\ inlined' = [inlined EXCEPT ![f.item] = f.got]
    BY <1>3, WalkSteps, CallerLeaves DEF FinishCaller, At
  <2>2. \A c \in Callers : c # m.item => inlined'[c] = inlined[c]
    BY <1>2, <2>1 DEF IsAbout
  <2> HIDE DEF f
  <2>3. CASE f.fn = "proc"
    BY <1>1, <1>2, <2>1, <2>3, ProcsFinished DEF f
  <2>4. CASE f.fn = "expr"
    BY <1>1, <1>2, <2>1, <2>2, <2>4, ProcsElsewhere DEF f
  <2> QED
    BY <1>1, <2>3, <2>4
<1>4. CASE VisitCall(t) \/ CollectDrivers(t)
  <2>1. PICK e : /\ e = SkipFrame(f) \/ e = CollectFrame(f) \/ e = NextFrame(f)
                 /\ Turned(t, e) /\ e \in Frames /\ e.fn = f.fn /\ e.item = f.item
                 /\ f.fn = "proc" => ProcOK(e) /\ f.pc \in {"next", "collect"}
    <3>1. f.fn = "proc" => ProcOK(f) /\ Visited(t) = f.seen
      BY <1>1, TopAndBeneath DEF ProcsOK, WrongProcs, Visited
    <3>2. f.todo # <<>>
      BY <1>4, WalkTurns
    <3>3. CASE CollectDrivers(t)
      <4>1. f.pc = "collect" /\ Turned(t, NextFrame(f))
        BY <3>3, WalkTurns
      <4> QED
        BY <1>1, <3>1, <3>2, <4>1, CallerFrames, WalkFrames
    <3>4. CASE VisitCall(t)
      <4>1. /\ f.pc = "next"
            /\ \/ /\ Head(f.todo) \notin Functions \/ Head(f.todo) \in Visited(t)
                  /\ Turned(t, SkipFrame(f))
               \/ Head(f.todo) \in Functions /\ Turned(t, CollectFrame(f))
        BY <3>4, WalkTurns
      <4>2. CASE /\ Head(f.todo) \notin Functions \/ Head(f.todo) \in Visited(t)
                 /\ Turned(t, SkipFrame(f))
        BY <1>1, <3>1, <3>2, <4>1, <4>2, CallerFrames, WalkFrames
      <4>3. CASE Head(f.todo) \in Functions /\ Turned(t, CollectFrame(f))
        BY <1>1, <3>1, <3>2, <4>1, <4>3, CallerFrames, WalkFrames
      <4> QED
        BY <4>1, <4>2, <4>3
    <3> QED
      BY <1>4, <3>3, <3>4
  <2>2. inlined' = inlined
    BY <1>4, WalkTurns
  <2>3. CASE f.fn = "proc"
    <3> HIDE DEF f
    <3> QED
      BY <1>1, <1>2, <2>1, <2>2, <2>3, ProcsTurned DEF f
  <2>4. CASE f.fn = "expr"
    <3> HIDE DEF f
    <3> QED
      BY <1>1, <1>2, <2>1, <2>2, <2>4, ProcsElsewhere DEF f
  <2> QED
    BY <1>1, <2>3, <2>4
<1> QED
  BY <1>3, <1>4

\* What the callers were given has its type, whatever was thrown.
LEMMA InlinedKept ==
    ASSUME ShapeInv, [Next]_vars, inlined \in [Callers -> (SUBSET DOMAIN Subs) \cup {NotYet}]
    PROVE  inlined' \in [Callers -> (SUBSET DOMAIN Subs) \cup {NotYet}]
<1>1. ASSUME NEW t \in Threads, FinishCaller(t)
      PROVE  inlined' \in [Callers -> (SUBSET DOMAIN Subs) \cup {NotYet}]
  <2>1. Top(t) \in Frames
    BY <1>1, AtCaller DEF CallerStep
  <2>2. Top(t).got \in SUBSET DOMAIN Subs
    BY <2>1 DEF Frames
  <2>3. inlined' = [inlined EXCEPT ![Top(t).item] = Top(t).got]
    BY <1>1 DEF FinishCaller
  <2> QED
    BY <2>2, <2>3
<1>2. ASSUME NEW t \in Threads, Step(t)
      PROVE  inlined' = inlined \/ FinishCaller(t)
  <2>1. CASE UNCHANGED effects
    BY <2>1 DEF effects
  <2>2. CASE VisitMember(t) \/ MemberThrows(t) \/ AnalyzeProcedure(t)
    BY <2>1, <2>2 DEF VisitMember, MemberThrows, AnalyzeProcedure, Throw
  <2>3. CASE NoteInstance(t) \/ PublishScope(t) \/ NotifyScope(t)
    BY <2>3 DEF NoteInstance, PublishScope, NotifyScope, effects
  <2>4. CASE \/ LookupSubroutine(t) \/ EmplaceSubroutine(t) \/ AddSubroutineDrivers(t)
             \/ NotifySubroutine(t) \/ AnalyzeResolution(t) \/ CheckNetType(t)
    BY <2>4 DEF LookupSubroutine, EmplaceSubroutine, AddSubroutineDrivers,
                NotifySubroutine, AnalyzeResolution, CheckNetType, effects
  <2>5. CASE NextTaskCall(t) \/ VisitTask(t) \/ CollectControls(t) \/ VisitCall(t) \/ CollectDrivers(t)
    BY <2>5 DEF NextTaskCall, VisitTask, CollectControls, VisitCall, CollectDrivers, effects
  <2> QED
    BY <1>2, <2>2, <2>3, <2>4, <2>5 DEF Step
<1>3. CASE AnalyzeRoot \/ Wait \/ UNCHANGED vars \/ \E t \in Workers : TakeTask(t)
  BY <1>3 DEF AnalyzeRoot, Wait, TakeTask, vars, effects
<1> QED
  BY <1>1, <1>2, <1>3 DEF Next, Stutter

LEMMA ProcInit == Init => ProcInv
<1> SUFFICES ASSUME Init PROVE ProcInv
  OBVIOUS
<1>1. \A S : ~InStack(stack, S)
  BY DEF Init, InStack
<1>2. delays = {} /\ inlined = [c \in Callers |-> NotYet]
  BY DEF Init
<1>3. \A s \in Scopes : \A n \in DOMAIN Members[s] : ~Past(s, n)
  BY <1>1 DEF Past, Init
<1>4. ProcsOK
  BY <1>1, <1>2, <1>3 DEF ProcsOK, ProcOver
<1> QED
  BY <1>2, <1>4 DEF ProcInv

LEMMA ProcStep == ShapeInv /\ ScopeInv /\ ProcInv /\ [Next]_vars => ProcInv'
<1> SUFFICES ASSUME ShapeInv, ScopeInv, ProcInv, [Next]_vars PROVE ProcInv'
  OBVIOUS
<1>1. ASSUME ~Thrown'
      PROVE  ProcsOK'
  <2>1. ProcsOK /\ inlined \in [Callers -> (SUBSET DOMAIN Subs) \cup {NotYet}]
    BY <1>1, ThrownStays DEF ProcInv
  <2>2. CASE CallersSame /\ PastSame /\ UNCHANGED <<visitedNonProcCalls, inlined, delays>>
    BY <2>1, <2>2, ProcsSame
  <2>3. ASSUME NEW t \in Threads, VisitMember(t)
        PROVE  ProcsOK'
    BY <2>1, <2>3, ProcsVisited
  <2>4. ASSUME NEW t \in Threads, CallerStep(t)
        PROVE  ProcsOK'
    BY <2>1, <2>4, ProcsTimed, ProcsWalked DEF CallerStep
  <2> QED
    BY <1>1, <2>2, <2>3, <2>4, CallersKept
<1> QED
  BY <1>1, InlinedKept DEF ProcInv

\* When analyze() returns, every member of a scope the design reaches is past, and no call of it
\* is in progress.
LEMMA AllPast ==
    ASSUME ShapeInv, ScopeInv, Done, NEW m \in ReachableMembers
    PROVE  /\ ~Thrown /\ \A S : ~InStack(stack, S)
           /\ \E s \in Scopes : \E n \in DOMAIN Members[s] : m = Members[s][n] /\ Past(s, n)
<1>1. /\ ~pendingException /\ main.pc = "done" /\ \A t \in Threads : stack[t] = <<>>
  BY DEF ShapeInv, Done
<1>2. PICK s \in ReachableScopes : \E n \in DOMAIN Members[s] : m = Members[s][n]
  BY DEF ReachableMembers, MembersOf
<1>3. PICK n \in DOMAIN Members[s] : m = Members[s][n]
  BY <1>2
<1>4. s \in Scopes /\ analyzedScopes[s] = "done"
  BY AllAnalyzed DEF EverythingAnalyzed, ReachableScopes
<1> QED
  BY <1>1, <1>3, <1>4 DEF Thrown, InStack, Past

\* A procedure is found to call a task with a delay exactly when it reaches one.
THEOREM DelaysFound == Spec => []TaskDelaysFound
<1>1. Init => ShapeInv /\ ScopeInv /\ ProcInv
  BY ShapeInit, ScopeInit, ProcInit
<1>2. ShapeInv /\ ScopeInv /\ ProcInv /\ [Next]_vars => (ShapeInv /\ ScopeInv /\ ProcInv)'
  BY ShapeStep, ScopeStep, ProcStep
<1>3. ShapeInv /\ ScopeInv /\ ProcInv => TaskDelaysFound
  <2> SUFFICES ASSUME ShapeInv, ScopeInv, ProcInv, Done, NEW m \in ReachableMembers,
                      m.kind = "proc", m.timing
               PROVE  m.item \in delays <=> HasDelay(m.calls)
    BY DEF TaskDelaysFound, HasDelay
  <2>1. /\ ~Thrown /\ \A S : ~InStack(stack, S)
        /\ \E s \in Scopes : \E n \in DOMAIN Members[s] : m = Members[s][n] /\ Past(s, n)
    BY AllPast
  <2>2. PICK s \in Scopes : \E n \in DOMAIN Members[s] : m = Members[s][n] /\ Past(s, n)
    BY <2>1
  <2>3. PICK n \in DOMAIN Members[s] : m = Members[s][n] /\ Past(s, n)
    BY <2>2
  <2>4. ProcsOK /\ m \in AllMembers
    BY <2>1, <2>3 DEF ProcInv, AllMembers, MembersOf
  <2>5. DelayKnown(m)
    BY <2>1, <2>3, <2>4 DEF ProcsOK, ProcOver
  <2> QED
    BY <2>4, <2>5 DEF ProcsOK, DelayKnown
<1> QED
  BY <1>1, <1>2, <1>3, PTL DEF Spec
-----------------------------------------------------------------------------
(***************************************************************************)
(* The expressions: they share one visited set.  A function in it belongs  *)
(* to the expression that put it there, and what that function calls is in *)
(* the set as well, or some expression still has it to do.                 *)
(***************************************************************************)
Expressions == {m.item : m \in {x \in AllMembers : x.kind = "expr"}}

WrongExprs ==
    {f \in Frames : f.fn = "expr" /\ f.seen # f.got \cup (IF f.pc = "collect" THEN {Head(f.todo)}
                                                          ELSE {})}

ExprFrames(e) == {f \in Frames : f.fn = "expr" /\ f.item = e}

Holding(e, g) == {f \in Frames : f.fn = "expr" /\ f.item = e /\ g \in f.seen}

Collecting(g) == {f \in Frames : f.fn = "expr" /\ f.pc = "collect" /\ Head(f.todo) = g}

Having(g) == {f \in Frames : f.fn = "expr" /\ g \in ToSet(f.todo)}

Owns(e, g) == InStack(stack, Holding(e, g)) \/ (inlined[e] # NotYet /\ g \in inlined[e])

Known(h) == h \in visitedNonProcCalls \/ InStack(stack, Having(h))

ExprReach == Reached(CallsOf({"expr"}), Functions)

Followed(g) ==
    InStack(stack, Collecting(g)) \/ \A h \in ToSet(Subs[g].calls) \cap Functions : Known(h)

ExprOver(s, n) ==
    LET m == Members[s][n]
    IN  m.kind = "expr" =>
            /\ InStack(stack, ExprFrames(m.item)) => Past(s, n)
            /\ inlined[m.item] # NotYet <=> Past(s, n) /\ ~InStack(stack, ExprFrames(m.item))
            /\ Past(s, n) => \A h \in ToSet(m.calls) \cap Functions : Known(h)

OwnersOK ==
    \A g \in DOMAIN Subs :
        /\ \A d, e \in Expressions : Owns(d, g) /\ Owns(e, g) => d = e
        /\ g \in visitedNonProcCalls <=> \E e \in Expressions : Owns(e, g)

ReachOK ==
    /\ \A g \in visitedNonProcCalls : g \in ExprReach /\ Followed(g)
    /\ \A h \in Functions : InStack(stack, Having(h)) => h \in ExprReach

ExprsOK ==
    /\ ~InStack(stack, WrongExprs)
    /\ \A e \in Expressions : Lone(stack, ExprFrames(e))
    /\ OwnersOK /\ ReachOK
    /\ \A s \in Scopes : \A n \in DOMAIN Members[s] : ExprOver(s, n)

ExprInv == ~Thrown => ExprsOK

LEMMA ExprSets ==
    /\ \A f \in WrongExprs : f.fn = "expr"
    /\ \A e : /\ \A f \in ExprFrames(e) : f.fn = "expr"
              /\ \A f \in Collecting(e) : f.fn = "expr"
              /\ \A f \in Having(e) : f.fn = "expr"
              /\ \A g : \A f \in Holding(e, g) : f.fn = "expr"
  BY DEF WrongExprs, ExprFrames, Holding, Collecting, Having

\* A step that leaves the expressions alone.
ExprsSame ==
    /\ \A S : (\A f \in S : f.fn = "expr") =>
                  /\ InStack(stack', S) <=> InStack(stack, S)
                  /\ Lone(stack, S) => Lone(stack', S)
    /\ UNCHANGED visitedNonProcCalls
    /\ \A e \in Expressions : inlined'[e] = inlined[e]
    /\ \A s \in Scopes : \A n \in DOMAIN Members[s] :
           Members[s][n].kind = "expr" => (Past(s, n)' <=> Past(s, n))

LEMMA ExprsKept ==
    ASSUME ExprsOK, ExprsSame
    PROVE  ExprsOK'
<1>1. /\ InStack(stack', WrongExprs) <=> InStack(stack, WrongExprs)
      /\ \A e : /\ InStack(stack', ExprFrames(e)) <=> InStack(stack, ExprFrames(e))
                /\ InStack(stack', Collecting(e)) <=> InStack(stack, Collecting(e))
                /\ InStack(stack', Having(e)) <=> InStack(stack, Having(e))
                /\ \A g : InStack(stack', Holding(e, g)) <=> InStack(stack, Holding(e, g))
                /\ Lone(stack, ExprFrames(e)) => Lone(stack', ExprFrames(e))
  BY ExprSets DEF ExprsSame
<1>2. /\ UNCHANGED visitedNonProcCalls
      /\ \A e \in Expressions : inlined'[e] = inlined[e]
      /\ \A s \in Scopes : \A n \in DOMAIN Members[s] :
             Members[s][n].kind = "expr" => (Past(s, n)' <=> Past(s, n))
  BY DEF ExprsSame
<1>3. \A e \in Expressions : \A g : Owns(e, g)' <=> Owns(e, g)
  BY <1>1, <1>2 DEF Owns
<1>4. \A h : Known(h)' <=> Known(h)
  BY <1>1, <1>2 DEF Known
<1>5. OwnersOK'
  BY <1>2, <1>3 DEF ExprsOK, OwnersOK
<1>6. ReachOK'
  BY <1>1, <1>2, <1>4 DEF ExprsOK, ReachOK, Followed
<1>7. ASSUME NEW s \in Scopes, NEW n \in DOMAIN Members[s]
      PROVE  ExprOver(s, n)'
  <2>1. Members[s][n].kind = "expr" => Members[s][n].item \in Expressions
    BY DEF Expressions, AllMembers, MembersOf
  <2>2. ExprOver(s, n)
    BY DEF ExprsOK
  <2> QED
    BY <1>1, <1>2, <1>4, <2>1, <2>2 DEF ExprOver
<1> QED
  BY <1>1, <1>5, <1>6, <1>7 DEF ExprsOK

\* The frame the walk of an expression begins with.
LEMMA ExprBegins ==
    ASSUME NEW m \in AllMembers, m.kind = "expr", ~m.timing
    PROVE  /\ MemberFrame(m) \notin WrongExprs
           /\ \A e : /\ MemberFrame(m) \in ExprFrames(e) <=> e = m.item
                     /\ MemberFrame(m) \notin Collecting(e)
                     /\ MemberFrame(m) \in Having(e) <=> e \in ToSet(m.calls)
                     /\ \A g : MemberFrame(m) \notin Holding(e, g)
<1>1. MemberFrame(m) \in Frames
  BY NewMember
<1>2. MemberFrame(m) = [fn |-> "expr", item |-> m.item, pc |-> "next", pos |-> 1,
                        calls |-> m.calls, todo |-> m.calls, seen |-> {}, got |-> {}]
  BY DEF MemberFrame, Frame, Walk
<1> QED
  BY <1>1, <1>2 DEF WrongExprs, ExprFrames, Collecting, Having, Holding

\* A member of a scope that was started has calls the expressions reach.
LEMMA ExprCalls ==
    ASSUME NEW s \in ReachableScopes, NEW n \in DOMAIN Members[s], Members[s][n].kind = "expr"
    PROVE  /\ ToSet(Members[s][n].calls) \cap Functions \subseteq ExprReach
           /\ Members[s][n] \in AllMembers /\ Members[s][n].item \in Expressions
<1>1. Members[s][n] \in ReachableMembers /\ Members[s][n] \in AllMembers
  BY DEF ReachableMembers, AllMembers, MembersOf, ReachableScopes
<1>2. ToSet(Members[s][n].calls) \subseteq CallsOf({"expr"})
  BY <1>1 DEF CallsOf
<1> QED
  BY <1>1, <1>2, ReachedClosed DEF ExprReach, Expressions

LEMMA ExprsStarted ==
    ASSUME ExprsOK, NEW s0 \in ReachableScopes, NEW n0 \in DOMAIN Members[s0],
           NEW m, m = Members[s0][n0], m.kind = "expr", ~m.timing, ~Past(s0, n0),
           \A s \in Scopes : \A n \in DOMAIN Members[s] :
               Past(s, n)' <=> Past(s, n) \/ (s = s0 /\ n = n0),
           \A S : (\A f \in S : Caller(f)) =>
               /\ InStack(stack', S) <=> InStack(stack, S) \/ MemberFrame(m) \in S
               /\ Lone(stack, S) /\ (MemberFrame(m) \in S => ~InStack(stack, S))
                      => Lone(stack', S),
           UNCHANGED <<visitedNonProcCalls, inlined>>
    PROVE  ExprsOK'
<1>1. /\ s0 \in Scopes /\ m \in AllMembers /\ m.item \in Expressions
      /\ ToSet(m.calls) \cap Functions \subseteq ExprReach
  BY ExprCalls DEF ReachableScopes
<1>2. ~InStack(stack, ExprFrames(m.item)) /\ inlined[m.item] = NotYet
  BY <1>1 DEF ExprsOK, ExprOver
<1>3. \A S : (\A f \in S : f.fn = "expr") => (\A f \in S : Caller(f))
  BY DEF Caller
<1>4. /\ ~InStack(stack', WrongExprs)
      /\ \A e : /\ InStack(stack', ExprFrames(e)) <=> InStack(stack, ExprFrames(e)) \/ e = m.item
                /\ InStack(stack', Collecting(e)) <=> InStack(stack, Collecting(e))
                /\ InStack(stack', Having(e)) <=> InStack(stack, Having(e)) \/ e \in ToSet(m.calls)
                /\ \A g : InStack(stack', Holding(e, g)) <=> InStack(stack, Holding(e, g))
  BY <1>1, <1>3, ExprBegins, ExprSets DEF ExprsOK
<1>5. ASSUME NEW e \in Expressions
      PROVE  Lone(stack', ExprFrames(e))
  <2>1. Lone(stack, ExprFrames(e)) /\ (MemberFrame(m) \in ExprFrames(e) => ~InStack(stack, ExprFrames(e)))
    BY <1>1, <1>2, ExprBegins DEF ExprsOK
  <2> QED
    BY <1>3, <2>1, ExprSets
<1>6. \A e, g : Owns(e, g)' <=> Owns(e, g)
  BY <1>4 DEF Owns
<1>7. \A h : Known(h)' <=> Known(h) \/ h \in ToSet(m.calls)
  BY <1>4 DEF Known
<1>8. OwnersOK'
  BY <1>6 DEF ExprsOK, OwnersOK
<1>9. ReachOK'
  BY <1>1, <1>4, <1>7 DEF ExprsOK, ReachOK, Followed
<1>10. ASSUME NEW s \in Scopes, NEW n \in DOMAIN Members[s]
       PROVE  ExprOver(s, n)'
  <2>1. ExprOver(s, n) /\ (Past(s, n)' <=> Past(s, n) \/ (s = s0 /\ n = n0))
    BY DEF ExprsOK
  <2>2. CASE s = s0 /\ n = n0
    BY <1>2, <1>4, <1>7, <2>1, <2>2 DEF ExprOver
  <2>3. CASE ~(s = s0 /\ n = n0)
    <3>1. Members[s][n].kind = "expr" => Members[s][n].item # m.item
      BY <1>1, <2>3, MembersDistinct
    <3> QED
      BY <1>4, <1>7, <2>1, <2>3, <3>1 DEF ExprOver
  <2> QED
    BY <2>2, <2>3
<1> QED
  BY <1>4, <1>5, <1>8, <1>9, <1>10 DEF ExprsOK

LEMMA ExprsVisited ==
    ASSUME ShapeInv, ScopesOK, ExprsOK, NEW t \in Threads, VisitMember(t)
    PROVE  ExprsOK'
<1>1. /\ Top(t).item \in ReachableScopes /\ ~Past(Top(t).item, Top(t).pos)
      /\ Top(t).pos \in DOMAIN Members[Top(t).item]
  <2>1. At(t, "scope", "members") /\ Top(t).pos \in DOMAIN Members[Top(t).item]
    BY CallerVisited
  <2>2. /\ Top(t).item \in Scopes /\ Top(t).item \in ReachableScopes
        /\ \A n : Past(Top(t).item, n) <=> Top(t).pos > n
    BY <2>1, AtMember DEF ScopesOK
  <2>3. Top(t).pos \in Nat
    BY <2>1, <2>2, MembersOK, LenProperties
  <2> QED
    BY <2>1, <2>2, <2>3
<1>2. PICK s0 \in ReachableScopes, n0 \in DOMAIN Members[Top(t).item], m \in AllMembers :
          /\ n0 \in DOMAIN Members[s0] /\ m = Members[s0][n0] /\ ~Past(s0, n0)
          /\ \A s \in Scopes : \A n \in DOMAIN Members[s] :
                 Past(s, n)' <=> Past(s, n) \/ (s = s0 /\ n = n0)
          /\ m.kind \notin {"proc", "expr"} => CallersSame
          /\ m.kind \in {"proc", "expr"} =>
                 /\ m.kind = "expr" => ~m.timing
                 /\ \A S : (\A f \in S : Caller(f)) =>
                        /\ InStack(stack', S) <=> InStack(stack, S) \/ MemberFrame(m) \in S
                        /\ Lone(stack, S) /\ (MemberFrame(m) \in S => ~InStack(stack, S))
                               => Lone(stack', S)
          /\ UNCHANGED <<visitedNonProcCalls, inlined, delays>>
  BY <1>1, CallerVisited
<1>3. CASE m.kind = "expr"
  BY <1>2, <1>3, ExprsStarted
<1>4. CASE m.kind # "expr"
  <2>1. \A s \in Scopes : \A n \in DOMAIN Members[s] :
            Members[s][n].kind = "expr" => (Past(s, n)' <=> Past(s, n))
    BY <1>2, <1>4
  <2>2. ASSUME NEW S, \A f \in S : f.fn = "expr"
        PROVE  /\ InStack(stack', S) <=> InStack(stack, S)
               /\ Lone(stack, S) => Lone(stack', S)
    <3>1. \A f \in S : Caller(f)
      BY <2>2 DEF Caller
    <3>2. CASE m.kind \notin {"proc", "expr"}
      BY <1>2, <3>1, <3>2 DEF CallersSame
    <3>3. CASE m.kind = "proc"
      <4>1. MemberFrame(m) \notin S
        BY <2>2, <3>3, WalkBegins
      <4> QED
        BY <1>2, <3>1, <3>3, <4>1
    <3> QED
      BY <1>4, <3>2, <3>3
  <2>3. ExprsSame
    BY <1>2, <2>1, <2>2 DEF ExprsSame
  <2> QED
    BY <2>3, ExprsKept
<1> QED
  BY <1>3, <1>4

\* The walk of a procedure leaves the expressions alone.
LEMMA ExprsElsewhere ==
    ASSUME ShapeInv, ExprsOK, NEW t \in Threads, CallerStep(t), Top(t).fn = "proc",
           Left(t) \/ \E f : Turned(t, f) /\ f.fn = "proc", UNCHANGED visitedNonProcCalls,
           NEW m \in AllMembers, IsAbout(Top(t), m),
           \A c \in Callers : c # m.item => inlined'[c] = inlined[c]
    PROVE  ExprsOK'
<1>1. stack[t] # <<>> /\ PastSame
  BY CallerKeepsScopes
<1>2. m.kind = "proc"
  BY DEF IsAbout
<1>3. ASSUME NEW S, \A f \in S : f.fn = "expr"
      PROVE  /\ InStack(stack', S) <=> InStack(stack, S)
             /\ Lone(stack, S) => Lone(stack', S)
  <2>1. InStack(stack, S) <=> Beneath(t, S)
    BY <1>1, <1>3, TopAndBeneath
  <2>2. CASE Left(t)
    BY <2>1, <2>2 DEF Left
  <2>3. ASSUME NEW f, Turned(t, f), f.fn = "proc"
        PROVE  /\ InStack(stack', S) <=> InStack(stack, S)
               /\ Lone(stack, S) => Lone(stack', S)
    <3>1. (\A g \in S : Caller(g)) /\ f \notin S
      BY <1>3, <2>3 DEF Caller
    <3> QED
      BY <2>1, <2>3, <3>1 DEF Turned
  <2> QED
    BY <2>2, <2>3
<1>4. \A e \in Expressions : inlined'[e] = inlined[e]
  BY <1>2, OneMember DEF Expressions
<1>5. ExprsSame
  BY <1>1, <1>3, <1>4 DEF ExprsSame, PastSame
<1> QED
  BY <1>5, ExprsKept

\* A step of the walk of an expression.
LEMMA ExprsTurned ==
    ASSUME ShapeInv, ExprsOK, NEW t \in Threads, stack[t] # <<>>,
           NEW f \in Frames, f = Top(t), f.fn = "expr", f.item \in Expressions,
           NEW e \in Frames, Turned(t, e), e.fn = "expr", e.item = f.item, e \notin WrongExprs,
           PastSame, UNCHANGED inlined,
           visitedNonProcCalls' = visitedNonProcCalls \cup e.seen, f.seen \subseteq e.seen,
           \A g \in e.seen \ f.seen :
               g \notin visitedNonProcCalls /\ g \in ExprReach /\ e \in Collecting(g),
           ToSet(e.todo) \cap Functions \subseteq ExprReach,
           ToSet(f.todo) \cap Functions \subseteq visitedNonProcCalls' \cup ToSet(e.todo),
           \A g : f \in Collecting(g) =>
               \/ e \in Collecting(g)
               \/ ToSet(Subs[g].calls) \cap Functions \subseteq visitedNonProcCalls' \cup ToSet(e.todo)
    PROVE  ExprsOK'
<1>1. \A S : /\ InStack(stack, S) <=> Beneath(t, S) \/ f \in S
             /\ Lone(stack, S) /\ f \in S => ~Beneath(t, S)
  BY TopAndBeneath
<1>2. ASSUME NEW S, \A g \in S : g.fn = "expr"
      PROVE  /\ InStack(stack', S) <=> Beneath(t, S) \/ e \in S
             /\ Lone(stack, S) /\ (e \in S => ~Beneath(t, S)) => Lone(stack', S)
  BY <1>2 DEF Turned, Caller
<1>3. \A i : /\ e \in ExprFrames(i) <=> i = f.item
             /\ f \in ExprFrames(i) <=> i = f.item
             /\ e \in Having(i) <=> i \in ToSet(e.todo)
             /\ f \in Having(i) <=> i \in ToSet(f.todo)
             /\ \A g : /\ e \in Holding(i, g) <=> i = f.item /\ g \in e.seen
                       /\ f \in Holding(i, g) <=> i = f.item /\ g \in f.seen
  BY DEF ExprFrames, Having, Holding
<1>4. \A i : InStack(stack', ExprFrames(i)) <=> InStack(stack, ExprFrames(i))
  BY <1>1, <1>2, <1>3, ExprSets
<1>5. ASSUME NEW i \in Expressions
      PROVE  Lone(stack', ExprFrames(i))
  BY <1>1, <1>2, <1>3, ExprSets DEF ExprsOK
<1>6. ~InStack(stack', WrongExprs)
  BY <1>1, <1>2, ExprSets DEF ExprsOK
<1>7. \A i, g : Owns(i, g)' <=> Owns(i, g) \/ (i = f.item /\ g \in e.seen \ f.seen)
  <2>1. ASSUME NEW i, NEW g
        PROVE  InStack(stack', Holding(i, g)) <=>
                   InStack(stack, Holding(i, g)) \/ (i = f.item /\ g \in e.seen \ f.seen)
    <3>1. InStack(stack', Holding(i, g)) <=> Beneath(t, Holding(i, g)) \/ e \in Holding(i, g)
      BY <1>2, ExprSets
    <3>2. e \in Holding(i, g) <=> f \in Holding(i, g) \/ (i = f.item /\ g \in e.seen \ f.seen)
      BY <1>3
    <3> QED
      BY <1>1, <3>1, <3>2
  <2> QED
    BY <2>1 DEF Owns
<1>8. f.seen \subseteq visitedNonProcCalls /\ e.seen \subseteq DOMAIN Subs
  <2>1. f.seen \subseteq DOMAIN Subs /\ e.seen \subseteq DOMAIN Subs
    BY DEF Frames
  <2>2. \A g \in f.seen : Owns(f.item, g)
    BY <1>1, <1>3 DEF Owns
  <2> QED
    BY <2>1, <2>2 DEF ExprsOK, OwnersOK
<1>9. ASSUME NEW g \in DOMAIN Subs
      PROVE  /\ \A i, j \in Expressions : Owns(i, g)' /\ Owns(j, g)' => i = j
             /\ g \in visitedNonProcCalls' <=> \E i \in Expressions : Owns(i, g)'
  <2>1. /\ \A i, j \in Expressions : Owns(i, g) /\ Owns(j, g) => i = j
        /\ g \in visitedNonProcCalls <=> \E i \in Expressions : Owns(i, g)
    BY DEF ExprsOK, OwnersOK
  <2>2. CASE g \in e.seen \ f.seen
    BY <1>7, <2>1, <2>2
  <2>3. CASE g \notin e.seen \ f.seen
    BY <1>7, <1>8, <2>1, <2>3
  <2> QED
    BY <2>2, <2>3
<1>10. \A h \in visitedNonProcCalls' \cup ToSet(e.todo) : Known(h)'
  BY <1>2, <1>3, ExprSets DEF Known
<1>11. ASSUME NEW h \in Functions, Known(h)
       PROVE  Known(h)'
  <2>1. CASE h \in visitedNonProcCalls \/ h \in ToSet(f.todo)
    BY <1>10, <2>1
  <2>2. CASE Beneath(t, Having(h))
    BY <1>2, <2>2, ExprSets DEF Known
  <2> QED
    BY <1>1, <1>3, <1>11, <2>1, <2>2 DEF Known
<1>12. ASSUME NEW g \in visitedNonProcCalls'
       PROVE  g \in ExprReach /\ Followed(g)'
  <2>1. CASE g \in e.seen \ f.seen
    BY <1>2, <2>1, ExprSets DEF Followed
  <2>2. CASE g \notin e.seen \ f.seen
    <3>1. g \in visitedNonProcCalls
      BY <1>8, <2>2
    <3>2. g \in ExprReach /\ Followed(g)
      BY <3>1 DEF ExprsOK, ReachOK
    <3>3. CASE \A h \in ToSet(Subs[g].calls) \cap Functions : Known(h)
      BY <1>11, <3>2, <3>3 DEF Followed
    <3>4. CASE Beneath(t, Collecting(g)) \/ e \in Collecting(g)
      BY <1>2, <3>2, <3>4, ExprSets DEF Followed
    <3>5. CASE ToSet(Subs[g].calls) \cap Functions \subseteq visitedNonProcCalls' \cup ToSet(e.todo)
      BY <1>10, <3>2, <3>5 DEF Followed
    <3> QED
      BY <1>1, <3>2, <3>3, <3>4, <3>5 DEF Followed
  <2> QED
    BY <2>1, <2>2
<1>13. ASSUME NEW h \in Functions, InStack(stack', Having(h))
       PROVE  h \in ExprReach
  <2>1. Beneath(t, Having(h)) \/ h \in ToSet(e.todo)
    BY <1>2, <1>3, <1>13, ExprSets
  <2>2. Beneath(t, Having(h)) => InStack(stack, Having(h))
    BY <1>1
  <2> QED
    BY <2>1, <2>2 DEF ExprsOK, ReachOK
<1>14. ASSUME NEW s \in Scopes, NEW n \in DOMAIN Members[s]
       PROVE  ExprOver(s, n)'
  <2>1. ExprOver(s, n) /\ (Past(s, n)' <=> Past(s, n))
    BY DEF ExprsOK, PastSame
  <2> QED
    BY <1>4, <1>11, <2>1 DEF ExprOver
<1>15. OwnersOK' /\ ReachOK'
  <2>1. OwnersOK'
    BY <1>9 DEF OwnersOK
  <2>2. ReachOK'
    BY <1>12, <1>13 DEF ReachOK
  <2> QED
    BY <2>1, <2>2
<1> QED
  BY <1>5, <1>6, <1>14, <1>15 DEF ExprsOK

\* The end of the walk of an expression.
LEMMA ExprsFinished ==
    ASSUME ShapeInv, ExprsOK, NEW t \in Threads, stack[t] # <<>>,
           NEW f \in Frames, f = Top(t), f.fn = "expr", f.item \in Expressions,
           f.pc = "next", f.todo = <<>>, Left(t), PastSame, UNCHANGED visitedNonProcCalls,
           inlined \in [Callers -> (SUBSET DOMAIN Subs) \cup {NotYet}],
           inlined' = [inlined EXCEPT ![f.item] = f.got]
    PROVE  ExprsOK'
<1>1. \A S : /\ InStack(stack, S) <=> Beneath(t, S) \/ f \in S
             /\ Lone(stack, S) /\ f \in S => ~Beneath(t, S)
  BY TopAndBeneath
<1>2. \A S : /\ InStack(stack', S) <=> Beneath(t, S)
             /\ Lone(stack, S) => Lone(stack', S)
  BY DEF Left
<1>3. \A i : /\ f \in ExprFrames(i) <=> i = f.item
             /\ f \notin Having(i) /\ f \notin Collecting(i)
             /\ \A g : f \in Holding(i, g) <=> i = f.item /\ g \in f.seen
  BY ToSetFacts DEF ExprFrames, Having, Holding, Collecting
<1>4. f.seen = f.got
  <2>1. f \notin WrongExprs
    BY <1>1 DEF ExprsOK
  <2> QED
    BY <2>1 DEF WrongExprs
<1>5. /\ ~Beneath(t, ExprFrames(f.item))
      /\ \A g : ~Beneath(t, Holding(f.item, g))
  <2>1. ~Beneath(t, ExprFrames(f.item))
    BY <1>1, <1>3 DEF ExprsOK
  <2> QED
    BY <2>1 DEF Beneath, ExprFrames, Holding
<1>6. f.got # NotYet /\ f.item \in Callers
  <2>1. f.got \subseteq DOMAIN Subs /\ "not yet" \notin DOMAIN Subs
    BY NotYetOK DEF Frames
  <2>2. f.item \in Callers
    BY DEF Expressions, Callers
  <2> QED
    BY <2>1, <2>2 DEF NotYet
<1>7. \A i \in Callers : inlined'[i] = IF i = f.item THEN f.got ELSE inlined[i]
  BY <1>6
<1>8. Expressions \subseteq Callers
  BY DEF Expressions, Callers
<1>9. inlined[f.item] = NotYet
  <2>1. PICK m \in AllMembers : m.kind = "expr" /\ m.item = f.item
    BY DEF Expressions
  <2>2. PICK s \in Scopes : m \in MembersOf(s)
    BY DEF AllMembers
  <2>3. PICK n \in DOMAIN Members[s] : m = Members[s][n]
    BY <2>2 DEF MembersOf
  <2>4. InStack(stack, ExprFrames(f.item))
    BY <1>1, <1>3
  <2> QED
    BY <2>1, <2>3, <2>4 DEF ExprsOK, ExprOver
<1>10. ASSUME NEW i \in Expressions, NEW g
       PROVE  Owns(i, g)' <=> Owns(i, g)
  <2>1. CASE i = f.item
    BY <1>1, <1>2, <1>3, <1>4, <1>5, <1>6, <1>7, <1>9, <2>1 DEF Owns
  <2>2. CASE i # f.item
    <3>1. InStack(stack', Holding(i, g)) <=> InStack(stack, Holding(i, g))
      BY <1>1, <1>2, <1>3, <2>2
    <3>2. inlined'[i] = inlined[i]
      BY <1>7, <1>8, <2>2
    <3> QED
      BY <3>1, <3>2 DEF Owns
  <2> QED
    BY <2>1, <2>2
<1>11. \A i : /\ InStack(stack', Having(i)) <=> InStack(stack, Having(i))
              /\ InStack(stack', Collecting(i)) <=> InStack(stack, Collecting(i))
              /\ Known(i)' <=> Known(i)
  BY <1>1, <1>2, <1>3 DEF Known
<1>12. OwnersOK'
  BY <1>10 DEF ExprsOK, OwnersOK
<1>13. ReachOK'
  BY <1>11 DEF ExprsOK, ReachOK, Followed
<1>14. ASSUME NEW s \in Scopes, NEW n \in DOMAIN Members[s]
       PROVE  ExprOver(s, n)'
  <2> DEFINE m == Members[s][n]
  <2>1. ExprOver(s, n) /\ (Past(s, n)' <=> Past(s, n))
    BY DEF ExprsOK, PastSame
  <2>2. m.kind = "expr" => m.item \in Callers
    BY DEF Callers, AllMembers, MembersOf
  <2>3. CASE m.item = f.item
    BY <1>1, <1>2, <1>3, <1>5, <1>6, <1>7, <1>11, <2>1, <2>3 DEF ExprOver
  <2>4. CASE m.item # f.item
    <3>1. InStack(stack', ExprFrames(m.item)) <=> InStack(stack, ExprFrames(m.item))
      BY <1>1, <1>2, <1>3, <2>4
    <3> QED
      BY <1>7, <1>11, <2>1, <2>2, <2>4, <3>1 DEF ExprOver
  <2> QED
    BY <2>3, <2>4
<1>15. /\ ~InStack(stack', WrongExprs)
       /\ \A i \in Expressions : Lone(stack', ExprFrames(i))
  BY <1>1, <1>2 DEF ExprsOK
<1> QED
  BY <1>12, <1>13, <1>14, <1>15 DEF ExprsOK

\* The steps of the walk of an expression: the functions it meets are reached, and the one it
\* takes was nobody's.
LEMMA ExprsWalked ==
    ASSUME ShapeInv, ExprsOK, NEW t \in Threads, Top(t).fn = "expr",
           VisitCall(t) \/ CollectDrivers(t)
    PROVE  ExprsOK'
<1> DEFINE f == Top(t)
           h == Head(f.todo)
<1>1. /\ stack[t] # <<>> /\ f \in Frames /\ FrameOK(f) /\ f.todo # <<>> /\ h \in DOMAIN Subs
      /\ PastSame /\ inlined' = inlined
  <2>1. CallerStep(t)
    BY DEF CallerStep
  <2> QED
    BY <2>1, AtCaller, CallerKeepsScopes, WalkTurns
<1>2. PICK m \in AllMembers : IsAbout(f, m)
  BY <1>1 DEF FrameOK
<1>3. f.item \in Expressions
  BY <1>2 DEF IsAbout, Expressions
<1>4. f.todo \in CallLists /\ f.seen \subseteq DOMAIN Subs
  BY <1>1 DEF Frames
<1>5. /\ ToSet(f.todo) = {h} \cup ToSet(Tail(f.todo)) /\ Tail(f.todo) \in CallLists
      /\ ToSet(Subs[h].calls \o Tail(f.todo)) = ToSet(Subs[h].calls) \cup ToSet(Tail(f.todo))
  BY <1>1, <1>4, ToSetFacts, MembersOK DEF CallLists
<1>6. \A S : f \in S => InStack(stack, S)
  BY <1>1, TopAndBeneath
<1>7. f.seen = f.got \cup (IF f.pc = "collect" THEN {h} ELSE {})
  <2>1. f \notin WrongExprs
    BY <1>6 DEF ExprsOK
  <2> QED
    BY <1>1, <2>1 DEF WrongExprs
<1>8. f.seen \subseteq visitedNonProcCalls
  <2>1. \A g \in f.seen : f \in Holding(f.item, g)
    BY <1>1 DEF Holding
  <2>2. \A g \in f.seen : Owns(f.item, g)
    BY <1>6, <2>1 DEF Owns
  <2> QED
    BY <1>3, <1>4, <2>2 DEF ExprsOK, OwnersOK
<1>9. ToSet(f.todo) \cap Functions \subseteq ExprReach
  <2>1. \A g \in ToSet(f.todo) : f \in Having(g)
    BY <1>1 DEF Having
  <2> QED
    BY <1>6, <2>1 DEF ExprsOK, ReachOK
<1>10. \A g : f \in Collecting(g) => f.pc = "collect" /\ g = h
  BY DEF Collecting
<1>11. ASSUME VisitCall(t), h \notin Functions \/ h \in visitedNonProcCalls,
              Turned(t, SkipFrame(f)), UNCHANGED visitedNonProcCalls, f.pc = "next"
       PROVE  ExprsOK'
  <2> DEFINE e == SkipFrame(f)
  <2>1. e \in Frames /\ e.fn = "expr" /\ e.item = f.item
    BY <1>1, <1>11, CallerFrames
  <2>2. e.seen = f.seen /\ e.got = f.got /\ e.pc = f.pc /\ e.todo = Tail(f.todo)
    BY <1>1 DEF SkipFrame, Frames
  <2>3. e \notin WrongExprs
    BY <1>7, <1>11, <2>2 DEF WrongExprs
  <2>4. visitedNonProcCalls' = visitedNonProcCalls \cup e.seen
    BY <1>8, <1>11, <2>2
  <2>5. /\ ToSet(e.todo) \cap Functions \subseteq ExprReach
        /\ ToSet(f.todo) \cap Functions \subseteq visitedNonProcCalls' \cup ToSet(e.todo)
    BY <1>5, <1>9, <1>11, <2>2
  <2> HIDE DEF e, f, h
  <2>6. Turned(t, e)
    BY <1>11 DEF e
  <2> QED
    BY <1>1, <1>3, <1>10, <1>11, <2>1, <2>2, <2>3, <2>4, <2>5, <2>6, ExprsTurned DEF f
<1>12. ASSUME VisitCall(t), h \in Functions, h \notin visitedNonProcCalls, f.pc = "next",
              Turned(t, CollectFrame(f)), visitedNonProcCalls' = visitedNonProcCalls \cup {h}
       PROVE  ExprsOK'
  <2> DEFINE e == CollectFrame(f)
  <2>1. e \in Frames /\ e.fn = "expr" /\ e.item = f.item
    BY <1>1, CallerFrames
  <2>2. e.seen = f.seen \cup {h} /\ e.got = f.got /\ e.pc = "collect" /\ e.todo = f.todo
    BY <1>1 DEF CollectFrame, Frames
  <2>3. e \notin WrongExprs
    BY <1>7, <1>12, <2>2 DEF WrongExprs
  <2>4. visitedNonProcCalls' = visitedNonProcCalls \cup e.seen
    BY <1>8, <1>12, <2>2
  <2>5. \A g \in e.seen \ f.seen : g \notin visitedNonProcCalls /\ g \in ExprReach /\ e \in Collecting(g)
    <3>1. e \in Collecting(h)
      BY <2>1, <2>2 DEF Collecting
    <3>2. h \in ExprReach
      BY <1>5, <1>9, <1>12
    <3> QED
      BY <1>12, <2>2, <3>1, <3>2
  <2> HIDE DEF e, f, h
  <2>6. Turned(t, e)
    BY <1>12 DEF e
  <2> QED
    BY <1>1, <1>3, <1>9, <1>10, <1>12, <2>1, <2>2, <2>3, <2>4, <2>5, <2>6, ExprsTurned DEF f
<1>13. ASSUME CollectDrivers(t), f.pc = "collect", Turned(t, NextFrame(f)),
              UNCHANGED visitedNonProcCalls
       PROVE  ExprsOK'
  <2> DEFINE e == NextFrame(f)
  <2>1. e \in Frames /\ e.fn = "expr" /\ e.item = f.item
    BY <1>1, CallerFrames
  <2>2. /\ e.seen = f.seen /\ e.got = f.got \cup {h} /\ e.pc = "next"
        /\ e.todo = Subs[h].calls \o Tail(f.todo)
    BY <1>1 DEF NextFrame, Frames
  <2>3. e \notin WrongExprs
    BY <1>7, <1>13, <2>2 DEF WrongExprs
  <2>4. visitedNonProcCalls' = visitedNonProcCalls \cup e.seen
    BY <1>8, <1>13, <2>2
  <2>5. h \in visitedNonProcCalls
    BY <1>7, <1>8, <1>13
  <2>6. ToSet(Subs[h].calls) \cap Functions \subseteq ExprReach
    <3>1. h \in ExprReach
      BY <2>5 DEF ExprsOK, ReachOK
    <3> QED
      BY <3>1, ReachedClosed DEF ExprReach
  <2>7. /\ ToSet(e.todo) \cap Functions \subseteq ExprReach
        /\ ToSet(f.todo) \cap Functions \subseteq visitedNonProcCalls' \cup ToSet(e.todo)
        /\ ToSet(Subs[h].calls) \cap Functions \subseteq visitedNonProcCalls' \cup ToSet(e.todo)
    BY <1>5, <1>9, <1>13, <2>2, <2>5, <2>6
  <2> HIDE DEF e, f, h
  <2>8. Turned(t, e)
    BY <1>13 DEF e
  <2> QED
    BY <1>1, <1>3, <1>10, <1>13, <2>1, <2>2, <2>3, <2>4, <2>7, <2>8, ExprsTurned DEF f
<1>14. Visited(t) = visitedNonProcCalls
  BY DEF Visited
<1>15. CASE VisitCall(t)
  <2>1. /\ f.pc = "next"
        /\ \/ /\ h \notin Functions \/ h \in visitedNonProcCalls
              /\ Turned(t, SkipFrame(f)) /\ UNCHANGED visitedNonProcCalls
           \/ /\ h \in Functions /\ h \notin visitedNonProcCalls
              /\ Turned(t, CollectFrame(f))
              /\ visitedNonProcCalls' = visitedNonProcCalls \cup {h}
    BY <1>14, <1>15, WalkTurns
  <2> QED
    BY <1>11, <1>12, <1>15, <2>1
<1>16. CASE CollectDrivers(t)
  BY <1>13, <1>16, WalkTurns
<1> QED
  BY <1>15, <1>16

LEMMA ExprsStep ==
    ASSUME ShapeInv, ExprsOK, NEW t \in Threads, CallerStep(t),
           inlined \in [Callers -> (SUBSET DOMAIN Subs) \cup {NotYet}]
    PROVE  ExprsOK'
<1> DEFINE f == Top(t)
<1>1. /\ stack[t] # <<>> /\ f \in Frames /\ FrameOK(f) /\ f.fn \in {"proc", "expr"} /\ PastSame
  BY AtCaller, CallerKeepsScopes
<1>2. PICK m \in AllMembers : IsAbout(f, m)
  BY <1>1 DEF FrameOK
<1>3. \A g : ~Caller(Frame("sub", g, "lookup", <<>>))
  BY DEF Frame, Caller
<1>4. CASE f.fn = "proc"
  <2>1. Left(t) \/ \E e : Turned(t, e) /\ e.fn = "proc"
    <3>1. \/ Popped(t)
          \/ \E e : Moved(t, e)
          \/ \E e, g : Called(t, e, Frame("sub", g, "lookup", <<>>))
      BY TimingSteps, WalkSteps DEF CallerStep
    <3>2. CASE Popped(t)
      BY <3>2, CallerLeaves
    <3>3. ASSUME NEW e, Moved(t, e) \/ \E g : Called(t, e, Frame("sub", g, "lookup", <<>>))
          PROVE  Turned(t, e) /\ e.fn = "proc"
      <4>1. e.fn = "proc"
        BY <1>4, <3>3 DEF Moved, Called
      <4> QED
        BY <1>3, <3>3, <4>1, CallerTurns
    <3> QED
      BY <3>1, <3>2, <3>3
  <2>2. UNCHANGED visitedNonProcCalls
    BY <1>4 DEF CallerStep, NextTaskCall, VisitTask, CollectControls, VisitCall,
                CollectDrivers, FinishCaller, maps
  <2>3. \A c \in Callers : c # m.item => inlined'[c] = inlined[c]
    <3>1. CASE FinishCaller(t)
      BY <1>2, <3>1 DEF FinishCaller, IsAbout
    <3>2. CASE inlined' = inlined
      BY <3>2
    <3> QED
      BY <3>1, <3>2 DEF CallerStep, NextTaskCall, VisitTask, CollectControls, VisitCall,
                        CollectDrivers, effects
  <2> HIDE DEF f
  <2> QED
    BY <1>1, <1>2, <1>4, <2>1, <2>2, <2>3, ExprsElsewhere DEF f
<1>5. CASE f.fn = "expr"
  <2>1. CASE VisitCall(t) \/ CollectDrivers(t)
    BY <1>5, <2>1, ExprsWalked
  <2>2. CASE FinishCaller(t)
    <3>1. Popped(t) /\ Left(t)
      BY <2>2, WalkSteps, CallerLeaves
    <3>2. /\ f.pc = "next" /\ f.todo = <<>> /\ UNCHANGED visitedNonProcCalls
          /\ inlined' = [inlined EXCEPT ![f.item] = f.got]
      BY <2>2 DEF FinishCaller, At, maps
    <3>3. f.item \in Expressions
      BY <1>2, <1>5 DEF IsAbout, Expressions
    <3> HIDE DEF f
    <3> QED
      BY <1>1, <1>5, <3>1, <3>2, <3>3, ExprsFinished DEF f
  <2> QED
    BY <1>5, <2>1, <2>2 DEF CallerStep, NextTaskCall, VisitTask, CollectControls, At
<1> QED
  BY <1>1, <1>4, <1>5

LEMMA ExprInit == Init => ExprInv
<1> SUFFICES ASSUME Init PROVE ExprsOK
  BY DEF ExprInv
<1>1. \A S : ~InStack(stack, S)
  BY DEF Init, InStack
<1>2. visitedNonProcCalls = {} /\ \A e \in Expressions : inlined[e] = NotYet
  BY DEF Init, Expressions, Callers
<1>3. \A s \in Scopes : \A n \in DOMAIN Members[s] : ~Past(s, n)
  BY <1>1 DEF Past, Init
<1>4. \A S : Lone(stack, S)
  BY DEF Init, Lone
<1>5. \A e \in Expressions : \A g : ~Owns(e, g)
  BY <1>1, <1>2 DEF Owns
<1>6. OwnersOK /\ ReachOK
  BY <1>1, <1>2, <1>5 DEF OwnersOK, ReachOK
<1>7. ASSUME NEW s \in Scopes, NEW n \in DOMAIN Members[s]
      PROVE  ExprOver(s, n)
  <2>1. Members[s][n].kind = "expr" => Members[s][n].item \in Expressions
    BY DEF Expressions, AllMembers, MembersOf
  <2> QED
    BY <1>1, <1>2, <1>3, <2>1 DEF ExprOver
<1> QED
  BY <1>1, <1>4, <1>6, <1>7 DEF ExprsOK

LEMMA ExprStep == ShapeInv /\ ScopeInv /\ ProcInv /\ ExprInv /\ [Next]_vars => ExprInv'
<1> SUFFICES ASSUME ShapeInv, ScopeInv, ProcInv, ExprInv, [Next]_vars, ~Thrown'
             PROVE  ExprsOK'
  BY DEF ExprInv
<1>1. ExprsOK /\ ScopesOK /\ inlined \in [Callers -> (SUBSET DOMAIN Subs) \cup {NotYet}]
  BY ThrownStays DEF ExprInv, ScopeInv, ProcInv
<1>2. CASE CallersSame /\ PastSame /\ UNCHANGED <<visitedNonProcCalls, inlined, delays>>
  <2>1. \A S : (\A f \in S : f.fn = "expr") => (\A f \in S : Caller(f))
    BY DEF Caller
  <2>2. ExprsSame
    BY <1>2, <2>1 DEF ExprsSame, CallersSame, PastSame
  <2> QED
    BY <1>1, <2>2, ExprsKept
<1>3. ASSUME NEW t \in Threads, VisitMember(t)
      PROVE  ExprsOK'
  BY <1>1, <1>3, ExprsVisited
<1>4. ASSUME NEW t \in Threads, CallerStep(t)
      PROVE  ExprsOK'
  BY <1>1, <1>4, ExprsStep
<1> QED
  BY <1>2, <1>3, <1>4, CallersKept

\* When analyze() returns, a procedure has the drivers of the functions it reaches, and the
\* expressions share out those that they reach.
THEOREM CalleesGiven == Spec => []CalleesInlined
<1>1. Init => ShapeInv /\ ScopeInv /\ ProcInv /\ ExprInv
  BY ShapeInit, ScopeInit, ProcInit, ExprInit
<1>2. ShapeInv /\ ScopeInv /\ ProcInv /\ ExprInv /\ [Next]_vars
          => (ShapeInv /\ ScopeInv /\ ProcInv /\ ExprInv)'
  BY ShapeStep, ScopeStep, ProcStep, ExprStep
<1>3. ShapeInv /\ ScopeInv /\ ProcInv /\ ExprInv => CalleesInlined
  <2> DEFINE exprs == {m.item : m \in {x \in ReachableMembers : x.kind = "expr"}}
  <2> SUFFICES ASSUME ShapeInv, ScopeInv, ProcInv, ExprInv, Done
               PROVE  /\ \A m \in ReachableMembers :
                             m.kind = "proc" => inlined[m.item] = Reached(ToSet(m.calls), Functions)
                      /\ UNION {inlined[e] : e \in exprs} = ExprReach
                      /\ \A e1, e2 \in exprs : e1 # e2 => inlined[e1] \cap inlined[e2] = {}
    BY DEF CalleesInlined, ExprReach
  <2>1. ~Thrown /\ (\A S : ~InStack(stack, S))
    BY DEF ShapeInv, Done, Thrown, InStack
  <2>2. ScopesOK /\ ProcsOK /\ ExprsOK
    BY <2>1 DEF ScopeInv, ProcInv, ExprInv
  <2>3. ASSUME NEW m \in ReachableMembers
        PROVE  \E s \in Scopes : \E n \in DOMAIN Members[s] : m = Members[s][n] /\ Past(s, n)
    BY AllPast
  <2>4. ASSUME NEW m \in ReachableMembers, m.kind = "proc"
        PROVE  inlined[m.item] = Reached(ToSet(m.calls), Functions)
    BY <2>1, <2>2, <2>3, <2>4 DEF ProcsOK, ProcOver
  <2>5. \A e \in exprs : e \in Expressions /\ inlined[e] # NotYet
    <3>1. ASSUME NEW m \in ReachableMembers, m.kind = "expr"
          PROVE  m.item \in Expressions /\ inlined[m.item] # NotYet
      <4>1. PICK s \in Scopes : \E n \in DOMAIN Members[s] : m = Members[s][n] /\ Past(s, n)
        BY <2>3
      <4>2. PICK n \in DOMAIN Members[s] : m = Members[s][n] /\ Past(s, n)
        BY <4>1
      <4>3. m \in AllMembers
        BY <4>2 DEF AllMembers, MembersOf
      <4> QED
        BY <2>1, <2>2, <3>1, <4>2, <4>3 DEF ExprsOK, ExprOver, Expressions
    <3> QED
      BY <3>1
  <2>6. \A e \in Expressions : inlined[e] # NotYet => e \in exprs
    <3>1. ASSUME NEW m \in AllMembers, m.kind = "expr", inlined[m.item] # NotYet
          PROVE  m \in ReachableMembers
      <4>1. PICK s \in Scopes : m \in MembersOf(s)
        BY DEF AllMembers
      <4>2. PICK n \in DOMAIN Members[s] : m = Members[s][n]
        BY <4>1 DEF MembersOf
      <4>3. analyzedScopes[s] = "done"
        BY <2>1, <2>2, <3>1, <4>2 DEF ExprsOK, ExprOver, Past
      <4>4. s \in ReachableScopes
        BY <2>2, <4>3 DEF ScopesOK, ScopeOK
      <4> QED
        BY <4>1, <4>4 DEF ReachableMembers
    <3> QED
      BY <3>1 DEF Expressions
  <2>7. \A e \in Expressions : \A g : Owns(e, g) <=> e \in exprs /\ g \in inlined[e]
    BY <2>1, <2>5, <2>6 DEF Owns
  <2>8. visitedNonProcCalls \subseteq ExprReach
    BY <2>2 DEF ExprsOK, ReachOK
  <2>9. ExprReach \subseteq visitedNonProcCalls
    <3>1. visitedNonProcCalls \in SUBSET Functions
      BY <2>8, ReachedClosed DEF ExprReach
    <3>2. \A g \in visitedNonProcCalls : ToSet(Subs[g].calls) \cap Functions \subseteq visitedNonProcCalls
      BY <2>1, <2>2 DEF ExprsOK, ReachOK, Followed, Known
    <3>3. CallsOf({"expr"}) \cap Functions \subseteq visitedNonProcCalls
      <4>1. ASSUME NEW m \in ReachableMembers, m.kind = "expr"
            PROVE  ToSet(m.calls) \cap Functions \subseteq visitedNonProcCalls
        BY <2>1, <2>2, <2>3, <4>1 DEF ExprsOK, ExprOver, Known
      <4> QED
        BY <4>1 DEF CallsOf
    <3> QED
      BY <3>1, <3>2, <3>3, ReachedLeast DEF ExprReach
  <2>10. \A e \in exprs : inlined[e] \subseteq DOMAIN Subs
    <3>1. \A e \in exprs : e \in Callers
      BY <2>5 DEF Expressions, Callers
    <3> QED
      BY <2>5, <3>1 DEF ProcInv
  <2>11. visitedNonProcCalls \subseteq DOMAIN Subs
    BY DEF ShapeInv
  <2> HIDE DEF exprs
  <2>12. \A g \in DOMAIN Subs : /\ g \in visitedNonProcCalls <=> \E e \in exprs : g \in inlined[e]
                                /\ \A d, e \in exprs : g \in inlined[d] /\ g \in inlined[e] => d = e
    BY <2>2, <2>5, <2>7 DEF ExprsOK, OwnersOK
  <2>13. UNION {inlined[e] : e \in exprs} = ExprReach
    BY <2>8, <2>9, <2>10, <2>11, <2>12
  <2>14. \A e1, e2 \in exprs : e1 # e2 => inlined[e1] \cap inlined[e2] = {}
    BY <2>10, <2>12
  <2> QED
    BY <2>4, <2>13, <2>14
<1> QED
  BY <1>1, <1>2, <1>3, PTL DEF Spec
=============================================================================
