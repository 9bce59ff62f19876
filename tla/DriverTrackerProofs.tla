-------------------------- MODULE DriverTrackerProofs --------------------------
(***************************************************************************)
(* Proofs about DriverTracker, for any design, any number of threads and   *)
(* any order in which they find drivers and instances.                     *)
(***************************************************************************)
EXTENDS DriverTracker, SequenceTheorems, FiniteSetTheorems, WellFoundedInduction, TLAPS

IndInv == TypeOK /\ PairsMeetOnce /\ ConflictsAreReported

Positions == [queue : Seq(ValueDrivers), hpds : Seq(HierPortDriverType),
              applies : SUBSET (Bodies \X Nat \X Nat)]

(***************************************************************************)
(* Conflict does not depend on which of the two drivers came first.        *)
(***************************************************************************)
LEMMA ConflictSymmetric ==
    ASSUME NEW s \in DOMAIN Symbols, NEW c \in ValueDrivers, NEW d \in ValueDrivers,
           Conflict(s, c, d)
    PROVE  Conflict(s, d, c)
<1>1. Overlaps(d, c)
  BY DEF Conflict, Overlaps
<1>2. IsProblem(s, d, c)
  BY DEF Conflict, IsProblem
<1>3. IsPortProblem(s, c, d) <=> IsPortProblem(s, d, c)
  BY DEF IsPortProblem
<1>4. OverlapCode(s, d, c) # ""
  <2>1. CASE IsPortProblem(s, c, d)
    BY <2>1, <1>3 DEF OverlapCode
  <2>2. CASE ~IsPortProblem(s, c, d) /\ (IsClockVar(c) \/ IsClockVar(d))
    BY <2>2, <1>3 DEF OverlapCode, Conflict
  <2>3. CASE ~IsPortProblem(s, c, d) /\ ~(IsClockVar(c) \/ IsClockVar(d))
    BY <2>3, <1>3 DEF OverlapCode, Conflict, ValueDrivers, DriverKinds
  <2> QED
    BY <2>1, <2>2, <2>3
<1> QED
  BY <1>1, <1>2, <1>4 DEF Conflict

LEMMA CodeType ==
    ASSUME NEW s \in DOMAIN Symbols, NEW c \in ValueDrivers, NEW d \in ValueDrivers
    PROVE  OverlapCode(s, c, d) \in Codes \cup {""}
<1>1. CASE IsPortProblem(s, c, d)
  BY <1>1 DEF OverlapCode, Codes
<1>2. CASE ~IsPortProblem(s, c, d) /\ (IsClockVar(c) \/ IsClockVar(d))
  BY <1>2 DEF OverlapCode, Codes
<1>3. CASE ~IsPortProblem(s, c, d) /\ ~(IsClockVar(c) \/ IsClockVar(d))
  BY <1>3 DEF OverlapCode, Codes, ValueDrivers, DriverKinds
<1> QED
  BY <1>1, <1>2, <1>3

(***************************************************************************)
(* The helpers keep their types.                                           *)
(***************************************************************************)
LEMMA SourceType ==
    ASSUME NEW scope \in Scopes
    PROVE  InferredSource(scope) \in DriverSources
  BY ScopesOK DEF InferredSource, DriverSources

LEMMA InitializerType ==
    ASSUME NEW s \in DOMAIN Symbols
    PROVE  InitializerDriver(s) \in ValueDrivers /\ InitializerDriver(s).sym = s
<1>1. <<>> \in Seq(Bodies)
  OBVIOUS
<1>2. Symbols[s].lo \in Int /\ Symbols[s].hi \in Int /\ Symbols[s].body \in Scopes
  BY SymbolsOK
<1>3. InferredSource(Symbols[s].body) \in DriverSources
  BY <1>2, SourceType
<1> QED
  BY <1>1, <1>2, <1>3, CallsOK DEF InitializerDriver, ValueDrivers, DriverKinds, DriverFlags

LEMMA MapBeforeType ==
    ASSUME TypeOK, NEW d \in ValueDrivers
    PROVE  /\ MapBefore(d) \subseteq ValueDrivers
           /\ \A c \in MapBefore(d) : c.sym = d.sym
           /\ symbolDrivers[d.sym] \subseteq MapBefore(d)
           /\ \A c, e \in MapBefore(d) : c # e => c \in symbolDrivers[d.sym] /\ e \in symbolDrivers[d.sym]
<1>1. d.sym \in DOMAIN Symbols
  BY DEF ValueDrivers
<1> QED
  BY <1>1, InitializerType DEF MapBefore, TypeOK

LEMMA SideEffectType ==
    ASSUME NEW d \in ValueDrivers, NEW i \in Instances, SideEffect(d, i).sym # NoSymbol
    PROVE  SideEffect(d, i) \in ValueDrivers
<1>1. Retarget[<<d.sym, i>>] \in DOMAIN Symbols
  BY RetargetOK DEF SideEffect, ValueDrivers
<1>2. i \in Scopes
  BY InstancesOK
<1> QED
  BY <1>1, <1>2 DEF SideEffect, ValueDrivers, DriverFlags

LEMMA CallDrivers ==
    ASSUME NEW c \in AddCalls
    PROVE  /\ c \in Seq(ValueDrivers)
           /\ \A n \in DOMAIN c : c[n] \in ValueDrivers /\ c[n].id # "initializer"
<1> DEFINE Added == WrittenDrivers
<1>1. c \in Seq(Added) /\ Added \subseteq ValueDrivers
  BY CallsOK DEF WrittenDrivers
<1> HIDE DEF Added
<1>2. c \in Seq(ValueDrivers) /\ \A n \in DOMAIN c : c[n] \in Added
  BY <1>1
<1> QED
  BY <1>2 DEF Added, WrittenDrivers

LEMMA ExpandType ==
    ASSUME NEW d \in ValueDrivers
    PROVE  ExpandIndirectRefs(d) \subseteq ValueDrivers
<1>1. InferredSource(d.container) \in DriverSources
  BY SourceType DEF ValueDrivers
<1> QED
  BY <1>1, ExpandOK DEF ExpandIndirectRefs, ValueDrivers, DriverFlags

LEMMA HierPortDriversType ==
    ASSUME NEW d \in ValueDrivers
    PROVE  HierPortDrivers(d) \in Seq(HierPortDriverType)
<1>1. d.sym \in DOMAIN Symbols /\ d.via \in Seq(Bodies)
  BY DEF ValueDrivers
<1>0. <<>> \in Seq(HierPortDriverType)
  OBVIOUS
<1>2. ASSUME d.via # <<>>
      PROVE  [driver |-> d, ref |-> TRUE, via |-> d.via] \in HierPortDriverType
  BY <1>1, <1>2 DEF HierPortDriverType
<1>3. ASSUME Symbols[d.sym].refPort
      PROVE  [driver |-> d, ref |-> FALSE, via |-> <<Symbols[d.sym].body>>] \in HierPortDriverType
  <2>1. Symbols[d.sym].body \in Bodies
    BY <1>1, <1>3, SymbolsOK
  <2>2. <<Symbols[d.sym].body>> \in Seq(Bodies) \ {<<>>}
    BY <2>1
  <2> QED
    BY <2>2 DEF HierPortDriverType
<1> DEFINE a == IF d.via # <<>> THEN <<[driver |-> d, ref |-> TRUE, via |-> d.via]>> ELSE <<>>
           b == IF Symbols[d.sym].kind # "ModportPort" /\ Symbols[d.sym].refPort
                THEN <<[driver |-> d, ref |-> FALSE, via |-> <<Symbols[d.sym].body>>]>>
                ELSE <<>>
<1>4. a \in Seq(HierPortDriverType)
  BY <1>0, <1>2
<1>5. b \in Seq(HierPortDriverType)
  BY <1>0, <1>3
<1>6. a \o b \in Seq(HierPortDriverType)
  BY <1>4, <1>5, ConcatProperties
<1> QED
  BY <1>0, <1>6 DEF HierPortDrivers

(***************************************************************************)
(* What addDriver reports.                                                 *)
(***************************************************************************)
LEMMA ReportsConflicts ==
    ASSUME TypeOK, NEW d \in ValueDrivers, NEW reports \in Reports(d)
    PROVE  /\ \A r \in reports : \E c \in MapBefore(d) :
                  /\ Conflict(d.sym, c, d)
                  /\ r = [sym |-> d.sym, code |-> OverlapCode(d.sym, c, d), drivers |-> {c, d}]
           /\ \A c \in MapBefore(d) :
                  Conflict(d.sym, c, d) /\ Symbols[d.sym].kind # "ModportPort" =>
                      \E r \in reports : r.sym = d.sym
<1> DEFINE conflicts == {c \in MapBefore(d) : Conflict(d.sym, c, d)}
           report(c) == [sym |-> d.sym, code |-> OverlapCode(d.sym, c, d), drivers |-> {c, d}]
           warnings == {c \in conflicts : IsWarning(OverlapCode(d.sym, c, d))}
<1>1. CASE Symbols[d.sym].kind = "ModportPort"
  BY <1>1 DEF Reports
<1>2. CASE Symbols[d.sym].kind # "ModportPort" /\ conflicts = warnings
  <2>1. reports = {report(c) : c \in warnings}
    BY <1>2 DEF Reports
  <2>2. ASSUME NEW c \in MapBefore(d), Conflict(d.sym, c, d)
        PROVE  report(c) \in reports /\ report(c).sym = d.sym
    BY <1>2, <2>1, <2>2
  <2>3. \A r \in reports : \E c \in warnings : r = report(c)
    BY <2>1
  <2> QED
    BY <2>2, <2>3
<1>3. CASE Symbols[d.sym].kind # "ModportPort" /\ conflicts # warnings
  <2>1. PICK c \in conflicts : reports = {report(c)}
    BY <1>3 DEF Reports
  <2> QED
    BY <2>1
<1> QED
  BY <1>1, <1>2, <1>3

(***************************************************************************)
(* addDriver keeps the types and the account of the conflicts.             *)
(***************************************************************************)
LEMMA AddDriverInv ==
    ASSUME TypeOK, ConflictsAreReported, NEW d \in ValueDrivers, AddDriver(d)
    PROVE  /\ symbolDrivers' \in [DOMAIN Symbols -> SUBSET ValueDrivers]
           /\ \A s \in DOMAIN Symbols : \A c \in symbolDrivers'[s] : c.sym = s
           /\ indirectDrivers' \subseteq ValueDrivers /\ IsFiniteSet(indirectDrivers')
           /\ diags' \subseteq [sym : DOMAIN Symbols, code : Codes, drivers : SUBSET ValueDrivers]
           /\ ConflictsAreReported'
<1> DEFINE s == d.sym
<1>1. s \in DOMAIN Symbols
  BY DEF ValueDrivers
<1>2. symbolDrivers' = [symbolDrivers EXCEPT ![s] = MapBefore(d) \cup {d}]
  BY DEF AddDriver
<1>3. PICK reports \in Reports(d) : diags' = diags \cup reports
  BY DEF AddDriver
<1>4. MapBefore(d) \subseteq ValueDrivers /\ \A c \in MapBefore(d) : c.sym = s
  BY MapBeforeType
<1>5. symbolDrivers' \in [DOMAIN Symbols -> SUBSET ValueDrivers]
  BY <1>1, <1>2, <1>4 DEF TypeOK
<1>6. \A r \in DOMAIN Symbols : \A c \in symbolDrivers'[r] : c.sym = r
  BY <1>1, <1>2, <1>4 DEF TypeOK
<1>7. indirectDrivers' \subseteq ValueDrivers /\ IsFiniteSet(indirectDrivers')
  <2>1. IsFiniteSet(indirectDrivers \cup {d})
    BY FS_AddElement DEF TypeOK
  <2> QED
    BY <2>1 DEF TypeOK, AddDriver
<1>8. \A r \in reports : \E c \in MapBefore(d) :
          /\ Conflict(s, c, d)
          /\ r = [sym |-> s, code |-> OverlapCode(s, c, d), drivers |-> {c, d}]
  BY ReportsConflicts
<1>9. diags' \subseteq [sym : DOMAIN Symbols, code : Codes, drivers : SUBSET ValueDrivers]
  <2>1. ASSUME NEW r \in reports
        PROVE  r \in [sym : DOMAIN Symbols, code : Codes, drivers : SUBSET ValueDrivers]
    <3>1. PICK c \in MapBefore(d) :
              /\ Conflict(s, c, d)
              /\ r = [sym |-> s, code |-> OverlapCode(s, c, d), drivers |-> {c, d}]
      BY <1>8, <2>1
    <3>2. c \in ValueDrivers
      BY <1>4, <3>1
    <3>3. OverlapCode(s, c, d) \in Codes
      BY <1>1, <3>1, <3>2, CodeType DEF Conflict
    <3> QED
      BY <1>1, <3>1, <3>2, <3>3
  <2> QED
    BY <1>3, <2>1 DEF TypeOK
<1>10. \A r \in DOMAIN Symbols : symbolDrivers[r] \subseteq symbolDrivers'[r]
  BY <1>1, <1>2, MapBeforeType DEF TypeOK
<1>11. ASSUME NEW r \in DOMAIN Symbols, Symbols[r].kind # "ModportPort",
              NEW c \in symbolDrivers'[r], NEW e \in symbolDrivers'[r],
              c # e, Conflict(r, c, e)
       PROVE  \E x \in diags' : x.sym = r
  <2>1. CASE c \in symbolDrivers[r] /\ e \in symbolDrivers[r]
    BY <1>3, <1>11, <2>1 DEF ConflictsAreReported
  <2>2. CASE ~(c \in symbolDrivers[r] /\ e \in symbolDrivers[r])
    <3>1. r = s
      BY <1>2, <1>11, <2>2 DEF TypeOK
    <3>2. c \in MapBefore(d) \cup {d} /\ e \in MapBefore(d) \cup {d}
      BY <1>1, <1>2, <1>11, <3>1 DEF TypeOK
    <3>3. c = d \/ e = d
      BY <1>11, <2>2, <3>1, <3>2, MapBeforeType
    <3>4. PICK f \in MapBefore(d) : Conflict(s, f, d)
      <4>1. c \in ValueDrivers /\ e \in ValueDrivers
        BY <1>4, <3>2
      <4>2. CASE c = d
        BY <1>1, <1>11, <3>1, <3>2, <4>1, <4>2, ConflictSymmetric
      <4>3. CASE e = d
        BY <1>11, <3>1, <3>2, <4>3
      <4> QED
        BY <3>3, <4>2, <4>3
    <3>5. \E x \in reports : x.sym = s
      BY <1>11, <3>1, <3>4, ReportsConflicts
    <3> QED
      BY <1>3, <3>1, <3>5
  <2> QED
    BY <2>1, <2>2
<1>12. ASSUME NEW x \in diags'
       PROVE  \E c, e \in symbolDrivers'[x.sym] : x.drivers = {c, e} /\ Conflict(x.sym, c, e)
  <2>1. CASE x \in diags
    <3>1. PICK c \in symbolDrivers[x.sym], e \in symbolDrivers[x.sym] :
              x.drivers = {c, e} /\ Conflict(x.sym, c, e)
      BY <2>1 DEF ConflictsAreReported
    <3>2. x.sym \in DOMAIN Symbols
      BY <2>1 DEF TypeOK
    <3> QED
      BY <1>10, <3>1, <3>2
  <2>2. CASE x \in reports
    <3>1. PICK c \in MapBefore(d) :
              /\ Conflict(s, c, d)
              /\ x = [sym |-> s, code |-> OverlapCode(s, c, d), drivers |-> {c, d}]
      BY <1>8, <2>2
    <3>2. x.sym = s /\ x.drivers = {c, d}
      BY <3>1
    <3>3. c \in symbolDrivers'[s] /\ d \in symbolDrivers'[s]
      BY <1>1, <1>2, <3>1 DEF TypeOK
    <3> QED
      BY <3>1, <3>2, <3>3
  <2> QED
    BY <1>3, <2>1, <2>2
<1>13. ConflictsAreReported'
  BY <1>11, <1>12, Zenon DEF ConflictsAreReported
<1> QED
  BY <1>5, <1>6, <1>7, <1>9, <1>13

(***************************************************************************)
(* The pairs of side effects and instances.                                *)
(***************************************************************************)
LEMMA PairsFrame ==
    ASSUME PairsMeetOnce, UNCHANGED <<instanceMap, applied>>,
           \A t \in Threads : local'[t].applies = local[t].applies
    PROVE  PairsMeetOnce'
<1>1. AllPairs' = AllPairs
  BY DEF AllPairs, PairsIn
<1> QED
  BY <1>1 DEF PairsMeetOnce

(***************************************************************************)
(* A visit that makes new pairs leaves all of them to its own thread.      *)
(***************************************************************************)
LEMMA PairsGrow ==
    ASSUME PairsMeetOnce, UNCHANGED applied, NEW t \in Threads, NEW new,
           local[t].applies = {},
           AllPairs' = AllPairs \cup new, AllPairs \cap new = {},
           local'[t].applies = new,
           \A u \in Threads \ {t} : local'[u].applies = local[u].applies
    PROVE  PairsMeetOnce'
<1>1. applied \subseteq AllPairs /\ \A u \in Threads : local[u].applies \subseteq AllPairs
  BY DEF PairsMeetOnce
<1>2. AllPairs' = applied' \cup UNION {local'[u].applies : u \in Threads}
  <2>1. ASSUME NEW p
        PROVE  p \in AllPairs' <=>
                   p \in applied' \/ \E u \in Threads : p \in local'[u].applies
    <3>1. p \in AllPairs <=> p \in applied \/ \E u \in Threads : p \in local[u].applies
      BY DEF PairsMeetOnce
    <3> QED
      BY <3>1
  <2> QED
    BY <2>1
<1>3. \A u \in Threads : local'[u].applies \cap applied' = {}
  BY <1>1 DEF PairsMeetOnce
<1>4. \A u, v \in Threads : u # v => local'[u].applies \cap local'[v].applies = {}
  BY <1>1 DEF PairsMeetOnce
<1> QED
  BY <1>2, <1>3, <1>4 DEF PairsMeetOnce

(***************************************************************************)
(* The pairs an appended side effect, or an appended instance, makes.      *)
(***************************************************************************)
InstanceMaps == [Bodies -> [hier : Seq(HierPortDriverType), inst : Seq(Instances)]]

LEMMA AppendHier ==
    ASSUME NEW m, NEW m2, NEW b \in Bodies, NEW k \in Nat, NEW n \in Nat,
           Len(m[b].hier) = k, Len(m[b].inst) = n,
           Len(m2[b].hier) = k + 1, Len(m2[b].inst) = n,
           \A a \in Bodies \ {b} : m2[a] = m[a],
           NEW new, new = {b} \X {k + 1} \X (1 .. n)
    PROVE  /\ new \in SUBSET (Bodies \X Nat \X Nat)
           /\ PairsIn(m2) = PairsIn(m) \cup new
           /\ PairsIn(m) \cap new = {}
<1>1. \A p : p \in new <=> \E j \in 1 .. n : p = <<b, k + 1, j>>
  OBVIOUS
<1>2. new \in SUBSET (Bodies \X Nat \X Nat)
  BY <1>1
<1>3. ASSUME NEW p
       PROVE  /\ p \in PairsIn(m2) <=> p \in PairsIn(m) \/ p \in new
              /\ ~(p \in PairsIn(m) /\ p \in new)
  <2>1. p \in PairsIn(m2) <=>
            \E a \in Bodies : \E i \in 1 .. Len(m2[a].hier) : \E j \in 1 .. Len(m2[a].inst) :
                p = <<a, i, j>>
    BY DEF PairsIn
  <2>2. p \in PairsIn(m) <=>
            \E a \in Bodies : \E i \in 1 .. Len(m[a].hier) : \E j \in 1 .. Len(m[a].inst) :
                p = <<a, i, j>>
    BY DEF PairsIn
  <2>3. CASE p \in PairsIn(m)
    <3>1. PICK a \in Bodies : \E i \in 1 .. Len(m[a].hier) : \E j \in 1 .. Len(m[a].inst) :
              p = <<a, i, j>>
      BY <2>2, <2>3
    <3>2. CASE a = b
      BY <1>1, <2>1, <2>3, <3>1, <3>2
    <3>3. CASE a # b
      BY <1>1, <2>1, <2>3, <3>1, <3>3
    <3> QED
      BY <3>2, <3>3
  <2>4. CASE p \in new
    <3>1. PICK j \in 1 .. n : p = <<b, k + 1, j>>
      BY <1>1, <2>4
    <3>2. p \in PairsIn(m2)
      BY <2>1, <3>1
    <3>3. p \notin PairsIn(m)
      BY <2>2, <3>1
    <3> QED
      BY <2>4, <3>2, <3>3
  <2>5. CASE p \in PairsIn(m2) /\ p \notin new
    <3>1. PICK a \in Bodies : \E i \in 1 .. Len(m2[a].hier) : \E j \in 1 .. Len(m2[a].inst) :
              p = <<a, i, j>>
      BY <2>1, <2>5
    <3>2. CASE a = b
      BY <1>1, <2>2, <2>5, <3>1, <3>2
    <3>3. CASE a # b
      BY <2>2, <2>5, <3>1, <3>3
    <3> QED
      BY <3>2, <3>3
  <2> QED
    BY <2>3, <2>4, <2>5
<1> QED
  BY <1>2, <1>3

LEMMA AppendInst ==
    ASSUME NEW m, NEW m2, NEW b \in Bodies, NEW k \in Nat, NEW n \in Nat,
           NEW n1 \in Nat, n1 = n + 1,
           Len(m[b].hier) = k, Len(m[b].inst) = n,
           Len(m2[b].hier) = k, Len(m2[b].inst) = n1,
           \A a \in Bodies \ {b} : m2[a] = m[a]
    PROVE  /\ {b} \X (1 .. k) \X {n1} \in SUBSET (Bodies \X Nat \X Nat)
           /\ PairsIn(m2) = PairsIn(m) \cup ({b} \X (1 .. k) \X {n1})
           /\ PairsIn(m) \cap ({b} \X (1 .. k) \X {n1}) = {}
<1>0. PICK new : new = {b} \X (1 .. k) \X {n1}
  OBVIOUS
<1>1. \A p : p \in new <=> \E i \in 1 .. k : p = <<b, i, n1>>
  BY <1>0
<1>2. new \in SUBSET (Bodies \X Nat \X Nat)
  BY <1>1
<1>3. ASSUME NEW p
       PROVE  /\ p \in PairsIn(m2) <=> p \in PairsIn(m) \/ p \in new
              /\ ~(p \in PairsIn(m) /\ p \in new)
  <2>1. p \in PairsIn(m2) <=>
            \E a \in Bodies : \E i \in 1 .. Len(m2[a].hier) : \E j \in 1 .. Len(m2[a].inst) :
                p = <<a, i, j>>
    BY DEF PairsIn
  <2>2. p \in PairsIn(m) <=>
            \E a \in Bodies : \E i \in 1 .. Len(m[a].hier) : \E j \in 1 .. Len(m[a].inst) :
                p = <<a, i, j>>
    BY DEF PairsIn
  <2>3. CASE p \in PairsIn(m)
    <3>1. PICK a \in Bodies : \E i \in 1 .. Len(m[a].hier) : \E j \in 1 .. Len(m[a].inst) :
              p = <<a, i, j>>
      BY <2>2, <2>3
    <3>2. CASE a = b
      BY <1>1, <2>1, <2>3, <3>1, <3>2
    <3>3. CASE a # b
      BY <1>1, <2>1, <2>3, <3>1, <3>3
    <3> QED
      BY <3>2, <3>3
  <2>4. CASE p \in new
    <3>1. PICK i \in 1 .. k : p = <<b, i, n1>>
      BY <1>1, <2>4
    <3>2. p \in PairsIn(m2)
      BY <2>1, <3>1
    <3>3. p \notin PairsIn(m)
      BY <2>2, <3>1
    <3> QED
      BY <2>4, <3>2, <3>3
  <2>5. CASE p \in PairsIn(m2) /\ p \notin new
    <3>1. PICK a \in Bodies : \E i \in 1 .. Len(m2[a].hier) : \E j \in 1 .. Len(m2[a].inst) :
              p = <<a, i, j>>
      BY <2>1, <2>5
    <3>2. CASE a = b
      BY <1>1, <2>2, <2>5, <3>1, <3>2
    <3>3. CASE a # b
      BY <2>2, <2>5, <3>1, <3>3
    <3> QED
      BY <3>2, <3>3
  <2> QED
    BY <2>3, <2>4, <2>5
<1> QED
  BY <1>0, <1>2, <1>3

LEMMA ConflictsFrame ==
    ASSUME ConflictsAreReported, UNCHANGED <<symbolDrivers, diags>>
    PROVE  ConflictsAreReported'
  BY DEF ConflictsAreReported

-------------------------------------------------------------------------------
LEMMA IdleType == Idle \in Positions
<1>1. <<>> \in Seq(ValueDrivers) /\ <<>> \in Seq(HierPortDriverType)
  OBVIOUS
<1> QED
  BY <1>1 DEF Idle, Positions

LEMMA InitInd == Init => IndInv
<1> SUFFICES ASSUME Init PROVE IndInv
  OBVIOUS
<1>1. TypeOK
  <2>1. <<>> \in Seq(HierPortDriverType) /\ <<>> \in Seq(Instances)
    OBVIOUS
  <2>2. IsFiniteSet({})
    BY FS_EmptySet
  <2> QED
    BY <2>1, <2>2, IdleType DEF Init, TypeOK, Positions
<1>2. PairsMeetOnce
  <2>1. AllPairs = {}
    BY DEF AllPairs, PairsIn, Init
  <2> QED
    BY <2>1 DEF PairsMeetOnce, Init, Idle
<1>3. ConflictsAreReported
  BY DEF ConflictsAreReported, Init
<1> QED
  BY <1>1, <1>2, <1>3 DEF IndInv

LEMMA StartAddInd ==
    ASSUME IndInv, NEW t \in Threads, StartAdd(t)
    PROVE  IndInv'
<1> USE DEF IndInv
<1>1. PICK c \in undone.calls :
          /\ local' = [local EXCEPT ![t] = [queue |-> c, hpds |-> <<>>, applies |-> {}]]
          /\ undone' = [undone EXCEPT !.calls = @ \ {c}]
  BY DEF StartAdd
<1>2. TypeOK'
  <2>1. c \in Seq(ValueDrivers) /\ <<>> \in Seq(HierPortDriverType)
    BY CallDrivers DEF TypeOK
  <2>2. local' \in [Threads -> Positions]
    BY <1>1, <2>1 DEF TypeOK, Positions
  <2>3. undone' \in [calls : SUBSET AddCalls, instances : SUBSET Instances]
    BY <1>1 DEF TypeOK
  <2> QED
    BY <2>2, <2>3 DEF StartAdd, TypeOK, Positions
<1>3. PairsMeetOnce'
  <2>1. \A u \in Threads : local'[u].applies = local[u].applies
    <3>1. local[t].applies = {} /\ local'[t].applies = {}
      BY <1>1 DEF StartAdd, Idle, TypeOK
    <3>2. \A u \in Threads \ {t} : local'[u] = local[u]
      BY <1>1 DEF TypeOK
    <3> QED
      BY <3>1, <3>2
  <2> QED
    BY <2>1, PairsFrame DEF StartAdd
<1>4. ConflictsAreReported'
  BY ConflictsFrame DEF StartAdd
<1> QED
  BY <1>2, <1>3, <1>4

LEMMA AddNextInd ==
    ASSUME IndInv, NEW t \in Threads, AddNext(t)
    PROVE  IndInv'
<1> USE DEF IndInv
<1> DEFINE d == Head(local[t].queue)
<1>1. local[t] \in Positions /\ local[t].queue # <<>>
  BY DEF AddNext, TypeOK, Positions
<1>2. d \in ValueDrivers /\ Tail(local[t].queue) \in Seq(ValueDrivers)
  BY <1>1, HeadTailProperties DEF Positions
<1>3. AddDriver(d)
  BY DEF AddNext
<1>4. local' = [local EXCEPT ![t] = [queue |-> Tail(@.queue), hpds |-> @.hpds \o HierPortDrivers(d),
                                      applies |-> @.applies]]
  BY DEF AddNext
<1>5. TypeOK'
  <2>1. local[t].hpds \o HierPortDrivers(d) \in Seq(HierPortDriverType)
    BY <1>1, <1>2, HierPortDriversType, ConcatProperties DEF Positions
  <2>2. local' \in [Threads -> Positions]
    BY <1>1, <1>2, <1>4, <2>1 DEF TypeOK, Positions
  <2> QED
    BY <1>2, <1>3, <2>2, AddDriverInv DEF AddNext, TypeOK, Positions
<1>6. PairsMeetOnce'
  <2>1. \A u \in Threads : local'[u].applies = local[u].applies
    BY <1>4 DEF TypeOK
  <2> QED
    BY <2>1, PairsFrame DEF AddNext
<1>7. ConflictsAreReported'
  BY <1>2, <1>3, AddDriverInv
<1> QED
  BY <1>5, <1>6, <1>7

LEMMA NoteHierPortDriverInd ==
    ASSUME IndInv, NEW t \in Threads, NoteHierPortDriver(t)
    PROVE  IndInv'
<1> USE DEF IndInv
<1>1. local[t] \in Positions /\ local[t].hpds # <<>> /\ local[t].applies = {}
  BY DEF NoteHierPortDriver, TypeOK, Positions
<1>2. PICK hpd \in HierPortDriverType : hpd = Head(local[t].hpds)
  BY <1>1, HeadTailProperties DEF Positions
<1>3. PICK b \in Bodies : b = Head(hpd.via) /\ Tail(hpd.via) \in Seq(Bodies)
  BY <1>2, HeadTailProperties DEF HierPortDriverType
<1>4. PICK more : more = IF Tail(hpd.via) = <<>> THEN <<>>
                         ELSE <<[driver |-> hpd.driver, ref |-> hpd.ref, via |-> Tail(hpd.via)]>>
  OBVIOUS
<1>5. PICK new : new = {b} \X {Len(instanceMap[b].hier) + 1} \X (1 .. Len(instanceMap[b].inst))
  OBVIOUS
<1>6. /\ instanceMap' = [instanceMap EXCEPT ![b] = [hier |-> Append(@.hier, hpd), inst |-> @.inst]]
      /\ local' = [local EXCEPT ![t] = [queue |-> <<>>, hpds |-> more \o Tail(local[t].hpds),
                                        applies |-> new]]
  BY <1>2, <1>3, <1>4, <1>5 DEF NoteHierPortDriver
<1>7. /\ instanceMap' \in InstanceMaps
      /\ new \in SUBSET (Bodies \X Nat \X Nat)
      /\ AllPairs' = AllPairs \cup new
      /\ AllPairs \cap new = {}
  <2>1. instanceMap[b].hier \in Seq(HierPortDriverType) /\ instanceMap[b].inst \in Seq(Instances)
    BY DEF TypeOK
  <2>2. PICK k \in Nat, n \in Nat : k = Len(instanceMap[b].hier) /\ n = Len(instanceMap[b].inst)
    <3>1. Len(instanceMap[b].hier) \in Nat /\ Len(instanceMap[b].inst) \in Nat
      BY <2>1, LenProperties
    <3> QED
      BY <3>1
  <2>3. PICK hier \in Seq(HierPortDriverType) :
            hier = Append(instanceMap[b].hier, hpd) /\ Len(hier) = k + 1
    <3>1. /\ Append(instanceMap[b].hier, hpd) \in Seq(HierPortDriverType)
          /\ Len(Append(instanceMap[b].hier, hpd)) = k + 1
      BY <2>1, <2>2, AppendProperties
    <3> QED
      BY <3>1
  <2>4. instanceMap' = [instanceMap EXCEPT ![b] = [hier |-> hier, inst |-> instanceMap[b].inst]]
    BY <1>6, <2>3
  <2>5. instanceMap' \in InstanceMaps
    BY <2>1, <2>4 DEF TypeOK, InstanceMaps
  <2>6. /\ Len(instanceMap'[b].hier) = k + 1 /\ Len(instanceMap'[b].inst) = n
        /\ \A a \in Bodies \ {b} : instanceMap'[a] = instanceMap[a]
    BY <2>2, <2>3, <2>4 DEF TypeOK
  <2>7. new = {b} \X {k + 1} \X (1 .. n)
    BY <1>5, <2>2
  <2>8. /\ new \in SUBSET (Bodies \X Nat \X Nat)
        /\ PairsIn(instanceMap') = PairsIn(instanceMap) \cup new
        /\ PairsIn(instanceMap) \cap new = {}
    <3>1. PICK m, m2 : m = instanceMap /\ m2 = instanceMap'
      OBVIOUS
    <3>2. /\ Len(m[b].hier) = k /\ Len(m[b].inst) = n
          /\ Len(m2[b].hier) = k + 1 /\ Len(m2[b].inst) = n
          /\ \A a \in Bodies \ {b} : m2[a] = m[a]
      BY <2>2, <2>6, <3>1
    <3>3. /\ new \in SUBSET (Bodies \X Nat \X Nat)
          /\ PairsIn(m2) = PairsIn(m) \cup new
          /\ PairsIn(m) \cap new = {}
      BY <2>7, <3>2, AppendHier
    <3> QED
      BY <3>1, <3>3
  <2> QED
    BY <2>5, <2>8 DEF AllPairs
<1>8. local' \in [Threads -> Positions]
  <2>0. <<>> \in Seq(ValueDrivers) /\ <<>> \in Seq(HierPortDriverType)
    OBVIOUS
  <2>1. more \in Seq(HierPortDriverType)
    <3>1. CASE Tail(hpd.via) = <<>>
      BY <1>4, <2>0, <3>1
    <3>2. CASE Tail(hpd.via) # <<>>
      <4>1. [driver |-> hpd.driver, ref |-> hpd.ref, via |-> Tail(hpd.via)] \in HierPortDriverType
        BY <1>2, <1>3, <3>2 DEF HierPortDriverType
      <4> QED
        BY <1>4, <3>2, <4>1
    <3> QED
      BY <3>1, <3>2
  <2>2. Tail(local[t].hpds) \in Seq(HierPortDriverType)
    BY <1>1, HeadTailProperties DEF Positions
  <2>3. PICK rest \in Seq(HierPortDriverType) : rest = more \o Tail(local[t].hpds)
    BY <2>1, <2>2, ConcatProperties
  <2>4. [queue |-> <<>>, hpds |-> rest, applies |-> new] \in Positions
    BY <1>7, <2>0, <2>3 DEF Positions
  <2> QED
    BY <1>6, <2>3, <2>4 DEF TypeOK, Positions
<1>9. TypeOK'
  BY <1>7, <1>8 DEF NoteHierPortDriver, TypeOK, Positions, InstanceMaps
<1>10. PairsMeetOnce'
  <2>1. local'[t].applies = new /\ \A u \in Threads \ {t} : local'[u].applies = local[u].applies
    BY <1>6 DEF TypeOK
  <2>2. UNCHANGED applied
    BY DEF NoteHierPortDriver
  <2> QED
    BY <1>1, <1>7, <2>1, <2>2, PairsGrow
<1>11. ConflictsAreReported'
  BY ConflictsFrame DEF NoteHierPortDriver
<1> QED
  BY <1>9, <1>10, <1>11

LEMMA NoteNonCanonicalInstanceInd ==
    ASSUME IndInv, NEW t \in Threads, NoteNonCanonicalInstance(t)
    PROVE  IndInv'
<1> USE DEF IndInv
<1>1. PICK i \in undone.instances : NoteNonCanonicalInstance(t)!3!(i)
  BY DEF NoteNonCanonicalInstance
<1>2. i \in Instances /\ local[t] = Idle
  BY DEF NoteNonCanonicalInstance, TypeOK
<1>3. PICK b \in Bodies : b = BodyOf[i]
  BY <1>2, InstancesOK
<1>4. PICK new : new = {b} \X (1 .. Len(instanceMap[b].hier)) \X {Len(instanceMap[b].inst) + 1}
  OBVIOUS
<1>5. /\ undone' = [undone EXCEPT !.instances = @ \ {i}]
      /\ instanceMap' = [instanceMap EXCEPT ![b] = [hier |-> @.hier, inst |-> Append(@.inst, i)]]
      /\ local' = [local EXCEPT ![t] = [queue |-> <<>>, hpds |-> <<>>, applies |-> new]]
  BY <1>1, <1>3, <1>4
<1>6. /\ instanceMap' \in InstanceMaps
      /\ new \in SUBSET (Bodies \X Nat \X Nat)
      /\ AllPairs' = AllPairs \cup new
      /\ AllPairs \cap new = {}
  <2>1. instanceMap[b].hier \in Seq(HierPortDriverType) /\ instanceMap[b].inst \in Seq(Instances)
    BY DEF TypeOK
  <2>2. PICK k \in Nat, n \in Nat : k = Len(instanceMap[b].hier) /\ n = Len(instanceMap[b].inst)
    <3>1. Len(instanceMap[b].hier) \in Nat /\ Len(instanceMap[b].inst) \in Nat
      BY <2>1, LenProperties
    <3> QED
      BY <3>1
  <2>3. PICK inst \in Seq(Instances) :
            inst = Append(instanceMap[b].inst, i) /\ Len(inst) = n + 1
    <3>1. /\ Append(instanceMap[b].inst, i) \in Seq(Instances)
          /\ Len(Append(instanceMap[b].inst, i)) = n + 1
      BY <1>2, <2>1, <2>2, AppendProperties
    <3> QED
      BY <3>1
  <2>4. instanceMap' = [instanceMap EXCEPT ![b] = [hier |-> instanceMap[b].hier, inst |-> inst]]
    BY <1>5, <2>3
  <2>5. instanceMap' \in InstanceMaps
    BY <2>1, <2>4 DEF TypeOK, InstanceMaps
  <2>6. /\ Len(instanceMap'[b].hier) = k /\ Len(instanceMap'[b].inst) = n + 1
        /\ \A a \in Bodies \ {b} : instanceMap'[a] = instanceMap[a]
    BY <2>2, <2>3, <2>4 DEF TypeOK
  <2>7. new = {b} \X (1 .. k) \X {n + 1}
    BY <1>4, <2>2
  <2>8. /\ new \in SUBSET (Bodies \X Nat \X Nat)
        /\ PairsIn(instanceMap') = PairsIn(instanceMap) \cup new
        /\ PairsIn(instanceMap) \cap new = {}
    <3>0. PICK n1 \in Nat : n1 = n + 1
      OBVIOUS
    <3>1. PICK m, m2 : m = instanceMap /\ m2 = instanceMap'
      OBVIOUS
    <3>2. /\ Len(m[b].hier) = k /\ Len(m[b].inst) = n
          /\ Len(m2[b].hier) = k /\ Len(m2[b].inst) = n1
          /\ \A a \in Bodies \ {b} : m2[a] = m[a]
          /\ new = {b} \X (1 .. k) \X {n1}
      BY <2>2, <2>6, <2>7, <3>0, <3>1
    <3>3. /\ {b} \X (1 .. k) \X {n1} \in SUBSET (Bodies \X Nat \X Nat)
          /\ PairsIn(m2) = PairsIn(m) \cup ({b} \X (1 .. k) \X {n1})
          /\ PairsIn(m) \cap ({b} \X (1 .. k) \X {n1}) = {}
      BY <3>0, <3>2, AppendInst
    <3>4. new = {b} \X (1 .. k) \X {n1}
      BY <3>2
    <3> QED
      BY ONLY <3>1, <3>3, <3>4
  <2> QED
    BY <2>5, <2>8 DEF AllPairs
<1>7. TypeOK'
  <2>1. <<>> \in Seq(ValueDrivers) /\ <<>> \in Seq(HierPortDriverType)
    OBVIOUS
  <2>2. local' \in [Threads -> Positions]
    BY <1>5, <1>6, <2>1 DEF TypeOK, Positions
  <2>3. undone' \in [calls : SUBSET AddCalls, instances : SUBSET Instances]
    BY <1>5 DEF TypeOK
  <2> QED
    BY <1>6, <2>2, <2>3 DEF NoteNonCanonicalInstance, TypeOK, Positions, InstanceMaps
<1>8. PairsMeetOnce'
  <2>1. local'[t].applies = new /\ \A u \in Threads \ {t} : local'[u].applies = local[u].applies
    BY <1>5 DEF TypeOK
  <2>2. UNCHANGED applied /\ local[t].applies = {}
    BY <1>2 DEF NoteNonCanonicalInstance, Idle
  <2> QED
    BY <1>6, <2>1, <2>2, PairsGrow
<1>9. ConflictsAreReported'
  BY ConflictsFrame DEF NoteNonCanonicalInstance
<1> QED
  BY <1>7, <1>8, <1>9

LEMMA ApplyInstanceSideEffectInd ==
    ASSUME IndInv, NEW t \in Threads, ApplyInstanceSideEffect(t)
    PROVE  IndInv'
<1> USE DEF IndInv
<1>1. PICK p \in local[t].applies : ApplyInstanceSideEffect(t)!(p)
  BY DEF ApplyInstanceSideEffect
<1>2. PICK b \in Bodies : \E k \in 1 .. Len(instanceMap[b].hier) :
          \E j \in 1 .. Len(instanceMap[b].inst) : p = <<b, k, j>>
  <2>1. p \in AllPairs
    BY DEF PairsMeetOnce
  <2> QED
    BY <2>1 DEF AllPairs, PairsIn
<1>3. PICK k \in 1 .. Len(instanceMap[b].hier), j \in 1 .. Len(instanceMap[b].inst) :
          p = <<b, k, j>>
  BY <1>2
<1>4. PICK hpd \in HierPortDriverType, i \in Instances :
          hpd = instanceMap[p[1]].hier[p[2]] /\ i = instanceMap[p[1]].inst[p[3]]
  <2>1. instanceMap[b].hier \in Seq(HierPortDriverType) /\ instanceMap[b].inst \in Seq(Instances)
    BY DEF TypeOK
  <2>2. instanceMap[b].hier[k] \in HierPortDriverType /\ instanceMap[b].inst[j] \in Instances
    BY <2>1
  <2>3. p[1] = b /\ p[2] = k /\ p[3] = j
    BY <1>3
  <2> QED
    BY <2>2, <2>3
<1>5. PICK d : d = SideEffect(hpd.driver, i)
  OBVIOUS
<1>6. /\ IF d.sym = NoSymbol THEN UNCHANGED <<symbolDrivers, indirectDrivers, diags>>
         ELSE IF hpd.ref THEN AddDriver(d)
         ELSE /\ indirectDrivers' = indirectDrivers \cup {d}
              /\ UNCHANGED <<symbolDrivers, diags>>
      /\ local' = [local EXCEPT ![t] = [queue |-> @.queue, hpds |-> @.hpds,
                                        applies |-> @.applies \ {p}]]
      /\ applied' = applied \cup {p}
      /\ UNCHANGED <<instanceMap, undone, phase, copy>>
  BY <1>1, <1>4, <1>5
<1>7. d.sym # NoSymbol => d \in ValueDrivers
  BY <1>4, <1>5, SideEffectType DEF HierPortDriverType
<1>8. local' \in [Threads -> Positions]
  BY <1>6 DEF TypeOK, Positions
<1>9. /\ symbolDrivers' \in [DOMAIN Symbols -> SUBSET ValueDrivers]
      /\ \A s \in DOMAIN Symbols : \A c \in symbolDrivers'[s] : c.sym = s
      /\ indirectDrivers' \subseteq ValueDrivers /\ IsFiniteSet(indirectDrivers')
      /\ diags' \subseteq [sym : DOMAIN Symbols, code : Codes, drivers : SUBSET ValueDrivers]
      /\ ConflictsAreReported'
  <2>1. CASE d.sym = NoSymbol
    BY <1>6, <2>1, ConflictsFrame DEF TypeOK
  <2>2. CASE d.sym # NoSymbol /\ hpd.ref
    BY <1>6, <1>7, <2>2, AddDriverInv
  <2>3. CASE d.sym # NoSymbol /\ ~hpd.ref
    <3>1. IsFiniteSet(indirectDrivers \cup {d})
      BY FS_AddElement DEF TypeOK
    <3>2. UNCHANGED <<symbolDrivers, diags>> /\ indirectDrivers' = indirectDrivers \cup {d}
      BY <1>6, <2>3
    <3> QED
      BY <1>7, <2>3, <3>1, <3>2, ConflictsFrame DEF TypeOK
  <2> QED
    BY <2>1, <2>2, <2>3
<1>10. TypeOK'
  BY <1>6, <1>8, <1>9 DEF TypeOK, Positions
<1>11. PairsMeetOnce'
  <2>1. local'[t].applies = local[t].applies \ {p}
    BY <1>6 DEF TypeOK
  <2>2. \A u \in Threads \ {t} : local'[u].applies = local[u].applies
    BY <1>6 DEF TypeOK
  <2>3. AllPairs' = AllPairs
    BY <1>6 DEF AllPairs, PairsIn
  <2>4. applied' = applied \cup {p} /\ p \in local[t].applies
    BY <1>6
  <2>5. AllPairs' = applied' \cup UNION {local'[u].applies : u \in Threads}
    <3>1. ASSUME NEW q
          PROVE  q \in AllPairs' <=> q \in applied' \/ \E u \in Threads : q \in local'[u].applies
      <4>1. q \in AllPairs <=> q \in applied \/ \E u \in Threads : q \in local[u].applies
        BY DEF PairsMeetOnce
      <4> QED
        BY <2>1, <2>2, <2>3, <2>4, <4>1
    <3> QED
      BY <3>1
  <2>6. \A u \in Threads : local'[u].applies \cap applied' = {}
    BY <2>1, <2>2, <2>4 DEF PairsMeetOnce
  <2>7. \A u, v \in Threads : u # v => local'[u].applies \cap local'[v].applies = {}
    BY <2>1, <2>2 DEF PairsMeetOnce
  <2> QED
    BY <2>5, <2>6, <2>7 DEF PairsMeetOnce
<1> QED
  BY <1>9, <1>10, <1>11

LEMMA PropagateItemInd ==
    ASSUME IndInv, PropagateItem
    PROVE  IndInv'
<1> USE DEF IndInv
<1>1. PICK s \in {d.sym : d \in copy} : PropagateItem!3!(s)
  BY DEF PropagateItem
<1>2. PICK originals : originals = {d \in copy : d.sym = s}
  OBVIOUS
<1>3. PICK new : new = UNION {ExpandIndirectRefs(d) : d \in originals}
  OBVIOUS
<1>4. PICK queue \in [1 .. Cardinality(new) -> new] :
          /\ copy' = copy \ originals
          /\ local' = [local EXCEPT ![Main] = [queue |-> queue, hpds |-> <<>>, applies |-> {}]]
  BY <1>1, <1>2, <1>3
<1>5. new \subseteq ValueDrivers
  BY <1>2, <1>3, ExpandType DEF TypeOK
<1>6. IsFiniteSet(new)
  <2>1. s \in DOMAIN Symbols
    BY DEF TypeOK, ValueDrivers
  <2>2. IsFiniteSet(originals)
    BY <1>2, FS_Subset DEF TypeOK
  <2>3. IsFiniteSet(originals \X Expand[s])
    BY <2>1, <2>2, ExpandOK, FS_Product
  <2> DEFINE Moved(d, e) == [id |-> d.id, sym |-> e.sym, lo |-> d.lo, hi |-> d.hi,
                            kind |-> d.kind, flags |-> d.flags \cup {"ViaIndirectPort"},
                            source |-> InferredSource(d.container),
                            container |-> d.container, via |-> e.via]
             all == {Moved(x[1], x[2]) : x \in originals \X Expand[s]}
             f == [x \in originals \X Expand[s] |-> Moved(x[1], x[2])]
  <2>4. f \in Surjection(originals \X Expand[s], all)
    BY DEF Surjection
  <2>5. IsFiniteSet(all)
    <3> HIDE DEF all, f
    <3> QED
      BY <2>3, <2>4, FS_Surjection
  <2>6. new \subseteq all
    <3>1. ASSUME NEW d \in originals, NEW y \in ExpandIndirectRefs(d)
          PROVE  y \in all
      <4>1. d.sym = s
        BY <1>2
      <4>2. PICK e \in Expand[s] : y = Moved(d, e)
        BY <4>1 DEF ExpandIndirectRefs
      <4>3. <<d, e>> \in originals \X Expand[s]
        OBVIOUS
      <4>4. Moved(<<d, e>>[1], <<d, e>>[2]) = y
        BY <4>2
      <4> HIDE DEF Moved
      <4> QED
        BY <4>3, <4>4
    <3> HIDE DEF all
    <3> QED
      BY <1>3, <3>1
  <2> HIDE DEF all
  <2> QED
    BY <2>5, <2>6, FS_Subset
<1>7. queue \in Seq(ValueDrivers)
  <2>1. Cardinality(new) \in Nat
    BY <1>6, FS_CardinalityType
  <2>2. queue \in [1 .. Cardinality(new) -> ValueDrivers]
    BY <1>4, <1>5
  <2> QED
    BY <2>1, <2>2
<1>8. TypeOK'
  <2>1. IsFiniteSet(copy') /\ copy' \subseteq ValueDrivers
    BY <1>4, FS_Subset DEF TypeOK
  <2>2. local' \in [Threads -> Positions]
    <3>1. <<>> \in Seq(HierPortDriverType)
      OBVIOUS
    <3> QED
      BY <1>4, <1>7, <3>1, MainOK DEF TypeOK, Positions
  <2> QED
    BY <2>1, <2>2 DEF PropagateItem, TypeOK, Positions
<1>9. PairsMeetOnce'
  <2>1. local[Main].applies = {} /\ local'[Main].applies = {}
    BY <1>4, MainOK DEF PropagateItem, Idle, TypeOK
  <2>2. \A u \in Threads \ {Main} : local'[u] = local[u]
    BY <1>4 DEF TypeOK
  <2>3. \A u \in Threads : local'[u].applies = local[u].applies
    BY <2>1, <2>2
  <2> QED
    BY <2>3, PairsFrame DEF PropagateItem
<1>10. ConflictsAreReported'
  BY ConflictsFrame DEF PropagateItem
<1> QED
  BY <1>8, <1>9, <1>10

LEMMA NextInd ==
    ASSUME IndInv, [Next]_vars
    PROVE  IndInv'
<1>1. ASSUME NEW t \in Threads, Step(t)
      PROVE  IndInv'
  BY <1>1, StartAddInd, AddNextInd, NoteHierPortDriverInd, NoteNonCanonicalInstanceInd,
     ApplyInstanceSideEffectInd DEF Step
<1>2. CASE BeginPropagate
  <2>1. PairsMeetOnce'
    BY <1>2, PairsFrame DEF BeginPropagate, IndInv
  <2>2. ConflictsAreReported'
    BY <1>2, ConflictsFrame DEF BeginPropagate, IndInv
  <2> QED
    BY <1>2, <2>1, <2>2 DEF BeginPropagate, IndInv, TypeOK
<1>3. CASE SwapIndirect
  <2>1. PairsMeetOnce'
    BY <1>3, PairsFrame DEF SwapIndirect, IndInv
  <2>2. ConflictsAreReported'
    BY <1>3, ConflictsFrame DEF SwapIndirect, IndInv
  <2>3. IsFiniteSet({})
    BY FS_EmptySet
  <2> QED
    BY <1>3, <2>1, <2>2, <2>3 DEF SwapIndirect, IndInv, TypeOK
<1>4. CASE EndOfCopy
  <2>1. PairsMeetOnce'
    BY <1>4, PairsFrame DEF EndOfCopy, IndInv
  <2>2. ConflictsAreReported'
    BY <1>4, ConflictsFrame DEF EndOfCopy, IndInv
  <2> QED
    BY <1>4, <2>1, <2>2 DEF EndOfCopy, IndInv, TypeOK
<1>5. CASE UNCHANGED vars
  <2>1. PairsMeetOnce'
    BY <1>5, PairsFrame DEF vars, IndInv
  <2>2. ConflictsAreReported'
    BY <1>5, ConflictsFrame DEF vars, IndInv
  <2> QED
    BY <1>5, <2>1, <2>2 DEF vars, IndInv, TypeOK
<1> QED
  BY <1>1, <1>2, <1>3, <1>4, <1>5, PropagateItemInd DEF Next, Propagate, Done

LEMMA Inductive == Spec => []IndInv
  BY InitInd, NextInd, PTL DEF Spec

-------------------------------------------------------------------------------
(***************************************************************************)
(* The tracker keeps its types: in particular a driver that is moved to    *)
(* another instance or through a port is filed under an existing symbol.   *)
(***************************************************************************)
THEOREM TypeCorrect == Spec => []TypeOK
  BY Inductive, PTL DEF IndInv

(***************************************************************************)
(* Whatever the threads do, every driver that leaves a shared body meets   *)
(* every other instance of that body exactly once: noteHierPortDriver and  *)
(* noteNonCanonicalInstance between them neither lose nor repeat a pair.   *)
(***************************************************************************)
THEOREM SideEffectsMeetInstances == Spec => []PairsMeetOnce
  BY Inductive, PTL DEF IndInv

(***************************************************************************)
(* No order of additions hides a conflict between two drivers of a symbol, *)
(* and every report is about a conflict between two of its drivers.        *)
(***************************************************************************)
THEOREM NoConflictHidden == Spec => []ConflictsAreReported
  BY Inductive, PTL DEF IndInv

-------------------------------------------------------------------------------
(***************************************************************************)
(* Which drivers there are at the end                                      *)
(***************************************************************************)

(***************************************************************************)
(* Driver d has a side effect for the instances of body b.                 *)
(***************************************************************************)
Effect(d, ref, b) ==
    \E n \in DOMAIN HierPortDrivers(d) :
        /\ HierPortDrivers(d)[n].ref = ref
        /\ \E q \in DOMAIN HierPortDrivers(d)[n].via : HierPortDrivers(d)[n].via[q] = b

(***************************************************************************)
(* Nothing is in the tracker that the design does not imply.               *)
(***************************************************************************)
Moves(d) == <<FALSE, d>> \in ImpliedItems \/ (<<TRUE, d>> \in ImpliedItems /\ IsIndirect(d.sym))

Traced(h, b) == <<TRUE, h.driver>> \in ImpliedItems /\ Effect(h.driver, h.ref, b)

TracedAll(h) == \A q \in DOMAIN h.via : Traced(h, h.via[q])

SoundPosition(x) ==
    /\ \A n \in DOMAIN x.queue : <<TRUE, x.queue[n]>> \in ImpliedItems
    /\ \A n \in DOMAIN x.hpds : TracedAll(x.hpds[n])

SoundState(b, x) ==
    /\ \A k \in DOMAIN x.hier : Traced(x.hier[k], b)
    /\ \A j \in DOMAIN x.inst : BodyOf[x.inst[j]] = b

Sound(drivers, instances, positions, moving) ==
    /\ \A s \in DOMAIN Symbols : \A d \in drivers[s] :
           d = InitializerDriver(s) \/ <<TRUE, d>> \in ImpliedItems
    /\ \A d \in moving : Moves(d)
    /\ \A t \in Threads : SoundPosition(positions[t])
    /\ \A b \in Bodies : SoundState(b, instances[b])

(***************************************************************************)
(* The driver of an initializer comes with the first driver of a symbol.   *)
(***************************************************************************)
Initialized(drivers) ==
    \A s \in DOMAIN Symbols :
        /\ drivers[s] # {} /\ HasInitializer(s) => InitializerDriver(s) \in drivers[s]
        /\ InitializerDriver(s) \in drivers[s] =>
               HasInitializer(s) /\ \E d \in drivers[s] : d # InitializerDriver(s)

(***************************************************************************)
(* Whatever follows from what is in the tracker is in it too, or is on its *)
(* way: a driver in the queue of a thread, a side effect in its hands, a   *)
(* driver that waits to be propagated, a pair that waits to be applied.    *)
(***************************************************************************)
Reached(drivers, positions, e) ==
    \/ e \in drivers[e.sym]
    \/ \E t \in Threads : \E n \in DOMAIN positions[t].queue : positions[t].queue[n] = e

Spread(drivers, positions, moving, d) ==
    d \in moving \/ \A e \in ExpandIndirectRefs(d) : Reached(drivers, positions, e)

Covers(h, d, ref, b) ==
    h.driver = d /\ h.ref = ref /\ \E q \in DOMAIN h.via : h.via[q] = b

Carried(instances, positions, d, ref, b) ==
    \/ \E k \in DOMAIN instances[b].hier :
           instances[b].hier[k].driver = d /\ instances[b].hier[k].ref = ref
    \/ \E t \in Threads : \E n \in DOMAIN positions[t].hpds :
           Covers(positions[t].hpds[n], d, ref, b)

Applied(drivers, positions, moving, h, i) ==
    SideEffect(h.driver, i).sym # NoSymbol =>
        IF h.ref THEN SideEffect(h.driver, i) \in drivers[SideEffect(h.driver, i).sym]
        ELSE Spread(drivers, positions, moving, SideEffect(h.driver, i))

DriversFollowed(drivers, instances, positions, moving) ==
    \A s \in DOMAIN Symbols : \A d \in drivers[s] \ {InitializerDriver(s)} :
        /\ IsIndirect(s) => Spread(drivers, positions, moving, d)
        /\ \A ref \in BOOLEAN, b \in Bodies :
               Effect(d, ref, b) => Carried(instances, positions, d, ref, b)

CallsFollowed(drivers, positions, calls) ==
    \A c \in AddCalls \ calls : \A n \in DOMAIN c : Reached(drivers, positions, c[n])

InstancesFollowed(instances, unnoted) ==
    \A i \in Instances \ unnoted :
        \E j \in DOMAIN instances[BodyOf[i]].inst : instances[BodyOf[i]].inst[j] = i

PairsFollowed(drivers, instances, positions, moving, pairs) ==
    \A p \in pairs :
        /\ p[1] \in Bodies
        /\ p[2] \in DOMAIN instances[p[1]].hier
        /\ p[3] \in DOMAIN instances[p[1]].inst
        /\ Applied(drivers, positions, moving,
                   instances[p[1]].hier[p[2]], instances[p[1]].inst[p[3]])

Complete(drivers, instances, positions, moving, left, pairs) ==
    /\ DriversFollowed(drivers, instances, positions, moving)
    /\ CallsFollowed(drivers, positions, left.calls)
    /\ InstancesFollowed(instances, left.instances)
    /\ PairsFollowed(drivers, instances, positions, moving, pairs)

(***************************************************************************)
(* Propagation begins when everything has been added and noted, and only   *)
(* the main thread takes part in it.                                       *)
(***************************************************************************)
PhasesInv ==
    /\ phase # "analyze" =>
           /\ undone.calls = {} /\ undone.instances = {}
           /\ \A t \in Threads \ {Main} : local[t] = Idle
    /\ phase \in {"swap", "done"} => AllIdle
    /\ phase # "propagate" => copy = {}
    /\ phase = "done" => indirectDrivers = {}

DriversInv ==
    /\ Sound(symbolDrivers, instanceMap, local, indirectDrivers \cup copy)
    /\ Initialized(symbolDrivers)
    /\ Complete(symbolDrivers, instanceMap, local, indirectDrivers \cup copy, undone, applied)
    /\ PhasesInv

(***************************************************************************)
(* ImpliedItems is the least set with the drivers of the calls that is     *)
(* closed, up to MaxDepth, under Consequences.                             *)
(***************************************************************************)
LEMMA CountUp ==
    ASSUME NEW n \in Nat, NEW S, 0 \in S, \A k \in Nat : k < n /\ k \in S => k + 1 \in S
    PROVE  \A k \in 0 .. n : k \in S
<1> DEFINE R == {ss \in Nat \X Nat : ss[1] < ss[2]}
           Missing == {k \in 0 .. n : k \notin S}
<1> SUFFICES ASSUME Missing # {} PROVE FALSE
  OBVIOUS
<1>1. IsWellFoundedOn(R, Nat)
  BY NatLessThanWellFounded DEF OpToRel
<1>2. Missing \subseteq Nat
  OBVIOUS
<1>3. PICK k \in Missing : \A j \in Missing : ~(<<j, k>> \in R)
  <2> HIDE DEF R, Missing
  <2> QED
    BY <1>1, <1>2, WFMin
<1>4. k \in Nat /\ k # 0 /\ k - 1 \in Nat /\ k - 1 < n /\ k - 1 \in 0 .. n
  BY <1>3
<1>5. k - 1 \notin S
  <2>1. k - 1 + 1 = k
    BY <1>4
  <2> QED
    BY <1>3, <1>4, <2>1
<1>6. k - 1 \in Missing /\ <<k - 1, k>> \in R
  BY <1>4, <1>5
<1> QED
  BY <1>3, <1>6

Direct == UNION {{<<TRUE, c[n]>> : n \in DOMAIN c} : c \in AddCalls}

IsClosure(f) ==
    f = [n \in 0 .. MaxDepth |->
            IF n = 0 THEN Direct
            ELSE f[n - 1] \cup UNION {Consequences(x) : x \in f[n - 1]}]

LEMMA ImpliedIsClosure == ImpliedItems = (CHOOSE f : IsClosure(f))[MaxDepth]
  BY DEF ImpliedItems, IsClosure, Direct

LEMMA ClosureExists == \E f : IsClosure(f)
<1> DEFINE Grown(f, n) == IF n = 0 THEN Direct
                         ELSE f[n - 1] \cup UNION {Consequences(x) : x \in f[n - 1]}
           S == {k \in 0 .. MaxDepth : \E f : f = [n \in 0 .. k |-> Grown(f, n)]}
<1>1. 0 \in S
  <2> DEFINE f == [n \in {0} |-> Direct]
  <2>1. 0 .. 0 = {0}
    OBVIOUS
  <2>2. f = [n \in 0 .. 0 |-> Grown(f, n)]
    BY <2>1
  <2>3. 0 \in 0 .. MaxDepth
    BY OptionsOK
  <2> HIDE DEF f, Grown
  <2> QED
    BY <2>2, <2>3
<1>2. ASSUME NEW k \in Nat, k < MaxDepth, k \in S PROVE k + 1 \in S
  <2>1. PICK g : g = [n \in 0 .. k |-> Grown(g, n)]
    BY <1>2
  <2> DEFINE f == [n \in 0 .. k + 1 |-> Grown(g, n)]
  <2>2. \A n \in 0 .. k : f[n] = g[n]
    <3> HIDE DEF Grown
    <3>1. \A n \in 0 .. k : n \in 0 .. k + 1
      OBVIOUS
    <3> QED
      BY <2>1, <3>1
  <2>3. ASSUME NEW n \in 0 .. k + 1 PROVE Grown(f, n) = Grown(g, n)
    <3>1. CASE n = 0
      BY <3>1
    <3>2. CASE n # 0
      <4>1. n - 1 \in 0 .. k
        BY <3>2
      <4>2. f[n - 1] = g[n - 1]
        BY <2>2, <4>1
      <4> HIDE DEF f
      <4> QED
        BY <4>2
    <3> QED
      BY <3>1, <3>2
  <2>4. f = [n \in 0 .. k + 1 |-> Grown(f, n)]
    <3> HIDE DEF Grown
    <3> QED
      BY <2>3
  <2>5. k + 1 \in 0 .. MaxDepth
    BY <1>2, OptionsOK
  <2> HIDE DEF f, Grown
  <2> QED
    BY <2>4, <2>5
<1>3. MaxDepth \in S
  <2>1. MaxDepth \in Nat /\ MaxDepth \in 0 .. MaxDepth
    BY OptionsOK
  <2> HIDE DEF S
  <2> QED
    BY <1>1, <1>2, <2>1, CountUp
<1>4. PICK f : f = [n \in 0 .. MaxDepth |-> Grown(f, n)]
  BY <1>3
<1> QED
  BY <1>4 DEF IsClosure

LEMMA ImpliedDirect == Direct \subseteq ImpliedItems
<1> DEFINE f == CHOOSE g : IsClosure(g)
           S == {k \in 0 .. MaxDepth : Direct \subseteq f[k]}
<1>1. IsClosure(f)
  BY ClosureExists
<1>2. ImpliedItems = f[MaxDepth]
  BY ImpliedIsClosure
<1> HIDE DEF f
<1>3. MaxDepth \in Nat /\ MaxDepth \in 0 .. MaxDepth
  BY OptionsOK
<1>4. 0 \in S
  BY <1>1, <1>3 DEF IsClosure
<1>5. ASSUME NEW k \in Nat, k < MaxDepth, k \in S PROVE k + 1 \in S
  <2>1. k + 1 \in 0 .. MaxDepth /\ k + 1 # 0 /\ k + 1 - 1 = k
    BY <1>3, <1>5
  <2>2. f[k] \subseteq f[k + 1]
    <3>1. \A m \in 0 .. MaxDepth : m # 0 => f[m - 1] \subseteq f[m]
      BY <1>1 DEF IsClosure
    <3>2. f[k + 1 - 1] \subseteq f[k + 1]
      BY <2>1, <3>1
    <3> QED
      BY <2>1, <3>2
  <2> QED
    BY <1>5, <2>1, <2>2
<1>6. MaxDepth \in S
  <2> HIDE DEF S
  <2> QED
    BY <1>3, <1>4, <1>5, CountUp
<1> QED
  BY <1>2, <1>6

LEMMA ImpliedLeast ==
    ASSUME NEW S, Direct \subseteq S, \A x \in S : Consequences(x) \subseteq S
    PROVE  ImpliedItems \subseteq S
<1> DEFINE f == CHOOSE g : IsClosure(g)
           T == {k \in 0 .. MaxDepth : f[k] \subseteq S}
<1>1. IsClosure(f)
  BY ClosureExists
<1>2. ImpliedItems = f[MaxDepth]
  BY ImpliedIsClosure
<1> HIDE DEF f
<1>3. MaxDepth \in Nat /\ MaxDepth \in 0 .. MaxDepth
  BY OptionsOK
<1>4. 0 \in T
  BY <1>1, <1>3 DEF IsClosure
<1>5. ASSUME NEW k \in Nat, k < MaxDepth, k \in T PROVE k + 1 \in T
  <2>1. k + 1 \in 0 .. MaxDepth /\ k + 1 # 0 /\ k + 1 - 1 = k
    BY <1>3, <1>5
  <2>2. f[k + 1] = f[k] \cup UNION {Consequences(x) : x \in f[k]}
    <3>1. \A m \in 0 .. MaxDepth :
              m # 0 => f[m] = f[m - 1] \cup UNION {Consequences(x) : x \in f[m - 1]}
      BY <1>1 DEF IsClosure
    <3>2. f[k + 1] = f[k + 1 - 1] \cup UNION {Consequences(x) : x \in f[k + 1 - 1]}
      BY <2>1, <3>1
    <3> QED
      BY <2>1, <3>2
  <2>3. f[k + 1] \subseteq S
    BY <1>5, <2>2
  <2> QED
    BY <2>1, <2>3
<1>6. MaxDepth \in T
  <2> HIDE DEF T
  <2> QED
    BY <1>3, <1>4, <1>5, CountUp
<1> QED
  BY <1>2, <1>6

(***************************************************************************)
(* What a driver leads to, one step on.                                    *)
(***************************************************************************)
RealDrivers == {d \in ValueDrivers : d.id # "initializer"}

LEMMA HierPortDriversOf ==
    ASSUME NEW d \in ValueDrivers, NEW n \in DOMAIN HierPortDrivers(d)
    PROVE  /\ HierPortDrivers(d)[n] \in HierPortDriverType
           /\ HierPortDrivers(d)[n].driver = d
<1>1. HierPortDrivers(d) \in Seq(HierPortDriverType)
  BY HierPortDriversType
<1>2. HierPortDrivers(d)[n] \in HierPortDriverType
  BY <1>1
<1> DEFINE p == [driver |-> d, ref |-> TRUE, via |-> d.via]
           q == [driver |-> d, ref |-> FALSE, via |-> <<Symbols[d.sym].body>>]
           a == IF d.via # <<>> THEN <<p>> ELSE <<>>
           b == IF Symbols[d.sym].kind # "ModportPort" /\ Symbols[d.sym].refPort
                THEN <<q>> ELSE <<>>
<1>3. HierPortDrivers(d) = IF "FromSideEffect" \in d.flags THEN <<>> ELSE a \o b
  BY DEF HierPortDrivers
<1>4. p.driver = d /\ q.driver = d
  OBVIOUS
<1> HIDE DEF p, q
<1>5. HierPortDrivers(d) \in Seq({p, q})
  <2>1. <<>> \in Seq({p, q}) /\ <<p>> \in Seq({p, q}) /\ <<q>> \in Seq({p, q})
    OBVIOUS
  <2>2. a \in Seq({p, q}) /\ b \in Seq({p, q})
    BY <2>1
  <2>3. a \o b \in Seq({p, q})
    <3> HIDE DEF a, b
    <3> QED
      BY <2>2
  <2> HIDE DEF a, b
  <2> QED
    BY <1>3, <2>1, <2>3
<1>6. HierPortDrivers(d)[n] \in {p, q}
  BY <1>5
<1> QED
  BY <1>2, <1>4, <1>6

LEMMA ExpandedFollows ==
    ASSUME NEW d, NEW kind, kind = FALSE \/ IsIndirect(d.sym), NEW e \in ExpandIndirectRefs(d)
    PROVE  <<TRUE, e>> \in Consequences(<<kind, d>>)
  BY DEF Consequences

LEMMA EffectFollows ==
    ASSUME NEW d \in ValueDrivers, NEW n \in DOMAIN HierPortDrivers(d),
           NEW i \in Instances, NEW q \in DOMAIN HierPortDrivers(d)[n].via,
           HierPortDrivers(d)[n].via[q] = BodyOf[i], SideEffect(d, i).sym # NoSymbol
    PROVE  <<HierPortDrivers(d)[n].ref, SideEffect(d, i)>> \in Consequences(<<TRUE, d>>)
<1> DEFINE h == HierPortDrivers(d)[n]
           item == <<TRUE, d>>
           noted == IF item[1] THEN {HierPortDrivers(d)[m] : m \in DOMAIN HierPortDrivers(d)} ELSE {}
           expanded == IF ~item[1] \/ IsIndirect(d.sym)
                       THEN {<<TRUE, e>> : e \in ExpandIndirectRefs(d)} ELSE {}
           reach(g) == {j \in Instances : /\ \E m \in DOMAIN g.via : g.via[m] = BodyOf[j]
                                          /\ Retarget[<<d.sym, j>>] # NoSymbol}
           effects == UNION {{<<g.ref, SideEffect(d, j)>> : j \in reach(g)} : g \in noted}
<1>1. Retarget[<<d.sym, i>>] # NoSymbol
  BY DEF SideEffect
<1>2. h \in noted /\ i \in reach(h)
  BY <1>1
<1>3. effects \subseteq Consequences(<<TRUE, d>>)
  <2>1. Consequences(item) = expanded \cup effects
    BY DEF Consequences
  <2> HIDE DEF expanded, effects
  <2> QED
    BY <2>1
<1> HIDE DEF noted, reach
<1>4. <<h.ref, SideEffect(d, i)>> \in effects
  BY <1>2
<1> HIDE DEF effects
<1> QED
  BY <1>3, <1>4

LEMMA ConsequenceKinds ==
    ASSUME NEW d \in ValueDrivers, NEW kind \in BOOLEAN, NEW y \in Consequences(<<kind, d>>)
    PROVE  \/ /\ kind = FALSE \/ IsIndirect(d.sym)
              /\ \E e \in ExpandIndirectRefs(d) : y = <<TRUE, e>>
           \/ /\ kind = TRUE
              /\ \E n \in DOMAIN HierPortDrivers(d) : \E i \in Instances :
                     /\ \E q \in DOMAIN HierPortDrivers(d)[n].via :
                            HierPortDrivers(d)[n].via[q] = BodyOf[i]
                     /\ SideEffect(d, i).sym # NoSymbol
                     /\ y = <<HierPortDrivers(d)[n].ref, SideEffect(d, i)>>
<1> DEFINE item == <<kind, d>>
           noted == IF item[1] THEN {HierPortDrivers(d)[m] : m \in DOMAIN HierPortDrivers(d)} ELSE {}
           expanded == IF ~item[1] \/ IsIndirect(d.sym)
                       THEN {<<TRUE, e>> : e \in ExpandIndirectRefs(d)} ELSE {}
           reach(g) == {j \in Instances : /\ \E m \in DOMAIN g.via : g.via[m] = BodyOf[j]
                                          /\ Retarget[<<d.sym, j>>] # NoSymbol}
           effects == UNION {{<<g.ref, SideEffect(d, j)>> : j \in reach(g)} : g \in noted}
<1>1. Consequences(item) = expanded \cup effects
  BY DEF Consequences
<1>2. CASE y \in expanded
  BY <1>2
<1>3. CASE y \in effects
  <2>1. PICK g \in noted : y \in {<<g.ref, SideEffect(d, j)>> : j \in reach(g)}
    BY <1>3
  <2>2. PICK j \in reach(g) : y = <<g.ref, SideEffect(d, j)>>
    BY <2>1
  <2>3. kind = TRUE
    BY <2>1
  <2>4. PICK n \in DOMAIN HierPortDrivers(d) : g = HierPortDrivers(d)[n]
    BY <2>1, <2>3
  <2>5. j \in Instances /\ SideEffect(d, j).sym # NoSymbol
    BY DEF SideEffect
  <2>6. \E q \in DOMAIN g.via : g.via[q] = BodyOf[j]
    BY <2>2
  <2> QED
    BY <2>2, <2>3, <2>4, <2>5, <2>6
<1> HIDE DEF expanded, effects
<1> QED
  BY <1>1, <1>2, <1>3

LEMMA ConsequencesTyped ==
    ASSUME NEW x \in BOOLEAN \X RealDrivers
    PROVE  Consequences(x) \subseteq BOOLEAN \X RealDrivers
<1>1. PICK kind \in BOOLEAN, d \in RealDrivers : x = <<kind, d>>
  OBVIOUS
<1>2. d \in ValueDrivers /\ d.id # "initializer"
  BY DEF RealDrivers
<1>3. ASSUME NEW y \in Consequences(x) PROVE y \in BOOLEAN \X RealDrivers
  <2>1. y \in Consequences(<<kind, d>>)
    BY <1>1
  <2>2. ASSUME NEW e \in ExpandIndirectRefs(d) PROVE e \in RealDrivers
    <3>1. e \in ValueDrivers
      BY <1>2, ExpandType
    <3>2. e.id = d.id
      BY DEF ExpandIndirectRefs
    <3> QED
      BY <1>2, <3>1, <3>2 DEF RealDrivers
  <2>3. ASSUME NEW i \in Instances, SideEffect(d, i).sym # NoSymbol
        PROVE  SideEffect(d, i) \in RealDrivers
    <3>1. SideEffect(d, i) \in ValueDrivers
      BY <1>2, <2>3, SideEffectType
    <3>2. SideEffect(d, i).id = d.id
      BY DEF SideEffect
    <3> QED
      BY <1>2, <3>1, <3>2 DEF RealDrivers
  <2>4. \A n \in DOMAIN HierPortDrivers(d) : HierPortDrivers(d)[n].ref \in BOOLEAN
    BY <1>2, HierPortDriversOf DEF HierPortDriverType
  <2>5. CASE \E e \in ExpandIndirectRefs(d) : y = <<TRUE, e>>
    <3>1. PICK e \in RealDrivers : y = <<TRUE, e>>
      BY <2>2, <2>5
    <3> QED
      BY <3>1, Zenon
  <2>6. CASE \E n \in DOMAIN HierPortDrivers(d) : \E i \in Instances :
                 /\ SideEffect(d, i).sym # NoSymbol
                 /\ y = <<HierPortDrivers(d)[n].ref, SideEffect(d, i)>>
    BY <2>3, <2>4, <2>6
  <2>7. \/ \E e \in ExpandIndirectRefs(d) : y = <<TRUE, e>>
        \/ \E n \in DOMAIN HierPortDrivers(d) : \E i \in Instances :
               /\ SideEffect(d, i).sym # NoSymbol
               /\ y = <<HierPortDrivers(d)[n].ref, SideEffect(d, i)>>
    <3>1. kind \in BOOLEAN /\ y \in Consequences(<<kind, d>>) /\ d \in ValueDrivers
      BY <1>2, <2>1
    <3>2. \/ /\ kind = FALSE \/ IsIndirect(d.sym)
             /\ \E e \in ExpandIndirectRefs(d) : y = <<TRUE, e>>
          \/ /\ kind = TRUE
             /\ \E n \in DOMAIN HierPortDrivers(d) : \E i \in Instances :
                    /\ \E q \in DOMAIN HierPortDrivers(d)[n].via :
                           HierPortDrivers(d)[n].via[q] = BodyOf[i]
                    /\ SideEffect(d, i).sym # NoSymbol
                    /\ y = <<HierPortDrivers(d)[n].ref, SideEffect(d, i)>>
      BY <3>1, ConsequenceKinds, ZenonT(60)
    <3> QED
      BY <3>2, Zenon
  <2> QED
    BY <2>5, <2>6, <2>7
<1> QED
  BY <1>3

LEMMA ImpliedTyped == ImpliedItems \subseteq BOOLEAN \X RealDrivers
<1>1. Direct \subseteq BOOLEAN \X RealDrivers
  <2> SUFFICES ASSUME NEW y \in Direct PROVE y \in BOOLEAN \X RealDrivers
    OBVIOUS
  <2>1. PICK c \in AddCalls : y \in {<<TRUE, c[n]>> : n \in DOMAIN c}
    BY DEF Direct
  <2>2. PICK n \in DOMAIN c : y = <<TRUE, c[n]>>
    BY <2>1
  <2>3. PICK e \in RealDrivers : y = <<TRUE, e>>
    BY <2>2, CallDrivers DEF RealDrivers
  <2> QED
    BY <2>3, Zenon
<1> QED
  BY <1>1, ConsequencesTyped, ImpliedLeast

(***************************************************************************)
(* ... and so what is implied.                                             *)
(***************************************************************************)
LEMMA EffectImplied ==
    ASSUME NEW h \in HierPortDriverType, NEW i \in Instances,
           Traced(h, BodyOf[i]), SideEffect(h.driver, i).sym # NoSymbol
    PROVE  <<h.ref, SideEffect(h.driver, i)>> \in ImpliedItems
<1>1. h.driver \in ValueDrivers
  BY DEF HierPortDriverType
<1>2. PICK n \in DOMAIN HierPortDrivers(h.driver) :
          /\ HierPortDrivers(h.driver)[n].ref = h.ref
          /\ \E q \in DOMAIN HierPortDrivers(h.driver)[n].via :
                 HierPortDrivers(h.driver)[n].via[q] = BodyOf[i]
  BY DEF Traced, Effect
<1>3. <<HierPortDrivers(h.driver)[n].ref, SideEffect(h.driver, i)>> \in
          Consequences(<<TRUE, h.driver>>)
  BY <1>1, <1>2, EffectFollows
<1> QED
  BY <1>2, <1>3, DepthOK DEF Traced

LEMMA ExpansionImplied ==
    ASSUME NEW d, Moves(d), NEW e \in ExpandIndirectRefs(d)
    PROVE  <<TRUE, e>> \in ImpliedItems
<1>1. CASE <<FALSE, d>> \in ImpliedItems
  BY <1>1, ExpandedFollows, DepthOK
<1>2. CASE <<TRUE, d>> \in ImpliedItems /\ IsIndirect(d.sym)
  BY <1>2, ExpandedFollows, DepthOK
<1> QED
  BY <1>1, <1>2 DEF Moves

-------------------------------------------------------------------------------
(***************************************************************************)
(* Nothing that follows is lost in a step that adds drivers, side effects  *)
(* and instances, follows up what it adds and drops nothing.               *)
(***************************************************************************)
LEMMA SpreadKept ==
    ASSUME NEW drivers, NEW drivers2, NEW positions, NEW positions2, NEW moving, NEW moving2,
           \A e \in ValueDrivers : Reached(drivers, positions, e) => Reached(drivers2, positions2, e),
           \A d \in moving : Spread(drivers2, positions2, moving2, d)
    PROVE  \A d \in ValueDrivers : Spread(drivers, positions, moving, d)
                                        => Spread(drivers2, positions2, moving2, d)
  BY ExpandType DEF Spread

LEMMA CompleteKept ==
    ASSUME NEW drivers, NEW drivers2, NEW instances, NEW instances2,
           NEW positions, NEW positions2, NEW moving, NEW moving2,
           NEW left, NEW left2, NEW pairs, NEW pairs2,
           Complete(drivers, instances, positions, moving, left, pairs),
           \A s \in DOMAIN Symbols : drivers[s] \subseteq drivers2[s],
           drivers2 \in [DOMAIN Symbols -> SUBSET ValueDrivers],
           \A e \in ValueDrivers : Reached(drivers, positions, e) => Reached(drivers2, positions2, e),
           \A d \in moving : Spread(drivers2, positions2, moving2, d),
           \A d, ref : \A b \in Bodies : Carried(instances, positions, d, ref, b)
                                             => Carried(instances2, positions2, d, ref, b),
           \A s \in DOMAIN Symbols : \A d \in drivers2[s] \ {InitializerDriver(s)} :
               d \notin drivers[s] =>
                   /\ IsIndirect(s) => Spread(drivers2, positions2, moving2, d)
                   /\ \A ref \in BOOLEAN, b \in Bodies :
                          Effect(d, ref, b) => Carried(instances2, positions2, d, ref, b),
           \A b \in Bodies : /\ instances[b].hier \in Seq(HierPortDriverType)
                             /\ instances[b].inst \in Seq(Instances),
           \A b \in Bodies :
               /\ \A k \in DOMAIN instances[b].hier :
                      k \in DOMAIN instances2[b].hier /\ instances2[b].hier[k] = instances[b].hier[k]
               /\ \A k \in DOMAIN instances[b].inst :
                      k \in DOMAIN instances2[b].inst /\ instances2[b].inst[k] = instances[b].inst[k],
           \A c \in AddCalls \ left2.calls :
               c \in left.calls => \A n \in DOMAIN c : Reached(drivers2, positions2, c[n]),
           \A i \in Instances \ left2.instances :
               i \in left.instances =>
                   \E j \in DOMAIN instances2[BodyOf[i]].inst : instances2[BodyOf[i]].inst[j] = i,
           \A p \in pairs2 : p \notin pairs =>
               /\ p[1] \in Bodies
               /\ p[2] \in DOMAIN instances2[p[1]].hier
               /\ p[3] \in DOMAIN instances2[p[1]].inst
               /\ Applied(drivers2, positions2, moving2,
                          instances2[p[1]].hier[p[2]], instances2[p[1]].inst[p[3]])
    PROVE  Complete(drivers2, instances2, positions2, moving2, left2, pairs2)
<1>1. \A d \in ValueDrivers : Spread(drivers, positions, moving, d)
                                   => Spread(drivers2, positions2, moving2, d)
  BY SpreadKept
<1>2. DriversFollowed(drivers2, instances2, positions2, moving2)
  <2> SUFFICES ASSUME NEW s \in DOMAIN Symbols, NEW d \in drivers2[s] \ {InitializerDriver(s)}
               PROVE  /\ IsIndirect(s) => Spread(drivers2, positions2, moving2, d)
                      /\ \A ref \in BOOLEAN, b \in Bodies :
                             Effect(d, ref, b) => Carried(instances2, positions2, d, ref, b)
    BY DEF DriversFollowed
  <2>1. CASE d \notin drivers[s]
    BY <2>1
  <2>2. CASE d \in drivers[s]
    <3>1. /\ IsIndirect(s) => Spread(drivers, positions, moving, d)
          /\ \A ref \in BOOLEAN, b \in Bodies :
                 Effect(d, ref, b) => Carried(instances, positions, d, ref, b)
      BY <2>2 DEF Complete, DriversFollowed
    <3>2. d \in ValueDrivers
      OBVIOUS
    <3> QED
      BY <1>1, <3>1, <3>2
  <2> QED
    BY <2>1, <2>2
<1>3. CallsFollowed(drivers2, positions2, left2.calls)
  <2> SUFFICES ASSUME NEW c \in AddCalls \ left2.calls, NEW n \in DOMAIN c
               PROVE  Reached(drivers2, positions2, c[n])
    BY DEF CallsFollowed
  <2>1. c \notin left.calls => Reached(drivers, positions, c[n])
    BY DEF Complete, CallsFollowed
  <2>2. c[n] \in ValueDrivers
    BY CallDrivers
  <2> QED
    BY <2>1, <2>2
<1>4. InstancesFollowed(instances2, left2.instances)
  <2> SUFFICES ASSUME NEW i \in Instances \ left2.instances
               PROVE  \E j \in DOMAIN instances2[BodyOf[i]].inst :
                          instances2[BodyOf[i]].inst[j] = i
    BY DEF InstancesFollowed
  <2>1. CASE i \in left.instances
    BY <2>1
  <2>2. CASE i \notin left.instances
    <3>1. PICK j \in DOMAIN instances[BodyOf[i]].inst : instances[BodyOf[i]].inst[j] = i
      BY <2>2 DEF Complete, InstancesFollowed
    <3>2. BodyOf[i] \in Bodies
      BY InstancesOK
    <3> QED
      BY <3>1, <3>2
  <2> QED
    BY <2>1, <2>2
<1>5. PairsFollowed(drivers2, instances2, positions2, moving2, pairs2)
  <2> SUFFICES ASSUME NEW p \in pairs2, p \in pairs
               PROVE  /\ p[1] \in Bodies
                      /\ p[2] \in DOMAIN instances2[p[1]].hier
                      /\ p[3] \in DOMAIN instances2[p[1]].inst
                      /\ Applied(drivers2, positions2, moving2,
                                 instances2[p[1]].hier[p[2]], instances2[p[1]].inst[p[3]])
    BY DEF PairsFollowed
  <2>1. /\ p[1] \in Bodies
        /\ p[2] \in DOMAIN instances[p[1]].hier
        /\ p[3] \in DOMAIN instances[p[1]].inst
        /\ Applied(drivers, positions, moving,
                   instances[p[1]].hier[p[2]], instances[p[1]].inst[p[3]])
    BY DEF Complete, PairsFollowed
  <2>2. PICK h \in HierPortDriverType, i \in Instances :
            h = instances[p[1]].hier[p[2]] /\ i = instances[p[1]].inst[p[3]]
    <3>1. instances[p[1]].hier \in Seq(HierPortDriverType) /\ instances[p[1]].inst \in Seq(Instances)
      BY <2>1
    <3> QED
      BY <2>1, <3>1
  <2>3. h = instances2[p[1]].hier[p[2]] /\ i = instances2[p[1]].inst[p[3]]
    BY <2>1, <2>2
  <2>4. Applied(drivers, positions, moving, h, i)
    BY <2>1, <2>2
  <2>5. Applied(drivers2, positions2, moving2, h, i)
    <3> SUFFICES ASSUME SideEffect(h.driver, i).sym # NoSymbol
                 PROVE  Applied(drivers2, positions2, moving2, h, i)
      BY DEF Applied
    <3>1. PICK e \in ValueDrivers : e = SideEffect(h.driver, i)
      BY SideEffectType DEF HierPortDriverType
    <3>2. e.sym \in DOMAIN Symbols
      BY DEF ValueDrivers
    <3>3. IF h.ref THEN e \in drivers[e.sym] ELSE Spread(drivers, positions, moving, e)
      BY <2>4, <3>1 DEF Applied
    <3>4. IF h.ref THEN e \in drivers2[e.sym] ELSE Spread(drivers2, positions2, moving2, e)
      BY <1>1, <3>2, <3>3
    <3> QED
      BY <3>1, <3>4 DEF Applied
  <2> QED
    BY <2>1, <2>3, <2>5
<1> QED
  BY <1>2, <1>3, <1>4, <1>5 DEF Complete

(***************************************************************************)
(* One thread moves on.                                                    *)
(***************************************************************************)
QueueMoves(drivers, before, after) ==
    \A n \in DOMAIN before.queue :
        \/ before.queue[n] \in drivers[before.queue[n].sym]
        \/ \E m \in DOMAIN after.queue : after.queue[m] = before.queue[n]

LEMMA ReachedMoves ==
    ASSUME NEW drivers, NEW drivers2, NEW positions \in [Threads -> Positions],
           NEW positions2, NEW t \in Threads, NEW x \in Positions,
           positions2 = [positions EXCEPT ![t] = x],
           \A s \in DOMAIN Symbols : drivers[s] \subseteq drivers2[s],
           QueueMoves(drivers2, positions[t], x)
    PROVE  \A e \in ValueDrivers : Reached(drivers, positions, e) => Reached(drivers2, positions2, e)
<1>1. positions2[t] = x /\ \A u \in Threads \ {t} : positions2[u] = positions[u]
  OBVIOUS
<1> SUFFICES ASSUME NEW e \in ValueDrivers, Reached(drivers, positions, e)
             PROVE  Reached(drivers2, positions2, e)
  OBVIOUS
<1>2. CASE e \in drivers[e.sym]
  BY <1>2 DEF Reached, QueueMoves, ValueDrivers
<1>3. ASSUME NEW u \in Threads, NEW n \in DOMAIN positions[u].queue, positions[u].queue[n] = e
      PROVE  Reached(drivers2, positions2, e)
  <2>1. CASE u = t
    BY <1>1, <1>3, <2>1 DEF Reached, QueueMoves
  <2>2. CASE u # t
    BY <1>1, <1>3, <2>2 DEF Reached, QueueMoves
  <2> QED
    BY <2>1, <2>2
<1> QED
  BY <1>2, <1>3 DEF Reached, QueueMoves

LEMMA CarriedMoves ==
    ASSUME NEW instances, NEW instances2, NEW positions \in [Threads -> Positions],
           NEW positions2, NEW t \in Threads, NEW x \in Positions,
           positions2 = [positions EXCEPT ![t] = x],
           \A b \in Bodies : \A k \in DOMAIN instances[b].hier :
               k \in DOMAIN instances2[b].hier /\ instances2[b].hier[k] = instances[b].hier[k],
           \A n \in DOMAIN positions[t].hpds : \A q \in DOMAIN positions[t].hpds[n].via :
               LET h == positions[t].hpds[n]
               IN  Carried(instances2, positions2, h.driver, h.ref, h.via[q])
    PROVE  \A d, ref : \A b \in Bodies : Carried(instances, positions, d, ref, b)
                                             => Carried(instances2, positions2, d, ref, b)
<1>1. positions2[t] = x /\ \A u \in Threads \ {t} : positions2[u] = positions[u]
  OBVIOUS
<1> SUFFICES ASSUME NEW d, NEW ref, NEW b \in Bodies, Carried(instances, positions, d, ref, b)
             PROVE  Carried(instances2, positions2, d, ref, b)
  OBVIOUS
<1>2. ASSUME NEW k \in DOMAIN instances[b].hier,
             instances[b].hier[k].driver = d, instances[b].hier[k].ref = ref
      PROVE  Carried(instances2, positions2, d, ref, b)
  <2>1. k \in DOMAIN instances2[b].hier /\ instances2[b].hier[k] = instances[b].hier[k]
    BY <1>2
  <2>2. instances2[b].hier[k].driver = d /\ instances2[b].hier[k].ref = ref
    BY <1>2, <2>1
  <2> QED
    BY <2>1, <2>2 DEF Carried, Covers
<1>3. ASSUME NEW u \in Threads, NEW n \in DOMAIN positions[u].hpds,
             positions[u].hpds[n].driver = d, positions[u].hpds[n].ref = ref,
             NEW q \in DOMAIN positions[u].hpds[n].via, positions[u].hpds[n].via[q] = b
      PROVE  Carried(instances2, positions2, d, ref, b)
  <2>1. CASE u = t
    BY <1>3, <2>1
  <2>2. CASE u # t
    BY <1>1, <1>3, <2>2 DEF Carried, Covers
  <2> QED
    BY <2>1, <2>2
<1> QED
  BY <1>2, <1>3 DEF Carried, Covers

-------------------------------------------------------------------------------
(***************************************************************************)
(* Every step keeps the invariant.                                         *)
(***************************************************************************)
LEMMA Typed ==
    ASSUME IndInv
    PROVE  /\ symbolDrivers \in [DOMAIN Symbols -> SUBSET ValueDrivers]
           /\ \A s \in DOMAIN Symbols : \A d \in symbolDrivers[s] : d.sym = s
           /\ instanceMap \in InstanceMaps
           /\ \A b \in Bodies : /\ instanceMap[b].hier \in Seq(HierPortDriverType)
                                /\ instanceMap[b].inst \in Seq(Instances)
           /\ local \in [Threads -> Positions]
           /\ indirectDrivers \cup copy \subseteq ValueDrivers
  BY DEF IndInv, TypeOK, InstanceMaps, Positions

LEMMA CallsImplied ==
    ASSUME NEW c \in AddCalls, NEW n \in DOMAIN c
    PROVE  <<TRUE, c[n]>> \in ImpliedItems
<1>1. <<TRUE, c[n]>> \in {<<TRUE, c[m]>> : m \in DOMAIN c}
  BY Zenon
<1>2. <<TRUE, c[n]>> \in Direct
  BY <1>1, Zenon DEF Direct
<1> QED
  BY <1>2, ImpliedDirect, Zenon

LEMMA PhasesKept ==
    ASSUME PhasesInv, NEW t \in Threads, local[t] # Idle, NEW x, local' = [local EXCEPT ![t] = x],
           local \in [Threads -> Positions], UNCHANGED <<undone, phase, copy>>
    PROVE  PhasesInv'
<1>1. phase \notin {"swap", "done"}
  BY DEF PhasesInv, AllIdle
<1>2. phase # "analyze" => t = Main
  BY DEF PhasesInv
<1>3. \A u \in Threads \ {t} : local'[u] = local[u]
  OBVIOUS
<1> QED
  BY <1>1, <1>2, <1>3 DEF PhasesInv

LEMMA SoundMoves ==
    ASSUME NEW drivers, NEW drivers2, NEW instances, NEW instances2,
           NEW positions \in [Threads -> Positions], NEW positions2, NEW moving, NEW moving2,
           Sound(drivers, instances, positions, moving),
           NEW t \in Threads, NEW x \in Positions, positions2 = [positions EXCEPT ![t] = x],
           SoundPosition(x),
           \A s \in DOMAIN Symbols : \A d \in drivers2[s] :
               d \notin drivers[s] => d = InitializerDriver(s) \/ <<TRUE, d>> \in ImpliedItems,
           \A d \in moving2 : d \notin moving => Moves(d),
           \A b \in Bodies : SoundState(b, instances[b]) => SoundState(b, instances2[b])
    PROVE  Sound(drivers2, instances2, positions2, moving2)
<1>1. \A u \in Threads : SoundPosition(positions2[u])
  BY DEF Sound
<1>2. \A s \in DOMAIN Symbols : \A d \in drivers2[s] :
          d = InitializerDriver(s) \/ <<TRUE, d>> \in ImpliedItems
  BY Zenon DEF Sound
<1>3. \A d \in moving2 : Moves(d)
  BY DEF Sound
<1>4. \A b \in Bodies : SoundState(b, instances2[b])
  BY DEF Sound
<1> QED
  BY <1>1, <1>2, <1>3, <1>4, Zenon DEF Sound

LEMMA StartAddDrivers ==
    ASSUME IndInv, IndInv', DriversInv, NEW t \in Threads, StartAdd(t)
    PROVE  DriversInv'
<1>1. PICK c \in undone.calls :
          /\ local' = [local EXCEPT ![t] = [queue |-> c, hpds |-> <<>>, applies |-> {}]]
          /\ undone' = [undone EXCEPT !.calls = @ \ {c}]
  BY DEF StartAdd
<1>2. /\ local[t].queue = <<>> /\ local[t].hpds = <<>>
      /\ UNCHANGED <<symbolDrivers, instanceMap, indirectDrivers, diags, phase, copy, applied>>
      /\ phase = "analyze"
  BY DEF StartAdd, Idle
<1>3. c \in AddCalls /\ undone'.calls = undone.calls \ {c} /\ undone'.instances = undone.instances
  BY <1>1 DEF IndInv, TypeOK
<1>4. local \in [Threads -> Positions] /\ local' \in [Threads -> Positions]
  BY DEF IndInv, TypeOK, Positions
<1>5. PICK x : x = [queue |-> c, hpds |-> <<>>, applies |-> {}]
  OBVIOUS
<1>6. local' = [local EXCEPT ![t] = x]
  BY <1>1, <1>5
<1>7. x \in Positions
  BY <1>4, <1>6
<1>8. Sound(symbolDrivers', instanceMap', local', (indirectDrivers \cup copy)')
  <2>1. ASSUME NEW n \in DOMAIN c PROVE <<TRUE, c[n]>> \in ImpliedItems
    <3>1. c \in AddCalls
      BY <1>3
    <3> QED
      BY <3>1, CallsImplied, Zenon
  <2>2. SoundPosition(x)
    <3>1. x.queue = c /\ \A n \in DOMAIN x.hpds : FALSE
      BY <1>5
    <3> QED
      BY <2>1, <3>1, Zenon DEF SoundPosition
  <2>3. Sound(symbolDrivers, instanceMap, local, indirectDrivers \cup copy)
    BY DEF DriversInv
  <2>4. Sound(symbolDrivers, instanceMap, local', indirectDrivers \cup copy)
    BY <1>4, <1>6, <1>7, <2>2, <2>3, SoundMoves
  <2> QED
    BY <1>2, <2>4
<1>9. Complete(symbolDrivers', instanceMap', local', (indirectDrivers \cup copy)', undone', applied')
  <2> DEFINE moving == indirectDrivers \cup copy
  <2>1. \A e \in ValueDrivers : Reached(symbolDrivers, local, e) => Reached(symbolDrivers, local', e)
    <3>1. QueueMoves(symbolDrivers, local[t], x)
      BY <1>2 DEF QueueMoves
    <3> QED
      BY <1>4, <1>6, <1>7, <3>1, ReachedMoves
  <2>2. \A d, ref : \A b \in Bodies : Carried(instanceMap, local, d, ref, b)
                                        => Carried(instanceMap, local', d, ref, b)
    <3>1. \A n \in DOMAIN local[t].hpds : FALSE
      BY <1>2
    <3> QED
      BY <1>4, <1>6, <1>7, <3>1, CarriedMoves
  <2>3. \A n \in DOMAIN c : Reached(symbolDrivers, local', c[n])
    BY <1>4, <1>5, <1>6 DEF Reached
  <2>4. Complete(symbolDrivers, instanceMap, local, moving, undone, applied)
    BY DEF DriversInv
  <2>5. \A d \in moving : Spread(symbolDrivers, local', moving, d)
    BY DEF Spread
  <2> HIDE DEF moving
  <2>6. Complete(symbolDrivers, instanceMap, local', moving, undone', applied)
    BY <1>3, <2>1, <2>2, <2>3, <2>4, <2>5, Typed, CompleteKept
  <2> QED
    BY <1>2, <2>6 DEF moving
<1>10. PhasesInv'
  BY <1>2 DEF DriversInv, PhasesInv
<1> QED
  BY <1>2, <1>8, <1>9, <1>10 DEF DriversInv, Initialized

LEMMA Joined ==
    ASSUME NEW S, NEW a \in Seq(S), NEW b \in Seq(S)
    PROVE  /\ \A n \in DOMAIN a : n \in DOMAIN (a \o b) /\ (a \o b)[n] = a[n]
           /\ \A n \in DOMAIN b : Len(a) + n \in DOMAIN (a \o b) /\ (a \o b)[Len(a) + n] = b[n]
           /\ \A n \in DOMAIN (a \o b) :
                  n \in DOMAIN a \/ \E m \in DOMAIN b : n = Len(a) + m
<1>1. /\ Len(a \o b) = Len(a) + Len(b) /\ a \o b \in Seq(S)
      /\ Len(a) \in Nat /\ Len(b) \in Nat
      /\ DOMAIN a = 1 .. Len(a) /\ DOMAIN b = 1 .. Len(b)
      /\ DOMAIN (a \o b) = 1 .. Len(a \o b)
  BY ConcatProperties, LenProperties
<1>2. \A n \in 1 .. (Len(a) + Len(b)) :
          (a \o b)[n] = IF n <= Len(a) THEN a[n] ELSE b[n - Len(a)]
  BY ConcatProperties
<1>3. \A n \in DOMAIN a : n \in DOMAIN (a \o b) /\ (a \o b)[n] = a[n]
  BY <1>1, <1>2
<1>4. ASSUME NEW n \in DOMAIN b
      PROVE  Len(a) + n \in DOMAIN (a \o b) /\ (a \o b)[Len(a) + n] = b[n]
  <2>1. n \in Nat /\ n >= 1 /\ Len(a) + n \in 1 .. (Len(a) + Len(b)) /\ Len(a) + n - Len(a) = n
    BY <1>1
  <2>2. ~(Len(a) + n <= Len(a))
    BY <1>1, <2>1
  <2> QED
    BY <1>1, <1>2, <2>1, <2>2
<1>5. ASSUME NEW n \in DOMAIN (a \o b), n \notin DOMAIN a
      PROVE  \E m \in DOMAIN b : n = Len(a) + m
  <2>1. n - Len(a) \in DOMAIN b /\ n = Len(a) + (n - Len(a))
    BY <1>1, <1>5
  <2> QED
    BY <2>1
<1> QED
  BY <1>3, <1>4, <1>5

IsJoined(a, b, c) ==
    /\ \A n \in DOMAIN a : n \in DOMAIN c /\ c[n] = a[n]
    /\ \A n \in DOMAIN b : Len(a) + n \in DOMAIN c /\ c[Len(a) + n] = b[n]
    /\ \A n \in DOMAIN c : n \in DOMAIN a \/ \E m \in DOMAIN b : n = Len(a) + m

LEMMA JoinedIn ==
    ASSUME NEW S, NEW a \in Seq(S), NEW b \in Seq(S)
    PROVE  IsJoined(a, b, a \o b)
  BY Joined DEF IsJoined

LEMMA Rest ==
    ASSUME NEW S, NEW a \in Seq(S), a # <<>>
    PROVE  /\ Head(a) \in S /\ Tail(a) \in Seq(S) /\ 1 \in DOMAIN a /\ a[1] = Head(a)
           /\ \A n \in DOMAIN Tail(a) : n + 1 \in DOMAIN a /\ Tail(a)[n] = a[n + 1]
           /\ \A n \in DOMAIN a : n = 1 \/ (n - 1 \in DOMAIN Tail(a) /\ Tail(a)[n - 1] = a[n])
<1>1. /\ Head(a) \in S /\ Tail(a) \in Seq(S) /\ Head(a) = a[1]
      /\ Len(Tail(a)) = Len(a) - 1 /\ Len(a) \in Nat /\ Len(a) >= 1
      /\ DOMAIN a = 1 .. Len(a) /\ DOMAIN Tail(a) = 1 .. Len(a) - 1
      /\ \A n \in 1 .. Len(a) - 1 : Tail(a)[n] = a[n + 1]
  BY EmptySeq, HeadTailProperties, LenProperties
<1>2. \A n \in DOMAIN Tail(a) : n + 1 \in DOMAIN a /\ Tail(a)[n] = a[n + 1]
  BY <1>1
<1>3. ASSUME NEW n \in DOMAIN a, n # 1
      PROVE  n - 1 \in DOMAIN Tail(a) /\ Tail(a)[n - 1] = a[n]
  <2>1. n - 1 \in 1 .. Len(a) - 1 /\ n - 1 + 1 = n
    BY <1>1, <1>3
  <2> QED
    BY <1>1, <2>1
<1> QED
  BY <1>1, <1>2, <1>3

(***************************************************************************)
(* The side effects that addDriver notes are those the driver has.         *)
(***************************************************************************)
LEMMA NotedTraced ==
    ASSUME NEW d \in ValueDrivers, <<TRUE, d>> \in ImpliedItems, NEW n \in DOMAIN HierPortDrivers(d)
    PROVE  TracedAll(HierPortDrivers(d)[n])
<1> DEFINE h == HierPortDrivers(d)[n]
<1>1. h.driver = d
  BY HierPortDriversOf
<1>2. ASSUME NEW q \in DOMAIN h.via PROVE Effect(d, h.ref, h.via[q])
  BY DEF Effect
<1>3. ASSUME NEW q \in DOMAIN h.via PROVE Traced(h, h.via[q])
  <2> HIDE DEF h
  <2> QED
    BY <1>1, <1>2, <1>3, Zenon DEF Traced
<1> QED
  BY <1>3, Zenon DEF TracedAll

LEMMA SoundRest ==
    ASSUME NEW x \in Positions, SoundPosition(x), x.queue # <<>>
    PROVE  /\ Head(x.queue) \in RealDrivers /\ <<TRUE, Head(x.queue)>> \in ImpliedItems
           /\ \A n \in DOMAIN Tail(x.queue) : <<TRUE, Tail(x.queue)[n]>> \in ImpliedItems
<1>1. x.queue \in Seq(ValueDrivers)
  BY DEF Positions
<1>2. \A n \in DOMAIN x.queue : <<TRUE, x.queue[n]>> \in ImpliedItems
  BY DEF SoundPosition
<1>3. /\ 1 \in DOMAIN x.queue /\ x.queue[1] = Head(x.queue)
      /\ \A n \in DOMAIN Tail(x.queue) :
             n + 1 \in DOMAIN x.queue /\ Tail(x.queue)[n] = x.queue[n + 1]
  BY <1>1, Rest
<1>4. <<TRUE, Head(x.queue)>> \in ImpliedItems
  <2>1. <<TRUE, x.queue[1]>> \in ImpliedItems
    BY <1>2, <1>3, Zenon
  <2> QED
    BY <1>3, <2>1, Zenon
<1>5. Head(x.queue) \in RealDrivers
  BY <1>4, ImpliedTyped
<1>6. ASSUME NEW n \in DOMAIN Tail(x.queue) PROVE <<TRUE, Tail(x.queue)[n]>> \in ImpliedItems
  BY <1>2, <1>3, Zenon
<1> QED
  BY <1>4, <1>5, <1>6

(***************************************************************************)
(* The effect of addDriver on the drivers.                                 *)
(***************************************************************************)
LEMMA AddDriverSound ==
    ASSUME TypeOK, Initialized(symbolDrivers), NEW d \in RealDrivers, AddDriver(d)
    PROVE  /\ \A s \in DOMAIN Symbols : symbolDrivers[s] \subseteq symbolDrivers'[s]
           /\ d \in symbolDrivers'[d.sym]
           /\ \A s \in DOMAIN Symbols : \A e \in symbolDrivers'[s] :
                  e \notin symbolDrivers[s] => e = InitializerDriver(s) \/ e = d
           /\ indirectDrivers \subseteq indirectDrivers'
           /\ \A e \in indirectDrivers' : e \notin indirectDrivers => e = d
           /\ indirectDrivers' # indirectDrivers => IsIndirect(d.sym)
           /\ IsIndirect(d.sym) => d \in indirectDrivers'
           /\ Initialized(symbolDrivers')
<1>1. /\ d \in ValueDrivers /\ d.id # "initializer" /\ d.sym \in DOMAIN Symbols
      /\ symbolDrivers' = [symbolDrivers EXCEPT ![d.sym] = MapBefore(d) \cup {d}]
      /\ indirectDrivers' = IF IsIndirect(d.sym) THEN indirectDrivers \cup {d} ELSE indirectDrivers
  BY DEF RealDrivers, ValueDrivers, AddDriver
<1>2. /\ symbolDrivers'[d.sym] = MapBefore(d) \cup {d}
      /\ \A s \in DOMAIN Symbols : s # d.sym => symbolDrivers'[s] = symbolDrivers[s]
  BY <1>1 DEF TypeOK
<1>3. \A e \in MapBefore(d) : e \in symbolDrivers[d.sym] \/ e = InitializerDriver(d.sym)
  BY DEF MapBefore
<1>4. symbolDrivers[d.sym] \subseteq MapBefore(d)
  BY DEF MapBefore
<1>5. d # InitializerDriver(d.sym)
  BY <1>1 DEF InitializerDriver
<1>6. HasInitializer(d.sym) => InitializerDriver(d.sym) \in MapBefore(d)
  BY <1>1 DEF MapBefore, Initialized
<1>7. InitializerDriver(d.sym) \in MapBefore(d) => HasInitializer(d.sym)
  BY <1>1 DEF MapBefore, Initialized
<1>8. Initialized(symbolDrivers')
  <2> SUFFICES ASSUME NEW s \in DOMAIN Symbols
               PROVE  /\ symbolDrivers'[s] # {} /\ HasInitializer(s) =>
                             InitializerDriver(s) \in symbolDrivers'[s]
                      /\ InitializerDriver(s) \in symbolDrivers'[s] =>
                             /\ HasInitializer(s)
                             /\ \E e \in symbolDrivers'[s] : e # InitializerDriver(s)
    BY DEF Initialized
  <2>1. CASE s = d.sym
    BY <1>2, <1>5, <1>6, <1>7, <2>1
  <2>2. CASE s # d.sym
    BY <1>2, <2>2 DEF Initialized
  <2> QED
    BY <2>1, <2>2
<1> QED
  BY <1>1, <1>2, <1>3, <1>4, <1>8

LEMMA AddNextDrivers ==
    ASSUME IndInv, IndInv', DriversInv, NEW t \in Threads, AddNext(t)
    PROVE  DriversInv'
<1> DEFINE p == local[t]
<1>1. /\ p \in Positions /\ p.queue # <<>>
      /\ local \in [Threads -> Positions] /\ local' \in [Threads -> Positions]
  BY DEF AddNext, IndInv, TypeOK, Positions
<1>2. /\ Sound(symbolDrivers, instanceMap, local, indirectDrivers \cup copy)
      /\ Initialized(symbolDrivers) /\ PhasesInv
      /\ Complete(symbolDrivers, instanceMap, local, indirectDrivers \cup copy, undone, applied)
  BY DEF DriversInv
<1>3. SoundPosition(p)
  BY <1>2, Zenon DEF Sound
<1>4. /\ Head(p.queue) \in RealDrivers /\ <<TRUE, Head(p.queue)>> \in ImpliedItems
      /\ \A n \in DOMAIN Tail(p.queue) : <<TRUE, Tail(p.queue)[n]>> \in ImpliedItems
  BY <1>1, <1>3, SoundRest
<1>5. PICK d \in RealDrivers : d = Head(p.queue)
  BY <1>4
<1>6. /\ <<TRUE, d>> \in ImpliedItems /\ d \in ValueDrivers /\ d.sym \in DOMAIN Symbols
      /\ d.id # "initializer"
  BY <1>4, <1>5 DEF RealDrivers, ValueDrivers
<1>7. PICK x : x = [queue |-> Tail(p.queue), hpds |-> p.hpds \o HierPortDrivers(d),
                    applies |-> p.applies]
  OBVIOUS
<1>8. /\ AddDriver(d) /\ local' = [local EXCEPT ![t] = x]
      /\ UNCHANGED <<instanceMap, undone, phase, copy, applied>>
  BY <1>5, <1>7 DEF AddNext
<1>9. x \in Positions
  BY <1>1, <1>8
<1>10. /\ \A s \in DOMAIN Symbols : symbolDrivers[s] \subseteq symbolDrivers'[s]
       /\ d \in symbolDrivers'[d.sym]
       /\ \A s \in DOMAIN Symbols : \A e \in symbolDrivers'[s] :
              e \notin symbolDrivers[s] => e = InitializerDriver(s) \/ e = d
       /\ indirectDrivers \subseteq indirectDrivers'
       /\ \A e \in indirectDrivers' : e \notin indirectDrivers => e = d
       /\ indirectDrivers' # indirectDrivers => IsIndirect(d.sym)
       /\ IsIndirect(d.sym) => d \in indirectDrivers'
       /\ Initialized(symbolDrivers')
  BY <1>2, <1>8, AddDriverSound DEF IndInv
<1>11. /\ HierPortDrivers(d) \in Seq(HierPortDriverType) /\ p.hpds \in Seq(HierPortDriverType)
       /\ p.queue \in Seq(ValueDrivers) /\ x.queue = Tail(p.queue)
       /\ x.hpds = p.hpds \o HierPortDrivers(d)
  BY <1>1, <1>6, <1>7, HierPortDriversType DEF Positions
<1>12. /\ \A n \in DOMAIN p.hpds : n \in DOMAIN x.hpds /\ x.hpds[n] = p.hpds[n]
       /\ \A n \in DOMAIN HierPortDrivers(d) :
              Len(p.hpds) + n \in DOMAIN x.hpds /\ x.hpds[Len(p.hpds) + n] = HierPortDrivers(d)[n]
       /\ \A n \in DOMAIN x.hpds :
              n \in DOMAIN p.hpds \/ \E m \in DOMAIN HierPortDrivers(d) : n = Len(p.hpds) + m
  <2>1. PICK a \in Seq(HierPortDriverType), b \in Seq(HierPortDriverType) :
            a = p.hpds /\ b = HierPortDrivers(d) /\ x.hpds = a \o b
    BY <1>11
  <2>2. IsJoined(a, b, a \o b)
    BY JoinedIn
  <2>3. IsJoined(p.hpds, HierPortDrivers(d), x.hpds)
    BY <2>1, <2>2
  <2> QED
    BY <2>3 DEF IsJoined
<1>13. Sound(symbolDrivers', instanceMap', local', (indirectDrivers \cup copy)')
  <2>1. ASSUME NEW n \in DOMAIN x.hpds PROVE TracedAll(x.hpds[n])
    <3>1. CASE n \in DOMAIN p.hpds
      <4>1. TracedAll(p.hpds[n])
        BY <1>3, <3>1, Zenon DEF SoundPosition
      <4> QED
        BY <1>12, <3>1, <4>1, Zenon
    <3>2. ASSUME NEW m \in DOMAIN HierPortDrivers(d), n = Len(p.hpds) + m
          PROVE  TracedAll(x.hpds[n])
      <4>1. TracedAll(HierPortDrivers(d)[m])
        BY <1>6, NotedTraced, Zenon
      <4> QED
        BY <1>12, <3>2, <4>1, Zenon
    <3> QED
      BY <1>12, <3>1, <3>2
  <2>2. SoundPosition(x)
    BY <1>4, <1>11, <2>1, Zenon DEF SoundPosition
  <2>3. \A e \in indirectDrivers' \cup copy : e \notin indirectDrivers \cup copy => Moves(e)
    <3>1. IsIndirect(d.sym) => Moves(d)
      BY <1>6, Zenon DEF Moves
    <3> QED
      BY <1>10, <3>1
  <2>4. \A s \in DOMAIN Symbols : \A e \in symbolDrivers'[s] :
            e \notin symbolDrivers[s] => e = InitializerDriver(s) \/ <<TRUE, e>> \in ImpliedItems
    BY <1>6, <1>10, Zenon
  <2>5. Sound(symbolDrivers', instanceMap, local', indirectDrivers' \cup copy)
    BY <1>1, <1>2, <1>8, <1>9, <2>2, <2>3, <2>4, SoundMoves
  <2> QED
    BY <1>8, <2>5
<1>14. Complete(symbolDrivers', instanceMap', local', (indirectDrivers \cup copy)', undone', applied')
  <2> DEFINE moving == indirectDrivers \cup copy
             moving2 == indirectDrivers' \cup copy
  <2>1. \A e \in ValueDrivers : Reached(symbolDrivers, local, e) => Reached(symbolDrivers', local', e)
    <3>1. \A n \in DOMAIN p.queue : n = 1 \/ (n - 1 \in DOMAIN x.queue /\ x.queue[n - 1] = p.queue[n])
      BY <1>1, <1>11, Rest
    <3>2. p.queue[1] = d
      BY <1>1, <1>5, <1>11, Rest
    <3>3. ASSUME NEW n \in DOMAIN p.queue
          PROVE  \/ p.queue[n] \in symbolDrivers'[p.queue[n].sym]
                 \/ \E m \in DOMAIN x.queue : x.queue[m] = p.queue[n]
      BY <1>10, <3>1, <3>2
    <3>4. \A s \in DOMAIN Symbols : symbolDrivers[s] \subseteq symbolDrivers'[s]
      BY <1>10
    <3>5. local' = [local EXCEPT ![t] = x]
      BY <1>8
    <3>6. QueueMoves(symbolDrivers', local[t], x)
      BY <3>3 DEF QueueMoves
    <3> QED
      BY <1>1, <1>9, <3>4, <3>5, <3>6, ReachedMoves
  <2>2. \A e, ref : \A b \in Bodies : Carried(instanceMap, local, e, ref, b)
                                        => Carried(instanceMap, local', e, ref, b)
    <3>1. ASSUME NEW n \in DOMAIN p.hpds, NEW q \in DOMAIN p.hpds[n].via
          PROVE  Carried(instanceMap, local', p.hpds[n].driver, p.hpds[n].ref, p.hpds[n].via[q])
      <4>1. n \in DOMAIN local'[t].hpds /\ local'[t].hpds[n] = p.hpds[n]
        BY <1>1, <1>8, <1>12
      <4> QED
        BY <4>1, Zenon DEF Carried, Covers
    <3> QED
      BY <1>1, <1>8, <1>9, <3>1, CarriedMoves
  <2>3. Complete(symbolDrivers, instanceMap, local, moving, undone, applied)
    BY <1>2
  <2>4. \A e \in moving : Spread(symbolDrivers', local', moving2, e)
    BY <1>10 DEF Spread
  <2>5. ASSUME IsIndirect(d.sym) PROVE Spread(symbolDrivers', local', moving2, d)
    BY <1>10, <2>5 DEF Spread
  <2>6. ASSUME NEW ref \in BOOLEAN, NEW b \in Bodies, Effect(d, ref, b)
        PROVE  Carried(instanceMap, local', d, ref, b)
    <3>1. PICK n \in DOMAIN HierPortDrivers(d) :
              /\ HierPortDrivers(d)[n].ref = ref
              /\ \E q \in DOMAIN HierPortDrivers(d)[n].via : HierPortDrivers(d)[n].via[q] = b
      BY <2>6, Zenon DEF Effect
    <3>2. HierPortDrivers(d)[n].driver = d
      BY <1>6, HierPortDriversOf
    <3>3. PICK k : k = Len(p.hpds) + n
      OBVIOUS
    <3>4. k \in DOMAIN local'[t].hpds /\ local'[t].hpds[k] = HierPortDrivers(d)[n]
      BY <1>1, <1>8, <1>12, <3>3
    <3> QED
      BY <3>1, <3>2, <3>4, Zenon DEF Carried, Covers
  <2>7. \A s \in DOMAIN Symbols : \A e \in symbolDrivers'[s] \ {InitializerDriver(s)} :
            e \notin symbolDrivers[s] =>
                /\ IsIndirect(s) => Spread(symbolDrivers', local', moving2, e)
                /\ \A ref \in BOOLEAN, b \in Bodies :
                       Effect(e, ref, b) => Carried(instanceMap, local', e, ref, b)
    <3> SUFFICES ASSUME NEW s \in DOMAIN Symbols, NEW e \in symbolDrivers'[s] \ {InitializerDriver(s)},
                        e \notin symbolDrivers[s]
                 PROVE  /\ IsIndirect(s) => Spread(symbolDrivers', local', moving2, e)
                        /\ \A ref \in BOOLEAN, b \in Bodies :
                               Effect(e, ref, b) => Carried(instanceMap, local', e, ref, b)
      OBVIOUS
    <3>1. e = d
      BY <1>10
    <3>2. e.sym = s
      BY DEF IndInv, TypeOK
    <3> HIDE DEF moving2
    <3> QED
      BY <2>5, <2>6, <3>1, <3>2
  <2>8. symbolDrivers' \in [DOMAIN Symbols -> SUBSET ValueDrivers]
    BY DEF IndInv, TypeOK
  <2> HIDE DEF moving, moving2
  <2>9. Complete(symbolDrivers', instanceMap, local', moving2, undone, applied)
    BY <1>10, <2>1, <2>2, <2>3, <2>4, <2>7, <2>8, Typed, CompleteKept
  <2> QED
    BY <1>8, <2>9 DEF moving2
<1>15. PhasesInv'
  <2>1. local[t] # Idle
    BY <1>1 DEF Idle
  <2> QED
    BY <1>1, <1>2, <1>8, <2>1, PhasesKept
<1> QED
  BY <1>10, <1>13, <1>14, <1>15 DEF DriversInv

(***************************************************************************)
(* The position of a thread that has noted the first of its side effects   *)
(* with the first body of its path.                                        *)
(***************************************************************************)
Following(h) ==
    IF Tail(h.via) = <<>> THEN <<>>
    ELSE <<[driver |-> h.driver, ref |-> h.ref, via |-> Tail(h.via)]>>

LEMMA NotedOne ==
    ASSUME NEW h \in HierPortDriverType, NEW d, NEW ref, NEW b
    PROVE  Covers(h, d, ref, b) <=>
               \/ h.driver = d /\ h.ref = ref /\ b = Head(h.via)
               \/ \E n \in DOMAIN Following(h) : Covers(Following(h)[n], d, ref, b)
<1>a. PICK via \in Seq(Bodies) : via # <<>> /\ via = h.via
  BY DEF HierPortDriverType
<1>b. PICK more : more = Following(h)
  OBVIOUS
<1>0. /\ via # <<>> /\ via = h.via /\ more = Following(h)
      /\ more = IF Tail(via) = <<>> THEN <<>>
                ELSE <<[driver |-> h.driver, ref |-> h.ref, via |-> Tail(via)]>>
  BY <1>a, <1>b DEF Following
<1>1. /\ 1 \in DOMAIN via /\ via[1] = Head(via) /\ Tail(via) \in Seq(Bodies)
      /\ \A n \in DOMAIN Tail(via) : n + 1 \in DOMAIN via /\ Tail(via)[n] = via[n + 1]
      /\ \A n \in DOMAIN via : n = 1 \/ (n - 1 \in DOMAIN Tail(via) /\ Tail(via)[n - 1] = via[n])
  BY <1>0, Rest
<1>2. (\E q \in DOMAIN via : via[q] = b) <=>
          b = Head(via) \/ \E q \in DOMAIN Tail(via) : Tail(via)[q] = b
  <2>1. ASSUME NEW q \in DOMAIN via, via[q] = b
        PROVE  b = Head(via) \/ \E r \in DOMAIN Tail(via) : Tail(via)[r] = b
    <3>1. q = 1 \/ (q - 1 \in DOMAIN Tail(via) /\ Tail(via)[q - 1] = b)
      BY <1>1, <2>1
    <3> QED
      BY <1>1, <2>1, <3>1
  <2>2. ASSUME b = Head(via) PROVE \E q \in DOMAIN via : via[q] = b
    BY <1>1, <2>2
  <2>3. ASSUME NEW q \in DOMAIN Tail(via), Tail(via)[q] = b PROVE \E r \in DOMAIN via : via[r] = b
    <3>1. q + 1 \in DOMAIN via /\ via[q + 1] = b
      BY <1>1, <2>3
    <3> QED
      BY <3>1
  <2> QED
    BY <2>1, <2>2, <2>3
<1>3. CASE Tail(via) = <<>>
  <2>1. more = <<>> /\ DOMAIN more = {} /\ DOMAIN Tail(via) = {}
    BY <1>0, <1>3
  <2> QED
    BY <1>0, <1>2, <2>1 DEF Covers
<1>4. CASE Tail(via) # <<>>
  <2>1. PICK g : g = [driver |-> h.driver, ref |-> h.ref, via |-> Tail(via)]
    OBVIOUS
  <2>2. g.driver = h.driver /\ g.ref = h.ref /\ g.via = Tail(via)
    BY <2>1
  <2>3. DOMAIN more = {1} /\ more[1] = g
    BY <1>0, <1>4, <2>1
  <2>4. Covers(g, d, ref, b) <=>
            h.driver = d /\ h.ref = ref /\ \E q \in DOMAIN Tail(via) : Tail(via)[q] = b
    BY <2>2 DEF Covers
  <2>5. (\E n \in DOMAIN more : Covers(more[n], d, ref, b)) <=> Covers(g, d, ref, b)
    BY <2>3
  <2> QED
    BY <1>0, <1>2, <2>4, <2>5, ZenonT(60) DEF Covers
<1> QED
  BY <1>3, <1>4

LEMMA NotedRest ==
    ASSUME NEW hpds \in Seq(HierPortDriverType), hpds # <<>>, NEW h \in HierPortDriverType,
           h = Head(hpds), Following(h) \in Seq(HierPortDriverType),
           NEW d, NEW ref, NEW b
    PROVE  (\E n \in DOMAIN hpds : Covers(hpds[n], d, ref, b)) <=>
               \/ h.driver = d /\ h.ref = ref /\ b = Head(h.via)
               \/ \E n \in DOMAIN (Following(h) \o Tail(hpds)) :
                      Covers((Following(h) \o Tail(hpds))[n], d, ref, b)
<1>a. PICK more \in Seq(HierPortDriverType) : more = Following(h)
  OBVIOUS
<1>b. PICK after : after = Following(h) \o Tail(hpds)
  OBVIOUS
<1>0. more = Following(h) /\ after = Following(h) \o Tail(hpds)
  BY <1>a, <1>b
<1>1. /\ 1 \in DOMAIN hpds /\ hpds[1] = h /\ Tail(hpds) \in Seq(HierPortDriverType)
      /\ \A n \in DOMAIN Tail(hpds) : n + 1 \in DOMAIN hpds /\ Tail(hpds)[n] = hpds[n + 1]
      /\ \A n \in DOMAIN hpds : n = 1 \/ (n - 1 \in DOMAIN Tail(hpds) /\ Tail(hpds)[n - 1] = hpds[n])
  BY Rest
<1>2. PICK rest \in Seq(HierPortDriverType) : rest = Tail(hpds)
  BY <1>1
<1>3. IsJoined(more, rest, more \o rest)
  BY JoinedIn
<1>4. IsJoined(more, rest, after)
  BY <1>0, <1>2, <1>3
<1>5. /\ \A n \in DOMAIN more : n \in DOMAIN after /\ after[n] = more[n]
      /\ \A n \in DOMAIN rest : Len(more) + n \in DOMAIN after /\ after[Len(more) + n] = rest[n]
      /\ \A n \in DOMAIN after : n \in DOMAIN more \/ \E m \in DOMAIN rest : n = Len(more) + m
  BY <1>4 DEF IsJoined
<1>6. (\E n \in DOMAIN after : Covers(after[n], d, ref, b)) <=>
          \/ \E n \in DOMAIN more : Covers(more[n], d, ref, b)
          \/ \E n \in DOMAIN rest : Covers(rest[n], d, ref, b)
  <2>1. ASSUME NEW n \in DOMAIN after, Covers(after[n], d, ref, b)
        PROVE  \/ \E m \in DOMAIN more : Covers(more[m], d, ref, b)
               \/ \E m \in DOMAIN rest : Covers(rest[m], d, ref, b)
    <3>1. CASE n \in DOMAIN more
      BY <1>5, <2>1, <3>1
    <3>2. ASSUME NEW m \in DOMAIN rest, n = Len(more) + m PROVE Covers(rest[m], d, ref, b)
      BY <1>5, <2>1, <3>2
    <3> QED
      BY <1>5, <3>1, <3>2
  <2>2. ASSUME NEW n \in DOMAIN more, Covers(more[n], d, ref, b)
        PROVE  \E m \in DOMAIN after : Covers(after[m], d, ref, b)
    BY <1>5, <2>2
  <2>3. ASSUME NEW n \in DOMAIN rest, Covers(rest[n], d, ref, b)
        PROVE  \E m \in DOMAIN after : Covers(after[m], d, ref, b)
    <3>1. Len(more) + n \in DOMAIN after /\ Covers(after[Len(more) + n], d, ref, b)
      BY <1>5, <2>3
    <3> QED
      BY <3>1
  <2> QED
    BY <2>1, <2>2, <2>3
<1>7. (\E n \in DOMAIN hpds : Covers(hpds[n], d, ref, b)) <=>
          \/ Covers(h, d, ref, b)
          \/ \E n \in DOMAIN rest : Covers(rest[n], d, ref, b)
  <2>1. ASSUME NEW n \in DOMAIN hpds, Covers(hpds[n], d, ref, b)
        PROVE  Covers(h, d, ref, b) \/ \E m \in DOMAIN rest : Covers(rest[m], d, ref, b)
    <3>1. CASE n = 1
      BY <1>1, <2>1, <3>1
    <3>2. CASE n # 1
      <4>1. n - 1 \in DOMAIN rest /\ rest[n - 1] = hpds[n]
        BY <1>1, <1>2, <3>2
      <4>2. Covers(rest[n - 1], d, ref, b)
        BY <2>1, <4>1
      <4> QED
        BY <4>1, <4>2
    <3> QED
      BY <3>1, <3>2
  <2>2. ASSUME Covers(h, d, ref, b) PROVE \E n \in DOMAIN hpds : Covers(hpds[n], d, ref, b)
    BY <1>1, <2>2
  <2>3. ASSUME NEW n \in DOMAIN rest, Covers(rest[n], d, ref, b)
        PROVE  \E m \in DOMAIN hpds : Covers(hpds[m], d, ref, b)
    <3>1. n + 1 \in DOMAIN hpds /\ rest[n] = hpds[n + 1]
      BY <1>1, <1>2
    <3>2. Covers(hpds[n + 1], d, ref, b)
      BY <2>3, <3>1
    <3> QED
      BY <3>1, <3>2
  <2> QED
    BY <2>1, <2>2, <2>3
<1>8. Covers(h, d, ref, b) <=>
          \/ h.driver = d /\ h.ref = ref /\ b = Head(h.via)
          \/ \E n \in DOMAIN more : Covers(more[n], d, ref, b)
  BY <1>0, NotedOne
<1> QED
  BY <1>0, <1>6, <1>7, <1>8

(***************************************************************************)
(* What is carried stays so if each side effect of the thread that moves   *)
(* is noted or is still in its hands.                                      *)
(***************************************************************************)
LEMMA CarriedOn ==
    ASSUME NEW instances, NEW instances2, NEW positions \in [Threads -> Positions],
           NEW positions2, NEW t \in Threads, NEW x \in Positions,
           positions2 = [positions EXCEPT ![t] = x],
           \A b \in Bodies : \A k \in DOMAIN instances[b].hier :
               k \in DOMAIN instances2[b].hier /\ instances2[b].hier[k] = instances[b].hier[k],
           NEW d, NEW ref, NEW b \in Bodies,
           \A n \in DOMAIN positions[t].hpds :
               Covers(positions[t].hpds[n], d, ref, b) => Carried(instances2, positions2, d, ref, b),
           Carried(instances, positions, d, ref, b)
    PROVE  Carried(instances2, positions2, d, ref, b)
<1>1. positions2[t] = x /\ \A u \in Threads \ {t} : positions2[u] = positions[u]
  OBVIOUS
<1>2. ASSUME NEW k \in DOMAIN instances[b].hier,
             instances[b].hier[k].driver = d, instances[b].hier[k].ref = ref
      PROVE  Carried(instances2, positions2, d, ref, b)
  <2>1. k \in DOMAIN instances2[b].hier /\ instances2[b].hier[k] = instances[b].hier[k]
    OBVIOUS
  <2>2. instances2[b].hier[k].driver = d /\ instances2[b].hier[k].ref = ref
    BY <1>2, <2>1
  <2> QED
    BY <2>1, <2>2 DEF Carried
<1>3. ASSUME NEW u \in Threads, NEW n \in DOMAIN positions[u].hpds,
             Covers(positions[u].hpds[n], d, ref, b)
      PROVE  Carried(instances2, positions2, d, ref, b)
  <2>1. CASE u = t
    BY <1>3, <2>1
  <2>2. CASE u # t
    <3>1. positions2[u] = positions[u]
      BY <1>1, <2>2
    <3>2. n \in DOMAIN positions2[u].hpds /\ Covers(positions2[u].hpds[n], d, ref, b)
      BY <1>3, <3>1
    <3> QED
      BY <3>2 DEF Carried
  <2> QED
    BY <2>1, <2>2
<1> QED
  BY <1>2, <1>3 DEF Carried

LEMMA Appended ==
    ASSUME NEW S, NEW a \in Seq(S), NEW e \in S, NEW c, c = Append(a, e)
    PROVE  /\ \A n \in DOMAIN a : n \in DOMAIN c /\ c[n] = a[n]
           /\ \E n \in DOMAIN c : c[n] = e
           /\ \A n \in DOMAIN c : n \in DOMAIN a \/ c[n] = e
<1>1. /\ c \in Seq(S) /\ Len(c) = Len(a) + 1 /\ Len(a) \in Nat
      /\ DOMAIN a = 1 .. Len(a) /\ DOMAIN c = 1 .. Len(c)
      /\ \A n \in 1 .. Len(a) : c[n] = a[n]
      /\ c[Len(a) + 1] = e
  BY AppendProperties, LenProperties
<1>2. Len(a) + 1 \in DOMAIN c
  BY <1>1
<1>3. ASSUME NEW n \in DOMAIN c PROVE n \in DOMAIN a \/ c[n] = e
  <2>1. n \in DOMAIN a \/ n = Len(a) + 1
    BY <1>1
  <2> QED
    BY <1>1, <2>1
<1> QED
  BY <1>1, <1>2, <1>3

LEMMA SoundCovers ==
    ASSUME NEW x \in Positions
    PROVE  SoundPosition(x) <=>
               /\ \A n \in DOMAIN x.queue : <<TRUE, x.queue[n]>> \in ImpliedItems
               /\ \A d, ref, b : (\E n \in DOMAIN x.hpds : Covers(x.hpds[n], d, ref, b)) =>
                                     <<TRUE, d>> \in ImpliedItems /\ Effect(d, ref, b)
<1>1. ASSUME SoundPosition(x), NEW d, NEW ref, NEW b, NEW n \in DOMAIN x.hpds,
             Covers(x.hpds[n], d, ref, b)
      PROVE  <<TRUE, d>> \in ImpliedItems /\ Effect(d, ref, b)
  <2>1. PICK q \in DOMAIN x.hpds[n].via : x.hpds[n].via[q] = b
    BY <1>1, Zenon DEF Covers
  <2>2. Traced(x.hpds[n], x.hpds[n].via[q])
    BY <1>1, Zenon DEF SoundPosition, TracedAll
  <2>3. x.hpds[n].driver = d /\ x.hpds[n].ref = ref
    BY <1>1, Zenon DEF Covers
  <2> QED
    BY <2>1, <2>2, <2>3, Zenon DEF Traced
<1>2. ASSUME \A d, ref, b : (\E n \in DOMAIN x.hpds : Covers(x.hpds[n], d, ref, b)) =>
                                <<TRUE, d>> \in ImpliedItems /\ Effect(d, ref, b),
             NEW n \in DOMAIN x.hpds
      PROVE  TracedAll(x.hpds[n])
  <2> SUFFICES ASSUME NEW q \in DOMAIN x.hpds[n].via PROVE Traced(x.hpds[n], x.hpds[n].via[q])
    BY Zenon DEF TracedAll
  <2>1. Covers(x.hpds[n], x.hpds[n].driver, x.hpds[n].ref, x.hpds[n].via[q])
    BY Zenon DEF Covers
  <2> QED
    BY <1>2, <2>1, Zenon DEF Traced
<1>3. SoundPosition(x) => \A n \in DOMAIN x.queue : <<TRUE, x.queue[n]>> \in ImpliedItems
  BY Zenon DEF SoundPosition
<1> QED
  BY <1>1, <1>2, <1>3, Zenon DEF SoundPosition

LEMMA NoteHierPortDriverDrivers ==
    ASSUME IndInv, IndInv', DriversInv, NEW t \in Threads, NoteHierPortDriver(t)
    PROVE  DriversInv'
<1>1. /\ local[t] \in Positions /\ local[t].hpds # <<>> /\ local[t].queue = <<>>
      /\ local[t].hpds \in Seq(HierPortDriverType)
      /\ local \in [Threads -> Positions] /\ local' \in [Threads -> Positions]
  BY DEF NoteHierPortDriver, IndInv, TypeOK, Positions
<1>2. PICK h \in HierPortDriverType : h = Head(local[t].hpds)
  BY <1>1, HeadTailProperties
<1>3. PICK b \in Bodies : b = Head(h.via)
  BY HeadTailProperties DEF HierPortDriverType
<1>4. PICK hpds : hpds = Following(h) \o Tail(local[t].hpds)
  OBVIOUS
<1>5. PICK x : /\ local' = [local EXCEPT ![t] = x]
               /\ x.queue = <<>> /\ x.hpds = hpds
  <2>1. PICK y : y = [queue |-> <<>>, hpds |-> hpds,
                      applies |-> {b} \X {Len(instanceMap[b].hier) + 1}
                                      \X (1 .. Len(instanceMap[b].inst))]
    OBVIOUS
  <2>2. local' = [local EXCEPT ![t] = y]
    BY <1>2, <1>3, <1>4, <2>1 DEF NoteHierPortDriver, Following
  <2>3. y.queue = <<>> /\ y.hpds = hpds
    BY <2>1
  <2> QED
    BY <2>2, <2>3
<1>6. /\ instanceMap' = [instanceMap EXCEPT ![b] = [hier |-> Append(@.hier, h), inst |-> @.inst]]
      /\ UNCHANGED <<symbolDrivers, indirectDrivers, diags, undone, phase, copy, applied>>
  BY <1>2, <1>3 DEF NoteHierPortDriver
<1>7. x \in Positions
  BY <1>1, <1>5
<1>8. Following(h) \in Seq(HierPortDriverType)
  <2>1. <<>> \in Seq(HierPortDriverType)
    OBVIOUS
  <2>2. Tail(h.via) \in Seq(Bodies)
    BY HeadTailProperties DEF HierPortDriverType
  <2>3. Tail(h.via) # <<>> =>
            [driver |-> h.driver, ref |-> h.ref, via |-> Tail(h.via)] \in HierPortDriverType
    BY <2>2 DEF HierPortDriverType
  <2> QED
    BY <2>1, <2>3 DEF Following
<1>9. ASSUME NEW d, NEW ref, NEW a
      PROVE  (\E n \in DOMAIN local[t].hpds : Covers(local[t].hpds[n], d, ref, a)) <=>
                 \/ h.driver = d /\ h.ref = ref /\ a = b
                 \/ \E n \in DOMAIN x.hpds : Covers(x.hpds[n], d, ref, a)
  <2>1. PICK old \in Seq(HierPortDriverType) : old = local[t].hpds
    BY <1>1
  <2>2. old # <<>> /\ h = Head(old)
    BY <1>1, <1>2, <2>1
  <2>3. (\E n \in DOMAIN old : Covers(old[n], d, ref, a)) <=>
            \/ h.driver = d /\ h.ref = ref /\ a = Head(h.via)
            \/ \E n \in DOMAIN (Following(h) \o Tail(old)) :
                   Covers((Following(h) \o Tail(old))[n], d, ref, a)
    BY <1>8, <2>2, NotedRest
  <2>4. Following(h) \o Tail(old) = x.hpds
    BY <1>4, <1>5, <2>1
  <2> QED
    BY <1>3, <2>1, <2>3, <2>4
<1>10. PICK hier : hier = Append(instanceMap[b].hier, h)
  OBVIOUS
<1>11. /\ instanceMap'[b].hier = hier /\ instanceMap'[b].inst = instanceMap[b].inst
       /\ \A a \in Bodies \ {b} : instanceMap'[a] = instanceMap[a]
  BY <1>6, <1>10 DEF IndInv, TypeOK
<1>12. /\ \A n \in DOMAIN instanceMap[b].hier : n \in DOMAIN hier /\ hier[n] = instanceMap[b].hier[n]
       /\ \E n \in DOMAIN hier : hier[n] = h
       /\ \A n \in DOMAIN hier : n \in DOMAIN instanceMap[b].hier \/ hier[n] = h
  <2>1. PICK old \in Seq(HierPortDriverType) : old = instanceMap[b].hier
    BY Typed
  <2>2. /\ \A n \in DOMAIN old : n \in DOMAIN hier /\ hier[n] = old[n]
        /\ \E n \in DOMAIN hier : hier[n] = h
        /\ \A n \in DOMAIN hier : n \in DOMAIN old \/ hier[n] = h
    BY <1>10, <2>1, Appended
  <2> QED
    BY <2>1, <2>2
<1>13. /\ Sound(symbolDrivers, instanceMap, local, indirectDrivers \cup copy)
       /\ Initialized(symbolDrivers) /\ PhasesInv
       /\ Complete(symbolDrivers, instanceMap, local, indirectDrivers \cup copy, undone, applied)
  BY DEF DriversInv
<1>14. SoundPosition(local[t])
  BY <1>13, Zenon DEF Sound
<1>15. \A d, ref, a : (\E n \in DOMAIN local[t].hpds : Covers(local[t].hpds[n], d, ref, a)) =>
                          <<TRUE, d>> \in ImpliedItems /\ Effect(d, ref, a)
  BY <1>1, <1>14, SoundCovers, Zenon
<1>16. Sound(symbolDrivers', instanceMap', local', (indirectDrivers \cup copy)')
  <2>1. SoundPosition(x)
    <3>1. \A n \in DOMAIN x.queue : FALSE
      BY <1>5
    <3>2. \A d, ref, a : (\E n \in DOMAIN x.hpds : Covers(x.hpds[n], d, ref, a)) =>
                             <<TRUE, d>> \in ImpliedItems /\ Effect(d, ref, a)
      BY <1>9, <1>15, Zenon
    <3> QED
      BY <1>7, <3>1, <3>2, SoundCovers, Zenon
  <2>2. Traced(h, b)
    <3>1. \E n \in DOMAIN local[t].hpds : Covers(local[t].hpds[n], h.driver, h.ref, b)
      BY <1>9
    <3> QED
      BY <1>15, <3>1, Zenon DEF Traced
  <2>3. ASSUME NEW a \in Bodies, SoundState(a, instanceMap[a]) PROVE SoundState(a, instanceMap'[a])
    <3>1. CASE a = b
      <4>1. ASSUME NEW k \in DOMAIN hier PROVE Traced(hier[k], b)
        <5>1. CASE k \in DOMAIN instanceMap[b].hier
          <6>1. Traced(instanceMap[b].hier[k], b)
            BY <2>3, <3>1, <5>1 DEF SoundState
          <6> QED
            BY <1>12, <5>1, <6>1
        <5>2. CASE hier[k] = h
          BY <2>2, <5>2
        <5> QED
          BY <1>12, <5>1, <5>2
      <4> QED
        BY <1>11, <2>3, <3>1, <4>1 DEF SoundState
    <3>2. CASE a # b
      BY <1>11, <2>3, <3>2
    <3> QED
      BY <3>1, <3>2
  <2>4. Sound(symbolDrivers, instanceMap', local', indirectDrivers \cup copy)
    BY <1>1, <1>5, <1>7, <1>13, <2>1, <2>3, SoundMoves
  <2> QED
    BY <1>6, <2>4
<1>17. Complete(symbolDrivers', instanceMap', local', (indirectDrivers \cup copy)', undone', applied')
  <2> DEFINE moving == indirectDrivers \cup copy
  <2>1. \A e \in ValueDrivers : Reached(symbolDrivers, local, e) => Reached(symbolDrivers, local', e)
    <3>1. QueueMoves(symbolDrivers, local[t], x)
      BY <1>1 DEF QueueMoves
    <3> QED
      BY <1>1, <1>5, <1>7, <3>1, ReachedMoves
  <2>2. \A a \in Bodies :
            /\ \A k \in DOMAIN instanceMap[a].hier :
                   k \in DOMAIN instanceMap'[a].hier /\ instanceMap'[a].hier[k] = instanceMap[a].hier[k]
            /\ \A k \in DOMAIN instanceMap[a].inst :
                   k \in DOMAIN instanceMap'[a].inst /\ instanceMap'[a].inst[k] = instanceMap[a].inst[k]
    <3> TAKE a \in Bodies
    <3>1. CASE a = b
      BY <1>11, <1>12, <3>1
    <3>2. CASE a # b
      BY <1>11, <3>2
    <3> QED
      BY <3>1, <3>2
  <2>3. \A d, ref : \A a \in Bodies : Carried(instanceMap, local, d, ref, a)
                                        => Carried(instanceMap', local', d, ref, a)
    <3> SUFFICES ASSUME NEW d, NEW ref, NEW a \in Bodies, Carried(instanceMap, local, d, ref, a)
                 PROVE  Carried(instanceMap', local', d, ref, a)
      OBVIOUS
    <3>1. ASSUME NEW n \in DOMAIN local[t].hpds, Covers(local[t].hpds[n], d, ref, a)
          PROVE  Carried(instanceMap', local', d, ref, a)
      <4>1. CASE h.driver = d /\ h.ref = ref /\ a = b
        BY <1>11, <1>12, <4>1 DEF Carried
      <4>2. ASSUME NEW m \in DOMAIN x.hpds, Covers(x.hpds[m], d, ref, a)
            PROVE  Carried(instanceMap', local', d, ref, a)
        <5>1. local'[t] = x
          BY <1>1, <1>5
        <5>2. m \in DOMAIN local'[t].hpds /\ Covers(local'[t].hpds[m], d, ref, a)
          BY <4>2, <5>1
        <5> QED
          BY <5>2, Zenon DEF Carried
      <4> QED
        BY <1>9, <3>1, <4>1, <4>2
    <3> QED
      BY <1>1, <1>5, <1>7, <2>2, <3>1, CarriedOn
  <2>4. Complete(symbolDrivers, instanceMap, local, moving, undone, applied)
    BY <1>13
  <2>5. \A d \in moving : Spread(symbolDrivers, local', moving, d)
    BY DEF Spread
  <2> HIDE DEF moving
  <2>6. Complete(symbolDrivers, instanceMap', local', moving, undone, applied)
    BY <2>1, <2>2, <2>3, <2>4, <2>5, Typed, CompleteKept
  <2> QED
    BY <1>6, <2>6 DEF moving
<1>18. PhasesInv'
  <2>1. local[t] # Idle
    BY <1>1 DEF Idle
  <2>2. UNCHANGED <<undone, phase, copy>>
    BY <1>6
  <2> QED
    BY <1>1, <1>5, <1>13, <2>1, <2>2, PhasesKept
<1> QED
  BY <1>6, <1>13, <1>16, <1>17, <1>18 DEF DriversInv, Initialized

LEMMA NoteNonCanonicalInstanceDrivers ==
    ASSUME IndInv, IndInv', DriversInv, NEW t \in Threads,
           NoteNonCanonicalInstance(t)
    PROVE  DriversInv'
<1>1. PICK i \in undone.instances : NoteNonCanonicalInstance(t)!3!(i)
  BY DEF NoteNonCanonicalInstance
<1>2. /\ local[t].queue = <<>> /\ local[t].hpds = <<>> /\ i \in Instances
      /\ UNCHANGED <<symbolDrivers, indirectDrivers, diags, phase, copy, applied>>
      /\ phase = "analyze"
      /\ local \in [Threads -> Positions] /\ local' \in [Threads -> Positions]
  BY DEF NoteNonCanonicalInstance, Idle, IndInv, TypeOK, Positions
<1>3. PICK b \in Bodies : b = BodyOf[i]
  BY <1>2, InstancesOK
<1>4. PICK x : local' = [local EXCEPT ![t] = x] /\ x.queue = <<>> /\ x.hpds = <<>>
  <2>1. PICK y : y = [queue |-> <<>>, hpds |-> <<>>,
                      applies |-> {b} \X (1 .. Len(instanceMap[b].hier))
                                      \X {Len(instanceMap[b].inst) + 1}]
    OBVIOUS
  <2>2. local' = [local EXCEPT ![t] = y]
    BY <1>1, <1>3, <2>1
  <2>3. y.queue = <<>> /\ y.hpds = <<>>
    BY <2>1
  <2> QED
    BY <2>2, <2>3
<1>5. /\ undone'.calls = undone.calls /\ undone'.instances = undone.instances \ {i}
      /\ instanceMap' = [instanceMap EXCEPT ![b] = [hier |-> @.hier, inst |-> Append(@.inst, i)]]
  BY <1>1, <1>3 DEF IndInv, TypeOK
<1>6. x \in Positions
  BY <1>2, <1>4
<1>7. PICK inst : inst = Append(instanceMap[b].inst, i)
  OBVIOUS
<1>8. /\ instanceMap'[b].inst = inst /\ instanceMap'[b].hier = instanceMap[b].hier
      /\ \A a \in Bodies \ {b} : instanceMap'[a] = instanceMap[a]
  BY <1>5, <1>7 DEF IndInv, TypeOK
<1>9. /\ \A n \in DOMAIN instanceMap[b].inst : n \in DOMAIN inst /\ inst[n] = instanceMap[b].inst[n]
      /\ \E n \in DOMAIN inst : inst[n] = i
      /\ \A n \in DOMAIN inst : n \in DOMAIN instanceMap[b].inst \/ inst[n] = i
  <2>1. PICK old \in Seq(Instances) : old = instanceMap[b].inst
    BY Typed
  <2>2. /\ \A n \in DOMAIN old : n \in DOMAIN inst /\ inst[n] = old[n]
        /\ \E n \in DOMAIN inst : inst[n] = i
        /\ \A n \in DOMAIN inst : n \in DOMAIN old \/ inst[n] = i
    BY <1>2, <1>7, <2>1, Appended
  <2> QED
    BY <2>1, <2>2
<1>10. /\ Sound(symbolDrivers, instanceMap, local, indirectDrivers \cup copy)
       /\ Initialized(symbolDrivers) /\ PhasesInv
       /\ Complete(symbolDrivers, instanceMap, local, indirectDrivers \cup copy, undone, applied)
  BY DEF DriversInv
<1>11. Sound(symbolDrivers', instanceMap', local', (indirectDrivers \cup copy)')
  <2>1. SoundPosition(x)
    <3>1. (\A n \in DOMAIN x.queue : FALSE) /\ \A n \in DOMAIN x.hpds : FALSE
      BY <1>4
    <3> QED
      BY <3>1, Zenon DEF SoundPosition
  <2>2. ASSUME NEW a \in Bodies, SoundState(a, instanceMap[a]) PROVE SoundState(a, instanceMap'[a])
    <3>1. CASE a = b
      BY <1>3, <1>8, <1>9, <2>2, <3>1 DEF SoundState
    <3>2. CASE a # b
      BY <1>8, <2>2, <3>2
    <3> QED
      BY <3>1, <3>2
  <2>3. Sound(symbolDrivers, instanceMap', local', indirectDrivers \cup copy)
    BY <1>2, <1>4, <1>6, <1>10, <2>1, <2>2, SoundMoves
  <2> QED
    BY <1>2, <2>3
<1>12. Complete(symbolDrivers', instanceMap', local', (indirectDrivers \cup copy)', undone', applied')
  <2> DEFINE moving == indirectDrivers \cup copy
  <2>1. \A e \in ValueDrivers : Reached(symbolDrivers, local, e) => Reached(symbolDrivers, local', e)
    <3>1. QueueMoves(symbolDrivers, local[t], x)
      BY <1>2 DEF QueueMoves
    <3> QED
      BY <1>2, <1>4, <1>6, <3>1, ReachedMoves
  <2>2. \A a \in Bodies :
            /\ \A k \in DOMAIN instanceMap[a].hier :
                   k \in DOMAIN instanceMap'[a].hier /\ instanceMap'[a].hier[k] = instanceMap[a].hier[k]
            /\ \A k \in DOMAIN instanceMap[a].inst :
                   k \in DOMAIN instanceMap'[a].inst /\ instanceMap'[a].inst[k] = instanceMap[a].inst[k]
    <3> TAKE a \in Bodies
    <3>1. CASE a = b
      BY <1>8, <1>9, <3>1
    <3>2. CASE a # b
      BY <1>8, <3>2
    <3> QED
      BY <3>1, <3>2
  <2>3. \A d, ref : \A a \in Bodies : Carried(instanceMap, local, d, ref, a)
                                        => Carried(instanceMap', local', d, ref, a)
    <3>1. \A n \in DOMAIN local[t].hpds : FALSE
      BY <1>2
    <3> QED
      BY <1>2, <1>4, <1>6, <2>2, <3>1, CarriedOn
  <2>4. Complete(symbolDrivers, instanceMap, local, moving, undone, applied)
    BY <1>10
  <2>5. \A d \in moving : Spread(symbolDrivers, local', moving, d)
    BY DEF Spread
  <2>6. \A j \in Instances \ undone'.instances : j \in undone.instances =>
            \E k \in DOMAIN instanceMap'[BodyOf[j]].inst : instanceMap'[BodyOf[j]].inst[k] = j
    <3>1. \A j \in Instances \ undone'.instances : j \in undone.instances => j = i
      BY <1>5
    <3> QED
      BY <1>3, <1>8, <1>9, <3>1
  <2>7. \A c \in AddCalls \ undone'.calls :
            c \in undone.calls => \A n \in DOMAIN c : Reached(symbolDrivers, local', c[n])
    BY <1>5
  <2> HIDE DEF moving
  <2>8. Complete(symbolDrivers, instanceMap', local', moving, undone', applied)
    BY <2>1, <2>2, <2>3, <2>4, <2>5, <2>6, <2>7, Typed, CompleteKept, SMTT(30)
  <2> QED
    BY <1>2, <2>8 DEF moving
<1>13. PhasesInv'
  BY <1>2, <1>10 DEF PhasesInv
<1> QED
  BY <1>2, <1>10, <1>11, <1>12, <1>13 DEF DriversInv, Initialized

LEMMA SideEffectHasNone ==
    ASSUME NEW d, NEW i, NEW ref, NEW b
    PROVE  ~Effect(SideEffect(d, i), ref, b)
<1>1. "FromSideEffect" \in SideEffect(d, i).flags
  BY DEF SideEffect
<1>2. HierPortDrivers(SideEffect(d, i)) = <<>>
  BY <1>1 DEF HierPortDrivers
<1>3. \A n \in DOMAIN HierPortDrivers(SideEffect(d, i)) : FALSE
  BY <1>2
<1> QED
  BY <1>3, Zenon DEF Effect

LEMMA ApplyInstanceSideEffectDrivers ==
    ASSUME IndInv, IndInv', DriversInv, NEW t \in Threads,
           ApplyInstanceSideEffect(t)
    PROVE  DriversInv'
<1>1. PICK p \in local[t].applies : ApplyInstanceSideEffect(t)!(p)
  BY DEF ApplyInstanceSideEffect
<1>2. PICK b \in Bodies : \E k \in 1 .. Len(instanceMap[b].hier) :
          \E j \in 1 .. Len(instanceMap[b].inst) : p = <<b, k, j>>
  <2>1. p \in AllPairs
    BY DEF IndInv, PairsMeetOnce
  <2> QED
    BY <2>1 DEF AllPairs, PairsIn
<1>3. PICK k \in 1 .. Len(instanceMap[b].hier), j \in 1 .. Len(instanceMap[b].inst) :
          p = <<b, k, j>>
  BY <1>2
<1>4. p[1] = b /\ p[2] = k /\ p[3] = j
  BY <1>3
<1>5. k \in DOMAIN instanceMap[b].hier /\ j \in DOMAIN instanceMap[b].inst
  BY Typed
<1>6. PICK h \in HierPortDriverType, i \in Instances :
          h = instanceMap[b].hier[k] /\ i = instanceMap[b].inst[j]
  <2>1. instanceMap[b].hier \in Seq(HierPortDriverType) /\ instanceMap[b].inst \in Seq(Instances)
    BY Typed
  <2> QED
    BY <1>5, <2>1
<1>7. PICK d : d = SideEffect(h.driver, i)
  OBVIOUS
<1>8. PICK x : /\ local' = [local EXCEPT ![t] = x]
               /\ x.queue = local[t].queue /\ x.hpds = local[t].hpds
  <2>1. PICK y : y = [queue |-> local[t].queue, hpds |-> local[t].hpds,
                      applies |-> local[t].applies \ {p}]
    OBVIOUS
  <2>2. local' = [local EXCEPT ![t] = y]
    BY <1>1, <2>1
  <2>3. y.queue = local[t].queue /\ y.hpds = local[t].hpds
    BY <2>1
  <2> QED
    BY <2>2, <2>3
<1>9. /\ IF d.sym = NoSymbol THEN UNCHANGED <<symbolDrivers, indirectDrivers, diags>>
         ELSE IF h.ref THEN AddDriver(d)
         ELSE indirectDrivers' = indirectDrivers \cup {d} /\ UNCHANGED <<symbolDrivers, diags>>
      /\ applied' = applied \cup {p}
      /\ UNCHANGED <<instanceMap, undone, phase, copy>>
  BY <1>1, <1>4, <1>6, <1>7
<1>10. /\ local \in [Threads -> Positions] /\ local' \in [Threads -> Positions]
       /\ x \in Positions /\ local[t] \in Positions
  BY <1>8 DEF IndInv, TypeOK, Positions
<1>11. /\ Sound(symbolDrivers, instanceMap, local, indirectDrivers \cup copy)
       /\ Initialized(symbolDrivers) /\ PhasesInv
       /\ Complete(symbolDrivers, instanceMap, local, indirectDrivers \cup copy, undone, applied)
  BY DEF DriversInv
<1>12. d.sym # NoSymbol => <<h.ref, d>> \in ImpliedItems
  <2>1. SoundState(b, instanceMap[b])
    BY <1>11, Zenon DEF Sound
  <2>2. Traced(h, b) /\ BodyOf[i] = b
    BY <1>5, <1>6, <2>1 DEF SoundState
  <2>3. Traced(h, BodyOf[i])
    BY <2>2
  <2> QED
    BY <1>7, <2>3, EffectImplied, Zenon
<1>13. d.sym # NoSymbol => d \in RealDrivers /\ d.sym \in DOMAIN Symbols
  <2>1. <<h.ref, d>> \in ImpliedItems => d \in RealDrivers
    BY ImpliedTyped
  <2> QED
    BY <1>12, <2>1 DEF RealDrivers, ValueDrivers
<1>14. h.ref \in BOOLEAN
  BY DEF HierPortDriverType
<1>15. /\ \A s \in DOMAIN Symbols : symbolDrivers[s] \subseteq symbolDrivers'[s]
       /\ \A s \in DOMAIN Symbols : \A e \in symbolDrivers'[s] :
              e \notin symbolDrivers[s] => \/ e = InitializerDriver(s)
                                           \/ e = d /\ <<TRUE, d>> \in ImpliedItems
       /\ indirectDrivers \subseteq indirectDrivers'
       /\ \A e \in indirectDrivers' : e \notin indirectDrivers => Moves(e)
       /\ \A s \in DOMAIN Symbols : d \in symbolDrivers'[s] /\ d \notin symbolDrivers[s] =>
              (IsIndirect(s) => d \in indirectDrivers')
       /\ d.sym # NoSymbol => IF h.ref THEN d \in symbolDrivers'[d.sym]
                              ELSE d \in indirectDrivers'
       /\ Initialized(symbolDrivers')
  <2>1. CASE d.sym = NoSymbol
    BY <1>9, <1>11, <2>1 DEF Initialized
  <2>2. CASE d.sym # NoSymbol /\ h.ref
    <3>1. /\ \A s \in DOMAIN Symbols : symbolDrivers[s] \subseteq symbolDrivers'[s]
          /\ d \in symbolDrivers'[d.sym]
          /\ \A s \in DOMAIN Symbols : \A e \in symbolDrivers'[s] :
                 e \notin symbolDrivers[s] => e = InitializerDriver(s) \/ e = d
          /\ indirectDrivers \subseteq indirectDrivers'
          /\ \A e \in indirectDrivers' : e \notin indirectDrivers => e = d
          /\ indirectDrivers' # indirectDrivers => IsIndirect(d.sym)
          /\ IsIndirect(d.sym) => d \in indirectDrivers'
          /\ Initialized(symbolDrivers')
      BY <1>9, <1>11, <1>13, <2>2, AddDriverSound DEF IndInv
    <3>2. <<TRUE, d>> \in ImpliedItems
      <4>1. h.ref = TRUE
        BY <1>14, <2>2
      <4> QED
        BY <1>12, <2>2, <4>1, Zenon
    <3>3. IsIndirect(d.sym) => Moves(d)
      BY <3>2, Zenon DEF Moves
    <3>4. \A s \in DOMAIN Symbols : d \in symbolDrivers'[s] => s = d.sym
      BY DEF IndInv, TypeOK
    <3> QED
      BY <2>2, <3>1, <3>2, <3>3, <3>4
  <2>3. CASE d.sym # NoSymbol /\ ~h.ref
    <3>1. <<FALSE, d>> \in ImpliedItems
      <4>1. h.ref = FALSE
        BY <1>14, <2>3
      <4> QED
        BY <1>12, <2>3, <4>1, Zenon
    <3>2. Moves(d)
      BY <3>1, Zenon DEF Moves
    <3>3. symbolDrivers' = symbolDrivers /\ indirectDrivers' = indirectDrivers \cup {d}
      BY <1>9, <2>3
    <3> QED
      BY <1>11, <2>3, <3>2, <3>3
  <2> QED
    BY <2>1, <2>2, <2>3
<1>16. Sound(symbolDrivers', instanceMap', local', (indirectDrivers \cup copy)')
  <2>1. SoundPosition(x)
    <3>1. SoundPosition(local[t])
      BY <1>11, Zenon DEF Sound
    <3> QED
      BY <1>8, <3>1, Zenon DEF SoundPosition
  <2>2. \A e \in indirectDrivers' \cup copy : e \notin indirectDrivers \cup copy => Moves(e)
    BY <1>15
  <2>3. \A s \in DOMAIN Symbols : \A e \in symbolDrivers'[s] :
            e \notin symbolDrivers[s] => e = InitializerDriver(s) \/ <<TRUE, e>> \in ImpliedItems
    BY <1>15, Zenon
  <2>4. Sound(symbolDrivers', instanceMap, local', indirectDrivers' \cup copy)
    BY <1>8, <1>10, <1>11, <2>1, <2>2, <2>3, SoundMoves
  <2> QED
    BY <1>9, <2>4
<1>17. Complete(symbolDrivers', instanceMap', local', (indirectDrivers \cup copy)', undone', applied')
  <2> DEFINE moving == indirectDrivers \cup copy
             moving2 == indirectDrivers' \cup copy
  <2>1. \A e \in ValueDrivers : Reached(symbolDrivers, local, e) => Reached(symbolDrivers', local', e)
    <3>1. QueueMoves(symbolDrivers', local[t], x)
      BY <1>8 DEF QueueMoves
    <3>2. \A s \in DOMAIN Symbols : symbolDrivers[s] \subseteq symbolDrivers'[s]
      BY <1>15
    <3> QED
      BY <1>8, <1>10, <3>1, <3>2, ReachedMoves
  <2>2. \A e, ref : \A a \in Bodies : Carried(instanceMap, local, e, ref, a)
                                        => Carried(instanceMap, local', e, ref, a)
    <3>1. local'[t].hpds = local[t].hpds
      BY <1>8, <1>10
    <3>2. ASSUME NEW e, NEW ref, NEW a \in Bodies,
                 NEW n \in DOMAIN local[t].hpds, Covers(local[t].hpds[n], e, ref, a)
          PROVE  Carried(instanceMap, local', e, ref, a)
      <4>1. n \in DOMAIN local'[t].hpds /\ Covers(local'[t].hpds[n], e, ref, a)
        BY <3>1, <3>2
      <4> QED
        BY <4>1, Zenon DEF Carried
    <3> QED
      BY <1>8, <1>10, <3>2, CarriedOn
  <2>3. Complete(symbolDrivers, instanceMap, local, moving, undone, applied)
    BY <1>11
  <2>4. \A e \in moving : Spread(symbolDrivers', local', moving2, e)
    BY <1>15 DEF Spread
  <2>5. \A s \in DOMAIN Symbols : \A e \in symbolDrivers'[s] \ {InitializerDriver(s)} :
            e \notin symbolDrivers[s] =>
                /\ IsIndirect(s) => Spread(symbolDrivers', local', moving2, e)
                /\ \A ref \in BOOLEAN, a \in Bodies :
                       Effect(e, ref, a) => Carried(instanceMap, local', e, ref, a)
    <3> SUFFICES ASSUME NEW s \in DOMAIN Symbols, NEW e \in symbolDrivers'[s] \ {InitializerDriver(s)},
                        e \notin symbolDrivers[s]
                 PROVE  /\ IsIndirect(s) => Spread(symbolDrivers', local', moving2, e)
                        /\ \A ref \in BOOLEAN, a \in Bodies :
                               Effect(e, ref, a) => Carried(instanceMap, local', e, ref, a)
      OBVIOUS
    <3>1. e = d
      BY <1>15
    <3>2. \A ref, a : ~Effect(e, ref, a)
      BY <1>7, <3>1, SideEffectHasNone
    <3>3. IsIndirect(s) => e \in moving2
      BY <1>15, <3>1
    <3>4. IsIndirect(s) => Spread(symbolDrivers', local', moving2, e)
      BY <3>3, Zenon DEF Spread
    <3> QED
      BY <3>2, <3>4
  <2>6. symbolDrivers' \in [DOMAIN Symbols -> SUBSET ValueDrivers]
    BY DEF IndInv, TypeOK
  <2>7. Applied(symbolDrivers', local', moving2, h, i)
    <3>1. d.sym # NoSymbol => IF h.ref THEN d \in symbolDrivers'[d.sym] ELSE d \in moving2
      BY <1>15
    <3>2. d \in moving2 => Spread(symbolDrivers', local', moving2, d)
      BY Zenon DEF Spread
    <3> HIDE DEF moving2
    <3> QED
      BY <1>7, <3>1, <3>2 DEF Applied
  <2>8. \A r \in applied' : r \notin applied =>
            /\ r[1] \in Bodies
            /\ r[2] \in DOMAIN instanceMap[r[1]].hier
            /\ r[3] \in DOMAIN instanceMap[r[1]].inst
            /\ Applied(symbolDrivers', local', moving2,
                       instanceMap[r[1]].hier[r[2]], instanceMap[r[1]].inst[r[3]])
    <3> SUFFICES ASSUME NEW r \in applied', r \notin applied
                 PROVE  /\ r[1] \in Bodies
                        /\ r[2] \in DOMAIN instanceMap[r[1]].hier
                        /\ r[3] \in DOMAIN instanceMap[r[1]].inst
                        /\ Applied(symbolDrivers', local', moving2,
                                   instanceMap[r[1]].hier[r[2]], instanceMap[r[1]].inst[r[3]])
      OBVIOUS
    <3>1. r[1] = b /\ r[2] = k /\ r[3] = j
      BY <1>4, <1>9
    <3> HIDE DEF moving2
    <3> QED
      BY <1>5, <1>6, <2>7, <3>1
  <2> HIDE DEF moving, moving2
  <2>9. \A s \in DOMAIN Symbols : symbolDrivers[s] \subseteq symbolDrivers'[s]
    BY <1>15
  <2>10. Complete(symbolDrivers', instanceMap, local', moving2, undone, applied')
    BY <2>1, <2>2, <2>3, <2>4, <2>5, <2>6, <2>8, <2>9, Typed, CompleteKept
  <2> QED
    BY <1>9, <2>10 DEF moving2
<1>18. PhasesInv'
  <2>1. local[t] # Idle
    BY <1>1 DEF Idle
  <2>2. UNCHANGED <<undone, phase, copy>>
    BY <1>9
  <2> QED
    BY <1>8, <1>10, <1>11, <2>1, <2>2, PhasesKept
<1> QED
  BY <1>15, <1>16, <1>17, <1>18 DEF DriversInv

LEMMA PropagateItemDrivers ==
    ASSUME IndInv, IndInv', DriversInv, PropagateItem
    PROVE  DriversInv'
<1>1. PICK s \in {d.sym : d \in copy} : PropagateItem!3!(s)
  BY DEF PropagateItem
<1>2. PICK originals : originals = {d \in copy : d.sym = s}
  OBVIOUS
<1>3. PICK new : new = UNION {ExpandIndirectRefs(d) : d \in originals}
  OBVIOUS
<1>4. PICK queue \in [1 .. Cardinality(new) -> new] :
          /\ copy' = copy \ originals
          /\ {queue[n] : n \in DOMAIN queue} = new
          /\ local' = [local EXCEPT ![Main] = [queue |-> queue, hpds |-> <<>>, applies |-> {}]]
  BY <1>1, <1>2, <1>3
<1>5. PICK x : /\ local' = [local EXCEPT ![Main] = x]
               /\ x.queue = queue /\ x.hpds = <<>>
  <2>1. PICK y : y = [queue |-> queue, hpds |-> <<>>, applies |-> {}]
    OBVIOUS
  <2>2. local' = [local EXCEPT ![Main] = y]
    BY <1>4, <2>1
  <2>3. y.queue = queue /\ y.hpds = <<>>
    BY <2>1
  <2> QED
    BY <2>2, <2>3
<1>6. /\ local[Main].queue = <<>> /\ local[Main].hpds = <<>> /\ Main \in Threads
      /\ UNCHANGED <<symbolDrivers, instanceMap, indirectDrivers, diags, undone, phase, applied>>
      /\ phase = "propagate"
      /\ local \in [Threads -> Positions] /\ local' \in [Threads -> Positions]
      /\ copy \subseteq ValueDrivers
  BY MainOK DEF PropagateItem, Idle, IndInv, TypeOK, Positions
<1>7. x \in Positions
  BY <1>5, <1>6
<1>8. /\ Sound(symbolDrivers, instanceMap, local, indirectDrivers \cup copy)
      /\ Initialized(symbolDrivers) /\ PhasesInv
      /\ Complete(symbolDrivers, instanceMap, local, indirectDrivers \cup copy, undone, applied)
  BY DEF DriversInv
<1>9. Sound(symbolDrivers', instanceMap', local', (indirectDrivers \cup copy)')
  <2>1. ASSUME NEW n \in DOMAIN queue PROVE <<TRUE, queue[n]>> \in ImpliedItems
    <3>1. PICK d \in originals : queue[n] \in ExpandIndirectRefs(d)
      BY <1>3, <1>4
    <3>2. d \in indirectDrivers \cup copy
      BY <1>2
    <3>3. Moves(d)
      BY <1>8, <3>2, Zenon DEF Sound
    <3> QED
      BY <3>1, <3>3, ExpansionImplied, Zenon
  <2>2. SoundPosition(x)
    <3>1. \A n \in DOMAIN x.hpds : FALSE
      BY <1>5
    <3> QED
      BY <1>5, <2>1, <3>1, Zenon DEF SoundPosition
  <2>3. \A d \in indirectDrivers \cup copy' : d \notin indirectDrivers \cup copy => Moves(d)
    BY <1>4
  <2>4. Sound(symbolDrivers, instanceMap, local', indirectDrivers \cup copy')
    BY <1>5, <1>6, <1>7, <1>8, <2>2, <2>3, SoundMoves
  <2> QED
    BY <1>6, <2>4
<1>10. Complete(symbolDrivers', instanceMap', local', (indirectDrivers \cup copy)', undone', applied')
  <2> DEFINE moving == indirectDrivers \cup copy
             moving2 == indirectDrivers \cup copy'
  <2>1. \A e \in ValueDrivers : Reached(symbolDrivers, local, e) => Reached(symbolDrivers, local', e)
    <3>1. QueueMoves(symbolDrivers, local[Main], x)
      BY <1>6 DEF QueueMoves
    <3> QED
      BY <1>5, <1>6, <1>7, <3>1, ReachedMoves
  <2>2. \A d, ref : \A a \in Bodies : Carried(instanceMap, local, d, ref, a)
                                        => Carried(instanceMap, local', d, ref, a)
    <3>1. \A n \in DOMAIN local[Main].hpds : FALSE
      BY <1>6
    <3> QED
      BY <1>5, <1>6, <1>7, <3>1, CarriedOn
  <2>3. Complete(symbolDrivers, instanceMap, local, moving, undone, applied)
    BY <1>8
  <2>4. ASSUME NEW d \in moving PROVE Spread(symbolDrivers, local', moving2, d)
    <3>1. CASE d \in moving2
      BY <3>1, Zenon DEF Spread
    <3>2. CASE d \notin moving2
      <4>1. d \in originals
        BY <1>4, <3>2
      <4>2. ASSUME NEW e \in ExpandIndirectRefs(d) PROVE Reached(symbolDrivers, local', e)
        <5>1. e \in new
          BY <1>3, <4>1
        <5>2. PICK n \in DOMAIN queue : queue[n] = e
          BY <1>4, <5>1
        <5>3. local'[Main].queue = queue
          BY <1>5, <1>6
        <5> QED
          BY <1>6, <5>2, <5>3 DEF Reached
      <4> QED
        BY <4>2, Zenon DEF Spread
    <3> QED
      BY <3>1, <3>2
  <2> HIDE DEF moving, moving2
  <2>5. Complete(symbolDrivers, instanceMap, local', moving2, undone, applied)
    BY <2>1, <2>2, <2>3, <2>4, Typed, CompleteKept
  <2> QED
    BY <1>6, <2>5 DEF moving2
<1>11. PhasesInv'
  BY <1>5, <1>6, <1>8 DEF PhasesInv
<1> QED
  BY <1>6, <1>8, <1>9, <1>10, <1>11 DEF DriversInv, Initialized

LEMMA InitDrivers == Init => DriversInv
<1> SUFFICES ASSUME Init PROVE DriversInv
  OBVIOUS
<1>1. /\ \A s \in DOMAIN Symbols : symbolDrivers[s] = {}
      /\ \A b \in Bodies : instanceMap[b].hier = <<>> /\ instanceMap[b].inst = <<>>
      /\ indirectDrivers \cup copy = {} /\ copy = {} /\ applied = {} /\ phase = "analyze"
      /\ undone.calls = AddCalls /\ undone.instances = Instances
      /\ \A t \in Threads : local[t].queue = <<>> /\ local[t].hpds = <<>>
  BY DEF Init, Idle
<1>2. Sound(symbolDrivers, instanceMap, local, indirectDrivers \cup copy)
  <2>1. ASSUME NEW t \in Threads PROVE SoundPosition(local[t])
    <3>1. (\A n \in DOMAIN local[t].queue : FALSE) /\ \A n \in DOMAIN local[t].hpds : FALSE
      BY <1>1
    <3> QED
      BY <3>1, Zenon DEF SoundPosition
  <2>2. \A b \in Bodies : SoundState(b, instanceMap[b])
    BY <1>1 DEF SoundState
  <2>3. (\A s \in DOMAIN Symbols : \A d \in symbolDrivers[s] : FALSE)
        /\ \A d \in indirectDrivers \cup copy : FALSE
    BY <1>1
  <2> QED
    BY <2>1, <2>2, <2>3, Zenon DEF Sound
<1>3. Complete(symbolDrivers, instanceMap, local, indirectDrivers \cup copy, undone, applied)
  <2>1. DriversFollowed(symbolDrivers, instanceMap, local, indirectDrivers \cup copy)
    BY <1>1 DEF DriversFollowed
  <2> QED
    BY <1>1, <2>1 DEF Complete, CallsFollowed, InstancesFollowed, PairsFollowed
<1> QED
  BY <1>1, <1>2, <1>3 DEF DriversInv, Initialized, PhasesInv

LEMMA NextDrivers ==
    ASSUME IndInv, IndInv', DriversInv, [Next]_vars
    PROVE  DriversInv'
<1>0. /\ Sound(symbolDrivers, instanceMap, local, indirectDrivers \cup copy)
      /\ Initialized(symbolDrivers) /\ PhasesInv
      /\ Complete(symbolDrivers, instanceMap, local, indirectDrivers \cup copy, undone, applied)
  BY DEF DriversInv
<1>1. ASSUME NEW t \in Threads, Step(t)
      PROVE  DriversInv'
  BY <1>1, StartAddDrivers, AddNextDrivers, NoteHierPortDriverDrivers,
     NoteNonCanonicalInstanceDrivers, ApplyInstanceSideEffectDrivers DEF Step
<1>2. ASSUME UNCHANGED <<symbolDrivers, instanceMap, undone, local, applied>>,
             (indirectDrivers \cup copy)' = indirectDrivers \cup copy, PhasesInv'
      PROVE  DriversInv'
  BY <1>0, <1>2 DEF DriversInv
<1>3. CASE BeginPropagate
  <2>1. PhasesInv'
    BY <1>0, <1>3 DEF BeginPropagate, PhasesInv, AllIdle
  <2> QED
    BY <1>2, <1>3, <2>1 DEF BeginPropagate
<1>4. CASE SwapIndirect
  <2>1. copy = {} /\ AllIdle
    BY <1>0, <1>4 DEF SwapIndirect, PhasesInv
  <2>2. (indirectDrivers \cup copy)' = indirectDrivers \cup copy
    BY <1>4, <2>1 DEF SwapIndirect
  <2>3. PhasesInv'
    BY <1>0, <1>4, <2>1 DEF SwapIndirect, PhasesInv, AllIdle
  <2> QED
    BY <1>2, <1>4, <2>2, <2>3 DEF SwapIndirect
<1>5. CASE EndOfCopy
  <2>1. AllIdle
    BY <1>0, <1>5 DEF EndOfCopy, PhasesInv, AllIdle
  <2>2. PhasesInv'
    BY <1>0, <1>5, <2>1 DEF EndOfCopy, PhasesInv, AllIdle
  <2> QED
    BY <1>2, <1>5, <2>2 DEF EndOfCopy
<1>6. CASE UNCHANGED vars
  <2>1. PhasesInv'
    BY <1>0, <1>6 DEF vars, PhasesInv, AllIdle
  <2> QED
    BY <1>2, <1>6, <2>1 DEF vars
<1> QED
  BY <1>1, <1>3, <1>4, <1>5, <1>6, PropagateItemDrivers DEF Next, Propagate, Done

-------------------------------------------------------------------------------
(***************************************************************************)
(* What is in the tracker when everything is done.                         *)
(***************************************************************************)
Present ==
    {x \in BOOLEAN \X RealDrivers :
        IF x[1] THEN x[2] \in symbolDrivers[x[2].sym]
        ELSE \A e \in ExpandIndirectRefs(x[2]) : e \in symbolDrivers[e.sym]}

LEMMA PresentDrivers ==
    ASSUME NEW d \in RealDrivers
    PROVE  /\ <<TRUE, d>> \in Present <=> d \in symbolDrivers[d.sym]
           /\ <<FALSE, d>> \in Present <=>
                  \A e \in ExpandIndirectRefs(d) : e \in symbolDrivers[e.sym]
<1>1. PICK x : x = <<TRUE, d>>
  OBVIOUS
<1>2. PICK y : y = <<FALSE, d>>
  OBVIOUS
<1>3. /\ x \in BOOLEAN \X RealDrivers /\ x[1] /\ x[2] = d
      /\ y \in BOOLEAN \X RealDrivers /\ ~y[1] /\ y[2] = d
  BY <1>1, <1>2
<1>4. x \in Present <=> d \in symbolDrivers[d.sym]
  BY <1>3 DEF Present
<1>5. y \in Present <=> \A e \in ExpandIndirectRefs(d) : e \in symbolDrivers[e.sym]
  BY <1>3 DEF Present
<1> QED
  BY <1>1, <1>2, <1>4, <1>5, Zenon

LEMMA DoneMeans ==
    ASSUME IndInv, DriversInv, phase = "done"
    PROVE  /\ \A e : Reached(symbolDrivers, local, e) => e \in symbolDrivers[e.sym]
           /\ \A d : Spread(symbolDrivers, local, indirectDrivers \cup copy, d) =>
                         \A e \in ExpandIndirectRefs(d) : e \in symbolDrivers[e.sym]
           /\ \A d, ref, b : Carried(instanceMap, local, d, ref, b) =>
                  \E k \in DOMAIN instanceMap[b].hier :
                      instanceMap[b].hier[k].driver = d /\ instanceMap[b].hier[k].ref = ref
           /\ undone.calls = {} /\ undone.instances = {}
           /\ AllPairs = applied
<1>1. /\ indirectDrivers \cup copy = {} /\ undone.calls = {} /\ undone.instances = {}
      /\ \A t \in Threads : local[t] = Idle
  BY DEF DriversInv, PhasesInv, AllIdle
<1>2. \A t \in Threads : local[t].queue = <<>> /\ local[t].hpds = <<>> /\ local[t].applies = {}
  BY <1>1 DEF Idle
<1>3. \A e : Reached(symbolDrivers, local, e) => e \in symbolDrivers[e.sym]
  BY <1>2 DEF Reached
<1>4. ASSUME NEW d, NEW ref, NEW b, Carried(instanceMap, local, d, ref, b)
      PROVE  \E k \in DOMAIN instanceMap[b].hier :
                 instanceMap[b].hier[k].driver = d /\ instanceMap[b].hier[k].ref = ref
  <2>1. \A t \in Threads : \A n \in DOMAIN local[t].hpds : FALSE
    BY <1>2
  <2> QED
    BY <1>4, <2>1, Zenon DEF Carried
<1>5. AllPairs = applied
  BY <1>2 DEF IndInv, PairsMeetOnce
<1> QED
  BY <1>1, <1>3, <1>4, <1>5 DEF Spread

LEMMA PresentClosed ==
    ASSUME IndInv, DriversInv, phase = "done", NEW x \in Present
    PROVE  Consequences(x) \subseteq Present
<1> SUFFICES ASSUME NEW y \in Consequences(x) PROVE y \in Present
  OBVIOUS
<1>1. PICK kind \in BOOLEAN, d \in RealDrivers : x = <<kind, d>>
  BY DEF Present
<1>2. d \in ValueDrivers /\ d.sym \in DOMAIN Symbols /\ d # InitializerDriver(d.sym)
  BY DEF RealDrivers, ValueDrivers, InitializerDriver
<1>3. y \in BOOLEAN \X RealDrivers
  BY ConsequencesTyped DEF Present
<1>4. kind = TRUE => d \in symbolDrivers[d.sym]
  <2>1. ASSUME kind = TRUE PROVE <<TRUE, d>> \in Present
    BY <1>1, <2>1, Zenon
  <2> QED
    BY <2>1, PresentDrivers, Zenon
<1>5. Complete(symbolDrivers, instanceMap, local, indirectDrivers \cup copy, undone, applied)
  BY DEF DriversInv
<1>6. kind = TRUE =>
          /\ IsIndirect(d.sym) => Spread(symbolDrivers, local, indirectDrivers \cup copy, d)
          /\ \A ref \in BOOLEAN, b \in Bodies :
                 Effect(d, ref, b) => Carried(instanceMap, local, d, ref, b)
  BY <1>2, <1>4, <1>5 DEF Complete, DriversFollowed
<1>7. ASSUME kind = FALSE \/ IsIndirect(d.sym), NEW e \in ExpandIndirectRefs(d), y = <<TRUE, e>>
      PROVE  y \in Present
  <2>1. e \in RealDrivers
    BY <1>3, <1>7
  <2>2. e \in symbolDrivers[e.sym]
    <3>1. CASE kind = FALSE
      <4>1. <<FALSE, d>> \in Present
        BY <1>1, <3>1, Zenon
      <4> QED
        BY <1>7, <4>1, PresentDrivers, Zenon
    <3>2. CASE kind = TRUE
      <4>1. kind # FALSE
        BY <3>2
      <4>2. Spread(symbolDrivers, local, indirectDrivers \cup copy, d)
        BY <1>6, <1>7, <3>2, <4>1
      <4> QED
        BY <1>7, <4>2, DoneMeans, Zenon
    <3> QED
      BY <3>1, <3>2
  <2>3. <<TRUE, e>> \in Present
    BY <2>1, <2>2, PresentDrivers, Zenon
  <2> QED
    BY <1>7, <2>3, Zenon
<1>8. ASSUME kind = TRUE, NEW n \in DOMAIN HierPortDrivers(d), NEW i \in Instances,
             NEW q \in DOMAIN HierPortDrivers(d)[n].via,
             HierPortDrivers(d)[n].via[q] = BodyOf[i], SideEffect(d, i).sym # NoSymbol,
             y = <<HierPortDrivers(d)[n].ref, SideEffect(d, i)>>
      PROVE  y \in Present
  <2>1. PICK ref \in BOOLEAN : ref = HierPortDrivers(d)[n].ref
    BY <1>2, HierPortDriversOf DEF HierPortDriverType
  <2>2. PICK b \in Bodies : b = BodyOf[i]
    BY InstancesOK
  <2>3. Effect(d, ref, b)
    BY <1>8, <2>1, <2>2, Zenon DEF Effect
  <2>4. PICK k \in DOMAIN instanceMap[b].hier :
            instanceMap[b].hier[k].driver = d /\ instanceMap[b].hier[k].ref = ref
    <3>1. Carried(instanceMap, local, d, ref, b)
      BY <1>6, <1>8, <2>3
    <3>2. \A f, r, a : Carried(instanceMap, local, f, r, a) =>
              \E m \in DOMAIN instanceMap[a].hier :
                  instanceMap[a].hier[m].driver = f /\ instanceMap[a].hier[m].ref = r
      BY DoneMeans
    <3> QED
      BY <3>1, <3>2
  <2>5. PICK j \in DOMAIN instanceMap[b].inst : instanceMap[b].inst[j] = i
    BY <1>5, <2>2, DoneMeans DEF Complete, InstancesFollowed
  <2>6. PICK p : p = <<b, k, j>>
    OBVIOUS
  <2>7. p \in applied
    <3>1. k \in 1 .. Len(instanceMap[b].hier) /\ j \in 1 .. Len(instanceMap[b].inst)
      BY Typed
    <3>2. p \in AllPairs
      BY <2>6, <3>1 DEF AllPairs, PairsIn
    <3> QED
      BY <3>2, DoneMeans
  <2>8. Applied(symbolDrivers, local, indirectDrivers \cup copy,
                instanceMap[b].hier[k], instanceMap[b].inst[j])
    <3>1. p[1] = b /\ p[2] = k /\ p[3] = j
      BY <2>6
    <3> QED
      BY <1>5, <2>7, <3>1 DEF Complete, PairsFollowed
  <2>9. PICK e \in RealDrivers : e = SideEffect(d, i) /\ y = <<ref, e>> /\ e.sym # NoSymbol
    BY <1>3, <1>8, <2>1
  <2>10. IF ref THEN e \in symbolDrivers[e.sym]
         ELSE Spread(symbolDrivers, local, indirectDrivers \cup copy, e)
    <3>1. PICK h : h = instanceMap[b].hier[k] /\ h.driver = d /\ h.ref = ref
      BY <2>4
    <3>2. Applied(symbolDrivers, local, indirectDrivers \cup copy, h, i)
      BY <2>5, <2>8, <3>1
    <3> QED
      BY <2>9, <3>1, <3>2 DEF Applied
  <2>11. CASE ref = TRUE
    <3>1. e \in symbolDrivers[e.sym]
      BY <2>10, <2>11
    <3>2. <<TRUE, e>> \in Present
      BY <3>1, PresentDrivers, Zenon
    <3> QED
      BY <2>9, <2>11, <3>2, Zenon
  <2>12. CASE ref = FALSE
    <3>1. Spread(symbolDrivers, local, indirectDrivers \cup copy, e)
      BY <2>10, <2>12
    <3>2. \A f \in ExpandIndirectRefs(e) : f \in symbolDrivers[f.sym]
      BY <3>1, DoneMeans, Zenon
    <3>3. <<FALSE, e>> \in Present
      BY <3>2, PresentDrivers, Zenon
    <3> QED
      BY <2>9, <2>12, <3>3, Zenon
  <2> QED
    BY <2>11, <2>12
<1>9. y \in Consequences(<<kind, d>>)
  BY <1>1, Zenon
<1>10. d \in ValueDrivers
  BY <1>2
<1>11. \/ /\ kind = FALSE \/ IsIndirect(d.sym)
          /\ \E e \in ExpandIndirectRefs(d) : y = <<TRUE, e>>
       \/ /\ kind = TRUE
          /\ \E n \in DOMAIN HierPortDrivers(d) : \E i \in Instances :
                 /\ \E q \in DOMAIN HierPortDrivers(d)[n].via :
                        HierPortDrivers(d)[n].via[q] = BodyOf[i]
                 /\ SideEffect(d, i).sym # NoSymbol
                 /\ y = <<HierPortDrivers(d)[n].ref, SideEffect(d, i)>>
  BY <1>9, <1>10, ConsequenceKinds, Zenon
<1> QED
  BY <1>7, <1>8, <1>11, Zenon

LEMMA ImpliedPresent ==
    ASSUME IndInv, DriversInv, phase = "done"
    PROVE  ImpliedItems \subseteq Present
<1>1. Direct \subseteq Present
  <2> SUFFICES ASSUME NEW y \in Direct PROVE y \in Present
    OBVIOUS
  <2>1. PICK c \in AddCalls : y \in {<<TRUE, c[n]>> : n \in DOMAIN c}
    BY DEF Direct
  <2>2. PICK n \in DOMAIN c : y = <<TRUE, c[n]>>
    BY <2>1
  <2>3. PICK e \in RealDrivers : e = c[n] /\ y = <<TRUE, e>>
    BY <2>2, CallDrivers DEF RealDrivers
  <2>4. Reached(symbolDrivers, local, e)
    BY <2>3, DoneMeans DEF DriversInv, Complete, CallsFollowed
  <2>5. e \in symbolDrivers[e.sym]
    BY <2>4, DoneMeans, Zenon
  <2> QED
    BY <2>3, <2>5, PresentDrivers, Zenon
<1> QED
  BY <1>1, PresentClosed, ImpliedLeast

LEMMA FinalDriversReached ==
    ASSUME IndInv, DriversInv
    PROVE  FinalDriversImplied
<1> SUFFICES ASSUME phase = "done", NEW s \in DOMAIN Symbols
             PROVE  symbolDrivers[s] = ImpliedDrivers(s)
  BY DEF FinalDriversImplied
<1> DEFINE added == {x[2] : x \in {y \in ImpliedItems : y[1] /\ y[2].sym = s}}
<1>1. ASSUME NEW d, <<TRUE, d>> \in ImpliedItems, d.sym = s PROVE d \in added
  <2>1. PICK x \in ImpliedItems : x = <<TRUE, d>>
    BY <1>1, Zenon
  <2>2. x[1] /\ x[2] = d
    BY <2>1
  <2> QED
    BY <1>1, <2>2
<1>2. ASSUME NEW d \in added PROVE d \in symbolDrivers[s]
  <2>1. PICK x \in ImpliedItems : x[1] /\ x[2].sym = s /\ d = x[2]
    OBVIOUS
  <2>2. x \in Present
    BY ImpliedPresent
  <2> QED
    BY <2>1, <2>2 DEF Present
<1>3. /\ Sound(symbolDrivers, instanceMap, local, indirectDrivers \cup copy)
      /\ Initialized(symbolDrivers)
  BY DEF DriversInv
<1>4. ASSUME NEW d \in symbolDrivers[s], d # InitializerDriver(s) PROVE d \in added
  <2>1. <<TRUE, d>> \in ImpliedItems
    BY <1>3, <1>4, Zenon DEF Sound
  <2>2. d.sym = s
    BY Typed
  <2> QED
    BY <1>1, <2>1, <2>2
<1>5. ImpliedDrivers(s) =
          added \cup (IF added # {} /\ HasInitializer(s) THEN {InitializerDriver(s)} ELSE {})
  BY DEF ImpliedDrivers
<1> HIDE DEF added
<1>6. InitializerDriver(s) \in symbolDrivers[s] <=> added # {} /\ HasInitializer(s)
  <2>1. ASSUME InitializerDriver(s) \in symbolDrivers[s] PROVE added # {} /\ HasInitializer(s)
    BY <1>3, <1>4, <2>1 DEF Initialized
  <2>2. ASSUME added # {}, HasInitializer(s) PROVE InitializerDriver(s) \in symbolDrivers[s]
    BY <1>2, <1>3, <2>2 DEF Initialized
  <2> QED
    BY <2>1, <2>2
<1> QED
  BY <1>2, <1>4, <1>5, <1>6

(***************************************************************************)
(* The drivers of every symbol after the analysis are those the design     *)
(* implies, in whatever order the threads found drivers and instances: no  *)
(* driver, side effect or indirect driver is lost on the way to its        *)
(* symbol, and none comes from nowhere.                                    *)
(***************************************************************************)
THEOREM FinalDrivers == Spec => []FinalDriversImplied
<1>1. Init => DriversInv
  BY InitDrivers
<1>2. IndInv /\ IndInv' /\ DriversInv /\ [Next]_vars => DriversInv'
  BY NextDrivers
<1>3. IndInv /\ DriversInv => FinalDriversImplied
  BY FinalDriversReached
<1> QED
  BY <1>1, <1>2, <1>3, Inductive, PTL DEF Spec

(***************************************************************************)
(* Sharing bodies loses no driver, on any schedule, in a design where each *)
(* expression that drives a symbol when every instance is elaborated on    *)
(* its own is among the drivers that the design implies for that symbol.   *)
(***************************************************************************)
ElaborationImplied == \A x \in Elaboration : \E d \in ImpliedDrivers(x[2]) : d.id = x[1]

THEOREM InstancesDriven == Spec /\ ElaborationImplied => []InstancesDrive
<1>1. CASE ElaborationImplied
  <2>1. FinalDriversImplied => InstancesDrive
    BY <1>1, ElaborationOK DEF ElaborationImplied, FinalDriversImplied, InstancesDrive
  <2> QED
    BY <2>1, FinalDrivers, PTL
<1>2. CASE ~ElaborationImplied
  BY <1>2
<1> QED
  BY <1>1, <1>2
===============================================================================
