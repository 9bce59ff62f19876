----------------------------- MODULE DriverTracker -----------------------------
(***************************************************************************)
(* slang::analysis::DriverTracker: which expressions drive which symbols,  *)
(* collected by the analysis threads in whatever order they get there.     *)
(*                                                                         *)
(* A body that several instances share is analyzed once, for its canonical *)
(* instance.  A driver that leaves the body through an interface or ref    *)
(* port is a side effect that must be repeated for every other instance of *)
(* the body; both the drivers and the instances turn up at any time, on    *)
(* any thread.  Drivers of modports and ref ports are "indirect": once all *)
(* threads are done they are moved on to what the port is connected to.    *)
(*                                                                         *)
(* Each visit of an element of a concurrent map is one action.             *)
(*                                                                         *)
(* symbolDrivers   symbol -> the drivers in its interval map               *)
(* instanceMap     body -> InstanceDriverState, two vectors                *)
(* indirectDrivers drivers to propagate when the threads are done          *)
(* diags           what handleOverlap reported                             *)
(* undone          add() calls nobody has made, instances nobody has noted *)
(* local           a thread's position inside the tracker                  *)
(* phase, copy     propagateIndirectDrivers, which runs last               *)
(***************************************************************************)
EXTENDS Integers, Sequences, FiniteSets

CONSTANTS
    Threads,
    Main,           \* the thread that calls propagateIndirectDrivers
    DriverIds,      \* the expressions of the design that drive something
    Scopes,         \* the symbols that can contain a driver
    ProcedureKind,  \* procedural block -> its kind
    Subroutines,    \* the scopes that are tasks or functions
    Symbols,        \* symbol -> what addDriver asks about it
    Bodies,         \* canonical instance bodies
    BodyOf,         \* non-canonical instance -> canonical body
    AddCalls,       \* add() calls of the analysis: sequences of drivers
    Retarget,       \* <<symbol, instance>> -> symbol, or NoSymbol
    Expand,         \* symbol -> what it is connected to: [sym, via] records
    NoSymbol,
    Elaboration,    \* <<id, symbol>>: what drives what when no body is shared
    MaxDepth,       \* longest chain of ports and instances a driver takes
    AllowDupInitialDrivers

Instances == DOMAIN BodyOf

DriverKinds == {"Procedural", "Continuous"}

DriverFlags == {"InputPort", "OutputPort", "ClockVar", "Initializer", "FromSideEffect",
                "ViaIndirectPort"}

DriverSources == {"Initial", "Final", "Always", "AlwaysComb", "AlwaysLatch", "AlwaysFF",
                  "Subroutine", "Other"}

(***************************************************************************)
(* The constructor of ValueDriver: a driver has the source of the symbol   *)
(* that contains it, which is "Other" for an instance or a body.           *)
(***************************************************************************)
InferredSource(scope) ==
    IF scope \in DOMAIN ProcedureKind THEN ProcedureKind[scope]
    ELSE IF scope \in Subroutines THEN "Subroutine" ELSE "Other"

SymbolKinds == {"Net", "Variable", "ModportPort"}

NetKinds == {"", "wire", "uwire", "udnt"}

ValueDrivers ==
    [id : DriverIds, sym : DOMAIN Symbols, lo : Int, hi : Int, kind : DriverKinds,
     flags : SUBSET DriverFlags, source : DriverSources, container : Scopes, via : Seq(Bodies)]

ASSUME MainOK == Main \in Threads

ASSUME SymbolsOK ==
    \A s \in DOMAIN Symbols :
        /\ Symbols[s] \in [kind : SymbolKinds, net : NetKinds, static : BOOLEAN, refPort : BOOLEAN,
                           init : BOOLEAN, body : Scopes, lo : Int, hi : Int]
        /\ Symbols[s].refPort => Symbols[s].body \in Bodies

ASSUME InstancesOK == Instances \subseteq Scopes /\ BodyOf \in [Instances -> Bodies]

ASSUME ScopesOK ==
    /\ DOMAIN ProcedureKind \subseteq Scopes /\ Subroutines \subseteq Scopes
    /\ \A p \in DOMAIN ProcedureKind : ProcedureKind[p] \in DriverSources \ {"Subroutine", "Other"}
    /\ Instances \cap (Subroutines \cup DOMAIN ProcedureKind) = {}

\* What calls of add bring: drivers of expressions in their own scopes.
WrittenDrivers == {d \in ValueDrivers : d.id # "initializer" /\ d.source = InferredSource(d.container)}

\* The driver of an initializer is made by addDriver only.
ASSUME CallsOK == "initializer" \in DriverIds /\ AddCalls \subseteq Seq(WrittenDrivers)

ASSUME RetargetOK == Retarget \in [(DOMAIN Symbols) \X Instances -> (DOMAIN Symbols) \cup {NoSymbol}]

ASSUME ExpandOK ==
    /\ Expand \in [DOMAIN Symbols -> SUBSET [sym : DOMAIN Symbols, via : Seq(Bodies)]]
    /\ \A s \in DOMAIN Symbols : IsFiniteSet(Expand[s])

ASSUME ElaborationOK == Elaboration \subseteq DriverIds \X (DOMAIN Symbols)

ASSUME OptionsOK == AllowDupInitialDrivers \in BOOLEAN /\ MaxDepth \in Nat

VARIABLES symbolDrivers, instanceMap, indirectDrivers, diags, undone, local, phase, copy,
          applied

vars == <<symbolDrivers, instanceMap, indirectDrivers, diags, undone, local, phase, copy, applied>>

-------------------------------------------------------------------------------
(***************************************************************************)
(* Drivers and symbols                                                     *)
(*                                                                         *)
(* A driver: id (its expression), sym, lo and hi (bounds), kind            *)
(* ("Procedural", "Continuous"), flags (a subset of DriverFlags), source,  *)
(* container (containingSymbol) and via: the bodies whose interface ports  *)
(* the path goes through, innermost first.                                 *)
(*                                                                         *)
(* A symbol: kind ("Net", "Variable", "ModportPort"), net ("wire",         *)
(* "uwire", "udnt" without resolution function, ""), static, refPort (is   *)
(* connected to a ref port of the body `body`), init (has initializer).    *)
(***************************************************************************)
IsUnidirectionalPort(d) == d.flags \cap {"InputPort", "OutputPort"} # {}

IsInputPort(d) == "InputPort" \in d.flags

IsClockVar(d) == "ClockVar" \in d.flags

IsInSingleDriverProcedure(d) == d.source \in {"AlwaysComb", "AlwaysLatch", "AlwaysFF"}

Overlaps(c, d) == c.lo <= d.hi /\ d.lo <= c.hi

IsNet(s) == Symbols[s].kind = "Net"

SingleDriverNet(s) == IsNet(s) /\ Symbols[s].net \in {"uwire", "udnt"}

CheckOverlap(s) == (Symbols[s].kind = "Variable" /\ Symbols[s].static) \/ SingleDriverNet(s)

ShouldIgnore(d) ==
    \/ d.source = "Subroutine"
    \/ "Initializer" \in d.flags
    \/ d.source = "Initial" /\ AllowDupInitialDrivers

(***************************************************************************)
(* The condition in addDriver's loop over the drivers found in the map.    *)
(***************************************************************************)
IsProblem(s, curr, d) ==
    \/ IsUnidirectionalPort(curr) # IsUnidirectionalPort(d)
    \/ /\ CheckOverlap(s)
       /\ \/ d.kind = "Continuous" \/ curr.kind = "Continuous"
          \/ /\ curr.container # d.container
             /\ ~ShouldIgnore(curr) /\ ~ShouldIgnore(d)
             /\ IsInSingleDriverProcedure(curr) \/ IsInSingleDriverProcedure(d)

IsPortProblem(s, first, second) ==
    IF IsNet(s)
    THEN ~SingleDriverNet(s) /\ (IsUnidirectionalPort(first) \/ IsUnidirectionalPort(second))
    ELSE IsInputPort(first) \/ IsInputPort(second)

(***************************************************************************)
(* handleOverlap: the code it reports, "" when clocking variables make the *)
(* overlap legal.  Only the coercions of net ports are warnings.           *)
(***************************************************************************)
OverlapCode(s, first, second) ==
    CASE IsPortProblem(s, first, second) ->
             IF ~IsNet(s) THEN "InputPortAssign"
             ELSE IF IsInputPort(first) THEN "InputPortCoercion" ELSE "OutputPortCoercion"
      [] ~IsPortProblem(s, first, second) /\ (IsClockVar(first) \/ IsClockVar(second)) ->
             IF \/ IsClockVar(first) /\ IsClockVar(second)
                \/ first.kind = "Procedural" \/ second.kind = "Procedural"
             THEN "" ELSE "ClockVarTargetAssign"
      [] OTHER ->
             CASE first.kind = "Procedural" /\ second.kind = "Procedural" -> "MultipleAlwaysAssigns"
               [] first.kind # second.kind \/ first.kind = "Continuous" ->
                      IF Symbols[s].net = "uwire" THEN "MultipleUWireDrivers"
                      ELSE IF Symbols[s].net = "udnt" THEN "MultipleUDNTDrivers"
                      ELSE IF first.kind = second.kind THEN "MultipleContAssigns"
                      ELSE "MixedVarAssigns"

IsWarning(code) == code \in {"InputPortCoercion", "OutputPortCoercion"}

(***************************************************************************)
(* Two drivers of a symbol that must not both be there.                    *)
(***************************************************************************)
Conflict(s, curr, d) ==
    Overlaps(curr, d) /\ IsProblem(s, curr, d) /\ OverlapCode(s, curr, d) # ""

-------------------------------------------------------------------------------
(***************************************************************************)
(* The driver that stands for a symbol's initializer.                      *)
(***************************************************************************)
InitializerDriver(s) ==
    [id |-> "initializer", sym |-> s, lo |-> Symbols[s].lo, hi |-> Symbols[s].hi,
     kind |-> IF IsNet(s) THEN "Continuous" ELSE "Procedural",
     flags |-> {"Initializer"}, source |-> InferredSource(Symbols[s].body),
     container |-> Symbols[s].body, via |-> <<>>]

HasInitializer(s) == Symbols[s].kind # "ModportPort" /\ Symbols[s].init

(***************************************************************************)
(* addDriver: what a driver adds to the map of its symbol.                 *)
(***************************************************************************)
MapBefore(d) ==
    IF symbolDrivers[d.sym] = {} /\ HasInitializer(d.sym)
    THEN {InitializerDriver(d.sym)} ELSE symbolDrivers[d.sym]

(***************************************************************************)
(* Mutant: only the first overlapping driver is looked at.                *)
(***************************************************************************)
FirstNeighbourReports(d) ==
    LET overlapping == {c \in MapBefore(d) : Overlaps(c, d)}
        first == {c \in overlapping : \A f \in overlapping : c.lo <= f.lo}
        reported == {c \in first : Conflict(d.sym, c, d)}
    IN  {{[sym |-> d.sym, code |-> OverlapCode(d.sym, c, d), drivers |-> {c, d}] :
             c \in reported}}

(***************************************************************************)
(* addDriver's overlap check.  The loop visits the overlapping drivers in  *)
(* the order of the interval map and stops at the first error; warnings    *)
(* are all reported.                                                       *)
(***************************************************************************)
Reports(d) ==
    LET s == d.sym
        conflicts == {c \in MapBefore(d) : Conflict(s, c, d)}
        report(c) == [sym |-> s, code |-> OverlapCode(s, c, d), drivers |-> {c, d}]
        warnings == {c \in conflicts : IsWarning(OverlapCode(s, c, d))}
    IN  IF Symbols[s].kind = "ModportPort" THEN {{}}
        ELSE IF conflicts = warnings THEN {{report(c) : c \in warnings}}
        ELSE {{report(c)} : c \in {e \in conflicts : \A f \in conflicts : e.lo <= f.lo}}

(***************************************************************************)
(* Mutant: side effects of ref ports are not noted.                        *)
(***************************************************************************)
InterfaceOnlyHierPortDrivers(d) ==
    IF "FromSideEffect" \in d.flags \/ d.via = <<>> THEN <<>>
    ELSE <<[driver |-> d, ref |-> TRUE, via |-> d.via]>>

(***************************************************************************)
(* addDriver: the side effects to note with the containing instances.      *)
(***************************************************************************)
HierPortDrivers(d) ==
    IF "FromSideEffect" \in d.flags THEN <<>>
    ELSE (IF d.via # <<>> THEN <<[driver |-> d, ref |-> TRUE, via |-> d.via]>> ELSE <<>>)
             \o (IF Symbols[d.sym].kind # "ModportPort" /\ Symbols[d.sym].refPort
                 THEN <<[driver |-> d, ref |-> FALSE, via |-> <<Symbols[d.sym].body>>]>>
                 ELSE <<>>)

IsIndirect(s) == Symbols[s].kind = "ModportPort" \/ Symbols[s].refPort

(***************************************************************************)
(* addDriver, inside the visit of the symbol's map.                        *)
(***************************************************************************)
AddDriver(d) ==
    /\ symbolDrivers' = [symbolDrivers EXCEPT ![d.sym] = MapBefore(d) \cup {d}]
    /\ \E reports \in Reports(d) : diags' = diags \cup reports
    /\ indirectDrivers' = IF IsIndirect(d.sym) THEN indirectDrivers \cup {d} ELSE indirectDrivers

-------------------------------------------------------------------------------
Idle == [queue |-> <<>>, hpds |-> <<>>, applies |-> {}]

Init ==
    /\ symbolDrivers = [s \in DOMAIN Symbols |-> {}]
    /\ instanceMap = [b \in Bodies |-> [hier |-> <<>>, inst |-> <<>>]]
    /\ indirectDrivers = {}
    /\ diags = {}
    /\ undone = [calls |-> AddCalls, instances |-> Instances]
    /\ local = [t \in Threads |-> Idle]
    /\ phase = "analyze"
    /\ copy = {}
    /\ applied = {}

(***************************************************************************)
(* A thread calls add() or addDrivers() with the drivers of a procedure,   *)
(* an expression or a port connection.                                     *)
(***************************************************************************)
StartAdd(t) ==
    /\ phase = "analyze"
    /\ local[t] = Idle
    /\ \E c \in undone.calls :
           /\ local' = [local EXCEPT ![t] = [queue |-> c, hpds |-> <<>>, applies |-> {}]]
           /\ undone' = [undone EXCEPT !.calls = @ \ {c}]
    /\ UNCHANGED <<symbolDrivers, instanceMap, indirectDrivers, diags, phase, copy, applied>>

(***************************************************************************)
(* One driver of the call is added; its side effects wait until all are.   *)
(***************************************************************************)
AddNext(t) ==
    /\ local[t].queue # <<>>
    /\ LET d == Head(local[t].queue)
       IN  /\ AddDriver(d)
           /\ local' = [local EXCEPT ![t] = [queue |-> Tail(@.queue),
                                             hpds |-> @.hpds \o HierPortDrivers(d),
                                             applies |-> @.applies]]
    /\ UNCHANGED <<instanceMap, undone, phase, copy, applied>>

(***************************************************************************)
(* The pairs <<body, k, j>> of the k-th side effect and the j-th instance  *)
(* of a body.                                                              *)
(***************************************************************************)
PairsIn(m) == UNION {{b} \X (1 .. Len(m[b].hier)) \X (1 .. Len(m[b].inst)) : b \in Bodies}

AllPairs == PairsIn(instanceMap)

(***************************************************************************)
(* Mutant: the connection of the port is not followed.                     *)
(***************************************************************************)
InnermostNoteHierPortDriver(t) ==
    /\ local[t].queue = <<>> /\ local[t].applies = {} /\ local[t].hpds # <<>>
    /\ LET hpd == Head(local[t].hpds)
           b == Head(hpd.via)
           k == Len(instanceMap[b].hier) + 1
       IN  /\ instanceMap' = [instanceMap EXCEPT ![b] = [hier |-> Append(@.hier, hpd),
                                                         inst |-> @.inst]]
           /\ local' = [local EXCEPT ![t] =
                  [queue |-> <<>>, hpds |-> Tail(@.hpds),
                   applies |-> {b} \X {k} \X (1 .. Len(instanceMap[b].inst))]]
    /\ UNCHANGED <<symbolDrivers, indirectDrivers, diags, undone, phase, copy, applied>>

(***************************************************************************)
(* noteHierPortDriver: one visit appends the driver and copies the         *)
(* instances known so far, to be dealt with outside of the visit.  A       *)
(* driver that goes through several interface ports is noted at each.      *)
(***************************************************************************)
NoteHierPortDriver(t) ==
    /\ local[t].queue = <<>> /\ local[t].applies = {} /\ local[t].hpds # <<>>
    /\ LET hpd == Head(local[t].hpds)
           b == Head(hpd.via)
           k == Len(instanceMap[b].hier) + 1
           more == IF Tail(hpd.via) = <<>> THEN <<>>
                   ELSE <<[driver |-> hpd.driver, ref |-> hpd.ref, via |-> Tail(hpd.via)]>>
       IN  /\ instanceMap' = [instanceMap EXCEPT ![b] = [hier |-> Append(@.hier, hpd),
                                                         inst |-> @.inst]]
           /\ local' = [local EXCEPT ![t] =
                  [queue |-> <<>>, hpds |-> more \o Tail(@.hpds),
                   applies |-> {b} \X {k} \X (1 .. Len(instanceMap[b].inst))]]
    /\ UNCHANGED <<symbolDrivers, indirectDrivers, diags, undone, phase, copy, applied>>

(***************************************************************************)
(* Mutant: drivers that were noted before the instance are not applied.    *)
(***************************************************************************)
LateNoteNonCanonicalInstance(t) ==
    /\ phase = "analyze"
    /\ local[t] = Idle
    /\ \E i \in undone.instances :
           /\ undone' = [undone EXCEPT !.instances = @ \ {i}]
           /\ instanceMap' = [instanceMap EXCEPT ![BodyOf[i]] =
                                 [hier |-> @.hier, inst |-> Append(@.inst, i)]]
    /\ UNCHANGED <<symbolDrivers, indirectDrivers, diags, local, phase, copy, applied>>

(***************************************************************************)
(* noteNonCanonicalInstance: the mirror image.                             *)
(***************************************************************************)
NoteNonCanonicalInstance(t) ==
    /\ phase = "analyze"
    /\ local[t] = Idle
    /\ \E i \in undone.instances :
           LET b == BodyOf[i]
               j == Len(instanceMap[b].inst) + 1
           IN  /\ undone' = [undone EXCEPT !.instances = @ \ {i}]
               /\ instanceMap' = [instanceMap EXCEPT ![b] = [hier |-> @.hier,
                                                             inst |-> Append(@.inst, i)]]
               /\ local' = [local EXCEPT ![t] =
                      [queue |-> <<>>, hpds |-> <<>>,
                       applies |-> {b} \X (1 .. Len(instanceMap[b].hier)) \X {j}]]
    /\ UNCHANGED <<symbolDrivers, indirectDrivers, diags, phase, copy, applied>>

(***************************************************************************)
(* A driver as it acts in another instance of its body: the same path      *)
(* looked up from there (retargetIfacePort, or the port of the same name). *)
(* It keeps the source of the procedure it comes from, although the        *)
(* instance contains it now.                                               *)
(***************************************************************************)
SideEffect(d, i) ==
    [id |-> d.id, sym |-> Retarget[<<d.sym, i>>], lo |-> d.lo, hi |-> d.hi, kind |-> d.kind,
     flags |-> d.flags \cup {"FromSideEffect"}, source |-> d.source, container |-> i,
     via |-> d.via]

(***************************************************************************)
(* Mutant: a lookup that finds no symbol is not noticed.                   *)
(***************************************************************************)
UncheckedApplyInstanceSideEffect(t) ==
    \E p \in local[t].applies :
        LET hpd == instanceMap[p[1]].hier[p[2]]
            d == SideEffect(hpd.driver, instanceMap[p[1]].inst[p[3]])
        IN  /\ IF hpd.ref /\ d.sym # NoSymbol THEN AddDriver(d)
               ELSE /\ indirectDrivers' = indirectDrivers \cup {d}
                    /\ UNCHANGED <<symbolDrivers, diags>>
            /\ local' = [local EXCEPT ![t] = [queue |-> @.queue, hpds |-> @.hpds,
                                              applies |-> @.applies \ {p}]]
            /\ applied' = applied \cup {p}
            /\ UNCHANGED <<instanceMap, undone, phase, copy>>

(***************************************************************************)
(* applyInstanceSideEffect: nothing if the lookup finds no symbol.  A ref  *)
(* port driver only becomes an indirect driver.                            *)
(***************************************************************************)
ApplyInstanceSideEffect(t) ==
    \E p \in local[t].applies :
        LET hpd == instanceMap[p[1]].hier[p[2]]
            i == instanceMap[p[1]].inst[p[3]]
            d == SideEffect(hpd.driver, i)
        IN  /\ IF d.sym = NoSymbol THEN UNCHANGED <<symbolDrivers, indirectDrivers, diags>>
               ELSE IF hpd.ref THEN AddDriver(d)
               ELSE /\ indirectDrivers' = indirectDrivers \cup {d}
                    /\ UNCHANGED <<symbolDrivers, diags>>
            /\ local' = [local EXCEPT ![t] = [queue |-> @.queue, hpds |-> @.hpds,
                                              applies |-> @.applies \ {p}]]
            /\ applied' = applied \cup {p}
            /\ UNCHANGED <<instanceMap, undone, phase, copy>>

-------------------------------------------------------------------------------
(***************************************************************************)
(* AnalysisManager::wait has returned: no thread has anything left to do.  *)
(***************************************************************************)
AllIdle == \A t \in Threads : local[t] = Idle

BeginPropagate ==
    /\ phase = "analyze"
    /\ AllIdle
    /\ undone.calls = {} /\ undone.instances = {}
    /\ phase' = "swap"
    /\ UNCHANGED <<symbolDrivers, instanceMap, indirectDrivers, diags, undone, local, copy, applied>>

(***************************************************************************)
(* propagateIndirectDrivers: take the whole map, or stop when it is empty. *)
(***************************************************************************)
SwapIndirect ==
    /\ phase = "swap"
    /\ copy' = indirectDrivers
    /\ indirectDrivers' = {}
    /\ phase' = IF indirectDrivers = {} THEN "done" ELSE "propagate"
    /\ UNCHANGED <<symbolDrivers, instanceMap, diags, undone, local, applied>>

(***************************************************************************)
(* Mutant: a side effect follows a path back to the same symbol.           *)
(***************************************************************************)
CircularExpandIndirectRefs(d) ==
    {[id |-> d.id, sym |-> e.sym, lo |-> d.lo, hi |-> d.hi, kind |-> d.kind,
      flags |-> d.flags \cup {"ViaIndirectPort"}, source |-> InferredSource(d.container),
      container |-> d.container, via |-> e.via] :
         e \in {x \in Expand[d.sym] : x.sym # d.sym \/ "FromSideEffect" \in d.flags}}

(***************************************************************************)
(* The drivers an indirect driver turns into.  A path that leads back to   *)
(* the same symbol is skipped.  The source is inferred again: a side       *)
(* effect, which an instance contains, no longer comes from a procedure.   *)
(***************************************************************************)
ExpandIndirectRefs(d) ==
    {[id |-> d.id, sym |-> e.sym, lo |-> d.lo, hi |-> d.hi, kind |-> d.kind,
      flags |-> d.flags \cup {"ViaIndirectPort"}, source |-> InferredSource(d.container),
      container |-> d.container, via |-> e.via] :
         e \in {x \in Expand[d.sym] : x.sym # d.sym}}

(***************************************************************************)
(* The visitor of one element of the copy: all indirect drivers of one     *)
(* symbol are expanded and added.                                          *)
(***************************************************************************)
PropagateItem ==
    /\ phase = "propagate"
    /\ local[Main] = Idle
    /\ \E s \in {d.sym : d \in copy} :
           LET originals == {d \in copy : d.sym = s}
               new == UNION {ExpandIndirectRefs(d) : d \in originals}
           IN  /\ copy' = copy \ originals
               /\ \E queue \in [1 .. Cardinality(new) -> new] :
                      /\ {queue[n] : n \in DOMAIN queue} = new
                      /\ local' = [local EXCEPT ![Main] = [queue |-> queue, hpds |-> <<>>, applies |-> {}]]
    /\ UNCHANGED <<symbolDrivers, instanceMap, indirectDrivers, diags, undone, phase, applied>>

EndOfCopy ==
    /\ phase = "propagate"
    /\ local[Main] = Idle
    /\ copy = {}
    /\ phase' = "swap"
    /\ UNCHANGED <<symbolDrivers, instanceMap, indirectDrivers, diags, undone, local, copy, applied>>

Done == phase = "done" /\ UNCHANGED vars

Step(t) ==
    \/ StartAdd(t)
    \/ AddNext(t)
    \/ NoteHierPortDriver(t)
    \/ NoteNonCanonicalInstance(t)
    \/ ApplyInstanceSideEffect(t)

Propagate == BeginPropagate \/ SwapIndirect \/ PropagateItem \/ EndOfCopy

Next == (\E t \in Threads : Step(t)) \/ Propagate \/ Done

Spec == Init /\ [][Next]_vars

FairSpec == Spec /\ WF_vars((\E t \in Threads : Step(t)) \/ Propagate)

-------------------------------------------------------------------------------
HierPortDriverType == [driver : ValueDrivers, ref : BOOLEAN, via : Seq(Bodies) \ {<<>>}]

Codes == {"InputPortAssign", "InputPortCoercion", "OutputPortCoercion", "ClockVarTargetAssign",
          "MultipleAlwaysAssigns", "MultipleUWireDrivers", "MultipleUDNTDrivers",
          "MultipleContAssigns", "MixedVarAssigns"}

(***************************************************************************)
(* Type correctness; a driver that is moved to another symbol or instance  *)
(* is a driver of an existing symbol, and is filed under that symbol.      *)
(***************************************************************************)
TypeOK ==
    /\ symbolDrivers \in [DOMAIN Symbols -> SUBSET ValueDrivers]
    /\ \A s \in DOMAIN Symbols : \A d \in symbolDrivers[s] : d.sym = s
    /\ instanceMap \in [Bodies -> [hier : Seq(HierPortDriverType), inst : Seq(Instances)]]
    /\ indirectDrivers \subseteq ValueDrivers /\ IsFiniteSet(indirectDrivers)
    /\ copy \subseteq ValueDrivers /\ IsFiniteSet(copy)
    /\ diags \subseteq [sym : DOMAIN Symbols, code : Codes, drivers : SUBSET ValueDrivers]
    /\ undone \in [calls : SUBSET AddCalls, instances : SUBSET Instances]
    /\ local \in [Threads -> [queue : Seq(ValueDrivers), hpds : Seq(HierPortDriverType),
                             applies : SUBSET (Bodies \X Nat \X Nat)]]
    /\ phase \in {"analyze", "swap", "propagate", "done"}

(***************************************************************************)
(* Every side effect and every instance of a body meet exactly once: the   *)
(* pair is waiting in one thread, or it has been applied.  Whichever of    *)
(* the two visits comes second is the one that sees the other.             *)
(***************************************************************************)
PairsMeetOnce ==
    /\ AllPairs = applied \cup UNION {local[t].applies : t \in Threads}
    /\ \A t \in Threads : local[t].applies \cap applied = {}
    /\ \A t, u \in Threads : t # u => local[t].applies \cap local[u].applies = {}

(***************************************************************************)
(* A symbol is diagnosed if and only if two of its drivers conflict.  The  *)
(* check runs once per added driver against what is there, and stops at    *)
(* the first error, but no order of additions hides a conflict.  (Modport  *)
(* ports are not checked.)                                                 *)
(***************************************************************************)
ConflictsAreReported ==
    /\ \A s \in DOMAIN Symbols :
           Symbols[s].kind # "ModportPort" =>
               \A c, d \in symbolDrivers[s] :
                   c # d /\ Conflict(s, c, d) => \E x \in diags : x.sym = s
    /\ \A x \in diags : \E c, d \in symbolDrivers[x.sym] :
           x.drivers = {c, d} /\ Conflict(x.sym, c, d)

(***************************************************************************)
(* The consequences of one driver: <<TRUE, e>> for a driver e added to a   *)
(* symbol, <<FALSE, e>> for one that is only to be propagated.             *)
(***************************************************************************)
Consequences(item) ==
    LET d == item[2]
        expanded == IF ~item[1] \/ IsIndirect(d.sym) THEN {<<TRUE, e>> : e \in ExpandIndirectRefs(d)} ELSE {}
        noted == IF item[1] THEN {HierPortDrivers(d)[n] : n \in DOMAIN HierPortDrivers(d)} ELSE {}
        effects == UNION {{<<h.ref, SideEffect(d, i)>> :
                               i \in {j \in Instances :
                                          /\ \E n \in DOMAIN h.via : h.via[n] = BodyOf[j]
                                          /\ Retarget[<<d.sym, j>>] # NoSymbol}} : h \in noted}
    IN  expanded \cup effects

ImpliedItems ==
    LET direct == UNION {{<<TRUE, c[n]>> : n \in DOMAIN c} : c \in AddCalls}
        close[n \in 0 .. MaxDepth] ==
            IF n = 0 THEN direct
            ELSE close[n - 1] \cup UNION {Consequences(x) : x \in close[n - 1]}
    IN  close[MaxDepth]

\* What the design implies is closed: no driver takes a chain longer than MaxDepth.
ASSUME DepthOK == \A x \in ImpliedItems : Consequences(x) \subseteq ImpliedItems

ImpliedDrivers(s) ==
    LET added == {x[2] : x \in {y \in ImpliedItems : y[1] /\ y[2].sym = s}}
    IN  added \cup (IF added # {} /\ HasInitializer(s) THEN {InitializerDriver(s)} ELSE {})

(***************************************************************************)
(* The drivers of every symbol when analysis is over are those the design  *)
(* implies, whatever the schedule was.                                     *)
(***************************************************************************)
FinalDriversImplied ==
    phase = "done" => \A s \in DOMAIN Symbols : symbolDrivers[s] = ImpliedDrivers(s)

(***************************************************************************)
(* Sharing bodies loses no driver: when analysis is over every symbol has  *)
(* a driver from each expression that drives it when every instance is     *)
(* elaborated on its own.                                                  *)
(***************************************************************************)
InstancesDrive ==
    phase = "done" =>
        \A x \in Elaboration : \E d \in symbolDrivers[x[2]] : d.id = x[1]

(***************************************************************************)
(* The analysis comes to an end: propagation through connected ports does  *)
(* not go round in circles.                                                *)
(***************************************************************************)
AnalysisEnds == <>(phase = "done")
===============================================================================
