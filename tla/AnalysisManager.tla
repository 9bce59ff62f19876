---------------------------- MODULE AnalysisManager ----------------------------
(***************************************************************************)
(* slang::analysis::AnalysisManager: analyze() walks an elaborated design, *)
(* one task per scope.  A task visits the members of its scope; scopes it  *)
(* meets become tasks of their own, once each, and subroutines it meets or *)
(* calls are analyzed by whoever needs them first.  Without a thread pool  *)
(* the same code runs inline, on the thread that called analyze().         *)
(*                                                                         *)
(* analyzedScopes      scope -> "absent", "pending" (nullopt) or "done"    *)
(* analyzedSubroutines subroutines with a published analysis               *)
(* visitedNonProcCalls subroutines called from non-procedural expressions  *)
(* analyzedAssertions  subroutine -> analyses recorded of its assertions   *)
(* pendingException    a task threw                                        *)
(* tasks               the queue of the thread pool                        *)
(* stack               thread -> calls in progress, innermost last         *)
(* main                what analyze() is doing, and how far it is          *)
(* driverAdds          subroutine -> calls of driverTracker.add            *)
(* procCalls           subroutine -> calls of the procedure listeners      *)
(* scopeCalls          scope -> calls of the scope listeners               *)
(* instanceNotes       instance -> calls of noteNonCanonicalInstance       *)
(* inlined             procedure or expression -> functions whose drivers  *)
(*                     it was given; NotYet before it is visited           *)
(* delays              procedures found to call a task with a delay        *)
(* netTypes            net types checked, net types reported               *)
(*                                                                         *)
(* pooled              is there a thread pool?                             *)
(* throwing            what throws when it is analyzed, in this design     *)
(*                                                                         *)
(* Each visit of a concurrent map is one action.                           *)
(***************************************************************************)
EXTENDS Integers, Sequences, FiniteSets

CONSTANTS
    Workers,    \* threads of the pool
    Main,       \* the thread that calls analyze()
    PoolChoices,    \* which of TRUE and FALSE the options allow: is there a pool?
    ThrowSets,  \* what may throw: sets of procedures, expressions, nettypes and subroutines
    Scopes,
    Members,    \* scope -> sequence of [kind, item, calls, timing] records
    CanonicalBody,  \* non-canonical instance -> the scope analyzed for it
    Subs,       \* subroutine -> [task, timed, calls, asserts, drivesArg] record
    Roots       \* the compilation units, then the bodies of the top instances

Threads == Workers \cup {Main}

NotYet == {"not yet"}

MembersOf(s) == {Members[s][n] : n \in DOMAIN Members[s]}

AllMembers == UNION {MembersOf(s) : s \in Scopes}

(***************************************************************************)
(* Procedures and non-procedural expressions: what gets drivers of the     *)
(* functions it calls.                                                     *)
(***************************************************************************)
Callers == {m.item : m \in {x \in AllMembers : x.kind \in {"proc", "expr"}}}

Functions == {f \in DOMAIN Subs : ~Subs[f].task}

ASSUME ThreadsOK == Main \notin Workers

ASSUME MembersOK ==
    /\ DOMAIN Members = Scopes
    /\ \A s \in Scopes : Members[s] \in Seq(AllMembers)
    /\ \A m \in AllMembers :
           /\ m.kind \in {"scope", "inst", "sub", "proc", "expr", "nettype"}
           /\ m.kind = "scope" => m.item \in Scopes
           /\ m.kind = "inst" => m.item \in DOMAIN CanonicalBody
           /\ m.kind = "sub" => m.item \in DOMAIN Subs
           /\ m.kind = "nettype" => m.calls # <<>>
           /\ m.calls \in Seq(DOMAIN Subs) /\ m.timing \in BOOLEAN
    /\ \A f \in DOMAIN Subs : Subs[f].calls \in Seq(DOMAIN Subs)
    /\ \A i \in DOMAIN CanonicalBody : CanonicalBody[i] \in Scopes
    /\ Roots \in Seq(Scopes)
    /\ PoolChoices \subseteq BOOLEAN

(***************************************************************************)
(* An instance, a procedure or an expression is a member of one scope.     *)
(***************************************************************************)
ASSUME MembersDistinct ==
    \A s, r \in Scopes : \A n \in DOMAIN Members[s], k \in DOMAIN Members[r] :
        LET m == Members[s][n]
            l == Members[r][k]
        IN  /\ m.kind = "inst" /\ l.kind = "inst" /\ m.item = l.item => s = r /\ n = k
            /\ m.kind \in {"proc", "expr"} /\ l.kind \in {"proc", "expr"} /\ m.item = l.item
                   => s = r /\ n = k

\* The marker NotYet is not a set of subroutines.
ASSUME NotYetOK == "not yet" \notin DOMAIN Subs

VARIABLES
    analyzedScopes, analyzedSubroutines, visitedNonProcCalls, analyzedAssertions,
    pendingException, tasks, stack, main,
    driverAdds, procCalls, scopeCalls, instanceNotes, inlined, delays, netTypes,
    pooled, throwing

maps == <<analyzedScopes, analyzedSubroutines, visitedNonProcCalls, analyzedAssertions>>
pool == <<pendingException, tasks>>
effects == <<driverAdds, procCalls, scopeCalls, instanceNotes, inlined, delays, netTypes>>
design == <<pooled, throwing>>
vars == <<maps, pool, stack, main, effects, design>>

-------------------------------------------------------------------------------
(***************************************************************************)
(* Calls in progress: what is called, on what, how far it is (pc, pos),    *)
(* the calls in its body, and for a walk over called subroutines the calls *)
(* left, the subroutines visited and the ones collected.                   *)
(***************************************************************************)
Frame(fn, item, pc, calls) ==
    [fn |-> fn, item |-> item, pc |-> pc, pos |-> 1, calls |-> calls, todo |-> <<>>,
     seen |-> {}, got |-> {}]

Walk(frame) == [frame EXCEPT !.pc = "next", !.todo = frame.calls, !.seen = {}, !.got = {}]

Top(t) == stack[t][Len(stack[t])]

Below(t) == SubSeq(stack[t], 1, Len(stack[t]) - 1)

At(t, fn, pc) == stack[t] # <<>> /\ Top(t).fn = fn /\ Top(t).pc = pc

Replace(t, frames) == stack' = [stack EXCEPT ![t] = Below(t) \o frames]

Goto(t, pc) == Replace(t, <<[Top(t) EXCEPT !.pc = pc]>>)

Return(t) == Replace(t, <<>>)

Init ==
    /\ analyzedScopes = [s \in Scopes |-> "absent"]
    /\ analyzedSubroutines = {}
    /\ visitedNonProcCalls = {}
    /\ analyzedAssertions = [f \in DOMAIN Subs |-> 0]
    /\ pendingException = FALSE
    /\ tasks = <<>>
    /\ stack = [t \in Threads |-> <<>>]
    /\ main = [pc |-> "analyze", pos |-> 1]
    /\ driverAdds = [f \in DOMAIN Subs |-> 0]
    /\ procCalls = [f \in DOMAIN Subs |-> 0]
    /\ scopeCalls = [s \in Scopes |-> 0]
    /\ instanceNotes = [i \in DOMAIN CanonicalBody |-> 0]
    /\ inlined = [c \in Callers |-> NotYet]
    /\ delays = {}
    /\ netTypes = [checked |-> {}, reported |-> {}]
    /\ pooled \in PoolChoices /\ throwing \in ThrowSets

(***************************************************************************)
(* Mutant of Throw: a task swallows the exception.                         *)
(***************************************************************************)
SwallowedThrow(t) ==
    /\ stack' = [stack EXCEPT ![t] = <<>>]
    /\ UNCHANGED <<maps, pool, main, effects>>

(***************************************************************************)
(* An exception leaves every call of the thread.  In a task it is kept for *)
(* wait(); without a pool it leaves analyze() itself.                      *)
(***************************************************************************)
Throw(t) ==
    /\ stack' = [stack EXCEPT ![t] = <<>>]
    /\ IF pooled
       THEN pendingException' = TRUE /\ UNCHANGED main
       ELSE main' = [main EXCEPT !.pc = "threw"] /\ UNCHANGED pendingException
    /\ UNCHANGED <<maps, tasks, effects>>

(***************************************************************************)
(* analyzeScopeAsync, on thread t whose calls in progress become `rest`.   *)
(***************************************************************************)
AnalyzeScopeAsync(t, s, rest) ==
    LET new == analyzedScopes[s] = "absent"
    IN  /\ analyzedScopes' = [analyzedScopes EXCEPT ![s] = IF new THEN "pending" ELSE @]
        /\ tasks' = IF new /\ pooled THEN Append(tasks, s) ELSE tasks
        /\ stack' = [stack EXCEPT ![t] =
               IF new /\ ~pooled THEN Append(rest, Frame("scope", s, "members", <<>>)) ELSE rest]

-------------------------------------------------------------------------------
(***************************************************************************)
(* analyze(): start the roots one after the other, wait, finish.           *)
(***************************************************************************)
AnalyzeRoot ==
    /\ main.pc = "analyze" /\ stack[Main] = <<>> /\ main.pos <= Len(Roots)
    /\ AnalyzeScopeAsync(Main, Roots[main.pos], <<>>)
    /\ main' = [main EXCEPT !.pos = @ + 1]
    /\ UNCHANGED <<analyzedSubroutines, visitedNonProcCalls, analyzedAssertions, pendingException,
                   effects, design>>

(***************************************************************************)
(* Mutant of Wait: the queue is empty, but tasks may still run.            *)
(***************************************************************************)
QueueEmptyWait ==
    /\ main.pc = "analyze" /\ stack[Main] = <<>> /\ main.pos > Len(Roots)
    /\ tasks = <<>>
    /\ main' = [main EXCEPT !.pc = IF pendingException THEN "threw" ELSE "done"]
    /\ UNCHANGED <<maps, pool, stack, effects, design>>

(***************************************************************************)
(* wait(): threadPool->wait() returns when no task is queued or running.   *)
(***************************************************************************)
Wait ==
    /\ main.pc = "analyze" /\ stack[Main] = <<>> /\ main.pos > Len(Roots)
    /\ tasks = <<>> /\ \A t \in Workers : stack[t] = <<>>
    /\ main' = [main EXCEPT !.pc = IF pendingException THEN "threw" ELSE "done"]
    /\ UNCHANGED <<maps, pool, stack, effects, design>>

(***************************************************************************)
(* A worker takes the next task: analyzeScopeBlocking.                     *)
(***************************************************************************)
TakeTask(t) ==
    /\ stack[t] = <<>> /\ tasks # <<>>
    /\ stack' = [stack EXCEPT ![t] = <<Frame("scope", Head(tasks), "members", <<>>)>>]
    /\ tasks' = Tail(tasks)
    /\ UNCHANGED <<maps, pendingException, main, effects, design>>

-------------------------------------------------------------------------------
(***************************************************************************)
(* AnalysisScopeVisitor: the next member of the scope.                     *)
(***************************************************************************)
VisitMember(t) ==
    /\ At(t, "scope", "members")
    /\ LET f == Top(t)
           m == Members[f.item][f.pos]
           rest == Append(Below(t), [f EXCEPT !.pos = @ + 1])
           Call(frame) == /\ stack' = [stack EXCEPT ![t] = Append(rest, frame)]
                          /\ UNCHANGED <<maps, pool, main, effects>>
       IN  /\ f.pos <= Len(Members[f.item])
           /\ m.kind \in {"proc", "expr", "nettype"} => m.item \notin throwing
           /\ \/ /\ m.kind = "scope"
                 /\ AnalyzeScopeAsync(t, m.item, rest)
                 /\ UNCHANGED <<analyzedSubroutines, visitedNonProcCalls, analyzedAssertions,
                                pendingException, main, effects>>
              \/ /\ m.kind = "inst"
                 /\ AnalyzeScopeAsync(t, CanonicalBody[m.item],
                                      Append(rest, Frame("inst", m.item, "note", <<>>)))
                 /\ UNCHANGED <<analyzedSubroutines, visitedNonProcCalls, analyzedAssertions,
                                pendingException, main, effects>>
              \/ m.kind = "sub" /\ Call(Frame("sub", m.item, "lookup", <<>>))
              \/ /\ m.kind = "proc" /\ m.timing
                 /\ Call(Frame("proc", m.item, "timing", m.calls))
              \/ /\ m.kind \in {"proc", "expr"} /\ ~m.timing
                 /\ Call(Walk(Frame(m.kind, m.item, "next", m.calls)))
              \/ m.kind = "nettype" /\ Call(Frame("nettype", m.item, "analyze", m.calls))

(***************************************************************************)
(* The analysis of the next member throws.                                 *)
(***************************************************************************)
MemberThrows(t) ==
    /\ At(t, "scope", "members")
    /\ LET f == Top(t)
           m == Members[f.item][f.pos]
       IN  /\ f.pos <= Len(Members[f.item])
           /\ m.kind \in {"proc", "expr", "nettype"} /\ m.item \in throwing
    /\ Throw(t)

(***************************************************************************)
(* analyzeSymbolAsync: an instance with a canonical body is noted, after   *)
(* that body became a task (or, without a pool, was analyzed).             *)
(***************************************************************************)
NoteInstance(t) ==
    /\ At(t, "inst", "note")
    /\ instanceNotes' = [instanceNotes EXCEPT ![Top(t).item] = @ + 1]
    /\ Return(t)
    /\ UNCHANGED <<maps, pool, main, driverAdds, procCalls, scopeCalls, inlined, delays, netTypes>>

(***************************************************************************)
(* addScopeResult: publish the result, then tell the listeners.            *)
(***************************************************************************)
PublishScope(t) ==
    /\ At(t, "scope", "members")
    /\ Top(t).pos > Len(Members[Top(t).item])
    /\ analyzedScopes' = [analyzedScopes EXCEPT ![Top(t).item] = "done"]
    /\ Goto(t, "notify")
    /\ UNCHANGED <<analyzedSubroutines, visitedNonProcCalls, analyzedAssertions, pool, main,
                   effects>>

NotifyScope(t) ==
    /\ At(t, "scope", "notify")
    /\ scopeCalls' = [scopeCalls EXCEPT ![Top(t).item] = @ + 1]
    /\ Return(t)
    /\ UNCHANGED <<maps, pool, main, driverAdds, procCalls, instanceNotes, inlined, delays, netTypes>>

-------------------------------------------------------------------------------
(***************************************************************************)
(* Mutant of LookupSubroutine: published analyses are not looked up.       *)
(***************************************************************************)
UncachedLookup(t) ==
    /\ At(t, "sub", "lookup")
    /\ Goto(t, "analyze")
    /\ UNCHANGED <<maps, pool, main, effects>>

(***************************************************************************)
(* analyzeSubroutine: return the published analysis if there is one.       *)
(***************************************************************************)
LookupSubroutine(t) ==
    /\ At(t, "sub", "lookup")
    /\ IF Top(t).item \in analyzedSubroutines THEN Return(t) ELSE Goto(t, "analyze")
    /\ UNCHANGED <<maps, pool, main, effects>>

(***************************************************************************)
(* analyzeProcedure: no lock is held; the assertions of the body are       *)
(* recorded (handleAssertion), or the analysis throws.                     *)
(***************************************************************************)
AnalyzeProcedure(t) ==
    /\ At(t, "sub", "analyze")
    /\ LET f == Top(t).item
       IN  IF f \in throwing THEN Throw(t)
           ELSE /\ analyzedAssertions' = [analyzedAssertions EXCEPT ![f] =
                                             IF Subs[f].asserts THEN @ + 1 ELSE @]
                /\ Goto(t, "emplace")
                /\ UNCHANGED <<analyzedScopes, analyzedSubroutines, visitedNonProcCalls, pool,
                               main, effects>>

(***************************************************************************)
(* Mutant of EmplaceSubroutine: whether the insertion succeeded is not     *)
(* looked at.                                                              *)
(***************************************************************************)
UncheckedEmplace(t) ==
    /\ At(t, "sub", "emplace")
    /\ analyzedSubroutines' = analyzedSubroutines \cup {Top(t).item}
    /\ Goto(t, "add")
    /\ UNCHANGED <<analyzedScopes, visitedNonProcCalls, analyzedAssertions, pool, main, effects>>

(***************************************************************************)
(* Publish the analysis, unless somebody else did in the meantime.         *)
(***************************************************************************)
EmplaceSubroutine(t) ==
    /\ At(t, "sub", "emplace")
    /\ LET f == Top(t).item
       IN  /\ IF f \in analyzedSubroutines THEN Return(t) ELSE Goto(t, "add")
           /\ analyzedSubroutines' = analyzedSubroutines \cup {f}
    /\ UNCHANGED <<analyzedScopes, visitedNonProcCalls, analyzedAssertions, pool, main, effects>>

AddSubroutineDrivers(t) ==
    /\ At(t, "sub", "add")
    /\ driverAdds' = [driverAdds EXCEPT ![Top(t).item] = @ + 1]
    /\ Goto(t, "notify")
    /\ UNCHANGED <<maps, pool, main, procCalls, scopeCalls, instanceNotes, inlined, delays,
                   netTypes>>

NotifySubroutine(t) ==
    /\ At(t, "sub", "notify")
    /\ procCalls' = [procCalls EXCEPT ![Top(t).item] = @ + 1]
    /\ Return(t)
    /\ UNCHANGED <<maps, pool, main, driverAdds, scopeCalls, instanceNotes, inlined, delays,
                   netTypes>>

-------------------------------------------------------------------------------
(***************************************************************************)
(* getTaskTimingControls, on the calls of a procedure one by one until     *)
(* one leads to a task with a delay.                                       *)
(***************************************************************************)
NextTaskCall(t) ==
    /\ At(t, "proc", "timing") /\ Top(t).todo = <<>>
    /\ LET f == Top(t)
       IN  IF f.got # {} \/ f.pos > Len(f.calls)
           THEN /\ delays' = IF f.got # {} THEN delays \cup {f.item} ELSE delays
                /\ Replace(t, <<Walk(f)>>)
           ELSE /\ Replace(t, <<[f EXCEPT !.pos = @ + 1, !.todo = <<f.calls[f.pos]>>]>>)
                /\ UNCHANGED delays
    /\ UNCHANGED <<maps, pool, main, driverAdds, procCalls, scopeCalls, instanceNotes, inlined,
                   netTypes>>

VisitTask(t) ==
    /\ At(t, "proc", "timing") /\ Top(t).todo # <<>>
    /\ LET f == Top(t)
           g == Head(f.todo)
       IN  IF ~Subs[g].task \/ g \in f.seen
           THEN Replace(t, <<[f EXCEPT !.todo = Tail(@)]>>)
           ELSE Replace(t, <<[f EXCEPT !.pc = "controls", !.seen = @ \cup {g}],
                             Frame("sub", g, "lookup", <<>>)>>)
    /\ UNCHANGED <<maps, pool, main, effects>>

(***************************************************************************)
(* Mutant of CollectControls: the tasks called by a task are forgotten.    *)
(***************************************************************************)
ShallowControls(t) ==
    /\ At(t, "proc", "controls")
    /\ LET f == Top(t)
           g == Head(f.todo)
       IN  Replace(t, <<[f EXCEPT !.pc = "timing", !.todo = Tail(@),
                                  !.got = IF Subs[g].timed THEN @ \cup {g} ELSE @]>>)
    /\ UNCHANGED <<maps, pool, main, effects>>

CollectControls(t) ==
    /\ At(t, "proc", "controls")
    /\ LET f == Top(t)
           g == Head(f.todo)
       IN  Replace(t, <<[f EXCEPT !.pc = "timing", !.todo = Subs[g].calls \o Tail(@),
                                  !.got = IF Subs[g].timed THEN @ \cup {g} ELSE @]>>)
    /\ UNCHANGED <<maps, pool, main, effects>>

-------------------------------------------------------------------------------
(***************************************************************************)
(* Mutant of Visited: expressions do not share the visited set.            *)
(***************************************************************************)
PrivateVisited(t) == Top(t).seen

(***************************************************************************)
(* getFunctionValUses: the next call of the walk, if it is of a function   *)
(* that was not visited.  A procedure has its own visited set; expressions *)
(* outside of procedures share one.                                        *)
(***************************************************************************)
Visited(t) ==
    IF Top(t).fn = "expr" THEN visitedNonProcCalls ELSE Top(t).seen

VisitCall(t) ==
    /\ At(t, "proc", "next") \/ At(t, "expr", "next")
    /\ LET f == Top(t)
           g == Head(f.todo)
       IN  /\ f.todo # <<>>
           /\ IF Subs[g].task \/ g \in Visited(t)
              THEN /\ Replace(t, <<[f EXCEPT !.todo = Tail(@)]>>)
                   /\ UNCHANGED visitedNonProcCalls
              ELSE /\ Replace(t, <<[f EXCEPT !.pc = "collect", !.seen = @ \cup {g}],
                                   Frame("sub", g, "lookup", <<>>)>>)
                   /\ visitedNonProcCalls' = IF f.fn = "expr" THEN visitedNonProcCalls \cup {g}
                                             ELSE visitedNonProcCalls
    /\ UNCHANGED <<analyzedScopes, analyzedSubroutines, analyzedAssertions, pool, main, effects>>

(***************************************************************************)
(* The drivers of the function are taken over, and the walk goes on with   *)
(* the functions it calls.                                                 *)
(***************************************************************************)
CollectDrivers(t) ==
    /\ At(t, "proc", "collect") \/ At(t, "expr", "collect")
    /\ LET f == Top(t)
       IN  Replace(t, <<[f EXCEPT !.pc = "next", !.todo = Subs[Head(@)].calls \o Tail(@),
                                  !.got = @ \cup {Head(f.todo)}]>>)
    /\ UNCHANGED <<maps, pool, main, effects>>

(***************************************************************************)
(* The walk is over: driverTracker.add and, for procedures, the listeners. *)
(***************************************************************************)
FinishCaller(t) ==
    /\ At(t, "proc", "next") \/ At(t, "expr", "next")
    /\ Top(t).todo = <<>>
    /\ inlined' = [inlined EXCEPT ![Top(t).item] = Top(t).got]
    /\ Return(t)
    /\ UNCHANGED <<maps, pool, main, driverAdds, procCalls, scopeCalls, instanceNotes, delays,
                   netTypes>>

-------------------------------------------------------------------------------
(***************************************************************************)
(* visit(NetType): analyze the resolution function, then look whether the  *)
(* tracker has drivers for its argument.                                   *)
(***************************************************************************)
AnalyzeResolution(t) ==
    /\ At(t, "nettype", "analyze")
    /\ LET f == Top(t)
       IN  Replace(t, <<[f EXCEPT !.pc = "check"], Frame("sub", Head(f.calls), "lookup", <<>>)>>)
    /\ UNCHANGED <<maps, pool, main, effects>>

CheckNetType(t) ==
    /\ At(t, "nettype", "check")
    /\ LET f == Top(t)
           g == Head(f.calls)
           found == Subs[g].drivesArg /\ driverAdds[g] > 0
       IN  netTypes' = [checked |-> netTypes.checked \cup {<<f.item, g>>},
                        reported |-> IF found THEN netTypes.reported \cup {<<f.item, g>>}
                                     ELSE netTypes.reported]
    /\ Return(t)
    /\ UNCHANGED <<maps, pool, main, driverAdds, procCalls, scopeCalls, instanceNotes, inlined,
                   delays>>

-------------------------------------------------------------------------------
Step(t) ==
    /\ \/ VisitMember(t) \/ MemberThrows(t) \/ NoteInstance(t)
       \/ PublishScope(t) \/ NotifyScope(t)
       \/ LookupSubroutine(t) \/ AnalyzeProcedure(t) \/ EmplaceSubroutine(t)
       \/ AddSubroutineDrivers(t) \/ NotifySubroutine(t)
       \/ NextTaskCall(t) \/ VisitTask(t) \/ CollectControls(t)
       \/ VisitCall(t) \/ CollectDrivers(t) \/ FinishCaller(t)
       \/ AnalyzeResolution(t) \/ CheckNetType(t)
    /\ UNCHANGED design

Ended == main.pc \in {"done", "threw"}

Stutter == Ended /\ UNCHANGED vars

Next ==
    \/ AnalyzeRoot \/ Wait
    \/ \E t \in Workers : TakeTask(t)
    \/ \E t \in Threads : Step(t)
    \/ Stutter

Spec == Init /\ [][Next]_vars

(***************************************************************************)
(* The pool runs its tasks: a thread that can take a step eventually does. *)
(***************************************************************************)
FairSpec ==
    /\ Spec
    /\ WF_vars(AnalyzeRoot \/ Wait)
    /\ \A t \in Threads : WF_vars(Step(t))
    /\ \A t \in Workers : WF_vars(TakeTask(t))

-------------------------------------------------------------------------------
(***************************************************************************)
(* What a run has to cover, independently of the order of the walk.        *)
(***************************************************************************)
ChildScopes(s) ==
    {m.item : m \in {x \in MembersOf(s) : x.kind = "scope"}}
        \cup {CanonicalBody[m.item] : m \in {x \in MembersOf(s) : x.kind = "inst"}}

ReachableScopes ==
    LET Closed(C) == /\ \A n \in DOMAIN Roots : Roots[n] \in C
                     /\ \A s \in C : ChildScopes(s) \subseteq C
    IN  {s \in Scopes : \A C \in SUBSET Scopes : Closed(C) => s \in C}

ReachableMembers == UNION {MembersOf(s) : s \in ReachableScopes}

ToSet(calls) == {calls[n] : n \in DOMAIN calls}

(***************************************************************************)
(* The subroutines of a kind reached from some calls by calls of that kind.*)
(***************************************************************************)
Reached(calls, kind) ==
    LET Closed(C) == /\ calls \cap kind \subseteq C
                     /\ \A f \in C : ToSet(Subs[f].calls) \cap kind \subseteq C
    IN  {f \in kind : \A C \in SUBSET kind : Closed(C) => f \in C}

CallsOf(kinds) == UNION {ToSet(m.calls) : m \in {x \in ReachableMembers : x.kind \in kinds}}

Tasks == DOMAIN Subs \ Functions

Done == main.pc = "done"

(***************************************************************************)
(* analyze() returns only when everything is analyzed: every scope the     *)
(* design reaches has a result and was announced to the listeners exactly  *)
(* once, every non-canonical instance in it was noted exactly once, and no *)
(* thread is still at work (propagateIndirectDrivers runs next, and is not *)
(* written for concurrent calls of add).                                   *)
(***************************************************************************)
EverythingAnalyzed ==
    Done =>
        /\ \A s \in Scopes :
               /\ analyzedScopes[s] = IF s \in ReachableScopes THEN "done" ELSE "absent"
               /\ scopeCalls[s] = IF s \in ReachableScopes THEN 1 ELSE 0
        /\ \A m \in ReachableMembers : m.kind = "inst" => instanceNotes[m.item] = 1
        /\ \A t \in Threads : stack[t] = <<>>

(***************************************************************************)
(* Whoever analyzes a subroutine, and however often, its drivers are added *)
(* to the tracker and its listeners called at most once, and exactly once  *)
(* when analyze() returns ("If not, someone else already did it for us").  *)
(***************************************************************************)
SubroutinesOnce ==
    \A f \in DOMAIN Subs :
        /\ procCalls[f] <= driverAdds[f] /\ driverAdds[f] <= 1
        /\ Done => /\ procCalls[f] = IF f \in analyzedSubroutines THEN 1 ELSE 0
                   /\ driverAdds[f] = procCalls[f]

(***************************************************************************)
(* A procedure gets the drivers of every function it calls, directly or    *)
(* through other functions, recursion included, and of nothing else,       *)
(* whichever thread analyzed those functions.  The expressions outside of  *)
(* procedures share one visited set: together they get the drivers of      *)
(* every function they reach, and no function is given to two of them.     *)
(***************************************************************************)
CalleesInlined ==
    Done =>
        LET exprs == {m.item : m \in {x \in ReachableMembers : x.kind = "expr"}}
        IN  /\ \A m \in ReachableMembers :
                   m.kind = "proc" => inlined[m.item] = Reached(ToSet(m.calls), Functions)
            /\ UNION {inlined[e] : e \in exprs} = Reached(CallsOf({"expr"}), Functions)
            /\ \A e1, e2 \in exprs : e1 # e2 => inlined[e1] \cap inlined[e2] = {}

(***************************************************************************)
(* A procedure is found to call a task with a delay exactly when one of    *)
(* the tasks it reaches has one, although the search stops at the first.   *)
(***************************************************************************)
TaskDelaysFound ==
    Done =>
        \A m \in ReachableMembers :
            (m.kind = "proc" /\ m.timing) =>
                (m.item \in delays <=> \E f \in Reached(ToSet(m.calls), Tasks) : Subs[f].timed)

(***************************************************************************)
(* Something the design reaches throws while it is analyzed.               *)
(***************************************************************************)
SomethingThrows ==
    \/ \E m \in ReachableMembers : m.kind \in {"proc", "expr", "nettype"} /\ m.item \in throwing
    \/ \E f \in {m.item : m \in {x \in ReachableMembers : x.kind = "sub"}}
              \cup CallsOf({"nettype"})
              \cup Reached(CallsOf({"proc", "expr"}), Functions) : f \in throwing

(***************************************************************************)
(* A nettype whose resolution function drives its argument is reported     *)
(* when it is checked.                                                     *)
(***************************************************************************)
NetTypesReported ==
    \A x \in netTypes.checked : Subs[x[2]].drivesArg => x \in netTypes.reported

(***************************************************************************)
(* Without a pool everything is reported, and nothing twice: nettypes that *)
(* drive their argument, and the assertions of a subroutine, which are     *)
(* recorded once although several callers analyze it.                      *)
(***************************************************************************)
SequentialReports ==
    ~pooled => /\ NetTypesReported
               /\ \A f \in DOMAIN Subs : analyzedAssertions[f] <= 1

(***************************************************************************)
(* analyze() comes to its end, also when functions are recursive.  It      *)
(* throws if something it reaches throws: no exception is lost with the    *)
(* task that met it, whatever the other tasks were doing.                  *)
(***************************************************************************)
AnalysisTerminates == <>[](main.pc = IF SomethingThrows THEN "threw" ELSE "done")
===============================================================================
