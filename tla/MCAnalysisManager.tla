--------------------------- MODULE MCAnalysisManager ---------------------------
(***************************************************************************)
(* Designs for AnalysisManager.                                            *)
(***************************************************************************)
EXTENDS AnalysisManager

Member(kind, item, calls) == [kind |-> kind, item |-> item, calls |-> calls, timing |-> FALSE]

Always(item, calls) == [kind |-> "proc", item |-> item, calls |-> calls, timing |-> TRUE]

Function(calls) ==
    [task |-> FALSE, timed |-> FALSE, calls |-> calls, asserts |-> FALSE, drivesArg |-> FALSE]

Task(timed, calls) == [Function(calls) EXCEPT !.task = TRUE, !.timed = timed]

ResolutionFunction == [Function(<<>>) EXCEPT !.drivesArg = TRUE]

-------------------------------------------------------------------------------
(***************************************************************************)
(* A package with two mutually recursive functions and a module leaf with  *)
(* a canonical and a non-canonical instance in top.  Expressions and       *)
(* procedures of both modules call the functions, while the package        *)
(* analyzes them.  The always procedure of top calls quiet, a recursive    *)
(* task without delays, before outer, which calls the timed task inner;    *)
(* the one of leaf only reaches quiet, which has an expect statement.  The *)
(* function that resolves nt drives its argument.  Nothing throws, or the  *)
(* recursive g does, or a procedure and the nettype.                       *)
(***************************************************************************)
PoolMembers ==
    [unit |-> <<Member("nettype", "nt", <<"resolve">>), Member("scope", "pkg", <<>>)>>,
     pkg |-> <<Member("sub", "f", <<>>), Member("sub", "inner", <<>>)>>,
     top |-> <<Member("scope", "leaf", <<>>), Member("inst", "leaf2", <<>>),
               Always("p1", <<"quiet", "outer">>), Member("expr", "e1", <<"f">>)>>,
     leaf |-> <<Always("p2", <<"f", "quiet">>), Member("expr", "e2", <<"resolve", "g">>)>>,
     unused |-> <<>>]

PoolBody == [leaf2 |-> "leaf"]

PoolSubs ==
    [f |-> Function(<<"g">>), g |-> Function(<<"f">>),
     quiet |-> [Task(FALSE, <<"quiet">>) EXCEPT !.asserts = TRUE],
     outer |-> Task(FALSE, <<"f", "inner">>), inner |-> Task(TRUE, <<"outer">>),
     resolve |-> ResolutionFunction]

PoolRoots == <<"unit", "top">>

PoolThrows == {{}, {"g"}, {"p1", "nt"}}

(***************************************************************************)
(* The nettype is in top, its resolution function in the package.          *)
(***************************************************************************)
NetTypeMembers ==
    [unit |-> <<Member("sub", "resolve", <<>>)>>,
     top |-> <<Member("nettype", "nt", <<"resolve">>)>>]

NetTypeSubs == [resolve |-> ResolutionFunction]

NoInstances == [x \in {} |-> x]
===============================================================================
