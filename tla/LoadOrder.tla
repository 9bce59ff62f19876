------------------------------- MODULE LoadOrder -------------------------------
(***************************************************************************)
(* What slang::driver::SourceLoader promises of the trees it returns, as   *)
(* one thread would produce them: first the listed files, then the files   *)
(* of missing names, one at a time, the name that was missed last first.   *)
(*                                                                         *)
(* trees     the trees so far                                              *)
(* pending   names to search, the next one last; only those worth a search *)
(***************************************************************************)
EXTENDS SourceTrees

VARIABLES trees, pending

orderVars == <<trees, pending>>

OrderInit == trees = <<>> /\ pending = <<>>

\* Every listed file is parsed once, on its own or together with others.
ParseListed ==
    /\ trees = <<>>
    /\ LET files == FlattenSeq([k \in DOMAIN trees' |-> trees'[k].files])
           names == FlattenSeq([k \in DOMAIN trees' |->
                       NewNames(trees'[k], Known(trees') \cup
                           UNION { ToSet(ReferredBy(trees'[j])) : j \in 1 .. k - 1 })])
       IN  /\ IsInjective(files)
           /\ pending' = Sift(names, Wanted(trees'))

\* The file of the name missed last is parsed; the names it misses go first.
ParseMissing ==
    /\ pending # <<>>
    /\ LET name == Last(pending)
           file == FindBuffer(name, UNION { CachedBy(t) : t \in ToSet(trees) })
           tree == [files |-> <<file>>, isLibraryUnit |-> TRUE,
                    inherits |-> trees'[Len(trees')].inherits]
           new == NewNames(tree, Known(trees) \cup DeclaredBy(tree) \cup Missing(trees))
       IN  /\ trees' = Append(trees, tree)
           /\ pending' = Sift(Front(pending) \o new, Wanted(trees'))

OrderSpec == OrderInit /\ [][ParseListed \/ ParseMissing]_orderVars
===============================================================================
