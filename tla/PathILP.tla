------------------------------- MODULE PathILP -------------------------------
(***************************************************************************)
(* From the finalised program graph to the solver graph                     *)
(* (WorklistSolver::initializeGraph) and from there to the rows of the       *)
(* integer program (AbstractHighsSolver::solveWCET).  A candidate solution   *)
(* is a pair of bags: x counts nodes and y counts edges.                    *)
(***************************************************************************)
EXTENDS ProgramGraph, Bags, FiniteSetsExt

\* A node of the solver graph copies the cost; its program is not looked at
\* again, so the worklist that runs over this graph changes no cost.
initializeGraph(G) ==
    [Nodes |-> G.Nodes,
     Edges |-> G.Edges,
     BackEdges |-> G.Edges \cap G.BackEdges,
     Cost |-> G.Cycles,
     LoopHeaders |-> {n \in G.Nodes : \E e \in G.BackEdges : e[2] = n},
     UpperLoopBound |-> G.UpperLoopBound,
     Entries |-> {n \in G.Nodes : n = Entry \/ \A e \in G.Edges : e[2] # n},
     Exits |-> {n \in G.Nodes : n = Exit \/ \A e \in G.Edges : e[1] # n},
     FunctionEntries |-> {m \in G.FunctionToEntryNodeMap : m[2] \in G.Nodes},
     FunctionReturns |-> {m \in G.FunctionToReturnNodesMap : m[2] \in G.Nodes},
     CallSites |-> {cs \in G.CallSites : /\ cs.node \in G.Nodes
                                         /\ cs.landing # {} /\ cs.landing \subseteq G.Nodes}]

\* (CopiesIn of Bags, which the proof system's module Bags does not have.)
copies(e, B) == IF BagIn(e, B) THEN B[e] ELSE 0

flow(edges, y) == MapThenSumSet(LAMBDA e : copies(e, y), edges)
into(A, n) == {e \in A.Edges : e[2] = n}
outOf(A, n) == {e \in A.Edges : e[1] = n}

FlowInRow(A, n, x, y) == n \notin A.Entries => copies(n, x) = flow(into(A, n), y)
FlowOutRow(A, n, x, y) == n \notin A.Exits => copies(n, x) = flow(outOf(A, n), y)
EntryRow(A, n, x) == n \in A.Entries => copies(n, x) = 1

\* (Bound - 1) * x_h - Bound * sum(back edges) >= 0
LoopRow(A, n, x, y) ==
    (n \in A.LoopHeaders /\ A.UpperLoopBound[n] > 0) =>
        (A.UpperLoopBound[n] - 1) * copies(n, x)
            >= A.UpperLoopBound[n] * flow(A.BackEdges \cap into(A, n), y)

\* flow(call -> entry) = sum(flow(return -> landing)), if there is such a return
callFlow(A, cs) == A.Edges \cap ({cs.node} \X {m[2] : m \in {e \in A.FunctionEntries : e[1] = cs.callee}})
returnFlow(A, cs) == A.Edges \cap ({m[2] : m \in {e \in A.FunctionReturns : e[1] = cs.callee}} \X cs.landing)
\* Mutant: a call may return anywhere.
CallRowFree(A, cs, y) == flow(callFlow(A, cs), y) >= 0

CallRow(A, cs, y) ==
    (callFlow(A, cs) # {} /\ returnFlow(A, cs) # {}) =>
        flow(callFlow(A, cs), y) = flow(returnFlow(A, cs), y)

Rows(A, x, y) ==
    /\ \A n \in A.Nodes : /\ FlowInRow(A, n, x, y)
                          /\ FlowOutRow(A, n, x, y)
                          /\ LoopRow(A, n, x, y)
    /\ \A cs \in A.CallSites : CallRow(A, cs, y)

Feasible(A, x, y) == Rows(A, x, y) /\ \A n \in A.Nodes : EntryRow(A, n, x)

Objective(A, x) == MapThenSumSet(LAMBDA n : A.Cost[n] * copies(n, x), A.Nodes)

\* Edges that can be taken once more, all together, in any solution: a
\* circulation that no row limits makes the objective unbounded.
degree(edges, n) == Cardinality({e \in edges : e[2] = n})
Circulations(A) ==
    LET inner == {e \in A.Edges : e[1] \notin A.Entries /\ e[2] \notin A.Exits}
    IN  {C \in (SUBSET inner) \ {{}} :
           \A n \in A.Nodes : degree(C, n) = Cardinality({e \in C : e[1] = n})}
Repeatable(A, C) ==
    Rows(A, [n \in {e[2] : e \in C} |-> degree(C, n)], SetToBag(C))
=============================================================================
