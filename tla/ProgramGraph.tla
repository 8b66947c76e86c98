---------------------------- MODULE ProgramGraph ----------------------------
(***************************************************************************)
(* The program graph (ProgramGraph.cpp): one node per machine block of      *)
(* every function, the synthetic Entry and Exit of the start function, and, *)
(* once finalised, the edges of calls and returns.  A graph is a record of  *)
(* the fields of class ProgramGraph; a node is named by its block instead   *)
(* of the number addNode gives it, and a map from functions is a relation.  *)
(*                                                                         *)
(* The program that is analysed is a record p:                              *)
(*   order      the functions with a body, in module order                 *)
(*   layout     [function |-> the sequence of its blocks]                  *)
(*   succ       the edges of all control-flow graphs                       *)
(*   returns    the blocks that return                                     *)
(*   calls      [block that ends in a call |-> its callee]                 *)
(*   symbols    callees that are mere symbols (MO_ExternalSymbol)          *)
(*   start      the start function                                         *)
(*   latency    [block |-> cycles]                                         *)
(*   libCost    [external callee |-> cycles], where the target knows them   *)
(* CallSplitter has run: a block has one call, at its end, and then at     *)
(* most one successor.  What the loop bound pass found is a record tar:     *)
(* LoopBoundMap and RecursionBoundMap from headers and functions to bounds, *)
(* and the IrreducibleBackEdges.                                           *)
(***************************************************************************)
EXTENDS Naturals, Sequences, FiniteSets, Functions

CONSTANTS Entry, Exit       \* the nodes named so

BlocksOf(p, f) == Range(p.layout[f])
Defined(p) == Range(p.order)
Blocks(p) == UNION {BlocksOf(p, f) : f \in Defined(p)}
ownerOf(p, b) == CHOOSE f \in Defined(p) : b \in BlocksOf(p, f)
succOf(p, b) == {c \in Blocks(p) : <<b, c>> \in p.succ}

\* What LLVM and CallSplitter give: functions have blocks of their own, control
\* leaves a function by calls and returns only, a block cut after its call goes on
\* in the next one of the layout if anywhere, a block that returns has no successor,
\* a symbol has no body, and blocks are visited one by one (see LoopBounds).
WellFormed(p) ==
    /\ p.order \in Seq(DOMAIN p.layout)
    /\ \A i, j \in DOMAIN p.order : p.order[i] = p.order[j] => i = j
    /\ \A f \in Defined(p) : p.layout[f] \in Seq(Blocks(p)) /\ p.layout[f] # << >>
    /\ \A f, g \in Defined(p) : f # g => BlocksOf(p, f) \cap BlocksOf(p, g) = {}
    /\ p.succ \subseteq Blocks(p) \X Blocks(p)
    /\ \A f \in Defined(p) : \A e \in p.succ : e[1] \in BlocksOf(p, f) => e[2] \in BlocksOf(p, f)
    /\ p.start \in Defined(p)
    /\ DOMAIN p.calls \subseteq Blocks(p)
    /\ \A f \in Defined(p) : \A i, j \in DOMAIN p.layout[f] : p.layout[f][i] = p.layout[f][j] => i = j
    /\ \A f \in Defined(p) : \A i \in DOMAIN p.layout[f] : p.layout[f][i] \in DOMAIN p.calls =>
         \A c \in succOf(p, p.layout[f][i]) : i + 1 \in DOMAIN p.layout[f] /\ c = p.layout[f][i + 1]
    /\ \A b \in p.returns \cap Blocks(p) : succOf(p, b) = {} /\ b \notin DOMAIN p.calls
    /\ p.symbols \cap Defined(p) = {}
    /\ \A b \in Blocks(p) : p.latency[b] \in Nat
    /\ \A b \in Blocks(p) : p.visited[b] \in Nat
    /\ \A f \in Defined(p) : \A b, c \in BlocksOf(p, f) : p.visited[b] = p.visited[c] => b = c
    /\ \A callee \in DOMAIN p.libCost : p.libCost[callee] \in Nat
    /\ Entry \notin Blocks(p) /\ Exit \notin Blocks(p)

\* The least set that contains root and is closed under edges.
closure(root, edges, nodes) ==
    LET closed == {S \in SUBSET nodes : /\ root \in S
                                        /\ \A e \in edges : e[1] \in S => e[2] \in S}
    IN  {n \in nodes : \A S \in closed : n \in S}

\* MachineLoopInfo (LLVM): an edge into a block that dominates its source
\* closes a natural loop with that block as its header.
loopBackEdges(p, f) ==
    LET B == BlocksOf(p, f)
        E == {e \in p.succ : e[1] \in B}
        entry == p.layout[f][1]
        avoids(h, u) == h # entry /\ u \in closure(entry, {e \in E : e[2] # h}, B)
    IN  {e \in E : e[1] \in closure(entry, E, B) /\ ~avoids(e[2], e[1])}

\* The start function is not called by what it calls: calls into it are not wired.
callGraph(p) ==
    {<<ownerOf(p, b), p.calls[b]>> : b \in {c \in DOMAIN p.calls : p.calls[c] \in Defined(p)}}
StartIsNotReentered(p) ==
    \A f \in closure(p.start, callGraph(p), Defined(p)) : <<f, p.start>> \notin callGraph(p)

emptyGraph == [Nodes |-> {}, Edges |-> {}, Cycles |-> << >>, UpperLoopBound |-> << >>,
               BackEdges |-> {}, CallSites |-> {}, ExternalSymbolCallSites |-> {},
               FunctionToEntryNodeMap |-> {}, FunctionToReturnNodesMap |-> {},
               UnsoundExternalCallees |-> {}, BoundedRecursionFunctions |-> {},
               UnboundedRecursionFunctions |-> {}, MutualRecursionFunctions |-> {}]

-----------------------------------------------------------------------------
(***************************************************************************)
(* fillGraphWithFunction adds one function.  uninitialised is what the      *)
(* memory of a new node held: the constructor leaves UpperLoopBound alone.  *)
(***************************************************************************)
wireEntryExit(layout, returns) ==
    (IF layout = << >> THEN {<<Entry, Exit>>} ELSE {<<Entry, layout[1]>>})
    \cup {<<r, Exit>> : r \in returns}
    \cup (IF layout # << >> /\ returns = {} THEN {<<layout[Len(layout)], Exit>>} ELSE {})

\* The block control returns to: the only successor of a block cut after its call.
landingOf(p, b) == {c \in succOf(p, b) : succOf(p, b) = {c}}

fillGraphWithFunction(p, tar, G, f, uninitialised) ==
    LET B == BlocksOf(p, f)
        E == {e \in p.succ : e[1] \in B}
        R == p.returns \cap B
        N == IF f = p.start THEN B \cup {Entry, Exit} ELSE B
        calling == B \cap DOMAIN p.calls
    IN  [G EXCEPT
          !.Nodes = @ \cup N,
          !.Edges = @ \cup E \cup (IF f = p.start THEN wireEntryExit(p.layout[f], R) ELSE {}),
          !.Cycles = [n \in DOMAIN @ \cup N |->
                        IF n \in B THEN p.latency[n] ELSE IF n \in N THEN 0 ELSE @[n]],
          !.UpperLoopBound = [n \in DOMAIN @ \cup N |->
                        IF n \in B /\ n \in DOMAIN tar.LoopBoundMap THEN tar.LoopBoundMap[n]
                        ELSE IF n \in N THEN uninitialised ELSE @[n]],
          !.BackEdges = @ \cup loopBackEdges(p, f) \cup (tar.IrreducibleBackEdges \cap E),
          !.CallSites = @ \cup {[node |-> b, callee |-> p.calls[b], landing |-> landingOf(p, b)] :
                                b \in {c \in calling : p.calls[c] \notin p.symbols}},
          !.ExternalSymbolCallSites =
                        @ \cup {<<b, p.calls[b]>> : b \in {c \in calling : p.calls[c] \in p.symbols}},
          !.FunctionToEntryNodeMap = @ \cup (IF B = {} THEN {} ELSE {<<f, p.layout[f][1]>>}),
          !.FunctionToReturnNodesMap = @ \cup ({f} \X R)]

-----------------------------------------------------------------------------
(***************************************************************************)
(* finalize wires calls and returns, turns recursion into bounded loops,    *)
(* charges library calls and prunes what the start function cannot reach.   *)
(***************************************************************************)
entryNodes(G, f) == {m[2] : m \in {e \in G.FunctionToEntryNodeMap : e[1] = f}}
\* Mutant: the first return block only.
returnNodesFirst(G, f) ==
    LET R == {m[2] : m \in {e \in G.FunctionToReturnNodesMap : e[1] = f}}
    IN  {r \in R : r = CHOOSE q \in R : TRUE}

returnNodes(G, f) == {m[2] : m \in {e \in G.FunctionToReturnNodesMap : e[1] = f}}

\* Calls into the start function are never wired.
wiredCalls(p, G) == {cs \in G.CallSites : cs.callee # p.start /\ entryNodes(G, cs.callee) # {}}
callEdges(p, G) == UNION {{cs.node} \X entryNodes(G, cs.callee) : cs \in wiredCalls(p, G)}
returnEdges(p, G) == UNION {returnNodes(G, cs.callee) \X cs.landing : cs \in wiredCalls(p, G)}

\* Mutant: symbols are not looked at.
externalCallsDeclared(p, G) ==
    {<<cs.node, cs.callee>> : cs \in {c \in G.CallSites : c.callee \notin Defined(p)}}

\* chargeOrStage: callees without a body, as <<call node, name>>.
externalCalls(p, G) ==
    G.ExternalSymbolCallSites
    \cup {<<cs.node, cs.callee>> : cs \in {c \in G.CallSites : c.callee \notin Defined(p)}}
charged(p, G, n) == \E c \in externalCalls(p, G) : c[1] = n /\ c[2] \in DOMAIN p.libCost

callAdj(p, G) == {<<ownerOf(p, cs.node), cs.callee>> : cs \in G.CallSites}

\* The multi-function cycles of the call graph, as sets of functions.
callCycles(p, G) ==
    LET adj == callAdj(p, G)
        F == {a[1] : a \in adj} \cup {a[2] : a \in adj}
        reached == [f \in F |-> closure(f, adj, F)]
        inCycle == UNION {{a[1], a[2]} : a \in {b \in adj : b[1] # b[2] /\ b[1] \in reached[b[2]]}}
    IN  {{g \in inCycle : g \in reached[f] /\ f \in reached[g]} : f \in inCycle}

\* Mutant: where a component is entered is not looked at.
cycleEntriesAll(p, G, scc) == scc

cycleEntries(p, G, scc) ==
    {a[2] : a \in {b \in callAdj(p, G) : b[1] \notin scc /\ b[2] \in scc}} \cup (scc \cap {p.start})

(***************************************************************************)
(* findSCCBackEdges: the edges a depth first search closes.  Its sets are    *)
(* ordered by address, which is rank.  An edge closes a cycle when its       *)
(* target is on the stack as its source is visited.                         *)
(***************************************************************************)
findSCCBackEdges(scc, entries, adj, rank) ==
    LET next(f) == {g \in scc : <<f, g>> \in adj}
        first(S) == CHOOSE f \in S : \A g \in S : rank[f] <= rank[g]
        visit(s, f) == [stack |-> <<f>> \o s.stack,
                        seen  |-> s.seen \cup {f},
                        back  |-> s.back \cup ({f} \X (next(f) \cap (Range(s.stack) \cup {f})))]
        white(s) == IF s.stack # << >> THEN next(Head(s.stack)) \ s.seen
                    ELSE IF entries \subseteq s.seen THEN scc \ s.seen ELSE entries \ s.seen
        step(s) == IF white(s) # {} THEN visit(s, first(white(s)))
                   ELSE [s EXCEPT !.stack = IF @ = << >> THEN @ ELSE Tail(@)]
        run[n \in 0 .. 2 * Cardinality(scc)] ==
            IF n = 0 THEN [stack |-> << >>, seen |-> {}, back |-> {}] ELSE step(run[n - 1])
    IN  run[2 * Cardinality(scc)].back

bounded(tar, f) == f \in DOMAIN tar.RecursionBoundMap /\ tar.RecursionBoundMap[f] > 0

\* Mutant: only a call that does not return closes the cycle.
selfRecursiveTail(p, G) == {f \in Defined(p) : \E cs \in wiredCalls(p, G) :
                              cs.callee = f /\ ownerOf(p, cs.node) = f /\ cs.landing = {}}

selfRecursive(p, G) == {f \in Defined(p) : \E cs \in wiredCalls(p, G) :
                                              cs.callee = f /\ ownerOf(p, cs.node) = f}
cycleBackEdges(p, G, scc, rank) ==
    findSCCBackEdges(scc, cycleEntries(p, G, scc), callAdj(p, G), rank)
allHeadersBounded(p, tar, G, scc, rank) ==
    /\ cycleBackEdges(p, G, scc, rank) # {}
    /\ \A c \in cycleBackEdges(p, G, scc, rank) : bounded(tar, c[2]) /\ entryNodes(G, c[2]) # {}
closingCalls(p, tar, G, rank) ==
    LET closed == {<<f, f>> : f \in selfRecursive(p, G)}
                  \cup UNION {cycleBackEdges(p, G, scc, rank) : scc \in callCycles(p, G)}
    IN  {cs \in G.CallSites : bounded(tar, cs.callee) /\ <<ownerOf(p, cs.node), cs.callee>> \in closed}

\* Mutant: the removed node stays a predecessor of others.
detachedTargets(edges, kept) == {e \in edges : e[2] \in kept}

\* removeNode asserts that a node has no edge left.
detached(edges, kept) == {e \in edges : e[1] \in kept /\ e[2] \in kept}

finalize(p, tar, G, rank) ==
    LET edges == G.Edges \cup callEdges(p, G) \cup returnEdges(p, G)
        kept == IF Entry \in G.Nodes THEN closure(Entry, edges, G.Nodes) ELSE G.Nodes
        live(F) == {f \in F : entryNodes(G, f) \cap kept # {}}
        closing == closingCalls(p, tar, G, rank)
        headers == UNION {entryNodes(G, cs.callee) : cs \in closing}
        selfRec == selfRecursive(p, G)
        boundedCycles == {scc \in callCycles(p, G) : allHeadersBounded(p, tar, G, scc, rank)}
    IN  [G EXCEPT
          !.Nodes = kept,
          !.Edges = detached(edges, kept),
          !.Cycles = [n \in kept |-> IF charged(p, G, n) THEN @[n] + p.libCost[p.calls[n]] ELSE @[n]],
          !.UpperLoopBound = [n \in kept |->
                IF n \in headers THEN tar.RecursionBoundMap[ownerOf(p, n)] ELSE @[n]],
          !.BackEdges = {e \in @ \cup UNION {{cs.node} \X entryNodes(G, cs.callee) : cs \in closing} :
                         e[2] \in kept},
          !.UnsoundExternalCallees = {c[2] : c \in {d \in externalCalls(p, G) :
                         d[2] \notin DOMAIN p.libCost /\ d[1] \in kept}},
          !.BoundedRecursionFunctions =
                live({f \in selfRec : bounded(tar, f)} \cup UNION boundedCycles),
          !.UnboundedRecursionFunctions = live({f \in selfRec : ~bounded(tar, f)}),
          !.MutualRecursionFunctions = live(UNION (callCycles(p, G) \ boundedCycles))]

=============================================================================
