-------------------------- MODULE PathAnalysisProofs --------------------------
(***************************************************************************)
(* Proofs about the program graph and the executions of PathAnalysis, for   *)
(* every set of well-formed programs.                                       *)
(***************************************************************************)
EXTENDS BoundedPrograms, TLAPS

-----------------------------------------------------------------------------
\* Reachability: the root, one edge further, and paths one after the other.
LEMMA ClosureRoot ==
  ASSUME NEW root, NEW edges, NEW nodes, root \in nodes
  PROVE  root \in closure(root, edges, nodes)
BY DEF closure

LEMMA ClosureStep ==
  ASSUME NEW root, NEW edges, NEW nodes, NEW u \in closure(root, edges, nodes), NEW v \in nodes,
         <<u, v>> \in edges
  PROVE  v \in closure(root, edges, nodes)
<1> SUFFICES ASSUME NEW S \in SUBSET nodes, root \in S, \A e \in edges : e[1] \in S => e[2] \in S
             PROVE  v \in S
  BY DEF closure
<1>1. u \in S
  BY DEF closure
<1> QED
  BY <1>1

LEMMA ClosureWithin ==
  ASSUME NEW root, NEW edges, NEW nodes
  PROVE  closure(root, edges, nodes) \subseteq nodes
BY DEF closure

LEMMA ClosureJoin ==
  ASSUME NEW root, NEW edges, NEW nodes, NEW u \in closure(root, edges, nodes),
         NEW v \in closure(u, edges, nodes)
  PROVE  v \in closure(root, edges, nodes)
<1> SUFFICES ASSUME NEW S \in SUBSET nodes, root \in S, \A e \in edges : e[1] \in S => e[2] \in S
             PROVE  v \in S
  BY DEF closure
<1>1. u \in S
  BY DEF closure
<1> QED
  BY <1>1 DEF closure

\* What holds of the root and is kept by every edge holds of all that is reached.
LEMMA ClosureKeeps ==
  ASSUME NEW root, NEW edges, NEW nodes, NEW S \in SUBSET nodes, root \in S,
         \A e \in edges : e[1] \in S => e[2] \in S
  PROVE  closure(root, edges, nodes) \subseteq S
BY DEF closure

-----------------------------------------------------------------------------
(***************************************************************************)
(* The graph of a set of functions, said at once.  FillMuGraphPass reaches   *)
(* it function by function, in module order.                                *)
(***************************************************************************)
GraphFields == {"Nodes", "Edges", "Cycles", "UpperLoopBound", "BackEdges", "CallSites",
                "ExternalSymbolCallSites", "FunctionToEntryNodeMap", "FunctionToReturnNodesMap",
                "UnsoundExternalCallees", "BoundedRecursionFunctions", "UnboundedRecursionFunctions",
                "MutualRecursionFunctions"}

blocksOfAll(p, F) == {b \in Blocks(p) : \E f \in F : b \in BlocksOf(p, f)}
syntheticNodes(p, F) == {n \in {Entry, Exit} : p.start \in F}
wiredEdges(p, F) ==
  {e \in wireEntryExit(p.layout[p.start], p.returns \cap BlocksOf(p, p.start)) : p.start \in F}
callBlocks(p, F) == blocksOfAll(p, F) \cap DOMAIN p.calls
siteOf(p, b) == [node |-> b, callee |-> p.calls[b], landing |-> landingOf(p, b)]

IsFilled(p, G, F) ==
  /\ DOMAIN G = GraphFields
  /\ G.Nodes = blocksOfAll(p, F) \cup syntheticNodes(p, F)
  /\ G.Edges = {e \in p.succ : e[1] \in blocksOfAll(p, F)} \cup wiredEdges(p, F)
  /\ G.Cycles = [n \in G.Nodes |-> IF n \in Blocks(p) THEN p.latency[n] ELSE 0]
  /\ G.CallSites = {siteOf(p, b) : b \in {c \in callBlocks(p, F) : p.calls[c] \notin p.symbols}}
  /\ G.ExternalSymbolCallSites = {<<b, p.calls[b]>> : b \in {c \in callBlocks(p, F) : p.calls[c] \in p.symbols}}
  /\ G.FunctionToEntryNodeMap = {<<f, p.layout[f][1]>> : f \in F}
  /\ G.FunctionToReturnNodesMap = {m \in F \X p.returns : m[2] \in BlocksOf(p, m[1])}

LEMMA EmptyIsFilled ==
  ASSUME NEW p
  PROVE  IsFilled(p, emptyGraph, {})
<1>1. blocksOfAll(p, {}) = {} /\ syntheticNodes(p, {}) = {} /\ wiredEdges(p, {}) = {}
  BY DEF blocksOfAll, syntheticNodes, wiredEdges
<1>2. callBlocks(p, {}) = {}
  BY <1>1 DEF callBlocks
<1>3. DOMAIN emptyGraph = GraphFields
  BY DEF emptyGraph, GraphFields
<1> QED
  BY <1>1, <1>2, <1>3 DEF IsFilled, emptyGraph

LEMMA EntryBlocks ==
  ASSUME NEW p, WellFormed(p), NEW f \in Defined(p)
  PROVE  /\ p.layout[f][1] \in BlocksOf(p, f)
         /\ BlocksOf(p, f) \subseteq Blocks(p)
         /\ BlocksOf(p, f) # {}
<1>1. p.layout[f] \in Seq(Blocks(p)) /\ p.layout[f] # << >>
  BY DEF WellFormed
<1>2. 1 \in DOMAIN p.layout[f]
  BY <1>1
<1> QED
  BY <1>2 DEF BlocksOf, Blocks, Range

\* Adding one function more.
LEMMA FillAddsFunction ==
  ASSUME NEW p, WellFormed(p), NEW tar, NEW u, NEW G, NEW F, F \subseteq Defined(p),
         NEW f \in Defined(p), IsFilled(p, G, F)
  PROVE  IsFilled(p, fillGraphWithFunction(p, tar, G, f, u), F \cup {f})
<1> DEFINE B == BlocksOf(p, f)
           H == fillGraphWithFunction(p, tar, G, f, u)
           N == IF f = p.start THEN B \cup {Entry, Exit} ELSE B
           calling == B \cap DOMAIN p.calls
           E == {e \in p.succ : e[1] \in B}
<1>0. DOMAIN G = GraphFields
  BY DEF IsFilled
<1>1. /\ DOMAIN H = GraphFields
      /\ H.Nodes = G.Nodes \cup N
      /\ H.Edges = G.Edges \cup E \cup (IF f = p.start THEN wireEntryExit(p.layout[f], p.returns \cap B) ELSE {})
      /\ H.Cycles = [n \in DOMAIN G.Cycles \cup N |->
                        IF n \in B THEN p.latency[n] ELSE IF n \in N THEN 0 ELSE G.Cycles[n]]
  BY <1>0 DEF fillGraphWithFunction, GraphFields
<1>2. /\ H.CallSites = G.CallSites \cup {siteOf(p, b) : b \in {c \in calling : p.calls[c] \notin p.symbols}}
      /\ H.ExternalSymbolCallSites =
                        G.ExternalSymbolCallSites \cup {<<b, p.calls[b]>> : b \in {c \in calling : p.calls[c] \in p.symbols}}
  BY <1>0 DEF fillGraphWithFunction, GraphFields, siteOf
<1>3. /\ H.FunctionToEntryNodeMap = G.FunctionToEntryNodeMap \cup (IF B = {} THEN {} ELSE {<<f, p.layout[f][1]>>})
      /\ H.FunctionToReturnNodesMap = G.FunctionToReturnNodesMap \cup ({f} \X (p.returns \cap B))
  BY <1>0 DEF fillGraphWithFunction, GraphFields
<1> HIDE DEF H
<1>4. B \subseteq Blocks(p) /\ B # {}
  BY EntryBlocks
<1>5. blocksOfAll(p, F \cup {f}) = blocksOfAll(p, F) \cup B
  BY <1>4 DEF blocksOfAll
<1>6. H.Nodes = blocksOfAll(p, F \cup {f}) \cup syntheticNodes(p, F \cup {f})
  BY <1>1, <1>5 DEF IsFilled, syntheticNodes
<1>7. H.Edges = {e \in p.succ : e[1] \in blocksOfAll(p, F \cup {f})} \cup wiredEdges(p, F \cup {f})
  BY <1>1, <1>5 DEF IsFilled, wiredEdges
<1>8. callBlocks(p, F \cup {f}) = callBlocks(p, F) \cup calling
  BY <1>5 DEF callBlocks
<1>9. H.CallSites = {siteOf(p, b) : b \in {c \in callBlocks(p, F \cup {f}) : p.calls[c] \notin p.symbols}}
  BY <1>2, <1>8 DEF IsFilled
<1>10. H.ExternalSymbolCallSites =
          {<<b, p.calls[b]>> : b \in {c \in callBlocks(p, F \cup {f}) : p.calls[c] \in p.symbols}}
  BY <1>2, <1>8 DEF IsFilled
<1>11. H.FunctionToEntryNodeMap = {<<g, p.layout[g][1]>> : g \in F \cup {f}}
  BY <1>3, <1>4 DEF IsFilled
<1>12. H.FunctionToReturnNodesMap = {m \in (F \cup {f}) \X p.returns : m[2] \in BlocksOf(p, m[1])}
  BY <1>3 DEF IsFilled
<1>13. H.Cycles = [n \in H.Nodes |-> IF n \in Blocks(p) THEN p.latency[n] ELSE 0]
  <2>1. DOMAIN G.Cycles = G.Nodes
    BY DEF IsFilled
  <2>2. \A n \in N \ B : n \notin Blocks(p)
    BY DEF WellFormed
  <2> QED
    BY <1>1, <1>4, <2>1, <2>2 DEF IsFilled
<1>14. IsFilled(p, H, F \cup {f})
  BY <1>1, <1>6, <1>7, <1>9, <1>10, <1>11, <1>12, <1>13 DEF IsFilled
<1> QED
  BY <1>14 DEF H

-----------------------------------------------------------------------------
(***************************************************************************)
(* The finalised graph in terms of the program.                             *)
(***************************************************************************)
\* Call blocks whose callee has no body.
externalBlocks(p) == {b \in DOMAIN p.calls : p.calls[b] \notin Defined(p)}
chargedOf(p, b) ==
  p.latency[b] + IF b \in externalBlocks(p) /\ p.calls[b] \in DOMAIN p.libCost THEN p.libCost[p.calls[b]] ELSE 0

\* Who calls whom, bodies or not; a function is recursive when a callee of it
\* comes back to it.
calledFrom(p) == {<<ownerOf(p, b), p.calls[b]>> : b \in {c \in DOMAIN p.calls : p.calls[c] \notin p.symbols}}
callNodes(p) == {a[1] : a \in calledFrom(p)} \cup {a[2] : a \in calledFrom(p)}
isRecursive(p, f) ==
  \E g \in callNodes(p) : <<f, g>> \in calledFrom(p) /\ f \in closure(g, calledFrom(p), callNodes(p))

ReportsRecursion(p, M) ==
  \A f \in Defined(p) \ {p.start} : firstBlockOf(p, f) \in M.Nodes /\ isRecursive(p, f) =>
    f \in M.BoundedRecursionFunctions \cup M.UnboundedRecursionFunctions \cup M.MutualRecursionFunctions

IsFinal(p, M) ==
  /\ ReportsRecursion(p, M)
  /\ M.Nodes = closure(Entry, programEdges(p), programNodes(p))
  /\ M.Edges = detached(programEdges(p), M.Nodes)
  /\ M.Cycles = [n \in M.Nodes |-> IF n \in Blocks(p) THEN chargedOf(p, n) ELSE 0]
  /\ M.UnsoundExternalCallees =
       {p.calls[b] : b \in {c \in externalBlocks(p) : p.calls[c] \notin DOMAIN p.libCost /\ c \in M.Nodes}}
  /\ M.CallSites = {siteOf(p, b) : b \in {c \in DOMAIN p.calls : p.calls[c] \notin p.symbols}}
  /\ M.FunctionToEntryNodeMap = {<<f, firstBlockOf(p, f)>> : f \in Defined(p)}
  /\ M.FunctionToReturnNodesMap = {m \in Defined(p) \X p.returns : m[2] \in BlocksOf(p, m[1])}

LEMMA AllBlocks ==
  ASSUME NEW p, WellFormed(p)
  PROVE  /\ blocksOfAll(p, Defined(p)) = Blocks(p)
         /\ syntheticNodes(p, Defined(p)) = {Entry, Exit}
         /\ wiredEdges(p, Defined(p)) = entryEdges(p)
         /\ callBlocks(p, Defined(p)) = DOMAIN p.calls
<1>1. blocksOfAll(p, Defined(p)) = Blocks(p)
  BY DEF blocksOfAll, Blocks
<1> QED
  BY <1>1 DEF WellFormed, syntheticNodes, wiredEdges, entryEdges, callBlocks

LEMMA Owners ==
  ASSUME NEW p, WellFormed(p), NEW b \in Blocks(p)
  PROVE  /\ ownerOf(p, b) \in Defined(p)
         /\ b \in BlocksOf(p, ownerOf(p, b))
         /\ \A f \in Defined(p) : b \in BlocksOf(p, f) => f = ownerOf(p, b)
<1>1. \E f \in Defined(p) : b \in BlocksOf(p, f)
  BY DEF Blocks
<1>2. ownerOf(p, b) \in Defined(p) /\ b \in BlocksOf(p, ownerOf(p, b))
  BY <1>1 DEF ownerOf
<1> QED
  BY <1>2 DEF WellFormed

LEMMA Positions ==
  ASSUME NEW p, WellFormed(p), NEW b \in Blocks(p)
  PROVE  \E f \in Defined(p) : \E i \in DOMAIN p.layout[f] : b = p.layout[f][i]
BY DEF Blocks, BlocksOf, Range

\* A call has one landing, which no other call has.
LEMMA Landings ==
  ASSUME NEW p, WellFormed(p), NEW b \in DOMAIN p.calls
  PROVE  /\ landingOf(p, b) = succOf(p, b)
         /\ \A a \in DOMAIN p.calls : succOf(p, a) \cap succOf(p, b) # {} => a = b
<1>0. DOMAIN p.calls \subseteq Blocks(p)
  BY DEF WellFormed
<1>1. PICK f \in Defined(p) : \E i \in DOMAIN p.layout[f] : b = p.layout[f][i]
  BY <1>0, Positions
<1>2. PICK i \in DOMAIN p.layout[f] : b = p.layout[f][i]
  BY <1>1
<1>3. \A c \in succOf(p, b) : i + 1 \in DOMAIN p.layout[f] /\ c = p.layout[f][i + 1]
  BY <1>2 DEF WellFormed
<1>4. landingOf(p, b) = succOf(p, b)
  BY <1>3 DEF landingOf
<1>5. ASSUME NEW a \in DOMAIN p.calls, NEW c \in succOf(p, a), c \in succOf(p, b) PROVE a = b
  <2>1. PICK g \in Defined(p) : \E j \in DOMAIN p.layout[g] : a = p.layout[g][j]
    BY <1>0, Positions
  <2>2. PICK j \in DOMAIN p.layout[g] : a = p.layout[g][j]
    BY <2>1
  <2>3. j + 1 \in DOMAIN p.layout[g] /\ c = p.layout[g][j + 1]
    BY <1>5, <2>2 DEF WellFormed
  <2>4. i + 1 \in DOMAIN p.layout[f] /\ c = p.layout[f][i + 1]
    BY <1>3, <1>5
  <2>5. f = g
    <3>1. c \in BlocksOf(p, f) /\ c \in BlocksOf(p, g)
      BY <2>3, <2>4 DEF BlocksOf, Range
    <3> QED
      BY <3>1 DEF WellFormed
  <2>6. i + 1 = j + 1
    BY <2>3, <2>4, <2>5 DEF WellFormed
  <2>7. i \in Nat /\ j \in Nat
    BY <1>2, <2>2 DEF WellFormed
  <2> QED
    BY <1>2, <2>2, <2>5, <2>6, <2>7
<1> QED
  BY <1>4, <1>5

LEMMA Wiring ==
  ASSUME NEW p, WellFormed(p), NEW G, IsFilled(p, G, Defined(p))
  PROVE  /\ \A f \in Defined(p) : entryNodes(G, f) = {firstBlockOf(p, f)}
         /\ \A f : f \notin Defined(p) => entryNodes(G, f) = {}
         /\ \A f \in Defined(p) : returnNodes(G, f) = p.returns \cap BlocksOf(p, f)
         /\ wiredCalls(p, G) = {siteOf(p, b) : b \in wiredBlocks(p)}
         /\ G.Nodes = programNodes(p)
         /\ G.Edges \cup callEdges(p, G) \cup returnEdges(p, G) = programEdges(p)
<1>1. \A f \in Defined(p) : entryNodes(G, f) = {firstBlockOf(p, f)}
  <2> SUFFICES ASSUME NEW f \in Defined(p) PROVE entryNodes(G, f) = {firstBlockOf(p, f)}
    OBVIOUS
  <2> DEFINE S == {e \in G.FunctionToEntryNodeMap : e[1] = f}
  <2>1. S = {<<f, firstBlockOf(p, f)>>}
    BY DEF IsFilled, firstBlockOf
  <2>2. entryNodes(G, f) = {m[2] : m \in S}
    BY DEF entryNodes
  <2> HIDE DEF S
  <2> QED
    BY <2>1, <2>2
<1>2. \A f : f \notin Defined(p) => entryNodes(G, f) = {}
  BY DEF entryNodes, IsFilled
<1>3. \A f \in Defined(p) : returnNodes(G, f) = p.returns \cap BlocksOf(p, f)
  <2> SUFFICES ASSUME NEW f \in Defined(p) PROVE returnNodes(G, f) = p.returns \cap BlocksOf(p, f)
    OBVIOUS
  <2> DEFINE S == {e \in G.FunctionToReturnNodesMap : e[1] = f}
  <2>1. S = {<<f, r>> : r \in p.returns \cap BlocksOf(p, f)}
    BY DEF IsFilled
  <2>2. returnNodes(G, f) = {m[2] : m \in S}
    BY DEF returnNodes
  <2> HIDE DEF S
  <2>3. ASSUME NEW r \in p.returns \cap BlocksOf(p, f) PROVE r \in returnNodes(G, f)
    <3>1. <<f, r>> \in S /\ <<f, r>>[2] = r
      BY <2>1
    <3> QED
      BY <2>2, <3>1
  <2>4. \A m \in S : m[2] \in p.returns \cap BlocksOf(p, f)
    BY <2>1
  <2> QED
    BY <2>2, <2>3, <2>4
<1>4. G.CallSites = {siteOf(p, b) : b \in {c \in DOMAIN p.calls : p.calls[c] \notin p.symbols}}
  BY AllBlocks DEF IsFilled
<1>5. wiredCalls(p, G) = {siteOf(p, b) : b \in wiredBlocks(p)}
  <2>1. \A b \in DOMAIN p.calls : siteOf(p, b).callee = p.calls[b]
    BY DEF siteOf
  <2>2. \A b \in DOMAIN p.calls :
          b \in wiredBlocks(p) <=> p.calls[b] \notin p.symbols /\ p.calls[b] # p.start /\ entryNodes(G, p.calls[b]) # {}
    <3>1. \A b \in DOMAIN p.calls : p.calls[b] \in Defined(p) => p.calls[b] \notin p.symbols
      BY DEF WellFormed
    <3>2. \A b \in DOMAIN p.calls : p.calls[b] \in Defined(p) <=> entryNodes(G, p.calls[b]) # {}
      BY <1>1, <1>2
    <3> QED
      BY <3>1, <3>2 DEF wiredBlocks
  <2>3. wiredBlocks(p) \subseteq DOMAIN p.calls
    BY DEF wiredBlocks
  <2> QED
    BY <1>4, <2>1, <2>2, <2>3 DEF wiredCalls
<1>6. callEdges(p, G) = callEdgesOf(p)
  <2>1. \A b \in wiredBlocks(p) : {siteOf(p, b).node} \X entryNodes(G, siteOf(p, b).callee) = {<<b, firstBlockOf(p, p.calls[b])>>}
    BY <1>1 DEF wiredBlocks, siteOf
  <2> QED
    BY <1>5, <2>1 DEF callEdges, callEdgesOf
<1>7. returnEdges(p, G) = returnEdgesOf(p)
  <2>1. \A b \in wiredBlocks(p) : returnNodes(G, siteOf(p, b).callee) \X siteOf(p, b).landing
                                    = (p.returns \cap BlocksOf(p, p.calls[b])) \X succOf(p, b)
    BY <1>3, Landings DEF wiredBlocks, siteOf
  <2>2. \A b \in wiredBlocks(p) : BlocksOf(p, p.calls[b]) \subseteq Blocks(p) /\ succOf(p, b) \subseteq Blocks(p)
    BY EntryBlocks DEF wiredBlocks, succOf
  <2> QED
    BY <1>5, <2>1, <2>2 DEF returnEdges, returnEdgesOf
<1>8. G.Nodes = programNodes(p)
  BY AllBlocks DEF IsFilled, programNodes
<1>9. G.Edges = p.succ \cup entryEdges(p)
  <2>1. p.succ \subseteq Blocks(p) \X Blocks(p)
    BY DEF WellFormed
  <2>2. G.Edges = {e \in p.succ : e[1] \in Blocks(p)} \cup entryEdges(p)
    BY AllBlocks DEF IsFilled
  <2> QED
    BY <2>1, <2>2
<1> QED
  BY <1>1, <1>2, <1>3, <1>5, <1>6, <1>7, <1>8, <1>9 DEF programEdges

LEMMA CallGraphOfGraph ==
  ASSUME NEW p, WellFormed(p), NEW G, IsFilled(p, G, Defined(p))
  PROVE  callAdj(p, G) = calledFrom(p)
<1>1. G.CallSites = {siteOf(p, b) : b \in {c \in DOMAIN p.calls : p.calls[c] \notin p.symbols}}
  BY AllBlocks DEF IsFilled
<1>2. \A b : siteOf(p, b).node = b /\ siteOf(p, b).callee = p.calls[b]
  BY DEF siteOf
<1> QED
  BY <1>1, <1>2 DEF callAdj, calledFrom

\* A function that is recursive through another one is in a cycle of the call graph.
LEMMA RecursiveIsInCycle ==
  ASSUME NEW p, NEW G, callAdj(p, G) = calledFrom(p),
         NEW f, NEW g \in callNodes(p), f # g, <<f, g>> \in calledFrom(p),
         f \in closure(g, calledFrom(p), callNodes(p))
  PROVE  \E scc \in callCycles(p, G) : f \in scc
<1> DEFINE adj == calledFrom(p)
           F == callNodes(p)
           reached == [h \in F |-> closure(h, adj, F)]
           inCycle == UNION {{a[1], a[2]} : a \in {b \in adj : b[1] # b[2] /\ b[1] \in reached[b[2]]}}
<1>1. callCycles(p, G) = {{k \in inCycle : k \in reached[h] /\ h \in reached[k]} : h \in inCycle}
  BY DEF callCycles, callNodes
<1>2. <<f, g>> \in {b \in adj : b[1] # b[2] /\ b[1] \in reached[b[2]]}
  OBVIOUS
<1>3. f \in inCycle
  BY <1>2
<1>4. f \in F
  BY DEF callNodes
<1>5. f \in reached[f]
  BY <1>4, ClosureRoot
<1> DEFINE scc(h) == {k \in inCycle : k \in reached[h] /\ h \in reached[k]}
<1>6. scc(f) \in callCycles(p, G)
  BY <1>1, <1>3
<1>7. f \in scc(f)
  BY <1>3, <1>5
<1> QED
  BY <1>6, <1>7

LEMMA RecursionReports ==
  ASSUME NEW p, WellFormed(p), NEW tar, NEW rank, NEW G, IsFilled(p, G, Defined(p))
  PROVE  ReportsRecursion(p, finalize(p, tar, G, rank))
<1> DEFINE M == finalize(p, tar, G, rank)
           kept == closure(Entry, programEdges(p), programNodes(p))
           live(F) == {f \in F : entryNodes(G, f) \cap kept # {}}
           selfRec == selfRecursive(p, G)
           boundedCycles == {scc \in callCycles(p, G) : allHeadersBounded(p, tar, G, scc, rank)}
<1>0. DOMAIN G = GraphFields /\ Entry \in G.Nodes
  <2>1. DOMAIN G = GraphFields
    BY DEF IsFilled
  <2>2. Entry \in programNodes(p) /\ G.Nodes = programNodes(p)
    BY Wiring DEF programNodes
  <2> QED
    BY <2>1, <2>2
<1>1. /\ M.Nodes = kept
      /\ M.BoundedRecursionFunctions = live({f \in selfRec : bounded(tar, f)} \cup UNION boundedCycles)
      /\ M.UnboundedRecursionFunctions = live({f \in selfRec : ~bounded(tar, f)})
      /\ M.MutualRecursionFunctions = live(UNION (callCycles(p, G) \ boundedCycles))
  BY <1>0, Wiring DEF finalize, GraphFields
<1>2. SUFFICES ASSUME NEW f \in Defined(p) \ {p.start}, firstBlockOf(p, f) \in kept, isRecursive(p, f)
               PROVE  f \in live(selfRec) \cup live(UNION callCycles(p, G))
  <2> HIDE DEF M, kept, selfRec
  <2> SUFFICES ASSUME NEW f \in Defined(p) \ {p.start}, firstBlockOf(p, f) \in M.Nodes, isRecursive(p, f)
               PROVE  f \in M.BoundedRecursionFunctions \cup M.UnboundedRecursionFunctions \cup M.MutualRecursionFunctions
    BY DEF ReportsRecursion, M
  <2>1. f \in live(selfRec) \cup live(UNION callCycles(p, G))
    BY <1>1, <1>2
  <2> QED
    BY <1>1, <2>1
<1>3. entryNodes(G, f) \cap kept # {}
  BY <1>2, Wiring
<1>4. PICK g \in callNodes(p) : <<f, g>> \in calledFrom(p) /\ f \in closure(g, calledFrom(p), callNodes(p))
  BY <1>2 DEF isRecursive
<1>5. CASE f = g
  <2>1. PICK b \in DOMAIN p.calls : ownerOf(p, b) = f /\ p.calls[b] = f
    BY <1>4, <1>5 DEF calledFrom
  <2>2. siteOf(p, b) \in wiredCalls(p, G)
    BY <1>2, <2>1, Wiring DEF wiredBlocks
  <2>3. f \in selfRec
    BY <1>2, <2>1, <2>2 DEF selfRecursive, siteOf
  <2> QED
    BY <1>3, <2>3
<1>6. CASE f # g
  <2>1. f \in UNION callCycles(p, G)
    BY <1>4, <1>6, CallGraphOfGraph, RecursiveIsInCycle
  <2> QED
    BY <1>3, <2>1
<1> QED
  BY <1>5, <1>6

LEMMA FinalizeIsFinal ==
  ASSUME NEW p, WellFormed(p), Entry # Exit, NEW tar, NEW rank, NEW G, IsFilled(p, G, Defined(p))
  PROVE  IsFinal(p, finalize(p, tar, G, rank))
<1> DEFINE M == finalize(p, tar, G, rank)
           kept == closure(Entry, programEdges(p), programNodes(p))
<1>0. DOMAIN G = GraphFields
  BY DEF IsFilled
<1>1. Entry \in G.Nodes
  BY Wiring DEF programNodes
<1>2. /\ M.Nodes = kept
      /\ M.Edges = detached(programEdges(p), kept)
      /\ M.Cycles = [n \in kept |-> IF charged(p, G, n) THEN G.Cycles[n] + p.libCost[p.calls[n]] ELSE G.Cycles[n]]
      /\ M.UnsoundExternalCallees =
           {c[2] : c \in {d \in externalCalls(p, G) : d[2] \notin DOMAIN p.libCost /\ d[1] \in kept}}
  BY <1>0, <1>1, Wiring DEF finalize, GraphFields
<1>3. /\ M.CallSites = G.CallSites
      /\ M.FunctionToEntryNodeMap = G.FunctionToEntryNodeMap
      /\ M.FunctionToReturnNodesMap = G.FunctionToReturnNodesMap
  BY <1>0 DEF finalize, GraphFields
<1> HIDE DEF M
<1>4. externalCalls(p, G) = {<<b, p.calls[b]>> : b \in externalBlocks(p)}
  <2>1. G.ExternalSymbolCallSites = {<<b, p.calls[b]>> : b \in {c \in DOMAIN p.calls : p.calls[c] \in p.symbols}}
    BY AllBlocks DEF IsFilled
  <2>2. {<<cs.node, cs.callee>> : cs \in {c \in G.CallSites : c.callee \notin Defined(p)}}
          = {<<b, p.calls[b]>> : b \in {c \in DOMAIN p.calls : p.calls[c] \notin p.symbols /\ p.calls[c] \notin Defined(p)}}
    <3>1. G.CallSites = {siteOf(p, b) : b \in {c \in DOMAIN p.calls : p.calls[c] \notin p.symbols}}
      BY AllBlocks DEF IsFilled
    <3>2. \A b : siteOf(p, b).node = b /\ siteOf(p, b).callee = p.calls[b]
      BY DEF siteOf
    <3> QED
      BY <3>1, <3>2
  <2>3. \A b \in DOMAIN p.calls : p.calls[b] \in p.symbols => p.calls[b] \notin Defined(p)
    BY DEF WellFormed
  <2> QED
    BY <2>1, <2>2, <2>3 DEF externalCalls, externalBlocks
<1>5. \A n : charged(p, G, n) <=> n \in externalBlocks(p) /\ p.calls[n] \in DOMAIN p.libCost
  <2>1. ASSUME NEW n, charged(p, G, n) PROVE n \in externalBlocks(p) /\ p.calls[n] \in DOMAIN p.libCost
    <3>1. PICK c \in externalCalls(p, G) : c[1] = n /\ c[2] \in DOMAIN p.libCost
      BY <2>1 DEF charged
    <3>2. PICK b \in externalBlocks(p) : c = <<b, p.calls[b]>>
      BY <1>4
    <3> QED
      BY <3>1, <3>2
  <2>2. ASSUME NEW n \in externalBlocks(p), p.calls[n] \in DOMAIN p.libCost PROVE charged(p, G, n)
    <3>1. <<n, p.calls[n]>> \in externalCalls(p, G)
      BY <1>4
    <3> QED
      BY <2>2, <3>1 DEF charged
  <2> QED
    BY <2>1, <2>2
<1>6. kept \subseteq programNodes(p)
  BY ClosureWithin
<1>7. M.Cycles = [n \in kept |-> IF n \in Blocks(p) THEN chargedOf(p, n) ELSE 0]
  <2>1. \A n \in kept : G.Cycles[n] = IF n \in Blocks(p) THEN p.latency[n] ELSE 0
    BY <1>6, Wiring DEF IsFilled
  <2>2. externalBlocks(p) \subseteq Blocks(p)
    BY DEF externalBlocks, WellFormed
  <2>3. \A n \in Blocks(p) : p.latency[n] \in Nat
    BY DEF WellFormed
  <2> QED
    BY <1>2, <1>5, <2>1, <2>2, <2>3 DEF chargedOf
<1>8. M.UnsoundExternalCallees =
        {p.calls[b] : b \in {c \in externalBlocks(p) : p.calls[c] \notin DOMAIN p.libCost /\ c \in kept}}
  <2> DEFINE unknown == {d \in externalCalls(p, G) : d[2] \notin DOMAIN p.libCost /\ d[1] \in kept}
             Y == {c \in externalBlocks(p) : p.calls[c] \notin DOMAIN p.libCost /\ c \in kept}
  <2>1. unknown = {<<b, p.calls[b]>> : b \in Y}
    BY <1>4
  <2>2. M.UnsoundExternalCallees = {c[2] : c \in unknown}
    BY <1>2
  <2> HIDE DEF unknown, Y
  <2>3. ASSUME NEW b \in Y PROVE p.calls[b] \in {c[2] : c \in unknown}
    <3>1. <<b, p.calls[b]>> \in unknown /\ <<b, p.calls[b]>>[2] = p.calls[b]
      BY <2>1
    <3> QED
      BY <3>1
  <2>4. M.UnsoundExternalCallees = {p.calls[b] : b \in Y}
    BY <2>1, <2>2, <2>3
  <2> QED
    BY <2>4 DEF Y
<1>9. M.CallSites = {siteOf(p, b) : b \in {c \in DOMAIN p.calls : p.calls[c] \notin p.symbols}}
  BY <1>3, AllBlocks DEF IsFilled
<1>10. ReportsRecursion(p, M)
  BY RecursionReports DEF M
<1>11. /\ M.FunctionToEntryNodeMap = {<<f, firstBlockOf(p, f)>> : f \in Defined(p)}
       /\ M.FunctionToReturnNodesMap = {m \in Defined(p) \X p.returns : m[2] \in BlocksOf(p, m[1])}
  BY <1>3 DEF IsFilled, firstBlockOf
<1>12. IsFinal(p, M)
  BY <1>2, <1>7, <1>8, <1>9, <1>10, <1>11 DEF IsFinal
<1> QED
  BY <1>12 DEF M

-----------------------------------------------------------------------------
(***************************************************************************)
(* What the passes have built: the graph of the functions so far, then the   *)
(* finalised graph.                                                         *)
(***************************************************************************)
seen == {program.order[k] : k \in 1 .. next}

AnalysisInv ==
  /\ program \in Programs
  /\ next \in 0 .. Len(program.order)
  /\ aggregated \in {next, next + 1} /\ aggregated <= Len(program.order)
  /\ next < Len(program.order) => IsFilled(program, MASG, seen)
  /\ next = Len(program.order) => IsFinal(program, MASG)
  /\ ASG # NoGraph => next = Len(program.order) /\ ASG = initializeGraph(MASG)

LEMMA AnalysisInit == Init => AnalysisInv
<1> SUFFICES ASSUME Init PROVE AnalysisInv
  OBVIOUS
<1>1. WellFormed(program)
  BY ProgramsAreWellFormed DEF Init
<1>2. Len(program.order) \in Nat /\ Len(program.order) > 0
  BY <1>1 DEF WellFormed, Defined, Range
<1>3. seen = {}
  BY DEF seen, Init
<1> QED
  BY <1>2, <1>3, EmptyIsFilled DEF AnalysisInv, Init

LEMMA AnalysisStep == AnalysisInv /\ [Next]_vars => AnalysisInv'
<1> SUFFICES ASSUME AnalysisInv, [Next]_vars PROVE AnalysisInv'
  OBVIOUS
<1> DEFINE L == Len(program.order)
<1>0. WellFormed(program) /\ Entry # Exit
  BY ProgramsAreWellFormed DEF AnalysisInv
<1>1. L \in Nat /\ program.order \in Seq(DOMAIN program.layout)
  BY <1>0 DEF WellFormed
<1>2. CASE UNCHANGED analysis
  BY <1>2 DEF AnalysisInv, analysis, seen
<1>3. CASE ExportBounds
  BY <1>3 DEF AnalysisInv, ExportBounds, seen
<1>4. CASE AggregateLoopBounds
  BY <1>1, <1>4 DEF AnalysisInv, AggregateLoopBounds, seen
<1>5. CASE FillMuGraph
  <2> DEFINE f == program.order[next + 1]
  <2>1. next + 1 \in 1 .. L /\ next \in Nat /\ aggregated = next + 1
    BY <1>1, <1>5 DEF AnalysisInv, FillMuGraph
  <2>2. f \in Defined(program) /\ seen \subseteq Defined(program)
    BY <1>1, <2>1 DEF Defined, Range, seen
  <2>3. seen' = seen \cup {f}
    <3>1. 1 .. (next + 1) = (1 .. next) \cup {next + 1}
      BY <2>1
    <3> QED
      BY <1>5, <3>1 DEF seen, FillMuGraph
  <2>4. PICK u \in Uninitialised :
          LET filled == fillGraphWithFunction(program, TAR, MASG, f, u)
          IN  \/ ~IsLast /\ MASG' = filled
              \/ IsLast /\ \E rank \in addressOrders(program) : MASG' = finalize(program, TAR, filled, rank)
    BY <1>5 DEF FillMuGraph
  <2> DEFINE filled == fillGraphWithFunction(program, TAR, MASG, f, u)
  <2>5. IsFilled(program, filled, seen \cup {f})
    BY <1>0, <2>1, <2>2, FillAddsFunction DEF AnalysisInv
  <2>6. /\ program' = program /\ next' = next + 1 /\ aggregated' = aggregated /\ ASG' = ASG
        /\ ASG = NoGraph
    BY <1>5, <2>1 DEF FillMuGraph, AnalysisInv
  <2>7. CASE ~IsLast
    <3>1. MASG' = filled /\ next' < L
      BY <2>1, <2>4, <2>6, <2>7 DEF IsLast
    <3> QED
      BY <2>1, <2>3, <2>5, <2>6, <3>1 DEF AnalysisInv
  <2>8. CASE IsLast
    <3>1. seen \cup {f} = Defined(program)
      BY <1>1, <2>1, <2>2, <2>3, <2>6, <2>8 DEF IsLast, seen, Defined, Range
    <3>2. PICK rank \in addressOrders(program) : MASG' = finalize(program, TAR, filled, rank)
      BY <2>4, <2>8
    <3>3. IsFinal(program, MASG')
      <4> HIDE DEF filled
      <4> QED
        BY <1>0, <2>5, <3>1, <3>2, FinalizeIsFinal
    <3> QED
      BY <2>1, <2>6, <2>8, <3>3 DEF AnalysisInv, IsLast
  <2> QED
    BY <2>7, <2>8
<1>6. CASE SolvePaths
  BY <1>6 DEF AnalysisInv, SolvePaths, seen
<1> QED
  BY <1>2, <1>3, <1>4, <1>5, <1>6
     DEF Next, vars, Begin, Branch, Call, Return, Leave

-----------------------------------------------------------------------------
(***************************************************************************)
(* The state of an execution.                                              *)
(***************************************************************************)
Counts == UNION {[S -> Nat] : S \in SUBSET DOMAIN program.body}
Frames == [node : {b \in DOMAIN program.calls : calls(b)}, iterations : Counts]

ExecutionTypes ==
  /\ at \in Blocks(program) \cup {Entry, Exit}
  /\ IsABag(x) /\ IsABag(y) /\ elapsed \in Nat
  /\ stack \in Seq(Frames)
  /\ iterations \in Counts
  /\ ASG = NoGraph => at = Entry

TypeInv == AnalysisInv /\ ExecutionTypes

LEMMA BagAdd ==
  ASSUME NEW B, IsABag(B), NEW e
  PROVE  /\ IsABag(B (+) SetToBag({e}))
         /\ DOMAIN (B (+) SetToBag({e})) = DOMAIN B \cup {e}
         /\ \A d : copies(d, B (+) SetToBag({e})) = copies(d, B) + IF d = e THEN 1 ELSE 0
         /\ \A d : copies(d, B) \in Nat
<1>1. \A d \in DOMAIN B : B[d] \in Nat /\ B[d] > 0
  BY DEF IsABag
<1>2. B (+) SetToBag({e}) = [d \in DOMAIN B \cup {e} |-> (IF d \in DOMAIN B THEN B[d] ELSE 0) + IF d = e THEN 1 ELSE 0]
  BY DEF (+), SetToBag
<1> QED
  BY <1>1, <1>2 DEF IsABag, copies, BagIn, BagToSet

LEMMA SingletonBag ==
  ASSUME NEW e
  PROVE  /\ IsABag(SetToBag({e})) /\ DOMAIN SetToBag({e}) = {e}
         /\ \A d : copies(d, SetToBag({e})) = IF d = e THEN 1 ELSE 0
         /\ IsABag(EmptyBag) /\ DOMAIN EmptyBag = {} /\ \A d : copies(d, EmptyBag) = 0
BY DEF IsABag, SetToBag, EmptyBag, copies, BagIn, BagToSet

LEMMA CountedType ==
  ASSUME NEW it \in Counts, NEW b, NEW c
  PROVE  counted(it, b, c) \in Counts
<1>1. PICK S \in SUBSET DOMAIN program.body : it \in [S -> Nat]
  BY DEF Counts
<1> DEFINE headers == DOMAIN program.body
           entered == {h \in headers : c \in program.body[h] /\ b \notin program.body[h]}
           D == {h \in DOMAIN it \ entered : c \in program.body[h]} \cup (headers \cap {c})
<1>2. D \in SUBSET headers
  BY <1>1
<1>3. \A h : copies(h, it) \in Nat
  BY <1>1 DEF copies, BagIn, BagToSet
<1>4. counted(it, b, c) = [h \in D |-> IF h # c THEN it[h] ELSE IF h \in entered THEN 1 ELSE copies(h, it) + 1]
  BY DEF counted
<1>5. \A h \in D : h # c => it[h] \in Nat
  BY <1>1
<1>6. counted(it, b, c) \in [D -> Nat]
  BY <1>3, <1>4, <1>5
<1> QED
  BY <1>2, <1>6 DEF Counts

LEMMA CounterType ==
  ASSUME NEW f PROVE counter(f) \in Counts
<1>1. EmptyBag \in [{} -> Nat]
  BY DEF EmptyBag, SetToBag
<1>2. EmptyBag \in Counts
  BY <1>1 DEF Counts
<1> QED
  BY <1>2, CountedType DEF counter

LEMMA CostType ==
  ASSUME AnalysisInv, NEW b \in Blocks(program)
  PROVE  costOf(b) \in Nat
<1>1. WellFormed(program)
  BY ProgramsAreWellFormed DEF AnalysisInv
<1> QED
  BY <1>1 DEF WellFormed, costOf, calleeOf

LEMMA TakeTypes ==
  ASSUME ExecutionTypes, NEW to \in Blocks(program) \cup {Entry, Exit}, NEW cost \in Nat, Take(to, cost)
  PROVE  /\ at' = to /\ IsABag(x') /\ IsABag(y') /\ elapsed' \in Nat
<1>1. IsABag(x) /\ IsABag(y) /\ elapsed \in Nat
  BY DEF ExecutionTypes
<1>2. x' = x (+) SetToBag({to}) /\ y' = y (+) SetToBag({<<at, to>>}) /\ elapsed' = elapsed + cost /\ at' = to
  BY DEF Take
<1>3. IsABag(x') /\ IsABag(y')
  BY <1>1, <1>2, BagAdd
<1> QED
  BY <1>1, <1>2, <1>3

LEMMA TypeInvInit == Init => TypeInv
<1> SUFFICES ASSUME Init PROVE TypeInv
  OBVIOUS
<1>1. EmptyBag \in [{} -> Nat]
  BY DEF EmptyBag, SetToBag
<1>2. iterations \in Counts
  BY <1>1 DEF Counts, Init
<1>3. IsABag(x) /\ IsABag(y)
  BY SingletonBag DEF Init
<1>4. stack \in Seq(Frames)
  BY DEF Init
<1> QED
  BY <1>2, <1>3, <1>4, AnalysisInit DEF TypeInv, ExecutionTypes, Init

LEMMA TypeInvStep == TypeInv /\ [Next]_vars => TypeInv'
<1> SUFFICES ASSUME TypeInv, [Next]_vars PROVE ExecutionTypes'
  BY AnalysisStep DEF TypeInv
<1>0. WellFormed(program) /\ AnalysisInv /\ ExecutionTypes
  BY ProgramsAreWellFormed DEF AnalysisInv, TypeInv
<1>1. CASE UNCHANGED execution /\ program' = program /\ (ASG' = NoGraph => ASG = NoGraph)
  BY <1>0, <1>1 DEF ExecutionTypes, execution, Counts, Frames, calls
<1>2. ASSUME UNCHANGED analysis
      PROVE  /\ Counts' = Counts /\ Frames' = Frames
             /\ (Blocks(program) \cup {Entry, Exit})' = Blocks(program) \cup {Entry, Exit}
  BY <1>2 DEF analysis, Counts, Frames, calls
<1>3. \A f \in Defined(program) : firstBlock(f) \in Blocks(program)
  BY <1>0, EntryBlocks DEF firstBlock
<1>4. CASE Begin
  <2>1. firstBlock(program.start) \in Blocks(program)
    BY <1>0, <1>3 DEF WellFormed
  <2> QED
    BY <1>0, <1>2, <1>4, <2>1, CostType, CounterType, TakeTypes DEF Begin, ExecutionTypes, analysis
<1>5. CASE Branch
  <2>1. PICK c \in succOf(program, at) : /\ iterations' = counted(iterations, at, c)
                                         /\ Take(c, costOf(c))
    BY <1>5 DEF Branch
  <2>2. c \in Blocks(program)
    BY DEF succOf
  <2> QED
    BY <1>0, <1>2, <1>5, <2>1, <2>2, CostType, CountedType, TakeTypes DEF Branch, ExecutionTypes, analysis, inBlock
<1>6. CASE Call
  <2> DEFINE f == calleeOf(at)
  <2>1. f \in Defined(program) /\ at \in DOMAIN program.calls
    BY <1>6 DEF Call, calls, calleeOf
  <2>2. [node |-> at, iterations |-> iterations] \in Frames
    BY <1>0, <1>6, <2>1 DEF Frames, ExecutionTypes, Call
  <2>3. stack' \in Seq(Frames)
    <3>1. stack' = <<[node |-> at, iterations |-> iterations]>> \o stack
      BY <1>6 DEF Call
    <3> QED
      BY <1>0, <2>2, <3>1 DEF ExecutionTypes
  <2> QED
    BY <1>0, <1>2, <1>3, <1>6, <2>1, <2>3, CostType, CounterType, TakeTypes DEF Call, ExecutionTypes, analysis, inBlock
<1>7. CASE Return
  <2>1. PICK c \in succOf(program, Head(stack).node) :
               /\ iterations' = counted(Head(stack).iterations, Head(stack).node, c)
               /\ Take(c, costOf(c))
    BY <1>7 DEF Return
  <2>2. c \in Blocks(program)
    BY DEF succOf
  <2>3. Head(stack) \in Frames /\ stack' \in Seq(Frames)
    BY <1>0, <1>7 DEF Return, ExecutionTypes
  <2>4. iterations' \in Counts
    BY <2>1, <2>3, CountedType DEF Frames
  <2> QED
    BY <1>0, <1>2, <1>7, <2>1, <2>2, <2>3, <2>4, CostType, TakeTypes DEF Return, ExecutionTypes, analysis, inBlock
<1>8. CASE Leave
  BY <1>0, <1>2, <1>8, TakeTypes DEF Leave, ExecutionTypes, analysis, inBlock, stopsHere
<1>9. CASE ExportBounds \/ AggregateLoopBounds \/ FillMuGraph \/ SolvePaths
  BY <1>0, <1>1, <1>9 DEF ExportBounds, AggregateLoopBounds, FillMuGraph, SolvePaths, ExecutionTypes
<1>10. CASE UNCHANGED vars
  BY <1>1, <1>10 DEF vars, analysis
<1> QED
  BY <1>4, <1>5, <1>6, <1>7, <1>8, <1>9, <1>10 DEF Next

LEMMA ProgramEdgesAreWithin ==
  ASSUME NEW p, WellFormed(p)
  PROVE  programEdges(p) \subseteq programNodes(p) \X programNodes(p)
<1>1. \A f \in Defined(p) : firstBlockOf(p, f) \in Blocks(p)
  BY EntryBlocks DEF firstBlockOf
<1>2. entryEdges(p) \subseteq programNodes(p) \X programNodes(p)
  <2>1. p.start \in Defined(p) /\ p.layout[p.start] # << >> /\ p.layout[p.start] \in Seq(Blocks(p))
    BY DEF WellFormed
  <2>2. BlocksOf(p, p.start) \subseteq Blocks(p)
    BY <2>1, EntryBlocks
  <2>3. p.layout[p.start][Len(p.layout[p.start])] \in Blocks(p)
    BY <2>1
  <2> QED
    BY <1>1, <2>1, <2>2, <2>3 DEF entryEdges, wireEntryExit, programNodes, firstBlockOf
<1>3. callEdgesOf(p) \subseteq programNodes(p) \X programNodes(p)
  BY <1>1 DEF callEdgesOf, wiredBlocks, programNodes, WellFormed
<1>4. returnEdgesOf(p) \subseteq programNodes(p) \X programNodes(p)
  BY DEF returnEdgesOf, programNodes
<1>5. p.succ \subseteq programNodes(p) \X programNodes(p)
  BY DEF WellFormed, programNodes
<1> QED
  BY <1>2, <1>3, <1>4, <1>5 DEF programEdges

LEMMA EdgesAreWithin ==
  ASSUME NEW p, WellFormed(p), NEW M, IsFinal(p, M)
  PROVE  M.Edges \subseteq M.Nodes \X M.Nodes
BY ProgramEdgesAreWithin DEF IsFinal, detached

LEMMA FilledEdgesAreWithin ==
  ASSUME NEW p, WellFormed(p), NEW F, F \subseteq Defined(p), NEW G, IsFilled(p, G, F)
  PROVE  G.Edges \subseteq G.Nodes \X G.Nodes
<1>1. \A e \in p.succ : e[1] \in blocksOfAll(p, F) => e \in blocksOfAll(p, F) \X blocksOfAll(p, F)
  BY DEF blocksOfAll, WellFormed
<1>2. wiredEdges(p, F) \subseteq G.Nodes \X G.Nodes
  <2> SUFFICES ASSUME p.start \in F PROVE entryEdges(p) \subseteq G.Nodes \X G.Nodes
    BY DEF wiredEdges, entryEdges
  <2>1. p.layout[p.start] # << >> /\ p.layout[p.start] \in Seq(Blocks(p))
    BY DEF WellFormed
  <2>2. BlocksOf(p, p.start) \subseteq G.Nodes /\ {Entry, Exit} \subseteq G.Nodes
    BY EntryBlocks DEF IsFilled, blocksOfAll, syntheticNodes
  <2>3. p.layout[p.start][1] \in G.Nodes /\ p.layout[p.start][Len(p.layout[p.start])] \in G.Nodes
    BY <2>1, <2>2 DEF BlocksOf, Range
  <2> QED
    BY <2>1, <2>2, <2>3 DEF entryEdges, wireEntryExit
<1> QED
  BY <1>1, <1>2 DEF IsFilled

LEMMA StackTypes ==
  ASSUME ExecutionTypes
  PROVE  /\ Len(stack) \in Nat /\ DOMAIN stack = 1 .. Len(stack)
         /\ \A i \in DOMAIN stack : /\ stack[i] \in Frames
                                    /\ stack[i].node \in DOMAIN program.calls /\ calls(stack[i].node)
<1>1. stack \in Seq(Frames)
  BY DEF ExecutionTypes
<1>2. \A i \in 1 .. Len(stack) : stack[i] \in Frames
  BY <1>1
<1>3. \A s \in Frames : s.node \in DOMAIN program.calls /\ calls(s.node)
  BY DEF Frames
<1> QED
  BY <1>1, <1>2, <1>3

LEMMA TypesImplyTypeOK == TypeInv => TypeOK
<1> SUFFICES ASSUME TypeInv PROVE TypeOK
  OBVIOUS
<1>0. WellFormed(program) /\ AnalysisInv /\ ExecutionTypes
  BY ProgramsAreWellFormed DEF AnalysisInv, TypeInv
<1>1. Len(program.order) \in Nat /\ program.order \in Seq(DOMAIN program.layout)
  BY <1>0 DEF WellFormed
<1>2. MASG.Edges \subseteq MASG.Nodes \X MASG.Nodes
  <2>1. CASE next = Len(program.order)
    BY <1>0, <2>1, EdgesAreWithin DEF AnalysisInv
  <2>2. CASE next < Len(program.order)
    <3>1. seen \subseteq Defined(program)
      BY <1>0, <1>1, <2>2 DEF seen, Defined, Range, AnalysisInv
    <3> QED
      BY <1>0, <2>2, <3>1, FilledEdgesAreWithin DEF AnalysisInv
  <2> QED
    BY <1>0, <1>1, <2>1, <2>2 DEF AnalysisInv
<1>3. \A i \in DOMAIN stack : calls(stack[i].node)
  BY <1>0, StackTypes
<1> QED
  BY <1>0, <1>2, <1>3 DEF TypeOK, AnalysisInv, ExecutionTypes

(***************************************************************************)
(* Type correctness: counters are bags, frames wait in call blocks, and the  *)
(* edges of the graph join its nodes while it is filled (setEdge asserts it)  *)
(* and after finalize has pruned it (removeNode asserts it).                *)
(***************************************************************************)
THEOREM PathTypes == Spec => []TypeOK
<1>1. Spec => []TypeInv
  BY TypeInvInit, TypeInvStep, PTL DEF Spec
<1> QED
  BY <1>1, TypesImplyTypeOK, PTL

-----------------------------------------------------------------------------
(***************************************************************************)
(* The execution and the graph.  The call stack is a chain: the owner of a   *)
(* call block is what the next outer call has called, and the current       *)
(* function is what the innermost one has called.  All of these functions    *)
(* are reached from the start function, so none of them calls it and every   *)
(* call on the stack is wired.  Every block in use is in the graph.          *)
(***************************************************************************)
activeAt(i) == IF i = Len(stack) + 1 THEN program.start ELSE calleeOf(stack[i].node)
liveFunctions == closure(program.start, callGraph(program), Defined(program))

StackIsAChain ==
  /\ inBlock => current = activeAt(1) /\ current \in liveFunctions
  /\ \A i \in 1 .. Len(stack) :
       LET n == stack[i].node
       IN  ownerOf(program, n) = activeAt(i + 1) /\ ownerOf(program, n) \in liveFunctions

NodesAreInGraph ==
  ASG # NoGraph => at \in MASG.Nodes /\ \A i \in 1 .. Len(stack) : stack[i].node \in MASG.Nodes

OutsideIsEmpty ==
  /\ ~inBlock => stack = << >>
  /\ ASG = NoGraph => DOMAIN y = {}

PathInv == TypeInv /\ StackIsAChain /\ NodesAreInGraph /\ OutsideIsEmpty /\ ExecutionIsAPath

LEMMA PathInvInit == Init => PathInv
<1> SUFFICES ASSUME Init PROVE PathInv
  OBVIOUS
<1>1. ASG = NoGraph /\ stack = << >> /\ at = Entry /\ DOMAIN y = {}
  BY SingletonBag DEF Init
<1> QED
  BY <1>1, TypeInvInit DEF PathInv, StackIsAChain, NodesAreInGraph, OutsideIsEmpty, ExecutionIsAPath, inBlock

\* An edge of the program out of a node of the graph is in the graph.
LEMMA EdgeIsInGraph ==
  ASSUME NEW p, WellFormed(p), NEW M, IsFinal(p, M), NEW u \in M.Nodes, NEW v, <<u, v>> \in programEdges(p)
  PROVE  v \in M.Nodes /\ <<u, v>> \in M.Edges
<1>1. v \in programNodes(p)
  BY ProgramEdgesAreWithin
<1>2. v \in M.Nodes
  BY <1>1, ClosureStep DEF IsFinal
<1> QED
  BY <1>2 DEF IsFinal, detached

\* A function that runs may only call functions that are wired.
LEMMA LiveCalls ==
  ASSUME NEW p \in Programs, NoReentry,
         NEW b \in DOMAIN p.calls, p.calls[b] \in Defined(p),
         ownerOf(p, b) \in closure(p.start, callGraph(p), Defined(p))
  PROVE  b \in wiredBlocks(p) /\ p.calls[b] \in closure(p.start, callGraph(p), Defined(p))
<1>1. <<ownerOf(p, b), p.calls[b]>> \in callGraph(p)
  BY DEF callGraph
<1>2. p.calls[b] # p.start
  BY <1>1 DEF NoReentry, StartIsNotReentered
<1> QED
  BY <1>1, <1>2, ClosureStep DEF wiredBlocks

LEMMA OwnerOfBlock ==
  ASSUME NEW p, WellFormed(p), NEW f \in Defined(p), NEW b \in BlocksOf(p, f)
  PROVE  b \in Blocks(p) /\ ownerOf(p, b) = f
BY Owners, EntryBlocks

LEMMA OwnerOfSuccessor ==
  ASSUME NEW p, WellFormed(p), NEW b \in Blocks(p), NEW c \in succOf(p, b)
  PROVE  c \in Blocks(p) /\ ownerOf(p, c) = ownerOf(p, b) /\ <<b, c>> \in p.succ
<1>1. c \in Blocks(p) /\ <<b, c>> \in p.succ
  BY DEF succOf
<1>2. b \in BlocksOf(p, ownerOf(p, b)) /\ ownerOf(p, b) \in Defined(p)
  BY Owners
<1>3. c \in BlocksOf(p, ownerOf(p, b))
  BY <1>1, <1>2 DEF WellFormed
<1> QED
  BY <1>1, <1>2, <1>3, Owners

LEMMA StepTakesEdge ==
  ASSUME PathInv, NoReentry, Begin \/ Branch \/ Call \/ Return \/ Leave
  PROVE  /\ ASG # NoGraph /\ IsFinal(program, MASG)
         /\ <<at, at'>> \in MASG.Edges
         /\ DOMAIN y' = DOMAIN y \cup {<<at, at'>>}
<1>0. WellFormed(program) /\ program \in Programs /\ AnalysisInv /\ ExecutionTypes
  BY ProgramsAreWellFormed DEF AnalysisInv, PathInv, TypeInv
<1>1. ASG # NoGraph
  BY <1>0 DEF Begin, Branch, Call, Return, Leave, inBlock, stopsHere, ExecutionTypes
<1>2. IsFinal(program, MASG) /\ at \in MASG.Nodes
  BY <1>0, <1>1 DEF AnalysisInv, PathInv, NodesAreInGraph
<1>3. DOMAIN y' = DOMAIN y \cup {<<at, at'>>}
  <2>1. IsABag(y)
    BY <1>0 DEF ExecutionTypes
  <2>2. y' = y (+) SetToBag({<<at, at'>>})
    BY DEF Begin, Branch, Call, Return, Leave, Take
  <2> QED
    BY <2>1, <2>2, BagAdd
<1>4. program.start \in Defined(program) /\ program.layout[program.start] # << >>
  BY <1>0 DEF WellFormed
<1>5. \A n \in Blocks(program) : inBlock /\ n = at => ownerOf(program, n) = activeAt(1) /\ ownerOf(program, n) \in liveFunctions
  BY DEF PathInv, StackIsAChain, current
<1>6. inBlock => at \in Blocks(program)
  BY <1>0 DEF inBlock, ExecutionTypes
<1>7. CASE Begin
  <2>1. <<at, at'>> = <<Entry, firstBlockOf(program, program.start)>>
    BY <1>7 DEF Begin, Take, firstBlock, firstBlockOf
  <2>2. <<at, at'>> \in entryEdges(program)
    BY <1>4, <2>1 DEF entryEdges, wireEntryExit, firstBlockOf
  <2> QED
    BY <1>0, <1>1, <1>2, <1>3, <2>2, EdgeIsInGraph DEF programEdges
<1>8. CASE Branch
  <2>1. at' \in succOf(program, at)
    BY <1>8 DEF Branch, Take
  <2>2. <<at, at'>> \in program.succ
    BY <2>1 DEF succOf
  <2> QED
    BY <1>0, <1>1, <1>2, <1>3, <2>2, EdgeIsInGraph DEF programEdges
<1>9. CASE Call
  <2>1. at \in DOMAIN program.calls /\ program.calls[at] \in Defined(program) /\ inBlock
    BY <1>9 DEF Call, calls
  <2>2. at \in wiredBlocks(program)
    BY <1>0, <1>5, <1>6, <2>1, LiveCalls DEF liveFunctions
  <2>3. at' = firstBlockOf(program, program.calls[at])
    BY <1>9 DEF Call, Take, firstBlock, firstBlockOf, calleeOf
  <2>4. <<at, at'>> \in callEdgesOf(program)
    BY <2>2, <2>3 DEF callEdgesOf
  <2> QED
    BY <1>0, <1>1, <1>2, <1>3, <2>4, EdgeIsInGraph DEF programEdges
<1>10. CASE Return
  <2> DEFINE n == stack[1].node
  <2>1. Head(stack).node = n /\ 1 \in 1 .. Len(stack) /\ inBlock /\ at \in program.returns
    BY <1>0, <1>10, StackTypes DEF Return
  <2>2. at' \in succOf(program, n)
    BY <1>10, <2>1 DEF Return, Take
  <2>3. n \in DOMAIN program.calls /\ program.calls[n] \in Defined(program)
    BY <1>0, <2>1, StackTypes DEF calls
  <2>4. n \in wiredBlocks(program)
    BY <1>0, <2>1, <2>3, LiveCalls DEF PathInv, StackIsAChain, liveFunctions
  <2>5. at \in BlocksOf(program, program.calls[n])
    <3>1. ownerOf(program, at) = program.calls[n]
      BY <1>0, <1>5, <1>6, <2>1, StackTypes DEF activeAt, calleeOf
    <3> QED
      BY <1>0, <1>6, <2>1, <3>1, Owners
  <2>6. <<at, at'>> \in returnEdgesOf(program)
    BY <1>6, <2>1, <2>2, <2>4, <2>5 DEF returnEdgesOf, succOf
  <2> QED
    BY <1>0, <1>1, <1>2, <1>3, <2>6, EdgeIsInGraph DEF programEdges
<1>11. CASE Leave
  <2>1. at' = Exit
    BY <1>11 DEF Leave, Take
  <2>2. CASE <<at, Exit>> \in MASG.Edges
    BY <1>1, <1>2, <1>3, <2>1, <2>2
  <2>3. CASE inBlock /\ at \in program.returns /\ stack = << >>
    <3>1. at \in BlocksOf(program, program.start)
      BY <1>0, <1>5, <1>6, <2>3, Owners DEF activeAt
    <3>2. <<at, at'>> \in entryEdges(program)
      BY <2>1, <2>3, <3>1 DEF entryEdges, wireEntryExit
    <3> QED
      BY <1>0, <1>1, <1>2, <1>3, <3>2, EdgeIsInGraph DEF programEdges
  <2> QED
    BY <1>11, <2>2, <2>3 DEF Leave
<1> QED
  BY <1>7, <1>8, <1>9, <1>10, <1>11

\* A call puts one activation in front of the others, and a return removes it.
LEMMA CallShifts ==
  ASSUME ExecutionTypes, Call
  PROVE  /\ Len(stack) \in Nat /\ Len(stack') = Len(stack) + 1 /\ stack'[1].node = at
         /\ \A i \in 2 .. Len(stack) + 1 : stack'[i] = stack[i - 1]
         /\ activeAt(1)' = calleeOf(at)
         /\ \A i \in 1 .. Len(stack) + 1 : activeAt(i + 1)' = activeAt(i)
<1>1. stack' = <<[node |-> at, iterations |-> iterations]>> \o stack /\ program' = program
  BY DEF Call, analysis
<1>2. /\ Len(stack) \in Nat /\ Len(stack') = Len(stack) + 1 /\ stack'[1].node = at
      /\ \A i \in 2 .. Len(stack) + 1 : stack'[i] = stack[i - 1]
  BY <1>1 DEF ExecutionTypes
<1> QED
  BY <1>1, <1>2 DEF activeAt, calleeOf

LEMMA ReturnShifts ==
  ASSUME ExecutionTypes, Return
  PROVE  /\ Len(stack) \in Nat \ {0} /\ Len(stack') = Len(stack) - 1 /\ Head(stack) = stack[1]
         /\ \A i \in 1 .. Len(stack) - 1 : stack'[i] = stack[i + 1]
         /\ \A i \in 1 .. Len(stack) : activeAt(i)' = activeAt(i + 1)
<1>1. stack' = Tail(stack) /\ stack # << >> /\ program' = program
  BY DEF Return, analysis
<1>2. /\ Len(stack) \in Nat \ {0} /\ Len(stack') = Len(stack) - 1 /\ Head(stack) = stack[1]
      /\ \A i \in 1 .. Len(stack) - 1 : stack'[i] = stack[i + 1]
  BY <1>1 DEF ExecutionTypes
<1>3. ASSUME NEW i \in 1 .. Len(stack) PROVE activeAt(i)' = activeAt(i + 1)
  <2>1. CASE i = Len(stack)
    BY <1>1, <1>2, <2>1 DEF activeAt
  <2>2. CASE i # Len(stack)
    <3>1. i \in 1 .. Len(stack) - 1 /\ i # Len(stack') + 1 /\ i + 1 # Len(stack) + 1
      BY <1>2, <2>2
    <3> QED
      BY <1>1, <1>2, <3>1 DEF activeAt, calleeOf
  <2> QED
    BY <2>1, <2>2
<1> QED
  BY <1>2, <1>3

LEMMA ChainStep ==
  ASSUME PathInv, NoReentry, Begin \/ Branch \/ Call \/ Return \/ Leave
  PROVE  StackIsAChain'
<1>0. WellFormed(program) /\ program \in Programs /\ AnalysisInv /\ ExecutionTypes /\ ExecutionTypes'
  BY ProgramsAreWellFormed, TypeInvStep DEF AnalysisInv, PathInv, TypeInv, Next
<1>1. program' = program /\ UNCHANGED liveFunctions
  BY DEF Begin, Branch, Call, Return, Leave, analysis, liveFunctions
<1>2. ASSUME NEW f \in Defined(program)
      PROVE  firstBlock(f) \in Blocks(program) /\ ownerOf(program, firstBlock(f)) = f
  BY <1>0, EntryBlocks, OwnerOfBlock DEF firstBlock
<1>3. \A i \in 1 .. Len(stack) :
        /\ ownerOf(program, stack[i].node) = activeAt(i + 1)
        /\ ownerOf(program, stack[i].node) \in liveFunctions
  BY DEF PathInv, StackIsAChain
<1>4. inBlock => /\ at \in Blocks(program) /\ ownerOf(program, at) = activeAt(1)
                 /\ ownerOf(program, at) \in liveFunctions
  BY <1>0 DEF PathInv, StackIsAChain, current, inBlock, ExecutionTypes
<1>5. program.start \in Defined(program) /\ program.start \in liveFunctions
  BY <1>0, ClosureRoot DEF WellFormed, liveFunctions
<1>6. CASE Begin
  <2>1. stack' = << >> /\ stack = << >> /\ at' = firstBlock(program.start)
    BY <1>6 DEF Begin, Take, PathInv, OutsideIsEmpty, inBlock
  <2> QED
    BY <1>1, <1>2, <1>5, <2>1 DEF StackIsAChain, current, activeAt
<1>7. CASE Branch
  <2>1. stack' = stack /\ at' \in succOf(program, at) /\ inBlock
    BY <1>7 DEF Branch, Take
  <2>2. ownerOf(program, at') = ownerOf(program, at)
    BY <1>0, <1>4, <2>1, OwnerOfSuccessor
  <2> QED
    BY <1>1, <1>3, <1>4, <2>1, <2>2 DEF StackIsAChain, current, activeAt, calleeOf
<1>8. CASE Call
  <2> DEFINE f == program.calls[at]
  <2>1. at \in DOMAIN program.calls /\ f \in Defined(program) /\ inBlock /\ at' = firstBlock(f)
    BY <1>8 DEF Call, calls, Take, calleeOf
  <2>2. f \in liveFunctions
    BY <1>0, <1>4, <2>1, LiveCalls DEF liveFunctions
  <2>3. /\ Len(stack) \in Nat /\ Len(stack') = Len(stack) + 1 /\ stack'[1].node = at
        /\ \A i \in 2 .. Len(stack) + 1 : stack'[i] = stack[i - 1]
    BY <1>0, <1>8, CallShifts
  <2>4. ownerOf(program, at') = f
    BY <1>2, <2>1
  <2>5. activeAt(1)' = f
    BY <1>0, <1>8, CallShifts DEF calleeOf
  <2>6. ASSUME NEW i \in 1 .. Len(stack) + 1 PROVE activeAt(i + 1)' = activeAt(i)
    BY <1>0, <1>8, CallShifts
  <2>7. ASSUME NEW i \in 1 .. Len(stack')
        PROVE  /\ ownerOf(program, stack'[i].node) = activeAt(i + 1)'
               /\ ownerOf(program, stack'[i].node) \in liveFunctions
    <3>1. CASE i = 1
      BY <1>4, <2>1, <2>3, <2>6, <3>1
    <3>2. CASE i # 1
      <4>1. i - 1 \in 1 .. Len(stack) /\ stack'[i] = stack[i - 1] /\ i \in 1 .. Len(stack) + 1
        BY <2>3, <3>2
      <4> QED
        BY <1>3, <2>3, <2>6, <4>1
    <3> QED
      BY <3>1, <3>2
  <2> QED
    BY <1>1, <2>2, <2>4, <2>5, <2>7 DEF StackIsAChain, current
<1>9. CASE Return
  <2> DEFINE n == stack[1].node
  <2>1. Head(stack).node = n /\ Len(stack) \in Nat /\ 1 \in 1 .. Len(stack)
    BY <1>0, <1>9, StackTypes DEF Return
  <2>2. at' \in succOf(program, n) /\ n \in Blocks(program)
    <3>1. n \in DOMAIN program.calls
      BY <1>0, <2>1, StackTypes
    <3> QED
      BY <1>0, <1>9, <2>1, <3>1 DEF Return, Take, WellFormed
  <2>3. ownerOf(program, at') = ownerOf(program, n)
    BY <1>0, <2>2, OwnerOfSuccessor
  <2>4. Len(stack') = Len(stack) - 1 /\ \A i \in 1 .. Len(stack) - 1 : stack'[i] = stack[i + 1]
    BY <1>0, <1>9, ReturnShifts
  <2>5. ASSUME NEW i \in 1 .. Len(stack) PROVE activeAt(i)' = activeAt(i + 1)
    BY <1>0, <1>9, ReturnShifts
  <2>6. ASSUME NEW i \in 1 .. Len(stack')
        PROVE  /\ ownerOf(program, stack'[i].node) = activeAt(i + 1)'
               /\ ownerOf(program, stack'[i].node) \in liveFunctions
    <3>1. i + 1 \in 1 .. Len(stack) /\ stack'[i] = stack[i + 1]
      BY <2>1, <2>4
    <3> QED
      BY <1>3, <2>5, <3>1
  <2> QED
    BY <1>1, <1>3, <2>1, <2>3, <2>5, <2>6 DEF StackIsAChain, current
<1>10. CASE Leave
  <2>1. at' = Exit /\ stack' = stack
    BY <1>10 DEF Leave, Take
  <2> QED
    BY <1>1, <1>3, <2>1 DEF StackIsAChain, inBlock, activeAt, calleeOf
<1> QED
  BY <1>6, <1>7, <1>8, <1>9, <1>10

LEMMA PathInvStep == NoReentry /\ PathInv /\ [Next]_vars => PathInv'
<1> SUFFICES ASSUME NoReentry, PathInv, [Next]_vars PROVE PathInv'
  OBVIOUS
<1>0. TypeInv /\ TypeInv'
  BY TypeInvStep DEF PathInv
<1>1. CASE Begin \/ Branch \/ Call \/ Return \/ Leave
  <2>1. UNCHANGED analysis
    BY <1>1 DEF Begin, Branch, Call, Return, Leave
  <2>2. /\ ASG # NoGraph /\ IsFinal(program, MASG)
        /\ <<at, at'>> \in MASG.Edges /\ DOMAIN y' = DOMAIN y \cup {<<at, at'>>}
    BY <1>1, StepTakesEdge
  <2>3. at \in MASG.Nodes /\ at' \in MASG.Nodes
    BY <2>2 DEF IsFinal, detached
  <2>4. ExecutionIsAPath'
    BY <2>1, <2>2 DEF ExecutionIsAPath, BagToSet, analysis, PathInv
  <2>5. OutsideIsEmpty'
    <3>1. ASG' # NoGraph
      BY <2>1, <2>2 DEF analysis
    <3>2. CASE Leave
      BY <1>0, <3>1, <3>2 DEF Leave, OutsideIsEmpty, stopsHere
    <3>3. CASE Begin \/ Branch \/ Call \/ Return
      <4>1. at' \in Blocks(program)
        <5>1. WellFormed(program)
          BY <1>0, ProgramsAreWellFormed DEF TypeInv, AnalysisInv
        <5>2. \A f \in Defined(program) : firstBlock(f) \in Blocks(program)
          BY <5>1, EntryBlocks DEF firstBlock
        <5> QED
          <6>1. program.start \in Defined(program)
            BY <5>1 DEF WellFormed
          <6>2. CASE Begin
            BY <5>2, <6>1, <6>2 DEF Begin, Take
          <6>3. CASE Branch
            BY <6>3 DEF Branch, Take, succOf
          <6>4. CASE Call
            BY <5>2, <6>4 DEF Call, Take, calls, calleeOf
          <6>5. CASE Return
            BY <6>5 DEF Return, Take, succOf
          <6> QED
            BY <3>3, <6>2, <6>3, <6>4, <6>5
      <4>2. inBlock'
        BY <1>0, <4>1, ProgramsAreWellFormed DEF inBlock, WellFormed, TypeInv, AnalysisInv
      <4> QED
        BY <3>1, <4>2 DEF OutsideIsEmpty
    <3> QED
      BY <1>1, <3>2, <3>3
  <2>6. NodesAreInGraph'
    <3>1. ExecutionTypes /\ ExecutionTypes'
      BY <1>0 DEF TypeInv
    <3>2. \A i \in 1 .. Len(stack) : stack[i].node \in MASG.Nodes
      BY <2>2 DEF PathInv, NodesAreInGraph
    <3>3. MASG' = MASG
      BY <2>1 DEF analysis
    <3>4. CASE stack' = stack
      BY <2>3, <3>2, <3>3, <3>4 DEF NodesAreInGraph
    <3>5. CASE Call
      <4>1. ASSUME NEW i \in 1 .. Len(stack') PROVE stack'[i].node \in MASG.Nodes
        <5>1. CASE i = 1
          BY <2>3, <3>1, <3>5, <5>1, CallShifts
        <5>2. CASE i # 1
          <6>1. i \in 2 .. Len(stack) + 1 /\ i - 1 \in 1 .. Len(stack)
            BY <3>1, <3>5, <5>2, CallShifts
          <6> QED
            BY <3>1, <3>2, <3>5, <6>1, CallShifts
        <5> QED
          BY <5>1, <5>2
      <4> QED
        BY <2>3, <3>3, <4>1 DEF NodesAreInGraph
    <3>6. CASE Return
      <4>1. \A i \in 1 .. Len(stack') : stack'[i].node \in MASG.Nodes
        BY <3>1, <3>2, <3>6, ReturnShifts
      <4> QED
        BY <2>3, <3>3, <4>1 DEF NodesAreInGraph
    <3> QED
      BY <1>1, <3>4, <3>5, <3>6 DEF Begin, Branch, Leave
  <2> QED
    BY <1>0, <1>1, <2>4, <2>5, <2>6, ChainStep DEF PathInv
<1>2. CASE FillMuGraph \/ SolvePaths
  <2>0. AnalysisInv /\ ExecutionTypes /\ WellFormed(program)
    BY <1>0, ProgramsAreWellFormed DEF TypeInv, AnalysisInv
  <2>a. Len(program.order) \in Nat
    BY <2>0 DEF WellFormed
  <2>1. UNCHANGED execution /\ program' = program /\ ASG = NoGraph /\ at = Entry
    BY <2>0, <2>a, <1>2 DEF FillMuGraph, SolvePaths, AnalysisInv, ExecutionTypes
  <2>2. stack = << >> /\ DOMAIN y = {}
    BY <2>1 DEF PathInv, OutsideIsEmpty, inBlock
  <2>3. ASG' # NoGraph => Entry \in MASG'.Nodes
    <3> SUFFICES ASSUME ASG' # NoGraph PROVE Entry \in MASG'.Nodes
      OBVIOUS
    <3>1. IsFinal(program, MASG')
      BY <1>0, <2>1 DEF TypeInv, AnalysisInv
    <3> QED
      BY <3>1, ClosureRoot DEF IsFinal, programNodes
  <2> QED
    BY <1>0, <2>1, <2>2, <2>3
       DEF PathInv, StackIsAChain, NodesAreInGraph, OutsideIsEmpty, ExecutionIsAPath, execution, inBlock, BagToSet
<1>3. CASE ExportBounds \/ AggregateLoopBounds \/ UNCHANGED vars
  <2>1. UNCHANGED <<execution, program, MASG, ASG>>
    BY <1>3 DEF ExportBounds, AggregateLoopBounds, vars, analysis
  <2> QED
    BY <1>0, <2>1 DEF PathInv, StackIsAChain, NodesAreInGraph, OutsideIsEmpty, ExecutionIsAPath,
                      execution, inBlock, current, activeAt, calleeOf, liveFunctions
<1> QED
  BY <1>1, <1>2, <1>3 DEF Next

(***************************************************************************)
(* Every execution of every program is a path of its graph: fillGraph,       *)
(* finalize and pruning lose no way into, out of or through a function.      *)
(* The start function must not be called again, as calls into it are not    *)
(* wired.                                                                  *)
(***************************************************************************)
THEOREM ExecutionsArePaths ==
  ASSUME NoReentry
  PROVE  Spec => []ExecutionIsAPath
<1>1. NoReentry /\ Spec => []PathInv
  BY PathInvInit, PathInvStep, PTL DEF Spec
<1> QED
  BY <1>1, PTL DEF PathInv

-----------------------------------------------------------------------------
(***************************************************************************)
(* Recursion.  An inner activation is reached, through calls, from what an   *)
(* outer one has called; so a function that is active twice comes back to    *)
(* itself in the call graph.                                                *)
(***************************************************************************)
ReachedBy(f, g) == f \in closure(g, calledFrom(program), callNodes(program))
ChainReaches == \A j \in 1 .. Len(stack) : \A i \in 1 .. j : ReachedBy(activeAt(i), activeAt(j))

RecursionInv == PathInv /\ ChainReaches

LEMMA RecursionInvStep == NoReentry /\ RecursionInv /\ [Next]_vars => RecursionInv'
<1> SUFFICES ASSUME NoReentry, RecursionInv, [Next]_vars PROVE ChainReaches'
  BY PathInvStep DEF RecursionInv
<1>0. WellFormed(program) /\ ExecutionTypes /\ PathInv /\ program \in Programs
  BY ProgramsAreWellFormed DEF RecursionInv, PathInv, TypeInv, AnalysisInv
<1>1. CASE Call
  <2> DEFINE f == program.calls[at]
  <2>1. inBlock /\ at \in DOMAIN program.calls /\ f \in Defined(program) /\ calleeOf(at) = f /\ program' = program
    BY <1>1 DEF Call, calls, calleeOf, analysis
  <2>2. <<ownerOf(program, at), f>> \in calledFrom(program) /\ f \in callNodes(program)
    <3>1. f \notin program.symbols
      BY <1>0, <2>1 DEF WellFormed
    <3>2. <<ownerOf(program, at), f>> \in calledFrom(program)
      BY <2>1, <3>1 DEF calledFrom
    <3>3. <<ownerOf(program, at), f>>[2] = f
      OBVIOUS
    <3> QED
      BY <3>2, <3>3 DEF callNodes
  <2>3. ownerOf(program, at) = activeAt(1)
    BY <1>0, <2>1 DEF PathInv, StackIsAChain, current
  <2>4. ASSUME NEW j \in 1 .. Len(stack'), NEW i \in 1 .. j
        PROVE  ReachedBy(activeAt(i)', activeAt(j)')
    <3>1. i \in 1 .. Len(stack) + 1 /\ j \in 1 .. Len(stack) + 1 /\ Len(stack) \in Nat
      BY <1>0, <1>1, CallShifts
    <3>2. activeAt(1)' = f /\ \A k \in 1 .. Len(stack) : activeAt(k + 1)' = activeAt(k)
      BY <1>0, <1>1, <2>1, CallShifts
    <3>3. CASE j = 1
      BY <2>2, <3>1, <3>2, <3>3, ClosureRoot DEF ReachedBy
    <3>4. CASE i = 1 /\ j # 1
      <4>1. j - 1 \in 1 .. Len(stack) /\ 1 \in 1 .. j - 1 /\ activeAt(j)' = activeAt(j - 1)
        BY <3>1, <3>2, <3>4
      <4>2. ReachedBy(activeAt(1), activeAt(j - 1))
        BY <4>1 DEF RecursionInv, ChainReaches
      <4> QED
        BY <2>2, <2>3, <3>2, <3>4, <4>1, <4>2, ClosureStep DEF ReachedBy
    <3>5. CASE i # 1
      <4>1. /\ j - 1 \in 1 .. Len(stack) /\ i - 1 \in 1 .. j - 1
            /\ activeAt(j)' = activeAt(j - 1) /\ activeAt(i)' = activeAt(i - 1)
        BY <3>1, <3>2, <3>5
      <4> QED
        BY <4>1 DEF RecursionInv, ChainReaches
    <3> QED
      BY <3>3, <3>4, <3>5
  <2> QED
    BY <2>1, <2>4 DEF ChainReaches, ReachedBy
<1>2. CASE Return
  <2>1. program' = program
    BY <1>2 DEF Return, analysis
  <2>2. ASSUME NEW j \in 1 .. Len(stack'), NEW i \in 1 .. j
        PROVE  ReachedBy(activeAt(i)', activeAt(j)')
    <3>1. /\ j + 1 \in 1 .. Len(stack) /\ i + 1 \in 1 .. j + 1
          /\ activeAt(j)' = activeAt(j + 1) /\ activeAt(i)' = activeAt(i + 1)
      BY <1>0, <1>2, ReturnShifts
    <3> QED
      BY <3>1 DEF RecursionInv, ChainReaches
  <2> QED
    BY <2>1, <2>2 DEF ChainReaches, ReachedBy
<1>3. CASE stack' = stack /\ program' = program
  BY <1>3 DEF RecursionInv, ChainReaches, ReachedBy, activeAt, calleeOf
<1> QED
  BY <1>1, <1>2, <1>3 DEF Next, vars, analysis, execution, ExportBounds, AggregateLoopBounds, FillMuGraph,
                          SolvePaths, Begin, Branch, Leave

LEMMA RecursionInvReports == NoReentry /\ RecursionInv => RecursionIsReported
<1> SUFFICES ASSUME NoReentry, RecursionInv, inBlock, NEW k \in DOMAIN stack,
                    ownerOf(program, stack[k].node) = current
             PROVE  current \in MASG.BoundedRecursionFunctions \cup MASG.UnboundedRecursionFunctions
                                  \cup MASG.MutualRecursionFunctions
  BY DEF RecursionIsReported
<1>0. WellFormed(program) /\ ExecutionTypes /\ AnalysisInv /\ PathInv /\ program \in Programs
  BY ProgramsAreWellFormed DEF RecursionInv, PathInv, TypeInv, AnalysisInv
<1>1. IsFinal(program, MASG) /\ ASG # NoGraph
  BY <1>0 DEF AnalysisInv, ExecutionTypes, inBlock
<1>2. k \in 1 .. Len(stack) /\ 1 \in 1 .. Len(stack) /\ 1 \in 1 .. k /\ Len(stack) \in Nat
  BY <1>0, StackTypes
<1>3. \A j \in 1 .. Len(stack) :
        LET n == stack[j].node
        IN  /\ n \in DOMAIN program.calls /\ program.calls[n] \in Defined(program)
            /\ activeAt(j) = program.calls[n] /\ ownerOf(program, n) = activeAt(j + 1)
            /\ n \in wiredBlocks(program) /\ n \in MASG.Nodes
  <2> SUFFICES ASSUME NEW j \in 1 .. Len(stack)
               PROVE  LET n == stack[j].node
                      IN  /\ n \in DOMAIN program.calls /\ program.calls[n] \in Defined(program)
                          /\ activeAt(j) = program.calls[n] /\ ownerOf(program, n) = activeAt(j + 1)
                          /\ n \in wiredBlocks(program) /\ n \in MASG.Nodes
    OBVIOUS
  <2> DEFINE n == stack[j].node
  <2>1. n \in DOMAIN program.calls /\ program.calls[n] \in Defined(program)
    BY <1>0, StackTypes DEF calls
  <2>2. activeAt(j) = program.calls[n]
    BY <1>2 DEF activeAt, calleeOf
  <2>3. ownerOf(program, n) = activeAt(j + 1) /\ ownerOf(program, n) \in liveFunctions
    BY <1>0 DEF PathInv, StackIsAChain
  <2>4. n \in wiredBlocks(program)
    BY <1>0, <2>1, <2>3, LiveCalls DEF liveFunctions
  <2>5. n \in MASG.Nodes
    BY <1>0, <1>1 DEF PathInv, NodesAreInGraph
  <2> QED
    BY <2>1, <2>2, <2>3, <2>4, <2>5
<1>4. current = activeAt(1)
  BY <1>0 DEF PathInv, StackIsAChain
<1>5. current \in Defined(program) \ {program.start}
  BY <1>2, <1>3, <1>4 DEF wiredBlocks
<1>6. firstBlockOf(program, current) \in MASG.Nodes
  <2>1. <<stack[1].node, firstBlockOf(program, current)>> \in callEdgesOf(program)
    BY <1>2, <1>3, <1>4 DEF callEdgesOf
  <2> QED
    BY <1>0, <1>1, <1>2, <1>3, <2>1, EdgeIsInGraph DEF programEdges
<1>7. isRecursive(program, current)
  <2> DEFINE n == stack[k].node
             g == program.calls[n]
  <2>1. g = activeAt(k) /\ ownerOf(program, n) = current /\ n \in DOMAIN program.calls /\ g \in Defined(program)
    BY <1>2, <1>3
  <2>2. <<current, g>> \in calledFrom(program)
    BY <1>0, <2>1 DEF calledFrom, WellFormed
  <2>3. g \in callNodes(program)
    <3>1. <<current, g>>[2] = g
      OBVIOUS
    <3> QED
      BY <2>2, <3>1 DEF callNodes
  <2>4. ReachedBy(activeAt(1), activeAt(k))
    BY <1>2 DEF RecursionInv, ChainReaches
  <2> QED
    BY <1>4, <2>1, <2>2, <2>3, <2>4 DEF isRecursive, ReachedBy
<1> QED
  BY <1>1, <1>5, <1>6, <1>7 DEF IsFinal, ReportsRecursion

(***************************************************************************)
(* Whatever recurs at run time is named by a recursion report, be the cycle  *)
(* direct, through other functions, bounded or not.                          *)
(***************************************************************************)
THEOREM RecursionReported ==
  ASSUME NoReentry
  PROVE  Spec => []RecursionIsReported
<1>1. Init => RecursionInv
  <2>1. Init => PathInv /\ stack = << >>
    BY PathInvInit DEF Init
  <2> QED
    BY <2>1 DEF RecursionInv, ChainReaches
<1>2. NoReentry /\ Spec => []RecursionInv
  BY <1>1, RecursionInvStep, PTL DEF Spec
<1> QED
  BY <1>2, RecursionInvReports, PTL
=============================================================================
