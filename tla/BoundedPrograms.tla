--------------------------- MODULE BoundedPrograms ---------------------------
(***************************************************************************)
(* Programs whose bounds are right, and sufficient, as far as this can be     *)
(* said of the source text, the control-flow graphs and the calls: what the   *)
(* passes make of them is not looked at.  The theorems about the program      *)
(* graph and the integer program are about such programs.                   *)
(***************************************************************************)
EXTENDS PathAnalysis

\* No path among nodes leads back over an edge.
among(edges, nodes) == edges \cap (nodes \X nodes)
acyclic(edges, nodes) ==
  \A e \in among(edges, nodes) : e[1] \notin closure(e[2], among(edges, nodes), nodes)

\* The start function is not called again.
NoReentry == \A p \in Programs : StartIsNotReentered(p)

\* Where the program can stop: neither a return nor a call of a body, and no way on.
stopBlock(p, b) ==
  b \notin p.returns /\ succOf(p, b) = {} /\ ~ (b \in DOMAIN p.calls /\ p.calls[b] \in Defined(p))

\* A function from which a stop is reached does not also return.
StopsAreFinal(p) ==
  \A f, g \in Defined(p) \ {p.start} :
    (\E b \in BlocksOf(p, f) : stopBlock(p, b)) /\ f \in closure(g, callGraph(p), Defined(p)) =>
      p.returns \cap BlocksOf(p, g) = {}

NoPartialStops == \A p \in Programs : StopsAreFinal(p)

-----------------------------------------------------------------------------
(***************************************************************************)
(* The interprocedural graph of a program.                                  *)
(***************************************************************************)
firstBlockOf(p, f) == p.layout[f][1]
programNodes(p) == Blocks(p) \cup {Entry, Exit}

\* Call blocks that are wired: their callee has a body and is not the start function.
wiredBlocks(p) == {b \in DOMAIN p.calls : p.calls[b] \in Defined(p) \ {p.start}}

entryEdges(p) == wireEntryExit(p.layout[p.start], p.returns \cap BlocksOf(p, p.start))
callEdgesOf(p) == {<<b, firstBlockOf(p, p.calls[b])>> : b \in wiredBlocks(p)}
returnEdgesOf(p) ==
  {e \in (p.returns \cap Blocks(p)) \X Blocks(p) :
     \E b \in wiredBlocks(p) : e[1] \in BlocksOf(p, p.calls[b]) /\ e[2] \in succOf(p, b)}

programEdges(p) == p.succ \cup entryEdges(p) \cup callEdgesOf(p) \cup returnEdgesOf(p)

-----------------------------------------------------------------------------
(***************************************************************************)
(* Pragmas.  Each belongs to one loop, or function, and is too far from, or    *)
(* behind, all that are visited before that one.  Offsets and lines are       *)
(* numbers.                                                                *)
(***************************************************************************)
sourceLoops(src) == src.loops \o GotoLoops(src)

IsNumbered(src) ==
  /\ sourceLoops(src) \in Seq(Range(sourceLoops(src)))
  /\ \A i \in DOMAIN sourceLoops(src) :
       sourceLoops(src)[i].offset \in Nat /\ sourceLoops(src)[i].line[2] \in Nat
  /\ src.functions \in Seq(Range(src.functions))
  /\ \A i \in DOMAIN src.functions : src.functions[i].offset \in Nat
  /\ DOMAIN LoopBoundMap(src) \subseteq Nat /\ DOMAIN RecursionBoundMap(src) \subseteq Nat

Attached(map, items, own) ==
  /\ \A o, q \in DOMAIN map : own[o] = own[q] => o = q
  /\ \A o \in DOMAIN map : o \in before(map, items[own[o]].offset)
  /\ \A i \in DOMAIN items : \A o \in before(map, items[i].offset) : own[o] <= i

owners(map, items) == {own \in [DOMAIN map -> DOMAIN items] : Attached(map, items, own)}

loopOf(src) == CHOOSE own \in owners(LoopBoundMap(src), sourceLoops(src)) : TRUE
functionOf(src) == CHOOSE own \in owners(RecursionBoundMap(src), src.functions) : TRUE

\* Without pragmas the JSON file is left as it is.
PragmasBelong(src) ==
  /\ IsNumbered(src)
  /\ owners(LoopBoundMap(src), sourceLoops(src)) # {}
  /\ owners(RecursionBoundMap(src), src.functions) # {}
  /\ DOMAIN LoopBoundMap(src) = {} /\ DOMAIN RecursionBoundMap(src) = {} => src.previous = NoBounds

\* The bounds written for the loops at some lines, and for a function.
boundsAt(src, lines) ==
  {LoopBoundMap(src)[o] : o \in {q \in DOMAIN LoopBoundMap(src) : sourceLoops(src)[loopOf(src)[q]].line \in lines}}
recursionBounds(src, f) ==
  {RecursionBoundMap(src)[o] :
     o \in {q \in DOMAIN RecursionBoundMap(src) : src.functions[functionOf(src)[q]].name = f}}

-----------------------------------------------------------------------------
(***************************************************************************)
(* Loops.  There is a bound for every natural loop, and none is too small:    *)
(* neither those that are computed nor those written at a line of the loop.   *)
(***************************************************************************)
allow(bounds, times) == \A k \in bounds : k \in Nat \ {0} /\ times \in 0 .. k

isLoopOf(p, h, body) == h \in DOMAIN p.body /\ p.body[h] = body

linesOf(p, blocks) == UNION {p.lines[b] : b \in blocks}
loopLines(p, f, h) == {irLoop(p, h).start, irLoop(p, h).first} \cup linesOf(p, ownBlocks(p, f, h))
computedBounds(p, f, h) == {irLoop(p, h).trips, irLoop(p, h).maxBTC, implicitBound(p, f, h)} \ {0}
loopBounds(p, f, h) == computedBounds(p, f, h) \cup boundsAt(p.source, loopLines(p, f, h))

NaturalLoopsAreBounded(p) ==
  \A f \in Defined(p) : \A h \in headersOf(p, f) :
    /\ isLoopOf(p, h, loopBlocks(p, f, h))
    /\ loopBounds(p, f, h) # {} /\ allow(loopBounds(p, f, h), p.trips[h])

\* The depth first search finds the headers of irreducible loops.  Those with a
\* pragma are started there.
irreducibleBounds(p, f, h) == boundsAt(p.source, linesOf(p, computeLoopBody(p, f, h)))
writtenBackEdges(p, f) ==
  {e \in findBackEdges(p, f) : e[2] \notin headersOf(p, f) /\ irreducibleBounds(p, f, e[2]) # {}}

startsAt(p, h, body) ==
  /\ \A f \in Defined(p) : firstBlockOf(p, f) \in body => firstBlockOf(p, f) = h
  /\ \A e \in p.succ : e[2] \in body /\ e[1] \notin body =>
       e[2] = h \/ (e \in p.untaken /\ ~ (e[1] \in DOMAIN p.calls /\ p.calls[e[1]] \in Defined(p)))

IrreducibleLoopsAreBounded(p) ==
  \A f \in Defined(p) : \A e \in writtenBackEdges(p, f) :
    /\ isLoopOf(p, e[2], computeLoopBody(p, f, e[2])) /\ startsAt(p, e[2], p.body[e[2]])
    /\ allow(irreducibleBounds(p, f, e[2]), p.trips[e[2]])

-----------------------------------------------------------------------------
(***************************************************************************)
(* Recursion.  A cycle of functions is called from outside, through one of    *)
(* them only, all recursion goes through that one, which does not begin with  *)
(* a loop, and its bound is not too small.                                  *)
(***************************************************************************)
recursesThrough(p, f) ==
  {g \in Defined(p) : /\ f \in closure(g, callGraph(p), Defined(p))
                      /\ \E h \in Defined(p) : <<f, h>> \in callGraph(p) /\ g \in closure(h, callGraph(p), Defined(p))}

callsInto(p, cycle) == {a \in callGraph(p) : a[1] \notin cycle /\ a[2] \in cycle}

EntersCycle(p, e, cycle) ==
  /\ e \in cycle
  /\ callsInto(p, cycle) # {} /\ \A a \in callsInto(p, cycle) : a[2] = e
  /\ acyclic(callGraph(p), cycle \ {e})
  /\ \A d \in p.succ : d[2] # firstBlockOf(p, e)
  /\ e \in DOMAIN p.activations
  /\ recursionBounds(p.source, e) # {} /\ allow(recursionBounds(p.source, e), p.activations[e])

RecursionIsBounded(p) ==
  \A f \in Defined(p) : /\ p.cycle[f] = recursesThrough(p, f)
                        /\ p.cycle[f] # {} => \E e \in Defined(p) : EntersCycle(p, e, p.cycle[f])

BoundsAreRight(p) ==
  /\ PragmasBelong(p.source)
  /\ NaturalLoopsAreBounded(p) /\ IrreducibleLoopsAreBounded(p) /\ RecursionIsBounded(p)

-----------------------------------------------------------------------------
(***************************************************************************)
(* Sufficient bounds.  Without the loops that have a bound no function can    *)
(* repeat itself, no call is the last block of a loop, and what is behind a   *)
(* call from dead code does not lead back into the callee.                   *)
(***************************************************************************)
closesLoop(p, f) == loopBackEdges(p, f) \cup writtenBackEdges(p, f)

AllCyclesAreLoops(p) ==
  \A f \in Defined(p) :
    /\ acyclic(p.succ \ closesLoop(p, f), BlocksOf(p, f))
    /\ \A d, e \in writtenBackEdges(p, f) : d[2] = e[2] => d = e
    /\ \A e \in closesLoop(p, f) : e[1] \notin wiredBlocks(p)

DeadCallsLeadNowhere(p) ==
  \A b \in wiredBlocks(p) \ closure(Entry, programEdges(p), programNodes(p)) :
    \A m \in succOf(p, b) : \A r \in p.returns \cap BlocksOf(p, p.calls[b]) :
      r \notin closure(m, programEdges(p), programNodes(p))

BoundsSuffice(p) == AllCyclesAreLoops(p) /\ DeadCallsLeadNowhere(p)
=============================================================================
