----------------------------- MODULE PathAnalysis -----------------------------
(***************************************************************************)
(* The path analysis of a program and, beside it, one execution of that     *)
(* program.  The clang plugin exports the pragmas of the source; function by *)
(* function, the loop bound pass finds bounds and FillMuGraphPass adds the   *)
(* function to the program graph, which it finalises with the last one;      *)
(* PathAnalysisPass builds the solver graph and its integer program at the   *)
(* end.  Then the program runs, from the start function on, with a stack of  *)
(* calls.  What it visits is counted, and the counts have to be a solution   *)
(* of the rows: the WCET is the maximum of the objective over all solutions. *)
(***************************************************************************)
EXTENDS PathILP, LoopBounds

CONSTANTS
  Programs,        \* the programs, see ProgramGraph and LoopBounds, with source, the translation
                   \*   unit.  Each also says what is true of its runs: trips [header |-> its
                   \*   executions per entry of the loop], body [header |-> blocks of the loop],
                   \*   cycle [f |-> the functions it recurs through], activations [f |-> its
                   \*   invocations per entry of the cycle], untaken, edges it never takes
  Uninitialised,   \* what the memory of a new node may hold
  MaxDepth,        \* bound on the call stack of an execution
  NoGraph,
  NoFile

ASSUME ProgramsAreWellFormed == Entry # Exit /\ \A p \in Programs : WellFormed(p)

VARIABLES
  program,
  JSON,            \* the file of the plugin
  TAR,             \* what the loop bound pass found
  aggregated,      \* how many functions the loop bound pass has seen
  next,            \* how many functions FillMuGraphPass has seen
  MASG, ASG,       \* program graph and solver graph
  at,              \* the node the execution is in
  stack,           \* the calls it is in: call block and iterations of the caller
  iterations,      \* of each loop of the current activation
  invocations,     \* of each recursive function since its cycle was entered
  x, y,            \* how often nodes and edges were taken
  elapsed          \* cycles

analysis == <<program, JSON, TAR, aggregated, next, MASG, ASG>>
execution == <<at, stack, iterations, invocations, x, y, elapsed>>
vars == <<analysis, execution>>

Init ==
  /\ program \in Programs
  /\ JSON = NoFile
  /\ TAR = [LoopBoundMap |-> << >>, IrreducibleBackEdges |-> {}, RecursionBoundMap |-> << >>]
  /\ aggregated = 0 /\ next = 0
  /\ MASG = emptyGraph
  /\ ASG = NoGraph
  /\ at = Entry /\ stack = << >>
  /\ iterations = EmptyBag /\ invocations = EmptyBag
  /\ x = SetToBag({Entry}) /\ y = EmptyBag /\ elapsed = 0

-----------------------------------------------------------------------------
\* Sets of functions are ordered by address.
addressOrders(p) ==
  {r \in [Defined(p) -> 1 .. Len(p.order)] : \A f, g \in Defined(p) : r[f] = r[g] => f = g}

\* LoopBoundASTConsumer::HandleTranslationUnit
ExportBounds ==
  /\ JSON = NoFile
  /\ JSON' = ExportLoopBoundsJSON(program.source)
  /\ UNCHANGED <<program, TAR, aggregated, next, MASG, ASG, execution>>

\* MachineLoopBoundAgregatorPass::runOnMachineFunction
AggregateLoopBounds ==
  /\ JSON # NoFile
  /\ aggregated = next /\ next < Len(program.order)
  /\ LET f == program.order[next + 1]
     IN  \E others \in irreducibleBackEdges(program, f, JSON) :
           TAR' = aggregate(program, f, TAR, JSON, others)
  /\ aggregated' = aggregated + 1
  /\ UNCHANGED <<program, JSON, next, MASG, ASG, execution>>

IsLast == next + 1 = Len(program.order)

\* FillMuGraphPass::runOnMachineFunction
FillMuGraph ==
  /\ aggregated = next + 1
  /\ \E u \in Uninitialised :
       LET filled == fillGraphWithFunction(program, TAR, MASG, program.order[next + 1], u)
       IN  \/ ~IsLast /\ MASG' = filled
           \/ IsLast /\ \E rank \in addressOrders(program) : MASG' = finalize(program, TAR, filled, rank)
  /\ next' = next + 1
  /\ UNCHANGED <<program, JSON, TAR, aggregated, ASG, execution>>

\* PathAnalysisPass::doFinalization
SolvePaths ==
  /\ next = Len(program.order)
  /\ ASG = NoGraph
  /\ ASG' = initializeGraph(MASG)
  /\ UNCHANGED <<program, JSON, TAR, aggregated, next, MASG, execution>>

-----------------------------------------------------------------------------
(***************************************************************************)
(* The execution.  Loop and recursion bounds are promises of its author:     *)
(* a header runs at most trips times between entering and leaving its    *)
(* loop, and a function at most activations times between entering and      *)
(* leaving the cycle of functions it recurs through.                        *)
(***************************************************************************)
calls(b) == b \in DOMAIN program.calls /\ program.calls[b] \in Defined(program)
calleeOf(b) == program.calls[b]
current == ownerOf(program, at)

costOf(b) == program.latency[b]
             + IF b \notin DOMAIN program.calls \/ calls(b) THEN 0
               ELSE IF calleeOf(b) \in DOMAIN program.libCost THEN program.libCost[calleeOf(b)]
               ELSE 1

Take(to, cost) ==
  /\ at' = to
  /\ x' = x (+) SetToBag({to})
  /\ y' = y (+) SetToBag({<<at, to>>})
  /\ elapsed' = elapsed + cost

\* The iteration counts it when control passes from block b to c.
counted(it, b, c) ==
  LET headers == DOMAIN program.body
      entered == {h \in headers : c \in program.body[h] /\ b \notin program.body[h]}
      inside == {h \in DOMAIN it \ entered : c \in program.body[h]}
  IN  [h \in inside \cup (headers \cap {c}) |->
         IF h # c THEN it[h] ELSE IF h \in entered THEN 1 ELSE copies(h, it) + 1]
withinBounds(it) == \A h \in DOMAIN it : it[h] <= program.trips[h]

firstBlock(f) == program.layout[f][1]
counter(f) == counted(EmptyBag, Entry, firstBlock(f))

Begin ==
  /\ ASG # NoGraph /\ at = Entry
  /\ Take(firstBlock(program.start), costOf(firstBlock(program.start)))
  /\ iterations' = counter(program.start)
  /\ invocations' = SetToBag({program.start})
  /\ UNCHANGED <<analysis, stack>>

inBlock == at \notin {Entry, Exit}

Branch ==
  /\ inBlock /\ ~calls(at)
  /\ \E c \in succOf(program, at) :
       /\ <<at, c>> \notin program.untaken
       /\ withinBounds(counted(iterations, at, c))
       /\ iterations' = counted(iterations, at, c)
       /\ Take(c, costOf(c))
  /\ UNCHANGED <<analysis, stack, invocations>>

\* The invocation counts when f is called by the current function.
invoked(f) ==
  IF current \in program.cycle[f] THEN invocations (+) SetToBag({f})
  ELSE [g \in (DOMAIN invocations \ program.cycle[f]) \cup {f} |-> IF g = f THEN 1 ELSE invocations[g]]

Call ==
  /\ inBlock /\ calls(at)
  /\ Len(stack) < MaxDepth
  /\ LET f == calleeOf(at) IN
       /\ f \in DOMAIN program.activations => invoked(f)[f] <= program.activations[f]
       /\ Take(firstBlock(f), costOf(firstBlock(f)))
       /\ invocations' = invoked(f)
       /\ iterations' = counter(f)
  /\ stack' = <<[node |-> at, iterations |-> iterations]>> \o stack
  /\ UNCHANGED analysis

Return ==
  /\ inBlock /\ at \in program.returns /\ stack # << >>
  /\ \E c \in succOf(program, Head(stack).node) :
       LET it == counted(Head(stack).iterations, Head(stack).node, c)
       IN  /\ withinBounds(it)
           /\ iterations' = it
           /\ Take(c, costOf(c))
  /\ stack' = Tail(stack)
  /\ UNCHANGED <<analysis, invocations>>

\* A block that goes nowhere: the program stops there.
stopsHere == inBlock /\ at \notin program.returns /\ succOf(program, at) = {} /\ ~calls(at)

\* Exit stands for the return of the start function; in one that never
\* returns, for stopping in its last block.
Leave ==
  /\ \/ inBlock /\ at \in program.returns /\ stack = << >>
     \/ stopsHere /\ stack = << >> /\ <<at, Exit>> \in MASG.Edges
  /\ Take(Exit, 0)
  /\ UNCHANGED <<analysis, stack, iterations, invocations>>

Next == ExportBounds \/ AggregateLoopBounds \/ FillMuGraph \/ SolvePaths \/ Begin \/ Branch \/ Call \/ Return \/ Leave

Spec == Init /\ [][Next]_vars

-----------------------------------------------------------------------------
Complete == at = Exit \/ (stopsHere /\ (stack # << >> \/ <<at, Exit>> \notin MASG.Edges))

\* Counters are bags over the graph, and every frame waits in a call block.
TypeOK ==
  /\ next \in 0 .. Len(program.order) /\ aggregated \in {next, next + 1}
  /\ at \in Blocks(program) \cup {Entry, Exit}
  /\ IsABag(x) /\ IsABag(y) /\ elapsed \in Nat
  /\ \A i \in DOMAIN stack : calls(stack[i].node)
  /\ MASG.Edges \subseteq MASG.Nodes \X MASG.Nodes

(***************************************************************************)
(* Whatever the program does, it walks along edges of the final graph:      *)
(* call and return wiring forgets no way into or out of a function, and     *)
(* pruning removes nothing that runs.                                       *)
(***************************************************************************)
ExecutionIsAPath == BagToSet(y) \subseteq MASG.Edges \/ ASG = NoGraph

(***************************************************************************)
(* The counts of a complete execution that keeps to its bounds satisfy all  *)
(* rows, so the maximum the solver reports is taken over a set that has     *)
(* this execution in it.                                                    *)
(***************************************************************************)
ExecutionIsFeasible == Complete => Feasible(ASG, x, y)

(***************************************************************************)
(* The objective charges an execution at least the cycles it takes, or a    *)
(* callee without a cost is reported.                                       *)
(***************************************************************************)
TimeIsCovered ==
  Complete => elapsed <= Objective(ASG, x) \/ MASG.UnsoundExternalCallees # {}

(***************************************************************************)
(* When every loop and every recursion has a bound, the solver has one too: *)
(* no set of edges can be walked round and round, each edge once, without   *)
(* violating a row.  This is what the call and return rows are for: without *)
(* them a call from one place may return to another.                        *)
(***************************************************************************)
NothingIsFree ==
  ASG # NoGraph /\ at = Entry => \A C \in Circulations(ASG) : ~Repeatable(ASG, C)

(***************************************************************************)
(* A function that is active twice at the same time is named by one of the  *)
(* three recursion reports.                                                 *)
(***************************************************************************)
RecursionIsReported ==
  inBlock =>
    \A i \in DOMAIN stack :
      ownerOf(program, stack[i].node) = current =>
        current \in MASG.BoundedRecursionFunctions \cup MASG.UnboundedRecursionFunctions
                      \cup MASG.MutualRecursionFunctions

(***************************************************************************)
(* What the bounds are about.  A header with a bound is the header of a loop  *)
(* that is entered there only and whose back edges come from inside, or the   *)
(* first block of a function that is the only one of its cycle to be called   *)
(* from elsewhere and whose back edges are calls from inside; and the program *)
(* stays within the bound.                                                   *)
(***************************************************************************)
bound(h) == ASG.UpperLoopBound[h]

KeepsLoop(h) ==
  /\ h \in Blocks(program) /\ h \in DOMAIN program.body /\ h \in program.body[h]
  /\ program.body[h] \subseteq Blocks(program)
  /\ bound(h) \in Nat \ {0} /\ program.trips[h] \in 0 .. bound(h)
  /\ \A e \in program.succ : e[2] \in program.body[h] /\ e[1] \notin program.body[h] =>
       e[2] = h \/ (e \in program.untaken /\ ~calls(e[1]))
  /\ \A f \in Defined(program) : firstBlock(f) \in program.body[h] => firstBlock(f) = h
  /\ \A e \in ASG.BackEdges : e[2] = h => e \in program.succ /\ e[1] \in program.body[h]

KeepsRecursion(f) ==
  /\ f \in DOMAIN program.activations /\ bound(firstBlock(f)) \in Nat \ {0}
  /\ program.activations[f] \in 0 .. bound(firstBlock(f))
  /\ f \in program.cycle[f] /\ program.start \notin program.cycle[f]
  /\ \A g \in Defined(program) :
       IF g \in program.cycle[f] THEN program.cycle[g] = program.cycle[f]
       ELSE program.cycle[g] \cap program.cycle[f] = {}
  /\ \A b \in DOMAIN program.calls :
       calleeOf(b) \in program.cycle[f] /\ ownerOf(program, b) \notin program.cycle[f] => calleeOf(b) = f
  /\ \A e \in ASG.BackEdges : e[2] = firstBlock(f) =>
       calls(e[1]) /\ calleeOf(e[1]) = f /\ ownerOf(program, e[1]) \in program.cycle[f]

BoundsAreKept ==
  ASG # NoGraph =>
    \A h \in ASG.LoopHeaders : bound(h) > 0 =>
      KeepsLoop(h) \/ \E f \in Defined(program) \ {program.start} : h = firstBlock(f) /\ KeepsRecursion(f)
=============================================================================
