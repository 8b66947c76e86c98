---------------------------- MODULE PathILPProofs ----------------------------
(***************************************************************************)
(* Proofs about the integer program: what the objective charges, and which   *)
(* rows the counts of an execution satisfy.  The sums in objective and rows  *)
(* are taken over finite sets, by the lemmas of InductionLemmas.             *)
(***************************************************************************)
EXTENDS PathAnalysisProofs, InductionLemmas

-----------------------------------------------------------------------------
(***************************************************************************)
(* The graphs are finite.                                                  *)
(***************************************************************************)
LEMMA FiniteRange ==
  ASSUME NEW T, NEW s \in Seq(T)
  PROVE  IsFiniteSet(Range(s))
<1>1. IsFiniteSet(DOMAIN s)
  BY FS_Interval
<1>2. s \in Surjection(DOMAIN s, Range(s))
  BY DEF Surjection, Range
<1> QED
  BY <1>1, <1>2, FS_Surjection

LEMMA FiniteProgram ==
  ASSUME NEW p, WellFormed(p)
  PROVE  IsFiniteSet(programNodes(p)) /\ IsFiniteSet(programEdges(p))
<1>1. IsFiniteSet(Defined(p))
  BY FiniteRange DEF WellFormed, Defined
<1> DEFINE bodies == [f \in Defined(p) |-> BlocksOf(p, f)]
           C == {BlocksOf(p, f) : f \in Defined(p)}
<1>2. bodies \in Surjection(Defined(p), C)
  BY DEF Surjection
<1>3. IsFiniteSet(C)
  <2> HIDE DEF bodies, C
  <2> QED
    BY <1>1, <1>2, FS_Surjection
<1>4. \A T \in C : IsFiniteSet(T)
  BY FiniteRange DEF WellFormed, BlocksOf
<1>5. IsFiniteSet(UNION C)
  <2> HIDE DEF C
  <2> QED
    BY <1>3, <1>4, FS_UNION
<1>6. IsFiniteSet(Blocks(p))
  BY <1>5 DEF Blocks
<1>7. IsFiniteSet(Blocks(p) \cup {Entry})
  BY <1>6, FS_AddElement
<1>8. IsFiniteSet((Blocks(p) \cup {Entry}) \cup {Exit})
  BY <1>7, FS_AddElement
<1>9. programNodes(p) = (Blocks(p) \cup {Entry}) \cup {Exit}
  BY DEF programNodes
<1>10. IsFiniteSet(programNodes(p))
  BY <1>8, <1>9
<1>11. IsFiniteSet(programNodes(p) \X programNodes(p))
  BY <1>10, FS_Product
<1> QED
  BY <1>10, <1>11, ProgramEdgesAreWithin, FS_Subset

LEMMA FiniteGraph ==
  ASSUME NEW p, WellFormed(p), NEW M, IsFinal(p, M)
  PROVE  IsFiniteSet(M.Nodes) /\ IsFiniteSet(M.Edges)
<1>1. M.Nodes \subseteq programNodes(p) /\ M.Edges \subseteq programEdges(p)
  BY ClosureWithin DEF IsFinal, detached
<1> QED
  BY <1>1, FiniteProgram, FS_Subset

-----------------------------------------------------------------------------
(***************************************************************************)
(* The sums of the objective and of the rows.                               *)
(***************************************************************************)
LEMMA FlowIsASum ==
  ASSUME NEW E, IsFiniteSet(E), NEW z
  PROVE  \E g : Sums(g, [e \in E |-> copies(e, z)], E) /\ flow(E, z) = g[E]
<1> DEFINE c == [e \in E |-> copies(e, z)]
<1>1. \A s \in SUBSET E : s # {} => c[chosen(s)] = copies(chosen(s), z)
  BY DEF chosen
<1>2. PICK g : Sums(g, c, E)
  <2> HIDE DEF c
  <2> QED
    BY SumsExist
<1>3. g = [s \in SUBSET E |-> IF s = {} THEN 0 ELSE copies(chosen(s), z) + g[s \ {chosen(s)}]]
  <2> HIDE DEF c
  <2> QED
    BY <1>1, <1>2 DEF Sums
<1>4. \E h : /\ h = [s \in SUBSET E |-> IF s = {} THEN 0 ELSE copies(chosen(s), z) + h[s \ {chosen(s)}]]
             /\ flow(E, z) = h[E]
  <2> HIDE <1>1, <1>2
  <2> QED
    BY <1>3 DEF flow, MapThenSumSet, MapThenFoldSet, chosen
<1>5. PICK h : /\ h = [s \in SUBSET E |-> IF s = {} THEN 0 ELSE copies(chosen(s), z) + h[s \ {chosen(s)}]]
               /\ flow(E, z) = h[E]
  BY <1>4
<1>6. Sums(h, c, E)
  <2> HIDE DEF c
  <2> QED
    BY <1>1, <1>5 DEF Sums
<1> QED
  BY <1>5, <1>6

LEMMA ObjectiveIsASum ==
  ASSUME NEW A, IsFiniteSet(A.Nodes), NEW z
  PROVE  \E g : /\ Sums(g, [n \in A.Nodes |-> A.Cost[n] * copies(n, z)], A.Nodes)
                /\ Objective(A, z) = g[A.Nodes]
<1> DEFINE c == [n \in A.Nodes |-> A.Cost[n] * copies(n, z)]
<1>1. \A s \in SUBSET A.Nodes : s # {} => c[chosen(s)] = A.Cost[chosen(s)] * copies(chosen(s), z)
  BY DEF chosen
<1>2. PICK g : Sums(g, c, A.Nodes)
  <2> HIDE DEF c
  <2> QED
    BY SumsExist
<1>3. g = [s \in SUBSET A.Nodes |->
             IF s = {} THEN 0 ELSE A.Cost[chosen(s)] * copies(chosen(s), z) + g[s \ {chosen(s)}]]
  <2> HIDE DEF c
  <2> QED
    BY <1>1, <1>2 DEF Sums
<1>4. \E h : /\ h = [s \in SUBSET A.Nodes |->
                       IF s = {} THEN 0 ELSE A.Cost[chosen(s)] * copies(chosen(s), z) + h[s \ {chosen(s)}]]
             /\ Objective(A, z) = h[A.Nodes]
  BY <1>3 DEF Objective, MapThenSumSet, MapThenFoldSet, chosen
<1>5. PICK h : /\ h = [s \in SUBSET A.Nodes |->
                       IF s = {} THEN 0 ELSE A.Cost[chosen(s)] * copies(chosen(s), z) + h[s \ {chosen(s)}]]
               /\ Objective(A, z) = h[A.Nodes]
  BY <1>4
<1>6. Sums(h, c, A.Nodes)
  <2> HIDE DEF c
  <2> QED
    BY <1>1, <1>5 DEF Sums
<1> QED
  BY <1>5, <1>6

-----------------------------------------------------------------------------
(***************************************************************************)
(* Time.  Every step is charged what it costs: the cost of a node is the     *)
(* latency of its block and, when the block calls a library that the target  *)
(* knows, that library's cycles; a call of anything else is reported.        *)
(***************************************************************************)
TimeInv ==
  /\ PathInv
  /\ ASG = NoGraph => elapsed = 0
  /\ ASG # NoGraph /\ MASG.UnsoundExternalCallees = {} => elapsed <= Objective(ASG, x)

LEMMA StepCost ==
  ASSUME AnalysisInv, ASG # NoGraph, MASG.UnsoundExternalCallees = {},
         NEW b \in Blocks(program), b \in MASG.Nodes
  PROVE  costOf(b) = ASG.Cost[b]
<1>1. WellFormed(program) /\ IsFinal(program, MASG) /\ ASG = initializeGraph(MASG)
  BY ProgramsAreWellFormed DEF AnalysisInv
<1>2. ASG.Cost[b] = chargedOf(program, b)
  BY <1>1 DEF IsFinal, initializeGraph
<1>3. b \in externalBlocks(program) => program.calls[b] \in DOMAIN program.libCost
  BY <1>1 DEF IsFinal
<1>4. program.latency[b] \in Nat
  BY <1>1 DEF WellFormed
<1> QED
  BY <1>2, <1>3, <1>4 DEF chargedOf, costOf, calls, calleeOf, externalBlocks

\* The objective grows by the cost of the node that is taken.
LEMMA ObjectiveGrows ==
  ASSUME NEW p, WellFormed(p), NEW M, IsFinal(p, M), NEW A, A = initializeGraph(M),
         NEW z, IsABag(z), NEW to \in M.Nodes
  PROVE  /\ Objective(A, z) \in Nat
         /\ Objective(A, z (+) SetToBag({to})) = Objective(A, z) + A.Cost[to]
<1> DEFINE N == A.Nodes
           w == z (+) SetToBag({to})
           c == [n \in N |-> A.Cost[n] * copies(n, z)]
           d == [n \in N |-> A.Cost[n] * copies(n, w)]
<1>2. N = M.Nodes /\ IsFiniteSet(N)
  BY FiniteGraph DEF initializeGraph
<1>3. \A n \in N : A.Cost[n] \in Nat
  <2>1. externalBlocks(p) \subseteq DOMAIN p.calls
    BY DEF externalBlocks
  <2>2. \A b \in Blocks(p) : chargedOf(p, b) \in Nat
    BY <2>1 DEF chargedOf, WellFormed
  <2> QED
    BY <2>2 DEF IsFinal, initializeGraph
<1>4. \A n : copies(n, z) \in Nat /\ copies(n, w) = copies(n, z) + IF n = to THEN 1 ELSE 0
  BY BagAdd
<1> HIDE DEF w
<1>5. PICK g : Sums(g, c, N) /\ Objective(A, z) = g[N]
  BY <1>2, ObjectiveIsASum
<1>6. PICK h : Sums(h, d, N) /\ Objective(A, w) = h[N]
  BY <1>2, ObjectiveIsASum
<1>7. \A n \in N : c[n] \in Nat
  BY <1>3, <1>4
<1>8. \A n \in N : d[n] = IF n = to THEN c[n] + A.Cost[to] ELSE c[n]
  <2> SUFFICES ASSUME NEW n \in N PROVE d[n] = IF n = to THEN c[n] + A.Cost[to] ELSE c[n]
    OBVIOUS
  <2>1. ASSUME NEW k \in Nat, NEW m \in Nat PROVE k * (m + 1) = k * m + k /\ k * (m + 0) = k * m
    OBVIOUS
  <2>2. A.Cost[n] \in Nat /\ copies(n, z) \in Nat
    BY <1>3, <1>4
  <2> QED
    BY <1>4, <2>1, <2>2
<1> HIDE DEF c, d, N
<1>9. h[N] = g[N] + A.Cost[to]
  BY <1>2, <1>3, <1>5, <1>6, <1>7, <1>8, SumsGrow
<1>10. g[N] \in Nat
  BY <1>2, <1>5, <1>7, SumsAreNumbers
<1> QED
  BY <1>5, <1>6, <1>9, <1>10 DEF w

LEMMA TimeInvStep == NoReentry /\ TimeInv /\ [Next]_vars => TimeInv'
<1> SUFFICES ASSUME NoReentry, TimeInv, [Next]_vars
             PROVE  /\ (ASG = NoGraph => elapsed = 0)'
                    /\ (ASG # NoGraph /\ MASG.UnsoundExternalCallees = {} => elapsed <= Objective(ASG, x))'
  BY PathInvStep DEF TimeInv
<1>0. WellFormed(program) /\ PathInv /\ AnalysisInv /\ ExecutionTypes
  BY ProgramsAreWellFormed DEF TimeInv, PathInv, TypeInv, AnalysisInv
<1>1. CASE Begin \/ Branch \/ Call \/ Return \/ Leave
  <2>1. UNCHANGED analysis
    BY <1>1 DEF Begin, Branch, Call, Return, Leave
  <2>2. ASG # NoGraph /\ IsFinal(program, MASG) /\ <<at, at'>> \in MASG.Edges
    BY <1>0, <1>1, StepTakesEdge
  <2>3. at' \in MASG.Nodes
    BY <2>2 DEF IsFinal, detached
  <2>4. SUFFICES ASSUME MASG.UnsoundExternalCallees = {} PROVE elapsed' <= Objective(ASG, x')
    BY <2>1, <2>2 DEF analysis
  <2>5. elapsed <= Objective(ASG, x) /\ elapsed \in Nat /\ IsABag(x)
    BY <1>0, <2>2, <2>4 DEF TimeInv, ExecutionTypes
  <2>6. x' = x (+) SetToBag({at'}) /\ elapsed' = elapsed + ASG.Cost[at']
    <3>1. \A f \in Defined(program) : firstBlock(f) \in Blocks(program)
      BY <1>0, EntryBlocks DEF firstBlock
    <3>2. program.start \in Defined(program)
      BY <1>0 DEF WellFormed
    <3>3. \A b \in Blocks(program) \cap MASG.Nodes : costOf(b) = ASG.Cost[b]
      BY <1>0, <2>2, <2>4, StepCost
    <3>4. CASE Begin
      BY <2>3, <3>1, <3>2, <3>3, <3>4 DEF Begin, Take
    <3>5. CASE Branch
      BY <2>3, <3>3, <3>5 DEF Branch, Take, succOf
    <3>6. CASE Call
      BY <2>3, <3>1, <3>3, <3>6 DEF Call, Take, calls, calleeOf
    <3>7. CASE Return
      BY <2>3, <3>3, <3>7 DEF Return, Take, succOf
    <3>8. CASE Leave
      <4>1. Exit \notin Blocks(program)
        BY <1>0 DEF WellFormed
      <4>2. at' = Exit /\ x' = x (+) SetToBag({Exit}) /\ elapsed' = elapsed + 0
        BY <3>8 DEF Leave, Take
      <4>3. ASG.Cost[Exit] = 0
        BY <1>0, <2>2, <2>3, <4>1, <4>2 DEF AnalysisInv, IsFinal, initializeGraph
      <4> QED
        BY <4>2, <4>3
    <3> QED
      BY <1>1, <3>4, <3>5, <3>6, <3>7, <3>8
  <2>7. /\ Objective(ASG, x) \in Nat
        /\ Objective(ASG, x') = Objective(ASG, x) + ASG.Cost[at']
    BY <1>0, <2>2, <2>3, <2>5, <2>6, ObjectiveGrows DEF AnalysisInv
  <2>8. elapsed' \in Nat
    <3>1. ExecutionTypes'
      BY <1>0, TypeInvStep DEF PathInv, TypeInv
    <3> QED
      BY <3>1 DEF ExecutionTypes
  <2>9. ASG.Cost[at'] \in Nat
    <3>1. chargedOf(program, at') \in Nat \/ at' \notin Blocks(program)
      BY <1>0 DEF chargedOf, WellFormed, externalBlocks
    <3> QED
      BY <1>0, <2>2, <2>3, <3>1 DEF AnalysisInv, IsFinal, initializeGraph
  <2> QED
    BY <2>5, <2>6, <2>7, <2>9
<1>2. CASE FillMuGraph \/ SolvePaths
  <2>1. Len(program.order) \in Nat
    BY <1>0 DEF WellFormed
  <2>2. UNCHANGED execution /\ program' = program /\ ASG = NoGraph /\ elapsed = 0
    BY <1>0, <1>2, <2>1 DEF FillMuGraph, SolvePaths, AnalysisInv, TimeInv
  <2>3. AnalysisInv' /\ IsABag(x') /\ elapsed' = 0
    BY <1>0, <2>2, AnalysisStep DEF execution, ExecutionTypes
  <2>4. ASG' # NoGraph => Objective(ASG, x)' \in Nat
    <3> SUFFICES ASSUME ASG' # NoGraph PROVE Objective(ASG, x)' \in Nat
      OBVIOUS
    <3>1. Entry \in MASG'.Nodes
      BY <2>3, ClosureRoot DEF AnalysisInv, IsFinal, programNodes
    <3> QED
      BY <1>0, <2>2, <2>3, <3>1, ObjectiveGrows DEF AnalysisInv
  <2> QED
    BY <2>3, <2>4
<1>3. CASE ExportBounds \/ AggregateLoopBounds \/ UNCHANGED vars
  <2>1. UNCHANGED <<execution, program, MASG, ASG>>
    BY <1>3 DEF ExportBounds, AggregateLoopBounds, vars, analysis
  <2> QED
    BY <2>1 DEF TimeInv, execution
<1> QED
  BY <1>1, <1>2, <1>3 DEF Next

(***************************************************************************)
(* The objective charges every execution at least the cycles it takes,       *)
(* whatever the program, its libraries and its recursion are: no block, call *)
(* or library is forgotten, or the callee is among the unsound ones.         *)
(***************************************************************************)
THEOREM TimeCovered ==
  ASSUME NoReentry
  PROVE  Spec => []TimeIsCovered
<1>1. Init => TimeInv
  BY PathInvInit DEF TimeInv, Init
<1>2. NoReentry /\ Spec => []TimeInv
  BY <1>1, TimeInvStep, PTL DEF Spec
<1>3. TimeInv => TimeIsCovered
  <2>1. TimeInv /\ Complete => ASG # NoGraph
    BY ProgramsAreWellFormed DEF TimeInv, PathInv, TypeInv, AnalysisInv, ExecutionTypes, Complete, stopsHere, inBlock
  <2> QED
    BY <2>1 DEF TimeInv, TimeIsCovered
<1> QED
  BY <1>2, <1>3, PTL

-----------------------------------------------------------------------------
(***************************************************************************)
(* Flow.  Taking an edge adds one to the flow of the edge sets it is in.      *)
(***************************************************************************)
LEMMA FlowGrows ==
  ASSUME NEW E, IsFiniteSet(E), NEW z, IsABag(z), NEW e
  PROVE  /\ flow(E, z) \in Nat
         /\ flow(E, z (+) SetToBag({e})) = flow(E, z) + IF e \in E THEN 1 ELSE 0
<1> DEFINE w == z (+) SetToBag({e})
           c == [a \in E |-> copies(a, z)]
           d == [a \in E |-> copies(a, w)]
<1>1. \A a : copies(a, z) \in Nat /\ copies(a, w) = copies(a, z) + IF a = e THEN 1 ELSE 0
  BY BagAdd
<1> HIDE DEF w
<1>2. PICK g : Sums(g, c, E) /\ flow(E, z) = g[E]
  BY FlowIsASum
<1>3. PICK h : Sums(h, d, E) /\ flow(E, w) = h[E]
  BY FlowIsASum
<1>4. \A a \in E : c[a] \in Nat
  BY <1>1
<1>5. \A a \in E : d[a] = IF a = e THEN c[a] + 1 ELSE c[a]
  BY <1>1
<1> HIDE DEF c, d
<1>6. g[E] \in Nat
  BY <1>2, <1>4, SumsAreNumbers
<1>7. CASE e \in E
  <2>1. h[E] = g[E] + 1
    BY <1>2, <1>3, <1>4, <1>5, <1>7, SumsGrow
  <2> QED
    BY <1>2, <1>3, <1>6, <1>7, <2>1 DEF w
<1>8. CASE e \notin E
  <2>1. \A a \in E : c[a] = d[a]
    BY <1>5, <1>8
  <2>2. h[E] = g[E]
    BY <1>2, <1>3, <2>1, SumsAgree
  <2> QED
    BY <1>2, <1>3, <1>6, <1>8, <2>2 DEF w
<1> QED
  BY <1>7, <1>8

LEMMA NoFlow ==
  ASSUME NEW E, IsFiniteSet(E), NEW z, \A e \in E : copies(e, z) = 0
  PROVE  flow(E, z) = 0
<1> DEFINE c == [e \in E |-> copies(e, z)]
<1>1. PICK g : Sums(g, c, E) /\ flow(E, z) = g[E]
  BY FlowIsASum
<1>2. \A e \in E : c[e] = 0
  OBVIOUS
<1> HIDE DEF c
<1> QED
  BY <1>1, <1>2, SumsOfZeros

\* What is known of edges that touch the synthetic nodes, and of calls.
LEMMA EdgesOfProgram ==
  ASSUME NEW p, WellFormed(p), Entry # Exit, NEW e \in programEdges(p)
  PROVE  /\ e[2] # Entry
         /\ e[1] \in Blocks(p) \cup {Entry}
<1>1. Entry \notin Blocks(p) /\ p.start \in Defined(p)
  BY DEF WellFormed
<1>2. \A f \in Defined(p) : firstBlockOf(p, f) \in Blocks(p)
  BY EntryBlocks DEF firstBlockOf
<1>3. CASE e \in p.succ
  <2>1. p.succ \subseteq Blocks(p) \X Blocks(p)
    BY DEF WellFormed
  <2> QED
    BY <1>1, <1>3, <2>1
<1>4. CASE e \in entryEdges(p)
  <2>1. p.layout[p.start] # << >> /\ p.layout[p.start] \in Seq(Blocks(p))
    BY <1>1 DEF WellFormed
  <2>2. p.layout[p.start][Len(p.layout[p.start])] \in Blocks(p)
    BY <2>1
  <2>3. BlocksOf(p, p.start) \subseteq Blocks(p)
    BY <1>1, EntryBlocks
  <2> QED
    BY <1>1, <1>2, <1>4, <2>1, <2>2, <2>3 DEF entryEdges, wireEntryExit, firstBlockOf
<1>5. CASE e \in callEdgesOf(p)
  <2>1. DOMAIN p.calls \subseteq Blocks(p)
    BY DEF WellFormed
  <2> QED
    BY <1>1, <1>2, <1>5, <2>1 DEF callEdgesOf, wiredBlocks
<1>6. CASE e \in returnEdgesOf(p)
  BY <1>1, <1>6 DEF returnEdgesOf
<1> QED
  BY <1>3, <1>4, <1>5, <1>6 DEF programEdges

\* The call sites of the solver graph, and the edges their rows are about.
LEMMA CallSiteRows ==
  ASSUME NEW p, WellFormed(p), NEW M, IsFinal(p, M), NEW A, A = initializeGraph(M),
         NEW cs \in A.CallSites
  PROVE  /\ cs.node \in DOMAIN p.calls /\ cs.callee = p.calls[cs.node]
         /\ cs.landing = succOf(p, cs.node)
         /\ \A e \in M.Edges : e \in callFlow(A, cs) <=>
              /\ cs.callee \in Defined(p) /\ firstBlockOf(p, cs.callee) \in M.Nodes
              /\ e = <<cs.node, firstBlockOf(p, cs.callee)>>
         /\ \A e \in M.Edges : e \in returnFlow(A, cs) <=>
              /\ cs.callee \in Defined(p) /\ e[1] \in p.returns \cap BlocksOf(p, cs.callee)
              /\ e[2] \in succOf(p, cs.node)
         /\ callFlow(A, cs) \subseteq M.Edges /\ returnFlow(A, cs) \subseteq M.Edges
<1>1. /\ A.Edges = M.Edges
      /\ A.CallSites \subseteq M.CallSites
      /\ A.FunctionEntries = {m \in M.FunctionToEntryNodeMap : m[2] \in M.Nodes}
      /\ A.FunctionReturns = {m \in M.FunctionToReturnNodesMap : m[2] \in M.Nodes}
  BY DEF initializeGraph
<1>2. PICK b \in DOMAIN p.calls : cs = siteOf(p, b)
  BY <1>1 DEF IsFinal
<1>3. cs.node = b /\ cs.callee = p.calls[b] /\ cs.landing = succOf(p, b)
  BY <1>2, Landings DEF siteOf
<1>4. M.Edges \subseteq M.Nodes \X M.Nodes
  BY EdgesAreWithin
<1> DEFINE entries == {m \in A.FunctionEntries : m[1] = cs.callee}
           returns == {m \in A.FunctionReturns : m[1] = cs.callee}
<1>5. \A n : n \in {m[2] : m \in entries} <=>
             cs.callee \in Defined(p) /\ n = firstBlockOf(p, cs.callee) /\ n \in M.Nodes
  <2>1. ASSUME NEW n, cs.callee \in Defined(p), n = firstBlockOf(p, cs.callee), n \in M.Nodes
        PROVE  n \in {m[2] : m \in entries}
    <3>1. <<cs.callee, n>> \in entries /\ <<cs.callee, n>>[2] = n
      BY <1>1, <2>1 DEF IsFinal
    <3> QED
      BY <3>1
  <2>2. ASSUME NEW m \in entries
        PROVE  cs.callee \in Defined(p) /\ m[2] = firstBlockOf(p, cs.callee) /\ m[2] \in M.Nodes
    BY <1>1 DEF IsFinal
  <2> HIDE DEF entries
  <2> QED
    BY <2>1, <2>2
<1>6. \A n \in M.Nodes : n \in {m[2] : m \in returns} <=>
             cs.callee \in Defined(p) /\ n \in p.returns \cap BlocksOf(p, cs.callee)
  <2>1. ASSUME NEW n \in M.Nodes, cs.callee \in Defined(p), n \in p.returns \cap BlocksOf(p, cs.callee)
        PROVE  n \in {m[2] : m \in returns}
    <3>1. <<cs.callee, n>> \in returns /\ <<cs.callee, n>>[2] = n
      BY <1>1, <2>1 DEF IsFinal
    <3> QED
      BY <3>1
  <2>2. ASSUME NEW m \in returns
        PROVE  cs.callee \in Defined(p) /\ m[2] \in p.returns \cap BlocksOf(p, cs.callee)
    BY <1>1 DEF IsFinal
  <2> HIDE DEF returns
  <2> QED
    BY <2>1, <2>2
<1>7. /\ callFlow(A, cs) = M.Edges \cap ({cs.node} \X {m[2] : m \in entries})
      /\ returnFlow(A, cs) = M.Edges \cap ({m[2] : m \in returns} \X cs.landing)
  BY <1>1 DEF callFlow, returnFlow
<1> HIDE DEF entries, returns
<1>8. \A e \in M.Edges : e = <<e[1], e[2]>> /\ e[1] \in M.Nodes /\ e[2] \in M.Nodes
  BY <1>4
<1> QED
  BY <1>3, <1>5, <1>6, <1>7, <1>8

-----------------------------------------------------------------------------
(***************************************************************************)
(* The counts and the rows.  At any moment of an execution, a node has been  *)
(* visited once more than it was left if the execution is in it, and once    *)
(* more than it was entered if it is Entry; a call has been made once more    *)
(* than it has returned for every frame that waits in its block.             *)
(***************************************************************************)
framesIn(b) == {k \in 1 .. Len(stack) : stack[Len(stack) + 1 - k].node = b}
waiting(b) == Cardinality(framesIn(b))

FlowInv ==
  /\ PathInv
  /\ ASG = NoGraph => x = SetToBag({Entry}) /\ y = EmptyBag
  /\ ASG # NoGraph =>
       /\ \A n \in MASG.Nodes :
            /\ copies(n, x) = flow(into(ASG, n), y) + IF n = Entry THEN 1 ELSE 0
            /\ copies(n, x) = flow(outOf(ASG, n), y) + IF n = at THEN 1 ELSE 0
       /\ \A cs \in ASG.CallSites :
            flow(callFlow(ASG, cs), y) = flow(returnFlow(ASG, cs), y) + waiting(cs.node)

LEMMA NoneWaits ==
  ASSUME stack = << >>
  PROVE  \A b : waiting(b) = 0
<1>1. \A b : framesIn(b) = {}
  BY DEF framesIn
<1> QED
  BY <1>1, FS_EmptySet DEF waiting

LEMMA WaitingStays ==
  ASSUME stack' = stack
  PROVE  \A b : waiting(b)' = waiting(b)
BY DEF waiting, framesIn

LEMMA WaitingIsFinite ==
  ASSUME ExecutionTypes
  PROVE  \A b : IsFiniteSet(framesIn(b)) /\ waiting(b) \in Nat
<1>1. IsFiniteSet(1 .. Len(stack))
  BY StackTypes, FS_Interval
<1>2. \A b : framesIn(b) \in SUBSET (1 .. Len(stack))
  BY DEF framesIn
<1> QED
  BY <1>1, <1>2, FS_Subset, FS_CardinalityType DEF waiting

LEMMA WaitingCall ==
  ASSUME ExecutionTypes, Call
  PROVE  \A b : waiting(b)' = waiting(b) + IF b = at THEN 1 ELSE 0
<1> SUFFICES ASSUME NEW b PROVE waiting(b)' = waiting(b) + IF b = at THEN 1 ELSE 0
  OBVIOUS
<1> DEFINE L == Len(stack)
<1>1. /\ L \in Nat /\ Len(stack') = L + 1 /\ stack'[1].node = at
      /\ \A i \in 2 .. L + 1 : stack'[i] = stack[i - 1]
  BY CallShifts
<1>2. \A k \in 1 .. L : stack'[L + 2 - k] = stack[L + 1 - k]
  <2> SUFFICES ASSUME NEW k \in 1 .. L PROVE stack'[L + 2 - k] = stack[L + 1 - k]
    OBVIOUS
  <2>1. L + 2 - k \in 2 .. L + 1 /\ (L + 2 - k) - 1 = L + 1 - k
    BY <1>1
  <2> QED
    BY <1>1, <2>1
<1>3. framesIn(b)' = {k \in 1 .. L + 1 : stack'[L + 2 - k].node = b}
  <2>1. framesIn(b)' = {k \in 1 .. Len(stack') : stack'[Len(stack') + 1 - k].node = b}
    BY DEF framesIn
  <2>2. \A k \in 1 .. L + 1 : L + 1 + 1 - k = L + 2 - k
    BY <1>1
  <2> QED
    BY <1>1, <2>1, <2>2
<1>4. framesIn(b)' = framesIn(b) \cup {k \in {L + 1} : b = at}
  <2>1. stack'[L + 2 - (L + 1)] = stack'[1]
    BY <1>1
  <2>2. 1 .. L + 1 = (1 .. L) \cup {L + 1} /\ L + 1 \notin 1 .. L
    BY <1>1
  <2> QED
    BY <1>1, <1>2, <1>3, <2>1, <2>2 DEF framesIn
<1>5. L + 1 \notin framesIn(b)
  BY <1>1 DEF framesIn
<1>6. IsFiniteSet(framesIn(b)) /\ waiting(b) \in Nat
  BY WaitingIsFinite
<1>7. CASE b = at
  <2>1. framesIn(b)' = framesIn(b) \cup {L + 1}
    BY <1>4, <1>7
  <2> QED
    BY <1>5, <1>6, <1>7, <2>1, FS_AddElement DEF waiting
<1>8. CASE b # at
  <2>1. framesIn(b)' = framesIn(b)
    BY <1>4, <1>8
  <2> QED
    BY <1>6, <1>8, <2>1 DEF waiting
<1> QED
  BY <1>7, <1>8

LEMMA WaitingReturn ==
  ASSUME ExecutionTypes, Return
  PROVE  \A b : waiting(b) = waiting(b)' + IF b = Head(stack).node THEN 1 ELSE 0
<1> SUFFICES ASSUME NEW b PROVE waiting(b) = waiting(b)' + IF b = Head(stack).node THEN 1 ELSE 0
  OBVIOUS
<1> DEFINE L == Len(stack)
<1>1. /\ L \in Nat /\ L > 0 /\ Len(stack') = L - 1
      /\ \A i \in 1 .. L - 1 : stack'[i] = stack[i + 1]
  BY ReturnShifts
<1>2. framesIn(b)' = {k \in 1 .. L - 1 : stack'[L - k].node = b}
  <2>1. framesIn(b)' = {k \in 1 .. Len(stack') : stack'[Len(stack') + 1 - k].node = b}
    BY DEF framesIn
  <2>2. \A k \in 1 .. L - 1 : L - 1 + 1 - k = L - k
    BY <1>1
  <2> QED
    BY <1>1, <2>1, <2>2
<1>3. \A k \in 1 .. L - 1 : stack'[L - k] = stack[L + 1 - k]
  <2> SUFFICES ASSUME NEW k \in 1 .. L - 1 PROVE stack'[L - k] = stack[L + 1 - k]
    OBVIOUS
  <2>1. L - k \in 1 .. L - 1 /\ (L - k) + 1 = L + 1 - k
    BY <1>1
  <2> QED
    BY <1>1, <2>1
<1>4. framesIn(b)' = framesIn(b) \ {L}
  <2>1. 1 .. L - 1 = (1 .. L) \ {L}
    BY <1>1
  <2> QED
    BY <1>1, <1>2, <1>3, <2>1 DEF framesIn
<1>5. L \in framesIn(b) <=> b = Head(stack).node
  <2>1. L + 1 - L = 1 /\ L \in 1 .. L
    BY <1>1
  <2>2. Head(stack) = stack[1]
    BY ReturnShifts
  <2> QED
    BY <2>1, <2>2 DEF framesIn
<1>6. IsFiniteSet(framesIn(b)) /\ waiting(b) \in Nat
  BY WaitingIsFinite
<1>7. CASE L \in framesIn(b)
  <2>1. framesIn(b) = framesIn(b)' \cup {L} /\ L \notin framesIn(b)' /\ IsFiniteSet(framesIn(b)')
    BY <1>4, <1>6, <1>7, FS_RemoveElement
  <2>2. Cardinality(framesIn(b)) = Cardinality(framesIn(b)') + 1
    BY <2>1, FS_AddElement
  <2> QED
    BY <1>5, <1>7, <2>2 DEF waiting
<1>8. CASE L \notin framesIn(b)
  <2>1. framesIn(b)' = framesIn(b)
    BY <1>4, <1>8
  <2> QED
    BY <1>5, <1>6, <1>8, <2>1 DEF waiting
<1> QED
  BY <1>7, <1>8

\* Only calls and returns take edges that a call site's row is about.
LEMMA CallSiteSteps ==
  ASSUME PathInv, NoReentry, Begin \/ Branch \/ Call \/ Return \/ Leave, NEW cs \in ASG.CallSites
  PROVE  /\ <<at, at'>> \in callFlow(ASG, cs) <=> Call /\ cs.node = at
         /\ <<at, at'>> \in returnFlow(ASG, cs) <=> Return /\ cs.node = Head(stack).node
<1> DEFINE e == <<at, at'>>
<1>0. WellFormed(program) /\ AnalysisInv /\ ExecutionTypes
  BY ProgramsAreWellFormed DEF PathInv, TypeInv, AnalysisInv
<1>1. ASG = initializeGraph(MASG) /\ IsFinal(program, MASG) /\ e \in MASG.Edges /\ at' \in MASG.Nodes
  <2>1. ASG # NoGraph /\ IsFinal(program, MASG) /\ e \in MASG.Edges
    BY StepTakesEdge
  <2> QED
    BY <1>0, <2>1, EdgesAreWithin DEF AnalysisInv
<1>2. /\ cs.node \in DOMAIN program.calls /\ cs.callee = program.calls[cs.node]
      /\ e \in callFlow(ASG, cs) <=>
            /\ cs.callee \in Defined(program) /\ firstBlockOf(program, cs.callee) \in MASG.Nodes
            /\ at = cs.node /\ at' = firstBlockOf(program, cs.callee)
      /\ e \in returnFlow(ASG, cs) <=>
            /\ cs.callee \in Defined(program) /\ at \in program.returns \cap BlocksOf(program, cs.callee)
            /\ at' \in succOf(program, cs.node)
  BY <1>0, <1>1, CallSiteRows
<1>3. Entry \notin Blocks(program) /\ Exit \notin Blocks(program) /\ DOMAIN program.calls \subseteq Blocks(program)
  BY <1>0 DEF WellFormed
<1>4. \A f \in Defined(program) : firstBlockOf(program, f) \in Blocks(program) /\ BlocksOf(program, f) \subseteq Blocks(program)
  BY <1>0, EntryBlocks DEF firstBlockOf
<1>5. inBlock => at \in Blocks(program)
  BY <1>0 DEF inBlock, ExecutionTypes
<1>6. \A b \in program.returns \cap Blocks(program) : succOf(program, b) = {} /\ b \notin DOMAIN program.calls
  BY <1>0 DEF WellFormed
<1> HIDE DEF e
<1>7. CASE Begin
  <2>1. at = Entry /\ ~Call /\ ~Return
    BY <1>7 DEF Begin, Call, Return, inBlock
  <2> QED
    BY <1>2, <1>3, <1>4, <2>1 DEF e
<1>8. CASE Branch
  <2>1. ~calls(at) /\ inBlock /\ at' \in succOf(program, at) /\ ~Call
    BY <1>8 DEF Branch, Take, Call
  <2>2. at \notin program.returns
    BY <1>5, <1>6, <2>1
  <2>3. ~Return
    BY <2>2 DEF Return
  <2> QED
    BY <1>2, <2>1, <2>2, <2>3 DEF e, calls
<1>9. CASE Call
  <2>1. /\ inBlock /\ at \in DOMAIN program.calls /\ program.calls[at] \in Defined(program)
        /\ at' = firstBlockOf(program, program.calls[at])
    BY <1>9 DEF Call, Take, calls, calleeOf, firstBlock, firstBlockOf
  <2>2. at \notin program.returns
    BY <1>5, <1>6, <2>1
  <2>3. ~Return
    BY <2>2 DEF Return
  <2> QED
    BY <1>1, <1>2, <1>9, <2>1, <2>2, <2>3 DEF e
<1>10. CASE Return
  <2> DEFINE n == Head(stack).node
  <2>1. inBlock /\ at \in program.returns /\ stack # << >> /\ at' \in succOf(program, n)
    BY <1>10 DEF Return, Take
  <2>2. at \notin DOMAIN program.calls
    BY <1>5, <1>6, <2>1
  <2>3. ~Call
    BY <2>2 DEF Call, calls
  <2>4. Len(stack) \in Nat \ {0} /\ Head(stack) = stack[1]
    BY <1>0, <1>10, ReturnShifts
  <2>5. n \in DOMAIN program.calls /\ program.calls[n] \in Defined(program)
    BY <1>0, <2>4, StackTypes DEF calls
  <2>6. current = program.calls[n]
    BY <2>1, <2>4 DEF PathInv, StackIsAChain, activeAt, calleeOf
  <2>7. at \in BlocksOf(program, program.calls[n])
    BY <1>0, <1>5, <2>1, <2>6, Owners DEF current
  <2>8. cs.node = n => e \in returnFlow(ASG, cs)
    BY <1>2, <2>1, <2>5, <2>7
  <2>9. e \in returnFlow(ASG, cs) => cs.node = n
    BY <1>0, <1>2, <2>1, <2>5, Landings
  <2> QED
    BY <1>2, <1>10, <2>2, <2>3, <2>8, <2>9 DEF e
<1>11. CASE Leave
  <2>1. at' = Exit
    BY <1>11 DEF Leave, Take
  <2>2. ~Call /\ ~Return
    <3>1. Call => at' \in Blocks(program)
      BY <1>4 DEF Call, Take, calls, calleeOf, firstBlock, firstBlockOf
    <3>2. Return => at' \in Blocks(program)
      BY DEF Return, Take, succOf
    <3> QED
      BY <1>3, <2>1, <3>1, <3>2
  <2>3. \A b : Exit \notin succOf(program, b)
    BY <1>3 DEF succOf
  <2> QED
    BY <1>2, <1>3, <1>4, <2>1, <2>2, <2>3 DEF e
<1> QED
  BY <1>7, <1>8, <1>9, <1>10, <1>11

LEMMA FlowInvStep == NoReentry /\ FlowInv /\ [Next]_vars => FlowInv'
<1> SUFFICES ASSUME NoReentry, FlowInv, [Next]_vars PROVE FlowInv'
  OBVIOUS
<1>0. WellFormed(program) /\ PathInv /\ AnalysisInv /\ ExecutionTypes /\ PathInv'
  BY PathInvStep, ProgramsAreWellFormed DEF FlowInv, PathInv, TypeInv, AnalysisInv
<1>1. CASE Begin \/ Branch \/ Call \/ Return \/ Leave
  <2> DEFINE e == <<at, at'>>
  <2>1. UNCHANGED analysis
    BY <1>1 DEF Begin, Branch, Call, Return, Leave
  <2>2. ASG # NoGraph /\ IsFinal(program, MASG) /\ e \in MASG.Edges /\ ASG = initializeGraph(MASG)
    BY <1>0, <1>1, StepTakesEdge DEF AnalysisInv
  <2>3. x' = x (+) SetToBag({at'}) /\ y' = y (+) SetToBag({e})
    BY <1>1 DEF Begin, Branch, Call, Return, Leave, Take
  <2>4. IsABag(x) /\ IsABag(y)
    BY <1>0 DEF ExecutionTypes
  <2>5. ASG.Edges = MASG.Edges /\ IsFiniteSet(MASG.Edges)
    BY <1>0, <2>2, FiniteGraph DEF initializeGraph
  <2>6. \A E \in SUBSET MASG.Edges :
           flow(E, y) \in Nat /\ flow(E, y') = flow(E, y) + IF e \in E THEN 1 ELSE 0
    <3> HIDE DEF e
    <3> QED
      BY <2>3, <2>4, <2>5, FS_Subset, FlowGrows
  <2>7. \A n : copies(n, x) \in Nat /\ copies(n, x') = copies(n, x) + IF n = at' THEN 1 ELSE 0
    BY <2>3, <2>4, BagAdd
  <2>8. ASSUME NEW n \in MASG.Nodes
        PROVE  /\ copies(n, x') = flow(into(ASG, n), y') + IF n = Entry THEN 1 ELSE 0
               /\ copies(n, x') = flow(outOf(ASG, n), y') + IF n = at' THEN 1 ELSE 0
    <3>1. /\ into(ASG, n) \in SUBSET MASG.Edges /\ (e \in into(ASG, n) <=> n = at')
          /\ outOf(ASG, n) \in SUBSET MASG.Edges /\ (e \in outOf(ASG, n) <=> n = at)
      BY <2>2, <2>5 DEF into, outOf
    <3>2. /\ copies(n, x) = flow(into(ASG, n), y) + IF n = Entry THEN 1 ELSE 0
          /\ copies(n, x) = flow(outOf(ASG, n), y) + IF n = at THEN 1 ELSE 0
      BY <2>2 DEF FlowInv
    <3> HIDE DEF e
    <3>3. /\ flow(into(ASG, n), y) \in Nat /\ flow(outOf(ASG, n), y) \in Nat
          /\ flow(into(ASG, n), y') = flow(into(ASG, n), y) + IF n = at' THEN 1 ELSE 0
          /\ flow(outOf(ASG, n), y') = flow(outOf(ASG, n), y) + IF n = at THEN 1 ELSE 0
      BY <2>6, <3>1
    <3>4. copies(n, x) \in Nat /\ copies(n, x') = copies(n, x) + IF n = at' THEN 1 ELSE 0
      BY <2>7
    <3> QED
      BY <3>2, <3>3, <3>4
  <2>9. ASSUME NEW cs \in ASG.CallSites
        PROVE  flow(callFlow(ASG, cs), y') = flow(returnFlow(ASG, cs), y') + waiting(cs.node)'
    <3> DEFINE C == callFlow(ASG, cs)
               R == returnFlow(ASG, cs)
    <3>1. C \in SUBSET MASG.Edges /\ R \in SUBSET MASG.Edges
      BY <1>0, <2>2, CallSiteRows
    <3>2. /\ e \in C <=> Call /\ cs.node = at
          /\ e \in R <=> Return /\ cs.node = Head(stack).node
      BY <1>0, <1>1, CallSiteSteps
    <3>3. flow(C, y) = flow(R, y) + waiting(cs.node)
      BY <2>2 DEF FlowInv
    <3>4. waiting(cs.node) \in Nat /\ waiting(cs.node)' \in Nat
      <4>1. ExecutionTypes'
        BY <1>0 DEF PathInv, TypeInv
      <4>2. waiting(cs.node) \in Nat
        BY <1>0, WaitingIsFinite
      <4>3. waiting(cs.node)' \in Nat
        <5>1. CASE Call
          BY <1>0, <4>2, <5>1, WaitingCall
        <5>2. CASE Return
          <6>1. waiting(cs.node)' = Cardinality(framesIn(cs.node)')
            BY DEF waiting
          <6>2. Len(stack') \in Nat
            BY <1>0, <5>2, ReturnShifts
          <6>3. IsFiniteSet(1 .. Len(stack'))
            BY <6>2, FS_Interval
          <6>4. framesIn(cs.node)' \in SUBSET (1 .. Len(stack'))
            BY DEF framesIn
          <6> QED
            BY <6>1, <6>3, <6>4, FS_Subset, FS_CardinalityType
        <5>3. CASE stack' = stack
          BY <4>2, <5>3, WaitingStays
        <5> QED
          BY <1>1, <5>1, <5>2, <5>3 DEF Begin, Branch, Leave
      <4> QED
        BY <4>2, <4>3
    <3> HIDE DEF e, C, R
    <3>5. /\ flow(C, y) \in Nat /\ flow(R, y) \in Nat
          /\ flow(C, y') = flow(C, y) + IF e \in C THEN 1 ELSE 0
          /\ flow(R, y') = flow(R, y) + IF e \in R THEN 1 ELSE 0
      BY <2>6, <3>1
    <3>6. CASE Call
      <4>1. ~Return
        <5>1. at \in Blocks(program)
          BY <1>0, <3>6 DEF Call, inBlock, ExecutionTypes
        <5> QED
          BY <1>0, <3>6, <5>1 DEF Call, Return, calls, WellFormed
      <4>2. waiting(cs.node)' = waiting(cs.node) + IF cs.node = at THEN 1 ELSE 0
        BY <1>0, <3>6, WaitingCall
      <4> QED
        BY <3>2, <3>3, <3>4, <3>5, <3>6, <4>1, <4>2 DEF C, R
    <3>7. CASE Return
      <4>1. ~Call
        <5>1. at \in Blocks(program)
          BY <1>0, <3>7 DEF Return, inBlock, ExecutionTypes
        <5> QED
          BY <1>0, <3>7, <5>1 DEF Call, Return, calls, WellFormed
      <4>2. waiting(cs.node) = waiting(cs.node)' + IF cs.node = Head(stack).node THEN 1 ELSE 0
        BY <1>0, <3>7, WaitingReturn
      <4> QED
        BY <3>2, <3>3, <3>4, <3>5, <3>7, <4>1, <4>2 DEF C, R
    <3>8. CASE ~Call /\ ~Return
      <4>1. stack' = stack
        BY <1>1, <3>8 DEF Begin, Branch, Leave
      <4>2. waiting(cs.node)' = waiting(cs.node)
        BY <4>1, WaitingStays
      <4> QED
        BY <3>2, <3>3, <3>5, <3>8, <4>2 DEF C, R
    <3> QED
      BY <3>6, <3>7, <3>8
  <2>10. MASG' = MASG /\ ASG' = ASG
    BY <2>1 DEF analysis
  <2> QED
    BY <1>0, <2>2, <2>8, <2>9, <2>10 DEF FlowInv
<1>2. CASE FillMuGraph
  <2>1. Len(program.order) \in Nat
    BY <1>0 DEF WellFormed
  <2>2. UNCHANGED execution /\ ASG = NoGraph /\ ASG' = NoGraph
    BY <1>0, <1>2, <2>1 DEF FillMuGraph, AnalysisInv
  <2> QED
    BY <1>0, <2>2 DEF FlowInv, execution
<1>3. CASE SolvePaths
  <2>1. /\ UNCHANGED execution /\ ASG = NoGraph /\ UNCHANGED <<program, MASG, next>>
        /\ ASG' = initializeGraph(MASG) /\ IsFinal(program, MASG)
    BY <1>0, <1>3 DEF SolvePaths, AnalysisInv
  <2>2. x' = SetToBag({Entry}) /\ y' = EmptyBag /\ at' = Entry /\ stack' = << >>
    BY <1>0, <2>1 DEF FlowInv, execution, ExecutionTypes, PathInv, OutsideIsEmpty, inBlock
  <2>3. ASG'.Edges = MASG.Edges /\ IsFiniteSet(MASG.Edges)
    BY <1>0, <2>1, FiniteGraph DEF initializeGraph
  <2>4. \A E \in SUBSET MASG.Edges : flow(E, y') = 0
    BY <2>2, <2>3, FS_Subset, NoFlow, SingletonBag
  <2>5. ASSUME NEW n \in MASG.Nodes
        PROVE  /\ copies(n, x') = flow(into(ASG', n), y') + IF n = Entry THEN 1 ELSE 0
               /\ copies(n, x') = flow(outOf(ASG', n), y') + IF n = at' THEN 1 ELSE 0
    <3>1. into(ASG', n) \in SUBSET MASG.Edges /\ outOf(ASG', n) \in SUBSET MASG.Edges
      BY <2>3 DEF into, outOf
    <3>2. copies(n, x') = IF n = Entry THEN 1 ELSE 0
      BY <2>2, SingletonBag
    <3> QED
      BY <2>2, <2>4, <3>1, <3>2
  <2>6. ASSUME NEW cs \in ASG'.CallSites
        PROVE  flow(callFlow(ASG', cs), y') = flow(returnFlow(ASG', cs), y') + waiting(cs.node)'
    <3>1. callFlow(ASG', cs) \in SUBSET MASG.Edges /\ returnFlow(ASG', cs) \in SUBSET MASG.Edges
      BY <1>0, <2>1, CallSiteRows
    <3>2. waiting(cs.node)' = 0
      <4>1. framesIn(cs.node)' = {}
        BY <2>2 DEF framesIn
      <4> QED
        BY <4>1, FS_EmptySet DEF waiting
    <3> QED
      BY <2>4, <3>1, <3>2
  <2>7. MASG' = MASG /\ (ASG' = NoGraph => x' = SetToBag({Entry}) /\ y' = EmptyBag)
    BY <2>1, <2>2
  <2> QED
    BY <1>0, <2>5, <2>6, <2>7 DEF FlowInv
<1>4. CASE ExportBounds \/ AggregateLoopBounds \/ UNCHANGED vars
  <2>1. UNCHANGED <<execution, program, MASG, ASG>>
    BY <1>4 DEF ExportBounds, AggregateLoopBounds, vars, analysis
  <2>2. \A b : waiting(b)' = waiting(b)
    BY <2>1, WaitingStays DEF execution
  <2> QED
    BY <1>0, <2>1, <2>2 DEF FlowInv, execution
<1> QED
  BY <1>1, <1>2, <1>3, <1>4 DEF Next

-----------------------------------------------------------------------------
(***************************************************************************)
(* A program that stops inside calls leaves them unmatched.  Their rows are   *)
(* left out when the callee has no return at all; so a function other than    *)
(* the start function from which a stop is reached must not return on         *)
(* another path.                                                            *)
(***************************************************************************)
\* Among functions with a body, calls of symbols and libraries lead nowhere.
LEMMA ReachedByCalls ==
  ASSUME NEW p, WellFormed(p), NEW g \in Defined(p), g \in callNodes(p), NEW f \in Defined(p),
         f \in closure(g, calledFrom(p), callNodes(p))
  PROVE  f \in closure(g, callGraph(p), Defined(p))
<1> DEFINE C == closure(g, callGraph(p), Defined(p))
           S == {h \in callNodes(p) : h \in C \/ h \notin Defined(p)}
<1>1. f \in callNodes(p)
  BY ClosureWithin
<1>2. g \in C
  BY ClosureRoot
<1>3. ASSUME NEW e \in calledFrom(p), e[1] \in S PROVE e[2] \in S
  <2>1. PICK b \in DOMAIN p.calls : e = <<ownerOf(p, b), p.calls[b]>>
    BY DEF calledFrom
  <2>2. ownerOf(p, b) \in Defined(p)
    BY Owners DEF WellFormed
  <2>3. e[1] \in C /\ e[2] \in callNodes(p)
    BY <1>3, <2>1, <2>2 DEF callNodes
  <2>4. p.calls[b] \in Defined(p) => e \in callGraph(p)
    BY <2>1 DEF callGraph
  <2> HIDE DEF C
  <2>5. p.calls[b] \in Defined(p) => p.calls[b] \in C
    BY <2>1, <2>3, <2>4, ClosureStep DEF C
  <2> QED
    BY <2>1, <2>3, <2>5
<1>4. g \in S /\ S \in SUBSET callNodes(p)
  BY <1>2
<1> HIDE DEF S
<1>5. f \in S
  BY <1>3, <1>4, ClosureKeeps
<1> QED
  BY <1>5 DEF S

\* Where the program stops, no edge of the graph goes on.
LEMMA StopsAreExits ==
  ASSUME NoReentry, PathInv, Complete, at # Exit
  PROVE  \A e \in MASG.Edges : e[1] # at
<1> SUFFICES ASSUME NEW e \in MASG.Edges, e[1] = at PROVE FALSE
  OBVIOUS
<1>0. WellFormed(program) /\ AnalysisInv /\ ExecutionTypes /\ program \in Programs
  BY ProgramsAreWellFormed DEF PathInv, TypeInv, AnalysisInv
<1>1. /\ inBlock /\ at \notin program.returns /\ succOf(program, at) = {} /\ ~calls(at)
      /\ stack # << >> \/ <<at, Exit>> \notin MASG.Edges
      /\ at \in Blocks(program)
  BY <1>0 DEF Complete, stopsHere, inBlock, ExecutionTypes
<1>2. IsFinal(program, MASG)
  BY <1>0, <1>1 DEF AnalysisInv, ExecutionTypes, inBlock
<1>3. e \in programEdges(program) /\ e = <<e[1], e[2]>>
  BY <1>0, <1>2, ProgramEdgesAreWithin DEF IsFinal, detached
<1>4. CASE e \in program.succ
  <2>1. e[2] \in Blocks(program)
    BY <1>0, <1>4 DEF WellFormed
  <2> QED
    BY <1>1, <1>3, <1>4, <2>1 DEF succOf
<1>5. CASE e \in entryEdges(program)
  <2>1. program.layout[program.start] # << >> /\ program.start \in Defined(program)
    BY <1>0 DEF WellFormed
  <2>2. at = program.layout[program.start][Len(program.layout[program.start])] /\ e[2] = Exit
    BY <1>1, <1>3, <1>5, <2>1 DEF entryEdges, wireEntryExit, inBlock
  <2>3. stack # << >>
    BY <1>1, <1>3, <2>2
  <2>4. current = program.start
    <3>1. at \in BlocksOf(program, program.start)
      <4>1. program.layout[program.start] \in Seq(Blocks(program))
        BY <1>0, <2>1 DEF WellFormed
      <4>2. Len(program.layout[program.start]) \in DOMAIN program.layout[program.start]
        BY <2>1, <4>1
      <4> QED
        BY <2>2, <4>2 DEF BlocksOf, Range
    <3> QED
      BY <1>0, <2>1, <3>1, OwnerOfBlock DEF current
  <2>5. /\ 1 \in 1 .. Len(stack) /\ stack[1].node \in DOMAIN program.calls
        /\ program.calls[stack[1].node] \in Defined(program)
    <3>1. Len(stack) \in Nat /\ DOMAIN stack = 1 .. Len(stack) /\ Len(stack) # 0
      BY <1>0, <2>3, StackTypes DEF ExecutionTypes
    <3> QED
      BY <1>0, <3>1, StackTypes DEF calls
  <2>6. current = program.calls[stack[1].node]
    BY <1>1, <2>5 DEF PathInv, StackIsAChain, activeAt, calleeOf
  <2>7. stack[1].node \in wiredBlocks(program)
    BY <1>0, <2>5, LiveCalls DEF PathInv, StackIsAChain, liveFunctions
  <2> QED
    BY <2>4, <2>6, <2>7 DEF wiredBlocks
<1>6. CASE e \in callEdgesOf(program)
  BY <1>1, <1>6 DEF callEdgesOf, wiredBlocks, calls
<1>7. CASE e \in returnEdgesOf(program)
  BY <1>1, <1>7 DEF returnEdgesOf
<1> QED
  BY <1>3, <1>4, <1>5, <1>6, <1>7 DEF programEdges

\* Entry is the only node without predecessors.
LEMMA EntryIsTheOnlyEntry ==
  ASSUME NEW p, WellFormed(p), NEW M, IsFinal(p, M)
  PROVE  \A n \in M.Nodes : n # Entry => \E e \in M.Edges : e[2] = n
<1> DEFINE S == {n \in M.Nodes : n # Entry => \E e \in M.Edges : e[2] = n}
<1>1. M.Nodes \subseteq programNodes(p)
  BY ClosureWithin DEF IsFinal
<1>2. Entry \in M.Nodes
  BY ClosureRoot DEF IsFinal, programNodes
<1>3. ASSUME NEW e \in programEdges(p), e[1] \in S PROVE e[2] \in S
  <2>1. e = <<e[1], e[2]>>
    BY ProgramEdgesAreWithin
  <2>2. e[2] \in M.Nodes /\ e \in M.Edges
    BY <1>3, <2>1, EdgeIsInGraph
  <2> QED
    BY <2>2
<1>4. Entry \in S /\ S \in SUBSET programNodes(p)
  BY <1>1, <1>2
<1> HIDE DEF S
<1>5. M.Nodes \subseteq S
  BY <1>3, <1>4, ClosureKeeps DEF IsFinal
<1> QED
  BY <1>5 DEF S

LEMMA CountsAreFeasible ==
  ASSUME NoReentry, NoPartialStops, FlowInv, RecursionInv, Complete,
         \A n \in ASG.Nodes : LoopRow(ASG, n, x, y)
  PROVE  Feasible(ASG, x, y)
<1>0. WellFormed(program) /\ PathInv /\ AnalysisInv /\ ExecutionTypes /\ program \in Programs /\ Entry # Exit
  BY ProgramsAreWellFormed DEF FlowInv, PathInv, TypeInv, AnalysisInv
<1>1. ASG # NoGraph /\ ASG = initializeGraph(MASG) /\ IsFinal(program, MASG)
  BY <1>0 DEF Complete, stopsHere, inBlock, AnalysisInv, ExecutionTypes
<1>2. /\ ASG.Nodes = MASG.Nodes /\ ASG.Edges = MASG.Edges
      /\ ASG.Entries = {n \in MASG.Nodes : n = Entry \/ \A e \in MASG.Edges : e[2] # n}
      /\ ASG.Exits = {n \in MASG.Nodes : n = Exit \/ \A e \in MASG.Edges : e[1] # n}
  BY <1>1 DEF initializeGraph
<1>3. ASG.Entries \subseteq {Entry}
  BY <1>0, <1>1, <1>2, EntryIsTheOnlyEntry
<1>4. at \in ASG.Exits
  <2>1. at \in MASG.Nodes
    BY <1>0, <1>1 DEF PathInv, NodesAreInGraph
  <2> QED
    BY <1>0, <1>2, <2>1, StopsAreExits
<1>5. \A n \in ASG.Nodes : FlowInRow(ASG, n, x, y)
  <2> SUFFICES ASSUME NEW n \in ASG.Nodes, n \notin ASG.Entries PROVE copies(n, x) = flow(into(ASG, n), y)
    BY DEF FlowInRow
  <2>1. n # Entry
    BY <1>2
  <2>2. into(ASG, n) \in SUBSET MASG.Edges /\ IsFiniteSet(MASG.Edges) /\ IsABag(y)
    BY <1>0, <1>1, <1>2, FiniteGraph DEF into, ExecutionTypes
  <2>3. flow(into(ASG, n), y) \in Nat
    BY <2>2, FS_Subset, FlowGrows
  <2> QED
    BY <1>1, <1>2, <2>1, <2>3 DEF FlowInv
<1>6. \A n \in ASG.Nodes : FlowOutRow(ASG, n, x, y)
  <2> SUFFICES ASSUME NEW n \in ASG.Nodes, n \notin ASG.Exits PROVE copies(n, x) = flow(outOf(ASG, n), y)
    BY DEF FlowOutRow
  <2>1. n # at
    BY <1>4
  <2>2. outOf(ASG, n) \in SUBSET MASG.Edges /\ IsFiniteSet(MASG.Edges) /\ IsABag(y)
    BY <1>0, <1>1, <1>2, FiniteGraph DEF outOf, ExecutionTypes
  <2>3. flow(outOf(ASG, n), y) \in Nat
    BY <2>2, FS_Subset, FlowGrows
  <2> QED
    BY <1>1, <1>2, <2>1, <2>3 DEF FlowInv
<1>7. \A n \in ASG.Nodes : EntryRow(ASG, n, x)
  <2> SUFFICES ASSUME Entry \in ASG.Nodes PROVE copies(Entry, x) = 1
    BY <1>3 DEF EntryRow
  <2>1. into(ASG, Entry) = {}
    BY <1>0, <1>1, <1>2, EdgesOfProgram DEF into, IsFinal, detached
  <2>2. flow(into(ASG, Entry), y) = 0
    BY <2>1, FS_EmptySet, NoFlow
  <2> QED
    BY <1>1, <1>2, <2>2 DEF FlowInv
<1>8. \A cs \in ASG.CallSites : CallRow(ASG, cs, y)
  <2> SUFFICES ASSUME NEW cs \in ASG.CallSites, returnFlow(ASG, cs) # {}
               PROVE  flow(callFlow(ASG, cs), y) = flow(returnFlow(ASG, cs), y)
    BY DEF CallRow
  <2>1. flow(callFlow(ASG, cs), y) = flow(returnFlow(ASG, cs), y) + waiting(cs.node)
    BY <1>1 DEF FlowInv
  <2>2. returnFlow(ASG, cs) \in SUBSET MASG.Edges /\ IsFiniteSet(MASG.Edges) /\ IsABag(y)
    BY <1>0, <1>1, <1>2, FiniteGraph, CallSiteRows DEF ExecutionTypes
  <2>3. flow(returnFlow(ASG, cs), y) \in Nat
    BY <2>2, FS_Subset, FlowGrows
  <2>4. waiting(cs.node) = 0
    <3>1. CASE stack = << >>
      BY <3>1, NoneWaits
    <3>2. CASE stack # << >>
      <4>1. inBlock
        BY <1>0, <3>2 DEF PathInv, OutsideIsEmpty
      <4>2. stopBlock(program, at) /\ at \in Blocks(program)
        BY <1>0, <4>1 DEF Complete, inBlock, stopsHere, stopBlock, calls, ExecutionTypes
      <4>3. current = activeAt(1) /\ at \in BlocksOf(program, current)
        BY <1>0, <4>1, <4>2, Owners DEF PathInv, StackIsAChain, current
      <4>4. SUFFICES ASSUME NEW i \in 1 .. Len(stack), stack[i].node = cs.node PROVE FALSE
        <5>1. framesIn(cs.node) = {} => waiting(cs.node) = 0
          BY FS_EmptySet DEF waiting
        <5>2. Len(stack) \in Nat
          BY <1>0, StackTypes
        <5>3. \A k \in 1 .. Len(stack) : Len(stack) + 1 - k \in 1 .. Len(stack)
          BY <5>2
        <5> QED
          BY <4>4, <5>1, <5>3 DEF framesIn
      <4>5. Len(stack) \in Nat /\ 1 \in 1 .. Len(stack) /\ 1 \in 1 .. i
        BY <1>0, StackTypes
      <4>6. \A j \in 1 .. Len(stack) :
               activeAt(j) = program.calls[stack[j].node] /\ activeAt(j) \in Defined(program) \ {program.start}
        <5> SUFFICES ASSUME NEW j \in 1 .. Len(stack)
                     PROVE  /\ activeAt(j) = program.calls[stack[j].node]
                            /\ activeAt(j) \in Defined(program) \ {program.start}
          OBVIOUS
        <5>1. stack[j].node \in DOMAIN program.calls /\ program.calls[stack[j].node] \in Defined(program)
          BY <1>0, StackTypes DEF calls
        <5>2. activeAt(j) = program.calls[stack[j].node]
          BY <4>5 DEF activeAt, calleeOf
        <5>3. stack[j].node \in wiredBlocks(program)
          BY <1>0, <5>1, LiveCalls DEF PathInv, StackIsAChain, liveFunctions
        <5> QED
          BY <5>1, <5>2, <5>3 DEF wiredBlocks
      <4>7. activeAt(1) \in closure(activeAt(i), callGraph(program), Defined(program))
        <5>1. ReachedBy(activeAt(1), activeAt(i))
          BY <4>5 DEF RecursionInv, ChainReaches
        <5>2. activeAt(i) \in callNodes(program)
          <6>1. stack[i].node \in DOMAIN program.calls /\ program.calls[stack[i].node] \notin program.symbols
            BY <1>0, <4>6, StackTypes DEF WellFormed
          <6>2. <<ownerOf(program, stack[i].node), activeAt(i)>> \in calledFrom(program)
            BY <4>6, <6>1 DEF calledFrom
          <6>3. <<ownerOf(program, stack[i].node), activeAt(i)>>[2] = activeAt(i)
            OBVIOUS
          <6> QED
            BY <6>2, <6>3 DEF callNodes
        <5> QED
          BY <1>0, <4>5, <4>6, <5>1, <5>2, ReachedByCalls DEF ReachedBy
      <4>8. program.returns \cap BlocksOf(program, activeAt(i)) = {}
        BY <1>0, <4>2, <4>3, <4>5, <4>6, <4>7 DEF NoPartialStops, StopsAreFinal
      <4>9. cs.callee = activeAt(i)
        BY <1>0, <1>1, <4>4, <4>6, CallSiteRows
      <4> QED
        BY <1>0, <1>1, <2>2, <4>8, <4>9, CallSiteRows
    <3> QED
      BY <3>1, <3>2
  <2> QED
    BY <2>1, <2>3, <2>4
<1> QED
  BY <1>5, <1>6, <1>7, <1>8 DEF Feasible, Rows

-----------------------------------------------------------------------------
(***************************************************************************)
(* Loops.  The row of a header h bounds what enters over its back edges by    *)
(* bound(h) - 1 times what enters otherwise.  Every entry of the loop makes   *)
(* room for so many iterations, every iteration uses some up, and an          *)
(* activation that ends, or leaves the loop, gives up the room it has left.   *)
(* The room of all activations is summed up over the call stack.             *)
(***************************************************************************)
backEdges(h) == ASG.BackEdges \cap into(ASG, h)
room(it, h) == IF h \in DOMAIN it THEN bound(h) - it[h] ELSE 0
hasRoom(it, h) == h \in DOMAIN it => it[h] <= bound(h)
frameRooms(h) == [k \in 1 .. Len(stack) |-> room(stack[Len(stack) + 1 - k].iterations, h)]
frameRoom(h) == total(frameRooms(h), 1 .. Len(stack))
slack(h) == room(iterations, h) + frameRoom(h)

CountsIn(h) ==
  /\ inBlock /\ at \in program.body[h] => h \in DOMAIN iterations
  /\ hasRoom(iterations, h)
  /\ \A k \in 1 .. Len(stack) : /\ stack[k].node \in program.body[h] => h \in DOMAIN stack[k].iterations
                                /\ hasRoom(stack[k].iterations, h)

LoopKept(h) ==
  CountsIn(h) /\ bound(h) * flow(backEdges(h), y) + slack(h) <= (bound(h) - 1) * copies(h, x)

LoopInv ==
  /\ FlowInv
  /\ ASG = NoGraph => iterations = EmptyBag
  /\ ASG # NoGraph => \A h : KeepsLoop(h) => LoopKept(h)

LEMMA LoopArithmetic ==
  ASSUME NEW B \in Nat \ {0}, NEW K \in Nat, NEW X \in Nat, NEW S \in Nat, NEW T \in Nat,
         B * K + S <= (B - 1) * X
  PROVE  /\ T <= S => B * K + T <= (B - 1) * X
         /\ T <= S + (B - 1) => B * K + T <= (B - 1) * (X + 1)
         /\ T + 1 <= S => B * (K + 1) + T <= (B - 1) * (X + 1)
<1>1. B * K \in Nat /\ (B - 1) * X \in Nat
  OBVIOUS
<1>2. (B - 1) * (X + 1) = (B - 1) * X + (B - 1) /\ B * (K + 1) = B * K + B
  OBVIOUS
<1> QED
  BY <1>1, <1>2

\* How a step from b to c moves the count of a header.
LEMMA CountMoves ==
  ASSUME NEW it \in Counts, NEW b, NEW c, NEW h \in DOMAIN program.body, h \in program.body[h]
  PROVE  LET nt == counted(it, b, c)
         IN  /\ c # h /\ h \in DOMAIN nt => h \in DOMAIN it /\ nt[h] = it[h]
             /\ c # h /\ c \in program.body[h] /\ b \in program.body[h] /\ h \in DOMAIN it => h \in DOMAIN nt
             /\ c = h => h \in DOMAIN nt
             /\ c = h /\ b \notin program.body[h] => nt[h] = 1
             /\ c = h /\ b \in program.body[h] /\ h \in DOMAIN it => nt[h] = it[h] + 1
             /\ c = h /\ b \in program.body[h] /\ h \notin DOMAIN it => nt[h] = 1
<1> DEFINE headers == DOMAIN program.body
           entered == {g \in headers : c \in program.body[g] /\ b \notin program.body[g]}
           D == {g \in DOMAIN it \ entered : c \in program.body[g]} \cup (headers \cap {c})
           nt == counted(it, b, c)
<1>1. nt = [g \in D |-> IF g # c THEN it[g] ELSE IF g \in entered THEN 1 ELSE copies(g, it) + 1]
  BY DEF counted
<1>2. copies(h, it) = IF h \in DOMAIN it THEN it[h] ELSE 0
  BY DEF copies, BagIn, BagToSet
<1> QED
  BY <1>1, <1>2

LEMMA RoomMoves ==
  ASSUME NEW it \in Counts, NEW b, NEW c, NEW h, KeepsLoop(h), hasRoom(it, h),
         b \in program.body[h] => h \in DOMAIN it,
         c \in program.body[h] /\ b \notin program.body[h] => c = h,
         hasRoom(counted(it, b, c), h)
  PROVE  LET nt == counted(it, b, c)
         IN  /\ room(it, h) \in Nat /\ room(nt, h) \in Nat
             /\ c \in program.body[h] => h \in DOMAIN nt
             /\ c # h => room(nt, h) <= room(it, h)
             /\ c = h => room(nt, h) <= room(it, h) + (bound(h) - 1)
             /\ c = h /\ b \in program.body[h] => room(nt, h) + 1 <= room(it, h)
<1> DEFINE nt == counted(it, b, c)
<1>1. h \in DOMAIN program.body /\ h \in program.body[h] /\ bound(h) \in Nat \ {0}
  BY DEF KeepsLoop
<1>2. nt \in Counts
  BY CountedType
<1>3. \A a \in Counts : h \in DOMAIN a => a[h] \in Nat
  BY DEF Counts
<1>4. room(it, h) \in Nat /\ room(nt, h) \in Nat
  BY <1>1, <1>2, <1>3 DEF room, hasRoom
<1>5. /\ c # h /\ h \in DOMAIN nt => h \in DOMAIN it /\ nt[h] = it[h]
      /\ c # h /\ c \in program.body[h] /\ b \in program.body[h] /\ h \in DOMAIN it => h \in DOMAIN nt
      /\ c = h => h \in DOMAIN nt
      /\ c = h /\ b \notin program.body[h] => nt[h] = 1
      /\ c = h /\ b \in program.body[h] /\ h \in DOMAIN it => nt[h] = it[h] + 1
      /\ c = h /\ b \in program.body[h] /\ h \notin DOMAIN it => nt[h] = 1
  BY <1>1, CountMoves
<1> HIDE DEF nt
<1>6. c \in program.body[h] => h \in DOMAIN nt
  BY <1>5
<1>7. c # h => room(nt, h) <= room(it, h)
  BY <1>1, <1>3, <1>4, <1>5 DEF room
<1>8. c = h /\ b \notin program.body[h] => room(nt, h) <= room(it, h) + (bound(h) - 1)
  BY <1>1, <1>4, <1>5 DEF room
<1>9. c = h /\ b \in program.body[h] => room(nt, h) + 1 <= room(it, h)
  BY <1>1, <1>3, <1>4, <1>5 DEF room
<1>10. c = h => room(nt, h) <= room(it, h) + (bound(h) - 1)
  BY <1>1, <1>4, <1>8, <1>9
<1> QED
  BY <1>4, <1>6, <1>7, <1>9, <1>10 DEF nt

\* A new activation has entered at most the loop its first block heads.
LEMMA RoomStarts ==
  ASSUME NEW f \in Defined(program), NEW h, KeepsLoop(h), Entry \notin Blocks(program)
  PROVE  /\ hasRoom(counter(f), h) /\ room(counter(f), h) \in Nat
         /\ firstBlock(f) \in program.body[h] => h \in DOMAIN counter(f)
         /\ room(counter(f), h) = IF firstBlock(f) = h THEN bound(h) - 1 ELSE 0
<1>1. EmptyBag \in Counts /\ DOMAIN EmptyBag = {}
  BY DEF EmptyBag, SetToBag, Counts
<1>2. h \in DOMAIN program.body /\ h \in program.body[h] /\ bound(h) \in Nat \ {0} /\ Entry \notin program.body[h]
  BY DEF KeepsLoop
<1>3. /\ firstBlock(f) # h => h \notin DOMAIN counter(f)
      /\ firstBlock(f) = h => h \in DOMAIN counter(f) /\ counter(f)[h] = 1
  BY <1>1, <1>2, CountMoves DEF counter
<1>4. firstBlock(f) \in program.body[h] => firstBlock(f) = h
  BY DEF KeepsLoop
<1> QED
  BY <1>2, <1>3, <1>4 DEF room, hasRoom

LEMMA FrameRoomIsANumber ==
  ASSUME ExecutionTypes, NEW h, KeepsLoop(h), \A k \in 1 .. Len(stack) : hasRoom(stack[k].iterations, h)
  PROVE  /\ Len(stack) \in Nat /\ IsFiniteSet(1 .. Len(stack)) /\ frameRoom(h) \in Nat
         /\ \A k \in 1 .. Len(stack) : room(stack[k].iterations, h) \in Nat /\ stack[k].iterations \in Counts
         /\ \A k \in 1 .. Len(stack) : frameRooms(h)[k] \in Nat
<1>1. Len(stack) \in Nat /\ \A k \in 1 .. Len(stack) : stack[k] \in Frames
  BY StackTypes
<1>2. \A k \in 1 .. Len(stack) : stack[k].iterations \in Counts
  BY <1>1 DEF Frames
<1>3. bound(h) \in Nat
  BY DEF KeepsLoop
<1>4. \A a \in Counts : h \in DOMAIN a => a[h] \in Nat
  BY DEF Counts
<1>5. \A k \in 1 .. Len(stack) : room(stack[k].iterations, h) \in Nat
  BY <1>2, <1>3, <1>4 DEF room, hasRoom
<1>6. \A k \in 1 .. Len(stack) : frameRooms(h)[k] \in Nat
  <2>1. \A k \in 1 .. Len(stack) : Len(stack) + 1 - k \in 1 .. Len(stack)
    BY <1>1
  <2> QED
    BY <1>5, <2>1 DEF frameRooms
<1>7. IsFiniteSet(1 .. Len(stack))
  BY <1>1, FS_Interval
<1>8. frameRoom(h) \in Nat
  BY <1>6, <1>7, TotalIsANumber DEF frameRoom
<1> QED
  BY <1>1, <1>2, <1>5, <1>6, <1>7, <1>8

LEMMA FrameRoomCall ==
  ASSUME ExecutionTypes, Call, NEW h, KeepsLoop(h), hasRoom(iterations, h),
         \A k \in 1 .. Len(stack) : hasRoom(stack[k].iterations, h)
  PROVE  frameRoom(h)' = frameRoom(h) + room(iterations, h)
<1> DEFINE L == Len(stack)
           c == frameRooms(h)
           d == frameRooms(h)'
<1>1. /\ L \in Nat /\ Len(stack') = L + 1 /\ \A i \in 2 .. L + 1 : stack'[i] = stack[i - 1]
      /\ stack'[1] = [node |-> at, iterations |-> iterations] /\ ASG' = ASG
  <2>1. stack' = <<[node |-> at, iterations |-> iterations]>> \o stack /\ stack \in Seq(Frames) /\ ASG' = ASG
    BY DEF Call, analysis, ExecutionTypes
  <2> QED
    BY <2>1, CallShifts
<1>2. d = [k \in 1 .. L + 1 |-> room(stack'[L + 2 - k].iterations, h)]
  <2>1. \A k \in 1 .. L + 1 : L + 1 + 1 - k = L + 2 - k
    BY <1>1
  <2> QED
    BY <1>1, <2>1 DEF frameRooms, room, bound
<1>3. \A k \in 1 .. L : d[k] = c[k]
  <2> SUFFICES ASSUME NEW k \in 1 .. L PROVE d[k] = c[k]
    OBVIOUS
  <2>1. L + 2 - k \in 2 .. L + 1 /\ (L + 2 - k) - 1 = L + 1 - k /\ k \in 1 .. L + 1
    BY <1>1
  <2> QED
    <3>1. k \in 1 .. L /\ c[k] = room(stack[L + 1 - k].iterations, h)
      BY DEF frameRooms
    <3>2. d[k] = room(stack'[L + 2 - k].iterations, h)
      BY <1>2, <2>1
    <3>3. stack'[L + 2 - k] = stack[L + 1 - k]
      BY <1>1, <2>1
    <3> QED
      BY <3>1, <3>2, <3>3
<1>4. d[L + 1] = room(iterations, h)
  <2>1. L + 2 - (L + 1) = 1 /\ L + 1 \in 1 .. L + 1
    BY <1>1
  <2> QED
    BY <1>1, <1>2, <2>1
<1>5. room(iterations, h) \in Nat
  <2>1. bound(h) \in Nat /\ (h \in DOMAIN iterations => iterations[h] \in Nat)
    BY DEF KeepsLoop, ExecutionTypes, Counts
  <2> QED
    BY <2>1 DEF room, hasRoom
<1>6. \A k \in 1 .. L : c[k] \in Nat
  BY FrameRoomIsANumber
<1>7. 1 .. L + 1 = (1 .. L) \cup {L + 1} /\ L + 1 \notin 1 .. L /\ IsFiniteSet(1 .. L + 1) /\ IsFiniteSet(1 .. L)
  <2>1. L \in Nat
    BY <1>1
  <2>2. IsFiniteSet(1 .. L + 1) /\ IsFiniteSet(1 .. L)
    BY <2>1, FS_Interval
  <2> HIDE DEF L
  <2>3. 1 .. L + 1 = (1 .. L) \cup {L + 1} /\ L + 1 \notin 1 .. L
    BY <2>1
  <2> QED
    BY <2>2, <2>3
<1>8. frameRoom(h)' = total(d, 1 .. L + 1)
  BY <1>1 DEF frameRoom
<1>9. frameRoom(h) = total(c, 1 .. L)
  BY DEF frameRoom
<1> HIDE DEF c, d
<1>10. total(d, 1 .. L + 1) = d[L + 1] + total(d, (1 .. L + 1) \ {L + 1})
  <2>1. \A k \in 1 .. L + 1 : d[k] \in Nat
    BY <1>3, <1>4, <1>5, <1>6, <1>7
  <2>2. L + 1 \in 1 .. L + 1
    BY <1>7
  <2> QED
    BY <1>7, <2>1, <2>2, TotalTakesOut
<1>11. (1 .. L + 1) \ {L + 1} = 1 .. L
  BY <1>7
<1>12. total(d, 1 .. L) = total(c, 1 .. L)
  BY <1>3, <1>7, TotalAgrees
<1>13. total(c, 1 .. L) \in Nat
  BY <1>6, <1>7, TotalIsANumber
<1>14. frameRoom(h)' = room(iterations, h) + total(c, 1 .. L)
  BY <1>4, <1>8, <1>10, <1>11, <1>12
<1>15. frameRoom(h)' = total(c, 1 .. L) + room(iterations, h)
  BY <1>5, <1>13, <1>14
<1> QED
  BY <1>9, <1>15

LEMMA FrameRoomReturn ==
  ASSUME ExecutionTypes, Return, NEW h, KeepsLoop(h),
         \A k \in 1 .. Len(stack) : hasRoom(stack[k].iterations, h)
  PROVE  frameRoom(h)' \in Nat /\ frameRoom(h) = frameRoom(h)' + room(Head(stack).iterations, h)
<1> DEFINE L == Len(stack)
           c == frameRooms(h)
           d == frameRooms(h)'
<1>1. /\ L \in Nat \ {0} /\ Len(stack') = L - 1 /\ Head(stack) = stack[1]
      /\ \A i \in 1 .. L - 1 : stack'[i] = stack[i + 1]
  BY ReturnShifts
<1>2. ASG' = ASG
  BY DEF Return, analysis
<1>3. d = [k \in 1 .. L - 1 |-> room(stack'[L - k].iterations, h)]
  <2>1. \A k \in 1 .. L - 1 : L - 1 + 1 - k = L - k
    BY <1>1
  <2> QED
    BY <1>1, <1>2, <2>1 DEF frameRooms, room, bound
<1>4. \A k \in 1 .. L - 1 : d[k] = c[k]
  <2> SUFFICES ASSUME NEW k \in 1 .. L - 1 PROVE d[k] = c[k]
    OBVIOUS
  <2>1. L - k \in 1 .. L - 1 /\ (L - k) + 1 = L + 1 - k /\ k \in 1 .. L
    BY <1>1
  <2> QED
    <3>1. c[k] = room(stack[L + 1 - k].iterations, h)
      BY <2>1 DEF frameRooms
    <3>2. d[k] = room(stack'[L - k].iterations, h)
      BY <1>3
    <3>3. stack'[L - k] = stack[L + 1 - k]
      BY <1>1, <2>1
    <3> QED
      BY <3>1, <3>2, <3>3
<1>5. c[L] = room(Head(stack).iterations, h) /\ L \in 1 .. L
  <2>1. L + 1 - L = 1 /\ L \in 1 .. L
    BY <1>1
  <2> QED
    BY <1>1, <2>1 DEF frameRooms
<1>6. \A k \in 1 .. L : c[k] \in Nat
  BY FrameRoomIsANumber
<1>7. 1 .. L - 1 = (1 .. L) \ {L} /\ IsFiniteSet(1 .. L - 1) /\ IsFiniteSet(1 .. L)
  <2>1. L \in Nat \ {0}
    BY <1>1
  <2>2. IsFiniteSet(1 .. L - 1) /\ IsFiniteSet(1 .. L)
    BY <2>1, FS_Interval
  <2> HIDE DEF L
  <2>3. 1 .. L - 1 = (1 .. L) \ {L}
    BY <2>1
  <2> QED
    BY <2>2, <2>3
<1>8. frameRoom(h)' = total(d, 1 .. L - 1)
  BY <1>1 DEF frameRoom
<1>9. frameRoom(h) = total(c, 1 .. L)
  BY DEF frameRoom
<1> HIDE DEF c, d
<1>10. total(c, 1 .. L) = c[L] + total(c, (1 .. L) \ {L})
  BY <1>5, <1>6, <1>7, TotalTakesOut
<1>11. total(d, 1 .. L - 1) = total(c, 1 .. L - 1)
  BY <1>4, <1>7, TotalAgrees
<1>12. total(c, 1 .. L - 1) \in Nat /\ c[L] \in Nat
  BY <1>5, <1>6, <1>7, TotalIsANumber
<1>13. frameRoom(h) = c[L] + frameRoom(h)'
  BY <1>7, <1>8, <1>9, <1>10, <1>11
<1>14. frameRoom(h)' \in Nat
  BY <1>8, <1>11, <1>12
<1> QED
  BY <1>5, <1>12, <1>13, <1>14

\* What an execution step does to the room: it grows only where the header is
\* entered, by at most bound - 1, and a back edge uses some up.
RoomIsKept(h) ==
  /\ slack(h) \in Nat /\ slack(h)' \in Nat
  /\ at' # h => slack(h)' <= slack(h)
  /\ at' = h => slack(h)' <= slack(h) + (bound(h) - 1)
  /\ <<at, at'>> \in backEdges(h) => at' = h /\ slack(h)' + 1 <= slack(h)

\* The loop is entered at its header, also on the way back from a call.
LEMMA LoopIsEnteredAtHeader ==
  ASSUME NEW h, KeepsLoop(h), NEW b, NEW c \in succOf(program, b),
         c \in program.body[h], b \notin program.body[h],
         calls(b) \/ <<b, c>> \notin program.untaken
  PROVE  c = h
<1>1. <<b, c>> \in program.succ
  BY DEF succOf
<1> QED
  BY <1>1 DEF KeepsLoop

LEMMA BoundsLeaveRoom ==
  ASSUME NEW h, KeepsLoop(h), NEW it \in Counts, withinBounds(it)
  PROVE  hasRoom(it, h)
<1>1. h \in DOMAIN it => it[h] \in Nat
  BY DEF Counts
<1> QED
  BY <1>1 DEF KeepsLoop, withinBounds, hasRoom

LEMMA RoomBranch ==
  ASSUME ExecutionTypes, Branch, NEW h, KeepsLoop(h), CountsIn(h)
  PROVE  CountsIn(h)' /\ RoomIsKept(h)
<1>1. /\ inBlock /\ UNCHANGED analysis /\ stack' = stack
      /\ at' \in succOf(program, at) /\ <<at, at'>> \notin program.untaken
      /\ withinBounds(counted(iterations, at, at')) /\ iterations' = counted(iterations, at, at')
  BY DEF Branch, Take
<1>2. iterations \in Counts /\ iterations' \in Counts
  BY <1>1, CountedType DEF ExecutionTypes
<1>3. hasRoom(iterations', h) /\ hasRoom(iterations, h)
  BY <1>1, <1>2, BoundsLeaveRoom DEF CountsIn
<1>4. /\ at \in program.body[h] => h \in DOMAIN iterations
      /\ at' \in program.body[h] /\ at \notin program.body[h] => at' = h
  BY <1>1, LoopIsEnteredAtHeader DEF CountsIn
<1>5. /\ room(iterations, h) \in Nat /\ room(iterations', h) \in Nat
      /\ at' \in program.body[h] => h \in DOMAIN iterations'
      /\ at' # h => room(iterations', h) <= room(iterations, h)
      /\ at' = h => room(iterations', h) <= room(iterations, h) + (bound(h) - 1)
      /\ at' = h /\ at \in program.body[h] => room(iterations', h) + 1 <= room(iterations, h)
  BY <1>1, <1>2, <1>3, <1>4, RoomMoves
<1>6. ASG' = ASG /\ program' = program
  BY <1>1 DEF analysis
<1>7. slack(h)' = room(iterations', h) + frameRoom(h)
  BY <1>1, <1>6 DEF slack, room, bound, frameRoom, frameRooms
<1>8. frameRoom(h) \in Nat
  BY FrameRoomIsANumber DEF CountsIn
<1>9. <<at, at'>> \in backEdges(h) => at' = h /\ at \in program.body[h]
  BY DEF backEdges, into, KeepsLoop
<1>10. bound(h) \in Nat \ {0}
  BY DEF KeepsLoop
<1>11. RoomIsKept(h)
  BY <1>5, <1>7, <1>8, <1>9, <1>10 DEF RoomIsKept, slack
<1>12. CountsIn(h)'
  BY <1>1, <1>3, <1>5, <1>6 DEF CountsIn, hasRoom, bound
<1> QED
  BY <1>11, <1>12

\* A call block goes on with the next block of its function, which is no entry.
LEMMA NoEdgeToCallee ==
  ASSUME NEW p, WellFormed(p), NEW b \in DOMAIN p.calls, NEW f \in Defined(p)
  PROVE  <<b, firstBlockOf(p, f)>> \notin p.succ
<1> SUFFICES ASSUME <<b, firstBlockOf(p, f)>> \in p.succ PROVE FALSE
  OBVIOUS
<1>1. b \in Blocks(p) /\ firstBlockOf(p, f) \in Blocks(p)
  BY DEF WellFormed
<1>2. PICK g \in Defined(p) : \E i \in DOMAIN p.layout[g] : b = p.layout[g][i]
  BY <1>1, Positions
<1>3. PICK i \in DOMAIN p.layout[g] : b = p.layout[g][i]
  BY <1>2
<1>4. firstBlockOf(p, f) \in succOf(p, b)
  BY <1>1 DEF succOf
<1>5. i + 1 \in DOMAIN p.layout[g] /\ firstBlockOf(p, f) = p.layout[g][i + 1]
  BY <1>3, <1>4 DEF WellFormed
<1>6. firstBlockOf(p, f) \in BlocksOf(p, g) /\ firstBlockOf(p, f) \in BlocksOf(p, f)
  BY <1>5, EntryBlocks DEF BlocksOf, Range, firstBlockOf
<1>7. f = g
  BY <1>6 DEF WellFormed
<1>8. 1 \in DOMAIN p.layout[g] /\ i \in Nat /\ i >= 1
  <2>1. p.layout[g] \in Seq(Blocks(p))
    BY DEF WellFormed
  <2> QED
    BY <1>3, <2>1
<1>9. i + 1 = 1
  BY <1>5, <1>7, <1>8 DEF WellFormed, firstBlockOf
<1> QED
  BY <1>8, <1>9

LEMMA RoomCall ==
  ASSUME WellFormed(program), ExecutionTypes, Call, NEW h, KeepsLoop(h), CountsIn(h)
  PROVE  CountsIn(h)' /\ RoomIsKept(h)
<1> DEFINE f == calleeOf(at)
<1>1. /\ inBlock /\ calls(at) /\ UNCHANGED analysis
      /\ at' = firstBlock(f) /\ iterations' = counter(f)
      /\ stack' = <<[node |-> at, iterations |-> iterations]>> \o stack
  BY DEF Call, Take
<1>2. ASG' = ASG /\ program' = program
  BY <1>1 DEF analysis
<1>3. f \in Defined(program) /\ Entry \notin Blocks(program)
  BY <1>1 DEF calls, calleeOf, WellFormed
<1> HIDE DEF f
<1>4. /\ hasRoom(counter(f), h) /\ room(counter(f), h) \in Nat
      /\ firstBlock(f) \in program.body[h] => h \in DOMAIN counter(f)
      /\ room(counter(f), h) = IF firstBlock(f) = h THEN bound(h) - 1 ELSE 0
  BY <1>3, RoomStarts
<1>5. /\ hasRoom(iterations, h)
      /\ \A k \in 1 .. Len(stack) : hasRoom(stack[k].iterations, h)
  BY DEF CountsIn
<1>6. frameRoom(h)' = frameRoom(h) + room(iterations, h) /\ frameRoom(h) \in Nat
  BY <1>5, FrameRoomCall, FrameRoomIsANumber
<1>7. room(iterations, h) \in Nat
  BY <1>5 DEF KeepsLoop, ExecutionTypes, Counts, room, hasRoom
<1>8. slack(h)' = room(counter(f), h) + frameRoom(h)'
  BY <1>1, <1>2 DEF slack, room, bound
<1>9. <<at, at'>> \notin backEdges(h)
  <2>1. <<at, at'>> \notin program.succ
    BY <1>1, <1>3, NoEdgeToCallee DEF calls, firstBlock, firstBlockOf
  <2> QED
    BY <2>1 DEF backEdges, into, KeepsLoop
<1>10. bound(h) \in Nat \ {0}
  BY DEF KeepsLoop
<1>11. RoomIsKept(h)
  BY <1>1, <1>4, <1>6, <1>7, <1>8, <1>9, <1>10 DEF RoomIsKept, slack
<1>12. CountsIn(h)'
  <2>1. /\ Len(stack) \in Nat /\ Len(stack') = Len(stack) + 1
        /\ \A i \in 2 .. Len(stack) + 1 : stack'[i] = stack[i - 1]
    BY CallShifts
  <2>2. stack'[1] = [node |-> at, iterations |-> iterations]
    BY <1>1 DEF ExecutionTypes
  <2>3. ASSUME NEW k \in 1 .. Len(stack')
        PROVE  /\ stack'[k].node \in program.body[h] => h \in DOMAIN stack'[k].iterations
               /\ hasRoom(stack'[k].iterations, h)
    <3>1. CASE k = 1
      BY <1>1, <1>5, <2>2, <3>1 DEF CountsIn
    <3>2. CASE k # 1
      <4>1. k \in 2 .. Len(stack) + 1 /\ k - 1 \in 1 .. Len(stack)
        BY <2>1, <3>2
      <4>2. stack'[k] = stack[k - 1]
        BY <2>1, <4>1
      <4> QED
        BY <4>1, <4>2 DEF CountsIn
    <3> QED
      BY <3>1, <3>2
  <2> QED
    BY <1>1, <1>2, <1>4, <2>3 DEF CountsIn, hasRoom, bound
<1> QED
  BY <1>11, <1>12

LEMMA RoomReturn ==
  ASSUME WellFormed(program), ExecutionTypes, Return, NEW h, KeepsLoop(h), CountsIn(h)
  PROVE  CountsIn(h)' /\ RoomIsKept(h)
<1> DEFINE top == Head(stack)
           was == top.iterations
<1>1. /\ inBlock /\ at \in program.returns /\ UNCHANGED analysis
      /\ at' \in succOf(program, top.node)
      /\ withinBounds(counted(was, top.node, at')) /\ iterations' = counted(was, top.node, at')
  BY DEF Return, Take
<1>2. ASG' = ASG /\ program' = program
  BY <1>1 DEF analysis
<1>3. /\ Len(stack) \in Nat \ {0} /\ Len(stack') = Len(stack) - 1 /\ top = stack[1]
      /\ \A i \in 1 .. Len(stack) - 1 : stack'[i] = stack[i + 1]
  BY ReturnShifts
<1>4. calls(top.node) /\ was \in Counts /\ 1 \in 1 .. Len(stack)
  <2>1. 1 \in DOMAIN stack
    BY <1>3, StackTypes
  <2>2. stack[1] \in Frames /\ calls(stack[1].node)
    BY <2>1, StackTypes
  <2> QED
    BY <1>3, <2>2 DEF Frames
<1>5. /\ top.node \in program.body[h] => h \in DOMAIN was
      /\ hasRoom(was, h) /\ hasRoom(iterations, h)
      /\ \A k \in 1 .. Len(stack) : hasRoom(stack[k].iterations, h)
  BY <1>3, <1>4 DEF CountsIn
<1>6. at' \in program.body[h] /\ top.node \notin program.body[h] => at' = h
  BY <1>1, <1>4, LoopIsEnteredAtHeader
<1>7. iterations' \in Counts
  BY <1>1, <1>4, CountedType
<1>8. hasRoom(iterations', h)
  BY <1>1, <1>7, BoundsLeaveRoom
<1>9. /\ room(was, h) \in Nat /\ room(iterations', h) \in Nat
      /\ at' \in program.body[h] => h \in DOMAIN iterations'
      /\ at' # h => room(iterations', h) <= room(was, h)
      /\ at' = h => room(iterations', h) <= room(was, h) + (bound(h) - 1)
  <2> HIDE DEF top, was
  <2> QED
    BY <1>1, <1>4, <1>5, <1>6, <1>8, RoomMoves DEF top, was
<1>10. frameRoom(h)' \in Nat /\ frameRoom(h) = frameRoom(h)' + room(was, h)
  BY <1>5, FrameRoomReturn
<1>11. room(iterations, h) \in Nat
  BY <1>5 DEF KeepsLoop, ExecutionTypes, Counts, room, hasRoom
<1>12. slack(h)' = room(iterations', h) + frameRoom(h)'
  BY <1>2 DEF slack, room, bound
<1>13. <<at, at'>> \notin backEdges(h)
  <2>1. at \in Blocks(program)
    BY <1>1 DEF inBlock, ExecutionTypes
  <2>2. succOf(program, at) = {}
    BY <1>1, <2>1 DEF WellFormed
  <2>3. <<at, at'>> \notin program.succ
    BY <2>2 DEF succOf, WellFormed
  <2> QED
    BY <2>3 DEF backEdges, into, KeepsLoop
<1>14. bound(h) \in Nat \ {0}
  BY DEF KeepsLoop
<1> HIDE DEF top, was
<1>15. RoomIsKept(h)
  BY <1>9, <1>10, <1>11, <1>12, <1>13, <1>14 DEF RoomIsKept, slack
<1>16. CountsIn(h)'
  <2>1. ASSUME NEW k \in 1 .. Len(stack')
        PROVE  /\ stack'[k].node \in program.body[h] => h \in DOMAIN stack'[k].iterations
               /\ hasRoom(stack'[k].iterations, h)
    <3>1. k \in 1 .. Len(stack) - 1 /\ k + 1 \in 1 .. Len(stack)
      BY <1>3
    <3>2. stack'[k] = stack[k + 1]
      BY <1>3, <3>1
    <3> QED
      BY <3>1, <3>2 DEF CountsIn
  <2> QED
    BY <1>2, <1>8, <1>9, <2>1 DEF CountsIn, hasRoom, bound
<1> QED
  BY <1>15, <1>16

LEMMA RoomOutside ==
  ASSUME WellFormed(program), PathInv, Begin \/ Leave, NEW h, KeepsLoop(h), CountsIn(h)
  PROVE  CountsIn(h)' /\ RoomIsKept(h)
<1>0. ExecutionTypes /\ Entry \notin Blocks(program) /\ Exit \notin Blocks(program) /\ program.start \in Defined(program)
  BY DEF PathInv, TypeInv, WellFormed
<1>1. UNCHANGED analysis /\ stack' = stack
  BY DEF Begin, Leave
<1>2. ASG' = ASG /\ program' = program
  BY <1>1 DEF analysis
<1>3. frameRoom(h)' = frameRoom(h) /\ frameRoom(h) \in Nat
  <2>1. frameRoom(h) \in Nat
    BY <1>0, FrameRoomIsANumber DEF CountsIn
  <2> QED
    BY <1>1, <1>2, <2>1 DEF frameRoom, frameRooms, room, bound
<1>4. room(iterations, h) \in Nat
  BY <1>0 DEF KeepsLoop, ExecutionTypes, Counts, room, hasRoom, CountsIn
<1>5. bound(h) \in Nat \ {0} /\ h \in Blocks(program)
  BY DEF KeepsLoop
<1>6. slack(h)' = room(iterations', h) + frameRoom(h)
  BY <1>2, <1>3 DEF slack, room, bound
<1>7. CASE Begin
  <2>1. at = Entry /\ at' = firstBlock(program.start) /\ iterations' = counter(program.start)
    BY <1>7 DEF Begin, Take
  <2>2. /\ hasRoom(iterations', h) /\ room(iterations', h) \in Nat
        /\ at' \in program.body[h] => h \in DOMAIN iterations'
        /\ room(iterations', h) = IF at' = h THEN bound(h) - 1 ELSE 0
    BY <1>0, <2>1, RoomStarts
  <2>3. <<at, at'>> \notin backEdges(h)
    BY <1>0, <2>1 DEF backEdges, into, KeepsLoop
  <2>4. RoomIsKept(h)
    BY <1>3, <1>4, <1>5, <1>6, <2>2, <2>3 DEF RoomIsKept, slack
  <2> QED
    BY <1>1, <1>2, <2>2, <2>4 DEF CountsIn, hasRoom, bound
<1>8. CASE Leave
  <2>1. at' = Exit /\ iterations' = iterations
    BY <1>8 DEF Leave, Take
  <2>2. <<at, at'>> \notin backEdges(h)
    BY <1>0, <1>5, <2>1 DEF backEdges, into
  <2>3. RoomIsKept(h)
    BY <1>0, <1>3, <1>4, <1>5, <1>6, <2>1, <2>2 DEF RoomIsKept, slack
  <2> QED
    BY <1>1, <1>2, <2>1, <2>3 DEF CountsIn, hasRoom, bound, inBlock
<1> QED
  BY <1>7, <1>8

LEMMA LoopInvStep == NoReentry /\ LoopInv /\ [Next]_vars => LoopInv'
<1> SUFFICES ASSUME NoReentry, LoopInv, [Next]_vars PROVE LoopInv'
  OBVIOUS
<1>0. /\ FlowInv /\ FlowInv' /\ PathInv /\ WellFormed(program) /\ AnalysisInv /\ ExecutionTypes
  BY FlowInvStep, ProgramsAreWellFormed DEF LoopInv, FlowInv, PathInv, TypeInv, AnalysisInv
<1>1. CASE Begin \/ Branch \/ Call \/ Return \/ Leave
  <2> DEFINE e == <<at, at'>>
  <2>1. UNCHANGED analysis
    BY <1>1 DEF Begin, Branch, Call, Return, Leave
  <2>2. ASG # NoGraph /\ e \in MASG.Edges /\ ASG = initializeGraph(MASG) /\ IsFinal(program, MASG)
    BY <1>0, <1>1, StepTakesEdge DEF AnalysisInv
  <2>3. x' = x (+) SetToBag({at'}) /\ y' = y (+) SetToBag({e})
    BY <1>1 DEF Begin, Branch, Call, Return, Leave, Take
  <2>4. IsABag(x) /\ IsABag(y) /\ IsFiniteSet(MASG.Edges)
    BY <1>0, <2>2, FiniteGraph DEF ExecutionTypes
  <2>5. program' = program /\ ASG' = ASG
    BY <2>1 DEF analysis
  <2>6. ASSUME NEW h, KeepsLoop(h) PROVE LoopKept(h)'
    <3>1. CountsIn(h) /\ bound(h) * flow(backEdges(h), y) + slack(h) <= (bound(h) - 1) * copies(h, x)
      BY <2>2, <2>6 DEF LoopInv, LoopKept
    <3>2. CountsIn(h)' /\ RoomIsKept(h)
      BY <1>0, <1>1, <2>6, <3>1, RoomBranch, RoomCall, RoomReturn, RoomOutside
    <3>3. bound(h) \in Nat \ {0} /\ bound(h)' = bound(h) /\ backEdges(h)' = backEdges(h)
      BY <2>5, <2>6 DEF KeepsLoop, bound, backEdges, into
    <3>4. IsFiniteSet(backEdges(h))
      <4>1. backEdges(h) \subseteq MASG.Edges
        BY <2>2 DEF backEdges, initializeGraph
      <4> QED
        BY <2>4, <4>1, FS_Subset
    <3>5. /\ flow(backEdges(h), y) \in Nat
          /\ flow(backEdges(h), y') = flow(backEdges(h), y) + IF e \in backEdges(h) THEN 1 ELSE 0
      <4> HIDE DEF e
      <4> QED
        BY <2>3, <2>4, <3>4, FlowGrows
    <3>6. copies(h, x) \in Nat /\ copies(h, x') = copies(h, x) + IF h = at' THEN 1 ELSE 0
      BY <2>3, <2>4, BagAdd
    <3> DEFINE K == flow(backEdges(h), y)
               X == copies(h, x)
               S == slack(h)
               T == slack(h)'
    <3>7. /\ S \in Nat /\ T \in Nat
          /\ at' # h => T <= S
          /\ at' = h => T <= S + (bound(h) - 1)
          /\ e \in backEdges(h) => at' = h /\ T + 1 <= S
      BY <3>2 DEF RoomIsKept
    <3> HIDE DEF K, X, S, T, e
    <3>8. /\ T <= S => bound(h) * K + T <= (bound(h) - 1) * X
          /\ T <= S + (bound(h) - 1) => bound(h) * K + T <= (bound(h) - 1) * (X + 1)
          /\ T + 1 <= S => bound(h) * (K + 1) + T <= (bound(h) - 1) * (X + 1)
      BY <3>1, <3>3, <3>5, <3>6, <3>7, LoopArithmetic DEF K, X, S
    <3>9. bound(h) * flow(backEdges(h), y') + T <= (bound(h) - 1) * copies(h, x')
      <4>1. CASE e \in backEdges(h)
        BY <3>5, <3>6, <3>7, <3>8, <4>1 DEF K, X
      <4>2. CASE e \notin backEdges(h) /\ at' = h
        BY <3>5, <3>6, <3>7, <3>8, <4>2 DEF K, X
      <4>3. CASE e \notin backEdges(h) /\ at' # h
        BY <3>5, <3>6, <3>7, <3>8, <4>3 DEF K, X
      <4> QED
        BY <4>1, <4>2, <4>3
    <3>10. (bound(h) * flow(backEdges(h), y) + slack(h))' = bound(h) * flow(backEdges(h), y') + T
      <4>1. flow(backEdges(h), y)' = flow(backEdges(h), y')
        BY <3>3
      <4> QED
        BY <3>3, <4>1 DEF T
    <3>11. ((bound(h) - 1) * copies(h, x))' = (bound(h) - 1) * copies(h, x')
      BY <3>3
    <3> QED
      BY <3>2, <3>9, <3>10, <3>11 DEF LoopKept
  <2>7. \A h : KeepsLoop(h)' => LoopKept(h)'
    <3>1. \A h : KeepsLoop(h)' => KeepsLoop(h)
      BY <2>5 DEF KeepsLoop, bound, calls, firstBlock
    <3> QED
      BY <2>6, <3>1
  <2> QED
    BY <1>0, <2>2, <2>5, <2>7 DEF LoopInv
<1>2. CASE FillMuGraph
  <2>1. Len(program.order) \in Nat
    BY <1>0 DEF WellFormed
  <2>2. UNCHANGED execution /\ ASG = NoGraph /\ ASG' = NoGraph
    BY <1>0, <1>2, <2>1 DEF FillMuGraph, AnalysisInv
  <2> QED
    BY <1>0, <2>2 DEF LoopInv, execution
<1>3. CASE SolvePaths
  <2>1. /\ UNCHANGED execution /\ ASG = NoGraph /\ UNCHANGED <<program, MASG, next>>
        /\ ASG' = initializeGraph(MASG) /\ IsFinal(program, MASG)
    BY <1>0, <1>3 DEF SolvePaths, AnalysisInv
  <2>2. /\ x' = SetToBag({Entry}) /\ y' = EmptyBag /\ at' = Entry /\ stack' = << >> /\ iterations' = EmptyBag
    BY <1>0, <2>1 DEF LoopInv, FlowInv, execution, ExecutionTypes, PathInv, OutsideIsEmpty, inBlock
  <2>3. ASSUME NEW h, KeepsLoop(h)' PROVE LoopKept(h)'
    <3>1. bound(h)' \in Nat \ {0} /\ h \in Blocks(program) /\ h # Entry
      BY <1>0, <2>1, <2>3 DEF KeepsLoop, WellFormed
    <3>2. (flow(backEdges(h), y))' = 0
      <4>1. backEdges(h)' \subseteq MASG.Edges
        BY <2>1 DEF backEdges, initializeGraph
      <4>2. IsFiniteSet(backEdges(h)')
        BY <1>0, <2>1, <4>1, FiniteGraph, FS_Subset
      <4>3. flow(backEdges(h)', y') = 0
        BY <2>2, <4>2, NoFlow, SingletonBag
      <4> QED
        BY <4>3
    <3>3. copies(h, x') = 0
      BY <2>2, <3>1, SingletonBag
    <3>4. DOMAIN iterations' = {}
      BY <2>2, SingletonBag
    <3>5. room(iterations, h)' = 0 /\ CountsIn(h)'
      BY <2>2, <3>4 DEF room, CountsIn, hasRoom, inBlock
    <3>6. frameRoom(h)' = 0
      <4>1. (1 .. Len(stack)) ' = {}
        BY <2>2
      <4> QED
        BY <4>1, TotalOfNone DEF frameRoom
    <3> QED
      BY <3>1, <3>2, <3>3, <3>5, <3>6 DEF LoopKept, slack
  <2>4. ASG' # NoGraph \/ iterations' = EmptyBag
    BY <2>2
  <2> QED
    BY <1>0, <2>2, <2>3 DEF LoopInv
<1>4. CASE ExportBounds \/ AggregateLoopBounds \/ UNCHANGED vars
  <2>1. UNCHANGED <<execution, program, MASG, ASG>>
    BY <1>4 DEF ExportBounds, AggregateLoopBounds, vars, analysis
  <2>2. \A h : LoopKept(h)' <=> LoopKept(h)
    BY <2>1 DEF LoopKept, execution, CountsIn, slack, bound, backEdges, into, room, hasRoom,
                frameRoom, frameRooms, inBlock
  <2>3. \A h : KeepsLoop(h)' <=> KeepsLoop(h)
    BY <2>1 DEF KeepsLoop, bound, calls, firstBlock
  <2> QED
    BY <1>0, <2>1, <2>2, <2>3 DEF LoopInv, execution
<1> QED
  BY <1>1, <1>2, <1>3, <1>4 DEF Next

-----------------------------------------------------------------------------
(***************************************************************************)
(* Recursion.  The first block of f is the header of the functions f recurs   *)
(* through.  Entering the cycle makes room for bound - 1 further invocations, *)
(* which are counted until the cycle is entered again.                       *)
(***************************************************************************)
invocationRoom(inv, f) == IF f \in DOMAIN inv THEN bound(firstBlock(f)) - inv[f] ELSE 0

InvocationsIn(f) ==
  /\ \A i \in 1 .. Len(stack) : activeAt(i) \in program.cycle[f] => f \in DOMAIN invocations
  /\ f \in DOMAIN invocations => invocations[f] \in 0 .. bound(firstBlock(f))

RecursionKept(f) ==
  /\ InvocationsIn(f)
  /\ bound(firstBlock(f)) * flow(backEdges(firstBlock(f)), y) + invocationRoom(invocations, f)
       <= (bound(firstBlock(f)) - 1) * copies(firstBlock(f), x)

CallsInv ==
  /\ FlowInv
  /\ ASG = NoGraph => invocations = EmptyBag
  /\ ASG # NoGraph => \A f \in Defined(program) \ {program.start} : KeepsRecursion(f) => RecursionKept(f)

\* As RoomIsKept, for the invocations of f.
InvocationRoomIsKept(f) ==
  LET S == invocationRoom(invocations, f)
      T == invocationRoom(invocations', f)
      h == firstBlock(f)
  IN  /\ S \in Nat /\ T \in Nat
      /\ at' # h => T <= S
      /\ at' = h => T <= S + (bound(h) - 1)
      /\ <<at, at'>> \in backEdges(h) => at' = h /\ T + 1 <= S

LEMMA InvocationRoomIsANumber ==
  ASSUME NEW f, KeepsRecursion(f), NEW inv, f \in DOMAIN inv => inv[f] \in 0 .. bound(firstBlock(f))
  PROVE  invocationRoom(inv, f) \in Nat
BY DEF KeepsRecursion, invocationRoom

LEMMA InvocationsCall ==
  ASSUME WellFormed(program), PathInv, Call, NEW f \in Defined(program) \ {program.start},
         KeepsRecursion(f), InvocationsIn(f)
  PROVE  InvocationsIn(f)' /\ InvocationRoomIsKept(f)
<1> DEFINE g == calleeOf(at)
           h == firstBlock(f)
           C == program.cycle[f]
           inv == invocations
<1>0. ExecutionTypes /\ StackIsAChain
  BY DEF PathInv, TypeInv
<1>1. /\ inBlock /\ calls(at) /\ UNCHANGED analysis
      /\ g \in DOMAIN program.activations => invoked(g)[g] <= program.activations[g]
      /\ at' = firstBlock(g) /\ inv' = invoked(g)
  BY DEF Call, Take
<1>2. program' = program /\ ASG' = ASG
  BY <1>1 DEF analysis
<1>3. g \in Defined(program) /\ at \in DOMAIN program.calls /\ g = program.calls[at]
  BY <1>1 DEF calls, calleeOf
<1>4. /\ f \in DOMAIN program.activations /\ program.activations[f] \in 0 .. bound(h) /\ bound(h) \in Nat \ {0}
      /\ program.start \notin C /\ f \in C
      /\ g \in C => program.cycle[g] = C
      /\ g \notin C => program.cycle[g] \cap C = {}
      /\ g \in C /\ current \notin C => g = f
      /\ <<at, at'>> \in backEdges(h) => g = f /\ current \in C /\ at' = h
  BY <1>3 DEF KeepsRecursion, current, backEdges, into
<1>5. /\ Len(stack) \in Nat /\ Len(stack') = Len(stack) + 1 /\ activeAt(1)' = g
      /\ \A i \in 1 .. Len(stack) + 1 : activeAt(i + 1)' = activeAt(i)
  BY <1>0, CallShifts
<1>6. /\ \A i \in 1 .. Len(stack) + 1 : activeAt(i) \in C => f \in DOMAIN inv
      /\ current \in C => f \in DOMAIN inv
  <2>1. activeAt(Len(stack) + 1) = program.start
    BY DEF activeAt
  <2>2. \A i \in 1 .. Len(stack) + 1 : i \in 1 .. Len(stack) \/ i = Len(stack) + 1
    BY <1>5
  <2>3. \A i \in 1 .. Len(stack) + 1 : activeAt(i) \in C => f \in DOMAIN inv
    BY <1>4, <2>1, <2>2 DEF InvocationsIn
  <2>4. current = activeAt(1) /\ 1 \in 1 .. Len(stack) + 1
    BY <1>0, <1>1, <1>5 DEF StackIsAChain
  <2> QED
    BY <2>3, <2>4
<1>7. f \in DOMAIN inv => inv[f] \in 0 .. bound(h)
  BY DEF InvocationsIn
<1>8. firstBlock(g) = h => g = f
  <2>1. firstBlock(g) \in BlocksOf(program, g) /\ h \in BlocksOf(program, f)
    BY <1>3, EntryBlocks DEF firstBlock
  <2> QED
    BY <1>3, <2>1 DEF WellFormed
<1>9. /\ DOMAIN (inv (+) SetToBag({g})) = DOMAIN inv \cup {g}
      /\ \A k \in DOMAIN inv \cup {g} : (inv (+) SetToBag({g}))[k] =
             (IF k \in DOMAIN inv THEN inv[k] ELSE 0) + (IF k \in {g} THEN 1 ELSE 0)
  BY DEF (+), SetToBag
<1> HIDE DEF C, h, g, inv
<1>10. CASE g = f /\ current \in C
  <2>1. inv' = inv (+) SetToBag({g})
    BY <1>1, <1>4, <1>10 DEF invoked, inv
  <2>2. f \in DOMAIN inv' /\ inv'[f] = inv[f] + 1 /\ f \in DOMAIN inv
    BY <1>6, <1>7, <1>9, <1>10, <2>1
  <2>3. inv'[f] \in 0 .. bound(h)
    BY <1>1, <1>4, <1>7, <1>10, <2>2
  <2>4. InvocationsIn(f)'
    BY <1>2, <2>2, <2>3 DEF InvocationsIn, bound, firstBlock, inv, h
  <2>5. at' = h
    BY <1>1, <1>10 DEF h
  <2> QED
    BY <1>4, <1>7, <2>2, <2>3, <2>4, <2>5 DEF InvocationRoomIsKept, invocationRoom, inv, h
<1>11. CASE g = f /\ current \notin C
  <2>1. inv' = [k \in (DOMAIN inv \ C) \cup {f} |-> IF k = f THEN 1 ELSE inv[k]]
    BY <1>1, <1>4, <1>11 DEF invoked, inv, C
  <2>2. f \in DOMAIN inv' /\ inv'[f] = 1
    BY <2>1
  <2>3. inv'[f] \in 0 .. bound(h)
    BY <1>4, <2>2
  <2>4. InvocationsIn(f)'
    BY <1>2, <2>2, <2>3 DEF InvocationsIn, bound, firstBlock, inv, h
  <2>5. at' = h /\ <<at, at'>> \notin backEdges(h)
    BY <1>1, <1>4, <1>11 DEF h
  <2> QED
    BY <1>4, <1>7, <2>2, <2>3, <2>4, <2>5 DEF InvocationRoomIsKept, invocationRoom, inv, h
<1>12. CASE g # f
  <2>1. /\ f \in DOMAIN inv <=> f \in DOMAIN inv'
        /\ f \in DOMAIN inv => inv'[f] = inv[f]
    <3>1. CASE current \in program.cycle[g]
      <4>1. inv' = inv (+) SetToBag({g})
        BY <1>1, <3>1 DEF invoked, inv
      <4>2. DOMAIN inv' = DOMAIN inv \cup {g} /\ f \notin {g}
        BY <1>9, <1>12, <4>1
      <4>3. f \in DOMAIN inv => inv'[f] = inv[f] + 0
        BY <1>9, <4>1, <4>2
      <4>4. f \in DOMAIN inv => inv[f] \in Nat
        BY <1>4, <1>7
      <4> QED
        BY <4>2, <4>3, <4>4
    <3>2. CASE current \notin program.cycle[g]
      <4>1. f \notin program.cycle[g]
        BY <1>4, <1>12, <3>2
      <4>2. inv' = [k \in (DOMAIN inv \ program.cycle[g]) \cup {g} |-> IF k = g THEN 1 ELSE inv[k]]
        BY <1>1, <3>2 DEF invoked, inv
      <4> QED
        BY <1>12, <4>1, <4>2
    <3> QED
      BY <3>1, <3>2
  <2>2. at' # h /\ <<at, at'>> \notin backEdges(h)
    BY <1>1, <1>4, <1>8, <1>12
  <2>3. g \in C => f \in DOMAIN inv
    BY <1>4, <1>6, <1>12
  <2>4. ASSUME NEW i \in 1 .. Len(stack'), activeAt(i)' \in C PROVE f \in DOMAIN inv'
    <3>1. CASE i = 1
      BY <1>5, <2>1, <2>3, <2>4, <3>1
    <3>2. CASE i # 1
      <4>1. i - 1 \in 1 .. Len(stack) + 1 /\ (i - 1) + 1 = i
        BY <1>5, <3>2
      <4>2. activeAt(i)' = activeAt(i - 1)
        BY <1>5, <4>1
      <4> QED
        BY <1>6, <2>1, <2>4, <4>1, <4>2
    <3> QED
      BY <3>1, <3>2
  <2>5. InvocationsIn(f)'
    BY <1>2, <1>7, <2>1, <2>4 DEF InvocationsIn, bound, firstBlock, inv, h, C
  <2> QED
    BY <1>4, <1>7, <2>1, <2>2, <2>5 DEF InvocationRoomIsKept, invocationRoom, inv, h
<1> QED
  BY <1>10, <1>11, <1>12

\* Every other step leaves the invocations alone, or starts the program.
LEMMA InvocationsElsewhere ==
  ASSUME WellFormed(program), PathInv, Begin \/ Branch \/ Return \/ Leave,
         NEW f \in Defined(program) \ {program.start}, KeepsRecursion(f), InvocationsIn(f)
  PROVE  InvocationsIn(f)' /\ InvocationRoomIsKept(f)
<1> DEFINE h == firstBlock(f)
<1>0. /\ ExecutionTypes /\ OutsideIsEmpty /\ Entry \notin Blocks(program)
  BY DEF PathInv, TypeInv, WellFormed
<1>1. UNCHANGED analysis
  BY DEF Begin, Branch, Return, Leave
<1>2. program' = program /\ ASG' = ASG
  BY <1>1 DEF analysis
<1>3. bound(h) \in Nat \ {0}
  BY DEF KeepsRecursion
<1>4. invocationRoom(invocations, f) \in Nat
  BY InvocationRoomIsANumber DEF InvocationsIn
<1>5. <<at, at'>> \in backEdges(h) => calls(at)
  BY DEF KeepsRecursion, backEdges, into
<1>6. CASE Begin
  <2>1. at = Entry /\ stack' = stack /\ invocations' = SetToBag({program.start})
    BY <1>6 DEF Begin, Take
  <2>2. f \notin DOMAIN invocations'
    BY <2>1, SingletonBag
  <2>3. stack = << >>
    BY <1>0, <2>1 DEF OutsideIsEmpty, inBlock
  <2>4. InvocationsIn(f)'
    BY <1>2, <2>1, <2>2, <2>3 DEF InvocationsIn
  <2>5. ~calls(at)
    BY <1>0, <2>1 DEF calls, WellFormed
  <2> QED
    BY <1>3, <1>4, <1>5, <2>2, <2>4, <2>5 DEF InvocationRoomIsKept, invocationRoom
<1>7. CASE Branch \/ Return \/ Leave
  <2>1. invocations' = invocations
    BY <1>7 DEF Branch, Return, Leave
  <2>2. InvocationsIn(f)'
    <3>1. CASE stack' = stack
      BY <1>2, <2>1, <3>1 DEF InvocationsIn, activeAt, calleeOf, bound, firstBlock
    <3>2. CASE Return
      <4>1. /\ Len(stack) \in Nat \ {0} /\ Len(stack') = Len(stack) - 1
            /\ \A i \in 1 .. Len(stack) : activeAt(i)' = activeAt(i + 1)
        BY <1>0, <3>2, ReturnShifts
      <4>2. \A i \in 1 .. Len(stack') : i \in 1 .. Len(stack) /\ i + 1 \in 1 .. Len(stack)
        BY <4>1
      <4> QED
        BY <1>2, <2>1, <4>1, <4>2 DEF InvocationsIn, bound, firstBlock
    <3> QED
      BY <1>7, <3>1, <3>2 DEF Branch, Leave
  <2>3. ~calls(at)
    <3>1. inBlock => at \in Blocks(program)
      BY <1>0 DEF inBlock, ExecutionTypes
    <3> QED
      BY <1>7, <3>1 DEF Branch, Return, Leave, stopsHere, calls, WellFormed
  <2> QED
    BY <1>3, <1>4, <1>5, <2>1, <2>2, <2>3 DEF InvocationRoomIsKept
<1> QED
  BY <1>6, <1>7

LEMMA CallsInvStep == NoReentry /\ CallsInv /\ [Next]_vars => CallsInv'
<1> SUFFICES ASSUME NoReentry, CallsInv, [Next]_vars PROVE CallsInv'
  OBVIOUS
<1>0. /\ FlowInv /\ FlowInv' /\ PathInv /\ WellFormed(program) /\ AnalysisInv /\ ExecutionTypes
  BY FlowInvStep, ProgramsAreWellFormed DEF CallsInv, FlowInv, PathInv, TypeInv, AnalysisInv
<1>1. CASE Begin \/ Branch \/ Call \/ Return \/ Leave
  <2> DEFINE e == <<at, at'>>
  <2>1. UNCHANGED analysis
    BY <1>1 DEF Begin, Branch, Call, Return, Leave
  <2>2. ASG # NoGraph /\ ASG = initializeGraph(MASG) /\ IsFinal(program, MASG)
    BY <1>0, <1>1, StepTakesEdge DEF AnalysisInv
  <2>3. x' = x (+) SetToBag({at'}) /\ y' = y (+) SetToBag({e})
    BY <1>1 DEF Begin, Branch, Call, Return, Leave, Take
  <2>4. IsABag(x) /\ IsABag(y) /\ IsFiniteSet(MASG.Edges)
    BY <1>0, <2>2, FiniteGraph DEF ExecutionTypes
  <2>5. program' = program /\ ASG' = ASG
    BY <2>1 DEF analysis
  <2>6. ASSUME NEW f \in Defined(program) \ {program.start}, KeepsRecursion(f) PROVE RecursionKept(f)'
    <3> DEFINE h == firstBlock(f)
    <3>1. /\ InvocationsIn(f)
          /\ bound(h) * flow(backEdges(h), y) + invocationRoom(invocations, f) <= (bound(h) - 1) * copies(h, x)
      BY <2>2, <2>6 DEF CallsInv, RecursionKept
    <3>2. InvocationsIn(f)' /\ InvocationRoomIsKept(f)
      BY <1>0, <1>1, <2>6, <3>1, InvocationsCall, InvocationsElsewhere
    <3>3. bound(h) \in Nat \ {0} /\ bound(h)' = bound(h) /\ backEdges(h)' = backEdges(h) /\ firstBlock(f)' = h
      BY <2>5, <2>6 DEF KeepsRecursion, bound, backEdges, into, firstBlock
    <3>4. IsFiniteSet(backEdges(h))
      <4>1. backEdges(h) \subseteq MASG.Edges
        BY <2>2 DEF backEdges, initializeGraph
      <4> QED
        BY <2>4, <4>1, FS_Subset
    <3>5. invocationRoom(invocations, f)' = invocationRoom(invocations', f)
      BY <2>5 DEF invocationRoom, bound, firstBlock
    <3> HIDE DEF h
    <3>6. /\ flow(backEdges(h), y) \in Nat
          /\ flow(backEdges(h), y') = flow(backEdges(h), y) + IF e \in backEdges(h) THEN 1 ELSE 0
      <4> HIDE DEF e
      <4> QED
        BY <2>3, <2>4, <3>4, FlowGrows
    <3>7. copies(h, x) \in Nat /\ copies(h, x') = copies(h, x) + IF h = at' THEN 1 ELSE 0
      BY <2>3, <2>4, BagAdd
    <3> DEFINE K == flow(backEdges(h), y)
               X == copies(h, x)
               S == invocationRoom(invocations, f)
               T == invocationRoom(invocations', f)
    <3>8. /\ S \in Nat /\ T \in Nat
          /\ at' # h => T <= S
          /\ at' = h => T <= S + (bound(h) - 1)
          /\ e \in backEdges(h) => at' = h /\ T + 1 <= S
      BY <3>2 DEF InvocationRoomIsKept, h
    <3> HIDE DEF K, X, S, T, e
    <3>9. /\ T <= S => bound(h) * K + T <= (bound(h) - 1) * X
          /\ T <= S + (bound(h) - 1) => bound(h) * K + T <= (bound(h) - 1) * (X + 1)
          /\ T + 1 <= S => bound(h) * (K + 1) + T <= (bound(h) - 1) * (X + 1)
      BY <3>1, <3>3, <3>6, <3>7, <3>8, LoopArithmetic DEF K, X, S
    <3>10. bound(h) * flow(backEdges(h), y') + T <= (bound(h) - 1) * copies(h, x')
      <4>1. CASE e \in backEdges(h)
        BY <3>6, <3>7, <3>8, <3>9, <4>1 DEF K, X
      <4>2. CASE e \notin backEdges(h) /\ at' = h
        BY <3>6, <3>7, <3>8, <3>9, <4>2 DEF K, X
      <4>3. CASE e \notin backEdges(h) /\ at' # h
        BY <3>6, <3>7, <3>8, <3>9, <4>3 DEF K, X
      <4> QED
        BY <4>1, <4>2, <4>3
    <3>11. RecursionKept(f)' <=>
             InvocationsIn(f)' /\ bound(h) * flow(backEdges(h), y') + T <= (bound(h) - 1) * copies(h, x')
      <4>1. bound(firstBlock(f))' = bound(h) /\ backEdges(firstBlock(f))' = backEdges(h)
        BY <2>5 DEF h, bound, backEdges, into, firstBlock
      <4>2. flow(backEdges(firstBlock(f)), y)' = flow(backEdges(h), y')
        BY <4>1
      <4>3. copies(firstBlock(f), x)' = copies(h, x')
        BY <3>3
      <4> QED
        BY <3>5, <4>1, <4>2, <4>3 DEF RecursionKept, T
    <3> QED
      BY <3>2, <3>10, <3>11
  <2>7. \A f : KeepsRecursion(f)' => KeepsRecursion(f)
    BY <2>5 DEF KeepsRecursion, bound, calls, calleeOf, firstBlock
  <2>8. Defined(program)' = Defined(program) /\ program'.start = program.start
    BY <2>5
  <2> QED
    BY <1>0, <2>2, <2>5, <2>6, <2>7, <2>8 DEF CallsInv
<1>2. CASE FillMuGraph
  <2>1. Len(program.order) \in Nat
    BY <1>0 DEF WellFormed
  <2>2. UNCHANGED execution /\ ASG = NoGraph /\ ASG' = NoGraph
    BY <1>0, <1>2, <2>1 DEF FillMuGraph, AnalysisInv
  <2> QED
    BY <1>0, <2>2 DEF CallsInv, execution
<1>3. CASE SolvePaths
  <2>1. /\ UNCHANGED execution /\ ASG = NoGraph /\ UNCHANGED <<program, MASG, next>>
        /\ ASG' = initializeGraph(MASG) /\ IsFinal(program, MASG)
    BY <1>0, <1>3 DEF SolvePaths, AnalysisInv
  <2>2. /\ x' = SetToBag({Entry}) /\ y' = EmptyBag /\ at' = Entry /\ stack' = << >> /\ invocations' = EmptyBag
    BY <1>0, <2>1 DEF CallsInv, FlowInv, execution, ExecutionTypes, PathInv, OutsideIsEmpty, inBlock
  <2>3. ASSUME NEW f \in Defined(program) \ {program.start}, KeepsRecursion(f)' PROVE RecursionKept(f)'
    <3> DEFINE h == firstBlock(f)
    <3>1. bound(h)' \in Nat \ {0} /\ h \in Blocks(program) /\ h # Entry /\ h' = h
      BY <1>0, <2>1, <2>3, EntryBlocks DEF KeepsRecursion, WellFormed, firstBlock
    <3> HIDE DEF h
    <3>2. flow(backEdges(h), y)' = 0
      <4>1. backEdges(h)' \subseteq MASG.Edges
        BY <2>1 DEF backEdges, initializeGraph
      <4>2. IsFiniteSet(backEdges(h)')
        BY <1>0, <2>1, <4>1, FiniteGraph, FS_Subset
      <4>3. flow(backEdges(h)', y') = 0
        BY <2>2, <4>2, NoFlow, SingletonBag
      <4> QED
        BY <4>3
    <3>3. copies(h, x)' = 0
      BY <2>2, <3>1, SingletonBag
    <3>4. DOMAIN invocations' = {}
      BY <2>2, SingletonBag
    <3>5. invocationRoom(invocations, f)' = 0 /\ InvocationsIn(f)'
      BY <2>2, <3>4 DEF invocationRoom, InvocationsIn
    <3>6. bound(h)' * 0 + 0 <= (bound(h)' - 1) * 0
      BY <3>1
    <3> QED
      BY <3>2, <3>3, <3>5, <3>6 DEF RecursionKept, h
  <2>4. Defined(program)' = Defined(program) /\ program'.start = program.start
    BY <2>1
  <2> QED
    BY <1>0, <2>2, <2>3, <2>4 DEF CallsInv
<1>4. CASE ExportBounds \/ AggregateLoopBounds \/ UNCHANGED vars
  <2>1. UNCHANGED <<execution, program, MASG, ASG>>
    BY <1>4 DEF ExportBounds, AggregateLoopBounds, vars, analysis
  <2>2. \A f : RecursionKept(f)' <=> RecursionKept(f)
    BY <2>1 DEF RecursionKept, execution, InvocationsIn, bound, backEdges, into, invocationRoom,
                firstBlock, activeAt, calleeOf
  <2>3. \A f : KeepsRecursion(f)' <=> KeepsRecursion(f)
    BY <2>1 DEF KeepsRecursion, bound, calls, calleeOf, firstBlock
  <2> QED
    BY <1>0, <2>1, <2>2, <2>3 DEF CallsInv, execution
<1> QED
  BY <1>1, <1>2, <1>3, <1>4 DEF Next

\* Where the bounds are kept, the rows of the loops hold.
LEMMA LoopRows ==
  ASSUME LoopInv, CallsInv, BoundsAreKept, ASG # NoGraph, NEW n \in ASG.Nodes
  PROVE  LoopRow(ASG, n, x, y)
<1> SUFFICES ASSUME n \in ASG.LoopHeaders, ASG.UpperLoopBound[n] > 0
             PROVE  (bound(n) - 1) * copies(n, x) >= bound(n) * flow(backEdges(n), y)
  BY DEF LoopRow, bound, backEdges
<1>0. PathInv /\ ExecutionTypes /\ WellFormed(program)
  BY ProgramsAreWellFormed DEF LoopInv, FlowInv, PathInv, TypeInv, AnalysisInv
<1>1. ASG = initializeGraph(MASG) /\ IsFinal(program, MASG)
  BY <1>0 DEF PathInv, TypeInv, AnalysisInv
<1>2. bound(n) \in Nat \ {0} /\ copies(n, x) \in Nat
  <2>1. bound(n) \in Nat \ {0}
    BY DEF BoundsAreKept, KeepsLoop, KeepsRecursion, bound
  <2>2. IsABag(x)
    BY <1>0 DEF ExecutionTypes
  <2> QED
    BY <2>1, <2>2, BagAdd
<1>3. flow(backEdges(n), y) \in Nat
  <2>1. backEdges(n) \subseteq MASG.Edges
    BY <1>1 DEF backEdges, initializeGraph
  <2>2. IsFiniteSet(backEdges(n)) /\ IsABag(y)
    BY <1>0, <1>1, <2>1, FiniteGraph, FS_Subset DEF ExecutionTypes
  <2> QED
    BY <2>2, FlowGrows
<1>4. PICK s \in Nat : bound(n) * flow(backEdges(n), y) + s <= (bound(n) - 1) * copies(n, x)
  <2>1. CASE KeepsLoop(n)
    <3>1. LoopKept(n)
      BY <2>1 DEF LoopInv
    <3>2. frameRoom(n) \in Nat
      BY <1>0, <2>1, <3>1, FrameRoomIsANumber DEF LoopKept, CountsIn
    <3>3. room(iterations, n) \in Nat
      BY <1>0, <2>1, <3>1 DEF KeepsLoop, ExecutionTypes, Counts, room, hasRoom, LoopKept, CountsIn
    <3>4. slack(n) \in Nat
      BY <3>2, <3>3 DEF slack
    <3> QED
      BY <3>1, <3>4 DEF LoopKept
  <2>2. ASSUME NEW f \in Defined(program) \ {program.start}, n = firstBlock(f), KeepsRecursion(f)
        PROVE  \E s \in Nat : bound(n) * flow(backEdges(n), y) + s <= (bound(n) - 1) * copies(n, x)
    <3>1. RecursionKept(f)
      BY <2>2 DEF CallsInv
    <3>2. invocationRoom(invocations, f) \in Nat
      BY <2>2, <3>1, InvocationRoomIsANumber DEF RecursionKept, InvocationsIn
    <3> QED
      BY <2>2, <3>1, <3>2 DEF RecursionKept
  <2> QED
    BY <2>1, <2>2 DEF BoundsAreKept, bound
<1>5. bound(n) * flow(backEdges(n), y) \in Nat /\ (bound(n) - 1) * copies(n, x) \in Nat
  BY <1>2, <1>3
<1> QED
  BY <1>4, <1>5

(***************************************************************************)
(* The counts of a complete execution satisfy all rows of the integer        *)
(* program, so its maximum is taken over a set that has every execution in    *)
(* it: flow in and out of every node, the single entry, calls matched with    *)
(* returns, and the rows of loops and recursions.  The bounds must be of the  *)
(* program's loops and cycles of calls, and it must stay within them; the     *)
(* start function must not be called again, and no function may return on one *)
(* path and stop the program on another.                                    *)
(***************************************************************************)
THEOREM ExecutionsAreFeasible ==
  ASSUME NoReentry, NoPartialStops
  PROVE  Spec => [](BoundsAreKept => ExecutionIsFeasible)
<1> DEFINE Inv == LoopInv /\ CallsInv /\ RecursionInv
<1>1. Init => Inv
  <2>1. Init => PathInv /\ stack = << >> /\ ASG = NoGraph
    BY PathInvInit DEF Init
  <2> QED
    BY <2>1 DEF LoopInv, CallsInv, FlowInv, RecursionInv, ChainReaches, Init
<1>2. NoReentry /\ Inv /\ [Next]_vars => Inv'
  BY LoopInvStep, CallsInvStep, RecursionInvStep
<1>3. Inv => (BoundsAreKept => ExecutionIsFeasible)
  <2> SUFFICES ASSUME Inv, BoundsAreKept, Complete PROVE Feasible(ASG, x, y)
    BY DEF ExecutionIsFeasible
  <2>1. ASG # NoGraph
    BY ProgramsAreWellFormed
       DEF LoopInv, FlowInv, PathInv, TypeInv, AnalysisInv, Complete, stopsHere, inBlock, ExecutionTypes
  <2>2. \A n \in ASG.Nodes : LoopRow(ASG, n, x, y)
    BY <2>1, LoopRows
  <2>3. FlowInv
    BY DEF LoopInv
  <2> QED
    BY <2>2, <2>3, CountsAreFeasible
<1> HIDE DEF Inv
<1>4. NoReentry /\ Spec => []Inv
  BY <1>1, <1>2, PTL DEF Spec
<1> QED
  BY <1>3, <1>4, PTL

(***************************************************************************)
(* What the analysis is for: whatever is an upper bound of the objective over  *)
(* all solutions of the integer program, as the value the solver reports is,  *)
(* bounds the cycles of every execution, if no callee without a cost has been *)
(* reported.                                                                *)
(***************************************************************************)
IsUpperBound(W) == \A a, b : Feasible(ASG, a, b) => Objective(ASG, a) <= W

THEOREM TheWCETIsABound ==
  ASSUME NoReentry, NoPartialStops, NEW W \in Nat
  PROVE  Spec => [](BoundsAreKept /\ MASG.UnsoundExternalCallees = {} /\ Complete /\ IsUpperBound(W)
                      => elapsed <= W)
<1>1. PathInv /\ ExecutionIsFeasible /\ TimeIsCovered =>
         (MASG.UnsoundExternalCallees = {} /\ Complete /\ IsUpperBound(W) => elapsed <= W)
  <2> SUFFICES ASSUME PathInv, ExecutionIsFeasible, TimeIsCovered,
                      MASG.UnsoundExternalCallees = {}, Complete, IsUpperBound(W)
               PROVE  elapsed <= W
    OBVIOUS
  <2>1. elapsed <= Objective(ASG, x) /\ Objective(ASG, x) <= W
    BY DEF ExecutionIsFeasible, TimeIsCovered, IsUpperBound
  <2>2. elapsed \in Nat /\ Objective(ASG, x) \in Nat
    <3>1. AnalysisInv /\ ExecutionTypes /\ WellFormed(program)
      BY ProgramsAreWellFormed DEF PathInv, TypeInv, AnalysisInv
    <3>2. ASG # NoGraph
      BY <3>1, ProgramsAreWellFormed DEF Complete, stopsHere, inBlock, ExecutionTypes, WellFormed, AnalysisInv
    <3>3. at \in MASG.Nodes /\ IsFinal(program, MASG) /\ ASG = initializeGraph(MASG) /\ IsABag(x) /\ elapsed \in Nat
      BY <3>1, <3>2 DEF AnalysisInv, PathInv, NodesAreInGraph, ExecutionTypes
    <3> QED
      BY <3>1, <3>3, ObjectiveGrows
  <2> QED
    BY <2>1, <2>2
<1>2. Init => PathInv
  BY PathInvInit
<1>3. NoReentry /\ Spec => []PathInv
  BY <1>2, PathInvStep, PTL DEF Spec
<1> QED
  BY <1>1, <1>3, ExecutionsAreFeasible, TimeCovered, PTL
=============================================================================
