--------------------------- MODULE WorklistSolver ---------------------------
(***************************************************************************)
(* The fixpoint engine (lib/Analysis/WorklistSolver.cpp), for any analysis: *)
(* a FIFO worklist of graph nodes; a step takes the first, joins the out   *)
(* states of its predecessors, runs the block over the result, stores the  *)
(* cost, and enqueues the successors when the out state changed.           *)
(*                                                                         *)
(* This is run(MachineFunction): the nodes are the basic blocks of a       *)
(* function and only the entry is queued at first.                         *)
(***************************************************************************)
EXTENDS Naturals, Sequences

CONSTANTS
  Node,             \* ids of the AbstractStateGraph nodes
  EntryNode,        \* the node of MF.front()
  Programs,         \* the graphs to analyse: records with edges and block
  Initial,          \* Analysis.getInitialState()
  Transfer(_, _),   \* the state after Analysis.process on every instruction of a block
  BlockCost(_, _),  \* the sum of the costs process returns for the block
  JoinPreds(_),     \* the join of the out states of the predecessors, a map on them
  Ordered(_)        \* a set of nodes in the order std::set iterates over it

ASSUME EntryAssumption == EntryNode \in Node

ASSUME OrderAssumption ==
  \A S \in SUBSET Node :
    /\ Ordered(S) \in Seq(Node)
    /\ {Ordered(S)[i] : i \in DOMAIN Ordered(S)} = S
    /\ \A i, j \in DOMAIN Ordered(S) : Ordered(S)[i] = Ordered(S)[j] => i = j

ASSUME ProgramAssumption ==
  \A P \in Programs : /\ P.edges \subseteq Node \X Node
                      /\ DOMAIN P.block = Node

VARIABLES
  edges,       \* the graph: successor and predecessor sets
  block,       \* what each node makes the analysis process
  state,       \* Node::State, the out state
  cost,        \* Node::Cost
  Worklist,
  InWorklist,
  processed    \* history: the nodes that have been taken at least once

vars == <<edges, block, state, cost, Worklist, InWorklist, processed>>

graph == <<edges, block>>

getPredecessors(n) == {p \in Node : <<p, n>> \in edges}

getSuccessors(n) == {m \in Node : <<n, m>> \in edges}

-----------------------------------------------------------------------------
Init ==
  \E P \in Programs :
    /\ edges = P.edges
    /\ block = P.block
    /\ state = [n \in Node |-> Initial]
    /\ cost = [n \in Node |-> 0]
    /\ Worklist = <<EntryNode>>
    /\ InWorklist = {EntryNode}
    /\ processed = {}

(* The in state of a node: the initial state only when no edge enters it.  *)
inState(n) ==
  IF getPredecessors(n) = {} THEN Initial
  ELSE JoinPreds([p \in getPredecessors(n) |-> state[p]])

outState(n) == Transfer(block[n], inState(n))

(* The nodes of S that calls of addToWorklist append, one after the other,  *)
(* when some are waiting already.                                          *)
addToWorklist(S, waiting) == Ordered(S \ waiting)

(* takeFromWorklist, the join and the processing of the block.             *)
take(n) ==
  /\ Worklist # <<>>
  /\ n = Head(Worklist)
  /\ cost' = [cost EXCEPT ![n] = BlockCost(block[n], inState(n))]
  /\ processed' = processed \cup {n}
  /\ UNCHANGED graph

(* The out state is the one the node already has: nothing is propagated.   *)
ProcessUnchanged(n) ==
  /\ take(n)
  /\ outState(n) = state[n]
  /\ Worklist' = Tail(Worklist)
  /\ InWorklist' = InWorklist \ {n}
  /\ UNCHANGED state

(* Mutants of ProcessChanged: a waiting successor is queued again; a       *)
(* successor processed before is not; only the first successor is.         *)
ProcessChangedTwice(n) ==
  /\ take(n)
  /\ outState(n) # state[n]
  /\ state' = [state EXCEPT ![n] = outState(n)]
  /\ Worklist' = Tail(Worklist) \o Ordered(getSuccessors(n))
  /\ InWorklist' = (InWorklist \ {n}) \cup getSuccessors(n)

ProcessChangedOnce(n) ==
  LET waiting == InWorklist \ {n}
      fresh   == getSuccessors(n) \ (waiting \cup processed)
  IN  /\ take(n)
      /\ outState(n) # state[n]
      /\ state' = [state EXCEPT ![n] = outState(n)]
      /\ Worklist' = Tail(Worklist) \o Ordered(fresh)
      /\ InWorklist' = waiting \cup fresh

ProcessChangedFirst(n) ==
  LET waiting == InWorklist \ {n}
      queue   == Ordered(getSuccessors(n) \ waiting)
  IN  /\ take(n)
      /\ outState(n) # state[n]
      /\ state' = [state EXCEPT ![n] = outState(n)]
      /\ Worklist' = IF queue = <<>> THEN Tail(Worklist) ELSE Append(Tail(Worklist), Head(queue))
      /\ InWorklist' = IF queue = <<>> THEN waiting ELSE waiting \cup {Head(queue)}

(* The out state is new: addToWorklist queues every successor that is not  *)
(* waiting already, the node itself included.                              *)
ProcessChanged(n) ==
  LET waiting == InWorklist \ {n}
  IN  /\ take(n)
      /\ outState(n) # state[n]
      /\ state' = [state EXCEPT ![n] = outState(n)]
      /\ Worklist' = Tail(Worklist) \o addToWorklist(getSuccessors(n), waiting)
      /\ InWorklist' = waiting \cup getSuccessors(n)

Next == \E n \in Node : ProcessUnchanged(n) \/ ProcessChanged(n)

Spec == Init /\ [][Next]_vars

(* The solver runs to completion on one thread: an enabled step is taken.  *)
FairSpec == Spec /\ WF_vars(Next)

-----------------------------------------------------------------------------
(* The deque and the membership set name the same nodes and no node waits  *)
(* twice, the graph never changes, and every node has a state.             *)
TypeOK ==
  /\ edges \subseteq Node \X Node
  /\ DOMAIN state = Node /\ DOMAIN cost = Node
  /\ Worklist \in Seq(Node)
  /\ InWorklist = {Worklist[i] : i \in DOMAIN Worklist}
  /\ \A i, j \in DOMAIN Worklist : Worklist[i] = Worklist[j] => i = j
  /\ processed \subseteq Node

(* A node solves its equation: its out state is the block run over the     *)
(* join of its predecessors as they are now, and its cost is the cost of   *)
(* that same run.                                                          *)
solved(n) ==
  /\ state[n] = outState(n)
  /\ cost[n] = BlockCost(block[n], inState(n))

(* No lost update: a node that has been processed and is not waiting       *)
(* solves its equation, whatever changed around it since; when the         *)
(* worklist runs empty, states and costs are a fixpoint on the processed   *)
(* nodes.                                                                  *)
SolvedUnlessWaiting == \A n \in processed \ InWorklist : solved(n)

(* A node never processed still has its initial state, and none of its     *)
(* predecessors ever changed: skipping it loses no state.                  *)
UntouchedUntilReached ==
  \A n \in Node \ (processed \cup InWorklist) :
    /\ state[n] = Initial
    /\ \A p \in getPredecessors(n) : state[p] = Initial

(* The solver stops.                                                       *)
Termination == <>(Worklist = <<>>)

-----------------------------------------------------------------------------
Chaotic == INSTANCE FixpointIteration WITH dirty <- InWorklist

(* The solver is one way to iterate towards a fixpoint: whatever the deque  *)
(* and the membership set do, each step recomputes a node that is waiting,  *)
(* and every successor of a node whose state changed is waiting afterwards. *)
ImplementsIteration == Chaotic!Spec
=============================================================================
