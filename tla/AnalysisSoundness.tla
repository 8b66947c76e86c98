------------------------- MODULE AnalysisSoundness -------------------------
(***************************************************************************)
(* What the per-block costs of the solver mean: once run(MF) has returned, *)
(* the function is executed, block after block along the edges of its      *)
(* graph, on a machine the abstract states are about, and the cycles a     *)
(* block takes are compared with the cost of its node, which               *)
(* FRAMCacheAnalysisPass adds to the latency of the block.                 *)
(***************************************************************************)
EXTENDS WorklistSolver

CONSTANTS
  Machine,          \* the states of the machine
  Describes(_, _),  \* an abstract state and a machine state it allows
  Outcomes(_, _),   \* what running a block from a machine state may lead to:
                    \* records of the machine state after it and the cycles taken
  NoNode            \* no block is being executed

ASSUME NoNodeAssumption == NoNode \notin Node

VARIABLES
  at,     \* the block executed last
  hw,     \* the machine after it
  spent   \* the cycles it took

svars == <<edges, block, state, cost, Worklist, InWorklist, processed, at, hw, spent>>

SInit ==
  /\ Init
  /\ at = NoNode
  /\ hw = CHOOSE c \in Machine : TRUE
  /\ spent = 0

Solve == Next /\ UNCHANGED <<at, hw, spent>>

execute(n, c) ==
  \E o \in Outcomes(block[n], c) :
    at' = n /\ hw' = o.machine /\ spent' = o.cycles

(* The function is called, the machine in whatever state the caller left.  *)
Enter ==
  /\ Worklist = <<>>
  /\ at = NoNode
  /\ \E c \in Machine : execute(EntryNode, c)
  /\ UNCHANGED vars

(* Control passes to a successor of the block executed last.               *)
Goto(n) ==
  /\ at # NoNode
  /\ n \in getSuccessors(at)
  /\ execute(n, hw)
  /\ UNCHANGED vars

SNext == Solve \/ Enter \/ \E n \in Node : Goto(n)

SSpec == SInit /\ [][SNext]_svars

(* The solver runs on one thread and never waits: its steps are taken.     *)
SFairSpec == SSpec /\ WF_svars(Solve)

-----------------------------------------------------------------------------
(* What the analysis must guarantee locally, one block and one join at a   *)
(* time, for the abstract states S: the initial state allows every         *)
(* machine, running a block keeps state and machine together and costs no  *)
(* more than it charges, and a join allows what any of its operands allows. *)
InitialSound(S) == Initial \in S /\ \A c \in Machine : Describes(Initial, c)

Contents == UNION {{P.block[n] : n \in Node} : P \in Programs}

BlockSound(S) ==
  \A b \in Contents, s \in S :
    /\ Transfer(b, s) \in S
    /\ \A c \in Machine : Describes(s, c) =>
         \A o \in Outcomes(b, c) : /\ o.machine \in Machine
                                   /\ Describes(Transfer(b, s), o.machine)
                                   /\ o.cycles <= BlockCost(b, s)

PredMaps(S) == UNION {[D -> S] : D \in (SUBSET Node) \ {{}}}

JoinSound(S) ==
  \A f \in PredMaps(S) :
    /\ JoinPreds(f) \in S
    /\ \A p \in DOMAIN f, c \in Machine :
         Describes(f[p], c) => Describes(JoinPreds(f), c)

LocallySound(S) == InitialSound(S) /\ BlockSound(S) /\ JoinSound(S)

(* Nothing jumps to the entry block.  The solver needs it: with a          *)
(* predecessor, the entry starts from that predecessor's state and not     *)
(* from the initial one, though the function can also be entered by a call. *)
EntryHasNoPredecessor == \A P \in Programs, p \in Node : <<p, EntryNode>> \notin P.edges

-----------------------------------------------------------------------------
(* The out state the solver stored for a block allows every machine state  *)
(* that executing it can produce, on every path and after any number of    *)
(* loop iterations.                                                        *)
OutStateDescribes == at # NoNode => Describes(state[at], hw)

(* A block the solver processed never takes longer than the cost of its    *)
(* node, on any path from the entry to it.                                 *)
ProcessedBlockIsCovered == at \in processed => spent <= cost[at]

(* No block of the function ever takes longer than the cost of its node    *)
(* (FRAMCacheAnalysisPass.h, "charges the penalty only for fetch words     *)
(* that are not provably cache hits").                                     *)
EveryBlockIsCovered == at # NoNode => spent <= cost[at]
=============================================================================
