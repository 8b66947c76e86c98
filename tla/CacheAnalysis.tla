--------------------------- MODULE CacheAnalysis ---------------------------
(***************************************************************************)
(* The generic cache analysis engine: CacheGeometry, CacheState (one       *)
(* abstract set per cache set) and CacheAnalysis::process, which runs the  *)
(* events of an instruction over a CacheState.                             *)
(*                                                                         *)
(* A line is named by its number, the base address that                    *)
(* CacheGeometry::lineId returns divided by LineBytes.                     *)
(***************************************************************************)
EXTENDS ReplacementPolicy, Sequences

CONSTANTS
  NumSets,      \* CacheGeometry::NumSets
  Lines,        \* the cache lines the program can touch
  MissPenalty   \* -fram-line-fill-cycles, charged for an access not proven a hit

(* CacheGeometry::isValid: the pass skips an unusable geometry.            *)
isPow2(n) == \E k \in 0 .. n : n = 2 ^ k

ASSUME GeometryAssumption ==
  /\ NumSets \in Nat \ {0}
  /\ isPow2(NumSets)
  /\ Lines \subseteq Nat
  /\ MissPenalty \in Nat

Sets == 0 .. NumSets - 1

setIndex(l) == l % NumSets

LinesOf(s) == {l \in Lines : setIndex(l) = s}

(* The abstract cache states, every line in its own set.                   *)
CacheStates ==
  {C \in [Sets -> UNION {SetStates(LinesOf(s)) : s \in Sets}] :
     \A s \in Sets : C[s] \in SetStates(LinesOf(s))}

-----------------------------------------------------------------------------
(* CacheState.  The initial state has every set empty.                     *)
getInitialState == [s \in Sets |-> makeEmpty]

present(C, l) == contains(C[setIndex(l)], l)

access(C, l) == [C EXCEPT ![setIndex(l)] = update(@, l)]

barrier(C) == [s \in Sets |-> makeEmpty]

(* Mutant of join: only the first set is joined.                           *)
joinFirstSet(C, D) == [C EXCEPT ![0] = joinSet(C[0], D[0])]

join(C, D) == [s \in Sets |-> joinSet(C[s], D[s])]

-----------------------------------------------------------------------------
(* CacheEvent: a fetch of a line, or an access the analysis cannot place,  *)
(* which wipes the state and carries its own cost.                         *)
Access(l)  == [kind |-> "Access", line |-> l, cost |-> 0]
Barrier(c) == [kind |-> "Barrier", line |-> 0, cost |-> c]

(* One iteration of the loop of CacheAnalysis::process.                    *)
eventState(C, e) == IF e.kind = "Access" THEN access(C, e.line) ELSE barrier(C)

(* Mutant of eventCost: the cost of a barrier is forgotten.                *)
eventCostNoBarrier(C, e) ==
  IF Kind = "Must" /\ e.kind = "Access" /\ ~present(C, e.line) THEN MissPenalty ELSE 0

eventCost(C, e) ==
  IF Kind = "May" THEN 0
  ELSE IF e.kind = "Barrier" THEN e.cost
  ELSE IF present(C, e.line) THEN 0 ELSE MissPenalty

(* In May mode an access to a line that is absent goes to the sink as a    *)
(* guaranteed miss.                                                        *)
eventReported(C, e) == Kind = "May" /\ e.kind = "Access" /\ ~present(C, e.line)
=============================================================================
