------------------------- MODULE FixpointIteration -------------------------
(***************************************************************************)
(* What the fixpoint engine promises, without saying in which order it      *)
(* works: some set of nodes is dirty, and a step recomputes any one of them *)
(* from the out states of its predecessors.  When its state changes, every  *)
(* node that reads it is dirty afterwards; a step may mark more nodes than  *)
(* it has to, but never forgets one.                                       *)
(***************************************************************************)
CONSTANTS Node, EntryNode, Programs, Initial, Transfer(_, _), JoinPreds(_)

VARIABLES edges, block, state, dirty

vars == <<edges, block, state, dirty>>

readBy(n) == {p \in Node : <<p, n>> \in edges}

readersOf(n) == {m \in Node : <<n, m>> \in edges}

equation(n) ==
  Transfer(block[n], IF readBy(n) = {} THEN Initial ELSE JoinPreds([p \in readBy(n) |-> state[p]]))

Init ==
  /\ \E P \in Programs : edges = P.edges /\ block = P.block
  /\ state = [n \in Node |-> Initial]
  /\ dirty = {EntryNode}

Settle(n) ==
  /\ equation(n) = state[n]
  /\ state' = state

Change(n) ==
  /\ equation(n) # state[n]
  /\ state' = [state EXCEPT ![n] = equation(n)]
  /\ readersOf(n) \subseteq dirty'

Recompute(n) ==
  /\ n \in dirty
  /\ Settle(n) \/ Change(n)
  /\ dirty \ {n} \subseteq dirty' /\ dirty' \subseteq Node
  /\ UNCHANGED <<edges, block>>

Next == \E n \in Node : Recompute(n)

Spec == Init /\ [][Next]_vars
=============================================================================
