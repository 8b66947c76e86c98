----------------------- MODULE AnalysisSoundnessProofs -----------------------
(***************************************************************************)
(* The worklist solver loses no update and implements the unordered        *)
(* iteration, for every graph and every analysis; its costs cover every    *)
(* execution of the function, for every machine and every analysis that is *)
(* sound block by block and join by join; and the cache analysis is, for   *)
(* every geometry, in functions that call nothing.                         *)
(***************************************************************************)
EXTENDS FRAMCacheSoundness, CacheProofs, InductionLemmas, SequenceTheorems

-----------------------------------------------------------------------------
elements(q) == {q[i] : i \in DOMAIN q}

distinct(q) == \A i, j \in DOMAIN q : q[i] = q[j] => i = j

(* Taking the first node removes it, and only it, from the deque.          *)
LEMMA TailLemma ==
  ASSUME NEW q \in Seq(Node), q # <<>>, distinct(q)
  PROVE  /\ Head(q) \in elements(q)
         /\ Tail(q) \in Seq(Node)
         /\ elements(Tail(q)) = elements(q) \ {Head(q)}
         /\ distinct(Tail(q))
<1> DEFINE t == Tail(q)
<1>1. /\ t \in Seq(Node) /\ Len(t) = Len(q) - 1
      /\ \A i \in 1 .. Len(t) : t[i] = q[i + 1]
  BY HeadTailProperties
<1>2. Len(q) \in Nat \ {0} /\ DOMAIN q = 1 .. Len(q)
  BY EmptySeq, LenProperties
<1>3. DOMAIN t = 1 .. Len(t)
  BY <1>1, LenProperties
<1>4. Head(q) = q[1]
  OBVIOUS
<1> HIDE DEF t
<1>5. \A i \in DOMAIN t : i + 1 \in DOMAIN q /\ i + 1 # 1 /\ t[i] = q[i + 1]
  BY <1>1, <1>2, <1>3
<1>6. \A j \in DOMAIN q : j # 1 => j - 1 \in DOMAIN t /\ t[j - 1] = q[j]
  <2> SUFFICES ASSUME NEW j \in DOMAIN q, j # 1
               PROVE  j - 1 \in DOMAIN t /\ t[j - 1] = q[j]
    OBVIOUS
  <2>1. j - 1 \in 1 .. Len(t) /\ (j - 1) + 1 = j
    BY <1>1, <1>2
  <2> QED BY <2>1, <1>1, <1>3
<1>7. 1 \in DOMAIN q
  BY <1>2
<1>8. elements(t) \subseteq elements(q) \ {Head(q)}
  BY <1>4, <1>5, <1>7 DEF elements, distinct
<1>9. elements(q) \ {Head(q)} \subseteq elements(t)
  BY <1>4, <1>6 DEF elements
<1>10. distinct(t)
  <2> SUFFICES ASSUME NEW i \in DOMAIN t, NEW j \in DOMAIN t, t[i] = t[j]
               PROVE  i = j
    BY DEF distinct
  <2>1. i + 1 = j + 1
    BY <1>5 DEF distinct
  <2> QED BY <2>1, <1>1, <1>3
<1> QED BY <1>1, <1>4, <1>7, <1>8, <1>9, <1>10 DEF elements, t

(* Queueing nodes that are not waiting keeps every node at most once.      *)
LEMMA ConcatLemma ==
  ASSUME NEW q \in Seq(Node), NEW r \in Seq(Node), distinct(q), distinct(r),
         elements(q) \cap elements(r) = {}
  PROVE  /\ q \o r \in Seq(Node)
         /\ elements(q \o r) = elements(q) \cup elements(r)
         /\ distinct(q \o r)
<1> DEFINE c == q \o r
<1>1. /\ c \in Seq(Node)
      /\ Len(c) = Len(q) + Len(r)
      /\ \A i \in 1 .. Len(q) + Len(r) :
           c[i] = IF i <= Len(q) THEN q[i] ELSE r[i - Len(q)]
  BY ConcatProperties
<1>2. /\ Len(q) \in Nat /\ DOMAIN q = 1 .. Len(q)
      /\ Len(r) \in Nat /\ DOMAIN r = 1 .. Len(r)
      /\ DOMAIN c = 1 .. Len(q) + Len(r)
  BY <1>1, LenProperties
<1> HIDE DEF c
<1>3. \A i \in DOMAIN c : \/ i \in DOMAIN q /\ c[i] = q[i]
                          \/ i - Len(q) \in DOMAIN r /\ c[i] = r[i - Len(q)]
  BY <1>1, <1>2
<1>4. \A i \in DOMAIN q : i \in DOMAIN c /\ c[i] = q[i]
  BY <1>1, <1>2
<1>5. \A i \in DOMAIN r : i + Len(q) \in DOMAIN c /\ c[i + Len(q)] = r[i]
  <2> SUFFICES ASSUME NEW i \in DOMAIN r
               PROVE  i + Len(q) \in DOMAIN c /\ c[i + Len(q)] = r[i]
    OBVIOUS
  <2>1. /\ i + Len(q) \in 1 .. Len(q) + Len(r) /\ ~(i + Len(q) <= Len(q))
        /\ (i + Len(q)) - Len(q) = i
    BY <1>2
  <2> QED BY <2>1, <1>1, <1>2
<1>6. elements(c) \subseteq elements(q) \cup elements(r)
  BY <1>3 DEF elements
<1>7. elements(q) \subseteq elements(c)
  BY <1>4 DEF elements
<1>8. elements(r) \subseteq elements(c)
  BY <1>5 DEF elements
<1>9. distinct(c)
  <2> SUFFICES ASSUME NEW i \in DOMAIN c, NEW j \in DOMAIN c, c[i] = c[j]
               PROVE  i = j
    BY DEF distinct
  <2>1. CASE i \in DOMAIN q /\ c[i] = q[i]
    <3>1. CASE j \in DOMAIN q /\ c[j] = q[j]
      BY <2>1, <3>1 DEF distinct
    <3>2. CASE j - Len(q) \in DOMAIN r /\ c[j] = r[j - Len(q)]
      <4>1. c[i] \in elements(q) /\ c[j] \in elements(r)
        BY <2>1, <3>2 DEF elements
      <4> QED BY <4>1
    <3> QED BY <1>3, <3>1, <3>2
  <2>2. CASE i - Len(q) \in DOMAIN r /\ c[i] = r[i - Len(q)]
    <3>1. CASE j \in DOMAIN q /\ c[j] = q[j]
      <4>1. c[j] \in elements(q) /\ c[i] \in elements(r)
        BY <2>2, <3>1 DEF elements
      <4> QED BY <4>1
    <3>2. CASE j - Len(q) \in DOMAIN r /\ c[j] = r[j - Len(q)]
      <4>1. i - Len(q) = j - Len(q)
        BY <2>2, <3>2 DEF distinct
      <4> QED BY <4>1, <1>2
    <3> QED BY <1>3, <3>1, <3>2
  <2> QED BY <1>3, <2>1, <2>2
<1> QED BY <1>1, <1>6, <1>7, <1>8, <1>9 DEF c

-----------------------------------------------------------------------------
Taken(n) == n \in Node /\ Worklist # <<>> /\ n = Head(Worklist)

(* What the deque is after its first node has been taken.                  *)
LEMMA TakenLemma ==
  ASSUME TypeOK, NEW n, Taken(n)
  PROVE  /\ n \in InWorklist
         /\ InWorklist \subseteq Node
         /\ Tail(Worklist) \in Seq(Node)
         /\ elements(Tail(Worklist)) = InWorklist \ {n}
         /\ distinct(Tail(Worklist))
<1>1. Worklist \in Seq(Node) /\ distinct(Worklist) /\ elements(Worklist) = InWorklist
  BY DEF TypeOK, distinct, elements
<1>2. InWorklist \subseteq Node
  BY <1>1, LenProperties, ElementOfSeq DEF elements
<1> QED BY <1>1, <1>2, TailLemma DEF Taken

(* A node no successor of n has the in state it had, when only the state   *)
(* of n changes.                                                           *)
LEMMA InStateLemma ==
  ASSUME TypeOK, NEW n \in Node, NEW m \in Node, NEW x,
         state' = [state EXCEPT ![n] = x], UNCHANGED graph,
         m \notin getSuccessors(n)
  PROVE  /\ inState(m)' = inState(m)
         /\ outState(m)' = outState(m)
         /\ \A p \in getPredecessors(m) : state'[p] = state[p]
         /\ getPredecessors(m)' = getPredecessors(m)
<1>1. edges' = edges /\ block' = block
  BY DEF graph
<1>2. getPredecessors(m)' = getPredecessors(m)
  BY <1>1 DEF getPredecessors
<1>3. n \notin getPredecessors(m)
  BY DEF getPredecessors, getSuccessors
<1>4. \A p \in getPredecessors(m) : state'[p] = state[p]
  BY <1>3 DEF TypeOK, getPredecessors
<1>5. [p \in getPredecessors(m) |-> state'[p]] = [p \in getPredecessors(m) |-> state[p]]
  BY <1>4
<1>6. inState(m)' = inState(m)
  BY <1>2, <1>5 DEF inState
<1> QED BY <1>1, <1>2, <1>4, <1>6 DEF outState

(* The three properties are inductive together: that every predecessor of  *)
(* a node not reached is unchanged and that a processed node not waiting   *)
(* solves its equation both need the deque and the set to agree.           *)
IInv == TypeOK /\ SolvedUnlessWaiting /\ UntouchedUntilReached

LEMMA InitLemma == Init => IInv
<1> SUFFICES ASSUME Init PROVE IInv
  OBVIOUS
<1>1. PICK P \in Programs :
        /\ edges = P.edges
        /\ block = P.block
        /\ state = [n \in Node |-> Initial]
        /\ cost = [n \in Node |-> 0]
        /\ Worklist = <<EntryNode>>
        /\ InWorklist = {EntryNode}
        /\ processed = {}
  BY DEF Init
<1>2. Worklist \in Seq(Node) /\ DOMAIN Worklist = {1} /\ Worklist[1] = EntryNode
  BY <1>1, EntryAssumption
<1>3. TypeOK
  BY <1>1, <1>2, ProgramAssumption, EntryAssumption DEF TypeOK
<1>4. SolvedUnlessWaiting
  BY <1>1 DEF SolvedUnlessWaiting
<1>5. UntouchedUntilReached
  BY <1>1 DEF UntouchedUntilReached, getPredecessors
<1> QED BY <1>3, <1>4, <1>5 DEF IInv

LEMMA UnchangedLemma ==
  ASSUME IInv, NEW n \in Node, ProcessUnchanged(n)
  PROVE  IInv'
<1>1. TypeOK /\ SolvedUnlessWaiting /\ UntouchedUntilReached /\ Taken(n)
  BY DEF IInv, Taken, ProcessUnchanged, take
<1>2. /\ n \in InWorklist
      /\ InWorklist \subseteq Node
      /\ Worklist' \in Seq(Node)
      /\ elements(Worklist') = InWorklist'
      /\ distinct(Worklist')
  BY <1>1, TakenLemma DEF ProcessUnchanged
<1>3. /\ edges' = edges /\ block' = block /\ state' = state
      /\ InWorklist' = InWorklist \ {n}
      /\ processed' = processed \cup {n}
      /\ cost' = [cost EXCEPT ![n] = BlockCost(block[n], inState(n))]
      /\ outState(n) = state[n]
  BY DEF ProcessUnchanged, take, graph
<1>4. \A m \in Node : /\ getPredecessors(m)' = getPredecessors(m)
                      /\ inState(m)' = inState(m)
                      /\ outState(m)' = outState(m)
  BY <1>3 DEF getPredecessors, inState, outState
<1>5. TypeOK'
  BY <1>1, <1>2, <1>3 DEF TypeOK, distinct, elements
<1>6. SolvedUnlessWaiting'
  <2> SUFFICES ASSUME NEW m \in processed' \ InWorklist'
               PROVE  solved(m)'
    BY DEF SolvedUnlessWaiting
  <2>1. m \in Node
    BY <1>5 DEF TypeOK
  <2>2. CASE m = n
    BY <2>2, <1>1, <1>3, <1>4 DEF solved, TypeOK
  <2>3. CASE m # n
    <3>1. solved(m)
      BY <2>3, <1>1, <1>3 DEF SolvedUnlessWaiting
    <3> QED BY <2>1, <2>3, <3>1, <1>1, <1>3, <1>4 DEF solved, TypeOK
  <2> QED BY <2>2, <2>3
<1>7. UntouchedUntilReached'
  <2> SUFFICES ASSUME NEW m \in Node, m \notin processed', m \notin InWorklist'
               PROVE  /\ state'[m] = Initial
                      /\ \A p \in getPredecessors(m)' : state'[p] = Initial
    BY DEF UntouchedUntilReached
  <2>1. m \notin processed /\ m \notin InWorklist
    BY <1>3
  <2> QED BY <2>1, <1>1, <1>3, <1>4 DEF UntouchedUntilReached
<1> QED BY <1>5, <1>6, <1>7 DEF IInv

LEMMA ChangedLemma ==
  ASSUME IInv, NEW n \in Node, ProcessChanged(n)
  PROVE  IInv'
<1> DEFINE waiting == InWorklist \ {n}
           queued  == getSuccessors(n) \ waiting
<1>1. TypeOK /\ SolvedUnlessWaiting /\ UntouchedUntilReached /\ Taken(n)
  BY DEF IInv, Taken, ProcessChanged, take
<1>2. /\ n \in InWorklist
      /\ InWorklist \subseteq Node
      /\ Tail(Worklist) \in Seq(Node)
      /\ elements(Tail(Worklist)) = waiting
      /\ distinct(Tail(Worklist))
  BY <1>1, TakenLemma
<1>3. /\ UNCHANGED graph /\ edges' = edges /\ block' = block
      /\ state' = [state EXCEPT ![n] = outState(n)]
      /\ Worklist' = Tail(Worklist) \o Ordered(queued)
      /\ InWorklist' = waiting \cup getSuccessors(n)
      /\ processed' = processed \cup {n}
      /\ cost' = [cost EXCEPT ![n] = BlockCost(block[n], inState(n))]
  BY DEF ProcessChanged, take, graph, addToWorklist
<1>4. /\ Ordered(queued) \in Seq(Node)
      /\ elements(Ordered(queued)) = queued
      /\ distinct(Ordered(queued))
  <2>1. queued \in SUBSET Node
    BY DEF getSuccessors
  <2> QED BY <2>1, OrderAssumption DEF elements, distinct
<1>5. /\ Worklist' \in Seq(Node)
      /\ elements(Worklist') = InWorklist'
      /\ distinct(Worklist')
  <2>1. elements(Tail(Worklist)) \cap elements(Ordered(queued)) = {}
    BY <1>2, <1>4
  <2>2. /\ Worklist' \in Seq(Node)
        /\ elements(Worklist') = elements(Tail(Worklist)) \cup elements(Ordered(queued))
        /\ distinct(Worklist')
    <3> HIDE DEF queued
    <3> QED BY <1>2, <1>3, <1>4, <2>1, ConcatLemma
  <2> QED BY <2>2, <1>2, <1>3, <1>4
<1>6. TypeOK'
  BY <1>1, <1>3, <1>5 DEF TypeOK, distinct, elements
<1>7. \A m \in Node : m \notin InWorklist' =>
        /\ inState(m)' = inState(m)
        /\ outState(m)' = outState(m)
        /\ \A p \in getPredecessors(m) : state'[p] = state[p]
        /\ getPredecessors(m)' = getPredecessors(m)
  <2> SUFFICES ASSUME NEW m \in Node, m \notin InWorklist'
               PROVE  /\ inState(m)' = inState(m)
                      /\ outState(m)' = outState(m)
                      /\ \A p \in getPredecessors(m) : state'[p] = state[p]
                      /\ getPredecessors(m)' = getPredecessors(m)
    OBVIOUS
  <2>1. m \notin getSuccessors(n)
    BY <1>3
  <2> QED BY <2>1, <1>1, <1>3, InStateLemma
<1>8. SolvedUnlessWaiting'
  <2> SUFFICES ASSUME NEW m \in processed' \ InWorklist'
               PROVE  solved(m)'
    BY DEF SolvedUnlessWaiting
  <2>1. m \in Node
    BY <1>6 DEF TypeOK
  <2>2. CASE m = n
    BY <2>1, <2>2, <1>1, <1>3, <1>7 DEF solved, TypeOK
  <2>3. CASE m # n
    <3>1. solved(m)
      BY <2>3, <1>1, <1>3 DEF SolvedUnlessWaiting
    <3> QED BY <2>1, <2>3, <3>1, <1>1, <1>3, <1>7 DEF solved, TypeOK
  <2> QED BY <2>2, <2>3
<1>9. UntouchedUntilReached'
  <2> SUFFICES ASSUME NEW m \in Node, m \notin processed', m \notin InWorklist'
               PROVE  /\ state'[m] = Initial
                      /\ \A p \in getPredecessors(m)' : state'[p] = Initial
    BY DEF UntouchedUntilReached
  <2>1. m \notin processed /\ m \notin InWorklist /\ m # n
    BY <1>3
  <2>2. state[m] = Initial /\ \A p \in getPredecessors(m) : state[p] = Initial
    BY <2>1, <1>1 DEF UntouchedUntilReached
  <2> QED BY <2>1, <2>2, <1>1, <1>3, <1>7 DEF TypeOK
<1> QED BY <1>6, <1>8, <1>9 DEF IInv

LEMMA StepLemma == IInv /\ [Next]_vars => IInv'
<1> SUFFICES ASSUME IInv, [Next]_vars PROVE IInv'
  OBVIOUS
<1>1. CASE UNCHANGED vars
  BY <1>1 DEF vars, IInv, TypeOK, SolvedUnlessWaiting, UntouchedUntilReached, solved,
              outState, inState, getPredecessors
<1>2. ASSUME NEW n \in Node, ProcessUnchanged(n) PROVE IInv'
  BY <1>2, UnchangedLemma
<1>3. ASSUME NEW n \in Node, ProcessChanged(n) PROVE IInv'
  BY <1>3, ChangedLemma
<1> QED BY <1>1, <1>2, <1>3 DEF Next

(* The invariant holds of the specification.                               *)
THEOREM Invariance == Spec => []IInv
<1> QED BY InitLemma, StepLemma, PTL DEF Spec

(* The deque and the membership set always name the same nodes, each once. *)
THEOREM TypeCorrectness == Spec => []TypeOK
<1>1. IInv => TypeOK
  BY DEF IInv
<1> QED BY <1>1, Invariance, PTL

(* No lost update: a processed node that is not waiting solves its         *)
(* equation, whatever the graph, the analysis and its domain; no           *)
(* monotonicity is assumed.  When run(MF) returns, the stored states and   *)
(* costs are therefore a solution on the processed nodes.                  *)
THEOREM NoLostUpdate == Spec => []SolvedUnlessWaiting
<1>1. IInv => SolvedUnlessWaiting
  BY DEF IInv
<1> QED BY <1>1, Invariance, PTL

(* A block the solver never reaches has only predecessors whose out state  *)
(* is still the initial one.                                               *)
THEOREM NothingSkipped == Spec => []UntouchedUntilReached
<1>1. IInv => UntouchedUntilReached
  BY DEF IInv
<1> QED BY <1>1, Invariance, PTL

-----------------------------------------------------------------------------
(* A step that takes a node recomputes it in the abstract iteration.        *)
LEMMA RecomputeLemma ==
  ASSUME TypeOK, NEW n \in Node, ProcessUnchanged(n) \/ ProcessChanged(n)
  PROVE  Chaotic!Recompute(n)
<1>1. Taken(n)
  BY DEF Taken, ProcessUnchanged, ProcessChanged, take
<1>2. n \in InWorklist /\ InWorklist \subseteq Node
  BY <1>1, TakenLemma
<1>3. edges' = edges /\ block' = block
  BY DEF ProcessUnchanged, ProcessChanged, take, graph
<1>4. Chaotic!equation(n) = outState(n)
  BY DEF Chaotic!equation, Chaotic!readBy, outState, inState, getPredecessors
<1>5. Chaotic!readersOf(n) = getSuccessors(n)
  BY DEF Chaotic!readersOf, getSuccessors
<1>6. CASE ProcessUnchanged(n)
  <2>1. InWorklist' = InWorklist \ {n} /\ outState(n) = state[n] /\ state' = state
    BY <1>6 DEF ProcessUnchanged
  <2> QED BY <1>2, <1>3, <1>4, <2>1 DEF Chaotic!Recompute, Chaotic!Settle
<1>7. CASE ProcessChanged(n)
  <2>1. /\ InWorklist' = (InWorklist \ {n}) \cup getSuccessors(n)
        /\ outState(n) # state[n]
        /\ state' = [state EXCEPT ![n] = outState(n)]
    BY <1>7 DEF ProcessChanged
  <2>2. getSuccessors(n) \subseteq Node
    BY DEF getSuccessors
  <2> QED BY <1>2, <1>3, <1>4, <1>5, <2>1, <2>2 DEF Chaotic!Recompute, Chaotic!Change
<1> QED BY <1>6, <1>7

(* For every graph and every analysis the worklist solver implements the    *)
(* unordered iteration: the FIFO order, the membership set and the skipped  *)
(* re-insertions of waiting nodes lose no recomputation.                    *)
THEOREM SolverImplementsIteration == Spec => ImplementsIteration
<1>1. Init => Chaotic!Init
  BY DEF Init, Chaotic!Init
<1>2. TypeOK /\ [Next]_vars => [Chaotic!Next]_(Chaotic!vars)
  <2>1. ASSUME TypeOK, NEW n \in Node, ProcessUnchanged(n) \/ ProcessChanged(n)
        PROVE  Chaotic!Next
    BY <2>1, RecomputeLemma DEF Chaotic!Next
  <2>2. CASE UNCHANGED vars
    BY <2>2 DEF vars, Chaotic!vars
  <2> QED BY <2>1, <2>2 DEF Next
<1> QED BY <1>1, <1>2, TypeCorrectness, PTL DEF Spec, ImplementsIteration, Chaotic!Spec

-----------------------------------------------------------------------------
(* The states the solver stores are states of the analysis, and the graph  *)
(* it works on is one of Programs.                                         *)
SolverInv(S) ==
  /\ IInv
  /\ \A n \in Node : state[n] \in S /\ block[n] \in Contents
  /\ getPredecessors(EntryNode) = {}

(* Execution only starts when the solver is done, and the machine is       *)
(* described by the out state of the block executed last.                  *)
ExecutionInv ==
  at # NoNode => /\ at \in Node
                 /\ Worklist = <<>>
                 /\ hw \in Machine
                 /\ Describes(state[at], hw)
                 /\ at \in processed => spent <= cost[at]

SInv(S) == SolverInv(S) /\ ExecutionInv

LEMMA SInitLemma ==
  ASSUME NEW S, LocallySound(S), EntryHasNoPredecessor, SInit
  PROVE  SInv(S)
<1>1. IInv
  BY InitLemma DEF SInit
<1>2. PICK P \in Programs : /\ edges = P.edges
                            /\ block = P.block
                            /\ state = [n \in Node |-> Initial]
  BY DEF SInit, Init
<1>3. \A n \in Node : state[n] \in S /\ block[n] \in Contents
  <2> TAKE n \in Node
  <2>1. state[n] \in S
    BY <1>2 DEF LocallySound, InitialSound
  <2>2. block[n] \in {P.block[m] : m \in Node}
    BY <1>2
  <2>3. block[n] \in Contents
    BY <2>2 DEF Contents
  <2> QED BY <2>1, <2>3
<1>4. getPredecessors(EntryNode) = {}
  BY <1>2 DEF getPredecessors, EntryHasNoPredecessor
<1>5. ExecutionInv
  BY DEF SInit, ExecutionInv
<1> QED BY <1>1, <1>3, <1>4, <1>5 DEF SInv, SolverInv

(* The in state of a node is a state of the analysis, and describes every  *)
(* machine the node can be entered with: any at all when nothing jumps to  *)
(* it, and whatever the out state of one of its predecessors describes.    *)
LEMMA InStateDescribes ==
  ASSUME NEW S, LocallySound(S), SolverInv(S), NEW n \in Node
  PROVE  /\ inState(n) \in S
         /\ getPredecessors(n) = {} => \A c \in Machine : Describes(inState(n), c)
         /\ \A p \in getPredecessors(n), c \in Machine :
              Describes(state[p], c) => Describes(inState(n), c)
<1>1. CASE getPredecessors(n) = {}
  BY <1>1 DEF inState, LocallySound, InitialSound
<1>2. CASE getPredecessors(n) # {}
  <2> DEFINE D == getPredecessors(n)
             f == [p \in D |-> state[p]]
  <2>1. D \in (SUBSET Node) \ {{}}
    BY <1>2 DEF getPredecessors
  <2>2. f \in [D -> S]
    BY <2>1 DEF SolverInv
  <2>3. f \in PredMaps(S)
    BY <2>1, <2>2 DEF PredMaps
  <2>4. inState(n) = JoinPreds(f)
    BY <1>2 DEF inState
  <2>5. DOMAIN f = D /\ \A p \in D : f[p] = state[p]
    OBVIOUS
  <2> HIDE DEF f, D
  <2>6. /\ JoinPreds(f) \in S
        /\ \A p \in DOMAIN f, c \in Machine :
             Describes(f[p], c) => Describes(JoinPreds(f), c)
    BY <2>3 DEF LocallySound, JoinSound
  <2>7. \A p \in D, c \in Machine : Describes(state[p], c) => Describes(inState(n), c)
    BY <2>4, <2>5, <2>6
  <2> QED BY <1>2, <2>4, <2>6, <2>7 DEF D
<1> QED BY <1>1, <1>2

LEMMA SolveLemma ==
  ASSUME NEW S, LocallySound(S), SInv(S), Solve
  PROVE  SInv(S)'
<1>1. PICK n \in Node : ProcessUnchanged(n) \/ ProcessChanged(n)
  BY DEF Solve, Next
<1>2. /\ Worklist # <<>> /\ edges' = edges /\ block' = block
      /\ at' = at /\ hw' = hw /\ spent' = spent
      /\ \/ state' = state
         \/ state' = [state EXCEPT ![n] = outState(n)]
  BY <1>1 DEF ProcessUnchanged, ProcessChanged, take, graph, Solve
<1>3. IInv'
  BY StepLemma DEF SInv, SolverInv, Solve
<1>4. outState(n) \in S
  BY InStateDescribes DEF SInv, SolverInv, outState, LocallySound, BlockSound
<1>5. \A m \in Node : state'[m] \in S /\ block'[m] \in Contents
  BY <1>2, <1>4 DEF SInv, SolverInv, IInv, TypeOK
<1>6. getPredecessors(EntryNode)' = {}
  BY <1>2 DEF SInv, SolverInv, getPredecessors
<1>7. ExecutionInv'
  BY <1>2 DEF SInv, ExecutionInv
<1> QED BY <1>3, <1>5, <1>6, <1>7 DEF SInv, SolverInv

(* Executing a block from a machine its in state describes.                *)
LEMMA ExecuteLemma ==
  ASSUME NEW S, LocallySound(S), SolverInv(S), Worklist = <<>>, UNCHANGED vars,
         NEW n \in Node, NEW c \in Machine, Describes(inState(n), c), execute(n, c)
  PROVE  SInv(S)'
<1>1. /\ edges' = edges /\ block' = block /\ state' = state /\ cost' = cost
      /\ Worklist' = Worklist /\ InWorklist' = InWorklist /\ processed' = processed
  BY DEF vars
<1>2. SolverInv(S)'
  <2>1. IInv'
    BY StepLemma DEF SolverInv
  <2>2. getPredecessors(EntryNode)' = getPredecessors(EntryNode)
    BY <1>1 DEF getPredecessors
  <2> QED BY <1>1, <2>1, <2>2 DEF SolverInv
<1>3. PICK o \in Outcomes(block[n], c) : at' = n /\ hw' = o.machine /\ spent' = o.cycles
  BY DEF execute
<1>4. /\ o.machine \in Machine
      /\ Describes(outState(n), o.machine)
      /\ o.cycles <= BlockCost(block[n], inState(n))
  <2>1. block[n] \in Contents /\ inState(n) \in S
    BY InStateDescribes DEF SolverInv
  <2> QED BY <2>1 DEF LocallySound, BlockSound, outState
<1>5. InWorklist = {}
  BY DEF SolverInv, IInv, TypeOK
<1>6. CASE n \in processed
  <2>1. solved(n)
    BY <1>5, <1>6 DEF SolverInv, IInv, SolvedUnlessWaiting
  <2>2. state[n] = outState(n) /\ cost[n] = BlockCost(block[n], inState(n))
    BY <2>1 DEF solved
  <2>3. ExecutionInv'
    BY <1>1, <1>3, <1>4, <2>2 DEF ExecutionInv
  <2> QED BY <1>2, <2>3 DEF SInv
<1>7. CASE n \notin processed
  <2>1. state[n] = Initial
    BY <1>5, <1>7 DEF SolverInv, IInv, UntouchedUntilReached
  <2>2. Describes(state[n], o.machine)
    BY <2>1, <1>4 DEF LocallySound, InitialSound
  <2>3. ExecutionInv'
    BY <1>1, <1>3, <1>4, <1>7, <2>2 DEF ExecutionInv
  <2> QED BY <1>2, <2>3 DEF SInv
<1> QED BY <1>6, <1>7

LEMMA SStepLemma ==
  ASSUME NEW S, LocallySound(S), SInv(S), [SNext]_svars
  PROVE  SInv(S)'
<1>1. CASE Solve
  BY <1>1, SolveLemma
<1>2. CASE Enter
  <2>1. PICK c \in Machine : execute(EntryNode, c)
    BY <1>2 DEF Enter
  <2>2. SolverInv(S) /\ Worklist = <<>> /\ UNCHANGED vars
    BY <1>2 DEF Enter, SInv
  <2>3. Describes(inState(EntryNode), c)
    BY <2>2, InStateDescribes, EntryAssumption DEF SolverInv
  <2> QED BY <2>1, <2>2, <2>3, ExecuteLemma, EntryAssumption
<1>3. ASSUME NEW n \in Node, Goto(n) PROVE SInv(S)'
  <2>1. /\ SolverInv(S) /\ ExecutionInv /\ at # NoNode
        /\ n \in getSuccessors(at) /\ execute(n, hw) /\ UNCHANGED vars
    BY <1>3 DEF Goto, SInv
  <2>2. at \in Node /\ Worklist = <<>> /\ hw \in Machine /\ Describes(state[at], hw)
    BY <2>1 DEF ExecutionInv
  <2>3. at \in getPredecessors(n)
    BY <2>1, <2>2 DEF getPredecessors, getSuccessors
  <2>4. Describes(inState(n), hw)
    BY <2>1, <2>2, <2>3, InStateDescribes
  <2> QED BY <2>1, <2>2, <2>4, ExecuteLemma
<1>4. CASE UNCHANGED svars
  <2>1. /\ UNCHANGED vars
        /\ at' = at /\ hw' = hw /\ spent' = spent
    BY <1>4 DEF svars, vars
  <2>2. IInv'
    BY <2>1, StepLemma DEF SInv, SolverInv
  <2>3. SolverInv(S)'
    BY <2>1, <2>2 DEF vars, SInv, SolverInv, getPredecessors
  <2>4. ExecutionInv'
    BY <2>1 DEF vars, SInv, ExecutionInv
  <2> QED BY <2>3, <2>4 DEF SInv
<1> QED BY <1>1, <1>2, <1>3, <1>4 DEF SNext

(* After any number of loop iterations and on every path, the out state    *)
(* stored for the block executed last describes the machine.  The domain S *)
(* need not be finite, and nothing is assumed about convergence: if the    *)
(* solver does not return, nothing is executed.                            *)
THEOREM OutStatesDescribe ==
  ASSUME NEW S, LocallySound(S), EntryHasNoPredecessor
  PROVE  SSpec => []OutStateDescribes
<1>1. SInit => SInv(S)
  BY SInitLemma
<1>2. SInv(S) /\ [SNext]_svars => SInv(S)'
  BY SStepLemma
<1>3. SInv(S) => OutStateDescribes
  BY DEF SInv, ExecutionInv, OutStateDescribes
<1> QED BY <1>1, <1>2, <1>3, PTL DEF SSpec

(* The cost of a block the solver processed bounds the cycles the block    *)
(* takes, however control got there.                                       *)
THEOREM CostsCover ==
  ASSUME NEW S, LocallySound(S), EntryHasNoPredecessor
  PROVE  SSpec => []ProcessedBlockIsCovered
<1>1. SInit => SInv(S)
  BY SInitLemma
<1>2. SInv(S) /\ [SNext]_svars => SInv(S)'
  BY SStepLemma
<1>3. SInv(S) => ProcessedBlockIsCovered
  BY NoNodeAssumption DEF SInv, SolverInv, IInv, TypeOK, ExecutionInv, ProcessedBlockIsCovered
<1> QED BY <1>1, <1>2, <1>3, PTL DEF SSpec

-----------------------------------------------------------------------------
(* The cache analysis on a block.  The analysis and the device fold over   *)
(* the same events, so that they can be followed event by event.           *)
charge(acc, e) == [state |-> eventState(acc.state, e), cost |-> acc.cost + eventCost(acc.state, e)]

wait(Os, e) == UNION {eventOutcomes(o, e) : o \in Os}

Charged == [state : CacheStates, cost : Nat]

Waited == SUBSET [machine : DeviceCaches, cycles : Nat]

LEMMA EventType ==
  ASSUME NEW C \in CacheStates, NEW e \in Events
  PROVE  eventState(C, e) \in CacheStates /\ eventCost(C, e) \in Nat
<1>1. barrier(C) \in CacheStates
  BY EmptyState DEF barrier, getInitialState
<1>2. e.kind = "Access" => access(C, e.line) \in CacheStates
  BY AccessType DEF Events
<1>3. e.cost \in Nat /\ MissPenalty \in Nat
  BY GeometryAssumption DEF Events
<1> QED
  BY <1>1, <1>2, <1>3 DEF eventState, eventCost

LEMMA ChargeType ==
  ASSUME NEW acc \in Charged, NEW e \in Events
  PROVE  charge(acc, e) \in Charged
<1>1. acc.state \in CacheStates /\ acc.cost \in Nat
  BY DEF Charged
<1>2. eventState(acc.state, e) \in CacheStates /\ eventCost(acc.state, e) \in Nat
  BY <1>1, EventType
<1> QED
  BY <1>1, <1>2 DEF charge, Charged

LEMMA OutcomeType ==
  ASSUME NEW o \in [machine : DeviceCaches, cycles : Nat], NEW e \in Events
  PROVE  eventOutcomes(o, e) \in Waited
<1> SUFFICES ASSUME NEW r \in eventOutcomes(o, e)
             PROVE  r \in [machine : DeviceCaches, cycles : Nat]
  BY DEF Waited
<1>1. o.machine \in DeviceCaches /\ o.cycles \in Nat /\ e.cost \in Nat /\ MissPenalty \in Nat
  BY GeometryAssumption DEF Events
<1>2. CASE e.kind = "Access"
  <2>1. PICK h \in deviceAccess(o.machine, e.line) :
          r = [machine |-> h, cycles |-> o.cycles + IF deviceHit(o.machine, e.line) THEN 0 ELSE MissPenalty]
    BY <1>2 DEF eventOutcomes
  <2>2. h \in DeviceCaches
    BY <1>1, <1>2, DeviceAccessLemma DEF Events
  <2> QED
    BY <1>1, <2>1, <2>2
<1>3. CASE e.kind # "Access"
  BY <1>1, <1>3 DEF eventOutcomes
<1> QED
  BY <1>2, <1>3

LEMMA WaitType ==
  ASSUME NEW Os \in Waited, NEW e \in Events
  PROVE  wait(Os, e) \in Waited
BY OutcomeType DEF wait, Waited

(* One event: what the device is after it is described, and the cycles it  *)
(* waits are charged.                                                      *)
LEMMA EventSound ==
  ASSUME MustOnLru \/ MustOnAny, NEW acc \in Charged, NEW e \in Events,
         NEW o \in [machine : DeviceCaches, cycles : Nat],
         describes(acc.state, o.machine), o.cycles <= acc.cost,
         NEW r \in eventOutcomes(o, e)
  PROVE  describes(charge(acc, e).state, r.machine) /\ r.cycles <= charge(acc, e).cost
<1>1. /\ o.machine \in DeviceCaches /\ o.cycles \in Nat /\ e.cost \in Nat /\ MissPenalty \in Nat
      /\ acc.state \in CacheStates /\ acc.cost \in Nat
  BY GeometryAssumption DEF Events, Charged
<1>2. Kind = "Must" /\ Matched
  BY DEF MustOnLru, MustOnAny, Matched
<1>3. /\ charge(acc, e).state = eventState(acc.state, e)
      /\ charge(acc, e).cost = acc.cost + eventCost(acc.state, e)
  BY DEF charge
<1>4. CASE e.kind = "Access"
  <2>1. PICK h \in deviceAccess(o.machine, e.line) :
          r = [machine |-> h, cycles |-> o.cycles + IF deviceHit(o.machine, e.line) THEN 0 ELSE MissPenalty]
    BY <1>4 DEF eventOutcomes
  <2>2. e.line \in Lines /\ setIndex(e.line) \in Sets
    BY <1>4, SetIndexLemma DEF Events
  <2>3. describes(access(acc.state, e.line), h)
    BY <1>1, <1>2, <2>1, <2>2, AccessDescribes
  <2>4. present(acc.state, e.line) => deviceHit(o.machine, e.line)
    BY <1>2, <2>2 DEF describes, present, contains, deviceHit
  <2>5. eventCost(acc.state, e) = IF present(acc.state, e.line) THEN 0 ELSE MissPenalty
    BY <1>2, <1>4 DEF eventCost
  <2>6. eventState(acc.state, e) = access(acc.state, e.line)
    BY <1>4 DEF eventState
  <2>7. r.machine = h /\ r.cycles = o.cycles + IF deviceHit(o.machine, e.line) THEN 0 ELSE MissPenalty
    BY <2>1
  <2>8. r.cycles <= acc.cost + eventCost(acc.state, e)
    <3>1. CASE present(acc.state, e.line)
      BY <3>1, <1>1, <2>4, <2>5, <2>7
    <3>2. CASE ~ present(acc.state, e.line)
      BY <3>2, <1>1, <2>5, <2>7
    <3> QED
      BY <3>1, <3>2
  <2> QED
    BY <1>3, <2>3, <2>6, <2>7, <2>8
<1>5. CASE e.kind # "Access"
  <2>1. e.kind = "Barrier"
    BY <1>5 DEF Events
  <2>2. r.cycles = o.cycles + e.cost
    BY <1>5 DEF eventOutcomes
  <2>3. eventState(acc.state, e) = getInitialState
    BY <1>5 DEF eventState, barrier, getInitialState
  <2>4. eventCost(acc.state, e) = e.cost
    BY <1>2, <2>1 DEF eventCost
  <2> QED
    BY <1>1, <1>2, <1>3, <2>2, <2>3, <2>4, InitialDescribes
<1> QED
  BY <1>4, <1>5

(* The folds over the events, position by position.                        *)
ChargeFold(g, events, C) ==
  g = [s \in SUBSET DOMAIN events |->
         IF s = {} THEN [state |-> C, cost |-> 0] ELSE charge(g[s \ {Max(s)}], events[Max(s)])]

WaitFold(g, events, h) ==
  g = [s \in SUBSET DOMAIN events |->
         IF s = {} THEN {[machine |-> h, cycles |-> 0]} ELSE wait(g[s \ {Max(s)}], events[Max(s)])]

LEMMA ProcessIsAFold ==
  ASSUME NEW b, NEW C
  PROVE  processBlock(b, C) = (CHOOSE g : ChargeFold(g, blockEvents(b), C))[DOMAIN blockEvents(b)]
BY DEF processBlock, FoldLeft, MapThenFoldSet, ChargeFold, charge

deviceEventsOf(b) == FlattenSeq([k \in DOMAIN b |-> deviceEvents(b[k])])

LEMMA OutcomesAreAFold ==
  ASSUME NEW b, NEW h
  PROVE  blockOutcomes(b, h) = (CHOOSE g : WaitFold(g, deviceEventsOf(b), h))[DOMAIN deviceEventsOf(b)]
BY DEF blockOutcomes, FoldLeft, MapThenFoldSet, WaitFold, wait, deviceEventsOf

LEMMA ChargeFoldExists ==
  ASSUME NEW events \in Seq(Events), NEW C \in CacheStates
  PROVE  \E g : ChargeFold(g, events, C)
<1> DEFINE n == Len(events)
           step == [q \in (1 .. n) \X Charged |-> charge(q[2], events[q[1]])]
           base == [state |-> C, cost |-> 0]
<1>1. n \in Nat /\ DOMAIN events = 1 .. n /\ \A k \in 1 .. n : events[k] \in Events
  BY LenProperties, ElementOfSeq
<1>2. step \in [(1 .. n) \X Charged -> Charged]
  BY <1>1, ChargeType
<1>3. base \in Charged
  BY DEF Charged
<1>4. \A k \in 1 .. n, acc \in Charged : step[<<k, acc>>] = charge(acc, events[k])
  OBVIOUS
<1> HIDE DEF n, step, base
<1>5. PICK g : /\ g = [s \in SUBSET (1 .. n) |-> g[s]]
               /\ \A s \in SUBSET (1 .. n) :
                    /\ g[s] \in Charged
                    /\ g[s] = IF s = {} THEN base ELSE step[<<Max(s), g[s \ {Max(s)}]>>]
                    /\ s # {} => Max(s) \in 1 .. n /\ s \ {Max(s)} \in SUBSET (1 .. n)
  <2>1. PICK g : PrefixFold(g, Charged, step, base, n)
    BY <1>1, <1>2, <1>3, PrefixFoldExists
  <2> QED
    BY <2>1 DEF PrefixFold
<1>6. \A s \in SUBSET (1 .. n) : g[s] = IF s = {} THEN base ELSE charge(g[s \ {Max(s)}], events[Max(s)])
  BY <1>4, <1>5
<1>7. ChargeFold(g, events, C)
  BY <1>1, <1>5, <1>6 DEF ChargeFold, base
<1> QED
  BY <1>7

LEMMA WaitFoldExists ==
  ASSUME NEW events \in Seq(Events), NEW h \in DeviceCaches
  PROVE  \E g : WaitFold(g, events, h)
<1> DEFINE n == Len(events)
           step == [q \in (1 .. n) \X Waited |-> wait(q[2], events[q[1]])]
           base == {[machine |-> h, cycles |-> 0]}
<1>1. n \in Nat /\ DOMAIN events = 1 .. n /\ \A k \in 1 .. n : events[k] \in Events
  BY LenProperties, ElementOfSeq
<1>2. step \in [(1 .. n) \X Waited -> Waited]
  BY <1>1, WaitType
<1>3. base \in Waited
  BY DEF Waited
<1>4. \A k \in 1 .. n, Os \in Waited : step[<<k, Os>>] = wait(Os, events[k])
  OBVIOUS
<1> HIDE DEF n, step, base
<1>5. PICK g : /\ g = [s \in SUBSET (1 .. n) |-> g[s]]
               /\ \A s \in SUBSET (1 .. n) :
                    /\ g[s] \in Waited
                    /\ g[s] = IF s = {} THEN base ELSE step[<<Max(s), g[s \ {Max(s)}]>>]
                    /\ s # {} => Max(s) \in 1 .. n /\ s \ {Max(s)} \in SUBSET (1 .. n)
  <2>1. PICK g : PrefixFold(g, Waited, step, base, n)
    BY <1>1, <1>2, <1>3, PrefixFoldExists
  <2> QED
    BY <2>1 DEF PrefixFold
<1>6. \A s \in SUBSET (1 .. n) : g[s] = IF s = {} THEN base ELSE wait(g[s \ {Max(s)}], events[Max(s)])
  BY <1>4, <1>5
<1>7. WaitFold(g, events, h)
  BY <1>1, <1>5, <1>6 DEF WaitFold, base
<1> QED
  BY <1>7

(* The analysis and the device, after any number of the same events.       *)
LEMMA EventsSound ==
  ASSUME MustOnLru \/ MustOnAny, NEW events \in Seq(Events), NEW C \in CacheStates, NEW h \in DeviceCaches,
         NEW f, ChargeFold(f, events, C), NEW g, WaitFold(g, events, h)
  PROVE  /\ f[DOMAIN events] \in Charged /\ g[DOMAIN events] \in Waited
         /\ describes(C, h) =>
              \A o \in g[DOMAIN events] : /\ describes(f[DOMAIN events].state, o.machine)
                                          /\ o.cycles <= f[DOMAIN events].cost
<1> DEFINE n == Len(events)
           Kept(k) == /\ f[1 .. k] \in Charged /\ g[1 .. k] \in Waited
                      /\ describes(C, h) =>
                           \A o \in g[1 .. k] : /\ describes(f[1 .. k].state, o.machine)
                                                /\ o.cycles <= f[1 .. k].cost
           T == {k \in Nat : k <= n => Kept(k)}
<1>1. n \in Nat /\ DOMAIN events = 1 .. n /\ \A k \in 1 .. n : events[k] \in Events
  BY LenProperties, ElementOfSeq
<1>2. 0 \in T
  <2>1. 1 .. 0 = {} /\ {} \in SUBSET (1 .. n)
    OBVIOUS
  <2>2. f[1 .. 0] = [state |-> C, cost |-> 0] /\ g[1 .. 0] = {[machine |-> h, cycles |-> 0]}
    BY <1>1, <2>1 DEF ChargeFold, WaitFold
  <2> QED
    BY <2>2 DEF Charged, Waited
<1>3. ASSUME NEW k \in Nat, k \in T PROVE k + 1 \in T
  <2>1. SUFFICES ASSUME k + 1 <= n PROVE Kept(k + 1)
    OBVIOUS
  <2>2. k + 1 \in 1 .. n /\ (k + 1) - 1 = k /\ Kept(k)
    BY <1>1, <1>3, <2>1
  <2> HIDE DEF T
  <2>3. /\ 1 .. k + 1 \in SUBSET (1 .. n) /\ 1 .. k + 1 # {}
        /\ Max(1 .. k + 1) = k + 1 /\ (1 .. k + 1) \ {Max(1 .. k + 1)} = 1 .. k
    BY <1>1, <2>2, PrefixStep
  <2> DEFINE e == events[k + 1]
             acc == f[1 .. k]
             Os == g[1 .. k]
  <2>4. f[1 .. k + 1] = charge(acc, e) /\ g[1 .. k + 1] = wait(Os, e)
    BY <1>1, <2>3 DEF ChargeFold, WaitFold
  <2>5. e \in Events /\ acc \in Charged /\ Os \in Waited
    BY <1>1, <2>2
  <2>6. charge(acc, e) \in Charged /\ wait(Os, e) \in Waited
    BY <2>5, ChargeType, WaitType
  <2>7. ASSUME describes(C, h), NEW r \in wait(Os, e)
        PROVE  describes(charge(acc, e).state, r.machine) /\ r.cycles <= charge(acc, e).cost
    <3>1. PICK o \in Os : r \in eventOutcomes(o, e)
      BY DEF wait
    <3>2. o \in [machine : DeviceCaches, cycles : Nat]
      BY <2>5 DEF Waited
    <3>3. describes(acc.state, o.machine) /\ o.cycles <= acc.cost
      BY <2>2, <2>7
    <3> HIDE DEF e, acc, Os
    <3> QED
      BY <2>5, <3>1, <3>2, <3>3, EventSound
  <2> HIDE DEF e, acc, Os
  <2> QED
    BY <2>4, <2>6, <2>7
<1> HIDE DEF T
<1>4. Nat \subseteq T
  BY <1>2, <1>3, NumberInduction
<1>5. Kept(n)
  BY <1>1, <1>4 DEF T
<1> QED
  BY <1>1, <1>5

(* The device makes the events of a leaf, and no others.                   *)
LEMMA LeafEvents ==
  ASSUME NEW b, isLeaf(b)
  PROVE  deviceEventsOf(b) = blockEvents(b)
<1>1. \A k \in DOMAIN b : deviceEvents(b[k]) = mapEvents(b[k])
  BY DEF isLeaf, deviceEvents, mapEvents
<1>2. [k \in DOMAIN b |-> deviceEvents(b[k])] = [k \in DOMAIN b |-> mapEvents(b[k])]
  BY <1>1
<1> QED
  BY <1>2 DEF deviceEventsOf, blockEvents

LEMMA LeafSound ==
  ASSUME MustOnLru \/ MustOnAny, NEW b, isLeaf(b), NEW C \in CacheStates
  PROVE  /\ blockState(b, C) \in CacheStates
         /\ \A h \in DeviceCaches : describes(C, h) =>
              \A o \in blockOutcomes(b, h) : /\ o.machine \in DeviceCaches
                                             /\ describes(blockState(b, C), o.machine)
                                             /\ o.cycles <= blockCost(b, C)
<1> DEFINE events == blockEvents(b)
           f == CHOOSE g : ChargeFold(g, events, C)
<1>1. events \in Seq(Events) /\ deviceEventsOf(b) = events
  BY LeafEvents DEF isLeaf
<1>2. ChargeFold(f, events, C)
  BY <1>1, ChargeFoldExists
<1>3. blockState(b, C) = f[DOMAIN events].state /\ blockCost(b, C) = f[DOMAIN events].cost
  BY ProcessIsAFold DEF blockState, blockCost
<1> HIDE DEF f, events
<1>4. ASSUME NEW h \in DeviceCaches
      PROVE  /\ f[DOMAIN events] \in Charged
             /\ describes(C, h) =>
                  \A o \in blockOutcomes(b, h) : /\ o.machine \in DeviceCaches
                                                 /\ describes(blockState(b, C), o.machine)
                                                 /\ o.cycles <= blockCost(b, C)
  <2> DEFINE g == CHOOSE w : WaitFold(w, events, h)
  <2>1. WaitFold(g, events, h)
    BY <1>1, WaitFoldExists
  <2>2. blockOutcomes(b, h) = g[DOMAIN events]
    BY <1>1, OutcomesAreAFold
  <2> HIDE DEF g
  <2>3. /\ f[DOMAIN events] \in Charged /\ g[DOMAIN events] \in Waited
        /\ describes(C, h) =>
             \A o \in g[DOMAIN events] : /\ describes(f[DOMAIN events].state, o.machine)
                                         /\ o.cycles <= f[DOMAIN events].cost
    BY <1>1, <1>2, <2>1, EventsSound
  <2> QED
    BY <1>3, <2>2, <2>3 DEF Waited
<1>5. blockState(b, C) \in CacheStates
  BY <1>3, <1>4, EmptyDevice DEF Charged
<1> QED
  BY <1>4, <1>5

(* The join of the predecessors, in the order of std::set.                 *)
JoinFold(g, f, base, preds) ==
  g = [s \in SUBSET DOMAIN preds |->
         IF s = {} THEN base ELSE join(g[s \ {Max(s)}], f[preds[Max(s)]])]

LEMMA JoinIsAFold ==
  ASSUME NEW f
  PROVE  LET preds == ascending(DOMAIN f)
         IN  joinStates(f) = (CHOOSE g : JoinFold(g, f, f[Head(preds)], Tail(preds)))[DOMAIN Tail(preds)]
BY DEF joinStates, FoldLeft, MapThenFoldSet, JoinFold

LEMMA JoinFoldExists ==
  ASSUME NEW D, NEW f \in [D -> CacheStates], NEW base \in CacheStates, NEW preds \in Seq(D)
  PROVE  \E g : JoinFold(g, f, base, preds)
<1> DEFINE n == Len(preds)
           step == [q \in (1 .. n) \X CacheStates |-> join(q[2], f[preds[q[1]]])]
<1>1. n \in Nat /\ DOMAIN preds = 1 .. n /\ \A k \in 1 .. n : preds[k] \in D
  BY LenProperties, ElementOfSeq
<1>2. step \in [(1 .. n) \X CacheStates -> CacheStates]
  BY <1>1, MergeType
<1>3. \A k \in 1 .. n, C \in CacheStates : step[<<k, C>>] = join(C, f[preds[k]])
  OBVIOUS
<1> HIDE DEF n, step
<1>4. PICK g : /\ g = [s \in SUBSET (1 .. n) |-> g[s]]
               /\ \A s \in SUBSET (1 .. n) :
                    /\ g[s] \in CacheStates
                    /\ g[s] = IF s = {} THEN base ELSE step[<<Max(s), g[s \ {Max(s)}]>>]
                    /\ s # {} => Max(s) \in 1 .. n /\ s \ {Max(s)} \in SUBSET (1 .. n)
  <2>1. PICK g : PrefixFold(g, CacheStates, step, base, n)
    BY <1>1, <1>2, PrefixFoldExists
  <2> QED
    BY <2>1 DEF PrefixFold
<1>5. \A s \in SUBSET (1 .. n) : g[s] = IF s = {} THEN base ELSE join(g[s \ {Max(s)}], f[preds[Max(s)]])
  BY <1>3, <1>4
<1>6. JoinFold(g, f, base, preds)
  BY <1>1, <1>4, <1>5 DEF JoinFold
<1> QED
  BY <1>6

(* What describes a device before a join does so after it, be it the state *)
(* joined into or the one that joins.                                      *)
LEMMA JoinsSound ==
  ASSUME MustOnLru \/ MustOnAny,
         NEW D, NEW f \in [D -> CacheStates], NEW base \in CacheStates, NEW preds \in Seq(D),
         NEW g, JoinFold(g, f, base, preds), NEW h \in DeviceCaches
  PROVE  /\ g[DOMAIN preds] \in CacheStates
         /\ describes(base, h) \/ (\E k \in DOMAIN preds : describes(f[preds[k]], h)) =>
              describes(g[DOMAIN preds], h)
<1> DEFINE n == Len(preds)
           Kept(k) == /\ g[1 .. k] \in CacheStates
                      /\ describes(base, h) \/ (\E j \in 1 .. k : describes(f[preds[j]], h)) =>
                           describes(g[1 .. k], h)
           T == {k \in Nat : k <= n => Kept(k)}
<1>0. Matched
  BY DEF MustOnLru, MustOnAny, Matched
<1>1. n \in Nat /\ DOMAIN preds = 1 .. n /\ \A k \in 1 .. n : preds[k] \in D
  BY LenProperties, ElementOfSeq
<1>2. 0 \in T
  <2>1. 1 .. 0 = {} /\ {} \in SUBSET (1 .. n)
    OBVIOUS
  <2>2. g[1 .. 0] = base
    BY <1>1, <2>1 DEF JoinFold
  <2> QED
    BY <2>1, <2>2
<1>3. ASSUME NEW k \in Nat, k \in T PROVE k + 1 \in T
  <2>1. SUFFICES ASSUME k + 1 <= n PROVE Kept(k + 1)
    OBVIOUS
  <2>2. k + 1 \in 1 .. n /\ (k + 1) - 1 = k /\ Kept(k)
    BY <1>1, <1>3, <2>1
  <2> HIDE DEF T
  <2>3. /\ 1 .. k + 1 \in SUBSET (1 .. n) /\ 1 .. k + 1 # {}
        /\ Max(1 .. k + 1) = k + 1 /\ (1 .. k + 1) \ {Max(1 .. k + 1)} = 1 .. k
    BY <1>1, <2>2, PrefixStep
  <2> DEFINE C == g[1 .. k]
             E == f[preds[k + 1]]
  <2>4. g[1 .. k + 1] = join(C, E)
    BY <1>1, <2>3 DEF JoinFold
  <2>5. C \in CacheStates /\ E \in CacheStates
    BY <1>1, <2>2
  <2>6. join(C, E) \in CacheStates
    BY <2>5, MergeType
  <2>7. describes(C, h) \/ describes(E, h) => describes(join(C, E), h)
    <3> HIDE DEF C, E
    <3> QED
      BY <1>0, <2>5, MergeDescribes
  <2>8. \A j \in 1 .. k + 1 : j \in 1 .. k \/ j = k + 1
    OBVIOUS
  <2>9. (\E j \in 1 .. k + 1 : describes(f[preds[j]], h)) =>
          (\E j \in 1 .. k : describes(f[preds[j]], h)) \/ describes(E, h)
    BY <2>8
  <2> QED
    BY <2>2, <2>4, <2>6, <2>7, <2>9
<1> HIDE DEF T
<1>4. Nat \subseteq T
  BY <1>2, <1>3, NumberInduction
<1>5. Kept(n)
  BY <1>1, <1>4 DEF T
<1> QED
  BY <1>1, <1>5

LEMMA CacheJoinSound ==
  ASSUME MustOnLru \/ MustOnAny, IsCacheAnalysis,
         NEW D \in (SUBSET Node) \ {{}}, NEW f \in [D -> CacheStates]
  PROVE  /\ joinStates(f) \in CacheStates
         /\ \A p \in D, h \in DeviceCaches : describes(f[p], h) => describes(joinStates(f), h)
<1> DEFINE preds == ascending(D)
           base == f[Head(preds)]
           rest == Tail(preds)
           g == CHOOSE w : JoinFold(w, f, base, rest)
<1>1. preds \in Seq(Node) /\ elements(preds) = D
  BY OrderAssumption DEF IsCacheAnalysis, elements
<1>2. preds \in Seq(D) /\ preds # << >>
  <2>1. Len(preds) \in Nat /\ DOMAIN preds = 1 .. Len(preds) /\ preds = [k \in 1 .. Len(preds) |-> preds[k]]
    BY <1>1, LenProperties
  <2>2. \A k \in 1 .. Len(preds) : preds[k] \in D
    BY <1>1, <2>1 DEF elements
  <2>3. preds # << >>
    BY <1>1 DEF elements
  <2> HIDE DEF preds
  <2> QED
    BY <2>1, <2>2, <2>3, SeqDef
<1>3. /\ Head(preds) \in D /\ rest \in Seq(D) /\ Head(preds) = preds[1]
      /\ \A p \in D : p = Head(preds) \/ \E k \in DOMAIN rest : rest[k] = p
  <2>1. /\ Head(preds) = preds[1] /\ Head(preds) \in D /\ rest \in Seq(D) /\ Len(rest) = Len(preds) - 1
        /\ \A i \in 1 .. Len(rest) : rest[i] = preds[i + 1]
    BY <1>2, HeadTailProperties
  <2>2. DOMAIN preds = 1 .. Len(preds) /\ DOMAIN rest = 1 .. Len(rest) /\ Len(preds) \in Nat
    BY <1>2, <2>1, LenProperties
  <2> HIDE DEF preds, rest
  <2>3. ASSUME NEW p \in D PROVE p = Head(preds) \/ \E k \in DOMAIN rest : rest[k] = p
    <3>1. PICK i \in 1 .. Len(preds) : preds[i] = p
      BY <1>1, <2>2 DEF elements
    <3>2. CASE i = 1
      BY <2>1, <3>1, <3>2
    <3>3. CASE i # 1
      <4>1. i - 1 \in 1 .. Len(rest) /\ (i - 1) + 1 = i
        BY <2>1, <2>2, <3>3
      <4> QED
        BY <2>1, <2>2, <3>1, <4>1
    <3> QED
      BY <3>2, <3>3
  <2> QED
    BY <2>1, <2>3
<1>4. base \in CacheStates /\ DOMAIN f = D
  BY <1>3
<1>5. joinStates(f) = g[DOMAIN rest]
  BY <1>4, JoinIsAFold
<1> HIDE DEF rest, base, preds
<1>6. JoinFold(g, f, base, rest)
  BY <1>3, <1>4, JoinFoldExists
<1> HIDE DEF g
<1>7. ASSUME NEW h \in DeviceCaches
      PROVE  /\ g[DOMAIN rest] \in CacheStates
             /\ describes(base, h) \/ (\E k \in DOMAIN rest : describes(f[rest[k]], h)) =>
                  describes(g[DOMAIN rest], h)
  BY <1>3, <1>4, <1>6, JoinsSound
<1>8. g[DOMAIN rest] \in CacheStates
  BY <1>7, EmptyDevice
<1>9. ASSUME NEW p \in D, NEW h \in DeviceCaches, describes(f[p], h)
      PROVE  describes(g[DOMAIN rest], h)
  <2>1. base = f[Head(preds)]
    BY DEF base
  <2> QED
    BY <1>3, <1>7, <1>9, <2>1
<1> QED
  BY <1>5, <1>8, <1>9

(* The cache analysis owes the solver nothing more.                        *)
LEMMA CacheAnalysisSound ==
  ASSUME MustOnLru \/ MustOnAny, IsCacheAnalysis, BlocksAreLeaves
  PROVE  LocallySound(CacheStates)
<1>1. InitialSound(CacheStates)
  <2>1. Kind = "Must"
    BY DEF MustOnLru, MustOnAny
  <2>2. \A h \in DeviceCaches : describes(getInitialState, h)
    BY <2>1, InitialDescribes
  <2> QED
    BY <2>2, EmptyState DEF InitialSound, IsCacheAnalysis
<1>2. BlockSound(CacheStates)
  <2> SUFFICES ASSUME NEW b \in Contents, NEW s \in CacheStates
               PROVE  /\ Transfer(b, s) \in CacheStates
                      /\ \A c \in Machine : Describes(s, c) =>
                           \A o \in Outcomes(b, c) : /\ o.machine \in Machine
                                                     /\ Describes(Transfer(b, s), o.machine)
                                                     /\ o.cycles <= BlockCost(b, s)
    BY DEF BlockSound
  <2>1. /\ blockState(b, s) \in CacheStates
        /\ \A h \in DeviceCaches : describes(s, h) =>
             \A o \in blockOutcomes(b, h) : /\ o.machine \in DeviceCaches
                                            /\ describes(blockState(b, s), o.machine)
                                            /\ o.cycles <= blockCost(b, s)
    BY LeafSound DEF BlocksAreLeaves
  <2>2. Transfer(b, s) = blockState(b, s) /\ BlockCost(b, s) = blockCost(b, s) /\ Machine = DeviceCaches
    BY DEF IsCacheAnalysis
  <2>3. \A h \in DeviceCaches : Outcomes(b, h) = blockOutcomes(b, h) /\ (Describes(s, h) <=> describes(s, h))
    BY DEF IsCacheAnalysis
  <2>4. \A h \in DeviceCaches : describes(blockState(b, s), h) => Describes(blockState(b, s), h)
    BY <2>1 DEF IsCacheAnalysis
  <2> QED
    BY <2>1, <2>2, <2>3, <2>4
<1>3. JoinSound(CacheStates)
  <2> SUFFICES ASSUME NEW f \in PredMaps(CacheStates)
               PROVE  /\ JoinPreds(f) \in CacheStates
                      /\ \A p \in DOMAIN f, c \in Machine : Describes(f[p], c) => Describes(JoinPreds(f), c)
    BY DEF JoinSound
  <2>1. PICK D \in (SUBSET Node) \ {{}} : f \in [D -> CacheStates]
    BY DEF PredMaps
  <2>2. /\ joinStates(f) \in CacheStates
        /\ \A p \in D, h \in DeviceCaches : describes(f[p], h) => describes(joinStates(f), h)
    BY <2>1, CacheJoinSound
  <2>3. JoinPreds(f) = joinStates(f) /\ Machine = DeviceCaches /\ DOMAIN f = D /\ \A p \in D : f[p] \in CacheStates
    BY <2>1 DEF IsCacheAnalysis
  <2>4. \A C \in CacheStates, h \in DeviceCaches : Describes(C, h) <=> describes(C, h)
    BY DEF IsCacheAnalysis
  <2> QED
    BY <2>2, <2>3, <2>4
<1> QED
  BY <1>1, <1>2, <1>3 DEF LocallySound

(* Every block and every join of a function that calls nothing is sound,   *)
(* under LRU on an LRU device and under the default policy on any device,  *)
(* whatever the geometry, the instructions and the graph are.              *)
THEOREM CacheIsLocallySound ==
  ASSUME MustOnLru \/ MustOnAny, IsCacheAnalysis, BlocksAreLeaves, EntryHasNoPredecessor
  PROVE  SSpec => []CacheLocallySound
<1>1. CacheLocallySound
  BY CacheAnalysisSound DEF CacheLocallySound
<1> QED
  BY <1>1, PTL

(* So the penalty of every block that was processed covers its fetches and *)
(* its data in every execution, and the state stored for it describes the  *)
(* cache it leaves: nothing about the analysis is left to be assumed.      *)
THEOREM CacheCostsCover ==
  ASSUME MustOnLru \/ MustOnAny, IsCacheAnalysis, BlocksAreLeaves, EntryHasNoPredecessor
  PROVE  SSpec => [](OutStateDescribes /\ ProcessedBlockIsCovered)
<1> DEFINE S == CacheStates
<1>1. LocallySound(S)
  BY CacheAnalysisSound
<1> HIDE DEF S
<1>2. SSpec => []OutStateDescribes
  BY <1>1, OutStatesDescribe
<1>3. SSpec => []ProcessedBlockIsCovered
  BY <1>1, CostsCover
<1> QED
  BY <1>2, <1>3, PTL
=============================================================================
