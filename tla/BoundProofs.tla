----------------------------- MODULE BoundProofs -----------------------------
(***************************************************************************)
(* Proofs about the bounds: what the pragmas and the analyses of LLVM know    *)
(* of a program becomes the bounds of the integer program, these are of the   *)
(* loops and cycles they were given for, and they leave no circulation free.  *)
(*                                                                         *)
(* The inductive invariant is BoundInv: what the loop bound pass has found are *)
(* bounds of loops (FoundFor), the graph while it is filled has the back edges *)
(* of these with their bounds (LoopsIn), and so has the finalised graph, with  *)
(* the calls that close a recursion (FinalLoops).                           *)
(***************************************************************************)
EXTENDS PathILPProofs

-----------------------------------------------------------------------------
(***************************************************************************)
(* The depth first search of findSCCBackEdges, step by step.                 *)
(***************************************************************************)
nextIn(scc, adj, f) == {g \in scc : <<f, g>> \in adj}
first(rank, S) == CHOOSE f \in S : \A g \in S : rank[f] <= rank[g]
Searches(scc) == [stack : Seq(scc), seen : SUBSET scc, back : SUBSET (scc \X scc)]
unseen(scc, entries, adj, s) ==
  IF s.stack # << >> THEN nextIn(scc, adj, Head(s.stack)) \ s.seen
  ELSE IF entries \subseteq s.seen THEN scc \ s.seen ELSE entries \ s.seen
visits(scc, adj, s, f) ==
  [stack |-> <<f>> \o s.stack,
   seen |-> s.seen \cup {f},
   back |-> s.back \cup ({f} \X (nextIn(scc, adj, f) \cap (Range(s.stack) \cup {f})))]
leaves(s) == [s EXCEPT !.stack = IF @ = << >> THEN @ ELSE Tail(@)]
searchStep(scc, entries, adj, rank, s) ==
  IF unseen(scc, entries, adj, s) # {} THEN visits(scc, adj, s, first(rank, unseen(scc, entries, adj, s)))
  ELSE leaves(s)
unsearched == [stack |-> << >>, seen |-> {}, back |-> {}]

IsTrace(scc, entries, adj, rank, run) ==
  run = [n \in 0 .. 2 * Cardinality(scc) |->
           IF n = 0 THEN unsearched ELSE searchStep(scc, entries, adj, rank, run[n - 1])]

\* A function defined by its value for the number before.
Iterates(r, base, step, N) == r = [n \in 0 .. N |-> IF n = 0 THEN base ELSE step[r[n - 1]]]

LEMMA IterationExists ==
  ASSUME NEW base, NEW step, NEW N \in Nat
  PROVE  \E r : Iterates(r, base, step, N)
<1> USE DEF Iterates
<1> DEFINE T == {M \in Nat : \E r : r = [n \in 0 .. M |-> IF n = 0 THEN base ELSE step[r[n - 1]]]}
<1>1. 0 \in T
  <2> DEFINE r == [n \in 0 .. 0 |-> base]
  <2>1. r = [n \in 0 .. 0 |-> IF n = 0 THEN base ELSE step[r[n - 1]]]
    OBVIOUS
  <2> QED BY <2>1
<1>2. ASSUME NEW M \in Nat, M \in T PROVE M + 1 \in T
  <2>1. PICK r : r = [n \in 0 .. M |-> IF n = 0 THEN base ELSE step[r[n - 1]]]
    BY <1>2
  <2> DEFINE q == [n \in 0 .. M + 1 |-> IF n = M + 1 THEN step[r[M]] ELSE r[n]]
  <2>2. ASSUME NEW n \in 0 .. M + 1 PROVE q[n] = IF n = 0 THEN base ELSE step[q[n - 1]]
    <3>1. CASE n = M + 1
      <4>1. n - 1 = M /\ M \in 0 .. M + 1 /\ M # M + 1 /\ n # 0
        BY <3>1
      <4>2. q[M] = r[M] /\ q[n] = step[r[M]]
        BY <3>1, <4>1
      <4> QED BY <4>1, <4>2
    <3>2. CASE n = 0
      <4>1. n # M + 1 /\ n \in 0 .. M
        BY <3>2
      <4> QED BY <2>1, <3>2, <4>1
    <3>3. CASE n # 0 /\ n # M + 1
      <4>1. n \in 0 .. M /\ n - 1 \in 0 .. M + 1 /\ n - 1 # M + 1 /\ n - 1 \in 0 .. M
        BY <3>3
      <4>2. r[n] = step[r[n - 1]]
        BY <2>1, <3>3, <4>1
      <4> QED BY <3>3, <4>1, <4>2
    <3> QED BY <3>1, <3>2, <3>3
  <2>3. q = [n \in 0 .. M + 1 |-> IF n = 0 THEN base ELSE step[q[n - 1]]]
    <3>1. q = [n \in 0 .. M + 1 |-> q[n]]
      OBVIOUS
    <3> HIDE DEF q
    <3> QED BY <2>2, <3>1
  <2> HIDE DEF q
  <2> QED BY <2>3
<1>3. Nat \subseteq T
  <2> HIDE DEF T
  <2> QED BY <1>1, <1>2, NumberInduction
<1> QED BY <1>3

\* An order of nodes gives every set of them a first one.
Ranks(rank, D) == \A v \in D : rank[v] \in Nat

LEMMA FirstIsChosen ==
  ASSUME NEW D, NEW rank, Ranks(rank, D), NEW S \in SUBSET D, S # {}
  PROVE  first(rank, S) \in S
<1> DEFINE K == {rank[f] : f \in S}
<1>1. K \subseteq Nat /\ K # {}
  BY DEF Ranks
<1>2. PICK m \in K : \A k \in K : m <= k
  BY <1>1, LeastNatural
<1>3. PICK f \in S : m = rank[f]
  BY <1>2
<1>4. \A g \in S : rank[f] <= rank[g]
  BY <1>2, <1>3
<1> QED BY <1>4 DEF first

\* Every step of the search is one, and its result is what the last one leaves.
LEMMA SearchSteps ==
  ASSUME NEW scc, NEW entries \in SUBSET scc, NEW adj, NEW rank, Ranks(rank, scc), NEW s \in Searches(scc)
  PROVE  /\ unseen(scc, entries, adj, s) \subseteq scc
         /\ \A f \in scc : visits(scc, adj, s, f) \in Searches(scc)
         /\ leaves(s) \in Searches(scc)
         /\ searchStep(scc, entries, adj, rank, s) \in Searches(scc)
<1>1. s.stack \in Seq(scc) /\ s.seen \subseteq scc /\ s.back \subseteq scc \X scc
  BY DEF Searches
<1>2. unseen(scc, entries, adj, s) \subseteq scc
  BY DEF unseen, nextIn
<1>3. ASSUME NEW f \in scc PROVE visits(scc, adj, s, f) \in Searches(scc)
  <2>1. <<f>> \o s.stack \in Seq(scc)
    BY <1>1
  <2>2. {f} \X (nextIn(scc, adj, f) \cap (Range(s.stack) \cup {f})) \subseteq scc \X scc
    BY DEF nextIn
  <2> QED BY <1>1, <2>1, <2>2 DEF visits, Searches
<1>4. leaves(s) \in Searches(scc)
  <2>1. s = [stack |-> s.stack, seen |-> s.seen, back |-> s.back]
    BY DEF Searches
  <2>2. leaves(s) = [stack |-> IF s.stack = << >> THEN s.stack ELSE Tail(s.stack),
                     seen |-> s.seen, back |-> s.back]
    <3> DEFINE v == IF s.stack = << >> THEN s.stack ELSE Tail(s.stack)
    <3>1. leaves(s) = [s EXCEPT !.stack = v]
      BY DEF leaves
    <3> HIDE DEF v
    <3>2. leaves(s) = [stack |-> v, seen |-> s.seen, back |-> s.back]
      BY <2>1, <3>1
    <3> QED BY <3>2 DEF v
  <2>3. s.stack # << >> => Tail(s.stack) \in Seq(scc)
    BY <1>1
  <2> QED BY <1>1, <2>2, <2>3 DEF Searches
<1>5. unseen(scc, entries, adj, s) # {} => first(rank, unseen(scc, entries, adj, s)) \in scc
  BY <1>2, FirstIsChosen
<1> QED BY <1>2, <1>3, <1>4, <1>5 DEF searchStep

LEMMA SearchIsATrace ==
  ASSUME NEW scc, IsFiniteSet(scc), NEW entries \in SUBSET scc, NEW adj, NEW rank, Ranks(rank, scc)
  PROVE  \E run : /\ IsTrace(scc, entries, adj, rank, run)
                  /\ findSCCBackEdges(scc, entries, adj, rank) = run[2 * Cardinality(scc)].back
<1> DEFINE N == 2 * Cardinality(scc)
           A == Searches(scc)
           f == [s \in A |-> searchStep(scc, entries, adj, rank, s)]
<1>1. N \in Nat
  BY FS_CardinalityType
<1>2. unsearched \in A
  BY DEF unsearched, Searches
<1>3. \A s \in A : searchStep(scc, entries, adj, rank, s) \in A
  BY SearchSteps
<1>4. PICK r : r = [n \in 0 .. N |-> IF n = 0 THEN unsearched ELSE f[r[n - 1]]]
  <2> HIDE DEF f, N
  <2>1. \E r : Iterates(r, unsearched, f, N)
    BY <1>1, IterationExists
  <2> QED BY <2>1 DEF Iterates
<1>5. \A n \in 0 .. N : r[n] \in A
  <2> DEFINE T == {n \in Nat : n \in 0 .. N => r[n] \in A}
  <2>1. 0 \in T
    BY <1>1, <1>2, <1>4
  <2>2. ASSUME NEW n \in Nat, n \in T PROVE n + 1 \in T
    <3> SUFFICES ASSUME n + 1 \in 0 .. N PROVE r[n + 1] \in A
      OBVIOUS
    <3>1. n \in 0 .. N /\ (n + 1) - 1 = n /\ n + 1 # 0
      BY <1>1
    <3>2. r[n] \in A
      BY <2>2, <3>1
    <3>3. r[n + 1] = f[r[n]]
      BY <1>4, <3>1
    <3> QED BY <1>3, <3>2, <3>3
  <2>3. Nat \subseteq T
    <3> HIDE DEF T
    <3> QED BY <2>1, <2>2, NumberInduction
  <2> QED BY <1>1, <2>3
<1>6. IsTrace(scc, entries, adj, rank, r)
  <2>1. ASSUME NEW n \in 0 .. N
        PROVE  r[n] = IF n = 0 THEN unsearched ELSE searchStep(scc, entries, adj, rank, r[n - 1])
    <3>1. CASE n = 0
      BY <1>4, <3>1
    <3>2. CASE n # 0
      <4>1. n - 1 \in 0 .. N
        BY <1>1, <3>2
      <4> QED BY <1>4, <1>5, <3>2, <4>1
    <3> QED BY <3>1, <3>2
  <2>2. r = [n \in 0 .. N |-> r[n]]
    BY <1>4
  <2> HIDE DEF N
  <2>3. r = [n \in 0 .. N |-> IF n = 0 THEN unsearched ELSE searchStep(scc, entries, adj, rank, r[n - 1])]
    BY <2>1, <2>2
  <2> QED BY <2>3 DEF IsTrace, N
<1> DEFINE c == CHOOSE run : IsTrace(scc, entries, adj, rank, run)
<1>7. IsTrace(scc, entries, adj, rank, c)
  BY <1>6
<1>8. findSCCBackEdges(scc, entries, adj, rank) = c[2 * Cardinality(scc)].back
  BY DEF findSCCBackEdges, IsTrace, searchStep, unsearched, unseen, visits, leaves, nextIn, first
<1> QED BY <1>7, <1>8

-----------------------------------------------------------------------------
(***************************************************************************)
(* At any time the nodes on the stack are different and each is reached from  *)
(* those below it, so an edge that is found goes back to where its source    *)
(* can be reached from.                                                     *)
(***************************************************************************)
SearchInv(scc, adj, s) ==
  /\ s \in Searches(scc)
  /\ \A i \in 1 .. Len(s.stack) : s.stack[i] \in s.seen
  /\ \A i, j \in 1 .. Len(s.stack) : s.stack[i] = s.stack[j] => i = j
  /\ \A i, j \in 1 .. Len(s.stack) : i <= j => s.stack[i] \in closure(s.stack[j], among(adj, scc), scc)
  /\ \A e \in s.back : e \in adj /\ e[1] \in closure(e[2], among(adj, scc), scc)

\* A node on top of the stack.
LEMMA Pushed ==
  ASSUME NEW T, NEW q \in Seq(T), NEW f \in T
  PROVE  /\ <<f>> \o q \in Seq(T) /\ Len(<<f>> \o q) = Len(q) + 1 /\ Len(q) \in Nat
         /\ (<<f>> \o q)[1] = f
         /\ \A i \in 2 .. Len(q) + 1 : i - 1 \in 1 .. Len(q) /\ (<<f>> \o q)[i] = q[i - 1]
OBVIOUS

LEMMA Popped ==
  ASSUME NEW T, NEW q \in Seq(T), q # << >>
  PROVE  /\ Tail(q) \in Seq(T) /\ Len(Tail(q)) = Len(q) - 1 /\ Len(q) \in Nat \ {0} /\ Head(q) = q[1]
         /\ \A i \in 1 .. Len(q) - 1 : i + 1 \in 1 .. Len(q) /\ Tail(q)[i] = q[i + 1]
OBVIOUS

\* A node that is visited is reached from all nodes on the stack.
LEMMA VisitedFromStack ==
  ASSUME NEW scc, NEW entries \in SUBSET scc, NEW adj, NEW s, SearchInv(scc, adj, s),
         NEW f \in unseen(scc, entries, adj, s)
  PROVE  f \in scc /\ f \notin s.seen /\ \A j \in 1 .. Len(s.stack) : f \in closure(s.stack[j], among(adj, scc), scc)
<1>1. s.stack \in Seq(scc)
  BY DEF SearchInv, Searches
<1>2. f \in scc /\ f \notin s.seen
  BY DEF unseen, nextIn
<1>3. ASSUME NEW j \in 1 .. Len(s.stack) PROVE f \in closure(s.stack[j], among(adj, scc), scc)
  <2>1. s.stack # << >> /\ 1 \in 1 .. Len(s.stack) /\ Head(s.stack) = s.stack[1] /\ 1 <= j
    BY <1>1
  <2>2. s.stack[1] \in closure(s.stack[j], among(adj, scc), scc)
    BY <2>1 DEF SearchInv
  <2>3. <<s.stack[1], f>> \in among(adj, scc)
    BY <1>1, <1>2, <2>1 DEF unseen, nextIn, among
  <2> QED BY <1>2, <2>2, <2>3, ClosureStep
<1> QED BY <1>2, <1>3

LEMMA VisitKeepsInv ==
  ASSUME NEW scc, NEW entries \in SUBSET scc, NEW adj, NEW s, SearchInv(scc, adj, s),
         NEW f \in unseen(scc, entries, adj, s)
  PROVE  SearchInv(scc, adj, visits(scc, adj, s, f))
<1> DEFINE t == visits(scc, adj, s, f)
           q == s.stack
<1>1. s \in Searches(scc) /\ q \in Seq(scc) /\ Len(q) \in Nat
  BY DEF SearchInv, Searches
<1>2. f \in scc /\ f \notin s.seen /\ \A j \in 1 .. Len(q) : f \in closure(q[j], among(adj, scc), scc)
  BY VisitedFromStack
<1>3. /\ t.stack = <<f>> \o q /\ t.seen = s.seen \cup {f}
      /\ t.back = s.back \cup ({f} \X (nextIn(scc, adj, f) \cap (Range(q) \cup {f})))
  BY DEF visits
<1>4. t \in Searches(scc)
  <2>1. <<f>> \o q \in Seq(scc)
    BY <1>1, <1>2, Pushed
  <2>2. {f} \X (nextIn(scc, adj, f) \cap (Range(q) \cup {f})) \subseteq scc \X scc
    BY <1>2 DEF nextIn
  <2> QED BY <1>1, <1>2, <2>1, <2>2 DEF visits, Searches
<1> HIDE DEF t
<1>5. /\ Len(t.stack) = Len(q) + 1 /\ t.stack[1] = f
      /\ \A i \in 2 .. Len(q) + 1 : i - 1 \in 1 .. Len(q) /\ t.stack[i] = q[i - 1]
  BY <1>1, <1>2, <1>3, Pushed
<1>6. f \in closure(f, among(adj, scc), scc)
  BY <1>2, ClosureRoot
<1>7. ASSUME NEW i \in 1 .. Len(t.stack) PROVE t.stack[i] \in t.seen
  BY <1>1, <1>3, <1>5, <1>7 DEF SearchInv
<1>8. ASSUME NEW i \in 1 .. Len(t.stack), NEW j \in 1 .. Len(t.stack), t.stack[i] = t.stack[j]
      PROVE  i = j
  <2>1. i \in 2 .. Len(q) + 1 \/ i = 1
    BY <1>1, <1>5
  <2>2. j \in 2 .. Len(q) + 1 \/ j = 1
    BY <1>1, <1>5
  <2>3. \A k \in 1 .. Len(q) : q[k] # f
    BY <1>2 DEF SearchInv
  <2>4. CASE i # 1 /\ j # 1
    <3>1. i - 1 = j - 1
      BY <1>5, <1>8, <2>1, <2>2, <2>4 DEF SearchInv
    <3> QED BY <3>1
  <2> QED BY <1>5, <1>8, <2>1, <2>2, <2>3, <2>4
<1>9. ASSUME NEW i \in 1 .. Len(t.stack), NEW j \in 1 .. Len(t.stack), i <= j
      PROVE  t.stack[i] \in closure(t.stack[j], among(adj, scc), scc)
  <2>1. CASE j = 1
    BY <1>5, <1>6, <1>9, <2>1
  <2>2. CASE j # 1 /\ i = 1
    BY <1>1, <1>2, <1>5, <2>2
  <2>3. CASE j # 1 /\ i # 1
    <3>1. i \in 2 .. Len(q) + 1 /\ j \in 2 .. Len(q) + 1
      BY <1>1, <1>5, <2>3
    <3>2. i - 1 \in 1 .. Len(q) /\ j - 1 \in 1 .. Len(q) /\ i - 1 <= j - 1
      BY <1>5, <1>9, <3>1
    <3>3. t.stack[i] = q[i - 1] /\ t.stack[j] = q[j - 1]
      BY <1>5, <3>1
    <3> QED BY <3>2, <3>3 DEF SearchInv
  <2> QED BY <2>1, <2>2, <2>3
<1>10. ASSUME NEW e \in t.back PROVE e \in adj /\ e[1] \in closure(e[2], among(adj, scc), scc)
  <2>1. CASE e \in s.back
    BY <2>1 DEF SearchInv
  <2>2. CASE e \in {f} \X (nextIn(scc, adj, f) \cap (Range(q) \cup {f}))
    <3>1. e = <<f, e[2]>> /\ e[1] = f /\ e \in adj /\ e[2] \in Range(q) \cup {f}
      BY <2>2 DEF nextIn
    <3>2. CASE e[2] = f
      BY <1>6, <3>1, <3>2
    <3>3. CASE e[2] \in Range(q)
      <4>1. PICK k \in 1 .. Len(q) : e[2] = q[k]
        BY <1>1, <3>3 DEF Range
      <4> QED BY <1>2, <3>1, <4>1
    <3> QED BY <3>1, <3>2, <3>3
  <2> QED BY <1>3, <2>1, <2>2
<1> QED BY <1>4, <1>7, <1>8, <1>9, <1>10 DEF SearchInv, t

LEMMA LeaveKeepsInv ==
  ASSUME NEW scc, NEW adj, NEW s, SearchInv(scc, adj, s)
  PROVE  SearchInv(scc, adj, leaves(s)) /\ leaves(s).seen = s.seen /\ leaves(s).back = s.back
         /\ leaves(s).stack = IF s.stack = << >> THEN s.stack ELSE Tail(s.stack)
<1> DEFINE t == leaves(s)
           q == s.stack
           v == IF q = << >> THEN q ELSE Tail(q)
<1>1. s \in Searches(scc) /\ q \in Seq(scc) /\ s = [stack |-> s.stack, seen |-> s.seen, back |-> s.back]
  BY DEF SearchInv, Searches
<1>2. t.seen = s.seen /\ t.back = s.back /\ t.stack = v
  <2>1. t = [s EXCEPT !.stack = v]
    BY DEF leaves
  <2> HIDE DEF v, t
  <2> QED BY <1>1, <2>1
<1>3. t \in Searches(scc)
  <2>1. t = [s EXCEPT !.stack = v]
    BY DEF leaves
  <2>2. v \in Seq(scc)
    BY <1>1
  <2> HIDE DEF v, t
  <2>3. t = [stack |-> v, seen |-> s.seen, back |-> s.back]
    BY <1>1, <2>1
  <2> QED BY <1>1, <2>2, <2>3 DEF Searches
<1> HIDE DEF t
<1>4. CASE q = << >>
  BY <1>2, <1>3, <1>4 DEF SearchInv, t
<1>5. CASE q # << >>
  <2>1. /\ Len(t.stack) = Len(q) - 1 /\ Len(q) \in Nat
        /\ \A i \in 1 .. Len(q) - 1 : i + 1 \in 1 .. Len(q) /\ t.stack[i] = q[i + 1]
    BY <1>1, <1>2, <1>5, Popped
  <2>2. \A i \in 1 .. Len(t.stack) : t.stack[i] \in t.seen
    BY <1>2, <2>1 DEF SearchInv
  <2>3. ASSUME NEW i \in 1 .. Len(t.stack), NEW j \in 1 .. Len(t.stack)
        PROVE  /\ t.stack[i] = t.stack[j] => i = j
               /\ i <= j => t.stack[i] \in closure(t.stack[j], among(adj, scc), scc)
    <3>1. i + 1 \in 1 .. Len(q) /\ j + 1 \in 1 .. Len(q) /\ t.stack[i] = q[i + 1] /\ t.stack[j] = q[j + 1]
      BY <2>1
    <3>2. t.stack[i] = t.stack[j] => i + 1 = j + 1
      BY <3>1 DEF SearchInv
    <3>3. i + 1 <= j + 1 => t.stack[i] \in closure(t.stack[j], among(adj, scc), scc)
      BY <3>1 DEF SearchInv
    <3> QED BY <2>1, <3>2, <3>3
  <2>4. \A e \in t.back : e \in adj /\ e[1] \in closure(e[2], among(adj, scc), scc)
    BY <1>2 DEF SearchInv
  <2>5. SearchInv(scc, adj, t)
    BY <1>3, <2>2, <2>3, <2>4 DEF SearchInv, t
  <2> QED BY <1>2, <2>5 DEF t
<1> QED BY <1>4, <1>5

LEMMA SearchKeepsInv ==
  ASSUME NEW scc, NEW entries \in SUBSET scc, NEW adj, NEW rank, Ranks(rank, scc), NEW s, SearchInv(scc, adj, s)
  PROVE  SearchInv(scc, adj, searchStep(scc, entries, adj, rank, s))
<1>1. s \in Searches(scc)
  BY DEF SearchInv
<1>2. CASE unseen(scc, entries, adj, s) # {}
  <2>1. first(rank, unseen(scc, entries, adj, s)) \in unseen(scc, entries, adj, s)
    <3> DEFINE U == unseen(scc, entries, adj, s)
    <3>1. U \in SUBSET scc /\ U # {}
      BY <1>1, <1>2, SearchSteps
    <3> HIDE DEF U
    <3>2. first(rank, U) \in U
      BY <3>1, FirstIsChosen
    <3> QED BY <3>2 DEF U
  <2> QED BY <1>2, <2>1, VisitKeepsInv DEF searchStep
<1>3. CASE unseen(scc, entries, adj, s) = {}
  BY <1>3, LeaveKeepsInv DEF searchStep
<1> QED BY <1>2, <1>3

LEMMA SearchStarts ==
  ASSUME NEW scc, NEW adj
  PROVE  SearchInv(scc, adj, unsearched)
BY DEF unsearched, SearchInv, Searches

\* The edges that are found are edges and close a path.
LEMMA BackEdgesCloseCycles ==
  ASSUME NEW scc, IsFiniteSet(scc), NEW entries \in SUBSET scc, NEW adj, NEW rank, Ranks(rank, scc)
  PROVE  /\ findSCCBackEdges(scc, entries, adj, rank) \subseteq adj \cap (scc \X scc)
         /\ \A e \in findSCCBackEdges(scc, entries, adj, rank) : e[1] \in closure(e[2], among(adj, scc), scc)
<1>1. PICK run : /\ IsTrace(scc, entries, adj, rank, run)
                 /\ findSCCBackEdges(scc, entries, adj, rank) = run[2 * Cardinality(scc)].back
  BY SearchIsATrace
<1> DEFINE N == 2 * Cardinality(scc)
           T == {n \in Nat : n \in 0 .. N => SearchInv(scc, adj, run[n])}
<1>2. N \in Nat
  BY FS_CardinalityType
<1>3. 0 \in T
  <2>1. run[0] = unsearched
    BY <1>1, <1>2 DEF IsTrace
  <2> QED BY <2>1, SearchStarts
<1>4. ASSUME NEW n \in Nat, n \in T PROVE n + 1 \in T
  <2> SUFFICES ASSUME n + 1 \in 0 .. N PROVE SearchInv(scc, adj, run[n + 1])
    OBVIOUS
  <2>1. n \in 0 .. N /\ (n + 1) - 1 = n /\ n + 1 # 0
    BY <1>2
  <2>2. run[n + 1] = searchStep(scc, entries, adj, rank, run[n])
    BY <1>1, <2>1 DEF IsTrace
  <2> QED BY <1>4, <2>1, <2>2, SearchKeepsInv
<1>5. Nat \subseteq T
  <2> HIDE DEF T
  <2> QED BY <1>3, <1>4, NumberInduction
<1>6. SearchInv(scc, adj, run[N])
  BY <1>2, <1>5
<1> QED BY <1>1, <1>6 DEF SearchInv, Searches

-----------------------------------------------------------------------------
(***************************************************************************)
(* A component that is entered at one node e, and whose cycles all go through *)
(* e: the search finds just the edges to e.  While e is on the stack all else  *)
(* is visited.                                                             *)
(***************************************************************************)
IsEntryOf(e, scc, adj) ==
  e \in scc /\ scc \subseteq closure(e, among(adj, scc), scc) /\ acyclic(adj, scc \ {e})

EntryInv(scc, adj, e, s, n) ==
  LET q == s.stack IN
  /\ SearchInv(scc, adj, s)
  /\ q # << >> => q[Len(q)] = e
  /\ q = << >> => s.seen = {} \/ s.seen = scc
  /\ \A u \in s.seen : (\A i \in 1 .. Len(q) : q[i] # u) => nextIn(scc, adj, u) \subseteq s.seen
  /\ \A i, j \in 1 .. Len(q) : i <= j /\ j < Len(q) => q[i] \in closure(q[j], among(adj, scc \ {e}), scc \ {e})
  /\ s.back = {<<u, e>> : u \in {v \in s.seen : <<v, e>> \in adj}}
  /\ n = 2 * Cardinality(s.seen) - Len(q) \/ (s.seen = scc /\ q = << >>)

LEMMA EntryStarts ==
  ASSUME NEW scc, NEW adj, NEW e
  PROVE  EntryInv(scc, adj, e, unsearched, 0)
<1>1. Cardinality({}) = 0
  BY FS_EmptySet
<1>2. unsearched.stack = << >> /\ Len(unsearched.stack) = 0 /\ unsearched.seen = {} /\ unsearched.back = {}
  BY DEF unsearched
<1>3. 1 .. 0 = {}
  OBVIOUS
<1>4. {<<u, e>> : u \in {v \in {} : <<v, e>> \in adj}} = {}
  OBVIOUS
<1> QED BY <1>1, <1>2, <1>3, <1>4, SearchStarts DEF EntryInv

LEMMA EntryVisit ==
  ASSUME NEW scc, IsFiniteSet(scc), NEW adj, NEW e, IsEntryOf(e, scc, adj),
         NEW s, NEW n \in Nat, EntryInv(scc, adj, e, s, n), NEW f \in unseen(scc, {e}, adj, s)
  PROVE  EntryInv(scc, adj, e, visits(scc, adj, s, f), n + 1)
<1> DEFINE t == visits(scc, adj, s, f)
           q == s.stack
<1>1. s \in Searches(scc) /\ q \in Seq(scc) /\ Len(q) \in Nat /\ s.seen \subseteq scc
  BY DEF EntryInv, SearchInv, Searches
<1>2. f \in scc /\ f \notin s.seen /\ e \in scc
  <2>1. e \in scc /\ {e} \in SUBSET scc /\ SearchInv(scc, adj, s)
    BY DEF EntryInv, IsEntryOf
  <2> QED BY <2>1, VisitedFromStack
<1>3. /\ t.stack = <<f>> \o q /\ t.seen = s.seen \cup {f}
      /\ t.back = s.back \cup ({f} \X (nextIn(scc, adj, f) \cap (Range(q) \cup {f})))
  BY DEF visits
<1>4. SearchInv(scc, adj, t)
  BY VisitKeepsInv, <1>2 DEF EntryInv
<1> HIDE DEF t
<1>5. /\ t.stack \in Seq(scc) /\ Len(t.stack) = Len(q) + 1 /\ t.stack[1] = f /\ t.stack # << >>
      /\ \A i \in 2 .. Len(q) + 1 : i - 1 \in 1 .. Len(q) /\ t.stack[i] = q[i - 1]
  BY <1>1, <1>2, <1>3, Pushed
<1>6. Cardinality(t.seen) = Cardinality(s.seen) + 1 /\ Cardinality(s.seen) \in Nat
  <2>1. IsFiniteSet(s.seen)
    BY <1>1, FS_Subset
  <2> QED BY <1>2, <1>3, <2>1, FS_AddElement, FS_CardinalityType
\* Either the search begins, or e is below f.
<1>7. q = << >> => s.seen = {} /\ f = e
  <2> SUFFICES ASSUME q = << >> PROVE s.seen = {} /\ f = e
    OBVIOUS
  <2>1. s.seen = {} \/ s.seen = scc
    BY DEF EntryInv
  <2>2. s.seen = {}
    BY <1>2, <2>1
  <2> QED BY <1>2, <2>2 DEF unseen
<1>8. q # << >> => Len(q) \in 1 .. Len(q) /\ q[Len(q)] = e /\ e \in s.seen /\ f # e /\ e \in Range(q)
  <2> SUFFICES ASSUME q # << >> PROVE Len(q) \in 1 .. Len(q) /\ q[Len(q)] = e /\ e \in s.seen /\ f # e /\ e \in Range(q)
    OBVIOUS
  <2>1. Len(q) \in 1 .. Len(q) /\ DOMAIN q = 1 .. Len(q)
    BY <1>1
  <2>2. q[Len(q)] = e
    BY DEF EntryInv
  <2>3. e \in s.seen
    BY <2>1, <2>2 DEF EntryInv, SearchInv
  <2>4. e \in Range(q)
    BY <2>1, <2>2 DEF Range
  <2> QED BY <1>2, <2>1, <2>2, <2>3, <2>4
<1>9. t.stack[Len(t.stack)] = e
  <2>1. CASE q = << >>
    <3>1. Len(q) = 0
      BY <2>1
    <3> QED BY <1>5, <1>7, <2>1, <3>1
  <2>2. CASE q # << >>
    <3>1. Len(q) + 1 \in 2 .. Len(q) + 1 /\ (Len(q) + 1) - 1 = Len(q)
      BY <1>1, <1>8, <2>2
    <3>2. t.stack[Len(q) + 1] = q[Len(q)]
      BY <1>5, <3>1
    <3> QED BY <1>5, <1>8, <2>2, <3>2
  <2> QED BY <2>1, <2>2
<1>10. ASSUME NEW u \in t.seen, \A i \in 1 .. Len(t.stack) : t.stack[i] # u
       PROVE  nextIn(scc, adj, u) \subseteq t.seen
  <2>1. u # f /\ u \in s.seen
    BY <1>1, <1>3, <1>5, <1>10
  <2>2. ASSUME NEW i \in 1 .. Len(q) PROVE q[i] # u
    <3>1. i + 1 \in 2 .. Len(q) + 1 /\ (i + 1) - 1 = i /\ i + 1 \in 1 .. Len(t.stack)
      BY <1>1, <1>5
    <3>2. t.stack[i + 1] = q[i]
      BY <1>5, <3>1
    <3> QED BY <1>10, <3>1, <3>2
  <2>3. nextIn(scc, adj, u) \subseteq s.seen
    BY <2>1, <2>2 DEF EntryInv
  <2> QED BY <1>3, <2>3
\* From below f the search went on without e.
<1>11. ASSUME NEW j \in 1 .. Len(q), j < Len(q) PROVE f \in closure(q[j], among(adj, scc \ {e}), scc \ {e})
  <2>1. q # << >> /\ 1 \in 1 .. Len(q) /\ 1 <= j /\ Head(q) = q[1]
    BY <1>1, <1>11
  <2>2. q[1] \in closure(q[j], among(adj, scc \ {e}), scc \ {e})
    BY <1>11, <2>1 DEF EntryInv
  <2>3. <<q[1], f>> \in among(adj, scc \ {e}) /\ f \in scc \ {e}
    <3>1. <<q[1], f>> \in adj /\ f \in scc \ {e}
      BY <1>2, <1>8, <2>1 DEF unseen, nextIn
    <3>2. q[1] \in scc \ {e}
      BY <2>2, ClosureWithin
    <3> QED BY <3>1, <3>2 DEF among
  <2> QED BY <2>2, <2>3, ClosureStep
<1>12. ASSUME NEW i \in 1 .. Len(t.stack), NEW j \in 1 .. Len(t.stack), i <= j, j < Len(t.stack)
       PROVE  t.stack[i] \in closure(t.stack[j], among(adj, scc \ {e}), scc \ {e})
  <2>1. CASE j = 1
    <3>1. i = 1 /\ q # << >>
      BY <1>1, <1>5, <1>12, <2>1
    <3>2. f \in scc \ {e}
      BY <1>2, <1>8, <3>1
    <3> QED BY <1>5, <2>1, <3>1, <3>2, ClosureRoot
  <2>2. CASE j # 1
    <3>1. j \in 2 .. Len(q) + 1 /\ j - 1 \in 1 .. Len(q) /\ j - 1 < Len(q) /\ t.stack[j] = q[j - 1]
      BY <1>1, <1>5, <1>12, <2>2
    <3>2. CASE i = 1
      BY <1>5, <1>11, <3>1, <3>2
    <3>3. CASE i # 1
      <4>1. i - 1 \in 1 .. Len(q) /\ i - 1 <= j - 1 /\ t.stack[i] = q[i - 1]
        BY <1>1, <1>5, <1>12, <3>1, <3>3
      <4> QED BY <3>1, <4>1 DEF EntryInv
    <3> QED BY <3>2, <3>3
  <2> QED BY <2>1, <2>2
<1>13. ASSUME NEW v \in nextIn(scc, adj, f) \cap (Range(q) \cup {f}) PROVE v = e
  <2> SUFFICES ASSUME v # e PROVE FALSE
    OBVIOUS
  <2>1. <<f, v>> \in adj /\ v \in scc \ {e}
    BY DEF nextIn
  <2>2. f # e
    <3>1. CASE v = f
      BY <3>1
    <3>2. CASE v \in Range(q)
      <4>1. q # << >>
        BY <3>2 DEF Range
      <4> QED BY <1>8, <4>1
    <3> QED BY <3>1, <3>2
  <2>3. f \in closure(v, among(adj, scc \ {e}), scc \ {e})
    <3>1. CASE v = f
      BY <2>1, <3>1, ClosureRoot
    <3>2. CASE v \in Range(q)
      <4>1. PICK j \in 1 .. Len(q) : v = q[j]
        BY <1>1, <3>2 DEF Range
      <4>2. j # Len(q) /\ j < Len(q)
        BY <1>1, <1>8, <4>1
      <4> QED BY <1>11, <4>1, <4>2
    <3> QED BY <3>1, <3>2
  <2>4. acyclic(adj, scc \ {e})
    BY DEF IsEntryOf
  <2> DEFINE a == <<f, v>>
  <2>5. a \in among(adj, scc \ {e}) /\ a[1] = f /\ a[2] = v
    BY <1>2, <2>1, <2>2 DEF among
  <2> HIDE DEF a
  <2> QED BY <2>1, <2>3, <2>4, <2>5 DEF acyclic
<1>14. <<f, e>> \in adj <=> e \in nextIn(scc, adj, f) \cap (Range(q) \cup {f})
  BY <1>2, <1>7, <1>8 DEF nextIn
<1>15. t.back = {<<u, e>> : u \in {v \in t.seen : <<v, e>> \in adj}}
  <2>1. s.back = {<<u, e>> : u \in {v \in s.seen : <<v, e>> \in adj}}
    BY DEF EntryInv
  <2>2. {f} \X (nextIn(scc, adj, f) \cap (Range(q) \cup {f})) = {<<u, e>> : u \in {v \in {f} : <<v, e>> \in adj}}
    <3> DEFINE X == nextIn(scc, adj, f) \cap (Range(q) \cup {f})
    <3>1. CASE <<f, e>> \in adj
      <4>1. X = {e}
        BY <1>13, <1>14, <3>1
      <4>2. {v \in {f} : <<v, e>> \in adj} = {f}
        BY <3>1
      <4>3. {<<u, e>> : u \in {f}} = {f} \X {e}
        OBVIOUS
      <4> QED BY <4>1, <4>2, <4>3
    <3>2. CASE <<f, e>> \notin adj
      <4>1. X = {}
        BY <1>13, <1>14, <3>2
      <4> QED BY <3>2, <4>1
    <3> QED BY <3>1, <3>2
  <2> QED BY <1>3, <2>1, <2>2
<1>16. n + 1 = 2 * Cardinality(t.seen) - Len(t.stack)
  <2>1. s.seen # scc
    BY <1>2
  <2>2. n = 2 * Cardinality(s.seen) - Len(q)
    BY <2>1 DEF EntryInv
  <2> QED BY <1>1, <1>5, <1>6, <2>2
<1>17. EntryInv(scc, adj, e, t, n + 1)
  BY <1>4, <1>5, <1>9, <1>10, <1>12, <1>15, <1>16 DEF EntryInv
<1> QED BY <1>17 DEF t

LEMMA EntryLeave ==
  ASSUME NEW scc, IsFiniteSet(scc), NEW adj, NEW e, IsEntryOf(e, scc, adj),
         NEW s, NEW n \in Nat, EntryInv(scc, adj, e, s, n), unseen(scc, {e}, adj, s) = {}
  PROVE  EntryInv(scc, adj, e, leaves(s), n + 1)
<1> DEFINE t == leaves(s)
           q == s.stack
<1>0. SearchInv(scc, adj, s)
  BY DEF EntryInv
<1>1. s \in Searches(scc) /\ q \in Seq(scc) /\ Len(q) \in Nat /\ s.seen \subseteq scc
  BY <1>0 DEF SearchInv, Searches
<1>2. /\ SearchInv(scc, adj, t) /\ t.seen = s.seen /\ t.back = s.back
      /\ t.stack = IF q = << >> THEN q ELSE Tail(q)
  BY <1>0, LeaveKeepsInv
<1> HIDE DEF t
<1>3. CASE q = << >>
  <2>1. s.seen = scc
    <3>1. s.seen = {} \/ s.seen = scc
      BY <1>3 DEF EntryInv
    <3> QED BY <1>3, <3>1 DEF unseen
  <2>2. EntryInv(scc, adj, e, t, n + 1)
    BY <1>2, <1>3, <2>1 DEF EntryInv
  <2> QED BY <2>2 DEF t
<1>4. CASE q # << >>
  <2>1. /\ t.stack \in Seq(scc) /\ Len(t.stack) = Len(q) - 1 /\ Len(q) \in Nat \ {0} /\ Head(q) = q[1]
        /\ \A i \in 1 .. Len(q) - 1 : i + 1 \in 1 .. Len(q) /\ t.stack[i] = q[i + 1]
    BY <1>1, <1>2, <1>4, Popped
  <2>2. q[Len(q)] = e
    BY <1>4 DEF EntryInv
  <2>3. t.stack # << >> => t.stack[Len(t.stack)] = e
    <3> SUFFICES ASSUME t.stack # << >> PROVE t.stack[Len(t.stack)] = e
      OBVIOUS
    <3>1. Len(q) - 1 \in 1 .. Len(q) - 1 /\ (Len(q) - 1) + 1 = Len(q)
      BY <2>1
    <3> QED BY <2>1, <2>2, <3>1
  <2>4. nextIn(scc, adj, q[1]) \subseteq s.seen
    BY <1>4, <2>1 DEF unseen
  <2>5. ASSUME NEW u \in t.seen, \A i \in 1 .. Len(t.stack) : t.stack[i] # u
        PROVE  nextIn(scc, adj, u) \subseteq t.seen
    <3>1. CASE u = q[1]
      BY <1>2, <2>4, <3>1
    <3>2. CASE u # q[1]
      <4>1. ASSUME NEW i \in 1 .. Len(q) PROVE q[i] # u
        <5>1. CASE i = 1
          BY <3>2, <5>1
        <5>2. CASE i # 1
          <6>1. i - 1 \in 1 .. Len(q) - 1 /\ (i - 1) + 1 = i
            BY <2>1, <5>2
          <6> QED BY <2>1, <2>5, <6>1
        <5> QED BY <5>1, <5>2
      <4> QED BY <1>2, <4>1 DEF EntryInv
    <3> QED BY <3>1, <3>2
  <2>6. t.stack = << >> => t.seen = scc
    <3> SUFFICES ASSUME t.stack = << >> PROVE t.seen = scc
      OBVIOUS
    <3>1. Len(t.stack) = 0
      OBVIOUS
    <3>2. 1 .. Len(t.stack) = {}
      BY <3>1
    <3>3. \A u \in s.seen : nextIn(scc, adj, u) \subseteq s.seen
      BY <1>2, <2>5, <3>2
    <3>4. e \in s.seen
      BY <1>0, <2>1, <2>2 DEF SearchInv
    <3>5. scc \subseteq closure(e, among(adj, scc), scc)
      BY DEF IsEntryOf
    <3>6. closure(e, among(adj, scc), scc) \subseteq s.seen
      <4>1. ASSUME NEW d \in among(adj, scc), d[1] \in s.seen PROVE d[2] \in s.seen
        <5>1. d = <<d[1], d[2]>> /\ d \in adj /\ d[2] \in scc
          BY DEF among
        <5> QED BY <3>3, <4>1, <5>1 DEF nextIn
      <4> QED BY <1>1, <3>4, <4>1, ClosureKeeps
    <3> QED BY <1>1, <1>2, <3>5, <3>6
  <2>7. ASSUME NEW i \in 1 .. Len(t.stack), NEW j \in 1 .. Len(t.stack), i <= j, j < Len(t.stack)
        PROVE  t.stack[i] \in closure(t.stack[j], among(adj, scc \ {e}), scc \ {e})
    <3>1. /\ i + 1 \in 1 .. Len(q) /\ j + 1 \in 1 .. Len(q) /\ i + 1 <= j + 1 /\ j + 1 < Len(q)
          /\ t.stack[i] = q[i + 1] /\ t.stack[j] = q[j + 1]
      <4>1. i \in 1 .. Len(q) - 1 /\ j \in 1 .. Len(q) - 1
        BY <2>1, <2>7
      <4>2. Len(t.stack) = Len(q) - 1 /\ Len(q) \in Nat
        BY <2>1
      <4>3. t.stack[i] = q[i + 1] /\ t.stack[j] = q[j + 1]
        BY <2>1, <4>1
      <4> QED BY <2>7, <4>1, <4>2, <4>3
    <3> QED BY <3>1 DEF EntryInv
  <2>8. n + 1 = 2 * Cardinality(t.seen) - Len(t.stack)
    <3>1. n = 2 * Cardinality(s.seen) - Len(q)
      BY <1>4 DEF EntryInv
    <3>2. Cardinality(s.seen) \in Nat
      BY <1>1, FS_Subset, FS_CardinalityType
    <3> QED BY <1>2, <2>1, <3>1, <3>2
  <2>9. t.back = {<<u, e>> : u \in {v \in t.seen : <<v, e>> \in adj}}
    BY <1>2 DEF EntryInv
  <2>10. EntryInv(scc, adj, e, t, n + 1)
    BY <1>2, <2>3, <2>5, <2>6, <2>7, <2>8, <2>9 DEF EntryInv
  <2> QED BY <2>10 DEF t
<1> QED BY <1>3, <1>4

\* The edges of a component to its entry.
edgesTo(e, scc, adj) == {<<u, e>> : u \in {v \in scc : <<v, e>> \in adj}}

(***************************************************************************)
(* findSCCBackEdges, started at the one node a component is entered at, finds  *)
(* just the edges to it, in whatever order it visits successors.             *)
(***************************************************************************)
THEOREM SearchFromOneEntry ==
  ASSUME NEW scc, IsFiniteSet(scc), NEW adj, NEW e, IsEntryOf(e, scc, adj), NEW rank, Ranks(rank, scc)
  PROVE  findSCCBackEdges(scc, {e}, adj, rank) = edgesTo(e, scc, adj)
<1>0. {e} \in SUBSET scc /\ e \in scc
  BY DEF IsEntryOf
<1>1. PICK run : /\ IsTrace(scc, {e}, adj, rank, run)
                 /\ findSCCBackEdges(scc, {e}, adj, rank) = run[2 * Cardinality(scc)].back
  BY <1>0, SearchIsATrace
<1> DEFINE N == 2 * Cardinality(scc)
           T == {n \in Nat : n \in 0 .. N => EntryInv(scc, adj, e, run[n], n)}
<1>2. N \in Nat /\ Cardinality(scc) \in Nat
  BY FS_CardinalityType
<1>3. 0 \in T
  <2>1. run[0] = unsearched
    BY <1>1, <1>2 DEF IsTrace
  <2> QED BY <2>1, EntryStarts
<1>4. ASSUME NEW n \in Nat, n \in T PROVE n + 1 \in T
  <2> SUFFICES ASSUME n + 1 \in 0 .. N PROVE EntryInv(scc, adj, e, run[n + 1], n + 1)
    OBVIOUS
  <2>1. n \in 0 .. N /\ (n + 1) - 1 = n /\ n + 1 # 0
    BY <1>2
  <2>2. run[n + 1] = searchStep(scc, {e}, adj, rank, run[n])
    BY <1>1, <2>1 DEF IsTrace
  <2>3. EntryInv(scc, adj, e, run[n], n)
    BY <1>4, <2>1
  <2>4. run[n] \in Searches(scc)
    BY <2>3 DEF EntryInv, SearchInv
  <2>5. CASE unseen(scc, {e}, adj, run[n]) # {}
    <3>1. first(rank, unseen(scc, {e}, adj, run[n])) \in unseen(scc, {e}, adj, run[n])
      <4>1. unseen(scc, {e}, adj, run[n]) \in SUBSET scc
        BY <1>0, <2>4, SearchSteps
      <4> DEFINE U == unseen(scc, {e}, adj, run[n])
      <4> HIDE DEF U
      <4>2. U \in SUBSET scc /\ U # {}
        BY <2>5, <4>1 DEF U
      <4>3. first(rank, U) \in U
        BY <4>2, FirstIsChosen
      <4> QED BY <4>3 DEF U
    <3> QED BY <2>2, <2>3, <2>5, <3>1, EntryVisit DEF searchStep
  <2>6. CASE unseen(scc, {e}, adj, run[n]) = {}
    BY <2>2, <2>3, <2>6, EntryLeave DEF searchStep
  <2> QED BY <2>5, <2>6
<1>5. Nat \subseteq T
  <2> HIDE DEF T
  <2> QED BY <1>3, <1>4, NumberInduction
<1> DEFINE s == run[N]
<1>6. EntryInv(scc, adj, e, s, N)
  BY <1>2, <1>5
<1> HIDE DEF s
<1>7. s.seen \subseteq scc /\ s.stack \in Seq(scc) /\ Len(s.stack) \in Nat
  BY <1>6 DEF EntryInv, SearchInv, Searches
<1>8. s.seen = scc
  <2> SUFFICES ASSUME s.seen # scc PROVE FALSE
    OBVIOUS
  <2>1. N = 2 * Cardinality(s.seen) - Len(s.stack)
    BY <1>6 DEF EntryInv
  <2>2. Cardinality(s.seen) \in Nat /\ Cardinality(s.seen) < Cardinality(scc)
    BY <1>7, FS_Subset, FS_CardinalityType
  <2> QED BY <1>2, <1>7, <2>1, <2>2
<1>9. s.back = {<<u, e>> : u \in {v \in s.seen : <<v, e>> \in adj}}
  BY <1>6 DEF EntryInv
<1> QED BY <1>1, <1>8, <1>9 DEF s, edgesTo

-----------------------------------------------------------------------------
(***************************************************************************)
(* Reachability in parts of a graph, backwards, and without cycles.          *)
(***************************************************************************)
LEMMA ClosureGrows ==
  ASSUME NEW N, NEW R \in SUBSET (N \X N), NEW M, NEW Q, R \subseteq Q, N \subseteq M, NEW root \in N
  PROVE  closure(root, R, N) \subseteq closure(root, Q, M)
<1> DEFINE S == closure(root, Q, M) \cap N
<1>1. root \in S
  BY ClosureRoot
<1>2. ASSUME NEW e \in R, e[1] \in S PROVE e[2] \in S
  <2>1. e = <<e[1], e[2]>> /\ e[2] \in N
    OBVIOUS
  <2>2. <<e[1], e[2]>> \in Q /\ e[2] \in M /\ e[1] \in closure(root, Q, M)
    BY <1>2, <2>1
  <2> QED BY <2>1, <2>2, ClosureStep
<1>3. closure(root, R, N) \subseteq S
  <2> HIDE DEF S
  <2>1. S \in SUBSET N
    BY DEF S
  <2> QED BY <1>1, <1>2, <2>1, ClosureKeeps
<1> QED BY <1>3

LEMMA ClosureReversed ==
  ASSUME NEW N, NEW R \in SUBSET (N \X N), NEW Q, \A u, v \in N : <<u, v>> \in R => <<v, u>> \in Q,
         NEW a \in N, NEW b \in closure(a, R, N)
  PROVE  a \in closure(b, Q, N)
<1> DEFINE S == {n \in N : a \in closure(n, Q, N)}
<1>1. a \in S
  BY ClosureRoot
<1>2. ASSUME NEW e \in R, e[1] \in S PROVE e[2] \in S
  <2>1. e = <<e[1], e[2]>> /\ e[2] \in N /\ e[1] \in N
    OBVIOUS
  <2>2. <<e[2], e[1]>> \in Q
    BY <2>1
  <2>3. e[1] \in closure(e[2], Q, N)
    BY <2>1, <2>2, ClosureRoot, ClosureStep
  <2> QED BY <1>2, <2>1, <2>3, ClosureJoin
<1>3. closure(a, R, N) \subseteq S
  <2> HIDE DEF S
  <2>1. S \in SUBSET N
    BY DEF S
  <2> QED BY <1>1, <1>2, <2>1, ClosureKeeps
<1> QED BY <1>3

\* A set of nodes has one without a predecessor in the set.
LEMMA AcyclicHasSource ==
  ASSUME NEW N, IsFiniteSet(N), NEW R, acyclic(R, N), NEW S \in SUBSET N, S # {}
  PROVE  \E m \in S : \A u \in S : <<u, m>> \notin R
<1> DEFINE above(m) == {u \in N : m \in closure(u, among(R, N), N)}
           K == {Cardinality(above(m)) : m \in S}
<1>1. \A m \in S : IsFiniteSet(above(m)) /\ Cardinality(above(m)) \in Nat
  BY FS_Subset, FS_CardinalityType
<1>2. K \subseteq Nat /\ K # {}
  BY <1>1
<1>3. PICK k \in K : \A j \in K : k <= j
  BY <1>2, LeastNatural
<1>4. PICK m \in S : k = Cardinality(above(m))
  BY <1>3
<1>5. ASSUME NEW u \in S, <<u, m>> \in R PROVE FALSE
  <2>1. <<u, m>> \in among(R, N)
    BY <1>5 DEF among
  <2>2. u \notin closure(m, among(R, N), N)
    <3> DEFINE e == <<u, m>>
    <3>1. e[1] = u /\ e[2] = m /\ e \in among(R, N)
      BY <2>1
    <3> HIDE DEF e
    <3> QED BY <3>1 DEF acyclic
  <2>3. above(u) \subseteq above(m)
    BY <2>1, ClosureStep
  <2>4. m \in above(m) /\ m \notin above(u)
    BY <2>2, ClosureRoot
  <2>5. Cardinality(above(u)) <= Cardinality(above(m)) /\ Cardinality(above(u)) # Cardinality(above(m))
    <3> HIDE DEF above
    <3> QED BY <1>1, <2>3, <2>4, FS_Subset
  <2>6. k <= Cardinality(above(u))
    BY <1>3
  <2> HIDE DEF above
  <2> QED BY <1>1, <1>4, <2>5, <2>6
<1> QED BY <1>5

\* What enters a part of a circulation leaves it.
LEMMA CirculationsAreClosed ==
  ASSUME NEW C, IsFiniteSet(C), NEW T, IsFiniteSet(T),
         \A n \in T : degree(C, n) = Cardinality({e \in C : e[1] = n}),
         \A e \in C : e[1] \in T => e[2] \in T
  PROVE  \A e \in C : e[2] \in T => e[1] \in T
<1> DEFINE entering(s) == {e \in C : e[2] \in s}
           leaving(s) == {e \in C : e[1] \in s}
           P == {s \in SUBSET T : Cardinality(entering(s)) = Cardinality(leaving(s))}
<1>1. \A s : IsFiniteSet(entering(s)) /\ IsFiniteSet(leaving(s))
  BY FS_Subset
<1>2. ASSUME NEW s \in SUBSET T, \A v \in s : s \ {v} \in P PROVE s \in P
  <2>1. CASE s = {}
    <3>1. entering(s) = {} /\ leaving(s) = {}
      BY <2>1
    <3> QED BY <3>1
  <2>2. CASE s # {}
    <3>1. PICK n \in s : TRUE
      BY <2>2
    <3> DEFINE r == s \ {n}
               ins == {e \in C : e[2] = n}
               outs == {e \in C : e[1] = n}
    <3>2. /\ entering(s) = entering(r) \cup ins /\ entering(r) \cap ins = {}
          /\ leaving(s) = leaving(r) \cup outs /\ leaving(r) \cap outs = {}
      OBVIOUS
    <3>3. IsFiniteSet(ins) /\ IsFiniteSet(outs)
      BY FS_Subset
    <3>4. Cardinality(ins) = Cardinality(outs)
      BY <3>1 DEF degree
    <3>5. Cardinality(entering(r)) = Cardinality(leaving(r))
      BY <1>2, <3>1
    <3> HIDE DEF entering, leaving, ins, outs, r
    <3>6. \A A, B : IsFiniteSet(A) /\ IsFiniteSet(B) /\ A \cap B = {} =>
            Cardinality(A \cup B) = Cardinality(A) + Cardinality(B)
      <4> SUFFICES ASSUME NEW A, NEW B, IsFiniteSet(A), IsFiniteSet(B), A \cap B = {}
                   PROVE  Cardinality(A \cup B) = Cardinality(A) + Cardinality(B)
        OBVIOUS
      <4>1. Cardinality(A \cap B) = 0
        BY FS_EmptySet
      <4>2. Cardinality(A \cup B) = Cardinality(A) + Cardinality(B) - Cardinality(A \cap B)
        BY FS_Union
      <4>3. Cardinality(A) \in Nat /\ Cardinality(B) \in Nat
        BY FS_CardinalityType
      <4> QED BY <4>1, <4>2, <4>3
    <3>7. /\ Cardinality(entering(s)) = Cardinality(entering(r)) + Cardinality(ins)
          /\ Cardinality(leaving(s)) = Cardinality(leaving(r)) + Cardinality(outs)
      BY <1>1, <3>2, <3>3, <3>6
    <3> QED BY <3>4, <3>5, <3>6, <3>7
  <2> QED BY <2>1, <2>2
<1>3. T \in P
  <2> HIDE DEF P
  <2> QED BY <1>2, SubsetInduction
<1>4. leaving(T) \subseteq entering(T) /\ Cardinality(entering(T)) = Cardinality(leaving(T))
  BY <1>3
<1>5. leaving(T) = entering(T)
  <2> HIDE DEF leaving, entering
  <2> QED BY <1>1, <1>4, FS_Subset
<1> QED BY <1>5

-----------------------------------------------------------------------------
(***************************************************************************)
(* The plugin.  Visiting its items one by one, each takes the pragma that     *)
(* belongs to it: entry[<<k, b>>] is what is exported for item k and bound b.  *)
(***************************************************************************)
takes(s, items, k, entry) ==
  IF before(s.map, items[k].offset) = {} THEN s
  ELSE LET o == Max(before(s.map, items[k].offset))
       IN  [map |-> [q \in DOMAIN s.map \ {o} |-> s.map[q]],
            exported |-> Append(s.exported, entry[<<k, s.map[o]>>])]

rest(map, D) == [q \in D |-> map[q]]
Attachings(map, E) == [map : {rest(map, D) : D \in SUBSET DOMAIN map}, exported : Seq(E)]
startOf(map) == [map |-> map, exported |-> << >>]

LEMMA GreatestOfInitial ==
  ASSUME NEW n \in Nat, NEW s \in SUBSET (0 .. n), s # {}
  PROVE  Max(s) \in s
<1> DEFINE K == {n - v : v \in s}
<1>1. K \subseteq Nat /\ K # {}
  <2>1. \A v \in s : n - v \in Nat
    OBVIOUS
  <2> QED BY <2>1
<1>2. PICK k \in K : \A j \in K : k <= j
  <2> HIDE DEF K
  <2> QED BY <1>1, LeastNatural
<1>3. PICK m \in s : k = n - m
  BY <1>2
<1>4. \A v \in s : n - m <= n - v
  BY <1>2, <1>3
<1>5. \A v \in s : m >= v
  BY <1>4
<1> QED BY <1>5 DEF Max

LEMMA RangeOfAppend ==
  ASSUME NEW E, NEW s \in Seq(E), NEW c \in E
  PROVE  Range(Append(s, c)) = Range(s) \cup {c}
<1>1. /\ DOMAIN s = 1 .. Len(s) /\ Len(s) \in Nat
      /\ DOMAIN Append(s, c) = 1 .. Len(s) + 1
      /\ Append(s, c)[Len(s) + 1] = c
      /\ \A i \in 1 .. Len(s) : Append(s, c)[i] = s[i]
  OBVIOUS
<1>2. 1 .. Len(s) + 1 = (1 .. Len(s)) \cup {Len(s) + 1}
  BY <1>1
<1> QED BY <1>1, <1>2 DEF Range

LEMMA TakesType ==
  ASSUME NEW map, NEW n \in Nat, NEW items, NEW E, NEW entry \in [(1 .. n) \X Range(map) -> E],
         DOMAIN map \subseteq Nat, NEW k \in 1 .. n, items[k].offset \in Nat, NEW s \in Attachings(map, E)
  PROVE  /\ takes(s, items, k, entry) \in Attachings(map, E)
         /\ before(s.map, items[k].offset) # {} =>
              s.map[Max(before(s.map, items[k].offset))] \in Range(map)
<1>1. PICK D \in SUBSET DOMAIN map : s.map = rest(map, D)
  BY DEF Attachings
<1>2. s.exported \in Seq(E)
  BY DEF Attachings
<1> DEFINE B == before(s.map, items[k].offset)
           o == Max(B)
<1>3. DOMAIN s.map = D /\ \A q \in D : s.map[q] = map[q] /\ map[q] \in Range(map)
  BY <1>1 DEF rest, Range
<1>4. CASE B = {}
  BY <1>4 DEF takes
<1>5. CASE B # {}
  <2>1. o \in B
    <3>1. B \in SUBSET (0 .. items[k].offset)
      BY <1>3 DEF before
    <3> HIDE DEF B
    <3> QED BY <1>5, <3>1, GreatestOfInitial
  <2>2. o \in D
    BY <1>3, <2>1 DEF before
  <2>3. takes(s, items, k, entry) = [map |-> [q \in D \ {o} |-> s.map[q]],
                                     exported |-> Append(s.exported, entry[<<k, s.map[o]>>])]
    BY <1>3, <1>5 DEF takes
  <2>4. [q \in D \ {o} |-> s.map[q]] = rest(map, D \ {o}) /\ D \ {o} \in SUBSET DOMAIN map
    BY <1>3 DEF rest
  <2>5. entry[<<k, s.map[o]>>] \in E
    BY <1>3, <2>2
  <2>6. Append(s.exported, entry[<<k, s.map[o]>>]) \in Seq(E)
    BY <1>2, <2>5
  <2> HIDE DEF o
  <2>7. takes(s, items, k, entry) \in Attachings(map, E)
    <3> DEFINE r == rest(map, D \ {o})
               c == Append(s.exported, entry[<<k, s.map[o]>>])
    <3>1. takes(s, items, k, entry) = [map |-> r, exported |-> c]
      BY <2>3, <2>4
    <3>2. r \in {rest(map, D1) : D1 \in SUBSET DOMAIN map} /\ c \in Seq(E)
      BY <2>4, <2>6
    <3> HIDE DEF r, c
    <3> QED BY <3>1, <3>2 DEF Attachings
  <2> QED BY <1>3, <2>2, <2>7 DEF o
<1> QED BY <1>4, <1>5

\* The fold over the items, position by position.
TakesFold(g, map, n, items, entry) ==
  g = [s \in SUBSET (1 .. n) |->
         IF s = {} THEN startOf(map) ELSE takes(g[s \ {Max(s)}], items, Max(s), entry)]

LEMMA TakesFoldExists ==
  ASSUME NEW map, map = rest(map, DOMAIN map), NEW n \in Nat, NEW items, NEW E,
         NEW entry \in [(1 .. n) \X Range(map) -> E],
         DOMAIN map \subseteq Nat, \A k \in 1 .. n : items[k].offset \in Nat
  PROVE  \E g : /\ TakesFold(g, map, n, items, entry)
                /\ \A s \in SUBSET (1 .. n) : g[s] \in Attachings(map, E)
                /\ \A s \in SUBSET (1 .. n) : s # {} => Max(s) \in 1 .. n /\ s \ {Max(s)} \in SUBSET (1 .. n)
<1> DEFINE A == Attachings(map, E)
           step == [q \in (1 .. n) \X A |-> takes(q[2], items, q[1], entry)]
           base == startOf(map)
<1>1. step \in [(1 .. n) \X A -> A]
  <2> SUFFICES ASSUME NEW q \in (1 .. n) \X A PROVE takes(q[2], items, q[1], entry) \in A
    OBVIOUS
  <2> QED BY TakesType
<1>2. base \in A
  <2>1. << >> \in Seq(E)
    OBVIOUS
  <2> QED BY <2>1 DEF startOf, Attachings
<1>3. \A k \in 1 .. n, s \in A : step[<<k, s>>] = takes(s, items, k, entry)
  OBVIOUS
<1> HIDE DEF step, base, A
<1>4. PICK g : PrefixFold(g, A, step, base, n)
  BY <1>1, <1>2, PrefixFoldExists
<1>5. /\ g = [s \in SUBSET (1 .. n) |-> g[s]]
      /\ \A s \in SUBSET (1 .. n) :
           /\ g[s] \in A
           /\ g[s] = IF s = {} THEN base ELSE step[<<Max(s), g[s \ {Max(s)}]>>]
           /\ s # {} => Max(s) \in 1 .. n /\ s \ {Max(s)} \in SUBSET (1 .. n)
  BY <1>4 DEF PrefixFold
<1>6. \A s \in SUBSET (1 .. n) : g[s] = IF s = {} THEN base ELSE takes(g[s \ {Max(s)}], items, Max(s), entry)
  BY <1>3, <1>5
<1>7. TakesFold(g, map, n, items, entry)
  BY <1>5, <1>6 DEF TakesFold, base
<1> QED BY <1>5, <1>7 DEF A

\* After k items the pragmas of these are used up and exported.
UsedUp(map, items, own, entry, E, k, s) ==
  /\ s.map = rest(map, {o \in DOMAIN map : own[o] > k})
  /\ s.exported \in Seq(E)
  /\ Range(s.exported) = {entry[<<own[o], map[o]>>] : o \in {q \in DOMAIN map : own[q] <= k}}

LEMMA TakesOwnPragma ==
  ASSUME NEW map, NEW n \in Nat, NEW items, NEW E, NEW entry \in [(1 .. n) \X Range(map) -> E],
         DOMAIN map \subseteq Nat, NEW own \in [DOMAIN map -> 1 .. n],
         DOMAIN items = 1 .. n, Attached(map, items, own),
         NEW k \in 1 .. n, NEW s, UsedUp(map, items, own, entry, E, k - 1, s)
  PROVE  UsedUp(map, items, own, entry, E, k, takes(s, items, k, entry))
<1> DEFINE left(j) == {o \in DOMAIN map : own[o] > j}
           B == before(s.map, items[k].offset)
           t == takes(s, items, k, entry)
<1>1. s.map = rest(map, left(k - 1)) /\ DOMAIN s.map = left(k - 1) /\ \A q \in left(k - 1) : s.map[q] = map[q]
  BY DEF UsedUp, rest
<1>2. \A o \in DOMAIN map : own[o] \in Nat /\ (own[o] > k - 1 <=> own[o] > k \/ own[o] = k)
                            /\ (own[o] <= k <=> own[o] <= k - 1 \/ own[o] = k)
  OBVIOUS
<1>3. B = {o \in DOMAIN map : own[o] = k}
  <2>1. ASSUME NEW o \in B PROVE o \in DOMAIN map /\ own[o] = k
    <3>1. o \in left(k - 1) /\ o \in before(map, items[k].offset)
      BY <1>1, <2>1 DEF before
    <3>2. own[o] <= k
      BY <3>1 DEF Attached
    <3> QED BY <1>2, <3>1, <3>2
  <2>2. ASSUME NEW o \in DOMAIN map, own[o] = k PROVE o \in B
    <3>1. o \in before(map, items[k].offset)
      BY <2>2 DEF Attached
    <3>2. o \in left(k - 1)
      BY <1>2, <2>2
    <3> QED BY <1>1, <3>1, <3>2 DEF before
  <2> QED BY <2>1, <2>2
<1>4. s.exported \in Seq(E)
      /\ Range(s.exported) = {entry[<<own[o], map[o]>>] : o \in {q \in DOMAIN map : own[q] <= k - 1}}
  BY DEF UsedUp
<1>5. CASE B = {}
  <2>1. t = s
    BY <1>5 DEF takes
  <2>2. left(k) = left(k - 1) /\ {q \in DOMAIN map : own[q] <= k} = {q \in DOMAIN map : own[q] <= k - 1}
    BY <1>2, <1>3, <1>5
  <2> HIDE DEF t
  <2>3. UsedUp(map, items, own, entry, E, k, t)
    BY <1>1, <1>4, <2>1, <2>2 DEF UsedUp
  <2> QED BY <2>3 DEF t
<1>6. CASE B # {}
  <2>1. PICK o \in DOMAIN map : own[o] = k
    BY <1>3, <1>6
  <2>2. B = {o}
    BY <1>3, <2>1 DEF Attached
  <2>3. Max(B) = o
    BY <2>2 DEF Max
  <2>4. o \in left(k - 1) /\ s.map[o] = map[o] /\ map[o] \in Range(map)
    BY <1>1, <1>2, <2>1 DEF Range
  <2> DEFINE c == entry[<<k, map[o]>>]
  <2>5. t = [map |-> [q \in left(k - 1) \ {o} |-> s.map[q]], exported |-> Append(s.exported, c)]
    BY <1>1, <1>6, <2>3, <2>4 DEF takes
  <2>6. left(k) = left(k - 1) \ {o}
    BY <1>2, <1>3, <2>1, <2>2
  <2>7. [q \in left(k - 1) \ {o} |-> s.map[q]] = rest(map, left(k))
    BY <1>1, <2>6 DEF rest
  <2>8. c \in E
    BY <2>4
  <2>9. Append(s.exported, c) \in Seq(E) /\ Range(Append(s.exported, c)) = Range(s.exported) \cup {c}
    <3> DEFINE z == s.exported
    <3>1. z \in Seq(E) /\ c \in E
      BY <1>4, <2>8
    <3> HIDE DEF c, z
    <3>2. Range(Append(z, c)) = Range(z) \cup {c}
      BY <3>1, RangeOfAppend
    <3>3. Append(z, c) \in Seq(E)
      BY <3>1
    <3> QED BY <3>2, <3>3 DEF z
  <2>10. {q \in DOMAIN map : own[q] <= k} = {q \in DOMAIN map : own[q] <= k - 1} \cup {o}
    BY <1>2, <1>3, <2>2
  <2>11. {entry[<<own[q], map[q]>>] : q \in {r \in DOMAIN map : own[r] <= k}}
           = {entry[<<own[q], map[q]>>] : q \in {r \in DOMAIN map : own[r] <= k - 1}} \cup {c}
    BY <2>1, <2>10
  <2> HIDE DEF t, c, left
  <2>12. t.map = rest(map, left(k)) /\ t.exported = Append(s.exported, c)
    BY <2>5, <2>7
  <2>13. UsedUp(map, items, own, entry, E, k, t)
    BY <1>4, <2>9, <2>11, <2>12 DEF UsedUp, left
  <2> QED BY <2>13 DEF t
<1> QED BY <1>5, <1>6

\* At the end every pragma is exported with its item, and nothing else is.
IsExport(map, n, items, E, entry, own, g) ==
  /\ map = rest(map, DOMAIN map) /\ DOMAIN map \subseteq Nat
  /\ n \in Nat /\ DOMAIN items = 1 .. n
  /\ entry \in [(1 .. n) \X Range(map) -> E]
  /\ own \in [DOMAIN map -> 1 .. n] /\ Attached(map, items, own)
  /\ TakesFold(g, map, n, items, entry)

LEMMA PragmasAreExported ==
  ASSUME NEW map, NEW n, NEW items, NEW E, NEW entry, NEW own, NEW g,
         IsExport(map, n, items, E, entry, own, g)
  PROVE  /\ g[1 .. n].exported \in Seq(E)
         /\ Range(g[1 .. n].exported) = {entry[<<own[o], map[o]>>] : o \in DOMAIN map}
<1>0. /\ map = rest(map, DOMAIN map) /\ DOMAIN map \subseteq Nat
      /\ n \in Nat /\ DOMAIN items = 1 .. n
      /\ entry \in [(1 .. n) \X Range(map) -> E]
      /\ own \in [DOMAIN map -> 1 .. n] /\ Attached(map, items, own)
      /\ TakesFold(g, map, n, items, entry)
  BY DEF IsExport
<1> DEFINE T == {k \in Nat : k \in 0 .. n => UsedUp(map, items, own, entry, E, k, g[1 .. k])}
<1>1. \A o \in DOMAIN map : own[o] > 0 /\ ~(own[o] <= 0) /\ own[o] <= n
  BY <1>0
<1>2. 0 \in T
  <2>1. 1 .. 0 = {} /\ 1 .. 0 \in SUBSET (1 .. n)
    BY <1>0
  <2>2. g[1 .. 0] = startOf(map)
    BY <1>0, <2>1 DEF TakesFold
  <2>3. {o \in DOMAIN map : own[o] > 0} = DOMAIN map /\ {q \in DOMAIN map : own[q] <= 0} = {}
    BY <1>1
  <2>4. Range(<< >>) = {} /\ << >> \in Seq(E)
    BY DEF Range
  <2>5. {entry[<<own[o], map[o]>>] : o \in {}} = {}
    OBVIOUS
  <2> DEFINE s == g[1 .. 0]
  <2>6. s.map = map /\ s.exported = << >>
    BY <2>2 DEF startOf
  <2> HIDE DEF s
  <2>7. UsedUp(map, items, own, entry, E, 0, s)
    BY <1>0, <2>3, <2>4, <2>5, <2>6 DEF UsedUp
  <2> QED BY <2>7 DEF s
<1>3. ASSUME NEW k \in Nat, k \in T PROVE k + 1 \in T
  <2> SUFFICES ASSUME k + 1 \in 0 .. n PROVE UsedUp(map, items, own, entry, E, k + 1, g[1 .. k + 1])
    OBVIOUS
  <2>1. k + 1 \in 1 .. n /\ (k + 1) - 1 = k /\ k \in 0 .. n
    BY <1>0
  <2>2. /\ 1 .. k + 1 \in SUBSET (1 .. n) /\ 1 .. k + 1 # {}
        /\ Max(1 .. k + 1) = k + 1 /\ (1 .. k + 1) \ {Max(1 .. k + 1)} = 1 .. k
    BY <1>0, <2>1, PrefixStep
  <2>3. g[1 .. k + 1] = takes(g[1 .. k], items, k + 1, entry)
    BY <1>0, <2>2 DEF TakesFold
  <2> DEFINE j == k + 1
             s == g[1 .. k]
  <2>4. UsedUp(map, items, own, entry, E, j - 1, s) /\ j \in 1 .. n
    BY <1>3, <2>1
  <2>5. UsedUp(map, items, own, entry, E, j, takes(s, items, j, entry))
    <3> HIDE DEF T, j, s
    <3> QED BY <1>0, <2>4, TakesOwnPragma
  <2> QED BY <2>3, <2>5
<1>4. Nat \subseteq T
  <2> HIDE DEF T
  <2> QED BY <1>2, <1>3, NumberInduction
<1>5. UsedUp(map, items, own, entry, E, n, g[1 .. n])
  BY <1>0, <1>4
<1>6. {q \in DOMAIN map : own[q] <= n} = DOMAIN map
  BY <1>1
<1> QED BY <1>5, <1>6 DEF UsedUp

\* What is exported for the items of src, with their lines or names.
loopEntries(src) ==
  [q \in (1 .. Len(sourceLoops(src))) \X Range(LoopBoundMap(src)) |->
     [line |-> sourceLoops(src)[q[1]].line, upper |-> q[2]]]
functionEntries(src) ==
  [q \in (1 .. Len(src.functions)) \X Range(RecursionBoundMap(src)) |->
     [function |-> src.functions[q[1]].name, bound |-> q[2]]]

LoopFold(g, src) ==
  g = [s \in SUBSET DOMAIN sourceLoops(src) |->
         IF s = {} THEN startOf(LoopBoundMap(src)) ELSE ProcessLoop(g[s \ {Max(s)}], sourceLoops(src)[Max(s)])]
FunctionFold(g, src) ==
  g = [s \in SUBSET DOMAIN src.functions |->
         IF s = {} THEN startOf(RecursionBoundMap(src)) ELSE VisitFunctionDecl(g[s \ {Max(s)}], src.functions[Max(s)])]

loopsOf(src) == (CHOOSE g : LoopFold(g, src))[DOMAIN sourceLoops(src)].exported
functionsOf(src) == (CHOOSE g : FunctionFold(g, src))[DOMAIN src.functions].exported

LEMMA ExportIsAFold ==
  ASSUME NEW src
  PROVE  ExportLoopBoundsJSON(src) =
           IF loopsOf(src) = << >> /\ functionsOf(src) = << >> THEN src.previous
           ELSE [loops |-> loopsOf(src), recursions |-> functionsOf(src)]
BY DEF ExportLoopBoundsJSON, FoldLeft, MapThenFoldSet, loopsOf, functionsOf, LoopFold, FunctionFold,
       startOf, sourceLoops

LEMMA BoundMaps ==
  ASSUME NEW src
  PROVE  /\ LoopBoundMap(src) = rest(LoopBoundMap(src), DOMAIN LoopBoundMap(src))
         /\ RecursionBoundMap(src) = rest(RecursionBoundMap(src), DOMAIN RecursionBoundMap(src))
<1>1. LoopBoundMap(src) = rest(LoopBoundMap(src), DOMAIN LoopBoundMap(src))
  <2> DEFINE accepted == SelectSeq(src.pragmas, LoopPragma)
             last(o) == CHOOSE i \in DOMAIN accepted :
                          accepted[i].offset = o /\ \A j \in DOMAIN accepted : accepted[j].offset = o => j <= i
             S == {accepted[i].offset : i \in DOMAIN accepted}
             v(o) == accepted[last(o)].tokens[4].value
             f == LoopBoundMap(src)
  <2>1. f = [o \in S |-> v(o)]
    BY DEF LoopBoundMap, stored
  <2> HIDE DEF f, S, v
  <2>2. f = [o \in DOMAIN f |-> f[o]]
    BY <2>1
  <2> QED BY <2>2 DEF f, rest
<1>2. RecursionBoundMap(src) = rest(RecursionBoundMap(src), DOMAIN RecursionBoundMap(src))
  <2> DEFINE accepted == SelectSeq(src.pragmas, RecursionPragma)
             last(o) == CHOOSE i \in DOMAIN accepted :
                          accepted[i].offset = o /\ \A j \in DOMAIN accepted : accepted[j].offset = o => j <= i
             S == {accepted[i].offset : i \in DOMAIN accepted}
             v(o) == accepted[last(o)].tokens[2].value
             f == RecursionBoundMap(src)
  <2>1. f = [o \in S |-> v(o)]
    BY DEF RecursionBoundMap, stored
  <2> HIDE DEF f, S, v
  <2>2. f = [o \in DOMAIN f |-> f[o]]
    BY <2>1
  <2> QED BY <2>2 DEF f, rest
<1> QED BY <1>1, <1>2

LEMMA LoopsAreExported ==
  ASSUME NEW src, IsNumbered(src), owners(LoopBoundMap(src), sourceLoops(src)) # {}
  PROVE  /\ loopOf(src) \in [DOMAIN LoopBoundMap(src) -> DOMAIN sourceLoops(src)]
         /\ \E T : loopsOf(src) \in Seq(T)
         /\ Range(loopsOf(src)) =
              {[line |-> sourceLoops(src)[loopOf(src)[o]].line, upper |-> LoopBoundMap(src)[o]] :
                 o \in DOMAIN LoopBoundMap(src)}
<1> DEFINE map == LoopBoundMap(src)
           items == sourceLoops(src)
           n == Len(items)
           own == loopOf(src)
           entry == loopEntries(src)
           E == {entry[q] : q \in (1 .. n) \X Range(map)}
<1>1. /\ items \in Seq(Range(items)) /\ DOMAIN map \subseteq Nat
      /\ \A i \in DOMAIN items : items[i].offset \in Nat
  BY DEF IsNumbered
<1>2. n \in Nat /\ DOMAIN items = 1 .. n
  <2> HIDE DEF items
  <2> QED BY <1>1
<1>3. own \in owners(map, items)
  BY DEF loopOf
<1>4. own \in [DOMAIN map -> 1 .. n] /\ Attached(map, items, own)
  BY <1>2, <1>3 DEF owners
<1>5. map = rest(map, DOMAIN map)
  BY BoundMaps
<1>6. entry \in [(1 .. n) \X Range(map) -> E]
      /\ \A k \in 1 .. n, b \in Range(map) : entry[<<k, b>>] = [line |-> items[k].line, upper |-> b]
  BY DEF loopEntries
<1> HIDE DEF map, items, n, own, entry, E
<1>7. PICK g : /\ TakesFold(g, map, n, items, entry)
               /\ \A s \in SUBSET (1 .. n) : g[s] \in Attachings(map, E)
               /\ \A s \in SUBSET (1 .. n) : s # {} => Max(s) \in 1 .. n /\ s \ {Max(s)} \in SUBSET (1 .. n)
  BY <1>1, <1>2, <1>5, <1>6, TakesFoldExists
<1>8. ASSUME NEW k \in 1 .. n, NEW s \in Attachings(map, E)
      PROVE  takes(s, items, k, entry) = ProcessLoop(s, items[k])
  <2>1. before(s.map, items[k].offset) # {} => s.map[Max(before(s.map, items[k].offset))] \in Range(map)
    BY <1>1, <1>2, <1>6, TakesType
  <2> QED BY <1>6, <2>1 DEF takes, ProcessLoop, attach
<1>9. LoopFold(g, src)
  <2>1. ASSUME NEW s \in SUBSET (1 .. n)
        PROVE  g[s] = IF s = {} THEN startOf(map) ELSE ProcessLoop(g[s \ {Max(s)}], items[Max(s)])
    BY <1>7, <1>8 DEF TakesFold
  <2>2. g = [s \in SUBSET (1 .. n) |-> g[s]]
    BY <1>7 DEF TakesFold
  <2>3. g = [s \in SUBSET DOMAIN items |->
               IF s = {} THEN startOf(map) ELSE ProcessLoop(g[s \ {Max(s)}], items[Max(s)])]
    BY <1>2, <2>1, <2>2
  <2> QED BY <2>3 DEF LoopFold, map, items
\* There is no other such fold: so it is the one that is chosen.
<1> DEFINE c == CHOOSE h : LoopFold(h, src)
<1>10. LoopFold(c, src)
  BY <1>9
<1>11. c = g
  <2> DEFINE U == {s \in SUBSET (1 .. n) : c[s] = g[s]}
  <2>0. /\ \A s \in SUBSET (1 .. n) :
             c[s] = IF s = {} THEN startOf(map) ELSE ProcessLoop(c[s \ {Max(s)}], items[Max(s)])
        /\ \A s \in SUBSET (1 .. n) :
             g[s] = IF s = {} THEN startOf(map) ELSE ProcessLoop(g[s \ {Max(s)}], items[Max(s)])
        /\ c = [s \in SUBSET (1 .. n) |-> c[s]] /\ g = [s \in SUBSET (1 .. n) |-> g[s]]
    BY <1>2, <1>9, <1>10 DEF LoopFold, map, items
  <2>1. ASSUME NEW s \in SUBSET (1 .. n), \A x1 \in s : s \ {x1} \in U PROVE s \in U
    <3>1. CASE s = {}
      BY <2>0, <3>1
    <3>2. CASE s # {}
      <4>1. Max(s) \in s
        BY <1>2, <3>2, MaxIsGreatest
      <4>2. c[s \ {Max(s)}] = g[s \ {Max(s)}]
        BY <2>1, <4>1
      <4> QED BY <2>0, <3>2, <4>2
    <3> QED BY <3>1, <3>2
  <2>2. SUBSET (1 .. n) \subseteq U
    <3> DEFINE N == 1 .. n
    <3>1. IsFiniteSet(N)
      BY <1>2, FS_Interval
    <3> HIDE DEF U
    <3>2. \A s \in SUBSET N : (\A x1 \in s : s \ {x1} \in U) => s \in U
      BY <2>1
    <3> HIDE DEF N
    <3>3. SUBSET N \subseteq U
      BY <3>1, <3>2, SubsetInduction
    <3> QED BY <3>3 DEF N
  <2>3. \A s \in SUBSET (1 .. n) : c[s] = g[s]
    BY <2>2
  <2> HIDE DEF c
  <2> QED BY <2>0, <2>3
<1>12. loopsOf(src) = g[1 .. n].exported
  BY <1>2, <1>11 DEF loopsOf, items
<1>13. /\ g[1 .. n].exported \in Seq(E)
       /\ Range(g[1 .. n].exported) = {entry[<<own[o], map[o]>>] : o \in DOMAIN map}
  <2>1. IsExport(map, n, items, E, entry, own, g)
    BY <1>1, <1>2, <1>4, <1>5, <1>6, <1>7 DEF IsExport
  <2> QED BY <2>1, PragmasAreExported
<1>14. \A o \in DOMAIN map : entry[<<own[o], map[o]>>] = [line |-> items[own[o]].line, upper |-> map[o]]
  <2>1. \A o \in DOMAIN map : own[o] \in 1 .. n /\ map[o] \in Range(map)
    BY <1>4 DEF Range
  <2> QED BY <1>6, <2>1
<1>15. Range(loopsOf(src)) = {[line |-> items[own[o]].line, upper |-> map[o]] : o \in DOMAIN map}
  <2> DEFINE mine(o) == entry[<<own[o], map[o]>>]
             exported(o) == [line |-> items[own[o]].line, upper |-> map[o]]
  <2>1. \A o \in DOMAIN map : mine(o) = exported(o)
    BY <1>14
  <2>2. Range(loopsOf(src)) = {mine(o) : o \in DOMAIN map}
    BY <1>12, <1>13
  <2>3. Range(loopsOf(src)) = {exported(o) : o \in DOMAIN map}
    <3> HIDE DEF mine, exported
    <3> QED BY <2>1, <2>2
  <2> QED BY <2>3
<1> QED BY <1>2, <1>4, <1>12, <1>13, <1>15 DEF map, items, own

LEMMA FunctionsAreExported ==
  ASSUME NEW src, IsNumbered(src), owners(RecursionBoundMap(src), src.functions) # {}
  PROVE  /\ functionOf(src) \in [DOMAIN RecursionBoundMap(src) -> DOMAIN src.functions]
         /\ \E T : functionsOf(src) \in Seq(T)
         /\ Range(functionsOf(src)) =
              {[function |-> src.functions[functionOf(src)[o]].name, bound |-> RecursionBoundMap(src)[o]] :
                 o \in DOMAIN RecursionBoundMap(src)}
<1> DEFINE map == RecursionBoundMap(src)
           items == src.functions
           n == Len(items)
           own == functionOf(src)
           entry == functionEntries(src)
           E == {entry[q] : q \in (1 .. n) \X Range(map)}
<1>1. /\ items \in Seq(Range(items)) /\ DOMAIN map \subseteq Nat
      /\ \A i \in DOMAIN items : items[i].offset \in Nat
  BY DEF IsNumbered
<1>2. n \in Nat /\ DOMAIN items = 1 .. n
  <2> HIDE DEF items
  <2> QED BY <1>1
<1>3. own \in owners(map, items)
  BY DEF functionOf
<1>4. own \in [DOMAIN map -> 1 .. n] /\ Attached(map, items, own)
  BY <1>2, <1>3 DEF owners
<1>5. map = rest(map, DOMAIN map)
  BY BoundMaps
<1>6. entry \in [(1 .. n) \X Range(map) -> E]
      /\ \A k \in 1 .. n, b \in Range(map) : entry[<<k, b>>] = [function |-> items[k].name, bound |-> b]
  BY DEF functionEntries
<1> HIDE DEF map, items, n, own, entry, E
<1>7. PICK g : /\ TakesFold(g, map, n, items, entry)
               /\ \A s \in SUBSET (1 .. n) : g[s] \in Attachings(map, E)
               /\ \A s \in SUBSET (1 .. n) : s # {} => Max(s) \in 1 .. n /\ s \ {Max(s)} \in SUBSET (1 .. n)
  BY <1>1, <1>2, <1>5, <1>6, TakesFoldExists
<1>8. ASSUME NEW k \in 1 .. n, NEW s \in Attachings(map, E)
      PROVE  takes(s, items, k, entry) = VisitFunctionDecl(s, items[k])
  <2>1. before(s.map, items[k].offset) # {} => s.map[Max(before(s.map, items[k].offset))] \in Range(map)
    BY <1>1, <1>2, <1>6, TakesType
  <2> QED BY <1>6, <2>1 DEF takes, VisitFunctionDecl, attach
<1>9. FunctionFold(g, src)
  <2>1. ASSUME NEW s \in SUBSET (1 .. n)
        PROVE  g[s] = IF s = {} THEN startOf(map) ELSE VisitFunctionDecl(g[s \ {Max(s)}], items[Max(s)])
    BY <1>7, <1>8 DEF TakesFold
  <2>2. g = [s \in SUBSET (1 .. n) |-> g[s]]
    BY <1>7 DEF TakesFold
  <2>3. g = [s \in SUBSET DOMAIN items |->
               IF s = {} THEN startOf(map) ELSE VisitFunctionDecl(g[s \ {Max(s)}], items[Max(s)])]
    BY <1>2, <2>1, <2>2
  <2> QED BY <2>3 DEF FunctionFold, map, items
<1> DEFINE c == CHOOSE h : FunctionFold(h, src)
<1>10. FunctionFold(c, src)
  BY <1>9
<1>11. c = g
  <2> DEFINE U == {s \in SUBSET (1 .. n) : c[s] = g[s]}
  <2>0. /\ \A s \in SUBSET (1 .. n) :
             c[s] = IF s = {} THEN startOf(map) ELSE VisitFunctionDecl(c[s \ {Max(s)}], items[Max(s)])
        /\ \A s \in SUBSET (1 .. n) :
             g[s] = IF s = {} THEN startOf(map) ELSE VisitFunctionDecl(g[s \ {Max(s)}], items[Max(s)])
        /\ c = [s \in SUBSET (1 .. n) |-> c[s]] /\ g = [s \in SUBSET (1 .. n) |-> g[s]]
    BY <1>2, <1>9, <1>10 DEF FunctionFold, map, items
  <2>1. ASSUME NEW s \in SUBSET (1 .. n), \A x1 \in s : s \ {x1} \in U PROVE s \in U
    <3>1. CASE s = {}
      BY <2>0, <3>1
    <3>2. CASE s # {}
      <4>1. Max(s) \in s
        BY <1>2, <3>2, MaxIsGreatest
      <4>2. c[s \ {Max(s)}] = g[s \ {Max(s)}]
        BY <2>1, <4>1
      <4> QED BY <2>0, <3>2, <4>2
    <3> QED BY <3>1, <3>2
  <2>2. SUBSET (1 .. n) \subseteq U
    <3> DEFINE N == 1 .. n
    <3>1. IsFiniteSet(N)
      BY <1>2, FS_Interval
    <3> HIDE DEF U
    <3>2. \A s \in SUBSET N : (\A x1 \in s : s \ {x1} \in U) => s \in U
      BY <2>1
    <3> HIDE DEF N
    <3>3. SUBSET N \subseteq U
      BY <3>1, <3>2, SubsetInduction
    <3> QED BY <3>3 DEF N
  <2>3. \A s \in SUBSET (1 .. n) : c[s] = g[s]
    BY <2>2
  <2> HIDE DEF c
  <2> QED BY <2>0, <2>3
<1>12. functionsOf(src) = g[1 .. n].exported
  BY <1>2, <1>11 DEF functionsOf, items
<1>13. /\ g[1 .. n].exported \in Seq(E)
       /\ Range(g[1 .. n].exported) = {entry[<<own[o], map[o]>>] : o \in DOMAIN map}
  <2>1. IsExport(map, n, items, E, entry, own, g)
    BY <1>1, <1>2, <1>4, <1>5, <1>6, <1>7 DEF IsExport
  <2> QED BY <2>1, PragmasAreExported
<1>14. \A o \in DOMAIN map : entry[<<own[o], map[o]>>] = [function |-> items[own[o]].name, bound |-> map[o]]
  <2>1. \A o \in DOMAIN map : own[o] \in 1 .. n /\ map[o] \in Range(map)
    BY <1>4 DEF Range
  <2> QED BY <1>6, <2>1
<1>15. Range(functionsOf(src)) = {[function |-> items[own[o]].name, bound |-> map[o]] : o \in DOMAIN map}
  <2> DEFINE mine(o) == entry[<<own[o], map[o]>>]
             exported(o) == [function |-> items[own[o]].name, bound |-> map[o]]
  <2>1. \A o \in DOMAIN map : mine(o) = exported(o)
    BY <1>14
  <2>2. Range(functionsOf(src)) = {mine(o) : o \in DOMAIN map}
    BY <1>12, <1>13
  <2>3. Range(functionsOf(src)) = {exported(o) : o \in DOMAIN map}
    <3> HIDE DEF mine, exported
    <3> QED BY <2>1, <2>2
  <2> QED BY <2>3
<1> QED BY <1>2, <1>4, <1>12, <1>13, <1>15 DEF map, items, own

\* The JSON file has the pragmas, each with the line of its loop or the name of its
\* function, and nothing else.
lineOf(src, o) == sourceLoops(src)[loopOf(src)[o]].line
nameOf(src, o) == src.functions[functionOf(src)[o]].name

LEMMA ExportIsExact ==
  ASSUME NEW src, PragmasBelong(src), NEW json, json = ExportLoopBoundsJSON(src)
  PROVE  /\ Range(json.loops) =
              {[line |-> lineOf(src, o), upper |-> LoopBoundMap(src)[o]] : o \in DOMAIN LoopBoundMap(src)}
         /\ Range(json.recursions) =
              {[function |-> nameOf(src, o), bound |-> RecursionBoundMap(src)[o]] : o \in DOMAIN RecursionBoundMap(src)}
         /\ \E n \in Nat : DOMAIN json.loops = 1 .. n
         /\ \E n \in Nat : DOMAIN json.recursions = 1 .. n
<1> DEFINE L == loopsOf(src)
           F == functionsOf(src)
           A == {[line |-> lineOf(src, o), upper |-> LoopBoundMap(src)[o]] : o \in DOMAIN LoopBoundMap(src)}
           B == {[function |-> nameOf(src, o), bound |-> RecursionBoundMap(src)[o]] : o \in DOMAIN RecursionBoundMap(src)}
<1>1. Range(L) = A /\ \E T : L \in Seq(T)
  BY LoopsAreExported DEF PragmasBelong, lineOf
<1>2. Range(F) = B /\ \E T : F \in Seq(T)
  BY FunctionsAreExported DEF PragmasBelong, nameOf
<1> HIDE DEF L, F
<1>3. Range(<< >>) = {}
  BY DEF Range
<1>4. (\E n \in Nat : DOMAIN L = 1 .. n) /\ (\E n \in Nat : DOMAIN F = 1 .. n)
  BY <1>1, <1>2
<1>5. json = IF L = << >> /\ F = << >> THEN src.previous ELSE [loops |-> L, recursions |-> F]
  BY ExportIsAFold DEF L, F
<1>6. CASE L = << >> /\ F = << >>
  <2>1. DOMAIN LoopBoundMap(src) = {} /\ DOMAIN RecursionBoundMap(src) = {}
    BY <1>1, <1>2, <1>3, <1>6
  <2>2. json.loops = L /\ json.recursions = F
    BY <1>5, <1>6, <2>1 DEF PragmasBelong, NoBounds
  <2> QED BY <1>1, <1>2, <1>4, <2>2
<1>7. CASE ~(L = << >> /\ F = << >>)
  <2>1. json.loops = L /\ json.recursions = F
    BY <1>5, <1>7
  <2> QED BY <1>1, <1>2, <1>4, <2>1
<1> QED BY <1>6, <1>7

\* So the bound found at a line is one of the bounds of the loops there, and there
\* is one if there is such a loop.
LEMMA LinesHaveTheirBounds ==
  ASSUME NEW src, PragmasBelong(src), NEW J, J = JSONBoundsByLocation(ExportLoopBoundsJSON(src)), NEW lines
  PROVE  /\ \A l \in DOMAIN J : l[2] \in Nat
         /\ \A l \in lines \cap DOMAIN J : J[l] \in boundsAt(src, lines)
         /\ boundsAt(src, lines) # {} => lines \cap DOMAIN J # {}
<1> DEFINE json == ExportLoopBoundsJSON(src)
           at0(l) == {i \in DOMAIN json.loops : json.loops[i].line = l}
           map == LoopBoundMap(src)
<1>1. /\ Range(json.loops) = {[line |-> lineOf(src, o), upper |-> map[o]] : o \in DOMAIN map}
      /\ \E n \in Nat : DOMAIN json.loops = 1 .. n
  BY ExportIsExact
<1>2. \A o \in DOMAIN map : loopOf(src)[o] \in DOMAIN sourceLoops(src)
  BY LoopsAreExported DEF PragmasBelong
<1>3. \A o \in DOMAIN map : lineOf(src, o)[2] \in Nat
  BY <1>2 DEF lineOf, PragmasBelong, IsNumbered
<1>4. J = [l \in {json.loops[i].line : i \in DOMAIN json.loops} |-> json.loops[Max(at0(l))].upper]
  BY DEF JSONBoundsByLocation
<1> HIDE DEF json, map
<1>5. \A i \in DOMAIN json.loops : \E o \in DOMAIN map : json.loops[i].line = lineOf(src, o) /\ json.loops[i].upper = map[o]
  <2> TAKE i \in DOMAIN json.loops
  <2>1. json.loops[i] \in Range(json.loops)
    BY DEF Range
  <2>2. PICK o \in DOMAIN map : json.loops[i] = [line |-> lineOf(src, o), upper |-> map[o]]
    BY <1>1, <2>1
  <2> QED BY <2>2
<1>6. \A o \in DOMAIN map : \E i \in DOMAIN json.loops : json.loops[i].line = lineOf(src, o)
  <2> TAKE o \in DOMAIN map
  <2>1. [line |-> lineOf(src, o), upper |-> map[o]] \in Range(json.loops)
    BY <1>1
  <2>2. PICK i \in DOMAIN json.loops : json.loops[i] = [line |-> lineOf(src, o), upper |-> map[o]]
    BY <2>1 DEF Range
  <2> QED BY <2>2
<1>7. ASSUME NEW l \in DOMAIN J PROVE \E o \in DOMAIN map : l = lineOf(src, o) /\ J[l] = map[o]
  <2>1. at0(l) # {}
    BY <1>4
  <2>2. PICK n \in Nat : DOMAIN json.loops = 1 .. n
    BY <1>1
  <2>3. Max(at0(l)) \in at0(l)
    <3>1. at0(l) \in SUBSET (1 .. n)
      BY <2>2
    <3> HIDE DEF at0
    <3> QED BY <2>1, <3>1, MaxIsGreatest
  <2>4. J[l] = json.loops[Max(at0(l))].upper
    BY <1>4
  <2> QED BY <1>5, <2>3, <2>4
<1>8. \A l \in lines \cap DOMAIN J : J[l] \in boundsAt(src, lines)
  BY <1>7 DEF boundsAt, map, lineOf
<1>9. boundsAt(src, lines) # {} => lines \cap DOMAIN J # {}
  <2> SUFFICES ASSUME boundsAt(src, lines) # {} PROVE lines \cap DOMAIN J # {}
    OBVIOUS
  <2>1. PICK o \in DOMAIN map : lineOf(src, o) \in lines
    BY DEF boundsAt, map, lineOf
  <2>2. lineOf(src, o) \in DOMAIN J
    BY <1>4, <1>6, <2>1
  <2> QED BY <2>1, <2>2
<1> QED BY <1>3, <1>7, <1>8, <1>9

LEMMA FunctionsHaveTheirBounds ==
  ASSUME NEW src, PragmasBelong(src), NEW R, R = loadRecursionBounds(ExportLoopBoundsJSON(src)), NEW f
  PROVE  /\ f \in DOMAIN R => R[f] \in recursionBounds(src, f) /\ R[f] > 0
         /\ (\E k \in recursionBounds(src, f) : k > 0) => f \in DOMAIN R
<1> DEFINE json == ExportLoopBoundsJSON(src)
           used == {i \in DOMAIN json.recursions : json.recursions[i].bound > 0}
           of(g) == {i \in used : json.recursions[i].function = g}
           map == RecursionBoundMap(src)
<1>1. /\ Range(json.recursions) = {[function |-> nameOf(src, o), bound |-> map[o]] : o \in DOMAIN map}
      /\ \E n \in Nat : DOMAIN json.recursions = 1 .. n
  BY ExportIsExact
<1>2. R = [g \in {json.recursions[i].function : i \in used} |-> json.recursions[Max(of(g))].bound]
  BY DEF loadRecursionBounds
<1> HIDE DEF json, map
<1>3. \A i \in DOMAIN json.recursions :
        \E o \in DOMAIN map : json.recursions[i].function = nameOf(src, o) /\ json.recursions[i].bound = map[o]
  <2> TAKE i \in DOMAIN json.recursions
  <2>1. json.recursions[i] \in Range(json.recursions)
    BY DEF Range
  <2>2. PICK o \in DOMAIN map : json.recursions[i] = [function |-> nameOf(src, o), bound |-> map[o]]
    BY <1>1, <2>1
  <2> QED BY <2>2
<1>4. \A o \in DOMAIN map :
        \E i \in DOMAIN json.recursions : json.recursions[i].function = nameOf(src, o) /\ json.recursions[i].bound = map[o]
  <2> TAKE o \in DOMAIN map
  <2>1. [function |-> nameOf(src, o), bound |-> map[o]] \in Range(json.recursions)
    BY <1>1
  <2>2. PICK i \in DOMAIN json.recursions : json.recursions[i] = [function |-> nameOf(src, o), bound |-> map[o]]
    BY <2>1 DEF Range
  <2> QED BY <2>2
<1>5. ASSUME f \in DOMAIN R PROVE R[f] \in recursionBounds(src, f) /\ R[f] > 0
  <2>1. of(f) # {}
    BY <1>2, <1>5
  <2>2. PICK n \in Nat : DOMAIN json.recursions = 1 .. n
    BY <1>1
  <2>3. Max(of(f)) \in of(f)
    <3>1. of(f) \in SUBSET (1 .. n)
      BY <2>2
    <3> HIDE DEF of
    <3> QED BY <2>1, <3>1, MaxIsGreatest
  <2>4. R[f] = json.recursions[Max(of(f))].bound
    BY <1>2, <1>5
  <2>5. PICK o \in DOMAIN map : nameOf(src, o) = f /\ map[o] = R[f]
    BY <1>3, <2>3, <2>4
  <2> QED BY <2>3, <2>4, <2>5 DEF recursionBounds, map, nameOf
<1>6. ASSUME NEW k \in recursionBounds(src, f), k > 0 PROVE f \in DOMAIN R
  <2>1. PICK o \in DOMAIN map : nameOf(src, o) = f /\ map[o] = k
    BY DEF recursionBounds, map, nameOf
  <2> QED BY <1>2, <1>4, <1>6, <2>1
<1> QED BY <1>5, <1>6

-----------------------------------------------------------------------------
\* Every source of a bound has one of the loop's own or none, so that the pass
\* finds a bound for each loop that has one.
LEMMA LeastLine ==
  ASSUME NEW hits, hits # {}, \A l \in hits : l[2] \in Nat
  PROVE  (CHOOSE l \in hits : \A k \in hits : l[2] <= k[2]) \in hits
<1> DEFINE K == {l[2] : l \in hits}
<1>1. PICK k \in K : \A j \in K : k <= j
  <2>1. K \subseteq Nat /\ K # {}
    OBVIOUS
  <2> HIDE DEF K
  <2> QED BY <2>1, LeastNatural
<1>2. PICK l \in hits : l[2] = k
  BY <1>1
<1>3. \A j \in hits : l[2] <= j[2]
  BY <1>1, <1>2
<1> QED BY <1>3

\* Bounds at more lines are more bounds.
LEMMA BoundsGrow ==
  ASSUME NEW src, NEW lines, NEW more, lines \subseteq more
  PROVE  boundsAt(src, lines) \subseteq boundsAt(src, more)
BY DEF boundsAt

LEMMA ScannedIsABound ==
  ASSUME NEW p, PragmasBelong(p.source), NEW J, J = JSONBoundsByLocation(ExportLoopBoundsJSON(p.source)), NEW blocks
  PROVE  /\ scanned(p, J, blocks) \in boundsAt(p.source, linesOf(p, blocks)) \cup {0}
         /\ boundsAt(p.source, linesOf(p, blocks)) # {} =>
              scanned(p, J, blocks) \in boundsAt(p.source, linesOf(p, blocks))
<1> DEFINE lines == linesOf(p, blocks)
           hits == lines \cap DOMAIN J
           l0 == CHOOSE l \in hits : \A k \in hits : l[2] <= k[2]
<1>1. /\ \A l \in DOMAIN J : l[2] \in Nat
      /\ \A l \in hits : J[l] \in boundsAt(p.source, lines)
      /\ boundsAt(p.source, lines) # {} => hits # {}
  BY LinesHaveTheirBounds
<1>2. scanned(p, J, blocks) = IF hits = {} THEN 0 ELSE J[l0]
  BY DEF scanned, linesOf
<1>3. hits # {} => l0 \in hits
  <2>1. \A l \in hits : l[2] \in Nat
    BY <1>1
  <2> HIDE DEF hits
  <2> QED BY <2>1, LeastLine
<1> HIDE DEF l0, hits
<1> QED BY <1>1, <1>2, <1>3

LEMMA FirstBoundIsASource ==
  ASSUME NEW sources, DOMAIN sources = 1 .. 5, \E i \in 1 .. 5 : sources[i] > 0
  PROVE  \E i \in 1 .. 5 : firstBound(sources) = sources[i] /\ sources[i] > 0
<1> DEFINE found == {i \in DOMAIN sources : sources[i] > 0}
<1>1. found # {} /\ found \subseteq Nat
  OBVIOUS
<1>2. PICK i \in found : \A j \in found : i <= j
  <2> HIDE DEF found
  <2> QED BY <1>1, LeastNatural
<1>3. Min(found) \in found
  <2> HIDE DEF found
  <2> QED BY <1>2 DEF Min
<1>4. firstBound(sources) = sources[Min(found)]
  BY <1>1 DEF firstBound
<1> HIDE DEF found
<1> QED BY <1>3, <1>4 DEF found

LEMMA LoopBoundIsRight ==
  ASSUME NEW p, PragmasBelong(p.source), NaturalLoopsAreBounded(p),
         NEW J, J = JSONBoundsByLocation(ExportLoopBoundsJSON(p.source)),
         NEW f \in Defined(p), NEW h \in headersOf(p, f)
  PROVE  loopBound(p, f, h, J) \in loopBounds(p, f, h)
<1> DEFINE own == linesOf(p, ownBlocks(p, f, h))
           lines == loopLines(p, f, h)
           A == boundsAt(p.source, lines)
           trips == irLoop(p, h).trips
           pragma == pragmaOf(irLoop(p, h), J)
           scan == scanned(p, J, ownBlocks(p, f, h))
           maxBTC == irLoop(p, h).maxBTC
           implicit == implicitBound(p, f, h)
           sources == <<trips, pragma, scan, maxBTC, implicit>>
           K == loopBounds(p, f, h)
<1>1. K # {} /\ \A k \in K : k \in Nat \ {0}
  BY DEF NaturalLoopsAreBounded, allow
<1>2. A \subseteq K /\ K = A \cup ({trips, maxBTC, implicit} \ {0})
  BY DEF loopBounds, computedBounds
<1>3. boundsAt(p.source, own) \subseteq A /\ irLoop(p, h).start \in lines /\ irLoop(p, h).first \in lines /\ own \subseteq lines
  BY BoundsGrow DEF loopLines
<1>4. /\ \A l \in lines \cap DOMAIN J : J[l] \in A
      /\ A # {} => lines \cap DOMAIN J # {}
  BY LinesHaveTheirBounds
<1>5. pragma \in A \cup {0}
  BY <1>3, <1>4 DEF pragmaOf
<1>6. scan \in boundsAt(p.source, own) \cup {0}
      /\ (boundsAt(p.source, own) # {} => scan \in boundsAt(p.source, own))
  BY ScannedIsABound
<1>7. A # {} => pragma \in A \/ scan \in A
  <2> SUFFICES ASSUME A # {} PROVE pragma \in A \/ scan \in A
    OBVIOUS
  <2>1. PICK l \in lines \cap DOMAIN J : TRUE
    BY <1>4
  <2>2. CASE l \in own
    <3>1. J[l] \in boundsAt(p.source, own)
      BY <2>1, <2>2, LinesHaveTheirBounds
    <3> QED BY <1>3, <1>6, <3>1
  <2>3. CASE l = irLoop(p, h).start \/ l = irLoop(p, h).first
    BY <1>3, <1>4, <2>1, <2>3 DEF pragmaOf
  <2> QED BY <2>1, <2>2, <2>3 DEF loopLines
<1>8. \A v \in {trips, pragma, scan, maxBTC, implicit} : v = 0 \/ v \in K
  BY <1>2, <1>3, <1>5, <1>6
<1>9. \E v \in {trips, pragma, scan, maxBTC, implicit} : v \in K
  BY <1>1, <1>2, <1>7
<1> HIDE DEF trips, pragma, scan, maxBTC, implicit, K, A
<1>10. /\ DOMAIN sources = 1 .. 5
       /\ sources[1] = trips /\ sources[2] = pragma /\ sources[3] = scan /\ sources[4] = maxBTC /\ sources[5] = implicit
  OBVIOUS
<1>11. \A i \in 1 .. 5 : sources[i] > 0 => sources[i] \in K
  <2> TAKE i \in 1 .. 5
  <2>1. i = 1 \/ i = 2 \/ i = 3 \/ i = 4 \/ i = 5
    OBVIOUS
  <2>2. sources[i] \in {trips, pragma, scan, maxBTC, implicit}
    BY <1>10, <2>1
  <2> QED BY <1>8, <2>2
<1>12. \E i \in 1 .. 5 : sources[i] > 0
  <2>1. PICK v \in {trips, pragma, scan, maxBTC, implicit} : v \in K
    BY <1>9
  <2>2. v \in Nat \ {0}
    BY <1>1, <2>1
  <2>3. v > 0
    BY <2>2
  <2> QED BY <1>10, <2>1, <2>3
<1>13. loopBound(p, f, h, J) = firstBound(sources)
  BY DEF loopBound, trips, pragma, scan, maxBTC, implicit
<1> HIDE DEF sources
<1>14. \E i \in 1 .. 5 : firstBound(sources) = sources[i] /\ sources[i] > 0
  BY <1>10, <1>12, FirstBoundIsASource
<1> QED BY <1>11, <1>13, <1>14 DEF K

-----------------------------------------------------------------------------
(***************************************************************************)
(* The shape of loops.  A natural loop is entered at its header, and its back  *)
(* edges come from inside; so do those of the depth first search.            *)
(***************************************************************************)
LEMMA EdgeStaysInFunction ==
  ASSUME NEW p, WellFormed(p), NEW f \in Defined(p), NEW e \in p.succ,
         e[1] \in BlocksOf(p, f) \/ e[2] \in BlocksOf(p, f)
  PROVE  e[1] \in BlocksOf(p, f) /\ e[2] \in BlocksOf(p, f) /\ e = <<e[1], e[2]>>
<1>1. e \in Blocks(p) \X Blocks(p)
  BY DEF WellFormed
<1>2. PICK g \in Defined(p) : e[1] \in BlocksOf(p, g)
  BY <1>1, Owners
<1>3. e[2] \in BlocksOf(p, g)
  BY <1>2 DEF WellFormed
<1>4. f = g
  BY <1>2, <1>3 DEF WellFormed
<1> QED BY <1>1, <1>2, <1>3, <1>4

LEMMA NaturalLoopShape ==
  ASSUME NEW p, WellFormed(p), NEW f \in Defined(p), NEW h \in headersOf(p, f)
  PROVE  LET body == loopBlocks(p, f, h) IN
         /\ h \in body /\ body \subseteq BlocksOf(p, f)
         /\ \A e \in loopBackEdges(p, f) : e[2] = h => e \in p.succ /\ e[1] \in body
         /\ \A e \in p.succ : e[2] \in body /\ e[1] \notin body => e[2] = h
         /\ \A g \in Defined(p) : firstBlockOf(p, g) \in body => firstBlockOf(p, g) = h
<1> DEFINE B == BlocksOf(p, f)
           E == {e \in p.succ : e[1] \in B}
           entry == p.layout[f][1]
           backwards == {<<e[2], e[1]>> : e \in {d \in p.succ : d[1] \in B /\ d[1] # h /\ d[2] # h}}
           latches == {e[1] : e \in {d \in loopBackEdges(p, f) : d[2] = h}}
           forwards == {e \in E : e[2] # h}
           body == loopBlocks(p, f, h)
           avoids(k, u) == k # entry /\ u \in closure(entry, {e \in E : e[2] # k}, B)
<1>1. body = {h} \cup UNION {closure(l, backwards, B) : l \in latches \ {h}}
  BY DEF loopBlocks
<1>2. \A e \in loopBackEdges(p, f) : e \in E /\ ~avoids(e[2], e[1])
  BY DEF loopBackEdges
<1>3. h \in B /\ latches \subseteq B
  <2>1. \A e \in loopBackEdges(p, f) : e[1] \in B /\ e[2] \in B
    BY <1>2, EdgeStaysInFunction
  <2> QED BY <2>1 DEF headersOf
<1>4. entry \in B /\ \A g \in Defined(p) : firstBlockOf(p, g) \in B => firstBlockOf(p, g) = entry
  <2>1. \A g \in Defined(p) : firstBlockOf(p, g) \in BlocksOf(p, g)
    BY EntryBlocks DEF firstBlockOf
  <2> QED BY <2>1 DEF firstBlockOf, WellFormed
<1>5. \A l \in latches \ {h} : h # entry => l \notin closure(entry, forwards, B)
  BY <1>2
<1>6. backwards \subseteq B \X B /\ \A d \in p.succ : d[1] \in B /\ d[1] # h /\ d[2] # h => <<d[2], d[1]>> \in backwards
  BY EdgeStaysInFunction
<1>7. \A u, v : <<u, v>> \in backwards => <<v, u>> \in forwards
  <2> SUFFICES ASSUME NEW u, NEW v, <<u, v>> \in backwards PROVE <<v, u>> \in forwards
    OBVIOUS
  <2>1. PICK d \in p.succ : d[1] \in B /\ d[2] # h /\ <<u, v>> = <<d[2], d[1]>>
    OBVIOUS
  <2>2. d = <<v, u>>
    BY <2>1, EdgeStaysInFunction
  <2> QED BY <2>1, <2>2
<1> HIDE DEF B, E, backwards, latches, forwards, entry, body
<1>8. body \subseteq B /\ h \in body
  BY <1>1, <1>3, ClosureWithin
<1>9. ASSUME NEW e \in loopBackEdges(p, f), e[2] = h PROVE e \in p.succ /\ e[1] \in body
  <2>1. e \in p.succ /\ e[1] \in latches
    BY <1>2, <1>9 DEF E, latches
  <2>2. e[1] \in closure(e[1], backwards, B)
    BY <1>3, <2>1, ClosureRoot
  <2> QED BY <1>1, <2>1, <2>2
<1>10. ASSUME NEW e \in p.succ, e[2] \in body, e[1] \notin body, e[2] # h PROVE FALSE
  <2>1. PICK l \in latches \ {h} : e[2] \in closure(l, backwards, B)
    BY <1>1, <1>10
  <2>2. e[1] \in B /\ e[1] # h
    BY <1>1, <1>8, <1>10, EdgeStaysInFunction DEF B
  <2>3. <<e[2], e[1]>> \in backwards
    BY <1>6, <1>10, <2>2
  <2>4. e[1] \in closure(l, backwards, B)
    BY <2>1, <2>2, <2>3, ClosureStep
  <2> QED BY <1>1, <1>10, <2>1, <2>4
<1>11. ASSUME NEW g \in Defined(p), firstBlockOf(p, g) \in body, firstBlockOf(p, g) # h PROVE FALSE
  <2>1. entry \in body /\ entry # h
    BY <1>4, <1>8, <1>11
  <2>2. PICK l \in latches \ {h} : entry \in closure(l, backwards, B)
    BY <1>1, <2>1
  <2>3. l \in closure(entry, forwards, B)
    <3>1. l \in B
      BY <1>3, <2>2
    <3> QED BY <1>6, <1>7, <2>2, <3>1, ClosureReversed
  <2> QED BY <1>5, <2>1, <2>2, <2>3
<1> QED BY <1>8, <1>9, <1>10, <1>11 DEF body, B

LEMMA SearchedLoopShape ==
  ASSUME NEW p, WellFormed(p), NEW f \in Defined(p), IsFiniteSet(BlocksOf(p, f)), NEW e \in findBackEdges(p, f)
  PROVE  LET body == computeLoopBody(p, f, e[2]) IN
         /\ e \in p.succ /\ e[1] \in BlocksOf(p, f) /\ e[2] \in BlocksOf(p, f)
         /\ e[1] \in body /\ e[2] \in body /\ body \subseteq BlocksOf(p, f)
<1> DEFINE B == BlocksOf(p, f)
           entry == p.layout[f][1]
           scc == closure(entry, p.succ, B)
<1>1. entry \in B /\ entry \in scc /\ scc \subseteq B /\ IsFiniteSet(scc)
  <2>1. entry \in B
    BY EntryBlocks
  <2> QED BY <2>1, ClosureRoot, ClosureWithin, FS_Subset
<1>2. Ranks(p.visited, scc)
  <2>1. \A b \in Blocks(p) : p.visited[b] \in Nat
    BY DEF WellFormed
  <2>2. scc \subseteq Blocks(p)
    BY <1>1 DEF Blocks
  <2> HIDE DEF scc
  <2> QED BY <2>1, <2>2 DEF Ranks
<1>3. findBackEdges(p, f) = findSCCBackEdges(scc, {entry}, p.succ, p.visited)
  BY DEF findBackEdges
<1> HIDE DEF B, entry, scc
<1>4. e \in p.succ /\ e \in scc \X scc /\ e[1] \in closure(e[2], among(p.succ, scc), scc)
  BY <1>1, <1>2, <1>3, BackEdgesCloseCycles
<1>5. closure(e[2], among(p.succ, scc), scc) \subseteq closure(e[2], p.succ, B)
  <2>1. among(p.succ, scc) \in SUBSET (scc \X scc) /\ among(p.succ, scc) \subseteq p.succ
    BY DEF among
  <2> QED BY <1>1, <1>4, <2>1, ClosureGrows
<1>6. e[1] \in closure(e[2], p.succ, B) /\ e[2] \in closure(e[2], p.succ, B) /\ e[1] \in B /\ e[2] \in B
  BY <1>1, <1>4, <1>5, ClosureRoot
<1>7. e[2] \in closure(e[1], p.succ, B)
  <2>1. e[1] \in closure(e[1], p.succ, B) /\ <<e[1], e[2]>> \in p.succ
    BY <1>4, <1>6, ClosureRoot
  <2> QED BY <1>6, <2>1, ClosureStep
<1>8. computeLoopBody(p, f, e[2]) = {b \in closure(e[2], p.succ, B) : e[2] \in closure(b, p.succ, B)}
  BY DEF computeLoopBody, B
<1> QED BY <1>4, <1>6, <1>7, <1>8, ClosureWithin DEF B

-----------------------------------------------------------------------------
(***************************************************************************)
(* The cycles of the call graph.                                            *)
(***************************************************************************)
\* What is reached from a node, but for the node itself, is reached over one of its
\* other successors.
LEMMA ClosureFirstStep ==
  ASSUME NEW nodes, NEW edges \in SUBSET (nodes \X nodes), NEW root \in nodes,
         NEW n \in closure(root, edges, nodes), n # root
  PROVE  \E h \in nodes \ {root} : <<root, h>> \in edges /\ n \in closure(h, edges, nodes)
<1> DEFINE beyond(m) == \E h \in nodes \ {root} : <<root, h>> \in edges /\ m \in closure(h, edges, nodes)
           S == {m \in nodes : m = root \/ beyond(m)}
<1>1. ASSUME NEW e \in edges, e[1] \in S PROVE e[2] \in S
  <2>1. e = <<e[1], e[2]>> /\ e[2] \in nodes
    OBVIOUS
  <2>2. CASE e[1] = root /\ e[2] # root
    <3>1. e[2] \in closure(e[2], edges, nodes)
      BY <2>1, ClosureRoot
    <3> QED BY <2>1, <2>2, <3>1
  <2>3. CASE beyond(e[1])
    <3>1. PICK h \in nodes \ {root} : <<root, h>> \in edges /\ e[1] \in closure(h, edges, nodes)
      BY <2>3
    <3>2. e[2] \in closure(h, edges, nodes)
      BY <2>1, <3>1, ClosureStep
    <3> QED BY <2>1, <3>1, <3>2
  <2>4. CASE e[2] = root
    BY <2>1, <2>4
  <2> QED BY <1>1, <2>2, <2>3, <2>4
<1>2. closure(root, edges, nodes) \subseteq S
  <2>1. S \in SUBSET nodes /\ root \in S
    OBVIOUS
  <2> HIDE DEF S
  <2> QED BY <1>1, <2>1, ClosureKeeps
<1> QED BY <1>2

LEMMA CallGraphIsWithin ==
  ASSUME NEW p, WellFormed(p)
  PROVE  /\ callGraph(p) \in SUBSET (Defined(p) \X Defined(p))
         /\ callGraph(p) \subseteq calledFrom(p)
         /\ \A a \in calledFrom(p) : a[1] \in Defined(p) /\ (a[2] \in Defined(p) => a \in callGraph(p))
<1>1. \A b \in DOMAIN p.calls : ownerOf(p, b) \in Defined(p)
  BY Owners DEF WellFormed
<1>2. \A b \in DOMAIN p.calls : p.calls[b] \in Defined(p) => p.calls[b] \notin p.symbols
  BY DEF WellFormed
<1>3. \A a \in callGraph(p) : \E b \in DOMAIN p.calls : p.calls[b] \in Defined(p) /\ a = <<ownerOf(p, b), p.calls[b]>>
  BY DEF callGraph
<1>4. \A a \in calledFrom(p) : \E b \in DOMAIN p.calls : p.calls[b] \notin p.symbols /\ a = <<ownerOf(p, b), p.calls[b]>>
  BY DEF calledFrom
<1>5. \A b \in DOMAIN p.calls : p.calls[b] \in Defined(p) => <<ownerOf(p, b), p.calls[b]>> \in callGraph(p)
  BY DEF callGraph
<1>6. \A b \in DOMAIN p.calls : p.calls[b] \notin p.symbols => <<ownerOf(p, b), p.calls[b]>> \in calledFrom(p)
  BY DEF calledFrom
<1> QED BY <1>1, <1>2, <1>3, <1>4, <1>5, <1>6

\* Functions without a body call nothing, so they change nothing.
LEMMA SameCallers ==
  ASSUME NEW p, WellFormed(p), NEW f \in Defined(p) \cap callNodes(p), NEW g \in Defined(p)
  PROVE  g \in closure(f, calledFrom(p), callNodes(p)) <=> g \in closure(f, callGraph(p), Defined(p))
<1> DEFINE adj == calledFrom(p)
           F == callNodes(p)
           cg == callGraph(p)
           D == Defined(p)
<1>1. /\ cg \subseteq D \X D /\ cg \subseteq adj
      /\ \A a \in adj : a[1] \in D /\ (a[2] \in D => a \in cg)
  BY CallGraphIsWithin
<1>2. adj \subseteq F \X F
  <2>1. \A a \in adj : a = <<a[1], a[2]>>
    BY DEF calledFrom
  <2> QED BY <2>1 DEF callNodes
<1> HIDE DEF adj, F, cg, D
<1>3. ASSUME g \in closure(f, cg, D) PROVE g \in closure(f, adj, F)
  <2> DEFINE S == {n \in D : n \in closure(f, adj, F)}
  <2>1. f \in S
    BY ClosureRoot DEF D, F
  <2>2. ASSUME NEW e \in cg, e[1] \in S PROVE e[2] \in S
    <3>1. e \in adj /\ e = <<e[1], e[2]>> /\ e[2] \in D /\ e[2] \in F
      BY <1>1, <1>2
    <3> QED BY <2>2, <3>1, ClosureStep
  <2>3. closure(f, cg, D) \subseteq S
    <3>1. S \in SUBSET D
      OBVIOUS
    <3> HIDE DEF S
    <3> QED BY <2>1, <2>2, <3>1, ClosureKeeps
  <2> QED BY <1>3, <2>3
<1>4. ASSUME g \in closure(f, adj, F) PROVE g \in closure(f, cg, D)
  <2> DEFINE S == {n \in F : n \in D => n \in closure(f, cg, D)}
  <2>1. f \in S
    BY ClosureRoot DEF D, F
  <2>2. ASSUME NEW e \in adj, e[1] \in S PROVE e[2] \in S
    <3>1. e[1] \in closure(f, cg, D) /\ e = <<e[1], e[2]>> /\ e[2] \in F
      BY <1>1, <1>2, <2>2
    <3>2. e[2] \in D => e \in cg
      BY <1>1
    <3> QED BY <3>1, <3>2, ClosureStep
  <2>3. closure(f, adj, F) \subseteq S
    <3>1. S \in SUBSET F
      OBVIOUS
    <3> HIDE DEF S
    <3> QED BY <2>1, <2>2, <3>1, ClosureKeeps
  <2> QED BY <1>4, <2>3 DEF D
<1> QED BY <1>3, <1>4 DEF adj, F, cg, D

\* f calls, directly or not, g.
comesTo(p, f, g) == \E h \in Defined(p) : <<f, h>> \in callGraph(p) /\ g \in closure(h, callGraph(p), Defined(p))

LEMMA ComesTo ==
  ASSUME NEW p, WellFormed(p), NEW f \in Defined(p), NEW g, comesTo(p, f, g)
  PROVE  g \in closure(f, callGraph(p), Defined(p)) /\ g \in Defined(p)
<1>1. PICK h \in Defined(p) : <<f, h>> \in callGraph(p) /\ g \in closure(h, callGraph(p), Defined(p))
  BY DEF comesTo
<1>2. f \in closure(f, callGraph(p), Defined(p))
  BY ClosureRoot
<1>3. h \in closure(f, callGraph(p), Defined(p))
  BY <1>1, <1>2, ClosureStep
<1> QED BY <1>1, <1>3, ClosureJoin, ClosureWithin

LEMMA ComesFurther ==
  ASSUME NEW p, NEW f, NEW g, comesTo(p, f, g), NEW k \in closure(g, callGraph(p), Defined(p))
  PROVE  comesTo(p, f, k)
BY ClosureJoin DEF comesTo

LEMMA ComesFrom ==
  ASSUME NEW p, WellFormed(p), NEW f \in Defined(p), NEW g \in closure(f, callGraph(p), Defined(p)), NEW k, comesTo(p, g, k)
  PROVE  comesTo(p, f, k)
<1>1. CASE f = g
  BY <1>1
<1>2. CASE f # g
  <2>1. PICK h \in Defined(p) \ {f} : <<f, h>> \in callGraph(p) /\ g \in closure(h, callGraph(p), Defined(p))
    BY <1>2, CallGraphIsWithin, ClosureFirstStep
  <2>2. k \in closure(g, callGraph(p), Defined(p)) /\ g \in Defined(p)
    BY ClosureWithin, ComesTo
  <2>3. k \in closure(h, callGraph(p), Defined(p))
    BY <2>1, <2>2, ClosureJoin
  <2> QED BY <2>1, <2>3 DEF comesTo
<1> QED BY <1>1, <1>2

LEMMA RecursesThrough ==
  ASSUME NEW p, NEW f
  PROVE  recursesThrough(p, f) = {g \in Defined(p) : f \in closure(g, callGraph(p), Defined(p)) /\ comesTo(p, f, g)}
BY DEF recursesThrough, comesTo

\* Functions are in one cycle, or in none.
LEMMA CyclesAreDisjoint ==
  ASSUME NEW p, WellFormed(p), NEW f \in Defined(p)
  PROVE  /\ recursesThrough(p, f) # {} => f \in recursesThrough(p, f)
         /\ \A g \in Defined(p) :
              IF g \in recursesThrough(p, f) THEN recursesThrough(p, g) = recursesThrough(p, f)
              ELSE recursesThrough(p, g) \cap recursesThrough(p, f) = {}
<1> DEFINE reaches(a, b) == b \in closure(a, callGraph(p), Defined(p))
<1>1. \A a \in Defined(p) : \A g \in recursesThrough(p, a) : g \in Defined(p) /\ reaches(g, a) /\ comesTo(p, a, g) /\ reaches(a, g)
  BY RecursesThrough, ComesTo
<1>2. \A a, g \in Defined(p) : reaches(g, a) /\ comesTo(p, a, g) => g \in recursesThrough(p, a)
  BY RecursesThrough
<1>3. \A a \in Defined(p) : recursesThrough(p, a) # {} => a \in recursesThrough(p, a)
  <2> SUFFICES ASSUME NEW a \in Defined(p), NEW g \in recursesThrough(p, a) PROVE a \in recursesThrough(p, a)
    OBVIOUS
  <2>1. comesTo(p, a, a)
    BY <1>1, ComesFurther
  <2>2. reaches(a, a)
    BY ClosureRoot
  <2> QED BY <1>2, <2>1, <2>2
<1>4. ASSUME NEW a \in Defined(p), NEW g \in recursesThrough(p, a) PROVE recursesThrough(p, g) = recursesThrough(p, a)
  <2>1. g \in Defined(p) /\ reaches(g, a) /\ comesTo(p, a, g) /\ reaches(a, g)
    BY <1>1
  <2>2. ASSUME NEW k \in recursesThrough(p, a) PROVE k \in recursesThrough(p, g)
    <3>1. k \in Defined(p) /\ reaches(k, a) /\ comesTo(p, a, k)
      BY <1>1
    <3>2. reaches(k, g)
      BY <2>1, <3>1, ClosureJoin
    <3>3. comesTo(p, g, k)
      BY <2>1, <3>1, ComesFrom
    <3> QED BY <1>2, <2>1, <3>1, <3>2, <3>3
  <2>3. ASSUME NEW k \in recursesThrough(p, g) PROVE k \in recursesThrough(p, a)
    <3>1. k \in Defined(p) /\ reaches(k, g) /\ comesTo(p, g, k) /\ reaches(g, k)
      BY <1>1, <2>1
    <3>2. reaches(k, a)
      BY <2>1, <3>1, ClosureJoin
    <3>3. comesTo(p, a, k)
      BY <2>1, <3>1, ComesFurther
    <3> QED BY <1>2, <3>1, <3>2, <3>3
  <2> QED BY <2>2, <2>3
<1>5. ASSUME NEW g \in Defined(p), g \notin recursesThrough(p, f), NEW k \in recursesThrough(p, g), k \in recursesThrough(p, f)
      PROVE  FALSE
  <2>1. recursesThrough(p, k) = recursesThrough(p, g) /\ recursesThrough(p, k) = recursesThrough(p, f)
    BY <1>4, <1>5
  <2>2. g \in recursesThrough(p, g)
    BY <1>3
  <2> QED BY <1>5, <2>1, <2>2
<1> QED BY <1>3, <1>4, <1>5

\* The start function is not in a cycle.
LEMMA StartIsInNoCycle ==
  ASSUME NEW p, WellFormed(p), StartIsNotReentered(p)
  PROVE  \A f \in Defined(p) : p.start \notin recursesThrough(p, f)
<1> SUFFICES ASSUME NEW f \in Defined(p), p.start \in recursesThrough(p, f) PROVE FALSE
  OBVIOUS
<1> DEFINE cg == callGraph(p)
           D == Defined(p)
           S == closure(p.start, cg, D) \ {p.start}
<1>0. p.start \in D
  BY DEF WellFormed
<1>1. p.start \in recursesThrough(p, p.start)
  <2>1. recursesThrough(p, p.start) = recursesThrough(p, f)
    BY <1>0, CyclesAreDisjoint
  <2> QED BY <2>1
<1>2. PICK h \in D : <<p.start, h>> \in cg /\ p.start \in closure(h, cg, D)
  BY <1>1 DEF recursesThrough
<1>3. \A a \in cg : a \in D \X D /\ (a[1] \in closure(p.start, cg, D) => a[2] # p.start)
  <2>1. \A a \in cg : a \in D \X D
    BY CallGraphIsWithin
  <2> QED BY <2>1 DEF StartIsNotReentered
<1>4. \A a \in cg : a[1] \in closure(p.start, cg, D) => a[2] \in S
  <2> SUFFICES ASSUME NEW a \in cg, a[1] \in closure(p.start, cg, D) PROVE a[2] \in S
    OBVIOUS
  <2>1. a = <<a[1], a[2]>> /\ a[2] \in D /\ a[2] # p.start
    BY <1>3
  <2> QED BY <2>1, ClosureStep
<1>5. h \in S
  <2>1. p.start \in closure(p.start, cg, D)
    BY <1>0, ClosureRoot
  <2> QED BY <1>2, <1>4, <2>1
<1>6. closure(h, cg, D) \subseteq S
  <2>1. S \in SUBSET D /\ \A a \in cg : a[1] \in S => a[2] \in S
    BY <1>4, ClosureWithin
  <2> HIDE DEF S
  <2> QED BY <1>5, <2>1, ClosureKeeps
<1> QED BY <1>2, <1>6

-----------------------------------------------------------------------------
(***************************************************************************)
(* The calls that close a recursion, where cycles of functions are entered   *)
(* at one function.                                                        *)
(***************************************************************************)
LEMMA ClosureOfDeadEnd ==
  ASSUME NEW nodes, NEW edges, NEW root \in nodes, \A e \in edges : e[1] # root
  PROVE  closure(root, edges, nodes) \subseteq {root}
<1> DEFINE S == {root}
<1>1. S \in SUBSET nodes /\ root \in S /\ \A e \in edges : e[1] \in S => e[2] \in S
  OBVIOUS
<1>2. closure(root, edges, nodes) \subseteq S
  <2> HIDE DEF S
  <2> QED BY <1>1, ClosureKeeps
<1> QED BY <1>2

\* The cycles that are found are those of the program with more than one function.
LEMMA CyclesAreFound ==
  ASSUME NEW p, WellFormed(p), NEW G, callAdj(p, G) = calledFrom(p)
  PROVE  /\ \A scc \in callCycles(p, G) : \E f \in scc : f \in Defined(p) /\ scc = recursesThrough(p, f)
         /\ \A a \in callGraph(p) : a[1] # a[2] /\ a[1] \in recursesThrough(p, a[2]) =>
              recursesThrough(p, a[2]) \in callCycles(p, G)
<1> DEFINE adj == calledFrom(p)
           F == callNodes(p)
           D == Defined(p)
           reached == [f \in F |-> closure(f, adj, F)]
           inCycle == UNION {{a[1], a[2]} : a \in {b \in adj : b[1] # b[2] /\ b[1] \in reached[b[2]]}}
           scc(f) == {g \in inCycle : g \in reached[f] /\ f \in reached[g]}
           reaches(a, b) == b \in closure(a, callGraph(p), D)
<1>1. callCycles(p, G) = {scc(f) : f \in inCycle}
  BY DEF callCycles, callNodes
<1>2. /\ \A a \in adj : a[1] \in D /\ a[1] \in F /\ a[2] \in F /\ a = <<a[1], a[2]>> /\ (a[2] \in D => a \in callGraph(p))
      /\ callGraph(p) \subseteq adj /\ callGraph(p) \subseteq D \X D
  <2>1. \A a \in adj : a = <<a[1], a[2]>>
    BY DEF calledFrom
  <2> QED BY <2>1, CallGraphIsWithin DEF callNodes
<1>3. \A a \in adj : a[1] # a[2] /\ a[1] \in reached[a[2]] => a[2] \in D
  <2> SUFFICES ASSUME NEW a \in adj, a[1] # a[2], a[1] \in reached[a[2]], a[2] \notin D PROVE FALSE
    OBVIOUS
  <2>1. closure(a[2], adj, F) \subseteq {a[2]}
    <3> DEFINE c == a[2]
    <3>1. c \in F /\ \A e \in adj : e[1] # c
      BY <1>2
    <3> HIDE DEF F, adj, D, c
    <3>2. closure(c, adj, F) \subseteq {c}
      BY <3>1, ClosureOfDeadEnd
    <3> QED BY <3>2 DEF c
  <2>2. a[1] \in closure(a[2], adj, F)
    BY <1>2
  <2> QED BY <2>1, <2>2
<1>4. inCycle \subseteq D \cap F
  <2> DEFINE closing == {b \in adj : b[1] # b[2] /\ b[1] \in reached[b[2]]}
  <2>1. \A a \in closing : a[1] \in D \cap F /\ a[2] \in D \cap F
    <3> HIDE DEF adj, F, D, reached
    <3> QED BY <1>2, <1>3
  <2>2. inCycle = UNION {{a[1], a[2]} : a \in closing}
    OBVIOUS
  <2> HIDE DEF inCycle, closing, D, F
  <2> QED BY <2>1, <2>2
<1>5. \A f, g \in D \cap F : g \in reached[f] <=> reaches(f, g)
  BY SameCallers
<1>6. \A a \in callGraph(p) : a[1] # a[2] /\ reaches(a[2], a[1]) => a[1] \in inCycle /\ a[2] \in inCycle
  <2> TAKE a \in callGraph(p)
  <2> HAVE a[1] # a[2] /\ reaches(a[2], a[1])
  <2>1. a \in adj /\ a[1] \in D \cap F /\ a[2] \in D \cap F
    BY <1>2
  <2>2. a[1] \in reached[a[2]]
    BY <1>5, <2>1
  <2>3. a \in {b \in adj : b[1] # b[2] /\ b[1] \in reached[b[2]]}
    BY <2>1, <2>2
  <2> QED BY <2>3
<1>7. \A f \in inCycle : \E a \in callGraph(p) : a[1] # a[2] /\ reaches(a[2], a[1]) /\ (f = a[1] \/ f = a[2])
  <2> TAKE f \in inCycle
  <2>1. PICK a \in adj : a[1] # a[2] /\ a[1] \in reached[a[2]] /\ (f = a[1] \/ f = a[2])
    OBVIOUS
  <2>2. a \in callGraph(p) /\ a[1] \in D \cap F /\ a[2] \in D \cap F
    BY <1>2, <1>3, <2>1
  <2> QED BY <1>5, <2>1, <2>2
<1>8. \A f \in D : reaches(f, f)
  BY ClosureRoot
<1>9. ASSUME NEW f \in inCycle PROVE f \in recursesThrough(p, f) /\ scc(f) = recursesThrough(p, f)
  <2>1. PICK a \in callGraph(p) : a[1] # a[2] /\ reaches(a[2], a[1]) /\ (f = a[1] \/ f = a[2])
    BY <1>7
  <2>2. a[1] \in D /\ a[2] \in D /\ a = <<a[1], a[2]>> /\ f \in D
    BY <1>2, <2>1
  <2>3. comesTo(p, a[1], a[1])
    BY <2>1, <2>2 DEF comesTo
  <2>4. comesTo(p, a[1], a[2])
    BY <1>8, <2>2 DEF comesTo
  <2>5. comesTo(p, a[2], a[2])
    BY <2>1, <2>2, <2>4, ComesFrom
  <2>6. comesTo(p, f, f)
    BY <2>1, <2>3, <2>5
  <2>7. f \in recursesThrough(p, f)
    BY <1>8, <2>2, <2>6, RecursesThrough
  <2>8. ASSUME NEW g \in scc(f) PROVE g \in recursesThrough(p, f)
    <3>1. g \in D \cap F /\ f \in D \cap F /\ reaches(f, g) /\ reaches(g, f)
      BY <1>4, <1>5, <2>8
    <3>2. comesTo(p, f, g)
      BY <2>6, <3>1, ComesFurther
    <3> QED BY <3>1, <3>2, RecursesThrough
  <2>9. ASSUME NEW g \in recursesThrough(p, f) PROVE g \in scc(f)
    <3>1. g \in D /\ reaches(g, f) /\ comesTo(p, f, g) /\ reaches(f, g)
      BY <2>2, RecursesThrough, ComesTo
    <3>2. CASE g = f
      <4>1. f \in D \cap F
        BY <1>4
      <4> QED BY <1>5, <3>1, <3>2, <4>1
    <3>3. CASE g # f
      <4>1. PICK h \in D \ {g} : <<g, h>> \in callGraph(p) /\ reaches(h, f)
        BY <1>2, <3>1, <3>3, ClosureFirstStep
      <4>2. reaches(h, g)
        BY <3>1, <4>1, ClosureJoin
      <4>3. <<g, h>>[1] # <<g, h>>[2] /\ reaches(<<g, h>>[2], <<g, h>>[1])
        BY <4>1, <4>2
      <4>4. g \in inCycle
        BY <1>6, <4>1, <4>3
      <4>5. g \in D \cap F /\ f \in D \cap F
        BY <1>4, <4>4
      <4> QED BY <1>5, <3>1, <4>4, <4>5
    <3> QED BY <3>2, <3>3
  <2> QED BY <2>7, <2>8, <2>9
<1>10. ASSUME NEW c \in callCycles(p, G) PROVE \E f \in c : f \in D /\ c = recursesThrough(p, f)
  <2>1. PICK f \in inCycle : c = scc(f)
    BY <1>1
  <2> QED BY <1>4, <1>9, <2>1
<1>11. ASSUME NEW a \in callGraph(p), a[1] # a[2], a[1] \in recursesThrough(p, a[2])
       PROVE  recursesThrough(p, a[2]) \in callCycles(p, G)
  <2>1. a[2] \in D /\ a[1] \in D
    BY <1>2
  <2>2. reaches(a[2], a[1])
    BY <1>11, <2>1, RecursesThrough, ComesTo
  <2>3. a[2] \in inCycle
    BY <1>6, <1>11, <2>2
  <2>4. scc(a[2]) = recursesThrough(p, a[2])
    BY <1>9, <2>3
  <2>5. scc(a[2]) \in {scc(f) : f \in inCycle}
    BY <2>3
  <2> HIDE DEF scc, inCycle
  <2> QED BY <1>1, <2>4, <2>5
<1> QED BY <1>10, <1>11

\* A cycle that is entered at e is found by a search from e.
LEMMA EnteredCycles ==
  ASSUME NEW p, WellFormed(p), IsFiniteSet(Defined(p)), StartIsNotReentered(p),
         NEW G, callAdj(p, G) = calledFrom(p),
         NEW e \in Defined(p), NEW cycle, cycle = recursesThrough(p, e), EntersCycle(p, e, cycle),
         NEW rank \in addressOrders(p)
  PROVE  cycleBackEdges(p, G, cycle, rank) = edgesTo(e, cycle, callGraph(p))
<1> DEFINE adj == calledFrom(p)
           cg == callGraph(p)
           D == Defined(p)
           inner == among(adj, cycle)
<1>1. /\ cg \subseteq D \X D /\ cg \subseteq adj
      /\ \A a \in adj : a[1] \in D /\ (a[2] \in D => a \in cg)
  BY CallGraphIsWithin
<1>2. cycle \subseteq D /\ IsFiniteSet(cycle) /\ e \in cycle
  BY FS_Subset DEF recursesThrough, EntersCycle
<1>3. \A S \in SUBSET D : among(adj, S) = among(cg, S)
  BY <1>1 DEF among
<1>4. {a[2] : a \in {b \in adj : b[1] \notin cycle /\ b[2] \in cycle}} = {e}
  <2>1. {b \in adj : b[1] \notin cycle /\ b[2] \in cycle} = callsInto(p, cycle)
    BY <1>1, <1>2 DEF callsInto
  <2> DEFINE S == callsInto(p, cycle)
  <2>2. S # {} /\ \A a \in S : a[2] = e
    BY DEF EntersCycle
  <2> HIDE DEF S
  <2>3. {a[2] : a \in S} = {e}
    BY <2>2
  <2> QED BY <2>1, <2>3 DEF S
<1>5. p.start \notin cycle
  BY StartIsInNoCycle
<1>6. cycleEntries(p, G, cycle) = {e}
  <2>1. cycle \cap {p.start} = {}
    BY <1>5
  <2> QED BY <1>4, <2>1 DEF cycleEntries
<1>7. cycle \subseteq closure(e, inner, cycle)
  <2> DEFINE S == {n \in closure(e, cg, D) : n \in cycle => n \in closure(e, inner, cycle)}
  <2>1. e \in S
    BY <1>2, ClosureRoot
  <2>2. ASSUME NEW a \in cg, a[1] \in S PROVE a[2] \in S
    <3>1. a = <<a[1], a[2]>> /\ a[1] \in D /\ a[2] \in D
      BY <1>1
    <3>2. a[2] \in closure(e, cg, D)
      BY <2>2, <3>1, ClosureStep
    <3>3. CASE a[2] \in cycle
      <4>1. e \in closure(a[2], cg, D)
        BY <3>3, RecursesThrough
      <4>2. a[2] \in closure(a[1], cg, D)
        <5>1. a[1] \in closure(a[1], cg, D)
          BY <3>1, ClosureRoot
        <5> QED BY <3>1, <5>1, ClosureStep
      <4>3. e \in closure(a[1], cg, D)
        BY <4>1, <4>2, ClosureJoin
      <4>4. comesTo(p, e, e) /\ a[1] \in closure(e, cg, D)
        BY <1>2, <2>2, RecursesThrough
      <4>5. comesTo(p, e, a[1])
        BY <4>4, ComesFurther
      <4>6. a[1] \in cycle
        BY <3>1, <4>3, <4>5, RecursesThrough
      <4>7. <<a[1], a[2]>> \in inner
        BY <1>1, <3>1, <3>3, <4>6 DEF among
      <4>8. a[2] \in closure(e, inner, cycle)
        BY <2>2, <3>3, <4>6, <4>7, ClosureStep
      <4> QED BY <3>2, <4>8
    <3> QED BY <3>2, <3>3
  <2>3. closure(e, cg, D) \subseteq S
    <3>1. S \in SUBSET D
      BY ClosureWithin
    <3> HIDE DEF S
    <3> QED BY <2>1, <2>2, <3>1, ClosureKeeps
  <2>4. cycle \subseteq closure(e, cg, D)
    BY RecursesThrough, ComesTo
  <2> QED BY <2>3, <2>4
<1>8. IsEntryOf(e, cycle, adj)
  <2>1. among(adj, cycle \ {e}) = among(cg, cycle \ {e})
    BY <1>2, <1>3
  <2>2. acyclic(adj, cycle \ {e})
    BY <2>1 DEF EntersCycle, acyclic
  <2> QED BY <1>2, <1>7, <2>2 DEF IsEntryOf
<1>9. Ranks(rank, cycle)
  <2>1. rank \in [D -> 1 .. Len(p.order)]
    BY DEF addressOrders
  <2>2. Len(p.order) \in Nat
    BY DEF WellFormed
  <2> QED BY <1>2, <2>1, <2>2 DEF Ranks
<1>10. cycleBackEdges(p, G, cycle, rank) = findSCCBackEdges(cycle, {e}, adj, rank)
  BY <1>6 DEF cycleBackEdges
<1>11. findSCCBackEdges(cycle, {e}, adj, rank) = edgesTo(e, cycle, adj)
  <2> HIDE DEF adj
  <2>1. e \in cycle /\ IsFiniteSet(cycle)
    BY <1>2
  <2> QED BY <1>8, <1>9, <2>1, SearchFromOneEntry
<1>12. \A v \in cycle : <<v, e>> \in adj <=> <<v, e>> \in cg
  BY <1>1, <1>2
<1> QED BY <1>10, <1>11, <1>12 DEF edgesTo

\* Just the calls to the entry of a cycle that come from the cycle.
closingBlocks(p) ==
  {b \in wiredBlocks(p) : LET e == p.calls[b]
                          IN  ownerOf(p, b) \in p.cycle[e] /\ EntersCycle(p, e, p.cycle[e])}

HasBounds(p, tar) == \A e \in Defined(p) : EntersCycle(p, e, p.cycle[e]) => bounded(tar, e)

LEMMA ClosingCalls ==
  ASSUME NEW p, WellFormed(p), IsFiniteSet(Defined(p)), StartIsNotReentered(p), RecursionIsBounded(p),
         NEW G, IsFilled(p, G, Defined(p)), NEW tar, HasBounds(p, tar), NEW rank \in addressOrders(p),
         NEW b \in DOMAIN p.calls, p.calls[b] \in Defined(p)
  PROVE  siteOf(p, b) \in closingCalls(p, tar, G, rank) <=> b \in closingBlocks(p)
<1> DEFINE f == ownerOf(p, b)
           e == p.calls[b]
           cg == callGraph(p)
           back(scc) == cycleBackEdges(p, G, scc, rank)
           closed == {<<g, g>> : g \in selfRecursive(p, G)} \cup UNION {back(scc) : scc \in callCycles(p, G)}
<1>1. callAdj(p, G) = calledFrom(p)
  BY CallGraphOfGraph
<1>2. f \in Defined(p) /\ <<f, e>> \in cg /\ siteOf(p, b) \in G.CallSites
  <2>1. f \in Defined(p)
    BY Owners DEF WellFormed
  <2>2. G.CallSites = {siteOf(p, c) : c \in {d \in DOMAIN p.calls : p.calls[d] \notin p.symbols}}
    BY AllBlocks DEF IsFilled
  <2>3. p.calls[b] \notin p.symbols
    BY DEF WellFormed
  <2> QED BY <2>1, <2>2, <2>3 DEF callGraph
<1>3. siteOf(p, b).node = b /\ siteOf(p, b).callee = e
  BY DEF siteOf
<1>4. siteOf(p, b) \in closingCalls(p, tar, G, rank) <=> bounded(tar, e) /\ <<f, e>> \in closed
  BY <1>2, <1>3 DEF closingCalls
<1>5. \A g \in Defined(p) : p.cycle[g] = recursesThrough(p, g) /\ p.start \notin p.cycle[g]
  BY StartIsInNoCycle DEF RecursionIsBounded
\* The entry of a cycle is an entry of its own cycle.
<1>6. \A g \in Defined(p) : p.cycle[g] # {} => \E k \in p.cycle[g] : k \in Defined(p) /\ p.cycle[k] = p.cycle[g] /\ EntersCycle(p, k, p.cycle[k])
  <2> TAKE g \in Defined(p)
  <2> HAVE p.cycle[g] # {}
  <2>1. PICK k \in Defined(p) : EntersCycle(p, k, p.cycle[g])
    BY DEF RecursionIsBounded
  <2>2. k \in p.cycle[g]
    BY <2>1 DEF EntersCycle
  <2>3. p.cycle[k] = p.cycle[g]
    BY <1>5, <2>2, CyclesAreDisjoint
  <2> QED BY <2>1, <2>2, <2>3
<1>7. ASSUME NEW g \in selfRecursive(p, G) PROVE g # p.start /\ g \in p.cycle[g] /\ EntersCycle(p, g, p.cycle[g])
  <2>1. PICK cs \in wiredCalls(p, G) : cs.callee = g /\ ownerOf(p, cs.node) = g
    BY DEF selfRecursive
  <2>2. PICK c \in wiredBlocks(p) : cs = siteOf(p, c)
    BY Wiring
  <2>3. p.calls[c] = g /\ ownerOf(p, c) = g /\ g \in Defined(p) \ {p.start} /\ c \in DOMAIN p.calls
    BY <2>1, <2>2 DEF siteOf, wiredBlocks
  <2>4. <<g, g>> \in cg
    BY <2>3 DEF callGraph
  <2>5. g \in closure(g, cg, Defined(p))
    BY <2>3, ClosureRoot
  <2>6. g \in p.cycle[g]
    BY <1>5, <2>3, <2>4, <2>5, RecursesThrough DEF comesTo
  <2>7. PICK k \in p.cycle[g] : p.cycle[k] = p.cycle[g] /\ EntersCycle(p, k, p.cycle[k])
    BY <1>6, <2>3, <2>6
  <2>8. g = k
    <3> SUFFICES ASSUME g # k PROVE FALSE
      OBVIOUS
    <3> DEFINE N == p.cycle[g] \ {k}
    <3>1. <<g, g>> \in among(cg, N)
      BY <2>4, <2>6 DEF among
    <3>2. g \in closure(g, among(cg, N), N)
      BY <2>6, ClosureRoot
    <3>3. acyclic(cg, N)
      BY <2>7 DEF EntersCycle
    <3> HIDE DEF N
    <3> QED BY <3>1, <3>2, <3>3 DEF acyclic
  <2> QED BY <2>3, <2>6, <2>7, <2>8
<1>8. ASSUME <<f, e>> \in closed PROVE b \in closingBlocks(p)
  <2>1. CASE <<f, e>> \in {<<g, g>> : g \in selfRecursive(p, G)}
    <3>1. f = e /\ e \in selfRecursive(p, G)
      BY <2>1
    <3> QED BY <1>2, <1>7, <3>1 DEF closingBlocks, wiredBlocks
  <2>2. ASSUME NEW scc \in callCycles(p, G), <<f, e>> \in back(scc) PROVE b \in closingBlocks(p)
    <3>1. PICK g \in scc : g \in Defined(p) /\ scc = recursesThrough(p, g)
      BY <1>1, CyclesAreFound
    <3>2. scc = p.cycle[g]
      BY <1>5, <3>1
    <3>3. PICK k \in scc : k \in Defined(p) /\ p.cycle[k] = scc /\ EntersCycle(p, k, scc)
      BY <1>6, <3>1, <3>2
    <3>4. scc = recursesThrough(p, k)
      BY <1>5, <3>3
    <3>5. back(scc) = {<<u, k>> : u \in {v \in scc : <<v, k>> \in cg}}
      BY <1>1, <3>3, <3>4, EnteredCycles DEF edgesTo
    <3>6. f \in scc /\ e = k
      BY <2>2, <3>5
    <3>7. e # p.start
      BY <1>5, <3>1, <3>2, <3>3, <3>6
    <3> QED BY <1>2, <3>3, <3>6, <3>7 DEF closingBlocks, wiredBlocks
  <2> QED BY <1>8, <2>1, <2>2
<1>9. ASSUME b \in closingBlocks(p) PROVE bounded(tar, e) /\ <<f, e>> \in closed
  <2>1. e \in Defined(p) \ {p.start} /\ f \in p.cycle[e] /\ EntersCycle(p, e, p.cycle[e])
    BY <1>9 DEF closingBlocks, wiredBlocks
  <2>2. bounded(tar, e)
    BY <2>1 DEF HasBounds
  <2>3. CASE f = e
    <3>1. b \in wiredBlocks(p)
      BY <1>9 DEF closingBlocks
    <3>2. siteOf(p, b) \in wiredCalls(p, G)
      BY <3>1, Wiring
    <3>3. e \in selfRecursive(p, G)
      BY <1>3, <2>1, <2>3, <3>2 DEF selfRecursive
    <3> QED BY <2>2, <2>3, <3>3
  <2>4. CASE f # e
    <3>1. p.cycle[e] = recursesThrough(p, e)
      BY <1>5
    <3>2. p.cycle[e] \in callCycles(p, G)
      <4>1. <<f, e>>[1] # <<f, e>>[2] /\ <<f, e>>[1] \in recursesThrough(p, <<f, e>>[2])
        BY <2>1, <2>4, <3>1
      <4>2. recursesThrough(p, <<f, e>>[2]) \in callCycles(p, G)
        BY <1>1, <1>2, <4>1, CyclesAreFound
      <4> QED BY <3>1, <4>2
    <3>3. back(p.cycle[e]) = {<<u, e>> : u \in {v \in p.cycle[e] : <<v, e>> \in cg}}
      <4> DEFINE c == p.cycle[e]
      <4>1. c = recursesThrough(p, e) /\ EntersCycle(p, e, c) /\ e \in Defined(p)
        BY <2>1, <3>1
      <4> HIDE DEF c, e
      <4>2. cycleBackEdges(p, G, c, rank) = edgesTo(e, c, callGraph(p))
        BY <1>1, <4>1, EnteredCycles
      <4> QED BY <4>2 DEF c, edgesTo
    <3>4. <<f, e>> \in back(p.cycle[e])
      BY <1>2, <2>1, <3>3
    <3> QED BY <2>2, <3>2, <3>4
  <2> QED BY <2>3, <2>4
<1> QED BY <1>4, <1>8, <1>9

-----------------------------------------------------------------------------
(***************************************************************************)
(* What the loop bound pass finds.  k is a bound of the loop of h, which is     *)
(* entered at h only.                                                      *)
(***************************************************************************)
IsLoopBound(p, h, k) ==
  /\ h \in Blocks(p) /\ h \in DOMAIN p.body /\ h \in p.body[h] /\ p.body[h] \subseteq Blocks(p)
  /\ k \in Nat \ {0} /\ p.trips[h] \in 0 .. k
  /\ startsAt(p, h, p.body[h])

FoundFor(p, tar, F) ==
  /\ \A h \in DOMAIN tar.LoopBoundMap : IsLoopBound(p, h, tar.LoopBoundMap[h])
  /\ \A f \in F : headersOf(p, f) \subseteq DOMAIN tar.LoopBoundMap
  /\ \A e \in tar.IrreducibleBackEdges :
       e[2] \in DOMAIN tar.LoopBoundMap /\ \E f \in F : e \in writtenBackEdges(p, f)
  /\ \A f \in F : \A e \in writtenBackEdges(p, f) :
       \E d \in tar.IrreducibleBackEdges : d \in writtenBackEdges(p, f) /\ d[2] = e[2]

\* What is allowed are numbers, and the program keeps to them.
LEMMA NaturalBound ==
  ASSUME NEW p, WellFormed(p), BoundsAreRight(p), NEW f \in Defined(p), NEW h \in headersOf(p, f),
         NEW J, J = JSONBoundsByLocation(ExportLoopBoundsJSON(p.source))
  PROVE  IsLoopBound(p, h, loopBound(p, f, h, J)) /\ loopBound(p, f, h, J) > 0
<1> DEFINE k == loopBound(p, f, h, J)
           body == loopBlocks(p, f, h)
<1>1. k \in loopBounds(p, f, h)
  BY LoopBoundIsRight DEF BoundsAreRight
<1>2. isLoopOf(p, h, body) /\ allow(loopBounds(p, f, h), p.trips[h])
  BY DEF BoundsAreRight, NaturalLoopsAreBounded
<1>3. k \in Nat \ {0} /\ p.trips[h] \in 0 .. k
  BY <1>1, <1>2 DEF allow
<1>4. /\ h \in body /\ body \subseteq BlocksOf(p, f)
      /\ \A e \in p.succ : e[2] \in body /\ e[1] \notin body => e[2] = h
      /\ \A g \in Defined(p) : firstBlockOf(p, g) \in body => firstBlockOf(p, g) = h
  BY NaturalLoopShape
<1>5. BlocksOf(p, f) \subseteq Blocks(p)
  BY EntryBlocks
<1>6. p.body[h] = body /\ h \in DOMAIN p.body
  BY <1>2 DEF isLoopOf
<1>7. startsAt(p, h, p.body[h])
  BY <1>4, <1>6 DEF startsAt
<1> HIDE DEF body, k
<1>8. IsLoopBound(p, h, k) /\ k > 0
  BY <1>3, <1>4, <1>5, <1>6, <1>7 DEF IsLoopBound
<1> QED BY <1>8 DEF k

LEMMA WrittenBound ==
  ASSUME NEW p, WellFormed(p), IsFiniteSet(Blocks(p)), BoundsAreRight(p), NEW f \in Defined(p),
         NEW J, J = JSONBoundsByLocation(ExportLoopBoundsJSON(p.source)),
         NEW e \in writtenBackEdges(p, f)
  PROVE  /\ IsLoopBound(p, e[2], scanned(p, J, computeLoopBody(p, f, e[2])))
         /\ scanned(p, J, computeLoopBody(p, f, e[2])) > 0
<1> DEFINE h == e[2]
           body == computeLoopBody(p, f, h)
           k == scanned(p, J, body)
           K == irreducibleBounds(p, f, h)
<1>1. e \in findBackEdges(p, f) /\ K # {}
  BY DEF writtenBackEdges
<1>2. isLoopOf(p, h, body) /\ startsAt(p, h, p.body[h]) /\ allow(K, p.trips[h])
  BY DEF BoundsAreRight, IrreducibleLoopsAreBounded
<1>3. k \in K
  BY <1>1, ScannedIsABound DEF BoundsAreRight, irreducibleBounds
<1>4. k \in Nat \ {0} /\ p.trips[h] \in 0 .. k
  BY <1>2, <1>3 DEF allow
<1>5. BlocksOf(p, f) \subseteq Blocks(p)
  BY EntryBlocks
<1>6. h \in body /\ body \subseteq BlocksOf(p, f)
  <2>1. IsFiniteSet(BlocksOf(p, f))
    BY <1>5, FS_Subset
  <2> QED BY <1>1, <2>1, SearchedLoopShape
<1>7. p.body[h] = body /\ h \in DOMAIN p.body
  BY <1>2 DEF isLoopOf
<1> HIDE DEF body, k, h
<1>8. IsLoopBound(p, h, k) /\ k > 0
  BY <1>2, <1>4, <1>5, <1>6, <1>7 DEF IsLoopBound
<1> QED BY <1>8 DEF k, h, body

\* The back edges that are found are those with a pragma.
LEMMA OthersAreWritten ==
  ASSUME NEW p, WellFormed(p), IsFiniteSet(Blocks(p)), BoundsAreRight(p), NEW f \in Defined(p),
         NEW others \in irreducibleBackEdges(p, f, ExportLoopBoundsJSON(p.source))
  PROVE  /\ others \subseteq writtenBackEdges(p, f)
         /\ \A e \in writtenBackEdges(p, f) : \E d \in others : d[2] = e[2]
<1> DEFINE J == JSONBoundsByLocation(ExportLoopBoundsJSON(p.source))
           back == {e \in findBackEdges(p, f) : /\ e[2] \notin headersOf(p, f)
                                                /\ scanned(p, J, computeLoopBody(p, f, e[2])) > 0}
<1>1. others \in SUBSET back /\ \A e \in back : Cardinality({d \in others : d[2] = e[2]}) = 1
  BY DEF irreducibleBackEdges
<1>2. back = writtenBackEdges(p, f)
  <2>1. ASSUME NEW e \in back PROVE e \in writtenBackEdges(p, f)
    <3>1. scanned(p, J, computeLoopBody(p, f, e[2])) \in irreducibleBounds(p, f, e[2]) \cup {0}
      BY ScannedIsABound DEF BoundsAreRight, irreducibleBounds
    <3>2. ~(0 > 0)
      OBVIOUS
    <3>3. irreducibleBounds(p, f, e[2]) # {}
      BY <3>1, <3>2
    <3> QED BY <3>3 DEF writtenBackEdges
  <2>2. ASSUME NEW e \in writtenBackEdges(p, f) PROVE e \in back
    BY <2>2, WrittenBound DEF writtenBackEdges
  <2> QED BY <2>1, <2>2
<1>3. ASSUME NEW e \in back PROVE \E d \in others : d[2] = e[2]
  <2>1. {d \in others : d[2] = e[2]} # {}
    <3>1. Cardinality({}) = 0
      BY FS_EmptySet
    <3> QED BY <1>1, <3>1
  <2> QED BY <2>1
<1> QED BY <1>1, <1>2, <1>3

LEMMA AggregateFinds ==
  ASSUME NEW p, WellFormed(p), IsFiniteSet(Blocks(p)), BoundsAreRight(p), NEW f \in Defined(p),
         NEW tar, NEW F, FoundFor(p, tar, F),
         NEW others \in irreducibleBackEdges(p, f, ExportLoopBoundsJSON(p.source))
  PROVE  FoundFor(p, aggregate(p, f, tar, ExportLoopBoundsJSON(p.source), others), F \cup {f})
<1> DEFINE J == JSONBoundsByLocation(ExportLoopBoundsJSON(p.source))
           t == aggregate(p, f, tar, ExportLoopBoundsJSON(p.source), others)
           natural == {h \in headersOf(p, f) : loopBound(p, f, h, J) > 0}
           known == DOMAIN tar.LoopBoundMap
           heads == {e[2] : e \in others}
           scan(h) == scanned(p, J, computeLoopBody(p, f, h))
<1>1. /\ t.LoopBoundMap = [h \in known \cup natural \cup heads |->
                             IF h \in known THEN tar.LoopBoundMap[h]
                             ELSE IF h \in natural THEN loopBound(p, f, h, J) ELSE scan(h)]
      /\ t.IrreducibleBackEdges = tar.IrreducibleBackEdges \cup others
  BY DEF aggregate
<1>2. \A h \in headersOf(p, f) : IsLoopBound(p, h, loopBound(p, f, h, J)) /\ loopBound(p, f, h, J) > 0
  BY NaturalBound
<1>3. natural = headersOf(p, f)
  BY <1>2
<1>4. /\ others \subseteq writtenBackEdges(p, f)
      /\ \A e \in writtenBackEdges(p, f) : \E d \in others : d[2] = e[2]
  BY OthersAreWritten
<1>5. \A e \in others : IsLoopBound(p, e[2], scan(e[2]))
  BY <1>4, WrittenBound
<1> HIDE DEF t, natural, known, scan, J
<1>6. \A h \in DOMAIN t.LoopBoundMap : IsLoopBound(p, h, t.LoopBoundMap[h])
  <2> SUFFICES ASSUME NEW h \in known \cup natural \cup heads PROVE IsLoopBound(p, h, t.LoopBoundMap[h])
    BY <1>1
  <2>1. CASE h \in known
    BY <1>1, <2>1 DEF FoundFor, known
  <2>2. CASE h \notin known /\ h \in natural
    BY <1>1, <1>2, <1>3, <2>2
  <2>3. CASE h \notin known /\ h \notin natural /\ h \in heads
    BY <1>1, <1>5, <2>3
  <2> QED BY <2>1, <2>2, <2>3
<1>7. \A g \in F \cup {f} : headersOf(p, g) \subseteq DOMAIN t.LoopBoundMap
  BY <1>1, <1>3 DEF FoundFor, known
<1>8. \A e \in t.IrreducibleBackEdges :
        e[2] \in DOMAIN t.LoopBoundMap /\ \E g \in F \cup {f} : e \in writtenBackEdges(p, g)
  BY <1>1, <1>4 DEF FoundFor, known
<1>9. \A g \in F \cup {f} : \A e \in writtenBackEdges(p, g) :
        \E d \in t.IrreducibleBackEdges : d \in writtenBackEdges(p, g) /\ d[2] = e[2]
  BY <1>1, <1>4 DEF FoundFor
<1>10. FoundFor(p, t, F \cup {f})
  BY <1>6, <1>7, <1>8, <1>9 DEF FoundFor
<1> QED BY <1>10 DEF t

-----------------------------------------------------------------------------
\* The graph of some functions has their loops and the bounds of these.
LoopsIn(p, G, F) ==
  /\ \A e \in G.BackEdges :
       /\ \E f \in F : e \in closesLoop(p, f)
       /\ e[2] \in DOMAIN G.UpperLoopBound /\ IsLoopBound(p, e[2], G.UpperLoopBound[e[2]])
  /\ \A f \in F : loopBackEdges(p, f) \subseteq G.BackEdges
  /\ \A f \in F : \A e \in writtenBackEdges(p, f) : \E d \in G.BackEdges : d \in writtenBackEdges(p, f) /\ d[2] = e[2]

LEMMA LoopsAreClosedInside ==
  ASSUME NEW p, WellFormed(p), IsFiniteSet(Blocks(p)), NEW f \in Defined(p), NEW e \in closesLoop(p, f)
  PROVE  /\ e \in p.succ /\ e[1] \in BlocksOf(p, f) /\ e[2] \in BlocksOf(p, f) /\ e = <<e[1], e[2]>>
         /\ e \in writtenBackEdges(p, f) => e[2] \notin headersOf(p, f) /\ e[1] \in computeLoopBody(p, f, e[2])
         /\ e \in loopBackEdges(p, f) => e[2] \in headersOf(p, f) /\ e[1] \in loopBlocks(p, f, e[2])
<1>1. CASE e \in loopBackEdges(p, f)
  <2>1. e \in p.succ /\ e[1] \in BlocksOf(p, f)
    BY <1>1 DEF loopBackEdges
  <2>2. e[2] \in headersOf(p, f)
    BY <1>1 DEF headersOf
  <2>3. e[1] \in loopBlocks(p, f, e[2])
    BY <1>1, <2>2, NaturalLoopShape
  <2>4. e \notin writtenBackEdges(p, f)
    BY <2>2 DEF writtenBackEdges
  <2> QED BY <2>1, <2>2, <2>3, <2>4, EdgeStaysInFunction
<1>2. CASE e \in writtenBackEdges(p, f)
  <2>1. e \in findBackEdges(p, f) /\ e[2] \notin headersOf(p, f)
    BY <1>2 DEF writtenBackEdges
  <2>2. IsFiniteSet(BlocksOf(p, f))
    BY EntryBlocks, FS_Subset
  <2>3. e \in p.succ /\ e[1] \in BlocksOf(p, f) /\ e[1] \in computeLoopBody(p, f, e[2])
    BY <2>1, <2>2, SearchedLoopShape
  <2>4. e \notin loopBackEdges(p, f)
    BY <2>1 DEF headersOf
  <2> QED BY <2>1, <2>3, <2>4, EdgeStaysInFunction
<1> QED BY <1>1, <1>2 DEF closesLoop

LEMMA FillAddsLoops ==
  ASSUME NEW p, WellFormed(p), IsFiniteSet(Blocks(p)), NEW tar, NEW F \in SUBSET Defined(p), NEW f \in Defined(p),
         FoundFor(p, tar, F \cup {f}), NEW G, DOMAIN G = GraphFields, LoopsIn(p, G, F), NEW u
  PROVE  LoopsIn(p, fillGraphWithFunction(p, tar, G, f, u), F \cup {f})
<1> DEFINE B == BlocksOf(p, f)
           E == {e \in p.succ : e[1] \in B}
           N == IF f = p.start THEN B \cup {Entry, Exit} ELSE B
           H == fillGraphWithFunction(p, tar, G, f, u)
<1>1. /\ H.UpperLoopBound = [n \in DOMAIN G.UpperLoopBound \cup N |->
                               IF n \in B /\ n \in DOMAIN tar.LoopBoundMap THEN tar.LoopBoundMap[n]
                               ELSE IF n \in N THEN u ELSE G.UpperLoopBound[n]]
      /\ H.BackEdges = G.BackEdges \cup loopBackEdges(p, f) \cup (tar.IrreducibleBackEdges \cap E)
  BY DEF fillGraphWithFunction, GraphFields
<1> HIDE DEF H
<1>2. \A g \in Defined(p) : \A e \in closesLoop(p, g) : e \in p.succ /\ e[1] \in BlocksOf(p, g) /\ e[2] \in BlocksOf(p, g)
  BY LoopsAreClosedInside
<1>3. B \subseteq Blocks(p) /\ \A n \in N \ B : n \notin Blocks(p)
  <2>1. B \subseteq Blocks(p)
    BY EntryBlocks
  <2>2. Entry \notin Blocks(p) /\ Exit \notin Blocks(p)
    BY DEF WellFormed
  <2> QED BY <2>1, <2>2
<1>4. \A g \in Defined(p) : \A n \in BlocksOf(p, g) : n \in Blocks(p) /\ (n \in B => g = f)
  <2>1. \A g \in Defined(p) : BlocksOf(p, g) \subseteq Blocks(p)
    BY EntryBlocks
  <2>2. \A g \in Defined(p) : g # f => BlocksOf(p, g) \cap B = {}
    BY DEF WellFormed
  <2> HIDE DEF B
  <2> QED BY <2>1, <2>2
\* The edges and headers of f have been found.
<1>5. \A e \in closesLoop(p, f) : e \in loopBackEdges(p, f) \cup tar.IrreducibleBackEdges => e[2] \in B /\ e[2] \in DOMAIN tar.LoopBoundMap
  BY <1>2 DEF FoundFor, headersOf
<1>6. tar.IrreducibleBackEdges \cap E = tar.IrreducibleBackEdges \cap writtenBackEdges(p, f)
  <2>1. ASSUME NEW e \in tar.IrreducibleBackEdges, e \in E PROVE e \in writtenBackEdges(p, f)
    <3>1. PICK g \in F \cup {f} : e \in writtenBackEdges(p, g)
      BY DEF FoundFor
    <3>2. e[1] \in BlocksOf(p, g) /\ g \in Defined(p)
      BY <1>2, <3>1 DEF closesLoop
    <3>3. g = f
      BY <1>4, <2>1, <3>2
    <3> QED BY <3>1, <3>3
  <2>2. writtenBackEdges(p, f) \subseteq E
    BY <1>2 DEF closesLoop
  <2> QED BY <2>1, <2>2
<1>7. ASSUME NEW e \in H.BackEdges
      PROVE  /\ \E g \in F \cup {f} : e \in closesLoop(p, g)
             /\ e[2] \in DOMAIN H.UpperLoopBound /\ IsLoopBound(p, e[2], H.UpperLoopBound[e[2]])
  <2>1. CASE e \in loopBackEdges(p, f) \cup (tar.IrreducibleBackEdges \cap E)
    <3>1. e \in closesLoop(p, f) /\ e \in loopBackEdges(p, f) \cup tar.IrreducibleBackEdges
      BY <1>6, <2>1 DEF closesLoop
    <3>2. e[2] \in B /\ e[2] \in DOMAIN tar.LoopBoundMap
      BY <1>5, <3>1
    <3>3. H.UpperLoopBound[e[2]] = tar.LoopBoundMap[e[2]] /\ e[2] \in DOMAIN H.UpperLoopBound
      BY <1>1, <3>2
    <3>4. IsLoopBound(p, e[2], tar.LoopBoundMap[e[2]])
      BY <3>2 DEF FoundFor
    <3> QED BY <3>1, <3>3, <3>4
  <2>2. CASE e \in G.BackEdges
    <3>1. PICK g \in F : e \in closesLoop(p, g)
      BY <2>2 DEF LoopsIn
    <3>2. e[2] \in DOMAIN G.UpperLoopBound /\ IsLoopBound(p, e[2], G.UpperLoopBound[e[2]])
      BY <2>2 DEF LoopsIn
    <3>3. e[2] \in Blocks(p)
      BY <1>2, <1>4, <3>1
    <3>4. CASE e[2] \in B /\ e[2] \in DOMAIN tar.LoopBoundMap
      <4>1. H.UpperLoopBound[e[2]] = tar.LoopBoundMap[e[2]] /\ e[2] \in DOMAIN H.UpperLoopBound
        BY <1>1, <3>2, <3>4
      <4> QED BY <3>1, <3>4, <4>1 DEF FoundFor
    <3>5. CASE e[2] \in B /\ e[2] \notin DOMAIN tar.LoopBoundMap
      <4>1. g = f
        BY <1>2, <1>4, <3>1, <3>5
      <4>2. e \notin loopBackEdges(p, f)
        BY <3>5 DEF FoundFor, headersOf
      <4>3. e \in writtenBackEdges(p, f)
        BY <3>1, <4>1, <4>2 DEF closesLoop
      <4>4. PICK d \in tar.IrreducibleBackEdges : d[2] = e[2]
        BY <4>3 DEF FoundFor
      <4> QED BY <3>5, <4>4 DEF FoundFor
    <3>6. CASE e[2] \notin B
      <4>1. e[2] \notin N
        BY <1>3, <3>3, <3>6
      <4>2. H.UpperLoopBound[e[2]] = G.UpperLoopBound[e[2]] /\ e[2] \in DOMAIN H.UpperLoopBound
        BY <1>1, <3>2, <3>6, <4>1
      <4> QED BY <3>1, <3>2, <4>2
    <3> QED BY <3>4, <3>5, <3>6
  <2> QED BY <1>1, <2>1, <2>2
<1>8. \A g \in F \cup {f} : loopBackEdges(p, g) \subseteq H.BackEdges
  BY <1>1 DEF LoopsIn
<1>9. \A g \in F \cup {f} : \A e \in writtenBackEdges(p, g) : \E d \in H.BackEdges : d \in writtenBackEdges(p, g) /\ d[2] = e[2]
  <2> SUFFICES ASSUME NEW g \in F \cup {f}, NEW e \in writtenBackEdges(p, g)
               PROVE  \E d \in H.BackEdges : d \in writtenBackEdges(p, g) /\ d[2] = e[2]
    OBVIOUS
  <2>1. CASE g \in F
    BY <1>1, <2>1 DEF LoopsIn
  <2>2. CASE g = f
    <3>1. PICK d \in tar.IrreducibleBackEdges : d \in writtenBackEdges(p, f) /\ d[2] = e[2]
      BY <2>2 DEF FoundFor
    <3> QED BY <1>1, <1>6, <2>2, <3>1
  <2> QED BY <2>1, <2>2
<1>10. LoopsIn(p, H, F \cup {f})
  BY <1>7, <1>8, <1>9 DEF LoopsIn
<1> QED BY <1>10 DEF H

-----------------------------------------------------------------------------
(***************************************************************************)
(* The finalised graph: back edges close loops or recursions, with a bound   *)
(* of theirs, and there is one for each of these.                           *)
(***************************************************************************)
closingEdge(p, b) == <<b, firstBlockOf(p, p.calls[b])>>

FinalLoops(p, M) ==
  /\ \A e \in M.BackEdges :
       /\ e[2] \in M.Nodes
       /\ \/ \E f \in Defined(p) : e \in closesLoop(p, f) /\ IsLoopBound(p, e[2], M.UpperLoopBound[e[2]])
          \/ \E b \in closingBlocks(p) :
               e = closingEdge(p, b) /\ M.UpperLoopBound[e[2]] \in recursionBounds(p.source, p.calls[b])
  /\ \A f \in Defined(p) : \A e \in loopBackEdges(p, f) : e[2] \in M.Nodes => e \in M.BackEdges
  /\ \A f \in Defined(p) : \A e \in writtenBackEdges(p, f) : e[2] \in M.Nodes =>
       \E d \in M.BackEdges : d \in writtenBackEdges(p, f) /\ d[2] = e[2]
  /\ \A b \in closingBlocks(p) : closingEdge(p, b)[2] \in M.Nodes => closingEdge(p, b) \in M.BackEdges

LEMMA RecursionsHaveBounds ==
  ASSUME NEW p, BoundsAreRight(p),
         NEW tar, tar.RecursionBoundMap = loadRecursionBounds(ExportLoopBoundsJSON(p.source))
  PROVE  /\ HasBounds(p, tar)
         /\ \A e \in Defined(p) : EntersCycle(p, e, p.cycle[e]) => tar.RecursionBoundMap[e] \in recursionBounds(p.source, e)
<1> SUFFICES ASSUME NEW e \in Defined(p), EntersCycle(p, e, p.cycle[e])
             PROVE  bounded(tar, e) /\ tar.RecursionBoundMap[e] \in recursionBounds(p.source, e)
  BY DEF HasBounds
<1> DEFINE R == tar.RecursionBoundMap
           K == recursionBounds(p.source, e)
<1>1. /\ e \in DOMAIN R => R[e] \in K /\ R[e] > 0
      /\ (\E k \in K : k > 0) => e \in DOMAIN R
  BY FunctionsHaveTheirBounds DEF BoundsAreRight
<1>2. K # {} /\ \A k \in K : k \in Nat \ {0}
  BY DEF EntersCycle, allow
<1>3. \E k \in K : k > 0
  BY <1>2
<1> QED BY <1>1, <1>3 DEF bounded

LEMMA FinalizeKeepsLoops ==
  ASSUME NEW p, WellFormed(p), IsFiniteSet(Blocks(p)), IsFiniteSet(Defined(p)), StartIsNotReentered(p), BoundsAreRight(p),
         NEW G, IsFilled(p, G, Defined(p)), LoopsIn(p, G, Defined(p)),
         NEW tar, tar.RecursionBoundMap = loadRecursionBounds(ExportLoopBoundsJSON(p.source)),
         NEW rank \in addressOrders(p)
  PROVE  FinalLoops(p, finalize(p, tar, G, rank))
<1> DEFINE M == finalize(p, tar, G, rank)
           kept == closure(Entry, programEdges(p), programNodes(p))
           closing == closingCalls(p, tar, G, rank)
           headers == UNION {entryNodes(G, cs.callee) : cs \in closing}
           closed == UNION {{cs.node} \X entryNodes(G, cs.callee) : cs \in closing}
           R == tar.RecursionBoundMap
<1>0. DOMAIN G = GraphFields /\ Entry \in G.Nodes
  <2>1. DOMAIN G = GraphFields
    BY DEF IsFilled
  <2>2. Entry \in programNodes(p) /\ G.Nodes = programNodes(p)
    BY Wiring DEF programNodes
  <2> QED BY <2>1, <2>2
<1>1. /\ M.Nodes = kept
      /\ M.BackEdges = {e \in G.BackEdges \cup closed : e[2] \in kept}
      /\ M.UpperLoopBound = [n \in kept |-> IF n \in headers THEN R[ownerOf(p, n)] ELSE G.UpperLoopBound[n]]
  BY <1>0, Wiring DEF finalize, GraphFields
<1>2. HasBounds(p, tar) /\ \A e \in Defined(p) : EntersCycle(p, e, p.cycle[e]) => R[e] \in recursionBounds(p.source, e)
  BY RecursionsHaveBounds
<1>3. RecursionIsBounded(p)
  BY DEF BoundsAreRight
<1>4. closing \subseteq {siteOf(p, b) : b \in {c \in DOMAIN p.calls : p.calls[c] \notin p.symbols}}
  BY AllBlocks DEF closingCalls, IsFilled
<1>5. \A b \in DOMAIN p.calls : p.calls[b] \in Defined(p) => (siteOf(p, b) \in closing <=> b \in closingBlocks(p))
  BY <1>2, <1>3, ClosingCalls
<1>6. /\ \A f \in Defined(p) : entryNodes(G, f) = {firstBlockOf(p, f)}
      /\ \A f : f \notin Defined(p) => entryNodes(G, f) = {}
  BY Wiring
<1>7. \A b : siteOf(p, b).node = b /\ siteOf(p, b).callee = p.calls[b]
  BY DEF siteOf
<1>8. \A b \in closingBlocks(p) : /\ b \in DOMAIN p.calls /\ p.calls[b] \in Defined(p)
                                  /\ EntersCycle(p, p.calls[b], p.cycle[p.calls[b]])
  BY DEF closingBlocks, wiredBlocks
<1> HIDE DEF M, kept, closing, headers, closed, R
<1>9. \A n \in headers : \E b \in closingBlocks(p) : n = firstBlockOf(p, p.calls[b])
  <2> TAKE n \in headers
  <2>1. PICK cs \in closing : n \in entryNodes(G, cs.callee)
    BY DEF headers
  <2>2. PICK b \in DOMAIN p.calls : cs = siteOf(p, b)
    BY <1>4, <2>1
  <2>3. p.calls[b] \in Defined(p) /\ n = firstBlockOf(p, p.calls[b])
    BY <1>6, <1>7, <2>1, <2>2
  <2> QED BY <1>5, <2>1, <2>2, <2>3
<1>10. \A e \in closed : \E b \in closingBlocks(p) : e = closingEdge(p, b)
  <2> TAKE e \in closed
  <2>1. PICK cs \in closing : e \in {cs.node} \X entryNodes(G, cs.callee)
    BY DEF closed
  <2>2. PICK b \in DOMAIN p.calls : cs = siteOf(p, b)
    BY <1>4, <2>1
  <2>3. p.calls[b] \in Defined(p) /\ e = closingEdge(p, b)
    BY <1>6, <1>7, <2>1, <2>2 DEF closingEdge
  <2> QED BY <1>5, <2>1, <2>2, <2>3
<1>11. \A b \in closingBlocks(p) : closingEdge(p, b) \in closed /\ closingEdge(p, b)[2] \in headers
  <2> TAKE b \in closingBlocks(p)
  <2>1. siteOf(p, b) \in closing /\ entryNodes(G, p.calls[b]) = {firstBlockOf(p, p.calls[b])}
    BY <1>5, <1>6, <1>8
  <2>2. closingEdge(p, b) \in {siteOf(p, b).node} \X entryNodes(G, siteOf(p, b).callee)
    BY <1>7, <2>1 DEF closingEdge
  <2>3. closingEdge(p, b)[2] \in entryNodes(G, siteOf(p, b).callee)
    BY <2>2
  <2> QED BY <2>1, <2>2, <2>3 DEF closed, headers
\* No loop begins where a recursion does.
<1>12. \A d \in p.succ : d[2] \notin headers
  <2> SUFFICES ASSUME NEW d \in p.succ, d[2] \in headers PROVE FALSE
    OBVIOUS
  <2>1. PICK b \in closingBlocks(p) : d[2] = firstBlockOf(p, p.calls[b])
    BY <1>9
  <2>2. EntersCycle(p, p.calls[b], p.cycle[p.calls[b]])
    BY <1>8
  <2> QED BY <2>1, <2>2 DEF EntersCycle
<1>13. ASSUME NEW e \in M.BackEdges
       PROVE  /\ e[2] \in M.Nodes
              /\ \/ \E f \in Defined(p) : e \in closesLoop(p, f) /\ IsLoopBound(p, e[2], M.UpperLoopBound[e[2]])
                 \/ \E b \in closingBlocks(p) :
                      e = closingEdge(p, b) /\ M.UpperLoopBound[e[2]] \in recursionBounds(p.source, p.calls[b])
  <2>1. e[2] \in kept /\ e \in G.BackEdges \cup closed
    BY <1>1
  <2>2. CASE e \in G.BackEdges
    <3>1. PICK f \in Defined(p) : e \in closesLoop(p, f)
      BY <2>2 DEF LoopsIn
    <3>2. IsLoopBound(p, e[2], G.UpperLoopBound[e[2]])
      BY <2>2 DEF LoopsIn
    <3>3. e[2] \notin headers
      BY <1>12, <3>1, LoopsAreClosedInside
    <3>4. M.UpperLoopBound[e[2]] = G.UpperLoopBound[e[2]]
      BY <1>1, <2>1, <3>3
    <3> QED BY <1>1, <2>1, <3>1, <3>2, <3>4
  <2>3. CASE e \in closed
    <3>1. PICK b \in closingBlocks(p) : e = closingEdge(p, b)
      BY <1>10, <2>3
    <3>2. M.UpperLoopBound[e[2]] = R[ownerOf(p, e[2])]
      BY <1>1, <1>11, <2>1, <3>1
    <3>3. ownerOf(p, e[2]) = p.calls[b]
      <4>1. e[2] = firstBlockOf(p, p.calls[b]) /\ p.calls[b] \in Defined(p)
        BY <1>8, <3>1 DEF closingEdge
      <4>2. e[2] \in BlocksOf(p, p.calls[b]) /\ e[2] \in Blocks(p)
        BY <4>1, EntryBlocks DEF firstBlockOf
      <4> QED BY <4>1, <4>2, Owners
    <3>4. R[p.calls[b]] \in recursionBounds(p.source, p.calls[b])
      BY <1>2, <1>8
    <3> QED BY <1>1, <2>1, <3>1, <3>2, <3>3, <3>4
  <2> QED BY <2>1, <2>2, <2>3
<1>14. \A f \in Defined(p) : \A e \in loopBackEdges(p, f) : e[2] \in M.Nodes => e \in M.BackEdges
  BY <1>1 DEF LoopsIn
<1>15. \A f \in Defined(p) : \A e \in writtenBackEdges(p, f) : e[2] \in M.Nodes =>
         \E d \in M.BackEdges : d \in writtenBackEdges(p, f) /\ d[2] = e[2]
  <2> SUFFICES ASSUME NEW f \in Defined(p), NEW e \in writtenBackEdges(p, f), e[2] \in M.Nodes
               PROVE  \E d \in M.BackEdges : d \in writtenBackEdges(p, f) /\ d[2] = e[2]
    OBVIOUS
  <2>1. PICK d \in G.BackEdges : d \in writtenBackEdges(p, f) /\ d[2] = e[2]
    BY DEF LoopsIn
  <2> QED BY <1>1, <2>1
<1>16. \A b \in closingBlocks(p) : closingEdge(p, b)[2] \in M.Nodes => closingEdge(p, b) \in M.BackEdges
  BY <1>1, <1>11
<1>17. FinalLoops(p, M)
  BY <1>13, <1>14, <1>15, <1>16 DEF FinalLoops
<1> QED BY <1>17 DEF M

\* So the bounds are kept.
LEMMA FinalBoundsAreKept ==
  ASSUME WellFormed(program), IsFiniteSet(Blocks(program)), StartIsNotReentered(program), BoundsAreRight(program),
         FinalLoops(program, MASG), ASG = initializeGraph(MASG)
  PROVE  BoundsAreKept
<1> SUFFICES ASSUME NEW h \in ASG.LoopHeaders, bound(h) > 0
             PROVE  KeepsLoop(h) \/ \E f \in Defined(program) \ {program.start} : h = firstBlock(f) /\ KeepsRecursion(f)
  BY DEF BoundsAreKept
<1>1. /\ \E e \in MASG.BackEdges : e[2] = h
      /\ bound(h) = MASG.UpperLoopBound[h]
      /\ ASG.BackEdges \subseteq MASG.BackEdges
  BY DEF initializeGraph, bound
<1>2. PICK e \in MASG.BackEdges : e[2] = h
  BY <1>1
<1>3. \A f : firstBlock(f) = firstBlockOf(program, f)
  BY DEF firstBlock, firstBlockOf
<1>4. \A b \in closingBlocks(program) :
        /\ b \in DOMAIN program.calls /\ program.calls[b] \in Defined(program) \ {program.start}
        /\ ownerOf(program, b) \in program.cycle[program.calls[b]]
        /\ EntersCycle(program, program.calls[b], program.cycle[program.calls[b]])
        /\ closingEdge(program, b)[2] = firstBlockOf(program, program.calls[b])
  BY DEF closingBlocks, wiredBlocks, closingEdge
<1>5. \A d \in MASG.BackEdges :
        (\E f \in Defined(program) : d \in closesLoop(program, f) /\ IsLoopBound(program, d[2], MASG.UpperLoopBound[d[2]]))
        \/ \E b \in closingBlocks(program) :
             d = closingEdge(program, b) /\ MASG.UpperLoopBound[d[2]] \in recursionBounds(program.source, program.calls[b])
  BY DEF FinalLoops
<1>6. \A f \in Defined(program) : \A d \in closesLoop(program, f) : \A b \in closingBlocks(program) :
        d \in program.succ /\ d[2] \in BlocksOf(program, f) /\ d[2] # closingEdge(program, b)[2]
  <2> SUFFICES ASSUME NEW f \in Defined(program), NEW d \in closesLoop(program, f), NEW b \in closingBlocks(program)
               PROVE  d \in program.succ /\ d[2] \in BlocksOf(program, f) /\ d[2] # closingEdge(program, b)[2]
    OBVIOUS
  <2>1. d \in program.succ /\ d[2] \in BlocksOf(program, f)
    BY LoopsAreClosedInside
  <2>2. d[2] # firstBlockOf(program, program.calls[b])
    BY <1>4, <2>1 DEF EntersCycle
  <2> QED BY <1>4, <2>1, <2>2
<1>7. ASSUME NEW f \in Defined(program), e \in closesLoop(program, f), IsLoopBound(program, h, bound(h))
      PROVE  KeepsLoop(h)
  <2>1. ASSUME NEW d \in ASG.BackEdges, d[2] = h PROVE d \in program.succ /\ d[1] \in program.body[h]
    <3>1. PICK g \in Defined(program) : d \in closesLoop(program, g)
      BY <1>1, <1>2, <1>5, <1>6, <1>7, <2>1
    <3>2. d \in program.succ /\ h \in BlocksOf(program, g) /\ h \in BlocksOf(program, f)
      BY <1>2, <1>6, <1>7, <2>1, <3>1, LoopsAreClosedInside
    <3>3. g = f
      BY <3>1, <3>2 DEF WellFormed
    <3>4. CASE h \in headersOf(program, f)
      <4>1. d \in loopBackEdges(program, f)
        BY <2>1, <3>1, <3>3, <3>4, LoopsAreClosedInside DEF closesLoop
      <4>2. d[1] \in loopBlocks(program, f, h)
        BY <2>1, <3>1, <3>3, <4>1, LoopsAreClosedInside
      <4>3. isLoopOf(program, h, loopBlocks(program, f, h))
        BY <3>4 DEF BoundsAreRight, NaturalLoopsAreBounded
      <4> QED BY <3>2, <4>2, <4>3 DEF isLoopOf
    <3>5. CASE h \notin headersOf(program, f)
      <4>1. d \in writtenBackEdges(program, f)
        BY <2>1, <3>1, <3>3, <3>5, LoopsAreClosedInside DEF closesLoop
      <4>2. d[1] \in computeLoopBody(program, f, h)
        BY <2>1, <3>1, <3>3, <4>1, LoopsAreClosedInside
      <4>3. isLoopOf(program, h, computeLoopBody(program, f, h))
        BY <2>1, <4>1 DEF BoundsAreRight, IrreducibleLoopsAreBounded
      <4> QED BY <3>2, <4>2, <4>3 DEF isLoopOf
    <3> QED BY <3>4, <3>5
  <2>2. /\ \A d \in program.succ : d[2] \in program.body[h] /\ d[1] \notin program.body[h] =>
             d[2] = h \/ (d \in program.untaken /\ ~calls(d[1]))
        /\ \A g \in Defined(program) : firstBlock(g) \in program.body[h] => firstBlock(g) = h
    BY <1>3, <1>7 DEF IsLoopBound, startsAt, calls
  <2> QED BY <1>7, <2>1, <2>2 DEF KeepsLoop, IsLoopBound
<1>8. ASSUME NEW b \in closingBlocks(program), e = closingEdge(program, b),
             bound(h) \in recursionBounds(program.source, program.calls[b])
      PROVE  \E f \in Defined(program) \ {program.start} : h = firstBlock(f) /\ KeepsRecursion(f)
  <2> DEFINE f == program.calls[b]
             cycle == program.cycle[f]
  <2>1. f \in Defined(program) \ {program.start} /\ h = firstBlock(f) /\ EntersCycle(program, f, cycle)
    BY <1>2, <1>3, <1>4, <1>8
  <2>2. /\ f \in DOMAIN program.activations /\ f \in cycle
        /\ bound(h) \in Nat \ {0} /\ program.activations[f] \in 0 .. bound(h)
    BY <1>8, <2>1 DEF EntersCycle, allow
  <2>3. \A g \in Defined(program) : program.cycle[g] = recursesThrough(program, g)
    BY DEF BoundsAreRight, RecursionIsBounded
  <2>4. program.start \notin cycle
    BY <2>1, <2>3, StartIsInNoCycle
  <2>5. \A g \in Defined(program) : IF g \in cycle THEN program.cycle[g] = cycle ELSE program.cycle[g] \cap cycle = {}
    BY <2>1, <2>3, CyclesAreDisjoint
  <2>6. \A c \in DOMAIN program.calls :
          calleeOf(c) \in cycle /\ ownerOf(program, c) \notin cycle => calleeOf(c) = f
    <3> SUFFICES ASSUME NEW c \in DOMAIN program.calls, calleeOf(c) \in cycle, ownerOf(program, c) \notin cycle
                 PROVE  calleeOf(c) = f
      OBVIOUS
    <3>1. calleeOf(c) \in Defined(program)
      BY <2>1, <2>3 DEF recursesThrough
    <3>2. <<ownerOf(program, c), calleeOf(c)>> \in callsInto(program, cycle)
      BY <3>1 DEF callsInto, callGraph, calleeOf
    <3> QED BY <2>1, <3>2 DEF EntersCycle
  <2>7. ASSUME NEW d \in ASG.BackEdges, d[2] = firstBlock(f)
        PROVE  calls(d[1]) /\ calleeOf(d[1]) = f /\ ownerOf(program, d[1]) \in cycle
    <3>1. PICK c \in closingBlocks(program) : d = closingEdge(program, c)
      <4>1. d[2] = closingEdge(program, b)[2] /\ d \in MASG.BackEdges
        BY <1>1, <1>2, <1>8, <2>1, <2>7
      <4> QED BY <1>5, <1>6, <4>1
    <3>2. d[1] = c /\ d[2] = firstBlock(program.calls[c])
      BY <1>3, <3>1 DEF closingEdge
    <3>3. program.calls[c] = f
      <4>1. program.calls[c] \in Defined(program) /\ f \in Defined(program)
        BY <1>4, <2>1
      <4>2. firstBlock(f) \in BlocksOf(program, f) /\ firstBlock(program.calls[c]) \in BlocksOf(program, program.calls[c])
        BY <4>1, EntryBlocks DEF firstBlock
      <4> QED BY <2>7, <3>2, <4>1, <4>2 DEF WellFormed
    <3> QED BY <1>4, <3>2, <3>3 DEF calls, calleeOf
  <2>8. KeepsRecursion(f)
    <3> HIDE DEF f
    <3> QED BY <2>1, <2>2, <2>4, <2>5, <2>6, <2>7 DEF KeepsRecursion
  <2> QED BY <2>1, <2>8
<1> QED BY <1>1, <1>2, <1>5, <1>7, <1>8

-----------------------------------------------------------------------------
(***************************************************************************)
(* The passes, function by function.                                        *)
(***************************************************************************)
found == {program.order[k] : k \in 1 .. aggregated}

BoundInv ==
  /\ AnalysisInv
  /\ JSON # NoFile => JSON = ExportLoopBoundsJSON(program.source)
  /\ aggregated > 0 => TAR.RecursionBoundMap = loadRecursionBounds(ExportLoopBoundsJSON(program.source))
  /\ FoundFor(program, TAR, found)
  /\ next < Len(program.order) => LoopsIn(program, MASG, seen)
  /\ next = Len(program.order) => FinalLoops(program, MASG)

LEMMA BoundInvInit == Init => BoundInv
<1> SUFFICES ASSUME Init PROVE BoundInv
  OBVIOUS
<1>1. WellFormed(program)
  BY ProgramsAreWellFormed DEF Init
<1>2. Len(program.order) \in Nat /\ Len(program.order) > 0 /\ next = 0 /\ aggregated = 0
  BY <1>1 DEF WellFormed, Defined, Range, Init
<1>3. 1 .. 0 = {} /\ DOMAIN << >> = {}
  OBVIOUS
<1>4. seen = {} /\ found = {}
  BY <1>2, <1>3 DEF seen, found
<1>5. FoundFor(program, TAR, found)
  BY <1>3, <1>4 DEF FoundFor, Init
<1>6. LoopsIn(program, MASG, seen)
  BY <1>4 DEF LoopsIn, Init, emptyGraph
<1> QED BY <1>2, <1>5, <1>6, AnalysisInit DEF BoundInv, Init

LEMMA BoundInvStep ==
  ASSUME NoReentry, \A p \in Programs : BoundsAreRight(p)
  PROVE  BoundInv /\ [Next]_vars => BoundInv'
<1> SUFFICES ASSUME BoundInv, [Next]_vars PROVE BoundInv'
  OBVIOUS
<1> DEFINE L == Len(program.order)
           json == ExportLoopBoundsJSON(program.source)
<1>0. /\ AnalysisInv' /\ AnalysisInv
      /\ WellFormed(program) /\ Entry # Exit /\ BoundsAreRight(program) /\ StartIsNotReentered(program)
      /\ IsFiniteSet(Blocks(program)) /\ IsFiniteSet(Defined(program))
  <2>1. AnalysisInv' /\ AnalysisInv
    BY AnalysisStep DEF BoundInv
  <2>2. program \in Programs /\ WellFormed(program)
    BY <2>1, ProgramsAreWellFormed DEF AnalysisInv
  <2>3. IsFiniteSet(Defined(program))
    BY <2>2, FiniteRange DEF WellFormed, Defined
  <2>4. IsFiniteSet(Blocks(program))
    <3>1. Blocks(program) \subseteq programNodes(program)
      BY DEF programNodes
    <3> QED BY <2>2, <3>1, FiniteProgram, FS_Subset
  <2> QED BY <2>1, <2>2, <2>3, <2>4, ProgramsAreWellFormed DEF NoReentry
<1>1. L \in Nat /\ program.order \in Seq(DOMAIN program.layout)
  BY <1>0 DEF WellFormed
<1>2. CASE UNCHANGED analysis
  BY <1>0, <1>2 DEF BoundInv, analysis, seen, found
<1>3. CASE ExportBounds
  BY <1>0, <1>3 DEF BoundInv, ExportBounds, seen, found
<1>4. CASE AggregateLoopBounds
  <2> DEFINE f == program.order[next + 1]
  <2>1. aggregated = next /\ next < L /\ aggregated' = aggregated + 1 /\ JSON = json /\ next \in Nat
    BY <1>0, <1>1, <1>4 DEF AggregateLoopBounds, BoundInv, AnalysisInv
  <2>2. PICK others \in irreducibleBackEdges(program, f, json) : TAR' = aggregate(program, f, TAR, json, others)
    BY <1>4, <2>1 DEF AggregateLoopBounds
  <2>3. f \in Defined(program)
    BY <1>1, <2>1 DEF Defined, Range
  <2>4. FoundFor(program, TAR', found \cup {f})
    BY <1>0, <2>2, <2>3, AggregateFinds DEF BoundInv
  <2>5. UNCHANGED <<program, JSON, next, MASG>>
    BY <1>4 DEF AggregateLoopBounds
  <2>6. found' = found \cup {f}
    <3>1. 1 .. (next + 1) = (1 .. next) \cup {next + 1}
      BY <2>1
    <3> QED BY <2>1, <2>5, <3>1 DEF found
  <2>7. TAR'.RecursionBoundMap = loadRecursionBounds(json)
    BY <2>2 DEF aggregate
  <2>8. FoundFor(program, TAR, found)'
    BY <2>4, <2>5, <2>6
  <2>9. seen' = seen
    BY <2>5 DEF seen
  <2> QED BY <1>0, <2>1, <2>5, <2>7, <2>8, <2>9 DEF BoundInv
<1>5. CASE FillMuGraph
  <2> DEFINE f == program.order[next + 1]
  <2>1. /\ next + 1 \in 1 .. L /\ next \in Nat /\ aggregated = next + 1 /\ next < L
        /\ UNCHANGED <<program, JSON, TAR, aggregated>> /\ next' = next + 1
    BY <1>0, <1>1, <1>5 DEF AnalysisInv, FillMuGraph
  <2>2. f \in Defined(program) /\ seen \subseteq Defined(program)
    BY <1>1, <2>1 DEF Defined, Range, seen
  <2>3. seen' = seen \cup {f} /\ found = seen \cup {f}
    <3>1. 1 .. (next + 1) = (1 .. next) \cup {next + 1}
      BY <2>1
    <3> QED BY <2>1, <3>1 DEF seen, found
  <2>4. PICK u \in Uninitialised :
          LET filled == fillGraphWithFunction(program, TAR, MASG, f, u)
          IN  \/ ~IsLast /\ MASG' = filled
              \/ IsLast /\ \E rank \in addressOrders(program) : MASG' = finalize(program, TAR, filled, rank)
    BY <1>5 DEF FillMuGraph
  <2> DEFINE filled == fillGraphWithFunction(program, TAR, MASG, f, u)
  <2>5. IsFilled(program, MASG, seen) /\ LoopsIn(program, MASG, seen) /\ FoundFor(program, TAR, seen \cup {f})
    BY <1>0, <2>1, <2>3 DEF AnalysisInv, BoundInv
  <2>6. IsFilled(program, filled, seen \cup {f})
    BY <1>0, <2>2, <2>5, FillAddsFunction
  <2>7. LoopsIn(program, filled, seen \cup {f})
    <3>1. DOMAIN MASG = GraphFields
      BY <2>5 DEF IsFilled
    <3> QED BY <1>0, <2>2, <2>5, <3>1, FillAddsLoops
  <2>8. TAR.RecursionBoundMap = loadRecursionBounds(json)
    BY <2>1 DEF BoundInv
  <2>9. FoundFor(program, TAR, found)'
    <3>1. found' = found
      BY <2>1 DEF found
    <3> QED BY <2>1, <3>1 DEF BoundInv
  <2> HIDE DEF filled
  <2>10. CASE ~IsLast
    <3>1. MASG' = filled /\ next' < L
      BY <1>1, <2>1, <2>4, <2>10 DEF IsLast, filled
    <3>2. LoopsIn(program, MASG, seen)'
      BY <2>1, <2>3, <2>7, <3>1
    <3> QED BY <1>0, <1>1, <2>1, <2>8, <2>9, <3>1, <3>2 DEF BoundInv
  <2>11. CASE IsLast
    <3>1. seen \cup {f} = Defined(program)
      BY <1>1, <2>1, <2>2, <2>3, <2>11 DEF IsLast, seen, Defined, Range
    <3>2. PICK rank \in addressOrders(program) : MASG' = finalize(program, TAR, filled, rank)
      BY <2>4, <2>11 DEF filled
    <3>3. FinalLoops(program, MASG')
      BY <1>0, <2>6, <2>7, <2>8, <3>1, <3>2, FinalizeKeepsLoops
    <3>4. FinalLoops(program, MASG)' /\ next' = L
      BY <2>1, <2>11, <3>3 DEF IsLast
    <3> QED BY <1>0, <1>1, <2>1, <2>8, <2>9, <3>4 DEF BoundInv
  <2> QED BY <2>10, <2>11
<1>6. CASE SolvePaths
  BY <1>0, <1>6 DEF BoundInv, SolvePaths, seen, found
<1> QED
  BY <1>2, <1>3, <1>4, <1>5, <1>6
     DEF Next, vars, Begin, Branch, Call, Return, Leave

LEMMA BoundInvKeeps ==
  ASSUME NoReentry, \A p \in Programs : BoundsAreRight(p), BoundInv
  PROVE  BoundsAreKept
<1> SUFFICES ASSUME ASG # NoGraph PROVE BoundsAreKept
  BY DEF BoundsAreKept
<1>1. /\ program \in Programs /\ WellFormed(program)
      /\ FinalLoops(program, MASG) /\ ASG = initializeGraph(MASG)
  BY ProgramsAreWellFormed DEF BoundInv, AnalysisInv
<1>2. IsFiniteSet(Blocks(program))
  <2>1. Blocks(program) \subseteq programNodes(program)
    BY DEF programNodes
  <2> QED BY <1>1, <2>1, FiniteProgram, FS_Subset
<1>3. StartIsNotReentered(program) /\ BoundsAreRight(program)
  BY <1>1 DEF NoReentry
<1> QED BY <1>1, <1>2, <1>3, FinalBoundsAreKept

(***************************************************************************)
(* Where the bounds of a program are right, every bound in the solver graph is  *)
(* a bound of the loop or the cycle of functions it stands at: the plugin gives *)
(* each pragma to its loop, the loop bound pass finds a bound for each loop,    *)
(* the depth first searches find just the edges that close loops and          *)
(* recursions, and the graph keeps bounds and back edges together.           *)
(***************************************************************************)
THEOREM BoundsAreAlwaysKept ==
  ASSUME NoReentry, \A p \in Programs : BoundsAreRight(p)
  PROVE  Spec => []BoundsAreKept
<1>1. BoundInv => BoundsAreKept
  BY BoundInvKeeps
<1>2. BoundInv /\ [Next]_vars => BoundInv'
  BY BoundInvStep
<1> QED BY <1>1, <1>2, BoundInvInit, PTL DEF Spec

(***************************************************************************)
(* So, for such programs, the counts of every complete execution satisfy all  *)
(* rows of the integer program.                                             *)
(***************************************************************************)
THEOREM BoundedExecutionsAreFeasible ==
  ASSUME NoReentry, NoPartialStops, \A p \in Programs : BoundsAreRight(p)
  PROVE  Spec => []ExecutionIsFeasible
BY BoundsAreAlwaysKept, ExecutionsAreFeasible, PTL

(***************************************************************************)
(* And the value of the integer program bounds the cycles of every complete    *)
(* execution, if no callee without a cost has been reported.                 *)
(***************************************************************************)
THEOREM TheWCETBoundsAllExecutions ==
  ASSUME NoReentry, NoPartialStops, \A p \in Programs : BoundsAreRight(p), NEW W \in Nat
  PROVE  Spec => [](MASG.UnsoundExternalCallees = {} /\ Complete /\ IsUpperBound(W) => elapsed <= W)
BY BoundsAreAlwaysKept, TheWCETIsABound, PTL

-----------------------------------------------------------------------------
(***************************************************************************)
(* No set of edges is free.  Taken once each, edges have the flow of their     *)
(* number.                                                                *)
(***************************************************************************)
LEMMA SumsOfOnes ==
  ASSUME NEW S, IsFiniteSet(S), NEW g, NEW c, Sums(g, c, S), NEW C,
         \A e \in S : c[e] = IF e \in C THEN 1 ELSE 0
  PROVE  g[S] = Cardinality(S \cap C)
<1> DEFINE T == {s \in SUBSET S : g[s] = Cardinality(s \cap C)}
<1>1. ASSUME NEW s \in SUBSET S, \A e \in s : s \ {e} \in T PROVE s \in T
  <2>1. CASE s = {}
    <3>1. g[s] = 0
      BY <2>1, SumsUnfold
    <3>2. s \cap C = {}
      BY <2>1
    <3> QED BY <3>1, <3>2, FS_EmptySet
  <2>2. CASE s # {}
    <3> DEFINE e == chosen(s)
               r == s \ {e}
    <3>1. e \in s /\ g[s] = c[e] + g[r]
      BY <2>2, SumsUnfold
    <3>2. r \in T
      BY <3>1, <1>1
    <3>3. g[r] = Cardinality(r \cap C)
      BY <3>2
    <3>4. c[e] = IF e \in C THEN 1 ELSE 0
      BY <3>1
    <3>5. IsFiniteSet(s \cap C) /\ IsFiniteSet(r \cap C)
      BY FS_Subset
    <3>6. CASE e \in C
      <4>1. e \in s \cap C /\ r \cap C = (s \cap C) \ {e}
        BY <3>1, <3>6
      <4>2. Cardinality(r \cap C) = Cardinality(s \cap C) - 1
        <5> DEFINE P == s \cap C
        <5>1. IsFiniteSet(P) /\ e \in P
          BY <3>5, <4>1
        <5>2. Cardinality(P \ {e}) = Cardinality(P) - 1
          <6> HIDE DEF P, e
          <6> QED BY <5>1, FS_RemoveElement
        <5> QED BY <4>1, <5>2
      <4>3. Cardinality(s \cap C) \in Nat
        BY <3>5, FS_CardinalityType
      <4> HIDE DEF e, r
      <4> QED BY <3>1, <3>3, <3>4, <3>6, <4>2, <4>3
    <3>7. CASE e \notin C
      <4>1. r \cap C = s \cap C
        BY <3>7
      <4>2. Cardinality(s \cap C) \in Nat
        BY <3>5, FS_CardinalityType
      <4> HIDE DEF e, r
      <4> QED BY <3>1, <3>3, <3>4, <3>7, <4>1, <4>2
    <3> QED BY <3>6, <3>7
  <2> QED BY <2>1, <2>2
<1>2. SUBSET S \subseteq T
  <2> HIDE DEF T
  <2> QED BY <1>1, SubsetInduction
<1> QED BY <1>2

LEMMA FlowOfSet ==
  ASSUME NEW E, IsFiniteSet(E), NEW C
  PROVE  flow(E, SetToBag(C)) = Cardinality(E \cap C)
<1> DEFINE c == [e \in E |-> copies(e, SetToBag(C))]
<1>1. PICK g : Sums(g, c, E) /\ flow(E, SetToBag(C)) = g[E]
  BY FlowIsASum
<1>2. \A e \in E : c[e] = IF e \in C THEN 1 ELSE 0
  BY DEF copies, BagIn, BagToSet, SetToBag
<1> HIDE DEF c
<1> QED BY <1>1, <1>2, SumsOfOnes

-----------------------------------------------------------------------------
(***************************************************************************)
(* The calls that close no recursion: without the others nothing recurs.      *)
(***************************************************************************)
openCalls(p) == {<<ownerOf(p, b), p.calls[b]>> : b \in wiredBlocks(p) \ closingBlocks(p)}

LEMMA OpenCallsAreAcyclic ==
  ASSUME NEW p, WellFormed(p), RecursionIsBounded(p)
  PROVE  openCalls(p) \in SUBSET (Defined(p) \X Defined(p)) /\ acyclic(openCalls(p), Defined(p))
<1> DEFINE D == Defined(p)
           K == openCalls(p)
           cg == callGraph(p)
<1>1. cg \in SUBSET (D \X D)
  BY CallGraphIsWithin
<1>2. K \subseteq cg
  BY DEF openCalls, wiredBlocks, callGraph
<1>3. K \in SUBSET (D \X D)
  BY <1>1, <1>2
<1>4. ASSUME NEW a1 \in D, NEW a2 \in D, <<a1, a2>> \in K, a1 \in closure(a2, K, D) PROVE FALSE
  <2> DEFINE cyc == recursesThrough(p, a2)
  <2>1. <<a1, a2>> \in cg
    BY <1>2, <1>4
  <2>2. \A n \in D : n \in cyc <=> a2 \in closure(n, cg, D) /\ comesTo(p, a2, n)
    BY RecursesThrough
  <2>3. a2 \in closure(a1, cg, D)
    BY <2>1, ClosureRoot, ClosureStep
  <2>4. comesTo(p, a2, a1)
    <3>1. CASE a1 = a2
      <4>1. a1 \in closure(a1, cg, D)
        BY ClosureRoot
      <4> QED BY <2>1, <3>1, <4>1 DEF comesTo
    <3>2. CASE a1 # a2
      <4>1. PICK h \in D \ {a2} : <<a2, h>> \in K /\ a1 \in closure(h, K, D)
        <5> HIDE DEF K
        <5> QED BY <1>3, <1>4, <3>2, ClosureFirstStep
      <4>2. closure(h, K, D) \subseteq closure(h, cg, D)
        <5> HIDE DEF K, cg
        <5> QED BY <1>2, <1>3, ClosureGrows
      <4> QED BY <1>2, <4>1, <4>2 DEF comesTo
    <3> QED BY <3>1, <3>2
  <2>5. a1 \in cyc
    BY <2>2, <2>3, <2>4
  <2>6. a2 \in cyc
    BY <2>5, CyclesAreDisjoint
  <2>7. PICK e \in D : EntersCycle(p, e, cyc)
    BY <2>5 DEF RecursionIsBounded
  <2>8. e \in cyc /\ acyclic(cg, cyc \ {e})
    BY <2>7 DEF EntersCycle
  <2>9. p.cycle[e] = cyc
    BY <2>8, CyclesAreDisjoint DEF RecursionIsBounded
  <2>10. \A u, v \in D : <<u, v>> \in K /\ u \in cyc => v # e
    <3> SUFFICES ASSUME NEW u \in D, NEW v \in D, <<u, v>> \in K, u \in cyc, v = e PROVE FALSE
      OBVIOUS
    <3>1. PICK b \in wiredBlocks(p) \ closingBlocks(p) : u = ownerOf(p, b) /\ e = p.calls[b]
      BY DEF openCalls
    <3>2. ownerOf(p, b) \in p.cycle[p.calls[b]] /\ EntersCycle(p, p.calls[b], p.cycle[p.calls[b]])
      BY <3>1, <2>7, <2>9
    <3>3. b \in closingBlocks(p)
      BY <3>1, <3>2 DEF closingBlocks
    <3> QED BY <3>1, <3>3
  <2> DEFINE N == cyc \ {e}
             R == among(cg, N)
             S == {n \in D : n \in closure(a2, cg, D) /\ (n \in cyc => n \in closure(a2, R, N))}
  <2>11. a2 \in N
    BY <1>4, <2>5, <2>6, <2>10
  <2>12. a2 \in S
    BY <2>11, ClosureRoot
  <2>13. ASSUME NEW u \in D, NEW v \in D, <<u, v>> \in K, u \in S PROVE v \in S
    <3>1. <<u, v>> \in cg /\ u \in closure(a2, cg, D)
      BY <1>2, <2>13
    <3>2. v \in closure(a2, cg, D)
      BY <3>1, ClosureStep
    <3>3. ASSUME v \in cyc PROVE v \in closure(a2, R, N)
      <4>1. v \in closure(u, cg, D)
        BY <3>1, ClosureRoot, ClosureStep
      <4>2. a2 \in closure(v, cg, D)
        BY <2>2, <3>3
      <4>3. a2 \in closure(u, cg, D)
        BY <4>1, <4>2, ClosureJoin
      <4>4. comesTo(p, a2, u)
        BY <2>2, <2>6, <3>1, ComesFurther
      <4>5. u \in cyc
        BY <2>2, <4>3, <4>4
      <4>6. u \in closure(a2, R, N)
        BY <2>13, <4>5
      <4>7. v \in N
        BY <2>10, <2>13, <3>3, <4>5
      <4>8. u \in N
        BY <4>6, ClosureWithin
      <4>9. <<u, v>> \in R
        BY <3>1, <4>7, <4>8 DEF among
      <4> HIDE DEF R, N
      <4> QED BY <4>6, <4>7, <4>9, ClosureStep
    <3> QED BY <3>2, <3>3
  <2>14. closure(a2, K, D) \subseteq S
    <3>1. \A d \in K : d[1] \in S => d[2] \in S
      <4> SUFFICES ASSUME NEW d \in K, d[1] \in S PROVE d[2] \in S
        OBVIOUS
      <4>1. d[1] \in D /\ d[2] \in D /\ <<d[1], d[2]>> \in K
        <5>1. d = <<d[1], d[2]>>
          BY <1>3
        <5> QED BY <1>3, <5>1
      <4> HIDE DEF K, S
      <4> QED BY <2>13, <4>1
    <3>2. S \in SUBSET D
      OBVIOUS
    <3> HIDE DEF K, S
    <3> QED BY <2>12, <3>1, <3>2, ClosureKeeps
  <2>15. a1 \in closure(a2, R, N)
    BY <1>4, <2>5, <2>14
  <2>16. <<a1, a2>> \in R
    BY <2>1, <2>11, <2>15, ClosureWithin DEF among
  <2> QED BY <2>8, <2>15, <2>16 DEF acyclic
<1>5. among(K, D) = K
  BY <1>3 DEF among
<1>6. \A d \in K : d[1] \notin closure(d[2], K, D)
  <2> SUFFICES ASSUME NEW d \in K, d[1] \in closure(d[2], K, D) PROVE FALSE
    OBVIOUS
  <2>1. d[1] \in D /\ d[2] \in D /\ d = <<d[1], d[2]>>
    BY <1>3
  <2>2. <<d[1], d[2]>> \in K
    BY <2>1
  <2> HIDE DEF K
  <2> QED BY <1>4, <2>1, <2>2
<1> QED
  BY <1>3, <1>5, <1>6 DEF acyclic

-----------------------------------------------------------------------------
(***************************************************************************)
(* A circulation enters and leaves the same blocks, and no other nodes.       *)
(***************************************************************************)
heads(C) == {e[2] : e \in C}

LEMMA CirculationShape ==
  ASSUME NEW p, WellFormed(p), Entry # Exit, NEW M, IsFinal(p, M), NEW A, A = initializeGraph(M),
         NEW C \in Circulations(A)
  PROVE  /\ C # {} /\ C \subseteq M.Edges /\ IsFiniteSet(C)
         /\ \A n \in M.Nodes : degree(C, n) = Cardinality({e \in C : e[1] = n})
         /\ \A e \in C : /\ e = <<e[1], e[2]>> /\ e[1] \in heads(C)
                        /\ e[1] \in Blocks(p) \cap M.Nodes /\ e[2] \in Blocks(p) \cap M.Nodes
                        /\ e \in p.succ \cup callEdgesOf(p) \cup returnEdgesOf(p)
<1>1. A.Nodes = M.Nodes /\ A.Edges = M.Edges /\ Exit \in M.Nodes => Exit \in A.Exits
  BY DEF initializeGraph
<1>2. /\ C # {} /\ C \subseteq M.Edges
      /\ \A e \in C : e[2] \notin A.Exits
      /\ \A n \in M.Nodes : degree(C, n) = Cardinality({e \in C : e[1] = n})
  <2>1. A.Nodes = M.Nodes /\ A.Edges = M.Edges
    BY DEF initializeGraph
  <2> DEFINE inner == {e \in A.Edges : e[1] \notin A.Entries /\ e[2] \notin A.Exits}
  <2>2. /\ C \in (SUBSET inner) \ {{}}
        /\ \A n \in A.Nodes : degree(C, n) = Cardinality({e \in C : e[1] = n})
    BY DEF Circulations
  <2>3. C # {} /\ C \subseteq inner
    <3> HIDE DEF inner
    <3> QED BY <2>2
  <2>4. C \subseteq A.Edges /\ \A e \in C : e[2] \notin A.Exits
    BY <2>3
  <2> QED BY <2>1, <2>2, <2>3, <2>4
<1>3. IsFiniteSet(C)
  BY <1>2, FiniteGraph, FS_Subset
<1>4. M.Edges \subseteq M.Nodes \X M.Nodes /\ M.Edges \subseteq programEdges(p) /\ M.Nodes \subseteq programNodes(p)
  BY EdgesAreWithin, ClosureWithin DEF IsFinal, detached
<1>5. ASSUME NEW e \in C PROVE /\ e = <<e[1], e[2]>> /\ e[1] \in M.Nodes /\ e[2] \in M.Nodes
                              /\ e \in programEdges(p)
  BY <1>2, <1>4
<1>6. ASSUME NEW e \in C PROVE e[2] \in Blocks(p)
  <2>1. e[2] # Entry
    BY <1>5, EdgesOfProgram
  <2>2. e[2] # Exit
    BY <1>2, <1>5 DEF initializeGraph
  <2> QED BY <1>4, <1>5, <2>1, <2>2 DEF programNodes
<1>7. ASSUME NEW e \in C PROVE e[1] \in heads(C)
  <2> DEFINE out == {d \in C : d[1] = e[1]}
             in == {d \in C : d[2] = e[1]}
  <2>1. IsFiniteSet(out) /\ IsFiniteSet(in) /\ e \in out
    BY <1>3, FS_Subset
  <2>2. Cardinality(in) = Cardinality(out)
    BY <1>2, <1>5 DEF degree
  <2>3. in # {}
    <3> HIDE DEF out, in
    <3> QED BY <2>1, <2>2, FS_EmptySet
  <2> QED BY <2>3 DEF heads
<1>8. ASSUME NEW e \in C PROVE e[1] \in Blocks(p)
  <2>1. e[1] \in heads(C)
    BY <1>7
  <2>2. PICK d \in C : d[2] = e[1]
    BY <2>1 DEF heads
  <2> QED BY <1>6, <2>2
<1>9. ASSUME NEW e \in C PROVE e \in p.succ \cup callEdgesOf(p) \cup returnEdgesOf(p)
  <2>1. e \notin entryEdges(p)
    <3>1. e = <<e[1], e[2]>> /\ e[1] # Entry /\ e[2] # Exit
      BY <1>5, <1>6, <1>8 DEF WellFormed
    <3>2. \A d \in entryEdges(p) : d = <<d[1], d[2]>> /\ (d[1] = Entry \/ d[2] = Exit)
      BY DEF entryEdges, wireEntryExit
    <3> QED BY <3>1, <3>2
  <2> QED BY <1>5, <2>1 DEF programEdges
<1> QED BY <1>2, <1>3, <1>5, <1>6, <1>7, <1>8, <1>9

\* The rows of a call: what returns to behind a block has been called there.
LEMMA ReturnsAreCalled ==
  ASSUME NEW p, WellFormed(p), Entry # Exit, DeadCallsLeadNowhere(p),
         NEW M, IsFinal(p, M), NEW A, A = initializeGraph(M),
         NEW C \in Circulations(A), Repeatable(A, C),
         NEW b \in wiredBlocks(p), NEW r \in p.returns \cap BlocksOf(p, p.calls[b]), NEW m \in succOf(p, b),
         <<r, m>> \in C
  PROVE  b \in heads(C)
<1> DEFINE f == p.calls[b]
           y0 == SetToBag(C)
<1>1. /\ C \subseteq M.Edges /\ IsFiniteSet(C)
      /\ \A n \in M.Nodes : degree(C, n) = Cardinality({e \in C : e[1] = n})
      /\ \A e \in C : e[1] \in heads(C) /\ e[2] \in M.Nodes /\ e = <<e[1], e[2]>>
  BY CirculationShape
<1>2. b \in DOMAIN p.calls /\ b \in Blocks(p) /\ f \in Defined(p)
  BY DEF wiredBlocks, WellFormed
<1>3. CASE b \in M.Nodes
  <2> DEFINE cs == siteOf(p, b)
             call == <<b, firstBlockOf(p, f)>>
  <2>1. cs.node = b /\ cs.callee = f /\ cs.landing = succOf(p, b)
    BY <1>2, Landings DEF siteOf
  <2>2. \A c \in succOf(p, b) : c \in M.Nodes
    <3> SUFFICES ASSUME NEW c \in succOf(p, b) PROVE c \in M.Nodes
      OBVIOUS
    <3>1. <<b, c>> \in programEdges(p)
      BY <1>2, OwnerOfSuccessor DEF programEdges
    <3> QED BY <1>3, <3>1, EdgeIsInGraph
  <2>3. cs \in M.CallSites
    <3>1. f \notin p.symbols
      BY <1>2 DEF WellFormed
    <3>2. M.CallSites = {siteOf(p, c) : c \in {d \in DOMAIN p.calls : p.calls[d] \notin p.symbols}}
      BY DEF IsFinal
    <3> QED BY <1>2, <3>1, <3>2
  <2>4. cs \in A.CallSites
    <3>1. cs.landing # {} /\ cs.landing \subseteq M.Nodes
      BY <2>1, <2>2
    <3> HIDE DEF cs
    <3> QED BY <1>3, <2>1, <2>3, <3>1 DEF initializeGraph
  <2>5. call \in programEdges(p)
    BY DEF programEdges, callEdgesOf
  <2>6. call \in M.Edges /\ firstBlockOf(p, f) \in M.Nodes
    BY <1>3, <2>5, EdgeIsInGraph
  <2>7. /\ \A e \in M.Edges : e \in callFlow(A, cs) <=>
             cs.callee \in Defined(p) /\ firstBlockOf(p, cs.callee) \in M.Nodes
               /\ e = <<cs.node, firstBlockOf(p, cs.callee)>>
        /\ \A e \in M.Edges : e \in returnFlow(A, cs) <=>
             cs.callee \in Defined(p) /\ e[1] \in p.returns \cap BlocksOf(p, cs.callee)
               /\ e[2] \in succOf(p, cs.node)
        /\ callFlow(A, cs) \subseteq M.Edges /\ returnFlow(A, cs) \subseteq M.Edges
    <3> HIDE DEF cs
    <3> QED BY <2>4, CallSiteRows
  <2>8. callFlow(A, cs) = {call}
    <3> HIDE DEF cs
    <3> QED BY <1>2, <2>1, <2>6, <2>7
  <2>9. <<r, m>> \in returnFlow(A, cs)
    <3>1. <<r, m>> \in M.Edges /\ <<r, m>>[1] = r /\ <<r, m>>[2] = m
      BY <1>1
    <3> HIDE DEF cs
    <3> QED BY <1>2, <2>1, <2>7, <3>1
  <2>10. CallRow(A, cs, y0)
    <3> HIDE DEF cs
    <3> QED BY <2>4 DEF Repeatable, Rows
  <2>11. flow(callFlow(A, cs), y0) = flow(returnFlow(A, cs), y0)
    <3> HIDE DEF cs, y0
    <3> QED BY <2>8, <2>9, <2>10 DEF CallRow
  <2>12. IsFiniteSet(callFlow(A, cs)) /\ IsFiniteSet(returnFlow(A, cs))
    <3> HIDE DEF cs
    <3> QED BY <2>7, FiniteGraph, FS_Subset
  <2>13. Cardinality(callFlow(A, cs) \cap C) = Cardinality(returnFlow(A, cs) \cap C)
    <3> HIDE DEF cs
    <3> QED BY <2>11, <2>12, FlowOfSet
  <2>14. callFlow(A, cs) \cap C # {}
    <3> DEFINE P == callFlow(A, cs) \cap C
               Q == returnFlow(A, cs) \cap C
    <3>1. IsFiniteSet(P) /\ IsFiniteSet(Q) /\ Q # {}
      BY <1>1, <2>9, FS_Intersection
    <3>2. Cardinality(P) = Cardinality(Q)
      BY <2>13
    <3> HIDE DEF P, Q
    <3>3. P # {}
      BY <3>1, <3>2, FS_EmptySet
    <3> QED BY <3>3 DEF P
  <2>15. call \in C /\ call[1] = b
    BY <2>8, <2>14
  <2> QED BY <1>1, <2>15
<1>4. CASE b \notin M.Nodes
  <2> DEFINE V == heads(C)
             T == closure(m, C, V)
  <2>1. V \subseteq M.Nodes
    BY <1>1 DEF heads
  <2>2. C \in SUBSET (V \X V) /\ m \in V
    <3>1. \A e \in C : e[2] \in heads(C)
      BY DEF heads
    <3>2. <<r, m>>[2] = m
      OBVIOUS
    <3> QED BY <1>1, <3>1, <3>2
  <2>3. T \subseteq V /\ m \in T
    <3> HIDE DEF V
    <3> QED BY <2>2, ClosureWithin, ClosureRoot
  <2>4. \A e \in C : e[1] \in T => e[2] \in T
    <3> SUFFICES ASSUME NEW e \in C, e[1] \in T PROVE e[2] \in T
      OBVIOUS
    <3>1. <<e[1], e[2]>> \in C /\ e[2] \in V
      BY <1>1, <2>2
    <3> HIDE DEF V
    <3> QED BY <3>1, ClosureStep
  <2>5. IsFiniteSet(T)
    BY <2>1, <2>3, FiniteGraph, FS_Subset
  <2>6. \A n \in T : degree(C, n) = Cardinality({e \in C : e[1] = n})
    BY <1>1, <2>1, <2>3
  <2>7. \A e \in C : e[2] \in T => e[1] \in T
    <3> HIDE DEF T
    <3> QED BY <1>1, <2>4, <2>5, <2>6, CirculationsAreClosed
  <2>8. r \in T
    <3>1. <<r, m>>[1] = r /\ <<r, m>>[2] = m
      OBVIOUS
    <3> HIDE DEF T
    <3> QED BY <2>3, <2>7, <3>1
  <2>9. T \subseteq closure(m, programEdges(p), programNodes(p))
    <3>1. V \subseteq programNodes(p)
      BY <2>1, ClosureWithin DEF IsFinal
    <3>2. C \subseteq programEdges(p)
      BY <1>1 DEF IsFinal, detached
    <3> HIDE DEF V
    <3> QED BY <2>2, <3>1, <3>2, ClosureGrows
  <2>10. b \notin closure(Entry, programEdges(p), programNodes(p))
    BY <1>4 DEF IsFinal
  <2>11. r \notin closure(m, programEdges(p), programNodes(p))
    BY <2>10 DEF DeadCallsLeadNowhere
  <2> QED BY <2>8, <2>9, <2>11
<1> QED BY <1>3, <1>4

-----------------------------------------------------------------------------
(***************************************************************************)
(* Among the functions of a circulation is one that the others call only in    *)
(* closing a recursion, and among its blocks one that follows the others only  *)
(* in closing a loop.  It is entered over back edges only.                   *)
(***************************************************************************)
LEMMA EnteredByBackEdges ==
  ASSUME NEW p, WellFormed(p), Entry # Exit, IsFiniteSet(Blocks(p)), IsFiniteSet(Defined(p)),
         RecursionIsBounded(p), BoundsSuffice(p),
         NEW M, IsFinal(p, M), FinalLoops(p, M), NEW A, A = initializeGraph(M),
         NEW C \in Circulations(A), Repeatable(A, C)
  PROVE  \E m \in heads(C) : \A e \in C : e[2] = m => e \in M.BackEdges
<1> DEFINE V == heads(C)
           O == {ownerOf(p, n) : n \in V}
<1>1. /\ C # {} /\ C \subseteq M.Edges
      /\ \A e \in C : /\ e = <<e[1], e[2]>> /\ e[1] \in V
                     /\ e[1] \in Blocks(p) /\ e[2] \in Blocks(p) /\ e[2] \in M.Nodes
                     /\ e \in p.succ \cup callEdgesOf(p) \cup returnEdgesOf(p)
  BY CirculationShape
<1>2. V \subseteq Blocks(p) /\ V # {}
  BY <1>1 DEF heads
<1>3. O \subseteq Defined(p) /\ O # {}
  BY <1>2, Owners
<1>4. PICK f \in O : \A g \in O : <<g, f>> \notin openCalls(p)
  <2> HIDE DEF O
  <2> QED BY <1>3, OpenCallsAreAcyclic, AcyclicHasSource
<1> DEFINE B == BlocksOf(p, f)
           R == p.succ \ closesLoop(p, f)
           W == V \cap B
<1>5. f \in Defined(p) /\ B \subseteq Blocks(p) /\ IsFiniteSet(B)
  BY <1>3, EntryBlocks, FS_Subset
<1>6. W # {}
  <2>1. PICK n \in V : f = ownerOf(p, n)
    OBVIOUS
  <2>2. n \in B
    BY <1>2, <2>1, Owners
  <2> QED BY <2>2
<1>7. PICK m \in W : \A u \in W : <<u, m>> \notin R
  <2>1. acyclic(R, B) /\ W \in SUBSET B
    BY <1>5 DEF BoundsSuffice, AllCyclesAreLoops
  <2> HIDE DEF R, B, W
  <2> QED BY <1>5, <1>6, <2>1, AcyclicHasSource
<1>8. m \in V /\ m \in B /\ m \in Blocks(p) /\ ownerOf(p, m) = f
  BY <1>5, <1>7, OwnerOfBlock
<1>9. ASSUME NEW e \in C, e[2] = m PROVE e \in M.BackEdges
  <2> DEFINE u == e[1]
  <2>1. e = <<u, m>> /\ u \in V /\ u \in Blocks(p) /\ m \in M.Nodes
    BY <1>1, <1>9
  <2>2. CASE e \in p.succ
    <3>1. u \in B
      BY <1>5, <1>8, <1>9, <2>2, EdgeStaysInFunction
    <3>2. e \in closesLoop(p, f)
      <4>1. <<u, m>> \notin R
        BY <1>7, <2>1, <3>1
      <4> QED BY <2>1, <2>2, <4>1
    <3>3. CASE e \in loopBackEdges(p, f)
      BY <1>5, <1>9, <2>1, <3>3 DEF FinalLoops
    <3>4. CASE e \in writtenBackEdges(p, f)
      <4>1. PICK d \in M.BackEdges : d \in writtenBackEdges(p, f) /\ d[2] = e[2]
        BY <1>5, <1>9, <2>1, <3>4 DEF FinalLoops
      <4>2. d = e
        BY <1>5, <3>4, <4>1 DEF BoundsSuffice, AllCyclesAreLoops
      <4> QED BY <4>1, <4>2
    <3> QED BY <3>2, <3>3, <3>4 DEF closesLoop
  <2>3. CASE e \in callEdgesOf(p)
    <3>1. PICK b \in wiredBlocks(p) : e = <<b, firstBlockOf(p, p.calls[b])>>
      BY <2>3 DEF callEdgesOf
    <3>2. b = u /\ firstBlockOf(p, p.calls[b]) = m /\ p.calls[b] \in Defined(p)
      BY <1>9, <3>1 DEF wiredBlocks
    <3>3. p.calls[b] = f
      <4>1. firstBlockOf(p, p.calls[b]) \in BlocksOf(p, p.calls[b])
        BY <3>2, EntryBlocks DEF firstBlockOf
      <4> QED BY <1>8, <3>2, <4>1, Owners
    <3>4. ownerOf(p, b) \in O
      BY <2>1, <3>2
    <3>5. <<ownerOf(p, b), f>> \notin openCalls(p)
      BY <1>4, <3>4
    <3>6. b \in closingBlocks(p)
      BY <3>1, <3>3, <3>5 DEF openCalls
    <3>7. closingEdge(p, b) = e
      BY <3>1 DEF closingEdge
    <3> QED BY <1>9, <2>1, <3>6, <3>7 DEF FinalLoops
  <2>4. CASE e \in returnEdgesOf(p)
    <3>1. PICK b \in wiredBlocks(p) : u \in BlocksOf(p, p.calls[b]) /\ m \in succOf(p, b) /\ u \in p.returns
      BY <1>9, <2>4 DEF returnEdgesOf
    <3>2. b \in V
      <4>1. DeadCallsLeadNowhere(p) /\ <<u, m>> \in C
        BY <1>9, <2>1 DEF BoundsSuffice
      <4> QED BY <3>1, <4>1, ReturnsAreCalled
    <3>3. b \in Blocks(p)
      BY DEF wiredBlocks, WellFormed
    <3>4. <<b, m>> \in p.succ /\ ownerOf(p, b) = f
      BY <1>8, <3>1, <3>3, OwnerOfSuccessor
    <3>5. b \in W
      BY <3>2, <3>3, <3>4, Owners
    <3>6. <<b, m>> \in closesLoop(p, f)
      <4>1. <<b, m>> \notin R
        BY <1>7, <3>5
      <4> QED BY <3>4, <4>1
    <3>7. <<b, m>>[1] = b
      OBVIOUS
    <3> QED BY <1>5, <3>1, <3>6, <3>7 DEF BoundsSuffice, AllCyclesAreLoops
  <2> QED BY <1>1, <1>9, <2>2, <2>3, <2>4
<1> QED BY <1>8, <1>9

LEMMA BackEdgesAreBounded ==
  ASSUME NEW p, NEW M, FinalLoops(p, M), NEW e \in M.BackEdges
  PROVE  M.UpperLoopBound[e[2]] \in Nat \ {0}
<1>1. CASE \E f \in Defined(p) : e \in closesLoop(p, f) /\ IsLoopBound(p, e[2], M.UpperLoopBound[e[2]])
  BY <1>1 DEF IsLoopBound
<1>2. CASE \E b \in closingBlocks(p) :
             e = closingEdge(p, b) /\ M.UpperLoopBound[e[2]] \in recursionBounds(p.source, p.calls[b])
  <2>1. PICK b \in closingBlocks(p) : M.UpperLoopBound[e[2]] \in recursionBounds(p.source, p.calls[b])
    BY <1>2
  <2>2. EntersCycle(p, p.calls[b], p.cycle[p.calls[b]])
    BY DEF closingBlocks
  <2> QED BY <2>1, <2>2 DEF EntersCycle, allow
<1> QED BY <1>1, <1>2 DEF FinalLoops

\* What is entered over back edges only violates the row of its loop.
LEMMA NoCirculationIsFree ==
  ASSUME NEW p, WellFormed(p), Entry # Exit, IsFiniteSet(Blocks(p)), IsFiniteSet(Defined(p)),
         RecursionIsBounded(p), BoundsSuffice(p),
         NEW M, IsFinal(p, M), FinalLoops(p, M), NEW A, A = initializeGraph(M),
         NEW C \in Circulations(A), Repeatable(A, C)
  PROVE  FALSE
<1> DEFINE x0 == [n \in heads(C) |-> degree(C, n)]
           y0 == SetToBag(C)
<1>1. PICK m \in heads(C) : \A e \in C : e[2] = m => e \in M.BackEdges
  BY EnteredByBackEdges
<1>2. PICK e \in C : e[2] = m
  BY DEF heads
<1>3. C \subseteq M.Edges /\ IsFiniteSet(C) /\ m \in M.Nodes /\ e \in M.BackEdges
  BY <1>1, <1>2, CirculationShape
<1> DEFINE K == M.UpperLoopBound[m]
           In == {d \in C : d[2] = m}
           S == A.BackEdges \cap into(A, m)
<1>4. K \in Nat \ {0}
  BY <1>2, <1>3, BackEdgesAreBounded
<1>5. /\ A.Nodes = M.Nodes /\ A.Edges = M.Edges /\ A.UpperLoopBound = M.UpperLoopBound
      /\ A.BackEdges = M.Edges \cap M.BackEdges
      /\ A.LoopHeaders = {n \in M.Nodes : \E d \in M.BackEdges : d[2] = n}
  BY DEF initializeGraph
<1>6. m \in A.LoopHeaders /\ m \in A.Nodes
  BY <1>2, <1>3, <1>5
<1>7. LoopRow(A, m, x0, y0)
  <2>1. Rows(A, x0, y0)
    BY DEF Repeatable, heads
  <2> HIDE DEF x0, y0
  <2> QED BY <1>6, <2>1 DEF Rows
<1>8. (K - 1) * copies(m, x0) >= K * flow(S, y0)
  <2> HIDE DEF x0, y0
  <2> QED BY <1>4, <1>5, <1>6, <1>7 DEF LoopRow
<1>9. copies(m, x0) = Cardinality(In)
  BY DEF copies, BagIn, BagToSet, degree
<1>10. S \cap C = In
  BY <1>1, <1>3, <1>5 DEF into
<1>11. flow(S, y0) = Cardinality(In)
  <2>1. IsFiniteSet(S)
    BY <1>5, FiniteGraph, FS_Subset
  <2> HIDE DEF S, In
  <2> QED BY <1>10, <2>1, FlowOfSet
<1>12. Cardinality(In) \in Nat \ {0}
  <2>1. IsFiniteSet(In) /\ In # {}
    BY <1>2, <1>3, FS_Subset
  <2> HIDE DEF In
  <2> QED BY <2>1, FS_CardinalityType, FS_EmptySet
<1> DEFINE c == Cardinality(In)
<1>13. c \in Nat \ {0} /\ (K - 1) * c >= K * c
  <2> HIDE DEF x0, y0, S
  <2> QED BY <1>8, <1>9, <1>11, <1>12
<1> HIDE DEF c, K
<1>14. (K - 1) * c = K * c - c
  BY <1>4, <1>13
<1> QED BY <1>4, <1>13, <1>14

(***************************************************************************)
(* Where the bounds are right and sufficient, no circulation can be added to   *)
(* a solution again and again: whatever goes round is entered somewhere over   *)
(* back edges only, and the row of the loop or the recursion there forbids it. *)
(* The call and return rows are needed for this: without them a call may      *)
(* return behind another one.                                              *)
(***************************************************************************)
THEOREM NothingIsEverFree ==
  ASSUME NoReentry, \A p \in Programs : BoundsAreRight(p) /\ BoundsSuffice(p)
  PROVE  Spec => []NothingIsFree
<1>1. BoundInv => NothingIsFree
  <2> SUFFICES ASSUME BoundInv, ASG # NoGraph, NEW C \in Circulations(ASG), Repeatable(ASG, C) PROVE FALSE
    BY DEF NothingIsFree
  <2>1. /\ program \in Programs /\ WellFormed(program) /\ Entry # Exit
        /\ IsFinal(program, MASG) /\ FinalLoops(program, MASG) /\ ASG = initializeGraph(MASG)
    BY ProgramsAreWellFormed DEF BoundInv, AnalysisInv
  <2>2. IsFiniteSet(Blocks(program))
    <3>1. Blocks(program) \subseteq programNodes(program)
      BY DEF programNodes
    <3> QED BY <2>1, <3>1, FiniteProgram, FS_Subset
  <2>3. IsFiniteSet(Defined(program))
    BY <2>1, FiniteRange DEF WellFormed, Defined
  <2>4. RecursionIsBounded(program) /\ BoundsSuffice(program)
    BY <2>1 DEF BoundsAreRight
  <2> QED BY <2>1, <2>2, <2>3, <2>4, NoCirculationIsFree
<1>2. \A p \in Programs : BoundsAreRight(p)
  OBVIOUS
<1>3. BoundInv /\ [Next]_vars => BoundInv'
  BY <1>2, BoundInvStep
<1> QED BY <1>1, <1>3, BoundInvInit, PTL DEF Spec
=============================================================================
