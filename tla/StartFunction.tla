---------------------------- MODULE StartFunction ----------------------------
(***************************************************************************)
(* The start function is chosen in two places: findStartFunction for the     *)
(* program graph, and AdressResolverPass::getStartingFunction, which says    *)
(* what its diagnostics are about.                                         *)
(*                                                                         *)
(* A call graph is a record: functions, their names in the order of their    *)
(* addresses, which is the order of the map; refs, the references of each;   *)
(* callees, the set of functions each calls; smaller, the pairs of names in  *)
(* alphabetic order.                                                       *)
(***************************************************************************)
EXTENDS Naturals, Sequences, FiniteSets, SequencesExt

CONSTANT NoStart

Names(cg) == Range(cg.functions)

fewest(cg) == {f \in Names(cg) : \A g \in Names(cg) : cg.refs[f] <= cg.refs[g]}

\* -start-function, main, or the function with the fewest references.
findStartFunction(cg, StartFunctionName) ==
  IF StartFunctionName \in Names(cg) THEN StartFunctionName
  ELSE IF "main" \in Names(cg) THEN "main"
  ELSE IF Names(cg) = {} THEN NoStart
  ELSE CHOOSE f \in fewest(cg) : \A g \in fewest(cg) \ {f} : <<f, g>> \in cg.smaller

\* The references a later function has to beat, and whether one equalled them.
reference(cg) ==
  FoldLeft(LAMBDA s, f : IF s.start = NoStart \/ cg.refs[f] < cg.refs[s.start] THEN [s EXCEPT !.start = f]
                         ELSE IF cg.refs[f] = cg.refs[s.start] THEN [s EXCEPT !.twice = TRUE] ELSE s,
           [start |-> NoStart, twice |-> FALSE], cg.functions)

\* Mutant: of equals the first is taken.
getStartingFunctionFirst(cg, StartFunctionName) ==
  IF StartFunctionName \in Names(cg) THEN StartFunctionName ELSE reference(cg).start

getStartingFunction(cg, StartFunctionName) ==
  IF StartFunctionName \in Names(cg) THEN StartFunctionName
  ELSE IF reference(cg).twice /\ StartFunctionName = "" THEN NoStart
  ELSE reference(cg).start

\* The least set of functions that f is in and that no call leaves.
reachable(cg, f) ==
  LET closed == {S \in SUBSET Names(cg) : f \in S /\ \A g \in S : cg.callees[g] \subseteq S}
  IN  {g \in Names(cg) : \A S \in closed : g \in S}

\* Without a start function everything is analysed.
computeAnalyzedSet(cg, StartFunctionName) ==
  LET start == getStartingFunction(cg, StartFunctionName)
  IN  IF start = NoStart THEN Names(cg) ELSE reachable(cg, start)
=============================================================================
