------------------------------ MODULE LoopBounds ------------------------------
(***************************************************************************)
(* MachineLoopBoundAgregatorPass on a function: a bound for the header of    *)
(* every machine loop, from the first source that has one, and for the       *)
(* irreducible loops the machine loop analysis does not see.                *)
(*                                                                         *)
(* To the program p of ProgramGraph the sources of bounds add               *)
(*   ir       [header with a clean IR loop |-> its trips, the exact trip count *)
(*            of scalar evolution or 0; maxBTC, its upper estimate or 0;      *)
(*            start and first, the lines of the loop's start and of the      *)
(*            first instruction that is no phi]                             *)
(*   lines    [block |-> the lines of its instructions]                     *)
(*   code     [block |-> its instructions], of blocks that only shift, see     *)
(*            MSP430Target                                                  *)
(*   visited  [block |-> its rank], the order in which a block lists its      *)
(*            successors, which need not be that of the layout              *)
(***************************************************************************)
EXTENDS ProgramGraph, LoopBoundPlugin, MSP430Target

\* JSONBoundsByLocation: a later entry for a line replaces an earlier one.
JSONBoundsByLocation(json) ==
  [l \in {json.loops[i].line : i \in DOMAIN json.loops} |->
     json.loops[Max({i \in DOMAIN json.loops : json.loops[i].line = l})].upper]

\* Here too; a bound that is not positive is left out.
loadRecursionBounds(json) ==
  LET used == {i \in DOMAIN json.recursions : json.recursions[i].bound > 0}
  IN  [f \in {json.recursions[i].function : i \in used} |->
         json.recursions[Max({i \in used : json.recursions[i].function = f})].bound]

-----------------------------------------------------------------------------
\* MachineLoopInfo: the natural loops, merged by header.
headersOf(p, f) == {e[2] : e \in loopBackEdges(p, f)}
loopBlocks(p, f, h) ==
  LET B == BlocksOf(p, f)
      backwards == {<<e[2], e[1]>> : e \in {d \in p.succ : d[1] \in B /\ d[1] # h /\ d[2] # h}}
      latches == {e[1] : e \in {d \in loopBackEdges(p, f) : d[2] = h}}
  IN  {h} \cup UNION {closure(l, backwards, B) : l \in latches \ {h}}

\* The blocks no loop inside the loop of h has.
ownBlocks(p, f, h) ==
  loopBlocks(p, f, h) \ UNION {loopBlocks(p, f, g) : g \in
     {k \in headersOf(p, f) \ {h} : k \in loopBlocks(p, f, h)}}

\* The bound at the smallest line that has one, 0 if none has.  (Equal numbers in
\* two files: the code takes the one it meets first.)
scanned(p, json, blocks) ==
  LET hits == (UNION {p.lines[b] : b \in blocks}) \cap DOMAIN json
  IN  IF hits = {} THEN 0 ELSE json[CHOOSE l \in hits : \A k \in hits : l[2] <= k[2]]

firstBound(sources) ==
  LET found == {i \in DOMAIN sources : sources[i] > 0}
  IN  IF found = {} THEN 0 ELSE sources[Min(found)]

noIRLoop == [trips |-> 0, maxBTC |-> 0, start |-> << >>, first |-> << >>]
irLoop(p, h) == IF h \in DOMAIN p.ir THEN p.ir[h] ELSE noIRLoop

pragmaOf(loop, json) ==
  IF loop.start \in DOMAIN json THEN json[loop.start]
  ELSE IF loop.first \in DOMAIN json THEN json[loop.first] ELSE 0

implicitBound(p, f, h) ==
  IF loopBlocks(p, f, h) = {h} /\ h \in DOMAIN p.code THEN getImplicitLoopBound(p.code[h]) ELSE 0

\* TripCount: scalar evolution, the pragma of the start line or of the first
\* instruction, a pragma in the loop's own blocks, the upper estimate, the target.
loopBound(p, f, h, json) ==
  firstBound(<<irLoop(p, h).trips, pragmaOf(irLoop(p, h), json), scanned(p, json, ownBlocks(p, f, h)),
               irLoop(p, h).maxBTC, implicitBound(p, f, h)>>)

-----------------------------------------------------------------------------
\* Back edges of a depth first search.  Instruction selection lists the successors of
\* each block in an order of its own; one ranking stands for all the lists, as a
\* search that goes by them is the search that goes by its order of discovery.
findBackEdges(p, f) ==
  LET entry == p.layout[f][1]
  IN  findSCCBackEdges(closure(entry, p.succ, BlocksOf(p, f)), {entry}, p.succ, p.visited)

computeLoopBody(p, f, h) ==
  LET B == BlocksOf(p, f) IN {b \in closure(h, p.succ, B) : h \in closure(b, p.succ, B)}

\* The back edges to headers the machine loop analysis does not know and a pragma
\* bounds.  One is recorded for each header, the first by address: any.
irreducibleBackEdges(p, f, exported) ==
  LET json == JSONBoundsByLocation(exported)
      back == {e \in findBackEdges(p, f) :
                 /\ e[2] \notin headersOf(p, f)
                 /\ scanned(p, json, computeLoopBody(p, f, e[2])) > 0}
  IN  {S \in SUBSET back : \A e \in back : Cardinality({d \in S : d[2] = e[2]}) = 1}

\* runOnMachineFunction adds what it finds to what tar has of other functions.
aggregate(p, f, tar, exported, others) ==
  LET json == JSONBoundsByLocation(exported)
      natural == {h \in headersOf(p, f) : loopBound(p, f, h, json) > 0}
      known == DOMAIN tar.LoopBoundMap
  IN  [LoopBoundMap |-> [h \in known \cup natural \cup {e[2] : e \in others} |->
                           IF h \in known THEN tar.LoopBoundMap[h]
                           ELSE IF h \in natural THEN loopBound(p, f, h, json)
                           ELSE scanned(p, json, computeLoopBody(p, f, h))],
       IrreducibleBackEdges |-> tar.IrreducibleBackEdges \cup others,
       RecursionBoundMap |-> loadRecursionBounds(exported)]
=============================================================================
