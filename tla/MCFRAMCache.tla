---------------------------- MODULE MCFRAMCache ----------------------------
(***************************************************************************)
(* Instances of the cache analysis of a function for TLC: graphs of a few  *)
(* blocks (a loop, a diamond, a self loop, cycles with two entries), each  *)
(* with every choice of block bodies from Bodies, laid out one after the   *)
(* other from the start of the FRAM.                                       *)
(***************************************************************************)
EXTENDS AnalysisSoundness, FRAMCacheAnalysis

CONSTANTS
  Bodies,   \* which bodies the blocks may have
  Shapes,   \* which graphs
  LastNode  \* the blocks are 0 .. LastNode

instr(w, d) == [words |-> w, data |-> d, call |-> FALSE, resolved |-> TRUE]

BodyOf(name) ==
  CASE name = "empty"   -> <<>>
    [] name = "short"   -> <<instr(1, 0)>>
    [] name = "line"    -> <<instr(2, 0)>>
    [] name = "store"   -> <<instr(1, 1)>>
    [] name = "mixed"   -> <<instr(2, 1), instr(1, 0)>>
    [] name = "call"    -> <<instr(1, 0), [instr(2, 0) EXCEPT !.call = TRUE]>>
    [] name = "unresolved" -> <<[instr(1, 0) EXCEPT !.resolved = FALSE]>>

ShapeOf(name) ==
  CASE name = "loop"        -> {<<0, 1>>, <<1, 2>>, <<2, 1>>, <<1, 3>>}
    [] name = "diamond"     -> {<<0, 1>>, <<0, 2>>, <<1, 3>>, <<2, 3>>}
    [] name = "selfloop"    -> {<<0, 1>>, <<1, 1>>, <<1, 2>>, <<2, 3>>}
    [] name = "merge"       -> {<<0, 1>>, <<0, 2>>, <<1, 2>>, <<2, 1>>}
    [] name = "irreducible" -> {<<0, 1>>, <<0, 2>>, <<1, 2>>, <<2, 1>>, <<2, 3>>}

size(body) == FoldLeft(LAMBDA acc, i : acc + i.words, 0, body)

wordsBefore(body, n, k) ==
  size(FlattenSeq([m \in 1 .. n |-> body[m - 1]]) \o SubSeq(body[n], 1, k - 1))

layout(body) ==
  [n \in Node |->
     [k \in DOMAIN body[n] |->
        [addr     |-> FRAMStart + wordsBefore(body, n, k),
         words    |-> body[n][k].words,
         data     |-> body[n][k].data,
         call     |-> body[n][k].call,
         resolved |-> body[n][k].resolved]]]

MCPrograms ==
  {[edges |-> ShapeOf(g), block |-> layout([n \in Node |-> BodyOf(b[n])])] :
     g \in Shapes, b \in [Node -> Bodies]}

MCNode == 0 .. LastNode
MCLines == FRAMStart \div LineWords .. (FRAMStart + 3 * (LastNode + 1) - 1) \div LineWords
=============================================================================
