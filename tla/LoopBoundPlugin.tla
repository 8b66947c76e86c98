--------------------------- MODULE LoopBoundPlugin ---------------------------
(***************************************************************************)
(* The clang plugin (clang-plugin/LoopBoundPlugin.cpp): while a file is       *)
(* preprocessed it collects the pragmas loop_bound(lower, upper) and         *)
(* recursion_bound(n) by their offset; afterwards it walks over the syntax   *)
(* tree, gives each loop and each function the closest pragma before it, and *)
(* writes the JSON file the timing analysis reads.                          *)
(*                                                                         *)
(* A translation unit is a record src:                                     *)
(*   pragmas     in the order they are preprocessed, each with its name, its *)
(*               offset and the tokens after the name                      *)
(*   loops       for, while and do statements in the order of the traversal *)
(*   labels      labels with the offsets of the gotos to them and the line   *)
(*               of the statement they label                               *)
(*   functions   definitions, with name and offset                         *)
(*   previous    what the JSON file holds before the compiler runs          *)
(* A line is a pair <<file, number>>; an offset forgets the file.           *)
(***************************************************************************)
EXTENDS Naturals, Sequences, SequencesExt, FiniteSetsExt

CONSTANT Window   \* a pragma is at most this many characters before its loop

NoBounds == [loops |-> << >>, recursions |-> << >>]

num(k) == [kind |-> "num", value |-> k]
token(kind) == [kind |-> kind, value |-> 0]
loopArgs(lower, upper) == <<token("("), num(lower), token(","), num(upper), token(")")>>
recursionArgs(n) == <<token("("), num(n), token(")")>>

\* Tokens after the closing parenthesis are skipped.
startsWith(tokens, kinds) ==
  Len(tokens) >= Len(kinds) /\ \A i \in DOMAIN kinds : tokens[i].kind = kinds[i]

LoopPragma(q) == q.name = "loop_bound" /\ startsWith(q.tokens, <<"(", "num", ",", "num", ")">>)
RecursionPragma(q) == q.name = "recursion_bound" /\ startsWith(q.tokens, <<"(", "num", ")">>)

\* A pragma at the offset of an earlier one replaces it.
stored(pragmas, Accepted(_), boundOf(_)) ==
  LET accepted == SelectSeq(pragmas, Accepted)
      last(o) == CHOOSE i \in DOMAIN accepted :
                   accepted[i].offset = o /\ \A j \in DOMAIN accepted : accepted[j].offset = o => j <= i
  IN  [o \in {accepted[i].offset : i \in DOMAIN accepted} |-> boundOf(accepted[last(o)])]

LoopBoundMap(src) == stored(src.pragmas, LoopPragma, LAMBDA q : q.tokens[4].value)
RecursionBoundMap(src) == stored(src.pragmas, RecursionPragma, LAMBDA q : q.tokens[2].value)

-----------------------------------------------------------------------------
before(map, offset) == {o \in DOMAIN map : o < offset /\ offset - o < Window}

\* The closest pragma before the offset goes to the element and is used up.
attach(s, offset, element(_)) ==
  IF before(s.map, offset) = {} THEN s
  ELSE LET o == Max(before(s.map, offset))
       IN  [map |-> [q \in DOMAIN s.map \ {o} |-> s.map[q]],
            exported |-> Append(s.exported, element(s.map[o]))]

\* Mutant: the pragma stays available.
ProcessLoopKeeping(s, loop) ==
  [attach(s, loop.offset, LAMBDA b : [line |-> loop.line, upper |-> b]) EXCEPT !.map = s.map]

ProcessLoop(s, loop) == attach(s, loop.offset, LAMBDA b : [line |-> loop.line, upper |-> b])

VisitFunctionDecl(s, f) == attach(s, f.offset, LAMBDA b : [function |-> f.name, bound |-> b])

\* A label that a goto behind it jumps to is a loop.
GotoLoops(src) == SelectSeq(src.labels, LAMBDA l : \E g \in l.gotos : g > l.offset)

\* HandleTranslationUnit: the labels come after the traversal.  A file without
\* anything to export leaves the JSON file as it is.
ExportLoopBoundsJSON(src) ==
  LET visited(map, visit(_, _), items) == FoldLeft(visit, [map |-> map, exported |-> << >>], items)
      loops == visited(LoopBoundMap(src), ProcessLoop, src.loops \o GotoLoops(src)).exported
      recursions == visited(RecursionBoundMap(src), VisitFunctionDecl, src.functions).exported
  IN  IF loops = << >> /\ recursions = << >> THEN src.previous
      ELSE [loops |-> loops, recursions |-> recursions]
=============================================================================
