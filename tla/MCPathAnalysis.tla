---------------------------- MODULE MCPathAnalysis ----------------------------
(***************************************************************************)
(* Small programs for TLC, each with the shape of a test in tests/cfg.       *)
(***************************************************************************)
EXTENDS PathAnalysis, TLC

CONSTANT Selected   \* names of the programs of a run

none == << >>       \* the empty function

line(n) == <<"main.c", n>>
loopPragma(offset, upper) == [name |-> "loop_bound", offset |-> offset, tokens |-> loopArgs(0, upper)]
recursionPragma(offset, n) == [name |-> "recursion_bound", offset |-> offset, tokens |-> recursionArgs(n)]
noPragmas == [pragmas |-> << >>, loops |-> << >>, labels |-> << >>, functions |-> << >>, previous |-> NoBounds]

\* Blocks ranked as in the layout, and the other way round.
inOrder(layout) ==
  [b \in UNION {Range(layout[f]) : f \in DOMAIN layout} |->
     CHOOSE i \in 1 .. 9 : \E f \in DOMAIN layout : i \in DOMAIN layout[f] /\ layout[f][i] = b]
backwards(p) == [p EXCEPT !.visited = [b \in DOMAIN @ |-> 10 - @[b]]]

\* A program without loops, recursion and libraries; the rest is added with @@.
plain(order, layout, succ, returns, callees) ==
  [order |-> order, layout |-> layout, succ |-> succ, returns |-> returns, calls |-> callees,
   symbols |-> {}, start |-> "main", visited |-> inOrder(layout),
   latency |-> [b \in UNION {Range(layout[f]) : f \in DOMAIN layout} |-> 1],
   libCost |-> none, source |-> noPragmas, ir |-> none, code |-> none,
   lines |-> [b \in UNION {Range(layout[f]) : f \in DOMAIN layout} |-> {}],
   trips |-> none, body |-> none, cycle |-> [f \in DOMAIN layout |-> {}],
   activations |-> none, untaken |-> {}]

\* main: a loop that calls f, then f again; f has two returns.  dead is not
\* called, and calls main and f.
loopAndCalls ==
  [plain(<<"dead", "f", "main">>,
         [main |-> <<"m1", "m2", "m3", "m4", "m5", "m6">>, f |-> <<"f1", "f2", "f3">>,
          dead |-> <<"d1", "d2", "d3">>],
         {<<"m1", "m2">>, <<"m2", "m3">>, <<"m3", "m4">>, <<"m4", "m2">>, <<"m2", "m5">>,
          <<"m5", "m6">>, <<"f1", "f2">>, <<"f1", "f3">>, <<"d1", "d2">>, <<"d2", "d3">>},
         {"m6", "f2", "f3", "d3"},
         ("m3" :> "f") @@ ("m5" :> "f") @@ ("d1" :> "main") @@ ("d2" :> "f"))
   EXCEPT !.ir = "m2" :> [trips |-> 3, maxBTC |-> 0, start |-> line(3), first |-> line(3)],
          !.trips = "m2" :> 3, !.body = "m2" :> {"m2", "m3", "m4"}, !.latency["f2"] = 5]

\* The same main, and a dead function that calls f in an endless loop.
deadLoop ==
  [loopAndCalls EXCEPT !.succ = @ \cup {<<"d3", "d1">>}, !.returns = @ \ {"d3"}, !.calls["d1"] = "f"]

\* Two nested loops that are left at the bottom; the outer calls a library.  The
\* first has a pragma at its start line and a loose estimate, the second has lost
\* its loop in the IR and finds its pragma in its block.
nestedLoops ==
  [plain(<<"main">>, [main |-> <<"m1", "m2", "m3", "m4", "m5">>],
         {<<"m1", "m2">>, <<"m2", "m3">>, <<"m3", "m3">>, <<"m3", "m4">>, <<"m4", "m2">>, <<"m4", "m5">>},
         {"m5"}, "m2" :> "mul")
   EXCEPT !.source = [noPragmas EXCEPT !.pragmas = <<loopPragma(20, 3), loopPragma(60, 2)>>,
                        !.loops = <<[offset |-> 40, line |-> line(5)], [offset |-> 80, line |-> line(7)]>>],
          !.ir = "m2" :> [trips |-> 0, maxBTC |-> 9, start |-> line(5), first |-> line(6)],
          !.lines["m2"] = {line(6)}, !.lines["m3"] = {line(7), line(8)}, !.lines["m4"] = {line(5)},
          !.trips = ("m2" :> 3) @@ ("m3" :> 2),
          !.body = ("m2" :> {"m2", "m3", "m4"}) @@ ("m3" :> {"m3"}),
          !.symbols = {"mul"}, !.libCost = "mul" :> 7]

\* A loop with a pragma, another with none but an estimate, and a goto loop whose
\* pragma is found at the labelled statement.  A pragma with a suffixed number is
\* not understood.
threeLoops ==
  [plain(<<"main">>, [main |-> <<"m1", "m2", "m3", "m4", "m5">>],
         {<<"m1", "m2">>, <<"m2", "m2">>, <<"m2", "m3">>, <<"m3", "m3">>, <<"m3", "m4">>, <<"m4", "m4">>,
          <<"m4", "m5">>}, {"m5"}, none)
   EXCEPT !.source = [noPragmas EXCEPT
             !.pragmas = <<loopPragma(10, 2), [loopPragma(190, 1) EXCEPT !.tokens[4] = token("other")],
                           loopPragma(300, 3)>>,
             !.loops = <<[offset |-> 30, line |-> line(2)], [offset |-> 200, line |-> line(6)]>>,
             !.labels = <<[offset |-> 320, gotos |-> {90}, line |-> line(9)],
                          [offset |-> 330, gotos |-> {380}, line |-> line(12)]>>],
          !.ir = ("m2" :> [trips |-> 0, maxBTC |-> 9, start |-> line(2), first |-> line(3)])
                 @@ ("m3" :> [trips |-> 0, maxBTC |-> 4, start |-> line(6), first |-> line(7)])
                 @@ ("m4" :> [trips |-> 0, maxBTC |-> 9, start |-> line(11), first |-> line(13)]),
          !.lines["m4"] = {line(12), line(13)},
          !.trips = ("m2" :> 2) @@ ("m3" :> 4) @@ ("m4" :> 3),
          !.body = ("m2" :> {"m2"}) @@ ("m3" :> {"m3"}) @@ ("m4" :> {"m4"})]

\* A switch that jumps into a loop, which only the depth first search sees; the
\* program always starts it at the top, which the switch lists first.
switchLoop ==
  [plain(<<"main">>, [main |-> <<"m1", "m2", "m3", "m4">>],
         {<<"m1", "m2">>, <<"m1", "m3">>, <<"m2", "m3">>, <<"m3", "m2">>, <<"m3", "m4">>}, {"m4"}, none)
   EXCEPT !.source = [noPragmas EXCEPT !.pragmas = <<loopPragma(20, 3)>>,
                                       !.loops = <<[offset |-> 40, line |-> line(5)]>>],
          !.lines["m3"] = {line(5), line(6)}, !.untaken = {<<"m1", "m3">>},
          !.trips = "m2" :> 3, !.body = "m2" :> {"m2", "m3"}]

\* fact calls itself from one of two branches, and main calls it twice.
selfRecursion ==
  [plain(<<"fact", "main">>,
         [main |-> <<"m1", "m2", "m3">>, fact |-> <<"r1", "r2", "r3", "r4">>],
         {<<"m1", "m2">>, <<"m2", "m3">>, <<"r1", "r2">>, <<"r1", "r4">>, <<"r2", "r3">>},
         {"m3", "r3", "r4"}, ("m1" :> "fact") @@ ("m2" :> "fact") @@ ("r2" :> "fact"))
   EXCEPT !.source = [noPragmas EXCEPT !.pragmas = <<recursionPragma(20, 3)>>,
             !.functions = <<[name |-> "fact", offset |-> 45], [name |-> "main", offset |-> 150]>>],
          !.activations = "fact" :> 3, !.cycle["fact"] = {"fact"}]

\* ping and pong call each other; main enters through ping, in a loop.
mutualRecursion ==
  [plain(<<"pong", "main", "ping">>,
         [main |-> <<"m0", "m1", "m2", "m3">>, ping |-> <<"p1", "p2", "p3">>, pong |-> <<"q1", "q2", "q3">>],
         {<<"m0", "m1">>, <<"m1", "m2">>, <<"m2", "m1">>, <<"m2", "m3">>,
          <<"p1", "p2">>, <<"p1", "p3">>, <<"p2", "p3">>, <<"q1", "q2">>, <<"q1", "q3">>, <<"q2", "q3">>},
         {"m3", "p3", "q3"}, ("m1" :> "ping") @@ ("p2" :> "pong") @@ ("q2" :> "ping"))
   EXCEPT !.source = [noPragmas EXCEPT
             !.pragmas = <<recursionPragma(20, 2), recursionPragma(90, 2), loopPragma(180, 2)>>,
             !.functions = <<[name |-> "ping", offset |-> 45], [name |-> "pong", offset |-> 115],
                             [name |-> "main", offset |-> 170]>>,
             !.loops = <<[offset |-> 205, line |-> line(20)]>>],
          !.ir = "m1" :> [trips |-> 0, maxBTC |-> 9, start |-> line(20), first |-> line(21)],
          !.trips = "m1" :> 2, !.body = "m1" :> {"m1", "m2"},
          !.activations = ("ping" :> 2) @@ ("pong" :> 2),
          !.cycle["ping"] = {"ping", "pong"}, !.cycle["pong"] = {"ping", "pong"}]

\* main may call exit, which has no body and does not return, or a library.
noReturn ==
  [plain(<<"f", "main">>, [main |-> <<"m1", "m2", "m3", "m4">>, f |-> <<"f1", "f2">>],
         {<<"m1", "m2">>, <<"m1", "m3">>, <<"m3", "m4">>, <<"f1", "f2">>}, {"m4", "f2"},
         ("m2" :> "exit") @@ ("m3" :> "f") @@ ("f1" :> "sin"))
   EXCEPT !.symbols = {"sin"}]

instr(op, mode) == [op |-> op, mode |-> mode, width |-> 8, selfAdd |-> FALSE]
shiftLoop == <<instr("BIC", "rc"), instr("RRC", "r"), instr("SUB", "ri"), instr("JCC", "")>>

\* main shifts in a loop of the code generator, never returns and stops in its
\* last block.
endless ==
  [plain(<<"main">>, [main |-> <<"m1", "m2", "m3">>],
         {<<"m1", "m2">>, <<"m2", "m2">>, <<"m2", "m3">>}, {}, "m3" :> "halt")
   EXCEPT !.code = "m2" :> shiftLoop, !.trips = "m2" :> 8, !.body = "m2" :> {"m2"}, !.libCost = "halt" :> 0]

\* main calls both ping and pong.
bothEntries ==
  [mutualRecursion EXCEPT !.order = <<"ping", "pong", "main">>,
     !.layout["main"] = <<"m0", "m1", "m2">>, !.returns = {"m2", "p3", "q3"},
     !.succ = (@ \ {<<"m2", "m1">>, <<"m2", "m3">>}),
     !.calls = ("m0" :> "pong") @@ @, !.ir = none, !.trips = none, !.body = none]

\* A recursive function is the start function.
recursiveStart == [selfRecursion EXCEPT !.start = "fact"]

\* No bound was found for the loop of main.
noBound == [endless EXCEPT !.code = none, !.returns = {"m3"}, !.calls = none]

\* The switch lists the other block first, and the program always starts the loop there.
switchToTest ==
  [backwards(switchLoop) EXCEPT !.untaken = {<<"m1", "m2">>}, !.trips = "m3" :> 3, !.body = "m3" :> {"m2", "m3"}]

\* It lists it first, but the program never takes that edge.
switchListsOther == backwards(switchLoop)

\* The switch may start the loop anywhere.
duff == [switchLoop EXCEPT !.untaken = {}]

\* The loop does three iterations, as its pragma says, and its test runs once more.
topTested ==
  [plain(<<"main">>, [main |-> <<"m1", "m2", "m3", "m4">>],
         {<<"m1", "m2">>, <<"m2", "m3">>, <<"m3", "m2">>, <<"m2", "m4">>}, {"m4"}, none)
   EXCEPT !.source = [noPragmas EXCEPT !.pragmas = <<loopPragma(20, 3)>>,
                                       !.loops = <<[offset |-> 40, line |-> line(5)]>>],
          !.lines["m2"] = {line(5)}, !.trips = "m2" :> 4, !.body = "m2" :> {"m2", "m3"}]

\* A loop that starts at its test; its body ends with a call and falls through to it.
callLatch ==
  [plain(<<"f", "main">>, [main |-> <<"m1", "m2", "m3", "m4">>, f |-> <<"f1">>],
         {<<"m1", "m3">>, <<"m2", "m3">>, <<"m3", "m2">>, <<"m3", "m4">>}, {"m4", "f1"}, "m2" :> "f")
   EXCEPT !.source = [noPragmas EXCEPT !.pragmas = <<loopPragma(20, 4)>>,
                                       !.loops = <<[offset |-> 40, line |-> line(5)]>>],
          !.lines["m3"] = {line(5)}, !.trips = "m3" :> 4, !.body = "m3" :> {"m2", "m3"}]

\* f exits on one path and returns on the other.
stopInCallee ==
  [plain(<<"f", "main">>, [main |-> <<"m1", "m2">>, f |-> <<"f1", "f2", "f3">>],
         {<<"m1", "m2">>, <<"f1", "f2">>, <<"f1", "f3">>}, {"m2", "f3"}, ("m1" :> "f") @@ ("f2" :> "exit"))
   EXCEPT !.libCost = "exit" :> 1]

MCPrograms ==
  {p[2] : p \in {q \in {<<"loopAndCalls", loopAndCalls>>, <<"nestedLoops", nestedLoops>>,
                        <<"selfRecursion", selfRecursion>>, <<"mutualRecursion", mutualRecursion>>,
                        <<"noReturn", noReturn>>, <<"endless", endless>>, <<"deadLoop", deadLoop>>,
                        <<"bothEntries", bothEntries>>, <<"recursiveStart", recursiveStart>>,
                        <<"noBound", noBound>>, <<"threeLoops", threeLoops>>,
                        <<"switchLoop", switchLoop>>, <<"switchToTest", switchToTest>>,
                        <<"switchListsOther", switchListsOther>>, <<"duff", duff>>,
                        <<"nestedBackwards", backwards(nestedLoops)>>, <<"topTested", topTested>>,
                        <<"callLatch", callLatch>>, <<"stopInCallee", stopInCallee>>} : q[1] \in Selected}}
=============================================================================
