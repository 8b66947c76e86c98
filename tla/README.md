# Verification of LLTA

LLTA computes worst-case execution times (WCET) of MSP430 programs. It is a set
of LLVM machine passes: block latencies, an address resolver, an abstract
interpretation of the FRAM read cache, loop bounds, a program-wide graph of all
functions, and an integer linear program (ILP) over that graph. It is
single-threaded and runs once per input. What is hard in it is not concurrency
but *soundness*: a number it prints must bound every execution of the program,
and almost every part can lose that silently on a path no test takes.

This directory holds TLA+ specifications of its analyses, TLC configurations,
and TLAPS proofs. `PROJECT.json` lists runs, mutants, the map from definitions
to source lines, findings, hazards and theorems.

## 1. Inventory

| Component | State it keeps | Operations | What makes it correct |
|---|---|---|---|
| Replacement policies (`ReplacementPolicy.h`) | one abstract set: lines with age bounds | `update`, `join`, `contains` | must ages bound the device from above, may ages from below |
| Cache engine (`CacheState.h`, `CacheGeometry.h`, `CacheEvent.h`, `CacheAnalysis.cpp`) | one abstract set per cache set | `access`, `barrier`, `join`, `process` | an access that is charged nothing hits |
| FRAM cache pass (`FRAMAccessMapper.cpp`, `FRAMCacheAnalysisPass.cpp`) | solver graph of one function, latency map | `mapEvents`, `runOnMachineFunction`, `reportAlwaysMiss` | the penalty of a block covers every execution of it; reports are true |
| Worklist solver (`WorklistSolver.cpp`, `AbstractStateGraph.cpp`) | deque, membership set, state and cost per node | `addToWorklist`, `takeFromWorklist`, two `run`s | no lost update, termination, a fixpoint |
| Program graph (`ProgramGraph.cpp`) | nodes, edges, call sites, recursion bounds | `fillGraphWithFunction`, `finalize` | every execution of the program is a path of the graph; bounds are about the right cycles |
| ILP (`AbstractHighsSolver.cpp`) | rows over edge counts | `solveWCET` | the counts of every execution satisfy the rows |
| Pass pipeline (`FillMuGraphPass`, `PathAnalysisPass`, `CallSplitterPass`, `AsmDumpAndCheckPass`, `InstructionLatencyPass`, `FRAMWaitStatePass`, `StartFunction`, `TimingAnalysisResults`) | shared result maps | one pass run per function, `doFinalization` | what a pass adds for a function reaches the graph, and no pass of another function disturbs it |
| Address resolver (`AdressResolverPass.cpp`) | instruction addresses, function entries, data objects | `parseElf`, `finishParse`, `alignFunction`, `computeAnalyzedSet` | an address belongs to the instruction it is given to, or there is a warning |
| Clang plugin (`LoopBoundPlugin.cpp`) | pragmas by offset, bounds to export | `HandlePragma`, `ProcessLoop`, `ProcessGotoLoops`, `ExportLoopBoundsJSON` | a pragma goes to the loop it was written for |
| Loop bounds (`MachineLoopBoundAgregatorPass.cpp`) | bound per header | `findBackEdges`, `computeLoopBody`, the chain of sources | every cycle has a bound and none is too small |
| MSP430 target (`MSP430Target.cpp`) | none: tables | `getInstructionLatency`, `checkInstruction`, `getImplicitLoopBound` | what is accepted has a latency; a made-up loop is bounded |
| Pipeline (`HardwarePipeline.cpp`, `MicroArchitectureAnalysis.h`) | instructions in stages | `injectInstruction`, `cycle`, fast-forward | not modelled: no pass uses it for a result |
| Words and data accesses (`InstructionWords.cpp`, `DataMemoryAccess.cpp`) | word counts per instruction | two functions | nothing that touches FRAM is missing |
| Driver, registry, scripts | – | option parsing, printing, LLVM set-up | not modelled: I/O and glue |

How they interact: the passes of one machine function run in the order
CallSplitter, AsmDumpAndCheck, AdressResolver, InstructionLatency,
FRAMWaitState, FRAMCacheAnalysis, MachineLoopBoundAgregator, FillMuGraph,
PathAnalysis; they exchange data only through the shared
`TimingAnalysisResults`. The FRAM cache pass runs a `WorklistSolver` of its own
on each function and adds the costs to the block latencies. `FillMuGraph` adds
the function to the program graph and finalises the graph after the last one;
`PathAnalysis` converts it to a second solver graph and solves the ILP.

Hard behaviours: the order in which a worklist sees changes; loops and joins,
where a claim about one path must survive every other; a non-monotone transfer;
what callees and data accesses do to a cache that the analysis does not see;
defaults for what could not be resolved; recursion and irreducible loops, where
a bound is attached to the wrong cycle. `PROJECT.json` lists each under
`hazards`, at its line.

## 2. Modules

```
ReplacementPolicy   policies on one abstract set
  CacheAnalysis     all sets, events, costs
    DeviceCache     the device (external) and when a state describes it
      CacheLockstep       one path: device and abstract state side by side
      FRAMCacheAnalysis   instructions -> events -> blocks, and the device on blocks
FixpointIteration   what the engine promises: nodes recomputed in any order
WorklistSolver      the engine, for any transfer, join and graph; implements it
  AnalysisSoundness solver, then execution of the function on the device
FRAMCacheSoundness  AnalysisSoundness with FRAMCacheAnalysis
MCFRAMCache         the same two on small graphs and blocks
  MCLocalSoundness  adds FRAMCacheSoundness: the premises of its theorems
CacheProofs         one event and one join
  CacheLockstepProofs
  AnalysisSoundnessProofs

InductionLemmas     induction, sums and folds over finite sets

LoopBoundPlugin     the clang plugin: pragmas -> JSON file
MSP430Target        latencies, accepted instructions, shift loops
ProgramGraph        the graph of all functions: filling, wiring, recursion, pruning
  LoopBounds        JSON file, scalar evolution, target -> bounds of headers
  PathILP           conversion to the solver graph, and the rows of the ILP
    PathAnalysis    plugin, loop bounds, graph and ILP, then an execution of the program
      MCPathAnalysis    small programs
      BoundedPrograms   programs with right and sufficient bounds
      MCPaths           MCPathAnalysis where these are what TLC is given
PathAnalysisProofs  types, paths of the graph, recursion reports
  PathILPProofs     time, and the rows of the ILP
    BoundProofs     the bounds, from the pragma to the row

ElfImage            what is read from the linked binary
AddressResolver     alignment of instructions with the binary
MemoryAccesses      fetch and data words of an instruction
StartFunction       the two choices of the start function
  MachinePasses     all passes of a function in order, function by function
    MCMachinePasses     small functions and the binary a linker makes of them
MachinePassesProofs     the resolver, and the passes around it
```

**ReplacementPolicy** – the abstract state of a set is an age map, a function
from lines to ages (`AgeSetState::Lines`; the vector's order is never
observable because `equals` sorts). The optional line of `UnknownPolicy` is an
age map with at most one line at age 0, and then its join is the same
intersection as the must join of the age-based policies. `update` is the policy
`makeMustPolicy` selects.

**CacheAnalysis** – `CacheState` is a function from set index to age map;
`eventState`, `eventCost`, `eventReported` are the loop body of
`CacheAnalysis::process`. Lines are line numbers, `lineId / LineBytes`.

**DeviceCache** – not code of the repository: a set-associative cache with LRU
or FIFO replacement, or one that may evict anything when it misses (`"any"`).
`describes(C, h)` says when abstract state `C` is right about cache `h`.

**CacheLockstep** – state: device, abstract state, and what the last event was
charged and cost. Actions: `Fetch`, `DataAccess` (an FRAM data access goes
through the same cache and may load or evict anything), `Merge` (the join with
any state another path could bring, on either side), `EnterFunction` (each
function is analysed on its own from the empty state).

**WorklistSolver** – `run(MachineFunction)`. `Worklist`, `InWorklist`, `state`
and `cost` are the fields of the solver and of its nodes. One step is one
iteration of the while loop; it has two actions, for the two outcomes of the
`equals` test. The graph is chosen by `Init` from `Programs` and never changes.
Transfer, costs and join are constants, so that the module is about the engine
alone. Only the history variable `processed` is not in the code.

**AnalysisSoundness** – after the solver has returned, the function is called
and executed along its edges, from any machine state. `LocallySound` is what an
analysis owes the solver; `EntryHasNoPredecessor` is LLVM's rule that nothing
branches to an entry block.

**FRAMCacheAnalysis** – `mapEvents` (fetch words in FRAM of instructions that
have an address, then one barrier for FRAM data), and the same block on the
device, event by event. Instructions are records of word address, length, data words, whether
they are calls and whether the resolver found them.

**FRAMCacheSoundness** – the two together: what the cache analysis owes the
solver (`CacheLocallySound`), and the blocks it is right about (`isLeaf`).

**ProgramGraph** – operators on a record with the fields of class
`ProgramGraph`. A node is named by its block, an edge set is a set of pairs,
`FunctionToEntryNodeMap` and its sibling are relations.
`fillGraphWithFunction` adds one function, `finalize` does the rest: call and
return edges, self recursion, components of the call graph with the depth first
search that picks their headers (`findSCCBackEdges`), library costs, pruning.
`closure` (reachability) is the least closed set and needs no recursion. Two
things in the source are not determined by the program and stay open here:
sets of `Function *` are ordered by address (`rank`), and the constructor of a
node leaves `UpperLoopBound` to what the memory held (`uninitialised`).

**LoopBoundPlugin** – the preprocessor's callbacks as folds over the pragmas of
a file, keyed by offset; then the traversal: statements, functions, and at the
end labels that a later `goto` jumps to. `attach` is the search for the closest
pragma before an element, and uses it up. A file without anything to export
leaves the JSON file of an earlier compilation in place.

**LoopBounds** – `runOnMachineFunction`. `loopBound` is the chain: exact trip
count, pragma at the start line or the first instruction, pragma in the loop's
own blocks, loose estimate, target. Natural loops are what MachineLoopInfo
sees, defined from dominance by back edges; `irreducibleBackEdges` are the
rest, found by the depth first search that the program graph uses too.
The search takes successors in the order in which their block lists them, which
instruction selection decides and not the layout: that order (`visited`) is data
of the program, and so is scalar evolution.

**MSP430Target** – the latency table by groups of operand modes, the list
of accepted instructions by mnemonic, and `getImplicitLoopBound`.

**ElfImage, AddressResolver** – a function's instructions and its part of the
binary; `pos` and `DumpIdx` are the two cursors of `alignFunction`, and each
branch of its loop is an action: `SkipDirective`, `RunOut`, `AssignNext`,
`Resync`, `Mismatch`, `Finish`. What the encoder makes of an instruction is part
of the function (`enc`), and so is the truth the pass does not know: the entry
it became (`slot`). `Faithful` says when a binary is one the resolver can be
right about. Inline assembly may have any number of entries from one on.

**MachinePasses** – the pass manager: one action per pass, all of them on one
function before the next begins, with the containers of
`TimingAnalysisResults` between them. `alignFunction` composes `AddressResolver`
into it, and `ImplementsResolver` says that nothing else touches its variables
and that each function meets the resolver as the linker's input, whole and in
order, whatever `CallSplitter` did to its blocks.
The device beside it fetches, loads and stores where the linker put things.

**FixpointIteration** – the abstract engine: some nodes are dirty, one of them
is recomputed, and the readers of a changed node become dirty. `WorklistSolver`
implements it with its deque as the set of dirty nodes (`Chaotic`).

**PathILP** – `initializeGraph` and the rows of `solveWCET` as predicates on a
candidate solution, a bag of nodes and a bag of edges. `Circulations` and
`Repeatable` say when the objective has no upper bound.

**PathAnalysis** – plugin and passes as actions (`ExportBounds`, then
`AggregateLoopBounds` and `FillMuGraph` once per function, `SolvePaths`), then an
execution with a stack of calls: `Begin`, `Branch`,
`Call`, `Return`, `Leave`. The execution is not code of the repository; it
follows the control-flow graphs and never looks at the program graph.
What it visits is counted, and the counts must be a solution of the rows. It
respects the author's promises, read as the rows read them: a header runs at
most `trips` times per entry of its loop, a function at most `activations` times
per entry, from outside, of the cycle it recurs through. The promise is not
handed to the analysis: it has to find it, from the pragma, the estimate or the
shift the program has.

The programs are as `CallSplitter` leaves them (one call per block, at its end,
with at most one successor), have no call through a register, and give
each call the block it returns to as its only successor (`WellFormed`).

`BoundsAreKept` relates the bounds in the solver graph to the promises: each
belongs to a natural loop, or a cycle of calls, of the program that is entered
at its header only, and is no less than what was promised of it.

**BoundedPrograms** – the hypotheses of the theorems about bounds, as predicates
on a program: its source text, control-flow graphs, calls and promises. What the
passes make of it is not looked at, except that the search for irreducible loops
(`findBackEdges`) decides where such a loop starts. **MCPaths** has TLC evaluate
them on the programs of the run Paths.

## 3. Runs

| Run | Question | Result |
|---|---|---|
| LockstepLruMust | does the LRU must state stay above an LRU device, set by set, through everything a path can do | holds |
| LockstepLruMay | are always-miss reports true on an LRU device that starts cold, with no data access and no call | holds |
| FRAMCacheLru | does the solver stop, lose no update, implement the unordered iteration, and does the cost of a processed block cover its executions | holds |
| LocalSoundness | is the default policy sound block by block and join by join (the premise of the theorems) | holds |
| FRAMCacheEveryBlock | is *every* block covered | violated: nothing is queued when the entry leaves the initial state |
| FRAMCacheCalls | is a processed block covered when the function calls | violated: a callee may evict what stays a hit |
| Paths | is every execution of a program a path of its graph, a solution of the rows and covered by the objective; is the ILP bounded when every cycle has a bound; is recursion reported; do the bounds in the graph keep the author's promises | holds |
| PathsDeadCode | is the ILP bounded although dead code has a loop without a bound | violated: returns are wired to dead call sites too, so what follows them is not pruned |
| PathsTwoEntries | does an execution satisfy the rows when a recursive component is entered at two functions | violated: only one of them is taken as header |
| PathsNoBound | does an execution satisfy the rows when a loop has no bound | violated: an uninitialised bound is used |
| Passes | are addresses in order, never too high, right behind an anchor and right when nothing is reported; do block times reach the graph and cover the device; do calls end blocks; does the scope of the diagnostics cover the analysis | holds |
| PassesKill | is every address right when there is no inline assembly | violated: KILL takes an entry of the binary though it becomes nothing |

Eight more violations can be reproduced by changing the constants of a run as
below and leaving the named property as the only one of its configuration
(other properties of the run may fail earlier on the same input).
`Policy = "fifo"` and `Device = "fifo"` in FRAMCacheLru: `Termination` fails,
since the FIFO transfer is not monotone and a block in a loop alternates between
two states (`ReplacementPolicy.h:270`; `FRAM_FINDINGS.md:191` saw the hang). The
same change in LockstepLruMust: `WaitIsCharged` fails.
The others are programs of MCPathAnalysis: Paths with that module instead of
MCPaths, whose assumptions they break.
`Selected = {"recursiveStart"}`: `RecursionIsReported` fails, since
calls into the start function are skipped before anything is reported
(`ProgramGraph.cpp:555`). `Selected = {"switchListsOther"}`:
`ExecutionIsFeasible` fails: the program enters an irreducible loop at one block
only, but the switch lists the other one first, so that the search makes that
one the header (`MachineLoopBoundAgregatorPass.cpp:154`).
`Selected = {"duff"}`: it fails for either order when the program may enter at
both, as an execution that enters past the header reaches it by its back edge
only (`AbstractHighsSolver.cpp:135`), against the note on duff at
`tests/msp430/regression_baselines.json:27`, that the row of the header bounds
the whole loop and is sound. `Selected = {"topTested"}`:
`ExecutionIsFeasible` fails, since a pragma that counts iterations bounds a
header that runs once more (`MachineLoopBoundAgregatorPass.cpp:241`).
`Selected = {"callLatch"}`: `NothingIsFree` fails; a latch that ends in a call
has its back edge replaced by call and return edges (`ProgramGraph.cpp:437`), so
that the row of the loop counts every turn as an entry and limits nothing: one
of the cycles through a callee that no loop bound constrains, which the comment
at `AbstractHighsSolver.cpp:162-164` has the matching of calls and returns
prevent.
`Selected = {"stopInCallee"}`: `ExecutionIsFeasible` fails; the row that matches
calls with returns (`AbstractHighsSolver.cpp:181`) is dropped for callees that
never return, but one that returns on one path and stops the program on another
keeps it, against the comment at 192-193.

More divergences were met on the way and are recorded as hazards. Under FIFO an
abstract miss can be a device hit, which does not renew the line, so that the
must analysis forgets to charge a wait. Always-miss reports hold for LRU only.
`barrier`
empties the state in both directions, which is right for must and the opposite
for may; and the empty initial state is wrong for may when a function is called
on a warm cache. That is why LockstepLruMay has no data accesses and no
re-entry. An instruction without a resolved address is charged no fetch
(`FRAMAccessMapper.cpp:14`); the passing runs use resolved instructions.

**Bounds.** Two ways and at least three lines in a set: the smallest in which
ageing, eviction by a line never seen again, and a join of different ages all
occur; the lockstep run has two sets so that sets evolve apart. May has three
ways, so that an age can be neither youngest nor oldest. Graphs of four blocks:
loop, diamond, self loop, and a cycle entered at two places. Bodies are laid
out back to back in FRAM with two-word lines, so that blocks share lines and
straddle them; one body accesses data. Every assignment of bodies to blocks is
an initial state.

The programs of the path runs have the shapes of `tests/cfg`: a loop with a
call and a second call after it, a callee with two returns, dead callers,
nested loops with a library call, self and mutual recursion, a callee that does
not return, a start function that never returns. Loops run at most three times
and recursion goes three deep: enough for a first, an inner and a last
iteration. `MaxDepth` is 6 calls, more than any of these programs can reach
within its recursion bounds, so it cuts nothing off. Uninitialised memory holds
0 (no row) or 1 (the tightest row). All orders of addresses are tried. Nested
loops have their blocks visited in the order of the layout and against it, and
the switch into a loop lists either block first, so that each becomes the header.
A program with a finding has a run of its own; the passing run has none of
them. `ExecutionIsFeasible` and `TimeIsCovered` speak of complete executions,
so they do not hold by default: in each of the programs TLC reaches the end.

The functions of Passes are all words of up to three of: two register
instructions that can be encoded, of two lengths, a dereference, a call, a
directive, KILL, and two pieces of inline assembly, one of which looks like the
two instructions and one that is longer than the window of two entries; then a
return. main follows behind a word of padding, with two calls in one block.
With these an anchor can be behind, at, within and out of the window, look like
the wrong entry, and be missing altogether. One variant each has no binary, no
FRAM address, no wait states, two wait states, the cache, and code below the
FRAM. The call graphs are all those of three functions in which nothing refers
to main and each internal function is called, and those of two without main.
Longer words (four, with fewer letters) showed nothing new.

**Fairness.** `WF(Solve)` only: one thread, no waiting, so an enabled iteration
is executed. Nothing is assumed fair about the program that is analysed.
Deadlock is not checked in the FRAMCache runs, because an executed function
returns, nor in the path runs, because an executed program ends, nor in the
pass runs, because the passes end.

## 4. Proofs

*AnalysisSoundnessProofs*, first the solver: `TypeOK`, `SolvedUnlessWaiting`,
`UntouchedUntilReached`, for every graph, transfer and join, monotone or not.
The invariant is their conjunction: to see that a processed node stays solved
one needs that a changed node queues all its successors unless they wait
already, which needs deque and set to agree. Assumed: `Ordered` lists each
element of a set once (`std::set` iteration), programs are graphs over `Node`.
`SolverImplementsIteration`: the solver implements `FixpointIteration`, step by
step, with the same invariant.

Then what its costs mean: from `LocallySound(S)` and `EntryHasNoPredecessor`,
`OutStateDescribes` and `ProcessedBlockIsCovered`. The invariant adds that
execution starts only when the worklist is empty; then a processed block solves
its equation, and a block never processed has the initial state, which
describes every machine. Convergence is not assumed.

Last, the cache analysis itself (`CacheIsLocallySound`, `CacheCostsCover`): for
every geometry, graph and instructions, under LRU on an LRU device and under the
default policy on any device, `LocallySound(CacheStates)` holds, so that nothing
about the analysis is left to assume. A leaf block makes the same events in the
analysis and on the device; both are folds over them, and after each prefix the
state describes every cache the device may have, and the charge is at least the
wait (`EventsSound`). The join of the predecessors is a fold too (`JoinsSound`).
Hypotheses: `IsCacheAnalysis` (the constants of the solver are the operators of
FRAMCacheAnalysis, and `std::set` iterates upwards), `BlocksAreLeaves` (addresses
are known and nothing is called: FRAMCacheCalls shows what a call does), and
`EntryHasNoPredecessor`. TLC evaluates the last three on the programs of
LocalSoundness (`CacheAnalysisOfLeaves`).

*CacheProofs* and *CacheLockstepProofs*: `TypeOK`, `StateDescribesDevice`, `WaitIsCharged` and
`AlwaysMissMisses` for every associativity, number of sets and set of lines, in
three configurations: LRU must on an LRU device, the default policy on any
modelled device, LRU may on an LRU device from cold. The argument is one lemma
per set (`LruMustSet`, `LruMaySet`): ages bound positions, and an access ages a
line whenever it may push the line on the device.

*MachinePassesProofs*, first the resolver: `AddressTypeOK`, `AddressesIncrease`, `NeverAhead`,
`DriftEndsAtAnchors` and `SilentMeansExact`, for every set of functions and
every window. The invariant `IInv` adds what makes them inductive: instructions
to come have no address (`Fresh`); every address is that of an entry behind the
cursor (`Traced`), so that the next one is higher; in a faithful function the
cursor has not passed the entry of any instruction to come (`Behind`), which is
why the search goes forwards only; and without a warning, one wrong address
leaves the cursor behind some entry for good (`Lagging`), so that entries are
left over at the end and the last test of `alignFunction` sees them. Assumed:
entries of a function have increasing addresses, instructions have their own
ids, and a function is aligned once (`enter`). `OneToOneIsExact`: without inline
assembly every address is right, warnings or not. Its invariant `Even` says that
each entry from the cursor on has an instruction to come, so that neither a
resynchronisation nor the end of the dump can happen.

Then the passes, for every set of programs (`ProgramsAssumption`: types):

- `CallsAlwaysEndBlocks`: whatever blocks LLVM makes, `CallSplitter` leaves every
  call at the end of its block. It also leaves the code as it was, in order
  (`SplitKeepsCode`), and that is what the next theorem needs.
- `PassesImplementResolver`: every step of the passes is a step of
  `AddressResolver` or leaves its variables alone, so that its five properties
  hold of the passes (`PassesResolve`). Hypothesis `FunctionsAreLinked`: the
  functions of the resolver are those the linker made of the program. The
  invariant `PassInv` ties the blocks, the parsed binary and the scope to the
  stage of the pass manager.
- `ScopeAlwaysCoversAnalysis`: the diagnostics cover what the graph starts from,
  if the call graph counts its references (`CallGraphsAreComplete`), a start
  function that is named exists, and nothing is referred to less than main
  (`MainIsTheRoot`). The two choices of a start function are a fold and a list;
  the proof is that the fold picks a least function, and the list starts with
  all of them.
- `BlockTimeIsAlwaysCovered`: no block of a function without inline assembly gets
  less than its cycles, fetches and data take on the device. `TimesInv` follows
  the number from map to map: a block's latency is the sum of its cycles, then
  covers its waits too, then is in the graph, and neither a later pass nor
  another function writes it again (the keys of other functions are
  `OldLatencies`, `OldNodes`). That the waits are enough rests on exact addresses
  (`Even`), on distances between addresses being sizes (`FetchesAreCovered`), and
  on no access that can reach FRAM being left out (`DataIsCovered`). Hypothesis
  `PlainFunctionsAreLinked`: such a function is in the binary, its entries leave
  no gap, and what has a memory operand loads or stores. A function that is
  missing from the binary is skipped without a word; the hypothesis leaves that
  hazard out.

TLC evaluates these hypotheses on the programs of Passes (`ProgramsAreLinked`),
so programs that satisfy them exist, and those are the ones checked.

*PathAnalysisProofs*, for every set of well-formed programs
(`ProgramsAreWellFormed`, which TLC evaluates in each path run):

- `PathTypes`: counters are bags, frames wait in call blocks, and the edges of the
  graph join its nodes at every stage, which is what `setEdge` and `removeNode`
  assert. `IsFilled` says at once what the graph of a set of functions is, so that
  the order of filling does not matter; `IsFinal` what `finalize` makes of it.
- `ExecutionsArePaths`: every execution is a path of the graph. The invariant: the
  functions with a frame form a chain of calls from the start function, all of
  them are live (reachable in the call graph), and every node that was visited or
  waits in a frame survived pruning. `closure` is the least closed set, so a step
  along an edge stays inside it.
- `RecursionReported`: a function that is active twice is named by a report
  (`ChainReaches`: an inner activation is reached by calls from every outer one).

*PathILPProofs*, on the same programs:

- `TimeCovered`: the objective at the counts of an execution is at least the
  cycles it took, or a callee without a cost was reported.
- `ExecutionsAreFeasible`: the counts of a complete execution satisfy every row.
  The flow rows do not hold half way: `FlowInv` says that a node was visited once
  more than it was left if the execution is in it, and that a call was made once
  more than it returned for each frame waiting there. A loop row
  `B * back <= (B - 1) * visits` is kept by an invariant with the room that is left
  (`LoopInv`): for the current entry of the loop and for each frame that stands
  in it, `B` minus the iterations so far. A turn of the loop uses up one; a
  new entry brings `B - 1`. `CallsInv` is the same for recursive cycles.
- `TheWCETIsABound`: any upper bound of the objective over the solutions, as the
  value the solver reports is, bounds the cycles of every execution.

Their hypotheses are facts the code needs, each with a program that shows it.
`NoReentry` (nothing calls the start function): calls into it are not wired, and
`recursiveStart` fails. `NoPartialStops` (no callee both returns and stops the
program): `stopInCallee` fails. `BoundsAreKept`, a property of its own that
Paths checks: a bound is about a loop, or a cycle of calls, with a single way in,
and no less than what is promised of it. `Complete` executions only: the rows
speak of those.

*BoundProofs* proves `BoundsAreKept` from what can be said of a program before
any pass has run (module BoundedPrograms), so that the chain from the source text
to the cycles has no gap left:

- `BoundsAreRight`: pragmas belong to one loop or function each (`PragmasBelong`:
  visiting the items in the order of the plugin, no earlier one can take it);
  every natural loop has a bound and neither its pragma nor what LLVM computes is
  too small; irreducible loops with a pragma start at the header the search
  finds; a cycle of functions is called from outside, through one function only,
  all its recursion goes through that one, and its bound is not too small.
- `BoundsAreAlwaysKept`. The plugin's walk is a fold in which every item takes its
  own pragma (`TakesOwnPragma`), so the JSON file has each bound with its line or
  name and nothing else (`ExportIsExact`). The pass then finds one of the loop's
  own bounds at the first source that has one (`LoopBoundIsRight`). The
  depth first search is followed step by step (`EntryInv`): started at the one
  node a component is entered at, it has that node on its stack until all is
  visited, so it finds just the edges to it, in whatever order it visits
  (`SearchFromOneEntry`), and the calls that are closed are those of recursions
  (`ClosingCalls`). `BoundInv` puts these together pass by pass and function by
  function: `FoundFor` for the loop bound pass, `LoopsIn` for the graph as it is
  filled, `FinalLoops` after `finalize`.
- `BoundedExecutionsAreFeasible` and `TheWCETBoundsAllExecutions`: the two theorems
  above without `BoundsAreKept` as a hypothesis.
- `NothingIsEverFree`, which needs in addition that bounds are sufficient
  (`BoundsSuffice`): without the edges that close a bounded loop no function can
  repeat itself, no such edge comes out of a call, and what is behind a call from
  dead code does not lead back into its callee. A circulation then has functions,
  and among these one that the others call only in closing a recursion, as open
  calls are acyclic (`OpenCallsAreAcyclic`); in it is a block that follows the
  others only in closing a loop. Nothing returns to this block: by the row of the
  call, or because the call is dead, the call itself would be in the circulation
  (`ReturnsAreCalled`). So the block is entered over back edges only, and its row
  `B * back <= (B - 1) * visits` cannot hold.

TLC evaluates all hypotheses on the programs of Paths (module MCPaths). Each
program that breaks a property of the path runs violates exactly one of them:
`recursiveStart` `StartIsNotReentered`, `stopInCallee`
`StopsAreFinal`, the programs of PathsNoBound and PathsDeadCode and `topTested`
`NaturalLoopsAreBounded`, `switchListsOther` and `duff`
`IrreducibleLoopsAreBounded`, those of PathsTwoEntries `RecursionIsBounded`, `callLatch` `AllCyclesAreLoops`. Only for
`DeadCallsLeadNowhere` there is no such program: whether the rows could do
without it is open.

*InductionLemmas*: the induction theorems of the library take a predicate, which
these provers cannot instantiate, but a set does as well: a set of naturals with 0
and closed under successor is all of them (`NumberInduction`), likewise for the
subsets of a finite set (`SubsetInduction`). From these follow the laws of sums
over finite sets, of folds over sets in whatever order `CHOOSE` takes (`FoldsExist`,
`FoldsStay`), of `FlattenSeq` and of `FoldLeft`, down to the definitions of the
community modules. The flows and the objective, the merging of blocks and the
choice of a start function are unfolded with them.

Only model-checked: `Termination` (liveness under fairness, and not true of every
policy). That the solver's objective has a maximum when nothing is free is a fact
about integer programs, and not proved here; nor is what the nested folds of the
plugin do when a pragma could belong to several items.

## 5. Not modelled

- *Driver* (`LLTA.cpp`, `NewPMDriver.cpp`, `WCETAnalysisPipeline.cpp`): an adapted
  copy of LLVM's `llc`, with option handling and set-up; it decides nothing about
  a program.
- *Pipeline and microarchitecture* (`HardwarePipeline.cpp`,
  `MicroArchitectureAnalysis.h`): no result depends on it. Functions are analysed
  with the cache, and the nodes of the program graph have no instructions.
- *Printing*: dot files, coverage and debug output, reports on the console. What
  the reports are about is modelled (`UnsoundExternalCallees` and the three sets
  of recursive functions).
- *The always-miss replay per graph* (`reportAlwaysMiss`): it changes no result.
  CacheLockstep has it for one path.
- *LLVM*: the decoder and the encoder, scalar evolution, MachineLoopInfo (used
  from its definition), the JSON parser, and HiGHS, which maximises the objective.
- *Branch targets* of instructions, which the resolver records and nobody reads,
  and the lower bound of a pragma.

## 6. Worth doing next

Theorems: irreducible loops that several back edges close; whether
`DeadCallsLeadNowhere` can be dropped; convergence of the worklist for monotone
transfers.
Models: programs with a call through a register; data objects with equal names;
functions the linker drops.
