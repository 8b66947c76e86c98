----------------------------- MODULE MachinePasses -----------------------------
(***************************************************************************)
(* The passes of getTimingAnalysisPasses up to the program graph.  The code   *)
(* generator runs all of them on one function before it goes on to the next.  *)
(*                                                                         *)
(* A program is a record: functions, a sequence of records with name and      *)
(* blocks, sequences of machine instructions; elf, the linked binary of       *)
(* ElfImage or NoElf; callGraph and startFunction, of StartFunction; and the   *)
(* options waitStates (-fram-wait-states), framStart (-fram-start or           *)
(* NoAddress) and cache (-fram-cache).  To the fields of AddressResolver and   *)
(* MemoryAccesses an instruction adds o, its opcode; pc, whether it has the    *)
(* program counter as an operand; and call.                                 *)
(***************************************************************************)
EXTENDS AddressResolver, MemoryAccesses, ElfImage, MSP430Target, StartFunction

CONSTANTS
  Programs,
  NoElf, NoAddress,
  CacheCost(_, _)   \* what the cache analysis charges a block: its blocks and the number of the block

VARIABLES
  program,
  current,         \* the function the passes run on
  stage,           \* the pass that is next
  blocks,          \* its machine basic blocks
  ELF,             \* what AdressResolverPass keeps of the binary
  UnsoundReasons,
  AnalyzedFunctions,
  latencies,       \* MBBLatencyMap of the InstructionLatencyPass
  MBBLatencyMap,   \* of the TimingAnalysisResults
  MASG             \* the nodes of the program graph: [<<function, block>> |-> cycles]

\* A module of LLVM: functions have names of their own, and blocks of instructions.
instructionsOf(f) == UNION {Range(f.blocks[b]) : b \in DOMAIN f.blocks}

isProgram(p) ==
  /\ Len(p.functions) \in Nat \ {0} /\ DOMAIN p.functions = 1 .. Len(p.functions)
  /\ \A g \in DOMAIN p.functions : p.functions[g].blocks \in Seq(Seq(instructionsOf(p.functions[g])))
  /\ \A g, h \in DOMAIN p.functions : p.functions[g].name = p.functions[h].name => g = h
  /\ p.waitStates \in Nat

ASSUME ProgramsAssumption == \A p \in Programs : isProgram(p)

pvars == <<avars, program, current, stage, blocks, ELF, UnsoundReasons, AnalyzedFunctions,
           latencies, MBBLatencyMap, MASG>>

notParsed == [parsed |-> FALSE, entries |-> << >>, objects |-> << >>]

PInit ==
  /\ Init
  /\ program \in Programs
  /\ current = 1 /\ stage = "CallSplitter"
  /\ blocks = program.functions[1].blocks
  /\ ELF = notParsed
  /\ UnsoundReasons = {} /\ AnalyzedFunctions = {}
  /\ latencies = << >> /\ MBBLatencyMap = << >> /\ MASG = << >>

-----------------------------------------------------------------------------
isMetaInstruction(i) == i.kind \in {"debug", "cfi", "kill"}

\* The sum of a value over the instructions of a block.
sum(value(_), block) ==
  LET values == [k \in DOMAIN block |-> value(block[k])]
  IN  MapThenSumSet(LAMBDA k : values[k], DOMAIN block)

\* Mutant: the new block is put in front of the one it is cut from.
splitInFront(body) ==
  Reverse(FoldLeft(LAMBDA cut, i : IF Last(cut) # << >> /\ Last(Last(cut)).call THEN Append(cut, <<i>>)
                                   ELSE Front(cut) \o <<Append(Last(cut), i)>>,
                   << << >> >>, body))

\* Mutant: the block is cut before its calls.
splitBeforeCalls(body) ==
  FoldLeft(LAMBDA cut, i : IF i.call THEN Append(cut, <<i>>) ELSE Front(cut) \o <<Append(Last(cut), i)>>,
           << << >> >>, body)

\* What follows a call becomes a block of its own, whose calls are met later.
splitAfterCalls(body) ==
  FoldLeft(LAMBDA cut, i : IF Last(cut) # << >> /\ Last(Last(cut)).call THEN Append(cut, <<i>>)
                           ELSE Front(cut) \o <<Append(Last(cut), i)>>,
           << << >> >>, body)

CallSplitter ==
  /\ stage = "CallSplitter"
  /\ blocks' = FlattenSeq([b \in DOMAIN blocks |-> splitAfterCalls(blocks[b])])
  /\ stage' = "AsmDumpAndCheck"
  /\ UNCHANGED <<avars, program, current, ELF, UnsoundReasons, AnalyzedFunctions, latencies, MBBLatencyMap, MASG>>

checkInstruction(i) == isMetaInstruction(i) \/ i.o \in Checked

\* An assertion stops the tool at an instruction the target does not know.
AsmDumpAndCheck ==
  /\ stage = "AsmDumpAndCheck"
  /\ stage' = IF \A b \in DOMAIN blocks : \A k \in DOMAIN blocks[b] : checkInstruction(blocks[b][k])
              THEN "AdressResolver" ELSE "aborted"
  /\ UNCHANGED <<avars, program, current, blocks, ELF, UnsoundReasons, AnalyzedFunctions, latencies,
                 MBBLatencyMap, MASG>>

-----------------------------------------------------------------------------
name == program.functions[current].name
code == FlattenSeq(blocks)

parseElf ==
  IF program.elf = NoElf THEN [notParsed EXCEPT !.parsed = TRUE]
  ELSE [parsed |-> TRUE, entries |-> FunctionEntryAddr(program.elf), objects |-> DataObjects(program.elf)]

hasFRAMStart == program.framStart # NoAddress

\* The binary is read and the scope computed with the first function.
AdressResolver ==
  /\ stage = "AdressResolver"
  /\ ELF' = IF ELF.parsed THEN ELF ELSE parseElf
  /\ UnsoundReasons' = UnsoundReasons \cup IF ~ELF.parsed /\ program.elf = NoElf THEN {"no -elf-file"} ELSE {}
  /\ AnalyzedFunctions' =
       IF ELF.parsed THEN AnalyzedFunctions ELSE computeAnalyzedSet(program.callGraph, program.startFunction)
  /\ IF name \in DOMAIN ELF'.entries
     THEN /\ aligned /\ aligned' = FALSE
          /\ enter([code |-> code, range |-> rangeOf(program.elf, name)])
          /\ stage' = "alignFunction"
     ELSE stage' = "InstructionLatency" /\ UNCHANGED avars
  /\ UNCHANGED <<program, current, blocks, latencies, MBBLatencyMap, MASG>>

alignFunction ==
  /\ stage = "alignFunction"
  /\ Align
  /\ stage' = IF aligned' THEN "InstructionLatency" ELSE stage
  /\ UNCHANGED <<program, current, blocks, ELF, UnsoundReasons, AnalyzedFunctions, latencies, MBBLatencyMap, MASG>>

-----------------------------------------------------------------------------
cycles(i) == IF isMetaInstruction(i) THEN 0 ELSE getInstructionLatency(i.o, i.pc)

\* An entry for every block of the function.
blockKeys == {<<name, b>> : b \in DOMAIN blocks}
keyed(value(_)) == [k \in blockKeys |-> value(k[2])]

\* What a map has already stays.
insert(map, entries) ==
  [k \in DOMAIN map \cup DOMAIN entries |-> IF k \in DOMAIN map THEN map[k] ELSE entries[k]]

\* The map of the pass has the blocks of all functions so far, without the
\* penalties that were added to the other one.
InstructionLatency ==
  /\ stage = "InstructionLatency"
  /\ LET latency(b) == sum(cycles, blocks[b])
     IN  latencies' = insert(latencies, keyed(latency))
  /\ MBBLatencyMap' = latencies'
  /\ stage' = "FRAMWaitState"
  /\ UNCHANGED <<avars, program, current, blocks, ELF, UnsoundReasons, AnalyzedFunctions, MASG>>

Words == computeInstructionWords(code, InstructionAddress)
DataWords == computeDataAccessWords(code, program.framStart, ELF.objects)

valueOr0(f, x) == IF x \in DOMAIN f THEN f[x] ELSE 0

fetchPenalty(i) ==
  IF i.id \in DOMAIN Words /\ InstructionAddress[i.id] >= program.framStart THEN Words[i.id] ELSE 0

waitStates(b) ==
  LET words(i) == valueOr0(DataWords, i.id) + fetchPenalty(i)
  IN  program.waitStates * sum(words, blocks[b])

\* Penalties are added to what the map has for the blocks of the function.
charge(penalty(_)) ==
  MBBLatencyMap' = [k \in DOMAIN MBBLatencyMap |->
                      MBBLatencyMap[k] + IF k \in blockKeys THEN penalty(k[2]) ELSE 0]

waitsAreModelled == program.waitStates > 0 /\ hasFRAMStart

\* Without the cache; a function without addresses is left alone.
FRAMWaitState ==
  /\ stage = "FRAMWaitState"
  /\ IF waitsAreModelled /\ ~program.cache /\ DOMAIN Words # {}
     THEN charge(waitStates)
     ELSE UNCHANGED MBBLatencyMap
  /\ stage' = "FRAMCacheAnalysis"
  /\ UNCHANGED <<avars, program, current, blocks, ELF, UnsoundReasons, AnalyzedFunctions, latencies, MASG>>

\* What FRAMAccessMapper asks about an instruction.
mapped(i) ==
  [addr |-> valueOr0(InstructionAddress, i.id), resolved |-> i.id \in DOMAIN Words,
   words |-> valueOr0(Words, i.id), data |-> valueOr0(DataWords, i.id), call |-> i.call]

mappedBlocks == [b \in DOMAIN blocks |-> [k \in DOMAIN blocks[b] |-> mapped(blocks[b][k])]]

FRAMCacheAnalysis ==
  /\ stage = "FRAMCacheAnalysis"
  /\ IF waitsAreModelled /\ program.cache
     THEN LET cost(b) == CacheCost(mappedBlocks, b) IN charge(cost)
     ELSE UNCHANGED MBBLatencyMap
  /\ stage' = "FillMuGraph"
  /\ UNCHANGED <<avars, program, current, blocks, ELF, UnsoundReasons, AnalyzedFunctions, latencies, MASG>>

\* The graph gets the blocks with their latencies, and the next function is due.
FillMuGraph ==
  /\ stage = "FillMuGraph"
  /\ LET latency(b) == valueOr0(MBBLatencyMap, <<name, b>>)
     IN  MASG' = insert(MASG, keyed(latency))
  /\ IF current < Len(program.functions)
     THEN /\ current' = current + 1
          /\ stage' = "CallSplitter"
          /\ blocks' = program.functions[current + 1].blocks
     ELSE stage' = "done" /\ UNCHANGED <<current, blocks>>
  /\ UNCHANGED <<avars, program, ELF, UnsoundReasons, AnalyzedFunctions, latencies, MBBLatencyMap>>

PNext ==
  \/ CallSplitter \/ AsmDumpAndCheck \/ AdressResolver \/ alignFunction \/ InstructionLatency
  \/ FRAMWaitState \/ FRAMCacheAnalysis \/ FillMuGraph

PSpec == PInit /\ [][PNext]_pvars

-----------------------------------------------------------------------------
(***************************************************************************)
(* The device: an instruction takes its cycles, the wait states of the words  *)
(* it has in the FRAM and of the data it accesses there.                     *)
(***************************************************************************)
trueAddressOf(operand) ==
  LET symbols == program.elf.symbols IN Min({symbols[k].addr : k \in {s \in DOMAIN symbols : symbols[s].name = operand}})

mayBeInFRAM(operand) ==
  operand \notin {"stack", "alloca"} /\ (operand = "unknown" \/ trueAddressOf(operand) >= program.framStart)

\* Nothing known of an access: it may be one.
deviceData(i) ==
  IF i.mem = << >> THEN Cardinality({a \in {"load", "store"} : IF a = "load" THEN i.mayLoad ELSE i.mayStore})
  ELSE Cardinality({k \in DOMAIN i.mem : mayBeInFRAM(i.mem[k])})

deviceFetches(i, range) ==
  IF emitsCode(i) /\ range[i.slot].addr >= program.framStart THEN range[i.slot].size ELSE 0

deviceTime(block, range) ==
  LET time(i) == cycles(i) + program.waitStates * (deviceData(i) + deviceFetches(i, range))
  IN  sum(time, block)

\* Functions without inline assembly, whose time nobody knows, and without KILL.
isPlain(f) ==
  \A b \in DOMAIN f.blocks : \A k \in DOMAIN f.blocks[b] : f.blocks[b][k].kind \notin {"asm", "kill"}

(***************************************************************************)
(* The graph gives every block of a linked function without inline assembly  *)
(* the time the device takes, its waits for the FRAM included, whatever was   *)
(* done to the maps for other functions; without a binary it says so.  (The   *)
(* cache is the subject of AnalysisSoundness.)                               *)
(***************************************************************************)
BlockTimeIsCovered ==
  stage = "done" /\ waitsAreModelled /\ ~program.cache /\ UnsoundReasons = {} =>
    \A g \in DOMAIN program.functions :
      LET f == program.functions[g]
          split == FlattenSeq([b \in DOMAIN f.blocks |-> splitAfterCalls(f.blocks[b])])
      IN  isPlain(f) => \A b \in DOMAIN split :
            MASG[<<f.name, b>>] >= deviceTime(split[b], rangeOf(program.elf, f.name))

(***************************************************************************)
(* What the passes do to the addresses is what the resolver alone may do:     *)
(* each function meets it once, with the part of the binary that is its own.  *)
(***************************************************************************)
ImplementsResolver == Spec

(***************************************************************************)
(* Every block of the graph ends with its only call, if it has one: the      *)
(* graph wires a call to the end of its block.                              *)
(***************************************************************************)
CallsEndBlocks ==
  stage \notin {"CallSplitter", "done"} =>
    \A b \in DOMAIN blocks : \A k \in DOMAIN blocks[b] : blocks[b][k].call => k = Len(blocks[b])

(***************************************************************************)
(* The functions the graph starts from are among those the resolver reports  *)
(* about, when nothing in the program refers to main.                        *)
(***************************************************************************)
ScopeCoversAnalysis ==
  ELF.parsed =>
    reachable(program.callGraph, findStartFunction(program.callGraph, program.startFunction))
      \subseteq AnalyzedFunctions

-----------------------------------------------------------------------------
(***************************************************************************)
(* What the theorems about the passes take from the compiler and the linker.  *)
(***************************************************************************)
linkedFunction(p, g) ==
  [code |-> FlattenSeq(p.functions[g].blocks), range |-> rangeOf(p.elf, p.functions[g].name)]

\* Functions are those the linker made of the programs' functions.
FunctionsAreLinked ==
  \A p \in Programs : p.elf # NoElf =>
    \A g \in DOMAIN p.functions :
      p.functions[g].name \in DOMAIN FunctionEntryAddr(p.elf) => linkedFunction(p, g) \in Functions

\* A name has one address, and "unknown" is no name.
hasSymbols(elf) ==
  /\ DOMAIN elf.symbols = 1 .. Len(elf.symbols) /\ Len(elf.symbols) \in Nat
  /\ \A k \in DOMAIN elf.symbols : elf.symbols[k].addr \in Nat /\ elf.symbols[k].name # "unknown"
  /\ \A j, k \in DOMAIN elf.symbols :
       elf.symbols[j].name = elf.symbols[k].name => elf.symbols[j].addr = elf.symbols[k].addr

\* Instructions follow each other, and the last is one word: a return.
isContiguous(range) ==
  /\ Len(range) > 0 /\ range[Len(range)].size = 1
  /\ \A r \in DOMAIN range : range[r].size \in 1 .. MaxInstructionWords
  /\ \A r \in 1 .. Len(range) - 1 : range[r + 1].addr = range[r].addr + range[r].size

\* What has a memory operand loads or stores.
accessesAreTold(i) ==
  /\ i.mayLoad \in BOOLEAN /\ i.mayStore \in BOOLEAN
  /\ DOMAIN i.mem = 1 .. Len(i.mem) /\ Len(i.mem) \in Nat
  /\ i.mem # << >> => i.mayLoad \/ i.mayStore

PlainFunctionsAreLinked ==
  \A p \in Programs : p.elf # NoElf /\ p.framStart # NoAddress =>
    /\ p.framStart \in Nat /\ hasSymbols(p.elf)
    /\ \A g \in DOMAIN p.functions : isPlain(p.functions[g]) =>
         LET l == linkedFunction(p, g)
         IN  /\ p.functions[g].name \in DOMAIN FunctionEntryAddr(p.elf)
             /\ OneToOne(l) /\ isContiguous(l.range)
             /\ \A k \in DOMAIN l.code : accessesAreTold(l.code[k])

CallGraphsAreComplete ==
  \A p \in Programs :
    LET cg == p.callGraph
    IN  /\ cg.functions \in Seq(Names(cg)) /\ NoStart \notin Names(cg)
        /\ \A x \in Names(cg) : cg.refs[x] \in Nat

\* Nothing is referred to less than main, and a start function that is named exists.
MainIsTheRoot ==
  \A p \in Programs :
    LET cg == p.callGraph
    IN  /\ p.startFunction \in Names(cg) \cup {""}
        /\ "main" \in Names(cg) => \A x \in Names(cg) : cg.refs["main"] <= cg.refs[x]
=============================================================================
