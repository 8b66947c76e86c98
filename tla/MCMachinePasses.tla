---------------------------- MODULE MCMachinePasses ----------------------------
(***************************************************************************)
(* Programs for TLC: a function f made of a few instructions of an alphabet,  *)
(* main after it, and the binary a linker makes of the two, with the truth    *)
(* the passes do not see.                                                   *)
(***************************************************************************)
EXTENDS MachinePasses

CONSTANTS
  Alphabet,    \* the instructions of f
  MaxLength,   \* how many there are before it returns
  Scopes       \* whether call graphs are enumerated, too

opcode(op, mode) == [op |-> op, mode |-> mode, width |-> 16]
entry(bytes, n) == [bytes |-> bytes, size |-> n]

\* A register instruction that can be encoded, with its one entry.
encodable(op, mode, bytes, n) ==
  [kind |-> "code", o |-> opcode(op, mode), pc |-> FALSE, call |-> FALSE, mayLoad |-> FALSE,
   mayStore |-> FALSE, mem |-> << >>, enc |-> entry(bytes, n), entries |-> <<entry(bytes, n)>>]

symbolic(op, mode, bytes) == [encodable(op, mode, bytes, 2) EXCEPT !.enc = NoEncoding]

pseudo(k, op, entries) ==
  [encodable(op, "", "", 1) EXCEPT !.kind = k, !.enc = NoEncoding, !.entries = entries]

Letter(l) ==
  CASE l = "mov"   -> encodable("MOV", "ri", "mov", 2)
    [] l = "add"   -> encodable("ADD", "rr", "add", 1)
    [] l = "ret"   -> encodable("RET", "", "ret", 1)
    [] l = "load"  -> [symbolic("MOV", "rm", "mov g") EXCEPT !.mayLoad = TRUE, !.mem = <<"g">>]
    [] l = "store" -> [symbolic("MOV", "mr", "mov h") EXCEPT !.mayStore = TRUE, !.mem = <<"h">>]
    [] l = "deref" -> [encodable("ADD", "mr", "add p", 3) EXCEPT !.mayLoad = TRUE, !.mayStore = TRUE]
    [] l = "call"  -> [symbolic("CALL", "i", "call") EXCEPT !.call = TRUE]
    [] l = "cfi"   -> pseudo("cfi", "CFI_INSTRUCTION", << >>)
    [] l = "debug" -> pseudo("debug", "DBG_VALUE", << >>)
    [] l = "kill"  -> pseudo("kill", "KILL", << >>)
    [] l = "asm"   -> pseudo("asm", "INLINEASM", <<entry("add", 1), entry("mov", 2)>>)
    [] l = "asm3"  -> pseudo("asm", "INLINEASM", <<entry("nop", 1), entry("nop", 1), entry("nop", 1)>>)

entriesOf(word) == FlattenSeq([k \in DOMAIN word |-> Letter(word[k]).entries])

MICode(f, word) ==
  [k \in DOMAIN word |-> Letter(word[k]) @@ [id |-> <<f, k>>, slot |-> Len(entriesOf(SubSeq(word, 1, k - 1))) + 1]]

sizeOf(entries) == FoldLeft(LAMBDA n, e : n + e.size, 0, entries)

placed(entries, base) ==
  [r \in DOMAIN entries |-> entries[r] @@ [addr |-> base + sizeOf(SubSeq(entries, 1, r - 1))]]

TextBase == 10
MainWord == <<"call", "cfi", "call", "load", "ret">>
Padding == <<entry("", 0)>>

\* f, a word of padding, main; g is in the SRAM and h in the FRAM.
mainBase(word) == TextBase + sizeOf(entriesOf(word)) + 1
linked(word) ==
  [sections |-> <<[name |-> ".data", base |-> 4, contents |-> <<entry("0", 1)>>],
                  [name |-> ".text", base |-> TextBase,
                   contents |-> entriesOf(word) \o Padding \o entriesOf(MainWord)]>>,
   symbols |->
     <<[name |-> "main", addr |-> mainBase(word), section |-> ".text", isFunction |-> TRUE, undefined |-> FALSE],
       [name |-> "f", addr |-> TextBase, section |-> ".text", isFunction |-> TRUE, undefined |-> FALSE],
       [name |-> "g", addr |-> 4, section |-> ".data", isFunction |-> FALSE, undefined |-> FALSE],
       [name |-> "h", addr |-> 60, section |-> ".persistent", isFunction |-> FALSE, undefined |-> FALSE],
       [name |-> "weak", addr |-> 0, section |-> "", isFunction |-> TRUE, undefined |-> TRUE]>>]

callGraphOf(order, external, called) ==
  [functions |-> order,
   refs |-> [x \in ToSet(order) |-> Cardinality({x} \cap external) + Cardinality({c \in called : c[2] = x})],
   callees |-> [x \in ToSet(order) |-> {y \in ToSet(order) : <<x, y>> \in called}],
   smaller |-> {<<"f", "g">>, <<"f", "main">>, <<"g", "main">>}]

programOf(word) ==
  [functions |-> <<[name |-> "f", blocks |-> <<Front(MICode("f", word)), <<Last(MICode("f", word))>> >>],
                   [name |-> "main", blocks |-> <<MICode("main", MainWord)>>]>>,
   elf |-> linked(word), callGraph |-> callGraphOf(<<"f", "main">>, {"main"}, {<<"main", "f">>}),
   startFunction |-> "", waitStates |-> 1, framStart |-> 8, cache |-> FALSE]

bodies == {Append(prefix, "ret") : prefix \in UNION {[1 .. n -> Alphabet] : n \in 0 .. MaxLength}}

\* Without a binary, without wait states or an address, and with the cache.
variants ==
  LET p == programOf(<<"mov", "store", "call", "add", "ret">>)
  IN  {[p EXCEPT !.elf = NoElf], [p EXCEPT !.framStart = NoAddress], [p EXCEPT !.waitStates = 0],
       [p EXCEPT !.cache = TRUE], [p EXCEPT !.waitStates = 2], [p EXCEPT !.framStart = 50]}

\* Every call graph of these functions in which nothing refers to main and every
\* internal function is called, or there is no main.
callGraphs ==
  LET allCalled(c, external) == \A x \in {"f", "g"} \ external : \E d \in c : d[2] = x /\ d[1] # x
      three == {<<c, external>> \in (SUBSET (({"main", "f", "g"} \X {"f", "g"}) \ {<<"g", "g">>})) \X (SUBSET {"f", "g"}) :
                  allCalled(c, external)}
      two == SUBSET ({"f", "g"} \X {"f", "g"})
  IN  {callGraphOf(order, t[2] \cup {"main"}, t[1]) : order \in SetToSeqs({"main", "f", "g"}), t \in three}
        \cup {callGraphOf(order, {"f", "g"}, c) : order \in SetToSeqs({"f", "g"}), c \in two}

scopes ==
  LET p == [programOf(<<"ret">>) EXCEPT !.functions = <<Head(@)>>]
  IN  {[p EXCEPT !.callGraph = g, !.startFunction = s] : g \in callGraphs, s \in {"", "f"}}

MCPrograms == {programOf(w) : w \in bodies} \cup variants \cup IF Scopes THEN scopes ELSE {}

\* What the linker knows of each function.
wordsOf(p) == FlattenSeq([k \in DOMAIN p.code |-> p.code[k].entries])
codeOf(p, g) == FlattenSeq(p.functions[g].blocks)
linkedCode(p, g) ==
  [code |-> codeOf(p, g),
   base |-> IF g = 1 THEN TextBase ELSE TextBase + sizeOf(wordsOf([code |-> codeOf(p, 1)])) + 1]
MCFunctions ==
  {[code |-> l.code, range |-> placed(wordsOf(l), l.base)] :
     l \in {linkedCode(q[1], q[2]) :
              q \in {<<p, g>> \in MCPrograms \X {1, 2} : p.elf # NoElf /\ g \in DOMAIN p.functions}}}

Cache == INSTANCE FRAMCacheAnalysis WITH
  Ways <- 2, Policy <- "unknown", Kind <- "Must", NumSets <- 1, Lines <- 0 .. 2, MissPenalty <- 15,
  Device <- "lru", FRAMStart <- 8, LineWords <- 16, DataAccessCost <- 1

\* The blocks of these functions follow each other.
MCCacheCost(bs, b) ==
  Cache!blockCost(bs[b], FoldLeft(LAMBDA C, block : Cache!blockState(block, C), Cache!getInitialState,
                                  SubSeq(bs, 1, b - 1)))

\* The theorems about the passes apply to these programs.
ASSUME ProgramsAreLinked ==
  FunctionsAreLinked /\ PlainFunctionsAreLinked /\ CallGraphsAreComplete /\ MainIsTheRoot
=============================================================================
