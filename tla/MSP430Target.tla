---------------------------- MODULE MSP430Target ----------------------------
(***************************************************************************)
(* The MSP430 target (Targets/MSP430/MSP430Target.cpp): which instructions it *)
(* accepts, how many cycles each takes without wait states, and the bound of *)
(* the shift loops the code generator makes up.                             *)
(*                                                                         *)
(* An opcode is a record: op, the mnemonic; width, 16 or 8; mode, the letters *)
(* of the operands, destination first (r register, m memory, n @Rn, p @Rn+,  *)
(* c constant generator, i immediate).  pc says whether an operand is the    *)
(* program counter.                                                        *)
(***************************************************************************)
EXTENDS Naturals, FiniteSets, Functions, SequencesExt

CONSTANT NoLatency

Arithmetic == {"ADD", "ADDC", "DADD", "SUB", "SUBC"}
Logical == {"AND", "BIC", "BIS", "XOR"}
Tested == {"BIT", "CMP"}
FormatI == Arithmetic \cup Logical \cup Tested \cup {"MOV"}
Shifts == {"RRA", "RRC"}
Swaps == {"SWPB", "SEXT"}
Debug == {"DBG_VALUE", "DBG_LABEL", "DBG_INSTR_REF", "DBG_PHI", "DBG_VALUE_LIST"}

\* Moves and tests do not write back what they read.
shorter(op) == IF op \in Tested \cup {"MOV"} THEN 1 ELSE 0

-----------------------------------------------------------------------------
(***************************************************************************)
(* The latency table, one definition for each group of operand modes.  A     *)
(* mode that is missing in the table has NoLatency.                         *)
(***************************************************************************)
toMemoryFromConstant(op, mode) ==
  IF op = "SUB" /\ mode = "mi" THEN NoLatency ELSE 5 - shorter(op)

toMemoryFromMemory(op, mode) ==
  CASE mode = "mm" -> 6 - shorter(op)
    [] mode = "mn" -> 5 - shorter(op)
    [] mode = "mp" -> IF op = "MOV" THEN NoLatency ELSE 5 - shorter(op)

toMemoryFromRegister(op) == 4 - shorter(op)

toRegisterFromConstant(pc) == IF pc THEN 3 ELSE 2

toRegisterFromMemory(mode, pc) ==
  CASE mode = "rm" -> 3
    [] mode = "rn" -> 2
    [] mode = "rp" -> IF pc THEN 3 ELSE 2

toRegisterFromRegister(pc) == IF pc THEN 2 ELSE 1

formatI(op, mode, pc) ==
  CASE mode \in {"mc", "mi"} -> toMemoryFromConstant(op, mode)
    [] mode \in {"mm", "mn", "mp"} -> toMemoryFromMemory(op, mode)
    [] mode = "mr" -> toMemoryFromRegister(op)
    [] mode \in {"rc", "ri"} -> toRegisterFromConstant(pc)
    [] mode \in {"rm", "rn", "rp"} -> toRegisterFromMemory(mode, pc)
    [] mode = "rr" -> toRegisterFromRegister(pc)

formatII(op, mode) ==
  CASE op \in Shifts \cup Swaps \cup {"ZEXT"} -> [r |-> 1, n |-> 3, p |-> 3, m |-> 4][mode]
    [] op = "CALL" -> IF mode = "m" THEN 5 ELSE 4
    [] op \in {"PUSH", "POP"} -> 3

formatIII(op) == [RET |-> 4, RETI |-> 5, JCC |-> 2, JMP |-> 2][op]

latencyForOpcode(o, pc) ==
  CASE o.op \in FormatI -> formatI(o.op, o.mode, pc)
    [] o.op = "B" -> [i |-> toRegisterFromConstant(pc), m |-> 3, r |-> toRegisterFromRegister(pc)][o.mode]
    [] o.op = "MOVZX" -> [rm |-> 3, rr |-> toRegisterFromRegister(pc)][o.mode]
    [] o.op \in Shifts \cup Swaps \cup {"ZEXT", "CALL", "PUSH", "POP"} -> formatII(o.op, o.mode)
    [] o.op \in {"RET", "RETI", "JCC", "JMP"} -> formatIII(o.op)
    [] o.op \in Debug \cup {"CFI_INSTRUCTION"} -> 0
    [] o.op = "INLINEASM" -> 1
    [] OTHER -> NoLatency

\* An instruction without a latency stops a build with assertions; any other
\* takes it to cost nothing.
getInstructionLatency(o, pc) ==
  IF latencyForOpcode(o, pc) = NoLatency THEN 0 ELSE latencyForOpcode(o, pc)

-----------------------------------------------------------------------------
(***************************************************************************)
(* checkInstruction: what the target knows.                                *)
(***************************************************************************)
FormatIModes(op) ==
  {"mc", "mi", "mm", "mn", "mr", "rc", "ri", "rm", "rn", "rp", "rr"} \cup IF op = "MOV" THEN {} ELSE {"mp"}

opcodes(Ops, Modes(_), Widths) == UNION {[op : {f}, mode : Modes(f), width : Widths] : f \in Ops}

CheckedAdditions == opcodes({"ADD", "ADDC"}, FormatIModes, {8, 16})
CheckedLogical == opcodes({"AND", "BIC", "BIS"} \cup Tested, FormatIModes, {8, 16})
CheckedDifferences == opcodes({"DADD", "SUB", "SUBC", "XOR"}, FormatIModes, {8, 16})

CheckedMoves ==
  opcodes({"MOV"}, FormatIModes, {8, 16}) \cup [op : {"MOVZX"}, mode : {"rm", "rr"}, width : {16}]
    \cup [op : {"POP"}, mode : {"r"}, width : {16}]
    \cup [op : {"PUSH"}, mode : {"c", "i", "r"}, width : {16}] \cup [op : {"PUSH"}, mode : {"r"}, width : {8}]

CheckedFormatII ==
  [op : Shifts, mode : {"m", "n", "p", "r"}, width : {8, 16}]
    \cup [op : Swaps, mode : {"m", "n", "p", "r"}, width : {16}] \cup [op : {"ZEXT"}, mode : {"r"}, width : {16}]
    \cup [op : {"CALL"}, mode : {"i", "m", "n", "p", "r"}, width : {16}]

CheckedControl ==
  [op : {"B"}, mode : {"i", "m", "r"}, width : {16}]
    \cup [op : {"JMP", "JCC", "RET", "RETI"}, mode : {""}, width : {16}]

CheckedIgnored == [op : Debug \cup {"CFI_INSTRUCTION", "INLINEASM"}, mode : {""}, width : {16}]

Checked ==
  CheckedAdditions \cup CheckedLogical \cup CheckedDifferences \cup CheckedMoves \cup CheckedFormatII
    \cup CheckedControl \cup CheckedIgnored

-----------------------------------------------------------------------------
(***************************************************************************)
(* getImplicitLoopBound of a loop that is one block: as many iterations as   *)
(* the value it shifts has bits, 0 when it is anything else.  Instructions   *)
(* here also say whether both sources of an addition are one register.       *)
(***************************************************************************)
shifted(i) ==
  IF (i.op \in Shifts /\ i.mode = "r") \/ (i.op \in {"ADD", "ADDC"} /\ i.mode = "rr") THEN i.width ELSE 0

isCounter(i) == i.op \in {"SUB", "SUBC"} /\ i.mode = "ri"

inShiftLoop(i) ==
  \/ i.op \in Shifts /\ i.mode = "r"
  \/ i.op \in {"ADD", "ADDC"} /\ i.mode = "rr" /\ i.selfAdd
  \/ isCounter(i)
  \/ i.op = "BIC" /\ i.mode = "rc"
  \/ i.op = "CMP" /\ i.mode = "ri"
  \/ i.op = "B" /\ i.mode = "i"
  \/ i.op \in {"JCC", "JMP"}
  \/ i.op \in Debug \cup {"CFI_INSTRUCTION"}

getImplicitLoopBound(body) ==
  LET bits == FoldLeft(LAMBDA sum, i : sum + shifted(i), 0, body)
  IN  IF (\A k \in DOMAIN body : inShiftLoop(body[k])) /\ (\E k \in DOMAIN body : isCounter(body[k]))
      THEN bits ELSE 0
=============================================================================
