---------------------------- MODULE MemoryAccesses ----------------------------
(***************************************************************************)
(* Utility/InstructionWords.cpp and DataMemoryAccess.cpp: how many words the *)
(* device fetches for an instruction, and how many of its data accesses may  *)
(* be in the FRAM.                                                         *)
(*                                                                         *)
(* A machine instruction has besides the fields of AddressResolver mayLoad,  *)
(* mayStore and mem, its memory operands: a sequence of "stack", "alloca",   *)
(* "unknown" and names of global variables.                                *)
(***************************************************************************)
EXTENDS Naturals, Sequences, FiniteSetsExt

CONSTANT MaxInstructionWords

ASSUME WordsAssumption == MaxInstructionWords \in Nat \ {0}

\* Mutant: the longest instruction counts as one word, too.
fetchWordsShort(address, addresses) ==
  LET above == {a \in addresses : a > address}
  IN  IF above = {} \/ Min(above) - address >= MaxInstructionWords THEN 1 ELSE Min(above) - address

\* computeInstructionWords: the distance to the next address of the function.
\* A distance no instruction has counts as one word, and so does the last one.
fetchWords(address, addresses) ==
  LET above == {a \in addresses : a > address}
  IN  IF above = {} \/ Min(above) - address > MaxInstructionWords THEN 1 ELSE Min(above) - address

computeInstructionWords(code, InstructionAddress) ==
  LET ids == {code[k].id : k \in DOMAIN code} \cap DOMAIN InstructionAddress
      addresses == {InstructionAddress[x] : x \in ids}
  IN  [x \in ids |-> fetchWords(InstructionAddress[x], addresses)]

-----------------------------------------------------------------------------
isProvablyNonFRAMMemOperand(operand, FRAMStart, objects) ==
  \/ operand \in {"stack", "alloca"}
  \/ operand \in DOMAIN objects /\ objects[operand].addr < FRAMStart

framDataAccessWords(i, FRAMStart, objects) ==
  IF ~i.mayLoad /\ ~i.mayStore THEN 0
  ELSE IF i.mem = << >> THEN (IF i.mayLoad THEN 1 ELSE 0) + (IF i.mayStore THEN 1 ELSE 0)
  ELSE Cardinality({k \in DOMAIN i.mem : ~isProvablyNonFRAMMemOperand(i.mem[k], FRAMStart, objects)})

computeDataAccessWords(code, FRAMStart, objects) ==
  LET accesses == {k \in DOMAIN code : framDataAccessWords(code[k], FRAMStart, objects) > 0}
  IN  [x \in {code[k].id : k \in accesses} |->
         framDataAccessWords(code[CHOOSE k \in accesses : code[k].id = x], FRAMStart, objects)]
=============================================================================
