--------------------------- MODULE AddressResolver ---------------------------
(***************************************************************************)
(* AdressResolverPass::alignFunction: the machine instructions of a function  *)
(* are matched, in order, with the instructions the linked binary has for it. *)
(* Each takes the next one; an instruction the pass can encode is an anchor,  *)
(* and when its bytes are not what is next, a window ahead is searched for    *)
(* them.                                                                   *)
(*                                                                         *)
(* A function is a record of code, its machine instructions, and range, its   *)
(* part of the binary: records with addr, bytes and size.  A machine          *)
(* instruction is a record with id; kind, one of "code", "asm", "debug",      *)
(* "cfi" and "kill"; enc, the bytes and size the encoder gives it, or         *)
(* NoEncoding; and the truth the pass does not know, slot: the index in range *)
(* of the first instruction it became (of what follows it, if it became       *)
(* none).                                                                  *)
(***************************************************************************)
EXTENDS Naturals, Sequences

CONSTANTS
  Functions,      \* the functions of the module
  ResyncWindow,   \* how far an anchor is searched
  NoEncoding

ASSUME WindowAssumption == ResyncWindow \in Nat

\* Instructions have their own ids, and the entries of the range are sorted.
isFunction(f) ==
  /\ Len(f.code) \in Nat /\ DOMAIN f.code = 1 .. Len(f.code)
  /\ Len(f.range) \in Nat /\ DOMAIN f.range = 1 .. Len(f.range)
  /\ \A j, k \in DOMAIN f.code : f.code[j].id = f.code[k].id => j = k
  /\ \A r \in DOMAIN f.range : f.range[r].addr \in Nat
  /\ \A q, r \in DOMAIN f.range : q < r => f.range[q].addr < f.range[r].addr

ASSUME FunctionsAssumption == \A f \in Functions : isFunction(f)

VARIABLES
  F,                    \* the function
  pos,                  \* the machine instruction that is next
  DumpIdx,              \* the dump instruction that is next
  InstructionAddress,   \* of the TimingAnalysisResults: [id |-> address]
  Warnings,
  aligned               \* alignFunction has returned

avars == <<F, pos, DumpIdx, InstructionAddress, Warnings, aligned>>

noFunction == [code |-> << >>, range |-> << >>]

Init ==
  /\ F = noFunction
  /\ pos = 1 /\ DumpIdx = 1
  /\ InstructionAddress = << >>
  /\ Warnings = 0
  /\ aligned = TRUE

-----------------------------------------------------------------------------
mi == F.code[pos]

\* Mutant: every instruction but debug values takes an entry.
isCodeEmittingCFI(i) == i.kind # "debug"

isCodeEmitting(i) == i.kind \notin {"debug", "cfi"}

\* An anchor of the size of what is next.
isUsableAnchor(i, r) == i.enc # NoEncoding /\ i.enc.size = F.range[r].size

drifted == isUsableAnchor(mi, DumpIdx) /\ F.range[DumpIdx].bytes # mi.enc.bytes

\* Mutants: the search begins one entry too late, or behind the cursor.
matchesLate == {k \in DumpIdx + 2 .. DumpIdx + ResyncWindow :
                  k <= Len(F.range) /\ F.range[k].bytes = mi.enc.bytes}
matchesBehind == {k \in 1 .. DumpIdx + ResyncWindow :
                    k <= Len(F.range) /\ F.range[k].bytes = mi.enc.bytes}

matches == {k \in DumpIdx + 1 .. DumpIdx + ResyncWindow :
              k <= Len(F.range) /\ F.range[k].bytes = mi.enc.bytes}

setInstructionAddress(id, address) ==
  InstructionAddress' = [x \in DOMAIN InstructionAddress \cup {id} |->
                           IF x = id THEN address ELSE InstructionAddress[x]]

\* Mutant: the cursor counts words.
assignWords(r) ==
  /\ setInstructionAddress(mi.id, F.range[r].addr)
  /\ DumpIdx' = r + F.range[r].size

assign(r) ==
  /\ setInstructionAddress(mi.id, F.range[r].addr)
  /\ DumpIdx' = r + 1

atInstruction == ~aligned /\ pos <= Len(F.code)

SkipDirective ==
  /\ atInstruction /\ ~isCodeEmitting(mi)
  /\ pos' = pos + 1
  /\ UNCHANGED <<F, DumpIdx, InstructionAddress, Warnings, aligned>>

RunOut ==
  /\ atInstruction /\ isCodeEmitting(mi)
  /\ DumpIdx > Len(F.range)
  /\ Warnings' = Warnings + 1
  /\ pos' = pos + 1
  /\ UNCHANGED <<F, DumpIdx, InstructionAddress, aligned>>

takesNext == atInstruction /\ isCodeEmitting(mi) /\ DumpIdx <= Len(F.range)

AssignNext ==
  /\ takesNext /\ ~drifted
  /\ assign(DumpIdx)
  /\ pos' = pos + 1
  /\ UNCHANGED <<F, Warnings, aligned>>

Resync ==
  /\ takesNext /\ drifted
  /\ \E k \in matches : (\A j \in matches : k <= j) /\ assign(k)
  /\ Warnings' = Warnings + 1
  /\ pos' = pos + 1
  /\ UNCHANGED <<F, aligned>>

\* The anchor is nowhere: it is assigned by position after all.
Mismatch ==
  /\ takesNext /\ drifted /\ matches = {}
  /\ assign(DumpIdx)
  /\ Warnings' = Warnings + 1
  /\ pos' = pos + 1
  /\ UNCHANGED <<F, aligned>>

\* Mutant: entries left over go unnoticed.
FinishQuietly ==
  /\ ~aligned /\ pos = Len(F.code) + 1
  /\ aligned' = TRUE
  /\ UNCHANGED <<F, pos, DumpIdx, InstructionAddress, Warnings>>

Finish ==
  /\ ~aligned /\ pos = Len(F.code) + 1
  /\ Warnings' = IF DumpIdx # Len(F.range) + 1 THEN Warnings + 1 ELSE Warnings
  /\ aligned' = TRUE
  /\ UNCHANGED <<F, pos, DumpIdx, InstructionAddress>>

Align == SkipDirective \/ RunOut \/ AssignNext \/ Resync \/ Mismatch \/ Finish

\* The function is new to the pass.
enter(f) ==
  /\ F' = f
  /\ \A k \in DOMAIN f.code : f.code[k].id \notin DOMAIN InstructionAddress
  /\ pos' = 1 /\ DumpIdx' = 1 /\ Warnings' = 0
  /\ UNCHANGED InstructionAddress

AlignFunction == aligned /\ aligned' = FALSE /\ \E f \in Functions : enter(f)

Next == Align \/ AlignFunction

Spec == Init /\ [][Next]_avars

-----------------------------------------------------------------------------
\* What the linker makes of an instruction: KILL and its like become nothing.
emitsCode(i) == i.kind \notin {"debug", "cfi", "kill"}

(***************************************************************************)
(* What a function has to be for the resolver to be right about it: every    *)
(* instruction that takes an entry became one or more, in order, and what can  *)
(* be encoded became one with those bytes.                                  *)
(***************************************************************************)
Faithful(f) ==
  /\ \A k \in DOMAIN f.code : f.code[k].kind # "kill"
  /\ \A k \in DOMAIN f.code : emitsCode(f.code[k]) => f.code[k].slot \in DOMAIN f.range
  /\ \A j, k \in DOMAIN f.code :
       emitsCode(f.code[j]) /\ emitsCode(f.code[k]) /\ j < k => f.code[j].slot < f.code[k].slot
  /\ \A k \in DOMAIN f.code : emitsCode(f.code[k]) /\ f.code[k].enc # NoEncoding =>
       /\ f.range[f.code[k].slot].bytes = f.code[k].enc.bytes
       /\ f.range[f.code[k].slot].size = f.code[k].enc.size

\* Every entry is an instruction's own, or its first: there is no inline assembly.
OneToOne(f) ==
  Faithful(f) /\ \A r \in DOMAIN f.range : \E k \in DOMAIN f.code : emitsCode(f.code[k]) /\ f.code[k].slot = r

AddressTypeOK ==
  /\ pos \in 1 .. Len(F.code) + 1
  /\ DumpIdx \in 1 .. Len(F.range) + 1
  /\ Warnings \in Nat
  /\ aligned \in BOOLEAN

resolved(k) == k < pos /\ F.code[k].id \in DOMAIN InstructionAddress
addressOf(k) == InstructionAddress[F.code[k].id]
trueAddress(k) == F.range[F.code[k].slot].addr

(***************************************************************************)
(* A later instruction has a higher address: no two share one.  The fetch    *)
(* words of an instruction are the distance to the next address.            *)
(***************************************************************************)
AddressesIncrease ==
  \A j, k \in DOMAIN F.code : resolved(j) /\ resolved(k) /\ j < k => addressOf(j) < addressOf(k)

(***************************************************************************)
(* With a faithful function the cursor never runs ahead of the code: an       *)
(* address may be too low, but not too high.  The search goes forwards only,  *)
(* so what is ahead would stay so.                                          *)
(***************************************************************************)
NeverAhead ==
  Faithful(F) =>
    \A k \in DOMAIN F.code : emitsCode(F.code[k]) /\ resolved(k) => addressOf(k) <= trueAddress(k)

endsDrift(i, r) ==
  i.enc # NoEncoding /\ F.range[r].size = i.enc.size /\ F.range[r].bytes # i.enc.bytes

(***************************************************************************)
(* In a faithful function drift ends at the first anchor that can end it: one  *)
(* that is not where it belongs was given bytes like its own, or an entry of   *)
(* another size, or its own entry is out of the window.                     *)
(***************************************************************************)
DriftEndsAtAnchors ==
  Faithful(F) =>
    \A k \in DOMAIN F.code : emitsCode(F.code[k]) /\ resolved(k) =>
      \E r \in DOMAIN F.range :
        /\ addressOf(k) = F.range[r].addr
        /\ r # F.code[k].slot /\ endsDrift(F.code[k], r) => F.code[k].slot > r + ResyncWindow

(***************************************************************************)
(* A faithful function aligned without a warning is aligned right: every      *)
(* address is the true one, whatever number of entries its inline assembly became.     *)
(***************************************************************************)
SilentMeansExact ==
  Faithful(F) /\ aligned /\ Warnings = 0 =>
    \A k \in DOMAIN F.code : emitsCode(F.code[k]) => resolved(k) /\ addressOf(k) = trueAddress(k)

(***************************************************************************)
(* What emits no machine code has no dump entry: without inline assembly no   *)
(* address is wrong.  (The comment of isCodeEmitting.)                      *)
(***************************************************************************)
DirectivesTakeNothing ==
  (\A k \in DOMAIN F.code : F.code[k].kind # "asm") =>
    \A k \in DOMAIN F.code : emitsCode(F.code[k]) /\ resolved(k) => addressOf(k) = trueAddress(k)
=============================================================================
