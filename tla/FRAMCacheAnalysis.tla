------------------------- MODULE FRAMCacheAnalysis -------------------------
(***************************************************************************)
(* FRAMCacheAnalysisPass on a function: FRAMAccessMapper turns each        *)
(* instruction into cache events, CacheAnalysis::process runs the events   *)
(* of an instruction over the state, and the solver's loop over the block  *)
(* and its joins of predecessors put these together.  With the device cache *)
(* beside them these are the operators AnalysisSoundness is instantiated   *)
(* with.                                                                   *)
(*                                                                         *)
(* An instruction is a record: addr, its address in 16-bit words; resolved, *)
(* whether the address resolver found it; words, its length; data, the     *)
(* words of FRAM data it accesses; call, whether it is a call.             *)
(***************************************************************************)
EXTENDS DeviceCache, SequencesExt

CONSTANTS
  FRAMStart,       \* -fram-start, in words
  LineWords,       \* CacheGeometry::LineBytes / 2
  DataAccessCost   \* -fram-wait-states

ASSUME MapperAssumption ==
  /\ FRAMStart \in Nat
  /\ LineWords \in Nat \ {0} /\ isPow2(LineWords)
  /\ DataAccessCost \in Nat \ {0}

lineId(a) == a \div LineWords

(* The words of an instruction that the device fetches through the cache.  *)
framWords(i) == SelectSeq([w \in 1 .. i.words |-> i.addr + w - 1], LAMBDA a : a >= FRAMStart)

accesses(i) == LET fetched == framWords(i) IN [w \in DOMAIN fetched |-> Access(lineId(fetched[w]))]

barriers(i) == IF i.data > 0 THEN <<Barrier(DataAccessCost * i.data)>> ELSE <<>>

(* FRAMAccessMapper::mapEvents: an access per FRAM word of an instruction  *)
(* with an address, then a barrier for its FRAM data.                      *)
mapEvents(i) == (IF i.resolved THEN accesses(i) ELSE <<>>) \o barriers(i)

blockEvents(b) == FlattenSeq([k \in DOMAIN b |-> mapEvents(b[k])])

(* The loop over the instructions of a block: final state and summed cost. *)
processBlock(b, C) ==
  FoldLeft(LAMBDA acc, e : [state |-> eventState(acc.state, e),
                            cost  |-> acc.cost + eventCost(acc.state, e)],
           [state |-> C, cost |-> 0], blockEvents(b))

blockState(b, C) == processBlock(b, C).state

blockCost(b, C) == processBlock(b, C).cost

ascending(S) == SetToSortSeq(S, <)

(* Mutant of joinStates: only the first predecessor counts.                *)
joinStatesFirst(f) == f[Head(ascending(DOMAIN f))]

(* The first predecessor's state is cloned, the others are joined into it. *)
joinStates(f) ==
  LET preds == ascending(DOMAIN f)
  IN  FoldLeft(LAMBDA C, p : join(C, f[p]), f[Head(preds)], Tail(preds))

-----------------------------------------------------------------------------
(* The device running the same block: it waits a line fill for each fetch  *)
(* that misses and the wait states of each data word; data and callees may *)
(* leave any cache behind.                                                 *)
deviceEvents(i) == accesses(i) \o IF i.call THEN Append(barriers(i), Barrier(0)) ELSE barriers(i)

eventOutcomes(o, e) ==
  IF e.kind = "Access"
  THEN {[machine |-> h, cycles |-> o.cycles + IF deviceHit(o.machine, e.line) THEN 0 ELSE MissPenalty] :
          h \in deviceAccess(o.machine, e.line)}
  ELSE {[machine |-> h, cycles |-> o.cycles + e.cost] : h \in DeviceCaches}

blockOutcomes(b, h) ==
  FoldLeft(LAMBDA Os, e : UNION {eventOutcomes(o, e) : o \in Os},
           {[machine |-> h, cycles |-> 0]}, FlattenSeq([k \in DOMAIN b |-> deviceEvents(b[k])]))
=============================================================================
