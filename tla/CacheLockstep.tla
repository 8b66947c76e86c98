--------------------------- MODULE CacheLockstep ---------------------------
(***************************************************************************)
(* One execution path through a function, followed in lock step by the     *)
(* cache of the device and by the abstract CacheState the analysis         *)
(* computes for that path.  It is what makes the cache analysis correct:   *)
(* an access the must analysis calls a hit is a hit on the device, and an  *)
(* access the may analysis reports as an always-miss misses.               *)
(***************************************************************************)
EXTENDS DeviceCache

CONSTANTS
  ColdStart,  \* TRUE when the path starts on an empty device cache
  DataCosts,  \* the wait-state costs of the FRAM data accesses the path may make
  Reentry     \* TRUE when the path may go on in a function analysed on its own

ASSUME PathAssumption ==
  /\ ColdStart \in BOOLEAN
  /\ DataCosts \subseteq Nat
  /\ Reentry \in BOOLEAN

VARIABLES
  hw,        \* the device: for every set, the position of each resident line
  abs,       \* the abstract state the analysis has at this point of the path
  charged,   \* cycles the analysis charges for the last event
  spent,     \* cycles the device waits in it
  reported,  \* the analysis reported the last event as an always-miss
  missed     \* the last event was a fetch that missed on the device

vars == <<hw, abs, charged, spent, reported, missed>>

-----------------------------------------------------------------------------
(* The states another path can bring to a control-flow merge.              *)
OtherPaths == {C \in CacheStates : \E h \in DeviceCaches : describes(C, h)}

Init ==
  /\ hw \in IF ColdStart THEN {[s \in Sets |-> makeEmpty]} ELSE DeviceCaches
  /\ abs = getInitialState
  /\ charged = 0 /\ spent = 0
  /\ reported = FALSE /\ missed = FALSE

(* An instruction fetch from line l.                                       *)
Fetch(l) ==
  /\ abs' = eventState(abs, Access(l))
  /\ hw' \in deviceAccess(hw, l)
  /\ charged' = eventCost(abs, Access(l))
  /\ spent' = IF deviceHit(hw, l) THEN 0 ELSE MissPenalty
  /\ reported' = eventReported(abs, Access(l))
  /\ missed' = ~deviceHit(hw, l)

(* A data access that may be to FRAM: the device waits c cycles, and it    *)
(* may load or evict any line.                                             *)
DataAccess(c) ==
  /\ abs' = eventState(abs, Barrier(c))
  /\ hw' \in DeviceCaches
  /\ charged' = eventCost(abs, Barrier(c))
  /\ spent' = c
  /\ reported' = eventReported(abs, Barrier(c))
  /\ missed' = FALSE

(* The path reaches a block with a second predecessor, whose out state the *)
(* solver joins into the state of this path, on either side.               *)
Merge(other) ==
  /\ abs' \in {join(abs, other), join(other, abs)}
  /\ charged' = 0 /\ spent' = 0
  /\ reported' = FALSE /\ missed' = FALSE
  /\ UNCHANGED hw

(* The path enters a function: its analysis starts from the initial state, *)
(* whatever the caller left in the cache.                                  *)
EnterFunction ==
  /\ Reentry
  /\ abs' = getInitialState
  /\ charged' = 0 /\ spent' = 0
  /\ reported' = FALSE /\ missed' = FALSE
  /\ UNCHANGED hw

Next ==
  \/ \E l \in Lines : Fetch(l)
  \/ \E c \in DataCosts : DataAccess(c)
  \/ \E other \in OtherPaths : Merge(other)
  \/ EnterFunction

Spec == Init /\ [][Next]_vars

-----------------------------------------------------------------------------
(* The variables have their types: in particular the abstract state only   *)
(* ever has lines in their own set, at ages below the associativity.       *)
TypeOK ==
  /\ hw \in DeviceCaches
  /\ abs \in CacheStates
  /\ charged \in Nat /\ spent \in Nat
  /\ reported \in BOOLEAN /\ missed \in BOOLEAN

(* The abstract state describes the device at every point of the path:     *)
(* must ages bound the positions from above (a present line is resident),  *)
(* may ages bound them from below (an absent line is not resident), through *)
(* hits, misses, evictions, data accesses and merges.                      *)
StateDescribesDevice == describes(abs, hw)

(* Every cycle the device waits for the FRAM is charged: an access that is *)
(* free for the must analysis hits (CacheAnalysis.h, "each Access not      *)
(* provably a hit costs MissPenalty cycles").                              *)
WaitIsCharged == Kind = "Must" => charged >= spent

(* An access reported as an always-miss never hits.                        *)
AlwaysMissMisses == reported => missed
=============================================================================
