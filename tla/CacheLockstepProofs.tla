------------------------- MODULE CacheLockstepProofs -------------------------
(***************************************************************************)
(* The must analysis under LRU on an LRU device, the must analysis under   *)
(* the UnknownPolicy on any device, and the may analysis under LRU on an   *)
(* LRU device that starts cold and has neither data accesses nor calls,    *)
(* for every geometry and every set of lines: proofs of TypeOK,            *)
(* StateDescribesDevice, WaitIsCharged and AlwaysMissMisses.               *)
(***************************************************************************)
EXTENDS CacheLockstep, CacheProofs

USE WaysAssumption

-----------------------------------------------------------------------------
(* The configurations in which the analysis is sound along a whole path.   *)
ColdLeaf == ColdStart /\ DataCosts = {} /\ ~Reentry

Sound == MustOnLru \/ MustOnAny \/ (MayOnLru /\ ColdLeaf)

LEMMA SoundIsMatched == Sound => Matched
BY DEF Sound, Matched

-----------------------------------------------------------------------------
(* A hit on the device is what the must analysis calls present, a miss is  *)
(* what the may analysis calls absent.                                     *)
Accounting == WaitIsCharged /\ AlwaysMissMisses

LockstepInv == TypeOK /\ StateDescribesDevice /\ Accounting

LEMMA FetchAccounting ==
  ASSUME Sound, LockstepInv, NEW l \in Lines, Fetch(l)
  PROVE  Accounting' /\ charged' \in Nat /\ spent' \in Nat
                     /\ reported' \in BOOLEAN /\ missed' \in BOOLEAN
<1>1. setIndex(l) \in Sets
  BY SetIndexLemma
<1>2. /\ charged' = eventCost(abs, Access(l))
      /\ spent' = IF deviceHit(hw, l) THEN 0 ELSE MissPenalty
      /\ reported' = eventReported(abs, Access(l))
      /\ missed' = ~deviceHit(hw, l)
  BY DEF Fetch
<1>3. MissPenalty \in Nat
  BY GeometryAssumption
<1>4. CASE Kind = "Must"
  <2>1. present(abs, l) => deviceHit(hw, l)
    BY <1>1, <1>4 DEF LockstepInv, StateDescribesDevice, describes, present, contains, deviceHit
  <2>2. charged' = (IF present(abs, l) THEN 0 ELSE MissPenalty) /\ reported' = FALSE
    BY <1>2, <1>4 DEF eventCost, eventReported, Access
  <2>3. missed' \in BOOLEAN
    BY <1>2 DEF deviceHit
  <2>4. charged' \in Nat /\ spent' \in Nat /\ charged' >= spent'
    <3>1. CASE deviceHit(hw, l)
      BY <3>1, <2>2, <1>2, <1>3
    <3>2. CASE ~deviceHit(hw, l)
      BY <3>2, <2>1, <2>2, <1>2, <1>3
    <3> QED BY <3>1, <3>2
  <2> QED BY <2>2, <2>3, <2>4 DEF Accounting, WaitIsCharged, AlwaysMissMisses
<1>5. CASE Kind # "Must"
  <2>1. Kind = "May"
    BY <1>5 DEF Sound, MustOnLru, MustOnAny, MayOnLru
  <2>2. deviceHit(hw, l) => present(abs, l)
    BY <1>1, <1>5 DEF LockstepInv, StateDescribesDevice, describes, present, contains, deviceHit
  <2>3. charged' = 0 /\ reported' = ~present(abs, l)
    BY <1>2, <2>1 DEF eventCost, eventReported, Access
  <2>4. missed' \in BOOLEAN /\ reported' \in BOOLEAN
    BY <1>2, <2>3 DEF deviceHit, present, contains
  <2>5. charged' \in Nat /\ spent' \in Nat
    BY <2>3, <1>2, <1>3
  <2>6. reported' => missed'
    BY <2>2, <2>3, <1>2
  <2> QED BY <1>5, <2>4, <2>5, <2>6 DEF Accounting, WaitIsCharged, AlwaysMissMisses
<1> QED BY <1>4, <1>5

LEMMA LockstepInit == Sound /\ Init => LockstepInv
<1> SUFFICES ASSUME Sound, Init PROVE LockstepInv
  OBVIOUS
<1>1. /\ abs = getInitialState /\ charged = 0 /\ spent = 0
      /\ reported = FALSE /\ missed = FALSE
      /\ hw \in IF ColdStart THEN {[s \in Sets |-> makeEmpty]} ELSE DeviceCaches
  BY DEF Init
<1>2. hw \in DeviceCaches
  BY <1>1, EmptyDevice
<1>3. TypeOK
  BY <1>1, <1>2, EmptyState DEF TypeOK
<1>4. StateDescribesDevice
  <2>1. CASE Kind = "Must"
    BY <2>1, <1>1, InitialDescribes DEF StateDescribesDevice
  <2>2. CASE Kind # "Must"
    BY <2>2, <1>1, InitialDescribes
       DEF StateDescribesDevice, Sound, MustOnLru, MustOnAny, MayOnLru, ColdLeaf
  <2> QED BY <2>1, <2>2
<1>5. Accounting
  BY <1>1 DEF Accounting, WaitIsCharged, AlwaysMissMisses
<1> QED BY <1>3, <1>4, <1>5 DEF LockstepInv

LEMMA LockstepStep == Sound /\ LockstepInv /\ [Next]_vars => LockstepInv'
<1> SUFFICES ASSUME Sound, LockstepInv, [Next]_vars PROVE LockstepInv'
  OBVIOUS
<1>1. abs \in CacheStates /\ hw \in DeviceCaches /\ describes(abs, hw)
  BY DEF LockstepInv, TypeOK, StateDescribesDevice
<1>2. ASSUME NEW l \in Lines, Fetch(l) PROVE LockstepInv'
  <2>1. abs' = access(abs, l) /\ hw' \in deviceAccess(hw, l)
    BY <1>2 DEF Fetch, eventState, Access
  <2>2. abs' \in CacheStates /\ hw' \in DeviceCaches
    BY <2>1, <1>1, AccessType, DeviceAccessLemma
  <2>3. describes(abs, hw)'
    BY <2>1, <1>1, AccessDescribes, SoundIsMatched
  <2> QED BY <2>2, <2>3, <1>2, FetchAccounting DEF LockstepInv, TypeOK, StateDescribesDevice
<1>3. ASSUME NEW c \in DataCosts, DataAccess(c) PROVE LockstepInv'
  <2>1. Kind = "Must"
    BY <1>3 DEF Sound, MustOnLru, MustOnAny, ColdLeaf
  <2>2. c \in Nat
    BY PathAssumption
  <2>3. /\ abs' = getInitialState /\ hw' \in DeviceCaches
        /\ charged' = c /\ spent' = c /\ reported' = FALSE /\ missed' = FALSE
    BY <1>3, <2>1 DEF DataAccess, eventState, eventCost, eventReported, Barrier, barrier,
                      getInitialState
  <2>4. TypeOK'
    BY <2>2, <2>3, EmptyState DEF TypeOK
  <2>5. StateDescribesDevice'
    BY <2>1, <2>3, InitialDescribes DEF StateDescribesDevice
  <2>6. Accounting'
    BY <2>2, <2>3 DEF Accounting, WaitIsCharged, AlwaysMissMisses
  <2> QED BY <2>4, <2>5, <2>6 DEF LockstepInv
<1>4. ASSUME NEW other \in OtherPaths, Merge(other) PROVE LockstepInv'
  <2>1. other \in CacheStates
    BY DEF OtherPaths
  <2>2. /\ abs' \in {join(abs, other), join(other, abs)} /\ hw' = hw
        /\ charged' = 0 /\ spent' = 0 /\ reported' = FALSE /\ missed' = FALSE
    BY <1>4 DEF Merge
  <2>3. TypeOK'
    BY <2>1, <2>2, <1>1, MergeType DEF TypeOK
  <2>4. StateDescribesDevice'
    BY <2>1, <2>2, <1>1, MergeDescribes, SoundIsMatched DEF StateDescribesDevice
  <2>5. Accounting'
    BY <2>2 DEF Accounting, WaitIsCharged, AlwaysMissMisses
  <2> QED BY <2>3, <2>4, <2>5 DEF LockstepInv
<1>5. CASE EnterFunction
  <2>1. Kind = "Must"
    BY <1>5 DEF EnterFunction, Sound, MustOnLru, MustOnAny, ColdLeaf
  <2>2. /\ abs' = getInitialState /\ hw' = hw
        /\ charged' = 0 /\ spent' = 0 /\ reported' = FALSE /\ missed' = FALSE
    BY <1>5 DEF EnterFunction
  <2>3. TypeOK'
    BY <2>2, <1>1, EmptyState DEF TypeOK
  <2>4. StateDescribesDevice'
    BY <2>1, <2>2, InitialDescribes DEF StateDescribesDevice
  <2>5. Accounting'
    BY <2>2 DEF Accounting, WaitIsCharged, AlwaysMissMisses
  <2> QED BY <2>3, <2>4, <2>5 DEF LockstepInv
<1>6. CASE UNCHANGED vars
  BY <1>6 DEF vars, LockstepInv, TypeOK, StateDescribesDevice, Accounting, WaitIsCharged,
              AlwaysMissMisses
<1> QED BY <1>2, <1>3, <1>4, <1>5, <1>6 DEF Next

LEMMA LockstepInvariance == ASSUME Sound PROVE Spec => []LockstepInv
<1>1. Init => LockstepInv
  BY LockstepInit
<1>2. LockstepInv /\ [Next]_vars => LockstepInv'
  BY LockstepStep
<1> QED BY <1>1, <1>2, PTL DEF Spec

(* In a sound configuration the abstract state only ever has lines in      *)
(* their own set at ages below the associativity, and the device distinct  *)
(* positions.                                                              *)
THEOREM LockstepTypes == ASSUME Sound PROVE Spec => []TypeOK
<1>1. LockstepInv => TypeOK
  BY DEF LockstepInv
<1> QED BY <1>1, LockstepInvariance, PTL

(* In a sound configuration the abstract state describes the device at     *)
(* every point of every path, for every geometry and set of lines.         *)
THEOREM StateAlwaysDescribes == ASSUME Sound PROVE Spec => []StateDescribesDevice
<1>1. LockstepInv => StateDescribesDevice
  BY DEF LockstepInv
<1> QED BY <1>1, LockstepInvariance, PTL

(* -fram-cache-policy=lru charges every wait of a device that replaces by  *)
(* LRU: starting from any cache, with data accesses and merges.            *)
THEOREM LruMustCharges == ASSUME MustOnLru PROVE Spec => []WaitIsCharged
<1>1. Sound
  BY DEF Sound
<1>2. LockstepInv => WaitIsCharged
  BY DEF LockstepInv, Accounting
<1> QED BY <1>1, <1>2, LockstepInvariance, PTL

(* The default -fram-cache-policy=unknown charges every wait of a device   *)
(* with any of the replacements modelled: LRU, FIFO, or one that may evict *)
(* any line whenever it misses.                                            *)
THEOREM UnknownMustCharges == ASSUME MustOnAny PROVE Spec => []WaitIsCharged
<1>1. Sound
  BY DEF Sound
<1>2. LockstepInv => WaitIsCharged
  BY DEF LockstepInv, Accounting
<1> QED BY <1>1, <1>2, LockstepInvariance, PTL

(* -fram-cache-verbose reports only misses, when the device replaces by    *)
(* LRU and the function starts on a cold cache, makes no FRAM data access  *)
(* and is all that runs.                                                   *)
THEOREM LruMayReports == ASSUME MayOnLru, ColdLeaf PROVE Spec => []AlwaysMissMisses
<1>1. Sound
  BY DEF Sound
<1>2. LockstepInv => AlwaysMissMisses
  BY DEF LockstepInv, Accounting
<1> QED BY <1>1, <1>2, LockstepInvariance, PTL
=============================================================================
