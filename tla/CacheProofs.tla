---------------------------- MODULE CacheProofs ----------------------------
(***************************************************************************)
(* One event and one join of the cache analysis, for every geometry and    *)
(* every set of lines: abstract states and device caches keep their types, *)
(* and what describes the device before describes it afterwards.           *)
(***************************************************************************)
EXTENDS DeviceCache, FiniteSetTheorems, TLAPS

USE WaysAssumption

-----------------------------------------------------------------------------
(* Types: an age map is a function from some of the lines to the ages.     *)
LEMMA AgeMapsLemma ==
  ASSUME NEW L, NEW S
  PROVE  S \in AgeMaps(L) <=> DOMAIN S \subseteq L /\ S \in [DOMAIN S -> Ages]
BY DEF AgeMaps

LEMMA EmptyLemma == makeEmpty \in [{} -> Ages] /\ DOMAIN makeEmpty = {}
BY DEF makeEmpty

LEMMA SetIndexLemma == \A l \in Lines : setIndex(l) \in Sets /\ l \in LinesOf(setIndex(l))
<1>1. \A l \in Nat : l % NumSets \in 0 .. NumSets - 1
  BY GeometryAssumption
<1> QED BY <1>1, GeometryAssumption DEF setIndex, Sets, LinesOf

(* A cache state is a function that gives each set a state of its lines.   *)
LEMMA CacheStateIntro ==
  ASSUME NEW C, C = [s \in Sets |-> C[s]], \A s \in Sets : C[s] \in SetStates(LinesOf(s))
  PROVE  C \in CacheStates
BY DEF CacheStates

LEMMA DeviceCacheIntro ==
  ASSUME NEW h, h = [s \in Sets |-> h[s]], \A s \in Sets : h[s] \in SetContents(s)
  PROVE  h \in DeviceCaches
BY DEF DeviceCaches

LEMMA EmptyState == getInitialState \in CacheStates
<1>1. makeEmpty \in AgeMaps({})
  BY AgeMapsLemma, EmptyLemma
<1>2. \A s \in Sets : makeEmpty \in SetStates(LinesOf(s))
  BY AgeMapsLemma, EmptyLemma DEF SetStates
<1> QED BY <1>2, CacheStateIntro DEF getInitialState

-----------------------------------------------------------------------------
(* A set keeps its type under insertion, update and meet.                  *)
LEMMA InsertMissType ==
  ASSUME NEW L, NEW S \in AgeMaps(L), NEW l \in L
  PROVE  insertMiss(S, l) \in AgeMaps(L)
<1>1. DOMAIN S \subseteq L /\ S \in [DOMAIN S -> Ages]
  BY AgeMapsLemma
<1> DEFINE T == insertMiss(S, l)
<1>2. DOMAIN T \subseteq L /\ T \in [DOMAIN T -> Ages]
  BY <1>1 DEF insertMiss, Ages
<1> QED BY <1>2, AgeMapsLemma

LEMMA UpdateType ==
  ASSUME NEW L, NEW S \in SetStates(L), NEW l \in L
  PROVE  update(S, l) \in SetStates(L)
<1>1. CASE Policy = "unknown"
  <2>1. unknownUpdate(S, l) \in AgeMaps(L)
    BY AgeMapsLemma DEF unknownUpdate, Ages
  <2> QED BY <1>1, <2>1 DEF update, SetStates, unknownUpdate
<1>2. CASE Policy = "lru"
  <2>1. S \in AgeMaps(L)
    BY <1>2 DEF SetStates
  <2>2. lruUpdate(S, l) \in AgeMaps(L)
    <3>1. DOMAIN S \subseteq L /\ S \in [DOMAIN S -> Ages]
      BY <2>1, AgeMapsLemma
    <3>2. CASE l \in DOMAIN S
      <4> DEFINE T == lruUpdate(S, l)
      <4>1. DOMAIN T \subseteq L /\ T \in [DOMAIN T -> Ages]
        BY <3>1, <3>2 DEF lruUpdate, contains, Ages
      <4> QED BY <4>1, AgeMapsLemma
    <3>3. CASE l \notin DOMAIN S
      BY <3>3, <2>1, InsertMissType DEF lruUpdate, contains
    <3> QED BY <3>2, <3>3
  <2> QED BY <1>2, <2>2 DEF update, SetStates
<1>3. CASE Policy = "fifo"
  <2>1. S \in AgeMaps(L)
    BY <1>3 DEF SetStates
  <2>2. fifoUpdate(S, l) \in AgeMaps(L)
    BY <2>1, InsertMissType DEF fifoUpdate
  <2> QED BY <1>3, <2>2 DEF update, SetStates
<1> QED BY <1>1, <1>2, <1>3, PolicyAssumption

LEMMA JoinType ==
  ASSUME NEW L, NEW S \in SetStates(L), NEW T \in SetStates(L)
  PROVE  joinSet(S, T) \in SetStates(L)
<1>1. S \in AgeMaps(L) /\ T \in AgeMaps(L)
  BY DEF SetStates
<1>2. /\ DOMAIN S \subseteq L /\ S \in [DOMAIN S -> Ages]
      /\ DOMAIN T \subseteq L /\ T \in [DOMAIN T -> Ages]
  BY <1>1, AgeMapsLemma
<1>3. mustJoin(S, T) \in AgeMaps(L)
  <2> DEFINE J == mustJoin(S, T)
  <2>1. DOMAIN J \subseteq L /\ J \in [DOMAIN J -> Ages]
    BY <1>2 DEF mustJoin, Greater, Ages
  <2> QED BY <2>1, AgeMapsLemma
<1>4. mayJoin(S, T) \in AgeMaps(L)
  <2> DEFINE J == mayJoin(S, T)
  <2>1. DOMAIN J \subseteq L /\ J \in [DOMAIN J -> Ages]
    BY <1>2 DEF mayJoin, Lesser, Ages
  <2> QED BY <2>1, AgeMapsLemma
<1>5. CASE Policy = "unknown"
  <2>1. Kind = "Must"
    BY <1>5, PolicyAssumption DEF Supported
  <2>2. mustJoin(S, T) \in SetStates(L)
    BY <1>3, <1>5 DEF SetStates, mustJoin, Greater
  <2> QED BY <2>1, <2>2 DEF joinSet
<1>6. CASE Policy # "unknown"
  BY <1>3, <1>4, <1>6 DEF joinSet, SetStates
<1> QED BY <1>5, <1>6

(* The whole cache keeps its type.                                         *)
LEMMA AccessType ==
  ASSUME NEW C \in CacheStates, NEW l \in Lines
  PROVE  access(C, l) \in CacheStates
<1>1. setIndex(l) \in Sets /\ l \in LinesOf(setIndex(l))
  BY SetIndexLemma
<1>2. C = [s \in Sets |-> C[s]] /\ \A s \in Sets : C[s] \in SetStates(LinesOf(s))
  BY DEF CacheStates
<1> DEFINE D == access(C, l)
<1>3. /\ D = [s \in Sets |-> D[s]]
      /\ D[setIndex(l)] = update(C[setIndex(l)], l)
      /\ \A s \in Sets : s # setIndex(l) => D[s] = C[s]
  BY <1>1, <1>2 DEF access
<1>4. \A s \in Sets : D[s] \in SetStates(LinesOf(s))
  BY <1>1, <1>2, <1>3, UpdateType
<1> HIDE DEF D
<1>5. D \in CacheStates
  BY <1>3, <1>4, CacheStateIntro
<1> QED BY <1>5 DEF D

LEMMA MergeType ==
  ASSUME NEW C \in CacheStates, NEW D \in CacheStates
  PROVE  join(C, D) \in CacheStates
<1> DEFINE J == join(C, D)
<1>1. \A s \in Sets : J[s] = joinSet(C[s], D[s]) /\ J[s] \in SetStates(LinesOf(s))
  BY JoinType DEF join, CacheStates
<1>2. J = [s \in Sets |-> J[s]]
  BY DEF join
<1> QED BY <1>1, <1>2, CacheStateIntro

-----------------------------------------------------------------------------
(* The device keeps distinct positions.                                    *)
LEMMA PushFrontType ==
  ASSUME NEW L, NEW S \in AgeMaps(L), Injective(S), NEW l \in L, l \notin DOMAIN S
  PROVE  pushFront(S, l) \in AgeMaps(L) /\ Injective(pushFront(S, l))
<1>1. DOMAIN S \subseteq L /\ S \in [DOMAIN S -> Ages]
  BY AgeMapsLemma
<1> DEFINE T == pushFront(S, l)
<1>2. DOMAIN T \subseteq L /\ T \in [DOMAIN T -> Ages]
  BY <1>1 DEF pushFront, Ages
<1>3. Injective(T)
  BY <1>1 DEF Injective, pushFront, Ages
<1> QED BY <1>2, <1>3, AgeMapsLemma

LEMMA MoveToFrontType ==
  ASSUME NEW L, NEW S \in AgeMaps(L), Injective(S), NEW l \in DOMAIN S
  PROVE  moveToFront(S, l) \in AgeMaps(L) /\ Injective(moveToFront(S, l))
<1>1. DOMAIN S \subseteq L /\ S \in [DOMAIN S -> Ages]
  BY AgeMapsLemma
<1> DEFINE T == moveToFront(S, l)
<1>2. /\ DOMAIN T = DOMAIN S
      /\ \A m \in DOMAIN S : T[m] = IF m = l THEN 0
                                    ELSE IF S[m] < S[l] THEN S[m] + 1 ELSE S[m]
  BY <1>1 DEF moveToFront, Ages
<1>3. T \in [DOMAIN T -> Ages]
  BY <1>1 DEF moveToFront, Ages
<1>4. Injective(T)
  <2> SUFFICES ASSUME NEW m \in DOMAIN S, NEW k \in DOMAIN S, T[m] = T[k]
               PROVE  m = k
    BY <1>2 DEF Injective
  <2>1. S[m] \in Nat /\ S[k] \in Nat /\ S[l] \in Nat
    BY <1>1 DEF Ages
  <2>2. m # l => S[m] # S[l]
    BY DEF Injective
  <2>3. k # l => S[k] # S[l]
    BY DEF Injective
  <2>4. S[m] = S[k] => m = k
    BY DEF Injective
  <2> HIDE DEF T
  <2> QED BY <2>1, <2>2, <2>3, <2>4, <1>2
<1> QED BY <1>1, <1>2, <1>3, <1>4, AgeMapsLemma

LEMMA DeviceSetType ==
  ASSUME NEW s \in Sets, NEW S \in SetContents(s), NEW l \in LinesOf(s),
         NEW T \in deviceSets(s, S, l)
  PROVE  T \in SetContents(s)
<1>1. CASE Device = "any"
  BY <1>1 DEF deviceSets
<1>2. CASE Device # "any"
  <2>1. S \in AgeMaps(LinesOf(s)) /\ Injective(S)
    BY <1>2 DEF SetContents
  <2>2. T = S \/ (l \in DOMAIN S /\ T = moveToFront(S, l))
              \/ (l \notin DOMAIN S /\ T = pushFront(S, l))
    BY <1>2, DeviceAssumption DEF deviceSets
  <2>3. T \in AgeMaps(LinesOf(s)) /\ Injective(T)
    BY <2>1, <2>2, PushFrontType, MoveToFrontType
  <2> QED BY <1>2, <2>3 DEF SetContents
<1> QED BY <1>1, <1>2

(* What an access does to the device: only the set of the line changes.    *)
LEMMA DeviceAccessLemma ==
  ASSUME NEW h \in DeviceCaches, NEW l \in Lines, NEW g \in deviceAccess(h, l)
  PROVE  /\ g \in DeviceCaches
         /\ g[setIndex(l)] \in deviceSets(setIndex(l), h[setIndex(l)], l)
         /\ \A s \in Sets : s # setIndex(l) => g[s] = h[s]
<1>1. setIndex(l) \in Sets /\ l \in LinesOf(setIndex(l))
  BY SetIndexLemma
<1>2. h = [s \in Sets |-> h[s]] /\ \A s \in Sets : h[s] \in SetContents(s)
  BY DEF DeviceCaches
<1>3. PICK T \in deviceSets(setIndex(l), h[setIndex(l)], l) : g = [h EXCEPT ![setIndex(l)] = T]
  BY DEF deviceAccess
<1>4. /\ g = [s \in Sets |-> g[s]]
      /\ g[setIndex(l)] = T
      /\ \A s \in Sets : s # setIndex(l) => g[s] = h[s]
  BY <1>1, <1>2, <1>3
<1>5. \A s \in Sets : g[s] \in SetContents(s)
  BY <1>1, <1>2, <1>4, DeviceSetType
<1> QED BY <1>4, <1>5, DeviceCacheIntro

LEMMA EmptyDevice == [s \in Sets |-> makeEmpty] \in DeviceCaches
<1>1. ASSUME NEW s \in Sets PROVE makeEmpty \in SetContents(s)
  <2>1. CASE Device = "any"
    <3>1. Cardinality({}) <= Ways
      BY FS_EmptySet
    <3>2. ranked({}) = makeEmpty
      BY DEF ranked, makeEmpty
    <3> QED BY <2>1, <3>1, <3>2 DEF SetContents
  <2>2. CASE Device # "any"
    BY <2>2, AgeMapsLemma, EmptyLemma DEF SetContents, Injective
  <2> QED BY <2>1, <2>2
<1> QED BY <1>1, DeviceCacheIntro

(* Positions and ages are natural numbers below Ways.                      *)
LEMMA AgesOfState ==
  ASSUME NEW C \in CacheStates, NEW s \in Sets
  PROVE  \A l \in DOMAIN C[s] : C[s][l] \in Ages
<1>1. C[s] \in AgeMaps(LinesOf(s))
  BY DEF CacheStates, SetStates
<1> QED BY <1>1, AgeMapsLemma

LEMMA PositionsOfDevice ==
  ASSUME NEW h \in DeviceCaches, NEW s \in Sets, Device # "any"
  PROVE  \A l \in DOMAIN h[s] : h[s][l] \in Ages
<1>1. h[s] \in AgeMaps(LinesOf(s))
  BY DEF DeviceCaches, SetContents
<1> QED BY <1>1, AgeMapsLemma

-----------------------------------------------------------------------------
(* One set, one access.  Must ages bound positions from above, may ages    *)
(* from below; the access keeps both.                                      *)
bounds(A, S) == \A m \in DOMAIN A : m \in DOMAIN S /\ S[m] <= A[m]

underBounds(A, S) == \A m \in DOMAIN S : m \in DOMAIN A /\ A[m] <= S[m]

lruDevice(S, l) == IF l \in DOMAIN S THEN moveToFront(S, l) ELSE pushFront(S, l)

LEMMA LruDeviceLemma ==
  ASSUME NEW S, S \in [DOMAIN S -> Ages], NEW l
  PROVE  /\ l \in DOMAIN lruDevice(S, l) /\ lruDevice(S, l)[l] = 0
         /\ \A m \in DOMAIN lruDevice(S, l) : m # l => m \in DOMAIN S
         /\ l \in DOMAIN S =>
              /\ DOMAIN lruDevice(S, l) = DOMAIN S
              /\ \A m \in DOMAIN S : m # l =>
                   lruDevice(S, l)[m] = IF S[m] < S[l] THEN S[m] + 1 ELSE S[m]
         /\ l \notin DOMAIN S =>
              \A m \in DOMAIN S :
                /\ m \in DOMAIN lruDevice(S, l) <=> S[m] + 1 < Ways
                /\ m \in DOMAIN lruDevice(S, l) => lruDevice(S, l)[m] = S[m] + 1
<1>1. CASE l \in DOMAIN S
  BY <1>1 DEF lruDevice, moveToFront, Ages
<1>2. CASE l \notin DOMAIN S
  BY <1>2 DEF lruDevice, pushFront, Ages
<1> QED BY <1>1, <1>2

LEMMA LruUpdateLemma ==
  ASSUME NEW A, A \in [DOMAIN A -> Ages], NEW l
  PROVE  /\ l \in DOMAIN lruUpdate(A, l) /\ lruUpdate(A, l)[l] = 0
         /\ \A m \in DOMAIN lruUpdate(A, l) : m # l => m \in DOMAIN A
         /\ l \in DOMAIN A =>
              /\ DOMAIN lruUpdate(A, l) = DOMAIN A
              /\ \A m \in DOMAIN A : m # l =>
                   lruUpdate(A, l)[m] = IF A[m] < A[l] THEN A[m] + 1 ELSE A[m]
         /\ l \notin DOMAIN A =>
              \A m \in DOMAIN A :
                /\ m \in DOMAIN lruUpdate(A, l) <=> A[m] + 1 < Ways
                /\ m \in DOMAIN lruUpdate(A, l) => lruUpdate(A, l)[m] = A[m] + 1
<1>1. CASE l \in DOMAIN A
  BY <1>1 DEF lruUpdate, contains, Ages
<1>2. CASE l \notin DOMAIN A
  BY <1>2 DEF lruUpdate, contains, insertMiss, Ages
<1> QED BY <1>1, <1>2

LEMMA LruMustSet ==
  ASSUME NEW A, A \in [DOMAIN A -> Ages], NEW S, S \in [DOMAIN S -> Ages], NEW l,
         bounds(A, S)
  PROVE  bounds(lruUpdate(A, l), lruDevice(S, l))
<1> DEFINE B == lruUpdate(A, l)
           T == lruDevice(S, l)
<1> SUFFICES ASSUME NEW m \in DOMAIN B
             PROVE  m \in DOMAIN T /\ T[m] <= B[m]
  BY DEF bounds
<1>1. CASE m = l
  BY <1>1, LruDeviceLemma, LruUpdateLemma
<1>2. CASE m # l
  <2>1. /\ m \in DOMAIN A /\ m \in DOMAIN S
        /\ S[m] <= A[m] /\ S[m] \in Nat /\ A[m] \in Nat
    BY <1>2, LruUpdateLemma DEF bounds, Ages
  <2>2. CASE l \in DOMAIN A
    <3>1. l \in DOMAIN S /\ S[l] <= A[l] /\ S[l] \in Nat /\ A[l] \in Nat
      BY <2>2 DEF bounds, Ages
    <3>2. B[m] = IF A[m] < A[l] THEN A[m] + 1 ELSE A[m]
      BY <1>2, <2>1, <2>2, LruUpdateLemma
    <3>3. m \in DOMAIN T /\ T[m] = IF S[m] < S[l] THEN S[m] + 1 ELSE S[m]
      BY <1>2, <2>1, <3>1, LruDeviceLemma
    <3> HIDE DEF B, T
    <3> QED BY <2>1, <3>1, <3>2, <3>3
  <2>3. CASE l \notin DOMAIN A
    <3>1. A[m] + 1 < Ways /\ B[m] = A[m] + 1
      BY <1>2, <2>1, <2>3, LruUpdateLemma
    <3>2. m \in DOMAIN T /\ T[m] \in {S[m], S[m] + 1}
      <4>1. S[m] + 1 < Ways
        <5> HIDE DEF B, T
        <5> QED BY <2>1, <3>1
      <4> QED BY <1>2, <2>1, <4>1, LruDeviceLemma
    <3> HIDE DEF B, T
    <3> QED BY <2>1, <3>1, <3>2
  <2> QED BY <2>2, <2>3
<1> QED BY <1>1, <1>2

LEMMA LruMaySet ==
  ASSUME NEW A, A \in [DOMAIN A -> Ages], NEW S, S \in [DOMAIN S -> Ages], NEW l,
         underBounds(A, S)
  PROVE  underBounds(lruUpdate(A, l), lruDevice(S, l))
<1> DEFINE B == lruUpdate(A, l)
           T == lruDevice(S, l)
<1> SUFFICES ASSUME NEW m \in DOMAIN T
             PROVE  m \in DOMAIN B /\ B[m] <= T[m]
  BY DEF underBounds
<1>1. CASE m = l
  BY <1>1, LruDeviceLemma, LruUpdateLemma
<1>2. CASE m # l
  <2>1. /\ m \in DOMAIN A /\ m \in DOMAIN S
        /\ A[m] <= S[m] /\ S[m] \in Nat /\ A[m] \in Nat
    BY <1>2, LruDeviceLemma DEF underBounds, Ages
  <2>2. CASE l \in DOMAIN S
    <3>1. l \in DOMAIN A /\ A[l] <= S[l] /\ S[l] \in Nat /\ A[l] \in Nat
      BY <2>2 DEF underBounds, Ages
    <3>2. m \in DOMAIN B /\ B[m] = IF A[m] < A[l] THEN A[m] + 1 ELSE A[m]
      BY <1>2, <2>1, <3>1, LruUpdateLemma
    <3>3. T[m] = IF S[m] < S[l] THEN S[m] + 1 ELSE S[m]
      BY <1>2, <2>1, <2>2, LruDeviceLemma
    <3> HIDE DEF B, T
    <3> QED BY <2>1, <3>1, <3>2, <3>3
  <2>3. CASE l \notin DOMAIN S
    <3>1. S[m] + 1 < Ways /\ T[m] = S[m] + 1
      BY <1>2, <2>1, <2>3, LruDeviceLemma
    <3>2. m \in DOMAIN B /\ B[m] \in {A[m], A[m] + 1}
      <4>1. A[m] + 1 < Ways
        <5> HIDE DEF B, T
        <5> QED BY <2>1, <3>1
      <4> QED BY <1>2, <2>1, <4>1, LruUpdateLemma
    <3> HIDE DEF B, T
    <3> QED BY <2>1, <3>1, <3>2
  <2> QED BY <2>2, <2>3
<1> QED BY <1>1, <1>2

-----------------------------------------------------------------------------
(* The configurations in which one event keeps state and device together.  *)
MustOnLru == Kind = "Must" /\ Policy = "lru" /\ Device = "lru"

MustOnAny == Kind = "Must" /\ Policy = "unknown"

MayOnLru == Kind = "May" /\ Policy = "lru" /\ Device = "lru"

Matched == MustOnLru \/ MustOnAny \/ MayOnLru

LEMMA AccessDescribes ==
  ASSUME Matched, NEW C \in CacheStates, NEW h \in DeviceCaches, describes(C, h),
         NEW l \in Lines, NEW g \in deviceAccess(h, l)
  PROVE  describes(access(C, l), g)
<1> DEFINE s == setIndex(l)
           D == access(C, l)
<1>1. s \in Sets
  BY SetIndexLemma
<1>2. /\ D[s] = update(C[s], l)
      /\ \A t \in Sets : t # s => D[t] = C[t]
  BY <1>1 DEF access, CacheStates
<1>3. /\ g[s] \in deviceSets(s, h[s], l)
      /\ \A t \in Sets : t # s => g[t] = h[t]
  BY DeviceAccessLemma
<1>4. C[s] \in [DOMAIN C[s] -> Ages]
  <2>1. C[s] \in AgeMaps(LinesOf(s))
    BY <1>1 DEF CacheStates, SetStates
  <2> QED BY <2>1, AgeMapsLemma
<1> HIDE DEF D, s
<1>5. ASSUME MustOnAny PROVE describes(D, g)
  <2>1. DOMAIN D[s] = {l} /\ l \in DOMAIN g[s]
    <3>1. DOMAIN D[s] = {l}
      BY <1>2, <1>5 DEF MustOnAny, update, unknownUpdate
    <3>2. l \in DOMAIN g[s]
      BY <1>3, DeviceAssumption DEF deviceSets, moveToFront, pushFront
    <3> QED BY <3>1, <3>2
  <2> QED BY <2>1, <1>1, <1>2, <1>3, <1>5 DEF describes, MustOnAny
<1>6. ASSUME Policy = "lru", Device = "lru" PROVE describes(D, g)
  <2>1. D[s] = lruUpdate(C[s], l) /\ g[s] = lruDevice(h[s], l)
    BY <1>2, <1>3, <1>6 DEF update, deviceSets, lruDevice
  <2>2. h[s] \in [DOMAIN h[s] -> Ages]
    <3>1. h[s] \in AgeMaps(LinesOf(s))
      BY <1>1, <1>6 DEF DeviceCaches, SetContents
    <3> QED BY <3>1, AgeMapsLemma
  <2>3. CASE Kind = "Must"
    <3>1. bounds(C[s], h[s])
      BY <1>1, <1>6, <2>3 DEF describes, bounds
    <3>2. bounds(D[s], g[s])
      BY <3>1, <2>1, <2>2, <1>4, LruMustSet
    <3> QED BY <3>2, <2>3, <1>2, <1>3, <1>6 DEF describes, bounds
  <2>4. CASE Kind = "May"
    <3>1. underBounds(C[s], h[s])
      BY <1>1, <2>4 DEF describes, underBounds
    <3>2. underBounds(D[s], g[s])
      BY <3>1, <2>1, <2>2, <1>4, LruMaySet
    <3> QED BY <3>2, <2>4, <1>2, <1>3 DEF describes, underBounds
  <2> QED BY <2>3, <2>4 DEF Matched, MustOnLru, MustOnAny, MayOnLru
<1> QED BY <1>5, <1>6 DEF D, Matched, MustOnLru, MayOnLru

(* A meet describes what either operand describes.                         *)
LEMMA MergeDescribes ==
  ASSUME Matched, NEW C \in CacheStates, NEW D \in CacheStates, NEW h \in DeviceCaches,
         describes(C, h)
  PROVE  describes(join(C, D), h) /\ describes(join(D, C), h)
<1>1. ASSUME NEW s \in Sets
      PROVE  /\ \A l \in DOMAIN C[s] : C[s][l] \in Nat
             /\ \A l \in DOMAIN D[s] : D[s][l] \in Nat
             /\ Device = "lru" => \A l \in DOMAIN h[s] : h[s][l] \in Nat
  BY AgesOfState, PositionsOfDevice DEF Ages
<1>2. CASE Kind = "Must"
  <2>1. ASSUME NEW s \in Sets
        PROVE  /\ join(C, D)[s] = mustJoin(C[s], D[s])
               /\ join(D, C)[s] = mustJoin(D[s], C[s])
    BY <1>2 DEF join, joinSet
  <2> SUFFICES ASSUME NEW s \in Sets
               PROVE  /\ \A l \in DOMAIN mustJoin(C[s], D[s]) :
                           /\ l \in DOMAIN h[s]
                           /\ Policy # "unknown" => h[s][l] <= mustJoin(C[s], D[s])[l]
                      /\ \A l \in DOMAIN mustJoin(D[s], C[s]) :
                           /\ l \in DOMAIN h[s]
                           /\ Policy # "unknown" => h[s][l] <= mustJoin(D[s], C[s])[l]
    BY <1>2, <2>1 DEF describes
  <2>2. Policy # "unknown" => Device = "lru"
    BY DEF Matched, MustOnLru, MustOnAny, MayOnLru
  <2>3. \A l \in DOMAIN C[s] : l \in DOMAIN h[s] /\ (Policy # "unknown" => h[s][l] <= C[s][l])
    BY <1>2 DEF describes
  <2> QED BY <2>2, <2>3, <1>1 DEF mustJoin, Greater
<1>3. CASE Kind # "Must"
  <2>1. Device = "lru"
    BY <1>3 DEF Matched, MustOnLru, MustOnAny, MayOnLru
  <2>2. ASSUME NEW s \in Sets
        PROVE  /\ join(C, D)[s] = mayJoin(C[s], D[s])
               /\ join(D, C)[s] = mayJoin(D[s], C[s])
    BY <1>3 DEF join, joinSet
  <2> SUFFICES ASSUME NEW s \in Sets, NEW l \in DOMAIN h[s]
               PROVE  /\ l \in DOMAIN mayJoin(C[s], D[s]) /\ mayJoin(C[s], D[s])[l] <= h[s][l]
                      /\ l \in DOMAIN mayJoin(D[s], C[s]) /\ mayJoin(D[s], C[s])[l] <= h[s][l]
    BY <1>3, <2>2 DEF describes
  <2>3. l \in DOMAIN C[s] /\ C[s][l] <= h[s][l]
    BY <1>3 DEF describes
  <2> QED BY <2>1, <2>3, <1>1 DEF mayJoin, Lesser
<1> QED BY <1>2, <1>3

(* An empty must state describes every device; an empty may state only the *)
(* empty one.                                                              *)
LEMMA InitialDescribes ==
  /\ Kind = "Must" => \A h : describes(getInitialState, h)
  /\ describes(getInitialState, [s \in Sets |-> makeEmpty])
BY EmptyLemma DEF describes, getInitialState
=============================================================================
