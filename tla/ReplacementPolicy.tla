------------------------- MODULE ReplacementPolicy -------------------------
(***************************************************************************)
(* The replacement-policy modules of the cache analysis                    *)
(* (include/Analysis/Cache/ReplacementPolicy.h): the abstract state of one *)
(* cache set, the membership test, the transfer of an access and the meet  *)
(* of two states, for the three shipped policies.                          *)
(*                                                                         *)
(* The abstract state of a set is an age map: a function from the lines    *)
(* the set holds to a bound on their age (an upper bound in a must state,  *)
(* a lower bound in a may state).  The single optional line of the         *)
(* UnknownPolicy is the age map with at most that one line, at age 0.      *)
(***************************************************************************)
EXTENDS Naturals

CONSTANTS
  Ways,    \* associativity, CacheGeometry::Ways
  Policy,  \* -fram-cache-policy: "unknown", "lru" or "fifo"
  Kind     \* AnalysisKind: "Must" or "May"

ASSUME WaysAssumption == Ways \in Nat \ {0}

(* UnknownPolicy::supports is false for May, AgeBasedPolicy supports both. *)
Supported == [unknown |-> {"Must"}, lru |-> {"Must", "May"}, fifo |-> {"Must", "May"}]

ASSUME PolicyAssumption ==
  /\ Policy \in {"unknown", "lru", "fifo"}
  /\ Kind \in Supported[Policy]

Ages == 0 .. Ways - 1

AgeMaps(L) == UNION {[D -> Ages] : D \in SUBSET L}

(* The states a policy can give one set that holds lines of L.             *)
SetStates(L) ==
  IF Policy = "unknown"
  THEN {S \in AgeMaps(L) : /\ \A l \in DOMAIN S : S[l] = 0
                           /\ \A l, m \in DOMAIN S : l = m}
  ELSE AgeMaps(L)

Lesser(a, b)  == IF a <= b THEN a ELSE b
Greater(a, b) == IF a <= b THEN b ELSE a

-----------------------------------------------------------------------------
makeEmpty == [l \in {} |-> 0]

contains(S, l) == l \in DOMAIN S

(* Mutant of insertMiss: the eviction is off by one.                       *)
insertMissLate(S, l) ==
  [m \in {k \in DOMAIN S : S[k] < Ways} \cup {l} |-> IF m = l THEN 0 ELSE S[m] + 1]

(* A line enters at age 0, every other line ages by one and falls out of   *)
(* the set when its age reaches the associativity.                         *)
insertMiss(S, l) ==
  LET kept == {m \in DOMAIN S : S[m] + 1 < Ways}
  IN  [m \in kept \cup {l} |-> IF m = l THEN 0 ELSE S[m] + 1]

(* Mutants of lruUpdate: a hit ages no other line; a hit changes nothing.  *)
lruUpdateNoAging(S, l) == IF contains(S, l) THEN [S EXCEPT ![l] = 0] ELSE insertMiss(S, l)

lruUpdateAsQueue(S, l) == IF contains(S, l) THEN S ELSE insertMiss(S, l)

(* LRUPolicy: a hit moves the line to age 0 and ages only younger lines.   *)
lruUpdate(S, l) ==
  IF contains(S, l)
  THEN [m \in DOMAIN S |-> IF m = l THEN 0
                           ELSE IF S[m] < S[l] THEN S[m] + 1 ELSE S[m]]
  ELSE insertMiss(S, l)

(* FIFOPolicy: a hit leaves the queue as it is.                            *)
fifoUpdate(S, l) == IF contains(S, l) THEN S ELSE insertMiss(S, l)

(* Mutant of unknownUpdate: the line known before is kept.                 *)
unknownUpdateKeeping(S, l) == [m \in DOMAIN S \cup {l} |-> 0]

(* UnknownPolicy: only the line just accessed is known to be resident.     *)
unknownUpdate(S, l) == [m \in {l} |-> 0]

update(S, l) == CASE Policy = "unknown" -> unknownUpdate(S, l)
                  [] Policy = "lru"     -> lruUpdate(S, l)
                  [] Policy = "fifo"    -> fifoUpdate(S, l)

(* Must: the lines of both states, at the older age.                       *)
mustJoin(S, T) == [l \in DOMAIN S \cap DOMAIN T |-> Greater(S[l], T[l])]

(* Mutants of mayJoin: the older age is kept; only common lines are kept.  *)
mayJoinOlder(S, T) ==
  [l \in DOMAIN S \cup DOMAIN T |->
     IF l \notin DOMAIN T THEN S[l]
     ELSE IF l \notin DOMAIN S THEN T[l]
     ELSE Greater(S[l], T[l])]

mayJoinCommon(S, T) == [l \in DOMAIN S \cap DOMAIN T |-> Lesser(S[l], T[l])]

(* May: the lines of either state, at the younger age.                     *)
mayJoin(S, T) ==
  [l \in DOMAIN S \cup DOMAIN T |->
     IF l \notin DOMAIN T THEN S[l]
     ELSE IF l \notin DOMAIN S THEN T[l]
     ELSE Lesser(S[l], T[l])]

joinSet(S, T) == IF Kind = "Must" THEN mustJoin(S, T) ELSE mayJoin(S, T)
=============================================================================
