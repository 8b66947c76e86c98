---------------------------- MODULE DeviceCache ----------------------------
(***************************************************************************)
(* The cache the analysis is about.  The device is not part of the         *)
(* repository: a cache set is a map from resident lines to distinct        *)
(* positions 0 .. Ways-1, the next victim highest; a position no line of   *)
(* Lines has is empty or holds data.  Under an unknown replacement the     *)
(* order means nothing and the lines have their rank as position.          *)
(***************************************************************************)
EXTENDS CacheAnalysis, FiniteSets

CONSTANT Device  \* the replacement the hardware has: "lru", "fifo" or "any"

ASSUME DeviceAssumption == Device \in {"lru", "fifo", "any"}

Injective(S) == \A l, m \in DOMAIN S : S[l] = S[m] => l = m

ranked(D) == [l \in D |-> Cardinality({m \in D : m < l})]

SetContents(s) ==
  IF Device = "any"
  THEN {ranked(D) : D \in {L \in SUBSET LinesOf(s) : Cardinality(L) <= Ways}}
  ELSE {S \in AgeMaps(LinesOf(s)) : Injective(S)}

DeviceCaches ==
  {h \in [Sets -> UNION {SetContents(s) : s \in Sets}] :
     \A s \in Sets : h[s] \in SetContents(s)}

deviceHit(h, l) == l \in DOMAIN h[setIndex(l)]

(* The line enters at position 0 and pushes every other line one on.       *)
pushFront(S, l) ==
  [m \in {l} \cup {k \in DOMAIN S : S[k] + 1 < Ways} |-> IF m = l THEN 0 ELSE S[m] + 1]

(* The line moves to position 0; the lines in front of it move one on.     *)
moveToFront(S, l) ==
  [m \in DOMAIN S |-> CASE m = l       -> 0
                        [] S[m] < S[l] -> S[m] + 1
                        [] OTHER       -> S[m]]

(* What the set of line l may be after an access to l.  A hit evicts       *)
(* nothing; under an unknown replacement a miss may evict any lines.       *)
deviceSets(s, S, l) ==
  CASE Device = "lru"  -> {IF l \in DOMAIN S THEN moveToFront(S, l) ELSE pushFront(S, l)}
    [] Device = "fifo" -> {IF l \in DOMAIN S THEN S ELSE pushFront(S, l)}
    [] Device = "any"  -> IF l \in DOMAIN S THEN {S}
                          ELSE {T \in SetContents(s) :
                                  l \in DOMAIN T /\ DOMAIN T \subseteq DOMAIN S \cup {l}}

deviceAccess(h, l) ==
  LET s == setIndex(l)
  IN  {[h EXCEPT ![s] = T] : T \in deviceSets(s, h[s], l)}

-----------------------------------------------------------------------------
(* When an abstract state describes a device cache.  Ages bound positions, *)
(* except that the UnknownPolicy says nothing about the order.             *)
describes(C, h) ==
  \A s \in Sets :
    IF Kind = "Must"
    THEN \A l \in DOMAIN C[s] : /\ l \in DOMAIN h[s]
                                /\ Policy # "unknown" => h[s][l] <= C[s][l]
    ELSE \A l \in DOMAIN h[s] : l \in DOMAIN C[s] /\ C[s][l] <= h[s][l]
=============================================================================
