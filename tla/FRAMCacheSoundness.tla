------------------------ MODULE FRAMCacheSoundness ------------------------
(***************************************************************************)
(* AnalysisSoundness and the cache analysis together: the solver runs the  *)
(* transfer, the costs and the join of FRAMCacheAnalysis, and the machine  *)
(* is the device cache.  The soundness of whole blocks and joins, which    *)
(* AnalysisSoundness takes for granted, is stated of these here.           *)
(***************************************************************************)
EXTENDS AnalysisSoundness, FRAMCacheAnalysis

(* The solver is given the cache analysis; std::set iterates upwards.      *)
IsCacheAnalysis ==
  /\ Initial = getInitialState /\ Machine = DeviceCaches
  /\ \A S \in SUBSET Node : S # {} => Ordered(S) = ascending(S)
  /\ \A f \in PredMaps(CacheStates) : JoinPreds(f) = joinStates(f)
  /\ \A C \in CacheStates, h \in DeviceCaches : Describes(C, h) <=> describes(C, h)
  /\ \A b \in Contents, C \in CacheStates : /\ Transfer(b, C) = blockState(b, C)
                                            /\ BlockCost(b, C) = blockCost(b, C)
  /\ \A b \in Contents, h \in DeviceCaches : Outcomes(b, h) = blockOutcomes(b, h)

-----------------------------------------------------------------------------
(* The blocks the analysis is right about: every instruction has an        *)
(* address, none is a call, and fetches are from lines the cache has.      *)
Events == {e \in [kind : {"Access", "Barrier"}, line : Nat, cost : Nat] : e.kind = "Access" => e.line \in Lines}

isLeaf(b) ==
  /\ \A k \in DOMAIN b : b[k].resolved /\ ~ b[k].call
  /\ blockEvents(b) \in Seq(Events)

BlocksAreLeaves == \A b \in Contents : isLeaf(b)

(* Every block of the programs of the run is charged at least what it      *)
(* takes, from every abstract state and every device cache it describes,   *)
(* and every join of predecessors describes what each of them does: the    *)
(* fold of join over the predecessors loses no path.  It is about constants *)
(* only and therefore stated of the states where the solver starts.        *)
CacheLocallySound ==
  processed = {} => LocallySound(CacheStates) /\ EntryHasNoPredecessor
=============================================================================
