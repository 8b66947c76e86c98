-------------------------- MODULE MCLocalSoundness --------------------------
(***************************************************************************)
(* The premises of the soundness theorem, evaluated for the cache analysis *)
(* over all its abstract states and all device caches.                     *)
(***************************************************************************)
EXTENDS MCFRAMCache, FRAMCacheSoundness

\* The theorems about the cache analysis apply to these programs.
ASSUME CacheAnalysisOfLeaves == IsCacheAnalysis /\ BlocksAreLeaves /\ EntryHasNoPredecessor
=============================================================================
