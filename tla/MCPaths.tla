------------------------------- MODULE MCPaths -------------------------------
(***************************************************************************)
(* The programs of MCPathAnalysis for which the theorems hold.               *)
(***************************************************************************)
EXTENDS MCPathAnalysis, BoundedPrograms

\* The start function is not called again, and stops are final.
ASSUME ProgramsStartAndStopOnce == NoReentry /\ NoPartialStops

\* Bounds are right and sufficient.
ASSUME ProgramsAreBounded == \A p \in Programs : BoundsAreRight(p) /\ BoundsSuffice(p)
=============================================================================
