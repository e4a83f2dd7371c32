--------------------------- MODULE MCAnalysisRuns ---------------------------
(* Instances of AnalysisRuns for TLC. *)
EXTENDS AnalysisRuns, TLC

\* Requests and snapshots are used only through equality.
Symmetry == Permutations(Requests) \cup Permutations(Snapshots)

=============================================================================
