-------------------------- MODULE MCBusinessService --------------------------
(* Instances of BusinessService for TLC. *)
EXTENDS BusinessService, TLC

\* Tasks and approvals are used only through equality, so any permutation of
\* their identities is a symmetry.
Symmetry == Permutations(Tasks) \cup Permutations(Approvals) \cup Permutations(Requests)

=============================================================================
