----------------------------- MODULE MCApprovals -----------------------------
(***************************************************************************)
(* Instances of Approvals for TLC.                                         *)
(***************************************************************************)
EXTENDS Approvals, TLC

\* Requests of one kind are interchangeable; used without liveness only.
RequestSymmetry ==
  Permutations(Deciders) \cup Permutations(Executors) \cup Permutations(Operators)

=============================================================================
