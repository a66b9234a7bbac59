---------------------------- MODULE MCAIDiagnosis ----------------------------
(* Instances of AIDiagnosis for TLC.                                       *)
EXTENDS Diagnosis, TLC

\* Sessions are interchangeable, and so are the incidents without an alert.
AISymmetry == Permutations(Sessions) \cup Permutations(Incidents \ Alerted)

=============================================================================
