------------------------------ MODULE MCFinOps ------------------------------
(* Instances of FinOps for TLC.                                            *)
EXTENDS FinOps, TLC

Both(n) == [r \in Resources |-> n]

MCHeadroom == [r \in Resources |-> IF r = "cpu" THEN 150 ELSE 135]
MCMinimum == Both(2)
MCInitial == Both(20)

Seen(seconds, cpu, memory, requested) ==
  [seconds |-> seconds, usage |-> [r \in Resources |-> IF r = "cpu" THEN cpu ELSE memory],
   requested |-> Both(requested), allocatable |-> Both(40)]

\* A spiky CPU beside a full memory, a workload that needs what it asks for,
\* and a window that is not covered.
MCObservations ==
  {Seen(18, <<1, 6, 1, 6, 2>>, <<15, 15, 15, 15, 15>>, 10),
   Seen(18, <<19, 19, 19, 19, 19>>, <<19, 19, 19, 19, 19>>, 30),
   Seen(9, <<1, 1, 1, 1, 1>>, <<1, 1, 1, 1, 1>>, 10)}

FinOpsSymmetry ==
  Permutations(Fingerprints) \cup Permutations(Proposers)
=============================================================================
