------------------------ MODULE MCReliabilityWorkflow ------------------------
(* Instances of ReliabilityWorkflow for TLC.                               *)
EXTENDS ReliabilityWorkflow, TLC

=============================================================================
