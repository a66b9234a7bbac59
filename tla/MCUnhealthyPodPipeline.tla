---------------------- MODULE MCUnhealthyPodPipeline ----------------------
(***************************************************************************)
(* Instances of UnhealthyPodPipeline for TLC.  The runs check liveness,    *)
(* so pod names and runs are not declared symmetric.                       *)
(***************************************************************************)
EXTENDS UnhealthyPodPipeline, TLC

=============================================================================
