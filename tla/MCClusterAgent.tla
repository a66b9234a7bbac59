---------------------------- MODULE MCClusterAgent ----------------------------
(* Instances of ClusterAgent for TLC.                                      *)
EXTENDS ClusterAgent, TLC

=============================================================================
