---------------------------- MODULE MCQuarantine ----------------------------
(* Instances of Quarantine for TLC.                                        *)
EXTENDS Containment, TLC

=============================================================================
