--------------------------- MODULE MCSecurityEvents ---------------------------
(* Instances of SecurityEvents for TLC.                                    *)
EXTENDS SecurityEvents, TLC

=============================================================================
