--------------------------- MODULE MCNotifications ---------------------------
(* Instances of Notifications for TLC.  The runs check liveness, so        *)
(* transactions are not declared symmetric.                                *)
EXTENDS Notifications, TLC

=============================================================================
