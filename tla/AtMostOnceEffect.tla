--------------------------- MODULE AtMostOnceEffect ---------------------------
(***************************************************************************)
(* What a consumer behind an unreliable channel promises: an item that was *)
(* accepted takes effect once, however often it is delivered, and if it    *)
(* never does its delivery was given up, which is logged.  Refined by      *)
(* SecurityEvents (an event opens one incident).                           *)
(***************************************************************************)
CONSTANT Items

VARIABLES
  accepted,   \* items the sender was told are in safe hands
  effected,   \* items that took effect
  abandoned   \* items a delivery of which was given up

avars == <<accepted, effected, abandoned>>

Init == accepted = {} /\ effected = {} /\ abandoned = {}

Accept(i) ==
  /\ i \notin accepted
  /\ accepted' = accepted \cup {i}
  /\ UNCHANGED <<effected, abandoned>>

Effect(i) ==
  /\ i \in accepted \ effected
  /\ effected' = effected \cup {i}
  /\ UNCHANGED <<accepted, abandoned>>

Abandon(i) ==
  /\ i \in accepted \ abandoned
  /\ abandoned' = abandoned \cup {i}
  /\ UNCHANGED <<accepted, effected>>

Next == \E i \in Items : Accept(i) \/ Effect(i) \/ Abandon(i)

Settle(i) == i \notin effected \cup abandoned /\ (Effect(i) \/ Abandon(i))

\* Whatever was accepted is settled.
Spec ==
  /\ Init
  /\ [][Next]_avars
  /\ \A i \in Items : WF_avars(Settle(i))
=============================================================================
