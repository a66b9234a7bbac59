---------------------------- MODULE Containment ----------------------------
(***************************************************************************)
(* What the quarantine of a pod promises: the specification Quarantine     *)
(* under names that the path of a runtime event (SecurityEvents) leaves    *)
(* free, so that one module can extend both; the assumptions on its        *)
(* constants; and its properties.  A session of Quarantine is a call here, *)
(* and the attempts of an incident are executions.                         *)
(***************************************************************************)
EXTENDS Naturals

CONSTANTS Appliers, Removers, Polls, Stops, MaxExecutions, MaxFailures, Free

VARIABLES incident, status, attempts, lab, linked, monitor, owed, expired, policy,
          label, pod, lock, labLock, calls, torn, fails

Q == INSTANCE Quarantine WITH ses <- calls, MaxAttempts <- MaxExecutions

ASSUME ExecutionsAssumption == MaxExecutions \in Nat \ {0}
ASSUME FailuresAssumption == MaxFailures \in Nat
ASSUME FreeAssumption == Free \notin Q!Sessions

QuarantineSpec == Q!FairSpec

\* Records and cluster agree in both directions (apply_quarantine,
\* remove_quarantine): what is shown as contained is, and what is in force is
\* shown.
PolicyIsRecorded == Q!TypeOK /\ Q!ContainedIsEnforced /\ Q!NoForgottenPolicy

\* Neither a failed containment nor an experiment ends as something better
\* than it was (the failure path of apply_quarantine, reconcile_execution).
OutcomesAreHonest == Q!SucceededIsClean /\ Q!FailedContainmentEscalates

\* An experiment that is still monitored ends, whatever fails on the way:
\* the deadline ends it even where the containment cannot be removed
\* (_reconcile_security_execution).
ScenarioEnds == lab = "RUNNING" ~> (lab \in Q!Ended \/ monitor = "gone")
=============================================================================
