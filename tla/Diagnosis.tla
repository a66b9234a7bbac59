------------------------------ MODULE Diagnosis ------------------------------
(***************************************************************************)
(* What the advisory diagnosis promises: the specification AIDiagnosis,    *)
(* with the state of an incident under a name that the workflow it advises *)
(* (ReliabilityWorkflow) leaves free, so that one module can extend both;  *)
(* the assumptions on its constants; and its properties.                   *)
(***************************************************************************)
EXTENDS Naturals, FiniteSets

CONSTANTS
  Incidents, Alerted, Sessions, MaxRequests, MaxEvents, MaxRetries, Budget, Threshold,
  PrimaryModel, FallbackModel, EscalationModel, HighConfidence

VARIABLES
  enabled, incidentState, change, calls, used, diagnoses, memory, proposals, ses, task,
  requests, events

AI == INSTANCE AIDiagnosis WITH incident <- incidentState

ASSUME BoundsAssumption == {MaxRequests, MaxEvents, MaxRetries, HighConfidence} \subseteq Nat
ASSUME AlertedAssumption == Alerted \subseteq Incidents
ASSUME BudgetAssumption == Budget \in 1..3 /\ Threshold \in Nat \ {0}
ASSUME SessionsAssumption == IsFiniteSet(Sessions) /\ {AI!Committed, AI!Gone} \cap Sessions = {}

DiagnosisSpec == AI!Spec

\* Sessions that run side by side stay within the limits they were admitted
\* under: the budget of the incident and the breaker of all (ai/safety.py).
BudgetsHold == AI!TypeOK /\ AI!BudgetKept /\ AI!StormIsBounded

\* Proposals and finished tasks have the diagnosis they claim
\* (evaluate_ai_action_candidate, diagnose_and_store).
DiagnosesAreGrounded == AI!ProposalsAreGrounded /\ AI!DoneIsDiagnosed

\* The record of a session says AVAILABLE exactly if one of its calls was
\* answered: a failed fallback or escalation does not lose an answer
\* (DiagnosisRouter, _persist_outcome).
AnswersAreKept == [][\A s \in Sessions : AI!AnswerIsKept(s)]_(AI!vars)
=============================================================================
