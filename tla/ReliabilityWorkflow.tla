------------------------- MODULE ReliabilityWorkflow -------------------------
(***************************************************************************)
(* A reliability alert from its incident to its verified end:              *)
(* ReliabilityAlertProcessor.process (backend/app/reliability/workflow.py) *)
(* behind the endpoint process-alert, claim_action_execution and           *)
(* RollbackCoordinator (remediation/execution.py), and the Incident Lab    *)
(* experiment that caused the alert: reconcile_execution with _cleanup     *)
(* (api/internal_reliability.py) and stop_execution (api/incident_lab.py). *)
(*                                                                         *)
(* An alert may be processed by several requests at once: Alertmanager     *)
(* repeats it, and the worker repeats a request that takes longer than its *)
(* timeout.  A request is one transaction that changes the cluster before  *)
(* it commits.  It holds the incident's row from its first flush; what it  *)
(* read before may be old by then.  Polls and stops of the experiment      *)
(* exclude each other by the experiment's row.                             *)
(***************************************************************************)
EXTENDS Naturals, IncidentStates

CONSTANTS
  Requests,     \* process-alert requests for the incident
  Polls,        \* reconcile requests of the monitoring task
  Stops,        \* stop requests of operators
  Plans,        \* the runbook's actions considered
  Base,         \* replicas of the Deployment before the experiment
  MaxReplicas,  \* max_temporary_replicas
  LowRisk,      \* the risk score is at most automatic_rollback_max_risk
  MaxFailures,  \* bound on exceptions, crashes and scalings by others
  OthersScale,  \* the Deployment is also scaled outside CloudWard
  Free          \* nobody holds the lock

\* "parked": REVERT_IMAGE while the GitOps writer is disabled; "unknown": no
\* runbook matches.
Plan == {"scale", "delete", "revert", "parked", "none", "unknown"}

ASSUME PlansAssumption == Plans \subseteq Plan
ASSUME ReplicasAssumption ==
  /\ Base \in Nat /\ MaxReplicas \in Nat
  /\ 1 <= Base /\ Base <= MaxReplicas
ASSUME LowRiskAssumption == LowRisk \in BOOLEAN
ASSUME OthersScaleAssumption == OthersScale \in BOOLEAN
ASSUME MaxFailuresAssumption == MaxFailures \in Nat
ASSUME FreeAssumption == Free \notin Requests \cup Polls \cup Stops
ASSUME DistinctAssumption == Requests \cap (Polls \cup Stops) = {}

VARIABLES
  plan,      \* the action of the matching runbook
  incident,  \* committed state of the incident ("none": no alert yet)
  policy,    \* committed: latest PolicyDecision ("none": no proposal)
  exec,      \* committed: ActionExecution of attempt 1
  undo,      \* committed: the rollback's ActionExecution (attempt 2) exists
  verified,  \* committed: number of VerificationRecords
  lab,       \* committed: status of the ChaosExecution
  linked,    \* committed: its details name the incident
  expired,   \* its cleanup deadline has passed
  chaos,     \* the cluster has the Chaos Mesh resource
  replicas,  \* the cluster's desired replicas
  lock,      \* who holds the incident's row
  labLock,   \* who holds the experiment's row
  proc,      \* proc[r]: request r and its uncommitted rows
  poll,      \* poll[q]: poll or stop q and its uncommitted rows
  acted,     \* history: scalings and deletions requests carried out
  unrecorded,\* history: changes of the cluster that no committed row knows of
  fails      \* failures so far

rows == <<incident, policy, exec, undo, verified>>
labRows == <<lab, linked>>
cluster == <<chaos, replicas>>
vars == <<plan, rows, labRows, expired, cluster, lock, labLock, proc, poll,
          acted, unrecorded, fails>>

Reconcilers == Polls \cup Stops
Ended == {"SUCCEEDED", "FAILED", "TIMED_OUT", "CANCELLED"}
NoExec == [status |-> "none", previous |-> 0, requested |-> 0]
NoProc == [step |-> "idle", at |-> "DETECTED", seen |-> 0, exec |-> NoExec]
NoPoll == [step |-> "idle", at |-> "none", records |-> 0, undone |-> FALSE,
           linked |-> FALSE, outcome |-> "none"]

Init ==
  /\ plan \in Plans
  /\ incident = "none"
  /\ policy = "none"
  /\ exec = NoExec
  /\ undo = FALSE
  /\ verified = 0
  /\ lab = "RUNNING"
  /\ linked = FALSE
  /\ expired = FALSE
  /\ chaos = TRUE
  /\ replicas = Base
  /\ lock = Free
  /\ labLock = Free
  /\ proc = [r \in Requests |-> NoProc]
  /\ poll = [q \in Reconcilers |-> NoPoll]
  /\ acted = 0
  /\ unrecorded = 0
  /\ fails = 0

-----------------------------------------------------------------------------
(* Slips a maintainer could make; the runs show that the properties below  *)
(* notice each of them.                                                    *)

\* The claim is protected by its idempotency key alone.
ClaimFailsNever(r) == FALSE

\* Only a failed verification restores the replicas.
RestoreAfterFailureOnly(q) ==
  /\ plan = "scale" /\ poll[q].linked /\ poll[q].outcome # "SUCCEEDED"
  /\ exec.status = "SUCCEEDED" /\ ~undo /\ ~poll[q].undone

\* The first failed verification escalates.
VerifyOnce(q) ==
  /\ poll[q].step = "verifying"
  /\ lock = Free
  /\ lock' = q
  /\ \E at \in {"RESOLVED", "ESCALATED"} :
       poll' = [poll EXCEPT ![q] = [@ EXCEPT !.records = 1, !.step = "cleanup", !.at = at,
                  !.outcome = IF at = "RESOLVED" THEN "SUCCEEDED" ELSE "FAILED"]]
  /\ UNCHANGED <<plan, rows, labRows, expired, cluster, labLock, proc, acted, unrecorded, fails>>

\* The deadline matters only once the incident is known.
DeadlineOfLinked(q) == expired /\ linked

-----------------------------------------------------------------------------
(* Requests that process the alert.                                        *)

Proc(r, s) == proc' = [proc EXCEPT ![r] = s]
Step(s, step) == [s EXCEPT !.step = step]
ReleaseIncident(a) == lock' = IF lock = a THEN Free ELSE lock

\* The rows of the request are rolled back; the worker may repeat it.
Abandon(r) ==
  /\ Proc(r, Step(NoProc, "failed"))
  /\ ReleaseIncident(r)
  /\ UNCHANGED <<rows, cluster, acted>>

\* session.get(Incident) and the look for a proposal, without a lock.
Start(r) ==
  /\ proc[r].step \in {"idle", "failed"}
  /\ incident # "none"
  /\ IF policy = "none"
     THEN Proc(r, [NoProc EXCEPT !.step = "read", !.at = incident])
     ELSE Proc(r, Step(NoProc, "done"))
  /\ UNCHANGED <<plan, rows, labRows, expired, cluster, lock, labLock, poll, acted, unrecorded, fails>>

\* DETECTED -> COLLECTING_EVIDENCE: the flush takes the row.
Collect(r) ==
  /\ proc[r].step = "read"
  /\ IF proc[r].at = "DETECTED"
     THEN /\ lock = Free
          /\ lock' = r
          /\ Proc(r, [proc[r] EXCEPT !.step = "collecting", !.at = "COLLECTING_EVIDENCE"])
     ELSE Proc(r, Step(proc[r], "collecting")) /\ UNCHANGED lock
  /\ UNCHANGED <<plan, rows, labRows, expired, cluster, labLock, poll, acted, unrecorded, fails>>

\* Pods, Deployment, events and telemetry.
Observe(r) ==
  /\ proc[r].step = "collecting"
  /\ Proc(r, [proc[r] EXCEPT !.step = "observed", !.seen = replicas])
  /\ UNCHANGED <<plan, rows, labRows, expired, cluster, lock, labLock, poll, acted, unrecorded, fails>>

\* The commit of request r with incident state s and policy decision d.
CommitProcess(r, s, d, x) ==
  /\ incident' = s
  /\ policy' = d
  /\ exec' = x
  /\ Proc(r, Step(NoProc, "done"))
  /\ ReleaseIncident(r)
  /\ UNCHANGED <<undo, verified>>

\* CLASSIFYING, and the end of processing when no runbook matches.  Otherwise
\* the proposal is added and the incident moved to POLICY_EVALUATION.
Classify(r) ==
  /\ proc[r].step = "observed"
  /\ \/ /\ ~MayMove(proc[r].at, "CLASSIFYING", FALSE)
        /\ Abandon(r)
     \/ /\ MayMove(proc[r].at, "CLASSIFYING", FALSE)
        /\ plan = "unknown"
        /\ CommitProcess(r, "CLASSIFYING", policy, exec)
        /\ UNCHANGED <<cluster, acted>>
     \/ /\ MayMove(proc[r].at, "CLASSIFYING", FALSE)
        /\ plan # "unknown"
        /\ lock \in {Free, r}
        /\ lock' = r
        /\ Proc(r, [proc[r] EXCEPT !.step = "policy", !.at = "POLICY_EVALUATION"])
        /\ UNCHANGED <<rows, cluster, acted>>
  /\ UNCHANGED <<plan, labRows, expired, labLock, poll, unrecorded, fails>>

\* OPA refuses or asks for approval, or the action is not executed here.
Settle(r) ==
  /\ proc[r].step = "policy"
  /\ \/ \E s \in {"AWAITING_APPROVAL", "BLOCKED"} : CommitProcess(r, s, "deny", exec)
     \/ plan = "parked" /\ CommitProcess(r, "AWAITING_APPROVAL", "allow", exec)
     \/ plan = "none" /\ CommitProcess(r, "VERIFYING", "allow", exec)
  /\ UNCHANGED <<plan, labRows, expired, cluster, labLock, poll, acted, unrecorded, fails>>

Allow(r) ==
  /\ proc[r].step = "policy"
  /\ plan \in {"scale", "delete", "revert"}
  /\ Proc(r, [proc[r] EXCEPT !.step = "claiming", !.at = "EXECUTING"])
  /\ UNCHANGED <<plan, rows, labRows, expired, cluster, lock, labLock, poll, acted, unrecorded, fails>>

\* uq (incident_id, attempt): a row of attempt 1 exists under another key.
\* The key covers the observed replicas and the number of pods.
ClaimFails(r) == exec.status # "none"

\* claim_action_execution: the row of an earlier request with the same key is
\* returned and the action skipped; one with another key ends the request.
Claim(r) ==
  /\ proc[r].step = "claiming"
  /\ \/ /\ exec.status # "none" /\ exec.previous = proc[r].seen
        /\ CommitProcess(r, "VERIFYING", "allow", exec)
        /\ UNCHANGED <<cluster, acted>>
     \/ ClaimFails(r) /\ Abandon(r)
     \/ /\ ~ClaimFails(r)
        /\ Proc(r, Step(proc[r], "claimed"))
        /\ UNCHANGED <<rows, cluster, lock, acted>>
  /\ UNCHANGED <<plan, labRows, expired, labLock, poll, unrecorded, fails>>

\* scale_staging_deployment reads the Deployment again and refuses a target
\* that has changed.
CheckTarget(r) ==
  /\ proc[r].step = "claimed"
  /\ plan = "scale"
  /\ IF replicas = proc[r].seen
     THEN Proc(r, Step(proc[r], "acting")) /\ UNCHANGED <<rows, cluster, lock, acted>>
     ELSE Abandon(r)
  /\ UNCHANGED <<plan, labRows, expired, labLock, poll, unrecorded, fails>>

Target(n) == IF n + 1 <= MaxReplicas THEN n + 1 ELSE MaxReplicas

Scale(r) ==
  LET n == Target(proc[r].seen) IN
  /\ proc[r].step = "acting"
  /\ replicas' = n
  /\ acted' = acted + 1
  /\ Proc(r, [proc[r] EXCEPT !.step = "acted", !.exec =
                [status |-> "SUCCEEDED", previous |-> proc[r].seen, requested |-> n]])
  /\ UNCHANGED <<plan, rows, labRows, expired, chaos, lock, labLock, poll, unrecorded, fails>>

\* delete_pod, when a pod is still unhealthy; the GitOps writer, which does
\* nothing when the tag is the known-good one already.
ActOtherwise(r) ==
  /\ proc[r].step = "claimed"
  /\ plan \in {"delete", "revert"}
  /\ \E status \in {"SUCCEEDED", "FAILED"} :
       /\ plan = "revert" => status = "SUCCEEDED"
       /\ acted' = IF plan = "delete" /\ status = "SUCCEEDED" THEN acted + 1 ELSE acted
       /\ Proc(r, [proc[r] EXCEPT !.step = "acted", !.exec =
                     [status |-> status, previous |-> proc[r].seen, requested |-> 0]])
  /\ UNCHANGED <<plan, rows, labRows, expired, cluster, lock, labLock, poll, unrecorded, fails>>

FinishProcess(r) ==
  /\ proc[r].step = "acted"
  /\ CommitProcess(r, "VERIFYING", "allow", proc[r].exec)
  /\ UNCHANGED <<plan, labRows, expired, cluster, labLock, poll, acted, unrecorded, fails>>

\* An exception or the end of the process before the commit.
Fail(r) ==
  /\ proc[r].step \notin {"idle", "failed", "done"}
  /\ fails < MaxFailures
  /\ fails' = fails + 1
  /\ unrecorded' = IF proc[r].step = "acted" THEN unrecorded + 1 ELSE unrecorded
  /\ Abandon(r)
  /\ UNCHANGED <<plan, labRows, expired, labLock, poll>>

-----------------------------------------------------------------------------
(* Polls and stops of the experiment.                                      *)

Poll(q, s) == poll' = [poll EXCEPT ![q] = s]

\* The alert arrives; its incident is DETECTED.
RaiseAlert ==
  /\ incident = "none"
  /\ incident' = "DETECTED"
  /\ UNCHANGED <<plan, policy, exec, undo, verified, labRows, expired, cluster,
                 lock, labLock, proc, poll, acted, unrecorded, fails>>

\* An operator blocks the incident.  The route checks the transition against
\* the row it read without a lock, DETECTED perhaps a while ago.
Block ==
  /\ incident \notin {"none", "BLOCKED"}
  /\ lock = Free
  /\ incident' = "BLOCKED"
  /\ UNCHANGED <<plan, policy, exec, undo, verified, labRows, expired, cluster,
                 lock, labLock, proc, poll, acted, unrecorded, fails>>

Expire ==
  /\ ~expired
  /\ expired' = TRUE
  /\ UNCHANGED <<plan, rows, labRows, cluster, lock, labLock, proc, poll, acted, unrecorded, fails>>

\* Somebody else scales the Deployment: kubectl, an autoscaler, Argo CD.
Rescale ==
  /\ OthersScale
  /\ fails < MaxFailures
  /\ fails' = fails + 1
  /\ unrecorded' = unrecorded + 1
  /\ replicas' \in (Base..MaxReplicas) \ {replicas}
  /\ UNCHANGED <<plan, rows, labRows, expired, chaos, lock, labLock, proc, poll, acted>>

DeadlinePassed(q) == expired

\* How the experiment ends with an incident in state s.
Outcome(s) ==
  IF s = "RESOLVED" THEN "SUCCEEDED"
  ELSE IF s \in {"BLOCKED", "ESCALATED"} THEN "FAILED" ELSE "none"

\* reconcile_execution locks a running experiment and reads the incident,
\* without a lock.  (One that has ended is answered without effect.)
StartPoll(q) ==
  LET s == [NoPoll EXCEPT !.linked = TRUE, !.at = incident] IN
  /\ poll[q].step = "idle"
  /\ lab = "RUNNING"
  /\ labLock = Free
  /\ labLock' = q
  /\ \/ /\ DeadlinePassed(q)
        /\ Poll(q, [NoPoll EXCEPT !.step = "cleanup", !.linked = linked,
                                  !.outcome = "TIMED_OUT"])
     \/ /\ ~DeadlinePassed(q)
        /\ incident # "none"
        /\ \/ incident = "VERIFYING" /\ verified < 3 /\ Poll(q, Step(s, "verifying"))
           \/ incident = "VERIFYING" /\ plan = "revert" /\ Poll(q, Step(s, "commit"))
           \/ /\ Outcome(incident) # "none"
              /\ Poll(q, [s EXCEPT !.step = "cleanup", !.outcome = Outcome(incident)])
           \/ /\ Outcome(incident) = "none"
              /\ ~(incident = "VERIFYING" /\ verified < 3)
              /\ Poll(q, Step(s, "commit"))
  /\ UNCHANGED <<plan, rows, labRows, expired, cluster, lock, proc, acted, unrecorded, fails>>

\* stop_execution.
StartStop(q) ==
  /\ poll[q].step = "idle"
  /\ lab = "RUNNING"
  /\ labLock = Free
  /\ labLock' = q
  /\ Poll(q, [NoPoll EXCEPT !.step = "cleanup", !.linked = linked, !.outcome = "CANCELLED"])
  /\ UNCHANGED <<plan, rows, labRows, expired, cluster, lock, proc, acted, unrecorded, fails>>

\* RollbackCoordinator.decide returns AUTOMATIC for a scaling.
Automatic == policy = "allow" /\ LowRisk

\* persist_verification: the state after verification n.
VerifiedState(n, success) ==
  IF success THEN "RESOLVED" ELSE IF n >= 3 THEN "ESCALATED" ELSE "VERIFYING"

\* The verification of a poll.  A failed one rolls a scaling back that is the
\* latest execution; one that ends the incident goes on to the cleanup.
Verify(q) ==
  LET undoing == plan = "scale" /\ exec.status # "none" /\ ~undo /\ Automatic IN
  /\ poll[q].step = "verifying"
  /\ \E success \in BOOLEAN :
       LET at == VerifiedState(verified + 1, success) IN
       /\ \/ at = "VERIFYING" /\ UNCHANGED lock
          \/ at # "VERIFYING" /\ lock = Free /\ lock' = q
       /\ Poll(q, [poll[q] EXCEPT
            !.records = 1, !.at = at, !.outcome = Outcome(at),
            !.step = IF undoing /\ ~success THEN "undoing"
                     ELSE IF at = "VERIFYING" THEN "commit" ELSE "cleanup"])
  /\ UNCHANGED <<plan, rows, labRows, expired, cluster, labLock, proc, acted, unrecorded, fails>>

\* Everything of the poll or stop is rolled back; the next one starts anew.
AbandonPoll(q) ==
  /\ Poll(q, NoPoll)
  /\ ReleaseIncident(q)
  /\ labLock' = Free

\* The scaling that the end of the experiment has to take back.
NeedsRestore(q) ==
  /\ plan = "scale" /\ poll[q].linked
  /\ exec.status = "SUCCEEDED" /\ ~undo /\ ~poll[q].undone

\* _cleanup: the chaos resource is deleted, then the replicas are restored.
Cleanup(q) ==
  /\ poll[q].step = "cleanup"
  /\ chaos' = FALSE
  /\ \/ ~NeedsRestore(q) /\ Poll(q, Step(poll[q], "commit")) /\ UNCHANGED <<lock, labLock>>
     \/ /\ NeedsRestore(q) /\ Automatic
        /\ Poll(q, Step(poll[q], "undoing"))
        /\ UNCHANGED <<lock, labLock>>
     \/ NeedsRestore(q) /\ ~Automatic /\ AbandonPoll(q)
  /\ UNCHANGED <<plan, rows, labRows, expired, replicas, proc, acted, unrecorded, fails>>

\* rollback_scale adds its row and lets scale_staging_deployment check that
\* the replicas are the ones the scaling requested.
CheckUndo(q) ==
  /\ poll[q].step = "undoing"
  /\ IF replicas = exec.requested
     THEN Poll(q, Step(poll[q], "restoring")) /\ UNCHANGED <<lock, labLock>>
     ELSE AbandonPoll(q)
  /\ UNCHANGED <<plan, rows, labRows, expired, cluster, proc, acted, unrecorded, fails>>

Undo(q) ==
  /\ poll[q].step = "restoring"
  /\ replicas' = exec.previous
  /\ Poll(q, [poll[q] EXCEPT !.undone = TRUE,
                             !.step = IF poll[q].outcome = "none" THEN "commit" ELSE "cleanup"])
  /\ UNCHANGED <<plan, rows, labRows, expired, chaos, lock, labLock, proc, acted, unrecorded, fails>>

CommitPoll(q) ==
  LET s == poll[q] IN
  /\ s.step = "commit"
  /\ incident' = IF lock = q THEN s.at ELSE incident
  /\ verified' = verified + s.records
  /\ undo' = (undo \/ s.undone)
  /\ linked' = s.linked
  /\ lab' = IF s.outcome = "none" THEN lab ELSE s.outcome
  /\ AbandonPoll(q)
  /\ UNCHANGED <<plan, policy, exec, expired, cluster, proc, acted, unrecorded, fails>>

FailPoll(q) ==
  /\ poll[q].step # "idle"
  /\ fails < MaxFailures
  /\ fails' = fails + 1
  /\ unrecorded' = IF poll[q].undone THEN unrecorded + 1 ELSE unrecorded
  /\ AbandonPoll(q)
  /\ UNCHANGED <<plan, rows, labRows, expired, cluster, proc, acted>>

-----------------------------------------------------------------------------
Process(r) ==
  \/ Collect(r) \/ Observe(r) \/ Classify(r) \/ Settle(r) \/ Allow(r) \/ Claim(r)
  \/ CheckTarget(r) \/ Scale(r) \/ ActOtherwise(r) \/ FinishProcess(r)
Reconcile(q) == Verify(q) \/ Cleanup(q) \/ CheckUndo(q) \/ Undo(q) \/ CommitPoll(q)

Next ==
  \/ RaiseAlert \/ Block \/ Expire \/ Rescale
  \/ \E r \in Requests : Start(r) \/ Process(r) \/ Fail(r)
  \/ \E q \in Polls : StartPoll(q)
  \/ \E q \in Stops : StartStop(q)
  \/ \E q \in Reconcilers : Reconcile(q) \/ FailPoll(q)

Spec == Init /\ [][Next]_vars

\* Requests end (every call has a timeout), the monitoring task polls again
\* (80 times at 5 seconds, beyond the longest deadline) and time passes.
FairSpec ==
  /\ Spec
  /\ WF_vars(Expire)
  /\ \A r \in Requests : WF_vars(Process(r))
  /\ \A q \in Polls : WF_vars(StartPoll(q))
  /\ \A q \in Reconcilers : WF_vars(Reconcile(q))

-----------------------------------------------------------------------------
(* Properties.                                                             *)

\* Every variable has its type; the replicas stay within the limit.
TypeOK ==
  /\ plan \in Plans
  /\ incident \in IncidentState \cup {"none"}
  /\ policy \in {"none", "allow", "deny"}
  /\ exec \in [status: {"none", "SUCCEEDED", "FAILED"}, previous: 0..MaxReplicas,
               requested: 0..MaxReplicas]
  /\ undo \in BOOLEAN /\ linked \in BOOLEAN /\ expired \in BOOLEAN /\ chaos \in BOOLEAN
  /\ verified \in 0..3
  /\ lab \in {"RUNNING"} \cup Ended
  /\ replicas \in Base..MaxReplicas
  /\ lock \in Requests \cup Reconcilers \cup {Free}
  /\ labLock \in Reconcilers \cup {Free}
  /\ \A r \in Requests : proc[r].at \in IncidentState /\ proc[r].seen \in 0..MaxReplicas
  /\ \A q \in Reconcilers : poll[q].outcome \in Ended \cup {"none"}

\* docs/reliability/backend.md: duplicates do not create "another incident or
\* action", and the worker claims its action.  Repeated and overlapping
\* requests act once; every further time, a transaction failed after it had
\* acted and before it committed.
ActedOnce == acted <= 1 + unrecorded

\* docs/runbooks/catalog.md: the replica increase is temporary.  An experiment
\* that succeeded has restored what it found, unless a transaction failed
\* between a change of the cluster and its commit, or somebody else scaled.
SucceededIsRestored == lab = "SUCCEEDED" /\ unrecorded = 0 => replicas = Base

\* What the rows say is what the cluster has: without an unrecorded change, and
\* while no transaction is between its change and its commit, the replicas are
\* those of the recorded scaling that was not rolled back, or the original ones.
ReplicasAreRecorded ==
  /\ unrecorded = 0
  /\ \A r \in Requests : proc[r].step # "acted"
  /\ \A q \in Reconcilers : ~poll[q].undone
  => replicas = IF plan = "scale" /\ exec.status = "SUCCEEDED" /\ ~undo
                THEN exec.requested ELSE Base

\* ADR-010: "retries remain capped at three".  Verification escalates an
\* incident after three records exactly, however often overlapping requests
\* put the incident back to VERIFYING.
EscalatedWasTried == incident = "ESCALATED" => verified = 3

\* A running experiment ends, through success, failure or its deadline, as
\* long as no change of the cluster is unrecorded and no later decision of OPA
\* forbids the rollback of the scaling.
RollbackDenied == plan = "scale" /\ exec.status = "SUCCEEDED" /\ ~Automatic
ExperimentEnds ==
  (lab = "RUNNING") ~> (lab \in Ended \/ unrecorded > 0 \/ RollbackDenied)

\* What was scaled is recorded, and an experiment that succeeded has restored
\* it (rollback_scale, reconcile_execution).
ReplicasAreRestored == SucceededIsRestored /\ ReplicasAreRecorded

\* Verifications and replicas stay within their limits, and the escalation
\* comes after the last verification allowed, not before (persist_verification).
VerificationsAreBounded == TypeOK /\ EscalatedWasTried
=============================================================================
