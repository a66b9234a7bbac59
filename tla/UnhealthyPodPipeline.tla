------------------------ MODULE UnhealthyPodPipeline ------------------------
(***************************************************************************)
(* backend/app/remediation/pipeline.py: POST /incidents/demo/unhealthy-pod *)
(* runs evidence -> runbook -> risk -> OPA -> delete one pod -> verify,    *)
(* with at most MaxAttempts attempts, inside one request and one database  *)
(* session.                                                                *)
(*                                                                         *)
(* What makes it hard: the session is created with expire_on_commit=False  *)
(* and the incident row is never re-read, so the pipeline carries its own  *)
(* copy of the incident across long waits (Kubernetes, OPA, verification)  *)
(* while operators may change the row through PATCH /incidents, /resolve   *)
(* and /transitions; several pipelines may work on the same pods; and a    *)
(* failure rolls the open transaction back after the cluster was changed.  *)
(*                                                                         *)
(* db is what is committed, ses is the session's copy with the uncommitted *)
(* writes.  A session that has flushed an update of the incident row holds *)
(* the row lock until it commits or rolls back (pc in Locking).            *)
(***************************************************************************)
EXTENDS Naturals, FiniteSets, IncidentStates

CONSTANTS
  Runs,         \* pipeline requests; run r creates and works on incident r
  Pods,         \* names of pods, each used at most once by the controller
  Replicas,     \* desired (and expected) replicas of the Deployment
  MaxAttempts,  \* settings.max_remediation_attempts
  Requests,     \* operator requests, each handled once
  OpTargets,    \* the states operators ask for
  NoPod         \* current_pod is None

ASSUME MaxAttemptsAssumption == MaxAttempts \in 1..3
ASSUME ReplicasAssumption == Replicas \in Nat
ASSUME OpTargetsAssumption == OpTargets \subseteq IncidentState
ASSUME NoPodAssumption == NoPod \notin Pods

VARIABLES
  pod,      \* pod[p]: the cluster's view of pod p
  pc,       \* pc[r]: where run r is waiting
  db,       \* db[r]: committed rows of incident r
  ses,      \* ses[r]: the rows as run r's session sees and has changed them
  attempt,  \* attempt[r]: loop variable of _process
  seen,     \* seen[r]: unhealthy pods in the last evidence snapshot
  target,   \* target[r]: current_pod
  req,      \* req[q]: state of operator request q
  deleted,  \* history: <<attempt, pod>> of deletions the cluster carried out
  judged,   \* history: <<pod, verdict>> of the OPA evaluations of run r
  verified, \* history: run r saw a verification succeed
  forced    \* history: an operator has written incident r

vars == <<pod, pc, db, ses, attempt, seen, target, req,
          deleted, judged, verified, forced>>
history == <<deleted, judged, verified, forced>>

PodState == {"unborn", "unready", "ready", "gone"}
Verdict == {"ALLOW", "APPROVAL_REQUIRED", "DENY"}
RecordStatus == {"none", "PENDING", "RUNNING", "SUCCEEDED", "FAILED",
                 "REJECTED"}
PC == {"idle", "created", "collecting", "evidenced", "policy", "attempt",
       "acting", "deleting", "deleted", "verifying", "recollect", "repolicy",
       "refreshed", "done", "crashed"}

\* Steps at which the session has flushed an update of the incident row.
Locking == {"collecting", "policy", "acting", "deleting", "deleted",
            "recollect", "repolicy"}

Attempts == 1..MaxAttempts
Rows == [state: IncidentState \cup {"none"}, retry: 0..MaxAttempts,
         proposal: RecordStatus, exec: [Attempts -> RecordStatus],
         policy: SUBSET (Pods \X Verdict)]
NoRows == [state |-> "none", retry |-> 0, proposal |-> "none",
           exec |-> [k \in Attempts |-> "none"], policy |-> {}]
Request == [step: {"new", "read", "done"}, inc: Runs, at: IncidentState,
            to: IncidentState, force: BOOLEAN]

Unready == {p \in Pods : pod[p] = "unready"}
Ready == {p \in Pods : pod[p] = "ready"}
Live == Unready \cup Ready

Init ==
  /\ pod \in [Pods -> {"unborn", "unready", "ready"}]
  /\ Cardinality(Live) = Replicas
  /\ pc = [r \in Runs |-> "idle"]
  /\ db = [r \in Runs |-> NoRows]
  /\ ses = [r \in Runs |-> NoRows]
  /\ attempt = [r \in Runs |-> 1]
  /\ seen = [r \in Runs |-> {}]
  /\ target = [r \in Runs |-> NoPod]
  /\ req \in [Requests -> [step: {"new"}, inc: Runs, at: {"DETECTED"},
                           to: OpTargets, force: BOOLEAN]]
  /\ deleted = [r \in Runs |-> {}]
  /\ judged = [r \in Runs |-> {}]
  /\ verified = [r \in Runs |-> FALSE]
  /\ forced = [r \in Runs |-> FALSE]

-----------------------------------------------------------------------------
(* The session.  Flush(r, row): uncommitted write; Commit(r, row): the     *)
(* whole row is what the session holds, because every transaction of the   *)
(* pipeline that commits also writes incident.state.                       *)

Goto(r, step) == pc' = [pc EXCEPT ![r] = step]
Flush(r, row) == ses' = [ses EXCEPT ![r] = row] /\ UNCHANGED db
Commit(r, row) ==
  /\ ses' = [ses EXCEPT ![r] = row]
  /\ db' = [db EXCEPT ![r] = row]

-----------------------------------------------------------------------------
(* Slips a maintainer could make; the runs show that the properties below  *)
(* notice each of them.                                                    *)

\* The retry loop forgets its bound.
RetryUnbounded(r) ==
  /\ pc[r] = "verifying"
  /\ Flush(r, [ses[r] EXCEPT !.state = "EXECUTING"])
  /\ Goto(r, "recollect")
  /\ UNCHANGED <<pod, attempt, seen, target, req, history>>

\* The newly found target is deleted on the first target's decision.
RecollectUnjudged(r) ==
  /\ pc[r] = "recollect"
  /\ seen' = [seen EXCEPT ![r] = Unready]
  /\ \E p \in Unready \cup {NoPod} : target' = [target EXCEPT ![r] = p]
  /\ Commit(r, ses[r])
  /\ attempt' = [attempt EXCEPT ![r] = @ + 1]
  /\ Goto(r, "attempt")
  /\ UNCHANGED <<pod, req, history>>

\* The retry keeps the attempt number of the attempt that failed.
RecollectSameAttempt(r) ==
  /\ pc[r] = "recollect"
  /\ seen' = [seen EXCEPT ![r] = Unready]
  /\ target' = [target EXCEPT ![r] = NoPod]
  /\ Commit(r, ses[r])
  /\ Goto(r, "attempt")
  /\ UNCHANGED <<pod, attempt, req, history>>

RetryAllowedSameAttempt(r) ==
  /\ pc[r] = "repolicy"
  /\ judged' = [judged EXCEPT ![r] = @ \cup {<<target[r], "ALLOW">>}]
  /\ Commit(r, [ses[r] EXCEPT !.policy = @ \cup {<<target[r], "ALLOW">>}])
  /\ Goto(r, "attempt")
  /\ UNCHANGED <<pod, attempt, seen, target, req, deleted, verified, forced>>

\* The outcome of the deletion stays in the open transaction.
RecordDeletionLate(r) ==
  /\ pc[r] = "deleted"
  /\ Flush(r, [ses[r] EXCEPT !.exec[attempt[r]] = "SUCCEEDED",
                             !.state = "VERIFYING"])
  /\ Goto(r, "verifying")
  /\ UNCHANGED <<pod, attempt, seen, target, req, history>>

\* The error handler answers the request without moving the incident.
AnswerErrorOnly(r) ==
  /\ pc[r] = "refreshed"
  /\ Goto(r, "done")
  /\ UNCHANGED <<pod, db, ses, attempt, seen, target, req, history>>

-----------------------------------------------------------------------------
(* The steps of a run.                                                     *)

\* create_incident and the commit in run().
Create(r) ==
  /\ pc[r] = "idle"
  /\ Commit(r, [NoRows EXCEPT !.state = "DETECTED"])
  /\ Goto(r, "created")
  /\ UNCHANGED <<pod, attempt, seen, target, req, history>>

\* _process up to the first wait: COLLECTING_EVIDENCE is flushed.
BeginEvidence(r) ==
  /\ pc[r] = "created"
  /\ Flush(r, [ses[r] EXCEPT !.state = "COLLECTING_EVIDENCE"])
  /\ Goto(r, "collecting")
  /\ UNCHANGED <<pod, attempt, seen, target, req, history>>

\* Kubernetes and service-health snapshots are stored and committed.
CollectEvidence(r) ==
  /\ pc[r] = "collecting"
  /\ seen' = [seen EXCEPT ![r] = Unready]
  /\ Commit(r, ses[r])
  /\ Goto(r, "evidenced")
  /\ UNCHANGED <<pod, attempt, target, req, history>>

\* _select_unhealthy_pod, runbook match, preconditions, risk and proposal;
\* CLASSIFYING, ACTION_PROPOSED and POLICY_EVALUATION in one transaction.
Propose(r) ==
  /\ pc[r] = "evidenced"
  /\ \E p \in Pods :
       /\ seen[r] = {p}
       /\ target' = [target EXCEPT ![r] = p]
  /\ Flush(r, [ses[r] EXCEPT !.state = "POLICY_EVALUATION",
                             !.proposal = "PENDING"])
  /\ Goto(r, "policy")
  /\ UNCHANGED <<pod, attempt, seen, req, history>>

\* What the first OPA answer makes of the incident and of the proposal.
StateAfter == [ALLOW |-> "EXECUTING", APPROVAL_REQUIRED |-> "AWAITING_APPROVAL",
               DENY |-> "BLOCKED"]
ProposalAfter == [ALLOW |-> "RUNNING", APPROVAL_REQUIRED |-> "PENDING",
                  DENY |-> "REJECTED"]

\* The OPA answer is stored with the state it leads to, and committed.
EvaluatePolicy(r) ==
  /\ pc[r] = "policy"
  /\ \E v \in Verdict :
       /\ judged' = [judged EXCEPT ![r] = @ \cup {<<target[r], v>>}]
       /\ Commit(r, [ses[r] EXCEPT !.state = StateAfter[v],
                                   !.proposal = ProposalAfter[v],
                                   !.policy = @ \cup {<<target[r], v>>}])
       /\ Goto(r, IF v = "ALLOW" THEN "attempt" ELSE "done")
  /\ UNCHANGED <<pod, attempt, seen, target, req, deleted, verified, forced>>

\* Head of the attempt loop: retry_count and the RUNNING execution row.
BeginAttempt(r) ==
  /\ pc[r] = "attempt"
  /\ Flush(r, [ses[r] EXCEPT !.retry = attempt[r],
                             !.exec[attempt[r]] = "RUNNING"])
  /\ Goto(r, "acting")
  /\ UNCHANGED <<pod, attempt, seen, target, req, history>>

\* No unhealthy pod remained: the execution is recorded as FAILED and the
\* attempt goes straight to verification.
SkipAction(r) ==
  /\ pc[r] = "acting"
  /\ target[r] = NoPod
  /\ Commit(r, [ses[r] EXCEPT !.exec[attempt[r]] = "FAILED",
                              !.state = "VERIFYING"])
  /\ Goto(r, "verifying")
  /\ UNCHANGED <<pod, attempt, seen, target, req, history>>

\* delete_pod, first half: the pod is read again and must not be ready.
CheckPod(r) ==
  /\ pc[r] = "acting"
  /\ target[r] \in Unready
  /\ Goto(r, "deleting")
  /\ UNCHANGED <<pod, db, ses, attempt, seen, target, req, history>>

\* delete_pod, second half: the cluster deletes the pod.
DeletePod(r) ==
  /\ pc[r] = "deleting"
  /\ target[r] \in Live
  /\ pod' = [pod EXCEPT ![target[r]] = "gone"]
  /\ deleted' = [deleted EXCEPT ![r] = @ \cup {<<attempt[r], target[r]>>}]
  /\ Goto(r, "deleted")
  /\ UNCHANGED <<db, ses, attempt, seen, target, req, judged, verified,
                 forced>>

\* The execution's success, its audit event and VERIFYING are committed.
RecordDeletion(r) ==
  /\ pc[r] = "deleted"
  /\ Commit(r, [ses[r] EXCEPT !.exec[attempt[r]] = "SUCCEEDED",
                              !.state = "VERIFYING"])
  /\ Goto(r, "verifying")
  /\ UNCHANGED <<pod, attempt, seen, target, req, history>>

\* verify_until returns success: one poll saw exactly the expected replicas.
VerifySucceeds(r) ==
  /\ pc[r] = "verifying"
  /\ Cardinality(Ready) = Replicas
  /\ verified' = [verified EXCEPT ![r] = TRUE]
  /\ Commit(r, [ses[r] EXCEPT !.proposal = "SUCCEEDED", !.state = "RESOLVED"])
  /\ Goto(r, "done")
  /\ UNCHANGED <<pod, attempt, seen, target, req, deleted, judged, forced>>

\* verify_until times out and an attempt is left: EXECUTING is flushed.
VerifyFailsRetry(r) ==
  /\ pc[r] = "verifying"
  /\ attempt[r] < MaxAttempts
  /\ Flush(r, [ses[r] EXCEPT !.state = "EXECUTING"])
  /\ Goto(r, "recollect")
  /\ UNCHANGED <<pod, attempt, seen, target, req, history>>

\* verify_until times out on the last attempt: FAILED and ESCALATED.
VerifyFailsLast(r) ==
  /\ pc[r] = "verifying"
  /\ attempt[r] = MaxAttempts
  /\ Commit(r, [ses[r] EXCEPT !.proposal = "FAILED", !.state = "ESCALATED"])
  /\ Goto(r, "done")
  /\ UNCHANGED <<pod, attempt, seen, target, req, history>>

\* Fresh evidence for the retry: exactly one unhealthy pod becomes the new
\* target and must be judged again; otherwise there is no target.
Recollect(r) ==
  /\ pc[r] = "recollect"
  /\ seen' = [seen EXCEPT ![r] = Unready]
  /\ \/ \E p \in Pods :
          /\ Unready = {p}
          /\ target' = [target EXCEPT ![r] = p]
          /\ Goto(r, "repolicy")
          /\ UNCHANGED <<db, ses, attempt>>
     \/ /\ Cardinality(Unready) # 1
        /\ target' = [target EXCEPT ![r] = NoPod]
        /\ Commit(r, ses[r])
        /\ attempt' = [attempt EXCEPT ![r] = @ + 1]
        /\ Goto(r, "attempt")
  /\ UNCHANGED <<pod, req, history>>

\* The retry target is allowed: the decision is committed and the loop turns.
RetryAllowed(r) ==
  /\ pc[r] = "repolicy"
  /\ judged' = [judged EXCEPT ![r] = @ \cup {<<target[r], "ALLOW">>}]
  /\ Commit(r, [ses[r] EXCEPT !.policy = @ \cup {<<target[r], "ALLOW">>}])
  /\ attempt' = [attempt EXCEPT ![r] = @ + 1]
  /\ Goto(r, "attempt")
  /\ UNCHANGED <<pod, seen, target, req, deleted, verified, forced>>

\* The retry target is not allowed: RETRY_POLICY_DENIED is raised, and run()
\* rolls the transaction back, the PolicyDecision row with it.
RetryDenied(r) ==
  /\ pc[r] = "repolicy"
  /\ \E v \in Verdict \ {"ALLOW"} :
       judged' = [judged EXCEPT ![r] = @ \cup {<<target[r], v>>}]
  /\ Flush(r, db[r])
  /\ Goto(r, "refreshed")
  /\ UNCHANGED <<pod, attempt, seen, target, req, deleted, verified, forced>>

-----------------------------------------------------------------------------
(* Errors.                                                                 *)

\* Steps at which a CloudWardError can be raised by what the step calls.  At
\* "deleted" the API server's answer is an error although the pod is gone.
MayRaise(r) ==
  \/ pc[r] \in {"collecting", "recollect", "evidenced", "deleting", "deleted"}
  \/ pc[r] = "acting" /\ target[r] # NoPod

\* except CloudWardError in run(): rollback and refresh.
RaiseError(r) ==
  /\ MayRaise(r)
  /\ Flush(r, db[r])
  /\ Goto(r, "refreshed")
  /\ UNCHANGED <<pod, attempt, seen, target, req, history>>

\* The incident is escalated unless the refreshed row is already terminal.
Escalate(r) ==
  /\ pc[r] = "refreshed"
  /\ IF ses[r].state \in TerminalState
     THEN UNCHANGED <<db, ses>>
     ELSE /\ ses' = [ses EXCEPT ![r].state = "ESCALATED"]
          /\ db' = [db EXCEPT ![r].state = "ESCALATED"]
  /\ Goto(r, "done")
  /\ UNCHANGED <<pod, attempt, seen, target, req, history>>

\* Any other exception, or the loss of the process: the session's open
\* transaction is rolled back and nobody resumes the run.
Crash(r) ==
  /\ pc[r] \notin {"idle", "done", "crashed"}
  /\ Goto(r, "crashed")
  /\ UNCHANGED <<pod, db, ses, attempt, seen, target, req, history>>

-----------------------------------------------------------------------------
(* Operators: get_incident reads the committed row, then the change is     *)
(* written and committed once the row lock is free.                        *)

OperatorRead(q) ==
  /\ req[q].step = "new"
  /\ db[req[q].inc].state # "none"
  /\ req' = [req EXCEPT ![q].step = "read",
                        ![q].at = db[req[q].inc].state]
  /\ UNCHANGED <<pod, pc, db, ses, attempt, seen, target, history>>

\* PATCH and /resolve force the move, /transitions checks the table.
OperatorWrite(q) ==
  LET i == req[q].inc IN
  /\ req[q].step = "read"
  /\ pc[i] \notin Locking
  /\ req' = [req EXCEPT ![q].step = "done"]
  /\ IF /\ req[q].at # req[q].to
        /\ MayMove(req[q].at, req[q].to, req[q].force)
     THEN /\ db' = [db EXCEPT ![i].state = req[q].to]
          /\ forced' = [forced EXCEPT ![i] = TRUE]
     ELSE UNCHANGED <<db, forced>>
  /\ UNCHANGED <<pod, pc, ses, attempt, seen, target, deleted, judged,
                 verified>>

-----------------------------------------------------------------------------
(* The cluster: readiness changes, and the ReplicaSet controller replaces  *)
(* missing pods under fresh names.                                         *)

PodFails(p) ==
  /\ pod[p] = "ready"
  /\ pod' = [pod EXCEPT ![p] = "unready"]
  /\ UNCHANGED <<pc, db, ses, attempt, seen, target, req, history>>

PodRecovers(p) ==
  /\ pod[p] = "unready"
  /\ pod' = [pod EXCEPT ![p] = "ready"]
  /\ UNCHANGED <<pc, db, ses, attempt, seen, target, req, history>>

ReplacePod(p) ==
  /\ pod[p] = "unborn"
  /\ Cardinality(Live) < Replicas
  /\ pod' = [pod EXCEPT ![p] = "unready"]
  /\ UNCHANGED <<pc, db, ses, attempt, seen, target, req, history>>

-----------------------------------------------------------------------------
Step(r) ==
  \/ Create(r) \/ BeginEvidence(r) \/ CollectEvidence(r) \/ Propose(r)
  \/ EvaluatePolicy(r) \/ BeginAttempt(r) \/ SkipAction(r) \/ CheckPod(r)
  \/ DeletePod(r) \/ RecordDeletion(r)
  \/ VerifySucceeds(r) \/ VerifyFailsRetry(r) \/ VerifyFailsLast(r)
  \/ Recollect(r) \/ RetryAllowed(r) \/ RetryDenied(r)
  \/ RaiseError(r) \/ Escalate(r)

Environment ==
  \/ \E r \in Runs : Crash(r)
  \/ \E q \in Requests : OperatorRead(q) \/ OperatorWrite(q)
  \/ \E p \in Pods : PodFails(p) \/ PodRecovers(p) \/ ReplacePod(p)

Next == (\E r \in Runs : Step(r)) \/ Environment

Spec == Init /\ [][Next]_vars

\* A started request keeps running: the event loop schedules it, and each of
\* its waits ends in an answer, an error or a timeout.
FairSpec == Spec /\ \A r \in Runs : WF_vars(pc[r] # "idle" /\ Step(r))

-----------------------------------------------------------------------------
(* Properties.                                                             *)

\* Every variable has its type: in particular the loop never runs an attempt
\* beyond max_remediation_attempts, and only rows the schema has are written.
TypeOK ==
  /\ pod \in [Pods -> PodState]
  /\ pc \in [Runs -> PC]
  /\ db \in [Runs -> Rows]
  /\ ses \in [Runs -> Rows]
  /\ attempt \in [Runs -> Attempts]
  /\ seen \in [Runs -> SUBSET Pods]
  /\ target \in [Runs -> Pods \cup {NoPod}]
  /\ req \in [Requests -> Request]
  /\ deleted \in [Runs -> SUBSET (Attempts \X Pods)]
  /\ judged \in [Runs -> SUBSET (Pods \X Verdict)]
  /\ verified \in [Runs -> BOOLEAN]
  /\ forced \in [Runs -> BOOLEAN]

\* A pod is deleted only when a committed PolicyDecision row allows that very
\* pod, also when the target was found again for a retry and also when the
\* run is rolled back or lost afterwards.
DeletionsAuthorized ==
  \A r \in Runs : \A d \in deleted[r] : <<d[2], "ALLOW">> \in db[r].policy

\* A deletion the cluster carried out is on record as a SUCCEEDED execution
\* of its attempt, unless that attempt ended the run: by a crash, or by an
\* error that escalated the incident (or left an operator's terminal state).
\* No execution is on record as SUCCEEDED without its deletion.
DeletionsAccounted ==
  \A r \in Runs :
    /\ \A d \in deleted[r] :
         \/ db[r].exec[d[1]] = "SUCCEEDED"
         \/ /\ d[1] = attempt[r]
            /\ \/ pc[r] \in {"deleted", "refreshed", "crashed"}
               \/ pc[r] = "done" /\ (forced[r] \/ db[r].state = "ESCALATED")
    /\ \A k \in Attempts :
         db[r].exec[k] = "SUCCEEDED" => \E p \in Pods : <<k, p>> \in deleted[r]

\* One attempt deletes at most one pod, so a run deletes at most MaxAttempts
\* pods, whatever fails and recovers meanwhile.
OneDeletionPerAttempt ==
  \A r \in Runs : \A d, e \in deleted[r] : d[1] = e[1] => d = e

\* Unless an operator wrote the incident, RESOLVED is stored only after a
\* verification of the cluster succeeded, with a SUCCEEDED proposal.
ResolvedIsVerified ==
  \A r \in Runs :
    ~forced[r] /\ db[r].state = "RESOLVED"
      => verified[r] /\ db[r].proposal = "SUCCEEDED"

\* A request that returns leaves no half-way incident: it is terminal or
\* waits for a human, and the proposal agrees with it.
FinishedRunSettles ==
  \A r \in Runs :
    pc[r] = "done" /\ ~forced[r]
      => \/ db[r].state = "RESOLVED" /\ db[r].proposal = "SUCCEEDED"
         \/ db[r].state = "BLOCKED" /\ db[r].proposal = "REJECTED"
         \/ db[r].state = "AWAITING_APPROVAL" /\ db[r].proposal = "PENDING"
         \/ /\ db[r].state = "ESCALATED"
            /\ db[r].proposal \in {"none", "RUNNING", "FAILED"}

\* Every request ends: with an answer, or with the loss of its process.
EveryRunEnds ==
  \A r \in Runs : pc[r] # "idle" ~> pc[r] \in {"done", "crashed"}

\* A run never claims more than happened (UnhealthyPodPipeline.run): what is
\* RESOLVED was verified, and what has answered is settled.
RunsSettle == ResolvedIsVerified /\ FinishedRunSettles
=============================================================================
