------------------------------ MODULE Quarantine ------------------------------
(***************************************************************************)
(* The quarantine of a pod: apply_quarantine and remove_quarantine of      *)
(* backend/app/security/quarantine.py with the Cilium calls of             *)
(* kubernetes/executor.py, asked for by security administrators and by the *)
(* Incident Lab: start_scenario and stop_execution (api/incident_lab.py)   *)
(* and _reconcile_security_execution (api/internal_reliability.py).        *)
(*                                                                         *)
(* One security event, its incident, its pod.  The event's containment     *)
(* status and the status of its QuarantineRecord are always written        *)
(* together: `status` is both.  A session reads them without a lock, asks  *)
(* OPA, takes the event's row with its first flush, changes the cluster    *)
(* and commits.  That commit also ends the lock on the experiment's row    *)
(* the poll or stop around it had taken.                                   *)
(***************************************************************************)
EXTENDS Naturals, IncidentStates

CONSTANTS
  Appliers,     \* requests of administrators to apply
  Removers,     \* requests of administrators to remove
  Polls,        \* reconcile requests of the monitoring task
  Stops,        \* stop requests of operators
  MaxAttempts,  \* action executions per incident (three)
  MaxFailures,  \* bound on crashes and uncaught exceptions
  Free          \* nobody holds the lock

Sessions == Appliers \cup Removers \cup Polls \cup Stops

VARIABLES
  incident,   \* committed state of the incident ("none": no event yet)
  status,     \* committed containment status ("none": no event yet)
  attempts,   \* committed number of ActionExecutions
  lab,        \* committed status of the ChaosExecution ("none": not started)
  linked,     \* committed: its details name the event
  monitor,    \* the monitoring task: "unsent", "polling" or "gone"
  owed,       \* start_scenario has still to commit the id of that task
  expired,    \* the cleanup deadline has passed
  policy,     \* the cluster has the CiliumNetworkPolicy
  label,      \* the pod has the quarantine label
  pod,        \* the pod exists
  lock,       \* who holds the event's row
  labLock,    \* who holds the experiment's row
  ses,        \* ses[s]: session s
  torn,       \* history: a session was lost after it had changed the cluster
  fails       \* crashes so far

rows == <<incident, status, attempts>>
labRows == <<lab, linked, monitor>>
cluster == <<policy, label, pod>>
vars == <<rows, labRows, owed, expired, cluster, lock, labLock, ses, torn, fails>>

Active == {"RUNNING", "STOPPING"}
Ended == {"SUCCEEDED", "FAILED", "TIMED_OUT", "CANCELLED"}
Unrecorded == {"NOT_PROPOSED", "PROPOSED", "AWAITING_APPROVAL"}
Recorded == {"CONTAINED", "VERIFICATION_FAILED", "REMOVING", "REMOVED"}

\* A session: the state of the incident and the containment it has read (and
\* changed), whether it has written the incident or the cluster, whether it
\* leaves a record REMOVING, and `goal`: what the poll or stop around it will
\* make of the experiment ("none": nothing yet, "api": there is none).
Idle == [step |-> "idle", goal |-> "api", at |-> "none", seen |-> "none",
         wrote |-> FALSE, touched |-> FALSE, marked |-> FALSE]

Init ==
  /\ incident = "none"
  /\ status = "none"
  /\ attempts = 0
  /\ lab = "none"
  /\ linked = FALSE
  /\ monitor = "unsent"
  /\ owed = FALSE
  /\ expired = FALSE
  /\ policy = FALSE
  /\ label = FALSE
  /\ pod = TRUE
  /\ lock = Free
  /\ labLock = Free
  /\ ses = [s \in Sessions |-> Idle]
  /\ torn = FALSE
  /\ fails = 0

\* The monitoring task polls again and again; a request is made once.
Over(s) == IF s \in Polls THEN Idle ELSE [Idle EXCEPT !.step = "done"]

Set(s, r) == ses' = [ses EXCEPT ![s] = r]
Step(r, step) == [r EXCEPT !.step = step]
Release(s) ==
  /\ lock' = IF lock = s THEN Free ELSE lock
  /\ labLock' = IF labLock = s THEN Free ELSE labLock

-----------------------------------------------------------------------------
(* Ends of a session and of the quarantine call inside it.                 *)

\* An error nobody catches: the rows are rolled back, the cluster stays.
Abort(s) ==
  /\ Set(s, Over(s))
  /\ Release(s)
  /\ torn' = (torn \/ ses[s].touched)
  /\ UNCHANGED <<rows, labRows>>

\* The commit of the call writes whatever the session has changed: also the
\* details of the experiment and the STOPPING of a stop.
CommitCall(s, state, containment, n) ==
  /\ incident' = state
  /\ status' = containment
  /\ attempts' = attempts + n
  /\ linked' = (linked \/ s \in Polls)
  /\ lab' = IF ses[s].goal = "CANCELLED" THEN "STOPPING" ELSE lab
  /\ Release(s)

\* The call raises a CloudWardError.  Only the cleanup of a failed or timed
\* out experiment goes on.
Raised(s) == IF ses[s].goal \in {"FAILED", "TIMED_OUT"}
             THEN [Idle EXCEPT !.step = "finishing", !.goal = ses[s].goal]
             ELSE Over(s)

\* The call returns.
Returned(s) == CASE ses[s].goal = "api" -> Over(s)
                 [] ses[s].goal = "SUCCEEDED" -> [Idle EXCEPT !.step = "refreshing", !.goal = "SUCCEEDED"]
                 [] OTHER -> [Idle EXCEPT !.step = "finishing", !.goal = ses[s].goal]

\* A CloudWardError before anything was committed.
RaiseUncommitted(s) ==
  IF Raised(s) = Over(s) THEN Abort(s)
  ELSE Set(s, Raised(s)) /\ UNCHANGED <<rows, labRows, lock, labLock, torn>>

\* OPA denies: the decision is committed, and 403 ends the monitoring task.
Deny(s) ==
  /\ lock = Free
  /\ CommitCall(s, incident, status, 0)
  /\ Set(s, Raised(s))
  /\ monitor' = IF s \in Polls /\ Raised(s) = Over(s) THEN "gone" ELSE monitor
  /\ UNCHANGED torn

-----------------------------------------------------------------------------
(* Slips a maintainer could make; the run shows that the properties below  *)
(* notice each of them.                                                    *)

\* A failed removal counts as done.
FailRemoveAsDone(s) ==
  /\ ses[s].step = "unremoved"
  /\ CommitCall(s, incident, "REMOVED", 1)
  /\ Set(s, Raised(s))
  /\ UNCHANGED <<monitor, owed, expired, cluster, torn, fails>>

\* The outcome of the removal is not looked at: the experiment succeeded.
ConcludeAnyway(c, i) == "SUCCEEDED"

\* The deadline is not looked at: a poll only removes what is CONTAINED.
StartPollNoDeadline(s) ==
  /\ s \in Polls
  /\ ses[s] = Idle
  /\ lab \in Active
  /\ monitor = "polling"
  /\ labLock = Free
  /\ status = "CONTAINED"
  /\ Set(s, [Idle EXCEPT !.step = "reauthorizing", !.goal = "SUCCEEDED",
             !.at = incident])
  /\ labLock' = s
  /\ UNCHANGED <<rows, labRows, owed, expired, cluster, lock, torn, fails>>

-----------------------------------------------------------------------------
(* The experiment begins, and what happens around it.                      *)

\* trigger_controlled_security_scenario: any answer but the safe one of a
\* ready pod raises, and nothing is committed.
Triggered == pod

\* start_scenario: the fixed endpoint of a ready pod is called and the
\* experiment committed; an active one refuses a second start.
StartScenario ==
  /\ lab = "none"
  /\ Triggered
  /\ lab' = "RUNNING"
  /\ UNCHANGED <<rows, linked, monitor, owed, expired, cluster, lock, labLock, ses, torn, fails>>

\* Its monitoring task is sent after the commit; when the broker refuses it,
\* nobody polls.
SendMonitor ==
  /\ lab # "none"
  /\ monitor = "unsent"
  /\ monitor' \in {"polling", "gone"}
  /\ owed' = (monitor' = "polling")
  /\ UNCHANGED <<rows, lab, linked, expired, cluster, lock, labLock, ses, torn, fails>>

\* The id of the task is then written into the details as they were at the
\* start: an event a quick poll has recorded there is forgotten again.
NoteMonitor ==
  /\ owed
  /\ labLock = Free
  /\ linked' = FALSE
  /\ owed' = FALSE
  /\ UNCHANGED <<rows, lab, monitor, expired, cluster, lock, labLock, ses, torn, fails>>

\* The event arrives (SecurityEvents): policy allows, asks a human or refuses.
Detect ==
  /\ lab # "none"
  /\ status = "none"
  /\ \E o \in {<<"POLICY_EVALUATION", "PROPOSED">>,
               <<"AWAITING_APPROVAL", "AWAITING_APPROVAL">>,
               <<"BLOCKED", "NOT_PROPOSED">>} :
       /\ incident' = o[1]
       /\ status' = o[2]
  /\ UNCHANGED <<attempts, labRows, owed, expired, cluster, lock, labLock, ses, torn, fails>>

\* An operator or a rejected approval blocks the incident; its row may be
\* held by the session that has written it.
Block ==
  /\ incident \in {"POLICY_EVALUATION", "AWAITING_APPROVAL", "VERIFYING"}
  /\ MayMove(incident, "BLOCKED", FALSE)
  /\ lock # Free => ~ ses[lock].wrote
  /\ incident' = "BLOCKED"
  /\ UNCHANGED <<status, attempts, labRows, owed, expired, cluster, lock, labLock, ses, torn, fails>>

\* The pod is replaced by another: the label goes with it, the policy stays.
PodGone ==
  /\ pod
  /\ lab # "none"
  /\ pod' = FALSE
  /\ label' = FALSE
  /\ UNCHANGED <<rows, labRows, owed, expired, policy, lock, labLock, ses, torn, fails>>

\* cleanup_deadline passes.
Expire ==
  /\ lab \in Active
  /\ ~ expired
  /\ expired' = TRUE
  /\ UNCHANGED <<rows, labRows, owed, cluster, lock, labLock, ses, torn, fails>>

-----------------------------------------------------------------------------
(* apply_quarantine.                                                       *)

\* An administrator asks; an existing containment is returned as it is.
BeginApply(s) ==
  /\ s \in Appliers
  /\ ses[s] = Idle
  /\ status \notin {"none", "CONTAINED"}
  /\ incident \notin TerminalState
  /\ Set(s, [Idle EXCEPT !.step = "authorizing", !.at = incident, !.seen = status])
  /\ UNCHANGED <<rows, labRows, owed, expired, cluster, lock, labLock, torn, fails>>

\* get_pod_health, then OPA (_authorize): its answer is not known beforehand.
AuthorizeApply(s) ==
  /\ ses[s].step = "authorizing"
  /\ \/ ~ pod /\ RaiseUncommitted(s)
     \/ pod /\ Deny(s)
     \/ /\ pod
        /\ Set(s, Step(ses[s], "claiming"))
        /\ UNCHANGED <<rows, labRows, lock, labLock, torn>>
  /\ UNCHANGED <<owed, expired, cluster, fails>>

\* APPLYING and the ActionExecution are flushed, which takes the event's row.
\* A second record with the same policy_name is refused by its unique index,
\* a fourth attempt by _new_execution; both before the `try`.
ClaimApply(s) ==
  /\ ses[s].step = "claiming"
  /\ lock = Free
  /\ LET r == ses[s]
         clash == r.seen \in Unrecorded \cup {"REMOVED"} /\ status \in Recorded
         moves == r.at \in {"POLICY_EVALUATION", "AWAITING_APPROVAL"} IN
     IF clash \/ attempts = MaxAttempts
     THEN Abort(s)
     ELSE /\ Set(s, [r EXCEPT !.step = "probing", !.wrote = moves,
                              !.at = IF moves THEN "EXECUTING" ELSE r.at])
          /\ lock' = s
          /\ UNCHANGED <<rows, labRows, labLock, torn>>
  /\ UNCHANGED <<owed, expired, cluster, fails>>

\* The egress must be open before: it is not behind an enforced policy.
Probe(s) ==
  /\ ses[s].step = "probing"
  /\ \/ /\ pod /\ ~ (policy /\ label)
        /\ Set(s, Step(ses[s], "labelling"))
     \/ Set(s, Step(ses[s], "failing"))
  /\ UNCHANGED <<rows, labRows, owed, expired, cluster, lock, labLock, torn, fails>>

\* apply_quarantine_policy looks at the pod and patches it; a patch the API
\* refuses is no CloudWardError.
Label(s) ==
  /\ ses[s].step = "labelling"
  /\ \/ /\ pod
        /\ label' = TRUE
        /\ Set(s, [ses[s] EXCEPT !.step = "creating", !.touched = TRUE])
        /\ UNCHANGED <<rows, labRows, lock, labLock, torn>>
     \/ /\ ~ pod
        /\ Set(s, Step(ses[s], "failing"))
        /\ UNCHANGED <<rows, labRows, label, lock, labLock, torn>>
     \/ ~ pod /\ Abort(s) /\ UNCHANGED label
  /\ UNCHANGED <<owed, expired, policy, pod, fails>>

\* The policy is created; when the API refuses it the label is taken back.
\* One that exists already must be enforced.
CreatePolicy(s) ==
  /\ ses[s].step = "creating"
  /\ LET r == ses[s]
         applied == IF r.at = "EXECUTING"
                    THEN [r EXCEPT !.step = "verifying", !.at = "VERIFYING", !.wrote = TRUE]
                    ELSE Step(r, "verifying") IN
     \/ /\ ~ policy
        /\ policy' = TRUE
        /\ Set(s, applied)
        /\ UNCHANGED <<rows, labRows, label, lock, labLock, torn>>
     \/ /\ ~ policy /\ pod
        /\ label' = FALSE
        /\ Set(s, Step(r, "failing"))
        /\ UNCHANGED <<rows, labRows, policy, lock, labLock, torn>>
     \/ /\ ~ policy /\ ~ pod
        /\ Abort(s)
        /\ UNCHANGED <<policy, label>>
     \/ /\ policy
        /\ Set(s, IF pod /\ label THEN applied ELSE Step(r, "failing"))
        /\ UNCHANGED <<rows, labRows, policy, label, lock, labLock, torn>>
  /\ UNCHANGED <<owed, expired, pod, fails>>

\* get_quarantine_policy_state: whether the policy exists and the label matches.
PolicyState == <<policy, label>>

\* _wait_for_containment: the policy is there, the label matches, the egress
\* is shut and the pod ready before the timeout.
Verify(s) ==
  /\ ses[s].step = "verifying"
  /\ \/ /\ PolicyState = <<TRUE, TRUE>> /\ pod
        /\ CommitCall(s, IF ses[s].wrote THEN ses[s].at ELSE incident, "CONTAINED", 1)
        /\ Set(s, Returned(s))
     \/ /\ Set(s, Step(ses[s], "failing"))
        /\ UNCHANGED <<incident, status, attempts, lab, linked, lock, labLock>>
  /\ UNCHANGED <<monitor, owed, expired, cluster, torn, fails>>

\* The handler of CloudWardError: what was applied stays applied.
FailApply(s) ==
  /\ ses[s].step = "failing"
  /\ CommitCall(s, IF ses[s].at \in {"EXECUTING", "VERIFYING"} THEN "ESCALATED"
                   ELSE incident,
                "VERIFICATION_FAILED", 1)
  /\ Set(s, Raised(s))
  /\ UNCHANGED <<monitor, owed, expired, cluster, torn, fails>>

-----------------------------------------------------------------------------
(* remove_quarantine.                                                      *)

\* An administrator asks; a removed record is returned as it is.
BeginRemove(s) ==
  /\ s \in Removers
  /\ ses[s] = Idle
  /\ status \in Recorded \ {"REMOVED"}
  /\ Set(s, [Idle EXCEPT !.step = "reauthorizing", !.at = incident])
  /\ UNCHANGED <<rows, labRows, owed, expired, cluster, lock, labLock, torn, fails>>

AuthorizeRemove(s) ==
  /\ ses[s].step = "reauthorizing"
  /\ \/ ~ pod /\ RaiseUncommitted(s)
     \/ pod /\ Deny(s)
     \/ /\ pod
        /\ Set(s, Step(ses[s], "reclaiming"))
        /\ UNCHANGED <<rows, labRows, lock, labLock, torn>>
  /\ UNCHANGED <<owed, expired, cluster, fails>>

\* REMOVING is flushed.  At the attempt limit the error leaves it in the
\* session, where the caller that goes on commits it.
ClaimRemove(s) ==
  /\ ses[s].step = "reclaiming"
  /\ lock = Free
  /\ \/ /\ attempts < MaxAttempts
        /\ Set(s, Step(ses[s], "deleting"))
        /\ lock' = s
        /\ UNCHANGED <<rows, labRows, labLock, torn>>
     \/ /\ attempts = MaxAttempts /\ Raised(s) # Over(s)
        /\ Set(s, [Raised(s) EXCEPT !.marked = TRUE])
        /\ lock' = s
        /\ UNCHANGED <<rows, labRows, labLock, torn>>
     \/ attempts = MaxAttempts /\ Raised(s) = Over(s) /\ Abort(s)
  /\ UNCHANGED <<owed, expired, cluster, fails>>

\* remove_quarantine_policy deletes the policy,
DeletePolicy(s) ==
  /\ ses[s].step = "deleting"
  /\ \/ /\ pod
        /\ policy' = FALSE
        /\ Set(s, [ses[s] EXCEPT !.step = "unlabelling", !.touched = TRUE])
     \/ /\ UNCHANGED policy
        /\ Set(s, Step(ses[s], "unremoved"))
  /\ UNCHANGED <<rows, labRows, owed, expired, label, pod, lock, labLock, torn, fails>>

\* then the label: a patch the API refuses is no CloudWardError.
Unlabel(s) ==
  /\ ses[s].step = "unlabelling"
  /\ \/ /\ pod
        /\ label' = FALSE
        /\ Set(s, Step(ses[s], "checking"))
        /\ UNCHANGED <<rows, labRows, lock, labLock, torn>>
     \/ ~ pod /\ Abort(s) /\ UNCHANGED label
  /\ UNCHANGED <<owed, expired, policy, pod, fails>>

\* _wait_for_release: policy and label are gone and the egress is open.
CheckRelease(s) ==
  /\ ses[s].step = "checking"
  /\ \/ /\ PolicyState = <<FALSE, FALSE>> /\ pod
        /\ CommitCall(s, IF ses[s].at = "VERIFYING" THEN "RESOLVED" ELSE incident,
                      "REMOVED", 1)
        /\ Set(s, Returned(s))
     \/ /\ Set(s, Step(ses[s], "unremoved"))
        /\ UNCHANGED <<incident, status, attempts, lab, linked, lock, labLock>>
  /\ UNCHANGED <<monitor, owed, expired, cluster, torn, fails>>

FailRemove(s) ==
  /\ ses[s].step = "unremoved"
  /\ CommitCall(s, incident, "VERIFICATION_FAILED", 1)
  /\ Set(s, Raised(s))
  /\ UNCHANGED <<monitor, owed, expired, cluster, torn, fails>>

-----------------------------------------------------------------------------
(* The Incident Lab.                                                       *)

\* _remove_security_containment asks for a removal where there is something
\* to remove, and the experiment then ends as `goal`.
Cleanup(goal) ==
  IF status \in Unrecorded \cup {"REMOVED"}
  THEN [Idle EXCEPT !.step = "finishing", !.goal = goal]
  ELSE [Idle EXCEPT !.step = "reauthorizing", !.goal = goal, !.at = incident]

\* What the containment and the incident say of the experiment.
Conclude(c, i) ==
  CASE c = "REMOVED" /\ i = "RESOLVED" -> "SUCCEEDED"
    [] c = "VERIFICATION_FAILED" \/ i \in {"BLOCKED", "ESCALATED"} -> "FAILED"
    [] OTHER -> "none"

\* How a poll goes on once it has read the rows and the clock.
Course ==
  LET end(goal) == [Idle EXCEPT !.step = "finishing", !.goal = goal] IN
  CASE expired /\ status = "none" -> end("TIMED_OUT")
    [] expired /\ status # "none" -> Cleanup("TIMED_OUT")
    [] ~ expired /\ status \in {"PROPOSED", "AWAITING_APPROVAL"} ->
         IF incident \in TerminalState THEN Idle
         ELSE [Idle EXCEPT !.step = "authorizing", !.goal = "none",
                           !.at = incident, !.seen = status]
    [] ~ expired /\ status = "CONTAINED" -> Cleanup("SUCCEEDED")
    [] OTHER -> IF Conclude(status, incident) = "FAILED" THEN Cleanup("FAILED")
                ELSE end(Conclude(status, incident))

\* reconcile locks the experiment.  (An incident that ended before its event
\* was contained is a 409 of apply_quarantine: the poll is repeated.)
StartPoll(s) ==
  /\ s \in Polls
  /\ ses[s] = Idle
  /\ lab \in Active
  /\ monitor = "polling"
  /\ labLock = Free
  /\ expired \/ status # "none"
  /\ Course # Idle
  /\ Set(s, Course)
  /\ labLock' = s
  /\ UNCHANGED <<rows, labRows, owed, expired, cluster, lock, torn, fails>>

\* After the removal the poll reads the rows again.
Refresh(s) ==
  /\ ses[s].step = "refreshing"
  /\ Set(s, IF Conclude(status, incident) = "FAILED" THEN Cleanup("FAILED")
            ELSE [Idle EXCEPT !.step = "finishing", !.goal = Conclude(status, incident)])
  /\ UNCHANGED <<rows, labRows, owed, expired, cluster, lock, labLock, torn, fails>>

\* The last commit of a poll or stop: the status it has decided on, and
\* whatever a caught error left in the session.  (Nobody reads the details of
\* an experiment that has ended: what start_scenario owes them is forgotten.)
Finish(s) ==
  /\ ses[s].step = "finishing"
  /\ labLock \in {Free, s}
  /\ lab' = IF ses[s].goal = "none" THEN lab ELSE ses[s].goal
  /\ linked' = (linked \/ (s \in Polls /\ status # "none"))
  /\ status' = IF ses[s].marked THEN "REMOVING" ELSE status
  /\ Set(s, Over(s))
  /\ Release(s)
  /\ owed' = (owed /\ lab' \notin Ended)
  /\ UNCHANGED <<incident, attempts, monitor, expired, cluster, torn, fails>>

\* stop_execution: the event is known only once a poll has recorded it.
StartStop(s) ==
  /\ s \in Stops
  /\ ses[s] = Idle
  /\ lab \in Active
  /\ labLock = Free
  /\ Set(s, IF linked THEN Cleanup("CANCELLED")
            ELSE [Idle EXCEPT !.step = "finishing", !.goal = "CANCELLED"])
  /\ labLock' = s
  /\ UNCHANGED <<rows, labRows, owed, expired, cluster, lock, torn, fails>>

-----------------------------------------------------------------------------
\* The API process dies, or something raises what nobody catches.
Crash(s) ==
  /\ fails < MaxFailures
  /\ ses[s] \notin {Idle, Over(s)}
  /\ fails' = fails + 1
  /\ Abort(s)
  /\ UNCHANGED <<owed, expired, cluster>>

\* A removal at its attempt limit keeps the event's row and waits for the
\* experiment's, which a stop holds that waits for the event's: PostgreSQL
\* ends one of the two transactions.
DeadlockDetected(s) ==
  /\ lock # Free /\ labLock # Free
  /\ s \in {lock, labLock}
  /\ ses[lock].step = "finishing" /\ ses[labLock].step \in {"claiming", "reclaiming"}
  /\ Abort(s)
  /\ UNCHANGED <<owed, expired, cluster, fails>>

Move(s) ==
  \/ AuthorizeApply(s) \/ ClaimApply(s) \/ Probe(s) \/ Label(s)
  \/ CreatePolicy(s) \/ Verify(s) \/ FailApply(s)
  \/ AuthorizeRemove(s) \/ ClaimRemove(s) \/ DeletePolicy(s) \/ Unlabel(s)
  \/ CheckRelease(s) \/ FailRemove(s)
  \/ Refresh(s) \/ Finish(s) \/ DeadlockDetected(s)

Next ==
  \/ StartScenario \/ SendMonitor \/ NoteMonitor \/ Detect \/ Block \/ PodGone \/ Expire
  \/ \E s \in Sessions :
       \/ BeginApply(s) \/ BeginRemove(s) \/ StartPoll(s) \/ StartStop(s)
       \/ Move(s) \/ Crash(s)

Spec == Init /\ [][Next]_vars

\* Every call ends (its requests have timeouts), the monitoring task polls
\* again after a poll that ended nothing, and time passes.
FairSpec ==
  /\ Spec
  /\ WF_vars(Expire)
  /\ WF_vars(SendMonitor)
  /\ \A s \in Sessions : WF_vars(Move(s))
  /\ \A s \in Polls : WF_vars(StartPoll(s))

-----------------------------------------------------------------------------
(* Properties.                                                             *)

\* Types, and the locks are held by sessions that are running.
TypeOK ==
  /\ incident \in {"none", "POLICY_EVALUATION", "AWAITING_APPROVAL", "VERIFYING"} \cup TerminalState
  /\ status \in {"none"} \cup Unrecorded \cup Recorded
  /\ attempts \in 0..MaxAttempts
  /\ lab \in {"none"} \cup Active \cup Ended
  /\ monitor \in {"unsent", "polling", "gone"}
  /\ {linked, owed, expired, policy, label, pod, torn} \subseteq BOOLEAN
  /\ lock \in Sessions \cup {Free} /\ labLock \in Sessions \cup {Free}
  /\ fails \in 0..MaxFailures

\* No session is in the middle of changing the cluster, and none was lost
\* there.
Settled == ~ torn /\ \A s \in Sessions : ~ ses[s].touched

\* A containment the console shows as CONTAINED is in force on the pod it
\* names, whatever polls, stops and administrators do at the same time.
ContainedIsEnforced ==
  (status = "CONTAINED" /\ pod /\ Settled) => policy /\ label

\* Nothing stays in the cluster that the records do not show: where there is
\* a policy or a label, some record can still be removed.
NoForgottenPolicy ==
  ((policy \/ label) /\ Settled) => status \in {"CONTAINED", "VERIFICATION_FAILED", "REMOVING"}

\* An incident that a containment failure was committed for is not left
\* waiting: it is escalated or ended otherwise, or the failure was one of
\* the removal.
FailedContainmentEscalates ==
  [][(status' = "VERIFICATION_FAILED" /\ attempts' > attempts
        /\ \E s \in Sessions : ses[s].step = "failing" /\ ses'[s].step # "failing")
     => incident' \in TerminalState]_vars

\* An experiment is called SUCCEEDED only when the containment is gone from
\* the records and its incident resolved, as the rows were read after the
\* removal.
SucceededIsClean ==
  [][\A s \in Sessions :
       (ses'[s].step = "finishing" /\ ses'[s].goal = "SUCCEEDED" /\ ses[s].step # "finishing")
       => status = "REMOVED" /\ incident = "RESOLVED"]_vars
=============================================================================
