------------------------------ MODULE Approvals ------------------------------
(***************************************************************************)
(* Human approval of proposed actions: backend/app/approvals/service.py,   *)
(* its two routes (api/approvals.py and the older one in api/incidents.py) *)
(* and the execution an operator starts from an awaiting or approved       *)
(* incident (security/quarantine.py, apply_quarantine).                    *)
(*                                                                         *)
(* An approval belongs to one proposal of one incident, so `a` names all   *)
(* three.  ApprovalService.decide locks the approval row, then the         *)
(* incident and proposal rows, and decides on what its session holds.  On  *)
(* the queue route the session reads the rows under those locks.  The      *)
(* incident route has loaded them before, and a SELECT ... FOR UPDATE does *)
(* not refresh objects the session already holds, so it decides on the     *)
(* copies it read without a lock.  A session writes only the attributes it *)
(* changed: Put says what an UPDATE leaves in the row.                     *)
(***************************************************************************)
EXTENDS Naturals, IncidentStates

CONSTANTS
  Approvals,   \* one approval, proposal and incident each
  Deciders,    \* requests to approve or reject
  Executors,   \* requests to apply the proposed action
  Operators,   \* requests to change an incident's state
  Routes,      \* routes the deciders use, a subset of {"queue", "incident"}
  OpTargets,   \* the states operators ask for
  Free         \* nobody holds the row lock

ASSUME RoutesAssumption == Routes \subseteq {"queue", "incident"}
\* The states an incident with a proposal is moved to by hand; in the others
\* (those before a proposal, EXECUTING, VERIFYING) no decision is open.
ASSUME OpTargetsAssumption ==
  OpTargets \subseteq {"POLICY_EVALUATION", "AWAITING_APPROVAL"} \cup TerminalState
ASSUME FreeAssumption == Free \notin Deciders \cup Executors
ASSUME RequestsAssumption == Deciders \cap Executors = {}

VARIABLES
  approval,   \* approval[a]: committed decision ("none": no row)
  incident,   \* incident[a]: committed incident state
  proposal,   \* proposal[a]: committed proposal status
  record,     \* record[a]: committed QuarantineRecord status ("none": no row)
  executions, \* executions[a]: number of committed ActionExecution rows
  needs,      \* needs[a]: the latest PolicyDecision row asks for approval
  expired,    \* expired[a]: expires_at has passed
  moved,      \* moved[a]: the live target differs from the proposal
  alock,      \* alock[a]: holder of the approval's row lock
  ilock,      \* ilock[a]: holder of the incident's and proposal's row locks
  dec,        \* dec[d]: a decision request and what its session has read
  exe,        \* exe[x]: an execution request and what its session has read
  opr         \* opr[o]: an operator request and the state it read

rows == <<approval, incident, proposal, record, executions, needs>>
locks == <<alock, ilock>>
world == <<expired, moved>>
vars == <<rows, locks, world, dec, exe, opr>>

Decision == {"PENDING", "APPROVED", "REJECTED", "EXPIRED", "INVALIDATED"}
Decided == Decision \ {"PENDING"}
ProposalStatus == {"PENDING", "SUCCEEDED", "REJECTED"}
RecordStatus == {"none", "CONTAINED", "VERIFICATION_FAILED"}
AttemptLimit == 3

DecRequest ==
  [of: Approvals, want: {"APPROVED", "REJECTED"}, route: Routes,
   step: {"new", "loaded", "locked", "held", "checked", "done"},
   approval: Decision \cup {"none"}, incident: IncidentState,
   proposal: ProposalStatus, inserts: BOOLEAN]
ExeRequest ==
  [of: Approvals, step: {"new", "read", "allowed", "running", "done"},
   record: RecordStatus, proposal: ProposalStatus]
OprRequest ==
  [of: Approvals, step: {"new", "read", "done"}, incident: IncidentState,
   to: OpTargets, force: BOOLEAN]

Init ==
  /\ approval = [a \in Approvals |-> "none"]
  /\ incident = [a \in Approvals |-> "POLICY_EVALUATION"]
  /\ proposal = [a \in Approvals |-> "PENDING"]
  /\ executions = [a \in Approvals |-> 0]
  /\ record = [a \in Approvals |-> "none"]
  /\ needs \in [Approvals -> BOOLEAN]
  /\ expired = [a \in Approvals |-> FALSE]
  /\ moved = [a \in Approvals |-> FALSE]
  /\ alock = [a \in Approvals |-> Free]
  /\ ilock = [a \in Approvals |-> Free]
  /\ dec \in [Deciders ->
       [of: Approvals, want: {"APPROVED", "REJECTED"}, route: Routes,
        step: {"new"}, approval: {"none"},
        incident: {"DETECTED"}, proposal: {"PENDING"}, inserts: {FALSE}]]
  /\ exe \in [Executors ->
       [of: Approvals, step: {"new"}, record: {"none"}, proposal: {"PENDING"}]]
  /\ opr \in [Operators ->
       [of: Approvals, step: {"new"}, incident: {"DETECTED"},
        to: OpTargets, force: BOOLEAN]]

\* What the row holds after a session that loaded `seen` assigned `new`.
Put(seen, new, stored) == IF new = seen THEN stored ELSE new

-----------------------------------------------------------------------------
(* Slips a maintainer could make; the runs show that the properties below  *)
(* notice each of them.                                                    *)

Finish(d) == dec' = [dec EXCEPT ![d].step = "done"]
Release(d) ==
  /\ alock' = [a \in Approvals |-> IF alock[a] = d THEN Free ELSE alock[a]]
  /\ ilock' = [a \in Approvals |-> IF ilock[a] = d THEN Free ELSE ilock[a]]

\* The refusal keeps its transaction, and the lock, open.
RefuseAndKeepLock(d) ==
  /\ dec[d].step = "locked"
  /\ dec[d].approval # "PENDING"
  /\ Finish(d)
  /\ UNCHANGED <<rows, locks, world, exe, opr>>

\* The single-decision check is forgotten.
LockIncidentOfDecided(d) ==
  LET a == dec[d].of IN
  /\ dec[d].step = "locked"
  /\ ilock[a] = Free
  /\ ilock' = [ilock EXCEPT ![a] = d]
  /\ dec' = [dec EXCEPT ![d].step = "held", ![d].incident = incident[a],
                        ![d].proposal = proposal[a]]
  /\ UNCHANGED <<rows, alock, world, exe, opr>>

\* The incident is read without FOR UPDATE.
ReadIncidentUnlocked(d) ==
  LET a == dec[d].of IN
  /\ dec[d].step = "locked"
  /\ dec[d].approval = "PENDING"
  /\ dec' = [dec EXCEPT ![d].step = "held", ![d].incident = incident[a],
                        ![d].proposal = proposal[a]]
  /\ UNCHANGED <<rows, locks, world, exe, opr>>

\* The proposal is committed before the incident's transition is checked.
RaiseErrorHalfway(d) ==
  /\ dec[d].step = "held"
  /\ proposal' = [proposal EXCEPT ![dec[d].of] = "REJECTED"]
  /\ Finish(d)
  /\ Release(d)
  /\ UNCHANGED <<approval, incident, record, executions, needs, world, exe, opr>>

\* Nothing keeps a second quarantine of the same event out.
ExecutorStartAgain(x) ==
  LET a == exe[x].of IN
  /\ exe[x].step = "allowed"
  /\ ilock[a] = Free
  /\ ilock' = [ilock EXCEPT ![a] = x]
  /\ exe' = [exe EXCEPT ![x].step = "running"]
  /\ UNCHANGED <<rows, alock, world, dec, opr>>

\* A failed containment is written to the proposal as a status of its own.
ExecutorFailsProposal(x) ==
  LET a == exe[x].of IN
  /\ exe[x].step = "running"
  /\ executions' = [executions EXCEPT ![a] = @ + 1]
  /\ needs' = [needs EXCEPT ![a] = FALSE]
  /\ record' = [record EXCEPT ![a] = "VERIFICATION_FAILED"]
  /\ incident' = [incident EXCEPT ![a] = "ESCALATED"]
  /\ proposal' = [proposal EXCEPT ![a] = "VERIFICATION_FAILED"]
  /\ ilock' = [ilock EXCEPT ![a] = Free]
  /\ exe' = [exe EXCEPT ![x].step = "done"]
  /\ UNCHANGED <<approval, alock, world, dec, opr>>

-----------------------------------------------------------------------------
(* Asking for approval.                                                    *)

\* change_incident_state(AWAITING_APPROVAL) in a workflow, with the approval
\* row that ensure_runtime_approval adds, and its commit.
RequestApproval(a) ==
  /\ incident[a] = "POLICY_EVALUATION"
  /\ approval[a] = "none"
  /\ ilock[a] = Free
  /\ incident' = [incident EXCEPT ![a] = "AWAITING_APPROVAL"]
  /\ approval' = [approval EXCEPT ![a] = "PENDING"]
  /\ UNCHANGED <<proposal, record, executions, needs, locks, world, dec, exe, opr>>

-----------------------------------------------------------------------------
(* Deciding.                                                               *)

\* POST /incidents/{id}/actions/{id}/approve|reject: incident, proposal and
\* approval are read without a lock; a missing approval row is added.
Preload(d) ==
  LET a == dec[d].of IN
  /\ dec[d].step = "new" /\ dec[d].route = "incident"
  /\ IF incident[a] = "AWAITING_APPROVAL"
     THEN dec' = [dec EXCEPT ![d].step = "loaded",
                             ![d].incident = incident[a],
                             ![d].proposal = proposal[a],
                             ![d].approval = IF approval[a] = "none"
                                             THEN "PENDING" ELSE approval[a],
                             ![d].inserts = (approval[a] = "none")]
     ELSE Finish(d)
  /\ UNCHANGED <<rows, locks, world, exe, opr>>

\* SELECT approval FOR UPDATE: fresh on the queue route, the session's old
\* copy on the incident route.
LockApproval(d) ==
  LET a == dec[d].of IN
  /\ \/ dec[d].step = "new" /\ dec[d].route = "queue"
     \/ dec[d].step = "loaded"
  /\ alock[a] = Free
  /\ alock' = [alock EXCEPT ![a] = d]
  /\ dec' = [dec EXCEPT ![d].step = "locked",
                        ![d].approval = IF dec[d].route = "queue"
                                        THEN approval[a] ELSE @]
  /\ UNCHANGED <<rows, ilock, world, exe, opr>>

\* 404 without a row, 409 "Approval has already been decided and cannot
\* execute twice" with a decided one.
RefuseDecided(d) ==
  /\ dec[d].step = "locked"
  /\ dec[d].approval # "PENDING"
  /\ Finish(d)
  /\ Release(d)
  /\ UNCHANGED <<rows, world, exe, opr>>

\* session.get(Incident, with_for_update) and the same for the proposal.
LockIncident(d) ==
  LET a == dec[d].of
      fresh == dec[d].route = "queue"
  IN
  /\ dec[d].step = "locked"
  /\ dec[d].approval = "PENDING"
  /\ ilock[a] = Free
  /\ ilock' = [ilock EXCEPT ![a] = d]
  /\ dec' = [dec EXCEPT ![d].step = "held",
                        ![d].incident = IF fresh THEN incident[a] ELSE @,
                        ![d].proposal = IF fresh THEN proposal[a] ELSE @]
  /\ UNCHANGED <<rows, alock, world, exe, opr>>

\* One commit of decision, proposal and incident.  A row this session added
\* loses against one that was committed meanwhile (unique constraint).
CommitDecision(d, decision, status, state) ==
  LET a == dec[d].of IN
  /\ IF dec[d].inserts /\ approval[a] # "none"
     THEN UNCHANGED <<approval, proposal, incident>>
     ELSE /\ approval' = [approval EXCEPT ![a] = decision]
          /\ proposal' = [proposal EXCEPT ![a] = Put(dec[d].proposal, status, @)]
          /\ incident' = [incident EXCEPT ![a] = Put(dec[d].incident, state, @)]
  /\ Finish(d)
  /\ Release(d)
  /\ UNCHANGED <<record, executions, needs, world, exe, opr>>

Reject(d) ==
  /\ dec[d].step = "held"
  /\ dec[d].want = "REJECTED"
  /\ MayMove(dec[d].incident, "BLOCKED", FALSE)
  /\ CommitDecision(d, "REJECTED", "REJECTED", "BLOCKED")

\* The transition table refuses BLOCKED; or the approver's role is too low
\* for the action, the risk too high, or Kubernetes cannot be read.  Nothing
\* is committed.
RaiseError(d) ==
  /\ dec[d].step = "held"
  /\ \/ /\ dec[d].want = "REJECTED"
        /\ ~MayMove(dec[d].incident, "BLOCKED", FALSE)
     \/ dec[d].want = "APPROVED"
  /\ Finish(d)
  /\ Release(d)
  /\ UNCHANGED <<rows, world, exe, opr>>

\* _stale_reason up to the OPA call: what the session holds, and what it
\* reads now of executions, live target and latest policy decision.
Stale(d) ==
  LET a == dec[d].of IN
  \/ expired[a]
  \/ dec[d].incident # "AWAITING_APPROVAL"
  \/ dec[d].proposal # "PENDING"
  \/ executions[a] > 0
  \/ moved[a]
  \/ ~needs[a]

\* A stale approval is invalidated; a still waiting incident is blocked.
CommitInvalid(d) ==
  CommitDecision(d, IF expired[dec[d].of] THEN "EXPIRED" ELSE "INVALIDATED",
                 "REJECTED",
                 IF dec[d].incident = "AWAITING_APPROVAL" THEN "BLOCKED"
                 ELSE dec[d].incident)

InvalidateStale(d) ==
  /\ dec[d].step = "held"
  /\ dec[d].want = "APPROVED"
  /\ Stale(d)
  /\ CommitInvalid(d)

\* Nothing is stale: OPA is asked while the rows stay locked and the world
\* goes on.
AskPolicy(d) ==
  /\ dec[d].step = "held"
  /\ dec[d].want = "APPROVED"
  /\ ~Stale(d)
  /\ dec' = [dec EXCEPT ![d].step = "checked"]
  /\ UNCHANGED <<rows, locks, world, exe, opr>>

PolicyRefuses(d) ==
  /\ dec[d].step = "checked"
  /\ CommitInvalid(d)

Approve(d) ==
  /\ dec[d].step = "checked"
  /\ CommitDecision(d, "APPROVED", "PENDING", "POLICY_EVALUATION")

\* The request's process is lost: its transaction is rolled back.
LoseDecider(d) ==
  /\ dec[d].step \in {"loaded", "locked", "held", "checked"}
  /\ Finish(d)
  /\ Release(d)
  /\ UNCHANGED <<rows, world, exe, opr>>

-----------------------------------------------------------------------------
(* Executing: apply_quarantine reads the incident without a lock, asks     *)
(* Kubernetes and OPA, and only then writes.                               *)

\* A contained pod is answered with its record, a terminal incident with 409.
ExecutorRead(x) ==
  LET a == exe[x].of
      goes == record[a] # "CONTAINED" /\ incident[a] \notin TerminalState
  IN
  /\ exe[x].step = "new"
  /\ exe' = [exe EXCEPT ![x].step = IF goes THEN "read" ELSE "done",
                        ![x].record = record[a]]
  /\ UNCHANGED <<rows, locks, world, dec, opr>>

\* OPA refuses: only the PolicyDecision row is committed.
ExecutorDenied(x) ==
  /\ exe[x].step = "read"
  /\ needs' = [needs EXCEPT ![exe[x].of] = FALSE]
  /\ exe' = [exe EXCEPT ![x].step = "done"]
  /\ UNCHANGED <<approval, incident, proposal, record, executions, locks,
                 world, dec, opr>>

\* OPA allows: _proposal_for_apply loads the proposal.
ExecutorAllowed(x) ==
  /\ exe[x].step = "read"
  /\ exe' = [exe EXCEPT ![x].step = "allowed",
                        ![x].proposal = proposal[exe[x].of]]
  /\ UNCHANGED <<rows, locks, world, dec, opr>>

\* EXECUTING is flushed, which takes the incident's row lock.  The request
\* fails when it adds a QuarantineRecord and one was added meanwhile (its
\* policy_name is unique), or when no attempt is left.
ExecutorStart(x) ==
  LET a == exe[x].of IN
  /\ exe[x].step = "allowed"
  /\ ilock[a] = Free
  /\ IF (exe[x].record = "none" => record[a] = "none") /\ executions[a] < AttemptLimit
     THEN /\ ilock' = [ilock EXCEPT ![a] = x]
          /\ exe' = [exe EXCEPT ![x].step = "running"]
     ELSE /\ exe' = [exe EXCEPT ![x].step = "done"]
          /\ UNCHANGED ilock
  /\ UNCHANGED <<rows, alock, world, dec, opr>>

\* The one commit: execution, ALLOW decision, and either a contained pod with
\* VERIFYING and a SUCCEEDED proposal or a failed record with ESCALATED.
ExecutorFinish(x) ==
  LET a == exe[x].of IN
  /\ exe[x].step = "running"
  /\ executions' = [executions EXCEPT ![a] = @ + 1]
  /\ needs' = [needs EXCEPT ![a] = FALSE]
  /\ \/ /\ incident' = [incident EXCEPT ![a] = "VERIFYING"]
        /\ record' = [record EXCEPT ![a] = "CONTAINED"]
        /\ proposal' = [proposal EXCEPT ![a] = Put(exe[x].proposal, "SUCCEEDED", @)]
     \/ /\ incident' = [incident EXCEPT ![a] = "ESCALATED"]
        /\ record' = [record EXCEPT ![a] = "VERIFICATION_FAILED"]
        /\ UNCHANGED proposal
  /\ ilock' = [ilock EXCEPT ![a] = Free]
  /\ exe' = [exe EXCEPT ![x].step = "done"]
  /\ UNCHANGED <<approval, alock, world, dec, opr>>

\* The request's process is lost: its transaction is rolled back.
LoseExecutor(x) ==
  /\ exe[x].step \in {"read", "allowed", "running"}
  /\ ilock' = [a \in Approvals |-> IF ilock[a] = x THEN Free ELSE ilock[a]]
  /\ exe' = [exe EXCEPT ![x].step = "done"]
  /\ UNCHANGED <<rows, alock, world, dec, opr>>

-----------------------------------------------------------------------------
(* Operators (PATCH, /resolve, /transitions) and the world.                *)

OperatorRead(o) ==
  /\ opr[o].step = "new"
  /\ opr' = [opr EXCEPT ![o].step = "read", ![o].incident = incident[opr[o].of]]
  /\ UNCHANGED <<rows, locks, world, dec, exe>>

\* A move to AWAITING_APPROVAL also adds a missing approval row.
OperatorWrite(o) ==
  LET a == opr[o].of
      moves == /\ opr[o].incident # opr[o].to
               /\ MayMove(opr[o].incident, opr[o].to, opr[o].force)
  IN
  /\ opr[o].step = "read"
  /\ ilock[a] = Free
  /\ opr' = [opr EXCEPT ![o].step = "done"]
  /\ incident' = IF moves THEN [incident EXCEPT ![a] = opr[o].to] ELSE incident
  /\ approval' = IF moves /\ opr[o].to = "AWAITING_APPROVAL" /\ approval[a] = "none"
                 THEN [approval EXCEPT ![a] = "PENDING"] ELSE approval
  /\ UNCHANGED <<proposal, record, executions, needs, locks, world, dec, exe>>

Expire(a) ==
  /\ approval[a] # "none" /\ ~expired[a]
  /\ expired' = [expired EXCEPT ![a] = TRUE]
  /\ UNCHANGED <<rows, locks, moved, dec, exe, opr>>

TargetMoves(a) ==
  /\ moved' = [moved EXCEPT ![a] = ~@]
  /\ UNCHANGED <<rows, locks, expired, dec, exe, opr>>

-----------------------------------------------------------------------------
Decide(d) ==
  \/ Preload(d) \/ LockApproval(d) \/ RefuseDecided(d) \/ LockIncident(d)
  \/ Reject(d) \/ RaiseError(d) \/ InvalidateStale(d) \/ AskPolicy(d)
  \/ PolicyRefuses(d) \/ Approve(d)

Execute(x) ==
  \/ ExecutorRead(x) \/ ExecutorDenied(x) \/ ExecutorAllowed(x)
  \/ ExecutorStart(x) \/ ExecutorFinish(x)

Next ==
  \/ \E d \in Deciders : Decide(d) \/ LoseDecider(d)
  \/ \E x \in Executors : Execute(x) \/ LoseExecutor(x)
  \/ \E o \in Operators : OperatorRead(o) \/ OperatorWrite(o)
  \/ \E a \in Approvals : RequestApproval(a) \/ Expire(a) \/ TargetMoves(a)

Spec == Init /\ [][Next]_vars

\* A started request keeps running: waits for Kubernetes, OPA and row locks
\* end, since their holders end too.
FairSpec ==
  /\ Spec
  /\ \A d \in Deciders : WF_vars(dec[d].step # "new" /\ Decide(d))
  /\ \A x \in Executors : WF_vars(exe[x].step # "new" /\ Execute(x))

-----------------------------------------------------------------------------
(* Properties.                                                             *)

\* Every variable has its type: rows hold only what the schema has.
TypeOK ==
  /\ approval \in [Approvals -> Decision \cup {"none"}]
  /\ incident \in [Approvals -> IncidentState]
  /\ proposal \in [Approvals -> ProposalStatus]
  /\ record \in [Approvals -> RecordStatus]
  /\ executions \in [Approvals -> 0..AttemptLimit]
  /\ needs \in [Approvals -> BOOLEAN]
  /\ expired \in [Approvals -> BOOLEAN]
  /\ moved \in [Approvals -> BOOLEAN]
  /\ alock \in [Approvals -> Deciders \cup {Free}]
  /\ ilock \in [Approvals -> Deciders \cup Executors \cup {Free}]
  /\ dec \in [Deciders -> DecRequest]
  /\ exe \in [Executors -> ExeRequest]
  /\ opr \in [Operators -> OprRequest]

\* ApprovalService: "Single-decision approval workflow".  A decided approval
\* is never decided again, whoever asks and however the requests overlap.
DecisionIsFinal ==
  [][\A a \in Approvals :
       approval[a] \in Decided => approval'[a] = approval[a]]_vars

\* docs/finops/README.md: "A stale proposal is invalidated instead of
\* executed".  At the moment an approval is granted the committed incident is
\* waiting for it, the proposal is pending and nothing has been executed.
ApprovedWasFresh ==
  [][\A a \in Approvals :
       approval[a] # "APPROVED" /\ approval'[a] = "APPROVED" =>
         /\ incident[a] = "AWAITING_APPROVAL"
         /\ proposal[a] = "PENDING"
         /\ executions[a] = 0]_vars

\* A decision is written completely or not at all: a proposal is rejected
\* only together with an approval that says so, although the transition of
\* the incident may still fail after the proposal was changed.
DecisionIsAtomic ==
  \A a \in Approvals :
    /\ proposal[a] = "REJECTED"
         => approval[a] \in {"REJECTED", "EXPIRED", "INVALIDATED"}
    /\ approval[a] = "APPROVED" => proposal[a] # "REJECTED"

\* docs/dashboard/operations-dashboard.md: "at-most-once execution".  As long
\* as nobody reopens an escalated incident by hand, a proposal is executed at
\* most once, although its executors do not lock what they check.
ExecutedAtMostOnce == \A a \in Approvals : executions[a] <= 1

\* A started decision request is answered: no request waits forever for a
\* row lock.
DecisionsAreAnswered ==
  \A d \in Deciders : dec[d].step # "new" ~> dec[d].step = "done"
=============================================================================
