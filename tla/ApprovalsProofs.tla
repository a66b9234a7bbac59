--------------------------- MODULE ApprovalsProofs ---------------------------
(***************************************************************************)
(* Safety of the approval workflow for any number of approvals, approvers, *)
(* executors and operators.  The argument is about row locks: HeldInv says *)
(* who holds them, QueueInv what a session that read under them knows, and *)
(* OnceInv why an execution finds no earlier one.                          *)
(***************************************************************************)
EXTENDS Approvals, TLAPS

Active == {"locked", "held", "checked"}
Owning == {"held", "checked"}

\* What holds on both routes: a request that passed a lock still holds it, so
\* nothing was executed since an approval passed its checks, and a running
\* execution is within the attempt limit.
HoldsApproval ==
  \A d \in Deciders : dec[d].step \in Active => alock[dec[d].of] = d
HoldsIncident ==
  \A d \in Deciders : dec[d].step \in Owning => ilock[dec[d].of] = d
CheckedUnexecuted ==
  \A d \in Deciders : dec[d].step = "checked" => executions[dec[d].of] = 0
RunningHolds ==
  \A x \in Executors : exe[x].step = "running" => ilock[exe[x].of] = x
RunningBounded ==
  \A x \in Executors :
    exe[x].step = "running" => executions[exe[x].of] < AttemptLimit

HeldInv ==
  /\ HoldsApproval
  /\ HoldsIncident
  /\ CheckedUnexecuted
  /\ RunningHolds
  /\ RunningBounded

LockInv == TypeOK /\ HeldInv

-----------------------------------------------------------------------------
(* Typing of the updates that requests make to their own record.           *)

LEMMA DecStep ==
  ASSUME NEW r \in DecRequest, NEW s \in {"new", "loaded", "locked", "held", "checked", "done"}
  PROVE  [r EXCEPT !.step = s] \in DecRequest
BY DEF DecRequest

LEMMA DecLoaded ==
  ASSUME NEW r \in DecRequest, NEW i \in IncidentState, NEW p \in ProposalStatus,
         NEW v \in Decision \cup {"none"}, NEW b \in BOOLEAN
  PROVE  [r EXCEPT !.step = "loaded", !.incident = i, !.proposal = p,
                   !.approval = v, !.inserts = b] \in DecRequest
BY DEF DecRequest

LEMMA DecLocked ==
  ASSUME NEW r \in DecRequest, NEW v \in Decision \cup {"none"}
  PROVE  [r EXCEPT !.step = "locked", !.approval = v] \in DecRequest
BY DEF DecRequest

LEMMA DecHeld ==
  ASSUME NEW r \in DecRequest, NEW i \in IncidentState, NEW p \in ProposalStatus
  PROVE  [r EXCEPT !.step = "held", !.incident = i, !.proposal = p] \in DecRequest
BY DEF DecRequest

LEMMA ExeStep ==
  ASSUME NEW r \in ExeRequest, NEW s \in {"new", "read", "allowed", "running", "done"}
  PROVE  [r EXCEPT !.step = s] \in ExeRequest
BY DEF ExeRequest

LEMMA ExeRead ==
  ASSUME NEW r \in ExeRequest, NEW s \in {"read", "done"}, NEW v \in RecordStatus
  PROVE  [r EXCEPT !.step = s, !.record = v] \in ExeRequest
BY DEF ExeRequest

LEMMA ExeAllowed ==
  ASSUME NEW r \in ExeRequest, NEW p \in ProposalStatus
  PROVE  [r EXCEPT !.step = "allowed", !.proposal = p] \in ExeRequest
BY DEF ExeRequest

LEMMA OprDone ==
  ASSUME NEW r \in OprRequest
  PROVE  [r EXCEPT !.step = "done"] \in OprRequest
BY DEF OprRequest

LEMMA OprRead ==
  ASSUME NEW r \in OprRequest, NEW i \in IncidentState
  PROVE  [r EXCEPT !.step = "read", !.incident = i] \in OprRequest
BY DEF OprRequest

\* The fields of a request that the actions look at.
LEMMA Fields ==
  /\ \A r \in DecRequest :
       /\ r.of \in Approvals /\ r.route \in Routes
       /\ r.approval \in Decision \cup {"none"}
       /\ r.incident \in IncidentState /\ r.proposal \in ProposalStatus
  /\ \A r \in ExeRequest :
       r.of \in Approvals /\ r.record \in RecordStatus /\ r.proposal \in ProposalStatus
  /\ \A r \in OprRequest : r.of \in Approvals /\ r.to \in OpTargets
BY DEF DecRequest, ExeRequest, OprRequest

-----------------------------------------------------------------------------
LEMMA InitLock == Init => LockInv
<1> SUFFICES ASSUME Init PROVE LockInv
  OBVIOUS
<1> DEFINE NewDec == [of: Approvals, want: {"APPROVED", "REJECTED"}, route: Routes,
                      step: {"new"}, approval: {"none"}, incident: {"DETECTED"},
                      proposal: {"PENDING"}, inserts: {FALSE}]
<1>0. "DETECTED" \in IncidentState /\ "PENDING" \in ProposalStatus
  BY DEF IncidentState, ProposalStatus
<1>a. \A r \in NewDec : r \in DecRequest /\ r.step = "new"
  BY <1>0 DEF DecRequest
<1>b. dec \in [Deciders -> NewDec]
  BY DEF Init
<1> HIDE DEF NewDec
<1>1. dec \in [Deciders -> DecRequest] /\ \A d \in Deciders : dec[d].step = "new"
  BY <1>a, <1>b
<1>2. exe \in [Executors -> ExeRequest]
  BY DEF Init, ExeRequest, RecordStatus, ProposalStatus
<1>3. opr \in [Operators -> OprRequest]
  BY DEF Init, OprRequest, IncidentState
<1>4. TypeOK
  BY <1>0, <1>1, <1>2, <1>3
  DEF Init, TypeOK, Decision, IncidentState, ProposalStatus, RecordStatus, AttemptLimit
<1>5. \A x \in Executors : exe[x].step = "new"
  BY DEF Init
<1> QED
  BY <1>1, <1>4, <1>5
  DEF LockInv, HeldInv, Active, Owning, HoldsApproval, HoldsIncident,
      CheckedUnexecuted, RunningHolds, RunningBounded

-----------------------------------------------------------------------------
(* What a step does to the lock invariant.                                 *)

\* A decider's step keeps the locks of all others.
LEMMA DeciderHeld ==
  ASSUME LockInv, NEW d \in Deciders, executions' = executions, exe' = exe,
         \A e \in Deciders \ {d} : dec'[e] = dec[e],
         \A a \in Approvals : \A e : e # d /\ alock[a] = e => alock'[a] = e,
         \A a \in Approvals : \A e : e # d /\ ilock[a] = e => ilock'[a] = e,
         dec'[d].step \in Active => alock'[dec'[d].of] = d,
         dec'[d].step \in Owning => ilock'[dec'[d].of] = d,
         dec'[d].step = "checked" => executions[dec'[d].of] = 0
  PROVE  HeldInv'
<1>1. dec \in [Deciders -> DecRequest] /\ exe \in [Executors -> ExeRequest]
  BY DEF LockInv, TypeOK
<1>f. \A e \in Deciders : dec[e].of \in Approvals
  BY <1>1, Fields
<1>2. ASSUME NEW e \in Deciders \ {d}, dec'[e].step \in Active
      PROVE  alock'[dec'[e].of] = e
  <2>1. alock[dec[e].of] = e
    BY <1>2 DEF LockInv, HeldInv, HoldsApproval
  <2> QED
    BY <1>f, <2>1
<1>3. ASSUME NEW e \in Deciders \ {d}, dec'[e].step \in Owning
      PROVE  ilock'[dec'[e].of] = e
  <2>1. ilock[dec[e].of] = e
    BY <1>3 DEF LockInv, HeldInv, HoldsIncident
  <2> QED
    BY <1>f, <2>1
<1>4. ASSUME NEW e \in Deciders, dec'[e].step = "checked"
      PROVE  executions'[dec'[e].of] = 0
  BY <1>4 DEF LockInv, HeldInv, CheckedUnexecuted
<1>5. ASSUME NEW x \in Executors, exe[x].step = "running"
      PROVE  ilock'[exe[x].of] = x
  <2>1. ilock[exe[x].of] = x /\ exe[x].of \in Approvals /\ x # d
    BY <1>1, <1>5, Fields, RequestsAssumption DEF LockInv, HeldInv, RunningHolds
  <2> QED
    BY <2>1
<1>6. HoldsApproval' /\ HoldsIncident'
  BY <1>2, <1>3 DEF HoldsApproval, HoldsIncident
<1>7. CheckedUnexecuted' /\ RunningHolds'
  BY <1>4, <1>5 DEF CheckedUnexecuted, RunningHolds
<1>8. RunningBounded'
  BY DEF LockInv, HeldInv, RunningBounded
<1> QED
  BY <1>6, <1>7, <1>8 DEF HeldInv

\* So does an executor's step, and it adds executions only where it holds the
\* incident's lock.
LEMMA ExecutorHeld ==
  ASSUME LockInv, NEW x \in Executors, dec' = dec, alock' = alock,
         \A y \in Executors \ {x} : exe'[y] = exe[y],
         \A a \in Approvals : \A e : e # x /\ ilock[a] = e => ilock'[a] = e,
         \A a \in Approvals : \A e : e # x /\ ilock[a] = e => executions'[a] = executions[a],
         exe'[x].step = "running" =>
           ilock'[exe'[x].of] = x /\ executions'[exe'[x].of] < AttemptLimit
  PROVE  HeldInv'
<1>1. dec \in [Deciders -> DecRequest] /\ exe \in [Executors -> ExeRequest]
  BY DEF LockInv, TypeOK
<1>f. /\ \A e \in Deciders : dec[e].of \in Approvals
      /\ \A e \in Executors : exe[e].of \in Approvals
  BY <1>1, Fields
<1>2. ASSUME NEW e \in Deciders, dec[e].step \in Owning
      PROVE  ilock'[dec[e].of] = e /\ executions'[dec[e].of] = executions[dec[e].of]
  <2>1. ilock[dec[e].of] = e /\ e # x
    BY <1>2, RequestsAssumption DEF LockInv, HeldInv, HoldsIncident
  <2> QED
    BY <1>f, <2>1
<1>3. ASSUME NEW y \in Executors \ {x}, exe'[y].step = "running"
      PROVE  ilock'[exe'[y].of] = y /\ executions'[exe'[y].of] < AttemptLimit
  <2>1. ilock[exe[y].of] = y /\ executions[exe[y].of] < AttemptLimit
    BY <1>3 DEF LockInv, HeldInv, RunningHolds, RunningBounded
  <2>2. ilock'[exe[y].of] = y /\ executions'[exe[y].of] = executions[exe[y].of]
    BY <1>f, <2>1
  <2> QED
    BY <2>1, <2>2
<1>4. HoldsApproval'
  BY DEF LockInv, HeldInv, HoldsApproval
<1>5. HoldsIncident'
  BY <1>2 DEF HoldsIncident
<1>6. CheckedUnexecuted'
  BY <1>2 DEF LockInv, HeldInv, CheckedUnexecuted, Owning
<1>7. RunningHolds' /\ RunningBounded'
  BY <1>3 DEF RunningHolds, RunningBounded
<1> QED
  BY <1>4, <1>5, <1>6, <1>7 DEF HeldInv

\* A decider that ends, with a commit or a rollback, gives up its locks only.
LEMMA FinishHeld ==
  ASSUME LockInv, NEW d \in Deciders, Finish(d), Release(d),
         executions' = executions, exe' = exe
  PROVE  /\ dec' \in [Deciders -> DecRequest]
         /\ alock' \in [Approvals -> Deciders \cup {Free}]
         /\ ilock' \in [Approvals -> Deciders \cup Executors \cup {Free}]
         /\ HeldInv'
<1>1. /\ dec \in [Deciders -> DecRequest]
      /\ alock \in [Approvals -> Deciders \cup {Free}]
      /\ ilock \in [Approvals -> Deciders \cup Executors \cup {Free}]
  BY DEF LockInv, TypeOK
<1>2. dec' \in [Deciders -> DecRequest]
  BY <1>1, DecStep DEF Finish
<1>3. /\ alock' \in [Approvals -> Deciders \cup {Free}]
      /\ ilock' \in [Approvals -> Deciders \cup Executors \cup {Free}]
  BY <1>1 DEF Release
<1>4. dec'[d].step = "done" /\ \A e \in Deciders \ {d} : dec'[e] = dec[e]
  BY <1>1 DEF Finish, DecRequest
<1>5. \A a \in Approvals : \A e : e # d /\ alock[a] = e => alock'[a] = e
  BY <1>1 DEF Release
<1>6. \A a \in Approvals : \A e : e # d /\ ilock[a] = e => ilock'[a] = e
  BY <1>1 DEF Release
<1>7. HeldInv'
  BY <1>4, <1>5, <1>6, DeciderHeld DEF Active, Owning
<1> QED
  BY <1>2, <1>3, <1>7

\* The commit of a decision writes typed values and ends the request.
LEMMA CommitLock ==
  ASSUME LockInv, NEW d \in Deciders, NEW v \in Decision, NEW p \in ProposalStatus,
         NEW i \in IncidentState, CommitDecision(d, v, p, i)
  PROVE  LockInv'
<1>1. /\ dec' \in [Deciders -> DecRequest]
      /\ alock' \in [Approvals -> Deciders \cup {Free}]
      /\ ilock' \in [Approvals -> Deciders \cup Executors \cup {Free}]
      /\ HeldInv'
  BY FinishHeld DEF CommitDecision
<1>2. /\ approval' \in [Approvals -> Decision \cup {"none"}]
      /\ incident' \in [Approvals -> IncidentState]
      /\ proposal' \in [Approvals -> ProposalStatus]
  BY DEF CommitDecision, Put, LockInv, TypeOK
<1> QED
  BY <1>1, <1>2 DEF CommitDecision, LockInv, TypeOK, world

LEMMA DecideLock ==
  ASSUME LockInv, NEW d \in Deciders, Decide(d) \/ LoseDecider(d)
  PROVE  LockInv'
<1> DEFINE a == dec[d].of
<1>1. /\ dec \in [Deciders -> DecRequest] /\ dec[d] \in DecRequest
      /\ a \in Approvals /\ dec[d].approval \in Decision \cup {"none"}
      /\ dec[d].incident \in IncidentState /\ dec[d].proposal \in ProposalStatus
  BY Fields DEF LockInv, TypeOK
<1>2. /\ approval[a] \in Decision \cup {"none"} /\ incident[a] \in IncidentState
      /\ proposal[a] \in ProposalStatus /\ "PENDING" \in Decision
  BY <1>1 DEF LockInv, TypeOK, Decision
<1> HIDE DEF a
<1>a. CASE Preload(d)
  <2>1. dec' \in [Deciders -> DecRequest]
    <3> DEFINE v == IF approval[a] = "none" THEN "PENDING" ELSE approval[a]
               r == [dec[d] EXCEPT !.step = "loaded", !.incident = incident[a],
                                   !.proposal = proposal[a], !.approval = v,
                                   !.inserts = (approval[a] = "none")]
    <3>1. v \in Decision \cup {"none"} /\ (approval[a] = "none") \in BOOLEAN
      BY <1>2
    <3>2. r \in DecRequest
      BY <1>1, <1>2, <3>1, DecLoaded
    <3>3. [dec[d] EXCEPT !.step = "done"] \in DecRequest
      BY <1>1, DecStep
    <3>4. \/ dec' = [dec EXCEPT ![d] = r]
          \/ dec' = [dec EXCEPT ![d] = [dec[d] EXCEPT !.step = "done"]]
      BY <1>a, <1>1 DEF Preload, Finish, a
    <3> HIDE DEF r
    <3> QED
      BY <1>1, <3>2, <3>3, <3>4
  <2>2. /\ dec'[d].step \notin Active
        /\ \A e \in Deciders \ {d} : dec'[e] = dec[e]
    BY <1>a, <1>1 DEF Preload, Finish, Active, DecRequest
  <2>3. HeldInv'
    BY <1>a, <2>2, DeciderHeld DEF Preload, locks, rows, Active, Owning
  <2> QED
    BY <1>a, <2>1, <2>3 DEF Preload, LockInv, TypeOK, rows, locks, world
<1>b. CASE LockApproval(d)
  <2>1. dec' \in [Deciders -> DecRequest]
    BY <1>b, <1>1, <1>2, DecLocked DEF LockApproval, a
  <2>2. /\ dec'[d].step = "locked" /\ dec'[d].of = a
        /\ \A e \in Deciders \ {d} : dec'[e] = dec[e]
    BY <1>b, <1>1 DEF LockApproval, DecRequest, a
  <2>3. /\ alock' \in [Approvals -> Deciders \cup {Free}] /\ alock'[a] = d
        /\ \A b \in Approvals : \A e : e # d /\ b # a /\ alock[b] = e => alock'[b] = e
        /\ alock[a] = Free
    BY <1>b, <1>1 DEF LockApproval, LockInv, TypeOK, a
  <2>4. HoldsApproval'
    <3>1. ASSUME NEW e \in Deciders \ {d}, dec'[e].step \in Active
          PROVE  alock'[dec'[e].of] = e
      <4>1. alock[dec[e].of] = e /\ dec[e].of \in Approvals
        BY <3>1, <2>2, <1>1, Fields DEF LockInv, HeldInv, HoldsApproval
      <4>2. dec[e].of # a
        BY <4>1, <2>3, FreeAssumption
      <4> QED
        BY <2>2, <2>3, <4>1, <4>2
    <3> QED
      BY <3>1, <2>2, <2>3 DEF HoldsApproval
  <2>5. HoldsIncident' /\ CheckedUnexecuted'
    BY <1>b, <2>2 DEF LockApproval, rows, LockInv, HeldInv, HoldsIncident,
                      CheckedUnexecuted, Owning
  <2>6. RunningHolds' /\ RunningBounded'
    BY <1>b DEF LockApproval, rows, LockInv, HeldInv, RunningHolds, RunningBounded
  <2> QED
    BY <1>b, <2>1, <2>3, <2>4, <2>5, <2>6
    DEF LockApproval, LockInv, TypeOK, HeldInv, rows, world
<1>c. CASE RefuseDecided(d)
  BY <1>c, FinishHeld DEF RefuseDecided, LockInv, TypeOK, rows, world
<1>d. CASE LockIncident(d)
  <2>1. dec' \in [Deciders -> DecRequest]
    BY <1>d, <1>1, <1>2, DecHeld DEF LockIncident, a
  <2>2. /\ dec'[d].step = "held" /\ dec'[d].of = a
        /\ \A e \in Deciders \ {d} : dec'[e] = dec[e]
    BY <1>d, <1>1 DEF LockIncident, DecRequest, a
  <2>3. /\ ilock' \in [Approvals -> Deciders \cup Executors \cup {Free}]
        /\ ilock'[a] = d /\ ilock[a] = Free
        /\ \A b \in Approvals : \A e : e # d /\ b # a /\ ilock[b] = e => ilock'[b] = e
    BY <1>d, <1>1 DEF LockIncident, LockInv, TypeOK, a
  <2>4. HoldsIncident'
    <3>1. ASSUME NEW e \in Deciders \ {d}, dec'[e].step \in Owning
          PROVE  ilock'[dec'[e].of] = e
      <4>1. ilock[dec[e].of] = e /\ dec[e].of \in Approvals
        BY <3>1, <2>2, <1>1, Fields DEF LockInv, HeldInv, HoldsIncident
      <4>2. dec[e].of # a
        BY <4>1, <2>3, FreeAssumption
      <4> QED
        BY <2>2, <2>3, <4>1, <4>2
    <3> QED
      BY <3>1, <2>2, <2>3 DEF HoldsIncident
  <2>5. RunningHolds'
    <3>1. ASSUME NEW x \in Executors, exe[x].step = "running"
          PROVE  ilock'[exe[x].of] = x
      <4>1. ilock[exe[x].of] = x /\ exe[x].of \in Approvals
        BY <3>1, Fields DEF LockInv, HeldInv, RunningHolds, TypeOK
      <4>2. exe[x].of # a /\ x # d
        BY <4>1, <2>3, FreeAssumption, RequestsAssumption
      <4> QED
        BY <2>3, <4>1, <4>2
    <3> QED
      BY <1>d, <3>1 DEF LockIncident, RunningHolds
  <2>6. HoldsApproval'
    <3>1. alock[a] = d
      BY <1>d, <1>1 DEF LockIncident, LockInv, HeldInv, HoldsApproval, Active, a
    <3> QED
      BY <1>d, <2>2, <3>1 DEF LockIncident, LockInv, HeldInv, HoldsApproval
  <2>7. CheckedUnexecuted' /\ RunningBounded'
    BY <1>d, <2>2 DEF LockIncident, rows, LockInv, HeldInv, CheckedUnexecuted,
                      RunningBounded
  <2> QED
    BY <1>d, <2>1, <2>3, <2>4, <2>5, <2>6, <2>7
    DEF LockIncident, LockInv, TypeOK, HeldInv, rows, world
<1>e. CASE Reject(d)
  BY <1>e, CommitLock DEF Reject, Decision, ProposalStatus, IncidentState
<1>f. CASE RaiseError(d)
  BY <1>f, FinishHeld DEF RaiseError, LockInv, TypeOK, rows, world
<1>g. CASE InvalidateStale(d) \/ PolicyRefuses(d)
  <2>1. CommitInvalid(d)
    BY <1>g DEF InvalidateStale, PolicyRefuses
  <2>2. "BLOCKED" \in IncidentState /\ "REJECTED" \in ProposalStatus
        /\ "EXPIRED" \in Decision /\ "INVALIDATED" \in Decision
    BY DEF IncidentState, ProposalStatus, Decision
  <2> QED
    BY <1>1, <2>1, <2>2, CommitLock DEF CommitInvalid
<1>h. CASE AskPolicy(d)
  <2>1. dec' \in [Deciders -> DecRequest]
    BY <1>h, <1>1, DecStep DEF AskPolicy
  <2>2. /\ dec'[d].step = "checked" /\ dec'[d].of = a
        /\ \A e \in Deciders \ {d} : dec'[e] = dec[e]
    BY <1>h, <1>1 DEF AskPolicy, DecRequest, a
  <2>3. alock[a] = d /\ ilock[a] = d
    BY <1>h DEF AskPolicy, LockInv, HeldInv, HoldsApproval, HoldsIncident, Active,
                Owning, a
  <2>4. executions[a] = 0
    BY <1>h, <1>1 DEF AskPolicy, Stale, LockInv, TypeOK, AttemptLimit, a
  <2>5. HeldInv'
    BY <1>h, <2>2, <2>3, <2>4, DeciderHeld DEF AskPolicy, rows, locks
  <2> QED
    BY <1>h, <2>1, <2>5 DEF AskPolicy, LockInv, TypeOK, rows, locks, world
<1>i. CASE Approve(d)
  BY <1>i, CommitLock DEF Approve, Decision, ProposalStatus, IncidentState
<1>j. CASE LoseDecider(d)
  BY <1>j, FinishHeld DEF LoseDecider, LockInv, TypeOK, rows, world
<1> QED
  BY <1>a, <1>b, <1>c, <1>d, <1>e, <1>f, <1>g, <1>h, <1>i, <1>j DEF Decide

LEMMA ExecuteLock ==
  ASSUME LockInv, NEW x \in Executors, Execute(x) \/ LoseExecutor(x)
  PROVE  LockInv'
<1> DEFINE a == exe[x].of
<1>1. /\ exe \in [Executors -> ExeRequest] /\ exe[x] \in ExeRequest
      /\ a \in Approvals /\ exe[x].proposal \in ProposalStatus
  BY Fields DEF LockInv, TypeOK
<1>2. /\ record[a] \in RecordStatus /\ proposal[a] \in ProposalStatus
      /\ executions \in [Approvals -> 0..AttemptLimit]
      /\ ilock \in [Approvals -> Deciders \cup Executors \cup {Free}]
  BY <1>1 DEF LockInv, TypeOK
<1> HIDE DEF a
<1>a. CASE ExecutorRead(x)
  <2>1. exe' \in [Executors -> ExeRequest]
    BY <1>a, <1>1, <1>2, ExeRead DEF ExecutorRead, a
  <2>2. exe'[x].step # "running" /\ \A y \in Executors \ {x} : exe'[y] = exe[y]
    BY <1>a, <1>1 DEF ExecutorRead, ExeRequest
  <2>3. HeldInv'
    BY <1>a, <2>2, ExecutorHeld DEF ExecutorRead, rows, locks
  <2> QED
    BY <1>a, <2>1, <2>3 DEF ExecutorRead, LockInv, TypeOK, rows, locks, world
<1>b. CASE ExecutorDenied(x)
  <2>1. exe' \in [Executors -> ExeRequest] /\ needs' \in [Approvals -> BOOLEAN]
    BY <1>b, <1>1, ExeStep DEF ExecutorDenied, LockInv, TypeOK
  <2>2. exe'[x].step # "running" /\ \A y \in Executors \ {x} : exe'[y] = exe[y]
    BY <1>b, <1>1 DEF ExecutorDenied, ExeRequest
  <2>3. HeldInv'
    BY <1>b, <2>2, ExecutorHeld DEF ExecutorDenied, locks
  <2> QED
    BY <1>b, <2>1, <2>3 DEF ExecutorDenied, LockInv, TypeOK, locks, world
<1>c. CASE ExecutorAllowed(x)
  <2>1. exe' \in [Executors -> ExeRequest]
    BY <1>c, <1>1, <1>2, ExeAllowed DEF ExecutorAllowed, a
  <2>2. exe'[x].step # "running" /\ \A y \in Executors \ {x} : exe'[y] = exe[y]
    BY <1>c, <1>1 DEF ExecutorAllowed, ExeRequest
  <2>3. HeldInv'
    BY <1>c, <2>2, ExecutorHeld DEF ExecutorAllowed, rows, locks
  <2> QED
    BY <1>c, <2>1, <2>3 DEF ExecutorAllowed, LockInv, TypeOK, rows, locks, world
<1>d. CASE ExecutorStart(x)
  <2>1. exe' \in [Executors -> ExeRequest]
    BY <1>d, <1>1, ExeStep DEF ExecutorStart
  <2>2. exe'[x].of = a /\ \A y \in Executors \ {x} : exe'[y] = exe[y]
    BY <1>d, <1>1 DEF ExecutorStart, ExeRequest, a
  <2>3. exe'[x].step = "running" => ilock'[a] = x /\ executions[a] < AttemptLimit
    BY <1>d, <1>1, <1>2 DEF ExecutorStart, ExeRequest, a
  <2>4. ilock' \in [Approvals -> Deciders \cup Executors \cup {Free}]
    BY <1>d, <1>1, <1>2 DEF ExecutorStart, a
  <2>5. ilock[a] = Free /\ \A b \in Approvals \ {a} : ilock'[b] = ilock[b]
    BY <1>d, <1>1, <1>2 DEF ExecutorStart, a
  <2>6. HoldsApproval' /\ CheckedUnexecuted'
    BY <1>d DEF ExecutorStart, rows, LockInv, HeldInv, HoldsApproval, CheckedUnexecuted
  <2>7. HoldsIncident'
    <3>1. ASSUME NEW e \in Deciders, dec[e].step \in Owning
          PROVE  ilock'[dec[e].of] = e
      <4>1. ilock[dec[e].of] = e /\ dec[e].of \in Approvals
        BY <3>1, Fields DEF LockInv, HeldInv, HoldsIncident, TypeOK
      <4>2. dec[e].of # a
        BY <4>1, <2>5, FreeAssumption
      <4> QED
        BY <2>5, <4>1, <4>2
    <3> QED
      BY <1>d, <3>1 DEF ExecutorStart, HoldsIncident
  <2>8. RunningHolds' /\ RunningBounded'
    <3>1. ASSUME NEW y \in Executors \ {x}, exe'[y].step = "running"
          PROVE  ilock'[exe'[y].of] = y /\ executions[exe'[y].of] < AttemptLimit
      <4>1. /\ ilock[exe[y].of] = y /\ exe[y].of \in Approvals
            /\ executions[exe[y].of] < AttemptLimit
        BY <3>1, <2>2, Fields DEF LockInv, HeldInv, RunningHolds, RunningBounded, TypeOK
      <4>2. exe[y].of # a
        BY <4>1, <2>5, FreeAssumption
      <4> QED
        BY <2>2, <2>5, <4>1, <4>2
    <3>2. executions' = executions
      BY <1>d DEF ExecutorStart, rows
    <3> QED
      BY <2>2, <2>3, <3>1, <3>2 DEF RunningHolds, RunningBounded
  <2> QED
    BY <1>d, <2>1, <2>4, <2>6, <2>7, <2>8
    DEF ExecutorStart, LockInv, TypeOK, HeldInv, rows, world
<1>e. CASE ExecutorFinish(x)
  <2>1. exe' \in [Executors -> ExeRequest]
    BY <1>e, <1>1, ExeStep DEF ExecutorFinish
  <2>2. exe'[x].step # "running" /\ \A y \in Executors \ {x} : exe'[y] = exe[y]
    BY <1>e, <1>1 DEF ExecutorFinish, ExeRequest
  <2>3. ilock[a] = x /\ executions[a] < AttemptLimit
    BY <1>e DEF ExecutorFinish, LockInv, HeldInv, RunningHolds, RunningBounded, a
  <2>4. /\ executions' \in [Approvals -> 0..AttemptLimit]
        /\ \A b \in Approvals \ {a} : executions'[b] = executions[b]
    BY <1>e, <1>1, <1>2, <2>3 DEF ExecutorFinish, AttemptLimit, a
  <2>5. /\ ilock' \in [Approvals -> Deciders \cup Executors \cup {Free}]
        /\ \A b \in Approvals \ {a} : ilock'[b] = ilock[b]
    BY <1>e, <1>1, <1>2 DEF ExecutorFinish, a
  <2>6. HeldInv'
    <3>1. \A b \in Approvals : \A e : e # x /\ ilock[b] = e => ilock'[b] = e
      BY <2>3, <2>5
    <3>2. \A b \in Approvals : \A e : e # x /\ ilock[b] = e => executions'[b] = executions[b]
      BY <2>3, <2>4
    <3> QED
      BY <1>e, <2>2, <3>1, <3>2, ExecutorHeld DEF ExecutorFinish
  <2>7. incident' \in [Approvals -> IncidentState] /\ record' \in [Approvals -> RecordStatus]
    BY <1>e DEF ExecutorFinish, LockInv, TypeOK, IncidentState, RecordStatus
  <2>8. proposal' \in [Approvals -> ProposalStatus]
    <3>1. "SUCCEEDED" \in ProposalStatus
      BY DEF ProposalStatus
    <3> QED
      BY <1>e, <3>1 DEF ExecutorFinish, LockInv, TypeOK, Put
  <2>9. needs' \in [Approvals -> BOOLEAN]
    BY <1>e DEF ExecutorFinish, LockInv, TypeOK
  <2> QED
    BY <1>e, <2>1, <2>4, <2>5, <2>6, <2>7, <2>8, <2>9
    DEF ExecutorFinish, LockInv, TypeOK, world
<1>f. CASE LoseExecutor(x)
  <2>1. exe' \in [Executors -> ExeRequest]
    BY <1>f, <1>1, ExeStep DEF LoseExecutor
  <2>2. exe'[x].step # "running" /\ \A y \in Executors \ {x} : exe'[y] = exe[y]
    BY <1>f, <1>1 DEF LoseExecutor, ExeRequest
  <2>3. ilock' \in [Approvals -> Deciders \cup Executors \cup {Free}]
    BY <1>f, <1>2 DEF LoseExecutor
  <2>4. \A b \in Approvals : \A e : e # x /\ ilock[b] = e => ilock'[b] = e
    BY <1>f, <1>2 DEF LoseExecutor
  <2>5. HeldInv'
    BY <1>f, <2>2, <2>4, ExecutorHeld DEF LoseExecutor, rows
  <2> QED
    BY <1>f, <2>1, <2>3, <2>5 DEF LoseExecutor, LockInv, TypeOK, rows, world
<1> QED
  BY <1>a, <1>b, <1>c, <1>d, <1>e, <1>f DEF Execute

LEMMA OtherLock ==
  ASSUME LockInv,
         \/ \E o \in Operators : OperatorRead(o) \/ OperatorWrite(o)
         \/ \E a \in Approvals : RequestApproval(a) \/ Expire(a) \/ TargetMoves(a)
  PROVE  LockInv'
<1>1. HeldInv'
  <2>1. UNCHANGED <<executions, alock, ilock, dec, exe>>
    BY DEF OperatorRead, OperatorWrite, RequestApproval, Expire, TargetMoves, rows, locks
  <2> QED
    BY <2>1 DEF LockInv, HeldInv, HoldsApproval, HoldsIncident, CheckedUnexecuted,
                RunningHolds, RunningBounded
<1>2. "PENDING" \in Decision /\ "AWAITING_APPROVAL" \in IncidentState
      /\ OpTargets \subseteq IncidentState
  BY OpTargetsAssumption DEF Decision, IncidentState, TerminalState
<1>3. ASSUME NEW o \in Operators, OperatorRead(o) PROVE TypeOK'
  <2>1. opr' \in [Operators -> OprRequest]
    BY <1>3, Fields, OprRead DEF OperatorRead, LockInv, TypeOK
  <2> QED
    BY <1>3, <2>1 DEF OperatorRead, LockInv, TypeOK, rows, locks, world
<1>4. ASSUME NEW o \in Operators, OperatorWrite(o) PROVE TypeOK'
  <2>1. opr' \in [Operators -> OprRequest] /\ opr[o].to \in IncidentState
    BY <1>2, <1>4, Fields, OprDone DEF OperatorWrite, LockInv, TypeOK
  <2>2. /\ incident' \in [Approvals -> IncidentState]
        /\ approval' \in [Approvals -> Decision \cup {"none"}]
    BY <1>2, <1>4, <2>1 DEF OperatorWrite, LockInv, TypeOK
  <2> QED
    BY <1>4, <2>1, <2>2 DEF OperatorWrite, LockInv, TypeOK, locks, world
<1>5. ASSUME NEW a \in Approvals, RequestApproval(a) PROVE TypeOK'
  BY <1>2, <1>5 DEF RequestApproval, LockInv, TypeOK, locks, world
<1>6. ASSUME NEW a \in Approvals, Expire(a) \/ TargetMoves(a) PROVE TypeOK'
  BY <1>6 DEF Expire, TargetMoves, LockInv, TypeOK, rows, locks
<1> QED
  BY <1>1, <1>3, <1>4, <1>5, <1>6 DEF LockInv

LEMMA LockStep == LockInv /\ [Next]_vars => LockInv'
<1> SUFFICES ASSUME LockInv, [Next]_vars PROVE LockInv'
  OBVIOUS
<1>1. CASE UNCHANGED vars
  BY <1>1 DEF vars, rows, locks, world, LockInv, TypeOK, HeldInv, HoldsApproval,
              HoldsIncident, CheckedUnexecuted, RunningHolds, RunningBounded
<1>2. CASE Next
  BY <1>2, DecideLock, ExecuteLock, OtherLock DEF Next
<1> QED
  BY <1>1, <1>2

LEMMA LocksHold == Spec => []LockInv
BY InitLock, LockStep, PTL DEF Spec

\* TypeOK of the run approvals_queue: rows hold only what the schema has, and
\* no incident has more than AttemptLimit executions.
THEOREM TypeCorrect == Spec => []TypeOK
<1>1. LockInv => TypeOK
  BY DEF LockInv
<1> QED
  BY <1>1, LocksHold, PTL

-----------------------------------------------------------------------------
(* The queue route: a session that reads under the row locks knows the     *)
(* committed rows until it ends.                                           *)

QueueOf(d) ==
  /\ dec[d].step # "loaded" /\ ~dec[d].inserts
  /\ dec[d].step \in Active /\ dec[d].approval = "PENDING"
       => approval[dec[d].of] = "PENDING"
  /\ dec[d].step \in Owning =>
       /\ dec[d].approval = "PENDING"
       /\ dec[d].incident = incident[dec[d].of]
       /\ dec[d].proposal = proposal[dec[d].of]
  /\ dec[d].step = "checked" =>
       dec[d].incident = "AWAITING_APPROVAL" /\ dec[d].proposal = "PENDING"

QueueInv == LockInv /\ \A d \in Deciders : QueueOf(d)

\* What the step of `s` leaves to the deciders that are not `s`: rows change
\* only under the lock of who changes them.
LEMMA QueueFrame ==
  ASSUME QueueInv, NEW s,
         \A e \in Deciders \ {s} : dec'[e] = dec[e],
         \A a \in Approvals, e \in Deciders \ {s} :
           alock[a] = e /\ approval[a] = "PENDING" => approval'[a] = "PENDING",
         \A a \in Approvals, e \in Deciders \ {s} :
           ilock[a] = e => incident'[a] = incident[a] /\ proposal'[a] = proposal[a]
  PROVE  \A e \in Deciders \ {s} : QueueOf(e)'
<1> SUFFICES ASSUME NEW e \in Deciders \ {s} PROVE QueueOf(e)'
  OBVIOUS
<1>1. QueueOf(e) /\ dec[e].of \in Approvals /\ dec'[e] = dec[e]
  BY Fields DEF QueueInv, LockInv, TypeOK
<1>2. dec[e].step \in Active => alock[dec[e].of] = e
  BY DEF QueueInv, LockInv, HeldInv, HoldsApproval
<1>3. dec[e].step \in Owning => ilock[dec[e].of] = e
  BY DEF QueueInv, LockInv, HeldInv, HoldsIncident
<1>4. dec[e].step \in Active /\ dec[e].approval = "PENDING"
        => approval'[dec[e].of] = "PENDING"
  BY <1>1, <1>2 DEF QueueOf
<1>5. dec[e].step \in Owning =>
        incident'[dec[e].of] = incident[dec[e].of] /\ proposal'[dec[e].of] = proposal[dec[e].of]
  BY <1>1, <1>3
<1> QED
  BY <1>1, <1>4, <1>5 DEF QueueOf

\* A decider that ends: its commit changes rows under its own locks only.
LEMMA QueueCommit ==
  ASSUME QueueInv, NEW d \in Deciders, dec[d].step \in Owning,
         NEW v, NEW p, NEW i, CommitDecision(d, v, p, i)
  PROVE  \A e \in Deciders : QueueOf(e)'
<1> DEFINE a == dec[d].of
<1>1. /\ dec \in [Deciders -> DecRequest] /\ a \in Approvals
      /\ approval \in [Approvals -> Decision \cup {"none"}]
      /\ incident \in [Approvals -> IncidentState]
      /\ proposal \in [Approvals -> ProposalStatus]
  BY Fields DEF QueueInv, LockInv, TypeOK
<1>2. alock[a] = d /\ ilock[a] = d
  BY DEF QueueInv, LockInv, HeldInv, HoldsApproval, HoldsIncident, Active, Owning
<1> HIDE DEF a
<1>3. \A b \in Approvals \ {a} : /\ approval'[b] = approval[b]
                                 /\ incident'[b] = incident[b]
                                 /\ proposal'[b] = proposal[b]
  BY <1>1 DEF CommitDecision, a
<1>4. \A e \in Deciders \ {d} : dec'[e] = dec[e]
  BY <1>1 DEF CommitDecision, Finish
<1>5. \A e \in Deciders \ {d} : QueueOf(e)'
  BY <1>2, <1>3, <1>4, QueueFrame
<1>6. dec'[d].step = "done" /\ dec'[d].inserts = dec[d].inserts
  BY <1>1 DEF CommitDecision, Finish, DecRequest
<1>7. QueueOf(d)'
  BY <1>6 DEF QueueInv, QueueOf, Active, Owning
<1> QED
  BY <1>5, <1>7

LEMMA QueueDecide ==
  ASSUME Routes = {"queue"}, QueueInv, NEW d \in Deciders, Decide(d) \/ LoseDecider(d)
  PROVE  \A e \in Deciders : QueueOf(e)'
<1> DEFINE a == dec[d].of
<1>1. /\ dec \in [Deciders -> DecRequest] /\ dec[d] \in DecRequest /\ a \in Approvals
      /\ dec[d].route = "queue" /\ QueueOf(d)
  BY Fields DEF QueueInv, LockInv, TypeOK
<1> HIDE DEF a
<1>a. ASSUME UNCHANGED rows, \A e \in Deciders \ {d} : dec'[e] = dec[e]
      PROVE  \A e \in Deciders \ {d} : QueueOf(e)'
  BY <1>a, QueueFrame DEF rows
<1>b. ASSUME UNCHANGED rows, Finish(d) PROVE \A e \in Deciders : QueueOf(e)'
  <2>1. \A e \in Deciders \ {d} : dec'[e] = dec[e]
    BY <1>b, <1>1 DEF Finish
  <2>2. dec'[d].step = "done" /\ dec'[d].inserts = dec[d].inserts
    BY <1>b, <1>1 DEF Finish, DecRequest
  <2>3. QueueOf(d)'
    BY <1>1, <2>2 DEF QueueOf, Active, Owning
  <2> QED
    BY <1>a, <1>b, <2>1, <2>3
<1>2. CASE Preload(d)
  BY <1>1, <1>2 DEF Preload
<1>3. CASE LockApproval(d)
  <2>1. /\ UNCHANGED rows /\ dec'[d].step = "locked" /\ dec'[d].of = a
        /\ dec'[d].approval = approval[a] /\ dec'[d].inserts = dec[d].inserts
        /\ \A e \in Deciders \ {d} : dec'[e] = dec[e]
    BY <1>1, <1>3 DEF LockApproval, DecRequest, a
  <2>2. QueueOf(d)'
    BY <1>1, <2>1 DEF QueueOf, Owning, rows
  <2> QED
    BY <1>a, <2>1, <2>2
<1>4. CASE RefuseDecided(d) \/ RaiseError(d) \/ LoseDecider(d)
  BY <1>4, <1>b DEF RefuseDecided, RaiseError, LoseDecider
<1>5. CASE LockIncident(d)
  <2>1. /\ UNCHANGED rows /\ dec'[d].step = "held" /\ dec'[d].of = a
        /\ dec'[d].approval = "PENDING" /\ dec'[d].inserts = dec[d].inserts
        /\ dec'[d].incident = incident[a] /\ dec'[d].proposal = proposal[a]
        /\ \A e \in Deciders \ {d} : dec'[e] = dec[e]
    BY <1>1, <1>5 DEF LockIncident, DecRequest, a
  <2>2. approval[a] = "PENDING"
    BY <1>1, <1>5 DEF LockIncident, QueueOf, Active, a
  <2>3. QueueOf(d)'
    BY <1>1, <2>1, <2>2 DEF QueueOf, rows
  <2> QED
    BY <1>a, <2>1, <2>3
<1>6. CASE AskPolicy(d)
  <2>1. /\ UNCHANGED rows /\ dec'[d].step = "checked" /\ dec'[d].of = a
        /\ dec'[d].approval = dec[d].approval /\ dec'[d].inserts = dec[d].inserts
        /\ dec'[d].incident = dec[d].incident /\ dec'[d].proposal = dec[d].proposal
        /\ \A e \in Deciders \ {d} : dec'[e] = dec[e]
    BY <1>1, <1>6 DEF AskPolicy, DecRequest, a
  <2>2. /\ dec[d].step = "held"
        /\ dec[d].incident = "AWAITING_APPROVAL" /\ dec[d].proposal = "PENDING"
    BY <1>6 DEF AskPolicy, Stale
  <2>3. QueueOf(d)'
    BY <1>1, <2>1, <2>2 DEF QueueOf, rows, Active, Owning, a
  <2> QED
    BY <1>a, <2>1, <2>3
<1>7. CASE Reject(d) \/ InvalidateStale(d) \/ PolicyRefuses(d) \/ Approve(d)
  BY <1>7, QueueCommit
  DEF Reject, InvalidateStale, PolicyRefuses, Approve, CommitInvalid, Owning
<1> QED
  BY <1>2, <1>3, <1>4, <1>5, <1>6, <1>7 DEF Decide

LEMMA QueueExecute ==
  ASSUME QueueInv, NEW x \in Executors, Execute(x) \/ LoseExecutor(x)
  PROVE  \A e \in Deciders : QueueOf(e)'
<1>1. dec' = dec /\ approval' = approval /\ x \notin Deciders
  BY RequestsAssumption
  DEF Execute, ExecutorRead, ExecutorDenied, ExecutorAllowed, ExecutorStart,
      ExecutorFinish, LoseExecutor, rows
<1>2. \A a \in Approvals, e \in Deciders :
        ilock[a] = e => incident'[a] = incident[a] /\ proposal'[a] = proposal[a]
  <2>1. CASE ExecutorFinish(x)
    <3>1. ilock[exe[x].of] = x /\ exe[x].of \in Approvals
      BY <2>1, Fields DEF ExecutorFinish, QueueInv, LockInv, HeldInv, RunningHolds, TypeOK
    <3>2. \A b \in Approvals : b # exe[x].of =>
            incident'[b] = incident[b] /\ proposal'[b] = proposal[b]
      BY <2>1 DEF ExecutorFinish, QueueInv, LockInv, TypeOK
    <3> QED
      BY <1>1, <3>1, <3>2
  <2>2. CASE ~ExecutorFinish(x)
    BY <2>2 DEF Execute, ExecutorRead, ExecutorDenied, ExecutorAllowed, ExecutorStart,
                LoseExecutor, rows
  <2> QED
    BY <2>1, <2>2
<1> QED
  BY <1>1, <1>2, QueueFrame

LEMMA QueueOther ==
  ASSUME QueueInv,
         \/ \E o \in Operators : OperatorRead(o) \/ OperatorWrite(o)
         \/ \E a \in Approvals : RequestApproval(a) \/ Expire(a) \/ TargetMoves(a)
  PROVE  \A e \in Deciders : QueueOf(e)'
<1>1. dec' = dec /\ proposal' = proposal
  BY DEF OperatorRead, OperatorWrite, RequestApproval, Expire, TargetMoves, rows
<1>2. ASSUME NEW a \in Approvals, NEW e \in Deciders, ilock[a] = e
      PROVE  incident'[a] = incident[a]
  BY <1>2, FreeAssumption
  DEF OperatorRead, OperatorWrite, RequestApproval, Expire, TargetMoves, rows,
      QueueInv, LockInv, TypeOK
<1>3. ASSUME NEW a \in Approvals, approval[a] = "PENDING"
      PROVE  approval'[a] = "PENDING"
  BY <1>3
  DEF OperatorRead, OperatorWrite, RequestApproval, Expire, TargetMoves, rows,
      QueueInv, LockInv, TypeOK
<1>4. Free \notin Deciders
  BY FreeAssumption
<1> QED
  BY <1>1, <1>2, <1>3, <1>4, QueueFrame

LEMMA QueueStep ==
  ASSUME Routes = {"queue"}
  PROVE  QueueInv /\ [Next]_vars => QueueInv'
<1> SUFFICES ASSUME QueueInv, [Next]_vars PROVE QueueInv'
  OBVIOUS
<1>1. LockInv'
  BY LockStep DEF QueueInv
<1>2. CASE UNCHANGED vars
  BY <1>1, <1>2 DEF vars, rows, QueueInv, QueueOf
<1>3. CASE Next
  BY <1>1, <1>3, QueueDecide, QueueExecute, QueueOther DEF Next, QueueInv
<1> QED
  BY <1>2, <1>3

LEMMA QueueHolds ==
  ASSUME Routes = {"queue"}
  PROVE  Spec => []QueueInv
<1>1. Init => QueueInv
  <2> SUFFICES ASSUME Init PROVE QueueInv
    OBVIOUS
  <2>1. \A d \in Deciders : dec[d].step = "new" /\ ~dec[d].inserts
    BY DEF Init
  <2> QED
    BY <2>1, InitLock DEF QueueInv, QueueOf, Active, Owning
<1> QED
  BY <1>1, QueueStep, PTL DEF Spec

\* In a step that writes a decision the writer holds both locks, so what its
\* session has read is what is committed.
LEMMA QueueWrites ==
  ASSUME Routes = {"queue"}, QueueInv, [Next]_vars, NEW a \in Approvals,
         approval'[a] # approval[a], approval[a] # "none" \/ approval'[a] # "PENDING"
  PROVE  /\ approval[a] = "PENDING"
         /\ approval'[a] = "APPROVED" =>
              /\ incident[a] = "AWAITING_APPROVAL"
              /\ proposal[a] = "PENDING"
              /\ executions[a] = 0
<1>0. approval \in [Approvals -> Decision \cup {"none"}]
  BY DEF QueueInv, LockInv, TypeOK
<1>1. \A d \in Deciders : QueueOf(d)
  BY DEF QueueInv
<1>2. PICK d \in Deciders : Reject(d) \/ InvalidateStale(d) \/ PolicyRefuses(d) \/ Approve(d)
  <2>1. ~UNCHANGED approval
    OBVIOUS
  <2>2. ASSUME NEW x \in Executors, Execute(x) \/ LoseExecutor(x) PROVE FALSE
    BY <2>1, <2>2 DEF Execute, ExecutorRead, ExecutorDenied, ExecutorAllowed,
                      ExecutorStart, ExecutorFinish, LoseExecutor, rows
  <2>3. ASSUME NEW o \in Operators, OperatorRead(o) \/ OperatorWrite(o) PROVE FALSE
    BY <1>0, <2>1, <2>3 DEF OperatorRead, OperatorWrite, rows
  <2>4. ASSUME NEW b \in Approvals, RequestApproval(b) \/ Expire(b) \/ TargetMoves(b)
        PROVE  FALSE
    BY <1>0, <2>1, <2>4 DEF RequestApproval, Expire, TargetMoves, rows
  <2>5. ~UNCHANGED vars
    BY <2>1 DEF vars, rows
  <2>6. PICK d \in Deciders : Decide(d) \/ LoseDecider(d)
    BY <2>2, <2>3, <2>4, <2>5 DEF Next
  <2> QED
    BY <2>1, <2>6 DEF Decide, LoseDecider, Preload, LockApproval, RefuseDecided,
                      LockIncident, RaiseError, AskPolicy, rows
<1>3. dec[d].step \in Owning
  BY <1>2 DEF Reject, InvalidateStale, PolicyRefuses, Approve, Owning
<1>4. dec[d].of = a
  BY <1>0, <1>2
  DEF Reject, InvalidateStale, PolicyRefuses, Approve, CommitInvalid, CommitDecision
<1>5. approval[a] = "PENDING"
  BY <1>1, <1>3, <1>4 DEF QueueOf, Active, Owning
<1>6. ASSUME approval'[a] = "APPROVED" PROVE Approve(d)
  BY <1>0, <1>2, <1>4, <1>6
  DEF Reject, InvalidateStale, PolicyRefuses, CommitInvalid, CommitDecision
<1>7. ASSUME Approve(d)
      PROVE  incident[a] = "AWAITING_APPROVAL" /\ proposal[a] = "PENDING" /\ executions[a] = 0
  BY <1>1, <1>3, <1>4, <1>7
  DEF Approve, QueueOf, QueueInv, LockInv, HeldInv, CheckedUnexecuted
<1> QED
  BY <1>5, <1>6, <1>7

\* ApprovalService.decide through the approval queue: a decided approval is
\* never decided again, for any number of overlapping requests.
THEOREM QueueDecisionIsFinal ==
  ASSUME Routes = {"queue"}
  PROVE  Spec => DecisionIsFinal
<1>1. QueueInv /\ [Next]_vars =>
        [\A a \in Approvals :
           approval[a] \in Decided => approval'[a] = approval[a]]_vars
  BY QueueWrites DEF Decided, Decision
<1> QED
  BY <1>1, QueueHolds, PTL DEF Spec, DecisionIsFinal

\* _stale_reason through the approval queue: what is approved is still waiting,
\* pending and unexecuted when the approval is committed, although OPA was
\* asked in between.
THEOREM QueueApprovedWasFresh ==
  ASSUME Routes = {"queue"}
  PROVE  Spec => ApprovedWasFresh
<1>1. QueueInv /\ [Next]_vars =>
        [\A a \in Approvals :
           approval[a] # "APPROVED" /\ approval'[a] = "APPROVED" =>
             /\ incident[a] = "AWAITING_APPROVAL"
             /\ proposal[a] = "PENDING"
             /\ executions[a] = 0]_vars
  BY QueueWrites
<1> QED
  BY <1>1, QueueHolds, PTL DEF Spec, ApprovedWasFresh

-----------------------------------------------------------------------------
\* DecisionIsAtomic of the run approvals_queue: no interleaving of approvers,
\* executors and operators leaves half a decision in the rows.
THEOREM QueueDecisionIsAtomic ==
  ASSUME Routes = {"queue"}
  PROVE  Spec => []DecisionIsAtomic
<1>1. Init => DecisionIsAtomic
  BY DEF Init, DecisionIsAtomic
<1>2. QueueInv /\ DecisionIsAtomic /\ [Next]_vars => DecisionIsAtomic'
  <2> SUFFICES ASSUME QueueInv, DecisionIsAtomic, [Next]_vars PROVE DecisionIsAtomic'
    OBVIOUS
  <2>0. /\ approval \in [Approvals -> Decision \cup {"none"}]
        /\ proposal \in [Approvals -> ProposalStatus]
    BY DEF QueueInv, LockInv, TypeOK
  <2>1. ASSUME UNCHANGED <<approval, proposal>> PROVE DecisionIsAtomic'
    BY <2>1 DEF DecisionIsAtomic
  <2>2. ASSUME NEW d \in Deciders, NEW v, NEW p, NEW i, dec[d].step \in Owning,
               CommitDecision(d, v, p, i),
               \/ v \in {"REJECTED", "EXPIRED", "INVALIDATED"} /\ p = "REJECTED"
               \/ v = "APPROVED" /\ p = "PENDING" /\ dec[d].proposal = "PENDING"
        PROVE  DecisionIsAtomic'
    <3>1. ~dec[d].inserts /\ dec[d].proposal = proposal[dec[d].of]
      BY <2>2 DEF QueueInv, QueueOf
    <3>2. /\ approval' = [approval EXCEPT ![dec[d].of] = v]
          /\ proposal' = [proposal EXCEPT ![dec[d].of] = p]
      BY <2>0, <2>2, <3>1 DEF CommitDecision, Put
    <3> QED
      BY <2>0, <2>2, <3>2 DEF DecisionIsAtomic
  <2>3. ASSUME NEW d \in Deciders, Decide(d) \/ LoseDecider(d) PROVE DecisionIsAtomic'
    <3>1. CASE Reject(d)
      BY <2>2, <3>1 DEF Reject, Owning
    <3>2. CASE InvalidateStale(d) \/ PolicyRefuses(d)
      BY <2>2, <3>2 DEF InvalidateStale, PolicyRefuses, CommitInvalid, Owning
    <3>3. CASE Approve(d)
      <4>1. dec[d].proposal = "PENDING" /\ dec[d].step \in Owning
        BY <3>3 DEF Approve, QueueInv, QueueOf, Owning
      <4> QED
        BY <2>2, <3>3, <4>1 DEF Approve
    <3>4. CASE ~(Reject(d) \/ InvalidateStale(d) \/ PolicyRefuses(d) \/ Approve(d))
      BY <2>1, <2>3, <3>4 DEF Decide, LoseDecider, Preload, LockApproval,
                              RefuseDecided, LockIncident, RaiseError, AskPolicy, rows
    <3> QED
      BY <3>1, <3>2, <3>3, <3>4
  <2>4. ASSUME NEW x \in Executors, Execute(x) \/ LoseExecutor(x) PROVE DecisionIsAtomic'
    <3>1. approval' = approval
          /\ \A a \in Approvals : proposal'[a] = proposal[a] \/ proposal'[a] = "SUCCEEDED"
      BY <2>0, <2>4 DEF Execute, ExecutorRead, ExecutorDenied, ExecutorAllowed,
                        ExecutorStart, ExecutorFinish, LoseExecutor, rows, Put
    <3> QED
      BY <3>1 DEF DecisionIsAtomic
  <2>5. ASSUME NEW o \in Operators, OperatorRead(o) \/ OperatorWrite(o)
        PROVE  DecisionIsAtomic'
    BY <2>0, <2>5 DEF OperatorRead, OperatorWrite, rows, DecisionIsAtomic
  <2>7. ASSUME NEW a \in Approvals, RequestApproval(a) \/ Expire(a) \/ TargetMoves(a)
        PROVE  DecisionIsAtomic'
    BY <2>0, <2>7 DEF RequestApproval, Expire, TargetMoves, rows, DecisionIsAtomic
  <2>6. ASSUME UNCHANGED vars PROVE DecisionIsAtomic'
    BY <2>1, <2>6 DEF vars, rows
  <2> QED
    BY <2>3, <2>4, <2>5, <2>6, <2>7 DEF Next
<1> QED
  BY <1>1, <1>2, QueueHolds, PTL DEF Spec

-----------------------------------------------------------------------------
(* At-most-once execution, on both routes.  Executors check the incident   *)
(* and the record without a lock; what makes the second one fail is the    *)
(* unique policy_name of the record and that a failed one ends the incident.*)

RecordCounts == \A a \in Approvals : (record[a] = "none") = (executions[a] = 0)
FailedIsTerminal ==
  \A a \in Approvals : record[a] = "VERIFICATION_FAILED" => incident[a] \in TerminalState
ReadUnrecorded ==
  \A x \in Executors :
    exe[x].step \in {"read", "allowed", "running"} => exe[x].record = "none"
RunsUnrecorded ==
  \A x \in Executors : exe[x].step = "running" => record[exe[x].of] = "none"

OnceInv ==
  /\ LockInv
  /\ RecordCounts
  /\ FailedIsTerminal
  /\ ReadUnrecorded
  /\ RunsUnrecorded
  /\ ExecutedAtMostOnce

LEMMA OnceDecide ==
  ASSUME OnceInv, NEW d \in Deciders, Decide(d) \/ LoseDecider(d)
  PROVE  UNCHANGED <<record, executions, exe>> /\ FailedIsTerminal'
<1>1. UNCHANGED <<record, executions, exe>>
  BY DEF Decide, LoseDecider, Preload, LockApproval, RefuseDecided, LockIncident,
         Reject, RaiseError, InvalidateStale, AskPolicy, PolicyRefuses, Approve,
         CommitInvalid, CommitDecision, rows
<1>2. incident \in [Approvals -> IncidentState] /\ dec[d].of \in Approvals
  BY Fields DEF OnceInv, LockInv, TypeOK
<1>3. ASSUME NEW i, NEW v, NEW p, CommitDecision(d, v, p, i),
             \/ i \in TerminalState
             \/ i = dec[d].incident
             \/ record[dec[d].of] = "none"
      PROVE  FailedIsTerminal'
  BY <1>1, <1>2, <1>3 DEF CommitDecision, Put, FailedIsTerminal, OnceInv
<1>4. "BLOCKED" \in TerminalState
  BY DEF TerminalState
<1>5. CASE Reject(d)
  BY <1>1, <1>3, <1>4, <1>5 DEF Reject
<1>6. CASE InvalidateStale(d) \/ PolicyRefuses(d)
  BY <1>1, <1>3, <1>4, <1>6 DEF InvalidateStale, PolicyRefuses, CommitInvalid
<1>7. CASE Approve(d)
  <2>1. record[dec[d].of] = "none"
    BY <1>2, <1>7 DEF Approve, OnceInv, LockInv, HeldInv, CheckedUnexecuted, RecordCounts
  <2> QED
    BY <1>1, <1>3, <1>7, <2>1 DEF Approve
<1>8. CASE ~(Reject(d) \/ InvalidateStale(d) \/ PolicyRefuses(d) \/ Approve(d))
  <2>1. UNCHANGED incident
    BY <1>8 DEF Decide, LoseDecider, Preload, LockApproval, RefuseDecided,
                LockIncident, RaiseError, AskPolicy, rows
  <2> QED
    BY <1>1, <2>1 DEF OnceInv, FailedIsTerminal
<1> QED
  BY <1>1, <1>5, <1>6, <1>7, <1>8

LEMMA OnceExecute ==
  ASSUME OnceInv, NEW x \in Executors, Execute(x) \/ LoseExecutor(x), LockInv'
  PROVE  OnceInv'
<1> DEFINE a == exe[x].of
<1>1. /\ exe \in [Executors -> ExeRequest] /\ exe[x] \in ExeRequest /\ a \in Approvals
      /\ executions \in [Approvals -> 0..AttemptLimit]
      /\ record \in [Approvals -> RecordStatus]
      /\ incident \in [Approvals -> IncidentState]
  BY Fields DEF OnceInv, LockInv, TypeOK
<1> HIDE DEF a
<1>2. ASSUME UNCHANGED <<record, executions, incident>>,
             \A y \in Executors \ {x} : exe'[y] = exe[y],
             exe'[x].step \in {"read", "allowed", "running"} => exe'[x].record = "none",
             exe'[x].step = "running" => record[exe'[x].of] = "none"
      PROVE  OnceInv'
  <2>1. RecordCounts' /\ FailedIsTerminal' /\ ExecutedAtMostOnce'
    BY <1>2 DEF OnceInv, RecordCounts, FailedIsTerminal, ExecutedAtMostOnce
  <2>2. ReadUnrecorded' /\ RunsUnrecorded'
    BY <1>2 DEF OnceInv, ReadUnrecorded, RunsUnrecorded
  <2> QED
    BY <2>1, <2>2 DEF OnceInv
<1>3. CASE ExecutorRead(x)
  <2>1. /\ \A y \in Executors \ {x} : exe'[y] = exe[y]
        /\ exe'[x].step # "running" /\ exe'[x].record = record[a]
        /\ exe'[x].step \in {"read", "allowed", "running"} =>
             record[a] # "CONTAINED" /\ incident[a] \notin TerminalState
    BY <1>1, <1>3 DEF ExecutorRead, ExeRequest, a
  <2>2. exe'[x].step \in {"read", "allowed", "running"} => record[a] = "none"
    BY <1>1, <2>1 DEF OnceInv, FailedIsTerminal, RecordStatus
  <2> QED
    BY <1>2, <1>3, <2>1, <2>2 DEF ExecutorRead, rows
<1>4. CASE ExecutorDenied(x) \/ LoseExecutor(x)
  <2>1. exe'[x].step = "done" /\ \A y \in Executors \ {x} : exe'[y] = exe[y]
    BY <1>1, <1>4 DEF ExecutorDenied, LoseExecutor, ExeRequest
  <2> QED
    BY <1>2, <1>4, <2>1 DEF ExecutorDenied, LoseExecutor, rows
<1>5. CASE ExecutorAllowed(x)
  <2>1. /\ exe'[x].step = "allowed" /\ exe'[x].record = exe[x].record
        /\ \A y \in Executors \ {x} : exe'[y] = exe[y]
    BY <1>1, <1>5 DEF ExecutorAllowed, ExeRequest
  <2>2. exe[x].record = "none"
    BY <1>5 DEF ExecutorAllowed, OnceInv, ReadUnrecorded
  <2> QED
    BY <1>2, <1>5, <2>1, <2>2 DEF ExecutorAllowed, rows
<1>6. CASE ExecutorStart(x)
  <2>1. exe[x].record = "none"
    BY <1>6 DEF ExecutorStart, OnceInv, ReadUnrecorded
  <2>2. /\ exe'[x].record = exe[x].record /\ exe'[x].of = a
        /\ \A y \in Executors \ {x} : exe'[y] = exe[y]
    BY <1>1, <1>6 DEF ExecutorStart, ExeRequest, a
  <2>3. exe'[x].step = "running" => record[a] = "none"
    BY <1>1, <1>6, <2>1 DEF ExecutorStart, ExeRequest, a
  <2> QED
    BY <1>2, <1>6, <2>1, <2>2, <2>3 DEF ExecutorStart, rows
<1>7. CASE ExecutorFinish(x)
  <2>1. record[a] = "none" /\ executions[a] = 0 /\ ilock[a] = x
    BY <1>1, <1>7 DEF ExecutorFinish, OnceInv, RunsUnrecorded, RecordCounts, LockInv,
                      HeldInv, RunningHolds, a
  <2>2. /\ executions'[a] = 1
        /\ \A b \in Approvals \ {a} : executions'[b] = executions[b]
    BY <1>1, <1>7, <2>1 DEF ExecutorFinish, a
  <2>3. /\ \/ record'[a] = "CONTAINED"
           \/ record'[a] = "VERIFICATION_FAILED" /\ incident'[a] = "ESCALATED"
        /\ \A b \in Approvals \ {a} : record'[b] = record[b] /\ incident'[b] = incident[b]
    BY <1>1, <1>7 DEF ExecutorFinish, a
  <2>4. exe'[x].step = "done" /\ \A y \in Executors \ {x} : exe'[y] = exe[y]
    BY <1>1, <1>7 DEF ExecutorFinish, ExeRequest
  <2>5. RecordCounts' /\ ExecutedAtMostOnce'
    BY <1>1, <2>2, <2>3 DEF OnceInv, RecordCounts, ExecutedAtMostOnce
  <2>6. FailedIsTerminal'
    BY <2>3 DEF OnceInv, FailedIsTerminal, TerminalState
  <2>7. ReadUnrecorded'
    BY <2>4 DEF OnceInv, ReadUnrecorded
  <2>8. RunsUnrecorded'
    <3>1. ASSUME NEW y \in Executors \ {x}, exe[y].step = "running"
          PROVE  record'[exe[y].of] = "none"
      <4>1. ilock[exe[y].of] = y /\ exe[y].of \in Approvals /\ record[exe[y].of] = "none"
        BY <1>1, <3>1, Fields
        DEF OnceInv, LockInv, HeldInv, RunningHolds, RunsUnrecorded
      <4> QED
        BY <2>1, <2>3, <4>1
    <3> QED
      BY <2>4, <3>1 DEF RunsUnrecorded
  <2> QED
    BY <2>5, <2>6, <2>7, <2>8 DEF OnceInv
<1> QED
  BY <1>3, <1>4, <1>5, <1>6, <1>7 DEF Execute

\* ExecutedAtMostOnce of both approval runs: while nobody moves incidents by
\* hand, apply_quarantine runs at most once for a proposal, on both routes.
THEOREM AtMostOnceExecution ==
  ASSUME Operators = {}
  PROVE  Spec => []ExecutedAtMostOnce
<1>1. Init => OnceInv
  <2> SUFFICES ASSUME Init PROVE OnceInv
    OBVIOUS
  <2>1. \A x \in Executors : exe[x].step = "new"
    BY DEF Init
  <2>2. /\ record = [a \in Approvals |-> "none"]
        /\ executions = [a \in Approvals |-> 0]
    BY DEF Init
  <2> QED
    BY <2>1, <2>2, InitLock DEF OnceInv, RecordCounts, FailedIsTerminal, ReadUnrecorded,
                                RunsUnrecorded, ExecutedAtMostOnce
<1>2. OnceInv /\ [Next]_vars => OnceInv'
  <2> SUFFICES ASSUME OnceInv, [Next]_vars PROVE OnceInv'
    OBVIOUS
  <2>1. LockInv'
    BY LockStep DEF OnceInv
  <2>2. ASSUME UNCHANGED <<record, executions, exe>>, FailedIsTerminal' PROVE OnceInv'
    BY <2>1, <2>2 DEF OnceInv, RecordCounts, ReadUnrecorded, RunsUnrecorded,
                      ExecutedAtMostOnce
  <2>3. ASSUME NEW d \in Deciders, Decide(d) \/ LoseDecider(d) PROVE OnceInv'
    BY <2>2, <2>3, OnceDecide
  <2>4. ASSUME NEW x \in Executors, Execute(x) \/ LoseExecutor(x) PROVE OnceInv'
    BY <2>1, <2>4, OnceExecute
  <2>5. ASSUME NEW a \in Approvals, RequestApproval(a) PROVE OnceInv'
    <3>1. incident \in [Approvals -> IncidentState]
      BY DEF OnceInv, LockInv, TypeOK
    <3>2. "POLICY_EVALUATION" \notin TerminalState
      BY DEF TerminalState
    <3>3. FailedIsTerminal'
      BY <2>5, <3>1, <3>2 DEF RequestApproval, OnceInv, FailedIsTerminal
    <3> QED
      BY <2>2, <2>5, <3>3 DEF RequestApproval
  <2>6. ASSUME \/ UNCHANGED vars
               \/ \E a \in Approvals : Expire(a) \/ TargetMoves(a)
        PROVE  OnceInv'
    <3>1. UNCHANGED <<record, executions, exe, incident>>
      BY <2>6 DEF vars, rows, Expire, TargetMoves
    <3>2. FailedIsTerminal'
      BY <3>1 DEF OnceInv, FailedIsTerminal
    <3> QED
      BY <2>2, <3>1, <3>2
  <2> QED
    BY <2>3, <2>4, <2>5, <2>6 DEF Next
<1>3. OnceInv => ExecutedAtMostOnce
  BY DEF OnceInv
<1> QED
  BY <1>1, <1>2, <1>3, PTL DEF Spec

=============================================================================
