----------------------- MODULE ReliabilityWorkflowProofs -----------------------
(***************************************************************************)
(* Proofs about ReliabilityWorkflow, for any number of overlapping         *)
(* requests, polls and stops: an action is taken once, verifications stop  *)
(* at three, and the replicas are the recorded ones and restored when the  *)
(* experiment has succeeded.                                               *)
(*                                                                         *)
(* The rows of a request become visible at its commit only, so that the    *)
(* invariant has to say what a transaction under way already knows: that   *)
(* nothing was executed while it holds the incident's row (ProcInv), that  *)
(* a poll which verifies or restores finds the execution it read           *)
(* (PollInv), and what the cluster owes the rows at each of those steps    *)
(* (ClusterInv).  The second half proves the advisory diagnosis of its     *)
(* incidents.                                                              *)
(***************************************************************************)
EXTENDS ReliabilityWorkflow, Diagnosis, Sequences, FiniteSetTheorems, TLAPS

Replicas == Base..MaxReplicas
ExecRecs == [status : {"none", "SUCCEEDED", "FAILED"}, previous : 0..MaxReplicas,
             requested : 0..MaxReplicas]
Before == {"idle", "failed", "done", "read", "collecting"}
Holding == {"policy", "claiming", "claimed", "acting", "acted"}
ProcRecs == [step : Before \cup {"observed"} \cup Holding, at : IncidentState,
             seen : 0..MaxReplicas, exec : ExecRecs]
PollSteps == {"idle", "verifying", "cleanup", "undoing", "restoring", "commit"}
PollRecs == [step : PollSteps, at : IncidentState \cup {"none"}, records : {0, 1},
             undone : BOOLEAN, linked : BOOLEAN, outcome : Ended \cup {"none"}]

\* The shared rows and the cluster.
SharedTypes ==
  /\ plan \in Plans
  /\ incident \in IncidentState \cup {"none"}
  /\ policy \in {"none", "allow", "deny"}
  /\ exec \in ExecRecs
  /\ undo \in BOOLEAN /\ linked \in BOOLEAN /\ expired \in BOOLEAN /\ chaos \in BOOLEAN
  /\ verified \in 0..3
  /\ lab \in {"RUNNING"} \cup Ended
  /\ replicas \in Replicas
  /\ lock \in Requests \cup Reconcilers \cup {Free}
  /\ labLock \in Reconcilers \cup {Free}
  /\ acted \in Nat /\ unrecorded \in Nat

Types ==
  /\ SharedTypes
  /\ proc \in [Requests -> ProcRecs]
  /\ poll \in [Reconcilers -> PollRecs]

\* The runbook's scaling was carried out and is on record.
Scaled == plan = "scale" => exec.status = "SUCCEEDED"

\* What request r knows: from POLICY_EVALUATION on it holds the incident's
\* row, and once it has claimed the action nobody has executed one.
ProcInv(r) ==
  /\ proc[r].step \notin Before => proc[r].seen \in Replicas
  /\ proc[r].step \in Holding => lock = r
  /\ proc[r].step \in {"claimed", "acting", "acted"} => exec.status = "none"
  /\ proc[r].step = "acting" => plan = "scale"
  /\ proc[r].step = "acted" =>
       /\ proc[r].exec.status # "none"
       /\ proc[r].exec.previous \in Replicas
       /\ plan = "scale" => proc[r].exec.status = "SUCCEEDED"

\* What poll or stop q knows: it holds the running experiment; it verifies an
\* incident whose action is on record, ends it only after the third record,
\* restores what was scaled and not yet restored, and does not commit a
\* success before it has.
PollInv(q) ==
  /\ poll[q].step = "idle" => poll[q] = NoPoll
  /\ poll[q].step # "idle" => labLock = q /\ lab = "RUNNING"
  /\ poll[q].step = "verifying" =>
       poll[q].records = 0 /\ ~poll[q].undone /\ verified < 3 /\ poll[q].linked /\ Scaled
  /\ poll[q].records = 1 => verified < 3 /\ Scaled
  /\ lock = q =>
       /\ poll[q].records = 1
       /\ poll[q].at \in {"RESOLVED", "ESCALATED"}
       /\ poll[q].at = "ESCALATED" => verified = 2
  /\ poll[q].step \in {"undoing", "restoring"} =>
       plan = "scale" /\ exec.status = "SUCCEEDED" /\ ~undo /\ ~poll[q].undone
  /\ poll[q].undone => plan = "scale" /\ exec.status = "SUCCEEDED"
  /\ poll[q].outcome = "SUCCEEDED" => Scaled /\ poll[q].linked
  /\ poll[q].step = "commit" /\ poll[q].outcome = "SUCCEEDED" /\ plan = "scale" =>
       undo \/ poll[q].undone

\* What the committed rows say of each other.
RowInv ==
  /\ exec.status # "none" => exec.previous \in Replicas
  /\ plan = "scale" => exec.status \in {"none", "SUCCEEDED"}
  /\ undo => exec.status # "none"
  /\ incident \in {"VERIFYING", "RESOLVED"} => Scaled
  /\ incident = "ESCALATED" => verified = 3
  /\ lab = "SUCCEEDED" /\ plan = "scale" => undo

\* Actions are counted before they are on record.
InFlight == \E r \in Requests : proc[r].step = "acted"
ActInv ==
  /\ acted <= 1 + unrecorded
  /\ exec.status = "none" /\ ~InFlight => acted <= unrecorded

\* What the cluster has at each step, as long as every change is on record or
\* on its way there.
Restored == undo \/ \E q \in Reconcilers : poll[q].undone
ClusterInv ==
  unrecorded = 0 =>
    /\ plan # "scale" => replicas = Base
    /\ plan = "scale" /\ exec.status = "none" /\ ~InFlight => replicas = Base
    /\ \A r \in Requests : plan = "scale" /\ proc[r].step = "acted" =>
         replicas = proc[r].exec.requested /\ proc[r].exec.previous = Base
    /\ \A r \in Requests : proc[r].step = "acting" => proc[r].seen = replicas
    /\ plan = "scale" /\ exec.status = "SUCCEEDED" =>
         /\ exec.previous = Base
         /\ replicas = IF Restored THEN Base ELSE exec.requested

IndInv ==
  /\ Types
  /\ \A r \in Requests : ProcInv(r)
  /\ \A q \in Reconcilers : PollInv(q)
  /\ RowInv /\ ActInv /\ ClusterInv

-----------------------------------------------------------------------------
USE ReplicasAssumption

\* An empty record is one.
LEMMA EmptyRecords ==
  /\ NoExec \in ExecRecs /\ NoExec.status = "none"
  /\ NoProc \in ProcRecs /\ NoProc.step = "idle" /\ NoProc.at = "DETECTED" /\ NoProc.seen = 0
  /\ Step(NoProc, "failed") \in ProcRecs /\ Step(NoProc, "failed").step = "failed"
  /\ Step(NoProc, "done") \in ProcRecs /\ Step(NoProc, "done").step = "done"
  /\ NoPoll \in PollRecs /\ NoPoll.step = "idle" /\ NoPoll.records = 0 /\ ~NoPoll.undone
  /\ NoPoll.outcome = "none" /\ ~NoPoll.linked /\ NoPoll.at = "none"
<1>1. NoExec \in ExecRecs /\ NoExec.status = "none"
  BY DEF NoExec, ExecRecs
<1>2. "DETECTED" \in IncidentState
  BY DEF IncidentState
<1>3. NoProc \in ProcRecs /\ NoProc.step = "idle" /\ NoProc.at = "DETECTED" /\ NoProc.seen = 0
  BY <1>1, <1>2 DEF NoProc, ProcRecs, Before
<1>4. /\ Step(NoProc, "failed") \in ProcRecs /\ Step(NoProc, "failed").step = "failed"
      /\ Step(NoProc, "done") \in ProcRecs /\ Step(NoProc, "done").step = "done"
  BY <1>3 DEF Step, ProcRecs, Before
<1>5. /\ NoPoll \in PollRecs /\ NoPoll.step = "idle" /\ NoPoll.records = 0 /\ ~NoPoll.undone
      /\ NoPoll.outcome = "none" /\ ~NoPoll.linked /\ NoPoll.at = "none"
  BY DEF NoPoll, PollRecs, PollSteps
<1>6. QED
  BY <1>1, <1>3, <1>4, <1>5

\* Nothing has happened at first.
LEMMA InitIndInv == Init => IndInv
<1> SUFFICES ASSUME Init PROVE IndInv
  OBVIOUS
<1>1. Types
  <2>1. proc \in [Requests -> ProcRecs] /\ poll \in [Reconcilers -> PollRecs]
    BY EmptyRecords DEF Init
  <2>2. exec \in ExecRecs /\ replicas \in Replicas /\ incident = "none"
    BY EmptyRecords DEF Init, Replicas
  <2>3. undo \in BOOLEAN /\ linked \in BOOLEAN /\ expired \in BOOLEAN /\ chaos \in BOOLEAN
    BY DEF Init
  <2>4. /\ plan \in Plans /\ policy = "none" /\ verified \in 0..3 /\ lab = "RUNNING"
        /\ lock = Free /\ labLock = Free /\ acted \in Nat /\ unrecorded \in Nat
    BY DEF Init
  <2>5. QED
    BY <2>1, <2>2, <2>3, <2>4 DEF Types, SharedTypes
<1>2. \A r \in Requests : ProcInv(r)
  BY EmptyRecords DEF Init, ProcInv, Before, Holding
<1>3. \A q \in Reconcilers : PollInv(q)
  BY EmptyRecords, FreeAssumption DEF Init, PollInv, Reconcilers, Ended
<1>4. RowInv
  BY EmptyRecords DEF Init, RowInv, Scaled
<1>5. ~InFlight
  BY EmptyRecords DEF Init, InFlight
<1>6. ActInv /\ ClusterInv
  BY <1>5, EmptyRecords DEF Init, ActInv, ClusterInv
<1>7. QED
  BY <1>1, <1>2, <1>3, <1>4, <1>6 DEF IndInv

-----------------------------------------------------------------------------
(* Requests.                                                               *)

\* What a step of request r leaves to the others: their transactions, the
\* experiment, and an execution that is on record.
RequestMoves(r) ==
  /\ UNCHANGED <<plan, undo, verified, labRows, expired, chaos, labLock, poll>>
  /\ proc' \in [Requests -> ProcRecs]
  /\ \A o \in Requests \ {r} : proc'[o] = proc[o]
  /\ lock' = lock \/ (lock = Free /\ lock' = r) \/ (lock = r /\ lock' = Free)
  /\ exec' = exec \/ (lock = r /\ exec.status = "none")

\* The other requests and the polls know what they knew.
LEMMA RequestKeepsOthers ==
  ASSUME IndInv, NEW r \in Requests, RequestMoves(r), exec' \in ExecRecs
  PROVE  /\ \A o \in Requests \ {r} : ProcInv(o)'
         /\ \A q \in Reconcilers : PollInv(q)'
<1>1. ASSUME NEW o \in Requests \ {r} PROVE ProcInv(o)'
  <2>1. ProcInv(o) /\ proc'[o] = proc[o] /\ UNCHANGED plan
    BY DEF IndInv, RequestMoves
  <2>2. lock = o => lock' = o /\ exec' = exec
    BY <1>1, FreeAssumption DEF RequestMoves
  <2>3. QED
    BY <2>1, <2>2 DEF ProcInv, Holding
<1>2. ASSUME NEW q \in Reconcilers PROVE PollInv(q)'
  <2>1. PollInv(q) /\ UNCHANGED <<plan, undo, verified, lab, labLock, poll>>
    BY DEF IndInv, RequestMoves, labRows
  <2>2. exec.status = "SUCCEEDED" => exec' = exec
    BY DEF RequestMoves
  <2>3. Scaled => Scaled'
    BY <2>1, <2>2 DEF Scaled
  <2>4. lock' = q => lock = q
    BY DistinctAssumption, FreeAssumption DEF RequestMoves, Reconcilers
  <2>5. QED
    BY <2>1, <2>2, <2>3, <2>4 DEF PollInv
<1>3. QED
  BY <1>1, <1>2

\* A step of request r that neither acts nor records an action.
RequestQuiet(r) ==
  /\ RequestMoves(r)
  /\ UNCHANGED <<exec, replicas, acted, unrecorded>>
  /\ proc[r].step # "acted" /\ proc'[r].step # "acted"
  /\ proc'[r].step = "acting" => proc'[r].seen = replicas
  /\ incident' \in IncidentState \cup {"none"} /\ policy' \in {"none", "allow", "deny"}
  /\ \/ incident' = incident
     \/ incident' \notin {"VERIFYING", "RESOLVED", "ESCALATED"}
     \/ incident' = "VERIFYING" /\ (plan = "scale" => exec.status # "none")

\* Such a step keeps the invariant if the request knows what it should.
LEMMA QuietRequest ==
  ASSUME IndInv, NEW r \in Requests, RequestQuiet(r), ProcInv(r)'
  PROVE  IndInv'
<1>0. Types /\ RowInv /\ ActInv /\ ClusterInv /\ RequestMoves(r) /\ exec' = exec
  BY DEF IndInv, RequestQuiet
<1>1. Types'
  <2>1. lock' \in Requests \cup Reconcilers \cup {Free}
    BY <1>0 DEF Types, SharedTypes, RequestMoves
  <2>2. QED
    BY <1>0, <2>1 DEF Types, SharedTypes, RequestMoves, RequestQuiet, labRows
<1>2. /\ \A o \in Requests : ProcInv(o)'
      /\ \A q \in Reconcilers : PollInv(q)'
  BY <1>1, RequestKeepsOthers DEF Types, SharedTypes, RequestQuiet
<1>3. RowInv'
  BY <1>0 DEF RowInv, Scaled, RequestQuiet, RequestMoves, labRows
<1>4. InFlight' <=> InFlight
  BY DEF InFlight, RequestQuiet, RequestMoves
<1>5. ActInv'
  BY <1>0, <1>4 DEF ActInv, RequestQuiet
<1>6. Restored' <=> Restored
  BY DEF Restored, RequestQuiet, RequestMoves
<1>7. ClusterInv'
  BY <1>0, <1>4, <1>6 DEF ClusterInv, RequestQuiet, RequestMoves
<1>8. QED
  BY <1>1, <1>2, <1>3, <1>5, <1>7 DEF IndInv

\* The request's record after a step.
LEMMA ProcMoves ==
  ASSUME Types, NEW r \in Requests, NEW s \in ProcRecs, Proc(r, s)
  PROVE  /\ proc' \in [Requests -> ProcRecs]
         /\ proc'[r] = s
         /\ \A o \in Requests \ {r} : proc'[o] = proc[o]
  BY DEF Types, Proc

\* A request whose rows are rolled back before it has acted.
LEMMA AbandonStep ==
  ASSUME IndInv, NEW r \in Requests, proc[r].step # "acted", Abandon(r),
         UNCHANGED <<plan, labRows, expired, labLock, poll, unrecorded>>
  PROVE  IndInv'
<1>1. Proc(r, Step(NoProc, "failed")) /\ Types
  BY DEF Abandon, IndInv
<1>2. /\ proc' \in [Requests -> ProcRecs]
      /\ proc'[r].step = "failed"
      /\ \A o \in Requests \ {r} : proc'[o] = proc[o]
  BY <1>1, EmptyRecords, ProcMoves
<1>3. RequestMoves(r)
  BY <1>2 DEF RequestMoves, Abandon, ReleaseIncident, rows, cluster
<1>4. RequestQuiet(r)
  BY <1>1, <1>2, <1>3 DEF RequestQuiet, Abandon, rows, cluster, Types, SharedTypes
<1>5. ProcInv(r)'
  BY <1>2 DEF ProcInv, Before, Holding
<1>6. QED
  BY <1>4, <1>5, QuietRequest

\* A request that ends with a commit and no action of its own.
LEMMA CommitStep ==
  ASSUME IndInv, NEW r \in Requests, proc[r].step # "acted",
         NEW s \in IncidentState \ {"RESOLVED", "ESCALATED"}, NEW d \in {"none", "allow", "deny"},
         s = "VERIFYING" => (plan = "scale" => exec.status # "none"),
         CommitProcess(r, s, d, exec),
         UNCHANGED <<plan, labRows, expired, cluster, labLock, poll, acted, unrecorded>>
  PROVE  IndInv'
<1>1. Proc(r, Step(NoProc, "done")) /\ Types
  BY DEF CommitProcess, IndInv
<1>2. /\ proc' \in [Requests -> ProcRecs]
      /\ proc'[r].step = "done"
      /\ \A o \in Requests \ {r} : proc'[o] = proc[o]
  BY <1>1, EmptyRecords, ProcMoves
<1>3. RequestMoves(r)
  BY <1>2 DEF RequestMoves, CommitProcess, ReleaseIncident, cluster
<1>4. RequestQuiet(r)
  BY <1>2, <1>3 DEF RequestQuiet, CommitProcess, cluster
<1>5. ProcInv(r)'
  BY <1>2 DEF ProcInv, Before, Holding
<1>6. QED
  BY <1>4, <1>5, QuietRequest

\* A request that goes on to record s and touches nothing but the lock.
LEMMA AdvanceStep ==
  ASSUME IndInv, NEW r \in Requests, proc[r].step # "acted",
         NEW s \in ProcRecs, Proc(r, s), s.step # "acted",
         s.step = "acting" => s.seen = replicas /\ plan = "scale",
         s.step \notin Before => s.seen \in Replicas,
         s.step \in Holding => lock' = r,
         s.step \in {"claimed", "acting"} => exec.status = "none",
         lock' = lock \/ (lock = Free /\ lock' = r),
         UNCHANGED <<plan, rows, labRows, expired, cluster, labLock, poll, acted, unrecorded>>
  PROVE  IndInv'
<1>1. Types
  BY DEF IndInv
<1>2. /\ proc' \in [Requests -> ProcRecs]
      /\ proc'[r] = s
      /\ \A o \in Requests \ {r} : proc'[o] = proc[o]
  BY <1>1, ProcMoves
<1>3. RequestMoves(r)
  BY <1>2 DEF RequestMoves, rows, cluster
<1>4. RequestQuiet(r)
  BY <1>1, <1>2, <1>3 DEF RequestQuiet, rows, cluster, Types, SharedTypes
<1>5. ProcInv(r)'
  BY <1>2 DEF ProcInv, rows
<1>6. QED
  BY <1>4, <1>5, QuietRequest

-----------------------------------------------------------------------------
\* A request from its start to its claim.
LEMMA EarlyRequest ==
  ASSUME IndInv, NEW r \in Requests,
         \/ Start(r) \/ Collect(r) \/ Observe(r) \/ Classify(r) \/ Settle(r) \/ Allow(r)
  PROVE  IndInv'
<1>0. /\ Types /\ SharedTypes /\ proc[r] \in ProcRecs /\ ProcInv(r)
      /\ replicas \in Replicas /\ replicas \in 0..MaxReplicas
  BY DEF IndInv, Types, SharedTypes, Replicas
<1>s. /\ {"read", "collecting", "observed", "policy", "claiming", "done"}
           \subseteq Before \cup {"observed"} \cup Holding
      /\ {"read", "collecting", "done"} \subseteq Before
      /\ "observed" \notin Holding
      /\ \A st \in Before : st \notin Holding /\ st \notin {"acted", "acting", "claimed"}
  BY DEF Before, Holding
<1>i. {"COLLECTING_EVIDENCE", "POLICY_EVALUATION", "EXECUTING", "CLASSIFYING", "AWAITING_APPROVAL",
       "BLOCKED", "VERIFYING"} \subseteq IncidentState \ {"RESOLVED", "ESCALATED"}
  BY DEF IncidentState
<1>1. CASE Start(r)
  <2>1. CASE policy = "none"
    <3> DEFINE x == [NoProc EXCEPT !.step = "read", !.at = incident]
    <3>1. incident \in IncidentState
      BY <1>0, <1>1 DEF Start, SharedTypes
    <3>2. x \in ProcRecs /\ x.step = "read"
      BY <1>s, <3>1, EmptyRecords DEF ProcRecs
    <3>3. Proc(r, x)
      BY <1>1, <2>1 DEF Start
    <3> HIDE DEF x
    <3>4. QED
      BY <1>1, <1>s, <3>2, <3>3, AdvanceStep DEF Start
  <2>2. CASE policy # "none"
    <3> DEFINE x == Step(NoProc, "done")
    <3>1. x \in ProcRecs /\ x.step = "done" /\ Proc(r, x)
      BY <1>1, <2>2, EmptyRecords DEF Start
    <3> HIDE DEF x
    <3>2. QED
      BY <1>1, <1>s, <3>1, AdvanceStep DEF Start
  <2>3. QED
    BY <2>1, <2>2
<1>2. CASE Collect(r)
  <2>1. PICK x \in ProcRecs : Proc(r, x) /\ x.step = "collecting"
    <3>1. [proc[r] EXCEPT !.step = "collecting", !.at = "COLLECTING_EVIDENCE"] \in ProcRecs
      BY <1>0, <1>s, <1>i DEF ProcRecs
    <3>2. [proc[r] EXCEPT !.step = "collecting", !.at = "COLLECTING_EVIDENCE"].step = "collecting"
      BY <1>0 DEF ProcRecs
    <3>3. Step(proc[r], "collecting") \in ProcRecs /\ Step(proc[r], "collecting").step = "collecting"
      BY <1>0, <1>s DEF Step, ProcRecs
    <3>4. QED
      BY <1>2, <3>1, <3>2, <3>3 DEF Collect
  <2>2. lock' = lock \/ (lock = Free /\ lock' = r)
    BY <1>2 DEF Collect
  <2>3. QED
    BY <1>2, <1>s, <2>1, <2>2, AdvanceStep DEF Collect
<1>3. CASE Observe(r)
  <2> DEFINE x == [proc[r] EXCEPT !.step = "observed", !.seen = replicas]
  <2>1. x \in ProcRecs /\ x.step = "observed" /\ x.seen = replicas
    BY <1>0, <1>s DEF ProcRecs
  <2>2. Proc(r, x)
    BY <1>3 DEF Observe
  <2> HIDE DEF x
  <2>3. QED
    BY <1>0, <1>3, <1>s, <2>1, <2>2, AdvanceStep DEF Observe
<1>4. CASE Classify(r)
  <2>0. proc[r].step = "observed" /\ proc[r].seen \in Replicas
    BY <1>0, <1>4 DEF Classify, ProcInv, Before
  <2>1. CASE Abandon(r)
    BY <1>4, <2>0, <2>1, AbandonStep DEF Classify
  <2>2. CASE CommitProcess(r, "CLASSIFYING", policy, exec) /\ UNCHANGED <<cluster, acted>>
    BY <1>0, <1>4, <1>i, <2>0, <2>2, CommitStep DEF Classify, SharedTypes
  <2>3. CASE /\ lock \in {Free, r} /\ lock' = r
             /\ Proc(r, [proc[r] EXCEPT !.step = "policy", !.at = "POLICY_EVALUATION"])
             /\ UNCHANGED <<rows, cluster, acted>>
    <3> DEFINE x == [proc[r] EXCEPT !.step = "policy", !.at = "POLICY_EVALUATION"]
    <3>1. x \in ProcRecs /\ x.step = "policy" /\ x.seen = proc[r].seen
      BY <1>0, <1>s, <1>i DEF ProcRecs
    <3>2. Proc(r, x)
      BY <2>3
    <3> HIDE DEF x
    <3>3. QED
      BY <1>4, <2>0, <2>3, <3>1, <3>2, AdvanceStep DEF Classify
  <2>4. QED
    BY <1>4, <2>1, <2>2, <2>3 DEF Classify
<1>5. CASE Settle(r)
  <2>0. proc[r].step = "policy"
    BY <1>5 DEF Settle
  <2>1. PICK s \in {"AWAITING_APPROVAL", "BLOCKED", "VERIFYING"}, d \in {"allow", "deny"} :
          CommitProcess(r, s, d, exec) /\ (s = "VERIFYING" => plan = "none")
    BY <1>5 DEF Settle
  <2>2. QED
    BY <1>5, <1>i, <2>0, <2>1, CommitStep DEF Settle
<1>6. CASE Allow(r)
  <2>0. proc[r].step = "policy" /\ proc[r].seen \in Replicas /\ lock = r
    BY <1>0, <1>6 DEF Allow, ProcInv, Before, Holding
  <2> DEFINE x == [proc[r] EXCEPT !.step = "claiming", !.at = "EXECUTING"]
  <2>1. x \in ProcRecs /\ x.step = "claiming" /\ x.seen = proc[r].seen
    BY <1>0, <1>s, <1>i DEF ProcRecs
  <2>2. Proc(r, x)
    BY <1>6 DEF Allow
  <2> HIDE DEF x
  <2>3. QED
    BY <1>6, <2>0, <2>1, <2>2, AdvanceStep DEF Allow
<1>7. QED
  BY <1>1, <1>2, <1>3, <1>4, <1>5, <1>6

\* The claim, and the check of the target before it is scaled.
LEMMA ClaimRequest ==
  ASSUME IndInv, NEW r \in Requests, Claim(r) \/ CheckTarget(r)
  PROVE  IndInv'
<1>0. Types /\ proc[r] \in ProcRecs /\ ProcInv(r)
  BY DEF IndInv, Types
<1>s. {"claimed", "acting"} \subseteq Holding
  BY DEF Holding
<1>1. CASE Claim(r)
  <2>0. proc[r].step = "claiming" /\ proc[r].seen \in Replicas /\ lock = r
    BY <1>0, <1>1 DEF Claim, ProcInv, Before, Holding
  <2>1. CASE exec.status # "none" /\ CommitProcess(r, "VERIFYING", "allow", exec)
             /\ UNCHANGED <<cluster, acted>>
    <3>1. "VERIFYING" \in IncidentState \ {"RESOLVED", "ESCALATED"}
      BY DEF IncidentState
    <3>2. QED
      BY <1>1, <2>0, <2>1, <3>1, CommitStep DEF Claim
  <2>2. CASE Abandon(r)
    BY <1>1, <2>0, <2>2, AbandonStep DEF Claim
  <2>3. CASE /\ exec.status = "none" /\ Proc(r, Step(proc[r], "claimed"))
             /\ UNCHANGED <<rows, cluster, lock, acted>>
    <3> DEFINE x == Step(proc[r], "claimed")
    <3>1. x \in ProcRecs /\ x.step = "claimed" /\ x.seen = proc[r].seen
      BY <1>0, <1>s DEF Step, ProcRecs
    <3>2. Proc(r, x)
      BY <2>3
    <3> HIDE DEF x
    <3>3. QED
      BY <1>1, <2>0, <2>3, <3>1, <3>2, AdvanceStep DEF Claim
  <2>4. QED
    BY <1>1, <2>1, <2>2, <2>3 DEF Claim, ClaimFails
<1>2. CASE CheckTarget(r)
  <2>0. /\ proc[r].step = "claimed" /\ proc[r].seen \in Replicas /\ lock = r
        /\ exec.status = "none" /\ plan = "scale"
    BY <1>0, <1>2 DEF CheckTarget, ProcInv, Before, Holding
  <2>1. CASE Abandon(r)
    BY <1>2, <2>0, <2>1, AbandonStep DEF CheckTarget
  <2>2. CASE /\ replicas = proc[r].seen /\ Proc(r, Step(proc[r], "acting"))
             /\ UNCHANGED <<rows, cluster, lock, acted>>
    <3> DEFINE x == Step(proc[r], "acting")
    <3>1. x \in ProcRecs /\ x.step = "acting" /\ x.seen = proc[r].seen
      BY <1>0, <1>s DEF Step, ProcRecs
    <3>2. Proc(r, x)
      BY <2>2
    <3> HIDE DEF x
    <3>3. QED
      BY <1>2, <2>0, <2>2, <3>1, <3>2, AdvanceStep DEF CheckTarget
  <2>3. QED
    BY <1>2, <2>1, <2>2 DEF CheckTarget
<1>3. QED
  BY <1>1, <1>2

-----------------------------------------------------------------------------
\* Who holds the incident's row acts alone.
LEMMA ActsAlone ==
  ASSUME IndInv, NEW r \in Requests, lock = r, NEW o \in Requests \ {r}
  PROVE  proc[o].step \notin Holding
  BY DEF IndInv, ProcInv

\* The record of an action.
LEMMA ActedRecord ==
  ASSUME NEW x \in ProcRecs, NEW e \in ExecRecs
  PROVE  LET y == [x EXCEPT !.step = "acted", !.exec = e] IN
         y \in ProcRecs /\ y.step = "acted" /\ y.exec = e /\ y.seen = x.seen
  BY DEF ProcRecs, Holding

\* An action that is carried out: the execution with record e is in flight
\* until the commit.
LEMMA ActStep ==
  ASSUME IndInv, NEW r \in Requests, proc[r].step \in {"claimed", "acting"},
         NEW e \in ExecRecs, e.status # "none", e.previous \in Replicas,
         plan = "scale" => e.status = "SUCCEEDED",
         Proc(r, [proc[r] EXCEPT !.step = "acted", !.exec = e]),
         replicas' \in Replicas, acted' \in {acted, acted + 1},
         unrecorded = 0 =>
           IF plan = "scale" THEN replicas' = e.requested /\ e.previous = Base
           ELSE replicas' = Base,
         UNCHANGED <<plan, rows, labRows, expired, chaos, lock, labLock, poll, unrecorded>>
  PROVE  IndInv'
<1> DEFINE y == [proc[r] EXCEPT !.step = "acted", !.exec = e]
<1>0. /\ Types /\ RowInv /\ ActInv /\ ClusterInv /\ ProcInv(r) /\ proc[r] \in ProcRecs
      /\ exec' = exec /\ UNCHANGED <<incident, policy, undo, verified, lab, linked>>
  BY DEF IndInv, Types, rows, labRows
<1>1. y \in ProcRecs /\ y.step = "acted" /\ y.exec = e /\ y.seen = proc[r].seen
  BY <1>0, ActedRecord
<1> HIDE DEF y
<1>2. /\ proc' \in [Requests -> ProcRecs]
      /\ proc'[r] = y
      /\ \A o \in Requests \ {r} : proc'[o] = proc[o]
  BY <1>0, <1>1, ProcMoves DEF y
<1>3. RequestMoves(r)
  BY <1>0, <1>2 DEF RequestMoves, labRows
<1>4. lock = r /\ exec.status = "none" /\ proc[r].seen \in Replicas
  BY <1>0 DEF ProcInv, Holding, Before
<1>5. Types'
  BY <1>0, <1>2, <1>3 DEF Types, SharedTypes, RequestMoves, labRows
<1>6. ProcInv(r)'
  BY <1>0, <1>1, <1>2, <1>4 DEF ProcInv
<1>7. /\ \A o \in Requests : ProcInv(o)'
      /\ \A q \in Reconcilers : PollInv(q)'
  BY <1>3, <1>5, <1>6, RequestKeepsOthers DEF Types, SharedTypes
<1>8. RowInv'
  BY <1>0 DEF RowInv, Scaled
<1>9. /\ \A o \in Requests \ {r} : proc'[o].step \notin {"acted", "acting"}
      /\ ~InFlight /\ InFlight'
  <2>1. \A o \in Requests \ {r} : proc[o].step \notin Holding
    BY <1>4, ActsAlone
  <2>2. QED
    BY <1>1, <1>2, <2>1 DEF Holding, InFlight
<1>10. ActInv'
  BY <1>0, <1>4, <1>9 DEF ActInv, Types, SharedTypes
<1>11. ClusterInv'
  BY <1>0, <1>1, <1>2, <1>4, <1>9 DEF ClusterInv
<1>12. QED
  BY <1>5, <1>7, <1>8, <1>10, <1>11 DEF IndInv

\* A scaling finds the replicas the request has checked; the other actions
\* leave them alone.
LEMMA ActRequest ==
  ASSUME IndInv, NEW r \in Requests, Scale(r) \/ ActOtherwise(r)
  PROVE  IndInv'
<1>0. Types /\ ProcInv(r) /\ ClusterInv /\ proc[r].seen \in 0..MaxReplicas
  BY DEF IndInv, Types, ProcRecs
<1>1. CASE Scale(r)
  <2> DEFINE n == Target(proc[r].seen)
             e == [status |-> "SUCCEEDED", previous |-> proc[r].seen, requested |-> n]
  <2>1. proc[r].step = "acting" /\ proc[r].seen \in Replicas /\ plan = "scale"
        /\ lock = r /\ exec.status = "none"
    BY <1>0, <1>1 DEF Scale, ProcInv, Before, Holding
  <2>2. n \in Replicas /\ n \in 0..MaxReplicas
    BY <2>1 DEF Target, Replicas
  <2>3. /\ e \in ExecRecs /\ e.status = "SUCCEEDED" /\ e.previous = proc[r].seen
        /\ e.requested = n
    BY <1>0, <2>2 DEF ExecRecs
  <2>4. ~InFlight
    BY <2>1, ActsAlone DEF InFlight, Holding
  <2>5. unrecorded = 0 => e.previous = Base
    BY <1>0, <2>1, <2>3, <2>4 DEF ClusterInv
  <2>6. /\ replicas' = n /\ acted' = acted + 1
        /\ Proc(r, [proc[r] EXCEPT !.step = "acted", !.exec = e])
        /\ UNCHANGED <<plan, rows, labRows, expired, chaos, lock, labLock, poll, unrecorded>>
    BY <1>1 DEF Scale
  <2> HIDE DEF n, e
  <2>7. QED
    BY <2>1, <2>2, <2>3, <2>5, <2>6, ActStep
<1>2. CASE ActOtherwise(r)
  <2>1. PICK status \in {"SUCCEEDED", "FAILED"} :
          /\ acted' = IF plan = "delete" /\ status = "SUCCEEDED" THEN acted + 1 ELSE acted
          /\ Proc(r, [proc[r] EXCEPT !.step = "acted", !.exec =
                        [status |-> status, previous |-> proc[r].seen, requested |-> 0]])
    BY <1>2 DEF ActOtherwise
  <2> DEFINE e == [status |-> status, previous |-> proc[r].seen, requested |-> 0]
  <2>2. e \in ExecRecs /\ e.status = status /\ e.previous = proc[r].seen
    BY <1>0 DEF ExecRecs
  <2>3. proc[r].step = "claimed" /\ proc[r].seen \in Replicas /\ plan # "scale"
    BY <1>0, <1>2 DEF ActOtherwise, ProcInv, Before
  <2>4. /\ UNCHANGED <<plan, rows, labRows, expired, chaos, lock, labLock, poll, unrecorded>>
        /\ replicas' = replicas
    BY <1>2 DEF ActOtherwise, cluster
  <2>5. replicas' \in Replicas /\ (unrecorded = 0 => replicas' = Base)
    BY <1>0, <2>3, <2>4 DEF Types, SharedTypes, ClusterInv
  <2>6. Proc(r, [proc[r] EXCEPT !.step = "acted", !.exec = e]) /\ acted' \in {acted, acted + 1}
    BY <2>1
  <2> HIDE DEF e
  <2>7. QED
    BY <2>2, <2>3, <2>4, <2>5, <2>6, ActStep
<1>3. QED
  BY <1>1, <1>2

\* The commit of an action.
LEMMA FinishRequest ==
  ASSUME IndInv, NEW r \in Requests, FinishProcess(r)
  PROVE  IndInv'
<1>0. /\ Types /\ RowInv /\ ActInv /\ ClusterInv /\ ProcInv(r) /\ proc[r] \in ProcRecs
      /\ proc[r].step = "acted"
  BY DEF IndInv, Types, FinishProcess
<1>1. /\ incident' = "VERIFYING" /\ policy' = "allow" /\ exec' = proc[r].exec
      /\ Proc(r, Step(NoProc, "done")) /\ ReleaseIncident(r)
      /\ UNCHANGED <<plan, undo, verified, lab, linked, expired, chaos, replicas, labLock, poll,
                     acted, unrecorded>>
  BY DEF FinishProcess, CommitProcess, labRows, cluster
<1>2. /\ proc' \in [Requests -> ProcRecs]
      /\ proc'[r].step = "done"
      /\ \A o \in Requests \ {r} : proc'[o] = proc[o]
  BY <1>0, <1>1, EmptyRecords, ProcMoves
<1>3. lock = r /\ exec.status = "none" /\ proc[r].exec \in ExecRecs
  BY <1>0 DEF ProcInv, Holding, ProcRecs
<1>4. /\ exec'.status # "none" /\ exec'.previous \in Replicas
      /\ plan = "scale" => exec'.status = "SUCCEEDED"
  BY <1>0, <1>1 DEF ProcInv
<1>5. RequestMoves(r)
  BY <1>1, <1>2, <1>3 DEF RequestMoves, ReleaseIncident, labRows
<1>6. Types'
  <2>1. lock' = Free /\ "VERIFYING" \in IncidentState
    BY <1>1, <1>3 DEF ReleaseIncident, IncidentState
  <2>2. QED
    BY <1>0, <1>1, <1>2, <1>3, <2>1 DEF Types, SharedTypes
<1>7. ProcInv(r)'
  BY <1>2 DEF ProcInv, Before, Holding
<1>8. /\ \A o \in Requests : ProcInv(o)'
      /\ \A q \in Reconcilers : PollInv(q)'
  BY <1>5, <1>6, <1>7, RequestKeepsOthers DEF Types, SharedTypes
<1>9. RowInv'
  BY <1>0, <1>1, <1>4 DEF RowInv, Scaled
<1>10. ActInv'
  BY <1>0, <1>1, <1>4 DEF ActInv
<1>11. ~Restored'
  <2>1. ~undo /\ \A q \in Reconcilers : ~poll[q].undone
    BY <1>0, <1>3 DEF RowInv, IndInv, PollInv
  <2>2. QED
    BY <1>1, <2>1 DEF Restored
<1>12. \A o \in Requests : proc'[o].step \notin {"acted", "acting"}
  <2>1. \A o \in Requests \ {r} : proc[o].step \notin Holding
    BY <1>3, ActsAlone
  <2>2. QED
    BY <1>2, <2>1 DEF Holding
<1>13. ClusterInv'
  BY <1>0, <1>1, <1>4, <1>11, <1>12 DEF ClusterInv
<1>14. QED
  BY <1>6, <1>8, <1>9, <1>10, <1>13 DEF IndInv

\* A request that fails; what it did to the cluster is on no record.
LEMMA FailRequest ==
  ASSUME IndInv, NEW r \in Requests, Fail(r)
  PROVE  IndInv'
<1>1. CASE proc[r].step # "acted"
  BY <1>1, AbandonStep DEF Fail
<1>2. CASE proc[r].step = "acted"
  <2>0. Types /\ RowInv /\ ActInv /\ ProcInv(r) /\ unrecorded \in Nat /\ acted \in Nat
    BY DEF IndInv, Types, SharedTypes
  <2>1. /\ unrecorded' = unrecorded + 1
        /\ Proc(r, Step(NoProc, "failed")) /\ ReleaseIncident(r)
        /\ UNCHANGED <<plan, incident, policy, exec, undo, verified, lab, linked, expired, chaos,
                       replicas, labLock, poll, acted>>
    BY <1>2 DEF Fail, Abandon, rows, labRows, cluster
  <2>2. /\ proc' \in [Requests -> ProcRecs]
        /\ proc'[r].step = "failed"
        /\ \A o \in Requests \ {r} : proc'[o] = proc[o]
    BY <2>0, <2>1, EmptyRecords, ProcMoves
  <2>3. RequestMoves(r)
    BY <2>1, <2>2 DEF RequestMoves, ReleaseIncident, labRows
  <2>4. Types'
    <3>1. lock' \in Requests \cup Reconcilers \cup {Free}
      BY <2>0, <2>1 DEF ReleaseIncident, Types, SharedTypes
    <3>2. QED
      BY <2>0, <2>1, <2>2, <3>1 DEF Types, SharedTypes
  <2>5. ProcInv(r)'
    BY <2>2 DEF ProcInv, Before, Holding
  <2>6. /\ \A o \in Requests : ProcInv(o)'
        /\ \A q \in Reconcilers : PollInv(q)'
    BY <2>3, <2>4, <2>5, RequestKeepsOthers DEF Types, SharedTypes
  <2>7. RowInv'
    BY <2>0, <2>1 DEF RowInv, Scaled
  <2>8. ActInv'
    BY <2>0, <2>1 DEF ActInv
  <2>9. ClusterInv'
    BY <2>0, <2>1 DEF ClusterInv
  <2>10. QED
    BY <2>4, <2>6, <2>7, <2>8, <2>9 DEF IndInv
<1>3. QED
  BY <1>1, <1>2

-----------------------------------------------------------------------------
(* Polls and stops.                                                        *)

\* What a step of q leaves to the others: their transactions, the execution
\* on record, and, unless q holds the experiment, the experiment.
PollMoves(q) ==
  /\ UNCHANGED <<plan, policy, exec, expired, proc, acted>>
  /\ poll' \in [Reconcilers -> PollRecs]
  /\ \A p \in Reconcilers \ {q} : poll'[p] = poll[p]
  /\ lock' = lock \/ (lock = Free /\ lock' = q) \/ (lock = q /\ lock' = Free)
  /\ labLock' = labLock \/ (labLock = Free /\ labLock' = q) \/ (labLock = q /\ labLock' = Free)
  /\ labLock = q \/ UNCHANGED <<undo, verified, lab>>

\* The requests and the other polls know what they knew.
LEMMA PollKeepsOthers ==
  ASSUME IndInv, NEW q \in Reconcilers, PollMoves(q)
  PROVE  /\ \A r \in Requests : ProcInv(r)'
         /\ \A p \in Reconcilers \ {q} : PollInv(p)'
<1>1. ASSUME NEW r \in Requests PROVE ProcInv(r)'
  <2>1. ProcInv(r) /\ UNCHANGED <<plan, exec, proc>>
    BY DEF IndInv, PollMoves
  <2>2. lock = r => lock' = r
    BY DistinctAssumption, FreeAssumption DEF PollMoves, Reconcilers
  <2>3. QED
    BY <2>1, <2>2 DEF ProcInv
<1>2. ASSUME NEW p \in Reconcilers \ {q} PROVE PollInv(p)'
  <2>1. PollInv(p) /\ UNCHANGED <<plan, exec>> /\ poll'[p] = poll[p] /\ (Scaled' <=> Scaled)
    BY DEF IndInv, PollMoves, Scaled
  <2>2. lock' = p => lock = p
    BY FreeAssumption DEF PollMoves, Reconcilers
  <2>3. CASE poll[p].step = "idle"
    <3>1. poll[p] = NoPoll /\ lock' # p
      BY <2>1, <2>2, <2>3, EmptyRecords DEF PollInv
    <3>2. QED
      BY <2>1, <3>1, EmptyRecords DEF PollInv
  <2>4. CASE poll[p].step # "idle"
    <3>1. labLock = p
      BY <2>1, <2>4 DEF PollInv
    <3>2. labLock' = p /\ UNCHANGED <<undo, verified, lab>>
      BY <3>1, FreeAssumption DEF PollMoves, Reconcilers
    <3>3. QED
      BY <2>1, <2>2, <3>1, <3>2 DEF PollInv
  <2>5. QED
    BY <2>3, <2>4
<1>3. QED
  BY <1>1, <1>2

\* The poll's record after a step.
LEMMA PollRecord ==
  ASSUME Types, NEW q \in Reconcilers, NEW s \in PollRecs, Poll(q, s)
  PROVE  /\ poll' \in [Reconcilers -> PollRecs]
         /\ poll'[q] = s
         /\ \A p \in Reconcilers \ {q} : poll'[p] = poll[p]
  BY DEF Types, Poll

\* A step of q that changes no row and no replica keeps the invariant if q
\* knows what it should.
LEMMA QuietPoll ==
  ASSUME IndInv, NEW q \in Reconcilers, PollMoves(q), PollInv(q)',
         poll'[q].undone = poll[q].undone, chaos' \in BOOLEAN,
         UNCHANGED <<incident, undo, verified, lab, linked, replicas, unrecorded>>
  PROVE  IndInv'
<1>0. Types /\ RowInv /\ ActInv /\ ClusterInv /\ UNCHANGED <<plan, policy, exec, expired, proc, acted>>
  BY DEF IndInv, PollMoves
<1>1. Types'
  <2>1. /\ lock' \in Requests \cup Reconcilers \cup {Free}
        /\ labLock' \in Reconcilers \cup {Free}
        /\ poll' \in [Reconcilers -> PollRecs]
    BY <1>0 DEF Types, SharedTypes, PollMoves
  <2>2. QED
    BY <1>0, <2>1 DEF Types, SharedTypes
<1>2. /\ \A r \in Requests : ProcInv(r)'
      /\ \A p \in Reconcilers : PollInv(p)'
  BY PollKeepsOthers
<1>3. RowInv'
  BY <1>0 DEF RowInv, Scaled
<1>4. InFlight' <=> InFlight
  BY <1>0 DEF InFlight
<1>5. Restored' <=> Restored
  BY DEF Restored, PollMoves
<1>6. ActInv' /\ ClusterInv'
  BY <1>0, <1>4, <1>5 DEF ActInv, ClusterInv
<1>7. QED
  BY <1>1, <1>2, <1>3, <1>6 DEF IndInv

\* A poll that is rolled back knows nothing.
LEMMA AbandonKnows ==
  ASSUME IndInv, NEW q \in Reconcilers, poll[q].step # "idle", AbandonPoll(q),
         UNCHANGED <<plan, policy, exec, expired, proc, acted>>
  PROVE  PollMoves(q) /\ PollInv(q)' /\ poll'[q] = NoPoll
<1>0. Types /\ PollInv(q)
  BY DEF IndInv
<1>1. /\ poll' \in [Reconcilers -> PollRecs]
      /\ poll'[q] = NoPoll
      /\ \A p \in Reconcilers \ {q} : poll'[p] = poll[p]
  BY <1>0, EmptyRecords, PollRecord DEF AbandonPoll
<1>2. labLock = q /\ labLock' = Free
  BY <1>0 DEF PollInv, AbandonPoll
<1>3. lock' # q /\ (lock' = lock \/ (lock = q /\ lock' = Free))
  BY FreeAssumption DEF AbandonPoll, ReleaseIncident, Reconcilers
<1>4. PollMoves(q)
  BY <1>1, <1>2, <1>3 DEF PollMoves
<1>5. PollInv(q)'
  BY <1>1, <1>3, EmptyRecords DEF PollInv
<1>6. QED
  BY <1>1, <1>4, <1>5

\* A poll rolled back before it has restored anything.
LEMMA AbandonPollStep ==
  ASSUME IndInv, NEW q \in Reconcilers, poll[q].step # "idle", AbandonPoll(q), ~poll[q].undone,
         chaos' \in BOOLEAN,
         UNCHANGED <<plan, rows, labRows, expired, replicas, proc, acted, unrecorded>>
  PROVE  IndInv'
<1>1. UNCHANGED <<incident, policy, exec, undo, verified, lab, linked>>
  BY DEF rows, labRows
<1>2. PollMoves(q) /\ PollInv(q)' /\ poll'[q] = NoPoll
  BY <1>1, AbandonKnows
<1>3. poll'[q].undone = poll[q].undone
  <2>1. poll[q].undone \in BOOLEAN
    BY DEF IndInv, Types, PollRecs
  <2>2. NoPoll.undone = FALSE
    BY DEF NoPoll
  <2>3. QED
    BY <1>2, <2>1, <2>2
<1>4. QED
  BY <1>1, <1>2, <1>3, QuietPoll

\* A poll that goes on with record s.
LEMMA AdvancePoll ==
  ASSUME IndInv, NEW q \in Reconcilers, NEW s \in PollRecs, Poll(q, s), s.step # "idle",
         s.undone = poll[q].undone, chaos' \in BOOLEAN,
         lock' = lock \/ (lock = Free /\ lock' = q),
         labLock' = q, labLock \in {Free, q}, PollInv(q)',
         UNCHANGED <<plan, rows, labRows, expired, replicas, proc, acted, unrecorded>>
  PROVE  IndInv'
<1>0. Types /\ UNCHANGED <<incident, policy, exec, undo, verified, lab, linked>>
  BY DEF IndInv, rows, labRows
<1>1. /\ poll' \in [Reconcilers -> PollRecs]
      /\ poll'[q] = s
      /\ \A p \in Reconcilers \ {q} : poll'[p] = poll[p]
  BY <1>0, PollRecord
<1>2. PollMoves(q)
  BY <1>0, <1>1 DEF PollMoves
<1>3. QED
  BY <1>0, <1>1, <1>2, QuietPoll

-----------------------------------------------------------------------------
\* A poll or a stop that begins has nothing of its own.
LEMMA IdlePoll ==
  ASSUME IndInv, NEW q \in Reconcilers, poll[q].step = "idle"
  PROVE  poll[q] = NoPoll /\ poll[q].undone = FALSE /\ lock # q
<1>1. PollInv(q)
  BY DEF IndInv
<1>2. poll[q] = NoPoll
  BY <1>1 DEF PollInv
<1>3. NoPoll.undone = FALSE
  BY DEF NoPoll
<1>4. QED
  BY <1>1, <1>2, <1>3, EmptyRecords DEF PollInv

\* It goes on with a record that has neither verified nor restored.
LEMMA BeginPoll ==
  ASSUME IndInv, NEW q \in Reconcilers, poll[q].step = "idle",
         NEW s \in PollRecs, Poll(q, s), s.records = 0, s.undone = FALSE,
         s.step \in {"cleanup", "verifying", "commit"},
         s.step = "verifying" => incident = "VERIFYING" /\ verified < 3 /\ s.linked,
         s.step = "commit" => s.outcome = "none",
         s.outcome = "SUCCEEDED" => incident = "RESOLVED" /\ s.linked,
         lab = "RUNNING", labLock = Free, labLock' = q,
         UNCHANGED <<plan, rows, labRows, expired, cluster, lock, proc, acted, unrecorded>>
  PROVE  IndInv'
<1>0. /\ Types /\ RowInv /\ UNCHANGED <<incident, exec, undo, verified, lab, chaos, replicas>>
      /\ chaos \in BOOLEAN
  BY DEF IndInv, rows, labRows, cluster, Types, SharedTypes
<1>1. poll[q] = NoPoll /\ poll[q].undone = FALSE /\ lock # q
  BY IdlePoll
<1>2. poll'[q] = s
  BY <1>0, PollRecord
<1>3. (s.step = "verifying" \/ s.outcome = "SUCCEEDED") => Scaled'
  BY <1>0 DEF RowInv, Scaled
<1>4. PollInv(q)'
  BY <1>0, <1>1, <1>2, <1>3 DEF PollInv
<1>5. QED
  BY <1>0, <1>1, <1>4, AdvancePoll

\* Both kinds of beginning.
LEMMA StartStep ==
  ASSUME IndInv, NEW q \in Reconcilers, StartPoll(q) \/ StartStop(q)
  PROVE  IndInv'
<1> DEFINE s == [NoPoll EXCEPT !.linked = TRUE, !.at = incident]
<1>0. /\ incident \in IncidentState \cup {"none"} /\ linked \in BOOLEAN
      /\ Outcome(incident) \in Ended \cup {"none"}
      /\ Outcome(incident) = "SUCCEEDED" => incident = "RESOLVED"
  BY DEF IndInv, Types, SharedTypes, Outcome, Ended
<1>1. /\ poll[q].step = "idle" /\ lab = "RUNNING" /\ labLock = Free /\ labLock' = q
      /\ UNCHANGED <<plan, rows, labRows, expired, cluster, lock, proc, acted, unrecorded>>
  BY DEF StartPoll, StartStop
<1>2. NoPoll.undone = FALSE /\ NoPoll.records = 0 /\ NoPoll.outcome = "none" /\ NoPoll \in PollRecs
  BY EmptyRecords DEF NoPoll
<1>3. /\ s \in PollRecs /\ s.undone = FALSE /\ s.records = 0 /\ s.outcome = "none"
      /\ s.linked = TRUE
  BY <1>0, <1>2 DEF PollRecs
<1>4. ASSUME NEW out \in {"TIMED_OUT", "CANCELLED"},
             Poll(q, [NoPoll EXCEPT !.step = "cleanup", !.linked = linked, !.outcome = out])
      PROVE  IndInv'
  <2> DEFINE x == [NoPoll EXCEPT !.step = "cleanup", !.linked = linked, !.outcome = out]
  <2>1. /\ x \in PollRecs /\ x.step = "cleanup" /\ x.records = 0 /\ x.undone = FALSE
        /\ x.outcome = out
    BY <1>0, <1>2 DEF PollRecs, PollSteps, Ended
  <2>2. Poll(q, x)
    BY <1>4
  <2> HIDE DEF x
  <2>3. QED
    BY <1>1, <2>1, <2>2, BeginPoll
<1>5. CASE incident = "VERIFYING" /\ verified < 3 /\ Poll(q, Step(s, "verifying"))
  <2> DEFINE x == Step(s, "verifying")
  <2>1. /\ x \in PollRecs /\ x.step = "verifying" /\ x.records = 0 /\ x.undone = FALSE
        /\ x.outcome = "none" /\ x.linked = TRUE
    BY <1>3 DEF Step, PollRecs, PollSteps
  <2>2. Poll(q, x)
    BY <1>5
  <2> HIDE DEF x
  <2>3. QED
    BY <1>1, <1>5, <2>1, <2>2, BeginPoll
<1>6. CASE Poll(q, Step(s, "commit"))
  <2> DEFINE x == Step(s, "commit")
  <2>1. /\ x \in PollRecs /\ x.step = "commit" /\ x.records = 0 /\ x.undone = FALSE
        /\ x.outcome = "none" /\ x.linked = TRUE
    BY <1>3 DEF Step, PollRecs, PollSteps
  <2>2. Poll(q, x)
    BY <1>6
  <2> HIDE DEF x
  <2>3. QED
    BY <1>1, <2>1, <2>2, BeginPoll
<1>7. CASE Poll(q, [s EXCEPT !.step = "cleanup", !.outcome = Outcome(incident)])
  <2> DEFINE x == [s EXCEPT !.step = "cleanup", !.outcome = Outcome(incident)]
  <2>1. /\ x \in PollRecs /\ x.step = "cleanup" /\ x.records = 0 /\ x.undone = FALSE
        /\ x.outcome = Outcome(incident) /\ x.linked = TRUE
    BY <1>0, <1>3 DEF PollRecs, PollSteps
  <2>2. Poll(q, x)
    BY <1>7
  <2> HIDE DEF x, s
  <2>3. QED
    BY <1>0, <1>1, <2>1, <2>2, BeginPoll
<1>8. QED
  BY <1>4, <1>5, <1>6, <1>7 DEF StartPoll, StartStop

\* A verification ends the incident after the third record or a success.
LEMMA VerifyPoll ==
  ASSUME IndInv, NEW q \in Reconcilers, Verify(q)
  PROVE  IndInv'
<1>0. /\ Types /\ RowInv /\ PollInv(q) /\ poll[q] \in PollRecs /\ poll[q].step = "verifying"
      /\ verified \in 0..3 /\ verified < 3 /\ Scaled /\ poll[q].linked
      /\ labLock = q /\ lab = "RUNNING" /\ chaos \in BOOLEAN /\ lock # q
  BY DEF IndInv, Types, SharedTypes, Verify, PollInv
<1>u. poll[q].undone = FALSE
  BY <1>0 DEF PollInv, PollRecs
<1>1. PICK success \in BOOLEAN, at \in IncidentState, st \in PollSteps :
        /\ at = VerifiedState(verified + 1, success)
        /\ \/ at = "VERIFYING" /\ lock' = lock
           \/ at # "VERIFYING" /\ lock = Free /\ lock' = q
        /\ Poll(q, [poll[q] EXCEPT !.records = 1, !.at = at, !.outcome = Outcome(at), !.step = st])
        /\ st \in {"undoing", "commit", "cleanup"}
        /\ st = "undoing" => plan = "scale" /\ exec.status # "none" /\ ~undo
        /\ st = "commit" => at = "VERIFYING"
  <2>1. \A n, b : VerifiedState(n, b) \in IncidentState
    BY DEF VerifiedState, IncidentState
  <2>2. {"undoing", "commit", "cleanup"} \subseteq PollSteps
    BY DEF PollSteps
  <2>3. PICK b \in BOOLEAN :
          LET a == VerifiedState(verified + 1, b)
              undoing == plan = "scale" /\ exec.status # "none" /\ ~undo /\ Automatic IN
          /\ \/ a = "VERIFYING" /\ UNCHANGED lock
             \/ a # "VERIFYING" /\ lock = Free /\ lock' = q
          /\ Poll(q, [poll[q] EXCEPT
               !.records = 1, !.at = a, !.outcome = Outcome(a),
               !.step = IF undoing /\ ~b THEN "undoing"
                        ELSE IF a = "VERIFYING" THEN "commit" ELSE "cleanup"])
    BY DEF Verify
  <2> DEFINE a == VerifiedState(verified + 1, b)
             undoing == plan = "scale" /\ exec.status # "none" /\ ~undo /\ Automatic
             t == IF undoing /\ ~b THEN "undoing"
                  ELSE IF a = "VERIFYING" THEN "commit" ELSE "cleanup"
  <2>4. t \in {"undoing", "commit", "cleanup"} /\ t \in PollSteps /\ a \in IncidentState
    BY <2>1, <2>2
  <2>5. /\ t = "undoing" => plan = "scale" /\ exec.status # "none" /\ ~undo
        /\ t = "commit" => a = "VERIFYING"
    OBVIOUS
  <2>6. /\ a = VerifiedState(verified + 1, b)
        /\ \/ a = "VERIFYING" /\ UNCHANGED lock
           \/ a # "VERIFYING" /\ lock = Free /\ lock' = q
        /\ Poll(q, [poll[q] EXCEPT !.records = 1, !.at = a, !.outcome = Outcome(a), !.step = t])
    BY <2>3
  <2> HIDE DEF a, t
  <2>7. QED
    BY <2>4, <2>5, <2>6
<1>2. /\ at \in {"RESOLVED", "ESCALATED", "VERIFYING"}
      /\ at = "ESCALATED" => verified = 2
  BY <1>0, <1>1 DEF VerifiedState
<1>3. Outcome(at) \in Ended \cup {"none"} /\ (at = "VERIFYING" => Outcome(at) = "none")
  BY DEF Outcome, Ended
<1> DEFINE x == [poll[q] EXCEPT !.records = 1, !.at = at, !.outcome = Outcome(at), !.step = st]
<1>4. /\ x \in PollRecs /\ x.records = 1 /\ x.at = at /\ x.outcome = Outcome(at) /\ x.step = st
      /\ x.undone = poll[q].undone /\ x.linked = poll[q].linked
  BY <1>0, <1>1, <1>3 DEF PollRecs
<1>5. Poll(q, x)
  BY <1>1
<1>6. UNCHANGED <<plan, rows, labRows, expired, cluster, labLock, proc, acted, unrecorded>>
  BY DEF Verify
<1>7. UNCHANGED <<exec, undo, verified, lab, chaos, replicas>>
  BY <1>6 DEF rows, labRows, cluster
<1> HIDE DEF x
<1>8. poll'[q] = x
  BY <1>0, <1>4, <1>5, PollRecord
<1>9. plan = "scale" => exec.status = "SUCCEEDED"
  BY <1>0 DEF Scaled
<1>10. Scaled'
  BY <1>6, <1>7, <1>9 DEF Scaled
<1>11. PollInv(q)'
  BY <1>0, <1>1, <1>2, <1>3, <1>4, <1>6, <1>7, <1>8, <1>9, <1>10, <1>u DEF PollInv
<1>12. QED
  BY <1>0, <1>1, <1>4, <1>5, <1>6, <1>7, <1>11, AdvancePoll

\* A record with another step.
LEMMA PollStepRecord ==
  ASSUME NEW x \in PollRecs, NEW st \in PollSteps
  PROVE  /\ Step(x, st) \in PollRecs /\ Step(x, st).step = st
         /\ Step(x, st).records = x.records /\ Step(x, st).at = x.at
         /\ Step(x, st).outcome = x.outcome /\ Step(x, st).undone = x.undone
         /\ Step(x, st).linked = x.linked
  BY DEF Step, PollRecs

\* The cleanup and the check before the replicas are restored.
LEMMA CleanupPoll ==
  ASSUME IndInv, NEW q \in Reconcilers, Cleanup(q) \/ CheckUndo(q)
  PROVE  IndInv'
<1>0. /\ Types /\ RowInv /\ PollInv(q) /\ poll[q] \in PollRecs
      /\ poll[q].step \in {"cleanup", "undoing"}
      /\ labLock = q /\ lab = "RUNNING" /\ chaos' \in BOOLEAN
  <2>1. Types /\ RowInv /\ PollInv(q) /\ poll[q] \in PollRecs /\ chaos \in BOOLEAN
    BY DEF IndInv, Types, SharedTypes
  <2>2. poll[q].step \in {"cleanup", "undoing"} /\ chaos' \in {FALSE, chaos}
    BY DEF Cleanup, CheckUndo, cluster
  <2>3. QED
    BY <2>1, <2>2 DEF PollInv
<1>1. UNCHANGED <<plan, rows, labRows, expired, replicas, proc, acted, unrecorded>>
  BY DEF Cleanup, CheckUndo, cluster
<1>2. UNCHANGED <<plan, exec, undo, verified, lab>> /\ (Scaled' <=> Scaled)
  BY <1>1 DEF rows, labRows, Scaled
<1>3. ASSUME AbandonPoll(q), ~poll[q].undone PROVE IndInv'
  BY <1>0, <1>1, <1>3, AbandonPollStep
<1>4. ASSUME NEW st \in {"commit", "undoing", "restoring"}, Poll(q, Step(poll[q], st)),
             UNCHANGED <<lock, labLock>>,
             st = "commit" => ~NeedsRestore(q),
             st \in {"undoing", "restoring"} =>
               plan = "scale" /\ exec.status = "SUCCEEDED" /\ ~undo /\ ~poll[q].undone
      PROVE  IndInv'
  <2> DEFINE x == Step(poll[q], st)
  <2>1. /\ x \in PollRecs /\ x.step = st
        /\ x.records = poll[q].records /\ x.at = poll[q].at /\ x.outcome = poll[q].outcome
        /\ x.undone = poll[q].undone /\ x.linked = poll[q].linked
    BY <1>0, PollStepRecord DEF PollSteps
  <2>2. Poll(q, x)
    BY <1>4
  <2> HIDE DEF x
  <2>3. poll'[q] = x
    BY <1>0, <2>1, <2>2, PollRecord
  <2>4. x.outcome = "SUCCEEDED" /\ plan = "scale" /\ st = "commit" => undo \/ x.undone
    BY <1>0, <1>4, <2>1 DEF NeedsRestore, PollInv, Scaled
  <2>5. PollInv(q)'
    BY <1>0, <1>2, <1>4, <2>1, <2>3, <2>4 DEF PollInv
  <2>6. QED
    BY <1>0, <1>1, <1>4, <2>1, <2>2, <2>5, AdvancePoll
<1>5. CASE Cleanup(q)
  <2>1. NeedsRestore(q) =>
          plan = "scale" /\ exec.status = "SUCCEEDED" /\ ~undo /\ ~poll[q].undone
    BY DEF NeedsRestore
  <2>2. QED
    BY <1>3, <1>4, <1>5, <2>1 DEF Cleanup
<1>6. CASE CheckUndo(q)
  <2>1. plan = "scale" /\ exec.status = "SUCCEEDED" /\ ~undo /\ ~poll[q].undone
    BY <1>0, <1>6 DEF CheckUndo, PollInv
  <2>2. QED
    BY <1>3, <1>4, <1>6, <2>1 DEF CheckUndo
<1>7. QED
  BY <1>5, <1>6

\* The replicas go back to what the scaling found.
LEMMA UndoPoll ==
  ASSUME IndInv, NEW q \in Reconcilers, Undo(q)
  PROVE  IndInv'
<1>0. /\ Types /\ RowInv /\ ActInv /\ ClusterInv /\ PollInv(q) /\ poll[q] \in PollRecs
      /\ poll[q].step = "restoring"
  BY DEF IndInv, Types, Undo
<1>1. /\ plan = "scale" /\ exec.status = "SUCCEEDED" /\ ~undo
      /\ labLock = q /\ lab = "RUNNING" /\ exec.previous \in Replicas
  BY <1>0 DEF PollInv, RowInv
<1>2. /\ UNCHANGED <<plan, incident, policy, exec, undo, verified, lab, linked, expired, chaos,
                     lock, labLock, proc, acted, unrecorded>>
      /\ replicas' = exec.previous
  BY DEF Undo, rows, labRows
<1> DEFINE st == IF poll[q].outcome = "none" THEN "commit" ELSE "cleanup"
           x == [poll[q] EXCEPT !.undone = TRUE, !.step = st]
<1>3. /\ x \in PollRecs /\ x.step = st /\ x.undone = TRUE
      /\ x.records = poll[q].records /\ x.at = poll[q].at /\ x.outcome = poll[q].outcome
      /\ x.linked = poll[q].linked
  BY <1>0 DEF PollRecs, PollSteps
<1>4. Poll(q, x) /\ st \in {"commit", "cleanup"} /\ (st = "commit" => poll[q].outcome = "none")
  BY DEF Undo
<1> HIDE DEF x, st
<1>5. /\ poll' \in [Reconcilers -> PollRecs]
      /\ poll'[q] = x
      /\ \A p \in Reconcilers \ {q} : poll'[p] = poll[p]
  BY <1>0, <1>3, <1>4, PollRecord
<1>6. PollMoves(q)
  BY <1>2, <1>5 DEF PollMoves
<1>7. Scaled /\ Scaled'
  BY <1>1, <1>2 DEF Scaled
<1>8. PollInv(q)'
  BY <1>0, <1>1, <1>2, <1>3, <1>4, <1>5, <1>7 DEF PollInv
<1>9. /\ \A r \in Requests : ProcInv(r)'
      /\ \A p \in Reconcilers : PollInv(p)'
  BY <1>6, <1>8, PollKeepsOthers
<1>10. Types'
  BY <1>0, <1>1, <1>2, <1>5 DEF Types, SharedTypes
<1>11. RowInv'
  BY <1>0, <1>2 DEF RowInv, Scaled
<1>12. InFlight' <=> InFlight
  BY <1>2 DEF InFlight
<1>13. ActInv'
  BY <1>0, <1>2, <1>12 DEF ActInv
<1>14. Restored'
  BY <1>3, <1>5 DEF Restored
<1>15. \A r \in Requests : proc'[r].step \notin {"acting", "acted"}
  BY <1>1, <1>2 DEF IndInv, ProcInv
<1>16. ClusterInv'
  BY <1>0, <1>1, <1>2, <1>14, <1>15 DEF ClusterInv
<1>17. QED
  BY <1>9, <1>10, <1>11, <1>13, <1>16 DEF IndInv

\* The commit of a poll or a stop.
LEMMA CommitPollStep ==
  ASSUME IndInv, NEW q \in Reconcilers, CommitPoll(q)
  PROVE  IndInv'
<1>0. /\ Types /\ RowInv /\ ActInv /\ ClusterInv /\ PollInv(q) /\ poll[q] \in PollRecs
      /\ poll[q].step = "commit" /\ labLock = q /\ lab = "RUNNING"
  BY DEF IndInv, Types, CommitPoll, PollInv
<1>1. /\ incident' = IF lock = q THEN poll[q].at ELSE incident
      /\ verified' = verified + poll[q].records
      /\ undo' = (undo \/ poll[q].undone)
      /\ linked' = poll[q].linked
      /\ lab' = IF poll[q].outcome = "none" THEN lab ELSE poll[q].outcome
      /\ AbandonPoll(q)
      /\ UNCHANGED <<plan, policy, exec, expired, chaos, replicas, proc, acted, unrecorded>>
  BY DEF CommitPoll, cluster
<1>2. PollMoves(q) /\ PollInv(q)' /\ poll'[q] = NoPoll
  BY <1>0, <1>1, AbandonKnows
<1>3. /\ \A r \in Requests : ProcInv(r)'
      /\ \A p \in Reconcilers : PollInv(p)'
  BY <1>2, PollKeepsOthers
<1>4. /\ poll[q].records \in {0, 1} /\ poll[q].undone \in BOOLEAN /\ poll[q].linked \in BOOLEAN
      /\ poll[q].outcome \in Ended \cup {"none"}
  BY <1>0 DEF PollRecs
<1>5. verified \in 0..3 /\ verified' \in 0..3 /\ (poll[q].records = 0 => verified' = verified)
  BY <1>0, <1>1, <1>4 DEF Types, SharedTypes, PollInv
<1>6. lock = q => /\ poll[q].records = 1 /\ poll[q].at \in {"RESOLVED", "ESCALATED"}
                  /\ poll[q].at = "ESCALATED" => verified = 2
                  /\ Scaled
  BY <1>0 DEF PollInv
<1>7. Types'
  <2>1. incident' \in IncidentState \cup {"none"}
    BY <1>0, <1>1, <1>6 DEF Types, SharedTypes, IncidentState
  <2>2. undo' \in BOOLEAN /\ linked' \in BOOLEAN
    BY <1>1, <1>4
  <2>3. lab' \in {"RUNNING"} \cup Ended
    BY <1>0, <1>1, <1>4
  <2>4. /\ lock' \in Requests \cup Reconcilers \cup {Free}
        /\ labLock' \in Reconcilers \cup {Free}
        /\ poll' \in [Reconcilers -> PollRecs]
    BY <1>0, <1>2 DEF Types, SharedTypes, PollMoves
  <2>5. QED
    BY <1>0, <1>1, <1>5, <2>1, <2>2, <2>3, <2>4 DEF Types, SharedTypes
<1>8. RowInv'
  <2>1. undo' => exec.status # "none"
    BY <1>0, <1>1 DEF RowInv, PollInv
  <2>2. incident' \in {"VERIFYING", "RESOLVED"} => Scaled
    BY <1>0, <1>1, <1>6 DEF RowInv
  <2>3. incident' = "ESCALATED" => verified' = 3
    <3>1. CASE lock = q
      BY <1>1, <1>6, <3>1
    <3>2. CASE lock # q
      <4>1. incident' = "ESCALATED" => verified = 3
        BY <1>0, <1>1, <3>2 DEF RowInv
      <4>2. verified = 3 => poll[q].records = 0
        BY <1>0, <1>4 DEF PollInv
      <4>3. QED
        BY <1>5, <4>1, <4>2
    <3>3. QED
      BY <3>1, <3>2
  <2>4. lab' = "SUCCEEDED" /\ plan = "scale" => undo'
    BY <1>0, <1>1 DEF PollInv
  <2>5. Scaled' <=> Scaled
    BY <1>1 DEF Scaled
  <2>6. QED
    BY <1>0, <1>1, <2>1, <2>2, <2>3, <2>4, <2>5 DEF RowInv
<1>9. InFlight' <=> InFlight
  BY <1>1 DEF InFlight
<1>10. Restored' <=> Restored
  <2>1. \A p \in Reconcilers \ {q} : poll'[p] = poll[p]
    BY <1>2 DEF PollMoves
  <2>2. ~poll'[q].undone
    BY <1>2, EmptyRecords
  <2>3. undo' <=> (undo \/ poll[q].undone)
    BY <1>1
  <2>4. QED
    BY <2>1, <2>2, <2>3 DEF Restored
<1>11. ActInv' /\ ClusterInv'
  BY <1>0, <1>1, <1>9, <1>10 DEF ActInv, ClusterInv
<1>12. QED
  BY <1>3, <1>7, <1>8, <1>11 DEF IndInv

\* A poll that fails; a restoration it has made is on no record.
LEMMA FailPollStep ==
  ASSUME IndInv, NEW q \in Reconcilers, FailPoll(q)
  PROVE  IndInv'
<1>0. /\ Types /\ RowInv /\ ActInv /\ ClusterInv /\ chaos \in BOOLEAN
      /\ unrecorded \in Nat /\ acted \in Nat
  BY DEF IndInv, Types, SharedTypes
<1>1. /\ poll[q].step # "idle" /\ AbandonPoll(q)
      /\ UNCHANGED <<plan, rows, labRows, expired, chaos, replicas, proc, acted>>
  BY DEF FailPoll, cluster
<1>2. CASE ~poll[q].undone
  BY <1>0, <1>1, <1>2, AbandonPollStep DEF FailPoll
<1>3. CASE poll[q].undone
  <2>1. /\ unrecorded' = unrecorded + 1
        /\ UNCHANGED <<incident, policy, exec, undo, verified, lab, linked>>
    BY <1>1, <1>3 DEF FailPoll, rows, labRows
  <2>2. PollMoves(q) /\ PollInv(q)'
    BY <1>1, <2>1, AbandonKnows
  <2>3. /\ \A r \in Requests : ProcInv(r)'
        /\ \A p \in Reconcilers : PollInv(p)'
    BY <2>2, PollKeepsOthers
  <2>4. Types'
    <3>1. /\ lock' \in Requests \cup Reconcilers \cup {Free}
          /\ labLock' \in Reconcilers \cup {Free}
          /\ poll' \in [Reconcilers -> PollRecs]
      BY <1>0, <2>2 DEF Types, SharedTypes, PollMoves
    <3>2. QED
      BY <1>0, <1>1, <2>1, <3>1 DEF Types, SharedTypes
  <2>5. RowInv'
    BY <1>0, <1>1, <2>1 DEF RowInv, Scaled
  <2>6. InFlight' <=> InFlight
    BY <1>1 DEF InFlight
  <2>7. ActInv'
    BY <1>0, <1>1, <2>1, <2>6 DEF ActInv
  <2>8. ClusterInv'
    BY <1>0, <2>1 DEF ClusterInv
  <2>9. QED
    BY <2>3, <2>4, <2>5, <2>7, <2>8 DEF IndInv
<1>4. QED
  BY <1>2, <1>3

-----------------------------------------------------------------------------
\* The alert, the operator's block, the deadline and those who scale.
LEMMA OutsideStep ==
  ASSUME IndInv, RaiseAlert \/ Block \/ Expire \/ Rescale \/ UNCHANGED vars
  PROVE  IndInv'
<1>0. Types /\ RowInv /\ ActInv /\ ClusterInv /\ unrecorded \in Nat /\ acted \in Nat
  BY DEF IndInv, Types, SharedTypes
<1>1. /\ UNCHANGED <<plan, policy, exec, undo, verified, lab, linked, chaos, lock, labLock, proc,
                     poll, acted>>
      /\ incident' \in {incident, "DETECTED", "BLOCKED"}
      /\ expired' \in {expired, TRUE}
  BY DEF RaiseAlert, Block, Expire, Rescale, vars, rows, labRows, cluster
<1>2. \/ UNCHANGED <<replicas, unrecorded>>
      \/ unrecorded' = unrecorded + 1 /\ replicas' \in Replicas
  BY DEF RaiseAlert, Block, Expire, Rescale, vars, rows, labRows, cluster, Replicas
<1>3. Scaled' <=> Scaled
  BY <1>1 DEF Scaled
<1>4. \A r \in Requests : ProcInv(r)'
  BY <1>1 DEF IndInv, ProcInv
<1>5. \A q \in Reconcilers : PollInv(q)'
  BY <1>1, <1>3 DEF IndInv, PollInv
<1>6. Types'
  <2>1. incident' \in IncidentState \cup {"none"} /\ expired' \in BOOLEAN
    BY <1>0, <1>1 DEF Types, SharedTypes, IncidentState
  <2>2. replicas' \in Replicas /\ unrecorded' \in Nat
    BY <1>0, <1>2 DEF Types, SharedTypes
  <2>3. QED
    BY <1>0, <1>1, <2>1, <2>2 DEF Types, SharedTypes
<1>7. RowInv'
  BY <1>0, <1>1, <1>3 DEF RowInv
<1>8. (InFlight' <=> InFlight) /\ (Restored' <=> Restored)
  BY <1>1 DEF InFlight, Restored
<1>9. ActInv'
  BY <1>0, <1>1, <1>2, <1>8 DEF ActInv
<1>10. ClusterInv'
  BY <1>0, <1>1, <1>2, <1>8 DEF ClusterInv
<1>11. QED
  BY <1>4, <1>5, <1>6, <1>7, <1>9, <1>10 DEF IndInv

\* Every step keeps the invariant.
LEMMA IndInvStep == IndInv /\ [Next]_vars => IndInv'
<1> SUFFICES ASSUME IndInv, [Next]_vars PROVE IndInv'
  OBVIOUS
<1>1. ASSUME NEW r \in Requests, Start(r) \/ Process(r) \/ Fail(r) PROVE IndInv'
  BY <1>1, EarlyRequest, ClaimRequest, ActRequest, FinishRequest, FailRequest DEF Process
<1>2. ASSUME NEW q \in Reconcilers, StartPoll(q) \/ StartStop(q) \/ Reconcile(q) \/ FailPoll(q)
      PROVE  IndInv'
  BY <1>2, StartStep, VerifyPoll, CleanupPoll, UndoPoll, CommitPollStep, FailPollStep DEF Reconcile
<1>3. CASE RaiseAlert \/ Block \/ Expire \/ Rescale \/ UNCHANGED vars
  BY <1>3, OutsideStep
<1>4. Polls \subseteq Reconcilers /\ Stops \subseteq Reconcilers
  BY DEF Reconcilers
<1>5. QED
  BY <1>1, <1>2, <1>3, <1>4 DEF Next

\* The invariant holds at all times.
LEMMA IndInvHolds == Spec => []IndInv
  BY InitIndInv, IndInvStep, PTL DEF Spec

\* Repeated and overlapping requests for an alert carry its action out once;
\* every further time, a transaction failed between its action and its commit.
THEOREM ActionsAreTakenOnce == Spec => []ActedOnce
<1>1. IndInv => ActedOnce
  BY DEF IndInv, ActInv, ActedOnce
<1>2. QED
  BY <1>1, IndInvHolds, PTL

\* Three verifications are the limit, and an incident escalates after the
\* third, however polls overlap with requests that put it back to VERIFYING.
THEOREM VerificationsStayBounded == Spec => []VerificationsAreBounded
<1>1. IndInv => VerificationsAreBounded
  <2> SUFFICES ASSUME IndInv PROVE VerificationsAreBounded
    OBVIOUS
  <2>1. \A r \in Requests : proc[r].at \in IncidentState /\ proc[r].seen \in 0..MaxReplicas
    BY DEF IndInv, Types, ProcRecs
  <2>2. \A q \in Reconcilers : poll[q].outcome \in Ended \cup {"none"}
    BY DEF IndInv, Types, PollRecs
  <2>3. TypeOK
    BY <2>1, <2>2 DEF IndInv, Types, SharedTypes, ExecRecs, Replicas, TypeOK
  <2>4. QED
    BY <2>3 DEF IndInv, RowInv, EscalatedWasTried, VerificationsAreBounded
<1>2. QED
  BY <1>1, IndInvHolds, PTL

\* As long as no transaction fails between its change and its commit and
\* nobody else scales, the rows tell the replicas, and an experiment that has
\* succeeded has left the Deployment as it was.
THEOREM ReplicasStayRestored == Spec => []ReplicasAreRestored
<1>1. IndInv => ReplicasAreRestored
  <2> SUFFICES ASSUME IndInv PROVE ReplicasAreRestored
    OBVIOUS
  <2>0. RowInv /\ ClusterInv /\ exec.status \in {"none", "SUCCEEDED", "FAILED"}
    BY DEF IndInv, Types, SharedTypes, ExecRecs
  <2>1. SucceededIsRestored
    <3> SUFFICES ASSUME lab = "SUCCEEDED", unrecorded = 0 PROVE replicas = Base
      BY DEF SucceededIsRestored
    <3>1. plan = "scale" => undo /\ exec.status = "SUCCEEDED"
      BY <2>0 DEF RowInv
    <3>2. undo => Restored
      BY DEF Restored
    <3>3. QED
      BY <2>0, <3>1, <3>2 DEF ClusterInv
  <2>2. ReplicasAreRecorded
    <3> SUFFICES ASSUME unrecorded = 0, \A r \in Requests : proc[r].step # "acted",
                        \A q \in Reconcilers : ~poll[q].undone
                 PROVE  replicas = IF plan = "scale" /\ exec.status = "SUCCEEDED" /\ ~undo
                                   THEN exec.requested ELSE Base
      BY DEF ReplicasAreRecorded
    <3>1. ~InFlight /\ (Restored <=> undo)
      BY DEF InFlight, Restored
    <3>2. plan = "scale" => exec.status \in {"none", "SUCCEEDED"}
      BY <2>0 DEF RowInv
    <3>3. QED
      BY <2>0, <3>1, <3>2 DEF ClusterInv
  <2>3. QED
    BY <2>1, <2>2 DEF ReplicasAreRestored
<1>2. QED
  BY <1>1, IndInvHolds, PTL

-----------------------------------------------------------------------------
(* The advisory diagnosis (Diagnosis), for any number of sessions and      *)
(* incidents.  A session's rows become visible at its commit, so that the  *)
(* invariant AdvisoryInv ties the state of every session to the rows of    *)
(* its transaction (RowsInv): no more than its attempts, an answer exactly *)
(* if one was answered, two failures at most.  With the row lock (LockInv) *)
(* the budget follows.  The breaker is checked at admission only: StormInv *)
(* counts how far the latest failures may have grown since, two for each   *)
(* session that is outside admission again.                                *)

\* The rows of a session, of those the ones that failed, and the latest
\* failures, in a window q.
CallRows == [ok : BOOLEAN, by : Sessions \cup {AI!Committed, AI!Gone}]
OwnIn(q, s) == {n \in DOMAIN q : q[n].by = s}
FailedIn(q, s) == {n \in OwnIn(q, s) : ~ q[n].ok}
LatestIn(q) ==
  {n \in DOMAIN q : /\ q[n].by = AI!Committed
                    /\ \A k \in n..Len(q) : q[k].by = AI!Committed => ~ q[k].ok}

AtMostOne(S) == \A a, b \in S : a = b
AtMostTwo(S) == \A a, b, c \in S : a = b \/ b = c \/ a = c

\* Session s is in state r and has the rows it has in window q: no more than
\* its attempts, an answer exactly if one of them was answered, and no more
\* than two that failed.
RowsFit(r, q, s) ==
  /\ Cardinality(OwnIn(q, s)) <= r.attempts
  /\ r.best > 0 <=> \E n \in OwnIn(q, s) : q[n].ok
  /\ r.step = "primary" => FailedIn(q, s) = {}
  /\ r.step \in {"fallback", "escalation"} => AtMostOne(FailedIn(q, s))
  /\ AtMostTwo(FailedIn(q, s))

\* The specification counts with the operator of FiniteSets.
LEMMA SameCardinality == \A S : AI!Cardinality(S) = Cardinality(S)
BY DEF AI!Cardinality, Cardinality

\* Sets of rows are finite.
LEMMA RowsFinite ==
  ASSUME NEW q \in Seq(CallRows)
  PROVE  /\ \A S : S \subseteq DOMAIN q => IsFiniteSet(S) /\ Cardinality(S) \in Nat
         /\ \A s : OwnIn(q, s) \subseteq DOMAIN q /\ FailedIn(q, s) \subseteq DOMAIN q
         /\ LatestIn(q) \subseteq DOMAIN q
<1>1. DOMAIN q = 1..Len(q) /\ Len(q) \in Nat
  OBVIOUS
<1>2. IsFiniteSet(1..Len(q))
  BY <1>1, FS_Interval
<1>3. \A S : S \subseteq DOMAIN q => IsFiniteSet(S)
  BY <1>1, <1>2, FS_Subset
<1>4. \A S : S \subseteq DOMAIN q => Cardinality(S) \in Nat
  BY <1>3, FS_CardinalityType
<1>5. \A s : OwnIn(q, s) \subseteq DOMAIN q /\ FailedIn(q, s) \subseteq DOMAIN q
  BY DEF OwnIn, FailedIn
<1>6. LatestIn(q) \subseteq DOMAIN q
  BY DEF LatestIn
<1>7. QED
  BY <1>3, <1>4, <1>5, <1>6

\* A set of at most two elements.
LEMMA TwoAreFinite ==
  ASSUME NEW S, AtMostTwo(S)
  PROVE  IsFiniteSet(S) /\ Cardinality(S) <= 2 /\ Cardinality(S) \in Nat
<1>1. CASE S = {}
  BY <1>1, FS_EmptySet
<1>2. CASE \E a : S = {a}
  <2>1. PICK a : S = {a}
    BY <1>2
  <2>2. IsFiniteSet({a}) /\ Cardinality({a}) = 1
    BY FS_Singleton
  <2>3. QED
    BY <2>1, <2>2
<1>3. CASE S # {} /\ ~ \E a : S = {a}
  <2>1. PICK a \in S : TRUE
    BY <1>3
  <2>2. PICK b \in S : b # a
    BY <1>3, <2>1
  <2>3. S = {a} \cup {b}
    BY <2>1, <2>2 DEF AtMostTwo
  <2>4. IsFiniteSet({a}) /\ Cardinality({a}) = 1
    BY FS_Singleton
  <2>5. IsFiniteSet({a} \cup {b}) /\ Cardinality({a} \cup {b}) = 1 + 1
    BY <2>2, <2>4, FS_AddElement
  <2>6. QED
    BY <2>3, <2>5
<1>4. QED
  BY <1>1, <1>2, <1>3

\* No more than n elements of T, two of them at most new.
LEMMA GrowsByTwo ==
  ASSUME NEW S, NEW T, NEW U, IsFiniteSet(T), AtMostTwo(U), S \subseteq T \cup U
  PROVE  Cardinality(S) <= Cardinality(T) + 2 /\ Cardinality(S) \in Nat
<1>1. IsFiniteSet(U) /\ Cardinality(U) <= 2 /\ Cardinality(U) \in Nat
  BY TwoAreFinite
<1>2. Cardinality(T) \in Nat /\ IsFiniteSet(T \cap U)
  BY FS_CardinalityType, FS_Intersection
<1>3. /\ IsFiniteSet(T \cup U)
      /\ Cardinality(T \cup U) = Cardinality(T) + Cardinality(U) - Cardinality(T \cap U)
  BY <1>1, FS_Union
<1>4. Cardinality(T \cap U) \in Nat /\ Cardinality(T \cup U) \in Nat
  BY <1>2, <1>3, FS_CardinalityType
<1>5. IsFiniteSet(S) /\ Cardinality(S) <= Cardinality(T \cup U)
  BY <1>3, FS_Subset
<1>6. Cardinality(S) \in Nat
  BY <1>5, FS_CardinalityType
<1>7. QED
  BY <1>1, <1>2, <1>3, <1>4, <1>5, <1>6

\* A set that fits into another one place further on is no larger.
LEMMA ShiftedIsSmaller ==
  ASSUME NEW S \in SUBSET Nat, NEW T, IsFiniteSet(S), IsFiniteSet(T),
         \A m \in S : m + 1 \in T
  PROVE  Cardinality(S) <= Cardinality(T)
<1> DEFINE f == [m \in S |-> m + 1]
<1>1. f \in [S -> T] /\ \A a, b \in S : f[a] = f[b] => a = b
  OBVIOUS
<1>2. f \in Injection(S, T)
  BY <1>1 DEF Injection, IsInjective
<1> HIDE DEF f
<1>3. QED
  BY <1>2, FS_Injection

\* A session whose rows stay where and what they are.
LEMMA SameRowsFit ==
  ASSUME NEW q, NEW p, NEW r, NEW s, RowsFit(r, q, s), OwnIn(p, s) = OwnIn(q, s),
         \A n \in OwnIn(q, s) : p[n].ok = q[n].ok
  PROVE  RowsFit(r, p, s)
<1>1. FailedIn(p, s) = FailedIn(q, s)
  BY DEF FailedIn
<1>2. (\E n \in OwnIn(p, s) : p[n].ok) <=> (\E n \in OwnIn(q, s) : q[n].ok)
  OBVIOUS
<1>3. QED
  BY <1>1, <1>2 DEF RowsFit

\* A session that has no rows.
LEMMA NoRowsFit ==
  ASSUME NEW q, NEW r, NEW s, OwnIn(q, s) = {}, r.attempts \in Nat, r.best = 0
  PROVE  RowsFit(r, q, s)
<1>1. Cardinality(OwnIn(q, s)) = 0
  BY FS_EmptySet
<1>2. FailedIn(q, s) = {}
  BY DEF FailedIn
<1>3. ~ r.best > 0
  OBVIOUS
<1>4. QED
  BY <1>1, <1>2, <1>3 DEF RowsFit, AtMostOne, AtMostTwo

\* The same rows, and what says nothing about them changes.
LEMMA SameFieldsFit ==
  ASSUME NEW q, NEW r, NEW x, NEW s, RowsFit(r, q, s), x.attempts = r.attempts,
         x.best = r.best,
         x.step \in {"primary", "fallback", "escalation"} => x.step = r.step
  PROVE  RowsFit(x, q, s)
BY DEF RowsFit
-----------------------------------------------------------------------------
(* The inductive invariant.                                                *)

SessionRecords ==
  [step : {"idle", "admit", "store", "gate"} \cup AI!Calling, inc : Incidents \cup {"none"},
   job : BOOLEAN, seen : AI!Terminal \cup {"OPEN"}, complex : BOOLEAN, limit : Nat,
   attempts : Nat, best : 0..HighConfidence, diagnosis : Nat]
TaskRecords ==
  [step : {"none", "queued", "posted", "done", "failed"}, retries : 0..MaxRetries,
   ses : Sessions \cup {"none"}]

Statuses == {"AVAILABLE", "AI_UNAVAILABLE"}
ProposalRecords == [inc : Incidents, diagnosis : Nat]

AITypes ==
  /\ enabled \in BOOLEAN
  /\ incidentState \in [Incidents -> AI!Terminal \cup {"OPEN"}]
  /\ change \in [Incidents -> AI!Terminal \cup {"none"}]
  /\ calls \in Seq(CallRows)
  /\ used \in [Incidents -> Nat]
  /\ diagnoses \in [Incidents -> Seq(Statuses)]
  /\ proposals \in Seq(ProposalRecords)
  /\ ses \in [Sessions -> SessionRecords]
  /\ task \in [Incidents -> TaskRecords]

\* The phases of a session x under the budgets u.
Phases(x, u) ==
  /\ x.step # "idle" => x.inc \in Incidents
  /\ x.step \notin AI!Calling \cup {"store"} => x.limit = 0 /\ x.attempts = 0 /\ x.best = 0
  /\ x.step = "admit" => enabled
  /\ x.step \in AI!Calling => x.attempts < x.limit
  /\ x.step \in {"primary", "fallback"} => x.best = 0
  /\ x.attempts <= x.limit
  /\ x.limit > 0 => enabled /\ x.limit = Budget - u[x.inc]

SessionsInv == \A s \in Sessions : Phases(ses[s], used)
RowsInv == \A s \in Sessions : RowsFit(ses[s], calls, s)

\* No two sessions hold the row of one incident.
LockInv ==
  \A s, t \in Sessions : \A i \in Incidents : AI!Holds(s, i) /\ AI!Holds(t, i) => s = t

UsedInv == \A i \in Incidents : used[i] <= Budget

\* Each session that is not admitted may have added two failures since the
\* breaker last let somebody through.
Outside == {s \in Sessions : ses[s].limit = 0}
StormInv == Cardinality(LatestIn(calls)) <= (Threshold - 1) + 2 * Cardinality(Outside)

\* Diagnosis d of incident i is on record in g, and available.
IsAvailable(g, i, d) == d \in 1..Len(g[i]) /\ g[i][d] = "AVAILABLE"
GroundInv ==
  /\ \A n \in DOMAIN proposals : IsAvailable(diagnoses, proposals[n].inc, proposals[n].diagnosis)
  /\ \A s \in Sessions :
       ses[s].step = "gate" => IsAvailable(diagnoses, ses[s].inc, ses[s].diagnosis)
DoneInv == \A i \in Incidents : task[i].step = "done" => diagnoses[i] # <<>>

AdvisoryInv ==
  AITypes /\ SessionsInv /\ RowsInv /\ LockInv /\ UsedInv /\ StormInv /\ GroundInv /\ DoneInv
-----------------------------------------------------------------------------
(* What an attempt makes of a session and of its rows.                     *)

\* Where the router goes after an attempt.
LEMMA RoutedFacts ==
  ASSUME NEW x \in SessionRecords, x.step \in AI!Calling, NEW c \in AI!Outcomes,
         NEW actual
  PROVE  /\ AI!Routed(x, c, actual) \in SessionRecords
         /\ AI!Routed(x, c, actual).limit = x.limit
         /\ AI!Routed(x, c, actual).inc = x.inc
         /\ AI!Routed(x, c, actual).attempts = x.attempts + 1
         /\ AI!Routed(x, c, actual).best = AI!Selected(x.best, c)
         /\ AI!Routed(x, c, actual).step \in {"fallback", "escalation", "store"}
         /\ AI!Routed(x, c, actual).step \in AI!Calling => x.attempts + 1 < x.limit
         /\ AI!Routed(x, c, actual).step = "fallback" =>
              x.step = "primary" /\ AI!Selected(x.best, c) = 0
         /\ AI!Routed(x, c, actual).step = "escalation" =>
              x.step # "escalation" /\ AI!Selected(x.best, c) > 0
<1> DEFINE y == [x EXCEPT !.attempts = x.attempts + 1, !.best = AI!Selected(x.best, c)]
<1>1. AI!Selected(x.best, c) \in 0..HighConfidence
  BY BoundsAssumption DEF AI!Selected, SessionRecords, AI!Outcomes
<1>2. /\ y \in SessionRecords /\ y.limit = x.limit /\ y.inc = x.inc /\ y.step = x.step
      /\ y.attempts = x.attempts + 1 /\ y.best = AI!Selected(x.best, c)
  <2> DEFINE b == AI!Selected(x.best, c)
  <2>1. b \in 0..HighConfidence
    BY <1>1
  <2> HIDE DEF b
  <2>2. y = [x EXCEPT !.attempts = x.attempts + 1, !.best = b]
    BY DEF b
  <2> HIDE DEF y
  <2>3. /\ y.limit = x.limit /\ y.inc = x.inc /\ y.step = x.step
        /\ y.attempts = x.attempts + 1 /\ y.best = b
    BY <2>2 DEF SessionRecords
  <2>4. x.attempts + 1 \in Nat
    BY DEF SessionRecords
  <2>5. y \in SessionRecords
    BY <2>1, <2>2, <2>4 DEF SessionRecords
  <2>6. QED
    BY <2>3, <2>5 DEF b
<1> HIDE DEF y
<1>3. CASE AI!Selected(x.best, c) = 0
  <2>1. AI!Routed(x, c, actual) =
          [y EXCEPT !.step = IF x.step = "primary" /\ AI!MayTry(y) /\ FallbackModel # PrimaryModel
                             THEN "fallback" ELSE "store"]
    BY <1>2, <1>3 DEF AI!Routed, y
  <2>2. CASE x.step = "primary" /\ AI!MayTry(y) /\ FallbackModel # PrimaryModel
    BY <1>2, <1>3, <2>1, <2>2 DEF SessionRecords, AI!Calling, AI!MayTry
  <2>3. CASE ~ (x.step = "primary" /\ AI!MayTry(y) /\ FallbackModel # PrimaryModel)
    <3>1. AI!Routed(x, c, actual) = [y EXCEPT !.step = "store"]
      BY <2>1, <2>3
    <3>2. QED
      BY <1>2, <3>1 DEF SessionRecords, AI!Calling
  <2>4. QED
    BY <2>2, <2>3
<1>4. CASE AI!Selected(x.best, c) # 0
  <2> DEFINE unsure == /\ y.best < HighConfidence /\ y.complex /\ AI!MayTry(y)
                       /\ EscalationModel \notin {AI!Model(x.step), actual}
  <2>1. AI!Routed(x, c, actual) =
          [y EXCEPT !.step = IF x.step # "escalation" /\ unsure THEN "escalation" ELSE "store"]
    BY <1>2, <1>4 DEF AI!Routed, y
  <2>2. unsure => AI!MayTry(y)
    OBVIOUS
  <2> HIDE DEF unsure
  <2>3. CASE x.step # "escalation" /\ unsure
    <3>1. AI!Routed(x, c, actual) = [y EXCEPT !.step = "escalation"]
      BY <2>1, <2>3
    <3>2. QED
      BY <1>1, <1>2, <1>4, <2>2, <2>3, <3>1 DEF SessionRecords, AI!Calling, AI!MayTry
  <2>4. CASE ~ (x.step # "escalation" /\ unsure)
    <3>1. AI!Routed(x, c, actual) = [y EXCEPT !.step = "store"]
      BY <2>1, <2>4
    <3>2. QED
      BY <1>2, <3>1 DEF SessionRecords, AI!Calling
  <2>5. QED
    BY <2>3, <2>4
<1>5. QED
  BY <1>3, <1>4

\* The rows of a session after one more.
LEMMA AttemptRowsFit ==
  ASSUME NEW q \in Seq(CallRows), NEW s \in Sessions, NEW x \in SessionRecords,
         x.step \in AI!Calling, x.step \in {"primary", "fallback"} => x.best = 0,
         RowsFit(x, q, s), NEW c \in AI!Outcomes, NEW actual, NEW b \in BOOLEAN,
         b <=> c > 0
  PROVE  RowsFit(AI!Routed(x, c, actual), Append(q, [ok |-> b, by |-> s]), s)
<1> DEFINE p == Append(q, [ok |-> b, by |-> s])
           y == AI!Routed(x, c, actual)
           m == Len(q) + 1
<1>1. /\ y.attempts = x.attempts + 1 /\ y.best = AI!Selected(x.best, c)
      /\ y.step \in {"fallback", "escalation", "store"}
      /\ y.step = "fallback" => x.step = "primary" /\ y.best = 0
      /\ y.step = "escalation" => x.step # "escalation" /\ y.best > 0
  BY RoutedFacts
<1>2. /\ Len(q) \in Nat /\ DOMAIN q = 1..Len(q) /\ DOMAIN p = 1..m
      /\ p[m] = [ok |-> b, by |-> s] /\ \A n \in 1..Len(q) : p[n] = q[n]
  BY DEF CallRows
<1>3. x.best \in Nat /\ c \in Nat /\ x.attempts \in Nat
  BY BoundsAssumption DEF SessionRecords, AI!Outcomes
<1>4. y.best > 0 <=> x.best > 0 \/ b
  BY <1>1, <1>3 DEF AI!Selected
<1> HIDE DEF p, y, m
<1>5. m \notin DOMAIN q
  BY <1>2 DEF m
<1>6. OwnIn(p, s) = OwnIn(q, s) \cup {m}
  BY <1>2 DEF OwnIn, m
<1>7. IsFiniteSet(OwnIn(q, s)) /\ Cardinality(OwnIn(q, s)) \in Nat /\ m \notin OwnIn(q, s)
  BY <1>5, RowsFinite
<1>8. Cardinality(OwnIn(p, s)) = Cardinality(OwnIn(q, s)) + 1
  BY <1>6, <1>7, FS_AddElement
<1>9. Cardinality(OwnIn(p, s)) <= y.attempts
  BY <1>1, <1>3, <1>7, <1>8 DEF RowsFit
<1>10. \A n \in OwnIn(q, s) : p[n] = q[n]
  BY <1>2 DEF OwnIn
<1>11. y.best > 0 <=> \E n \in OwnIn(p, s) : p[n].ok
  BY <1>2, <1>4, <1>6, <1>10 DEF RowsFit
<1>12. y.step # "primary"
  BY <1>1
<1>13. CASE b
  <2>1. FailedIn(p, s) = FailedIn(q, s)
    BY <1>2, <1>6, <1>7, <1>10, <1>13 DEF FailedIn
  <2>2. y.best > 0
    BY <1>4, <1>13
  <2>3. y.step \in {"fallback", "escalation"} => x.step \in {"primary", "fallback"}
    BY <1>1, <2>2 DEF AI!Calling
  <2>4. x.step \in {"primary", "fallback"} => AtMostOne(FailedIn(q, s))
    BY DEF RowsFit, AtMostOne
  <2>5. QED
    BY <1>9, <1>11, <1>12, <2>1, <2>3, <2>4 DEF RowsFit, p, y
<1>14. CASE ~ b
  <2>1. FailedIn(p, s) = FailedIn(q, s) \cup {m}
    BY <1>2, <1>6, <1>7, <1>10, <1>14 DEF FailedIn
  <2>2. AtMostOne(FailedIn(q, s))
    BY DEF RowsFit, AI!Calling, AtMostOne
  <2>3. AtMostTwo(FailedIn(p, s))
    BY <2>1, <2>2 DEF AtMostOne, AtMostTwo
  <2>4. x.step = "primary" => AtMostOne(FailedIn(p, s))
    BY <2>1 DEF RowsFit, AtMostOne
  <2>5. y.step \in {"fallback", "escalation"} => x.step = "primary"
    BY <1>1, <1>3, <1>4, <1>14 DEF AI!Calling
  <2>6. QED
    BY <1>9, <1>11, <1>12, <2>3, <2>4, <2>5 DEF RowsFit, p, y
<1>15. QED
  BY <1>13, <1>14
-----------------------------------------------------------------------------
(* What the other steps make of the rows.                                  *)

\* A window rewritten in place is a window.
LEMMA RewrittenRows ==
  ASSUME NEW q \in Seq(CallRows), NEW p \in [DOMAIN q -> CallRows]
  PROVE  p \in Seq(CallRows) /\ Len(p) = Len(q) /\ DOMAIN p = DOMAIN q
<1>1. DOMAIN q = 1..Len(q) /\ Len(q) \in Nat
  OBVIOUS
<1>2. p \in [1..Len(q) -> CallRows]
  BY <1>1
<1>3. QED
  BY <1>1, <1>2

\* The oldest row leaves.
LEMMA TailRowsFit ==
  ASSUME NEW q \in Seq(CallRows), q # <<>>, NEW s, Head(q).by # s, NEW r,
         r.attempts \in Nat,
         RowsFit(r, q, s)
  PROVE  RowsFit(r, Tail(q), s)
<1> DEFINE p == Tail(q)
<1>1. /\ p \in Seq(CallRows) /\ Len(p) = Len(q) - 1 /\ Len(q) \in Nat \ {0}
      /\ DOMAIN p = 1..Len(p) /\ DOMAIN q = 1..Len(q) /\ q[1].by # s
      /\ \A m \in 1..Len(p) : p[m] = q[m + 1]
  OBVIOUS
<1> HIDE DEF p
<1>2. \A m \in OwnIn(p, s) : m \in Nat /\ m + 1 \in OwnIn(q, s) /\ p[m] = q[m + 1]
  BY <1>1 DEF OwnIn
<1>3. \A n \in OwnIn(q, s) : n - 1 \in OwnIn(p, s) /\ p[n - 1] = q[n]
  <2> TAKE n \in OwnIn(q, s)
  <2>1. n \in 1..Len(q) /\ q[n].by = s
    BY <1>1 DEF OwnIn
  <2>2. n # 1
    BY <1>1, <2>1
  <2>3. n - 1 \in 1..Len(p) /\ (n - 1) + 1 = n
    BY <1>1, <2>1, <2>2
  <2>4. p[n - 1] = q[n]
    BY <1>1, <2>3
  <2>5. QED
    BY <1>1, <2>1, <2>3, <2>4 DEF OwnIn
<1>4. IsFiniteSet(OwnIn(p, s)) /\ Cardinality(OwnIn(p, s)) \in Nat
  BY <1>1, RowsFinite
<1>5. IsFiniteSet(OwnIn(q, s)) /\ Cardinality(OwnIn(q, s)) \in Nat
  BY RowsFinite
<1>6. OwnIn(p, s) \in SUBSET Nat
  BY <1>2
<1>7. Cardinality(OwnIn(p, s)) <= Cardinality(OwnIn(q, s))
  BY <1>2, <1>4, <1>5, <1>6, ShiftedIsSmaller
<1>8. Cardinality(OwnIn(p, s)) <= r.attempts
  BY <1>4, <1>5, <1>7 DEF RowsFit
<1>9. (\E n \in OwnIn(p, s) : p[n].ok) <=> (\E n \in OwnIn(q, s) : q[n].ok)
  BY <1>2, <1>3
<1>10. \A m \in FailedIn(p, s) : m \in Nat /\ m + 1 \in FailedIn(q, s)
  BY <1>2 DEF FailedIn
<1>11. FailedIn(q, s) = {} => FailedIn(p, s) = {}
  BY <1>10
<1>12. AtMostOne(FailedIn(q, s)) => AtMostOne(FailedIn(p, s))
  <2> SUFFICES ASSUME AtMostOne(FailedIn(q, s)), NEW a \in FailedIn(p, s),
  NEW b \in FailedIn(p, s)
               PROVE  a = b
    BY DEF AtMostOne
  <2>1. a + 1 = b + 1
    BY <1>10 DEF AtMostOne
  <2>2. QED
    BY <1>10, <2>1
<1>13. AtMostTwo(FailedIn(q, s)) => AtMostTwo(FailedIn(p, s))
  <2> SUFFICES ASSUME AtMostTwo(FailedIn(q, s)), NEW a \in FailedIn(p, s),
                      NEW b \in FailedIn(p, s), NEW c \in FailedIn(p, s)
               PROVE  a = b \/ b = c \/ a = c
    BY DEF AtMostTwo
  <2>1. a + 1 = b + 1 \/ b + 1 = c + 1 \/ a + 1 = c + 1
    BY <1>10 DEF AtMostTwo
  <2>2. QED
    BY <1>10, <2>1
<1>14. QED
  BY <1>8, <1>9, <1>11, <1>12, <1>13 DEF RowsFit, p

\* The latest failures when the oldest row leaves.
LEMMA TailLatest ==
  ASSUME NEW q \in Seq(CallRows), q # <<>>
  PROVE  Cardinality(LatestIn(Tail(q))) <= Cardinality(LatestIn(q))
<1> DEFINE p == Tail(q)
<1>1. /\ p \in Seq(CallRows) /\ Len(p) = Len(q) - 1 /\ Len(q) \in Nat \ {0}
      /\ DOMAIN p = 1..Len(p) /\ DOMAIN q = 1..Len(q)
      /\ \A m \in 1..Len(p) : p[m] = q[m + 1]
  OBVIOUS
<1> HIDE DEF p
<1>2. ASSUME NEW m \in LatestIn(p)
      PROVE  m \in Nat /\ m + 1 \in LatestIn(q)
  <2>1. /\ m \in 1..Len(p) /\ p[m].by = AI!Committed
        /\ \A k \in m..Len(p) : p[k].by = AI!Committed => ~ p[k].ok
    BY <1>1, <1>2 DEF LatestIn
  <2>2. m + 1 \in 1..Len(q) /\ q[m + 1].by = AI!Committed
    BY <1>1, <2>1
  <2>3. ASSUME NEW k \in (m + 1)..Len(q), q[k].by = AI!Committed
        PROVE  ~ q[k].ok
    <3>1. k - 1 \in m..Len(p) /\ k - 1 \in 1..Len(p) /\ (k - 1) + 1 = k
      BY <1>1, <2>1, <2>3
    <3>2. p[k - 1] = q[k]
      BY <1>1, <3>1
    <3>3. QED
      BY <2>1, <2>3, <3>1, <3>2
  <2>4. QED
    BY <1>1, <2>1, <2>2, <2>3 DEF LatestIn
<1>3. IsFiniteSet(LatestIn(p)) /\ IsFiniteSet(LatestIn(q))
  BY <1>1, RowsFinite
<1>4. LatestIn(p) \in SUBSET Nat
  BY <1>2
<1>5. QED
  BY <1>2, <1>3, <1>4, ShiftedIsSmaller DEF p

\* The window p is q with the rows of session s committed.
CommitsRows(q, p, s) ==
  /\ p \in [DOMAIN q -> CallRows]
  /\ \A n \in DOMAIN q : /\ p[n].ok = q[n].ok
                         /\ q[n].by = s => p[n].by = AI!Committed
                         /\ q[n].by # s => p[n] = q[n]

\* The latest failures when the rows of a session become visible.
LEMMA StoreLatest ==
  ASSUME NEW q \in Seq(CallRows), NEW s \in Sessions, NEW p, CommitsRows(q, p, s)
  PROVE  /\ p \in Seq(CallRows)
         /\ LatestIn(p) \subseteq LatestIn(q) \cup FailedIn(q, s)
         /\ OwnIn(q, s) = {} => p = q
         /\ OwnIn(p, s) = {}
         /\ \A t \in Sessions : t # s =>
              OwnIn(p, t) = OwnIn(q, t) /\ \A n \in OwnIn(q, t) : p[n].ok = q[n].ok
<1>1. /\ DOMAIN q = 1..Len(q) /\ \A n \in DOMAIN q : q[n] \in CallRows
  OBVIOUS
<1>2. \A n \in DOMAIN q : /\ p[n].ok = q[n].ok
                          /\ q[n].by = s => p[n].by = AI!Committed
                          /\ q[n].by # s => p[n] = q[n]
  BY DEF CommitsRows
<1>3. p \in [DOMAIN q -> CallRows]
  BY DEF CommitsRows
<1>4. p \in Seq(CallRows) /\ Len(p) = Len(q) /\ DOMAIN p = DOMAIN q
  BY <1>3, RewrittenRows
<1>5. ASSUME NEW m \in LatestIn(p)
      PROVE  m \in LatestIn(q) \cup FailedIn(q, s)
  <2>1. /\ m \in DOMAIN q /\ p[m].by = AI!Committed /\ m \in 1..Len(q)
        /\ \A k \in m..Len(q) : p[k].by = AI!Committed => ~ p[k].ok
    BY <1>1, <1>4, <1>5 DEF LatestIn
  <2>2. ~ q[m].ok
    <3>1. Len(q) \in Nat
      OBVIOUS
    <3>2. m \in m..Len(q)
      BY <2>1, <3>1
    <3>3. ~ p[m].ok
      BY <2>1, <3>2
    <3>4. QED
      BY <1>2, <2>1, <3>3
  <2>3. ASSUME NEW k \in m..Len(q), q[k].by = AI!Committed
        PROVE  ~ q[k].ok
    <3>1. k \in DOMAIN q
      BY <1>1, <2>1
    <3>2. p[k] = q[k]
      BY <1>2, <2>3, <3>1, SessionsAssumption
    <3>3. QED
      BY <2>1, <2>3, <3>2
  <2>4. QED
    BY <1>1, <1>2, <2>1, <2>2, <2>3 DEF LatestIn, FailedIn, OwnIn
<1>6. OwnIn(q, s) = {} => p = q
  <2> SUFFICES ASSUME OwnIn(q, s) = {} PROVE p = q
    OBVIOUS
  <2>1. \A n \in DOMAIN q : q[n].by # s
    BY DEF OwnIn
  <2>2. \A n \in DOMAIN q : p[n] = q[n]
    BY <1>2, <2>1
  <2>3. q \in [DOMAIN q -> CallRows]
    BY <1>1
  <2>4. QED
    BY <1>3, <2>2, <2>3
<1>7. OwnIn(p, s) = {}
  BY <1>2, <1>4, SessionsAssumption DEF OwnIn
<1>8. \A t \in Sessions : t # s =>
        OwnIn(p, t) = OwnIn(q, t) /\ \A n \in OwnIn(q, t) : p[n].ok = q[n].ok
  BY <1>2, <1>4, SessionsAssumption DEF OwnIn
<1>9. QED
  BY <1>4, <1>5, <1>6, <1>7, <1>8

\* The window p is q with the rows of session s lost.
LosesRows(q, p, s) ==
  /\ p \in [DOMAIN q -> CallRows]
  /\ \A n \in DOMAIN q : /\ q[n].by = s => p[n].by = AI!Gone
                         /\ q[n].by # s => p[n] = q[n]

\* The latest failures when a transaction is lost.
LEMMA CrashLatest ==
  ASSUME NEW q \in Seq(CallRows), NEW s \in Sessions, NEW p, LosesRows(q, p, s)
  PROVE  /\ p \in Seq(CallRows)
         /\ LatestIn(p) = LatestIn(q)
         /\ OwnIn(p, s) = {}
         /\ \A t \in Sessions : t # s =>
              OwnIn(p, t) = OwnIn(q, t) /\ \A n \in OwnIn(q, t) : p[n].ok = q[n].ok
<1>1. /\ DOMAIN q = 1..Len(q) /\ Len(q) \in Nat /\ \A n \in DOMAIN q : q[n] \in CallRows
  OBVIOUS
<1>2. \A n \in DOMAIN q : /\ q[n].by = s => p[n].by = AI!Gone
                          /\ q[n].by # s => p[n] = q[n]
  BY DEF LosesRows
<1>3. p \in [DOMAIN q -> CallRows]
  BY DEF LosesRows
<1>4. p \in Seq(CallRows) /\ Len(p) = Len(q) /\ DOMAIN p = DOMAIN q
  BY <1>3, RewrittenRows
<1>5. \A n \in DOMAIN q : /\ p[n].by = AI!Committed <=> q[n].by = AI!Committed
                          /\ q[n].by = AI!Committed => p[n] = q[n]
  BY <1>2, SessionsAssumption DEF AI!Committed, AI!Gone
<1>6. \A m \in DOMAIN q : m..Len(q) \subseteq DOMAIN q
  BY <1>1
<1>7. LatestIn(p) = LatestIn(q)
  BY <1>4, <1>5, <1>6 DEF LatestIn
<1>8. OwnIn(p, s) = {}
  BY <1>2, <1>4, SessionsAssumption DEF OwnIn
<1>9. \A t \in Sessions : t # s =>
        OwnIn(p, t) = OwnIn(q, t) /\ \A n \in OwnIn(q, t) : p[n].ok = q[n].ok
  BY <1>2, <1>4, SessionsAssumption DEF OwnIn
<1>10. QED
  BY <1>4, <1>7, <1>8, <1>9

\* The latest failures when a session adds a row.
LEMMA AttemptLatest ==
  ASSUME NEW q \in Seq(CallRows), NEW s \in Sessions, NEW p \in Seq(CallRows),
         Len(p) = Len(q) + 1, p[Len(q) + 1].by = s, \A n \in 1..Len(q) : p[n] = q[n]
  PROVE  /\ LatestIn(p) = LatestIn(q)
         /\ \A t : t # s =>
              OwnIn(p, t) = OwnIn(q, t) /\ \A n \in OwnIn(q, t) : p[n].ok = q[n].ok
<1>1. /\ Len(p) = Len(q) + 1 /\ Len(q) \in Nat
      /\ DOMAIN q = 1..Len(q) /\ DOMAIN p = 1..(Len(q) + 1)
      /\ \A n \in 1..Len(q) : p[n] = q[n]
  OBVIOUS
<1>2. p[Len(q) + 1].by = s /\ s # AI!Committed
  BY SessionsAssumption
<1>3. LatestIn(p) = LatestIn(q)
  <2>1. ASSUME NEW m \in LatestIn(p) PROVE m \in LatestIn(q)
    <3>1. /\ m \in 1..(Len(q) + 1) /\ p[m].by = AI!Committed
          /\ \A k \in m..(Len(q) + 1) : p[k].by = AI!Committed => ~ p[k].ok
      BY <1>1, <2>1 DEF LatestIn
    <3>2. m # Len(q) + 1
      BY <1>2, <3>1
    <3>3. m \in 1..Len(q) /\ p[m] = q[m]
      BY <1>1, <3>1, <3>2
    <3>4. \A k \in m..Len(q) : k \in m..(Len(q) + 1) /\ p[k] = q[k]
      BY <1>1, <3>3
    <3>5. QED
      BY <1>1, <3>1, <3>3, <3>4 DEF LatestIn
  <2>2. ASSUME NEW m \in LatestIn(q) PROVE m \in LatestIn(p)
    <3>1. /\ m \in 1..Len(q) /\ q[m].by = AI!Committed
          /\ \A k \in m..Len(q) : q[k].by = AI!Committed => ~ q[k].ok
      BY <1>1, <2>2 DEF LatestIn
    <3>2. m \in DOMAIN p /\ p[m] = q[m]
      BY <1>1, <3>1
    <3>3. \A k \in m..Len(p) : k = Len(q) + 1 \/ (k \in m..Len(q) /\ p[k] = q[k])
      BY <1>1, <3>1
    <3>4. QED
      BY <1>2, <3>1, <3>2, <3>3 DEF LatestIn
  <2>3. QED
    BY <2>1, <2>2
<1>4. \A t : t # s =>
        OwnIn(p, t) = OwnIn(q, t) /\ \A n \in OwnIn(q, t) : p[n].ok = q[n].ok
  BY <1>1, <1>2 DEF OwnIn
<1>5. QED
  BY <1>1, <1>3, <1>4
-----------------------------------------------------------------------------
(* Steps of one session.                                                   *)

\* One session moves; the others keep their rows and what their budget rests
\* on, and it holds no row that another one holds.
LEMMA OneMoves ==
  ASSUME AdvisoryInv, NEW s \in Sessions, NEW y \in SessionRecords,
         ses' = [ses EXCEPT ![s] = y], enabled' = enabled,
         \A t \in Sessions : t # s =>
           OwnIn(calls', t) = OwnIn(calls, t)
           /\ \A n \in OwnIn(calls, t) : calls'[n].ok = calls[n].ok,
         \A t \in Sessions : t # s /\ ses[t].limit > 0 => used'[ses[t].inc] = used[ses[t].inc],
         Phases(y, used'), RowsFit(y, calls', s),
         \A i \in Incidents :
           y.inc = i /\ (y.step \in AI!Calling \/ (y.step = "store" /\ enabled)) =>
             AI!Holds(s, i) \/ ~ AI!Locked(i)
  PROVE  ses' \in [Sessions -> SessionRecords] /\ SessionsInv' /\ RowsInv' /\ LockInv'
<1>1. /\ ses \in [Sessions -> SessionRecords] /\ SessionsInv /\ RowsInv /\ LockInv
  BY DEF AdvisoryInv, AITypes
<1>2. ses'[s] = y /\ \A t \in Sessions : t # s => ses'[t] = ses[t]
  BY <1>1
<1>3. ses' \in [Sessions -> SessionRecords]
  BY <1>1
<1>4. SessionsInv'
  <2> SUFFICES ASSUME NEW t \in Sessions PROVE Phases(ses[t], used)'
    BY DEF SessionsInv
  <2>1. CASE t = s
    BY <1>2, <2>1 DEF Phases
  <2>2. CASE t # s
    BY <1>1, <1>2, <2>2 DEF SessionsInv, Phases
  <2>3. QED
    BY <2>1, <2>2
<1>5. RowsInv'
  <2> SUFFICES ASSUME NEW t \in Sessions PROVE RowsFit(ses'[t], calls', t)
    BY DEF RowsInv
  <2>1. CASE t = s
    BY <1>2, <2>1
  <2>2. CASE t # s
    <3>1. RowsFit(ses[t], calls, t)
      BY <1>1 DEF RowsInv
    <3>2. RowsFit(ses[t], calls', t)
      BY <2>2, <3>1, SameRowsFit
    <3>3. QED
      BY <1>2, <2>2, <3>2
  <2>3. QED
    BY <2>1, <2>2
<1>6. LockInv'
  <2>1. \A t \in Sessions : \A i \in Incidents :
          t # s /\ AI!Holds(t, i)' => AI!Holds(t, i) /\ AI!Locked(i)
    BY <1>2 DEF AI!Holds, AI!Locked
  <2>2. \A i \in Incidents : AI!Holds(s, i)' => AI!Holds(s, i) \/ ~ AI!Locked(i)
    BY <1>2 DEF AI!Holds
  <2>3. QED
    BY <1>1, <2>1, <2>2 DEF LockInv
<1>7. QED
  BY <1>3, <1>4, <1>5, <1>6

\* The latest failures do not grow and no session is admitted.
LEMMA StormKept ==
  ASSUME AdvisoryInv, NEW s \in Sessions, NEW y \in SessionRecords,
         ses' = [ses EXCEPT ![s] = y], y.limit = 0 \/ y.limit = ses[s].limit,
         calls' \in Seq(CallRows),
         Cardinality(LatestIn(calls')) <= Cardinality(LatestIn(calls))
  PROVE  StormInv'
<1>1. ses \in [Sessions -> SessionRecords] /\ calls \in Seq(CallRows)
  BY DEF AdvisoryInv, AITypes
<1>2. Outside \subseteq Outside' /\ Outside' \subseteq Sessions
  BY <1>1 DEF Outside
<1>3. IsFiniteSet(Outside')
  BY <1>2, SessionsAssumption, FS_Subset
<1>4. IsFiniteSet(Outside) /\ Cardinality(Outside) <= Cardinality(Outside')
  BY <1>2, <1>3, FS_Subset
<1>5. Cardinality(Outside) \in Nat /\ Cardinality(Outside') \in Nat
  BY <1>3, <1>4, FS_CardinalityType
<1>6. Cardinality(LatestIn(calls)) \in Nat /\ Cardinality(LatestIn(calls')) \in Nat
  BY <1>1, RowsFinite
<1>7. Cardinality(LatestIn(calls)) <= (Threshold - 1) + 2 * Cardinality(Outside)
  BY DEF AdvisoryInv, StormInv
<1>8. QED
  BY <1>4, <1>5, <1>6, <1>7, BudgetAssumption DEF StormInv

\* A session outside admission has no rows.
LEMMA OutsideHasNoRows ==
  ASSUME AdvisoryInv, NEW s \in Sessions, ses[s].limit = 0
  PROVE  OwnIn(calls, s) = {} /\ ses[s].attempts = 0 /\ ses[s].best = 0
<1>1. ses[s] \in SessionRecords /\ calls \in Seq(CallRows)
  BY DEF AdvisoryInv, AITypes
<1>2. ses[s].attempts = 0
  BY <1>1 DEF AdvisoryInv, SessionsInv, Phases, SessionRecords
<1>3. Cardinality(OwnIn(calls, s)) <= 0
  BY <1>2 DEF AdvisoryInv, RowsInv, RowsFit
<1>4. IsFiniteSet(OwnIn(calls, s)) /\ Cardinality(OwnIn(calls, s)) \in Nat
  BY <1>1, RowsFinite
<1>5. OwnIn(calls, s) = {}
  BY <1>3, <1>4, FS_EmptySet
<1>6. ~ ses[s].best > 0
  BY <1>5 DEF AdvisoryInv, RowsInv, RowsFit
<1>7. ses[s].best = 0
  BY <1>1, <1>6, BoundsAssumption DEF SessionRecords
<1>8. QED
  BY <1>2, <1>5, <1>7

\* A session that is neither asking nor storing.
LEMMA QuietIsOutside ==
  ASSUME AdvisoryInv, NEW s \in Sessions, ses[s].step \in {"idle", "admit", "gate"}
  PROVE  ses[s].limit = 0
BY DEF AdvisoryInv, SessionsInv, Phases, AI!Calling

\* A session that was not admitted starts, or turns to something else.
LEMMA OutsideMoves ==
  ASSUME AdvisoryInv, NEW s \in Sessions, ses[s].limit = 0, NEW y \in SessionRecords,
         ses' = [ses EXCEPT ![s] = y], UNCHANGED <<enabled, calls, used>>,
         y.limit = 0, y.attempts = 0, y.best = 0,
         y.step \in {"idle", "admit", "store", "gate"},
         y.step # "idle" => y.inc \in Incidents,
         y.step = "store" => ~ enabled \/ ~ AI!Locked(y.inc),
         y.step = "admit" => enabled
  PROVE  /\ ses' \in [Sessions -> SessionRecords] /\ SessionsInv' /\ RowsInv' /\ LockInv'
         /\ UsedInv' /\ StormInv'
<1>1. calls \in Seq(CallRows)
  BY DEF AdvisoryInv, AITypes
<1>2. Phases(y, used')
  BY DEF Phases, AI!Calling
<1>3. OwnIn(calls', s) = {}
  BY OutsideHasNoRows
<1>4. RowsFit(y, calls', s)
  BY <1>3, NoRowsFit DEF SessionRecords
<1>5. \A i \in Incidents :
        y.inc = i /\ (y.step \in AI!Calling \/ (y.step = "store" /\ enabled)) =>
          AI!Holds(s, i) \/ ~ AI!Locked(i)
  BY DEF AI!Calling
<1>6. ses' \in [Sessions -> SessionRecords] /\ SessionsInv' /\ RowsInv' /\ LockInv'
  BY <1>2, <1>4, <1>5, OneMoves
<1>7. Cardinality(LatestIn(calls)) \in Nat
  BY <1>1, RowsFinite
<1>8. StormInv'
  <2>1. calls' \in Seq(CallRows) /\ Cardinality(LatestIn(calls')) <= Cardinality(LatestIn(calls))
    BY <1>1, <1>7
  <2>2. QED
    BY <2>1, StormKept
<1>9. UsedInv'
  BY DEF AdvisoryInv, UsedInv
<1>10. QED
  BY <1>6, <1>8, <1>9

\* Nobody's session moves.
LEMMA NobodyMoves ==
  ASSUME AdvisoryInv, UNCHANGED <<enabled, calls, used, ses>>
  PROVE  SessionsInv' /\ RowsInv' /\ LockInv' /\ UsedInv' /\ StormInv'
BY DEF AdvisoryInv, SessionsInv, Phases, RowsInv, LockInv, AI!Holds, UsedInv, StormInv,
   Outside
\* Proposals and evaluations when a session moves to something else.
LEMMA GroundKept ==
  ASSUME AdvisoryInv, UNCHANGED <<diagnoses, proposals>>,
         \A t \in Sessions : ses'[t] = ses[t] \/ ses'[t].step # "gate"
  PROVE  GroundInv'
BY DEF AdvisoryInv, GroundInv

\* self.retry of a task.
LEMMA RetryKeeps ==
  ASSUME AdvisoryInv, NEW i \in Incidents, AI!Retry(i), diagnoses' = diagnoses
  PROVE  task' \in [Incidents -> TaskRecords] /\ DoneInv'
<1>1. task \in [Incidents -> TaskRecords] /\ DoneInv /\ MaxRetries \in Nat
  BY BoundsAssumption DEF AdvisoryInv, AITypes
<1>2. CASE task[i].retries < MaxRetries
  <2>1. task' = [task EXCEPT ![i].step = "queued",
                             ![i].retries = task[i].retries + 1, ![i].ses = "none"]
    BY <1>1, <1>2 DEF AI!Retry
  <2>2. task[i].retries + 1 \in 0..MaxRetries
    BY <1>1, <1>2 DEF TaskRecords
  <2>3. QED
    BY <1>1, <2>1, <2>2 DEF TaskRecords, DoneInv
<1>3. CASE ~ task[i].retries < MaxRetries
  <2>1. task' = [task EXCEPT ![i].step = "failed",
                             ![i].retries = task[i].retries, ![i].ses = "none"]
    BY <1>1, <1>3 DEF AI!Retry
  <2>2. QED
    BY <1>1, <2>1 DEF TaskRecords, DoneInv
<1>4. QED
  BY <1>2, <1>3

\* A session that does nothing.
LEMMA IdleFacts ==
  /\ AI!Idle \in SessionRecords /\ AI!Idle.limit = 0 /\ AI!Idle.attempts = 0 /\ AI!Idle.best = 0
  /\ AI!Idle.step = "idle"
BY BoundsAssumption DEF AI!Idle, SessionRecords, AI!Terminal

\* A session starts.
LEMMA BeginKeeps ==
  ASSUME AdvisoryInv, NEW s \in Sessions, ses[s].step = "idle", NEW i \in Incidents,
         NEW job \in BOOLEAN, AI!Begin(s, i, job),
         UNCHANGED <<enabled, calls, used, diagnoses, proposals>>
  PROVE  /\ ses' \in [Sessions -> SessionRecords] /\ SessionsInv' /\ RowsInv' /\ LockInv'
         /\ UsedInv' /\ StormInv' /\ GroundInv'
<1> DEFINE y == [AI!Idle EXCEPT !.step = IF enabled THEN "admit" ELSE "store",
                             !.inc = i, !.job = job, !.seen = incidentState[i]]
<1>1. /\ enabled \in BOOLEAN /\ incidentState[i] \in AI!Terminal \cup {"OPEN"}
      /\ ses \in [Sessions -> SessionRecords]
  BY DEF AdvisoryInv, AITypes
<1>2. /\ y \in SessionRecords /\ y.limit = 0 /\ y.attempts = 0 /\ y.best = 0 /\ y.inc = i
      /\ y.step = IF enabled THEN "admit" ELSE "store"
  <2> DEFINE st == IF enabled THEN "admit" ELSE "store"
  <2>1. st \in {"admit", "store"}
    BY <1>1
  <2>2. y = [AI!Idle EXCEPT !.step = st, !.inc = i, !.job = job, !.seen = incidentState[i]]
    OBVIOUS
  <2> HIDE DEF st, y
  <2>3. /\ y \in SessionRecords /\ y.limit = 0 /\ y.attempts = 0 /\ y.best = 0 /\ y.inc = i
        /\ y.step = st
    BY <1>1, <2>1, <2>2, IdleFacts DEF SessionRecords
  <2>4. QED
    BY <2>3 DEF st
<1>3. ses' = [ses EXCEPT ![s] = y]
  BY DEF AI!Begin
<1> HIDE DEF y
<1>4. /\ y.step \in {"admit", "store"}
      /\ y.step = "admit" => enabled
      /\ y.step = "store" => ~ enabled
  BY <1>1, <1>2
<1>5. ses[s].limit = 0
  BY QuietIsOutside
<1>6. /\ ses' \in [Sessions -> SessionRecords] /\ SessionsInv' /\ RowsInv' /\ LockInv'
      /\ UsedInv' /\ StormInv'
  BY <1>2, <1>3, <1>4, <1>5, OutsideMoves
<1>7. \A t \in Sessions : ses'[t] = ses[t] \/ ses'[t].step # "gate"
  BY <1>1, <1>3, <1>4
<1>8. QED
  BY <1>6, <1>7, GroundKept

-----------------------------------------------------------------------------
(* Every step keeps the invariant.                                         *)

\* Reliability processing queues a job.
LEMMA QueueKeeps ==
  ASSUME AdvisoryInv, NEW i \in Incidents, AI!Queue(i)
  PROVE  AdvisoryInv'
<1>1. SessionsInv' /\ RowsInv' /\ LockInv' /\ UsedInv' /\ StormInv'
  BY NobodyMoves DEF AI!Queue
<1>2. GroundInv'
  BY GroundKept DEF AI!Queue
<1>3. AITypes'
  BY DEF AdvisoryInv, AITypes, AI!Queue, TaskRecords
<1>4. DoneInv'
  BY DEF AdvisoryInv, AITypes, AI!Queue, DoneInv, TaskRecords
<1>5. QED
  BY <1>1, <1>2, <1>3, <1>4 DEF AdvisoryInv

\* The post of a job times out.
LEMMA PostTimeoutKeeps ==
  ASSUME AdvisoryInv, NEW i \in Incidents, AI!PostTimeout(i)
  PROVE  AdvisoryInv'
<1>1. SessionsInv' /\ RowsInv' /\ LockInv' /\ UsedInv' /\ StormInv'
  BY NobodyMoves DEF AI!PostTimeout
<1>2. GroundInv'
  BY GroundKept DEF AI!PostTimeout
<1>3. task' \in [Incidents -> TaskRecords] /\ DoneInv'
  BY RetryKeeps DEF AI!PostTimeout
<1>4. AITypes'
  BY <1>3 DEF AdvisoryInv, AITypes, AI!PostTimeout
<1>5. QED
  BY <1>1, <1>2, <1>3, <1>4 DEF AdvisoryInv

\* Another component is about to move the incident.
LEMMA WantKeeps ==
  ASSUME AdvisoryInv, NEW i \in Incidents, AI!Want(i)
  PROVE  AdvisoryInv'
<1>1. SessionsInv' /\ RowsInv' /\ LockInv' /\ UsedInv' /\ StormInv'
  BY NobodyMoves DEF AI!Want
<1>2. GroundInv'
  BY GroundKept DEF AI!Want
<1>3. AITypes'
  BY DEF AdvisoryInv, AITypes, AI!Want, AI!Terminal
<1>4. DoneInv'
  BY DEF AdvisoryInv, AI!Want, DoneInv
<1>5. QED
  BY <1>1, <1>2, <1>3, <1>4 DEF AdvisoryInv

\* It moves the incident, whose row nobody holds.
LEMMA MoveKeeps ==
  ASSUME AdvisoryInv, NEW i \in Incidents, AI!Move(i)
  PROVE  AdvisoryInv'
<1>1. SessionsInv' /\ RowsInv' /\ LockInv' /\ UsedInv' /\ StormInv'
  BY NobodyMoves DEF AI!Move
<1>2. GroundInv'
  BY GroundKept DEF AI!Move
<1>3. AITypes'
  BY DEF AdvisoryInv, AITypes, AI!Move
<1>4. DoneInv'
  BY DEF AdvisoryInv, AI!Move, DoneInv
<1>5. QED
  BY <1>1, <1>2, <1>3, <1>4 DEF AdvisoryInv

\* A job starts, or an existing record answers it.
LEMMA StartJobKeeps ==
  ASSUME AdvisoryInv, NEW s \in Sessions, NEW i \in Incidents, AI!StartJob(s, i)
  PROVE  AdvisoryInv'
<1>1. CASE diagnoses[i] # <<>>
  <2>1. task' = [task EXCEPT ![i].step = "done"] /\ UNCHANGED ses
    BY <1>1 DEF AI!StartJob
  <2>2. SessionsInv' /\ RowsInv' /\ LockInv' /\ UsedInv' /\ StormInv'
    BY <2>1, NobodyMoves DEF AI!StartJob
  <2>3. GroundInv'
    BY <2>1, GroundKept DEF AI!StartJob
  <2>4. AITypes'
    BY <2>1 DEF AdvisoryInv, AITypes, AI!StartJob, TaskRecords
  <2>5. DoneInv'
    BY <1>1, <2>1 DEF AdvisoryInv, AITypes, AI!StartJob, DoneInv, TaskRecords
  <2>6. QED
    BY <2>2, <2>3, <2>4, <2>5 DEF AdvisoryInv
<1>2. CASE diagnoses[i] = <<>>
  <2>1. task' = [task EXCEPT ![i].step = "posted", ![i].ses = s] /\ AI!Begin(s, i, TRUE)
    BY <1>2 DEF AI!StartJob
  <2>2. /\ ses' \in [Sessions -> SessionRecords] /\ SessionsInv' /\ RowsInv' /\ LockInv'
        /\ UsedInv' /\ StormInv' /\ GroundInv'
    BY <2>1, BeginKeeps DEF AI!StartJob
  <2>3. AITypes'
    BY <2>1, <2>2 DEF AdvisoryInv, AITypes, AI!StartJob, TaskRecords
  <2>4. DoneInv'
    BY <2>1 DEF AdvisoryInv, AITypes, AI!StartJob, DoneInv, TaskRecords
  <2>5. QED
    BY <2>2, <2>3, <2>4 DEF AdvisoryInv
<1>3. QED
  BY <1>1, <1>2

\* A request of an operator starts.
LEMMA StartRequestKeeps ==
  ASSUME AdvisoryInv, NEW s \in Sessions, NEW i \in Incidents, AI!StartRequest(s, i)
  PROVE  AdvisoryInv'
<1>1. /\ ses' \in [Sessions -> SessionRecords] /\ SessionsInv' /\ RowsInv' /\ LockInv'
      /\ UsedInv' /\ StormInv' /\ GroundInv'
  BY BeginKeeps DEF AI!StartRequest
<1>2. AITypes'
  BY <1>1 DEF AdvisoryInv, AITypes, AI!StartRequest
<1>3. DoneInv'
  BY DEF AdvisoryInv, AI!StartRequest, DoneInv
<1>4. QED
  BY <1>1, <1>2, <1>3 DEF AdvisoryInv
\* The evaluation of the latest diagnosis starts: it is available.
LEMMA StartGateKeeps ==
  ASSUME AdvisoryInv, NEW s \in Sessions, NEW i \in Incidents, AI!StartGate(s, i)
  PROVE  AdvisoryInv'
<1> DEFINE d == Len(diagnoses[i])
           y == [AI!Idle EXCEPT !.step = "gate", !.inc = i, !.diagnosis = d]
<1>1. ses \in [Sessions -> SessionRecords] /\ diagnoses[i] \in Seq(Statuses)
  BY DEF AdvisoryInv, AITypes
<1>2. IsAvailable(diagnoses, i, d) /\ d \in Nat
  BY <1>1 DEF AI!StartGate, AI!Suggestible, IsAvailable
<1>3. ses' = [ses EXCEPT ![s] = y]
  BY DEF AI!StartGate
<1> HIDE DEF d
<1>4. /\ y \in SessionRecords /\ y.limit = 0 /\ y.attempts = 0 /\ y.best = 0 /\ y.inc = i
      /\ y.step = "gate" /\ y.diagnosis = d
  BY <1>2, IdleFacts DEF SessionRecords
<1> HIDE DEF y
<1>5. ses[s].limit = 0
  BY QuietIsOutside DEF AI!StartGate
<1>6. /\ ses' \in [Sessions -> SessionRecords] /\ SessionsInv' /\ RowsInv' /\ LockInv'
      /\ UsedInv' /\ StormInv'
  BY <1>3, <1>4, <1>5, OutsideMoves DEF AI!StartGate
<1>7. AITypes'
  BY <1>6 DEF AdvisoryInv, AITypes, AI!StartGate
<1>8. DoneInv'
  BY DEF AdvisoryInv, AI!StartGate, DoneInv
<1>9. ses'[s] = y /\ \A t \in Sessions : t # s => ses'[t] = ses[t]
  BY <1>1, <1>3
<1>10. GroundInv'
  BY <1>2, <1>4, <1>9 DEF AdvisoryInv, GroundInv, AI!StartGate
<1>11. QED
  BY <1>6, <1>7, <1>8, <1>10 DEF AdvisoryInv

\* A proposal rests on the diagnosis that the evaluation read.
LEMMA GateKeeps ==
  ASSUME AdvisoryInv, NEW s \in Sessions, AI!Gate(s)
  PROVE  AdvisoryInv'
<1> DEFINE p == [inc |-> ses[s].inc, diagnosis |-> ses[s].diagnosis]
<1>1. ses \in [Sessions -> SessionRecords] /\ proposals \in Seq(ProposalRecords)
  BY DEF AdvisoryInv, AITypes
<1>2. ses[s].inc \in Incidents /\ ses[s].diagnosis \in Nat
  BY <1>1 DEF AdvisoryInv, SessionsInv, Phases, AI!Gate, SessionRecords
<1>3. IsAvailable(diagnoses, p.inc, p.diagnosis) /\ p \in ProposalRecords
  BY <1>2 DEF AdvisoryInv, GroundInv, AI!Gate, ProposalRecords
<1>4. proposals' = Append(proposals, p)
  BY DEF AI!Gate
<1> HIDE DEF p
<1>5. ses[s].limit = 0
  BY QuietIsOutside DEF AI!Gate
<1>6. /\ ses' \in [Sessions -> SessionRecords] /\ SessionsInv' /\ RowsInv' /\ LockInv'
      /\ UsedInv' /\ StormInv'
  BY <1>5, IdleFacts, OutsideMoves DEF AI!Gate
<1>7. proposals' \in Seq(ProposalRecords)
  BY <1>1, <1>3, <1>4
<1>8. AITypes'
  BY <1>6, <1>7 DEF AdvisoryInv, AITypes, AI!Gate
<1>9. DoneInv'
  BY DEF AdvisoryInv, AI!Gate, DoneInv
<1>10. \A n \in DOMAIN proposals' :
         proposals'[n] = p \/ (n \in DOMAIN proposals /\ proposals'[n] = proposals[n])
  BY <1>1, <1>3, <1>4
<1>11. \A t \in Sessions : ses'[t] = ses[t] \/ ses'[t].step # "gate"
  BY <1>1, IdleFacts DEF AI!Gate
<1>12. diagnoses' = diagnoses
  BY DEF AI!Gate
<1>13. \A n \in DOMAIN proposals' :
         IsAvailable(diagnoses, proposals'[n].inc, proposals'[n].diagnosis)
  BY <1>3, <1>10 DEF AdvisoryInv, GroundInv
<1>14. GroundInv'
  BY <1>11, <1>12, <1>13 DEF AdvisoryInv, GroundInv
<1>15. QED
  BY <1>6, <1>8, <1>9, <1>14 DEF AdvisoryInv

\* Admission: the only step that opens a limit, and only while the breaker is
\* closed and nobody holds the row.
LEMMA AdmitKeeps ==
  ASSUME AdvisoryInv, NEW s \in Sessions, AI!Admit(s)
  PROVE  AdvisoryInv'
<1> DEFINE x == ses[s]
           i == ses[s].inc
<1>1. /\ ses \in [Sessions -> SessionRecords] /\ calls \in Seq(CallRows)
      /\ used \in [Incidents -> Nat] /\ x \in SessionRecords
  BY DEF AdvisoryInv, AITypes
<1>2. /\ x.step = "admit" /\ enabled /\ i \in Incidents /\ x.limit = 0 /\ x.attempts = 0
      /\ x.best = 0 /\ ~ AI!Locked(i)
  BY DEF AdvisoryInv, SessionsInv, Phases, AI!Admit, AI!Available, AI!Calling
<1>3. UNCHANGED <<enabled, incidentState, change, calls, used, diagnoses, memory,
                  proposals, task, requests, events>>
  BY DEF AI!Admit
<1>4. AI!Remaining(i) \in Nat /\ AI!Remaining(i) = Budget - used[i]
  <2>1. used[i] \in Nat /\ used[i] <= Budget
    BY <1>1, <1>2 DEF AdvisoryInv, UsedInv
  <2>2. QED
    BY <2>1, BudgetAssumption DEF AI!Remaining
<1>5. CASE AI!Remaining(i) > 0 /\ ~ AI!CircuitOpen
  <2>1. PICK c \in AI!Contexts :
          ses' = [ses EXCEPT ![s].step = IF c = "invalid" THEN "store" ELSE "primary",
                             ![s].complex = c = "complex", ![s].limit = AI!Remaining(i)]
    BY <1>5 DEF AI!Admit
  <2> DEFINE st == IF c = "invalid" THEN "store" ELSE "primary"
             cx == c = "complex"
             rest == AI!Remaining(i)
             y == [x EXCEPT !.step = st, !.complex = cx, !.limit = rest]
  <2>2. st \in {"store", "primary"}
    OBVIOUS
  <2>3. cx \in BOOLEAN
    BY Zenon
  <2>4. ses' = [ses EXCEPT ![s] = y]
    BY <1>1, <2>1
  <2>5. rest \in Nat /\ rest > 0 /\ rest = Budget - used[i]
    BY <1>4, <1>5
  <2> HIDE DEF st, cx, rest, x
  <2>6. /\ y \in SessionRecords /\ y.step = st /\ y.limit = rest /\ y.attempts = x.attempts
        /\ y.best = x.best /\ y.inc = x.inc
    BY <1>1, <2>2, <2>3, <2>5 DEF SessionRecords, AI!Calling
  <2> HIDE DEF y
  <2>7. Phases(y, used')
    BY <1>2, <1>3, <2>2, <2>5, <2>6 DEF Phases, AI!Calling, x
  <2>8. OwnIn(calls, s) = {}
    BY <1>2, OutsideHasNoRows DEF x
  <2>9. RowsFit(y, calls', s)
    BY <1>2, <1>3, <2>6, <2>8, NoRowsFit DEF x
  <2>10. \A j \in Incidents :
           y.inc = j /\ (y.step \in AI!Calling \/ (y.step = "store" /\ enabled)) =>
             AI!Holds(s, j) \/ ~ AI!Locked(j)
    BY <1>2, <2>6 DEF x
  <2>11. ses' \in [Sessions -> SessionRecords] /\ SessionsInv' /\ RowsInv' /\ LockInv'
    BY <1>3, <2>4, <2>6, <2>7, <2>9, <2>10, OneMoves
  <2>12. UsedInv'
    BY <1>3 DEF AdvisoryInv, UsedInv
  <2>13. StormInv'
    <3>1. AI!LatestFailures = LatestIn(calls)
      BY DEF AI!LatestFailures, LatestIn
    <3>2. Cardinality(LatestIn(calls)) \in Nat /\ Threshold \in Nat
      BY <1>1, RowsFinite, BudgetAssumption
    <3>3. Cardinality(LatestIn(calls')) <= Threshold - 1
      BY <1>3, <1>5, <3>1, <3>2, SameCardinality DEF AI!CircuitOpen
    <3>4. IsFiniteSet(Outside')
      BY SessionsAssumption, FS_Subset DEF Outside
    <3>5. Cardinality(Outside') \in Nat
      BY <3>4, FS_CardinalityType
    <3>6. QED
      BY <1>3, <3>2, <3>3, <3>5 DEF StormInv
  <2>14. \A t \in Sessions : ses'[t] = ses[t] \/ ses'[t].step # "gate"
    BY <1>1, <2>2, <2>4, <2>6
  <2>15. GroundInv'
    BY <1>3, <2>14, GroundKept
  <2>16. AITypes' /\ DoneInv'
    BY <1>3, <2>11 DEF AdvisoryInv, AITypes, DoneInv
  <2>17. QED
    BY <2>11, <2>12, <2>13, <2>15, <2>16 DEF AdvisoryInv
<1>6. CASE ~ (AI!Remaining(i) > 0 /\ ~ AI!CircuitOpen)
  <2> DEFINE y == [x EXCEPT !.step = "store"]
  <2>1. ses' = [ses EXCEPT ![s] = y]
    BY <1>1, <1>6 DEF AI!Admit
  <2> HIDE DEF x
  <2>2. /\ y \in SessionRecords /\ y.step = "store" /\ y.limit = x.limit /\ y.attempts = x.attempts
        /\ y.best = x.best /\ y.inc = x.inc
    BY <1>1 DEF SessionRecords
  <2> HIDE DEF y
  <2>3. y.limit = 0 /\ y.attempts = 0 /\ y.best = 0 /\ y.inc \in Incidents /\ ~ AI!Locked(y.inc)
    BY <1>2, <2>2 DEF x
  <2>4. /\ ses' \in [Sessions -> SessionRecords] /\ SessionsInv' /\ RowsInv' /\ LockInv'
        /\ UsedInv' /\ StormInv'
    BY <1>2, <1>3, <2>1, <2>2, <2>3, OutsideMoves DEF x
  <2>5. \A t \in Sessions : ses'[t] = ses[t] \/ ses'[t].step # "gate"
    BY <1>1, <2>1, <2>2
  <2>6. GroundInv'
    BY <1>3, <2>5, GroundKept
  <2>7. AITypes' /\ DoneInv'
    BY <1>3, <2>4 DEF AdvisoryInv, AITypes, DoneInv
  <2>8. QED
    BY <2>4, <2>6, <2>7 DEF AdvisoryInv
<1>7. QED
  BY <1>5, <1>6

\* One attempt: a row more and a failure more at most, visible to nobody else.
LEMMA AttemptKeeps ==
  ASSUME AdvisoryInv, NEW s \in Sessions, AI!Attempt(s)
  PROVE  AdvisoryInv'
<1>1. /\ ses \in [Sessions -> SessionRecords] /\ calls \in Seq(CallRows) /\ ses[s] \in SessionRecords
  BY DEF AdvisoryInv, AITypes
<1>2. UNCHANGED <<enabled, incidentState, change, used, diagnoses, memory,
                  proposals, task, requests, events>>
  BY DEF AI!Attempt
<1>3. ses[s].step \in AI!Calling /\ Phases(ses[s], used) /\ RowsFit(ses[s], calls, s)
  BY DEF AI!Attempt, AdvisoryInv, SessionsInv, RowsInv
<1>4. PICK c \in AI!Outcomes, actual \in {AI!Model(ses[s].step), EscalationModel} :
        AI!RecordInvocation(s, c > 0) /\ ses' = [ses EXCEPT ![s] = AI!Routed(ses[s], c, actual)]
  BY DEF AI!Attempt
<1> DEFINE b == c > 0
           y == AI!Routed(ses[s], c, actual)
<1>5. b \in BOOLEAN /\ (b <=> c > 0)
  <2>1. c \in Nat
    BY BoundsAssumption DEF AI!Outcomes
  <2>2. b \in BOOLEAN
    BY <2>1, SMT
  <2>3. b <=> c > 0
    OBVIOUS
  <2>4. QED
    BY <2>2, <2>3
<1>6. calls' = Append(calls, [ok |-> b, by |-> s]) /\ ses' = [ses EXCEPT ![s] = y]
  BY <1>4 DEF AI!RecordInvocation
<1>7. /\ y \in SessionRecords /\ y.limit = ses[s].limit /\ y.inc = ses[s].inc
      /\ y.attempts = ses[s].attempts + 1 /\ y.step \in {"fallback", "escalation", "store"}
      /\ y.step \in AI!Calling => ses[s].attempts + 1 < ses[s].limit
      /\ y.step = "fallback" => y.best = 0
  BY <1>1, <1>3, RoutedFacts
<1> HIDE DEF b
<1>8. RowsFit(y, Append(calls, [ok |-> b, by |-> s]), s)
  BY <1>1, <1>3, <1>5, AttemptRowsFit DEF Phases
<1> HIDE DEF y
<1>9. ses[s].step # "idle" /\ ses[s].attempts \in Nat /\ ses[s].limit \in Nat
  BY <1>1, <1>3 DEF AI!Calling, SessionRecords
<1>10. ses[s].inc \in Incidents /\ ses[s].attempts < ses[s].limit
  BY <1>3, <1>9 DEF Phases
<1>11. Phases(y, used')
  BY <1>2, <1>3, <1>7, <1>9, <1>10 DEF Phases, AI!Calling
<1>12. /\ calls' \in Seq(CallRows) /\ LatestIn(calls') = LatestIn(calls)
       /\ \A t : t # s =>
            /\ OwnIn(calls', t) = OwnIn(calls, t)
            /\ \A n \in OwnIn(calls, t) : calls'[n].ok = calls[n].ok
  <2> DEFINE r == [ok |-> b, by |-> s]
  <2>1. r \in CallRows /\ r.by = s
    BY <1>5 DEF CallRows
  <2>2. calls' = Append(calls, r)
    BY <1>6
  <2> HIDE DEF r
  <2>3. /\ calls' \in Seq(CallRows) /\ Len(calls') = Len(calls) + 1
        /\ calls'[Len(calls) + 1].by = s /\ \A n \in 1..Len(calls) : calls'[n] = calls[n]
    BY <1>1, <2>1, <2>2
  <2>4. QED
    BY <1>1, <2>3, AttemptLatest
<1>13. \A i \in Incidents :
         y.inc = i /\ (y.step \in AI!Calling \/ (y.step = "store" /\ enabled)) =>
           AI!Holds(s, i) \/ ~ AI!Locked(i)
  BY <1>3, <1>7 DEF AI!Holds
<1>14. ses' \in [Sessions -> SessionRecords] /\ SessionsInv' /\ RowsInv' /\ LockInv'
  <2>1. RowsFit(y, calls', s)
    BY <1>6, <1>8
  <2>2. QED
    BY <1>2, <1>6, <1>7, <1>11, <1>12, <1>13, <2>1, OneMoves
<1>15. UsedInv'
  BY <1>2 DEF AdvisoryInv, UsedInv
<1>16. StormInv'
  <2>1. Cardinality(LatestIn(calls')) <= Cardinality(LatestIn(calls))
    BY <1>1, <1>12, RowsFinite
  <2>2. QED
    BY <1>6, <1>7, <1>12, <2>1, StormKept
<1>17. \A t \in Sessions : ses'[t] = ses[t] \/ ses'[t].step # "gate"
  BY <1>1, <1>6, <1>7
<1>18. GroundInv'
  BY <1>2, <1>17, GroundKept
<1>19. AITypes' /\ DoneInv'
  BY <1>2, <1>12, <1>14 DEF AdvisoryInv, AITypes, DoneInv
<1>20. QED
  BY <1>14, <1>15, <1>16, <1>18, <1>19 DEF AdvisoryInv
\* The records h are g with one more of incident i.
AddsRecord(g, h, i, v) == h[i] = Append(g[i], v) /\ \A j \in Incidents : j # i => h[j] = g[j]

\* A record more leaves the records before as they are.
LEMMA RecordedKeeps ==
  ASSUME NEW g \in [Incidents -> Seq(Statuses)], NEW i \in Incidents,
         NEW v \in Statuses, NEW h, AddsRecord(g, h, i, v)
  PROVE  /\ h[i] # <<>> /\ \A j \in Incidents : g[j] # <<>> => h[j] # <<>>
         /\ \A j \in Incidents : \A d : IsAvailable(g, j, d) => IsAvailable(h, j, d)
         /\ h[i][Len(h[i])] = v
<1>1. h[i] = Append(g[i], v) /\ \A j \in Incidents : j # i => h[j] = g[j]
  BY DEF AddsRecord
<1>2. g[i] \in Seq(Statuses)
  OBVIOUS
<1>3. /\ h[i] \in Seq(Statuses) /\ Len(h[i]) = Len(g[i]) + 1
      /\ Len(g[i]) \in Nat /\ h[i][Len(h[i])] = v
      /\ \A d \in 1..Len(g[i]) : h[i][d] = g[i][d]
  BY <1>1, <1>2
<1>4. h[i] # <<>>
  BY <1>3
<1>5. \A j \in Incidents : g[j] # <<>> => h[j] # <<>>
  BY <1>1, <1>4
<1>6. ASSUME NEW j \in Incidents, NEW d, IsAvailable(g, j, d) PROVE IsAvailable(h, j, d)
  <2>1. CASE j = i
    BY <1>3, <1>6, <2>1 DEF IsAvailable
  <2>2. CASE j # i
    BY <1>1, <1>6, <2>2 DEF IsAvailable
  <2>3. QED
    BY <2>1, <2>2
<1>7. QED
  BY <1>3, <1>4, <1>5, <1>6

\* The budget of a session's incident when it stores.
LEMMA StoreBudget ==
  ASSUME AdvisoryInv, NEW s \in Sessions, AI!Store(s)
  PROVE  /\ used' \in [Incidents -> Nat] /\ UsedInv'
         /\ \A t \in Sessions : t # s /\ ses[t].limit > 0 => used'[ses[t].inc] = used[ses[t].inc]
<1> DEFINE i == ses[s].inc
           own == Cardinality(OwnIn(calls, s))
<1>1. /\ ses \in [Sessions -> SessionRecords] /\ calls \in Seq(CallRows) /\ used \in [Incidents -> Nat]
      /\ SessionsInv /\ UsedInv /\ LockInv /\ RowsInv
  BY DEF AdvisoryInv, AITypes
<1>2. ses[s].step = "store" /\ i \in Incidents
  BY <1>1 DEF AI!Store, SessionsInv, Phases
<1>3. used' = [used EXCEPT ![i] = used[i] + own]
  <2>1. AI!Pending(s) = own
    BY SameCardinality DEF AI!Pending, OwnIn
  <2>2. used' = [used EXCEPT ![i] = used[i] + AI!Pending(s)]
    BY DEF AI!Store
  <2>3. QED
    BY <2>1, <2>2
<1>4. own \in Nat
  BY <1>1, RowsFinite
<1>5. own <= ses[s].attempts
  BY <1>1 DEF RowsInv, RowsFit
<1>6. /\ ses[s].attempts <= ses[s].limit
      /\ ses[s].limit > 0 => ses[s].limit = Budget - used[i]
      /\ ses[s].attempts \in Nat /\ ses[s].limit \in Nat
  BY <1>1 DEF SessionsInv, Phases, SessionRecords
<1> HIDE DEF own
<1>7. used[i] \in Nat /\ used[i] <= Budget /\ Budget \in Nat
  BY <1>1, <1>2, BudgetAssumption DEF UsedInv
<1>8. used[i] + own <= Budget
  BY <1>4, <1>5, <1>6, <1>7
<1>9. used' \in [Incidents -> Nat]
  <2>1. used[i] + own \in Nat
    BY <1>4, <1>7
  <2>2. QED
    BY <1>1, <1>3, <2>1
<1>10. UsedInv'
  BY <1>1, <1>2, <1>3, <1>8 DEF UsedInv
<1>11. ASSUME NEW t \in Sessions, t # s, ses[t].limit > 0
       PROVE  used'[ses[t].inc] = used[ses[t].inc]
  <2>1. ses[t].step \in AI!Calling \cup {"store"} /\ enabled
    BY <1>1, <1>11 DEF SessionsInv, Phases
  <2>2. ses[t].inc \in Incidents
    BY <1>1, <2>1 DEF SessionsInv, Phases, AI!Calling
  <2>3. ses[t].inc # i
    BY <1>1, <1>2, <1>11, <2>1, <2>2 DEF LockInv, AI!Holds
  <2>4. QED
    BY <1>1, <1>3, <2>2, <2>3
<1>12. QED
  BY <1>9, <1>10, <1>11

\* The commit: the rows count against the budget, and at most two failures join
\* the latest ones, from a session that is outside from now on.
LEMMA StoreKeeps ==
  ASSUME AdvisoryInv, NEW s \in Sessions, AI!Store(s)
  PROVE  AdvisoryInv'
<1> DEFINE i == ses[s].inc
           v == IF ses[s].best > 0 THEN "AVAILABLE" ELSE "AI_UNAVAILABLE"
<1>1. /\ ses \in [Sessions -> SessionRecords] /\ calls \in Seq(CallRows)
      /\ diagnoses \in [Incidents -> Seq(Statuses)]
      /\ task \in [Incidents -> TaskRecords]
  BY DEF AdvisoryInv, AITypes
<1>2. ses[s].step = "store" /\ i \in Incidents /\ v \in Statuses
  BY DEF AdvisoryInv, AI!Store, SessionsInv, Phases, Statuses
<1>3. UNCHANGED <<enabled, incidentState, change, proposals, requests, events>>
  BY DEF AI!Store
<1>4. ses' = [ses EXCEPT ![s] = AI!Idle]
  BY DEF AI!Store
<1>5. diagnoses' = [diagnoses EXCEPT ![i] = Append(@, v)]
  BY DEF AI!Store, AI!Recorded
<1>6. calls' = [n \in DOMAIN calls |->
                 IF calls[n].by = s THEN [calls[n] EXCEPT !.by = AI!Committed] ELSE calls[n]]
  BY DEF AI!Store
<1>7. task' = IF ses[s].job /\ task[i].ses = s
              THEN [task EXCEPT ![i].step = "done", ![i].ses = "none"] ELSE task
  BY DEF AI!Store
<1> HIDE DEF v
<1>8. /\ calls' \in Seq(CallRows)
      /\ LatestIn(calls') \subseteq LatestIn(calls) \cup FailedIn(calls, s)
      /\ OwnIn(calls, s) = {} => calls' = calls
      /\ OwnIn(calls', s) = {}
      /\ \A t \in Sessions : t # s =>
           /\ OwnIn(calls', t) = OwnIn(calls, t)
           /\ \A n \in OwnIn(calls, t) : calls'[n].ok = calls[n].ok
  <2>1. \A n \in DOMAIN calls : calls[n] \in CallRows
    BY <1>1
  <2>2. \A n \in DOMAIN calls : /\ calls'[n] \in CallRows
                                /\ calls'[n].ok = calls[n].ok
                                /\ calls[n].by = s => calls'[n].by = AI!Committed
                                /\ calls[n].by # s => calls'[n] = calls[n]
    BY <1>6, <2>1 DEF CallRows
  <2>3. calls' \in [DOMAIN calls -> CallRows]
    BY <1>6, <2>2
  <2>4. CommitsRows(calls, calls', s)
    BY <2>2, <2>3 DEF CommitsRows
  <2>5. QED
    BY <1>1, <2>4, StoreLatest
<1>9. /\ used' \in [Incidents -> Nat] /\ UsedInv'
       /\ \A t \in Sessions : t # s /\ ses[t].limit > 0 => used'[ses[t].inc] = used[ses[t].inc]
  BY StoreBudget
<1>10. Phases(AI!Idle, used')
  BY IdleFacts DEF Phases, AI!Calling
<1>11. RowsFit(AI!Idle, calls', s)
  BY <1>8, IdleFacts, NoRowsFit
<1>12. ses' \in [Sessions -> SessionRecords] /\ SessionsInv' /\ RowsInv' /\ LockInv'
  <2>1. \A t \in Sessions : t # s =>
          /\ OwnIn(calls', t) = OwnIn(calls, t)
          /\ \A n \in OwnIn(calls, t) : calls'[n].ok = calls[n].ok
    BY <1>8, SessionsAssumption
  <2>2. \A j \in Incidents :
          AI!Idle.inc = j /\ (AI!Idle.step \in AI!Calling \/ (AI!Idle.step = "store" /\ enabled)) =>
            AI!Holds(s, j) \/ ~ AI!Locked(j)
    BY IdleFacts DEF AI!Calling
  <2>3. QED
    BY <1>3, <1>4, <1>9, <1>10, <1>11, <2>1, <2>2, IdleFacts, OneMoves
<1>13. StormInv'
  <2>1. Cardinality(LatestIn(calls)) \in Nat /\ IsFiniteSet(LatestIn(calls))
    BY <1>1, RowsFinite
  <2>2. CASE ses[s].limit = 0
    <3>1. calls' = calls
      BY <1>8, <2>2, OutsideHasNoRows
    <3>2. Cardinality(LatestIn(calls')) <= Cardinality(LatestIn(calls))
      BY <2>1, <3>1
    <3>3. QED
      BY <1>4, <1>8, <3>2, IdleFacts, StormKept
  <2>3. CASE ses[s].limit # 0
    <3>1. AtMostTwo(FailedIn(calls, s))
      BY DEF AdvisoryInv, RowsInv, RowsFit
    <3>2. /\ Cardinality(LatestIn(calls')) <= Cardinality(LatestIn(calls)) + 2
          /\ Cardinality(LatestIn(calls')) \in Nat
      BY <1>8, <2>1, <3>1, GrowsByTwo
    <3>3. Outside' = Outside \cup {s} /\ s \notin Outside
      BY <1>1, <1>4, <2>3, IdleFacts DEF Outside
    <3>4. IsFiniteSet(Outside)
      BY SessionsAssumption, FS_Subset DEF Outside
    <3>5. Cardinality(Outside') = Cardinality(Outside) + 1 /\ Cardinality(Outside) \in Nat
      BY <3>3, <3>4, FS_AddElement, FS_CardinalityType
    <3>6. Cardinality(LatestIn(calls)) <= (Threshold - 1) + 2 * Cardinality(Outside)
      BY DEF AdvisoryInv, StormInv
    <3>7. QED
      BY <2>1, <3>2, <3>5, <3>6, BudgetAssumption DEF StormInv
  <2>4. QED
    BY <2>2, <2>3
<1>14. /\ diagnoses' \in [Incidents -> Seq(Statuses)]
       /\ diagnoses'[i] # <<>> /\ \A j \in Incidents : diagnoses[j] # <<>> => diagnoses'[j] # <<>>
       /\ \A j \in Incidents : \A d : IsAvailable(diagnoses, j, d) => IsAvailable(diagnoses', j, d)
  <2>1. diagnoses' \in [Incidents -> Seq(Statuses)]
    BY <1>1, <1>2, <1>5
  <2>2. AddsRecord(diagnoses, diagnoses', i, v)
    BY <1>1, <1>2, <1>5 DEF AddsRecord
  <2>3. QED
    <3>1. PICK a \in Incidents, w \in Statuses : a = i /\ w = v
      BY <1>2
    <3>2. AddsRecord(diagnoses, diagnoses', a, w) /\ diagnoses \in [Incidents -> Seq(Statuses)]
      BY <1>1, <2>2, <3>1
    <3>3. /\ diagnoses'[a] # <<>> /\ \A j \in Incidents : diagnoses[j] # <<>> => diagnoses'[j] # <<>>
          /\ \A j \in Incidents : \A d : IsAvailable(diagnoses, j, d) => IsAvailable(diagnoses', j, d)
      BY <3>2, RecordedKeeps
    <3>4. QED
      BY <2>1, <3>1, <3>3
<1>15. GroundInv'
  <2>1. \A n \in DOMAIN proposals : proposals[n].inc \in Incidents
    <3>1. proposals \in Seq(ProposalRecords)
      BY DEF AdvisoryInv, AITypes
    <3>2. \A n \in DOMAIN proposals : proposals[n] \in ProposalRecords
      BY <3>1
    <3>3. QED
      BY <3>2 DEF ProposalRecords
  <2>2. \A t \in Sessions : ses'[t].step = "gate" => ses'[t] = ses[t] /\ ses[t].inc \in Incidents
    BY <1>1, <1>4, IdleFacts DEF AdvisoryInv, SessionsInv, Phases
  <2>3. QED
    BY <1>3, <1>14, <2>1, <2>2 DEF AdvisoryInv, GroundInv
<1>16. task' \in [Incidents -> TaskRecords] /\ DoneInv'
  <2>1. CASE ses[s].job /\ task[i].ses = s
    <3>1. task' = [task EXCEPT ![i].step = "done", ![i].ses = "none"]
      BY <1>7, <2>1
    <3>2. QED
      BY <1>1, <1>2, <1>14, <3>1 DEF AdvisoryInv, DoneInv, TaskRecords
  <2>2. CASE ~ (ses[s].job /\ task[i].ses = s)
    <3>1. task' = task
      BY <1>7, <2>2
    <3>2. QED
      BY <1>1, <1>14, <3>1 DEF AdvisoryInv, DoneInv
  <2>3. QED
    BY <2>1, <2>2
<1>17. AITypes'
  BY <1>3, <1>8, <1>9, <1>12, <1>14, <1>16 DEF AdvisoryInv, AITypes
<1>18. QED
  BY <1>9, <1>12, <1>13, <1>15, <1>16, <1>17 DEF AdvisoryInv

\* A transaction is lost: its rows count for nothing.
LEMMA CrashKeeps ==
  ASSUME AdvisoryInv, NEW s \in Sessions, AI!Crash(s)
  PROVE  AdvisoryInv'
<1>1. ses \in [Sessions -> SessionRecords] /\ calls \in Seq(CallRows)
  BY DEF AdvisoryInv, AITypes
<1>2. UNCHANGED <<enabled, incidentState, change, used, diagnoses, memory,
                  proposals, requests>>
  BY DEF AI!Crash
<1>3. ses' = [ses EXCEPT ![s] = AI!Idle]
  BY DEF AI!Crash
<1>4. calls' = [n \in DOMAIN calls |->
                 IF calls[n].by = s THEN [ok |-> FALSE, by |-> AI!Gone] ELSE calls[n]]
  BY DEF AI!Crash
<1>5. /\ calls' \in Seq(CallRows)
      /\ LatestIn(calls') = LatestIn(calls)
      /\ OwnIn(calls', s) = {}
      /\ \A t \in Sessions : t # s =>
           /\ OwnIn(calls', t) = OwnIn(calls, t)
           /\ \A n \in OwnIn(calls, t) : calls'[n].ok = calls[n].ok
  <2>1. \A n \in DOMAIN calls : calls[n] \in CallRows
    BY <1>1
  <2>2. \A n \in DOMAIN calls : /\ calls'[n] \in CallRows
                                /\ calls[n].by = s => calls'[n].by = AI!Gone
                                /\ calls[n].by # s => calls'[n] = calls[n]
    BY <1>4, <2>1 DEF CallRows
  <2>3. calls' \in [DOMAIN calls -> CallRows]
    BY <1>4, <2>2
  <2>4. LosesRows(calls, calls', s)
    BY <2>2, <2>3 DEF LosesRows
  <2>5. QED
    BY <1>1, <2>4, CrashLatest
<1>6. Phases(AI!Idle, used')
  BY IdleFacts DEF Phases, AI!Calling
<1>7. RowsFit(AI!Idle, calls', s)
  BY <1>5, IdleFacts, NoRowsFit
<1>8. ses' \in [Sessions -> SessionRecords] /\ SessionsInv' /\ RowsInv' /\ LockInv'
  <2>1. \A t \in Sessions : t # s =>
          /\ OwnIn(calls', t) = OwnIn(calls, t)
          /\ \A n \in OwnIn(calls, t) : calls'[n].ok = calls[n].ok
    BY <1>5, SessionsAssumption
  <2>2. \A j \in Incidents :
          AI!Idle.inc = j /\ (AI!Idle.step \in AI!Calling \/ (AI!Idle.step = "store" /\ enabled)) =>
            AI!Holds(s, j) \/ ~ AI!Locked(j)
    BY IdleFacts DEF AI!Calling
  <2>3. QED
    BY <1>2, <1>3, <1>6, <1>7, <2>1, <2>2, IdleFacts, OneMoves
<1>9. UsedInv'
  BY <1>2 DEF AdvisoryInv, UsedInv
<1>10. StormInv'
  <2>1. Cardinality(LatestIn(calls')) <= Cardinality(LatestIn(calls))
    BY <1>1, <1>5, RowsFinite
  <2>2. QED
    BY <1>3, <1>5, <2>1, IdleFacts, StormKept
<1>11. \A t \in Sessions : ses'[t] = ses[t] \/ ses'[t].step # "gate"
  BY <1>1, <1>3, IdleFacts
<1>12. GroundInv'
  BY <1>2, <1>11, GroundKept
<1>13. task' \in [Incidents -> TaskRecords] /\ DoneInv'
  <2>1. ses[s].inc \in Incidents
    BY DEF AdvisoryInv, SessionsInv, Phases, AI!Crash
  <2>2. CASE ses[s].job /\ task[ses[s].inc].ses = s
    <3>1. AI!Retry(ses[s].inc)
      BY <2>2 DEF AI!Crash
    <3>2. QED
      BY <1>2, <2>1, <3>1, RetryKeeps
  <2>3. CASE ~ (ses[s].job /\ task[ses[s].inc].ses = s)
    <3>1. task' = task
      BY <2>3 DEF AI!Crash
    <3>2. QED
      BY <1>2, <3>1 DEF AdvisoryInv, AITypes, DoneInv
  <2>4. QED
    BY <2>2, <2>3
<1>14. AITypes'
  BY <1>2, <1>5, <1>8, <1>13 DEF AdvisoryInv, AITypes
<1>15. QED
  BY <1>8, <1>9, <1>10, <1>12, <1>13, <1>14 DEF AdvisoryInv

\* The window moves on.
LEMMA ExpireKeeps ==
  ASSUME AdvisoryInv, AI!Expire
  PROVE  AdvisoryInv'
<1>1. ses \in [Sessions -> SessionRecords] /\ calls \in Seq(CallRows) /\ calls # <<>>
  BY DEF AdvisoryInv, AITypes, AI!Expire
<1>2. UNCHANGED <<enabled, incidentState, change, used, diagnoses, memory,
                  proposals, ses, task, requests, events>>
  BY DEF AI!Expire
<1>3. calls' = Tail(calls) /\ calls' \in Seq(CallRows)
  BY <1>1 DEF AI!Expire
<1>4. RowsInv'
  <2> SUFFICES ASSUME NEW t \in Sessions PROVE RowsFit(ses[t], Tail(calls), t)
    BY <1>2, <1>3 DEF RowsInv
  <2>1. RowsFit(ses[t], calls, t) /\ ses[t].attempts \in Nat
    BY <1>1 DEF AdvisoryInv, RowsInv, SessionRecords
  <2>2. Head(calls).by # t
    BY SessionsAssumption DEF AI!Expire
  <2>3. QED
    BY <1>1, <2>1, <2>2, TailRowsFit
<1>5. StormInv'
  <2>1. Cardinality(LatestIn(calls')) <= Cardinality(LatestIn(calls))
    BY <1>1, <1>3, TailLatest
  <2>2. Cardinality(LatestIn(calls)) \in Nat /\ Cardinality(LatestIn(calls')) \in Nat
    BY <1>1, <1>3, RowsFinite
  <2>3. IsFiniteSet(Outside) /\ Outside' = Outside
    BY <1>2, SessionsAssumption, FS_Subset DEF Outside
  <2>4. Cardinality(Outside) \in Nat
    BY <2>3, FS_CardinalityType
  <2>5. QED
    BY <2>1, <2>2, <2>3, <2>4, BudgetAssumption DEF AdvisoryInv, StormInv
<1>6. SessionsInv' /\ LockInv' /\ UsedInv'
  BY <1>2 DEF AdvisoryInv, SessionsInv, Phases, LockInv, AI!Holds, UsedInv
<1>7. GroundInv'
  BY <1>2, GroundKept
<1>8. AITypes' /\ DoneInv'
  BY <1>2, <1>3 DEF AdvisoryInv, AITypes, DoneInv
<1>9. QED
  BY <1>4, <1>5, <1>6, <1>7, <1>8 DEF AdvisoryInv
\* The invariant holds at the start.
LEMMA AdvisoryInit == AI!Init => AdvisoryInv
<1> SUFFICES ASSUME AI!Init PROVE AdvisoryInv
  OBVIOUS
<1>1. ses = [s \in Sessions |-> AI!Idle] /\ \A s \in Sessions : ses[s] = AI!Idle
  BY DEF AI!Init
<1>2. calls = <<>> /\ calls \in Seq(CallRows) /\ DOMAIN calls = {}
  BY DEF AI!Init
<1>3. AITypes
  <2>1. ses \in [Sessions -> SessionRecords]
    BY <1>1, IdleFacts
  <2>2. task \in [Incidents -> TaskRecords]
    BY BoundsAssumption DEF AI!Init, TaskRecords
  <2>3. proposals \in Seq(ProposalRecords) /\ diagnoses \in [Incidents -> Seq(Statuses)]
    BY DEF AI!Init
  <2>4. QED
    BY <1>2, <2>1, <2>2, <2>3 DEF AI!Init, AITypes
<1>4. SessionsInv
  BY <1>1, IdleFacts DEF SessionsInv, Phases, AI!Calling
<1>5. RowsInv
  <2> SUFFICES ASSUME NEW s \in Sessions PROVE RowsFit(AI!Idle, calls, s)
    BY <1>1 DEF RowsInv
  <2>1. OwnIn(calls, s) = {}
    BY <1>2 DEF OwnIn
  <2>2. QED
    BY <2>1, IdleFacts, NoRowsFit
<1>6. LockInv
  BY <1>1, IdleFacts DEF LockInv, AI!Holds, AI!Calling
<1>7. UsedInv
  BY BudgetAssumption DEF AI!Init, UsedInv
<1>8. StormInv
  <2>1. Cardinality(LatestIn(calls)) = 0
    BY <1>2, FS_EmptySet DEF LatestIn
  <2>2. IsFiniteSet(Outside)
    BY SessionsAssumption, FS_Subset DEF Outside
  <2>3. Cardinality(Outside) \in Nat
    BY <2>2, FS_CardinalityType
  <2>4. QED
    BY <2>1, <2>3, BudgetAssumption DEF StormInv
<1>9. GroundInv
  BY <1>1, IdleFacts DEF AI!Init, GroundInv
<1>10. DoneInv
  BY DEF AI!Init, DoneInv
<1>11. QED
  BY <1>3, <1>4, <1>5, <1>6, <1>7, <1>8, <1>9, <1>10 DEF AdvisoryInv

\* Every step keeps the invariant.
LEMMA AdvisoryNext == AdvisoryInv /\ [AI!Next]_(AI!vars) => AdvisoryInv'
<1> SUFFICES ASSUME AdvisoryInv, [AI!Next]_(AI!vars) PROVE AdvisoryInv'
  OBVIOUS
<1>1. ASSUME NEW i \in Incidents,
AI!Queue(i) \/ AI!PostTimeout(i) \/ AI!Want(i) \/ AI!Move(i)
      PROVE  AdvisoryInv'
  BY <1>1, QueueKeeps, PostTimeoutKeeps, WantKeeps, MoveKeeps
<1>2. ASSUME NEW s \in Sessions, NEW i \in Incidents,
             AI!StartJob(s, i) \/ AI!StartRequest(s, i) \/ AI!StartGate(s, i)
      PROVE  AdvisoryInv'
  BY <1>2, StartJobKeeps, StartRequestKeeps, StartGateKeeps
<1>3. ASSUME NEW s \in Sessions,
AI!Admit(s) \/ AI!Attempt(s) \/ AI!Store(s) \/ AI!Gate(s) \/ AI!Crash(s)
      PROVE  AdvisoryInv'
  BY <1>3, AdmitKeeps, AttemptKeeps, StoreKeeps, GateKeeps, CrashKeeps
<1>4. CASE AI!Expire
  BY <1>4, ExpireKeeps
<1>5. CASE UNCHANGED AI!vars
  <2>1. SessionsInv' /\ RowsInv' /\ LockInv' /\ UsedInv' /\ StormInv'
    BY <1>5, NobodyMoves DEF AI!vars
  <2>2. AITypes' /\ GroundInv' /\ DoneInv'
    BY <1>5 DEF AI!vars, AdvisoryInv, AITypes, GroundInv, DoneInv
  <2>3. QED
    BY <2>1, <2>2 DEF AdvisoryInv
<1>6. QED
  BY <1>1, <1>2, <1>3, <1>4, <1>5 DEF AI!Next

\* The rows of an incident's sessions are those of the one that holds it.
LEMMA BudgetFollows == AdvisoryInv => AI!BudgetKept
<1> SUFFICES ASSUME AdvisoryInv, NEW i \in Incidents
             PROVE  used[i] + Cardinality({n \in DOMAIN calls :
                               calls[n].by \in {s \in Sessions : ses[s].inc = i}}) <= Budget
  BY SameCardinality DEF AI!BudgetKept
<1> DEFINE P == {n \in DOMAIN calls : calls[n].by \in {s \in Sessions : ses[s].inc = i}}
<1>1. /\ ses \in [Sessions -> SessionRecords] /\ calls \in Seq(CallRows) /\ used \in [Incidents -> Nat]
      /\ SessionsInv /\ UsedInv /\ LockInv /\ RowsInv
  BY DEF AdvisoryInv, AITypes
<1>2. used[i] \in Nat /\ used[i] <= Budget /\ Budget \in Nat
  BY <1>1, BudgetAssumption DEF UsedInv
<1>3. \A n \in P : /\ calls[n].by \in Sessions /\ ses[calls[n].by].inc = i
                   /\ n \in OwnIn(calls, calls[n].by)
  BY DEF OwnIn
<1>4. \A n \in P : ses[calls[n].by].limit # 0
  BY <1>3, OutsideHasNoRows
<1>5. CASE P = {}
  <2>1. Cardinality(P) = 0
    BY <1>5, FS_EmptySet
  <2>2. QED
    BY <1>2, <2>1
<1>6. CASE P # {}
  <2>1. PICK s \in Sessions : ses[s].inc = i /\ ses[s].limit # 0
    BY <1>3, <1>4, <1>6
  <2>2. ASSUME NEW t \in Sessions, ses[t].inc = i, ses[t].limit # 0
        PROVE  AI!Holds(t, i)
    <3>1. ses[t].limit > 0
      BY <1>1, <2>2 DEF SessionRecords
    <3>2. ses[t].step \in AI!Calling \cup {"store"} /\ enabled
      BY <1>1, <3>1 DEF SessionsInv, Phases
    <3>3. QED
      BY <2>2, <3>2 DEF AI!Holds
  <2>3. \A n \in P : calls[n].by = s
    BY <1>1, <1>3, <1>4, <2>1, <2>2 DEF LockInv
  <2>4. P \subseteq OwnIn(calls, s)
    BY <1>3, <2>3
  <2>5. IsFiniteSet(OwnIn(calls, s)) /\ Cardinality(OwnIn(calls, s)) \in Nat
    BY <1>1, RowsFinite
  <2>6. Cardinality(P) <= Cardinality(OwnIn(calls, s)) /\ IsFiniteSet(P)
    BY <2>4, <2>5, FS_Subset
  <2>7. Cardinality(P) \in Nat
    BY <2>6, FS_CardinalityType
  <2>8. Cardinality(OwnIn(calls, s)) <= ses[s].attempts
    BY <1>1 DEF RowsInv, RowsFit
  <2>9. /\ ses[s].attempts \in Nat /\ ses[s].limit \in Nat /\ ses[s].attempts <= ses[s].limit
        /\ ses[s].limit = Budget - used[i]
    BY <1>1, <2>1 DEF SessionsInv, Phases, SessionRecords
  <2> HIDE DEF P
  <2>10. used[i] + Cardinality(P) <= Budget
    BY <1>2, <2>5, <2>6, <2>7, <2>8, <2>9
  <2>11. QED
    BY <2>10 DEF P
<1>7. QED
  BY <1>5, <1>6

\* Rows that belong to the sessions O, at most two of each, are no more than
\* twice the sessions.
LEMMA TwoOfEach ==
  ASSUME NEW O, IsFiniteSet(O), NEW S \in SUBSET Nat, NEW f \in [S -> O],
         \A a, b, c \in S : f[a] = f[b] /\ f[b] = f[c] => a = b \/ b = c \/ a = c
  PROVE  IsFiniteSet(S) /\ Cardinality(S) <= 2 * Cardinality(O)
<1> DEFINE first(a) == \A b \in S : f[b] = f[a] => a <= b
           g == [a \in S |-> <<f[a], IF first(a) THEN 1 ELSE 2>>]
<1>1. g \in [S -> O \X {1, 2}]
  OBVIOUS
<1>2. ASSUME NEW a \in S, NEW b \in S, g[a] = g[b]
      PROVE  a = b
  <2>1. f[a] = f[b] /\ (first(a) <=> first(b))
    BY <1>2
  <2>2. CASE first(a)
    BY <2>1, <2>2
  <2>3. CASE ~ first(a)
    <3>1. PICK m \in S : f[m] = f[a] /\ ~ a <= m
      BY <2>3
    <3>2. PICK n \in S : f[n] = f[b] /\ ~ b <= n
      BY <2>1, <2>3
    <3>3. a \in Nat /\ b \in Nat /\ m \in Nat /\ n \in Nat
      OBVIOUS
    <3>4. a = b \/ b = m \/ a = m
      BY <2>1, <3>1
    <3>5. a = b \/ b = n \/ a = n
      BY <2>1, <3>2
    <3>6. QED
      BY <3>1, <3>2, <3>3, <3>4, <3>5
  <2>4. QED
    BY <2>2, <2>3
<1> HIDE DEF g
<1>3. g \in Injection(S, O \X {1, 2})
  BY <1>1, <1>2 DEF Injection, IsInjective
<1>4. IsFiniteSet({1, 2}) /\ Cardinality({1, 2}) = 2
  <2>1. IsFiniteSet({1}) /\ Cardinality({1}) = 1
    BY FS_Singleton
  <2>2. IsFiniteSet({1} \cup {2}) /\ Cardinality({1} \cup {2}) = 2
    BY <2>1, FS_AddElement
  <2>3. {1} \cup {2} = {1, 2}
    OBVIOUS
  <2>4. QED
    BY <2>2, <2>3
<1>5. IsFiniteSet(O \X {1, 2}) /\ Cardinality(O \X {1, 2}) = Cardinality(O) * 2
  BY <1>4, FS_Product
<1>6. IsFiniteSet(S) /\ Cardinality(S) <= Cardinality(O) * 2
  BY <1>3, <1>5, FS_Injection
<1>7. Cardinality(O) \in Nat
  BY FS_CardinalityType
<1>8. QED
  BY <1>6, <1>7

\* The run of failures consists of the latest failures and of the rows of
\* sessions that are still admitted.
LEMMA StormFollows == AdvisoryInv => AI!StormIsBounded
<1> SUFFICES ASSUME AdvisoryInv PROVE AI!StormIsBounded
  OBVIOUS
<1> DEFINE Inside == Sessions \ Outside
           S == {n \in AI!FailureRun : calls[n].by \in Sessions}
           f == [n \in S |-> calls[n].by]
<1>1. /\ ses \in [Sessions -> SessionRecords] /\ calls \in Seq(CallRows) /\ RowsInv
      /\ DOMAIN calls = 1..Len(calls) /\ Len(calls) \in Nat
      /\ \A n \in DOMAIN calls : calls[n].by \in Sessions \cup {AI!Committed, AI!Gone}
  <2>1. ses \in [Sessions -> SessionRecords] /\ calls \in Seq(CallRows) /\ RowsInv
    BY DEF AdvisoryInv, AITypes
  <2>2. \A n \in DOMAIN calls : calls[n] \in CallRows
    BY <2>1
  <2>3. QED
    BY <2>1, <2>2 DEF CallRows
<1>2. \A n \in AI!FailureRun : /\ n \in DOMAIN calls /\ calls[n].by # AI!Gone
                            /\ \A k \in n..Len(calls) : ~ calls[k].ok
  BY DEF AI!FailureRun
<1>3. AI!FailureRun \subseteq LatestIn(calls) \cup S
  <2> SUFFICES ASSUME NEW n \in AI!FailureRun, n \notin S PROVE n \in LatestIn(calls)
    OBVIOUS
  <2>1. calls[n].by = AI!Committed
    BY <1>1, <1>2
  <2>2. QED
    BY <1>2, <2>1 DEF LatestIn
<1>4. \A n \in S : /\ n \in Nat /\ n \in n..Len(calls) /\ ~ calls[n].ok
                   /\ calls[n].by \in Sessions /\ n \in FailedIn(calls, calls[n].by)
  <2> TAKE n \in S
  <2>1. n \in DOMAIN calls /\ n \in 1..Len(calls) /\ calls[n].by \in Sessions
    BY <1>1, <1>2
  <2>2. n \in Nat /\ n \in n..Len(calls)
    BY <1>1, <2>1
  <2>3. ~ calls[n].ok
    BY <1>2, <2>2
  <2>4. QED
    BY <2>1, <2>2, <2>3 DEF FailedIn, OwnIn
<1>5. S \in SUBSET Nat
  BY <1>4
<1>6. \A n \in S : calls[n].by \in Inside
  <2> SUFFICES ASSUME NEW n \in S PROVE ses[calls[n].by].limit # 0
    BY <1>4 DEF Outside
  <2>1. n \in OwnIn(calls, calls[n].by) /\ calls[n].by \in Sessions
    BY <1>4 DEF FailedIn
  <2>2. QED
    BY <2>1, OutsideHasNoRows
<1>7. f \in [S -> Inside]
  BY <1>6
<1>8. \A a, b, c \in S : f[a] = f[b] /\ f[b] = f[c] => a = b \/ b = c \/ a = c
  <2> SUFFICES ASSUME NEW a \in S, NEW b \in S, NEW c \in S,
                      calls[a].by = calls[b].by, calls[b].by = calls[c].by
               PROVE  a = b \/ b = c \/ a = c
    OBVIOUS
  <2>1. AtMostTwo(FailedIn(calls, calls[a].by))
    BY <1>1, <1>4 DEF RowsInv, RowsFit
  <2>2. {a, b, c} \subseteq FailedIn(calls, calls[a].by)
    BY <1>4
  <2>3. QED
    BY <2>1, <2>2 DEF AtMostTwo
<1>9. /\ IsFiniteSet(Outside) /\ IsFiniteSet(Inside)
      /\ Cardinality(Inside) = Cardinality(Sessions) - Cardinality(Outside)
  <2>1. Outside \subseteq Sessions /\ Sessions \cap Outside = Outside
    BY DEF Outside
  <2>2. IsFiniteSet(Outside)
    BY <2>1, SessionsAssumption, FS_Subset
  <2>3. /\ IsFiniteSet(Sessions \ Outside)
        /\ Cardinality(Sessions \ Outside) = Cardinality(Sessions) - Cardinality(Sessions \cap Outside)
    BY SessionsAssumption, FS_Difference
  <2>4. QED
    BY <2>1, <2>2, <2>3
<1> HIDE DEF f, S, Inside
<1>10. IsFiniteSet(S) /\ Cardinality(S) <= 2 * Cardinality(Inside)
  BY <1>5, <1>7, <1>8, <1>9, TwoOfEach
<1>11. IsFiniteSet(LatestIn(calls)) /\ Cardinality(LatestIn(calls)) \in Nat
  BY <1>1, RowsFinite
<1>12. /\ IsFiniteSet(LatestIn(calls) \cup S) /\ IsFiniteSet(LatestIn(calls) \cap S)
       /\ Cardinality(LatestIn(calls) \cup S) =
            Cardinality(LatestIn(calls)) + Cardinality(S) - Cardinality(LatestIn(calls) \cap S)
  BY <1>10, <1>11, FS_Union, FS_Intersection
<1>13. /\ Cardinality(S) \in Nat /\ Cardinality(LatestIn(calls) \cap S) \in Nat
       /\ Cardinality(LatestIn(calls) \cup S) \in Nat
       /\ Cardinality(Outside) \in Nat /\ Cardinality(Sessions) \in Nat
  BY <1>9, <1>10, <1>12, SessionsAssumption, FS_CardinalityType
<1>14. /\ IsFiniteSet(AI!FailureRun)
       /\ Cardinality(AI!FailureRun) <= Cardinality(LatestIn(calls) \cup S)
  BY <1>3, <1>12, FS_Subset
<1>15. Cardinality(AI!FailureRun) \in Nat
  BY <1>14, FS_CardinalityType
<1>16. Cardinality(LatestIn(calls)) <= (Threshold - 1) + 2 * Cardinality(Outside)
  BY DEF AdvisoryInv, StormInv
<1>17. QED
  BY <1>9, <1>10, <1>11, <1>12, <1>13, <1>14, <1>15, <1>16,
     BudgetAssumption, SameCardinality DEF AI!StormIsBounded

\* What TypeOK says of rows, tasks and sessions is part of the invariant.
LEMMA TypesFollow == AdvisoryInv => AI!TypeOK
<1> SUFFICES ASSUME AdvisoryInv PROVE AI!TypeOK
  OBVIOUS
<1>1. \A i \in Incidents : incidentState[i] \in AI!Terminal \cup {"OPEN"} /\ used[i] \in Nat
  BY DEF AdvisoryInv, AITypes
<1>2. \A i \in Incidents : task[i].retries \in 0..MaxRetries
  BY DEF AdvisoryInv, AITypes, TaskRecords
<1>3. \A s \in Sessions : ses[s].attempts <= ses[s].limit /\ ses[s].best \in 0..HighConfidence
  BY DEF AdvisoryInv, AITypes, SessionsInv, Phases, SessionRecords
<1>4. QED
  BY <1>1, <1>2, <1>3 DEF AI!TypeOK

\* However many sessions diagnose however many incidents, the rows of an
\* incident, with those under way, stay within its budget, and a storm of
\* failures within the threshold and two calls of each session
\* (evaluate_ai_admission, DiagnosisRouter.diagnose).
THEOREM AdvisoryBudgetsHold == AI!Spec => []BudgetsHold
<1>1. AdvisoryInv => BudgetsHold
  BY TypesFollow, BudgetFollows, StormFollows DEF BudgetsHold
<1>2. QED
  BY <1>1, AdvisoryInit, AdvisoryNext, PTL DEF AI!Spec

\* A proposal names a diagnosis of its incident that is on record and available,
\* and a task that is done left one (evaluate_ai_action_candidate,
\* diagnose_incident_job).
THEOREM AdvisoryDiagnosesAreGrounded == AI!Spec => []DiagnosesAreGrounded
<1>1. AdvisoryInv => DiagnosesAreGrounded
  BY DEF AdvisoryInv, GroundInv, DoneInv, IsAvailable, DiagnosesAreGrounded,
     AI!ProposalsAreGrounded,
         AI!DoneIsDiagnosed
<1>2. QED
  BY <1>1, AdvisoryInit, AdvisoryNext, PTL DEF AI!Spec
\* Only a session that stores adds a record.
LEMMA OnlyStoreRecords ==
  ASSUME AI!Next, diagnoses' # diagnoses
  PROVE  \E s \in Sessions : AI!Store(s)
<1>1. ASSUME NEW i \in Incidents
      PROVE  ~ (AI!Queue(i) \/ AI!PostTimeout(i) \/ AI!Want(i) \/ AI!Move(i))
  BY DEF AI!Queue, AI!PostTimeout, AI!Want, AI!Move
<1>2. ASSUME NEW s \in Sessions, NEW i \in Incidents
      PROVE  ~ (AI!StartJob(s, i) \/ AI!StartRequest(s, i) \/ AI!StartGate(s, i))
  BY DEF AI!StartJob, AI!StartRequest, AI!StartGate
<1>3. ASSUME NEW s \in Sessions
      PROVE  ~ (AI!Admit(s) \/ AI!Attempt(s) \/ AI!Gate(s) \/ AI!Crash(s))
  BY DEF AI!Admit, AI!Attempt, AI!Gate, AI!Crash
<1>4. ~ AI!Expire
  BY DEF AI!Expire
<1>5. QED
  BY <1>1, <1>2, <1>3, <1>4 DEF AI!Next

\* A record says whether a call of its session was answered.
LEMMA StoreKeepsAnswers ==
  ASSUME AdvisoryInv, NEW s \in Sessions, AI!Store(s)
  PROVE  (diagnoses'[ses[s].inc][Len(diagnoses'[ses[s].inc])] = "AVAILABLE")
           <=> (\E n \in DOMAIN calls : calls[n].by = s /\ calls[n].ok)
<1> DEFINE v == IF ses[s].best > 0 THEN "AVAILABLE" ELSE "AI_UNAVAILABLE"
<1>1. diagnoses \in [Incidents -> Seq(Statuses)]
  BY DEF AdvisoryInv, AITypes
<1>2. ses[s].inc \in Incidents /\ v \in Statuses
  BY DEF AdvisoryInv, AI!Store, SessionsInv, Phases, Statuses
<1>3. PICK a \in Incidents, w \in Statuses : a = ses[s].inc /\ w = v
  BY <1>2
<1>4. diagnoses' = [diagnoses EXCEPT ![a] = Append(@, w)]
  BY <1>3 DEF AI!Store, AI!Recorded
<1>5. AddsRecord(diagnoses, diagnoses', a, w)
  BY <1>1, <1>4 DEF AddsRecord
<1>6. diagnoses'[a][Len(diagnoses'[a])] = w
  BY <1>1, <1>5, RecordedKeeps
<1>7. w = "AVAILABLE" <=> ses[s].best > 0
  BY <1>3
<1>8. ses[s].best > 0 <=> \E n \in OwnIn(calls, s) : calls[n].ok
  BY DEF AdvisoryInv, RowsInv, RowsFit
<1>9. (\E n \in OwnIn(calls, s) : calls[n].ok)
        <=> (\E n \in DOMAIN calls : calls[n].by = s /\ calls[n].ok)
  BY DEF OwnIn
<1>10. QED
  BY <1>3, <1>6, <1>7, <1>8, <1>9

\* The record that a session stores is AVAILABLE exactly if a model answered one
\* of its calls, whatever failed before or after (DiagnosisRouter.diagnose,
\* _persist_outcome).
THEOREM AdvisoryAnswersAreKept == AI!Spec => AnswersAreKept
<1>1. ASSUME AdvisoryInv, [AI!Next]_(AI!vars)
      PROVE  [\A s \in Sessions : AI!AnswerIsKept(s)]_(AI!vars)
  <2> SUFFICES ASSUME AI!Next, NEW s \in Sessions, ses[s].step = "store",
  ses'[s].step = "idle",
                      diagnoses' # diagnoses
               PROVE  (diagnoses'[ses[s].inc][Len(diagnoses'[ses[s].inc])] = "AVAILABLE")
                        <=> (\E n \in DOMAIN calls : calls[n].by = s /\ calls[n].ok)
    BY <1>1 DEF AI!AnswerIsKept
  <2>1. PICK t \in Sessions : AI!Store(t)
    BY OnlyStoreRecords
  <2>2. ses' = [ses EXCEPT ![t] = AI!Idle] /\ ses \in [Sessions -> SessionRecords]
    BY <1>1, <2>1 DEF AI!Store, AdvisoryInv, AITypes
  <2>3. t = s
    BY <2>2, IdleFacts
  <2>4. QED
    BY <1>1, <2>1, <2>3, StoreKeepsAnswers
<1>2. QED
  BY <1>1, AdvisoryInit, AdvisoryNext, PTL DEF AI!Spec, AnswersAreKept
=============================================================================
