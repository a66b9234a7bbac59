--------------------- MODULE UnhealthyPodPipelineProofs ---------------------
(***************************************************************************)
(* Proofs about UnhealthyPodPipeline for any number of runs, pods,         *)
(* replicas and operator requests.                                         *)
(*                                                                         *)
(* The safety invariants are not inductive as they stand: whether a        *)
(* deletion is authorised or on record depends on where the run is, on     *)
(* what its session holds and has not committed, and on the attempts it    *)
(* has behind it.  RunInv says all of that for one run; IndInv adds the    *)
(* types.                                                                  *)
(***************************************************************************)
EXTENDS UnhealthyPodPipeline, TLAPS

DeletedIn(r, k) == \E p \in Pods : <<k, p>> \in deleted[r]

\* A pod the run is about to delete carries a committed ALLOW, and a session
\* never forgets a committed decision.
AuthorizedInv(r) ==
  /\ db[r].policy \subseteq ses[r].policy
  /\ pc[r] \in {"attempt", "acting", "deleting"} /\ target[r] \in Pods
       => <<target[r], "ALLOW">> \in db[r].policy
  /\ \A k \in Attempts, p \in Pods :
       <<k, p>> \in deleted[r] => <<p, "ALLOW">> \in db[r].policy

\* Attempts behind the current one are settled, those ahead are untouched.
OtherAttemptsInv(r) ==
  /\ \A k \in Attempts : k > attempt[r] =>
       db[r].exec[k] = "none" /\ ses[r].exec[k] = "none" /\ ~DeletedIn(r, k)
  /\ \A k \in Attempts : k < attempt[r] =>
       /\ ses[r].exec[k] = db[r].exec[k]
       /\ DeletedIn(r, k) <=> db[r].exec[k] = "SUCCEEDED"

\* The current attempt: nothing before the deletion, a deletion that only
\* the session knows of after it, agreement once VERIFYING is committed.
CurrentAttemptInv(r) ==
  LET k == attempt[r] IN
  /\ pc[r] \in {"idle", "created", "collecting", "evidenced", "policy",
                "attempt", "acting", "deleting"}
       => db[r].exec[k] = "none" /\ ~DeletedIn(r, k)
  /\ pc[r] = "deleted" => db[r].exec[k] = "none"
  /\ pc[r] \in {"idle", "created", "collecting", "evidenced", "policy",
                "attempt"}
       => ses[r].exec[k] = "none"
  /\ pc[r] \in {"verifying", "recollect", "repolicy"} =>
       /\ ses[r].exec[k] = db[r].exec[k]
       /\ DeletedIn(r, k) <=> db[r].exec[k] = "SUCCEEDED"
  /\ pc[r] = "deleted" => DeletedIn(r, k)
  /\ db[r].exec[k] = "SUCCEEDED" => DeletedIn(r, k)

\* While nobody else writes the incident its state follows the run, so an
\* error after an unrecorded deletion finds a state it escalates.
EscalationInv(r) ==
  /\ pc[r] \in {"recollect", "repolicy"} => ses[r].state = "EXECUTING"
  /\ ~forced[r] =>
       /\ pc[r] \in {"attempt", "acting", "deleting", "deleted"}
            => db[r].state = "EXECUTING"
       /\ pc[r] = "refreshed" => ses[r].state = db[r].state
       /\ pc[r] = "refreshed" /\ DeletedIn(r, attempt[r])
              /\ db[r].exec[attempt[r]] # "SUCCEEDED"
            => db[r].state = "EXECUTING"
       /\ pc[r] = "done" /\ DeletedIn(r, attempt[r])
              /\ db[r].exec[attempt[r]] # "SUCCEEDED"
            => db[r].state = "ESCALATED"

SingleInv(r) ==
  \A k \in Attempts, p, q \in Pods :
    <<k, p>> \in deleted[r] /\ <<k, q>> \in deleted[r] => p = q

RunInv(r) ==
  /\ pc[r] = "idle" =>
       deleted[r] = {} /\ \A k \in Attempts : db[r].exec[k] = "none"
  /\ AuthorizedInv(r)
  /\ OtherAttemptsInv(r)
  /\ CurrentAttemptInv(r)
  /\ EscalationInv(r)
  /\ SingleInv(r)

\* OPA is asked about a pod, and only when an attempt is left to use it.
WaitInv(r) ==
  /\ pc[r] \in {"policy", "repolicy"} => target[r] \in Pods
  /\ pc[r] \in {"recollect", "repolicy"} => attempt[r] < MaxAttempts

TypeInv == TypeOK /\ \A r \in Runs : WaitInv(r)

IndInv == TypeInv /\ \A r \in Runs : RunInv(r)

-----------------------------------------------------------------------------
(* Types.                                                                  *)

USE MaxAttemptsAssumption, NoPodAssumption, OpTargetsAssumption DEF Attempts

LEMMA RowsFields ==
  ASSUME NEW row \in Rows
  PROVE  /\ row.state \in IncidentState \cup {"none"}
         /\ row.retry \in 0..MaxAttempts
         /\ row.proposal \in RecordStatus
         /\ row.exec \in [Attempts -> RecordStatus]
         /\ row.policy \in SUBSET (Pods \X Verdict)
  BY DEF Rows

LEMMA NoRowsType == NoRows \in Rows
  BY DEF NoRows, Rows, RecordStatus

\* A stored decision about a pod leaves a row a row, whatever else changes.
LEMMA RowWithDecision ==
  ASSUME NEW row \in Rows, NEW p \in Pods, NEW v \in Verdict,
         NEW st \in IncidentState, NEW status \in RecordStatus
  PROVE  /\ [row EXCEPT !.policy = @ \cup {<<p, v>>}] \in Rows
         /\ [row EXCEPT !.state = st, !.proposal = status,
                        !.policy = @ \cup {<<p, v>>}] \in Rows
<1>1. <<p, v>> \in Pods \X Verdict
  OBVIOUS
<1>2. row.policy \cup {<<p, v>>} \in SUBSET (Pods \X Verdict)
  BY <1>1, RowsFields
<1> QED
  BY <1>2 DEF Rows

\* So does any state of the machine.
LEMMA RowWithState ==
  ASSUME NEW row \in Rows, NEW st \in IncidentState
  PROVE  [row EXCEPT !.state = st] \in Rows
  BY DEF Rows

\* So does the RUNNING row of an attempt.
LEMMA RowWithAttempt ==
  ASSUME NEW row \in Rows, NEW k \in Attempts
  PROVE  [row EXCEPT !.retry = k, !.exec[k] = "RUNNING"] \in Rows
<1>1. k \in 0..MaxAttempts
  OBVIOUS
<1>2. "RUNNING" \in RecordStatus
  BY DEF RecordStatus
<1> QED
  BY <1>1, <1>2 DEF Rows

\* Init puts every variable in its type.
LEMMA InitTypeInv == Init => TypeInv
<1> SUFFICES ASSUME Init PROVE TypeInv
  OBVIOUS
<1>1. pod \in [Pods -> PodState]
  BY DEF Init, PodState
<1>2. req \in [Requests -> Request]
  BY DEF Init, Request, IncidentState
<1> QED
  BY <1>1, <1>2, NoRowsType DEF Init, TypeInv, WaitInv, TypeOK, PC

\* Every step of a run keeps the types.
LEMMA StepTypeInv ==
  ASSUME TypeInv, NEW r \in Runs, Step(r)
  PROVE  TypeInv'
<1>0. ses[r] \in Rows /\ db[r] \in Rows /\ attempt[r] \in Attempts
  BY DEF TypeInv, TypeOK
<1> USE DEF TypeInv, WaitInv, TypeOK, PC, Goto, Flush, Commit, history
<1>1. CASE Create(r)
  <2>1. [NoRows EXCEPT !.state = "DETECTED"] \in Rows
    BY NoRowsType DEF Rows, IncidentState
  <2> QED
    BY <1>1, <2>1 DEF Create
<1>2. CASE BeginEvidence(r)
  <2>1. [ses[r] EXCEPT !.state = "COLLECTING_EVIDENCE"] \in Rows
    BY <1>0, <1>2 DEF BeginEvidence, Rows, IncidentState
  <2> QED
    BY <1>2, <2>1 DEF BeginEvidence
<1>3. CASE CollectEvidence(r)
  BY <1>0, <1>3 DEF CollectEvidence, Unready
<1>4. CASE Propose(r)
  <2>1. [ses[r] EXCEPT !.state = "POLICY_EVALUATION",
                             !.proposal = "PENDING"] \in Rows
    BY <1>0, <1>4 DEF Propose, Rows, IncidentState, RecordStatus
  <2> QED
    BY <1>4, <2>1 DEF Propose
<1>5. CASE EvaluatePolicy(r)
  <2>1. target[r] \in Pods
    BY <1>5 DEF EvaluatePolicy, TypeInv, WaitInv
  <2>2. PICK v \in Verdict :
          /\ judged' = [judged EXCEPT ![r] = @ \cup {<<target[r], v>>}]
          /\ Commit(r, [ses[r] EXCEPT !.state = StateAfter[v],
                                      !.proposal = ProposalAfter[v],
                                      !.policy = @ \cup {<<target[r], v>>}])
          /\ Goto(r, IF v = "ALLOW" THEN "attempt" ELSE "done")
    BY <1>5 DEF EvaluatePolicy
  <2>3. StateAfter[v] \in IncidentState /\ ProposalAfter[v] \in RecordStatus
    BY DEF StateAfter, ProposalAfter, Verdict, IncidentState, RecordStatus
  <2>4. [ses[r] EXCEPT !.state = StateAfter[v], !.proposal = ProposalAfter[v],
                       !.policy = @ \cup {<<target[r], v>>}] \in Rows
    BY <1>0, <2>1, <2>3, RowWithDecision
  <2> QED
    BY <1>5, <2>1, <2>2, <2>4 DEF EvaluatePolicy
<1>6. CASE BeginAttempt(r)
  <2>1. [ses[r] EXCEPT !.retry = attempt[r],
                             !.exec[attempt[r]] = "RUNNING"] \in Rows
    BY <1>0, RowWithAttempt
  <2> QED
    BY <1>6, <2>1 DEF BeginAttempt
<1>7. CASE SkipAction(r)
  <2>1. [ses[r] EXCEPT !.exec[attempt[r]] = "FAILED",
                             !.state = "VERIFYING"] \in Rows
    BY <1>0, <1>7 DEF SkipAction, Rows, IncidentState, RecordStatus
  <2> QED
    BY <1>7, <2>1 DEF SkipAction
<1>8. CASE CheckPod(r)
  BY <1>0, <1>8 DEF CheckPod
<1>9. CASE DeletePod(r)
  BY <1>0, <1>9 DEF DeletePod, Live, Unready, Ready, PodState
<1>10. CASE RecordDeletion(r)
  <2>1. [ses[r] EXCEPT !.exec[attempt[r]] = "SUCCEEDED",
                             !.state = "VERIFYING"] \in Rows
    BY <1>0, <1>10 DEF RecordDeletion, Rows, IncidentState, RecordStatus
  <2> QED
    BY <1>10, <2>1 DEF RecordDeletion
<1>11. CASE VerifySucceeds(r)
  <2>1. [ses[r] EXCEPT !.proposal = "SUCCEEDED",
                             !.state = "RESOLVED"] \in Rows
    BY <1>0, <1>11 DEF VerifySucceeds, Rows, IncidentState, RecordStatus
  <2> QED
    BY <1>11, <2>1 DEF VerifySucceeds
<1>12. CASE VerifyFailsRetry(r)
  <2>1. [ses[r] EXCEPT !.state = "EXECUTING"] \in Rows
    BY <1>0, <1>12 DEF VerifyFailsRetry, Rows, IncidentState
  <2> QED
    BY <1>12, <2>1 DEF VerifyFailsRetry
<1>13. CASE VerifyFailsLast(r)
  <2>1. [ses[r] EXCEPT !.proposal = "FAILED",
                             !.state = "ESCALATED"] \in Rows
    BY <1>0, <1>13 DEF VerifyFailsLast, Rows, IncidentState, RecordStatus
  <2> QED
    BY <1>13, <2>1 DEF VerifyFailsLast
<1>14. CASE Recollect(r)
  BY <1>0, <1>14 DEF Recollect, Unready
<1>15. CASE RetryAllowed(r)
  <2>0. target[r] \in Pods
    BY <1>15 DEF RetryAllowed
  <2>1. [ses[r] EXCEPT !.policy = @ \cup {<<target[r], "ALLOW">>}] \in Rows
    BY <1>0, <2>0, RowWithDecision DEF Verdict, IncidentState, RecordStatus
  <2> QED
    BY <1>15, <2>0, <2>1 DEF RetryAllowed, Verdict
<1>16. CASE RetryDenied(r)
  BY <1>0, <1>16 DEF RetryDenied, Verdict
<1>17. CASE RaiseError(r)
  BY <1>0, <1>17 DEF RaiseError
<1>18. CASE Escalate(r)
  <2>0. [db[r] EXCEPT !.state = "ESCALATED"] \in Rows
    BY <1>0 DEF Rows, IncidentState
  <2>1. [ses[r] EXCEPT !.state = "ESCALATED"] \in Rows
    BY <1>0, <1>18 DEF Escalate, Rows, IncidentState
  <2> QED
    BY <1>18, <2>0, <2>1 DEF Escalate
<1> QED
  BY <1>1, <1>2, <1>3, <1>4, <1>5, <1>6, <1>7, <1>8, <1>9, <1>10, <1>11, <1>12, <1>13, <1>14, <1>15, <1>16, <1>17, <1>18 DEF Step

\* The environment keeps the types.
LEMMA EnvironmentTypeInv ==
  ASSUME TypeInv, Environment
  PROVE  TypeInv'
<1> USE DEF TypeInv, WaitInv, TypeOK, PC, history
<1>1. CASE \E r \in Runs : Crash(r)
  BY <1>1 DEF Crash, Goto
<1>2. CASE \E q \in Requests : OperatorRead(q)
  <2> PICK q \in Requests : OperatorRead(q)
    BY <1>2
  <2>1. req[q] \in Request /\ db[req[q].inc].state \in IncidentState
    BY DEF OperatorRead, Request, Rows
  <2>2. [req[q] EXCEPT !.step = "read", !.at = db[req[q].inc].state] \in Request
    BY <2>1 DEF Request
  <2>3. req' \in [Requests -> Request]
    BY <2>2 DEF OperatorRead
  <2> QED
    BY <2>3 DEF OperatorRead
<1>3. CASE \E q \in Requests : OperatorWrite(q)
  <2> PICK q \in Requests : OperatorWrite(q)
    BY <1>3
  <2> DEFINE i == req[q].inc
             row == [db[i] EXCEPT !.state = req[q].to]
  <2>1. req[q] \in Request /\ i \in Runs /\ req[q].to \in IncidentState
    BY DEF Request
  <2>2. [req[q] EXCEPT !.step = "done"] \in Request
    BY <2>1 DEF Request
  <2>3. row \in Rows
    BY <2>1, RowWithState
  <2>4. req' \in [Requests -> Request]
    BY <2>2 DEF OperatorWrite
  <2>5. \/ db' = db /\ forced' = forced
        \/ /\ db' = [db EXCEPT ![i] = row]
           /\ forced' = [forced EXCEPT ![i] = TRUE]
    BY <2>1 DEF OperatorWrite
  <2> HIDE DEF i, row
  <2>6. db' \in [Runs -> Rows]
    BY <2>1, <2>3, <2>5
  <2>7. forced' \in [Runs -> BOOLEAN]
    BY <2>1, <2>5
  <2> QED
    BY <2>4, <2>6, <2>7 DEF OperatorWrite
<1>4. CASE \E p \in Pods : PodFails(p) \/ PodRecovers(p) \/ ReplacePod(p)
  BY <1>4 DEF PodFails, PodRecovers, ReplacePod, PodState
<1> QED
  BY <1>1, <1>2, <1>3, <1>4 DEF Environment

\* TypeOK holds in every behaviour of the pipeline: no attempt is started
\* beyond max_remediation_attempts, whatever fails and whoever interferes.
THEOREM TypeCorrect == Spec => []TypeOK
<1>1. TypeInv /\ [Next]_vars => TypeInv'
  <2> SUFFICES ASSUME TypeInv, [Next]_vars PROVE TypeInv'
    OBVIOUS
  <2>1. CASE UNCHANGED vars
    BY <2>1 DEF vars, history, TypeInv, WaitInv, TypeOK
  <2> QED
    BY <2>1, StepTypeInv, EnvironmentTypeInv DEF Next
<1>2. TypeInv => TypeOK
  BY DEF TypeInv
<1> QED
  BY InitTypeInv, <1>1, <1>2, PTL DEF Spec

-----------------------------------------------------------------------------
(* The inductive invariant.                                                *)

\* A run nothing of which changed keeps its invariant.
LEMMA RunFrame ==
  ASSUME NEW s \in Runs, RunInv(s),
         UNCHANGED <<pc[s], db[s], ses[s], attempt[s], target[s], deleted[s],
                     forced[s]>>
  PROVE  RunInv(s)'
  BY DEF RunInv, AuthorizedInv, OtherAttemptsInv, CurrentAttemptInv,
         EscalationInv, SingleInv, DeletedIn

\* Init establishes the invariant of every run.
LEMMA InitRunInv ==
  ASSUME Init, NEW r \in Runs
  PROVE  RunInv(r)
<1>1. /\ pc[r] = "idle" /\ db[r] = NoRows /\ ses[r] = NoRows
      /\ attempt[r] = 1 /\ deleted[r] = {}
  BY DEF Init
<1> QED
  BY <1>1 DEF RunInv, AuthorizedInv, OtherAttemptsInv, CurrentAttemptInv,
              EscalationInv, SingleInv, DeletedIn, NoRows

\* Attempts other than the current one keep agreeing when the session and
\* the database exchange what they hold of them and nothing is deleted there.
LEMMA OtherAttemptsKept ==
  ASSUME NEW r \in Runs, OtherAttemptsInv(r), attempt'[r] = attempt[r],
         attempt[r] \in Attempts,
         \A k \in Attempts : k # attempt[r] =>
           /\ db'[r].exec[k] \in {db[r].exec[k], ses[r].exec[k]}
           /\ ses'[r].exec[k] \in {db[r].exec[k], ses[r].exec[k]}
           /\ DeletedIn(r, k)' <=> DeletedIn(r, k)
  PROVE  OtherAttemptsInv(r)'
<1>1. ASSUME NEW k \in Attempts, k > attempt[r]
      PROVE  /\ db'[r].exec[k] = "none" /\ ses'[r].exec[k] = "none"
             /\ ~DeletedIn(r, k)'
  BY <1>1 DEF OtherAttemptsInv
<1>2. ASSUME NEW k \in Attempts, k < attempt[r]
      PROVE  /\ ses'[r].exec[k] = db'[r].exec[k]
             /\ DeletedIn(r, k)' <=> db'[r].exec[k] = "SUCCEEDED"
  BY <1>2 DEF OtherAttemptsInv
<1> QED
  BY <1>1, <1>2 DEF OtherAttemptsInv

\* Turning the loop: the settled attempt joins those behind, the next one is
\* untouched.
LEMMA NextAttempt ==
  ASSUME NEW r \in Runs, OtherAttemptsInv(r), CurrentAttemptInv(r),
         attempt[r] \in Attempts, attempt[r] + 1 \in Attempts,
         pc[r] \in {"recollect", "repolicy"}, pc'[r] = "attempt",
         attempt'[r] = attempt[r] + 1, deleted'[r] = deleted[r],
         db'[r].exec = ses[r].exec, ses'[r].exec = ses[r].exec
  PROVE  OtherAttemptsInv(r)' /\ CurrentAttemptInv(r)'
<1>1. \A k \in Attempts : DeletedIn(r, k)' <=> DeletedIn(r, k)
  BY DEF DeletedIn
<1>2. ASSUME NEW k \in Attempts, k > attempt'[r]
      PROVE  /\ db'[r].exec[k] = "none" /\ ses'[r].exec[k] = "none"
             /\ ~DeletedIn(r, k)'
  BY <1>1, <1>2 DEF OtherAttemptsInv
<1>3. ASSUME NEW k \in Attempts, k < attempt'[r]
      PROVE  /\ ses'[r].exec[k] = db'[r].exec[k]
             /\ DeletedIn(r, k)' <=> db'[r].exec[k] = "SUCCEEDED"
  <2>1. k = attempt[r] \/ k < attempt[r]
    BY <1>3
  <2>2. ses[r].exec[k] = db[r].exec[k]
    BY <2>1 DEF OtherAttemptsInv, CurrentAttemptInv
  <2>3. DeletedIn(r, k) <=> db[r].exec[k] = "SUCCEEDED"
    BY <2>1 DEF OtherAttemptsInv, CurrentAttemptInv
  <2> QED
    BY <1>1, <2>2, <2>3
<1>4. OtherAttemptsInv(r)'
  BY <1>2, <1>3 DEF OtherAttemptsInv
<1>5. LET k == attempt[r] + 1
      IN  ses[r].exec[k] = "none" /\ db[r].exec[k] = "none" /\ ~DeletedIn(r, k)
  BY DEF OtherAttemptsInv
<1>6. CurrentAttemptInv(r)'
  BY <1>1, <1>5 DEF CurrentAttemptInv
<1> QED
  BY <1>4, <1>6

\* Every step of a run keeps the invariant of that run.
LEMMA StepRunInv ==
  ASSUME TypeInv, NEW r \in Runs, RunInv(r), Step(r)
  PROVE  RunInv(r)'
<1> DEFINE k0 == attempt[r]
<1>0. /\ ses[r] \in Rows /\ db[r] \in Rows /\ k0 \in Attempts
      /\ pc \in [Runs -> PC] /\ db \in [Runs -> Rows] /\ ses \in [Runs -> Rows]
      /\ attempt \in [Runs -> Attempts] /\ target \in [Runs -> Pods \cup {NoPod}]
      /\ deleted \in [Runs -> SUBSET (Attempts \X Pods)]
      /\ forced \in [Runs -> BOOLEAN]
  BY DEF TypeInv, TypeOK
<1> USE DEF Goto, Flush, Commit, history
<1>1. CASE Create(r)
  <2>1. /\ pc[r] = "idle"
        /\ pc'[r] = "created"
        /\ db'[r].state = "DETECTED"
        /\ db'[r].exec = [k \in Attempts |-> "none"]
        /\ db'[r].policy = {}
        /\ ses'[r].state = "DETECTED"
        /\ ses'[r].exec = [k \in Attempts |-> "none"]
        /\ ses'[r].policy = {}
        /\ attempt'[r] = attempt[r]
        /\ target'[r] = target[r]
        /\ deleted'[r] = deleted[r]
        /\ forced'[r] <=> forced[r]
    BY <1>0, <1>1 DEF Create, Rows, NoRows
  <2>2. AuthorizedInv(r)'
    BY <1>0, <2>1, RowsFields DEF RunInv, AuthorizedInv
  <2>3. OtherAttemptsInv(r)'
    <3>1. \A k \in Attempts : k # k0 => (DeletedIn(r, k)' <=> DeletedIn(r, k))
      BY <1>0, <2>1 DEF DeletedIn
    <3>2. \A k \in Attempts : k # k0 =>
            /\ db'[r].exec[k] \in {db[r].exec[k], ses[r].exec[k]}
            /\ ses'[r].exec[k] \in {db[r].exec[k], ses[r].exec[k]}
      BY <1>0, <2>1 DEF RunInv, NoRows
    <3> QED
      BY <1>0, <2>1, <3>1, <3>2, OtherAttemptsKept DEF RunInv
  <2>4. CurrentAttemptInv(r)'
    BY <1>0, <2>1, RowsFields DEF RunInv, CurrentAttemptInv, DeletedIn
  <2>5. EscalationInv(r)'
    BY <1>0, <2>1, RowsFields DEF RunInv, EscalationInv, CurrentAttemptInv, DeletedIn
  <2>6. SingleInv(r)'
    BY <1>0, <2>1, RowsFields DEF RunInv, SingleInv, CurrentAttemptInv, DeletedIn
  <2> QED
    BY <2>1, <2>2, <2>3, <2>4, <2>5, <2>6 DEF RunInv
<1>2. CASE BeginEvidence(r)
  <2>1. /\ pc[r] = "created"
        /\ pc'[r] = "collecting"
        /\ db'[r] = db[r]
        /\ ses'[r].state = "COLLECTING_EVIDENCE"
        /\ ses'[r].exec = ses[r].exec
        /\ ses'[r].policy = ses[r].policy
        /\ attempt'[r] = attempt[r]
        /\ target'[r] = target[r]
        /\ deleted'[r] = deleted[r]
        /\ forced'[r] <=> forced[r]
    BY <1>0, <1>2 DEF BeginEvidence, Rows
  <2>2. OtherAttemptsInv(r)'
    BY <1>0, <2>1, RowsFields, OtherAttemptsKept DEF RunInv, DeletedIn
  <2> QED
    BY <1>0, <2>1, <2>2 DEF RunInv, AuthorizedInv, CurrentAttemptInv,
       EscalationInv, SingleInv, DeletedIn
<1>3. CASE CollectEvidence(r)
  <2>1. /\ pc[r] = "collecting"
        /\ pc'[r] = "evidenced"
        /\ db'[r].state = ses[r].state
        /\ db'[r].exec = ses[r].exec
        /\ db'[r].policy = ses[r].policy
        /\ ses'[r].state = ses[r].state
        /\ ses'[r].exec = ses[r].exec
        /\ ses'[r].policy = ses[r].policy
        /\ attempt'[r] = attempt[r]
        /\ target'[r] = target[r]
        /\ deleted'[r] = deleted[r]
        /\ forced'[r] <=> forced[r]
    BY <1>0, <1>3 DEF CollectEvidence, Rows
  <2>2. OtherAttemptsInv(r)'
    BY <1>0, <2>1, RowsFields, OtherAttemptsKept DEF RunInv, DeletedIn
  <2> QED
    BY <1>0, <2>1, <2>2 DEF RunInv, AuthorizedInv, CurrentAttemptInv,
       EscalationInv, SingleInv, DeletedIn
<1>4. CASE Propose(r)
  <2>1. /\ pc[r] = "evidenced"
        /\ pc'[r] = "policy"
        /\ db'[r] = db[r]
        /\ ses'[r].state = "POLICY_EVALUATION"
        /\ ses'[r].exec = ses[r].exec
        /\ ses'[r].policy = ses[r].policy
        /\ attempt'[r] = attempt[r]
        /\ deleted'[r] = deleted[r]
        /\ forced'[r] <=> forced[r]
    BY <1>0, <1>4 DEF Propose, Rows
  <2>2. OtherAttemptsInv(r)'
    BY <1>0, <2>1, RowsFields, OtherAttemptsKept DEF RunInv, DeletedIn
  <2> QED
    BY <1>0, <2>1, <2>2 DEF RunInv, AuthorizedInv, CurrentAttemptInv,
       EscalationInv, SingleInv, DeletedIn
<1>5. CASE EvaluatePolicy(r)
  <2> PICK v \in Verdict :
        /\ Commit(r, [ses[r] EXCEPT !.state = StateAfter[v],
                                    !.proposal = ProposalAfter[v],
                                    !.policy = @ \cup {<<target[r], v>>}])
        /\ Goto(r, IF v = "ALLOW" THEN "attempt" ELSE "done")
    BY <1>5 DEF EvaluatePolicy
  <2>0. v = "ALLOW" => StateAfter[v] = "EXECUTING"
    BY DEF StateAfter
  <2>1. /\ pc[r] = "policy"
        /\ pc'[r] = IF v = "ALLOW" THEN "attempt" ELSE "done"
        /\ db'[r].state = StateAfter[v]
        /\ db'[r].exec = ses[r].exec
        /\ db'[r].policy = ses[r].policy \cup {<<target[r], v>>}
        /\ ses'[r] = db'[r]
        /\ attempt'[r] = attempt[r]
        /\ target'[r] = target[r]
        /\ deleted'[r] = deleted[r]
        /\ forced'[r] <=> forced[r]
    BY <1>0, <1>5 DEF EvaluatePolicy, Rows
  <2>2. AuthorizedInv(r)'
    BY <1>0, <2>1 DEF RunInv, AuthorizedInv
  <2>3. OtherAttemptsInv(r)'
    <3>1. \A k \in Attempts : DeletedIn(r, k)' <=> DeletedIn(r, k)
      BY <2>1 DEF DeletedIn
    <3> QED
      BY <1>0, <2>1, <3>1, OtherAttemptsKept DEF RunInv
  <2>4. CurrentAttemptInv(r)'
    BY <1>0, <2>1 DEF RunInv, CurrentAttemptInv, DeletedIn
  <2>5. EscalationInv(r)'
    BY <1>0, <2>0, <2>1 DEF RunInv, EscalationInv, CurrentAttemptInv, DeletedIn
  <2>6. SingleInv(r)'
    BY <1>0, <2>1 DEF RunInv, SingleInv
  <2> QED
    BY <2>1, <2>2, <2>3, <2>4, <2>5, <2>6 DEF RunInv
<1>6. CASE BeginAttempt(r)
  <2>1. /\ pc[r] = "attempt"
        /\ pc'[r] = "acting"
        /\ db'[r] = db[r]
        /\ ses'[r].state = ses[r].state
        /\ ses'[r].exec = [ses[r].exec EXCEPT ![k0] = "RUNNING"]
        /\ ses'[r].policy = ses[r].policy
        /\ attempt'[r] = attempt[r]
        /\ target'[r] = target[r]
        /\ deleted'[r] = deleted[r]
        /\ forced'[r] <=> forced[r]
    BY <1>0, <1>6 DEF BeginAttempt, Rows
  <2>2. OtherAttemptsInv(r)'
    BY <1>0, <2>1, RowsFields, OtherAttemptsKept DEF RunInv, DeletedIn
  <2> QED
    BY <1>0, <2>1, <2>2 DEF RunInv, AuthorizedInv, CurrentAttemptInv,
       EscalationInv, SingleInv, DeletedIn
<1>7. CASE SkipAction(r)
  <2>1. /\ pc[r] = "acting"
        /\ pc'[r] = "verifying"
        /\ db'[r].state = "VERIFYING"
        /\ db'[r].exec = [ses[r].exec EXCEPT ![k0] = "FAILED"]
        /\ db'[r].policy = ses[r].policy
        /\ ses'[r].state = "VERIFYING"
        /\ ses'[r].exec = [ses[r].exec EXCEPT ![k0] = "FAILED"]
        /\ ses'[r].policy = ses[r].policy
        /\ attempt'[r] = attempt[r]
        /\ target'[r] = target[r]
        /\ deleted'[r] = deleted[r]
        /\ forced'[r] <=> forced[r]
        /\ target[r] = NoPod
    BY <1>0, <1>7 DEF SkipAction, Rows
  <2>2. AuthorizedInv(r)'
    BY <1>0, <2>1, RowsFields DEF RunInv, AuthorizedInv
  <2>3. OtherAttemptsInv(r)'
    <3>1. \A k \in Attempts : k # k0 => (DeletedIn(r, k)' <=> DeletedIn(r, k))
      BY <1>0, <2>1 DEF DeletedIn
    <3>2. \A k \in Attempts : k # k0 =>
            /\ db'[r].exec[k] \in {db[r].exec[k], ses[r].exec[k]}
            /\ ses'[r].exec[k] \in {db[r].exec[k], ses[r].exec[k]}
      BY <1>0, <2>1, RowsFields
    <3> QED
      BY <1>0, <2>1, <3>1, <3>2, OtherAttemptsKept DEF RunInv
  <2>4. CurrentAttemptInv(r)'
    BY <1>0, <2>1, RowsFields DEF RunInv, CurrentAttemptInv, DeletedIn
  <2>5. EscalationInv(r)'
    BY <1>0, <2>1, RowsFields DEF RunInv, EscalationInv, CurrentAttemptInv, DeletedIn
  <2>6. SingleInv(r)'
    BY <1>0, <2>1, RowsFields DEF RunInv, SingleInv, CurrentAttemptInv, DeletedIn
  <2> QED
    BY <2>1, <2>2, <2>3, <2>4, <2>5, <2>6 DEF RunInv
<1>8. CASE CheckPod(r)
  <2>1. /\ pc[r] = "acting"
        /\ pc'[r] = "deleting"
        /\ db'[r] = db[r]
        /\ ses'[r] = ses[r]
        /\ attempt'[r] = attempt[r]
        /\ target'[r] = target[r]
        /\ deleted'[r] = deleted[r]
        /\ forced'[r] <=> forced[r]
    BY <1>0, <1>8 DEF CheckPod, Rows
  <2>2. OtherAttemptsInv(r)'
    BY <1>0, <2>1, RowsFields, OtherAttemptsKept DEF RunInv, DeletedIn
  <2> QED
    BY <1>0, <2>1, <2>2 DEF RunInv, AuthorizedInv, CurrentAttemptInv,
       EscalationInv, SingleInv, DeletedIn
<1>9. CASE DeletePod(r)
  <2>1. /\ pc[r] = "deleting"
        /\ pc'[r] = "deleted"
        /\ db'[r] = db[r]
        /\ ses'[r] = ses[r]
        /\ attempt'[r] = attempt[r]
        /\ target'[r] = target[r]
        /\ deleted'[r] = deleted[r] \cup {<<k0, target[r]>>}
        /\ forced'[r] <=> forced[r]
        /\ target[r] \in Pods
    BY <1>0, <1>9 DEF DeletePod, Rows, Live, Unready, Ready
  <2>2. OtherAttemptsInv(r)'
    BY <1>0, <2>1, RowsFields, OtherAttemptsKept DEF RunInv, DeletedIn
  <2> QED
    BY <1>0, <2>1, <2>2 DEF RunInv, AuthorizedInv, CurrentAttemptInv,
       EscalationInv, SingleInv, DeletedIn
<1>10. CASE RecordDeletion(r)
  <2>1. /\ pc[r] = "deleted"
        /\ pc'[r] = "verifying"
        /\ db'[r].state = "VERIFYING"
        /\ db'[r].exec = [ses[r].exec EXCEPT ![k0] = "SUCCEEDED"]
        /\ db'[r].policy = ses[r].policy
        /\ ses'[r].state = "VERIFYING"
        /\ ses'[r].exec = [ses[r].exec EXCEPT ![k0] = "SUCCEEDED"]
        /\ ses'[r].policy = ses[r].policy
        /\ attempt'[r] = attempt[r]
        /\ target'[r] = target[r]
        /\ deleted'[r] = deleted[r]
        /\ forced'[r] <=> forced[r]
    BY <1>0, <1>10 DEF RecordDeletion, Rows
  <2>2. AuthorizedInv(r)'
    BY <1>0, <2>1, RowsFields DEF RunInv, AuthorizedInv
  <2>3. OtherAttemptsInv(r)'
    <3>1. \A k \in Attempts : k # k0 => (DeletedIn(r, k)' <=> DeletedIn(r, k))
      BY <1>0, <2>1 DEF DeletedIn
    <3>2. \A k \in Attempts : k # k0 =>
            /\ db'[r].exec[k] \in {db[r].exec[k], ses[r].exec[k]}
            /\ ses'[r].exec[k] \in {db[r].exec[k], ses[r].exec[k]}
      BY <1>0, <2>1, RowsFields
    <3> QED
      BY <1>0, <2>1, <3>1, <3>2, OtherAttemptsKept DEF RunInv
  <2>4. CurrentAttemptInv(r)'
    BY <1>0, <2>1, RowsFields DEF RunInv, CurrentAttemptInv, DeletedIn
  <2>5. EscalationInv(r)'
    BY <1>0, <2>1, RowsFields DEF RunInv, EscalationInv, CurrentAttemptInv, DeletedIn
  <2>6. SingleInv(r)'
    BY <1>0, <2>1, RowsFields DEF RunInv, SingleInv, CurrentAttemptInv, DeletedIn
  <2> QED
    BY <2>1, <2>2, <2>3, <2>4, <2>5, <2>6 DEF RunInv
<1>11. CASE VerifySucceeds(r)
  <2>1. /\ pc[r] = "verifying"
        /\ pc'[r] = "done"
        /\ db'[r].state = "RESOLVED"
        /\ db'[r].exec = ses[r].exec
        /\ db'[r].policy = ses[r].policy
        /\ ses'[r].state = "RESOLVED"
        /\ ses'[r].exec = ses[r].exec
        /\ ses'[r].policy = ses[r].policy
        /\ attempt'[r] = attempt[r]
        /\ target'[r] = target[r]
        /\ deleted'[r] = deleted[r]
        /\ forced'[r] <=> forced[r]
    BY <1>0, <1>11 DEF VerifySucceeds, Rows
  <2>2. OtherAttemptsInv(r)'
    BY <1>0, <2>1, RowsFields, OtherAttemptsKept DEF RunInv, DeletedIn
  <2> QED
    BY <1>0, <2>1, <2>2 DEF RunInv, AuthorizedInv, CurrentAttemptInv,
       EscalationInv, SingleInv, DeletedIn
<1>12. CASE VerifyFailsRetry(r)
  <2>1. /\ pc[r] = "verifying"
        /\ pc'[r] = "recollect"
        /\ db'[r] = db[r]
        /\ ses'[r].state = "EXECUTING"
        /\ ses'[r].exec = ses[r].exec
        /\ ses'[r].policy = ses[r].policy
        /\ attempt'[r] = attempt[r]
        /\ target'[r] = target[r]
        /\ deleted'[r] = deleted[r]
        /\ forced'[r] <=> forced[r]
    BY <1>0, <1>12 DEF VerifyFailsRetry, Rows
  <2>2. OtherAttemptsInv(r)'
    BY <1>0, <2>1, RowsFields, OtherAttemptsKept DEF RunInv, DeletedIn
  <2> QED
    BY <1>0, <2>1, <2>2 DEF RunInv, AuthorizedInv, CurrentAttemptInv,
       EscalationInv, SingleInv, DeletedIn
<1>13. CASE VerifyFailsLast(r)
  <2>1. /\ pc[r] = "verifying"
        /\ pc'[r] = "done"
        /\ db'[r].state = "ESCALATED"
        /\ db'[r].exec = ses[r].exec
        /\ db'[r].policy = ses[r].policy
        /\ ses'[r].state = "ESCALATED"
        /\ ses'[r].exec = ses[r].exec
        /\ ses'[r].policy = ses[r].policy
        /\ attempt'[r] = attempt[r]
        /\ target'[r] = target[r]
        /\ deleted'[r] = deleted[r]
        /\ forced'[r] <=> forced[r]
    BY <1>0, <1>13 DEF VerifyFailsLast, Rows
  <2>2. OtherAttemptsInv(r)'
    BY <1>0, <2>1, RowsFields, OtherAttemptsKept DEF RunInv, DeletedIn
  <2> QED
    BY <1>0, <2>1, <2>2 DEF RunInv, AuthorizedInv, CurrentAttemptInv,
       EscalationInv, SingleInv, DeletedIn
<1>14. CASE Recollect(r)
  <2>1. /\ pc[r] = "recollect" /\ k0 + 1 \in Attempts
        /\ ses'[r] = ses[r]
        /\ deleted'[r] = deleted[r]
        /\ forced'[r] <=> forced[r]
        /\ \/ pc'[r] = "repolicy" /\ db'[r] = db[r] /\ attempt'[r] = k0
           \/ /\ pc'[r] = "attempt" /\ db'[r] = ses[r] /\ attempt'[r] = k0 + 1
              /\ target'[r] = NoPod
    BY <1>0, <1>14 DEF Recollect, TypeInv, WaitInv
  <2>2. AuthorizedInv(r)'
    BY <1>0, <2>1 DEF RunInv, AuthorizedInv
  <2>3. OtherAttemptsInv(r)' /\ CurrentAttemptInv(r)'
    <3>1. CASE pc'[r] = "repolicy"
      <4>1. \A k \in Attempts : DeletedIn(r, k)' <=> DeletedIn(r, k)
        BY <2>1 DEF DeletedIn
      <4>2. OtherAttemptsInv(r)'
        BY <1>0, <2>1, <3>1, <4>1, OtherAttemptsKept DEF RunInv
      <4>3. CurrentAttemptInv(r)'
        BY <1>0, <2>1, <3>1, <4>1 DEF RunInv, CurrentAttemptInv
      <4> QED
        BY <4>2, <4>3
    <3>2. CASE pc'[r] = "attempt"
      BY <1>0, <2>1, <3>2, NextAttempt DEF RunInv
    <3> QED
      BY <2>1, <3>1, <3>2
  <2>4. EscalationInv(r)'
    BY <1>0, <2>1 DEF RunInv, EscalationInv
  <2>5. SingleInv(r)'
    BY <1>0, <2>1 DEF RunInv, SingleInv
  <2> QED
    BY <2>1, <2>2, <2>3, <2>4, <2>5 DEF RunInv
<1>15. CASE RetryAllowed(r)
  <2>1. /\ pc[r] = "repolicy"
        /\ pc'[r] = "attempt"
        /\ db'[r].state = ses[r].state
        /\ db'[r].exec = ses[r].exec
        /\ db'[r].policy = ses[r].policy \cup {<<target[r], "ALLOW">>}
        /\ ses'[r].state = ses[r].state
        /\ ses'[r].exec = ses[r].exec
        /\ ses'[r].policy = ses[r].policy \cup {<<target[r], "ALLOW">>}
        /\ attempt'[r] = k0 + 1
        /\ target'[r] = target[r]
        /\ deleted'[r] = deleted[r]
        /\ forced'[r] <=> forced[r]
        /\ k0 + 1 \in Attempts
    BY <1>0, <1>15 DEF RetryAllowed, Rows, TypeInv, WaitInv
  <2>2. AuthorizedInv(r)'
    BY <1>0, <2>1, RowsFields DEF RunInv, AuthorizedInv
  <2>3. OtherAttemptsInv(r)'
    BY <1>0, <2>1, NextAttempt DEF RunInv
  <2>4. CurrentAttemptInv(r)'
    BY <1>0, <2>1, NextAttempt DEF RunInv
  <2>5. EscalationInv(r)'
    BY <1>0, <2>1, RowsFields DEF RunInv, EscalationInv, CurrentAttemptInv, DeletedIn
  <2>6. SingleInv(r)'
    BY <1>0, <2>1, RowsFields DEF RunInv, SingleInv, CurrentAttemptInv, DeletedIn
  <2> QED
    BY <2>1, <2>2, <2>3, <2>4, <2>5, <2>6 DEF RunInv
<1>16. CASE RetryDenied(r)
  <2>1. /\ pc[r] = "repolicy"
        /\ pc'[r] = "refreshed"
        /\ db'[r] = db[r]
        /\ ses'[r] = db[r]
        /\ attempt'[r] = attempt[r]
        /\ target'[r] = target[r]
        /\ deleted'[r] = deleted[r]
        /\ forced'[r] <=> forced[r]
    BY <1>0, <1>16 DEF RetryDenied, Rows
  <2>2. OtherAttemptsInv(r)'
    BY <1>0, <2>1, RowsFields, OtherAttemptsKept DEF RunInv, DeletedIn
  <2> QED
    BY <1>0, <2>1, <2>2 DEF RunInv, AuthorizedInv, CurrentAttemptInv,
       EscalationInv, SingleInv, DeletedIn
<1>17. CASE RaiseError(r)
  <2>1. /\ pc'[r] = "refreshed"
        /\ db'[r] = db[r]
        /\ ses'[r] = db[r]
        /\ attempt'[r] = attempt[r]
        /\ target'[r] = target[r]
        /\ deleted'[r] = deleted[r]
        /\ forced'[r] <=> forced[r]
        /\ pc[r] \in {"collecting", "evidenced", "recollect", "acting", "deleting",
                   "deleted"}
    BY <1>0, <1>17 DEF RaiseError, Rows, MayRaise
  <2>2. OtherAttemptsInv(r)'
    BY <1>0, <2>1, RowsFields, OtherAttemptsKept DEF RunInv, DeletedIn
  <2> QED
    BY <1>0, <2>1, <2>2 DEF RunInv, AuthorizedInv, CurrentAttemptInv,
       EscalationInv, SingleInv, DeletedIn
<1>18. CASE Escalate(r)
  <2>0. "EXECUTING" \notin TerminalState
    BY DEF TerminalState
  <2>1. /\ pc[r] = "refreshed" /\ pc'[r] = "done"
        /\ ses'[r].exec = ses[r].exec /\ ses'[r].policy = ses[r].policy
        /\ db'[r].exec = db[r].exec /\ db'[r].policy = db[r].policy
        /\ ses[r].state \in TerminalState => db'[r].state = db[r].state
        /\ ses[r].state \notin TerminalState => db'[r].state = "ESCALATED"
        /\ attempt'[r] = attempt[r]
        /\ deleted'[r] = deleted[r]
        /\ forced'[r] <=> forced[r]
    BY <1>0, <1>18 DEF Escalate, Rows
  <2>2. AuthorizedInv(r)'
    BY <1>0, <2>1 DEF RunInv, AuthorizedInv
  <2>3. OtherAttemptsInv(r)'
    <3>1. \A k \in Attempts : DeletedIn(r, k)' <=> DeletedIn(r, k)
      BY <2>1 DEF DeletedIn
    <3> QED
      BY <1>0, <2>1, <3>1, OtherAttemptsKept DEF RunInv
  <2>4. CurrentAttemptInv(r)'
    BY <1>0, <2>1 DEF RunInv, CurrentAttemptInv, DeletedIn
  <2>5. EscalationInv(r)'
    BY <1>0, <2>0, <2>1 DEF RunInv, EscalationInv, DeletedIn
  <2>6. SingleInv(r)'
    BY <1>0, <2>1 DEF RunInv, SingleInv
  <2> QED
    BY <2>1, <2>2, <2>3, <2>4, <2>5, <2>6 DEF RunInv
<1> QED
  BY <1>1, <1>2, <1>3, <1>4, <1>5, <1>6, <1>7, <1>8, <1>9, <1>10, <1>11, <1>12, <1>13, <1>14, <1>15, <1>16, <1>17, <1>18 DEF Step

\* So does every step of the environment, for every run.
LEMMA EnvironmentRunInv ==
  ASSUME TypeInv, NEW r \in Runs, RunInv(r), Environment
  PROVE  RunInv(r)'
<1> USE DEF history
<1>1. CASE \E s \in Runs : Crash(s)
  <2> PICK s \in Runs : Crash(s)
    BY <1>1
  <2>1. /\ s # r => pc'[r] = pc[r]
        /\ s = r => pc[r] # "idle" /\ pc'[r] = "crashed"
    BY DEF Crash, Goto, TypeInv, TypeOK
  <2>2. UNCHANGED <<db, ses, attempt, target, deleted, forced>>
    BY DEF Crash
  <2>3. CASE s = r
    BY <2>1, <2>2, <2>3 DEF RunInv, AuthorizedInv, OtherAttemptsInv,
       CurrentAttemptInv, EscalationInv, SingleInv, DeletedIn
  <2> QED
    BY <2>1, <2>2, <2>3, RunFrame
<1>2. CASE \E q \in Requests : OperatorRead(q)
  BY <1>2, RunFrame DEF OperatorRead
<1>3. CASE \E q \in Requests : OperatorWrite(q)
  <2> PICK q \in Requests : OperatorWrite(q)
    BY <1>3
  <2>1. UNCHANGED <<pc, ses, attempt, target, deleted>>
    BY DEF OperatorWrite
  <2>2. db \in [Runs -> Rows] /\ forced \in [Runs -> BOOLEAN]
        /\ req[q] \in Request
    BY DEF TypeInv, TypeOK
  <2>3. \/ db'[r] = db[r] /\ forced'[r] = forced[r]
        \/ /\ db'[r].exec = db[r].exec /\ db'[r].policy = db[r].policy
           /\ forced'[r]
    BY <2>2 DEF OperatorWrite, Request, Rows
  <2>4. CASE db'[r] = db[r] /\ forced'[r] = forced[r]
    BY <2>1, <2>4, RunFrame
  <2>5. CASE /\ db'[r].exec = db[r].exec /\ db'[r].policy = db[r].policy
             /\ forced'[r]
    BY <2>1, <2>5 DEF RunInv, AuthorizedInv, OtherAttemptsInv,
       CurrentAttemptInv, EscalationInv, SingleInv, DeletedIn
  <2> QED
    BY <2>3, <2>4, <2>5
<1>4. CASE \E p \in Pods : PodFails(p) \/ PodRecovers(p) \/ ReplacePod(p)
  BY <1>4, RunFrame DEF PodFails, PodRecovers, ReplacePod
<1> QED
  BY <1>1, <1>2, <1>3, <1>4 DEF Environment

\* A run's step leaves every other run alone.
LEMMA StepFrame ==
  ASSUME TypeInv, NEW r \in Runs, Step(r), NEW s \in Runs, s # r
  PROVE  UNCHANGED <<pc[s], db[s], ses[s], attempt[s], target[s], deleted[s],
                     forced[s]>>
  BY DEF Step, Create, BeginEvidence, CollectEvidence, Propose, EvaluatePolicy,
     BeginAttempt, SkipAction, CheckPod, DeletePod, RecordDeletion,
     VerifySucceeds, VerifyFailsRetry, VerifyFailsLast, Recollect, RetryAllowed,
     RetryDenied, RaiseError, Escalate, Goto, Flush, Commit, history, TypeInv,
     TypeOK

\* IndInv is inductive.
LEMMA IndInvStep == IndInv /\ [Next]_vars => IndInv'
<1> SUFFICES ASSUME IndInv, [Next]_vars PROVE IndInv'
  OBVIOUS
<1>1. CASE UNCHANGED vars
  <2>1. TypeInv'
    BY <1>1 DEF vars, history, IndInv, TypeInv, WaitInv, TypeOK
  <2>2. ASSUME NEW s \in Runs PROVE RunInv(s)'
    BY <1>1, RunFrame DEF vars, history, IndInv
  <2> QED
    BY <2>1, <2>2 DEF IndInv
<1>2. ASSUME NEW r \in Runs, Step(r) PROVE IndInv'
  <2>1. ASSUME NEW s \in Runs PROVE RunInv(s)'
    <3>1. CASE s = r
      BY <1>2, <3>1, StepRunInv DEF IndInv
    <3>2. CASE s # r
      BY <1>2, <3>2, StepFrame, RunFrame DEF IndInv
    <3> QED
      BY <3>1, <3>2
  <2> QED
    BY <1>2, <2>1, StepTypeInv DEF IndInv
<1>3. CASE Environment
  BY <1>3, EnvironmentTypeInv, EnvironmentRunInv DEF IndInv
<1> QED
  BY <1>1, <1>2, <1>3 DEF Next

\* IndInv holds in every reachable state.
LEMMA IndInvHolds == Spec => []IndInv
<1>1. Init => IndInv
  BY InitTypeInv, InitRunInv DEF IndInv
<1> QED
  BY <1>1, IndInvStep, PTL DEF Spec

-----------------------------------------------------------------------------
(* What follows from it.                                                   *)

\* Every pod a run deletes is covered by a committed ALLOW decision about
\* that pod: for any number of concurrent runs, attempts up to three, lost
\* processes, errors and operator interference.
THEOREM DeletionsAreAuthorized == Spec => []DeletionsAuthorized
<1>1. IndInv => DeletionsAuthorized
  <2> SUFFICES ASSUME IndInv, NEW r \in Runs, NEW d \in deleted[r]
               PROVE  <<d[2], "ALLOW">> \in db[r].policy
    BY DEF DeletionsAuthorized
  <2>1. d \in Attempts \X Pods
    BY DEF IndInv, TypeInv, TypeOK
  <2>2. d[1] \in Attempts /\ d[2] \in Pods /\ d = <<d[1], d[2]>>
    BY <2>1
  <2> QED
    BY <2>2 DEF IndInv, RunInv, AuthorizedInv
<1> QED
  BY <1>1, IndInvHolds, PTL

\* Every deletion the cluster carried out is on record, or the attempt it
\* belongs to ended the run in a crash or an escalation; and no execution is
\* recorded as SUCCEEDED that deleted nothing.
THEOREM DeletionsAreAccounted == Spec => []DeletionsAccounted
<1>1. IndInv => DeletionsAccounted
  <2> SUFFICES ASSUME IndInv, NEW r \in Runs
               PROVE
    /\ \A d \in deleted[r] :
         \/ db[r].exec[d[1]] = "SUCCEEDED"
         \/ /\ d[1] = attempt[r]
            /\ \/ pc[r] \in {"deleted", "refreshed", "crashed"}
               \/ pc[r] = "done" /\ (forced[r] \/ db[r].state = "ESCALATED")
    /\ \A k \in Attempts :
         db[r].exec[k] = "SUCCEEDED" => \E p \in Pods : <<k, p>> \in deleted[r]
    BY DEF DeletionsAccounted
  <2>0. attempt[r] \in Attempts /\ pc[r] \in PC
    BY DEF IndInv, TypeInv, TypeOK
  <2>1. ASSUME NEW d \in deleted[r], db[r].exec[d[1]] # "SUCCEEDED"
        PROVE  /\ d[1] = attempt[r]
               /\ \/ pc[r] \in {"deleted", "refreshed", "crashed"}
                  \/ pc[r] = "done" /\ (forced[r] \/ db[r].state = "ESCALATED")
    <3>1. d \in Attempts \X Pods
      BY DEF IndInv, TypeInv, TypeOK
    <3>2. d[1] \in Attempts /\ DeletedIn(r, d[1])
      BY <3>1 DEF DeletedIn
    <3>3. ~(d[1] > attempt[r]) /\ ~(d[1] < attempt[r])
      BY <2>1, <3>2 DEF IndInv, RunInv, OtherAttemptsInv
    <3>4. d[1] = attempt[r]
      BY <2>0, <3>2, <3>3
    <3>5. pc[r] \in {"deleted", "refreshed", "done", "crashed"}
      BY <2>0, <2>1, <3>2, <3>4 DEF IndInv, RunInv, CurrentAttemptInv, PC
    <3> QED
      BY <2>1, <3>2, <3>4, <3>5 DEF IndInv, RunInv, EscalationInv
  <2>2. ASSUME NEW k \in Attempts, db[r].exec[k] = "SUCCEEDED"
        PROVE  DeletedIn(r, k)
    <3>1. k > attempt[r] \/ k < attempt[r] \/ k = attempt[r]
      BY <2>0
    <3> QED
      BY <2>2, <3>1 DEF IndInv, RunInv, OtherAttemptsInv, CurrentAttemptInv
  <2> QED
    BY <2>1, <2>2 DEF DeletedIn
<1> QED
  BY <1>1, IndInvHolds, PTL

\* No attempt deletes two pods.
THEOREM AttemptsDeleteOnePod == Spec => []OneDeletionPerAttempt
<1>1. IndInv => OneDeletionPerAttempt
  <2> SUFFICES ASSUME IndInv, NEW r \in Runs, NEW d \in deleted[r],
                      NEW e \in deleted[r], d[1] = e[1]
               PROVE  d = e
    BY DEF OneDeletionPerAttempt
  <2>1. d \in Attempts \X Pods /\ e \in Attempts \X Pods
    BY DEF IndInv, TypeInv, TypeOK
  <2>2. d = <<d[1], d[2]>> /\ e = <<d[1], e[2]>>
    BY <2>1
  <2>3. d[2] = e[2]
    BY <2>1, <2>2 DEF IndInv, RunInv, SingleInv
  <2> QED
    BY <2>2, <2>3
<1> QED
  BY <1>1, IndInvHolds, PTL

-----------------------------------------------------------------------------
(* What a run that answers leaves behind.                                  *)

\* The ways in which a run leaves its incident and its proposal.
Ended(r) ==
  \/ db[r].state = "RESOLVED" /\ db[r].proposal = "SUCCEEDED"
  \/ db[r].state = "BLOCKED" /\ db[r].proposal = "REJECTED"
  \/ db[r].state = "AWAITING_APPROVAL" /\ db[r].proposal = "PENDING"
  \/ /\ db[r].state = "ESCALATED"
     /\ db[r].proposal \in {"none", "RUNNING", "FAILED"}

\* What the session holds and the database has committed of the proposal and
\* of the incident's state, by where the run is.  Until the run answers, an
\* incident nobody else wrote is not terminal; once it has, it is settled.
SettleInv(r) ==
  /\ pc[r] \in {"idle", "created", "collecting", "evidenced"}
       => ses[r].proposal = "none" /\ db[r].proposal = "none"
  /\ pc[r] = "policy" => db[r].proposal = "none"
  /\ pc[r] \in {"attempt", "acting", "deleting", "deleted", "verifying",
                "recollect", "repolicy"}
       => ses[r].proposal = "RUNNING" /\ db[r].proposal = "RUNNING"
  /\ pc[r] = "refreshed" => db[r].proposal \in {"none", "RUNNING"}
  /\ pc[r] = "collecting" => ses[r].state = "COLLECTING_EVIDENCE"
  /\ pc[r] \in {"recollect", "repolicy"} => ses[r].state = "EXECUTING"
  /\ ~forced[r] =>
       /\ pc[r] # "done" => db[r].state \notin TerminalState
       /\ pc[r] = "refreshed" => ses[r].state = db[r].state
       /\ pc[r] = "done" =>
            Ended(r) /\ (db[r].state = "RESOLVED" => verified[r])

\* Init establishes it.
LEMMA InitSettleInv ==
  ASSUME Init, NEW r \in Runs
  PROVE  SettleInv(r)
  BY DEF Init, SettleInv, Ended, NoRows, TerminalState

\* A run nothing of which changed keeps it.
LEMMA SettleFrame ==
  ASSUME NEW s \in Runs, SettleInv(s),
         UNCHANGED <<pc[s], db[s], ses[s], forced[s], verified[s]>>
  PROVE  SettleInv(s)'
  BY DEF SettleInv, Ended

\* Every step of a run keeps its own.
LEMMA StepSettleInv ==
  ASSUME TypeInv, NEW r \in Runs, SettleInv(r), Step(r)
  PROVE  SettleInv(r)'
<1>0. /\ pc \in [Runs -> PC] /\ db \in [Runs -> Rows] /\ ses \in [Runs -> Rows]
      /\ verified \in [Runs -> BOOLEAN] /\ ses[r] \in Rows /\ db[r] \in Rows
  BY DEF TypeInv, TypeOK
<1> USE DEF SettleInv, Ended, Goto, Flush, Commit, history, Rows, TerminalState
<1>1. CASE Create(r)
  BY <1>0, <1>1 DEF Create, NoRows
<1>2. CASE BeginEvidence(r)
  BY <1>0, <1>2 DEF BeginEvidence
<1>3. CASE CollectEvidence(r)
  BY <1>0, <1>3 DEF CollectEvidence
<1>4. CASE Propose(r)
  BY <1>0, <1>4 DEF Propose
<1>5. CASE EvaluatePolicy(r)
  <2> PICK v \in Verdict :
          /\ Commit(r, [ses[r] EXCEPT !.state = StateAfter[v],
                                      !.proposal = ProposalAfter[v],
                                      !.policy = @ \cup {<<target[r], v>>}])
          /\ Goto(r, IF v = "ALLOW" THEN "attempt" ELSE "done")
    BY <1>5 DEF EvaluatePolicy
  <2>1. /\ db'[r].state = StateAfter[v] /\ db'[r].proposal = ProposalAfter[v]
        /\ ses'[r].proposal = ProposalAfter[v]
        /\ pc'[r] = IF v = "ALLOW" THEN "attempt" ELSE "done"
    BY <1>0
  <2>2. \/ /\ v = "ALLOW" /\ StateAfter[v] = "EXECUTING"
           /\ ProposalAfter[v] = "RUNNING"
        \/ /\ v # "ALLOW" /\ StateAfter[v] = "AWAITING_APPROVAL"
           /\ ProposalAfter[v] = "PENDING"
        \/ /\ v # "ALLOW" /\ StateAfter[v] = "BLOCKED"
           /\ ProposalAfter[v] = "REJECTED"
    BY DEF StateAfter, ProposalAfter, Verdict
  <2> QED
    BY <2>1, <2>2
<1>6. CASE BeginAttempt(r)
  BY <1>0, <1>6 DEF BeginAttempt
<1>7. CASE SkipAction(r)
  BY <1>0, <1>7 DEF SkipAction
<1>8. CASE CheckPod(r)
  BY <1>0, <1>8 DEF CheckPod
<1>9. CASE DeletePod(r)
  BY <1>0, <1>9 DEF DeletePod
<1>10. CASE RecordDeletion(r)
  BY <1>0, <1>10 DEF RecordDeletion
<1>11. CASE VerifySucceeds(r)
  BY <1>0, <1>11 DEF VerifySucceeds
<1>12. CASE VerifyFailsRetry(r)
  BY <1>0, <1>12 DEF VerifyFailsRetry
<1>13. CASE VerifyFailsLast(r)
  BY <1>0, <1>13 DEF VerifyFailsLast
<1>14. CASE Recollect(r)
  BY <1>0, <1>14 DEF Recollect
<1>15. CASE RetryAllowed(r)
  BY <1>0, <1>15 DEF RetryAllowed
<1>16. CASE RetryDenied(r)
  BY <1>0, <1>16 DEF RetryDenied
<1>17. CASE RaiseError(r)
  BY <1>0, <1>17 DEF RaiseError, MayRaise
<1>18. CASE Escalate(r)
  BY <1>0, <1>18 DEF Escalate
<1> QED
  BY <1>1, <1>2, <1>3, <1>4, <1>5, <1>6, <1>7, <1>8, <1>9, <1>10, <1>11, <1>12, <1>13, <1>14, <1>15, <1>16, <1>17, <1>18 DEF Step


\* So does every step of the environment, for every run.
LEMMA EnvironmentSettleInv ==
  ASSUME TypeInv, NEW r \in Runs, SettleInv(r), Environment
  PROVE  SettleInv(r)'
<1> USE DEF history
<1>1. CASE \E s \in Runs : Crash(s)
  <2> PICK s \in Runs : Crash(s)
    BY <1>1
  <2>1. CASE s = r
    BY <2>1 DEF Crash, Goto, SettleInv, TypeInv, TypeOK
  <2>2. CASE s # r
    BY <2>2, SettleFrame DEF Crash, Goto, TypeInv, TypeOK
  <2> QED
    BY <2>1, <2>2
<1>2. CASE \E q \in Requests : OperatorRead(q)
  BY <1>2, SettleFrame DEF OperatorRead
<1>3. CASE \E q \in Requests : OperatorWrite(q)
  <2> PICK q \in Requests : OperatorWrite(q)
    BY <1>3
  <2>1. /\ db \in [Runs -> Rows] /\ forced \in [Runs -> BOOLEAN]
        /\ req[q] \in Request
    BY DEF TypeInv, TypeOK
  <2>2. UNCHANGED <<pc, ses, verified>>
    BY DEF OperatorWrite
  <2>3. \/ db'[r] = db[r] /\ forced'[r] = forced[r]
        \/ db'[r].proposal = db[r].proposal /\ forced'[r]
    BY <2>1 DEF OperatorWrite, Request, Rows
  <2>4. CASE db'[r] = db[r] /\ forced'[r] = forced[r]
    BY <2>2, <2>4, SettleFrame
  <2>5. CASE db'[r].proposal = db[r].proposal /\ forced'[r]
    BY <2>2, <2>5 DEF SettleInv
  <2> QED
    BY <2>3, <2>4, <2>5
<1>4. CASE \E p \in Pods : PodFails(p) \/ PodRecovers(p) \/ ReplacePod(p)
  BY <1>4, SettleFrame DEF PodFails, PodRecovers, ReplacePod
<1> QED
  BY <1>1, <1>2, <1>3, <1>4 DEF Environment

\* Unless an operator wrote its incident, a run that has answered leaves it
\* terminal or waiting for a human with a proposal that agrees, and RESOLVED
\* was verified: whatever fails, is retried, crashes or interferes.
THEOREM RunsAreSettled == Spec => []RunsSettle
<1> DEFINE Inv == TypeInv /\ \A r \in Runs : SettleInv(r)
<1>1. Init => Inv
  BY InitTypeInv, InitSettleInv
<1>2. Inv /\ [Next]_vars => Inv'
  <2> SUFFICES ASSUME Inv, [Next]_vars PROVE Inv'
    OBVIOUS
  <2>1. CASE UNCHANGED vars
    <3>1. TypeInv'
      BY <2>1 DEF vars, history, TypeInv, WaitInv, TypeOK
    <3> QED
      BY <2>1, <3>1, SettleFrame DEF vars, history
  <2>2. ASSUME NEW r \in Runs, Step(r) PROVE Inv'
    <3>1. ASSUME NEW s \in Runs, s # r PROVE SettleInv(s)'
      <4>1. UNCHANGED <<pc[s], db[s], ses[s], forced[s]>>
        BY <2>2, <3>1, StepFrame
      <4>2. verified'[s] = verified[s]
        BY <2>2, <3>1 DEF Step, Create, BeginEvidence, CollectEvidence,
           Propose, EvaluatePolicy, BeginAttempt, SkipAction, CheckPod,
           DeletePod, RecordDeletion, VerifySucceeds, VerifyFailsRetry,
           VerifyFailsLast, Recollect, RetryAllowed, RetryDenied, RaiseError,
           Escalate, history, TypeInv, TypeOK
      <4> QED
        BY <4>1, <4>2, SettleFrame
    <3> QED
      BY <2>2, <3>1, StepTypeInv, StepSettleInv
  <2>3. CASE Environment
    BY <2>3, EnvironmentTypeInv, EnvironmentSettleInv
  <2> QED
    BY <2>1, <2>2, <2>3 DEF Next
<1>3. Inv => RunsSettle
  <2> SUFFICES ASSUME Inv, NEW r \in Runs, ~forced[r]
               PROVE  /\ db[r].state = "RESOLVED"
                           => verified[r] /\ db[r].proposal = "SUCCEEDED"
                      /\ pc[r] = "done" => Ended(r)
    BY DEF RunsSettle, Ended, ResolvedIsVerified, FinishedRunSettles
  <2>1. SettleInv(r)
    OBVIOUS
  <2> QED
    BY <2>1 DEF SettleInv, Ended, TerminalState
<1> QED
  BY <1>1, <1>2, <1>3, PTL DEF Spec

=============================================================================
