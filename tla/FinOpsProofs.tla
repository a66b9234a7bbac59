---------------------------- MODULE FinOpsProofs ----------------------------
(***************************************************************************)
(* Proofs about the FinOps scenarios and their pull requests, for any      *)
(* number of executions, analyses, proposals, recommendations, retries and *)
(* crashes, and for every series of samples.                               *)
(*                                                                         *)
(* Three invariants: RunsInv relates an execution to the request, the task *)
(* and the sessions that work on it; PullInv relates a recommendation to   *)
(* the one proposal that keeps its row, to its branch and to the pull      *)
(* request on GitHub; FitInv says that every request in force was proposed *)
(* by a recommendation that fits its samples.                              *)
(***************************************************************************)
EXTENDS FinOps, FiniteSetTheorems, WellFoundedInduction, TLAPS

USE MaxRetriesAssumption, MaxCrashesAssumption, NoneAssumption

Exes == [status: {"NONE", "RUNNING"} \cup Ended, scenario: {"none"} \cup Scenarios,
         details: {"STARTING", "CANCELLED", "COMPLETE", "FAILED"},
         f: Fingerprints \cup {None}]
Tasks == [step: {"unsent", "queued", "posting", "marking", "done", "lost"},
          retries: 0..MaxRetries, posts: Nat]
Starts == {"idle", "checked", "sending", "noting", "over"}
JobSteps == {"none", "waiting", "collecting", "ok", "error"}
Marks == {"none", "waiting", "over"}

RunTypes ==
  /\ exe \in [Executions -> Exes]
  /\ start \in [Executions -> Starts]
  /\ task \in [Executions -> Tasks]
  /\ job \in [Jobs -> JobSteps]
  /\ mark \in [Executions -> Marks]
  /\ crashes \in 0..MaxCrashes

\* Nothing works on an execution before its row is committed.
StartInv(e) ==
  /\ start[e] \in {"idle", "checked"} => exe[e].status = "NONE" /\ exe[e].f = None
  /\ start[e] \in {"idle", "checked", "sending"} => task[e].step = "unsent"
  /\ start[e] = "sending" => exe[e].status # "NONE"
  /\ task[e].step = "unsent" =>
       mark[e] = "none" /\ \A n \in Posts : job[<<e, n>>] = "none"
  /\ task[e].step # "unsent" => exe[e].status # "NONE"

\* Every post but the first is paid for by a retry or by a crash.
PostsInv(e) ==
  /\ task[e].step = "unsent" => task[e].posts = 0
  /\ task[e].step = "queued" => task[e].posts <= task[e].retries + crashes
  /\ task[e].step = "posting" => task[e].posts >= 1
  /\ task[e].posts <= task[e].retries + 1 + crashes

\* One session keeps the row, and only while the execution runs; what the
\* sessions answered and what the task concluded is what the row says.
RowInv(e) ==
  /\ \A n \in Posts : job[<<e, n>>] = "collecting" => exe[e].status = "RUNNING"
  /\ \A m, n \in Posts :
       job[<<e, m>>] = "collecting" /\ job[<<e, n>>] = "collecting" => m = n
  /\ \A n \in Posts : job[<<e, n>>] = "ok" => exe[e].status = "SUCCEEDED"
  /\ mark[e] = "over" => exe[e].status \in Ended
  /\ task[e].step = "done" => exe[e].status \in Ended
  /\ exe[e].f # None => exe[e].status = "SUCCEEDED"

ExecInv(e) == StartInv(e) /\ PostsInv(e) /\ RowInv(e)
RunsInv == RunTypes /\ \A e \in Executions : ExecInv(e)

-----------------------------------------------------------------------------
(* The executions.                                                         *)

\* An execution nothing of which changed keeps its invariant; more crashes
\* only allow more posts.
LEMMA ExecFrame ==
  ASSUME NEW u \in Executions, ExecInv(u), task[u] \in Tasks,
         crashes \in Nat, crashes' \in Nat, crashes <= crashes',
         UNCHANGED <<exe[u], start[u], task[u], mark[u]>>,
         \A n \in Posts : job'[<<u, n>>] = job[<<u, n>>]
  PROVE  ExecInv(u)'
<1>1. task[u].retries \in Nat /\ task[u].posts \in Nat
  BY DEF Tasks
<1>2. StartInv(u)'
  BY DEF ExecInv, StartInv
<1>3. PostsInv(u)'
  BY <1>1 DEF ExecInv, PostsInv
<1>4. RowInv(u)'
  BY DEF ExecInv, RowInv
<1> QED
  BY <1>2, <1>3, <1>4 DEF ExecInv

\* No execution has been started at first.
LEMMA InitRunsInv == Init => RunsInv
<1> SUFFICES ASSUME Init PROVE RunsInv
  OBVIOUS
<1>1. RunTypes
  BY DEF Init, RunTypes, Exes, Tasks, Starts, JobSteps, Marks, Ended, Scenarios
<1>2. ASSUME NEW e \in Executions PROVE ExecInv(e)
  <2>1. \A n \in Posts : job[<<e, n>>] = "none"
    BY DEF Init, Jobs
  <2> QED
    BY <2>1 DEF Init, ExecInv, StartInv, PostsInv, RowInv
<1> QED
  BY <1>1, <1>2 DEF RunsInv

\* The steps of the request, the task and the mark of execution e.
OwnStep(e) ==
  \/ CheckStart(e) \/ InsertExecution(e) \/ SendTask(e) \/ NoteTask(e)
  \/ StopExecution(e) \/ Deliver(e) \/ HearPost(e) \/ PostTimeout(e)
  \/ HearMark(e) \/ MarkTimeout(e) \/ WorkerLost(e) \/ MarkFailed(e)

\* They keep the types.
LEMMA OwnStepTypes ==
  ASSUME RunsInv, NEW e \in Executions, OwnStep(e)
  PROVE  RunTypes'
<1>0. RunTypes /\ exe[e] \in Exes /\ task[e] \in Tasks
  BY DEF RunsInv, RunTypes
<1> USE DEF RunTypes, Exes, Tasks, Starts, JobSteps, Marks, Ended, Scenarios
<1>1. CASE CheckStart(e)
  <2>1. exe' \in [Executions -> Exes]
    <3> PICK s \in Scenarios : exe' = [exe EXCEPT ![e].scenario = s]
      BY <1>1 DEF CheckStart
    <3>1. [exe[e] EXCEPT !.scenario = s] \in Exes
      BY <1>0
    <3> QED
      BY <1>0, <3>1
  <2> QED
    BY <1>0, <1>1, <2>1 DEF CheckStart
<1>2. CASE InsertExecution(e)
  BY <1>0, <1>2 DEF InsertExecution
<1>3. CASE SendTask(e)
  <2>1. task' \in [Executions -> Tasks]
    <3>1. [task[e] EXCEPT !.step = "queued"] \in Tasks
      BY <1>0
    <3> QED
      BY <1>0, <1>3, <3>1 DEF SendTask
  <2> QED
    BY <1>0, <1>3, <2>1 DEF SendTask
<1>4. CASE NoteTask(e)
  BY <1>0, <1>4 DEF NoteTask
<1>5. CASE StopExecution(e)
  BY <1>0, <1>5 DEF StopExecution
<1>6. CASE Deliver(e)
  BY <1>0, <1>6 DEF Deliver
<1>7. CASE HearPost(e)
  BY <1>0, <1>7 DEF HearPost, Fail, Exhausted
<1>8. CASE PostTimeout(e)
  <2>1. task' \in [Executions -> Tasks]
    <3>1. [task[e] EXCEPT !.step = "marking"] \in Tasks
      BY <1>0
    <3>2. task[e].retries < MaxRetries => task[e].retries + 1 \in 0..MaxRetries
      BY <1>0
    <3>3. task[e].retries < MaxRetries =>
            [task[e] EXCEPT !.step = "queued", !.retries = @ + 1] \in Tasks
      BY <1>0, <3>2
    <3>4. ~Exhausted(e) => task[e].retries < MaxRetries
      BY <1>0 DEF Exhausted
    <3> QED
      BY <1>0, <1>8, <3>1, <3>3, <3>4 DEF PostTimeout, Fail
  <2> QED
    BY <1>0, <1>8, <2>1 DEF PostTimeout, Fail, Exhausted
<1>9. CASE HearMark(e)
  BY <1>0, <1>9 DEF HearMark
<1>10. CASE MarkTimeout(e)
  BY <1>0, <1>10 DEF MarkTimeout
<1>11. CASE WorkerLost(e)
  BY <1>0, <1>11 DEF WorkerLost
<1>12. CASE MarkFailed(e)
  BY <1>0, <1>12 DEF MarkFailed
<1> QED
  BY <1>1, <1>2, <1>3, <1>4, <1>5, <1>6, <1>7, <1>8, <1>9, <1>10, <1>11, <1>12 DEF OwnStep

\* They keep the invariant of e.
LEMMA OwnStepInv ==
  ASSUME RunsInv, NEW e \in Executions, OwnStep(e)
  PROVE  ExecInv(e)'
<1>0. /\ RunTypes /\ exe[e] \in Exes /\ task[e] \in Tasks /\ ExecInv(e)
      /\ StartInv(e) /\ PostsInv(e) /\ RowInv(e)
      /\ task[e].retries \in Nat /\ task[e].posts \in Nat /\ crashes \in Nat
  BY DEF RunsInv, RunTypes, ExecInv, Tasks
<1> USE DEF Ended
<1>1. CASE CheckStart(e)
  <2>1. StartInv(e)'
    BY <1>0, <1>1 DEF CheckStart, StartInv, RunTypes, Exes, Tasks
  <2>2. PostsInv(e)'
    BY <1>0, <1>1 DEF CheckStart, PostsInv, StartInv, RunTypes, Tasks
  <2>3. RowInv(e)'
    BY <1>0, <1>1 DEF CheckStart, RowInv, StartInv, RunTypes, Exes, Tasks, Locked
  <2> QED
    BY <2>1, <2>2, <2>3 DEF ExecInv
<1>2. CASE InsertExecution(e)
  <2>1. StartInv(e)'
    BY <1>0, <1>2 DEF InsertExecution, StartInv, RunTypes, Exes, Tasks
  <2>2. PostsInv(e)'
    BY <1>0, <1>2 DEF InsertExecution, PostsInv, StartInv, RunTypes, Tasks
  <2>3. RowInv(e)'
    BY <1>0, <1>2 DEF InsertExecution, RowInv, StartInv, RunTypes, Exes, Tasks, Locked
  <2> QED
    BY <2>1, <2>2, <2>3 DEF ExecInv
<1>3. CASE SendTask(e)
  <2>1. StartInv(e)'
    BY <1>0, <1>3 DEF SendTask, StartInv, RunTypes, Exes, Tasks
  <2>2. PostsInv(e)'
    BY <1>0, <1>3 DEF SendTask, PostsInv, StartInv, RunTypes, Tasks
  <2>3. RowInv(e)'
    BY <1>0, <1>3 DEF SendTask, RowInv, StartInv, RunTypes, Exes, Tasks, Locked
  <2> QED
    BY <2>1, <2>2, <2>3 DEF ExecInv
<1>4. CASE NoteTask(e)
  <2>1. StartInv(e)'
    BY <1>0, <1>4 DEF NoteTask, StartInv, RunTypes, Exes, Tasks
  <2>2. PostsInv(e)'
    BY <1>0, <1>4 DEF NoteTask, PostsInv, StartInv, RunTypes, Tasks
  <2>3. RowInv(e)'
    BY <1>0, <1>4 DEF NoteTask, RowInv, StartInv, RunTypes, Exes, Tasks, Locked
  <2> QED
    BY <2>1, <2>2, <2>3 DEF ExecInv
<1>5. CASE StopExecution(e)
  <2>1. StartInv(e)'
    BY <1>0, <1>5 DEF StopExecution, StartInv, RunTypes, Exes, Tasks
  <2>2. PostsInv(e)'
    BY <1>0, <1>5 DEF StopExecution, PostsInv, StartInv, RunTypes, Tasks
  <2>3. RowInv(e)'
    BY <1>0, <1>5 DEF StopExecution, RowInv, StartInv, RunTypes, Exes, Tasks, Locked
  <2> QED
    BY <2>1, <2>2, <2>3 DEF ExecInv
<1>6. CASE Deliver(e)
  <2>1. StartInv(e)'
    BY <1>0, <1>6 DEF Deliver, StartInv, RunTypes, Exes, Tasks
  <2>2. PostsInv(e)'
    BY <1>0, <1>6 DEF Deliver, PostsInv, StartInv, RunTypes, Tasks
  <2>3. RowInv(e)'
    BY <1>0, <1>6 DEF Deliver, RowInv, StartInv, RunTypes, Exes, Tasks, Locked
  <2> QED
    BY <2>1, <2>2, <2>3 DEF ExecInv
<1>7. CASE HearPost(e)
  <2>1. StartInv(e)'
    BY <1>0, <1>7 DEF HearPost, Fail, Exhausted, StartInv, RunTypes, Exes, Tasks
  <2>2. PostsInv(e)'
    BY <1>0, <1>7 DEF HearPost, Fail, Exhausted, PostsInv, StartInv, RunTypes, Tasks
  <2>3. RowInv(e)'
    <3>1. task[e].posts - 1 \in Posts
      BY <1>0, <1>7 DEF HearPost, PostsInv, Posts, RunTypes, Tasks
    <3>2. task'[e].step = "done" => exe[e].status \in Ended
      BY <1>0, <1>7, <3>1 DEF HearPost, Answer, Fail, RowInv, RunTypes, Tasks
    <3>3. UNCHANGED <<exe, job>> /\ (mark'[e] = "over" => mark[e] = "over")
      BY <1>0, <1>7 DEF HearPost, Fail, RunTypes
    <3> QED
      BY <1>0, <3>2, <3>3 DEF RowInv
  <2> QED
    BY <2>1, <2>2, <2>3 DEF ExecInv
<1>8. CASE PostTimeout(e)
  <2>1. StartInv(e)'
    BY <1>0, <1>8 DEF PostTimeout, Fail, Exhausted, StartInv, RunTypes, Exes, Tasks
  <2>2. PostsInv(e)'
    BY <1>0, <1>8 DEF PostTimeout, Fail, Exhausted, PostsInv, StartInv, RunTypes, Tasks
  <2>3. RowInv(e)'
    BY <1>0, <1>8 DEF PostTimeout, Fail, Exhausted, RowInv, StartInv, RunTypes, Exes, Tasks, Locked
  <2> QED
    BY <2>1, <2>2, <2>3 DEF ExecInv
<1>9. CASE HearMark(e)
  <2>1. StartInv(e)'
    BY <1>0, <1>9 DEF HearMark, StartInv, RunTypes, Exes, Tasks
  <2>2. PostsInv(e)'
    BY <1>0, <1>9 DEF HearMark, PostsInv, StartInv, RunTypes, Tasks
  <2>3. RowInv(e)'
    BY <1>0, <1>9 DEF HearMark, RowInv, StartInv, RunTypes, Exes, Tasks, Locked
  <2> QED
    BY <2>1, <2>2, <2>3 DEF ExecInv
<1>10. CASE MarkTimeout(e)
  <2>1. StartInv(e)'
    BY <1>0, <1>10 DEF MarkTimeout, StartInv, RunTypes, Exes, Tasks
  <2>2. PostsInv(e)'
    BY <1>0, <1>10 DEF MarkTimeout, PostsInv, StartInv, RunTypes, Tasks
  <2>3. RowInv(e)'
    BY <1>0, <1>10 DEF MarkTimeout, RowInv, StartInv, RunTypes, Exes, Tasks, Locked
  <2> QED
    BY <2>1, <2>2, <2>3 DEF ExecInv
<1>11. CASE WorkerLost(e)
  <2>1. StartInv(e)'
    BY <1>0, <1>11 DEF WorkerLost, StartInv, RunTypes, Exes, Tasks
  <2>2. PostsInv(e)'
    BY <1>0, <1>11 DEF WorkerLost, PostsInv, StartInv, RunTypes, Tasks
  <2>3. RowInv(e)'
    BY <1>0, <1>11 DEF WorkerLost, RowInv, StartInv, RunTypes, Exes, Tasks, Locked
  <2> QED
    BY <2>1, <2>2, <2>3 DEF ExecInv
<1>12. CASE MarkFailed(e)
  <2>1. StartInv(e)'
    BY <1>0, <1>12 DEF MarkFailed, StartInv, RunTypes, Exes, Tasks
  <2>2. PostsInv(e)'
    BY <1>0, <1>12 DEF MarkFailed, PostsInv, StartInv, RunTypes, Tasks
  <2>3. RowInv(e)'
    BY <1>0, <1>12 DEF MarkFailed, RowInv, StartInv, RunTypes, Exes, Tasks, Locked
  <2> QED
    BY <2>1, <2>2, <2>3 DEF ExecInv
<1> QED
  BY <1>1, <1>2, <1>3, <1>4, <1>5, <1>6, <1>7, <1>8, <1>9, <1>10, <1>11, <1>12 DEF OwnStep

\* They leave the other executions alone.
LEMMA OwnStepFrame ==
  ASSUME RunsInv, NEW e \in Executions, OwnStep(e), NEW u \in Executions, u # e
  PROVE  ExecInv(u)'
<1>0. /\ RunTypes /\ ExecInv(u) /\ task[u] \in Tasks
      /\ crashes \in Nat
  BY DEF RunsInv, RunTypes
<1>1. crashes' \in {crashes, crashes + 1}
  BY DEF OwnStep, CheckStart, InsertExecution, SendTask, NoteTask, StopExecution,
     Deliver, HearPost, PostTimeout, HearMark, MarkTimeout, WorkerLost, MarkFailed
<1>2. UNCHANGED <<exe[u], start[u]>>
  BY <1>0 DEF OwnStep, CheckStart, InsertExecution, SendTask, NoteTask,
     StopExecution, Deliver, HearPost, PostTimeout, HearMark, MarkTimeout,
     WorkerLost, MarkFailed, RunTypes
<1>3. UNCHANGED <<task[u], mark[u]>>
  BY <1>0 DEF OwnStep, CheckStart, InsertExecution, SendTask, NoteTask,
     StopExecution, Deliver, HearPost, PostTimeout, HearMark, MarkTimeout,
     WorkerLost, MarkFailed, RunTypes, Fail
<1>4. \A n \in Posts : job'[<<u, n>>] = job[<<u, n>>]
  <2>1. job' = job \/ job' = [job EXCEPT ![<<e, task[e].posts>>] = "waiting"]
    BY DEF OwnStep, CheckStart, InsertExecution, SendTask, NoteTask,
       StopExecution, Deliver, HearPost, PostTimeout, HearMark, MarkTimeout,
       WorkerLost, MarkFailed
  <2> QED
    BY <1>0, <2>1 DEF RunTypes, Jobs
<1> QED
  BY <1>0, <1>1, <1>2, <1>3, <1>4, ExecFrame

\* The session of a post: it takes the row, ends the execution or gives up.
LEMMA SessionStep ==
  ASSUME RunsInv, NEW e \in Executions, NEW n \in Posts,
         LockExecution(e, n) \/ FinishJob(e, n) \/ CollectFails(e, n)
  PROVE  RunsInv'
<1>0. /\ RunTypes /\ exe[e] \in Exes /\ task[e] \in Tasks /\ <<e, n>> \in Jobs
      /\ StartInv(e) /\ PostsInv(e) /\ RowInv(e)
  BY DEF RunsInv, RunTypes, ExecInv, Jobs
<1>1. UNCHANGED <<start, task, mark, crashes>>
  BY DEF LockExecution, FinishJob, CollectFails
<1>2. PICK v \in {"ok", "collecting", "error"} : job' = [job EXCEPT ![<<e, n>>] = v]
  BY DEF LockExecution, FinishJob, CollectFails
<1>3. /\ job' \in [Jobs -> JobSteps]
      /\ job'[<<e, n>>] = v
      /\ \A m \in Posts : m # n => job'[<<e, m>>] = job[<<e, m>>]
      /\ \A u \in Executions, m \in Posts : u # e => job'[<<u, m>>] = job[<<u, m>>]
  BY <1>0, <1>2 DEF RunTypes, Jobs, JobSteps
<1>4. job[<<e, n>>] \in {"waiting", "collecting"}
  BY DEF LockExecution, FinishJob, CollectFails
<1>5. \/ exe' = exe
      \/ /\ job[<<e, n>>] = "collecting" /\ v = "ok"
         /\ \E f \in Fingerprints \cup {None} :
              exe' = [exe EXCEPT ![e] = [@ EXCEPT !.status = "SUCCEEDED",
                                           !.details = "COMPLETE", !.f = f]]
  <2>1. CASE FinishJob(e, n)
    <3>1. v = "ok"
      BY <1>0, <1>3, <2>1 DEF FinishJob, RunTypes
    <3> QED
      BY <2>1, <3>1 DEF FinishJob
  <2> QED
    BY <2>1 DEF LockExecution, CollectFails
<1>6. exe' \in [Executions -> Exes] /\ \A u \in Executions : u # e => exe'[u] = exe[u]
  <2>1. \A f \in Fingerprints \cup {None} :
          [exe[e] EXCEPT !.status = "SUCCEEDED", !.details = "COMPLETE", !.f = f]
            \in Exes
    BY <1>0 DEF Exes, Ended
  <2> QED
    BY <1>0, <1>5, <2>1 DEF RunTypes
<1>7. RunTypes'
  BY <1>0, <1>1, <1>3, <1>6 DEF RunTypes
<1>8. ASSUME NEW u \in Executions, u # e PROVE ExecInv(u)'
  BY <1>0, <1>1, <1>3, <1>6, <1>8, ExecFrame DEF RunsInv, RunTypes
<1>9. ExecInv(e)'
  <2>1. task[e].step # "unsent"
    BY <1>0, <1>4 DEF StartInv
  <2>2. CASE exe' = exe
    <3>1. v = "ok" => exe[e].status = "SUCCEEDED"
      <4>1. CASE LockExecution(e, n)
        BY <1>0, <1>3, <4>1 DEF LockExecution, RunTypes
      <4>2. CASE FinishJob(e, n)
        <5> PICK f \in Fingerprints \cup {None} :
              exe' = [exe EXCEPT ![e] = [@ EXCEPT !.status = "SUCCEEDED",
                                           !.details = "COMPLETE", !.f = f]]
          BY <4>2 DEF FinishJob
        <5>1. exe'[e].status = "SUCCEEDED"
          BY <1>0 DEF RunTypes, Exes
        <5> QED
          BY <2>2, <5>1
      <4>3. CASE CollectFails(e, n)
        BY <1>0, <1>3, <4>3 DEF CollectFails, RunTypes
      <4> QED
        BY <4>1, <4>2, <4>3
    <3>2. v = "collecting" =>
            /\ exe[e].status = "RUNNING"
            /\ \A m \in Posts : job[<<e, m>>] # "collecting"
      <4>1. CASE LockExecution(e, n)
        BY <1>0, <1>3, <4>1 DEF LockExecution, RunTypes, Locked
      <4>2. CASE FinishJob(e, n)
        BY <1>0, <1>3, <4>2 DEF FinishJob, RunTypes
      <4>3. CASE CollectFails(e, n)
        BY <1>0, <1>3, <4>3 DEF CollectFails, RunTypes
      <4> QED
        BY <4>1, <4>2, <4>3
    <3>3. StartInv(e)' /\ PostsInv(e)'
      BY <1>0, <1>1, <2>1, <2>2 DEF StartInv, PostsInv
    <3>4. RowInv(e)'
      BY <1>0, <1>1, <1>3, <2>2, <3>1, <3>2 DEF RowInv
    <3> QED
      BY <3>3, <3>4 DEF ExecInv
  <2>3. CASE exe' # exe
    <3>1. /\ job[<<e, n>>] = "collecting" /\ v = "ok"
          /\ exe'[e].status = "SUCCEEDED"
      BY <1>0, <1>5, <2>3 DEF RunTypes, Exes
    <3>2. StartInv(e)' /\ PostsInv(e)'
      BY <1>0, <1>1, <2>1, <3>1 DEF StartInv, PostsInv
    <3>3. RowInv(e)'
      BY <1>0, <1>1, <1>3, <3>1 DEF RowInv, Ended
    <3> QED
      BY <3>2, <3>3 DEF ExecInv
  <2> QED
    BY <2>2, <2>3
<1> QED
  BY <1>7, <1>8, <1>9 DEF RunsInv

\* The API process dies: sessions and requests with it, rows stay.
LEMMA CrashStep ==
  ASSUME RunsInv, Crash
  PROVE  RunsInv'
<1>0. RunTypes
  BY DEF RunsInv
<1>1. crashes' \in 0..MaxCrashes /\ crashes' = crashes + 1 /\ exe' = exe
  BY <1>0 DEF Crash, RunTypes
<1>2. \A e \in Executions :
        /\ task'[e] \in Tasks
        /\ task'[e] = task[e] \/ /\ task[e].step = "marking"
                                 /\ task'[e] = [task[e] EXCEPT !.step = "lost"]
  BY <1>0 DEF Crash, RunTypes, Tasks
<1>3. RunTypes'
  <2>1. task' \in [Executions -> Tasks]
    BY <1>2 DEF Crash
  <2>2. job' \in [Jobs -> JobSteps]
    BY <1>0 DEF Crash, RunTypes, JobSteps
  <2>3. mark' \in [Executions -> Marks] /\ start' \in [Executions -> Starts]
    BY <1>0 DEF Crash, RunTypes, Marks, Starts
  <2> QED
    BY <1>0, <1>1, <2>1, <2>2, <2>3 DEF RunTypes
<1>4. ASSUME NEW e \in Executions PROVE ExecInv(e)'
  <2>0. /\ StartInv(e) /\ PostsInv(e) /\ RowInv(e) /\ task[e] \in Tasks
        /\ task[e].posts \in Nat /\ task[e].retries \in Nat /\ crashes \in Nat
    BY <1>0 DEF RunsInv, ExecInv, RunTypes, Tasks
  <2>1. /\ task'[e].posts = task[e].posts /\ task'[e].retries = task[e].retries
        /\ \/ task'[e].step = task[e].step
           \/ task[e].step = "marking" /\ task'[e].step = "lost"
    BY <1>2, <2>0 DEF Tasks
  <2>2. start'[e] = IF start[e] = "idle" THEN "idle" ELSE "over"
    BY DEF Crash
  <2>3. mark'[e] = IF mark[e] = "waiting" THEN "none" ELSE mark[e]
    BY DEF Crash
  <2>4. \A n \in Posts : job'[<<e, n>>] \in {job[<<e, n>>], "error"}
                         /\ (job'[<<e, n>>] = "error" => job[<<e, n>>] # "none")
                         /\ job'[<<e, n>>] # "collecting"
    BY DEF Crash, Jobs
  <2>5. StartInv(e)'
    BY <1>1, <2>0, <2>1, <2>2, <2>3, <2>4 DEF StartInv
  <2>6. PostsInv(e)'
    BY <1>1, <2>0, <2>1 DEF PostsInv
  <2>7. RowInv(e)'
    BY <1>1, <2>0, <2>1, <2>3, <2>4 DEF RowInv
  <2> QED
    BY <2>5, <2>6, <2>7 DEF ExecInv
<1> QED
  BY <1>3, <1>4 DEF RunsInv

\* The proposals, the operators' analyses and the environment do not touch
\* the executions.
OtherStep ==
  \/ \E a \in Analysts : AnalyzeNow(a)
  \/ \E p \in Proposers :
       \/ Propose(p) \/ ReadFile(p) \/ CreateBranch(p) \/ UpdateFile(p)
       \/ CreatePullRequest(p) \/ CallFails(p) \/ CommitProposal(p)
  \/ \E f \in Fingerprints : Expire(f)
  \/ Merge \/ Sync

\* Analyses, proposals and GitHub leave the executions alone.
LEMMA OtherStepRuns ==
  ASSUME OtherStep
  PROVE  UNCHANGED <<exe, start, task, job, mark, crashes>>
  BY DEF OtherStep, AnalyzeNow, Propose, ReadFile, CreateBranch, UpdateFile,
     CreatePullRequest, CallFails, CommitProposal, Expire, Merge, Sync, runs

\* RunsInv speaks of these variables only.
LEMMA RunsFrame ==
  ASSUME RunsInv, UNCHANGED <<exe, start, task, job, mark, crashes>>
  PROVE  RunsInv'
<1>1. RunTypes'
  BY DEF RunsInv, RunTypes
<1>2. ASSUME NEW e \in Executions PROVE ExecInv(e)'
  BY ExecFrame DEF RunsInv, RunTypes
<1> QED
  BY <1>1, <1>2 DEF RunsInv

\* A step is one of an execution, of one of its sessions, a crash, or another.
LEMMA NextParts ==
  Next <=> \/ \E e \in Executions : OwnStep(e)
           \/ \E e \in Executions, n \in Posts :
                LockExecution(e, n) \/ FinishJob(e, n) \/ CollectFails(e, n)
           \/ Crash
           \/ OtherStep
  BY DEF Next, OwnStep, OtherStep

\* RunsInv is inductive.
LEMMA RunsInvStep == RunsInv /\ [Next]_vars => RunsInv'
<1> SUFFICES ASSUME RunsInv, [Next]_vars PROVE RunsInv'
  OBVIOUS
<1>1. CASE UNCHANGED vars
  BY <1>1, RunsFrame DEF vars, runs
<1>2. ASSUME NEW e \in Executions, OwnStep(e) PROVE RunsInv'
  BY <1>2, OwnStepTypes, OwnStepInv, OwnStepFrame DEF RunsInv
<1> QED
  BY <1>1, <1>2, SessionStep, CrashStep, OtherStepRuns, RunsFrame, NextParts

\* RunsInv holds in every reachable state.
LEMMA RunsInvHolds == Spec => []RunsInv
  BY InitRunsInv, RunsInvStep, PTL DEF Spec

\* Whatever comes back late, a status that has ended never changes.
THEOREM EndedStaysEnded == Spec => EndIsFinal
<1> DEFINE Final == \A e \in Executions :
                      exe[e].status \in Ended => exe'[e].status = exe[e].status
<1>1. RunsInv /\ [Next]_vars => [Final]_vars
  <2> SUFFICES ASSUME RunsInv, Next, NEW e \in Executions, exe[e].status \in Ended
               PROVE  exe'[e].status = exe[e].status
    OBVIOUS
  <2>0. RunTypes /\ exe[e] \in Exes /\ StartInv(e) /\ RowInv(e)
    BY DEF RunsInv, RunTypes, ExecInv
  <2>1. ASSUME NEW u \in Executions, OwnStep(u)
        PROVE  exe'[e].status = exe[e].status
    <3>1. CASE u # e
      BY <2>0, <2>1, <3>1 DEF OwnStep, CheckStart, InsertExecution, SendTask,
         NoteTask, StopExecution, Deliver, HearPost, PostTimeout, HearMark,
         MarkTimeout, WorkerLost, MarkFailed, RunTypes
    <3>2. CASE u = e
      BY <2>0, <2>1, <3>2 DEF OwnStep, CheckStart, InsertExecution, SendTask,
         NoteTask, StopExecution, Deliver, HearPost, PostTimeout, HearMark,
         MarkTimeout, WorkerLost, MarkFailed, RunTypes, Exes, StartInv, Ended
    <3> QED
      BY <3>1, <3>2
  <2>2. ASSUME NEW u \in Executions, NEW n \in Posts,
               LockExecution(u, n) \/ FinishJob(u, n) \/ CollectFails(u, n)
        PROVE  exe'[e].status = exe[e].status
    <3>1. CASE FinishJob(u, n)
      <4>1. job[<<u, n>>] = "collecting"
        BY <3>1 DEF FinishJob
      <4>2. u # e
        BY <2>0, <4>1 DEF RowInv, Ended
      <4> QED
        BY <2>0, <3>1, <4>2 DEF FinishJob, RunTypes
    <3> QED
      BY <2>2, <3>1 DEF LockExecution, CollectFails
  <2>3. CASE Crash \/ OtherStep
    BY <2>3, OtherStepRuns DEF Crash
  <2> QED
    BY <2>1, <2>2, <2>3, NextParts
<1> QED
  BY <1>1, RunsInvHolds, PTL DEF Spec, EndIsFinal

-----------------------------------------------------------------------------
(* The pull requests.                                                      *)

Props == [step: {"idle", "reading", "branching", "updating", "opening",
                 "committing", "over"},
          f: Fingerprints \cup {None}, base: Nat, number: Nat]
PRs == [head: Fingerprints, base: Nat, merged: BOOLEAN]
Recs == {r \in {rec[f] : f \in Fingerprints} :
           r = [draft |-> r.draft, status |-> r.status, fresh |-> r.fresh, pr |-> r.pr]}

PullTypes ==
  /\ rec \in [Fingerprints -> Recs]
  /\ record \in [Fingerprints -> Nat]
  /\ prop \in [Proposers -> Props]
  /\ branch \in [Fingerprints -> {"none", "created", "updated"}]
  /\ prs \in Seq(PRs)
  /\ main \in Seq({main[i] : i \in DOMAIN main}) /\ Len(main) >= 1

\* A request works on one recommendation and keeps its row; what it has read
\* of the values file, of the branch and of the pull request is still so.
PropInv(p) ==
  LET r == prop[p] IN
  /\ r.step \in {"idle", "over"} <=> r.f = None
  /\ r.f # None => rec[r.f] # NoRec /\ r.base \in DOMAIN main
  /\ r.step \in {"branching", "updating", "opening", "committing"} =>
       main[r.base] = rec[r.f].draft.current
  /\ r.step \in {"updating", "opening"} =>
       branch[r.f] # "none" /\ \A i \in DOMAIN prs : prs[i].head # r.f
  /\ r.step = "committing" => r.number \in DOMAIN prs /\ prs[r.number].head = r.f

LockInv ==
  \A p, q \in Proposers : prop[p].f = prop[q].f /\ prop[p].f # None => p = q

\* What is stored of a recommendation's pull request.
RecInv(f) ==
  /\ rec[f] # NoRec => rec[f].status \in {"RECOMMENDED", "PR_CREATED"}
  /\ rec[f].status = "PR_CREATED" => rec[f].pr = record[f] /\ record[f] # 0
  /\ record[f] # 0 => record[f] \in DOMAIN prs /\ prs[record[f]].head = f

\* What GitHub holds.
HeadInv(i) ==
  LET r == prs[i] IN
  /\ branch[r.head] # "none" /\ rec[r.head] # NoRec
  /\ r.base \in DOMAIN main /\ main[r.base] = rec[r.head].draft.current

PullInv ==
  /\ PullTypes
  /\ LockInv
  /\ \A p \in Proposers : PropInv(p)
  /\ \A f \in Fingerprints : RecInv(f)
  /\ \A i \in DOMAIN prs : HeadInv(i)
  /\ OnePullRequest
  /\ EveryChangeIsEvidenced

\* There is no recommendation and no pull request at first.
LEMMA InitPullInv == Init => PullInv
<1> SUFFICES ASSUME Init PROVE PullInv
  OBVIOUS
<1>1. prs \in Seq(PRs) /\ DOMAIN prs = {}
  BY DEF Init
<1>2. main \in Seq({main[i] : i \in DOMAIN main}) /\ Len(main) = 1
  BY DEF Init
<1>3. \A f \in Fingerprints : rec[f] = NoRec /\ record[f] = 0
  BY DEF Init
<1>4. \A p \in Proposers : prop[p] = Idle
  BY DEF Init
<1>5. Idle \in Props
  BY DEF Idle, Props
<1>6. rec \in [Fingerprints -> Recs]
  BY <1>3 DEF Init, Recs, NoRec
<1>7. PullTypes
  BY <1>1, <1>2, <1>5, <1>6 DEF Init, PullTypes
<1>8. \A p \in Proposers : PropInv(p)
  BY <1>4 DEF PropInv, Idle
<1>9. \A f \in Fingerprints : RecInv(f)
  <2>1. NoRec.status = "NONE"
    BY DEF NoRec
  <2> QED
    BY <1>3, <2>1 DEF RecInv
<1>10. LockInv
  BY <1>4 DEF LockInv, Idle
<1>11. OnePullRequest /\ EveryChangeIsEvidenced
  BY <1>1, <1>2 DEF OnePullRequest, EveryChangeIsEvidenced
<1> QED
  BY <1>1, <1>7, <1>8, <1>9, <1>10, <1>11 DEF PullInv

\* Recommendations appear and expire; what is there keeps its draft, its
\* status and its pull request.
RecsKept ==
  /\ rec' \in [Fingerprints -> Recs']
  /\ \A f \in Fingerprints :
       \/ /\ rec[f] # NoRec /\ rec'[f] # NoRec
          /\ rec'[f].draft = rec[f].draft
          /\ rec'[f].status = rec[f].status /\ rec'[f].pr = rec[f].pr
       \/ rec[f] = NoRec /\ rec'[f] = NoRec
       \/ rec[f] = NoRec /\ rec'[f] # NoRec /\ rec'[f].status = "RECOMMENDED"

\* A step that keeps what the recommendations say keeps PullInv.
LEMMA RecsStep ==
  ASSUME PullInv, RecsKept, UNCHANGED <<record, prop, branch, prs, main>>
  PROVE  PullInv'
<1>0. \A f \in Fingerprints :
        rec[f] # NoRec => rec'[f] # NoRec /\ rec'[f].draft = rec[f].draft
  BY DEF RecsKept
<1>1. PullTypes'
  BY DEF PullInv, PullTypes, RecsKept
<1>2. ASSUME NEW p \in Proposers PROVE PropInv(p)'
  <2>1. PropInv(p) /\ prop[p] \in Props /\ prop[p].f \in Fingerprints \cup {None}
    BY DEF PullInv, PullTypes, Props
  <2>2. prop[p].step \in {"branching", "updating", "opening", "committing"}
          => prop[p].f # None
    BY <2>1 DEF PropInv
  <2> QED
    BY <1>0, <2>1, <2>2 DEF PropInv
<1>3. ASSUME NEW f \in Fingerprints PROVE RecInv(f)'
  <2>1. NoRec.status = "NONE"
    BY DEF NoRec
  <2> QED
    BY <2>1 DEF PullInv, RecInv, RecsKept
<1>4. ASSUME NEW i \in DOMAIN prs PROVE HeadInv(i)'
  <2>1. prs[i] \in PRs /\ HeadInv(i)
    BY DEF PullInv, PullTypes
  <2> QED
    BY <1>0, <2>1 DEF HeadInv, PRs
<1>5. LockInv' /\ OnePullRequest'
  BY DEF PullInv, LockInv, OnePullRequest
<1>6. EveryChangeIsEvidenced'
  BY <1>0 DEF PullInv, EveryChangeIsEvidenced
<1> QED
  BY <1>1, <1>2, <1>3, <1>4, <1>5, <1>6 DEF PullInv

\* persist_result keeps the recommendations, and so does the time.
LEMMA PersistKeepsRecs ==
  ASSUME PullInv, NEW draft, NEW f \in Fingerprints \cup {None}, Persist(draft, f)
  PROVE  RecsKept
<1>0. rec \in [Fingerprints -> Recs]
  BY DEF PullInv, PullTypes
<1>1. CASE draft = NoDraft
  BY <1>0, <1>1 DEF Persist, RecsKept, Recs
<1>2. CASE draft # NoDraft
  <2>1. f \in Fingerprints /\ rec[f] = NoRec /\ rec' = [rec EXCEPT ![f] = Recommendation(draft)]
    BY <1>2 DEF Persist
  <2>2. /\ rec'[f] = Recommendation(draft)
        /\ \A g \in Fingerprints : g # f => rec'[g] = rec[g]
        /\ rec' = [g \in Fingerprints |-> rec'[g]]
    BY <1>0, <2>1
  <2>3. /\ rec'[f].status = "RECOMMENDED" /\ rec'[f] # NoRec
        /\ rec'[f] = [draft |-> rec'[f].draft, status |-> rec'[f].status,
                      fresh |-> rec'[f].fresh, pr |-> rec'[f].pr]
    BY <2>2 DEF Recommendation, NoRec
  <2>4. rec' \in [Fingerprints -> Recs']
    BY <1>0, <2>2, <2>3 DEF Recs
  <2> QED
    BY <2>1, <2>2, <2>3, <2>4 DEF RecsKept
<1> QED
  BY <1>1, <1>2

\* A recommendation that expires keeps its draft and its pull request.
LEMMA ExpireKeepsRecs ==
  ASSUME PullInv, NEW f \in Fingerprints, Expire(f)
  PROVE  RecsKept
<1>0. rec \in [Fingerprints -> Recs] /\ RecInv(f)
  BY DEF PullInv, PullTypes
<1>1. rec[f] = [draft |-> rec[f].draft, status |-> rec[f].status,
                fresh |-> rec[f].fresh, pr |-> rec[f].pr]
  BY <1>0 DEF Recs
<1>2. /\ rec'[f] = [rec[f] EXCEPT !.fresh = FALSE]
      /\ \A g \in Fingerprints : g # f => rec'[g] = rec[g]
      /\ rec' = [g \in Fingerprints |-> rec'[g]] /\ rec[f] # NoRec
  BY <1>0 DEF Expire
<1>3. rec'[f] = [draft |-> rec[f].draft, status |-> rec[f].status,
                 fresh |-> FALSE, pr |-> rec[f].pr]
  BY <1>1, <1>2
<1>4. rec'[f] # NoRec
  BY <1>0, <1>2, <1>3 DEF RecInv, NoRec
<1>5. rec' \in [Fingerprints -> Recs']
  BY <1>0, <1>2, <1>3 DEF Recs
<1> QED
  BY <1>2, <1>3, <1>4, <1>5 DEF RecsKept

\* A step of one request that leaves the recommendations and the file alone:
\* it may let go of its row, take a free one, advance its own branch and open
\* the pull request of its own recommendation.
LEMMA RequestFrame ==
  ASSUME PullInv, NEW p \in Proposers, NEW r \in Props,
         prop' = [prop EXCEPT ![p] = r], UNCHANGED <<rec, record, main>>,
         r.f = None \/ r.f = prop[p].f \/ \A q \in Proposers : prop[q].f # r.f,
         branch' \in [Fingerprints -> {"none", "created", "updated"}],
         \A f \in Fingerprints : branch[f] # "none" => branch'[f] # "none",
         \/ prs' = prs
         \/ /\ prop[p].step = "opening"
            /\ prs' = Append(prs, [head |-> prop[p].f, base |-> prop[p].base,
                                   merged |-> FALSE]),
         PropInv(p)'
  PROVE  PullInv'
<1>0. PullTypes /\ prop[p] \in Props /\ prop[p].f \in Fingerprints \cup {None}
      /\ PropInv(p) /\ prs \in Seq(PRs)
  BY DEF PullInv, PullTypes, Props
<1>1. prop[p].step = "opening" =>
        /\ prop[p].f # None /\ prop[p].f \in Fingerprints
        /\ [head |-> prop[p].f, base |-> prop[p].base, merged |-> FALSE] \in PRs
  BY <1>0 DEF PropInv, Props, PRs
<1>2. /\ prs' \in Seq(PRs)
      /\ \A i \in DOMAIN prs : i \in DOMAIN prs' /\ prs'[i] = prs[i]
      /\ \A i \in DOMAIN prs' : i \notin DOMAIN prs =>
           /\ i = Len(prs) + 1 /\ prop[p].step = "opening"
           /\ prs'[i].head = prop[p].f /\ prs'[i].base = prop[p].base
  <2> DEFINE x == [head |-> prop[p].f, base |-> prop[p].base, merged |-> FALSE]
  <2>1. CASE prs' = prs
    BY <1>0, <2>1
  <2>2. CASE prop[p].step = "opening" /\ prs' = Append(prs, x)
    <3>1. x \in PRs /\ x.head = prop[p].f /\ x.base = prop[p].base
      BY <1>1, <2>2
    <3> HIDE DEF x
    <3>2. /\ prs' \in Seq(PRs) /\ DOMAIN prs = 1..Len(prs) /\ Len(prs) \in Nat
          /\ DOMAIN prs' = 1..(Len(prs) + 1) /\ prs'[Len(prs) + 1] = x
          /\ \A i \in 1..Len(prs) : prs'[i] = prs[i]
      BY <1>0, <2>2, <3>1
    <3>3. \A i \in DOMAIN prs' : i \notin DOMAIN prs => i = Len(prs) + 1
      BY <3>2
    <3>4. \A i \in DOMAIN prs : i \in DOMAIN prs' /\ prs'[i] = prs[i]
      BY <3>2
    <3> QED
      BY <2>2, <3>1, <3>2, <3>3, <3>4
  <2> QED
    BY <2>1, <2>2
<1>3. /\ prop'[p] = r /\ prop' \in [Proposers -> Props]
      /\ \A q \in Proposers : q # p => prop'[q] = prop[q]
  BY <1>0 DEF PullTypes
<1>4. PullTypes'
  BY <1>0, <1>2, <1>3 DEF PullTypes, Recs
<1>5. LockInv'
  BY <1>3 DEF PullInv, LockInv
<1>6. ASSUME NEW q \in Proposers, q # p PROVE PropInv(q)'
  <2>1. PropInv(q) /\ prop[q] \in Props /\ prop'[q] = prop[q]
    BY <1>0, <1>3, <1>6 DEF PullInv, PullTypes
  <2>2. prop[q].f # None => prop[q].f # prop[p].f
    BY <1>6 DEF PullInv, LockInv
  <2>3. prop[q].step \in {"updating", "opening", "committing"}
          => prop[q].f # None /\ prop[q].f \in Fingerprints
    BY <2>1 DEF PropInv, Props
  <2>4. prop[q].step \in {"updating", "opening"} =>
          /\ branch'[prop[q].f] # "none"
          /\ \A i \in DOMAIN prs' : prs'[i].head # prop[q].f
    BY <1>2, <2>1, <2>2, <2>3 DEF PropInv
  <2>5. prop[q].step = "committing" =>
          /\ prop[q].number \in DOMAIN prs'
          /\ prs'[prop[q].number].head = prop[q].f
    BY <1>2, <2>1 DEF PropInv
  <2> QED
    BY <2>1, <2>4, <2>5 DEF PropInv
<1>7. ASSUME NEW f \in Fingerprints PROVE RecInv(f)'
  <2>1. RecInv(f)
    BY DEF PullInv
  <2> QED
    BY <1>2, <2>1 DEF RecInv
<1>8. ASSUME NEW i \in DOMAIN prs' PROVE HeadInv(i)'
  <2>1. CASE i \in DOMAIN prs
    <3>1. HeadInv(i)
      BY <2>1 DEF PullInv
    <3>2. prs[i] \in PRs
      BY <1>0, <2>1
    <3>3. prs[i].head \in Fingerprints
      BY <3>2 DEF PRs
    <3> QED
      BY <1>2, <2>1, <3>1, <3>3 DEF HeadInv
  <2>2. CASE i \notin DOMAIN prs
    <3>1. /\ prop[p].step = "opening" /\ prs'[i].head = prop[p].f
          /\ prs'[i].base = prop[p].base
      BY <1>2, <2>2
    <3> QED
      BY <1>0, <1>1, <3>1 DEF HeadInv, PropInv
  <2> QED
    BY <2>1, <2>2
<1>9. OnePullRequest'
  <2> SUFFICES ASSUME NEW i \in DOMAIN prs', NEW k \in DOMAIN prs',
                      prs'[i].head = prs'[k].head
               PROVE  i = k
    BY DEF OnePullRequest
  <2>1. prop[p].step = "opening" => \A j \in DOMAIN prs : prs[j].head # prop[p].f
    BY <1>0 DEF PropInv
  <2> QED
    BY <1>2, <2>1 DEF PullInv, OnePullRequest
<1>10. EveryChangeIsEvidenced'
  BY DEF PullInv, EveryChangeIsEvidenced
<1> QED
  BY <1>3, <1>4, <1>5, <1>6, <1>7, <1>8, <1>9, <1>10 DEF PullInv

\* The steps of a request before its commit.
LEMMA RequestStep ==
  ASSUME PullInv, NEW p \in Proposers,
         \/ Propose(p) \/ ReadFile(p) \/ CreateBranch(p) \/ UpdateFile(p)
         \/ CreatePullRequest(p) \/ CallFails(p)
  PROVE  PullInv'
<1>0. /\ PullTypes /\ prop[p] \in Props /\ PropInv(p) /\ prs \in Seq(PRs)
      /\ prop[p].f \in Fingerprints \cup {None} /\ prop[p].base \in Nat
      /\ prop[p].number \in Nat
      /\ branch \in [Fingerprints -> {"none", "created", "updated"}]
      /\ record \in [Fingerprints -> Nat]
      /\ main \in Seq({main[i] : i \in DOMAIN main})
  BY DEF PullInv, PullTypes, Props
<1>1. Over \in Props /\ Over.f = None /\ Over.step = "over"
  BY DEF Over, Idle, Props
<1>2. UNCHANGED <<rec, record, main>>
  BY DEF Propose, ReadFile, CreateBranch, UpdateFile, CreatePullRequest,
     CallFails, github
<1>3. CASE Propose(p)
  <2>1. PICK f \in Fingerprints, base \in DOMAIN main :
          /\ rec[f] # NoRec /\ ~RowLocked(f)
          /\ Set(p, [Idle EXCEPT !.step = "reading", !.f = f, !.base = base])
    BY <1>3 DEF Propose
  <2> DEFINE r == [Idle EXCEPT !.step = "reading", !.f = f, !.base = base]
  <2>0. base \in Nat
    BY <1>0
  <2>2. /\ r \in Props /\ r.step = "reading" /\ r.f = f /\ r.base = base
    BY <2>0 DEF Idle, Props
  <2>3. UNCHANGED <<branch, prs>> /\ prop' = [prop EXCEPT ![p] = r]
    BY <1>3, <2>1 DEF Propose, Set, github
  <2> HIDE DEF r
  <2>4. prop'[p] = r
    BY <1>0, <2>3 DEF PullTypes
  <2>5. PropInv(p)'
    BY <1>2, <2>1, <2>2, <2>3, <2>4 DEF PropInv
  <2>6. \A q \in Proposers : prop[q].f # r.f
    BY <2>1, <2>2 DEF RowLocked
  <2> QED
    BY <1>0, <1>2, <2>2, <2>3, <2>5, <2>6, RequestFrame
<1>4. ASSUME Set(p, Over),
             branch' \in [Fingerprints -> {"none", "created", "updated"}],
             \A f \in Fingerprints : branch[f] # "none" => branch'[f] # "none",
             \/ prs' = prs
             \/ /\ prop[p].step = "opening"
                /\ prs' = Append(prs, [head |-> prop[p].f, base |-> prop[p].base,
                                       merged |-> FALSE])
      PROVE  PullInv'
  <2>1. prop' = [prop EXCEPT ![p] = Over] /\ prop'[p] = Over
    BY <1>0, <1>4 DEF Set, PullTypes
  <2>2. PropInv(p)'
    BY <1>1, <2>1 DEF PropInv
  <2> QED
    BY <1>1, <1>2, <1>4, <2>1, <2>2, RequestFrame
<1>5. CASE CallFails(p)
  BY <1>0, <1>4, <1>5 DEF CallFails, github
<1>6. CASE ReadFile(p)
  <2>1. UNCHANGED <<branch, prs>> /\ prop[p].step = "reading"
    BY <1>6 DEF ReadFile, github
  <2>2. CASE Set(p, Over)
    BY <1>0, <1>4, <2>1, <2>2
  <2>3. CASE /\ Matches(p) /\ OnRecord(prop[p].f)
             /\ Set(p, [prop[p] EXCEPT !.step = "committing",
                                       !.number = record[prop[p].f]])
    <3> DEFINE r == [prop[p] EXCEPT !.step = "committing",
                                    !.number = record[prop[p].f]]
    <3>1. prop[p].f \in Fingerprints /\ prop[p].f # None
      BY <1>0, <2>1 DEF PropInv
    <3>2. /\ r \in Props /\ r.step = "committing" /\ r.f = prop[p].f
          /\ r.base = prop[p].base /\ r.number = record[prop[p].f]
      BY <1>0, <3>1 DEF Props
    <3>3. prop' = [prop EXCEPT ![p] = r]
      BY <2>3 DEF Set
    <3> HIDE DEF r
    <3>4. prop'[p] = r
      BY <1>0, <3>3 DEF PullTypes
    <3>5. RecInv(prop[p].f) /\ record[prop[p].f] # 0
      BY <2>3, <3>1 DEF PullInv, OnRecord
    <3>6. PropInv(p)'
      BY <1>0, <1>2, <2>1, <2>3, <3>1, <3>2, <3>4, <3>5 DEF PropInv, RecInv, Matches
    <3> QED
      BY <1>0, <1>2, <2>1, <3>2, <3>3, <3>6, RequestFrame
  <2>4. CASE Matches(p) /\ To(p, "branching")
    <3> DEFINE r == [prop[p] EXCEPT !.step = "branching"]
    <3>1. /\ r \in Props /\ r.step = "branching" /\ r.f = prop[p].f
          /\ r.base = prop[p].base
      BY <1>0 DEF Props
    <3>2. prop' = [prop EXCEPT ![p] = r]
      BY <2>4 DEF To, Set
    <3> HIDE DEF r
    <3>3. prop'[p] = r
      BY <1>0, <3>2 DEF PullTypes
    <3>4. PropInv(p)'
      BY <1>0, <1>2, <2>1, <2>4, <3>1, <3>3 DEF PropInv, Matches
    <3> QED
      BY <1>0, <1>2, <2>1, <3>1, <3>2, <3>4, RequestFrame
  <2> QED
    BY <1>6, <2>2, <2>3, <2>4 DEF ReadFile
<1>7. CASE CreateBranch(p)
  <2> DEFINE r == [prop[p] EXCEPT !.step = "updating"]
  <2>1. prop[p].f # None /\ prop[p].f \in Fingerprints
        /\ branch[prop[p].f] = "none" /\ prop[p].step = "branching"
    BY <1>0, <1>7 DEF CreateBranch, PropInv
  <2>2. /\ branch' \in [Fingerprints -> {"none", "created", "updated"}]
        /\ \A f \in Fingerprints : branch[f] # "none" => branch'[f] # "none"
        /\ branch'[prop[p].f] # "none" /\ prs' = prs
    BY <1>0, <1>7, <2>1 DEF CreateBranch
  <2>3. CASE Set(p, Over)
    BY <1>4, <2>2, <2>3
  <2>4. CASE Set(p, r)
    <3>1. /\ r \in Props /\ r.step = "updating" /\ r.f = prop[p].f
          /\ r.base = prop[p].base
      BY <1>0 DEF Props
    <3>2. prop' = [prop EXCEPT ![p] = r]
      BY <2>4 DEF Set
    <3> HIDE DEF r
    <3>3. prop'[p] = r
      BY <1>0, <3>2 DEF PullTypes
    <3>4. \A i \in DOMAIN prs : prs[i].head # prop[p].f
      BY <2>1 DEF PullInv, HeadInv
    <3>5. PropInv(p)'
      BY <1>0, <1>2, <2>1, <2>2, <3>1, <3>3, <3>4 DEF PropInv
    <3> QED
      BY <1>2, <2>2, <3>1, <3>2, <3>5, RequestFrame
  <2> QED
    BY <1>7, <2>3, <2>4 DEF CreateBranch, Answered
<1>8. CASE UpdateFile(p)
  <2> DEFINE r == [prop[p] EXCEPT !.step = "opening"]
  <2>1. prop[p].f # None /\ prop[p].f \in Fingerprints /\ prop[p].step = "updating"
    BY <1>0, <1>8 DEF UpdateFile, PropInv
  <2>2. /\ branch' \in [Fingerprints -> {"none", "created", "updated"}]
        /\ \A f \in Fingerprints : branch[f] # "none" => branch'[f] # "none"
        /\ branch'[prop[p].f] # "none" /\ prs' = prs
    BY <1>0, <1>8, <2>1 DEF UpdateFile
  <2>3. CASE Set(p, Over)
    BY <1>4, <2>2, <2>3
  <2>4. CASE Set(p, r)
    <3>1. /\ r \in Props /\ r.step = "opening" /\ r.f = prop[p].f
          /\ r.base = prop[p].base
      BY <1>0 DEF Props
    <3>2. prop' = [prop EXCEPT ![p] = r]
      BY <2>4 DEF Set
    <3> HIDE DEF r
    <3>3. prop'[p] = r
      BY <1>0, <3>2 DEF PullTypes
    <3>4. PropInv(p)'
      BY <1>0, <1>2, <2>1, <2>2, <3>1, <3>3 DEF PropInv
    <3> QED
      BY <1>2, <2>2, <3>1, <3>2, <3>4, RequestFrame
  <2> QED
    BY <1>8, <2>3, <2>4 DEF UpdateFile, Answered
<1>9. CASE CreatePullRequest(p)
  <2> DEFINE x == [head |-> prop[p].f, base |-> prop[p].base, merged |-> FALSE]
             r == [prop[p] EXCEPT !.step = "committing", !.number = Len(prs) + 1]
  <2>1. prop[p].f # None /\ prop[p].f \in Fingerprints /\ prop[p].step = "opening"
    BY <1>0, <1>9 DEF CreatePullRequest, PropInv
  <2>2. prs' = Append(prs, x) /\ branch' = branch
    BY <1>9 DEF CreatePullRequest
  <2>3. CASE Set(p, Over)
    BY <1>0, <1>4, <2>1, <2>2, <2>3
  <2>4. CASE Set(p, r)
    <3>1. x \in PRs /\ x.head = prop[p].f
      BY <1>0, <2>1 DEF PRs
    <3>0. Len(prs) + 1 \in Nat
      BY <1>0
    <3>2. /\ r \in Props /\ r.step = "committing" /\ r.f = prop[p].f
          /\ r.base = prop[p].base /\ r.number = Len(prs) + 1
      BY <1>0, <3>0 DEF Props
    <3>3. prop' = [prop EXCEPT ![p] = r]
      BY <2>4 DEF Set
    <3> HIDE DEF r
    <3>4. prop'[p] = r
      BY <1>0, <3>3 DEF PullTypes
    <3>5. Len(prs) + 1 \in DOMAIN prs' /\ prs'[Len(prs) + 1].head = prop[p].f
      <4> HIDE DEF x
      <4> QED
        BY <1>0, <2>2, <3>1
    <3>6. PropInv(p)'
      BY <1>0, <1>2, <2>1, <3>2, <3>4, <3>5 DEF PropInv
    <3> QED
      BY <1>0, <1>2, <2>1, <2>2, <3>2, <3>3, <3>6, RequestFrame
  <2> QED
    BY <1>9, <2>3, <2>4 DEF CreatePullRequest, Answered
<1> QED
  BY <1>3, <1>5, <1>6, <1>7, <1>8, <1>9

\* record_pr_created and the record of create_once.
LEMMA CommitStep ==
  ASSUME PullInv, NEW p \in Proposers, CommitProposal(p)
  PROVE  PullInv'
<1> DEFINE f == prop[p].f
           n == prop[p].number
<1>0. /\ PullTypes /\ PropInv(p) /\ prop[p] \in Props /\ prs \in Seq(PRs)
      /\ rec \in [Fingerprints -> Recs] /\ record \in [Fingerprints -> Nat]
  BY DEF PullInv, PullTypes
<1>1. prop[p].step = "committing" /\ UNCHANGED <<branch, prs, main>>
  BY DEF CommitProposal, github
<1>2. /\ f \in Fingerprints /\ f # None /\ n \in DOMAIN prs /\ prs[n].head = f
      /\ rec[f] # NoRec /\ n \in Nat /\ n # 0
  BY <1>0, <1>1 DEF PropInv, Props
<1>3. rec[f] = [draft |-> rec[f].draft, status |-> rec[f].status,
                fresh |-> rec[f].fresh, pr |-> rec[f].pr]
  BY <1>0, <1>2 DEF Recs
<1>4. /\ rec'[f] = [rec[f] EXCEPT !.status = "PR_CREATED", !.pr = n]
      /\ \A g \in Fingerprints : g # f => rec'[g] = rec[g]
      /\ rec' = [g \in Fingerprints |-> rec'[g]]
  BY <1>0, <1>2 DEF CommitProposal
<1>5. rec'[f] = [draft |-> rec[f].draft, status |-> "PR_CREATED",
                 fresh |-> rec[f].fresh, pr |-> n]
  BY <1>3, <1>4
<1>6. /\ rec'[f].draft = rec[f].draft /\ rec'[f].status = "PR_CREATED"
      /\ rec'[f].pr = n
  BY <1>5
<1>7. NoRec.status = "NONE"
  BY DEF NoRec
<1>8. \A g \in Fingerprints :
        rec[g] # NoRec => rec'[g] # NoRec /\ rec'[g].draft = rec[g].draft
  BY <1>4, <1>6, <1>7
<1>9. /\ record' \in [Fingerprints -> Nat] /\ record'[f] = n
      /\ \A g \in Fingerprints : g # f => record'[g] = record[g]
  BY <1>0, <1>2 DEF CommitProposal, RecordPullRequest
<1>10. Over \in Props /\ Over.f = None /\ Over.step = "over"
  BY DEF Over, Idle, Props
<1>11. /\ prop'[p] = Over /\ prop' \in [Proposers -> Props]
       /\ \A q \in Proposers : q # p => prop'[q] = prop[q]
  BY <1>0, <1>10 DEF CommitProposal, Set, PullTypes
<1>12. rec' \in [Fingerprints -> Recs']
  <2>1. rec'[f] = [draft |-> rec'[f].draft, status |-> rec'[f].status,
                   fresh |-> rec'[f].fresh, pr |-> rec'[f].pr]
    BY <1>5
  <2>2. rec' = [g \in Fingerprints |-> rec'[g]]
        /\ \A g \in Fingerprints : g # f => rec'[g] = rec[g]
    BY <1>4
  <2> HIDE DEF f
  <2>3. \A g \in Fingerprints :
          rec'[g] = [draft |-> rec'[g].draft, status |-> rec'[g].status,
                     fresh |-> rec'[g].fresh, pr |-> rec'[g].pr]
    BY <1>0, <2>1, <2>2 DEF Recs
  <2>4. \A g \in Fingerprints : rec'[g] \in Recs'
    BY <2>3 DEF Recs
  <2> QED
    BY <2>2, <2>4
<1>13. PullTypes'
  BY <1>0, <1>1, <1>9, <1>11, <1>12 DEF PullTypes
<1> HIDE DEF f, n
<1>14. ASSUME NEW q \in Proposers PROVE PropInv(q)'
  <2>1. CASE q = p
    BY <1>10, <1>11, <2>1 DEF PropInv
  <2>2. CASE q # p
    <3>1. /\ PropInv(q) /\ prop[q] \in Props /\ prop'[q] = prop[q]
          /\ prop[q].f \in Fingerprints \cup {None}
      BY <1>0, <1>11, <2>2 DEF PullInv, PullTypes, Props
    <3>2. prop[q].step \in {"branching", "updating", "opening", "committing"}
            => prop[q].f # None
      BY <3>1 DEF PropInv
    <3> QED
      BY <1>1, <1>8, <3>1, <3>2 DEF PropInv
  <2> QED
    BY <2>1, <2>2
<1>15. ASSUME NEW g \in Fingerprints PROVE RecInv(g)'
  <2>1. RecInv(g)
    BY DEF PullInv
  <2>2. CASE g = f
    BY <1>1, <1>2, <1>6, <1>9, <2>2 DEF RecInv
  <2>3. CASE g # f
    BY <1>1, <1>4, <1>9, <2>1, <2>3 DEF RecInv
  <2> QED
    BY <2>2, <2>3
<1>16. ASSUME NEW i \in DOMAIN prs PROVE HeadInv(i)'
  <2>1. HeadInv(i)
    BY DEF PullInv
  <2>2. prs[i] \in PRs
    BY <1>0
  <2>3. prs[i].head \in Fingerprints
    BY <2>2 DEF PRs
  <2> QED
    BY <1>1, <1>8, <2>1, <2>3 DEF HeadInv
<1>17. LockInv'
  BY <1>10, <1>11 DEF PullInv, LockInv
<1>18. OnePullRequest' /\ EveryChangeIsEvidenced'
  BY <1>1, <1>8 DEF PullInv, OnePullRequest, EveryChangeIsEvidenced
<1> QED
  BY <1>1, <1>13, <1>14, <1>15, <1>16, <1>17, <1>18 DEF PullInv

\* The end of the sessions frees every row.
LEMMA CrashPulls ==
  ASSUME PullInv, Crash
  PROVE  PullInv'
<1>0. UNCHANGED <<rec, record, branch, prs, main>>
  BY DEF Crash, github
<1>1. /\ Over \in Props /\ Over.f = None /\ Over.step = "over"
      /\ Idle \in Props /\ Idle.f = None /\ Idle.step = "idle"
  BY DEF Over, Idle, Props
<1>2. /\ prop' \in [Proposers -> Props]
      /\ \A p \in Proposers : prop'[p] \in {Idle, Over}
  BY <1>1 DEF Crash
<1>3. PullTypes'
  BY <1>0, <1>2 DEF PullInv, PullTypes, Recs
<1>4. LockInv' /\ \A p \in Proposers : PropInv(p)'
  BY <1>1, <1>2 DEF LockInv, PropInv
<1>5. ASSUME NEW f \in Fingerprints PROVE RecInv(f)'
  BY <1>0 DEF PullInv, RecInv
<1>6. ASSUME NEW i \in DOMAIN prs PROVE HeadInv(i)'
  BY <1>0 DEF PullInv, HeadInv
<1>7. OnePullRequest' /\ EveryChangeIsEvidenced'
  BY <1>0 DEF PullInv, OnePullRequest, EveryChangeIsEvidenced
<1> QED
  BY <1>0, <1>3, <1>4, <1>5, <1>6, <1>7 DEF PullInv

\* A merged pull request replaces what its evidence was about.
LEMMA MergeStep ==
  ASSUME PullInv, Merge
  PROVE  PullInv'
<1>0. /\ PullTypes /\ prs \in Seq(PRs)
      /\ main \in Seq({main[i] : i \in DOMAIN main}) /\ Len(main) >= 1
  BY DEF PullInv, PullTypes
<1>1. UNCHANGED <<rec, record, prop, branch>>
  BY DEF Merge
<1>2. PICK i \in DOMAIN prs :
        /\ main[prs[i].base] = main[Len(main)]
        /\ main' = Append(main, rec[prs[i].head].draft.proposed)
        /\ prs' = [prs EXCEPT ![i].merged = TRUE]
  BY DEF Merge
<1>3. prs[i] \in PRs /\ HeadInv(i)
  BY <1>0 DEF PullInv
<1>4. /\ prs' \in Seq(PRs) /\ DOMAIN prs' = DOMAIN prs
      /\ \A k \in DOMAIN prs : prs'[k].head = prs[k].head /\ prs'[k].base = prs[k].base
  <2>1. [prs[i] EXCEPT !.merged = TRUE] \in PRs
    BY <1>3 DEF PRs
  <2>2. prs' = [prs EXCEPT ![i] = [prs[i] EXCEPT !.merged = TRUE]]
    BY <1>2
  <2>3. prs' \in Seq(PRs) /\ DOMAIN prs' = DOMAIN prs
    BY <1>0, <2>1, <2>2
  <2>4. \A k \in DOMAIN prs :
          prs'[k] = IF k = i THEN [prs[i] EXCEPT !.merged = TRUE] ELSE prs[k]
    BY <1>0, <2>2
  <2>5. /\ [prs[i] EXCEPT !.merged = TRUE].head = prs[i].head
        /\ [prs[i] EXCEPT !.merged = TRUE].base = prs[i].base
    BY <1>3 DEF PRs
  <2> QED
    BY <2>3, <2>4, <2>5
<1> DEFINE x == rec[prs[i].head].draft.proposed
           V == {main[k] : k \in DOMAIN main}
<1>5. /\ DOMAIN main = 1..Len(main) /\ Len(main) \in Nat
      /\ DOMAIN main' = 1..(Len(main) + 1) /\ Len(main') = Len(main) + 1
      /\ main'[Len(main) + 1] = x
      /\ \A k \in 1..Len(main) : main'[k] = main[k]
  <2>1. main' = Append(main, x)
    BY <1>2
  <2>2. main \in Seq(V)
    BY <1>0
  <2>3. main \in Seq(V \cup {x}) /\ x \in V \cup {x}
    <3> HIDE DEF V, x
    <3> QED
      BY <2>2
  <2> HIDE DEF V, x
  <2> QED
    BY <2>1, <2>3
<1>6. main' \in Seq({main'[k] : k \in DOMAIN main'})
  <2> DEFINE W == {main'[k] : k \in DOMAIN main'}
  <2>1. \A k \in DOMAIN main' : main'[k] \in W
    OBVIOUS
  <2>2. main' = [k \in DOMAIN main' |-> main'[k]]
    <3>1. main \in Seq(V)
      BY <1>0
    <3>2. main \in Seq(V \cup {x}) /\ x \in V \cup {x} /\ main' = Append(main, x)
      <4> HIDE DEF V, x
      <4>1. main \in Seq(V \cup {x})
        BY <3>1
      <4> QED
        BY <1>2, <4>1 DEF x
    <3> HIDE DEF V, x
    <3>3. main' \in Seq(V \cup {x})
      BY <3>2
    <3>4. main' \in [1..Len(main') -> V \cup {x}]
      BY <3>3
    <3> QED
      BY <3>4
  <2> HIDE DEF W
  <2>3. main' \in [1..(Len(main) + 1) -> W]
    BY <1>5, <2>1, <2>2
  <2>4. Len(main) + 1 \in Nat
    BY <1>5
  <2>5. main' \in Seq(W)
    BY <2>3, <2>4
  <2> QED
    BY <2>5 DEF W
<1>7. \A k \in DOMAIN main : k \in DOMAIN main' /\ main'[k] = main[k]
  BY <1>5
<1>8. PullTypes'
  BY <1>0, <1>1, <1>4, <1>5, <1>6 DEF PullTypes, Recs
<1>9. ASSUME NEW p \in Proposers PROVE PropInv(p)'
  <2>1. PropInv(p)
    BY DEF PullInv
  <2> QED
    BY <1>1, <1>4, <1>7, <2>1 DEF PropInv
<1>10. ASSUME NEW f \in Fingerprints PROVE RecInv(f)'
  BY <1>1, <1>4 DEF PullInv, RecInv
<1>11. ASSUME NEW k \in DOMAIN prs' PROVE HeadInv(k)'
  <2>1. HeadInv(k)
    BY <1>4 DEF PullInv
  <2> QED
    BY <1>1, <1>4, <1>7, <2>1 DEF HeadInv
<1>12. LockInv' /\ OnePullRequest'
  BY <1>1, <1>4 DEF PullInv, LockInv, OnePullRequest
<1>13. EveryChangeIsEvidenced'
  <2> SUFFICES ASSUME NEW k \in 2..Len(main')
               PROVE  \E f \in Fingerprints :
                        /\ rec[f] # NoRec
                        /\ rec[f].draft.current = main'[k - 1]
                        /\ rec[f].draft.proposed = main'[k]
    BY <1>1 DEF EveryChangeIsEvidenced
  <2>1. CASE k = Len(main) + 1
    <3>1. prs[i].head \in Fingerprints
      BY <1>3 DEF PRs
    <3>2. main'[k] = x /\ main'[k - 1] = main[Len(main)]
      BY <1>0, <1>5, <2>1
    <3> QED
      BY <1>2, <1>3, <3>1, <3>2 DEF HeadInv
  <2>2. CASE k # Len(main) + 1
    <3>1. k \in 2..Len(main) /\ main'[k] = main[k] /\ main'[k - 1] = main[k - 1]
      BY <1>5, <2>2
    <3> QED
      BY <3>1 DEF PullInv, EveryChangeIsEvidenced
  <2> QED
    BY <2>1, <2>2
<1> QED
  BY <1>8, <1>9, <1>10, <1>11, <1>12, <1>13 DEF PullInv

\* PullInv is inductive.
LEMMA PullInvStep == PullInv /\ [Next]_vars => PullInv'
<1> SUFFICES ASSUME PullInv, [Next]_vars PROVE PullInv'
  OBVIOUS
<1>0. ASSUME UNCHANGED <<rec, record, prop, branch, prs, main>> PROVE PullInv'
  <2>1. rec' \in [Fingerprints -> Recs']
    BY <1>0 DEF PullInv, PullTypes, Recs
  <2>2. RecsKept
    BY <1>0, <2>1 DEF RecsKept
  <2> QED
    BY <1>0, <2>2, RecsStep
<1>1. CASE UNCHANGED vars
  BY <1>0, <1>1 DEF vars, github
<1>2. ASSUME NEW e \in Executions, OwnStep(e) PROVE PullInv'
  BY <1>0, <1>2 DEF OwnStep, CheckStart, InsertExecution, SendTask, NoteTask,
     StopExecution, Deliver, HearPost, PostTimeout, HearMark, MarkTimeout,
     WorkerLost, MarkFailed, github
<1>3. ASSUME NEW e \in Executions, NEW n \in Posts,
             LockExecution(e, n) \/ FinishJob(e, n) \/ CollectFails(e, n)
      PROVE  PullInv'
  <2>1. CASE FinishJob(e, n)
    BY <2>1, PersistKeepsRecs, RecsStep DEF FinishJob, github
  <2>2. CASE LockExecution(e, n) \/ CollectFails(e, n)
    BY <1>0, <2>2 DEF LockExecution, CollectFails, github
  <2> QED
    BY <1>3, <2>1, <2>2
<1>4. CASE OtherStep
  <2>1. CASE \E a \in Analysts : AnalyzeNow(a)
    BY <2>1, PersistKeepsRecs, RecsStep DEF AnalyzeNow, github
  <2>2. CASE \E f \in Fingerprints : Expire(f)
    BY <2>2, ExpireKeepsRecs, RecsStep DEF Expire, github
  <2>3. CASE Sync
    BY <1>0, <2>3 DEF Sync, github
  <2> QED
    BY <1>4, <2>1, <2>2, <2>3, RequestStep, CommitStep, MergeStep DEF OtherStep
<1> QED
  BY <1>1, <1>2, <1>3, <1>4, CrashPulls, NextParts

\* PullInv holds in every reachable state.
LEMMA PullInvHolds == Spec => []PullInv
  BY InitPullInv, PullInvStep, PTL DEF Spec

\* A recommendation has one pull request at most, the one that is shown is
\* its own, and every change of the values file was evidenced: for any number
\* of repeated requests, lost answers, crashes and merges.
THEOREM PullRequestsStayInAgreement == Spec => []PullRequestsAgree
<1>1. PullInv => PullRequestsAgree
  <2>1. PullInv => ShownIsReal
    BY DEF PullInv, RecInv, ShownIsReal
  <2> QED
    BY <2>1 DEF PullInv, PullRequestsAgree
<1> QED
  BY <1>1, PullInvHolds, PTL

-----------------------------------------------------------------------------
(* What an execution names.                                                *)

\* The recommendation an execution names is there and of its scenario.
NamesInv(e) ==
  exe[e].f # None =>
    /\ rec[exe[e].f] # NoRec
    /\ exe[e].scenario = "workload" <=>
         rec[exe[e].f].draft.kind = "WORKLOAD_RIGHTSIZING"

SettleInv == RunsInv /\ PullInv /\ \A e \in Executions : NamesInv(e)

\* A stored recommendation never changes its draft.
LEMMA DraftsStay ==
  ASSUME PullInv, PullInv', Next, NEW f \in Fingerprints, rec[f] # NoRec
  PROVE  rec'[f] # NoRec /\ rec'[f].draft = rec[f].draft
<1>0. rec \in [Fingerprints -> Recs] /\ prop \in [Proposers -> Props]
  BY DEF PullInv, PullTypes
<1>1. CASE rec' = rec
  BY <1>1
<1>2. CASE RecsKept
  BY <1>2 DEF RecsKept
<1>3. ASSUME NEW p \in Proposers, CommitProposal(p)
      PROVE  rec'[f] # NoRec /\ rec'[f].draft = rec[f].draft
  <2>1. rec[f] = [draft |-> rec[f].draft, status |-> rec[f].status,
                  fresh |-> rec[f].fresh, pr |-> rec[f].pr]
    BY <1>0 DEF Recs
  <2>2. CASE f = prop[p].f
    <3>1. rec'[f] = [rec[f] EXCEPT !.status = "PR_CREATED", !.pr = prop[p].number]
      BY <1>0, <1>3, <2>2 DEF CommitProposal
    <3>2. rec'[f].status = "PR_CREATED" /\ rec'[f].draft = rec[f].draft
      BY <2>1, <3>1
    <3>3. NoRec.status = "NONE"
      BY DEF NoRec
    <3> QED
      BY <3>2, <3>3
  <2>3. CASE f # prop[p].f
    BY <1>0, <1>3, <2>3 DEF CommitProposal
  <2> QED
    BY <2>2, <2>3
<1>4. CASE \E e \in Executions : OwnStep(e)
  BY <1>1, <1>4 DEF OwnStep, CheckStart, InsertExecution, SendTask, NoteTask,
     StopExecution, Deliver, HearPost, PostTimeout, HearMark, MarkTimeout,
     WorkerLost, MarkFailed
<1>5. ASSUME NEW e \in Executions, NEW n \in Posts,
             LockExecution(e, n) \/ FinishJob(e, n) \/ CollectFails(e, n)
      PROVE  rec'[f] # NoRec /\ rec'[f].draft = rec[f].draft
  BY <1>1, <1>2, <1>5, PersistKeepsRecs DEF LockExecution, FinishJob, CollectFails
<1>6. CASE Crash
  BY <1>1, <1>6 DEF Crash
<1>7. CASE OtherStep
  <2>1. CASE \E a \in Analysts : AnalyzeNow(a)
    BY <1>2, <2>1, PersistKeepsRecs DEF AnalyzeNow
  <2>2. CASE \E g \in Fingerprints : Expire(g)
    BY <1>2, <2>2, ExpireKeepsRecs
  <2> QED
    BY <1>1, <1>3, <1>7, <2>1, <2>2 DEF OtherStep, Propose, ReadFile,
       CreateBranch, UpdateFile, CreatePullRequest, CallFails, Merge, Sync
<1> QED
  BY <1>4, <1>5, <1>6, <1>7, NextParts

\* The kind of a draft is that of the scenario it was made for.
LEMMA DraftKind ==
  ASSUME NEW s, NEW draft \in Drafts(s), draft # NoDraft
  PROVE  s = "workload" <=> draft.kind = "WORKLOAD_RIGHTSIZING"
<1>1. PICK o \in Observations : draft = Analyze(s, o)
  BY DEF Drafts
<1>2. CASE s = "workload"
  <2>1. draft = AnalyzeWorkload(live, o)
    BY <1>1, <1>2 DEF Analyze
  <2> QED
    BY <1>2, <2>1 DEF AnalyzeWorkload
<1>3. CASE s # "workload"
  <2>1. draft = AnalyzeNodes(o)
    BY <1>1, <1>3 DEF Analyze
  <2> QED
    BY <1>3, <2>1 DEF AnalyzeNodes
<1> QED
  BY <1>2, <1>3

\* A step keeps the recommendation that an execution names.
LEMMA NamesStep ==
  ASSUME SettleInv, RunsInv', PullInv', Next, NEW e \in Executions
  PROVE  NamesInv(e)'
<1>0. /\ RunTypes /\ exe[e] \in Exes /\ StartInv(e) /\ RowInv(e) /\ NamesInv(e)
      /\ PullInv /\ exe[e].f \in Fingerprints \cup {None}
  BY DEF SettleInv, RunsInv, RunTypes, ExecInv, Exes
<1>1. CASE exe'[e].f = exe[e].f /\ exe'[e].scenario = exe[e].scenario
  BY <1>0, <1>1, DraftsStay DEF NamesInv
<1>2. CASE exe'[e].f = None
  BY <1>2 DEF NamesInv
<1>3. ASSUME NEW u \in Executions, OwnStep(u)
      PROVE  NamesInv(e)'
  <2>1. CASE u # e
    <3>1. exe'[e] = exe[e]
      BY <1>0, <1>3, <2>1 DEF OwnStep, CheckStart, InsertExecution, SendTask,
         NoteTask, StopExecution, Deliver, HearPost, PostTimeout, HearMark,
         MarkTimeout, WorkerLost, MarkFailed, RunTypes
    <3> QED
      BY <1>1, <3>1
  <2>2. CASE CheckStart(e)
    BY <1>0, <1>2, <2>2 DEF CheckStart, StartInv, RunTypes, Exes
  <2>3. CASE NoteTask(e)
    BY <1>0, <1>2, <2>3 DEF NoteTask, RunTypes, Exes
  <2>4. CASE u = e /\ ~CheckStart(e) /\ ~NoteTask(e)
    <3>1. exe'[e].f = exe[e].f /\ exe'[e].scenario = exe[e].scenario
      BY <1>0, <1>3, <2>4 DEF OwnStep, InsertExecution, SendTask,
         StopExecution, Deliver, HearPost, PostTimeout, HearMark,
         MarkTimeout, WorkerLost, MarkFailed, RunTypes, Exes
    <3> QED
      BY <1>1, <3>1
  <2> QED
    BY <1>3, <2>1, <2>2, <2>3, <2>4
<1>4. ASSUME NEW u \in Executions, NEW n \in Posts, FinishJob(u, n)
      PROVE  NamesInv(e)'
  <2>1. PICK draft \in Drafts(exe[u].scenario), f \in Fingerprints \cup {None} :
          /\ Persist(draft, f)
          /\ exe' = [exe EXCEPT ![u] = [@ EXCEPT !.status = "SUCCEEDED",
                                                 !.details = "COMPLETE", !.f = f]]
    BY <1>4 DEF FinishJob
  <2>2. CASE u # e
    BY <1>0, <1>1, <2>1, <2>2 DEF RunTypes
  <2>3. CASE u = e
    <3>1. exe'[e].f = f /\ exe'[e].scenario = exe[e].scenario
      BY <1>0, <2>1, <2>3 DEF RunTypes, Exes
    <3>2. CASE draft = NoDraft
      BY <1>2, <2>1, <3>1, <3>2 DEF Persist
    <3>3. CASE draft # NoDraft
      <4>1. /\ f \in Fingerprints /\ rec \in [Fingerprints -> Recs]
            /\ rec' = [rec EXCEPT ![f] = Recommendation(draft)]
        BY <1>0, <2>1, <3>3 DEF Persist, PullInv, PullTypes
      <4>2. rec'[f] = Recommendation(draft)
        BY <4>1
      <4>3. rec'[f] # NoRec /\ rec'[f].draft = draft
        BY <4>2 DEF Recommendation, NoRec
      <4>4. exe[e].scenario = "workload" <=> draft.kind = "WORKLOAD_RIGHTSIZING"
        BY <2>3, <3>3, DraftKind
      <4> QED
        BY <3>1, <4>3, <4>4 DEF NamesInv
    <3> QED
      BY <3>2, <3>3
  <2> QED
    BY <2>2, <2>3
<1>5. CASE \E u \in Executions, n \in Posts : LockExecution(u, n) \/ CollectFails(u, n)
  BY <1>1, <1>5 DEF LockExecution, CollectFails
<1>6. CASE Crash \/ OtherStep
  BY <1>1, <1>6, OtherStepRuns DEF Crash
<1> QED
  BY <1>3, <1>4, <1>5, <1>6, NextParts

\* An execution ends as what its run did: the deliveries of its task are
\* bounded, a task that returned has settled it, and the recommendation it
\* names exists and is of its scenario.
THEOREM ExecutionsAreSettled == Spec => []ExecutionsSettle
<1>1. Init => SettleInv
  <2> SUFFICES ASSUME Init PROVE \A e \in Executions : NamesInv(e)
    BY InitRunsInv, InitPullInv DEF SettleInv
  <2> QED
    BY DEF Init, NamesInv
<1>2. SettleInv /\ [Next]_vars => SettleInv'
  <2> SUFFICES ASSUME SettleInv, [Next]_vars PROVE SettleInv'
    OBVIOUS
  <2>1. RunsInv' /\ PullInv'
    BY RunsInvStep, PullInvStep DEF SettleInv
  <2>2. CASE UNCHANGED vars
    BY <2>1, <2>2 DEF vars, runs, SettleInv, NamesInv
  <2>3. CASE Next
    BY <2>1, <2>3, NamesStep DEF SettleInv
  <2> QED
    BY <2>2, <2>3
<1>3. SettleInv => ExecutionsSettle
  <2> SUFFICES ASSUME SettleInv PROVE ExecutionsSettle
    OBVIOUS
  <2>1. TypeOK
    <3>1. ASSUME NEW e \in Executions
          PROVE  /\ exe[e].status \in {"NONE", "RUNNING"} \cup Ended
                 /\ exe[e].f \in Fingerprints \cup {None}
                 /\ start[e] \in {"idle", "checked", "sending", "noting", "over"}
                 /\ task[e].step \in {"unsent", "queued", "posting", "marking",
                                      "done", "lost"}
                 /\ task[e].retries \in 0..MaxRetries
                 /\ task[e].posts \in 0..(task[e].retries + 1 + crashes)
                 /\ mark[e] \in {"none", "waiting", "over"}
      <4>1. /\ exe[e] \in Exes /\ start[e] \in Starts /\ task[e] \in Tasks
            /\ mark[e] \in Marks /\ crashes \in Nat /\ PostsInv(e)
        BY DEF SettleInv, RunsInv, RunTypes, ExecInv
      <4>2. task[e].retries \in Nat /\ task[e].posts \in Nat
        BY <4>1 DEF Tasks
      <4>3. task[e].posts \in 0..(task[e].retries + 1 + crashes)
        BY <4>1, <4>2 DEF PostsInv
      <4> QED
        BY <4>1, <4>3 DEF Exes, Starts, Tasks, Marks
    <3>2. \A f \in Fingerprints : record[f] \in 0..Len(prs)
      <4> SUFFICES ASSUME NEW f \in Fingerprints PROVE record[f] \in 0..Len(prs)
        OBVIOUS
      <4>1. record[f] \in Nat /\ prs \in Seq(PRs) /\ RecInv(f)
        BY DEF SettleInv, PullInv, PullTypes
      <4>2. DOMAIN prs = 1..Len(prs) /\ Len(prs) \in Nat
        BY <4>1
      <4>3. record[f] = 0 \/ record[f] \in 1..Len(prs)
        BY <4>1, <4>2 DEF RecInv
      <4> QED
        BY <4>2, <4>3
    <3>3. /\ \A j \in Jobs : job[j] \in {"none", "waiting", "collecting", "ok", "error"}
          /\ crashes \in 0..MaxCrashes
      BY DEF SettleInv, RunsInv, RunTypes, JobSteps
    <3> QED
      BY <3>1, <3>2, <3>3 DEF TypeOK
  <2>2. DoneIsSettled
    BY DEF SettleInv, RunsInv, ExecInv, RowInv, DoneIsSettled
  <2>3. SucceededNamesItsOwn
    BY DEF SettleInv, RunsInv, ExecInv, RowInv, NamesInv, SucceededNamesItsOwn
  <2> QED
    BY <2>1, <2>2, <2>3 DEF ExecutionsSettle
<1> QED
  BY <1>1, <1>2, <1>3, PTL DEF Spec


-----------------------------------------------------------------------------
(* What a reduction rests on.                                              *)

\* A set of natural numbers has a least element.
LEMMA LeastNat ==
  ASSUME NEW S, S \subseteq Nat, S # {}
  PROVE  \E n \in S : \A m \in S : n <= m
<1> DEFINE R == {ss \in Nat \X Nat : ss[1] < ss[2]}
<1>1. IsWellFoundedOn(R, Nat)
  BY NatLessThanWellFounded DEF OpToRel
<1>2. PICK n \in S : \A m \in S : ~ (<<m, n>> \in R)
  BY <1>1, WFMin
<1>3. ASSUME NEW m \in S PROVE n <= m
  <2>1. ~ (m < n)
    BY <1>2
  <2> QED
    BY <2>1
<1> QED
  BY <1>3

\* Positions of the samples below v, and of those not above it.
Below(values, v) == {i \in DOMAIN values : values[i] < v}
UpTo(values, v) == {i \in DOMAIN values : values[i] <= v}

\* Positions are finitely many.
LEMMA Positions ==
  ASSUME NEW values \in Seq(Nat)
  PROVE  /\ DOMAIN values = 1..Len(values)
         /\ IsFiniteSet(DOMAIN values)
         /\ Cardinality(DOMAIN values) = Len(values)
         /\ \A A \in SUBSET DOMAIN values :
              IsFiniteSet(A) /\ Cardinality(A) \in Nat /\ Cardinality(A) <= Len(values)
         /\ \A A, B \in SUBSET DOMAIN values :
              A \subseteq B => Cardinality(A) <= Cardinality(B)
<1>1. DOMAIN values = 1..Len(values) /\ Len(values) \in Nat
  OBVIOUS
<1>2. IsFiniteSet(DOMAIN values) /\ Cardinality(DOMAIN values) = Len(values)
  BY <1>1, FS_Interval
<1>3. \A A \in SUBSET DOMAIN values :
        IsFiniteSet(A) /\ Cardinality(A) \in Nat /\ Cardinality(A) <= Len(values)
  BY <1>2, FS_Subset, FS_CardinalityType
<1>4. ASSUME NEW A \in SUBSET DOMAIN values, NEW B \in SUBSET DOMAIN values, A \subseteq B
      PROVE  Cardinality(A) <= Cardinality(B)
  BY <1>3, <1>4, FS_Subset
<1> QED
  BY <1>1, <1>2, <1>3, <1>4

\* Of several samples one is the largest: the one with the fewest above it.
LEMMA LargestSample ==
  ASSUME NEW values \in Seq(Nat), Len(values) > 0
  PROVE  \E i \in DOMAIN values : \A j \in DOMAIN values : values[j] <= values[i]
<1> DEFINE Above(i) == {j \in DOMAIN values : values[j] > values[i]}
           S == {Cardinality(Above(i)) : i \in DOMAIN values}
<1>1. \A i \in DOMAIN values : Above(i) \in SUBSET DOMAIN values
  OBVIOUS
<1>2. S \subseteq Nat
  BY <1>1, Positions
<1>3. 1 \in DOMAIN values
  OBVIOUS
<1>4. S # {}
  BY <1>3
<1>5. PICK n \in S : \A m \in S : n <= m
  BY <1>2, <1>4, LeastNat
<1>6. PICK i \in DOMAIN values : n = Cardinality(Above(i))
  OBVIOUS
<1>7. ASSUME NEW j \in DOMAIN values, ~ (values[j] <= values[i]) PROVE FALSE
  <2>1. values[i] \in Nat /\ values[j] \in Nat /\ \A k \in DOMAIN values : values[k] \in Nat
    OBVIOUS
  <2>2. Above(j) \subseteq Above(i) /\ j \in Above(i) /\ j \notin Above(j)
    BY <1>7, <2>1
  <2>3. Above(i) \in SUBSET DOMAIN values /\ Above(j) \in SUBSET Above(i)
    BY <1>1, <2>2
  <2>4. IsFiniteSet(Above(i)) /\ Cardinality(Above(i)) \in Nat /\ Cardinality(Above(j)) \in Nat
    BY <1>1, Positions
  <2>5. Cardinality(Above(j)) <= Cardinality(Above(i))
    BY <2>3, <2>4, FS_Subset
  <2>6. Cardinality(Above(i)) # Cardinality(Above(j))
    BY <2>2, <2>3, <2>4, FS_Subset
  <2>7. n <= Cardinality(Above(j))
    BY <1>5
  <2> HIDE DEF Above
  <2> QED
    BY <1>6, <2>4, <2>5, <2>6, <2>7
<1> QED
  BY <1>7

\* There is a k-th smallest sample, and Ordered finds it.
LEMMA OrderedSample ==
  ASSUME NEW values \in Seq(Nat), NEW k \in 1..Len(values)
  PROVE  /\ Ordered(values, k) \in Nat
         /\ Cardinality(Below(values, Ordered(values, k))) < k
         /\ Cardinality(UpTo(values, Ordered(values, k))) >= k
<1> DEFINE S == {n \in Nat : Cardinality(UpTo(values, n)) >= k}
<1>0. /\ \A i \in DOMAIN values : values[i] \in Nat
      /\ Len(values) \in Nat /\ k \in Nat /\ 1 <= k /\ k <= Len(values)
  OBVIOUS
<1>1. \A v : Below(values, v) \in SUBSET DOMAIN values /\ UpTo(values, v) \in SUBSET DOMAIN values
  BY DEF Below, UpTo
<1>2. S # {}
  <2>1. PICK i \in DOMAIN values : \A j \in DOMAIN values : values[j] <= values[i]
    <3>1. Len(values) > 0
      BY <1>0
    <3> QED
      BY <3>1, LargestSample
  <2>2. UpTo(values, values[i]) = DOMAIN values
    BY <2>1 DEF UpTo
  <2> QED
    BY <1>0, <2>2, Positions
<1>3. PICK v \in S : \A m \in S : v <= m
  BY <1>2, LeastNat
<1>4. Cardinality(Below(values, v)) < k
  <2>1. CASE v = 0
    <3>1. Below(values, v) = {}
      BY <1>0, <2>1 DEF Below
    <3> QED
      BY <1>0, <3>1, FS_EmptySet
  <2>2. CASE v # 0
    <3>1. v - 1 \in Nat /\ ~ (v <= v - 1)
      BY <2>2
    <3>2. Below(values, v) = UpTo(values, v - 1)
      BY <1>0, <3>1 DEF Below, UpTo
    <3>3. ~ (Cardinality(UpTo(values, v - 1)) >= k)
      BY <1>3, <3>1
    <3>4. Cardinality(UpTo(values, v - 1)) \in Nat
      BY <1>1, Positions
    <3> QED
      BY <1>0, <3>2, <3>3, <3>4
  <2> QED
    BY <2>1, <2>2
<1>5. Cardinality(UpTo(values, v)) >= k
  OBVIOUS
<1>6. v \in {values[i] : i \in DOMAIN values}
  <2> SUFFICES ASSUME \A i \in DOMAIN values : values[i] # v PROVE FALSE
    OBVIOUS
  <2>1. Below(values, v) = UpTo(values, v)
    BY <1>0 DEF Below, UpTo
  <2>2. Cardinality(UpTo(values, v)) \in Nat
    BY <1>1, Positions
  <2> QED
    BY <1>0, <1>4, <1>5, <2>1, <2>2
<1>7. \E w \in {values[i] : i \in DOMAIN values} :
        /\ Cardinality({i \in DOMAIN values : values[i] < w}) < k
        /\ Cardinality({i \in DOMAIN values : values[i] <= w}) >= k
  BY <1>4, <1>5, <1>6 DEF Below, UpTo
<1>8. /\ Ordered(values, k) \in {values[i] : i \in DOMAIN values}
      /\ Cardinality(Below(values, Ordered(values, k))) < k
      /\ Cardinality(UpTo(values, Ordered(values, k))) >= k
  BY <1>7, Zenon DEF Ordered, Below, UpTo
<1> QED
  BY <1>0, <1>8

\* A later place in the order holds no smaller sample.
LEMMA OrderedGrows ==
  ASSUME NEW values \in Seq(Nat), NEW k \in 1..Len(values), NEW l \in 1..Len(values), k <= l
  PROVE  Ordered(values, k) <= Ordered(values, l)
<1> DEFINE v == Ordered(values, k)
           w == Ordered(values, l)
<1>1. v \in Nat /\ w \in Nat /\ Cardinality(Below(values, v)) < k
  BY OrderedSample
<1>2. Cardinality(UpTo(values, w)) >= l
  BY OrderedSample
<1>3. Below(values, v) \in SUBSET DOMAIN values /\ UpTo(values, w) \in SUBSET DOMAIN values
  BY DEF Below, UpTo
<1>4. Cardinality(Below(values, v)) \in Nat /\ Cardinality(UpTo(values, w)) \in Nat
  BY <1>3, Positions
<1> HIDE DEF v, w
<1>5. ASSUME w < v PROVE FALSE
  <2>1. UpTo(values, w) \subseteq Below(values, v)
    BY <1>1, <1>5 DEF UpTo, Below
  <2>2. Cardinality(UpTo(values, w)) <= Cardinality(Below(values, v))
    BY <1>3, <2>1, Positions
  <2> QED
    BY <1>1, <1>2, <1>4, <2>2
<1>6. v <= w
  BY <1>1, <1>5
<1> QED
  BY <1>6 DEF v, w

\* The places around the 95th percentile of n samples.
LEMMA Places ==
  ASSUME NEW n \in Nat \ {0}
  PROVE  LET position == (n - 1) * 95
             k == position \div 100 + 1
             l == CeilDiv(position, 100) + 1
         IN /\ k \in 1..n /\ l \in 1..n /\ k <= l
            /\ position % 100 \in 0..99
            /\ n - k = CeilDiv((n - 1) * 5, 100)
  BY DEF CeilDiv

\* No more samples than the share above the 95th percentile are above what it
\* is interpolated from, and it is not below that.
LEMMA QuantileBounds ==
  ASSUME NEW values \in Seq(Nat), Len(values) > 0
  PROVE  /\ Quantile(values, 95) \in Nat
         /\ \A x \in Nat : 100 * x >= Quantile(values, 95) =>
              Cardinality({i \in DOMAIN values : values[i] > x})
                <= CeilDiv((Len(values) - 1) * 5, 100)
<1> DEFINE n == Len(values)
           position == (n - 1) * 95
           k == position \div 100 + 1
           l == CeilDiv(position, 100) + 1
           rest == position % 100
           lower == Ordered(values, k)
           upper == Ordered(values, l)
<1>1. /\ n \in Nat \ {0} /\ k \in 1..n /\ l \in 1..n /\ k <= l /\ rest \in 0..99
      /\ n - k = CeilDiv((n - 1) * 5, 100)
  <2>1. n \in Nat \ {0}
    OBVIOUS
  <2> HIDE DEF n
  <2> QED
    BY <2>1, Places
<1>2. lower \in Nat /\ upper \in Nat /\ Cardinality(UpTo(values, lower)) >= k
  BY <1>1, OrderedSample
<1>3. lower <= upper
  BY <1>1, OrderedGrows
<1>4. Quantile(values, 95) = 100 * lower + (upper - lower) * rest
  BY DEF Quantile
<1> HIDE DEF n, k, l, rest, lower, upper, position
<1>5. (upper - lower) * rest \in Nat
  BY <1>1, <1>2, <1>3
<1>6. Quantile(values, 95) \in Nat /\ Quantile(values, 95) >= 100 * lower
  BY <1>2, <1>4, <1>5
<1>7. ASSUME NEW x \in Nat, 100 * x >= Quantile(values, 95)
      PROVE  Cardinality({i \in DOMAIN values : values[i] > x}) <= n - k
  <2> DEFINE A == {i \in DOMAIN values : values[i] > x}
             B == UpTo(values, lower)
  <2>1. x >= lower
    BY <1>2, <1>6, <1>7
  <2>2. A \in SUBSET DOMAIN values /\ B \in SUBSET DOMAIN values
    BY DEF UpTo
  <2>3. A \cap B = {}
    BY <1>2, <2>1 DEF UpTo
  <2>4. A \cup B \in SUBSET DOMAIN values
    BY <2>2
  <2>5. /\ IsFiniteSet(A) /\ IsFiniteSet(B) /\ Cardinality(A) \in Nat /\ Cardinality(B) \in Nat
        /\ Cardinality(A \cup B) <= n
    BY <2>2, <2>4, Positions DEF n
  <2> HIDE DEF A, B
  <2>6. Cardinality(A \cup B) = Cardinality(A) + Cardinality(B)
    <3>1. Cardinality(A \cap B) = 0
      BY <2>3, FS_EmptySet
    <3>2. Cardinality(A \cup B) = Cardinality(A) + Cardinality(B) - Cardinality(A \cap B)
      BY <2>5, FS_Union
    <3> QED
      BY <2>5, <3>1, <3>2
  <2>7. Cardinality(B) >= k
    BY <1>2 DEF B
  <2>8. Cardinality(A) <= n - k
    BY <1>1, <2>5, <2>6, <2>7
  <2> QED
    BY <2>8 DEF A
<1>8. n - k = CeilDiv((Len(values) - 1) * 5, 100)
  BY <1>1 DEF n
<1> QED
  BY <1>6, <1>7, <1>8

\* The smaller of two numbers and the larger.
LEMMA Extremes ==
  ASSUME NEW a \in Nat, NEW b \in Nat
  PROVE  /\ Max({a, b}) \in {a, b} /\ Max({a, b}) >= a /\ Max({a, b}) >= b
         /\ Min({a, b}) \in {a, b} /\ Min({a, b}) <= a /\ Min({a, b}) <= b
<1>1. \E x \in {a, b} : \A y \in {a, b} : x >= y
  OBVIOUS
<1>2. \E x \in {a, b} : \A y \in {a, b} : x =< y
  OBVIOUS
<1>3. Max({a, b}) \in {a, b} /\ \A y \in {a, b} : Max({a, b}) >= y
  BY <1>1, Zenon DEF Max
<1>4. Min({a, b}) \in {a, b} /\ \A y \in {a, b} : Min({a, b}) =< y
  BY <1>2, Zenon DEF Min
<1> QED
  BY <1>3, <1>4

\* A headroom factor is at least one (in percent).
LEMMA HeadroomCovers ==
  ASSUME NEW q \in Nat, NEW h \in Nat, h >= 100
  PROVE  q * h \in Nat /\ q * h >= 100 * q
<1>1. h - 100 \in Nat /\ h = 100 + (h - 100)
  OBVIOUS
<1>2. q * (h - 100) \in Nat
  BY <1>1
<1>3. q * h = 100 * q + q * (h - 100)
  OBVIOUS
<1> QED
  BY <1>2, <1>3

\* What a resource may be reduced to: see UsageFits.
Fits(proposed, current, values, r) ==
  /\ proposed <= current
  /\ proposed < current =>
       /\ proposed >= Minimum[r]
       /\ Cardinality({i \in DOMAIN values : values[i] > proposed})
            <= CeilDiv((Len(values) - 1) * 5, 100)

\* The analysis reduces a request to what fits, or keeps it.
LEMMA RightsizedFits ==
  ASSUME NEW request \in Nat, NEW values \in Seq(Nat), Len(values) > 0, NEW r \in Resources
  PROVE  /\ Rightsized(request, values, r) \in Nat
         /\ Fits(Rightsized(request, values, r), request, values, r)
<1> DEFINE q == Quantile(values, 95)
           h == Headroom[r]
           padded == CeilDiv(q * h, 10000)
           supported == Max({padded, Minimum[r]})
           reduced == Min({request, supported})
           x == Rightsized(request, values, r)
<1>1. h \in Nat /\ h >= 100 /\ Minimum[r] \in Nat
  BY HeadroomAssumption, MinimumAssumption
<1>2. q \in Nat /\ \A y \in Nat : 100 * y >= q =>
        Cardinality({i \in DOMAIN values : values[i] > y}) <= CeilDiv((Len(values) - 1) * 5, 100)
  BY QuantileBounds
<1>3. x = request \/ x = reduced
  BY DEF Rightsized
<1> HIDE DEF q, h, x
<1>4. padded \in Nat /\ 100 * padded >= q
  <2> DEFINE a == q * h
  <2>1. a \in Nat /\ a >= 100 * q
    BY <1>1, <1>2, HeadroomCovers
  <2> HIDE DEF a
  <2>2. CeilDiv(a, 10000) \in Nat /\ 100 * CeilDiv(a, 10000) >= q
    <3>1. q \in Nat
      BY <1>2
    <3> QED
      BY <2>1, <3>1 DEF CeilDiv
  <2> QED
    BY <2>2 DEF a
<1> HIDE DEF padded
<1>5. supported \in Nat /\ supported >= padded /\ supported >= Minimum[r]
  BY <1>1, <1>4, Extremes
<1> HIDE DEF supported
<1>6. reduced \in Nat /\ reduced <= request /\ (reduced < request => reduced = supported)
  <2>1. /\ Min({request, supported}) \in {request, supported}
        /\ Min({request, supported}) <= request
    BY <1>5, Extremes
  <2> QED
    BY <1>5, <2>1
<1> HIDE DEF reduced
<1>7. x \in Nat /\ x <= request
  BY <1>3, <1>6
<1>8. ASSUME x < request PROVE x >= Minimum[r] /\ 100 * x >= q
  <2>1. x = supported
    BY <1>3, <1>6, <1>7, <1>8
  <2> QED
    BY <1>1, <1>2, <1>4, <1>5, <2>1
<1>9. Fits(x, request, values, r)
  BY <1>2, <1>7, <1>8 DEF Fits
<1> QED
  BY <1>7, <1>9 DEF x

Requests == [Resources -> Nat]

\* A draft that changes something fits the samples it shows.
DraftFits(d) ==
  /\ d.proposed \in Requests
  /\ d.proposed # d.current =>
       \A r \in Resources : Fits(d.proposed[r], d.current[r], d.evidence[r], r)

\* Requests are those of the workload at first or of a recommendation, and
\* recommendations fit.
FitInv ==
  /\ live \in Requests
  /\ \A i \in DOMAIN main : main[i] \in Requests
  /\ \A f \in Fingerprints : rec[f] # NoRec => DraftFits(rec[f].draft)

\* Whatever the providers show, the analysis makes a draft that fits.
LEMMA AnalysisFits ==
  ASSUME FitInv, NEW s, NEW draft \in Drafts(s), draft # NoDraft
  PROVE  DraftFits(draft)
<1>1. PICK o \in Observations : draft = Analyze(s, o)
  BY DEF Drafts
<1>2. o.usage \in [Resources -> Seq(Nat)] /\ o.requested \in Requests
  BY ObservationsAssumption DEF Requests
<1>3. CASE s = "workload"
  <2> DEFINE proposed == [r \in Resources |-> Rightsized(live[r], o.usage[r], r)]
  <2>1. draft = AnalyzeWorkload(live, o)
    BY <1>1, <1>3 DEF Analyze
  <2>2. /\ ~ WindowProblem(o)
        /\ draft = [kind |-> "WORKLOAD_RIGHTSIZING", current |-> live,
                    proposed |-> proposed, evidence |-> o.usage]
    BY <2>1, Zenon DEF AnalyzeWorkload
  <2>3. ASSUME NEW r \in Resources
        PROVE  /\ Rightsized(live[r], o.usage[r], r) \in Nat
               /\ Fits(Rightsized(live[r], o.usage[r], r), live[r], o.usage[r], r)
    <3>1. live[r] \in Nat /\ o.usage[r] \in Seq(Nat)
      BY <1>2 DEF FitInv, Requests
    <3>2. Len(o.usage[r]) > 0
      <4>1. ~ (Len(o.usage[r]) < MinSamples) /\ Len(o.usage[r]) \in Nat
        BY <2>2, <3>1 DEF WindowProblem
      <4> QED
        BY <4>1, SamplesAssumption
    <3> QED
      BY <3>1, <3>2, RightsizedFits
  <2>4. proposed \in Requests /\ \A r \in Resources : Fits(proposed[r], live[r], o.usage[r], r)
    BY <2>3 DEF Requests
  <2>5. draft.proposed = proposed /\ draft.current = live /\ draft.evidence = o.usage
    BY <2>2
  <2> HIDE DEF proposed
  <2> QED
    BY <2>4, <2>5 DEF DraftFits
<1>4. CASE s # "workload"
  <2>1. draft = AnalyzeNodes(o)
    BY <1>1, <1>4 DEF Analyze
  <2>2. draft = [kind |-> "NODE_EFFICIENCY", current |-> o.requested,
                 proposed |-> o.requested, evidence |-> o.usage]
    BY <2>1, Zenon DEF AnalyzeNodes
  <2>3. draft.proposed = o.requested /\ draft.current = o.requested
    BY <2>2
  <2> QED
    BY <1>2, <2>3 DEF DraftFits
<1> QED
  BY <1>3, <1>4

\* A recommendation that was not there before was made by an analysis.
LEMMA NewIsAnalysed ==
  ASSUME PullInv, Next, NEW f \in Fingerprints, rec[f] = NoRec, rec'[f] # NoRec
  PROVE  \E s : \E draft \in Drafts(s) : draft # NoDraft /\ rec'[f].draft = draft
<1>0. rec \in [Fingerprints -> Recs] /\ prop \in [Proposers -> Props]
  BY DEF PullInv, PullTypes
<1>1. ASSUME NEW s, NEW draft \in Drafts(s), NEW g \in Fingerprints \cup {None},
             Persist(draft, g)
      PROVE  draft # NoDraft /\ rec'[f].draft = draft
  <2>1. draft # NoDraft
    BY <1>1 DEF Persist
  <2>2. g = f /\ rec'[f] = Recommendation(draft)
    BY <1>0, <1>1, <2>1 DEF Persist
  <2> QED
    BY <2>1, <2>2 DEF Recommendation
<1>2. CASE rec' = rec
  BY <1>2
<1>3. ASSUME NEW p \in Proposers, CommitProposal(p) PROVE FALSE
  <2>1. PropInv(p) /\ prop[p].step = "committing"
    BY <1>3 DEF PullInv, CommitProposal
  <2>2. rec[prop[p].f] # NoRec
    BY <2>1 DEF PropInv
  <2> QED
    BY <1>0, <1>3, <2>2 DEF CommitProposal
<1>4. ASSUME NEW g \in Fingerprints, Expire(g) PROVE FALSE
  BY <1>0, <1>4 DEF Expire
<1>5. CASE \E e \in Executions : OwnStep(e)
  BY <1>2, <1>5 DEF OwnStep, CheckStart, InsertExecution, SendTask, NoteTask,
     StopExecution, Deliver, HearPost, PostTimeout, HearMark, MarkTimeout,
     WorkerLost, MarkFailed
<1>6. ASSUME NEW e \in Executions, NEW n \in Posts,
             LockExecution(e, n) \/ FinishJob(e, n) \/ CollectFails(e, n)
      PROVE  \E s : \E draft \in Drafts(s) : draft # NoDraft /\ rec'[f].draft = draft
  <2>1. CASE FinishJob(e, n)
    <3>1. PICK draft \in Drafts(exe[e].scenario), g \in Fingerprints \cup {None} :
            Persist(draft, g)
      BY <2>1 DEF FinishJob
    <3> QED
      BY <1>1, <3>1
  <2>2. CASE LockExecution(e, n) \/ CollectFails(e, n)
    BY <1>2, <2>2 DEF LockExecution, CollectFails
  <2> QED
    BY <1>6, <2>1, <2>2
<1>7. CASE Crash
  BY <1>2, <1>7 DEF Crash
<1>8. CASE OtherStep
  <2>1. ASSUME NEW a \in Analysts, AnalyzeNow(a)
        PROVE  \E s : \E draft \in Drafts(s) : draft # NoDraft /\ rec'[f].draft = draft
    <3>1. PICK draft \in UNION {Drafts(s) : s \in Scenarios}, g \in Fingerprints \cup {None} :
            Persist(draft, g)
      BY <2>1 DEF AnalyzeNow
    <3>2. PICK s \in Scenarios : draft \in Drafts(s)
      BY <3>1
    <3> QED
      BY <1>1, <3>1, <3>2
  <2> QED
    BY <1>2, <1>3, <1>4, <1>8, <2>1 DEF OtherStep, Propose, ReadFile,
       CreateBranch, UpdateFile, CreatePullRequest, CallFails, Merge, Sync
<1> QED
  BY <1>5, <1>6, <1>7, <1>8, NextParts

\* At first there is no recommendation.
LEMMA InitFitInv == Init => FitInv
<1> SUFFICES ASSUME Init PROVE FitInv
  OBVIOUS
<1>1. live \in Requests /\ \A i \in DOMAIN main : main[i] \in Requests
  BY InitialAssumption DEF Init, Requests
<1>2. \A f \in Fingerprints : rec[f] = NoRec
  BY DEF Init
<1> QED
  BY <1>1, <1>2 DEF FitInv

\* Main and the workload only get requests that some draft proposed.
LEMMA RequestsStep ==
  ASSUME PullInv, FitInv, Next
  PROVE  live' \in Requests /\ \A i \in DOMAIN main' : main'[i] \in Requests
<1>0. /\ main \in Seq({main[i] : i \in DOMAIN main}) /\ Len(main) >= 1
      /\ live \in Requests /\ \A i \in DOMAIN main : main[i] \in Requests
      /\ prs \in Seq(PRs)
  BY DEF PullInv, PullTypes, FitInv
<1>1. CASE UNCHANGED <<live, main>>
  BY <1>0, <1>1
<1>2. CASE Merge
  <2>1. PICK i \in DOMAIN prs : main' = Append(main, rec[prs[i].head].draft.proposed)
    BY <1>2 DEF Merge
  <2>2. prs[i] \in PRs /\ HeadInv(i)
    BY <1>0 DEF PullInv
  <2>3. rec[prs[i].head].draft.proposed \in Requests
    BY <2>2 DEF PRs, HeadInv, FitInv, DraftFits
  <2> DEFINE x == rec[prs[i].head].draft.proposed
  <2>4. x \in Requests /\ main' = Append(main, x)
    BY <2>1, <2>3
  <2> HIDE DEF x
  <2>5. main \in Seq(Requests)
    BY <1>0
  <2>6. main' \in Seq(Requests)
    BY <2>4, <2>5
  <2> QED
    BY <1>0, <1>2, <2>6 DEF Merge
<1>3. CASE Sync
  <2>1. Len(main) \in DOMAIN main
    BY <1>0
  <2> QED
    BY <1>0, <1>3, <2>1 DEF Sync, github
<1>4. CASE \E e \in Executions : OwnStep(e)
  BY <1>1, <1>4 DEF OwnStep, CheckStart, InsertExecution, SendTask, NoteTask,
     StopExecution, Deliver, HearPost, PostTimeout, HearMark, MarkTimeout,
     WorkerLost, MarkFailed, github
<1>5. ASSUME NEW e \in Executions, NEW n \in Posts,
             LockExecution(e, n) \/ FinishJob(e, n) \/ CollectFails(e, n)
      PROVE  UNCHANGED <<live, main>>
  BY <1>5 DEF LockExecution, FinishJob, CollectFails, github
<1>6. CASE Crash
  BY <1>1, <1>6 DEF Crash, github
<1>7. CASE OtherStep
  BY <1>1, <1>2, <1>3, <1>7 DEF OtherStep, AnalyzeNow, Propose, ReadFile, CreateBranch,
     UpdateFile, CreatePullRequest, CallFails, CommitProposal, Expire, github
<1> QED
  BY <1>1, <1>4, <1>5, <1>6, <1>7, NextParts

\* FitInv is inductive beside PullInv.
LEMMA FitInvStep == PullInv /\ PullInv' /\ FitInv /\ [Next]_vars => FitInv'
<1> SUFFICES ASSUME PullInv, PullInv', FitInv, [Next]_vars PROVE FitInv'
  OBVIOUS
<1>1. CASE UNCHANGED vars
  BY <1>1 DEF vars, github, FitInv
<1>2. CASE Next
  <2>1. ASSUME NEW f \in Fingerprints, rec'[f] # NoRec
        PROVE  DraftFits(rec'[f].draft)
    <3>1. CASE rec[f] # NoRec
      BY <1>2, <3>1, DraftsStay DEF FitInv
    <3>2. CASE rec[f] = NoRec
      BY <1>2, <2>1, <3>2, NewIsAnalysed, AnalysisFits
    <3> QED
      BY <3>1, <3>2
  <2> QED
    BY <1>2, <2>1, RequestsStep DEF FitInv, NoRec, DraftFits
<1> QED
  BY <1>1, <1>2

\* A recommendation asks for no more than the workload has, and where it asks
\* for less, for no less than the minimum, and no more samples are above it
\* than the share above the 95th percentile: for every series of samples,
\* every headroom of at least one and every history of changes
\* (FinOpsEngine.analyze_workload).
THEOREM ReductionsFitTheUsage == Spec => []UsageFits
<1>1. FitInv => UsageFits
  BY DEF FitInv, DraftFits, Fits, UsageFits
<1> QED
  BY <1>1, InitFitInv, FitInvStep, PullInvHolds, PTL DEF Spec
=============================================================================
