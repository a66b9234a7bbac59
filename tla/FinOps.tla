-------------------------------- MODULE FinOps --------------------------------
(***************************************************************************)
(* The FinOps scenarios and their pull requests: start_scenario and        *)
(* stop_execution (api/incident_lab.py), the worker task                   *)
(* (worker/tasks/finops.py), the analysis and pull request endpoints       *)
(* (api/finops.py), FinOpsRecommendationService (finops/service.py) and    *)
(* GitHubChangeProposalService.create_once (github/service.py).            *)
(*                                                                         *)
(* A session that runs an analysis keeps the row of its execution locked   *)
(* while it asks OpenCost and Prometheus; one that makes a pull request    *)
(* keeps the row of its recommendation while it asks GitHub.  A post the   *)
(* worker gave up on goes on.  A recommendation is named by its            *)
(* fingerprint, which holds the instant of the observation: every analysis *)
(* makes a new one (two in one microsecond are left out).                  *)
(***************************************************************************)
EXTENDS FinOpsEngine, FiniteSets

CONSTANTS
  Executions,    \* executions the operators start
  Analysts,      \* operators' requests for an analysis
  Proposers,     \* operators' requests for a pull request
  Fingerprints,  \* bound: recommendations
  Observations,  \* what the providers may show
  Initial,       \* the workload's requests at first
  MaxRetries,    \* retries of the task (five)
  MaxCrashes,    \* bound: crashes of the API or of a worker
  MaxCommits,    \* bound: commits on main
  None

ASSUME MaxRetriesAssumption == MaxRetries \in Nat
ASSUME MaxCrashesAssumption == MaxCrashes \in Nat
ASSUME NoneAssumption == None \notin Fingerprints
ASSUME InitialAssumption == Initial \in [Resources -> Nat]
ASSUME ObservationsAssumption ==
  \A o \in Observations : /\ o.usage \in [Resources -> Seq(Nat)]
                          /\ o.requested \in [Resources -> Nat]

Posts == 0..(MaxRetries + MaxCrashes)
Jobs == Executions \X Posts
Scenarios == {"workload", "nodes"}

VARIABLES
  exe,      \* exe[e]: committed row of execution e
  start,    \* start[e]: the request that starts it
  task,     \* task[e]: its task in the worker
  job,      \* job[<<e, n>>]: the session of the n-th post of the task
  mark,     \* mark[e]: the session that marks e failed
  analyst,  \* analyst[a]: an operator's analysis
  rec,      \* rec[f]: committed recommendation f, or NoRec
  record,   \* record[f]: its GitHubAutomationRecord (number of the PR)
  prop,     \* prop[p]: a request for a pull request
  branch,   \* GitHub: branch[f], "none", "created" or "updated"
  prs,      \* GitHub: the pull requests, by number
  main,     \* GitHub: requests in the values file, commit by commit
  live,     \* requests of the running workload
  crashes   \* crashes so far

github == <<branch, prs, main>>
runs == <<exe, start, task, job, mark>>
vars == <<runs, analyst, rec, record, prop, github, live, crashes>>

Ended == {"SUCCEEDED", "FAILED", "CANCELLED"}
Idle == [step |-> "idle", f |-> None, base |-> 1, number |-> 0]
NoRec == [draft |-> NoDraft, status |-> "NONE", fresh |-> FALSE, pr |-> 0]

Init ==
  /\ exe = [e \in Executions |-> [status |-> "NONE", scenario |-> "none",
                                  details |-> "STARTING", f |-> None]]
  /\ start = [e \in Executions |-> "idle"]
  /\ task = [e \in Executions |-> [step |-> "unsent", retries |-> 0, posts |-> 0]]
  /\ job = [j \in Jobs |-> "none"]
  /\ mark = [e \in Executions |-> "none"]
  /\ analyst = [a \in Analysts |-> "idle"]
  /\ rec = [f \in Fingerprints |-> NoRec]
  /\ record = [f \in Fingerprints |-> 0]
  /\ prop = [p \in Proposers |-> Idle]
  /\ branch = [f \in Fingerprints |-> "none"]
  /\ prs = <<>>
  /\ main = <<Initial>>
  /\ live = Initial
  /\ crashes = 0

\* Some session keeps the row of e.
Locked(e) == \E n \in Posts : job[<<e, n>>] = "collecting"

-----------------------------------------------------------------------------
(* start_scenario and stop_execution.                                      *)

\* The scenario has no active execution; nothing keeps it so.
CheckStart(e) ==
  /\ start[e] = "idle"
  /\ \E s \in Scenarios :
       /\ \A x \in Executions : exe[x].scenario = s => exe[x].status # "RUNNING"
       /\ exe' = [exe EXCEPT ![e].scenario = s]
  /\ start' = [start EXCEPT ![e] = "checked"]
  /\ UNCHANGED <<task, job, mark, analyst, rec, record, prop, github, live, crashes>>

InsertExecution(e) ==
  /\ start[e] = "checked"
  /\ exe' = [exe EXCEPT ![e].status = "RUNNING"]
  /\ start' = [start EXCEPT ![e] = "sending"]
  /\ UNCHANGED <<task, job, mark, analyst, rec, record, prop, github, live, crashes>>

\* The task is sent after the commit; when the broker refuses it, the
\* execution stays without one.
SendTask(e) ==
  /\ start[e] = "sending"
  /\ \/ /\ task' = [task EXCEPT ![e].step = "queued"]
        /\ start' = [start EXCEPT ![e] = "noting"]
     \/ /\ start' = [start EXCEPT ![e] = "over"]
        /\ UNCHANGED task
  /\ UNCHANGED <<exe, job, mark, analyst, rec, record, prop, github, live, crashes>>

\* The id of the task is written into the details as they were at the start:
\* the outcome of a run that was faster is lost from them.
NoteTask(e) ==
  /\ start[e] = "noting"
  /\ ~ Locked(e)
  /\ exe' = [exe EXCEPT ![e].details = "STARTING", ![e].f = None]
  /\ start' = [start EXCEPT ![e] = "over"]
  /\ UNCHANGED <<task, job, mark, analyst, rec, record, prop, github, live, crashes>>

\* Nothing is to be cleaned up: one transaction.
StopExecution(e) ==
  /\ exe[e].status = "RUNNING"
  /\ ~ Locked(e)
  /\ exe' = [exe EXCEPT ![e].status = "CANCELLED", ![e].details = "CANCELLED"]
  /\ UNCHANGED <<start, task, job, mark, analyst, rec, record, prop, github, live, crashes>>

-----------------------------------------------------------------------------
(* The task of the worker.                                                 *)

Deliver(e) ==
  /\ task[e].step = "queued"
  /\ job' = [job EXCEPT ![<<e, task[e].posts>>] = "waiting"]
  /\ task' = [task EXCEPT ![e].step = "posting", ![e].posts = @ + 1]
  /\ UNCHANGED <<exe, start, mark, analyst, rec, record, prop, github, live, crashes>>

Answer(e) == job[<<e, task[e].posts - 1>>]

Exhausted(e) == task[e].retries >= MaxRetries

\* An error answer (a 409 too) or the timeout of the post: another try, or
\* the call that marks the execution failed.  (Other 4xx answers need a
\* wrong token or a wrong catalog.)
Fail(e) ==
  IF Exhausted(e)
  THEN /\ task' = [task EXCEPT ![e].step = "marking"]
       /\ mark' = [mark EXCEPT ![e] = "waiting"]
  ELSE /\ task' = [task EXCEPT ![e].step = "queued", ![e].retries = @ + 1]
       /\ UNCHANGED mark

HearPost(e) ==
  /\ task[e].step = "posting"
  /\ \/ /\ Answer(e) = "ok"
        /\ task' = [task EXCEPT ![e].step = "done"]
        /\ UNCHANGED mark
     \/ /\ Answer(e) = "error"
        /\ Fail(e)
  /\ UNCHANGED <<exe, start, job, analyst, rec, record, prop, github, live, crashes>>

PostTimeout(e) ==
  /\ task[e].step = "posting"
  /\ Answer(e) \in {"waiting", "collecting"}
  /\ Fail(e)
  /\ UNCHANGED <<exe, start, job, analyst, rec, record, prop, github, live, crashes>>

HearMark(e) ==
  /\ task[e].step = "marking"
  /\ mark[e] = "over"
  /\ task' = [task EXCEPT ![e].step = "done"]
  /\ UNCHANGED <<exe, start, job, mark, analyst, rec, record, prop, github, live, crashes>>

\* That call is not repeated: its timeout, or the soft time limit of the
\* task, ends the task.
MarkTimeout(e) ==
  /\ task[e].step = "marking"
  /\ mark[e] = "waiting"
  /\ task' = [task EXCEPT ![e].step = "lost"]
  /\ UNCHANGED <<exe, start, job, mark, analyst, rec, record, prop, github, live, crashes>>

\* The worker process dies: the message is delivered again, with its count
\* of retries.
WorkerLost(e) ==
  /\ crashes < MaxCrashes
  /\ task[e].step \in {"posting", "marking"}
  /\ task' = [task EXCEPT ![e].step = "queued"]
  /\ crashes' = crashes + 1
  /\ UNCHANGED <<exe, start, job, mark, analyst, rec, record, prop, github, live>>

-----------------------------------------------------------------------------
(* The worker's endpoints and the operators' analysis.                     *)

\* A slip: only a successful execution is recognised as finished.
LockExecutionAny(e, n) ==
  /\ job[<<e, n>>] = "waiting"
  /\ ~ Locked(e)
  /\ job' = [job EXCEPT ![<<e, n>>] =
               IF exe[e].status = "SUCCEEDED" THEN "ok" ELSE "collecting"]
  /\ UNCHANGED <<exe, start, task, mark, analyst, rec, record, prop, github, live, crashes>>

\* A finished execution answers what it stored; one that failed or was
\* cancelled is a 409.
LockExecution(e, n) ==
  /\ job[<<e, n>>] = "waiting"
  /\ ~ Locked(e)
  /\ job' = [job EXCEPT ![<<e, n>>] =
               CASE exe[e].status = "SUCCEEDED" -> "ok"
                 [] exe[e].status = "RUNNING" -> "collecting"
                 [] OTHER -> "error"]
  /\ UNCHANGED <<exe, start, task, mark, analyst, rec, record, prop, github, live, crashes>>

Analyze(s, o) == IF s = "workload" THEN AnalyzeWorkload(live, o) ELSE AnalyzeNodes(o)

\* What the analysis may make of what the providers show.
Drafts(s) == {Analyze(s, o) : o \in Observations}

Recommendation(draft) ==
  [draft |-> draft, status |-> "RECOMMENDED", fresh |-> TRUE, pr |-> 0]

\* persist_result: a draft becomes a row with a new fingerprint f.
Persist(draft, f) ==
  IF draft = NoDraft THEN f = None /\ UNCHANGED rec
  ELSE /\ f # None /\ rec[f] = NoRec
       /\ rec' = [rec EXCEPT ![f] = Recommendation(draft)]

\* The recommendation and the end of the execution are one commit.
FinishJob(e, n) ==
  /\ job[<<e, n>>] = "collecting"
  /\ \E draft \in Drafts(exe[e].scenario), f \in Fingerprints \cup {None} :
       /\ Persist(draft, f)
       /\ exe' = [exe EXCEPT ![e] = [@ EXCEPT !.status = "SUCCEEDED",
                                              !.details = "COMPLETE", !.f = f]]
  /\ job' = [job EXCEPT ![<<e, n>>] = "ok"]
  /\ UNCHANGED <<start, task, mark, analyst, record, prop, github, live, crashes>>

\* A provider is unavailable, or has no or ambiguous data.
CollectFails(e, n) ==
  /\ job[<<e, n>>] = "collecting"
  /\ job' = [job EXCEPT ![<<e, n>>] = "error"]
  /\ UNCHANGED <<exe, start, task, mark, analyst, rec, record, prop, github, live, crashes>>

\* A slip: the mark is acknowledged and not written.
MarkFailedPending(e) ==
  /\ mark[e] = "waiting"
  /\ ~ Locked(e)
  /\ mark' = [mark EXCEPT ![e] = "over"]
  /\ UNCHANGED <<exe, start, task, job, analyst, rec, record, prop, github, live, crashes>>

\* fail_finops_scenario_job: only an active execution.
MarkFailed(e) ==
  /\ mark[e] = "waiting"
  /\ ~ Locked(e)
  /\ exe' = IF exe[e].status = "RUNNING"
            THEN [exe EXCEPT ![e].status = "FAILED", ![e].details = "FAILED"]
            ELSE exe
  /\ mark' = [mark EXCEPT ![e] = "over"]
  /\ UNCHANGED <<start, task, job, analyst, rec, record, prop, github, live, crashes>>

\* An operator's analysis outside the Incident Lab.
AnalyzeNow(a) ==
  /\ analyst[a] = "idle"
  /\ \E draft \in UNION {Drafts(s) : s \in Scenarios}, f \in Fingerprints \cup {None} :
       Persist(draft, f)
  /\ analyst' = [analyst EXCEPT ![a] = "over"]
  /\ UNCHANGED <<runs, record, prop, github, live, crashes>>

-----------------------------------------------------------------------------
(* create_finops_pr.                                                       *)

Set(p, r) == prop' = [prop EXCEPT ![p] = r]
To(p, step) == Set(p, [prop[p] EXCEPT !.step = step])
Over == [Idle EXCEPT !.step = "over"]

RowLocked(f) == \E p \in Proposers : prop[p].f = f

\* build_gitops_proposal: a workload's recommendation, not expired.
Proposable(r) ==
  /\ r.draft.kind = "WORKLOAD_RIGHTSIZING"
  /\ r.status \in {"RECOMMENDED", "PR_CREATED"}
  /\ r.fresh

\* The row is locked and checked; the operator names the base commit.  (A
\* refused request changes nothing: its EXPIRED is not committed.  The
\* preview is this check alone.)
Propose(p) ==
  /\ prop[p] = Idle
  /\ \E f \in Fingerprints, base \in DOMAIN main :
       /\ rec[f] # NoRec
       /\ ~ RowLocked(f)
       /\ Proposable(rec[f])
       /\ Set(p, [Idle EXCEPT !.step = "reading", !.f = f, !.base = base])
  /\ UNCHANGED <<runs, analyst, rec, record, github, live, crashes>>

\* patch_gitops_values: the file at the base commit holds the requests the
\* evidence is about.
Matches(p) == main[prop[p].base] = rec[prop[p].f].draft.current

\* create_once looks for its GitHubAutomationRecord.
OnRecord(f) == record[f] # 0

\* A pull request on record is answered again; otherwise a branch is made.
ReadFile(p) ==
  /\ prop[p].step = "reading"
  /\ IF ~ Matches(p) THEN Set(p, Over)
     ELSE IF OnRecord(prop[p].f)
     THEN Set(p, [prop[p] EXCEPT !.step = "committing", !.number = record[prop[p].f]])
     ELSE To(p, "branching")
  /\ UNCHANGED <<runs, analyst, rec, record, github, live, crashes>>

\* A call took effect and its answer came, or was lost with the session.
Answered(p, r) == Set(p, r) \/ Set(p, Over)

\* A slip: an existing branch is taken for one's own.
CreateBranchAgain(p) ==
  /\ prop[p].step = "branching"
  /\ branch' = [branch EXCEPT ![prop[p].f] = "created"]
  /\ Answered(p, [prop[p] EXCEPT !.step = "updating"])
  /\ UNCHANGED <<runs, analyst, rec, record, prs, main, live, crashes>>

\* The name of the branch is that of the recommendation: GitHub refuses a
\* second one.
CreateBranch(p) ==
  /\ prop[p].step = "branching"
  /\ branch[prop[p].f] = "none"
  /\ branch' = [branch EXCEPT ![prop[p].f] = "created"]
  /\ Answered(p, [prop[p] EXCEPT !.step = "updating"])
  /\ UNCHANGED <<runs, analyst, rec, record, prs, main, live, crashes>>

\* The blob named is that of the base commit, where the branch started.
UpdateFile(p) ==
  /\ prop[p].step = "updating"
  /\ branch' = [branch EXCEPT ![prop[p].f] = "updated"]
  /\ Answered(p, [prop[p] EXCEPT !.step = "opening"])
  /\ UNCHANGED <<runs, analyst, rec, record, prs, main, live, crashes>>

CreatePullRequest(p) ==
  /\ prop[p].step = "opening"
  /\ prs' = Append(prs, [head |-> prop[p].f, base |-> prop[p].base, merged |-> FALSE])
  /\ Answered(p, [prop[p] EXCEPT !.step = "committing", !.number = Len(prs) + 1])
  /\ UNCHANGED <<runs, analyst, rec, record, branch, main, live, crashes>>

\* GitHub fails, or refuses (the branch exists): nothing is written.
CallFails(p) ==
  /\ prop[p].step \in {"reading", "branching", "updating", "opening"}
  /\ Set(p, Over)
  /\ UNCHANGED <<runs, analyst, rec, record, github, live, crashes>>

\* The last step of create_once.
RecordPullRequest(p) == record' = [record EXCEPT ![prop[p].f] = prop[p].number]

\* record_pr_created and the record of create_once: one commit.
CommitProposal(p) ==
  /\ prop[p].step = "committing"
  /\ rec' = [rec EXCEPT ![prop[p].f] = [@ EXCEPT !.status = "PR_CREATED", !.pr = prop[p].number]]
  /\ RecordPullRequest(p)
  /\ Set(p, Over)
  /\ UNCHANGED <<runs, analyst, github, live, crashes>>

-----------------------------------------------------------------------------
(* The environment.                                                        *)

\* expires_at passes.
Expire(f) ==
  /\ rec[f] # NoRec
  /\ rec[f].fresh
  /\ rec' = [rec EXCEPT ![f].fresh = FALSE]
  /\ UNCHANGED <<runs, analyst, record, prop, github, live, crashes>>

\* A reviewer merges a pull request; a base that main has left is a
\* conflict.
Merge ==
  /\ Len(main) < MaxCommits
  /\ \E i \in DOMAIN prs :
       /\ ~ prs[i].merged
       /\ main[prs[i].base] = main[Len(main)]
       /\ main' = Append(main, rec[prs[i].head].draft.proposed)
       /\ prs' = [prs EXCEPT ![i].merged = TRUE]
  /\ UNCHANGED <<runs, analyst, rec, record, prop, branch, live, crashes>>

\* Argo CD deploys what main says.
Sync ==
  /\ live # main[Len(main)]
  /\ live' = main[Len(main)]
  /\ UNCHANGED <<runs, analyst, rec, record, prop, github, crashes>>

\* The API process dies with its sessions: their rows are rolled back, what
\* GitHub did stays.
Crash ==
  /\ crashes < MaxCrashes
  /\ crashes' = crashes + 1
  /\ job' = [j \in Jobs |-> IF job[j] \in {"waiting", "collecting"} THEN "error" ELSE job[j]]
  /\ mark' = [e \in Executions |-> IF mark[e] = "waiting" THEN "none" ELSE mark[e]]
  /\ task' = [e \in Executions |->
                IF task[e].step = "marking" /\ mark[e] = "waiting"
                THEN [task[e] EXCEPT !.step = "lost"] ELSE task[e]]
  /\ start' = [e \in Executions |-> IF start[e] = "idle" THEN "idle" ELSE "over"]
  /\ prop' = [p \in Proposers |-> IF prop[p] = Idle THEN Idle ELSE Over]
  /\ UNCHANGED <<exe, analyst, rec, record, github, live>>

Next ==
  \/ \E e \in Executions :
       \/ CheckStart(e) \/ InsertExecution(e) \/ SendTask(e) \/ NoteTask(e)
       \/ StopExecution(e) \/ Deliver(e) \/ HearPost(e) \/ PostTimeout(e)
       \/ HearMark(e) \/ MarkTimeout(e) \/ WorkerLost(e) \/ MarkFailed(e)
  \/ \E e \in Executions, n \in Posts :
       LockExecution(e, n) \/ FinishJob(e, n) \/ CollectFails(e, n)
  \/ \E a \in Analysts : AnalyzeNow(a)
  \/ \E p \in Proposers :
       \/ Propose(p) \/ ReadFile(p) \/ CreateBranch(p) \/ UpdateFile(p)
       \/ CreatePullRequest(p) \/ CallFails(p) \/ CommitProposal(p)
  \/ \E f \in Fingerprints : Expire(f)
  \/ Merge \/ Sync \/ Crash

Spec == Init /\ [][Next]_vars

-----------------------------------------------------------------------------
(* Properties.                                                             *)

\* Types; a task is delivered no more often than its retries and the crashes
\* of its worker account for.
TypeOK ==
  /\ \A e \in Executions :
       /\ exe[e].status \in {"NONE", "RUNNING"} \cup Ended
       /\ exe[e].f \in Fingerprints \cup {None}
       /\ start[e] \in {"idle", "checked", "sending", "noting", "over"}
       /\ task[e].step \in {"unsent", "queued", "posting", "marking", "done", "lost"}
       /\ task[e].retries \in 0..MaxRetries
       /\ task[e].posts \in 0..(task[e].retries + 1 + crashes)
       /\ mark[e] \in {"none", "waiting", "over"}
  /\ \A j \in Jobs : job[j] \in {"none", "waiting", "collecting", "ok", "error"}
  /\ \A f \in Fingerprints : record[f] \in 0..Len(prs)
  /\ crashes \in 0..MaxCrashes

\* What ended has ended: a run that comes back after the operator stopped the
\* execution, or after the worker gave it up, does not change its status.
EndIsFinal ==
  [][\A e \in Executions : exe[e].status \in Ended => exe'[e].status = exe[e].status]_vars

\* A task that returned has settled its execution, whichever of its posts,
\* the stop and the mark came first.
DoneIsSettled == \A e \in Executions : task[e].step = "done" => exe[e].status \in Ended

\* The recommendation a successful execution names exists and is of its
\* scenario, also where the run was repeated.
SucceededNamesItsOwn ==
  \A e \in Executions :
    exe[e].f # None =>
      /\ exe[e].status = "SUCCEEDED"
      /\ rec[exe[e].f] # NoRec
      /\ (exe[e].scenario = "workload") = (rec[exe[e].f].draft.kind = "WORKLOAD_RIGHTSIZING")

\* A recommendation has one pull request at most, whatever requests were
\* repeated after an answer, or the process, was lost.
OnePullRequest ==
  \A i, k \in DOMAIN prs : prs[i].head = prs[k].head => i = k

\* A pull request the console shows exists on GitHub, is that of its
\* recommendation, and is the one create_once would answer again.
ShownIsReal ==
  \A f \in Fingerprints :
    (rec[f] # NoRec /\ rec[f].status = "PR_CREATED") =>
      /\ rec[f].pr \in DOMAIN prs
      /\ prs[rec[f].pr].head = f
      /\ record[f] = rec[f].pr

\* Every change of the values file comes from a recommendation whose evidence
\* was about the requests it replaces.
EveryChangeIsEvidenced ==
  \A i \in 2..Len(main) :
    \E f \in Fingerprints : /\ rec[f] # NoRec
                            /\ rec[f].draft.current = main[i - 1]
                            /\ rec[f].draft.proposed = main[i]

\* A request is never raised, never set below the minimum, and reduced only
\* so far that all but a twentieth of the samples stay within it.
UsageFits ==
  \A f \in Fingerprints : \A r \in Resources :
    (rec[f] # NoRec /\ rec[f].draft.proposed # rec[f].draft.current) =>
      LET d == rec[f].draft
          above == {i \in DOMAIN d.evidence[r] : d.evidence[r][i] > d.proposed[r]}
      IN /\ d.proposed[r] <= d.current[r]
         /\ d.proposed[r] < d.current[r] =>
              /\ d.proposed[r] >= Minimum[r]
              /\ Cardinality(above) <= CeilDiv((Len(d.evidence[r]) - 1) * 5, 100)

\* An execution ends as what its run did, within the deliveries its task may
\* have (run_finops_scenario_job, fail_finops_scenario_job).
ExecutionsSettle == TypeOK /\ DoneIsSettled /\ SucceededNamesItsOwn

\* Recommendations, pull requests and the values file agree (create_once).
PullRequestsAgree == OnePullRequest /\ ShownIsReal /\ EveryChangeIsEvidenced
=============================================================================
