---------------------------- MODULE Notifications ----------------------------
(***************************************************************************)
(* The notification outbox: NotificationService.queue and deliver of       *)
(* backend/app/notifications/service.py, the internal endpoint that calls  *)
(* deliver (api/notifications.py) and the Celery task that calls the       *)
(* endpoint (worker/tasks/notifications.py).                               *)
(*                                                                         *)
(* `t` names a workflow's transaction and the row it adds for one channel. *)
(* The task is sent while that transaction is still open, so it may run    *)
(* before the row exists, or for a row that never will.  The worker gives  *)
(* up on a call after a timeout and repeats it although the first one may  *)
(* still run, and a lost worker's task is delivered again (acks_late).     *)
(***************************************************************************)
EXTENDS Naturals

CONSTANTS
  Txns,         \* workflow transactions that queue a notification
  Keys,         \* values of (channel, dedupe_key)
  MaxAttempts,  \* notification_max_attempts
  MaxRetries,   \* max_retries of the Celery task
  MaxLost       \* bound on workers lost while they run one task

ASSUME MaxAttemptsAssumption == MaxAttempts \in Nat \ {0}
ASSUME MaxRetriesAssumption == MaxRetries \in Nat
ASSUME MaxLostAssumption == MaxLost \in Nat

VARIABLES
  key,       \* key[t]: what t queues
  external,  \* external[t]: a Teams message, not the dashboard's stream event
  txn,       \* txn[t]: the workflow's transaction
  status,    \* status[t]: committed status of the row t added ("none": no row)
  attempts,  \* attempts[t]: committed attempts of that row
  task,      \* task[t]: the Celery task of that row
  call,      \* call[t][n]: the request to the endpoint made by run n of the task
  posted,    \* posted[t]: messages that reached the channel
  unacked    \* unacked[t]: posted messages the row does not know of

rows == <<status, attempts>>
world == <<posted, unacked>>
vars == <<key, external, txn, rows, task, call, world>>

Runs == 1..(MaxRetries + 1 + MaxLost)
Settled == {"SUCCEEDED", "FAILED"}
\* The steps in which a call holds the row's lock.
Holding == {"locked", "sent", "refused", "unanswered"}
Answer == {"none", "ok", "retryable", "final"}

NoTask == [step |-> "none", retries |-> 0, run |-> 0]
NoCall == [step |-> "none", answer |-> "none"]

Init ==
  /\ key \in [Txns -> Keys]
  /\ external \in [Txns -> BOOLEAN]
  /\ txn = [t \in Txns |-> "new"]
  /\ status = [t \in Txns |-> "none"]
  /\ attempts = [t \in Txns |-> 0]
  /\ task = [t \in Txns |-> NoTask]
  /\ call = [t \in Txns |-> [n \in Runs |-> NoCall]]
  /\ posted = [t \in Txns |-> 0]
  /\ unacked = [t \in Txns |-> 0]

RowLocked(t) == \E n \in Runs : call[t][n].step \in Holding
Respond(t, n, answer) ==
  call' = [call EXCEPT ![t][n] = [step |-> "answered", answer |-> answer]]

-----------------------------------------------------------------------------
(* Slips a maintainer could make; the runs show that the properties below  *)
(* notice each of them.                                                    *)

\* The row is read without FOR UPDATE.
ReadUnlocked(t, n) ==
  /\ call[t][n].step = "open"
  /\ \/ /\ status[t] = "SUCCEEDED"
        /\ Respond(t, n, "ok")
     \/ /\ status[t] # "SUCCEEDED"
        /\ status[t] = "none" \/ attempts[t] >= MaxAttempts
        /\ Respond(t, n, "retryable")
     \/ /\ status[t] \notin {"none", "SUCCEEDED"}
        /\ attempts[t] < MaxAttempts
        /\ call' = [call EXCEPT ![t][n].step = "locked"]
  /\ UNCHANGED <<key, external, txn, rows, task, world>>

\* The task carries the message, so a missing row does not stop it.
ReadWithoutRow(t, n) ==
  /\ call[t][n].step = "open"
  /\ ~RowLocked(t)
  /\ \/ /\ status[t] = "SUCCEEDED"
        /\ Respond(t, n, "ok")
     \/ /\ status[t] # "SUCCEEDED" /\ attempts[t] >= MaxAttempts
        /\ Respond(t, n, "retryable")
     \/ /\ status[t] # "SUCCEEDED"
        /\ attempts[t] < MaxAttempts
        /\ call' = [call EXCEPT ![t][n].step = "locked"]
  /\ UNCHANGED <<key, external, txn, rows, task, world>>

\* A failed delivery is counted but a last one is not told apart.
CommitFailureAsPending(t, n) ==
  /\ call[t][n].step \in {"refused", "unanswered"}
  /\ attempts' = [attempts EXCEPT ![t] = @ + 1]
  /\ status' = [status EXCEPT ![t] = "PENDING"]
  /\ \E answer \in {"retryable", "final"} : Respond(t, n, answer)
  /\ UNCHANGED <<key, external, txn, task, world>>

\* The task publishes itself again instead of asking for a counted retry.
RetryUncounted(t) == task' = [task EXCEPT ![t].step = "ready"]

-----------------------------------------------------------------------------
(* Queueing inside a workflow's transaction.                               *)

\* A row with the key exists: it is returned, nothing is sent.
QueueExisting(t) ==
  /\ txn[t] = "new"
  /\ \E u \in Txns : key[u] = key[t] /\ status[u] # "none"
  /\ txn' = [txn EXCEPT ![t] = "joined"]
  /\ UNCHANGED <<key, external, rows, task, call, world>>

\* No committed row has the key.
QueueNew(t) ==
  /\ txn[t] = "new"
  /\ \A u \in Txns : key[u] = key[t] => status[u] = "none"
  /\ txn' = [txn EXCEPT ![t] = "selected"]
  /\ UNCHANGED <<key, external, rows, task, call, world>>

\* The INSERT waits for another transaction that added the key, and fails with
\* the whole workflow transaction once that one has committed.  The task is
\* sent, or the broker refuses it and only an audit row says so.
Insert(t) ==
  /\ txn[t] = "selected"
  /\ \A u \in Txns : key[u] = key[t] => txn[u] # "open"
  /\ IF \E u \in Txns : key[u] = key[t] /\ status[u] # "none"
     THEN txn' = [txn EXCEPT ![t] = "aborted"] /\ UNCHANGED task
     ELSE /\ txn' = [txn EXCEPT ![t] = "open"]
          /\ \/ task' = [task EXCEPT ![t] = [step |-> "ready", retries |-> 0, run |-> 0]]
             \/ UNCHANGED task
  /\ UNCHANGED <<key, external, rows, call, world>>

\* The workflow commits, and the PENDING row with it, or rolls back.
CommitTxn(t) ==
  /\ txn[t] = "open"
  /\ txn' = [txn EXCEPT ![t] = "committed"]
  /\ status' = [status EXCEPT ![t] = "PENDING"]
  /\ UNCHANGED <<key, external, attempts, task, call, world>>

AbortTxn(t) ==
  /\ txn[t] \in {"selected", "open"}
  /\ txn' = [txn EXCEPT ![t] = "aborted"]
  /\ UNCHANGED <<key, external, rows, task, call, world>>

-----------------------------------------------------------------------------
(* The endpoint: deliver and its commit.                                   *)

\* SELECT ... FOR UPDATE and the early returns: 404 without a row, the row
\* itself when it succeeded, 409 when no attempt is left.
Read(t, n) ==
  /\ call[t][n].step = "open"
  /\ ~RowLocked(t)
  /\ \/ /\ status[t] = "SUCCEEDED"
        /\ Respond(t, n, "ok")
     \/ /\ status[t] # "SUCCEEDED"
        /\ status[t] = "none" \/ attempts[t] >= MaxAttempts
        /\ Respond(t, n, "retryable")
     \/ /\ status[t] \notin {"none", "SUCCEEDED"}
        /\ attempts[t] < MaxAttempts
        /\ call' = [call EXCEPT ![t][n].step = "locked"]
  /\ UNCHANGED <<key, external, txn, rows, task, world>>

\* notifier.deliver: the channel accepts, refuses, or accepts with an answer
\* that does not arrive.  The dashboard's stream event is a row of the same
\* transaction: it cannot fail and appears with the commit.
Send(t, n) ==
  /\ call[t][n].step = "locked"
  /\ \/ /\ call' = [call EXCEPT ![t][n].step = "sent"]
        /\ posted' = IF external[t] THEN [posted EXCEPT ![t] = @ + 1] ELSE posted
        /\ UNCHANGED unacked
     \/ /\ external[t]
        /\ call' = [call EXCEPT ![t][n].step = "refused"]
        /\ UNCHANGED world
     \/ /\ external[t]
        /\ call' = [call EXCEPT ![t][n].step = "unanswered"]
        /\ posted' = [posted EXCEPT ![t] = @ + 1]
        /\ unacked' = [unacked EXCEPT ![t] = @ + 1]
  /\ UNCHANGED <<key, external, txn, rows, task>>

CommitSuccess(t, n) ==
  /\ call[t][n].step = "sent"
  /\ attempts' = [attempts EXCEPT ![t] = @ + 1]
  /\ status' = [status EXCEPT ![t] = "SUCCEEDED"]
  /\ posted' = IF external[t] THEN posted ELSE [posted EXCEPT ![t] = @ + 1]
  /\ Respond(t, n, "ok")
  /\ UNCHANGED <<key, external, txn, task, unacked>>

\* A CloudWardError is committed too.  The worker repeats 404, 408, 409, 429
\* and 5xx and takes another 4xx for final.
CommitFailure(t, n) ==
  /\ call[t][n].step \in {"refused", "unanswered"}
  /\ attempts' = [attempts EXCEPT ![t] = @ + 1]
  /\ status' = [status EXCEPT ![t] =
                  IF attempts[t] + 1 >= MaxAttempts THEN "FAILED" ELSE "PENDING"]
  /\ \E answer \in {"retryable", "final"} : Respond(t, n, answer)
  /\ UNCHANGED <<key, external, txn, task, world>>

\* Any other exception, or the end of the process: the transaction and its
\* attempt are rolled back.
CrashCall(t, n) ==
  /\ call[t][n].step \in {"open"} \cup Holding
  /\ unacked' = IF external[t] /\ call[t][n].step = "sent"
                THEN [unacked EXCEPT ![t] = @ + 1] ELSE unacked
  /\ Respond(t, n, "retryable")
  /\ UNCHANGED <<key, external, txn, rows, task, posted>>

-----------------------------------------------------------------------------
(* The Celery task.                                                        *)

StartRun(t) ==
  LET n == task[t].run + 1 IN
  /\ task[t].step = "ready"
  /\ n \in Runs
  /\ task' = [task EXCEPT ![t].step = "calling", ![t].run = n]
  /\ call' = [call EXCEPT ![t][n].step = "open"]
  /\ UNCHANGED <<key, external, txn, rows, world>>

\* self.retry: the task ends with the exception once max_retries is reached.
Retry(t) ==
  task' = IF task[t].retries < MaxRetries
          THEN [task EXCEPT ![t].step = "ready", ![t].retries = @ + 1]
          ELSE [task EXCEPT ![t].step = "ended"]

EndRun(t) ==
  LET answer == call[t][task[t].run].answer IN
  /\ task[t].step = "calling"
  /\ answer # "none"
  /\ \/ answer = "retryable" /\ Retry(t)
     \/ answer \in {"ok", "final"} /\ task' = [task EXCEPT ![t].step = "ended"]
  /\ UNCHANGED <<key, external, txn, rows, call, world>>

\* No answer within 25 seconds; the call goes on without the worker.
TimeoutRun(t) ==
  /\ task[t].step = "calling"
  /\ call[t][task[t].run].answer = "none"
  /\ Retry(t)
  /\ UNCHANGED <<key, external, txn, rows, call, world>>

\* The worker is lost: the unacknowledged task is delivered again with the
\* same number of retries.
LoseWorker(t) ==
  /\ task[t].step = "calling"
  /\ task[t].run - task[t].retries <= MaxLost
  /\ task' = [task EXCEPT ![t].step = "ready"]
  /\ UNCHANGED <<key, external, txn, rows, call, world>>

-----------------------------------------------------------------------------
Workflow(t) ==
  QueueExisting(t) \/ QueueNew(t) \/ Insert(t) \/ CommitTxn(t) \/ AbortTxn(t)
Deliver(t, n) == Read(t, n) \/ Send(t, n) \/ CommitSuccess(t, n) \/ CommitFailure(t, n)
Work(t) == StartRun(t) \/ EndRun(t)

Next ==
  \E t \in Txns :
    \/ Workflow(t) \/ Work(t) \/ TimeoutRun(t) \/ LoseWorker(t)
    \/ \E n \in Runs : Deliver(t, n) \/ CrashCall(t, n)

Spec == Init /\ [][Next]_vars

\* A transaction ends, a call to a channel is bounded by a timeout, and the
\* broker hands a waiting task to a worker.
FairSpec ==
  /\ Spec
  /\ \A t \in Txns :
       /\ WF_vars(Work(t))
       /\ WF_vars(CommitTxn(t) \/ AbortTxn(t))
       /\ \A n \in Runs : WF_vars(Deliver(t, n))

-----------------------------------------------------------------------------
(* Properties.                                                             *)

\* Every variable has its type; no row counts more attempts than allowed.
TypeOK ==
  /\ key \in [Txns -> Keys]
  /\ external \in [Txns -> BOOLEAN]
  /\ txn \in [Txns -> {"new", "joined", "selected", "open", "committed", "aborted"}]
  /\ status \in [Txns -> {"none", "PENDING"} \cup Settled]
  /\ attempts \in [Txns -> 0..MaxAttempts]
  /\ task \in [Txns -> [step: {"none", "ready", "calling", "ended"},
                        retries: 0..MaxRetries, run: {0} \cup Runs]]
  /\ call \in [Txns -> [Runs -> [step: {"none", "open", "answered"} \cup Holding,
                                 answer: Answer]]]
  /\ posted \in [Txns -> Nat]
  /\ unacked \in [Txns -> Nat]

\* Nobody is told about what did not happen: a message leaves only for a
\* workflow that committed, although its task was sent before.
PostedIsCommitted == \A t \in Txns : posted[t] > 0 => txn[t] = "committed"

\* Timeouts, retries and repeated tasks post nothing twice: every message but
\* one is one whose acknowledgement was lost.
PostedOnce == \A t \in Txns : posted[t] <= 1 + unacked[t]

\* A row says SUCCEEDED only of a message that was posted and acknowledged,
\* and FAILED exactly when the last attempt failed.
StatusIsHonest ==
  \A t \in Txns :
    /\ status[t] = "SUCCEEDED" => posted[t] > unacked[t]
    /\ status[t] = "FAILED" => attempts[t] = MaxAttempts
    /\ status[t] = "PENDING" => attempts[t] < MaxAttempts

\* A sent task ends: bounded retries, and no call waits forever for a row.
TasksEnd == \A t \in Txns : task[t].step = "ready" ~> task[t].step = "ended"

\* The rows are sound: attempts are limited and the status says what happened
\* to the message (NotificationService.deliver).
RowsAreSound == TypeOK /\ StatusIsHonest
=============================================================================
