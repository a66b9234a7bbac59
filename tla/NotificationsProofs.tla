------------------------- MODULE NotificationsProofs -------------------------
(***************************************************************************)
(* Proofs about the notification outbox for any number of transactions,    *)
(* keys, attempts, retries and lost workers.                               *)
(*                                                                         *)
(* PostedOnce speaks of the channel and of the row; between the two stands *)
(* the one call that holds the row's lock.  OutboxInv says who may hold it *)
(* and, for each state of that call, what the row still owes the channel.  *)
(***************************************************************************)
EXTENDS Notifications, TLAPS

\* A call has posted a Teams message that the row does not know of yet.
InFlight(t) == external[t] /\ \E n \in Runs : call[t][n].step = "sent"

\* The row lock: one holder, and only of a row that may still be delivered.
LockInv(t) ==
  /\ \A n \in Runs : call[t][n].step \in Holding =>
       status[t] \notin {"none", "SUCCEEDED"} /\ attempts[t] < MaxAttempts
  /\ \A m, n \in Runs :
       call[t][m].step \in Holding /\ call[t][n].step \in Holding => m = n

\* The row is the commit's, and an empty one before it.
RowInv(t) ==
  /\ status[t] # "none" => txn[t] = "committed"
  /\ status[t] = "none" => attempts[t] = 0 /\ posted[t] = 0
  /\ status[t] = "FAILED" => attempts[t] = MaxAttempts
  /\ status[t] = "PENDING" => attempts[t] < MaxAttempts

\* Messages posted, messages the row lost sight of, and the one in flight.
CountInv(t) ==
  /\ InFlight(t) => posted[t] = unacked[t] + 1
  /\ ~InFlight(t) /\ status[t] # "SUCCEEDED" => posted[t] = unacked[t]
  /\ status[t] = "SUCCEEDED" => posted[t] = unacked[t] + 1

\* A task's next run has made no call; there is no task before the INSERT.
FreshInv(t) ==
  /\ txn[t] \in {"new", "selected"} => task[t] = NoTask
  /\ \A n \in Runs : n > task[t].run => call[t][n] = NoCall

OutboxInv(t) == LockInv(t) /\ RowInv(t) /\ CountInv(t) /\ FreshInv(t)
IndInv == TypeOK /\ \A t \in Txns : OutboxInv(t)

-----------------------------------------------------------------------------
USE MaxAttemptsAssumption, MaxRetriesAssumption, MaxLostAssumption

Steps == {"none", "open", "answered"} \cup Holding
Calls == [step: Steps, answer: Answer]
Tasks == [step: {"none", "ready", "calling", "ended"},
          retries: 0..MaxRetries, run: {0} \cup Runs]

\* The types of the parts of a record, and of a record with a part replaced.
LEMMA CallFields ==
  ASSUME NEW c \in Calls, NEW st \in Steps, NEW a \in Answer
  PROVE  /\ c.step \in Steps /\ c.answer \in Answer
         /\ [c EXCEPT !.step = st] \in Calls
         /\ [c EXCEPT !.step = st].step = st
         /\ [step |-> st, answer |-> a] \in Calls
  BY DEF Calls

\* The same for the task.
LEMMA TaskFields ==
  ASSUME NEW k \in Tasks, NEW st \in {"ready", "calling", "ended"}
  PROVE  /\ k.retries \in Nat /\ k.run \in Nat
         /\ [k EXCEPT !.step = st] \in Tasks
         /\ \A n \in Runs : /\ [k EXCEPT !.step = st, !.run = n] \in Tasks
                             /\ [k EXCEPT !.step = st, !.run = n].run = n
         /\ k.retries < MaxRetries =>
              [k EXCEPT !.step = st, !.retries = @ + 1] \in Tasks
<1>1. k.retries \in 0..MaxRetries
  BY DEF Tasks
<1>2. k.retries < MaxRetries => k.retries + 1 \in 0..MaxRetries
  BY <1>1
<1>3. k.retries \in Nat /\ k.run \in Nat
  BY <1>1 DEF Tasks, Runs
<1> QED
  BY <1>2, <1>3 DEF Tasks

\* A call's record changes in one place only.
LEMMA CallUpdate ==
  ASSUME call \in [Txns -> [Runs -> Calls]], NEW t \in Txns, NEW n \in Runs,
         NEW c \in Calls, call' = [call EXCEPT ![t][n] = c]
  PROVE  /\ call' \in [Txns -> [Runs -> Calls]]
         /\ call'[t][n] = c
         /\ \A m \in Runs : m # n => call'[t][m] = call[t][m]
         /\ \A u \in Txns : u # t => call'[u] = call[u]
  OBVIOUS

\* What an endpoint's step does to the calls: call n of t moves to `to`.
Moves(t, n, to) ==
  /\ call' \in [Txns -> [Runs -> Calls]]
  /\ call'[t][n].step = to
  /\ \A m \in Runs : m # n => call'[t][m] = call[t][m]
  /\ \A u \in Txns : u # t => call'[u] = call[u]

\* Moving a call on, and answering it, are moves.
LEMMA StepMoves ==
  ASSUME TypeOK, NEW t \in Txns, NEW n \in Runs, NEW st \in Steps,
         call' = [call EXCEPT ![t][n].step = st]
  PROVE  Moves(t, n, st)
<1>1. call \in [Txns -> [Runs -> Calls]] /\ call[t][n] \in Calls
  BY DEF TypeOK, Calls, Steps
<1> DEFINE c == [call[t][n] EXCEPT !.step = st]
<1>2. c \in Calls /\ c.step = st
  BY <1>1, CallFields DEF Answer
<1>3. call' = [call EXCEPT ![t][n] = c]
  BY <1>1
<1> HIDE DEF c
<1> QED
  BY <1>1, <1>2, <1>3, CallUpdate DEF Moves

\* An answered call has left the row.
LEMMA RespondMoves ==
  ASSUME TypeOK, NEW t \in Txns, NEW n \in Runs, NEW a \in Answer,
         Respond(t, n, a)
  PROVE  Moves(t, n, "answered")
<1>1. call \in [Txns -> [Runs -> Calls]]
  BY DEF TypeOK, Calls, Steps
<1> DEFINE c == [step |-> "answered", answer |-> a]
<1>2. c \in Calls /\ c.step = "answered"
  BY DEF Calls, Steps
<1>3. call' = [call EXCEPT ![t][n] = c]
  BY DEF Respond
<1> HIDE DEF c
<1> QED
  BY <1>1, <1>2, <1>3, CallUpdate DEF Moves

\* A row nothing of which changed keeps its invariant.
LEMMA OutboxFrame ==
  ASSUME NEW u \in Txns, OutboxInv(u),
         UNCHANGED <<txn[u], task[u], external[u], status[u], attempts[u], call[u],
                     posted[u], unacked[u]>>
  PROVE  OutboxInv(u)'
  BY DEF OutboxInv, FreshInv, LockInv, RowInv, CountInv, InFlight

\* The initial states satisfy the invariant.
LEMMA InitIndInv == Init => IndInv
<1> SUFFICES ASSUME Init PROVE IndInv
  OBVIOUS
<1>1. NoCall \in Calls /\ NoTask \in Tasks
  BY DEF NoCall, NoTask, Calls, Tasks, Steps, Answer
<1>2. TypeOK
  BY <1>1 DEF Init, TypeOK, Calls, Tasks, Steps, Settled
<1>3. ASSUME NEW t \in Txns PROVE OutboxInv(t)
  <2>1. \A n \in Runs : call[t][n] = NoCall /\ call[t][n].step = "none"
    BY DEF Init, NoCall
  <2>2. /\ task[t] = NoTask /\ status[t] = "none" /\ attempts[t] = 0 /\ posted[t] = 0
        /\ unacked[t] = 0
    BY DEF Init
  <2> QED
    BY <2>1, <2>2
       DEF OutboxInv, LockInv, RowInv, CountInv, FreshInv, InFlight, Holding
<1> QED
  BY <1>2, <1>3 DEF IndInv

-----------------------------------------------------------------------------
(* The workflow's transaction and the Celery task.                         *)

\* The steps of a workflow, its commit and its rollback keep the invariant.
LEMMA WorkflowStep ==
  ASSUME IndInv, NEW t \in Txns, Workflow(t)
  PROVE  IndInv'
<1> USE DEF rows, world
<1>1. TypeOK'
  <2>1. \/ task' = task
        \/ task' = [task EXCEPT ![t] = [step |-> "ready", retries |-> 0, run |-> 0]]
    BY DEF Workflow, QueueExisting, QueueNew, Insert, CommitTxn, AbortTxn
  <2>2. [step |-> "ready", retries |-> 0, run |-> 0] \in Tasks
    BY DEF Tasks
  <2>3. task' \in [Txns -> Tasks]
    BY <2>1, <2>2 DEF IndInv, TypeOK, Tasks
  <2> QED
    BY <2>3 DEF IndInv, TypeOK, Tasks, Workflow, QueueExisting, QueueNew,
       Insert, CommitTxn, AbortTxn, Settled
<1>2. ASSUME NEW u \in Txns PROVE OutboxInv(u)'
  <2>0. OutboxInv(u)
    BY DEF IndInv
  <2>1. FreshInv(u)'
    <3>1. call' = call
      BY DEF Workflow, QueueExisting, QueueNew, Insert, CommitTxn, AbortTxn
    <3>2. u # t => UNCHANGED <<txn[u], task[u]>>
      BY DEF Workflow, QueueExisting, QueueNew, Insert, CommitTxn, AbortTxn,
         IndInv, TypeOK
    <3>3. task'[u].run = task[u].run
      <4>1. CASE Insert(t) /\ u = t
        BY <2>0, <4>1 DEF Insert, OutboxInv, FreshInv, NoTask, IndInv, TypeOK
      <4> QED
        BY <3>2, <4>1 DEF Workflow, QueueExisting, QueueNew, Insert, CommitTxn,
           AbortTxn
    <3>4. txn'[t] \in {"new", "selected"} => txn[t] = "new" /\ task' = task
      BY DEF Workflow, QueueExisting, QueueNew, Insert, CommitTxn, AbortTxn,
         IndInv, TypeOK
    <3> QED
      BY <2>0, <3>1, <3>2, <3>3, <3>4 DEF OutboxInv, FreshInv
  <2>2. CASE CommitTxn(t) /\ u = t
    <3>1. /\ txn[t] = "open" /\ txn'[t] = "committed" /\ status'[t] = "PENDING"
          /\ UNCHANGED <<external, attempts, call, posted, unacked>>
      BY <2>2 DEF CommitTxn, IndInv, TypeOK
    <3>2. status[t] = "none"
      BY <2>0, <2>2, <3>1 DEF OutboxInv, RowInv
    <3> QED
      BY <2>0, <2>1, <2>2, <3>1, <3>2
         DEF OutboxInv, LockInv, RowInv, CountInv, InFlight
  <2>3. CASE ~(CommitTxn(t) /\ u = t)
    <3>1. UNCHANGED <<external[u], status[u], attempts[u], call[u], posted[u],
                      unacked[u]>>
      BY <2>3 DEF Workflow, QueueExisting, QueueNew, Insert, CommitTxn,
         AbortTxn, IndInv, TypeOK
    <3>2. txn'[u] = txn[u] \/ txn[u] # "committed"
      BY <2>3 DEF Workflow, QueueExisting, QueueNew, Insert, CommitTxn,
         AbortTxn, IndInv, TypeOK
    <3> QED
      BY <2>0, <2>1, <3>1, <3>2
         DEF OutboxInv, LockInv, RowInv, CountInv, InFlight
  <2> QED
    BY <2>2, <2>3
<1> QED
  BY <1>1, <1>2 DEF IndInv

\* A task never exceeds max_retries, and its steps do not touch the row.
LEMMA TaskStep ==
  ASSUME IndInv, NEW t \in Txns,
         StartRun(t) \/ EndRun(t) \/ TimeoutRun(t) \/ LoseWorker(t)
  PROVE  IndInv'
<1> USE DEF rows, world
<1>0. TypeOK /\ task[t] \in Tasks /\ task \in [Txns -> Tasks]
  BY DEF IndInv, TypeOK, Tasks
<1>1. UNCHANGED <<key, external, txn, status, attempts, posted, unacked>>
  BY DEF StartRun, EndRun, TimeoutRun, LoseWorker
<1>2. CASE StartRun(t)
  <2> DEFINE n == task[t].run + 1
             k == [task[t] EXCEPT !.step = "calling", !.run = n]
  <2>1. n \in Runs /\ task[t].run \in Nat /\ k \in Tasks /\ k.run = n
    BY <1>0, <1>2, TaskFields DEF StartRun
  <2>2. task[t].step = "ready" /\ task' = [task EXCEPT ![t] = k]
    BY <1>0, <1>2 DEF StartRun
  <2>3. call' = [call EXCEPT ![t][n].step = "open"]
    BY <1>2 DEF StartRun
  <2>4. Moves(t, n, "open")
    BY <1>0, <2>1, <2>3, StepMoves DEF Steps
  <2> HIDE DEF k
  <2>5. task' \in [Txns -> Tasks] /\ task'[t] = k
    BY <1>0, <2>1, <2>2
  <2>6. TypeOK'
    BY <1>1, <2>4, <2>5 DEF IndInv, TypeOK, Tasks, Moves, Calls, Steps
  <2>7. ASSUME NEW u \in Txns, u # t PROVE OutboxInv(u)'
    <3>1. UNCHANGED <<task[u], call[u]>>
      BY <1>0, <2>2, <2>4, <2>7 DEF Moves
    <3> QED
      BY <1>1, <2>7, <3>1, OutboxFrame DEF IndInv
  <2>8. OutboxInv(t)'
    <3>1. OutboxInv(t)
      BY DEF IndInv
    <3>2. call[t][n].step = "none"
      BY <2>1, <3>1 DEF OutboxInv, FreshInv, NoCall, Runs
    <3>3. /\ \A m \in Runs : m # n => call'[t][m] = call[t][m]
          /\ call'[t][n].step = "open"
      BY <2>4 DEF Moves
    <3>4. LockInv(t)' /\ RowInv(t)' /\ CountInv(t)'
      BY <1>1, <3>1, <3>2, <3>3
         DEF OutboxInv, LockInv, RowInv, CountInv, InFlight, Holding
    <3>5. FreshInv(t)'
      <4>1. txn[t] \notin {"new", "selected"}
        BY <2>2, <3>1 DEF OutboxInv, FreshInv, NoTask
      <4>2. \A m \in Runs : m > n => call'[t][m] = NoCall
        BY <2>1, <3>1, <3>3 DEF OutboxInv, FreshInv, Runs
      <4> QED
        BY <1>1, <2>1, <2>5, <4>1, <4>2 DEF FreshInv
    <3> QED
      BY <3>4, <3>5 DEF OutboxInv
  <2> QED
    BY <2>6, <2>7, <2>8 DEF IndInv
<1>3. CASE EndRun(t) \/ TimeoutRun(t) \/ LoseWorker(t)
  <2>1. /\ call' = call
        /\ \E k \in Tasks : /\ task' = [task EXCEPT ![t] = k]
                             /\ k.run = task[t].run
        /\ task[t].step = "calling"
    <3>1. task[t].step = "calling" /\ call' = call
      BY <1>3 DEF EndRun, TimeoutRun, LoseWorker
    <3>2. CASE LoseWorker(t)
      <4> DEFINE k == [task[t] EXCEPT !.step = "ready"]
      <4>1. k \in Tasks /\ k.run = task[t].run
        BY <1>0, TaskFields DEF Tasks
      <4> QED
        BY <1>0, <3>1, <3>2, <4>1 DEF LoseWorker
    <3>3. CASE task' = [task EXCEPT ![t].step = "ended"]
      <4> DEFINE k == [task[t] EXCEPT !.step = "ended"]
      <4>1. k \in Tasks /\ k.run = task[t].run
        BY <1>0, TaskFields DEF Tasks
      <4> QED
        BY <1>0, <3>1, <3>3, <4>1
    <3>4. CASE /\ task[t].retries < MaxRetries
               /\ task' = [task EXCEPT ![t].step = "ready", ![t].retries = @ + 1]
      <4> DEFINE k == [task[t] EXCEPT !.step = "ready", !.retries = @ + 1]
      <4>1. k \in Tasks /\ k.run = task[t].run
        BY <1>0, <3>4, TaskFields DEF Tasks
      <4> QED
        BY <1>0, <3>1, <3>4, <4>1
    <3> QED
      BY <1>3, <3>1, <3>2, <3>3, <3>4 DEF EndRun, TimeoutRun, Retry
  <2>2. PICK k \in Tasks : task' = [task EXCEPT ![t] = k] /\ k.run = task[t].run
    BY <2>1
  <2>3. TypeOK'
    BY <1>0, <1>1, <2>1, <2>2 DEF TypeOK, Tasks
  <2>4. ASSUME NEW u \in Txns PROVE OutboxInv(u)'
    <3>1. OutboxInv(u)
      BY DEF IndInv
    <3>2. task'[u].run = task[u].run /\ (u # t => task'[u] = task[u])
      BY <1>0, <2>2
    <3>3. u = t => txn[u] \notin {"new", "selected"}
      BY <2>1, <3>1 DEF OutboxInv, FreshInv, NoTask
    <3>4. FreshInv(u)'
      BY <1>1, <2>1, <3>1, <3>2, <3>3 DEF OutboxInv, FreshInv
    <3> QED
      BY <1>1, <2>1, <3>1, <3>4
         DEF OutboxInv, LockInv, RowInv, CountInv, InFlight
  <2> QED
    BY <2>3, <2>4 DEF IndInv
<1> QED
  BY <1>2, <1>3

-----------------------------------------------------------------------------
(* The endpoint.                                                           *)

\* Only the row of t and what was posted for it changed.
OnlyRow(t) ==
  /\ UNCHANGED <<key, external, txn, task>>
  /\ status' \in [Txns -> {"none", "PENDING"} \cup Settled]
  /\ attempts' \in [Txns -> 0..MaxAttempts]
  /\ posted' \in [Txns -> Nat]
  /\ unacked' \in [Txns -> Nat]
  /\ \A u \in Txns : u # t =>
       UNCHANGED <<status[u], attempts[u], posted[u], unacked[u]>>

\* A step of a call that was made leaves the other rows and the freshness of
\* the next calls alone: what is left to show is about its own row.
LEMMA CallFrame ==
  ASSUME IndInv, NEW t \in Txns, NEW n \in Runs, NEW to \in Steps,
         Moves(t, n, to), call[t][n].step # "none", OnlyRow(t),
         LockInv(t)', RowInv(t)', CountInv(t)'
  PROVE  IndInv'
<1>1. TypeOK'
  BY DEF IndInv, TypeOK, Moves, Calls, Steps, OnlyRow
<1>2. FreshInv(t)'
  BY DEF IndInv, OutboxInv, FreshInv, Moves, NoCall, OnlyRow
<1>3. ASSUME NEW u \in Txns, u # t PROVE OutboxInv(u)'
  <2>1. UNCHANGED <<txn[u], task[u], external[u], status[u], attempts[u],
                    call[u], posted[u], unacked[u]>>
    BY <1>3 DEF OnlyRow, Moves
  <2> QED
    BY <2>1, OutboxFrame DEF IndInv
<1> QED
  BY <1>1, <1>2, <1>3 DEF IndInv, OutboxInv

\* deliver and its commit, and the loss of the call at any of its steps.
LEMMA EndpointStep ==
  ASSUME IndInv, NEW t \in Txns, NEW n \in Runs,
         Deliver(t, n) \/ CrashCall(t, n)
  PROVE  IndInv'
<1> USE DEF rows, world
<1>0. /\ TypeOK /\ LockInv(t) /\ RowInv(t) /\ CountInv(t)
      /\ status[t] \in {"none", "PENDING"} \cup Settled
      /\ attempts[t] \in 0..MaxAttempts
      /\ posted[t] \in Nat /\ unacked[t] \in Nat
  BY DEF IndInv, OutboxInv, TypeOK
<1>1. UNCHANGED <<key, external, txn, task>>
  BY DEF Deliver, Read, Send, CommitSuccess, CommitFailure, CrashCall
<1> DEFINE from == call[t][n].step
<1>2. CASE Read(t, n)
  <2>1. /\ from = "open" /\ \A m \in Runs : call[t][m].step \notin Holding
        /\ UNCHANGED <<status, attempts, posted, unacked>> /\ OnlyRow(t)
    BY <1>0, <1>1, <1>2 DEF Read, RowLocked, OnlyRow, TypeOK
  <2>2. CASE Moves(t, n, "answered")
    <3>1. \A m \in Runs : call'[t][m].step \notin Holding
      BY <2>1, <2>2 DEF Moves, Holding
    <3>2. LockInv(t)' /\ RowInv(t)' /\ CountInv(t)'
      BY <1>0, <1>1, <2>1, <3>1 DEF LockInv, RowInv, CountInv, InFlight, Holding
    <3> QED
      BY <2>1, <2>2, <3>2, CallFrame DEF Steps
  <2>3. CASE /\ Moves(t, n, "locked")
             /\ status[t] \notin {"none", "SUCCEEDED"} /\ attempts[t] < MaxAttempts
    <3>1. /\ \A m \in Runs : m # n => call'[t][m].step \notin Holding
          /\ \A m \in Runs : call'[t][m].step # "sent"
      BY <2>1, <2>3 DEF Moves, Holding
    <3>2. LockInv(t)' /\ RowInv(t)' /\ CountInv(t)'
      BY <1>0, <1>1, <2>1, <2>3, <3>1 DEF LockInv, RowInv, CountInv, InFlight, Holding
    <3> QED
      BY <2>1, <2>3, <3>2, CallFrame DEF Steps, Holding
  <2> QED
    BY <1>0, <1>2, <2>2, <2>3, StepMoves, RespondMoves
       DEF Read, Steps, Holding, Answer
<1>3. CASE Send(t, n)
  <2>1. from = "locked" /\ UNCHANGED <<status, attempts>>
    BY <1>3 DEF Send
  <2>2. \A m \in Runs : m # n => call[t][m].step \notin Holding
    BY <1>0, <2>1 DEF LockInv, Holding
  <2>3. ~InFlight(t) /\ posted[t] = unacked[t] /\ status[t] # "none"
        /\ status[t] # "SUCCEEDED" /\ attempts[t] < MaxAttempts
    BY <1>0, <2>1, <2>2 DEF InFlight, CountInv, LockInv, Holding
  <2>4. ASSUME NEW to \in {"sent", "refused", "unanswered"}, Moves(t, n, to),
               OnlyRow(t),
               to = "sent" /\ external[t] => posted'[t] = unacked'[t] + 1,
               to # "sent" \/ ~external[t] => posted'[t] = unacked'[t]
        PROVE  IndInv'
    <3>1. /\ \A m \in Runs : m # n => call'[t][m].step \notin Holding
          /\ call'[t][n].step = to /\ to \in Holding
      BY <2>2, <2>4 DEF Moves, Holding
    <3>2. InFlight(t)' <=> to = "sent" /\ external[t]
      BY <1>1, <3>1 DEF InFlight, Holding
    <3>3. LockInv(t)' /\ RowInv(t)' /\ CountInv(t)'
      BY <1>0, <1>1, <2>1, <2>3, <2>4, <3>1, <3>2 DEF LockInv, RowInv, CountInv
    <3> QED
      BY <2>1, <2>4, <3>3, CallFrame DEF Steps, Holding
  <2>5. CASE /\ call' = [call EXCEPT ![t][n].step = "sent"]
             /\ posted' = IF external[t] THEN [posted EXCEPT ![t] = @ + 1] ELSE posted
             /\ unacked' = unacked
    <3>1. Moves(t, n, "sent")
      BY <1>0, <2>5, StepMoves DEF Steps, Holding
    <3>2. /\ posted'[t] = IF external[t] THEN posted[t] + 1 ELSE posted[t]
          /\ OnlyRow(t)
      BY <1>0, <1>1, <2>1, <2>5 DEF TypeOK, OnlyRow
    <3> QED
      BY <1>0, <2>3, <2>4, <2>5, <3>1, <3>2
  <2>6. CASE /\ call' = [call EXCEPT ![t][n].step = "refused"]
             /\ posted' = posted /\ unacked' = unacked
    <3>1. Moves(t, n, "refused")
      BY <1>0, <2>6, StepMoves DEF Steps, Holding
    <3>2. OnlyRow(t)
      BY <1>0, <1>1, <2>1, <2>6 DEF TypeOK, OnlyRow
    <3> QED
      BY <1>0, <2>3, <2>4, <2>6, <3>1, <3>2
  <2>7. CASE /\ call' = [call EXCEPT ![t][n].step = "unanswered"]
             /\ posted' = [posted EXCEPT ![t] = @ + 1]
             /\ unacked' = [unacked EXCEPT ![t] = @ + 1]
    <3>1. Moves(t, n, "unanswered")
      BY <1>0, <2>7, StepMoves DEF Steps, Holding
    <3>2. /\ posted'[t] = posted[t] + 1 /\ unacked'[t] = unacked[t] + 1
          /\ OnlyRow(t)
      BY <1>0, <1>1, <2>1, <2>7 DEF TypeOK, OnlyRow
    <3> QED
      BY <1>0, <2>3, <2>4, <3>1, <3>2
  <2> QED
    BY <1>3, <2>5, <2>6, <2>7 DEF Send
<1>4. CASE CommitSuccess(t, n)
  <2>1. from = "sent" /\ unacked' = unacked
    BY <1>4 DEF CommitSuccess
  <2>2. Moves(t, n, "answered")
    BY <1>0, <1>4, RespondMoves DEF CommitSuccess, Answer
  <2>3. \A m \in Runs : call'[t][m].step \notin Holding
    BY <1>0, <2>1, <2>2 DEF LockInv, Moves, Holding
  <2>4. /\ attempts[t] < MaxAttempts /\ status[t] \notin {"none", "SUCCEEDED"}
        /\ InFlight(t) <=> external[t]
    BY <1>0, <2>1 DEF LockInv, Holding, InFlight
  <2>5. /\ status' = [status EXCEPT ![t] = "SUCCEEDED"]
        /\ attempts' = [attempts EXCEPT ![t] = attempts[t] + 1]
        /\ posted' = [posted EXCEPT ![t] = unacked[t] + 1]
    BY <1>0, <1>4, <2>4 DEF CommitSuccess, CountInv, TypeOK
  <2>6. /\ status'[t] = "SUCCEEDED" /\ attempts'[t] = attempts[t] + 1
        /\ posted'[t] = unacked[t] + 1 /\ OnlyRow(t)
    BY <1>0, <1>1, <2>1, <2>4, <2>5 DEF TypeOK, OnlyRow, Settled
  <2>7. LockInv(t)' /\ RowInv(t)' /\ CountInv(t)'
    BY <1>0, <1>1, <2>1, <2>3, <2>4, <2>6
       DEF LockInv, RowInv, CountInv, InFlight, Holding
  <2> QED
    BY <2>1, <2>2, <2>6, <2>7, CallFrame DEF Steps
<1>5. CASE CommitFailure(t, n)
  <2>1. from \in {"refused", "unanswered"} /\ UNCHANGED <<posted, unacked>>
    BY <1>5 DEF CommitFailure
  <2>2. Moves(t, n, "answered")
    BY <1>0, <1>5, RespondMoves DEF CommitFailure, Answer
  <2>3. /\ \A m \in Runs : call'[t][m].step \notin Holding
        /\ ~InFlight(t)
    BY <1>0, <2>1, <2>2 DEF LockInv, Moves, Holding, InFlight
  <2>4. attempts[t] < MaxAttempts /\ status[t] \notin {"none", "SUCCEEDED"}
    BY <1>0, <2>1 DEF LockInv, Holding
  <2> DEFINE s == IF attempts[t] + 1 >= MaxAttempts THEN "FAILED" ELSE "PENDING"
  <2>5. /\ status' = [status EXCEPT ![t] = s]
        /\ attempts' = [attempts EXCEPT ![t] = attempts[t] + 1]
    BY <1>5 DEF CommitFailure
  <2>6. status'[t] = s /\ attempts'[t] = attempts[t] + 1 /\ OnlyRow(t)
    BY <1>0, <1>1, <2>1, <2>4, <2>5 DEF TypeOK, OnlyRow, Settled
  <2>7. LockInv(t)' /\ RowInv(t)' /\ CountInv(t)'
    BY <1>0, <1>1, <2>1, <2>3, <2>4, <2>6
       DEF LockInv, RowInv, CountInv, InFlight, Holding
  <2> QED
    BY <2>1, <2>2, <2>6, <2>7, CallFrame DEF Steps
<1>6. CASE CrashCall(t, n)
  <2>1. from \in {"open"} \cup Holding /\ UNCHANGED <<status, attempts, posted>>
    BY <1>6 DEF CrashCall
  <2>2. Moves(t, n, "answered")
    BY <1>0, <1>6, RespondMoves DEF CrashCall, Answer
  <2>3. /\ \A m \in Runs : m # n => call'[t][m] = call[t][m]
        /\ call'[t][n].step \notin Holding
    BY <2>2 DEF Moves, Holding
  <2>4. unacked' = [unacked EXCEPT ![t] =
                      IF external[t] /\ from = "sent" THEN @ + 1 ELSE @]
    BY <1>0, <1>6 DEF CrashCall, TypeOK
  <2>5. unacked'[t] = IF external[t] /\ from = "sent"
                      THEN unacked[t] + 1 ELSE unacked[t]
    BY <1>0, <2>4 DEF TypeOK
  <2>0. OnlyRow(t)
    BY <1>0, <1>1, <2>1, <2>4 DEF TypeOK, OnlyRow
  <2>6. CASE from = "sent"
    <3>1. /\ \A m \in Runs : call'[t][m].step \notin Holding
          /\ status[t] # "SUCCEEDED" /\ (InFlight(t) <=> external[t])
      BY <1>0, <2>3, <2>6 DEF LockInv, Holding, InFlight
    <3>2. LockInv(t)' /\ RowInv(t)' /\ CountInv(t)'
      BY <1>0, <1>1, <2>1, <2>5, <2>6, <3>1
         DEF LockInv, RowInv, CountInv, InFlight, Holding
    <3> QED
      BY <2>0, <2>2, <2>6, <3>2, CallFrame DEF Steps
  <2>7. CASE from # "sent"
    <3>1. InFlight(t)' <=> InFlight(t)
      BY <1>1, <2>3, <2>7 DEF InFlight, Holding
    <3>2. LockInv(t)' /\ RowInv(t)' /\ CountInv(t)'
      BY <1>0, <1>1, <2>1, <2>3, <2>5, <2>7, <3>1 DEF LockInv, RowInv, CountInv
    <3> QED
      BY <2>0, <2>1, <2>2, <3>2, CallFrame DEF Steps, Holding
  <2> QED
    BY <2>6, <2>7
<1> QED
  BY <1>2, <1>3, <1>4, <1>5, <1>6 DEF Deliver

-----------------------------------------------------------------------------
(* What follows.                                                           *)

\* IndInv holds in every reachable state.
LEMMA IndInvHolds == Spec => []IndInv
<1>1. IndInv /\ [Next]_vars => IndInv'
  <2> SUFFICES ASSUME IndInv, [Next]_vars PROVE IndInv'
    OBVIOUS
  <2>1. CASE UNCHANGED vars
    <3>1. UNCHANGED <<key, external, txn, status, attempts, task, call, posted,
                      unacked>>
      BY <2>1 DEF vars, rows, world
    <3> QED
      BY <3>1, OutboxFrame DEF IndInv, TypeOK
  <2> QED
    BY <2>1, WorkflowStep, TaskStep, EndpointStep DEF Next, Work
<1> QED
  BY InitIndInv, <1>1, PTL DEF Spec

\* The rows are sound: types and attempt limits hold, SUCCEEDED is said only
\* of a message that was posted and acknowledged, FAILED exactly when the
\* last attempt failed, for any timing of calls, retries and lost workers.
THEOREM RowsStaySound == Spec => []RowsAreSound
<1>1. IndInv => RowsAreSound
  BY DEF IndInv, OutboxInv, RowInv, CountInv, RowsAreSound, StatusIsHonest,
     TypeOK
<1> QED
  BY <1>1, IndInvHolds, PTL

\* A message leaves only for a workflow whose transaction committed.
THEOREM OnlyCommittedIsPosted == Spec => []PostedIsCommitted
<1>1. IndInv => PostedIsCommitted
  BY DEF IndInv, OutboxInv, RowInv, PostedIsCommitted
<1> QED
  BY <1>1, IndInvHolds, PTL

\* Timeouts, retries and redelivered tasks post nothing twice: all messages
\* but one are messages whose acknowledgement was lost.
THEOREM MessagesArePostedOnce == Spec => []PostedOnce
<1>1. IndInv => PostedOnce
  <2> SUFFICES ASSUME IndInv, NEW t \in Txns PROVE posted[t] <= 1 + unacked[t]
    BY DEF PostedOnce
  <2>1. CountInv(t) /\ posted[t] \in Nat /\ unacked[t] \in Nat
    BY DEF IndInv, OutboxInv, TypeOK
  <2> QED
    BY <2>1 DEF CountInv
<1> QED
  BY <1>1, IndInvHolds, PTL

=============================================================================
