----------------------------- MODULE AIDiagnosis -----------------------------
(***************************************************************************)
(* Advisory diagnosis (backend/app/ai): requests of operators and jobs of  *)
(* the worker run diagnose_and_store, which admits a session by the budget *)
(* of its incident and the shared circuit breaker, asks up to three models *)
(* and stores one record; evaluate_ai_action_candidate turns a suggestion  *)
(* into a proposal.  Beside them other components move the incident, and   *)
(* both keep the incident memory (incident_memory/capture.py).             *)
(*                                                                         *)
(* A session is one database transaction: the calls it made and the record *)
(* it stores become visible at its commit, and admission holds the row     *)
(* lock of the incident until then.                                        *)
(***************************************************************************)
EXTENDS Naturals, Sequences, FiniteSets

CONSTANTS
  Incidents,
  Alerted,           \* the incidents of reliability alerts
  Sessions,          \* concurrent requests of the API
  MaxRequests,       \* bound on operators' requests
  MaxEvents,         \* bound on crashes, timeouts and moves by other components
  MaxRetries,        \* retries of the worker's task (two)
  Budget,            \* ai_max_model_calls_per_incident
  Threshold,         \* ai_circuit_breaker_failure_threshold
  PrimaryModel, FallbackModel, EscalationModel,
  HighConfidence     \* the least confidence that is not low

VARIABLES
  enabled,     \* ai_diagnosis_enabled
  incident,    \* incident[i]: the state of the row
  change,      \* change[i]: the state another transaction is about to write
  calls,       \* ModelInvocation rows of the breaker's window, oldest first: [ok, by]
  used,        \* used[i]: ModelInvocation rows of the incident
  diagnoses,   \* diagnoses[i]: statuses of its AIDiagnosisRecords, oldest first
  memory,      \* memory[i]: its IncidentMemoryRecord
  proposals,   \* proposals of the AI boundary, oldest first: [inc, diagnosis]
  ses,         \* ses[s]: a session
  task,        \* task[i]: the worker's task
  requests,    \* requests of operators so far
  events       \* crashes, timeouts and moves so far

vars == <<enabled, incident, change, calls, used, diagnoses, memory, proposals, ses, task, requests, events>>

\* Who else than a session a row belongs to: everybody, or nobody any more.
Committed == "db"
Gone == "gone"

NoMemory == [result |-> "none", diagnosis |-> 0]

Idle == [step |-> "idle", inc |-> "none", job |-> FALSE, seen |-> "OPEN",
         complex |-> FALSE, limit |-> 0, attempts |-> 0, best |-> 0, diagnosis |-> 0]

Terminal == {"RESOLVED", "ESCALATED"}

Init ==
  /\ enabled \in BOOLEAN
  /\ incident = [i \in Incidents |-> "OPEN"]
  /\ change = [i \in Incidents |-> "none"]
  /\ calls = <<>>
  /\ used = [i \in Incidents |-> 0]
  /\ diagnoses = [i \in Incidents |-> <<>>]
  /\ memory = [i \in Incidents |-> NoMemory]
  /\ proposals = <<>>
  /\ ses = [s \in Sessions |-> Idle]
  /\ task = [i \in Incidents |-> [step |-> "none", retries |-> 0, ses |-> "none"]]
  /\ requests = 0
  /\ events = 0

Event == events < MaxEvents /\ events' = events + 1
Request == requests < MaxRequests /\ requests' = requests + 1

Calling == {"primary", "fallback", "escalation"}

\* The row lock of evaluate_ai_admission, held to the end of the transaction.
Holds(s, i) == ses[s].inc = i /\ (ses[s].step \in Calling \/ (ses[s].step = "store" /\ enabled))
Locked(i) == \E s \in Sessions : Holds(s, i)

Pending(s) == Cardinality({n \in DOMAIN calls : calls[n].by = s})

-----------------------------------------------------------------------------
(* Slips a maintainer could make; the run shows that the properties below  *)
(* notice each of them.                                                    *)

\* The budget is read without the row lock.
AvailableUnlocked(i) == TRUE

\* A failed escalation discards the answer it was to improve.
SelectedLast(best, c) == c

\* Any latest diagnosis will do.
SuggestibleAny(i) == diagnoses[i] # <<>>

-----------------------------------------------------------------------------
(* The worker's task and the start of a session.                           *)

\* Reliability processing has committed, and no diagnosis exists.
Queue(i) ==
  /\ enabled
  /\ i \in Alerted
  /\ task[i].step = "none"
  /\ diagnoses[i] = <<>>
  /\ task' = [task EXCEPT ![i].step = "queued"]
  /\ UNCHANGED <<enabled, incident, change, calls, used, diagnoses, memory, proposals, ses, requests, events>>

\* self.retry of the task.
Retry(i) ==
  task' = [task EXCEPT ![i].step = IF task[i].retries < MaxRetries THEN "queued" ELSE "failed",
                       ![i].retries = IF task[i].retries < MaxRetries THEN @ + 1 ELSE @,
                       ![i].ses = "none"]

\* The session reads the incident; with AI disabled it stores at once.
Begin(s, i, job) ==
  ses' = [ses EXCEPT ![s] = [Idle EXCEPT !.step = IF enabled THEN "admit" ELSE "store",
                                         !.inc = i, !.job = job, !.seen = incident[i]]]

\* diagnose_incident_job: an existing record answers the job.
StartJob(s, i) ==
  /\ ses[s].step = "idle"
  /\ task[i].step = "queued"
  /\ IF diagnoses[i] # <<>>
     THEN task' = [task EXCEPT ![i].step = "done"] /\ UNCHANGED ses
     ELSE task' = [task EXCEPT ![i].step = "posted", ![i].ses = s] /\ Begin(s, i, TRUE)
  /\ UNCHANGED <<enabled, incident, change, calls, used, diagnoses, memory, proposals, requests, events>>

StartRequest(s, i) ==
  /\ ses[s].step = "idle"
  /\ Request
  /\ Begin(s, i, FALSE)
  /\ UNCHANGED <<enabled, incident, change, calls, used, diagnoses, memory, proposals, task, events>>

\* 290 seconds without an answer: the session goes on.
PostTimeout(i) ==
  /\ task[i].step = "posted"
  /\ Event
  /\ Retry(i)
  /\ UNCHANGED <<enabled, incident, change, calls, used, diagnoses, memory, proposals, ses, requests>>

-----------------------------------------------------------------------------
(* A diagnosis.                                                            *)

\* The row lock can be taken.
Available(i) == ~ Locked(i)

\* The calls the incident's budget leaves, by the rows on record.
Remaining(i) == Budget - used[i]

\* The latest rows of the window that others can see, as far back as all of
\* them failed.
LatestFailures ==
  {n \in DOMAIN calls : /\ calls[n].by = Committed
                        /\ \A k \in n..Len(calls) : calls[k].by = Committed => ~ calls[k].ok}

\* The latest Threshold rows failed.
CircuitOpen == Cardinality(LatestFailures) >= Threshold

\* What build_incident_context and the limit on its size can yield.
Contexts == {"invalid", "simple", "complex"}

\* evaluate_ai_admission, then the context: a refused session and one whose
\* context is invalid or too large store AI_UNAVAILABLE.
Admit(s) ==
  LET i == ses[s].inc IN
  /\ ses[s].step = "admit"
  /\ Available(i)
  /\ IF Remaining(i) > 0 /\ ~ CircuitOpen
     THEN \E c \in Contexts :
            ses' = [ses EXCEPT ![s].step = IF c = "invalid" THEN "store" ELSE "primary",
                               ![s].complex = c = "complex", ![s].limit = Remaining(i)]
     ELSE ses' = [ses EXCEPT ![s].step = "store"]
  /\ UNCHANGED <<enabled, incident, change, calls, used, diagnoses, memory, proposals, task, requests, events>>

\* Another attempt fits the limit; x is the session after an attempt.
MayTry(x) == x.attempts < x.limit

\* A successful answer replaces the one before if it is no less confident
\* (0: no answer).
Selected(best, c) == IF c >= best THEN c ELSE best

\* The model of a step.
Model(step) ==
  CASE step = "primary" -> PrimaryModel
    [] step = "fallback" -> FallbackModel
    [] OTHER -> EscalationModel

\* What the router does after an attempt that ended with confidence c (0: it
\* failed) of the model that answered.
Routed(x, c, actual) ==
  LET y == [x EXCEPT !.attempts = @ + 1, !.best = Selected(@, c)]
      unsure == /\ y.best < HighConfidence /\ y.complex /\ MayTry(y)
                /\ EscalationModel \notin {Model(x.step), actual} IN
  IF y.best = 0
  THEN [y EXCEPT !.step = IF x.step = "primary" /\ MayTry(y) /\ FallbackModel # PrimaryModel
                          THEN "fallback" ELSE "store"]
  ELSE [y EXCEPT !.step = IF x.step # "escalation" /\ unsure THEN "escalation" ELSE "store"]

\* What the provider's client makes of a call and its own retries: the
\* confidence of a valid answer, or 0.
Outcomes == 0..HighConfidence

\* The recorder adds a row to the session's transaction.
RecordInvocation(s, ok) == calls' = Append(calls, [ok |-> ok, by |-> s])

\* One attempt of DiagnosisRouter, with the retries of the provider's client
\* and the validation of its output.
Attempt(s) ==
  LET x == ses[s] IN
  /\ x.step \in Calling
  /\ \E c \in Outcomes, actual \in {Model(x.step), EscalationModel} :
       /\ RecordInvocation(s, c > 0)
       /\ ses' = [ses EXCEPT ![s] = Routed(x, c, actual)]
  /\ UNCHANGED <<enabled, incident, change, used, diagnoses, memory, proposals, task, requests, events>>

\* remember: one record per incident, written over.
Remember(i, m) == memory' = [memory EXCEPT ![i] = m]

\* capture_terminal_incident: result as the caller knows it, latest diagnosis.
Capture(i, result, known) == [result |-> result, diagnosis |-> Len(known)]

Recorded(i, status) == diagnoses' = [diagnoses EXCEPT ![i] = Append(@, status)]

\* _persist_outcome and the commit; the memory of an incident that the session
\* knows as terminal is written again.
Store(s) ==
  LET x == ses[s]
      i == x.inc
      status == IF x.best > 0 THEN "AVAILABLE" ELSE "AI_UNAVAILABLE" IN
  /\ x.step = "store"
  /\ Recorded(i, status)
  /\ IF x.seen \in Terminal THEN Remember(i, Capture(i, x.seen, diagnoses'[i]))
                            ELSE UNCHANGED memory
  /\ used' = [used EXCEPT ![i] = @ + Pending(s)]
  /\ calls' = [n \in DOMAIN calls |-> IF calls[n].by = s THEN [calls[n] EXCEPT !.by = Committed] ELSE calls[n]]
  /\ task' = IF x.job /\ task[i].ses = s THEN [task EXCEPT ![i].step = "done", ![i].ses = "none"] ELSE task
  /\ ses' = [ses EXCEPT ![s] = Idle]
  /\ UNCHANGED <<enabled, incident, change, proposals, requests, events>>

\* The process dies or the database fails: the transaction leaves nothing
\* anyone can see, although the models were called.
Crash(s) ==
  LET x == ses[s] IN
  /\ x.step # "idle"
  /\ Event
  /\ calls' = [n \in DOMAIN calls |-> IF calls[n].by = s THEN [ok |-> FALSE, by |-> Gone] ELSE calls[n]]
  /\ ses' = [ses EXCEPT ![s] = Idle]
  /\ IF x.job /\ task[x.inc].ses = s THEN Retry(x.inc) ELSE UNCHANGED task
  /\ UNCHANGED <<enabled, incident, change, used, diagnoses, memory, proposals, requests>>

\* The oldest row leaves the breaker's window.
Expire ==
  /\ calls # <<>>
  /\ Head(calls).by \in {Committed, Gone}
  /\ calls' = Tail(calls)
  /\ UNCHANGED <<enabled, incident, change, used, diagnoses, memory, proposals, ses, task, requests, events>>

-----------------------------------------------------------------------------
(* The boundary to actions.                                                *)

\* The latest diagnosis is AVAILABLE (and suggests the action).
Suggestible(i) == diagnoses[i] # <<>> /\ diagnoses[i][Len(diagnoses[i])] = "AVAILABLE"

\* _existing_gate_result: the latest diagnosis was evaluated before.
Evaluated(i) ==
  \E n \in DOMAIN proposals : proposals[n] = [inc |-> i, diagnosis |-> Len(diagnoses[i])]

\* evaluate_ai_action_candidate up to the call of OPA; an evaluation of the
\* same diagnosis is reused.
StartGate(s, i) ==
  /\ ses[s].step = "idle"
  /\ Suggestible(i)
  /\ ~ Evaluated(i)
  /\ Request
  /\ ses' = [ses EXCEPT ![s] = [Idle EXCEPT !.step = "gate", !.inc = i, !.diagnosis = Len(diagnoses[i])]]
  /\ UNCHANGED <<enabled, incident, change, calls, used, diagnoses, memory, proposals, task, events>>

\* OPA has answered: the proposal is PENDING or REJECTED, and that is all.
Gate(s) ==
  /\ ses[s].step = "gate"
  /\ proposals' = Append(proposals, [inc |-> ses[s].inc, diagnosis |-> ses[s].diagnosis])
  /\ ses' = [ses EXCEPT ![s] = Idle]
  /\ UNCHANGED <<enabled, incident, change, calls, used, diagnoses, memory, task, requests, events>>

-----------------------------------------------------------------------------
(* Other components move the incident; an operator may resolve an escalated *)
(* one.  The update waits for the row lock.                                 *)

Want(i) ==
  /\ change[i] = "none"
  /\ Event
  /\ \E target \in IF incident[i] = "OPEN" THEN Terminal ELSE {"RESOLVED"} \ {incident[i]} :
       change' = [change EXCEPT ![i] = target]
  /\ UNCHANGED <<enabled, incident, calls, used, diagnoses, memory, proposals, ses, task, requests>>

Move(i) ==
  /\ change[i] # "none"
  /\ ~ Locked(i)
  /\ incident' = [incident EXCEPT ![i] = change[i]]
  /\ Remember(i, Capture(i, change[i], diagnoses[i]))
  /\ change' = [change EXCEPT ![i] = "none"]
  /\ UNCHANGED <<enabled, calls, used, diagnoses, proposals, ses, task, requests, events>>

-----------------------------------------------------------------------------
Next ==
  \/ \E i \in Incidents : Queue(i) \/ PostTimeout(i) \/ Want(i) \/ Move(i)
  \/ \E s \in Sessions, i \in Incidents : StartJob(s, i) \/ StartRequest(s, i) \/ StartGate(s, i)
  \/ \E s \in Sessions : Admit(s) \/ Attempt(s) \/ Store(s) \/ Gate(s) \/ Crash(s)
  \/ Expire

Spec == Init /\ [][Next]_vars

-----------------------------------------------------------------------------
(* Parts of the properties that Diagnosis states.                          *)

\* Types; a session asks at most as many models as it was admitted for.
TypeOK ==
  /\ \A i \in Incidents : incident[i] \in Terminal \cup {"OPEN"} /\ used[i] \in Nat
  /\ \A i \in Incidents : task[i].retries \in 0..MaxRetries
  /\ \A s \in Sessions : ses[s].attempts <= ses[s].limit /\ ses[s].best \in 0..HighConfidence

\* The recorded calls of an incident, with those under way, never exceed its
\* budget, however many sessions diagnose it at once.
BudgetKept ==
  \A i \in Incidents :
    LET mine == {s \in Sessions : ses[s].inc = i}
        pending == {n \in DOMAIN calls : calls[n].by \in mine} IN
    used[i] + Cardinality(pending) <= Budget

\* The unbroken run of failures at the end of the window that rows show.
FailureRun ==
  {n \in DOMAIN calls : calls[n].by # Gone /\ \A k \in n..Len(calls) : ~ calls[k].ok}

\* When every model fails, the calls within a window are bounded by the
\* threshold and what the sessions admitted before may still make: primary and
\* fallback each.
StormIsBounded ==
  Cardinality(FailureRun) <= (Threshold - 1) + 2 * Cardinality(Sessions)

\* The record that session s stores says AVAILABLE exactly if one of its calls
\* was answered.
AnswerIsKept(s) ==
  (ses[s].step = "store" /\ ses'[s].step = "idle" /\ diagnoses' # diagnoses) =>
     LET i == ses[s].inc
         answered == \E n \in DOMAIN calls : calls[n].by = s /\ calls[n].ok IN
     (diagnoses'[i][Len(diagnoses'[i])] = "AVAILABLE") <=> answered

\* A proposal rests on a diagnosis that was available, and on the record it
\* names.
ProposalsAreGrounded ==
  \A n \in DOMAIN proposals :
    LET p == proposals[n] IN diagnoses[p.inc][p.diagnosis] = "AVAILABLE"

\* A task that is done left a diagnosis behind.
DoneIsDiagnosed == \A i \in Incidents : task[i].step = "done" => diagnoses[i] # <<>>
=============================================================================
