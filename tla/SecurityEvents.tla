---------------------------- MODULE SecurityEvents ----------------------------
(***************************************************************************)
(* The path of a runtime security event: a line of Tetragon's log is       *)
(* tailed, normalised and delivered by security-forwarder/forwarder.py,    *)
(* authenticated and queued by the webhook (api/security_events.py,        *)
(* security/webhook_auth.py), carried by a Celery task                     *)
(* (worker/tasks/security.py) to the internal API, and ingested by         *)
(* security/service.py, which opens an incident or counts a repetition.    *)
(*                                                                         *)
(* A line is known by its fingerprint: the normalised fields and the time  *)
(* window (event_fingerprint); a line that normalises to nothing is        *)
(* `Noise`.  Signatures are taken as valid.  Production settings: without  *)
(* Redis the webhook refuses.                                              *)
(***************************************************************************)
EXTENDS Naturals, Sequences, FiniteSets

CONSTANTS
  Fingerprints,  \* what security-relevant lines normalise to
  Noise,         \* what every other line normalises to
  Sessions,      \* database sessions of the internal API
  MaxLines,      \* bound on the lines Tetragon writes
  QueueSize,     \* FORWARDER_QUEUE_SIZE
  Rate,          \* FORWARDER_MAX_EVENTS_PER_MINUTE
  HookRate,      \* tetragon_webhook_max_events_per_minute
  MaxAttempts,   \* deliveries of one event (three)
  MaxRetries,    \* retries of one task (five)
  MaxFaults      \* bound on faults of the network, Redis, broker, OPA, processes

ASSUME NoiseAssumption == Noise \notin Fingerprints
ASSUME BoundsAssumption ==
  {MaxLines, QueueSize, Rate, HookRate, MaxAttempts, MaxRetries, MaxFaults} \subseteq Nat
ASSUME AttemptsAssumption == MaxAttempts > 0

VARIABLES
  file,       \* the lines of the log: [ev, whole]
  written,    \* lines written so far
  position,   \* lines the tail thread has read
  queue,      \* Forwarder.events
  sequence,   \* events taken from the queue
  seen,       \* Forwarder._seen
  sent,       \* events within the minute of Forwarder._sent
  cur,        \* the event being delivered, as a set of at most one
  dropped,    \* history: "event_dropped" was logged
  rotated,    \* history: the log was rotated
  wire,       \* requests on their way to the webhook: [nonce, ev]
  nonces,     \* nonces made so far
  claimed,    \* nonces claimed in Redis
  checking,   \* requests whose nonce is claimed, not yet answered
  hits,       \* webhook requests counted in this minute
  queued,     \* history: the nonces whose requests were queued, in order
  tasks,      \* tasks[f][n]: messages of the broker with n retries behind them
  ses,        \* ses[s]: a session ingesting [step, ev, count, tries]
  count,      \* count[f]: dedup_count of the stored event (0: none)
  incidents,  \* incidents[f]: incidents opened for it
  failed,     \* history: fingerprints a task of which ran out of retries
  faults      \* faults so far

fwd == <<queue, sequence, seen, sent, cur>>
log == <<file, written, rotated>>
hook == <<claimed, checking, hits, queued>>
db == <<count, incidents>>
vars == <<log, position, fwd, dropped, wire, nonces, hook, tasks, ses, db, failed, faults>>

Idle == [step |-> "idle", ev |-> Noise, count |-> 0, tries |-> 0]

Init ==
  /\ file = <<>> /\ written = 0 /\ rotated = FALSE
  /\ position = 0
  /\ queue = <<>> /\ sequence = 0 /\ seen = {} /\ sent = 0 /\ cur = {}
  /\ dropped = FALSE
  /\ wire = {} /\ nonces = 0
  /\ claimed = {} /\ checking = {} /\ hits = 0 /\ queued = <<>>
  /\ tasks = [f \in Fingerprints |-> [n \in 0..MaxRetries |-> 0]]
  /\ ses = [s \in Sessions |-> Idle]
  /\ count = [f \in Fingerprints |-> 0]
  /\ incidents = [f \in Fingerprints |-> 0]
  /\ failed = {}
  /\ faults = 0

Fault == faults < MaxFaults /\ faults' = faults + 1

-----------------------------------------------------------------------------
(* Slips a maintainer could make; the run shows that the properties below  *)
(* notice each of them.                                                    *)

\* The unique key is the row's own id: a second event is stored like the first.
StoreAlways(s) ==
  /\ ses[s].step = "read" /\ ses[s].count = 0
  /\ count' = [count EXCEPT ![ses[s].ev] = 1]
  /\ incidents' = [incidents EXCEPT ![ses[s].ev] = @ + 1]
  /\ ses' = [ses EXCEPT ![s] = Idle]
  /\ UNCHANGED <<log, position, fwd, dropped, wire, nonces, hook, tasks, failed, faults>>

\* A retry is dropped with its error.
RetryNever(f, n) == UNCHANGED <<tasks, failed>>

-----------------------------------------------------------------------------
(* Tetragon's log and the tail thread.                                     *)

\* A line may be seen before it is whole.
WriteLine ==
  /\ written < MaxLines
  /\ written' = written + 1
  /\ \E e \in Fingerprints \cup {Noise} : file' = Append(file, [ev |-> e, whole |-> FALSE])
  /\ UNCHANGED <<rotated, position, fwd, dropped, wire, nonces, hook, tasks, ses, db, failed, faults>>

CompleteLine ==
  /\ \E i \in 1..Len(file) :
       ~ file[i].whole /\ file' = [file EXCEPT ![i].whole = TRUE]
  /\ UNCHANGED <<written, rotated, position, fwd, dropped, wire, nonces, hook, tasks, ses, db,
                 failed, faults>>

\* The log is truncated; what was not read is lost.
Rotate ==
  /\ file # <<>>
  /\ Fault
  /\ file' = <<>>
  /\ rotated' = TRUE
  /\ UNCHANGED <<written, position, fwd, dropped, wire, nonces, hook, tasks, ses, db, failed>>

\* _tail: a shorter file is read from its start.
TailReset ==
  /\ Len(file) < position
  /\ position' = 0
  /\ UNCHANGED <<log, fwd, dropped, wire, nonces, hook, tasks, ses, db, failed, faults>>

\* A half line is no JSON, and a full queue drops: both are logged.
TailRead ==
  /\ position < Len(file)
  /\ position' = position + 1
  /\ LET l == file[position + 1]
         lost == ~ l.whole \/ Len(queue) >= QueueSize IN
     /\ queue' = IF lost THEN queue ELSE Append(queue, l.ev)
     /\ dropped' = (dropped \/ lost)
  /\ UNCHANGED <<log, sequence, seen, sent, cur, wire, nonces, hook, tasks, ses, db, failed, faults>>

-----------------------------------------------------------------------------
(* The forwarding loop.                                                    *)

\* normalize: only lines of the watched kinds become events.
Relevant(e) == e # Noise

\* _duplicate compares whole events, their evidence reference included.
AlreadySeen(key) == key \in seen

\* _within_rate
WithinRate == sent < Rate

\* run: the evidence reference holds the sequence number, so that what
\* _duplicate compares never repeats.  An event is marked as seen before the
\* rate is looked at.
Take ==
  /\ cur = {} /\ queue # <<>>
  /\ LET e == Head(queue)
         key == <<e, sequence + 1>>
         fresh == Relevant(e) /\ ~ AlreadySeen(key) IN
     /\ queue' = Tail(queue)
     /\ sequence' = sequence + 1
     /\ seen' = IF fresh THEN seen \cup {key} ELSE seen
     /\ sent' = IF fresh /\ WithinRate THEN sent + 1 ELSE sent
     /\ cur' = IF fresh /\ WithinRate
               THEN {[ev |-> e, attempt |-> 1, nonce |-> 0, answer |-> "none"]} ELSE {}
     /\ dropped' = (dropped \/ (fresh /\ ~ WithinRate))
  /\ UNCHANGED <<log, position, wire, nonces, hook, tasks, ses, db, failed, faults>>

\* _deliver: every attempt is signed with a nonce of its own.
Send ==
  /\ \E c \in cur :
       /\ c.nonce = 0
       /\ cur' = {[c EXCEPT !.nonce = nonces + 1]}
       /\ wire' = wire \cup {[nonce |-> nonces + 1, ev |-> c.ev]}
  /\ nonces' = nonces + 1
  /\ UNCHANGED <<log, position, queue, sequence, seen, sent, dropped, hook, tasks, ses, db,
                 failed, faults>>

\* What is left of the delivery after an attempt that brought no 2xx.
NextAttempt(c) ==
  IF c.attempt < MaxAttempts
  THEN {[c EXCEPT !.attempt = c.attempt + 1, !.nonce = 0, !.answer = "none"]}
  ELSE {}

Answered ==
  /\ \E c \in cur :
       /\ c.answer # "none"
       /\ cur' = IF c.answer = "ok" THEN {} ELSE NextAttempt(c)
       /\ dropped' = (dropped \/ (c.answer # "ok" /\ c.attempt = MaxAttempts))
  /\ UNCHANGED <<log, position, queue, sequence, seen, sent, wire, nonces, hook, tasks, ses, db,
                 failed, faults>>

\* Five seconds without an answer, which may come later and be ignored.
DeliveryTimeout ==
  /\ Fault
  /\ \E c \in cur :
       /\ c.nonce # 0 /\ c.answer = "none"
       /\ cur' = NextAttempt(c)
       /\ dropped' = (dropped \/ c.attempt = MaxAttempts)
  /\ UNCHANGED <<log, position, queue, sequence, seen, sent, wire, nonces, hook, tasks, ses, db,
                 failed>>

\* The forwarder restarts and reads the log from its start.
Restart ==
  /\ Fault
  /\ position' = 0
  /\ queue' = <<>> /\ sequence' = 0 /\ seen' = {} /\ sent' = 0 /\ cur' = {}
  /\ UNCHANGED <<log, dropped, wire, nonces, hook, tasks, ses, db, failed>>

\* The answer reaches the attempt that still waits for it.
Reply(r, a) ==
  cur' = {IF c.nonce = r.nonce THEN [c EXCEPT !.answer = a] ELSE c : c \in cur}

-----------------------------------------------------------------------------
(* The webhook.                                                            *)

\* _claim_nonce: SET NX in Redis.  A used nonce is a replay (409); without
\* Redis the request is refused (503).
Claim(r) ==
  /\ r \in wire
  /\ wire' = wire \ {r}
  /\ IF r.nonce \in claimed
     THEN Reply(r, "error") /\ UNCHANGED <<claimed, checking>>
     ELSE /\ claimed' = claimed \cup {r.nonce}
          /\ checking' = checking \cup {r}
          /\ UNCHANGED cur
  /\ UNCHANGED <<log, position, queue, sequence, seen, sent, dropped, nonces, hits, queued, tasks,
                 ses, db, failed, faults>>

RedisDown(r) ==
  /\ r \in wire
  /\ Fault
  /\ wire' = wire \ {r}
  /\ Reply(r, "error")
  /\ UNCHANGED <<log, position, queue, sequence, seen, sent, dropped, nonces, hook, tasks, ses, db,
                 failed>>

\* The network delivers a request twice.
Duplicate(r) ==
  /\ r \in checking \/ r.nonce \in claimed
  /\ r \notin wire
  /\ Fault
  /\ wire' = wire \cup {r}
  /\ UNCHANGED <<log, position, fwd, dropped, nonces, hook, tasks, ses, db, failed>>

\* _check_rate counts every request whose nonce was new.
OverRate(h) == h > HookRate

\* The rate is checked and the task published under its fingerprint; a broker
\* that is down is a 503.
Publish(r) ==
  /\ r \in checking
  /\ checking' = checking \ {r}
  /\ hits' = hits + 1
  /\ \/ /\ ~ OverRate(hits + 1)
        /\ tasks' = [tasks EXCEPT ![r.ev][0] = @ + 1]
        /\ queued' = Append(queued, r.nonce)
        /\ Reply(r, "ok")
        /\ UNCHANGED faults
     \/ /\ OverRate(hits + 1)
        /\ Reply(r, "error")
        /\ UNCHANGED <<tasks, queued, faults>>
     \/ /\ ~ OverRate(hits + 1)
        /\ Fault
        /\ Reply(r, "error")
        /\ UNCHANGED <<tasks, queued>>
  /\ UNCHANGED <<log, position, queue, sequence, seen, sent, dropped, wire, nonces, claimed, ses,
                 db, failed>>

\* A minute passes for both rate limits.
Minute ==
  /\ sent + hits > 0
  /\ sent' = 0 /\ hits' = 0
  /\ UNCHANGED <<log, position, queue, sequence, seen, cur, dropped, wire, nonces, claimed,
                 checking, queued, tasks, ses, db, failed, faults>>

-----------------------------------------------------------------------------
(* The task and the ingestion.                                             *)

\* process_security_event retries what is no client error, five times.
Retry(f, n) ==
  IF n < MaxRetries
  THEN tasks' = [tasks EXCEPT ![f][n + 1] = @ + 1] /\ UNCHANGED failed
  ELSE failed' = failed \cup {f} /\ UNCHANGED tasks

\* A task posts its event; the session looks for the fingerprint.
Ingest(s, f, n) ==
  /\ ses[s].step = "idle"
  /\ tasks[f][n] > 0
  /\ tasks' = [tasks EXCEPT ![f][n] = @ - 1]
  /\ ses' = [ses EXCEPT ![s] = [step |-> "read", ev |-> f, count |-> count[f], tries |-> n]]
  /\ UNCHANGED <<log, position, fwd, dropped, wire, nonces, hook, db, failed, faults>>

\* A known event is counted from the count that was read.
Repeat(s) ==
  /\ ses[s].step = "read" /\ ses[s].count > 0
  /\ count' = [count EXCEPT ![ses[s].ev] = ses[s].count + 1]
  /\ ses' = [ses EXCEPT ![s] = Idle]
  /\ UNCHANGED <<log, position, fwd, dropped, wire, nonces, hook, tasks, incidents, failed, faults>>

\* A new one is stored with its incident, unless another session was first:
\* the unique constraint on source and fingerprint makes that an error, and
\* the task is retried.
Store(s) ==
  /\ ses[s].step = "read" /\ ses[s].count = 0
  /\ LET f == ses[s].ev IN
     IF count[f] = 0
     THEN /\ count' = [count EXCEPT ![f] = 1]
          /\ incidents' = [incidents EXCEPT ![f] = @ + 1]
          /\ UNCHANGED <<tasks, failed>>
     ELSE Retry(f, ses[s].tries) /\ UNCHANGED db
  /\ ses' = [ses EXCEPT ![s] = Idle]
  /\ UNCHANGED <<log, position, fwd, dropped, wire, nonces, hook, faults>>

\* OPA is unavailable or the API dies: nothing is committed.
IngestFails(s) ==
  /\ ses[s].step = "read"
  /\ Fault
  /\ Retry(ses[s].ev, ses[s].tries)
  /\ ses' = [ses EXCEPT ![s] = Idle]
  /\ UNCHANGED <<log, position, fwd, dropped, wire, nonces, hook, db>>

\* The post times out after 25 seconds, or the worker dies before its late
\* acknowledgement: the session goes on and so does another delivery.
PostTimeout(s) ==
  /\ ses[s].step = "read"
  /\ Fault
  /\ Retry(ses[s].ev, ses[s].tries)
  /\ UNCHANGED <<log, position, fwd, dropped, wire, nonces, hook, ses, db>>

-----------------------------------------------------------------------------
Requests == [nonce : 1..nonces, ev : Fingerprints]

Forwarding == CompleteLine \/ TailReset \/ TailRead \/ Take \/ Send \/ Answered

Next ==
  \/ WriteLine \/ Rotate \/ Forwarding \/ DeliveryTimeout \/ Restart \/ Minute
  \/ \E r \in wire \cup checking : Claim(r) \/ RedisDown(r) \/ Duplicate(r) \/ Publish(r)
  \/ \E s \in Sessions :
       \/ Repeat(s) \/ Store(s) \/ IngestFails(s) \/ PostTimeout(s)
       \/ \E f \in Fingerprints, n \in 0..MaxRetries : Ingest(s, f, n)

Spec == Init /\ [][Next]_vars

\* Threads, handlers and workers go on; faults need not happen.
FairSpec ==
  /\ Spec
  /\ WF_vars(CompleteLine) /\ WF_vars(TailReset) /\ WF_vars(TailRead)
  /\ WF_vars(Take) /\ WF_vars(Send) /\ WF_vars(Answered)
  /\ WF_vars(\E r \in wire \cup checking : Claim(r) \/ Publish(r))
  /\ \A f \in Fingerprints :
       WF_vars(\E s \in Sessions, n \in 0..MaxRetries : Ingest(s, f, n))
  /\ \A s \in Sessions : WF_vars(Repeat(s) \/ Store(s))

-----------------------------------------------------------------------------
(* Properties.                                                             *)

\* Types; deliveries, retries and the queue stay within their limits.
TypeOK ==
  /\ position \in 0..MaxLines
  /\ Len(queue) <= QueueSize
  /\ sent \in 0..Rate
  /\ \A c \in cur : c.attempt \in 1..MaxAttempts /\ c.ev \in Fingerprints
  /\ Cardinality(cur) <= 1
  /\ wire \subseteq Requests /\ checking \subseteq Requests
  /\ claimed \subseteq 1..nonces
  /\ \A s \in Sessions : ses[s].tries \in 0..MaxRetries
  /\ count \in [Fingerprints -> Nat]
  /\ faults \in 0..MaxFaults

\* However often and however concurrently an event is delivered, one incident
\* is opened for its fingerprint (ingest_security_event).
OneIncidentPerEvent == \A f \in Fingerprints : incidents[f] = IF count[f] > 0 THEN 1 ELSE 0

\* A signed request is queued at most once: a nonce is claimed before anything
\* is done for it (authenticate_tetragon_request).
NonceQueuedOnce == \A i, j \in DOMAIN queued : queued[i] = queued[j] => i = j

\* The ledger: what the webhook answered for, what is stored, what was given up.
Accepted == {f \in Fingerprints : count[f] > 0 \/ f \in failed
               \/ (\E n \in 0..MaxRetries : tasks[f][n] > 0)
               \/ (\E s \in Sessions : ses[s].step = "read" /\ ses[s].ev = f)}

Ledger == INSTANCE AtMostOnceEffect WITH
  Items <- Fingerprints,
  accepted <- Accepted,
  effected <- {f \in Fingerprints : incidents[f] > 0},
  abandoned <- failed

\* An event the webhook has answered for opens its incident once, or a task
\* ran out of retries: at-least-once delivery with an effect that happens once.
DeliveredOnce == Ledger!Spec

\* A whole line that Tetragon wrote reaches the database, or some drop was
\* logged, or the log was rotated, or a task gave up.
LinesReachTheDatabase ==
  \A f \in Fingerprints :
    (\E i \in 1..Len(file) : file[i].ev = f)
      ~> (count[f] > 0 \/ dropped \/ rotated \/ f \in failed)

\* Delivered more than once, an event is still one event: a request is queued
\* once and a fingerprint opens one incident, within the limits of the queue
\* and of the attempts.
EventsAreUnique == TypeOK /\ OneIncidentPerEvent /\ NonceQueuedOnce
=============================================================================
