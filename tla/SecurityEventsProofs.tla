------------------------- MODULE SecurityEventsProofs -------------------------
(***************************************************************************)
(* Proofs about SecurityEvents: a signed request is queued once, an event  *)
(* opens one incident, and every step of the path is a step of the ledger  *)
(* AtMostOnceEffect or none at all.                                        *)
(*                                                                         *)
(* The invariant has one part for each place an event passes through: the  *)
(* log and the tail thread, the forwarding loop, the nonces of the         *)
(* webhook, and the tasks and sessions before the database.  The ledger's  *)
(* liveness is left to TLC.                                                *)
(*                                                                         *)
(* The second half is about what an event leads to, the containment of its *)
(* pod (Quarantine): records and cluster agree, and no outcome is better   *)
(* than what happened.                                                     *)
(***************************************************************************)
EXTENDS SecurityEvents, Containment, FiniteSetTheorems, TLAPS

-----------------------------------------------------------------------------
(* The log and the forwarder.                                              *)

Events == Fingerprints \cup {Noise}
Lines == [ev : Events, whole : BOOLEAN]
Answers == {"none", "ok", "error"}
Deliveries == [ev : Fingerprints, attempt : 1..MaxAttempts, nonce : Nat, answer : Answers]

\* No more lines are in the file than were written.
LogInv ==
  /\ file \in Seq(Lines)
  /\ written \in 0..MaxLines
  /\ Len(file) <= written
  /\ position \in 0..MaxLines

\* The queue and the rate are bounded and at most one event is delivered.
ForwarderInv ==
  /\ queue \in Seq(Events)
  /\ Len(queue) <= QueueSize
  /\ sent \in 0..Rate
  /\ cur = {} \/ \E c \in Deliveries : cur = {c}

FaultsInv == faults \in 0..MaxFaults

-----------------------------------------------------------------------------
(* The webhook.                                                            *)

HookTypes ==
  /\ nonces \in Nat
  /\ wire \subseteq Requests
  /\ checking \subseteq Requests
  /\ claimed \subseteq 1..nonces
  /\ hits \in Nat
  /\ queued \in Seq(Nat)

\* The nonce of a request being answered, or queued, is claimed; a nonce is
\* at one place only.
NonceInv ==
  /\ \A r \in checking : r.nonce \in claimed
  /\ \A q, r \in checking : q.nonce = r.nonce => q = r
  /\ \A i \in DOMAIN queued : queued[i] \in claimed
  /\ \A i \in DOMAIN queued : \A r \in checking : queued[i] # r.nonce
  /\ NonceQueuedOnce

-----------------------------------------------------------------------------
(* The tasks and the database.                                             *)

SessionRecs == [step : {"idle", "read"}, ev : Events, count : Nat, tries : 0..MaxRetries]

StoreTypes ==
  /\ tasks \in [Fingerprints -> [0..MaxRetries -> Nat]]
  /\ ses \in [Sessions -> SessionRecs]
  /\ \A s \in Sessions : ses[s].step = "read" => ses[s].ev \in Fingerprints
  /\ count \in [Fingerprints -> Nat]
  /\ incidents \in [Fingerprints -> Nat]
  /\ failed \subseteq Fingerprints

\* A session that has read a stored event finds it stored still.
ReadInv ==
  \A s \in Sessions : ses[s].step = "read" /\ ses[s].count > 0 => count[ses[s].ev] > 0

StoreInv == StoreTypes /\ ReadInv /\ OneIncidentPerEvent

IndInv == LogInv /\ ForwarderInv /\ FaultsInv /\ HookTypes /\ NonceInv /\ StoreInv

-----------------------------------------------------------------------------
USE DEF Relevant, OverRate, WithinRate

\* Nothing holds more than it should when the path is set up.
LEMMA InitIndInv == Init => IndInv
<1> SUFFICES ASSUME Init PROVE IndInv
  OBVIOUS
<1>0. /\ MaxLines \in Nat /\ QueueSize \in Nat /\ Rate \in Nat /\ MaxRetries \in Nat
      /\ MaxFaults \in Nat
  BY BoundsAssumption
<1>1. LogInv /\ ForwarderInv /\ FaultsInv
  BY <1>0 DEF Init, LogInv, ForwarderInv, FaultsInv, Lines, Events
<1>2. HookTypes /\ NonceInv
  BY <1>0 DEF Init, HookTypes, NonceInv, NonceQueuedOnce
<1>3. Idle \in SessionRecs /\ Idle.step = "idle"
  BY <1>0 DEF Idle, SessionRecs, Events
<1>4. StoreInv
  BY <1>0, <1>3 DEF Init, StoreInv, StoreTypes, ReadInv, OneIncidentPerEvent
<1>5. QED
  BY <1>1, <1>2, <1>4 DEF IndInv

\* The file is shorter than what was written, and read within its length.
LEMMA LogStep == LogInv /\ [Next]_vars => LogInv'
<1> SUFFICES ASSUME LogInv, [Next]_vars PROVE LogInv'
  OBVIOUS
<1>0. MaxLines \in Nat
  BY BoundsAssumption
<1>1. CASE WriteLine
  <2>1. PICK e \in Events : file' = Append(file, [ev |-> e, whole |-> FALSE])
    BY <1>1 DEF WriteLine, Events
  <2> DEFINE l == [ev |-> e, whole |-> FALSE]
  <2>2. l \in Lines
    BY DEF Lines
  <2> HIDE DEF l
  <2>3. file' \in Seq(Lines) /\ Len(file') = Len(file) + 1
    BY <2>1, <2>2 DEF LogInv, l
  <2>4. QED
    BY <1>0, <1>1, <2>3 DEF WriteLine, LogInv
<1>2. CASE CompleteLine
  <2>1. PICK i \in 1..Len(file) : file' = [file EXCEPT ![i].whole = TRUE]
    BY <1>2 DEF CompleteLine
  <2>2. file[i] \in Lines
    BY DEF LogInv
  <2>3. [file[i] EXCEPT !.whole = TRUE] \in Lines
    BY <2>2 DEF Lines
  <2>4. file' \in Seq(Lines) /\ Len(file') = Len(file)
    BY <2>1, <2>3 DEF LogInv
  <2>5. QED
    BY <1>2, <2>4 DEF CompleteLine, LogInv
<1>3. CASE Rotate
  BY <1>0, <1>3 DEF Rotate, LogInv
<1>4. CASE TailReset
  BY <1>0, <1>4 DEF TailReset, LogInv, log
<1>5. CASE TailRead
  BY <1>0, <1>5 DEF TailRead, LogInv, log
<1>6. CASE Restart
  BY <1>0, <1>6 DEF Restart, LogInv, log
<1>7. CASE UNCHANGED <<log, position>>
  BY <1>7 DEF LogInv, log
<1>8. WriteLine \/ CompleteLine \/ Rotate \/ TailReset \/ TailRead \/ Restart
        \/ UNCHANGED <<log, position>>
  BY DEF Next, vars, Forwarding, Take, Send, Answered, DeliveryTimeout, Minute, Claim, RedisDown,
         Duplicate, Publish, Repeat, Store, IngestFails, PostTimeout, Ingest
<1>9. QED
  BY <1>1, <1>2, <1>3, <1>4, <1>5, <1>6, <1>7, <1>8

\* An answer leaves at most one delivery.
LEMMA ReplyKeepsOne ==
  ASSUME ForwarderInv, NEW r, NEW a \in Answers, Reply(r, a)
  PROVE  cur' = {} \/ \E c \in Deliveries : cur' = {c}
<1>1. CASE cur = {}
  BY <1>1 DEF Reply
<1>2. CASE \E c \in Deliveries : cur = {c}
  <2>1. PICK c \in Deliveries : cur = {c}
    BY <1>2
  <2>2. [c EXCEPT !.answer = a] \in Deliveries
    BY DEF Deliveries
  <2>3. cur' = {IF c.nonce = r.nonce THEN [c EXCEPT !.answer = a] ELSE c}
    BY <2>1 DEF Reply
  <2>4. QED
    BY <2>2, <2>3
<1>3. QED
  BY <1>1, <1>2 DEF ForwarderInv

\* So does the next attempt, if there is one.
LEMMA NextAttemptKeepsOne ==
  ASSUME NEW c \in Deliveries
  PROVE  NextAttempt(c) = {} \/ \E d \in Deliveries : NextAttempt(c) = {d}
<1>1. CASE c.attempt < MaxAttempts
  <2>1. c.attempt + 1 \in 1..MaxAttempts
    BY <1>1, BoundsAssumption DEF Deliveries
  <2>2. [c EXCEPT !.attempt = c.attempt + 1, !.nonce = 0, !.answer = "none"] \in Deliveries
    BY <2>1 DEF Deliveries, Answers
  <2>3. QED
    BY <1>1, <2>2 DEF NextAttempt
<1>2. QED
  BY <1>1 DEF NextAttempt

\* The forwarder's step keeps its bounds.
LEMMA ForwarderStep ==
  LogInv /\ ForwarderInv /\ HookTypes /\ [Next]_vars => ForwarderInv'
<1> SUFFICES ASSUME LogInv, ForwarderInv, HookTypes, [Next]_vars PROVE ForwarderInv'
  OBVIOUS
<1>0. QueueSize \in Nat /\ Rate \in Nat /\ MaxAttempts \in Nat /\ MaxAttempts > 0
  BY BoundsAssumption, AttemptsAssumption
<1>1. CASE TailRead
  <2>1. file[position + 1] \in Lines
    BY <1>1 DEF TailRead, LogInv
  <2>2. file[position + 1].ev \in Events
    BY <2>1 DEF Lines
  <2>3. queue' \in Seq(Events) /\ Len(queue') <= QueueSize
    BY <1>0, <1>1, <2>2 DEF TailRead, ForwarderInv
  <2>4. QED
    BY <1>1, <2>3 DEF TailRead, ForwarderInv
<1>2. CASE Take
  <2> DEFINE e == Head(queue)
             d == [ev |-> e, attempt |-> 1, nonce |-> 0, answer |-> "none"]
             fresh == Relevant(e) /\ ~ AlreadySeen(<<e, sequence + 1>>)
  <2>1. e \in Events /\ Tail(queue) \in Seq(Events) /\ Len(Tail(queue)) = Len(queue) - 1
    BY <1>2 DEF Take, ForwarderInv
  <2>2. queue' = Tail(queue) /\ Len(queue) \in Nat
    BY <1>2 DEF Take, ForwarderInv
  <2>3. sent' = IF fresh /\ WithinRate THEN sent + 1 ELSE sent
    BY <1>2 DEF Take
  <2>4. sent' \in 0..Rate
    BY <1>0, <2>3 DEF ForwarderInv
  <2>5. cur' = IF fresh /\ WithinRate THEN {d} ELSE {}
    BY <1>2 DEF Take
  <2>6. fresh => d \in Deliveries
    BY <1>0, <2>1 DEF Deliveries, Answers, Events
  <2>7. QED
    BY <1>0, <2>1, <2>2, <2>4, <2>5, <2>6 DEF ForwarderInv
<1>3. CASE Send
  <2>1. PICK c \in cur : cur' = {[c EXCEPT !.nonce = nonces + 1]}
    BY <1>3 DEF Send
  <2>2. c \in Deliveries
    BY <2>1 DEF ForwarderInv
  <2>3. [c EXCEPT !.nonce = nonces + 1] \in Deliveries
    BY <2>2 DEF Deliveries, HookTypes
  <2>4. QED
    BY <1>3, <2>1, <2>3 DEF Send, ForwarderInv
<1>4. CASE Answered \/ DeliveryTimeout
  <2>1. PICK c \in cur : cur' = {} \/ cur' = NextAttempt(c)
    BY <1>4 DEF Answered, DeliveryTimeout
  <2>2. c \in Deliveries
    BY <2>1 DEF ForwarderInv
  <2>3. QED
    BY <1>4, <2>1, <2>2, NextAttemptKeepsOne DEF Answered, DeliveryTimeout, ForwarderInv
<1>5. CASE Restart
  BY <1>0, <1>5 DEF Restart, ForwarderInv
<1>6. CASE Minute
  BY <1>0, <1>6 DEF Minute, ForwarderInv
<1>7. CASE \E r \in wire \cup checking : Claim(r) \/ RedisDown(r) \/ Duplicate(r) \/ Publish(r)
  <2>1. PICK r \in wire \cup checking :
          Reply(r, "error") \/ Reply(r, "ok") \/ UNCHANGED cur
    BY <1>7 DEF Claim, RedisDown, Duplicate, Publish, fwd
  <2>2. cur' = {} \/ \E c \in Deliveries : cur' = {c}
    BY <2>1, ReplyKeepsOne DEF ForwarderInv, Answers
  <2>3. UNCHANGED <<queue, sent>>
    BY <1>7 DEF Claim, RedisDown, Duplicate, Publish, fwd
  <2>4. QED
    BY <2>2, <2>3 DEF ForwarderInv
<1>8. CASE UNCHANGED fwd
  BY <1>8 DEF fwd, ForwarderInv
<1>9. \/ TailRead \/ Take \/ Send \/ Answered \/ DeliveryTimeout \/ Restart \/ Minute
      \/ \E r \in wire \cup checking : Claim(r) \/ RedisDown(r) \/ Duplicate(r) \/ Publish(r)
      \/ UNCHANGED fwd
  BY DEF Next, vars, Forwarding, fwd, WriteLine, CompleteLine, Rotate, TailReset, Repeat, Store,
         IngestFails, PostTimeout, Ingest
<1>10. QED
  BY <1>1, <1>2, <1>3, <1>4, <1>5, <1>6, <1>7, <1>8, <1>9

-----------------------------------------------------------------------------
\* Nonces are made in order, and a request keeps the one it was made with.
LEMMA HookTypesStep == ForwarderInv /\ HookTypes /\ [Next]_vars => HookTypes'
<1> SUFFICES ASSUME ForwarderInv, HookTypes, [Next]_vars PROVE HookTypes'
  OBVIOUS
<1>1. CASE Send
  <2>1. PICK c \in cur : wire' = wire \cup {[nonce |-> nonces + 1, ev |-> c.ev]}
    BY <1>1 DEF Send
  <2>2. c.ev \in Fingerprints
    BY <2>1 DEF ForwarderInv, Deliveries
  <2>3. nonces' = nonces + 1 /\ nonces' \in Nat /\ 1..nonces \subseteq 1..nonces'
    BY <1>1 DEF Send, HookTypes
  <2>4. Requests \subseteq Requests'
    BY <2>3 DEF Requests
  <2>n. nonces + 1 \in 1..nonces'
    BY <2>3 DEF HookTypes
  <2>5. [nonce |-> nonces + 1, ev |-> c.ev] \in Requests'
    BY <2>2, <2>n DEF Requests
  <2>6. QED
    BY <1>1, <2>1, <2>3, <2>4, <2>5 DEF Send, HookTypes, hook
<1>2. CASE nonces' = nonces /\ ~ Send
  <2>1. Requests' = Requests
    BY <1>2 DEF Requests
  <2>2. ASSUME NEW r \in wire \cup checking, Claim(r) PROVE HookTypes'
    <3>1. r.nonce \in 1..nonces
      BY DEF HookTypes, Requests
    <3>2. claimed' \subseteq 1..nonces
      BY <2>2, <3>1 DEF Claim, HookTypes
    <3>3. wire' \subseteq Requests /\ checking' \subseteq Requests
      BY <2>2 DEF Claim, HookTypes
    <3>4. UNCHANGED <<hits, queued>>
      BY <2>2 DEF Claim
    <3>5. QED
      BY <1>2, <2>1, <3>2, <3>3, <3>4 DEF HookTypes
  <2>3. ASSUME NEW r \in wire \cup checking, RedisDown(r) \/ Duplicate(r) PROVE HookTypes'
    BY <1>2, <2>1, <2>3 DEF RedisDown, Duplicate, HookTypes, hook
  <2>4. ASSUME NEW r \in wire \cup checking, Publish(r) PROVE HookTypes'
    <3>1. r.nonce \in Nat
      BY DEF HookTypes, Requests
    <3>p. queued' = queued \/ queued' = Append(queued, r.nonce)
      BY <2>4 DEF Publish
    <3>2. queued' \in Seq(Nat)
      BY <3>1, <3>p DEF HookTypes
    <3>3. hits' \in Nat /\ checking' \subseteq Requests
      BY <2>4 DEF Publish, HookTypes
    <3>4. UNCHANGED <<wire, claimed>>
      BY <2>4 DEF Publish
    <3>5. QED
      BY <1>2, <2>1, <3>2, <3>3, <3>4 DEF HookTypes
  <2>5. CASE Minute
    BY <1>2, <2>1, <2>5 DEF Minute, HookTypes
  <2>6. CASE UNCHANGED <<wire, nonces, hook>>
    BY <2>1, <2>6 DEF HookTypes, hook
  <2>7. \/ \E r \in wire \cup checking : Claim(r) \/ RedisDown(r) \/ Duplicate(r) \/ Publish(r)
        \/ Minute
        \/ UNCHANGED <<wire, nonces, hook>>
    BY <1>2 DEF Next, vars, Forwarding, WriteLine, CompleteLine, Rotate, TailReset, TailRead, Take,
                Answered, DeliveryTimeout, Restart, Repeat, Store, IngestFails, PostTimeout, Ingest
  <2>8. QED
    BY <2>2, <2>3, <2>4, <2>5, <2>6, <2>7
<1>3. Send \/ (nonces' = nonces /\ ~ Send)
  BY DEF Next, vars, Forwarding, WriteLine, CompleteLine, Rotate, TailReset, TailRead, Take,
         Answered, DeliveryTimeout, Restart, Minute, Claim, RedisDown, Duplicate, Publish, Repeat,
         Store, IngestFails, PostTimeout, Ingest
<1>4. QED
  BY <1>1, <1>2, <1>3

\* A nonce is claimed once, then answered for once, then queued once.
LEMMA NonceStep == HookTypes /\ NonceInv /\ [Next]_vars => NonceInv'
<1> SUFFICES ASSUME HookTypes, NonceInv, [Next]_vars PROVE NonceInv'
  OBVIOUS
<1>1. ASSUME NEW r \in wire \cup checking, Claim(r) PROVE NonceInv'
  <2>1. UNCHANGED queued
    BY <1>1 DEF Claim
  <2>2. CASE r.nonce \in claimed
    BY <1>1, <2>1, <2>2 DEF Claim, NonceInv, NonceQueuedOnce
  <2>3. CASE r.nonce \notin claimed
    <3>1. checking' = checking \cup {r} /\ claimed' = claimed \cup {r.nonce}
      BY <1>1, <2>3 DEF Claim
    <3>2. QED
      BY <2>1, <2>3, <3>1 DEF NonceInv, NonceQueuedOnce
  <2>4. QED
    BY <2>2, <2>3
<1>2. ASSUME NEW r \in wire \cup checking, Publish(r) PROVE NonceInv'
  <2>1. r \in checking /\ checking' = checking \ {r} /\ UNCHANGED claimed
    BY <1>2 DEF Publish
  <2>2. CASE UNCHANGED queued
    BY <2>1, <2>2 DEF NonceInv, NonceQueuedOnce
  <2>3. CASE queued' = Append(queued, r.nonce)
    <3> DEFINE n == r.nonce
    <3>1. n \in Nat /\ n \in claimed /\ \A i \in DOMAIN queued : queued[i] # n
      BY <2>1 DEF HookTypes, Requests, NonceInv
    <3>2. \A q \in checking' : q.nonce # n
      BY <2>1 DEF NonceInv
    <3> HIDE DEF n
    <3>3. /\ queued \in Seq(Nat)
          /\ DOMAIN queued' = 1..(Len(queued) + 1) /\ DOMAIN queued = 1..Len(queued)
          /\ queued'[Len(queued) + 1] = n
          /\ \A i \in DOMAIN queued : queued'[i] = queued[i]
      BY <2>3, <3>1 DEF HookTypes, n
    <3>4. \A i \in DOMAIN queued' : i \in DOMAIN queued \/ i = Len(queued) + 1
      BY <3>3
    <3>5. \A i \in DOMAIN queued' : i \in DOMAIN queued \/ queued'[i] = n
      BY <3>3, <3>4
    <3>6. NonceQueuedOnce'
      BY <3>1, <3>3, <3>4 DEF NonceInv, NonceQueuedOnce
    <3>7. \A i \in DOMAIN queued' : queued'[i] \in claimed'
      BY <2>1, <3>1, <3>3, <3>5 DEF NonceInv
    <3>8. \A i \in DOMAIN queued' : \A q \in checking' : queued'[i] # q.nonce
      BY <2>1, <3>2, <3>3, <3>5 DEF NonceInv
    <3>9. QED
      BY <2>1, <3>6, <3>7, <3>8 DEF NonceInv
  <2>4. QED
    BY <1>2, <2>2, <2>3 DEF Publish
<1>3. CASE UNCHANGED <<claimed, checking, queued>>
  BY <1>3 DEF NonceInv, NonceQueuedOnce
<1>4. \/ \E r \in wire \cup checking : Claim(r) \/ Publish(r)
      \/ UNCHANGED <<claimed, checking, queued>>
  BY DEF Next, vars, Forwarding, hook, WriteLine, CompleteLine, Rotate, TailReset, TailRead, Take,
         Send, Answered, DeliveryTimeout, Restart, Minute, RedisDown, Duplicate, Repeat,
         Store, IngestFails, PostTimeout, Ingest
<1>5. QED
  BY <1>1, <1>2, <1>3, <1>4

-----------------------------------------------------------------------------
\* The parts of the state the tasks and sessions work on.
store == <<tasks, ses, db, failed>>

\* Only the steps of a task and the webhook's publication touch them.
LEMMA StoreSteps ==
  ASSUME [Next]_vars
  PROVE  \/ \E r \in wire \cup checking : Publish(r)
         \/ \E s \in Sessions : Repeat(s) \/ Store(s) \/ IngestFails(s) \/ PostTimeout(s)
         \/ \E s \in Sessions, f \in Fingerprints, n \in 0..MaxRetries : Ingest(s, f, n)
         \/ UNCHANGED store
  BY DEF Next, vars, store, Forwarding, WriteLine, CompleteLine, Rotate, TailReset, TailRead, Take,
         Send, Answered, DeliveryTimeout, Restart, Minute, Claim, RedisDown, Duplicate

\* A retry keeps the types.
LEMMA RetryTypes ==
  ASSUME StoreTypes, NEW f \in Fingerprints, NEW n \in 0..MaxRetries, Retry(f, n)
  PROVE  tasks' \in [Fingerprints -> [0..MaxRetries -> Nat]] /\ failed' \subseteq Fingerprints
<1>0. MaxRetries \in Nat
  BY BoundsAssumption
<1>1. CASE n < MaxRetries
  <2> DEFINE k == n + 1
  <2>1. k \in 0..MaxRetries
    BY <1>0, <1>1
  <2>2. tasks' = [tasks EXCEPT ![f][k] = @ + 1] /\ UNCHANGED failed
    BY <1>1 DEF Retry
  <2> HIDE DEF k
  <2>3. tasks[f] \in [0..MaxRetries -> Nat] /\ tasks[f][k] \in Nat
    BY <2>1 DEF StoreTypes
  <2>4. tasks[f][k] + 1 \in Nat
    BY <2>3
  <2>5. [tasks[f] EXCEPT ![k] = @ + 1] \in [0..MaxRetries -> Nat]
    BY <2>1, <2>3, <2>4
  <2>6. QED
    BY <2>2, <2>5 DEF StoreTypes
<1>2. CASE ~ (n < MaxRetries)
  BY <1>2 DEF Retry, StoreTypes
<1>3. QED
  BY <1>1, <1>2

\* An incident is opened with the first count, which is never taken back.
LEMMA StoreStep == HookTypes /\ StoreInv /\ [Next]_vars => StoreInv'
<1> SUFFICES ASSUME HookTypes, StoreInv, [Next]_vars PROVE StoreInv'
  OBVIOUS
<1>0. MaxRetries \in Nat /\ StoreTypes
  BY BoundsAssumption DEF StoreInv
<1>I. Idle \in SessionRecs /\ Idle.step = "idle"
  BY <1>0 DEF Idle, SessionRecs, Events
<1>1. ASSUME NEW r \in wire \cup checking, Publish(r) PROVE StoreInv'
  <2>1. r.ev \in Fingerprints
    BY DEF HookTypes, Requests
  <2>2. tasks[r.ev][0] + 1 \in Nat
    BY <1>0, <2>1 DEF StoreTypes
  <2>3. [tasks[r.ev] EXCEPT ![0] = @ + 1] \in [0..MaxRetries -> Nat]
    BY <1>0, <2>1, <2>2 DEF StoreTypes
  <2>4. tasks' \in [Fingerprints -> [0..MaxRetries -> Nat]]
    BY <1>0, <1>1, <2>3 DEF Publish, StoreTypes
  <2>5. UNCHANGED <<ses, count, incidents, failed>>
    BY <1>1 DEF Publish, db
  <2>6. QED
    BY <2>4, <2>5 DEF StoreInv, StoreTypes, ReadInv, OneIncidentPerEvent
<1>2. ASSUME NEW s \in Sessions, NEW f \in Fingerprints, NEW n \in 0..MaxRetries, Ingest(s, f, n)
      PROVE StoreInv'
  <2> DEFINE d == [step |-> "read", ev |-> f, count |-> count[f], tries |-> n]
  <2>1. d \in SessionRecs /\ d.step = "read" /\ d.ev = f /\ d.count = count[f]
    BY <1>0 DEF SessionRecs, Events, StoreTypes
  <2>2. tasks[f][n] - 1 \in Nat
    BY <1>0, <1>2 DEF Ingest, StoreTypes
  <2>3. [tasks[f] EXCEPT ![n] = @ - 1] \in [0..MaxRetries -> Nat]
    BY <1>0, <2>2 DEF StoreTypes
  <2>4. tasks' \in [Fingerprints -> [0..MaxRetries -> Nat]]
    BY <1>0, <1>2, <2>3 DEF Ingest, StoreTypes
  <2>5. ses' = [ses EXCEPT ![s] = d] /\ UNCHANGED <<count, incidents, failed>>
    BY <1>2 DEF Ingest, db
  <2> HIDE DEF d
  <2>6. StoreTypes'
    BY <1>0, <2>1, <2>4, <2>5 DEF StoreTypes
  <2>7. ReadInv'
    BY <1>0, <2>1, <2>5 DEF StoreInv, StoreTypes, ReadInv
  <2>8. QED
    BY <2>5, <2>6, <2>7 DEF StoreInv, OneIncidentPerEvent
<1>3. ASSUME NEW s \in Sessions, Repeat(s) PROVE StoreInv'
  <2> DEFINE f == ses[s].ev
  <2>1. f \in Fingerprints /\ count[f] > 0 /\ ses[s].count \in Nat /\ ses[s].count + 1 > 0
    BY <1>0, <1>3 DEF Repeat, StoreInv, ReadInv, StoreTypes, SessionRecs
  <2>2. /\ count' = [count EXCEPT ![f] = ses[s].count + 1]
        /\ ses' = [ses EXCEPT ![s] = Idle]
        /\ UNCHANGED <<tasks, incidents, failed>>
    BY <1>3 DEF Repeat
  <2> HIDE DEF f
  <2>3. StoreTypes'
    BY <1>0, <1>I, <2>1, <2>2 DEF StoreTypes
  <2>4. \A g \in Fingerprints : count'[g] > 0 <=> count[g] > 0
    BY <1>0, <2>1, <2>2 DEF StoreTypes
  <2>5. ReadInv'
    BY <1>0, <1>I, <2>2, <2>4 DEF StoreInv, ReadInv, StoreTypes
  <2>6. OneIncidentPerEvent'
    BY <2>2, <2>4 DEF StoreInv, OneIncidentPerEvent
  <2>7. QED
    BY <2>3, <2>5, <2>6 DEF StoreInv
<1>4. ASSUME NEW s \in Sessions, Store(s) PROVE StoreInv'
  <2> DEFINE f == ses[s].ev
  <2>1. f \in Fingerprints /\ ses[s].tries \in 0..MaxRetries
    BY <1>0, <1>4 DEF Store, StoreTypes, SessionRecs
  <2>2. ses' = [ses EXCEPT ![s] = Idle]
    BY <1>4 DEF Store
  <2>3. CASE count[f] = 0
    <3>1. /\ count' = [count EXCEPT ![f] = 1]
          /\ incidents' = [incidents EXCEPT ![f] = @ + 1]
          /\ UNCHANGED <<tasks, failed>>
      BY <1>4, <2>3 DEF Store
    <3> HIDE DEF f
    <3>2. StoreTypes'
      BY <1>0, <1>I, <2>1, <2>2, <3>1 DEF StoreTypes
    <3>3. ReadInv'
      BY <1>0, <1>I, <2>1, <2>2, <3>1 DEF StoreInv, ReadInv, StoreTypes
    <3>4. OneIncidentPerEvent'
      BY <1>0, <2>1, <2>3, <3>1 DEF StoreInv, OneIncidentPerEvent, StoreTypes
    <3>5. QED
      BY <3>2, <3>3, <3>4 DEF StoreInv
  <2>4. CASE count[f] # 0
    <3>1. Retry(f, ses[s].tries) /\ UNCHANGED <<count, incidents>>
      BY <1>4, <2>4 DEF Store, db
    <3>2. tasks' \in [Fingerprints -> [0..MaxRetries -> Nat]] /\ failed' \subseteq Fingerprints
      BY <1>0, <2>1, <3>1, RetryTypes
    <3> HIDE DEF f
    <3>3. QED
      BY <1>0, <1>I, <2>2, <3>1, <3>2 DEF StoreInv, StoreTypes, ReadInv, OneIncidentPerEvent
  <2>5. QED
    BY <2>3, <2>4
<1>5. ASSUME NEW s \in Sessions, IngestFails(s) \/ PostTimeout(s) PROVE StoreInv'
  <2>1. ses[s].ev \in Fingerprints /\ ses[s].tries \in 0..MaxRetries
    BY <1>0, <1>5 DEF IngestFails, PostTimeout, StoreTypes, SessionRecs
  <2>2. Retry(ses[s].ev, ses[s].tries) /\ UNCHANGED <<count, incidents>>
    BY <1>5 DEF IngestFails, PostTimeout, db
  <2>3. tasks' \in [Fingerprints -> [0..MaxRetries -> Nat]] /\ failed' \subseteq Fingerprints
    BY <1>0, <2>1, <2>2, RetryTypes
  <2>4. ses' = [ses EXCEPT ![s] = Idle] \/ ses' = ses
    BY <1>5 DEF IngestFails, PostTimeout
  <2>5. QED
    BY <1>0, <1>I, <2>2, <2>3, <2>4 DEF StoreInv, StoreTypes, ReadInv, OneIncidentPerEvent
<1>6. CASE UNCHANGED store
  BY <1>6 DEF store, db, StoreInv, StoreTypes, ReadInv, OneIncidentPerEvent
<1>7. QED
  BY <1>1, <1>2, <1>3, <1>4, <1>5, <1>6, StoreSteps

-----------------------------------------------------------------------------
\* Faults are counted up to their bound.
LEMMA FaultsStep == FaultsInv /\ [Next]_vars => FaultsInv'
<1> SUFFICES ASSUME FaultsInv, [Next]_vars PROVE FaultsInv'
  OBVIOUS
<1>1. Fault \/ UNCHANGED faults
  BY DEF Next, vars, Forwarding, WriteLine, CompleteLine, Rotate, TailReset, TailRead, Take,
         Send, Answered, DeliveryTimeout, Restart, Minute, Claim, RedisDown, Duplicate, Publish,
         Repeat, Store, IngestFails, PostTimeout, Ingest
<1>2. QED
  BY <1>1, BoundsAssumption DEF Fault, FaultsInv

\* Every step of the path keeps the invariant.
LEMMA IndInvStep == IndInv /\ [Next]_vars => IndInv'
  BY LogStep, ForwarderStep, HookTypesStep, NonceStep, StoreStep, FaultsStep DEF IndInv

\* The invariant holds at all times.
LEMMA IndInvHolds == Spec => []IndInv
  BY InitIndInv, IndInvStep, PTL DEF Spec

\* The invariant is more than the property.
LEMMA IndInvImplies == IndInv => EventsAreUnique
<1> SUFFICES ASSUME IndInv PROVE EventsAreUnique
  OBVIOUS
<1>1. Cardinality(cur) <= 1
  <2>1. CASE cur = {}
    BY <2>1, FS_EmptySet
  <2>2. CASE \E c \in Deliveries : cur = {c}
    BY <2>2, FS_Singleton
  <2>3. QED
    BY <2>1, <2>2 DEF IndInv, ForwarderInv
<1>2. \A c \in cur : c.attempt \in 1..MaxAttempts /\ c.ev \in Fingerprints
  BY DEF IndInv, ForwarderInv, Deliveries
<1>3. \A s \in Sessions : ses[s].tries \in 0..MaxRetries
  BY DEF IndInv, StoreInv, StoreTypes, SessionRecs
<1>4. TypeOK
  BY <1>1, <1>2, <1>3 DEF IndInv, LogInv, ForwarderInv, FaultsInv, HookTypes, StoreInv, StoreTypes, TypeOK
<1>5. QED
  BY <1>4 DEF IndInv, NonceInv, StoreInv, EventsAreUnique

\* However often a line is read, an attempt repeated, a request duplicated, a
\* task retried or a session raced, a nonce is queued once and a fingerprint
\* opens one incident, and no queue or counter passes its limit.
THEOREM EventsStayUnique == Spec => []EventsAreUnique
  BY IndInvHolds, IndInvImplies, PTL

-----------------------------------------------------------------------------
(* The ledger.  Its state is a function of the tasks, the sessions and the *)
(* database: an event in nobody's hands is one the webhook never answered  *)
(* for.                                                                    *)

Effected == {f \in Fingerprints : incidents[f] > 0}

\* A step that keeps everybody's part in the ledger is no step of it.
LEMMA LedgerStutters ==
  ASSUME Accepted' = Accepted, Effected' = Effected, failed' = failed
  PROVE  UNCHANGED Ledger!avars
  BY DEF Ledger!avars, Effected

\* A retry keeps the event in somebody's hands or gives it up, and nobody
\* else's event is touched.
LEMMA RetryKeeps ==
  ASSUME StoreTypes, NEW f \in Fingerprints, NEW n \in 0..MaxRetries, Retry(f, n)
  PROVE  /\ f \in failed' \/ \E m \in 0..MaxRetries : tasks'[f][m] > 0
         /\ \A g \in Fingerprints \ {f} : tasks'[g] = tasks[g]
         /\ failed' = failed \/ failed' = failed \cup {f}
         /\ \A m \in 0..MaxRetries : tasks[f][m] > 0 => tasks'[f][m] > 0
<1>0. MaxRetries \in Nat
  BY BoundsAssumption
<1>1. CASE n < MaxRetries
  <2> DEFINE k == n + 1
  <2>1. k \in 0..MaxRetries
    BY <1>0, <1>1
  <2>2. tasks' = [tasks EXCEPT ![f][k] = @ + 1] /\ UNCHANGED failed
    BY <1>1 DEF Retry
  <2> HIDE DEF k
  <2>3. tasks[f] \in [0..MaxRetries -> Nat] /\ tasks[f][k] \in Nat
    BY <2>1 DEF StoreTypes
  <2>4. tasks'[f] = [tasks[f] EXCEPT ![k] = @ + 1]
    BY <2>2 DEF StoreTypes
  <2>a. DOMAIN tasks[f] = 0..MaxRetries
    BY <2>3
  <2>b. tasks'[f][k] = tasks[f][k] + 1
    BY <2>1, <2>4, <2>a
  <2>5. tasks'[f][k] > 0
    BY <2>3, <2>b
  <2>6. \A m \in 0..MaxRetries : tasks[f][m] > 0 => tasks'[f][m] > 0
    BY <2>3, <2>4, <2>5
  <2>7. \A g \in Fingerprints \ {f} : tasks'[g] = tasks[g]
    BY <2>2 DEF StoreTypes
  <2>8. QED
    BY <2>1, <2>2, <2>5, <2>6, <2>7
<1>2. CASE ~ (n < MaxRetries)
  BY <1>2 DEF Retry
<1>3. QED
  BY <1>1, <1>2

\* A retry is no step of the ledger, or the one that gives the event up.
LEMMA RetryStep ==
  ASSUME StoreTypes, NEW s \in Sessions, ses[s].step = "read",
         Retry(ses[s].ev, ses[s].tries), UNCHANGED <<count, incidents>>,
         ses' = [ses EXCEPT ![s] = Idle] \/ ses' = ses
  PROVE  Ledger!Next \/ UNCHANGED Ledger!avars
<1> DEFINE f == ses[s].ev
<1>1. f \in Fingerprints /\ ses[s].tries \in 0..MaxRetries
  BY DEF StoreTypes, SessionRecs
<1>2. /\ f \in failed' \/ \E m \in 0..MaxRetries : tasks'[f][m] > 0
      /\ \A g \in Fingerprints \ {f} : tasks'[g] = tasks[g]
      /\ failed' = failed \/ failed' = failed \cup {f}
  BY <1>1, RetryKeeps
<1>3. f \in Accepted /\ f \in Accepted'
  BY <1>1, <1>2 DEF Accepted
<1>4. Idle.step = "idle"
  BY DEF Idle
<1>5. \A t \in Sessions : t # s => ses'[t] = ses[t]
  BY DEF StoreTypes
<1>6. ses'[s].step = "read" => ses'[s].ev = f
  BY <1>4 DEF StoreTypes
<1> HIDE DEF f
<1>7. ASSUME NEW g \in Fingerprints \ {f} PROVE g \in Accepted' <=> g \in Accepted
  <2>1. tasks'[g] = tasks[g] /\ count'[g] = count[g] /\ (g \in failed' <=> g \in failed)
    BY <1>2
  <2>2. ASSUME NEW t \in Sessions
        PROVE  ses'[t].step = "read" /\ ses'[t].ev = g <=> ses[t].step = "read" /\ ses[t].ev = g
    BY <1>5, <1>6, <2>2 DEF f
  <2>3. QED
    BY <2>1, <2>2 DEF Accepted
<1>8. Accepted' = Accepted
  BY <1>3, <1>7 DEF Accepted
<1>9. Effected' = Effected
  BY DEF Effected
<1>10. CASE failed' = failed
  BY <1>8, <1>9, <1>10, LedgerStutters
<1>11. CASE failed' = failed \cup {f} /\ f \notin failed
  <2>1. Ledger!Abandon(f)
    BY <1>3, <1>8, <1>9, <1>11 DEF Ledger!Abandon, Effected
  <2>2. QED
    BY <1>1, <2>1 DEF Ledger!Next, f
<1>12. QED
  BY <1>2, <1>10, <1>11

\* Every step of the path is a step of the ledger or none.
LEMMA LedgerStep == HookTypes /\ StoreInv /\ [Next]_vars => [Ledger!Next]_(Ledger!avars)
<1> SUFFICES ASSUME HookTypes, StoreInv, [Next]_vars
             PROVE  Ledger!Next \/ UNCHANGED Ledger!avars
  OBVIOUS
<1>0. StoreTypes /\ MaxRetries \in Nat
  BY BoundsAssumption DEF StoreInv
<1>I. Idle.step = "idle"
  BY DEF Idle
<1>1. ASSUME NEW r \in wire \cup checking, Publish(r)
      PROVE  Ledger!Next \/ UNCHANGED Ledger!avars
  <2> DEFINE f == r.ev
  <2>1. f \in Fingerprints
    BY DEF HookTypes, Requests
  <2>2. UNCHANGED <<ses, count, incidents, failed>>
    BY <1>1 DEF Publish, db
  <2>3. CASE tasks' = tasks
    BY <2>2, <2>3 DEF Ledger!avars, Accepted
  <2>4. CASE tasks' = [tasks EXCEPT ![r.ev][0] = @ + 1]
    <3>1. tasks'[f] = [tasks[f] EXCEPT ![0] = @ + 1] /\ tasks[f] \in [0..MaxRetries -> Nat]
      BY <1>0, <2>1, <2>4 DEF StoreTypes
    <3>2. 0 \in 0..MaxRetries /\ tasks'[f][0] > 0
      BY <1>0, <3>1
    <3>3. \A g \in Fingerprints \ {f} : tasks'[g] = tasks[g]
      BY <1>0, <2>4 DEF StoreTypes
    <3> HIDE DEF f
    <3>4. Accepted' = Accepted \cup {f}
      BY <2>1, <2>2, <3>2, <3>3 DEF Accepted
    <3>5. Effected' = Effected /\ failed' = failed
      BY <2>2 DEF Effected
    <3>6. CASE f \in Accepted
      BY <3>4, <3>5, <3>6, LedgerStutters
    <3>7. CASE f \notin Accepted
      <4>1. Ledger!Accept(f)
        BY <3>4, <3>5, <3>7 DEF Ledger!Accept, Effected
      <4>2. QED
        BY <2>1, <4>1 DEF Ledger!Next
    <3>8. QED
      BY <3>6, <3>7
  <2>5. QED
    BY <1>1, <2>3, <2>4 DEF Publish
<1>2. ASSUME NEW s \in Sessions, NEW f \in Fingerprints, NEW n \in 0..MaxRetries, Ingest(s, f, n)
      PROVE  Ledger!Next \/ UNCHANGED Ledger!avars
  <2> DEFINE d == [step |-> "read", ev |-> f, count |-> count[f], tries |-> n]
  <2>1. /\ ses[s].step = "idle" /\ tasks[f][n] > 0
        /\ tasks' = [tasks EXCEPT ![f][n] = @ - 1]
        /\ ses' = [ses EXCEPT ![s] = d]
        /\ UNCHANGED <<count, incidents, failed>>
    BY <1>2 DEF Ingest, db
  <2>2. d.step = "read" /\ d.ev = f
    OBVIOUS
  <2> HIDE DEF d
  <2>3. ses'[s] = d /\ \A t \in Sessions : t # s => ses'[t] = ses[t]
    BY <1>0, <2>1 DEF StoreTypes
  <2>4. \A g \in Fingerprints \ {f} : tasks'[g] = tasks[g]
    BY <1>0, <2>1 DEF StoreTypes
  <2>5. f \in Accepted /\ f \in Accepted'
    BY <2>1, <2>2, <2>3 DEF Accepted
  <2>6. ASSUME NEW g \in Fingerprints \ {f} PROVE g \in Accepted' <=> g \in Accepted
    <3>1. ASSUME NEW t \in Sessions
          PROVE  ses'[t].step = "read" /\ ses'[t].ev = g <=> ses[t].step = "read" /\ ses[t].ev = g
      BY <2>1, <2>2, <2>3, <2>6, <3>1
    <3>2. QED
      BY <2>1, <2>4, <3>1 DEF Accepted
  <2>7. Accepted' = Accepted
    BY <2>5, <2>6 DEF Accepted
  <2>8. QED
    BY <2>1, <2>7, LedgerStutters DEF Effected
<1>3. ASSUME NEW s \in Sessions, Repeat(s) \/ (Store(s) /\ count[ses[s].ev] = 0)
      PROVE  Ledger!Next \/ UNCHANGED Ledger!avars
  <2> DEFINE f == ses[s].ev
  <2>1. ses[s].step = "read" /\ f \in Fingerprints /\ ses[s].count \in Nat
    BY <1>0, <1>3 DEF Repeat, Store, StoreTypes, SessionRecs
  <2>2. /\ ses' = [ses EXCEPT ![s] = Idle]
        /\ UNCHANGED <<tasks, failed>>
        /\ \/ count' = [count EXCEPT ![f] = ses[s].count + 1]
           \/ count' = [count EXCEPT ![f] = 1]
    BY <1>3 DEF Repeat, Store
  <2>3. ses'[s].step = "idle" /\ \A t \in Sessions : t # s => ses'[t] = ses[t]
    BY <1>0, <1>I, <2>2 DEF StoreTypes
  <2>4. count'[f] > 0 /\ \A g \in Fingerprints \ {f} : count'[g] = count[g]
    BY <1>0, <2>1, <2>2 DEF StoreTypes
  <2>5. f \in Accepted /\ f \in Accepted'
    BY <2>1, <2>4 DEF Accepted
  <2>6. ASSUME NEW g \in Fingerprints \ {f} PROVE g \in Accepted' <=> g \in Accepted
    <3>1. ASSUME NEW t \in Sessions
          PROVE  ses'[t].step = "read" /\ ses'[t].ev = g <=> ses[t].step = "read" /\ ses[t].ev = g
      BY <2>1, <2>3, <2>6, <3>1
    <3>2. QED
      BY <2>2, <2>4, <3>1 DEF Accepted
  <2>7. Accepted' = Accepted
    BY <2>5, <2>6 DEF Accepted
  <2>8. CASE Repeat(s)
    BY <2>2, <2>7, <2>8, LedgerStutters DEF Effected, Repeat
  <2>9. CASE Store(s) /\ count[f] = 0
    <3>1. incidents' = [incidents EXCEPT ![f] = @ + 1] /\ incidents[f] = 0
      BY <2>1, <2>9 DEF Store, StoreInv, OneIncidentPerEvent
    <3> HIDE DEF f
    <3>2. f \notin Effected /\ Effected' = Effected \cup {f}
      BY <1>0, <2>1, <3>1 DEF Effected, StoreTypes
    <3>3. \E i \in Fingerprints : Ledger!Effect(i)
      BY <2>1, <2>2, <2>5, <2>7, <3>2 DEF Ledger!Effect, Effected
    <3>4. QED
      BY <3>3 DEF Ledger!Next
  <2>10. QED
    BY <1>3, <2>8, <2>9
<1>4. ASSUME NEW s \in Sessions,
             IngestFails(s) \/ PostTimeout(s) \/ (Store(s) /\ count[ses[s].ev] # 0)
      PROVE  Ledger!Next \/ UNCHANGED Ledger!avars
  <2>1. /\ ses[s].step = "read"
        /\ Retry(ses[s].ev, ses[s].tries)
        /\ UNCHANGED <<count, incidents>>
        /\ ses' = [ses EXCEPT ![s] = Idle] \/ ses' = ses
    BY <1>4 DEF IngestFails, PostTimeout, Store, db
  <2>2. QED
    BY <1>0, <2>1, RetryStep
<1>5. CASE UNCHANGED store
  BY <1>5 DEF store, db, Ledger!avars, Accepted
<1>6. QED
  BY <1>1, <1>2, <1>3, <1>4, <1>5, StoreSteps

\* The ledger is empty when the path is set up.
LEMMA LedgerInit == Init => Ledger!Init
<1> SUFFICES ASSUME Init PROVE Ledger!Init
  OBVIOUS
<1>1. Idle.step = "idle"
  BY DEF Idle
<1>2. Accepted = {}
  BY <1>1 DEF Init, Accepted
<1>3. QED
  BY <1>2 DEF Init, Ledger!Init

\* An event the webhook has answered for is never forgotten, opens its
\* incident at most once and is given up only by a task out of retries: the
\* path does nothing the ledger does not allow.
THEOREM PathImplementsLedger == Spec => Ledger!Init /\ [][Ledger!Next]_(Ledger!avars)
<1>1. IndInv => HookTypes /\ StoreInv
  BY DEF IndInv
<1>2. QED
  BY <1>1, IndInvHolds, LedgerInit, LedgerStep, PTL DEF Spec

-----------------------------------------------------------------------------
(* The containment of the pod (Containment, Quarantine).                   *)


\* Steps of a session that has taken the event's row: of apply_quarantine and
\* of remove_quarantine.
ApplySteps == {"probing", "labelling", "creating", "verifying", "failing"}
RemoveSteps == {"deleting", "unlabelling", "checking", "unremoved"}
ClaimedSteps == ApplySteps \cup RemoveSteps

\* Between the first change of the cluster and the end of the call.
MidwaySteps == {"creating", "verifying", "unlabelling", "checking"}

CallRecs ==
  [step : {"idle", "done", "authorizing", "claiming", "reauthorizing", "reclaiming",
           "refreshing", "finishing"} \cup ClaimedSteps,
   goal : {"api", "none"} \cup Q!Ended,
   at : {"none", "POLICY_EVALUATION", "AWAITING_APPROVAL", "EXECUTING", "VERIFYING"}
          \cup Q!TerminalState,
   seen : {"none"} \cup Q!Unrecorded \cup Q!Recorded,
   wrote : BOOLEAN, touched : BOOLEAN, marked : BOOLEAN]

\* What a session's step says of what it has read, written and changed.
WellFormed(r) ==
  /\ r.step \in {"authorizing", "claiming"} =>
       r.at \in {"POLICY_EVALUATION", "AWAITING_APPROVAL", "VERIFYING"} /\ ~ r.wrote
  /\ r.step \in {"probing", "labelling", "creating"} =>
       r.at = "EXECUTING" \/ (r.at = "VERIFYING" /\ ~ r.wrote)
  /\ r.step \in {"reauthorizing", "reclaiming"} \cup RemoveSteps => r.at # "none"
  /\ r.step = "verifying" => r.at = "VERIFYING"
  /\ r.step = "failing" => r.at \in {"EXECUTING", "VERIFYING"}
  /\ r.step \in MidwaySteps => r.touched
  /\ r.touched => r.step \in MidwaySteps \cup {"failing", "unremoved"}
  /\ r.marked => r.step = "finishing"
  /\ r.step \in {"refreshing", "finishing"} => r.goal # "api"

\* A session that holds the event's row.
Holder(r) == r.step \in ClaimedSteps \/ r.marked

\* Every session fits its step, who needs the row has it, and who has
\* claimed an attempt still has one left.
CallsInv ==
  /\ calls \in [Q!Sessions -> CallRecs]
  /\ \A s \in Q!Sessions :
       /\ WellFormed(calls[s])
       /\ Holder(calls[s]) => lock = s
       /\ calls[s].step \in ClaimedSteps => attempts < MaxExecutions
       /\ calls[s].at # "none" \/ calls[s].marked => incident # "none"

\* The event arrives with its incident, and is linked after that.
ArrivalInv == status # "none" \/ linked => incident # "none"

ClusterInv == Q!ContainedIsEnforced /\ Q!NoForgottenPolicy

ContainmentInv == Q!TypeOK /\ CallsInv /\ ArrivalInv /\ ClusterInv

\* The session holds nothing and has changed nothing.
Quiet(r) ==
  /\ r \in CallRecs /\ WellFormed(r) /\ ~ r.touched /\ ~ Holder(r)
  /\ r.at # "none" => incident # "none"

\* A session that is over or has not begun holds nothing.
LEMMA OverQuiet ==
  ASSUME NEW s \in Q!Sessions
  PROVE  Quiet(Q!Over(s)) /\ Quiet(Q!Idle)
BY DEF Quiet, Q!Over, Q!Idle, CallRecs, WellFormed, Holder, ClaimedSteps, ApplySteps,
       RemoveSteps, MidwaySteps, Q!Ended

\* Nor does one that only has the experiment to finish,
LEMMA FinishingQuiet ==
  ASSUME NEW goal \in {"none"} \cup Q!Ended
  PROVE  Quiet([Q!Idle EXCEPT !.step = "finishing", !.goal = goal])
BY DEF Quiet, Q!Idle, CallRecs, WellFormed, Holder, ClaimedSteps, ApplySteps,
       RemoveSteps, MidwaySteps, Q!Ended, Q!TerminalState

\* one whose call was refused (a CloudWardError of quarantine.py),
LEMMA RaisedQuiet ==
  ASSUME CallsInv, NEW s \in Q!Sessions
  PROVE  Quiet(Q!Raised(s))
<1>1. \A goal \in {"FAILED", "TIMED_OUT"} :
        Quiet([Q!Idle EXCEPT !.step = "finishing", !.goal = goal])
  BY FinishingQuiet DEF Q!Ended
<1>2. QED
  BY <1>1, OverQuiet DEF Q!Raised

\* one whose call has returned,
LEMMA ReturnedQuiet ==
  ASSUME CallsInv, NEW s \in Q!Sessions
  PROVE  Quiet(Q!Returned(s))
<1>1. calls[s].goal \in {"api", "none"} \cup Q!Ended
  BY DEF CallsInv, CallRecs
<1>2. Quiet([Q!Idle EXCEPT !.step = "refreshing", !.goal = "SUCCEEDED"])
  BY DEF Quiet, Q!Idle, CallRecs, WellFormed, Holder, ClaimedSteps, ApplySteps,
       RemoveSteps, MidwaySteps, Q!Ended
<1>3. QED
  BY <1>1, <1>2, OverQuiet, FinishingQuiet DEF Q!Returned

\* or one that is about to ask for a removal (_remove_security_containment).
LEMMA CleanupQuiet ==
  ASSUME Q!TypeOK, incident # "none", NEW goal \in {"none"} \cup Q!Ended
  PROVE  Quiet(Q!Cleanup(goal))
BY DEF Q!TypeOK, Q!Cleanup, Quiet, Q!Idle, CallRecs, WellFormed, Holder, ClaimedSteps,
   ApplySteps,
       RemoveSteps, MidwaySteps, Q!Ended, Q!TerminalState

\* What a poll concludes from the rows.
LEMMA ConcludeType ==
  ASSUME NEW c, NEW i
  PROVE  Q!Conclude(c, i) \in {"SUCCEEDED", "FAILED", "none"}
BY DEF Q!Conclude

\* A poll begins quietly, whichever way reconcile sends it.
LEMMA CourseQuiet ==
  ASSUME Q!TypeOK, ArrivalInv, expired \/ status # "none"
  PROVE  Quiet(Q!Course)
<1>1. \A goal \in {"none"} \cup Q!Ended :
        /\ incident # "none" => Quiet(Q!Cleanup(goal))
        /\ Quiet([Q!Idle EXCEPT !.step = "finishing", !.goal = goal])
  BY CleanupQuiet, FinishingQuiet
<1>2. Q!Conclude(status, incident) \in {"SUCCEEDED", "FAILED", "none"}
  BY ConcludeType
<1>3. ASSUME status \in {"PROPOSED", "AWAITING_APPROVAL"},
incident \notin Q!TerminalState
      PROVE  Quiet([Q!Idle EXCEPT !.step = "authorizing", !.goal = "none",
                                !.at = incident, !.seen = status])
  BY <1>3 DEF Q!TypeOK, ArrivalInv, Quiet, Q!Idle, CallRecs, WellFormed, Holder,
     ClaimedSteps,
       ApplySteps, RemoveSteps, MidwaySteps, Q!Ended, Q!Unrecorded, Q!Recorded
<1>4. Quiet(Q!Idle)
  BY DEF Quiet, Q!Idle, CallRecs, WellFormed, Holder, ClaimedSteps, ApplySteps,
       RemoveSteps, MidwaySteps, Q!Ended
<1> HIDE DEF Quiet, Q!Idle, Q!Cleanup, Q!Conclude
<1>5. status # "none" => incident # "none"
  BY DEF ArrivalInv
<1>6. QED
  BY <1>1, <1>2, <1>3, <1>4, <1>5 DEF Q!Course, Q!Ended, Q!TypeOK

\* What a turn of session s that leaves it as r has to respect.
LEMMA TurnKeepsCalls ==
  ASSUME CallsInv, NEW s \in Q!Sessions, NEW r \in CallRecs, WellFormed(r), Q!Set(s, r),
         Holder(r) => lock' = s,
         \A t \in Q!Sessions \ {s} : lock = t => lock' = t /\ attempts' = attempts,
         r.step \in ClaimedSteps => attempts' < MaxExecutions,
         r.at # "none" \/ r.marked \/ incident # "none" => incident' # "none"
  PROVE  CallsInv'
<1>1. calls' = [calls EXCEPT ![s] = r] /\ calls \in [Q!Sessions -> CallRecs]
  BY DEF Q!Set, CallsInv
<1>2. calls' \in [Q!Sessions -> CallRecs]
  BY <1>1
<1>3. calls'[s] = r /\ \A t \in Q!Sessions \ {s} : calls'[t] = calls[t]
  BY <1>1
<1>4. ASSUME NEW t \in Q!Sessions
      PROVE  /\ WellFormed(calls'[t])
             /\ Holder(calls'[t]) => lock' = t
             /\ calls'[t].step \in ClaimedSteps => attempts' < MaxExecutions
             /\ calls'[t].at # "none" \/ calls'[t].marked => incident' # "none"
  <2>1. CASE t = s
    BY <1>3, <2>1
  <2>2. CASE t # s
    <3>1. calls'[t] = calls[t]
      BY <1>3, <2>2
    <3>2. /\ WellFormed(calls[t])
          /\ Holder(calls[t]) => lock = t
          /\ calls[t].step \in ClaimedSteps => attempts < MaxExecutions
          /\ calls[t].at # "none" \/ calls[t].marked => incident # "none"
      BY DEF CallsInv
    <3>3. calls[t].step \in ClaimedSteps => Holder(calls[t])
      BY DEF Holder
    <3>4. QED
      BY <2>2, <3>1, <3>2, <3>3
  <2>3. QED
    BY <2>1, <2>2
<1>5. QED
  BY <1>2, <1>4 DEF CallsInv, WellFormed, Holder

\* A turn that leaves the records and the cluster alone; what it changed
\* before is still its own or marked as torn.
LEMMA TurnKeepsCluster ==
  ASSUME CallsInv, ClusterInv, NEW s \in Q!Sessions, NEW r, Q!Set(s, r),
         UNCHANGED <<status, Q!cluster>>,
         ~ torn' => ~ torn /\ (calls[s].touched => r.touched)
  PROVE  ClusterInv'
<1>1. calls' = [calls EXCEPT ![s] = r] /\ calls \in [Q!Sessions -> CallRecs]
  BY DEF Q!Set, CallsInv
<1>3. calls'[s] = r /\ \A t \in Q!Sessions \ {s} : calls'[t] = calls[t]
  BY <1>1
<1>4. Q!Settled' => Q!Settled
  BY <1>3 DEF Q!Settled
<1>5. QED
  BY <1>4 DEF ClusterInv, Q!ContainedIsEnforced, Q!NoForgottenPolicy, Q!cluster

\* A turn in the middle of which the cluster changes.
LEMMA TouchedKeepsCluster ==
  ASSUME CallsInv, NEW s \in Q!Sessions, NEW r, Q!Set(s, r), r.touched
  PROVE  ClusterInv'
<1>1. calls' = [calls EXCEPT ![s] = r] /\ calls \in [Q!Sessions -> CallRecs]
  BY DEF Q!Set, CallsInv
<1>3. calls'[s] = r
  BY <1>1
<1>4. ~ Q!Settled'
  BY <1>3 DEF Q!Settled
<1>5. QED
  BY <1>4 DEF ClusterInv, Q!ContainedIsEnforced, Q!NoForgottenPolicy

-----------------------------------------------------------------------------
\* The ends of a call.

\* The Boolean variables.
LEMMA TypeDomain ==
  ASSUME Q!TypeOK
  PROVE  torn \in BOOLEAN /\ linked \in BOOLEAN /\ owed \in BOOLEAN /\ expired \in BOOLEAN
         /\ policy \in BOOLEAN /\ label \in BOOLEAN /\ pod \in BOOLEAN
BY DEF Q!TypeOK

\* A commit or rollback gives back the own locks and no others.
LEMMA ReleaseType ==
  ASSUME Q!TypeOK, NEW s \in Q!Sessions, Q!Release(s)
  PROVE  /\ lock' \in Q!Sessions \cup {Free} /\ labLock' \in Q!Sessions \cup {Free}
         /\ \A t \in Q!Sessions \ {s} : lock = t => lock' = t
BY DEF Q!TypeOK, Q!Release

\* A rollback: the rows are as before; what was changed in the cluster is torn.
LEMMA AbortKeeps ==
  ASSUME ContainmentInv, NEW s \in Q!Sessions, Q!Abort(s),
         UNCHANGED <<owed, expired, Q!cluster>>, fails' \in 0..MaxFailures
  PROVE  ContainmentInv'
<1>1. Quiet(Q!Over(s)) /\ Q!Set(s, Q!Over(s))
  BY OverQuiet DEF Q!Abort
<1>2. calls[s].touched \in BOOLEAN
  BY DEF ContainmentInv, CallsInv, CallRecs
<1>3. Q!TypeOK'
  BY <1>2, ReleaseType DEF ContainmentInv, Q!TypeOK, Q!Abort, Q!rows, Q!labRows,
     Q!cluster
<1>4. CallsInv'
  BY <1>1, ReleaseType, TurnKeepsCalls DEF ContainmentInv, Quiet, Q!Abort, Q!rows,
     Holder
<1>5. ClusterInv'
  BY <1>1, TurnKeepsCluster DEF ContainmentInv, Q!Abort, Q!rows
<1>6. QED
  BY <1>3, <1>4, <1>5 DEF ContainmentInv, ArrivalInv, Q!Abort, Q!rows, Q!labRows

\* A session goes on without having claimed or changed anything.
LEMMA QuietKeeps ==
  ASSUME ContainmentInv, NEW s \in Q!Sessions, NEW r, Quiet(r),
         Q!Set(s, r), ~ calls[s].touched,
         \A t \in Q!Sessions \ {s} : lock = t => lock' = t,
         UNCHANGED <<incident, status, attempts, Q!cluster, torn>>, Q!TypeOK',
         linked' => linked \/ calls[s].at # "none"
  PROVE  ContainmentInv'
<1>1. CallsInv'
  BY TurnKeepsCalls DEF ContainmentInv, Quiet, Holder
<1>2. ClusterInv'
  BY TurnKeepsCluster DEF ContainmentInv
<1>3. ArrivalInv'
  BY DEF ContainmentInv, ArrivalInv, CallsInv
<1>4. QED
  BY <1>1, <1>2, <1>3 DEF ContainmentInv

\* The invariant, for one session.
LEMMA StepFacts ==
  ASSUME ContainmentInv, NEW s \in Q!Sessions
  PROVE  /\ calls[s] \in CallRecs
         /\ WellFormed(calls[s])
         /\ Holder(calls[s]) => lock = s
         /\ calls[s].step \in ClaimedSteps => attempts < MaxExecutions
         /\ calls[s].at # "none" \/ calls[s].marked => incident # "none"
         /\ Quiet(Q!Raised(s)) /\ Quiet(Q!Returned(s)) /\ Quiet(Q!Over(s)) /\ Quiet(Q!Idle)
BY OverQuiet, RaisedQuiet, ReturnedQuiet DEF ContainmentInv, CallsInv

\* A CloudWardError before anything was committed.
LEMMA RaiseKeeps ==
  ASSUME ContainmentInv, NEW s \in Q!Sessions,
         Q!RaiseUncommitted(s), ~ calls[s].touched,
         UNCHANGED <<owed, expired, Q!cluster, fails>>
  PROVE  ContainmentInv'
<1>0. Q!TypeOK /\ fails \in 0..MaxFailures
  BY DEF ContainmentInv, Q!TypeOK
<1>1. CASE Q!Abort(s)
  BY <1>0, <1>1, AbortKeeps
<1>2. CASE Q!Set(s, Q!Raised(s)) /\ UNCHANGED <<Q!rows, Q!labRows, lock, labLock, torn>>
  <2>1. Q!TypeOK'
    BY <1>2 DEF ContainmentInv, Q!TypeOK, Q!rows, Q!labRows, Q!cluster
  <2>2. QED
    BY <1>2, <2>1, StepFacts, QuietKeeps DEF Q!rows, Q!labRows
<1>3. QED
  BY <1>1, <1>2 DEF Q!RaiseUncommitted

\* What the commit of a call leaves of the types.
LEMMA CommitTypes ==
  ASSUME Q!TypeOK, NEW s \in Q!Sessions, NEW state,
         NEW containment, NEW n \in 0..1,
         Q!CommitCall(s, state, containment, n),
         state \in {"none", "POLICY_EVALUATION", "AWAITING_APPROVAL", "VERIFYING"} \cup Q!TerminalState,
         containment \in {"none"} \cup Q!Unrecorded \cup Q!Recorded,
         attempts + n <= MaxExecutions,
         monitor' \in {"unsent", "polling", "gone"},
         UNCHANGED <<owed, expired, Q!cluster, torn, fails>>
  PROVE  Q!TypeOK'
<1>1. linked' \in BOOLEAN /\ lab' \in {"none"} \cup Q!Active \cup Q!Ended
  BY DEF Q!TypeOK, Q!CommitCall, Q!Active
<1>2. attempts' \in 0..MaxExecutions
  BY ExecutionsAssumption DEF Q!TypeOK, Q!CommitCall
<1>3. lock' \in Q!Sessions \cup {Free} /\ labLock' \in Q!Sessions \cup {Free}
  BY ReleaseType DEF Q!CommitCall
<1>4. QED
  BY <1>1, <1>2, <1>3 DEF Q!TypeOK, Q!CommitCall, Q!cluster

\* The commit of a session that holds the row: its attempt is counted.
LEMMA CommitKeepsCalls ==
  ASSUME ContainmentInv, NEW s \in Q!Sessions, NEW state,
         NEW containment, NEW r, Quiet(r),
         Q!Set(s, r), Q!CommitCall(s, state, containment, 1), lock = s, state # "none"
  PROVE  CallsInv'
<1>1. \A t \in Q!Sessions \ {s} : lock = t => lock' = t /\ attempts' = attempts
  OBVIOUS
<1>2. QED
  BY <1>1, TurnKeepsCalls DEF ContainmentInv, Quiet, Holder, Q!CommitCall

\* OPA denies: the decision is committed, and no attempt counted.
LEMMA DenyKeeps ==
  ASSUME ContainmentInv, NEW s \in Q!Sessions, Q!Deny(s),
         ~ calls[s].touched, calls[s].at # "none",
         UNCHANGED <<owed, expired, Q!cluster, fails>>
  PROVE  ContainmentInv'
<1>0. Q!TypeOK
  BY DEF ContainmentInv
<1>1. monitor' \in {"unsent", "polling", "gone"}
  BY <1>0 DEF Q!TypeOK, Q!Deny
<1>2. Q!TypeOK'
  <2>1. attempts + 0 <= MaxExecutions
    BY <1>0, ExecutionsAssumption DEF Q!TypeOK
  <2>2. QED
    BY <1>0, <1>1, <2>1, CommitTypes DEF Q!TypeOK, Q!Deny
<1>3. incident' = incident /\ status' = status /\ attempts' = attempts
  BY <1>0 DEF Q!Deny, Q!CommitCall, Q!TypeOK
<1>4. QED
  BY <1>0, <1>2, <1>3, StepFacts, ReleaseType, QuietKeeps DEF Q!Deny, Q!CommitCall

-----------------------------------------------------------------------------
\* The experiment and what happens around it.

\* start_scenario, the event, a block by others, the end of the pod, the deadline.
LEMMA AroundKeeps ==
  ASSUME ContainmentInv,
         Q!StartScenario \/ Q!SendMonitor \/ Q!NoteMonitor \/ Q!Detect \/ Q!Block \/ Q!PodGone \/ Q!Expire
  PROVE  ContainmentInv'
<1>0. Q!TypeOK /\ CallsInv /\ ArrivalInv /\ ClusterInv
  BY DEF ContainmentInv
<1>1. /\ UNCHANGED <<attempts, lock, labLock, calls, torn, fails>>
  BY DEF Q!StartScenario, Q!SendMonitor, Q!NoteMonitor, Q!Detect, Q!Block, Q!PodGone,
     Q!Expire, Q!rows, Q!labRows, Q!cluster
<1>2. CallsInv'
  <2>1. incident # "none" => incident' # "none"
    <3>1. CASE Q!Detect
      BY <3>1 DEF Q!Detect
    <3>2. CASE ~ Q!Detect
      BY <3>2 DEF Q!StartScenario, Q!SendMonitor, Q!NoteMonitor, Q!Block, Q!PodGone,
         Q!Expire, Q!rows
    <3>3. QED
      BY <3>1, <3>2
  <2>2. QED
    BY <1>0, <1>1, <2>1 DEF CallsInv
<1>3. Q!Settled' = Q!Settled
  BY <1>1 DEF Q!Settled
<1>4. CASE Q!StartScenario \/ Q!SendMonitor \/ Q!NoteMonitor \/ Q!Expire
  <2>1. Q!TypeOK'
    <3>1. CASE Q!StartScenario
      BY <1>0, <3>1 DEF Q!TypeOK, Q!StartScenario, Q!rows, Q!cluster, Q!Active
    <3>2. CASE Q!SendMonitor
      BY <1>0, <3>2 DEF Q!TypeOK, Q!SendMonitor, Q!rows, Q!cluster
    <3>3. CASE Q!NoteMonitor
      BY <1>0, <3>3 DEF Q!TypeOK, Q!NoteMonitor, Q!rows, Q!cluster
    <3>4. CASE Q!Expire
      BY <1>0, <3>4 DEF Q!TypeOK, Q!Expire, Q!rows, Q!labRows, Q!cluster
    <3>5. QED
      BY <1>4, <3>1, <3>2, <3>3, <3>4
  <2>2. UNCHANGED <<incident, status, policy, label, pod>> /\ (linked' => linked)
    BY <1>4 DEF Q!StartScenario, Q!SendMonitor, Q!NoteMonitor, Q!Expire, Q!rows,
       Q!labRows, Q!cluster
  <2>3. QED
    BY <1>0, <1>2, <1>3, <2>1, <2>2 DEF ContainmentInv, ArrivalInv, ClusterInv,
       Q!ContainedIsEnforced, Q!NoForgottenPolicy
<1>5. CASE Q!Detect
  <2>1. Q!TypeOK'
    BY <1>0, <1>5 DEF Q!TypeOK, Q!Detect, Q!labRows, Q!cluster, Q!Unrecorded,
       Q!TerminalState
  <2>2. ArrivalInv'
    BY <1>5 DEF ArrivalInv, Q!Detect
  <2>3. UNCHANGED <<policy, label, pod>> /\ status = "none" /\ status' # "CONTAINED"
    BY <1>5 DEF Q!Detect, Q!cluster
  <2>4. ClusterInv'
    BY <1>0, <1>3, <2>3 DEF ClusterInv, Q!ContainedIsEnforced, Q!NoForgottenPolicy
  <2>5. QED
    BY <1>2, <2>1, <2>2, <2>4 DEF ContainmentInv
<1>6. CASE Q!Block
  <2>1. Q!TypeOK' /\ ArrivalInv'
    BY <1>0, <1>6 DEF Q!TypeOK, ArrivalInv, Q!Block, Q!labRows, Q!cluster,
       Q!TerminalState
  <2>2. ClusterInv'
    BY <1>0, <1>3, <1>6 DEF ClusterInv, Q!ContainedIsEnforced, Q!NoForgottenPolicy,
       Q!Block, Q!cluster
  <2>3. QED
    BY <1>2, <2>1, <2>2 DEF ContainmentInv
<1>7. CASE Q!PodGone
  <2>1. Q!TypeOK' /\ ArrivalInv'
    BY <1>0, <1>7 DEF Q!TypeOK, ArrivalInv, Q!PodGone, Q!rows, Q!labRows
  <2>2. ClusterInv'
    BY <1>0, <1>3, <1>7 DEF ClusterInv, Q!ContainedIsEnforced, Q!NoForgottenPolicy,
       Q!PodGone, Q!rows
  <2>3. QED
    BY <1>2, <2>1, <2>2 DEF ContainmentInv
<1>8. QED
  BY <1>4, <1>5, <1>6, <1>7

-----------------------------------------------------------------------------
\* Requests and polls begin.

\* A request, a poll or a stop begins.
LEMMA BeginKeeps ==
  ASSUME ContainmentInv, NEW s \in Q!Sessions,
         Q!BeginApply(s) \/ Q!BeginRemove(s) \/ Q!StartPoll(s) \/ Q!StartStop(s)
  PROVE  ContainmentInv'
<1>0. Q!TypeOK /\ ArrivalInv
  BY DEF ContainmentInv
<1>1. calls[s] = Q!Idle /\ ~ calls[s].touched
  BY DEF Q!BeginApply, Q!BeginRemove, Q!StartPoll, Q!StartStop, Q!Idle
<1>2. UNCHANGED <<incident, status, attempts, Q!cluster, torn, lock>>
  BY DEF Q!BeginApply, Q!BeginRemove, Q!StartPoll, Q!StartStop, Q!rows
<1>3. Q!TypeOK'
  <2>1. labLock' \in {labLock, s}
    BY DEF Q!BeginApply, Q!BeginRemove, Q!StartPoll, Q!StartStop
  <2>2. UNCHANGED <<Q!rows, Q!labRows, owed, expired, Q!cluster, lock, torn, fails>>
    BY DEF Q!BeginApply, Q!BeginRemove, Q!StartPoll, Q!StartStop
  <2>3. QED
    BY <1>0, <2>1, <2>2 DEF Q!TypeOK, Q!rows, Q!labRows, Q!cluster
<1>4. \E r : Quiet(r) /\ Q!Set(s, r)
  <2>1. CASE Q!BeginApply(s)
    <3>1. Quiet([Q!Idle EXCEPT !.step = "authorizing", !.at = incident, !.seen = status])
      BY <1>0, <2>1 DEF Q!BeginApply, Q!TypeOK, ArrivalInv, Quiet, Q!Idle, CallRecs,
         WellFormed, Holder,
         ClaimedSteps, ApplySteps, RemoveSteps, MidwaySteps, Q!Ended
    <3>2. QED
      BY <2>1, <3>1 DEF Q!BeginApply
  <2>2. CASE Q!BeginRemove(s)
    <3>1. Quiet([Q!Idle EXCEPT !.step = "reauthorizing", !.at = incident])
      BY <1>0, <2>2 DEF Q!BeginRemove, Q!TypeOK, ArrivalInv, Q!Recorded, Quiet, Q!Idle,
         CallRecs, WellFormed,
         Holder, ClaimedSteps, ApplySteps, RemoveSteps, MidwaySteps, Q!Ended
    <3>2. QED
      BY <2>2, <3>1 DEF Q!BeginRemove
  <2>3. CASE Q!StartPoll(s)
    BY <1>0, <2>3, CourseQuiet DEF Q!StartPoll
  <2>4. CASE Q!StartStop(s)
    <3>1. "CANCELLED" \in {"none"} \cup Q!Ended
      BY DEF Q!Ended
    <3>2. QED
      BY <1>0, <2>4, <3>1, CleanupQuiet, FinishingQuiet DEF Q!StartStop, ArrivalInv
  <2>5. QED
    BY <2>1, <2>2, <2>3, <2>4
<1>5. linked' = linked
  BY DEF Q!BeginApply, Q!BeginRemove, Q!StartPoll, Q!StartStop, Q!labRows
<1>6. QED
  BY <1>1, <1>2, <1>3, <1>4, <1>5, QuietKeeps

-----------------------------------------------------------------------------
\* apply_quarantine and remove_quarantine up to the claim.

\* _authorize: nothing is claimed yet.
LEMMA AuthorizeKeeps ==
  ASSUME ContainmentInv, NEW s \in Q!Sessions,
         Q!AuthorizeApply(s) \/ Q!AuthorizeRemove(s)
  PROVE  ContainmentInv'
<1>0. Q!TypeOK
  BY DEF ContainmentInv
<1>1. calls[s] \in CallRecs /\ WellFormed(calls[s])
  BY StepFacts
<1>2. ~ calls[s].touched /\ calls[s].at # "none"
  BY <1>1 DEF Q!AuthorizeApply, Q!AuthorizeRemove, WellFormed, MidwaySteps
<1>3. UNCHANGED <<owed, expired, Q!cluster, fails>>
  BY DEF Q!AuthorizeApply, Q!AuthorizeRemove
<1>4. CASE Q!RaiseUncommitted(s)
  BY <1>2, <1>3, <1>4, RaiseKeeps
<1>5. CASE Q!Deny(s)
  BY <1>2, <1>3, <1>5, DenyKeeps
<1>6. ASSUME NEW step, Q!Set(s, Q!Step(calls[s], step)),
             UNCHANGED <<Q!rows, Q!labRows, lock, labLock, torn>>,
             \/ calls[s].step = "authorizing" /\ step = "claiming"
             \/ calls[s].step = "reauthorizing" /\ step = "reclaiming"
      PROVE  ContainmentInv'
  <2>1. Q!TypeOK'
    BY <1>0, <1>3, <1>6 DEF Q!TypeOK, Q!rows, Q!labRows, Q!cluster
  <2>2. Quiet(Q!Step(calls[s], step))
    BY <1>1, <1>2, <1>6, StepFacts DEF Quiet, Q!Step, CallRecs, WellFormed, Holder,
         ClaimedSteps, ApplySteps, RemoveSteps, MidwaySteps
  <2>3. QED
    BY <1>2, <1>3, <1>6, <2>1, <2>2, QuietKeeps DEF Q!rows, Q!labRows
<1>7. QED
  BY <1>4, <1>5, <1>6 DEF Q!AuthorizeApply, Q!AuthorizeRemove

\* apply_quarantine takes the row only where an attempt is left.
LEMMA ClaimApplyKeeps ==
  ASSUME ContainmentInv, NEW s \in Q!Sessions, Q!ClaimApply(s)
  PROVE  ContainmentInv'
<1>0. Q!TypeOK /\ CallsInv /\ ClusterInv
  BY DEF ContainmentInv
<1>1. calls[s] \in CallRecs /\ WellFormed(calls[s]) /\ calls[s].step = "claiming" /\ lock = Free
  BY StepFacts DEF Q!ClaimApply
<1>2. UNCHANGED <<owed, expired, Q!cluster, fails>>
  BY DEF Q!ClaimApply
<1>3. CASE Q!Abort(s)
  BY <1>0, <1>2, <1>3, AbortKeeps DEF Q!TypeOK
<1>4. CASE ~ Q!Abort(s)
  <2> DEFINE moves == calls[s].at \in {"POLICY_EVALUATION", "AWAITING_APPROVAL"}
             r == [calls[s] EXCEPT !.step = "probing", !.wrote = moves,
                                 !.at = IF moves THEN "EXECUTING" ELSE calls[s].at]
  <2>1. /\ Q!Set(s, r) /\ lock' = s /\ attempts # MaxExecutions
        /\ UNCHANGED <<Q!rows, Q!labRows, labLock, torn>>
    BY <1>4 DEF Q!ClaimApply
  <2>2. r \in CallRecs /\ WellFormed(r) /\ ~ r.touched /\ ~ calls[s].touched
    <3>1. CASE moves
      <4>1. r = [calls[s] EXCEPT !.step = "probing", !.wrote = TRUE, !.at = "EXECUTING"]
        BY <3>1
      <4>2. QED
        BY <1>1, <4>1 DEF CallRecs, WellFormed, ClaimedSteps, ApplySteps, RemoveSteps,
           MidwaySteps
    <3>2. CASE ~ moves
      <4>1. calls[s].at = "VERIFYING"
        BY <1>1, <3>2 DEF WellFormed
      <4>2. r = [calls[s] EXCEPT !.step = "probing", !.wrote = FALSE, !.at = "VERIFYING"]
        <5>1. (calls[s].at \in {"POLICY_EVALUATION", "AWAITING_APPROVAL"}) = FALSE
          BY <4>1
        <5>2. QED
          BY <4>1, <5>1, Zenon
      <4>3. QED
        BY <1>1, <4>2 DEF CallRecs, WellFormed, ClaimedSteps, ApplySteps, RemoveSteps,
           MidwaySteps
    <3>3. QED
      BY <3>1, <3>2
  <2>3. Q!TypeOK'
    BY <1>0, <1>2, <2>1 DEF Q!TypeOK, Q!rows, Q!labRows, Q!cluster
  <2>4. attempts' < MaxExecutions /\ attempts' = attempts
    BY <1>0, <2>1, ExecutionsAssumption DEF Q!TypeOK, Q!rows
  <2>5. \A t \in Q!Sessions \ {s} : lock # t
    BY <1>1, FreeAssumption
  <2>6. incident' = incident /\ incident # "none"
    BY <1>1, <2>1, StepFacts DEF WellFormed, Q!rows
  <2> HIDE DEF r
  <2>7. CallsInv'
    BY <1>0, <2>1, <2>2, <2>4, <2>5, <2>6, TurnKeepsCalls
  <2>8. ClusterInv'
    BY <1>0, <1>2, <2>1, <2>2, TurnKeepsCluster DEF Q!rows
  <2>9. QED
    BY <2>3, <2>6, <2>7, <2>8 DEF ContainmentInv, ArrivalInv
<1>5. QED
  BY <1>3, <1>4

\* remove_quarantine takes the row, or leaves a record marked REMOVING.
LEMMA ClaimRemoveKeeps ==
  ASSUME ContainmentInv, NEW s \in Q!Sessions, Q!ClaimRemove(s)
  PROVE  ContainmentInv'
<1>0. Q!TypeOK /\ CallsInv /\ ClusterInv
  BY DEF ContainmentInv
<1>1. calls[s] \in CallRecs /\ WellFormed(calls[s]) /\ calls[s].step = "reclaiming" /\ lock = Free
  BY StepFacts DEF Q!ClaimRemove
<1>2. UNCHANGED <<owed, expired, Q!cluster, fails>>
  BY DEF Q!ClaimRemove
<1>3. CASE Q!Abort(s)
  BY <1>0, <1>2, <1>3, AbortKeeps DEF Q!TypeOK
<1>4. ASSUME NEW r \in CallRecs, WellFormed(r), ~ r.touched, Q!Set(s, r), lock' = s,
             r.step \in ClaimedSteps => attempts < MaxExecutions,
             UNCHANGED <<Q!rows, Q!labRows, labLock, torn>>
      PROVE  ContainmentInv'
  <2>2. ~ calls[s].touched
    BY <1>1 DEF WellFormed, MidwaySteps
  <2>3. Q!TypeOK'
    BY <1>0, <1>2, <1>4 DEF Q!TypeOK, Q!rows, Q!labRows, Q!cluster
  <2>5. \A t \in Q!Sessions \ {s} : lock # t
    BY <1>1, FreeAssumption
  <2>6. UNCHANGED <<incident, status, attempts>> /\ incident # "none"
    BY <1>1, <1>4, StepFacts DEF WellFormed, Q!rows
  <2>7. CallsInv'
    BY <1>0, <1>4, <2>5, <2>6, TurnKeepsCalls
  <2>8. ClusterInv'
    BY <1>0, <1>2, <1>4, <2>2, <2>6, TurnKeepsCluster
  <2>9. QED
    BY <2>3, <2>6, <2>7, <2>8 DEF ContainmentInv, ArrivalInv
<1>5. CASE attempts < MaxExecutions /\ Q!Set(s, Q!Step(calls[s], "deleting")) /\ lock' = s
           /\ UNCHANGED <<Q!rows, Q!labRows, labLock, torn>>
  <2>1. Q!Step(calls[s], "deleting") \in CallRecs /\ WellFormed(Q!Step(calls[s], "deleting"))
        /\ ~ Q!Step(calls[s], "deleting").touched
    BY <1>1 DEF Q!Step, CallRecs, WellFormed, ClaimedSteps, ApplySteps, RemoveSteps,
       MidwaySteps
  <2>2. QED
    BY <1>4, <1>5, <2>1
<1>6. CASE Q!Raised(s) # Q!Over(s) /\ Q!Set(s, [Q!Raised(s) EXCEPT !.marked = TRUE]) /\ lock' = s
           /\ UNCHANGED <<Q!rows, Q!labRows, labLock, torn>>
  <2> DEFINE r == [Q!Raised(s) EXCEPT !.marked = TRUE]
  <2>1. r \in CallRecs /\ WellFormed(r) /\ ~ r.touched /\ r.step \notin ClaimedSteps
    BY <1>1, <1>6 DEF Q!Raised, Q!Idle, CallRecs, WellFormed, ClaimedSteps, ApplySteps,
       RemoveSteps, MidwaySteps, Q!Ended
  <2>2. QED
    BY <1>4, <1>6, <2>1
<1>7. QED
  BY <1>3, <1>5, <1>6 DEF Q!ClaimRemove

-----------------------------------------------------------------------------
\* Steps between the claim and the end of the call.

\* A session that holds the row goes on; nothing is committed.
LEMMA HolderKeepsCalls ==
  ASSUME ContainmentInv, NEW s \in Q!Sessions,
         calls[s].step \in ClaimedSteps,
         NEW r \in CallRecs, WellFormed(r), Q!Set(s, r), UNCHANGED <<Q!rows, lock>>
  PROVE  CallsInv'
<1>1. lock = s /\ attempts < MaxExecutions /\ CallsInv /\ incident # "none"
  BY StepFacts DEF Holder, ContainmentInv, WellFormed, ClaimedSteps, ApplySteps
<1>2. QED
  BY <1>1, TurnKeepsCalls DEF Q!rows

\* The same, where the cluster is left alone.
LEMMA HolderKeeps ==
  ASSUME ContainmentInv, NEW s \in Q!Sessions,
         calls[s].step \in ClaimedSteps,
         NEW r \in CallRecs, WellFormed(r), Q!Set(s, r), calls[s].touched => r.touched,
         UNCHANGED <<Q!rows, Q!labRows, owed, expired, Q!cluster, lock, labLock, torn, fails>>
  PROVE  ContainmentInv'
<1>1. CallsInv'
  BY HolderKeepsCalls
<1>2. ClusterInv'
  BY TurnKeepsCluster DEF ContainmentInv, Q!rows
<1>3. Q!TypeOK'
  BY DEF ContainmentInv, Q!TypeOK, Q!rows, Q!labRows, Q!cluster
<1>4. QED
  BY <1>1, <1>2, <1>3 DEF ContainmentInv, ArrivalInv, Q!rows, Q!labRows

\* The same, where the cluster is changed.
LEMMA ToucherKeeps ==
  ASSUME ContainmentInv, NEW s \in Q!Sessions,
         calls[s].step \in ClaimedSteps,
         NEW r \in CallRecs, WellFormed(r), Q!Set(s, r), r.touched,
         policy' \in BOOLEAN, label' \in BOOLEAN,
         UNCHANGED <<Q!rows, Q!labRows, owed, expired, pod, lock, labLock, torn, fails>>
  PROVE  ContainmentInv'
<1>1. CallsInv'
  BY HolderKeepsCalls
<1>2. ClusterInv'
  BY TouchedKeepsCluster DEF ContainmentInv
<1>3. Q!TypeOK'
  BY DEF ContainmentInv, Q!TypeOK, Q!rows, Q!labRows
<1>4. QED
  BY <1>1, <1>2, <1>3 DEF ContainmentInv, ArrivalInv, Q!rows, Q!labRows

\* An end of the call that is committed with its attempt.
LEMMA CommitKeeps ==
  ASSUME ContainmentInv, NEW s \in Q!Sessions,
         calls[s].step \in ClaimedSteps,
         NEW r, Quiet(r), Q!Set(s, r), NEW state, NEW containment,
         Q!CommitCall(s, state, containment, 1),
         state \in {"POLICY_EVALUATION", "AWAITING_APPROVAL", "VERIFYING"} \cup Q!TerminalState,
         \/ containment = "VERIFICATION_FAILED"
         \/ containment = "CONTAINED" /\ policy /\ label
         \/ containment = "REMOVED" /\ ~ policy /\ ~ label,
         UNCHANGED <<monitor, owed, expired, Q!cluster, torn, fails>>
  PROVE  ContainmentInv'
<1>1. Q!TypeOK /\ lock = s /\ attempts < MaxExecutions
  BY StepFacts DEF Holder, ContainmentInv
<1>2. CallsInv'
  BY <1>1, CommitKeepsCalls DEF Q!TerminalState
<1>3. Q!TypeOK'
  <2>1. attempts + 1 <= MaxExecutions /\ 1 \in 0..1
    BY <1>1, ExecutionsAssumption DEF Q!TypeOK
  <2>2. monitor' \in {"unsent", "polling", "gone"}
    BY <1>1 DEF Q!TypeOK
  <2>3. containment \in {"none"} \cup Q!Unrecorded \cup Q!Recorded
    BY DEF Q!Recorded
  <2>4. QED
    BY <1>1, <2>1, <2>2, <2>3, CommitTypes
<1>4. ArrivalInv'
  BY DEF ArrivalInv, Q!CommitCall, Q!TerminalState
<1>5. ClusterInv'
  BY DEF Q!CommitCall, ClusterInv, Q!ContainedIsEnforced, Q!NoForgottenPolicy, Q!cluster
<1>6. QED
  BY <1>2, <1>3, <1>4, <1>5 DEF ContainmentInv

\* The egress probe.
LEMMA ProbeKeeps ==
  ASSUME ContainmentInv, NEW s \in Q!Sessions, Q!Probe(s)
  PROVE  ContainmentInv'
<1>1. calls[s] \in CallRecs /\ WellFormed(calls[s]) /\ calls[s].step = "probing"
  BY StepFacts DEF Q!Probe
<1>2. \A step \in {"labelling", "failing"} :
        /\ Q!Step(calls[s], step) \in CallRecs /\ WellFormed(Q!Step(calls[s], step))
        /\ Q!Step(calls[s], step).touched = calls[s].touched
  BY <1>1 DEF Q!Step, CallRecs, WellFormed, ClaimedSteps, ApplySteps, RemoveSteps,
     MidwaySteps
<1>3. calls[s].step \in ClaimedSteps
  BY <1>1 DEF ClaimedSteps, ApplySteps
<1>4. QED
  BY <1>2, <1>3, HolderKeeps DEF Q!Probe

\* apply_quarantine_policy patches the pod: from here on the call is midway.
LEMMA LabelKeeps ==
  ASSUME ContainmentInv, NEW s \in Q!Sessions, Q!Label(s)
  PROVE  ContainmentInv'
<1>0. Q!TypeOK
  BY DEF ContainmentInv
<1>1. calls[s] \in CallRecs /\ WellFormed(calls[s]) /\ calls[s].step = "labelling"
  BY StepFacts DEF Q!Label
<1>2. calls[s].step \in ClaimedSteps
  BY <1>1 DEF ClaimedSteps, ApplySteps
<1>3. CASE Q!Abort(s) /\ UNCHANGED label
  BY <1>0, <1>3, AbortKeeps DEF Q!Label, Q!cluster, Q!TypeOK
<1>4. CASE ~ pod /\ Q!Set(s, Q!Step(calls[s], "failing"))
           /\ UNCHANGED <<Q!rows, Q!labRows, label, lock, labLock, torn>>
  <2>1. /\ Q!Step(calls[s], "failing") \in CallRecs /\ WellFormed(Q!Step(calls[s], "failing"))
        /\ Q!Step(calls[s], "failing").touched = calls[s].touched
    BY <1>1 DEF Q!Step, CallRecs, WellFormed, ClaimedSteps, ApplySteps, RemoveSteps,
       MidwaySteps
  <2>2. QED
    BY <1>2, <1>4, <2>1, HolderKeeps DEF Q!Label, Q!cluster
<1>5. CASE /\ pod /\ label' = TRUE
           /\ Q!Set(s, [calls[s] EXCEPT !.step = "creating", !.touched = TRUE])
           /\ UNCHANGED <<Q!rows, Q!labRows, lock, labLock, torn>>
  <2> DEFINE r == [calls[s] EXCEPT !.step = "creating", !.touched = TRUE]
  <2>1. r \in CallRecs /\ WellFormed(r) /\ r.touched
    BY <1>1 DEF CallRecs, WellFormed, ClaimedSteps, ApplySteps, RemoveSteps, MidwaySteps
  <2>2. policy' \in BOOLEAN /\ label' \in BOOLEAN /\ UNCHANGED <<owed, expired, pod, fails>>
    BY <1>0, <1>5, TypeDomain DEF Q!Label
  <2> HIDE DEF r
  <2>3. Q!Set(s, r)
    BY <1>5 DEF r
  <2>4. QED
    BY <1>2, <1>5, <2>1, <2>2, <2>3, ToucherKeeps
<1>6. QED
  BY <1>3, <1>4, <1>5 DEF Q!Label

\* The policy is created, or the label taken back.
LEMMA CreatePolicyKeeps ==
  ASSUME ContainmentInv, NEW s \in Q!Sessions, Q!CreatePolicy(s)
  PROVE  ContainmentInv'
<1>0. Q!TypeOK
  BY DEF ContainmentInv
<1>1. calls[s] \in CallRecs /\ WellFormed(calls[s]) /\ calls[s].step = "creating" /\ calls[s].touched
  BY StepFacts DEF Q!CreatePolicy, WellFormed, MidwaySteps
<1>2. calls[s].step \in ClaimedSteps
  BY <1>1 DEF ClaimedSteps, ApplySteps
<1>3. CASE Q!Abort(s) /\ UNCHANGED <<policy, label>>
  BY <1>0, <1>3, AbortKeeps DEF Q!CreatePolicy, Q!cluster, Q!TypeOK
<1>4. CASE ~ (Q!Abort(s) /\ UNCHANGED <<policy, label>>)
  <2> DEFINE applied == IF calls[s].at = "EXECUTING"
                        THEN [calls[s] EXCEPT !.step = "verifying", !.at = "VERIFYING", !.wrote = TRUE]
                        ELSE Q!Step(calls[s], "verifying")
             undone == Q!Step(calls[s], "failing")
  <2>1. applied \in CallRecs /\ WellFormed(applied) /\ applied.touched
    BY <1>1 DEF Q!Step, CallRecs, WellFormed, ClaimedSteps, ApplySteps, RemoveSteps,
       MidwaySteps
  <2>2. undone \in CallRecs /\ WellFormed(undone) /\ undone.touched
    BY <1>1 DEF Q!Step, CallRecs, WellFormed, ClaimedSteps, ApplySteps, RemoveSteps,
       MidwaySteps
  <2>3. Q!Set(s, applied) \/ Q!Set(s, undone)
    BY <1>4 DEF Q!CreatePolicy
  <2>4. /\ UNCHANGED <<Q!rows, Q!labRows, owed, expired, pod, lock, labLock, torn, fails>>
    BY <1>4 DEF Q!CreatePolicy
  <2>5. policy' \in BOOLEAN /\ label' \in BOOLEAN
    BY <1>0, <1>4, TypeDomain DEF Q!CreatePolicy
  <2> HIDE DEF applied, undone
  <2>6. QED
    BY <1>2, <2>1, <2>2, <2>3, <2>4, <2>5, ToucherKeeps
<1>5. QED
  BY <1>3, <1>4 DEF Q!CreatePolicy

\* _wait_for_containment: CONTAINED is committed where policy and label were seen.
LEMMA VerifyKeeps ==
  ASSUME ContainmentInv, NEW s \in Q!Sessions, Q!Verify(s)
  PROVE  ContainmentInv'
<1>0. Q!TypeOK
  BY DEF ContainmentInv
<1>1. /\ calls[s] \in CallRecs /\ WellFormed(calls[s]) /\ calls[s].step = "verifying"
      /\ calls[s].at = "VERIFYING" /\ incident # "none"
  BY StepFacts DEF Q!Verify, WellFormed
<1>2. calls[s].step \in ClaimedSteps
  BY <1>1 DEF ClaimedSteps, ApplySteps
<1>3. CASE /\ Q!Set(s, Q!Step(calls[s], "failing"))
           /\ UNCHANGED <<incident, status, attempts, lab, linked, lock, labLock>>
  <2>1. /\ Q!Step(calls[s], "failing") \in CallRecs /\ WellFormed(Q!Step(calls[s], "failing"))
        /\ Q!Step(calls[s], "failing").touched = calls[s].touched
    BY <1>1 DEF Q!Step, CallRecs, WellFormed, ClaimedSteps, ApplySteps, RemoveSteps,
       MidwaySteps
  <2>2. QED
    BY <1>2, <1>3, <2>1, HolderKeeps DEF Q!Verify, Q!rows, Q!labRows
<1>4. CASE /\ Q!PolicyState = <<TRUE, TRUE>> /\ pod
           /\ Q!CommitCall(s, IF calls[s].wrote THEN calls[s].at ELSE incident, "CONTAINED", 1)
           /\ Q!Set(s, Q!Returned(s))
  <2> DEFINE state == IF calls[s].wrote THEN calls[s].at ELSE incident
  <2>1. state \in {"POLICY_EVALUATION", "AWAITING_APPROVAL", "VERIFYING"} \cup Q!TerminalState
    BY <1>0, <1>1 DEF Q!TypeOK
  <2>2. policy /\ label
    BY <1>0, <1>4, TypeDomain DEF Q!PolicyState
  <2>3. UNCHANGED <<monitor, owed, expired, Q!cluster, torn, fails>>
    BY DEF Q!Verify
  <2>4. Quiet(Q!Returned(s))
    BY StepFacts
  <2>5. Q!CommitCall(s, state, "CONTAINED", 1)
    BY <1>4
  <2> HIDE DEF state
  <2>6. QED
    BY <1>2, <1>4, <2>1, <2>2, <2>3, <2>4, <2>5, CommitKeeps
<1>5. QED
  BY <1>3, <1>4 DEF Q!Verify

\* The handler of CloudWardError in apply_quarantine.
LEMMA FailApplyKeeps ==
  ASSUME ContainmentInv, NEW s \in Q!Sessions, Q!FailApply(s)
  PROVE  ContainmentInv'
<1>1. /\ calls[s].step = "failing" /\ calls[s].at \in {"EXECUTING", "VERIFYING"}
      /\ Quiet(Q!Raised(s))
  BY StepFacts DEF Q!FailApply, WellFormed
<1>2. calls[s].step \in ClaimedSteps
  BY <1>1 DEF ClaimedSteps, ApplySteps
<1>3. Q!CommitCall(s, "ESCALATED", "VERIFICATION_FAILED", 1)
  BY <1>1 DEF Q!FailApply
<1>4. "ESCALATED" \in Q!TerminalState
  BY DEF Q!TerminalState
<1>5. QED
  BY <1>1, <1>2, <1>3, <1>4, CommitKeeps DEF Q!FailApply

\* remove_quarantine_policy deletes the policy: midway again.
LEMMA DeletePolicyKeeps ==
  ASSUME ContainmentInv, NEW s \in Q!Sessions, Q!DeletePolicy(s)
  PROVE  ContainmentInv'
<1>0. Q!TypeOK
  BY DEF ContainmentInv
<1>1. calls[s] \in CallRecs /\ WellFormed(calls[s]) /\ calls[s].step = "deleting"
  BY StepFacts DEF Q!DeletePolicy
<1>2. calls[s].step \in ClaimedSteps
  BY <1>1 DEF ClaimedSteps, RemoveSteps
<1>3. CASE UNCHANGED policy /\ Q!Set(s, Q!Step(calls[s], "unremoved"))
  <2>1. /\ Q!Step(calls[s], "unremoved") \in CallRecs /\ WellFormed(Q!Step(calls[s], "unremoved"))
        /\ Q!Step(calls[s], "unremoved").touched = calls[s].touched
    BY <1>1 DEF Q!Step, CallRecs, WellFormed, ClaimedSteps, ApplySteps, RemoveSteps,
       MidwaySteps
  <2>2. QED
    BY <1>2, <1>3, <2>1, HolderKeeps DEF Q!DeletePolicy, Q!cluster
<1>4. CASE /\ pod /\ policy' = FALSE
           /\ Q!Set(s, [calls[s] EXCEPT !.step = "unlabelling", !.touched = TRUE])
  <2> DEFINE r == [calls[s] EXCEPT !.step = "unlabelling", !.touched = TRUE]
  <2>1. r \in CallRecs /\ WellFormed(r) /\ r.touched
    BY <1>1 DEF CallRecs, WellFormed, ClaimedSteps, ApplySteps, RemoveSteps, MidwaySteps
  <2>2. /\ policy' \in BOOLEAN /\ label' \in BOOLEAN
        /\ UNCHANGED <<Q!rows, Q!labRows, owed, expired, pod, lock, labLock, torn, fails>>
    BY <1>0, <1>4, TypeDomain DEF Q!DeletePolicy
  <2> HIDE DEF r
  <2>3. Q!Set(s, r)
    BY <1>4 DEF r
  <2>4. QED
    BY <1>2, <2>1, <2>2, <2>3, ToucherKeeps
<1>5. QED
  BY <1>3, <1>4 DEF Q!DeletePolicy

\* The label is taken off.
LEMMA UnlabelKeeps ==
  ASSUME ContainmentInv, NEW s \in Q!Sessions, Q!Unlabel(s)
  PROVE  ContainmentInv'
<1>0. Q!TypeOK
  BY DEF ContainmentInv
<1>1. calls[s] \in CallRecs /\ WellFormed(calls[s]) /\ calls[s].step = "unlabelling" /\ calls[s].touched
  BY StepFacts DEF Q!Unlabel, WellFormed, MidwaySteps
<1>2. calls[s].step \in ClaimedSteps
  BY <1>1 DEF ClaimedSteps, RemoveSteps
<1>3. CASE Q!Abort(s) /\ UNCHANGED label
  BY <1>0, <1>3, AbortKeeps DEF Q!Unlabel, Q!cluster, Q!TypeOK
<1>4. CASE pod /\ label' = FALSE /\ Q!Set(s, Q!Step(calls[s], "checking"))
           /\ UNCHANGED <<Q!rows, Q!labRows, lock, labLock, torn>>
  <2>1. /\ Q!Step(calls[s], "checking") \in CallRecs /\ WellFormed(Q!Step(calls[s], "checking"))
        /\ Q!Step(calls[s], "checking").touched
    BY <1>1 DEF Q!Step, CallRecs, WellFormed, ClaimedSteps, ApplySteps, RemoveSteps,
       MidwaySteps
  <2>2. policy' \in BOOLEAN /\ label' \in BOOLEAN /\ UNCHANGED <<owed, expired, pod, fails>>
    BY <1>0, <1>4, TypeDomain DEF Q!Unlabel
  <2>3. QED
    BY <1>2, <1>4, <2>1, <2>2, ToucherKeeps
<1>5. QED
  BY <1>3, <1>4 DEF Q!Unlabel

\* _wait_for_release: REMOVED is committed where both were seen to be gone.
LEMMA CheckReleaseKeeps ==
  ASSUME ContainmentInv, NEW s \in Q!Sessions, Q!CheckRelease(s)
  PROVE  ContainmentInv'
<1>0. Q!TypeOK
  BY DEF ContainmentInv
<1>1. calls[s] \in CallRecs /\ WellFormed(calls[s]) /\ calls[s].step = "checking" /\ incident # "none"
  BY StepFacts DEF Q!CheckRelease, WellFormed, RemoveSteps
<1>2. calls[s].step \in ClaimedSteps
  BY <1>1 DEF ClaimedSteps, RemoveSteps
<1>3. CASE /\ Q!Set(s, Q!Step(calls[s], "unremoved"))
           /\ UNCHANGED <<incident, status, attempts, lab, linked, lock, labLock>>
  <2>1. /\ Q!Step(calls[s], "unremoved") \in CallRecs /\ WellFormed(Q!Step(calls[s], "unremoved"))
        /\ Q!Step(calls[s], "unremoved").touched = calls[s].touched
    BY <1>1 DEF Q!Step, CallRecs, WellFormed, ClaimedSteps, ApplySteps, RemoveSteps,
       MidwaySteps
  <2>2. QED
    BY <1>2, <1>3, <2>1, HolderKeeps DEF Q!CheckRelease, Q!rows, Q!labRows
<1>4. CASE /\ Q!PolicyState = <<FALSE, FALSE>> /\ pod
           /\ Q!CommitCall(s, IF calls[s].at = "VERIFYING" THEN "RESOLVED" ELSE incident, "REMOVED", 1)
           /\ Q!Set(s, Q!Returned(s))
  <2> DEFINE state == IF calls[s].at = "VERIFYING" THEN "RESOLVED" ELSE incident
  <2>1. state \in {"POLICY_EVALUATION", "AWAITING_APPROVAL", "VERIFYING"} \cup Q!TerminalState
    BY <1>0, <1>1 DEF Q!TypeOK, Q!TerminalState
  <2>2. ~ policy /\ ~ label
    BY <1>0, <1>4, TypeDomain DEF Q!PolicyState
  <2>3. UNCHANGED <<monitor, owed, expired, Q!cluster, torn, fails>>
    BY DEF Q!CheckRelease
  <2>4. Quiet(Q!Returned(s))
    BY StepFacts
  <2>5. Q!CommitCall(s, state, "REMOVED", 1)
    BY <1>4
  <2> HIDE DEF state
  <2>6. QED
    BY <1>2, <1>4, <2>1, <2>2, <2>3, <2>4, <2>5, CommitKeeps
<1>5. QED
  BY <1>3, <1>4 DEF Q!CheckRelease

\* The handler of CloudWardError in remove_quarantine.
LEMMA FailRemoveKeeps ==
  ASSUME ContainmentInv, NEW s \in Q!Sessions, Q!FailRemove(s)
  PROVE  ContainmentInv'
<1>1. calls[s].step = "unremoved" /\ incident # "none" /\ Quiet(Q!Raised(s))
  BY StepFacts DEF Q!FailRemove, WellFormed, RemoveSteps
<1>2. calls[s].step \in ClaimedSteps
  BY <1>1 DEF ClaimedSteps, RemoveSteps
<1>3. incident \in {"POLICY_EVALUATION", "AWAITING_APPROVAL", "VERIFYING"} \cup Q!TerminalState
  BY <1>1 DEF ContainmentInv, Q!TypeOK
<1>4. QED
  BY <1>1, <1>2, <1>3, CommitKeeps DEF Q!FailRemove

-----------------------------------------------------------------------------
\* The end of a poll or stop.

\* The poll reads the rows again after the removal.
LEMMA RefreshKeeps ==
  ASSUME ContainmentInv, NEW s \in Q!Sessions, Q!Refresh(s)
  PROVE  ContainmentInv'
<1>0. Q!TypeOK
  BY DEF ContainmentInv
<1>1. ~ calls[s].touched
  BY StepFacts DEF Q!Refresh, WellFormed, MidwaySteps
<1>2. Q!TypeOK'
  BY <1>0 DEF Q!TypeOK, Q!Refresh, Q!rows, Q!labRows, Q!cluster
<1>3. \A goal \in {"FAILED", "SUCCEEDED", "none"} :
        Quiet([Q!Idle EXCEPT !.step = "finishing", !.goal = goal])
  BY FinishingQuiet DEF Q!Ended
<1>4. Q!Conclude(status, incident) = "FAILED" => Quiet(Q!Cleanup("FAILED"))
  <2>1. Q!Conclude(status, incident) = "FAILED" => incident # "none"
    BY DEF Q!Conclude, ContainmentInv, ArrivalInv
  <2>2. QED
    BY <1>0, <2>1, CleanupQuiet DEF Q!Ended
<1>5. \E r : Quiet(r) /\ Q!Set(s, r)
  BY <1>3, <1>4, ConcludeType DEF Q!Refresh
<1>6. UNCHANGED <<incident, status, attempts, Q!cluster, torn, linked, lock>>
  BY DEF Q!Refresh, Q!rows, Q!labRows
<1>7. QED
  BY <1>1, <1>2, <1>5, <1>6, QuietKeeps

\* The last commit; a marked record becomes REMOVING.
LEMMA FinishKeeps ==
  ASSUME ContainmentInv, NEW s \in Q!Sessions, Q!Finish(s)
  PROVE  ContainmentInv'
<1>0. Q!TypeOK /\ CallsInv /\ ClusterInv /\ ArrivalInv
  BY DEF ContainmentInv
<1>1. calls[s].step = "finishing" /\ ~ calls[s].touched /\ calls[s].goal \in {"none"} \cup Q!Ended
      /\ Quiet(Q!Over(s))
  BY StepFacts DEF Q!Finish, WellFormed, MidwaySteps, CallRecs
<1>2. UNCHANGED <<incident, attempts, monitor, expired, Q!cluster, torn, fails>> /\ Q!Release(s)
      /\ Q!Set(s, Q!Over(s))
  BY DEF Q!Finish
<1>3. /\ lock' \in Q!Sessions \cup {Free} /\ labLock' \in Q!Sessions \cup {Free}
      /\ \A t \in Q!Sessions \ {s} : lock = t => lock' = t
  BY <1>0, <1>2, ReleaseType
<1>4. Q!TypeOK'
  <2>1. lab' \in {"none"} \cup Q!Active \cup Q!Ended
    BY <1>0, <1>1 DEF Q!TypeOK, Q!Finish
  <2>2. status' \in {"none"} \cup Q!Unrecorded \cup Q!Recorded
    BY <1>0 DEF Q!TypeOK, Q!Finish, Q!Recorded
  <2>3. linked' \in BOOLEAN /\ owed' \in BOOLEAN
    BY <1>0, TypeDomain DEF Q!Finish
  <2>4. QED
    BY <1>0, <1>2, <1>3, <2>1, <2>2, <2>3 DEF Q!TypeOK, Q!cluster
<1>5. CallsInv'
  BY <1>0, <1>1, <1>2, <1>3, TurnKeepsCalls DEF Quiet, Holder
<1>6. CASE ~ calls[s].marked
  <2>1. status' = status
    BY <1>6 DEF Q!Finish
  <2>2. ClusterInv'
    BY <1>0, <1>1, <1>2, <2>1, TurnKeepsCluster
  <2>3. ArrivalInv'
    BY <1>0, <1>2, <2>1 DEF Q!Finish, ArrivalInv
  <2>4. QED
    BY <1>4, <1>5, <2>2, <2>3 DEF ContainmentInv
<1>7. CASE calls[s].marked
  <2>1. status' = "REMOVING"
    BY <1>7 DEF Q!Finish
  <2>2. ClusterInv'
    BY <2>1 DEF ClusterInv, Q!ContainedIsEnforced, Q!NoForgottenPolicy
  <2>3. ArrivalInv'
    BY <1>2, <1>7, StepFacts DEF ArrivalInv
  <2>4. QED
    BY <1>4, <1>5, <2>2, <2>3 DEF ContainmentInv
<1>8. QED
  BY <1>6, <1>7

-----------------------------------------------------------------------------

\* Every step of a running session,
LEMMA MoveKeeps ==
  ASSUME ContainmentInv, NEW s \in Q!Sessions, Q!Move(s)
  PROVE  ContainmentInv'
<1>1. Q!DeadlockDetected(s) => ContainmentInv'
  BY AbortKeeps DEF Q!DeadlockDetected, ContainmentInv, Q!TypeOK
<1>2. QED
  BY <1>1, AuthorizeKeeps, ClaimApplyKeeps, ProbeKeeps, LabelKeeps, CreatePolicyKeeps,
     VerifyKeeps,
     FailApplyKeeps, ClaimRemoveKeeps, DeletePolicyKeeps, UnlabelKeeps,
     CheckReleaseKeeps,
     FailRemoveKeeps, RefreshKeeps, FinishKeeps DEF Q!Move

\* its death,
LEMMA CrashKeeps ==
  ASSUME ContainmentInv, NEW s \in Q!Sessions, Q!Crash(s)
  PROVE  ContainmentInv'
<1>1. fails' \in 0..MaxFailures
  BY FailuresAssumption DEF ContainmentInv, Q!TypeOK, Q!Crash
<1>2. QED
  BY <1>1, AbortKeeps DEF Q!Crash

\* the beginning,
LEMMA ContainmentInit ==
  ASSUME Q!Init
  PROVE  ContainmentInv
<1>1. Q!TypeOK
  <2>1. attempts \in 0..MaxExecutions /\ fails \in 0..MaxFailures
    BY ExecutionsAssumption, FailuresAssumption DEF Q!Init
  <2>2. {linked, owed, expired, policy, label, pod, torn} \subseteq BOOLEAN
    BY DEF Q!Init
  <2>3. incident = "none" /\ status = "none" /\ lab = "none" /\ monitor = "unsent"
        /\ lock = Free /\ labLock = Free
    BY DEF Q!Init
  <2>4. QED
    BY <2>1, <2>2, <2>3 DEF Q!TypeOK
<1>2. CallsInv
  <2>1. \A s \in Q!Sessions : calls[s] = Q!Idle
    BY DEF Q!Init
  <2>2. Q!Idle \in CallRecs /\ WellFormed(Q!Idle) /\ ~ Holder(Q!Idle) /\ Q!Idle.at = "none"
        /\ Q!Idle.step \notin ClaimedSteps /\ ~ Q!Idle.marked
    BY DEF Q!Idle, CallRecs, WellFormed, Holder, ClaimedSteps, ApplySteps, RemoveSteps,
       MidwaySteps
  <2>3. calls \in [Q!Sessions -> CallRecs]
    BY <2>2 DEF Q!Init
  <2>4. QED
    BY <2>1, <2>2, <2>3 DEF CallsInv
<1>3. ArrivalInv /\ ClusterInv
  BY DEF Q!Init, ArrivalInv, ClusterInv, Q!ContainedIsEnforced, Q!NoForgottenPolicy
<1>4. QED
  BY <1>1, <1>2, <1>3 DEF ContainmentInv

\* and so every step of the specification keeps the invariant.
LEMMA ContainmentStep ==
  ASSUME ContainmentInv, [Q!Next]_(Q!vars)
  PROVE  ContainmentInv'
<1>1. CASE Q!Next
  BY <1>1, AroundKeeps, BeginKeeps, MoveKeeps, CrashKeeps DEF Q!Next
<1>2. CASE UNCHANGED Q!vars
  <2>1. UNCHANGED <<incident, status, attempts, lab, linked, monitor, owed, expired,
                    policy, label, pod, lock, labLock, calls, torn, fails>>
    BY <1>2 DEF Q!vars, Q!rows, Q!labRows, Q!cluster
  <2>2. Q!TypeOK'
    BY <2>1 DEF ContainmentInv, Q!TypeOK
  <2>3. CallsInv'
    BY <2>1 DEF ContainmentInv, CallsInv
  <2>4. ArrivalInv' /\ ClusterInv'
    BY <2>1 DEF ContainmentInv, ArrivalInv, ClusterInv, Q!ContainedIsEnforced,
       Q!NoForgottenPolicy, Q!Settled
  <2>5. QED
    BY <2>2, <2>3, <2>4 DEF ContainmentInv
<1>3. QED
  BY <1>1, <1>2

\* Records and cluster agree in both directions (apply_quarantine,
\* remove_quarantine): a pod shown as CONTAINED is behind its policy, and no
\* policy or label stays that no record can remove, unless a session was lost
\* midway.  For any number of administrators, polls and stops.
THEOREM QuarantineIsRecorded == Q!Spec => []PolicyIsRecorded
<1>1. ContainmentInv => PolicyIsRecorded
  BY DEF ContainmentInv, ClusterInv, PolicyIsRecorded
<1>2. QED
  BY <1>1, ContainmentInit, ContainmentStep, PTL DEF Q!Spec

-----------------------------------------------------------------------------
\* Only FailApply counts an attempt for a undone containment.
LEMMA FailedIsEscalated ==
  ASSUME ContainmentInv, [Q!Next]_(Q!vars),
         status' = "VERIFICATION_FAILED", attempts' > attempts,
         NEW s \in Q!Sessions, calls[s].step = "failing", calls'[s].step # "failing"
  PROVE  incident' \in Q!TerminalState
<1>0. Q!TypeOK /\ CallsInv /\ attempts \in Nat
  BY DEF ContainmentInv, Q!TypeOK
<1>1. PICK t \in Q!Sessions : Q!BeginApply(t) \/ Q!BeginRemove(t) \/ Q!StartPoll(t) \/ Q!StartStop(t)
        \/ Q!Move(t) \/ Q!Crash(t)
  <2>1. attempts' # attempts
    BY <1>0
  <2>2. QED
    BY <2>1 DEF Q!Next, Q!vars, Q!rows, Q!StartScenario, Q!SendMonitor, Q!NoteMonitor,
       Q!Detect, Q!Block, Q!PodGone, Q!Expire
<1>2. \E r : Q!Set(t, r)
  BY <1>1 DEF Q!BeginApply, Q!BeginRemove, Q!StartPoll, Q!StartStop, Q!Move, Q!Crash,
     Q!Abort, Q!DeadlockDetected,
     Q!AuthorizeApply, Q!AuthorizeRemove, Q!RaiseUncommitted, Q!Deny, Q!ClaimApply,
     Q!Probe, Q!Label, Q!CreatePolicy,
     Q!Verify, Q!FailApply, Q!ClaimRemove, Q!DeletePolicy, Q!Unlabel, Q!CheckRelease,
     Q!FailRemove, Q!Refresh, Q!Finish
<1>3. t = s
  BY <1>0, <1>2 DEF Q!Set, CallsInv
<1>4. CASE Q!FailApply(s)
  <2>1. calls[s].at \in {"EXECUTING", "VERIFYING"}
    BY StepFacts DEF WellFormed
  <2>2. QED
    BY <1>4, <2>1 DEF Q!FailApply, Q!CommitCall, Q!TerminalState
<1>5. CASE ~ Q!FailApply(s)
  <2>1. Q!DeadlockDetected(s) \/ Q!Crash(s)
    <3>1. calls[s] # Q!Idle
      BY DEF Q!Idle
    <3>2. Q!Move(s) => Q!DeadlockDetected(s)
      BY <1>5 DEF Q!Move, Q!AuthorizeApply, Q!AuthorizeRemove, Q!ClaimApply, Q!Probe,
         Q!Label, Q!CreatePolicy,
         Q!Verify, Q!ClaimRemove, Q!DeletePolicy, Q!Unlabel, Q!CheckRelease,
         Q!FailRemove, Q!Refresh, Q!Finish
    <3>3. QED
      BY <1>1, <1>3, <3>1, <3>2 DEF Q!BeginApply, Q!BeginRemove, Q!StartPoll,
         Q!StartStop
  <2>2. attempts' = attempts
    BY <2>1 DEF Q!DeadlockDetected, Q!Crash, Q!Abort, Q!rows
  <2>3. QED
    BY <1>0, <2>2
<1>6. QED
  BY <1>4, <1>5

\* An experiment that r decides to call SUCCEEDED is clean.
Clean(r) == r.step = "finishing" /\ r.goal = "SUCCEEDED" =>
              status = "REMOVED" /\ incident = "RESOLVED"

\* No end of a call decides on SUCCEEDED.
LEMMA EndsAreClean ==
  ASSUME CallsInv, NEW s \in Q!Sessions
  PROVE  /\ Clean(Q!Over(s)) /\ Clean(Q!Raised(s)) /\ Clean(Q!Returned(s))
         /\ \A step : step # "finishing" => Clean(Q!Step(calls[s], step))
<1>1. Clean(Q!Over(s))
  BY DEF Clean, Q!Over, Q!Idle
<1>2. \A goal : goal # "SUCCEEDED" => Clean([Q!Idle EXCEPT !.step = "finishing", !.goal = goal])
  BY DEF Clean, Q!Idle
<1>3. Clean(Q!Raised(s))
  BY <1>1, <1>2 DEF Q!Raised
<1>4. Clean([Q!Idle EXCEPT !.step = "refreshing", !.goal = "SUCCEEDED"])
  BY DEF Clean, Q!Idle
<1>5. Clean(Q!Returned(s))
  BY <1>1, <1>2, <1>4 DEF Q!Returned
<1>6. \A step : step # "finishing" => Clean(Q!Step(calls[s], step))
  <2>1. calls[s] \in CallRecs
    BY DEF CallsInv
  <2>2. QED
    BY <2>1 DEF Clean, Q!Step, CallRecs
<1>7. QED
  BY <1>1, <1>3, <1>5, <1>6

\* SUCCEEDED is concluded from clean rows only; a cleanup does not conclude it.
LEMMA ConclusionsAreClean ==
  ASSUME NEW goal
  PROVE  /\ goal = Q!Conclude(status, incident) =>
              Clean([Q!Idle EXCEPT !.step = "finishing", !.goal = goal])
         /\ goal # "SUCCEEDED" => Clean([Q!Idle EXCEPT !.step = "finishing", !.goal = goal])
         /\ goal # "SUCCEEDED" \/ status = "CONTAINED" => Clean(Q!Cleanup(goal))
BY DEF Clean, Q!Idle, Q!Cleanup, Q!Conclude, Q!Unrecorded

\* The same for the course of a poll.
LEMMA CourseIsClean == Clean(Q!Course)
<1> DEFINE end(goal) == [Q!Idle EXCEPT !.step = "finishing", !.goal = goal]
<1>1. /\ Clean(end("TIMED_OUT")) /\ Clean(end(Q!Conclude(status, incident)))
      /\ Clean(Q!Cleanup("TIMED_OUT")) /\ Clean(Q!Cleanup("FAILED"))
      /\ status = "CONTAINED" => Clean(Q!Cleanup("SUCCEEDED"))
  BY ConclusionsAreClean
<1>2. Clean(Q!Idle) /\ Clean([Q!Idle EXCEPT !.step = "authorizing", !.goal = "none",
                                        !.at = incident, !.seen = status])
  BY DEF Clean, Q!Idle
<1> HIDE DEF Clean, Q!Idle, Q!Cleanup, Q!Conclude
<1>3. QED
  BY <1>1, <1>2 DEF Q!Course

\* Every turn of a session that does not end it leaves it clean.
LEMMA TurnsAreClean ==
  ASSUME CallsInv, NEW s \in Q!Sessions,
         \/ Q!BeginApply(s) \/ Q!BeginRemove(s) \/ Q!StartPoll(s) \/ Q!StartStop(s)
         \/ Q!Move(s) \/ Q!Crash(s)
  PROVE  \E r : Q!Set(s, r) /\ Clean(r)
<1>1. /\ Clean(Q!Over(s)) /\ Clean(Q!Raised(s)) /\ Clean(Q!Returned(s))
      /\ \A step : step # "finishing" => Clean(Q!Step(calls[s], step))
  BY EndsAreClean
<1>2. CASE Q!BeginApply(s) \/ Q!BeginRemove(s) \/ Q!StartPoll(s) \/ Q!StartStop(s)
  <2>1. CASE Q!BeginApply(s)
    <3>1. Clean([Q!Idle EXCEPT !.step = "authorizing", !.at = incident, !.seen = status])
      BY DEF Clean, Q!Idle
    <3>2. QED
      BY <2>1, <3>1 DEF Q!BeginApply
  <2>2. CASE Q!BeginRemove(s)
    <3>1. Clean([Q!Idle EXCEPT !.step = "reauthorizing", !.at = incident])
      BY DEF Clean, Q!Idle
    <3>2. QED
      BY <2>2, <3>1 DEF Q!BeginRemove
  <2>3. CASE Q!StartPoll(s)
    BY <2>3, CourseIsClean DEF Q!StartPoll
  <2>4. CASE Q!StartStop(s)
    <3>1. Clean(Q!Cleanup("CANCELLED")) /\ Clean([Q!Idle EXCEPT !.step = "finishing", !.goal = "CANCELLED"])
      BY ConclusionsAreClean
    <3>2. QED
      BY <2>4, <3>1 DEF Q!StartStop
  <2>5. QED
    BY <1>2, <2>1, <2>2, <2>3, <2>4
<1>3. CASE Q!Abort(s) \/ Q!Finish(s)
  BY <1>1, <1>3 DEF Q!Abort, Q!Finish
<1>4. CASE Q!AuthorizeApply(s) \/ Q!AuthorizeRemove(s)
  BY <1>1, <1>4, <1>3 DEF Q!AuthorizeApply, Q!AuthorizeRemove, Q!RaiseUncommitted,
     Q!Deny
<1>5. CASE Q!ClaimApply(s)
  <2>1. calls[s] \in CallRecs
    BY DEF CallsInv
  <2>2. \A at,
  wrote : Clean([calls[s] EXCEPT !.step = "probing", !.wrote = wrote, !.at = at])
    BY <2>1 DEF Clean, CallRecs
  <2>3. QED
    BY <1>3, <1>5, <2>2 DEF Q!ClaimApply
<1>6. CASE Q!ClaimRemove(s)
  <2>1. Clean([Q!Raised(s) EXCEPT !.marked = TRUE])
    BY DEF Clean, Q!Raised, Q!Over, Q!Idle
  <2>2. QED
    BY <1>1, <1>3, <1>6, <2>1 DEF Q!ClaimRemove
<1>7. CASE Q!Probe(s) \/ Q!Verify(s) \/ Q!FailApply(s) \/ Q!Unlabel(s) \/ Q!CheckRelease(s) \/ Q!FailRemove(s)
  BY <1>1, <1>3, <1>7 DEF Q!Probe, Q!Verify, Q!FailApply, Q!Unlabel, Q!CheckRelease,
     Q!FailRemove
<1>8. CASE Q!Label(s) \/ Q!DeletePolicy(s) \/ Q!CreatePolicy(s)
  <2>1. calls[s] \in CallRecs
    BY DEF CallsInv
  <2>2. /\ Clean([calls[s] EXCEPT !.step = "creating", !.touched = TRUE])
        /\ Clean([calls[s] EXCEPT !.step = "unlabelling", !.touched = TRUE])
        /\ Clean([calls[s] EXCEPT !.step = "verifying", !.at = "VERIFYING", !.wrote = TRUE])
    BY <2>1 DEF Clean, CallRecs
  <2>3. CASE Q!Label(s)
    BY <1>1, <1>3, <2>2, <2>3 DEF Q!Label
  <2>4. CASE Q!DeletePolicy(s)
    BY <1>1, <2>2, <2>4 DEF Q!DeletePolicy
  <2>5. CASE Q!CreatePolicy(s)
    BY <1>1, <1>3, <2>2, <2>5 DEF Q!CreatePolicy
  <2>6. QED
    BY <1>8, <2>3, <2>4, <2>5
<1>9. CASE Q!Refresh(s)
  <2>1. /\ Clean([Q!Idle EXCEPT !.step = "finishing", !.goal = Q!Conclude(status, incident)])
        /\ Clean(Q!Cleanup("FAILED"))
    BY ConclusionsAreClean
  <2>2. QED
    BY <1>9, <2>1 DEF Q!Refresh
<1>10. QED
  BY <1>2, <1>3, <1>4, <1>5, <1>6, <1>7, <1>8, <1>9 DEF Q!Move, Q!Crash,
     Q!DeadlockDetected

\* An experiment about to be called SUCCEEDED was clean when that was decided.
LEMMA SucceededWasClean ==
  ASSUME CallsInv, [Q!Next]_(Q!vars), NEW s \in Q!Sessions,
         calls'[s].step = "finishing", calls'[s].goal = "SUCCEEDED",
         calls[s].step # "finishing"
  PROVE  status = "REMOVED" /\ incident = "RESOLVED"
<1>1. PICK t \in Q!Sessions : Q!BeginApply(t) \/ Q!BeginRemove(t) \/ Q!StartPoll(t) \/ Q!StartStop(t)
        \/ Q!Move(t) \/ Q!Crash(t)
  <2>1. calls' # calls
    OBVIOUS
  <2>2. QED
    BY <2>1 DEF Q!Next, Q!vars, Q!StartScenario, Q!SendMonitor, Q!NoteMonitor, Q!Detect,
       Q!Block, Q!PodGone, Q!Expire
<1>2. PICK r : Q!Set(t, r) /\ Clean(r)
  BY <1>1, TurnsAreClean
<1>3. calls \in [Q!Sessions -> CallRecs] /\ calls' = [calls EXCEPT ![t] = r]
  BY <1>2 DEF CallsInv, Q!Set
<1>4. t = s /\ calls'[s] = r
  BY <1>3
<1>5. QED
  BY <1>2, <1>4 DEF Clean

\* Neither a failed containment nor an experiment ends as something better
\* than it was: the handler of apply_quarantine leaves an incident that has
\* ended, and reconcile_execution says SUCCEEDED of a removed containment and
\* a resolved incident only.
THEOREM QuarantineOutcomesAreHonest == Q!Spec => OutcomesAreHonest
<1>1. ContainmentInv /\ [Q!Next]_(Q!vars) =>
        [(status' = "VERIFICATION_FAILED" /\ attempts' > attempts
            /\ \E s \in Q!Sessions : calls[s].step = "failing" /\ calls'[s].step # "failing")
          => incident' \in Q!TerminalState]_(Q!vars)
  BY FailedIsEscalated
<1>2. ContainmentInv /\ [Q!Next]_(Q!vars) =>
        [\A s \in Q!Sessions :
           (calls'[s].step = "finishing" /\ calls'[s].goal = "SUCCEEDED" /\ calls[s].step # "finishing")
           => status = "REMOVED" /\ incident = "RESOLVED"]_(Q!vars)
  BY SucceededWasClean DEF ContainmentInv
<1>3. QED
  BY <1>1, <1>2, ContainmentInit, ContainmentStep, PTL
     DEF Q!Spec, OutcomesAreHonest, Q!FailedContainmentEscalates, Q!SucceededIsClean

=============================================================================
