---------------------------- MODULE AlertIngestion ----------------------------
(***************************************************************************)
(* Alertmanager's webhook: backend/app/api/webhooks.py and ingest_alerts   *)
(* with _ingest_one of backend/app/alerts/service.py.                      *)
(*                                                                         *)
(* A delivery carries a batch of alerts.  Its session handles them one by  *)
(* one in one transaction: it locks the alert's row, compares digests and  *)
(* opens an incident when the alert fires and has none that is active.     *)
(* After the commit a task is sent for every alert with an incident.  A    *)
(* delivery that fails is repeated by Alertmanager, and so is any other.   *)
(*                                                                         *)
(* A payload stands for what its digest covers: `start` is startsAt with   *)
(* labels and annotations, `status` firing or resolved.                    *)
(***************************************************************************)
EXTENDS Naturals, Sequences, FiniteSets

CONSTANTS
  Hooks,         \* deliveries
  Fingerprints,  \* values of (source, fingerprint)
  Batches,       \* the batches deliveries may carry: sequences of payloads
  MaxIncidents   \* bound on the number of incidents

Payload == [fp: Fingerprints, start: Nat \ {0}, status: {"firing", "resolved"}]

ASSUME BatchesAssumption == \A b \in Batches : b \in Seq(Payload) /\ b # <<>>
ASSUME MaxIncidentsAssumption == MaxIncidents \in Nat \ {0}

VARIABLES
  batch,     \* batch[h]: what h carries
  alert,     \* alert[f]: committed AlertRecord (start 0: no row)
  incident,  \* incident[i]: committed state of incident i
  subject,   \* subject[i]: the payload incident i was opened for
  lock,      \* lock[f]: the delivery that holds f's row (0: nobody)
  hook,      \* hook[h]: the delivery's session
  tasks      \* incidents a task was sent for

vars == <<batch, alert, incident, subject, lock, hook, tasks>>

Incidents == 1..MaxIncidents
None == 0

ASSUME HooksAssumption == None \notin Hooks

NoAlert == [start |-> 0, status |-> "resolved", incident |-> None]
\* A session before its first statement; `writes` are the rows it has changed,
\* `open` the incidents it holds as active objects, `links` its results.
NewHook ==
  [step |-> "new", pos |-> 1, writes |-> [f \in Fingerprints |-> NoAlert],
   open |-> {}, made |-> {}, links |-> <<>>]

Init ==
  /\ batch \in [Hooks -> Batches]
  /\ alert = [f \in Fingerprints |-> NoAlert]
  /\ incident = [i \in Incidents |-> "none"]
  /\ subject = [i \in Incidents |-> None]
  /\ lock = [f \in Fingerprints |-> None]
  /\ hook = [h \in Hooks |-> NewHook]
  /\ tasks = {}

Item(h) == batch[h][hook[h].pos]
\* The row as h's session sees it: its own write or the committed row.
View(h, f) == IF hook[h].writes[f].start # 0 THEN hook[h].writes[f] ELSE alert[f]
Unused(i) == incident[i] = "none" /\ \A h \in Hooks : i \notin hook[h].made
\* A slip a maintainer could make: the row is read without FOR UPDATE.
FreeForAll(h, f) == TRUE
\* A row lock h may take: free or its own.
Lockable(h, f) == lock[f] \in {None, h}

Unlock(h) == [f \in Fingerprints |-> IF lock[f] = h THEN None ELSE lock[f]]

\* The session has finished an item with result `link`.
NextItem(s, link) ==
  [s EXCEPT !.links = Append(@, link), !.pos = @ + 1, !.step = "ingesting"]

\* The row is written with the payload and the incident it is linked to.
Write(s, p, link) ==
  [s EXCEPT !.writes[p.fp] = [start |-> p.start, status |-> p.status, incident |-> link]]

\* create_incident for payload p, as object of the session.
Create(s, i) == [s EXCEPT !.made = @ \cup {i}, !.open = @ \cup {i}]

Ingesting(h) ==
  hook[h].step \in {"new", "ingesting"} /\ hook[h].pos <= Len(batch[h])

-----------------------------------------------------------------------------
(* Slips a maintainer could make; the runs show that the properties below  *)
(* notice each of them.                                                    *)

\* Only alerts that opened an incident are sent on.
DispatchFresh(h) ==
  LET k == hook[h].pos IN
  /\ hook[h].step = "dispatching"
  /\ k <= Len(batch[h])
  /\ tasks' = IF hook[h].links[k] \in hook[h].made
              THEN tasks \cup {hook[h].links[k]} ELSE tasks
  /\ hook' = [hook EXCEPT ![h].pos = @ + 1]
  /\ UNCHANGED <<batch, alert, incident, subject, lock>>

\* The tasks are sent first and the transaction is committed afterwards.
SendThenCommit(h) ==
  /\ hook[h].step = "ingesting"
  /\ hook[h].pos > Len(batch[h])
  /\ tasks' = tasks \cup ({hook[h].links[k] : k \in DOMAIN batch[h]} \ {None})
  /\ UNCHANGED <<batch, alert, incident, subject, lock, hook>>

-----------------------------------------------------------------------------
(* Ingesting.                                                              *)

\* SELECT ... FOR UPDATE returns the row with the payload's digest: only the
\* repeat counter changes, and the result names the row's incident.
IngestDuplicate(h) ==
  LET p == Item(h)
      row == View(h, p.fp)
  IN
  /\ Ingesting(h)
  /\ Lockable(h, p.fp)
  /\ row.start = p.start /\ row.status = p.status
  /\ lock' = [lock EXCEPT ![p.fp] = h]
  /\ hook' = [hook EXCEPT ![h] = NextItem(@, row.incident)]
  /\ UNCHANGED <<batch, alert, incident, subject, tasks>>

\* The row has another digest.  Its incident is read without a lock, or is an
\* object the session already holds; a firing alert without an active one
\* opens an incident.
IngestChanged(h) ==
  LET p == Item(h)
      row == View(h, p.fp)
      active == row.incident \in hook[h].open \/
                (row.incident # None /\ row.incident \notin hook[h].made
                   /\ incident[row.incident] = "active")
  IN
  /\ Ingesting(h)
  /\ Lockable(h, p.fp)
  /\ row.start # 0 /\ ~(row.start = p.start /\ row.status = p.status)
  /\ lock' = [lock EXCEPT ![p.fp] = h]
  /\ \/ /\ p.status = "firing" /\ ~active
        /\ \E i \in Incidents :
             /\ Unused(i) /\ \A j \in 1..(i - 1) : ~Unused(j)
             /\ hook' = [hook EXCEPT ![h] = NextItem(Write(Create(@, i), p, i), i)]
     \/ /\ ~(p.status = "firing" /\ ~active)
        /\ hook' = [hook EXCEPT ![h] =
                      [NextItem(Write(hook[h], p, row.incident), row.incident)
                         EXCEPT !.open = IF active THEN @ \cup {row.incident} ELSE @]]
  /\ UNCHANGED <<batch, alert, incident, subject, tasks>>

\* No row is visible, so none is locked.  The incident is created before the
\* row is inserted.
IngestFirst(h) ==
  LET p == Item(h) IN
  /\ Ingesting(h)
  /\ View(h, p.fp).start = 0
  /\ \/ /\ p.status = "firing"
        /\ \E i \in Incidents :
             /\ Unused(i) /\ \A j \in 1..(i - 1) : ~Unused(j)
             /\ hook' = [hook EXCEPT ![h] = [Write(Create(@, i), p, i)
                                               EXCEPT !.step = "inserting"]]
     \/ /\ p.status = "resolved"
        /\ hook' = [hook EXCEPT ![h] = [Write(@, p, None) EXCEPT !.step = "inserting"]]
  /\ UNCHANGED <<batch, alert, incident, subject, lock, tasks>>

\* The transaction is rolled back and the delivery answered with an error.
Fail(h) ==
  /\ hook' = [hook EXCEPT ![h] = [NewHook EXCEPT !.step = "failed"]]
  /\ lock' = Unlock(h)
  /\ UNCHANGED <<batch, alert, incident, subject, tasks>>

\* The INSERT waits for another delivery's uncommitted row.  One that was
\* committed meanwhile violates uq (source, fingerprint) and ends the batch.
Insert(h) ==
  LET p == Item(h) IN
  /\ hook[h].step = "inserting"
  /\ Lockable(h, p.fp)
  /\ IF alert[p.fp].start # 0
     THEN Fail(h)
     ELSE /\ lock' = [lock EXCEPT ![p.fp] = h]
          /\ hook' = [hook EXCEPT ![h] = NextItem(@, @.writes[p.fp].incident)]
          /\ UNCHANGED <<batch, alert, incident, subject, tasks>>

\* The lock a delivery waits for, if any, and its holder.
Waiting(h) ==
  /\ Ingesting(h) \/ hook[h].step = "inserting"
  /\ hook[h].step = "inserting" \/ View(h, Item(h).fp).start # 0
  /\ ~Lockable(h, Item(h).fp)
Holder(h) == lock[Item(h).fp]

\* PostgreSQL ends one of the deliveries that wait for each other in a circle.
BreakDeadlock(h) ==
  /\ \E S \in SUBSET Hooks :
       /\ h \in S
       /\ \A g \in S : Waiting(g) /\ Holder(g) \in S
       /\ \A g, k \in S : Holder(g) = Holder(k) => g = k
  /\ Fail(h)

\* The item for which h has created incident i.
Opener(h, i) ==
  CHOOSE k \in DOMAIN batch[h] :
    hook[h].links[k] = i /\ \A j \in 1..(k - 1) : hook[h].links[j] # i

Commit(h) ==
  LET s == hook[h] IN
  /\ s.step = "ingesting"
  /\ s.pos > Len(batch[h])
  /\ alert' = [f \in Fingerprints |-> IF s.writes[f].start # 0 THEN s.writes[f] ELSE alert[f]]
  /\ incident' = [i \in Incidents |-> IF i \in s.made THEN "active" ELSE incident[i]]
  /\ subject' = [i \in Incidents |-> IF i \in s.made THEN batch[h][Opener(h, i)]
                                      ELSE subject[i]]
  /\ lock' = Unlock(h)
  /\ hook' = [hook EXCEPT ![h].step = "dispatching", ![h].pos = 1]
  /\ UNCHANGED <<batch, tasks>>

-----------------------------------------------------------------------------
(* Dispatching.                                                            *)

\* send_task for an item with an incident; the others are skipped.
Dispatch(h) ==
  LET k == hook[h].pos IN
  /\ hook[h].step = "dispatching"
  /\ k <= Len(batch[h])
  /\ tasks' = IF hook[h].links[k] # None THEN tasks \cup {hook[h].links[k]} ELSE tasks
  /\ hook' = [hook EXCEPT ![h].pos = @ + 1]
  /\ UNCHANGED <<batch, alert, incident, subject, lock>>

\* 202: the objects of the session are gone.
Accept(h) ==
  /\ hook[h].step = "dispatching"
  /\ hook[h].pos > Len(batch[h])
  /\ hook' = [hook EXCEPT ![h] = [NewHook EXCEPT !.step = "done"]]
  /\ UNCHANGED <<batch, alert, incident, subject, lock, tasks>>

\* The broker refuses a task, or the process is lost: before the commit all is
\* rolled back, after it only the remaining tasks are missing.
Break(h) ==
  /\ hook[h].step \in {"ingesting", "inserting", "dispatching"}
  /\ Fail(h)

-----------------------------------------------------------------------------
(* Alertmanager and the rest of CloudWard.                                 *)

\* A failed delivery is repeated; Alertmanager also repeats accepted ones.
Redeliver(h) ==
  /\ hook[h].step \in {"failed", "done"}
  /\ hook' = [hook EXCEPT ![h] = [NewHook EXCEPT !.step = "ingesting"]]
  /\ UNCHANGED <<batch, alert, incident, subject, lock, tasks>>

\* A workflow or an operator ends the incident.
CloseIncident(i) ==
  /\ incident[i] = "active"
  /\ incident' = [incident EXCEPT ![i] = "terminal"]
  /\ UNCHANGED <<batch, alert, subject, lock, hook, tasks>>

-----------------------------------------------------------------------------
Ingest(h) == IngestDuplicate(h) \/ IngestChanged(h) \/ IngestFirst(h)
Handle(h) ==
  \/ Ingest(h) \/ Insert(h) \/ BreakDeadlock(h) \/ Commit(h)
  \/ Dispatch(h) \/ Accept(h)

Next ==
  \/ \E h \in Hooks : Handle(h) \/ Break(h) \/ Redeliver(h)
  \/ \E i \in Incidents : CloseIncident(i)

Spec == Init /\ [][Next]_vars

At(h, k) == hook[h].step # "new" /\ hook[h].pos = k
Positions == UNION {DOMAIN b : b \in Batches}

\* A started delivery goes on and a failed one is repeated; failures of the
\* broker, the database and the process do not hit every try at one step.
FairSpec ==
  /\ Spec
  /\ \A h \in Hooks :
       /\ WF_vars(hook[h].step # "new" /\ Handle(h))
       /\ \A k \in Positions :
            /\ SF_vars(At(h, k) /\ Ingest(h))
            /\ SF_vars(At(h, k) /\ Insert(h))
            /\ SF_vars(At(h, k) /\ Dispatch(h))
       /\ SF_vars(Commit(h))
       /\ WF_vars(hook[h].step = "failed" /\ Redeliver(h))

-----------------------------------------------------------------------------
(* Properties.                                                             *)

\* Every variable has its type.
TypeOK ==
  /\ batch \in [Hooks -> Batches]
  /\ \A f \in Fingerprints :
       /\ alert[f].start \in Nat /\ alert[f].status \in {"firing", "resolved"}
       /\ alert[f].incident \in Incidents \cup {None}
  /\ incident \in [Incidents -> {"none", "active", "terminal"}]
  /\ lock \in [Fingerprints -> Hooks \cup {None}]
  /\ \A h \in Hooks :
       /\ hook[h].step \in {"new", "ingesting", "inserting", "dispatching", "done", "failed"}
       /\ hook[h].pos \in 1..(Len(batch[h]) + 1)
  /\ tasks \subseteq Incidents

\* docs/reliability/backend.md: CloudWard "reuses the active incident".  An
\* active incident is the one its alert's row names: deliveries that overlap,
\* fail or repeat leave no second or forgotten incident behind.
ActiveIsLinked ==
  \A i \in Incidents :
    incident[i] = "active" => alert[subject[i].fp].incident = i

\* A task names a committed incident: the worker takes the 404 for a missing
\* one as final.
TasksFindIncident == \A i \in tasks : incident[i] # "none"

\* A delivery that fails between commit and dispatch loses nothing: every
\* active incident gets its task or is ended by somebody else.
IncidentsAreProcessed ==
  \A i \in Incidents :
    incident[i] = "active" ~> (i \in tasks \/ incident[i] = "terminal")

\* The intake is sound: typed rows, and no task without its committed incident
\* (webhooks.py commits before it sends).
IntakeIsSound == TypeOK /\ TasksFindIncident
=============================================================================
