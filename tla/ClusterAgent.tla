----------------------------- MODULE ClusterAgent -----------------------------
(***************************************************************************)
(* The cluster agent and its intake: the cycle of                          *)
(* backend/app/cluster_agent/runtime.py (collect, publish in up to three   *)
(* attempts, record the delivery), and ingest_report of                    *)
(* cluster_agent/service.py, which keeps the latest observation of a       *)
(* cluster and attaches evidence to its open incidents.                    *)
(*                                                                         *)
(* One cluster, one workload.  Several agents run during a rolling update. *)
(* Time is counted in ticks.  Report ids are random and never repeat, so   *)
(* that AGENT_REPORT_CONFLICT has no case here; the agent is configured    *)
(* with the registered workload, so that AGENT_TARGET_DENIED has none.     *)
(***************************************************************************)
EXTENDS Integers, Sequences

CONSTANTS
  Agents,        \* agent pods
  Sessions,      \* intake requests in the API
  Incidents,     \* incidents of the workload
  MaxTime,       \* bound on the clock
  MaxReports,    \* bound on reports
  MaxFaults,     \* bound on timeouts, crashes and failed collections
  MaxAttempts,   \* attempts of publish (three)
  Gap,           \* ticks between accepted reports (ten seconds)
  EvidenceGap,   \* ticks between evidence for one incident (a minute)
  MaxAge,        \* cluster_agent_freshness_seconds
  MaxAhead,      \* how far an agent's clock may be ahead (30 seconds)
  Skews          \* how far agents' clocks are ahead

ASSUME BoundsAssumption ==
  {MaxTime, MaxReports, MaxFaults, MaxAttempts, Gap, EvidenceGap, MaxAge, MaxAhead} \subseteq Nat
ASSUME AttemptsAssumption == MaxAttempts > 0
ASSUME SkewsAssumption == Skews \subseteq Nat

VARIABLES
  now,        \* the API's clock
  reports,    \* reports made: reports[id] = [at, status]
  agent,      \* agent[g]: [step, id, attempt, delivered]
  wire,       \* requests under way: [from, id, attempt]
  ses,        \* ses[s]: the request and the clock it was checked with
  state,      \* ClusterAgentState: [id, at, received, status], id 0: none
  incident,   \* incident[i]: "open" or "RESOLVED"
  evidence,   \* evidence[i]: when the agent's latest evidence was made (-1: none)
  audited,    \* report of the last CLUSTER_AGENT_STATUS_CHANGED (0: none)
  applied,    \* history: how often each report was applied
  faults      \* faults so far

vars == <<now, reports, agent, wire, ses, state, incident, evidence, audited, applied, faults>>

\* A cluster no agent has reported of.
NoState == [id |-> 0, at |-> 0, received |-> 0, status |-> "none"]
NoRequest == [from |-> "none", id |-> 0, attempt |-> 0]
IdleSes == [step |-> "idle", req |-> NoRequest, current |-> 0]
Waiting == [step |-> "idle", id |-> 0, attempt |-> 0, delivered |-> 0]

Init ==
  /\ now = 0
  /\ reports = <<>>
  /\ agent = [g \in Agents |-> Waiting]
  /\ wire = {}
  /\ ses = [s \in Sessions |-> IdleSes]
  /\ state = NoState
  /\ incident = [i \in Incidents |-> "open"]
  /\ evidence = [i \in Incidents |-> -1]
  /\ audited = 0
  /\ applied = [n \in 1..MaxReports |-> 0]
  /\ faults = 0

Fault == faults < MaxFaults /\ faults' = faults + 1

-----------------------------------------------------------------------------
(* Slips a maintainer could make; the run shows that the properties below  *)
(* notice each of them.                                                    *)

\* Only the latest report id is compared.
OutOfOrderNever(r) == FALSE

\* The clock is not compared with the report before.
TooSoonNever(current) == FALSE

\* The status before is what was stored, however old.
PreviousStored(current) == state.status

\* An answer worth another attempt is overlooked.
RejectedNot(g) == UNCHANGED agent

-----------------------------------------------------------------------------
(* The agent.                                                              *)

Tick ==
  /\ now < MaxTime
  /\ now' = now + 1
  /\ UNCHANGED <<reports, agent, wire, ses, state, incident, evidence, audited, applied, faults>>

\* What of an AgentReport decides: when it was observed, and how complete.
Report(at, status) == [at |-> at, status |-> status]

\* collect: the observation is dated by the agent's clock; a provider that
\* fails makes it DEGRADED.
Collect(g) ==
  /\ agent[g].step = "idle"
  /\ Len(reports) < MaxReports
  /\ \E k \in Skews, status \in {"CONNECTED", "DEGRADED"} :
       reports' = Append(reports, Report(now + k, status))
  /\ agent' = [agent EXCEPT ![g].step = "posting", ![g].id = Len(reports) + 1, ![g].attempt = 1]
  /\ UNCHANGED <<now, wire, ses, state, incident, evidence, audited, applied, faults>>

Post(g) ==
  /\ agent[g].step = "posting"
  /\ wire' = wire \cup {[from |-> g, id |-> agent[g].id, attempt |-> agent[g].attempt]}
  /\ agent' = [agent EXCEPT ![g].step = "waiting"]
  /\ UNCHANGED <<now, reports, ses, state, incident, evidence, audited, applied, faults>>

\* An attempt failed in a way worth another one.
Rejected(g) ==
  agent' = [agent EXCEPT ![g].step = IF agent[g].attempt < MaxAttempts THEN "posting" ELSE "idle",
                         ![g].attempt = IF agent[g].attempt < MaxAttempts THEN @ + 1 ELSE @]

\* The agent reads the answer to the attempt it waits for: 202 with its own
\* report id is a delivery, 429 and errors of the server are tried again.
Answer(g, code) ==
  CASE code = 202 -> agent' = [agent EXCEPT ![g].step = "idle", ![g].delivered = agent[g].id]
    [] code \in {429, 500} -> Rejected(g)
    [] OTHER -> agent' = [agent EXCEPT ![g].step = "idle"]

Reply(r, code) ==
  LET g == r.from IN
  IF agent[g].step = "waiting" /\ agent[g].id = r.id /\ agent[g].attempt = r.attempt
  THEN Answer(g, code) ELSE UNCHANGED agent

\* Ten seconds without an answer.
Timeout(g) ==
  /\ agent[g].step = "waiting"
  /\ Fault
  /\ Rejected(g)
  /\ UNCHANGED <<now, reports, wire, ses, state, incident, evidence, audited, applied>>

\* The 90 seconds of a cycle are over.
EndCycle(g) ==
  /\ agent[g].step # "idle"
  /\ Fault
  /\ agent' = [agent EXCEPT ![g].step = "idle"]
  /\ UNCHANGED <<now, reports, wire, ses, state, incident, evidence, audited, applied>>

-----------------------------------------------------------------------------
(* The intake.                                                             *)

\* Authentication and the age of the report, by the clock of this moment.
Check(s) ==
  /\ ses[s].step = "idle"
  /\ \E r \in wire :
       LET age == now - reports[r.id].at IN
       /\ wire' = wire \ {r}
       /\ IF age \in (-MaxAhead)..MaxAge
          THEN /\ ses' = [ses EXCEPT ![s] = [step |-> "locking", req |-> r, current |-> now]]
               /\ UNCHANGED agent
          ELSE Reply(r, 422) /\ UNCHANGED ses
  /\ UNCHANGED <<now, reports, state, incident, evidence, audited, applied, faults>>

OutOfOrder(r) == reports[r.id].at <= state.at

TooSoon(current) == current - state.received < Gap

\* connection_status of the observation before this one.
Previous(current) ==
  IF state.id = 0 THEN "none"
  ELSE IF current - state.at \in (-MaxAhead)..MaxAge THEN state.status ELSE "STALE"

\* Open incidents whose evidence is a minute old.  (A BLOCKED or ESCALATED
\* incident is open here.)
Due(i, current) ==
  /\ incident[i] # "RESOLVED"
  /\ evidence[i] = -1 \/ current - evidence[i] >= EvidenceGap

\* add_incident_evidence for every incident that is due.
AddIncidentEvidence(current) ==
  evidence' = [i \in Incidents |-> IF Due(i, current) THEN current ELSE evidence[i]]

\* ingest_report behind the lock on the cluster's row, to its commit: a report
\* that is the latest already is acknowledged again; an older one and one too
\* soon are refused; any other becomes the state of the cluster and evidence
\* of its incidents.
Ingest(s) ==
  /\ ses[s].step = "locking"
  /\ LET r == ses[s].req
         c == ses[s].current
         m == reports[r.id] IN
     \/ /\ state.id = r.id
        /\ Reply(r, 202)
        /\ UNCHANGED <<state, evidence, audited, applied>>
     \/ /\ state.id \notin {0, r.id} /\ OutOfOrder(r)
        /\ Reply(r, 409)
        /\ UNCHANGED <<state, evidence, audited, applied>>
     \/ /\ state.id \notin {0, r.id} /\ ~ OutOfOrder(r) /\ TooSoon(c)
        /\ Reply(r, 429)
        /\ UNCHANGED <<state, evidence, audited, applied>>
     \/ /\ state.id # r.id
        /\ state.id # 0 => ~ OutOfOrder(r) /\ ~ TooSoon(c)
        /\ state' = [id |-> r.id, at |-> m.at, received |-> c, status |-> m.status]
        /\ AddIncidentEvidence(c)
        /\ audited' = IF Previous(c) # m.status THEN r.id ELSE audited
        /\ applied' = [applied EXCEPT ![r.id] = @ + 1]
        /\ Reply(r, 202)
  /\ ses' = [ses EXCEPT ![s] = IdleSes]
  /\ UNCHANGED <<now, reports, wire, incident, faults>>

\* The API dies with the request, or the database fails.
IngestFails(s) ==
  /\ ses[s].step = "locking"
  /\ Fault
  /\ Reply(ses[s].req, 500)
  /\ ses' = [ses EXCEPT ![s] = IdleSes]
  /\ UNCHANGED <<now, reports, wire, state, incident, evidence, audited, applied>>

\* An incident is resolved by one of the other components.
Resolve(i) ==
  /\ incident[i] = "open"
  /\ incident' = [incident EXCEPT ![i] = "RESOLVED"]
  /\ UNCHANGED <<now, reports, agent, wire, ses, state, evidence, audited, applied, faults>>

-----------------------------------------------------------------------------
Next ==
  \/ Tick
  \/ \E g \in Agents : Collect(g) \/ Post(g) \/ Timeout(g) \/ EndCycle(g)
  \/ \E s \in Sessions : Check(s) \/ Ingest(s) \/ IngestFails(s)
  \/ \E i \in Incidents : Resolve(i)

Spec == Init /\ [][Next]_vars

\* The agent's loop goes on and the API answers.
FairSpec ==
  /\ Spec
  /\ \A g \in Agents : WF_vars(Post(g))
  /\ \A s \in Sessions : WF_vars(Check(s)) /\ WF_vars(Ingest(s))

-----------------------------------------------------------------------------
(* Properties.                                                             *)

\* Types and the limit on attempts.
TypeOK ==
  /\ now \in 0..MaxTime
  /\ \A g \in Agents : agent[g].attempt \in 0..MaxAttempts /\ agent[g].id \in 0..Len(reports)
  /\ \A r \in wire : r.id \in 1..Len(reports)
  /\ state.id \in 0..Len(reports)
  /\ audited \in 0..Len(reports)
  /\ evidence \in [Incidents -> -1..MaxTime]

\* A report is applied once, however often and however late its attempts
\* arrive: the latest one is recognised by its id, every other by its date.
AppliedOnce == \A n \in 1..MaxReports : applied[n] <= 1

\* What an agent calls delivered was applied (its readiness depends on it).
DeliveredWasApplied ==
  \A g \in Agents : agent[g].delivered # 0 => applied[agent[g].delivered] > 0

\* The observation of a cluster never goes back in time, although the clock a
\* request was checked with may be old when it gets the lock, and accepted
\* reports keep their distance.
ObservationsAdvance ==
  [][(state' # state /\ state.id # 0) =>
       /\ state'.at > state.at
       /\ state'.received - state.received >= Gap]_vars

\* An incident gets evidence at most once a minute.
EvidenceIsSpaced ==
  [][\A i \in Incidents : (evidence'[i] # evidence[i] /\ evidence[i] # -1) =>
       evidence'[i] - evidence[i] >= EvidenceGap]_vars

\* The audit log names every change of the connection an observer could see:
\* a report that follows a stale one is audited even if it says the same.
ReconnectIsAudited ==
  [][(state' # state /\ state.id # 0 /\ state'.received - state.at > MaxAge) =>
       audited' = state'.id]_vars

\* A cycle of the agent ends.
CyclesEnd == \A g \in Agents : agent[g].step # "idle" ~> agent[g].step = "idle"

\* A report is applied once, and nothing that was not applied counts as
\* delivered (ingest_report, publish).
ReportsAreApplied == TypeOK /\ AppliedOnce /\ DeliveredWasApplied

\* Observations and evidence move forward, and no faster than allowed
\* (ingest_report, add_incident_evidence).
IntakeAdvances == ObservationsAdvance /\ EvidenceIsSpaced
=============================================================================
