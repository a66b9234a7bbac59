-------------------------- MODULE ClusterAgentProofs --------------------------
(***************************************************************************)
(* Proofs about ClusterAgent: a report is applied once and what an agent   *)
(* calls delivered was applied; observations and evidence advance at their *)
(* pace; a reconnection is audited.                                        *)
(*                                                                         *)
(* The intake keeps nothing of the reports before the latest one.  That it *)
(* recognises them all the same is StateInv: no report applied so far is   *)
(* dated after the state of the cluster.                                   *)
(***************************************************************************)
EXTENDS ClusterAgent, TLAPS

Statuses == {"CONNECTED", "DEGRADED"}
ReportRecs == [at : Nat, status : Statuses]
AgentRecs == [step : {"idle", "posting", "waiting"}, id : 0..MaxReports,
              attempt : 0..MaxAttempts, delivered : 0..MaxReports]
RequestRecs == [from : Agents, id : 1..MaxReports, attempt : 0..MaxAttempts]
Clock == 0..MaxTime

Types ==
  /\ now \in Clock
  /\ reports \in Seq(ReportRecs)
  /\ Len(reports) <= MaxReports
  /\ agent \in [Agents -> AgentRecs]
  /\ applied \in [1..MaxReports -> Nat]
  /\ evidence \in [Incidents -> -1..MaxTime]
  /\ audited \in 0..Len(reports)

\* An agent, a request and a session know of reports that were made.
AgentInv ==
  \A g \in Agents :
    agent[g].id \in 0..Len(reports) /\ (agent[g].step # "idle" => agent[g].id # 0)
Known(r) == r \in RequestRecs /\ r.id \in 1..Len(reports)
WireInv == \A r \in wire : Known(r)
SessionInv ==
  /\ ses \in [Sessions -> [step : {"idle", "locking"}, req : RequestRecs \cup {NoRequest},
                           current : Clock]]
  /\ \A s \in Sessions : ses[s].step = "locking" => Known(ses[s].req)

\* The state is the latest of the reports that were applied.
StateInv ==
  /\ state \in [id : 0..MaxReports, at : Nat, received : Clock, status : Statuses \cup {"none"}]
  /\ state.id \in 0..Len(reports)
  /\ state.id = 0 => \A n \in 1..MaxReports : applied[n] = 0
  /\ state.id # 0 => applied[state.id] > 0
  /\ \A n \in 1..MaxReports :
       applied[n] > 0 => n \in 1..Len(reports) /\ reports[n].at <= state.at

IndInv ==
  /\ Types /\ AgentInv /\ WireInv /\ SessionInv /\ StateInv
  /\ AppliedOnce /\ DeliveredWasApplied

-----------------------------------------------------------------------------
\* The bounds are numbers.
LEMMA Bounds ==
  /\ MaxTime \in Nat /\ MaxReports \in Nat /\ MaxAttempts \in Nat /\ MaxAttempts > 0
  /\ Gap \in Nat /\ EvidenceGap \in Nat /\ MaxAge \in Nat /\ MaxAhead \in Nat /\ MaxFaults \in Nat
  BY BoundsAssumption, AttemptsAssumption

\* Nothing is reported at first.
LEMMA InitIndInv == Init => IndInv
<1> SUFFICES ASSUME Init PROVE IndInv
  OBVIOUS
<1>0. 0 \in Clock /\ 0 \in 0..MaxReports /\ 0 \in 0..MaxAttempts /\ -1 \in -1..MaxTime
  BY Bounds DEF Clock
<1>1. Waiting \in AgentRecs /\ Waiting.id = 0 /\ Waiting.delivered = 0 /\ Waiting.step = "idle"
  BY <1>0 DEF Waiting, AgentRecs
<1>2. Types
  BY <1>0, <1>1, Bounds DEF Init, Types
<1>3. AgentInv /\ WireInv /\ DeliveredWasApplied /\ AppliedOnce
  BY <1>1 DEF Init, AgentInv, WireInv, DeliveredWasApplied, AppliedOnce
<1>4. IdleSes \in [step : {"idle", "locking"}, req : RequestRecs \cup {NoRequest}, current : Clock]
  BY <1>0 DEF IdleSes
<1>5. IdleSes.step = "idle"
  BY DEF IdleSes
<1>6. SessionInv
  BY <1>4, <1>5 DEF Init, SessionInv
<1>7. NoState.id = 0
  BY DEF NoState
<1>8. NoState \in [id : 0..MaxReports, at : Nat, received : Clock,
                   status : Statuses \cup {"none"}]
  BY <1>0 DEF NoState
<1>9. StateInv
  BY <1>7, <1>8 DEF Init, StateInv
<1>10. QED
  BY <1>2, <1>3, <1>6, <1>9 DEF IndInv

-----------------------------------------------------------------------------
(* The agent's part of a step.                                             *)

\* What an answer, or none, may do to the agents: `d` is the report that may
\* have been delivered by it.
AgentsMove(d) ==
  /\ agent' \in [Agents -> AgentRecs]
  /\ \A g \in Agents :
       /\ agent'[g].id = agent[g].id
       /\ agent'[g].step # "idle" => agent[g].step # "idle"
       /\ agent'[g].delivered = agent[g].delivered \/ agent'[g].delivered = d

\* A rejected attempt is followed by one more or by none.
LEMMA RejectedMoves ==
  ASSUME Types, NEW g \in Agents, agent[g].step # "idle", Rejected(g)
  PROVE  AgentsMove(0)
<1> DEFINE a == agent[g]
           st == IF a.attempt < MaxAttempts THEN "posting" ELSE "idle"
           at == IF a.attempt < MaxAttempts THEN a.attempt + 1 ELSE a.attempt
           b == [a EXCEPT !.step = st, !.attempt = at]
<1>1. a \in AgentRecs /\ a.step # "idle"
  BY DEF Types
<1>2. at \in 0..MaxAttempts
  BY <1>1, Bounds DEF AgentRecs
<1>3. b \in AgentRecs /\ b.id = a.id /\ b.delivered = a.delivered
  BY <1>1, <1>2 DEF AgentRecs
<1>4. agent' = [agent EXCEPT ![g] = b]
  BY <1>1 DEF Rejected, Types, AgentRecs
<1> HIDE DEF b
<1>5. QED
  BY <1>3, <1>4 DEF Types, AgentsMove

\* An answer names what was delivered, if anything.
LEMMA ReplyMoves ==
  ASSUME Types, NEW r, Known(r), NEW code \in Nat, Reply(r, code)
  PROVE  AgentsMove(0) \/ (code = 202 /\ AgentsMove(r.id))
<1> DEFINE g == r.from
<1>1. g \in Agents /\ r.id \in 1..MaxReports
  BY DEF Known, RequestRecs
<1>2. agent[g] \in AgentRecs
  BY <1>1 DEF Types
<1>3. CASE UNCHANGED agent
  BY <1>3 DEF Types, AgentsMove
<1>4. CASE agent[g].id = r.id /\ code = 202
           /\ agent' = [agent EXCEPT ![g].step = "idle", ![g].delivered = agent[g].id]
  <2> DEFINE b == [agent[g] EXCEPT !.step = "idle", !.delivered = agent[g].id]
  <2>1. b \in AgentRecs /\ b.id = agent[g].id /\ b.delivered = r.id /\ b.step = "idle"
    BY <1>1, <1>2, <1>4, Bounds DEF AgentRecs
  <2>2. agent' = [agent EXCEPT ![g] = b]
    BY <1>4
  <2> HIDE DEF b
  <2>3. QED
    BY <1>1, <1>4, <2>1, <2>2 DEF Types, AgentsMove
<1>5. CASE agent[g].step = "waiting" /\ Rejected(g)
  BY <1>1, <1>5, RejectedMoves
<1>6. CASE agent' = [agent EXCEPT ![g].step = "idle"]
  <2> DEFINE b == [agent[g] EXCEPT !.step = "idle"]
  <2>1. b \in AgentRecs /\ b.id = agent[g].id /\ b.delivered = agent[g].delivered /\ b.step = "idle"
    BY <1>2 DEF AgentRecs
  <2>2. agent' = [agent EXCEPT ![g] = b]
    BY <1>6
  <2> HIDE DEF b
  <2>3. QED
    BY <1>1, <2>1, <2>2 DEF Types, AgentsMove
<1>7. QED
  BY <1>3, <1>4, <1>5, <1>6 DEF Reply, Answer

\* An agent's part of the invariant follows from its move.
LEMMA MoveKeeps ==
  ASSUME Types, AgentInv, DeliveredWasApplied, NEW d \in 0..MaxReports, AgentsMove(d),
         UNCHANGED reports, applied' \in [1..MaxReports -> Nat],
         \A n \in 1..MaxReports : applied'[n] >= applied[n],
         d # 0 => applied'[d] > 0
  PROVE  AgentInv' /\ DeliveredWasApplied'
<1>1. AgentInv'
  BY DEF AgentsMove, AgentInv
<1>2. ASSUME NEW g \in Agents, agent'[g].delivered # 0 PROVE applied'[agent'[g].delivered] > 0
  <2>1. CASE agent'[g].delivered = d
    BY <1>2, <2>1
  <2>2. CASE agent'[g].delivered = agent[g].delivered
    <3> DEFINE n == agent[g].delivered
    <3>1. n \in 1..MaxReports
      BY <1>2, <2>2, Bounds DEF Types, AgentRecs
    <3>2. applied[n] > 0 /\ applied[n] \in Nat /\ applied'[n] \in Nat /\ applied'[n] >= applied[n]
      BY <1>2, <2>2, <3>1 DEF DeliveredWasApplied, Types
    <3>3. QED
      BY <2>2, <3>2
  <2>3. QED
    BY <2>1, <2>2 DEF AgentsMove
<1>3. QED
  BY <1>1, <1>2 DEF DeliveredWasApplied

-----------------------------------------------------------------------------
(* The steps.                                                              *)

\* A step that applies no report and makes none keeps all of the invariant
\* but the part of the agents, the wire and the sessions.
LEMMA KeepsState ==
  ASSUME IndInv, UNCHANGED <<reports, state, evidence, audited, applied>>, now' \in Clock,
         AgentsMove(0), WireInv', SessionInv'
  PROVE  IndInv'
<1>1. Types'
  BY DEF IndInv, Types, AgentsMove
<1>2. AgentInv' /\ DeliveredWasApplied'
  <2>1. 0 \in 0..MaxReports
    BY Bounds
  <2>2. \A n \in 1..MaxReports : applied'[n] >= applied[n]
    BY DEF IndInv, Types
  <2>3. QED
    BY <2>1, <2>2, MoveKeeps DEF IndInv, Types
<1>3. StateInv' /\ AppliedOnce'
  BY DEF IndInv, StateInv, AppliedOnce
<1>4. QED
  BY <1>1, <1>2, <1>3 DEF IndInv

\* A new report is known to nobody but its agent.
LEMMA CollectStep ==
  ASSUME IndInv, NEW g \in Agents, Collect(g)
  PROVE  IndInv'
<1>1. PICK k \in Skews, st \in Statuses : reports' = Append(reports, Report(now + k, st))
  BY DEF Collect, Statuses
<1> DEFINE m == Report(now + k, st)
           id == Len(reports) + 1
<1>2. m \in ReportRecs
  BY SkewsAssumption DEF IndInv, Types, Clock, Report, ReportRecs
<1> HIDE DEF m
<1>3. /\ reports \in Seq(ReportRecs) /\ Len(reports) \in Nat
      /\ reports' \in Seq(ReportRecs) /\ Len(reports') = id
      /\ \A n \in 1..Len(reports) : reports'[n] = reports[n]
  BY <1>1, <1>2 DEF IndInv, Types, m
<1>4. id \in 1..MaxReports /\ Len(reports') <= MaxReports
  BY <1>3, Bounds DEF Collect
<1>5. 1..Len(reports) \subseteq 1..Len(reports') /\ 0..Len(reports) \subseteq 0..Len(reports')
  BY <1>3
<1>6. UNCHANGED <<now, wire, ses, state, incident, evidence, audited, applied, faults>>
  BY DEF Collect
<1> DEFINE b == [agent[g] EXCEPT !.step = "posting", !.id = id, !.attempt = 1]
<1>7. agent' = [agent EXCEPT ![g] = b]
  BY DEF Collect
<1>8. agent[g] \in AgentRecs /\ 1 \in 0..MaxAttempts /\ id \in 0..MaxReports /\ id # 0
  BY <1>4, Bounds DEF IndInv, Types
<1>n. id \in 0..Len(reports')
  BY <1>3
<1> HIDE DEF id
<1>9. b \in AgentRecs /\ b.id = id /\ id # 0 /\ b.delivered = agent[g].delivered
  BY <1>8 DEF AgentRecs
<1> HIDE DEF b
<1>10. AgentInv' /\ agent' \in [Agents -> AgentRecs]
  BY <1>n, <1>5, <1>7, <1>9 DEF IndInv, AgentInv, Types
<1>11. Types'
  BY <1>3, <1>4, <1>5, <1>6, <1>10 DEF IndInv, Types
<1>12. WireInv' /\ SessionInv'
  BY <1>5, <1>6 DEF IndInv, WireInv, SessionInv, Known
<1>13. \A h \in Agents : agent'[h].delivered = agent[h].delivered
  BY <1>7, <1>9 DEF IndInv, Types
<1>14. DeliveredWasApplied' /\ AppliedOnce'
  BY <1>6, <1>13 DEF IndInv, DeliveredWasApplied, AppliedOnce
<1>15. \A n \in 1..MaxReports :
          applied'[n] > 0 => n \in 1..Len(reports') /\ reports'[n].at <= state'.at
  BY <1>3, <1>5, <1>6 DEF IndInv, StateInv
<1>16. StateInv'
  BY <1>5, <1>6, <1>15 DEF IndInv, StateInv
<1>17. QED
  BY <1>10, <1>11, <1>12, <1>14, <1>16 DEF IndInv

\* The agent's other steps.
LEMMA AgentStep ==
  ASSUME IndInv, NEW g \in Agents, Post(g) \/ Timeout(g) \/ EndCycle(g)
  PROVE  IndInv'
<1>1. Types /\ now' \in Clock /\ SessionInv'
  BY DEF Post, Timeout, EndCycle, IndInv, Types, SessionInv, Known
<1>2. CASE Post(g)
  <2> DEFINE q == [from |-> g, id |-> agent[g].id, attempt |-> agent[g].attempt]
             b == [agent[g] EXCEPT !.step = "waiting"]
  <2>1. agent[g] \in AgentRecs
    BY <1>1 DEF Types
  <2>2. agent[g].id \in 0..Len(reports) /\ agent[g].id # 0 /\ agent[g].step # "idle"
    BY <1>2 DEF IndInv, AgentInv, Post
  <2>3. agent[g].id \in 1..Len(reports) /\ agent[g].id \in 1..MaxReports
    BY <1>1, <2>2, Bounds DEF Types
  <2>4. Known(q)
    BY <2>1, <2>3 DEF Known, RequestRecs, AgentRecs
  <2>5. wire' = wire \cup {q} /\ agent' = [agent EXCEPT ![g] = b] /\ UNCHANGED reports
    BY <1>2 DEF Post
  <2> HIDE DEF q
  <2>6. WireInv'
    BY <2>4, <2>5 DEF IndInv, WireInv, Known
  <2>7. b \in AgentRecs /\ b.id = agent[g].id /\ b.delivered = agent[g].delivered
    BY <2>1 DEF AgentRecs
  <2> HIDE DEF b
  <2>8. AgentsMove(0)
    BY <1>1, <2>2, <2>5, <2>7 DEF Types, AgentsMove
  <2>9. QED
    BY <1>1, <1>2, <2>6, <2>8, KeepsState DEF Post
<1>3. CASE Timeout(g)
  <2>1. AgentsMove(0)
    BY <1>1, <1>3, RejectedMoves DEF Timeout
  <2>2. QED
    BY <1>1, <1>3, <2>1, KeepsState DEF Timeout, IndInv, WireInv, Known
<1>4. CASE EndCycle(g)
  <2> DEFINE b == [agent[g] EXCEPT !.step = "idle"]
  <2>1. b \in AgentRecs /\ b.id = agent[g].id /\ b.delivered = agent[g].delivered /\ b.step = "idle"
    BY <1>1 DEF Types, AgentRecs
  <2>2. agent' = [agent EXCEPT ![g] = b]
    BY <1>4 DEF EndCycle
  <2> HIDE DEF b
  <2>3. AgentsMove(0)
    BY <1>1, <2>1, <2>2 DEF Types, AgentsMove
  <2>4. QED
    BY <1>1, <1>4, <2>3, KeepsState DEF EndCycle, IndInv, WireInv, Known
<1>5. QED
  BY <1>2, <1>3, <1>4

\* A session that ends has no request; one that begins has one of the wire.
LEMMA IdleSession ==
  ASSUME SessionInv, NEW s \in Sessions, ses' = [ses EXCEPT ![s] = IdleSes], UNCHANGED reports
  PROVE  SessionInv'
<1>1. IdleSes \in [step : {"idle", "locking"}, req : RequestRecs \cup {NoRequest}, current : Clock]
  BY Bounds DEF IdleSes, Clock
<1>2. IdleSes.step = "idle"
  BY DEF IdleSes
<1>3. QED
  BY <1>1, <1>2 DEF SessionInv, Known

\* A request is checked before it waits for the lock.
LEMMA CheckStep ==
  ASSUME IndInv, NEW s \in Sessions, Check(s)
  PROVE  IndInv'
<1>1. PICK r \in wire :
        /\ wire' = wire \ {r}
        /\ \/ /\ ses' = [ses EXCEPT ![s] = [step |-> "locking", req |-> r, current |-> now]]
              /\ UNCHANGED agent
           \/ Reply(r, 422) /\ UNCHANGED ses
  BY DEF Check
<1>2. Types /\ Known(r) /\ SessionInv
  BY DEF IndInv, WireInv
<1>3. /\ UNCHANGED <<reports, state, evidence, audited, applied>>
      /\ now' \in Clock /\ now \in Clock
  BY DEF Check, IndInv, Types
<1>4. WireInv'
  BY <1>1, <1>3 DEF IndInv, WireInv, Known
<1>5. AgentsMove(0)
  <2>1. UNCHANGED agent => AgentsMove(0)
    BY <1>2 DEF Types, AgentsMove
  <2>2. QED
    BY <1>1, <1>2, <2>1, ReplyMoves
<1>6. SessionInv'
  <2>1. CASE UNCHANGED ses
    BY <1>2, <1>3, <2>1 DEF SessionInv, Known
  <2>2. CASE ses' = [ses EXCEPT ![s] = [step |-> "locking", req |-> r, current |-> now]]
    <3> DEFINE d == [step |-> "locking", req |-> r, current |-> now]
    <3>1. d \in [step : {"idle", "locking"}, req : RequestRecs \cup {NoRequest}, current : Clock]
      BY <1>2, <1>3 DEF Known
    <3>2. d.req = r
      OBVIOUS
    <3> HIDE DEF d
    <3>3. ses' = [ses EXCEPT ![s] = d]
      BY <2>2 DEF d
    <3>4. QED
      BY <1>2, <1>3, <3>1, <3>2, <3>3 DEF SessionInv, Known
  <2>3. QED
    BY <1>1, <2>1, <2>2
<1>7. QED
  BY <1>3, <1>4, <1>5, <1>6, KeepsState

\* The intake applies the report of session s.
Applies(s) ==
  LET r == ses[s].req
      c == ses[s].current
      m == reports[r.id] IN
  /\ ses[s].step = "locking"
  /\ state.id # r.id
  /\ state.id # 0 => ~ OutOfOrder(r) /\ ~ TooSoon(c)
  /\ state' = [id |-> r.id, at |-> m.at, received |-> c, status |-> m.status]
  /\ AddIncidentEvidence(c)
  /\ audited' = IF Previous(c) # m.status THEN r.id ELSE audited
  /\ applied' = [applied EXCEPT ![r.id] = @ + 1]
  /\ Reply(r, 202)
  /\ ses' = [ses EXCEPT ![s] = IdleSes]
  /\ UNCHANGED <<now, reports, wire, incident, faults>>

\* Every other answer leaves the state alone, and 202 is given to the latest
\* report only.
LEMMA IngestCases ==
  ASSUME NEW s \in Sessions, Ingest(s)
  PROVE  \/ Applies(s)
         \/ /\ ses[s].step = "locking"
            /\ UNCHANGED <<now, reports, wire, state, evidence, audited, applied>>
            /\ ses' = [ses EXCEPT ![s] = IdleSes]
            /\ \/ Reply(ses[s].req, 409) \/ Reply(ses[s].req, 429)
               \/ Reply(ses[s].req, 202) /\ state.id = ses[s].req.id
  BY DEF Ingest, Applies

\* What is applied was never applied before: everything applied so far is
\* dated no later than the state.
LEMMA AppliesStep ==
  ASSUME IndInv, NEW s \in Sessions, Applies(s)
  PROVE  IndInv'
<1> DEFINE r == ses[s].req
           c == ses[s].current
           id == r.id
           m == reports[id]
<1>1. Known(r) /\ c \in Clock
  BY DEF IndInv, SessionInv, Applies
<1>2. id \in 1..MaxReports /\ id \in 1..Len(reports) /\ id # 0 /\ m \in ReportRecs
  BY <1>1 DEF Known, RequestRecs, IndInv, Types
<1>3. m.at \in Nat /\ m.status \in Statuses
  BY <1>2 DEF ReportRecs
<1>4. /\ state.id # id
      /\ state.id # 0 => ~ (m.at <= state.at)
      /\ state' = [id |-> id, at |-> m.at, received |-> c, status |-> m.status]
      /\ evidence' = [i \in Incidents |-> IF Due(i, c) THEN c ELSE evidence[i]]
      /\ audited' \in {id, audited}
      /\ applied' = [applied EXCEPT ![id] = @ + 1]
      /\ Reply(r, 202)
      /\ ses' = [ses EXCEPT ![s] = IdleSes]
      /\ UNCHANGED <<now, reports, wire>>
  BY DEF Applies, AddIncidentEvidence, OutOfOrder
<1>5. state.at \in Nat /\ applied \in [1..MaxReports -> Nat]
  BY DEF IndInv, StateInv, Types
<1>6. state.id # 0 => m.at > state.at
  BY <1>3, <1>4, <1>5
<1>7. state'.id = id /\ state'.at = m.at
  BY <1>4
<1>8. state' \in [id : 0..MaxReports, at : Nat, received : Clock, status : Statuses \cup {"none"}]
  <2>1. id \in 0..MaxReports
    BY <1>2, Bounds
  <2>2. QED
    BY <1>1, <1>3, <1>4, <2>1
<1> HIDE DEF id, m, c, r
<1>9. applied[id] = 0
  <2>1. CASE state.id = 0
    BY <1>2, <2>1 DEF IndInv, StateInv
  <2>2. CASE state.id # 0
    <3>1. ~ (m.at <= state.at)
      BY <1>4, <2>2
    <3>2. ~ (applied[id] > 0)
      BY <1>2, <3>1 DEF IndInv, StateInv, m
    <3>3. QED
      BY <1>2, <1>5, <3>2
  <2>3. QED
    BY <2>1, <2>2
<1>10. /\ applied' \in [1..MaxReports -> Nat]
       /\ applied'[id] = 1
       /\ \A n \in 1..MaxReports : n # id => applied'[n] = applied[n]
  BY <1>2, <1>4, <1>5, <1>9
<1>11. \A n \in 1..MaxReports : applied'[n] >= applied[n]
  BY <1>5, <1>9, <1>10
<1>12. AppliedOnce'
  BY <1>10 DEF IndInv, AppliedOnce
<1>13. ASSUME NEW n \in 1..MaxReports, applied'[n] > 0
       PROVE  n \in 1..Len(reports') /\ reports'[n].at <= state'.at
  <2>1. CASE n = id
    BY <1>2, <1>3, <1>4, <1>7, <2>1 DEF m
  <2>2. CASE n # id
    <3>1. applied[n] > 0
      BY <1>10, <1>13, <2>2
    <3>2. n \in 1..Len(reports) /\ reports[n].at <= state.at /\ state.id # 0
      BY <3>1 DEF IndInv, StateInv
    <3>3. reports[n] \in ReportRecs
      BY <3>2 DEF IndInv, Types
    <3>4. reports[n].at \in Nat
      BY <3>3 DEF ReportRecs
    <3>5. QED
      BY <1>3, <1>4, <1>5, <1>6, <1>7, <3>2, <3>4
  <2>3. QED
    BY <2>1, <2>2
<1>14. StateInv'
  <2>1. state'.id \in 0..Len(reports') /\ state'.id # 0
    BY <1>2, <1>4, <1>7
  <2>2. applied'[state'.id] > 0
    BY <1>7, <1>10
  <2>3. QED
    BY <1>8, <1>13, <2>1, <2>2 DEF StateInv
<1>15. AgentsMove(0) \/ AgentsMove(id)
  BY <1>1, <1>4, ReplyMoves DEF IndInv, id
<1>16. AgentInv' /\ DeliveredWasApplied'
  <2>1. 0 \in 0..MaxReports /\ id \in 0..MaxReports /\ applied'[id] > 0
    BY <1>2, <1>10, Bounds
  <2>2. QED
    BY <1>4, <1>10, <1>11, <1>15, <2>1, MoveKeeps DEF IndInv
<1>17. WireInv' /\ SessionInv'
  BY <1>4, IdleSession DEF IndInv, WireInv, Known
<1>18. evidence' \in [Incidents -> -1..MaxTime]
  <2>1. c \in -1..MaxTime
    BY <1>1, Bounds DEF Clock
  <2>2. QED
    BY <1>4, <2>1 DEF IndInv, Types
<1>19. audited' \in 0..Len(reports')
  BY <1>2, <1>4 DEF IndInv, Types
<1>20. Types'
  BY <1>4, <1>10, <1>15, <1>18, <1>19 DEF IndInv, Types, AgentsMove
<1>21. QED
  BY <1>12, <1>14, <1>16, <1>17, <1>20 DEF IndInv

\* Every step keeps the invariant.
LEMMA IndInvStep == IndInv /\ [Next]_vars => IndInv'
<1> SUFFICES ASSUME IndInv, [Next]_vars PROVE IndInv'
  OBVIOUS
<1>0. Types /\ (UNCHANGED agent => AgentsMove(0))
  BY DEF IndInv, Types, AgentsMove
<1>1. CASE Tick
  <2>1. now' \in Clock
    BY <1>0, <1>1, Bounds DEF Tick, Types, Clock
  <2>2. WireInv' /\ SessionInv'
    BY <1>1 DEF Tick, IndInv, WireInv, SessionInv, Known
  <2>3. QED
    BY <1>0, <1>1, <2>1, <2>2, KeepsState DEF Tick
<1>2. CASE \E i \in Incidents : Resolve(i)
  <2>1. UNCHANGED <<now, reports, agent, wire, ses, state, evidence, audited, applied>>
    BY <1>2 DEF Resolve
  <2>2. WireInv' /\ SessionInv' /\ now' \in Clock
    BY <1>0, <2>1 DEF IndInv, WireInv, SessionInv, Known, Types
  <2>3. QED
    BY <1>0, <2>1, <2>2, KeepsState
<1>3. ASSUME NEW g \in Agents, Collect(g) \/ Post(g) \/ Timeout(g) \/ EndCycle(g) PROVE IndInv'
  BY <1>3, CollectStep, AgentStep
<1>4. ASSUME NEW s \in Sessions, Check(s) PROVE IndInv'
  BY <1>4, CheckStep
<1>5. ASSUME NEW s \in Sessions, Ingest(s), ~ Applies(s) PROVE IndInv'
  <2> DEFINE r == ses[s].req
  <2>1. /\ ses[s].step = "locking"
        /\ UNCHANGED <<now, reports, wire, state, evidence, audited, applied>>
        /\ ses' = [ses EXCEPT ![s] = IdleSes]
        /\ Reply(r, 409) \/ Reply(r, 429) \/ (Reply(r, 202) /\ state.id = r.id)
    BY <1>5, IngestCases
  <2>2. Known(r)
    BY <2>1 DEF IndInv, SessionInv
  <2>3. WireInv' /\ SessionInv' /\ now' \in Clock
    BY <2>1, IdleSession DEF IndInv, WireInv, Known, Types
  <2>4. AgentsMove(0) \/ (state.id = r.id /\ AgentsMove(r.id))
    BY <1>0, <2>1, <2>2, ReplyMoves
  <2>5. AgentInv' /\ DeliveredWasApplied'
    <3>1. 0 \in 0..MaxReports /\ r.id \in 0..MaxReports /\ r.id # 0
      BY <2>2, Bounds DEF Known, RequestRecs
    <3>2. state.id = r.id => applied'[r.id] > 0
      BY <2>1, <3>1 DEF IndInv, StateInv
    <3>3. \A n \in 1..MaxReports : applied'[n] >= applied[n]
      BY <1>0, <2>1 DEF Types
    <3>4. applied' \in [1..MaxReports -> Nat] /\ UNCHANGED reports
      BY <1>0, <2>1 DEF Types
    <3> HIDE DEF r
    <3>5. QED
      BY <2>4, <3>1, <3>2, <3>3, <3>4, MoveKeeps DEF IndInv
  <2>6. Types' /\ StateInv' /\ AppliedOnce'
    BY <2>1, <2>4 DEF IndInv, Types, AgentsMove, StateInv, AppliedOnce
  <2>7. QED
    BY <2>3, <2>5, <2>6 DEF IndInv
<1>6. ASSUME NEW s \in Sessions, IngestFails(s) PROVE IndInv'
  <2>1. Known(ses[s].req) /\ Reply(ses[s].req, 500)
    BY <1>6 DEF IngestFails, IndInv, SessionInv
  <2>2. WireInv' /\ SessionInv' /\ now' \in Clock
    BY <1>6, IdleSession DEF IngestFails, IndInv, WireInv, Known, Types
  <2>3. AgentsMove(0)
    BY <1>0, <2>1, ReplyMoves
  <2>4. QED
    BY <1>6, <2>2, <2>3, KeepsState DEF IngestFails
<1>7. CASE UNCHANGED vars
  <2>1. UNCHANGED <<now, reports, agent, wire, ses, state, evidence, audited, applied>>
    BY <1>7 DEF vars
  <2>2. WireInv' /\ SessionInv' /\ now' \in Clock
    BY <1>0, <2>1 DEF IndInv, WireInv, SessionInv, Known, Types
  <2>3. QED
    BY <1>0, <2>1, <2>2, KeepsState
<1>8. QED
  BY <1>1, <1>2, <1>3, <1>4, <1>5, <1>6, <1>7, AppliesStep DEF Next

\* The invariant holds at all times.
LEMMA IndInvHolds == Spec => []IndInv
  BY InitIndInv, IndInvStep, PTL DEF Spec

-----------------------------------------------------------------------------
\* Only the intake's last alternative changes the state or adds evidence.
LEMMA OnlyApplies ==
  ASSUME [Next]_vars
  PROVE  UNCHANGED <<state, evidence>> \/ \E s \in Sessions : Applies(s)
  BY IngestCases DEF Next, vars, Tick, Collect, Post, Timeout, EndCycle, Check, IngestFails, Resolve

\* The invariant is more than the property.
LEMMA IndInvImplies == IndInv => ReportsAreApplied
<1> SUFFICES ASSUME IndInv PROVE ReportsAreApplied
  OBVIOUS
<1>1. \A g \in Agents : agent[g].attempt \in 0..MaxAttempts
  BY DEF IndInv, Types, AgentRecs
<1>2. TypeOK
  BY <1>1 DEF IndInv, Types, AgentInv, WireInv, Known, StateInv, Clock, TypeOK
<1>3. QED
  BY <1>2 DEF IndInv, ReportsAreApplied

\* However often and however late the attempts of a report arrive, from
\* however many agents, it is applied once; an agent never calls delivered
\* what was not applied.
THEOREM ReportsStayApplied == Spec => []ReportsAreApplied
  BY IndInvHolds, IndInvImplies, PTL

\* What an application of a report does to the state and the evidence.
LEMMA AppliesAdvances ==
  ASSUME IndInv, NEW s \in Sessions, Applies(s)
  PROVE  /\ state.id # 0 => state'.at > state.at /\ state'.received - state.received >= Gap
         /\ \A i \in Incidents : (evidence'[i] # evidence[i] /\ evidence[i] # -1) =>
              evidence'[i] - evidence[i] >= EvidenceGap
         /\ (state.id # 0 /\ state'.received - state.at > MaxAge) => audited' = state'.id
<1> DEFINE r == ses[s].req
           c == ses[s].current
           m == reports[r.id]
<1>1. Known(r) /\ c \in Clock
  BY DEF IndInv, SessionInv, Applies
<1>2. m \in ReportRecs
  BY <1>1 DEF Known, IndInv, Types
<1>3. m.at \in Nat /\ m.status \in Statuses
  BY <1>2 DEF ReportRecs
<1>4. state.at \in Nat /\ state.received \in Clock
  BY DEF IndInv, StateInv
<1>5. state' = [id |-> r.id, at |-> m.at, received |-> c, status |-> m.status]
  BY DEF Applies
<1>6. state'.id = r.id /\ state'.at = m.at /\ state'.received = c
  BY <1>5
<1>7. state.id # 0 => ~ (m.at <= state.at) /\ ~ (c - state.received < Gap)
  BY DEF Applies, OutOfOrder, TooSoon
<1>8. evidence' = [i \in Incidents |-> IF Due(i, c) THEN c ELSE evidence[i]]
  BY DEF Applies, AddIncidentEvidence
<1>9. audited' = IF Previous(c) # m.status THEN r.id ELSE audited
  BY DEF Applies
<1> HIDE DEF m, c, r
<1>10. state.id # 0 => state'.at > state.at /\ state'.received - state.received >= Gap
  BY <1>1, <1>3, <1>4, <1>6, <1>7, Bounds DEF Clock
<1>11. ASSUME NEW i \in Incidents, evidence'[i] # evidence[i], evidence[i] # -1
       PROVE  evidence'[i] - evidence[i] >= EvidenceGap
  BY <1>8, <1>11 DEF Due
<1>12. (state.id # 0 /\ state'.received - state.at > MaxAge) => audited' = state'.id
  <2> SUFFICES ASSUME state.id # 0, c - state.at > MaxAge PROVE audited' = r.id
    BY <1>6
  <2>1. c - state.at \notin (-MaxAhead)..MaxAge
    BY <1>1, <1>4, Bounds DEF Clock
  <2>2. Previous(c) = "STALE"
    BY <2>1 DEF Previous
  <2>3. QED
    BY <1>3, <1>9, <2>2 DEF Statuses
<1>13. QED
  BY <1>10, <1>11, <1>12

\* The cluster's state never goes back in time and no faster than the gap
\* allows, although the clock a request was checked with may be old by the
\* time it has the lock; and no incident gets evidence twice in a minute.
THEOREM IntakeOnlyAdvances == Spec => IntakeAdvances
<1>1. IndInv /\ [Next]_vars =>
        [(state' # state /\ state.id # 0) =>
           /\ state'.at > state.at
           /\ state'.received - state.received >= Gap]_vars
  BY OnlyApplies, AppliesAdvances
<1>2. IndInv /\ [Next]_vars =>
        [\A i \in Incidents : (evidence'[i] # evidence[i] /\ evidence[i] # -1) =>
           evidence'[i] - evidence[i] >= EvidenceGap]_vars
  BY OnlyApplies, AppliesAdvances
<1>3. QED
  BY <1>1, <1>2, IndInvHolds, PTL
     DEF Spec, IntakeAdvances, ObservationsAdvance, EvidenceIsSpaced

\* A report that ends a silence longer than the freshness limit is audited,
\* even if it says what the last one said.
THEOREM ReconnectsAreAudited == Spec => ReconnectIsAudited
<1>1. IndInv /\ [Next]_vars =>
        [(state' # state /\ state.id # 0 /\ state'.received - state.at > MaxAge) =>
           audited' = state'.id]_vars
  BY OnlyApplies, AppliesAdvances
<1>2. QED
  BY <1>1, IndInvHolds, PTL DEF Spec, ReconnectIsAudited
=============================================================================
