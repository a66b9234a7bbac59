------------------------- MODULE AlertIngestionProofs -------------------------
(***************************************************************************)
(* For any number of deliveries, alerts and batches: an active incident is *)
(* the one its alert's row names, and a task finds its incident.           *)
(***************************************************************************)
EXTENDS AlertIngestion, TLAPS

Links == Incidents \cup {None}
AlertRecs ==
  [start: Nat, status: {"firing", "resolved"}, incident: Links]
HookRecs ==
  [step: {"new", "ingesting", "inserting", "dispatching", "done", "failed"}, pos: Nat,
   writes: [Fingerprints -> AlertRecs], open: SUBSET Incidents, made: SUBSET Incidents,
   links: Seq(Links)]

Types ==
  /\ batch \in [Hooks -> Batches]
  /\ alert \in [Fingerprints -> AlertRecs]
  /\ incident \in [Incidents -> {"none", "active", "terminal"}]
  /\ lock \in [Fingerprints -> Hooks \cup {None}]
  /\ hook \in [Hooks -> HookRecs]
  /\ tasks \subseteq Incidents

\* The transaction of delivery h is not committed.
Before(h) == hook[h].step \in {"new", "ingesting", "inserting"}
Inserting(h) == hook[h].step = "inserting"
Committed(i) == i = None \/ incident[i] # "none"

\* The results of a session are those of the items before its position.
PlaceInv(h) ==
  /\ hook[h].pos \in 1..(Len(batch[h]) + 1)
  /\ Before(h) => Len(hook[h].links) = hook[h].pos - 1
  /\ Inserting(h) => /\ hook[h].pos <= Len(batch[h])
                     /\ hook[h].writes[Item(h).fp].start # 0
  /\ hook[h].step = "dispatching" => Len(hook[h].links) = Len(batch[h])

\* A result names a committed incident or one of the session's own; the row of
\* an item with an own incident is written with it.
LinkInv(h) ==
  /\ hook[h].made \subseteq hook[h].open
  /\ \A k \in DOMAIN hook[h].links :
       Committed(hook[h].links[k]) \/ (Before(h) /\ hook[h].links[k] \in hook[h].made)
  /\ Before(h) =>
       \A f \in Fingerprints :
         Committed(hook[h].writes[f].incident) \/ hook[h].writes[f].incident \in hook[h].made
  /\ Before(h) =>
       \A k \in DOMAIN hook[h].links :
         hook[h].links[k] \in hook[h].made =>
           /\ hook[h].writes[batch[h][k].fp].start # 0
           /\ hook[h].writes[batch[h][k].fp].incident = hook[h].links[k]

\* The item that opened incident i is the first with this result, or the one
\* that is being inserted.
FirstLink(h, i) ==
  \/ \E k \in DOMAIN hook[h].links :
       hook[h].links[k] = i /\ \A j \in 1..(k - 1) : hook[h].links[j] # i
  \/ /\ Inserting(h)
     /\ hook[h].writes[Item(h).fp].incident = i
     /\ \A k \in DOMAIN hook[h].links : hook[h].links[k] # i

\* What a transaction has opened is nobody else's and not visible.
MadeInv(h) ==
  Before(h) => \A i \in hook[h].made :
                 /\ incident[i] = "none"
                 /\ \A g \in Hooks \ {h} : i \notin hook[g].made
                 /\ FirstLink(h, i)

\* A written row is locked, but for the one being inserted, and keeps the
\* active incident of the committed row.
WriteInv(h) ==
  Before(h) =>
    \A f \in Fingerprints : hook[h].writes[f].start # 0 =>
      /\ lock[f] = h \/ (Inserting(h) /\ f = Item(h).fp)
      /\ (lock[f] = h /\ alert[f].incident # None /\ incident[alert[f].incident] = "active")
           => hook[h].writes[f].incident = alert[f].incident

\* The committed rows.
RowsInv ==
  /\ \A f \in Fingerprints :
       /\ alert[f].start = 0 => alert[f].incident = None
       /\ Committed(alert[f].incident)
  /\ \A i \in Incidents : incident[i] # "none" => subject[i] \in Payload
  /\ ActiveIsLinked
  /\ TasksFindIncident

HookInv(h) == PlaceInv(h) /\ LinkInv(h) /\ MadeInv(h) /\ WriteInv(h)

IndInv == Types /\ (\A h \in Hooks : HookInv(h)) /\ RowsInv

-----------------------------------------------------------------------------
(* The fields of a session, and the item it is at.                         *)

\* A batch is a sequence of payloads, not empty.
LEMMA BatchType ==
  ASSUME Types, NEW h \in Hooks
  PROVE  /\ batch[h] \in Seq(Payload)
         /\ Len(batch[h]) \in Nat
         /\ DOMAIN batch[h] = 1..Len(batch[h])
         /\ \A k \in 1..Len(batch[h]) : batch[h][k] \in Payload
         /\ \A k \in 1..Len(batch[h]) : batch[h][k].fp \in Fingerprints
<1>1. batch[h] \in Batches
  BY DEF Types
<1>2. batch[h] \in Seq(Payload)
  BY <1>1, BatchesAssumption
<1>3. \A k \in 1..Len(batch[h]) : batch[h][k] \in Payload
  BY <1>2
<1>4. \A p \in Payload : p.fp \in Fingerprints /\ p.start \in Nat \ {0}
  BY DEF Payload
<1> QED
  BY <1>2, <1>3, <1>4

\* The fields of a typed session.
LEMMA HookType ==
  ASSUME Types, NEW h \in Hooks
  PROVE  /\ hook[h] \in HookRecs
         /\ hook[h].step \in {"new", "ingesting", "inserting", "dispatching", "done", "failed"}
         /\ hook[h].pos \in Nat
         /\ hook[h].writes \in [Fingerprints -> AlertRecs]
         /\ hook[h].open \subseteq Incidents
         /\ hook[h].made \subseteq Incidents
         /\ hook[h].links \in Seq(Links)
         /\ Len(hook[h].links) \in Nat
         /\ DOMAIN hook[h].links = 1..Len(hook[h].links)
         /\ \A k \in DOMAIN hook[h].links : hook[h].links[k] \in Links
<1>1. hook[h] \in HookRecs
  BY DEF Types
<1>2. /\ hook[h].step \in {"new", "ingesting", "inserting", "dispatching", "done", "failed"}
      /\ hook[h].pos \in Nat
      /\ hook[h].writes \in [Fingerprints -> AlertRecs]
      /\ hook[h].open \subseteq Incidents
      /\ hook[h].made \subseteq Incidents
      /\ hook[h].links \in Seq(Links)
  BY <1>1 DEF HookRecs
<1> QED
  BY <1>1, <1>2

\* A row as a session sees it is an alert row.
LEMMA ViewType ==
  ASSUME Types, NEW h \in Hooks, NEW f \in Fingerprints
  PROVE  /\ View(h, f) \in AlertRecs
         /\ View(h, f).incident \in Links
         /\ alert[f] \in AlertRecs
         /\ hook[h].writes[f] \in AlertRecs
<1>1. hook[h].writes[f] \in AlertRecs /\ alert[f] \in AlertRecs
  BY HookType DEF Types
<1> QED
  BY <1>1 DEF View, AlertRecs

\* A new session, whatever its step is called, is typed.
LEMMA NewHookType ==
  ASSUME NEW st \in {"new", "ingesting", "done", "failed"}
  PROVE  /\ [NewHook EXCEPT !.step = st] \in HookRecs
         /\ NewHook \in HookRecs
<1>1. NoAlert \in AlertRecs
  BY DEF NoAlert, AlertRecs, Links
<1>2. [f \in Fingerprints |-> NoAlert] \in [Fingerprints -> AlertRecs]
  BY <1>1
<1>3. <<>> \in Seq(Links)
  OBVIOUS
<1> QED
  BY <1>2, <1>3 DEF NewHook, HookRecs

-----------------------------------------------------------------------------
(* Sessions that take no step.                                             *)

\* What a step of another delivery, or the end of an incident, leaves of a
\* session's invariant: incidents only move on, own locks and the rows under
\* them are kept, and nobody opens what the session has opened.
LEMMA OthersKeep ==
  ASSUME IndInv, NEW g \in Hooks,
         hook'[g] = hook[g], batch' = batch,
         \A f \in Fingerprints : (lock'[f] = g) <=> (lock[f] = g),
         \A f \in Fingerprints : lock[f] = g => alert'[f] = alert[f],
         \A i \in Incidents : incident[i] # "none" => incident'[i] # "none",
         \A i \in Incidents : incident[i] = "terminal" => incident'[i] = "terminal",
         \A i \in hook[g].made : Before(g) => incident'[i] = incident[i],
         \A k \in Hooks \ {g} : \A i \in hook'[k].made : i \in hook[k].made \/ Unused(i)
  PROVE  HookInv(g)'
<1> USE DEF Inserting, Item
<1>1. Types /\ HookInv(g) /\ RowsInv
  BY DEF IndInv
<1>2. Before(g)' <=> Before(g)
  BY DEF Before
<1>3. PlaceInv(g)'
  BY <1>1, <1>2 DEF HookInv, PlaceInv
<1>4. ASSUME NEW i \in Links, Committed(i) PROVE Committed(i)'
  BY <1>4 DEF Committed, Links
<1>5. LinkInv(g)'
  <2>1. \A k \in DOMAIN hook[g].links : hook[g].links[k] \in Links
    BY <1>1, HookType
  <2>2. \A f \in Fingerprints : hook[g].writes[f].incident \in Links
    BY <1>1, ViewType DEF AlertRecs
  <2> QED
    BY <1>1, <1>2, <1>4, <2>1, <2>2 DEF HookInv, LinkInv
<1>6. MadeInv(g)'
  <2> SUFFICES ASSUME Before(g)', NEW i \in hook'[g].made
               PROVE  /\ incident'[i] = "none"
                      /\ \A k \in Hooks \ {g} : i \notin hook'[k].made
                      /\ FirstLink(g, i)'
    BY DEF MadeInv
  <2>1. incident[i] = "none" /\ (\A k \in Hooks \ {g} : i \notin hook[k].made) /\ FirstLink(g, i)
    BY <1>1, <1>2 DEF HookInv, MadeInv
  <2>2. incident'[i] = "none"
    BY <2>1, <1>2
  <2>3. ~Unused(i)
    BY DEF Unused
  <2>4. FirstLink(g, i)'
    BY <2>1 DEF FirstLink
  <2> QED
    BY <2>1, <2>2, <2>3, <2>4
<1>7. WriteInv(g)'
  <2> SUFFICES ASSUME Before(g)', NEW f \in Fingerprints, hook'[g].writes[f].start # 0
               PROVE  /\ lock'[f] = g \/ (Inserting(g)' /\ f = Item(g)'.fp)
                      /\ (lock'[f] = g /\ alert'[f].incident # None
                            /\ incident'[alert'[f].incident] = "active")
                           => hook'[g].writes[f].incident = alert'[f].incident
    BY DEF WriteInv
  <2>1. lock[f] = g \/ (Inserting(g) /\ f = Item(g).fp)
    BY <1>1, <1>2 DEF HookInv, WriteInv
  <2>2. ASSUME lock'[f] = g, alert'[f].incident # None,
               incident'[alert'[f].incident] = "active"
        PROVE  hook'[g].writes[f].incident = alert'[f].incident
    <3>1. lock[f] = g /\ alert'[f] = alert[f]
      BY <2>2
    <3>2. alert[f].incident \in Incidents
      BY <1>1, <2>2, <3>1, ViewType DEF AlertRecs, Links
    <3>3. incident[alert[f].incident] = "active"
      BY <1>1, <2>2, <3>1, <3>2 DEF RowsInv, Committed, Types
    <3> QED
      BY <1>1, <1>2, <2>2, <3>1, <3>3 DEF HookInv, WriteInv
  <2> QED
    BY <2>1, <2>2
<1> QED
  BY <1>3, <1>5, <1>6, <1>7 DEF HookInv

\* The invariant after a step of delivery h that changes no committed row.
LEMMA UncommittedStep ==
  ASSUME IndInv, NEW h \in Hooks, Types',
         UNCHANGED <<batch, alert, incident, subject, tasks>>,
         \A g \in Hooks \ {h} : hook'[g] = hook[g],
         \A f \in Fingerprints :
           lock'[f] = lock[f] \/ (lock[f] \in {None, h} /\ lock'[f] \in {None, h}),
         \A i \in hook'[h].made : i \in hook[h].made \/ Unused(i),
         HookInv(h)'
  PROVE  IndInv'
<1>1. ASSUME NEW g \in Hooks \ {h} PROVE HookInv(g)'
  <2>1. g # None
    BY HooksAssumption
  <2>2. \A f \in Fingerprints : (lock'[f] = g) <=> (lock[f] = g)
    BY <2>1
  <2>3. \A k \in Hooks \ {g} : \A i \in hook'[k].made : i \in hook[k].made \/ Unused(i)
    OBVIOUS
  <2> QED
    BY <2>2, <2>3, OthersKeep
<1>2. RowsInv'
  BY DEF IndInv, RowsInv, ActiveIsLinked, TasksFindIncident, Committed
<1> QED
  BY <1>1, <1>2 DEF IndInv

-----------------------------------------------------------------------------
(* Steps of a session.                                                     *)

Restarts(h, st) == hook'[h] = [NewHook EXCEPT !.step = st]

\* What remains of a session that is rolled back, answered or repeated.
LEMMA FreshHook ==
  ASSUME IndInv, NEW h \in Hooks, batch' = batch, incident' = incident,
         NEW st \in {"new", "ingesting", "done", "failed"},
         Restarts(h, st)
  PROVE  HookInv(h)'
<1> DEFINE s == [NewHook EXCEPT !.step = st]
<1>1. /\ s.step = st /\ s.pos = 1 /\ s.open = {} /\ s.made = {} /\ s.links = <<>>
      /\ \A f \in Fingerprints : s.writes[f].start = 0 /\ s.writes[f].incident = None
  BY DEF NewHook, NoAlert
<1>2. hook'[h] = s
  BY DEF Restarts
<1> HIDE DEF s
<1>3. Len(batch'[h]) \in Nat
  BY BatchType DEF IndInv
<1>4. hook'[h].links = <<>> /\ hook'[h].pos = 1
  BY <1>1, <1>2
<1>5. PlaceInv(h)'
  <2>1. Len(hook'[h].links) = 0 /\ hook'[h].pos = 1
    BY <1>1, <1>4
  <2>2. hook'[h].step # "inserting" /\ hook'[h].step # "dispatching"
    BY <1>1, <1>2
  <2> QED
    BY <1>3, <2>1, <2>2 DEF PlaceInv, Inserting
<1>6. LinkInv(h)'
  <2>1. DOMAIN hook'[h].links = {}
    BY <1>4
  <2> QED
    BY <1>1, <1>2, <2>1 DEF LinkInv, Committed
<1>7. MadeInv(h)'
  BY <1>1, <1>2 DEF MadeInv
<1>8. WriteInv(h)'
  BY <1>1, <1>2 DEF WriteInv
<1> QED
  BY <1>5, <1>6, <1>7, <1>8 DEF HookInv

\* The session has named `link` for its item and moved to the next.
Advances(h, link) ==
  /\ Before(h) /\ hook[h].pos <= Len(batch[h])
  /\ hook'[h].step = "ingesting" /\ hook'[h].pos = hook[h].pos + 1
  /\ hook'[h].links = Append(hook[h].links, link)

\* It holds the row of its item, which it has left or written with the link.
Rewrites(h, link) ==
  LET fp == Item(h).fp IN
  /\ \A f \in Fingerprints \ {fp} :
       hook'[h].writes[f] = hook[h].writes[f] /\ lock'[f] = lock[f]
  /\ lock'[fp] = h
  /\ Inserting(h) => alert[fp].start = 0
  /\ \/ hook'[h].writes[fp] = hook[h].writes[fp]
     \/ hook'[h].writes[fp].start # 0 /\ hook'[h].writes[fp].incident = link

\* The link is the row's, as the session sees it, or a new incident because
\* that one is not active.
Chooses(h, link, M) ==
  LET fp == Item(h).fp
      row == View(h, fp)
  IN
  /\ hook'[h].made = hook[h].made \cup M
  /\ hook[h].open \cup M \subseteq hook'[h].open
  /\ \/ M = {} /\ link = row.incident
     \/ /\ M = {link} /\ link \in Incidents /\ Unused(link) /\ ~Inserting(h)
        /\ hook'[h].writes[fp].start # 0 /\ hook'[h].writes[fp].incident = link
        /\ row.incident \notin hook[h].open
        /\ ~(row.incident # None /\ row.incident \notin hook[h].made
               /\ incident[row.incident] = "active")

\* The results after the step: one more, at the place of the item.
LEMMA ResultAppended ==
  ASSUME IndInv, NEW h \in Hooks, NEW link \in Links, Advances(h, link)
  PROVE  /\ hook[h].pos \in 1..Len(batch[h])
         /\ hook[h].pos \in Nat
         /\ Item(h) = batch[h][hook[h].pos]
         /\ Item(h).fp \in Fingerprints
         /\ DOMAIN hook[h].links = 1..(hook[h].pos - 1)
         /\ DOMAIN hook'[h].links = 1..hook[h].pos
         /\ Len(hook'[h].links) = hook[h].pos
         /\ hook'[h].links[hook[h].pos] = link
         /\ \A k \in 1..(hook[h].pos - 1) : hook'[h].links[k] = hook[h].links[k]
<1> DEFINE old == hook[h].links
           new == hook'[h].links
           n == hook[h].pos
<1>1. Types /\ PlaceInv(h)
  BY DEF IndInv, HookInv
<1>2. Before(h) /\ n <= Len(batch[h]) /\ new = Append(old, link)
  BY DEF Advances
<1>3. old \in Seq(Links) /\ Len(old) \in Nat /\ DOMAIN old = 1..Len(old)
  BY <1>1, HookType
<1>4. n \in 1..(Len(batch[h]) + 1) /\ Len(old) = n - 1
  BY <1>1, <1>2 DEF PlaceInv
<1>5. Len(batch[h]) \in Nat
  BY <1>1, BatchType
<1>6. Item(h) = batch[h][n]
  BY DEF Item
<1> HIDE DEF old, new, n
<1>7. n \in 1..Len(batch[h]) /\ n \in Nat
  BY <1>2, <1>4, <1>5
<1>8. batch[h][n].fp \in Fingerprints
  BY <1>1, <1>7, BatchType
<1>9. /\ DOMAIN new = 1..(Len(old) + 1) /\ Len(new) = Len(old) + 1
      /\ new[Len(old) + 1] = link
      /\ \A k \in 1..Len(old) : new[k] = old[k]
  BY <1>2, <1>3
<1>10. Len(old) + 1 = n
  BY <1>3, <1>4, <1>7
<1> QED
  BY <1>3, <1>4, <1>6, <1>7, <1>8, <1>9, <1>10 DEF old, new, n

\* The choice of a link: what a session opened itself it finds in the row it has
\* written, and a new incident is named by no earlier item.
LEMMA LinkChosen ==
  ASSUME IndInv, NEW h \in Hooks, NEW link \in Links, NEW M, UNCHANGED <<batch, alert, incident>>,
         Advances(h, link), Rewrites(h, link), Chooses(h, link, M)
  PROVE  /\ M \subseteq Incidents /\ \A i \in M : Unused(i) /\ i = link
         /\ Committed(link) \/ link \in hook'[h].made
         /\ link \in hook'[h].made =>
              /\ hook'[h].writes[Item(h).fp].start # 0
              /\ hook'[h].writes[Item(h).fp].incident = link
         /\ \A k \in DOMAIN hook[h].links : hook[h].links[k] \notin M
         /\ (hook[h].writes[Item(h).fp].start # 0
               /\ hook[h].writes[Item(h).fp].incident \in hook[h].made)
              => link = hook[h].writes[Item(h).fp].incident
<1> DEFINE fp == Item(h).fp
           row == View(h, fp)
           own == hook[h].writes[fp]
<1>1. Types /\ LinkInv(h) /\ MadeInv(h) /\ RowsInv
  BY DEF IndInv, HookInv
<1>2. Before(h)
  BY DEF Advances
<1>3. fp \in Fingerprints
  BY ResultAppended
<1>4. hook'[h].writes[fp] = own \/ (hook'[h].writes[fp].start # 0 /\ hook'[h].writes[fp].incident = link)
  BY DEF Rewrites
<1>5. /\ hook'[h].made = hook[h].made \cup M
      /\ \/ M = {} /\ link = row.incident
         \/ /\ M = {link} /\ link \in Incidents /\ Unused(link)
            /\ hook'[h].writes[fp].start # 0 /\ hook'[h].writes[fp].incident = link
            /\ row.incident \notin hook[h].open
  BY DEF Chooses
<1>6. row = IF own.start # 0 THEN own ELSE alert[fp]
  BY DEF View
<1>7. Committed(alert[fp].incident) /\ alert[fp].incident \in Links
  BY <1>1, <1>3, ViewType DEF RowsInv, AlertRecs
<1>8. Committed(own.incident) \/ own.incident \in hook[h].made
  BY <1>1, <1>2, <1>3 DEF LinkInv
<1>9. \A i \in hook[h].made : i \in Incidents /\ incident[i] = "none" /\ i # None
  BY <1>1, <1>2, HookType DEF MadeInv, Incidents, None
<1>10. hook[h].made \subseteq hook[h].open
  BY <1>1 DEF LinkInv
<1>11. \A k \in DOMAIN hook[h].links :
         Committed(hook[h].links[k]) \/ hook[h].links[k] \in hook[h].made
  BY <1>1 DEF LinkInv
<1>12. \A i \in Incidents : Unused(i) => ~Committed(i) /\ i \notin hook[h].made
  BY DEF Unused, Committed, Incidents, None
<1> HIDE DEF fp, row, own
<1>13. \A i \in hook[h].made : ~Committed(i)
  BY <1>9 DEF Committed
<1>14. M \subseteq Incidents /\ \A i \in M : Unused(i) /\ i = link
  BY <1>5
<1>15. Committed(link) \/ link \in hook'[h].made
  BY <1>5, <1>6, <1>7, <1>8
<1>16. link \in hook'[h].made => hook'[h].writes[fp].start # 0 /\ hook'[h].writes[fp].incident = link
  BY <1>4, <1>5, <1>6, <1>7, <1>13
<1>17. \A k \in DOMAIN hook[h].links : hook[h].links[k] \notin M
  BY <1>11, <1>12, <1>14
<1>18. (own.start # 0 /\ own.incident \in hook[h].made) => link = own.incident
  BY <1>5, <1>6, <1>10
<1> QED
  BY <1>14, <1>15, <1>16, <1>17, <1>18 DEF fp, own

\* A session that has handled an item keeps its invariant.
LEMMA ItemDone ==
  ASSUME IndInv, NEW h \in Hooks, NEW link \in Links, NEW M,
         UNCHANGED <<batch, alert, incident>>,
         \A g \in Hooks \ {h} : hook'[g] = hook[g],
         Advances(h, link), Rewrites(h, link), Chooses(h, link, M)
  PROVE  HookInv(h)'
<1> DEFINE s == hook[h]
           t == hook'[h]
           n == hook[h].pos
           fp == Item(h).fp
<1>1. Types /\ PlaceInv(h) /\ LinkInv(h) /\ MadeInv(h) /\ WriteInv(h) /\ RowsInv
  BY DEF IndInv, HookInv
<1>2. Before(h) /\ t.step = "ingesting" /\ t.pos = n + 1
  BY DEF Advances
<1>3. /\ n \in 1..Len(batch[h]) /\ n \in Nat /\ Item(h) = batch[h][n] /\ fp \in Fingerprints
      /\ DOMAIN s.links = 1..(n - 1) /\ DOMAIN t.links = 1..n /\ Len(t.links) = n
      /\ t.links[n] = link
      /\ \A k \in 1..(n - 1) : t.links[k] = s.links[k]
  BY ResultAppended
<1>4. /\ \A f \in Fingerprints \ {fp} : t.writes[f] = s.writes[f] /\ lock'[f] = lock[f]
      /\ lock'[fp] = h
      /\ Inserting(h) => alert[fp].start = 0
      /\ t.writes[fp] = s.writes[fp] \/ (t.writes[fp].start # 0 /\ t.writes[fp].incident = link)
  BY DEF Rewrites
<1>5. t.made = s.made \cup M /\ s.open \cup M \subseteq t.open
  BY DEF Chooses
<1>6. /\ M \subseteq Incidents /\ \A i \in M : Unused(i) /\ i = link
      /\ Committed(link) \/ link \in t.made
      /\ link \in t.made => t.writes[fp].start # 0 /\ t.writes[fp].incident = link
      /\ \A k \in DOMAIN s.links : s.links[k] \notin M
      /\ (s.writes[fp].start # 0 /\ s.writes[fp].incident \in s.made)
           => link = s.writes[fp].incident
  BY LinkChosen
<1>7. Before(h)' /\ ~Inserting(h)'
  BY <1>2 DEF Before, Inserting
<1>8. Len(batch[h]) \in Nat /\ \A k \in 1..Len(batch[h]) : batch[h][k].fp \in Fingerprints
  BY <1>1, BatchType
<1>9. \A i : Committed(i)' <=> Committed(i)
  BY DEF Committed
<1>10. PlaceInv(h)'
  BY <1>2, <1>3, <1>7, <1>8 DEF PlaceInv
<1>11. \A k \in 1..n : k = n \/ k \in 1..(n - 1)
  BY <1>3
<1> HIDE DEF s, t, n, fp
<1>12. LinkInv(h)'
  <2>1. t.made \subseteq t.open
    BY <1>1, <1>5 DEF LinkInv, s
  <2>2. \A k \in 1..(n - 1) : Committed(s.links[k]) \/ s.links[k] \in s.made
    BY <1>1, <1>3 DEF LinkInv, s
  <2>3. \A k \in 1..n : Committed(t.links[k]) \/ t.links[k] \in t.made
    BY <2>2, <1>3, <1>5, <1>6, <1>11
  <2>4. \A f \in Fingerprints : Committed(s.writes[f].incident) \/ s.writes[f].incident \in s.made
    BY <1>1, <1>2 DEF LinkInv, s
  <2>5. \A f \in Fingerprints : Committed(t.writes[f].incident) \/ t.writes[f].incident \in t.made
    BY <2>4, <1>4, <1>5, <1>6
  <2>6. \A k \in 1..(n - 1) : s.links[k] \in s.made =>
          s.writes[batch[h][k].fp].start # 0 /\ s.writes[batch[h][k].fp].incident = s.links[k]
    BY <1>1, <1>2, <1>3 DEF LinkInv, s
  <2>7. ASSUME NEW k \in 1..n, t.links[k] \in t.made
        PROVE  t.writes[batch[h][k].fp].start # 0 /\ t.writes[batch[h][k].fp].incident = t.links[k]
    <3>1. CASE k = n
      BY <2>7, <3>1, <1>3, <1>6 DEF fp
    <3>2. CASE k \in 1..(n - 1)
      <4>1. s.links[k] \in s.made /\ t.links[k] = s.links[k]
        BY <2>7, <3>2, <1>3, <1>5, <1>6
      <4>2. /\ s.writes[batch[h][k].fp].start # 0
            /\ s.writes[batch[h][k].fp].incident = s.links[k]
        BY <2>6, <3>2, <4>1
      <4>3. batch[h][k].fp \in Fingerprints
        BY <1>3, <1>8, <3>2
      <4>4. CASE batch[h][k].fp # fp
        BY <4>1, <4>2, <4>3, <4>4, <1>4
      <4>5. CASE batch[h][k].fp = fp
        <5>1. link = s.links[k]
          BY <4>1, <4>2, <4>5, <1>6
        <5> QED
          BY <5>1, <4>1, <4>2, <4>5, <1>4
      <4> QED
        BY <4>4, <4>5
    <3> QED
      BY <3>1, <3>2, <1>11
  <2> QED
    BY <2>1, <2>3, <2>5, <2>7, <1>3, <1>7, <1>9 DEF LinkInv, t
<1>13. MadeInv(h)'
  <2>1. ASSUME NEW i \in t.made
        PROVE  incident'[i] = "none" /\ (\A g \in Hooks \ {h} : i \notin hook'[g].made)
    BY <1>1, <1>2, <1>5, <1>6 DEF MadeInv, Unused, s
  <2>2. ASSUME NEW i \in t.made
        PROVE  \E k \in 1..n : t.links[k] = i /\ \A j \in 1..(k - 1) : t.links[j] # i
    <3>1. CASE i \in M
      <4>1. \A j \in 1..(n - 1) : t.links[j] # i
        BY <3>1, <1>3, <1>6
      <4>2. n \in 1..n
        BY <1>3
      <4> QED
        BY <4>1, <4>2, <3>1, <1>3, <1>6
    <3>2. CASE i \in s.made
      <4>1. FirstLink(h, i)
        BY <3>2, <1>1, <1>2 DEF MadeInv, s
      <4>2. CASE \E k \in 1..(n - 1) : s.links[k] = i /\ \A j \in 1..(k - 1) : s.links[j] # i
        <5>1. PICK k \in 1..(n - 1) : s.links[k] = i /\ \A j \in 1..(k - 1) : s.links[j] # i
          BY <4>2
        <5>2. k \in 1..n /\ \A j \in 1..(k - 1) : j \in 1..(n - 1)
          BY <1>3
        <5>3. t.links[k] = i /\ \A j \in 1..(k - 1) : t.links[j] # i
          BY <5>1, <5>2, <1>3
        <5> QED
          BY <5>2, <5>3
      <4>3. CASE /\ Inserting(h) /\ s.writes[fp].incident = i
                 /\ \A k \in 1..(n - 1) : s.links[k] # i
        <5>1. s.writes[fp].start # 0
          BY <4>3, <1>1 DEF PlaceInv, s, fp
        <5>2. link = i
          BY <5>1, <4>3, <3>2, <1>6
        <5>3. \A j \in 1..(n - 1) : t.links[j] # i
          BY <4>3, <1>3
        <5>4. n \in 1..n
          BY <1>3
        <5> QED
          BY <5>2, <5>3, <5>4, <1>3
      <4> QED
        BY <4>1, <4>2, <4>3, <1>3 DEF FirstLink, s, fp
    <3> QED
      BY <3>1, <3>2, <1>5
  <2> QED
    BY <2>1, <2>2, <1>3 DEF MadeInv, FirstLink, t
<1>14. WriteInv(h)'
  <2> SUFFICES ASSUME NEW f \in Fingerprints, t.writes[f].start # 0
               PROVE  /\ lock'[f] = h
                      /\ (alert[f].incident # None /\ incident[alert[f].incident] = "active")
                           => t.writes[f].incident = alert[f].incident
    BY DEF WriteInv, t
  <2>1. CASE f # fp
    BY <2>1, <1>1, <1>2, <1>4 DEF WriteInv, s, fp
  <2>2. CASE f = fp
    <3>1. ASSUME alert[fp].incident # None, incident[alert[fp].incident] = "active"
          PROVE  t.writes[fp].incident = alert[fp].incident
      <4>1. alert[fp].start # 0 /\ ~Inserting(h)
        BY <3>1, <1>1, <1>3, <1>4 DEF RowsInv
      <4>2. View(h, fp).incident = alert[fp].incident
        BY <3>1, <4>1, <1>1, <1>2, <1>3 DEF WriteInv, View, s
      <4>3. alert[fp].incident \in Incidents /\ alert[fp].incident \notin s.made
        BY <3>1, <1>1, <1>2, <1>3, ViewType DEF MadeInv, s, AlertRecs, Links
      <4>4. link = View(h, fp).incident
        BY <3>1, <4>2, <4>3 DEF Chooses, s, fp
      <4>5. t.writes[fp] = s.writes[fp] => View(h, fp) = t.writes[fp]
        BY <2>2 DEF View, s
      <4> QED
        BY <4>2, <4>4, <4>5, <1>4
    <3> QED
      BY <2>2, <3>1, <1>4
  <2> QED
    BY <2>1, <2>2
<1> QED
  BY <1>10, <1>12, <1>13, <1>14 DEF HookInv

-----------------------------------------------------------------------------
(* The changes of a session's record.                                      *)

\* What NextItem sets and what it leaves.
LEMMA NextItemFields ==
  ASSUME NEW s \in HookRecs, NEW link \in Links
  PROVE  /\ NextItem(s, link) \in HookRecs
         /\ NextItem(s, link).step = "ingesting"
         /\ NextItem(s, link).pos = s.pos + 1
         /\ NextItem(s, link).links = Append(s.links, link)
         /\ NextItem(s, link).writes = s.writes
         /\ NextItem(s, link).open = s.open
         /\ NextItem(s, link).made = s.made
<1> DEFINE new == Append(s.links, link)
<1>1. s.links \in Seq(Links) /\ s.pos \in Nat
  BY DEF HookRecs
<1>2. new \in Seq(Links)
  BY <1>1
<1>3. NextItem(s, link) = [s EXCEPT !.links = new, !.pos = s.pos + 1, !.step = "ingesting"]
  BY DEF NextItem
<1> HIDE DEF new
<1>4. s.pos + 1 \in Nat
  BY <1>1
<1>5. NextItem(s, link) \in HookRecs
  BY <1>2, <1>3, <1>4 DEF HookRecs
<1>6. /\ NextItem(s, link).step = "ingesting"
      /\ NextItem(s, link).pos = s.pos + 1
      /\ NextItem(s, link).links = new
      /\ NextItem(s, link).writes = s.writes
      /\ NextItem(s, link).open = s.open
      /\ NextItem(s, link).made = s.made
  BY <1>3 DEF HookRecs
<1> QED
  BY <1>5, <1>6 DEF new

\* What Write sets and what it leaves.
LEMMA WriteFields ==
  ASSUME NEW s \in HookRecs, NEW p \in Payload, NEW link \in Links
  PROVE  /\ Write(s, p, link) \in HookRecs
         /\ Write(s, p, link).step = s.step
         /\ Write(s, p, link).pos = s.pos
         /\ Write(s, p, link).links = s.links
         /\ Write(s, p, link).open = s.open
         /\ Write(s, p, link).made = s.made
         /\ Write(s, p, link).writes[p.fp].start # 0
         /\ Write(s, p, link).writes[p.fp].incident = link
         /\ \A f \in Fingerprints \ {p.fp} : Write(s, p, link).writes[f] = s.writes[f]
<1> DEFINE row == [start |-> p.start, status |-> p.status, incident |-> link]
           w == [s.writes EXCEPT ![p.fp] = row]
<1>1. p.fp \in Fingerprints /\ p.start \in Nat \ {0} /\ p.status \in {"firing", "resolved"}
  BY DEF Payload
<1>2. row \in AlertRecs /\ row.start = p.start /\ row.incident = link
  BY <1>1 DEF AlertRecs
<1>3. Write(s, p, link) = [s EXCEPT !.writes = w]
  BY DEF Write, HookRecs
<1> HIDE DEF row
<1>4. s.writes \in [Fingerprints -> AlertRecs]
  BY DEF HookRecs
<1>5. /\ w \in [Fingerprints -> AlertRecs]
      /\ w[p.fp] = row
      /\ \A f \in Fingerprints \ {p.fp} : w[f] = s.writes[f]
  BY <1>1, <1>2, <1>4
<1> HIDE DEF w
<1>6. /\ Write(s, p, link) \in HookRecs
      /\ Write(s, p, link).step = s.step
      /\ Write(s, p, link).pos = s.pos
      /\ Write(s, p, link).links = s.links
      /\ Write(s, p, link).open = s.open
      /\ Write(s, p, link).made = s.made
      /\ Write(s, p, link).writes = w
  BY <1>3, <1>5 DEF HookRecs
<1> QED
  BY <1>1, <1>2, <1>5, <1>6

\* What Create sets and what it leaves.
LEMMA CreateFields ==
  ASSUME NEW s \in HookRecs, NEW i \in Incidents
  PROVE  /\ Create(s, i) \in HookRecs
         /\ Create(s, i).step = s.step
         /\ Create(s, i).pos = s.pos
         /\ Create(s, i).links = s.links
         /\ Create(s, i).writes = s.writes
         /\ Create(s, i).open = s.open \cup {i}
         /\ Create(s, i).made = s.made \cup {i}
BY DEF Create, HookRecs

\* A step changes a field of a session's record to one of its type.
LEMMA StepFields ==
  ASSUME NEW s \in HookRecs, NEW n \in Nat, NEW o \in SUBSET Incidents,
         NEW st \in {"new", "ingesting", "inserting", "dispatching", "done", "failed"}
  PROVE  /\ [s EXCEPT !.step = st] \in HookRecs
         /\ [s EXCEPT !.step = st, !.pos = n] \in HookRecs
         /\ [s EXCEPT !.pos = n] \in HookRecs
         /\ [s EXCEPT !.open = o] \in HookRecs
BY DEF HookRecs

-----------------------------------------------------------------------------
(* The actions.                                                            *)

\* A delivery that is at an item.
LEMMA AtItem ==
  ASSUME IndInv, NEW h \in Hooks, Ingesting(h) \/ Inserting(h)
  PROVE  /\ Before(h) /\ hook[h].pos <= Len(batch[h])
         /\ Item(h) \in Payload /\ Item(h).fp \in Fingerprints
         /\ Ingesting(h) => ~Inserting(h)
<1>1. Types /\ PlaceInv(h)
  BY DEF IndInv, HookInv
<1>2. Before(h) /\ hook[h].pos <= Len(batch[h])
  BY <1>1 DEF Ingesting, Inserting, Before, PlaceInv
<1>3. hook[h].pos \in 1..Len(batch[h])
  BY <1>1, <1>2, BatchType, HookType DEF PlaceInv
<1>4. Item(h) \in Payload /\ Item(h).fp \in Fingerprints
  BY <1>1, <1>3, BatchType DEF Item
<1> QED
  BY <1>2, <1>4 DEF Ingesting, Inserting

\* The invariant after an item is handled.
LEMMA HandledItem ==
  ASSUME IndInv, NEW h \in Hooks, NEW link \in Links, NEW M, NEW t \in HookRecs,
         hook' = [hook EXCEPT ![h] = t], lock' = [lock EXCEPT ![Item(h).fp] = h],
         Lockable(h, Item(h).fp), Item(h).fp \in Fingerprints,
         UNCHANGED <<batch, alert, incident, subject, tasks>>,
         Advances(h, link), Rewrites(h, link), Chooses(h, link, M)
  PROVE  IndInv'
<1>1. Types
  BY DEF IndInv
<1>2. hook' \in [Hooks -> HookRecs] /\ \A g \in Hooks \ {h} : hook'[g] = hook[g]
  BY <1>1 DEF Types
<1>3. /\ lock' \in [Fingerprints -> Hooks \cup {None}]
      /\ \A f \in Fingerprints :
           lock'[f] = lock[f] \/ (lock[f] \in {None, h} /\ lock'[f] \in {None, h})
  BY <1>1 DEF Types, Lockable
<1>4. Types'
  BY <1>1, <1>2, <1>3 DEF Types
<1>5. HookInv(h)'
  BY <1>2, ItemDone
<1>6. \A i \in hook'[h].made : i \in hook[h].made \/ Unused(i)
  BY DEF Chooses
<1> QED
  BY <1>2, <1>3, <1>4, <1>5, <1>6, UncommittedStep

\* An item whose digest is that of the row.
LEMMA DuplicateStep ==
  ASSUME IndInv, NEW h \in Hooks, IngestDuplicate(h)
  PROVE  IndInv'
<1> DEFINE p == Item(h)
           row == View(h, p.fp)
           t == NextItem(hook[h], row.incident)
<1>1. Types
  BY DEF IndInv
<1>2. /\ Ingesting(h) /\ Lockable(h, p.fp)
      /\ lock' = [lock EXCEPT ![p.fp] = h]
      /\ hook' = [hook EXCEPT ![h] = t]
      /\ UNCHANGED <<batch, alert, incident, subject, tasks>>
  BY DEF IngestDuplicate
<1>3. Before(h) /\ hook[h].pos <= Len(batch[h]) /\ p.fp \in Fingerprints /\ ~Inserting(h)
  BY <1>2, AtItem
<1>4. row.incident \in Links /\ hook[h] \in HookRecs
  BY <1>1, <1>3, ViewType, HookType
<1>5. /\ t \in HookRecs /\ t.step = "ingesting" /\ t.pos = hook[h].pos + 1
      /\ t.links = Append(hook[h].links, row.incident)
      /\ t.writes = hook[h].writes /\ t.open = hook[h].open /\ t.made = hook[h].made
  BY <1>4, NextItemFields
<1> HIDE DEF t
<1>6. hook'[h] = t /\ lock'[p.fp] = h /\ \A f \in Fingerprints \ {p.fp} : lock'[f] = lock[f]
  BY <1>1, <1>2, <1>3 DEF Types
<1>7. Advances(h, row.incident)
  BY <1>3, <1>5, <1>6 DEF Advances
<1>8. Rewrites(h, row.incident)
  BY <1>3, <1>5, <1>6 DEF Rewrites
<1>9. Chooses(h, row.incident, {})
  BY <1>5, <1>6 DEF Chooses
<1> QED
  BY <1>2, <1>3, <1>4, <1>5, <1>7, <1>8, <1>9, HandledItem

\* An item whose digest is not that of the row: the row is written, with its own
\* incident or with a new one.
LEMMA ChangedStep ==
  ASSUME IndInv, NEW h \in Hooks, IngestChanged(h)
  PROVE  IndInv'
<1> DEFINE p == Item(h)
           row == View(h, p.fp)
           active == row.incident \in hook[h].open \/
                     (row.incident # None /\ row.incident \notin hook[h].made
                        /\ incident[row.incident] = "active")
<1>1. Types
  BY DEF IndInv
<1>2. /\ Ingesting(h) /\ Lockable(h, p.fp)
      /\ lock' = [lock EXCEPT ![p.fp] = h]
      /\ UNCHANGED <<batch, alert, incident, subject, tasks>>
  BY DEF IngestChanged
<1> DEFINE opens ==
             \E i \in Incidents :
               /\ Unused(i) /\ \A j \in 1..(i - 1) : ~Unused(j)
               /\ hook' = [hook EXCEPT ![h] = NextItem(Write(Create(@, i), p, i), i)]
           keeps ==
             hook' = [hook EXCEPT ![h] =
                        [NextItem(Write(hook[h], p, row.incident), row.incident)
                           EXCEPT !.open = IF active THEN @ \cup {row.incident} ELSE @]]
<1>3. (p.status = "firing" /\ ~active /\ opens) \/ keeps
  BY Zenon DEF IngestChanged
<1>4. /\ Before(h) /\ hook[h].pos <= Len(batch[h])
      /\ p \in Payload /\ p.fp \in Fingerprints /\ ~Inserting(h)
  BY <1>2, AtItem
<1>5. row.incident \in Links /\ hook[h] \in HookRecs
  BY <1>1, <1>4, ViewType, HookType
<1>6. lock'[p.fp] = h /\ \A f \in Fingerprints \ {p.fp} : lock'[f] = lock[f]
  BY <1>1, <1>2, <1>4 DEF Types
<1>7. ASSUME ~active, opens PROVE IndInv'
  <2>0. PICK i \in Incidents :
          /\ Unused(i)
          /\ hook' = [hook EXCEPT ![h] = NextItem(Write(Create(hook[h], i), p, i), i)]
    BY <1>7
  <2> DEFINE c == Create(hook[h], i)
             w == Write(c, p, i)
             t == NextItem(w, i)
  <2>1. /\ c \in HookRecs /\ c.pos = hook[h].pos
        /\ c.links = hook[h].links /\ c.writes = hook[h].writes
        /\ c.open = hook[h].open \cup {i} /\ c.made = hook[h].made \cup {i}
    BY <1>5, CreateFields
  <2>2. i \in Links
    BY DEF Links
  <2> HIDE DEF c
  <2>3. /\ w \in HookRecs /\ w.pos = c.pos /\ w.links = c.links
        /\ w.open = c.open /\ w.made = c.made
        /\ w.writes[p.fp].start # 0 /\ w.writes[p.fp].incident = i
        /\ \A f \in Fingerprints \ {p.fp} : w.writes[f] = c.writes[f]
    BY <2>1, <2>2, <1>4, WriteFields
  <2> HIDE DEF w
  <2>4. /\ t \in HookRecs /\ t.step = "ingesting" /\ t.pos = w.pos + 1
        /\ t.links = Append(w.links, i)
        /\ t.writes = w.writes /\ t.open = w.open /\ t.made = w.made
    BY <2>2, <2>3, NextItemFields
  <2>5. hook' = [hook EXCEPT ![h] = t]
    BY <2>0 DEF w, c
  <2> HIDE DEF t
  <2>6. hook'[h] = t
    BY <2>5, <1>1 DEF Types
  <2>7. Advances(h, i)
    BY <2>1, <2>3, <2>4, <2>6, <1>4 DEF Advances
  <2>8. Rewrites(h, i)
    BY <2>1, <2>3, <2>4, <2>6, <1>4, <1>6 DEF Rewrites
  <2>9. Chooses(h, i, {i})
    BY <2>0, <2>1, <2>3, <2>4, <2>6, <1>4, <1>7 DEF Chooses
  <2> QED
    BY <2>2, <2>4, <2>5, <2>7, <2>8, <2>9, <1>2, <1>4, HandledItem
<1>8. ASSUME keeps PROVE IndInv'
  <2> DEFINE w == Write(hook[h], p, row.incident)
             x == NextItem(w, row.incident)
             o == IF active THEN x.open \cup {row.incident} ELSE x.open
             t == [x EXCEPT !.open = o]
  <2>1. /\ w \in HookRecs /\ w.pos = hook[h].pos /\ w.links = hook[h].links
        /\ w.open = hook[h].open /\ w.made = hook[h].made
        /\ w.writes[p.fp].start # 0 /\ w.writes[p.fp].incident = row.incident
        /\ \A f \in Fingerprints \ {p.fp} : w.writes[f] = hook[h].writes[f]
    BY <1>4, <1>5, WriteFields
  <2> HIDE DEF w
  <2>2. /\ x \in HookRecs /\ x.step = "ingesting" /\ x.pos = w.pos + 1
        /\ x.links = Append(w.links, row.incident)
        /\ x.writes = w.writes /\ x.open = w.open /\ x.made = w.made
    BY <2>1, <1>5, NextItemFields
  <2>3. hook' = [hook EXCEPT ![h] = t]
    BY <1>8 DEF w
  <2> HIDE DEF x
  <2>4. o \subseteq Incidents /\ x.open \subseteq o
    <3>1. x.open \subseteq Incidents
      BY <2>2 DEF HookRecs
    <3>2. active => row.incident \in Incidents
      BY <1>1, <1>5, HookType DEF Links
    <3> QED
      BY <3>1, <3>2
  <2> HIDE DEF o
  <2>5. /\ t \in HookRecs /\ t.step = x.step /\ t.pos = x.pos /\ t.links = x.links
        /\ t.writes = x.writes /\ t.open = o /\ t.made = x.made
    BY <2>2, <2>4 DEF HookRecs
  <2> HIDE DEF t
  <2>6. hook'[h] = t
    BY <2>3, <1>1 DEF Types
  <2>7. Advances(h, row.incident)
    BY <2>1, <2>2, <2>5, <2>6, <1>4 DEF Advances
  <2>8. Rewrites(h, row.incident)
    BY <2>1, <2>2, <2>5, <2>6, <1>4, <1>6 DEF Rewrites
  <2>9. Chooses(h, row.incident, {})
    BY <2>1, <2>2, <2>4, <2>5, <2>6 DEF Chooses
  <2> QED
    BY <2>3, <2>5, <2>7, <2>8, <2>9, <1>2, <1>4, <1>5, HandledItem
<1> HIDE DEF active, opens, keeps
<1> QED
  BY <1>3, <1>7, <1>8

\* The session has created row and incident for an item it saw no row for.
Prepares(h, link, M) ==
  /\ hook'[h].step = "inserting" /\ hook'[h].pos = hook[h].pos
  /\ hook'[h].links = hook[h].links
  /\ hook'[h].made = hook[h].made \cup M /\ hook'[h].open = hook[h].open \cup M
  /\ \A f \in Fingerprints \ {Item(h).fp} : hook'[h].writes[f] = hook[h].writes[f]
  /\ hook'[h].writes[Item(h).fp].start # 0 /\ hook'[h].writes[Item(h).fp].incident = link
  /\ (M = {} /\ link = None) \/ (M = {link} /\ link \in Incidents /\ Unused(link))

\* A session that is about to insert keeps its invariant.
LEMMA ItemPrepared ==
  ASSUME IndInv, NEW h \in Hooks, NEW link \in Links, NEW M,
         UNCHANGED <<batch, alert, incident, lock>>,
         \A g \in Hooks \ {h} : hook'[g] = hook[g],
         Ingesting(h), View(h, Item(h).fp).start = 0, Prepares(h, link, M)
  PROVE  HookInv(h)'
<1> DEFINE s == hook[h]
           t == hook'[h]
           fp == Item(h).fp
<1>1. Types /\ PlaceInv(h) /\ LinkInv(h) /\ MadeInv(h) /\ WriteInv(h) /\ RowsInv
  BY DEF IndInv, HookInv
<1>2. Before(h) /\ s.pos <= Len(batch[h]) /\ fp \in Fingerprints /\ ~Inserting(h)
  BY AtItem
<1>3. /\ t.step = "inserting" /\ t.pos = s.pos /\ t.links = s.links
      /\ t.made = s.made \cup M /\ t.open = s.open \cup M
      /\ \A f \in Fingerprints \ {fp} : t.writes[f] = s.writes[f]
      /\ t.writes[fp].start # 0 /\ t.writes[fp].incident = link
      /\ (M = {} /\ link = None) \/ (M = {link} /\ link \in Incidents /\ Unused(link))
  BY DEF Prepares
<1>4. s.writes[fp].start = 0 /\ alert[fp].start = 0
  BY DEF View
<1>5. Before(h)' /\ Inserting(h)' /\ Item(h)' = Item(h) /\ fp = Item(h)'.fp
  BY <1>3 DEF Before, Inserting, Item
<1>6. \A i : Committed(i)' <=> Committed(i)
  BY DEF Committed
<1>7. PlaceInv(h)'
  <2>1. hook'[h].writes[Item(h)'.fp].start # 0
    BY <1>3, <1>5
  <2> QED
    BY <2>1, <1>1, <1>2, <1>3, <1>5 DEF PlaceInv
<1>8. \A i \in M : i = link /\ incident[i] = "none" /\ i # None /\ \A g \in Hooks : i \notin hook[g].made
  BY <1>3 DEF Unused, Incidents, None
<1>9. \A k \in DOMAIN s.links : Committed(s.links[k]) \/ s.links[k] \in s.made
  BY <1>1 DEF LinkInv
<1>10. \A k \in DOMAIN s.links : s.links[k] \notin M
  BY <1>8, <1>9 DEF Committed
<1>11. LinkInv(h)'
  <2>1. t.made \subseteq t.open
    BY <1>1, <1>3 DEF LinkInv
  <2>2. \A f \in Fingerprints : Committed(t.writes[f].incident) \/ t.writes[f].incident \in t.made
    BY <1>1, <1>2, <1>3 DEF LinkInv, Committed
  <2>3. ASSUME NEW k \in DOMAIN s.links, s.links[k] \in t.made
        PROVE  t.writes[batch[h][k].fp].start # 0 /\ t.writes[batch[h][k].fp].incident = s.links[k]
    <3>1. s.links[k] \in s.made
      BY <2>3, <1>3, <1>10
    <3>2. s.writes[batch[h][k].fp].start # 0 /\ s.writes[batch[h][k].fp].incident = s.links[k]
      BY <3>1, <1>1, <1>2 DEF LinkInv
    <3>3. k \in 1..Len(batch[h])
      BY <1>1, <1>2, BatchType, HookType DEF PlaceInv
    <3>4. batch[h][k].fp \in Fingerprints \ {fp}
      BY <3>2, <3>3, <1>1, <1>4, BatchType
    <3> QED
      BY <3>2, <3>4, <1>3
  <2> QED
    BY <2>1, <2>2, <2>3, <1>3, <1>5, <1>6, <1>9 DEF LinkInv
<1>12. MadeInv(h)'
  <2>1. ASSUME NEW i \in t.made
        PROVE  incident'[i] = "none" /\ (\A g \in Hooks \ {h} : i \notin hook'[g].made)
    BY <1>1, <1>2, <1>3, <1>8 DEF MadeInv
  <2>2. ASSUME NEW i \in t.made
        PROVE  \/ \E k \in DOMAIN s.links : s.links[k] = i /\ \A j \in 1..(k - 1) : s.links[j] # i
               \/ t.writes[fp].incident = i /\ \A k \in DOMAIN s.links : s.links[k] # i
    <3>1. CASE i \in M
      BY <3>1, <1>3, <1>8, <1>10
    <3>2. CASE i \in s.made
      BY <3>2, <1>1, <1>2 DEF MadeInv, FirstLink
    <3> QED
      BY <3>1, <3>2, <1>3
  <2> QED
    BY <2>1, <2>2, <1>3, <1>5 DEF MadeInv, FirstLink
<1>13. WriteInv(h)'
  <2> SUFFICES ASSUME NEW f \in Fingerprints, t.writes[f].start # 0
               PROVE  /\ lock[f] = h \/ f = fp
                      /\ (lock[f] = h /\ alert[f].incident # None
                            /\ incident[alert[f].incident] = "active")
                           => t.writes[f].incident = alert[f].incident
    BY <1>5 DEF WriteInv
  <2>1. CASE f # fp
    BY <2>1, <1>1, <1>2, <1>3 DEF WriteInv
  <2>2. CASE f = fp
    BY <2>2, <1>1, <1>2, <1>4 DEF RowsInv
  <2> QED
    BY <2>1, <2>2
<1> QED
  BY <1>7, <1>11, <1>12, <1>13 DEF HookInv

\* The invariant after an item is prepared for its insert.
LEMMA PreparedItem ==
  ASSUME IndInv, NEW h \in Hooks, NEW link \in Links, NEW M, NEW t \in HookRecs,
         hook' = [hook EXCEPT ![h] = t],
         UNCHANGED <<batch, alert, incident, subject, lock, tasks>>,
         Ingesting(h), View(h, Item(h).fp).start = 0, Prepares(h, link, M)
  PROVE  IndInv'
<1>1. Types
  BY DEF IndInv
<1>2. hook' \in [Hooks -> HookRecs] /\ \A g \in Hooks \ {h} : hook'[g] = hook[g]
  BY <1>1 DEF Types
<1>3. Types'
  BY <1>1, <1>2 DEF Types
<1>4. HookInv(h)'
  BY <1>2, ItemPrepared
<1>5. \A i \in hook'[h].made : i \in hook[h].made \/ Unused(i)
  BY DEF Prepares
<1> QED
  BY <1>2, <1>3, <1>4, <1>5, UncommittedStep

\* An item for which no row is visible.
LEMMA FirstStep ==
  ASSUME IndInv, NEW h \in Hooks, IngestFirst(h)
  PROVE  IndInv'
<1> DEFINE p == Item(h)
<1>1. Types
  BY DEF IndInv
<1>2. /\ Ingesting(h) /\ View(h, p.fp).start = 0
      /\ UNCHANGED <<batch, alert, incident, subject, lock, tasks>>
  BY DEF IngestFirst
<1>3. \/ \E i \in Incidents :
           /\ Unused(i)
           /\ hook' = [hook EXCEPT ![h] = [Write(Create(hook[h], i), p, i) EXCEPT !.step = "inserting"]]
      \/ hook' = [hook EXCEPT ![h] = [Write(hook[h], p, None) EXCEPT !.step = "inserting"]]
  BY DEF IngestFirst
<1>4. p \in Payload /\ p.fp \in Fingerprints /\ hook[h] \in HookRecs
  BY <1>1, <1>2, AtItem, HookType
<1>5. ASSUME NEW i \in Incidents, Unused(i),
             hook' = [hook EXCEPT ![h] = [Write(Create(hook[h], i), p, i) EXCEPT !.step = "inserting"]]
      PROVE  IndInv'
  <2> DEFINE c == Create(hook[h], i)
             w == Write(c, p, i)
             t == [w EXCEPT !.step = "inserting"]
  <2>1. /\ c \in HookRecs /\ c.pos = hook[h].pos
        /\ c.links = hook[h].links /\ c.writes = hook[h].writes
        /\ c.open = hook[h].open \cup {i} /\ c.made = hook[h].made \cup {i}
    BY <1>4, CreateFields
  <2>2. i \in Links
    BY DEF Links
  <2> HIDE DEF c
  <2>3. /\ w \in HookRecs /\ w.pos = c.pos /\ w.links = c.links
        /\ w.open = c.open /\ w.made = c.made
        /\ w.writes[p.fp].start # 0 /\ w.writes[p.fp].incident = i
        /\ \A f \in Fingerprints \ {p.fp} : w.writes[f] = c.writes[f]
    BY <2>1, <2>2, <1>4, WriteFields
  <2>4. hook' = [hook EXCEPT ![h] = t]
    BY <1>5 DEF c
  <2> HIDE DEF w
  <2>5. /\ t \in HookRecs /\ t.step = "inserting" /\ t.pos = w.pos /\ t.links = w.links
        /\ t.writes = w.writes /\ t.open = w.open /\ t.made = w.made
    BY <2>3 DEF HookRecs
  <2> HIDE DEF t
  <2>6. hook'[h] = t
    BY <2>4, <1>1 DEF Types
  <2>7. Prepares(h, i, {i})
    BY <2>1, <2>3, <2>5, <2>6, <1>5 DEF Prepares
  <2> QED
    BY <2>2, <2>4, <2>5, <2>7, <1>2, PreparedItem
<1>6. ASSUME hook' = [hook EXCEPT ![h] = [Write(hook[h], p, None) EXCEPT !.step = "inserting"]]
      PROVE  IndInv'
  <2> DEFINE w == Write(hook[h], p, None)
             t == [w EXCEPT !.step = "inserting"]
  <2>1. None \in Links
    BY DEF Links
  <2>2. /\ w \in HookRecs /\ w.pos = hook[h].pos /\ w.links = hook[h].links
        /\ w.open = hook[h].open /\ w.made = hook[h].made
        /\ w.writes[p.fp].start # 0 /\ w.writes[p.fp].incident = None
        /\ \A f \in Fingerprints \ {p.fp} : w.writes[f] = hook[h].writes[f]
    BY <2>1, <1>4, WriteFields
  <2>3. hook' = [hook EXCEPT ![h] = t]
    BY <1>6
  <2> HIDE DEF w
  <2>4. /\ t \in HookRecs /\ t.step = "inserting" /\ t.pos = w.pos /\ t.links = w.links
        /\ t.writes = w.writes /\ t.open = w.open /\ t.made = w.made
    BY <2>2 DEF HookRecs
  <2> HIDE DEF t
  <2>5. hook'[h] = t
    BY <2>3, <1>1 DEF Types
  <2>6. Prepares(h, None, {})
    BY <2>2, <2>4, <2>5 DEF Prepares
  <2> QED
    BY <2>1, <2>3, <2>4, <2>6, <1>2, PreparedItem
<1> QED
  BY <1>3, <1>5, <1>6

\* A rollback: nothing of the transaction remains.
LEMMA FailStep ==
  ASSUME IndInv, NEW h \in Hooks, Fail(h)
  PROVE  IndInv'
<1> DEFINE t == [NewHook EXCEPT !.step = "failed"]
<1>1. Types
  BY DEF IndInv
<1>2. /\ hook' = [hook EXCEPT ![h] = t] /\ lock' = Unlock(h)
      /\ UNCHANGED <<batch, alert, incident, subject, tasks>>
  BY DEF Fail
<1>3. t \in HookRecs /\ t.made = {}
  BY NewHookType DEF NewHook
<1> HIDE DEF t
<1>4. hook' \in [Hooks -> HookRecs] /\ hook'[h] = t /\ \A g \in Hooks \ {h} : hook'[g] = hook[g]
  BY <1>1, <1>2, <1>3 DEF Types
<1>5. /\ lock' \in [Fingerprints -> Hooks \cup {None}]
      /\ \A f \in Fingerprints :
           lock'[f] = lock[f] \/ (lock[f] \in {None, h} /\ lock'[f] \in {None, h})
  BY <1>1, <1>2 DEF Types, Unlock
<1>6. Types'
  BY <1>1, <1>2, <1>4, <1>5 DEF Types
<1>7. Restarts(h, "failed")
  BY <1>4 DEF Restarts, t
<1>8. HookInv(h)'
  BY <1>2, <1>7, FreshHook
<1> QED
  BY <1>2, <1>3, <1>4, <1>5, <1>6, <1>8, UncommittedStep

\* The INSERT meets a committed row, or the row is the session's.
LEMMA InsertStep ==
  ASSUME IndInv, NEW h \in Hooks, Insert(h)
  PROVE  IndInv'
<1> DEFINE p == Item(h)
           own == hook[h].writes[p.fp]
           t == NextItem(hook[h], own.incident)
<1>1. Types /\ PlaceInv(h)
  BY DEF IndInv, HookInv
<1>2. Inserting(h) /\ Lockable(h, p.fp)
  BY DEF Insert, Inserting
<1>3. Before(h) /\ hook[h].pos <= Len(batch[h]) /\ p.fp \in Fingerprints
  BY <1>2, AtItem
<1>4. CASE Fail(h)
  BY <1>4, FailStep
<1>5. CASE /\ alert[p.fp].start = 0
           /\ lock' = [lock EXCEPT ![p.fp] = h]
           /\ hook' = [hook EXCEPT ![h] = t]
           /\ UNCHANGED <<batch, alert, incident, subject, tasks>>
  <2>1. own.start # 0
    BY <1>1, <1>2 DEF PlaceInv
  <2>2. own = View(h, p.fp)
    BY <2>1 DEF View
  <2>3. own.incident \in Links /\ hook[h] \in HookRecs
    BY <1>1, <1>3, <2>2, ViewType, HookType
  <2>4. /\ t \in HookRecs /\ t.step = "ingesting" /\ t.pos = hook[h].pos + 1
        /\ t.links = Append(hook[h].links, own.incident)
        /\ t.writes = hook[h].writes /\ t.open = hook[h].open /\ t.made = hook[h].made
    BY <2>3, NextItemFields
  <2>5. hook' = [hook EXCEPT ![h] = t] /\ lock' = [lock EXCEPT ![p.fp] = h]
    BY <1>5
  <2> HIDE DEF t
  <2>6. hook'[h] = t /\ lock'[p.fp] = h /\ \A f \in Fingerprints \ {p.fp} : lock'[f] = lock[f]
    BY <1>1, <1>3, <2>5 DEF Types
  <2>7. Advances(h, own.incident)
    BY <1>3, <2>4, <2>6 DEF Advances
  <2>8. Rewrites(h, own.incident)
    BY <1>3, <1>5, <2>4, <2>6 DEF Rewrites
  <2>9. Chooses(h, own.incident, {})
    BY <2>2, <2>4, <2>6 DEF Chooses
  <2> QED
    BY <1>2, <1>3, <1>5, <2>3, <2>4, <2>5, <2>7, <2>8, <2>9, HandledItem
<1> QED
  BY <1>4, <1>5 DEF Insert

\* The answer 202, and a repetition.
LEMMA RestartStep ==
  ASSUME IndInv, NEW h \in Hooks, Accept(h) \/ Redeliver(h)
  PROVE  IndInv'
<1>1. Types
  BY DEF IndInv
<1>2. UNCHANGED <<batch, alert, incident, subject, lock, tasks>>
  BY DEF Accept, Redeliver
<1>3. PICK st \in {"done", "ingesting"} : hook' = [hook EXCEPT ![h] = [NewHook EXCEPT !.step = st]]
  BY DEF Accept, Redeliver
<1> DEFINE t == [NewHook EXCEPT !.step = st]
<1>4. t \in HookRecs /\ t.made = {}
  BY NewHookType DEF NewHook
<1>5. hook' = [hook EXCEPT ![h] = t]
  BY <1>3
<1> HIDE DEF t
<1>6. hook' \in [Hooks -> HookRecs] /\ hook'[h] = t /\ \A g \in Hooks \ {h} : hook'[g] = hook[g]
  BY <1>1, <1>4, <1>5 DEF Types
<1>7. Types'
  BY <1>1, <1>2, <1>6 DEF Types
<1>8. Restarts(h, st)
  BY <1>6 DEF Restarts, t
<1>9. HookInv(h)'
  BY <1>2, <1>8, FreshHook
<1> QED
  BY <1>2, <1>4, <1>6, <1>7, <1>9, UncommittedStep

\* The item that opened an incident of a transaction that is ready to commit.
LEMMA OpenerFound ==
  ASSUME IndInv, NEW h \in Hooks, hook[h].step = "ingesting", hook[h].pos > Len(batch[h]),
         NEW i \in hook[h].made
  PROVE  /\ Opener(h, i) \in DOMAIN batch[h]
         /\ batch[h][Opener(h, i)] \in Payload
         /\ batch[h][Opener(h, i)].fp \in Fingerprints
         /\ hook[h].writes[batch[h][Opener(h, i)].fp].start # 0
         /\ hook[h].writes[batch[h][Opener(h, i)].fp].incident = i
<1>1. Types /\ PlaceInv(h) /\ LinkInv(h) /\ MadeInv(h)
  BY DEF IndInv, HookInv
<1>2. Before(h) /\ ~Inserting(h)
  BY DEF Before, Inserting
<1>3. DOMAIN hook[h].links = DOMAIN batch[h]
  <2>1. /\ Len(batch[h]) \in Nat /\ DOMAIN batch[h] = 1..Len(batch[h])
        /\ DOMAIN hook[h].links = 1..Len(hook[h].links) /\ Len(hook[h].links) \in Nat
    BY <1>1, BatchType, HookType
  <2>2. hook[h].pos \in 1..(Len(batch[h]) + 1) /\ Len(hook[h].links) = hook[h].pos - 1
    BY <1>1, <1>2 DEF PlaceInv
  <2> QED
    BY <2>1, <2>2
<1>4. \E k \in DOMAIN batch[h] :
        hook[h].links[k] = i /\ \A j \in 1..(k - 1) : hook[h].links[j] # i
  BY <1>1, <1>2, <1>3 DEF MadeInv, FirstLink
<1> DEFINE k == Opener(h, i)
<1>5. k \in DOMAIN batch[h] /\ hook[h].links[k] = i
  BY <1>4 DEF Opener
<1> HIDE DEF k
<1>6. batch[h][k] \in Payload /\ batch[h][k].fp \in Fingerprints
  BY <1>1, <1>5, BatchType
<1>7. hook[h].writes[batch[h][k].fp].start # 0 /\ hook[h].writes[batch[h][k].fp].incident = i
  BY <1>1, <1>2, <1>3, <1>5 DEF LinkInv
<1> QED
  BY <1>5, <1>6, <1>7 DEF k

\* A commit: rows and incidents become visible together.
LEMMA CommitStep ==
  ASSUME IndInv, NEW h \in Hooks, Commit(h)
  PROVE  IndInv'
<1> DEFINE s == hook[h]
           t == [s EXCEPT !.step = "dispatching", !.pos = 1]
<1>1. Types /\ PlaceInv(h) /\ LinkInv(h) /\ MadeInv(h) /\ WriteInv(h) /\ RowsInv
  BY DEF IndInv, HookInv
<1>2. /\ s.step = "ingesting" /\ s.pos > Len(batch[h])
      /\ alert' = [f \in Fingerprints |-> IF s.writes[f].start # 0 THEN s.writes[f] ELSE alert[f]]
      /\ incident' = [i \in Incidents |-> IF i \in s.made THEN "active" ELSE incident[i]]
      /\ subject' = [i \in Incidents |-> IF i \in s.made THEN batch[h][Opener(h, i)] ELSE subject[i]]
      /\ lock' = Unlock(h) /\ batch' = batch /\ tasks' = tasks
  BY DEF Commit
<1>3. hook' = [hook EXCEPT ![h] = t]
  BY <1>1 DEF Commit, Types
<1>4. /\ t \in HookRecs /\ t.step = "dispatching" /\ t.pos = 1 /\ t.made = s.made
      /\ t.open = s.open /\ t.links = s.links
  <2>1. s \in HookRecs
    BY <1>1, HookType
  <2> QED
    BY <2>1 DEF HookRecs
<1> HIDE DEF t
<1>5. hook' \in [Hooks -> HookRecs] /\ hook'[h] = t /\ \A g \in Hooks \ {h} : hook'[g] = hook[g]
  BY <1>1, <1>3, <1>4 DEF Types
<1>6. Before(h) /\ ~Inserting(h)
  BY <1>2 DEF Before, Inserting
<1>7. \A f \in Fingerprints : s.writes[f].start # 0 => lock[f] = h
  BY <1>1, <1>6 DEF WriteInv
<1>8. s.writes \in [Fingerprints -> AlertRecs] /\ s.made \subseteq Incidents
  BY <1>1, HookType
<1>9. \A i \in s.made : incident[i] = "none" /\ \A g \in Hooks \ {h} : i \notin hook[g].made
  BY <1>1, <1>6 DEF MadeInv
<1>10. Types'
  <2>1. lock' \in [Fingerprints -> Hooks \cup {None}]
    BY <1>1, <1>2 DEF Types, Unlock
  <2>2. alert' \in [Fingerprints -> AlertRecs]
    BY <1>1, <1>2, <1>8 DEF Types
  <2>3. incident' \in [Incidents -> {"none", "active", "terminal"}]
    BY <1>1, <1>2 DEF Types
  <2> QED
    BY <2>1, <2>2, <2>3, <1>1, <1>2, <1>5 DEF Types
<1>11. \A i \in Incidents : /\ incident[i] # "none" => incident'[i] = incident[i]
                            /\ i \in s.made => incident'[i] = "active"
                            /\ i \notin s.made => incident'[i] = incident[i] /\ subject'[i] = subject[i]
                            /\ i \in s.made => subject'[i] = batch[h][Opener(h, i)]
  BY <1>2, <1>9
<1>12. \A f \in Fingerprints : alert'[f] = IF s.writes[f].start # 0 THEN s.writes[f] ELSE alert[f]
  BY <1>2
<1>13. \A i \in Links : Committed(i) \/ i \in s.made => Committed(i)'
  BY <1>8, <1>11 DEF Committed, Links
<1>14. ASSUME NEW g \in Hooks \ {h} PROVE HookInv(g)'
  <2>1. g # None /\ g # h
    BY HooksAssumption
  <2>2. \A f \in Fingerprints : (lock'[f] = g) <=> (lock[f] = g)
    BY <2>1, <1>2 DEF Unlock
  <2>3. \A f \in Fingerprints : lock[f] = g => alert'[f] = alert[f]
    BY <2>1, <1>7, <1>12
  <2>4. \A i \in hook[g].made : Before(g) => incident'[i] = incident[i]
    BY <1>1, <1>9, <1>11, HookType
  <2>5. \A k \in Hooks \ {g} : \A i \in hook'[k].made : i \in hook[k].made \/ Unused(i)
    BY <1>4, <1>5
  <2>6. hook'[g] = hook[g] /\ batch' = batch
    BY <1>2, <1>5
  <2>7. \A i \in Incidents : /\ incident[i] # "none" => incident'[i] # "none"
                             /\ incident[i] = "terminal" => incident'[i] = "terminal"
    BY <1>11
  <2> QED
    BY <2>2, <2>3, <2>4, <2>5, <2>6, <2>7, OthersKeep
<1>15. HookInv(h)'
  <2>1. Len(batch[h]) \in Nat /\ Len(s.links) = Len(batch[h])
    BY <1>1, <1>2, <1>6, BatchType DEF PlaceInv
  <2>2. ~Before(h)' /\ ~Inserting(h)'
    BY <1>4, <1>5 DEF Before, Inserting
  <2>3. PlaceInv(h)'
    BY <2>1, <2>2, <1>2, <1>4, <1>5 DEF PlaceInv
  <2>4. \A k \in DOMAIN s.links : Committed(s.links[k])'
    <3>1. \A k \in DOMAIN s.links : s.links[k] \in Links
      BY <1>1, HookType
    <3>2. \A k \in DOMAIN s.links : Committed(s.links[k]) \/ s.links[k] \in s.made
      BY <1>1 DEF LinkInv
    <3>3. ASSUME NEW k \in DOMAIN s.links PROVE s.links[k] = None \/ incident'[s.links[k]] # "none"
      BY <3>1, <3>2, <1>13 DEF Committed
    <3> QED
      BY <3>3, <1>4, <1>5 DEF Committed
  <2>5. LinkInv(h)'
    <3>1. t.made \subseteq t.open
      BY <1>1, <1>4 DEF LinkInv
    <3> QED
      BY <3>1, <2>2, <2>4, <1>4, <1>5 DEF LinkInv
  <2> QED
    BY <2>2, <2>3, <2>5 DEF HookInv, MadeInv, WriteInv
<1>16. RowsInv'
  <2>1. ASSUME NEW f \in Fingerprints
        PROVE  (alert'[f].start = 0 => alert'[f].incident = None) /\ Committed(alert[f].incident)'
    <3>1. alert[f].incident \in Links /\ s.writes[f].incident \in Links
      BY <1>1, ViewType DEF AlertRecs
    <3>2. Committed(alert[f].incident) /\ (Committed(s.writes[f].incident) \/ s.writes[f].incident \in s.made)
      BY <1>1, <1>6 DEF RowsInv, LinkInv
    <3>3. alert'[f].incident = None \/ incident'[alert'[f].incident] # "none"
      BY <3>1, <3>2, <1>12, <1>13 DEF Committed
    <3> QED
      BY <3>3, <1>1, <1>12 DEF Committed, RowsInv
  <2>2. ASSUME NEW i \in Incidents, incident'[i] # "none" PROVE subject'[i] \in Payload
    <3>1. CASE i \in s.made
      BY <3>1, <1>2, <1>11, OpenerFound
    <3>2. CASE i \notin s.made
      BY <3>2, <2>2, <1>1, <1>11 DEF RowsInv
    <3> QED
      BY <3>1, <3>2
  <2>3. ASSUME NEW i \in Incidents, incident'[i] = "active"
        PROVE  alert'[subject'[i].fp].incident = i
    <3>1. CASE i \in s.made
      <4> DEFINE p == batch[h][Opener(h, i)]
      <4>1. p.fp \in Fingerprints /\ s.writes[p.fp].start # 0 /\ s.writes[p.fp].incident = i
        BY <3>1, <1>2, OpenerFound
      <4>2. subject'[i] = p
        BY <3>1, <1>11
      <4> HIDE DEF p
      <4> QED
        BY <4>1, <4>2, <1>12
    <3>2. CASE i \notin s.made
      <4> DEFINE fp == subject[i].fp
      <4>1. incident[i] = "active" /\ subject'[i] = subject[i]
        BY <3>2, <2>3, <1>11
      <4>2. subject[i] \in Payload /\ alert[fp].incident = i
        BY <4>1, <1>1 DEF RowsInv, ActiveIsLinked
      <4>3. fp \in Fingerprints
        BY <4>2 DEF Payload
      <4>4. i # None
        BY DEF Incidents, None
      <4> HIDE DEF fp
      <4>5. s.writes[fp].start # 0 => s.writes[fp].incident = i
        BY <4>1, <4>2, <4>3, <4>4, <1>1, <1>6, <1>7 DEF WriteInv
      <4> QED
        BY <4>1, <4>2, <4>3, <4>5, <1>12 DEF fp
    <3> QED
      BY <3>1, <3>2
  <2>4. \A i \in tasks : incident'[i] # "none"
    BY <1>1, <1>11 DEF RowsInv, TasksFindIncident, Types
  <2> QED
    BY <2>1, <2>2, <2>3, <2>4, <1>2 DEF RowsInv, ActiveIsLinked, TasksFindIncident
<1> QED
  BY <1>10, <1>14, <1>15, <1>16 DEF IndInv

\* A task is sent for an item with an incident.
LEMMA DispatchStep ==
  ASSUME IndInv, NEW h \in Hooks, Dispatch(h)
  PROVE  IndInv'
<1> DEFINE s == hook[h]
           t == [s EXCEPT !.pos = s.pos + 1]
<1>1. Types /\ PlaceInv(h) /\ LinkInv(h) /\ RowsInv
  BY DEF IndInv, HookInv
<1>2. /\ s.step = "dispatching" /\ s.pos <= Len(batch[h])
      /\ tasks' = IF s.links[s.pos] # None THEN tasks \cup {s.links[s.pos]} ELSE tasks
      /\ UNCHANGED <<batch, alert, incident, subject, lock>>
  BY DEF Dispatch
<1>3. hook' = [hook EXCEPT ![h] = t]
  BY <1>1 DEF Dispatch, Types
<1>4. s \in HookRecs /\ s.pos \in Nat /\ s.pos + 1 \in Nat
  BY <1>1, HookType
<1>5. /\ t \in HookRecs /\ t.step = s.step /\ t.pos = s.pos + 1 /\ t.made = s.made
      /\ t.open = s.open /\ t.links = s.links
  BY <1>4 DEF HookRecs
<1> HIDE DEF t
<1>6. hook' \in [Hooks -> HookRecs] /\ hook'[h] = t /\ \A g \in Hooks \ {h} : hook'[g] = hook[g]
  BY <1>1, <1>3, <1>5 DEF Types
<1>7. s.links[s.pos] \in Links /\ Committed(s.links[s.pos])
  <2>1. s.pos \in DOMAIN s.links
    BY <1>1, <1>2, BatchType, HookType DEF PlaceInv
  <2>2. ~Before(h)
    BY <1>2 DEF Before
  <2> QED
    BY <2>1, <2>2, <1>1, HookType DEF LinkInv
<1>8. Types'
  BY <1>1, <1>2, <1>6, <1>7 DEF Types, Links
<1>9. HookInv(h)'
  <2>1. ~Before(h)' /\ ~Inserting(h)' /\ ~Before(h)
    BY <1>2, <1>5, <1>6 DEF Before, Inserting
  <2>2. Len(batch[h]) \in Nat /\ s.pos \in 1..(Len(batch[h]) + 1) /\ Len(s.links) = Len(batch[h])
    BY <1>1, <1>2, BatchType DEF PlaceInv
  <2>3. t.pos \in 1..(Len(batch[h]) + 1)
    BY <2>2, <1>2, <1>4, <1>5
  <2>4. PlaceInv(h)'
    BY <2>1, <2>2, <2>3, <1>2, <1>5, <1>6 DEF PlaceInv
  <2>5. LinkInv(h)'
    BY <2>1, <1>1, <1>2, <1>5, <1>6 DEF LinkInv, Committed
  <2> QED
    BY <2>1, <2>4, <2>5 DEF HookInv, MadeInv, WriteInv
<1>10. ASSUME NEW g \in Hooks \ {h} PROVE HookInv(g)'
  <2>1. hook'[g] = hook[g] /\ \A k \in Hooks \ {g} : \A i \in hook'[k].made : i \in hook[k].made
    BY <1>5, <1>6
  <2> QED
    BY <2>1, <1>2, OthersKeep
<1>11. RowsInv'
  BY <1>1, <1>2, <1>7 DEF RowsInv, ActiveIsLinked, TasksFindIncident, Committed
<1> QED
  BY <1>8, <1>9, <1>10, <1>11 DEF IndInv

\* An incident ends.
LEMMA CloseStep ==
  ASSUME IndInv, NEW i \in Incidents, CloseIncident(i)
  PROVE  IndInv'
<1>1. Types /\ RowsInv
  BY DEF IndInv
<1>2. /\ incident[i] = "active" /\ incident' = [incident EXCEPT ![i] = "terminal"]
      /\ UNCHANGED <<batch, alert, subject, lock, hook, tasks>>
  BY DEF CloseIncident
<1>3. Types'
  BY <1>1, <1>2 DEF Types
<1>4. \A j \in Incidents : incident'[j] = IF j = i THEN "terminal" ELSE incident[j]
  BY <1>1, <1>2 DEF Types
<1>5. ASSUME NEW g \in Hooks PROVE HookInv(g)'
  <2>1. \A j \in hook[g].made : Before(g) => incident'[j] = incident[j]
    BY <1>1, <1>2, <1>4, HookType DEF IndInv, HookInv, MadeInv
  <2>2. \A j \in Incidents : /\ incident[j] # "none" => incident'[j] # "none"
                             /\ incident[j] = "terminal" => incident'[j] = "terminal"
    BY <1>2, <1>4
  <2> QED
    BY <2>1, <2>2, <1>2, OthersKeep
<1>6. \A f \in Fingerprints : Committed(alert[f].incident)'
  <2>1. \A f \in Fingerprints : alert[f].incident \in Links /\ Committed(alert[f].incident)
    BY <1>1, ViewType DEF RowsInv, Types, AlertRecs
  <2> QED
    BY <2>1, <1>2, <1>4 DEF Committed, Links
<1>7. RowsInv'
  BY <1>1, <1>2, <1>4, <1>6 DEF RowsInv, ActiveIsLinked, TasksFindIncident, Types
<1> QED
  BY <1>3, <1>5, <1>7 DEF IndInv

\* The invariant holds initially.
LEMMA InitInv == Init => IndInv
<1> SUFFICES ASSUME Init PROVE IndInv
  OBVIOUS
<1>1. Types
  <2>1. NoAlert \in AlertRecs
    BY DEF NoAlert, AlertRecs, Links
  <2>2. NewHook \in HookRecs
    BY NewHookType
  <2> QED
    BY <2>1, <2>2 DEF Init, Types
<1>2. ASSUME NEW h \in Hooks PROVE HookInv(h)
  <2>1. /\ hook[h].step = "new" /\ hook[h].pos = 1 /\ hook[h].made = {} /\ hook[h].open = {}
        /\ hook[h].links = <<>>
        /\ \A f \in Fingerprints : hook[h].writes[f].start = 0 /\ hook[h].writes[f].incident = None
    BY DEF Init, NewHook, NoAlert
  <2>2. Len(hook[h].links) = 0 /\ DOMAIN hook[h].links = {}
    BY <2>1
  <2>3. PlaceInv(h)
    BY <2>1, <2>2, <1>1, BatchType DEF PlaceInv, Inserting
  <2> QED
    BY <2>1, <2>2, <2>3 DEF HookInv, LinkInv, MadeInv, WriteInv, Committed
<1>3. RowsInv
  BY DEF Init, RowsInv, NoAlert, Committed, ActiveIsLinked, TasksFindIncident
<1> QED
  BY <1>1, <1>2, <1>3 DEF IndInv

\* Every step keeps the invariant.
LEMMA NextInv == IndInv /\ [Next]_vars => IndInv'
<1> SUFFICES ASSUME IndInv, [Next]_vars PROVE IndInv'
  OBVIOUS
<1>1. ASSUME NEW h \in Hooks, Handle(h) \/ Break(h) \/ Redeliver(h) PROVE IndInv'
  BY <1>1, DuplicateStep, ChangedStep, FirstStep, InsertStep, FailStep, CommitStep, DispatchStep,
     RestartStep DEF Handle, Ingest, BreakDeadlock, Break
<1>2. ASSUME NEW i \in Incidents, CloseIncident(i) PROVE IndInv'
  BY <1>2, CloseStep
<1>3. CASE UNCHANGED vars
  BY <1>3 DEF vars, IndInv, Types, HookInv, PlaceInv, LinkInv, MadeInv, WriteInv, FirstLink,
     RowsInv, Before, Inserting, Item, Committed, ActiveIsLinked, TasksFindIncident
<1> QED
  BY <1>1, <1>2, <1>3 DEF Next

\* The parts of the invariant give the properties.
LEMMA InvSound == IndInv => IntakeIsSound /\ ActiveIsLinked
<1> SUFFICES ASSUME IndInv PROVE IntakeIsSound /\ ActiveIsLinked
  OBVIOUS
<1>1. Types /\ RowsInv
  BY DEF IndInv
<1>2. \A f \in Fingerprints : /\ alert[f].start \in Nat
                              /\ alert[f].status \in {"firing", "resolved"}
                              /\ alert[f].incident \in Incidents \cup {None}
  BY <1>1 DEF Types, AlertRecs, Links
<1>3. \A h \in Hooks :
        /\ hook[h].step \in {"new", "ingesting", "inserting", "dispatching", "done", "failed"}
        /\ hook[h].pos \in 1..(Len(batch[h]) + 1)
  BY <1>1, HookType DEF IndInv, HookInv, PlaceInv
<1>4. TypeOK
  BY <1>1, <1>2, <1>3 DEF TypeOK, Types
<1> QED
  BY <1>1, <1>4 DEF IntakeIsSound, RowsInv

-----------------------------------------------------------------------------
\* Rows, sessions and locks of the webhook keep their types, and a task is sent
\* only for an incident that is committed (webhooks.py: commit, then send).
THEOREM IntakeStaysSound == Spec => []IntakeIsSound
<1>1. Init => IndInv
  BY InitInv
<1>2. IndInv /\ [Next]_vars => IndInv'
  BY NextInv
<1>3. IndInv => IntakeIsSound
  BY InvSound
<1> QED
  BY <1>1, <1>2, <1>3, PTL DEF Spec

\* However many deliveries overlap, fail or are repeated, an active incident is
\* the one the row of its alert names (_ingest_one under the row's lock).
THEOREM ActiveStaysLinked == Spec => []ActiveIsLinked
<1>1. Init => IndInv
  BY InitInv
<1>2. IndInv /\ [Next]_vars => IndInv'
  BY NextInv
<1>3. IndInv => ActiveIsLinked
  BY InvSound
<1> QED
  BY <1>1, <1>2, <1>3, PTL DEF Spec
=============================================================================
