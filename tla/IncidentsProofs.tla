--------------------------- MODULE IncidentsProofs ---------------------------
(***************************************************************************)
(* Proofs about correlation and incidents, for any number of alerts,       *)
(* correlators, incidents, faults, edits and merges at once, whatever      *)
(* asset and tactics the alerts have and whenever sweeps run.              *)
(***************************************************************************)
EXTENDS Incidents, FiniteSetTheorems, TLAPS

\* The documents of the collections and the states of a merge.
AlertDocs == [present : BOOLEAN, at : Nat,
              incident_id : {None} \cup {ById(n) : n \in IncidentIds}
                                   \cup {ByKey(n) : n \in IncidentIds}]
IncidentDocs == [present : BOOLEAN, alert_ids : SUBSET Alerts, made_of : SUBSET Alerts]
Merges == [pc : {"none", "loop", "delete"}, primary : 0 .. MaxIncidents,
           secondary : 0 .. MaxIncidents, ids : SUBSET Alerts]

\* The types: TypeOK with those of the merge's parts, and the fact that a
\* correlator that marks alerts has an incident to mark them with.
CountsTyped ==
    /\ up \in BOOLEAN
    /\ budget \in Budgets
    /\ now \in 0 .. budget.now /\ due \in BOOLEAN
    /\ created \in 0 .. MaxAlerts
    /\ made \in 0 .. MaxIncidents
    /\ faults \in 0 .. budget.faults /\ edits \in 0 .. budget.edits
    /\ merges \in 0 .. budget.merges
AlertsTyped == alert \in [Alerts -> AlertDocs]
IncidentsTyped == incident \in [IncidentIds -> IncidentDocs]
QueueTyped == queue \in Seq(Alerts) /\ Len(queue) <= QueueCap /\ asked \subseteq Alerts
JobsTyped ==
    /\ pc \in [Correlators -> {"idle", "create", "mark"}]
    /\ cand \in [Correlators -> SUBSET Alerts]
    /\ inc \in [Correlators -> 0 .. MaxIncidents]
    /\ \A w \in Correlators : pc[w] = "mark" => inc[w] \in IncidentIds
MergeTyped ==
    /\ merge \in [Mergers -> Merges]
    /\ unmade \subseteq IncidentIds /\ clash \in BOOLEAN
TypeInv ==
    CountsTyped /\ AlertsTyped /\ IncidentsTyped /\ QueueTyped /\ JobsTyped /\ MergeTyped

\* The requests that are merging.
Active == {m \in Mergers : merge[m].pc # "none"}

\* Incidents that are not made yet are not there, and merges are about incidents
\* that are made.
MergeSane ==
    /\ \A n \in IncidentIds : Live(n) => n <= made
    /\ \A m \in Mergers : merge[m].pc = "none" => merge[m] = NoMerge
    /\ \A m \in Active : merge[m].primary \in 1 .. made
    /\ \A m \in Mergers : merge[m].pc = "delete" => merge[m].secondary \in 1 .. made

\* The primary is there and lists nothing that its merge does not carry.
PrimarySafe ==
    \A m \in Active :
        Live(merge[m].primary) /\ incident[merge[m].primary].alert_ids \subseteq merge[m].ids

\* No two merges have one primary, and none deletes a primary.
PrimariesApart ==
    /\ \A m, x \in Active : merge[m].primary = merge[x].primary => m = x
    /\ \A m, x \in Active : merge[m].pc = "delete" => merge[m].secondary # merge[x].primary

\* What is about to be deleted lists nothing that its merge does not carry.
SecondaryCarried ==
    \A m \in Mergers :
        merge[m].pc = "delete" => incident[merge[m].secondary].alert_ids \subseteq merge[m].ids

Quiet == faults = 0 /\ ~clash

MergeInv ==
    /\ MergeSane
    /\ Quiet => PrimarySafe /\ PrimariesApart /\ SecondaryCarried
    /\ MergeKeepsAlerts

\* The incidents made of an alert, and the correlators that are about to make
\* one of it or still have to mark it.
MadeOf(a) == {n \in IncidentIds : a \in incident[n].made_of}
At(step, a) == {w \in Correlators : pc[w] = step /\ a \in cand[w]}

K == Cardinality(Correlators)

\* An alert that is not made yet is in no incident and in no correlator's hands.
FreshInv ==
    \A a \in Alerts :
        /\ Here(a) => a <= created
        /\ a > created => MadeOf(a) = {} /\ \A w \in Correlators : a \notin cand[w]

\* An alert that still has no incident_id has no more incidents than there are
\* correlators that will mark it, apart from those whose mark a fault lost; and
\* only such an alert gets new correlators that make an incident of it.
Bounded(a) ==
    /\ Cardinality(MadeOf(a)) + Cardinality(At("create", a)) <= K * (faults + 1)
    /\ Here(a) /\ alert[a].incident_id = None =>
         Cardinality(MadeOf(a)) <= K * faults + Cardinality(At("mark", a))

DuplicatesInv == FreshInv /\ \A a \in Alerts : Bounded(a)

-----------------------------------------------------------------------------
(* Types. *)

\* What the assumption says of the bounds.
LEMMA Bounds ==
    /\ MaxAlerts \in Nat /\ QueueCap \in Nat /\ MaxIncidents \in Nat
    /\ IsFiniteSet(Correlators) /\ K \in Nat
BY IncidentsAssumption, FS_CardinalityType DEF K

\* What it says of the bounds of a behaviour.
LEMMA BudgetBounds ==
    ASSUME NEW b \in Budgets
    PROVE  b.now \in Nat /\ b.faults \in Nat /\ b.edits \in Nat /\ b.merges \in Nat
<1>1. b \in [now : Nat, faults : Nat, edits : Nat, merges : Nat]
  BY IncidentsAssumption
<1> QED BY <1>1

\* The counts of a state are numbers.
LEMMA Counts ==
    ASSUME CountsTyped
    PROVE  /\ now \in Nat /\ created \in Nat /\ made \in Nat
           /\ faults \in Nat /\ edits \in Nat /\ merges \in Nat
BY Bounds, BudgetBounds DEF CountsTyped

\* Submit keeps the queue within its length (CorrelationPool.Submit).
LEMMA SubmitOK ==
    ASSUME NEW a \in Alerts, QueueTyped, Submit(a), UNCHANGED asked
    PROVE  QueueTyped'
BY Bounds DEF Submit, QueueTyped

\* Taking an alert, from the queue or from those asked for, keeps both typed.
LEMMA TakesOK ==
    ASSUME NEW w \in Correlators, NEW a \in Alerts, QueueTyped, Takes(w, a)
    PROVE  QueueTyped'
<1> USE DEF QueueTyped
<1>1. CASE queue # << >> /\ queue' = Tail(queue) /\ UNCHANGED asked
  BY <1>1, Bounds
<1>2. CASE asked' = asked \ {a} /\ UNCHANGED queue
  BY <1>2
<1> QED BY <1>1, <1>2 DEF Takes


\* At first nothing is there.
LEMMA InitTypeInv == Init => TypeInv
<1> SUFFICES ASSUME Init PROVE TypeInv
  OBVIOUS
<1> USE Bounds DEF Init
<1>1. CountsTyped
  <2>1. budget.now \in Nat /\ budget.faults \in Nat /\ budget.edits \in Nat /\ budget.merges \in Nat
    BY BudgetBounds
  <2>2. /\ now = 0 /\ created = 0 /\ made = 0 /\ faults = 0 /\ edits = 0 /\ merges = 0
        /\ budget \in Budgets /\ up \in BOOLEAN /\ due \in BOOLEAN
    OBVIOUS
  <2> HIDE DEF Init
  <2> QED BY <2>1, <2>2 DEF CountsTyped
<1>4. MergeTyped
  <2>1. NoMerge \in Merges
    BY DEF NoMerge, Merges
  <2> QED BY <2>1 DEF MergeTyped
<1>2. AlertsTyped /\ IncidentsTyped
  BY DEF AlertsTyped, IncidentsTyped, AlertDocs, IncidentDocs
<1>3. QueueTyped /\ JobsTyped
  BY DEF QueueTyped, JobsTyped
<1> QED BY <1>1, <1>2, <1>3, <1>4 DEF TypeInv

\* The counters keep to their bounds.
LEMMA NextCountsTyped ==
    ASSUME CountsTyped, [Next]_vars
    PROVE  CountsTyped'
<1> USE Bounds DEF CountsTyped, timeVars, mergeVars
<1> budget.now \in Nat /\ budget.faults \in Nat /\ budget.edits \in Nat /\ budget.merges \in Nat
  BY BudgetBounds
<1>1. CASE CreateAlert
  BY <1>1 DEF CreateAlert
<1>2. CASE Sweep
  <2>1. faults' \in 0 .. budget.faults
    BY <1>2 DEF Sweep, Fault
  <2> QED BY <1>2, <2>1 DEF Sweep
<1>3. ASSUME NEW w \in Correlators, NEW a \in Alerts, TriggerCorrelation(w, a)
      PROVE  CountsTyped'
  BY <1>3 DEF TriggerCorrelation, Fault
<1>4. ASSUME NEW w \in Correlators, NEW a \in Alerts, MarkAlert(w, a) PROVE CountsTyped'
  BY <1>4 DEF MarkAlert, Fault
<1>5. ASSUME NEW w \in Correlators, CreateAutoIncident(w) PROVE CountsTyped'
  BY <1>5 DEF CreateAutoIncident, Fault
<1>6. ASSUME NEW a \in Alerts,
             AskCorrelation(a) \/ DeleteAlert(a) \/ \E n \in IncidentIds : LinkIncident(a, n)
      PROVE  CountsTyped'
  BY <1>6 DEF AskCorrelation, DeleteAlert, LinkIncident, Edit
<1>7. CASE CreateIncident
  BY <1>7 DEF CreateIncident, Edit
<1>8. ASSUME NEW m \in Mergers, NEW n \in IncidentIds, MergeReads(m, n) \/ MergeTakes(m, n)
      PROVE  CountsTyped'
  BY <1>8 DEF MergeReads, MergeTakes
<1>9. ASSUME NEW m \in Mergers, MergeDeletes(m) \/ MergeWrites(m) PROVE CountsTyped'
  BY <1>9 DEF MergeDeletes, MergeWrites, Fault
<1>10. CASE Crash
  <2>1. faults' \in 0 .. budget.faults
    BY <1>10 DEF Crash, Fault
  <2> QED BY <1>10, <2>1 DEF Crash
<1>11. CASE Start \/ UNCHANGED vars
  BY <1>11 DEF Start, vars
<1>12. CASE Tick
  <2>1. now' \in 0 .. budget.now
    BY <1>12 DEF Tick
  <2>2. due' \in BOOLEAN
    BY <1>12 DEF Tick
  <2> QED BY <1>12, <2>1, <2>2 DEF Tick
<1> QED
  BY <1>1, <1>2, <1>3, <1>4, <1>5, <1>6, <1>7, <1>8, <1>9, <1>10, <1>11, <1>12
  DEF Next, Correlates

\* The variables keep their types.
LEMMA NextTypeInv ==
    ASSUME TypeInv, [Next]_vars
    PROVE  TypeInv'
<1> USE Bounds DEF jobVars, mergeVars
<1>0. CountsTyped'
  BY NextCountsTyped DEF TypeInv
<1> USE <1>0 DEF TypeInv
<1>1. CASE CreateAlert
  <2>1. created' \in Alerts
    BY <1>1 DEF CreateAlert, Alerts, CountsTyped
  <2>2. QueueTyped'
    BY <1>1, <2>1, SubmitOK DEF CreateAlert
  <2>3. \A at \in Nat : [present |-> TRUE, at |-> at, incident_id |-> None] \in AlertDocs
    BY DEF AlertDocs
  <2>4. AlertsTyped'
    BY <1>1, <2>1, <2>3 DEF CreateAlert, AlertsTyped
  <2> QED
    BY <1>1, <2>2, <2>4 DEF CreateAlert, IncidentsTyped, JobsTyped, MergeTyped
<1>2. CASE Sweep
  <2>1. QueueTyped'
    BY <1>2 DEF Sweep, QueueTyped
  <2> QED BY <1>2, <2>1 DEF Sweep, AlertsTyped, IncidentsTyped, JobsTyped, MergeTyped
<1>3. ASSUME NEW w \in Correlators, NEW a \in Alerts, TriggerCorrelation(w, a) PROVE TypeInv'
  <2>1. QueueTyped'
    BY <1>3, TakesOK DEF TriggerCorrelation
  <2>2. Correlated(a) \subseteq Alerts
    BY DEF Correlated
  <2>3. JobsTyped'
    BY <1>3, <2>2 DEF TriggerCorrelation, JobsTyped
  <2> QED
    BY <1>3, <2>1, <2>3 DEF TriggerCorrelation, AlertsTyped, IncidentsTyped, MergeTyped
<1>4. ASSUME NEW w \in Correlators, NEW a \in Alerts, MarkAlert(w, a) PROVE TypeInv'
  <2>1. inc[w] \in IncidentIds
    BY <1>4 DEF MarkAlert, JobsTyped
  <2>2. [alert[a] EXCEPT !.incident_id = ById(inc[w])] \in AlertDocs
    BY <2>1 DEF AlertDocs, AlertsTyped
  <2>3. AlertsTyped'
    BY <1>4, <2>2 DEF MarkAlert, AlertsTyped
  <2>4. JobsTyped'
    BY <1>4, <2>1 DEF MarkAlert, JobsTyped
  <2> QED BY <1>4, <2>3, <2>4 DEF MarkAlert, IncidentsTyped, QueueTyped, MergeTyped
<1>5. ASSUME NEW w \in Correlators, CreateAutoIncident(w) PROVE TypeInv'
  <2>1. made + 1 \in IncidentIds
    BY <1>5 DEF CreateAutoIncident, CountsTyped, IncidentIds
  <2>2. [present |-> TRUE, alert_ids |-> cand[w], made_of |-> cand[w]] \in IncidentDocs
    BY DEF IncidentDocs, JobsTyped
  <2>3. IncidentsTyped'
    BY <1>5, <2>1, <2>2 DEF CreateAutoIncident, IncidentsTyped
  <2>4. JobsTyped'
    BY <1>5, <2>1 DEF CreateAutoIncident, JobsTyped, IncidentIds
  <2>5. MergeTyped'
    BY <1>5, <2>1 DEF CreateAutoIncident, MergeTyped
  <2> QED BY <1>5, <2>3, <2>4, <2>5 DEF CreateAutoIncident, AlertsTyped, QueueTyped
<1>6. ASSUME NEW a \in Alerts, AskCorrelation(a) PROVE TypeInv'
  <2>1. QueueTyped'
    BY <1>6 DEF AskCorrelation, QueueTyped
  <2> QED
    BY <1>6, <2>1 DEF AskCorrelation, AlertsTyped, IncidentsTyped, JobsTyped, MergeTyped
<1>7. ASSUME NEW a \in Alerts, DeleteAlert(a) PROVE TypeInv'
  <2>1. [alert[a] EXCEPT !.present = FALSE] \in AlertDocs
    BY DEF AlertDocs, AlertsTyped
  <2>2. AlertsTyped'
    BY <1>7, <2>1 DEF DeleteAlert, AlertsTyped
  <2> QED BY <1>7, <2>2 DEF DeleteAlert, IncidentsTyped, QueueTyped, JobsTyped, MergeTyped
<1>8. ASSUME NEW a \in Alerts, NEW n \in IncidentIds, LinkIncident(a, n) PROVE TypeInv'
  <2>1. [alert[a] EXCEPT !.incident_id = ByKey(n)] \in AlertDocs
    BY DEF AlertDocs, AlertsTyped
  <2>2. AlertsTyped'
    BY <1>8, <2>1 DEF LinkIncident, AlertsTyped
  <2> QED BY <1>8, <2>2 DEF LinkIncident, IncidentsTyped, QueueTyped, JobsTyped, MergeTyped
<1>9. CASE CreateIncident
  <2>1. made + 1 \in IncidentIds
    BY <1>9 DEF CreateIncident, CountsTyped, IncidentIds
  <2>2. [incident[made + 1] EXCEPT !.present = TRUE] \in IncidentDocs
    BY <2>1 DEF IncidentDocs, IncidentsTyped
  <2>3. IncidentsTyped'
    BY <1>9, <2>1, <2>2 DEF CreateIncident, IncidentsTyped
  <2> QED BY <1>9, <2>3 DEF CreateIncident, AlertsTyped, QueueTyped, JobsTyped, MergeTyped
<1>10. ASSUME NEW m \in Mergers, NEW n \in IncidentIds, MergeReads(m, n) \/ MergeTakes(m, n)
       PROVE  TypeInv'
  <2>1. incident[n].alert_ids \subseteq Alerts /\ merge[m] \in Merges /\ n \in 0 .. MaxIncidents
    BY DEF IncidentsTyped, IncidentDocs, MergeTyped, IncidentIds
  <2>2. merge' \in [Mergers -> Merges]
    <3>1. CASE MergeReads(m, n)
      BY <2>1, <3>1 DEF MergeReads, MergeTyped, Merges
    <3>2. CASE MergeTakes(m, n)
      <4>1. merge'[m] = [pc |-> "delete", primary |-> merge[m].primary, secondary |-> n,
                         ids |-> merge[m].ids \cup incident[n].alert_ids]
        BY <2>1, <3>2 DEF MergeTakes, MergeTyped, Merges
      <4>2. merge'[m] \in Merges
        BY <2>1, <4>1 DEF Merges
      <4>3. /\ \A x \in Mergers \ {m} : merge'[x] = merge[x]
            /\ DOMAIN merge' = Mergers /\ merge' = [x \in Mergers |-> merge'[x]]
        BY <3>2 DEF MergeTakes, MergeTyped
      <4> QED BY <4>2, <4>3 DEF MergeTyped
    <3> QED BY <1>10, <3>1, <3>2
  <2>3. clash' \in BOOLEAN /\ UNCHANGED unmade
    BY <1>10 DEF MergeReads, MergeTakes, MergeTyped
  <2> QED
    BY <1>10, <2>2, <2>3
    DEF MergeReads, MergeTakes, MergeTyped, AlertsTyped, IncidentsTyped, QueueTyped, JobsTyped
<1>11. ASSUME NEW m \in Mergers, MergeDeletes(m) PROVE TypeInv'
  <2>1. MergeTyped'
    BY <1>11 DEF MergeDeletes, MergeTyped, Merges
  <2>2. \A n \in IncidentIds : [incident[n] EXCEPT !.present = FALSE] \in IncidentDocs
    BY DEF IncidentsTyped, IncidentDocs
  <2>3. IncidentsTyped'
    BY <1>11, <2>2 DEF MergeDeletes, IncidentsTyped
  <2> QED BY <1>11, <2>1, <2>3 DEF MergeDeletes, AlertsTyped, QueueTyped, JobsTyped
<1>12. ASSUME NEW m \in Mergers, MergeWrites(m) PROVE TypeInv'
  <2>1. MergeTyped'
    BY <1>12 DEF MergeWrites, MergeTyped, Merges, NoMerge
  <2>2. \A n \in IncidentIds : [incident[n] EXCEPT !.alert_ids = merge[m].ids] \in IncidentDocs
    BY DEF IncidentsTyped, IncidentDocs, MergeTyped, Merges
  <2>3. IncidentsTyped'
    BY <1>12, <2>2 DEF MergeWrites, IncidentsTyped
  <2> QED BY <1>12, <2>1, <2>3 DEF MergeWrites, AlertsTyped, QueueTyped, JobsTyped
<1>13. CASE Crash
  <2>1. QueueTyped' /\ JobsTyped'
    BY <1>13 DEF Crash, QueueTyped, JobsTyped
  <2>2. MergeTyped'
    BY <1>13 DEF Crash, MergeTyped, Merges, NoMerge
  <2> QED BY <1>13, <2>1, <2>2 DEF Crash, AlertsTyped, IncidentsTyped
<1>14. CASE Start \/ Tick \/ UNCHANGED vars
  BY <1>14 DEF Start, Tick, vars, AlertsTyped, IncidentsTyped, QueueTyped, JobsTyped, MergeTyped
<1> QED
  BY <1>1, <1>2, <1>3, <1>4, <1>5, <1>6, <1>7, <1>8, <1>9, <1>10, <1>11, <1>12, <1>13, <1>14
  DEF Next, Correlates

\* Every variable keeps its type: the pool's queue never grows past its length,
\* and an alert is marked with an incident that was made (CorrelationPool.Submit,
\* autoAggregateIncident).
THEOREM TypeCorrect == Spec => []TypeOK
<1>1. TypeInv => TypeOK
  BY DEF TypeInv, TypeOK, CountsTyped, AlertsTyped, IncidentsTyped, QueueTyped, JobsTyped,
         MergeTyped, AlertDocs, IncidentDocs, Merges
<1> QED BY <1>1, InitTypeInv, NextTypeInv, PTL DEF Spec

-----------------------------------------------------------------------------
(* Merging. *)

\* At first there is neither an incident nor a merge.
LEMMA InitMergeInv == Init => MergeInv
<1> SUFFICES ASSUME Init PROVE MergeInv
  OBVIOUS
<1> USE DEF Init, NoMerge
<1>1. Active = {} /\ \A m \in Mergers : merge[m].pc # "delete"
  BY DEF Active
<1>2. MergeSane
  BY <1>1 DEF MergeSane, Live
<1>3. PrimarySafe /\ PrimariesApart /\ SecondaryCarried
  BY <1>1 DEF PrimarySafe, PrimariesApart, SecondaryCarried
<1>4. MergeKeepsAlerts
  BY DEF MergeKeepsAlerts
<1> QED BY <1>2, <1>3, <1>4 DEF MergeInv

\* An alert that some incident lists, or that a merge under way carries.
Listed(a) == \/ \E k \in IncidentIds : Live(k) /\ a \in incident[k].alert_ids
             \/ \E m \in Mergers : a \in merge[m].ids /\ Live(merge[m].primary)

\* In a state without faults and clashes every alert of an incident is listed.
LEMMA QuietListed ==
    ASSUME MergeInv, Quiet, NEW n \in IncidentIds, NEW a \in incident[n].made_of
    PROVE  Listed(a)
BY DEF MergeInv, MergeKeepsAlerts, Listed, Quiet

\* Faults and clashes are not taken back.
LEMMA QuietBefore ==
    ASSUME TypeInv, faults' = faults \/ Fault, clash => clash', Quiet'
    PROVE  Quiet /\ faults' = faults
<1>1. faults \in Nat
  BY Counts DEF TypeInv
<1> QED BY <1>1 DEF Quiet, Fault

\* The incidents of a merge are among those there may be.
LEMMA MergeIds ==
    ASSUME TypeInv, MergeSane, NEW m \in Mergers
    PROVE  /\ merge[m].pc # "none" =>
                merge[m].primary \in IncidentIds /\ merge[m].primary <= made
           /\ merge[m].pc = "delete" =>
                merge[m].secondary \in IncidentIds /\ merge[m].secondary <= made
BY Bounds DEF MergeSane, Active, TypeInv, CountsTyped, IncidentIds

\* A step that leaves incidents and merges alone keeps MergeInv.
LEMMA MergeInvUnchanged ==
    ASSUME TypeInv, MergeInv, UNCHANGED <<incident, merge, made, clash>>,
           faults' = faults \/ Fault
    PROVE  MergeInv'
<1>1. MergeSane'
  BY DEF MergeInv, MergeSane, Live, Active, NoMerge
<1>2. ASSUME Quiet' PROVE Quiet
  BY <1>2, QuietBefore
<1>3. Quiet' => (PrimarySafe /\ PrimariesApart /\ SecondaryCarried)'
  BY <1>2 DEF MergeInv, PrimarySafe, PrimariesApart, SecondaryCarried, Live, Active
<1>4. MergeKeepsAlerts'
  BY <1>2 DEF MergeInv, MergeKeepsAlerts, Quiet, Live
<1> QED BY <1>1, <1>3, <1>4 DEF MergeInv

\* A new incident takes a number that no incident of a merge has.
LEMMA MergeInvNew ==
    ASSUME TypeInv, MergeInv, made + 1 \in IncidentIds, made' = made + 1,
           UNCHANGED <<merge, clash>>, faults' = faults \/ Fault,
           \A n \in IncidentIds : n # made + 1 => incident'[n] = incident[n],
           \/ incident'[made + 1] = incident[made + 1]
           \/ /\ incident'[made + 1].present
              /\ \/ incident'[made + 1].made_of = incident[made + 1].made_of
                 \/ incident'[made + 1].made_of = incident'[made + 1].alert_ids
    PROVE  MergeInv'
<1> made \in Nat /\ MaxIncidents \in Nat
  BY Bounds, Counts DEF TypeInv
<1> MergeSane
  BY DEF MergeInv
<1>1. MergeSane'
  <2>1. \A n \in IncidentIds : Live(n)' => n <= made'
    BY DEF MergeSane, Live, IncidentIds
  <2>2. 1 .. made \subseteq 1 .. made' /\ Active' = Active
    BY DEF Active
  <2> QED BY <2>1, <2>2 DEF MergeSane, NoMerge
<1>2. \A m \in Mergers : merge[m].pc # "none" =>
         merge[m].primary \in IncidentIds /\ incident'[merge[m].primary] = incident[merge[m].primary]
  BY MergeIds DEF IncidentIds
<1>3. \A m \in Mergers : merge[m].pc = "delete" =>
         incident'[merge[m].secondary] = incident[merge[m].secondary]
  BY MergeIds DEF IncidentIds
<1>4. ASSUME Quiet' PROVE (PrimarySafe /\ PrimariesApart /\ SecondaryCarried)'
  <2>1. PrimarySafe /\ PrimariesApart /\ SecondaryCarried
    BY <1>4, QuietBefore DEF MergeInv
  <2>2. PrimarySafe'
    BY <1>2, <2>1 DEF PrimarySafe, Active, Live
  <2>3. PrimariesApart'
    BY <2>1 DEF PrimariesApart, Active
  <2>4. SecondaryCarried'
    BY <1>3, <2>1 DEF SecondaryCarried
  <2> QED BY <2>2, <2>3, <2>4
<1>5. MergeKeepsAlerts'
  <2> SUFFICES ASSUME Quiet', NEW n \in IncidentIds, NEW a \in incident'[n].made_of
               PROVE  Listed(a)'
    BY DEF MergeKeepsAlerts, Listed, Quiet
  <2>1. Quiet
    BY QuietBefore
  <2>2. CASE a \in incident[n].made_of
    <3>1. Listed(a)
      BY <2>1, <2>2, QuietListed
    <3>2. ASSUME NEW k \in IncidentIds, Live(k), a \in incident[k].alert_ids
          PROVE  Listed(a)'
      <4>1. k # made + 1
        BY <3>2 DEF MergeSane
      <4> QED BY <3>2, <4>1 DEF Listed, Live
    <3>3. ASSUME NEW m \in Mergers, a \in merge[m].ids, Live(merge[m].primary)
          PROVE  Listed(a)'
      <4>1. merge[m].pc # "none"
        BY <3>3 DEF MergeSane, NoMerge
      <4> QED BY <1>2, <3>3, <4>1 DEF Listed, Live
    <3> QED BY <3>1, <3>2, <3>3 DEF Listed
  <2>3. CASE a \notin incident[n].made_of
    <3>1. n = made + 1 /\ incident'[n].present /\ a \in incident'[n].alert_ids
      BY <2>3
    <3> QED BY <3>1 DEF Listed, Live
  <2> QED BY <2>2, <2>3
<1> QED BY <1>1, <1>4, <1>5 DEF MergeInv

\* A merge starts with a primary that no merge writes or deletes, or clashes.
LEMMA MergeReadsInv ==
    ASSUME TypeInv, MergeInv, NEW m \in Mergers, NEW p \in IncidentIds, MergeReads(m, p)
    PROVE  MergeInv'
<1>1. /\ merge[m].pc = "none" /\ Live(p) /\ UNCHANGED <<incident, made, faults>>
      /\ clash' = (clash \/ \E x \in Mergers : p \in {merge[x].primary, merge[x].secondary})
  BY DEF MergeReads
<1>2. /\ merge'[m] = [pc |-> "loop", primary |-> p, secondary |-> 0, ids |-> incident[p].alert_ids]
      /\ \A x \in Mergers \ {m} : merge'[x] = merge[x]
  BY DEF MergeReads, TypeInv, MergeTyped
<1>3. merge[m] = NoMerge /\ p \in 1 .. made
  BY <1>1 DEF MergeInv, MergeSane, IncidentIds
<1>4. MergeSane'
  BY <1>1, <1>2, <1>3 DEF MergeInv, MergeSane, Active, Live, NoMerge
<1>5. ASSUME Quiet' PROVE (PrimarySafe /\ PrimariesApart /\ SecondaryCarried)'
  <2>1. Quiet /\ \A x \in Mergers : p # merge[x].primary /\ p # merge[x].secondary
    BY <1>1, <1>5 DEF Quiet
  <2>2. PrimarySafe /\ PrimariesApart /\ SecondaryCarried
    BY <2>1 DEF MergeInv
  <2>3. PrimarySafe'
    BY <1>1, <1>2, <2>2 DEF PrimarySafe, Active, Live
  <2>4. PrimariesApart'
    BY <1>2, <2>1, <2>2 DEF PrimariesApart, Active
  <2>5. SecondaryCarried'
    BY <1>1, <1>2, <2>2 DEF SecondaryCarried
  <2> QED BY <2>3, <2>4, <2>5
<1>6. MergeKeepsAlerts'
  <2> SUFFICES ASSUME Quiet', NEW n \in IncidentIds, NEW a \in incident'[n].made_of
               PROVE  Listed(a)'
    BY DEF MergeKeepsAlerts, Listed, Quiet
  <2>1. Listed(a)
    BY <1>1, QuietListed DEF Quiet
  <2>2. \A x \in Mergers : a \in merge[x].ids => x # m
    BY <1>3 DEF NoMerge
  <2> QED BY <1>1, <1>2, <2>1, <2>2 DEF Listed, Live
<1> QED BY <1>4, <1>5, <1>6 DEF MergeInv

\* A merge takes a secondary that is no primary, or clashes.
LEMMA MergeTakesInv ==
    ASSUME TypeInv, MergeInv, NEW m \in Mergers, NEW s \in IncidentIds, MergeTakes(m, s)
    PROVE  MergeInv'
<1>1. /\ merge[m].pc = "loop" /\ Live(s) /\ UNCHANGED <<incident, made, faults>>
      /\ clash' = (clash \/ \E x \in Mergers : s = merge[x].primary)
  BY DEF MergeTakes
<1>2. /\ merge'[m].pc = "delete" /\ merge'[m].primary = merge[m].primary
      /\ merge'[m].secondary = s /\ merge'[m].ids = merge[m].ids \cup incident[s].alert_ids
      /\ \A x \in Mergers \ {m} : merge'[x] = merge[x]
  BY DEF MergeTakes, TypeInv, MergeTyped, Merges
<1>3. s \in 1 .. made
  BY <1>1 DEF MergeInv, MergeSane, IncidentIds
<1>4. MergeSane'
  BY <1>1, <1>2, <1>3 DEF MergeInv, MergeSane, Active, Live, NoMerge
<1>5. ASSUME Quiet' PROVE (PrimarySafe /\ PrimariesApart /\ SecondaryCarried)'
  <2>1. Quiet /\ \A x \in Mergers : s # merge[x].primary
    BY <1>1, <1>5 DEF Quiet
  <2>2. PrimarySafe /\ PrimariesApart /\ SecondaryCarried
    BY <2>1 DEF MergeInv
  <2>3. PrimarySafe'
    BY <1>1, <1>2, <2>2 DEF PrimarySafe, Active, Live
  <2>4. PrimariesApart'
    BY <1>1, <1>2, <2>1, <2>2 DEF PrimariesApart, Active
  <2>5. SecondaryCarried'
    BY <1>1, <1>2, <2>2 DEF SecondaryCarried
  <2> QED BY <2>3, <2>4, <2>5
<1>6. MergeKeepsAlerts'
  <2> SUFFICES ASSUME Quiet', NEW n \in IncidentIds, NEW a \in incident'[n].made_of
               PROVE  Listed(a)'
    BY DEF MergeKeepsAlerts, Listed, Quiet
  <2>1. Listed(a)
    BY <1>1, QuietListed DEF Quiet
  <2> QED BY <1>1, <1>2, <2>1 DEF Listed, Live
<1> QED BY <1>4, <1>5, <1>6 DEF MergeInv

\* What is deleted is no primary, and its merge carries what it lists.
LEMMA MergeDeletesInv ==
    ASSUME TypeInv, MergeInv, NEW m \in Mergers, MergeDeletes(m)
    PROVE  MergeInv'
<1> DEFINE s == merge[m].secondary
<1>1. /\ merge[m].pc = "delete" /\ UNCHANGED <<made, clash>> /\ (faults' = faults \/ Fault)
  BY DEF MergeDeletes
<1>2. /\ merge'[m].pc = "loop" /\ merge'[m].primary = merge[m].primary
      /\ merge'[m].secondary = merge[m].secondary /\ merge'[m].ids = merge[m].ids
      /\ \A x \in Mergers \ {m} : merge'[x] = merge[x]
  BY DEF MergeDeletes, TypeInv, MergeTyped, Merges
<1>3. s \in IncidentIds /\ MergeSane
  BY <1>1, MergeIds DEF MergeInv
<1>4. /\ \A n \in IncidentIds : n # s => incident'[n] = incident[n]
      /\ \A n \in IncidentIds : /\ incident'[n].alert_ids = incident[n].alert_ids
                                /\ incident'[n].made_of = incident[n].made_of
      /\ \A n \in IncidentIds : incident'[n].present => incident[n].present
  <2>1. \A n \in IncidentIds : incident[n] \in IncidentDocs
    BY DEF TypeInv, IncidentsTyped
  <2>2. CASE UNCHANGED incident
    BY <2>2
  <2>3. CASE incident' = [incident EXCEPT ![s].present = FALSE]
    BY <1>3, <2>1, <2>3 DEF TypeInv, IncidentsTyped, IncidentDocs
  <2> QED BY <2>2, <2>3 DEF MergeDeletes
<1>5. MergeSane'
  <2>1. \A n \in IncidentIds : Live(n)' => n <= made'
    BY <1>1, <1>3, <1>4 DEF MergeSane, Live
  <2> QED BY <1>1, <1>2, <1>3, <2>1 DEF MergeSane, Active, NoMerge
<1>6. \A x \in Mergers : merge[x].pc # "none" => merge[x].primary \in IncidentIds
  BY <1>3, MergeIds
<1>7. ASSUME Quiet
      PROVE  /\ PrimarySafe /\ PrimariesApart /\ SecondaryCarried
             /\ \A x \in Active : incident'[merge[x].primary] = incident[merge[x].primary]
  <2>1. PrimarySafe /\ PrimariesApart /\ SecondaryCarried
    BY <1>7 DEF MergeInv
  <2>2. \A x \in Active : merge[x].primary # s
    BY <1>1, <2>1 DEF PrimariesApart, Active
  <2> QED BY <1>4, <1>6, <2>1, <2>2 DEF Active
<1>8. ASSUME Quiet' PROVE (PrimarySafe /\ PrimariesApart /\ SecondaryCarried)'
  <2>1. Quiet
    BY <1>1, <1>8, QuietBefore
  <2>2. Active' = Active /\ \A x \in Mergers : merge'[x].primary = merge[x].primary
                                               /\ merge'[x].ids = merge[x].ids
    BY <1>1, <1>2 DEF Active
  <2>3. PrimarySafe'
    BY <1>7, <2>1, <2>2 DEF PrimarySafe, Active, Live
  <2>4. PrimariesApart'
    <3>1. \A x \in Active' : x \in Active
      BY <2>2
    <3>2. \A x \in Active : merge'[x].pc = "delete" =>
             merge[x].pc = "delete" /\ merge'[x].secondary = merge[x].secondary
      BY <1>2 DEF Active
    <3> QED BY <1>7, <2>1, <2>2, <3>1, <3>2 DEF PrimariesApart, Active
  <2>5. SecondaryCarried'
    <3> SUFFICES ASSUME NEW x \in Mergers, merge'[x].pc = "delete"
                 PROVE  incident'[merge'[x].secondary].alert_ids \subseteq merge'[x].ids
      BY DEF SecondaryCarried
    <3>1. x # m /\ merge'[x] = merge[x]
      BY <1>2
    <3>2. merge[x].secondary \in IncidentIds
      BY <1>3, <3>1, MergeIds
    <3> QED BY <1>4, <1>7, <2>1, <3>1, <3>2 DEF SecondaryCarried
  <2> QED BY <2>3, <2>4, <2>5
<1>9. MergeKeepsAlerts'
  <2> SUFFICES ASSUME Quiet', NEW n \in IncidentIds, NEW a \in incident'[n].made_of
               PROVE  Listed(a)'
    BY DEF MergeKeepsAlerts, Listed, Quiet
  <2>1. Quiet
    BY <1>1, QuietBefore
  <2>2. Listed(a)
    BY <1>4, <2>1, QuietListed
  <2>3. ASSUME NEW x \in Mergers, a \in merge[x].ids PROVE Listed(a)'
    <3>1. x \in Active
      BY <1>3, <2>3 DEF MergeSane, NoMerge, Active
    <3>2. Live(merge[x].primary) /\ incident'[merge[x].primary] = incident[merge[x].primary]
      BY <1>7, <2>1, <3>1 DEF PrimarySafe
    <3>3. merge'[x].primary = merge[x].primary /\ merge'[x].ids = merge[x].ids
      BY <1>2
    <3> QED BY <2>3, <3>2, <3>3 DEF Listed, Live
  <2>4. ASSUME NEW k \in IncidentIds, Live(k), a \in incident[k].alert_ids PROVE Listed(a)'
    <3>1. CASE k = s
      BY <1>1, <1>7, <2>1, <2>3, <2>4, <3>1 DEF SecondaryCarried
    <3>2. CASE k # s
      BY <1>4, <2>4, <3>2 DEF Listed, Live
    <3> QED BY <3>1, <3>2
  <2> QED BY <2>2, <2>3, <2>4 DEF Listed
<1> QED BY <1>5, <1>8, <1>9 DEF MergeInv

\* The primary is written with no less than it lists, and nobody else's list is.
LEMMA MergeWritesInv ==
    ASSUME TypeInv, MergeInv, NEW m \in Mergers, MergeWrites(m)
    PROVE  MergeInv'
<1> DEFINE p == merge[m].primary
<1>1. /\ merge[m].pc = "loop" /\ UNCHANGED <<made, clash>> /\ (faults' = faults \/ Fault)
  BY DEF MergeWrites
<1>2. merge'[m] = NoMerge /\ \A x \in Mergers \ {m} : merge'[x] = merge[x]
  BY DEF MergeWrites, TypeInv, MergeTyped
<1>3. p \in IncidentIds /\ MergeSane /\ m \in Active
  BY <1>1, MergeIds DEF MergeInv, Active
<1>4. \A n \in IncidentIds : incident[n] \in IncidentDocs
  BY DEF TypeInv, IncidentsTyped
<1>5. /\ \A n \in IncidentIds : n # p => incident'[n] = incident[n]
      /\ \A n \in IncidentIds : /\ incident'[n].present = incident[n].present
                                /\ incident'[n].made_of = incident[n].made_of
  <2>1. CASE UNCHANGED incident
    BY <2>1
  <2>2. CASE incident' = [incident EXCEPT ![p].alert_ids = merge[m].ids]
    BY <1>3, <1>4, <2>2 DEF TypeInv, IncidentsTyped, IncidentDocs
  <2> QED BY <2>1, <2>2 DEF MergeWrites
<1>6. MergeSane'
  <2>1. \A n \in IncidentIds : Live(n)' => n <= made'
    BY <1>1, <1>3, <1>5 DEF MergeSane, Live
  <2> QED BY <1>1, <1>2, <1>3, <2>1 DEF MergeSane, Active, NoMerge
<1>7. ASSUME Quiet'
      PROVE  /\ Quiet /\ PrimarySafe /\ PrimariesApart /\ SecondaryCarried
             /\ Live(p) /\ incident'[p].alert_ids = merge[m].ids
  <2>1. Quiet /\ faults' = faults
    BY <1>1, <1>7, QuietBefore
  <2>2. PrimarySafe /\ PrimariesApart /\ SecondaryCarried
    BY <2>1 DEF MergeInv
  <2>3. Live(p)
    BY <1>3, <2>2 DEF PrimarySafe
  <2>4. ~Fault
    BY <2>1 DEF Fault, Quiet
  <2>5. incident' = [incident EXCEPT ![p].alert_ids = merge[m].ids]
    BY <2>3, <2>4 DEF MergeWrites
  <2>6. incident'[p].alert_ids = merge[m].ids
    BY <1>3, <1>4, <2>5 DEF TypeInv, IncidentsTyped, IncidentDocs
  <2> QED BY <2>1, <2>2, <2>3, <2>6
<1>8. \A x \in Mergers : merge'[x].pc # "none" => x # m /\ merge'[x] = merge[x] /\ x \in Active
  BY <1>2 DEF NoMerge, Active
<1>9. ASSUME Quiet' PROVE (PrimarySafe /\ PrimariesApart /\ SecondaryCarried)'
  <2>1. \A x \in Active : x # m => merge[x].primary # p /\ merge[x].primary \in IncidentIds
    BY <1>3, <1>7, <1>9, MergeIds DEF PrimariesApart, Active
  <2>2. \A x \in Mergers : merge[x].pc = "delete" =>
           merge[x].secondary # p /\ merge[x].secondary \in IncidentIds
    BY <1>3, <1>7, <1>9, MergeIds DEF PrimariesApart, Active
  <2>3. PrimarySafe'
    <3> SUFFICES ASSUME NEW x \in Mergers, merge'[x].pc # "none"
                 PROVE  /\ incident'[merge'[x].primary].present
                        /\ incident'[merge'[x].primary].alert_ids \subseteq merge'[x].ids
      BY DEF PrimarySafe, Active, Live
    <3>1. x # m /\ merge'[x] = merge[x] /\ x \in Active
      BY <1>8
    <3>2. incident'[merge[x].primary] = incident[merge[x].primary]
      BY <1>5, <2>1, <3>1
    <3> QED BY <1>7, <1>9, <3>1, <3>2 DEF PrimarySafe, Live
  <2>4. PrimariesApart'
    BY <1>7, <1>8, <1>9 DEF PrimariesApart, Active
  <2>5. SecondaryCarried'
    <3> SUFFICES ASSUME NEW x \in Mergers, merge'[x].pc = "delete"
                 PROVE  incident'[merge'[x].secondary].alert_ids \subseteq merge'[x].ids
      BY DEF SecondaryCarried
    <3>1. merge'[x] = merge[x]
      BY <1>8
    <3>2. incident'[merge[x].secondary] = incident[merge[x].secondary]
      BY <1>5, <2>2, <3>1
    <3> QED BY <1>7, <1>9, <3>1, <3>2 DEF SecondaryCarried
  <2> QED BY <2>3, <2>4, <2>5
<1>10. MergeKeepsAlerts'
  <2> SUFFICES ASSUME Quiet', NEW n \in IncidentIds, NEW a \in incident'[n].made_of
               PROVE  Listed(a)'
    BY DEF MergeKeepsAlerts, Listed, Quiet
  <2>1. Listed(a)
    BY <1>5, <1>7, QuietListed
  <2>2. a \in merge[m].ids => Listed(a)'
    BY <1>3, <1>5, <1>7 DEF Listed, Live
  <2>3. ASSUME NEW x \in Mergers \ {m}, a \in merge[x].ids PROVE Listed(a)'
    <3>1. x \in Active /\ merge'[x] = merge[x]
      BY <1>2, <1>3, <2>3 DEF MergeSane, NoMerge, Active
    <3>2. Live(merge[x].primary) /\ merge[x].primary \in IncidentIds
      BY <1>3, <1>7, <3>1, MergeIds DEF PrimarySafe, Active
    <3> QED BY <1>5, <2>3, <3>1, <3>2 DEF Listed, Live
  <2>4. ASSUME NEW k \in IncidentIds, Live(k), a \in incident[k].alert_ids PROVE Listed(a)'
    <3>1. CASE k = p
      BY <1>3, <1>7, <2>2, <2>4, <3>1 DEF PrimarySafe
    <3>2. CASE k # p
      BY <1>5, <2>4, <3>2 DEF Listed, Live
    <3> QED BY <3>1, <3>2
  <2> QED BY <2>1, <2>2, <2>3, <2>4 DEF Listed
<1> QED BY <1>6, <1>9, <1>10 DEF MergeInv

\* Every step keeps MergeInv.
LEMMA NextMergeInv ==
    ASSUME TypeInv, MergeInv, [Next]_vars
    PROVE  MergeInv'
<1> USE DEF mergeVars
<1>1. CASE UNCHANGED <<incident, merge, made, clash>> /\ (faults' = faults \/ Fault)
  BY <1>1, MergeInvUnchanged
<1>2. ASSUME NEW w \in Correlators, CreateAutoIncident(w) PROVE MergeInv'
  <2>1. made + 1 \in IncidentIds /\ made' = made + 1 /\ UNCHANGED <<merge, clash>>
    BY <1>2, Bounds DEF CreateAutoIncident, IncidentIds, TypeInv, CountsTyped
  <2>2. CASE UNCHANGED incident /\ Fault
    BY <2>1, <2>2, MergeInvNew
  <2>3. CASE /\ incident' = [incident EXCEPT ![made + 1] =
                               [present |-> TRUE, alert_ids |-> cand[w], made_of |-> cand[w]]]
             /\ UNCHANGED faults
    <3>1. incident'[made + 1] = [present |-> TRUE, alert_ids |-> cand[w], made_of |-> cand[w]]
          /\ \A n \in IncidentIds : n # made + 1 => incident'[n] = incident[n]
      BY <2>1, <2>3 DEF TypeInv, IncidentsTyped
    <3> QED BY <2>1, <2>3, <3>1, MergeInvNew
  <2> QED BY <1>2, <2>2, <2>3 DEF CreateAutoIncident
<1>3. CASE CreateIncident
  <2>1. made + 1 \in IncidentIds /\ made' = made + 1 /\ UNCHANGED <<merge, clash, faults>>
    BY <1>3, Bounds DEF CreateIncident, IncidentIds, TypeInv, CountsTyped
  <2>2. incident[made + 1] \in IncidentDocs
    BY <2>1 DEF TypeInv, IncidentsTyped
  <2>3. incident'[made + 1] = [incident[made + 1] EXCEPT !.present = TRUE]
        /\ \A n \in IncidentIds : n # made + 1 => incident'[n] = incident[n]
    BY <1>3, <2>1 DEF CreateIncident, TypeInv, IncidentsTyped
  <2>4. incident'[made + 1].present /\ incident'[made + 1].made_of = incident[made + 1].made_of
    BY <2>2, <2>3 DEF IncidentDocs
  <2> QED BY <2>1, <2>3, <2>4, MergeInvNew
<1>4. ASSUME NEW m \in Mergers, NEW n \in IncidentIds, MergeReads(m, n) \/ MergeTakes(m, n)
      PROVE  MergeInv'
  BY <1>4, MergeReadsInv, MergeTakesInv
<1>5. ASSUME NEW m \in Mergers, MergeDeletes(m) \/ MergeWrites(m) PROVE MergeInv'
  BY <1>5, MergeDeletesInv, MergeWritesInv
<1>6. CASE Crash
  <2>1. ~Quiet' /\ UNCHANGED <<incident, made>>
    BY <1>6, Counts DEF Crash, Fault, TypeInv, Quiet
  <2>2. \A m \in Mergers : merge'[m] = NoMerge
    BY <1>6 DEF Crash
  <2>3. MergeSane'
    BY <2>1, <2>2 DEF MergeInv, MergeSane, Live, Active, NoMerge
  <2> QED BY <2>1, <2>3 DEF MergeInv, MergeKeepsAlerts, Quiet
<1>7. CASE UNCHANGED vars \/ Start \/ Tick \/ Sweep \/ CreateAlert
  BY <1>1, <1>7 DEF vars, Start, Tick, Sweep, CreateAlert
<1>8. ASSUME NEW w \in Correlators, NEW a \in Alerts, TriggerCorrelation(w, a) \/ MarkAlert(w, a)
      PROVE  MergeInv'
  BY <1>1, <1>8 DEF TriggerCorrelation, MarkAlert
<1>9. ASSUME NEW a \in Alerts,
             AskCorrelation(a) \/ DeleteAlert(a) \/ \E n \in IncidentIds : LinkIncident(a, n)
      PROVE  MergeInv'
  BY <1>1, <1>9 DEF AskCorrelation, DeleteAlert, LinkIncident
<1> QED
  BY <1>2, <1>3, <1>4, <1>5, <1>6, <1>7, <1>8, <1>9 DEF Next, Correlates

\* Whatever merges run one after the other and at once, none loses an alert that
\* an incident was made of, as long as no call fails and no merge meets an
\* incident that another one is writing or, as its primary, deleting
\* (incident.Service.Merge).
THEOREM MergeKeepsAlertsAlways == Spec => []MergeKeepsAlerts
<1>1. TypeInv /\ MergeInv => MergeKeepsAlerts
  BY DEF MergeInv
<1>2. TypeInv /\ MergeInv /\ [Next]_vars => (TypeInv /\ MergeInv)'
  BY NextTypeInv, NextMergeInv
<1> QED BY <1>1, <1>2, InitTypeInv, InitMergeInv, PTL DEF Spec

-----------------------------------------------------------------------------
(* Duplicates. *)

\* Two disjoint sets of correlators have no more members than there are
\* correlators.
LEMMA Apart ==
    ASSUME NEW S, NEW T, S \subseteq Correlators, T \subseteq Correlators, S \cap T = {}
    PROVE  /\ Cardinality(S) \in Nat /\ Cardinality(T) \in Nat
           /\ Cardinality(S) + Cardinality(T) <= K
<1>1. /\ IsFiniteSet(S) /\ IsFiniteSet(T)
      /\ Cardinality(S) \in Nat /\ Cardinality(T) \in Nat
  BY Bounds, FS_Subset, FS_CardinalityType
<1>2. Cardinality(S \cup T) = Cardinality(S) + Cardinality(T) - Cardinality(S \cap T)
  BY <1>1, FS_Union
<1>3. Cardinality(S \cap T) = 0
  BY FS_EmptySet
<1>4. S \cup T \subseteq Correlators
  OBVIOUS
<1>5. Cardinality(S \cup T) <= K
  BY <1>4, Bounds, FS_Subset DEF K
<1>6. Cardinality(S \cup T) = Cardinality(S) + Cardinality(T)
  BY <1>1, <1>2, <1>3
<1> QED BY <1>1, <1>5, <1>6

\* A set that gains at most one member.
LEMMA GrowByOne ==
    ASSUME NEW S, NEW T, NEW x, IsFiniteSet(S), T \subseteq S \cup {x}
    PROVE  Cardinality(T) \in Nat /\ Cardinality(T) <= Cardinality(S) + 1
<1>1. IsFiniteSet(S \cup {x}) /\ Cardinality(S) \in Nat
  BY FS_AddElement, FS_CardinalityType
<1>2. Cardinality(S \cup {x}) <= Cardinality(S) + 1
  BY <1>1, FS_AddElement
<1>3. IsFiniteSet(T) /\ Cardinality(T) <= Cardinality(S \cup {x})
  BY <1>1, FS_Subset
<1>4. Cardinality(T) \in Nat /\ Cardinality(S \cup {x}) \in Nat
  BY <1>1, <1>3, FS_CardinalityType
<1> QED BY <1>1, <1>2, <1>3, <1>4

\* A set that loses a member, and one that gains a new one.
LEMMA MoveOne ==
    ASSUME NEW S, NEW x, IsFiniteSet(S)
    PROVE  /\ x \in S => Cardinality(S \ {x}) = Cardinality(S) - 1
           /\ x \notin S => Cardinality(S \cup {x}) = Cardinality(S) + 1
BY FS_RemoveElement, FS_AddElement

\* The sets that DuplicatesInv counts are finite, and no correlator is in both.
LEMMA Counted ==
    ASSUME TypeInv, NEW a \in Alerts
    PROVE  /\ IsFiniteSet(MadeOf(a)) /\ Cardinality(MadeOf(a)) \in Nat
           /\ IsFiniteSet(At("create", a)) /\ Cardinality(At("create", a)) \in Nat
           /\ IsFiniteSet(At("mark", a)) /\ Cardinality(At("mark", a)) \in Nat
           /\ Cardinality(At("create", a)) + Cardinality(At("mark", a)) <= K
<1>1. IsFiniteSet(IncidentIds)
  BY Bounds, FS_Interval DEF IncidentIds
<1>2. IsFiniteSet(MadeOf(a)) /\ Cardinality(MadeOf(a)) \in Nat
  <2>1. MadeOf(a) \subseteq IncidentIds
    BY DEF MadeOf
  <2>2. IsFiniteSet(MadeOf(a))
    BY <1>1, <2>1, FS_Subset
  <2> QED BY <2>2, FS_CardinalityType
<1>3. At("create", a) \subseteq Correlators /\ At("mark", a) \subseteq Correlators
      /\ At("create", a) \cap At("mark", a) = {}
  BY DEF At
<1>4. IsFiniteSet(At("create", a)) /\ IsFiniteSet(At("mark", a))
  BY <1>3, Bounds, FS_Subset
<1> QED BY <1>2, <1>3, <1>4, Apart

\* The bound grows by the number of correlators with every fault.
LEMMA Products ==
    ASSUME NEW f \in Nat
    PROVE  K * f \in Nat /\ K * (f + 1) = K * f + K /\ K * (f + 1) \in Nat
           /\ K * (f + 2) = K * f + K + K
<1> K \in Nat
  BY Bounds
<1> HIDE DEF K
<1> QED OBVIOUS

\* A step that makes no incident of an alert and sets no correlator to make one.
\* It takes correlators from those that will mark the alert only by a fault or by
\* marking it, and it gives no mark back.
LEMMA BoundedUnchanged ==
    ASSUME TypeInv, NEW a \in Alerts, Bounded(a), faults' = faults \/ Fault,
           MadeOf(a)' \subseteq MadeOf(a), At("create", a)' \subseteq At("create", a),
           \/ At("mark", a)' = At("mark", a)
           \/ Fault
           \/ ~(Here(a)' /\ alert'[a].incident_id = None),
           Here(a)' /\ alert'[a].incident_id = None =>
               (Here(a) /\ alert[a].incident_id = None) \/ MadeOf(a) = {}
    PROVE  Bounded(a)'
<1> DEFINE m == Cardinality(MadeOf(a))
           q == Cardinality(MadeOf(a)')
           c == Cardinality(At("create", a))
           d == Cardinality(At("create", a)')
           k == Cardinality(At("mark", a))
           l == Cardinality(At("mark", a)')
           F == K * faults
           G == K * faults'
           open == Here(a)' /\ alert'[a].incident_id = None
<1>1. m \in Nat /\ c \in Nat /\ k \in Nat /\ c + k <= K /\ K \in Nat
  BY Counted, Bounds
<1>2. d \in Nat /\ d <= c /\ l \in Nat /\ q \in Nat /\ q <= m
  <2>1. IsFiniteSet(At("create", a)) /\ IsFiniteSet(At("mark", a)') /\ IsFiniteSet(MadeOf(a))
    <3>1. At("mark", a)' \subseteq Correlators
      BY DEF At
    <3> QED BY <3>1, Counted, Bounds, FS_Subset
  <2>2. IsFiniteSet(At("create", a)') /\ d <= c /\ IsFiniteSet(MadeOf(a)') /\ q <= m
    BY <2>1, FS_Subset
  <2> QED BY <2>1, <2>2, FS_CardinalityType
<1>3. faults \in Nat /\ F \in Nat /\ K * (faults + 1) = F + K
  BY Counts, Products DEF TypeInv
<1>4. G \in Nat /\ K * (faults' + 1) = G + K /\ (Fault => G = F + K)
      /\ (~Fault => G = F)
  <2>1. faults' \in Nat /\ (Fault => faults' = faults + 1) /\ (~Fault => faults' = faults)
    BY <1>3 DEF Fault
  <2> QED BY <1>3, <2>1, Products
<1>5. m + c <= F + K /\ (Here(a) /\ alert[a].incident_id = None => m <= F + k)
  BY <1>3 DEF Bounded
<1>6. ~Fault /\ open => l = k
  OBVIOUS
<1>7. open => m <= F + k
  <2>1. MadeOf(a) = {} => m = 0
    BY FS_EmptySet
  <2> HIDE DEF m, k, F
  <2> QED BY <1>1, <1>3, <1>5, <2>1
<1> HIDE DEF m, q, c, d, k, l, F, G, open
<1>8. q + d <= G + K
  BY <1>1, <1>2, <1>3, <1>4, <1>5
<1>9. open => q <= G + l
  BY <1>1, <1>2, <1>3, <1>4, <1>6, <1>7
<1> QED BY <1>4, <1>8, <1>9 DEF Bounded, q, d, l, G, open

\* Setting a correlator to make an incident, which only happens to alerts that
\* have no incident_id (autoAggregateIncident).
LEMMA BoundedTrigger ==
    ASSUME TypeInv, NEW a \in Alerts, Bounded(a), UNCHANGED faults,
           Here(a)' = Here(a), alert'[a].incident_id = alert[a].incident_id,
           Here(a), alert[a].incident_id = None,
           MadeOf(a)' = MadeOf(a), At("mark", a)' = At("mark", a)
    PROVE  Bounded(a)'
<1> DEFINE m == Cardinality(MadeOf(a))
           d == Cardinality(At("create", a)')
           k == Cardinality(At("mark", a))
           F == K * faults
<1>1. m \in Nat /\ k \in Nat /\ K \in Nat
  BY Counted, Bounds
<1>2. d \in Nat /\ d + k <= K
  <2>1. At("create", a)' \subseteq Correlators /\ At("mark", a)' \subseteq Correlators
        /\ At("create", a)' \cap At("mark", a)' = {}
    BY DEF At
  <2> QED BY <2>1, Apart
<1>3. faults \in Nat /\ F \in Nat /\ K * (faults + 1) = F + K
  BY Counts, Products DEF TypeInv
<1>4. m <= F + k
  BY DEF Bounded
<1>5. Cardinality(MadeOf(a)') = m /\ Cardinality(At("mark", a)') = k
  OBVIOUS
<1> HIDE DEF m, d, k, F
<1>6. m + d <= F + K
  BY <1>1, <1>2, <1>3, <1>4
<1> QED BY <1>3, <1>4, <1>5, <1>6 DEF Bounded, m, d, k, F

\* Making an incident: a correlator that was about to make one will now mark
\* (incRepo.Create).
LEMMA BoundedCreate ==
    ASSUME TypeInv, NEW a \in Alerts, NEW w \in Correlators, Bounded(a), UNCHANGED faults,
           Here(a)' = Here(a), alert'[a].incident_id = alert[a].incident_id,
           NEW n, MadeOf(a)' \subseteq MadeOf(a) \cup {n},
           w \in At("create", a), w \notin At("mark", a),
           At("create", a)' = At("create", a) \ {w}, At("mark", a)' = At("mark", a) \cup {w}
    PROVE  Bounded(a)'
<1> DEFINE m == Cardinality(MadeOf(a))
           q == Cardinality(MadeOf(a)')
           c == Cardinality(At("create", a))
           d == Cardinality(At("create", a)')
           k == Cardinality(At("mark", a))
           l == Cardinality(At("mark", a)')
           F == K * faults
<1>1. m \in Nat /\ c \in Nat /\ k \in Nat /\ K \in Nat
  BY Counted, Bounds
<1>2. q \in Nat /\ q <= m + 1
  BY Counted, GrowByOne
<1>3. d = c - 1 /\ l = k + 1
  BY Counted, MoveOne
<1>4. faults \in Nat /\ F \in Nat /\ K * (faults + 1) = F + K
  BY Counts, Products DEF TypeInv
<1>5. m + c <= F + K /\ (Here(a) /\ alert[a].incident_id = None => m <= F + k)
  BY <1>4 DEF Bounded
<1> HIDE DEF m, q, c, d, k, l, F
<1>6. q + d <= F + K
  BY <1>1, <1>2, <1>3, <1>4, <1>5
<1>7. Here(a)' /\ alert'[a].incident_id = None => q <= F + l
  BY <1>1, <1>2, <1>3, <1>4, <1>5
<1> QED BY <1>4, <1>6, <1>7 DEF Bounded, q, d, l, F

\* At first there are no alerts and no incidents.
LEMMA InitDuplicatesInv == Init => DuplicatesInv
<1> SUFFICES ASSUME Init PROVE DuplicatesInv
  OBVIOUS
<1>1. FreshInv
  BY DEF Init, FreshInv, Here, MadeOf
<1>2. ASSUME NEW a \in Alerts PROVE Bounded(a)
  <2>1. MadeOf(a) = {} /\ At("create", a) = {} /\ ~Here(a)
    BY DEF Init, MadeOf, At, Here
  <2>2. faults \in Nat
    BY DEF Init
  <2>3. Cardinality(MadeOf(a)) + Cardinality(At("create", a)) <= K * (faults + 1)
    <3>1. Cardinality(MadeOf(a)) = 0 /\ Cardinality(At("create", a)) = 0
      BY <2>1, FS_EmptySet
    <3>2. K * (faults + 1) \in Nat
      BY <2>2, Products
    <3> QED BY <3>1, <3>2
  <2> QED BY <2>1, <2>3 DEF Bounded
<1> QED BY <1>1, <1>2 DEF DuplicatesInv

\* What users make and merge is made of no other alerts than before.
LEMMA MadeOfKept ==
    ASSUME TypeInv, CreateIncident \/ \E m \in Mergers : MergeDeletes(m) \/ MergeWrites(m),
           NEW a \in Alerts
    PROVE  MadeOf(a)' = MadeOf(a)
<1>1. \A n \in IncidentIds : incident[n] \in IncidentDocs
  BY DEF TypeInv, IncidentsTyped
<1>2. \A n \in IncidentIds : incident'[n].made_of = incident[n].made_of
  <2> USE <1>1 DEF TypeInv, IncidentsTyped, IncidentDocs
  <2>1. CASE CreateIncident
    BY <2>1 DEF CreateIncident
  <2>2. ASSUME NEW m \in Mergers, MergeDeletes(m)
        PROVE  \A n \in IncidentIds : incident'[n].made_of = incident[n].made_of
    BY <2>2 DEF MergeDeletes
  <2>3. ASSUME NEW m \in Mergers, MergeWrites(m)
        PROVE  \A n \in IncidentIds : incident'[n].made_of = incident[n].made_of
    BY <2>3 DEF MergeWrites
  <2> QED BY <2>1, <2>2, <2>3
<1> QED BY <1>2 DEF MadeOf

\* Correlators take up alerts that are there, and make incidents of those only.
LEMMA NextFreshInv ==
    ASSUME TypeInv, FreshInv, [Next]_vars
    PROVE  FreshInv'
<1> USE DEF jobVars, FreshInv, Here
<1> created \in Nat
  BY Counts DEF TypeInv
<1>1. ASSUME UNCHANGED created,
             \A a \in Alerts : Here(a)' => Here(a),
             \A a \in Alerts : MadeOf(a) = {} /\ (\A w \in Correlators : a \notin cand[w])
                                  => MadeOf(a)' = {},
             \A w \in Correlators : \A a \in cand'[w] : a \in cand[w] \/ Here(a)
      PROVE  FreshInv'
  BY <1>1 DEF Alerts
<1>2. \A a \in Alerts : UNCHANGED incident => MadeOf(a)' = MadeOf(a)
  BY DEF MadeOf
<1>3. ASSUME CreateAlert PROVE FreshInv'
  <2>1. \A a \in Alerts : a # created + 1 => alert'[a] = alert[a]
    BY <1>3 DEF CreateAlert, TypeInv, AlertsTyped
  <2>2. UNCHANGED <<incident, cand>> /\ created' = created + 1
    BY <1>3 DEF CreateAlert
  <2> QED BY <1>2, <2>1, <2>2 DEF Alerts
<1>4. ASSUME NEW w \in Correlators, NEW a \in Alerts, TriggerCorrelation(w, a) PROVE FreshInv'
  <2>1. UNCHANGED <<created, alert, incident>>
    BY <1>4 DEF TriggerCorrelation
  <2>2. \A v \in Correlators : \A b \in cand'[v] : b \in cand[v] \/ Here(b)
    BY <1>4 DEF TriggerCorrelation, Correlated, TypeInv, JobsTyped
  <2> QED BY <1>1, <1>2, <2>1, <2>2
<1>5. ASSUME NEW w \in Correlators, NEW a \in Alerts, MarkAlert(w, a) PROVE FreshInv'
  <2>1. UNCHANGED <<created, incident>>
    BY <1>5 DEF MarkAlert
  <2>2. \A b \in Alerts : Here(b)' => Here(b)
    BY <1>5 DEF MarkAlert, TypeInv, AlertsTyped, AlertDocs
  <2>3. \A v \in Correlators : \A b \in cand'[v] : b \in cand[v]
    BY <1>5 DEF MarkAlert, TypeInv, JobsTyped
  <2> QED BY <1>1, <1>2, <2>1, <2>2, <2>3
<1>6. ASSUME NEW w \in Correlators, CreateAutoIncident(w) PROVE FreshInv'
  <2>1. UNCHANGED <<created, alert, cand>>
    BY <1>6 DEF CreateAutoIncident
  <2>2. \A n \in IncidentIds : \/ incident'[n] = incident[n]
                               \/ incident'[n].made_of = cand[w]
    BY <1>6 DEF CreateAutoIncident, TypeInv, IncidentsTyped
  <2>3. \A a \in Alerts : MadeOf(a) = {} /\ (\A v \in Correlators : a \notin cand[v])
                            => MadeOf(a)' = {}
    BY <2>2 DEF MadeOf
  <2> QED BY <1>1, <2>1, <2>3
<1>7. ASSUME NEW a \in Alerts, DeleteAlert(a) \/ \E n \in IncidentIds : LinkIncident(a, n)
      PROVE  FreshInv'
  <2>1. UNCHANGED <<created, incident, cand>>
    BY <1>7 DEF DeleteAlert, LinkIncident
  <2>2. \A b \in Alerts : Here(b)' => Here(b)
    BY <1>7 DEF DeleteAlert, LinkIncident, TypeInv, AlertsTyped, AlertDocs
  <2> QED BY <1>1, <1>2, <2>1, <2>2
<1>8. CASE CreateIncident \/ \E m \in Mergers : MergeDeletes(m) \/ MergeWrites(m)
  <2>1. UNCHANGED <<created, alert, cand>>
    BY <1>8 DEF CreateIncident, MergeDeletes, MergeWrites
  <2>2. \A a \in Alerts : MadeOf(a)' = MadeOf(a)
    BY <1>8, MadeOfKept
  <2> QED BY <1>1, <2>1, <2>2
<1>9. CASE Crash
  <2>1. UNCHANGED <<created, alert, incident>> /\ \A w \in Correlators : cand'[w] = {}
    BY <1>9 DEF Crash
  <2> QED BY <1>1, <1>2, <2>1
<1>10. CASE \/ Sweep \/ Tick \/ Start \/ UNCHANGED vars
            \/ \E a \in Alerts : AskCorrelation(a)
            \/ \E m \in Mergers, n \in IncidentIds : MergeReads(m, n) \/ MergeTakes(m, n)
  <2>1. UNCHANGED <<created, alert, incident, cand>>
    BY <1>10 DEF Sweep, Tick, Start, vars, AskCorrelation, MergeReads, MergeTakes
  <2> QED BY <1>1, <1>2, <2>1
<1> QED BY <1>3, <1>4, <1>5, <1>6, <1>7, <1>8, <1>9, <1>10 DEF Next, Correlates

\* Every step keeps the bound for every alert.
LEMMA NextBounded ==
    ASSUME TypeInv, DuplicatesInv, [Next]_vars, NEW a \in Alerts
    PROVE  Bounded(a)'
<1> USE DEF jobVars, Here
<1> Bounded(a) /\ FreshInv /\ (UNCHANGED incident => MadeOf(a)' = MadeOf(a))
  BY DEF DuplicatesInv, MadeOf
<1>1. ASSUME UNCHANGED <<pc, cand>>, faults' = faults \/ Fault, MadeOf(a)' = MadeOf(a),
             Here(a)' /\ alert'[a].incident_id = None =>
               (Here(a) /\ alert[a].incident_id = None) \/ MadeOf(a) = {}
      PROVE  Bounded(a)'
  <2>1. At("create", a)' = At("create", a) /\ At("mark", a)' = At("mark", a)
    BY <1>1 DEF At
  <2> QED BY <1>1, <2>1, BoundedUnchanged
<1>2. ASSUME CreateAlert PROVE Bounded(a)'
  <2>1. UNCHANGED <<pc, cand, incident, faults>>
    BY <1>2 DEF CreateAlert
  <2>2. a # created + 1 => alert'[a] = alert[a]
    BY <1>2 DEF CreateAlert, TypeInv, AlertsTyped
  <2>3. a = created + 1 => MadeOf(a) = {}
    BY Counts DEF FreshInv, TypeInv
  <2> QED BY <1>1, <2>1, <2>2, <2>3
<1>3. ASSUME NEW w \in Correlators, NEW r \in Alerts, TriggerCorrelation(w, r) PROVE Bounded(a)'
  <2>1. UNCHANGED <<alert, incident>> /\ pc[w] = "idle"
    BY <1>3 DEF TriggerCorrelation
  <2>2. CASE UNCHANGED <<pc, cand>> /\ Fault
    BY <1>1, <2>1, <2>2
  <2>3. CASE UNCHANGED faults
    <3>1. /\ \A v \in Correlators \ {w} : pc'[v] = pc[v] /\ cand'[v] = cand[v]
          /\ pc'[w] \in {"idle", "create"}
          /\ pc'[w] = "create" => cand'[w] = Correlated(r) /\ ~InIncident(Correlated(r))
      <4>1. CASE UNCHANGED <<pc, cand>>
        BY <2>1, <4>1
      <4>2. CASE ~UNCHANGED <<pc, cand>>
        BY <1>3, <4>2 DEF TriggerCorrelation, TypeInv, JobsTyped
      <4> QED BY <4>1, <4>2
    <3>2. At("mark", a)' = At("mark", a)
      BY <2>1, <3>1 DEF At
    <3>3. CASE pc'[w] = "create" /\ a \in cand'[w]
      <4>1. Here(a) /\ alert[a].incident_id = None
        BY <3>1, <3>3 DEF Correlated, InIncident
      <4> QED BY <2>1, <2>3, <3>2, <4>1, BoundedTrigger
    <3>4. CASE ~(pc'[w] = "create" /\ a \in cand'[w])
      <4>1. At("create", a)' \subseteq At("create", a)
        BY <3>1, <3>4 DEF At
      <4> QED BY <2>1, <2>3, <3>2, <4>1, BoundedUnchanged
    <3> QED BY <3>3, <3>4
  <2> QED BY <1>3, <2>2, <2>3 DEF TriggerCorrelation
<1>4. ASSUME NEW w \in Correlators, NEW b \in Alerts, MarkAlert(w, b) PROVE Bounded(a)'
  <2>1. pc[w] = "mark" /\ b \in cand[w] /\ UNCHANGED incident
    BY <1>4 DEF MarkAlert
  <2>2. /\ \A v \in Correlators \ {w} : pc'[v] = pc[v] /\ cand'[v] = cand[v]
        /\ cand'[w] = cand[w] \ {b}
        /\ pc'[w] = IF cand[w] = {b} THEN "idle" ELSE "mark"
    BY <1>4 DEF MarkAlert, TypeInv, JobsTyped
  <2>3. At("create", a)' \subseteq At("create", a)
    BY <2>1, <2>2 DEF At
  <2>4. a # b => At("mark", a)' = At("mark", a)
    BY <2>1, <2>2 DEF At
  <2>5. CASE UNCHANGED alert /\ Fault
    BY <2>1, <2>3, <2>5, BoundedUnchanged
  <2>6. CASE /\ alert' = IF Here(b) THEN [alert EXCEPT ![b].incident_id = ById(inc[w])] ELSE alert
             /\ UNCHANGED faults
    <3>1. ById(inc[w]) # None
      <4>1. ById(inc[w])[1] # None[1]
        BY DEF ById, None
      <4> QED BY <4>1
    <3>2. a # b => alert'[a] = alert[a]
      BY <2>6 DEF TypeInv, AlertsTyped
    <3>3. a = b => ~(Here(a)' /\ alert'[a].incident_id = None)
      BY <2>6, <3>1 DEF TypeInv, AlertsTyped, AlertDocs
    <3> QED BY <2>1, <2>3, <2>4, <2>6, <3>2, <3>3, BoundedUnchanged
  <2> QED BY <1>4, <2>5, <2>6 DEF MarkAlert
<1>5. ASSUME NEW w \in Correlators, CreateAutoIncident(w) PROVE Bounded(a)'
  <2>1. pc[w] = "create" /\ UNCHANGED <<alert, cand>>
    BY <1>5 DEF CreateAutoIncident
  <2>2. pc'[w] = "mark" /\ \A v \in Correlators \ {w} : pc'[v] = pc[v]
    BY <1>5 DEF CreateAutoIncident, TypeInv, JobsTyped
  <2>3. At("create", a)' = At("create", a) \ {w}
    BY <2>1, <2>2 DEF At
  <2>4. CASE UNCHANGED incident /\ Fault
    BY <2>1, <2>3, <2>4, BoundedUnchanged
  <2>5. CASE /\ incident' = [incident EXCEPT ![made + 1] =
                               [present |-> TRUE, alert_ids |-> cand[w], made_of |-> cand[w]]]
             /\ UNCHANGED faults
    <3>1. \A n \in IncidentIds : \/ incident'[n].made_of = incident[n].made_of
                                 \/ n = made + 1 /\ incident'[n].made_of = cand[w]
      BY <2>5 DEF TypeInv, IncidentsTyped
    <3>2. CASE a \in cand[w]
      <4>1. MadeOf(a)' \subseteq MadeOf(a) \cup {made + 1}
        BY <3>1 DEF MadeOf
      <4>2. w \in At("create", a) /\ w \notin At("mark", a)
        BY <2>1, <3>2 DEF At
      <4>3. At("mark", a)' = At("mark", a) \cup {w}
        BY <2>1, <2>2, <3>2 DEF At
      <4> QED BY <2>1, <2>3, <2>5, <4>1, <4>2, <4>3, BoundedCreate
    <3>3. CASE a \notin cand[w]
      <4>1. MadeOf(a)' \subseteq MadeOf(a)
        BY <3>1, <3>3 DEF MadeOf
      <4>2. At("mark", a)' = At("mark", a)
        BY <2>1, <2>2, <3>3 DEF At
      <4> QED BY <2>1, <2>3, <2>5, <4>1, <4>2, BoundedUnchanged
    <3> QED BY <3>2, <3>3
  <2> QED BY <1>5, <2>4, <2>5 DEF CreateAutoIncident
<1>6. ASSUME NEW b \in Alerts, DeleteAlert(b) PROVE Bounded(a)'
  <2>1. UNCHANGED <<pc, cand, incident, faults>>
    BY <1>6 DEF DeleteAlert
  <2>2. Here(a)' /\ alert'[a].incident_id = None => Here(a) /\ alert[a].incident_id = None
    BY <1>6 DEF DeleteAlert, TypeInv, AlertsTyped, AlertDocs
  <2> QED BY <1>1, <2>1, <2>2
<1>7. ASSUME NEW b \in Alerts, NEW n \in IncidentIds, LinkIncident(b, n) PROVE Bounded(a)'
  <2>1. UNCHANGED <<pc, cand, incident, faults>>
    BY <1>7 DEF LinkIncident
  <2>2. ByKey(n) # None
    <3>1. ByKey(n)[1] # None[1]
      BY DEF ByKey, None
    <3> QED BY <3>1
  <2>3. Here(a)' /\ alert'[a].incident_id = None => Here(a) /\ alert[a].incident_id = None
    BY <1>7, <2>2 DEF LinkIncident, TypeInv, AlertsTyped, AlertDocs
  <2> QED BY <1>1, <2>1, <2>3
<1>8. CASE CreateIncident \/ \E m \in Mergers : MergeDeletes(m) \/ MergeWrites(m)
  <2>1. UNCHANGED <<pc, cand, alert>> /\ (faults' = faults \/ Fault)
    BY <1>8 DEF CreateIncident, MergeDeletes, MergeWrites
  <2>2. MadeOf(a)' = MadeOf(a)
    BY <1>8, MadeOfKept
  <2> QED BY <1>1, <2>1, <2>2
<1>9. CASE Crash
  <2>1. UNCHANGED <<alert, incident>> /\ Fault /\ \A w \in Correlators : cand'[w] = {}
    BY <1>9 DEF Crash
  <2>2. At("create", a)' \subseteq At("create", a)
    BY <2>1 DEF At
  <2> QED BY <2>1, <2>2, BoundedUnchanged
<1>10. CASE \/ Sweep \/ Tick \/ Start \/ UNCHANGED vars
            \/ \E b \in Alerts : AskCorrelation(b)
            \/ \E m \in Mergers, n \in IncidentIds : MergeReads(m, n) \/ MergeTakes(m, n)
  <2>1. UNCHANGED <<pc, cand, alert, incident>> /\ (faults' = faults \/ Fault)
    BY <1>10 DEF Sweep, Tick, Start, vars, AskCorrelation, MergeReads, MergeTakes
  <2> QED BY <1>1, <2>1
<1> QED
  BY <1>2, <1>3, <1>4, <1>5, <1>6, <1>7, <1>8, <1>9, <1>10 DEF Next, Correlates

\* However the workers of the pools and the requests interleave, and however
\* often an alert is correlated, no more incidents are made of it than there are
\* correlators, once more for every fault (autoAggregateIncident).
THEOREM DuplicatesBoundedAlways == Spec => []DuplicatesBounded
<1>1. TypeInv /\ DuplicatesInv /\ [Next]_vars => (TypeInv /\ DuplicatesInv)'
  <2> SUFFICES ASSUME TypeInv, DuplicatesInv, [Next]_vars
               PROVE  TypeInv' /\ FreshInv' /\ \A a \in Alerts : Bounded(a)'
    BY DEF DuplicatesInv
  <2> QED BY NextTypeInv, NextFreshInv, NextBounded DEF DuplicatesInv
<1>2. TypeInv /\ DuplicatesInv => DuplicatesBounded
  <2> SUFFICES ASSUME TypeInv, DuplicatesInv, NEW a \in Alerts
               PROVE  Cardinality(MadeOf(a)) <= K * (faults + 1)
    BY DEF DuplicatesBounded, MadeOf, K
  <2>1. Cardinality(MadeOf(a)) + Cardinality(At("create", a)) <= K * (faults + 1)
    BY DEF DuplicatesInv, Bounded
  <2>2. Cardinality(MadeOf(a)) \in Nat /\ Cardinality(At("create", a)) \in Nat
    BY Counted
  <2>3. K * (faults + 1) \in Nat
    BY Counts, Products DEF TypeInv
  <2> QED BY <2>1, <2>2, <2>3
<1> QED BY <1>1, <1>2, InitTypeInv, InitDuplicatesInv, PTL DEF Spec

==============================================================================
