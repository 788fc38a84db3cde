------------------------------- MODULE Incidents -----------------------------
(***************************************************************************)
(* From alerts to incidents: the alert service, the pool of workers that   *)
(* correlate every new alert (CausalityService, CorrelationPool), the cron *)
(* task that sweeps the alerts of the last five minutes into a pool of its *)
(* own, correlation on request, and the incident service.  Every call that *)
(* writes is a step of its own on the shared database; reads that follow   *)
(* each other are one step.                                                *)
(*                                                                         *)
(* Alerts made by the service carry an asset and MITRE tactics and neither *)
(* indicators nor a user, so they are correlated by their asset.  All of   *)
(* them lie within the 24 hours that findCorrelatedAlerts looks back.  The *)
(* causality graph is written and never read by what is modelled here.     *)
(***************************************************************************)
EXTENDS Naturals, Sequences, FiniteSets, FiniteSetsExt

CONSTANTS
    MaxAlerts,    \* bound on the alerts, which are numbered as they are made
    AssetOf,      \* the asset of an alert
    TacticsOf,    \* the MITRE tactics of an alert
    PoolWorkers,  \* the workers of the service's pool
    Others,       \* the workers of the sweep's pools, and requests that correlate
    QueueCap,     \* the length of the pool's queue (4096 in the code)
    MaxIncidents, \* bound on the incidents made
    Mergers,      \* the requests to merge that are served at once
    Period,       \* the five minutes between two sweeps, in units of time
    MaxLate,      \* how late after the mark a sweep may read the clock
    Budgets       \* bounds that a behaviour may have: on its time, its faults
                  \* (crashes, failing calls), its edits by users and its merges

Alerts == 1 .. MaxAlerts
Correlators == PoolWorkers \cup Others
IncidentIds == 1 .. MaxIncidents

ASSUME IncidentsAssumption ==
    /\ IsFiniteSet(Correlators)
    /\ PoolWorkers \cap Others = {}
    /\ DOMAIN AssetOf = Alerts /\ DOMAIN TacticsOf = Alerts
    /\ \A a \in Alerts : IsFiniteSet(TacticsOf[a])
    /\ {MaxAlerts, QueueCap, MaxIncidents} \subseteq Nat
    /\ Budgets \subseteq [now : Nat, faults : Nat, edits : Nat, merges : Nat]
    /\ Period \in Nat /\ MaxLate \in Nat /\ MaxLate < Period

VARIABLES
    up,         \* the service runs
    now,        \* the time; sweeps are due at the multiples of Period
    due,        \* cron has called the sweep, and it has not read the clock yet
    alert,      \* the alerts collection
    created,    \* alerts made so far
    incident,   \* the incidents collection
    made,       \* incidents made so far
    queue,      \* CorrelationPool.queue
    asked,      \* alerts the sweep or a request has handed to the others
    pc, cand,   \* what a correlator does, and the alerts it still has to mark
    inc,        \* the incident it is making
    merge,      \* merge[m]: the Merge that request m has under way
    unmade,     \* history: the incidents whose Create failed
    clash,      \* history: a merge has met an incident another one writes or deletes
    budget,     \* the bounds of this behaviour; never changes
    faults, edits, merges

timeVars == <<now, due>>
jobVars == <<pc, cand, inc>>
mergeVars == <<merge, clash, merges>>
vars == <<budget, up, timeVars, alert, created, incident, made, queue, asked, jobVars, mergeVars, unmade,
          faults, edits>>

-----------------------------------------------------------------------------
(* The incident_id of an alert is the IncidentID of an incident when the      *)
(* correlation has set it and the key of an incident when LinkIncident has.   *)

None == <<"none", 0>>
ById(n) == <<"id", n>>
ByKey(n) == <<"key", n>>
NoMerge == [pc |-> "none", primary |-> 0, secondary |-> 0, ids |-> {}]

Here(a) == alert[a].present
Live(n) == incident[n].present

Init ==
    /\ budget \in Budgets
    /\ up = TRUE
    /\ now = 0
    /\ due = FALSE
    /\ alert = [a \in Alerts |-> [present |-> FALSE, at |-> 0, incident_id |-> None]]
    /\ created = 0
    /\ incident = [n \in IncidentIds |-> [present |-> FALSE, alert_ids |-> {}, made_of |-> {}]]
    /\ made = 0
    /\ queue = << >>
    /\ asked = {}
    /\ pc = [w \in Correlators |-> "idle"]
    /\ cand = [w \in Correlators |-> {}]
    /\ inc = [w \in Correlators |-> 0]
    /\ merge = [m \in Mergers |-> NoMerge]
    /\ unmade = {}
    /\ clash = FALSE
    /\ faults = 0
    /\ edits = 0
    /\ merges = 0

\* A database call fails, or the process does.
Fault == faults < budget.faults /\ faults' = faults + 1

-----------------------------------------------------------------------------
(* Alerts enter, and are queued for correlation. *)

\* Mutant: the queue has no limit.
Submit_NoLimit(a) == queue' = Append(queue, a)

\* CorrelationPool.Submit: what the queue has no room for is dropped.
Submit(a) == queue' = IF Len(queue) < QueueCap THEN Append(queue, a) ELSE queue

\* Service.Create: TriggeredAt is read before the document is inserted, so a
\* sweep may come between the two.
CreateAlert ==
    /\ up
    /\ created < MaxAlerts
    /\ created' = created + 1
    /\ \E at \in {now, now - 1} \cap Nat :
           alert' = [alert EXCEPT ![created'] = [present |-> TRUE, at |-> at, incident_id |-> None]]
    /\ Submit(created')
    /\ UNCHANGED <<budget, up, timeVars, incident, made, asked, jobVars, mergeVars, unmade, faults, edits>>

\* Time passes whether the service runs or not.  Cron calls the sweep at the
\* mark if it does, and the sweep reads the clock at most MaxLate later.
Tick ==
    /\ now < budget.now
    /\ due => now % Period < MaxLate
    /\ now' = now + 1
    /\ due' = (due \/ (up /\ now' % Period = 0))
    /\ UNCHANGED <<budget, up, alert, created, incident, made, queue, asked, jobVars, mergeVars, unmade,
                   faults, edits>>

\* Mutant: an alert of exactly five minutes ago is too old.
SweepWindow_Open(a) == Here(a) /\ alert[a].at + Period > now

\* FindByTimeRange of the last five minutes, wherever the last sweep ended.
SweepWindow(a) == Here(a) /\ alert[a].at + Period >= now

\* alert_correlation_sweep.  Its pool holds all of them: the alerts of five
\* minutes are fewer than its queue is long.
Sweep ==
    /\ due
    /\ due' = FALSE
    /\ \/ /\ asked' = asked \cup {a \in Alerts : SweepWindow(a)}
          /\ UNCHANGED faults
       \/ Fault /\ UNCHANGED asked
    /\ UNCHANGED <<budget, up, now, alert, created, incident, made, queue, jobVars, mergeVars, unmade, edits>>

-----------------------------------------------------------------------------
(* TriggerCorrelation. *)

\* findCorrelatedAlerts: the alerts of the same asset, the root among them.
Correlated(a) == {b \in Alerts : Here(b) /\ AssetOf[b] = AssetOf[a]}

\* calcEdgeWeight, in tenths: the asset is shared.
EdgeWeight(a, b) ==
    Min({10, 4 + 3 * Cardinality(TacticsOf[a] \cap TacticsOf[b])})

\* buildDAG and calcGraphConfidence for a root and other alerts of one asset:
\* an edge of weight 1 from every alert to the asset, one from the root to every
\* other alert.  0.7 * (weight / edges) + 0.3 * (edges / pairs) >= 0.7, in
\* integers.  That buildDAG stops at MaxGraphNodes (500) is left out.
Confident(root, C) ==
    LET others == C \ {root}
        nodes  == Cardinality(C) + 1
        edges  == Cardinality(C) + Cardinality(others)
        tenths == 10 * Cardinality(C) + MapThenSumSet(LAMBDA b : EdgeWeight(root, b), others)
        pairs  == (nodes * (nodes - 1)) \div 2
    IN  7 * tenths * pairs + 30 * edges * edges >= 70 * edges * pairs

\* Mutant: correlation does not look whether an alert has an incident already.
InIncident_Never(C) == FALSE

\* autoAggregateIncident returns at the first alert that has an incident.
InIncident(C) == \E b \in C : alert[b].incident_id # None

\* Where a correlator gets its next alert from.
Takes(w, a) ==
    \/ /\ w \in PoolWorkers /\ queue # << >> /\ a = Head(queue)
       /\ queue' = Tail(queue)
       /\ UNCHANGED asked
    \/ /\ w \in Others /\ a \in asked
       /\ asked' = asked \ {a}
       /\ UNCHANGED queue

\* The alert and those correlated with it are read.  They become an incident if
\* there are two or more, the graph is confident, and none has one.
TriggerCorrelation(w, a) ==
    /\ up
    /\ pc[w] = "idle"
    /\ Takes(w, a)
    /\ \/ LET C == Correlated(a)
              go == Here(a) /\ Cardinality(C) >= 2 /\ Confident(a, C) /\ ~InIncident(C)
          IN  /\ pc' = [pc EXCEPT ![w] = IF go THEN "create" ELSE "idle"]
              /\ cand' = [cand EXCEPT ![w] = IF go THEN C ELSE {}]
              /\ UNCHANGED faults
       \/ Fault /\ UNCHANGED <<pc, cand>>
    /\ UNCHANGED <<budget, up, timeVars, alert, created, incident, made, inc, mergeVars, unmade, edits>>

\* buildAutoIncident and incRepo.Create, whose error is ignored.
CreateAutoIncident(w) ==
    /\ pc[w] = "create"
    /\ made < MaxIncidents
    /\ made' = made + 1
    /\ inc' = [inc EXCEPT ![w] = made + 1]
    /\ pc' = [pc EXCEPT ![w] = "mark"]
    /\ \/ /\ incident' = [incident EXCEPT ![made + 1] =
                             [present |-> TRUE, alert_ids |-> cand[w], made_of |-> cand[w]]]
          /\ UNCHANGED <<unmade, faults>>
       \/ /\ Fault
          /\ unmade' = unmade \cup {made + 1}
          /\ UNCHANGED incident
    /\ UNCHANGED <<budget, up, timeVars, alert, created, queue, asked, cand, mergeVars, edits>>

\* The alerts get its IncidentID one by one, an error is ignored.  The order is
\* that of the query's result, which states none.
MarkAlert(w, a) ==
    /\ pc[w] = "mark"
    /\ a \in cand[w]
    /\ cand' = [cand EXCEPT ![w] = @ \ {a}]
    /\ pc' = [pc EXCEPT ![w] = IF cand[w] = {a} THEN "idle" ELSE "mark"]
    /\ inc' = [inc EXCEPT ![w] = IF cand[w] = {a} THEN 0 ELSE @]
    /\ \/ /\ alert' = IF Here(a) THEN [alert EXCEPT ![a].incident_id = ById(inc[w])] ELSE alert
          /\ UNCHANGED faults
       \/ Fault /\ UNCHANGED alert
    /\ UNCHANGED <<budget, up, timeVars, created, incident, made, queue, asked, mergeVars, unmade, edits>>

-----------------------------------------------------------------------------
(* What users do. *)

Edit == up /\ edits < budget.edits /\ edits' = edits + 1

\* CausalityHandler.TriggerCorrelation, and BulkCorrelate for each alert.
AskCorrelation(a) ==
    /\ Edit
    /\ a <= created
    /\ asked' = asked \cup {a}
    /\ UNCHANGED <<budget, up, timeVars, alert, created, incident, made, queue, jobVars, mergeVars, unmade, faults>>

DeleteAlert(a) ==
    /\ Edit
    /\ Here(a)
    /\ alert' = [alert EXCEPT ![a].present = FALSE]
    /\ UNCHANGED <<budget, up, timeVars, created, incident, made, queue, asked, jobVars, mergeVars, unmade, faults>>

\* alert.Service.LinkIncident writes the key of an incident it has found.
LinkIncident(a, n) ==
    /\ Edit
    /\ Here(a) /\ Live(n)
    /\ alert' = [alert EXCEPT ![a].incident_id = ByKey(n)]
    /\ UNCHANGED <<budget, up, timeVars, created, incident, made, queue, asked, jobVars, mergeVars, unmade, faults>>

\* incident.Service.Create makes an incident without alerts.
CreateIncident ==
    /\ Edit
    /\ made < MaxIncidents
    /\ made' = made + 1
    /\ incident' = [incident EXCEPT ![made + 1].present = TRUE]
    /\ UNCHANGED <<budget, up, timeVars, alert, created, queue, asked, jobVars, mergeVars, unmade, faults>>

\* Merge reads the primary.
MergeReads(m, p) ==
    /\ up
    /\ merges < budget.merges /\ merges' = merges + 1
    /\ merge[m].pc = "none"
    /\ Live(p)
    /\ merge' = [merge EXCEPT ![m] = [pc |-> "loop", primary |-> p, secondary |-> 0,
                                      ids |-> incident[p].alert_ids]]
    /\ clash' = (clash \/ \E x \in Mergers : p \in {merge[x].primary, merge[x].secondary})
    /\ UNCHANGED <<budget, up, timeVars, alert, created, incident, made, queue, asked, jobVars, unmade, faults, edits>>

\* Mutant: the alerts of a secondary are not added to those of the primary.
MergeTakes_NoIds(m, s) ==
    /\ merge[m].pc = "loop"
    /\ Live(s)
    /\ merge' = [merge EXCEPT ![m].pc = "delete", ![m].secondary = s]
    /\ clash' = (clash \/ \E x \in Mergers : s = merge[x].primary)
    /\ merges' = merges
    /\ UNCHANGED <<budget, up, timeVars, alert, created, incident, made, queue, asked, jobVars, unmade,
                   faults, edits>>

\* Merge reads the next secondary, which nothing keeps from being the primary.
\* For its alerts it calls Update with the AlertID where a key is expected,
\* which finds no document.
MergeTakes(m, s) ==
    /\ merge[m].pc = "loop"
    /\ Live(s)
    /\ merge' = [merge EXCEPT ![m].pc = "delete", ![m].secondary = s,
                              ![m].ids = @ \cup incident[s].alert_ids]
    /\ clash' = (clash \/ \E x \in Mergers : s = merge[x].primary)
    /\ merges' = merges
    /\ UNCHANGED <<budget, up, timeVars, alert, created, incident, made, queue, asked, jobVars, unmade,
                   faults, edits>>

\* Merge deletes the secondary; an error is ignored.
MergeDeletes(m) ==
    /\ merge[m].pc = "delete"
    /\ merge' = [merge EXCEPT ![m].pc = "loop"]
    /\ \/ incident' = [incident EXCEPT ![merge[m].secondary].present = FALSE] /\ UNCHANGED faults
       \/ Fault /\ UNCHANGED incident
    /\ UNCHANGED <<budget, up, timeVars, alert, created, made, queue, asked, jobVars, clash, merges, unmade, edits>>

\* The primary is written with the alerts it had when it was read and theirs.
MergeWrites(m) ==
    /\ merge[m].pc = "loop"
    /\ merge' = [merge EXCEPT ![m] = NoMerge]
    /\ \/ /\ incident' = IF Live(merge[m].primary)
                         THEN [incident EXCEPT ![merge[m].primary].alert_ids = merge[m].ids]
                         ELSE incident
          /\ UNCHANGED faults
       \/ Fault /\ UNCHANGED incident
    /\ UNCHANGED <<budget, up, timeVars, alert, created, made, queue, asked, jobVars, clash, merges, unmade, edits>>

-----------------------------------------------------------------------------
(* The process. *)

Crash ==
    /\ up
    /\ Fault
    /\ up' = FALSE
    /\ queue' = << >>
    /\ asked' = {}
    /\ pc' = [w \in Correlators |-> "idle"]
    /\ cand' = [w \in Correlators |-> {}]
    /\ inc' = [w \in Correlators |-> 0]
    /\ merge' = [m \in Mergers |-> NoMerge]
    /\ due' = FALSE
    /\ UNCHANGED <<budget, now, alert, created, incident, made, clash, merges, unmade, edits>>

Start ==
    /\ ~up
    /\ up' = TRUE
    /\ UNCHANGED <<budget, timeVars, alert, created, incident, made, queue, asked, jobVars, mergeVars,
                   unmade, faults, edits>>

Correlates(w) ==
    \/ \E a \in Alerts : TriggerCorrelation(w, a) \/ MarkAlert(w, a)
    \/ CreateAutoIncident(w)

Next ==
    \/ CreateAlert
    \/ Tick
    \/ Sweep
    \/ \E w \in Correlators : Correlates(w)
    \/ \E a \in Alerts : AskCorrelation(a) \/ DeleteAlert(a)
    \/ \E a \in Alerts, n \in IncidentIds : LinkIncident(a, n)
    \/ CreateIncident
    \/ \E m \in Mergers, n \in IncidentIds : MergeReads(m, n) \/ MergeTakes(m, n)
    \/ \E m \in Mergers : MergeDeletes(m) \/ MergeWrites(m)
    \/ Crash
    \/ Start

Spec == Init /\ [][Next]_vars

\* The workers and the requests run, time passes, the sweep that cron calls runs,
\* and the service is started again.
Fairness ==
    /\ \A w \in Correlators : WF_vars(Correlates(w))
    /\ WF_vars(Tick)
    /\ WF_vars(Sweep)
    /\ WF_vars(Start)
LiveSpec == Spec /\ Fairness

-----------------------------------------------------------------------------
(* Properties. *)

TypeOK ==
    /\ up \in BOOLEAN
    /\ budget \in Budgets
    /\ now \in 0 .. budget.now /\ due \in BOOLEAN
    /\ alert \in [Alerts -> [present : BOOLEAN, at : Nat,
                             incident_id : {None} \cup {ById(n) : n \in IncidentIds}
                                                  \cup {ByKey(n) : n \in IncidentIds}]]
    /\ incident \in [IncidentIds -> [present : BOOLEAN, alert_ids : SUBSET Alerts,
                                     made_of : SUBSET Alerts]]
    /\ created \in 0 .. MaxAlerts /\ made \in 0 .. MaxIncidents
    /\ queue \in Seq(Alerts) /\ Len(queue) <= QueueCap
    /\ asked \subseteq Alerts
    /\ pc \in [Correlators -> {"idle", "create", "mark"}]
    /\ cand \in [Correlators -> SUBSET Alerts]
    /\ inc \in [Correlators -> 0 .. MaxIncidents]
    /\ merge \in [Mergers -> [pc : {"none", "loop", "delete"}, primary : 0 .. MaxIncidents,
                              secondary : 0 .. MaxIncidents, ids : SUBSET Alerts]]
    /\ unmade \subseteq IncidentIds /\ clash \in BOOLEAN
    /\ faults \in 0 .. budget.faults /\ edits \in 0 .. budget.edits
    /\ merges \in 0 .. budget.merges

\* The check for an incident and the creation of one are not atomic, so workers
\* that overlap make several incidents of one alert: never more than there are
\* correlators, once more for every crash or failed call that lets them start
\* again, however often the alert is correlated.
DuplicatesBounded ==
    \A a \in Alerts :
        Cardinality({n \in IncidentIds : a \in incident[n].made_of})
            <= Cardinality(Correlators) * (faults + 1)

\* An alert that an incident was made of stays in the list of some incident that
\* is there, or of one that a merge under way is about to write, through any
\* merges one after the other and at once, unless a crash or a failed call comes
\* between the steps of a merge, or a merge meets an incident that a merge under
\* way (itself included) has as its primary, or one that is being deleted as its
\* own primary.  Then alerts are lost: Merge writes what it read.
MergeKeepsAlerts ==
    faults = 0 /\ ~clash =>
        \A n \in IncidentIds : \A a \in incident[n].made_of :
            \/ \E k \in IncidentIds : Live(k) /\ a \in incident[k].alert_ids
            \/ \E m \in Mergers : a \in merge[m].ids /\ Live(merge[m].primary)

\* The next time cron calls the sweep.
NextMark == (now \div Period + 1) * Period

\* An incident has been made of an alert of the asset of a, or a user has linked
\* one of them to an incident there was.
Aggregated(a) ==
    \/ \E n \in IncidentIds : incident[n].made_of \cap Correlated(a) # {}
    \/ \E b \in Correlated(a), n \in IncidentIds : alert[b].incident_id = ByKey(n)

\* After the last fault, and if no Create of an incident has failed, two alerts of
\* one asset that are there before the next mark, neither of them triggered so
\* soon after the last one that a late sweep misses it, become an incident or find
\* one, although the queue may have dropped either or both.  (A mark that passes
\* while the service is down is never made up for.)  The bounds on time and on
\* incidents, and the last fault, are those of the model.
PairBecomesIncident ==
    \A a, b \in Alerts :
        a < b /\ AssetOf[a] = AssetOf[b] =>
        (/\ up /\ faults = budget.faults /\ unmade = {}
         /\ Here(a) /\ Here(b) /\ NextMark + MaxLate <= budget.now
         /\ \A c \in {a, b} : alert[c].at + Period >= NextMark + MaxLate)
            ~> (~Here(a) \/ ~Here(b) \/ Aggregated(a) \/ made = MaxIncidents)
==============================================================================
