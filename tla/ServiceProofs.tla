----------------------------- MODULE ServiceProofs ---------------------------
(***************************************************************************)
(* Proofs about Service, for any set of reports and any bounds.            *)
(***************************************************************************)
EXTENDS Service, TLAPS

-----------------------------------------------------------------------------
(* Types. *)

LEMMA TypeInit == Init => TypeOK
<1> SUFFICES ASSUME Init PROVE TypeOK
    OBVIOUS
<1>1. report \in [Reports -> [status : Statuses, old : BOOLEAN, due : BOOLEAN]]
    BY DEF Init, NoReport, Statuses
<1>2. signals \in 0 .. MaxSignals /\ faults \in 0 .. MaxFaults /\ schedules \in 0 .. MaxSchedules
    BY ServiceAssumption DEF Init
<1>3. /\ up \in BOOLEAN /\ quit \in BOOLEAN /\ cronOn \in BOOLEAN
      /\ running \in BOOLEAN /\ cancelled \in BOOLEAN
    BY DEF Init
<1>4. /\ got \subseteq Receivers /\ serving \subseteq Servers
      /\ mainPc \in {"quit", "cron", "wg", "exited"}
      /\ jobs \subseteq Reports \X {"background", "cron"}
    BY DEF Init
<1> QED
    BY <1>1, <1>2, <1>3, <1>4 DEF Init, TypeOK

\* The steps of signals, servers and the process keep the types.
LEMMA TypeProcess ==
    ASSUME TypeOK,
           \/ Signal
           \/ \E r \in Receivers : Receive(r)
           \/ \E s \in Servers : ServerFails(s)
           \/ CronStopped \/ Exit \/ Crash \/ Start
    PROVE  TypeOK'
<1>1. CASE Signal
    BY <1>1, ServiceAssumption DEF TypeOK, Signal, taskVars
<1>2. CASE \E r \in Receivers : Receive(r)
    BY <1>2, ServiceAssumption DEF TypeOK, Receive, taskVars, bounds, Receivers, Servers
<1>3. CASE \E s \in Servers : ServerFails(s)
    BY <1>3, ServiceAssumption DEF TypeOK, ServerFails, Fault, taskVars
<1>4. CASE CronStopped
    BY <1>4 DEF TypeOK, CronStopped, taskVars, bounds
<1>5. CASE Exit
    BY <1>5 DEF TypeOK, Exit, Gone, bounds
<1>6. CASE Crash
  <2>1. faults' \in 0 .. MaxFaults
    BY <1>6, ServiceAssumption DEF TypeOK, Crash, Fault
  <2> QED
    BY <1>6, <2>1 DEF TypeOK, Crash, Gone
<1>7. CASE Start
    BY <1>7 DEF TypeOK, Start, taskVars, bounds, Servers
<1> QED
    BY <1>1, <1>2, <1>3, <1>4, <1>5, <1>6, <1>7

\* An update keeps the types of the collection.
LEMMA SetStatusType ==
    ASSUME NEW r \in Reports, NEW s \in Statuses, TypeOK, SetStatus(r, s)
    PROVE  report' \in [Reports -> [status : Statuses, old : BOOLEAN, due : BOOLEAN]]
  BY DEF TypeOK, SetStatus

\* What users and time do to reports keeps the types.
LEMMA TypeReport ==
    ASSUME TypeOK, NEW r \in Reports,
           \/ CreateReport(r) \/ DeleteReport(r)
           \/ \E now \in BOOLEAN : Schedule(r, now)
           \/ FiveMinutesPass(r) \/ NextRunComes(r)
    PROVE  TypeOK'
<1>1. CASE CreateReport(r)
    BY <1>1 DEF TypeOK, CreateReport, procVars, taskVars, bounds, Statuses
<1>2. CASE DeleteReport(r)
    BY <1>2 DEF TypeOK, DeleteReport, procVars, taskVars, bounds, NoReport, Statuses
<1>3. ASSUME NEW now \in BOOLEAN, Schedule(r, now)
      PROVE  TypeOK'
  <2>1. report' \in [Reports -> [status : Statuses, old : BOOLEAN, due : BOOLEAN]]
    BY <1>3 DEF TypeOK, Schedule, Statuses
  <2>2. schedules' \in 0 .. MaxSchedules
    BY <1>3, ServiceAssumption DEF TypeOK, Schedule
  <2> QED
    BY <1>3, <2>1, <2>2 DEF TypeOK, Schedule, procVars, taskVars
<1>4. CASE FiveMinutesPass(r)
    BY <1>4 DEF TypeOK, FiveMinutesPass, procVars, taskVars, bounds
<1>5. CASE NextRunComes(r)
    BY <1>5 DEF TypeOK, NextRunComes, procVars, taskVars, bounds
<1> QED
    BY <1>1, <1>2, <1>3, <1>4, <1>5

\* The goroutines and the cron task keep the types.
LEMMA TypeTask ==
    ASSUME TypeOK, (\E r \in Reports : Job(r)) \/ Task
    PROVE  TypeOK'
<1>1. ASSUME NEW r \in Reports, NEW ctx \in {"background", "cron"}, JobEnds(r, ctx)
      PROVE  TypeOK'
  <2>1. report' \in [Reports -> [status : Statuses, old : BOOLEAN, due : BOOLEAN]]
    BY <1>1, SetStatusType DEF TypeOK, JobEnds, Statuses
  <2>2. faults' \in 0 .. MaxFaults
    BY <1>1, ServiceAssumption DEF TypeOK, JobEnds, Fault
  <2> QED
    BY <1>1, <2>1, <2>2 DEF TypeOK, JobEnds, procVars, taskVars
<1>2. CASE ProcessPending
  <2>1. \A e \in task' : e.key \in Reports /\ e.doc.status \in Statuses
    <3>1. CASE task' = {[key |-> r, doc |-> report[r]] : r \in FirstPage}
      <4>1. FirstPage \subseteq Reports
        BY DEF FirstPage
      <4>2. \A r \in Reports : report[r].status \in Statuses
        BY DEF TypeOK
      <4> QED
        BY <3>1, <4>1, <4>2
    <3>2. CASE UNCHANGED task
      BY <3>2 DEF TypeOK
    <3> QED
      BY <1>2, <3>1, <3>2 DEF ProcessPending, taskVars
  <2>2. faults' \in 0 .. MaxFaults
    BY <1>2, ServiceAssumption DEF TypeOK, ProcessPending, Fault
  <2>3. running' \in BOOLEAN
    BY <1>2 DEF TypeOK, ProcessPending, taskVars
  <2> QED
    BY <1>2, <2>1, <2>2, <2>3 DEF TypeOK, ProcessPending, procVars
<1>3. ASSUME NEW e \in task, ProcessReport(e)
      PROVE  TypeOK'
  <2>1. report' \in [Reports -> [status : Statuses, old : BOOLEAN, due : BOOLEAN]]
    BY <1>3, SetStatusType DEF TypeOK, ProcessReport, Statuses
  <2>2. faults' \in 0 .. MaxFaults
    BY <1>3, ServiceAssumption DEF TypeOK, ProcessReport, Fault
  <2>3. jobs' \subseteq Reports \X {"background", "cron"}
    BY <1>3 DEF TypeOK, ProcessReport
  <2> QED
    BY <1>3, <2>1, <2>2, <2>3 DEF TypeOK, ProcessReport, procVars
<1>4. CASE TaskEnds
    BY <1>4 DEF TypeOK, TaskEnds, procVars, bounds
<1> QED
    BY <1>1, <1>2, <1>3, <1>4 DEF Job, Task

LEMMA TypeNext == TypeOK /\ [Next]_vars => TypeOK'
<1> SUFFICES ASSUME TypeOK, [Next]_vars PROVE TypeOK'
    OBVIOUS
<1>1. CASE UNCHANGED vars
    BY <1>1 DEF TypeOK, vars, procVars, taskVars, bounds
<1>2. CASE Next
    BY <1>2, TypeProcess, TypeReport, TypeTask DEF Next, Time
<1> QED
    BY <1>1, <1>2

\* The variables keep their types; in particular no code path writes a status
\* that the console does not know (model.ReportStatus).
THEOREM TypeCorrect == Spec => []TypeOK
<1> QED
    BY TypeInit, TypeNext, PTL DEF Spec

-----------------------------------------------------------------------------
(* A stop cuts no task. *)

\* While the scheduler of a running process starts tasks, main has not yet been
\* told to stop and the context is not cancelled.
CronMeansService == up /\ cronOn => mainPc = "quit" /\ ~cancelled

IInv == TaskUncut /\ CronMeansService

LEMMA UncutInit == Init => IInv
  BY DEF Init, IInv, TaskUncut, CronMeansService

LEMMA UncutNext == IInv /\ [Next]_vars => IInv'
<1> SUFFICES ASSUME IInv, [Next]_vars PROVE IInv'
    OBVIOUS
<1> USE DEF IInv, TaskUncut, CronMeansService
<1>1. CASE UNCHANGED vars
    BY <1>1 DEF vars, procVars, taskVars
<1>2. CASE Signal
    BY <1>2 DEF Signal, taskVars
<1>3. ASSUME NEW r \in Receivers, Receive(r)
      PROVE  IInv'
  <2>1. CASE r = "main"
    BY <1>3, <2>1 DEF Receive, taskVars
  <2>2. CASE r # "main"
    <3>1. mainPc' = mainPc /\ (cronOn' => cronOn)
        BY <1>3, <2>2, Zenon DEF Receive
    <3> QED
        BY <1>3, <3>1 DEF Receive, taskVars
  <2> QED
    BY <2>1, <2>2
<1>4. CASE \E s \in Servers : ServerFails(s)
    BY <1>4 DEF ServerFails, taskVars
<1>5. CASE CronStopped
    BY <1>5 DEF CronStopped, TasksDone, taskVars
<1>6. CASE Exit \/ Crash
    BY <1>6 DEF Exit, Crash, Gone
<1>7. CASE Start
    BY <1>7 DEF Start, taskVars
<1>8. CASE \E r \in Reports : \/ CreateReport(r) \/ DeleteReport(r) \/ Job(r) \/ Time(r)
                              \/ \E now \in BOOLEAN : Schedule(r, now)
    BY <1>8 DEF CreateReport, DeleteReport, Job, JobEnds, Schedule, Time, FiveMinutesPass,
                NextRunComes, procVars, taskVars
<1>9. CASE Task
    BY <1>9 DEF Task, ProcessPending, TaskEnds, ProcessReport, procVars, taskVars
<1> QED
    BY <1>1, <1>2, <1>3, <1>4, <1>5, <1>6, <1>7, <1>8, <1>9 DEF Next

\* However signals, failures, crashes and restarts interleave with the cron
\* task, main never cancels the context of a task that runs, and never returns
\* under it (Manager.Shutdown, bgCancel, wg.Wait).
THEOREM TaskUncutAlways == Spec => []TaskUncut
<1>1. IInv => TaskUncut
    BY DEF IInv
<1> QED
    BY UncutInit, UncutNext, <1>1, PTL DEF Spec
==============================================================================
