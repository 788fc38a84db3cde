-------------------------------- MODULE Service ------------------------------
(***************************************************************************)
(* The life of the service process (cmd/xsiam/main.go): the signals and    *)
(* the three goroutines that wait for one on a channel of capacity one,    *)
(* the two HTTP servers, the cron manager and the context its tasks run    *)
(* under, the exit, crashes and restarts; and, under that life, the        *)
(* reports: the goroutines that generate them and the cron task            *)
(* report_process_pending that triggers and repairs them.                  *)
(*                                                                         *)
(* Time is two flags of a report: "old", five minutes have passed since it *)
(* was created, and "due", its next_run_at has come.  No code writes the   *)
(* status "pending"; the task treats it like "scheduled" and due.          *)
(***************************************************************************)
EXTENDS Naturals, FiniteSets

CONSTANTS
    MaxReports,  \* bound on the reports, which are numbered by their created_at
    PageSize,    \* how many reports the task lists (100 in the code)
    MaxSignals,  \* bound on the signals sent to the process
    MaxFaults,   \* bound on crashes, failing calls and servers
    MaxSchedules \* bound on the calls of Schedule

ASSUME ServiceAssumption ==
    /\ MaxReports \in Nat /\ PageSize \in Nat
    /\ MaxSignals \in Nat /\ MaxFaults \in Nat /\ MaxSchedules \in Nat

Reports == 1 .. MaxReports
Servers == {"web", "internal"}
Receivers == Servers \cup {"main"}

VARIABLES
    up,        \* the process runs
    quit,      \* a signal is in the channel
    got,       \* the receivers that have taken one
    serving,   \* the servers whose ListenAndServe has not returned
    mainPc,    \* what main waits for
    cronOn,    \* the scheduler starts tasks
    task,      \* the reports report_process_pending still looks at, as listed
    running,   \* report_process_pending runs
    cancelled, \* bgCtx is cancelled
    report,    \* the reports collection
    jobs,      \* the goroutines that generate reports, by the context they have
    signals, faults, schedules

procVars == <<up, quit, got, serving, mainPc, cronOn, cancelled>>
taskVars == <<task, running>>
bounds == <<signals, faults, schedules>>
vars == <<procVars, taskVars, report, jobs, bounds>>

Statuses == {"none", "generating", "scheduled", "ready", "failed"}
NoReport == [status |-> "none", old |-> FALSE, due |-> FALSE]

Init ==
    /\ up = TRUE
    /\ quit = FALSE
    /\ got = {}
    /\ serving = Servers
    /\ mainPc = "quit"
    /\ cronOn = TRUE
    /\ task = {}
    /\ running = FALSE
    /\ cancelled = FALSE
    /\ report = [r \in Reports |-> NoReport]
    /\ jobs = {}
    /\ signals = 0
    /\ faults = 0
    /\ schedules = 0

Fault == faults < MaxFaults /\ faults' = faults + 1

-----------------------------------------------------------------------------
(* Signals, servers and the exit. *)

\* signal.Notify does not wait: a signal that finds the channel full is lost.
Signal ==
    /\ up
    /\ signals < MaxSignals
    /\ signals' = signals + 1
    /\ quit' = TRUE
    /\ UNCHANGED <<up, got, serving, mainPc, cronOn, cancelled, taskVars, report, jobs,
                   faults, schedules>>

\* Mutant: the goroutine of a server forgets to shut it down.
Closed_Web(r) == {r} \cap {"internal"}

\* Shutdown makes ListenAndServe return at once, while requests are drained.
Closed(r) == {r} \cap Servers

\* One of the three goroutines that receive from the channel takes the signal.
Receive(r) ==
    /\ up /\ quit
    /\ r \in Receivers \ got
    /\ quit' = FALSE
    /\ got' = got \cup {r}
    /\ serving' = serving \ Closed(r)
    /\ mainPc' = IF r = "main" THEN "cron" ELSE mainPc
    /\ cronOn' = (cronOn /\ r # "main")
    /\ UNCHANGED <<up, cancelled, taskVars, report, jobs, bounds>>

\* ListenAndServe fails; the process goes on without that server.
ServerFails(s) ==
    /\ up
    /\ s \in serving
    /\ Fault
    /\ serving' = serving \ {s}
    /\ UNCHANGED <<up, quit, got, mainPc, cronOn, cancelled, taskVars, report, jobs,
                   signals, schedules>>

\* Mutant: the context is cancelled without waiting for the tasks.
TasksDone_NotAwaited == TRUE

\* Manager.Shutdown waits for the tasks that run.
TasksDone == ~running

\* mgr.Shutdown returns, and bgCancel.
CronStopped ==
    /\ up
    /\ mainPc = "cron"
    /\ TasksDone
    /\ mainPc' = "wg"
    /\ cancelled' = TRUE
    /\ UNCHANGED <<up, quit, got, serving, cronOn, taskVars, report, jobs, bounds>>

\* What is left of a process that has ended.
Gone ==
    /\ up' = FALSE
    /\ quit' = FALSE
    /\ got' = {}
    /\ serving' = {}
    /\ mainPc' = "exited"
    /\ cronOn' = FALSE
    /\ cancelled' = TRUE
    /\ task' = {}
    /\ running' = FALSE
    /\ jobs' = {}

\* wg.Wait returns and so does main.
Exit ==
    /\ up
    /\ mainPc = "wg"
    /\ serving = {}
    /\ Gone
    /\ UNCHANGED <<report, bounds>>

Crash ==
    /\ up
    /\ Fault
    /\ Gone
    /\ UNCHANGED <<report, signals, schedules>>

Start ==
    /\ ~up
    /\ up' = TRUE
    /\ got' = {}
    /\ serving' = Servers
    /\ mainPc' = "quit"
    /\ cronOn' = TRUE
    /\ cancelled' = FALSE
    /\ UNCHANGED <<quit, taskVars, report, jobs, bounds>>

-----------------------------------------------------------------------------
(* Reports. *)

\* Service.Create, on a request: the goroutine has a context of its own.
CreateReport(r) ==
    /\ up
    /\ report[r] = NoReport
    /\ \A q \in 1 .. r - 1 : report[q] # NoReport
    /\ report' = [report EXCEPT ![r] = [status |-> "generating", old |-> FALSE, due |-> FALSE]]
    /\ jobs' = jobs \cup {<<r, "background">>}
    /\ UNCHANGED <<procVars, taskVars, bounds>>

\* A deleted report does not come back: its updates find no document.
DeleteReport(r) ==
    /\ up
    /\ report[r].status # "none"
    /\ report' = [report EXCEPT ![r] = [NoReport EXCEPT !.old = TRUE]]
    /\ UNCHANGED <<procVars, taskVars, jobs, bounds>>

\* Service.Schedule: next_run_at is now ("once") or later.
Schedule(r, now) ==
    /\ up
    /\ schedules < MaxSchedules
    /\ schedules' = schedules + 1
    /\ report[r].status # "none"
    /\ report' = [report EXCEPT ![r] = [status |-> "scheduled", old |-> @.old, due |-> now]]
    /\ UNCHANGED <<procVars, taskVars, jobs, signals, faults>>

\* Since created_at; nobody looks at the age of a report in another status, and
\* no report returns to this one.
FiveMinutesPass(r) ==
    /\ report[r].status = "generating" /\ ~report[r].old
    /\ report' = [report EXCEPT ![r].old = TRUE]
    /\ UNCHANGED <<procVars, taskVars, jobs, bounds>>

NextRunComes(r) ==
    /\ report[r].status = "scheduled" /\ ~report[r].due
    /\ report' = [report EXCEPT ![r].due = TRUE]
    /\ UNCHANGED <<procVars, taskVars, jobs, bounds>>

\* Mutant: the legacy name of a status is written.
SetStatus_Legacy(r, s) ==
    report' = IF report[r].status = "none" THEN report
              ELSE [report EXCEPT ![r].status = IF s = "ready" THEN "completed" ELSE s]

\* An update of a report, or of nothing if it is deleted.
SetStatus(r, s) == report' = IF report[r].status = "none" THEN report
                             ELSE [report EXCEPT ![r].status = s]

\* simulateGeneration: GetStats and the update.  Under a cancelled context both
\* fail and nothing is written.
JobEnds(r, ctx) ==
    /\ <<r, ctx>> \in jobs
    /\ jobs' = jobs \ {<<r, ctx>>}
    /\ \/ /\ ~(cancelled /\ ctx = "cron")
          /\ SetStatus(r, "ready")
          /\ UNCHANGED faults
       \/ ~(cancelled /\ ctx = "cron") /\ Fault /\ SetStatus(r, "failed")
       \/ Fault /\ UNCHANGED report
       \/ cancelled /\ ctx = "cron" /\ UNCHANGED <<report, faults>>
    /\ UNCHANGED <<procVars, taskVars, signals, schedules>>

Exists(r) == report[r].status # "none"

\* The first page of the collection as List sorts it: the reports of every status
\* with the oldest created_at.  No other page is ever asked for.
FirstPage ==
    {r \in Reports : Exists(r) /\ Cardinality({q \in 1 .. r - 1 : Exists(q)}) < PageSize}

\* report_process_pending begins: one page of reports is listed once.
ProcessPending ==
    /\ up /\ cronOn /\ ~running
    /\ \/ /\ task' = {[key |-> r, doc |-> report[r]] : r \in FirstPage}
          /\ running' = TRUE
          /\ UNCHANGED faults
       \/ Fault /\ UNCHANGED taskVars
    /\ UNCHANGED <<procVars, report, jobs, signals, schedules>>

\* Mutant: a report that hangs is left alone.
Stuck_Never(d) == FALSE

\* More than five minutes in "generating", by the report as it was listed.
Stuck(d) == d.status = "generating" /\ d.old

\* Mutant: a report is due only while its time has not come.
Due_Negated(d) == d.status = "scheduled" /\ ~d.due

Due(d) == d.status = "scheduled" /\ d.due

\* The task looks at the next report of its list.
ProcessReport(e) ==
    /\ running
    /\ e \in task
    /\ task' = task \ {e}
    /\ jobs' = IF Due(e.doc) THEN jobs \cup {<<e.key, "cron">>} ELSE jobs
    /\ \/ /\ IF Stuck(e.doc) THEN SetStatus(e.key, "failed") ELSE UNCHANGED report
          /\ UNCHANGED faults
       \/ Stuck(e.doc) /\ Fault /\ UNCHANGED report
    /\ UNCHANGED <<procVars, running, signals, schedules>>

TaskEnds ==
    /\ running
    /\ task = {}
    /\ running' = FALSE
    /\ UNCHANGED <<procVars, task, report, jobs, bounds>>

-----------------------------------------------------------------------------
Task == ProcessPending \/ TaskEnds \/ \E e \in task : ProcessReport(e)
Time(r) == FiveMinutesPass(r) \/ NextRunComes(r)
Job(r) == \E ctx \in {"background", "cron"} : JobEnds(r, ctx)

Next ==
    \/ Signal
    \/ \E r \in Receivers : Receive(r)
    \/ \E s \in Servers : ServerFails(s)
    \/ CronStopped
    \/ Exit
    \/ Crash
    \/ Start
    \/ \E r \in Reports : \/ CreateReport(r) \/ DeleteReport(r) \/ Job(r) \/ Time(r)
                          \/ \E now \in BOOLEAN : Schedule(r, now)
    \/ Task

Spec == Init /\ [][Next]_vars

\* Goroutines that can go on do (a signal in the channel is taken by one of those
\* that wait for it), time passes, cron starts its task, and the process is started
\* again after it has ended.
Fairness ==
    /\ WF_vars(\E r \in Receivers : Receive(r))
    /\ WF_vars(CronStopped \/ Exit \/ Start)
    /\ \A r \in Reports : WF_vars(Time(r)) /\ WF_vars(Job(r))
    /\ WF_vars(Task)
LiveSpec == Spec /\ Fairness

-----------------------------------------------------------------------------
(* Properties. *)

TypeOK ==
    /\ up \in BOOLEAN /\ quit \in BOOLEAN /\ cronOn \in BOOLEAN
    /\ running \in BOOLEAN /\ cancelled \in BOOLEAN
    /\ got \subseteq Receivers /\ serving \subseteq Servers
    /\ mainPc \in {"quit", "cron", "wg", "exited"}
    /\ \A e \in task : e.key \in Reports /\ e.doc.status \in Statuses
    /\ report \in [Reports -> [status : Statuses, old : BOOLEAN, due : BOOLEAN]]
    /\ jobs \subseteq Reports \X {"background", "cron"}
    /\ signals \in 0 .. MaxSignals /\ faults \in 0 .. MaxFaults /\ schedules \in 0 .. MaxSchedules

\* A graceful stop never cuts a cron task: the context of the tasks is not
\* cancelled, and main does not return, while one runs.
TaskUncut == running => ~cancelled /\ mainPc \in {"quit", "cron"}

\* Once main and the goroutine of every server that still serves have a signal,
\* the process ends.
StopsWhenSignalled == (up /\ "main" \in got /\ serving \subseteq got) ~> ~up

\* main has its signal and has stopped cron, and waits for a server whose
\* goroutine has none: the process serves on without cron until more signals come.
HalfStopped == up /\ "main" \in got /\ ~(serving \subseteq got)

\* A report that is on the first page, or comes there when older ones are
\* deleted, does not stay in "generating", however the process that generated it
\* ends, unless a process is left half stopped for good.  (One that hangs behind
\* the first page hangs for ever.)
ReportSettles ==
    \/ <>[]HalfStopped
    \/ \A r \in Reports : (r \in FirstPage /\ report[r].status = "generating")
                            ~> (report[r].status # "generating")

\* A scheduled report on the first page whose time has come is generated, although
\* the stop of a process takes its goroutine or its context away; with the same
\* exception.
DueReportRuns ==
    \/ <>[]HalfStopped
    \/ \A r \in Reports :
           (r \in FirstPage /\ report[r].status = "scheduled" /\ report[r].due)
               ~> (report[r].status # "scheduled" \/ ~report[r].due)
==============================================================================
