# xsiam: TLA+ models, checks and proofs

xsiam collects endpoint and syslog events and serves a security console over
them. This directory models the path the repository's own code builds from an
endpoint agent to the stores (the agent's buffer, the wire protocol, the
gateway's sessions and cache, the distributed presence of agents, the delivery
of log records), and of the service behind it the correlation of alerts, the
reports, and the life of the process itself.
Paths below are relative to `src/`.

Sections: 1 inventory, 2 modules and code, 3 runs, 4 bounds, 5 fairness,
6 proofs, 7 limits, 8 findings, 9 plan.

## 1. Inventory

```
 agent (Wazuh fork)  --WZCP/TCP-->  gateway (Fluent Bit)  --XLOG/HTTP-->  xsiam service
   xsiam_wzcp.c                       in_xsiam_agent                        ingest -> etl
   client-agent/*                     out_xsiam_log                        -> lake, ArangoDB
                                        |   \--- life-cycle events (HTTP) --> device service
                                        |                                     -> Redis, ArangoDB
                                        \------- AQL UPSERT of devices -----> ArangoDB
```

| part | source | state | operations | what is hard |
|---|---|---|---|---|
| agent input | `gateway/plugins/in_xsiam_agent/` | connections, cache of agent states, dirty flags | accept, HELLO, HEARTBEAT, EVENT_BATCH, syslog, probe, flush, exit | half-open sessions next to their successors; flushes applied but not acknowledged; crash |
| WZCP client | `agents/shared/xsiam_wzcp.c`, `agents/client-agent/` | one socket, shared by threads; the wait flag | handshake, send_msg, heartbeat, receive, reconnect | frames written in pieces without a lock; reconnect under a writer |
| agent buffer | `agents/client-agent/buffer.c` | a ring of messages, its level, flags | append, dispatch, report, resize | slots and flags written outside the mutex; a reload under a running dispatcher |
| presence and GC | `xsiam/internal/presence/` | Redis: online set, set per instance, lease key per instance | Touch, Remove, RenewFB, GC.Run | every call is remote; handlers, GC and gateways interleave |
| device life cycle | `xsiam/internal/domain/device/` | `agent_status` of documents | HandleAgentEvent | decides on a document read earlier; two writers of the same field |
| XLOG output | `gateway/plugins/out_xsiam_log/` | the chunk being flushed, rows of the frame | cb_flush, send_xlog_frame | a whole chunk is retried after part of it was accepted |
| ingest | `xsiam/internal/ingest/` | none between requests | decode, route, write | several stores, each of which may fail |
| ETL | `xsiam/internal/etl/` | rules, dedup window | Process, IsDuplicate | the window outlives the request that marked it |
| data lake, log entries | `xsiam/internal/datalake/`, `xsiam/internal/repository/log_entry.go` | the stores | Ingest, BulkCreate | partial writes |
| main, cron | `xsiam/cmd/xsiam/main.go`, `xsiam/internal/cron/` | quit channel, jobs | start, stop | one signal, three receivers |
| reports | `xsiam/internal/domain/report/` | status of documents | create, schedule, generate, repair | goroutines that outlive the task, the context or the process |
| alerts, incidents | `xsiam/internal/domain/alert/`, `.../incident/` | documents, queue of a pool | create, correlate, link, merge | check, then create; a queue that drops; deletes before writes |
| other domain services | `xsiam/internal/domain/*` | documents | CRUD, some state machines | read-modify-write of shared documents |
| console, scripts, vendored trees | `web/`, `initdb/`, Fluent Bit, Wazuh | - | - | not modelled |

What makes each modelled part correct:

* **Gateway**: the cache never claims a session that is not there; what is not
  dirty is in the database; the silent death of a session it probes ends up in
  the database; a clean stop leaves every agent offline.
* **Wire protocol**: the gateway dispatches the frames the agent wrote, once,
  whole, in order, and leaves none waiting; a link known to be broken is
  replaced.
* **Agent buffer**: accepted messages leave once, in order, none lost in the
  ring; the manager is not left with an alarm that is over; a flood ends.
* **Presence**: no document stays online with nobody left to correct it; an
  agent that is gone is offline in the end; the status of one that stays comes
  to be what its instance says, whatever was lost or swept before.
* **Delivery**: what is acknowledged is stored; where there is a lake, raw events
  precede what is derived from them; retries bound the copies; every chunk
  settles.
* **Incidents**: duplicates are bounded by the correlators and the faults; an alert
  the queue dropped is correlated by the next sweep; merges that keep clear of
  each other keep the alerts.
* **Service**: a stop cuts no task and comes to an end; the reports the task
  lists settle whatever becomes of the process that generates them.

`PROJECT.json` lists the components, the hazards with the line where each
bites, and the source lines of every definition.

## 2. Modules and code

Each component has one module; an `MC` module names the sets its
configurations use; a `Proofs` module holds the theorems. Three modules are
abstract: they state what a component promises, and a run shows that the
component implements it under a refinement mapping; for `WriteBehind`, and for
the safety part of `BoundedFifo`, a theorem shows it for every instance.

| abstract | implemented by | mapping |
|---|---|---|
| `BoundedFifo` | `AgentBuffer` | the queue is the slots from `j` to `i`, read round the ring; the message given out is `msg_output` |
| `FrameChannel` | `Wzcp` with one thread | the queue is the frames whose prefix is in the buffer or on the wire; delivered is what `process_frames` has dispatched |
| `WriteBehind` | `Gateway` | the values are status and connected flag of an agent, in the cache and in the collection; pending is `dirty` |

### Gateway

One instance of `in_xsiam_agent`. The engine runs its callbacks to completion
on one thread, so one callback, or one frame of `conn_event`, is one action.

| module | code |
|---|---|
| `conns`, `agent_key`, `protocol_tag` | `ctx->connections`, fields of `xsiam_agent_conn` |
| `cache` | `ctx->agents` (`struct xsiam_agent_state`) |
| `devices` | the collection ArangoDB keeps |
| `heard` | the last event `post_agent_event` got through |
| `peerGone` | open connections whose peer has vanished: the environment |
| `Collect`, `Hello*`, `Frame*`, `Syslog`, `ConnEventClose` | `collect`/`conn_add`, `process_hello`, `process_frames`, `process_buffer`, `conn_event` |
| `HeartbeatCollect`, `DbCollect`, `ExitCb`, `Start` | `heartbeat_collect`, `db_collect`, `exit_cb`, `init` |

The variants `HelloAckFails` and `FrameFails` are the error paths: the handler
has changed the cache before the failed ACK makes `conn_event` delete the
connection. A flush ends in one of three ways: not applied, applied without an
answer, applied and acknowledged. `process_buffer` looks at every read, so
`Syslog` and the HELLO actions change the tag of a session whatever it was.

### Wzcp

The byte stream of one agent. A frame is a prefix, a header and body pieces;
the unit of the stream is one of those, which is the granularity at which
`send_frame` (three `send_all` calls) and the threads that share the socket
interleave. Reads of the gateway end after any unit. `pc[t]` is a thread's
place in `send_frame`, `waiting` is `os_setwait` (which the dispatch thread's
messages about its buffer's level do not respect: `SendBufferLevel`); `gwPc`, `buf` and `bufSize`
are the gateway's read buffer, `got` what `process_frames` has dispatched. A
`link` that is not open is either closed, so that calls on it fail, or silent,
so that the agent may wait on it without end. `RunNotify` is split in two: the
keep-alive, and the reconnects `run_notify` makes of its own accord.

### Presence

Several gateway instances, the service's event handlers (one per instance,
since `post_agent_event` waits for its answer) and the GC. Each Redis or
ArangoDB call is one action: `Touch`, `Remove`, `RenewFB`, `FindByAgentID`,
`UpdateDevice` for `HandleAgentEvent`; `GcScan`, `GcCheck`, `AgentsForFB`,
`TenantForAgentKey`, `BulkRemove`, `BulkOfflineByAgentKeys`, `DeleteFBSet` for
`GC.Run`. The gateway is the cache of module Gateway reduced to a status and a
dirty flag per agent, and to the number of sessions it holds of it (`conns`);
`Disconnect` closes one whose peer is gone, whether or not the agent has a newer
one at the same instance. The constant `Hazards` says what the environment may
do beyond crashes, silent departures and failovers. A lease expires when its
instance is gone, and under `lapse`, `loss` or `restart` also when it is not.
`misjudged` is a history variable: the instances the GC has found dead that were
not.

### AgentBuffer

The ring of `buffer.c` with its two threads. `buffer_append` holds the mutex
and is two steps, because the dispatch thread reads and writes the flags
without it; taking the oldest message is one step under the mutex; testing and
clearing each flag, `os_wait`, sending and clearing the slot are steps of their
own. The flags are bit-fields of one word, so clearing one is a load and a
store of all four. `Next` is the buffer in service; `Reload` adds `ReadConfig`,
which stores the new length at once, and `w_agentd_buffer_resize`, which counts
before it takes the mutex. An access outside the array, or to a message that
has been freed, ends the behaviour.

### Incidents

`CreateAlert` and `Submit` feed the pool's queue; the workers of the pool, of
the sweep's pool and of requests run `TriggerCorrelation`, `CreateAutoIncident`
and `MarkAlert`, one step per write. `Confident` is `buildDAG` and
`calcGraphConfidence` in integers. `Merge` is `MergeReads` (the primary), then
`MergeTakes` and `MergeDeletes` for each secondary, then `MergeWrites`; the
requests in `Mergers` run at once and may name any incidents, each other's and
their own primary included. The `incident_id` of an alert is an IncidentID or a
key, depending on who wrote it, and the model keeps the difference. `Tick` moves
the clock whether the service runs or not; at a multiple of `Period` cron calls
the sweep if it runs, and `Sweep`, up to `MaxLate` later, takes the alerts of
the last `Period`. A fault is a failing call or a crash; most errors are ignored
by the code. `unmade` (incidents whose `Create` failed) and `clash` (a merge met
an incident another one has under way) are history variables.

### Service

Process and reports. `quit` is the channel of capacity one, `got` the receivers
that have had a signal; `Receive`, `CronStopped`, `Exit` are the stop. A job is
a goroutine of `simulateGeneration`, with the context it was given: `Create`
uses one of its own, the cron task passes on the one that `bgCancel` cancels.
Reports are numbered as they are created; `FirstPage` is what
`List(ctx, tenant, 1, 100)` returns, the oldest `PageSize` that are there.

### LogDelivery

`cb_flush` cuts a chunk into frames (`AppendRow`, `Post`), the handler decodes
(`HandleBinary`), routes row by row (`Route`) and writes to the lake
(`FlushRaw`, `FlushEtl`) and collection by collection to ArangoDB
(`BulkCreate`). `Process` is the pipeline of `pipeline.go` as a function of
the rules that apply and the dedup window: which rules are applied, which one
ends the chain, and where the entry goes. Which rules match is the parameter
`Rules`. `lakeOn` (`DATALAKE_ENABLED`) and `room` (how many of these rows, once
compressed, a TLV can state the length of) are fixed by `Init`, so a run covers
services with and without a lake, and frames that fit and that do not. `ackTag`
and `missed` are history variables for the properties.

## 3. Runs

| run | property | shows |
|---|---|---|
| `gateway` | `TypeOK` | types |
| | `OnlineHasSession` | no agent is marked connected without an open session, in any order of open, fail and close |
| | `CleanEntryIsStored` | no status change is lost on its way to the database |
| | `HeartbeatLagBounded` | a clean entry's heartbeat is less than the flush interval after its flush |
| | `CleanShutdown` | an acknowledged last flush leaves every known agent offline |
| | `OfflineOnlyByLateClose` | an agent with an open session is marked offline by the late close of its older session, and in no other way |
| | `CacheIsWriteBehind` | the cache implements `WriteBehind` |
| | `SilentDeathStored` | a vanished peer is stored as offline in the end, unless its session was relabelled as syslog |
| `presence` | `TypeOK`, `NoOrphanOnline` | whoever is online in the database has somebody to set it offline |
| | `GoneAgentOffline` | a departed agent is offline in the end, also after its instance died without a word |
| | `StatusSettles` | the status of an agent that stays comes to be what its instance says, after late disconnects and sweeps |
| `presence_unreliable` | `StatusSettles` | the same after lost events, lapsed leases, failed calls, restarts, and sweeps of the live instance itself |
| `wzcp_stream` | `TypeOK`, `StreamAccepted`, `FrameArrives` | no cut of the stream and no growth of the buffer makes the gateway refuse a frame or leave one waiting |
| | `HandshakeSound` | senders are let loose only when the gateway has the HELLO of this connection |
| | `StreamIsChannel` | the byte stream implements `FrameChannel`: frames come out whole, once and in order |
| `wzcp_shared` | `Reconnects` | with two threads that may corrupt the stream the agent still gets a new link for one that is closed |
| `delivery` | `TypeOK`, `AckedStored` | an acknowledged chunk is stored wherever its rules say |
| | `RawFirst`, `CopiesBounded` | raw before derived where there is a lake; at most one document per collection and call of `cb_flush` |
| | `AgentWithinFrame` | an entry is stored under an agent of its own frame, never under one left over from an earlier frame or attempt |
| | `ChunkSettles` | every chunk is delivered or given up, one whose frames the decoder refuses included |
| `agent_buffer` | `TypeOK`, `BufferIsFifo` | indices stay in the ring; it implements `BoundedFifo`, its progress included |
| | `NoStaleAlarm`, `FloodEnds` | at rest and NORMAL, the last report is "normal"; the level returns to NORMAL |
| `incidents` | `TypeOK`, `DuplicatesBounded` | an alert is made into at most one incident per correlator, once more after each fault |
| | `MergeKeepsAlerts` | without faults no alert falls out of all lists, through merges and correlators at once, while no merge meets an incident another has under way |
| | `PairBecomesIncident` | two alerts of an asset get it an incident: the next sweep repairs what the queue dropped or a crash took, if the service is up at the mark |
| `service` | `TypeOK`, `TaskUncut`, `StopsWhenSignalled` | a stop waits for the task and ends |
| | `ReportSettles`, `DueReportRuns` | no report on the page the task lists hangs in "generating" or stays due, across stops, crashes and restarts |

`wzcp_interleave`, `delivery_dedup` and `buffer_reload` end in a
counterexample: section 8.

Every property of a passing run has a mutant, a definition next to the
original whose name ends in what it gets wrong (`agent_state_mark_heartbeat`
and `agent_state_mark_heartbeat_OffByOne`); with the mutant in place of the
original the run finds the property violated.

To repeat a run: `tlc -config gateway.cfg MCGateway`; to check the proofs:
`tlapm GatewayProofs.tla`.

## 4. Bounds

| run | instance | distinct states |
|---|---|---|
| `gateway` | 1 agent, 2 connections, interval 2, `MaxClock` 3 | 117 000 |
| `presence` | 1 agent, 2 instances with 2 sessions and 1 session of it, no further hazard | 85 042 |
| `presence_unreliable` | 1 agent, 1 instance with 2 sessions of it, every hazard | 14 524 |
| `wzcp_stream` | receiver only; bodies 1 and 2, chunk 2, buffer 4, 2 connections, 4 frames | 101 623 |
| `wzcp_shared` | receiver and 1 sender; chunk 1, buffer 3, 2 connections, 3 frames | 74 845 |
| `delivery` | chunks of 3 and 1 records of different agents, 2 rows per frame, room for 1 or 2, with and without a lake, 1 retry, 2 collections, all hazards | 382 140 |
| `agent_buffer` | a ring of 4, warning at 75 %, normal at 50 %, 9 messages, 1 loss of the server | 53 382 |
| `incidents` | 2 alerts of one asset, 1 worker in the pool and 1 other, queue of 1, 4 incidents, 2 mergers, `Period` 2, `MaxLate` 1, three budgets | 840 307 |
| `service` | 2 reports, pages of 1, 3 signals, 1 fault, 1 schedule | 277 813 |

* Gateway: agents share nothing but the connection slots and the flush, so one
  agent suffices; two slots are what a half-open session and its successor
  need. The clock exceeds the flush interval, so that both sides of the
  comparison in `agent_state_mark_heartbeat` happen.
* Presence: two instances are what a failover needs, two sessions at one of them
  what a late close on the same instance needs. The sets of the GC are handled
  per agent, so one agent stands for all. In `presence_unreliable` the sweeps
  and late closes that hit the agent come from its own instance.
* Wzcp: the longest frame is exactly `BufferSize` units and the buffer grows
  once before it is full, so the growth, the limit and a frame cut at every
  place occur; two connections are what a reconnect needs. With one thread the
  largest frame fits; `ConnEventFull` happens in `wzcp_shared`, whose buffer is
  smaller than its largest frame.
* Delivery: the first chunk makes a full frame and a partial one, so a failure
  of the second frame repeats an accepted first; the records cover no rule, a
  rule with two collections, a chain of two rules the first of which finds an
  empty dedup field, and dedup. With room for one row a full frame is too long
  for its TLV and a partial one is not; with room for two both fit.
* AgentBuffer: 9 messages go round the ring of 5 slots and fill it while an
  older one is being sent; all four levels and both ways down are reached.
* Incidents: a pair is the least that becomes an incident; a queue of one drops
  the second alert; two correlators are what a duplicate needs. Sweeps, faults,
  edits and merges have a budget each, and a behaviour has one of three: one
  sweep and half a period more, with a fault and an edit; two merges (of up to
  four incidents, at once, with any secondaries) and two edits; one merge with a
  fault and an edit. A `MaxLate` of half the period is far later than cron is,
  and makes the gap between two sweeps.
* Service: three signals are what a full stop takes, so every way of sharing
  them out, with one or two left to arrive, occurs; the fault is a crash or a
  failing call. Two reports with pages of one are what it takes for a report to
  be behind the page and to come to it when the other is deleted; the code's
  page has 100.

`MaxClock`, `MaxConns`, `MaxFrames`, `MaxMsgs`, `MaxLosses`, `MaxSignals`,
`MaxFaults`, `MaxSchedules`, `MaxReports`, `MaxAlerts`, `MaxIncidents` and
`Budgets` bound the models and nothing else.
`CHECK_DEADLOCK FALSE` is set where the bounded system may stop: every
instance is down (an instance id is not reused), the connections and frames
are used up, every chunk has settled, the messages have been sent, or the
bounded events have all happened.

## 5. Fairness

* Gateway: the timers of `heartbeat_collect` and `db_collect` keep firing; a
  write to a peer that is gone fails in the end, because unacknowledged data
  times the socket out; the database answers in the end. Nothing is assumed of
  agents.
* Presence: handlers and GC go on (weak); the lease of a dead instance expires
  (a TTL); that of a live one may, and need not. A live instance returns to its
  event loop after each event, and serves sockets and timers in turn, so
  heartbeats of a connected agent (20 s apart, hence after the flush interval
  again and again), the flush and the close of a dead session happen if they are
  possible again and again (strong: each of them is disabled while an event is
  under way).
* Wzcp: a thread inside `send_frame` goes on unless the link is silent, `recv`
  fails on a link known to be closed, and `start_agent` tries until it is
  connected; the gateway serves a socket with bytes to read. Nothing obliges a
  silent link to be noticed: no timeout is set on the socket.
* LogDelivery: the coroutine is resumed and every call of a handler returns,
  with success or with an error. No success is assumed: `ChunkSettles` counts
  a chunk given up.
* AgentBuffer: the dispatch thread is not kept from the mutex for good (its
  sections are short), and the main thread leaves `buffer_append` and
  `start_agent`. Nothing is assumed of the collectors.
* Incidents: workers and requests run, time passes, the sweep cron has called
  runs. A mark is only called for while the service is up. The liveness property
  begins after the last fault.
* Service: some receiver takes a signal that is there, main goes on, each
  report's goroutine and clock do, cron starts its task. No signal is assumed.

Incidents and Service assume that a service that has ended is started again,
as an operator does; no module assumes that
anything crashes or connects.

## 6. Proofs

All proofs are for arbitrary constants under the modules' named assumptions.

**GatewayProofs** (`GatewayAssumption`). `CleanEntryIsStored` and
`HeartbeatLagBounded` are not inductive: a heartbeat compares clock values,
and a disconnect leaves an entry alone that is not connected. The invariant
`IInv` adds, per agent, `EntryOK`: an entry's status and its connected flag
agree, and neither time stamp is in the future. Each `agent_state_*` function
has a lemma that it preserves `EntryOK`; each action has one that it preserves
`IInv`. From `IInv`: `TypeCorrect`, `OnlineHasSessionAlways`,
`CleanEntryIsStoredAlways`, `HeartbeatLagBoundedAlways`, and the action
properties `CleanShutdownAlways` and `OfflineOnlyByLateCloseAlways`. The
refinement `CacheIsWriteBehindAlways` maps every action to a step of
`WriteBehind` or to a stutter; it needs of `EntryOK` that only known entries are
dirty, so that a flush writes nothing the abstract cache does not hold.

**PresenceProofs** (`PresenceAssumption`). `TypeCorrect` needs that a handler
of an agent's event has an agent (`ReqOK`). `NoOrphanOnlineAlways` is proved
under `CallsSucceed` (hazards `coldstart` and `lapse` are allowed; each other
one alone makes it false, section 7), and speaks of behaviours in which the GC
has misjudged no instance. The property is about a document and whoever may
correct it, and holds only because the parties hand the responsibility on
without a gap. `OrphanInv` says how: whatever instance the GC has found dead and
has not misjudged is silent, for good, so it sweeps none whose handler is still
to write (`SweepSound`); an agent an instance has online in its cache is in the
instance's set, or its `Touch` is still to come (`OwnedAfterTouch`); and an
online document has an instance in whose set the GC will find its agent, or has
found it, before it deletes the set, or a disconnect handler about to write it
(`Reachable`). The number of sessions plays no part: a late close on the same
instance is a disconnect like any other.

**LogDeliveryProofs** (`DeliveryAssumption`, `DistinctRecords`). `TypeInv` is
`TypeOK` with `Place`: the rows in the frame follow the rows of the accepted
frames in the chunk, and the handler's results are as many as it has routed.
`AckedStoredAlways` is proved under `NoDedup` and rests on `StoreInv`: the
result of a routed row names its targets (`Routed`), a target of a row is
written or still to be written (`Written`), and the targets of accepted rows
are written (`Kept`). Documents are never removed, so a retry keeps what
earlier attempts wrote. With dedup the theorem is false (`delivery_dedup`).
The other three hold for all rules, dedup included.
`AgentWithinFrameAlways` follows from types and `Place`. `RawFirstAlways` rests
on `RawInv`: of a record no rule makes `etl_only`, a result that goes anywhere
goes to the raw index, and a handler past its raw write has, if there is a lake,
written it or seen it fail. `CopiesBoundedAlways` rests on `CopyInv`: a record that the current
attempt has not stored yet has fewer documents than there were attempts.

**ServiceProofs** (`ServiceAssumption`). `TypeCorrect` needs no strengthening.
`TaskUncut` is not inductive: a task may only start where nothing has been
cancelled. `CronMeansService` adds that while a running process still starts
tasks, main has had no signal and the context is intact; with it every action
preserves the invariant, for any number of signals, faults and restarts
(`TaskUncutAlways`).

**AgentBufferProofs** (`BufferAssumption`), about `Next`, the buffer in service.
`RingInv` places the dispatch thread: a message in its hands was taken from the
slot before `j`, which is not among the pending ones. `AlarmInv` says of the
flags at level NORMAL: either no alarm is up or reported, or the dispatch thread
is still going through the flags and will find "normal" after it. The main
thread's half-done store and the dispatch thread's are part of it, since both
store the whole word. From them `TypeCorrect`, `NoStaleAlarmAlways`, and
`BufferStepsAreFifo`: every step is one of `BoundedFifo`, for a ring of any
length, where clearing a slot outside the mutex must not touch the queue.

**IncidentsProofs** (`IncidentsAssumption`). `TypeCorrect` as usual.
`MergeKeepsAlertsAlways` rests on `MergeInv`, which holds of any number of merges
under way as long as no call has failed and none has met another (`Quiet`): the
primary of a merge is there and what the merge has read covers what it lists
(`PrimarySafe`), no two merges have the same primary and none deletes another's
(`PrimariesApart`), and what a secondary lists is in the hands of the merge that
is about to delete it (`SecondaryCarried`). Two merges may take the same
secondary: both then carry its alerts.
`DuplicatesBoundedAlways` is a counting argument over finite sets: the incidents
made of an alert and the correlators about to make one are together at most the
correlators, as many again for every fault; and as long as the alert has no
`incident_id`, whatever was made of it has a correlator that will still mark it,
or a fault that lost the mark (`DuplicatesInv`).

**WzcpProofs** (`WzcpAssumption`). `TypeCorrect` holds for any number of threads.
`HandshakeSoundAlways` is proved for one writing thread, from `HandshakeInv`:
senders are held back while the receiver connects (`HeldBack`), so nothing but
the HELLO of this connection is on the wire, in the buffer, or acknowledged
(`OnlyHello`). With more threads the first connection is sound
(`FirstHandshakeSound`); later ones are not (section 7). `FramesIntactAlways`
and `StreamAcceptedAlways` are about the reassembly, for one thread:
`StreamInv` says that the buffer followed by the wire is a sequence of whole
frames and one unfinished one, which ends where the receiver is in `send_frame`;
`BufferInv` that `process_frames` leaves no whole frame in the buffer, and that
the buffer's size is a number of chunks. `FramesIntact` is then that a
dispatched body is the one its header was sent with. `StreamAccepted` needs
`FramesFit`: every frame fits the largest whole number of chunks within
`buffer_size`. The agent's messages do (at most `OS_MAXSTR`, 64 KiB, against
256 KiB in `gateway/conf`), although both ends allow frames of 1 MiB; one that
does not fit is refused by `ConnEventFull`. With two threads `StreamAccepted`
is false (`wzcp_interleave`).

Model-checked only:

* the liveness properties (`SilentDeathStored`, `GoneAgentOffline`,
  `StatusSettles`, `FrameArrives`, `Reconnects`, `ChunkSettles`, `FloodEnds`,
  `PairBecomesIncident`, `StopsWhenSignalled`, `ReportSettles`,
  `DueReportRuns`) and the progress part of `BufferIsFifo`:
  fairness is beyond the prover;
* `StreamIsChannel`: its mapping selects the prefixes of a stream with
  `SelectSeq`, and what that returns for every stream takes an induction over
  the stream. `FramesIntact` and `StreamAccepted` are the parts of it that do
  not: order and number of the frames are checked, not proved.

## 7. Limits

**Gateway.** A client keeps one identity per connection, as the repository's
agent does; a second HELLO with another id would leave the first agent online
for ever. Of a syslog session only its classification is modelled. Redis and
the service are reduced to the last event heard. `conn_del` does not ask
whether a newer connection holds the agent: the late close of a half-open
session marks a live agent offline until its next HELLO, although
`agents/XSIAM-WZCP.md:73-78` has only a disconnect of the agent do that.
`OfflineOnlyByLateClose` says that nothing else does. A line of text in an
agent's stream makes its session a syslog session (`XSIAM-WZCP.md:104-107` has
detection at every read); it keeps its `agent_key`, but `heartbeat_collect` does
not probe it any more, so that its silent death goes unnoticed unless the socket
fails by itself or another HELLO relabels it. `SilentDeathStored` excepts such
sessions. The result of `flb_input_log_append` is ignored, so a batch the
engine refuses is acknowledged to the agent; the engine's buffer is not modelled.

**Wzcp.** Sequence numbers and time stamps are left out; no end compares them.
The unchanged Wazuh protocol is not modelled.
`HandshakeSound` is about one writing thread. With a second one it fails from
the second connection on: the dispatch thread's message about the level of its
buffer does not wait for the handshake, and its ACK is taken for the HELLO's.
Body bytes that would be taken for syslog lines are not. `recv_all` and
`OS_Connect` set no timeout: a link that goes silent while the agent waits for
the ACK of its HELLO, or while `send` blocks, holds the agent for as long as the
system does not notice. `Reconnects` is about links that are closed; that the
receiver leaves a silent one in its own loop (`run_notify` after
`max_time_reconnect_try`) is an action, and not assumed to happen.

**Presence.** One tenant: the gateway writes documents under "tenant-default"
by default, the service uses "default" for events without one. Redis calls do
not fail, and members of the sorted set do not age. A flush that reached the
database and was not acknowledged is in module Gateway only.

* The GC does take running instances for dead, against `presence.go:108-110`:
  between an instance's first `Touch` and its first `RenewFB` (`coldstart`), and
  whenever its lease has lapsed, because a callback took long, the events of
  30 s were lost, or the service was down that long. `StatusSettles` says that
  its agents recover once it holds its lease. `NoOrphanOnline` and
  `GoneAgentOffline` are about behaviours in which this has not happened: a
  sweep that meets a handler deletes the set of an agent the handler then writes
  online.
* `loss`, `db`, `gcdb` and `restart` each break `NoOrphanOnline`: events are not
  repeated, the answer is 204 whatever the database said, and the set of a dead
  instance is deleted "regardless of db success".
* A disconnect handled late, after the agent has reconnected elsewhere, takes
  the live agent out of the online set until its next heartbeat, and the sweep
  of a dead instance takes agents a live one has registered meanwhile, since
  `Touch` removes nobody from another instance's set (against
  `presence.go:109-110`); `StatusSettles` says that neither lasts.
* The late close of a half-open session on the agent's own instance does last:
  the cache says offline, heartbeats do not change the status, and the live
  agent is in the online set but shown offline until its next HELLO. Hence
  `StatusSettles` compares the document with the instance's cache.

**LogDelivery.** Row contents (truncation near 4096 bytes, the treatment of
tabs and newlines), transforming actions, sampling, Lua and the reload of
rules are not modelled. A sink that names a collection twice counts once.
Errors of single documents within an insert are not modelled. After a lost
connection the handler is taken to end at once; in the code it may go on to
route rows, and to mark dedup keys, before its next call fails.
`drop_event` and a dedup hit suppress the raw event too, as the tests of the
pipeline assert, although the comment at `ingest/handler.go:18-19` names only
`etl_only`; `RawFirst` is therefore about records stored after ETL. The retry
limit is Fluent Bit's (the deployed configuration sets none, so one retry).
Two disagreements with the documents are part of the model: the header of a
frame carries the agent of its last row, under which every entry of the frame
is stored (against `agents/XSIAM-XLOG.md:61`; `AgentWithinFrame` bounds it), and
compressed rows beyond 65535 bytes are encoded in a way `DecodeTLVs` does not
know, so that the frame is answered with 400 and the chunk given up (`xlog.c:256`
says of the same encoding that the decoder handles it; nothing keeps the rows of
a frame below that length). Without a lake client, as `config.yaml:18` ships the
service, a raw event is counted and goes nowhere, and the frame is answered with
204 all the same; `RawFirst` is about services with a lake.

**AgentBuffer.** Disabling and enabling the buffer on a reload, and the rate
limit, are not modelled. `BufferAssumption` excludes a `normal_level` so low
that a single message is above it, which the code accepts: the level is
compared before a message is taken, so it would never be NORMAL again. With
`Reload`, more goes wrong than `buffer_reload` needs: a shrink frees the message
that is being sent, and the dispatch thread takes indices modulo a length the
ring does not have.

**Incidents.** Reads that follow each other are one step; an alert deleted
between the two reads of its own correlation is not covered. Merges that meet
lose alerts: two with the same primary write one list over the other, a merge
into an incident that another one deletes writes nowhere, and an incident merged
with itself is deleted. `MergeKeepsAlerts` excepts them (`clash`), and faults,
since a secondary is deleted before the primary is written. Merging writes
`incident_id` to alerts by AlertID where a key is wanted, and so to none. The
console sends `secondary_ids` where the handler requires `secondary_keys`
(`web/src/pages/Incidents.tsx:1660`, `incident/handler.go:193`), so only other
clients can merge at all. An alert that correlates with one in an incident is
not added to it, although the requirements
(`docs/XSIAM产品需求文档.md:1175`) say so. Five or more alerts of an asset at
once without common tactics stay below the confidence of 0.70; the run has
pairs. A graph is cut at 500 nodes in the code and not here. The sweep looks back
five minutes from when it reads the clock: the alerts of a mark that passed while
the service was down, and those in the gap a late sweep leaves, are in no sweep
and depend on the queue, or on a later alert of their asset. When `incRepo.Create`
fails the alerts are marked with the id of an incident that does not exist, and
no later correlation makes one; `PairBecomesIncident` excepts this (`unmade`).
Updates, notes and deletion of incidents by users are left out.

**Service.** One signal does not end the process: `quit` has three receivers and
each takes one. If main is first, cron is stopped for good while both servers
serve on (`HalfStopped`), against `docs/XSIAM技术设计文档.md:1323-1332`; the
properties of reports except a process left so for good. The task lists the 100
oldest reports of every status and never another page, "sufficient for the cron
batch size" by its comment (`report/service.go:125-127`): from the 101st on, a
scheduled report is not run and a hanging one not repaired until older ones are
deleted. Requests in progress
when main returns are cut; a submission to a closed queue is not modelled. A
recurring report runs once: no code computes its next run.

**Not modelled.** `agents/xlog` (linked by no program yet), the device liveness
watcher (started by no program), the console, the initialisation scripts,
request plumbing, and the vendored trees but for the few lines of Fluent Bit
the modules rely on (`Free`, `Again`). Of the domain services, the ones that
only store and list documents; role membership, the life cycle of detection
rules, playbook runs and the rule editor are read-modify-write on single
documents (section 9); a dry run of the editor marks keys of the live dedup
window. The reload of ETL rules replaces them as a whole.

## 8. Findings

| run | what the counterexample shows |
|---|---|
| `wzcp_interleave` | Two threads write pieces of frames to one socket; the gateway drops the connection for a protocol error. |
| `delivery_dedup` | An insert fails after its rows were marked as seen; the retry is dropped as a duplicate and acknowledged: the record's document is in no collection (its raw event is in the lake, where there is one). |
| `buffer_reload` | A reload shrinks a full ring of three to two: the messages are counted with the new length, three modulo three is none, and all are freed. |

`PROJECT.json` quotes the line of the repository each one contradicts. Further
disagreements between code and documents, which the models contain and the
properties are worded around, are in section 7.

## 9. Plan

Done: Gateway, Presence, Wzcp, LogDelivery, AgentBuffer, Incidents, Service,
the abstract specifications of three of them, and theorems about all seven:
every safety invariant and action property of the runs is proved. Next:

1. **Proofs**: the step simulation of `FrameChannel`, with the queue as a history
   variable in place of `SelectSeq`.
2. **Compositions**: the gateway of Presence implemented by Gateway; batches
   acknowledged to the agent and refused by the engine's input buffer.
3. **Rules**: reload between the rows of a frame, the dedup window with its
   times.
4. **Domain state machines** that remain: playbook runs, role membership.
