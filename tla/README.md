# Verification of the ZenPlus monitoring core

TLA+ models of the parts of ZenPlus that decide what status a device has, who
may write it, how a remote sensor's results and an agent's telemetry reach the
controller, how alerts are raised and closed, how configuration
backups run, and how flow rows reach ClickHouse; TLC configurations that check
them on small instances; and TLAPS proofs. Every definition is read from the source; `PROJECT.json` maps each one to its lines.

## 1. The system

ZenPlus polls network devices (ping, SNMP, service checks), decides a status
per device, alerts on changes and keeps the history. One appliance runs a
PostgreSQL database (state), ClickHouse (telemetry), an API server in Python
(several worker processes), a central poller in Go, and a NetFlow collector in
Go. Remote sensors (Go) and Windows agents (Go) poll elsewhere and upload.

| Component | State it keeps | Operations | What makes it correct |
|---|---|---|---|
| device status machine (`devicestatus`) | hard status, maintenance overlay, streaks, ring window, change times and flap flags per device | `Step` per check, `Seed`, `NeedsReseed` | changes rest on evidence; events tell the displayed status; flapping ends |
| central status pipeline (`pinger/device_status.go`, `engine.go`, `store/postgres_device_status.go`) | `e.devices`, a writer queue, per-device effect queues | device sync, step, submit, save, release, deliver | no silent, doubled or reordered change; no write over another owner's state |
| server status ownership (`device_service.py`, `sensor_health_service.py`, `sensor_api.py`) | the rows `devices`, `device_status_state`, `device_flap_episodes` | change owner, switch ping, ingest a sensor's checks, offline sweep | one writer at a time; releases leave nothing behind |
| sensor spool (`sensorspool/spool.go`) | data segments, control log, in-flight manifest, drop count | `Open`, `Enqueue`, `NextBatch`, `Ack`, `SplitInflight`, `DropInflight` | durable, ordered, bounded; every loss counted |
| sensor upload and ingest ledger (`sensor/main.go`, `sensor_api.py`) | request in flight; completed batches | `drainSpool`; reserve, apply, complete | applied once, its telemetry stored at least once; one bad result does not block the rest |
| sensor authorization (`sensor/main.go`) | block flag, epoch, persisted state document | `Begin`, `Observe` of three loops, other state updates | no probing after a rejection until vouched for again; recovery |
| sensor commands, check scheduler | completed commands, worker pool, cursor | process, remember, install; schedule | a command runs once; late checks are not starved |
| device status alerts (`alert_engine.py`, `alert_hold_service.py`, `alert_escalation_service.py`, `alert_notify_state.py`, `worker_locks.py`) | alert rows and their metadata, silences | evaluate a transition, hold, escalate, acknowledge, resolve, snooze; sweeps of every API worker | one alert open per rule, none left open on a device that is up; pages, levels and all-clears once and in order |
| late sends and flap notices | send claims, notice state | claims of the host and network evaluators, notices per episode | one notice per step |
| NetFlow collector (`netflow-collector/queue.go`, `spool.go`, `writer.go`, `main.go`) | memory queue, disk spool, parts in the writer's hand, held rows | add, seal, spill, take, insert, split, hold, retest, evict, persist | every row stored, dead-lettered or counted; order through the spill; poison rows do not stall the batches behind |
| Windows agent | spool with replay generations, upload worker | enqueue, drain, replace controller | no record acknowledged to a replaced controller |
| updater | transaction marker, backups, lock | begin, back up, apply, restore | a failed update returns to a startable appliance |
| configuration backup jobs (`ncm_jobs.py`, `ncm_changes.py`, `ncm_events.py`, `ncm_automation.py`) | job rows with leases, change events, an incident | queue, claim, heartbeat, capture, finish, retry, cancel, link events | captures serialised; a lost lease writes nothing; every job ends |
| report schedule | due times | claim, render | one result per run |
| host telemetry (`host_insert_batcher.py`, `agents.py`, `host_metrics.py`) | open batches, recent writes, upload ledger | insert, flush, retry, verify, replay | acknowledged means stored; a replay joins a write it can trace, and repeats no other unless it must |
| sessions, licences, on-call, discovery, compliance, dashboard, appliance, scripts | rows, or none | request handlers, UI | not concurrent cores of their own |

How they interact. The central poller and the sensors are alternative writers of
the same three status rows; the server moves a device between them. The poller
reads ownership only in its periodic sync, so between two syncs its memory and
the rows may disagree: the guards of the save statement are what keeps them
apart. Both writers feed the alert engine, the poller through in-memory queues
after the commit, the sensor ingest through an outbox in the same transaction. A
sensor spools every result, uploads frozen batches under a stable key, and the
controller's ledger makes a repeated key harmless. Heartbeat, config and upload
requests of a sensor run concurrently and each may learn of a rejection.

The alert engine runs in every API worker: transitions are evaluated in the
request that posts them, while each worker's sweeps act on rows they read before.
Windows agents post telemetry to any worker, which batches it in memory. Backup
jobs are rows; slots of one process claim them under leases.

Hard behaviours: stale reads between sync and save or between a sweep's read and
its update, an owner that comes back (A-B-A), crashes between a commit and what
follows it, requests handled after their sender gave up, durable writes
interrupted at any point, inserts with unknown outcome, expired leases, streaks
and windows over policy edits, and fairness of retries. `PROJECT.json` lists them
under `hazards`, at their lines, with the properties that watch them.

## 2. Modules

| Module | Models | Instance |
|---|---|---|
| `DeviceStatus` | `devicestatus.Step` and its helpers as operators on records | through the next module |
| `DeviceStatusMachine` | one device under checks and policy edits | `MCDeviceStatusMachine` |
| `StatusPipeline` | poller engine, writer goroutine, database rows, server and sensors | `MCStatusPipeline` |
| `SensorSpool` | the spool as durable steps, crash and replay | `MCSensorSpool` |
| `SensorDelivery` | the upload loop and the ingest ledger on top of `SensorSpool` | `MCSensorDelivery` |
| `ResultDelivery` | what `SensorDelivery` promises: the abstract specification it implements | by `INSTANCE` |
| `SensorAuthorization` | `runtimeAuthorization`, the state document and the file | `MCSensorAuthorization` |
| `DeviceAlerts` | status alerts of one device and rule: evaluations, sweeps of several workers, operator | `MCDeviceAlerts` |
| `HostInserts` | group commit of host telemetry, with its ledger and replays | `MCHostInserts` |
| `NcmJobs` | configuration backup jobs of one device | `MCNcmJobs` |
| `FlowDelivery` | NetFlow rows from the sockets to ClickHouse: queue, spiller, spool, writer | `MCFlowDelivery` |
| `DeviceStatusMachine_proofs`, `SensorAuthorization_proofs`, `StatusPipeline_proofs`, `DeviceAlerts_proofs`, `HostInserts_proofs`, `NcmJobs_proofs`, `FlowDelivery_proofs`, `SensorDelivery_proofs` (spool and delivery) | theorems and proofs | |

`DeviceAlerts`, `HostInserts`, `NcmJobs` and `FlowDelivery` share no state with each
other; the pipeline meets the alerts at the transitions it posts, and spool and ledger are composed in
`SensorDelivery`.

Operators marked `mutant:` in a comment are plausible wrong versions of the
definition that follows them. They are never used by a specification; each shows
that a property notices that error.

### Device status machine
`state` is `devicestatus.State`: `hard`, `maint`, the streaks `fail`, `ok`,
`clear`, the `window` of bad checks, the change times `reach` and `perf`, and the
flap flags. `Step` follows the numbered sections of `step.go`: ordering and gaps,
maintenance entry, hard status, change, maintenance exit, flap detection, own
flag. Times are small integers; `Deltas` sets how far apart checks may be, a
negative delta being a clock step. Thresholds are numbers a sample is above or
below. A setting fixes the policies an administrator switches between, the samples
and the clock. Reasons, wording and the time of the last change are left out.
History variables: `hist` (classes of accepted checks since the last gap),
`fresh` (announced changes per class since it last settled), `told` (last
announced status).

### Status pipeline
`db` holds the columns the writers share; `devices` is `e.devices`; `snapshot` is
what `LoadDevices` returned before `e.mu` is taken; `batch`, `queue`, `writer`,
`effects` are the jobs on their way. The status machine is reduced to what
travels: the hard status and the device-level flap flag (`CheckOutcomes`);
whether a heartbeat is due is a free choice. A failed check of an unknown device that is
short of `down_confirm` and leaves it unknown (`step.go:147`), and a flap that starts
without a hard change (`step.go:315`), are outcomes only the status machine has. The save is one atomic action, as the
statement runs in one transaction under the device's row lock. `basis` and
`stamps` are history: how many sensor writes and releases a state has seen.
`First` is the status devices start with. Maintenance, `last_seen` and end reasons
are left out, and the three sinks of an event are equal FIFOs, of which one is kept. `Returns` restricts when a
device may come back to central polling, which separates what the guards achieve
from what they do not:

* `settled`: only when the poller has nothing left of the last turn;
* `new_sensor`: at any time, but no sensor owns the device twice;
* `any`: at any time. A theorem that does not name `Returns` holds for it.

Some properties of the passing runs fail under `any`, because of the code and not
of the bounds. `SeesSensorWrites` fails when the same sensor owns the device a
second time before the first central save: the save statement compares owner
names (`postgres_device_status.go:269`), so the sensor's newer row passes as the
one the seed has seen. `SeesReleases` fails when ping is switched off and on again
within one sync: the device is still in `e.devices`, `adoptDeviceState` keeps its
state, and the next save writes what the release deleted. `AnnouncedIsStored` fails when a
refused job's event is dropped (`device_status.go:630`) and the next queued job of
the same lineage stores the status without it. `LeaversAreReleased` only speaks of
devices the engine still has: one that left, returned and left again between two
syncs, while a save was in flight, keeps its flap marker. And between the
staleness check and the save (`device_status.go:607` and `:615`, `Take` and `Save`)
a sync may replace the state whose job is about to be written.

### Sensor spool and delivery
A record is its sequence number, and segments and batches are sets of records, since the
sequence gives the order in them. Every exported call holds the mutex, so a call is
a list of durable steps (`call.todo`) that a crash or a failing write cuts short.
A crash may bring back segments whose removal was not synced. Left out: duplicate
ids on enqueue (ids are UUIDs), torn frames (cut off on open, so writes that did
not happen), the bytes of the control log (within its reserve; its frames are
counted for compaction). Results are stamped when they are queued, so age follows
the sequence. In `SensorDelivery` a bad result makes the controller refuse every
request holding it; assignments do not change during a run. Reserving, applying and
completing a batch is one PostgreSQL transaction (`Ingest`). The telemetry goes to
ClickHouse before it commits, with no token (`sensor_api.py:1645`): when the insert
lands in part or the commit fails (`CommitFails`, or late in `IngestLate`), what was
inserted stays and everything else is rolled back (`RollBack`). `stored` counts the
inserts of a result. An insert that lands after its request failed is counted when it
is sent; results older than the accepted window, which are acknowledged but not stored
(`sensor_api.py:955`), are left out. In `Fails` a spool write that took effect although
closing the file or syncing the directory returned an error (`spool.go:962`, `:1017`,
`:1485`) counts as one that did not happen.

`ResultDelivery` knows what becomes of a result: it is queued, applied or dropped,
every drop is counted in the same step, and its telemetry is stored when it is applied
and, by attempts that failed, as long as it is queued, never afterwards. The refinement mapping reads the queue
from the spool in memory, and while the process is down from what opening the
directory would recover (`Recovered(files)`), so that a death between two durable
writes has to be invisible.

### Sensor authorization
`blocked` and `epoch` are the fields of `runtimeAuthorization`; `current` and
`stored` are the block bit of the in-memory state document and of the file.
A request records the epoch it began in; the controller decides it when it handles
the request, and the sensor observes the answer later. A state write may fail
before or after the file was replaced.

### Device alerts
`rows` are the alerts of one rule on one device, in order of their creation:
status, closing reason, `metadata.notified` (`told`), the escalation state (`level`,
`repeats`, `closed`) and the snooze stamp. `posts` are the evaluations running in
the API, `work` what each worker's loop of sweeps holds in its hand. An evaluation
(`evaluate_status_change`) is one step up to its commit, because it holds the
device's advisory lock; its notification (`SendPlanned`) is another. A sweep is
two: what it reads (`HoldRead`, `EscalationRead`, `SnoozeRead`) and what it does
with it, under the condition of its UPDATE (`Settles`, `StateIsStill`). The reminder of
an ended snooze goes out before the transaction that takes the stamp commits, while
the row is locked: `SnoozeClear` is the pass that commits, `SnoozeUnsaved` the one that
is rolled back, or dies, after the send. The pass lock of the escalation sweep can be lost once (`used.split`). Left out: policy
escalation, rules that trigger on up, service, host and network alerts, digests,
delivery keys (a notification is sent when it is attempted), the notice row of a
reset.

### Host inserts
`open`, `writes` and `recent` are a worker's `_Batch`es, the flushes under way and
`_recent`; `stored` and `tokens` are ClickHouse with its deduplication window,
`ledger` the upload rows in PostgreSQL, `request` who handles an upload. The tables are
partitioned by month and ClickHouse deduplicates per partition, so every upload of the
model has a row in each of two months (`Partitions`), and a block may land in one of
them only (`InsertFails`). Its outcome may be unknown to the worker; a given-up block is
verified upload by upload (`GiveUp`), by the number of rows a table holds of each
(`Rows`, `Verified`), as `rows_present` does. ClickHouse may also not answer, or the block
land between the probes, so the uploads found are a subset. A block that was given
up, or whose worker died, may land later (`stray`, `LandsLate`). Left out: parsing and
rejected samples, server rows, the table of event details (which counts distinct
identities and so is not fooled by a row stored twice), and the age of an entry in
`_recent`: finished ones may be forgotten at any time, those of an upload together
(`Prune`), while the code forgets token by token.

### Configuration backup jobs
`jobs` are rows of `ncm_jobs`, `slot` the worker's slots with the copy of the job
each carries, `lock` the advisory lock of a capture, `events` the change events and
`scan` the part of `process_pending` between looking for a running job and giving
the events away. The token of a lease is its attempt number. Left out: the
synchronous capture of the API, which opens and resolves the incident without a job
(`ncm.py:923`, `:926`), devices whose schedule is blocked by a local prerequisite, which
open it with category `blocked` and no job (`ncm.py:959`), manual uploads, what a
version contains, and the delivery of the incident's notification.
`IncidentTellsTheLastOutcome` is about the path of the jobs.

### NetFlow collector
`sealed`, `pending` and `closed` are the memory queue, `spool` and `inflight` its disk
spool, `temps` the files written and not yet renamed. `spiller` and `writer` are the
two goroutines, cut where they release the queue's mutex or call ClickHouse; `held`,
`retest` and `keep` are the held groups, the round of retests and what is left to put
on disk at the end. Rows are numbered as they arrive and a batch is the rows it
holds, which also names its segment, its temp file and its deduplication token.
ClickHouse is external: it never takes a poison row, for a while refuses everything,
and may have stored what it answered with an error. `torn` is history: rows stored
although their part was split afterwards, or whose tokens a kill mixed up. Groups that
were held from one batch have the same time and sequence, and the code orders them on
disk by the hash of their token (`spool.go:92`, `writer.go:207`); the model orders them by row. Left
out: decoding datagrams and templates, statistics, schema repair, segments that cannot
be read, a write or rename that fails in the spiller, which keeps the batch in memory
(`queue.go:316`, `:341`), delays, and the bound on held rows beside the one on held parts.

## 3. Runs

| Run | Checks | Bounds |
|---|---|---|
| `DeviceStatus` | `ToldIsDisplayed`, `ConfirmedByEvidence`, `PendingIsShort`, `FlappingIsRecent`, `HeldForItsOwnClass` | two settings. Confirming: two policies (window 3 and 2, counts 2 and 1), 4 samples, time 8. Flapping: every check confirms, flap start 3, stop 1, detection on and off, 3 samples, time 5, clock steps of -4 |
| `Pipeline_Upset` | `RowExplainsDevice`, `AnnouncedIsStored`, `EpisodeFollowsState`, `PlannedIsStored`, `SeesReleases`, `AlertsFollowSaves` | one device, one sensor, `settled`, 2 handoffs, 2 changes, and one of: a failing save, release or delivery, a crash, a sensor write (the constraint `OneUpset`) |
| `Pipeline_Fair` | `ParkedIsResolved`, `LeaversAreReleased`, `SeesSensorWrites` (fair) | `new_sensor`, starts up, 2 handoffs, 1 change, 1 sensor write, no faults |
| `Authorization` | `ProbingIsVouched`, `BlockIsStored`, `RecoversOnceGranted` (fair) | three loops, 3 rejections, 2 failing writes, 1 restart |
| `Spool_Restart` | `Openable`, `RestartResumes`, `LossIsCounted`, `OldestFirstUntilRestart` | 4 records of two paths and sizes, segments of 3 units, capacity 5, 1 restart, 1 fault |
| `Delivery` | `ImplementsResultDelivery`, `PostedAgainUnchanged`, `QueueDrains` (fair) | 2 records, good or bad, 1 aged, 1 timeout or failed commit, 1 restart, 1 fault |
| `DeviceAlerts` | `OneOpenAlert`, `UpClosesAll`, `NothingBeforeThePage`, `NeverTwice`, `EscalationsEnd` (fair) | two workers, 1 level without reminders, 2 status changes, 1 upset (timed-out post, snooze, silent sensor, lost pass lock or restart); the transaction of a reminder may fail once per row |
| `HostInserts` | `AckedIsStored`, `TwiceOnlyUntraced`, `EveryUploadIsAcked` (fair) | two uploads and two workers, one table in two partitions, batches of 2, 2 faults |
| `NcmJobs` | `SuccessIsComplete`, `IncidentTellsTheLastOutcome`, `LinkedVersionShowsTheChange`, `JobsEnd` (fair) | two slots and types, 2 attempts, 2 jobs, 1 change event, 1 stalled heartbeat or restart |
| `Flow_Spool` | `Accounted`, `StoredOnce`, `NextIsOldest` | 8 rows in batches of 2, 1 poison row, spool of 4, held list of 2, 1 fault, 1 outage, 1 shutdown, 1 kill |
| `Flow_Writer` | `GoodRowsSettle` (fair) | 6 rows in batches of 4 or sealed early, 3 poison rows, held list of 5, 1 fault, 1 outage |
| `Flow_TempFile` | `PersistKeepsWhatFits`, violated | 6 rows in batches of 2, 1 shutdown, no poison, no faults |

What they show. The status machine announces exactly what it displays and changes
only on evidence. While the poller finishes one turn of ownership before the next,
rows, announcements and releases agree; while each sensor owns a device once, no
sensor row is overwritten unseen, whatever the timing. A failing save
or a crash never leaves the engine trusting a row that is not there. The sensor's block
survives crossing answers. The spool opens after a crash at any durable step to
exactly the queue it had, and end to end a result is queued, applied once in
PostgreSQL or dropped and counted, while its telemetry may be stored again by attempts
that failed. Alerts are raised, escalated and closed once and in order, although two
workers sweep beside running evaluations; only the reminder of an ended snooze can be
sent again. What an agent was told is stored is stored, unless rows stored twice were
counted in place of others, and rows are stored twice only after a write that was given
up with rows stored, that landed late, or that the worker of the replay did not know.
A backup job's captures, outcome and incident belong to the slot that holds it. Every
flow row is queued, stored, dead-lettered or counted, through spilling, bisection,
holding, shutdown and restart, none is stored twice in an orderly life, the writer
takes the oldest batch, and while the held list has room poison rows do not stall
the rows behind them; a good row held in one group with poison rows comes free when a
later row is accepted.

The type invariants of the modules say what shape their variables have. Those of
`SensorAuthorization`, `StatusPipeline`, `DeviceAlerts`, `HostInserts`, `NcmJobs` and
`FlowDelivery` are proved, and the shapes of the spool's memory are part of its proof
(`MemoryShape`). The others are for the reader, and no run spends its time on them.

Why these bounds are enough to be interesting: every branch of the modelled code
is reached, and each property has a mutant of the code that breaks it within the
bounds. Two handoffs are a device that leaves and comes back; two changes are a
Down and its recovery; a queue of one makes the ping loop wait. Segments of three
units with records of one and two give full, frozen and partly dead segments, and
capacity 5 evicts with a batch in flight. The devices of the pipeline do not
interact except through the queue, so one device is used. Two status changes of an
alert are a trigger and the recovery, or a trigger and the one that supersedes it;
one level is enough for two sweeps to race for it, and the failed transaction of a
reminder, which needs a snooze before it, is no upset of its own; it also stands for a
worker that dies between the send and the commit. Two uploads share a batch or not, two
partitions let a block land in half, and two faults are a failed write and the fault in
its replay; several tables, of which one fails alone, are left to the theorems. Three poison rows and a good one in
a batch of four, with two probes, leave the good one in a held group with a poison row. Two jobs are one and its successor, two attempts one take-over.
Four batches of flows overflow the memory queue and the spool, so that the spiller, eviction, the
writer and shutdown meet; batches of four are split twice.
`CHECK_DEADLOCK FALSE` stands where the bounds (time, records, changes) end a
behaviour.

Fairness. `StatusPipeline`: the Run goroutine and the writer goroutine keep going
(weak fairness of each as a whole); nothing is assumed of checks, the server or
the sinks. `SensorAuthorization`: timers fire, every request ends by its 30 s
timeout, and a controller that is asked again and again answers at last (strong
fairness of accepting). `SensorDelivery`: the process is restarted, a call runs to
its end, the upload timer fires, and answers come in the end; the upload loop
competes with producers for the mutex, hence strong fairness. `DeviceAlerts`: a
worker ends the step of the loop it is in, and an incident that keeps being
selected is read by some pass (strong fairness, as a loop iteration every 30
seconds reads every selected row, while a worker may be busy with another at any
one moment). `HostInserts`: whatever can go on without a fault goes on, since agents
post until they are acknowledged, timers fire and inserts end. `NcmJobs`: slots keep
claiming and end their captures by a deadline, and leases that nobody renews expire.
`FlowDelivery`: the sealer's ticker, the spiller and the writer run, and an outage of
ClickHouse passes; nothing is assumed of arrivals, shutdown or restarts.

### The run with `expect: violation`

* `Flow_TempFile` (`PersistKeepsWhatFits`): the spiller writes the oldest batch to a
  temp file outside the lock; the writer, shutting down, takes the same batch from
  the queue and saves it under the same temp name. The spiller finds the batch gone
  and removes the file (`queue.go:324`); the writer's rename fails and the batch is
  counted as dropped, although the spool has room.

### Known limits of the code

Met while modelling, and excepted in the properties above or left out of what they
say:

* With `degraded_confirm_checks` 1 a device goes from Down straight to Degraded,
  while `docs/device-status-policy.md:30` has it return to Up first.
* After a restart the spool may reopen an older segment that was closed early
  because its batch was frozen (`spool.go:888`); newer results then overtake older
  ones of the same path. Without a restart the order holds
  (`OldestFirstUntilRestart`).
* Telemetry of a sensor is stored again when the transaction around its insert fails:
  the insert has no token (`sensor_api.py:1645`) and precedes the commit
  (`sensor_api.py:1666`), so a failed commit, or an insert that landed in part, leaves
  rows that the retry inserts once more. `ImplementsResultDelivery` promises one
  application in PostgreSQL, and telemetry at least once.
* Host telemetry is stored twice beyond the cases `host_insert_batcher.py:21` names,
  when the token of the replay differs because it is grouped with another upload: a
  block that landed in part was given up, a block landed in spite of its error and
  ClickHouse did not answer the probe, a block landed after its worker gave up or died,
  or the replay reaches a worker that has not written the upload or has restarted.
  `TwiceOnlyUntraced` excepts these.
* An upload can be acknowledged without all its rows: one that landed in the same month
  twice, with two blocks of different tokens, and in the other month not at all has as
  many rows as `rows_present` counts for (`host_insert_batcher.py:134`), although the
  comment at `host_insert_batcher.py:108` has a partially stored upload replay.
  `AckedIsStored` excepts it.
* A backup incident is also opened and resolved without a job (section 2), so it need
  not tell the outcome of the last job then.
* A change event may be linked to a version older than the change when its job was
  retried after it had captured the running configuration, or when the event came
  while `process_pending` was past its look at the active job (`ncm_changes.py:114`).
  Where the startup configuration is captured first or alone (`ncm.py:450` and
  `BulkDialogs.tsx:271` allow both), the event is linked to a startup version
  (`ncm.py:875`), which need not show the change.
* Alerts: a row suppressed by its dependency starts a cooldown (rows without a stamp
  count as paged); a level may be paged for an alert acknowledged or closed between
  the sweep's read and its update (which asks for the escalation state only); a
  snooze renewed between those two loses its stamp; the reminder of an ended snooze is
  sent again when its transaction fails, or the worker dies, between the send
  (`alert_workflow.py:691`) and the commit in the next line; and a recovery page may
  precede the page of a timed-out post. `NothingBeforeThePage` and `NeverTwice` are stated so
  that they hold beside these.
* An incident closed because its sensor went silent is told as an all-clear:
  `sensor_health_service.py:186` writes metadata that `closure_reason`
  (`alert_workflow.py:154`) takes for a recovery, while the comment at
  `alert_escalation_service.py:396` reserves the all-clear for a genuine recovery.
* After a failed save a job that is already queued stores `devices.status` without the
  state row, until the device's next check writes its full state again; and a failed
  save delivers its event. `RowExplainsDevice`, `AnnouncedIsStored` and
  `AlertsFollowSaves` are stated until a save fails.
* Flow rows are stored twice after a kill between an insert and the removal of its
  segment's parts, and when a part that had been stored in spite of its error is
  refused and split under new tokens: after two refusals in a batch, after one when it
  is a held group that was not tried alone (`writer.go:309`, `:330`). `StoredOnce` excepts
  just these.
* A good row that is held in one group with poison rows waits for evidence that
  ClickHouse works: with nothing accepted in a round of retests no group is taken apart
  (`writer.go:298`). Until a later row is accepted the row stays held (and is put on disk
  at a stop), however much room the held list has; and a fault that begins during the
  retest wastes the evidence there was. `GoodRowsSettle` excepts such a row
  (`HeldWithPoison`).
* `GoodRowsSettle` is checked where the held list cannot fill up. When a passing
  fault has filled it, the next batch is judged systemic (`writer.go:536`) and from
  then on only its first part is tried; if that part is a poison row, ClickHouse's
  recovery goes unnoticed and every row behind waits, against the comment at
  `writer.go:425`.
* `GoodRowsSettle` speaks of a verdict, which may be the dead-letter file. A row
  refused in a round of retests before the fault passed is dead-lettered as soon as a
  later part of the round is accepted (`writer.go:306`), against `writer.go:176`; and
  a row that first fails after its batch had an acceptance, because a fault began in
  mid-batch, is tried once more and dead-lettered, against `writer.go:424`.

## 4. Proofs

`DeviceStatusMachine_proofs` proves `ToldIsDisplayed`, `ConfirmedByEvidence` and
`PendingIsShort` for any settings, policies, samples, clock steps and maintenance
windows, from `CapsAssumption` and `MachineAssumption`. The latter says that policies
obey the loader's rules (`PolicyRules`) and that the observer, who is part of the model
only, remembers as many checks as a policy counts. `Step` is taken apart once
(`Ordered`, `Collected`, `Decided`), each part with a lemma on what it leaves of the
state; `StepParts` puts them together. `ToldIsDisplayed` is inductive with the types of the state:
`ToldByStep` goes through what a check may say, maintenance begins, ends or lasts, or a
hard change. `ConfirmedByEvidence` is not: a change rests on streaks and on a ring that
earlier checks filled. `Fits` says that each of them is found in the observer's history;
the streak of clear answers only while Degraded and the ring only while not Down, since
elsewhere they are stale and start over before they count. `FlappingIsRecent`,
`HeldForItsOwnClass` and `TypeOK` of this machine depend on what `SelectSeq` returns,
which is recursive, and stay with TLC.

`SensorAuthorization_proofs` proves `TypeOK`, `ProbingIsVouched` and
`BlockIsStored` for any set of loops and any bounds, from
`AuthorizationAssumption` only. The inductive invariant `IInv` adds three facts to
the type invariant: a request whose epoch is the current one has not been
overtaken by a rejection; an accepted recovery request that has not been overtaken
means the controller vouched for the sensor; and a standing rejection is in
memory and, unless its write failed, in the file. `ProbingIsVouched` alone is not
inductive: whether a success may lift the block depends on epochs and on what the
controller decided earlier.

`StatusPipeline_proofs` proves `TypeOK`, with the bound of the writer queue, and
`EpisodeFollowsState`, for any devices, sensors, queue length and bounds, through
crashes, failing saves and every owner pattern (`Returns` included), from
`PipelineAssumption` only. Its inductive invariant gives types to everything that
flows into the rows: jobs on the batch, in the queue and in the writer's hand, the
loaded snapshot, and the result of a refused save, whose owner is a sensor because
only a sensor's row can refuse one. `WriteType` carries the argument for the save:
a job writes state row and episode together or neither.

The rest of the module is about the rows under the conditions the runs use:
`Returns = "settled"` for `RowExplainsDevice`, `AnnouncedIsStored`, `PlannedIsStored`
and `SeesReleases`, `Returns # "any"` for `SeesSensorWrites`, none for
`AlertsFollowSaves`. `RowExplainsDevice` alone is not inductive: a save writes what
some job carries, and whether that fits the rows depends on every job before it. The
strengthening `SInv` therefore speaks of the whole line of work (the job in the
writer's hand, the queue, the batch). `Finds` is what a job finds when the writer gets
to it: the state the nearest earlier job of the device leaves or, without one, the
row. `Continues` says that every job continues from what it finds, `Believed` that the
engine's belief is what the line leaves, `Lineage` that a polled device's jobs share
its epoch and stamps, `Unrefused` that none of them will be refused. For
`AlertsFollowSaves` event numbers rise along the line, the job just saved, the effects
and what was received (`Order`). For `SeesSensorWrites`, a sensor whose row a state
was taken over from has had its turn (`Took`), and a turn does not come again.

`DeviceAlerts_proofs` proves `TypeOK`, `OneOpenAlert`, `UpClosesAll`,
`NothingBeforeThePage` and `NeverTwice` for any workers, levels, repeats and bounds,
from `DeviceAlertsAssumption`. Every row stems from a transition of its own (`Room`). What a
sweep holds between its read and its claim is still there and only went on from what
was read (`InHand`): the claim then sees what changed in between. For the notices, each
one made has left its mark on its row, told, resolved, a level and step, or closed
(`AllMarked`); marks are never taken back (`Later`); each notice is with one dispatcher
and, once attempted, with none (`OneHand`). A step plans a notice only when its mark is
not there yet and sets it in the same transaction, so no second one is ever made.
`NeverTwice` alone says nothing about notices in flight. A reminder has no mark but
the stamp of its snooze, which it takes with it (`Reminded`) unless the transaction
fails after the send: such a row is in `used.unsaved`, and only its reminder, or that of
a row snoozed again, can be repeated.

`HostInserts_proofs` proves `TypeOK`, `AckedIsStored`, `TwiceOnlyUntraced` and
`PendingIsInOneBatch` for any uploads, workers, tables, batch size and faults, from
`HostInsertsAssumption` only. For `AckedIsStored` the invariant `IInv` says that each
of the three records a worker relies on stands for stored rows: a token a partition
has seen, an outcome a worker remembers, and a ledger row. What the last two stand for
is `Held`: a row in each month, or one month's twice, which is all that a count of two
rows says (`CountedIsHeld`). Rows are only ever added (`Grows`), so none of these can
become untrue. `TwiceOnlyUntraced` needs two more: the rows of an upload are in at most
one open batch or running write of a place (`OneBatch`), and `Once`: an upload that was
never in doubt is with one worker per table, each partition has its row at most once
(`OnceAt`), and once it has, a write that still holds it repeats a block whose token the
partition knows. Without `OneBatch` two writes of one worker could land one after the
other, each looking harmless. Blocks that are given up stay in `stray`, and one that
lands late puts its uploads in doubt, so the invariant asks nothing of them.

`NcmJobs_proofs` proves `TypeOK`, `SuccessIsComplete`, `IncidentTellsTheLastOutcome`
and `FinishedForGood` (no slot that lost its lease, and no cancellation, rewrites a
job that has ended) for any slots, jobs, attempts, types, events and failures, from
`NcmJobsAssumption`. The invariant ties the copy a slot carries to the row: a job has
a lease exactly while it runs, what job and slot report was captured, a slot only
succeeds with every type, and at most one job is queued or running. `SuccessIsComplete`
alone is not inductive: what a slot reports at the end was captured over several
attempts, part of it by slots that lost their lease. `LinkedVersionShowsTheChange` is
proved where `config_types` begins with the running configuration (`RunningFirst`, a
hypothesis of the theorem). No two slots hold the same attempt, and the latest one is
only worked on while its job runs (`Leases`): a scan that finds no job running has found
no slot with a first attempt. `Link` says of an event and the job it has, or may be given
by the scan under way, that every capture of that job begins after the event or is
stored with it.

`FlowDelivery_proofs` proves `TypeOK`, `Accounted`, `StoredOnce` and `NextIsOldest` for any
sizes of batches, queue, spool and held list, any poison rows and bounds, from
`FlowAssumption`. The writer has the same rows in different hands at different times
(parts of a batch, suspects, held groups, a round of retests, what is to be written or
dropped at the end), so the invariant speaks of one sequence, `Line`: the groups it
answers for, in the order in which it would keep them. `Balance` says that a row that left
the queue is in the line, refused in this round, in a segment or counted; `Tokens` that
groups of the line, segments that are not opened and stored tokens share no row that is
not torn. Neither is inductive without the others: a batch is only cut into parts that
are apart and hold what is not decided of it (`Pieces`); a segment is dropped only when
everything in it is elsewhere (`Replaced`); batches come in the order of their rows
(`Ages`), which gives `NextIsOldest`, as an action property, as well as `StoredOnce` when
a later batch is taken. Most actions of the writer change the line in one of three ways:
a group leaves it, one is replaced by two halves, or its order changes (`Without`, `Split`,
`Picks`), and the lemmas say once what each keeps.

`SensorDelivery_proofs` proves all that the two runs check of spool and delivery beside
`QueueDrains`, for any sizes, limits, kinds of results and bounds,
from `SpoolAssumption` and `DeliveryAssumption`. The replay of the control log is a
recursive function; that a log with one more frame replays to the old state with that
frame applied (`ReplayStep`) is proved from its definition, and everything else about the
log follows from it. `SpoolInv` has four parts. `DiskInv` says that the directory is
whole, including segments whose removal a crash may undo: those hold nothing that is
still queued, so that bringing them back shows nothing (`CrashingKeeps`), and a snapshot,
which forgets the deaths in them, syncs their removal. `Remembered` says that an open
spool holds in memory what its directory would recover to. `MemoryShape` has the types,
and `CallInv` says that a call which has still to queue its result holds a number under
which none has entered. `Openable`, `RestartResumes` and `LossIsCounted` are read off this; none of
them is inductive, since compaction and recovery depend on which deaths the log still
records. `OldestFirstUntilRestart` needs `OrderInv`: until the process restarts the
segments follow each other and only the newest is written to, because the segment to
write to is chosen from the directory while it is opened only.

For the delivery, the steps of the spool are reduced to what they mean to its users
(`Same`, `Enters`, `Drops`, `Freezes`). `DeliveryInv` adds that a request underway, or one
nobody waits for any more, is the batch in flight, or completed, or holds a bad result;
that what was applied and not yet acknowledged is in flight and in the ledger, so that
neither age nor eviction drops it; and that a batch which was not answered is still the
one in flight. The first two are what makes a late request harmless: handled after its
batch was split it is refused for the same bad result, handled after the batch was
acknowledged its key is in the ledger. `RetriesAreTheSame` follows, and so does the
refinement (`DeliveryKeepsThePromise`), where a rolled back transaction is a `Store` of
results that are queued still: the fates of the results, as the mapping computes
them, are read from the disk (`FateIs`), and every step of the delivery is a step of
`ResultDelivery` or a stutter (`EffectTurns`).

Only model-checked: `FlappingIsRecent` and `HeldForItsOwnClass` of the status machine,
which rest on what `SelectSeq` returns, the properties of `Pipeline_Fair`, `Delivery` and
the other runs that are marked fair and say that something happens in the end, which the
prover cannot reach (nor ENABLED), and the finding of `Flow_TempFile`.

## 5. Not modelled, and what could come next

Cores that would bear a model of their own, in this order:

1. Sensor command processor and check scheduler; the outbox worker, and with it the
   handoff between the two paths to the alert engine; assignments that change while
   a batch is retried.
2. The Windows agent's spool and upload worker on the other side of `HostInserts`;
   the updater's transaction.
3. Late-send claims and flap notices; policy escalation; template caching of the
   NetFlow decoders.
4. Proofs: `FlappingIsRecent` and `HeldForItsOwnClass`, with windows that are not
   filtered sequences.

Most of the repository's Python (request handlers, reports, inventory queries, map
and dashboard endpoints, discovery, compliance, real-user and application
monitoring) computes an answer from rows under one transaction. It has no protocol,
no state between requests and nothing that runs beside it, so a model of it would
repeat its queries; that is why the models cover a small share of the lines. The
dashboard, the appliance and the deployment scripts are left out for the same
reason, and the Python twin of the status machine because shared test vectors hold
it to the Go one.
