---------------------------- MODULE StatusPipeline ----------------------------
(***************************************************************************)
(* How a confirmed status reaches the database and the alert engine, and   *)
(* who may write it: the central poller's engine (in-memory device states  *)
(* under e.mu), its single status writer goroutine, its per-device effect  *)
(* queues, the devices / device_status_state / device_flap_episodes rows,  *)
(* and the server side that moves a device between polling owners, ingests *)
(* the owning sensor's results and releases devices.                       *)
(*                                                                         *)
(* The status machine (module DeviceStatus) is reduced to what travels:    *)
(* the hard status and the device-level flap flag.  Confirmation counters  *)
(* and the heartbeat are the free choice "due" of a check; maintenance,    *)
(* end reasons and last_seen are left out.  The three sinks of an event    *)
(* (status log, alert engine, Redis) are identical FIFOs: one is kept.     *)
(***************************************************************************)
EXTENDS Integers, Sequences, FiniteSets

CONSTANTS
    Devices, Sensors,
    Central,            \* the central poller as an owner
    NoOwner,            \* no owner named, no row
    First,              \* devices.status when the poller starts with no rows
    QueueCap,           \* jobs the writer queue holds (the code: batches)
    Returns,            \* when a device may return to central polling: see MayReturn
    \* bounds of the model
    MaxHandoffs, MaxChanges, MaxWrites, MaxFaults, MaxCrashes

ASSUME PipelineAssumption ==
    /\ Central \notin Sensors /\ NoOwner \notin Sensors \cup {Central}
    /\ First \in {"unknown", "up", "down"}
    /\ QueueCap \in Nat \ {0}
    /\ Returns \in {"settled", "new_sensor", "any"}
    /\ {MaxHandoffs, MaxChanges, MaxWrites, MaxFaults, MaxCrashes} \subseteq Nat

Statuses == {"unknown", "up", "down"}
Owners == Sensors \cup {Central}
States == [hard : Statuses, flap : BOOLEAN]
NoRow == [owner |-> NoOwner, hard |-> "unknown", flap |-> FALSE]
NoEvent == [old |-> "unknown", new |-> "unknown", id |-> 0]
Absent == [present |-> FALSE, state |-> [hard |-> "unknown", flap |-> FALSE], planned |-> FALSE,
           takeover |-> NoOwner, lost |-> FALSE, epoch |-> 0, basis |-> <<0, 0>>]
Idle == [phase |-> "idle"]

VARIABLES
    db,         \* per device: owner, ping, status, mirror (is_flapping), row, episode
    devices,    \* e.devices: the engine's device states
    snapshot,   \* what LoadDevices read, until the engine applies it
    batch,      \* jobs of the running ping cycle, or a release, not yet submitted
    queue,      \* the writer's channel
    writer,     \* the writer goroutine: idle, or the work in hand
    effects,    \* per device: events queued for the sink
    epochs,     \* the last state lineage id given out
    spent,      \* how much of each bound is used
    \* history
    stamps,     \* per device: <<sensor writes, releases>> so far
    announced,  \* per device: the status the committed changes announce, whoever made them
    saved,      \* per device: id of the last confirmed change committed
    received,   \* per device: id of the last event the sink received
    served      \* per device: the sensors that ever owned it

vars == <<db, devices, snapshot, batch, queue, writer, effects, epochs, spent,
          stamps, announced, saved, received, served>>
dbVars == <<db, stamps, announced, served>>
engineVars == <<devices, snapshot, batch, epochs>>
writerVars == <<queue, writer, effects, saved, received>>

Polled(d) == db[d].owner = Central /\ db[d].ping
Spend(what) == spent' = [spent EXCEPT ![what] = @ + 1]

WorkFor(d) ==
    \/ \E i \in 1..Len(queue) : queue[i].kind = "job" /\ queue[i].dev = d
    \/ \E i \in 1..Len(batch) : batch[i].kind = "job" /\ batch[i].dev = d
    \/ writer.phase \in {"save", "post"} /\ writer.job.dev = d

Init ==
    /\ db = [d \in Devices |-> [owner |-> Central, ping |-> TRUE, status |-> First, mirror |-> FALSE,
                                row |-> NoRow, episode |-> FALSE]]
    /\ devices = [d \in Devices |-> Absent]
    /\ snapshot = [loaded |-> FALSE]
    /\ batch = <<>> /\ queue = <<>> /\ writer = Idle
    /\ effects = [d \in Devices |-> <<>>]
    /\ epochs = 0
    /\ spent = [handoffs |-> 0, changes |-> 0, writes |-> 0, faults |-> 0, crashes |-> 0]
    /\ stamps = [d \in Devices |-> <<0, 0>>]
    /\ announced = [d \in Devices |-> First]
    /\ saved = [d \in Devices |-> 0]
    /\ received = [d \in Devices |-> 0]
    /\ served = [d \in Devices |-> {}]

-----------------------------------------------------------------------------
(***************************************************************************)
(* The server: ownership, ping switch, the owning sensor's results.        *)
(***************************************************************************)

(* When ownership or ping may come back to the poller: at any time; or     *)
(* never after a second turn of the same sensor; or only once the poller   *)
(* is done with the previous turn.                                         *)
MayReturn(d) ==
    Returns = "settled" => ~devices[d].present /\ ~snapshot.loaded /\ ~WorkFor(d)

Handoff(d, o) ==
    /\ spent.handoffs < MaxHandoffs
    /\ o # db[d].owner
    /\ o = Central => MayReturn(d)
    /\ Returns # "any" => o \notin served[d]
    /\ db' = [db EXCEPT ![d].owner = o]
    /\ served' = [served EXCEPT ![d] = @ \cup (Sensors \cap {o})]
    /\ Spend("handoffs")
    /\ UNCHANGED <<engineVars, writerVars, stamps, announced>>

(* The device update that disables ping releases the device in the same    *)
(* transaction.                                                            *)
SwitchPingOff(d) ==
    /\ spent.handoffs < MaxHandoffs
    /\ db[d].ping
    /\ db' = [db EXCEPT ![d].ping = FALSE, ![d].row = NoRow, ![d].episode = FALSE, ![d].mirror = FALSE]
    /\ stamps' = [stamps EXCEPT ![d][2] = @ + 1]
    /\ Spend("handoffs")
    /\ UNCHANGED <<engineVars, writerVars, announced, served>>

SwitchPingOn(d) ==
    /\ ~db[d].ping
    /\ MayReturn(d)
    /\ db' = [db EXCEPT ![d].ping = TRUE]
    /\ UNCHANGED <<engineVars, writerVars, stamps, announced, served, spent>>

(* The row cannot be stepped by this owner: missing, another owner's, or   *)
(* the displayed status was changed behind it.                             *)
NeedsReseed(row, status, owner) == row.owner # owner \/ row.hard # status

Seed(status) == [hard |-> status, flap |-> FALSE]
RowState(row) == [hard |-> row.hard, flap |-> row.flap]

(* What one check can make of a state: a known status, and a flap flag     *)
(* that can only start with a change between known statuses.               *)
CheckOutcomes(state) ==
    {next \in States :
        /\ next.hard # "unknown"
        /\ next.flap => state.flap \/ (next.hard # state.hard /\ state.hard # "unknown")}

(* The owning sensor's batch: reseed if needed, step, write device, state  *)
(* and episode rows, queue the transition in the outbox: one transaction.  *)
SensorWrite(s, d) ==
    /\ spent.writes < MaxWrites
    /\ db[d].owner = s /\ db[d].ping
    /\ LET state == IF NeedsReseed(db[d].row, db[d].status, s) THEN Seed(db[d].status) ELSE RowState(db[d].row)
       IN \E next \in CheckOutcomes(state) :
            /\ db' = [db EXCEPT ![d] = [@ EXCEPT
                         !.status = next.hard, !.mirror = next.flap, !.episode = next.flap,
                         !.row = [owner |-> s, hard |-> next.hard, flap |-> next.flap]]]
            /\ announced' = [announced EXCEPT ![d] = next.hard]
    /\ stamps' = [stamps EXCEPT ![d][1] = @ + 1]
    /\ Spend("writes")
    /\ UNCHANGED <<engineVars, writerVars, served>>

(* The health sweep marks a sensor offline: everything it owns is unknown, *)
(* its confirmation state goes, its alerts are resolved.                   *)
SensorOffline(s) ==
    /\ spent.writes < MaxWrites
    /\ \E d \in Devices : db[d].owner = s
    /\ db' = [d \in Devices |->
                IF db[d].owner = s
                THEN [db[d] EXCEPT !.status = "unknown", !.mirror = FALSE, !.row = NoRow, !.episode = FALSE]
                ELSE db[d]]
    /\ announced' = [d \in Devices |-> IF db[d].owner = s THEN "unknown" ELSE announced[d]]
    /\ stamps' = [d \in Devices |-> IF db[d].owner = s THEN [stamps[d] EXCEPT ![2] = @ + 1] ELSE stamps[d]]
    /\ Spend("writes")
    /\ UNCHANGED <<engineVars, writerVars, served>>

-----------------------------------------------------------------------------
(***************************************************************************)
(* The poller's Run goroutine: device sync and ping cycles, one after the  *)
(* other.                                                                  *)
(***************************************************************************)

(* A device built from its row, or silently seeded from its status; a seed *)
(* that replaces another owner's row names that owner.                     *)
InitDevice(d) ==
    LET row == db[d].row
        reseed == NeedsReseed(row, db[d].status, Central)
    IN [present |-> TRUE,
        state |-> IF reseed THEN Seed(db[d].status) ELSE RowState(row),
        planned |-> ~reseed,
        takeover |-> IF row.owner = Central THEN NoOwner ELSE row.owner,
        lost |-> FALSE, epoch |-> 0, basis |-> stamps[d]]

(* LoadDevices: one query, outside the lock.                               *)
SyncLoad ==
    /\ ~snapshot.loaded /\ batch = <<>>
    /\ snapshot' = [loaded |-> TRUE,
                    found |-> [d \in Devices |-> IF Polled(d) THEN InitDevice(d) ELSE Absent]]
    /\ UNCHANGED <<dbVars, devices, batch, epochs, writerVars, spent>>

\* mutant: a parked device keeps its in-memory state
KeptThoughParked(d) == devices[d].present

(* Under e.mu: a known device keeps its in-memory state, a new or parked   *)
(* one starts a new lineage from what was loaded; devices that left are    *)
(* dropped and released through the writer.                                *)
Kept(d) == devices[d].present /\ ~devices[d].lost

SyncApply ==
    /\ snapshot.loaded
    /\ LET started == {d \in Devices : snapshot.found[d].present /\ ~Kept(d)}
           released == {d \in Devices : devices[d].present /\ ~snapshot.found[d].present}
       IN /\ devices' = [d \in Devices |->
                IF d \in started THEN [snapshot.found[d] EXCEPT !.epoch = epochs + 1]
                ELSE IF d \in released THEN Absent
                ELSE devices[d]]
          /\ epochs' = IF started = {} THEN epochs ELSE epochs + 1
          /\ batch' = IF released = {} THEN <<>> ELSE <<[kind |-> "release", ids |-> released]>>
    /\ snapshot' = [loaded |-> FALSE]
    /\ UNCHANGED <<dbVars, writerVars, spent>>

\* mutant: an unchanged heartbeat is written, a change is not
PlanWriteOnHeartbeat(device, next, due) == ~device.planned \/ due

(* planPersist: the state row is written when it was never written or its  *)
(* last write failed, when the state changed, or for the heartbeat.        *)
PlanWrite(device, next, due) == ~device.planned \/ next # device.state \/ due

\* mutant: a seeded device's first check is silent, as its seed
EventOfLoaded(device, next, id) ==
    IF next.hard # device.state.hard /\ device.planned
    THEN [old |-> device.state.hard, new |-> next.hard, id |-> id] ELSE NoEvent

EventOf(device, next, id) ==
    IF next.hard # device.state.hard
    THEN [old |-> device.state.hard, new |-> next.hard, id |-> id] ELSE NoEvent

(* stepDevice: step the machine, decide whether to write, plan the job.    *)
StepDevice(d) ==
    /\ ~snapshot.loaded
    /\ \A i \in 1..Len(batch) : batch[i].kind = "job" /\ batch[i].dev # d
    /\ devices[d].present /\ ~devices[d].lost
    /\ \E next \in CheckOutcomes(devices[d].state), due \in BOOLEAN, responded \in BOOLEAN :
         LET device == devices[d]
             changed == next.hard # device.state.hard
             writeState == PlanWrite(device, next, due)
             job == [kind |-> "job", dev |-> d, state |-> next, writeState |-> writeState,
                     event |-> EventOf(device, next, spent.changes + 1),
                     takeover |-> device.takeover, epoch |-> device.epoch, basis |-> device.basis]
         IN /\ changed => spent.changes < MaxChanges /\ responded = (next.hard = "up")
            /\ writeState \/ responded
            /\ devices' = [devices EXCEPT ![d].state = next, ![d].planned = @ \/ writeState]
            /\ batch' = Append(batch, job)
            /\ IF changed THEN Spend("changes") ELSE UNCHANGED spent
    /\ UNCHANGED <<dbVars, snapshot, epochs, writerVars>>

(* The hand-off at the end of a cycle or of a sync; it blocks while the    *)
(* queue is full.                                                          *)
Submit ==
    /\ batch # <<>>
    /\ Len(queue) + Len(batch) <= QueueCap
    /\ queue' = queue \o batch
    /\ batch' = <<>>
    /\ UNCHANGED <<dbVars, devices, snapshot, epochs, writer, effects, saved, received, spent>>

-----------------------------------------------------------------------------
(***************************************************************************)
(* The status writer goroutine.                                            *)
(***************************************************************************)
Stale(job) == devices[job.dev].present /\ devices[job.dev].epoch # job.epoch
Current(job) == devices[job.dev].present /\ devices[job.dev].epoch = job.epoch

Take ==
    /\ writer.phase = "idle" /\ queue # <<>>
    /\ LET work == Head(queue)
       IN writer' = IF work.kind = "release" THEN [phase |-> "release", ids |-> work.ids]
                    ELSE IF Stale(work) THEN Idle
                    ELSE [phase |-> "save", job |-> work]
    /\ queue' = Tail(queue)
    /\ UNCHANGED <<dbVars, engineVars, effects, saved, received, spent>>

\* mutant: any sensor's row is taken over
ForeignRowNever(job) == FALSE

(* A row of another writer than the one the seed may take over.            *)
ForeignRow(job) ==
    LET owner == db[job.dev].row.owner
    IN owner # NoOwner /\ owner # Central /\ owner # job.takeover

\* mutant: the episode is kept with every devices write
WriteEpisodeAlways(job) ==
    [db EXCEPT ![job.dev] = [@ EXCEPT
        !.status = job.state.hard, !.mirror = job.state.flap,
        !.row = IF job.writeState THEN [owner |-> Central, hard |-> job.state.hard, flap |-> job.state.flap] ELSE @,
        !.episode = job.state.flap]]

(* The save statement: devices row always, state row and episode with it.  *)
Write(job) ==
    [db EXCEPT ![job.dev] = [@ EXCEPT
        !.status = job.state.hard, !.mirror = job.state.flap,
        !.row = IF job.writeState THEN [owner |-> Central, hard |-> job.state.hard, flap |-> job.state.flap] ELSE db[job.dev].row,
        !.episode = IF job.writeState THEN job.state.flap ELSE db[job.dev].episode]]

\* mutant: without the loader's predicate
SaveResultWhoeverPolls(job) == IF ForeignRow(job) THEN "foreign" ELSE "saved"

(* Nothing is written for a device no longer polled by us, or under        *)
(* another writer's row.                                                   *)
SaveResult(job) ==
    IF ~Polled(job.dev) THEN "lost" ELSE IF ForeignRow(job) THEN "foreign" ELSE "saved"

Most(a, b) == IF a >= b THEN a ELSE b

(* One locked transaction.  It can also fail, with or without effect.      *)
Save ==
    /\ writer.phase = "save"
    /\ LET job == writer.job
           result == SaveResult(job)
       IN /\ db' = IF result = "saved" THEN Write(job) ELSE db
          /\ saved' = IF result = "saved" THEN [saved EXCEPT ![job.dev] = Most(@, job.event.id)] ELSE saved
          /\ announced' = IF result = "saved" /\ job.event # NoEvent
                          THEN [announced EXCEPT ![job.dev] = job.event.new] ELSE announced
          /\ writer' = [phase |-> "post", job |-> job, result |-> result,
                        status |-> db[job.dev].status, owner |-> db[job.dev].row.owner, basis |-> stamps[job.dev]]
    /\ UNCHANGED <<engineVars, queue, effects, received, spent, stamps, served>>

SaveFails ==
    /\ writer.phase = "save" /\ spent.faults < MaxFaults
    /\ LET job == writer.job
       IN /\ db' \in {db} \cup (IF SaveResult(job) = "saved" THEN {Write(job)} ELSE {})
          /\ writer' = [phase |-> "post", job |-> job, result |-> "error",
                        status |-> "unknown", owner |-> NoOwner, basis |-> stamps[job.dev]]
    /\ Spend("faults")
    /\ UNCHANGED <<engineVars, queue, effects, saved, received, stamps, announced, served>>

(* What the engine makes of the result, under e.mu.                        *)
Reseeded(job) ==
    [devices[job.dev] EXCEPT !.state = Seed(writer.status), !.planned = FALSE,
                             !.takeover = writer.owner, !.epoch = epochs + 1, !.basis = writer.basis]

\* mutant: a failed save is not planned again
AfterSaveTrusting(job) ==
    CASE writer.result = "error" -> devices[job.dev]
      [] writer.result = "foreign" -> Reseeded(job)
      [] writer.result = "lost" -> [devices[job.dev] EXCEPT !.lost = TRUE, !.planned = FALSE]
      [] writer.result = "saved" -> [devices[job.dev] EXCEPT !.takeover = NoOwner]

AfterSave(job) ==
    CASE writer.result = "error" -> [devices[job.dev] EXCEPT !.planned = FALSE]
      [] writer.result = "foreign" -> Reseeded(job)
      [] writer.result = "lost" -> [devices[job.dev] EXCEPT !.lost = TRUE, !.planned = FALSE]
      [] writer.result = "saved" ->
           IF job.writeState /\ job.takeover # NoOwner /\ devices[job.dev].takeover = job.takeover
           THEN [devices[job.dev] EXCEPT !.takeover = NoOwner] ELSE devices[job.dev]

\* mutant: a parked device's event is delivered all the same
DeliversUnlessForeign == writer.result # "foreign"

(* Saved or failed, the event goes to the sinks.                           *)
Delivers == writer.result \in {"saved", "error"}

Post ==
    /\ writer.phase = "post"
    /\ LET job == writer.job
       IN /\ devices' = IF Current(job) THEN [devices EXCEPT ![job.dev] = AfterSave(job)] ELSE devices
          /\ epochs' = IF writer.result = "foreign" /\ Current(job) THEN epochs + 1 ELSE epochs
          /\ effects' = IF Delivers /\ job.event # NoEvent THEN [effects EXCEPT ![job.dev] = Append(@, job.event)] ELSE effects
    /\ writer' = Idle
    /\ UNCHANGED <<db, stamps, announced, served, snapshot, batch, queue, saved, received, spent>>

\* mutant: only a device whose ping is off
ReleasableUnpinged(d) == ~db[d].ping /\ db[d].row.owner \in {NoOwner, Central}

(* ReleaseDevices, when the device really is not polled by us any more and *)
(* no sensor has taken the row.                                            *)
Releasable(d) == ~Polled(d) /\ db[d].row.owner \in {NoOwner, Central}

Release ==
    /\ writer.phase = "release"
    /\ db' = [d \in Devices |->
                IF d \in writer.ids /\ Releasable(d)
                THEN [db[d] EXCEPT !.mirror = FALSE, !.row = NoRow, !.episode = FALSE] ELSE db[d]]
    /\ stamps' = [d \in Devices |->
                    IF d \in writer.ids /\ Releasable(d) THEN [stamps[d] EXCEPT ![2] = @ + 1] ELSE stamps[d]]
    /\ writer' = Idle
    /\ UNCHANGED <<engineVars, queue, effects, saved, received, spent, announced, served>>

ReleaseFails ==
    /\ writer.phase = "release" /\ spent.faults < MaxFaults
    /\ writer' = Idle
    /\ Spend("faults")
    /\ UNCHANGED <<dbVars, engineVars, queue, effects, saved, received>>

(* One sink: FIFO per device; a failing sink loses the event.              *)
Deliver(d) ==
    /\ effects[d] # <<>>
    /\ received' = [received EXCEPT ![d] = Head(effects[d]).id]
    /\ effects' = [effects EXCEPT ![d] = Tail(@)]
    /\ UNCHANGED <<dbVars, engineVars, queue, writer, saved, spent>>

DeliverFails(d) ==
    /\ effects[d] # <<>> /\ spent.faults < MaxFaults
    /\ effects' = [effects EXCEPT ![d] = Tail(@)]
    /\ Spend("faults")
    /\ UNCHANGED <<dbVars, engineVars, queue, writer, saved, received>>

(* The poller process dies and starts again: memory is gone.               *)
Crash ==
    /\ spent.crashes < MaxCrashes
    /\ devices' = [d \in Devices |-> Absent]
    /\ snapshot' = [loaded |-> FALSE]
    /\ batch' = <<>> /\ queue' = <<>> /\ writer' = Idle
    /\ effects' = [d \in Devices |-> <<>>]
    /\ Spend("crashes")
    /\ UNCHANGED <<dbVars, epochs, saved, received>>

Server ==
    \E d \in Devices :
        \/ \E o \in Owners : Handoff(d, o)
        \/ SwitchPingOff(d)
        \/ SwitchPingOn(d)
        \/ \E s \in Sensors : SensorWrite(s, d)
Health == \E s \in Sensors : SensorOffline(s)
Runner == SyncLoad \/ SyncApply \/ Submit
Writer == Take \/ Save \/ Post \/ Release

Next ==
    \/ Server \/ Health \/ Runner \/ Writer
    \/ \E d \in Devices : StepDevice(d) \/ Deliver(d) \/ DeliverFails(d)
    \/ SaveFails \/ ReleaseFails \/ Crash

Spec == Init /\ [][Next]_vars

(* The Run goroutine's tickers and the writer goroutine keep going.        *)
Fairness == WF_vars(Runner) /\ WF_vars(Writer)
FairSpec == Spec /\ Fairness

-----------------------------------------------------------------------------
(***************************************************************************)
(* Properties.                                                             *)
(***************************************************************************)
Event == [old : Statuses, new : Statuses, id : 0..MaxChanges]
Job == [kind : {"job"}, dev : Devices, state : States, writeState : BOOLEAN, event : Event,
        takeover : Sensors \cup {NoOwner}, epoch : Nat, basis : Nat \X Nat]
ReleaseWork == [kind : {"release"}, ids : SUBSET Devices]
Device == [present : BOOLEAN, state : States, planned : BOOLEAN, takeover : Sensors \cup {NoOwner},
           lost : BOOLEAN, epoch : Nat, basis : Nat \X Nat]
Row == [owner : Owners \cup {NoOwner}, hard : Statuses, flap : BOOLEAN]

(* Shapes, and the bound of the writer queue.                              *)
TypeOK ==
    /\ db \in [Devices -> [owner : Owners, ping : BOOLEAN, status : Statuses, mirror : BOOLEAN,
                           row : Row, episode : BOOLEAN]]
    /\ devices \in [Devices -> Device]
    /\ batch \in Seq(Job \cup ReleaseWork) /\ queue \in Seq(Job \cup ReleaseWork)
    /\ Len(queue) <= QueueCap
    /\ writer.phase \in {"idle", "save", "post", "release"}
    /\ epochs \in Nat

(* A step in which the writer's transaction commits a job.                 *)
Commits == writer.phase = "save" /\ writer'.phase = "post" /\ writer'.result = "saved"

(* The flap episode is derived from the state row by every writer: an      *)
(* episode is open exactly while the stored state is flapping, whoever     *)
(* owns the row and through every handoff, release and lost write.         *)
EpisodeFollowsState == \A d \in Devices : db[d].episode = db[d].row.flap

(* A central row explains its devices row, so a restart resumes the stored *)
(* confirmation state instead of reseeding it.  Until a save fails, whose  *)
(* successor may already be queued and then stores the status alone.       *)
RowExplainsDevice ==
    spent.faults = 0 => \A d \in Devices : db[d].row.owner = Central =>
        db[d].row.hard = db[d].status /\ db[d].row.flap = db[d].mirror

(* No silent change: a commit that moves devices.status carries the event  *)
(* that says so, whoever owns the device; so the stored status is always   *)
(* the one the poller, a sensor's outbox or the health sweep announced.    *)
(* Until a save fails: a failed save delivers its event too.               *)
AnnouncedIsStored == spent.faults = 0 => \A d \in Devices : announced[d] = db[d].status

(* A save never replaces a row a sensor wrote after the saved state was    *)
(* built: such a row is reseeded from first, so that the next check        *)
(* confirms the real change.                                               *)
SeesSensorWrites ==
    [][Commits /\ db[writer.job.dev].row.owner \in Sensors
       => writer.job.basis[1] = stamps[writer.job.dev][1]]_vars

(* After a release (ping switched off, sensor offline, device left) the    *)
(* next writer starts from a silent seed: nothing stepped from a state     *)
(* built before the release is written.                                    *)
SeesReleases ==
    [][Commits => writer.job.basis[2] = stamps[writer.job.dev][2]]_vars

(* An alert is only sent for a change that is committed (persist delivers  *)
(* after the save), in commit order; so a restart, which resumes from the  *)
(* stored row, never sends one again.  Until a save fails, again.          *)
AlertsFollowSaves ==
    [][\A d \in Devices : spent.faults = 0 /\ received'[d] # received[d] =>
         received[d] < received'[d] /\ received'[d] <= saved[d]]_vars

(* The engine skips the write of a state it believes stored; whatever      *)
(* fails on the way there, it believes so only when the row holds that     *)
(* state or a write of the device is still on its way.                     *)
PlannedIsStored ==
    \A d \in Devices :
        Polled(d) /\ Kept(d) /\ devices[d].planned /\ ~WorkFor(d)
        => db[d].row = [owner |-> Central, hard |-> devices[d].state.hard, flap |-> devices[d].state.flap]

(* A parked device is taken up again or dropped by a later sync.           *)
ParkedIsResolved ==
    \A d \in Devices : devices[d].present /\ devices[d].lost ~> ~devices[d].lost

(* A device that leaves central polling while the engine polls it does not *)
(* keep a flap marker or an open episode of the poller for good.  (One     *)
(* that left before, and returned and left again between two syncs while   *)
(* a save was in flight, may keep them.)                                   *)
LeaversAreReleased ==
    \A d \in Devices : devices[d].present /\ db[d].episode /\ ~Polled(d) /\ db[d].row.owner = Central
                        ~> Polled(d) \/ db[d].row.owner # Central
=============================================================================
