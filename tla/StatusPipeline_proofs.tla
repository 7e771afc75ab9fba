------------------------ MODULE StatusPipeline_proofs ------------------------
(***************************************************************************)
(* Proofs about StatusPipeline, for any devices, sensors, queue length and *)
(* bounds.                                                                 *)
(***************************************************************************)
EXTENDS StatusPipeline, SequenceTheorems, TLAPS

(* The work in the writer's hand.  Only a refused save names a sensor.     *)
WriterType ==
    \/ writer = Idle
    \/ writer \in [phase : {"save"}, job : Job]
    \/ /\ writer \in [phase : {"post"}, job : Job, result : {"saved", "lost", "foreign", "error"},
                      status : Statuses, owner : Owners \cup {NoOwner}, basis : Nat \X Nat]
       /\ writer.result = "foreign" => writer.owner \in Sensors
    \/ writer \in [phase : {"release"}, ids : SUBSET Devices]

SnapshotType ==
    \/ snapshot = [loaded |-> FALSE]
    \/ snapshot \in [loaded : {TRUE}, found : [Devices -> Device]]

Work == Job \cup ReleaseWork
DbRow == [owner : Owners, ping : BOOLEAN, status : Statuses, mirror : BOOLEAN, row : Row, episode : BOOLEAN]
Spent == [handoffs : Nat, changes : 0..MaxChanges, writes : Nat, faults : Nat, crashes : Nat]

DbType == db \in [Devices -> DbRow] /\ stamps \in [Devices -> Nat \X Nat]
EngineType == devices \in [Devices -> Device] /\ batch \in Seq(Work) /\ epochs \in Nat
QueueType == queue \in Seq(Work) /\ Len(queue) <= QueueCap

(* The inductive invariant: the types of everything that flows into the    *)
(* rows, and the claim about the rows.                                     *)
IInv == DbType /\ EngineType /\ SnapshotType /\ QueueType /\ WriterType /\ spent \in Spent /\ EpisodeFollowsState

-----------------------------------------------------------------------------
(***************************************************************************)
(* The pieces states, rows and jobs are made of.                           *)
(***************************************************************************)
LEMMA SeedType ==
    ASSUME NEW status \in Statuses
    PROVE  Seed(status) \in States
BY DEF Seed, States

LEMMA RowStateType ==
    ASSUME NEW row \in Row
    PROVE  RowState(row) \in States
BY DEF Row, RowState, States

LEMMA AbsentType == Absent \in Device
BY DEF Absent, Device, States, Statuses

LEMMA NoRowType == NoRow \in Row /\ NoRow.flap = FALSE
BY DEF NoRow, Row, Statuses

LEMMA InitDeviceType ==
    ASSUME DbType, NEW d \in Devices, Polled(d)
    PROVE  InitDevice(d) \in Device
<1> DEFINE row == db[d].row
<1>1. row \in Row /\ db[d].status \in Statuses /\ stamps[d] \in Nat \X Nat
  BY DEF DbType, DbRow
<1>2. row.owner \in Sensors \cup {Central, NoOwner}
  BY <1>1 DEF Row, Owners
<1>3. (IF row.owner = Central THEN NoOwner ELSE row.owner) \in Sensors \cup {NoOwner}
  BY <1>2
<1>4. (IF NeedsReseed(row, db[d].status, Central) THEN Seed(db[d].status) ELSE RowState(row)) \in States
  BY <1>1, SeedType, RowStateType
<1>5. (~NeedsReseed(row, db[d].status, Central)) \in BOOLEAN
  OBVIOUS
<1> HIDE DEF row
<1>6. InitDevice(d) =
       [present |-> TRUE,
        state |-> IF NeedsReseed(row, db[d].status, Central) THEN Seed(db[d].status) ELSE RowState(row),
        planned |-> ~NeedsReseed(row, db[d].status, Central),
        takeover |-> IF row.owner = Central THEN NoOwner ELSE row.owner,
        lost |-> FALSE, epoch |-> 0, basis |-> stamps[d]]
  BY DEF InitDevice, row
<1> QED BY <1>1, <1>3, <1>4, <1>5, <1>6 DEF Device

(* Rows made by a save have the type of a row, and episode and state row   *)
(* are written together or not at all.                                     *)
LEMMA WriteType ==
    ASSUME DbType, EpisodeFollowsState, NEW job \in Job
    PROVE  /\ Write(job) \in [Devices -> DbRow]
           /\ \A d \in Devices : Write(job)[d].episode = Write(job)[d].row.flap
<1> DEFINE d == job.dev
           row == IF job.writeState THEN [owner |-> Central, hard |-> job.state.hard, flap |-> job.state.flap]
                  ELSE db[d].row
           episode == IF job.writeState THEN job.state.flap ELSE db[d].episode
           new == [db[d] EXCEPT !.status = job.state.hard, !.mirror = job.state.flap, !.row = row, !.episode = episode]
<1>1. d \in Devices /\ job.state \in States /\ job.writeState \in BOOLEAN
  BY DEF Job
<1>2. job.state.hard \in Statuses /\ job.state.flap \in BOOLEAN
  BY <1>1 DEF States
<1>3. db \in [Devices -> DbRow] /\ db[d] \in DbRow /\ db[d].row \in Row /\ db[d].episode \in BOOLEAN
  BY <1>1 DEF DbType, DbRow
<1>4. row \in Row
  <2>1. [owner |-> Central, hard |-> job.state.hard, flap |-> job.state.flap] \in Row
    BY <1>2 DEF Row, Owners
  <2> QED BY <1>3, <2>1
<1>5. episode \in BOOLEAN /\ episode = row.flap
  BY <1>1, <1>2, <1>3 DEF EpisodeFollowsState
<1>6. Write(job) = [db EXCEPT ![d] = new]
  BY DEF Write
<1> HIDE DEF d, row, episode
<1>7. new \in DbRow /\ new.episode = episode /\ new.row = row
  BY <1>2, <1>3, <1>4, <1>5 DEF DbRow
<1> HIDE DEF new
<1>8. \A e \in Devices : Write(job)[e] = IF e = d THEN new ELSE db[e]
  BY <1>3, <1>6
<1>9. Write(job) \in [Devices -> DbRow]
  BY <1>1, <1>3, <1>6, <1>7
<1> QED BY <1>5, <1>7, <1>8, <1>9 DEF EpisodeFollowsState
-----------------------------------------------------------------------------
(***************************************************************************)
(* The first states, and the steps, part by part.                          *)
(***************************************************************************)
LEMMA InitIInv == Init => IInv
<1> SUFFICES ASSUME Init PROVE IInv
  OBVIOUS
<1> USE PipelineAssumption DEF Init
<1> DEFINE first == [owner |-> Central, ping |-> TRUE, status |-> First, mirror |-> FALSE,
                     row |-> NoRow, episode |-> FALSE]
<1>1. DbType /\ EpisodeFollowsState
  <2>1. first \in DbRow /\ first.episode = first.row.flap
    BY NoRowType DEF DbRow, Owners, Statuses, Row
  <2>2. db = [d \in Devices |-> first] /\ stamps = [d \in Devices |-> <<0, 0>>]
    OBVIOUS
  <2> HIDE DEF first
  <2>3. db \in [Devices -> DbRow] /\ EpisodeFollowsState
    BY <2>1, <2>2 DEF EpisodeFollowsState
  <2>4. stamps \in [Devices -> Nat \X Nat]
    <3>1. <<0, 0>> \in Nat \X Nat
      OBVIOUS
    <3> QED BY <2>2, <3>1
  <2> QED BY <2>3, <2>4 DEF DbType
<1>2. EngineType
  BY AbsentType DEF EngineType
<1>3. SnapshotType /\ WriterType /\ QueueType
  BY DEF SnapshotType, WriterType, QueueType, Idle
<1>4. spent \in Spent
  BY DEF Spent
<1> QED BY <1>1, <1>2, <1>3, <1>4 DEF IInv

LEMMA SpendType ==
    ASSUME spent \in Spent, NEW what \in {"handoffs", "writes", "faults", "crashes"}, Spend(what)
    PROVE  spent' \in Spent
BY DEF Spend, Spent

LEMMA RowUpdate ==
    ASSUME DbType, EpisodeFollowsState, NEW d \in Devices, NEW new \in DbRow, new.episode = new.row.flap,
           db' = [db EXCEPT ![d] = new], stamps' \in [Devices -> Nat \X Nat]
    PROVE  DbType' /\ EpisodeFollowsState'
<1>1. \A e \in Devices : db'[e] = IF e = d THEN new ELSE db[e]
  BY DEF DbType
<1> QED BY <1>1 DEF DbType, EpisodeFollowsState

(* The server writes rows only.                                            *)
LEMMA ServerStep == IInv /\ (Server \/ Health) => IInv'
<1> SUFFICES ASSUME IInv, Server \/ Health PROVE IInv'
  OBVIOUS
<1> USE DEF IInv
<1>1. UNCHANGED <<engineVars, writerVars>>
  BY DEF Server, Health, Handoff, SwitchPingOff, SwitchPingOn, SensorWrite, SensorOffline
<1>2. EngineType' /\ SnapshotType' /\ QueueType' /\ WriterType'
  BY <1>1 DEF EngineType, SnapshotType, QueueType, WriterType, engineVars, writerVars
<1>3. spent' \in Spent
  <2>1. Spend("handoffs") \/ Spend("writes") \/ UNCHANGED spent
    BY DEF Server, Health, Handoff, SwitchPingOff, SwitchPingOn, SensorWrite, SensorOffline
  <2> QED BY <2>1, SpendType
<1>4. DbType' /\ EpisodeFollowsState'
  <2>1. ASSUME NEW d \in Devices, NEW o \in Owners, Handoff(d, o) PROVE DbType' /\ EpisodeFollowsState'
    BY <2>1 DEF Handoff, DbType, DbRow, EpisodeFollowsState
  <2>2. ASSUME NEW d \in Devices, SwitchPingOff(d) PROVE DbType' /\ EpisodeFollowsState'
    <3> DEFINE new == [db[d] EXCEPT !.ping = FALSE, !.row = NoRow, !.episode = FALSE, !.mirror = FALSE]
    <3>1. new \in DbRow /\ new.episode = new.row.flap
      BY NoRowType DEF DbType, DbRow, Row
    <3>2. db' = [db EXCEPT ![d] = new]
      BY <2>2 DEF SwitchPingOff, DbType, DbRow
    <3>3. stamps' \in [Devices -> Nat \X Nat]
      BY <2>2 DEF SwitchPingOff, DbType
    <3> HIDE DEF new
    <3> QED BY <3>1, <3>2, <3>3, RowUpdate
  <2>3. ASSUME NEW d \in Devices, SwitchPingOn(d) PROVE DbType' /\ EpisodeFollowsState'
    BY <2>3 DEF SwitchPingOn, DbType, DbRow, EpisodeFollowsState
  <2>4. ASSUME NEW d \in Devices, NEW s \in Sensors, SensorWrite(s, d) PROVE DbType' /\ EpisodeFollowsState'
    <3>1. PICK next \in States :
            db' = [db EXCEPT ![d] = [@ EXCEPT
                     !.status = next.hard, !.mirror = next.flap, !.episode = next.flap,
                     !.row = [owner |-> s, hard |-> next.hard, flap |-> next.flap]]]
      BY <2>4 DEF SensorWrite, CheckOutcomes
    <3> DEFINE row == [owner |-> s, hard |-> next.hard, flap |-> next.flap]
               new == [db[d] EXCEPT !.status = next.hard, !.mirror = next.flap, !.episode = next.flap, !.row = row]
    <3>2. next.hard \in Statuses /\ next.flap \in BOOLEAN
      BY DEF States
    <3>3. row \in Row /\ row.flap = next.flap
      BY <3>2 DEF Row, Owners
    <3>4. db' = [db EXCEPT ![d] = new]
      BY <3>1
    <3> HIDE DEF row
    <3>5. new \in DbRow /\ new.episode = new.row.flap
      BY <3>2, <3>3 DEF DbType, DbRow
    <3>6. stamps' \in [Devices -> Nat \X Nat]
      BY <2>4 DEF SensorWrite, DbType
    <3> HIDE DEF new
    <3> QED BY <3>4, <3>5, <3>6, RowUpdate
  <2>5. ASSUME NEW s \in Sensors, SensorOffline(s) PROVE DbType' /\ EpisodeFollowsState'
    <3> DEFINE new(d) == [db[d] EXCEPT !.status = "unknown", !.mirror = FALSE, !.row = NoRow, !.episode = FALSE]
    <3>1. ASSUME NEW d \in Devices PROVE new(d) \in DbRow /\ new(d).episode = new(d).row.flap
      <4>1. db[d] \in DbRow /\ "unknown" \in Statuses
        BY DEF DbType, Statuses
      <4> QED BY <4>1, NoRowType DEF DbRow
    <3>2. db' = [d \in Devices |-> IF db[d].owner = s THEN new(d) ELSE db[d]]
      BY <2>5 DEF SensorOffline
    <3>3. stamps' \in [Devices -> Nat \X Nat]
      <4>1. \A d \in Devices : [stamps[d] EXCEPT ![2] = @ + 1] \in Nat \X Nat
        BY DEF DbType
      <4> QED BY <2>5, <4>1 DEF SensorOffline, DbType
    <3> HIDE DEF new
    <3> QED BY <3>1, <3>2, <3>3 DEF DbType, EpisodeFollowsState
  <2> QED BY <2>1, <2>2, <2>3, <2>4, <2>5 DEF Server, Health
<1> QED BY <1>2, <1>3, <1>4

(* The Run goroutine and the sinks leave the rows alone.                   *)
LEMMA RowsAlone ==
    ASSUME IInv, UNCHANGED dbVars
    PROVE  DbType' /\ EpisodeFollowsState'
BY DEF IInv, DbType, EpisodeFollowsState, dbVars

LEMMA SyncStep == IInv /\ (SyncLoad \/ SyncApply \/ Submit) => IInv'
<1> SUFFICES ASSUME IInv, SyncLoad \/ SyncApply \/ Submit PROVE IInv'
  OBVIOUS
<1> USE DEF IInv
<1>1. UNCHANGED <<dbVars, spent, writer>>
  BY DEF SyncLoad, SyncApply, Submit, writerVars
<1>2. DbType' /\ EpisodeFollowsState' /\ spent' \in Spent /\ WriterType'
  BY <1>1, RowsAlone DEF WriterType
<1>3. CASE SyncLoad
  <2>1. \A d \in Devices : (IF Polled(d) THEN InitDevice(d) ELSE Absent) \in Device
    BY AbsentType, InitDeviceType
  <2>2. SnapshotType'
    BY <1>3, <2>1 DEF SyncLoad, SnapshotType
  <2> QED BY <1>2, <1>3, <2>2 DEF SyncLoad, EngineType, QueueType, writerVars
<1>4. CASE SyncApply
  <2> DEFINE started == {d \in Devices : snapshot.found[d].present /\ ~Kept(d)}
             released == {d \in Devices : devices[d].present /\ ~snapshot.found[d].present}
  <2>1. snapshot.found \in [Devices -> Device]
    <3>1. snapshot.loaded
      BY <1>4 DEF SyncApply
    <3>2. CASE snapshot = [loaded |-> FALSE]
      <4>1. snapshot.loaded = FALSE
        BY <3>2
      <4> QED BY <3>1, <4>1
    <3> QED BY <3>2 DEF SnapshotType
  <2>2. \A d \in Devices : [snapshot.found[d] EXCEPT !.epoch = epochs + 1] \in Device
    <3>1. ASSUME NEW device \in Device, NEW n \in Nat PROVE [device EXCEPT !.epoch = n] \in Device
      BY DEF Device
    <3>2. epochs + 1 \in Nat
      BY DEF EngineType
    <3> QED BY <2>1, <3>1, <3>2
  <2>3. devices' \in [Devices -> Device]
    BY <1>4, <2>2, AbsentType DEF SyncApply, EngineType
  <2>4. epochs' \in Nat
    BY <1>4 DEF SyncApply, EngineType
  <2>5. batch' \in Seq(Work)
    <3> DEFINE work == [kind |-> "release", ids |-> released]
    <3>1. work \in Work
      BY DEF Work, ReleaseWork
    <3>2. batch' = <<>> \/ batch' = <<work>>
      BY <1>4 DEF SyncApply
    <3> HIDE DEF work
    <3>3. <<>> \in Seq(Work) /\ <<work>> \in Seq(Work)
      BY <3>1
    <3> QED BY <3>2, <3>3
  <2>6. SnapshotType'
    BY <1>4 DEF SyncApply, SnapshotType
  <2>7. QueueType'
    BY <1>4 DEF SyncApply, QueueType, writerVars
  <2> QED BY <1>2, <2>3, <2>4, <2>5, <2>6, <2>7 DEF EngineType
<1>5. CASE Submit
  <2>1. queue' = queue \o batch /\ Len(queue) + Len(batch) <= QueueCap /\ batch' = <<>>
    BY <1>5 DEF Submit
  <2>2. QueueType'
    BY <2>1 DEF QueueType, EngineType
  <2>3. EngineType'
    BY <1>5, <2>1 DEF Submit, EngineType
  <2>4. SnapshotType'
    BY <1>5 DEF Submit, SnapshotType
  <2> QED BY <1>2, <2>2, <2>3, <2>4
<1> QED BY <1>3, <1>4, <1>5

LEMMA StepDeviceStep ==
    ASSUME IInv, NEW d \in Devices, StepDevice(d)
    PROVE  IInv'
<1> USE DEF IInv
<1>1. PICK next \in CheckOutcomes(devices[d].state), due \in BOOLEAN :
        LET device == devices[d]
            changed == next.hard # device.state.hard
            writeState == PlanWrite(device, next, due)
            job == [kind |-> "job", dev |-> d, state |-> next, writeState |-> writeState,
                    event |-> EventOf(device, next, spent.changes + 1),
                    takeover |-> device.takeover, epoch |-> device.epoch, basis |-> device.basis]
        IN /\ changed => spent.changes < MaxChanges
           /\ devices' = [devices EXCEPT ![d].state = next, ![d].planned = @ \/ writeState]
           /\ batch' = Append(batch, job)
           /\ IF changed THEN Spend("changes") ELSE UNCHANGED spent
  BY DEF StepDevice
<1> DEFINE job == [kind |-> "job", dev |-> d, state |-> next, writeState |-> PlanWrite(devices[d], next, due),
                   event |-> EventOf(devices[d], next, spent.changes + 1),
                   takeover |-> devices[d].takeover, epoch |-> devices[d].epoch, basis |-> devices[d].basis]
<1>2. devices[d] \in Device /\ next \in States /\ next.hard \in Statuses
  BY DEF EngineType, CheckOutcomes, States
<1>3. PlanWrite(devices[d], next, due) \in BOOLEAN
  BY <1>2 DEF PlanWrite, Device
<1>4. EventOf(devices[d], next, spent.changes + 1) \in Event
  <2>1. NoEvent \in Event
    BY PipelineAssumption DEF NoEvent, Event, Statuses
  <2>2. devices[d].state.hard \in Statuses
    BY <1>2 DEF Device, States
  <2>3. next.hard # devices[d].state.hard => spent.changes + 1 \in 0..MaxChanges
    BY <1>1, PipelineAssumption DEF Spent
  <2> QED BY <1>2, <2>1, <2>2, <2>3 DEF EventOf, Event
<1>5. job \in Work
  BY <1>2, <1>3, <1>4 DEF Work, Job, Device
<1>6. devices' \in [Devices -> Device]
  BY <1>1, <1>2, <1>3 DEF EngineType, Device
<1>7. batch' \in Seq(Work)
  <2>1. batch' = Append(batch, job)
    BY <1>1
  <2> HIDE DEF job
  <2> QED BY <1>5, <2>1 DEF EngineType
<1>8. spent' \in Spent
  BY <1>1, PipelineAssumption DEF Spend, Spent
<1>9. UNCHANGED <<dbVars, snapshot, epochs, writerVars>>
  BY DEF StepDevice
<1> QED BY <1>6, <1>7, <1>8, <1>9, RowsAlone DEF EngineType, SnapshotType, QueueType, WriterType, writerVars

(* The writer takes the next piece of work.                                *)
LEMMA TakeStep == IInv /\ Take => IInv'
<1> SUFFICES ASSUME IInv, Take PROVE IInv'
  OBVIOUS
<1> USE DEF IInv
<1>1. UNCHANGED <<dbVars, engineVars, spent>> /\ queue # <<>> /\ queue' = Tail(queue)
  BY DEF Take
<1>2. Head(queue) \in Work /\ Tail(queue) \in Seq(Work) /\ Len(Tail(queue)) = Len(queue) - 1
  BY <1>1 DEF QueueType
<1>3. QueueType'
  BY <1>1, <1>2, PipelineAssumption DEF QueueType
<1>4. WriterType'
  <2>1. CASE Head(queue).kind = "release"
    <3>1. Head(queue).ids \in SUBSET Devices
      BY <1>2, <2>1 DEF Work, Job, ReleaseWork
    <3>2. writer' = [phase |-> "release", ids |-> Head(queue).ids]
      BY <2>1 DEF Take
    <3> QED BY <3>1, <3>2 DEF WriterType
  <2>2. CASE Head(queue).kind # "release"
    <3>1. Head(queue) \in Job
      BY <1>2, <2>2 DEF Work, Job, ReleaseWork
    <3>2. writer' = Idle \/ writer' = [phase |-> "save", job |-> Head(queue)]
      BY <2>2 DEF Take
    <3> QED BY <3>1, <3>2 DEF WriterType
  <2> QED BY <2>1, <2>2
<1> QED BY <1>1, <1>3, <1>4, RowsAlone DEF EngineType, SnapshotType, engineVars

LEMMA SavingJob ==
    ASSUME WriterType, writer.phase = "save"
    PROVE  writer.job \in Job
BY DEF WriterType, Idle

LEMMA PostedJob ==
    ASSUME WriterType, writer.phase = "post"
    PROVE  /\ writer.job \in Job /\ writer.result \in {"saved", "lost", "foreign", "error"}
           /\ writer.status \in Statuses /\ writer.basis \in Nat \X Nat
           /\ writer.result = "foreign" => writer.owner \in Sensors
BY DEF WriterType, Idle

LEMMA SaveStep == IInv /\ (Save \/ SaveFails) => IInv'
<1> SUFFICES ASSUME IInv, Save \/ SaveFails PROVE IInv'
  OBVIOUS
<1> USE DEF IInv
<1> DEFINE job == writer.job
<1>1. job \in Job
  BY SavingJob DEF Save, SaveFails
<1>2. UNCHANGED <<engineVars, queue, stamps>>
  BY DEF Save, SaveFails
<1>3. spent' \in Spent
  BY SpendType DEF Save, SaveFails
<1>4. DbType' /\ EpisodeFollowsState'
  <2>1. db' = db \/ db' = Write(job)
    BY DEF Save, SaveFails
  <2> HIDE DEF job
  <2> QED BY <1>1, <1>2, <2>1, WriteType DEF DbType, EpisodeFollowsState
<1>5. WriterType'
  <2>1. job.dev \in Devices
    BY <1>1 DEF Job
  <2>2. db[job.dev] \in DbRow /\ stamps[job.dev] \in Nat \X Nat
    BY <2>1 DEF DbType
  <2>3. db[job.dev].status \in Statuses /\ db[job.dev].row.owner \in Owners \cup {NoOwner}
    BY <2>2 DEF DbRow, Row
  <2>4. SaveResult(job) = "foreign" => db[job.dev].row.owner \in Sensors
    BY <2>3 DEF SaveResult, ForeignRow, Owners
  <2>5. SaveResult(job) \in {"saved", "lost", "foreign", "error"}
    BY DEF SaveResult
  <2>6. CASE Save
    <3>1. writer' = [phase |-> "post", job |-> job, result |-> SaveResult(job), status |-> db[job.dev].status,
                     owner |-> db[job.dev].row.owner, basis |-> stamps[job.dev]]
      BY <2>6 DEF Save
    <3> HIDE DEF job
    <3> QED BY <1>1, <2>2, <2>3, <2>4, <2>5, <3>1 DEF WriterType
  <2>7. CASE SaveFails
    <3>1. writer' = [phase |-> "post", job |-> job, result |-> "error", status |-> "unknown",
                     owner |-> NoOwner, basis |-> stamps[job.dev]]
      BY <2>7 DEF SaveFails
    <3> HIDE DEF job
    <3> QED BY <1>1, <2>2, <3>1 DEF WriterType, Statuses
  <2> QED BY <2>6, <2>7
<1> QED BY <1>2, <1>3, <1>4, <1>5 DEF EngineType, SnapshotType, QueueType, engineVars

LEMMA AfterSaveType ==
    ASSUME IInv, writer.phase = "post", NEW job, job = writer.job
    PROVE  AfterSave(job) \in Device
<1> DEFINE device == devices[job.dev]
<1>1. job.dev \in Devices /\ device \in Device
  BY PostedJob DEF IInv, EngineType, Job
<1>2. CASE writer.result = "error"
  BY <1>1, <1>2 DEF AfterSave, Device
<1>3. CASE writer.result = "foreign"
  <2>1. Seed(writer.status) \in States /\ epochs + 1 \in Nat /\ writer.owner \in Sensors /\ writer.basis \in Nat \X Nat
    BY <1>3, PostedJob, SeedType DEF IInv, EngineType
  <2>2. AfterSave(job) = [device EXCEPT !.state = Seed(writer.status), !.planned = FALSE,
                             !.takeover = writer.owner, !.epoch = epochs + 1, !.basis = writer.basis]
    BY <1>3 DEF AfterSave, Reseeded
  <2> HIDE DEF device
  <2> QED BY <1>1, <2>1, <2>2 DEF Device
<1>4. CASE writer.result = "lost"
  BY <1>1, <1>4 DEF AfterSave, Device
<1>5. CASE writer.result = "saved"
  BY <1>1, <1>5 DEF AfterSave, Device
<1> QED BY <1>2, <1>3, <1>4, <1>5, PostedJob DEF IInv

LEMMA PostStep == IInv /\ Post => IInv'
<1> SUFFICES ASSUME IInv, Post PROVE IInv'
  OBVIOUS
<1> USE DEF IInv
<1>1. UNCHANGED <<db, stamps, snapshot, batch, queue, spent>> /\ writer' = Idle
  BY DEF Post
<1>2. AfterSave(writer.job) \in Device /\ writer.job \in Job
  BY AfterSaveType, PostedJob DEF Post
<1>3. devices' \in [Devices -> Device]
  BY <1>2 DEF Post, EngineType
<1>4. epochs' \in Nat
  BY DEF Post, EngineType
<1> QED BY <1>1, <1>3, <1>4 DEF DbType, EpisodeFollowsState, EngineType, SnapshotType, QueueType, WriterType

(* A release clears the episode with the row.                              *)
LEMMA ReleaseStep == IInv /\ Release => IInv'
<1> SUFFICES ASSUME IInv, Release PROVE IInv'
  OBVIOUS
<1> USE DEF IInv
<1>1. UNCHANGED <<engineVars, queue, spent>> /\ writer' = Idle
  BY DEF Release
<1> DEFINE new(d) == [db[d] EXCEPT !.mirror = FALSE, !.row = NoRow, !.episode = FALSE]
           gone(d) == d \in writer.ids /\ Releasable(d)
<1>2. ASSUME NEW d \in Devices PROVE new(d) \in DbRow /\ new(d).episode = new(d).row.flap
  <2>1. db[d] \in DbRow
    BY DEF DbType
  <2> QED BY <2>1, NoRowType DEF DbRow
<1>3. db' = [d \in Devices |-> IF gone(d) THEN new(d) ELSE db[d]]
  BY DEF Release
<1>4. stamps' \in [Devices -> Nat \X Nat]
  <2>1. \A d \in Devices : [stamps[d] EXCEPT ![2] = @ + 1] \in Nat \X Nat
    BY DEF DbType
  <2> QED BY <2>1 DEF Release, DbType
<1>5. DbType' /\ EpisodeFollowsState'
  <2> HIDE DEF new, gone
  <2> QED BY <1>2, <1>3, <1>4 DEF DbType, EpisodeFollowsState
<1> QED BY <1>1, <1>5 DEF EngineType, SnapshotType, QueueType, WriterType, engineVars

(* Deliveries and a failed release touch no row; a crash empties memory.   *)
LEMMA OtherStep ==
    ASSUME IInv, ReleaseFails \/ Crash \/ (\E d \in Devices : Deliver(d) \/ DeliverFails(d)) \/ UNCHANGED vars
    PROVE  IInv'
<1> USE DEF IInv
<1>1. UNCHANGED dbVars
  BY DEF ReleaseFails, Crash, Deliver, DeliverFails, vars, dbVars
<1>2. spent' \in Spent
  <2>1. Spend("faults") \/ Spend("crashes") \/ UNCHANGED spent
    BY DEF ReleaseFails, Crash, Deliver, DeliverFails, vars
  <2> QED BY <2>1, SpendType
<1>3. CASE Crash
  <2>1. devices' \in [Devices -> Device] /\ epochs' \in Nat
    BY <1>3, AbsentType DEF Crash, EngineType
  <2>2. batch' \in Seq(Work) /\ QueueType'
    BY <1>3, PipelineAssumption DEF Crash, QueueType
  <2>3. SnapshotType' /\ WriterType'
    BY <1>3 DEF Crash, SnapshotType, WriterType
  <2> QED BY <1>1, <1>2, <2>1, <2>2, <2>3, RowsAlone DEF EngineType
<1>4. CASE ~Crash
  <2>1. UNCHANGED <<engineVars, queue>> /\ (UNCHANGED writer \/ writer' = Idle)
    BY <1>4 DEF ReleaseFails, Deliver, DeliverFails, vars, engineVars
  <2> QED BY <1>1, <1>2, <2>1, RowsAlone DEF EngineType, SnapshotType, QueueType, WriterType, engineVars
<1> QED BY <1>3, <1>4

LEMMA StepKeepsIInv == IInv /\ [Next]_vars => IInv'
<1> SUFFICES ASSUME IInv, [Next]_vars PROVE IInv'
  OBVIOUS
<1>1. CASE Server \/ Health
  BY <1>1, ServerStep
<1>2. CASE Runner
  BY <1>2, SyncStep DEF Runner
<1>3. CASE Writer
  BY <1>3, TakeStep, SaveStep, PostStep, ReleaseStep DEF Writer
<1>4. CASE \E d \in Devices : StepDevice(d)
  BY <1>4, StepDeviceStep
<1>5. CASE SaveFails
  BY <1>5, SaveStep
<1>6. CASE ReleaseFails \/ Crash \/ (\E d \in Devices : Deliver(d) \/ DeliverFails(d)) \/ UNCHANGED vars
  BY <1>6, OtherStep
<1> QED BY <1>1, <1>2, <1>3, <1>4, <1>5, <1>6 DEF Next

(* The inductive invariant holds in every reachable state.                 *)
THEOREM Inductive == Spec => []IInv
BY InitIInv, StepKeepsIInv, PTL DEF Spec

(* Every variable keeps its type and the writer queue its bound, for any   *)
(* devices, sensors and queue length.                                      *)
THEOREM TypeCorrect == Spec => []TypeOK
<1>1. IInv => TypeOK
  BY DEF IInv, TypeOK, DbType, DbRow, EngineType, QueueType, WriterType, Idle, Work
<1> QED BY <1>1, Inductive, PTL

(* The save statement, a sensor's ingest, the releases and the offline     *)
(* sweep all derive the flap episode from the state row: an episode is     *)
(* open exactly while the stored state flaps, whoever owns the device.     *)
THEOREM EpisodeFollows == Spec => []EpisodeFollowsState
BY Inductive, PTL DEF IInv
-----------------------------------------------------------------------------
(* The jobs and releases on their way to the rows, in the order in which   *)
(* the writer gets to them: the one being saved, the queue, the batch.     *)
Line == (IF writer.phase = "save" THEN <<writer.job>> ELSE <<>>) \o queue \o batch
IsJob(work, d) == work.kind = "job" /\ work.dev = d
Posting(d) == writer.phase = "post" /\ writer.job.dev = d

(* What a job at position p of a line s finds: the state that the jobs of  *)
(* d before it (with "writes": those that write the state row) leave, or,  *)
(* without any, what is stored now.  With "whole" the flap flag counts.    *)
Counts(work, d, writes) == IsJob(work, d) /\ (writes => work.writeState)
FirstOf(s, p, d, writes) == \A i \in 1..p - 1 : ~Counts(s[i], d, writes)
Nearest(s, p, d, writes, i) ==
    Counts(s[i], d, writes) /\ \A k \in i + 1..p - 1 : ~Counts(s[k], d, writes)
Same(a, b, whole) == a.hard = b.hard /\ (whole => a.flap = b.flap)
Finds(s, p, d, writes, whole, stored, state) ==
    /\ FirstOf(s, p, d, writes) => Same(stored, state, whole)
    /\ \A i \in 1..p - 1 : Nearest(s, p, d, writes, i) => Same(s[i].state, state, whole)

Shown(d) == [hard |-> db[d].status, flap |-> db[d].mirror]

(* A device we poll is in the engine as it was loaded, since nobody else   *)
(* writes its rows: with the stamps of its rows and one lineage of jobs.   *)
Lineage(d) ==
    Polled(d) =>
      /\ snapshot.loaded => snapshot.found[d].present
      /\ snapshot.loaded /\ ~devices[d].present => snapshot.found[d] = InitDevice(d)
      /\ Posting(d) => devices[d].present
      /\ devices[d].present => ~devices[d].lost /\ devices[d].basis = stamps[d]
      /\ \A i \in 1..Len(Line) : IsJob(Line[i], d) =>
           devices[d].present /\ Line[i].epoch = devices[d].epoch /\ Line[i].basis = stamps[d]

(* No save of such a device is refused. *)
Unrefused(d) ==
    Polled(d) =>
      /\ db[d].row.owner \in Sensors => 
           /\ devices[d].present => devices[d].takeover = db[d].row.owner
           /\ \A i \in 1..Len(Line) : IsJob(Line[i], d) => Line[i].takeover = db[d].row.owner
      /\ Posting(d) =>
           /\ writer.job.epoch = devices[d].epoch /\ writer.result \in {"saved", "error"}
           /\ writer.result = "saved" /\ writer.job.writeState => db[d].row.owner = Central

(* What the engine believes stored is, or is on its way, unless the writer *)
(* is about to tell it that a save failed.                                 *)
Believed(d) ==
    Polled(d) /\ devices[d].present /\ devices[d].planned /\ ~(Posting(d) /\ writer.result = "error") =>
      /\ Finds(Line, Len(Line) + 1, d, TRUE, TRUE, db[d].row, devices[d].state)
      /\ FirstOf(Line, Len(Line) + 1, d, TRUE) => db[d].row.owner = Central

(* Until a save fails, every job continues from the state before it.       *)
Continues(d) ==
    spent.faults = 0 /\ Polled(d) /\ devices[d].present =>
      /\ \A p \in 1..Len(Line) : IsJob(Line[p], d) =>
           /\ Line[p].event = NoEvent => Finds(Line, p, d, FALSE, FALSE, Shown(d), Line[p].state)
           /\ ~Line[p].writeState => Finds(Line, p, d, FALSE, TRUE, Shown(d), Line[p].state)
      /\ Finds(Line, Len(Line) + 1, d, FALSE, FALSE, Shown(d), devices[d].state)
      /\ devices[d].planned => Finds(Line, Len(Line) + 1, d, FALSE, TRUE, Shown(d), devices[d].state)

JobTells(job) == job.event # NoEvent => job.event.new = job.state.hard

-----------------------------------------------------------------------------
(***************************************************************************)
(* What a job finds when the writer gets to it.                            *)
(***************************************************************************)
LEMMA FindsAppended ==
    ASSUME NEW s \in Seq(Work), NEW work \in Work, NEW p \in 1..Len(s) + 1, NEW d, NEW writes, NEW whole,
           NEW stored, NEW state
    PROVE  /\ FirstOf(Append(s, work), p, d, writes) <=> FirstOf(s, p, d, writes)
           /\ Finds(Append(s, work), p, d, writes, whole, stored, state) <=> Finds(s, p, d, writes, whole, stored, state)
<1>1. \A i \in 1..p - 1 : Append(s, work)[i] = s[i]
  OBVIOUS
<1>2. FirstOf(Append(s, work), p, d, writes) <=> FirstOf(s, p, d, writes)
  BY <1>1 DEF FirstOf
<1>3. ASSUME NEW i \in 1..p - 1
      PROVE  Nearest(Append(s, work), p, d, writes, i) <=> Nearest(s, p, d, writes, i)
  BY <1>1 DEF Nearest
<1> QED BY <1>1, <1>2, <1>3 DEF Finds

LEMMA FirstNewest ==
    ASSUME NEW s \in Seq(Work), NEW work \in Work, NEW d, NEW writes,
           FirstOf(Append(s, work), Len(s) + 2, d, writes)
    PROVE  FirstOf(s, Len(s) + 1, d, writes) /\ ~Counts(work, d, writes)
<1>1. ASSUME NEW i \in 1..Len(s) + 1 - 1 PROVE ~Counts(s[i], d, writes)
  <2>1. i \in 1..Len(s) + 2 - 1 /\ Append(s, work)[i] = s[i]
    OBVIOUS
  <2> QED BY <2>1 DEF FirstOf
<1>2. Len(s) + 1 \in 1..Len(s) + 2 - 1 /\ Append(s, work)[Len(s) + 1] = work
  OBVIOUS
<1> QED BY <1>1, <1>2 DEF FirstOf

(* The position after a new job finds what that job leaves; any other work *)
(* leaves what was found before it.                                        *)
LEMMA FindsNewest ==
    ASSUME NEW s \in Seq(Work), NEW work \in Work, NEW d, NEW writes, NEW whole, NEW stored, NEW state,
           Counts(work, d, writes) => Same(work.state, state, whole),
           ~Counts(work, d, writes) => Finds(s, Len(s) + 1, d, writes, whole, stored, state)
    PROVE  Finds(Append(s, work), Len(s) + 2, d, writes, whole, stored, state)
<1> DEFINE t == Append(s, work)
<1> SUFFICES Finds(t, Len(s) + 2, d, writes, whole, stored, state)
  OBVIOUS
<1>1. Len(s) \in Nat /\ t[Len(s) + 1] = work /\ \A i \in 1..Len(s) : t[i] = s[i]
  OBVIOUS
<1> HIDE DEF t
<1>2. CASE Counts(work, d, writes)
  <2>1. ~FirstOf(t, Len(s) + 2, d, writes)
    <3>1. Len(s) + 1 \in 1..Len(s) + 2 - 1
      BY <1>1
    <3> QED BY <1>1, <1>2, <3>1 DEF FirstOf
  <2>2. ASSUME NEW i \in 1..Len(s) + 2 - 1, Nearest(t, Len(s) + 2, d, writes, i) PROVE Same(t[i].state, state, whole)
    <3>1. i = Len(s) + 1
      <4>1. CASE i \in 1..Len(s)
        <5>1. Len(s) + 1 \in i + 1..Len(s) + 2 - 1
          BY <1>1, <4>1
        <5> QED BY <1>1, <1>2, <2>2, <5>1 DEF Nearest
      <4> QED BY <1>1, <4>1
    <3> QED BY <1>1, <1>2, <3>1
  <2> QED BY <2>1, <2>2 DEF Finds
<1>3. CASE ~Counts(work, d, writes)
  <2>1. ASSUME FirstOf(t, Len(s) + 2, d, writes) PROVE FirstOf(s, Len(s) + 1, d, writes)
    <3>1. ASSUME NEW i \in 1..Len(s) + 1 - 1 PROVE ~Counts(s[i], d, writes)
      <4>1. i \in 1..Len(s) + 2 - 1 /\ t[i] = s[i]
        BY <1>1
      <4> QED BY <2>1, <4>1 DEF FirstOf
    <3> QED BY <3>1 DEF FirstOf
  <2>2. ASSUME NEW i \in 1..Len(s) + 2 - 1, Nearest(t, Len(s) + 2, d, writes, i)
        PROVE  Same(t[i].state, state, whole)
    <3>1. i \in 1..Len(s) + 1 - 1 /\ t[i] = s[i]
      BY <1>1, <1>3, <2>2 DEF Nearest
    <3>2. ASSUME NEW k \in i + 1..Len(s) + 1 - 1 PROVE ~Counts(s[k], d, writes)
      <4>1. k \in i + 1..Len(s) + 2 - 1 /\ t[k] = s[k]
        BY <1>1
      <4> QED BY <2>2, <4>1 DEF Nearest
    <3>3. Nearest(s, Len(s) + 1, d, writes, i)
      BY <2>2, <3>1, <3>2 DEF Nearest
    <3> QED BY <1>3, <3>1, <3>3 DEF Finds
  <2> QED BY <1>3, <2>1, <2>2 DEF Finds
<1> QED BY <1>2, <1>3

(* What was found behind the head of the line is found once the head is    *)
(* done with, and stored.                                                  *)
LEMMA FindsBehind ==
    ASSUME NEW s \in Seq(Work), s # <<>>, NEW p \in 1..Len(s), NEW d, NEW writes, NEW whole,
           NEW stored, NEW next, NEW state,
           Finds(s, p + 1, d, writes, whole, stored, state),
           Counts(Head(s), d, writes) => Same(next, Head(s).state, whole),
           ~Counts(Head(s), d, writes) => Same(next, stored, whole)
    PROVE  Finds(Tail(s), p, d, writes, whole, next, state)
<1> DEFINE t == Tail(s)
<1>1. Len(s) \in Nat /\ s[1] = Head(s) /\ \A i \in 1..p - 1 : t[i] = s[i + 1]
  OBVIOUS
<1> HIDE DEF t
<1>2. ASSUME FirstOf(t, p, d, writes) PROVE Same(next, state, whole)
  <2>1. \A i \in 2..p : ~Counts(s[i], d, writes)
    <3>1. ASSUME NEW i \in 2..p PROVE ~Counts(s[i], d, writes)
      <4>1. i - 1 \in 1..p - 1 /\ t[i - 1] = s[i]
        BY <1>1
      <4> QED BY <1>2, <4>1 DEF FirstOf
    <3> QED BY <3>1
  <2>2. CASE Counts(Head(s), d, writes)
    <3>1. Nearest(s, p + 1, d, writes, 1) /\ 1 \in 1..p + 1 - 1
      BY <1>1, <2>1, <2>2 DEF Nearest
    <3> QED BY <1>1, <2>2, <3>1 DEF Finds, Same
  <2>3. CASE ~Counts(Head(s), d, writes)
    <3>1. FirstOf(s, p + 1, d, writes)
      BY <1>1, <2>1, <2>3 DEF FirstOf
    <3> QED BY <2>3, <3>1 DEF Finds, Same
  <2> QED BY <2>2, <2>3
<1>3. ASSUME NEW i \in 1..p - 1, Nearest(t, p, d, writes, i) PROVE Same(t[i].state, state, whole)
  <2>1. t[i] = s[i + 1] /\ i + 1 \in 1..p + 1 - 1
    BY <1>1
  <2>2. ASSUME NEW k \in i + 1 + 1..p + 1 - 1 PROVE ~Counts(s[k], d, writes)
    <3>1. k - 1 \in i + 1..p - 1 /\ t[k - 1] = s[k]
      BY <1>1
    <3> QED BY <1>3, <3>1 DEF Nearest
  <2>3. Nearest(s, p + 1, d, writes, i + 1)
    BY <1>3, <2>1, <2>2 DEF Nearest
  <2> QED BY <2>1, <2>3 DEF Finds
<1> QED BY <1>2, <1>3 DEF Finds, t

LEMMA FirstBehind ==
    ASSUME NEW s \in Seq(Work), s # <<>>, NEW d, NEW writes, ~Counts(Head(s), d, writes),
           FirstOf(Tail(s), Len(Tail(s)) + 1, d, writes)
    PROVE  FirstOf(s, Len(s) + 1, d, writes)
<1> DEFINE t == Tail(s)
<1>0. /\ Len(t) = Len(s) - 1 /\ Len(s) \in Nat /\ s[1] = Head(s)
      /\ \A i \in 1..Len(t) : t[i] = s[i + 1]
  OBVIOUS
<1>a. FirstOf(t, Len(t) + 1, d, writes)
  OBVIOUS
<1> HIDE DEF t
<1> SUFFICES ASSUME NEW i \in 1..Len(s) + 1 - 1 PROVE ~Counts(s[i], d, writes)
  BY DEF FirstOf
<1>1. CASE i = 1
  BY <1>0, <1>1
<1>2. CASE i # 1
  <2>1. i - 1 \in 1..Len(t) + 1 - 1 /\ t[i - 1] = s[i]
    BY <1>0, <1>2
  <2>2. ~Counts(t[i - 1], d, writes)
    BY <1>a, <2>1 DEF FirstOf
  <2> QED BY <2>1, <2>2
<1> QED BY <1>1, <1>2

LEMMA Behead ==
    ASSUME NEW s \in Seq(Work), s # <<>>
    PROVE  /\ Tail(s) \in Seq(Work) /\ Len(s) \in Nat /\ Len(Tail(s)) \in Nat /\ Len(Tail(s)) = Len(s) - 1
           /\ 1 \in 1..Len(s) /\ s[1] = Head(s) /\ Head(s) \in Work
           /\ \A i \in 1..Len(Tail(s)) : i + 1 \in 1..Len(s) /\ Tail(s)[i] = s[i + 1]
<1>1. Tail(s) \in Seq(Work) /\ Len(Tail(s)) = Len(s) - 1 /\ \A i \in 1..Len(Tail(s)) : Tail(s)[i] = s[i + 1]
  BY HeadTailProperties
<1>2. Len(s) \in Nat \ {0} /\ Len(Tail(s)) \in Nat /\ s[1] = Head(s) /\ Head(s) \in Work
  BY <1>1, EmptySeq, HeadTailProperties
<1> HIDE DEF Work
<1> QED BY <1>1, <1>2

LEMMA HeadOfConcat ==
    ASSUME NEW s \in Seq(Work), NEW t \in Seq(Work), s # <<>>
    PROVE  s \o t # <<>> /\ Head(s \o t) = Head(s) /\ Tail(s \o t) = Tail(s) \o t
<1> DEFINE u == s \o t
           v == Tail(s) \o t
<1>1. Len(s) \in Nat \ {0} /\ Tail(s) \in Seq(Work) /\ Len(Tail(s)) = Len(s) - 1
      /\ \A i \in 1..Len(Tail(s)) : Tail(s)[i] = s[i + 1]
  BY EmptySeq, HeadTailProperties
<1>2. u \in Seq(Work) /\ Len(u) = Len(s) + Len(t)
      /\ \A i \in 1..Len(s) + Len(t) : u[i] = IF i <= Len(s) THEN s[i] ELSE t[i - Len(s)]
  BY ConcatProperties
<1>3. v \in Seq(Work) /\ Len(v) = Len(Tail(s)) + Len(t)
      /\ \A i \in 1..Len(Tail(s)) + Len(t) : v[i] = IF i <= Len(Tail(s)) THEN Tail(s)[i] ELSE t[i - Len(Tail(s))]
  BY <1>1, ConcatProperties
<1>4. Len(t) \in Nat /\ u # <<>>
  BY <1>1, <1>2, LenProperties
<1>5. Head(u) = Head(s)
  <2>1. u[1] = s[1]
    BY <1>1, <1>2, <1>4
  <2> QED BY <1>2, <1>4, <2>1
<1>6. Tail(u) \in Seq(Work) /\ Len(Tail(u)) = Len(u) - 1 /\ \A i \in 1..Len(Tail(u)) : Tail(u)[i] = u[i + 1]
  BY <1>2, <1>4, HeadTailProperties
<1> DEFINE w == Tail(u)
           r == Tail(s)
<1> HIDE DEF u, v, w, r
<1>7. \A i \in 1..Len(w) : w[i] = v[i]
  <2> SUFFICES ASSUME NEW i \in 1..Len(w) PROVE w[i] = v[i]
    OBVIOUS
  <2>1. i \in Nat /\ i >= 1 /\ i <= Len(s) + Len(t) - 1 /\ Len(r) = Len(s) - 1
    BY <1>1, <1>2, <1>4, <1>6 DEF w, r
  <2>2. w[i] = u[i + 1] /\ u[i + 1] = IF i + 1 <= Len(s) THEN s[i + 1] ELSE t[i + 1 - Len(s)]
    BY <1>1, <1>2, <1>4, <1>6, <2>1 DEF w
  <2>3. v[i] = IF i <= Len(r) THEN r[i] ELSE t[i - Len(r)]
    BY <1>1, <1>3, <1>4, <2>1 DEF r
  <2>4. i <= Len(r) => r[i] = s[i + 1]
    BY <1>1, <2>1 DEF r
  <2> QED BY <1>1, <2>1, <2>2, <2>3, <2>4
<1>8. w = v
  <2>1. w \in Seq(Work) /\ v \in Seq(Work) /\ Len(w) = Len(v)
    BY <1>1, <1>2, <1>3, <1>4, <1>6 DEF w
  <2> QED BY <1>7, <2>1, SeqEqual
<1> QED BY <1>4, <1>5, <1>8 DEF u, v, w
-----------------------------------------------------------------------------
(***************************************************************************)
(* How the line moves.                                                     *)
(***************************************************************************)
InHand == IF writer.phase = "save" THEN <<writer.job>> ELSE <<>>

LEMMA LineType ==
    ASSUME IInv
    PROVE  InHand \in Seq(Work) /\ queue \in Seq(Work) /\ batch \in Seq(Work) /\ Line \in Seq(Work)
           /\ Line = InHand \o queue \o batch
<1>1. InHand \in Seq(Work)
  <2>1. writer.phase = "save" => writer.job \in Work
    BY SavingJob DEF IInv, Work
  <2> QED BY <2>1 DEF InHand
<1>2. queue \in Seq(Work) /\ batch \in Seq(Work)
  BY DEF IInv, QueueType, EngineType
<1>3. Line = InHand \o queue \o batch
  BY DEF Line, InHand
<1> QED BY <1>1, <1>2, <1>3

LEMMA ThreeParts ==
    ASSUME NEW a \in Seq(Work), NEW b \in Seq(Work), NEW c \in Seq(Work), NEW i \in 1..Len(a \o b \o c)
    PROVE  \/ i \in 1..Len(a) /\ (a \o b \o c)[i] = a[i]
           \/ \E k \in 1..Len(b) : (a \o b \o c)[i] = b[k]
           \/ \E k \in 1..Len(c) : (a \o b \o c)[i] = c[k]
<1> DEFINE ab == a \o b
<1>1. ab \in Seq(Work) /\ Len(ab) = Len(a) + Len(b) /\ Len(ab \o c) = Len(ab) + Len(c)
  OBVIOUS
<1>2. CASE i \in 1..Len(a)
  <2>1. (ab \o c)[i] = ab[i] /\ ab[i] = a[i]
    BY <1>1, <1>2
  <2> QED BY <1>2, <2>1
<1>3. CASE i \in Len(a) + 1..Len(ab)
  <2>1. (ab \o c)[i] = ab[i] /\ ab[i] = b[i - Len(a)] /\ i - Len(a) \in 1..Len(b)
    BY <1>1, <1>3
  <2> QED BY <2>1
<1>4. CASE i \in Len(ab) + 1..Len(ab \o c)
  <2>1. (ab \o c)[i] = c[i - Len(ab)] /\ i - Len(ab) \in 1..Len(c)
    BY <1>1, <1>4
  <2> QED BY <2>1
<1> QED BY <1>1, <1>2, <1>3, <1>4

(* Without work for a device no job of it is on the line or being posted.  *)
LEMMA NoWork ==
    ASSUME IInv, NEW d, ~WorkFor(d)
    PROVE  ~Posting(d) /\ \A i \in 1..Len(Line) : ~IsJob(Line[i], d)
<1>1. ~Posting(d)
  BY DEF Posting, WorkFor
<1>2. ASSUME NEW i \in 1..Len(Line), IsJob(Line[i], d) PROVE FALSE
  <2>1. \/ i \in 1..Len(InHand) /\ Line[i] = InHand[i]
        \/ \E k \in 1..Len(queue) : Line[i] = queue[k]
        \/ \E k \in 1..Len(batch) : Line[i] = batch[k]
    <3> DEFINE line == InHand \o queue \o batch
    <3>1. InHand \in Seq(Work) /\ queue \in Seq(Work) /\ batch \in Seq(Work) /\ Line = line
      BY LineType
    <3>2. i \in 1..Len(line)
      BY <3>1
    <3>3. \/ i \in 1..Len(InHand) /\ line[i] = InHand[i]
          \/ \E k \in 1..Len(queue) : line[i] = queue[k]
          \/ \E k \in 1..Len(batch) : line[i] = batch[k]
      BY <3>1, <3>2, ThreeParts
    <3> QED BY <3>1, <3>3
  <2>2. CASE i \in 1..Len(InHand) /\ Line[i] = InHand[i]
    <3>1. writer.phase = "save" /\ InHand[i] = writer.job
      BY <2>2 DEF InHand
    <3> QED BY <1>2, <2>2, <3>1 DEF WorkFor, IsJob
  <2> QED BY <1>2, <2>1, <2>2 DEF WorkFor, IsJob
<1> QED BY <1>1, <1>2

(* The job being saved is the head of the line. *)
LEMMA LineSaving ==
    ASSUME IInv, writer.phase = "save"
    PROVE  /\ Line # <<>> /\ Head(Line) = writer.job /\ Tail(Line) = queue \o batch
           /\ 1 \in 1..Len(Line) /\ Line[1] = writer.job
<1>1. Line = <<writer.job>> \o queue \o batch
  BY DEF Line
<1>2. writer.job \in Work /\ queue \in Seq(Work) /\ batch \in Seq(Work)
  BY SavingJob, LineType DEF IInv, Work
<1>3. Line = <<writer.job>> \o (queue \o batch) /\ queue \o batch \in Seq(Work)
  BY <1>1, <1>2, ConcatAssociative
<1>4. ASSUME NEW x \in Work, NEW s \in Seq(Work)
      PROVE  LET t == <<x>> \o s IN t # <<>> /\ Head(t) = x /\ Tail(t) = s /\ 1 \in 1..Len(t) /\ t[1] = x
  OBVIOUS
<1> QED BY <1>2, <1>3, <1>4

LEMMA LineIdle ==
    ASSUME IInv, writer.phase # "save"
    PROVE  Line = queue \o batch
BY LineType, ConcatEmptySeq DEF InHand
-----------------------------------------------------------------------------
(***************************************************************************)
(* The steps, while devices return to the poller settled.                  *)
(***************************************************************************)
Sound(d) == Lineage(d) /\ Unrefused(d) /\ Believed(d) /\ Continues(d)

LEMMA RowOf ==
    ASSUME IInv, NEW d \in Devices
    PROVE  /\ db[d] \in DbRow /\ db[d].row \in Row /\ devices[d] \in Device /\ stamps[d] \in Nat \X Nat
           /\ db[d].row.owner \in Sensors \/ db[d].row.owner = Central \/ db[d].row.owner = NoOwner
BY DEF IInv, DbType, EngineType, DbRow, Row, Owners

(* Nothing about a device moves. *)
LEMMA SoundUnmoved ==
    ASSUME NEW d \in Devices, Sound(d), Polled(d)' => Polled(d) /\ UNCHANGED <<db[d], stamps[d]>>,
           UNCHANGED <<Line, devices, snapshot>>, Posting(d)' => Posting(d) /\ UNCHANGED writer,
           Posting(d) /\ writer.result = "error" => UNCHANGED writer,
           spent'.faults = 0 => spent.faults = 0
    PROVE  Sound(d)'
<1> SUFFICES ASSUME Polled(d)' PROVE Sound(d)'
  BY DEF Sound, Lineage, Unrefused, Believed, Continues
<1>1. Polled(d) /\ db'[d] = db[d] /\ stamps'[d] = stamps[d] /\ Line' = Line /\ devices' = devices /\ snapshot' = snapshot
  OBVIOUS
<1>2. Lineage(d)'
  BY <1>1 DEF Sound, Lineage, InitDevice
<1>3. Unrefused(d)'
  BY <1>1 DEF Sound, Unrefused, Posting
<1>4. Believed(d)'
  BY <1>1 DEF Sound, Believed, Posting
<1>5. Continues(d)'
  BY <1>1 DEF Sound, Continues, Shown
<1> QED BY <1>2, <1>3, <1>4, <1>5 DEF Sound

(* Nothing of a device is left in the poller.                              *)
LEMMA SoundAbsent ==
    ASSUME NEW d \in Devices, ~devices'[d].present, ~snapshot'.loaded, ~Posting(d)',
           \A i \in 1..Len(Line') : ~IsJob(Line'[i], d)
    PROVE  Sound(d)'
<1>1. Lineage(d)'
  BY DEF Lineage
<1>2. Unrefused(d)' /\ Believed(d)' /\ Continues(d)'
  BY DEF Unrefused, Believed, Continues
<1> QED BY <1>1, <1>2 DEF Sound

(* What holds of the line and of the rows as a whole.                      *)
LineSound ==
    /\ snapshot.loaded => batch = <<>>
    /\ \A i \in 1..Len(Line) : Line[i].kind = "job" => JobTells(Line[i])
RowsSound == announced \in [Devices -> Statuses] /\ RowExplainsDevice /\ AnnouncedIsStored

SInv == IInv /\ LineSound /\ RowsSound /\ \A d \in Devices : Sound(d)

LEMMA SettledServer ==
    ASSUME SInv, Returns = "settled", Server \/ Health
    PROVE  LineSound' /\ RowsSound' /\ \A d \in Devices : Sound(d)'
<1> USE DEF SInv
<1>1. UNCHANGED <<devices, snapshot, batch, queue, writer>> /\ spent'.faults = spent.faults
  BY DEF Server, Health, Handoff, SwitchPingOff, SwitchPingOn, SensorWrite, SensorOffline, engineVars, writerVars,
         Spend, IInv, Spent
<1>2. UNCHANGED Line /\ \A d \in Devices : Posting(d)' = Posting(d)
  BY <1>1 DEF Line, Posting
<1>3. LineSound'
  BY <1>1, <1>2 DEF LineSound
<1> DEFINE Same0(d) == Polled(d) /\ UNCHANGED <<db[d], stamps[d]>>
           Gone(d) == ~devices[d].present /\ ~snapshot.loaded /\ ~WorkFor(d)
<1>4. ASSUME NEW d \in Devices, Polled(d)' PROVE Same0(d) \/ Gone(d)
  <2>0. db \in [Devices -> DbRow] /\ stamps \in [Devices -> Nat \X Nat] /\ Central \notin Sensors
    BY PipelineAssumption DEF IInv, DbType
  <2>1. ASSUME NEW e \in Devices, NEW o \in Owners, Handoff(e, o) PROVE Same0(d) \/ Gone(d)
    BY <1>4, <2>0, <2>1 DEF Handoff, MayReturn, Polled, DbRow
  <2>2. ASSUME NEW e \in Devices, SwitchPingOff(e) PROVE Same0(d) \/ Gone(d)
    BY <1>4, <2>0, <2>2 DEF SwitchPingOff, Polled, DbRow
  <2>3. ASSUME NEW e \in Devices, SwitchPingOn(e) PROVE Same0(d) \/ Gone(d)
    BY <1>4, <2>0, <2>3 DEF SwitchPingOn, MayReturn, Polled, DbRow
  <2>4. ASSUME NEW e \in Devices, NEW s \in Sensors, SensorWrite(s, e) PROVE Same0(d) \/ Gone(d)
    <3>1. \E next \in States :
            db' = [db EXCEPT ![e] = [@ EXCEPT
                     !.status = next.hard, !.mirror = next.flap, !.episode = next.flap,
                     !.row = [owner |-> s, hard |-> next.hard, flap |-> next.flap]]]
      BY <2>4 DEF SensorWrite, CheckOutcomes
    <3>2. db'[e].owner = s /\ \A x \in Devices \ {e} : db'[x] = db[x]
      BY <2>0, <2>4, <3>1 DEF SensorWrite, DbRow
    <3>3. \A x \in Devices \ {e} : stamps'[x] = stamps[x]
      BY <2>0, <2>4 DEF SensorWrite
    <3> QED BY <1>4, <2>0, <3>2, <3>3 DEF Polled
  <2>5. ASSUME NEW s \in Sensors, SensorOffline(s) PROVE Same0(d) \/ Gone(d)
    BY <1>4, <2>0, <2>5 DEF SensorOffline, Polled, DbRow
  <2> HIDE DEF Same0, Gone
  <2> QED BY <2>1, <2>2, <2>3, <2>4, <2>5 DEF Server, Health
<1>5. ASSUME NEW d \in Devices PROVE Sound(d)'
  <2>1. CASE Polled(d)' => Polled(d) /\ UNCHANGED <<db[d], stamps[d]>>
    BY <1>1, <1>2, <2>1, SoundUnmoved
  <2>2. CASE ~devices[d].present /\ ~snapshot.loaded /\ ~WorkFor(d)
    BY <1>1, <1>2, <2>2, NoWork, SoundAbsent
  <2> QED BY <1>4, <2>1, <2>2
<1>6. RowsSound'
  <2>0. db \in [Devices -> DbRow] /\ stamps \in [Devices -> Nat \X Nat] /\ Central \notin Sensors /\ NoRow.owner # Central
    BY PipelineAssumption DEF IInv, DbType, NoRow
  <2> DEFINE Kept1(d) == db'[d].row = db[d].row /\ db'[d].status = db[d].status /\ db'[d].mirror = db[d].mirror
             Fine(d) == /\ db'[d].row.owner = Central => Kept1(d)
                        /\ announced[d] = db[d].status => announced'[d] = db'[d].status
  <2>a. announced \in [Devices -> Statuses]
    BY DEF RowsSound
  <2>b. announced' \in [Devices -> Statuses]
    <3>1. "unknown" \in Statuses /\ \A next \in States : next.hard \in Statuses
      BY DEF Statuses, States
    <3> QED BY <2>a, <3>1 DEF Server, Health, Handoff, SwitchPingOff, SwitchPingOn, SensorWrite, SensorOffline, CheckOutcomes
  <2> SUFFICES \A d \in Devices : Fine(d)
    BY <1>1, <2>b DEF RowsSound, RowExplainsDevice, AnnouncedIsStored
  <2>1. ASSUME NEW e \in Devices, NEW o \in Owners, Handoff(e, o) PROVE \A d \in Devices : Fine(d)
    BY <2>0, <2>1 DEF Handoff, DbRow
  <2>2. ASSUME NEW e \in Devices, SwitchPingOff(e) PROVE \A d \in Devices : Fine(d)
    BY <2>0, <2>2 DEF SwitchPingOff, DbRow
  <2>3. ASSUME NEW e \in Devices, SwitchPingOn(e) PROVE \A d \in Devices : Fine(d)
    BY <2>0, <2>3 DEF SwitchPingOn, DbRow
  <2>4. ASSUME NEW e \in Devices, NEW s \in Sensors, SensorWrite(s, e) PROVE \A d \in Devices : Fine(d)
    <3>1. PICK next \in States :
            /\ db' = [db EXCEPT ![e] = [@ EXCEPT
                     !.status = next.hard, !.mirror = next.flap, !.episode = next.flap,
                     !.row = [owner |-> s, hard |-> next.hard, flap |-> next.flap]]]
            /\ announced' = [announced EXCEPT ![e] = next.hard]
      BY <2>4 DEF SensorWrite, CheckOutcomes
    <3>2. db'[e].row.owner = s /\ db'[e].status = next.hard /\ \A x \in Devices \ {e} : db'[x] = db[x]
      BY <2>0, <3>1 DEF DbRow
    <3>3. ASSUME NEW d \in Devices PROVE Fine(d)
      <4>1. CASE d = e
        BY <2>0, <2>a, <3>1, <3>2, <4>1
      <4>2. CASE d # e
        BY <2>a, <3>1, <3>2, <4>2
      <4> QED BY <4>1, <4>2
    <3> QED BY <3>3
  <2>5. ASSUME NEW s \in Sensors, SensorOffline(s) PROVE \A d \in Devices : Fine(d)
    BY <2>0, <2>5 DEF SensorOffline, DbRow
  <2> HIDE DEF Fine
  <2> QED BY <2>1, <2>2, <2>3, <2>4, <2>5 DEF Server, Health
<1> QED BY <1>3, <1>5, <1>6

LEMMA RowsUnmoved ==
    ASSUME RowsSound, UNCHANGED dbVars, spent'.faults = 0 => spent.faults = 0
    PROVE  RowsSound'
BY DEF RowsSound, RowExplainsDevice, AnnouncedIsStored, dbVars

(* New work at the end of the line. *)
LEMMA LineAppended ==
    ASSUME IInv, NEW work \in Work, batch' = Append(batch, work), UNCHANGED <<queue, writer>>
    PROVE  Line' = Append(Line, work)
<1>1. Line = InHand \o queue \o batch /\ InHand \o queue \in Seq(Work) /\ batch \in Seq(Work)
  BY LineType
<1>2. Line' = InHand \o queue \o Append(batch, work)
  BY DEF Line, InHand
<1>3. ASSUME NEW s \in Seq(Work) PROVE s \o Append(batch, work) = Append(s \o batch, work)
  BY <1>1
<1> QED BY <1>1, <1>2, <1>3

(* Work that is not a job of the device changes nothing for it.            *)
LEMMA SoundBeside ==
    ASSUME IInv, NEW d \in Devices, Sound(d), NEW work \in Work, ~IsJob(work, d), Line' = Append(Line, work),
           UNCHANGED <<db, stamps, writer, devices[d]>>, ~snapshot'.loaded, spent'.faults = spent.faults
    PROVE  Sound(d)'
<1> SUFFICES ASSUME Polled(d) PROVE Sound(d)'
  BY DEF Sound, Lineage, Unrefused, Believed, Continues, Polled
<1>1. Line \in Seq(Work) /\ Len(Line') = Len(Line) + 1 /\ Line'[Len(Line) + 1] = work
      /\ \A i \in 1..Len(Line) : Line'[i] = Line[i]
  BY LineType
<1>2. \A i \in 1..Len(Line') : IsJob(Line'[i], d) => i \in 1..Len(Line) /\ Line'[i] = Line[i]
  BY <1>1
<1>3. Lineage(d)'
  BY <1>2 DEF Sound, Lineage, Polled, Posting
<1>4. Unrefused(d)'
  BY <1>2 DEF Sound, Unrefused, Polled, Posting
<1>5. ASSUME NEW writes, NEW whole, NEW stored, NEW state, Finds(Line, Len(Line) + 1, d, writes, whole, stored, state)
      PROVE  Finds(Line', Len(Line') + 1, d, writes, whole, stored, state)
  <2>1. ~Counts(work, d, writes)
    BY DEF Counts
  <2>2. Finds(Append(Line, work), Len(Line) + 2, d, writes, whole, stored, state)
    BY <1>1, <1>5, <2>1, FindsNewest
  <2> QED BY <1>1, <2>2
<1>6. Believed(d)'
  <2>1. FirstOf(Line', Len(Line') + 1, d, TRUE) => FirstOf(Line, Len(Line) + 1, d, TRUE)
    <3>1. Len(Line') + 1 = Len(Line) + 2 /\ Line' = Append(Line, work)
      BY <1>1
    <3> QED BY <1>1, <3>1, FirstNewest
  <2> QED BY <1>5, <2>1 DEF Sound, Believed, Polled, Posting
<1>7. Continues(d)'
  <2>1. ASSUME NEW p \in 1..Len(Line), NEW writes, NEW whole, NEW stored, NEW state
        PROVE  Finds(Line', p, d, writes, whole, stored, state) <=> Finds(Line, p, d, writes, whole, stored, state)
    BY <1>1, FindsAppended
  <2>2. Shown(d)' = Shown(d) /\ devices'[d] = devices[d]
    BY DEF Shown
  <2> QED BY <1>2, <1>5, <2>1, <2>2 DEF Sound, Continues, Polled
<1> QED BY <1>3, <1>4, <1>6, <1>7 DEF Sound

LEMMA SettledLoad ==
    ASSUME SInv, SyncLoad
    PROVE  LineSound' /\ RowsSound' /\ \A d \in Devices : Sound(d)'
<1> USE DEF SInv
<1>1. UNCHANGED <<dbVars, devices, batch, queue, writer, spent, Line>> /\ batch = <<>>
  BY DEF SyncLoad, writerVars, Line
<1>2. LineSound' /\ RowsSound'
  BY <1>1, RowsUnmoved DEF LineSound
<1>3. ASSUME NEW d \in Devices PROVE Sound(d)'
  <2>1. UNCHANGED <<db, stamps>> /\ snapshot'.loaded /\ snapshot'.found[d] = IF Polled(d) THEN InitDevice(d) ELSE Absent
    BY <1>1 DEF SyncLoad, dbVars
  <2>2. Lineage(d)'
    <3>1. InitDevice(d)' = InitDevice(d) /\ InitDevice(d).present
      BY <2>1 DEF InitDevice
    <3> QED BY <1>1, <2>1, <3>1 DEF Sound, Lineage, Polled, Posting
  <2>3. Unrefused(d)' /\ Believed(d)' /\ Continues(d)'
    BY <1>1, <2>1 DEF Sound, Unrefused, Believed, Continues, Polled, Posting, Shown
  <2> QED BY <2>2, <2>3 DEF Sound
<1> QED BY <1>2, <1>3

LEMMA SettledSubmit ==
    ASSUME SInv, Submit
    PROVE  LineSound' /\ RowsSound' /\ \A d \in Devices : Sound(d)'
<1> USE DEF SInv
<1>1. UNCHANGED <<dbVars, devices, snapshot, writer, spent>> /\ queue' = queue \o batch /\ batch' = <<>>
  BY DEF Submit
<1>2. Line' = Line
  <2>1. InHand \in Seq(Work) /\ queue \in Seq(Work) /\ batch \in Seq(Work) /\ Line = InHand \o queue \o batch
    BY LineType
  <2>2. Line' = InHand \o (queue \o batch) \o <<>>
    BY <1>1 DEF Line, InHand
  <2>3. InHand \o (queue \o batch) = InHand \o queue \o batch
    <3>1. ASSUME NEW a \in Seq(Work), NEW b \in Seq(Work), NEW c \in Seq(Work) PROVE a \o (b \o c) = a \o b \o c
      BY ConcatAssociative
    <3> QED BY <2>1, <3>1
  <2>4. InHand \o queue \o batch \o <<>> = InHand \o queue \o batch
    BY <2>1
  <2> QED BY <2>1, <2>2, <2>3, <2>4
<1>3. LineSound' /\ RowsSound'
  BY <1>1, <1>2, RowsUnmoved DEF LineSound
<1>4. ASSUME NEW d \in Devices PROVE Sound(d)'
  BY <1>1, <1>2, SoundUnmoved DEF dbVars, Polled, Posting
<1> QED BY <1>3, <1>4

LEMMA SettledApply ==
    ASSUME SInv, SyncApply
    PROVE  LineSound' /\ RowsSound' /\ \A d \in Devices : Sound(d)'
<1> USE DEF SInv
<1> DEFINE released == {d \in Devices : devices[d].present /\ ~snapshot.found[d].present}
           work == [kind |-> "release", ids |-> released]
<1>1. UNCHANGED <<dbVars, queue, writer, spent>> /\ ~snapshot'.loaded /\ snapshot.loaded /\ batch = <<>>
  BY DEF SyncApply, writerVars, LineSound
<1>2. work \in Work /\ \A d : ~IsJob(work, d)
  BY DEF Work, ReleaseWork, IsJob
<1>3. batch' = <<>> \/ batch' = <<work>>
  BY DEF SyncApply
<1> HIDE DEF work
<1>4. Line' = Line \/ Line' = Append(Line, work)
  <2>1. CASE batch' = <<>>
    BY <1>1, <2>1 DEF Line
  <2>2. CASE batch' = <<work>>
    <3>1. batch' = Append(batch, work)
      BY <1>1, <2>2
    <3> QED BY <1>1, <1>2, <3>1, LineAppended
  <2> QED BY <1>3, <2>1, <2>2
<1>5. Line \in Seq(Work) /\ Line' \in Seq(Work)
      /\ \A i \in 1..Len(Line') : (i \in 1..Len(Line) /\ Line'[i] = Line[i]) \/ Line'[i] = work
  <2>1. ASSUME NEW s \in Seq(Work)
        PROVE  /\ Append(s, work) \in Seq(Work)
               /\ \A i \in 1..Len(Append(s, work)) :
                    (i \in 1..Len(s) /\ Append(s, work)[i] = s[i]) \/ Append(s, work)[i] = work
    BY <1>2
  <2>2. Line \in Seq(Work)
    BY LineType
  <2> QED BY <1>4, <2>1, <2>2
<1>6. LineSound' /\ RowsSound'
  <2>1. work.kind # "job"
    BY DEF work
  <2> QED BY <1>1, <1>5, <2>1, RowsUnmoved DEF LineSound, JobTells
<1>7. ASSUME NEW d \in Devices, devices'[d] = devices[d] PROVE Sound(d)'
  <2>1. CASE Line' = Line
    <3>1. UNCHANGED <<db, stamps, writer, Line, devices[d], Polled(d), Posting(d), Shown(d), spent>>
      BY <1>1, <1>7, <2>1 DEF dbVars, Polled, Posting, Shown
    <3>2. Lineage(d)'
      <4>1. CASE ~Polled(d)
        BY <3>1, <4>1 DEF Lineage
      <4>2. CASE Polled(d)
        <5>1. Lineage(d)
          BY DEF Sound
        <5>2. /\ Posting(d) => devices[d].present
              /\ devices[d].present => ~devices[d].lost /\ devices[d].basis = stamps[d]
              /\ \A i \in 1..Len(Line) : IsJob(Line[i], d) =>
                   devices[d].present /\ Line[i].epoch = devices[d].epoch /\ Line[i].basis = stamps[d]
          BY <4>2, <5>1 DEF Lineage
        <5>3. ~snapshot'.loaded
          BY <1>1
        <5> QED BY <3>1, <5>2, <5>3 DEF Lineage
      <4> QED BY <4>1, <4>2
    <3>3. Unrefused(d)'
      BY <3>1 DEF Sound, Unrefused
    <3>4. Believed(d)' /\ Continues(d)'
      BY <3>1 DEF Sound, Believed, Continues
    <3> QED BY <3>2, <3>3, <3>4 DEF Sound
  <2>2. CASE Line' = Append(Line, work)
    BY <1>1, <1>2, <1>7, <2>2, SoundBeside DEF dbVars
  <2> QED BY <1>4, <2>1, <2>2
<1>8. ASSUME NEW d \in Devices, Polled(d), ~devices[d].present PROVE Sound(d)'
  <2> DEFINE row == db[d].row
             started == [InitDevice(d) EXCEPT !.epoch = epochs + 1]
             reseed == NeedsReseed(row, db[d].status, Central)
  <2>1. snapshot.found[d] = InitDevice(d) /\ ~Posting(d) /\ \A i \in 1..Len(Line) : ~IsJob(Line[i], d)
    BY <1>1, <1>8 DEF Sound, Lineage
  <2>2. InitDevice(d).present /\ started \in Device
    <3>1. ASSUME NEW device \in Device, NEW n \in Nat PROVE [device EXCEPT !.epoch = n] \in Device
      BY DEF Device
    <3>2. InitDevice(d) \in Device /\ epochs + 1 \in Nat
      BY <1>8, InitDeviceType DEF IInv, EngineType
    <3>3. InitDevice(d).present
      BY DEF InitDevice
    <3> QED BY <3>1, <3>2, <3>3
  <2>3. devices'[d] = started
    BY <1>8, <2>1, <2>2 DEF SyncApply, Kept
  <2>4. /\ started.present /\ ~started.lost /\ started.basis = stamps[d]
        /\ started.state = IF reseed THEN Seed(db[d].status) ELSE RowState(row)
        /\ started.planned => ~reseed
        /\ started.takeover = IF row.owner = Central THEN NoOwner ELSE row.owner
    BY DEF InitDevice
  <2> HIDE DEF started
  <2>5. \A i \in 1..Len(Line') : ~IsJob(Line'[i], d)
    BY <1>2, <1>5, <2>1
  <2>6. UNCHANGED <<Polled(d), Posting(d), db, stamps>>
    BY <1>1 DEF dbVars, Polled, Posting
  <2>7. Lineage(d)'
    BY <1>1, <2>3, <2>4, <2>5, <2>6 DEF Lineage
  <2>8. Unrefused(d)'
    <3>1. Central \notin Sensors
      BY PipelineAssumption
    <3> QED BY <2>1, <2>3, <2>4, <2>5, <2>6, <3>1 DEF Unrefused
  <2>9. ASSUME NEW writes, NEW whole, NEW stored, NEW state, Same(stored, state, whole)
        PROVE  Finds(Line', Len(Line') + 1, d, writes, whole, stored, state)
    <3>1. \A i \in 1..Len(Line') + 1 - 1 : ~Counts(Line'[i], d, writes)
      BY <1>5, <2>5 DEF Counts
    <3> QED BY <2>9, <3>1 DEF Finds, Nearest
  <2>10. Believed(d)'
    <3>1. started.planned => row.owner = Central /\ Same(row, started.state, TRUE)
      BY <2>4 DEF NeedsReseed, RowState, Same
    <3> QED BY <2>3, <2>6, <2>9, <3>1 DEF Believed
  <2>11. Continues(d)'
    <3>1. Shown(d)' = Shown(d) /\ Shown(d).hard = db[d].status /\ Shown(d).flap = db[d].mirror
      BY <2>6 DEF Shown
    <3>2. Same(Shown(d), started.state, FALSE)
      BY <2>4, <3>1 DEF NeedsReseed, RowState, Seed, Same
    <3>3. spent.faults = 0 /\ started.planned => Same(Shown(d), started.state, TRUE)
      BY <2>4, <3>1 DEF NeedsReseed, RowState, Same, RowsSound, RowExplainsDevice
    <3> QED BY <1>1, <2>3, <2>5, <2>6, <2>9, <3>1, <3>2, <3>3 DEF Continues
  <2> QED BY <2>7, <2>8, <2>10, <2>11 DEF Sound
<1>9. ASSUME NEW d \in Devices, Polled(d), devices[d].present PROVE devices'[d] = devices[d]
  <2>1. snapshot.found[d].present /\ ~devices[d].lost
    BY <1>1, <1>9 DEF Sound, Lineage
  <2> QED BY <1>9, <2>1 DEF SyncApply, Kept
<1>10. ASSUME NEW d \in Devices, ~Polled(d) PROVE Sound(d)'
  BY <1>1, <1>10 DEF Sound, Lineage, Unrefused, Believed, Continues, Polled, dbVars
<1> QED BY <1>6, <1>7, <1>8, <1>9, <1>10

(* A check appends a job that leaves the state it made of the one before.  *)
LEMMA SettledStepDevice ==
    ASSUME SInv, NEW e \in Devices, StepDevice(e)
    PROVE  LineSound' /\ RowsSound' /\ \A d \in Devices : Sound(d)'
<1> USE DEF SInv
<1>1. PICK next \in CheckOutcomes(devices[e].state), due \in BOOLEAN :
        LET device == devices[e]
            changed == next.hard # device.state.hard
            writeState == PlanWrite(device, next, due)
            job == [kind |-> "job", dev |-> e, state |-> next, writeState |-> writeState,
                    event |-> EventOf(device, next, spent.changes + 1),
                    takeover |-> device.takeover, epoch |-> device.epoch, basis |-> device.basis]
        IN /\ changed => spent.changes < MaxChanges
           /\ devices' = [devices EXCEPT ![e].state = next, ![e].planned = @ \/ writeState]
           /\ batch' = Append(batch, job)
           /\ IF changed THEN Spend("changes") ELSE UNCHANGED spent
  BY DEF StepDevice
<1> DEFINE device == devices[e]
           writeState == PlanWrite(device, next, due)
           event == EventOf(device, next, spent.changes + 1)
           job == [kind |-> "job", dev |-> e, state |-> next, writeState |-> writeState, event |-> event,
                   takeover |-> device.takeover, epoch |-> device.epoch, basis |-> device.basis]
<1>2. /\ UNCHANGED <<dbVars, snapshot, queue, writer>> /\ ~snapshot.loaded /\ device.present /\ ~device.lost
      /\ batch' = Append(batch, job) /\ spent'.faults = spent.faults
  BY <1>1 DEF StepDevice, writerVars, Spend, IInv, Spent
<1>3. device \in Device /\ next \in States /\ writeState \in BOOLEAN /\ device.planned \in BOOLEAN
  BY RowOf DEF CheckOutcomes, PlanWrite, Device
<1>4. event \in Event /\ (event # NoEvent => event.new = next.hard) /\ (event = NoEvent => next.hard = device.state.hard)
  <2>1. spent.changes \in Nat /\ spent.changes + 1 # 0
    BY PipelineAssumption DEF IInv, Spent
  <2>2. next.hard # device.state.hard => spent.changes + 1 \in 0..MaxChanges
    BY <1>1, PipelineAssumption DEF IInv, Spent
  <2>3. device.state.hard \in Statuses /\ next.hard \in Statuses /\ NoEvent \in Event
    BY <1>3, PipelineAssumption DEF Device, States, NoEvent, Event, Statuses
  <2> QED BY <2>1, <2>2, <2>3 DEF EventOf, NoEvent, Event
<1>5. ~writeState => device.planned /\ next = device.state
  BY <1>3 DEF PlanWrite
<1>6. job \in Work
  BY <1>3, <1>4 DEF Work, Job, Device
<1>7. /\ job.kind = "job" /\ job.dev = e /\ job.state = next /\ job.writeState = writeState /\ job.event = event
      /\ job.takeover = device.takeover /\ job.epoch = device.epoch /\ job.basis = device.basis
  OBVIOUS
<1>8. /\ \A d \in Devices \ {e} : devices'[d] = devices[d]
      /\ devices'[e] = [device EXCEPT !.state = next, !.planned = @ \/ writeState]
  BY <1>1, <1>3 DEF IInv, EngineType
<1>9. /\ devices'[e].present /\ ~devices'[e].lost /\ devices'[e].state = next
      /\ devices'[e].planned => device.planned \/ writeState
      /\ devices'[e].takeover = device.takeover /\ devices'[e].epoch = device.epoch /\ devices'[e].basis = device.basis
  <2> HIDE DEF writeState
  <2> QED BY <1>2, <1>3, <1>8 DEF Device
<1> HIDE DEF device, writeState, event, job
<1>10. Line' = Append(Line, job)
  BY <1>2, <1>6, LineAppended
<1>11. Line \in Seq(Work) /\ Len(Line') = Len(Line) + 1 /\ Line'[Len(Line) + 1] = job
       /\ \A i \in 1..Len(Line) : Line'[i] = Line[i]
  <2>1. Line \in Seq(Work)
    BY LineType
  <2> QED BY <1>6, <1>10, <2>1
<1>12. \A i \in 1..Len(Line') : (i \in 1..Len(Line) /\ Line'[i] = Line[i]) \/ Line'[i] = job
  BY <1>11
<1>13. LineSound' /\ RowsSound'
  <2>1. RowsSound'
    BY <1>2, RowsUnmoved
  <2>2. JobTells(job)
    BY <1>4, <1>7 DEF JobTells
  <2> QED BY <1>2, <1>12, <2>1, <2>2 DEF LineSound
<1>14. ASSUME NEW d \in Devices \ {e} PROVE Sound(d)'
  <2>1. ~IsJob(job, d)
    BY <1>7 DEF IsJob
  <2> QED BY <1>2, <1>6, <1>8, <1>10, <2>1, SoundBeside DEF dbVars
<1>15. Sound(e)'
  <2>0. SUFFICES ASSUME Polled(e) PROVE Sound(e)'
    BY <1>2 DEF dbVars, Sound, Lineage, Unrefused, Believed, Continues, Polled
  <2>1. UNCHANGED <<Polled(e), Posting(e), Shown(e), db[e], stamps[e], writer>> /\ spent'.faults = spent.faults
    BY <1>2 DEF dbVars, Polled, Posting, Shown
  <2>2. Lineage(e) /\ Unrefused(e) /\ Believed(e) /\ Continues(e)
    BY DEF Sound
  <2>3. Lineage(e)'
    BY <1>2, <1>7, <1>9, <1>12, <2>0, <2>1, <2>2 DEF Lineage, device
  <2>4. Unrefused(e)'
    BY <1>2, <1>7, <1>9, <1>12, <2>0, <2>1, <2>2 DEF Unrefused, device
  <2>5. ASSUME NEW writes, NEW whole, NEW stored,
               ~Counts(job, e, writes) => Finds(Line, Len(Line) + 1, e, writes, whole, stored, next)
        PROVE  Finds(Line', Len(Line') + 1, e, writes, whole, stored, next)
    <3>1. Counts(job, e, writes) => Same(job.state, next, whole)
      BY <1>7 DEF Same
    <3>2. Finds(Append(Line, job), Len(Line) + 2, e, writes, whole, stored, next)
      BY <1>6, <1>11, <2>5, <3>1, FindsNewest
    <3>3. Len(Line') + 1 = Len(Line) + 2
      BY <1>11
    <3> QED BY <1>10, <3>2, <3>3
  <2>6. Counts(job, e, FALSE) /\ (writeState => Counts(job, e, TRUE))
    BY <1>7 DEF Counts, IsJob
  <2>7. Believed(e)'
    <3> SUFFICES ASSUME ~(Posting(e) /\ writer.result = "error"), devices'[e].planned
                 PROVE  /\ Finds(Line', Len(Line') + 1, e, TRUE, TRUE, db[e].row, next)
                        /\ FirstOf(Line', Len(Line') + 1, e, TRUE) => db[e].row.owner = Central
      BY <1>9, <2>1 DEF Believed
    <3>1. ~writeState => Finds(Line, Len(Line) + 1, e, TRUE, TRUE, db[e].row, next)
      BY <1>2, <1>5, <2>0, <2>2 DEF Believed, device
    <3>2. ~Counts(job, e, TRUE) => ~writeState
      BY <2>6
    <3>3. Finds(Line', Len(Line') + 1, e, TRUE, TRUE, db[e].row, next)
      BY <2>5, <3>1, <3>2
    <3>4. ASSUME FirstOf(Line', Len(Line') + 1, e, TRUE) PROVE db[e].row.owner = Central
      <4>1. FirstOf(Append(Line, job), Len(Line) + 2, e, TRUE)
        <5>1. Len(Line') + 1 = Len(Line) + 2
          BY <1>11
        <5> QED BY <1>10, <3>4, <5>1
      <4>2. FirstOf(Line, Len(Line) + 1, e, TRUE) /\ ~Counts(job, e, TRUE)
        BY <1>6, <1>11, <4>1, FirstNewest
      <4> QED BY <1>2, <1>5, <2>0, <2>2, <3>2, <4>2 DEF Believed, device
    <3> QED BY <3>3, <3>4
  <2>8. Continues(e)'
    <3> SUFFICES ASSUME spent.faults = 0
                 PROVE  /\ \A p \in 1..Len(Line') : IsJob(Line'[p], e) =>
                             /\ Line'[p].event = NoEvent => Finds(Line', p, e, FALSE, FALSE, Shown(e), Line'[p].state)
                             /\ ~Line'[p].writeState => Finds(Line', p, e, FALSE, TRUE, Shown(e), Line'[p].state)
                        /\ \A whole : Finds(Line', Len(Line') + 1, e, FALSE, whole, Shown(e), next)
      BY <1>9, <2>1 DEF Continues
    <3>1. ASSUME NEW p \in 1..Len(Line) + 1, NEW whole, NEW state
          PROVE  Finds(Line', p, e, FALSE, whole, Shown(e), state) <=> Finds(Line, p, e, FALSE, whole, Shown(e), state)
      BY <1>6, <1>10, <1>11, FindsAppended
    <3>2. /\ event = NoEvent => Finds(Line, Len(Line) + 1, e, FALSE, FALSE, Shown(e), next)
          /\ ~writeState => Finds(Line, Len(Line) + 1, e, FALSE, TRUE, Shown(e), next)
      <4>1. /\ Finds(Line, Len(Line) + 1, e, FALSE, FALSE, Shown(e), device.state)
            /\ device.planned => Finds(Line, Len(Line) + 1, e, FALSE, TRUE, Shown(e), device.state)
        BY <1>2, <2>0, <2>2 DEF Continues, device
      <4>2. ASSUME event = NoEvent PROVE Finds(Line, Len(Line) + 1, e, FALSE, FALSE, Shown(e), next)
        BY <1>4, <4>1, <4>2 DEF Finds, Same
      <4> QED BY <1>5, <4>1, <4>2
    <3>3. ASSUME NEW p \in 1..Len(Line'), IsJob(Line'[p], e)
          PROVE  /\ Line'[p].event = NoEvent => Finds(Line', p, e, FALSE, FALSE, Shown(e), Line'[p].state)
                 /\ ~Line'[p].writeState => Finds(Line', p, e, FALSE, TRUE, Shown(e), Line'[p].state)
      <4>0. p \in 1..Len(Line) + 1
        BY <1>11
      <4>1. CASE p \in 1..Len(Line)
        <5>1. Line'[p] = Line[p] /\ IsJob(Line[p], e)
          BY <1>11, <3>3, <4>1
        <5>2. /\ Line[p].event = NoEvent => Finds(Line, p, e, FALSE, FALSE, Shown(e), Line[p].state)
              /\ ~Line[p].writeState => Finds(Line, p, e, FALSE, TRUE, Shown(e), Line[p].state)
          BY <1>2, <2>0, <2>2, <4>1, <5>1 DEF Continues, device
        <5> QED BY <3>1, <4>0, <5>1, <5>2
      <4>2. CASE p = Len(Line) + 1
        <5>1. Line'[p] = job
          BY <1>11, <4>2
        <5>2. Line'[p].event = event /\ Line'[p].writeState = writeState /\ Line'[p].state = next
          BY <1>7, <5>1
        <5>3. \A whole : Finds(Line', p, e, FALSE, whole, Shown(e), next) <=> Finds(Line, p, e, FALSE, whole, Shown(e), next)
          BY <3>1, <4>0
        <5> QED BY <3>2, <4>2, <5>2, <5>3
      <4>3. p \in 1..Len(Line) \/ p = Len(Line) + 1
        BY <1>11, <4>0
      <4> QED BY <4>1, <4>2, <4>3
    <3>4. \A whole : Finds(Line', Len(Line') + 1, e, FALSE, whole, Shown(e), next)
      BY <2>5, <2>6
    <3> QED BY <3>3, <3>4
  <2> QED BY <2>3, <2>4, <2>7, <2>8 DEF Sound
<1> QED BY <1>13, <1>14, <1>15

(* Work at the head of the line that is no job of the device goes.         *)
LEMMA SoundBehind ==
    ASSUME IInv, NEW d \in Devices, Sound(d), Line # <<>>, Line' = Tail(Line),
           Polled(d) => ~IsJob(Head(Line), d),
           UNCHANGED <<db[d], stamps[d], devices[d], snapshot>>, ~Posting(d), ~Posting(d)', spent'.faults = 0 => spent.faults = 0
    PROVE  Sound(d)'
<1> SUFFICES ASSUME Polled(d) PROVE Sound(d)'
  BY DEF Sound, Lineage, Unrefused, Believed, Continues, Polled
<1>1. UNCHANGED <<Polled(d), Shown(d), InitDevice(d)>> /\ ~IsJob(Head(Line), d)
  BY DEF Polled, Shown, InitDevice
<1>2. Line \in Seq(Work) /\ Len(Line') = Len(Line) - 1 /\ \A i \in 1..Len(Line') : i + 1 \in 1..Len(Line) /\ Line'[i] = Line[i + 1]
  <2>1. Line \in Seq(Work)
    BY LineType
  <2> QED BY <2>1, Behead
<1>3. Lineage(d)'
  BY <1>1, <1>2 DEF Sound, Lineage
<1>4. Unrefused(d)'
  BY <1>1, <1>2 DEF Sound, Unrefused
<1>5. ASSUME NEW p \in 1..Len(Line), NEW writes, NEW whole, NEW stored, NEW state,
             Finds(Line, p + 1, d, writes, whole, stored, state)
      PROVE  Finds(Line', p, d, writes, whole, stored, state)
  <2>1. ~Counts(Head(Line), d, writes) /\ Same(stored, stored, whole)
    BY <1>1 DEF Counts, Same
  <2> QED BY <1>2, <1>5, <2>1, FindsBehind
<1>6. Len(Line') + 1 \in 1..Len(Line) /\ Len(Line) + 1 = Len(Line') + 1 + 1
  <2>1. Len(Line) \in Nat /\ Len(Line') \in Nat
    BY <1>2, LineType
  <2> QED BY <1>2, <2>1
<1>7. Believed(d)'
  <2>1. FirstOf(Line', Len(Line') + 1, d, TRUE) => FirstOf(Line, Len(Line) + 1, d, TRUE)
    <3>1. ~Counts(Head(Line), d, TRUE)
      BY <1>1 DEF Counts
    <3> QED BY <1>2, <3>1, FirstBehind
  <2>2. ASSUME NEW stored, NEW state, Finds(Line, Len(Line) + 1, d, TRUE, TRUE, stored, state)
        PROVE  Finds(Line', Len(Line') + 1, d, TRUE, TRUE, stored, state)
    BY <1>5, <1>6, <2>2
  <2> QED BY <1>1, <2>1, <2>2 DEF Sound, Believed
<1>8. Continues(d)'
  <2>1. ASSUME NEW p \in 1..Len(Line'), NEW whole, NEW state, Finds(Line, p + 1, d, FALSE, whole, Shown(d), state)
        PROVE  Finds(Line', p, d, FALSE, whole, Shown(d), state)
    <3>1. p \in 1..Len(Line)
      BY <1>2
    <3> QED BY <1>5, <2>1, <3>1
  <2>2. ASSUME NEW whole, NEW state, Finds(Line, Len(Line) + 1, d, FALSE, whole, Shown(d), state)
        PROVE  Finds(Line', Len(Line') + 1, d, FALSE, whole, Shown(d), state)
    BY <1>5, <1>6, <2>2
  <2> QED BY <1>1, <1>2, <2>1, <2>2 DEF Sound, Continues
<1> QED BY <1>3, <1>4, <1>7, <1>8 DEF Sound

LEMMA HeadOfQueue ==
    ASSUME IInv, writer.phase # "save", queue # <<>>
    PROVE  Line # <<>> /\ Head(Line) = Head(queue) /\ Tail(Line) = Tail(queue) \o batch
           /\ Head(queue) \in Work /\ Line[1] = Head(queue)
           /\ 1 \in 1..Len(Line)
<1>1. queue \in Seq(Work) /\ batch \in Seq(Work) /\ Line = queue \o batch
  BY LineType, LineIdle
<1>2. Line # <<>> /\ Head(Line) = Head(queue) /\ Tail(Line) = Tail(queue) \o batch
  BY <1>1, HeadOfConcat
<1>3. Head(queue) \in Work /\ Line[1] = Head(queue) /\ 1 \in 1..Len(Line)
  BY <1>1, <1>2, Behead, LineType
<1> QED BY <1>2, <1>3

(* The writer takes the next work: a job to save, or one that goes.        *)
LEMMA SettledTake ==
    ASSUME SInv, Take
    PROVE  LineSound' /\ RowsSound' /\ \A d \in Devices : Sound(d)'
<1> USE DEF SInv
<1> DEFINE work == Head(queue)
<1>1. UNCHANGED <<dbVars, engineVars, spent>> /\ queue # <<>> /\ queue' = Tail(queue) /\ writer.phase = "idle"
  BY DEF Take
<1>2. /\ Line # <<>> /\ Head(Line) = work /\ Tail(Line) = Tail(queue) \o batch
      /\ work \in Work /\ Line[1] = work /\ 1 \in 1..Len(Line)
  BY <1>1, HeadOfQueue
<1>3. RowsSound'
  BY <1>1, RowsUnmoved
<1>4. \A d : ~Posting(d) /\ ~Posting(d)'
  BY <1>1 DEF Posting, Take, Idle
<1>5. CASE work.kind # "release" /\ ~Stale(work)
  <2>1. writer' = [phase |-> "save", job |-> work]
    BY <1>5 DEF Take
  <2>2. Line' = Line
    <3>1. Line = queue \o batch /\ Line' = <<work>> \o Tail(queue) \o batch
      BY <1>1, <2>1, LineIdle DEF Line, engineVars
    <3>2. queue = <<work>> \o Tail(queue)
      BY <1>1, LineType
    <3> QED BY <3>1, <3>2
  <2>3. LineSound'
    BY <1>1, <2>2 DEF LineSound, engineVars
  <2>4. ASSUME NEW d \in Devices PROVE Sound(d)'
    BY <1>1, <1>4, <2>2, SoundUnmoved DEF engineVars, dbVars, Polled
  <2> QED BY <1>3, <2>3, <2>4
<1>6. CASE work.kind = "release" \/ Stale(work)
  <2>1. writer'.phase \in {"release", "idle"}
    BY <1>6 DEF Take, Idle
  <2>2. Line' = Tail(Line)
    <3>1. Line' = <<>> \o Tail(queue) \o batch
      BY <1>1, <2>1 DEF Line, engineVars
    <3>2. Tail(queue) \in Seq(Work)
      BY <1>1, LineType
    <3>3. <<>> \o Tail(queue) = Tail(queue)
      BY <3>2
    <3> QED BY <1>2, <3>1, <3>3
  <2>3. \A i \in 1..Len(Line') : i + 1 \in 1..Len(Line) /\ Line'[i] = Line[i + 1]
    BY <1>2, <2>2, LineType
  <2>4. LineSound'
    BY <1>1, <2>3 DEF LineSound, engineVars
  <2>5. ASSUME NEW d \in Devices, Polled(d) PROVE ~IsJob(work, d)
    <3> SUFFICES ASSUME IsJob(work, d) PROVE FALSE
      OBVIOUS
    <3>1. work.dev = d /\ Stale(work)
      BY <1>6 DEF IsJob
    <3>2. work.epoch = devices[d].epoch
      BY <1>2, <2>5 DEF Sound, Lineage
    <3> QED BY <3>1, <3>2 DEF Stale
  <2>6. ASSUME NEW d \in Devices PROVE Sound(d)'
    <3>1. Polled(d) => ~IsJob(Head(Line), d)
      BY <1>2, <2>5
    <3>2. UNCHANGED <<db[d], stamps[d], devices[d], snapshot, spent>>
      BY <1>1, <1>4 DEF engineVars, dbVars
    <3> QED BY <1>2, <1>4, <2>2, <3>1, <3>2, SoundBehind
  <2> QED BY <1>3, <2>4, <2>6
<1> QED BY <1>5, <1>6

(* Crash, deliveries, releases. *)
LEMMA SettledOther ==
    ASSUME SInv, Release \/ ReleaseFails \/ Crash \/ (\E d \in Devices : Deliver(d) \/ DeliverFails(d)) \/ UNCHANGED vars
    PROVE  LineSound' /\ RowsSound' /\ \A d \in Devices : Sound(d)'
<1> USE DEF SInv
<1>1. CASE Crash
  <2>1. Line' = <<>>
    BY <1>1, ConcatEmptySeq DEF Crash, Line, Idle
  <2>2. LineSound'
    BY <1>1, <2>1 DEF LineSound, Crash
  <2>3. UNCHANGED dbVars /\ (spent'.faults = spent.faults)
    BY <1>1 DEF Crash, Spend, IInv, Spent
  <2>4. RowsSound'
    BY <2>3, RowsUnmoved
  <2>5. ASSUME NEW d \in Devices PROVE Sound(d)'
    <3>1. ~devices'[d].present /\ ~snapshot'.loaded /\ ~Posting(d)' /\ \A i \in 1..Len(Line') : ~IsJob(Line'[i], d)
      BY <1>1, <2>1 DEF Crash, Absent, Posting, Idle
    <3> QED BY <3>1, SoundAbsent
  <2> QED BY <2>2, <2>4, <2>5
<1>2. CASE Release
  <2>1. UNCHANGED <<engineVars, queue, spent, announced>> /\ writer.phase = "release" /\ writer' = Idle
    BY <1>2 DEF Release
  <2>2. Line' = Line /\ \A d : ~Posting(d) /\ ~Posting(d)'
    BY <2>1 DEF Line, Posting, Idle, engineVars
  <2>3. LineSound'
    BY <2>1, <2>2 DEF LineSound, engineVars
  <2>4. ASSUME NEW d \in Devices
        PROVE  /\ db'[d] = db[d] /\ stamps'[d] = stamps[d]
               \/ /\ ~Polled(d)' /\ db'[d].status = db[d].status /\ db'[d].row = NoRow
    <3>1. db'[d] = IF d \in writer.ids /\ Releasable(d)
                   THEN [db[d] EXCEPT !.mirror = FALSE, !.row = NoRow, !.episode = FALSE] ELSE db[d]
      BY <1>2 DEF Release
    <3>2. stamps'[d] = IF d \in writer.ids /\ Releasable(d) THEN [stamps[d] EXCEPT ![2] = @ + 1] ELSE stamps[d]
      BY <1>2 DEF Release
    <3>3. CASE d \in writer.ids /\ Releasable(d)
      <4>1. db'[d].owner = db[d].owner /\ db'[d].ping = db[d].ping /\ db'[d].status = db[d].status /\ db'[d].row = NoRow
        BY <3>1, <3>3, RowOf DEF DbRow
      <4> QED BY <3>3, <4>1 DEF Releasable, Polled
    <3>4. CASE ~(d \in writer.ids /\ Releasable(d))
      BY <3>1, <3>2, <3>4
    <3> QED BY <3>3, <3>4
  <2>5. RowsSound'
    <3>1. NoRow.owner # Central
      BY PipelineAssumption DEF NoRow
    <3> QED BY <2>1, <2>4, <3>1 DEF RowsSound, RowExplainsDevice, AnnouncedIsStored
  <2>6. ASSUME NEW d \in Devices PROVE Sound(d)'
    <3>1. Polled(d)' => Polled(d) /\ UNCHANGED <<db[d], stamps[d]>>
      BY <2>4 DEF Polled
    <3> QED BY <2>1, <2>2, <3>1, SoundUnmoved DEF engineVars
  <2> QED BY <2>3, <2>5, <2>6
<1>3. CASE ReleaseFails \/ (\E d \in Devices : Deliver(d) \/ DeliverFails(d)) \/ UNCHANGED vars
  <2>1. /\ UNCHANGED <<dbVars, engineVars, queue>>
        /\ writer' = writer \/ (writer.phase = "release" /\ writer' = Idle)
    <3>1. CASE ReleaseFails
      BY <3>1 DEF ReleaseFails
    <3>2. CASE \E d \in Devices : Deliver(d) \/ DeliverFails(d)
      <4>1. dbVars' = dbVars /\ engineVars' = engineVars /\ queue' = queue /\ writer' = writer
        BY <3>2 DEF Deliver, DeliverFails
      <4> QED BY <4>1
    <3>3. CASE UNCHANGED vars
      <4>1. dbVars' = dbVars /\ engineVars' = engineVars /\ queue' = queue /\ writer' = writer
        BY <3>3 DEF vars, dbVars, engineVars
      <4> QED BY <4>1
    <3> QED BY <1>3, <3>1, <3>2, <3>3
  <2>2. spent'.faults = 0 => spent.faults = 0
    <3>1. spent.faults \in Nat
      BY DEF IInv, Spent
    <3>2. UNCHANGED spent \/ Spend("faults")
      BY <1>3 DEF ReleaseFails, Deliver, DeliverFails, vars
    <3> QED BY <3>1, <3>2 DEF Spend, IInv, Spent
  <2>3. Line' = Line
    <3>1. queue' = queue /\ batch' = batch
      BY <2>1 DEF engineVars
    <3>2. InHand' = InHand
      BY <2>1 DEF InHand, Idle
    <3> QED BY <3>1, <3>2 DEF Line, InHand
  <2>4. LineSound'
    BY <2>1, <2>3 DEF LineSound, engineVars
  <2>5. RowsSound'
    BY <2>1, <2>2, RowsUnmoved
  <2>6. ASSUME NEW d \in Devices PROVE Sound(d)'
    <3>1. /\ Posting(d)' => Posting(d) /\ UNCHANGED writer
          /\ Posting(d) => UNCHANGED writer
      BY <2>1 DEF Posting, Idle
    <3>2. Polled(d)' => Polled(d) /\ UNCHANGED <<db[d], stamps[d]>>
      BY <2>1 DEF dbVars, Polled
    <3> QED BY <2>1, <2>2, <2>3, <3>1, <3>2, SoundUnmoved DEF engineVars
  <2> QED BY <2>4, <2>5, <2>6
<1> QED BY <1>1, <1>2, <1>3

(* Only a row of a sensor, or a device that is not polled, refuses a job.  *)
LEMMA SavesPolled ==
    ASSUME SInv, writer.phase = "save", NEW d \in Devices, writer.job.dev = d, Polled(d)
    PROVE  /\ SaveResult(writer.job) = "saved" /\ devices[d].present /\ writer.job.epoch = devices[d].epoch
           /\ writer.job.basis = stamps[d]
<1> USE DEF SInv
<1>1. 1 \in 1..Len(Line) /\ Line[1] = writer.job
  BY LineSaving
<1>2. IsJob(Line[1], d)
  BY <1>1, SavingJob DEF IsJob, IInv, Job
<1>3. /\ devices[d].present /\ writer.job.epoch = devices[d].epoch /\ writer.job.basis = stamps[d]
  BY <1>1, <1>2 DEF Sound, Lineage
<1>4. db[d].row.owner \in Sensors => writer.job.takeover = db[d].row.owner
  BY <1>1, <1>2 DEF Sound, Unrefused
<1> QED BY <1>3, <1>4, RowOf DEF SaveResult, ForeignRow

(* What the save statement leaves of the row of the job's device.          *)
LEMMA WriteLeaves ==
    ASSUME IInv, NEW job \in Job
    PROVE  /\ \A d \in Devices : d # job.dev => Write(job)[d] = db[d]
           /\ Write(job)[job.dev].status = job.state.hard /\ Write(job)[job.dev].mirror = job.state.flap
           /\ Write(job)[job.dev].owner = db[job.dev].owner /\ Write(job)[job.dev].ping = db[job.dev].ping
           /\ job.writeState => Write(job)[job.dev].row =
                                  [owner |-> Central, hard |-> job.state.hard, flap |-> job.state.flap]
           /\ ~job.writeState => Write(job)[job.dev].row = db[job.dev].row
<1>1. job.dev \in Devices /\ db \in [Devices -> DbRow] /\ db[job.dev] \in DbRow
  BY DEF Job, IInv, DbType
<1>2. Write(job) = [db EXCEPT ![job.dev] = Write(job)[job.dev]]
  BY <1>1 DEF Write
<1>3. \A d \in Devices : d # job.dev => Write(job)[d] = db[d]
  BY <1>1 DEF Write
<1>4. /\ Write(job)[job.dev].status = job.state.hard /\ Write(job)[job.dev].mirror = job.state.flap
      /\ Write(job)[job.dev].owner = db[job.dev].owner /\ Write(job)[job.dev].ping = db[job.dev].ping
      /\ Write(job)[job.dev].row = IF job.writeState
                                   THEN [owner |-> Central, hard |-> job.state.hard, flap |-> job.state.flap]
                                   ELSE db[job.dev].row
  BY <1>1 DEF Write, DbRow
<1> QED BY <1>3, <1>4

(* The line loses the saved job, and what it made of the row is what the   *)
(* next one finds.                                                         *)
LEMMA SettledSave ==
    ASSUME SInv, Save \/ SaveFails
    PROVE  LineSound' /\ RowsSound' /\ \A d \in Devices : Sound(d)'
<1> USE DEF SInv
<1>0. writer.phase = "save"
  BY DEF Save, SaveFails
<1> PICK job \in Job : job = writer.job
  BY <1>0, SavingJob DEF IInv
<1> PICK at \in Devices : at = job.dev
  BY DEF Job
<1>1. /\ UNCHANGED <<engineVars, queue, stamps>> /\ job.dev = at /\ job.kind = "job"
      /\ job.state \in States /\ job.writeState \in BOOLEAN /\ job.event \in Event
      /\ writer'.phase = "post" /\ writer'.job = job
  BY <1>0 DEF Save, SaveFails, Job
<1>2. /\ Line # <<>> /\ Head(Line) = job /\ Tail(Line) = queue \o batch /\ 1 \in 1..Len(Line) /\ Line[1] = job
  BY <1>0, LineSaving
<1>3. Line' = Tail(Line)
  <2>1. Line' = <<>> \o queue \o batch
    BY <1>1 DEF Line, engineVars
  <2>2. <<>> \o queue = queue
    BY LineType
  <2> QED BY <1>2, <2>1, <2>2
<1>4. /\ Line \in Seq(Work) /\ Len(Line) \in Nat /\ Len(Line') \in Nat /\ Len(Line') = Len(Line) - 1
      /\ \A i \in 1..Len(Line') : i + 1 \in 1..Len(Line) /\ Line'[i] = Line[i + 1]
  BY <1>2, <1>3, LineType, Behead
<1>5. LineSound'
  BY <1>1, <1>4 DEF LineSound, engineVars
<1>6. \/ db' = db
      \/ db' = Write(job) /\ SaveResult(job) = "saved"
  BY DEF Save, SaveFails
<1>7. \A d \in Devices : d # at => db'[d] = db[d]
  BY <1>1, <1>6, WriteLeaves
<1>8. \A d \in Devices : Polled(d)' <=> Polled(d)
  <2>1. ASSUME NEW d \in Devices PROVE db'[d].owner = db[d].owner /\ db'[d].ping = db[d].ping
    BY <1>1, <1>6, <1>7, WriteLeaves
  <2> QED BY <2>1 DEF Polled
<1>9. \A d \in Devices : Posting(d)' <=> d = at
  BY <1>1 DEF Posting
<1>10. spent'.faults = 0 => spent.faults = 0 /\ Save
  <2>1. spent.faults \in Nat
    BY DEF IInv, Spent
  <2>2. SaveFails => spent'.faults = spent.faults + 1
    BY DEF SaveFails, Spend, IInv, Spent
  <2>3. Save => spent' = spent
    BY DEF Save
  <2> QED BY <2>1, <2>2, <2>3
<1>11. ASSUME NEW d \in Devices, d # at PROVE Sound(d)'
  <2>1. Polled(d) => ~IsJob(Head(Line), d)
    BY <1>2, <1>11 DEF IsJob
  <2>2. UNCHANGED <<db[d], stamps[d], devices[d], snapshot>> /\ ~Posting(d) /\ ~Posting(d)'
    BY <1>0, <1>1, <1>7, <1>9, <1>11 DEF engineVars, Posting
  <2> QED BY <1>2, <1>3, <1>10, <2>1, <2>2, SoundBehind
<1>12. Polled(at) => /\ SaveResult(job) = "saved" /\ devices[at].present /\ job.epoch = devices[at].epoch
                     /\ Save => db' = Write(job) /\ writer'.result = "saved"
                     /\ SaveFails => writer'.result = "error"
  BY <1>0, <1>1, SavesPolled DEF Save, SaveFails
<1>13. RowsSound'
  <2>1. announced' \in [Devices -> Statuses]
    BY <1>1 DEF Save, SaveFails, RowsSound, Event
  <2> SUFFICES ASSUME spent'.faults = 0
               PROVE  /\ \A d \in Devices : db'[d].row.owner = Central =>
                            db'[d].row.hard = db'[d].status /\ db'[d].row.flap = db'[d].mirror
                      /\ \A d \in Devices : announced'[d] = db'[d].status
    BY <2>1 DEF RowsSound, RowExplainsDevice, AnnouncedIsStored
  <2>2. spent.faults = 0 /\ Save
    BY <1>10
  <2>3. \A d \in Devices : /\ db[d].row.owner = Central => db[d].row.hard = db[d].status /\ db[d].row.flap = db[d].mirror
                          /\ announced[d] = db[d].status
    BY <2>2 DEF RowsSound, RowExplainsDevice, AnnouncedIsStored
  <2>4. CASE SaveResult(job) # "saved"
    BY <2>2, <2>3, <2>4 DEF Save
  <2>5. CASE SaveResult(job) = "saved"
    <3>1. db' = Write(job) /\ announced' = IF job.event # NoEvent THEN [announced EXCEPT ![at] = job.event.new] ELSE announced
      BY <2>2, <2>5 DEF Save
    <3>2. \A d \in Devices : d # at => db'[d] = db[d] /\ announced'[d] = announced[d]
      BY <1>7, <3>1 DEF RowsSound
    <3>3. Polled(at) /\ devices[at].present
      BY <1>1, <1>12, <2>5 DEF SaveResult
    <3>4. /\ job.event = NoEvent => Same(Shown(at), job.state, FALSE)
          /\ ~job.writeState => Same(Shown(at), job.state, TRUE)
      <4>1. IsJob(Line[1], at)
        BY <1>1, <1>2 DEF IsJob
      <4>2. /\ job.event = NoEvent => Finds(Line, 1, at, FALSE, FALSE, Shown(at), job.state)
            /\ ~job.writeState => Finds(Line, 1, at, FALSE, TRUE, Shown(at), job.state)
        BY <1>2, <2>2, <3>3, <4>1 DEF Sound, Continues
      <4>3. FirstOf(Line, 1, at, FALSE)
        BY DEF FirstOf
      <4> QED BY <4>2, <4>3 DEF Finds
    <3>5. db'[at].row.owner = Central => db'[at].row.hard = db'[at].status /\ db'[at].row.flap = db'[at].mirror
      <4>0. db'[at].status = job.state.hard /\ db'[at].mirror = job.state.flap
        BY <1>1, <3>1, WriteLeaves
      <4>1. CASE job.writeState
        <5>1. db'[at].row = [owner |-> Central, hard |-> job.state.hard, flap |-> job.state.flap]
          BY <1>1, <3>1, <4>1, WriteLeaves
        <5> QED BY <4>0, <5>1
      <4>2. CASE ~job.writeState
        <5>1. db'[at].row = db[at].row
          BY <1>1, <3>1, <4>2, WriteLeaves
        <5>2. db[at].status = job.state.hard /\ db[at].mirror = job.state.flap
          BY <3>4, <4>2 DEF Same, Shown
        <5> QED BY <2>3, <4>0, <5>1, <5>2
      <4> QED BY <4>1, <4>2
    <3>6. announced'[at] = db'[at].status
      <4>1. db'[at].status = job.state.hard
        BY <1>1, <3>1, WriteLeaves
      <4>2. CASE job.event # NoEvent
        <5>1. job.event.new = job.state.hard
          BY <1>1, <1>2, <4>2 DEF LineSound, JobTells
        <5> QED BY <3>1, <4>1, <4>2, <5>1 DEF RowsSound
      <4>3. CASE job.event = NoEvent
        BY <2>3, <3>1, <3>4, <4>1, <4>3 DEF Same, Shown
      <4> QED BY <4>2, <4>3
    <3> QED BY <2>3, <3>2, <3>5, <3>6
  <2> QED BY <2>4, <2>5
<1>14. Sound(at)'
  <2> SUFFICES ASSUME Polled(at) PROVE Sound(at)'
    BY <1>8 DEF Sound, Lineage, Unrefused, Believed, Continues
  <2>1. /\ UNCHANGED <<devices, snapshot, stamps>> /\ Polled(at)' /\ Posting(at)' /\ ~Posting(at)
        /\ devices[at].present /\ job.epoch = devices[at].epoch
        /\ writer'.result = IF Save THEN "saved" ELSE "error"
    BY <1>0, <1>1, <1>8, <1>9, <1>12 DEF engineVars, Posting
  <2>2. Lineage(at) /\ Unrefused(at) /\ Believed(at) /\ Continues(at)
    BY DEF Sound
  <2>3. Lineage(at)'
    BY <1>4, <2>1, <2>2 DEF Lineage
  <2>4. \/ db'[at] = db[at] /\ ~Save
        \/ /\ db'[at].status = job.state.hard /\ db'[at].mirror = job.state.flap
           /\ job.writeState => db'[at].row = [owner |-> Central, hard |-> job.state.hard, flap |-> job.state.flap]
           /\ ~job.writeState => db'[at].row = db[at].row
    BY <1>1, <1>6, <1>12, WriteLeaves
  <2>5. Unrefused(at)'
    <3>1. Central \notin Sensors
      BY PipelineAssumption
    <3>2. db'[at].row.owner \in Sensors => db[at].row.owner = db'[at].row.owner
      BY <2>4, <3>1
    <3>3. Save /\ job.writeState => db'[at].row.owner = Central
      BY <2>4
    <3> QED BY <1>1, <1>4, <2>1, <2>2, <3>2, <3>3 DEF Unrefused
  <2>6. ASSUME NEW p \in 1..Len(Line), NEW writes, NEW whole, NEW stored, NEW next, NEW state,
               Finds(Line, p + 1, at, writes, whole, stored, state),
               Counts(job, at, writes) => Same(next, job.state, whole),
               ~Counts(job, at, writes) => Same(next, stored, whole)
        PROVE  Finds(Line', p, at, writes, whole, next, state)
    BY <1>2, <1>3, <1>4, <2>6, FindsBehind
  <2>7. Len(Line') + 1 \in 1..Len(Line) /\ Len(Line) + 1 = Len(Line') + 1 + 1
    BY <1>4
  <2>8. Counts(job, at, FALSE) /\ (Counts(job, at, TRUE) <=> job.writeState)
    BY <1>1 DEF Counts, IsJob
  <2>9. Believed(at)'
    <3> SUFFICES ASSUME Save, devices[at].planned
                 PROVE  /\ Finds(Line', Len(Line') + 1, at, TRUE, TRUE, db'[at].row, devices[at].state)
                        /\ FirstOf(Line', Len(Line') + 1, at, TRUE) => db'[at].row.owner = Central
      BY <2>1 DEF Believed
    <3>1. /\ Finds(Line, Len(Line) + 1, at, TRUE, TRUE, db[at].row, devices[at].state)
          /\ FirstOf(Line, Len(Line) + 1, at, TRUE) => db[at].row.owner = Central
      BY <2>1, <2>2 DEF Believed
    <3>0. Save
      OBVIOUS
    <3>2. /\ Counts(job, at, TRUE) => Same(db'[at].row, job.state, TRUE)
          /\ ~Counts(job, at, TRUE) => Same(db'[at].row, db[at].row, TRUE)
      <4>1. job.writeState => Same(db'[at].row, job.state, TRUE)
        BY <2>4, <3>0 DEF Same
      <4>2. ~job.writeState => Same(db'[at].row, db[at].row, TRUE)
        BY <2>4, <3>0 DEF Same
      <4> QED BY <2>8, <4>1, <4>2
    <3>3. Finds(Line', Len(Line') + 1, at, TRUE, TRUE, db'[at].row, devices[at].state)
      BY <2>6, <2>7, <3>1, <3>2
    <3>4. ASSUME FirstOf(Line', Len(Line') + 1, at, TRUE) PROVE db'[at].row.owner = Central
      <4>1. CASE job.writeState
        BY <2>4, <4>1
      <4>2. CASE ~job.writeState
        <5>1. FirstOf(Line, Len(Line) + 1, at, TRUE)
          BY <1>2, <1>3, <1>4, <2>8, <3>4, <4>2, FirstBehind
        <5> QED BY <2>4, <3>1, <4>2, <5>1
      <4> QED BY <4>1, <4>2
    <3> QED BY <3>3, <3>4
  <2>10. Continues(at)'
    <3> SUFFICES ASSUME spent'.faults = 0
                 PROVE  /\ \A p \in 1..Len(Line') : IsJob(Line'[p], at) =>
                             /\ Line'[p].event = NoEvent => Finds(Line', p, at, FALSE, FALSE, Shown(at)', Line'[p].state)
                             /\ ~Line'[p].writeState => Finds(Line', p, at, FALSE, TRUE, Shown(at)', Line'[p].state)
                        /\ Finds(Line', Len(Line') + 1, at, FALSE, FALSE, Shown(at)', devices[at].state)
                        /\ devices[at].planned => Finds(Line', Len(Line') + 1, at, FALSE, TRUE, Shown(at)', devices[at].state)
      BY <2>1 DEF Continues
    <3>1. spent.faults = 0 /\ Save
      BY <1>10
    <3>2. ASSUME NEW whole PROVE Same(Shown(at)', job.state, whole)
      BY <2>4, <3>1 DEF Same, Shown
    <3>3. ASSUME NEW p \in 1..Len(Line), NEW whole, NEW state, Finds(Line, p + 1, at, FALSE, whole, Shown(at), state)
          PROVE  Finds(Line', p, at, FALSE, whole, Shown(at)', state)
      BY <2>6, <2>8, <3>2, <3>3
    <3>4. /\ \A p \in 1..Len(Line) : IsJob(Line[p], at) =>
               /\ Line[p].event = NoEvent => Finds(Line, p, at, FALSE, FALSE, Shown(at), Line[p].state)
               /\ ~Line[p].writeState => Finds(Line, p, at, FALSE, TRUE, Shown(at), Line[p].state)
          /\ Finds(Line, Len(Line) + 1, at, FALSE, FALSE, Shown(at), devices[at].state)
          /\ devices[at].planned => Finds(Line, Len(Line) + 1, at, FALSE, TRUE, Shown(at), devices[at].state)
      BY <2>1, <2>2, <3>1 DEF Continues
    <3>5. ASSUME NEW p \in 1..Len(Line'), IsJob(Line'[p], at)
          PROVE  /\ Line'[p].event = NoEvent => Finds(Line', p, at, FALSE, FALSE, Shown(at)', Line'[p].state)
                 /\ ~Line'[p].writeState => Finds(Line', p, at, FALSE, TRUE, Shown(at)', Line'[p].state)
      <4>1. p \in 1..Len(Line) /\ p + 1 \in 1..Len(Line) /\ Line'[p] = Line[p + 1]
        BY <1>4
      <4> QED BY <3>3, <3>4, <3>5, <4>1
    <3> QED BY <2>7, <3>3, <3>4, <3>5
  <2> QED BY <2>3, <2>5, <2>9, <2>10 DEF Sound
<1> QED BY <1>5, <1>11, <1>13, <1>14

(* What the engine learns of a save changes nothing for its next jobs but  *)
(* that a failed one is planned again.                                     *)
LEMMA SettledPost ==
    ASSUME SInv, Post
    PROVE  LineSound' /\ RowsSound' /\ \A d \in Devices : Sound(d)'
<1> USE DEF SInv
<1>0. writer.phase = "post"
  BY DEF Post
<1> PICK job \in Job : job = writer.job
  BY <1>0, PostedJob DEF IInv
<1> PICK at \in Devices : at = job.dev
  BY DEF Job
<1>1. /\ UNCHANGED <<db, stamps, announced, served, snapshot, batch, queue, spent>> /\ writer' = Idle
      /\ devices' = IF Current(job) THEN [devices EXCEPT ![at] = AfterSave(job)] ELSE devices
  BY DEF Post
<1>2. Line' = Line
  BY <1>0, <1>1 DEF Line, Idle
<1>3. LineSound' /\ RowsSound'
  BY <1>1, <1>2, RowsUnmoved DEF LineSound, dbVars
<1>4. \A d \in Devices : Posting(d) => d = at
  BY DEF Posting
<1>5. \A d \in Devices : ~Posting(d)'
  BY <1>1 DEF Posting, Idle
<1>6. ASSUME NEW d \in Devices, devices'[d] = devices[d], ~(Posting(d) /\ writer.result = "error") PROVE Sound(d)'
  <2> SUFFICES ASSUME Polled(d) PROVE Sound(d)'
    BY <1>1 DEF Sound, Lineage, Unrefused, Believed, Continues, Polled
  <2>1. UNCHANGED <<Polled(d), Shown(d), InitDevice(d)>>
    BY <1>1 DEF Polled, Shown, InitDevice
  <2>2. Lineage(d)'
    BY <1>1, <1>2, <1>5, <1>6, <2>1 DEF Sound, Lineage
  <2>3. Unrefused(d)'
    BY <1>1, <1>2, <1>5, <1>6, <2>1 DEF Sound, Unrefused
  <2>4. Believed(d)'
    BY <1>1, <1>2, <1>5, <1>6, <2>1 DEF Sound, Believed
  <2>5. Continues(d)'
    BY <1>1, <1>2, <1>6, <2>1 DEF Sound, Continues
  <2> QED BY <2>2, <2>3, <2>4, <2>5 DEF Sound
<1>7. ASSUME NEW d \in Devices, d # at PROVE Sound(d)'
  BY <1>1, <1>4, <1>6, <1>7
<1>8. Sound(at)'
  <2> SUFFICES ASSUME Polled(at) PROVE Sound(at)'
    BY <1>1 DEF Sound, Lineage, Unrefused, Believed, Continues, Polled
  <2>1. Lineage(at) /\ Unrefused(at) /\ Believed(at) /\ Continues(at)
    BY DEF Sound
  <2>2. Posting(at)
    BY <1>0 DEF Posting
  <2>3. /\ devices[at].present /\ job.epoch = devices[at].epoch /\ writer.result \in {"saved", "error"}
        /\ writer.result = "saved" /\ job.writeState => db[at].row.owner = Central
    BY <2>1, <2>2 DEF Lineage, Unrefused
  <2>4. devices \in [Devices -> Device] /\ devices[at] \in Device
    BY DEF IInv, EngineType
  <2>5. devices'[at] = AfterSave(job)
    BY <1>1, <2>3, <2>4 DEF Current
  <2>6. UNCHANGED <<Polled(at), Shown(at), InitDevice(at)>>
    BY <1>1 DEF Polled, Shown, InitDevice
  <2>7. CASE devices'[at] = devices[at] /\ writer.result = "saved"
    BY <1>6, <2>7
  <2>8. CASE writer.result = "error"
    <3>1. devices'[at] = [devices[at] EXCEPT !.planned = FALSE]
      BY <2>5, <2>8 DEF AfterSave
    <3>2. /\ devices'[at].present /\ ~devices'[at].lost /\ ~devices'[at].planned
          /\ devices'[at].basis = devices[at].basis /\ devices'[at].epoch = devices[at].epoch
          /\ devices'[at].takeover = devices[at].takeover /\ devices'[at].state = devices[at].state
      BY <2>1, <2>3, <2>4, <3>1 DEF Device, Lineage
    <3>3. Lineage(at)'
      BY <1>1, <1>2, <1>5, <2>1, <2>3, <2>6, <3>2 DEF Lineage
    <3>4. Unrefused(at)'
      BY <1>1, <1>2, <1>5, <2>1, <2>3, <2>6, <3>2 DEF Unrefused
    <3>5. Believed(at)' /\ Continues(at)'
      BY <1>1, <1>2, <2>1, <2>3, <2>6, <3>2 DEF Believed, Continues
    <3> QED BY <3>3, <3>4, <3>5 DEF Sound
  <2>9. CASE devices'[at] # devices[at] /\ writer.result = "saved"
    <3>1. job.writeState /\ devices'[at] = [devices[at] EXCEPT !.takeover = NoOwner]
      BY <2>5, <2>9 DEF AfterSave
    <3>2. /\ devices'[at].present /\ ~devices'[at].lost /\ devices'[at].planned = devices[at].planned
          /\ devices'[at].basis = devices[at].basis /\ devices'[at].epoch = devices[at].epoch
          /\ devices'[at].state = devices[at].state
      BY <2>1, <2>3, <2>4, <3>1 DEF Device, Lineage
    <3>3. db[at].row.owner \notin Sensors
      BY <2>3, <2>9, <3>1, PipelineAssumption
    <3>4. Lineage(at)'
      BY <1>1, <1>2, <1>5, <2>1, <2>3, <2>6, <3>2 DEF Lineage
    <3>5. Unrefused(at)'
      BY <1>1, <1>2, <1>5, <2>6, <3>3 DEF Unrefused
    <3>6. Believed(at)' /\ Continues(at)'
      BY <1>1, <1>2, <2>1, <2>3, <2>6, <2>9, <3>2 DEF Believed, Continues
    <3> QED BY <3>4, <3>5, <3>6 DEF Sound
  <2> QED BY <2>3, <2>7, <2>8, <2>9
<1> QED BY <1>3, <1>7, <1>8

LEMMA SettledInit == Init => SInv
<1> SUFFICES ASSUME Init PROVE SInv
  OBVIOUS
<1>1. IInv
  BY InitIInv
<1>2. Line = <<>>
  BY DEF Init, Line, Idle
<1>3. LineSound
  BY <1>2 DEF LineSound, Init
<1>4. RowsSound
  <2>1. NoRow.owner # Central /\ First \in Statuses
    BY PipelineAssumption DEF NoRow, Statuses
  <2> QED BY <2>1 DEF RowsSound, RowExplainsDevice, AnnouncedIsStored, Init
<1>5. ASSUME NEW d \in Devices PROVE Sound(d)
  <2>1. ~devices[d].present /\ ~snapshot.loaded /\ ~Posting(d) /\ \A i \in 1..Len(Line) : ~IsJob(Line[i], d)
    BY <1>2 DEF Init, Posting, Idle, Absent
  <2> QED BY <2>1 DEF Sound, Lineage, Unrefused, Believed, Continues
<1> QED BY <1>1, <1>3, <1>4, <1>5 DEF SInv

LEMMA SettledStep ==
    ASSUME Returns = "settled"
    PROVE  SInv /\ [Next]_vars => SInv'
<1> SUFFICES ASSUME SInv, [Next]_vars PROVE SInv'
  OBVIOUS
<1>0. IInv'
  BY StepKeepsIInv DEF SInv
<1> SUFFICES LineSound' /\ RowsSound' /\ \A d \in Devices : Sound(d)'
  BY <1>0 DEF SInv
<1>1. CASE Server \/ Health
  BY <1>1, SettledServer
<1>2. CASE Runner
  BY <1>2, SettledLoad, SettledApply, SettledSubmit DEF Runner
<1>3. CASE Take
  BY <1>3, SettledTake
<1>4. CASE Save \/ SaveFails
  BY <1>4, SettledSave
<1>5. CASE Post
  BY <1>5, SettledPost
<1>6. CASE \E d \in Devices : StepDevice(d)
  BY <1>6, SettledStepDevice
<1>7. CASE Release \/ ReleaseFails \/ Crash \/ (\E d \in Devices : Deliver(d) \/ DeliverFails(d)) \/ UNCHANGED vars
  BY <1>7, SettledOther
<1> QED BY <1>1, <1>2, <1>3, <1>4, <1>5, <1>6, <1>7 DEF Next, Writer

THEOREM SettledHolds == Returns = "settled" => (Spec => []SInv)
<1> SUFFICES ASSUME Returns = "settled" PROVE Spec => []SInv
  OBVIOUS
<1>1. SInv /\ [Next]_vars => SInv'
  BY SettledStep
<1> QED BY <1>1, SettledInit, PTL DEF Spec

(* While devices return to the poller settled, and until a save fails, a   *)
(* central row tells the status and the flag that its device shows: the    *)
(* save that leaves out the row leaves out nothing that changed.           *)
THEOREM RowsExplainDevices == Returns = "settled" => (Spec => []RowExplainsDevice)
<1>1. SInv => RowExplainsDevice
  BY DEF SInv, RowsSound
<1> QED BY <1>1, SettledHolds, PTL

(* No silent change: under the same conditions the stored status is the    *)
(* last one that somebody announced.                                       *)
THEOREM StoredIsAnnounced == Returns = "settled" => (Spec => []AnnouncedIsStored)
<1>1. SInv => AnnouncedIsStored
  BY DEF SInv, RowsSound
<1> QED BY <1>1, SettledHolds, PTL

(* What the engine skips as stored is stored, or on its way, whatever      *)
(* fails: through failing saves, parked devices, crashes and reloads.      *)
THEOREM PlansAreStored == Returns = "settled" => (Spec => []PlannedIsStored)
<1>1. SInv => PlannedIsStored
  <2> SUFFICES ASSUME SInv, NEW d \in Devices, Polled(d), Kept(d), devices[d].planned, ~WorkFor(d)
               PROVE  db[d].row = [owner |-> Central, hard |-> devices[d].state.hard, flap |-> devices[d].state.flap]
    BY DEF PlannedIsStored
  <2>1. ~Posting(d) /\ \A i \in 1..Len(Line) : ~IsJob(Line[i], d)
    BY NoWork DEF SInv
  <2>2. FirstOf(Line, Len(Line) + 1, d, TRUE)
    <3>1. Len(Line) \in Nat
      BY LineType DEF SInv
    <3> QED BY <2>1, <3>1 DEF FirstOf, Counts
  <2>3. devices[d].present
    BY DEF Kept
  <2>4. db[d].row.owner = Central /\ Same(db[d].row, devices[d].state, TRUE)
    BY <2>1, <2>2, <2>3 DEF SInv, Sound, Believed, Finds
  <2>5. db[d].row \in Row
    BY RowOf DEF SInv
  <2>6. ASSUME NEW row \in Row PROVE row = [owner |-> row.owner, hard |-> row.hard, flap |-> row.flap]
    BY DEF Row
  <2> QED BY <2>4, <2>5, <2>6 DEF Same
<1> QED BY <1>1, SettledHolds, PTL

LEMMA CommitIsSave ==
    ASSUME [Next]_vars, Commits
    PROVE  Save /\ SaveResult(writer.job) = "saved"
<1>1. writer.phase = "save" /\ writer'.phase = "post" /\ writer'.result = "saved"
  BY DEF Commits
<1>2. CASE Save
  BY <1>1, <1>2 DEF Save
<1>3. CASE SaveFails
  BY <1>1, <1>3 DEF SaveFails
<1>4. CASE ~Save /\ ~SaveFails
  <2>1. writer' = writer \/ writer' = Idle \/ writer.phase # "save"
    BY <1>4 DEF Next, Server, Health, Runner, Writer, Handoff, SwitchPingOff, SwitchPingOn, SensorWrite, SensorOffline,
       SyncLoad, SyncApply, Submit, Take, Post, Release, StepDevice, Deliver, DeliverFails, ReleaseFails, Crash, vars, writerVars
  <2> QED BY <1>1, <2>1 DEF Idle
<1> QED BY <1>2, <1>3, <1>4

(* Nothing stepped from a state built before a release is ever saved.      *)
THEOREM ReleasesAreSeen == Returns = "settled" => (Spec => SeesReleases)
<1>1. SInv /\ [Next]_vars => [Commits => writer.job.basis[2] = stamps[writer.job.dev][2]]_vars
  <2> SUFFICES ASSUME SInv, [Next]_vars, Commits PROVE writer.job.basis[2] = stamps[writer.job.dev][2]
    OBVIOUS
  <2>1. Save /\ SaveResult(writer.job) = "saved" /\ writer.phase = "save"
    BY CommitIsSave DEF Commits
  <2>2. writer.job.dev \in Devices
    BY <2>1, SavingJob DEF SInv, IInv, Job
  <2>3. Polled(writer.job.dev)
    BY <2>1 DEF SaveResult
  <2> QED BY <2>1, <2>2, <2>3, SavesPolled
<1> QED BY <1>1, SettledHolds, PTL DEF Spec, SeesReleases
-----------------------------------------------------------------------------
(***************************************************************************)
(* Events keep their order on the way to the sink, whoever owns the        *)
(* devices: their ids rise along the line, after those the sinks have.     *)
(***************************************************************************)
IdOf(work) == IF work.kind = "job" THEN work.event.id ELSE 0
Told(job, last) == job.event = NoEvent \/ job.event.id \in 1..last
Rising(s, last) ==
    /\ \A i \in 1..Len(s) : s[i].kind = "job" => Told(s[i], last)
    /\ \A i, k \in 1..Len(s) : i < k /\ IdOf(s[k]) > 0 => IdOf(s[i]) < IdOf(s[k])
Before(id, s, last) == id <= last /\ \A k \in 1..Len(s) : IdOf(s[k]) > 0 => id < IdOf(s[k])

PostId == IF writer.phase = "post" THEN writer.job.event.id ELSE 0

Chain(d) ==
    /\ Before(received[d], Line, spent.changes)
    /\ PostId > 0 => received[d] < PostId
    /\ \A i \in 1..Len(effects[d]) :
         /\ received[d] < effects[d][i].id /\ Before(effects[d][i].id, Line, spent.changes)
         /\ PostId > 0 => effects[d][i].id < PostId
    /\ \A i, k \in 1..Len(effects[d]) : i < k => effects[d][i].id < effects[d][k].id

SinkType == effects \in [Devices -> Seq(Event)] /\ saved \in [Devices -> Nat] /\ received \in [Devices -> Nat]

(* Until a save fails, what the sinks have and get was committed before.   *)
Committed ==
    spent.faults = 0 =>
      /\ writer.phase = "post" => writer.result # "error"
      /\ writer.phase = "post" /\ writer.result = "saved" => PostId <= saved[writer.job.dev]
      /\ \A d \in Devices : received[d] <= saved[d] /\ \A i \in 1..Len(effects[d]) : effects[d][i].id <= saved[d]

Order ==
    /\ snapshot.loaded => batch = <<>>
    /\ Rising(Line, spent.changes) /\ Before(PostId, Line, spent.changes)
    /\ writer.phase = "post" => Told(writer.job, spent.changes)
    /\ \A d \in Devices : Chain(d)
    /\ Committed

OInv == IInv /\ SinkType /\ Order

LEMMA IdType ==
    ASSUME NEW s \in Seq(Work), NEW i \in 1..Len(s)
    PROVE  IdOf(s[i]) \in Nat
<1>1. s[i] \in Work
  BY ElementOfSeq
<1>2. ASSUME NEW work \in Work PROVE IdOf(work) \in Nat
  BY DEF Work, Job, ReleaseWork, Event, IdOf
<1> QED BY <1>1, <1>2

LEMMA RisingBehind ==
    ASSUME NEW s \in Seq(Work), s # <<>>, NEW last \in Nat, Rising(s, last)
    PROVE  /\ Rising(Tail(s), last) /\ \A id : Before(id, s, last) => Before(id, Tail(s), last)
           /\ Before(IdOf(Head(s)), Tail(s), last)
           /\ Head(s).kind = "job" => Told(Head(s), last)
<1> DEFINE t == Tail(s)
<1>1. /\ t \in Seq(Work) /\ Len(s) \in Nat /\ Len(t) \in Nat /\ Len(t) = Len(s) - 1
      /\ 1 \in 1..Len(s) /\ s[1] = Head(s) /\ Head(s) \in Work
      /\ \A i \in 1..Len(t) : i + 1 \in 1..Len(s) /\ t[i] = s[i + 1]
  BY Behead
<1> HIDE DEF t
<1>2. Rising(t, last)
  <2>1. ASSUME NEW i \in 1..Len(t), NEW k \in 1..Len(t), i < k, IdOf(t[k]) > 0 PROVE IdOf(t[i]) < IdOf(t[k])
    <3>1. i + 1 \in 1..Len(s) /\ k + 1 \in 1..Len(s) /\ i + 1 < k + 1 /\ t[i] = s[i + 1] /\ t[k] = s[k + 1]
      BY <1>1, <2>1
    <3> QED BY <2>1, <3>1 DEF Rising
  <2> QED BY <1>1, <2>1 DEF Rising
<1>3. ASSUME NEW id, Before(id, s, last) PROVE Before(id, t, last)
  BY <1>1, <1>3 DEF Before
<1>4. Head(s).kind = "job" => Told(Head(s), last)
  BY <1>1 DEF Rising
<1>5. Before(IdOf(Head(s)), t, last)
  <2>1. IdOf(Head(s)) <= last
    BY <1>4 DEF Told, IdOf, NoEvent
  <2>2. ASSUME NEW k \in 1..Len(t), IdOf(t[k]) > 0 PROVE IdOf(Head(s)) < IdOf(t[k])
    <3>1. k + 1 \in 1..Len(s) /\ 1 < k + 1 /\ t[k] = s[k + 1]
      BY <1>1
    <3> QED BY <1>1, <2>2, <3>1 DEF Rising
  <2> QED BY <2>1, <2>2 DEF Before
<1> QED BY <1>2, <1>3, <1>4, <1>5 DEF t

LEMMA RisingAppended ==
    ASSUME NEW s \in Seq(Work), NEW work \in Work, NEW last \in Nat, NEW next \in Nat, last <= next, Rising(s, last),
           IdOf(work) > 0 => IdOf(work) = next /\ last < next, work.kind = "job" => Told(work, next)
    PROVE  /\ Rising(Append(s, work), next)
           /\ \A id \in Nat : Before(id, s, last) => Before(id, Append(s, work), next)
<1> DEFINE t == Append(s, work)
<1>1. /\ Len(s) \in Nat /\ Len(t) = Len(s) + 1 /\ t[Len(s) + 1] = work /\ \A i \in 1..Len(s) : t[i] = s[i]
  OBVIOUS
<1> HIDE DEF t
<1>2. \A i \in 1..Len(s) : IdOf(s[i]) \in Nat
  BY IdType
<1>3. \A i \in 1..Len(s) : s[i].kind = "job" => IdOf(s[i]) <= last /\ Told(s[i], next)
  BY DEF Rising, Told, IdOf, NoEvent
<1>4. \A i \in 1..Len(s) : IdOf(s[i]) <= last
  BY <1>3 DEF IdOf
<1>5. \A i \in 1..Len(t) : i \in 1..Len(s) \/ i = Len(s) + 1
  BY <1>1
<1>6. Rising(t, next)
  <2>1. \A i \in 1..Len(t) : t[i].kind = "job" => Told(t[i], next)
    BY <1>1, <1>3, <1>5
  <2>2. ASSUME NEW i \in 1..Len(t), NEW k \in 1..Len(t), i < k, IdOf(t[k]) > 0 PROVE IdOf(t[i]) < IdOf(t[k])
    <3>1. i \in 1..Len(s) /\ t[i] = s[i]
      BY <1>1, <2>2
    <3>2. CASE k \in 1..Len(s)
      BY <1>1, <2>2, <3>1, <3>2 DEF Rising
    <3>3. CASE k = Len(s) + 1
      BY <1>1, <1>2, <1>4, <2>2, <3>1, <3>3
    <3> QED BY <1>5, <3>2, <3>3
  <2> QED BY <2>1, <2>2 DEF Rising
<1>7. ASSUME NEW id \in Nat, Before(id, s, last) PROVE Before(id, t, next)
  <2>1. id <= next
    BY <1>7 DEF Before
  <2>2. ASSUME NEW k \in 1..Len(t), IdOf(t[k]) > 0 PROVE id < IdOf(t[k])
    <3>1. CASE k \in 1..Len(s)
      BY <1>1, <1>7, <2>2, <3>1 DEF Before
    <3>2. CASE k = Len(s) + 1
      BY <1>1, <1>7, <2>2, <3>2 DEF Before
    <3> QED BY <1>5, <3>1, <3>2
  <2> QED BY <2>1, <2>2 DEF Before
<1> QED BY <1>6, <1>7 DEF t

LEMMA LastType ==
    ASSUME IInv
    PROVE  spent.changes \in Nat /\ spent.faults \in Nat /\ spent.changes \in 0..MaxChanges
BY PipelineAssumption DEF IInv, Spent

LEMMA EventIds ==
    ASSUME IInv, SinkType, NEW d \in Devices
    PROVE  /\ received[d] \in Nat /\ saved[d] \in Nat /\ effects[d] \in Seq(Event) /\ PostId \in Nat
           /\ \A i \in 1..Len(effects[d]) : effects[d][i] \in Event /\ effects[d][i].id \in Nat
<1>1. received[d] \in Nat /\ saved[d] \in Nat /\ effects[d] \in Seq(Event)
  BY DEF SinkType
<1>2. PostId \in Nat
  BY PostedJob DEF IInv, PostId, Job, Event
<1>3. \A i \in 1..Len(effects[d]) : effects[d][i] \in Event
  BY <1>1
<1>4. \A event \in Event : event.id \in Nat
  BY DEF Event
<1> QED BY <1>1, <1>2, <1>3, <1>4

(* The line moves, the sinks and the work being posted do not.             *)
LEMMA OrderKept ==
    ASSUME IInv, SinkType, Order, UNCHANGED <<effects, saved, received>>,
           Rising(Line', spent'.changes),
           \A id \in Nat : Before(id, Line, spent.changes) => Before(id, Line', spent'.changes),
           UNCHANGED writer \/ (writer.phase # "post" /\ writer'.phase # "post"),
           writer.phase = "post" => spent'.changes >= spent.changes,
           spent'.faults = 0 => spent.faults = 0, spent'.changes \in Nat,
           snapshot'.loaded => batch' = <<>>
    PROVE  SinkType' /\ Order'
<1>1. SinkType'
  BY DEF SinkType
<1>2. PostId' = PostId
  BY DEF PostId
<1>3. Rising(Line', spent'.changes) /\ Before(PostId, Line', spent'.changes)
  <2>1. PostId \in Nat
    BY PostedJob DEF IInv, PostId, Job, Event
  <2> QED BY <2>1 DEF Order
<1>4. writer'.phase = "post" => Told(writer'.job, spent'.changes)
  <2> SUFFICES ASSUME writer'.phase = "post" PROVE Told(writer'.job, spent'.changes)
    OBVIOUS
  <2>1. writer' = writer /\ spent'.changes >= spent.changes /\ Told(writer.job, spent.changes)
    BY DEF Order
  <2> QED BY <2>1, LastType DEF Told
<1>5. ASSUME NEW d \in Devices PROVE Chain(d)'
  <2>1. /\ received[d] \in Nat /\ \A i \in 1..Len(effects[d]) : effects[d][i].id \in Nat
    BY EventIds
  <2> QED BY <1>2, <2>1 DEF Order, Chain
<1>6. Committed'
  BY <1>2 DEF Order, Committed
<1> QED BY <1>1, <1>2, <1>3, <1>4, <1>5, <1>6 DEF Order

LEMMA LineStill ==
    ASSUME IInv, SinkType, Order, UNCHANGED <<Line, effects, saved, received>>, spent'.changes = spent.changes,
           UNCHANGED writer \/ (writer.phase # "post" /\ writer'.phase # "post"), spent'.faults = 0 => spent.faults = 0,
           snapshot'.loaded => batch' = <<>>
    PROVE  SinkType' /\ Order'
<1>1. Rising(Line', spent'.changes) /\ \A id : Before(id, Line, spent.changes) => Before(id, Line', spent'.changes)
  BY DEF Order
<1>2. spent'.changes \in Nat /\ spent'.changes >= spent.changes
  BY LastType
<1> QED BY <1>1, <1>2, OrderKept

LEMMA OrderRunner ==
    ASSUME OInv, Server \/ Health \/ SyncLoad \/ SyncApply \/ Submit \/ Release \/ ReleaseFails \/ UNCHANGED vars
    PROVE  SinkType' /\ Order'
<1> USE DEF OInv
<1>1. /\ UNCHANGED <<effects, saved, received>>
      /\ writer' = writer \/ (writer.phase = "release" /\ writer' = Idle)
  <2>1. CASE Server \/ Health
    BY <2>1 DEF Server, Health, Handoff, SwitchPingOff, SwitchPingOn, SensorWrite, SensorOffline, writerVars
  <2>2. CASE SyncLoad \/ SyncApply \/ Submit
    BY <2>2 DEF SyncLoad, SyncApply, Submit, writerVars
  <2>3. CASE Release \/ ReleaseFails
    BY <2>3 DEF Release, ReleaseFails
  <2>4. CASE UNCHANGED vars
    BY <2>4 DEF vars
  <2> QED BY <2>1, <2>2, <2>3, <2>4
<1>2. spent'.changes = spent.changes /\ (spent'.faults = 0 => spent.faults = 0)
  <2>1. UNCHANGED spent \/ Spend("handoffs") \/ Spend("writes") \/ Spend("faults")
    BY DEF Server, Health, Handoff, SwitchPingOff, SwitchPingOn, SensorWrite, SensorOffline, SyncLoad, SyncApply, Submit,
       Release, ReleaseFails, vars
  <2> QED BY <2>1, LastType DEF Spend, IInv, Spent
<1>3. UNCHANGED writer \/ (writer.phase # "post" /\ writer'.phase # "post")
  BY <1>1 DEF Idle
<1>4. InHand' = InHand
  BY <1>1 DEF InHand, Idle
<1>a. snapshot'.loaded => batch' = <<>>
  <2>1. CASE Server \/ Health \/ Release \/ ReleaseFails \/ UNCHANGED vars
    <3>1. UNCHANGED <<snapshot, batch>>
      BY <2>1 DEF Server, Health, Handoff, SwitchPingOff, SwitchPingOn, SensorWrite, SensorOffline, Release, ReleaseFails,
         engineVars, vars
    <3> QED BY <3>1 DEF Order
  <2>2. CASE SyncLoad \/ SyncApply \/ Submit
    BY <2>2 DEF SyncLoad, SyncApply, Submit
  <2> QED BY <2>1, <2>2
<1>5. CASE ~SyncApply
  <2>1. Line' = Line
    <3>1. CASE Submit
      <4>1. queue' = queue \o batch /\ batch' = <<>>
        BY <3>1 DEF Submit
      <4>2. InHand \o (queue \o batch) \o <<>> = InHand \o queue \o batch
        <5>1. ASSUME NEW a \in Seq(Work), NEW b \in Seq(Work), NEW c \in Seq(Work)
              PROVE  a \o (b \o c) = a \o b \o c /\ a \o b \in Seq(Work) /\ a \o <<>> = a
          BY ConcatAssociative
        <5> QED BY <5>1, LineType
      <4> QED BY <1>4, <4>1, <4>2 DEF Line, InHand
    <3>2. CASE ~Submit
      <4>1. queue' = queue /\ batch' = batch
        <5>1. CASE Server \/ Health
          BY <5>1 DEF Server, Health, Handoff, SwitchPingOff, SwitchPingOn, SensorWrite, SensorOffline, engineVars, writerVars
        <5>2. CASE SyncLoad \/ Release \/ ReleaseFails \/ UNCHANGED vars
          BY <5>2 DEF SyncLoad, Release, ReleaseFails, vars, engineVars, writerVars
        <5> QED BY <1>5, <3>2, <5>1, <5>2
      <4> QED BY <1>4, <4>1 DEF Line, InHand
    <3> QED BY <3>1, <3>2
  <2> QED BY <1>1, <1>2, <1>3, <1>a, <2>1, LineStill
<1>6. CASE SyncApply
  <2> DEFINE work == [kind |-> "release", ids |-> {d \in Devices : devices[d].present /\ ~snapshot.found[d].present}]
  <2>1. /\ UNCHANGED <<queue, writer>> /\ work \in Work
        /\ batch' = <<>> \/ batch' = <<work>>
    BY <1>6 DEF SyncApply, writerVars, Work, ReleaseWork
  <2>2. batch = <<>>
    BY <1>6 DEF SyncApply, Order
  <2>3. IdOf(work) = 0 /\ work.kind # "job"
    BY DEF IdOf
  <2> HIDE DEF work
  <2>4. CASE batch' = <<>>
    <3>1. Line' = Line
      BY <2>1, <2>2, <2>4 DEF Line
    <3> QED BY <1>1, <1>2, <1>3, <1>a, <3>1, LineStill
  <2>5. CASE batch' = <<work>>
    <3>1. batch' = Append(batch, work)
      BY <2>2, <2>5
    <3>2. Line' = Append(Line, work) /\ Line \in Seq(Work)
      BY <2>1, <3>1, LineAppended, LineType
    <3>3. Rising(Line', spent.changes) /\ \A id \in Nat : Before(id, Line, spent.changes) => Before(id, Line', spent.changes)
      BY <2>1, <2>3, <3>2, LastType, RisingAppended DEF Order
    <3> QED BY <1>1, <1>2, <1>3, <1>a, <3>3, LastType, OrderKept
  <2> QED BY <2>1, <2>4, <2>5
<1> QED BY <1>5, <1>6

LEMMA OrderStepDevice ==
    ASSUME OInv, NEW e \in Devices, StepDevice(e)
    PROVE  SinkType' /\ Order'
<1> USE DEF OInv
<1>1. PICK next \in CheckOutcomes(devices[e].state), due \in BOOLEAN :
        LET device == devices[e]
            changed == next.hard # device.state.hard
            writeState == PlanWrite(device, next, due)
            job == [kind |-> "job", dev |-> e, state |-> next, writeState |-> writeState,
                    event |-> EventOf(device, next, spent.changes + 1),
                    takeover |-> device.takeover, epoch |-> device.epoch, basis |-> device.basis]
        IN /\ changed => spent.changes < MaxChanges
           /\ devices' = [devices EXCEPT ![e].state = next, ![e].planned = @ \/ writeState]
           /\ batch' = Append(batch, job)
           /\ IF changed THEN Spend("changes") ELSE UNCHANGED spent
  BY DEF StepDevice
<1> DEFINE device == devices[e]
           writeState == PlanWrite(device, next, due)
           event == EventOf(device, next, spent.changes + 1)
           job == [kind |-> "job", dev |-> e, state |-> next, writeState |-> writeState, event |-> event,
                   takeover |-> device.takeover, epoch |-> device.epoch, basis |-> device.basis]
<1>2. /\ UNCHANGED <<snapshot, queue, writer, effects, saved, received>> /\ ~snapshot.loaded /\ batch' = Append(batch, job)
  BY <1>1 DEF StepDevice, writerVars
<1>3. device \in Device /\ next \in States /\ writeState \in BOOLEAN
  BY RowOf DEF CheckOutcomes, PlanWrite, Device
<1>4. /\ event \in Event
      /\ \/ event = NoEvent /\ spent' = spent
         \/ event.id = spent.changes + 1 /\ spent'.changes = spent.changes + 1 /\ spent'.faults = spent.faults
  <2>1. spent.changes \in Nat
    BY LastType
  <2>2. device.state.hard \in Statuses /\ next.hard \in Statuses /\ NoEvent \in Event
    BY <1>3, PipelineAssumption DEF Device, States, NoEvent, Event, Statuses
  <2>3. CASE next.hard = device.state.hard
    BY <1>1, <2>2, <2>3 DEF EventOf
  <2>4. CASE next.hard # device.state.hard
    <3>1. spent.changes + 1 \in 0..MaxChanges
      BY <1>1, <2>4, LastType, PipelineAssumption
    <3>2. event = [old |-> device.state.hard, new |-> next.hard, id |-> spent.changes + 1]
      BY <2>4 DEF EventOf
    <3>3. spent'.changes = spent.changes + 1 /\ spent'.faults = spent.faults
      BY <1>1, <2>4 DEF Spend, IInv, Spent
    <3> QED BY <2>2, <3>1, <3>2, <3>3 DEF Event
  <2> QED BY <2>3, <2>4
<1>5. job \in Work /\ job.kind = "job" /\ job.event = event
  BY <1>3, <1>4 DEF Work, Job, Device
<1> HIDE DEF device, writeState, event, job
<1>6. Line' = Append(Line, job) /\ Line \in Seq(Work)
  BY <1>2, <1>5, LineAppended, LineType
<1>7. /\ spent'.changes \in Nat /\ spent.changes \in Nat /\ spent.changes <= spent'.changes
      /\ (spent'.faults = 0 => spent.faults = 0)
  BY <1>4, LastType
<1>8. IdOf(job) > 0 => IdOf(job) = spent'.changes /\ spent.changes < spent'.changes
  BY <1>4, <1>5, <1>7 DEF IdOf, NoEvent
<1>9. Told(job, spent'.changes)
  BY <1>4, <1>5, <1>7 DEF Told
<1>10. /\ Rising(Line', spent'.changes)
       /\ \A id \in Nat : Before(id, Line, spent.changes) => Before(id, Line', spent'.changes)
  BY <1>5, <1>6, <1>7, <1>8, <1>9, RisingAppended DEF Order
<1> QED BY <1>2, <1>7, <1>10, OrderKept

LEMMA OrderTake == ASSUME OInv, Take PROVE SinkType' /\ Order'
<1> USE DEF OInv
<1>1. UNCHANGED <<engineVars, spent, effects, saved, received>> /\ queue # <<>> /\ queue' = Tail(queue) /\ writer.phase = "idle"
  BY DEF Take
<1>2. snapshot'.loaded => batch' = <<>>
  BY <1>1 DEF Order, engineVars
<1>3. /\ Line # <<>> /\ Head(Line) = Head(queue) /\ Tail(Line) = Tail(queue) \o batch /\ Line = queue \o batch
      /\ Line \in Seq(Work)
  BY <1>1, HeadOfQueue, LineIdle, LineType
<1>4. CASE writer' = [phase |-> "save", job |-> Head(queue)]
  <2>1. Line' = Line
    <3>1. Line' = <<Head(queue)>> \o Tail(queue) \o batch
      BY <1>1, <1>4 DEF Line, engineVars
    <3>2. queue = <<Head(queue)>> \o Tail(queue)
      BY <1>1, LineType
    <3> QED BY <1>3, <3>1, <3>2
  <2> QED BY <1>1, <1>2, <1>4, <2>1, LineStill
<1>5. CASE writer' = Idle \/ writer' = [phase |-> "release", ids |-> Head(queue).ids]
  <2>1. Line' = Tail(Line)
    <3>1. Line' = <<>> \o Tail(queue) \o batch
      BY <1>1, <1>5 DEF Line, Idle, engineVars
    <3>2. <<>> \o Tail(queue) = Tail(queue)
      BY <1>1, LineType
    <3> QED BY <1>3, <3>1, <3>2
  <2>2. Rising(Line', spent.changes) /\ \A id : Before(id, Line, spent.changes) => Before(id, Line', spent.changes)
    BY <1>3, <2>1, LastType, RisingBehind DEF Order
  <2>3. writer'.phase # "post"
    BY <1>5 DEF Idle
  <2> QED BY <1>1, <1>2, <2>2, <2>3, LastType, OrderKept
<1> QED BY <1>4, <1>5 DEF Take

(* A saved job leaves the line with the smallest id there is. *)
LEMMA OrderSave == ASSUME OInv, Save \/ SaveFails PROVE SinkType' /\ Order'
<1> USE DEF OInv
<1> DEFINE last == spent.changes
<1>0. writer.phase = "save"
  BY DEF Save, SaveFails
<1> PICK job \in Job : job = writer.job
  BY <1>0, SavingJob DEF IInv
<1>1. /\ UNCHANGED <<engineVars, queue, effects, received>> /\ writer'.phase = "post" /\ writer'.job = job
      /\ spent'.changes = last /\ spent.changes \in Nat /\ job.kind = "job" /\ job.dev \in Devices /\ job.event.id \in Nat
  <2>1. spent'.changes = last
    BY LastType DEF Save, SaveFails, Spend, IInv, Spent
  <2> QED BY <2>1, LastType DEF Save, SaveFails, Job, Event
<1>2. /\ Line # <<>> /\ Head(Line) = job /\ Line \in Seq(Work)
  BY <1>0, LineSaving, LineType
<1>3. Line' = Tail(Line)
  <2>1. Line' = <<>> \o queue \o batch
    BY <1>1 DEF Line, engineVars
  <2>2. <<>> \o queue = queue
    BY LineType
  <2> QED BY <1>0, <2>1, <2>2, LineSaving
<1>4. /\ Rising(Line', last) /\ \A id : Before(id, Line, last) => Before(id, Line', last)
      /\ Before(IdOf(job), Line', last) /\ Told(job, last)
  BY <1>1, <1>2, <1>3, RisingBehind DEF Order
<1>5. PostId' = IdOf(job) /\ PostId' = job.event.id /\ PostId = 0
  BY <1>0, <1>1 DEF PostId, IdOf
<1>6. /\ saved' \in [Devices -> Nat] /\ \A d \in Devices : saved[d] <= saved'[d]
      /\ writer'.result = "saved" => job.event.id <= saved'[job.dev]
  <2>1. saved \in [Devices -> Nat]
    BY DEF SinkType
  <2>2. CASE Save /\ SaveResult(job) = "saved"
    <3>1. saved' = [saved EXCEPT ![job.dev] = Most(@, job.event.id)]
      BY <2>2 DEF Save
    <3> QED BY <1>1, <2>1, <3>1 DEF Most
  <2>3. CASE ~(Save /\ SaveResult(job) = "saved")
    <3>1. saved' = saved /\ writer'.result # "saved"
      BY <2>3 DEF Save, SaveFails
    <3> QED BY <2>1, <3>1
  <2> QED BY <2>2, <2>3
<1>7. SinkType'
  BY <1>1, <1>6 DEF SinkType
<1>8. ASSUME NEW id \in Nat, Before(id, Line, last) PROVE Before(id, Line', last) /\ (PostId' > 0 => id < PostId')
  <2>1. 1 \in 1..Len(Line) /\ Line[1] = job
    BY <1>0, LineSaving
  <2> QED BY <1>4, <1>5, <1>8, <2>1 DEF Before
<1>9. ASSUME NEW d \in Devices PROVE Chain(d)'
  <2>1. received[d] \in Nat /\ \A i \in 1..Len(effects[d]) : effects[d][i].id \in Nat
    BY EventIds
  <2> QED BY <1>1, <1>8, <2>1 DEF Order, Chain
<1>10. Committed'
  <2> SUFFICES ASSUME spent'.faults = 0
               PROVE  /\ writer'.result # "error"
                      /\ writer'.result = "saved" => PostId' <= saved'[writer'.job.dev]
                      /\ \A d \in Devices : received[d] <= saved'[d] /\ \A i \in 1..Len(effects[d]) : effects[d][i].id <= saved'[d]
    BY <1>1 DEF Committed
  <2>1. spent.faults = 0 /\ Save
    BY LastType DEF SaveFails, Spend, IInv, Spent, Save
  <2>2. writer'.result # "error"
    BY <2>1 DEF Save, SaveResult
  <2>3. ASSUME NEW d \in Devices PROVE received[d] <= saved'[d] /\ \A i \in 1..Len(effects[d]) : effects[d][i].id <= saved'[d]
    <3>1. received[d] <= saved[d] /\ \A i \in 1..Len(effects[d]) : effects[d][i].id <= saved[d]
      BY <2>1 DEF Order, Committed
    <3>2. saved[d] \in Nat /\ saved'[d] \in Nat /\ saved[d] <= saved'[d]
      BY <1>6 DEF SinkType
    <3> QED BY <3>1, <3>2, EventIds
  <2> QED BY <1>1, <1>5, <1>6, <2>2, <2>3
<1>11. snapshot'.loaded => batch' = <<>>
  BY <1>1 DEF Order, engineVars
<1> QED BY <1>1, <1>4, <1>5, <1>7, <1>9, <1>10, <1>11 DEF Order

(* The event of a posted job joins its device's sink, behind the others.   *)
LEMMA OrderPost == ASSUME OInv, Post PROVE SinkType' /\ Order'
<1> USE DEF OInv
<1>0. writer.phase = "post"
  BY DEF Post
<1> PICK job \in Job : job = writer.job
  BY <1>0, PostedJob DEF IInv
<1> PICK at \in Devices : at = job.dev
  BY DEF Job
<1>1. /\ UNCHANGED <<db, snapshot, batch, queue, saved, received, spent>> /\ writer' = Idle
      /\ effects' = IF Delivers /\ job.event # NoEvent THEN [effects EXCEPT ![at] = Append(@, job.event)] ELSE effects
  BY DEF Post
<1>2. Line' = Line /\ PostId' = 0 /\ PostId = job.event.id /\ job.event \in Event /\ job.event.id \in Nat
  BY <1>0, <1>1 DEF Line, Idle, PostId, Job, Event
<1>3. SinkType'
  BY <1>1, <1>2 DEF SinkType
<1>4. \A d \in Devices : d # at => effects'[d] = effects[d]
  BY <1>1 DEF SinkType
<1>5. Before(PostId', Line', spent'.changes)
  <2>1. \A i \in 1..Len(Line) : IdOf(Line[i]) \in Nat
    BY LineType, IdType
  <2> QED BY <1>1, <1>2, <2>1, LastType DEF Before
<1>6. ASSUME NEW d \in Devices, effects'[d] = effects[d] PROVE Chain(d)'
  <2>1. Chain(d)
    BY DEF Order
  <2>2. Line' = Line /\ received' = received /\ spent' = spent /\ ~(PostId' > 0)
    BY <1>1, <1>2
  <2> QED BY <1>6, <2>1, <2>2 DEF Chain
<1>7. ASSUME effects'[at] # effects[at] PROVE Chain(at)'
  <2> DEFINE old == effects[at]
             new == effects'[at]
  <2>1. new = Append(old, job.event) /\ Delivers /\ job.event # NoEvent /\ old \in Seq(Event)
    BY <1>1, <1>7 DEF SinkType
  <2>2. /\ Len(old) \in Nat /\ Len(new) = Len(old) + 1 /\ new[Len(old) + 1] = job.event /\ \A i \in 1..Len(old) : new[i] = old[i]
    BY <1>2, <2>1
  <2>3. \A i \in 1..Len(new) : i \in 1..Len(old) \/ i = Len(old) + 1
    BY <2>2
  <2>4. PostId > 0
    BY <1>0, <1>2, <2>1 DEF Order, Told
  <2>5. /\ received[at] < PostId /\ Before(PostId, Line, spent.changes) /\ Before(received[at], Line, spent.changes)
        /\ \A i \in 1..Len(old) : received[at] < old[i].id /\ Before(old[i].id, Line, spent.changes) /\ old[i].id < PostId
        /\ \A i, k \in 1..Len(old) : i < k => old[i].id < old[k].id
    BY <2>4 DEF Order, Chain
  <2> HIDE DEF old, new
  <2>6. ASSUME NEW i \in 1..Len(new) PROVE received[at] < new[i].id /\ Before(new[i].id, Line, spent.changes)
    BY <1>2, <2>2, <2>3, <2>5
  <2>7. ASSUME NEW i \in 1..Len(new), NEW k \in 1..Len(new), i < k PROVE new[i].id < new[k].id
    <3>1. i \in 1..Len(old)
      BY <2>2, <2>7
    <3> QED BY <1>2, <2>2, <2>3, <2>5, <2>7, <3>1
  <2>8. Line' = Line /\ received' = received /\ spent' = spent /\ ~(PostId' > 0)
    BY <1>1, <1>2
  <2> QED BY <2>5, <2>6, <2>7, <2>8 DEF Chain, new
<1>8. Committed'
  <2> SUFFICES ASSUME spent.faults = 0
               PROVE  \A d \in Devices : received[d] <= saved[d] /\ \A i \in 1..Len(effects'[d]) : effects'[d][i].id <= saved[d]
    BY <1>1 DEF Committed, Idle
  <2>1. /\ writer.result # "error"
        /\ writer.result = "saved" => PostId <= saved[at]
        /\ \A d \in Devices : received[d] <= saved[d] /\ \A i \in 1..Len(effects[d]) : effects[d][i].id <= saved[d]
    BY <1>0 DEF Order, Committed
  <2>2. ASSUME NEW d \in Devices, NEW i \in 1..Len(effects'[d]) PROVE effects'[d][i].id <= saved[d]
    <3>1. CASE effects'[d] = effects[d]
      BY <2>1, <3>1
    <3>2. CASE effects'[d] # effects[d]
      <4>1. d = at /\ effects'[at] = Append(effects[at], job.event) /\ Delivers /\ effects[at] \in Seq(Event)
        BY <1>1, <1>4, <3>2 DEF SinkType
      <4>2. (i \in 1..Len(effects[at]) /\ effects'[at][i] = effects[at][i]) \/ effects'[at][i] = job.event
        BY <1>2, <4>1
      <4>3. writer.result = "saved"
        BY <2>1, <4>1 DEF Delivers
      <4> QED BY <1>2, <2>1, <4>1, <4>2, <4>3
    <3> QED BY <3>1, <3>2
  <2> QED BY <2>1, <2>2
<1>9. writer'.phase # "post" /\ (snapshot'.loaded => batch' = <<>>) /\ Rising(Line', spent'.changes)
  BY <1>1, <1>2 DEF Order, Idle
<1> QED BY <1>3, <1>4, <1>5, <1>6, <1>7, <1>8, <1>9 DEF Order

(* The sink takes the oldest event. *)
LEMMA OrderDeliver ==
    ASSUME OInv, NEW e \in Devices, Deliver(e) \/ DeliverFails(e)
    PROVE  /\ SinkType' /\ Order'
           /\ spent.faults = 0 => \A d \in Devices : received'[d] # received[d] =>
                received[d] < received'[d] /\ received'[d] <= saved[d]
<1> USE DEF OInv
<1> DEFINE old == effects[e]
           new == effects'[e]
<1>1. /\ dbVars' = dbVars /\ engineVars' = engineVars /\ queue' = queue /\ writer' = writer /\ saved' = saved
      /\ effects' = [effects EXCEPT ![e] = Tail(@)] /\ old # <<>>
      /\ received' = received \/ received' = [received EXCEPT ![e] = Head(old).id]
  BY DEF Deliver, DeliverFails
<1>2. /\ spent'.changes = spent.changes /\ spent.changes \in Nat /\ (spent'.faults = 0 => spent.faults = 0)
  BY LastType DEF Deliver, DeliverFails, Spend, IInv, Spent
<1>3. Line' = Line /\ PostId' = PostId /\ snapshot' = snapshot /\ batch' = batch
  <2>1. queue' = queue /\ batch' = batch /\ snapshot' = snapshot
    BY <1>1 DEF engineVars
  <2> QED BY <1>1, <2>1 DEF Line, PostId
<1>4. /\ old \in Seq(Event) /\ new = Tail(old) /\ Head(old) \in Event /\ Head(old).id \in Nat
      /\ new \in Seq(Event) /\ Len(old) \in Nat /\ Len(new) = Len(old) - 1 /\ 1 \in 1..Len(old) /\ old[1] = Head(old)
      /\ \A i \in 1..Len(new) : i + 1 \in 1..Len(old) /\ new[i] = old[i + 1]
  <2>1. old \in Seq(Event) /\ new = Tail(old)
    BY <1>1 DEF SinkType
  <2>2. Tail(old) \in Seq(Event) /\ Len(Tail(old)) = Len(old) - 1 /\ \A i \in 1..Len(Tail(old)) : Tail(old)[i] = old[i + 1]
    BY <1>1, <2>1, HeadTailProperties
  <2>3. Len(old) \in Nat \ {0} /\ Len(Tail(old)) \in Nat /\ old[1] = Head(old) /\ Head(old) \in Event
    BY <1>1, <2>1, <2>2, EmptySeq, HeadTailProperties
  <2>4. \A event \in Event : event.id \in Nat
    BY DEF Event
  <2> HIDE DEF old, new
  <2> QED BY <2>1, <2>2, <2>3, <2>4
<1>5. SinkType'
  BY <1>1, <1>4 DEF SinkType
<1>6. \A d \in Devices : d # e => effects'[d] = effects[d] /\ received'[d] = received[d]
  BY <1>1 DEF SinkType
<1>7. received'[e] = received[e] \/ received'[e] = Head(old).id
  BY <1>1 DEF SinkType
<1>8. Chain(e)
  BY DEF Order
<1> HIDE DEF old, new
<1>9. ASSUME NEW d \in Devices, d # e PROVE Chain(d)'
  BY <1>2, <1>3, <1>6, <1>9 DEF Order, Chain
<1>10. /\ received[e] < Head(old).id /\ Before(Head(old).id, Line, spent.changes)
       /\ PostId > 0 => Head(old).id < PostId
       /\ \A i \in 1..Len(new) : /\ Head(old).id < new[i].id /\ received[e] < new[i].id
                                 /\ Before(new[i].id, Line, spent.changes) /\ (PostId > 0 => new[i].id < PostId)
       /\ \A i, k \in 1..Len(new) : i < k => new[i].id < new[k].id
  <2>1. /\ \A i \in 1..Len(old) :
             /\ received[e] < old[i].id /\ Before(old[i].id, Line, spent.changes)
             /\ PostId > 0 => old[i].id < PostId
        /\ \A i, k \in 1..Len(old) : i < k => old[i].id < old[k].id
    BY <1>8 DEF Chain, old
  <2>2. ASSUME NEW i \in 1..Len(new) PROVE Head(old).id < new[i].id
    <3>1. i + 1 \in 1..Len(old) /\ 1 < i + 1 /\ new[i] = old[i + 1]
      BY <1>4
    <3> QED BY <1>4, <2>1, <3>1
  <2>3. ASSUME NEW i \in 1..Len(new), NEW k \in 1..Len(new), i < k PROVE new[i].id < new[k].id
    <3>1. i + 1 \in 1..Len(old) /\ k + 1 \in 1..Len(old) /\ i + 1 < k + 1 /\ new[i] = old[i + 1] /\ new[k] = old[k + 1]
      BY <1>4, <2>3
    <3> QED BY <2>1, <3>1
  <2> QED BY <1>4, <2>1, <2>2, <2>3
<1>11. Chain(e)'
  <2>1. Before(received'[e], Line, spent.changes) /\ (PostId > 0 => received'[e] < PostId)
    BY <1>7, <1>8, <1>10 DEF Chain
  <2>2. \A i \in 1..Len(new) : received'[e] < new[i].id
    BY <1>7, <1>10
  <2> QED BY <1>2, <1>3, <1>10, <2>1, <2>2 DEF Chain, new
<1>12. spent.faults = 0 => Head(old).id <= saved[e]
  BY <1>4 DEF Order, Committed, old
<1>13. Committed'
  <2> SUFFICES ASSUME spent.faults = 0
               PROVE  \A d \in Devices : received'[d] <= saved[d] /\ \A i \in 1..Len(effects'[d]) : effects'[d][i].id <= saved[d]
    BY <1>1, <1>2, <1>3 DEF Order, Committed
  <2>1. \A d \in Devices : received[d] <= saved[d] /\ \A i \in 1..Len(effects[d]) : effects[d][i].id <= saved[d]
    BY DEF Order, Committed
  <2>2. received'[e] <= saved[e] /\ \A i \in 1..Len(effects'[e]) : effects'[e][i].id <= saved[e]
    BY <1>4, <1>7, <1>12, <2>1 DEF old, new
  <2> QED BY <1>6, <2>1, <2>2
<1>14. Order'
  <2>1. /\ snapshot'.loaded => batch' = <<>>
        /\ Rising(Line', spent'.changes) /\ Before(PostId', Line', spent'.changes)
        /\ writer'.phase = "post" => Told(writer'.job, spent'.changes)
    BY <1>1, <1>2, <1>3 DEF Order
  <2> QED BY <1>9, <1>11, <1>13, <2>1 DEF Order
<1> QED BY <1>5, <1>6, <1>7, <1>10, <1>12, <1>14

LEMMA OrderCrash == ASSUME OInv, Crash PROVE SinkType' /\ Order'
<1> USE DEF OInv
<1>1. /\ UNCHANGED <<saved, received>> /\ effects' = [d \in Devices |-> <<>>] /\ writer' = Idle
      /\ snapshot' = [loaded |-> FALSE] /\ queue' = <<>> /\ batch' = <<>>
      /\ spent'.changes = spent.changes /\ spent'.faults = spent.faults /\ spent.changes \in Nat
  BY LastType DEF Crash, Spend, IInv, Spent
<1>2. Line' = <<>> /\ PostId' = 0
  BY <1>1, ConcatEmptySeq DEF Line, Idle, PostId
<1>3. SinkType'
  BY <1>1 DEF SinkType
<1>4. ASSUME NEW d \in Devices PROVE Chain(d)'
  <2>1. effects'[d] = <<>> /\ received[d] <= spent.changes
    BY <1>1 DEF Order, Chain, Before
  <2> QED BY <1>1, <1>2, <2>1 DEF Chain, Before
<1>5. Committed'
  <2>1. \A d \in Devices : effects'[d] = <<>>
    BY <1>1
  <2> QED BY <1>1, <2>1 DEF Order, Committed, Idle
<1>6. Rising(Line', spent'.changes) /\ Before(PostId', Line', spent'.changes) /\ writer'.phase # "post" /\ ~snapshot'.loaded
  BY <1>1, <1>2 DEF Rising, Before, Idle
<1> QED BY <1>3, <1>4, <1>5, <1>6 DEF Order

LEMMA OrderInit == Init => OInv
<1> SUFFICES ASSUME Init PROVE OInv
  OBVIOUS
<1>1. IInv
  BY InitIInv
<1>2. Line = <<>> /\ PostId = 0 /\ spent.changes = 0
  BY DEF Init, Line, Idle, PostId
<1>3. SinkType
  BY DEF Init, SinkType
<1>4. Order
  BY <1>2 DEF Init, Order, Chain, Committed, Rising, Before, Idle
<1> QED BY <1>1, <1>3, <1>4 DEF OInv

LEMMA OrderStep ==
    OInv /\ [Next]_vars =>
      /\ OInv'
      /\ [\A d \in Devices : spent.faults = 0 /\ received'[d] # received[d] =>
            received[d] < received'[d] /\ received'[d] <= saved[d]]_vars
<1> SUFFICES ASSUME OInv, [Next]_vars
             PROVE  /\ OInv'
                    /\ \A d \in Devices : spent.faults = 0 /\ received'[d] # received[d] =>
                         received[d] < received'[d] /\ received'[d] <= saved[d]
  OBVIOUS
<1>0. IInv'
  BY StepKeepsIInv DEF OInv
<1> SUFFICES /\ SinkType' /\ Order'
             /\ received' = received \/ \E d \in Devices : Deliver(d)
  BY <1>0, OrderDeliver DEF OInv
<1>1. CASE Server \/ Health \/ SyncLoad \/ SyncApply \/ Submit \/ Release \/ ReleaseFails \/ UNCHANGED vars
  <2>1. received' = received
    <3>1. CASE Server \/ Health
      BY <3>1 DEF Server, Health, Handoff, SwitchPingOff, SwitchPingOn, SensorWrite, SensorOffline, writerVars
    <3>2. CASE ~Server /\ ~Health
      BY <1>1, <3>2 DEF SyncLoad, SyncApply, Submit, Release, ReleaseFails, writerVars, vars
    <3> QED BY <3>1, <3>2
  <2> QED BY <1>1, <2>1, OrderRunner
<1>2. CASE Take
  BY <1>2, OrderTake DEF Take
<1>3. CASE Save \/ SaveFails
  BY <1>3, OrderSave DEF Save, SaveFails
<1>4. CASE Post
  BY <1>4, OrderPost DEF Post
<1>5. CASE Crash
  BY <1>5, OrderCrash DEF Crash
<1>6. ASSUME NEW d \in Devices, StepDevice(d) PROVE SinkType' /\ Order' /\ received' = received
  <2>1. received' = received
    BY <1>6 DEF StepDevice, writerVars
  <2> QED BY <1>6, <2>1, OrderStepDevice
<1>7. ASSUME NEW d \in Devices, Deliver(d) \/ DeliverFails(d)
      PROVE  SinkType' /\ Order' /\ (received' = received \/ Deliver(d))
  <2>1. DeliverFails(d) => received' = received
    BY DEF DeliverFails
  <2> QED BY <1>7, <2>1, OrderDeliver
<1> QED BY <1>1, <1>2, <1>3, <1>4, <1>5, <1>6, <1>7 DEF Next, Runner, Writer

(* For every pattern of ownership: until a save fails, each event a sink   *)
(* receives is newer than the last and its change was committed before.    *)
THEOREM SinksFollowSaves == Spec => AlertsFollowSaves
BY OrderInit, OrderStep, PTL DEF Spec, AlertsFollowSaves
-----------------------------------------------------------------------------
(***************************************************************************)
(* While no sensor owns a device twice, no save replaces an unseen row.    *)
(***************************************************************************)

(* A state that may replace the row of sensor t was built when t's turn    *)
(* was over: t does not write again, so its row is the one that was seen.  *)
Took(d, t, basis) ==
    t \in Sensors =>
      /\ t \in served[d] /\ db[d].owner # t
      /\ db[d].row.owner = t => basis[1] = stamps[d][1]

AllTook(s) == \A i \in 1..Len(s) : s[i].kind = "job" => Took(s[i].dev, s[i].takeover, s[i].basis)
HandTook ==
    /\ writer.phase \in {"save", "post"} => Took(writer.job.dev, writer.job.takeover, writer.job.basis)
    /\ writer.phase = "post" /\ writer.result = "foreign" => Took(writer.job.dev, writer.owner, writer.basis)
ServedType ==
    /\ served \in [Devices -> SUBSET Sensors]
    /\ \A d \in Devices : \A s \in Sensors : db[d].owner = s \/ db[d].row.owner = s => s \in served[d]

Seen ==
    /\ ServedType /\ AllTook(queue) /\ AllTook(batch) /\ HandTook
    /\ \A d \in Devices :
         /\ Took(d, devices[d].takeover, devices[d].basis)
         /\ snapshot.loaded => Took(d, snapshot.found[d].takeover, snapshot.found[d].basis)

TInv == IInv /\ Seen

LEMMA AbsentTook == ASSUME NEW d PROVE Took(d, Absent.takeover, Absent.basis)
BY PipelineAssumption DEF Took, Absent

(* The rows move so that what was seen stays seen. *)
RowsAge ==
    \A d \in Devices : \A t \in Sensors :
      t \in served[d] /\ db[d].owner # t =>
        /\ t \in served'[d] /\ db'[d].owner # t
        /\ db'[d].row.owner = t => db[d].row.owner = t /\ stamps'[d][1] = stamps[d][1]

LEMMA TookAges ==
    ASSUME RowsAge, NEW d \in Devices, NEW t, NEW basis, Took(d, t, basis)
    PROVE  t \in Sensors =>
             /\ t \in served'[d] /\ db'[d].owner # t
             /\ db'[d].row.owner = t => basis[1] = stamps'[d][1]
BY DEF RowsAge, Took

LEMMA SeenServer ==
    ASSUME TInv, Returns # "any", Server \/ Health
    PROVE  RowsAge /\ ServedType'
<1> USE DEF TInv
<1>0. /\ db \in [Devices -> DbRow] /\ stamps \in [Devices -> Nat \X Nat] /\ served \in [Devices -> SUBSET Sensors]
      /\ Central \notin Sensors /\ NoRow.owner \notin Sensors
      /\ \A d \in Devices : \A s \in Sensors : db[d].owner = s \/ db[d].row.owner = s => s \in served[d]
  BY PipelineAssumption DEF IInv, DbType, Seen, ServedType, NoRow
<1> DEFINE Ages(d) == \A t \in Sensors : t \in served[d] /\ db[d].owner # t =>
                        /\ t \in served'[d] /\ db'[d].owner # t
                        /\ db'[d].row.owner = t => db[d].row.owner = t /\ stamps'[d][1] = stamps[d][1]
           Serves(d) == \A s \in Sensors : db'[d].owner = s \/ db'[d].row.owner = s => s \in served'[d]
           Typed == served' \in [Devices -> SUBSET Sensors]
<1> SUFFICES Typed /\ \A d \in Devices : Ages(d) /\ Serves(d)
  BY DEF RowsAge, ServedType
<1>1. ASSUME NEW e \in Devices, NEW o \in Owners, Handoff(e, o) PROVE Typed /\ \A d \in Devices : Ages(d) /\ Serves(d)
  <2>1. o \notin served[e] /\ stamps' = stamps /\ served' = [served EXCEPT ![e] = @ \cup (Sensors \cap {o})]
        /\ db' = [db EXCEPT ![e].owner = o]
    BY <1>1 DEF Handoff
  <2>2. ASSUME NEW d \in Devices
        PROVE  /\ db'[d].row = db[d].row /\ (d # e => db'[d].owner = db[d].owner /\ served'[d] = served[d])
               /\ d = e => db'[d].owner = o /\ served'[d] = served[d] \cup (Sensors \cap {o})
    BY <1>0, <2>1 DEF DbRow
  <2>3. ASSUME NEW d \in Devices PROVE Ages(d) /\ Serves(d)
    BY <1>0, <2>1, <2>2
  <2>4. Typed
    BY <1>0, <2>1
  <2> QED BY <2>3, <2>4
<1>2. ASSUME NEW e \in Devices, SwitchPingOff(e) PROVE Typed /\ \A d \in Devices : Ages(d) /\ Serves(d)
  <2>1. served' = served /\ db' = [db EXCEPT ![e].ping = FALSE, ![e].row = NoRow, ![e].episode = FALSE, ![e].mirror = FALSE]
        /\ stamps' = [stamps EXCEPT ![e][2] = @ + 1]
    BY <1>2 DEF SwitchPingOff
  <2>2. ASSUME NEW d \in Devices
        PROVE  /\ db'[d].owner = db[d].owner /\ stamps'[d][1] = stamps[d][1]
               /\ db'[d].row = db[d].row \/ db'[d].row = NoRow
    BY <1>0, <2>1 DEF DbRow
  <2> QED BY <1>0, <2>1, <2>2
<1>3. ASSUME NEW e \in Devices, SwitchPingOn(e) PROVE Typed /\ \A d \in Devices : Ages(d) /\ Serves(d)
  <2>1. served' = served /\ stamps' = stamps /\ db' = [db EXCEPT ![e].ping = TRUE]
    BY <1>3 DEF SwitchPingOn
  <2>2. \A d \in Devices : db'[d].owner = db[d].owner /\ db'[d].row = db[d].row
    BY <1>0, <2>1 DEF DbRow
  <2> QED BY <1>0, <2>1, <2>2
<1>4. ASSUME NEW e \in Devices, NEW s \in Sensors, SensorWrite(s, e) PROVE Typed /\ \A d \in Devices : Ages(d) /\ Serves(d)
  <2>1. \E next \in States :
          db' = [db EXCEPT ![e] = [@ EXCEPT
                   !.status = next.hard, !.mirror = next.flap, !.episode = next.flap,
                   !.row = [owner |-> s, hard |-> next.hard, flap |-> next.flap]]]
    BY <1>4 DEF SensorWrite, CheckOutcomes
  <2>2. db'[e].owner = s /\ db[e].owner = s /\ db'[e].row.owner = s /\ \A x \in Devices \ {e} : db'[x] = db[x]
    BY <1>0, <1>4, <2>1 DEF SensorWrite, DbRow
  <2>3. served' = served /\ \A x \in Devices \ {e} : stamps'[x] = stamps[x]
    BY <1>0, <1>4 DEF SensorWrite
  <2>4. ASSUME NEW d \in Devices PROVE Ages(d) /\ Serves(d)
    <3>1. CASE d = e
      BY <1>0, <2>2, <2>3, <3>1
    <3>2. CASE d # e
      BY <1>0, <2>2, <2>3, <3>2
    <3> QED BY <3>1, <3>2
  <2> QED BY <1>0, <2>3, <2>4
<1>5. ASSUME NEW s \in Sensors, SensorOffline(s) PROVE Typed /\ \A d \in Devices : Ages(d) /\ Serves(d)
  <2>1. served' = served
    BY <1>5 DEF SensorOffline
  <2>2. ASSUME NEW d \in Devices
        PROVE  /\ db'[d].owner = db[d].owner /\ stamps'[d][1] = stamps[d][1]
               /\ db'[d].row = db[d].row \/ db'[d].row = NoRow
    <3>1. db[d] \in DbRow /\ stamps[d] \in Nat \X Nat
      BY <1>0
    <3>2. /\ db'[d] = IF db[d].owner = s
                      THEN [db[d] EXCEPT !.status = "unknown", !.mirror = FALSE, !.row = NoRow, !.episode = FALSE]
                      ELSE db[d]
          /\ stamps'[d] = IF db[d].owner = s THEN [stamps[d] EXCEPT ![2] = @ + 1] ELSE stamps[d]
      BY <1>5 DEF SensorOffline
    <3>3. stamps'[d][1] = stamps[d][1]
      BY <3>1, <3>2
    <3> QED BY <3>1, <3>2, <3>3 DEF DbRow
  <2> QED BY <1>0, <2>1, <2>2
<1> HIDE DEF Ages, Serves, Typed
<1> QED BY <1>1, <1>2, <1>3, <1>4, <1>5 DEF Server, Health

LEMMA SeenWriter ==
    ASSUME TInv, UNCHANGED served,
           \A d \in Devices : \/ db'[d] = db[d] /\ stamps'[d] = stamps[d]
                              \/ /\ db'[d].owner = db[d].owner /\ stamps'[d][1] = stamps[d][1]
                                 /\ db'[d].row = db[d].row \/ db'[d].row.owner \notin Sensors
    PROVE  RowsAge /\ ServedType'
BY DEF TInv, Seen, ServedType, RowsAge

(* A step that only moves work about, and ages the rows.                   *)
LEMMA SeenMoves ==
    ASSUME TInv, RowsAge, ServedType', UNCHANGED <<devices, snapshot, batch, queue, writer>>
    PROVE  Seen'
<1> USE DEF TInv
<1>1. ASSUME NEW d \in Devices
      PROVE  /\ Took(d, devices[d].takeover, devices[d].basis)'
             /\ snapshot.loaded => Took(d, snapshot.found[d].takeover, snapshot.found[d].basis)'
  BY TookAges DEF Seen, Took
<1>2. ASSUME NEW s \in Seq(Work), AllTook(s)
      PROVE  \A i \in 1..Len(s) : s[i].kind = "job" => Took(s[i].dev, s[i].takeover, s[i].basis)'
  <2> SUFFICES ASSUME NEW i \in 1..Len(s), s[i].kind = "job" PROVE Took(s[i].dev, s[i].takeover, s[i].basis)'
    OBVIOUS
  <2>1. s[i].dev \in Devices
    <3>1. s[i] \in Work
      BY ElementOfSeq
    <3> QED BY <3>1 DEF Work, Job, ReleaseWork
  <2> QED BY <1>2, <2>1, TookAges DEF AllTook, Took
<1>3. AllTook(queue)' /\ AllTook(batch)'
  BY <1>2, LineType DEF Seen, AllTook
<1>4. HandTook'
  <2>1. writer.phase \in {"save", "post"} => writer.job.dev \in Devices
    BY SavingJob, PostedJob DEF IInv, Job
  <2> QED BY <2>1, TookAges DEF Seen, HandTook, Took
<1> QED BY <1>1, <1>3, <1>4 DEF Seen

LEMMA SeenQuiet ==
    ASSUME TInv, UNCHANGED <<db, stamps, served>>
    PROVE  RowsAge /\ ServedType' /\ \A d, t, basis : Took(d, t, basis)' <=> Took(d, t, basis)
BY DEF TInv, Seen, ServedType, RowsAge, Took

LEMMA SeenLoad == ASSUME TInv, SyncLoad PROVE Seen'
<1> USE DEF TInv
<1>1. UNCHANGED <<db, stamps, served, devices, batch, queue, writer>>
      /\ snapshot'.found = [d \in Devices |-> IF Polled(d) THEN InitDevice(d) ELSE Absent]
  BY DEF SyncLoad, dbVars, writerVars
<1>2. ServedType' /\ \A d, t, basis : Took(d, t, basis)' <=> Took(d, t, basis)
  BY <1>1, SeenQuiet
<1>3. AllTook(queue)' /\ AllTook(batch)' /\ HandTook' /\ \A d \in Devices : Took(d, devices[d].takeover, devices[d].basis)'
  BY <1>1, <1>2 DEF Seen, AllTook, HandTook
<1>4. ASSUME NEW d \in Devices PROVE Took(d, snapshot'.found[d].takeover, snapshot'.found[d].basis)
  <2>1. CASE Polled(d)
    <3>1. InitDevice(d).takeover = (IF db[d].row.owner = Central THEN NoOwner ELSE db[d].row.owner)
          /\ InitDevice(d).basis = stamps[d]
      BY DEF InitDevice
    <3>2. db[d].owner = Central /\ Central \notin Sensors /\ NoOwner \notin Sensors
      BY <2>1, PipelineAssumption DEF Polled
    <3>3. db[d].row.owner \in Sensors => db[d].row.owner \in served[d]
      BY DEF Seen, ServedType
    <3> QED BY <1>1, <2>1, <3>1, <3>2, <3>3 DEF Took
  <2>2. CASE ~Polled(d)
    BY <1>1, <2>2, AbsentTook
  <2> QED BY <2>1, <2>2
<1>5. \A d \in Devices : Took(d, snapshot.found[d].takeover, snapshot.found[d].basis)'
  BY <1>2, <1>4
<1> QED BY <1>2, <1>3, <1>5 DEF Seen

LEMMA SeenApply == ASSUME TInv, SyncApply PROVE Seen'
<1> USE DEF TInv
<1>1. UNCHANGED <<db, stamps, served, queue, writer>> /\ ~snapshot'.loaded /\ snapshot.loaded
  BY DEF SyncApply, dbVars, writerVars
<1>2. ServedType' /\ \A d, t, basis : Took(d, t, basis)' <=> Took(d, t, basis)
  BY <1>1, SeenQuiet
<1>3. AllTook(queue)' /\ HandTook'
  BY <1>1, <1>2 DEF Seen, AllTook, HandTook
<1>4. AllTook(batch)'
  <2> DEFINE work == [kind |-> "release", ids |-> {d \in Devices : devices[d].present /\ ~snapshot.found[d].present}]
  <2>1. work.kind # "job" /\ (batch' = <<>> \/ batch' = <<work>>)
    BY DEF SyncApply
  <2> HIDE DEF work
  <2> QED BY <2>1 DEF AllTook
<1>5. ASSUME NEW d \in Devices PROVE Took(d, devices'[d].takeover, devices'[d].basis)
  <2> DEFINE loaded == snapshot.found[d]
  <2>0. snapshot.found \in [Devices -> Device]
    <3>1. snapshot # [loaded |-> FALSE]
      BY <1>1
    <3>2. snapshot \in [loaded : {TRUE}, found : [Devices -> Device]]
      BY <3>1 DEF IInv, SnapshotType
    <3> QED BY <3>2
  <2>1. \/ devices'[d] = [loaded EXCEPT !.epoch = epochs + 1]
        \/ devices'[d] = Absent
        \/ devices'[d] = devices[d]
    BY DEF SyncApply
  <2>2. Took(d, loaded.takeover, loaded.basis) /\ Took(d, devices[d].takeover, devices[d].basis)
    BY <1>1 DEF Seen
  <2>3. CASE devices'[d] = [loaded EXCEPT !.epoch = epochs + 1]
    <3>1. loaded \in Device
      BY <2>0
    <3>2. devices'[d].takeover = loaded.takeover /\ devices'[d].basis = loaded.basis
      BY <2>3, <3>1 DEF Device
    <3> QED BY <2>2, <3>2
  <2> QED BY <2>1, <2>2, <2>3, AbsentTook
<1>6. \A d \in Devices : Took(d, devices[d].takeover, devices[d].basis)'
  BY <1>2, <1>5
<1> QED BY <1>1, <1>2, <1>3, <1>4, <1>6 DEF Seen

LEMMA SeenSubmit == ASSUME TInv, Submit PROVE Seen'
<1> USE DEF TInv
<1>1. UNCHANGED <<db, stamps, served, devices, snapshot, writer>> /\ batch' = <<>> /\ queue' = queue \o batch
  BY DEF Submit, dbVars
<1>2. ServedType' /\ \A d, t, basis : Took(d, t, basis)' <=> Took(d, t, basis)
  BY <1>1, SeenQuiet
<1>3. AllTook(queue \o batch)
  <2>1. queue \in Seq(Work) /\ batch \in Seq(Work) /\ AllTook(queue) /\ AllTook(batch)
    BY LineType DEF Seen
  <2>2. ASSUME NEW i \in 1..Len(queue \o batch)
        PROVE  (\E k \in 1..Len(queue) : (queue \o batch)[i] = queue[k]) \/ (\E k \in 1..Len(batch) : (queue \o batch)[i] = batch[k])
    <3>1. CASE i <= Len(queue)
      BY <2>1, <3>1
    <3>2. CASE i > Len(queue)
      <4>1. i - Len(queue) \in 1..Len(batch) /\ (queue \o batch)[i] = batch[i - Len(queue)]
        BY <2>1, <3>2
      <4> QED BY <4>1
    <3> QED BY <2>1, <3>1, <3>2
  <2> QED BY <2>1, <2>2 DEF AllTook
<1>4. AllTook(queue)' /\ AllTook(batch)'
  BY <1>1, <1>2, <1>3 DEF AllTook
<1> QED BY <1>1, <1>2, <1>4 DEF Seen, HandTook

LEMMA SeenStepDevice == ASSUME TInv, NEW e \in Devices, StepDevice(e) PROVE Seen'
<1> USE DEF TInv
<1>1. PICK next, writeState, event :
        /\ devices' = [devices EXCEPT ![e].state = next, ![e].planned = @ \/ writeState]
        /\ batch' = Append(batch, [kind |-> "job", dev |-> e, state |-> next, writeState |-> writeState, event |-> event,
                                   takeover |-> devices[e].takeover, epoch |-> devices[e].epoch, basis |-> devices[e].basis])
  BY DEF StepDevice
<1> DEFINE job == [kind |-> "job", dev |-> e, state |-> next, writeState |-> writeState, event |-> event,
                   takeover |-> devices[e].takeover, epoch |-> devices[e].epoch, basis |-> devices[e].basis]
<1>2. UNCHANGED <<db, stamps, served, snapshot, queue, writer>>
  BY DEF StepDevice, dbVars, writerVars
<1>3. ServedType' /\ \A d, t, basis : Took(d, t, basis)' <=> Took(d, t, basis)
  BY <1>2, SeenQuiet
<1>4. \A d \in Devices : devices'[d].takeover = devices[d].takeover /\ devices'[d].basis = devices[d].basis
  BY <1>1 DEF IInv, EngineType, Device
<1>5. batch' = Append(batch, job) /\ batch \in Seq(Work) /\ job.dev = e
      /\ job.takeover = devices[e].takeover /\ job.basis = devices[e].basis
  BY <1>1, LineType
<1> HIDE DEF job
<1>6. AllTook(batch')
  <2>1. \A i \in 1..Len(batch') : (i \in 1..Len(batch) /\ batch'[i] = batch[i]) \/ batch'[i] = job
    BY <1>5
  <2> QED BY <1>5, <2>1 DEF Seen, AllTook
<1>7. AllTook(queue)' /\ AllTook(batch)' /\ HandTook'
  BY <1>2, <1>3, <1>6 DEF Seen, AllTook, HandTook
<1> QED BY <1>2, <1>3, <1>4, <1>7 DEF Seen

LEMMA SeenTake == ASSUME TInv, Take PROVE Seen'
<1> USE DEF TInv
<1>1. /\ UNCHANGED <<db, stamps, served, devices, snapshot, batch>> /\ queue # <<>> /\ queue' = Tail(queue)
      /\ \/ writer'.phase \in {"release", "idle"}
         \/ writer' = [phase |-> "save", job |-> Head(queue)] /\ Head(queue).kind # "release"
  BY DEF Take, dbVars, engineVars, Idle
<1>2. ServedType' /\ \A d, t, basis : Took(d, t, basis)' <=> Took(d, t, basis)
  BY <1>1, SeenQuiet
<1>3. AllTook(Tail(queue))
  BY <1>1, LineType, Behead DEF Seen, AllTook
<1>4. Head(queue).kind # "release" => Took(Head(queue).dev, Head(queue).takeover, Head(queue).basis)
  <2>1. Head(queue) \in Work /\ 1 \in 1..Len(queue) /\ queue[1] = Head(queue)
    BY <1>1, LineType, Behead
  <2>2. Head(queue).kind # "release" => Head(queue).kind = "job"
    BY <2>1 DEF Work, Job, ReleaseWork
  <2> QED BY <2>1, <2>2 DEF Seen, AllTook
<1>5. AllTook(queue)' /\ AllTook(batch)' /\ HandTook'
  BY <1>1, <1>2, <1>3, <1>4 DEF Seen, AllTook, HandTook
<1> QED BY <1>1, <1>2, <1>5 DEF Seen

LEMMA SeenSave == ASSUME TInv, Save \/ SaveFails PROVE Seen'
<1> USE DEF TInv
<1>0. writer.phase = "save"
  BY DEF Save, SaveFails
<1> PICK job \in Job : job = writer.job
  BY <1>0, SavingJob DEF IInv
<1> PICK at \in Devices : at = job.dev
  BY DEF Job
<1>1. /\ UNCHANGED <<devices, snapshot, batch, queue, stamps, served>>
      /\ writer'.phase = "post" /\ writer'.job = job /\ (db' = db \/ db' = Write(job))
      /\ writer'.result = "foreign" => /\ SaveResult(job) = "foreign" /\ db' = db
                                       /\ writer'.owner = db[at].row.owner /\ writer'.basis = stamps[at]
  BY DEF Save, SaveFails, engineVars
<1>2. RowsAge /\ ServedType'
  <2>1. ASSUME NEW d \in Devices PROVE db'[d].owner = db[d].owner /\ (db'[d].row = db[d].row \/ db'[d].row.owner \notin Sensors)
    <3>1. CASE db' = db
      BY <3>1
    <3>2. CASE db' = Write(job) /\ d # at
      BY <3>2, WriteLeaves
    <3>3. CASE db' = Write(job) /\ d = at
      <4>1. db'[at].owner = db[at].owner
            /\ (db'[at].row = db[at].row \/ db'[at].row = [owner |-> Central, hard |-> job.state.hard, flap |-> job.state.flap])
        BY <3>3, WriteLeaves DEF Job
      <4>2. Central \notin Sensors
        BY PipelineAssumption
      <4> QED BY <3>3, <4>1, <4>2
    <3> QED BY <1>1, <3>1, <3>2, <3>3
  <2> QED BY <1>1, <2>1, SeenWriter
<1>3. ASSUME NEW d \in Devices, NEW t, NEW basis, Took(d, t, basis) PROVE Took(d, t, basis)'
  BY <1>2, <1>3, TookAges DEF Took
<1>4. ASSUME NEW s \in Seq(Work), AllTook(s)
      PROVE  \A i \in 1..Len(s) : s[i].kind = "job" => Took(s[i].dev, s[i].takeover, s[i].basis)'
  <2> SUFFICES ASSUME NEW i \in 1..Len(s), s[i].kind = "job" PROVE Took(s[i].dev, s[i].takeover, s[i].basis)'
    OBVIOUS
  <2>1. s[i].dev \in Devices
    <3>1. s[i] \in Work
      BY ElementOfSeq
    <3> QED BY <3>1 DEF Work, Job, ReleaseWork
  <2> QED BY <1>3, <1>4, <2>1 DEF AllTook
<1>5. AllTook(queue)' /\ AllTook(batch)'
  BY <1>1, <1>4, LineType DEF Seen, AllTook
<1>6. Took(at, job.takeover, job.basis)
  BY <1>0 DEF Seen, HandTook
<1>7. writer'.result = "foreign" => Took(at, writer'.owner, writer'.basis)
  <2> SUFFICES ASSUME writer'.result = "foreign" PROVE Took(at, writer'.owner, writer'.basis)
    OBVIOUS
  <2>1. db[at].owner = Central /\ Central \notin Sensors
    BY <1>1, PipelineAssumption DEF SaveResult, Polled
  <2>2. db[at].row.owner \in Sensors => db[at].row.owner \in served[at]
    BY DEF Seen, ServedType
  <2> QED BY <1>1, <2>1, <2>2 DEF Took
<1>8. HandTook'
  BY <1>1, <1>3, <1>6, <1>7 DEF HandTook
<1>9. ASSUME NEW d \in Devices
      PROVE  /\ Took(d, devices[d].takeover, devices[d].basis)'
             /\ snapshot.loaded => Took(d, snapshot.found[d].takeover, snapshot.found[d].basis)'
  BY <1>1, <1>3 DEF Seen
<1> QED BY <1>1, <1>2, <1>5, <1>8, <1>9 DEF Seen

LEMMA SeenPost == ASSUME TInv, Post PROVE Seen'
<1> USE DEF TInv
<1>0. writer.phase = "post"
  BY DEF Post
<1> PICK job \in Job : job = writer.job
  BY <1>0, PostedJob DEF IInv
<1> PICK at \in Devices : at = job.dev
  BY DEF Job
<1>1. /\ UNCHANGED <<db, stamps, served, snapshot, batch, queue>> /\ writer' = Idle
      /\ devices' = IF Current(job) THEN [devices EXCEPT ![at] = AfterSave(job)] ELSE devices
  BY DEF Post
<1>2. ServedType' /\ \A d, t, basis : Took(d, t, basis)' <=> Took(d, t, basis)
  BY <1>1, SeenQuiet
<1>3. AllTook(queue)' /\ AllTook(batch)' /\ HandTook'
  BY <1>1, <1>2 DEF Seen, AllTook, HandTook, Idle
<1>4. devices \in [Devices -> Device] /\ devices[at] \in Device /\ Took(at, devices[at].takeover, devices[at].basis)
  BY DEF IInv, EngineType, Seen
<1>5. Took(at, AfterSave(job).takeover, AfterSave(job).basis)
  <2>1. CASE writer.result \in {"error", "lost"}
    <3>1. AfterSave(job).takeover = devices[at].takeover /\ AfterSave(job).basis = devices[at].basis
      BY <1>4, <2>1 DEF AfterSave, Device
    <3> QED BY <1>4, <3>1
  <2>2. CASE writer.result = "foreign"
    <3>1. AfterSave(job).takeover = writer.owner /\ AfterSave(job).basis = writer.basis
      BY <1>4, <2>2 DEF AfterSave, Reseeded, Device
    <3> QED BY <1>0, <2>2, <3>1 DEF Seen, HandTook
  <2>3. CASE writer.result = "saved"
    <3>1. AfterSave(job) = devices[at] \/ AfterSave(job).takeover = NoOwner
      BY <1>4, <2>3 DEF AfterSave, Device
    <3> QED BY <1>4, <3>1, PipelineAssumption DEF Took
  <2> QED BY <1>0, <2>1, <2>2, <2>3, PostedJob DEF IInv
<1>6. \A d \in Devices : Took(d, devices'[d].takeover, devices'[d].basis)
  BY <1>1, <1>4, <1>5 DEF Seen
<1> QED BY <1>1, <1>2, <1>3, <1>6 DEF Seen

LEMMA SeenOther ==
    ASSUME TInv, Release \/ ReleaseFails \/ Crash \/ (\E d \in Devices : Deliver(d) \/ DeliverFails(d)) \/ UNCHANGED vars
    PROVE  Seen'
<1> USE DEF TInv
<1>1. CASE Release
  <2>1. UNCHANGED <<devices, snapshot, batch, queue, served>> /\ writer' = Idle
    BY <1>1 DEF Release, engineVars
  <2>2. ASSUME NEW d \in Devices
        PROVE  db'[d].owner = db[d].owner /\ stamps'[d][1] = stamps[d][1] /\ (db'[d].row = db[d].row \/ db'[d].row.owner \notin Sensors)
    <3>0. NoRow.owner \notin Sensors /\ db[d] \in DbRow /\ stamps[d] \in Nat \X Nat
      BY RowOf, PipelineAssumption DEF NoRow
    <3>1. db'[d] = IF d \in writer.ids /\ Releasable(d)
                   THEN [db[d] EXCEPT !.mirror = FALSE, !.row = NoRow, !.episode = FALSE] ELSE db[d]
      BY <1>1 DEF Release
    <3>2. stamps'[d] = IF d \in writer.ids /\ Releasable(d) THEN [stamps[d] EXCEPT ![2] = @ + 1] ELSE stamps[d]
      BY <1>1 DEF Release
    <3>3. stamps'[d][1] = stamps[d][1]
      BY <3>0, <3>2
    <3> QED BY <3>0, <3>1, <3>3 DEF DbRow
  <2>3. RowsAge /\ ServedType'
    BY <2>1, <2>2, SeenWriter
  <2>4. ASSUME NEW d \in Devices, NEW t, NEW basis, Took(d, t, basis) PROVE Took(d, t, basis)'
    BY <2>3, <2>4, TookAges DEF Took
  <2>5. ASSUME NEW s \in Seq(Work), AllTook(s)
        PROVE  \A i \in 1..Len(s) : s[i].kind = "job" => Took(s[i].dev, s[i].takeover, s[i].basis)'
    <3> SUFFICES ASSUME NEW i \in 1..Len(s), s[i].kind = "job" PROVE Took(s[i].dev, s[i].takeover, s[i].basis)'
      OBVIOUS
    <3>1. s[i].dev \in Devices
      <4>1. s[i] \in Work
        BY ElementOfSeq
      <4> QED BY <4>1 DEF Work, Job, ReleaseWork
    <3> QED BY <2>4, <2>5, <3>1 DEF AllTook
  <2>6. AllTook(queue)' /\ AllTook(batch)'
    BY <2>1, <2>5, LineType DEF Seen, AllTook
  <2>7. HandTook'
    BY <2>1 DEF HandTook, Idle
  <2>8. ASSUME NEW d \in Devices
        PROVE  /\ Took(d, devices[d].takeover, devices[d].basis)'
               /\ snapshot.loaded => Took(d, snapshot.found[d].takeover, snapshot.found[d].basis)'
    BY <2>1, <2>4 DEF Seen
  <2> QED BY <2>1, <2>3, <2>6, <2>7, <2>8 DEF Seen
<1>2. CASE ReleaseFails \/ (\E d \in Devices : Deliver(d) \/ DeliverFails(d)) \/ UNCHANGED vars
  <2>1. UNCHANGED <<db, stamps, served, devices, snapshot, batch, queue>> /\ (writer' = writer \/ writer' = Idle)
    <3>1. CASE ReleaseFails
      BY <3>1 DEF ReleaseFails, dbVars, engineVars
    <3>2. CASE \E d \in Devices : Deliver(d) \/ DeliverFails(d)
      BY <3>2 DEF Deliver, DeliverFails, dbVars, engineVars
    <3>3. CASE UNCHANGED vars
      BY <3>3 DEF vars
    <3> QED BY <1>2, <3>1, <3>2, <3>3
  <2>2. ServedType' /\ \A d, t, basis : Took(d, t, basis)' <=> Took(d, t, basis)
    BY <2>1, SeenQuiet
  <2>3. AllTook(queue)' /\ AllTook(batch)' /\ HandTook'
    BY <2>1, <2>2 DEF Seen, AllTook, HandTook, Idle
  <2> QED BY <2>1, <2>2, <2>3 DEF Seen
<1>3. CASE Crash
  <2>1. UNCHANGED <<db, stamps, served>> /\ devices' = [d \in Devices |-> Absent] /\ ~snapshot'.loaded
        /\ batch' = <<>> /\ queue' = <<>> /\ writer' = Idle
    BY <1>3 DEF Crash, dbVars
  <2>2. ServedType' /\ \A d, t, basis : Took(d, t, basis)' <=> Took(d, t, basis)
    BY <2>1, SeenQuiet
  <2>3. AllTook(queue)' /\ AllTook(batch)' /\ HandTook'
    BY <2>1 DEF AllTook, HandTook, Idle
  <2>4. \A d \in Devices : Took(d, devices'[d].takeover, devices'[d].basis)
    BY <2>1, AbsentTook
  <2> QED BY <2>1, <2>2, <2>3, <2>4 DEF Seen
<1> QED BY <1>1, <1>2, <1>3

LEMMA SeenInit == Init => TInv
<1> SUFFICES ASSUME Init PROVE TInv
  OBVIOUS
<1>1. ServedType
  BY PipelineAssumption DEF Init, ServedType, NoRow
<1>2. AllTook(queue) /\ AllTook(batch) /\ HandTook
  BY DEF Init, AllTook, HandTook, Idle
<1>3. \A d \in Devices : Took(d, devices[d].takeover, devices[d].basis)
  BY AbsentTook DEF Init
<1>4. ~snapshot.loaded
  BY DEF Init
<1> QED BY <1>1, <1>2, <1>3, <1>4, InitIInv DEF TInv, Seen

LEMMA SeenStep ==
    ASSUME Returns # "any"
    PROVE  TInv /\ [Next]_vars => TInv'
<1> SUFFICES ASSUME TInv, [Next]_vars PROVE Seen'
  BY StepKeepsIInv DEF TInv
<1>1. CASE Server \/ Health
  <2>1. UNCHANGED <<devices, snapshot, batch, queue, writer>>
    BY <1>1 DEF Server, Health, Handoff, SwitchPingOff, SwitchPingOn, SensorWrite, SensorOffline, engineVars, writerVars
  <2> QED BY <1>1, <2>1, SeenServer, SeenMoves
<1>2. CASE Runner
  BY <1>2, SeenLoad, SeenApply, SeenSubmit DEF Runner
<1>3. CASE Take \/ Save \/ SaveFails \/ Post
  BY <1>3, SeenTake, SeenSave, SeenPost
<1>4. CASE \E d \in Devices : StepDevice(d)
  BY <1>4, SeenStepDevice
<1>5. CASE Release \/ ReleaseFails \/ Crash \/ (\E d \in Devices : Deliver(d) \/ DeliverFails(d)) \/ UNCHANGED vars
  BY <1>5, SeenOther
<1> QED BY <1>1, <1>2, <1>3, <1>4, <1>5 DEF Next, Writer

(* While no sensor owns a device twice, whatever the timing of handoffs,   *)
(* checks and saves: a save that replaces a sensor's row was built from it.*)
THEOREM SensorWritesAreSeen == Returns # "any" => (Spec => SeesSensorWrites)
<1> SUFFICES ASSUME Returns # "any" PROVE Spec => SeesSensorWrites
  OBVIOUS
<1>1. TInv /\ [Next]_vars => TInv'
  BY SeenStep
<1>2. TInv /\ [Next]_vars =>
        [Commits /\ db[writer.job.dev].row.owner \in Sensors => writer.job.basis[1] = stamps[writer.job.dev][1]]_vars
  <2> SUFFICES ASSUME TInv, [Next]_vars, Commits, db[writer.job.dev].row.owner \in Sensors
               PROVE  writer.job.basis[1] = stamps[writer.job.dev][1]
    OBVIOUS
  <2>1. SaveResult(writer.job) = "saved" /\ writer.phase = "save"
    BY CommitIsSave DEF Commits
  <2>2. writer.job.takeover = db[writer.job.dev].row.owner
    BY <2>1, PipelineAssumption DEF SaveResult, ForeignRow
  <2> QED BY <2>1, <2>2 DEF TInv, Seen, HandTook, Took
<1> QED BY <1>1, <1>2, SeenInit, PTL DEF Spec, SeesSensorWrites
=============================================================================
