----------------------------- MODULE SensorSpool -----------------------------
(***************************************************************************)
(* The durable result queue of a remote sensor (sensorspool): immutable    *)
(* data segments, a control log of acknowledgements, drops and in-flight   *)
(* manifests with snapshot compaction, retention by age and capacity, and  *)
(* recovery by replay after a crash.                                       *)
(*                                                                         *)
(* A record is its sequence number, and the sequence orders the records of *)
(* a segment and of a batch, which are sets here; the reference, the id    *)
(* and the batch key of the code identify the same records.  Every call    *)
(* holds the mutex, so only durable writes matter: a call is the list of   *)
(* the steps it still has to do, each step one durable write, and the      *)
(* process can die or the write can fail between any two of them.  A torn  *)
(* frame is cut off on open, so it is a write that did not happen.         *)
(* Results are stamped when they are queued: age follows the sequence.     *)
(* Sizes are abstract units; control frames are counted for compaction     *)
(* only, their bytes staying within the reserve.                           *)
(***************************************************************************)
EXTENDS Integers, Sequences, FiniteSets, FiniteSetsExt

CONSTANTS
    Kinds,              \* what is queued: [path, size, bad]
    SegmentTarget,      \* a segment of this size is closed
    Capacity,           \* maxBytes
    CompactAt,          \* control frames that make a snapshot worthwhile
    Limit,              \* uploadBatchSize
    \* bounds of the model
    MaxRecords, MaxAged, MaxRestarts, MaxFaults

ASSUME SpoolAssumption ==
    /\ \A k \in Kinds : k.size \in 1..SegmentTarget /\ k.bad \in BOOLEAN
    /\ SegmentTarget \in 1..Capacity /\ Capacity \in Nat
    /\ CompactAt \in Nat \ {0, 1, 2}
    /\ Limit \in Nat \ {0}
    /\ {MaxRecords, MaxAged, MaxRestarts, MaxFaults} \subseteq Nat

VARIABLES
    kinds,      \* per sequence number: what it holds
    files,      \* the segments: name (its first record) -> records
    removed,    \* segments removed since the directory was last synced
    control,    \* the control log
    spool,      \* in memory: phase, live, active, inflight, dropped, sequence
    call,       \* steps the running call still has to do, and the kind it enqueues
    held,       \* the batch the uploader was given
    cutoff,     \* records up to this one are older than maxAge
    spent,      \* how much of each bound is used
    \* history
    entered,    \* records Enqueue accepted, or rejected and counted
    acked       \* records acknowledged

vars == <<kinds, files, removed, control, spool, call, held, cutoff, spent, entered, acked>>
disk == <<files, removed, control>>
history == <<entered, acked>>

Records == 1..MaxRecords
Closed == [phase |-> "closed", live |-> {}, active |-> 0, inflight |-> {}, dropped |-> 0, sequence |-> 0]
NoCall == [todo |-> <<>>, size |-> 0]
Spend(what) == spent' = [spent EXCEPT ![what] = @ + 1]

Bytes(records) == MapThenSumSet(LAMBDA n : kinds[n].size, records)
Used == MapThenSumSet(LAMBDA s : Bytes(files[s]), DOMAIN files)
SegmentOf(n) == CHOOSE s \in DOMAIN files : n \in files[s]
Found(segments) == UNION {segments[s] : s \in DOMAIN segments}
First(k, batch) == {n \in batch : Cardinality({m \in batch : m < n}) < k}
Only(names) == [s \in names |-> files[s]]

-----------------------------------------------------------------------------
(***************************************************************************)
(* The control log and its replay.                                         *)
(***************************************************************************)
Event(op, refs, batch, dropped) ==
    [op |-> op, refs |-> refs, batch |-> batch, dropped |-> dropped, sequence |-> spool.sequence]

\* mutant: the manifest in flight is not part of the snapshot
SnapshotOfDead ==
    Event("snapshot", Found(files) \ spool.live, {}, spool.dropped)

Snapshot ==
    Event("snapshot", Found(files) \ spool.live, spool.inflight, spool.dropped)

\* mutant: the manifest in flight is not restored
ApplyControlEventThawed(state, event) ==
    [dead |-> IF event.op = "snapshot" THEN event.refs ELSE state.dead \cup event.refs,
     dropped |-> IF event.op = "snapshot" THEN event.dropped ELSE state.dropped + event.dropped,
     inflight |-> {},
     sequence |-> Max({state.sequence, event.sequence})]

(* applyControlEvent: a snapshot starts over, an acknowledgement or a      *)
(* rejection clears the manifest of the same key.                          *)
ApplyControlEvent(state, event) ==
    [dead |-> IF event.op = "snapshot" THEN event.refs ELSE state.dead \cup event.refs,
     dropped |-> IF event.op = "snapshot" THEN event.dropped ELSE state.dropped + event.dropped,
     inflight |-> CASE event.op \in {"snapshot", "inflight"} -> event.batch
                    [] event.op \in {"ack", "poison"} /\ event.batch = state.inflight -> {}
                    [] OTHER -> state.inflight,
     sequence |-> Max({state.sequence, event.sequence})]

(* The log read from its first frame to the last. *)
Replayed(log) ==
    LET state[i \in 0..Len(log)] ==
          IF i = 0 THEN [dead |-> {}, dropped |-> 0, inflight |-> {}, sequence |-> 0]
          ELSE ApplyControlEvent(state[i - 1], log[i])
    IN state[Len(log)]

(* What Open makes of a directory with these segments.                     *)
Recovered(segments) ==
    LET state == Replayed(control)
    IN [phase |-> "opening", live |-> Found(segments) \ state.dead, active |-> 0,
        inflight |-> state.inflight, dropped |-> state.dropped,
        sequence |-> Max(Found(segments) \cup {state.sequence})]

(* validateInflight: the manifest in flight is whole.                      *)
Valid(state, segments) ==
    /\ state.inflight \subseteq state.live
    /\ state.inflight # {} => \E s \in DOMAIN segments : state.inflight \subseteq segments[s]

-----------------------------------------------------------------------------
(***************************************************************************)
(* The calls of producers and of the uploader, and opening.                *)
(***************************************************************************)
Ready == spool.phase = "open" /\ call.todo = <<>>
Enforce == <<"age", "compact", "capacity">>
Cleanup == <<"reclaim", "sync", "compact">>

Enqueue(kind) ==
    /\ Ready
    /\ spool.sequence < MaxRecords
    /\ spool' = [spool EXCEPT !.sequence = @ + 1]
    /\ kinds' = [kinds EXCEPT ![spool.sequence + 1] = kind]
    /\ call' = [todo |-> Enforce \o <<"append">>, size |-> kind.size]
    /\ UNCHANGED <<disk, held, cutoff, spent, history>>

NextBatch ==
    /\ Ready
    /\ held' = {}
    /\ call' = [todo |-> Enforce \o <<"freeze", "compact", "return">>, size |-> 0]
    /\ UNCHANGED <<kinds, disk, spool, cutoff, spent, history>>

(* Log an event that ends records, and forget them; the rest of the call   *)
(* deletes the segments that are left empty.                               *)
Log(event) == control' = Append(control, event)
End(refs, todo) ==
    /\ spool' = [spool EXCEPT !.live = @ \ refs, !.inflight = {}]
    /\ held' = {}
    /\ call' = [todo |-> todo, size |-> 0]

Ack ==
    /\ Ready /\ held # {} /\ held = spool.inflight
    /\ Log(Event("ack", held, held, 0))
    /\ End(held, Cleanup)
    /\ acked' = acked \cup held
    /\ UNCHANGED <<kinds, files, removed, cutoff, spent, entered>>

Half(batch) == First((Cardinality(batch) + 1) \div 2, batch)

SplitInflight ==
    /\ Ready /\ held = spool.inflight /\ Cardinality(held) > 1
    /\ Log(Event("inflight", {}, Half(held), 0))
    /\ spool' = [spool EXCEPT !.inflight = Half(held)]
    /\ held' = {}
    /\ call' = [todo |-> <<"compact">>, size |-> 0]
    /\ UNCHANGED <<kinds, files, removed, cutoff, spent, history>>

DropInflight ==
    /\ Ready /\ held = spool.inflight /\ Cardinality(held) = 1
    /\ Log(Event("poison", held, held, 1))
    /\ spool' = [spool EXCEPT !.live = @ \ held, !.inflight = {}, !.dropped = @ + 1]
    /\ held' = {}
    /\ call' = [todo |-> Cleanup, size |-> 0]
    /\ UNCHANGED <<kinds, files, removed, cutoff, spent, history>>

(* Open refuses a directory whose manifest is not whole.                   *)
Open ==
    /\ spool.phase = "closed"
    /\ Valid(Recovered(files), files)
    /\ spool' = Recovered(files)
    /\ call' = [todo |-> <<"reclaim", "sync", "select">> \o Enforce \o <<"compact", "return">>, size |-> 0]
    /\ UNCHANGED <<kinds, disk, held, cutoff, spent, history>>

-----------------------------------------------------------------------------
(***************************************************************************)
(* The steps of a call.                                                    *)
(***************************************************************************)
At(step) == spool.phase # "closed" /\ call.todo # <<>> /\ Head(call.todo) = step
Continue(todo) == call' = [call EXCEPT !.todo = todo]
Done == Continue(Tail(call.todo))

Drop(refs) ==
    /\ Log(Event("drop", refs, {}, Cardinality(refs)))
    /\ spool' = [spool EXCEPT !.live = @ \ refs, !.dropped = @ + Cardinality(refs)]
    /\ Continue(Cleanup \o call.todo)

\* mutant: age spares nothing
ExpiredAll == {n \in spool.live : n <= cutoff}

(* Too old, and not frozen in flight.                                      *)
Expired == {n \in spool.live : n <= cutoff} \ spool.inflight

EnforceAge ==
    /\ At("age")
    /\ IF Expired # {} THEN Drop(Expired) ELSE Done /\ UNCHANGED <<control, spool>>
    /\ UNCHANGED <<kinds, files, removed, held, cutoff, spent, history>>

Protected == IF spool.inflight = {} THEN {} ELSE {SegmentOf(Min(spool.inflight))}
Evictable == {n \in spool.live : SegmentOf(n) \notin Protected}
CanFitAroundProtected == MapThenSumSet(LAMBDA s : Bytes(files[s]), Protected) + call.size <= Capacity

\* mutant: records of the segment that are gone already are dropped again
VictimsAll == files[SegmentOf(Min(Evictable))]

Victims == spool.live \cap files[SegmentOf(Min(Evictable))]

(* ensureCapacity: whole segments go, that of the oldest record first; a   *)
(* record that cannot fit beside the batch in flight is rejected (the code *)
(* compacts the log first, in case its bytes are what does not fit).       *)
EnsureCapacity ==
    /\ At("capacity")
    /\ IF Used + call.size <= Capacity THEN Done /\ UNCHANGED <<control, spool>>
       ELSE IF CanFitAroundProtected /\ Evictable # {}
       THEN Drop(Victims)
       ELSE /\ Continue(IF call.size = 0 THEN Tail(call.todo) ELSE <<"reject", "compact">>)
            /\ UNCHANGED <<control, spool>>
    /\ UNCHANGED <<kinds, files, removed, held, cutoff, spent, history>>

RecordRejected ==
    /\ At("reject")
    /\ Log(Event("drop", {}, {}, 1))
    /\ spool' = [spool EXCEPT !.dropped = @ + 1]
    /\ entered' = entered \cup {spool.sequence}
    /\ Done
    /\ UNCHANGED <<kinds, files, removed, held, cutoff, spent, acked>>

HasRoom(s) == Bytes(files[s]) + call.size <= SegmentTarget

\* mutant: any older segment with room takes the record
SegmentWithRoom(n) ==
    LET room == {s \in DOMAIN files \ Protected : HasRoom(s)} IN IF room = {} THEN n ELSE Min(room)

(* The active segment takes the record if it fits, or a new one does.      *)
SegmentFor(n) == IF spool.active # 0 /\ HasRoom(spool.active) THEN spool.active ELSE n

AppendRecord ==
    /\ At("append")
    /\ LET n == spool.sequence
           name == SegmentFor(n)
           fits == name \in DOMAIN files
           records == (IF fits THEN files[name] ELSE {}) \cup {n}
       IN /\ files' = [s \in DOMAIN files \cup {name} |-> IF s = name THEN records ELSE files[s]]
          /\ removed' = IF fits THEN removed ELSE <<>>
          /\ spool' = [spool EXCEPT !.live = @ \cup {n},
                                    !.active = IF Bytes(records) >= SegmentTarget THEN 0 ELSE name]
          /\ entered' = entered \cup {n}
    /\ Done
    /\ UNCHANGED <<kinds, control, held, cutoff, spent, acked>>

(* The oldest live record of its segment and the following live ones of    *)
(* the same path.                                                          *)
Oldest ==
    LET first == Min(spool.live)
    IN First(Limit, {n \in files[SegmentOf(first)] \cap spool.live :
                        n >= first /\ kinds[n].path = kinds[first].path})

(* A frozen segment takes no more results.                                 *)
ActiveBeside(frozen) == IF spool.active = frozen THEN 0 ELSE spool.active

(* A batch stays as it is until it is acknowledged, split or dropped.      *)
Freeze ==
    /\ At("freeze")
    /\ IF spool.inflight # {} \/ spool.live = {} THEN UNCHANGED <<control, spool>>
       ELSE /\ Log(Event("inflight", {}, Oldest, 0))
            /\ spool' = [spool EXCEPT !.inflight = Oldest,
                                      !.active = ActiveBeside(SegmentOf(Min(spool.live)))]
    /\ Done
    /\ UNCHANGED <<kinds, files, removed, held, cutoff, spent, history>>

Return ==
    /\ At("return")
    /\ held' = IF spool.phase = "open" THEN spool.inflight ELSE {}
    /\ spool' = [spool EXCEPT !.phase = "open"]
    /\ Done
    /\ UNCHANGED <<kinds, disk, cutoff, spent, history>>

Empty == {s \in DOMAIN files : files[s] \cap spool.live = {}}

ReclaimEmptySegments ==
    /\ At("reclaim")
    /\ files' = Only(DOMAIN files \ Empty)
    /\ removed' = [s \in DOMAIN removed \cup Empty |-> IF s \in Empty THEN files[s] ELSE removed[s]]
    /\ spool' = [spool EXCEPT !.active = IF @ \in Empty THEN 0 ELSE @]
    /\ Continue(IF Empty = {} THEN Tail(Tail(call.todo)) ELSE Tail(call.todo))
    /\ UNCHANGED <<kinds, control, held, cutoff, spent, history>>

SyncDirectory ==
    /\ At("sync")
    /\ removed' = <<>>
    /\ Done
    /\ UNCHANGED <<kinds, files, control, spool, held, cutoff, spent, history>>

(* The snapshot replaces the log by a rename, and syncs the directory.     *)
MaybeCompactControl ==
    /\ At("compact")
    /\ IF Len(control) >= CompactAt THEN control' = <<Snapshot>> /\ removed' = <<>>
       ELSE UNCHANGED <<control, removed>>
    /\ Done
    /\ UNCHANGED <<kinds, files, spool, held, cutoff, spent, history>>

(* selectActiveSegment: of the segments with room, the one written last;   *)
(* none while it holds the batch in flight.                                *)
SelectActiveSegment ==
    /\ At("select")
    /\ LET room == {s \in DOMAIN files : s \notin Empty /\ Bytes(files[s]) < SegmentTarget}
           newest == CHOOSE s \in room : \A o \in room : Max(files[o]) <= Max(files[s])
       IN spool' = [spool EXCEPT !.active = IF room = {} \/ newest \in Protected THEN 0 ELSE newest]
    /\ Done
    /\ UNCHANGED <<kinds, disk, held, cutoff, spent, history>>

-----------------------------------------------------------------------------
(* The pending write, or the read of the batch, fails: the call returns    *)
(* its error.                                                              *)
Fails ==
    /\ call.todo # <<>> /\ spent.faults < MaxFaults
    /\ call' = NoCall
    /\ spool' = IF spool.phase = "opening" THEN Closed ELSE spool
    /\ Spend("faults")
    /\ UNCHANGED <<kinds, disk, held, cutoff, history>>

(* Records grow old.                                                       *)
Age ==
    /\ cutoff < Min({spool.sequence, MaxAged})
    /\ cutoff' = cutoff + 1
    /\ UNCHANGED <<kinds, disk, spool, call, held, spent, history>>

(* The process, or the machine, dies: removals not yet synced may be       *)
(* undone.                                                                 *)
Crash ==
    /\ spent.restarts < MaxRestarts /\ Spend("restarts")
    /\ spool' = Closed
    /\ call' = NoCall /\ held' = {}
    /\ \E back \in SUBSET DOMAIN removed :
         files' = [s \in DOMAIN files \cup back |-> IF s \in back THEN removed[s] ELSE files[s]]
    /\ removed' = <<>>
    /\ UNCHANGED <<kinds, control, cutoff, history>>

Init ==
    /\ kinds \in [Records -> {CHOOSE k \in Kinds : TRUE}]
    /\ files = <<>> /\ removed = <<>> /\ control = <<>>
    /\ spool = Closed /\ call = NoCall /\ held = {}
    /\ cutoff = 0
    /\ spent = [restarts |-> 0, faults |-> 0]
    /\ entered = {} /\ acked = {}

Steps ==
    \/ EnforceAge \/ EnsureCapacity \/ RecordRejected \/ AppendRecord \/ Freeze \/ Return
    \/ ReclaimEmptySegments \/ SyncDirectory \/ MaybeCompactControl \/ SelectActiveSegment

Next ==
    \/ \E kind \in Kinds : Enqueue(kind)
    \/ NextBatch \/ Ack \/ SplitInflight \/ DropInflight \/ Open
    \/ Steps \/ Fails \/ Age \/ Crash

Spec == Init /\ [][Next]_vars

-----------------------------------------------------------------------------
(***************************************************************************)
(* Properties.                                                             *)
(***************************************************************************)
StepNames == {"age", "capacity", "reject", "append", "freeze", "reclaim", "sync", "compact", "return", "select"}

(* Shapes; the active segment has room and never holds the batch in flight,*)
(* which lies in one segment and is live.                                  *)
TypeOK ==
    /\ kinds \in [Records -> Kinds]
    /\ DOMAIN files \subseteq Records /\ DOMAIN removed \subseteq Records
    /\ spool.live \subseteq Records /\ spool.inflight \subseteq Records /\ held \subseteq Records
    /\ spool.dropped \in Nat /\ spool.sequence \in 0..MaxRecords /\ cutoff \in 0..MaxRecords
    /\ call.todo \in Seq(StepNames)
    /\ spool.active # 0 =>
         /\ spool.active \in DOMAIN files \ Protected
         /\ Bytes(files[spool.active]) < SegmentTarget

(* The directories a crash can leave behind.                               *)
Leftovers == {[s \in DOMAIN files \cup back |-> IF s \in back THEN removed[s] ELSE files[s]] :
                 back \in SUBSET DOMAIN removed}

(* Open never meets a directory it refuses: whenever the process dies, the *)
(* replayed manifest is whole and no sequence number occurs twice.         *)
Openable ==
    \A segments \in Leftovers :
        /\ Valid(Recovered(segments), segments)
        /\ \A s, t \in DOMAIN segments : s # t => segments[s] \cap segments[t] = {}

(* A restart resumes where the process died, at every durable write: the   *)
(* same results queued, the same batch in flight, the same drop count; and *)
(* no number of a result that was accepted is given out again.             *)
RestartResumes ==
    \A segments \in Leftovers :
        LET state == Recovered(segments)
        IN /\ spool.phase # "closed" => state.live = spool.live /\ state.inflight = spool.inflight /\ state.dropped = spool.dropped
           /\ \A n \in entered : n <= state.sequence

(* Telemetry is never lost silently, nor queued again once the controller  *)
(* acknowledged it: a result that entered the spool is queued,             *)
(* acknowledged, or counted in queue_dropped_count, exactly once.          *)
LossIsCounted ==
    /\ spool.live \cap acked = {}
    /\ spool.phase # "closed" => spool.dropped = Cardinality(entered \ (spool.live \cup acked))

(* No older queued result of its path is left behind by a new batch. *)
TakesOldest ==
    spool.phase = "open" /\ spool.inflight = {} =>
        \A m \in spool'.inflight, n \in spool.live :
          n < m /\ kinds[n].path = kinds[m].path => n \in spool'.inflight

(* NextBatch returns the oldest queued endpoint, as long as the segments   *)
(* were all chosen by one process.                                         *)
OldestFirstUntilRestart == [][spent.restarts = 0 => TakesOldest]_vars
=============================================================================
