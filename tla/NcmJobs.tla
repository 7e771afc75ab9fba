------------------------------ MODULE NcmJobs ------------------------------
(***************************************************************************)
(* Configuration backups of one device: jobs that a scheduler, an operator *)
(* or a change event queues, and the slots of the worker process that      *)
(* claim a job under a lease, capture its configuration types in order and *)
(* write the outcome, resuming after a crash or a transient failure.       *)
(*                                                                         *)
(* A claim's token is unique to it; the attempt number stands for it.      *)
(* Backoff and quiet periods may end at any moment.  The synchronous       *)
(* capture, manual uploads and notification delivery are left out.         *)
(***************************************************************************)
EXTENDS Integers, Sequences, FiniteSets

CONSTANTS Slots, Types,     \* slots of the worker; config_types, in order
          MaxAttempts,
          MaxJobs, MaxEvents, MaxUpsets   \* bounds: jobs, change events, and
                                          \* stalled heartbeats and restarts

ASSUME NcmJobsAssumption ==
    /\ {MaxJobs, MaxEvents, MaxUpsets} \subseteq Nat /\ MaxAttempts \in Nat \ {0}
    /\ Types \in Seq(STRING)

VARIABLES
    jobs,       \* ncm_jobs, oldest first
    slot,       \* what each slot is doing
    lock,       \* the slot that holds the device's capture lock, or "none"
    incident,   \* an open backup-failure incident
    events,     \* per change event: processed, its job (0: none), linked
                \* to a version; history: it arrived during a scan
    scan,       \* process_pending is past its look at the active job
    upsets,
    \* history
    covered,    \* events older than a stored capture of the running type
    took,       \* <<job, type>> captured and stored
    lastEnd     \* outcome of the last job that succeeded or failed

vars == <<jobs, slot, lock, incident, events, scan, upsets, covered, took, lastEnd>>

Active == {"queued", "running"}
Final == {"success", "failed", "cancelled"}
TypeSet == {Types[i] : i \in DOMAIN Types}

Job == [status |-> "queued", attempts |-> 0, token |-> 0, cancel |-> FALSE,
        results |-> {}, expired |-> FALSE]
Idle == [phase |-> "idle", job |-> 0, token |-> 0, status |-> "none",
         results |-> {}, seen |-> {}, beats |-> TRUE]

ActiveJobs == {j \in DOMAIN jobs : jobs[j].status \in Active}
Upset == upsets < MaxUpsets /\ upsets' = upsets + 1

Init ==
    /\ jobs = <<>> /\ slot = [w \in Slots |-> Idle] /\ lock = "none"
    /\ incident = FALSE /\ events = <<>> /\ scan = FALSE /\ upsets = 0
    /\ covered = {} /\ took = {} /\ lastEnd = "none"

-----------------------------------------------------------------------------
(* Queueing and cancelling. *)

(* A queued or running job of the device takes the place of a new one. *)
Enqueue ==
    /\ ActiveJobs = {} /\ Len(jobs) < MaxJobs
    /\ jobs' = Append(jobs, Job)
    /\ UNCHANGED <<slot, lock, incident, events, scan, upsets, covered, took, lastEnd>>

Cancel(j) ==
    /\ jobs[j].status \in Active
    /\ jobs' = [jobs EXCEPT ![j].cancel = TRUE,
                            ![j].status = IF @ = "queued" THEN "cancelled" ELSE @]
    /\ UNCHANGED <<slot, lock, incident, events, scan, upsets, covered, took, lastEnd>>

ChangeEvent ==
    /\ Len(events) < MaxEvents
    /\ events' = Append(events, [done |-> FALSE, job |-> 0, linked |-> FALSE, amid |-> scan])
    /\ UNCHANGED <<jobs, slot, lock, incident, scan, upsets, covered, took, lastEnd>>

Pending == {e \in DOMAIN events : ~events[e].done}

(* A job that runs may have captured before the change: wait for its end. *)
(* Mutant: a running job is as good as a queued one. *)
NoneRunsAnyway == TRUE
NoneRuns == \A j \in ActiveJobs : jobs[j].status # "running"

ScanReads ==
    /\ ~scan /\ Pending # {} /\ NoneRuns
    /\ scan' = TRUE
    /\ UNCHANGED <<jobs, slot, lock, incident, events, upsets, covered, took, lastEnd>>

(* Every unprocessed event of the device is given to the job.  A device    *)
(* that is not ready has its events processed without one.                 *)
Give(j) == events' = [e \in DOMAIN events |->
                        IF e \in Pending THEN [events[e] EXCEPT !.done = TRUE, !.job = j]
                        ELSE events[e]]

ScanQueues ==
    /\ scan
    /\ scan' = FALSE
    /\ \/ Give(0) /\ UNCHANGED jobs
       \/ \E j \in ActiveJobs : Give(j) /\ UNCHANGED jobs
       \/ /\ ActiveJobs = {} /\ Len(jobs) < MaxJobs
          /\ jobs' = Append(jobs, Job) /\ Give(Len(jobs) + 1)
    /\ UNCHANGED <<slot, lock, incident, upsets, covered, took, lastEnd>>

-----------------------------------------------------------------------------
(* The worker. *)

Becomes(w, x) == slot' = [slot EXCEPT ![w] = x]
Turns(w, phase) == Becomes(w, [slot[w] EXCEPT !.phase = phase])
Ends(w, status) == Becomes(w, [slot[w] EXCEPT !.phase = "finish", !.status = status, !.seen = {}])

(* Mutant: a job whose lease ran out is not taken up again. *)
ClaimableOnlyQueued(j) == jobs[j].status = "queued"
Claimable(j) == jobs[j].status = "queued" \/ (jobs[j].status = "running" /\ jobs[j].expired)

Exhausted(attempts) == attempts > MaxAttempts

(* What the job's results already hold is not captured again. *)
Claim(w, j) ==
    /\ slot[w] = Idle /\ Claimable(j)
    /\ jobs' = [jobs EXCEPT ![j].status = "running", ![j].attempts = @ + 1,
                            ![j].token = jobs[j].attempts + 1, ![j].expired = FALSE]
    /\ LET attempts == jobs[j].attempts + 1 IN
       Becomes(w, [Idle EXCEPT !.phase = IF Exhausted(attempts) THEN "finish" ELSE "check",
                               !.status = IF Exhausted(attempts) THEN "failed" ELSE "none", !.job = j, !.token = attempts,
                               !.results = jobs[j].results])
    /\ UNCHANGED <<lock, incident, events, scan, upsets, covered, took, lastEnd>>

NextType(w) == LET left == {i \in DOMAIN Types : Types[i] \notin slot[w].results} IN
               Types[CHOOSE i \in left : \A k \in left : i <= k]

(* Mutant: one captured type is enough. *)
CompleteWithOne(w) == slot[w].results # {}
Complete(w) == TypeSet \subseteq slot[w].results

(* Mutant: the lease is not looked at again. *)
HoldsAlways(w) == TRUE
Holds(w) == jobs[slot[w].job].token = slot[w].token

Retried(w) == IF slot[w].token < MaxAttempts THEN "queued" ELSE "failed"

Free == lock = "none"

(* Before each capture the job is looked up again; a busy device counts as *)
(* a transient failure.                                                    *)
Check(w) ==
    /\ slot[w].phase = "check"
    /\ LET j == slot[w].job IN
       \/ /\ Complete(w)
          /\ Ends(w, "success") /\ UNCHANGED lock
       \/ /\ ~Complete(w)
          /\ \/ ~Holds(w) /\ Becomes(w, Idle) /\ UNCHANGED lock
             \/ Holds(w) /\ jobs[j].cancel /\ Ends(w, "cancelled") /\ UNCHANGED lock
             \/ /\ Holds(w) /\ ~jobs[j].cancel /\ Free
                /\ lock' = w
                /\ Becomes(w, [slot[w] EXCEPT !.phase = "capture", !.seen = DOMAIN events])
             \/ /\ Holds(w) /\ ~jobs[j].cancel /\ ~Free
                /\ Ends(w, Retried(w)) /\ UNCHANGED lock
    /\ UNCHANGED <<jobs, incident, events, scan, upsets, covered, took, lastEnd>>

(* The capture is committed, with the job's events linked to its version,  *)
(* and the lock released with the transaction.                             *)
Captured(w) ==
    /\ slot[w].phase = "capture"
    /\ LET j == slot[w].job  type == NextType(w) IN
       /\ took' = took \cup {<<j, type>>}
       /\ covered' = IF type = "running" THEN covered \cup slot[w].seen ELSE covered
       /\ events' = [e \in DOMAIN events |->
                       IF events[e].job = j THEN [events[e] EXCEPT !.linked = TRUE] ELSE events[e]]
       /\ Becomes(w, [slot[w] EXCEPT !.phase = "store", !.seen = {}, !.results = @ \cup {type}])
    /\ lock' = "none"
    /\ UNCHANGED <<jobs, incident, scan, upsets, lastEnd>>

(* A transient failure is retried, a permanent one is not. *)
CaptureFails(w) ==
    /\ slot[w].phase = "capture"
    /\ lock' = "none"
    /\ Ends(w, "failed") \/ Ends(w, Retried(w))
    /\ UNCHANGED <<jobs, incident, events, scan, upsets, covered, took, lastEnd>>

Store(w) ==
    /\ slot[w].phase = "store"
    /\ jobs' = IF Holds(w) THEN [jobs EXCEPT ![slot[w].job].results = slot[w].results] ELSE jobs
    /\ Turns(w, "check")
    /\ UNCHANGED <<lock, incident, events, scan, upsets, covered, took, lastEnd>>

(* The outcome and its incident are one transaction, under the own token. *)
(* Mutant: a success leaves the incident open. *)
IncidentSticks(status) == incident \/ status = "failed"
IncidentAfter(status) ==
    CASE status = "failed" -> TRUE [] status = "success" -> FALSE [] OTHER -> incident

Finish(w) ==
    /\ slot[w].phase = "finish"
    /\ LET status == slot[w].status IN
       IF Holds(w)
       THEN /\ jobs' = [jobs EXCEPT ![slot[w].job] =
                          [@ EXCEPT !.status = status, !.token = 0, !.expired = FALSE, !.results = slot[w].results]]
            /\ incident' = IncidentAfter(status)
            /\ lastEnd' = IF status \in {"success", "failed"} THEN status ELSE lastEnd
       ELSE UNCHANGED <<jobs, incident, lastEnd>>
    /\ Becomes(w, Idle)
    /\ UNCHANGED <<lock, events, scan, upsets, covered, took>>

-----------------------------------------------------------------------------
(* Leases and failures. *)

(* The heartbeat fails or hangs, while its slot works on. *)
HeartbeatStops(w) ==
    /\ slot[w] # Idle /\ slot[w].beats
    /\ Upset
    /\ Becomes(w, [slot[w] EXCEPT !.beats = FALSE])
    /\ UNCHANGED <<jobs, lock, incident, events, scan, covered, took, lastEnd>>

LeaseExpires(j) ==
    /\ jobs[j].status = "running" /\ ~jobs[j].expired
    /\ \A w \in Slots : slot[w].beats => <<slot[w].job, slot[w].token>> # <<j, jobs[j].token>>
    /\ jobs' = [jobs EXCEPT ![j].expired = TRUE]
    /\ UNCHANGED <<slot, lock, incident, events, scan, upsets, covered, took, lastEnd>>

Stop ==
    /\ slot' = [w \in Slots |-> Idle] /\ lock' = "none"
    /\ UNCHANGED <<jobs, incident, events, scan, covered, took, lastEnd>>

Restart == Upset /\ Stop

(* The end of an attempt awaits its heartbeat: one that failed takes the   *)
(* process down, every slot included.                                      *)
HeartbeatFailed(w) == slot[w].phase = "finish" /\ ~slot[w].beats /\ Stop /\ UNCHANGED upsets

-----------------------------------------------------------------------------
Works(w) ==
    \/ \E j \in DOMAIN jobs : Claim(w, j)
    \/ Check(w) \/ Captured(w) \/ CaptureFails(w) \/ Store(w) \/ Finish(w)

Next ==
    \/ Enqueue \/ ChangeEvent \/ ScanReads \/ ScanQueues
    \/ \E j \in DOMAIN jobs : Cancel(j) \/ LeaseExpires(j)
    \/ \E w \in Slots : Works(w) \/ HeartbeatStops(w) \/ HeartbeatFailed(w)
    \/ Restart

Spec == Init /\ [][Next]_vars

(* Slots keep claiming and end what they started (a capture has a          *)
(* deadline), and leases that are not renewed expire.                      *)
Fairness ==
    /\ WF_vars(\E w \in Slots : Works(w))
    /\ WF_vars(\E j \in DOMAIN jobs : LeaseExpires(j))

FairSpec == Spec /\ Fairness

-----------------------------------------------------------------------------
(* Type invariant. *)
TypeOK ==
    /\ \A j \in DOMAIN jobs :
          /\ jobs[j].status \in Active \cup Final
          /\ jobs[j].token \in {0, jobs[j].attempts} /\ jobs[j].results \subseteq TypeSet
          /\ jobs[j].token # 0 <=> jobs[j].status = "running"
    /\ Cardinality(ActiveJobs) <= 1
    /\ \A w \in Slots : slot[w] # Idle =>
          slot[w].phase \in {"check", "capture", "store", "finish"} /\ slot[w].job \in DOMAIN jobs
    /\ lock \in Slots \cup {"none"} /\ {incident, scan} \subseteq BOOLEAN
    /\ \A e \in DOMAIN events : events[e].job \in 0..Len(jobs)
    /\ upsets \in 0..MaxUpsets /\ covered \subseteq DOMAIN events

(* A finished job stays as it is: no slot that lost the lease rewrites the *)
(* outcome, nor a cancelled job.                                           *)
FinishedForGood ==
    [][\A j \in DOMAIN jobs : jobs[j].status \in Final => jobs'[j] = jobs[j]]_vars

(* A job that succeeded captured every type it was queued for, over        *)
(* however many attempts, restarts and slots.                              *)
SuccessIsComplete ==
    \A j \in DOMAIN jobs : jobs[j].status = "success" => \A t \in TypeSet : <<j, t>> \in took

(* The device's incident is open exactly when its last job that ran to an  *)
(* end failed.                                                             *)
IncidentTellsTheLastOutcome == incident <=> lastEnd = "failed"

(* Every job that was queued ends, whatever worker died with it. *)
JobsEnd ==
    \A j \in 1..MaxJobs : j \in DOMAIN jobs ~> j \in DOMAIN jobs /\ jobs[j].status \in Final

(* process_pending: "the running capture may predate the change; wait for  *)
(* it to finish".  A version that an event is linked to shows its change,  *)
(* unless the event came while the scan that gave it away was under way,   *)
(* or its job was taken up a second time, with types captured before.      *)
LinkedVersionShowsTheChange ==
    \A e \in DOMAIN events :
        events[e].linked /\ ~events[e].amid /\ jobs[events[e].job].attempts = 1 => e \in covered
=============================================================================
