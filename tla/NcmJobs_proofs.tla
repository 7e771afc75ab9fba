---------------------------- MODULE NcmJobs_proofs ----------------------------
(***************************************************************************)
(* What holds of configuration backup jobs for any number of slots, jobs,  *)
(* attempts, types, events and failures.                                   *)
(***************************************************************************)
EXTENDS NcmJobs, FiniteSetTheorems, WellFoundedInduction, TLAPS

Outcomes == {"success", "failed", "cancelled", "queued"}
JobType == [status : Active \cup Final, attempts : Nat, token : Nat, cancel : BOOLEAN,
            results : SUBSET TypeSet, expired : BOOLEAN]
SlotType == [phase : {"idle", "check", "capture", "store", "finish"}, job : Nat, token : Nat,
             status : Outcomes \cup {"none"}, results : SUBSET TypeSet, seen : SUBSET Nat,
             beats : BOOLEAN]
EventType == [done : BOOLEAN, job : Nat, linked : BOOLEAN, amid : BOOLEAN]

(* A job has a lease exactly while it runs, and what it says it captured   *)
(* was captured.                                                           *)
GoodJob(j) ==
    /\ jobs[j] \in JobType
    /\ jobs[j].token \in {0, jobs[j].attempts}
    /\ jobs[j].token # 0 <=> jobs[j].status = "running"
    /\ \A t \in jobs[j].results : <<j, t>> \in took
    /\ jobs[j].status = "success" => \A t \in TypeSet : <<j, t>> \in took

(* A slot that works has a lease of a job, and the same holds of its       *)
(* results; it only succeeds with all of them.                             *)
GoodSlot(w) ==
    /\ slot[w] \in SlotType
    /\ slot[w].phase = "idle" => slot[w] = Idle
    /\ slot[w].phase # "idle" => slot[w].job \in DOMAIN jobs /\ slot[w].token # 0
    /\ \A t \in slot[w].results : <<slot[w].job, t>> \in took
    /\ slot[w].phase = "capture" => ~(TypeSet \subseteq slot[w].results)
    /\ slot[w].phase = "finish" => slot[w].status \in Outcomes
    /\ slot[w].phase = "finish" /\ slot[w].status = "success" => TypeSet \subseteq slot[w].results
    /\ slot[w].seen \subseteq DOMAIN events

GoodEvents ==
    /\ events \in Seq(EventType)
    /\ \A e \in DOMAIN events : events[e].job \in 0..Len(jobs)
    /\ covered \subseteq DOMAIN events

OneActive == \A i, j \in ActiveJobs : i = j

Rest ==
    /\ lock \in Slots \cup {"none"} /\ scan \in BOOLEAN /\ upsets \in 0..MaxUpsets
    /\ incident \in BOOLEAN /\ IncidentTellsTheLastOutcome

IInv ==
    /\ jobs \in Seq(JobType) /\ slot \in [Slots -> SlotType]
    /\ Rest /\ GoodEvents /\ OneActive
    /\ \A j \in DOMAIN jobs : GoodJob(j)
    /\ \A w \in Slots : GoodSlot(w)

-----------------------------------------------------------------------------
LEMMA InitIInv == Init => IInv
<1> SUFFICES ASSUME Init PROVE IInv
    OBVIOUS
<1>1. Idle \in SlotType
  BY DEF Idle, SlotType, Outcomes
<1>2. jobs = <<>> /\ events = <<>> /\ DOMAIN jobs = {} /\ DOMAIN events = {}
  BY DEF Init
<1>3. Rest
  <2>2. lock \in Slots \cup {"none"} /\ scan \in BOOLEAN /\ upsets \in 0..MaxUpsets
    <3>1. MaxUpsets \in Nat
      BY NcmJobsAssumption
    <3>2. lock \in Slots \cup {"none"} /\ upsets \in 0..MaxUpsets
      BY <3>1 DEF Init
    <3>3. scan \in BOOLEAN
      BY DEF Init
    <3> QED BY <3>2, <3>3
  <2>3. incident = FALSE /\ lastEnd = "none"
    BY DEF Init
  <2>4. incident \in BOOLEAN /\ IncidentTellsTheLastOutcome
    BY <2>3 DEF IncidentTellsTheLastOutcome
  <2> QED BY <2>2, <2>4 DEF Rest
<1>6. jobs \in Seq(JobType) /\ slot \in [Slots -> SlotType]
  BY <1>1 DEF Init
<1>4. GoodEvents /\ OneActive
  BY <1>2 DEF Init, GoodEvents, OneActive, ActiveJobs
<1>5. \A w \in Slots : GoodSlot(w)
  BY <1>1 DEF Init, GoodSlot, Idle
<1> QED BY <1>2, <1>3, <1>4, <1>5, <1>6 DEF IInv

(* The type captured next is one of the job's. *)
LEMMA NextTypeIsLeft ==
  ASSUME NEW w \in Slots, ~(TypeSet \subseteq slot[w].results)
  PROVE  NextType(w) \in TypeSet
<1> DEFINE left == {i \in DOMAIN Types : Types[i] \notin slot[w].results}
<1>1. DOMAIN Types \subseteq Nat
  BY NcmJobsAssumption
<1>2. left # {} /\ left \in SUBSET Nat
  BY <1>1 DEF TypeSet
<1>3. \E i \in left : \A k \in left : i <= k
  <2>1. PICK i \in left : \A k \in left : <<k, i>> \notin OpToRel(<, Nat)
    BY <1>2, NatLessThanWellFounded, WFMin
  <2>2. OpToRel(<, Nat) = {p \in Nat \X Nat : p[1] < p[2]}
    BY DEF OpToRel
  <2>3. ASSUME NEW k \in left PROVE i <= k
    <3>1. k \in Nat /\ i \in Nat /\ <<k, i>> \in Nat \X Nat
      BY <1>2
    <3>2. ~(k < i)
      BY <2>1, <2>2, <3>1
    <3> QED BY <3>1, <3>2
  <2> QED BY <2>3
<1>4. (CHOOSE i \in left : \A k \in left : i <= k) \in left
  BY <1>3
<1> QED BY <1>4 DEF NextType, TypeSet

(* What does not change stays good while jobs, events and captures only    *)
(* grow in number.                                                         *)
LEMMA Untouched ==
  ASSUME IInv, DOMAIN jobs \subseteq DOMAIN jobs', DOMAIN events \subseteq DOMAIN events',
         took \subseteq took'
  PROVE  /\ \A j \in DOMAIN jobs : jobs'[j] = jobs[j] => GoodJob(j)'
         /\ \A w \in Slots : slot'[w] = slot[w] => GoodSlot(w)'
<1>1. ASSUME NEW j \in DOMAIN jobs, jobs'[j] = jobs[j] PROVE GoodJob(j)'
  BY <1>1 DEF IInv, GoodJob
<1>2. ASSUME NEW w \in Slots, slot'[w] = slot[w] PROVE GoodSlot(w)'
  BY <1>2 DEF IInv, GoodSlot
<1> QED BY <1>1, <1>2

(* A new job. *)
LEMMA Appended ==
  ASSUME IInv, jobs' = Append(jobs, Job), took' = took, ActiveJobs = {}
  PROVE  /\ jobs' \in Seq(JobType) /\ Len(jobs') = Len(jobs) + 1
         /\ DOMAIN jobs' = DOMAIN jobs \cup {Len(jobs) + 1}
         /\ \A j \in DOMAIN jobs : jobs'[j] = jobs[j]
         /\ \A j \in DOMAIN jobs' : GoodJob(j)'
         /\ OneActive'
<1>1. Job \in JobType
  BY DEF Job, JobType, Active
<1>2. jobs \in Seq(JobType)
  BY DEF IInv
<1>3. /\ jobs' \in Seq(JobType) /\ Len(jobs') = Len(jobs) + 1
      /\ DOMAIN jobs' = DOMAIN jobs \cup {Len(jobs) + 1}
      /\ \A j \in DOMAIN jobs : jobs'[j] = jobs[j]
      /\ jobs'[Len(jobs) + 1] = Job
  BY <1>1, <1>2
<1>4. ASSUME NEW j \in DOMAIN jobs' PROVE GoodJob(j)'
  <2>1. CASE j \in DOMAIN jobs
    BY <1>3, <2>1 DEF IInv, GoodJob
  <2>2. CASE j = Len(jobs) + 1
    <3>1. jobs'[j] = Job
      BY <1>3, <2>2
    <3>2. /\ Job.token = 0 /\ Job.status = "queued" /\ Job.results = {}
      BY DEF Job
    <3> QED BY <1>1, <3>1, <3>2 DEF GoodJob
  <2> QED BY <1>3, <2>1, <2>2
<1>5. OneActive'
  BY <1>3 DEF OneActive, ActiveJobs
<1> QED BY <1>3, <1>4, <1>5

(* A step that changes one job and does not wake it up. *)
LEMMA JobStep ==
  ASSUME IInv, NEW i \in DOMAIN jobs, NEW job \in JobType, jobs' = [jobs EXCEPT ![i] = job],
         DOMAIN events \subseteq DOMAIN events', took \subseteq took',
         GoodJob(i)', job.status \in Active => jobs[i].status \in Active
  PROVE  /\ jobs' \in Seq(JobType) /\ DOMAIN jobs' = DOMAIN jobs /\ Len(jobs') = Len(jobs)
         /\ OneActive' /\ \A j \in DOMAIN jobs : GoodJob(j)'
<1>1. jobs \in Seq(JobType)
  BY DEF IInv
<1>2. /\ jobs' \in Seq(JobType) /\ DOMAIN jobs' = DOMAIN jobs /\ Len(jobs') = Len(jobs)
      /\ jobs'[i] = job /\ \A j \in DOMAIN jobs : j # i => jobs'[j] = jobs[j]
  BY <1>1
<1>3. OneActive'
  BY <1>2 DEF IInv, OneActive, ActiveJobs
<1>4. \A j \in DOMAIN jobs : GoodJob(j)'
  BY <1>2, Untouched
<1> QED BY <1>2, <1>3, <1>4

(* A step that changes one slot. *)
LEMMA SlotStep ==
  ASSUME IInv, NEW w \in Slots, NEW x \in SlotType, slot' = [slot EXCEPT ![w] = x],
         DOMAIN jobs \subseteq DOMAIN jobs', DOMAIN events \subseteq DOMAIN events',
         took \subseteq took', GoodSlot(w)'
  PROVE  slot' \in [Slots -> SlotType] /\ \A v \in Slots : GoodSlot(v)'
<1>1. slot \in [Slots -> SlotType]
  BY DEF IInv
<1>2. slot' \in [Slots -> SlotType] /\ \A v \in Slots : v # w => slot'[v] = slot[v]
  BY <1>1
<1> QED BY <1>2, Untouched

(* Events that are left alone. *)
LEMMA SameEvents ==
  ASSUME IInv, events' = events, covered' = covered, jobs' \in Seq(JobType),
         Len(jobs) <= Len(jobs')
  PROVE  GoodEvents'
<1>1. Len(jobs) \in Nat /\ Len(jobs') \in Nat
  BY DEF IInv
<1> QED BY <1>1 DEF IInv, GoodEvents

(* Events that are given to a job. *)
LEMMA Given ==
  ASSUME IInv, covered' = covered, jobs' \in Seq(JobType), Len(jobs) <= Len(jobs'),
         NEW n \in 0..Len(jobs'), Give(n)
  PROVE  GoodEvents' /\ DOMAIN events' = DOMAIN events
<1>1. Len(jobs) \in Nat /\ Len(jobs') \in Nat /\ events \in Seq(EventType)
  BY DEF IInv, GoodEvents
<1> DEFINE given(e) == IF e \in Pending THEN [events[e] EXCEPT !.done = TRUE, !.job = n]
                       ELSE events[e]
<1>d. events' = [e \in DOMAIN events |-> given(e)]
  BY DEF Give
<1>g. ASSUME NEW e \in DOMAIN events
      PROVE  given(e) \in EventType /\ given(e).job \in 0..Len(jobs')
  <2>1. events[e] \in EventType /\ events[e].job \in 0..Len(jobs')
    BY <1>1 DEF IInv, GoodEvents
  <2>2. n \in Nat
    BY <1>1
  <2> QED BY <2>1, <2>2 DEF EventType
<1> HIDE DEF given
<1>2. DOMAIN events' = DOMAIN events /\ DOMAIN events = 1..Len(events) /\ Len(events) \in Nat
  BY <1>1, <1>d
<1>3. ASSUME NEW e \in DOMAIN events PROVE events'[e] \in EventType /\ events'[e].job \in 0..Len(jobs')
  BY <1>d, <1>g
<1>4. events' \in Seq(EventType)
  BY <1>2, <1>d, <1>g
<1> QED BY <1>2, <1>3, <1>4 DEF IInv, GoodEvents

-----------------------------------------------------------------------------
LEMMA EnqueueIInv == IInv /\ Enqueue => IInv'
<1> SUFFICES ASSUME IInv, Enqueue PROVE IInv'
    OBVIOUS
<1>1. /\ jobs' = Append(jobs, Job) /\ ActiveJobs = {}
      /\ UNCHANGED <<slot, lock, incident, events, scan, upsets, covered, took, lastEnd>>
  BY DEF Enqueue
<1>2. /\ jobs' \in Seq(JobType) /\ Len(jobs') = Len(jobs) + 1
      /\ DOMAIN jobs \subseteq DOMAIN jobs' /\ OneActive' /\ \A j \in DOMAIN jobs' : GoodJob(j)'
  BY <1>1, Appended
<1>3. Len(jobs) <= Len(jobs')
  BY <1>2 DEF IInv
<1>4. GoodEvents' /\ \A w \in Slots : GoodSlot(w)'
  BY <1>1, <1>2, <1>3, SameEvents, Untouched
<1>5. Rest'
  BY <1>1 DEF IInv, Rest, IncidentTellsTheLastOutcome
<1> QED BY <1>1, <1>2, <1>4, <1>5 DEF IInv

LEMMA CancelIInv ==
  ASSUME IInv, NEW j \in DOMAIN jobs, Cancel(j)
  PROVE  IInv'
<1> DEFINE job == [jobs[j] EXCEPT !.cancel = TRUE,
                                  !.status = IF @ = "queued" THEN "cancelled" ELSE @]
<1>1. /\ jobs' = [jobs EXCEPT ![j] = job] /\ jobs[j].status \in Active
      /\ UNCHANGED <<slot, lock, incident, events, scan, upsets, covered, took, lastEnd>>
  BY DEF Cancel
<1>2. jobs \in Seq(JobType) /\ jobs[j] \in JobType /\ GoodJob(j)
  BY DEF IInv, GoodJob
<1>3. job \in JobType /\ job.token = jobs[j].token /\ job.attempts = jobs[j].attempts
      /\ job.results = jobs[j].results
      /\ job.status = IF jobs[j].status = "queued" THEN "cancelled" ELSE jobs[j].status
  BY <1>2 DEF JobType, Active, Final
<1>4. jobs'[j] = job
  BY <1>1, <1>2
<1> HIDE DEF job
<1>5. GoodJob(j)'
  BY <1>1, <1>2, <1>3, <1>4 DEF GoodJob, Active
<1>6. /\ jobs' \in Seq(JobType) /\ DOMAIN jobs' = DOMAIN jobs /\ Len(jobs') = Len(jobs)
      /\ OneActive' /\ \A i \in DOMAIN jobs : GoodJob(i)'
  BY <1>1, <1>3, <1>5, JobStep
<1>7. Len(jobs) <= Len(jobs')
  BY <1>2, <1>6
<1>8. GoodEvents' /\ \A w \in Slots : GoodSlot(w)'
  BY <1>1, <1>6, <1>7, SameEvents, Untouched
<1>9. Rest'
  BY <1>1 DEF IInv, Rest, IncidentTellsTheLastOutcome
<1> QED BY <1>1, <1>6, <1>8, <1>9 DEF IInv

LEMMA LeaseExpiresIInv ==
  ASSUME IInv, NEW j \in DOMAIN jobs, LeaseExpires(j)
  PROVE  IInv'
<1> DEFINE job == [jobs[j] EXCEPT !.expired = TRUE]
<1>1. /\ jobs' = [jobs EXCEPT ![j] = job] /\ jobs[j].status = "running"
      /\ UNCHANGED <<slot, lock, incident, events, scan, upsets, covered, took, lastEnd>>
  BY DEF LeaseExpires
<1>2. jobs \in Seq(JobType) /\ jobs[j] \in JobType /\ GoodJob(j)
  BY DEF IInv, GoodJob
<1>3. job \in JobType /\ job.token = jobs[j].token /\ job.attempts = jobs[j].attempts
      /\ job.results = jobs[j].results /\ job.status = jobs[j].status
  BY <1>2 DEF JobType
<1>4. jobs'[j] = job
  BY <1>1, <1>2
<1> HIDE DEF job
<1>5. GoodJob(j)'
  BY <1>1, <1>2, <1>3, <1>4 DEF GoodJob
<1>6. /\ jobs' \in Seq(JobType) /\ DOMAIN jobs' = DOMAIN jobs /\ Len(jobs') = Len(jobs)
      /\ OneActive' /\ \A i \in DOMAIN jobs : GoodJob(i)'
  BY <1>1, <1>3, <1>5, JobStep
<1>7. Len(jobs) <= Len(jobs')
  BY <1>2, <1>6
<1>8. GoodEvents' /\ \A w \in Slots : GoodSlot(w)'
  BY <1>1, <1>6, <1>7, SameEvents, Untouched
<1>9. Rest'
  BY <1>1 DEF IInv, Rest, IncidentTellsTheLastOutcome
<1> QED BY <1>1, <1>6, <1>8, <1>9 DEF IInv

LEMMA ChangeEventIInv == IInv /\ ChangeEvent => IInv'
<1> SUFFICES ASSUME IInv, ChangeEvent PROVE IInv'
    OBVIOUS
<1> DEFINE event == [done |-> FALSE, job |-> 0, linked |-> FALSE, amid |-> scan]
<1>1. /\ events' = Append(events, event)
      /\ UNCHANGED <<jobs, slot, lock, incident, scan, upsets, covered, took, lastEnd>>
  BY DEF ChangeEvent
<1>2. event \in EventType
  BY DEF IInv, Rest, EventType
<1>3. events \in Seq(EventType) /\ jobs \in Seq(JobType) /\ Len(jobs) \in Nat
  BY DEF IInv, GoodEvents
<1>4. event.job = 0
  OBVIOUS
<1> HIDE DEF event
<1>5. /\ events' \in Seq(EventType) /\ DOMAIN events' = DOMAIN events \cup {Len(events) + 1}
      /\ events'[Len(events) + 1] = event /\ \A e \in DOMAIN events : events'[e] = events[e]
  BY <1>1, <1>2, <1>3
<1>6. GoodEvents'
  BY <1>1, <1>3, <1>4, <1>5 DEF IInv, GoodEvents
<1>7. (\A j \in DOMAIN jobs' : GoodJob(j)') /\ \A w \in Slots : GoodSlot(w)'
  BY <1>1, <1>5, Untouched
<1>8. Rest'
  BY <1>1 DEF IInv, Rest, IncidentTellsTheLastOutcome
<1>9. OneActive'
  BY <1>1 DEF IInv, OneActive, ActiveJobs
<1>10. jobs' \in Seq(JobType) /\ slot' \in [Slots -> SlotType]
  BY <1>1 DEF IInv
<1> QED BY <1>6, <1>7, <1>8, <1>9, <1>10 DEF IInv

LEMMA ScanReadsIInv == IInv /\ ScanReads => IInv'
<1> SUFFICES ASSUME IInv, ScanReads PROVE IInv'
    OBVIOUS
<1>1. /\ scan' = TRUE
      /\ UNCHANGED <<jobs, slot, lock, incident, events, upsets, covered, took, lastEnd>>
  BY DEF ScanReads
<1>2. GoodEvents' /\ OneActive'
  BY <1>1 DEF IInv, GoodEvents, OneActive, ActiveJobs
<1>3. (\A j \in DOMAIN jobs' : GoodJob(j)') /\ \A w \in Slots : GoodSlot(w)'
  BY <1>1, Untouched
<1>4. Rest'
  BY <1>1 DEF IInv, Rest, IncidentTellsTheLastOutcome
<1>5. jobs' \in Seq(JobType) /\ slot' \in [Slots -> SlotType]
  BY <1>1 DEF IInv
<1> QED BY <1>2, <1>3, <1>4, <1>5 DEF IInv

LEMMA ScanQueuesIInv == IInv /\ ScanQueues => IInv'
<1> SUFFICES ASSUME IInv, ScanQueues PROVE IInv'
    OBVIOUS
<1>1. scan' = FALSE /\ UNCHANGED <<slot, lock, incident, upsets, covered, took, lastEnd>>
  BY DEF ScanQueues
<1>2. Rest'
  BY <1>1 DEF IInv, Rest, IncidentTellsTheLastOutcome
<1>3. jobs \in Seq(JobType) /\ Len(jobs) \in Nat /\ DOMAIN jobs = 1..Len(jobs)
  BY DEF IInv
<1>4. CASE \E n \in 0..Len(jobs) : Give(n) /\ UNCHANGED jobs
  <2>1. PICK n \in 0..Len(jobs) : Give(n) /\ UNCHANGED jobs
    BY <1>4
  <2>2. GoodEvents' /\ DOMAIN events' = DOMAIN events
    BY <1>1, <1>3, <2>1, Given
  <2>3. (\A j \in DOMAIN jobs' : GoodJob(j)') /\ \A w \in Slots : GoodSlot(w)'
    BY <1>1, <2>1, <2>2, Untouched
  <2>4. OneActive'
    BY <2>1 DEF IInv, OneActive, ActiveJobs
  <2>5. jobs' \in Seq(JobType) /\ slot' \in [Slots -> SlotType]
    BY <1>1, <2>1 DEF IInv
  <2> QED BY <1>2, <2>2, <2>3, <2>4, <2>5 DEF IInv
<1>5. CASE ActiveJobs = {} /\ jobs' = Append(jobs, Job) /\ Give(Len(jobs) + 1)
  <2>1. /\ jobs' \in Seq(JobType) /\ Len(jobs') = Len(jobs) + 1
        /\ DOMAIN jobs \subseteq DOMAIN jobs' /\ OneActive' /\ \A j \in DOMAIN jobs' : GoodJob(j)'
    BY <1>1, <1>5, Appended
  <2>2. Len(jobs) <= Len(jobs') /\ Len(jobs) + 1 \in 0..Len(jobs')
    BY <1>3, <2>1
  <2>3. GoodEvents' /\ DOMAIN events' = DOMAIN events
    BY <1>1, <1>5, <2>1, <2>2, Given
  <2>4. \A w \in Slots : GoodSlot(w)'
    BY <1>1, <2>1, <2>3, Untouched
  <2> QED BY <1>1, <1>2, <2>1, <2>3, <2>4 DEF IInv
<1>6. ActiveJobs \subseteq 0..Len(jobs)
  BY <1>3 DEF ActiveJobs
<1> QED BY <1>3, <1>4, <1>5, <1>6 DEF ScanQueues

-----------------------------------------------------------------------------
(* A step of one slot that leaves jobs, events and captures alone. *)
LEMMA SlotOnly ==
  ASSUME IInv, NEW w \in Slots, NEW x \in SlotType, slot' = [slot EXCEPT ![w] = x],
         UNCHANGED <<jobs, incident, events, scan, covered, took, lastEnd>>,
         lock' \in Slots \cup {"none"}, upsets' \in 0..MaxUpsets, GoodSlot(w)'
  PROVE  IInv'
<1>1. jobs' = jobs /\ events' = events /\ took' = took /\ covered' = covered
  OBVIOUS
<1>2. slot' \in [Slots -> SlotType] /\ \A v \in Slots : GoodSlot(v)'
  BY <1>1, SlotStep
<1>3. \A j \in DOMAIN jobs' : GoodJob(j)'
  BY <1>1, Untouched
<1>4. jobs' \in Seq(JobType) /\ OneActive'
  BY <1>1 DEF IInv, OneActive, ActiveJobs
<1>5. GoodEvents'
  BY <1>1 DEF IInv, GoodEvents
<1>6. Rest'
  <2>1. incident' = incident /\ lastEnd' = lastEnd
    OBVIOUS
  <2> QED BY <2>1 DEF IInv, Rest, IncidentTellsTheLastOutcome
<1> QED BY <1>2, <1>3, <1>4, <1>5, <1>6 DEF IInv

(* The end of an attempt that has a job. *)
LEMMA EndsIInv ==
  ASSUME IInv, NEW w \in Slots, NEW status \in Outcomes, slot[w].phase # "idle",
         status = "success" => TypeSet \subseteq slot[w].results, Ends(w, status),
         UNCHANGED <<jobs, incident, events, scan, upsets, covered, took, lastEnd>>,
         lock' \in Slots \cup {"none"}
  PROVE  IInv'
<1> DEFINE x == [slot[w] EXCEPT !.phase = "finish", !.status = status, !.seen = {}]
<1>1. slot[w] \in SlotType /\ GoodSlot(w) /\ slot \in [Slots -> SlotType]
  BY DEF IInv, GoodSlot
<1>2. /\ x \in SlotType /\ x.phase = "finish" /\ x.status = status /\ x.seen = {}
      /\ x.job = slot[w].job /\ x.token = slot[w].token /\ x.results = slot[w].results
  BY <1>1 DEF SlotType
<1>3. slot' = [slot EXCEPT ![w] = x]
  BY DEF Ends, Becomes
<1> HIDE DEF x
<1>4. slot'[w] = x
  BY <1>1, <1>3
<1>5. GoodSlot(w)'
  BY <1>1, <1>2, <1>4 DEF GoodSlot
<1>6. upsets' \in 0..MaxUpsets
  BY DEF IInv, Rest
<1> QED BY <1>2, <1>3, <1>5, <1>6, SlotOnly

LEMMA CheckIInv ==
  ASSUME IInv, NEW w \in Slots, Check(w)
  PROVE  IInv'
<1>1. /\ slot[w].phase = "check"
      /\ UNCHANGED <<jobs, incident, events, scan, upsets, covered, took, lastEnd>>
  BY DEF Check
<1>2. slot[w] \in SlotType /\ GoodSlot(w) /\ slot \in [Slots -> SlotType]
  BY DEF IInv, GoodSlot
<1>3. lock \in Slots \cup {"none"} /\ upsets' \in 0..MaxUpsets
  BY <1>1 DEF IInv, Rest
<1>4. CASE Complete(w) /\ Ends(w, "success") /\ UNCHANGED lock
  BY <1>1, <1>3, <1>4, EndsIInv DEF Complete, Outcomes
<1>5. CASE Becomes(w, Idle) /\ UNCHANGED lock
  <2>1. Idle \in SlotType /\ slot' = [slot EXCEPT ![w] = Idle]
    BY <1>5 DEF Idle, SlotType, Becomes
  <2>2. slot'[w] = Idle
    BY <1>2, <2>1
  <2>3. GoodSlot(w)'
    BY <2>1, <2>2 DEF GoodSlot, Idle
  <2> QED BY <1>1, <1>3, <1>5, <2>1, <2>3, SlotOnly
<1>6. CASE Ends(w, "cancelled") /\ UNCHANGED lock
  BY <1>1, <1>3, <1>6, EndsIInv DEF Outcomes
<1>7. CASE /\ ~Complete(w) /\ lock' = w
           /\ Becomes(w, [slot[w] EXCEPT !.phase = "capture", !.seen = DOMAIN events])
  <2> DEFINE x == [slot[w] EXCEPT !.phase = "capture", !.seen = DOMAIN events]
  <2>1. DOMAIN events \subseteq Nat
    BY DEF IInv, GoodEvents
  <2>2. /\ x \in SlotType /\ x.phase = "capture" /\ x.seen = DOMAIN events
        /\ x.job = slot[w].job /\ x.token = slot[w].token /\ x.results = slot[w].results
    BY <1>2, <2>1 DEF SlotType
  <2>3. slot' = [slot EXCEPT ![w] = x]
    BY <1>7 DEF Becomes
  <2> HIDE DEF x
  <2>4. slot'[w] = x
    BY <1>2, <2>3
  <2>5. GoodSlot(w)'
    BY <1>1, <1>2, <1>7, <2>2, <2>4 DEF GoodSlot, Complete
  <2>6. lock' \in Slots \cup {"none"}
    BY <1>7
  <2> QED BY <1>1, <1>3, <2>2, <2>3, <2>5, <2>6, SlotOnly
<1>8. CASE Ends(w, Retried(w)) /\ UNCHANGED lock
  <2>1. Retried(w) \in Outcomes /\ Retried(w) # "success"
    BY DEF Retried, Outcomes
  <2> QED BY <1>1, <1>3, <1>8, <2>1, EndsIInv
<1> QED BY <1>4, <1>5, <1>6, <1>7, <1>8 DEF Check

LEMMA CaptureFailsIInv ==
  ASSUME IInv, NEW w \in Slots, CaptureFails(w)
  PROVE  IInv'
<1>1. /\ slot[w].phase = "capture" /\ lock' = "none"
      /\ UNCHANGED <<jobs, incident, events, scan, upsets, covered, took, lastEnd>>
  BY DEF CaptureFails
<1>2. PICK status \in {"failed", Retried(w)} : Ends(w, status)
  BY DEF CaptureFails
<1>3. status \in Outcomes /\ status # "success"
  BY DEF Retried, Outcomes
<1> QED BY <1>1, <1>2, <1>3, EndsIInv

LEMMA HeartbeatStopsIInv ==
  ASSUME IInv, NEW w \in Slots, HeartbeatStops(w)
  PROVE  IInv'
<1> DEFINE x == [slot[w] EXCEPT !.beats = FALSE]
<1>1. /\ slot' = [slot EXCEPT ![w] = x] /\ slot[w] # Idle
      /\ upsets < MaxUpsets /\ upsets' = upsets + 1
      /\ UNCHANGED <<jobs, lock, incident, events, scan, covered, took, lastEnd>>
  BY DEF HeartbeatStops, Becomes, Upset
<1>2. slot[w] \in SlotType /\ GoodSlot(w) /\ slot \in [Slots -> SlotType]
  BY DEF IInv, GoodSlot
<1>3. lock' \in Slots \cup {"none"} /\ upsets' \in 0..MaxUpsets
  BY <1>1, NcmJobsAssumption DEF IInv, Rest
<1>4. /\ x \in SlotType /\ x.phase = slot[w].phase /\ x.job = slot[w].job
      /\ x.token = slot[w].token /\ x.status = slot[w].status
      /\ x.results = slot[w].results /\ x.seen = slot[w].seen
  BY <1>2 DEF SlotType
<1> HIDE DEF x
<1>5. slot'[w] = x
  BY <1>1, <1>2
<1>6. GoodSlot(w)'
  BY <1>1, <1>2, <1>4, <1>5 DEF GoodSlot
<1> QED BY <1>1, <1>3, <1>4, <1>6, SlotOnly

(* A process that stops leaves every slot idle. *)
LEMMA StopIInv ==
  ASSUME IInv, Stop, upsets' \in 0..MaxUpsets
  PROVE  IInv'
<1>1. /\ slot' = [w \in Slots |-> Idle] /\ lock' = "none"
      /\ UNCHANGED <<jobs, incident, events, scan, covered, took, lastEnd>>
  BY DEF Stop
<1>2. Idle \in SlotType
  BY DEF Idle, SlotType
<1>3. slot' \in [Slots -> SlotType]
  BY <1>1, <1>2
<1>4. ASSUME NEW w \in Slots PROVE GoodSlot(w)'
  BY <1>1, <1>2 DEF GoodSlot, Idle
<1>5. \A j \in DOMAIN jobs' : GoodJob(j)'
  BY <1>1, Untouched
<1>6. jobs' \in Seq(JobType) /\ OneActive'
  BY <1>1 DEF IInv, OneActive, ActiveJobs
<1>7. GoodEvents'
  BY <1>1 DEF IInv, GoodEvents
<1>8. Rest'
  BY <1>1 DEF IInv, Rest, IncidentTellsTheLastOutcome
<1> QED BY <1>3, <1>4, <1>5, <1>6, <1>7, <1>8 DEF IInv

-----------------------------------------------------------------------------
(* A step of one job and one slot. *)
LEMMA JobAndSlot ==
  ASSUME IInv, NEW w \in Slots, NEW x \in SlotType, slot' = [slot EXCEPT ![w] = x],
         NEW i \in DOMAIN jobs, NEW job \in JobType, jobs' = [jobs EXCEPT ![i] = job],
         UNCHANGED <<lock, events, scan, upsets, covered, took>>,
         GoodJob(i)', job.status \in Active => jobs[i].status \in Active,
         GoodSlot(w)', incident' \in BOOLEAN, IncidentTellsTheLastOutcome'
  PROVE  IInv'
<1>1. /\ jobs' \in Seq(JobType) /\ DOMAIN jobs' = DOMAIN jobs /\ Len(jobs') = Len(jobs)
      /\ OneActive' /\ \A j \in DOMAIN jobs : GoodJob(j)'
  BY JobStep
<1>2. slot' \in [Slots -> SlotType] /\ \A v \in Slots : GoodSlot(v)'
  BY <1>1, SlotStep
<1>3. Len(jobs) <= Len(jobs')
  BY <1>1 DEF IInv
<1>4. GoodEvents'
  BY <1>1, <1>3, SameEvents
<1>5. Rest'
  BY DEF IInv, Rest
<1> QED BY <1>1, <1>2, <1>4, <1>5 DEF IInv

LEMMA ClaimIInv ==
  ASSUME IInv, NEW w \in Slots, NEW j \in DOMAIN jobs, Claim(w, j)
  PROVE  IInv'
<1> DEFINE attempts == jobs[j].attempts + 1
           job == [jobs[j] EXCEPT !.status = "running", !.attempts = @ + 1,
                                  !.token = attempts, !.expired = FALSE]
           x == [Idle EXCEPT !.phase = IF Exhausted(attempts) THEN "finish" ELSE "check",
                             !.status = IF Exhausted(attempts) THEN "failed" ELSE "none",
                             !.job = j, !.token = attempts, !.results = jobs[j].results]
<1>1. /\ Claimable(j) /\ jobs' = [jobs EXCEPT ![j] = job] /\ slot' = [slot EXCEPT ![w] = x]
      /\ UNCHANGED <<lock, incident, events, scan, upsets, covered, took, lastEnd>>
  BY DEF Claim, Becomes
<1>2. /\ jobs \in Seq(JobType) /\ jobs[j] \in JobType /\ GoodJob(j)
      /\ slot \in [Slots -> SlotType] /\ j \in Nat
  BY DEF IInv, GoodJob
<1>3. attempts \in Nat /\ attempts # 0
  BY <1>2 DEF JobType
<1>4. /\ job \in JobType /\ job.status = "running" /\ job.attempts = attempts
      /\ job.token = attempts /\ job.results = jobs[j].results
  BY <1>2, <1>3 DEF JobType, Active
<1>5. /\ x.phase \in {"finish", "check"} /\ x.status \in {"failed", "none"} /\ x.job = j
      /\ x.token = attempts /\ x.results = jobs[j].results /\ x.seen = {} /\ x.beats = TRUE
      /\ x.phase = "finish" => x.status = "failed"
  BY DEF Idle
<1>6. x \in SlotType
  <2>1. jobs[j].results \subseteq TypeSet
    BY <1>2 DEF JobType
  <2> QED BY <1>2, <1>3, <2>1 DEF SlotType, Idle, Outcomes
<1>7. jobs'[j] = job /\ slot'[w] = x /\ DOMAIN jobs' = DOMAIN jobs
  BY <1>1, <1>2
<1> HIDE DEF job, x, attempts
<1>8. GoodJob(j)'
  BY <1>1, <1>2, <1>3, <1>4, <1>7 DEF GoodJob
<1>9. GoodSlot(w)'
  BY <1>1, <1>2, <1>3, <1>5, <1>6, <1>7 DEF GoodSlot, GoodJob, Outcomes
<1>10. jobs[j].status \in Active
  BY <1>1 DEF Claimable, Active
<1>11. incident' \in BOOLEAN /\ IncidentTellsTheLastOutcome'
  BY <1>1 DEF IInv, Rest, IncidentTellsTheLastOutcome
<1> QED BY <1>1, <1>4, <1>6, <1>8, <1>9, <1>10, <1>11, JobAndSlot

LEMMA StoreIInv ==
  ASSUME IInv, NEW w \in Slots, Store(w)
  PROVE  IInv'
<1>1. slot[w] \in SlotType /\ GoodSlot(w) /\ slot \in [Slots -> SlotType] /\ jobs \in Seq(JobType)
  BY DEF IInv, GoodSlot
<1>2. slot[w].phase = "store"
  BY DEF Store
<1>3. PICK i \in DOMAIN jobs : i = slot[w].job
  BY <1>1, <1>2 DEF GoodSlot
<1> DEFINE job == [jobs[i] EXCEPT !.results = slot[w].results]
           x == [slot[w] EXCEPT !.phase = "check"]
<1>4. /\ slot' = [slot EXCEPT ![w] = x]
      /\ jobs' = IF Holds(w) THEN [jobs EXCEPT ![i] = job] ELSE jobs
      /\ UNCHANGED <<lock, incident, events, scan, upsets, covered, took, lastEnd>>
  BY <1>3 DEF Store, Turns, Becomes
<1>5. /\ x \in SlotType /\ x.phase = "check" /\ x.seen = slot[w].seen
      /\ x.job = i /\ x.token = slot[w].token /\ x.results = slot[w].results
  BY <1>1, <1>3 DEF SlotType
<1>6. slot[w].token # 0 /\ \A t \in slot[w].results : <<i, t>> \in took
  BY <1>1, <1>2, <1>3 DEF GoodSlot
<1>7. slot'[w] = x /\ DOMAIN jobs' = DOMAIN jobs
  BY <1>1, <1>4
<1>8. jobs[i] \in JobType /\ GoodJob(i)
  BY <1>1 DEF IInv
<1>9. job \in JobType /\ job.status = jobs[i].status /\ job.token = jobs[i].token
      /\ job.attempts = jobs[i].attempts /\ job.results = slot[w].results
  BY <1>1, <1>8 DEF JobType, SlotType
<1> HIDE DEF x, job
<1>10. GoodSlot(w)'
  BY <1>1, <1>2, <1>4, <1>5, <1>6, <1>7 DEF GoodSlot
<1>11. lock' \in Slots \cup {"none"} /\ upsets' \in 0..MaxUpsets
  BY <1>4 DEF IInv, Rest
<1>12. CASE ~Holds(w)
  BY <1>4, <1>5, <1>10, <1>11, <1>12, SlotOnly
<1>13. CASE Holds(w)
  <2>1. jobs[i].status = "running"
    BY <1>3, <1>6, <1>8, <1>13 DEF Holds, GoodJob
  <2>2. jobs' = [jobs EXCEPT ![i] = job] /\ jobs'[i] = job
    BY <1>1, <1>4, <1>13
  <2>3. GoodJob(i)'
    BY <1>4, <1>6, <1>8, <1>9, <2>1, <2>2 DEF GoodJob
  <2>4. incident' \in BOOLEAN /\ IncidentTellsTheLastOutcome'
    BY <1>4 DEF IInv, Rest, IncidentTellsTheLastOutcome
  <2> QED BY <1>4, <1>5, <1>9, <1>10, <2>1, <2>2, <2>3, <2>4, JobAndSlot DEF Active
<1> QED BY <1>12, <1>13

LEMMA FinishIInv ==
  ASSUME IInv, NEW w \in Slots, Finish(w)
  PROVE  IInv'
<1>1. slot[w] \in SlotType /\ GoodSlot(w) /\ slot \in [Slots -> SlotType] /\ jobs \in Seq(JobType)
  BY DEF IInv, GoodSlot
<1>2. /\ slot[w].phase = "finish" /\ slot' = [slot EXCEPT ![w] = Idle]
      /\ UNCHANGED <<lock, events, scan, upsets, covered, took>>
  BY DEF Finish, Becomes
<1>3. PICK i \in DOMAIN jobs : i = slot[w].job
  BY <1>1, <1>2 DEF GoodSlot
<1>4. Idle \in SlotType /\ slot'[w] = Idle
  BY <1>1, <1>2 DEF Idle, SlotType
<1>5. GoodSlot(w)'
  BY <1>4 DEF GoodSlot, Idle
<1>6. lock' \in Slots \cup {"none"} /\ upsets' \in 0..MaxUpsets
  BY <1>2 DEF IInv, Rest
<1>7. CASE ~Holds(w)
  <2>1. UNCHANGED <<jobs, incident, lastEnd>>
    BY <1>7 DEF Finish
  <2> QED BY <1>2, <1>4, <1>5, <1>6, <2>1, SlotOnly
<1>8. CASE Holds(w)
  <2> DEFINE status == slot[w].status
             job == [jobs[i] EXCEPT !.status = status, !.token = 0, !.expired = FALSE,
                                    !.results = slot[w].results]
  <2>1. /\ jobs' = [jobs EXCEPT ![i] = job] /\ incident' = IncidentAfter(status)
        /\ lastEnd' = IF status \in {"success", "failed"} THEN status ELSE lastEnd
    BY <1>1, <1>3, <1>8 DEF Finish
  <2>2. /\ jobs[i] \in JobType /\ GoodJob(i) /\ status \in Outcomes
        /\ \A t \in slot[w].results : <<i, t>> \in took
        /\ status = "success" => TypeSet \subseteq slot[w].results
    BY <1>1, <1>2, <1>3 DEF IInv, GoodSlot
  <2>3. jobs[i].status = "running"
    BY <1>1, <1>2, <1>3, <1>8, <2>2 DEF Holds, GoodJob, GoodSlot
  <2>4. job \in JobType /\ job.status = status /\ job.token = 0 /\ job.results = slot[w].results
    BY <1>1, <2>2 DEF JobType, SlotType, Outcomes, Active, Final
  <2>5. jobs'[i] = job
    BY <1>1, <2>1
  <2>6. incident' \in BOOLEAN /\ IncidentTellsTheLastOutcome'
    <3>1. CASE status = "failed"
      BY <2>1, <3>1 DEF IncidentAfter, IncidentTellsTheLastOutcome
    <3>2. CASE status = "success"
      BY <2>1, <3>2 DEF IncidentAfter, IncidentTellsTheLastOutcome
    <3>3. CASE status \notin {"failed", "success"}
      <4>1. incident' = incident /\ lastEnd' = lastEnd
        BY <2>1, <3>3 DEF IncidentAfter
      <4> QED BY <4>1 DEF IInv, Rest, IncidentTellsTheLastOutcome
    <3> QED BY <3>1, <3>2, <3>3
  <2> HIDE DEF job, status
  <2>7. GoodJob(i)'
    BY <1>2, <2>2, <2>4, <2>5 DEF GoodJob, Outcomes
  <2> QED BY <1>2, <1>4, <1>5, <2>1, <2>3, <2>4, <2>6, <2>7, JobAndSlot DEF Active
<1> QED BY <1>7, <1>8

(* A capture is stored, and the job's events linked to it. *)
LEMMA CapturedIInv ==
  ASSUME IInv, NEW w \in Slots, Captured(w)
  PROVE  IInv'
<1>1. /\ slot[w] \in SlotType /\ GoodSlot(w) /\ slot \in [Slots -> SlotType]
      /\ jobs \in Seq(JobType) /\ events \in Seq(EventType)
  BY DEF IInv, GoodSlot, GoodEvents
<1> DEFINE j == slot[w].job
           type == NextType(w)
           x == [slot[w] EXCEPT !.phase = "store", !.seen = {}, !.results = @ \cup {type}]
           linked(e) == IF events[e].job = j THEN [events[e] EXCEPT !.linked = TRUE] ELSE events[e]
<1>2. /\ slot[w].phase = "capture" /\ took' = took \cup {<<j, type>>} /\ lock' = "none"
      /\ covered' = IF type = "running" THEN covered \cup slot[w].seen ELSE covered
      /\ events' = [e \in DOMAIN events |-> linked(e)] /\ slot' = [slot EXCEPT ![w] = x]
      /\ UNCHANGED <<jobs, incident, scan, upsets, lastEnd>>
  BY DEF Captured, Becomes
<1>3. type \in TypeSet
  BY <1>1, <1>2, NextTypeIsLeft DEF GoodSlot
<1>4. /\ x \in SlotType /\ x.phase = "store" /\ x.seen = {}
      /\ x.job = j /\ x.token = slot[w].token /\ x.results = slot[w].results \cup {type}
  BY <1>1, <1>3 DEF SlotType
<1>5. ASSUME NEW e \in DOMAIN events
      PROVE  linked(e) \in EventType /\ linked(e).job = events[e].job
  <2>1. events[e] \in EventType
    BY <1>1
  <2> QED BY <2>1 DEF EventType
<1> HIDE DEF x, linked
<1>6. slot'[w] = x /\ jobs' = jobs /\ took \subseteq took'
  BY <1>1, <1>2
<1>7. GoodSlot(w)'
  <2>1. slot[w].job \in DOMAIN jobs /\ slot[w].token # 0 /\ \A t \in slot[w].results : <<j, t>> \in took
    BY <1>1, <1>2 DEF GoodSlot
  <2>2. \A t \in x.results : <<x.job, t>> \in took'
    BY <1>2, <1>4, <2>1
  <2> QED BY <1>4, <1>6, <2>1, <2>2 DEF GoodSlot
<1>8. DOMAIN events' = DOMAIN events /\ DOMAIN events = 1..Len(events) /\ Len(events) \in Nat
  BY <1>1, <1>2
<1>9. slot' \in [Slots -> SlotType] /\ \A v \in Slots : GoodSlot(v)'
  BY <1>2, <1>4, <1>6, <1>7, <1>8, SlotStep
<1>10. \A i \in DOMAIN jobs' : GoodJob(i)'
  BY <1>6, <1>8, Untouched
<1>11. GoodEvents'
  <2>1. events' \in Seq(EventType)
    BY <1>2, <1>5, <1>8
  <2>2. \A e \in DOMAIN events' : events'[e].job = events[e].job
    BY <1>2, <1>5, <1>8
  <2>3. covered' \subseteq DOMAIN events
    BY <1>1, <1>2 DEF IInv, GoodEvents, GoodSlot
  <2> QED BY <1>6, <1>8, <2>1, <2>2, <2>3 DEF IInv, GoodEvents
<1>12. jobs' \in Seq(JobType) /\ OneActive'
  BY <1>6 DEF IInv, OneActive, ActiveJobs
<1>13. Rest'
  BY <1>2 DEF IInv, Rest, IncidentTellsTheLastOutcome
<1> QED BY <1>9, <1>10, <1>11, <1>12, <1>13 DEF IInv

-----------------------------------------------------------------------------
LEMMA NextIInv == IInv /\ [Next]_vars => IInv'
<1> SUFFICES ASSUME IInv, [Next]_vars PROVE IInv'
    OBVIOUS
<1>1. CASE Enqueue
  BY <1>1, EnqueueIInv
<1>2. CASE ChangeEvent
  BY <1>2, ChangeEventIInv
<1>3. CASE ScanReads
  BY <1>3, ScanReadsIInv
<1>4. CASE ScanQueues
  BY <1>4, ScanQueuesIInv
<1>5. ASSUME NEW j \in DOMAIN jobs, Cancel(j) \/ LeaseExpires(j) PROVE IInv'
  BY <1>5, CancelIInv, LeaseExpiresIInv
<1>6. ASSUME NEW w \in Slots, Works(w) PROVE IInv'
  BY <1>6, ClaimIInv, CheckIInv, CapturedIInv, CaptureFailsIInv, StoreIInv, FinishIInv DEF Works
<1>7. ASSUME NEW w \in Slots, HeartbeatStops(w) PROVE IInv'
  BY <1>7, HeartbeatStopsIInv
<1>8. ASSUME NEW w \in Slots, HeartbeatFailed(w) PROVE IInv'
  <2>1. Stop /\ upsets' \in 0..MaxUpsets
    BY <1>8 DEF HeartbeatFailed, IInv, Rest
  <2> QED BY <2>1, StopIInv
<1>9. CASE Restart
  <2>1. Stop /\ upsets' \in 0..MaxUpsets
    BY <1>9, NcmJobsAssumption DEF Restart, Upset, IInv, Rest
  <2> QED BY <2>1, StopIInv
<1>10. CASE UNCHANGED vars
  <2>1. /\ jobs' = jobs /\ slot' = slot /\ events' = events /\ took' = took
        /\ covered' = covered
    BY <1>10 DEF vars
  <2>2. \A j \in DOMAIN jobs' : GoodJob(j)'
    BY <2>1, Untouched
  <2>3. \A w \in Slots : GoodSlot(w)'
    BY <2>1, Untouched
  <2>4. GoodEvents' /\ OneActive'
    BY <2>1 DEF IInv, GoodEvents, OneActive, ActiveJobs
  <2>5. Rest'
    BY <1>10 DEF vars, IInv, Rest, IncidentTellsTheLastOutcome
  <2>6. jobs' \in Seq(JobType) /\ slot' \in [Slots -> SlotType]
    BY <2>1 DEF IInv
  <2> QED BY <2>2, <2>3, <2>4, <2>5, <2>6 DEF IInv
<1> QED BY <1>1, <1>2, <1>3, <1>4, <1>5, <1>6, <1>7, <1>8, <1>9, <1>10 DEF Next

LEMMA AlwaysIInv == Spec => []IInv
<1> QED BY InitIInv, NextIInv, PTL DEF Spec

(* At most one job is queued or running. *)
LEMMA OneActiveCardinality == IInv => Cardinality(ActiveJobs) <= 1
<1> SUFFICES ASSUME IInv PROVE Cardinality(ActiveJobs) <= 1
    OBVIOUS
<1>1. CASE ActiveJobs = {}
  BY <1>1, FS_EmptySet
<1>2. ASSUME NEW j \in ActiveJobs PROVE Cardinality(ActiveJobs) <= 1
  <2>1. ActiveJobs = {j}
    BY <1>2 DEF IInv, OneActive
  <2> QED BY <2>1, FS_Singleton
<1> QED BY <1>1, <1>2

(* State keeps its shape, and the device has at most one queued or running *)
(* job, whose lease is held exactly while it runs (ncm_jobs.py).           *)
THEOREM TypeCorrect == Spec => []TypeOK
<1>1. IInv => TypeOK
  <2> SUFFICES ASSUME IInv PROVE TypeOK
      OBVIOUS
  <2>1. ASSUME NEW j \in DOMAIN jobs
        PROVE  /\ jobs[j].status \in Active \cup Final
               /\ jobs[j].token \in {0, jobs[j].attempts} /\ jobs[j].results \subseteq TypeSet
               /\ jobs[j].token # 0 <=> jobs[j].status = "running"
    <3>1. GoodJob(j)
      BY DEF IInv
    <3> QED BY <3>1 DEF GoodJob, JobType
  <2>2. ASSUME NEW w \in Slots, slot[w] # Idle
        PROVE  /\ slot[w].phase \in {"check", "capture", "store", "finish"}
               /\ slot[w].job \in DOMAIN jobs
    <3>1. GoodSlot(w)
      BY DEF IInv
    <3> QED BY <2>2, <3>1 DEF GoodSlot, SlotType
  <2>3. lock \in Slots \cup {"none"} /\ {incident, scan} \subseteq BOOLEAN /\ upsets \in 0..MaxUpsets
    BY DEF IInv, Rest
  <2> QED BY <2>1, <2>2, <2>3, OneActiveCardinality DEF TypeOK, IInv, GoodEvents
<1> QED BY <1>1, AlwaysIInv, PTL

(* A job that is reported successful captured every one of its types, over *)
(* whatever attempts, take-overs and restarts (_complete_job, ncm_jobs.py). *)
THEOREM SuccessComplete == Spec => []SuccessIsComplete
<1>1. IInv => SuccessIsComplete
  BY DEF IInv, GoodJob, SuccessIsComplete
<1> QED BY <1>1, AlwaysIInv, PTL

(* The device's backup-failure incident is open exactly when its last job  *)
(* that ran to an end failed: outcome and incident are one transaction.    *)
THEOREM IncidentTold == Spec => []IncidentTellsTheLastOutcome
<1>1. IInv => IncidentTellsTheLastOutcome
  BY DEF IInv, Rest
<1> QED BY <1>1, AlwaysIInv, PTL

(* Nothing rewrites a job that has ended, neither a slot that lost its     *)
(* lease and works on, nor a cancellation.                                 *)
THEOREM Finished == Spec => FinishedForGood
<1> DEFINE Kept == \A j \in DOMAIN jobs : jobs[j].status \in Final => jobs'[j] = jobs[j]
<1>1. IInv /\ [Next]_vars => [Kept]_vars
  <2> SUFFICES ASSUME IInv, Next, NEW j \in DOMAIN jobs, jobs[j].status \in Final
               PROVE  jobs'[j] = jobs[j]
      BY DEF vars
  <2>1. jobs \in Seq(JobType) /\ GoodJob(j) /\ jobs[j].token = 0 /\ jobs[j].status \notin Active
    BY DEF IInv, GoodJob, Final, Active
  <2>2. ASSUME jobs' = Append(jobs, Job) PROVE jobs'[j] = jobs[j]
    BY <2>1, <2>2
  <2>3. ASSUME NEW i, i # j, NEW job, jobs' = [jobs EXCEPT ![i] = job] PROVE jobs'[j] = jobs[j]
    BY <2>1, <2>3
  <2>4. CASE Enqueue \/ ChangeEvent \/ ScanReads \/ ScanQueues \/ Restart
    BY <2>2, <2>4 DEF Enqueue, ChangeEvent, ScanReads, ScanQueues, Restart, Stop
  <2>5. ASSUME NEW i \in DOMAIN jobs, Cancel(i) \/ LeaseExpires(i) PROVE jobs'[j] = jobs[j]
    <3>1. i # j
      BY <2>1, <2>5 DEF Cancel, LeaseExpires, Active
    <3>2. PICK job : jobs' = [jobs EXCEPT ![i] = job]
      BY <2>5 DEF Cancel, LeaseExpires
    <3> QED BY <2>3, <3>1, <3>2
  <2>6. ASSUME NEW w \in Slots, NEW i \in DOMAIN jobs, Claim(w, i) PROVE jobs'[j] = jobs[j]
    <3>1. i # j
      BY <2>1, <2>6 DEF Claim, Claimable, Active
    <3>2. PICK job : jobs' = [jobs EXCEPT ![i] = job]
      BY <2>6 DEF Claim
    <3> QED BY <2>3, <3>1, <3>2
  <2>7. ASSUME NEW w \in Slots, Store(w) \/ Finish(w) PROVE jobs'[j] = jobs[j]
    <3>1. slot[w].token # 0
      BY <2>7 DEF IInv, GoodSlot, Store, Finish
    <3>2. CASE Holds(w)
      <4>1. slot[w].job # j
        BY <2>1, <3>1, <3>2 DEF Holds
      <4>2. PICK job : jobs' = [jobs EXCEPT ![slot[w].job] = job]
        BY <2>7, <3>2 DEF Store, Finish
      <4> QED BY <2>3, <4>1, <4>2
    <3>3. CASE ~Holds(w)
      BY <2>7, <3>3 DEF Store, Finish
    <3> QED BY <3>2, <3>3
  <2>8. ASSUME NEW w \in Slots,
               Check(w) \/ Captured(w) \/ CaptureFails(w) \/ HeartbeatStops(w) \/ HeartbeatFailed(w)
        PROVE  jobs'[j] = jobs[j]
    BY <2>8 DEF Check, Captured, CaptureFails, HeartbeatStops, HeartbeatFailed, Stop
  <2> QED BY <2>4, <2>5, <2>6, <2>7, <2>8 DEF Next, Works
<1> QED BY <1>1, AlwaysIInv, PTL DEF Spec, FinishedForGood

-----------------------------------------------------------------------------
(***************************************************************************)
(* The version an event is linked to.                                      *)
(***************************************************************************)
(* The running configuration is captured before the others.  An operator   *)
(* may choose otherwise: such a job links its events to a startup version. *)
RunningFirst == \A i \in DOMAIN Types : Types[1] = "running"

Busy(w) == slot[w].phase # "idle"

(* No two slots have the same attempt of a job, and the latest attempt is  *)
(* only worked on while its job runs.                                      *)
Leases ==
    /\ \A w \in Slots : Busy(w) =>
         /\ slot[w].token <= jobs[slot[w].job].attempts
         /\ slot[w].token = jobs[slot[w].job].attempts => jobs[slot[w].job].status = "running"
    /\ \A v, w \in Slots : v # w /\ Busy(v) /\ Busy(w) /\ slot[v].job = slot[w].job => slot[v].token # slot[w].token
    /\ \A j \in DOMAIN jobs : jobs[j].attempts = 0 => jobs[j].results = {}

(* What the slots of a job capture of the running configuration will show, *)
(* or shows, the event.                                                    *)
Shows(e, j) ==
    \A w \in Slots : Busy(w) /\ slot[w].job = j =>
      /\ slot[w].phase = "capture" => e \in slot[w].seen
      /\ "running" \in slot[w].results => e \in covered

(* The job an event has, or may be given by the scan under way. *)
Bound(e, j) == events[e].job = j \/ (~events[e].done /\ scan /\ j \in ActiveJobs)

Link(e, j) ==
    /\ events[e].linked /\ events[e].job = j => jobs[j].attempts # 0
    /\ ~events[e].amid /\ jobs[j].attempts = 1 =>
         /\ Bound(e, j) => Shows(e, j)
         /\ events[e].linked /\ events[e].job = j => e \in covered

Links ==
    \A e \in DOMAIN events :
      /\ ~events[e].done => events[e].job = 0
      /\ events[e].linked => events[e].job # 0
      /\ \A j \in DOMAIN jobs : Link(e, j)

LInv == IInv /\ Leases /\ Links

(* Slots go on with the attempt they have, or stop. *)
Follows ==
    \A w \in Slots : slot'[w].phase # "idle" =>
      Busy(w) /\ slot'[w].job = slot[w].job /\ slot'[w].token = slot[w].token

(* And without a new capture, but one may begin. *)
Proceeds ==
    \A w \in Slots : slot'[w].phase # "idle" =>
      /\ slot'[w].results = slot[w].results
      /\ slot'[w].phase = "capture" =>
           slot'[w].seen = DOMAIN events \/ (slot[w].phase = "capture" /\ slot'[w].seen = slot[w].seen)

(* Jobs keep their attempts, none awakes, and new ones have no attempt.    *)
SameAttempts ==
    /\ DOMAIN jobs \subseteq DOMAIN jobs'
    /\ \A j \in DOMAIN jobs :
         /\ jobs'[j].attempts = jobs[j].attempts
         /\ jobs'[j].status \in Active => jobs[j].status \in Active
         /\ jobs[j].attempts = 0 => jobs'[j].results = jobs[j].results
    /\ \A j \in DOMAIN jobs' \ DOMAIN jobs : jobs'[j].attempts = 0 /\ jobs'[j].results = {}

(* The lease of a slot that goes on is not ended. *)
RunsOn ==
    \A w \in Slots : slot'[w].phase # "idle" /\ slot[w].token = jobs[slot[w].job].attempts
                       /\ jobs[slot[w].job].status = "running"
                     => jobs'[slot[w].job].status = "running"

SameElse == events' = events /\ covered' = covered /\ scan' = scan

LEMMA SlotFacts ==
    ASSUME IInv, NEW w \in Slots
    PROVE  /\ slot[w] \in SlotType /\ slot \in [Slots -> SlotType]
           /\ Busy(w) => slot[w].job \in DOMAIN jobs /\ slot[w].token \in Nat \ {0} /\ slot[w].job # 0
           /\ \A j \in DOMAIN jobs : jobs[j].attempts \in Nat /\ j \in Nat \ {0}
<1>1. GoodSlot(w) /\ slot \in [Slots -> SlotType] /\ jobs \in Seq(JobType)
  BY DEF IInv
<1>2. \A j \in DOMAIN jobs : jobs[j] \in JobType /\ j \in Nat \ {0}
  BY <1>1
<1>3. slot[w] \in SlotType /\ slot[w].token \in Nat
  BY <1>1 DEF SlotType
<1>4. Busy(w) => slot[w].job \in DOMAIN jobs /\ slot[w].token # 0
  BY <1>1 DEF GoodSlot, Busy
<1> QED BY <1>1, <1>2, <1>3, <1>4 DEF JobType

(* The only attempt of a job is worked on while it runs, by one slot. *)
LEMMA FirstAttempt ==
    ASSUME IInv, Leases, NEW w \in Slots, Busy(w), jobs[slot[w].job].attempts <= 1
    PROVE  jobs[slot[w].job].attempts = 1 /\ jobs[slot[w].job].status = "running"
<1>1. slot[w].token \in Nat \ {0} /\ jobs[slot[w].job].attempts \in Nat
  BY SlotFacts
<1>2. slot[w].token <= jobs[slot[w].job].attempts
  BY DEF Leases
<1>3. slot[w].token = jobs[slot[w].job].attempts /\ jobs[slot[w].job].attempts = 1
  BY <1>1, <1>2
<1> QED BY <1>3 DEF Leases

(* Whatever is no claim keeps the leases. *)
LEMMA LeasesKept ==
    ASSUME LInv, Follows, SameAttempts, RunsOn
    PROVE  Leases'
<1>1. ASSUME NEW w \in Slots, slot'[w].phase # "idle"
      PROVE  /\ Busy(w) /\ slot[w].job \in DOMAIN jobs
             /\ slot'[w].job = slot[w].job /\ slot'[w].token = slot[w].token
             /\ jobs'[slot[w].job].attempts = jobs[slot[w].job].attempts
             /\ slot[w].token <= jobs[slot[w].job].attempts
             /\ slot[w].token = jobs[slot[w].job].attempts => jobs'[slot[w].job].status = "running"
  <2>1. Busy(w) /\ slot'[w].job = slot[w].job /\ slot'[w].token = slot[w].token
    BY <1>1 DEF Follows
  <2>2. slot[w].job \in DOMAIN jobs
    BY <2>1, SlotFacts DEF LInv
  <2>3. /\ slot[w].token <= jobs[slot[w].job].attempts
        /\ slot[w].token = jobs[slot[w].job].attempts => jobs[slot[w].job].status = "running"
    BY <2>1 DEF LInv, Leases
  <2> QED BY <1>1, <2>1, <2>2, <2>3 DEF SameAttempts, RunsOn
<1>2. \A v, w \in Slots :
        v # w /\ Busy(v)' /\ Busy(w)' /\ slot'[v].job = slot'[w].job => slot'[v].token # slot'[w].token
  BY <1>1 DEF LInv, Leases, Busy
<1>3. \A j \in DOMAIN jobs' : jobs'[j].attempts = 0 => jobs'[j].results = {}
  BY DEF SameAttempts, LInv, Leases
<1> QED BY <1>1, <1>2, <1>3 DEF Leases, Busy

(* An event that a step leaves alone keeps its link to a job of which the  *)
(* slots only go on.                                                       *)
LEMMA LinkKept ==
    ASSUME LInv, Follows, Proceeds, NEW e \in DOMAIN events, NEW j \in DOMAIN jobs,
           jobs'[j].attempts = jobs[j].attempts, jobs'[j].status \in Active => jobs[j].status \in Active,
           covered' = covered, events'[e] = events[e], scan' => scan \/ events[e].done
    PROVE  Link(e, j)'
<1>1. Link(e, j)
  BY DEF LInv, Links
<1>2. Bound(e, j)' => Bound(e, j)
  BY DEF Bound, ActiveJobs
<1>3. ASSUME Shows(e, j) PROVE Shows(e, j)'
  <2>1. SUFFICES ASSUME NEW w \in Slots, slot'[w].phase # "idle", slot'[w].job = j
                 PROVE  /\ slot'[w].phase = "capture" => e \in slot'[w].seen
                        /\ "running" \in slot'[w].results => e \in covered
    BY DEF Shows, Busy
  <2>2. Busy(w) /\ slot[w].job = j
    BY <2>1 DEF Follows
  <2>3. /\ slot'[w].results = slot[w].results
        /\ slot'[w].phase = "capture" =>
             slot'[w].seen = DOMAIN events \/ (slot[w].phase = "capture" /\ slot'[w].seen = slot[w].seen)
    BY <2>1 DEF Proceeds
  <2> QED BY <1>3, <2>2, <2>3 DEF Shows
<1> QED BY <1>1, <1>2, <1>3 DEF Link

(* A job without an attempt has shown nothing. *)
LEMMA NewJobsLink ==
    ASSUME NEW e, NEW j, jobs'[j].attempts = 0, events'[e].linked => events'[e].job # j
    PROVE  Link(e, j)'
BY DEF Link

(* A step of the slots and the jobs that stores no capture. *)
LEMMA WorkStep ==
    ASSUME LInv, IInv', Follows, Proceeds, SameAttempts, RunsOn, SameElse
    PROVE  LInv'
<1>1. Leases'
  BY LeasesKept
<1>2. ASSUME NEW e \in DOMAIN events'
      PROVE  /\ ~events'[e].done => events'[e].job = 0
             /\ events'[e].linked => events'[e].job # 0
             /\ \A j \in DOMAIN jobs' : Link(e, j)'
  <2>1. /\ ~events'[e].done => events'[e].job = 0
        /\ events'[e].linked => events'[e].job # 0
    BY <1>2 DEF SameElse, LInv, Links
  <2>2. ASSUME NEW j \in DOMAIN jobs PROVE Link(e, j)'
    BY <1>2, <2>2, LinkKept DEF SameElse, SameAttempts
  <2>3. ASSUME NEW j \in DOMAIN jobs', j \notin DOMAIN jobs PROVE Link(e, j)'
    <3>1. jobs'[j].attempts = 0
      BY <2>3 DEF SameAttempts
    <3>2. events[e].job \in 0..Len(jobs) /\ jobs \in Seq(JobType)
      BY <1>2 DEF LInv, IInv, GoodEvents, SameElse
    <3>3. events'[e].linked => events'[e].job # j
      BY <2>1, <2>3, <3>2 DEF SameElse
    <3> QED BY <3>1, <3>3, NewJobsLink
  <2> QED BY <2>1, <2>2, <2>3
<1>3. Links'
  BY <1>2 DEF Links
<1> QED BY <1>1, <1>3 DEF LInv

(* Slots that are left alone. *)
LEMMA SlotsRest ==
    ASSUME slot' = slot
    PROVE  Follows /\ Proceeds
BY DEF Follows, Proceeds, Busy

LEMMA JobsRest ==
    ASSUME jobs' = jobs
    PROVE  SameAttempts /\ RunsOn
BY DEF SameAttempts, RunsOn

(* A job that changes, with the slot that holds it. *)
LEMMA OneJob ==
    ASSUME IInv, NEW i \in DOMAIN jobs, NEW job, jobs' = [jobs EXCEPT ![i] = job],
           job.attempts = jobs[i].attempts, job.status \in Active => jobs[i].status \in Active,
           jobs[i].attempts = 0 => job.results = jobs[i].results
    PROVE  SameAttempts /\ DOMAIN jobs' = DOMAIN jobs /\ jobs'[i] = job /\ \A j \in DOMAIN jobs \ {i} : jobs'[j] = jobs[j]
<1>1. jobs \in Seq(JobType)
  BY DEF IInv
<1>2. DOMAIN jobs' = DOMAIN jobs /\ jobs'[i] = job /\ \A j \in DOMAIN jobs \ {i} : jobs'[j] = jobs[j]
  BY <1>1
<1> QED BY <1>2 DEF SameAttempts

LEMMA NewJob ==
    ASSUME IInv, jobs' = Append(jobs, Job)
    PROVE  SameAttempts /\ \A j \in DOMAIN jobs : jobs'[j] = jobs[j]
<1>1. jobs \in Seq(JobType)
  BY DEF IInv
<1>2. /\ DOMAIN jobs' = DOMAIN jobs \cup {Len(jobs) + 1} /\ jobs'[Len(jobs) + 1] = Job
      /\ \A j \in DOMAIN jobs : jobs'[j] = jobs[j]
  BY <1>1
<1> QED BY <1>2 DEF SameAttempts, Job

LEMMA EnqueueLInv ==
    ASSUME LInv, Enqueue
    PROVE  LInv'
<1>1. /\ jobs' = Append(jobs, Job) /\ slot' = slot
      /\ UNCHANGED <<events, covered, scan>>
  BY DEF Enqueue
<1>2. SameAttempts /\ \A j \in DOMAIN jobs : jobs'[j] = jobs[j]
  BY <1>1, NewJob DEF LInv
<1>3. RunsOn
  <2>1. SUFFICES ASSUME NEW w \in Slots, slot'[w].phase # "idle" PROVE jobs'[slot[w].job] = jobs[slot[w].job]
    BY DEF RunsOn
  <2>2. slot[w].job \in DOMAIN jobs
    BY <1>1, <2>1, SlotFacts DEF Busy, LInv
  <2> QED BY <1>2, <2>2
<1>4. IInv'
  BY EnqueueIInv DEF LInv
<1> QED BY <1>1, <1>2, <1>3, <1>4, SlotsRest, WorkStep DEF SameElse

LEMMA CancelLInv ==
    ASSUME LInv, NEW j \in DOMAIN jobs, Cancel(j) \/ LeaseExpires(j)
    PROVE  LInv'
<1>1. PICK job \in {[jobs[j] EXCEPT !.cancel = TRUE, !.status = IF @ = "queued" THEN "cancelled" ELSE @],
                    [jobs[j] EXCEPT !.expired = TRUE]} : jobs' = [jobs EXCEPT ![j] = job]
  BY DEF Cancel, LeaseExpires
<1>2. slot' = slot /\ UNCHANGED <<events, covered, scan>>
  BY DEF Cancel, LeaseExpires
<1>3. jobs[j] \in JobType /\ jobs \in Seq(JobType)
  BY DEF LInv, IInv
<1>4. /\ job.attempts = jobs[j].attempts /\ job.results = jobs[j].results
      /\ job.status \in {jobs[j].status, "cancelled"}
      /\ jobs[j].status = "running" => job.status = "running"
  BY <1>1, <1>3 DEF JobType
<1>5. job.status \in Active => jobs[j].status \in Active
  BY <1>4 DEF Active
<1>6. SameAttempts /\ jobs'[j] = job /\ \A i \in DOMAIN jobs \ {j} : jobs'[i] = jobs[i]
  BY <1>1, <1>4, <1>5, OneJob DEF LInv
<1>7. RunsOn
  <2>1. SUFFICES ASSUME NEW w \in Slots, slot'[w].phase # "idle", jobs[slot[w].job].status = "running"
                 PROVE  jobs'[slot[w].job].status = "running"
    BY DEF RunsOn
  <2>2. slot[w].job \in DOMAIN jobs
    BY <1>2, <2>1, SlotFacts DEF Busy, LInv
  <2> QED BY <1>4, <1>6, <2>1, <2>2
<1>8. IInv'
  BY CancelIInv, LeaseExpiresIInv DEF LInv
<1> QED BY <1>2, <1>6, <1>7, <1>8, SlotsRest, WorkStep DEF SameElse

LEMMA StopLInv ==
    ASSUME LInv, Stop, upsets' \in 0..MaxUpsets
    PROVE  LInv'
<1>1. slot' = [w \in Slots |-> Idle] /\ jobs' = jobs /\ events' = events /\ covered' = covered /\ scan' = scan
  BY DEF Stop
<1>2. Follows /\ Proceeds
  BY <1>1 DEF Follows, Proceeds, Idle
<1> QED BY <1>1, <1>2, JobsRest, StopIInv, WorkStep DEF SameElse, LInv

(* A slot that ends, begins or goes on with an attempt, and no more. *)
LEMMA OneSlot ==
    ASSUME LInv, IInv', NEW w \in Slots, NEW x, slot' = [slot EXCEPT ![w] = x],
           x.phase # "idle" =>
             /\ Busy(w) /\ x.job = slot[w].job /\ x.token = slot[w].token /\ x.results = slot[w].results
             /\ x.phase = "capture" => x.seen = DOMAIN events \/ (slot[w].phase = "capture" /\ x.seen = slot[w].seen)
    PROVE  Follows /\ Proceeds /\ slot'[w] = x
<1>1. slot \in [Slots -> SlotType]
  BY DEF LInv, IInv
<1>2. slot'[w] = x /\ \A v \in Slots \ {w} : slot'[v] = slot[v]
  BY <1>1
<1>3. Follows
  BY <1>2, Zenon DEF Follows, Busy
<1>4. Proceeds
  BY <1>2, Zenon DEF Proceeds, Busy
<1> QED BY <1>2, <1>3, <1>4

LEMMA SlotLInv ==
    ASSUME LInv, NEW w \in Slots, Check(w) \/ CaptureFails(w) \/ HeartbeatStops(w)
    PROVE  LInv'
<1>1. jobs' = jobs /\ events' = events /\ covered' = covered /\ scan' = scan
  BY DEF Check, CaptureFails, HeartbeatStops
<1>2. slot[w] \in SlotType /\ IInv
  BY SlotFacts DEF LInv
<1>3. GoodSlot(w)
  BY DEF LInv, IInv
<1>4. Idle.phase = "idle"
  BY DEF Idle
<1>5. Busy(w)
  BY <1>3 DEF Check, CaptureFails, HeartbeatStops, GoodSlot, Busy
<1>6. IInv'
  BY CheckIInv, CaptureFailsIInv, HeartbeatStopsIInv DEF LInv
<1>7. ASSUME NEW x, slot' = [slot EXCEPT ![w] = x],
             x.phase # "idle" =>
               /\ x.job = slot[w].job /\ x.token = slot[w].token /\ x.results = slot[w].results
               /\ x.phase = "capture" => x.seen = DOMAIN events \/ (slot[w].phase = "capture" /\ x.seen = slot[w].seen)
      PROVE  LInv'
  <2>1. Follows /\ Proceeds
    BY <1>5, <1>6, <1>7, OneSlot
  <2> QED BY <1>1, <1>6, <2>1, JobsRest, WorkStep DEF SameElse
<1>8. CASE \E status : Ends(w, status)
  <2>1. PICK status : slot' = [slot EXCEPT ![w] = [slot[w] EXCEPT !.phase = "finish", !.status = status, !.seen = {}]]
    BY <1>8 DEF Ends, Becomes
  <2>2. PICK x : x = [slot[w] EXCEPT !.phase = "finish", !.status = status, !.seen = {}]
    OBVIOUS
  <2>3. x.phase = "finish" /\ x.job = slot[w].job /\ x.token = slot[w].token /\ x.results = slot[w].results
    BY <1>2, <2>2 DEF SlotType
  <2> QED BY <1>7, <2>1, <2>2, <2>3
<1>9. CASE Becomes(w, Idle)
  BY <1>4, <1>7, <1>9 DEF Becomes
<1>10. CASE Becomes(w, [slot[w] EXCEPT !.phase = "capture", !.seen = DOMAIN events])
  <2>1. PICK x : x = [slot[w] EXCEPT !.phase = "capture", !.seen = DOMAIN events]
    OBVIOUS
  <2>2. x.job = slot[w].job /\ x.token = slot[w].token /\ x.results = slot[w].results /\ x.seen = DOMAIN events
    BY <1>2, <2>1 DEF SlotType
  <2>3. slot' = [slot EXCEPT ![w] = x]
    BY <1>10, <2>1 DEF Becomes
  <2> QED BY <1>7, <2>2, <2>3
<1>11. CASE Becomes(w, [slot[w] EXCEPT !.beats = FALSE])
  <2>1. PICK x : x = [slot[w] EXCEPT !.beats = FALSE]
    OBVIOUS
  <2>2. /\ x.job = slot[w].job /\ x.token = slot[w].token /\ x.results = slot[w].results
        /\ x.seen = slot[w].seen /\ x.phase = slot[w].phase
    BY <1>2, <2>1 DEF SlotType
  <2>3. slot' = [slot EXCEPT ![w] = x]
    BY <1>11, <2>1 DEF Becomes
  <2> QED BY <1>7, <2>2, <2>3
<1> QED BY <1>8, <1>9, <1>10, <1>11 DEF Check, CaptureFails, HeartbeatStops

LEMMA StoreLInv ==
    ASSUME LInv, NEW w \in Slots, Store(w) \/ Finish(w)
    PROVE  LInv'
<1>1. slot[w].phase \in {"store", "finish"} /\ events' = events /\ covered' = covered /\ scan' = scan
  BY DEF Store, Finish
<1>2. Busy(w) /\ slot[w] \in SlotType /\ jobs \in Seq(JobType)
  BY <1>1, SlotFacts DEF Busy, LInv, IInv
<1>3. PICK i \in DOMAIN jobs : i = slot[w].job
  BY <1>2, SlotFacts DEF LInv
<1>4. PICK x : /\ slot' = [slot EXCEPT ![w] = x]
               /\ Finish(w) => x.phase = "idle"
               /\ x.phase # "idle" => /\ x.phase # "capture" /\ x.job = slot[w].job
                                      /\ x.token = slot[w].token /\ x.results = slot[w].results
  <2>1. CASE Finish(w)
    <3>1. slot' = [slot EXCEPT ![w] = Idle] /\ Idle.phase = "idle"
      BY <2>1 DEF Finish, Becomes, Idle
    <3> QED BY <3>1
  <2>2. CASE Store(w)
    <3>1. PICK x : x = [slot[w] EXCEPT !.phase = "check"]
      OBVIOUS
    <3>2. /\ x.phase = "check" /\ x.job = slot[w].job /\ x.token = slot[w].token
          /\ x.results = slot[w].results
      BY <1>2, <3>1 DEF SlotType
    <3>3. slot' = [slot EXCEPT ![w] = x] /\ ~Finish(w)
      BY <2>2, <3>1 DEF Store, Finish, Turns, Becomes
    <3> QED BY <3>2, <3>3
  <2> QED BY <2>1, <2>2
<1>5. IInv'
  BY StoreIInv, FinishIInv DEF LInv
<1>6. Follows /\ Proceeds /\ slot'[w] = x
  BY <1>2, <1>4, <1>5, OneSlot
<1>7. CASE ~Holds(w)
  <2>1. jobs' = jobs
    BY <1>7 DEF Store, Finish
  <2> QED BY <1>1, <1>5, <1>6, <2>1, JobsRest, WorkStep DEF SameElse
<1>8. CASE Holds(w)
  <2>1. jobs[i] \in JobType /\ GoodJob(i) /\ slot[w].token \in Nat \ {0}
    BY <1>2, SlotFacts DEF LInv, IInv
  <2>2. jobs[i].token = slot[w].token /\ jobs[i].attempts = slot[w].token /\ jobs[i].status = "running"
    BY <1>3, <1>8, <2>1 DEF Holds, GoodJob
  <2>3. PICK job : /\ jobs' = [jobs EXCEPT ![i] = job] /\ job.attempts = jobs[i].attempts
                   /\ ~Finish(w) => job.status = jobs[i].status
    <3>1. CASE Finish(w)
      <4>1. PICK job : job = [jobs[i] EXCEPT !.status = slot[w].status, !.token = 0, !.expired = FALSE, !.results = slot[w].results]
        OBVIOUS
      <4>2. jobs' = [jobs EXCEPT ![i] = job]
        BY <1>3, <1>8, <3>1, <4>1 DEF Finish
      <4>3. job.attempts = jobs[i].attempts
        BY <2>1, <4>1 DEF JobType
      <4> QED BY <3>1, <4>2, <4>3
    <3>2. CASE Store(w)
      <4>1. PICK job : job = [jobs[i] EXCEPT !.results = slot[w].results]
        OBVIOUS
      <4>2. jobs' = [jobs EXCEPT ![i] = job]
        BY <1>3, <1>8, <3>2, <4>1 DEF Store
      <4>3. job.attempts = jobs[i].attempts /\ job.status = jobs[i].status
        BY <2>1, <4>1 DEF JobType
      <4> QED BY <4>2, <4>3
    <3> QED BY <3>1, <3>2
  <2>4. jobs[i].status \in Active /\ jobs[i].attempts # 0
    BY <2>1, <2>2 DEF Active
  <2>5. /\ SameAttempts /\ DOMAIN jobs' = DOMAIN jobs /\ jobs'[i] = job
        /\ \A j \in DOMAIN jobs \ {i} : jobs'[j] = jobs[j]
    BY <2>3, <2>4, OneJob DEF LInv
  <2>6. RunsOn
    <3>1. SUFFICES ASSUME NEW v \in Slots, slot'[v].phase # "idle", slot[v].token = jobs[slot[v].job].attempts,
                          jobs[slot[v].job].status = "running"
                   PROVE  jobs'[slot[v].job].status = "running"
      BY DEF RunsOn
    <3>2. Busy(v) /\ slot[v].job \in DOMAIN jobs
      BY <1>6, <3>1, SlotFacts DEF Follows, LInv
    <3>3. CASE slot[v].job # i
      BY <2>5, <3>1, <3>2, <3>3
    <3>4. CASE slot[v].job = i
      <4>1. slot[v].token = slot[w].token
        BY <2>2, <3>1, <3>4
      <4>2. v = w
        BY <1>2, <1>3, <3>2, <3>4, <4>1 DEF LInv, Leases
      <4>3. ~Finish(w)
        BY <1>4, <1>6, <3>1, <4>2
      <4> QED BY <2>2, <2>3, <2>5, <3>4, <4>3
    <3> QED BY <3>3, <3>4
  <2> QED BY <1>1, <1>5, <1>6, <2>5, <2>6, WorkStep DEF SameElse
<1> QED BY <1>7, <1>8

-----------------------------------------------------------------------------
(* A change that is reported while no scan is under way will only be given *)
(* to a job later on.                                                      *)
LEMMA ChangeEventLInv ==
    ASSUME LInv, ChangeEvent
    PROVE  LInv'
<1>1. /\ UNCHANGED <<jobs, slot, scan, covered>>
      /\ events' = Append(events, [done |-> FALSE, job |-> 0, linked |-> FALSE, amid |-> scan])
  BY DEF ChangeEvent
<1>2. events \in Seq(EventType) /\ jobs \in Seq(JobType)
  BY DEF LInv, IInv, GoodEvents
<1>3. PICK event : event = [done |-> FALSE, job |-> 0, linked |-> FALSE, amid |-> scan]
  OBVIOUS
<1>4. PICK n \in Nat : n = Len(events) + 1
  BY <1>2
<1>5. event \in EventType
  BY <1>3 DEF LInv, IInv, Rest, EventType
<1>6. /\ DOMAIN events' = DOMAIN events \cup {n} /\ events'[n] = event
      /\ \A e \in DOMAIN events : events'[e] = events[e]
  BY <1>1, <1>2, <1>3, <1>4, <1>5
<1>7. event.done = FALSE /\ event.job = 0 /\ event.linked = FALSE /\ event.amid = scan
  BY <1>3
<1>8. Follows /\ Proceeds /\ SameAttempts /\ RunsOn
  BY <1>1, SlotsRest, JobsRest
<1>9. ASSUME NEW e \in DOMAIN events
      PROVE  /\ ~events'[e].done => events'[e].job = 0
             /\ events'[e].linked => events'[e].job # 0
             /\ \A j \in DOMAIN jobs' : Link(e, j)'
  <2>1. events'[e] = events[e]
    BY <1>6
  <2>2. ASSUME NEW j \in DOMAIN jobs PROVE Link(e, j)'
    BY <1>1, <1>8, <2>1, LinkKept
  <2> QED BY <1>1, <2>1, <2>2 DEF LInv, Links
<1>10. ASSUME NEW j \in DOMAIN jobs PROVE Link(n, j)'
  <2>1. j # 0
    BY <1>2
  <2>2. ~events'[n].amid => ~Bound(n, j)'
    BY <1>1, <1>6, <1>7, <2>1 DEF Bound
  <2> QED BY <1>6, <1>7, <2>2 DEF Link
<1>11. Links'
  BY <1>1, <1>6, <1>7, <1>9, <1>10 DEF Links
<1>12. Leases'
  BY <1>8, LeasesKept
<1> QED BY <1>11, <1>12, ChangeEventIInv DEF LInv

(* No job runs when a scan begins, so none that has its first attempt has  *)
(* a slot.                                                                 *)
LEMMA ScanReadsLInv ==
    ASSUME LInv, ScanReads
    PROVE  LInv'
<1>1. scan' = TRUE /\ NoneRuns /\ UNCHANGED <<jobs, slot, events, covered>>
  BY DEF ScanReads
<1>2. Follows /\ Proceeds /\ SameAttempts /\ RunsOn
  BY <1>1, SlotsRest, JobsRest
<1>3. ASSUME NEW e \in DOMAIN events, NEW j \in DOMAIN jobs PROVE Link(e, j)'
  <2>1. Link(e, j)
    BY DEF LInv, Links
  <2>2. ASSUME jobs[j].attempts = 1, j \in ActiveJobs PROVE Shows(e, j)'
    <3>1. ASSUME NEW w \in Slots, Busy(w), slot[w].job = j PROVE FALSE
      <4>1. jobs[j].status = "running"
        BY <2>2, <3>1, FirstAttempt DEF LInv
      <4> QED BY <1>1, <2>2, <4>1 DEF NoneRuns
    <3> QED BY <1>1, <3>1 DEF Shows, Busy
  <2>3. Shows(e, j) => Shows(e, j)'
    BY <1>1 DEF Shows, Busy
  <2>4. Bound(e, j)' => Bound(e, j) \/ j \in ActiveJobs
    BY <1>1 DEF Bound, ActiveJobs
  <2> QED BY <1>1, <2>1, <2>2, <2>3, <2>4 DEF Link
<1>4. Links'
  BY <1>1, <1>3 DEF Links, LInv
<1>5. Leases'
  BY <1>2, LeasesKept
<1> QED BY <1>4, <1>5, ScanReadsIInv DEF LInv

(* A scan gives what is pending to no job, to the active one, or to a new  *)
(* one.                                                                    *)
LEMMA ScanQueuesLInv ==
    ASSUME LInv, ScanQueues
    PROVE  LInv'
<1>1. scan /\ scan' = FALSE /\ slot' = slot /\ covered' = covered
  BY DEF ScanQueues
<1>2. jobs \in Seq(JobType) /\ Len(jobs) \in Nat /\ events \in Seq(EventType)
  BY DEF LInv, IInv, GoodEvents
<1>3. PICK n : /\ Give(n) /\ n \in {0} \cup ActiveJobs \cup {Len(jobs) + 1}
               /\ \/ jobs' = jobs
                  \/ jobs' = Append(jobs, Job)
               /\ n = Len(jobs) + 1 => jobs' = Append(jobs, Job)
  <2>1. CASE \E k \in {0} \cup ActiveJobs : Give(k) /\ UNCHANGED jobs
    <3>1. PICK k \in {0} \cup ActiveJobs : Give(k) /\ UNCHANGED jobs
      BY <2>1
    <3>2. k # Len(jobs) + 1
      BY <1>2, <3>1 DEF ActiveJobs
    <3> QED BY <3>1, <3>2
  <2>2. CASE Give(Len(jobs) + 1) /\ jobs' = Append(jobs, Job)
    BY <2>2
  <2> QED BY <2>1, <2>2 DEF ScanQueues
<1>4. SameAttempts /\ \A j \in DOMAIN jobs : jobs'[j] = jobs[j]
  BY <1>3, NewJob, JobsRest DEF LInv
<1>5. DOMAIN events' = DOMAIN events
  BY <1>3 DEF Give
<1>6. ASSUME NEW e \in DOMAIN events
      PROVE  /\ events[e].done => events'[e] = events[e]
             /\ ~events[e].done => /\ events'[e].done /\ events'[e].job = n /\ events'[e].amid = events[e].amid
                                   /\ ~events'[e].linked
  <2>1. events[e] \in EventType /\ (~events[e].done => ~events[e].linked)
    BY <1>2 DEF LInv, Links
  <2>2. events'[e] = IF ~events[e].done THEN [events[e] EXCEPT !.done = TRUE, !.job = n] ELSE events[e]
    BY <1>3 DEF Give, Pending
  <2> QED BY <2>1, <2>2 DEF EventType
<1>7. ASSUME NEW e \in DOMAIN events, NEW j \in DOMAIN jobs PROVE Link(e, j)'
  <2>1. Link(e, j) /\ jobs'[j].attempts = jobs[j].attempts
    BY <1>4 DEF LInv, Links
  <2>2. j \in 1..Len(jobs)
    BY <1>2
  <2>3. Bound(e, j)' => Bound(e, j)
    <3>1. CASE events[e].done
      BY <1>1, <1>6, <3>1 DEF Bound
    <3>2. CASE ~events[e].done
      <4>1. events'[e].done /\ events'[e].job = n
        BY <1>6, <3>2
      <4>2. n = j => j \in ActiveJobs
        BY <1>2, <1>3, <2>2
      <4> QED BY <1>1, <3>2, <4>1, <4>2 DEF Bound
    <3> QED BY <3>1, <3>2
  <2>4. Shows(e, j) => Shows(e, j)'
    BY <1>1 DEF Shows, Busy
  <2>5. events'[e].amid = events[e].amid /\ (events'[e].linked => events[e].linked /\ events'[e].job = events[e].job)
    BY <1>6
  <2> QED BY <1>1, <2>1, <2>3, <2>4, <2>5 DEF Link
<1>8. ASSUME NEW e \in DOMAIN events, NEW j \in DOMAIN jobs', j \notin DOMAIN jobs PROVE Link(e, j)'
  <2>1. jobs'[j].attempts = 0
    BY <1>4, <1>8 DEF SameAttempts
  <2>2. events[e].job \in 0..Len(jobs) /\ (events[e].linked => events[e].job # 0)
    BY DEF LInv, IInv, GoodEvents, Links
  <2>3. events[e].linked => events[e].job # j
    BY <1>2, <1>8, <2>2
  <2> QED BY <1>6, <2>1, <2>3, NewJobsLink
<1>9. ASSUME NEW e \in DOMAIN events
      PROVE  (~events'[e].done => events'[e].job = 0) /\ (events'[e].linked => events'[e].job # 0)
  BY <1>6 DEF LInv, Links
<1>10. Links'
  BY <1>5, <1>7, <1>8, <1>9 DEF Links
<1>11. RunsOn
  <2>1. SUFFICES ASSUME NEW w \in Slots, slot'[w].phase # "idle" PROVE jobs'[slot[w].job] = jobs[slot[w].job]
    BY DEF RunsOn
  <2>2. slot[w].job \in DOMAIN jobs
    BY <1>1, <2>1, SlotFacts DEF Busy, LInv
  <2> QED BY <1>4, <2>2
<1>12. Leases'
  BY <1>1, <1>4, <1>11, SlotsRest, LeasesKept
<1> QED BY <1>10, <1>12, ScanQueuesIInv DEF LInv

(* A first capture of the running configuration begins before any other    *)
(* type is captured, so it has not been stored or it is what comes next.   *)
LEMMA RunningIsNext ==
    ASSUME RunningFirst, NEW w \in Slots, ~(TypeSet \subseteq slot[w].results)
    PROVE  "running" \in slot[w].results \/ NextType(w) = "running"
<1> DEFINE left == {i \in DOMAIN Types : Types[i] \notin slot[w].results}
<1>1. Types \in Seq(STRING) /\ left # {}
  BY NcmJobsAssumption DEF TypeSet
<1>2. 1 \in DOMAIN Types /\ Types[1] = "running" /\ DOMAIN Types = 1..Len(Types) /\ Len(Types) \in Nat
  <2>1. Types[1] = "running"
    BY <1>1 DEF RunningFirst
  <2> QED BY <1>1, <2>1
<1>3. ASSUME "running" \notin slot[w].results PROVE NextType(w) = "running"
  <2>1. 1 \in left /\ \A k \in left : k \in Nat \ {0}
    BY <1>2, <1>3
  <2>2. PICK c : c = CHOOSE i \in left : \A k \in left : i <= k
    OBVIOUS
  <2>3. c \in left /\ \A k \in left : c <= k
    BY <2>1, <2>2
  <2>4. c = 1
    BY <2>1, <2>3
  <2> QED BY <1>2, <2>2, <2>4 DEF NextType
<1> QED BY <1>3

LEMMA CapturedLInv ==
    ASSUME RunningFirst, LInv, NEW w \in Slots, Captured(w)
    PROVE  LInv'
<1>1. /\ slot[w].phase = "capture" /\ jobs' = jobs /\ scan' = scan
      /\ slot' = [slot EXCEPT ![w] = [slot[w] EXCEPT !.phase = "store", !.seen = {}, !.results = @ \cup {NextType(w)}]]
      /\ covered' = IF NextType(w) = "running" THEN covered \cup slot[w].seen ELSE covered
      /\ events' = [e \in DOMAIN events |->
                      IF events[e].job = slot[w].job THEN [events[e] EXCEPT !.linked = TRUE] ELSE events[e]]
  BY DEF Captured, Becomes
<1>2. Busy(w) /\ slot[w] \in SlotType /\ slot \in [Slots -> SlotType]
  BY <1>1, SlotFacts DEF Busy, LInv, IInv
<1>3. PICK i \in DOMAIN jobs : i = slot[w].job
  BY <1>2, SlotFacts DEF LInv
<1>4. jobs[i].attempts # 0 /\ i # 0
  <2>1. slot[w].token \in Nat \ {0} /\ jobs[i].attempts \in Nat /\ i # 0
    BY <1>2, <1>3, SlotFacts DEF LInv
  <2>2. slot[w].token <= jobs[i].attempts
    BY <1>2, <1>3 DEF LInv, Leases
  <2> QED BY <2>1, <2>2
<1>5. PICK x : x = [slot[w] EXCEPT !.phase = "store", !.seen = {}, !.results = @ \cup {NextType(w)}]
  OBVIOUS
<1>6. x.phase = "store" /\ x.job = i /\ x.token = slot[w].token
  BY <1>2, <1>3, <1>5 DEF SlotType
<1>7. slot'[w] = x /\ \A v \in Slots \ {w} : slot'[v] = slot[v]
  BY <1>1, <1>2, <1>5
<1>8. Follows
  BY <1>2, <1>3, <1>6, <1>7, Zenon DEF Follows, Busy
<1>9. Leases'
  BY <1>1, <1>8, JobsRest, LeasesKept
<1>10. "running" \in slot[w].results \/ covered' = covered \cup slot[w].seen
  <2>1. GoodSlot(w)
    BY DEF LInv, IInv
  <2>2. ~(TypeSet \subseteq slot[w].results)
    BY <1>1, <2>1 DEF GoodSlot
  <2> QED BY <1>1, <2>2, RunningIsNext
<1>11. covered \subseteq covered' /\ DOMAIN events' = DOMAIN events
  BY <1>1
<1>12. ASSUME NEW e \in DOMAIN events
       PROVE  /\ events'[e].done = events[e].done /\ events'[e].job = events[e].job /\ events'[e].amid = events[e].amid
              /\ events'[e].linked => events[e].linked \/ events[e].job = i
  <2>1. events[e] \in EventType
    BY DEF LInv, IInv, GoodEvents
  <2>2. events'[e] = IF events[e].job = i THEN [events[e] EXCEPT !.linked = TRUE] ELSE events[e]
    BY <1>1, <1>3
  <2> QED BY <2>1, <2>2 DEF EventType
<1>13. ASSUME NEW e \in DOMAIN events, NEW j \in DOMAIN jobs PROVE Link(e, j)'
  <2>1. Link(e, j)
    BY DEF LInv, Links
  <2>2. Bound(e, j)' => Bound(e, j)
    BY <1>1, <1>12 DEF Bound, ActiveJobs
  <2>3. ASSUME j # i, Shows(e, j) PROVE Shows(e, j)'
    <3>1. SUFFICES ASSUME NEW v \in Slots, slot'[v].phase # "idle", slot'[v].job = j
                   PROVE  /\ slot'[v].phase = "capture" => e \in slot'[v].seen
                          /\ "running" \in slot'[v].results => e \in covered'
      BY DEF Shows, Busy
    <3>2. v # w /\ slot'[v] = slot[v]
      BY <1>6, <1>7, <2>3, <3>1
    <3> QED BY <1>11, <2>3, <3>1, <3>2 DEF Shows, Busy
  <2>4. ASSUME j = i, Shows(e, j) PROVE e \in covered' /\ Shows(e, j)'
    <3>1. e \in slot[w].seen /\ ("running" \in slot[w].results => e \in covered)
      BY <1>1, <1>2, <1>3, <2>4 DEF Shows
    <3>2. e \in covered'
      BY <1>10, <1>11, <3>1
    <3>3. ASSUME NEW v \in Slots, slot'[v].phase = "capture", slot'[v].job = j PROVE e \in slot'[v].seen
      <4>1. v # w /\ slot'[v] = slot[v]
        BY <1>6, <1>7, <3>3
      <4> QED BY <2>4, <3>3, <4>1 DEF Shows, Busy
    <3> QED BY <3>2, <3>3 DEF Shows, Busy
  <2>5. CASE j # i
    BY <1>1, <1>11, <1>12, <2>1, <2>2, <2>3, <2>5 DEF Link
  <2>6. CASE j = i
    <3>1. events'[e].job = j => Bound(e, j)
      BY <1>12 DEF Bound
    <3> QED BY <1>1, <1>4, <1>12, <2>1, <2>2, <2>4, <2>6, <3>1 DEF Link
  <2> QED BY <2>5, <2>6
<1>14. Links'
  <2>1. ASSUME NEW e \in DOMAIN events
        PROVE  (~events'[e].done => events'[e].job = 0) /\ (events'[e].linked => events'[e].job # 0)
    BY <1>4, <1>12 DEF LInv, Links
  <2> QED BY <1>1, <1>11, <1>13, <2>1 DEF Links
<1> QED BY <1>9, <1>14, CapturedIInv DEF LInv

(* A claim of a queued job is its first attempt, or counts as a further    *)
(* one.                                                                    *)
LEMMA ClaimLInv ==
    ASSUME LInv, NEW w \in Slots, NEW i \in DOMAIN jobs, Claim(w, i)
    PROVE  LInv'
<1>1. /\ slot[w] = Idle /\ Claimable(i) /\ UNCHANGED <<events, scan, covered>>
  BY DEF Claim
<1>2. jobs \in Seq(JobType) /\ slot \in [Slots -> SlotType] /\ jobs[i] \in JobType
  BY DEF LInv, IInv
<1>3. PICK n \in Nat : n = jobs[i].attempts
  BY <1>2 DEF JobType
<1>4. PICK job : job = [jobs[i] EXCEPT !.status = "running", !.attempts = @ + 1, !.token = n + 1, !.expired = FALSE]
  OBVIOUS
<1>5. job.status = "running" /\ job.attempts = n + 1
  BY <1>2, <1>3, <1>4 DEF JobType
<1>6. jobs' = [jobs EXCEPT ![i] = job]
  BY <1>3, <1>4 DEF Claim
<1>7. DOMAIN jobs' = DOMAIN jobs /\ jobs'[i] = job /\ \A j \in DOMAIN jobs \ {i} : jobs'[j] = jobs[j]
  BY <1>2, <1>6
<1>8. PICK x : x = [Idle EXCEPT !.phase = IF Exhausted(n + 1) THEN "finish" ELSE "check",
                                !.status = IF Exhausted(n + 1) THEN "failed" ELSE "none", !.job = i, !.token = n + 1,
                                !.results = jobs[i].results]
  OBVIOUS
<1>9. x.phase \notin {"idle", "capture"} /\ x.job = i /\ x.token = n + 1 /\ x.results = jobs[i].results
  BY <1>8 DEF Idle
<1>10. slot' = [slot EXCEPT ![w] = x]
  BY <1>3, <1>8 DEF Claim, Becomes
<1>11. slot'[w] = x /\ \A v \in Slots \ {w} : slot'[v] = slot[v]
  BY <1>2, <1>10
<1>12. i \in ActiveJobs
  BY <1>1 DEF Claimable, ActiveJobs, Active
<1>13. ASSUME NEW v \in Slots, v # w, slot'[v].phase # "idle"
       PROVE  /\ Busy(v) /\ slot'[v] = slot[v] /\ slot[v].job \in DOMAIN jobs
              /\ slot[v].token \in Nat \ {0} /\ slot[v].token <= jobs[slot[v].job].attempts
              /\ slot[v].job # i /\ slot[v].token = jobs[slot[v].job].attempts => jobs[slot[v].job].status = "running"
  <2>1. Busy(v) /\ slot'[v] = slot[v]
    BY <1>11, <1>13 DEF Busy
  <2> QED BY <2>1, SlotFacts DEF LInv, Leases
<1>14. Leases'
  <2>1. ASSUME NEW v \in Slots, slot'[v].phase # "idle"
        PROVE  /\ slot'[v].token <= jobs'[slot'[v].job].attempts
               /\ slot'[v].token = jobs'[slot'[v].job].attempts => jobs'[slot'[v].job].status = "running"
    <3>1. CASE v = w
      BY <1>5, <1>7, <1>9, <1>11, <3>1
    <3>2. CASE v # w /\ slot[v].job # i
      BY <1>7, <1>13, <2>1, <3>2
    <3>3. CASE v # w /\ slot[v].job = i
      <4>1. slot[v].token \in Nat /\ slot[v].token <= n /\ slot'[v] = slot[v]
        BY <1>3, <1>13, <2>1, <3>3
      <4> QED BY <1>5, <1>7, <3>3, <4>1
    <3> QED BY <3>1, <3>2, <3>3
  <2>2. ASSUME NEW v \in Slots, v # w, slot'[v].phase # "idle", slot'[v].job = i PROVE slot'[v].token # n + 1
    <3>1. slot[v].token \in Nat /\ slot[v].token <= n /\ slot'[v] = slot[v]
      BY <1>3, <1>13, <2>2
    <3> QED BY <3>1
  <2>3. ASSUME NEW u \in Slots, NEW v \in Slots, u # v, slot'[u].phase # "idle", slot'[v].phase # "idle",
               slot'[u].job = slot'[v].job
        PROVE  slot'[u].token # slot'[v].token
    <3>1. CASE u = w
      BY <1>9, <1>11, <2>2, <2>3, <3>1
    <3>2. CASE v = w
      BY <1>9, <1>11, <2>2, <2>3, <3>2
    <3>3. CASE u # w /\ v # w
      <4>1. Busy(u) /\ Busy(v) /\ slot'[u] = slot[u] /\ slot'[v] = slot[v]
        BY <1>13, <2>3, <3>3
      <4> QED BY <2>3, <4>1 DEF LInv, Leases
    <3> QED BY <3>1, <3>2, <3>3
  <2>4. \A j \in DOMAIN jobs' : jobs'[j].attempts = 0 => jobs'[j].results = {}
    <3>1. n + 1 # 0
      BY <1>3
    <3> QED BY <1>5, <1>7, <3>1 DEF LInv, Leases
  <2> QED BY <2>1, <2>3, <2>4, Zenon DEF Leases, Busy
<1>15. ASSUME NEW e \in DOMAIN events, NEW j \in DOMAIN jobs PROVE Link(e, j)'
  <2>1. Link(e, j)
    BY DEF LInv, Links
  <2>2. Bound(e, j)' => Bound(e, j)
    BY <1>1, <1>7, <1>12 DEF Bound, ActiveJobs
  <2>3. CASE j # i
    <3>1. Shows(e, j) => Shows(e, j)'
      BY <1>1, <1>9, <1>11, <2>3 DEF Shows, Busy
    <3> QED BY <1>1, <1>7, <2>1, <2>2, <2>3, <3>1 DEF Link
  <2>4. CASE j = i
    <3>1. jobs'[j].attempts = n + 1 /\ n + 1 # 0
      BY <1>3, <1>5, <1>7, <2>4
    <3>2. CASE n # 0
      BY <1>3, <3>1, <3>2 DEF Link
    <3>3. CASE n = 0
      <4>1. events[e].linked => events[e].job # j
        BY <1>3, <2>1, <2>4, <3>3 DEF Link
      <4>2. jobs[i].results = {}
        BY <1>3, <3>3 DEF LInv, Leases
      <4>3. ASSUME NEW v \in Slots, slot'[v].phase # "idle", slot'[v].job = j PROVE v = w
        <5>1. SUFFICES ASSUME v # w PROVE FALSE
          OBVIOUS
        <5>2. slot[v].token \in Nat \ {0} /\ slot[v].token <= jobs[i].attempts
          BY <1>13, <2>4, <4>3, <5>1
        <5> QED BY <1>3, <3>3, <5>2
      <4>4. Shows(e, j)'
        BY <1>9, <1>11, <4>2, <4>3 DEF Shows, Busy
      <4> QED BY <1>1, <3>1, <4>1, <4>4 DEF Link
    <3> QED BY <3>2, <3>3
  <2> QED BY <2>3, <2>4
<1>16. Links'
  BY <1>1, <1>7, <1>15 DEF Links, LInv
<1> QED BY <1>14, <1>16, ClaimIInv DEF LInv

-----------------------------------------------------------------------------
LEMMA InitLInv == Init => LInv
<1> SUFFICES ASSUME Init PROVE LInv
    OBVIOUS
<1>1. DOMAIN jobs = {} /\ DOMAIN events = {} /\ \A w \in Slots : slot[w] = Idle
  BY DEF Init
<1>2. \A w \in Slots : ~Busy(w)
  BY <1>1 DEF Busy, Idle
<1> QED BY <1>1, <1>2, InitIInv DEF LInv, Leases, Links

LEMMA NextLInv == RunningFirst /\ LInv /\ [Next]_vars => LInv'
<1> SUFFICES ASSUME RunningFirst, LInv, [Next]_vars PROVE LInv'
    OBVIOUS
<1>1. CASE Enqueue \/ ChangeEvent \/ ScanReads \/ ScanQueues
  BY <1>1, EnqueueLInv, ChangeEventLInv, ScanReadsLInv, ScanQueuesLInv
<1>2. ASSUME NEW j \in DOMAIN jobs, Cancel(j) \/ LeaseExpires(j) PROVE LInv'
  BY <1>2, CancelLInv
<1>3. ASSUME NEW w \in Slots, Works(w) \/ HeartbeatStops(w) PROVE LInv'
  BY <1>3, ClaimLInv, SlotLInv, CapturedLInv, StoreLInv DEF Works
<1>4. ASSUME NEW w \in Slots, HeartbeatFailed(w) PROVE LInv'
  <2>1. Stop /\ upsets' \in 0..MaxUpsets
    BY <1>4 DEF HeartbeatFailed, LInv, IInv, Rest
  <2> QED BY <2>1, StopLInv
<1>5. CASE Restart
  <2>1. Stop /\ upsets' \in 0..MaxUpsets
    BY <1>5, NcmJobsAssumption DEF Restart, Upset, LInv, IInv, Rest
  <2> QED BY <2>1, StopLInv
<1>6. CASE UNCHANGED vars
  <2>1. jobs' = jobs /\ slot' = slot /\ SameElse
    BY <1>6 DEF vars, SameElse
  <2>2. IInv'
    BY <1>6, NextIInv DEF LInv
  <2> QED BY <2>1, <2>2, SlotsRest, JobsRest, WorkStep
<1> QED BY <1>1, <1>2, <1>3, <1>4, <1>5, <1>6 DEF Next

(* A version that a change event is linked to shows the change, if the     *)
(* event did not come during the scan that gave it away and the job was    *)
(* not taken up a second time, where the running configuration is captured *)
(* first, as it is by default (NcmEnroll, api/v1/ncm.py).                  *)
THEOREM LinkedShowsTheChange ==
    ASSUME RunningFirst
    PROVE  Spec => []LinkedVersionShowsTheChange
<1>1. LInv => LinkedVersionShowsTheChange
  <2> SUFFICES ASSUME LInv, NEW e \in DOMAIN events, events[e].linked, ~events[e].amid,
                      jobs[events[e].job].attempts = 1
               PROVE  e \in covered
    BY DEF LinkedVersionShowsTheChange
  <2>1. events[e].job \in 0..Len(jobs) /\ events[e].job # 0 /\ jobs \in Seq(JobType)
    BY DEF LInv, IInv, GoodEvents, Links
  <2>2. PICK j \in DOMAIN jobs : j = events[e].job
    BY <2>1
  <2>3. Link(e, j)
    BY <2>2 DEF LInv, Links
  <2> QED BY <2>2, <2>3 DEF Link
<1>2. LInv /\ [Next]_vars => LInv'
  BY NextLInv
<1> QED BY <1>1, <1>2, InitLInv, PTL DEF Spec
=============================================================================
