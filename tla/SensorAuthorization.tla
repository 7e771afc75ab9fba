------------------------- MODULE SensorAuthorization -------------------------
(***************************************************************************)
(* A remote sensor pauses its probes when the controller rejects it, and   *)
(* resumes them only after a config response that began after the last     *)
(* rejection, across concurrent heartbeat, config and upload requests,     *)
(* failing state writes and restarts (runtimeAuthorization of the sensor). *)
(*                                                                         *)
(* The block lives in three places: the atomic flag the scheduler reads,   *)
(* the in-memory copy of the state document (persistedState.current, which *)
(* every other state update writes back whole), and the file.              *)
(***************************************************************************)
EXTENDS Naturals

CONSTANTS
    Loops,              \* the goroutines that call the controller
    Recovery,           \* those whose success may lift the block: the config loop
    \* bounds of the model
    MaxRejections, MaxFaults, MaxRestarts

ASSUME AuthorizationAssumption ==
    /\ Recovery \subseteq Loops
    /\ {MaxRejections, MaxFaults, MaxRestarts} \subseteq Nat

VARIABLES
    granted,        \* the controller accepts this sensor
    blocked,        \* authorization.blocked
    epoch,          \* authorization.epoch
    requests,       \* per loop: the request in flight
    current,        \* AuthorizationBlocked of the in-memory state document
    stored,         \* AuthorizationBlocked of the state file
    spent,          \* how much of each bound is used
    \* history
    overtaken,      \* per loop: a rejection was observed since its request began
    standing,       \* "new"; "rejected" by the last observed rejection; or
                    \* "vouched": the controller answered a config request begun after it
    unsaved,        \* the write that followed the last observed rejection failed
    lost            \* a restart forgot the last observed rejection

vars == <<granted, blocked, epoch, requests, current, stored, spent, overtaken, standing, unsaved, lost>>
stateVars == <<blocked, epoch, current, stored>>
history == <<overtaken, standing, unsaved, lost>>

NoRequest == [phase |-> "idle", epoch |-> 0, startedBlocked |-> FALSE]
Phases == {"idle", "sent", "ok", "rejected", "unavailable"}
Spend(what) == spent' = [spent EXCEPT ![what] = @ + 1]

Init ==
    /\ granted = TRUE
    /\ blocked = FALSE /\ epoch = 0
    /\ requests = [l \in Loops |-> NoRequest]
    /\ current = FALSE /\ stored = FALSE
    /\ spent = [rejections |-> 0, faults |-> 0, restarts |-> 0]
    /\ overtaken = [l \in Loops |-> FALSE]
    /\ standing = "new" /\ unsaved = FALSE /\ lost = FALSE

(* An administrator disables or enables the sensor on the controller.      *)
Administer ==
    /\ granted' = ~granted
    /\ UNCHANGED <<stateVars, requests, spent, history>>

\* mutant: the epoch is taken once, when the loop starts
CaptureOnce == [phase |-> "sent", epoch |-> 0, startedBlocked |-> blocked]

Capture == [phase |-> "sent", epoch |-> epoch, startedBlocked |-> blocked]

Begin(l) ==
    /\ requests[l].phase = "idle"
    /\ requests' = [requests EXCEPT ![l] = Capture]
    /\ overtaken' = [overtaken EXCEPT ![l] = FALSE]
    /\ UNCHANGED <<granted, stateVars, spent, standing, unsaved, lost>>

(* What becomes of a request is settled when the controller handles it,    *)
(* long before the answer is observed.                                     *)
Accept(l) ==
    /\ requests[l].phase = "sent" /\ granted
    /\ requests' = [requests EXCEPT ![l].phase = "ok"]
    /\ standing' = IF standing = "rejected" /\ l \in Recovery /\ ~overtaken[l] THEN "vouched" ELSE standing
    /\ UNCHANGED <<granted, stateVars, spent, overtaken, unsaved, lost>>

Reject(l) ==
    /\ requests[l].phase = "sent" /\ ~granted
    /\ spent.rejections < MaxRejections
    /\ requests' = [requests EXCEPT ![l].phase = "rejected"]
    /\ Spend("rejections")
    /\ UNCHANGED <<granted, stateVars, history>>

(* No answer, a server error, or one that does not decode.                 *)
Fail(l) ==
    /\ requests[l].phase = "sent"
    /\ requests' = [requests EXCEPT ![l].phase = "unavailable"]
    /\ UNCHANGED <<granted, stateVars, spent, history>>

-----------------------------------------------------------------------------
(***************************************************************************)
(* persistedState.Update: clone, change, save, and only then adopt.  The   *)
(* save can fail before or after the file is replaced.                     *)
(***************************************************************************)
Persisted(value) == stored' = value /\ current' = value /\ UNCHANGED spent
PersistFails(value) ==
    /\ spent.faults < MaxFaults /\ Spend("faults")
    /\ stored' \in {stored, value}
    /\ UNCHANGED current

\* mutant: a rejection is only persisted when it newly blocks
SavesFirstRejection ==
    IF blocked THEN UNCHANGED <<stored, current, spent>> /\ unsaved' = FALSE
    ELSE (Persisted(TRUE) /\ unsaved' = FALSE) \/ (PersistFails(TRUE) /\ unsaved' = TRUE)

(* Every authoritative rejection is persisted again; errors of any other   *)
(* kind decide nothing.                                                    *)
SavesRejection ==
    \/ Persisted(TRUE) /\ unsaved' = FALSE
    \/ PersistFails(TRUE) /\ unsaved' = TRUE

\* mutant: a success begun while blocked recovers whatever came between
RecoversFromAnyEpoch(l) ==
    /\ l \in Recovery /\ requests[l].phase = "ok"
    /\ requests[l].startedBlocked /\ blocked

Recovers(l) ==
    /\ l \in Recovery /\ requests[l].phase = "ok"
    /\ requests[l].startedBlocked /\ requests[l].epoch = epoch /\ blocked

Finish(l) == requests' = [requests EXCEPT ![l] = NoRequest]

ObserveRejection(l) ==
    /\ requests[l].phase = "rejected"
    /\ epoch' = epoch + 1
    /\ blocked' = TRUE
    /\ SavesRejection
    /\ Finish(l)
    /\ overtaken' = [k \in Loops |-> TRUE]
    /\ standing' = "rejected" /\ lost' = FALSE
    /\ UNCHANGED granted

ObserveRecovery(l) ==
    /\ Recovers(l)
    /\ \/ Persisted(FALSE) /\ blocked' = FALSE
       \/ PersistFails(FALSE) /\ UNCHANGED blocked
    /\ Finish(l)
    /\ UNCHANGED <<granted, epoch, history>>

(* Any other outcome decides nothing: another error, a success that may    *)
(* not recover or is overtaken; an upload's success is not even observed.  *)
ObserveNothing(l) ==
    /\ requests[l].phase \in {"ok", "unavailable"}
    /\ ~Recovers(l)
    /\ Finish(l)
    /\ UNCHANGED <<granted, stateVars, spent, history>>

(* The config loop returns before Observe: another sensor's config, or the *)
(* new config could not be saved.                                          *)
Discard(l) ==
    /\ l \in Recovery /\ requests[l].phase = "ok"
    /\ spent.faults < MaxFaults /\ Spend("faults")
    /\ Finish(l)
    /\ UNCHANGED <<granted, stateVars, history>>

(* Any other state update (a new config, a completed command) writes the   *)
(* in-memory document back whole.                                          *)
OtherUpdate ==
    /\ stored' = current
    /\ UNCHANGED <<granted, blocked, epoch, requests, current, spent, history>>

Restart ==
    /\ spent.restarts < MaxRestarts /\ Spend("restarts")
    /\ blocked' = stored /\ current' = stored /\ epoch' = 0
    /\ requests' = [l \in Loops |-> NoRequest]
    /\ lost' = (lost \/ (standing = "rejected" /\ ~stored))
    /\ UNCHANGED <<granted, stored, overtaken, standing, unsaved>>

Observe(l) == ObserveRejection(l) \/ ObserveRecovery(l) \/ ObserveNothing(l)
Step(l) == Begin(l) \/ Accept(l) \/ Reject(l) \/ Fail(l) \/ Observe(l) \/ Discard(l)
Next == Administer \/ OtherUpdate \/ Restart \/ \E l \in Loops : Step(l)

Spec == Init /\ [][Next]_vars

(* The loops' timers keep firing and every request ends (30 s HTTP         *)
(* timeout); a controller that is asked again and again answers at last.   *)
Fairness ==
    /\ \A l \in Loops : WF_vars(Begin(l)) /\ WF_vars(Observe(l))
    /\ \A l \in Loops : WF_vars(Accept(l) \/ Reject(l) \/ Fail(l)) /\ SF_vars(Accept(l))
FairSpec == Spec /\ Fairness

-----------------------------------------------------------------------------
(***************************************************************************)
(* Properties.                                                             *)
(***************************************************************************)
(* Types; and no request carries an epoch the sensor has not reached.      *)
TypeOK ==
    /\ granted \in BOOLEAN /\ blocked \in BOOLEAN
    /\ current \in BOOLEAN /\ stored \in BOOLEAN
    /\ unsaved \in BOOLEAN /\ lost \in BOOLEAN
    /\ epoch \in Nat
    /\ requests \in [Loops -> [phase : Phases, epoch : Nat, startedBlocked : BOOLEAN]]
    /\ \A l \in Loops : requests[l].epoch <= epoch
    /\ spent \in [rejections : Nat, faults : Nat, restarts : Nat]
    /\ overtaken \in [Loops -> BOOLEAN]
    /\ standing \in {"new", "rejected", "vouched"}

(* The sticky block (comment on runtimeAuthorization): the sensor probes   *)
(* after a rejection only once the controller has accepted a config        *)
(* request that began after the rejection was observed, however answers    *)
(* cross; or when a restart lost the block.                                *)
ProbingIsVouched == ~blocked /\ standing = "rejected" => lost

(* The block is persisted: a restart can only lose it when the write that  *)
(* followed the last rejection failed; a rejection whose write succeeded   *)
(* makes up for earlier failures, and no later update undoes it.           *)
BlockIsStored == standing = "rejected" /\ ~stored => unsaved

(* A sensor the controller accepts for good probes again for good.         *)
RecoversOnceGranted == <>[]granted => <>[]~blocked
=============================================================================
