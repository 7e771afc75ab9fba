---------------------------- MODULE ResultDelivery ----------------------------
(***************************************************************************)
(* What a sensor and the controller promise together about a result that   *)
(* was handed to the spool: it is queued, then applied by the controller   *)
(* once, with the batch it was sent in, or dropped and counted at once.    *)
(* Its telemetry is stored when it is applied, and may have been stored    *)
(* before then, but never after.  Restarts, retries and late requests do   *)
(* not show otherwise.                                                     *)
(***************************************************************************)
EXTENDS Integers, FiniteSets

CONSTANT Records

VARIABLES fate,     \* per result
          stored,   \* per result: how often its telemetry was inserted
          dropped   \* queue_dropped_count, what the sensor reports as lost

In(which) == {n \in Records : fate[n] = which}
Turn(batch, which) == fate' = [n \in Records |-> IF n \in batch THEN which ELSE fate[n]]
Insert(rows) == stored' = [n \in Records |-> stored[n] + IF n \in rows THEN 1 ELSE 0]

Init ==
    fate = [n \in Records |-> "new"] /\ stored = [n \in Records |-> 0] /\ dropped = 0

Enqueue(n) == n \in In("new") /\ Turn({n}, "queued") /\ UNCHANGED <<stored, dropped>>

(* A result there is no room for is counted as one that was dropped. *)
Reject(n) ==
    n \in In("new") /\ Turn({n}, "dropped") /\ dropped' = dropped + 1 /\ UNCHANGED stored

(* An attempt that came to nothing else. *)
Store(rows) == rows # {} /\ rows \subseteq In("queued") /\ Insert(rows) /\ UNCHANGED <<fate, dropped>>

Apply(batch) ==
    /\ batch # {} /\ batch \subseteq In("queued")
    /\ Turn(batch, "applied") /\ Insert(batch) /\ UNCHANGED dropped

Drop(batch) ==
    /\ batch # {} /\ batch \subseteq In("queued")
    /\ Turn(batch, "dropped") /\ dropped' = dropped + Cardinality(batch) /\ UNCHANGED stored

Next ==
    \/ \E n \in Records : Enqueue(n) \/ Reject(n)
    \/ \E batch \in SUBSET Records : Store(batch) \/ Apply(batch) \/ Drop(batch)

Spec == Init /\ [][Next]_<<fate, stored, dropped>>
=============================================================================
