--------------------------- MODULE SensorDelivery ---------------------------
(***************************************************************************)
(* Results from the spool to the controller: the upload loop (drainSpool)  *)
(* over the spool of module SensorSpool, requests that time out, get lost  *)
(* or are handled late, and the controller's ingest ledger, which makes a  *)
(* batch idempotent by its key.                                            *)
(*                                                                         *)
(* A bad result makes the controller reject every request that holds it    *)
(* (400, 413, 422, or 403 "not assigned"); assignments do not change.      *)
(***************************************************************************)
EXTENDS SensorSpool

CONSTANT MaxTimeouts

ASSUME DeliveryAssumption == MaxTimeouts \in Nat

VARIABLES
    upload,     \* the upload loop: idle, asking, posted, accepted or refused
    wire,       \* the request it waits for
    late,       \* requests nobody waits for any more, not yet handled
    ledger,     \* batches the controller completed (sensor_ingest_ledger)
    timeouts,   \* requests that timed out
    \* history
    applied,    \* per result: how often the controller applied it in PostgreSQL
    stored,     \* per result: how often its telemetry went to ClickHouse
    unanswered  \* the last batch posted, until it is accepted or refused

deliveryVars == <<upload, wire, late, ledger, timeouts, applied, stored, unanswered>>
allVars == <<vars, deliveryVars>>

(* One turn: ask for a batch, post it, act on the answer.                  *)
Ask ==
    /\ upload = "idle"
    /\ NextBatch
    /\ upload' = "asking"
    /\ UNCHANGED <<wire, late, ledger, timeouts, applied, stored, unanswered>>

Post ==
    /\ upload = "asking" /\ Ready
    /\ IF held = {} THEN upload' = "idle" /\ UNCHANGED <<wire, unanswered>>
       ELSE upload' = "posted" /\ wire' = held /\ unanswered' = held
    /\ UNCHANGED <<vars, late, ledger, timeouts, applied, stored>>

Accepts(batch) == batch \in ledger \/ \A n \in batch : ~kinds[n].bad

Insert(rows) == stored' = [n \in Records |-> stored[n] + IF n \in rows THEN 1 ELSE 0]

\* mutant: the ledger is not asked
IngestAgain(batch) ==
    IF Accepts(batch)
    THEN /\ Insert(batch)
         /\ ledger' = ledger \cup {batch}
         /\ applied' = [n \in Records |-> applied[n] + IF n \in batch THEN 1 ELSE 0]
    ELSE UNCHANGED <<ledger, applied, stored>>

(* Reserve, insert the telemetry, apply, complete and commit; a key that   *)
(* is already completed answers as before.                                 *)
Ingest(batch) ==
    IF Accepts(batch) /\ batch \notin ledger
    THEN /\ Insert(batch)
         /\ ledger' = ledger \cup {batch}
         /\ applied' = [n \in Records |-> applied[n] + IF n \in batch THEN 1 ELSE 0]
    ELSE UNCHANGED <<ledger, applied, stored>>

(* The telemetry goes to ClickHouse inside the transaction, with no token: *)
(* when the insert lands in part, or it lands and the commit fails, what   *)
(* was inserted stays and the rest is rolled back.                         *)
RollBack(batch) ==
    /\ Accepts(batch) /\ batch \notin ledger
    /\ \E rows \in (SUBSET batch) \ {{}} : Insert(rows)
    /\ UNCHANGED <<ledger, applied>>

Answer ==
    /\ upload = "posted"
    /\ Ingest(wire)
    /\ upload' = IF Accepts(wire) THEN "accepted" ELSE "refused"
    /\ unanswered' = {}
    /\ UNCHANGED <<vars, wire, late, timeouts>>

IngestLate ==
    /\ \E batch \in late : (Ingest(batch) \/ RollBack(batch)) /\ late' = late \ {batch}
    /\ UNCHANGED <<vars, upload, wire, timeouts, unanswered>>

(* A server error after the insert: the batch stays in flight.             *)
CommitFails ==
    /\ upload = "posted" /\ timeouts < MaxTimeouts
    /\ RollBack(wire)
    /\ upload' = "idle" /\ wire' = {}
    /\ timeouts' = timeouts + 1
    /\ UNCHANGED <<vars, late, unanswered>>

(* A timeout, a lost answer or another error: the batch stays in flight.   *)
TimeOut ==
    /\ upload = "posted" /\ timeouts < MaxTimeouts
    /\ upload' = "idle" /\ wire' = {}
    /\ late' \in {late, late \cup {wire}}
    /\ timeouts' = timeouts + 1
    /\ UNCHANGED <<vars, ledger, applied, stored, unanswered>>

\* mutant: a single result is split, too
SplitsSingles(batch) == batch # {}

Splits(batch) == Cardinality(batch) > 1

Settle ==
    /\ \/ upload = "accepted" /\ Ack
       \/ upload = "refused" /\ Splits(held) /\ SplitInflight
       \/ upload = "refused" /\ ~Splits(held) /\ DropInflight
    /\ upload' = "idle" /\ wire' = {}
    /\ UNCHANGED <<late, ledger, timeouts, applied, stored, unanswered>>

(* The control log cannot be written.                                      *)
SettleFails ==
    /\ upload \in {"accepted", "refused"} /\ Ready
    /\ spent.faults < MaxFaults /\ Spend("faults")
    /\ upload' = "idle" /\ wire' = {}
    /\ UNCHANGED <<kinds, disk, spool, call, held, cutoff, history>>
    /\ UNCHANGED <<late, ledger, timeouts, applied, stored, unanswered>>

Restart ==
    /\ Crash
    /\ upload' = "idle" /\ wire' = {}
    /\ late' \in {late, late \cup ({wire} \ {{}})}
    /\ UNCHANGED <<ledger, timeouts, applied, stored, unanswered>>

SpoolStep == (\E kind \in Kinds : Enqueue(kind)) \/ Open \/ Steps \/ Fails \/ Age

DeliveryInit ==
    /\ Init
    /\ upload = "idle" /\ wire = {} /\ late = {} /\ ledger = {} /\ timeouts = 0
    /\ applied = [n \in Records |-> 0] /\ stored = [n \in Records |-> 0] /\ unanswered = {}

DeliveryNext ==
    \/ SpoolStep /\ UNCHANGED deliveryVars
    \/ Ask \/ Post \/ Answer \/ IngestLate \/ CommitFails \/ TimeOut
    \/ Settle \/ SettleFails \/ Restart

DeliverySpec == DeliveryInit /\ [][DeliveryNext]_allVars

(* The service manager restarts the sensor, calls run to their end, the    *)
(* upload timer fires, and requests are answered in the end.               *)
DeliveryFairness ==
    /\ WF_allVars((Open \/ Steps) /\ UNCHANGED deliveryVars)
    /\ SF_allVars(Ask) /\ WF_allVars(Post) /\ WF_allVars(Answer) /\ SF_allVars(Settle)
DeliveryFairSpec == DeliverySpec /\ DeliveryFairness

-----------------------------------------------------------------------------
(***************************************************************************)
(* Properties.                                                             *)
(***************************************************************************)

(* Loop, spool, log and ledger together implement ResultDelivery.  A       *)
(* closed spool holds what opening its directory would recover, so dying   *)
(* between any two durable writes must look like nothing happened.  A      *)
(* commit that fails stores telemetry of queued results, and that only.    *)
Spooled == IF spool.phase = "closed" THEN Recovered(files) ELSE spool

Fate(n) ==
    IF applied[n] > 1 THEN "reapplied"
    ELSE IF applied[n] = 1 THEN "applied"
    ELSE IF n \notin entered THEN "new"
    ELSE IF n \in Spooled.live THEN "queued" ELSE "dropped"

Promise == INSTANCE ResultDelivery WITH
             fate <- [n \in Records |-> Fate(n)], dropped <- Spooled.dropped

ImplementsResultDelivery == Promise!Spec

(* An attempt is frozen: until it is answered, only the same batch is      *)
(* posted again, whatever was queued in between and also after a restart.  *)
PostedAgainUnchanged ==
    [][upload # "posted" /\ upload' = "posted" /\ unanswered # {} => wire' = unanswered]_allVars

(* The queue drains: every result is settled in the end, a bad one in the  *)
(* batch notwithstanding.                                                  *)
QueueDrains ==
    \A n \in Records : n \in entered ~> spool.phase = "open" /\ n \notin spool.live
=============================================================================
