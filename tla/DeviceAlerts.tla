---------------------------- MODULE DeviceAlerts ----------------------------
(***************************************************************************)
(* Status alerts of one device under one alert rule, as the API workers    *)
(* raise, hold, page, escalate, silence and close them.                    *)
(*                                                                         *)
(* The poller posts the device's transitions in order (a sensor's outbox   *)
(* hands them over without giving up); a post it gave up on keeps running  *)
(* beside the next one.  An evaluation is one transaction                  *)
(* under the device's advisory lock, and its notification leaves after the *)
(* commit.  Every API worker runs the same loop of sweeps: escalation      *)
(* (under a pass lock a dropped connection loses), holds, ended snoozes.   *)
(* A sweep reads its rows first and acts on what it read.                  *)
(*                                                                         *)
(* Time is left open: a hold, a level, a cooldown or a snooze may end at   *)
(* any moment.  The resolved notice row of a reset is never read again and *)
(* is left out, as are rules that trigger on up; a notification counts as  *)
(* sent when it is attempted.                                              *)
(***************************************************************************)
EXTENDS Integers, Sequences, FiniteSets

CONSTANTS Workers,      \* API workers, each with its sweep loop
          Trigger,      \* the rule's trigger_on: "any", "down", "degraded"
          Hold,         \* min_duration > 0
          Reset,        \* recovery_alert
          Levels,       \* number of inline escalation levels
          MaxRepeat,    \* cap of reminders per level
          MaxMoves,     \* bound: status changes of the device
          MaxUpsets     \* bound: posts the poller gives up on, API restarts,
                        \* the loss of the pass lock, silent sensors, snoozes

ASSUME DeviceAlertsAssumption ==
    /\ Trigger \in {"any", "down", "degraded"}
    /\ Hold \in BOOLEAN /\ Reset \in BOOLEAN
    /\ {Levels, MaxRepeat, MaxMoves, MaxUpsets} \subseteq Nat

VARIABLES status,   \* devices.status
          moves,    \* transitions the poller has still to post
          waiting,  \* number of the post the poller waits for, 0 if none
          posts,    \* evaluations running in the API
          rows,     \* alerts, oldest first
          silence,  \* an unexpired alert_silences row covers the condition
          work,     \* what each worker's sweep loop is doing
          sent,     \* notifications attempted
          again,    \* notifications attempted a second time
          lastUp,   \* number of rows when a move to up was last evaluated
          used      \* how much of each bound is used up

vars == <<status, moves, waiting, posts, rows, silence, work, sent, again, lastUp, used>>

Trouble == {"down", "degraded"}
Statuses == Trouble \cup {"up"}
Announced == {"active", "acknowledged"}
Reasons == {"recovered", "superseded", "hold_cancelled", "manual", "dependency", "sensor_offline"}
Steps == (1..Levels) \X (0..MaxRepeat)
Whats == {"trigger", "recovery", "all_clear", "closure", "reminder", "level"}

(* A notification: the incident, the event of its delivery keys, and the   *)
(* level and reminder an escalation is about.                              *)
Notices == [id : 1..MaxMoves, what : Whats, step : Steps \cup {<<0, 0>>}]
Notice(id, what) == [id |-> id, what |-> what, step |-> <<0, 0>>]
NoPlan == Notice(0, "trigger")

(* An alerts row; "told" is metadata.notified, absent on rows never stamped. *)
Row == [new : Trouble,
        st : {"pending", "resolved"} \cup Announced,
        why : Reasons \cup {"none"},
        told : {"yes", "no", "absent"},
        level : 0..Levels, repeats : 0..MaxRepeat, closed : BOOLEAN,
        stamp : BOOLEAN]

Idle == [kind |-> "idle"]

IsOpen(r) == r.st \in {"pending"} \cup Announced
(* Mutant: a recovery does not ask whether the trigger went out. *)
WasToldAlways(r) == TRUE
WasTold(r) == r.told \in {"yes", "absent"}
Resolved(r, why) == [r EXCEPT !.st = "resolved", !.why = why]

(* A hold that ends early is a cancelled hold, never a closed incident. *)
Closed(r, why) == Resolved(r, IF r.st = "pending" THEN "hold_cancelled" ELSE why)

NewRow(new, st, told) ==
    [new |-> new, st |-> st, why |-> "none",
     told |-> told, level |-> 0, repeats |-> 0, closed |-> FALSE,
     stamp |-> FALSE]

OpenRows(rs) == {i \in DOMAIN rs : IsOpen(rs[i])}
Close(rs, which, why) ==
    [i \in DOMAIN rs |-> IF i \in which THEN Closed(rs[i], why) ELSE rs[i]]

TriggerMatches(new) == Trigger = "any" \/ new = Trigger

(* A trigger that fires is sent, or kept quiet: by a cooldown, a limit, a  *)
(* digest or quiet hours.                                                  *)
Tolds == {"yes", "no"}

SendOut(n) ==
    /\ sent' = sent \cup {n}
    /\ again' = IF n \in sent THEN again \cup {n} ELSE again

-----------------------------------------------------------------------------
(* The device and the poller's alert queue. *)

Init ==
    /\ status = "up" /\ moves = <<>> /\ waiting = 0 /\ posts = {}
    /\ rows = <<>> /\ silence = FALSE
    /\ work = [w \in Workers |-> Idle]
    /\ sent = {} /\ again = {} /\ lastUp = 0
    /\ used = [moves |-> 0, upsets |-> 0, snoozes |-> 0, unsaved |-> {}, crashed |-> FALSE, split |-> FALSE]

Move(new) ==
    /\ new # status /\ used.moves < MaxMoves
    /\ status' = new
    /\ moves' = Append(moves, [old |-> status, new |-> new])
    /\ used' = [used EXCEPT !.moves = @ + 1]
    /\ UNCHANGED <<waiting, posts, rows, silence, work, sent, again, lastUp>>

(* The sensor that polls the device goes silent: unknown is written        *)
(* without an announcement, and the open alerts are closed.                *)
SensorOffline ==
    /\ status # "unknown" /\ used.upsets < MaxUpsets
    /\ status' = "unknown"
    /\ rows' = Close(rows, OpenRows(rows), "sensor_offline")
    /\ used' = [used EXCEPT !.upsets = @ + 1]
    /\ UNCHANGED <<moves, waiting, posts, silence, work, sent, again, lastUp>>

Post ==
    /\ waiting = 0 /\ moves # <<>>
    /\ waiting' = used.moves - Len(moves) + 1
    /\ posts' = posts \cup {[n |-> waiting', ev |-> Head(moves), plan |-> NoPlan]}
    /\ moves' = Tail(moves)
    /\ UNCHANGED <<status, rows, silence, work, sent, again, lastUp, used>>

PostTimesOut ==
    /\ waiting # 0 /\ used.upsets < MaxUpsets
    /\ waiting' = 0
    /\ used' = [used EXCEPT !.upsets = @ + 1]
    /\ UNCHANGED <<status, moves, posts, rows, silence, work, sent, again, lastUp>>

Answered(n) == IF waiting = n THEN 0 ELSE waiting

-----------------------------------------------------------------------------
(* evaluate_status_change, up to its commit. *)

(* Rows and notification after a reset: the rule's own incident, if one    *)
(* was closed and its trigger went out.                                    *)
ResetPlan(rs) ==
    LET closed == {i \in DOMAIN rs : rs[i].st \in Announced /\ rs[i].new \in Trouble} IN
    IF Reset /\ \E i \in closed : WasTold(rs[i])
    THEN Notice(CHOOSE i \in closed : \A j \in closed : i <= j, "recovery")
    ELSE NoPlan

(* A held trigger replaces only an older hold; one that fires replaces     *)
(* every open row of the rule.                                             *)
(* Mutant: a held trigger leaves the older hold alone. *)
SupersedeOnlyFiring(rs, held) ==
    IF held THEN rs ELSE Close(rs, OpenRows(rs), "superseded")
Supersede(rs, held) ==
    Close(rs, IF held THEN {i \in DOMAIN rs : rs[i].st = "pending"} ELSE OpenRows(rs), "superseded")

(* What a trigger may come to: nothing (maintenance, an offline sensor, a  *)
(* condition or scope that does not match), a row an unhealthy parent      *)
(* suppresses, a hold, or an alert that is sent or kept quiet.             *)
Outcome(rs, plan) == [rows |-> rs, plan |-> plan]

TriggerOutcomes(rs, new) ==
    LET id == Len(rs) + 1
        fires(told) == Append(Supersede(rs, FALSE), NewRow(new, "active", told))
        dependent == Resolved(NewRow(new, "active", "absent"), "dependency")
        held == NewRow(new, "pending", "no")
    IN  {Outcome(rs, NoPlan), Outcome(Append(rs, dependent), NoPlan)}
        \cup (IF silence THEN {} ELSE {Outcome(Append(Supersede(rs, TRUE), held), NoPlan)})
        \cup (IF silence \/ Hold THEN {}
              ELSE {Outcome(fires(told), IF told = "yes" THEN Notice(id, "trigger") ELSE NoPlan) :
                      told \in Tolds})

Evaluation(ev) ==
    IF ev.new = "up"
    THEN LET recovery == ev.old \in Trouble IN
         {Outcome(Close(rows, OpenRows(rows), IF recovery THEN "recovered" ELSE "superseded"),
                  IF recovery THEN ResetPlan(rows) ELSE NoPlan)}
    ELSE IF TriggerMatches(ev.new) THEN TriggerOutcomes(rows, ev.new)
    ELSE {Outcome(rows, NoPlan)}

Evaluate(p) ==
    /\ p.plan = NoPlan
    /\ \E out \in Evaluation(p.ev) :
          /\ rows' = out.rows
          /\ IF out.plan = NoPlan
             THEN posts' = posts \ {p} /\ waiting' = Answered(p.n)
             ELSE posts' = (posts \ {p}) \cup {[p EXCEPT !.plan = out.plan]} /\ UNCHANGED waiting
    /\ lastUp' = IF p.ev.new = "up" THEN Len(rows) ELSE lastUp
    /\ UNCHANGED <<status, moves, silence, work, sent, again, used>>

(* The notification leaves after the commit, outside the device lock. *)
SendPlanned(p) ==
    /\ p.plan # NoPlan
    /\ SendOut(p.plan)
    /\ posts' = posts \ {p}
    /\ waiting' = Answered(p.n)
    /\ UNCHANGED <<status, moves, rows, silence, work, lastUp, used>>

-----------------------------------------------------------------------------
(* The operator. *)

Acknowledge(i) ==
    /\ rows[i].st = "active"
    /\ rows' = [rows EXCEPT ![i].st = "acknowledged"]
    /\ UNCHANGED <<status, moves, waiting, posts, silence, work, sent, again, lastUp, used>>

ResolveByHand(i) ==
    /\ IsOpen(rows[i])
    /\ rows' = [rows EXCEPT ![i] = Resolved(@, "manual")]
    /\ UNCHANGED <<status, moves, waiting, posts, silence, work, sent, again, lastUp, used>>

StampOpen(rs, on) == [i \in DOMAIN rs |-> IF IsOpen(rs[i]) THEN [rs[i] EXCEPT !.stamp = on] ELSE rs[i]]

Snooze ==
    /\ rows # <<>> /\ used.upsets < MaxUpsets
    /\ silence' = TRUE
    /\ rows' = StampOpen(rows, TRUE)
    /\ used' = [used EXCEPT !.upsets = @ + 1, !.snoozes = @ + 1]
    /\ UNCHANGED <<status, moves, waiting, posts, work, sent, again, lastUp>>

Unsnooze ==
    /\ silence
    /\ silence' = FALSE
    /\ rows' = StampOpen(rows, FALSE)
    /\ UNCHANGED <<status, moves, waiting, posts, work, sent, again, lastUp, used>>

(* The silence's time is over; its stamps stay on the rows. *)
SilenceEnds ==
    /\ silence
    /\ silence' = FALSE
    /\ UNCHANGED <<status, moves, waiting, posts, rows, work, sent, again, lastUp, used>>

-----------------------------------------------------------------------------
(* The sweeps of worker w. *)

Becomes(w, x) == work' = [work EXCEPT ![w] = x]
Sending(plan) == [kind |-> "send", plan |-> plan]

(* The notification of a claimed step. *)
SweepSends(w) ==
    /\ work[w].kind = "send"
    /\ SendOut(work[w].plan)
    /\ Becomes(w, Idle)
    /\ UNCHANGED <<status, moves, waiting, posts, rows, silence, lastUp, used>>

(* A due hold is read together with the device's status. *)
HoldRead(w, i) ==
    /\ work[w] = Idle /\ rows[i].st = "pending"
    /\ Becomes(w, [kind |-> "hold", id |-> i, now |-> status])
    /\ UNCHANGED <<status, moves, waiting, posts, rows, silence, sent, again, lastUp, used>>

(* Mutant: the sweep trusts what it read. *)
SettlesAsRead(i) == TRUE
Settles(i) == rows[i].st = "pending"

HoldCancel(w) ==
    /\ work[w].kind = "hold" /\ work[w].now # rows[work[w].id].new
    /\ LET i == work[w].id IN
       rows' = IF Settles(i) THEN [rows EXCEPT ![i] = Resolved(@, "hold_cancelled")] ELSE rows
    /\ Becomes(w, Idle)
    /\ UNCHANGED <<status, moves, waiting, posts, silence, sent, again, lastUp, used>>

(* Settled, superseding and stamped in one transaction, which the first    *)
(* delivery key commits.                                                   *)
HoldConfirm(w) ==
    /\ work[w].kind = "hold" /\ work[w].now = rows[work[w].id].new
    /\ LET i == work[w].id
           others == [j \in DOMAIN rows |-> IF j # i /\ rows[j].st \in Announced
                                            THEN Resolved(rows[j], "superseded") ELSE rows[j]]
       IN  IF Settles(i)
           THEN \E told \in Tolds :
                  /\ silence => told = "no"
                  /\ rows' = [others EXCEPT ![i].st = "active", ![i].told = told]
                  /\ Becomes(w, IF told = "yes" THEN Sending(Notice(i, "trigger")) ELSE Idle)
           ELSE Becomes(w, Idle) /\ UNCHANGED rows
    /\ UNCHANGED <<status, moves, waiting, posts, silence, sent, again, lastUp, used>>

(* The escalation pass reads open rows nobody silenced and closed ones     *)
(* whose escalation still stands.                                          *)
(* Mutant: a superseded incident is not selected any more. *)
EscalatesUnlessSuperseded(r) ==
    (r.st = "active" /\ ~silence) \/ (r.st = "resolved" /\ r.level > 0 /\ ~r.closed /\ r.why # "superseded")
Escalates(r) == (r.st = "active" /\ ~silence) \/ (r.st = "resolved" /\ r.level > 0 /\ ~r.closed)

(* What of the row the pass goes on with. *)
Seen(r) == [st |-> r.st, why |-> r.why, told |-> r.told,
            level |-> r.level, repeats |-> r.repeats, closed |-> r.closed]

EscalationRead(w, i) ==
    /\ work[w] = Idle /\ Escalates(rows[i])
    /\ \/ (used.split \/ \A v \in Workers : work[v].kind # "escalate") /\ UNCHANGED used
       \/ /\ ~used.split /\ used.upsets < MaxUpsets
          /\ \E v \in Workers : work[v].kind = "escalate"
          /\ used' = [used EXCEPT !.upsets = @ + 1, !.split = TRUE]
    /\ Becomes(w, [kind |-> "escalate", id |-> i, seen |-> Seen(rows[i])])
    /\ UNCHANGED <<status, moves, waiting, posts, rows, silence, sent, again, lastUp>>

Escalation(r) == <<r.level, r.repeats, r.closed>>

(* _store_state: a compare-and-set on the escalation state alone. *)
(* Mutant: a plain write. *)
StateWhatever(i, seen) == TRUE
StateIsStill(i, seen) == Escalation(rows[i]) = Escalation(seen)

(* The next level, or a reminder at the current one. *)
Due(seen) ==
    {s \in Steps : \/ s[1] > seen.level /\ s[2] = 0
                   \/ s[1] = seen.level /\ s[2] = seen.repeats + 1}

EscalationStep(w) ==
    /\ work[w].kind = "escalate" /\ work[w].seen.st = "active"
    /\ LET i == work[w].id  seen == work[w].seen IN
       \/ Becomes(w, Idle) /\ UNCHANGED rows
       \/ /\ WasTold(seen) /\ StateIsStill(i, seen)
          /\ \E s \in Due(seen) :
                /\ rows' = [rows EXCEPT ![i].level = s[1], ![i].repeats = s[2],
                                        ![i].closed = FALSE]
                /\ Becomes(w, Sending([Notice(i, "level") EXCEPT !.step = s]))
    /\ UNCHANGED <<status, moves, waiting, posts, silence, sent, again, lastUp, used>>

(* The reason the tiers are given.  A sensor that went silent leaves none  *)
(* of the marks that tell another reason from a recovery.                  *)
closure_reason(r) == IF r.why = "sensor_offline" THEN "recovered" ELSE r.why

(* Claimed first, then told to the channels that were escalated to (they   *)
(* are other channels than those of the rule).                             *)
EscalationClose(w) ==
    /\ work[w].kind = "escalate" /\ work[w].seen.st = "resolved"
    /\ LET i == work[w].id  seen == work[w].seen IN
       IF StateIsStill(i, seen)
       THEN /\ rows' = [rows EXCEPT ![i].closed = TRUE]
            /\ Becomes(w, CASE closure_reason(seen) = "recovered" -> Sending(Notice(i, "all_clear"))
                            [] closure_reason(seen) = "manual" -> Sending(Notice(i, "closure"))
                            [] OTHER -> Idle)
       ELSE Becomes(w, Idle) /\ UNCHANGED rows
    /\ UNCHANGED <<status, moves, waiting, posts, silence, sent, again, lastUp, used>>

(* Ended snoozes: rows that still carry a stamp though nothing silences them. *)
SnoozeRead(w, i) ==
    /\ work[w] = Idle /\ rows[i].st \in Announced /\ rows[i].stamp /\ ~silence
    /\ Becomes(w, [kind |-> "snooze", id |-> i])
    /\ UNCHANGED <<status, moves, waiting, posts, rows, silence, sent, again, lastUp, used>>

(* The update asks for the stamp alone, and keeps the row locked until it  *)
(* commits; the reminder goes out before that.                             *)
SnoozeClear(w) ==
    /\ work[w].kind = "snooze"
    /\ LET i == work[w].id IN
       IF rows[i].stamp
       THEN /\ rows' = [rows EXCEPT ![i].stamp = FALSE]
            /\ IF rows[i].st = "active" THEN SendOut(Notice(i, "reminder"))
               ELSE UNCHANGED <<sent, again>>
       ELSE UNCHANGED <<rows, sent, again>>
    /\ Becomes(w, Idle)
    /\ UNCHANGED <<status, moves, waiting, posts, silence, lastUp, used>>

(* The commit fails, or the worker dies before it (bound: once per row):   *)
(* the reminder is out, and the stamp is still there.                      *)
SnoozeUnsaved(w) ==
    /\ work[w].kind = "snooze"
    /\ LET i == work[w].id IN
       /\ i \notin used.unsaved /\ rows[i].stamp /\ rows[i].st = "active"
       /\ SendOut(Notice(i, "reminder"))
       /\ used' = [used EXCEPT !.unsaved = @ \cup {i}]
    /\ Becomes(w, Idle)
    /\ UNCHANGED <<status, moves, waiting, posts, rows, silence, lastUp>>

(* The API restarts: evaluations and sweeps that run are gone, and the     *)
(* poller's post fails.                                                    *)
Crash ==
    /\ used.upsets < MaxUpsets
    /\ posts' = {} /\ waiting' = 0
    /\ work' = [w \in Workers |-> Idle]
    /\ used' = [used EXCEPT !.upsets = @ + 1, !.crashed = TRUE]
    /\ UNCHANGED <<status, moves, rows, silence, sent, again, lastUp>>

-----------------------------------------------------------------------------
Sweep(w) ==
    \/ SweepSends(w) \/ HoldCancel(w) \/ HoldConfirm(w)
    \/ EscalationStep(w) \/ EscalationClose(w) \/ SnoozeClear(w)

Next ==
    \/ \E new \in Statuses : Move(new)
    \/ SensorOffline \/ Post \/ PostTimesOut
    \/ \E p \in posts : Evaluate(p) \/ SendPlanned(p)
    \/ \E i \in DOMAIN rows : Acknowledge(i) \/ ResolveByHand(i)
    \/ Snooze \/ Unsnooze \/ SilenceEnds
    \/ \E w \in Workers, i \in DOMAIN rows : HoldRead(w, i) \/ EscalationRead(w, i) \/ SnoozeRead(w, i)
    \/ \E w \in Workers : Sweep(w) \/ SnoozeUnsaved(w)
    \/ Crash

Spec == Init /\ [][Next]_vars
-----------------------------------------------------------------------------
(* A worker finishes the step of its loop it is in, and some worker's pass *)
(* keeps reaching an incident that keeps being selected: the loop runs     *)
(* every 30 seconds and an incident is selected for a day after it ended.  *)
(* Nothing is assumed of people, the device, the poller or restarts.       *)
Fairness ==
    /\ \A w \in Workers : WF_vars(Sweep(w))
    /\ \A i \in 1..MaxMoves : SF_vars(i \in DOMAIN rows /\ \E w \in Workers : EscalationRead(w, i))

FairSpec == Spec /\ Fairness

(* A notification is with a dispatcher that has not attempted it yet. *)
Underway(id, what) ==
    \/ \E p \in posts : p.plan = Notice(id, what)
    \/ \E w \in Workers : work[w] = Sending(Notice(id, what))

(* Attempted, about to be, or lost to a restart between commit and send. *)
Paged(id) == Notice(id, "trigger") \in sent \/ Underway(id, "trigger") \/ used.crashed

(* Type invariant. *)
TypeOK ==
    /\ status \in Statuses \cup {"unknown"} /\ silence \in BOOLEAN
    /\ moves \in Seq([old : Statuses \cup {"unknown"}, new : Statuses]) /\ Len(moves) <= MaxMoves
    /\ waiting \in 0..MaxMoves /\ rows \in Seq(Row) /\ Len(rows) <= MaxMoves
    /\ \A w \in Workers : work[w].kind \in {"idle", "send", "hold", "escalate", "snooze"}
    /\ sent \subseteq Notices /\ again \subseteq sent
    /\ lastUp \in 0..Len(rows)

(* However evaluations and hold sweeps of two workers cross, the rule has  *)
(* at most one alert in its hold and one announced alert open: a new       *)
(* trigger, or a hold that confirms, closes what it replaces               *)
(* (alert_engine.py, alert_hold_service.py).                               *)
OneOpenAlert ==
    \A i, j \in DOMAIN rows :
        i # j /\ IsOpen(rows[i]) /\ IsOpen(rows[j])
          => (rows[i].st = "pending") # (rows[j].st = "pending")

(* Once a move to up was evaluated, no alert raised before it is open, not *)
(* even one a sweep read while it was still in its hold.                   *)
UpClosesAll == \A i \in 1..lastUp : ~IsOpen(rows[i])

(* A recovery notice, a level, an all-clear and a closure only go out for  *)
(* an incident whose own page went out first or is on its way: nobody hears of *)
(* the end, and no second tier is paged, before the first.                 *)
NothingBeforeThePage ==
    \A n \in sent : n.what # "reminder" => Paged(n.id)

(* However many sweeps run side by side and whatever restarts, no page,    *)
(* recovery, level, all-clear or closure of one incident is attempted      *)
(* twice.  An ended snooze is reminded of once, unless the transaction     *)
(* that was to take its stamp failed after the reminder was sent.          *)
NeverTwice ==
    \A n \in again : n.what = "reminder" /\ (used.snoozes > 1 \/ n.id \in used.unsaved)

RowIs(i, Cond(_)) == i \in DOMAIN rows /\ Cond(rows[i])

(* The escalation of a closed incident is closed as well, also when the    *)
(* level was claimed after the incident was closed: no pass selects it     *)
(* again, and the tiers that were paged are told of a recovery.            *)
EscalationsEnd ==
    \A i \in 1..MaxMoves :
        RowIs(i, LAMBDA r : r.st = "resolved" /\ r.level > 0) ~> RowIs(i, LAMBDA r : r.closed)
=============================================================================
