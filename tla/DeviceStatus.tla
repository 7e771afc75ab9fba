---------------------------- MODULE DeviceStatus ----------------------------
(***************************************************************************)
(* The confirmed-status machine of one monitored device: the pure Step     *)
(* function of poller/internal/devicestatus (its Python twin is            *)
(* server/app/services/device_status_machine.py), the seeding rules and    *)
(* the progress report.                                                    *)
(*                                                                         *)
(* Times are minutes, counted from 1; NoTime is the nil time.  The bit     *)
(* ring (window_bits, window_len) is the sequence of its valid entries,    *)
(* newest first.  Reason texts and status_since are left out.              *)
(***************************************************************************)
EXTENDS Integers, Sequences, FiniteSets

CONSTANTS
    StreakCap,      \* where the streaks saturate (100 in the code)
    MaxChanges,     \* bound of each change-time list (64 in the code)
    GapFloor        \* shortest silence that resets the evidence (3 minutes)

ASSUME CapsAssumption ==
    /\ StreakCap \in Nat \ {0}
    /\ MaxChanges \in Nat \ {0}
    /\ GapFloor \in Nat

HardStatuses == {"up", "degraded", "down", "unknown"}
Displayable == HardStatuses \cup {"maintenance"}
NoTime == 0

Least(a, b) == IF a <= b THEN a ELSE b
Most(a, b) == IF a >= b THEN a ELSE b

(* Policy: the cross-field rules the loader establishes. *)
PolicyRules(p) ==
    /\ {p.degConfirm, p.degClear, p.downConfirm, p.sensorDownConfirm, p.upConfirm} \subseteq 1..StreakCap
    /\ p.degWindow \in Nat /\ p.degWindow >= p.degConfirm
    /\ p.flapWindow \in Nat \ {0}
    /\ p.flapStart \in 3..MaxChanges
    /\ p.flapStop \in 0..p.flapStart - 1
    /\ p.flapStable \in 1..p.flapWindow
    /\ p.flapDetection \in BOOLEAN
    /\ p.rttClear <= p.rtt /\ p.lossClear <= p.loss

DownConfirm(p, source) == IF source = "sensor" THEN p.sensorDownConfirm ELSE p.downConfirm

(* One check against the limits; between the clear limits and the degraded *)
(* limits it is marginal.                                                  *)
Classify(c, p) ==
    CASE ~c.responding                              -> "fail"
      [] c.responding /\ (c.rtt > p.rtt \/ c.loss > p.loss) -> "breach"
      [] c.responding /\ c.rtt <= p.rttClear /\ c.loss <= p.lossClear -> "clear"
      [] OTHER                                      -> "marginal"

DisplayedUnlessUnknown(s) == IF s.maint /\ s.hard # "unknown" THEN "maintenance" ELSE s.hard \* mutant
Displayed(s) == IF s.maint THEN "maintenance" ELSE s.hard
IsFlapping(s) == s.reachFlapping \/ s.perfFlapping
FlapKind(s) ==
    CASE s.reachFlapping /\ s.perfFlapping -> "both"
      [] s.reachFlapping /\ ~s.perfFlapping -> "reachability"
      [] ~s.reachFlapping /\ s.perfFlapping -> "performance"
      [] OTHER -> ""

(* The ring of the last checks. *)
Push(window, bad, p) == SubSeq(<<bad>> \o window, 1, Least(Len(window) + 1, p.degWindow))
BadInWindow(window, p) == Cardinality({i \in 1..Least(Len(window), p.degWindow) : window[i]})

(* Changes into or out of down are reachability, up <-> degraded performance. *)
ChangeClass(prev, next) ==
    IF prev = next \/ "unknown" \in {prev, next} THEN "none"
    ELSE IF "down" \in {prev, next} THEN "reach" ELSE "perf"

Transition(old, new, alert) ==
    [type |-> "transition", old |-> old, new |-> new, alert |-> alert, flapping |-> FALSE, reason |-> ""]
FlapStart(kind) ==
    [type |-> "flap_start", old |-> "", new |-> "", alert |-> FALSE, flapping |-> TRUE, reason |-> kind]
FlapStop(reason) ==
    [type |-> "flap_stop", old |-> "", new |-> "", alert |-> FALSE, flapping |-> FALSE, reason |-> reason]

(***************************************************************************)
(* Seeding.                                                                *)
(***************************************************************************)
Seed(status) ==
    [hard |-> IF status \in {"up", "degraded", "down"} THEN status ELSE "unknown",
     maint |-> status = "maintenance",
     fail |-> 0, ok |-> 0, clear |-> 0, window |-> <<>>,
     reach |-> <<>>, perf |-> <<>>, reachFlapping |-> FALSE, perfFlapping |-> FALSE,
     flappingSince |-> NoTime, last |-> NoTime]

(***************************************************************************)
(* Step 0: ordering and gaps.  Accepts decides whether the check counts at *)
(* all: a late or duplicate sample of a remote sensor is ignored, a clock  *)
(* that stepped back on the single central writer is accepted.             *)
(***************************************************************************)
Accepts(s, c) == s.last = NoTime \/ c.ts > s.last \/ c.ordered
AfterGap(s, c) == s.last # NoTime /\ c.ts - s.last > Most(3 * c.interval, GapFloor)

Order(s, c) ==
    LET notAfter(changes) == SelectSeq(changes, LAMBDA t : t <= c.ts)
        steppedBack == s.last # NoTime /\ c.ts <= s.last
        gap == AfterGap(s, c)
    IN [s EXCEPT !.reach = IF steppedBack THEN notAfter(@) ELSE @,
                 !.perf = IF steppedBack THEN notAfter(@) ELSE @,
                 !.fail = IF gap THEN 0 ELSE @,
                 !.ok = IF gap THEN 0 ELSE @,
                 !.clear = IF gap THEN 0 ELSE @,
                 !.window = IF gap THEN <<>> ELSE @,
                 !.last = c.ts,
                 !.hard = IF @ \in HardStatuses THEN @ ELSE "unknown"]

(***************************************************************************)
(* Step 1: the maintenance overlay begins; the flap history is forgotten.  *)
(***************************************************************************)
Forget(s) == [s EXCEPT !.reach = <<>>, !.perf = <<>>, !.reachFlapping = FALSE, !.perfFlapping = FALSE,
                       !.flappingSince = NoTime]

EnterMaintenance(s, c) ==
    IF c.maintenance /\ ~s.maint
    THEN [state |-> [Forget(s) EXCEPT !.maint = TRUE],
          events |-> <<Transition(Displayed(s), "maintenance", FALSE)>>
                       \o IF IsFlapping(s) THEN <<FlapStop("maintenance")>> ELSE <<>>]
    ELSE [state |-> s, events |-> <<>>]

(***************************************************************************)
(* Step 2: evidence, then the hard change it confirms, if any.             *)
(* Collect adds the check to the streaks and the ring; Confirmed is the    *)
(* hard status the collected evidence supports and the streak that change  *)
(* keeps.                                                                  *)
(***************************************************************************)
Increment(n) == Least(n + 1, StreakCap)

CollectFailureKeepingOk(s, p) == \* mutant: answers need not be consecutive
    [s EXCEPT !.fail = Increment(@), !.clear = 0,
              !.window = IF s.hard = "down" THEN @ ELSE Push(@, TRUE, p)]
CollectFailure(s, p) ==
    [s EXCEPT !.fail = Increment(@), !.ok = 0, !.clear = 0,
              !.window = IF s.hard = "down" THEN @ ELSE Push(@, TRUE, p)]

CollectAnswer(s, class, p) ==
    [s EXCEPT !.fail = 0,
              !.ok = IF s.hard = "down" THEN Increment(@) ELSE @,
              !.clear = IF s.hard # "degraded" THEN @ ELSE IF class = "clear" THEN Increment(@) ELSE 0,
              !.window = IF s.hard \in {"up", "degraded"} THEN Push(@, class = "breach", p) ELSE @]

Collect(s, c, p) ==
    LET class == Classify(c, p)
    IN IF class = "fail" THEN CollectFailure(s, p) ELSE CollectAnswer(s, class, p)

(* The baseline of a device that answers again: up, or degraded when one   *)
(* slow answer is all the policy asks for.                                 *)
Baseline(class, p) ==
    IF class = "breach" /\ BadInWindow(Push(<<>>, TRUE, p), p) >= p.degConfirm THEN "degraded" ELSE "up"

Confirmed(s, c, p) ==
    LET class == Classify(c, p)
        bad == BadInWindow(s.window, p)
        stay == [next |-> s.hard, keep |-> "none"]
    IN IF class = "fail"
       THEN IF s.hard # "down" /\ s.fail >= DownConfirm(p, c.source)
            THEN [next |-> "down", keep |-> "fail"] ELSE stay
       ELSE CASE s.hard = "down" ->
                   IF s.ok >= p.upConfirm THEN [next |-> Baseline(class, p), keep |-> "ok"] ELSE stay
              [] s.hard = "up" ->
                   IF bad >= p.degConfirm THEN [next |-> "degraded", keep |-> "none"] ELSE stay
              [] s.hard = "degraded" ->
                   IF s.clear >= p.degClear THEN [next |-> "up", keep |-> "clear"]
                   ELSE IF Len(s.window) >= p.degWindow /\ bad = 0 THEN [next |-> "up", keep |-> "none"]
                   ELSE stay
              [] OTHER -> [next |-> Baseline(class, p), keep |-> "none"]

(* Applying the change: what is kept, what starts over, what is recorded.  *)
KeptAlways(verdict, streak, n) == n \* mutant: no streak starts over
Kept(verdict, streak, n) == IF verdict.keep = streak THEN n ELSE 0

Change(s, verdict, c, p) ==
    LET class == ChangeClass(s.hard, verdict.next)
    IN IF verdict.next = s.hard THEN s
       ELSE [s EXCEPT !.hard = verdict.next,
                      !.fail = Kept(verdict, "fail", @),
                      !.ok = Kept(verdict, "ok", @),
                      !.clear = Kept(verdict, "clear", @),
                      !.window = IF c.responding THEN Push(<<>>, Classify(c, p) = "breach", p) ELSE <<>>,
                      !.reach = IF class = "reach" /\ ~s.maint THEN Append(@, c.ts) ELSE @,
                      !.perf = IF class = "perf" /\ ~s.maint THEN Append(@, c.ts) ELSE @]

(***************************************************************************)
(* Step 3: the overlay ends once the device has a confirmed status.        *)
(***************************************************************************)
ExitsMaintenance(s, c) == ~c.maintenance /\ s.maint /\ s.hard # "unknown"

(***************************************************************************)
(* Step 4: flap detection of one class.                                    *)
(***************************************************************************)
QuietForWindow(changes, ts, p) == changes # <<>> /\ changes[Len(changes)] <= ts - p.flapWindow \* mutant
Quiet(changes, ts, p) == changes # <<>> /\ changes[Len(changes)] <= ts - p.flapStable

Remembered(changes, quiet) == IF quiet THEN <<>> ELSE changes

EvaluateFlap(changes, flapping, ts, p) ==
    LET inWindow == SelectSeq(changes, LAMBDA t : t > ts - p.flapWindow)
        recent == IF Len(inWindow) > MaxChanges
                  THEN SubSeq(inWindow, Len(inWindow) - MaxChanges + 1, Len(inWindow)) ELSE inWindow
        active == flapping \/ Len(recent) >= p.flapStart
        quiet == Quiet(recent, ts, p)
        ends == Len(recent) <= p.flapStop \/ quiet
    IN IF ~p.flapDetection
       THEN [changes |-> recent, flapping |-> FALSE, stopped |-> IF flapping THEN "disabled" ELSE ""]
       ELSE [changes |-> IF active THEN Remembered(recent, quiet) ELSE recent,
             flapping |-> active /\ ~ends,
             stopped |-> IF flapping /\ ends THEN "stable" ELSE ""]

DetectFlaps(s, ts, p) ==
    LET reach == EvaluateFlap(s.reach, s.reachFlapping, ts, p)
        perf == EvaluateFlap(s.perf, s.perfFlapping, ts, p)
        next == [s EXCEPT !.reach = reach.changes, !.reachFlapping = reach.flapping,
                          !.perf = perf.changes, !.perfFlapping = perf.flapping]
        starts == ~IsFlapping(s) /\ IsFlapping(next)
        stops == IsFlapping(s) /\ ~IsFlapping(next)
    IN IF s.maint THEN [state |-> s, events |-> <<>>]
       ELSE [state |-> [next EXCEPT !.flappingSince =
                          IF starts THEN ts ELSE IF stops THEN NoTime ELSE @],
             events |-> CASE starts -> <<FlapStart(FlapKind(next))>>
                          [] stops -> <<FlapStop(IF reach.stopped # "" THEN reach.stopped ELSE perf.stopped)>>
                          [] OTHER -> <<>>]

(***************************************************************************)
(* The whole step: the next state and the events in delivery order.  A     *)
(* hard transition reports whether its own class is flapping (step 5).     *)
(***************************************************************************)
OwnFlagOfDevice(class, s) == class # "none" /\ IsFlapping(s) \* mutant
OwnFlag(class, s) == (class = "reach" /\ s.reachFlapping) \/ (class = "perf" /\ s.perfFlapping)

Step(s, c, p) ==
    IF ~Accepts(s, c) THEN [state |-> s, events |-> <<>>]
    ELSE LET entered == EnterMaintenance(Order(s, c), c)
             prev == entered.state.hard
             seen == Collect(entered.state, c, p)
             changed == Change(seen, Confirmed(seen, c, p), c, p)
             class == ChangeClass(prev, changed.hard)
             exits == ExitsMaintenance(changed, c)
             overlaid == [changed EXCEPT !.maint = @ /\ ~exits]
             flaps == DetectFlaps(overlaid, c.ts, p)
             hardEvent == IF changed.hard # prev /\ ~changed.maint
                          THEN <<[Transition(prev, changed.hard, TRUE) EXCEPT !.flapping = OwnFlag(class, flaps.state)]>>
                          ELSE <<>>
             exitEvent == IF exits THEN <<Transition("maintenance", changed.hard, TRUE)>> ELSE <<>>
         IN [state |-> flaps.state,
             events |-> entered.events \o hardEvent \o exitEvent \o flaps.events]

(***************************************************************************)
(* Progress towards an unconfirmed change, as the status explanation shows *)
(* it: count of required, or count 0 when nothing is pending.              *)
(***************************************************************************)
Pending(s, p, source) ==
    LET bad == BadInWindow(s.window, p)
    IN CASE s.hard = "down" -> [target |-> "up", count |-> s.ok, required |-> p.upConfirm]
         [] s.hard # "down" /\ s.fail > 0 ->
              [target |-> "down", count |-> s.fail, required |-> DownConfirm(p, source)]
         [] s.hard = "up" /\ s.fail = 0 -> [target |-> "degraded", count |-> bad, required |-> p.degConfirm]
         [] s.hard = "degraded" /\ s.fail = 0 ->
              [target |-> "up", count |-> s.clear, required |-> p.degClear]
         [] OTHER -> [target |-> "", count |-> 0, required |-> 1]

(***************************************************************************)
(* NeedsReseed: the stored row (or NoRow) cannot be stepped by this owner. *)
(***************************************************************************)
NeedsReseed(hasRow, rowOwner, rowHard, status, owner) ==
    \/ ~hasRow
    \/ rowOwner # owner
    \/ status # "maintenance" /\ rowHard # status
=============================================================================
