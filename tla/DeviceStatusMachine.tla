------------------------- MODULE DeviceStatusMachine -------------------------
(***************************************************************************)
(* One device under a stream of checks: the state a status writer steps    *)
(* with DeviceStatus!Step, while an administrator edits the policy.  What  *)
(* the outside learns is the event stream; the history variables keep what *)
(* an observer of the checks and of the events knows.                      *)
(***************************************************************************)
EXTENDS DeviceStatus

CONSTANTS
    Interval,       \* configured ping interval
    Settings        \* in which a device can live: a set of records of
                    \*   policies  the effective policies an administrator can save
                    \*   samples   measured outcomes: [responding, rtt, loss]
                    \*   deltas    how far apart two timestamps can be (negative: clock step)
                    \*   maxTime   bound on timestamps
                    \*   histLen   how many checks the observer remembers

ASSUME MachineAssumption ==
    /\ Interval \in Nat
    /\ \A s \in Settings :
         /\ \A p \in s.policies :
              /\ PolicyRules(p)
              /\ {p.degWindow, p.degClear, p.downConfirm, p.sensorDownConfirm, p.upConfirm} \subseteq 1..s.histLen
         /\ s.maxTime \in Nat /\ s.histLen \in Nat /\ s.deltas \subseteq Int

VARIABLES
    setting,    \* the setting of this device
    source,     \* who checks the device: "central" or "sensor"
    policy,     \* the policy in force
    state,      \* the machine state
    events,     \* the events of the last check
    hist,       \* history: classes of the accepted checks since the last gap, newest first
    fresh,      \* history: announced changes of each class since its last fresh start
    told        \* history: the last status announced

vars == <<setting, source, policy, state, events, hist, fresh, told>>

FlapClasses == {"reach", "perf"}
Changes(s, class) == IF class = "reach" THEN s.reach ELSE s.perf
Flag(s, class) == IF class = "reach" THEN s.reachFlapping ELSE s.perfFlapping

Checks ==
    {[ts |-> ts, responding |-> m.responding, rtt |-> m.rtt, loss |-> m.loss, interval |-> Interval,
      maintenance |-> maint, ordered |-> source = "central", source |-> source] :
        ts \in {t \in {state.last + d : d \in setting.deltas} : t \in 1..setting.maxTime},
        m \in setting.samples, maint \in BOOLEAN}

Init ==
    /\ source \in {"central", "sensor"}
    /\ setting \in Settings /\ policy \in setting.policies
    /\ \E status \in Displayable : state = Seed(status)
    /\ events = <<>>
    /\ hist = <<>>
    /\ fresh = [class \in FlapClasses |-> 0]
    /\ told = Displayed(state)

(* What the observer adds up.  A class starts afresh when its flapping     *)
(* stops for stability, and both do when maintenance begins.               *)
Observed(c) ==
    SubSeq(<<Classify(c, policy)>> \o (IF AfterGap(state, c) THEN <<>> ELSE hist),
           1, Least(setting.histLen, 1 + IF AfterGap(state, c) THEN 0 ELSE Len(hist)))

Announced(evs, class) ==
    Cardinality({i \in 1..Len(evs) : evs[i].type = "transition" /\ ChangeClass(evs[i].old, evs[i].new) = class
                                       /\ "maintenance" \notin {evs[i].old, evs[i].new}})

StopsQuiet(next, class) ==
    /\ policy.flapDetection /\ Flag(state, class) /\ ~Flag(next, class)
    /\ \A i \in 1..Len(Changes(next, class)) : Changes(next, class)[i] <= next.last - policy.flapStable

LastTold(evs) ==
    LET ts == {i \in 1..Len(evs) : evs[i].type = "transition"}
    IN IF ts = {} THEN told ELSE evs[CHOOSE i \in ts : \A j \in ts : j <= i].new

Check(c) ==
    LET out == Step(state, c, policy)
    IN /\ state' = out.state
       /\ events' = out.events
       /\ hist' = IF Accepts(state, c) THEN Observed(c) ELSE hist
       /\ fresh' = [class \in FlapClasses |->
                      IF out.state.maint \/ StopsQuiet(out.state, class) THEN 0
                      ELSE Least(MaxChanges, fresh[class] + Announced(out.events, class))]
       /\ told' = LastTold(out.events)
       /\ UNCHANGED <<setting, source, policy>>

SavePolicy(p) ==
    /\ p # policy
    /\ policy' = p
    /\ events' = <<>>
    /\ UNCHANGED <<setting, source, state, hist, fresh, told>>

Next ==
    \/ \E c \in Checks : Check(c)
    \/ \E p \in setting.policies : SavePolicy(p)

Spec == Init /\ [][Next]_vars

-----------------------------------------------------------------------------
(***************************************************************************)
(* Properties.                                                             *)
(***************************************************************************)

(* The machine state has the shape of a device_status_state row: streaks   *)
(* saturate, the ring is never longer than the largest window in use, the  *)
(* change lists never exceed their bound.                                  *)
TypeOK ==
    /\ state.hard \in HardStatuses /\ state.maint \in BOOLEAN
    /\ {state.fail, state.ok, state.clear} \subseteq 0..StreakCap
    /\ state.window \in Seq(BOOLEAN) /\ Len(state.window) <= setting.histLen
    /\ \A class \in FlapClasses :
         /\ Changes(state, class) \in Seq(1..setting.maxTime) /\ Len(Changes(state, class)) <= MaxChanges
         /\ Flag(state, class) \in BOOLEAN
    /\ state.last \in 0..setting.maxTime /\ state.flappingSince \in 0..setting.maxTime
    /\ told \in Displayable

(* The event stream is complete: somebody who only follows the transitions *)
(* (status log, alert engine, dashboards) knows the displayed status after *)
(* every check, through silent changes under maintenance included.         *)
ToldIsDisplayed == told = Displayed(state)

(* A confirmed change always rests on checks really made under the policy  *)
(* in force and since the last long silence: Down on enough consecutive    *)
(* failures, leaving Down on enough consecutive answers, Degraded on       *)
(* enough bad checks of the window, recovery on enough clear answers or on *)
(* a full window without a bad one.                                        *)
Leading(h, good) == CHOOSE n \in 0..Len(h) : (\A i \in 1..n : h[i] \in good)
                                              /\ (n < Len(h) => h[n + 1] \notin good)
Bad(h, n) == Cardinality({i \in 1..Least(n, Len(h)) : h[i] \in {"fail", "breach"}})
Answers == {"breach", "marginal", "clear"}

Evidence(from, to, h, p) ==
    CASE to = "down" -> Leading(h, {"fail"}) >= DownConfirm(p, source)
      [] from = "down" /\ to # "down" -> Leading(h, Answers) >= p.upConfirm
      [] from = "up" /\ to = "degraded" -> h[1] # "fail" /\ Bad(h, p.degWindow) >= p.degConfirm
      [] from = "degraded" /\ to = "up" ->
           Leading(h, {"clear"}) >= p.degClear \/ (Len(h) >= p.degWindow /\ Bad(h, p.degWindow) = 0)
      [] OTHER -> from = "unknown" /\ h[1] # "fail"

ConfirmedByEvidence ==
    [][state'.hard # state.hard => Evidence(state.hard, state'.hard, hist', policy)]_vars

(* Nothing confirmed is left pending: right after an accepted check the    *)
(* progress shown in the status explanation is short of what it requires,  *)
(* also when the policy was tightened or relaxed before the check.         *)
PendingIsShort ==
    [][state'.last # NoTime /\ hist' # hist =>
         LET pending == Pending(state', policy', source) IN pending.count < pending.required]_vars

(* A flapping device is still changing: in every class that flaps, the     *)
(* last announced change is younger than the stable time and more than     *)
(* flap_stop_changes lie in the window.  So no held alert waits for a      *)
(* device that has settled.                                                *)
FlappingIsRecent ==
    [][\A class \in FlapClasses :
         state'.last # NoTime /\ state' # state /\ Flag(state', class) =>
           LET changes == Changes(state', class)
           IN /\ policy.flapDetection
              /\ Cardinality({i \in 1..Len(changes) : changes[i] > state'.last - policy.flapWindow})
                   > policy.flapStop
              /\ changes[Len(changes)] > state'.last - policy.flapStable]_vars

(* Latency jitter never holds back a Down, nor the other way round: a      *)
(* change is marked flapping (its alert is held) only when as many changes *)
(* of its own class were announced since that class last settled as some   *)
(* policy in use asks for.                                                 *)
HeldForItsOwnClass ==
    [][\A i \in 1..Len(events') :
         events'[i].type = "transition" /\ events'[i].flapping =>
           \E class \in FlapClasses :
             /\ ChangeClass(events'[i].old, events'[i].new) = class
             /\ \E p \in setting.policies : fresh'[class] >= p.flapStart]_vars
=============================================================================
