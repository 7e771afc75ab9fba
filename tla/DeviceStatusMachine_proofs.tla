---------------------- MODULE DeviceStatusMachine_proofs ----------------------
(***************************************************************************)
(* What holds of the device status machine for any policies, samples,      *)
(* clock steps and maintenance windows.                                    *)
(***************************************************************************)
EXTENDS DeviceStatusMachine, WellFoundedInduction, FiniteSetTheorems, SequenceTheorems, TLAPS

Fields == {"hard", "maint", "fail", "ok", "clear", "window", "reach", "perf", "reachFlapping", "perfFlapping",
           "flappingSince", "last"}

Good(s) ==
    /\ DOMAIN s = Fields
    /\ s.hard \in HardStatuses /\ s.maint \in BOOLEAN
    /\ s.fail \in 0..StreakCap /\ s.ok \in 0..StreakCap /\ s.clear \in 0..StreakCap
    /\ s.window \in Seq(BOOLEAN)

(* What the lists of changes have no part in. *)
SameEvidence(s, t) ==
    /\ t.hard = s.hard /\ t.fail = s.fail /\ t.ok = s.ok /\ t.clear = s.clear /\ t.window = s.window

Classes == {"fail", "breach", "clear", "marginal"}

(* The evidence of the state is found in the history h of an observer who  *)
(* remembers n checks.                                                     *)
Streak(k, good, h, n) == \A i \in 1..k : i <= n => i \in DOMAIN h /\ h[i] \in good
Ring(window, h, n) ==
    \A i \in DOMAIN window : i <= n => i \in DOMAIN h /\ (window[i] <=> h[i] \in {"fail", "breach"})
Fits(s, h, n) ==
    /\ Streak(s.fail, {"fail"}, h, n)
    /\ Streak(s.ok, Answers, h, n)
    /\ s.hard = "degraded" => Streak(s.clear, {"clear"}, h, n)
    /\ s.hard # "down" => Ring(s.window, h, n)

Known ==
    /\ setting \in Settings /\ policy \in setting.policies /\ source \in {"central", "sensor"}
    /\ Good(state) /\ ToldIsDisplayed

IInv ==
    /\ Known
    /\ hist \in Seq(Classes) /\ Fits(state, hist, setting.histLen)

-----------------------------------------------------------------------------
LEMMA PolicyFacts ==
    ASSUME NEW s \in Settings, NEW p \in s.policies
    PROVE  /\ PolicyRules(p) /\ s.histLen \in Nat
           /\ p.degConfirm \in Nat \ {0} /\ p.degClear \in Nat \ {0} /\ p.upConfirm \in Nat \ {0}
           /\ \A from \in {"central", "sensor"} : DownConfirm(p, from) \in Nat \ {0} /\ DownConfirm(p, from) <= s.histLen
           /\ p.degWindow \in Nat \ {0} /\ p.degConfirm <= p.degWindow /\ p.degWindow <= s.histLen
           /\ p.degClear <= s.histLen /\ p.upConfirm <= s.histLen
<1>1. /\ PolicyRules(p) /\ s.histLen \in Nat
      /\ {p.degWindow, p.degClear, p.downConfirm, p.sensorDownConfirm, p.upConfirm} \subseteq 1..s.histLen
  BY MachineAssumption
<1>2. {p.degConfirm, p.degClear, p.downConfirm, p.sensorDownConfirm, p.upConfirm} \subseteq 1..StreakCap
      /\ p.degWindow \in Nat /\ p.degWindow >= p.degConfirm /\ StreakCap \in Nat
  BY <1>1, CapsAssumption DEF PolicyRules
<1>3. /\ p.degConfirm \in 1..StreakCap /\ p.degClear \in 1..s.histLen /\ p.downConfirm \in 1..s.histLen
      /\ p.sensorDownConfirm \in 1..s.histLen /\ p.upConfirm \in 1..s.histLen /\ p.degWindow \in 1..s.histLen
  BY <1>1, <1>2
<1> QED BY <1>1, <1>2, <1>3 DEF DownConfirm

LEMMA ClassFacts ==
    ASSUME NEW c, NEW p
    PROVE  Classify(c, p) \in Classes /\ (Classify(c, p) = "fail" <=> ~c.responding)
BY DEF Classify, Classes

LEMMA IncrementFacts ==
    ASSUME NEW n \in 0..StreakCap
    PROVE  Increment(n) \in 1..StreakCap /\ Increment(n) <= n + 1
BY CapsAssumption DEF Increment, Least

(* The ring is the window with the newest check in front, cut off.         *)
Pushed(window, bad, ring) ==
    /\ ring \in Seq(BOOLEAN) /\ ring[1] = bad
    /\ \A i \in DOMAIN ring : i # 1 => i - 1 \in DOMAIN window /\ ring[i] = window[i - 1]

LEMMA PushFacts ==
    ASSUME NEW window \in Seq(BOOLEAN), NEW bad \in BOOLEAN, NEW p, p.degWindow \in Nat \ {0}
    PROVE  /\ Push(window, bad, p) \in Seq(BOOLEAN) /\ Push(window, bad, p) # <<>>
           /\ Len(Push(window, bad, p)) <= Len(window) + 1
           /\ Push(window, bad, p)[1] = bad
           /\ Pushed(window, bad, Push(window, bad, p))
<1>1. PICK ring : ring = <<bad>> \o window
  OBVIOUS
<1>2. /\ ring \in Seq(BOOLEAN) /\ Len(ring) = Len(window) + 1 /\ ring[1] = bad /\ Len(window) \in Nat
      /\ \A i \in 2..Len(ring) : ring[i] = window[i - 1]
  BY <1>1
<1>3. PICK n \in Nat \ {0} : n = Least(Len(window) + 1, p.degWindow) /\ n <= Len(ring)
  BY <1>2 DEF Least
<1>4. Push(window, bad, p) = SubSeq(ring, 1, n)
  BY <1>1, <1>3 DEF Push
<1>5. /\ SubSeq(ring, 1, n) \in Seq(BOOLEAN) /\ Len(SubSeq(ring, 1, n)) = n
      /\ \A i \in 1..n : SubSeq(ring, 1, n)[i] = ring[i]
  BY <1>2, <1>3
<1>6. DOMAIN SubSeq(ring, 1, n) = 1..n
  BY <1>5
<1>7. ASSUME NEW i \in 1..n, i # 1
      PROVE  i - 1 \in DOMAIN window /\ SubSeq(ring, 1, n)[i] = window[i - 1]
  BY <1>2, <1>3, <1>5, <1>7
<1>8. PICK cut : cut = SubSeq(ring, 1, n)
  OBVIOUS
<1>9. Pushed(window, bad, cut)
  BY <1>2, <1>3, <1>5, <1>6, <1>7, <1>8 DEF Pushed
<1> QED BY <1>2, <1>3, <1>4, <1>5, <1>8, <1>9

(* The newest of a ring of one. *)
LEMMA PushFirst ==
    ASSUME NEW bad \in BOOLEAN, NEW p, p.degWindow \in Nat \ {0}
    PROVE  /\ Push(<<>>, bad, p) \in Seq(BOOLEAN) /\ Len(Push(<<>>, bad, p)) = 1 /\ Push(<<>>, bad, p)[1] = bad
           /\ ~bad => BadInWindow(Push(<<>>, bad, p), p) = 0
<1>0. <<>> \in Seq(BOOLEAN) /\ Len(<<>>) = 0
  OBVIOUS
<1>1. PICK none \in Seq(BOOLEAN) : none = <<>>
  BY <1>0
<1>2. PICK ring : ring = Push(none, bad, p)
  OBVIOUS
<1>3. ring \in Seq(BOOLEAN) /\ ring # <<>> /\ Len(ring) <= Len(none) + 1 /\ ring[1] = bad
  BY <1>2, PushFacts
<1>4. Len(ring) = 1
  <2>1. PICK k \in Nat \ {0} : k = Len(ring)
    BY <1>3
  <2>2. Len(none) = 0
    BY <1>0, <1>1
  <2>3. Len(ring) <= 1
    BY <1>3, <2>2
  <2> QED BY <2>1, <2>3
<1>5. ASSUME ~bad PROVE BadInWindow(ring, p) = 0
  <2>1. Least(Len(ring), p.degWindow) = 1
    BY <1>4 DEF Least
  <2>2. PICK n : n = Least(Len(ring), p.degWindow)
    OBVIOUS
  <2>3. {i \in 1..n : ring[i]} = {}
    BY <1>3, <1>5, <2>1, <2>2
  <2>4. BadInWindow(ring, p) = Cardinality({i \in 1..n : ring[i]})
    BY <2>2 DEF BadInWindow
  <2> QED BY <2>3, <2>4, FS_EmptySet
<1> QED BY <1>1, <1>2, <1>3, <1>4, <1>5

-----------------------------------------------------------------------------
(***************************************************************************)
(* The parts of a step.                                                    *)
(***************************************************************************)
Ordered(s, c) == EnterMaintenance(Order(s, c), c).state
Collected(s, c, p) == Collect(Ordered(s, c), c, p)
Decided(s, c, p) == Change(Collected(s, c, p), Confirmed(Collected(s, c, p), c, p), c, p)

LEMMA OrderFacts ==
    ASSUME NEW s, Good(s), NEW c
    PROVE  LET t == Order(s, c) IN
           /\ Good(t) /\ t.hard = s.hard /\ t.maint = s.maint
           /\ AfterGap(s, c) => t.fail = 0 /\ t.ok = 0 /\ t.clear = 0 /\ t.window = <<>>
           /\ ~AfterGap(s, c) => SameEvidence(s, t)
           /\ t.reachFlapping = s.reachFlapping /\ t.perfFlapping = s.perfFlapping
<1>1. PICK r, q : Order(s, c) =
        [s EXCEPT !.reach = r, !.perf = q, !.fail = IF AfterGap(s, c) THEN 0 ELSE @, !.ok = IF AfterGap(s, c) THEN 0 ELSE @,
                  !.clear = IF AfterGap(s, c) THEN 0 ELSE @, !.window = IF AfterGap(s, c) THEN <<>> ELSE @, !.last = c.ts,
                  !.hard = IF @ \in HardStatuses THEN @ ELSE "unknown"]
  BY Zenon DEF Order
<1>2. PICK t : t = Order(s, c)
  OBVIOUS
<1>3. /\ DOMAIN t = Fields /\ t.hard = s.hard /\ t.maint = s.maint
      /\ t.reachFlapping = s.reachFlapping /\ t.perfFlapping = s.perfFlapping
  BY <1>1, <1>2 DEF Good, Fields
<1>4. /\ t.fail = IF AfterGap(s, c) THEN 0 ELSE s.fail
      /\ t.ok = IF AfterGap(s, c) THEN 0 ELSE s.ok
      /\ t.clear = IF AfterGap(s, c) THEN 0 ELSE s.clear
      /\ t.window = IF AfterGap(s, c) THEN <<>> ELSE s.window
  BY <1>1, <1>2 DEF Good, Fields
<1>5. 0 \in 0..StreakCap /\ <<>> \in Seq(BOOLEAN)
  BY CapsAssumption
<1>6. Good(t)
  BY <1>3, <1>4, <1>5 DEF Good
<1> QED BY <1>2, <1>3, <1>4, <1>6 DEF SameEvidence

LEMMA OrderedFacts ==
    ASSUME NEW s, Good(s), NEW c, c.maintenance \in BOOLEAN, NEW t, t = Ordered(s, c)
    PROVE  /\ Good(t) /\ t.hard = s.hard /\ (t.maint <=> s.maint \/ c.maintenance)
           /\ AfterGap(s, c) => t.fail = 0 /\ t.ok = 0 /\ t.clear = 0 /\ t.window = <<>>
           /\ ~AfterGap(s, c) => SameEvidence(s, t)
<1>1. PICK o : o = Order(s, c)
  OBVIOUS
<1>2. /\ Good(o) /\ o.hard = s.hard /\ o.maint = s.maint
      /\ AfterGap(s, c) => o.fail = 0 /\ o.ok = 0 /\ o.clear = 0 /\ o.window = <<>>
      /\ ~AfterGap(s, c) => SameEvidence(s, o)
  BY <1>1, OrderFacts
<1>3. t = EnterMaintenance(o, c).state
  BY <1>1 DEF Ordered
<1>4. t = IF c.maintenance /\ ~o.maint THEN [Forget(o) EXCEPT !.maint = TRUE] ELSE o
  BY <1>3 DEF EnterMaintenance
<1>5. /\ DOMAIN t = Fields /\ t.maint = (o.maint \/ c.maintenance)
      /\ t.hard = o.hard /\ t.fail = o.fail /\ t.ok = o.ok /\ t.clear = o.clear /\ t.window = o.window
  BY <1>2, <1>4 DEF Forget, Good, Fields
<1>6. Good(t)
  BY <1>2, <1>5 DEF Good
<1>7. t.maint <=> s.maint \/ c.maintenance
  BY <1>2, <1>5, Zenon
<1> QED BY <1>2, <1>5, <1>6, <1>7 DEF SameEvidence

Breach(class) == class = "breach"

(* What collecting a check leaves of the state s. *)
CollectedFrom(s, class, p, t) ==
    /\ Good(t) /\ t.hard = s.hard /\ t.maint = s.maint
    /\ class = "fail" =>
         /\ t.fail = Increment(s.fail) /\ t.ok = 0 /\ t.clear = 0
         /\ t.window = IF s.hard = "down" THEN s.window ELSE Push(s.window, TRUE, p)
    /\ class # "fail" =>
         /\ t.fail = 0
         /\ t.ok = IF s.hard = "down" THEN Increment(s.ok) ELSE s.ok
         /\ s.hard = "degraded" => t.clear = IF class = "clear" THEN Increment(s.clear) ELSE 0
         /\ t.window = IF s.hard \in {"up", "degraded"} THEN Push(s.window, Breach(class), p) ELSE s.window

LEMMA CollectFacts ==
    ASSUME NEW s, Good(s), NEW c, NEW p, p.degWindow \in Nat \ {0},
           NEW t, t = Collect(s, c, p), NEW class, class = Classify(c, p)
    PROVE  CollectedFrom(s, class, p, t)
<1>1. class = Classify(c, p) /\ t = Collect(s, c, p)
  OBVIOUS
<1>3. /\ Increment(s.fail) \in 0..StreakCap /\ Increment(s.ok) \in 0..StreakCap /\ Increment(s.clear) \in 0..StreakCap
      /\ 0 \in 0..StreakCap
  <2>1. s.fail \in 0..StreakCap /\ s.ok \in 0..StreakCap /\ s.clear \in 0..StreakCap /\ StreakCap \in Nat
    BY CapsAssumption DEF Good
  <2>2. \A n \in 0..StreakCap : Increment(n) \in 0..StreakCap
    BY CapsAssumption DEF Increment, Least
  <2> QED BY <2>1, <2>2
<1>4. /\ Push(s.window, TRUE, p) \in Seq(BOOLEAN) /\ Push(s.window, Breach(class), p) \in Seq(BOOLEAN)
  BY PushFacts DEF Good, Breach
<1>5. CASE class = "fail"
  <2>1. t = [s EXCEPT !.fail = Increment(@), !.ok = 0, !.clear = 0,
                      !.window = IF s.hard = "down" THEN @ ELSE Push(@, TRUE, p)]
    BY <1>1, <1>5 DEF Collect, CollectFailure
  <2>2. /\ DOMAIN t = Fields /\ t.hard = s.hard /\ t.maint = s.maint
        /\ t.fail = Increment(s.fail) /\ t.ok = 0 /\ t.clear = 0
        /\ t.window = IF s.hard = "down" THEN s.window ELSE Push(s.window, TRUE, p)
    BY <2>1 DEF Good, Fields
  <2>3. Good(t)
    BY <1>3, <1>4, <2>2 DEF Good
  <2> QED BY <1>5, <2>2, <2>3 DEF CollectedFrom
<1>6. CASE class # "fail"
  <2>1. t = [s EXCEPT !.fail = 0,
                      !.ok = IF s.hard = "down" THEN Increment(@) ELSE @,
                      !.clear = IF s.hard # "degraded" THEN @ ELSE IF class = "clear" THEN Increment(@) ELSE 0,
                      !.window = IF s.hard \in {"up", "degraded"} THEN Push(@, Breach(class), p) ELSE @]
    BY <1>1, <1>6 DEF Collect, CollectAnswer, Breach
  <2>2. /\ DOMAIN t = Fields /\ t.hard = s.hard /\ t.maint = s.maint
        /\ t.fail = 0
        /\ t.ok = IF s.hard = "down" THEN Increment(s.ok) ELSE s.ok
        /\ t.clear = IF s.hard # "degraded" THEN s.clear ELSE IF class = "clear" THEN Increment(s.clear) ELSE 0
        /\ t.window = IF s.hard \in {"up", "degraded"} THEN Push(s.window, Breach(class), p) ELSE s.window
    BY <2>1 DEF Good, Fields
  <2>3. Good(t)
    BY <1>3, <1>4, <2>2 DEF Good
  <2> QED BY <1>6, <2>2, <2>3 DEF CollectedFrom
<1> QED BY <1>5, <1>6

(* What a check may confirm. *)
LEMMA ConfirmedFacts ==
    ASSUME NEW s, Good(s), NEW c, NEW p
    PROVE  LET v == Confirmed(s, c, p) IN v.next \in {"up", "degraded", "down", s.hard} /\ v.keep \in {"none", "fail", "ok", "clear"}
<1>1. Baseline(Classify(c, p), p) \in {"up", "degraded"}
  BY DEF Baseline
<1> QED BY <1>1 DEF Confirmed, Good, HardStatuses

(* What applying the verdict v on a check of the class leaves of s. *)
AppliedTo(s, v, class, p, t) ==
    /\ Good(t) /\ t.hard = v.next /\ t.maint = s.maint
    /\ v.next = s.hard => t = s
    /\ v.next # s.hard =>
         /\ t.fail = Kept(v, "fail", s.fail) /\ t.ok = Kept(v, "ok", s.ok) /\ t.clear = Kept(v, "clear", s.clear)
         /\ t.window = IF class # "fail" THEN Push(<<>>, Breach(class), p) ELSE <<>>

LEMMA ChangeFacts ==
    ASSUME NEW s, Good(s), NEW c, NEW p, p.degWindow \in Nat \ {0}, NEW v, v.next \in HardStatuses,
           NEW t, t = Change(s, v, c, p)
    PROVE  AppliedTo(s, v, Classify(c, p), p, t)
<1>1. t = Change(s, v, c, p)
  OBVIOUS
<1>2. CASE v.next = s.hard
  <2>1. t = s
    BY <1>1, <1>2 DEF Change
  <2> QED BY <1>2, <2>1 DEF AppliedTo
<1>3. CASE v.next # s.hard
  <2>1. PICK r, q : t = [s EXCEPT !.hard = v.next, !.fail = Kept(v, "fail", @), !.ok = Kept(v, "ok", @),
                                  !.clear = Kept(v, "clear", @),
                                  !.window = IF c.responding THEN Push(<<>>, Breach(Classify(c, p)), p) ELSE <<>>,
                                  !.reach = r, !.perf = q]
    <3>1. PICK class : class = ChangeClass(s.hard, v.next)
      OBVIOUS
    <3>2. t = [s EXCEPT !.hard = v.next, !.fail = Kept(v, "fail", @), !.ok = Kept(v, "ok", @),
                        !.clear = Kept(v, "clear", @),
                        !.window = IF c.responding THEN Push(<<>>, Breach(Classify(c, p)), p) ELSE <<>>,
                        !.reach = IF class = "reach" /\ ~s.maint THEN Append(@, c.ts) ELSE @,
                        !.perf = IF class = "perf" /\ ~s.maint THEN Append(@, c.ts) ELSE @]
      BY <1>1, <1>3, <3>1 DEF Change, Breach
    <3> QED BY <3>2, Zenon
  <2>2. /\ DOMAIN t = Fields /\ t.hard = v.next /\ t.maint = s.maint
        /\ t.fail = Kept(v, "fail", s.fail) /\ t.ok = Kept(v, "ok", s.ok) /\ t.clear = Kept(v, "clear", s.clear)
        /\ t.window = IF c.responding THEN Push(<<>>, Breach(Classify(c, p)), p) ELSE <<>>
    BY <2>1 DEF Good, Fields
  <2>3. Kept(v, "fail", s.fail) \in 0..StreakCap /\ Kept(v, "ok", s.ok) \in 0..StreakCap /\ Kept(v, "clear", s.clear) \in 0..StreakCap
    BY CapsAssumption DEF Kept, Good
  <2>4. Push(<<>>, Breach(Classify(c, p)), p) \in Seq(BOOLEAN) /\ <<>> \in Seq(BOOLEAN)
    <3>1. PICK class : class = Classify(c, p)
      OBVIOUS
    <3>2. PICK none \in Seq(BOOLEAN) : none = <<>>
      <4>1. <<>> \in Seq(BOOLEAN)
        OBVIOUS
      <4> QED BY <4>1
    <3>3. Push(none, Breach(class), p) \in Seq(BOOLEAN)
      BY PushFacts DEF Breach
    <3> QED BY <3>1, <3>2, <3>3
  <2>5. Good(t)
    BY <2>2, <2>3, <2>4 DEF Good
  <2>6. c.responding <=> Classify(c, p) # "fail"
    BY ClassFacts
  <2> QED BY <1>3, <2>2, <2>5, <2>6 DEF AppliedTo
<1> QED BY <1>2, <1>3

(* Flap detection has no part in the status, and tells no transition. *)
LEMMA DetectFacts ==
    ASSUME NEW s, Good(s), NEW ts, NEW p
    PROVE  LET t == DetectFlaps(s, ts, p).state IN
           /\ Good(t) /\ SameEvidence(s, t) /\ t.maint = s.maint
           /\ \E f : f.type # "transition" /\ DetectFlaps(s, ts, p).events \in {<<>>, <<f>>}
           /\ s.maint => DetectFlaps(s, ts, p).events = <<>>
<1>1. CASE s.maint
  <2>1. DetectFlaps(s, ts, p) = [state |-> s, events |-> <<>>]
    BY <1>1 DEF DetectFlaps
  <2>2. PICK f : f.type # "transition"
    <3>1. FlapStart("").type # "transition"
      BY DEF FlapStart
    <3> QED BY <3>1
  <2>3. DetectFlaps(s, ts, p).state = s /\ DetectFlaps(s, ts, p).events = <<>>
    BY <2>1
  <2> QED BY <2>2, <2>3 DEF SameEvidence
<1>2. CASE ~s.maint
  <2>1. PICK reach, perf : reach = EvaluateFlap(s.reach, s.reachFlapping, ts, p) /\ perf = EvaluateFlap(s.perf, s.perfFlapping, ts, p)
    OBVIOUS
  <2>2. PICK next : next = [s EXCEPT !.reach = reach.changes, !.reachFlapping = reach.flapping,
                                     !.perf = perf.changes, !.perfFlapping = perf.flapping]
    OBVIOUS
  <2>3. PICK out : out = DetectFlaps(s, ts, p)
    OBVIOUS
  <2>4. PICK starts, stops, e, d :
          /\ out = [state |-> [next EXCEPT !.flappingSince = IF starts THEN ts ELSE IF stops THEN NoTime ELSE @],
                    events |-> CASE starts -> <<FlapStart(e)>> [] stops -> <<FlapStop(d)>> [] OTHER -> <<>>]
          /\ ~(starts /\ stops)
    <3>1. ~((~IsFlapping(s) /\ IsFlapping(next)) /\ (IsFlapping(s) /\ ~IsFlapping(next)))
      OBVIOUS
    <3>2. out = [state |-> [next EXCEPT !.flappingSince =
                    IF ~IsFlapping(s) /\ IsFlapping(next) THEN ts ELSE IF IsFlapping(s) /\ ~IsFlapping(next) THEN NoTime ELSE @],
                 events |-> CASE ~IsFlapping(s) /\ IsFlapping(next) -> <<FlapStart(FlapKind(next))>>
                              [] IsFlapping(s) /\ ~IsFlapping(next) -> <<FlapStop(IF reach.stopped # "" THEN reach.stopped ELSE perf.stopped)>>
                              [] OTHER -> <<>>]
      BY <1>2, <2>1, <2>2, <2>3, Zenon DEF DetectFlaps
    <3> QED BY <3>1, <3>2, Zenon
  <2>5. PICK g : out.state = [s EXCEPT !.reach = reach.changes, !.reachFlapping = reach.flapping,
                                       !.perf = perf.changes, !.perfFlapping = perf.flapping, !.flappingSince = g]
    BY <2>2, <2>4 DEF Good, Fields
  <2>6. /\ FlapStart(e).type # "transition" /\ FlapStop(d).type # "transition"
        /\ out.events \in {<<FlapStart(e)>>, <<FlapStop(d)>>, <<>>}
    BY <2>4 DEF FlapStart, FlapStop
  <2>7. PICK f : f.type # "transition" /\ out.events \in {<<>>, <<f>>}
    BY <2>6
  <2>8. PICK t : t = DetectFlaps(s, ts, p).state
    OBVIOUS
  <2>9. /\ DOMAIN t = Fields /\ t.hard = s.hard /\ t.maint = s.maint
        /\ t.fail = s.fail /\ t.ok = s.ok /\ t.clear = s.clear /\ t.window = s.window
    BY <2>3, <2>5, <2>8 DEF Good, Fields
  <2>10. Good(t) /\ SameEvidence(s, t)
    BY <2>9 DEF Good, SameEvidence
  <2>11. \E e1 : e1.type # "transition" /\ DetectFlaps(s, ts, p).events \in {<<>>, <<e1>>}
    BY <2>3, <2>7
  <2> QED BY <1>2, <2>8, <2>9, <2>10, <2>11
<1> QED BY <1>1, <1>2

(* The hard status a check decides on, and the evidence it leaves. *)
LEMMA DecidedFacts ==
    ASSUME NEW s, Good(s), NEW c, c.maintenance \in BOOLEAN, NEW p, p.degWindow \in Nat \ {0},
           NEW t, t = Collected(s, c, p), NEW d, d = Decided(s, c, p)
    PROVE  /\ Good(t) /\ t.hard = s.hard
           /\ Good(d) /\ d.hard = Confirmed(t, c, p).next /\ (d.maint <=> s.maint \/ c.maintenance)
           /\ d.hard = t.hard => d = t
<1>1. PICK o : o = Ordered(s, c)
  OBVIOUS
<1>2. Good(o) /\ o.hard = s.hard /\ (o.maint <=> s.maint \/ c.maintenance)
  BY <1>1, OrderedFacts
<1>3. t = Collect(o, c, p)
  BY <1>1 DEF Collected
<1>4. Good(t) /\ t.hard = o.hard /\ t.maint = o.maint
  <2>1. PICK class : class = Classify(c, p)
    OBVIOUS
  <2>2. CollectedFrom(o, class, p, t)
    BY <1>2, <1>3, <2>1, CollectFacts
  <2> QED BY <2>2 DEF CollectedFrom
<1>5. PICK v : v = Confirmed(t, c, p)
  OBVIOUS
<1>6. v.next \in HardStatuses
  <2>1. v.next \in {"up", "degraded", "down", t.hard}
    BY <1>4, <1>5, ConfirmedFacts
  <2> QED BY <1>4, <2>1 DEF Good, HardStatuses
<1>7. d = Change(t, v, c, p)
  BY <1>5 DEF Decided
<1>8. Good(d) /\ d.hard = v.next /\ d.maint = t.maint /\ (v.next = t.hard => d = t)
  <2>1. AppliedTo(t, v, Classify(c, p), p, d)
    BY <1>4, <1>6, <1>7, ChangeFacts
  <2> QED BY <2>1 DEF AppliedTo
<1>9. d.maint <=> s.maint \/ c.maintenance
  BY <1>2, <1>4, <1>8, Zenon
<1> QED BY <1>2, <1>4, <1>5, <1>8, <1>9, Zenon

(* The events of a step by where they come from: maintenance begins, the   *)
(* hard change, maintenance ends, flapping.                                *)
PartsOf(s, c, d, out, enter, hard, exit, f, flap) ==
    /\ out.events = enter \o hard \o exit \o flap
    /\ enter = EnterMaintenance(Order(s, c), c).events
    /\ d.maint \/ d.hard = s.hard => hard = <<>>
    /\ ~d.maint /\ d.hard # s.hard => \E t : hard = <<t>> /\ t.type = "transition" /\ t.new = d.hard
    /\ exit = IF ExitsMaintenance(d, c) THEN <<Transition("maintenance", d.hard, TRUE)>> ELSE <<>>
    /\ f.type # "transition" /\ flap \in {<<>>, <<f>>}
    /\ d.maint /\ ~ExitsMaintenance(d, c) => flap = <<>>

StateOf(c, d, out) ==
    /\ Good(out.state) /\ SameEvidence(d, out.state)
    /\ out.state.maint <=> d.maint /\ ~ExitsMaintenance(d, c)

LEMMA StepParts ==
    ASSUME NEW s, Good(s), NEW c, c.maintenance \in BOOLEAN, NEW p, p.degWindow \in Nat \ {0}, Accepts(s, c),
           NEW d, d = Decided(s, c, p), NEW out, out = Step(s, c, p)
    PROVE  /\ StateOf(c, d, out)
           /\ \E enter, hard, exit, f, flap : PartsOf(s, c, d, out, enter, hard, exit, f, flap)
<1>1. d = Decided(s, c, p)
  OBVIOUS
<1>2. Good(d)
  BY <1>1, DecidedFacts
<1>4. PICK o : o = [d EXCEPT !.maint = d.maint /\ ~ExitsMaintenance(d, c)]
  OBVIOUS
<1>5. /\ DOMAIN o = Fields /\ o.hard = d.hard /\ o.fail = d.fail /\ o.ok = d.ok /\ o.clear = d.clear /\ o.window = d.window
      /\ o.maint = (d.maint /\ ~ExitsMaintenance(d, c))
  BY <1>2, <1>4 DEF Good, Fields
<1>6. Good(o) /\ SameEvidence(d, o)
  BY <1>2, <1>5 DEF Good, SameEvidence
<1>7. PICK flaps : flaps = DetectFlaps(o, c.ts, p)
  OBVIOUS
<1>8. /\ Good(flaps.state) /\ SameEvidence(o, flaps.state) /\ flaps.state.maint = o.maint
      /\ \E f : f.type # "transition" /\ flaps.events \in {<<>>, <<f>>}
      /\ o.maint => flaps.events = <<>>
  BY <1>6, <1>7, DetectFacts
<1>9. Ordered(s, c).hard = s.hard
  BY OrderedFacts
<1>10. PICK flag : flag = OwnFlag(ChangeClass(s.hard, d.hard), flaps.state)
  OBVIOUS
<1>11. PICK t : t = [Transition(s.hard, d.hard, TRUE) EXCEPT !.flapping = flag]
  OBVIOUS
<1>12. t.type = "transition" /\ t.new = d.hard
  BY <1>11 DEF Transition
<1>13. PICK hard : hard = IF d.hard # s.hard /\ ~d.maint THEN <<t>> ELSE <<>>
  OBVIOUS
<1>14. PICK exit : exit = IF ExitsMaintenance(d, c) THEN <<Transition("maintenance", d.hard, TRUE)>> ELSE <<>>
  OBVIOUS
<1>15. Step(s, c, p) = [state |-> flaps.state,
                        events |-> EnterMaintenance(Order(s, c), c).events \o hard \o exit \o flaps.events]
  <2>1. d = Change(Collect(EnterMaintenance(Order(s, c), c).state, c, p),
                   Confirmed(Collect(EnterMaintenance(Order(s, c), c).state, c, p), c, p), c, p)
    BY <1>1 DEF Decided, Collected, Ordered
  <2>2. EnterMaintenance(Order(s, c), c).state.hard = s.hard
    BY <1>9 DEF Ordered
  <2> QED BY <1>4, <1>7, <1>10, <1>11, <1>13, <1>14, <2>1, <2>2 DEF Step
<1>16. out.state = flaps.state
       /\ out.events = EnterMaintenance(Order(s, c), c).events \o hard \o exit \o flaps.events
  <2>1. PICK a, b : a = flaps.state /\ b = EnterMaintenance(Order(s, c), c).events \o hard \o exit \o flaps.events
    OBVIOUS
  <2>2. out = [state |-> a, events |-> b]
    BY <1>15, <2>1, Zenon
  <2>3. out.state = a /\ out.events = b
    BY <2>2
  <2> QED BY <2>1, <2>3, Zenon
<1>17. SameEvidence(d, flaps.state) /\ flaps.state.maint = (d.maint /\ ~ExitsMaintenance(d, c))
  BY <1>5, <1>6, <1>8 DEF SameEvidence
<1>18. PICK f : f.type # "transition" /\ flaps.events \in {<<>>, <<f>>}
  BY <1>8
<1>19. PICK enter : enter = EnterMaintenance(Order(s, c), c).events
  OBVIOUS
<1>20. PICK flap : flap = flaps.events
  OBVIOUS
<1>21. /\ d.maint \/ d.hard = s.hard => hard = <<>>
       /\ ~d.maint /\ d.hard # s.hard => \E u : hard = <<u>> /\ u.type = "transition" /\ u.new = d.hard
  BY <1>12, <1>13
<1>22. d.maint /\ ~ExitsMaintenance(d, c) => flap = <<>>
  BY <1>5, <1>8, <1>20
<1>23. PartsOf(s, c, d, out, enter, hard, exit, f, flap)
  <2>1. out.events = enter \o hard \o exit \o flap
    BY <1>16, <1>19, <1>20
  <2>2. f.type # "transition" /\ flap \in {<<>>, <<f>>}
    BY <1>18, <1>20
  <2> QED BY <1>14, <1>19, <1>21, <1>22, <2>1, <2>2, Zenon DEF PartsOf
<1>24. StateOf(c, d, out)
  BY <1>8, <1>16, <1>17 DEF StateOf
<1> QED BY <1>23, <1>24, Zenon

(* The last status told by the events of a step. *)
LEMMA LastOf ==
    ASSUME NEW t, t.type = "transition", NEW f, f.type # "transition"
    PROVE  /\ LastTold(<<>>) = told /\ LastTold(<<f>>) = told
           /\ LastTold(<<t>>) = t.new /\ LastTold(<<t, f>>) = t.new
<1>1. LastTold(<<>>) = told
  <2>1. {i \in 1..Len(<<>>) : <<>>[i].type = "transition"} = {}
    OBVIOUS
  <2> QED BY <2>1 DEF LastTold
<1>2. LastTold(<<f>>) = told
  <2>1. {i \in 1..Len(<<f>>) : <<f>>[i].type = "transition"} = {}
    OBVIOUS
  <2> QED BY <2>1 DEF LastTold
<1>3. ASSUME NEW evs, evs[1] = t, {i \in 1..Len(evs) : evs[i].type = "transition"} = {1}
      PROVE  LastTold(evs) = t.new
  <2>1. PICK k : k = CHOOSE i \in {1} : \A j \in {1} : j <= i
    OBVIOUS
  <2>2. k = 1
    BY <2>1
  <2>3. LastTold(evs) = evs[k].new
    BY <1>3, <2>1 DEF LastTold
  <2> QED BY <1>3, <2>2, <2>3
<1>4. {i \in 1..Len(<<t>>) : <<t>>[i].type = "transition"} = {1}
  OBVIOUS
<1>5. {i \in 1..Len(<<t, f>>) : <<t, f>>[i].type = "transition"} = {1}
  OBVIOUS
<1> QED BY <1>1, <1>2, <1>3, <1>4, <1>5

LEMMA Concatenations ==
    ASSUME NEW x, NEW y
    PROVE  /\ <<>> \o <<>> = <<>> /\ <<>> \o <<x>> = <<x>> /\ <<x>> \o <<>> = <<x>> /\ <<x, y>> \o <<>> = <<x, y>>
           /\ <<x>> \o <<y>> = <<x, y>>
<1>0. PICK S : S = {x, y}
  OBVIOUS
<1>1. <<x>> \in Seq(S) /\ <<y>> \in Seq(S) /\ <<x, y>> \in Seq(S)
  BY <1>0
<1>2. PICK a, b, u, v : a = <<x>> /\ b = <<y>> /\ u = a \o b /\ v = <<x, y>>
  OBVIOUS
<1>9. Len(a) = 1 /\ Len(b) = 1 /\ a[1] = x /\ b[1] = y /\ a \in Seq(S) /\ b \in Seq(S)
  BY <1>1, <1>2
<1>3. u \in Seq(S) /\ Len(u) = 2 /\ u[1] = x /\ u[2] = y
  <2>1. u \in Seq(S) /\ Len(u) = Len(a) + Len(b) 
       /\ \A i \in 1 .. Len(a) + Len(b) : u[i] = IF i <= Len(a) THEN a[i] ELSE b[i - Len(a)]
    BY <1>2, <1>9, ConcatProperties
  <2> QED BY <1>9, <2>1
<1>4. v \in Seq(S) /\ Len(v) = 2 /\ v[1] = x /\ v[2] = y
  BY <1>1, <1>2
<1>5. \A i \in 1..Len(u) : u[i] = v[i]
  <2>1. \A i \in 1..2 : i = 1 \/ i = 2
    OBVIOUS
  <2> QED BY <1>3, <1>4, <2>1
<1>6. u = v
  BY <1>3, <1>4, <1>5, SeqEqual
<1>7. <<>> \o <<>> = <<>> /\ <<>> \o <<x>> = <<x>>
  OBVIOUS
<1>8. <<x>> \o <<>> = <<x>> /\ <<x, y>> \o <<>> = <<x, y>>
  OBVIOUS
<1> QED BY <1>2, <1>6, <1>7, <1>8

(* The parts of a step put together. *)
LEMMA Joined ==
    ASSUME NEW t, NEW f, NEW flap \in {<<>>, <<f>>}
    PROVE  /\ <<>> \o <<>> \o <<>> \o flap \in {<<>>, <<f>>}
           /\ <<>> \o <<t>> \o <<>> \o flap \in {<<t>>, <<t, f>>}
           /\ <<>> \o <<>> \o <<t>> \o flap \in {<<t>>, <<t, f>>}
           /\ <<t>> \o <<>> \o <<>> \o <<>> = <<t>> /\ <<t, f>> \o <<>> \o <<>> \o <<>> = <<t, f>>
           /\ <<>> \o <<>> \o <<>> \o <<>> = <<>>
<1>1. /\ <<>> \o <<>> = <<>> /\ <<>> \o <<t>> = <<t>> /\ <<t>> \o <<>> = <<t>> /\ <<t, f>> \o <<>> = <<t, f>>
      /\ <<t>> \o <<f>> = <<t, f>> /\ <<>> \o <<f>> = <<f>>
  BY Concatenations
<1>2. CASE flap = <<>>
  BY <1>1, <1>2
<1>3. CASE flap = <<f>>
  BY <1>1, <1>3
<1> QED BY <1>2, <1>3

LEMMA EnterEvents ==
    ASSUME NEW s, NEW c
    PROVE  /\ s.maint \/ ~c.maintenance => EnterMaintenance(s, c).events = <<>>
           /\ ~s.maint /\ c.maintenance =>
                \E t, f : /\ t.type = "transition" /\ t.new = "maintenance" /\ f.type # "transition"
                          /\ EnterMaintenance(s, c).events \in {<<t>>, <<t, f>>}
<1>1. PICK out : out = EnterMaintenance(s, c)
  OBVIOUS
<1>2. ASSUME s.maint \/ ~c.maintenance PROVE out.events = <<>>
  BY <1>1, <1>2 DEF EnterMaintenance
<1>3. ASSUME ~s.maint /\ c.maintenance
      PROVE  \E t, f : /\ t.type = "transition" /\ t.new = "maintenance" /\ f.type # "transition"
                       /\ out.events \in {<<t>>, <<t, f>>}
  <2>1. PICK t, f : t = Transition(Displayed(s), "maintenance", FALSE) /\ f = FlapStop("maintenance")
    OBVIOUS
  <2>2. out.events = <<t>> \o (IF IsFlapping(s) THEN <<f>> ELSE <<>>)
    <3>1. PICK state1, told1 : /\ told1 = <<t>> \o (IF IsFlapping(s) THEN <<f>> ELSE <<>>)
                               /\ state1 = [Forget(s) EXCEPT !.maint = TRUE]
      OBVIOUS
    <3>2. out = [state |-> state1, events |-> told1]
      BY <1>1, <1>3, <2>1, <3>1, Zenon DEF EnterMaintenance
    <3>3. out.events = told1
      BY <3>2
    <3> QED BY <3>1, <3>3, Zenon
  <2>3. out.events \in {<<t>>, <<t, f>>}
    <3>1. out.events \in {<<t>> \o <<f>>, <<t>> \o <<>>}
      BY <2>2
    <3> QED BY <3>1, Concatenations
  <2>4. t.type = "transition" /\ t.new = "maintenance" /\ f.type # "transition"
    BY <2>1 DEF Transition, FlapStop
  <2> QED BY <2>3, <2>4
<1> QED BY <1>1, <1>2, <1>3

(* One accepted check keeps a follower of the transitions right. *)
LEMMA ToldByStep ==
    ASSUME NEW s, Good(s), told = Displayed(s), NEW c, c.maintenance \in BOOLEAN, NEW p, p.degWindow \in Nat \ {0},
           Accepts(s, c), NEW out, out = Step(s, c, p)
    PROVE  LastTold(out.events) = Displayed(out.state)
<1>1. PICK d : d = Decided(s, c, p)
  OBVIOUS
<1>2. PICK t0 : t0 = Collected(s, c, p)
  OBVIOUS
<1>3. Good(d) /\ (d.maint <=> s.maint \/ c.maintenance)
  BY <1>1, <1>2, DecidedFacts
<1>4. StateOf(c, d, out) /\ \E enter, hard, exit, f, flap : PartsOf(s, c, d, out, enter, hard, exit, f, flap)
  BY <1>1, StepParts
<1>5. PICK enter, hard, exit, f, flap : PartsOf(s, c, d, out, enter, hard, exit, f, flap)
  BY <1>4
<1>6. Order(s, c).maint = s.maint
  BY OrderFacts
<1>7. /\ s.maint \/ ~c.maintenance => enter = <<>>
      /\ ~s.maint /\ c.maintenance =>
           \E t, g : t.type = "transition" /\ t.new = "maintenance" /\ g.type # "transition" /\ enter \in {<<t>>, <<t, g>>}
  BY <1>5, <1>6, EnterEvents DEF PartsOf
<1>8. out.state.hard = d.hard
  BY <1>4 DEF StateOf, SameEvidence
<1>13. LastTold(<<>>) = told /\ LastTold(<<f>>) = told
  <2>1. Transition("up", "down", TRUE).type = "transition"
    BY DEF Transition
  <2>2. PICK t : t.type = "transition"
    BY <2>1, Zenon
  <2>3. f.type # "transition"
    BY <1>5 DEF PartsOf
  <2> QED BY <2>2, <2>3, LastOf
<1>9. CASE c.maintenance /\ ~s.maint
  <2>1. d.maint /\ ~ExitsMaintenance(d, c)
    BY <1>3, <1>9 DEF ExitsMaintenance
  <2>2. PICK t, g : t.type = "transition" /\ t.new = "maintenance" /\ g.type # "transition" /\ enter \in {<<t>>, <<t, g>>}
    BY <1>7, <1>9
  <2>3. hard = <<>> /\ exit = <<>> /\ flap = <<>>
    BY <1>5, <2>1 DEF PartsOf
  <2>4. out.events \in {<<t>>, <<t, g>>}
    <3>1. out.events = enter \o <<>> \o <<>> \o <<>>
      BY <1>5, <2>3, Zenon DEF PartsOf
    <3>2. /\ <<t>> \o <<>> \o <<>> \o <<>> = <<t>>
          /\ <<t, g>> \o <<>> \o <<>> \o <<>> = <<t, g>>
      <4>1. flap \in {<<>>, <<g>>}
        BY <2>3
      <4> QED BY <4>1, Joined, Zenon
    <3> QED BY <2>2, <3>1, <3>2
  <2>5. LastTold(out.events) = "maintenance"
    BY <2>2, <2>4, LastOf
  <2> QED BY <1>4, <2>1, <2>5 DEF Displayed, StateOf
<1>10. CASE s.maint /\ ~ExitsMaintenance(d, c)
  <2>1. d.maint
    BY <1>3, <1>10
  <2>2. enter = <<>> /\ hard = <<>> /\ exit = <<>> /\ flap = <<>>
    BY <1>5, <1>7, <1>10, <2>1 DEF PartsOf
  <2>3. out.events = <<>>
    BY <1>5, <2>2, Joined DEF PartsOf
  <2>4. told = "maintenance"
    BY <1>10 DEF Displayed
  <2>5. LastTold(out.events) = "maintenance"
    BY <1>13, <2>3, <2>4
  <2> QED BY <1>4, <1>10, <2>1, <2>5 DEF Displayed, StateOf
<1>11. CASE s.maint /\ ExitsMaintenance(d, c)
  <2>1. d.maint
    BY <1>3, <1>11
  <2>2. PICK t : t = Transition("maintenance", d.hard, TRUE)
    OBVIOUS
  <2>3. t.type = "transition" /\ t.new = d.hard
    BY <2>2 DEF Transition
  <2>4. enter = <<>> /\ hard = <<>> /\ exit = <<t>>
    BY <1>5, <1>7, <1>11, <2>1, <2>2 DEF PartsOf
  <2>5. out.events \in {<<t>>, <<t, f>>}
    <3>1. out.events = <<>> \o <<>> \o <<t>> \o flap
      BY <1>5, <2>4, Zenon DEF PartsOf
    <3>2. flap \in {<<>>, <<f>>}
      BY <1>5 DEF PartsOf
    <3> QED BY <3>1, <3>2, Joined, Zenon
  <2>6. LastTold(out.events) = d.hard
    BY <1>5, <2>3, <2>5, LastOf DEF PartsOf
  <2> QED BY <1>4, <1>8, <1>11, <2>6 DEF Displayed, StateOf
<1>12. CASE ~s.maint /\ ~c.maintenance
  <2>1. ~d.maint /\ ~ExitsMaintenance(d, c)
    BY <1>3, <1>12 DEF ExitsMaintenance
  <2>2. enter = <<>> /\ exit = <<>>
    BY <1>5, <1>7, <1>12, <2>1 DEF PartsOf
  <2>3. LastTold(out.events) = d.hard
    <3>1. CASE d.hard = s.hard
      <4>1. hard = <<>>
        BY <1>5, <3>1 DEF PartsOf
      <4>2. out.events \in {<<>>, <<f>>}
        BY <1>5, <2>2, <4>1, Joined DEF PartsOf
      <4>3. told = d.hard
        BY <1>12, <3>1 DEF Displayed
      <4> QED BY <1>13, <4>2, <4>3
    <3>2. CASE d.hard # s.hard
      <4>1. PICK t : hard = <<t>> /\ t.type = "transition" /\ t.new = d.hard
        BY <1>5, <2>1, <3>2 DEF PartsOf
      <4>2. out.events \in {<<t>>, <<t, f>>}
        BY <1>5, <2>2, <4>1, Joined DEF PartsOf
      <4> QED BY <1>5, <4>1, <4>2, LastOf DEF PartsOf
    <3> QED BY <3>1, <3>2
  <2> QED BY <1>4, <1>8, <2>1, <2>3 DEF Displayed, StateOf
<1> QED BY <1>9, <1>10, <1>11, <1>12

-----------------------------------------------------------------------------
(***************************************************************************)
(* Somebody who follows the transitions knows the displayed status.        *)
(***************************************************************************)
LEMMA CheckFacts ==
    ASSUME NEW c \in Checks
    PROVE  c.maintenance \in BOOLEAN /\ c.source = source
BY DEF Checks

LEMMA SeedFacts ==
    ASSUME NEW status \in Displayable, NEW s, s = Seed(status)
    PROVE  Good(s) /\ s.fail = 0 /\ s.ok = 0 /\ s.clear = 0 /\ s.window = <<>>
<1>1. /\ DOMAIN s = Fields
      /\ s.hard = IF status \in {"up", "degraded", "down"} THEN status ELSE "unknown"
      /\ s.maint = (status = "maintenance")
      /\ s.fail = 0 /\ s.ok = 0 /\ s.clear = 0 /\ s.window = <<>>
  BY DEF Seed, Fields
<1>2. s.hard \in HardStatuses /\ s.maint \in BOOLEAN
  <2>1. s.hard \in HardStatuses
    BY <1>1 DEF HardStatuses
  <2>2. s.maint \in BOOLEAN
    BY <1>1, Zenon
  <2> QED BY <2>1, <2>2
<1>3. 0 \in 0..StreakCap /\ <<>> \in Seq(BOOLEAN)
  BY CapsAssumption
<1> QED BY <1>1, <1>2, <1>3 DEF Good

LEMMA KnownInit == Init => Known
<1> SUFFICES ASSUME Init PROVE Known
  OBVIOUS
<1>1. PICK status \in Displayable : state = Seed(status)
  BY DEF Init
<1>2. Good(state)
  BY <1>1, SeedFacts
<1> QED BY <1>2 DEF Init, Known, ToldIsDisplayed

LEMMA KnownStep == Known /\ [Next]_vars => Known'
<1> SUFFICES ASSUME Known, [Next]_vars PROVE Known'
  OBVIOUS
<1> USE DEF Known, ToldIsDisplayed
<1>1. ASSUME NEW c \in Checks, Check(c) PROVE Known'
  <2>1. PICK out : out = Step(state, c, policy)
    OBVIOUS
  <2>2. state' = out.state /\ told' = LastTold(out.events) /\ UNCHANGED <<setting, source, policy>>
    BY <1>1, <2>1 DEF Check
  <2>3. Good(out.state) /\ LastTold(out.events) = Displayed(out.state)
    <3>1. CASE Accepts(state, c)
      <4>1. c.maintenance \in BOOLEAN /\ policy.degWindow \in Nat \ {0}
        BY CheckFacts, PolicyFacts
      <4>2. PICK d : d = Decided(state, c, policy)
        OBVIOUS
      <4>3. Good(out.state)
        BY <2>1, <3>1, <4>1, <4>2, StepParts DEF StateOf
      <4> QED BY <2>1, <3>1, <4>1, <4>3, ToldByStep
    <3>2. CASE ~Accepts(state, c)
      <4>1. out.state = state /\ out.events = <<>>
        BY <2>1, <3>2 DEF Step
      <4>2. LastTold(<<>>) = told
        <5>1. {i \in 1..Len(<<>>) : <<>>[i].type = "transition"} = {}
          OBVIOUS
        <5> QED BY <5>1 DEF LastTold
      <4> QED BY <4>1, <4>2
    <3> QED BY <3>1, <3>2
  <2> QED BY <2>2, <2>3
<1>2. ASSUME NEW p \in setting.policies, SavePolicy(p) PROVE Known'
  BY <1>2 DEF SavePolicy
<1>3. CASE UNCHANGED vars
  BY <1>3 DEF vars
<1> QED BY <1>1, <1>2, <1>3 DEF Next

(* Whatever the policies, the samples, the clock and the maintenance       *)
(* windows: the last transition told names the displayed status, through   *)
(* silent changes under maintenance included.                              *)
THEOREM FollowersKnow == Spec => []ToldIsDisplayed
<1>1. Known => ToldIsDisplayed
  BY DEF Known
<1> QED BY <1>1, KnownInit, KnownStep, PTL DEF Spec

-----------------------------------------------------------------------------
(***************************************************************************)
(* What a check confirms, case by case.                                    *)
(***************************************************************************)
Verdict(s, class, from, p, v) ==
    /\ class = "fail" =>
         IF s.hard # "down" /\ s.fail >= DownConfirm(p, from)
         THEN v.next = "down" /\ v.keep = "fail" ELSE v.next = s.hard
    /\ class # "fail" /\ s.hard = "down" =>
         IF s.ok >= p.upConfirm THEN v.next = Baseline(class, p) /\ v.keep = "ok" ELSE v.next = s.hard
    /\ class # "fail" /\ s.hard = "up" =>
         IF BadInWindow(s.window, p) >= p.degConfirm THEN v.next = "degraded" /\ v.keep = "none" ELSE v.next = s.hard
    /\ class # "fail" /\ s.hard = "degraded" =>
         IF \/ s.clear >= p.degClear
            \/ Len(s.window) >= p.degWindow /\ BadInWindow(s.window, p) = 0
         THEN v.next = "up" /\ v.keep \in {"clear", "none"} ELSE v.next = s.hard
    /\ class # "fail" /\ s.hard = "unknown" => v.next = Baseline(class, p) /\ v.keep = "none"

LEMMA VerdictFacts ==
    ASSUME NEW s, Good(s), NEW c, NEW p, NEW v, v = Confirmed(s, c, p)
    PROVE  Verdict(s, Classify(c, p), c.source, p, v)
<1>1. PICK class, bad, from : class = Classify(c, p) /\ bad = BadInWindow(s.window, p) /\ from = c.source
  OBVIOUS
<1>2. v = IF class = "fail"
          THEN IF s.hard # "down" /\ s.fail >= DownConfirm(p, from)
               THEN [next |-> "down", keep |-> "fail"] ELSE [next |-> s.hard, keep |-> "none"]
          ELSE CASE s.hard = "down" ->
                      IF s.ok >= p.upConfirm THEN [next |-> Baseline(class, p), keep |-> "ok"]
                      ELSE [next |-> s.hard, keep |-> "none"]
                 [] s.hard = "up" ->
                      IF bad >= p.degConfirm THEN [next |-> "degraded", keep |-> "none"]
                      ELSE [next |-> s.hard, keep |-> "none"]
                 [] s.hard = "degraded" ->
                      IF s.clear >= p.degClear THEN [next |-> "up", keep |-> "clear"]
                      ELSE IF Len(s.window) >= p.degWindow /\ bad = 0 THEN [next |-> "up", keep |-> "none"]
                      ELSE [next |-> s.hard, keep |-> "none"]
                 [] OTHER -> [next |-> Baseline(class, p), keep |-> "none"]
  BY <1>1, Zenon DEF Confirmed
<1>3. class = "fail" =>
         IF s.hard # "down" /\ s.fail >= DownConfirm(p, from)
         THEN v.next = "down" /\ v.keep = "fail" ELSE v.next = s.hard
  BY <1>2
<1>4. class # "fail" /\ s.hard = "down" =>
         IF s.ok >= p.upConfirm THEN v.next = Baseline(class, p) /\ v.keep = "ok" ELSE v.next = s.hard
  BY <1>2
<1>5. class # "fail" /\ s.hard = "up" =>
         IF bad >= p.degConfirm THEN v.next = "degraded" /\ v.keep = "none" ELSE v.next = s.hard
  BY <1>2
<1>6. class # "fail" /\ s.hard = "degraded" =>
         IF \/ s.clear >= p.degClear
            \/ Len(s.window) >= p.degWindow /\ bad = 0
         THEN v.next = "up" /\ v.keep \in {"clear", "none"} ELSE v.next = s.hard
  BY <1>2
<1>7. class # "fail" /\ s.hard = "unknown" => v.next = Baseline(class, p) /\ v.keep = "none"
  BY <1>2
<1> QED BY <1>1, <1>3, <1>4, <1>5, <1>6, <1>7, Zenon DEF Verdict

LEMMA BadFacts ==
    ASSUME NEW window \in Seq(BOOLEAN), NEW p, p.degWindow \in Nat \ {0}
    PROVE  /\ BadInWindow(window, p) \in Nat
           /\ window # <<>> /\ window[1] => BadInWindow(window, p) # 0
           /\ BadInWindow(window, p) = 0 => \A i \in DOMAIN window : i <= p.degWindow => ~window[i]
<1>1. PICK n \in Nat : n = Least(Len(window), p.degWindow)
  BY DEF Least
<1>2. PICK B : B = {i \in 1..n : window[i]}
  OBVIOUS
<1>3. IsFiniteSet(1..n) /\ B \subseteq 1..n
  BY <1>1, <1>2, FS_Interval
<1>4. IsFiniteSet(B)
  BY <1>3, FS_Subset
<1>5. Cardinality(B) \in Nat /\ (Cardinality(B) = 0 <=> B = {})
  BY <1>4, FS_CardinalityType, FS_EmptySet
<1>6. BadInWindow(window, p) = Cardinality(B)
  BY <1>1, <1>2 DEF BadInWindow
<1>7. ASSUME window # <<>>, window[1] PROVE B # {}
  <2>1. Len(window) \in Nat \ {0}
    BY <1>7
  <2>2. 1 \in 1..n
    BY <1>1, <2>1 DEF Least
  <2> QED BY <1>2, <1>7, <2>2
<1>8. ASSUME B = {}, NEW i \in DOMAIN window, i <= p.degWindow PROVE ~window[i]
  <2>1. i \in 1..n
    BY <1>1, <1>8 DEF Least
  <2> QED BY <1>2, <1>8, <2>1
<1> QED BY <1>5, <1>6, <1>7, <1>8

-----------------------------------------------------------------------------
(***************************************************************************)
(* Nothing confirmed is left pending.                                      *)
(***************************************************************************)
Short(s, p, from) == Pending(s, p, from).count < Pending(s, p, from).required

LEMMA ShortFacts ==
    ASSUME NEW s, s.fail \in Nat, NEW p, NEW from,
           s.hard = "down" => s.ok < p.upConfirm,
           s.hard # "down" /\ s.fail > 0 => s.fail < DownConfirm(p, from),
           s.hard = "up" /\ s.fail = 0 => BadInWindow(s.window, p) < p.degConfirm,
           s.hard = "degraded" /\ s.fail = 0 => s.clear < p.degClear
    PROVE  Short(s, p, from)
<1>1. PICK bad : bad = BadInWindow(s.window, p)
  OBVIOUS
<1>2. PICK g : g = Pending(s, p, from)
  OBVIOUS
<1>3. g = CASE s.hard = "down" -> [target |-> "up", count |-> s.ok, required |-> p.upConfirm]
         [] s.hard # "down" /\ s.fail > 0 ->
              [target |-> "down", count |-> s.fail, required |-> DownConfirm(p, from)]
         [] s.hard = "up" /\ s.fail = 0 -> [target |-> "degraded", count |-> bad, required |-> p.degConfirm]
         [] s.hard = "degraded" /\ s.fail = 0 ->
              [target |-> "up", count |-> s.clear, required |-> p.degClear]
         [] OTHER -> [target |-> "", count |-> 0, required |-> 1]
  BY <1>1, <1>2, Zenon DEF Pending
<1>4. g.count < g.required
  <2>0. s.fail > 0 <=> ~(s.fail = 0)
    OBVIOUS
  <2>1. CASE s.hard = "down"
    <3>1. g = [target |-> "up", count |-> s.ok, required |-> p.upConfirm]
      BY <1>3, <2>1
    <3> QED BY <2>1, <3>1
  <2>2. CASE s.hard # "down" /\ s.fail > 0
    <3>1. g = [target |-> "down", count |-> s.fail, required |-> DownConfirm(p, from)]
      <4>1. s.hard # "down" /\ ~(s.fail = 0)
        BY <2>0, <2>2
      <4> QED BY <1>3, <2>2, <4>1, Zenon
    <3> QED BY <2>2, <3>1
  <2>3. CASE s.hard = "up" /\ s.fail = 0
    <3>1. g = [target |-> "degraded", count |-> bad, required |-> p.degConfirm]
      BY <1>3, <2>3
    <3> QED BY <1>1, <2>3, <3>1
  <2>4. CASE s.hard = "degraded" /\ s.fail = 0
    <3>1. g = [target |-> "up", count |-> s.clear, required |-> p.degClear]
      BY <1>3, <2>4
    <3> QED BY <2>4, <3>1
  <2>5. CASE /\ s.hard # "down" /\ ~(s.fail > 0)
             /\ ~(s.hard = "up" /\ s.fail = 0) /\ ~(s.hard = "degraded" /\ s.fail = 0)
    <3>1. g = [target |-> "", count |-> 0, required |-> 1]
      <4>1. s.hard # "down" /\ ~(s.fail > 0) /\ s.hard # "up" /\ s.hard # "degraded"
        BY <2>0, <2>5
      <4> QED BY <1>3, <4>1, Zenon
    <3>2. PICK none, one : none = 0 /\ one = 1 /\ none < one
      OBVIOUS
    <3>3. g.count = none /\ g.required = one
      BY <3>1, <3>2, Zenon
    <3> QED BY <3>2, <3>3, Zenon
  <2> QED BY <2>1, <2>2, <2>3, <2>4, <2>5
<1> QED BY <1>2, <1>4 DEF Short

LEMMA DecidedParts ==
    ASSUME NEW s, Good(s), NEW c, c.maintenance \in BOOLEAN, NEW p, p.degWindow \in Nat \ {0},
           NEW class, class = Classify(c, p), NEW d, d = Decided(s, c, p)
    PROVE  \E t, v : /\ CollectedFrom(Ordered(s, c), class, p, t)
                     /\ Verdict(t, class, c.source, p, v)
                     /\ AppliedTo(t, v, class, p, d)
<1>1. PICK o, t : o = Ordered(s, c) /\ t = Collect(o, c, p)
  OBVIOUS
<1>2. PICK v : v = Confirmed(t, c, p)
  OBVIOUS
<1>3. d = Change(t, v, c, p)
  BY <1>1, <1>2 DEF Decided, Collected
<1>4. Good(o)
  BY <1>1, OrderedFacts
<1>5. CollectedFrom(o, class, p, t)
  BY <1>1, <1>4, CollectFacts
<1>6. Good(t)
  BY <1>5 DEF CollectedFrom
<1>7. Verdict(t, class, c.source, p, v)
  BY <1>2, <1>6, VerdictFacts
<1>8. v.next \in HardStatuses
  <2>1. v.next \in {"up", "degraded", "down", t.hard}
    BY <1>2, <1>6, ConfirmedFacts
  <2> QED BY <1>6, <2>1 DEF Good, HardStatuses
<1>9. AppliedTo(t, v, class, p, d)
  BY <1>3, <1>6, <1>8, ChangeFacts
<1> QED BY <1>1, <1>5, <1>7, <1>9

(* A good check starts the ring of a device that is up again with nothing  *)
(* that counts against it.                                                 *)
LEMMA FreshRing ==
    ASSUME NEW class, NEW p, p.degWindow \in Nat \ {0}, p.degConfirm \in Nat \ {0},
           Breach(class) => BadInWindow(Push(<<>>, TRUE, p), p) < p.degConfirm
    PROVE  BadInWindow(Push(<<>>, Breach(class), p), p) < p.degConfirm
<1>1. Breach(class) \in BOOLEAN
  BY DEF Breach
<1>2. CASE Breach(class)
  <2>1. Breach(class) = TRUE
    BY <1>1, <1>2
  <2> QED BY <1>2, <2>1
<1>3. CASE ~Breach(class)
  <2>1. BadInWindow(Push(<<>>, Breach(class), p), p) = 0
    BY <1>1, <1>3, PushFirst
  <2> QED BY <2>1
<1> QED BY <1>2, <1>3

LEMMA DecidedShort ==
    ASSUME NEW s, Good(s), NEW c, c.maintenance \in BOOLEAN, NEW p, p.degWindow \in Nat \ {0},
           p.degConfirm \in Nat \ {0}, p.degClear \in Nat \ {0}, p.upConfirm \in Nat \ {0},
           DownConfirm(p, c.source) \in Nat \ {0}, NEW d, d = Decided(s, c, p)
    PROVE  Short(d, p, c.source)
<1>1. PICK class : class = Classify(c, p)
  OBVIOUS
<1>2. PICK t, v : /\ CollectedFrom(Ordered(s, c), class, p, t)
                  /\ Verdict(t, class, c.source, p, v)
                  /\ AppliedTo(t, v, class, p, d)
  BY <1>1, DecidedParts
<1>3. Good(t) /\ Good(d) /\ d.hard = v.next
  BY <1>2 DEF CollectedFrom, AppliedTo
<1>4. /\ t.fail \in Nat /\ t.ok \in Nat /\ t.clear \in Nat
      /\ d.fail \in Nat /\ d.ok \in Nat /\ d.clear \in Nat /\ t.hard \in HardStatuses
  BY <1>3, CapsAssumption DEF Good
<1>5. class # "fail" => t.fail = 0
  BY <1>2 DEF CollectedFrom
<1>6. class = "fail" => t.ok = 0 /\ t.clear = 0 /\ t.fail > 0
  <2>1. PICK n \in 0..StreakCap : class = "fail" => t.fail = Increment(n) /\ t.ok = 0 /\ t.clear = 0
    <3>1. PICK o : o = Ordered(s, c) /\ Good(o)
      BY OrderedFacts
    <3> QED BY <1>2, <3>1 DEF CollectedFrom, Good
  <2> QED BY <2>1, IncrementFacts, CapsAssumption
<1>7. BadInWindow(t.window, p) \in Nat
  BY <1>3, BadFacts DEF Good
<1>8. CASE v.next = t.hard
  <2>1. d = t
    BY <1>2, <1>8 DEF AppliedTo
  <2>2. t.hard = "down" => t.ok < p.upConfirm
    <3>1. ASSUME t.hard = "down", class # "fail" PROVE ~(t.ok >= p.upConfirm)
      BY <1>2, <1>8, <3>1 DEF Verdict, Baseline
    <3> QED BY <1>4, <1>6, <3>1
  <2>3. t.hard # "down" /\ t.fail > 0 => t.fail < DownConfirm(p, c.source)
    <3>1. ASSUME t.hard # "down", class = "fail" PROVE ~(t.fail >= DownConfirm(p, c.source))
      BY <1>2, <1>8, <3>1 DEF Verdict
    <3> QED BY <1>4, <1>5, <3>1
  <2>4. t.hard = "up" /\ t.fail = 0 => BadInWindow(t.window, p) < p.degConfirm
    <3>1. ASSUME t.hard = "up", class # "fail" PROVE ~(BadInWindow(t.window, p) >= p.degConfirm)
      BY <1>2, <1>8, <3>1 DEF Verdict
    <3> QED BY <1>4, <1>6, <1>7, <3>1
  <2>5. t.hard = "degraded" /\ t.fail = 0 => t.clear < p.degClear
    <3>1. ASSUME t.hard = "degraded", class # "fail" PROVE ~(t.clear >= p.degClear)
      BY <1>2, <1>8, <3>1 DEF Verdict
    <3> QED BY <1>4, <1>6, <3>1
  <2> QED BY <1>4, <2>1, <2>2, <2>3, <2>4, <2>5, ShortFacts
<1>9. CASE v.next # t.hard
  <2>1. /\ d.fail = Kept(v, "fail", t.fail) /\ d.ok = Kept(v, "ok", t.ok) /\ d.clear = Kept(v, "clear", t.clear)
        /\ d.window = IF class # "fail" THEN Push(<<>>, Breach(class), p) ELSE <<>>
    BY <1>2, <1>9 DEF AppliedTo
  <2>2. CASE class = "fail"
    <3>1. v.next = "down" /\ v.keep = "fail"
      BY <1>2, <1>9, <2>2 DEF Verdict
    <3>2. d.hard = "down" /\ d.ok = 0
      BY <1>3, <2>1, <3>1 DEF Kept
    <3> QED BY <1>4, <3>2, ShortFacts
  <2>3. CASE class # "fail"
    <3>1. d.fail = 0 /\ v.next # "down"
      BY <1>2, <1>4, <1>5, <1>9, <2>1, <2>3 DEF Kept, Verdict, HardStatuses, Baseline
    <3>2. d.hard = "degraded" => d.clear = 0
      <4>1. ASSUME v.next = "degraded" PROVE v.keep # "clear"
        BY <1>2, <1>4, <1>9, <2>3, <4>1 DEF Verdict, HardStatuses
      <4> QED BY <1>3, <2>1, <4>1 DEF Kept
    <3>3. d.hard = "up" => BadInWindow(d.window, p) < p.degConfirm
      <4>1. ASSUME v.next = "up", Breach(class) PROVE BadInWindow(Push(<<>>, TRUE, p), p) < p.degConfirm
        <5>1. t.hard # "degraded"
          <6>1. SUFFICES ASSUME t.hard = "degraded" PROVE FALSE
            OBVIOUS
          <6>2. PICK o : o = Ordered(s, c) /\ Good(o)
            BY OrderedFacts
          <6>3. o.hard = "degraded" /\ t.clear = 0 /\ t.window = Push(o.window, Breach(class), p)
            BY <1>2, <2>3, <4>1, <6>1, <6>2 DEF CollectedFrom, Breach
          <6>4. t.window # <<>> /\ t.window[1]
            <7>1. PICK ring \in Seq(BOOLEAN) : ring = o.window
              BY <6>2 DEF Good
            <7>2. PICK bad \in BOOLEAN : bad = Breach(class)
              BY DEF Breach
            <7>3. t.window = Push(ring, bad, p)
              BY <6>3, <7>1, <7>2, Zenon
            <7>4. Push(ring, bad, p) # <<>> /\ Push(ring, bad, p)[1] = bad
              BY PushFacts
            <7>5. bad
              BY <4>1, <7>2
            <7> QED BY <7>3, <7>4, <7>5, Zenon
          <6>5. BadInWindow(t.window, p) # 0
            BY <1>3, <6>4, BadFacts DEF Good
          <6> QED BY <1>2, <1>9, <2>3, <6>1, <6>3, <6>5 DEF Verdict
        <5>2. Baseline(class, p) = "up"
          BY <1>2, <1>4, <1>9, <2>3, <4>1, <5>1 DEF Verdict, HardStatuses
        <5>3. BadInWindow(Push(<<>>, TRUE, p), p) \in Nat
          BY PushFirst, BadFacts
        <5>4. ~(BadInWindow(Push(<<>>, TRUE, p), p) >= p.degConfirm)
          BY <4>1, <5>2, Zenon DEF Baseline, Breach
        <5>5. PICK n \in Nat : n = BadInWindow(Push(<<>>, TRUE, p), p)
          BY <5>3
        <5>6. ~(n >= p.degConfirm)
          BY <5>4, <5>5, Zenon
        <5>7. n < p.degConfirm
          BY <5>6
        <5> QED BY <5>5, <5>7, Zenon
      <4> QED BY <1>3, <2>1, <2>3, <4>1, FreshRing
    <3> QED BY <1>3, <1>4, <3>1, <3>2, <3>3, ShortFacts
  <2> QED BY <2>2, <2>3
<1> QED BY <1>8, <1>9

LEMMA SameShort ==
    ASSUME NEW s, NEW t, SameEvidence(s, t), NEW p, NEW from, Short(s, p, from)
    PROVE  Short(t, p, from)
<1>1. Pending(t, p, from) = Pending(s, p, from)
  BY Zenon DEF Pending, SameEvidence
<1> QED BY <1>1 DEF Short

(* Whatever the policies and the checks: right after a check that counts,  *)
(* the progress the explanation shows is short of what the policy asks     *)
(* for, so no confirmed change waits to be applied.                        *)
THEOREM NothingIsLeftPending == Spec => PendingIsShort
<1>1. ASSUME Known, [Next]_vars
      PROVE  [state'.last # NoTime /\ hist' # hist =>
                LET pending == Pending(state', policy', source) IN pending.count < pending.required]_vars
  <2>1. SUFFICES ASSUME hist' # hist PROVE Short(state', policy', source)
    BY DEF Short
  <2>2. PICK c \in Checks : Check(c)
    <3>1. ~(UNCHANGED vars) /\ \A p \in setting.policies : ~SavePolicy(p)
      BY <2>1 DEF vars, SavePolicy
    <3> QED BY <1>1, <3>1 DEF Next
  <2>3. PICK out, d : out = Step(state, c, policy) /\ d = Decided(state, c, policy)
    OBVIOUS
  <2>4. Accepts(state, c) /\ state' = out.state /\ policy' = policy
    BY <2>1, <2>2, <2>3 DEF Check
  <2>5. c.maintenance \in BOOLEAN /\ c.source = source
    BY CheckFacts
  <2>6. /\ policy.degWindow \in Nat \ {0} /\ policy.degConfirm \in Nat \ {0} /\ policy.degClear \in Nat \ {0}
        /\ policy.upConfirm \in Nat \ {0} /\ DownConfirm(policy, source) \in Nat \ {0} /\ Good(state)
    BY <1>1, PolicyFacts DEF Known
  <2>7. Short(d, policy, source)
    BY <2>3, <2>5, <2>6, DecidedShort
  <2>8. SameEvidence(d, out.state)
    BY <2>3, <2>4, <2>5, <2>6, StepParts DEF StateOf
  <2> QED BY <2>4, <2>7, <2>8, SameShort
<1> QED BY <1>1, KnownInit, KnownStep, PTL DEF Spec, PendingIsShort

-----------------------------------------------------------------------------
(***************************************************************************)
(* Confirmed changes rest on checks an observer remembers.                 *)
(***************************************************************************)
(* The history h with a check of the class in front, for an observer who   *)
(* remembers n checks.                                                     *)
Longer(h, g, class, n) ==
    /\ g \in Seq(Classes) /\ 1 \in DOMAIN g /\ g[1] = class
    /\ \A i \in DOMAIN h : i + 1 <= n => i + 1 \in DOMAIN g /\ g[i + 1] = h[i]

LEMMA ObservedFacts ==
    ASSUME NEW h \in Seq(Classes), NEW class \in Classes, NEW n \in Nat \ {0},
           NEW g, g = SubSeq(<<class>> \o h, 1, Least(n, 1 + Len(h)))
    PROVE  Longer(h, g, class, n)
<1>1. PICK long : long = <<class>> \o h
  OBVIOUS
<1>2. /\ long \in Seq(Classes) /\ Len(long) = Len(h) + 1 /\ long[1] = class /\ Len(h) \in Nat
      /\ \A i \in 1..Len(h) : long[i + 1] = h[i]
  BY <1>1
<1>3. PICK m \in Nat \ {0} : m = Least(n, 1 + Len(h)) /\ m <= Len(long)
  BY <1>2 DEF Least
<1>4. g = SubSeq(long, 1, m)
  BY <1>1, <1>3
<1>5. g \in Seq(Classes) /\ Len(g) = m /\ \A i \in 1..m : g[i] = long[i]
  BY <1>2, <1>3, <1>4
<1>6. DOMAIN g = 1..m
  BY <1>5
<1>7. ASSUME NEW i \in DOMAIN h, i + 1 <= n
      PROVE  i + 1 \in DOMAIN g /\ g[i + 1] = h[i]
  <2>1. i \in 1..Len(h)
    OBVIOUS
  <2>2. i + 1 \in 1..m
    BY <1>2, <1>3, <1>7, <2>1 DEF Least
  <2> QED BY <1>2, <1>5, <1>6, <2>1, <2>2
<1>8. 1 \in DOMAIN g /\ g[1] = class
  BY <1>2, <1>3, <1>5, <1>6
<1> QED BY <1>5, <1>7, <1>8 DEF Longer

(* A streak grows by at most the one check.                                *)
LEMMA StreakGrows ==
    ASSUME NEW h \in Seq(Classes), NEW g, NEW class, NEW n \in Nat \ {0}, Longer(h, g, class, n),
           NEW good, class \in good, NEW k \in Nat, Streak(k, good, h, n), NEW m \in Nat, m <= k + 1
    PROVE  Streak(m, good, g, n)
<1> SUFFICES ASSUME NEW i \in 1..m, i <= n PROVE i \in DOMAIN g /\ g[i] \in good
  BY DEF Streak
<1>1. CASE i = 1
  BY <1>1 DEF Longer
<1>2. CASE i # 1
  <2>1. PICK j \in 1..k : i = j + 1 /\ j <= n
    <3>1. i - 1 \in 1..k /\ i = (i - 1) + 1 /\ i - 1 <= n
      BY <1>2
    <3> QED BY <3>1
  <2>2. j \in DOMAIN h /\ h[j] \in good
    BY <2>1 DEF Streak
  <2> QED BY <2>1, <2>2 DEF Longer
<1> QED BY <1>1, <1>2

(* So does the ring.                                                       *)
LEMMA RingGrows ==
    ASSUME NEW h \in Seq(Classes), NEW g, NEW class, NEW n \in Nat \ {0}, Longer(h, g, class, n),
           NEW window \in Seq(BOOLEAN), Ring(window, h, n), NEW bad \in BOOLEAN, bad <=> class \in {"fail", "breach"},
           NEW p, p.degWindow \in Nat \ {0}
    PROVE  Ring(Push(window, bad, p), g, n)
<1>1. PICK ring : ring = Push(window, bad, p)
  OBVIOUS
<1>2. /\ ring \in Seq(BOOLEAN) /\ ring[1] = bad
      /\ \A i \in DOMAIN ring : i # 1 => i - 1 \in DOMAIN window /\ ring[i] = window[i - 1]
  <2>1. Pushed(window, bad, Push(window, bad, p))
    BY PushFacts
  <2> QED BY <1>1, <2>1 DEF Pushed
<1>3. SUFFICES ASSUME NEW i \in DOMAIN ring, i <= n
               PROVE  i \in DOMAIN g /\ (ring[i] <=> g[i] \in {"fail", "breach"})
  BY <1>1 DEF Ring
<1>4. CASE i = 1
  BY <1>2, <1>4 DEF Longer
<1>5. CASE i # 1
  <2>1. i \in Nat \ {0}
    BY <1>2
  <2>2. PICK j \in DOMAIN window : i = j + 1 /\ j <= n /\ ring[i] = window[j]
    <3>1. i - 1 \in DOMAIN window /\ i = (i - 1) + 1 /\ i - 1 <= n /\ ring[i] = window[i - 1]
      BY <1>2, <1>3, <1>5, <2>1
    <3> QED BY <3>1
  <2>3. j \in DOMAIN h /\ (window[j] <=> h[j] \in {"fail", "breach"})
    BY <2>2 DEF Ring
  <2> QED BY <1>3, <2>2, <2>3 DEF Longer
<1> QED BY <1>4, <1>5

(* A ring of one check.                                                    *)
LEMMA RingStarts ==
    ASSUME NEW g, NEW class, 1 \in DOMAIN g, g[1] = class, NEW n,
           NEW bad \in BOOLEAN, bad <=> class \in {"fail", "breach"}, NEW p, p.degWindow \in Nat \ {0}
    PROVE  Ring(Push(<<>>, bad, p), g, n)
<1>1. PICK ring : ring = Push(<<>>, bad, p)
  OBVIOUS
<1>2. ring \in Seq(BOOLEAN) /\ Len(ring) = 1 /\ ring[1] = bad
  BY <1>1, PushFirst
<1>3. DOMAIN ring = {1}
  BY <1>2
<1>4. Ring(ring, g, n)
  BY <1>2, <1>3 DEF Ring
<1> QED BY <1>1, <1>4

(* Long enough a streak is what Leading counts.                            *)
LEMMA LeadingCounts ==
    ASSUME NEW h \in Seq(Classes), NEW good, NEW m \in Nat, m <= Len(h), \A i \in 1..m : h[i] \in good
    PROVE  Leading(h, good) >= m
<1>1. PICK len \in Nat : len = Len(h)
  OBVIOUS
<1>2. \E k \in 0..len : (\A i \in 1..k : h[i] \in good) /\ (k < len => h[k + 1] \notin good)
  <2>1. CASE \A i \in 1..len : h[i] \in good
    <3>1. len \in 0..len /\ ~(len < len)
      BY <1>1
    <3> QED BY <2>1, <3>1
  <2>2. CASE \E i \in 1..len : h[i] \notin good
    <3>1. PICK B : B = {i \in 1..len : h[i] \notin good}
      OBVIOUS
    <3>2. B \subseteq Nat /\ B # {}
      BY <2>2, <3>1
    <3>3. PICK b \in B : \A x \in B : b <= x
      <4>1. PICK b \in B : \A x \in B : <<x, b>> \notin OpToRel(<, Nat)
        BY <3>2, NatLessThanWellFounded, WFMin
      <4>2. OpToRel(<, Nat) = {q \in Nat \X Nat : q[1] < q[2]}
        BY DEF OpToRel
      <4>3. ASSUME NEW x \in B PROVE b <= x
        <5>1. x \in Nat /\ b \in Nat /\ <<x, b>> \in Nat \X Nat
          BY <3>2
        <5>2. ~(x < b)
          BY <4>1, <4>2, <5>1
        <5> QED BY <5>1, <5>2
      <4> QED BY <4>3
    <3>4. PICK k \in 0..len : b = k + 1
      <4>1. b - 1 \in 0..len /\ b = (b - 1) + 1
        BY <1>1, <3>1
      <4> QED BY <4>1
    <3>5. ASSUME NEW i \in 1..k PROVE h[i] \in good
      BY <1>1, <3>1, <3>3, <3>4
    <3>6. h[k + 1] \notin good
      BY <3>1, <3>4
    <3> QED BY <3>5, <3>6
  <2> QED BY <2>1, <2>2
<1>3. PICK k : k = Leading(h, good)
  OBVIOUS
<1>4. k \in 0..len /\ (k < len => h[k + 1] \notin good)
  BY <1>1, <1>2, <1>3, Zenon DEF Leading
<1>5. ~(k < m)
  <2>1. SUFFICES ASSUME k < m PROVE FALSE
    OBVIOUS
  <2>2. k < len /\ k + 1 \in 1..m
    BY <1>1, <1>4, <2>1
  <2> QED BY <1>4, <2>2
<1> QED BY <1>3, <1>4, <1>5

LEMMA FitsOrdered ==
    ASSUME NEW s, Good(s), NEW c, c.maintenance \in BOOLEAN, NEW h \in Seq(Classes), NEW n, Fits(s, h, n),
           NEW o, o = Ordered(s, c), NEW g, g = IF AfterGap(s, c) THEN <<>> ELSE h
    PROVE  g \in Seq(Classes) /\ Fits(o, g, n)
<1>1. /\ Good(o) /\ o.hard = s.hard
      /\ AfterGap(s, c) => o.fail = 0 /\ o.ok = 0 /\ o.clear = 0 /\ o.window = <<>>
      /\ ~AfterGap(s, c) => SameEvidence(s, o)
  BY OrderedFacts
<1>2. CASE AfterGap(s, c)
  <2>1. o.fail = 0 /\ o.ok = 0 /\ o.clear = 0 /\ o.window = <<>> /\ g = <<>>
    BY <1>1, <1>2
  <2>2. \A good : Streak(0, good, g, n)
    BY DEF Streak
  <2>3. Ring(<<>>, g, n)
    BY DEF Ring
  <2>4. g \in Seq(Classes)
    BY <2>1
  <2> QED BY <2>1, <2>2, <2>3, <2>4, Zenon DEF Fits
<1>3. CASE ~AfterGap(s, c)
  <2>1. SameEvidence(s, o) /\ g = h
    BY <1>1, <1>3
  <2> QED BY <2>1, Zenon DEF Fits, SameEvidence
<1> QED BY <1>2, <1>3

(* What is collected is found in the longer history.                       *)
LEMMA FitsCollected ==
    ASSUME NEW o, Good(o), NEW h \in Seq(Classes), NEW n \in Nat \ {0}, Fits(o, h, n), NEW class \in Classes,
           NEW g, Longer(h, g, class, n), NEW p, p.degWindow \in Nat \ {0}, NEW t, CollectedFrom(o, class, p, t)
    PROVE  /\ Streak(t.fail, {"fail"}, g, n) /\ Streak(t.ok, Answers, g, n)
           /\ o.hard = "degraded" => Streak(t.clear, {"clear"}, g, n)
           /\ o.hard \in {"up", "degraded"} \/ (class = "fail" /\ o.hard # "down") => Ring(t.window, g, n)
<1>1. /\ o.fail \in 0..StreakCap /\ o.ok \in 0..StreakCap /\ o.clear \in 0..StreakCap /\ StreakCap \in Nat
      /\ o.window \in Seq(BOOLEAN)
  BY CapsAssumption DEF Good
<1>2. \A k \in 0..StreakCap : Increment(k) \in Nat /\ Increment(k) <= k + 1 /\ k \in Nat /\ k <= k + 1
  BY CapsAssumption DEF Increment, Least
<1>3. \A good : Streak(0, good, g, n)
  BY DEF Streak
<1>4. Streak(t.fail, {"fail"}, g, n)
  <2>1. CASE class = "fail"
    <3>1. t.fail = Increment(o.fail)
      BY <2>1 DEF CollectedFrom
    <3> QED BY <1>1, <1>2, <2>1, <3>1, StreakGrows DEF Fits
  <2>2. CASE class # "fail"
    BY <1>3, <2>2 DEF CollectedFrom
  <2> QED BY <2>1, <2>2
<1>5. Streak(t.ok, Answers, g, n)
  <2>1. CASE class = "fail"
    BY <1>3, <2>1 DEF CollectedFrom
  <2>2. CASE class # "fail"
    <3>1. class \in Answers
      BY <2>2 DEF Classes, Answers
    <3>2. t.ok \in {Increment(o.ok), o.ok}
      BY <2>2 DEF CollectedFrom
    <3>3. t.ok \in Nat /\ t.ok <= o.ok + 1 /\ o.ok \in Nat
      BY <1>1, <1>2, <3>2
    <3> QED BY <3>1, <3>3, StreakGrows DEF Fits
  <2> QED BY <2>1, <2>2
<1>6. ASSUME o.hard = "degraded" PROVE Streak(t.clear, {"clear"}, g, n)
  <2>1. CASE class = "clear"
    <3>1. t.clear = Increment(o.clear)
      BY <1>6, <2>1 DEF CollectedFrom
    <3> QED BY <1>1, <1>2, <1>6, <2>1, <3>1, StreakGrows DEF Fits
  <2>2. CASE class # "clear"
    <3>1. t.clear = 0
      BY <1>6, <2>2 DEF CollectedFrom
    <3> QED BY <1>3, <3>1
  <2> QED BY <2>1, <2>2
<1>7. ASSUME o.hard \in {"up", "degraded"} \/ (class = "fail" /\ o.hard # "down") PROVE Ring(t.window, g, n)
  <2>1. Ring(o.window, h, n)
    BY <1>7 DEF Fits
  <2>2. PICK bad \in BOOLEAN : bad <=> class \in {"fail", "breach"}
    OBVIOUS
  <2>3. t.window = Push(o.window, bad, p)
    <3>1. CASE class = "fail"
      <4>1. bad = TRUE /\ t.window = Push(o.window, TRUE, p)
        BY <1>7, <2>2, <3>1 DEF CollectedFrom
      <4> QED BY <4>1
    <3>2. CASE class # "fail"
      <4>1. bad = Breach(class) /\ t.window = Push(o.window, Breach(class), p)
        BY <1>7, <2>2, <3>2 DEF CollectedFrom, Breach
      <4> QED BY <4>1, Zenon
    <3> QED BY <3>1, <3>2
  <2> QED BY <1>1, <2>1, <2>2, <2>3, RingGrows
<1> QED BY <1>4, <1>5, <1>6, <1>7

(* So is what a confirmed change leaves.                                   *)
LEMMA FitsDecided ==
    ASSUME NEW o, Good(o), NEW h \in Seq(Classes), NEW n \in Nat \ {0}, Fits(o, h, n), NEW class \in Classes,
           NEW g, Longer(h, g, class, n), NEW p, p.degWindow \in Nat \ {0}, NEW t, CollectedFrom(o, class, p, t),
           NEW from, NEW v, Verdict(t, class, from, p, v), NEW d, AppliedTo(t, v, class, p, d)
    PROVE  Fits(d, g, n)
<1>1. /\ Streak(t.fail, {"fail"}, g, n) /\ Streak(t.ok, Answers, g, n)
      /\ o.hard = "degraded" => Streak(t.clear, {"clear"}, g, n)
      /\ o.hard \in {"up", "degraded"} \/ (class = "fail" /\ o.hard # "down") => Ring(t.window, g, n)
  BY FitsCollected
<1>2. t.hard = o.hard /\ d.hard = v.next /\ t.hard \in HardStatuses
  BY DEF CollectedFrom, AppliedTo, Good
<1>3. \A good : Streak(0, good, g, n)
  BY DEF Streak
<1>4. CASE v.next = t.hard
  <2>1. d = t
    BY <1>4 DEF AppliedTo
  <2>2. t.hard = "unknown" => class = "fail"
    BY <1>4 DEF Verdict, Baseline
  <2>3. t.hard # "down" => Ring(t.window, g, n)
    BY <1>1, <1>2, <2>2 DEF HardStatuses
  <2> QED BY <1>1, <1>2, <2>1, <2>3, Zenon DEF Fits
<1>5. CASE v.next # t.hard
  <2>1. /\ d.fail \in {t.fail, 0} /\ d.ok \in {t.ok, 0} /\ (v.keep # "clear" => d.clear = 0)
        /\ d.window = IF class # "fail" THEN Push(<<>>, Breach(class), p) ELSE <<>>
    BY <1>5 DEF AppliedTo, Kept
  <2>2. d.hard = "degraded" => d.clear = 0
    <3>1. ASSUME v.next = "degraded" PROVE v.keep # "clear"
      BY <1>2, <1>5, <3>1 DEF Verdict, HardStatuses
    <3> QED BY <1>2, <2>1, <3>1
  <2>3. d.hard # "down" => Ring(d.window, g, n)
    <3>1. SUFFICES ASSUME v.next # "down" PROVE Ring(d.window, g, n)
      BY <1>2
    <3>2. class # "fail"
      BY <1>2, <1>5, <3>1 DEF Verdict
    <3>3. PICK bad \in BOOLEAN : bad = Breach(class)
      BY DEF Breach
    <3>4. bad <=> class \in {"fail", "breach"}
      BY <3>2, <3>3 DEF Breach
    <3>5. d.window = Push(<<>>, bad, p)
      BY <2>1, <3>2, <3>3, Zenon
    <3>6. 1 \in DOMAIN g /\ g[1] = class
      BY DEF Longer
    <3> QED BY <3>4, <3>5, <3>6, RingStarts
  <2>4. Streak(d.fail, {"fail"}, g, n) /\ Streak(d.ok, Answers, g, n)
    BY <1>1, <1>3, <2>1
  <2> QED BY <1>3, <2>2, <2>3, <2>4, Zenon DEF Fits
<1> QED BY <1>4, <1>5

(* A streak an observer can check is counted by Leading.                   *)
LEMMA StreakLeads ==
    ASSUME NEW g \in Seq(Classes), NEW good, NEW n \in Nat, NEW k \in Nat, Streak(k, good, g, n),
           NEW m \in Nat \ {0}, m <= k, m <= n
    PROVE  Leading(g, good) >= m /\ m <= Len(g)
<1>1. ASSUME NEW i \in 1..m PROVE i \in DOMAIN g /\ g[i] \in good
  BY DEF Streak
<1>2. m \in DOMAIN g
  BY <1>1
<1>3. m <= Len(g)
  BY <1>2
<1> QED BY <1>1, <1>3, LeadingCounts

(* The checks that count against the device in the ring and in the         *)
(* history of an observer.                                                 *)
LEMMA RingCounts ==
    ASSUME NEW g \in Seq(Classes), NEW n \in Nat, NEW window \in Seq(BOOLEAN), Ring(window, g, n),
           NEW p, p.degWindow \in Nat \ {0}, p.degWindow <= n
    PROVE  /\ Bad(g, p.degWindow) \in Nat /\ BadInWindow(window, p) <= Bad(g, p.degWindow)
           /\ Len(window) >= p.degWindow /\ BadInWindow(window, p) = 0 =>
                Len(g) >= p.degWindow /\ Bad(g, p.degWindow) = 0
<1>1. PICK w \in Nat \ {0} : w = p.degWindow /\ w <= n
  OBVIOUS
<1>2. PICK a, b \in Nat : a = Least(Len(window), w) /\ b = Least(w, Len(g))
  BY DEF Least
<1>3. PICK A, B : A = {i \in 1..a : window[i]} /\ B = {i \in 1..b : g[i] \in {"fail", "breach"}}
  OBVIOUS
<1>4. BadInWindow(window, p) = Cardinality(A) /\ Bad(g, p.degWindow) = Cardinality(B)
  BY <1>1, <1>2, <1>3 DEF BadInWindow, Bad
<1>5. IsFiniteSet(B)
  <2>1. IsFiniteSet(1..b)
    BY FS_Interval
  <2>2. B \subseteq 1..b
    BY <1>3
  <2> QED BY <2>1, <2>2, FS_Subset
<1>6. ASSUME NEW i \in 1..a
      PROVE  i \in 1..b /\ (window[i] <=> g[i] \in {"fail", "breach"})
  <2>1. i \in DOMAIN window /\ i <= w /\ i <= n
    BY <1>1, <1>2 DEF Least
  <2>2. i \in DOMAIN g /\ (window[i] <=> g[i] \in {"fail", "breach"})
    BY <2>1 DEF Ring
  <2> QED BY <1>1, <1>2, <2>1, <2>2 DEF Least
<1>7. A \subseteq B
  BY <1>3, <1>6
<1>8. Cardinality(B) \in Nat /\ Cardinality(A) <= Cardinality(B) /\ IsFiniteSet(A)
  BY <1>5, <1>7, FS_Subset, FS_CardinalityType
<1>9. ASSUME Len(window) >= w, Cardinality(A) = 0
      PROVE  Len(g) >= w /\ Cardinality(B) = 0
  <2>1. A = {}
    BY <1>8, <1>9, FS_EmptySet
  <2>2. a = w
    BY <1>1, <1>2, <1>9 DEF Least
  <2>3. w \in 1..b
    BY <1>1, <1>6, <2>2
  <2>4. b = w /\ Len(g) >= w
    BY <1>1, <1>2, <2>3 DEF Least
  <2>5. B = {}
    BY <1>3, <1>6, <2>1, <2>2, <2>4
  <2> QED BY <2>4, <2>5, FS_EmptySet
<1> QED BY <1>1, <1>4, <1>8, <1>9

LEMMA EvidenceIsThere ==
    ASSUME NEW o, Good(o), NEW h \in Seq(Classes), NEW n \in Nat \ {0}, Fits(o, h, n), NEW class \in Classes,
           NEW g, Longer(h, g, class, n),
           NEW p, p.degWindow \in Nat \ {0}, p.degWindow <= n, p.degConfirm \in Nat \ {0},
           p.degClear \in Nat \ {0}, p.degClear <= n, p.upConfirm \in Nat \ {0}, p.upConfirm <= n,
           DownConfirm(p, source) \in Nat \ {0}, DownConfirm(p, source) <= n,
           NEW t, CollectedFrom(o, class, p, t), NEW v, Verdict(t, class, source, p, v),
           NEW d, AppliedTo(t, v, class, p, d), d.hard # o.hard
    PROVE  Evidence(o.hard, d.hard, g, p)
<1>1. /\ Streak(t.fail, {"fail"}, g, n) /\ Streak(t.ok, Answers, g, n)
      /\ o.hard = "degraded" => Streak(t.clear, {"clear"}, g, n)
      /\ o.hard \in {"up", "degraded"} \/ (class = "fail" /\ o.hard # "down") => Ring(t.window, g, n)
  BY FitsCollected
<1>2. t.hard = o.hard /\ d.hard = v.next /\ t.hard \in HardStatuses /\ v.next # t.hard
  BY DEF CollectedFrom, AppliedTo, Good
<1>3. t.fail \in Nat /\ t.ok \in Nat /\ t.clear \in Nat /\ t.window \in Seq(BOOLEAN)
  BY CapsAssumption DEF CollectedFrom, Good
<1>4. g \in Seq(Classes) /\ g[1] = class
  BY DEF Longer
<1>5. CASE v.next = "down"
  <2>1. t.fail >= DownConfirm(p, source)
    BY <1>2, <1>5 DEF Verdict, HardStatuses, Baseline
  <2>2. Leading(g, {"fail"}) >= DownConfirm(p, source)
    BY <1>1, <1>3, <1>4, <2>1, StreakLeads
  <2> QED BY <1>2, <1>5, <2>2 DEF Evidence
<1>6. CASE v.next # "down" /\ t.hard = "down"
  <2>1. t.ok >= p.upConfirm
    BY <1>2, <1>6 DEF Verdict
  <2>2. Leading(g, Answers) >= p.upConfirm
    BY <1>1, <1>3, <1>4, <2>1, StreakLeads
  <2> QED BY <1>2, <1>6, <2>2 DEF Evidence
<1>7. CASE v.next # "down" /\ t.hard = "up"
  <2>1. class # "fail" /\ v.next = "degraded" /\ BadInWindow(t.window, p) >= p.degConfirm
    BY <1>2, <1>7 DEF Verdict
  <2>2. BadInWindow(t.window, p) \in Nat
    BY <1>3, BadFacts
  <2>3. Bad(g, p.degWindow) \in Nat /\ BadInWindow(t.window, p) <= Bad(g, p.degWindow)
    BY <1>1, <1>2, <1>3, <1>4, <1>7, RingCounts
  <2>4. Bad(g, p.degWindow) >= p.degConfirm
    BY <2>1, <2>2, <2>3
  <2> QED BY <1>2, <1>4, <1>7, <2>1, <2>4 DEF Evidence
<1>8. CASE v.next # "down" /\ t.hard = "degraded"
  <2>1. /\ v.next = "up"
        /\ t.clear >= p.degClear \/ (Len(t.window) >= p.degWindow /\ BadInWindow(t.window, p) = 0)
    BY <1>2, <1>8 DEF Verdict
  <2>2. t.clear >= p.degClear => Leading(g, {"clear"}) >= p.degClear
    BY <1>1, <1>2, <1>3, <1>4, <1>8, StreakLeads
  <2>3. Len(t.window) >= p.degWindow /\ BadInWindow(t.window, p) = 0 => Len(g) >= p.degWindow /\ Bad(g, p.degWindow) = 0
    BY <1>1, <1>2, <1>3, <1>4, <1>8, RingCounts
  <2>4. Leading(g, {"clear"}) >= p.degClear \/ (Len(g) >= p.degWindow /\ Bad(g, p.degWindow) = 0)
    BY <2>1, <2>2, <2>3
  <2> QED BY <1>2, <1>8, <2>1, <2>4 DEF Evidence
<1>9. CASE v.next # "down" /\ t.hard = "unknown"
  <2>1. class # "fail"
    BY <1>2, <1>9 DEF Verdict
  <2> QED BY <1>2, <1>4, <1>9, <2>1 DEF Evidence
<1> QED BY <1>2, <1>5, <1>6, <1>7, <1>8, <1>9 DEF HardStatuses

(* The history an observer keeps of an accepted check.                     *)
LEMMA ObservedIsLonger ==
    ASSUME NEW c, hist \in Seq(Classes), setting.histLen \in Nat \ {0},
           NEW h, h = IF AfterGap(state, c) THEN <<>> ELSE hist, h \in Seq(Classes)
    PROVE  Longer(h, Observed(c), Classify(c, policy), setting.histLen)
<1>1. PICK n \in Nat \ {0} : n = setting.histLen
  OBVIOUS
<1>2. PICK class \in Classes : class = Classify(c, policy)
  BY ClassFacts
<1>3. Len(h) = IF AfterGap(state, c) THEN 0 ELSE Len(hist)
  OBVIOUS
<1>4. Observed(c) = SubSeq(<<class>> \o h, 1, Least(n, 1 + Len(h)))
  BY <1>1, <1>2, <1>3 DEF Observed
<1> QED BY <1>1, <1>2, <1>4, ObservedFacts

(* One accepted check.                                                     *)
LEMMA AcceptedCheck ==
    ASSUME IInv, NEW c \in Checks, Check(c), Accepts(state, c)
    PROVE  /\ hist' \in Seq(Classes) /\ Fits(state', hist', setting.histLen)
           /\ state'.hard # state.hard => Evidence(state.hard, state'.hard, hist', policy)
<1>1. PICK out, d, o : out = Step(state, c, policy) /\ d = Decided(state, c, policy) /\ o = Ordered(state, c)
  OBVIOUS
<1>2. PICK class \in Classes : class = Classify(c, policy)
  BY ClassFacts
<1>3. state' = out.state /\ hist' = Observed(c)
  BY <1>1 DEF Check
<1>4. /\ Good(state) /\ hist \in Seq(Classes) /\ Fits(state, hist, setting.histLen)
      /\ setting \in Settings /\ policy \in setting.policies /\ source \in {"central", "sensor"}
      /\ c.maintenance \in BOOLEAN /\ c.source = source
  BY CheckFacts DEF IInv, Known
<1>5. PICK n \in Nat \ {0} : n = setting.histLen
  BY <1>4, PolicyFacts
<1>6. /\ policy.degWindow \in Nat \ {0} /\ policy.degWindow <= n /\ policy.degConfirm \in Nat \ {0}
      /\ policy.degClear \in Nat \ {0} /\ policy.degClear <= n /\ policy.upConfirm \in Nat \ {0} /\ policy.upConfirm <= n
      /\ DownConfirm(policy, source) \in Nat \ {0} /\ DownConfirm(policy, source) <= n
  BY <1>4, <1>5, PolicyFacts
<1>7. PICK h : h = IF AfterGap(state, c) THEN <<>> ELSE hist
  OBVIOUS
<1>8. h \in Seq(Classes) /\ Fits(o, h, n)
  BY <1>1, <1>4, <1>5, <1>7, FitsOrdered
<1>9. PICK g : g = Observed(c)
  OBVIOUS
<1>10. Longer(h, g, class, n)
  BY <1>2, <1>4, <1>5, <1>7, <1>8, <1>9, ObservedIsLonger
<1>11. PICK t, v : CollectedFrom(o, class, policy, t) /\ Verdict(t, class, source, policy, v) /\ AppliedTo(t, v, class, policy, d)
  BY <1>1, <1>2, <1>4, <1>6, DecidedParts
<1>12. Good(o) /\ o.hard = state.hard
  BY <1>1, <1>4, OrderedFacts
<1>13. Fits(d, g, n)
  BY <1>6, <1>8, <1>10, <1>11, <1>12, FitsDecided
<1>14. d.hard # o.hard => Evidence(o.hard, d.hard, g, policy)
  BY <1>6, <1>8, <1>10, <1>11, <1>12, EvidenceIsThere
<1>15. SameEvidence(d, out.state)
  BY <1>1, <1>4, <1>6, StepParts DEF StateOf
<1>16. Fits(out.state, g, n)
  BY <1>13, <1>15, Zenon DEF Fits, SameEvidence
<1>17. g \in Seq(Classes)
  BY <1>10 DEF Longer
<1>18. out.state.hard = d.hard
  BY <1>15 DEF SameEvidence
<1> QED BY <1>3, <1>5, <1>9, <1>12, <1>14, <1>16, <1>17, <1>18, Zenon

LEMMA IInvInit == Init => IInv
<1> SUFFICES ASSUME Init PROVE IInv
  OBVIOUS
<1>1. PICK status \in Displayable : state = Seed(status)
  BY DEF Init
<1>2. state.fail = 0 /\ state.ok = 0 /\ state.clear = 0 /\ state.window = <<>>
  BY <1>1, SeedFacts
<1>3. \A good : Streak(0, good, hist, setting.histLen)
  BY DEF Streak
<1>4. Ring(<<>>, hist, setting.histLen)
  BY DEF Ring
<1>5. Fits(state, hist, setting.histLen)
  BY <1>2, <1>3, <1>4, Zenon DEF Fits
<1>6. hist \in Seq(Classes)
  BY DEF Init
<1> QED BY <1>5, <1>6, KnownInit DEF IInv

LEMMA IInvStep == IInv /\ [Next]_vars => IInv'
<1> SUFFICES ASSUME IInv, [Next]_vars PROVE IInv'
  OBVIOUS
<1>1. Known'
  BY KnownStep DEF IInv
<1>2. ASSUME NEW c \in Checks, Check(c) PROVE hist' \in Seq(Classes) /\ Fits(state', hist', setting'.histLen)
  <2>1. setting' = setting
    BY <1>2 DEF Check
  <2>2. CASE Accepts(state, c)
    BY <1>2, <2>1, <2>2, AcceptedCheck
  <2>3. CASE ~Accepts(state, c)
    <3>1. PICK out : out = Step(state, c, policy)
      OBVIOUS
    <3>2. out.state = state
      BY <2>3, <3>1 DEF Step
    <3>3. state' = state /\ hist' = hist
      BY <1>2, <2>3, <3>1, <3>2 DEF Check
    <3> QED BY <2>1, <3>3 DEF IInv
  <2> QED BY <2>2, <2>3
<1>3. ASSUME NEW p \in setting.policies, SavePolicy(p) PROVE hist' \in Seq(Classes) /\ Fits(state', hist', setting'.histLen)
  BY <1>3 DEF SavePolicy, IInv
<1>4. CASE UNCHANGED vars
  <2>1. state' = state /\ hist' = hist /\ setting' = setting
    BY <1>4 DEF vars
  <2>2. hist' \in Seq(Classes) /\ Fits(state', hist', setting'.histLen)
    BY <2>1 DEF IInv
  <2> QED BY <1>1, <2>2 DEF IInv
<1> QED BY <1>1, <1>2, <1>3, <1>4 DEF IInv, Next

(* Whatever the policies, the samples, the silences and the clock: every   *)
(* confirmed change rests on checks made since the last long silence that  *)
(* an observer remembers, as many as the policy in force asks for.         *)
THEOREM ChangesAreConfirmed == Spec => ConfirmedByEvidence
<1>1. ASSUME IInv, [Next]_vars
      PROVE  [state'.hard # state.hard => Evidence(state.hard, state'.hard, hist', policy)]_vars
  <2>1. SUFFICES ASSUME state'.hard # state.hard PROVE Evidence(state.hard, state'.hard, hist', policy)
    OBVIOUS
  <2>2. PICK c \in Checks : Check(c)
    <3>1. ~(UNCHANGED vars) /\ \A p \in setting.policies : ~SavePolicy(p)
      BY <2>1 DEF vars, SavePolicy
    <3> QED BY <1>1, <3>1 DEF Next
  <2>3. Accepts(state, c)
    <3>1. SUFFICES ASSUME ~Accepts(state, c) PROVE FALSE
      OBVIOUS
    <3>2. PICK out : out = Step(state, c, policy)
      OBVIOUS
    <3>3. out.state = state
      BY <3>1, <3>2 DEF Step
    <3>4. state' = state
      BY <2>2, <3>2, <3>3 DEF Check
    <3> QED BY <2>1, <3>4
  <2> QED BY <1>1, <2>1, <2>2, <2>3, AcceptedCheck
<1> QED BY <1>1, IInvInit, IInvStep, PTL DEF Spec, ConfirmedByEvidence
=============================================================================
