------------------------- MODULE DeviceAlerts_proofs -------------------------
(***************************************************************************)
(* Proofs about DeviceAlerts, for any workers, levels, reminders and       *)
(* bounds.                                                                 *)
(***************************************************************************)
EXTENDS DeviceAlerts, SequenceTheorems, FiniteSetTheorems, TLAPS

(* What is in flight, and what a sweep holds. *)
Transition == [old : Statuses \cup {"unknown"}, new : Statuses]
Pages == {n \in Notices : n.what # "reminder"}
SeenRow == [st : {"pending", "resolved"} \cup Announced, why : Reasons \cup {"none"},
            told : {"yes", "no", "absent"}, level : 0..Levels, repeats : 0..MaxRepeat, closed : BOOLEAN]
Hand == {Idle} \cup [kind : {"send"}, plan : Pages]
        \cup [kind : {"hold"}, id : 1..MaxMoves, now : Statuses \cup {"unknown"}]
        \cup [kind : {"escalate"}, id : 1..MaxMoves, seen : SeenRow]
        \cup [kind : {"snooze"}, id : 1..MaxMoves]
Asked == {p \in posts : p.plan = NoPlan}

Types ==
    /\ status \in Statuses \cup {"unknown"} /\ silence \in BOOLEAN
    /\ moves \in Seq(Transition) /\ waiting \in 0..MaxMoves
    /\ posts \subseteq [n : 1..MaxMoves, ev : Transition, plan : Pages \cup {NoPlan}]
    /\ rows \in Seq(Row)
    /\ work \in [Workers -> Hand]
    /\ sent \subseteq Notices /\ again \subseteq sent
    /\ lastUp \in 0..Len(rows)
    /\ used \in [moves : 0..MaxMoves, upsets : Nat, snoozes : Nat, unsaved : SUBSET Nat, crashed : BOOLEAN, split : BOOLEAN]

(* Every row stems from a transition of its own. *)
Room ==
    /\ IsFiniteSet(posts)
    /\ Len(rows) + Cardinality(Asked) + Len(moves) <= used.moves

(* What a row has been through shows in it. *)
Sane(r) ==
    /\ r.st = "pending" => r.told = "no"
    /\ r.told = "absent" => r.st = "resolved"
    /\ r.level > 0 => r.told = "yes"
    /\ r.closed => r.st = "resolved" /\ r.level > 0

(* What a sweep read is still there, and only went on from what it read. *)
InHand(w) ==
    /\ work[w].kind \in {"hold", "escalate", "snooze"} => work[w].id \in DOMAIN rows
    /\ work[w].kind = "escalate" =>
         LET r == rows[work[w].id]  seen == work[w].seen IN
         /\ ~seen.closed
         /\ \/ seen.st = "active" /\ (WasTold(seen) => r.told = "yes")
            \/ seen.st = "resolved" /\ r.st = "resolved" /\ seen.level > 0

RowsInv ==
    /\ \A i \in DOMAIN rows : Sane(rows[i])
    /\ \A w \in Workers : InHand(w)
    /\ OneOpenAlert /\ UpClosesAll

(* Every notification, attempted or in flight, left its mark on the row:   *)
(* no second one of its kind is made while the mark stands.                *)
Made(n) ==
    \/ n \in sent
    \/ \E p \in posts : p.plan = n
    \/ \E w \in Workers : work[w].kind = "send" /\ work[w].plan = n
AtLeast(r, step) == step[1] < r.level \/ (step[1] = r.level /\ step[2] <= r.repeats)
Marks(r, n) ==
    /\ r.told = "yes"
    /\ n.what = "recovery" => r.st = "resolved"
    /\ n.what = "level" => AtLeast(r, n.step)
    /\ n.what \in {"all_clear", "closure"} => r.closed
Marked(n) == n.id \in DOMAIN rows /\ Marks(rows[n.id], n)

(* Each one is with one dispatcher, and with none once it was attempted. *)
OneHand ==
    /\ \A p, q \in posts : p.plan = q.plan /\ p.plan # NoPlan => p = q
    /\ \A v, w \in Workers : work[v].kind = "send" /\ work[w].kind = "send" /\ work[v].plan = work[w].plan => v = w
    /\ \A p \in posts, w \in Workers : work[w].kind = "send" => work[w].plan # p.plan
    /\ \A p \in posts : p.plan \notin sent
    /\ \A w \in Workers : work[w].kind = "send" => work[w].plan \notin sent

(* A reminder takes the stamp of a snooze with it, unless it is not saved. *)
Reminded ==
    /\ \A i \in DOMAIN rows : rows[i].stamp => used.snoozes > 0
    /\ \A n \in sent : n.what = "reminder" =>
         /\ n.id \in DOMAIN rows /\ used.snoozes > 0
         /\ rows[n.id].stamp => used.snoozes > 1 \/ n.id \in used.unsaved

AllMarked == \A n \in Pages : Made(n) => Marked(n)
AllPaged == \A i \in DOMAIN rows : rows[i].told = "yes" => Paged(i)

NoticesInv == AllMarked /\ AllPaged /\ OneHand /\ Reminded /\ NeverTwice

IInv == Types /\ Room /\ RowsInv /\ NoticesInv
-----------------------------------------------------------------------------
(* What may become of a row: nothing of its past is taken back. *)
Later(r, q) ==
    /\ r.told = "yes" => q.told = "yes"
    /\ r.st = "resolved" => q.st = "resolved"
    /\ r.level < q.level \/ (r.level = q.level /\ r.repeats <= q.repeats)
    /\ r.closed => q.closed

(* A change that neither opens a row nor tells of it. *)
Keeps(r, q) ==
    /\ q \in Row
    /\ Sane(r) => Sane(q)
    /\ Later(r, q)
    /\ q.told = r.told
    /\ q.st = "pending" => r.st = "pending"
    /\ q.st \in Announced => r.st \in Announced

Changed(qs) ==
    /\ qs \in Seq(Row) /\ Len(qs) = Len(rows)
    /\ \A i \in DOMAIN rows : Keeps(rows[i], qs[i])

(***************************************************************************)
(* What the operations do to a row, and to the rows.                       *)
(***************************************************************************)
LEMMA SeqOf ==
    ASSUME NEW S, NEW n \in Nat, NEW f \in [1..n -> S]
    PROVE  f \in Seq(S) /\ Len(f) = n /\ DOMAIN f = 1..n
OBVIOUS

LEMMA RowsDomain ==
    ASSUME rows \in Seq(Row)
    PROVE  Len(rows) \in Nat /\ DOMAIN rows = 1..Len(rows) /\ \A i \in DOMAIN rows : rows[i] \in Row
BY LenProperties

LEMMA LaterType ==
    ASSUME NEW r \in Row
    PROVE  /\ r.level \in 0..Levels /\ r.repeats \in 0..MaxRepeat /\ r.closed \in BOOLEAN /\ r.stamp \in BOOLEAN
           /\ r.st \in {"pending", "resolved"} \cup Announced /\ r.told \in {"yes", "no", "absent"}
           /\ Levels \in Nat /\ MaxRepeat \in Nat /\ MaxMoves \in Nat /\ r.level \in Nat /\ r.repeats \in Nat
BY DeviceAlertsAssumption DEF Row

LEMMA Kept == ASSUME NEW r \in Row PROVE Keeps(r, r)
BY LaterType DEF Keeps, Later

(* Only the state and the reason. *)
LEMMA Restated ==
    ASSUME NEW r \in Row, NEW st \in {"resolved", "acknowledged"}, NEW why \in Reasons \cup {"none"},
           st = "acknowledged" => r.st = "active"
    PROVE  /\ Keeps(r, [r EXCEPT !.st = st, !.why = why])
           /\ [r EXCEPT !.st = st, !.why = why].st = st
           /\ [r EXCEPT !.st = st, !.why = why].stamp = r.stamp
<1> DEFINE q == [r EXCEPT !.st = st, !.why = why]
<1>1. /\ q \in Row /\ q.st = st /\ q.told = r.told /\ q.level = r.level /\ q.repeats = r.repeats
      /\ q.closed = r.closed /\ q.stamp = r.stamp
  BY DEF Row, Announced
<1> HIDE DEF q
<1>2. Sane(r) => Sane(q)
  BY <1>1 DEF Sane
<1>3. Later(r, q)
  BY <1>1, LaterType DEF Later, Announced
<1> QED BY <1>1, <1>2, <1>3 DEF Keeps, Announced, q

LEMMA ClosedRow ==
    ASSUME NEW r \in Row, NEW why \in Reasons
    PROVE  Keeps(r, Closed(r, why)) /\ Closed(r, why).st = "resolved" /\ Closed(r, why).stamp = r.stamp
<1> DEFINE reason == IF r.st = "pending" THEN "hold_cancelled" ELSE why
<1>1. reason \in Reasons /\ Closed(r, why) = [r EXCEPT !.st = "resolved", !.why = reason]
  BY DEF Closed, Resolved, Reasons
<1> HIDE DEF reason
<1> DEFINE q == [r EXCEPT !.st = "resolved", !.why = reason]
<1>2. Keeps(r, q) /\ q.st = "resolved" /\ q.stamp = r.stamp
  BY <1>1, Restated
<1>3. Closed(r, why) = q
  BY <1>1
<1> HIDE DEF q
<1> QED BY <1>2, <1>3

LEMMA Stamped ==
    ASSUME NEW r \in Row, NEW on \in BOOLEAN
    PROVE  Keeps(r, [r EXCEPT !.stamp = on]) /\ [r EXCEPT !.stamp = on].stamp = on
<1> DEFINE q == [r EXCEPT !.stamp = on]
<1>1. /\ q \in Row /\ q.st = r.st /\ q.told = r.told /\ q.level = r.level /\ q.repeats = r.repeats
      /\ q.closed = r.closed /\ q.stamp = on
  BY DEF Row
<1> HIDE DEF q
<1>2. Sane(r) => Sane(q)
  BY <1>1 DEF Sane
<1>3. Later(r, q)
  BY <1>1, LaterType DEF Later
<1> QED BY <1>1, <1>2, <1>3 DEF Keeps, q

LEMMA ChangedAt ==
    ASSUME rows \in Seq(Row), NEW i \in DOMAIN rows, NEW q, Keeps(rows[i], q)
    PROVE  Changed([rows EXCEPT ![i] = q])
<1>1. q \in Row
  BY DEF Keeps
<1>2. i \in 1..Len(rows)
  BY RowsDomain
<1>3. \A j \in 1..Len(rows) : [rows EXCEPT ![i] = q][j] = IF j = i THEN q ELSE rows[j]
  BY <1>1, <1>2, ExceptSeq
<1>4. \A j \in DOMAIN rows : Keeps(rows[j], [rows EXCEPT ![i] = q][j])
  BY <1>3, RowsDomain, Kept
<1> QED BY <1>1, <1>2, <1>4, ExceptSeq DEF Changed

LEMMA ChangedNot == ASSUME rows \in Seq(Row) PROVE Changed(rows)
BY RowsDomain, Kept DEF Changed

LEMMA ChangedClose ==
    ASSUME rows \in Seq(Row), NEW which, NEW why \in Reasons
    PROVE  /\ Changed(Close(rows, which, why))
           /\ \A i \in DOMAIN rows : /\ i \in which => Close(rows, which, why)[i].st = "resolved"
                                     /\ i \notin which => Close(rows, which, why)[i] = rows[i]
                                     /\ Close(rows, which, why)[i].stamp = rows[i].stamp
<1> DEFINE qs == Close(rows, which, why)
<1>1. \A i \in DOMAIN rows : qs[i] = IF i \in which THEN Closed(rows[i], why) ELSE rows[i]
  BY DEF Close
<1>2. \A i \in DOMAIN rows : Keeps(rows[i], qs[i])
  BY <1>1, RowsDomain, Kept, ClosedRow
<1>3. qs \in [1..Len(rows) -> Row]
  <2>1. \A i \in 1..Len(rows) : qs[i] \in Row
    BY <1>2, RowsDomain DEF Keeps
  <2>2. qs = [i \in 1..Len(rows) |-> qs[i]]
    BY RowsDomain DEF Close
  <2> HIDE DEF qs
  <2> QED BY <2>1, <2>2
<1>4. qs \in Seq(Row) /\ Len(qs) = Len(rows)
  <2> HIDE DEF qs
  <2> QED BY <1>3, SeqOf, RowsDomain
<1>5. \A i \in DOMAIN rows : /\ i \in which => qs[i].st = "resolved"
                             /\ i \notin which => qs[i] = rows[i]
                             /\ qs[i].stamp = rows[i].stamp
  BY <1>1, RowsDomain, ClosedRow
<1> HIDE DEF qs
<1> QED BY <1>2, <1>4, <1>5 DEF Changed, qs

LEMMA ChangedStamp ==
    ASSUME rows \in Seq(Row), NEW on \in BOOLEAN
    PROVE  /\ Changed(StampOpen(rows, on))
           /\ \A i \in DOMAIN rows : StampOpen(rows, on)[i].stamp => on \/ rows[i].stamp
<1> DEFINE qs == StampOpen(rows, on)
<1>1. \A i \in DOMAIN rows : qs[i] = IF IsOpen(rows[i]) THEN [rows[i] EXCEPT !.stamp = on] ELSE rows[i]
  BY DEF StampOpen
<1>2. \A i \in DOMAIN rows : Keeps(rows[i], qs[i]) /\ (qs[i].stamp => on \/ rows[i].stamp)
  BY <1>1, RowsDomain, Kept, Stamped
<1>3. qs \in [1..Len(rows) -> Row]
  <2>1. \A i \in 1..Len(rows) : qs[i] \in Row
    BY <1>2, RowsDomain DEF Keeps
  <2>2. qs = [i \in 1..Len(rows) |-> qs[i]]
    BY RowsDomain DEF StampOpen
  <2> HIDE DEF qs
  <2> QED BY <2>1, <2>2
<1>4. qs \in Seq(Row) /\ Len(qs) = Len(rows)
  <2> HIDE DEF qs
  <2> QED BY <1>3, SeqOf, RowsDomain
<1> HIDE DEF qs
<1> QED BY <1>2, <1>4 DEF Changed, qs

(* A row that joins the others, once these made way for it. *)
Adds(mid, row) ==
    /\ Changed(mid) /\ row \in Row /\ Sane(row) /\ ~row.stamp
    /\ row.st = "pending" => \A i \in DOMAIN rows : mid[i].st # "pending"
    /\ row.st \in Announced => \A i \in DOMAIN rows : mid[i].st = "resolved"
    /\ \A i \in DOMAIN rows : mid[i].stamp = rows[i].stamp

(* A hold that confirms. *)
Confirms(i, told, qs) ==
    /\ qs \in Seq(Row) /\ Len(qs) = Len(rows) /\ i \in DOMAIN rows
    /\ rows[i].st = "pending" /\ told \in Tolds
    /\ qs[i] = [rows[i] EXCEPT !.st = "active", !.told = told]
    /\ \A j \in DOMAIN rows \ {i} : Keeps(rows[j], qs[j]) /\ qs[j].st \notin Announced /\ qs[j].stamp = rows[j].stamp

LEMMA NewRowFacts ==
    ASSUME NEW new \in Trouble, NEW st \in {"pending", "active"}, NEW told \in {"yes", "no", "absent"},
           st = "pending" => told = "no", told # "absent"
    PROVE  /\ NewRow(new, st, told) \in Row /\ Sane(NewRow(new, st, told))
           /\ NewRow(new, st, told).st = st /\ NewRow(new, st, told).told = told
           /\ ~NewRow(new, st, told).stamp /\ NewRow(new, st, told).level = 0
BY DeviceAlertsAssumption DEF NewRow, Row, Sane, Announced

LEMMA DependentFacts ==
    ASSUME NEW new \in Trouble, NEW r, r = Resolved(NewRow(new, "active", "absent"), "dependency")
    PROVE  r \in Row /\ Sane(r) /\ r.st = "resolved" /\ r.told = "absent" /\ ~r.stamp
<1> DEFINE row == NewRow(new, "active", "absent")
<1>1. row \in Row /\ row.st = "active" /\ row.told = "absent" /\ ~row.stamp /\ row.level = 0 /\ ~row.closed
  BY DeviceAlertsAssumption DEF NewRow, Row, Announced
<1> HIDE DEF row
<1>2. r = [row EXCEPT !.st = "resolved", !.why = "dependency"]
  BY DEF Resolved, row
<1>3. r \in Row /\ r.st = "resolved" /\ r.told = "absent" /\ ~r.stamp /\ r.level = 0 /\ ~r.closed
  BY <1>1, <1>2 DEF Row, Reasons
<1> QED BY <1>3 DEF Sane

LEMMA Superseded ==
    ASSUME rows \in Seq(Row), NEW held \in BOOLEAN
    PROVE  /\ Changed(Supersede(rows, held))
           /\ \A i \in DOMAIN rows : /\ Supersede(rows, held)[i].st # "pending"
                                     /\ ~held => Supersede(rows, held)[i].st = "resolved"
                                     /\ Supersede(rows, held)[i].stamp = rows[i].stamp
<1> DEFINE which == IF held THEN {i \in DOMAIN rows : rows[i].st = "pending"} ELSE OpenRows(rows)
<1>1. Supersede(rows, held) = Close(rows, which, "superseded") /\ "superseded" \in Reasons
  BY DEF Supersede, Reasons
<1>2. \A i \in DOMAIN rows : i \notin which => rows[i].st # "pending" /\ (~held => rows[i].st = "resolved")
  BY RowsDomain, LaterType DEF OpenRows, IsOpen
<1> HIDE DEF which
<1> QED BY <1>1, <1>2, ChangedClose

LEMMA TriggerEffect ==
    ASSUME Types, NEW new \in Trouble, NEW out \in TriggerOutcomes(rows, new)
    PROVE  \/ out.rows = rows /\ out.plan = NoPlan
           \/ \E mid, row : /\ Adds(mid, row) /\ out.rows = Append(mid, row)
                            /\ \/ row.told = "yes" /\ out.plan = Notice(Len(rows) + 1, "trigger")
                               \/ row.told # "yes" /\ out.plan = NoPlan
<1> USE DEF Types
<1>1. CASE out = Outcome(rows, NoPlan)
  BY <1>1 DEF Outcome
<1>2. CASE out = Outcome(Append(rows, Resolved(NewRow(new, "active", "absent"), "dependency")), NoPlan)
  <2> DEFINE row == Resolved(NewRow(new, "active", "absent"), "dependency")
  <2>1. row \in Row /\ Sane(row) /\ row.st = "resolved" /\ row.told = "absent" /\ ~row.stamp
    BY DependentFacts
  <2>2. out.rows = Append(rows, row) /\ out.plan = NoPlan
    BY <1>2 DEF Outcome
  <2> HIDE DEF row
  <2>3. Adds(rows, row)
    BY <2>1, ChangedNot DEF Adds, Announced
  <2> QED BY <2>1, <2>2, <2>3
<1>3. CASE out = Outcome(Append(Supersede(rows, TRUE), NewRow(new, "pending", "no")), NoPlan)
  <2> DEFINE row == NewRow(new, "pending", "no")  mid == Supersede(rows, TRUE)
  <2>1. row \in Row /\ Sane(row) /\ row.st = "pending" /\ row.told = "no" /\ ~row.stamp
    BY NewRowFacts
  <2>2. out.rows = Append(mid, row) /\ out.plan = NoPlan
    BY <1>3 DEF Outcome
  <2>3. Changed(mid) /\ \A i \in DOMAIN rows : mid[i].st # "pending" /\ mid[i].stamp = rows[i].stamp
    BY Superseded
  <2> HIDE DEF row, mid
  <2>4. Adds(mid, row)
    BY <2>1, <2>3 DEF Adds, Announced
  <2> QED BY <2>1, <2>2, <2>4
<1>4. ASSUME NEW told \in Tolds,
             out = Outcome(Append(Supersede(rows, FALSE), NewRow(new, "active", told)),
                           IF told = "yes" THEN Notice(Len(rows) + 1, "trigger") ELSE NoPlan)
      PROVE  \E mid, row : /\ Adds(mid, row) /\ out.rows = Append(mid, row)
                           /\ \/ row.told = "yes" /\ out.plan = Notice(Len(rows) + 1, "trigger")
                              \/ row.told # "yes" /\ out.plan = NoPlan
  <2> DEFINE row == NewRow(new, "active", told)  mid == Supersede(rows, FALSE)
  <2>1. row \in Row /\ Sane(row) /\ row.st = "active" /\ row.told = told /\ ~row.stamp
    BY NewRowFacts DEF Tolds
  <2>2. out.rows = Append(mid, row) /\ out.plan = IF told = "yes" THEN Notice(Len(rows) + 1, "trigger") ELSE NoPlan
    BY <1>4 DEF Outcome
  <2>3. Changed(mid) /\ \A i \in DOMAIN rows : mid[i].st = "resolved" /\ mid[i].stamp = rows[i].stamp
    BY Superseded
  <2> HIDE DEF row, mid
  <2>4. Adds(mid, row)
    BY <2>1, <2>3 DEF Adds, Announced
  <2> QED BY <2>1, <2>2, <2>4
<1>5. \/ out = Outcome(rows, NoPlan)
      \/ out = Outcome(Append(rows, Resolved(NewRow(new, "active", "absent"), "dependency")), NoPlan)
      \/ out = Outcome(Append(Supersede(rows, TRUE), NewRow(new, "pending", "no")), NoPlan)
      \/ \E told \in Tolds : out = Outcome(Append(Supersede(rows, FALSE), NewRow(new, "active", told)),
                                           IF told = "yes" THEN Notice(Len(rows) + 1, "trigger") ELSE NoPlan)
  BY Zenon DEF TriggerOutcomes
<1> QED BY <1>1, <1>2, <1>3, <1>4, <1>5

(* The one alert of the rule that is announced is the one a reset is about. *)
LEMMA ResetFacts ==
    ASSUME Types, RowsInv
    PROVE  \/ ResetPlan(rows) = NoPlan
           \/ \E i \in DOMAIN rows : /\ ResetPlan(rows) = Notice(i, "recovery")
                                     /\ rows[i].st \in Announced /\ rows[i].told = "yes"
<1> DEFINE closed == {i \in DOMAIN rows : rows[i].st \in Announced /\ rows[i].new \in Trouble}
<1>1. CASE Reset /\ \E i \in closed : WasTold(rows[i])
  <2> PICK i \in closed : WasTold(rows[i])
    BY <1>1
  <2>1. i \in DOMAIN rows /\ rows[i].st \in Announced /\ Sane(rows[i])
    BY DEF RowsInv
  <2>2. rows[i].told = "yes"
    BY <2>1 DEF Sane, WasTold, Announced
  <2>3. \A j \in closed : j = i
    BY <2>1 DEF RowsInv, OneOpenAlert, IsOpen, Announced
  <2>4. i \in Nat
    BY <2>1, RowsDomain DEF Types
  <2>5. closed = {i}
    BY <2>3
  <2>6. (CHOOSE j \in closed : \A k \in closed : j <= k) = i
    <3> HIDE DEF closed
    <3>1. \E j \in closed : \A k \in closed : j <= k
      BY <2>4, <2>5
    <3>2. (CHOOSE j \in closed : \A k \in closed : j <= k) \in closed
      BY <3>1
    <3> QED BY <3>2, <2>5
  <2>7. ResetPlan(rows) = Notice(CHOOSE j \in closed : \A k \in closed : j <= k, "recovery")
    BY <1>1 DEF ResetPlan
  <2> QED BY <2>1, <2>2, <2>6, <2>7
<1>2. CASE ~(Reset /\ \E i \in closed : WasTold(rows[i]))
  BY <1>2 DEF ResetPlan
<1> QED BY <1>1, <1>2

LEMMA UpEffect ==
    ASSUME Types, RowsInv, NEW ev, ev.new = "up", NEW out \in Evaluation(ev)
    PROVE  /\ Changed(out.rows)
           /\ \A i \in DOMAIN rows : out.rows[i].st = "resolved" /\ out.rows[i].stamp = rows[i].stamp
           /\ \/ out.plan = NoPlan
              \/ \E i \in DOMAIN rows : /\ out.plan = Notice(i, "recovery")
                                        /\ rows[i].st \in Announced /\ rows[i].told = "yes"
<1> PICK why \in Reasons : out.rows = Close(rows, OpenRows(rows), why)
  BY DEF Evaluation, Outcome, Reasons
<1>1. out.plan = NoPlan \/ out.plan = ResetPlan(rows)
  BY DEF Evaluation, Outcome
<1>2. \A i \in DOMAIN rows : i \notin OpenRows(rows) => rows[i].st = "resolved"
  BY RowsDomain, LaterType DEF OpenRows, IsOpen, Types
<1>3. rows \in Seq(Row)
  BY DEF Types
<1> QED BY <1>1, <1>2, <1>3, ChangedClose, ResetFacts

(***************************************************************************)
(* What each step does to the rows.                                        *)
(***************************************************************************)
LEMMA HandFields ==
    ASSUME NEW h \in Hand
    PROVE  /\ h.kind \in {"idle", "send", "hold", "escalate", "snooze"}
           /\ h.kind = "idle" => h = Idle
           /\ h.kind = "send" => h.plan \in Pages /\ h = Sending(h.plan)
           /\ h.kind \in {"hold", "escalate", "snooze"} => h.id \in 1..MaxMoves
           /\ h.kind = "hold" => h.now \in Statuses \cup {"unknown"}
           /\ h.kind = "escalate" => h.seen \in SeenRow
BY DEF Hand, Idle, Sending

LEMMA DueStep ==
    ASSUME NEW seen \in SeenRow, NEW s \in Due(seen)
    PROVE  /\ s \in Steps /\ s[1] \in 1..Levels /\ s[2] \in 0..MaxRepeat
           /\ seen.level < s[1] \/ (seen.level = s[1] /\ s[2] = seen.repeats + 1)
BY DEF Due, Steps, SeenRow

LEMMA Escalated ==
    ASSUME NEW r \in Row, r.told = "yes", ~r.closed, NEW s \in Steps, s[1] \in 1..Levels, s[2] \in 0..MaxRepeat,
           r.level < s[1] \/ (r.level = s[1] /\ s[2] = r.repeats + 1)
    PROVE  /\ Keeps(r, [r EXCEPT !.level = s[1], !.repeats = s[2], !.closed = FALSE])
           /\ [r EXCEPT !.level = s[1], !.repeats = s[2], !.closed = FALSE].stamp = r.stamp
           /\ [r EXCEPT !.level = s[1], !.repeats = s[2], !.closed = FALSE].level = s[1]
           /\ [r EXCEPT !.level = s[1], !.repeats = s[2], !.closed = FALSE].repeats = s[2]
<1> DEFINE q == [r EXCEPT !.level = s[1], !.repeats = s[2], !.closed = FALSE]
<1>1. s[1] \in 0..Levels /\ s[1] \in Nat /\ s[2] \in Nat
  BY LaterType
<1>2. /\ q \in Row /\ q.st = r.st /\ q.told = r.told /\ q.level = s[1] /\ q.repeats = s[2]
      /\ q.closed = FALSE /\ q.stamp = r.stamp
  BY <1>1 DEF Row
<1> HIDE DEF q
<1>3. Sane(r) => Sane(q)
  BY <1>2 DEF Sane
<1>4. Later(r, q)
  BY <1>1, <1>2, LaterType DEF Later
<1> QED BY <1>2, <1>3, <1>4 DEF Keeps, q

LEMMA ToldOff ==
    ASSUME NEW r \in Row, r.st = "resolved", r.level > 0
    PROVE  /\ Keeps(r, [r EXCEPT !.closed = TRUE])
           /\ [r EXCEPT !.closed = TRUE].closed /\ [r EXCEPT !.closed = TRUE].stamp = r.stamp
<1> DEFINE q == [r EXCEPT !.closed = TRUE]
<1>1. /\ q \in Row /\ q.st = r.st /\ q.told = r.told /\ q.level = r.level /\ q.repeats = r.repeats
      /\ q.closed /\ q.stamp = r.stamp
  BY DEF Row
<1> HIDE DEF q
<1>2. Sane(r) => Sane(q)
  BY <1>1 DEF Sane
<1>3. Later(r, q)
  BY <1>1, LaterType DEF Later
<1> QED BY <1>1, <1>2, <1>3 DEF Keeps, q

LEMMA ConfirmedRow ==
    ASSUME NEW r \in Row, r.st = "pending", Sane(r), NEW told \in Tolds
    PROVE  /\ Sane([r EXCEPT !.st = "active", !.told = told]) /\ Later(r, [r EXCEPT !.st = "active", !.told = told])
           /\ [r EXCEPT !.st = "active", !.told = told].st = "active"
           /\ [r EXCEPT !.st = "active", !.told = told].told = told
           /\ [r EXCEPT !.st = "active", !.told = told].stamp = r.stamp
<1> DEFINE q == [r EXCEPT !.st = "active", !.told = told]
<1>1. /\ q.st = "active" /\ q.told = told /\ q.level = r.level /\ q.repeats = r.repeats
      /\ q.closed = r.closed /\ q.stamp = r.stamp
  BY DEF Row
<1> HIDE DEF q
<1>2. r.told = "no" /\ ~(r.level > 0) /\ ~r.closed
  BY DEF Sane
<1>3. Sane(q)
  BY <1>1, <1>2 DEF Sane, Tolds
<1>4. Later(r, q)
  BY <1>1, <1>2, LaterType DEF Later
<1> QED BY <1>1, <1>3, <1>4 DEF q

LEMMA ConfirmEffect ==
    ASSUME Types, RowsInv, NEW w \in Workers, HoldConfirm(w), Settles(work[w].id)
    PROVE  \E told \in Tolds :
             /\ Confirms(work[w].id, told, rows')
             /\ work' = [work EXCEPT ![w] = IF told = "yes" THEN Sending(Notice(work[w].id, "trigger")) ELSE Idle]
<1> DEFINE i == work[w].id
           others == [j \in DOMAIN rows |-> IF j # i /\ rows[j].st \in Announced
                                            THEN Resolved(rows[j], "superseded") ELSE rows[j]]
<1>1. PICK told \in Tolds :
        /\ rows' = [others EXCEPT ![i].st = "active", ![i].told = told]
        /\ work' = [work EXCEPT ![w] = IF told = "yes" THEN Sending(Notice(i, "trigger")) ELSE Idle]
  BY DEF HoldConfirm, Becomes
<1>2. i \in DOMAIN rows /\ rows[i].st = "pending" /\ rows[i] \in Row
  BY RowsDomain DEF RowsInv, InHand, Types, HoldConfirm, Settles
<1> DEFINE q == [rows[i] EXCEPT !.st = "active", !.told = told]
<1>3. \A j \in DOMAIN rows : j # i => Keeps(rows[j], others[j]) /\ others[j].st \notin Announced /\ others[j].stamp = rows[j].stamp
  <2> SUFFICES ASSUME NEW j \in DOMAIN rows, j # i
               PROVE  Keeps(rows[j], others[j]) /\ others[j].st \notin Announced /\ others[j].stamp = rows[j].stamp
    OBVIOUS
  <2>1. rows[j] \in Row
    BY RowsDomain DEF Types
  <2>2. CASE rows[j].st \in Announced
    <3>1. others[j] = Closed(rows[j], "superseded")
      BY <2>2 DEF Closed, Announced
    <3> QED BY <2>1, <3>1, ClosedRow DEF Reasons, Announced
  <2>3. CASE rows[j].st \notin Announced
    BY <2>1, <2>3, Kept
  <2> QED BY <2>2, <2>3
<1>4. others[i] = rows[i] /\ DOMAIN others = DOMAIN rows
  BY <1>2
<1>5. rows' = [others EXCEPT ![i] = q]
  BY <1>1, <1>4
<1>6. q \in Row
  BY <1>2 DEF Row, Announced, Tolds
<1>7. \A j \in DOMAIN rows : rows'[j] = IF j = i THEN q ELSE others[j]
  BY <1>2, <1>4, <1>5
<1>8. rows' \in [1..Len(rows) -> Row]
  <2>1. DOMAIN rows' = 1..Len(rows) /\ rows' = [j \in 1..Len(rows) |-> rows'[j]]
    BY <1>5, RowsDomain DEF Types
  <2>2. \A j \in 1..Len(rows) : rows'[j] \in Row
    BY <1>3, <1>6, <1>7, RowsDomain DEF Keeps, Types
  <2> QED BY <2>1, <2>2
<1>9. rows' \in Seq(Row) /\ Len(rows') = Len(rows)
  BY <1>8, SeqOf, RowsDomain DEF Types
<1>10. Confirms(i, told, rows')
  BY <1>2, <1>3, <1>7, <1>9 DEF Confirms
<1> QED BY <1>1, <1>10

LEMMA Effects ==
    ASSUME Types, RowsInv, [Next]_vars
    PROVE  \/ Changed(rows')
           \/ (\E p \in posts : Evaluate(p)) /\ \E mid, row : Adds(mid, row) /\ rows' = Append(mid, row)
           \/ \E w \in Workers : HoldConfirm(w) /\ Settles(work[w].id) /\ \E told : Confirms(work[w].id, told, rows')
<1> USE DEF Types
<1>1. CASE UNCHANGED rows
  BY <1>1, ChangedNot
<1>2. CASE SensorOffline
  BY <1>2, ChangedClose DEF SensorOffline, Reasons
<1>3. ASSUME NEW p \in posts, Evaluate(p)
      PROVE  Changed(rows') \/ \E mid, row : Adds(mid, row) /\ rows' = Append(mid, row)
  <2> PICK out \in Evaluation(p.ev) : rows' = out.rows
    BY <1>3 DEF Evaluate
  <2>1. CASE p.ev.new = "up"
    BY <2>1, UpEffect
  <2>2. CASE p.ev.new # "up" /\ TriggerMatches(p.ev.new)
    <3>1. out \in TriggerOutcomes(rows, p.ev.new) /\ p.ev.new \in Trouble
      BY <2>2 DEF Evaluation, Transition, Statuses
    <3> QED BY <3>1, TriggerEffect, ChangedNot
  <2>3. CASE p.ev.new # "up" /\ ~TriggerMatches(p.ev.new)
    BY <2>3, ChangedNot DEF Evaluation, Outcome
  <2> QED BY <2>1, <2>2, <2>3
<1>4. ASSUME NEW i \in DOMAIN rows, Acknowledge(i) \/ ResolveByHand(i) PROVE Changed(rows')
  <2>1. rows[i] \in Row
    BY RowsDomain
  <2>2. CASE Acknowledge(i)
    <3> DEFINE q == [rows[i] EXCEPT !.st = "acknowledged", !.why = rows[i].why]
    <3>1. rows[i].why \in Reasons \cup {"none"} /\ q = [rows[i] EXCEPT !.st = "acknowledged"]
      BY <2>1 DEF Row
    <3>2. Keeps(rows[i], q)
      BY <2>1, <2>2, <3>1, Restated DEF Acknowledge
    <3>3. rows' = [rows EXCEPT ![i] = q]
      BY <2>2, <3>1 DEF Acknowledge
    <3> HIDE DEF q
    <3> QED BY <3>2, <3>3, ChangedAt
  <2>3. CASE ResolveByHand(i)
    <3> DEFINE q == [rows[i] EXCEPT !.st = "resolved", !.why = "manual"]
    <3>1. Keeps(rows[i], q)
      BY <2>1, Restated DEF Reasons
    <3>2. rows' = [rows EXCEPT ![i] = q]
      BY <2>3 DEF ResolveByHand, Resolved
    <3> HIDE DEF q
    <3> QED BY <3>1, <3>2, ChangedAt
  <2> QED BY <1>4, <2>2, <2>3
<1>5. CASE Snooze \/ Unsnooze
  BY <1>5, ChangedStamp DEF Snooze, Unsnooze
<1>6. ASSUME NEW w \in Workers, Sweep(w)
      PROVE  Changed(rows') \/ (HoldConfirm(w) /\ Settles(work[w].id) /\ \E told : Confirms(work[w].id, told, rows'))
  <2> DEFINE i == work[w].id
  <2>0. work[w] \in Hand /\ InHand(w) /\ (work[w].kind \in {"hold", "escalate", "snooze"} => i \in DOMAIN rows /\ rows[i] \in Row)
    BY RowsDomain DEF RowsInv, InHand
  <2>1. CASE SweepSends(w)
    BY <2>1, ChangedNot DEF SweepSends
  <2>2. CASE HoldCancel(w)
    <3>1. i \in DOMAIN rows /\ rows[i] \in Row
      BY <2>0, <2>2 DEF HoldCancel
    <3> DEFINE q == [rows[i] EXCEPT !.st = "resolved", !.why = "hold_cancelled"]
    <3>2. Keeps(rows[i], q)
      BY <3>1, Restated DEF Reasons
    <3>3. rows' = rows \/ rows' = [rows EXCEPT ![i] = q]
      BY <2>2 DEF HoldCancel, Resolved
    <3> HIDE DEF q
    <3> QED BY <3>1, <3>2, <3>3, ChangedAt, ChangedNot
  <2>3. CASE HoldConfirm(w)
    <3>1. CASE Settles(work[w].id)
      BY <2>3, <3>1, ConfirmEffect
    <3>2. CASE ~Settles(work[w].id)
      BY <2>3, <3>2, ChangedNot DEF HoldConfirm
    <3> QED BY <3>1, <3>2
  <2>4. CASE EscalationStep(w)
    <3> DEFINE seen == work[w].seen
    <3>1. i \in DOMAIN rows /\ rows[i] \in Row /\ seen \in SeenRow
      BY <2>0, <2>4, HandFields DEF EscalationStep
    <3>2. ASSUME WasTold(seen), StateIsStill(i, seen), NEW s \in Due(seen),
                 rows' = [rows EXCEPT ![i].level = s[1], ![i].repeats = s[2], ![i].closed = FALSE]
          PROVE  Changed(rows')
      <4>1. rows[i].told = "yes" /\ ~seen.closed
        BY <2>0, <2>4, <3>2 DEF InHand, EscalationStep
      <4>2. rows[i].level = seen.level /\ rows[i].repeats = seen.repeats /\ rows[i].closed = seen.closed
        BY <3>2 DEF StateIsStill, Escalation
      <4> DEFINE q == [rows[i] EXCEPT !.level = s[1], !.repeats = s[2], !.closed = FALSE]
      <4>3. Keeps(rows[i], q)
        <5> HIDE DEF seen, i, q
        <5>1. /\ s \in Steps /\ s[1] \in 1..Levels /\ s[2] \in 0..MaxRepeat
              /\ rows[i].level < s[1] \/ (rows[i].level = s[1] /\ s[2] = rows[i].repeats + 1)
          BY <3>1, <4>2, DueStep
        <5> QED BY <3>1, <4>1, <4>2, <5>1, Escalated DEF q
      <4>4. rows' = [rows EXCEPT ![i] = q]
        BY <3>2
      <4> HIDE DEF q
      <4> QED BY <3>1, <4>3, <4>4, ChangedAt
    <3> QED BY <2>4, <3>2, ChangedNot DEF EscalationStep
  <2>5. CASE EscalationClose(w)
    <3> DEFINE seen == work[w].seen
    <3>1. i \in DOMAIN rows /\ rows[i] \in Row /\ rows[i].st = "resolved" /\ seen.level > 0
      BY <2>0, <2>5, HandFields DEF EscalationClose, InHand
    <3>2. CASE StateIsStill(i, seen)
      <4>1. rows[i].level > 0
        BY <3>1, <3>2 DEF StateIsStill, Escalation
      <4> DEFINE q == [rows[i] EXCEPT !.closed = TRUE]
      <4>2. Keeps(rows[i], q)
        BY <3>1, <4>1, ToldOff
      <4>3. rows' = [rows EXCEPT ![i] = q]
        BY <2>5, <3>2 DEF EscalationClose
      <4> HIDE DEF q
      <4> QED BY <3>1, <4>2, <4>3, ChangedAt
    <3>3. CASE ~StateIsStill(i, seen)
      BY <2>5, <3>3, ChangedNot DEF EscalationClose
    <3> QED BY <3>2, <3>3
  <2>6. CASE SnoozeClear(w)
    <3>1. i \in DOMAIN rows /\ rows[i] \in Row
      BY <2>0, <2>6 DEF SnoozeClear
    <3> DEFINE q == [rows[i] EXCEPT !.stamp = FALSE]
    <3>2. Keeps(rows[i], q)
      BY <3>1, Stamped
    <3>3. rows' = rows \/ rows' = [rows EXCEPT ![i] = q]
      BY <2>6 DEF SnoozeClear
    <3> HIDE DEF q
    <3> QED BY <3>1, <3>2, <3>3, ChangedAt, ChangedNot
  <2> QED BY <1>6, <2>1, <2>2, <2>3, <2>4, <2>5, <2>6 DEF Sweep
<1>7. CASE UNCHANGED vars
  BY <1>1, <1>7 DEF vars
<1>8. CASE \/ (\E new \in Statuses : Move(new)) \/ Post \/ PostTimesOut \/ SilenceEnds \/ Crash
           \/ (\E p \in posts : SendPlanned(p)) \/ (\E w \in Workers : SnoozeUnsaved(w))
  BY <1>1, <1>8 DEF Move, Post, PostTimesOut, SilenceEnds, Crash, SendPlanned, SnoozeUnsaved
<1>9. CASE \E w \in Workers, i \in DOMAIN rows : HoldRead(w, i) \/ EscalationRead(w, i) \/ SnoozeRead(w, i)
  BY <1>1, <1>9 DEF HoldRead, EscalationRead, SnoozeRead
<1> QED BY <1>2, <1>3, <1>4, <1>5, <1>6, <1>7, <1>8, <1>9 DEF Next

(***************************************************************************)
(* The rows' invariant.                                                    *)
(***************************************************************************)
LEMMA Appended ==
    ASSUME rows \in Seq(Row), NEW mid, NEW row, Adds(mid, row), rows' = Append(mid, row)
    PROVE  /\ rows' \in Seq(Row) /\ Len(rows') = Len(rows) + 1 /\ DOMAIN rows' = DOMAIN rows \cup {Len(rows) + 1}
           /\ rows'[Len(rows) + 1] = row /\ Len(rows) + 1 \notin DOMAIN rows
           /\ \A i \in DOMAIN rows : rows'[i] = mid[i]
<1>1. mid \in Seq(Row) /\ Len(mid) = Len(rows) /\ row \in Row
  BY DEF Adds, Changed
<1>2. /\ rows' \in Seq(Row) /\ Len(rows') = Len(rows) + 1 /\ rows'[Len(rows) + 1] = row
      /\ \A i \in 1..Len(rows) : rows'[i] = mid[i]
  BY <1>1, AppendProperties
<1>3. DOMAIN rows' = 1..Len(rows')
  BY <1>2
<1> QED BY <1>2, <1>3, RowsDomain

LEMMA RowsAfter ==
    ASSUME Types, RowsInv, [Next]_vars
    PROVE  /\ rows' \in Seq(Row) /\ Len(rows) <= Len(rows') /\ DOMAIN rows \subseteq DOMAIN rows'
           /\ \A i \in DOMAIN rows : Later(rows[i], rows'[i])
           /\ \A i \in DOMAIN rows' : Sane(rows'[i])
           /\ OneOpenAlert'
<1> USE DEF Types, RowsInv
<1>0. DOMAIN rows = 1..Len(rows) /\ Len(rows) \in Nat /\ \A i \in DOMAIN rows : rows[i] \in Row
  BY RowsDomain
<1>1. ASSUME Changed(rows')
      PROVE  /\ rows' \in Seq(Row) /\ Len(rows) <= Len(rows') /\ DOMAIN rows \subseteq DOMAIN rows'
             /\ \A i \in DOMAIN rows : Later(rows[i], rows'[i])
             /\ \A i \in DOMAIN rows' : Sane(rows'[i])
             /\ OneOpenAlert'
  <2>1. rows' \in Seq(Row) /\ Len(rows') = Len(rows) /\ \A i \in DOMAIN rows : Keeps(rows[i], rows'[i])
    BY <1>1 DEF Changed
  <2>2. DOMAIN rows' = DOMAIN rows
    BY <1>0, <2>1
  <2>3. ASSUME NEW i \in DOMAIN rows, NEW j \in DOMAIN rows, i # j, IsOpen(rows'[i]), IsOpen(rows'[j])
        PROVE  (rows'[i].st = "pending") # (rows'[j].st = "pending")
    BY <2>1, <2>3 DEF Keeps, OneOpenAlert, IsOpen, Announced
  <2>4. OneOpenAlert'
    BY <2>2, <2>3 DEF OneOpenAlert, IsOpen
  <2> QED BY <1>0, <2>1, <2>2, <2>4 DEF Keeps
<1>2. ASSUME NEW mid, NEW row, Adds(mid, row), rows' = Append(mid, row)
      PROVE  /\ rows' \in Seq(Row) /\ Len(rows) <= Len(rows') /\ DOMAIN rows \subseteq DOMAIN rows'
             /\ \A i \in DOMAIN rows : Later(rows[i], rows'[i])
             /\ \A i \in DOMAIN rows' : Sane(rows'[i])
             /\ OneOpenAlert'
  <2> DEFINE k == Len(rows) + 1
  <2>1. /\ rows' \in Seq(Row) /\ Len(rows') = Len(rows) + 1 /\ DOMAIN rows' = DOMAIN rows \cup {k}
        /\ rows'[k] = row /\ k \notin DOMAIN rows
        /\ \A i \in DOMAIN rows : rows'[i] = mid[i]
    BY <1>2, Appended
  <2> HIDE DEF k
  <2>2. \A i \in DOMAIN rows : Keeps(rows[i], mid[i])
    BY <1>2 DEF Adds, Changed
  <2>3. ASSUME NEW i \in DOMAIN rows, NEW j \in DOMAIN rows, i # j, IsOpen(mid[i]), IsOpen(mid[j])
        PROVE  (mid[i].st = "pending") # (mid[j].st = "pending")
    BY <2>2, <2>3 DEF Keeps, OneOpenAlert, IsOpen, Announced
  <2>4. ASSUME NEW i \in DOMAIN rows, IsOpen(mid[i]), IsOpen(row)
        PROVE  (mid[i].st = "pending") # (row.st = "pending")
    BY <1>2, <2>4 DEF Adds, IsOpen, Announced
  <2>5. ASSUME NEW i \in DOMAIN rows', NEW j \in DOMAIN rows', i # j, IsOpen(rows'[i]), IsOpen(rows'[j])
        PROVE  (rows'[i].st = "pending") # (rows'[j].st = "pending")
    <3>1. CASE i \in DOMAIN rows /\ j \in DOMAIN rows
      BY <2>1, <2>3, <2>5, <3>1
    <3>2. CASE i = k
      <4>1. j \in DOMAIN rows /\ rows'[j] = mid[j] /\ rows'[i] = row
        BY <2>1, <2>5, <3>2
      <4>2. IsOpen(mid[j]) /\ IsOpen(row)
        BY <2>5, <4>1
      <4> QED BY <2>4, <4>1, <4>2
    <3>3. CASE j = k
      <4>1. i \in DOMAIN rows /\ rows'[i] = mid[i] /\ rows'[j] = row
        BY <2>1, <2>5, <3>3
      <4>2. IsOpen(mid[i]) /\ IsOpen(row)
        BY <2>5, <4>1
      <4> QED BY <2>4, <4>1, <4>2
    <3> QED BY <2>1, <3>1, <3>2, <3>3
  <2>8. OneOpenAlert'
    BY <2>5 DEF OneOpenAlert, IsOpen
  <2>6. \A i \in DOMAIN rows' : Sane(rows'[i])
    BY <1>2, <2>1, <2>2 DEF Keeps, Adds
  <2>7. \A i \in DOMAIN rows : Later(rows[i], rows'[i])
    BY <2>1, <2>2 DEF Keeps
  <2> QED BY <1>0, <2>1, <2>6, <2>7, <2>8
<1>3. ASSUME NEW i, NEW told, Confirms(i, told, rows')
      PROVE  /\ rows' \in Seq(Row) /\ Len(rows) <= Len(rows') /\ DOMAIN rows \subseteq DOMAIN rows'
             /\ \A j \in DOMAIN rows : Later(rows[j], rows'[j])
             /\ \A j \in DOMAIN rows' : Sane(rows'[j])
             /\ OneOpenAlert'
  <2>1. /\ rows' \in Seq(Row) /\ Len(rows') = Len(rows) /\ i \in DOMAIN rows /\ rows[i].st = "pending" /\ told \in Tolds
        /\ rows'[i] = [rows[i] EXCEPT !.st = "active", !.told = told]
        /\ \A j \in DOMAIN rows \ {i} : Keeps(rows[j], rows'[j]) /\ rows'[j].st \notin Announced
    BY <1>3 DEF Confirms
  <2>2. DOMAIN rows' = DOMAIN rows
    BY <1>0, <2>1
  <2>3. Sane(rows'[i]) /\ Later(rows[i], rows'[i]) /\ rows'[i].st = "active"
    <3> PICK r \in Row : r = rows[i] /\ Sane(r)
      BY <1>0, <2>1
    <3> DEFINE q == [r EXCEPT !.st = "active", !.told = told]
    <3>1. r.st = "pending" /\ q = rows'[i] /\ told \in Tolds
      BY <2>1
    <3>2. Sane(q) /\ Later(r, q) /\ q.st = "active"
      BY <3>1, ConfirmedRow
    <3> HIDE DEF q
    <3> QED BY <3>1, <3>2
  <2>4. \A j \in DOMAIN rows : j # i => rows'[j].st # "pending"
    BY <2>1 DEF Keeps, OneOpenAlert, IsOpen
  <2>5. OneOpenAlert'
    BY <2>1, <2>2, <2>3, <2>4 DEF OneOpenAlert, IsOpen
  <2>6. \A j \in DOMAIN rows' : Sane(rows'[j]) /\ Later(rows[j], rows'[j])
    BY <2>1, <2>2, <2>3 DEF Keeps
  <2> QED BY <1>0, <2>1, <2>2, <2>5, <2>6
<1> QED BY <1>1, <1>2, <1>3, Effects

(* Waiting for nothing but an evaluation, a move to up leaves no row open. *)
LEMMA UpStays ==
    ASSUME Types, RowsInv, [Next]_vars
    PROVE  lastUp' \in 0..Len(rows') /\ UpClosesAll'
<1> USE DEF Types, RowsInv
<1>0. /\ DOMAIN rows = 1..Len(rows) /\ Len(rows) \in Nat /\ \A i \in DOMAIN rows : rows[i] \in Row
      /\ Len(rows') \in Nat /\ Len(rows) <= Len(rows')
      /\ \A i \in DOMAIN rows : rows[i].st = "resolved" => rows'[i].st = "resolved"
  BY RowsDomain, RowsAfter DEF Later
<1>1. CASE UNCHANGED lastUp
  <2>1. ASSUME NEW i \in 1..lastUp PROVE ~IsOpen(rows'[i])
    <3>1. i \in DOMAIN rows
      BY <1>0
    <3>2. rows[i].st = "resolved"
      BY <1>0, <3>1, LaterType DEF UpClosesAll, IsOpen
    <3> QED BY <1>0, <3>1, <3>2 DEF IsOpen, Announced
  <2> QED BY <1>0, <1>1, <2>1 DEF UpClosesAll, IsOpen
<1>2. ASSUME NEW p \in posts, Evaluate(p), p.ev.new = "up"
      PROVE  lastUp' \in 0..Len(rows') /\ UpClosesAll'
  <2> PICK out \in Evaluation(p.ev) : rows' = out.rows
    BY <1>2 DEF Evaluate
  <2>1. lastUp' = Len(rows) /\ \A i \in DOMAIN rows : rows'[i].st = "resolved"
    BY <1>2, UpEffect DEF Evaluate
  <2>2. \A i \in 1..lastUp' : ~IsOpen(rows'[i])
    BY <1>0, <2>1 DEF IsOpen, Announced
  <2>3. lastUp' \in 0..Len(rows')
    BY <1>0, <2>1
  <2> QED BY <2>2, <2>3 DEF UpClosesAll, IsOpen
<1>3. UNCHANGED lastUp \/ \E p \in posts : Evaluate(p) /\ p.ev.new = "up"
  <2>1. CASE \E p \in posts : Evaluate(p)
    BY <2>1 DEF Evaluate
  <2>2. CASE UNCHANGED vars
    BY <2>2 DEF vars
  <2>3. CASE \E p \in posts : SendPlanned(p)
    BY <2>3 DEF SendPlanned
  <2>4. CASE \E i \in DOMAIN rows : Acknowledge(i) \/ ResolveByHand(i)
    BY <2>4 DEF Acknowledge, ResolveByHand
  <2>5. CASE \E w \in Workers, i \in DOMAIN rows : HoldRead(w, i) \/ EscalationRead(w, i) \/ SnoozeRead(w, i)
    BY <2>5 DEF HoldRead, EscalationRead, SnoozeRead
  <2>6. CASE \E w \in Workers : Sweep(w) \/ SnoozeUnsaved(w)
    BY <2>6 DEF Sweep, SweepSends, HoldCancel, HoldConfirm, EscalationStep, EscalationClose, SnoozeClear, SnoozeUnsaved
  <2>7. CASE (\E new \in Statuses : Move(new)) \/ SensorOffline \/ Post \/ PostTimesOut \/ Snooze \/ Unsnooze \/ SilenceEnds \/ Crash
    BY <2>7 DEF Move, SensorOffline, Post, PostTimesOut, Snooze, Unsnooze, SilenceEnds, Crash
  <2> QED BY <2>1, <2>2, <2>3, <2>4, <2>5, <2>6, <2>7 DEF Next
<1> QED BY <1>1, <1>2, <1>3

(* A sweep's hold on its row survives what others do. *)
LEMMA HandStays ==
    ASSUME Types, RowsInv, [Next]_vars, NEW w \in Workers, UNCHANGED work[w]
    PROVE  InHand(w)'
BY RowsAfter DEF RowsInv, InHand, Later, WasTold

LEMMA ReadHand ==
    ASSUME Types, RowsInv, NEW w \in Workers, NEW i \in DOMAIN rows, HoldRead(w, i) \/ EscalationRead(w, i) \/ SnoozeRead(w, i)
    PROVE  /\ InHand(w)' /\ \A v \in Workers \ {w} : UNCHANGED work[v]
           /\ work'[w].kind \in {"hold", "escalate", "snooze"} /\ work'[w].id = i
           /\ work'[w].kind = "hold" => work'[w] = [kind |-> "hold", id |-> i, now |-> status]
           /\ work'[w].kind = "escalate" => work'[w] = [kind |-> "escalate", id |-> i, seen |-> Seen(rows[i])]
           /\ work'[w].kind = "snooze" => work'[w] = [kind |-> "snooze", id |-> i]
           /\ UNCHANGED <<status, moves, waiting, posts, rows, silence, sent, again, lastUp>>
<1> USE DEF Types, RowsInv
<1>0. rows[i] \in Row /\ Sane(rows[i])
  BY RowsDomain
<1>1. CASE HoldRead(w, i)
  <2>1. work'[w] = [kind |-> "hold", id |-> i, now |-> status] /\ \A v \in Workers \ {w} : UNCHANGED work[v]
    BY <1>1 DEF HoldRead, Becomes
  <2>2. UNCHANGED rows
    BY <1>1 DEF HoldRead
  <2> QED BY <1>1, <2>1, <2>2 DEF InHand, HoldRead
<1>2. CASE EscalationRead(w, i)
  <2>1. work'[w] = [kind |-> "escalate", id |-> i, seen |-> Seen(rows[i])] /\ \A v \in Workers \ {w} : UNCHANGED work[v]
    BY <1>2 DEF EscalationRead, Becomes
  <2>2. UNCHANGED rows
    BY <1>2 DEF EscalationRead
  <2>7. /\ work'[w].kind = "escalate" /\ work'[w].id = i
        /\ work'[w].seen.st = rows[i].st /\ work'[w].seen.told = rows[i].told
        /\ work'[w].seen.level = rows[i].level /\ (work'[w].seen.closed <=> rows[i].closed)
    BY <2>1 DEF Seen
  <2>8. /\ ~work'[w].seen.closed
        /\ \/ work'[w].seen.st = "active" /\ (work'[w].seen.told \in {"yes", "absent"} => rows[i].told = "yes")
           \/ work'[w].seen.st = "resolved" /\ rows[i].st = "resolved" /\ work'[w].seen.level > 0
    <3>1. CASE rows[i].st = "active"
      <4>1. rows[i].told # "absent" /\ ~rows[i].closed
        BY <1>0, <3>1 DEF Sane
      <4> QED BY <2>7, <3>1, <4>1
    <3>2. CASE rows[i].st = "resolved" /\ rows[i].level > 0 /\ ~rows[i].closed
      BY <2>7, <3>2
    <3> QED BY <1>2, <3>1, <3>2 DEF EscalationRead, Escalates
  <2>5. InHand(w)'
    BY <2>2, <2>7, <2>8 DEF InHand, WasTold
  <2>6. UNCHANGED <<status, moves, waiting, posts, rows, silence, sent, again, lastUp>>
    BY <1>2 DEF EscalationRead
  <2> QED BY <2>1, <2>5, <2>6
<1>3. CASE SnoozeRead(w, i)
  <2>1. work'[w] = [kind |-> "snooze", id |-> i] /\ \A v \in Workers \ {w} : UNCHANGED work[v]
    BY <1>3 DEF SnoozeRead, Becomes
  <2>2. UNCHANGED rows
    BY <1>3 DEF SnoozeRead
  <2> QED BY <1>3, <2>1, <2>2 DEF InHand, SnoozeRead
<1> QED BY <1>1, <1>2, <1>3

(* What a sweep takes on: nothing, what it read, or a notification, of the *)
(* row it holds, that the step leaves to be sent.                          *)
Plans(w, plan) ==
    \/ work[w].kind = "hold" /\ plan = Notice(work[w].id, "trigger")
    \/ work[w].kind = "escalate" /\ work[w].seen.st = "active" /\ \E s \in Steps : plan = [Notice(work[w].id, "level") EXCEPT !.step = s]
    \/ work[w].kind = "escalate" /\ work[w].seen.st = "resolved" /\ \E what \in {"all_clear", "closure"} : plan = Notice(work[w].id, what)

LEMMA SweepHand ==
    ASSUME Types, NEW w \in Workers, Sweep(w)
    PROVE  /\ \A v \in Workers \ {w} : UNCHANGED work[v]
           /\ work' \in [Workers -> {work[v] : v \in Workers} \cup {work'[w]}]
           /\ work[w].kind # "idle"
           /\ work'[w] = Idle \/ \E plan : Plans(w, plan) /\ work'[w] = Sending(plan)
<1>0. \A x : Becomes(w, x) => work'[w] = x /\ (\A v \in Workers \ {w} : UNCHANGED work[v])
                              /\ work' \in [Workers -> {work[v] : v \in Workers} \cup {work'[w]}]
  BY DEF Becomes, Types
<1>1. CASE SweepSends(w)
  BY <1>0, <1>1 DEF SweepSends
<1>2. CASE HoldCancel(w)
  BY <1>0, <1>2 DEF HoldCancel
<1>3. CASE HoldConfirm(w)
  <2>1. Becomes(w, Idle) \/ Becomes(w, Sending(Notice(work[w].id, "trigger")))
    BY <1>3 DEF HoldConfirm
  <2> QED BY <1>0, <1>3, <2>1 DEF HoldConfirm, Plans
<1>4. CASE EscalationStep(w)
  <2>1. Becomes(w, Idle) \/ \E s \in Steps : Becomes(w, Sending([Notice(work[w].id, "level") EXCEPT !.step = s]))
    BY <1>4 DEF EscalationStep, Due
  <2>2. CASE Becomes(w, Idle)
    BY <1>0, <1>4, <2>2 DEF EscalationStep
  <2>3. ASSUME NEW s \in Steps, Becomes(w, Sending([Notice(work[w].id, "level") EXCEPT !.step = s]))
        PROVE  \E plan : Plans(w, plan) /\ Becomes(w, Sending(plan))
    BY <1>4, <2>3 DEF EscalationStep, Plans
  <2>4. CASE \E plan : Plans(w, plan) /\ Becomes(w, Sending(plan))
    BY <1>0, <1>4, <2>4 DEF EscalationStep
  <2> QED BY <2>1, <2>2, <2>3, <2>4
<1>5. CASE EscalationClose(w)
  <2>1. Becomes(w, Idle) \/ \E what \in {"all_clear", "closure"} : Becomes(w, Sending(Notice(work[w].id, what)))
    BY <1>5, Zenon DEF EscalationClose
  <2> QED BY <1>0, <1>5, <2>1 DEF EscalationClose, Plans
<1>6. CASE SnoozeClear(w)
  BY <1>0, <1>6 DEF SnoozeClear
<1> QED BY <1>1, <1>2, <1>3, <1>4, <1>5, <1>6 DEF Sweep

LEMMA UnsavedHand ==
    ASSUME Types, NEW w \in Workers, SnoozeUnsaved(w)
    PROVE  /\ work[w].kind = "snooze" /\ work'[w] = Idle /\ \A v \in Workers \ {w} : UNCHANGED work[v]
           /\ UNCHANGED <<posts, rows>>
           /\ used'.snoozes = used.snoozes /\ used'.crashed = used.crashed
           /\ used'.unsaved = used.unsaved \cup {work[w].id}
           /\ SendOut(Notice(work[w].id, "reminder")) /\ rows[work[w].id].stamp
<1>1. /\ work[w].kind = "snooze" /\ Becomes(w, Idle) /\ UNCHANGED <<posts, rows>>
      /\ used' = [used EXCEPT !.unsaved = @ \cup {work[w].id}]
      /\ SendOut(Notice(work[w].id, "reminder")) /\ rows[work[w].id].stamp
  BY DEF SnoozeUnsaved
<1>2. work'[w] = Idle /\ \A v \in Workers \ {w} : UNCHANGED work[v]
  BY <1>1 DEF Becomes, Types
<1>3. /\ used'.snoozes = used.snoozes /\ used'.crashed = used.crashed
      /\ used'.unsaved = used.unsaved \cup {work[w].id}
  BY <1>1 DEF Types
<1> QED BY <1>1, <1>2, <1>3

LEMMA RowsStep ==
    ASSUME Types, RowsInv, [Next]_vars
    PROVE  RowsInv'
<1>1. \A i \in DOMAIN rows' : Sane(rows'[i])
  BY RowsAfter
<1>2. ASSUME NEW v \in Workers PROVE InHand(v)'
  <2>1. CASE UNCHANGED work[v]
    BY <2>1, HandStays
  <2>2. CASE \E w \in Workers, i \in DOMAIN rows : HoldRead(w, i) \/ EscalationRead(w, i) \/ SnoozeRead(w, i)
    BY <2>1, <2>2, ReadHand
  <2>3. ASSUME NEW w \in Workers, Sweep(w) PROVE InHand(v)'
    <3>1. CASE v # w
      BY <2>1, <2>3, <3>1, SweepHand
    <3>2. CASE v = w
      <4>1. work'[w].kind \in {"idle", "send"}
        <5>1. \A plan : Idle.kind = "idle" /\ Sending(plan).kind = "send"
          BY DEF Idle, Sending
        <5> QED BY <2>3, <5>1, SweepHand
      <4> QED BY <3>2, <4>1 DEF InHand
    <3> QED BY <3>1, <3>2
  <2>9. ASSUME NEW w \in Workers, SnoozeUnsaved(w) PROVE InHand(v)'
    <3>1. CASE v # w
      BY <2>1, <2>9, <3>1, UnsavedHand
    <3>2. CASE v = w
      BY <2>9, <3>2, UnsavedHand DEF InHand, Idle
    <3> QED BY <3>1, <3>2
  <2>4. CASE Crash
    BY <2>4 DEF Crash, InHand, Idle
  <2>5. CASE UNCHANGED vars
    BY <2>1, <2>5 DEF vars
  <2>6. CASE \E p \in posts : Evaluate(p) \/ SendPlanned(p)
    BY <2>1, <2>6 DEF Evaluate, SendPlanned
  <2>7. CASE \E i \in DOMAIN rows : Acknowledge(i) \/ ResolveByHand(i)
    BY <2>1, <2>7 DEF Acknowledge, ResolveByHand
  <2>8. CASE (\E new \in Statuses : Move(new)) \/ SensorOffline \/ Post \/ PostTimesOut \/ Snooze \/ Unsnooze \/ SilenceEnds
    BY <2>1, <2>8 DEF Move, SensorOffline, Post, PostTimesOut, Snooze, Unsnooze, SilenceEnds
  <2> QED BY <2>2, <2>3, <2>4, <2>5, <2>6, <2>7, <2>8, <2>9 DEF Next
<1>3. OneOpenAlert' /\ UpClosesAll'
  BY RowsAfter, UpStays
<1> QED BY <1>1, <1>2, <1>3 DEF RowsInv, InHand, Sane

(***************************************************************************)
(* Types, and room for the rows.                                           *)
(***************************************************************************)
LEMMA RoomFacts ==
    ASSUME Types, Room
    PROVE  /\ Len(rows) \in Nat /\ DOMAIN rows = 1..Len(rows) /\ DOMAIN rows \subseteq 1..MaxMoves
           /\ Len(moves) \in Nat /\ IsFiniteSet(Asked) /\ Cardinality(Asked) \in Nat
           /\ \A p \in Asked : Cardinality(Asked \ {p}) = Cardinality(Asked) - 1 /\ Len(rows) + 1 \in 1..MaxMoves
           /\ moves # <<>> => used.moves - Len(moves) + 1 \in 1..MaxMoves
           /\ NoPlan \notin Pages /\ MaxMoves \in Nat /\ used.moves \in 0..MaxMoves
<1>1. Len(rows) \in Nat /\ DOMAIN rows = 1..Len(rows) /\ Len(moves) \in Nat /\ MaxMoves \in Nat /\ used.moves \in 0..MaxMoves
  BY RowsDomain, DeviceAlertsAssumption DEF Types
<1>2. IsFiniteSet(Asked) /\ Cardinality(Asked) \in Nat
  BY FS_Subset, FS_CardinalityType DEF Asked, Room
<1>3. ASSUME NEW p \in Asked
      PROVE  Cardinality(Asked \ {p}) = Cardinality(Asked) - 1 /\ Len(rows) + 1 \in 1..MaxMoves
  <2>1. Cardinality(Asked \ {p}) = Cardinality(Asked) - 1 /\ Cardinality(Asked \ {p}) \in Nat
    BY <1>2, FS_RemoveElement, FS_CardinalityType
  <2> QED BY <1>1, <1>2, <2>1 DEF Room
<1>4. moves # <<>> => Len(moves) > 0
  BY DEF Types
<1>5. NoPlan \notin Pages
  BY DEF NoPlan, Notice, Pages, Notices
<1>6. Len(rows) + Cardinality(Asked) + Len(moves) <= used.moves
  BY DEF Room
<1> QED BY <1>1, <1>2, <1>3, <1>4, <1>5, <1>6

LEMMA NoticeType ==
    ASSUME NEW i \in 1..MaxMoves
    PROVE  /\ \A what \in {"trigger", "recovery", "all_clear", "closure"} : Notice(i, what) \in Pages
           /\ Notice(i, "reminder") \in Notices
           /\ \A what : Notice(i, what).id = i /\ Notice(i, what).what = what /\ Notice(i, what).step = <<0, 0>>
           /\ \A s \in Steps : /\ [Notice(i, "level") EXCEPT !.step = s] \in Pages
                               /\ [Notice(i, "level") EXCEPT !.step = s].id = i
                               /\ [Notice(i, "level") EXCEPT !.step = s].what = "level"
                               /\ [Notice(i, "level") EXCEPT !.step = s].step = s
<1>1. \A s \in Steps : [Notice(i, "level") EXCEPT !.step = s] = [id |-> i, what |-> "level", step |-> s]
  BY DEF Notice
<1>2. \A s \in Steps : /\ [Notice(i, "level") EXCEPT !.step = s] \in Pages
                       /\ [Notice(i, "level") EXCEPT !.step = s].id = i
                       /\ [Notice(i, "level") EXCEPT !.step = s].what = "level"
                       /\ [Notice(i, "level") EXCEPT !.step = s].step = s
  BY <1>1 DEF Pages, Notices, Whats
<1>3. \A what \in Whats : Notice(i, what) \in Notices
  BY DEF Notice, Notices
<1>4. \A what : Notice(i, what).id = i /\ Notice(i, what).what = what /\ Notice(i, what).step = <<0, 0>>
  BY DEF Notice
<1>5. \A what \in {"trigger", "recovery", "all_clear", "closure"} : Notice(i, what) \in Pages
  BY <1>3, <1>4 DEF Pages, Whats
<1> QED BY <1>2, <1>3, <1>4, <1>5 DEF Whats

LEMMA PlansType ==
    ASSUME Types, Room, RowsInv, NEW w \in Workers, NEW plan, Plans(w, plan)
    PROVE  plan \in Pages /\ plan.id = work[w].id /\ work[w].id \in DOMAIN rows
<1>1. work[w].id \in DOMAIN rows /\ work[w].id \in 1..MaxMoves
  BY RoomFacts DEF Plans, RowsInv, InHand
<1> PICK i \in 1..MaxMoves : i = work[w].id
  BY <1>1
<1>2. CASE plan = Notice(i, "trigger")
  BY <1>1, <1>2, NoticeType
<1>3. ASSUME NEW s \in Steps, plan = [Notice(i, "level") EXCEPT !.step = s]
      PROVE  plan \in Pages /\ plan.id = i
  BY <1>3, NoticeType
<1>4. ASSUME NEW what \in {"all_clear", "closure"}, plan = Notice(i, what)
      PROVE  plan \in Pages /\ plan.id = i
  BY <1>4, NoticeType
<1> QED BY <1>1, <1>2, <1>3, <1>4 DEF Plans

(* What an evaluation does to the posts. *)
LEMMA EvaluatePosts ==
    ASSUME Types, Room, RowsInv, NEW p \in posts, Evaluate(p)
    PROVE  /\ p \in Asked /\ UNCHANGED <<status, moves, silence, work, sent, again, used>>
           /\ \/ posts' = posts \ {p} /\ waiting' = Answered(p.n)
              \/ \E plan \in Pages :
                   /\ posts' = (posts \ {p}) \cup {[p EXCEPT !.plan = plan]} /\ UNCHANGED waiting
                   /\ \/ plan = Notice(Len(rows) + 1, "trigger")
                         /\ \E mid, row : Adds(mid, row) /\ rows' = Append(mid, row) /\ row.told = "yes"
                      \/ \E i \in DOMAIN rows : /\ plan = Notice(i, "recovery") /\ rows[i].st \in Announced
                                                /\ rows[i].told = "yes" /\ rows'[i].st = "resolved" /\ Changed(rows')
<1>0. p.plan = NoPlan /\ p \in Asked /\ UNCHANGED <<status, moves, silence, work, sent, again, used>>
  BY DEF Evaluate, Asked
<1> PICK out \in Evaluation(p.ev) :
      /\ rows' = out.rows
      /\ IF out.plan = NoPlan
         THEN posts' = posts \ {p} /\ waiting' = Answered(p.n)
         ELSE posts' = (posts \ {p}) \cup {[p EXCEPT !.plan = out.plan]} /\ UNCHANGED waiting
  BY DEF Evaluate
<1>1. CASE out.plan = NoPlan
  BY <1>0, <1>1
<1>2. CASE out.plan # NoPlan /\ p.ev.new = "up"
  <2>1. PICK i \in DOMAIN rows : out.plan = Notice(i, "recovery") /\ rows[i].st \in Announced /\ rows[i].told = "yes"
    BY <1>2, UpEffect
  <2>2. rows'[i].st = "resolved" /\ Changed(rows')
    BY <1>2, UpEffect
  <2>3. out.plan \in Pages
    BY <2>1, RoomFacts, NoticeType
  <2> QED BY <1>0, <1>2, <2>1, <2>2, <2>3
<1>3. CASE out.plan # NoPlan /\ p.ev.new # "up"
  <2>1. out \in TriggerOutcomes(rows, p.ev.new) /\ p.ev.new \in Trouble
    BY <1>3 DEF Evaluation, Transition, Statuses, Types, Outcome
  <2>2. /\ out.plan = Notice(Len(rows) + 1, "trigger")
        /\ \E mid, row : Adds(mid, row) /\ rows' = Append(mid, row) /\ row.told = "yes"
    BY <1>3, <2>1, TriggerEffect
  <2>3. out.plan \in Pages
    <3>1. Len(rows) + 1 \in 1..MaxMoves
      BY <1>0, RoomFacts
    <3> QED BY <2>2, <3>1, NoticeType
  <2> QED BY <1>0, <1>3, <2>2, <2>3
<1> QED BY <1>1, <1>2, <1>3

LEMMA RoomStep ==
    ASSUME Types, Room, RowsInv, [Next]_vars
    PROVE  Room'
<1>0. /\ Len(rows) \in Nat /\ Len(moves) \in Nat /\ Cardinality(Asked) \in Nat /\ used.moves \in Nat
      /\ Len(rows) + Cardinality(Asked) + Len(moves) <= used.moves /\ IsFiniteSet(posts) /\ IsFiniteSet(Asked)
  BY RoomFacts DEF Room
<1>1. ASSUME NEW p \in posts, Evaluate(p) PROVE Room'
  <2>1. p \in Asked /\ UNCHANGED <<moves, used>>
    BY <1>1, EvaluatePosts
  <2>2. Asked' = Asked \ {p} /\ IsFiniteSet(posts')
    <3>1. CASE posts' = posts \ {p}
      BY <1>0, <3>1, FS_RemoveElement DEF Asked
    <3>2. ASSUME NEW plan \in Pages, posts' = (posts \ {p}) \cup {[p EXCEPT !.plan = plan]}
          PROVE  Asked' = Asked \ {p} /\ IsFiniteSet(posts')
      <4>1. [p EXCEPT !.plan = plan].plan # NoPlan
        <5>1. p \in [n : 1..MaxMoves, ev : Transition, plan : Pages \cup {NoPlan}]
          BY DEF Types
        <5>2. [p EXCEPT !.plan = plan].plan = plan
          BY <5>1
        <5> QED BY <5>2, RoomFacts
      <4>2. IsFiniteSet(posts')
        BY <1>0, <3>2, FS_RemoveElement, FS_AddElement
      <4> QED BY <3>2, <4>1, <4>2 DEF Asked
    <3> QED BY <1>1, <3>1, <3>2, EvaluatePosts
  <2>3. Len(rows') <= Len(rows) + 1 /\ Len(rows') \in Nat
    <3>1. ASSUME NEW mid, NEW row, Adds(mid, row), rows' = Append(mid, row) PROVE Len(rows') = Len(rows) + 1
      BY <3>1, Appended DEF Types
    <3>2. ASSUME NEW i, NEW told, Confirms(i, told, rows') PROVE Len(rows') = Len(rows)
      BY <3>2 DEF Confirms
    <3>3. Changed(rows') => Len(rows') = Len(rows)
      BY DEF Changed
    <3>4. Len(rows') = Len(rows) \/ Len(rows') = Len(rows) + 1
      BY <3>1, <3>2, <3>3, Effects
    <3> QED BY <1>0, <3>4
  <2>4. Cardinality(Asked') = Cardinality(Asked) - 1
    BY <2>1, <2>2, RoomFacts
  <2> QED BY <1>0, <2>1, <2>2, <2>3, <2>4 DEF Room
<1>2. ASSUME \A p \in posts : ~Evaluate(p) PROVE Len(rows') = Len(rows)
  BY <1>2, Effects DEF Changed, Confirms
<1>3. ASSUME UNCHANGED moves, used'.moves = used.moves, posts' \subseteq posts, \A p \in posts : ~Evaluate(p) PROVE Room'
  <2>1. IsFiniteSet(posts') /\ Asked' \subseteq Asked
    BY <1>0, <1>3, FS_Subset DEF Asked
  <2>2. Cardinality(Asked') <= Cardinality(Asked) /\ Cardinality(Asked') \in Nat
    BY <1>0, <2>1, FS_Subset, FS_CardinalityType
  <2> QED BY <1>0, <1>2, <1>3, <2>1, <2>2 DEF Room
<1>4. ASSUME NEW new \in Statuses, Move(new), \A p \in posts : ~Evaluate(p) PROVE Room'
  <2>1. Len(moves') = Len(moves) + 1 /\ used'.moves = used.moves + 1 /\ UNCHANGED posts
    BY <1>4 DEF Move, Types
  <2>2. Asked' = Asked
    BY <2>1 DEF Asked
  <2> QED BY <1>0, <1>2, <1>4, <2>1, <2>2 DEF Room
<1>5. ASSUME Post, \A p \in posts : ~Evaluate(p) PROVE Room'
  <2>1. Len(moves') = Len(moves) - 1 /\ UNCHANGED used
    BY <1>5 DEF Post, Types
  <2> DEFINE p == [n |-> waiting', ev |-> Head(moves), plan |-> NoPlan]
  <2>2. posts' = posts \cup {p}
    BY <1>5 DEF Post
  <2> HIDE DEF p
  <2>3. IsFiniteSet(posts') /\ Asked' \subseteq Asked \cup {p}
    BY <1>0, <2>2, FS_AddElement DEF Asked
  <2>4. IsFiniteSet(Asked \cup {p}) /\ Cardinality(Asked \cup {p}) <= Cardinality(Asked) + 1
    <3>1. /\ IsFiniteSet(Asked \cup {p})
          /\ Cardinality(Asked \cup {p}) = IF p \in Asked THEN Cardinality(Asked) ELSE Cardinality(Asked) + 1
      BY <1>0, FS_AddElement
    <3> QED BY <1>0, <3>1
  <2>5. Cardinality(Asked') <= Cardinality(Asked \cup {p}) /\ Cardinality(Asked') \in Nat /\ Cardinality(Asked \cup {p}) \in Nat
    BY <2>3, <2>4, FS_Subset, FS_CardinalityType
  <2> QED BY <1>0, <1>2, <1>5, <2>1, <2>3, <2>4, <2>5 DEF Room
<1>6. \/ \E p \in posts : Evaluate(p)
      \/ \E new \in Statuses : Move(new)
      \/ Post
      \/ UNCHANGED moves /\ used'.moves = used.moves /\ posts' \subseteq posts
  <2>1. CASE SensorOffline \/ PostTimesOut \/ Snooze \/ Unsnooze \/ SilenceEnds \/ Crash \/ UNCHANGED vars
    BY <2>1 DEF SensorOffline, PostTimesOut, Snooze, Unsnooze, SilenceEnds, Crash, vars, Types
  <2>2. CASE (\E p \in posts : SendPlanned(p)) \/ \E i \in DOMAIN rows : Acknowledge(i) \/ ResolveByHand(i)
    BY <2>2 DEF SendPlanned, Acknowledge, ResolveByHand
  <2>3. CASE \E w \in Workers, i \in DOMAIN rows : HoldRead(w, i) \/ EscalationRead(w, i) \/ SnoozeRead(w, i)
    BY <2>3 DEF HoldRead, EscalationRead, SnoozeRead, Types
  <2>4. CASE \E w \in Workers : Sweep(w) \/ SnoozeUnsaved(w)
    BY <2>4 DEF Sweep, SweepSends, HoldCancel, HoldConfirm, EscalationStep, EscalationClose, SnoozeClear,
                SnoozeUnsaved, Types
  <2> QED BY <2>1, <2>2, <2>3, <2>4 DEF Next
<1> QED BY <1>1, <1>3, <1>4, <1>5, <1>6

LEMMA HandTypes ==
    ASSUME NEW i \in 1..MaxMoves
    PROVE  /\ Idle \in Hand
           /\ \A plan \in Pages : Sending(plan) \in Hand
           /\ \A now \in Statuses \cup {"unknown"} : [kind |-> "hold", id |-> i, now |-> now] \in Hand
           /\ \A r \in Row : [kind |-> "escalate", id |-> i, seen |-> Seen(r)] \in Hand
           /\ [kind |-> "snooze", id |-> i] \in Hand
<1>1. Idle \in Hand
  BY DEF Hand
<1>2. ASSUME NEW plan \in Pages PROVE Sending(plan) \in Hand
  BY DEF Hand, Sending
<1>3. ASSUME NEW now \in Statuses \cup {"unknown"} PROVE [kind |-> "hold", id |-> i, now |-> now] \in Hand
  BY DEF Hand
<1>4. ASSUME NEW r \in Row PROVE [kind |-> "escalate", id |-> i, seen |-> Seen(r)] \in Hand
  <2>1. Seen(r) \in SeenRow
    BY DEF Seen, SeenRow, Row
  <2> QED BY <2>1 DEF Hand
<1>5. [kind |-> "snooze", id |-> i] \in Hand
  BY DEF Hand
<1> QED BY <1>1, <1>2, <1>3, <1>4, <1>5

(* How the notices that were attempted grow. *)
LEMMA SentStep ==
    ASSUME Types, Room, RowsInv, Next
    PROVE  /\ sent \subseteq sent' /\ sent' \subseteq Notices /\ again' \subseteq sent'
           /\ UNCHANGED <<sent, again>> \/ \E n \in Notices : SendOut(n)
<1>1. UNCHANGED <<sent, again>> \/ \E n \in Notices : SendOut(n)
  <2>1. ASSUME NEW p \in posts, SendPlanned(p) PROVE \E n \in Notices : SendOut(n)
    BY <2>1 DEF SendPlanned, Types, Pages
  <2>2. ASSUME NEW w \in Workers, SweepSends(w) PROVE \E n \in Notices : SendOut(n)
    <3>1. work[w] \in Hand
      BY DEF Types
    <3> QED BY <2>2, <3>1, HandFields DEF SweepSends, Pages
  <2>3. ASSUME NEW w \in Workers, SnoozeClear(w) PROVE UNCHANGED <<sent, again>> \/ \E n \in Notices : SendOut(n)
    <3>1. work[w].id \in 1..MaxMoves
      BY <2>3, RoomFacts DEF SnoozeClear, RowsInv, InHand
    <3>2. Notice(work[w].id, "reminder") \in Notices
      BY <3>1, NoticeType
    <3> QED BY <2>3, <3>2 DEF SnoozeClear
  <2>9. ASSUME NEW w \in Workers, SnoozeUnsaved(w) PROVE \E n \in Notices : SendOut(n)
    <3>1. work[w].id \in 1..MaxMoves
      BY <2>9, RoomFacts DEF SnoozeUnsaved, RowsInv, InHand
    <3>2. Notice(work[w].id, "reminder") \in Notices
      BY <3>1, NoticeType
    <3> QED BY <2>9, <3>2 DEF SnoozeUnsaved
  <2>4. ASSUME NEW w \in Workers, Sweep(w) PROVE UNCHANGED <<sent, again>> \/ \E n \in Notices : SendOut(n)
    <3>1. CASE HoldCancel(w) \/ HoldConfirm(w) \/ EscalationStep(w) \/ EscalationClose(w)
      BY <3>1 DEF HoldCancel, HoldConfirm, EscalationStep, EscalationClose
    <3> QED BY <2>2, <2>3, <2>4, <3>1 DEF Sweep
  <2>5. CASE \E p \in posts : Evaluate(p)
    BY <2>5 DEF Evaluate
  <2>6. CASE \E w \in Workers, i \in DOMAIN rows : HoldRead(w, i) \/ EscalationRead(w, i) \/ SnoozeRead(w, i)
    BY <2>6 DEF HoldRead, EscalationRead, SnoozeRead
  <2>7. CASE \E i \in DOMAIN rows : Acknowledge(i) \/ ResolveByHand(i)
    BY <2>7 DEF Acknowledge, ResolveByHand
  <2>8. CASE (\E new \in Statuses : Move(new)) \/ SensorOffline \/ Post \/ PostTimesOut \/ Snooze \/ Unsnooze \/ SilenceEnds \/ Crash
    BY <2>8 DEF Move, SensorOffline, Post, PostTimesOut, Snooze, Unsnooze, SilenceEnds, Crash
  <2> QED BY <2>1, <2>4, <2>5, <2>6, <2>7, <2>8, <2>9 DEF Next
<1> QED BY <1>1 DEF SendOut, Types

LEMMA PostsTypes ==
    ASSUME Types, Room, RowsInv, Next
    PROVE  /\ moves' \in Seq(Transition) /\ waiting' \in 0..MaxMoves
           /\ posts' \subseteq [n : 1..MaxMoves, ev : Transition, plan : Pages \cup {NoPlan}]
<1> USE DEF Types
<1>0. 0 \in 0..MaxMoves
  BY RoomFacts
<1>1. ASSUME NEW new \in Statuses, Move(new) PROVE moves' \in Seq(Transition)
  BY <1>1 DEF Move, Transition
<1>2. CASE Post
  <2>1. moves # <<>> /\ waiting' = used.moves - Len(moves) + 1
        /\ posts' = posts \cup {[n |-> waiting', ev |-> Head(moves), plan |-> NoPlan]} /\ moves' = Tail(moves)
    BY <1>2 DEF Post
  <2>2. waiting' \in 1..MaxMoves /\ Head(moves) \in Transition /\ Tail(moves) \in Seq(Transition)
    BY <2>1, RoomFacts, HeadTailProperties
  <2> QED BY <2>1, <2>2
<1>3. ASSUME NEW p \in posts, Evaluate(p) PROVE UNCHANGED moves /\ waiting' \in 0..MaxMoves
           /\ posts' \subseteq [n : 1..MaxMoves, ev : Transition, plan : Pages \cup {NoPlan}]
  <2>1. \A plan \in Pages : [p EXCEPT !.plan = plan] \in [n : 1..MaxMoves, ev : Transition, plan : Pages \cup {NoPlan}]
    OBVIOUS
  <2>2. UNCHANGED moves
    BY <1>3, EvaluatePosts
  <2>3. CASE posts' = posts \ {p} /\ waiting' = Answered(p.n)
    BY <1>0, <2>2, <2>3 DEF Answered
  <2>4. CASE \E plan \in Pages : posts' = (posts \ {p}) \cup {[p EXCEPT !.plan = plan]} /\ UNCHANGED waiting
    BY <2>1, <2>2, <2>4
  <2> QED BY <1>3, <2>3, <2>4, EvaluatePosts
<1>4. ASSUME NEW p \in posts, SendPlanned(p) PROVE UNCHANGED moves /\ waiting' \in 0..MaxMoves /\ posts' \subseteq posts
  BY <1>0, <1>4 DEF SendPlanned, Answered
<1>5. CASE UNCHANGED moves /\ (waiting' = waiting \/ waiting' = 0) /\ posts' \subseteq posts
  BY <1>0, <1>5
<1>6. CASE (\E w \in Workers, i \in DOMAIN rows : HoldRead(w, i) \/ EscalationRead(w, i) \/ SnoozeRead(w, i))
           \/ \E w \in Workers : Sweep(w) \/ SnoozeUnsaved(w)
  BY <1>5, <1>6 DEF HoldRead, EscalationRead, SnoozeRead, Sweep, SweepSends, HoldCancel, HoldConfirm, EscalationStep,
                    EscalationClose, SnoozeClear, SnoozeUnsaved
<1>7. CASE (\E i \in DOMAIN rows : Acknowledge(i) \/ ResolveByHand(i)) \/ SensorOffline \/ PostTimesOut \/ Snooze
           \/ Unsnooze \/ SilenceEnds \/ Crash
  BY <1>5, <1>7 DEF Acknowledge, ResolveByHand, SensorOffline, PostTimesOut, Snooze, Unsnooze, SilenceEnds, Crash
<1>8. CASE \E new \in Statuses : Move(new)
  BY <1>1, <1>8 DEF Move
<1> QED BY <1>2, <1>3, <1>4, <1>5, <1>6, <1>7, <1>8 DEF Next

LEMMA WorkTypes ==
    ASSUME Types, Room, RowsInv, Next
    PROVE  work' \in [Workers -> Hand]
<1> USE DEF Types
<1>1. \A w \in Workers : \A x \in Hand : Becomes(w, x) => work' \in [Workers -> Hand]
  BY DEF Becomes
<1>2. Idle \in Hand
  BY DEF Hand
<1>3. ASSUME NEW w \in Workers, NEW i \in DOMAIN rows, HoldRead(w, i) \/ EscalationRead(w, i) \/ SnoozeRead(w, i)
      PROVE  work' \in [Workers -> Hand]
  <2>1. i \in 1..MaxMoves /\ rows[i] \in Row
    BY RoomFacts, RowsDomain
  <2>2. [kind |-> "hold", id |-> i, now |-> status] \in Hand /\ [kind |-> "snooze", id |-> i] \in Hand
        /\ [kind |-> "escalate", id |-> i, seen |-> Seen(rows[i])] \in Hand
    BY <2>1, HandTypes
  <2> QED BY <1>1, <1>3, <2>2 DEF HoldRead, EscalationRead, SnoozeRead
<1>4. ASSUME NEW w \in Workers, Sweep(w) PROVE work' \in [Workers -> Hand]
  <2>1. work'[w] \in Hand
    <3>1. ASSUME NEW plan, Plans(w, plan) PROVE Sending(plan) \in Hand
      <4>1. plan \in Pages
        BY <3>1, PlansType
      <4> QED BY <4>1 DEF Hand, Sending
    <3> QED BY <1>2, <1>4, <3>1, SweepHand
  <2>2. work' \in [Workers -> {work[v] : v \in Workers} \cup {work'[w]}]
    BY <1>4, SweepHand
  <2> QED BY <2>1, <2>2
<1>5. CASE Crash \/ \E w \in Workers : SnoozeUnsaved(w)
  BY <1>1, <1>2, <1>5 DEF Crash, SnoozeUnsaved
<1>6. CASE (\E p \in posts : Evaluate(p) \/ SendPlanned(p)) \/ (\E i \in DOMAIN rows : Acknowledge(i) \/ ResolveByHand(i))
  BY <1>6 DEF Evaluate, SendPlanned, Acknowledge, ResolveByHand
<1>7. CASE (\E new \in Statuses : Move(new)) \/ SensorOffline \/ Post \/ PostTimesOut \/ Snooze \/ Unsnooze \/ SilenceEnds
  BY <1>7 DEF Move, SensorOffline, Post, PostTimesOut, Snooze, Unsnooze, SilenceEnds
<1> QED BY <1>3, <1>4, <1>5, <1>6, <1>7 DEF Next

LEMMA UsedTypes ==
    ASSUME NEW n \in Nat, NEW u \in [moves : 0..n, upsets : Nat, snoozes : Nat, unsaved : SUBSET Nat, crashed : BOOLEAN, split : BOOLEAN]
    PROVE  LET U == [moves : 0..n, upsets : Nat, snoozes : Nat, unsaved : SUBSET Nat, crashed : BOOLEAN, split : BOOLEAN] IN
           /\ u.moves < n => [u EXCEPT !.moves = @ + 1] \in U
           /\ [u EXCEPT !.upsets = @ + 1] \in U
           /\ [u EXCEPT !.upsets = @ + 1, !.snoozes = @ + 1] \in U
           /\ [u EXCEPT !.upsets = @ + 1, !.crashed = TRUE] \in U
           /\ [u EXCEPT !.upsets = @ + 1, !.split = TRUE] \in U
           /\ \A i \in Nat : [u EXCEPT !.unsaved = @ \cup {i}] \in U
<1>1. u.moves < n => [u EXCEPT !.moves = @ + 1] \in [moves : 0..n, upsets : Nat, snoozes : Nat, unsaved : SUBSET Nat, crashed : BOOLEAN, split : BOOLEAN]
  OBVIOUS
<1>2. [u EXCEPT !.upsets = @ + 1] \in [moves : 0..n, upsets : Nat, snoozes : Nat, unsaved : SUBSET Nat, crashed : BOOLEAN, split : BOOLEAN]
  OBVIOUS
<1>3. [u EXCEPT !.upsets = @ + 1, !.snoozes = @ + 1] \in [moves : 0..n, upsets : Nat, snoozes : Nat, unsaved : SUBSET Nat, crashed : BOOLEAN, split : BOOLEAN]
  <2>1. \A a \in Nat, b \in Nat : [u EXCEPT !.upsets = a, !.snoozes = b] \in [moves : 0..n, upsets : Nat, snoozes : Nat, unsaved : SUBSET Nat, crashed : BOOLEAN, split : BOOLEAN]
    OBVIOUS
  <2>2. u.upsets + 1 \in Nat /\ u.snoozes + 1 \in Nat
    OBVIOUS
  <2> QED BY <2>1, <2>2
<1>4. [u EXCEPT !.upsets = @ + 1, !.crashed = TRUE] \in [moves : 0..n, upsets : Nat, snoozes : Nat, unsaved : SUBSET Nat, crashed : BOOLEAN, split : BOOLEAN]
  <2>1. \A a \in Nat, b \in BOOLEAN : [u EXCEPT !.upsets = a, !.crashed = b] \in [moves : 0..n, upsets : Nat, snoozes : Nat, unsaved : SUBSET Nat, crashed : BOOLEAN, split : BOOLEAN]
    OBVIOUS
  <2>2. u.upsets + 1 \in Nat /\ u.snoozes + 1 \in Nat
    OBVIOUS
  <2> QED BY <2>1, <2>2
<1>5. [u EXCEPT !.upsets = @ + 1, !.split = TRUE] \in [moves : 0..n, upsets : Nat, snoozes : Nat, unsaved : SUBSET Nat, crashed : BOOLEAN, split : BOOLEAN]
  <2>1. \A a \in Nat, b \in BOOLEAN : [u EXCEPT !.upsets = a, !.split = b] \in [moves : 0..n, upsets : Nat, snoozes : Nat, unsaved : SUBSET Nat, crashed : BOOLEAN, split : BOOLEAN]
    OBVIOUS
  <2>2. u.upsets + 1 \in Nat /\ u.snoozes + 1 \in Nat
    OBVIOUS
  <2> QED BY <2>1, <2>2
<1>6. ASSUME NEW i \in Nat
      PROVE  [u EXCEPT !.unsaved = @ \cup {i}] \in [moves : 0..n, upsets : Nat, snoozes : Nat, unsaved : SUBSET Nat, crashed : BOOLEAN, split : BOOLEAN]
  <2>1. \A b \in SUBSET Nat : [u EXCEPT !.unsaved = b] \in [moves : 0..n, upsets : Nat, snoozes : Nat, unsaved : SUBSET Nat, crashed : BOOLEAN, split : BOOLEAN]
    OBVIOUS
  <2>2. u.unsaved \cup {i} \in SUBSET Nat
    OBVIOUS
  <2> QED BY <2>1, <2>2
<1> QED BY <1>1, <1>2, <1>3, <1>4, <1>5, <1>6

LEMMA RestTypes ==
    ASSUME Types, RowsInv, Next
    PROVE  /\ status' \in Statuses \cup {"unknown"} /\ silence' \in BOOLEAN
           /\ used' \in [moves : 0..MaxMoves, upsets : Nat, snoozes : Nat, unsaved : SUBSET Nat, crashed : BOOLEAN, split : BOOLEAN]
<1> USE DEF Types
<1> DEFINE U == [moves : 0..MaxMoves, upsets : Nat, snoozes : Nat, unsaved : SUBSET Nat, crashed : BOOLEAN, split : BOOLEAN]
<1>0. /\ used \in U
      /\ used.moves < MaxMoves => [used EXCEPT !.moves = @ + 1] \in U
      /\ [used EXCEPT !.upsets = @ + 1] \in U
      /\ [used EXCEPT !.upsets = @ + 1, !.snoozes = @ + 1] \in U
      /\ [used EXCEPT !.upsets = @ + 1, !.crashed = TRUE] \in U
      /\ [used EXCEPT !.upsets = @ + 1, !.split = TRUE] \in U
      /\ \A i \in Nat : [used EXCEPT !.unsaved = @ \cup {i}] \in U
  BY UsedTypes, DeviceAlertsAssumption
<1> SUFFICES status' \in Statuses \cup {"unknown"} /\ silence' \in BOOLEAN /\ used' \in U
  OBVIOUS
<1> HIDE DEF U
<1>1. CASE (\E new \in Statuses : Move(new)) \/ SensorOffline
  BY <1>0, <1>1 DEF Move, SensorOffline
<1>2. CASE Post \/ PostTimesOut \/ Snooze \/ Unsnooze \/ SilenceEnds \/ Crash
  BY <1>0, <1>2 DEF Post, PostTimesOut, Snooze, Unsnooze, SilenceEnds, Crash
<1>3. CASE \E w \in Workers, i \in DOMAIN rows : HoldRead(w, i) \/ EscalationRead(w, i) \/ SnoozeRead(w, i)
  BY <1>0, <1>3 DEF HoldRead, EscalationRead, SnoozeRead
<1>4. CASE \E w \in Workers : Sweep(w)
  BY <1>0, <1>4 DEF Sweep, SweepSends, HoldCancel, HoldConfirm, EscalationStep, EscalationClose, SnoozeClear
<1>5. CASE (\E p \in posts : Evaluate(p) \/ SendPlanned(p)) \/ (\E i \in DOMAIN rows : Acknowledge(i) \/ ResolveByHand(i))
  BY <1>0, <1>5 DEF Evaluate, SendPlanned, Acknowledge, ResolveByHand
<1>6. ASSUME NEW w \in Workers, SnoozeUnsaved(w)
      PROVE  status' \in Statuses \cup {"unknown"} /\ silence' \in BOOLEAN /\ used' \in U
  <2>1. work[w].id \in Nat
    BY <1>6, RowsDomain DEF SnoozeUnsaved, RowsInv, InHand
  <2> QED BY <1>0, <1>6, <2>1 DEF SnoozeUnsaved
<1> QED BY <1>1, <1>2, <1>3, <1>4, <1>5, <1>6 DEF Next

LEMMA TypesStep ==
    ASSUME Types, Room, RowsInv, [Next]_vars
    PROVE  Types'
<1>1. rows' \in Seq(Row) /\ lastUp' \in 0..Len(rows')
  BY RowsAfter, UpStays
<1>2. CASE Next
  BY <1>1, <1>2, SentStep, PostsTypes, WorkTypes, RestTypes DEF Types
<1>3. CASE UNCHANGED vars
  BY <1>3 DEF vars, Types
<1> QED BY <1>2, <1>3

(***************************************************************************)
(* The notifications: each one is new when it is planned.                  *)
(***************************************************************************)
Fresh(plan) == plan \in Pages /\ ~Marked(plan) /\ Marked(plan)'

LEMMA MarkedStays ==
    ASSUME Types, RowsInv, [Next]_vars, NEW n \in Pages, Marked(n)
    PROVE  Marked(n)'
<1>1. n.id \in DOMAIN rows /\ n.id \in DOMAIN rows' /\ Later(rows[n.id], rows'[n.id])
  BY RowsAfter DEF Marked
<1>2. rows[n.id] \in Row /\ rows'[n.id] \in Row
  BY <1>1, RowsDomain, RowsAfter, LenProperties DEF Types
<1>3. n.step[1] \in Nat /\ n.step[2] \in Nat
  BY DeviceAlertsAssumption DEF Pages, Notices, Steps
<1> DEFINE r == rows[n.id]  q == rows'[n.id]
<1>4. r.level \in Nat /\ q.level \in Nat /\ r.repeats \in Nat /\ q.repeats \in Nat
  BY <1>2, LaterType
<1>5. Later(r, q) /\ Marks(r, n)
  BY <1>1 DEF Marked
<1> HIDE DEF r, q
<1>6. AtLeast(r, n.step) => AtLeast(q, n.step)
  BY <1>3, <1>4, <1>5 DEF AtLeast, Later
<1>7. Marks(q, n)
  BY <1>5, <1>6 DEF Marks, Later
<1> QED BY <1>1, <1>7 DEF Marked, Marks, AtLeast, q

LEMMA EvaluateFresh ==
    ASSUME Types, Room, RowsInv, NEW p \in posts, Evaluate(p)
    PROVE  \/ posts' = posts \ {p}
           \/ \E plan : Fresh(plan) /\ posts' = (posts \ {p}) \cup {[p EXCEPT !.plan = plan]}
<1>1. ASSUME NEW plan \in Pages, NEW mid, NEW row, plan = Notice(Len(rows) + 1, "trigger"),
             Adds(mid, row), rows' = Append(mid, row), row.told = "yes"
      PROVE  Fresh(plan)
  <2> DEFINE k == Len(rows) + 1
  <2>1. k \notin DOMAIN rows /\ k \in DOMAIN rows' /\ rows'[k] = row
    BY <1>1, Appended DEF Types
  <2>2. plan.id = k /\ plan.what = "trigger"
    BY <1>1 DEF Notice
  <2> HIDE DEF k
  <2>3. Marked(plan)'
    BY <1>1, <2>1, <2>2 DEF Marked, Marks
  <2> QED BY <1>1, <2>1, <2>2, <2>3 DEF Fresh, Marked
<1>2. ASSUME NEW plan \in Pages, NEW i \in DOMAIN rows, plan = Notice(i, "recovery"), rows[i].st \in Announced,
             rows[i].told = "yes", rows'[i].st = "resolved", Changed(rows')
      PROVE  Fresh(plan)
  <2>1. plan.id = i /\ plan.what = "recovery"
    BY <1>2 DEF Notice
  <2>2. i \in DOMAIN rows' /\ rows'[i].told = "yes"
    <3>1. Len(rows') = Len(rows) /\ rows' \in Seq(Row) /\ Keeps(rows[i], rows'[i])
      BY <1>2 DEF Changed
    <3>2. DOMAIN rows' = DOMAIN rows
      BY <3>1, RowsDomain DEF Types
    <3> QED BY <1>2, <3>1, <3>2 DEF Keeps
  <2>3. Marked(plan)'
    BY <1>2, <2>1, <2>2 DEF Marked, Marks
  <2>4. ~Marked(plan)
    BY <1>2, <2>1 DEF Marked, Marks, Announced
  <2> QED BY <2>3, <2>4 DEF Fresh
<1> QED BY <1>1, <1>2, EvaluatePosts

LEMMA StepAhead ==
    ASSUME NEW r, NEW q, NEW s, r.level \in Nat, r.repeats \in Nat, s[1] \in Nat, s[2] \in Nat,
           r.level < s[1] \/ (r.level = s[1] /\ s[2] = r.repeats + 1), q.level = s[1], q.repeats = s[2]
    PROVE  AtLeast(q, s) /\ ~AtLeast(r, s)
BY DEF AtLeast

LEMMA SweepFresh ==
    ASSUME Types, Room, RowsInv, NEW w \in Workers, Sweep(w), NEW plan, work'[w] = Sending(plan)
    PROVE  Fresh(plan) /\ work[w].kind # "send" /\ UNCHANGED <<posts, sent, again, used>>
<1> USE DEF Types
<1>0. /\ work[w] \in Hand /\ InHand(w) /\ work \in [Workers -> Hand]
      /\ \A x : Sending(x) # Idle /\ \A y : Sending(x) = Sending(y) => x = y
      /\ \A x : Becomes(w, x) => work'[w] = x
  BY DEF RowsInv, Sending, Idle, Becomes
<1> DEFINE i == work[w].id
<1>1. CASE HoldConfirm(w)
  <2>1. Settles(i)
    BY <1>0, <1>1 DEF HoldConfirm
  <2>2. PICK told \in Tolds :
          /\ Confirms(i, told, rows')
          /\ work' = [work EXCEPT ![w] = IF told = "yes" THEN Sending(Notice(i, "trigger")) ELSE Idle]
    BY <1>1, <2>1, ConfirmEffect
  <2>3. told = "yes" /\ plan = Notice(i, "trigger")
    BY <1>0, <2>2
  <2>4. i \in DOMAIN rows /\ rows[i].st = "pending" /\ rows[i] \in Row /\ Sane(rows[i]) /\ rows' \in Seq(Row) /\ Len(rows') = Len(rows)
        /\ rows'[i] = [rows[i] EXCEPT !.st = "active", !.told = told]
    BY <2>2, RowsDomain DEF Confirms, RowsInv
  <2>5. rows'[i].told = "yes" /\ rows[i].told = "no" /\ i \in DOMAIN rows'
    <3>1. [rows[i] EXCEPT !.st = "active", !.told = told].told = told
      BY <2>2, <2>4, ConfirmedRow
    <3>2. i \in DOMAIN rows'
      BY <2>4, RowsDomain
    <3> QED BY <2>3, <2>4, <3>1, <3>2 DEF Sane
  <2>6. plan.id = i /\ plan.what = "trigger" /\ plan \in Pages
    <3>1. i \in 1..MaxMoves
      BY <2>4, RoomFacts
    <3> QED BY <2>3, <3>1, NoticeType
  <2>7. Marked(plan)' /\ ~Marked(plan)
    BY <2>5, <2>6 DEF Marked, Marks
  <2> QED BY <1>1, <2>6, <2>7 DEF Fresh, HoldConfirm
<1>2. CASE EscalationStep(w)
  <2> DEFINE seen == work[w].seen
  <2>1. PICK s \in Due(seen) :
          /\ WasTold(seen) /\ StateIsStill(i, seen)
          /\ rows' = [rows EXCEPT ![i].level = s[1], ![i].repeats = s[2], ![i].closed = FALSE]
          /\ plan = [Notice(i, "level") EXCEPT !.step = s]
    BY <1>0, <1>2 DEF EscalationStep
  <2>2. i \in DOMAIN rows /\ rows[i] \in Row /\ seen \in SeenRow /\ rows[i].told = "yes" /\ ~seen.closed
    BY <1>0, <1>2, <2>1, RowsDomain, HandFields DEF EscalationStep, InHand
  <2>3. rows[i].level = seen.level /\ rows[i].repeats = seen.repeats /\ rows[i].closed = seen.closed
    BY <2>1 DEF StateIsStill, Escalation
  <2> DEFINE q == [rows[i] EXCEPT !.level = s[1], !.repeats = s[2], !.closed = FALSE]
  <2>4. rows' = [rows EXCEPT ![i] = q]
    BY <2>1
  <2>5. /\ s \in Steps /\ s[1] \in 1..Levels /\ s[2] \in 0..MaxRepeat
        /\ rows[i].level < s[1] \/ (rows[i].level = s[1] /\ s[2] = rows[i].repeats + 1)
    <3> HIDE DEF seen, i
    <3> QED BY <2>2, <2>3, DueStep
  <2>6. Keeps(rows[i], q) /\ q.level = s[1] /\ q.repeats = s[2]
    BY <2>2, <2>3, <2>5, Escalated
  <2> HIDE DEF q
  <2>7. rows'[i] = q /\ DOMAIN rows' = DOMAIN rows
    BY <2>2, <2>4
  <2>8. plan.id = i /\ plan.what = "level" /\ plan.step = s /\ plan \in Pages
    <3> PICK j \in 1..MaxMoves : j = i
      BY <2>2, RoomFacts
    <3> PICK t \in Steps : t = s
      BY <2>5
    <3> DEFINE page == [Notice(j, "level") EXCEPT !.step = t]
    <3>1. plan = page
      BY <2>1
    <3>2. page \in Pages /\ page.id = j /\ page.what = "level" /\ page.step = t
      BY NoticeType
    <3> HIDE DEF page
    <3> QED BY <3>1, <3>2
  <2>9. rows[i].level \in Nat /\ rows[i].repeats \in Nat /\ s[1] \in Nat /\ s[2] \in Nat
    <3>1. Levels \in Nat /\ MaxRepeat \in Nat /\ rows[i].level \in Nat /\ rows[i].repeats \in Nat
      BY <2>2, LaterType
    <3> QED BY <2>5, <3>1
  <2>10. AtLeast(q, s) /\ ~AtLeast(rows[i], s)
    BY <2>5, <2>6, <2>9, StepAhead
  <2>11. q.told = "yes"
    BY <2>2, <2>6 DEF Keeps
  <2>12. Marked(plan)'
    BY <2>2, <2>7, <2>8, <2>10, <2>11 DEF Marked, Marks, AtLeast
  <2>13. ~Marked(plan)
    BY <2>8, <2>10 DEF Marked, Marks
  <2> QED BY <1>2, <2>8, <2>12, <2>13 DEF Fresh, EscalationStep
<1>3. CASE EscalationClose(w)
  <2> DEFINE seen == work[w].seen
  <2>1. PICK what \in {"all_clear", "closure"} : plan = Notice(i, what)
    BY <1>0, <1>3, Zenon DEF EscalationClose
  <2>2. i \in DOMAIN rows /\ rows[i] \in Row /\ rows[i].st = "resolved" /\ ~seen.closed /\ seen.level > 0 /\ Sane(rows[i])
    BY <1>0, <1>3, RowsDomain DEF EscalationClose, InHand, RowsInv
  <2>3. StateIsStill(i, seen) /\ rows' = [rows EXCEPT ![i].closed = TRUE]
    BY <1>0, <1>3 DEF EscalationClose
  <2>4. rows[i].level = seen.level /\ rows[i].closed = seen.closed
    BY <2>3 DEF StateIsStill, Escalation
  <2> DEFINE q == [rows[i] EXCEPT !.closed = TRUE]
  <2>5. rows'[i] = q /\ DOMAIN rows' = DOMAIN rows
    BY <2>2, <2>3
  <2>6. q.closed /\ q.told = "yes"
    BY <2>2, <2>4, ToldOff DEF Keeps, Sane
  <2> HIDE DEF q
  <2>7. plan.id = i /\ plan.what = what /\ plan \in Pages
    <3>1. i \in 1..MaxMoves
      BY <2>2, RoomFacts
    <3> HIDE DEF i
    <3> QED BY <2>1, <3>1, NoticeType
  <2>8. Marked(plan)'
    BY <2>2, <2>5, <2>6, <2>7 DEF Marked, Marks
  <2>9. ~Marked(plan)
    BY <2>2, <2>4, <2>7 DEF Marked, Marks
  <2> QED BY <1>3, <2>7, <2>8, <2>9 DEF Fresh, EscalationClose
<1>4. CASE SweepSends(w) \/ HoldCancel(w) \/ SnoozeClear(w)
  <2>1. Becomes(w, Idle)
    BY <1>4 DEF SweepSends, HoldCancel, SnoozeClear
  <2> QED BY <1>0, <2>1
<1> QED BY <1>1, <1>2, <1>3, <1>4 DEF Sweep

(* What a step does to the notifications in flight: a dispatcher attempts  *)
(* one, drops its post, plans a fresh one, or restarts; or none of these.  *)
PostSends(p) ==
    /\ p.plan \in Pages /\ SendOut(p.plan) /\ posts' = posts \ {p}
    /\ UNCHANGED <<work, used, rows>>
WorkerSends(w) ==
    /\ work[w].kind = "send" /\ SendOut(work[w].plan) /\ work'[w] = Idle
    /\ \A v \in Workers \ {w} : UNCHANGED work[v]
    /\ UNCHANGED <<posts, used, rows>>
PostPlans(p) ==
    /\ p.plan = NoPlan
    /\ \/ posts' = posts \ {p}
       \/ \E plan : Fresh(plan) /\ posts' = (posts \ {p}) \cup {[p EXCEPT !.plan = plan]}
    /\ UNCHANGED <<work, used, sent, again>>
WorkerPlans(w) ==
    /\ work[w].kind # "send"
    /\ work'[w].kind # "send" \/ \E plan : Fresh(plan) /\ work'[w] = Sending(plan)
    /\ \A v \in Workers \ {w} : UNCHANGED work[v]
    /\ used'.snoozes = used.snoozes /\ used'.crashed = used.crashed /\ used'.unsaved = used.unsaved
    /\ UNCHANGED <<posts, sent, again>>
Reminds(w) ==
    /\ work[w].kind = "snooze" /\ work'[w] = Idle /\ (SnoozeClear(w) \/ SnoozeUnsaved(w))
    /\ \A v \in Workers \ {w} : UNCHANGED work[v]
    /\ used'.snoozes = used.snoozes /\ used'.crashed = used.crashed /\ used.unsaved \subseteq used'.unsaved
    /\ UNCHANGED posts
Restarts ==
    /\ posts' = {} /\ (\A w \in Workers : work'[w] = Idle) /\ UNCHANGED <<sent, again, rows>>
    /\ used'.snoozes = used.snoozes /\ used'.crashed /\ used'.unsaved = used.unsaved
Leaves ==
    /\ posts' = posts \/ \E p : p.plan = NoPlan /\ posts' = posts \cup {p}
    /\ used.snoozes <= used'.snoozes /\ used'.crashed = used.crashed /\ used'.unsaved = used.unsaved
    /\ UNCHANGED <<work, sent, again>>

LEMMA Flights ==
    ASSUME Types, Room, RowsInv, [Next]_vars
    PROVE  \/ \E p \in posts : PostSends(p) \/ PostPlans(p)
           \/ \E w \in Workers : WorkerSends(w) \/ WorkerPlans(w) \/ Reminds(w)
           \/ Restarts \/ Leaves
<1> USE DEF Types
<1>0. \A plan : Idle.kind = "idle" /\ Sending(plan).kind = "send" /\ Sending(plan).plan = plan
  BY DEF Idle, Sending
<1>1. ASSUME NEW p \in posts, SendPlanned(p) PROVE PostSends(p)
  BY <1>1 DEF SendPlanned, PostSends
<1>2. ASSUME NEW p \in posts, Evaluate(p) PROVE PostPlans(p)
  <2>1. p.plan = NoPlan /\ UNCHANGED <<work, used, sent, again>>
    BY <1>2 DEF Evaluate
  <2> QED BY <1>2, <2>1, EvaluateFresh DEF PostPlans
<1>3. ASSUME NEW w \in Workers, Sweep(w) PROVE WorkerSends(w) \/ WorkerPlans(w) \/ Reminds(w)
  <2>1. (\A v \in Workers \ {w} : UNCHANGED work[v]) /\ (work'[w] = Idle \/ \E plan : work'[w] = Sending(plan))
    BY <1>3, SweepHand
  <2>2. CASE SweepSends(w)
    <3>1. work'[w] = Idle
      BY <2>2 DEF SweepSends, Becomes
    <3> QED BY <2>1, <2>2, <3>1 DEF SweepSends, WorkerSends
  <2>3. CASE SnoozeClear(w)
    <3>1. work'[w] = Idle
      BY <2>3 DEF SnoozeClear, Becomes
    <3> QED BY <2>1, <2>3, <3>1 DEF SnoozeClear, Reminds
  <2>4. CASE HoldCancel(w) \/ HoldConfirm(w) \/ EscalationStep(w) \/ EscalationClose(w)
    <3>1. work[w].kind # "send" /\ UNCHANGED <<posts, sent, again, used>>
      BY <2>4 DEF HoldCancel, HoldConfirm, EscalationStep, EscalationClose
    <3>2. work'[w].kind # "send" \/ \E plan : Fresh(plan) /\ work'[w] = Sending(plan)
      BY <1>0, <1>3, <2>1, SweepFresh
    <3> QED BY <2>1, <3>1, <3>2 DEF WorkerPlans
  <2> QED BY <1>3, <2>2, <2>3, <2>4 DEF Sweep
<1>4. ASSUME NEW w \in Workers, NEW i \in DOMAIN rows, HoldRead(w, i) \/ EscalationRead(w, i) \/ SnoozeRead(w, i)
      PROVE  WorkerPlans(w)
  <2>1. work[w].kind # "send"
    BY <1>0, <1>4 DEF HoldRead, EscalationRead, SnoozeRead
  <2>2. used'.snoozes = used.snoozes /\ used'.crashed = used.crashed /\ used'.unsaved = used.unsaved
    BY <1>4 DEF HoldRead, EscalationRead, SnoozeRead
  <2>3. work'[w].kind # "send" /\ (\A v \in Workers \ {w} : UNCHANGED work[v]) /\ UNCHANGED <<posts, sent, again>>
    BY <1>4, ReadHand
  <2> QED BY <2>1, <2>2, <2>3 DEF WorkerPlans
<1>5. CASE Crash
  <2>1. used'.snoozes = used.snoozes /\ used'.crashed /\ used'.unsaved = used.unsaved
    BY <1>5 DEF Crash
  <2> QED BY <1>5, <2>1 DEF Crash, Restarts
<1>6. CASE Post
  <2>1. posts' = posts \cup {[n |-> waiting', ev |-> Head(moves), plan |-> NoPlan]}
    BY <1>6 DEF Post
  <2>2. \E p : p.plan = NoPlan /\ posts' = posts \cup {p}
    BY <2>1
  <2>3. used' = used /\ used.snoozes \in Nat
    BY <1>6 DEF Post, Types
  <2>4. used.snoozes <= used'.snoozes /\ used'.crashed = used.crashed /\ used'.unsaved = used.unsaved
    BY <2>3
  <2> QED BY <1>6, <2>2, <2>4 DEF Post, Leaves
<1>7. CASE (\E new \in Statuses : Move(new)) \/ SensorOffline \/ PostTimesOut \/ Unsnooze \/ SilenceEnds \/ UNCHANGED vars
  <2>1. used'.snoozes = used.snoozes /\ used'.crashed = used.crashed /\ used'.unsaved = used.unsaved
    BY <1>7 DEF Move, SensorOffline, PostTimesOut, Unsnooze, SilenceEnds, vars
  <2>2. UNCHANGED <<posts, work, sent, again>>
    BY <1>7 DEF Move, SensorOffline, PostTimesOut, Unsnooze, SilenceEnds, vars
  <2> QED BY <2>1, <2>2 DEF Leaves
<1>8. CASE Snooze
  <2>1. used'.snoozes = used.snoozes + 1 /\ used'.crashed = used.crashed /\ used'.unsaved = used.unsaved
    BY <1>8 DEF Snooze
  <2> QED BY <1>8, <2>1 DEF Snooze, Leaves
<1>9. CASE \E i \in DOMAIN rows : Acknowledge(i) \/ ResolveByHand(i)
  BY <1>9 DEF Acknowledge, ResolveByHand, Leaves
<1>10. ASSUME NEW w \in Workers, SnoozeUnsaved(w) PROVE Reminds(w)
  BY <1>10, UnsavedHand DEF Reminds
<1> QED BY <1>1, <1>2, <1>3, <1>4, <1>5, <1>6, <1>7, <1>8, <1>9, <1>10 DEF Next

(***************************************************************************)
(* The notices' invariant.                                                 *)
(***************************************************************************)
LEMMA MadeNext ==
    ASSUME Types, Room, RowsInv, [Next]_vars, NEW n \in Pages, Made(n)'
    PROVE  Made(n) \/ Fresh(n)
<1> USE DEF Types
<1>0. /\ Idle.kind = "idle" /\ \A plan : Sending(plan).kind = "send" /\ Sending(plan).plan = plan
      /\ \A m : SendOut(m) => sent' = sent \cup {m}
      /\ n # NoPlan
  BY RoomFacts DEF Idle, Sending, SendOut
<1>1. ASSUME NEW p \in posts, PostSends(p) PROVE Made(n)
  BY <1>0, <1>1 DEF PostSends, Made
<1>2. ASSUME NEW p \in posts, PostPlans(p) PROVE Made(n) \/ Fresh(n)
  <2>1. \A plan : [p EXCEPT !.plan = plan].plan = plan
    OBVIOUS
  <2> QED BY <1>2, <2>1 DEF PostPlans, Made
<1>3. ASSUME NEW w \in Workers, WorkerSends(w) PROVE Made(n)
  <2>1. work'[w] = Idle /\ work[w].kind = "send" /\ sent' = sent \cup {work[w].plan} /\ UNCHANGED posts
        /\ \A v \in Workers \ {w} : work'[v] = work[v]
    BY <1>0, <1>3 DEF WorkerSends
  <2>2. ASSUME NEW v \in Workers, work'[v].kind = "send", work'[v].plan = n PROVE Made(n)
    BY <1>0, <2>1, <2>2 DEF Made
  <2>3. CASE n \in sent'
    BY <2>1, <2>3 DEF Made
  <2> QED BY <2>1, <2>2, <2>3 DEF Made
<1>4. ASSUME NEW w \in Workers, WorkerPlans(w) PROVE Made(n) \/ Fresh(n)
  <2>1. UNCHANGED <<posts, sent>> /\ \A v \in Workers \ {w} : work'[v] = work[v]
    BY <1>4 DEF WorkerPlans
  <2>2. work'[w].kind = "send" /\ work'[w].plan = n => Fresh(n)
    BY <1>0, <1>4 DEF WorkerPlans
  <2>3. ASSUME NEW v \in Workers, work'[v].kind = "send", work'[v].plan = n PROVE Made(n) \/ Fresh(n)
    BY <2>1, <2>2, <2>3 DEF Made
  <2> QED BY <2>1, <2>3 DEF Made
<1>5. ASSUME NEW w \in Workers, Reminds(w) PROVE Made(n)
  <2>1. UNCHANGED posts /\ work'[w] = Idle /\ \A v \in Workers \ {w} : work'[v] = work[v]
    BY <1>5 DEF Reminds
  <2>2. sent' = sent \/ sent' = sent \cup {Notice(work[w].id, "reminder")}
    BY <1>0, <1>5, UnsavedHand DEF Reminds, SnoozeClear
  <2>3. n # Notice(work[w].id, "reminder")
    BY DEF Notice, Pages
  <2>4. ASSUME NEW v \in Workers, work'[v].kind = "send", work'[v].plan = n PROVE Made(n)
    BY <1>0, <2>1, <2>4 DEF Made
  <2> QED BY <2>1, <2>2, <2>3, <2>4 DEF Made
<1>6. CASE Restarts
  BY <1>0, <1>6 DEF Restarts, Made
<1>7. CASE Leaves
  BY <1>0, <1>7 DEF Leaves, Made
<1> QED BY <1>1, <1>2, <1>3, <1>4, <1>5, <1>6, <1>7, Flights

LEMMA MarkedStep ==
    ASSUME Types, Room, RowsInv, AllMarked, [Next]_vars
    PROVE  AllMarked'
<1>1. ASSUME NEW n \in Pages, Made(n)' PROVE Marked(n)'
  BY <1>1, MadeNext, MarkedStays DEF AllMarked, Fresh
<1> QED BY <1>1 DEF AllMarked

(* A page stays attempted, on its way, or lost to a restart. *)
LEMMA PagedStays ==
    ASSUME Types, Room, RowsInv, [Next]_vars, NEW id \in 1..MaxMoves, Paged(id)
    PROVE  Paged(id)'
<1> USE DEF Types
<1> DEFINE page == Notice(id, "trigger")
<1>0. /\ page \in Pages /\ page # NoPlan
      /\ Idle.kind = "idle" /\ (\A plan : Sending(plan).kind = "send" /\ Sending(plan).plan = plan)
      /\ \A m : SendOut(m) => sent' = sent \cup {m}
  BY NoticeType, RoomFacts DEF Idle, Sending, SendOut
<1> SUFFICES \/ page \in sent' \/ used'.crashed
             \/ \E p \in posts' : p.plan = page
             \/ \E w \in Workers : work'[w] = Sending(page)
  BY DEF Paged, Underway
<1>1. \/ page \in sent \/ used.crashed
      \/ \E p \in posts : p.plan = page
      \/ \E w \in Workers : work[w] = Sending(page)
  BY DEF Paged, Underway
<1> HIDE DEF page
<1>2. ASSUME NEW p \in posts, PostSends(p) PROVE \/ page \in sent' \/ used'.crashed
             \/ (\E q \in posts' : q.plan = page) \/ \E w \in Workers : work'[w] = Sending(page)
  BY <1>0, <1>1, <1>2 DEF PostSends
<1>3. ASSUME NEW p \in posts, PostPlans(p) PROVE \/ page \in sent' \/ used'.crashed
             \/ (\E q \in posts' : q.plan = page) \/ \E w \in Workers : work'[w] = Sending(page)
  BY <1>0, <1>1, <1>3 DEF PostPlans
<1>4. ASSUME NEW w \in Workers, WorkerSends(w) PROVE \/ page \in sent' \/ used'.crashed
             \/ (\E q \in posts' : q.plan = page) \/ \E v \in Workers : work'[v] = Sending(page)
  BY <1>0, <1>1, <1>4 DEF WorkerSends
<1>5. ASSUME NEW w \in Workers, WorkerPlans(w) PROVE \/ page \in sent' \/ used'.crashed
             \/ (\E q \in posts' : q.plan = page) \/ \E v \in Workers : work'[v] = Sending(page)
  BY <1>0, <1>1, <1>5 DEF WorkerPlans
<1>6. ASSUME NEW w \in Workers, Reminds(w) PROVE \/ page \in sent' \/ used'.crashed
             \/ (\E q \in posts' : q.plan = page) \/ \E v \in Workers : work'[v] = Sending(page)
  <2>1. sent \subseteq sent'
    BY <1>0, <1>6, UnsavedHand DEF Reminds, SnoozeClear
  <2> QED BY <1>0, <1>1, <1>6, <2>1 DEF Reminds
<1>7. CASE Restarts
  BY <1>7 DEF Restarts
<1>8. CASE Leaves
  BY <1>0, <1>1, <1>8 DEF Leaves
<1> QED BY <1>2, <1>3, <1>4, <1>5, <1>6, <1>7, <1>8, Flights

(* A row is told of when its page is planned. *)
LEMMA NewlyTold ==
    ASSUME Types, Room, RowsInv, [Next]_vars, NEW i \in DOMAIN rows', rows'[i].told = "yes"
    PROVE  (i \in DOMAIN rows /\ rows[i].told = "yes") \/ Paged(i)'
<1> USE DEF Types
<1>1. CASE Changed(rows')
  <2>1. DOMAIN rows' = DOMAIN rows
    <3>1. rows' \in Seq(Row) /\ Len(rows') = Len(rows)
      BY <1>1 DEF Changed
    <3> QED BY <3>1, LenProperties
  <2> QED BY <1>1, <2>1 DEF Changed, Keeps
<1>2. ASSUME NEW p \in posts, Evaluate(p), ~Changed(rows') PROVE (i \in DOMAIN rows /\ rows[i].told = "yes") \/ Paged(i)'
  <2> PICK out \in Evaluation(p.ev) :
        /\ rows' = out.rows
        /\ out.plan # NoPlan => posts' = (posts \ {p}) \cup {[p EXCEPT !.plan = out.plan]}
    BY <1>2 DEF Evaluate
  <2>1. out \in TriggerOutcomes(rows, p.ev.new) /\ p.ev.new \in Trouble
    BY <1>2, UpEffect, ChangedNot DEF Evaluation, Transition, Statuses, Outcome
  <2>2. PICK mid, row : /\ Adds(mid, row) /\ rows' = Append(mid, row)
                        /\ \/ row.told = "yes" /\ out.plan = Notice(Len(rows) + 1, "trigger")
                           \/ row.told # "yes" /\ out.plan = NoPlan
    BY <1>2, <2>1, TriggerEffect, ChangedNot
  <2> DEFINE k == Len(rows) + 1
  <2>3. /\ DOMAIN rows' = DOMAIN rows \cup {k} /\ rows'[k] = row /\ k \notin DOMAIN rows
        /\ \A j \in DOMAIN rows : rows'[j].told = rows[j].told
    <3>1. \A j \in DOMAIN rows : mid[j].told = rows[j].told
      BY <2>2 DEF Adds, Changed, Keeps
    <3> QED BY <2>2, <3>1, Appended
  <2>4. CASE i = k
    <3>1. out.plan = Notice(k, "trigger") /\ k \in 1..MaxMoves
      <4>1. p \in Asked
        BY <1>2, EvaluatePosts
      <4> QED BY <2>2, <2>3, <2>4, <4>1, RoomFacts
    <3>2. out.plan # NoPlan
      BY <3>1, NoticeType, RoomFacts
    <3>3. [p EXCEPT !.plan = out.plan].plan = out.plan
      OBVIOUS
    <3>4. \E q \in posts' : q.plan = Notice(k, "trigger")
      BY <3>1, <3>2, <3>3
    <3> HIDE DEF k
    <3> QED BY <2>4, <3>4 DEF Paged, Underway
  <2> QED BY <2>3, <2>4
<1>3. ASSUME NEW w \in Workers, HoldConfirm(w), Settles(work[w].id)
      PROVE  (i \in DOMAIN rows /\ rows[i].told = "yes") \/ Paged(i)'
  <2> PICK told \in Tolds :
        /\ Confirms(work[w].id, told, rows')
        /\ work' = [work EXCEPT ![w] = IF told = "yes" THEN Sending(Notice(work[w].id, "trigger")) ELSE Idle]
    BY <1>3, ConfirmEffect
  <2> PICK k : k = work[w].id
    OBVIOUS
  <2>1. /\ rows' \in Seq(Row) /\ Len(rows') = Len(rows) /\ k \in DOMAIN rows
        /\ rows'[k] = [rows[k] EXCEPT !.st = "active", !.told = told]
        /\ \A j \in DOMAIN rows \ {k} : Keeps(rows[j], rows'[j])
    BY DEF Confirms
  <2>2. DOMAIN rows' = DOMAIN rows
    BY <2>1, LenProperties
  <2>3. CASE i = k
    <3>1. rows[k] \in Row
      BY <2>1, RowsDomain
    <3>2. told = "yes"
      BY <2>1, <2>3, <3>1 DEF Row
    <3>3. work'[w] = Sending(Notice(k, "trigger"))
      BY <3>2
    <3> QED BY <2>3, <3>3 DEF Paged, Underway
  <2>4. CASE i # k
    BY <2>1, <2>2, <2>4 DEF Keeps
  <2> QED BY <2>3, <2>4
<1> QED BY <1>1, <1>2, <1>3, Effects

LEMMA PagedStep ==
    ASSUME Types, Room, RowsInv, AllPaged, [Next]_vars
    PROVE  AllPaged'
<1>1. ASSUME NEW i \in DOMAIN rows', rows'[i].told = "yes" PROVE Paged(i)'
  <2>1. i \in DOMAIN rows => i \in 1..MaxMoves
    BY RoomFacts
  <2> QED BY <1>1, <2>1, NewlyTold, PagedStays DEF AllPaged
<1> QED BY <1>1 DEF AllPaged

(* A fresh plan is in no other hand and was not attempted. *)
LEMMA OneHandStep ==
    ASSUME Types, Room, RowsInv, AllMarked, OneHand, [Next]_vars
    PROVE  OneHand'
<1> USE DEF Types
<1>0. /\ Idle.kind = "idle" /\ (\A plan : Sending(plan).kind = "send" /\ Sending(plan).plan = plan)
      /\ (\A m : SendOut(m) => sent' = sent \cup {m})
      /\ (\A w \in Workers : work[w].kind = "send" => work[w].plan \in Pages)
      /\ (\A n \in Pages : n \in Notices /\ n # NoPlan /\ \A id : n # Notice(id, "reminder"))
      /\ NoPlan \notin Notices
  <2>1. \A w \in Workers : work[w].kind = "send" => work[w].plan \in Pages
    BY HandFields
  <2>2. \A n \in Pages : n \in Notices /\ n # NoPlan /\ \A id : n # Notice(id, "reminder")
    BY RoomFacts DEF Pages, Notice
  <2>3. NoPlan \notin Notices
    BY DEF NoPlan, Notice, Notices
  <2> QED BY <2>1, <2>2, <2>3 DEF Idle, Sending, SendOut
<1>f. ASSUME NEW n, Fresh(n) PROVE ~Made(n) /\ n \in Pages
  BY <1>f DEF Fresh, AllMarked
<1>1. ASSUME NEW p \in posts, PostSends(p) PROVE OneHand'
  <2>1. p.plan \in Pages /\ sent' = sent \cup {p.plan} /\ posts' = posts \ {p} /\ UNCHANGED work
    BY <1>0, <1>1 DEF PostSends
  <2>a. \A p1, p2 \in posts' : p1.plan = p2.plan /\ p1.plan # NoPlan => p1 = p2
    BY <1>0, <2>1 DEF OneHand
  <2>b. \A v1, v2 \in Workers : work'[v1].kind = "send" /\ work'[v2].kind = "send" /\ work'[v1].plan = work'[v2].plan => v1 = v2
    BY <1>0, <2>1 DEF OneHand
  <2>c. \A p1 \in posts', v1 \in Workers : work'[v1].kind = "send" => work'[v1].plan # p1.plan
    BY <1>0, <2>1 DEF OneHand
  <2>d. (\A p1 \in posts' : p1.plan \notin sent') /\ \A v1 \in Workers : work'[v1].kind = "send" => work'[v1].plan \notin sent'
    BY <1>0, <2>1 DEF OneHand
  <2> QED BY <2>a, <2>b, <2>c, <2>d DEF OneHand
<1>2. ASSUME NEW p \in posts, PostPlans(p), posts' = posts \ {p} PROVE OneHand'
  BY <1>2 DEF PostPlans, OneHand
<1>3. ASSUME NEW p \in posts, PostPlans(p), NEW plan, Fresh(plan), posts' = (posts \ {p}) \cup {[p EXCEPT !.plan = plan]}
      PROVE  OneHand'
  <2>1. /\ UNCHANGED <<work, sent>> /\ [p EXCEPT !.plan = plan].plan = plan /\ plan \in Pages
        /\ plan \notin sent /\ (\A q \in posts : q.plan # plan)
        /\ \A w \in Workers : work[w].kind = "send" => work[w].plan # plan
    BY <1>3, <1>f DEF PostPlans, Made
  <2> PICK q : q = [p EXCEPT !.plan = plan] /\ q.plan = plan
    BY <2>1
  <2>2. posts' = (posts \ {p}) \cup {q}
    BY <1>3
  <2>a. \A p1, p2 \in posts' : p1.plan = p2.plan /\ p1.plan # NoPlan => p1 = p2
    BY <2>1, <2>2 DEF OneHand
  <2>b. \A v1, v2 \in Workers : work'[v1].kind = "send" /\ work'[v2].kind = "send" /\ work'[v1].plan = work'[v2].plan => v1 = v2
    BY <2>1, <2>2 DEF OneHand
  <2>c. \A p1 \in posts', v1 \in Workers : work'[v1].kind = "send" => work'[v1].plan # p1.plan
    BY <2>1, <2>2 DEF OneHand
  <2>d. (\A p1 \in posts' : p1.plan \notin sent') /\ \A v1 \in Workers : work'[v1].kind = "send" => work'[v1].plan \notin sent'
    BY <2>1, <2>2 DEF OneHand
  <2> QED BY <2>a, <2>b, <2>c, <2>d DEF OneHand
<1>4. ASSUME NEW w \in Workers, WorkerSends(w) PROVE OneHand'
  <2>1. /\ work[w].kind = "send" /\ sent' = sent \cup {work[w].plan} /\ work'[w].kind = "idle"
        /\ (\A v \in Workers \ {w} : work'[v] = work[v]) /\ UNCHANGED posts
    BY <1>0, <1>4 DEF WorkerSends
  <2>a. \A p1, p2 \in posts' : p1.plan = p2.plan /\ p1.plan # NoPlan => p1 = p2
    BY <1>0, <2>1 DEF OneHand
  <2>b. \A v1, v2 \in Workers : work'[v1].kind = "send" /\ work'[v2].kind = "send" /\ work'[v1].plan = work'[v2].plan => v1 = v2
    BY <1>0, <2>1 DEF OneHand
  <2>c. \A p1 \in posts', v1 \in Workers : work'[v1].kind = "send" => work'[v1].plan # p1.plan
    BY <1>0, <2>1 DEF OneHand
  <2>d. (\A p1 \in posts' : p1.plan \notin sent') /\ \A v1 \in Workers : work'[v1].kind = "send" => work'[v1].plan \notin sent'
    BY <1>0, <2>1 DEF OneHand
  <2> QED BY <2>a, <2>b, <2>c, <2>d DEF OneHand
<1>5. ASSUME NEW w \in Workers, WorkerPlans(w) PROVE OneHand'
  <2>1. (\A v \in Workers \ {w} : work'[v] = work[v]) /\ UNCHANGED <<posts, sent>>
    BY <1>5 DEF WorkerPlans
  <2>2. CASE work'[w].kind # "send"
    BY <2>1, <2>2 DEF OneHand
  <2>3. ASSUME NEW plan, Fresh(plan), work'[w] = Sending(plan) PROVE OneHand'
    <3>1. /\ plan \notin sent /\ (\A q \in posts : q.plan # plan) /\ work'[w].plan = plan
          /\ \A v \in Workers : work[v].kind = "send" => work[v].plan # plan
      BY <1>0, <1>f, <2>3 DEF Made
    <3> QED BY <2>1, <3>1 DEF OneHand
  <2> QED BY <1>5, <2>2, <2>3 DEF WorkerPlans
<1>6. ASSUME NEW w \in Workers, Reminds(w) PROVE OneHand'
  <2>1. /\ work'[w].kind = "idle" /\ (\A v \in Workers \ {w} : work'[v] = work[v]) /\ UNCHANGED posts
        /\ (sent' = sent \/ sent' = sent \cup {Notice(work[w].id, "reminder")})
    BY <1>0, <1>6, UnsavedHand DEF Reminds, SnoozeClear
  <2>2. \A p \in posts : p.plan # Notice(work[w].id, "reminder")
    <3>1. NoPlan # Notice(work[w].id, "reminder")
      BY DEF NoPlan, Notice
    <3> QED BY <1>0, <3>1
  <2> PICK reminder : reminder = Notice(work[w].id, "reminder")
    OBVIOUS
  <2>3. \A v \in Workers : work[v].kind = "send" => work[v].plan # reminder
    BY <1>0
  <2>4. sent' \subseteq sent \cup {reminder} /\ \A p \in posts : p.plan # reminder
    BY <2>1, <2>2
  <2>a. \A p1, p2 \in posts' : p1.plan = p2.plan /\ p1.plan # NoPlan => p1 = p2
    BY <2>1, <2>3, <2>4 DEF OneHand
  <2>b. \A v1, v2 \in Workers : work'[v1].kind = "send" /\ work'[v2].kind = "send" /\ work'[v1].plan = work'[v2].plan => v1 = v2
    BY <2>1, <2>3, <2>4 DEF OneHand
  <2>c. \A p1 \in posts', v1 \in Workers : work'[v1].kind = "send" => work'[v1].plan # p1.plan
    BY <2>1, <2>3, <2>4 DEF OneHand
  <2>d. (\A p1 \in posts' : p1.plan \notin sent') /\ \A v1 \in Workers : work'[v1].kind = "send" => work'[v1].plan \notin sent'
    BY <2>1, <2>3, <2>4 DEF OneHand
  <2> QED BY <2>a, <2>b, <2>c, <2>d DEF OneHand
<1>7. CASE Restarts
  BY <1>0, <1>7 DEF Restarts, OneHand
<1>8. CASE Leaves
  BY <1>0, <1>8 DEF Leaves, OneHand
<1>9. ASSUME NEW p \in posts, PostPlans(p) PROVE OneHand'
  BY <1>2, <1>3, <1>9 DEF PostPlans
<1> QED BY <1>1, <1>4, <1>5, <1>6, <1>7, <1>8, <1>9, Flights

LEMMA SnoozesGrow ==
    ASSUME Types, Room, RowsInv, [Next]_vars
    PROVE  /\ used.snoozes <= used'.snoozes /\ used.snoozes \in Nat /\ used'.snoozes \in Nat
           /\ used.unsaved \subseteq used'.unsaved
<1>1. used.snoozes \in Nat
  BY DEF Types
<1>2. used'.snoozes = used.snoozes \/ used.snoozes <= used'.snoozes
  BY Flights DEF PostSends, PostPlans, WorkerSends, WorkerPlans, Reminds, Restarts, Leaves
<1>3. used'.snoozes \in Nat
  BY TypesStep DEF Types
<1>4. used.unsaved \subseteq used'.unsaved
  BY Flights DEF PostSends, PostPlans, WorkerSends, WorkerPlans, Reminds, Restarts, Leaves
<1> QED BY <1>1, <1>2, <1>3, <1>4

(* Only a snooze puts a stamp on a row. *)
LEMMA StampStep ==
    ASSUME Types, Room, RowsInv, [Next]_vars, ~Snooze, NEW i \in DOMAIN rows', rows'[i].stamp
    PROVE  i \in DOMAIN rows /\ rows[i].stamp
<1> USE DEF Types
<1>0. DOMAIN rows = 1..Len(rows) /\ \A j \in DOMAIN rows : rows[j] \in Row
  BY RowsDomain
<1>1. ASSUME UNCHANGED rows PROVE i \in DOMAIN rows /\ rows[i].stamp
  BY <1>1
<1>2. ASSUME NEW qs, Changed(qs), rows' = qs, \A j \in DOMAIN rows : qs[j].stamp => rows[j].stamp
      PROVE  i \in DOMAIN rows /\ rows[i].stamp
  <2>1. DOMAIN rows' = DOMAIN rows
    BY <1>0, <1>2, LenProperties DEF Changed
  <2> QED BY <1>2, <2>1
<1>3. ASSUME NEW j \in DOMAIN rows, NEW q, rows' = [rows EXCEPT ![j] = q], q.stamp => rows[j].stamp
      PROVE  i \in DOMAIN rows /\ rows[i].stamp
  BY <1>3
<1>4. ASSUME NEW p \in posts, Evaluate(p) PROVE i \in DOMAIN rows /\ rows[i].stamp
  <2> PICK out \in Evaluation(p.ev) : rows' = out.rows
    BY <1>4 DEF Evaluate
  <2>1. CASE p.ev.new = "up"
    BY <1>2, <2>1, UpEffect
  <2>2. CASE p.ev.new # "up" /\ TriggerMatches(p.ev.new)
    <3>1. out \in TriggerOutcomes(rows, p.ev.new) /\ p.ev.new \in Trouble
      BY <2>2 DEF Evaluation, Transition, Statuses
    <3>2. ASSUME NEW mid, NEW row, Adds(mid, row), rows' = Append(mid, row) PROVE i \in DOMAIN rows /\ rows[i].stamp
      <4>1. /\ DOMAIN rows' = DOMAIN rows \cup {Len(rows) + 1} /\ rows'[Len(rows) + 1] = row
            /\ \A j \in DOMAIN rows : rows'[j] = mid[j]
        BY <3>2, Appended
      <4> QED BY <3>2, <4>1 DEF Adds
    <3> QED BY <1>1, <3>1, <3>2, TriggerEffect
  <2>3. CASE p.ev.new # "up" /\ ~TriggerMatches(p.ev.new)
    BY <1>1, <2>3 DEF Evaluation, Outcome
  <2> QED BY <2>1, <2>2, <2>3
<1>5. ASSUME NEW j \in DOMAIN rows, Acknowledge(j) \/ ResolveByHand(j) PROVE i \in DOMAIN rows /\ rows[i].stamp
  <2>1. /\ [rows[j] EXCEPT !.st = "acknowledged"].stamp = rows[j].stamp
        /\ [rows[j] EXCEPT !.st = "resolved", !.why = "manual"].stamp = rows[j].stamp
    BY <1>0 DEF Row
  <2>2. CASE Acknowledge(j)
    <3> DEFINE q == [rows[j] EXCEPT !.st = "acknowledged"]
    <3>1. rows' = [rows EXCEPT ![j] = q]
      BY <2>2 DEF Acknowledge
    <3> HIDE DEF q
    <3> QED BY <1>3, <2>1, <3>1 DEF q
  <2>3. CASE ResolveByHand(j)
    <3> DEFINE q == [rows[j] EXCEPT !.st = "resolved", !.why = "manual"]
    <3>1. rows' = [rows EXCEPT ![j] = q]
      BY <2>3 DEF ResolveByHand, Resolved
    <3> HIDE DEF q
    <3> QED BY <1>3, <2>1, <3>1 DEF q
  <2> QED BY <1>5, <2>2, <2>3
<1>6. CASE SensorOffline
  BY <1>2, <1>6, ChangedClose DEF SensorOffline, Reasons
<1>7. CASE Unsnooze
  BY <1>2, <1>7, ChangedStamp DEF Unsnooze
<1>8. ASSUME NEW w \in Workers, Sweep(w) PROVE i \in DOMAIN rows /\ rows[i].stamp
  <2> PICK j : j = work[w].id
    OBVIOUS
  <2>0. work[w].kind \in {"hold", "escalate", "snooze"} => j \in DOMAIN rows /\ rows[j] \in Row
    BY <1>0 DEF RowsInv, InHand
  <2>1. CASE HoldCancel(w)
    <3> DEFINE q == [rows[j] EXCEPT !.st = "resolved", !.why = "hold_cancelled"]
    <3>1. (rows' = rows \/ rows' = [rows EXCEPT ![j] = q]) /\ j \in DOMAIN rows /\ rows[j] \in Row
      BY <2>0, <2>1 DEF HoldCancel, Resolved
    <3>2. q.stamp = rows[j].stamp
      BY <3>1 DEF Row
    <3> HIDE DEF q
    <3> QED BY <1>1, <1>3, <3>1, <3>2
  <2>2. CASE HoldConfirm(w) /\ Settles(j)
    <3> PICK told \in Tolds : Confirms(j, told, rows')
      BY <2>2, ConfirmEffect
    <3>1. /\ rows' \in Seq(Row) /\ Len(rows') = Len(rows) /\ j \in DOMAIN rows
          /\ rows'[j] = [rows[j] EXCEPT !.st = "active", !.told = told]
          /\ \A k \in DOMAIN rows \ {j} : rows'[k].stamp = rows[k].stamp
      BY DEF Confirms
    <3>2. DOMAIN rows' = DOMAIN rows /\ rows'[j].stamp = rows[j].stamp
      <4>1. rows[j] \in Row
        BY <1>0, <3>1
      <4> QED BY <3>1, <4>1, LenProperties DEF Row
    <3> QED BY <3>1, <3>2
  <2>3. CASE HoldConfirm(w) /\ ~Settles(j)
    BY <1>1, <2>3 DEF HoldConfirm
  <2>4. CASE EscalationStep(w)
    <3>1. CASE UNCHANGED rows
      BY <1>1, <3>1
    <3>2. ASSUME NEW s, rows' = [rows EXCEPT ![j].level = s[1], ![j].repeats = s[2], ![j].closed = FALSE]
          PROVE  i \in DOMAIN rows /\ rows[i].stamp
      <4> DEFINE q == [rows[j] EXCEPT !.level = s[1], !.repeats = s[2], !.closed = FALSE]
      <4>1. rows' = [rows EXCEPT ![j] = q] /\ j \in DOMAIN rows /\ rows[j] \in Row
        BY <2>0, <2>4, <3>2 DEF EscalationStep
      <4>2. q.stamp = rows[j].stamp
        BY <4>1 DEF Row
      <4> HIDE DEF q
      <4> QED BY <1>3, <4>1, <4>2
    <3> QED BY <2>4, <3>1, <3>2 DEF EscalationStep
  <2>5. CASE EscalationClose(w)
    <3> DEFINE q == [rows[j] EXCEPT !.closed = TRUE]
    <3>1. (rows' = rows \/ rows' = [rows EXCEPT ![j] = q]) /\ j \in DOMAIN rows /\ rows[j] \in Row
      BY <2>0, <2>5 DEF EscalationClose
    <3>2. q.stamp = rows[j].stamp
      BY <3>1 DEF Row
    <3> HIDE DEF q
    <3> QED BY <1>1, <1>3, <3>1, <3>2
  <2>6. CASE SnoozeClear(w)
    <3> DEFINE q == [rows[j] EXCEPT !.stamp = FALSE]
    <3>1. (rows' = rows \/ rows' = [rows EXCEPT ![j] = q]) /\ j \in DOMAIN rows /\ rows[j] \in Row
      BY <2>0, <2>6 DEF SnoozeClear
    <3>2. ~q.stamp
      BY <3>1 DEF Row
    <3> HIDE DEF q
    <3> QED BY <1>1, <1>3, <3>1, <3>2
  <2>7. CASE SweepSends(w)
    BY <1>1, <2>7 DEF SweepSends
  <2> QED BY <1>8, <2>1, <2>2, <2>3, <2>4, <2>5, <2>6, <2>7 DEF Sweep
<1>9. CASE \E w \in Workers, j \in DOMAIN rows : HoldRead(w, j) \/ EscalationRead(w, j) \/ SnoozeRead(w, j)
  BY <1>1, <1>9 DEF HoldRead, EscalationRead, SnoozeRead
<1>10. CASE (\E new \in Statuses : Move(new)) \/ Post \/ PostTimesOut \/ SilenceEnds \/ Crash \/ UNCHANGED vars
            \/ (\E p \in posts : SendPlanned(p)) \/ \E w \in Workers : SnoozeUnsaved(w)
  BY <1>1, <1>10 DEF Move, Post, PostTimesOut, SilenceEnds, Crash, vars, SendPlanned, SnoozeUnsaved
<1> QED BY <1>4, <1>5, <1>6, <1>7, <1>8, <1>9, <1>10 DEF Next

(* An ended snooze is reminded of once: the reminder takes the stamp, or   *)
(* is known as one that did not.                                           *)
LEMMA ReminderFacts ==
    ASSUME Types, RowsInv, NEW w \in Workers, SnoozeClear(w) \/ SnoozeUnsaved(w), NEW i, i = work[w].id
    PROVE  /\ UNCHANGED <<sent, again>> \/ (SendOut(Notice(i, "reminder")) /\ rows[i].stamp)
           /\ i \in DOMAIN rows
           /\ rows[i].stamp => ~rows'[i].stamp \/ i \in used'.unsaved
           /\ Notice(i, "reminder").id = i /\ Notice(i, "reminder").what = "reminder"
<1>1. i \in DOMAIN rows /\ rows[i] \in Row
  BY RowsDomain DEF SnoozeClear, SnoozeUnsaved, RowsInv, InHand, Types
<1>2. CASE SnoozeClear(w) /\ rows[i].stamp
  <2> DEFINE q == [rows[i] EXCEPT !.stamp = FALSE]
  <2>1. rows' = [rows EXCEPT ![i] = q] /\ ((sent' = sent /\ again' = again) \/ SendOut(Notice(i, "reminder")))
    BY <1>2 DEF SnoozeClear
  <2>2. ~q.stamp
    BY <1>1 DEF Row
  <2> HIDE DEF q
  <2>3. ~rows'[i].stamp
    BY <1>1, <2>1, <2>2
  <2> QED BY <1>1, <1>2, <2>1, <2>3 DEF Notice
<1>3. CASE SnoozeClear(w) /\ ~rows[i].stamp
  BY <1>1, <1>3 DEF SnoozeClear, Notice
<1>4. CASE SnoozeUnsaved(w)
  BY <1>1, <1>4, UnsavedHand DEF Notice
<1> QED BY <1>2, <1>3, <1>4

LEMMA RemindedStep ==
    ASSUME Types, Room, RowsInv, Reminded, [Next]_vars
    PROVE  Reminded'
<1>0. /\ used.snoozes <= used'.snoozes /\ used.snoozes \in Nat /\ used'.snoozes \in Nat
      /\ used.unsaved \subseteq used'.unsaved
      /\ DOMAIN rows \subseteq DOMAIN rows'
  BY SnoozesGrow, RowsAfter
<1>1. Snooze => used'.snoozes = used.snoozes + 1
  BY DEF Snooze, Types
<1>2. ASSUME NEW i \in DOMAIN rows', rows'[i].stamp
      PROVE  used'.snoozes > 0 /\ (used.snoozes > 0 => used'.snoozes > 1 \/ (~Snooze /\ i \in DOMAIN rows /\ rows[i].stamp))
  <2>1. CASE Snooze
    BY <1>0, <1>1, <2>1
  <2>2. CASE ~Snooze
    <3>1. i \in DOMAIN rows /\ rows[i].stamp
      BY <1>2, <2>2, StampStep
    <3> QED BY <1>0, <2>2, <3>1 DEF Reminded
  <2> QED BY <2>1, <2>2
<1>3. ASSUME NEW n \in sent, n.what = "reminder"
      PROVE  /\ n.id \in DOMAIN rows' /\ used'.snoozes > 0
             /\ rows'[n.id].stamp => used'.snoozes > 1 \/ n.id \in used'.unsaved
  <2>1. /\ n.id \in DOMAIN rows /\ used.snoozes > 0
        /\ rows[n.id].stamp => used.snoozes > 1 \/ n.id \in used.unsaved
    BY <1>3 DEF Reminded
  <2> QED BY <1>0, <1>2, <2>1
<1>4. ASSUME NEW n \in sent', n \notin sent, n.what = "reminder"
      PROVE  /\ n.id \in DOMAIN rows' /\ used'.snoozes > 0
             /\ rows'[n.id].stamp => used'.snoozes > 1 \/ n.id \in used'.unsaved
  <2>1. PICK w \in Workers : Reminds(w)
    <3>1. ASSUME NEW p \in posts, PostSends(p) PROVE FALSE
      BY <1>4, <3>1 DEF PostSends, SendOut, Pages
    <3>2. ASSUME NEW w \in Workers, WorkerSends(w) PROVE FALSE
      <4>1. work[w].plan \in Pages
        BY <3>2, HandFields DEF WorkerSends, Types
      <4> QED BY <1>4, <3>2, <4>1 DEF WorkerSends, SendOut, Pages
    <3> QED BY <1>4, <3>1, <3>2, Flights DEF PostPlans, WorkerPlans, Restarts, Leaves
  <2> PICK i : i = work[w].id
    OBVIOUS
  <2>2. SnoozeClear(w) \/ SnoozeUnsaved(w)
    BY <2>1 DEF Reminds
  <2>3. /\ UNCHANGED <<sent, again>> \/ (SendOut(Notice(i, "reminder")) /\ rows[i].stamp)
        /\ i \in DOMAIN rows /\ (rows[i].stamp => ~rows'[i].stamp \/ i \in used'.unsaved)
        /\ Notice(i, "reminder").id = i
    BY <2>2, ReminderFacts
  <2>4. n = Notice(i, "reminder") /\ rows[i].stamp
    BY <1>4, <2>3 DEF SendOut
  <2>5. used.snoozes > 0
    BY <2>3, <2>4 DEF Reminded
  <2> QED BY <1>0, <2>3, <2>4, <2>5
<1> QED BY <1>2, <1>3, <1>4 DEF Reminded

LEMMA TwiceStep ==
    ASSUME Types, Room, RowsInv, OneHand, Reminded, NeverTwice, [Next]_vars
    PROVE  NeverTwice'
<1>0. /\ used.snoozes <= used'.snoozes /\ used.snoozes \in Nat /\ used'.snoozes \in Nat
      /\ used.unsaved \subseteq used'.unsaved
  BY SnoozesGrow
<1>1. ASSUME NEW n \in again' PROVE n.what = "reminder" /\ (used'.snoozes > 1 \/ n.id \in used'.unsaved)
  <2>1. CASE n \in again
    BY <1>0, <2>1 DEF NeverTwice
  <2>2. CASE n \notin again
    <3>1. ASSUME NEW p \in posts, PostSends(p) PROVE FALSE
      BY <1>1, <2>2, <3>1 DEF PostSends, SendOut, OneHand
    <3>2. ASSUME NEW w \in Workers, WorkerSends(w) PROVE FALSE
      BY <1>1, <2>2, <3>2 DEF WorkerSends, SendOut, OneHand
    <3>3. PICK w \in Workers : Reminds(w)
      BY <1>1, <2>2, <3>1, <3>2, Flights DEF PostPlans, WorkerPlans, Restarts, Leaves
    <3> PICK i : i = work[w].id
      OBVIOUS
    <3>4. SnoozeClear(w) \/ SnoozeUnsaved(w)
      BY <3>3 DEF Reminds
    <3>5. /\ UNCHANGED <<sent, again>> \/ (SendOut(Notice(i, "reminder")) /\ rows[i].stamp)
          /\ Notice(i, "reminder").id = i /\ Notice(i, "reminder").what = "reminder"
      BY <3>4, ReminderFacts
    <3>6. n = Notice(i, "reminder") /\ rows[i].stamp /\ n \in sent
      BY <1>1, <2>2, <3>5 DEF SendOut
    <3> QED BY <1>0, <3>5, <3>6 DEF Reminded
  <2> QED BY <2>1, <2>2
<1> QED BY <1>1 DEF NeverTwice

-----------------------------------------------------------------------------
LEMMA InitIInv == Init => IInv
<1> SUFFICES ASSUME Init PROVE IInv
  OBVIOUS
<1>1. Idle \in Hand /\ Idle.kind = "idle" /\ \A plan : Idle # Sending(plan)
  BY DEF Hand, Idle, Sending
<1>2. rows = <<>> /\ DOMAIN rows = {} /\ Len(rows) = 0 /\ moves = <<>> /\ Len(moves) = 0
  BY DEF Init
<1>3. MaxMoves \in Nat
  BY DeviceAlertsAssumption
<1>4. used \in [moves : 0..MaxMoves, upsets : Nat, snoozes : Nat, unsaved : SUBSET Nat, crashed : BOOLEAN, split : BOOLEAN] /\ used.moves = 0
  BY <1>3 DEF Init
<1>5. Types
  <2>1. moves \in Seq(Transition) /\ rows \in Seq(Row) /\ waiting \in 0..MaxMoves /\ lastUp \in 0..Len(rows)
    BY <1>2, <1>3, EmptySeq DEF Init
  <2>2. work \in [Workers -> Hand] /\ posts = {} /\ sent = {} /\ again = {} /\ silence = FALSE /\ status = "up"
    BY <1>1 DEF Init
  <2> QED BY <1>4, <2>1, <2>2 DEF Types, Statuses
<1>6. Room
  <2>1. Asked = {} /\ posts = {}
    BY DEF Init, Asked
  <2> QED BY <1>2, <1>4, <2>1, FS_EmptySet DEF Room
<1>7. RowsInv
  BY <1>1, <1>2 DEF Init, RowsInv, InHand, OneOpenAlert, UpClosesAll
<1>8. AllMarked /\ AllPaged /\ OneHand /\ Reminded /\ NeverTwice
  BY <1>1, <1>2 DEF Init, AllMarked, AllPaged, OneHand, Reminded, NeverTwice, Made
<1> QED BY <1>5, <1>6, <1>7, <1>8 DEF IInv, NoticesInv

LEMMA StepIInv == IInv /\ [Next]_vars => IInv'
<1> SUFFICES ASSUME IInv, [Next]_vars PROVE IInv'
  OBVIOUS
<1> USE DEF IInv, NoticesInv
<1>1. Types' /\ Room' /\ RowsInv'
  BY TypesStep, RoomStep, RowsStep
<1>2. AllMarked' /\ AllPaged' /\ OneHand' /\ Reminded' /\ NeverTwice'
  BY MarkedStep, PagedStep, OneHandStep, RemindedStep, TwiceStep
<1> QED BY <1>1, <1>2

LEMMA Inductive == Spec => []IInv
<1> QED BY InitIInv, StepIInv, PTL DEF Spec

(* Type correctness: what the state variables may hold; rows and posts are *)
(* as many as there were status changes at most.                           *)
THEOREM TypeCorrect == Spec => []TypeOK
<1>1. IInv => TypeOK
  <2> SUFFICES ASSUME IInv PROVE TypeOK
    OBVIOUS
  <2>1. Len(moves) <= MaxMoves /\ Len(rows) <= MaxMoves
    BY RoomFacts DEF IInv, Room
  <2>2. \A w \in Workers : work[w].kind \in {"idle", "send", "hold", "escalate", "snooze"}
    BY HandFields DEF IInv, Types
  <2> QED BY <2>1, <2>2 DEF IInv, Types, TypeOK, Transition
<1> QED BY <1>1, Inductive, PTL

(* However the evaluations and the hold sweeps of the API workers cross,   *)
(* the rule has at most one alert in its hold and one announced alert open *)
(* (alert_engine.py, alert_hold_service.py).                               *)
THEOREM OneAlertOpen == Spec => []OneOpenAlert
BY Inductive, PTL DEF IInv, RowsInv

(* Once a move to up was evaluated, no alert raised before it is open, not *)
(* even one that a sweep read while it was still in its hold.              *)
THEOREM UpClosesEveryAlert == Spec => []UpClosesAll
BY Inductive, PTL DEF IInv, RowsInv

(* Nobody hears of the end of an incident, and no second tier is paged,    *)
(* before the page of the incident went out or is on its way.              *)
THEOREM PageComesFirst == Spec => []NothingBeforeThePage
<1>1. IInv => NothingBeforeThePage
  <2> SUFFICES ASSUME IInv, NEW n \in sent, n.what # "reminder" PROVE Paged(n.id)
    BY DEF NothingBeforeThePage
  <2>1. n \in Pages /\ Made(n)
    BY DEF IInv, Types, Pages, Made
  <2>2. Marked(n)
    BY <2>1 DEF IInv, NoticesInv, AllMarked
  <2> QED BY <2>2 DEF IInv, NoticesInv, AllPaged, Marked, Marks
<1> QED BY <1>1, Inductive, PTL

(* However many sweeps run side by side and whatever restarts, nothing is  *)
(* attempted twice for one incident but the reminder of a second snooze,   *)
(* or a reminder sent again because its transaction failed after it.       *)
THEOREM NothingTwice == Spec => []NeverTwice
BY Inductive, PTL DEF IInv, NoticesInv
=============================================================================
