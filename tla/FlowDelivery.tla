---------------------------- MODULE FlowDelivery ----------------------------
(***************************************************************************)
(* The NetFlow collector between its sockets and ClickHouse: the memory    *)
(* queue, the spiller that overflows it to the disk spool, and the writer  *)
(* that inserts batches, bisects what is refused, holds what it cannot     *)
(* judge, and at a stop puts on disk what is left.                         *)
(*                                                                         *)
(* Rows are numbered as they arrive.  A batch, a part of it and their      *)
(* spool segments are the rows they hold, which also stands for their      *)
(* deduplication token and orders segments by age.  A row is one byte of   *)
(* the spool.  Retry delays, schema repair, unreadable segments, a failing *)
(* write or rename of the spiller (the batch stays in memory), the bound   *)
(* on held rows beside the one on held parts, and the counters of each     *)
(* exporter are left out.                                                  *)
(***************************************************************************)
EXTENDS Integers, Sequences, FiniteSets, FiniteSetsExt

CONSTANTS
    BatchSize, CapRecords,          \* of the queue, in rows
    SpoolMax,                       \* bytes of the spool; 0: no spool
    MaxHeldParts, MaxBisectProbes,  \* 64 and 16 in the code
    Poison,                         \* rows ClickHouse never takes
    Sizes,                          \* rows a datagram may bring
    MaxRows, MaxFaults, MaxBreaks, MaxStops, MaxCrashes   \* bounds

ASSUME FlowAssumption ==
    /\ {SpoolMax, MaxHeldParts, MaxRows, MaxFaults, MaxBreaks, MaxStops, MaxCrashes} \subseteq Nat
    /\ {BatchSize, CapRecords, MaxBisectProbes} \subseteq Nat \ {0} /\ BatchSize <= CapRecords
    /\ Sizes \subseteq Nat \ {0} /\ Poison \subseteq Nat

VARIABLES
    taken,      \* rows received so far
    pending,    \* how many of the last rows are not in a batch yet
    sealed,     \* batches in memory, oldest first
    closed,     \* intake has ended
    stop,       \* the shutdown deadline has passed
    spool,      \* segments on disk
    inflight,   \* the segment the writer has, never evicted, or {}
    temps,      \* segments written but not renamed yet
    spiller,    \* what the spiller is doing
    writer,     \* what the writer is doing
    held,       \* groups of rows that wait for a verdict
    retest,     \* the round of retests under way
    keep,       \* what the writer has yet to do on disk, at the end
    landed,     \* what ClickHouse stored, by token
    broken,     \* ClickHouse refuses everything
    spent,      \* faults, breaks, stops and crashes so far
    count,      \* history: rows written, dropped, rejected, and lost in a kill
    torn        \* history: rows whose token does not stand for them any more

queueVars == <<taken, pending, sealed, closed, stop>>
diskVars == <<spool, inflight, temps>>
writerVars == <<writer, held, retest, keep>>
storeVars == <<landed, broken, spent>>
vars == <<queueVars, diskVars, spiller, writerVars, storeVars, count, torn>>

HasSpool == SpoolMax > 0
Rows(seq) == UNION {seq[i] : i \in DOMAIN seq}
Groups(parts) == [i \in DOMAIN parts |-> parts[i].rows]
Oldest(groups) == CHOOSE g \in groups : \A h \in groups : Min(g) <= Min(h)
Single(rows) == Cardinality(rows) = 1

(* A part of a batch: its data errors, and whether it is a suspect that    *)
(* gets its second try.                                                    *)
Part(rows) == [rows |-> rows, fails |-> 0, retested |-> FALSE]
Halves(rows) ==
    LET left == {r \in rows : Cardinality({q \in rows : q < r}) < Cardinality(rows) \div 2}
    IN <<Part(left), Part(rows \ left)>>
Failed(p) == [p EXCEPT !.fails = IF @ < 2 THEN @ + 1 ELSE @]

NoRetest == [todo |-> <<>>, kept |-> <<>>, refused |-> <<>>, work |-> <<>>, bad |-> {},
             evidence |-> FALSE, back |-> "look"]
Looking == [phase |-> "look", batch |-> {}, disk |-> FALSE, parts |-> <<>>, suspects |-> <<>>,
            any |-> FALSE, systemic |-> FALSE]
NotSpilling == [phase |-> "idle", batch |-> {}, wake |-> FALSE]

Init ==
    /\ taken = 0 /\ pending = 0 /\ sealed = <<>> /\ closed = FALSE /\ stop = FALSE
    /\ spool = {} /\ inflight = {} /\ temps = {} /\ spiller = NotSpilling
    /\ writer = Looking /\ held = <<>> /\ retest = NoRetest /\ keep = <<>>
    /\ landed = {} /\ broken = FALSE
    /\ spent = [faults |-> 0, breaks |-> 0, stops |-> 0, crashes |-> 0]
    /\ count = [written |-> {}, dropped |-> {}, rejected |-> {}, perished |-> {}]
    /\ torn = {}

Spend(what, max) == spent[what] < max /\ spent' = [spent EXCEPT ![what] = @ + 1]
Count(how, rows) == count' = [count EXCEPT ![how] = @ \cup rows]

-----------------------------------------------------------------------------
(* The queue. *)

MemRecords(batches, rest) == Cardinality(Rows(batches)) + rest
HardLimit == IF HasSpool THEN CapRecords + CapRecords \div 4 ELSE CapRecords

(* The batches that the first n rows of the pending ones fill. *)
Filled(n) ==
    LET first == taken - pending
    IN [i \in 1..(n \div BatchSize) |-> (first + (i - 1) * BatchSize + 1)..(first + i * BatchSize)]

(* Past the hard limit the oldest batches are dropped.  Past the cap the   *)
(* spiller is woken.                                                       *)
Add(n) ==
    /\ ~closed /\ taken + n <= MaxRows
    /\ LET all == sealed \o Filled(pending + n)
           rest == (pending + n) % BatchSize
           surplus == Min({k \in 0..Len(all) :
                             k = Len(all) \/ MemRecords(SubSeq(all, k + 1, Len(all)), rest) <= HardLimit})
       IN /\ taken' = taken + n /\ pending' = rest
          /\ sealed' = SubSeq(all, surplus + 1, Len(all))
          /\ Count("dropped", Rows(SubSeq(all, 1, surplus)))
          /\ spiller' = [spiller EXCEPT !.wake = @ \/ (HasSpool /\ MemRecords(all, rest) > CapRecords)]
    /\ UNCHANGED <<closed, stop, diskVars, writerVars, storeVars, torn>>

Sealing == IF pending = 0 THEN sealed ELSE Append(sealed, (taken - pending + 1)..taken)

SealDue ==
    /\ pending > 0 /\ ~closed
    /\ sealed' = Sealing /\ pending' = 0
    /\ UNCHANGED <<taken, closed, stop, diskVars, spiller, writerVars, storeVars, count, torn>>

Close ==
    /\ ~closed /\ Spend("stops", MaxStops)
    /\ closed' = TRUE /\ sealed' = Sealing /\ pending' = 0
    /\ UNCHANGED <<taken, stop, diskVars, spiller, writerVars, landed, broken, count, torn>>

DeadlinePasses ==
    /\ closed /\ ~stop /\ stop' = TRUE
    /\ UNCHANGED <<taken, pending, sealed, closed, diskVars, spiller, writerVars, storeVars, count, torn>>

-----------------------------------------------------------------------------
(* The spool. *)

Bytes(segments) == MapThenSumSet(Cardinality, segments)

(* The oldest segments make room, except the one in flight. *)
Victims(b) ==
    {v \in spool \ {inflight} :
        LET older == {u \in spool \ {inflight} : Min(u) < Min(v)}
        IN Bytes(spool \ older) + Cardinality(b) > SpoolMax}
Fits(b) == Bytes(spool \ Victims(b)) + Cardinality(b) <= SpoolMax

(* A segment whose file is still there is renamed into the spool, if it    *)
(* fits.                                                                   *)
Commits(b) ==
    /\ spool' = IF b \notin temps THEN spool
                ELSE (spool \ Victims(b)) \cup (IF Fits(b) THEN {b} ELSE {})
    /\ Count("dropped", IF b \notin temps THEN b
                        ELSE (UNION Victims(b)) \cup (IF Fits(b) THEN {} ELSE b))
    /\ temps' = temps \ {b}

(* The spiller picks the oldest batch, writes it to a file without the     *)
(* lock, and renames the file if the batch is still the oldest one.        *)
SpillerWakes ==
    /\ spiller.phase = "idle" /\ spiller.wake
    /\ spiller' = [spiller EXCEPT !.phase = "look", !.wake = FALSE]
    /\ UNCHANGED <<queueVars, diskVars, writerVars, storeVars, count, torn>>

SpillerPicks ==
    /\ spiller.phase = "look"
    /\ spiller' = IF MemRecords(sealed, pending) <= (CapRecords * 3) \div 4 \/ sealed = <<>>
                  THEN [spiller EXCEPT !.phase = "idle", !.batch = {}]
                  ELSE [spiller EXCEPT !.phase = "write", !.batch = Head(sealed)]
    /\ UNCHANGED <<queueVars, diskVars, writerVars, storeVars, count, torn>>

SpillerWrites ==
    /\ spiller.phase = "write"
    /\ temps' = temps \cup {spiller.batch}
    /\ spiller' = [spiller EXCEPT !.phase = "commit"]
    /\ UNCHANGED <<queueVars, spool, inflight, writerVars, storeVars, count, torn>>

SpillerCommits ==
    /\ spiller.phase = "commit"
    /\ IF sealed # <<>> /\ Head(sealed) = spiller.batch
       THEN Commits(spiller.batch) /\ sealed' = Tail(sealed)
       ELSE temps' = temps \ {spiller.batch} /\ UNCHANGED <<spool, sealed, count>>
    /\ spiller' = [spiller EXCEPT !.phase = "look", !.batch = {}]
    /\ UNCHANGED <<taken, pending, closed, stop, inflight, writerVars, storeVars, torn>>

-----------------------------------------------------------------------------
(* The writer takes the oldest batch: a segment, else one from memory.     *)

Delivering(b, disk) ==
    writer' = [Looking EXCEPT !.phase = "deliver", !.batch = b, !.disk = disk, !.parts = <<Part(b)>>]

NextSegment ==
    /\ writer.phase = "look" /\ spool # {}
    /\ inflight' = Oldest(spool)
    /\ Delivering(Oldest(spool), TRUE)
    /\ UNCHANGED <<queueVars, spool, temps, spiller, held, retest, keep, storeVars, count, torn>>

SpoolSeenEmpty ==
    /\ writer.phase = "look" /\ spool = {}
    /\ writer' = [writer EXCEPT !.phase = "take"]
    /\ UNCHANGED <<queueVars, diskVars, spiller, held, retest, keep, storeVars, count, torn>>

\* mutant: an older batch that has moved to disk meanwhile is not seen
RetryDiskNever == FALSE

(* Under the queue's lock the spool is looked at again: the spiller may    *)
(* have moved an older batch there.                                        *)
RetryDisk == spool # {}

Finished == closed /\ sealed = <<>> /\ pending = 0 /\ spool = {}

StartRetest(evidence, back) ==
    /\ writer' = [Looking EXCEPT !.phase = "retest"]
    /\ retest' = [NoRetest EXCEPT !.todo = held, !.evidence = evidence, !.back = back]
    /\ held' = <<>>

Writes(groups) == [i \in DOMAIN groups |-> [do |-> "write", rows |-> groups[i]]]
Ends(first, groups) ==
    /\ writer' = [Looking EXCEPT !.phase = "end"]
    /\ keep' = first \o Writes(groups)
    /\ held' = <<>>

(* With nothing to take the writer waits, or retests what is held, or ends *)
(* at the deadline and when intake is over.                                *)
TakeMemory ==
    /\ writer.phase = "take"
    /\ \/ /\ RetryDisk
          /\ writer' = Looking
          /\ UNCHANGED <<sealed, held, retest, keep>>
       \/ /\ ~RetryDisk /\ sealed # <<>>
          /\ sealed' = Tail(sealed)
          /\ Delivering(Head(sealed), FALSE)
          /\ UNCHANGED <<held, retest, keep>>
       \/ /\ ~RetryDisk /\ sealed = <<>> /\ held # <<>> /\ ~stop
          /\ StartRetest(FALSE, IF Finished THEN "end" ELSE "look")
          /\ UNCHANGED <<sealed, keep>>
       \/ /\ ~RetryDisk /\ sealed = <<>> /\ (stop \/ (Finished /\ held = <<>>))
          /\ Ends(<<>>, held)
          /\ UNCHANGED <<sealed, retest>>
    /\ UNCHANGED <<taken, pending, closed, stop, diskVars, spiller, storeVars, count, torn>>

-----------------------------------------------------------------------------
(* ClickHouse (external): it refuses rows it can never take, and for a     *)
(* while everything.  An insert may fail or be refused for a passing       *)
(* reason, and have stored the rows nevertheless, which its token tells.   *)

CanLand(rows) == ~broken /\ rows \cap Poison = {}

Insert(rows, answer) ==
    \/ /\ answer = "ok" /\ CanLand(rows)
       /\ landed' = landed \cup {rows} /\ UNCHANGED <<broken, spent>>
    \/ /\ answer = "data" /\ ~CanLand(rows) /\ UNCHANGED storeVars
    \/ /\ answer # "ok" /\ Spend("faults", MaxFaults)
       /\ landed' \in {landed} \cup (IF CanLand(rows) THEN {landed \cup {rows}} ELSE {})
       /\ UNCHANGED broken

Break ==
    /\ ~broken /\ Spend("breaks", MaxBreaks) /\ broken' = TRUE
    /\ UNCHANGED <<queueVars, diskVars, spiller, writerVars, landed, count, torn>>

Repair ==
    /\ broken /\ broken' = FALSE
    /\ UNCHANGED <<queueVars, diskVars, spiller, writerVars, landed, spent, count, torn>>

-----------------------------------------------------------------------------
(* Delivering a batch.  A part that is refused is tried again and split;   *)
(* a row that fails alone waits until another row is accepted.             *)

Trying(answer) ==
    /\ writer.phase = "deliver" /\ writer.parts # <<>> /\ ~stop
    /\ Insert(Head(writer.parts).rows, answer)
    /\ UNCHANGED <<queueVars, temps, spiller, retest, keep>>

Accept ==
    /\ Trying("ok")
    /\ writer' = [writer EXCEPT !.parts = Tail(@), !.any = TRUE, !.systemic = FALSE]
    /\ Count("written", Head(writer.parts).rows)
    /\ UNCHANGED <<spool, inflight, held, torn>>

TryLater ==
    /\ Trying("other")
    /\ UNCHANGED <<spool, inflight, writer, held, count, torn>>

\* mutant: nothing is held, and what cannot be judged is tried forever
CanHoldNever(n) == FALSE

CanHold(n) == Len(held) + n <= MaxHeldParts

(* The batch is done with: its segment goes. *)
Drops == /\ spool' = IF writer.disk THEN spool \ {writer.batch} ELSE spool
         /\ inflight' = {}
Hold(groups) ==
    /\ held' = held \o groups
    /\ writer' = Looking
    /\ Drops

TriesAgain(p) == writer.systemic \/ (p.fails = 0 /\ ~p.retested)

(* One refusal, which leaves the part with fails + 1 data errors.  The     *)
(* part is torn when it is stored and its halves get tokens of their own.  *)
Refused ==
    LET p == Head(writer.parts)
        rest == Tail(writer.parts)
        suspects == Append(writer.suspects, Failed(p))
        undecided == suspects \o rest
        enough == ~writer.any /\ Len(suspects) >= MaxBisectProbes
    IN /\ Trying("data")
       /\ \/ /\ TriesAgain(p)
             /\ writer' = [writer EXCEPT !.parts = <<Failed(p)>> \o rest]
             /\ UNCHANGED <<spool, inflight, held, count>>
          \/ /\ ~TriesAgain(p) /\ ~Single(p.rows)
             /\ writer' = [writer EXCEPT !.parts = Halves(p.rows) \o rest]
             /\ UNCHANGED <<spool, inflight, held, count>>
          \/ /\ ~TriesAgain(p) /\ Single(p.rows) /\ p.retested
             /\ writer' = [writer EXCEPT !.parts = rest]
             /\ Count("rejected", p.rows)
             /\ UNCHANGED <<spool, inflight, held>>
          \/ /\ ~TriesAgain(p) /\ Single(writer.batch) /\ ~p.retested
             /\ \/ CanHold(1) /\ Hold(<<p.rows>>)
                \/ /\ ~CanHold(1)
                   /\ writer' = [writer EXCEPT !.parts = <<Failed(p)>> \o rest, !.systemic = TRUE]
                   /\ UNCHANGED <<spool, inflight, held>>
             /\ UNCHANGED count
          \/ /\ ~TriesAgain(p) /\ Single(p.rows) /\ ~Single(writer.batch) /\ ~p.retested
             /\ \/ /\ ~enough
                   /\ writer' = [writer EXCEPT !.parts = rest, !.suspects = suspects]
                   /\ UNCHANGED <<spool, inflight, held>>
                \/ enough /\ CanHold(Len(undecided)) /\ Hold(Groups(undecided))
                \/ /\ enough /\ ~CanHold(Len(undecided))
                   /\ writer' = [writer EXCEPT !.parts = undecided, !.suspects = <<>>, !.systemic = TRUE]
                   /\ UNCHANGED <<spool, inflight, held>>
             /\ UNCHANGED count
       /\ torn' = torn \cup (IF p.rows \in landed' /\ ~TriesAgain(p) /\ ~Single(p.rows) THEN p.rows ELSE {})

(* Only suspects are left: each gets its second try once another row was   *)
(* accepted; without that they are held or, with no room, taken for        *)
(* victims of a fault that is not in the rows.                             *)
SecondTries ==
    /\ writer.phase = "deliver" /\ writer.parts = <<>> /\ writer.suspects # <<>>
    /\ LET undecided == ~writer.any /\ ~Single(writer.batch)
           room == CanHold(Len(writer.suspects))
       IN \/ undecided /\ room /\ Hold(Groups(writer.suspects))
          \/ /\ ~(undecided /\ room)
             /\ writer' = [writer EXCEPT
                  !.parts = [i \in DOMAIN writer.suspects |-> [writer.suspects[i] EXCEPT !.retested = TRUE]],
                  !.suspects = <<>>,
                  !.systemic = @ \/ undecided]
             /\ UNCHANGED <<spool, inflight, held>>
    /\ UNCHANGED <<queueVars, temps, spiller, retest, keep, storeVars, count, torn>>

(* The batch is delivered, which is evidence against what is held. *)
Delivered ==
    /\ writer.phase = "deliver" /\ writer.parts = <<>> /\ writer.suspects = <<>>
    /\ Drops
    /\ IF writer.any /\ held # <<>> THEN StartRetest(TRUE, "look")
       ELSE writer' = Looking /\ UNCHANGED <<held, retest>>
    /\ UNCHANGED <<queueVars, temps, spiller, keep, storeVars, count, torn>>

\* mutant: the suspects of an interrupted batch are forgotten
RemainingParts == writer.parts

Remaining == writer.suspects \o writer.parts

\* mutant: a partly delivered batch is kept whole
WholeAlways(remaining) == TRUE

(* A batch of which nothing was split is kept under its own token. *)
Whole(remaining) == Len(remaining) = 1 /\ remaining[1].rows = writer.batch

(* The deadline cuts the delivery; its last insert may have been stored.   *)
(* What remains is kept, part by part unless it is the whole batch.        *)
Interrupted ==
    /\ writer.phase = "deliver" /\ writer.parts # <<>> /\ stop
    /\ landed' \in {landed} \cup
         (IF CanLand(Head(writer.parts).rows) THEN {landed \cup {Head(writer.parts).rows}} ELSE {})
    /\ LET drop == IF writer.disk THEN <<[do |-> "drop", rows |-> writer.batch]>> ELSE <<>>
       IN IF Whole(Remaining)
          THEN Ends(IF writer.disk THEN <<>> ELSE Writes(<<writer.batch>>), held)
          ELSE Ends(Writes(Groups(Remaining)) \o drop, held)
    /\ inflight' = IF Whole(Remaining) THEN {} ELSE inflight
    /\ UNCHANGED <<queueVars, spool, temps, spiller, retest, broken, spent, count, torn>>

-----------------------------------------------------------------------------
(* A round of retests.  Without evidence nothing is judged; with it a row  *)
(* that was refused in this round is rejected, and a larger group is taken *)
(* apart (isolate).                                                        *)

RoundEnds(groups, bad) ==
    /\ Count("rejected", bad)
    /\ retest' = NoRetest
    /\ IF retest.back = "end" THEN Ends(<<>>, groups)
       ELSE held' = groups /\ writer' = Looking /\ UNCHANGED keep

Retested(rows, answer) ==
    /\ ~stop /\ Insert(rows, answer)
    /\ UNCHANGED <<queueVars, diskVars, spiller, held, keep>>

Retest ==
    /\ writer.phase = "retest" /\ retest.todo # <<>>
    /\ LET rows == Head(retest.todo)
       IN \/ /\ Retested(rows, "ok")
             /\ retest' = [retest EXCEPT !.todo = Tail(@), !.evidence = TRUE]
             /\ Count("written", rows)
          \/ /\ Retested(rows, "data")
             /\ retest' = [retest EXCEPT !.todo = Tail(@), !.refused = Append(@, rows)]
             /\ UNCHANGED count
          \/ /\ Retested(rows, "other")
             /\ retest' = [retest EXCEPT !.todo = Tail(@), !.kept = Append(@, rows)]
             /\ UNCHANGED count
    /\ UNCHANGED <<writer, torn>>

(* Each refused group in turn, and then the end of the round. *)
Judge ==
    /\ writer.phase = "retest" /\ retest.todo = <<>>
    /\ \/ /\ ~retest.evidence \/ retest.refused = <<>>
          /\ RoundEnds(retest.kept \o retest.refused, retest.bad)
          /\ UNCHANGED torn
       \/ /\ retest.evidence /\ retest.refused # <<>>
          /\ LET rows == Head(retest.refused)
             IN IF Single(rows)
                THEN /\ retest' = [retest EXCEPT !.refused = Tail(@), !.bad = @ \cup rows]
                     /\ UNCHANGED <<writer, torn>>
                ELSE /\ retest' = [retest EXCEPT !.refused = Tail(@), !.work = Halves(rows)]
                     /\ writer' = [writer EXCEPT !.phase = "isolate"]
                     /\ torn' = torn \cup (IF rows \in landed THEN rows ELSE {})
          /\ UNCHANGED <<held, keep, count>>
    /\ UNCHANGED <<queueVars, diskVars, spiller, storeVars>>

(* Each piece is tried twice before it is split or found bad. *)
Isolate ==
    /\ writer.phase = "isolate" /\ retest.work # <<>>
    /\ LET p == Head(retest.work)
           rest == Tail(retest.work)
       IN \/ /\ Retested(p.rows, "ok")
             /\ retest' = [retest EXCEPT !.work = rest]
             /\ Count("written", p.rows)
             /\ UNCHANGED torn
          \/ /\ Retested(p.rows, "other")
             /\ retest' = [retest EXCEPT !.kept = @ \o Groups(retest.work), !.work = <<>>]
             /\ UNCHANGED <<count, torn>>
          \/ /\ Retested(p.rows, "data")
             /\ retest' = [retest EXCEPT
                  !.work = IF p.fails = 0 THEN <<Failed(p)>> \o rest
                           ELSE IF Single(p.rows) THEN rest ELSE Halves(p.rows) \o rest,
                  !.bad = IF p.fails > 0 /\ Single(p.rows) THEN @ \cup p.rows ELSE @]
             /\ torn' = torn \cup (IF p.fails > 0 /\ ~Single(p.rows) /\ p.rows \in landed' THEN p.rows ELSE {})
             /\ UNCHANGED count
    /\ UNCHANGED writer

Isolated ==
    /\ writer.phase = "isolate" /\ retest.work = <<>>
    /\ IF stop THEN RoundEnds(retest.kept \o retest.refused, retest.bad)
       ELSE writer' = [writer EXCEPT !.phase = "retest"] /\ UNCHANGED <<retest, held, keep, count>>
    /\ UNCHANGED <<queueVars, diskVars, spiller, storeVars, torn>>

(* The deadline cuts a round: what is not decided stays held. *)
RetestStopped ==
    /\ stop
    /\ \/ /\ writer.phase = "retest" /\ retest.todo # <<>>
          /\ landed' \in {landed} \cup (IF CanLand(Head(retest.todo)) THEN {landed \cup {Head(retest.todo)}} ELSE {})
       \/ /\ writer.phase = "isolate" /\ retest.work # <<>>
          /\ landed' \in {landed} \cup
               (IF CanLand(retest.work[1].rows) THEN {landed \cup {retest.work[1].rows}} ELSE {})
    /\ RoundEnds(retest.kept \o Groups(retest.work) \o retest.refused \o retest.todo, retest.bad)
    /\ UNCHANGED <<queueVars, diskVars, spiller, broken, spent, torn>>

-----------------------------------------------------------------------------
(* The end.  Each group is written to a file and committed, or dropped     *)
(* when there is no spool; then come the batches still in memory.          *)

PersistWrites ==
    /\ writer.phase = "end" /\ keep # <<>> /\ keep[1].do = "write"
    /\ IF HasSpool
       THEN /\ temps' = temps \cup {keep[1].rows}
            /\ writer' = [writer EXCEPT !.phase = "commit"]
            /\ UNCHANGED <<keep, count>>
       ELSE /\ Count("dropped", keep[1].rows)
            /\ keep' = Tail(keep)
            /\ UNCHANGED <<temps, writer>>
    /\ UNCHANGED <<queueVars, spool, inflight, spiller, held, retest, storeVars, torn>>

PersistCommits ==
    /\ writer.phase = "commit"
    /\ Commits(keep[1].rows)
    /\ keep' = Tail(keep)
    /\ writer' = [writer EXCEPT !.phase = "end"]
    /\ UNCHANGED <<queueVars, inflight, spiller, held, retest, storeVars, torn>>

Supersede ==
    /\ writer.phase = "end" /\ keep # <<>> /\ keep[1].do = "drop"
    /\ spool' = spool \ {keep[1].rows} /\ inflight' = {}
    /\ keep' = Tail(keep)
    /\ UNCHANGED <<queueVars, temps, spiller, writer, held, retest, storeVars, count, torn>>

Drain ==
    /\ writer.phase = "end" /\ keep = <<>>
    /\ IF sealed = <<>> THEN writer' = [writer EXCEPT !.phase = "done"] ELSE UNCHANGED writer
    /\ keep' = Writes(sealed) /\ sealed' = <<>>
    /\ UNCHANGED <<taken, pending, closed, stop, diskVars, spiller, held, retest, storeVars, count, torn>>

-----------------------------------------------------------------------------
(* Starting again: the index is read from the directory, half-written      *)
(* files are removed.                                                      *)

Started ==
    /\ pending' = 0 /\ sealed' = <<>> /\ closed' = FALSE /\ stop' = FALSE
    /\ inflight' = {} /\ temps' = {} /\ spiller' = NotSpilling
    /\ writer' = Looking /\ held' = <<>> /\ retest' = NoRetest /\ keep' = <<>>

Restart ==
    /\ writer.phase = "done" /\ spiller.phase = "idle"
    /\ Started
    /\ UNCHANGED <<taken, spool, storeVars, count, torn>>

InMemory ==
    ((taken - pending + 1)..taken) \cup Rows(sealed) \cup Rows(held)
    \cup Rows(Groups(writer.parts)) \cup Rows(Groups(writer.suspects))
    \cup Rows(retest.todo) \cup Rows(retest.kept) \cup Rows(retest.refused)
    \cup Rows(Groups(retest.work)) \cup retest.bad \cup Rows(Groups(keep))
OnDisk == UNION spool

(* Rows of a segment that are stored or spooled under another token too. *)
Overlaps == UNION {UNION {s \cap t : t \in (spool \cup landed) \ {s}} : s \in spool}

Crash ==
    /\ Spend("crashes", MaxCrashes)
    /\ Started
    /\ Count("perished", InMemory \ OnDisk)
    /\ torn' = torn \cup Overlaps
    /\ UNCHANGED <<taken, spool, landed, broken>>

-----------------------------------------------------------------------------
Spiller == SpillerWakes \/ SpillerPicks \/ SpillerWrites \/ SpillerCommits
Writer ==
    \/ NextSegment \/ SpoolSeenEmpty \/ TakeMemory
    \/ Accept \/ TryLater \/ Refused \/ SecondTries \/ Delivered \/ Interrupted
    \/ Retest \/ Judge \/ Isolate \/ Isolated \/ RetestStopped
    \/ PersistWrites \/ PersistCommits \/ Supersede \/ Drain

Next ==
    \/ \E n \in Sizes : Add(n)
    \/ SealDue \/ Close \/ DeadlinePasses
    \/ Spiller \/ Writer
    \/ Break \/ Repair \/ Restart \/ Crash

Spec == Init /\ [][Next]_vars

(* The sealer, the spiller and the writer run, and a fault passes.         *)
FairSpec == Spec /\ WF_vars(SealDue) /\ WF_vars(Spiller) /\ WF_vars(Writer) /\ WF_vars(Repair)

-----------------------------------------------------------------------------
(* The variables hold groups of rows that were received, and phases the    *)
(* code has.                                                               *)
TypeOK ==
    LET Group == SUBSET (1..taken)
        PartType == [rows : Group, fails : 0..2, retested : BOOLEAN]
        Each(seq, S) == \A i \in DOMAIN seq : seq[i] \in S
    IN /\ taken \in 0..MaxRows /\ pending \in 0..(BatchSize - 1)
       /\ Each(sealed, Group \ {{}}) /\ closed \in BOOLEAN /\ stop \in BOOLEAN
       /\ spool \subseteq Group \ {{}} /\ inflight \in spool \cup {{}} /\ temps \subseteq Group \ {{}}
       /\ spiller.phase \in {"idle", "look", "write", "commit"}
       /\ writer.phase \in {"look", "take", "deliver", "retest", "isolate", "end", "commit", "done"}
       /\ Each(writer.parts, PartType) /\ Each(writer.suspects, PartType)
       /\ Each(held, Group \ {{}})
       /\ Each(retest.work, PartType)
       /\ landed \subseteq Group \ {{}} /\ broken \in BOOLEAN

(* A row that was received is in memory, on disk, or counted as written,   *)
(* dropped or rejected, unless a kill took it: nothing is lost in silence  *)
(* between intake, spiller, bisection, holding and shutdown.               *)
Accounted ==
    1..taken \subseteq InMemory \cup OnDisk \cup UNION {count[how] : how \in DOMAIN count}

(* A row is stored under two tokens only after a kill, or when a part that *)
(* had been stored was refused and split: a stop and a restart alone never *)
(* insert a row twice.                                                     *)
StoredOnce == \A g, h \in landed : g # h => g \cap h \subseteq torn

(* The writer takes the oldest batch there is, whatever the spiller moved  *)
(* to disk between its two looks.                                          *)
NextIsOldest ==
    [][writer.phase # "deliver" /\ writer'.phase = "deliver"
       => \A s \in spool' \cup {sealed'[i] : i \in DOMAIN sealed'} : Min(writer'.batch) <= Min(s)]_vars

(* With nothing left to deliver, the row is held in one group with a       *)
(* poison row, and nothing that came after it was accepted: there is no    *)
(* evidence to take the group apart (a passing fault wastes it).           *)
HeldWithPoison(r) ==
    /\ sealed = <<>> /\ pending = 0 /\ spool = {}
    /\ \E i \in DOMAIN held : r \in held[i] /\ held[i] \cap Poison # {}
    /\ spent.faults = 0 => \A w \in count.written : w < r

(* A row that ClickHouse can take is decided in the end, whatever poison   *)
(* rows came with it or before it, or shares a held group with one of them *)
(* until a later row is accepted; while the held list has room, poison     *)
(* rows never block the rows behind them.                                  *)
GoodRowsSettle ==
    \A r \in (1..MaxRows) \ Poison :
        r <= taken ~> \/ r \in count.written \cup count.rejected \cup count.dropped
                     \/ HeldWithPoison(r)

(* What the comment of Persist says: at a stop, "memory batches go to the  *)
(* disk spool when there is one".                                          *)
PersistKeepsWhatFits ==
    [][writer.phase = "commit" /\ writer'.phase = "end" /\ Fits(keep[1].rows) => keep[1].rows \in spool']_vars
=============================================================================
