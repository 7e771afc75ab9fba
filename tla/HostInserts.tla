---------------------------- MODULE HostInserts ----------------------------
(***************************************************************************)
(* Group commit of host telemetry: uploads of the Windows agents join a    *)
(* batch per API worker and table, a batch is one ClickHouse insert, and   *)
(* the upload is acknowledged when every table has it.  An agent keeps an  *)
(* upload in its spool and posts it again until it is acknowledged.        *)
(*                                                                         *)
(* One request per upload runs at a time: the ledger row it inserted keeps *)
(* a second one waiting, then refused.  ClickHouse skips a block whose     *)
(* token it has seen.  A token stands for the uploads in the block, so an  *)
(* upload alone carries its own.  Tables are split by month, and an upload *)
(* has a row in each of two partitions: a block can land in one and fail   *)
(* in the other, now or after its client gave up.                          *)
(***************************************************************************)
EXTENDS Integers, FiniteSets

CONSTANTS Uploads, Workers, Tables,
          MaxMembers,   \* uploads that fill a batch (max_rows)
          MaxFaults     \* bound: failed inserts and commits, deadlines,
                        \* lost answers, restarts

ASSUME HostInsertsAssumption == MaxMembers \in Nat \ {0} /\ MaxFaults \in Nat

VARIABLES
    request,    \* per upload: the worker handling it, or "none"
    ledger,     \* uploads whose batch row is completed
    acked,      \* uploads the agent dropped from its spool
    open,       \* per worker and table: the uploads of the open batch
    writes,     \* batches being written
    recent,     \* per worker, table, upload: outcome of its last write
    stored,     \* per partition, upload: how often ClickHouse holds its row
    tokens,     \* per partition: tokens ClickHouse has seen
    stray,      \* blocks nobody waits for any more that may still land
    faults,
    \* history
    doubt       \* uploads given up with rows stored, landed after that, or
                \* replayed to a worker that could not trace them

vars == <<request, ledger, acked, open, writes, recent, stored, tokens, stray,
          faults, doubt>>

Places == Workers \X Tables
Months == {1, 2}
Partitions == Tables \X Months
Write(place, members) == [place |-> place, members |-> members, failed |-> FALSE]
Done == {"ok", "failed"}

Fault == faults < MaxFaults /\ faults' = faults + 1

Init ==
    /\ request = [u \in Uploads |-> "none"]
    /\ ledger = {} /\ acked = {}
    /\ open = [p \in Places |-> {}] /\ writes = {}
    /\ recent = [p \in Places |-> [u \in Uploads |-> "none"]]
    /\ stored = [q \in Partitions |-> [u \in Uploads |-> 0]]
    /\ tokens = [q \in Partitions |-> {}] /\ stray = {}
    /\ faults = 0 /\ doubt = {}

-----------------------------------------------------------------------------
(* The request. *)

(* A replay joins a write that is under way or succeeded. *)
(* Mutants: it joins whatever it finds; it joins only what succeeded. *)
JoinsAny(outcome) == outcome # "none"
JoinsStored(outcome) == outcome = "ok"
Joins(outcome) == outcome \in {"pending", "ok"}

Full(members) == Cardinality(members) >= MaxMembers

(* The upload's rows enter the open batch of every table it does not join; *)
(* a batch that is full is flushed.                                        *)
Enter(u, w) ==
    LET here == {p \in Places : p[1] = w /\ ~Joins(recent[p][u])}
        grown == [p \in Places |-> open[p] \cup IF p \in here THEN {u} ELSE {}]
        full == {p \in here : Full(grown[p])}
    IN  /\ open' = [p \in Places |-> IF p \in full THEN {} ELSE grown[p]]
        /\ writes' = writes \cup {Write(p, grown[p]) : p \in full}
        /\ recent' = [p \in Places |->
                         IF p \in here THEN [recent[p] EXCEPT ![u] = "pending"] ELSE recent[p]]

(* Worker w writes rows again that are stored, or in another worker's hands. *)
Untraced(u, w) ==
    \E q \in Partitions :
        /\ recent[<<w, q[1]>>][u] \in {"none", "failed"}
        /\ stored[q][u] > 0 \/ \E v \in Workers : recent[<<v, q[1]>>][u] = "pending"

Post(u, w) ==
    /\ u \notin acked \cup ledger /\ request[u] = "none"
    /\ request' = [request EXCEPT ![u] = w]
    /\ Enter(u, w)
    /\ doubt' = IF Untraced(u, w) THEN doubt \cup {u} ELSE doubt
    /\ UNCHANGED <<ledger, acked, stored, tokens, stray, faults>>

(* The ledger answers for a batch it completed. *)
PostKnown(u) ==
    /\ u \in ledger \ acked /\ request[u] = "none"
    /\ acked' = acked \cup {u}
    /\ UNCHANGED <<request, ledger, open, writes, recent, stored, tokens, stray,
                   faults, doubt>>

Settled(u) == \A t \in Tables : recent[<<request[u], t>>][u] \in Done
Succeeded(u) == \A t \in Tables : recent[<<request[u], t>>][u] = "ok"

(* Every table has answered: the ledger row is completed and the upload    *)
(* acknowledged, or everything is rolled back and the agent told to retry. *)
(* The commit may fail, and the answer may be lost after it.               *)
Finish(u) ==
    /\ request[u] # "none" /\ Settled(u)
    /\ request' = [request EXCEPT ![u] = "none"]
    /\ \/ Succeeded(u) /\ ledger' = ledger \cup {u} /\ acked' = acked \cup {u} /\ UNCHANGED faults
       \/ Succeeded(u) /\ Fault /\ ledger' \in {ledger, ledger \cup {u}} /\ UNCHANGED acked
       \/ ~Succeeded(u) /\ UNCHANGED <<ledger, acked, faults>>
    /\ UNCHANGED <<open, writes, recent, stored, tokens, stray, doubt>>

(* The deadline ends the request, not the write it waits for. *)
Deadline(u) ==
    /\ request[u] # "none" /\ Fault
    /\ request' = [request EXCEPT ![u] = "none"]
    /\ UNCHANGED <<ledger, acked, open, writes, recent, stored, tokens, stray,
                   doubt>>

-----------------------------------------------------------------------------
(* The batch. *)

FlushTimer(p) ==
    /\ open[p] # {}
    /\ writes' = writes \cup {Write(p, open[p])}
    /\ open' = [open EXCEPT ![p] = {}]
    /\ UNCHANGED <<request, ledger, acked, recent, stored, tokens, stray,
                   faults, doubt>>

Token(members) == members

(* The block lands in some months of its table: a partition that has seen  *)
(* the token skips it.                                                     *)
Lands(b, months) ==
    LET new == {q \in Partitions : /\ q[1] = b.place[2] /\ q[2] \in months
                                   /\ Token(b.members) \notin tokens[q]}
    IN  /\ tokens' = [q \in Partitions |->
                         tokens[q] \cup IF q \in new THEN {Token(b.members)} ELSE {}]
        /\ stored' = [q \in Partitions |-> [u \in Uploads |->
                         stored[q][u] + IF q \in new /\ u \in b.members THEN 1 ELSE 0]]

Resolve(b, good) ==
    /\ recent' = [recent EXCEPT ![b.place] = [u \in Uploads |->
                     IF u \notin b.members THEN @[u] ELSE IF u \in good THEN "ok" ELSE "failed"]]
    /\ writes' = writes \ {b}

(* One attempt at the insert, or the retry of the identical block. *)
Insert(b) ==
    /\ Lands(b, Months) /\ Resolve(b, b.members)
    /\ UNCHANGED <<request, ledger, acked, open, stray, faults, doubt>>

(* The attempt ends in an error, whether the block landed, in part or not. *)
InsertFails(b) ==
    /\ Fault
    /\ \E months \in SUBSET Months : Lands(b, months)
    /\ writes' = (writes \ {b}) \cup {[b EXCEPT !.failed = TRUE]}
    /\ UNCHANGED <<request, ledger, acked, open, recent, stray, doubt>>

(* The rows of an upload that a table holds. *)
Rows(t, u) == stored[<<t, 1>>][u] + stored[<<t, 2>>][u]

(* As many rows as the upload has, one for each month.                     *)
(* Mutant: one stored upload vouches for the others of its block.          *)
VerifiedTogether(b) ==
    IF \E u \in b.members : Rows(b.place[2], u) >= 2 THEN b.members ELSE {}
Verified(b) == {u \in b.members : Rows(b.place[2], u) >= 2}

(* The retry window is over: the uploads found stored are acknowledged,    *)
(* none if ClickHouse does not answer, and some if the block lands between *)
(* the probes.                                                             *)
GiveUp(b) ==
    /\ b.failed
    /\ \E good \in SUBSET Verified(b) :
          /\ Resolve(b, good)
          /\ doubt' = doubt \cup {u \in b.members \ good : Rows(b.place[2], u) > 0}
    /\ stray' = stray \cup {b}
    /\ UNCHANGED <<request, ledger, acked, open, stored, tokens, faults>>

(* A block lands after its client gave up, or died. *)
LandsLate(b) ==
    /\ \E months \in (SUBSET Months) \ {{}} : Lands(b, months)
    /\ doubt' = doubt \cup b.members
    /\ stray' = stray \ {b}
    /\ UNCHANGED <<request, ledger, acked, open, writes, recent, faults>>

(* The finished writes of an upload are forgotten after ten minutes. *)
Prune(w, u) ==
    /\ request[u] # w /\ \A t \in Tables : recent[<<w, t>>][u] \in Done
    /\ recent' = [p \in Places |->
                     IF p[1] = w THEN [recent[p] EXCEPT ![u] = "none"] ELSE recent[p]]
    /\ UNCHANGED <<request, ledger, acked, open, writes, stored, tokens, stray,
                   faults, doubt>>

(* A worker restarts; a block it was sending may still land. *)
Crash(w) ==
    LET own == {b \in writes : b.place[1] = w} IN
    /\ Fault
    /\ writes' = writes \ own /\ stray' = stray \cup own
    /\ open' = [p \in Places |-> IF p[1] = w THEN {} ELSE open[p]]
    /\ recent' = [p \in Places |-> IF p[1] = w THEN [u \in Uploads |-> "none"] ELSE recent[p]]
    /\ request' = [u \in Uploads |-> IF request[u] = w THEN "none" ELSE request[u]]
    /\ UNCHANGED <<ledger, acked, stored, tokens, doubt>>

-----------------------------------------------------------------------------
Next ==
    \/ \E u \in Uploads :
          \/ \E w \in Workers : Post(u, w) \/ Prune(w, u)
          \/ PostKnown(u) \/ Finish(u) \/ Deadline(u)
    \/ \E p \in Places : FlushTimer(p)
    \/ \E b \in writes : Insert(b) \/ InsertFails(b) \/ GiveUp(b)
    \/ \E b \in stray : LandsLate(b)
    \/ \E w \in Workers : Crash(w)

Spec == Init /\ [][Next]_vars

(* The agent posts until it is acknowledged, timers fire, writes end and   *)
(* requests are answered: whatever can go on without a fault does not stop *)
(* for ever.                                                               *)
Progress ==
    \/ \E u \in Uploads : PostKnown(u) \/ Finish(u) \/ \E w \in Workers : Post(u, w)
    \/ \E p \in Places : FlushTimer(p)
    \/ \E b \in writes : Insert(b) \/ GiveUp(b)

Fairness == WF_vars(Progress)

FairSpec == Spec /\ Fairness

-----------------------------------------------------------------------------
(* Type invariant. *)
TypeOK ==
    /\ request \in [Uploads -> Workers \cup {"none"}]
    /\ acked \subseteq ledger /\ ledger \subseteq Uploads
    /\ open \in [Places -> SUBSET Uploads]
    /\ \A p \in Places : Cardinality(open[p]) < MaxMembers
    /\ writes \cup stray
          \subseteq [place : Places, members : (SUBSET Uploads) \ {{}}, failed : BOOLEAN]
    /\ recent \in [Places -> [Uploads -> {"none", "pending"} \cup Done]]
    /\ stored \in [Partitions -> [Uploads -> Nat]]
    /\ tokens \in [Partitions -> SUBSET SUBSET Uploads]
    /\ faults \in 0..MaxFaults
    /\ doubt \subseteq Uploads

(* Durable acknowledgement: every table holds what the agent dropped from  *)
(* its spool, whatever was batched with it and however its inserts failed, *)
(* were retried or were verified, unless another row of the upload is      *)
(* there twice and was counted in its place: rows_present counts rows, and *)
(* an upload that landed in one month with two blocks has enough.          *)
AckedIsStored ==
    \A u \in acked, t \in Tables :
        \/ \A m \in Months : stored[<<t, m>>][u] > 0
        \/ \E m \in Months : stored[<<t, m>>][u] > 1

(* A replay under a deadline, an error or a lost answer does not store     *)
(* rows twice, unless the write was given up with rows stored (in part, or *)
(* unknown to the worker), landed after it was given up, or the replay met *)
(* a worker that had no memory of rows another write stored or may store.  *)
TwiceOnlyUntraced ==
    \A q \in Partitions, u \in Uploads :
        stored[q][u] > 1 => u \in doubt

(* Every awaited outcome has a batch that will deliver it, and only one:   *)
(* no request waits for a write that is in nobody's hands.                 *)
PendingIsInOneBatch ==
    \A p \in Places, u \in Uploads :
        LET inWrite == {b \in writes : b.place = p /\ u \in b.members} IN
        Cardinality(inWrite) + (IF u \in open[p] THEN 1 ELSE 0)
            = IF recent[p][u] = "pending" THEN 1 ELSE 0

(* Every upload is acknowledged in the end, also one whose batch failed    *)
(* before: its replay is written again.                                    *)
EveryUploadIsAcked == <>(acked = Uploads)
=============================================================================
