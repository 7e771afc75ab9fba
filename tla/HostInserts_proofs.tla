-------------------------- MODULE HostInserts_proofs --------------------------
(***************************************************************************)
(* Durable acknowledgement of host telemetry, for any number of uploads,   *)
(* workers, tables and faults.                                             *)
(***************************************************************************)
EXTENDS HostInserts, FiniteSetTheorems, TLAPS

(* A batch is finite, so that its size can be compared with the limit. *)
OpenIsFinite == \A p \in Places : IsFiniteSet(open[p])

(* A token a partition has seen stands for rows that are stored there; an  *)
(* outcome a worker remembers and a ledger row stand for a table that      *)
(* holds the upload, or a row of it twice.                                 *)
Held(t, u) ==
    \/ \A m \in Months : stored[<<t, m>>][u] > 0
    \/ \E m \in Months : stored[<<t, m>>][u] > 1

TokenIsStored == \A q \in Partitions : \A m \in tokens[q] : \A u \in m : stored[q][u] > 0
OkIsStored == \A p \in Places, u \in Uploads : recent[p][u] = "ok" => Held(p[2], u)
LedgerIsStored == \A u \in ledger, t \in Tables : Held(t, u)

IInv == TypeOK /\ OpenIsFinite /\ TokenIsStored /\ OkIsStored /\ LedgerIsStored

(* Rows are added, never taken away. *)
Grows == \A q \in Partitions, u \in Uploads : stored'[q][u] >= stored[q][u]

-----------------------------------------------------------------------------
LEMMA InitIInv == Init => IInv
<1> SUFFICES ASSUME Init PROVE IInv
    OBVIOUS
<1>1. TypeOK
  BY FS_EmptySet, HostInsertsAssumption DEF Init, TypeOK, Done
<1>2. OpenIsFinite
  BY FS_EmptySet DEF Init, OpenIsFinite
<1> QED BY <1>1, <1>2 DEF Init, IInv, TokenIsStored, OkIsStored, LedgerIsStored, Done

(* Every block that reaches ClickHouse, the first time or again, leaves    *)
(* the rows of all its uploads stored in the months where it landed.       *)
LEMMA LandsStores ==
  ASSUME TypeOK, TokenIsStored, NEW b \in writes \cup stray,
         NEW months \in SUBSET Months, Lands(b, months)
  PROVE  /\ stored' \in [Partitions -> [Uploads -> Nat]]
         /\ tokens' \in [Partitions -> SUBSET SUBSET Uploads]
         /\ Grows /\ TokenIsStored'
         /\ \A u \in b.members, m \in months : stored'[<<b.place[2], m>>][u] > 0
<1> DEFINE new == {q \in Partitions : /\ q[1] = b.place[2] /\ q[2] \in months
                                      /\ b.members \notin tokens[q]}
<1>1. /\ b.place[2] \in Tables /\ b.members \subseteq Uploads
      /\ stored \in [Partitions -> [Uploads -> Nat]]
      /\ tokens \in [Partitions -> SUBSET SUBSET Uploads]
  BY DEF TypeOK, Places
<1>2. /\ tokens' = [q \in Partitions |->
                      tokens[q] \cup IF q \in new THEN {b.members} ELSE {}]
      /\ stored' = [q \in Partitions |-> [u \in Uploads |->
                      stored[q][u] + IF q \in new /\ u \in b.members THEN 1 ELSE 0]]
  BY DEF Lands, Token
<1>3. new \subseteq Partitions
  OBVIOUS
<1>4. stored' \in [Partitions -> [Uploads -> Nat]] /\ Grows
  <2> HIDE DEF new
  <2> QED BY <1>1, <1>2 DEF Grows
<1>5. tokens' \in [Partitions -> SUBSET SUBSET Uploads]
  <2> HIDE DEF new
  <2> QED BY <1>1, <1>2
<1>6. TokenIsStored'
  <2> SUFFICES ASSUME NEW q \in Partitions, NEW m \in tokens'[q], NEW u \in m
               PROVE  stored'[q][u] > 0
    BY DEF TokenIsStored
  <2> HIDE DEF new
  <2>1. CASE m \in tokens[q]
    <3>1. u \in Uploads /\ stored[q][u] > 0
      BY <1>1, <2>1 DEF TokenIsStored
    <3> QED BY <1>1, <1>4, <3>1 DEF Grows
  <2>2. CASE m \notin tokens[q]
    <3>1. q \in new /\ m = b.members
      BY <1>2, <2>2
    <3>2. u \in Uploads /\ stored'[q][u] = stored[q][u] + 1
      BY <1>1, <1>2, <3>1
    <3> QED BY <1>1, <3>2
  <2> QED BY <2>1, <2>2
<1>7. ASSUME NEW u \in b.members, NEW m \in months
      PROVE  stored'[<<b.place[2], m>>][u] > 0
  <2> DEFINE q == <<b.place[2], m>>
  <2>1. q \in Partitions /\ q[1] = b.place[2] /\ q[2] \in months
    BY <1>1 DEF Partitions
  <2>2. b.members \in tokens'[q]
    BY <1>2, <2>1
  <2> QED BY <1>6, <2>1, <2>2 DEF TokenIsStored
<1> QED BY <1>4, <1>5, <1>6, <1>7

(* What a table holds it keeps: tokens, outcomes and ledger rows that were *)
(* good stay good while rows only grow.                                    *)
LEMMA GrowsKeeps ==
  ASSUME IInv, Grows, stored' \in [Partitions -> [Uploads -> Nat]],
         NEW u \in Uploads, NEW t \in Tables, Held(t, u)
  PROVE  Held(t, u)'
<1>1. \A m \in Months : /\ stored[<<t, m>>][u] \in Nat /\ stored'[<<t, m>>][u] \in Nat
                         /\ stored'[<<t, m>>][u] >= stored[<<t, m>>][u]
  BY DEF IInv, TypeOK, Grows, Partitions
<1> QED BY <1>1 DEF Held

(* An upload that is counted in full is held. *)
LEMMA CountedIsHeld ==
  ASSUME TypeOK, NEW t \in Tables, NEW u \in Uploads, Rows(t, u) >= 2
  PROVE  Held(t, u)
<1>1. stored[<<t, 1>>][u] \in Nat /\ stored[<<t, 2>>][u] \in Nat
  BY DEF TypeOK, Partitions, Months
<1> QED BY <1>1 DEF Rows, Held, Months

(* An upload that enters leaves every open batch below the limit. *)
LEMMA EnterKeeps ==
  ASSUME TypeOK, OpenIsFinite, NEW u \in Uploads, NEW w \in Workers, Enter(u, w)
  PROVE  /\ open' \in [Places -> SUBSET Uploads]
         /\ \A p \in Places : IsFiniteSet(open'[p]) /\ Cardinality(open'[p]) < MaxMembers
         /\ writes' \subseteq [place : Places, members : (SUBSET Uploads) \ {{}}, failed : BOOLEAN]
         /\ recent' \in [Places -> [Uploads -> {"none", "pending"} \cup Done]]
         /\ \A p \in Places, v \in Uploads : recent'[p][v] = "ok" => recent[p][v] = "ok"
<1> DEFINE here == {p \in Places : p[1] = w /\ ~Joins(recent[p][u])}
           grown == [p \in Places |-> open[p] \cup IF p \in here THEN {u} ELSE {}]
           full == {p \in here : Full(grown[p])}
<1>1. /\ open' = [p \in Places |-> IF p \in full THEN {} ELSE grown[p]]
      /\ writes' = writes \cup {Write(p, grown[p]) : p \in full}
      /\ recent' = [p \in Places |->
                       IF p \in here THEN [recent[p] EXCEPT ![u] = "pending"] ELSE recent[p]]
  BY DEF Enter
<1>2. \A p \in Places : grown[p] \in SUBSET Uploads /\ IsFiniteSet(grown[p])
  <2> TAKE p \in Places
  <2>1. CASE p \in here
    BY <2>1, FS_AddElement DEF TypeOK, OpenIsFinite
  <2>2. CASE p \notin here
    <3>1. grown[p] = open[p]
      BY <2>2
    <3> QED BY <3>1 DEF TypeOK, OpenIsFinite
  <2> QED BY <2>1, <2>2
<1>3. \A p \in Places : IsFiniteSet(open'[p]) /\ Cardinality(open'[p]) < MaxMembers
  <2> TAKE p \in Places
  <2>1. CASE p \in full
    BY <1>1, <2>1, FS_EmptySet, HostInsertsAssumption
  <2>2. CASE p \in here \ full
    <3>1. Cardinality(grown[p]) \in Nat
      BY <1>2, FS_CardinalityType
    <3>2. ~(Cardinality(grown[p]) >= MaxMembers)
      BY <2>2 DEF Full
    <3>3. open'[p] = grown[p]
      BY <1>1, <2>2
    <3> QED BY <1>2, <3>1, <3>2, <3>3, HostInsertsAssumption
  <2>3. CASE p \notin here
    <3>1. open'[p] = open[p]
      BY <1>1, <2>3
    <3> QED BY <3>1 DEF TypeOK, OpenIsFinite
  <2> QED BY <2>1, <2>2, <2>3
<1>4. open' \in [Places -> SUBSET Uploads]
  BY <1>1, <1>2
<1>5. writes' \subseteq [place : Places, members : (SUBSET Uploads) \ {{}}, failed : BOOLEAN]
  <2>1. \A p \in full : Write(p, grown[p]) \in [place : Places, members : (SUBSET Uploads) \ {{}}, failed : BOOLEAN]
    <3> TAKE p \in full
    <3>1. u \in grown[p]
      OBVIOUS
    <3> QED BY <1>2, <3>1 DEF Write
  <2>2. writes \subseteq [place : Places, members : (SUBSET Uploads) \ {{}}, failed : BOOLEAN]
    BY DEF TypeOK
  <2> HIDE DEF grown, full
  <2> QED BY <1>1, <2>1, <2>2
<1>6. /\ recent' \in [Places -> [Uploads -> {"none", "pending"} \cup Done]]
      /\ \A p \in Places, v \in Uploads : recent'[p][v] = "ok" => recent[p][v] = "ok"
  BY <1>1 DEF TypeOK
<1> QED BY <1>3, <1>4, <1>5, <1>6

(* An outcome is written down for a block that is under way. *)
LEMMA ResolveKeeps ==
  ASSUME TypeOK, NEW b \in writes, NEW good \in SUBSET Uploads, Resolve(b, good)
  PROVE  /\ writes' \subseteq writes
         /\ recent' \in [Places -> [Uploads -> {"none", "pending"} \cup Done]]
         /\ \A p \in Places, u \in Uploads :
               recent'[p][u] = "ok" => recent[p][u] = "ok" \/ (p = b.place /\ u \in good)
BY DEF TypeOK, Resolve, Done

(* What a step has to show when the rows do not shrink and nothing that is *)
(* relied on appears without rows behind it.                               *)
LEMMA StoredKeeps ==
  ASSUME IInv, Grows, stored' \in [Partitions -> [Uploads -> Nat]],
         recent' \in [Places -> [Uploads -> {"none", "pending"} \cup Done]],
         ledger' \subseteq Uploads,
         \A p \in Places, u \in Uploads :
             recent'[p][u] = "ok" => recent[p][u] = "ok" \/ Held(p[2], u)',
         \A u \in ledger', t \in Tables : u \in ledger \/ Held(t, u)
  PROVE  OkIsStored' /\ LedgerIsStored'
<1>1. OkIsStored'
  <2> SUFFICES ASSUME NEW p \in Places, NEW u \in Uploads, recent'[p][u] = "ok"
               PROVE  Held(p[2], u)'
    BY DEF OkIsStored
  <2>1. p[2] \in Tables
    BY DEF Places
  <2>2. CASE recent[p][u] = "ok"
    BY <2>1, <2>2, GrowsKeeps DEF IInv, OkIsStored
  <2> QED BY <2>2
<1>2. LedgerIsStored'
  <2> SUFFICES ASSUME NEW u \in ledger', NEW t \in Tables
               PROVE  Held(t, u)'
    BY DEF LedgerIsStored
  <2>1. u \in Uploads /\ Held(t, u)
    BY DEF IInv, LedgerIsStored
  <2> QED BY <2>1, GrowsKeeps
<1> QED BY <1>1, <1>2

(* Every step keeps the invariant; the cases are the actions of Next. *)
LEMMA NextIInv == IInv /\ [Next]_vars => IInv'
<1> SUFFICES ASSUME IInv, [Next]_vars PROVE IInv'
    OBVIOUS
<1> USE DEF IInv
<1>1. ASSUME NEW u \in Uploads, NEW w \in Workers, Post(u, w) PROVE IInv'
  <2>1. Enter(u, w)
    BY <1>1 DEF Post
  <2>2. Grows /\ OkIsStored' /\ LedgerIsStored'
    <3>1. stored' = stored /\ stored \in [Partitions -> [Uploads -> Nat]]
      BY <1>1 DEF Post, TypeOK
    <3>2. Grows
      BY <3>1 DEF Grows
    <3> QED BY <1>1, <2>1, <3>1, <3>2, EnterKeeps, StoredKeeps DEF Post, TypeOK
  <2>3. TypeOK' /\ OpenIsFinite'
    BY <1>1, <2>1, EnterKeeps DEF Post, TypeOK, OpenIsFinite
  <2> QED BY <1>1, <2>2, <2>3 DEF Post, TokenIsStored
<1>2. ASSUME NEW u \in Uploads, NEW w \in Workers, Prune(w, u) PROVE IInv'
  <2>1. recent' \in [Places -> [Uploads -> {"none", "pending"} \cup Done]]
        /\ \A p \in Places, v \in Uploads : recent'[p][v] = "ok" => recent[p][v] = "ok"
    BY <1>2 DEF Prune, TypeOK
  <2> QED BY <1>2, <2>1 DEF Prune, TypeOK, OpenIsFinite, TokenIsStored, OkIsStored, LedgerIsStored, Held
<1>3. ASSUME NEW u \in Uploads, PostKnown(u) PROVE IInv'
  BY <1>3 DEF PostKnown, TypeOK, OpenIsFinite, TokenIsStored, OkIsStored, LedgerIsStored, Held
<1>4. ASSUME NEW u \in Uploads, Finish(u) PROVE IInv'
  <2>1. TypeOK'
    BY <1>4, HostInsertsAssumption DEF Finish, Fault, TypeOK
  <2>2. \A t \in Tables : Succeeded(u) => Held(t, u)
    <3> SUFFICES ASSUME NEW t \in Tables, Succeeded(u) PROVE Held(t, u)
      OBVIOUS
    <3>1. <<request[u], t>> \in Places
      BY <1>4 DEF Finish, TypeOK, Places
    <3>2. recent[<<request[u], t>>][u] = "ok"
      BY DEF Succeeded
    <3> QED BY <3>1, <3>2 DEF OkIsStored
  <2>3. \A v \in ledger' : v \in ledger \/ (v = u /\ Succeeded(u))
    BY <1>4 DEF Finish
  <2>4. LedgerIsStored'
    BY <1>4, <2>2, <2>3 DEF Finish, LedgerIsStored, Held
  <2> QED BY <1>4, <2>1, <2>4 DEF Finish, OpenIsFinite, TokenIsStored, OkIsStored, Held
<1>5. ASSUME NEW u \in Uploads, Deadline(u) PROVE IInv'
  <2>1. TypeOK'
    BY <1>5, HostInsertsAssumption DEF Deadline, Fault, TypeOK
  <2>2. OpenIsFinite' /\ TokenIsStored'
    BY <1>5 DEF Deadline, OpenIsFinite, TokenIsStored
  <2>3. OkIsStored' /\ LedgerIsStored'
    BY <1>5 DEF Deadline, OkIsStored, LedgerIsStored, Held
  <2> QED BY <2>1, <2>2, <2>3
<1>6. ASSUME NEW p \in Places, FlushTimer(p) PROVE IInv'
  <2>1. Write(p, open[p]) \in [place : Places, members : (SUBSET Uploads) \ {{}}, failed : BOOLEAN]
    BY <1>6 DEF FlushTimer, Write, TypeOK
  <2>2. open' \in [Places -> SUBSET Uploads]
        /\ \A q \in Places : IsFiniteSet(open'[q]) /\ Cardinality(open'[q]) < MaxMembers
    BY <1>6, FS_EmptySet, HostInsertsAssumption DEF FlushTimer, TypeOK, OpenIsFinite
  <2> QED BY <1>6, <2>1, <2>2
          DEF FlushTimer, TypeOK, OpenIsFinite, TokenIsStored, OkIsStored, LedgerIsStored, Held
<1>7. ASSUME NEW b \in writes, Insert(b) PROVE IInv'
  <2>1. /\ b.members \in SUBSET Uploads /\ b.place \in Places
        /\ Lands(b, Months) /\ Resolve(b, b.members)
    BY <1>7 DEF Insert, TypeOK
  <2>2. \A u \in b.members : Held(b.place[2], u)'
    BY <2>1, LandsStores DEF Held
  <2>3. OkIsStored' /\ LedgerIsStored'
    BY <1>7, <2>1, <2>2, LandsStores, ResolveKeeps, StoredKeeps DEF Insert, TypeOK
  <2>4. TypeOK'
    BY <1>7, <2>1, LandsStores, ResolveKeeps DEF Insert, TypeOK
  <2> QED BY <1>7, <2>1, <2>3, <2>4, LandsStores DEF Insert, OpenIsFinite
<1>8. ASSUME NEW b \in writes, InsertFails(b) PROVE IInv'
  <2>1. /\ stored' \in [Partitions -> [Uploads -> Nat]]
        /\ tokens' \in [Partitions -> SUBSET SUBSET Uploads]
        /\ Grows /\ TokenIsStored'
    BY <1>8, LandsStores DEF InsertFails
  <2>2. OkIsStored' /\ LedgerIsStored'
    BY <1>8, <2>1, StoredKeeps DEF InsertFails, TypeOK
  <2>3. writes' \subseteq [place : Places, members : (SUBSET Uploads) \ {{}}, failed : BOOLEAN]
    <3>1. b \in [place : Places, members : (SUBSET Uploads) \ {{}}, failed : BOOLEAN]
      BY DEF TypeOK
    <3>2. [b EXCEPT !.failed = TRUE] \in [place : Places, members : (SUBSET Uploads) \ {{}}, failed : BOOLEAN]
      BY <3>1
    <3> QED BY <1>8, <3>2 DEF InsertFails, TypeOK
  <2>4. TypeOK'
    BY <1>8, <2>1, <2>3, HostInsertsAssumption DEF InsertFails, Fault, TypeOK
  <2> QED BY <1>8, <2>1, <2>2, <2>4 DEF InsertFails, OpenIsFinite
<1>9. ASSUME NEW b \in writes, GiveUp(b) PROVE IInv'
  <2>1. PICK good \in SUBSET Uploads :
           /\ Resolve(b, good)
           /\ \A u \in good : Held(b.place[2], u)'
           /\ doubt' \subseteq Uploads
    <3>1. /\ Verified(b) \in SUBSET Uploads /\ b.members \in SUBSET Uploads
          /\ b.place[2] \in Tables
      BY DEF Verified, TypeOK, Places
    <3>2. \A u \in Verified(b) : Held(b.place[2], u)
      BY <3>1, CountedIsHeld DEF Verified
    <3>3. PICK good \in SUBSET Verified(b) :
             /\ Resolve(b, good)
             /\ doubt' = doubt \cup {u \in b.members \ good : Rows(b.place[2], u) > 0}
      BY <1>9 DEF GiveUp
    <3>4. doubt' \subseteq Uploads
      BY <3>1, <3>3 DEF TypeOK
    <3>5. \A u \in good : Held(b.place[2], u)'
      BY <1>9, <3>2 DEF GiveUp, Held
    <3> QED BY <3>1, <3>3, <3>4, <3>5
  <2>2. stored' = stored /\ stored \in [Partitions -> [Uploads -> Nat]]
    BY <1>9 DEF GiveUp, TypeOK
  <2>3. Grows
    BY <2>2 DEF Grows
  <2>4. OkIsStored' /\ LedgerIsStored'
    BY <1>9, <2>1, <2>2, <2>3, ResolveKeeps, StoredKeeps DEF GiveUp, TypeOK
  <2>5. TypeOK'
    BY <1>9, <2>1, ResolveKeeps DEF GiveUp, TypeOK
  <2> QED BY <1>9, <2>4, <2>5 DEF GiveUp, OpenIsFinite, TokenIsStored
<1>10. ASSUME NEW w \in Workers, Crash(w) PROVE IInv'
  <2>1. /\ stored' = stored /\ stored \in [Partitions -> [Uploads -> Nat]]
        /\ Grows /\ TokenIsStored'
    BY <1>10 DEF Crash, TypeOK, Grows, TokenIsStored
  <2>2. /\ recent' \in [Places -> [Uploads -> {"none", "pending"} \cup Done]]
        /\ \A p \in Places, u \in Uploads : recent'[p][u] = "ok" => recent[p][u] = "ok"
    BY <1>10 DEF Crash, TypeOK
  <2>3. OkIsStored' /\ LedgerIsStored'
    BY <1>10, <2>1, <2>2, StoredKeeps DEF Crash, TypeOK
  <2>4. TypeOK' /\ OpenIsFinite'
    BY <1>10, <2>1, <2>2, FS_EmptySet, HostInsertsAssumption DEF Crash, Fault, TypeOK, OpenIsFinite
  <2> QED BY <2>1, <2>3, <2>4
<1>11. ASSUME NEW b \in stray, LandsLate(b) PROVE IInv'
  <2>1. PICK months \in SUBSET Months : Lands(b, months)
    BY <1>11 DEF LandsLate
  <2>2. /\ stored' \in [Partitions -> [Uploads -> Nat]]
        /\ tokens' \in [Partitions -> SUBSET SUBSET Uploads]
        /\ Grows /\ TokenIsStored'
    BY <2>1, LandsStores
  <2>3. OkIsStored' /\ LedgerIsStored'
    BY <1>11, <2>2, StoredKeeps DEF LandsLate, TypeOK
  <2>4. TypeOK' /\ OpenIsFinite'
    BY <1>11, <2>2 DEF LandsLate, TypeOK, OpenIsFinite
  <2> QED BY <2>2, <2>3, <2>4
<1>12. CASE UNCHANGED vars
  BY <1>12 DEF vars, TypeOK, OpenIsFinite, TokenIsStored, OkIsStored, LedgerIsStored, Held
<1> QED BY <1>1, <1>2, <1>3, <1>4, <1>5, <1>6, <1>7, <1>8, <1>9, <1>10, <1>11, <1>12 DEF Next

LEMMA SpecIInv == Spec => []IInv
<1> QED BY InitIInv, NextIInv, PTL DEF Spec

-----------------------------------------------------------------------------
(* Outcomes, tokens and batches keep their types, and no open batch        *)
(* reaches the limit (host_insert_batcher.py), whatever fails.             *)
THEOREM TypeCorrect == Spec => []TypeOK
<1>1. IInv => TypeOK
  BY DEF IInv
<1> QED BY <1>1, SpecIInv, PTL

(* Every table holds what an agent dropped from its spool, or counted a    *)
(* row of it twice, for any number of uploads that share batches, workers  *)
(* that replay, failed, verified and given-up inserts, late blocks, lost   *)
(* answers and restarts (rows_present, host_insert_batcher.py).            *)
THEOREM AckedStored == Spec => []AckedIsStored
<1>1. IInv => AckedIsStored
  BY DEF IInv, TypeOK, LedgerIsStored, Held, AckedIsStored
<1> QED BY <1>1, SpecIInv, PTL

-----------------------------------------------------------------------------
(* A pending upload is in one batch: the open one or one that is written. *)
InOpen(p, u) == u \in open[p]
InWrite(p, u, b) == b \in writes /\ b.place = p /\ u \in b.members

OneBatchAt(p, u) ==
    /\ InOpen(p, u) => recent[p][u] = "pending" /\ \A b : ~InWrite(p, u, b)
    /\ \A b : InWrite(p, u, b) =>
          recent[p][u] = "pending" /\ \A c : InWrite(p, u, c) => c = b
    /\ recent[p][u] = "pending" => InOpen(p, u) \/ \E b : InWrite(p, u, b)

OneBatch == \A p \in Places, u \in Uploads : OneBatchAt(p, u)

(* An upload that was never in doubt is with one worker, its row is stored *)
(* at most once in a partition, and once it is, a write that still holds   *)
(* it repeats a block the partition knows.                                 *)
WithOneWorker(t, u) ==
    \A v, w \in Workers : recent[<<v, t>>][u] = "pending" /\ recent[<<w, t>>][u] = "pending" => v = w

OnlyRepeated(q, u) ==
    \A w \in Workers : /\ ~InOpen(<<w, q[1]>>, u)
                       /\ \A b : InWrite(<<w, q[1]>>, u, b) => b.members \in tokens[q]

OnceAt(q, u) ==
    /\ WithOneWorker(q[1], u) /\ stored[q][u] <= 1
    /\ stored[q][u] > 0 => OnlyRepeated(q, u)

Once == \A q \in Partitions, u \in Uploads : u \notin doubt => OnceAt(q, u)

(* What an upload that enters does to batches and outcomes: nothing where  *)
(* it joins, elsewhere it becomes pending in the open batch, which may     *)
(* become a write.                                                         *)
Untouched(p, u) ==
    /\ recent'[p][u] = recent[p][u]
    /\ u \in open'[p] <=> u \in open[p]
    /\ \A b : InWrite(p, u, b)' <=> InWrite(p, u, b)

Joined(p, u, v) ==
    /\ recent'[p][v] = IF v = u THEN "pending" ELSE recent[p][v]
    /\ v \in open'[p] <=> v \in open[p] \/ v = u
    /\ \A b : InWrite(p, v, b)' <=> InWrite(p, v, b)

Flushed(p, u, v, c) ==
    /\ recent'[p][v] = IF v = u THEN "pending" ELSE recent[p][v]
    /\ v \notin open'[p]
    /\ \A b : InWrite(p, v, b)' <=> InWrite(p, v, b) \/ (b = c /\ (v \in open[p] \/ v = u))

Moves(p, u, w) ==
    \/ /\ p[1] # w \/ recent[p][u] \in {"pending", "ok"}
       /\ \A v \in Uploads : Untouched(p, v)
    \/ /\ p[1] = w /\ recent[p][u] \in {"none", "failed"}
       /\ \/ \A v \in Uploads : Joined(p, u, v)
          \/ \E c : \A v \in Uploads : Flushed(p, u, v, c)

LEMMA EnterMoves ==
  ASSUME IInv, NEW u \in Uploads, NEW w \in Workers, Enter(u, w)
  PROVE  \A p \in Places : Moves(p, u, w)
<1> DEFINE here == {p \in Places : p[1] = w /\ ~Joins(recent[p][u])}
           grown == [p \in Places |-> open[p] \cup IF p \in here THEN {u} ELSE {}]
           full == {p \in here : Full(grown[p])}
<1>1. /\ open' = [p \in Places |-> IF p \in full THEN {} ELSE grown[p]]
      /\ writes' = writes \cup {Write(p, grown[p]) : p \in full}
      /\ recent' = [p \in Places |->
                       IF p \in here THEN [recent[p] EXCEPT ![u] = "pending"] ELSE recent[p]]
  BY DEF Enter
<1>2. recent \in [Places -> [Uploads -> {"none", "pending"} \cup Done]]
  BY DEF IInv, TypeOK
<1> TAKE p \in Places
<1>3. CASE p \notin here
  <2>1. p[1] # w \/ recent[p][u] \in {"pending", "ok"}
    BY <1>3 DEF Joins
  <2>2. open'[p] = open[p] /\ recent'[p] = recent[p]
    BY <1>1, <1>3
  <2>3. \A b : b \in writes' /\ b.place = p => b \in writes
    <3> TAKE b
    <3>1. \A q \in full : Write(q, grown[q]).place = q
      BY DEF Write
    <3> HIDE DEF grown, full
    <3>2. \A q \in full : q # p
      BY <1>3 DEF full
    <3> QED BY <1>1, <3>1, <3>2
  <2>4. writes \subseteq writes'
    BY <1>1
  <2>5. \A v \in Uploads : Untouched(p, v)
    BY <2>2, <2>3, <2>4 DEF Untouched, InWrite
  <2> QED BY <2>1, <2>5 DEF Moves
<1>4. CASE p \in here
  <2>1. p[1] = w /\ recent[p][u] \in {"none", "failed"}
    BY <1>2, <1>4 DEF Joins, Done
  <2>2. \A v \in Uploads : recent'[p][v] = IF v = u THEN "pending" ELSE recent[p][v]
    BY <1>1, <1>2, <1>4
  <2>3. grown[p] = open[p] \cup {u}
    BY <1>4
  <2>4. CASE p \notin full
    <3>1. open'[p] = open[p] \cup {u}
      BY <1>1, <2>3, <2>4
    <3>2. \A b : b \in writes' /\ b.place = p => b \in writes
      <4> TAKE b
      <4>1. \A q \in full : Write(q, grown[q]).place = q
        BY DEF Write
      <4> HIDE DEF grown, full
      <4> QED BY <1>1, <2>4, <4>1
    <3>3. writes \subseteq writes'
      BY <1>1
    <3>4. \A v \in Uploads : Joined(p, u, v)
      BY <2>2, <3>1, <3>2, <3>3 DEF Joined, InWrite
    <3> QED BY <2>1, <3>4 DEF Moves
  <2>5. CASE p \in full
    <3> DEFINE c == Write(p, grown[p])
    <3>1. open'[p] = {}
      BY <1>1, <2>5
    <3>2. c.place = p /\ c.members = open[p] \cup {u} /\ c \in writes'
      BY <1>1, <2>3, <2>5 DEF Write
    <3>3. \A b : b \in writes' /\ b.place = p <=> (b \in writes /\ b.place = p) \/ b = c
      <4> TAKE b
      <4>1. \A q \in full : Write(q, grown[q]).place = q
        BY DEF Write
      <4> HIDE DEF grown, full
      <4> QED BY <1>1, <2>5, <3>2, <4>1
    <3> HIDE DEF c
    <3>4. \A v \in Uploads : Flushed(p, u, v, c)
      BY <2>2, <3>1, <3>2, <3>3 DEF Flushed, InWrite
    <3> QED BY <2>1, <3>4 DEF Moves
  <2> QED BY <2>4, <2>5
<1> QED BY <1>3, <1>4

(* A write that ends takes its uploads with it and no others. *)
LEMMA ResolveMoves ==
  ASSUME IInv, OneBatch, NEW b \in writes, NEW good \in SUBSET Uploads, Resolve(b, good)
  PROVE  \A p \in Places, u \in Uploads :
           /\ \A c : InWrite(p, u, c)' <=> InWrite(p, u, c) /\ c # b
           /\ recent'[p][u] = IF InWrite(p, u, b) THEN (IF u \in good THEN "ok" ELSE "failed")
                             ELSE recent[p][u]
<1>1. recent \in [Places -> [Uploads -> {"none", "pending"} \cup Done]]
  BY DEF IInv, TypeOK
<1>2. writes' = writes \ {b}
  BY DEF Resolve
<1> TAKE p \in Places, u \in Uploads
<1>3. \A c : InWrite(p, u, c)' <=> InWrite(p, u, c) /\ c # b
  BY <1>2 DEF InWrite
<1>4. recent'[p][u] = IF InWrite(p, u, b) THEN (IF u \in good THEN "ok" ELSE "failed")
                      ELSE recent[p][u]
  BY <1>1 DEF Resolve, InWrite
<1> QED BY <1>3, <1>4

LEMMA ResolveOneBatch ==
  ASSUME IInv, OneBatch, NEW b \in writes, NEW good \in SUBSET Uploads, Resolve(b, good), open' = open
  PROVE  OneBatch'
<1> SUFFICES ASSUME NEW p \in Places, NEW u \in Uploads PROVE OneBatchAt(p, u)'
    BY DEF OneBatch
<1>1. OneBatchAt(p, u)
  BY DEF OneBatch
<1>2. InOpen(p, u)' <=> InOpen(p, u)
  BY DEF InOpen
<1> QED BY <1>1, <1>2, ResolveMoves DEF OneBatchAt

(* Every step keeps each pending upload in one batch. *)
LEMMA NextOneBatch == IInv /\ OneBatch /\ [Next]_vars => OneBatch'
<1> SUFFICES ASSUME IInv, OneBatch, [Next]_vars PROVE OneBatch'
    OBVIOUS
<1>1. ASSUME NEW u \in Uploads, NEW w \in Workers, Post(u, w) PROVE OneBatch'
  <2> SUFFICES ASSUME NEW p \in Places, NEW v \in Uploads PROVE OneBatchAt(p, v)'
      BY DEF OneBatch
  <2>1. Enter(u, w)
    BY <1>1 DEF Post
  <2>2. OneBatchAt(p, v) /\ OneBatchAt(p, u)
    BY DEF OneBatch
  <2>3. CASE Untouched(p, v)
    BY <2>2, <2>3 DEF OneBatchAt, InOpen, Untouched
  <2>4. ASSUME recent[p][u] \in {"none", "failed"}, Joined(p, u, v)
        PROVE  OneBatchAt(p, v)'
    BY <2>2, <2>4 DEF OneBatchAt, InOpen, Joined
  <2>5. ASSUME recent[p][u] \in {"none", "failed"}, NEW c, Flushed(p, u, v, c)
        PROVE  OneBatchAt(p, v)'
    <3>1. CASE v = u
      <4>1. u \notin open[p] /\ \A b : ~InWrite(p, u, b)
        BY <2>2, <2>5 DEF OneBatchAt, InOpen
      <4> QED BY <2>5, <3>1, <4>1 DEF OneBatchAt, InOpen, Flushed
    <3>2. CASE v # u
      BY <2>2, <2>5, <3>2 DEF OneBatchAt, InOpen, Flushed
    <3> QED BY <3>1, <3>2
  <2>6. Moves(p, u, w)
    BY <2>1, EnterMoves
  <2> QED BY <2>3, <2>4, <2>5, <2>6 DEF Moves
<1>2. ASSUME NEW u \in Uploads, NEW w \in Workers, Prune(w, u) PROVE OneBatch'
  <2> SUFFICES ASSUME NEW p \in Places, NEW v \in Uploads PROVE OneBatchAt(p, v)'
      BY DEF OneBatch
  <2>1. recent'[p][v] = recent[p][v] \/ (recent[p][v] \in Done /\ recent'[p][v] = "none")
    BY <1>2 DEF Prune, IInv, TypeOK, Places
  <2>2. /\ InOpen(p, v)' <=> InOpen(p, v)
        /\ \A c : InWrite(p, v, c)' <=> InWrite(p, v, c)
    BY <1>2 DEF Prune, InOpen, InWrite
  <2>3. OneBatchAt(p, v)
    BY DEF OneBatch
  <2> QED BY <2>1, <2>2, <2>3 DEF OneBatchAt, Done
<1>3. ASSUME UNCHANGED <<open, writes, recent>> PROVE OneBatch'
  BY <1>3 DEF OneBatch, OneBatchAt, InOpen, InWrite
<1>4. ASSUME NEW q \in Places, FlushTimer(q) PROVE OneBatch'
  <2> SUFFICES ASSUME NEW p \in Places, NEW v \in Uploads PROVE OneBatchAt(p, v)'
      BY DEF OneBatch
  <2> DEFINE c == Write(q, open[q])
  <2>1. \A b : InWrite(p, v, b)' <=> InWrite(p, v, b) \/ (b = c /\ p = q /\ InOpen(p, v))
    BY <1>4 DEF FlushTimer, InWrite, InOpen, Write
  <2>2. InOpen(p, v)' <=> InOpen(p, v) /\ p # q
    BY <1>4 DEF FlushTimer, InOpen, IInv, TypeOK
  <2>3. recent'[p][v] = recent[p][v] /\ OneBatchAt(p, v)
    BY <1>4 DEF FlushTimer, OneBatch
  <2> HIDE DEF c
  <2> QED BY <2>1, <2>2, <2>3 DEF OneBatchAt
<1>5. ASSUME NEW b \in writes, Insert(b) PROVE OneBatch'
  BY <1>5, ResolveOneBatch DEF Insert, IInv, TypeOK
<1>6. ASSUME NEW b \in writes, InsertFails(b) PROVE OneBatch'
  <2> SUFFICES ASSUME NEW p \in Places, NEW v \in Uploads PROVE OneBatchAt(p, v)'
      BY DEF OneBatch
  <2> DEFINE d == [b EXCEPT !.failed = TRUE]
  <2>1. d.place = b.place /\ d.members = b.members
    BY DEF IInv, TypeOK
  <2>2. \A c : InWrite(p, v, c)' <=> (InWrite(p, v, c) /\ c # b) \/ (c = d /\ InWrite(p, v, b))
    <3> HIDE DEF d
    <3> QED BY <1>6, <2>1 DEF InsertFails, InWrite, d
  <2>3. /\ recent'[p][v] = recent[p][v] /\ OneBatchAt(p, v)
        /\ InOpen(p, v)' <=> InOpen(p, v)
    BY <1>6 DEF InsertFails, OneBatch, InOpen
  <2> HIDE DEF d
  <2> QED BY <2>2, <2>3 DEF OneBatchAt
<1>7. ASSUME NEW b \in writes, GiveUp(b) PROVE OneBatch'
  <2>1. Verified(b) \in SUBSET Uploads
    BY DEF Verified, IInv, TypeOK
  <2>2. PICK good \in SUBSET Verified(b) : Resolve(b, good)
    BY <1>7 DEF GiveUp
  <2> QED BY <1>7, <2>1, <2>2, ResolveOneBatch DEF GiveUp
<1>8. ASSUME NEW w \in Workers, Crash(w) PROVE OneBatch'
  <2> SUFFICES ASSUME NEW p \in Places, NEW v \in Uploads PROVE OneBatchAt(p, v)'
      BY DEF OneBatch
  <2>1. writes' = {b \in writes : b.place[1] # w}
    BY <1>8 DEF Crash
  <2>2. CASE p[1] = w
    <3>1. ~InOpen(p, v)' /\ recent'[p][v] = "none"
      BY <1>8, <2>2 DEF Crash, InOpen
    <3>2. \A b : ~InWrite(p, v, b)'
      BY <2>1, <2>2 DEF InWrite
    <3> QED BY <3>1, <3>2 DEF OneBatchAt
  <2>3. CASE p[1] # w
    <3>1. (InOpen(p, v)' <=> InOpen(p, v)) /\ recent'[p][v] = recent[p][v]
      BY <1>8, <2>3 DEF Crash, InOpen
    <3>2. \A b : InWrite(p, v, b)' <=> InWrite(p, v, b)
      BY <2>1, <2>3 DEF InWrite
    <3>3. OneBatchAt(p, v)
      BY DEF OneBatch
    <3> QED BY <3>1, <3>2, <3>3 DEF OneBatchAt
  <2> QED BY <2>2, <2>3
<1> QED BY <1>1, <1>2, <1>3, <1>4, <1>5, <1>6, <1>7, <1>8
        DEF Next, PostKnown, Finish, Deadline, LandsLate, vars

(* A write that lands stores an upload that is not in doubt for the first  *)
(* time, or is a block the partition knows; the writes that are left can   *)
(* only repeat it.                                                         *)
LEMMA LandsOnce ==
  ASSUME IInv, OneBatch, Once, NEW b \in writes, NEW months \in SUBSET Months, Lands(b, months),
         NEW q \in Partitions, NEW u \in Uploads, u \notin doubt
  PROVE  /\ stored'[q][u] \in {0, 1}
         /\ stored'[q][u] = 1 => \A w \in Workers :
               /\ ~InOpen(<<w, q[1]>>, u)
               /\ \A c : InWrite(<<w, q[1]>>, u, c) => c.members \in tokens'[q]
<1> DEFINE new == {r \in Partitions : /\ r[1] = b.place[2] /\ r[2] \in months
                                      /\ b.members \notin tokens[r]}
<1>1. /\ b.place \in Places /\ b.place[2] \in Tables /\ b.place[1] \in Workers
      /\ b.place = <<b.place[1], b.place[2]>> /\ b.members \subseteq Uploads
      /\ q[1] \in Tables /\ stored[q][u] \in Nat
  BY DEF IInv, TypeOK, Places, Partitions
<1>2. /\ tokens'[q] = tokens[q] \cup IF q \in new THEN {b.members} ELSE {}
      /\ stored'[q][u] = stored[q][u] + IF q \in new /\ u \in b.members THEN 1 ELSE 0
  BY DEF Lands, Token
<1>3. q \in new => q[1] = b.place[2] /\ b.members \notin tokens[q]
  OBVIOUS
<1> HIDE DEF new
<1>4. OnceAt(q, u)
  BY DEF Once
<1>5. CASE ~(q \in new /\ u \in b.members)
  BY <1>1, <1>2, <1>4, <1>5 DEF OnceAt, OnlyRepeated
<1>6. CASE q \in new /\ u \in b.members
  <2>1. InWrite(<<b.place[1], q[1]>>, u, b)
    BY <1>1, <1>3, <1>6 DEF InWrite
  <2>2. stored[q][u] = 0
    BY <1>1, <1>3, <1>4, <1>6, <2>1 DEF OnceAt, OnlyRepeated
  <2>3. \A w \in Workers : w # b.place[1] => recent[<<w, q[1]>>][u] # "pending"
    <3>1. OneBatchAt(b.place, u)
      BY <1>1 DEF OneBatch
    <3> QED BY <1>1, <1>3, <1>4, <1>6, <2>1, <3>1 DEF OneBatchAt, OnceAt, WithOneWorker
  <2>4. ASSUME NEW w \in Workers
        PROVE  /\ ~InOpen(<<w, q[1]>>, u)
               /\ \A c : InWrite(<<w, q[1]>>, u, c) => c = b
    <3>1. OneBatchAt(<<w, q[1]>>, u)
      BY <1>1 DEF OneBatch, Places
    <3>2. CASE w = b.place[1]
      BY <2>1, <3>1, <3>2 DEF OneBatchAt
    <3>3. CASE w # b.place[1]
      BY <2>3, <3>1, <3>3 DEF OneBatchAt
    <3> QED BY <3>2, <3>3
  <2> QED BY <1>2, <1>6, <2>2, <2>4
<1> QED BY <1>5, <1>6

(* Every step keeps an upload out of doubt stored once, or casts doubt.    *)
LEMMA NextOnce == IInv /\ OneBatch /\ Once /\ [Next]_vars => Once'
<1> SUFFICES ASSUME IInv, OneBatch, Once, [Next]_vars,
                    NEW q \in Partitions, NEW u \in Uploads, u \notin doubt'
             PROVE  OnceAt(q, u)'
    BY DEF Once
<1> DEFINE t == q[1]
<1>1. stored[q][u] \in Nat /\ t \in Tables
  BY DEF IInv, TypeOK, Partitions
<1>2. u \notin doubt => OnceAt(q, u)
  BY DEF Once
<1>3. \A w \in Workers : <<w, t>> \in Places /\ OneBatchAt(<<w, t>>, u)
  BY <1>1 DEF OneBatch, Places
<1>4. ASSUME NEW v \in Uploads, NEW w \in Workers, Post(v, w) PROVE OnceAt(q, u)'
  <2>1. /\ \A x \in Workers : Moves(<<x, t>>, v, w)
        /\ stored' = stored /\ tokens' = tokens /\ doubt \subseteq doubt'
    BY <1>3, <1>4, EnterMoves DEF Post
  <2>2. OnceAt(q, u)
    BY <1>2, <2>1
  <2>3. CASE \A x \in Workers : Untouched(<<x, t>>, u)
    BY <2>1, <2>2, <2>3 DEF OnceAt, WithOneWorker, OnlyRepeated, InOpen, Untouched
  <2>4. CASE u # v
    <3>1. \A x \in Workers :
             /\ recent'[<<x, t>>][u] = recent[<<x, t>>][u]
             /\ u \in open'[<<x, t>>] => u \in open[<<x, t>>]
             /\ \A b : InWrite(<<x, t>>, u, b)' => InWrite(<<x, t>>, u, b) \/ u \in open[<<x, t>>]
      BY <2>1, <2>4 DEF Moves, Untouched, Joined, Flushed
    <3> QED BY <2>1, <2>2, <3>1 DEF OnceAt, WithOneWorker, OnlyRepeated, InOpen
  <2>5. CASE u = v /\ recent[<<w, t>>][u] \in {"none", "failed"}
    <3>1. ~Untraced(u, w)
      BY <1>4, <2>5 DEF Post
    <3>2. \A r \in Partitions : recent[<<w, r[1]>>][u] \in {"none", "failed"} =>
             ~(stored[r][u] > 0) /\ \A x \in Workers : recent[<<x, r[1]>>][u] # "pending"
      BY <3>1 DEF Untraced
    <3>3. ~(stored[q][u] > 0) /\ \A x \in Workers : recent[<<x, t>>][u] # "pending"
      BY <2>5, <3>2
    <3>4. stored[q][u] = 0 /\ \A x \in Workers : recent[<<x, t>>][u] # "pending"
      BY <1>1, <3>3
    <3>5. \A x \in Workers : x # w => recent'[<<x, t>>][u] = recent[<<x, t>>][u]
      BY <2>1, <2>5 DEF Moves, Untouched
    <3> QED BY <2>1, <3>4, <3>5 DEF OnceAt, WithOneWorker
  <2>6. CASE u = v /\ recent[<<w, t>>][u] \notin {"none", "failed"}
    <3>1. \A x \in Workers : Untouched(<<x, t>>, u)
      BY <2>1, <2>6 DEF Moves
    <3> QED BY <2>3, <3>1
  <2> QED BY <2>4, <2>5, <2>6
<1>5. ASSUME NEW v \in Uploads, NEW w \in Workers, Prune(w, v) PROVE OnceAt(q, u)'
  <2>1. \A x \in Workers : recent'[<<x, t>>][u] \in {recent[<<x, t>>][u], "none"}
    BY <1>3, <1>5 DEF Prune, IInv, TypeOK
  <2> QED BY <1>2, <1>5, <2>1 DEF Prune, OnceAt, WithOneWorker, OnlyRepeated, InOpen, InWrite
<1>6. ASSUME UNCHANGED <<open, writes, recent, stored, tokens, doubt>> PROVE OnceAt(q, u)'
  BY <1>2, <1>6 DEF OnceAt, WithOneWorker, OnlyRepeated, InOpen, InWrite
<1>7. ASSUME NEW r \in Places, FlushTimer(r) PROVE OnceAt(q, u)'
  <2>1. \A x \in Workers : u \in open'[<<x, t>>] => u \in open[<<x, t>>]
    BY <1>3, <1>7 DEF FlushTimer, IInv, TypeOK
  <2>2. \A x \in Workers : \A b : InWrite(<<x, t>>, u, b)' => InWrite(<<x, t>>, u, b) \/ u \in open[<<x, t>>]
    BY <1>7 DEF FlushTimer, InWrite, Write
  <2> QED BY <1>2, <1>7, <2>1, <2>2 DEF FlushTimer, OnceAt, WithOneWorker, OnlyRepeated, InOpen
<1>8. ASSUME NEW b \in writes, NEW good \in SUBSET Uploads, Resolve(b, good), open' = open, doubt \subseteq doubt',
             (\E months \in SUBSET Months : Lands(b, months)) \/ UNCHANGED <<stored, tokens>>
      PROVE  OnceAt(q, u)'
  <2>1. WithOneWorker(t, u)'
    BY <1>2, <1>3, <1>8, ResolveMoves DEF OnceAt, WithOneWorker
  <2>2. \A w \in Workers : \A c : InWrite(<<w, t>>, u, c)' => InWrite(<<w, t>>, u, c)
    BY <1>3, <1>8, ResolveMoves
  <2>3. ASSUME NEW months \in SUBSET Months, Lands(b, months) PROVE OnceAt(q, u)'
    BY <1>8, <2>1, <2>2, <2>3, LandsOnce DEF OnceAt, OnlyRepeated, InOpen
  <2>4. CASE UNCHANGED <<stored, tokens>>
    BY <1>2, <1>8, <2>1, <2>2, <2>4 DEF OnceAt, OnlyRepeated, InOpen
  <2> QED BY <1>8, <2>3, <2>4
<1>9. ASSUME NEW b \in writes, Insert(b) PROVE OnceAt(q, u)'
  BY <1>8, <1>9 DEF Insert, IInv, TypeOK
<1>10. ASSUME NEW b \in writes, GiveUp(b) PROVE OnceAt(q, u)'
  <2>1. Verified(b) \in SUBSET Uploads
    BY DEF Verified, IInv, TypeOK
  <2>2. PICK good \in SUBSET Verified(b) : Resolve(b, good)
    BY <1>10 DEF GiveUp
  <2> QED BY <1>8, <1>10, <2>1, <2>2 DEF GiveUp
<1>11. ASSUME NEW b \in writes, InsertFails(b) PROVE OnceAt(q, u)'
  <2> DEFINE d == [b EXCEPT !.failed = TRUE]
  <2>1. d.place = b.place /\ d.members = b.members
    BY DEF IInv, TypeOK
  <2> HIDE DEF d
  <2>2. \A w \in Workers : \A c : InWrite(<<w, t>>, u, c)' =>
           InWrite(<<w, t>>, u, c) \/ (c.members = b.members /\ InWrite(<<w, t>>, u, b))
    BY <1>11, <2>1 DEF InsertFails, InWrite, d
  <2>3. open' = open /\ recent' = recent /\ doubt' = doubt
    BY <1>11 DEF InsertFails
  <2>4. PICK months \in SUBSET Months : Lands(b, months)
    BY <1>11 DEF InsertFails
  <2> QED BY <1>2, <2>2, <2>3, <2>4, LandsOnce DEF OnceAt, WithOneWorker, OnlyRepeated, InOpen
<1>12. ASSUME NEW w \in Workers, Crash(w) PROVE OnceAt(q, u)'
  <2>1. /\ \A x \in Workers : recent'[<<x, t>>][u] \in {recent[<<x, t>>][u], "none"}
        /\ \A x \in Workers : u \in open'[<<x, t>>] => u \in open[<<x, t>>]
    BY <1>3, <1>12 DEF Crash, IInv, TypeOK
  <2>2. \A x \in Workers : \A c : InWrite(<<x, t>>, u, c)' => InWrite(<<x, t>>, u, c)
    BY <1>12 DEF Crash, InWrite
  <2>3. UNCHANGED <<stored, tokens, doubt>>
    BY <1>12 DEF Crash
  <2> QED BY <1>2, <2>1, <2>2, <2>3 DEF OnceAt, WithOneWorker, OnlyRepeated, InOpen
<1>13. ASSUME NEW b \in stray, LandsLate(b) PROVE OnceAt(q, u)'
  <2>1. PICK months \in SUBSET Months : Lands(b, months)
    BY <1>13 DEF LandsLate
  <2>2. u \notin b.members /\ u \notin doubt /\ UNCHANGED <<open, writes, recent>>
    BY <1>13 DEF LandsLate
  <2>3. stored'[q][u] = stored[q][u] /\ tokens[q] \subseteq tokens'[q]
    BY <1>1, <2>1, <2>2 DEF Lands
  <2> QED BY <1>2, <2>2, <2>3 DEF OnceAt, WithOneWorker, OnlyRepeated, InOpen, InWrite
<1> QED BY <1>4, <1>5, <1>6, <1>7, <1>9, <1>10, <1>11, <1>12, <1>13
        DEF Next, PostKnown, Finish, Deadline, vars

LEMMA SpecOnce == Spec => [](IInv /\ OneBatch /\ Once)
<1>1. Init => OneBatch /\ Once
  <2> SUFFICES ASSUME Init PROVE OneBatch /\ Once
      OBVIOUS
  <2>1. OneBatch
    BY DEF Init, OneBatch, OneBatchAt, InOpen, InWrite
  <2>2. \A q \in Partitions, u \in Uploads :
           stored[q][u] = 0 /\ \A w \in Workers : recent[<<w, q[1]>>][u] = "none"
    BY DEF Init, Places, Partitions
  <2>3. Once
    BY <2>2 DEF Once, OnceAt, WithOneWorker
  <2> QED BY <2>1, <2>3
<1> QED BY <1>1, InitIInv, NextIInv, NextOneBatch, NextOnce, PTL DEF Spec

-----------------------------------------------------------------------------
(* A replay under a deadline, an error or a lost answer does not store     *)
(* rows twice, but for the uploads whose write was given up with rows      *)
(* stored, landed after that, or was repeated by a worker that could not   *)
(* trace it (host_insert_batcher.py).                                      *)
THEOREM TwiceUntraced == Spec => []TwiceOnlyUntraced
<1>1. IInv /\ OneBatch /\ Once => TwiceOnlyUntraced
  BY DEF IInv, TypeOK, Once, OnceAt, TwiceOnlyUntraced
<1> QED BY <1>1, SpecOnce, PTL

(* No request waits for a write that is in nobody's hands, and no upload   *)
(* is in two batches of a worker and table.                                *)
THEOREM PendingInOneBatch == Spec => []PendingIsInOneBatch
<1>1. IInv /\ OneBatch => PendingIsInOneBatch
  <2> SUFFICES ASSUME IInv, OneBatch, NEW p \in Places, NEW u \in Uploads
               PROVE  Cardinality({b \in writes : b.place = p /\ u \in b.members})
                        + (IF u \in open[p] THEN 1 ELSE 0) = IF recent[p][u] = "pending" THEN 1 ELSE 0
      BY DEF PendingIsInOneBatch
  <2> DEFINE held == {b \in writes : b.place = p /\ u \in b.members}
  <2>1. OneBatchAt(p, u) /\ \A b : b \in held <=> InWrite(p, u, b)
    BY DEF OneBatch, InWrite
  <2>2. CASE held = {}
    BY <2>1, <2>2, FS_EmptySet DEF OneBatchAt, InOpen
  <2>3. ASSUME NEW b \in held PROVE held = {b} /\ recent[p][u] = "pending" /\ u \notin open[p]
    <3> HIDE DEF held
    <3> QED BY <2>1, <2>3 DEF OneBatchAt, InOpen
  <2>4. \A b : Cardinality({b}) = 1
    BY FS_Singleton
  <2> HIDE DEF held
  <2>5. CASE held # {}
    <3>1. PICK b \in held : TRUE
      BY <2>5
    <3>2. held = {b} /\ recent[p][u] = "pending" /\ u \notin open[p]
      BY <2>3
    <3>3. Cardinality(held) = 1
      BY <2>4, <3>2
    <3> QED BY <3>2, <3>3 DEF held
  <2> QED BY <2>2, <2>5 DEF held
<1> QED BY <1>1, SpecOnce, PTL
=============================================================================
