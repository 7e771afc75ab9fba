------------------------- MODULE FlowDelivery_proofs -------------------------
(***************************************************************************)
(* Proofs about FlowDelivery, for any sizes of batches, queue and spool,   *)
(* any poison rows and any bounds.                                         *)
(***************************************************************************)
EXTENDS FlowDelivery, SequenceTheorems, FiniteSetTheorems, TLAPS

(* What flows: nonempty finite groups of rows, the parts of a batch, and   *)
(* what is yet to be done on disk.                                         *)
Row == Nat \ {0}
Group == {g \in SUBSET Row : g # {} /\ IsFiniteSet(g)}
Piece == [rows : Group, fails : 0..2, retested : BOOLEAN]
Chore == [do : {"write", "drop"}, rows : Group]

CountRec == [written : SUBSET Row, dropped : SUBSET Row, rejected : SUBSET Row, perished : SUBSET Row]

QueueType ==
    /\ taken \in 0..MaxRows /\ pending \in 0..(BatchSize - 1) /\ pending <= taken
    /\ sealed \in Seq(Group) /\ closed \in BOOLEAN /\ stop \in BOOLEAN
DiskType ==
    /\ spool \subseteq Group /\ inflight \in spool \cup {{}} /\ temps \subseteq Group
    /\ landed \subseteq Group /\ broken \in BOOLEAN /\ torn \subseteq Row
    /\ count \in CountRec
SpillerType ==
    /\ spiller \in [phase : {"idle", "look", "write", "commit"}, batch : Group \cup {{}}, wake : BOOLEAN]
    /\ spiller.phase \in {"write", "commit"} => spiller.batch \in Group
WriterRec ==
    [phase : {"look", "take", "deliver", "retest", "isolate", "end", "commit", "done"},
     batch : Group \cup {{}}, disk : BOOLEAN, parts : Seq(Piece), suspects : Seq(Piece),
     any : BOOLEAN, systemic : BOOLEAN]
RetestRec ==
    [todo : Seq(Group), kept : Seq(Group), refused : Seq(Group), work : Seq(Piece),
     bad : SUBSET Row, evidence : BOOLEAN, back : {"look", "end"}]
WriterType == writer \in WriterRec /\ retest \in RetestRec /\ held \in Seq(Group) /\ keep \in Seq(Chore)
Types == QueueType /\ DiskType /\ SpillerType /\ WriterType

(* What each phase of the writer has in hand. *)
Phases ==
    /\ writer.phase # "deliver" => writer.parts = <<>> /\ writer.suspects = <<>>
    /\ writer.phase \notin {"retest", "isolate"} =>
         retest.todo = <<>> /\ retest.kept = <<>> /\ retest.refused = <<>> /\ retest.bad = {}
    /\ writer.phase # "isolate" => retest.work = <<>>
    /\ writer.phase = "isolate" => retest.todo = <<>>
    /\ writer.phase \notin {"look", "take", "deliver"} => held = <<>>
    /\ writer.phase \notin {"end", "commit"} => keep = <<>>
    /\ writer.phase = "commit" => keep # <<>> /\ keep[1].do = "write"
    /\ writer.phase \in {"end", "commit", "done"} \/ stop \/ retest.back = "end" => closed
    /\ closed => pending = 0
    /\ writer.phase = "done" => sealed = <<>>

(* The groups the writer answers for, in the order it would keep them.  A  *)
(* segment that is to be dropped is not one of them.                       *)
ChoresOf(k) == [i \in DOMAIN k |-> IF k[i].do = "write" THEN k[i].rows ELSE {}]
Chores == ChoresOf(keep)
Line ==
    IF writer.phase \in {"look", "take", "deliver"} THEN held \o Groups(Remaining)
    ELSE IF writer.phase \in {"retest", "isolate"}
    THEN retest.kept \o Groups(retest.work) \o retest.refused \o retest.todo
    ELSE Chores

Counted == count.written \cup count.dropped \cup count.rejected \cup count.perished

(* The segment of which the writer has the parts in hand. *)
Opened ==
    IF writer.phase = "deliver" THEN (IF writer.disk THEN {writer.batch} ELSE {})
    ELSE {keep[i].rows : i \in {k \in DOMAIN keep : keep[k].do = "drop"}}

Apart(s, but) == \A i, j \in DOMAIN s : i # j => s[i] \cap s[j] \subseteq but

(* A batch under delivery: its parts are apart, and hold what is not       *)
(* decided of it.                                                          *)
Pieces ==
    LET parts == Groups(Remaining) IN
    writer.phase = "deliver" =>
      /\ writer.batch \in Group /\ Apart(parts, {})
      /\ \A i \in DOMAIN parts : parts[i] \subseteq writer.batch
      /\ writer.disk => inflight = writer.batch /\ writer.batch \subseteq Rows(parts) \cup Counted

(* A segment is dropped when everything in it is elsewhere; none of its    *)
(* parts is the segment itself, which would be dropped with it.            *)
Replaced ==
    \A i \in DOMAIN keep : keep[i].do = "drop" =>
      /\ \A j \in DOMAIN keep : keep[j].do = "drop" => i = j
      /\ \A j \in 1..i - 1 : keep[j].rows # keep[i].rows
      /\ \A r \in keep[i].rows :
           (\E j \in 1..i : r \in Chores[j]) \/ (\E s \in spool : s # keep[i].rows /\ r \in s) \/ r \in Counted

(* Batches are sealed in the order their rows came, and the writer and the *)
(* disk have only older ones.                                              *)
Past == Rows(Line) \cup (UNION spool) \cup (UNION landed) \cup (UNION Opened)
Ages ==
    /\ \A r \in Past : r <= taken - pending
    /\ \A i \in DOMAIN sealed : \A q \in sealed[i] :
         /\ q <= taken - pending
         /\ \A r \in Past : r < q
         /\ \A j \in DOMAIN sealed : j < i => \A r \in sealed[j] : r < q

(* No two tokens stand for a row, unless it is torn: neither those of the  *)
(* groups in hand, nor of the segments that are whole, nor stored ones.    *)
Tokens(line, segs, stored, but) ==
    /\ Apart(line, but)
    /\ \A s, t \in segs : s # t => s \cap t \subseteq but
    /\ \A g, h \in stored : g # h => g \cap h \subseteq but
    /\ \A s \in segs, i \in DOMAIN line : s \cap line[i] \subseteq but
    /\ \A s \in segs, h \in stored : s # h => s \cap h \subseteq but
    /\ \A i \in DOMAIN line, h \in stored : line[i] # h => line[i] \cap h \subseteq but

(* Accounted, said of the line: what is safe of the rows that left the     *)
(* queue.                                                                  *)
Safe == Rows(Line) \cup retest.bad \cup (UNION spool) \cup Counted
Balance == 1..taken \subseteq ((taken - pending + 1)..taken) \cup Rows(sealed) \cup Safe

IInv ==
    /\ Types /\ Phases /\ Pieces /\ Replaced /\ Ages /\ Balance
    /\ Tokens(Line, spool \ Opened, landed, torn)

(* The rows of files that are being written are not said by the above.     *)
Filing == (UNION temps) \cup spiller.batch
Filed == Filing \subseteq 1..taken
-----------------------------------------------------------------------------
(***************************************************************************)
(* Sequences of groups.                                                    *)
(***************************************************************************)
(* What becomes of a line of groups: one leaves it, one is replaced by two *)
(* halves, or the order changes.                                           *)
Without(L, k) == [i \in 1..Len(L) - 1 |-> IF i < k THEN L[i] ELSE L[i + 1]]
Split(L, k, a, b) == [i \in 1..Len(L) + 1 |-> IF i < k THEN L[i] ELSE IF i = k THEN a ELSE IF i = k + 1 THEN b ELSE L[i - 1]]
Picks(M, L) ==
    \E f \in [DOMAIN M -> Nat] :
      \A i \in DOMAIN M : M[i] # {} =>
        /\ f[i] \in DOMAIN L /\ M[i] = L[f[i]]
        /\ \A j \in DOMAIN M : j # i /\ M[j] # {} => f[i] # f[j]

Some == Group \cup {{}}

LEMMA RowsOf == \A s, r : r \in Rows(s) <=> \E i \in DOMAIN s : r \in s[i]
BY DEF Rows

LEMMA SeqFacts ==
    ASSUME NEW S, NEW s \in Seq(S)
    PROVE  /\ Len(s) \in Nat /\ DOMAIN s = 1..Len(s) /\ \A i \in 1..Len(s) : s[i] \in S
           /\ s = <<>> <=> Len(s) = 0
           /\ s # <<>> => /\ Head(s) = s[1] /\ Head(s) \in S /\ Tail(s) \in Seq(S) /\ Len(Tail(s)) = Len(s) - 1
                          /\ \A i \in 1..Len(s) - 1 : Tail(s)[i] = s[i + 1]
BY LenProperties, ElementOfSeq, EmptySeq, HeadTailProperties

LEMMA Joined ==
    ASSUME NEW S, NEW s \in Seq(S), NEW t \in Seq(S)
    PROVE  /\ s \o t \in Seq(S) /\ Len(s \o t) = Len(s) + Len(t) /\ DOMAIN (s \o t) = 1..Len(s) + Len(t)
           /\ \A i \in 1..Len(s) : (s \o t)[i] = s[i]
           /\ \A i \in 1..Len(t) : (s \o t)[Len(s) + i] = t[i]
<1>1. s \o t \in Seq(S) /\ Len(s \o t) = Len(s) + Len(t)
      /\ \A i \in 1 .. Len(s) + Len(t) : (s \o t)[i] = IF i <= Len(s) THEN s[i] ELSE t[i - Len(s)]
  BY ConcatProperties
<1>2. Len(s) \in Nat /\ Len(t) \in Nat
  BY SeqFacts
<1> QED BY <1>1, <1>2, LenProperties

LEMMA RowsJoined ==
    ASSUME NEW S, NEW s \in Seq(S), NEW t \in Seq(S)
    PROVE  Rows(s \o t) = Rows(s) \cup Rows(t)
<1>1. /\ DOMAIN s = 1..Len(s) /\ DOMAIN t = 1..Len(t) /\ Len(s) \in Nat /\ Len(t) \in Nat
  BY SeqFacts
<1>a. /\ DOMAIN (s \o t) = 1..Len(s) + Len(t)
      /\ \A i \in 1..Len(s) : (s \o t)[i] = s[i]
      /\ \A i \in 1..Len(t) : (s \o t)[Len(s) + i] = t[i]
  BY Joined
<1>2. ASSUME NEW r \in Rows(s \o t) PROVE r \in Rows(s) \cup Rows(t)
  <2>1. PICK i \in 1..Len(s) + Len(t) : r \in (s \o t)[i]
    BY <1>a, <1>2, RowsOf
  <2>2. CASE i <= Len(s)
    BY <1>1, <1>a, <2>1, <2>2, RowsOf
  <2>3. CASE i > Len(s)
    <3> DEFINE j == i - Len(s)
    <3>1. j \in 1..Len(t) /\ i = Len(s) + j
      BY <1>1, <2>3
    <3> QED BY <1>1, <1>a, <2>1, <3>1, RowsOf
  <2> QED BY <1>1, <2>2, <2>3
<1>3. ASSUME NEW r \in Rows(s) PROVE r \in Rows(s \o t)
  <2>1. PICK i \in 1..Len(s) : r \in s[i]
    BY <1>1, <1>3, RowsOf
  <2>2. i \in 1..Len(s) + Len(t)
    BY <1>1
  <2> QED BY <1>a, <2>1, <2>2, RowsOf
<1>4. ASSUME NEW r \in Rows(t) PROVE r \in Rows(s \o t)
  <2>1. PICK i \in 1..Len(t) : r \in t[i]
    BY <1>1, <1>4, RowsOf
  <2>2. Len(s) + i \in 1..Len(s) + Len(t) /\ r \in (s \o t)[Len(s) + i]
    BY <1>1, <1>a, <2>1
  <2> QED BY <1>a, <2>2, RowsOf
<1> QED BY <1>2, <1>3, <1>4

LEMMA GroupsOf ==
    ASSUME NEW s \in Seq(Piece)
    PROVE  Groups(s) \in Seq(Group) /\ Len(Groups(s)) = Len(s) /\ \A i \in 1..Len(s) : Groups(s)[i] = s[i].rows
<1>1. Len(s) \in Nat /\ DOMAIN s = 1..Len(s) /\ \A i \in 1..Len(s) : s[i] \in Piece
  BY SeqFacts
<1>2. \A i \in 1..Len(s) : s[i].rows \in Group
  BY <1>1 DEF Piece
<1>3. Groups(s) = [i \in 1..Len(s) |-> s[i].rows]
  BY <1>1 DEF Groups
<1>4. Groups(s) \in Seq(Group)
  BY <1>1, <1>2, <1>3, IsASeq
<1>5. Len(Groups(s)) = Len(s)
  BY <1>1, <1>3, <1>4, SeqFacts
<1> QED BY <1>3, <1>4, <1>5

LEMMA GroupsJoined ==
    ASSUME NEW s \in Seq(Piece), NEW t \in Seq(Piece)
    PROVE  Groups(s \o t) = Groups(s) \o Groups(t)
<1>a. Groups(s) \in Seq(Group) /\ Groups(t) \in Seq(Group)
  BY GroupsOf
<1>1. PICK gs \in Seq(Group), gt \in Seq(Group) :
        /\ gs = Groups(s) /\ gt = Groups(t) /\ Len(gs) = Len(s) /\ Len(gt) = Len(t)
        /\ \A i \in 1..Len(s) : gs[i] = s[i].rows
        /\ \A i \in 1..Len(t) : gt[i] = t[i].rows
  BY <1>a, GroupsOf
<1>b. /\ s \o t \in Seq(Piece) /\ Len(s \o t) = Len(s) + Len(t)
      /\ \A i \in 1..Len(s) : (s \o t)[i] = s[i]
      /\ \A i \in 1..Len(t) : (s \o t)[Len(s) + i] = t[i]
  BY Joined
<1>c. /\ gs \o gt \in Seq(Group) /\ Len(gs \o gt) = Len(gs) + Len(gt)
      /\ \A i \in 1..Len(gs) : (gs \o gt)[i] = gs[i]
      /\ \A i \in 1..Len(gt) : (gs \o gt)[Len(gs) + i] = gt[i]
  BY Joined
<1>d. PICK u \in Seq(Piece) :
        /\ u = s \o t /\ Len(u) = Len(s) + Len(t) /\ \A i \in 1..Len(s) : u[i] = s[i]
        /\ \A i \in 1..Len(t) : u[Len(s) + i] = t[i]
  BY <1>b
<1>2. PICK v \in Seq(Group) :
        /\ v = gs \o gt /\ Len(v) = Len(s) + Len(t) /\ \A i \in 1..Len(s) : v[i] = gs[i]
        /\ \A i \in 1..Len(t) : v[Len(s) + i] = gt[i]
  <2>1. PICK v \in Seq(Group) :
          /\ v = gs \o gt /\ Len(v) = Len(gs) + Len(gt) /\ \A i \in 1..Len(gs) : v[i] = gs[i]
          /\ \A i \in 1..Len(gt) : v[Len(gs) + i] = gt[i]
    BY <1>c
  <2>2. \A i \in 1..Len(t) : v[Len(s) + i] = gt[i]
    BY <1>1, <2>1
  <2> QED BY <1>1, <2>1, <2>2
<1>3. PICK w \in Seq(Group) : w = Groups(u) /\ Len(w) = Len(u) /\ \A i \in 1..Len(u) : w[i] = u[i].rows
  BY GroupsOf
<1>4. Len(s) \in Nat /\ Len(t) \in Nat
  BY SeqFacts
<1>5. ASSUME NEW i \in 1..Len(s) + Len(t) PROVE w[i] = v[i]
  <2>1. CASE i \in 1..Len(s)
    BY <1>1, <1>d, <1>2, <1>3, <1>4, <2>1
  <2>2. CASE i \notin 1..Len(s)
    <3>1. PICK j \in 1..Len(t) : i = Len(s) + j
      <4>1. i - Len(s) \in 1..Len(t) /\ i = Len(s) + (i - Len(s))
        BY <1>4, <2>2
      <4> QED BY <4>1
    <3>2. v[i] = t[j].rows
      BY <1>1, <1>2, <3>1
    <3>3. u[i] = t[j]
      BY <1>d, <3>1
    <3>4. i \in 1..Len(u)
      BY <1>d, <1>4, <1>5
    <3>5. w[i] = u[i].rows
      BY <1>3, <3>4
    <3> QED BY <3>2, <3>3, <3>5
  <2> QED BY <2>1, <2>2
<1>6. w = v
  BY <1>d, <1>2, <1>3, <1>5, SeqEqual
<1> QED BY <1>1, <1>d, <1>2, <1>3, <1>6

(* An element x amid a sequence, at place k.                               *)
Amid(a, x, z, k) ==
    /\ a \o (<<x>> \o z) \in Seq(Some) /\ k \in 1..Len(a \o (<<x>> \o z))
    /\ (a \o (<<x>> \o z))[k] = x
    /\ Without(a \o (<<x>> \o z), k) = a \o z
    /\ \A b, c \in Some : Split(a \o (<<x>> \o z), k, b, c) = a \o (<<b, c>> \o z)

LEMMA Middle ==
    ASSUME NEW a \in Seq(Some), NEW z \in Seq(Some), NEW x \in Some, NEW k, k = Len(a) + 1
    PROVE  Amid(a, x, z, k)
<1> DEFINE L == a \o (<<x>> \o z)
<1>k. k = Len(a) + 1
  OBVIOUS
<1> HIDE DEF L
<1>1. Len(a) \in Nat /\ Len(z) \in Nat
  BY SeqFacts
<1>2. /\ <<x>> \in Seq(Some) /\ Len(<<x>>) = 1 /\ <<x>>[1] = x
  OBVIOUS
<1>3. PICK y \in Seq(Some) :
        y = <<x>> \o z /\ Len(y) = 1 + Len(z) /\ y[1] = x /\ \A i \in 1..Len(z) : y[1 + i] = z[i]
  <2>1. /\ <<x>> \o z \in Seq(Some) /\ Len(<<x>> \o z) = Len(<<x>>) + Len(z)
        /\ \A i \in 1..Len(<<x>>) : (<<x>> \o z)[i] = <<x>>[i]
        /\ \A i \in 1..Len(z) : (<<x>> \o z)[Len(<<x>>) + i] = z[i]
    BY <1>2, Joined
  <2> DEFINE y == <<x>> \o z
  <2>2. y \in Seq(Some) /\ Len(y) = 1 + Len(z) /\ y[1] = x /\ \A i \in 1..Len(z) : y[1 + i] = z[i]
    BY <1>2, <2>1
  <2> QED BY <2>2
<1>5. /\ L \in Seq(Some) /\ Len(L) = Len(a) + Len(y) /\ \A i \in 1..Len(a) : L[i] = a[i]
      /\ \A i \in 1..Len(y) : L[Len(a) + i] = y[i]
  <2>1. L = a \o y
    BY <1>3 DEF L
  <2> QED BY <2>1, Joined
<1>6. PICK m \in Seq(Some) :
        /\ m = a \o z /\ Len(m) = Len(a) + Len(z) /\ \A i \in 1..Len(a) : m[i] = a[i]
        /\ \A i \in 1..Len(z) : m[Len(a) + i] = z[i]
  <2>1. /\ a \o z \in Seq(Some) /\ Len(a \o z) = Len(a) + Len(z) /\ \A i \in 1..Len(a) : (a \o z)[i] = a[i]
        /\ \A i \in 1..Len(z) : (a \o z)[Len(a) + i] = z[i]
    BY Joined
  <2> QED BY <2>1
<1>8. k \in 1..Len(L) /\ L[k] = x
  BY <1>k, <1>1, <1>3, <1>5
<1>9. Without(L, k) = m
  <2>1. Len(L) - 1 = Len(m) /\ DOMAIN m = 1..Len(m) /\ m = [i \in 1..Len(m) |-> m[i]]
    <3>1. Len(L) - 1 = Len(m)
      BY <1>1, <1>3, <1>5, <1>6
    <3>2. DOMAIN m = 1..Len(m) /\ m \in [1..Len(m) -> Some]
      BY LenProperties
    <3> QED BY <3>1, <3>2
  <2>2. ASSUME NEW i \in 1..Len(m) PROVE m[i] = IF i < k THEN L[i] ELSE L[i + 1]
    <3>1. CASE i < k
      BY <1>k, <1>1, <1>5, <1>6, <3>1
    <3>2. CASE ~(i < k)
      <4>1. PICK j \in 1..Len(z) : i = Len(a) + j
        <5>1. i - Len(a) \in 1..Len(z) /\ i = Len(a) + (i - Len(a))
          BY <1>k, <1>1, <1>6, <3>2
        <5> QED BY <5>1
      <4>2. m[i] = z[j] /\ i + 1 = Len(a) + (1 + j) /\ 1 + j \in 1..Len(y)
        BY <1>1, <1>3, <1>6, <4>1
      <4>3. L[i + 1] = y[1 + j]
        BY <1>5, <4>2
      <4> QED BY <1>k, <1>3, <3>2, <4>1, <4>2, <4>3
    <3> QED BY <3>1, <3>2
  <2> QED BY <2>1, <2>2 DEF Without
<1>11. ASSUME NEW b \in Some, NEW c \in Some PROVE Split(L, k, b, c) = a \o (<<b, c>> \o z)
  <2>2. <<b, c>> \in Seq(Some) /\ Len(<<b, c>>) = 2 /\ <<b, c>>[1] = b /\ <<b, c>>[2] = c
    OBVIOUS
  <2>4. PICK w \in Seq(Some) :
          /\ w = <<b, c>> \o z /\ Len(w) = 2 + Len(z) /\ w[1] = b /\ w[2] = c
          /\ \A i \in 1..Len(z) : w[2 + i] = z[i]
    <3>1. /\ <<b, c>> \o z \in Seq(Some) /\ Len(<<b, c>> \o z) = Len(<<b, c>>) + Len(z)
          /\ \A i \in 1..Len(<<b, c>>) : (<<b, c>> \o z)[i] = <<b, c>>[i]
          /\ \A i \in 1..Len(z) : (<<b, c>> \o z)[Len(<<b, c>>) + i] = z[i]
      BY <2>2, Joined
    <3> DEFINE w == <<b, c>> \o z
    <3>2. w \in Seq(Some) /\ Len(w) = 2 + Len(z) /\ w[1] = b /\ w[2] = c /\ \A i \in 1..Len(z) : w[2 + i] = z[i]
      BY <2>2, <3>1
    <3> QED BY <3>2
  <2>7. PICK n \in Seq(Some) :
          /\ n = a \o w /\ Len(n) = Len(a) + Len(w) /\ \A i \in 1..Len(a) : n[i] = a[i]
          /\ \A i \in 1..Len(w) : n[Len(a) + i] = w[i]
    <3>1. /\ a \o w \in Seq(Some) /\ Len(a \o w) = Len(a) + Len(w) /\ \A i \in 1..Len(a) : (a \o w)[i] = a[i]
          /\ \A i \in 1..Len(w) : (a \o w)[Len(a) + i] = w[i]
      BY Joined
    <3> QED BY <3>1
  <2>10. Split(L, k, b, c) = n
    <3>1. Len(L) + 1 = Len(n) /\ DOMAIN n = 1..Len(n) /\ n = [i \in 1..Len(n) |-> n[i]]
      <4>1. Len(L) + 1 = Len(n)
        BY <1>1, <1>3, <2>4, <1>5, <2>7
      <4>2. DOMAIN n = 1..Len(n) /\ n \in [1..Len(n) -> Some]
        BY LenProperties
      <4> QED BY <4>1, <4>2
    <3>2. ASSUME NEW i \in 1..Len(n)
          PROVE n[i] = IF i < k THEN L[i] ELSE IF i = k THEN b ELSE IF i = k + 1 THEN c ELSE L[i - 1]
      <4>1. CASE i < k
        BY <1>k, <1>1, <1>5, <2>7, <4>1
      <4>a. Len(n) \in Nat /\ Len(w) \in Nat /\ k = Len(a) + 1 /\ i \in Int /\ k \in Int
        BY <1>k, <1>1, <2>4, <2>7
      <4>b. n[Len(a) + 1] = b /\ n[Len(a) + 2] = c
        <5>1. 1 \in 1..Len(w) /\ 2 \in 1..Len(w)
          BY <1>1, <2>4
        <5> QED BY <2>4, <2>7, <5>1
      <4>2. CASE i = k \/ i = k + 1
        BY <1>1, <4>a, <4>b, <4>2
      <4>3. CASE i > k + 1
        <5>1. PICK j \in 1..Len(z) : i = Len(a) + (2 + j)
          <6>1. i - Len(a) - 2 \in 1..Len(z) /\ i = Len(a) + (2 + (i - Len(a) - 2))
            BY <1>k, <1>1, <2>4, <2>7, <4>3
          <6> QED BY <6>1
        <5>a. j \in Nat /\ j >= 1 /\ j <= Len(z)
          BY <1>1
        <5>2. 2 + j \in 1..Len(w) /\ i - 1 = Len(a) + (1 + j) /\ 1 + j \in 1..Len(y)
          <6>1. Len(w) = 2 + Len(z) /\ Len(y) = 1 + Len(z)
            BY <1>3, <2>4
          <6> QED BY <1>1, <5>1, <5>a, <6>1
        <5>3. n[i] = w[2 + j] /\ L[i - 1] = y[1 + j]
          BY <1>5, <2>7, <5>1, <5>2
        <5> QED BY <1>k, <1>1, <1>3, <2>4, <4>3, <5>1, <5>3
      <4>4. i < k \/ i = k \/ i = k + 1 \/ i > k + 1
        <5>1. \A u, v \in Int : u < v \/ u = v \/ u = v + 1 \/ u > v + 1
          OBVIOUS
        <5> QED BY <4>a, <5>1
      <4> QED BY <4>1, <4>2, <4>3, <4>4
    <3> QED BY <3>1, <3>2 DEF Split
  <2> QED BY <2>4, <2>7, <2>10
<1> QED BY <1>5, <1>6, <1>8, <1>9, <1>11 DEF L, Amid

LEMMA Associates ==
    ASSUME NEW a \in Seq(Some), NEW b \in Seq(Some), NEW c \in Seq(Some)
    PROVE  a \o (b \o c) = (a \o b) \o c
BY ConcatAssociative

LEMMA HeadFirst == ASSUME NEW S, NEW s \in Seq(S), s # <<>> PROVE s = <<Head(s)>> \o Tail(s)
<1>1. /\ Len(s) \in Nat /\ Len(s) > 0 /\ Head(s) = s[1] /\ Head(s) \in S /\ Tail(s) \in Seq(S) /\ Len(Tail(s)) = Len(s) - 1
      /\ \A i \in 1..Len(s) - 1 : Tail(s)[i] = s[i + 1]
  BY SeqFacts
<1>2. <<Head(s)>> \in Seq(S) /\ Len(<<Head(s)>>) = 1 /\ <<Head(s)>>[1] = s[1]
  BY <1>1
<1>3. PICK u \in Seq(S) :
        /\ u = <<Head(s)>> \o Tail(s) /\ Len(u) = 1 + Len(Tail(s)) /\ u[1] = s[1]
        /\ \A i \in 1..Len(Tail(s)) : u[1 + i] = Tail(s)[i]
  <2> DEFINE h == <<Head(s)>>
  <2>1. /\ h \o Tail(s) \in Seq(S) /\ Len(h \o Tail(s)) = Len(h) + Len(Tail(s))
        /\ \A i \in 1..Len(h) : (h \o Tail(s))[i] = h[i]
        /\ \A i \in 1..Len(Tail(s)) : (h \o Tail(s))[Len(h) + i] = Tail(s)[i]
    BY <1>1, <1>2, Joined
  <2> HIDE DEF h
  <2>2. Len(h) = 1 /\ h[1] = s[1]
    BY <1>2 DEF h
  <2>3. h \o Tail(s) \in Seq(S) /\ Len(h \o Tail(s)) = 1 + Len(Tail(s)) /\ (h \o Tail(s))[1] = s[1]
    BY <2>1, <2>2
  <2>4. \A i \in 1..Len(Tail(s)) : (h \o Tail(s))[1 + i] = Tail(s)[i]
    BY <2>1, <2>2
  <2> QED BY <2>3, <2>4 DEF h
<1>4. ASSUME NEW i \in 1..Len(s) PROVE s[i] = u[i]
  <2>1. CASE i = 1
    BY <1>3, <2>1
  <2>2. CASE i # 1
    <3>1. i - 1 \in 1..Len(Tail(s)) /\ 1 + (i - 1) = i
      BY <1>1, <2>2
    <3> QED BY <1>1, <1>3, <3>1
  <2> QED BY <2>1, <2>2
<1> QED BY <1>1, <1>3, <1>4, SeqEqual

LEMMA PicksItself == ASSUME NEW L \in Seq(Some) PROVE Picks(L, L)
<1>1. DOMAIN L = 1..Len(L) /\ Len(L) \in Nat
  BY SeqFacts
<1> DEFINE f == [i \in DOMAIN L |-> i]
<1>2. f \in [DOMAIN L -> Nat]
  BY <1>1
<1>3. \A i \in DOMAIN L : f[i] = i
  OBVIOUS
<1> HIDE DEF f
<1> QED BY <1>2, <1>3 DEF Picks

LEMMA PicksAgain ==
    ASSUME NEW K, NEW L, NEW M, Picks(L, K), Picks(M, L)
    PROVE  Picks(M, K)
<1>1. PICK f \in [DOMAIN L -> Nat] :
        \A i \in DOMAIN L : L[i] # {} =>
          /\ f[i] \in DOMAIN K /\ L[i] = K[f[i]]
          /\ \A j \in DOMAIN L : j # i /\ L[j] # {} => f[i] # f[j]
  BY DEF Picks
<1>2. PICK g \in [DOMAIN M -> Nat] :
        \A i \in DOMAIN M : M[i] # {} =>
          /\ g[i] \in DOMAIN L /\ M[i] = L[g[i]]
          /\ \A j \in DOMAIN M : j # i /\ M[j] # {} => g[i] # g[j]
  BY DEF Picks
<1> DEFINE h == [i \in DOMAIN M |-> IF g[i] \in DOMAIN L THEN f[g[i]] ELSE 0]
<1>3. h \in [DOMAIN M -> Nat]
  BY <1>1, <1>2
<1>4. \A i \in DOMAIN M : M[i] # {} => h[i] = f[g[i]]
  BY <1>2
<1> HIDE DEF h
<1>5. ASSUME NEW i \in DOMAIN M, M[i] # {} PROVE h[i] \in DOMAIN K /\ M[i] = K[h[i]]
  BY <1>1, <1>2, <1>4, <1>5
<1>6. ASSUME NEW i \in DOMAIN M, NEW j \in DOMAIN M, M[i] # {}, M[j] # {}, i # j PROVE h[i] # h[j]
  BY <1>1, <1>2, <1>4, <1>6
<1> QED BY <1>3, <1>5, <1>6 DEF Picks

LEMMA WithoutFacts ==
    ASSUME NEW L \in Seq(Some), NEW k \in 1..Len(L)
    PROVE  /\ Without(L, k) \in Seq(Some) /\ Picks(Without(L, k), L)
           /\ Rows(L) = Rows(Without(L, k)) \cup L[k]
           /\ DOMAIN Without(L, k) = 1..Len(L) - 1
           /\ \A X : Apart(L, X) => Apart(Without(L, k), X)
<1> DEFINE M == Without(L, k)
           f == [i \in 1..Len(L) - 1 |-> IF i < k THEN i ELSE i + 1]
<1>1. Len(L) \in Nat /\ DOMAIN L = 1..Len(L) /\ \A i \in 1..Len(L) : L[i] \in Some
  BY SeqFacts
<1>2. /\ DOMAIN M = 1..Len(L) - 1 /\ \A i \in 1..Len(L) - 1 : M[i] = IF i < k THEN L[i] ELSE L[i + 1]
      /\ f \in [DOMAIN M -> Nat] /\ \A i \in 1..Len(L) - 1 : f[i] = IF i < k THEN i ELSE i + 1
  BY <1>1 DEF Without
<1>3. M \in Seq(Some)
  <2>1. \A i \in 1..Len(L) - 1 : (IF i < k THEN L[i] ELSE L[i + 1]) \in Some
    BY <1>1
  <2>2. Len(L) - 1 \in Nat
    BY <1>1
  <2> QED BY <2>1, <2>2, IsASeq DEF Without
<1> HIDE DEF M, f
<1>4. \A i \in DOMAIN M : f[i] \in DOMAIN L /\ f[i] # k /\ M[i] = L[f[i]] /\ \A j \in DOMAIN M : j # i => f[i] # f[j]
  BY <1>1, <1>2
<1>5. Picks(M, L)
  BY <1>2, <1>4 DEF Picks
<1>6. Rows(L) = Rows(M) \cup L[k]
  <2>1. ASSUME NEW r \in Rows(L), r \notin L[k] PROVE r \in Rows(M)
    <3>1. PICK i \in 1..Len(L) : r \in L[i] /\ i # k
      BY <1>1, <2>1, RowsOf
    <3>2. CASE i < k
      <4>1. i \in 1..Len(L) - 1
        BY <1>1, <3>1, <3>2
      <4> QED BY <1>2, <3>1, <3>2, <4>1, RowsOf
    <3>3. CASE i > k
      <4>1. i - 1 \in 1..Len(L) - 1 /\ ~(i - 1 < k) /\ (i - 1) + 1 = i
        BY <1>1, <3>1, <3>3
      <4> QED BY <1>2, <3>1, <4>1, RowsOf
    <3> QED BY <1>1, <3>1, <3>2, <3>3
  <2>2. ASSUME NEW r \in Rows(M) PROVE r \in Rows(L)
    BY <1>4, <2>2, RowsOf
  <2>3. L[k] \subseteq Rows(L)
    BY <1>1, RowsOf
  <2> QED BY <2>1, <2>2, <2>3
<1>7. ASSUME NEW X, Apart(L, X) PROVE Apart(M, X)
  BY <1>4, <1>7 DEF Apart
<1> QED BY <1>2, <1>3, <1>5, <1>6, <1>7 DEF M

IsSplit(M, L, k) ==
    /\ DOMAIN M = 1..Len(L) + 1
    /\ \A i \in DOMAIN M : \E j \in DOMAIN L : M[i] \subseteq L[j]
    /\ Rows(M) = Rows(L)
    /\ \A X : Apart(L, X) => Apart(M, X)
    /\ \A i \in DOMAIN M : \/ \E j \in DOMAIN L : j # k /\ M[i] = L[j]
                           \/ M[i] \subseteq L[k]

LEMMA SplitFacts ==
    ASSUME NEW L \in Seq(Some), NEW k \in 1..Len(L), NEW a, NEW b, a \cup b = L[k], a \cap b = {}
    PROVE  IsSplit(Split(L, k, a, b), L, k)
<1> DEFINE M == Split(L, k, a, b)
           f == [i \in 1..Len(L) + 1 |-> IF i <= k THEN i ELSE i - 1]
<1>1. Len(L) \in Nat /\ DOMAIN L = 1..Len(L) /\ a \subseteq L[k] /\ b \subseteq L[k]
  BY SeqFacts
<1>2. /\ DOMAIN M = 1..Len(L) + 1
      /\ \A i \in 1..Len(L) + 1 :
           M[i] = IF i < k THEN L[i] ELSE IF i = k THEN a ELSE IF i = k + 1 THEN b ELSE L[i - 1]
      /\ \A i \in 1..Len(L) + 1 : f[i] = IF i <= k THEN i ELSE i - 1
  BY <1>1 DEF Split
<1>3. M[k] = a /\ M[k + 1] = b /\ k \in 1..Len(L) + 1 /\ k + 1 \in 1..Len(L) + 1
  BY <1>1, <1>2
<1> HIDE DEF M, f
<1>4. ASSUME NEW i \in 1..Len(L) + 1
      PROVE  /\ f[i] \in 1..Len(L) /\ (f[i] = k <=> i \in {k, k + 1})
             /\ i \notin {k, k + 1} => M[i] = L[f[i]]
             /\ M[i] \subseteq L[f[i]]
  BY <1>1, <1>2, <1>3
<1>a. \A i \in 1..Len(L) + 1 : f[i] \in DOMAIN L /\ M[i] \subseteq L[f[i]]
  <2> TAKE i \in 1..Len(L) + 1
  <2>1. f[i] \in 1..Len(L) /\ M[i] \subseteq L[f[i]]
    BY <1>4
  <2> QED BY <1>1, <2>1
<1>5. \A i, j \in 1..Len(L) + 1 : i # j /\ f[i] = f[j] => f[i] = k
  BY <1>1, <1>2
<1>6. Rows(M) = Rows(L)
  <2>1. ASSUME NEW r \in Rows(L) PROVE r \in Rows(M)
    <3>1. PICK i \in 1..Len(L) : r \in L[i]
      BY <1>1, <2>1, RowsOf
    <3>2. CASE i = k
      BY <1>2, <1>3, <3>1, <3>2, RowsOf
    <3>3. CASE i < k
      <4>1. i \in 1..Len(L) + 1 /\ M[i] = L[i]
        BY <1>1, <1>2, <3>3
      <4> QED BY <1>2, <3>1, <4>1, RowsOf
    <3>4. CASE i > k
      <4>1. i + 1 \in 1..Len(L) + 1 /\ M[i + 1] = L[i]
        <5>1. i + 1 \in 1..Len(L) + 1 /\ ~(i + 1 < k) /\ i + 1 # k /\ i + 1 # k + 1 /\ (i + 1) - 1 = i
          BY <1>1, <3>4
        <5> QED BY <1>2, <5>1
      <4> QED BY <1>2, <3>1, <4>1, RowsOf
    <3> QED BY <1>1, <3>2, <3>3, <3>4
  <2>2. ASSUME NEW r \in Rows(M) PROVE r \in Rows(L)
    BY <1>1, <1>2, <1>4, <2>2, RowsOf
  <2> QED BY <2>1, <2>2
<1>7. ASSUME NEW X, Apart(L, X) PROVE Apart(M, X)
  <2> SUFFICES ASSUME NEW i \in 1..Len(L) + 1, NEW j \in 1..Len(L) + 1, i # j PROVE M[i] \cap M[j] \subseteq X
    BY <1>2 DEF Apart
  <2>1. CASE f[i] # f[j]
    <3>1. f[i] \in DOMAIN L /\ f[j] \in DOMAIN L /\ M[i] \subseteq L[f[i]] /\ M[j] \subseteq L[f[j]]
      BY <1>a
    <3>2. L[f[i]] \cap L[f[j]] \subseteq X
      BY <1>7, <2>1, <3>1 DEF Apart
    <3> QED BY <3>1, <3>2
  <2>2. CASE f[i] = f[j]
    <3>1. i \in {k, k + 1} /\ j \in {k, k + 1}
      BY <1>4, <1>5, <2>2
    <3> QED BY <1>3, <3>1
  <2> QED BY <2>1, <2>2
<1>8. \A i \in DOMAIN M : \E j \in DOMAIN L : M[i] \subseteq L[j]
  BY <1>1, <1>2, <1>4
<1>9. \A i \in DOMAIN M : \/ \E j \in DOMAIN L : j # k /\ M[i] = L[j]
                          \/ M[i] \subseteq L[k]
  BY <1>1, <1>2, <1>3, <1>4
<1> QED BY <1>2, <1>6, <1>7, <1>8, <1>9 DEF M, IsSplit

-----------------------------------------------------------------------------
(***************************************************************************)
(* Tokens.                                                                 *)
(***************************************************************************)
LEMMA TokensPicked ==
    ASSUME NEW L, NEW S, NEW D, NEW X, Tokens(L, S, D, X), NEW M, Picks(M, L), NEW T, T \subseteq S, NEW Y, X \subseteq Y
    PROVE  Tokens(M, T, D, Y)
<1>1. PICK f \in [DOMAIN M -> Nat] :
        \A i \in DOMAIN M : M[i] # {} =>
          /\ f[i] \in DOMAIN L /\ M[i] = L[f[i]]
          /\ \A j \in DOMAIN M : j # i /\ M[j] # {} => f[i] # f[j]
  BY DEF Picks
<1>2. Apart(M, Y)
  <2> SUFFICES ASSUME NEW i \in DOMAIN M, NEW j \in DOMAIN M, i # j, M[i] # {}, M[j] # {}
               PROVE  M[i] \cap M[j] \subseteq Y
    BY DEF Apart
  <2>1. f[i] \in DOMAIN L /\ f[j] \in DOMAIN L /\ f[i] # f[j] /\ M[i] = L[f[i]] /\ M[j] = L[f[j]]
    BY <1>1
  <2>2. L[f[i]] \cap L[f[j]] \subseteq X
    BY <2>1 DEF Tokens, Apart
  <2> QED BY <2>1, <2>2
<1>3. \A s \in T, i \in DOMAIN M : s \cap M[i] \subseteq Y
  <2> SUFFICES ASSUME NEW s \in T, NEW i \in DOMAIN M, M[i] # {} PROVE s \cap M[i] \subseteq Y
    OBVIOUS
  <2> QED BY <1>1 DEF Tokens
<1>4. \A i \in DOMAIN M, h \in D : M[i] # h => M[i] \cap h \subseteq Y
  <2> SUFFICES ASSUME NEW h \in D, NEW i \in DOMAIN M, M[i] # {}, M[i] # h PROVE M[i] \cap h \subseteq Y
    OBVIOUS
  <2> QED BY <1>1 DEF Tokens
<1>5. /\ \A s, t \in T : s # t => s \cap t \subseteq Y
      /\ \A g, h \in D : g # h => g \cap h \subseteq Y
      /\ \A s \in T, h \in D : s # h => s \cap h \subseteq Y
  BY DEF Tokens
<1> QED BY <1>2, <1>3, <1>4, <1>5 DEF Tokens

LEMMA TokensLanded ==
    ASSUME NEW L, NEW S, NEW D, NEW X, Tokens(L, S, D, X), NEW k \in DOMAIN L
    PROVE  Tokens(L, S, D \cup {L[k]}, X)
<1>1. \A g \in D : g # L[k] => g \cap L[k] \subseteq X /\ L[k] \cap g \subseteq X
  BY DEF Tokens
<1>2. \A i \in DOMAIN L : L[i] # L[k] => L[i] \cap L[k] \subseteq X
  BY DEF Tokens, Apart
<1>3. \A s \in S : s \cap L[k] \subseteq X
  BY DEF Tokens
<1> QED BY <1>1, <1>2, <1>3 DEF Tokens

LEMMA TokensSplit ==
    ASSUME NEW L \in Seq(Some), NEW S, NEW D, NEW X, Tokens(L, S, D, X), NEW k \in 1..Len(L),
           NEW a, NEW b, a \cup b = L[k], a \cap b = {}, L[k] \in D => L[k] \subseteq X
    PROVE  Tokens(Split(L, k, a, b), S, D, X)
<1>1. PICK M : /\ M = Split(L, k, a, b) /\ Apart(M, X)
               /\ \A i \in DOMAIN M : \E j \in DOMAIN L : M[i] \subseteq L[j]
               /\ \A i \in DOMAIN M : \/ \E j \in DOMAIN L : j # k /\ M[i] = L[j]
                                      \/ M[i] \subseteq L[k]
  <2>1. IsSplit(Split(L, k, a, b), L, k)
    BY SplitFacts
  <2> QED BY <2>1 DEF IsSplit, Tokens
<1>2. k \in DOMAIN L
  BY SeqFacts
<1>3. \A s \in S, i \in DOMAIN M : s \cap M[i] \subseteq X
  <2> TAKE s \in S, i \in DOMAIN M
  <2>1. PICK j \in DOMAIN L : M[i] \subseteq L[j]
    BY <1>1
  <2> QED BY <2>1 DEF Tokens
<1>4. ASSUME NEW h \in D, NEW i \in DOMAIN M, M[i] # h PROVE M[i] \cap h \subseteq X
  <2>1. CASE \E j \in DOMAIN L : j # k /\ M[i] = L[j]
    BY <1>4, <2>1 DEF Tokens
  <2>2. CASE M[i] \subseteq L[k]
    <3>1. CASE L[k] = h
      BY <2>2, <3>1
    <3>2. CASE L[k] # h
      BY <1>2, <2>2, <3>2 DEF Tokens
    <3> QED BY <3>1, <3>2
  <2> QED BY <1>1, <2>1, <2>2
<1> QED BY <1>1, <1>3, <1>4 DEF Tokens

LEMMA TokensToDisk ==
    ASSUME NEW L \in Seq(Some), NEW S, NEW D, NEW X, Tokens(L, S, D, X), NEW k \in 1..Len(L)
    PROVE  Tokens(Without(L, k), S \cup {L[k]}, D, X)
<1>1. Len(L) \in Nat /\ DOMAIN L = 1..Len(L)
  BY SeqFacts
<1>2. PICK M : M = Without(L, k) /\ DOMAIN M = 1..Len(L) - 1 /\ Picks(M, L)
               /\ \A i \in 1..Len(L) - 1 : M[i] = IF i < k THEN L[i] ELSE L[i + 1]
  <2> DEFINE M == Without(L, k)
  <2>1. DOMAIN M = 1..Len(L) - 1 /\ Picks(M, L)
    BY WithoutFacts
  <2>2. \A i \in 1..Len(L) - 1 : M[i] = IF i < k THEN L[i] ELSE L[i + 1]
    BY DEF Without
  <2> HIDE DEF M
  <2>3. M = Without(L, k)
    BY DEF M
  <2> QED BY <2>1, <2>2, <2>3
<1>3. Tokens(M, S, D, X)
  BY <1>2, TokensPicked
<1>4. \A i \in DOMAIN M : L[k] \cap M[i] \subseteq X
  <2> TAKE i \in DOMAIN M
  <2>1. PICK j \in DOMAIN L : j # k /\ M[i] = L[j]
    <3>1. CASE i < k
      BY <1>1, <1>2, <3>1
    <3>2. CASE ~(i < k)
      BY <1>1, <1>2, <3>2
    <3> QED BY <3>1, <3>2
  <2> QED BY <1>1, <2>1 DEF Tokens, Apart
<1>5. /\ \A s \in S : s \cap L[k] \subseteq X /\ L[k] \cap s \subseteq X
      /\ \A h \in D : L[k] # h => L[k] \cap h \subseteq X
  BY <1>1 DEF Tokens
<1> QED BY <1>2, <1>3, <1>4, <1>5 DEF Tokens

(* A group joins the line: a segment, or a batch of rows that are nowhere  *)
(* else.                                                                   *)
LEMMA TokensJoined ==
    ASSUME NEW L \in Seq(Some), NEW S, NEW D, NEW X, Tokens(L, S, D, X), NEW g \in Some,
           \A i \in DOMAIN L : L[i] \cap g \subseteq X, \A s \in S : s \cap g \subseteq X,
           \A h \in D : g # h => g \cap h \subseteq X
    PROVE  Tokens(L \o <<g>>, S, D, X) /\ Tokens(L, S \cup {g}, D, X)
<1>1. Len(L) \in Nat /\ DOMAIN L = 1..Len(L) /\ <<g>> \in Seq(Some) /\ Len(<<g>>) = 1 /\ <<g>>[1] = g
  BY SeqFacts
<1>2. PICK M : M = L \o <<g>> /\ DOMAIN M = 1..Len(L) + 1 /\ (\A i \in 1..Len(L) : M[i] = L[i]) /\ M[Len(L) + 1] = g
  <2> DEFINE one == <<g>>
  <2>1. /\ DOMAIN (L \o one) = 1..Len(L) + Len(one) /\ \A i \in 1..Len(L) : (L \o one)[i] = L[i]
        /\ \A i \in 1..Len(one) : (L \o one)[Len(L) + i] = one[i]
    BY <1>1, Joined
  <2>2. one[1] = g /\ Len(one) = 1
    BY <1>1
  <2> HIDE DEF one
  <2>3. (L \o one)[Len(L) + 1] = g
    BY <2>1, <2>2
  <2> QED BY <2>1, <2>2, <2>3 DEF one
<1>3. \A i \in DOMAIN M : (i \in DOMAIN L /\ M[i] = L[i]) \/ (i = Len(L) + 1 /\ M[i] = g)
  BY <1>1, <1>2
<1>4. Apart(M, X)
  <2> SUFFICES ASSUME NEW i \in DOMAIN M, NEW j \in DOMAIN M, i # j PROVE M[i] \cap M[j] \subseteq X
    BY DEF Apart
  <2> QED BY <1>3 DEF Tokens, Apart
<1>5. \A s \in S, i \in DOMAIN M : s \cap M[i] \subseteq X
  BY <1>3 DEF Tokens
<1>6. \A i \in DOMAIN M, h \in D : M[i] # h => M[i] \cap h \subseteq X
  BY <1>3 DEF Tokens
<1>7. Tokens(M, S, D, X)
  BY <1>4, <1>5, <1>6 DEF Tokens
<1>8. Tokens(L, S \cup {g}, D, X)
  BY DEF Tokens
<1> QED BY <1>2, <1>7, <1>8

-----------------------------------------------------------------------------
(***************************************************************************)
(* Rows have a least one; halves of a group; the oldest group.             *)
(***************************************************************************)
LEMMA LeastRow ==
    ASSUME NEW S \in SUBSET Nat, S # {}
    PROVE  Min(S) \in S /\ \A q \in S : Min(S) <= q
<1> DEFINE less == {p \in Nat \X Nat : p[1] < p[2]}
<1>a. IsWellFoundedOn(less, Nat)
  BY NatLessThanWellFounded DEF OpToRel
<1> HIDE DEF less
<1>1. PICK m \in S : \A q \in S : ~(<<q, m>> \in less)
  BY <1>a, WFMin
<1>2. ASSUME NEW q \in S PROVE m <= q
  <2>1. m \in Nat /\ q \in Nat /\ (q < m => <<q, m>> \in less)
    BY DEF less
  <2> QED BY <1>1, <2>1
<1> QED BY <1>2 DEF Min

LEMMA GroupFacts ==
    ASSUME NEW g \in Group
    PROVE  /\ g \subseteq Row /\ g # {} /\ IsFiniteSet(g) /\ Cardinality(g) \in Nat \ {0}
           /\ Min(g) \in g /\ Min(g) \in Row /\ \A q \in g : Min(g) <= q
           /\ Single(g) => \E r : g = {r}
<1>1. g \subseteq Row /\ g # {} /\ IsFiniteSet(g) /\ Row \subseteq Nat
  BY DEF Group, Row
<1>2. Cardinality(g) \in Nat /\ Cardinality(g) # 0
  BY <1>1, FS_CardinalityType, FS_EmptySet
<1>3. Min(g) \in g /\ \A q \in g : Min(g) <= q
  BY <1>1, LeastRow
<1>4. Single(g) => \E r : g = {r}
  BY <1>1, FS_Singleton DEF Single
<1> QED BY <1>1, <1>2, <1>3, <1>4

LEMMA GreatestRow ==
    ASSUME NEW g \in Group
    PROVE  \E m \in g : \A q \in g : q <= m
<1> DEFINE Below(r) == {q \in g : q < r}
           above == {Cardinality(g) - Cardinality(Below(r)) : r \in g}
<1>1. (\A q \in g : q \in Nat) /\ IsFiniteSet(g) /\ g # {} /\ Cardinality(g) \in Nat
  BY GroupFacts DEF Row
<1>2. ASSUME NEW r \in g
      PROVE  IsFiniteSet(Below(r)) /\ Cardinality(Below(r)) \in Nat /\ Cardinality(Below(r)) <= Cardinality(g)
  <2>1. Below(r) \subseteq g
    OBVIOUS
  <2> HIDE DEF Below
  <2>2. IsFiniteSet(Below(r)) /\ Cardinality(Below(r)) <= Cardinality(g)
    BY <1>1, <2>1, FS_Subset
  <2> QED BY <2>2, FS_CardinalityType
<1> HIDE DEF Below
<1>3. above \in SUBSET Nat /\ above # {}
  <2>1. \A r \in g : Cardinality(g) - Cardinality(Below(r)) \in Nat
    BY <1>1, <1>2
  <2> QED BY <1>1, <2>1
<1>4. PICK a \in above : \A n \in above : a <= n
  BY <1>3, LeastRow
<1>5. PICK m \in g : a = Cardinality(g) - Cardinality(Below(m))
  BY <1>4
<1>6. \A r \in g : Cardinality(Below(r)) <= Cardinality(Below(m))
  BY <1>1, <1>2, <1>4, <1>5
<1>7. ASSUME NEW r \in g, m < r PROVE FALSE
  <2>1. Below(m) \subseteq Below(r) /\ m \in Below(r) /\ m \notin Below(m)
    <3>1. m \in Nat /\ r \in Nat
      BY <1>1
    <3>2. \A q \in g : q < m => q < r
      BY <1>1, <1>7, <3>1
    <3>3. Below(m) \subseteq Below(r)
      BY <3>2 DEF Below
    <3>4. m \in Below(r)
      BY <1>7, <3>1 DEF Below
    <3>5. m \notin Below(m)
      BY <3>1 DEF Below
    <3> QED BY <3>3, <3>4, <3>5
  <2>2. Cardinality(Below(m)) < Cardinality(Below(r))
    <3>1. Cardinality(Below(m)) <= Cardinality(Below(r)) /\ (Cardinality(Below(m)) = Cardinality(Below(r)) => Below(m) = Below(r))
      BY <1>2, <2>1, FS_Subset
    <3> QED BY <1>2, <2>1, <3>1
  <2> QED BY <1>2, <1>6, <2>2
<1> QED BY <1>1, <1>7

LEMMA HalvesFacts ==
    ASSUME NEW g \in Group, ~Single(g)
    PROVE  \E a, b \in Piece :
             /\ Halves(g) = <<a, b>> /\ a.rows \cup b.rows = g /\ a.rows \cap b.rows = {}
             /\ a.rows # g /\ b.rows # g
<1> DEFINE left == {r \in g : Cardinality({q \in g : q < r}) < Cardinality(g) \div 2}
           right == g \ left
<1>1. g \subseteq Row /\ g # {} /\ IsFiniteSet(g) /\ Cardinality(g) \in Nat \ {0} /\ \A q \in g : q \in Nat
  BY GroupFacts DEF Row
<1>2. Cardinality(g) >= 2
  BY <1>1 DEF Single
<1>3. left # {}
  <2>1. Min(g) \in g /\ \A q \in g : Min(g) <= q
    BY GroupFacts
  <2>2. {q \in g : q < Min(g)} = {}
    <3>1. \A q \in g : q \in Nat /\ Min(g) \in Nat /\ Min(g) <= q
      BY <1>1, <2>1
    <3>2. \A q \in g : ~(q < Min(g))
      BY <3>1
    <3> QED BY <3>2
  <2>3. Cardinality({q \in g : q < Min(g)}) = 0
    BY <2>2, FS_EmptySet
  <2>4. Cardinality(g) \div 2 > 0
    BY <1>1, <1>2
  <2> QED BY <2>1, <2>3, <2>4
<1>4. left # g
  <2>1. PICK m \in g : \A q \in g : q <= m
    BY GreatestRow
  <2>2. {q \in g : q < m} = g \ {m}
    <3>1. \A q \in g : q < m <=> q # m
      BY <1>1, <2>1
    <3> QED BY <3>1
  <2>3. Cardinality(g \ {m}) = Cardinality(g) - 1
    BY <1>1, FS_RemoveElement
  <2>4. ~(Cardinality(g) - 1 < Cardinality(g) \div 2)
    BY <1>1, <1>2
  <2>5. Cardinality({q \in g : q < m}) = Cardinality(g) - 1
    BY <2>2, <2>3
  <2>6. m \notin left
    BY <2>4, <2>5
  <2> QED BY <2>6
<1>5. left \in Group /\ right \in Group
  <2>1. left \subseteq g /\ right \subseteq g /\ right # {}
    BY <1>4
  <2>2. IsFiniteSet(left) /\ IsFiniteSet(right)
    BY <1>1, <2>1, FS_Subset
  <2> HIDE DEF left, right
  <2> QED BY <1>1, <1>3, <2>1, <2>2 DEF Group
<1>6. Halves(g) = <<Part(left), Part(right)>>
  BY DEF Halves
<1>7. left \cup right = g /\ left \cap right = {} /\ right # g
  BY <1>3
<1> HIDE DEF left, right
<1>8. /\ Part(left) \in Piece /\ Part(right) \in Piece
      /\ Part(left).rows = left /\ Part(right).rows = right
  BY <1>5 DEF Part, Piece
<1> QED BY <1>4, <1>6, <1>7, <1>8

LEMMA OldestFacts ==
    ASSUME NEW S \in SUBSET Group, S # {}
    PROVE  Oldest(S) \in S /\ \A g \in S : Min(Oldest(S)) <= Min(g)
<1> DEFINE mins == {Min(g) : g \in S}
<1>1. \A g \in S : Min(g) \in Nat
  BY GroupFacts DEF Row
<1>2. mins \in SUBSET Nat /\ mins # {}
  BY <1>1
<1>3. PICK m \in mins : \A n \in mins : m <= n
  BY <1>2, LeastRow
<1>4. PICK g \in S : m = Min(g)
  BY <1>3
<1>5. \A h \in S : Min(g) <= Min(h)
  BY <1>3, <1>4
<1> QED BY <1>5 DEF Oldest

-----------------------------------------------------------------------------
(***************************************************************************)
(* The line, phase by phase.                                               *)
(***************************************************************************)
LEMMA SomeSeq == ASSUME NEW s \in Seq(Group) PROVE s \in Seq(Some)
BY SeqMonotonic DEF Some

LEMMA OneGroup ==
    ASSUME NEW q \in Piece
    PROVE  <<q>> \in Seq(Piece) /\ Groups(<<q>>) = <<q.rows>> /\ q.rows \in Group /\ q.rows \in Some
<1>1. <<q>> \in Seq(Piece) /\ DOMAIN <<q>> = {1} /\ <<q>>[1] = q
  OBVIOUS
<1>2. Groups(<<q>>) = [i \in {1} |-> q.rows]
  BY <1>1 DEF Groups
<1> QED BY <1>1, <1>2 DEF Piece, Some

LEMMA TwoGroups ==
    ASSUME NEW a \in Piece, NEW b \in Piece
    PROVE  <<a, b>> \in Seq(Piece) /\ Groups(<<a, b>>) = <<a.rows, b.rows>>
<1>1. <<a, b>> \in Seq(Piece) /\ DOMAIN <<a, b>> = 1..2 /\ <<a, b>>[1] = a /\ <<a, b>>[2] = b /\ Len(<<a, b>>) = 2
  OBVIOUS
<1>2. PICK u \in Seq(Group) : u = Groups(<<a, b>>) /\ Len(u) = 2 /\ u[1] = a.rows /\ u[2] = b.rows
  <2>1. /\ Groups(<<a, b>>) \in Seq(Group) /\ Len(Groups(<<a, b>>)) = Len(<<a, b>>)
        /\ \A i \in 1..Len(<<a, b>>) : Groups(<<a, b>>)[i] = <<a, b>>[i].rows
    BY <1>1, GroupsOf
  <2>2. Groups(<<a, b>>)[1] = a.rows /\ Groups(<<a, b>>)[2] = b.rows
    BY <1>1, <2>1
  <2> QED BY <1>1, <2>1, <2>2
<1> QED BY <1>1, <1>2

(* A group g stands for the first part while a batch is delivered.         *)
Trial(h, s, ps, j, k) ==
    LET p == Head(ps)
        rest == Tail(ps)
        G == Groups(s \o ps)
    IN /\ p \in Piece /\ rest \in Seq(Piece)
       /\ G \in Seq(Some) /\ j \in 1..Len(G) /\ G[j] = p.rows
       /\ h \o G \in Seq(Some) /\ k \in 1..Len(h \o G) /\ (h \o G)[k] = p.rows
       /\ Groups(s \o rest) = Without(G, j) /\ h \o Groups(s \o rest) = Without(h \o G, k)
       /\ \A q \in Piece : q.rows = p.rows =>
            Groups(s \o (<<q>> \o rest)) = G /\ Groups(Append(s, q) \o rest) = G
       /\ \A a, b \in Piece :
            /\ Groups(s \o (<<a, b>> \o rest)) = Split(G, j, a.rows, b.rows)
            /\ h \o Groups(s \o (<<a, b>> \o rest)) = Split(h \o G, k, a.rows, b.rows)

LEMMA TrialFacts ==
    ASSUME NEW h \in Seq(Group), NEW s \in Seq(Piece), NEW ps \in Seq(Piece), ps # <<>>,
           NEW j, j = Len(s) + 1, NEW k, k = Len(h) + Len(s) + 1
    PROVE  Trial(h, s, ps, j, k)
<1> DEFINE p == Head(ps)
           rest == Tail(ps)
<1>1. p \in Piece /\ rest \in Seq(Piece) /\ ps = <<p>> \o rest
  BY SeqFacts, HeadFirst
<1> HIDE DEF p, rest
<1>2. PICK gs \in Seq(Some), gr \in Seq(Some) : gs = Groups(s) /\ gr = Groups(rest) /\ Len(gs) = Len(s)
  <2>1. Groups(s) \in Seq(Group) /\ Len(Groups(s)) = Len(s) /\ Groups(rest) \in Seq(Group)
    BY <1>1, GroupsOf
  <2>2. Groups(s) \in Seq(Some) /\ Groups(rest) \in Seq(Some)
    BY <2>1, SomeSeq
  <2> QED BY <2>1, <2>2
<1>3. ASSUME NEW q \in Piece
      PROVE  /\ Groups(s \o (<<q>> \o rest)) = gs \o (<<q.rows>> \o gr)
             /\ Append(s, q) \o rest = s \o (<<q>> \o rest)
  <2>1. <<q>> \in Seq(Piece) /\ Groups(<<q>>) = <<q.rows>>
    BY OneGroup
  <2>2. <<q>> \o rest \in Seq(Piece) /\ Groups(<<q>> \o rest) = <<q.rows>> \o gr
    BY <1>1, <1>2, <2>1, GroupsJoined, Joined
  <2>3. Groups(s \o (<<q>> \o rest)) = gs \o (<<q.rows>> \o gr)
    BY <1>2, <2>2, GroupsJoined
  <2>4. Append(s, q) = s \o <<q>>
    BY AppendIsConcat
  <2>5. (s \o <<q>>) \o rest = s \o (<<q>> \o rest)
    BY <1>1, <2>1, ConcatAssociative
  <2> QED BY <2>3, <2>4, <2>5
<1>4. ASSUME NEW a \in Piece, NEW b \in Piece
      PROVE  Groups(s \o (<<a, b>> \o rest)) = gs \o (<<a.rows, b.rows>> \o gr)
  <2>1. <<a, b>> \in Seq(Piece) /\ Groups(<<a, b>>) = <<a.rows, b.rows>>
    BY TwoGroups
  <2>2. <<a, b>> \o rest \in Seq(Piece) /\ Groups(<<a, b>> \o rest) = <<a.rows, b.rows>> \o gr
    BY <1>1, <1>2, <2>1, GroupsJoined, Joined
  <2> QED BY <1>2, <2>2, GroupsJoined
<1>5. Groups(s \o rest) = gs \o gr
  BY <1>1, <1>2, GroupsJoined
<1>6. PICK G : G = Groups(s \o ps) /\ G = gs \o (<<p.rows>> \o gr)
  BY <1>1, <1>3
<1>7. PICK x \in Some : x = p.rows
  BY <1>1, OneGroup
<1>8. h \in Seq(Some)
  BY SomeSeq
<1>9. PICK hs \in Seq(Some) : hs = h \o gs /\ Len(hs) = Len(h) + Len(s)
  <2>1. h \o gs \in Seq(Some) /\ Len(h \o gs) = Len(h) + Len(gs)
    BY <1>8, Joined
  <2> QED BY <1>2, <2>1
<1>10. ASSUME NEW y \in Seq(Some) PROVE h \o (gs \o y) = hs \o y
  <2>1. (h \o gs) \o y = h \o (gs \o y)
    BY <1>8, Associates
  <2> QED BY <1>9, <2>1
<1>11. <<x>> \o gr \in Seq(Some) /\ gr \in Seq(Some)
  <2>1. <<x>> \in Seq(Some)
    OBVIOUS
  <2> QED BY <2>1, Joined
<1>12. PICK L : L = h \o G /\ L = hs \o (<<x>> \o gr)
  BY <1>6, <1>7, <1>10, <1>11
<1>13. j = Len(gs) + 1 /\ k = Len(hs) + 1
  BY <1>2, <1>9
<1>14. /\ G \in Seq(Some) /\ j \in 1..Len(G) /\ G[j] = x
       /\ Without(G, j) = gs \o gr
       /\ \A b, c \in Some : Split(G, j, b, c) = gs \o (<<b, c>> \o gr)
  <2>1. <<x>> = <<p.rows>>
    BY <1>7
  <2>2. G = gs \o (<<x>> \o gr) /\ j = Len(gs) + 1
    BY <1>6, <1>13, <2>1
  <2>3. Amid(gs, x, gr, j)
    BY <2>2, Middle
  <2> QED BY <2>2, <2>3 DEF Amid
<1>15. /\ L \in Seq(Some) /\ k \in 1..Len(L) /\ L[k] = x
       /\ Without(L, k) = hs \o gr
       /\ \A b, c \in Some : Split(L, k, b, c) = hs \o (<<b, c>> \o gr)
  <2>1. L = hs \o (<<x>> \o gr) /\ k = Len(hs) + 1
    BY <1>12, <1>13
  <2>2. Amid(hs, x, gr, k)
    BY <2>1, Middle
  <2> QED BY <2>1, <2>2 DEF Amid
<1>16. Groups(s \o rest) = Without(G, j) /\ h \o Groups(s \o rest) = Without(L, k)
  BY <1>5, <1>10, <1>11, <1>14, <1>15
<1>17. \A q \in Piece : q.rows = p.rows => Groups(s \o (<<q>> \o rest)) = G /\ Groups(Append(s, q) \o rest) = G
  BY <1>3, <1>6
<1>18. ASSUME NEW a \in Piece, NEW b \in Piece
       PROVE  /\ Groups(s \o (<<a, b>> \o rest)) = Split(G, j, a.rows, b.rows)
              /\ h \o Groups(s \o (<<a, b>> \o rest)) = Split(L, k, a.rows, b.rows)
  <2>1. PICK c \in Some, d \in Some : c = a.rows /\ d = b.rows
    BY OneGroup
  <2>2. <<c, d>> \o gr \in Seq(Some)
    <3>1. <<c, d>> \in Seq(Some)
      OBVIOUS
    <3> QED BY <3>1, Joined
  <2>3. Groups(s \o (<<a, b>> \o rest)) = gs \o (<<c, d>> \o gr)
    BY <1>4, <2>1
  <2> QED BY <1>10, <1>14, <1>15, <2>1, <2>2, <2>3
<1>19. G[j] = p.rows /\ L[k] = p.rows
  BY <1>7, <1>14, <1>15
<1>20. h \o Groups(s \o ps) = L /\ Groups(s \o ps) = G
  BY <1>6, <1>12
<1> QED BY <1>1, <1>14, <1>15, <1>16, <1>17, <1>18, <1>19, <1>20 DEF p, rest, Trial


LEMMA Concatenates ==
    ASSUME NEW S, NEW a \in Seq(S), NEW b \in Seq(S), NEW w \in Seq(S), Len(w) = Len(a) + Len(b),
           \A i \in 1..Len(a) : w[i] = a[i], \A i \in 1..Len(b) : w[Len(a) + i] = b[i]
    PROVE  w = a \o b
<1>1. PICK v \in Seq(S) : /\ v = a \o b /\ Len(v) = Len(a) + Len(b)
                          /\ \A i \in 1..Len(a) : v[i] = a[i]
                          /\ \A i \in 1..Len(b) : v[Len(a) + i] = b[i]
  <2>1. /\ a \o b \in Seq(S) /\ Len(a \o b) = Len(a) + Len(b)
        /\ \A i \in 1..Len(a) : (a \o b)[i] = a[i]
        /\ \A i \in 1..Len(b) : (a \o b)[Len(a) + i] = b[i]
    BY Joined
  <2> QED BY <2>1
<1>2. Len(a) \in Nat /\ Len(b) \in Nat
  BY SeqFacts
<1>3. ASSUME NEW i \in 1..Len(w) PROVE w[i] = v[i]
  <2>1. CASE i <= Len(a)
    BY <1>1, <1>2, <2>1
  <2>2. CASE ~(i <= Len(a))
    <3>1. i - Len(a) \in 1..Len(b) /\ i = Len(a) + (i - Len(a))
      BY <1>2, <2>2
    <3> QED BY <1>1, <3>1
  <2> QED BY <2>1, <2>2
<1> QED BY <1>1, <1>3, SeqEqual

LEMMA ChoreFacts ==
    ASSUME NEW s \in Seq(Chore)
    PROVE  /\ ChoresOf(s) \in Seq(Some) /\ Len(ChoresOf(s)) = Len(s) /\ DOMAIN ChoresOf(s) = 1..Len(s)
           /\ \A i \in 1..Len(s) : ChoresOf(s)[i] = IF s[i].do = "write" THEN s[i].rows ELSE {}
<1>1. Len(s) \in Nat /\ DOMAIN s = 1..Len(s) /\ \A i \in 1..Len(s) : s[i] \in Chore
  BY SeqFacts
<1>2. \A i \in 1..Len(s) : (IF s[i].do = "write" THEN s[i].rows ELSE {}) \in Some
  BY <1>1 DEF Chore, Some
<1>3. ChoresOf(s) = [i \in 1..Len(s) |-> IF s[i].do = "write" THEN s[i].rows ELSE {}]
  BY <1>1 DEF ChoresOf
<1>4. ChoresOf(s) \in Seq(Some)
  BY <1>1, <1>2, <1>3, IsASeq
<1>5. Len(ChoresOf(s)) = Len(s)
  BY <1>1, <1>3, <1>4, SeqFacts
<1> QED BY <1>3, <1>4, <1>5

LEMMA ChoresJoined ==
    ASSUME NEW s \in Seq(Chore), NEW t \in Seq(Chore)
    PROVE  ChoresOf(s \o t) = ChoresOf(s) \o ChoresOf(t)
<1>1. PICK a \in Seq(Some) :
        /\ a = ChoresOf(s) /\ Len(a) = Len(s)
        /\ \A i \in 1..Len(s) : a[i] = IF s[i].do = "write" THEN s[i].rows ELSE {}
  BY ChoreFacts
<1>2. PICK b \in Seq(Some) :
        /\ b = ChoresOf(t) /\ Len(b) = Len(t)
        /\ \A i \in 1..Len(t) : b[i] = IF t[i].do = "write" THEN t[i].rows ELSE {}
  BY ChoreFacts
<1>3. PICK u \in Seq(Chore) :
        /\ u = s \o t /\ Len(u) = Len(s) + Len(t) /\ \A i \in 1..Len(s) : u[i] = s[i]
        /\ \A i \in 1..Len(t) : u[Len(s) + i] = t[i]
  <2>1. /\ s \o t \in Seq(Chore) /\ Len(s \o t) = Len(s) + Len(t) /\ \A i \in 1..Len(s) : (s \o t)[i] = s[i]
        /\ \A i \in 1..Len(t) : (s \o t)[Len(s) + i] = t[i]
    BY Joined
  <2> QED BY <2>1
<1>4. PICK w \in Seq(Some) :
        /\ w = ChoresOf(u) /\ Len(w) = Len(u)
        /\ \A i \in 1..Len(u) : w[i] = IF u[i].do = "write" THEN u[i].rows ELSE {}
  BY ChoreFacts
<1>5. Len(s) \in Nat /\ Len(t) \in Nat
  BY SeqFacts
<1>6. ASSUME NEW i \in 1..Len(a) PROVE w[i] = a[i]
  <2>1. i \in 1..Len(u) /\ i \in 1..Len(s)
    BY <1>1, <1>3, <1>5
  <2> QED BY <1>1, <1>3, <1>4, <2>1
<1>7. ASSUME NEW i \in 1..Len(b) PROVE w[Len(a) + i] = b[i]
  <2>1. Len(s) + i \in 1..Len(u) /\ i \in 1..Len(t)
    BY <1>2, <1>3, <1>5
  <2>2. w[Len(s) + i] = IF u[Len(s) + i].do = "write" THEN u[Len(s) + i].rows ELSE {}
    BY <1>4, <2>1
  <2>3. u[Len(s) + i] = t[i] /\ b[i] = IF t[i].do = "write" THEN t[i].rows ELSE {}
    BY <1>2, <1>3, <2>1
  <2> QED BY <1>1, <2>2, <2>3
<1>8. Len(w) = Len(a) + Len(b)
  BY <1>1, <1>2, <1>3, <1>4
<1>9. w = a \o b
  BY <1>6, <1>7, <1>8, Concatenates
<1> QED BY <1>1, <1>2, <1>3, <1>4, <1>9

LEMMA WritesFacts ==
    ASSUME NEW s \in Seq(Group)
    PROVE  /\ Writes(s) \in Seq(Chore) /\ ChoresOf(Writes(s)) = s /\ Len(Writes(s)) = Len(s)
           /\ \A i \in 1..Len(s) : Writes(s)[i].do = "write" /\ Writes(s)[i].rows = s[i]
<1>1. Len(s) \in Nat /\ DOMAIN s = 1..Len(s) /\ \A i \in 1..Len(s) : s[i] \in Group
  BY SeqFacts
<1>2. Writes(s) = [i \in 1..Len(s) |-> [do |-> "write", rows |-> s[i]]]
  BY <1>1 DEF Writes
<1>3. \A i \in 1..Len(s) : [do |-> "write", rows |-> s[i]] \in Chore
  BY <1>1 DEF Chore
<1>4. Writes(s) \in Seq(Chore)
  BY <1>1, <1>2, <1>3, IsASeq
<1>5. Len(Writes(s)) = Len(s)
  BY <1>1, <1>2, <1>4, SeqFacts
<1>6. \A i \in 1..Len(s) : Writes(s)[i].do = "write" /\ Writes(s)[i].rows = s[i]
  BY <1>2
<1>7. PICK c \in Seq(Some) :
        /\ c = ChoresOf(Writes(s)) /\ Len(c) = Len(s)
        /\ \A i \in 1..Len(s) : c[i] = s[i]
  <2>1. /\ ChoresOf(Writes(s)) \in Seq(Some) /\ Len(ChoresOf(Writes(s))) = Len(Writes(s))
        /\ \A i \in 1..Len(Writes(s)) :
             ChoresOf(Writes(s))[i] = IF Writes(s)[i].do = "write" THEN Writes(s)[i].rows ELSE {}
    BY <1>4, ChoreFacts
  <2>2. \A i \in 1..Len(s) : ChoresOf(Writes(s))[i] = s[i]
    BY <1>5, <1>6, <2>1
  <2> QED BY <1>5, <2>1, <2>2
<1>8. c = s
  BY <1>7, SomeSeq, SeqEqual
<1> QED BY <1>4, <1>5, <1>6, <1>7, <1>8

(* The first chore is done.                                                *)
LEMMA ChoreDone ==
    ASSUME NEW s \in Seq(Chore), s # <<>>
    PROVE  /\ ChoresOf(Tail(s)) = Without(ChoresOf(s), 1) /\ 1 \in 1..Len(ChoresOf(s)) /\ s[1] \in Chore
           /\ ChoresOf(s)[1] = IF s[1].do = "write" THEN s[1].rows ELSE {}
<1>1. /\ Len(s) \in Nat /\ Len(s) > 0 /\ Tail(s) \in Seq(Chore) /\ Len(Tail(s)) = Len(s) - 1 /\ s[1] \in Chore
      /\ \A i \in 1..Len(s) - 1 : Tail(s)[i] = s[i + 1]
  BY SeqFacts
<1>2. PICK a \in Seq(Some) :
        /\ a = ChoresOf(s) /\ Len(a) = Len(s)
        /\ \A i \in 1..Len(s) : a[i] = IF s[i].do = "write" THEN s[i].rows ELSE {}
  BY ChoreFacts
<1>3. PICK b \in Seq(Some) :
        /\ b = ChoresOf(Tail(s)) /\ Len(b) = Len(Tail(s)) /\ DOMAIN b = 1..Len(Tail(s))
        /\ \A i \in 1..Len(Tail(s)) : b[i] = IF Tail(s)[i].do = "write" THEN Tail(s)[i].rows ELSE {}
  BY <1>1, ChoreFacts
<1>4. ASSUME NEW i \in 1..Len(s) - 1 PROVE b[i] = a[i + 1] /\ ~(i < 1)
  <2>1. i \in 1..Len(Tail(s)) /\ i + 1 \in 1..Len(s) /\ ~(i < 1)
    BY <1>1
  <2>2. Tail(s)[i] = s[i + 1]
    BY <1>1
  <2> QED BY <1>2, <1>3, <2>1, <2>2
<1>5. b = [i \in 1..Len(a) - 1 |-> b[i]]
  BY <1>1, <1>2, <1>3, LenProperties
<1>6. b = Without(a, 1)
  BY <1>2, <1>4, <1>5 DEF Without
<1> QED BY <1>1, <1>2, <1>3, <1>6

(* Two stretches of a sequence change places.                              *)
Quad(a, b, c, d, w) ==
    /\ w \in Seq(Some) /\ Len(w) = Len(a) + Len(b) + Len(c) + Len(d)
    /\ \A i \in 1..Len(a) : w[i] = a[i]
    /\ \A i \in 1..Len(b) : w[Len(a) + i] = b[i]
    /\ \A i \in 1..Len(c) : w[Len(a) + Len(b) + i] = c[i]
    /\ \A i \in 1..Len(d) : w[Len(a) + Len(b) + Len(c) + i] = d[i]

LEMMA QuadFacts ==
    ASSUME NEW a \in Seq(Some), NEW b \in Seq(Some), NEW c \in Seq(Some), NEW d \in Seq(Some)
    PROVE  Quad(a, b, c, d, a \o (b \o (c \o d)))
<1>1. PICK y \in Seq(Some) :
        /\ y = c \o d /\ Len(y) = Len(c) + Len(d)
        /\ \A i \in 1..Len(c) : y[i] = c[i]
        /\ \A i \in 1..Len(d) : y[Len(c) + i] = d[i]
  <2>1. /\ c \o d \in Seq(Some) /\ Len(c \o d) = Len(c) + Len(d)
        /\ \A i \in 1..Len(c) : (c \o d)[i] = c[i]
        /\ \A i \in 1..Len(d) : (c \o d)[Len(c) + i] = d[i]
    BY Joined
  <2> QED BY <2>1
<1>2. PICK x \in Seq(Some) :
        /\ x = b \o y /\ Len(x) = Len(b) + Len(y)
        /\ \A i \in 1..Len(b) : x[i] = b[i]
        /\ \A i \in 1..Len(y) : x[Len(b) + i] = y[i]
  <2>1. /\ b \o y \in Seq(Some) /\ Len(b \o y) = Len(b) + Len(y)
        /\ \A i \in 1..Len(b) : (b \o y)[i] = b[i]
        /\ \A i \in 1..Len(y) : (b \o y)[Len(b) + i] = y[i]
    BY Joined
  <2> QED BY <2>1
<1>3. PICK w \in Seq(Some) :
        /\ w = a \o x /\ Len(w) = Len(a) + Len(x)
        /\ \A i \in 1..Len(a) : w[i] = a[i]
        /\ \A i \in 1..Len(x) : w[Len(a) + i] = x[i]
  <2>1. /\ a \o x \in Seq(Some) /\ Len(a \o x) = Len(a) + Len(x)
        /\ \A i \in 1..Len(a) : (a \o x)[i] = a[i]
        /\ \A i \in 1..Len(x) : (a \o x)[Len(a) + i] = x[i]
    BY Joined
  <2> QED BY <2>1
<1>4. Len(a) \in Nat /\ Len(b) \in Nat /\ Len(c) \in Nat /\ Len(d) \in Nat
  BY SeqFacts
<1>5. ASSUME NEW i \in 1..Len(b) PROVE w[Len(a) + i] = b[i]
  <2>1. i \in 1..Len(x)
    BY <1>1, <1>2, <1>4
  <2> QED BY <1>2, <1>3, <2>1
<1>6. ASSUME NEW i \in 1..Len(c) PROVE w[Len(a) + Len(b) + i] = c[i]
  <2>1. i \in 1..Len(y) /\ Len(b) + i \in 1..Len(x) /\ Len(a) + (Len(b) + i) = Len(a) + Len(b) + i
    BY <1>1, <1>2, <1>4
  <2>2. w[Len(a) + (Len(b) + i)] = x[Len(b) + i] /\ x[Len(b) + i] = y[i] /\ y[i] = c[i]
    BY <1>1, <1>2, <1>3, <2>1
  <2> QED BY <2>1, <2>2
<1>7. ASSUME NEW i \in 1..Len(d) PROVE w[Len(a) + Len(b) + Len(c) + i] = d[i]
  <2>1. /\ Len(c) + i \in 1..Len(y) /\ Len(b) + (Len(c) + i) \in 1..Len(x)
        /\ Len(a) + (Len(b) + (Len(c) + i)) = Len(a) + Len(b) + Len(c) + i
    BY <1>1, <1>2, <1>4
  <2>2. w[Len(a) + (Len(b) + (Len(c) + i))] = x[Len(b) + (Len(c) + i)]
    BY <1>3, <2>1
  <2>3. x[Len(b) + (Len(c) + i)] = y[Len(c) + i] /\ y[Len(c) + i] = d[i]
    BY <1>1, <1>2, <2>1
  <2> QED BY <2>1, <2>2, <2>3
<1>8. Len(w) = Len(a) + Len(b) + Len(c) + Len(d)
  BY <1>1, <1>2, <1>3, <1>4
<1> QED BY <1>1, <1>2, <1>3, <1>5, <1>6, <1>7, <1>8 DEF Quad

LEMMA RowsOfFour ==
    ASSUME NEW a \in Seq(Some), NEW b \in Seq(Some), NEW c \in Seq(Some), NEW d \in Seq(Some)
    PROVE  Rows(a \o (b \o (c \o d))) = Rows(a) \cup (Rows(b) \cup (Rows(c) \cup Rows(d)))
<1>1. PICK y \in Seq(Some) : y = c \o d /\ Rows(y) = Rows(c) \cup Rows(d)
  <2>1. c \o d \in Seq(Some) /\ Rows(c \o d) = Rows(c) \cup Rows(d)
    BY Joined, RowsJoined
  <2> QED BY <2>1
<1>2. PICK x \in Seq(Some) : x = b \o y /\ Rows(x) = Rows(b) \cup Rows(y)
  <2>1. b \o y \in Seq(Some) /\ Rows(b \o y) = Rows(b) \cup Rows(y)
    BY Joined, RowsJoined
  <2> QED BY <2>1
<1>3. Rows(a \o x) = Rows(a) \cup Rows(x)
  BY RowsJoined
<1> QED BY <1>1, <1>2, <1>3

LEMMA PicksSwap ==
    ASSUME NEW a \in Seq(Some), NEW b \in Seq(Some), NEW c \in Seq(Some), NEW d \in Seq(Some)
    PROVE  /\ Picks(a \o (c \o (b \o d)), a \o (b \o (c \o d)))
           /\ Rows(a \o (c \o (b \o d))) = Rows(a \o (b \o (c \o d)))
<1>1. PICK L : L = a \o (b \o (c \o d)) /\ Quad(a, b, c, d, L)
  BY QuadFacts
<1>2. PICK M : M = a \o (c \o (b \o d)) /\ Quad(a, c, b, d, M)
  BY QuadFacts
<1>3. Len(a) \in Nat /\ Len(b) \in Nat /\ Len(c) \in Nat /\ Len(d) \in Nat
  BY SeqFacts
<1>4. DOMAIN L = 1..Len(a) + Len(b) + Len(c) + Len(d) /\ DOMAIN M = DOMAIN L
  <2>1. DOMAIN L = 1..Len(L) /\ DOMAIN M = 1..Len(M) /\ Len(L) = Len(M)
    BY <1>1, <1>2, <1>3, LenProperties DEF Quad
  <2> QED BY <1>1, <2>1 DEF Quad
<1> DEFINE f == [i \in DOMAIN M |->
                   IF i <= Len(a) THEN i
                   ELSE IF i <= Len(a) + Len(c) THEN i + Len(b)
                   ELSE IF i <= Len(a) + Len(c) + Len(b) THEN i - Len(c) ELSE i]
<1>5. f \in [DOMAIN M -> Nat]
  <2> SUFFICES ASSUME NEW i \in DOMAIN M
               PROVE  (IF i <= Len(a) THEN i
                       ELSE IF i <= Len(a) + Len(c) THEN i + Len(b)
                       ELSE IF i <= Len(a) + Len(c) + Len(b) THEN i - Len(c) ELSE i) \in Nat
    OBVIOUS
  <2> QED BY <1>3, <1>4
<1>6. \A i \in DOMAIN M : f[i] = IF i <= Len(a) THEN i
                                ELSE IF i <= Len(a) + Len(c) THEN i + Len(b)
                                ELSE IF i <= Len(a) + Len(c) + Len(b) THEN i - Len(c) ELSE i
  OBVIOUS
<1> HIDE DEF f
<1>7. ASSUME NEW i \in DOMAIN M PROVE f[i] \in DOMAIN L /\ M[i] = L[f[i]]
  <2>1. CASE i <= Len(a)
    <3>1. i \in 1..Len(a) /\ f[i] = i /\ i \in DOMAIN L
      BY <1>3, <1>4, <1>6, <2>1
    <3> QED BY <1>1, <1>2, <3>1 DEF Quad
  <2>2. CASE ~(i <= Len(a)) /\ i <= Len(a) + Len(c)
    <3>1. PICK j \in 1..Len(c) : i = Len(a) + j
      <4>1. i - Len(a) \in 1..Len(c) /\ i = Len(a) + (i - Len(a))
        BY <1>3, <1>4, <2>2
      <4> QED BY <4>1
    <3>a. f[i] = i + Len(b)
      BY <1>6, <2>2
    <3>2. f[i] = Len(a) + Len(b) + j /\ f[i] \in DOMAIN L
      BY <1>3, <1>4, <3>a, <3>1
    <3> QED BY <1>1, <1>2, <3>1, <3>2 DEF Quad
  <2>3. CASE ~(i <= Len(a) + Len(c)) /\ i <= Len(a) + Len(c) + Len(b)
    <3>1. PICK j \in 1..Len(b) : i = Len(a) + Len(c) + j
      <4>1. i - (Len(a) + Len(c)) \in 1..Len(b) /\ i = Len(a) + Len(c) + (i - (Len(a) + Len(c)))
        BY <1>3, <1>4, <2>3
      <4> QED BY <4>1
    <3>2. f[i] = Len(a) + j /\ f[i] \in DOMAIN L
      BY <1>3, <1>4, <1>6, <2>3, <3>1
    <3> QED BY <1>1, <1>2, <3>1, <3>2 DEF Quad
  <2>4. CASE ~(i <= Len(a) + Len(c) + Len(b))
    <3>1. PICK j \in 1..Len(d) : i = Len(a) + Len(c) + Len(b) + j /\ i = Len(a) + Len(b) + Len(c) + j
      <4>1. /\ i - (Len(a) + Len(c) + Len(b)) \in 1..Len(d)
            /\ i = Len(a) + Len(c) + Len(b) + (i - (Len(a) + Len(c) + Len(b)))
            /\ i = Len(a) + Len(b) + Len(c) + (i - (Len(a) + Len(c) + Len(b)))
        BY <1>3, <1>4, <2>4
      <4> QED BY <4>1
    <3>a. ~(i <= Len(a)) /\ ~(i <= Len(a) + Len(c)) /\ i \in DOMAIN L
      BY <1>3, <1>4, <2>4
    <3>b. f[i] = i
      BY <1>6, <2>4, <3>a
    <3>2. f[i] = i /\ f[i] \in DOMAIN L
      BY <3>a, <3>b
    <3>3. L[Len(a) + Len(b) + Len(c) + j] = d[j]
      BY <1>1 DEF Quad
    <3>4. M[Len(a) + Len(c) + Len(b) + j] = d[j]
      BY <1>2 DEF Quad
    <3> QED BY <3>1, <3>2, <3>3, <3>4
  <2> QED BY <1>3, <1>4, <2>1, <2>2, <2>3, <2>4
<1>8. ASSUME NEW i \in DOMAIN M, NEW j \in DOMAIN M, i # j PROVE f[i] # f[j]
  BY <1>3, <1>4, <1>6, <1>8
<1>9. Picks(M, L)
  BY <1>5, <1>7, <1>8 DEF Picks
<1>10. Rows(M) = Rows(a) \cup (Rows(c) \cup (Rows(b) \cup Rows(d)))
  BY <1>2, RowsOfFour
<1>11. Rows(L) = Rows(a) \cup (Rows(b) \cup (Rows(c) \cup Rows(d)))
  BY <1>1, RowsOfFour
<1> QED BY <1>1, <1>2, <1>9, <1>10, <1>11

-----------------------------------------------------------------------------
(***************************************************************************)
(* What the helpers of the actions do to the state.                        *)
(***************************************************************************)
LEMMA CountFacts ==
    ASSUME count \in CountRec, NEW how \in {"written", "dropped", "rejected", "perished"},
           NEW rows \in SUBSET Row, Count(how, rows)
    PROVE  count' \in CountRec /\ Counted' = Counted \cup rows
<1>1. count' = [count EXCEPT ![how] = @ \cup rows]
  BY DEF Count
<1>2. CASE how = "written"
  BY <1>1, <1>2 DEF CountRec, Counted
<1>3. CASE how = "dropped"
  BY <1>1, <1>3 DEF CountRec, Counted
<1>4. CASE how = "rejected"
  BY <1>1, <1>4 DEF CountRec, Counted
<1>5. CASE how = "perished"
  BY <1>1, <1>5 DEF CountRec, Counted
<1> QED BY <1>2, <1>3, <1>4, <1>5

LEMMA RowSets ==
    /\ \A g \in Group \cup {{}} : g \in SUBSET Row
    /\ \A G \in SUBSET Group : UNION G \in SUBSET Row
BY DEF Group

LEMMA InsertFacts ==
    ASSUME DiskType, NEW rows \in Group, NEW answer, Insert(rows, answer)
    PROVE  /\ landed' \in {landed, landed \cup {rows}} /\ landed' \subseteq Group
           /\ broken' \in BOOLEAN
BY DEF Insert, DiskType, storeVars

LEMMA CommitsFacts ==
    ASSUME DiskType, NEW b \in Group, Commits(b)
    PROVE  /\ spool' \subseteq spool \cup {b} /\ temps' \subseteq temps
           /\ inflight \in spool => inflight \in spool'
           /\ count' \in CountRec /\ Counted \subseteq Counted'
           /\ \A g \in spool \cup {b} : g \in spool' \/ g \subseteq Counted'
<1>1. PICK V : V = Victims(b) /\ V \subseteq spool \ {inflight}
  BY DEF Victims
<1> DEFINE lost == IF b \notin temps THEN b ELSE (UNION V) \cup (IF Fits(b) THEN {} ELSE b)
<1>2. lost \in SUBSET Row /\ Count("dropped", lost)
  <2>1. b \in SUBSET Row /\ UNION V \in SUBSET Row
    <3>1. V \in SUBSET Group
      BY <1>1 DEF DiskType
    <3> QED BY <3>1, RowSets
  <2>2. lost \in SUBSET Row
    BY <2>1
  <2> QED BY <1>1, <2>2 DEF Commits
<1>3. count' \in CountRec /\ Counted' = Counted \cup lost
  <2> HIDE DEF lost
  <2> QED BY <1>2, CountFacts DEF DiskType
<1>4. /\ b \notin temps => spool' = spool
      /\ b \in temps => spool' = (spool \ V) \cup (IF Fits(b) THEN {b} ELSE {})
      /\ temps' = temps \ {b}
  BY <1>1 DEF Commits
<1>5. CASE b \notin temps
  BY <1>1, <1>3, <1>4, <1>5
<1>6. CASE b \in temps
  BY <1>1, <1>3, <1>4, <1>6
<1> QED BY <1>5, <1>6

(* Nothing new, or nothing less.                                           *)
LEMMA AgesKept ==
    ASSUME Types, Ages, taken' = taken, pending' = pending, sealed' = sealed,
           UNION spool' \subseteq Past, Rows(Line') \subseteq Past,
           UNION landed' \subseteq Past, UNION Opened' \subseteq Past
    PROVE  Ages'
<1>1. Past' = Rows(Line') \cup (UNION spool') \cup (UNION landed') \cup (UNION Opened')
  BY DEF Past
<1>2. Past' \subseteq Past
  BY <1>1
<1> QED BY <1>2 DEF Ages

LEMMA BalanceKept ==
    ASSUME Types, Balance, taken' = taken, pending' = pending, sealed' = sealed, Safe \subseteq Safe'
    PROVE  Balance'
BY DEF Balance

(* The line in each phase of the writer.                                   *)
LEMMA LineDeliver ==
    /\ writer.phase \in {"look", "take", "deliver"} => Line = held \o Groups(writer.suspects \o writer.parts)
    /\ writer.phase \in {"retest", "isolate"} =>
         Line = retest.kept \o Groups(retest.work) \o retest.refused \o retest.todo
    /\ writer.phase \in {"end", "commit", "done"} => Line = ChoresOf(keep)
BY DEF Line, Remaining, Chores

LEMMA NoGroups == Groups(<<>>) = <<>> /\ <<>> \in Seq(Piece) /\ <<>> \in Seq(Group) /\ <<>> \in Seq(Some)
<1>1. <<>> \in Seq(Piece) /\ <<>> \in Seq(Group) /\ <<>> \in Seq(Some)
  BY EmptySeq
<1>2. Groups(<<>>) \in Seq(Group) /\ Len(Groups(<<>>)) = Len(<<>>)
  BY <1>1, GroupsOf
<1> QED BY <1>1, <1>2, EmptySeq

LEMMA LineType == ASSUME Types PROVE Line \in Seq(Some)
<1>1. /\ writer.parts \in Seq(Piece) /\ writer.suspects \in Seq(Piece) /\ held \in Seq(Group) /\ keep \in Seq(Chore)
      /\ retest.kept \in Seq(Group) /\ retest.refused \in Seq(Group) /\ retest.todo \in Seq(Group)
      /\ retest.work \in Seq(Piece)
  BY DEF Types, WriterType, WriterRec, RetestRec
<1>2. held \o Groups(writer.suspects \o writer.parts) \in Seq(Some)
  <2>1. Groups(writer.suspects \o writer.parts) \in Seq(Group)
    BY <1>1, Joined, GroupsOf
  <2> QED BY <1>1, <2>1, Joined, SomeSeq
<1>3. retest.kept \o Groups(retest.work) \o retest.refused \o retest.todo \in Seq(Some)
  <2>1. PICK a \in Seq(Group) : a = retest.kept \o Groups(retest.work)
    BY <1>1, Joined, GroupsOf
  <2>2. PICK b \in Seq(Group) : b = a \o retest.refused
    BY <1>1, Joined
  <2>3. b \o retest.todo \in Seq(Group)
    BY <1>1, Joined
  <2> QED BY <2>1, <2>2, <2>3, SomeSeq
<1>4. ChoresOf(keep) \in Seq(Some)
  BY <1>1, ChoreFacts
<1>5. writer.phase \in {"look", "take", "deliver", "retest", "isolate", "end", "commit", "done"}
  BY DEF Types, WriterType, WriterRec
<1> QED BY <1>2, <1>3, <1>4, <1>5, LineDeliver

(* An action that leaves the writer's hands, the disk and the queue alone. *)
LEMMA LineStays ==
    ASSUME UNCHANGED <<writerVars, spool, inflight, landed, torn, count>>
    PROVE  /\ Line' = Line /\ Opened' = Opened /\ Counted' = Counted /\ Past' = Past /\ Safe' = Safe
           /\ (Pieces' <=> Pieces) /\ (Replaced' <=> Replaced)
           /\ (Tokens(Line', spool' \ Opened', landed', torn') <=> Tokens(Line, spool \ Opened, landed, torn))
<1>1. /\ writer' = writer /\ held' = held /\ retest' = retest /\ keep' = keep
      /\ spool' = spool /\ inflight' = inflight /\ landed' = landed /\ torn' = torn /\ count' = count
  BY DEF writerVars
<1>2. Remaining' = Remaining
  BY <1>1 DEF Remaining
<1>3. Line' = Line
  BY <1>1, <1>2 DEF Line, Chores
<1>4. Opened' = Opened /\ Counted' = Counted
  BY <1>1 DEF Opened, Counted
<1>5. Past' = Past /\ Safe' = Safe
  BY <1>1, <1>3, <1>4 DEF Past, Safe
<1>6. Pieces' <=> Pieces
  BY <1>1, <1>2, <1>4 DEF Pieces
<1>7. Replaced' <=> Replaced
  BY <1>1, <1>4 DEF Replaced, Chores
<1> QED BY <1>1, <1>3, <1>4, <1>5, <1>6, <1>7

LEMMA HandsFacts ==
    ASSUME WriterType
    PROVE  /\ writer.parts \in Seq(Piece) /\ writer.suspects \in Seq(Piece) /\ held \in Seq(Group)
           /\ keep \in Seq(Chore) /\ writer.batch \in Group \cup {{}} /\ writer.disk \in BOOLEAN
           /\ writer.any \in BOOLEAN /\ writer.systemic \in BOOLEAN
           /\ writer.phase \in {"look", "take", "deliver", "retest", "isolate", "end", "commit", "done"}
           /\ retest.todo \in Seq(Group) /\ retest.kept \in Seq(Group) /\ retest.refused \in Seq(Group)
           /\ retest.work \in Seq(Piece) /\ retest.bad \in SUBSET Row /\ retest.evidence \in BOOLEAN
           /\ retest.back \in {"look", "end"}
BY DEF WriterType, WriterRec, RetestRec

LEMMA AtRest == Looking \in WriterRec /\ NoRetest \in RetestRec
BY NoGroups DEF Looking, NoRetest, WriterRec, RetestRec

-----------------------------------------------------------------------------
(***************************************************************************)
(* Steps that leave the writer's hands and the disk alone.                 *)
(***************************************************************************)
LEMMA Frame ==
    ASSUME IInv, UNCHANGED <<taken, pending, sealed, closed, writerVars, spool, inflight, landed, torn, count>>,
           stop' => stop \/ closed, Types'
    PROVE  IInv'
<1>1. /\ Line' = Line /\ Opened' = Opened /\ Past' = Past /\ Safe' = Safe /\ Pieces' /\ Replaced'
      /\ Tokens(Line', spool' \ Opened', landed', torn')
  BY LineStays DEF IInv
<1>2. Ages' /\ Balance'
  BY <1>1 DEF IInv, Ages, Balance
<1>3. Phases'
  BY DEF IInv, Phases, writerVars
<1> QED BY <1>1, <1>2, <1>3 DEF IInv

LEMMA DeadlinePassesStep == IInv /\ DeadlinePasses => IInv'
<1> SUFFICES ASSUME IInv, DeadlinePasses PROVE IInv'
  OBVIOUS
<1>1. Types'
  BY DEF IInv, Types, QueueType, DiskType, SpillerType, WriterType, DeadlinePasses, diskVars, writerVars, storeVars
<1> QED BY <1>1, Frame DEF DeadlinePasses, diskVars, storeVars

LEMMA BreakStep == IInv /\ (Break \/ Repair) => IInv'
<1> SUFFICES ASSUME IInv, Break \/ Repair PROVE IInv'
  OBVIOUS
<1>1. Types'
  BY DEF IInv, Types, QueueType, DiskType, SpillerType, WriterType, Break, Repair, queueVars, diskVars, writerVars
<1> QED BY <1>1, Frame DEF Break, Repair, queueVars, diskVars

LEMMA SpillerStarts == IInv /\ (SpillerWakes \/ SpillerPicks \/ SpillerWrites) => IInv'
<1> SUFFICES ASSUME IInv, SpillerWakes \/ SpillerPicks \/ SpillerWrites PROVE IInv'
  OBVIOUS
<1>1. SpillerType' /\ temps' \subseteq Group
  <2>1. CASE SpillerWakes
    BY <2>1 DEF IInv, Types, SpillerType, DiskType, SpillerWakes, diskVars
  <2>2. CASE SpillerPicks
    <3>1. sealed # <<>> => Head(sealed) \in Group
      BY SeqFacts DEF IInv, Types, QueueType
    <3>2. spiller' = [spiller EXCEPT !.phase = "idle", !.batch = {}]
          \/ (sealed # <<>> /\ spiller' = [spiller EXCEPT !.phase = "write", !.batch = Head(sealed)])
      BY <2>2 DEF SpillerPicks
    <3> QED BY <2>2, <3>1, <3>2 DEF IInv, Types, SpillerType, DiskType, SpillerPicks, diskVars
  <2>3. CASE SpillerWrites
    BY <2>3 DEF IInv, Types, SpillerType, DiskType, SpillerWrites
  <2> QED BY <2>1, <2>2, <2>3
<1>2. UNCHANGED <<queueVars, spool, inflight, writerVars, storeVars, count, torn>>
  BY DEF SpillerWakes, SpillerPicks, SpillerWrites, diskVars
<1>3. Types'
  BY <1>1, <1>2 DEF IInv, Types, QueueType, DiskType, WriterType, queueVars, writerVars, storeVars
<1> QED BY <1>2, <1>3, Frame DEF queueVars, storeVars

-----------------------------------------------------------------------------
(***************************************************************************)
(* What the writer has in hand before and after a step.                    *)
(***************************************************************************)
LEMMA NothingInHand ==
    ASSUME Types, Phases, writer.phase \in {"look", "take"}
    PROVE  Line = held /\ Opened = {} /\ keep = <<>> /\ retest.bad = {} /\ held \in Seq(Some)
<1>1. writer.parts = <<>> /\ writer.suspects = <<>> /\ keep = <<>> /\ retest.bad = {}
  BY DEF Phases
<1>2. held \in Seq(Group) /\ held \in Seq(Some)
  BY HandsFacts, SomeSeq DEF Types
<1>3. Groups(writer.suspects \o writer.parts) = <<>>
  BY <1>1, NoGroups, ConcatEmptySeq
<1>4. Line = held
  BY <1>2, <1>3, LineDeliver, ConcatEmptySeq
<1>5. Opened = {}
  BY <1>1 DEF Opened
<1> QED BY <1>1, <1>2, <1>4, <1>5

LEMMA LooksNext ==
    ASSUME writer'.phase \in {"look", "take"}, writer'.parts = <<>>, writer'.suspects = <<>>,
           held' \in Seq(Group), keep' = <<>>
    PROVE  Line' = held' /\ Opened' = {} /\ Pieces' /\ Replaced'
<1>1. held' \in Seq(Some)
  BY SomeSeq
<1>2. Groups(writer'.suspects \o writer'.parts) = <<>>
  BY NoGroups, ConcatEmptySeq
<1>3. Line' = held'
  BY <1>1, <1>2, ConcatEmptySeq DEF Line, Remaining
<1>4. Opened' = {} /\ Pieces' /\ Replaced'
  BY DEF Opened, Pieces, Replaced
<1> QED BY <1>3, <1>4

LEMMA DeliversNext ==
    ASSUME writer'.phase = "deliver", keep' = <<>>
    PROVE  /\ Line' = held' \o Groups(Remaining') /\ Remaining' = writer'.suspects \o writer'.parts
           /\ Opened' = (IF writer'.disk THEN {writer'.batch} ELSE {}) /\ Replaced'
BY DEF Line, Opened, Replaced, Remaining

LEMMA FourAssociate ==
    ASSUME NEW a \in Seq(Some), NEW b \in Seq(Some), NEW c \in Seq(Some), NEW d \in Seq(Some)
    PROVE  a \o (b \o (c \o d)) = ((a \o b) \o c) \o d /\ a \o (b \o (c \o d)) \in Seq(Some)
<1>1. a \o b \in Seq(Some) /\ c \o d \in Seq(Some)
  BY Joined
<1>2. \A ab \in Seq(Some) : ab \o (c \o d) = (ab \o c) \o d
  BY Associates
<1>3. \A cd \in Seq(Some) : a \o (b \o cd) = (a \o b) \o cd
  BY Associates
<1>4. \A ab, cd \in Seq(Some) : ab \o cd \in Seq(Some)
  BY Joined
<1>5. (a \o b) \o (c \o d) = ((a \o b) \o c) \o d
  BY <1>1, <1>2
<1>6. a \o (b \o (c \o d)) = (a \o b) \o (c \o d)
  BY <1>1, <1>3
<1>7. (a \o b) \o (c \o d) \in Seq(Some)
  BY <1>1, <1>4
<1> QED BY <1>5, <1>6, <1>7

LEMMA RoundLine ==
    ASSUME NEW k \in Seq(Group), NEW w \in Seq(Piece), NEW r \in Seq(Group), NEW t \in Seq(Group)
    PROVE  /\ k \o Groups(w) \o r \o t = k \o (Groups(w) \o (r \o t))
           /\ k \in Seq(Some) /\ Groups(w) \in Seq(Some) /\ r \in Seq(Some) /\ t \in Seq(Some)
           /\ k \o (Groups(w) \o (r \o t)) \in Seq(Some)
<1>1. k \in Seq(Some) /\ r \in Seq(Some) /\ t \in Seq(Some) /\ Groups(w) \in Seq(Some)
  BY SomeSeq, GroupsOf
<1>2. PICK g \in Seq(Some) : g = Groups(w)
  BY <1>1
<1>3. k \o (g \o (r \o t)) = ((k \o g) \o r) \o t /\ k \o (g \o (r \o t)) \in Seq(Some)
  BY <1>1, FourAssociate
<1> QED BY <1>1, <1>2, <1>3

LEMMA RoundNow ==
    ASSUME Types, Phases, writer.phase \in {"retest", "isolate"}
    PROVE  /\ Line = retest.kept \o (Groups(retest.work) \o (retest.refused \o retest.todo))
           /\ Opened = {} /\ keep = <<>> /\ held = <<>>
<1>1. keep = <<>> /\ held = <<>>
  BY DEF Phases
<1>2. Line = retest.kept \o (Groups(retest.work) \o (retest.refused \o retest.todo))
  <2>1. /\ retest.todo \in Seq(Group) /\ retest.kept \in Seq(Group) /\ retest.refused \in Seq(Group)
        /\ retest.work \in Seq(Piece)
    BY HandsFacts DEF Types
  <2>2. Line = retest.kept \o Groups(retest.work) \o retest.refused \o retest.todo
    BY LineDeliver
  <2> QED BY <2>1, <2>2, RoundLine
<1> QED BY <1>1, <1>2 DEF Opened

LEMMA RoundNext ==
    ASSUME writer'.phase \in {"retest", "isolate"}, retest' \in RetestRec, keep' = <<>>
    PROVE  /\ Line' = retest'.kept \o (Groups(retest'.work) \o (retest'.refused \o retest'.todo))
           /\ Opened' = {} /\ Pieces' /\ Replaced'
<1>1. /\ retest'.kept \in Seq(Group) /\ retest'.work \in Seq(Piece) /\ retest'.refused \in Seq(Group)
      /\ retest'.todo \in Seq(Group)
  BY DEF RetestRec
<1>2. Line' = retest'.kept \o Groups(retest'.work) \o retest'.refused \o retest'.todo
  BY DEF Line
<1>3. Line' = retest'.kept \o (Groups(retest'.work) \o (retest'.refused \o retest'.todo))
  BY <1>1, <1>2, RoundLine
<1> QED BY <1>3 DEF Opened, Pieces, Replaced

-----------------------------------------------------------------------------
(***************************************************************************)
(* Delivering a batch.                                                     *)
(***************************************************************************)
LEMMA TryFacts ==
    ASSUME IInv, NEW answer, Trying(answer)
    PROVE  LET p == Head(writer.parts)
               G == Groups(Remaining)
           IN /\ writer.phase = "deliver" /\ writer.parts # <<>>
              /\ p \in Piece /\ p.rows \in Group /\ Remaining \in Seq(Piece)
              /\ G \in Seq(Some) /\ Line = held \o G /\ Rows(Line) = Rows(held) \cup Rows(G)
              /\ p.rows \subseteq Rows(G) /\ UNION landed' \subseteq Past
              /\ landed' \in {landed, landed \cup {p.rows}} /\ landed' \subseteq Group /\ broken' \in BOOLEAN
              /\ Tokens(Line, spool \ Opened, landed', torn)
<1> DEFINE p == Head(writer.parts)
<1>1. writer.phase = "deliver" /\ writer.parts # <<>> /\ Insert(p.rows, answer)
  BY DEF Trying
<1>2. writer.parts \in Seq(Piece) /\ writer.suspects \in Seq(Piece) /\ held \in Seq(Group)
  BY HandsFacts DEF IInv, Types
<1>3. PICK G : G = Groups(writer.suspects \o writer.parts)
  OBVIOUS
<1>4. PICK j, k : j = Len(writer.suspects) + 1 /\ k = Len(held) + Len(writer.suspects) + 1
  OBVIOUS
<1>5. /\ p \in Piece /\ G \in Seq(Some) /\ j \in 1..Len(G) /\ G[j] = p.rows
      /\ held \o G \in Seq(Some) /\ k \in 1..Len(held \o G) /\ (held \o G)[k] = p.rows
  <2>1. Trial(held, writer.suspects, writer.parts, j, k)
    BY <1>1, <1>2, <1>4, TrialFacts
  <2> QED BY <1>3, <2>1 DEF Trial
<1> HIDE DEF p
<1>6. p.rows \in Group
  BY <1>5 DEF Piece
<1>7. Line = held \o G
  BY <1>1, <1>3, LineDeliver
<1>8. Rows(Line) = Rows(held) \cup Rows(G)
  <2>1. held \in Seq(Some)
    BY <1>2, SomeSeq
  <2> QED BY <1>5, <1>7, <2>1, RowsJoined
<1>9. p.rows \subseteq Rows(G)
  <2>1. DOMAIN G = 1..Len(G)
    BY <1>5, SeqFacts
  <2> QED BY <1>5, <2>1, RowsOf
<1>10. landed' \in {landed, landed \cup {p.rows}} /\ landed' \subseteq Group /\ broken' \in BOOLEAN
  BY <1>1, <1>6, InsertFacts DEF IInv, Types
<1>11. UNION landed' \subseteq Past
  <2>1. (UNION landed) \cup p.rows \subseteq Past
    BY <1>8, <1>9 DEF Past
  <2> QED BY <1>10, <2>1
<1>12. Tokens(Line, spool \ Opened, landed', torn)
  <2>1. Tokens(Line, spool \ Opened, landed, torn)
    BY DEF IInv
  <2>2. k \in DOMAIN Line /\ Line[k] = p.rows
    <3>1. DOMAIN (held \o G) = 1..Len(held \o G)
      BY <1>5, SeqFacts
    <3> QED BY <1>5, <1>7, <3>1
  <2>3. Tokens(Line, spool \ Opened, landed \cup {Line[k]}, torn)
    BY <2>1, <2>2, TokensLanded
  <2> QED BY <1>10, <2>1, <2>2, <2>3
<1>13. Remaining \in Seq(Piece) /\ G = Groups(Remaining)
  BY <1>2, <1>3, Joined DEF Remaining
<1> QED BY <1>1, <1>5, <1>6, <1>7, <1>8, <1>9, <1>10, <1>11, <1>12, <1>13 DEF p

(* One attempt, after which the batch is still under delivery.             *)
LEMMA StillDelivers ==
    ASSUME IInv, NEW answer, Trying(answer), UNCHANGED <<spool, inflight, held>>,
           writer' \in WriterRec, writer'.phase = "deliver",
           writer'.batch = writer.batch, writer'.disk = writer.disk,
           count' \in CountRec, Counted \subseteq Counted', torn \subseteq torn', torn' \subseteq Row,
           Apart(Groups(Remaining'), {}), Rows(Groups(Remaining')) \subseteq Rows(Groups(Remaining)),
           Rows(Groups(Remaining)) \subseteq Rows(Groups(Remaining')) \cup Counted',
           Tokens(Line', spool \ Opened, landed', torn')
    PROVE  IInv'
<1>1. UNCHANGED <<queueVars, temps, spiller, retest, keep>>
  BY DEF Trying
<1>2. /\ writer.phase = "deliver" /\ Rows(Line) = Rows(held) \cup Rows(Groups(Remaining))
      /\ landed' \subseteq Group /\ broken' \in BOOLEAN /\ UNION landed' \subseteq Past
  BY TryFacts
<1>3. Types'
  <2>1. QueueType' /\ SpillerType'
    BY <1>1 DEF IInv, Types, QueueType, SpillerType, queueVars
  <2>2. DiskType'
    BY <1>1, <1>2 DEF IInv, Types, DiskType
  <2>3. WriterType'
    BY <1>1 DEF IInv, Types, WriterType
  <2> QED BY <2>1, <2>2, <2>3 DEF Types
<1>4. Phases' /\ keep = <<>>
  BY <1>1, <1>2 DEF IInv, Phases, queueVars
<1>5. Opened' = Opened /\ Line' = held \o Groups(Remaining') /\ Replaced'
  <2>1. Opened = IF writer.disk THEN {writer.batch} ELSE {}
    BY <1>2 DEF Opened
  <2> QED BY <1>1, <1>4, <2>1, DeliversNext
<1>6. Rows(Line') = Rows(held) \cup Rows(Groups(Remaining'))
  <2>1. writer'.suspects \in Seq(Piece) /\ writer'.parts \in Seq(Piece)
    BY DEF WriterRec
  <2>2. Remaining' \in Seq(Piece)
    BY <2>1, Joined DEF Remaining
  <2>3. Groups(Remaining') \in Seq(Group) /\ held \in Seq(Group)
    BY <2>2, GroupsOf, HandsFacts DEF IInv, Types
  <2> QED BY <1>5, <2>3, RowsJoined
<1>7. Safe \subseteq Safe'
  BY <1>1, <1>2, <1>6 DEF Safe
<1>8. /\ UNION spool' \subseteq Past /\ Rows(Line') \subseteq Past
      /\ UNION landed' \subseteq Past /\ UNION Opened' \subseteq Past
  BY <1>2, <1>5, <1>6 DEF Past
<1>9. Ages' /\ Balance'
  BY <1>1, <1>7, <1>8, AgesKept, BalanceKept DEF IInv, queueVars
<1>10. Pieces'
  <2>1. /\ writer.batch \in Group /\ (writer.disk => writer.batch \subseteq Rows(Groups(Remaining)) \cup Counted)
        /\ (writer.disk => inflight = writer.batch)
        /\ \A i \in DOMAIN Groups(Remaining) : Groups(Remaining)[i] \subseteq writer.batch
    BY <1>2 DEF IInv, Pieces
  <2>2. Rows(Groups(Remaining)) \subseteq writer.batch
    BY <2>1, RowsOf
  <2>3. \A i \in DOMAIN Groups(Remaining') : Groups(Remaining')[i] \subseteq writer.batch
    BY <2>2, RowsOf
  <2>4. writer.disk => writer.batch \subseteq Rows(Groups(Remaining')) \cup Counted'
    BY <2>1
  <2> QED BY <2>1, <2>3, <2>4 DEF Pieces
<1>11. Tokens(Line', spool' \ Opened', landed', torn')
  BY <1>5
<1> QED BY <1>3, <1>4, <1>5, <1>9, <1>10, <1>11 DEF IInv

(* What one attempt does to the part: it is dealt with, it is taken apart, *)
(* or it stays in the line.                                                *)
LEMMA PartLeaves ==
    ASSUME IInv, NEW answer, Trying(answer), held' = held, writer'.phase = "deliver",
           writer'.suspects = writer.suspects, writer'.parts = Tail(writer.parts), torn \subseteq torn'
    PROVE  /\ Apart(Groups(Remaining'), {}) /\ Rows(Groups(Remaining')) \subseteq Rows(Groups(Remaining))
           /\ Rows(Groups(Remaining)) \subseteq Rows(Groups(Remaining')) \cup Head(writer.parts).rows
           /\ Tokens(Line', spool \ Opened, landed', torn')
<1>1. writer.phase = "deliver" /\ writer.parts # <<>> /\ Tokens(Line, spool \ Opened, landed', torn)
  BY TryFacts
<1>2. writer.parts \in Seq(Piece) /\ writer.suspects \in Seq(Piece) /\ held \in Seq(Group)
  BY HandsFacts DEF IInv, Types
<1>3. PICK G : G = Groups(writer.suspects \o writer.parts)
  OBVIOUS
<1>4. PICK j, k : j = Len(writer.suspects) + 1 /\ k = Len(held) + Len(writer.suspects) + 1
  OBVIOUS
<1>5. /\ G \in Seq(Some) /\ j \in 1..Len(G) /\ G[j] = Head(writer.parts).rows
      /\ held \o G \in Seq(Some) /\ k \in 1..Len(held \o G)
      /\ Groups(writer.suspects \o Tail(writer.parts)) = Without(G, j)
      /\ held \o Groups(writer.suspects \o Tail(writer.parts)) = Without(held \o G, k)
  <2>1. Trial(held, writer.suspects, writer.parts, j, k)
    BY <1>1, <1>2, <1>4, TrialFacts
  <2> QED BY <1>3, <2>1 DEF Trial
<1>6. Line = held \o G /\ Groups(Remaining) = G
  BY <1>1, <1>3, LineDeliver DEF Remaining
<1>7. Groups(Remaining') = Without(G, j) /\ Line' = Without(Line, k)
  <2>1. Remaining' = writer.suspects \o Tail(writer.parts)
    BY DEF Remaining
  <2>2. Line' = held \o Groups(Remaining')
    BY DEF Line
  <2> QED BY <1>5, <1>6, <2>1, <2>2
<1>8. Apart(G, {})
  BY <1>1, <1>6 DEF IInv, Pieces
<1>9. Apart(Without(G, j), {}) /\ Rows(G) = Rows(Without(G, j)) \cup G[j]
  BY <1>5, <1>8, WithoutFacts
<1>10. Picks(Without(Line, k), Line)
  BY <1>5, <1>6, WithoutFacts
<1>11. Tokens(Line', spool \ Opened, landed', torn')
  BY <1>1, <1>7, <1>10, TokensPicked
<1> QED BY <1>5, <1>6, <1>7, <1>9, <1>11

LEMMA PartSplits ==
    ASSUME IInv, NEW answer, Trying(answer), held' = held, writer'.phase = "deliver",
           NEW a \in Piece, NEW b \in Piece, a.rows \cup b.rows = Head(writer.parts).rows, a.rows \cap b.rows = {},
           writer'.suspects = writer.suspects, writer'.parts = <<a, b>> \o Tail(writer.parts),
           torn \subseteq torn', Head(writer.parts).rows \in landed' => Head(writer.parts).rows \subseteq torn'
    PROVE  /\ Apart(Groups(Remaining'), {}) /\ Rows(Groups(Remaining')) = Rows(Groups(Remaining))
           /\ Tokens(Line', spool \ Opened, landed', torn')
<1>1. writer.phase = "deliver" /\ writer.parts # <<>> /\ Tokens(Line, spool \ Opened, landed', torn)
  BY TryFacts
<1>2. writer.parts \in Seq(Piece) /\ writer.suspects \in Seq(Piece) /\ held \in Seq(Group)
  BY HandsFacts DEF IInv, Types
<1>3. PICK G : G = Groups(writer.suspects \o writer.parts)
  OBVIOUS
<1>4. PICK j, k : j = Len(writer.suspects) + 1 /\ k = Len(held) + Len(writer.suspects) + 1
  OBVIOUS
<1>5. /\ G \in Seq(Some) /\ j \in 1..Len(G) /\ G[j] = Head(writer.parts).rows
      /\ held \o G \in Seq(Some) /\ k \in 1..Len(held \o G) /\ (held \o G)[k] = Head(writer.parts).rows
      /\ Groups(writer.suspects \o (<<a, b>> \o Tail(writer.parts))) = Split(G, j, a.rows, b.rows)
      /\ held \o Groups(writer.suspects \o (<<a, b>> \o Tail(writer.parts))) = Split(held \o G, k, a.rows, b.rows)
  <2>1. Trial(held, writer.suspects, writer.parts, j, k)
    BY <1>1, <1>2, <1>4, TrialFacts
  <2> QED BY <1>3, <2>1 DEF Trial
<1>6. Line = held \o G /\ Groups(Remaining) = G
  BY <1>1, <1>3, LineDeliver DEF Remaining
<1>7. Groups(Remaining') = Split(G, j, a.rows, b.rows) /\ Line' = Split(Line, k, a.rows, b.rows)
  <2>1. Remaining' = writer.suspects \o (<<a, b>> \o Tail(writer.parts))
    BY DEF Remaining
  <2>2. Line' = held \o Groups(Remaining')
    BY DEF Line
  <2> QED BY <1>5, <1>6, <2>1, <2>2
<1>8. Apart(G, {})
  BY <1>1, <1>6 DEF IInv, Pieces
<1>9. Apart(Split(G, j, a.rows, b.rows), {}) /\ Rows(Split(G, j, a.rows, b.rows)) = Rows(G)
  <2>1. a.rows \cup b.rows = G[j] /\ a.rows \cap b.rows = {}
    BY <1>5
  <2>2. IsSplit(Split(G, j, a.rows, b.rows), G, j)
    BY <1>5, <2>1, SplitFacts
  <2> QED BY <1>8, <2>2 DEF IsSplit
<1>10. Picks(Line, Line)
  BY <1>5, <1>6, PicksItself
<1>11. Tokens(Line, spool \ Opened, landed', torn')
  BY <1>1, <1>10, TokensPicked
<1>12. Line[k] = Head(writer.parts).rows /\ k \in 1..Len(Line) /\ Line \in Seq(Some)
  BY <1>5, <1>6
<1>13. Tokens(Split(Line, k, a.rows, b.rows), spool \ Opened, landed', torn')
  BY <1>11, <1>12, TokensSplit
<1> QED BY <1>6, <1>7, <1>9, <1>13

LEMMA PartStays ==
    ASSUME IInv, NEW answer, Trying(answer), held' = held, writer'.phase = "deliver", torn \subseteq torn',
           Groups(Remaining') = Groups(Remaining)
    PROVE  /\ Apart(Groups(Remaining'), {}) /\ Tokens(Line', spool \ Opened, landed', torn')
<1>1. writer.phase = "deliver" /\ Line = held \o Groups(Remaining) /\ Tokens(Line, spool \ Opened, landed', torn)
  BY TryFacts
<1>2. Line' = Line
  BY <1>1 DEF Line
<1>3. Picks(Line, Line)
  BY LineType, PicksItself DEF IInv
<1>4. Tokens(Line', spool \ Opened, landed', torn')
  BY <1>1, <1>2, <1>3, TokensPicked
<1> QED BY <1>1, <1>4 DEF IInv, Pieces

(* A part to try: what the record of the writer becomes.                   *)
LEMMA PartTypes ==
    ASSUME IInv, NEW answer, Trying(answer)
    PROVE  /\ Head(writer.parts) \in Piece /\ Tail(writer.parts) \in Seq(Piece)
           /\ Failed(Head(writer.parts)) \in Piece /\ Failed(Head(writer.parts)).rows = Head(writer.parts).rows
           /\ \A s \in Seq(Piece) : [writer EXCEPT !.parts = s] \in WriterRec
<1>1. writer.parts # <<>> /\ writer.parts \in Seq(Piece) /\ writer \in WriterRec
  BY HandsFacts DEF IInv, Types, WriterType, Trying
<1>2. Head(writer.parts) \in Piece /\ Tail(writer.parts) \in Seq(Piece)
  BY <1>1, SeqFacts
<1>3. \A s \in Seq(Piece) : [writer EXCEPT !.parts = s] \in WriterRec
  BY <1>1 DEF WriterRec
<1>4. PICK p \in Piece : p = Head(writer.parts)
  BY <1>2
<1>5. Failed(p) \in Piece /\ Failed(p).rows = p.rows
  BY DEF Failed, Piece
<1> QED BY <1>2, <1>3, <1>4, <1>5

LEMMA AcceptStep == IInv /\ Accept => IInv'
<1> SUFFICES ASSUME IInv, Accept PROVE IInv'
  OBVIOUS
<1>1. Trying("ok") /\ Count("written", Head(writer.parts).rows) /\ UNCHANGED <<spool, inflight, held, torn>>
  BY DEF Accept
<1>2. PICK t \in Seq(Piece) : t = Tail(writer.parts)
  BY <1>1, PartTypes
<1>3. writer' = [writer EXCEPT !.parts = t, !.any = TRUE, !.systemic = FALSE] /\ writer \in WriterRec
  BY <1>2 DEF Accept, IInv, Types, WriterType
<1>4. /\ writer' \in WriterRec /\ writer'.batch = writer.batch /\ writer'.disk = writer.disk
      /\ writer'.suspects = writer.suspects /\ writer'.parts = t /\ writer'.phase = writer.phase
  BY <1>3 DEF WriterRec
<1>5. writer.phase = "deliver" /\ Head(writer.parts).rows \in Group
  BY <1>1, TryFacts
<1>6. /\ Apart(Groups(Remaining'), {}) /\ Rows(Groups(Remaining')) \subseteq Rows(Groups(Remaining))
      /\ Rows(Groups(Remaining)) \subseteq Rows(Groups(Remaining')) \cup Head(writer.parts).rows
      /\ Tokens(Line', spool \ Opened, landed', torn)
  BY <1>1, <1>2, <1>4, <1>5, PartLeaves
<1>7. count' \in CountRec /\ Counted' = Counted \cup Head(writer.parts).rows
  <2>1. Head(writer.parts).rows \in SUBSET Row /\ count \in CountRec
    BY <1>5, RowSets DEF IInv, Types, DiskType
  <2> QED BY <1>1, <2>1, CountFacts
<1>8. torn \subseteq Row
  BY DEF IInv, Types, DiskType
<1> QED BY <1>1, <1>4, <1>5, <1>6, <1>7, <1>8, StillDelivers

LEMMA TryLaterStep == IInv /\ TryLater => IInv'
<1> SUFFICES ASSUME IInv, TryLater PROVE IInv'
  OBVIOUS
<1>1. Trying("other") /\ UNCHANGED <<spool, inflight, writer, held, count, torn>>
  BY DEF TryLater
<1>2. Remaining' = Remaining /\ Counted' = Counted /\ writer.phase = "deliver"
  BY <1>1, TryFacts DEF Remaining, Counted
<1>3. Apart(Groups(Remaining'), {}) /\ Tokens(Line', spool \ Opened, landed', torn')
  BY <1>1, <1>2, PartStays
<1>4. writer' \in WriterRec /\ count' \in CountRec /\ torn' \subseteq Row
  BY <1>1 DEF IInv, Types, DiskType, WriterType
<1> QED BY <1>1, <1>2, <1>3, <1>4, StillDelivers

-----------------------------------------------------------------------------
(***************************************************************************)
(* A refusal, and the end of a delivery.                                   *)
(***************************************************************************)
(* The batch is done with, and what is left of it stays in the line.       *)
LEMMA BatchDone ==
    ASSUME IInv, writer.phase = "deliver", Drops, UNCHANGED <<queueVars, temps, spiller, keep, count>>,
           Line' = Line, Opened' = {}, Pieces', Replaced', Phases', WriterType', retest'.bad = {},
           landed' \subseteq Group, broken' \in BOOLEAN, UNION landed' \subseteq Past,
           torn \subseteq torn', torn' \subseteq Row, Tokens(Line, spool \ Opened, landed', torn)
    PROVE  IInv'
<1>1. Opened = (IF writer.disk THEN {writer.batch} ELSE {}) /\ retest.bad = {}
  BY DEF Opened, IInv, Phases
<1>2. spool' = spool \ Opened /\ inflight' = {}
  BY <1>1 DEF Drops
<1>3. Types'
  <2>1. QueueType' /\ SpillerType'
    BY DEF IInv, Types, QueueType, SpillerType, queueVars
  <2>2. DiskType'
    BY <1>2 DEF IInv, Types, DiskType
  <2> QED BY <2>1, <2>2 DEF Types
<1>4. Counted' = Counted
  BY DEF Counted
<1>5. Safe \subseteq Safe'
  <2>1. UNION spool \subseteq (UNION spool') \cup Rows(Line) \cup Counted
    <3>1. CASE writer.disk
      <4>1. writer.batch \subseteq Rows(Groups(Remaining)) \cup Counted
        BY <3>1 DEF IInv, Pieces
      <4>2. Rows(Groups(Remaining)) \subseteq Rows(Line)
        <5>1. held \in Seq(Group) /\ Remaining \in Seq(Piece)
          BY HandsFacts, Joined DEF IInv, Types, Remaining
        <5>2. Groups(Remaining) \in Seq(Group)
          BY <5>1, GroupsOf
        <5>3. Line = held \o Groups(Remaining)
          BY LineDeliver DEF Remaining
        <5> QED BY <5>1, <5>2, <5>3, RowsJoined
      <4>3. \A s \in spool : s \in spool' \/ s = writer.batch
        BY <1>1, <1>2, <3>1
      <4> QED BY <4>1, <4>2, <4>3
    <3>2. CASE ~writer.disk
      BY <1>1, <1>2, <3>2
    <3> QED BY <3>1, <3>2
  <2> QED BY <1>1, <1>4, <2>1 DEF Safe
<1>6. UNION spool' \subseteq Past /\ Rows(Line') \subseteq Past /\ UNION Opened' \subseteq Past
  BY <1>2 DEF Past
<1>7. Ages' /\ Balance'
  BY <1>5, <1>6, AgesKept, BalanceKept DEF IInv, queueVars
<1>8. Tokens(Line', spool' \ Opened', landed', torn')
  <2>1. Picks(Line, Line)
    BY LineType, PicksItself DEF IInv
  <2>2. spool' \ Opened' = spool \ Opened
    BY <1>2
  <2> QED BY <2>1, <2>2, TokensPicked
<1> QED BY <1>3, <1>7, <1>8 DEF IInv

LEMMA Held ==
    ASSUME IInv, writer.phase = "deliver", Hold(Groups(Remaining)),
           UNCHANGED <<queueVars, temps, spiller, retest, keep, count>>,
           landed' \subseteq Group, broken' \in BOOLEAN, UNION landed' \subseteq Past,
           torn \subseteq torn', torn' \subseteq Row, Tokens(Line, spool \ Opened, landed', torn)
    PROVE  IInv'
<1>1. held' = held \o Groups(Remaining) /\ writer' = Looking /\ Drops
  BY DEF Hold
<1>2. writer'.phase = "look" /\ writer'.parts = <<>> /\ writer'.suspects = <<>> /\ writer' \in WriterRec
  BY <1>1, AtRest DEF Looking
<1>3. held' \in Seq(Group)
  <2>1. held \in Seq(Group) /\ Remaining \in Seq(Piece)
    BY HandsFacts, Joined DEF IInv, Types, Remaining
  <2> QED BY <1>1, <2>1, GroupsOf, Joined
<1>4. keep' = <<>> /\ retest'.bad = {} /\ Phases'
  BY <1>2 DEF IInv, Phases, queueVars
<1>5. Line' = held' /\ Opened' = {} /\ Pieces' /\ Replaced'
  BY <1>2, <1>3, <1>4, LooksNext
<1>6. Line' = Line
  BY <1>1, <1>5, LineDeliver DEF Remaining
<1>7. WriterType'
  BY <1>2, <1>3 DEF IInv, Types, WriterType
<1> QED BY <1>1, <1>4, <1>5, <1>6, <1>7, BatchDone

(* A batch of one row is one part.                                         *)
LEMMA OneRowOnePart ==
    ASSUME IInv, NEW answer, Trying(answer), Single(writer.batch)
    PROVE  Groups(Remaining) = <<Head(writer.parts).rows>>
<1>1. /\ writer.phase = "deliver" /\ writer.parts # <<>>
  BY TryFacts
<1>2. writer.parts \in Seq(Piece) /\ writer.suspects \in Seq(Piece) /\ held \in Seq(Group)
  BY HandsFacts DEF IInv, Types
<1>3. PICK G \in Seq(Group) : G = Groups(writer.suspects \o writer.parts)
  BY <1>2, Joined, GroupsOf
<1>4. PICK j : j \in 1..Len(G) /\ G[j] = Head(writer.parts).rows
  <2>1. PICK j, k : j = Len(writer.suspects) + 1 /\ k = Len(held) + Len(writer.suspects) + 1
    OBVIOUS
  <2>2. Trial(held, writer.suspects, writer.parts, j, k)
    BY <1>1, <1>2, <2>1, TrialFacts
  <2> QED BY <1>3, <2>2 DEF Trial
<1>5. Apart(G, {}) /\ (\A i \in DOMAIN G : G[i] \subseteq writer.batch) /\ writer.batch \in Group
  BY <1>1, <1>3 DEF IInv, Pieces, Remaining
<1>6. PICK r : writer.batch = {r}
  BY <1>5, GroupFacts
<1>7. Len(G) \in Nat /\ DOMAIN G = 1..Len(G) /\ \A i \in 1..Len(G) : G[i] \in Group
  BY SeqFacts
<1>8. \A i \in 1..Len(G) : G[i] = {r}
  BY <1>5, <1>6, <1>7 DEF Group
<1>9. \A i \in 1..Len(G) : i = j
  BY <1>4, <1>5, <1>7, <1>8 DEF Apart
<1>10. Len(G) = 1 /\ j = 1
  <2>1. 1 \in 1..Len(G) /\ Len(G) \in 1..Len(G)
    BY <1>4, <1>7
  <2> QED BY <1>9, <2>1
<1>11. G = <<G[1]>>
  BY <1>10
<1> QED BY <1>3, <1>4, <1>10, <1>11 DEF Remaining

LEMMA RefusedStep == IInv /\ Refused => IInv'
<1> SUFFICES ASSUME IInv, Refused PROVE IInv'
  OBVIOUS
<1>1. Trying("data")
  BY DEF Refused
<1>2. PICK p \in Piece, rest \in Seq(Piece), f \in Piece :
        /\ p = Head(writer.parts) /\ rest = Tail(writer.parts) /\ f = Failed(p) /\ f.rows = p.rows
  BY <1>1, PartTypes
<1>3. /\ writer.phase = "deliver" /\ writer.parts # <<>> /\ p.rows \in Group /\ UNION landed' \subseteq Past
      /\ landed' \subseteq Group /\ broken' \in BOOLEAN /\ Tokens(Line, spool \ Opened, landed', torn)
  BY <1>1, <1>2, TryFacts
<1>4. /\ writer.parts \in Seq(Piece) /\ writer.suspects \in Seq(Piece) /\ held \in Seq(Group) /\ writer \in WriterRec
      /\ writer.batch \in Group \cup {{}}
  BY HandsFacts DEF IInv, Types, WriterType
<1>5. PICK su \in Seq(Piece) : su = Append(writer.suspects, f)
  BY <1>4, AppendProperties
<1>6. PICK un \in Seq(Piece) : un = su \o rest
  BY Joined
<1>7. Groups(un) = Groups(Remaining) /\ Groups(writer.suspects \o (<<f>> \o rest)) = Groups(Remaining)
  <2>1. PICK j, k : j = Len(writer.suspects) + 1 /\ k = Len(held) + Len(writer.suspects) + 1
    OBVIOUS
  <2>2. Trial(held, writer.suspects, writer.parts, j, k)
    BY <1>3, <1>4, <2>1, TrialFacts
  <2> QED BY <1>2, <1>5, <1>6, <2>2 DEF Trial, Remaining
<1>8. /\ torn \subseteq torn' /\ torn' \subseteq Row
      /\ ~TriesAgain(p) /\ ~Single(p.rows) /\ p.rows \in landed' => p.rows \subseteq torn'
  <2>1. torn' = torn \cup (IF p.rows \in landed' /\ ~TriesAgain(p) /\ ~Single(p.rows) THEN p.rows ELSE {})
    BY <1>2 DEF Refused
  <2>2. p.rows \subseteq Row /\ torn \subseteq Row
    BY <1>3, RowSets DEF IInv, Types, DiskType
  <2> QED BY <2>1, <2>2
<1>9. \/ /\ writer' = [writer EXCEPT !.parts = <<f>> \o rest] /\ UNCHANGED <<spool, inflight, held, count>>
      \/ /\ ~TriesAgain(p) /\ ~Single(p.rows) /\ writer' = [writer EXCEPT !.parts = Halves(p.rows) \o rest]
         /\ UNCHANGED <<spool, inflight, held, count>>
      \/ /\ writer' = [writer EXCEPT !.parts = rest] /\ Count("rejected", p.rows) /\ UNCHANGED <<spool, inflight, held>>
      \/ /\ Single(writer.batch) /\ Hold(<<p.rows>>) /\ UNCHANGED count
      \/ /\ writer' = [writer EXCEPT !.parts = <<f>> \o rest, !.systemic = TRUE]
         /\ UNCHANGED <<spool, inflight, held, count>>
      \/ /\ writer' = [writer EXCEPT !.parts = rest, !.suspects = su] /\ UNCHANGED <<spool, inflight, held, count>>
      \/ /\ Hold(Groups(un)) /\ UNCHANGED count
      \/ /\ writer' = [writer EXCEPT !.parts = un, !.suspects = <<>>, !.systemic = TRUE]
         /\ UNCHANGED <<spool, inflight, held, count>>
  BY <1>2, <1>5, <1>6 DEF Refused
<1>10. count \in CountRec /\ (count' = count => Counted' = Counted)
  BY DEF Counted, IInv, Types, DiskType
<1>a. UNCHANGED <<queueVars, temps, spiller, retest, keep>>
  BY <1>1 DEF Trying
<1>11. PICK once \in Seq(Piece) : once = <<f>> \o rest
  BY OneGroup, Joined
(* The part stays in the line, wherever it is now.                         *)
<1>12. ASSUME writer' \in WriterRec, writer'.phase = "deliver", writer'.batch = writer.batch,
              writer'.disk = writer.disk, UNCHANGED <<spool, inflight, held, count>>,
              Groups(writer'.suspects \o writer'.parts) = Groups(Remaining)
       PROVE  IInv'
  <2>1. Groups(Remaining') = Groups(Remaining)
    BY <1>12 DEF Remaining
  <2>2. Apart(Groups(Remaining'), {}) /\ Tokens(Line', spool \ Opened, landed', torn')
    BY <1>1, <1>8, <1>12, <2>1, PartStays
  <2> QED BY <1>1, <1>8, <1>10, <1>12, <2>1, <2>2, StillDelivers
<1>13. CASE /\ writer' = [writer EXCEPT !.parts = <<f>> \o rest] /\ UNCHANGED <<spool, inflight, held, count>>
  <2>1. writer' = [writer EXCEPT !.parts = once]
    BY <1>11, <1>13
  <2>2. /\ writer' \in WriterRec /\ writer'.phase = writer.phase /\ writer'.batch = writer.batch
        /\ writer'.disk = writer.disk /\ writer'.suspects = writer.suspects /\ writer'.parts = once
    BY <1>4, <2>1 DEF WriterRec
  <2> QED BY <1>3, <1>7, <1>11, <1>12, <1>13, <2>2
<1>14. CASE /\ ~TriesAgain(p) /\ ~Single(p.rows) /\ writer' = [writer EXCEPT !.parts = Halves(p.rows) \o rest]
            /\ UNCHANGED <<spool, inflight, held, count>>
  <2>1. PICK a \in Piece, b \in Piece :
          Halves(p.rows) = <<a, b>> /\ a.rows \cup b.rows = p.rows /\ a.rows \cap b.rows = {}
    BY <1>3, <1>14, HalvesFacts
  <2>2. PICK two \in Seq(Piece) : two = <<a, b>> \o rest
    BY TwoGroups, Joined
  <2>3. writer' = [writer EXCEPT !.parts = two]
    BY <1>14, <2>1, <2>2
  <2>4. /\ writer' \in WriterRec /\ writer'.phase = writer.phase /\ writer'.batch = writer.batch
        /\ writer'.disk = writer.disk /\ writer'.suspects = writer.suspects /\ writer'.parts = two
    BY <1>4, <2>3 DEF WriterRec
  <2>5. /\ a.rows \cup b.rows = Head(writer.parts).rows /\ writer'.parts = <<a, b>> \o Tail(writer.parts)
        /\ Head(writer.parts).rows \in landed' => Head(writer.parts).rows \subseteq torn'
    BY <1>2, <1>8, <1>14, <2>1, <2>2, <2>4
  <2>6. /\ Apart(Groups(Remaining'), {}) /\ Rows(Groups(Remaining')) = Rows(Groups(Remaining))
        /\ Tokens(Line', spool \ Opened, landed', torn')
    BY <1>1, <1>3, <1>8, <1>14, <2>1, <2>4, <2>5, PartSplits
  <2> QED BY <1>1, <1>3, <1>8, <1>10, <1>14, <2>4, <2>6, StillDelivers
<1>15. CASE /\ writer' = [writer EXCEPT !.parts = rest] /\ Count("rejected", p.rows)
            /\ UNCHANGED <<spool, inflight, held>>
  <2>1. /\ writer' \in WriterRec /\ writer'.phase = writer.phase /\ writer'.batch = writer.batch
        /\ writer'.disk = writer.disk /\ writer'.suspects = writer.suspects /\ writer'.parts = Tail(writer.parts)
    BY <1>2, <1>4, <1>15 DEF WriterRec
  <2>2. /\ Apart(Groups(Remaining'), {}) /\ Rows(Groups(Remaining')) \subseteq Rows(Groups(Remaining))
        /\ Rows(Groups(Remaining)) \subseteq Rows(Groups(Remaining')) \cup p.rows
        /\ Tokens(Line', spool \ Opened, landed', torn')
    BY <1>1, <1>2, <1>3, <1>8, <1>15, <2>1, PartLeaves
  <2>3. count' \in CountRec /\ Counted' = Counted \cup p.rows
    <3>1. p.rows \in SUBSET Row
      BY <1>3, RowSets
    <3> QED BY <1>10, <1>15, <3>1, CountFacts
  <2> QED BY <1>1, <1>3, <1>8, <1>15, <2>1, <2>2, <2>3, StillDelivers
<1>16. CASE Single(writer.batch) /\ Hold(<<p.rows>>) /\ UNCHANGED count
  <2>1. Hold(Groups(Remaining))
    BY <1>1, <1>2, <1>16, OneRowOnePart
  <2> QED BY <1>3, <1>8, <1>16, <1>a, <2>1, Held
<1>17. CASE /\ writer' = [writer EXCEPT !.parts = <<f>> \o rest, !.systemic = TRUE]
            /\ UNCHANGED <<spool, inflight, held, count>>
  <2>1. writer' = [writer EXCEPT !.parts = once, !.systemic = TRUE]
    BY <1>11, <1>17
  <2>2. /\ writer' \in WriterRec /\ writer'.phase = writer.phase /\ writer'.batch = writer.batch
        /\ writer'.disk = writer.disk /\ writer'.suspects = writer.suspects /\ writer'.parts = once
    BY <1>4, <2>1 DEF WriterRec
  <2> QED BY <1>3, <1>7, <1>11, <1>12, <1>17, <2>2
<1>18. CASE /\ writer' = [writer EXCEPT !.parts = rest, !.suspects = su] /\ UNCHANGED <<spool, inflight, held, count>>
  <2>1. /\ writer' \in WriterRec /\ writer'.phase = writer.phase /\ writer'.batch = writer.batch
        /\ writer'.disk = writer.disk /\ writer'.suspects = su /\ writer'.parts = rest
    BY <1>4, <1>18 DEF WriterRec
  <2> QED BY <1>3, <1>6, <1>7, <1>12, <1>18, <2>1
<1>19. CASE Hold(Groups(un)) /\ UNCHANGED count
  <2>1. Hold(Groups(Remaining))
    BY <1>7, <1>19
  <2> QED BY <1>3, <1>8, <1>19, <1>a, <2>1, Held
<1>20. CASE /\ writer' = [writer EXCEPT !.parts = un, !.suspects = <<>>, !.systemic = TRUE]
            /\ UNCHANGED <<spool, inflight, held, count>>
  <2>1. /\ writer' \in WriterRec /\ writer'.phase = writer.phase /\ writer'.batch = writer.batch
        /\ writer'.disk = writer.disk /\ writer'.suspects = <<>> /\ writer'.parts = un
    BY <1>4, <1>20, NoGroups DEF WriterRec
  <2>2. <<>> \o un = un
    BY ConcatEmptySeq
  <2> QED BY <1>3, <1>7, <1>12, <1>20, <2>1, <2>2
<1> QED BY <1>9, <1>13, <1>14, <1>15, <1>16, <1>17, <1>18, <1>19, <1>20

LEMMA SecondTriesStep == IInv /\ SecondTries => IInv'
<1> SUFFICES ASSUME IInv, SecondTries PROVE IInv'
  OBVIOUS
<1>1. /\ writer.phase = "deliver" /\ writer.parts = <<>> /\ writer.suspects # <<>>
      /\ UNCHANGED <<queueVars, temps, spiller, retest, keep, storeVars, count, torn>>
  BY DEF SecondTries
<1>2. PICK s \in Seq(Piece) : s = writer.suspects
  BY HandsFacts DEF IInv, Types
<1>3. Remaining = s
  BY <1>1, <1>2, ConcatEmptySeq DEF Remaining
<1>4. /\ landed' \subseteq Group /\ broken' \in BOOLEAN /\ UNION landed' \subseteq Past /\ torn' = torn /\ torn' \subseteq Row
      /\ Tokens(Line, spool \ Opened, landed', torn)
  <2>1. UNION landed \subseteq Past
    BY DEF Past
  <2> QED BY <1>1, <2>1 DEF IInv, Types, DiskType, storeVars
<1>5. CASE Hold(Groups(writer.suspects))
  BY <1>1, <1>2, <1>3, <1>4, <1>5, Held
<1>6. CASE ~Hold(Groups(writer.suspects))
  <2> DEFINE t == [i \in DOMAIN s |-> [s[i] EXCEPT !.retested = TRUE]]
  <2>1. Len(s) \in Nat /\ DOMAIN s = 1..Len(s) /\ \A i \in 1..Len(s) : s[i] \in Piece
    BY SeqFacts
  <2>2. \A i \in 1..Len(s) : [s[i] EXCEPT !.retested = TRUE] \in Piece /\ [s[i] EXCEPT !.retested = TRUE].rows = s[i].rows
    BY <2>1 DEF Piece
  <2>3. t \in Seq(Piece)
    <3>1. t = [i \in 1..Len(s) |-> [s[i] EXCEPT !.retested = TRUE]]
      BY <2>1
    <3> HIDE DEF t
    <3> QED BY <2>1, <2>2, <3>1, IsASeq
  <2>4. DOMAIN t = DOMAIN s /\ \A i \in DOMAIN s : t[i].rows = s[i].rows
    BY <2>1, <2>2
  <2>5. /\ UNCHANGED <<spool, inflight, held>>
        /\ \E sys \in BOOLEAN : writer' = [writer EXCEPT !.parts = t, !.suspects = <<>>, !.systemic = sys]
    <3>1. writer.systemic \in BOOLEAN
      BY HandsFacts DEF IInv, Types
    <3> QED BY <1>2, <1>6, <3>1 DEF SecondTries
  <2> HIDE DEF t
  <2>6. Groups(t) = Groups(s)
    BY <2>4 DEF Groups
  <2>7. /\ writer' \in WriterRec /\ writer'.phase = writer.phase /\ writer'.batch = writer.batch
        /\ writer'.disk = writer.disk /\ writer'.suspects = <<>> /\ writer'.parts = t
    BY <2>3, <2>5, NoGroups DEF WriterRec, IInv, Types, WriterType
  <2>8. Groups(Remaining') = Groups(Remaining)
    <3>1. <<>> \o t = t
      BY <2>3, ConcatEmptySeq
    <3> QED BY <1>3, <2>6, <2>7, <3>1 DEF Remaining
  <2>9. Line' = Line /\ Opened' = Opened /\ Counted' = Counted /\ spool' = spool
    BY <1>1, <2>5, <2>7, <2>8 DEF Line, Opened, Counted
  <2>10. Past' = Past /\ Safe' = Safe
    BY <1>1, <2>9 DEF Past, Safe, storeVars
  <2>11. Ages' /\ Balance' /\ Tokens(Line', spool' \ Opened', landed', torn')
    BY <1>1, <1>4, <2>9, <2>10 DEF IInv, Ages, Balance, queueVars
  <2>12. Pieces'
    BY <1>1, <2>5, <2>7, <2>8, <2>9 DEF IInv, Pieces
  <2>13. Types'
    BY <1>1, <1>4, <2>5, <2>7 DEF IInv, Types, QueueType, DiskType, SpillerType, WriterType, queueVars, storeVars
  <2>14. Phases' /\ Replaced'
    <3>1. keep' = <<>>
      BY <1>1 DEF IInv, Phases
    <3> QED BY <1>1, <2>5, <2>7, <3>1 DEF IInv, Phases, queueVars, Replaced
  <2> QED BY <2>11, <2>12, <2>13, <2>14 DEF IInv
<1> QED BY <1>5, <1>6

-----------------------------------------------------------------------------
(***************************************************************************)
(* A round of retests begins, and the writer ends.                         *)
(***************************************************************************)
LEMMA RoundBegins ==
    ASSUME held \in Seq(Group), keep' = <<>>, NEW evidence \in BOOLEAN, NEW back \in {"look", "end"},
           StartRetest(evidence, back)
    PROVE  /\ writer' \in WriterRec /\ retest' \in RetestRec /\ held' = <<>>
           /\ writer'.phase = "retest" /\ writer'.parts = <<>> /\ writer'.suspects = <<>>
           /\ retest'.work = <<>> /\ retest'.bad = {} /\ retest'.back = back
           /\ Line' = held /\ Opened' = {} /\ Pieces' /\ Replaced'
<1>1. /\ writer' = [Looking EXCEPT !.phase = "retest"] /\ held' = <<>>
      /\ retest' = [NoRetest EXCEPT !.todo = held, !.evidence = evidence, !.back = back]
  BY DEF StartRetest
<1>2. /\ writer' \in WriterRec /\ writer'.phase = "retest" /\ writer'.parts = <<>> /\ writer'.suspects = <<>>
  BY <1>1, NoGroups DEF Looking, WriterRec
<1>3. /\ retest' \in RetestRec /\ retest'.work = <<>> /\ retest'.bad = {} /\ retest'.back = back
      /\ retest'.kept = <<>> /\ retest'.refused = <<>> /\ retest'.todo = held
  BY <1>1, NoGroups DEF NoRetest, RetestRec
<1>4. /\ Line' = retest'.kept \o (Groups(retest'.work) \o (retest'.refused \o retest'.todo))
      /\ Opened' = {} /\ Pieces' /\ Replaced'
  BY <1>2, <1>3, RoundNext
<1>5. held \in Seq(Some)
  BY SomeSeq
<1>6. <<>> \o held = held
  BY <1>5, ConcatEmptySeq
<1>7. Line' = held
  BY <1>3, <1>4, <1>6, NoGroups
<1> QED BY <1>1, <1>2, <1>3, <1>4, <1>7

LEMMA EndsFacts ==
    ASSUME NEW first \in Seq(Chore), NEW groups \in Seq(Group), Ends(first, groups)
    PROVE  /\ writer' \in WriterRec /\ writer'.phase = "end" /\ writer'.parts = <<>> /\ writer'.suspects = <<>>
           /\ keep' \in Seq(Chore) /\ keep' = first \o Writes(groups) /\ held' = <<>>
           /\ Line' = ChoresOf(first) \o groups /\ Pieces'
           /\ (\A i \in 1..Len(first) : first[i].do = "write") => Opened' = {} /\ Replaced'
<1>1. writer' = [Looking EXCEPT !.phase = "end"] /\ held' = <<>> /\ keep' = first \o Writes(groups)
  BY DEF Ends
<1>2. /\ writer' \in WriterRec /\ writer'.phase = "end" /\ writer'.parts = <<>> /\ writer'.suspects = <<>>
  BY <1>1, NoGroups DEF Looking, WriterRec
<1>3. PICK w \in Seq(Chore) :
        w = Writes(groups) /\ ChoresOf(w) = groups /\ \A i \in 1..Len(w) : w[i].do = "write"
  <2>1. /\ Writes(groups) \in Seq(Chore) /\ ChoresOf(Writes(groups)) = groups /\ Len(Writes(groups)) = Len(groups)
        /\ \A i \in 1..Len(groups) : Writes(groups)[i].do = "write"
    BY WritesFacts
  <2> QED BY <2>1
<1>4. keep' \in Seq(Chore) /\ Line' = ChoresOf(first) \o groups
  <2>1. first \o w \in Seq(Chore) /\ ChoresOf(first \o w) = ChoresOf(first) \o ChoresOf(w)
    BY Joined, ChoresJoined
  <2>2. Line' = ChoresOf(keep')
    BY <1>2 DEF Line, Chores
  <2> QED BY <1>1, <1>3, <2>1, <2>2
<1>5. ASSUME \A i \in 1..Len(first) : first[i].do = "write" PROVE Opened' = {} /\ Replaced'
  <2>1. \A i \in DOMAIN (first \o w) : (first \o w)[i].do = "write"
    <3>1. PICK k \in Seq(Chore) :
            /\ k = first \o w /\ DOMAIN k = 1..Len(first) + Len(w)
            /\ \A i \in 1..Len(first) : k[i] = first[i]
            /\ \A i \in 1..Len(w) : k[Len(first) + i] = w[i]
      <4>1. /\ first \o w \in Seq(Chore) /\ DOMAIN (first \o w) = 1..Len(first) + Len(w)
            /\ \A i \in 1..Len(first) : (first \o w)[i] = first[i]
            /\ \A i \in 1..Len(w) : (first \o w)[Len(first) + i] = w[i]
        BY Joined
      <4> QED BY <4>1
    <3>2. Len(first) \in Nat /\ Len(w) \in Nat
      BY SeqFacts
    <3>3. ASSUME NEW i \in 1..Len(first) + Len(w) PROVE k[i].do = "write"
      <4>1. CASE i <= Len(first)
        BY <1>5, <3>1, <3>2, <4>1
      <4>2. CASE ~(i <= Len(first))
        <5>1. i - Len(first) \in 1..Len(w) /\ i = Len(first) + (i - Len(first))
          BY <3>2, <4>2
        <5> QED BY <1>3, <3>1, <5>1
      <4> QED BY <4>1, <4>2
    <3> QED BY <3>1, <3>3
  <2>2. \A i \in DOMAIN keep' : keep'[i].do = "write"
    BY <1>1, <1>3, <2>1
  <2>3. Opened' = {}
    BY <1>2, <2>2 DEF Opened
  <2>4. Replaced'
    BY <2>2 DEF Replaced
  <2> QED BY <2>3, <2>4
<1>6. Pieces'
  BY <1>2 DEF Pieces
<1> QED BY <1>1, <1>2, <1>4, <1>5, <1>6

LEMMA DeliveredStep == IInv /\ Delivered => IInv'
<1> SUFFICES ASSUME IInv, Delivered PROVE IInv'
  OBVIOUS
<1>1. /\ writer.phase = "deliver" /\ writer.parts = <<>> /\ writer.suspects = <<>> /\ Drops
      /\ UNCHANGED <<queueVars, temps, spiller, keep, storeVars, count, torn>>
  BY DEF Delivered
<1>2. /\ keep' = <<>> /\ keep = <<>> /\ retest.bad = {} /\ retest.todo = <<>> /\ retest.kept = <<>>
      /\ retest.refused = <<>> /\ retest.work = <<>>
  BY <1>1 DEF IInv, Phases
<1>3. held \in Seq(Group) /\ held \in Seq(Some) /\ retest \in RetestRec
  BY HandsFacts, SomeSeq DEF IInv, Types, WriterType
<1>4. Line = held
  <2>1. Groups(writer.suspects \o writer.parts) = <<>>
    BY <1>1, NoGroups, ConcatEmptySeq
  <2> QED BY <1>1, <1>3, <2>1, LineDeliver, ConcatEmptySeq
<1>5. /\ landed' \subseteq Group /\ broken' \in BOOLEAN /\ UNION landed' \subseteq Past /\ torn' = torn /\ torn' \subseteq Row
      /\ Tokens(Line, spool \ Opened, landed', torn)
  <2>1. UNION landed \subseteq Past
    BY DEF Past
  <2> QED BY <1>1, <2>1 DEF IInv, Types, DiskType, storeVars
<1>6. CASE writer.any /\ held # <<>>
  <2>1. StartRetest(TRUE, "look")
    BY <1>6 DEF Delivered
  <2>2. /\ writer' \in WriterRec /\ retest' \in RetestRec /\ held' = <<>>
        /\ writer'.phase = "retest" /\ writer'.parts = <<>> /\ writer'.suspects = <<>>
        /\ retest'.work = <<>> /\ retest'.bad = {} /\ retest'.back = "look"
        /\ Line' = held /\ Opened' = {} /\ Pieces' /\ Replaced'
    BY <1>2, <1>3, <2>1, RoundBegins
  <2>3. Phases'
    BY <1>1, <1>2, <2>2 DEF IInv, Phases, queueVars
  <2>4. WriterType'
    BY <1>2, <2>2, NoGroups, EmptySeq DEF WriterType
  <2> QED BY <1>1, <1>4, <1>5, <2>2, <2>3, <2>4, BatchDone
<1>7. CASE ~(writer.any /\ held # <<>>)
  <2>1. writer' = Looking /\ held' = held /\ retest' = retest
    BY <1>7 DEF Delivered
  <2>2. writer' \in WriterRec /\ writer'.phase = "look" /\ writer'.parts = <<>> /\ writer'.suspects = <<>>
    BY <2>1, AtRest DEF Looking
  <2>3. Line' = held' /\ Opened' = {} /\ Pieces' /\ Replaced'
    BY <1>2, <1>3, <2>1, <2>2, LooksNext
  <2>4. Phases'
    BY <1>1, <1>2, <2>1, <2>2 DEF IInv, Phases, queueVars
  <2>5. WriterType' /\ retest'.bad = {} /\ Line' = Line
    BY <1>2, <1>3, <1>4, <2>1, <2>2, <2>3, EmptySeq DEF WriterType
  <2> QED BY <1>1, <1>5, <2>3, <2>4, <2>5, BatchDone
<1> QED BY <1>6, <1>7

-----------------------------------------------------------------------------
(***************************************************************************)
(* A round of retests.                                                     *)
(***************************************************************************)
LEMMA RoundShape ==
    ASSUME Types, Phases, writer.phase \in {"retest", "isolate"}
    PROVE  /\ (writer.phase = "retest" => Line = retest.kept \o (retest.refused \o retest.todo))
           /\ (writer.phase = "isolate" => Line = retest.kept \o (Groups(retest.work) \o retest.refused))
           /\ retest.kept \in Seq(Group) /\ retest.refused \in Seq(Group) /\ retest.todo \in Seq(Group)
           /\ retest.work \in Seq(Piece)
<1>1. /\ retest.kept \in Seq(Group) /\ retest.refused \in Seq(Group) /\ retest.todo \in Seq(Group)
      /\ retest.work \in Seq(Piece)
  BY HandsFacts DEF Types
<1>2. Line = retest.kept \o (Groups(retest.work) \o (retest.refused \o retest.todo))
  BY RoundNow
<1>3. CASE writer.phase = "retest"
  <2>1. Groups(retest.work) = <<>>
    BY <1>3, NoGroups DEF Phases
  <2>2. retest.refused \o retest.todo \in Seq(Group)
    BY <1>1, Joined
  <2>3. <<>> \o (retest.refused \o retest.todo) = retest.refused \o retest.todo
    BY <2>2, ConcatEmptySeq
  <2> QED BY <1>1, <1>2, <1>3, <2>1, <2>3
<1>4. CASE writer.phase = "isolate"
  <2>1. retest.todo = <<>>
    BY <1>4 DEF Phases
  <2>2. retest.refused \o <<>> = retest.refused
    BY <1>1, ConcatEmptySeq
  <2> QED BY <1>1, <1>2, <1>4, <2>1, <2>2
<1> QED BY <1>1, <1>3, <1>4

LEMMA RoundShapeNext ==
    ASSUME writer'.phase \in {"retest", "isolate"}, retest' \in RetestRec, keep' = <<>>
    PROVE  /\ (retest'.work = <<>> => Line' = retest'.kept \o (retest'.refused \o retest'.todo))
           /\ (retest'.todo = <<>> => Line' = retest'.kept \o (Groups(retest'.work) \o retest'.refused))
           /\ Opened' = {} /\ Pieces' /\ Replaced'
<1>1. /\ retest'.kept \in Seq(Group) /\ retest'.refused \in Seq(Group) /\ retest'.todo \in Seq(Group)
      /\ retest'.work \in Seq(Piece)
  BY DEF RetestRec
<1>2. /\ Line' = retest'.kept \o (Groups(retest'.work) \o (retest'.refused \o retest'.todo))
      /\ Opened' = {} /\ Pieces' /\ Replaced'
  BY RoundNext
<1>3. ASSUME retest'.work = <<>> PROVE Line' = retest'.kept \o (retest'.refused \o retest'.todo)
  <2>1. retest'.refused \o retest'.todo \in Seq(Group)
    BY <1>1, Joined
  <2>2. <<>> \o (retest'.refused \o retest'.todo) = retest'.refused \o retest'.todo
    BY <2>1, ConcatEmptySeq
  <2> QED BY <1>2, <1>3, <2>2, NoGroups
<1>4. ASSUME retest'.todo = <<>> PROVE Line' = retest'.kept \o (Groups(retest'.work) \o retest'.refused)
  <2>1. retest'.refused \o <<>> = retest'.refused
    BY <1>1, ConcatEmptySeq
  <2> QED BY <1>2, <1>4, <2>1
<1> QED BY <1>2, <1>3, <1>4

(* An insert of a group of the line.                                       *)
LEMMA RoundInsert ==
    ASSUME IInv, writer.phase \in {"retest", "isolate"}, NEW k \in 1..Len(Line), Line[k] \in Group,
           landed' \in {landed, landed \cup {Line[k]}}
    PROVE  landed' \subseteq Group /\ UNION landed' \subseteq Past /\ Tokens(Line, spool \ Opened, landed', torn)
<1>1. Tokens(Line, spool \ Opened, landed, torn) /\ landed \subseteq Group
  BY DEF IInv, Types, DiskType
<1>2. k \in DOMAIN Line
  <2>1. DOMAIN Line = 1..Len(Line)
    BY LineType, SeqFacts DEF IInv
  <2> QED BY <2>1
<1>3. Tokens(Line, spool \ Opened, landed \cup {Line[k]}, torn)
  BY <1>1, <1>2, TokensLanded
<1>4. Line[k] \subseteq Rows(Line)
  BY <1>2, RowsOf
<1>5. (UNION landed) \cup Line[k] \subseteq Past
  BY <1>4 DEF Past
<1> QED BY <1>1, <1>3, <1>5

LEMMA RoundGoesOn ==
    ASSUME IInv, writer.phase \in {"retest", "isolate"}, UNCHANGED <<queueVars, diskVars, spiller, held, keep>>,
           writer' \in WriterRec, writer'.phase \in {"retest", "isolate"}, writer'.parts = <<>>,
           writer'.suspects = <<>>, retest' \in RetestRec, retest'.back = retest.back,
           writer'.phase = "retest" => retest'.work = <<>>, writer'.phase = "isolate" => retest'.todo = <<>>,
           landed' \subseteq Group, broken' \in BOOLEAN, UNION landed' \subseteq Past,
           count' \in CountRec, Counted \subseteq Counted', torn' \subseteq Row,
           Rows(Line') \subseteq Rows(Line),
           Rows(Line) \cup retest.bad \subseteq Rows(Line') \cup retest'.bad \cup Counted',
           Tokens(Line', spool \ Opened, landed', torn')
    PROVE  IInv'
<1>1. keep = <<>> /\ Opened = {} /\ held = <<>>
  BY RoundNow DEF IInv
<1>2. Opened' = {} /\ Pieces' /\ Replaced'
  BY <1>1, RoundNext
<1>3. Types'
  <2>1. QueueType' /\ SpillerType' /\ DiskType'
    BY DEF IInv, Types, QueueType, SpillerType, DiskType, queueVars, diskVars
  <2>2. WriterType'
    BY <1>1, EmptySeq DEF WriterType
  <2> QED BY <2>1, <2>2 DEF Types
<1>4. Phases'
  BY <1>1 DEF IInv, Phases, queueVars
<1>5. Safe \subseteq Safe'
  BY DEF Safe, diskVars
<1>6. UNION spool' \subseteq Past /\ Rows(Line') \subseteq Past /\ UNION Opened' \subseteq Past
  BY <1>2 DEF Past, diskVars
<1>7. Ages' /\ Balance'
  BY <1>5, <1>6, AgesKept, BalanceKept DEF IInv, queueVars
<1>8. Tokens(Line', spool' \ Opened', landed', torn')
  BY <1>1, <1>2 DEF diskVars
<1> QED BY <1>2, <1>3, <1>4, <1>7, <1>8 DEF IInv

LEMMA RoundOver ==
    ASSUME IInv, writer.phase \in {"retest", "isolate"}, UNCHANGED <<queueVars, diskVars, spiller>>,
           NEW groups \in Seq(Group), Line = groups, RoundEnds(groups, retest.bad), torn' = torn,
           landed' \subseteq Group, broken' \in BOOLEAN, UNION landed' \subseteq Past,
           Tokens(Line, spool \ Opened, landed', torn)
    PROVE  IInv'
<1>1. keep = <<>> /\ Opened = {} /\ held = <<>>
  BY RoundNow DEF IInv
<1>2. /\ Count("rejected", retest.bad) /\ retest' = NoRetest
      /\ (retest.back = "end" => Ends(<<>>, groups))
      /\ (retest.back # "end" => held' = groups /\ writer' = Looking /\ keep' = keep)
  BY DEF RoundEnds
<1>3. count' \in CountRec /\ Counted' = Counted \cup retest.bad
  <2>1. retest.bad \in SUBSET Row /\ count \in CountRec
    BY HandsFacts DEF IInv, Types, DiskType
  <2> QED BY <1>2, <2>1, CountFacts
<1>4. /\ retest' \in RetestRec /\ retest'.todo = <<>> /\ retest'.kept = <<>> /\ retest'.refused = <<>>
      /\ retest'.work = <<>> /\ retest'.bad = {} /\ retest'.back = "look"
  BY <1>2, AtRest DEF NoRetest
<1>5. /\ Line' = Line /\ Opened' = {} /\ Pieces' /\ Replaced' /\ WriterType'
      /\ writer'.parts = <<>> /\ writer'.suspects = <<>>
      /\ \/ writer'.phase = "look" /\ keep' = <<>>
         \/ writer'.phase = "end" /\ held' = <<>> /\ retest.back = "end"
  <2>1. CASE retest.back = "end"
    <3>1. Ends(<<>>, groups) /\ <<>> \in Seq(Chore)
      BY <1>2, <2>1, EmptySeq
    <3>2. ChoresOf(<<>>) \o groups = groups
      <4>1. ChoresOf(<<>>) \in Seq(Some) /\ Len(ChoresOf(<<>>)) = 0
        BY <3>1, ChoreFacts, EmptySeq
      <4> QED BY <4>1, EmptySeq, ConcatEmptySeq
    <3>3. /\ writer' \in WriterRec /\ writer'.phase = "end" /\ writer'.parts = <<>> /\ writer'.suspects = <<>>
          /\ keep' \in Seq(Chore) /\ held' = <<>> /\ Line' = ChoresOf(<<>>) \o groups /\ Pieces'
      BY <3>1, EndsFacts
    <3>4. Opened' = {} /\ Replaced'
      <4>1. \A i \in 1..Len(<<>>) : <<>>[i].do = "write"
        OBVIOUS
      <4> QED BY <3>1, <4>1, EndsFacts
    <3>5. WriterType'
      BY <1>4, <3>3, EmptySeq DEF WriterType
    <3> QED BY <2>1, <3>2, <3>3, <3>4, <3>5
  <2>2. CASE retest.back # "end"
    <3>1. held' = groups /\ writer' = Looking /\ keep' = <<>>
      BY <1>1, <1>2, <2>2
    <3>2. writer' \in WriterRec /\ writer'.phase = "look" /\ writer'.parts = <<>> /\ writer'.suspects = <<>>
      BY <3>1, AtRest DEF Looking
    <3>3. Line' = held' /\ Opened' = {} /\ Pieces' /\ Replaced'
      BY <3>1, <3>2, LooksNext
    <3>4. WriterType'
      BY <1>4, <3>1, <3>2, EmptySeq DEF WriterType
    <3> QED BY <3>1, <3>2, <3>3, <3>4
  <2> QED BY <2>1, <2>2
<1>6. Types'
  <2>1. QueueType' /\ SpillerType' /\ DiskType'
    BY <1>3 DEF IInv, Types, QueueType, SpillerType, DiskType, queueVars, diskVars
  <2> QED BY <1>5, <2>1 DEF Types
<1>7. Phases'
  BY <1>4, <1>5 DEF IInv, Phases, queueVars
<1>8. Safe \subseteq Safe'
  BY <1>3, <1>5 DEF Safe, diskVars
<1>9. UNION spool' \subseteq Past /\ Rows(Line') \subseteq Past /\ UNION Opened' \subseteq Past
  BY <1>5 DEF Past, diskVars
<1>10. Ages' /\ Balance'
  BY <1>8, <1>9, AgesKept, BalanceKept DEF IInv, queueVars
<1>11. Tokens(Line', spool' \ Opened', landed', torn')
  BY <1>1, <1>5 DEF diskVars
<1> QED BY <1>5, <1>6, <1>7, <1>10, <1>11 DEF IInv

(* A line a \o <<x>> \o z of which x leaves, is taken apart, or stays.     *)
LEMMA AmidLeaves ==
    ASSUME NEW a \in Seq(Some), NEW z \in Seq(Some), NEW x \in Some, NEW S, NEW D, NEW X,
           Tokens(a \o (<<x>> \o z), S, D, X)
    PROVE  Tokens(a \o z, S, D, X) /\ Rows(a \o (<<x>> \o z)) = Rows(a \o z) \cup x
<1>1. PICK k : k = Len(a) + 1 /\ Amid(a, x, z, k)
  BY Middle
<1>2. PICK L \in Seq(Some) : L = a \o (<<x>> \o z)
  BY <1>1 DEF Amid
<1>3. k \in 1..Len(L) /\ L[k] = x /\ Without(L, k) = a \o z
  BY <1>1, <1>2 DEF Amid
<1>4. Picks(Without(L, k), L) /\ Rows(L) = Rows(Without(L, k)) \cup L[k]
  BY <1>3, WithoutFacts
<1>5. Tokens(Without(L, k), S, D, X)
  BY <1>2, <1>4, TokensPicked
<1> QED BY <1>2, <1>3, <1>4, <1>5

Has(line, x) == \E k \in 1..Len(line) : line[k] = x

LEMMA AmidHas ==
    ASSUME NEW a \in Seq(Some), NEW z \in Seq(Some), NEW x \in Some
    PROVE  Has(a \o (<<x>> \o z), x) /\ a \o (<<x>> \o z) \in Seq(Some)
<1>1. PICK k : k = Len(a) + 1 /\ Amid(a, x, z, k)
  BY Middle
<1> QED BY <1>1 DEF Amid, Has

Divided(a, x, b, c, z, S, D, X) ==
    /\ Tokens(a \o (<<b, c>> \o z), S, D, X)
    /\ Rows(a \o (<<b, c>> \o z)) = Rows(a \o (<<x>> \o z))

LEMMA AmidSplits ==
    ASSUME NEW a \in Seq(Some), NEW z \in Seq(Some), NEW x \in Some, NEW S, NEW D, NEW X,
           Tokens(a \o (<<x>> \o z), S, D, X), NEW b \in Some, NEW c \in Some, b \cup c = x, b \cap c = {},
           x \in D => x \subseteq X
    PROVE  Divided(a, x, b, c, z, S, D, X)
<1>1. PICK k : k = Len(a) + 1 /\ Amid(a, x, z, k)
  BY Middle
<1>2. PICK L \in Seq(Some) : L = a \o (<<x>> \o z)
  BY <1>1 DEF Amid
<1>3. k \in 1..Len(L) /\ L[k] = x /\ Split(L, k, b, c) = a \o (<<b, c>> \o z)
  BY <1>1, <1>2 DEF Amid
<1>4. IsSplit(Split(L, k, b, c), L, k)
  BY <1>3, SplitFacts
<1>5. Tokens(Split(L, k, b, c), S, D, X)
  BY <1>2, <1>3, TokensSplit
<1> QED BY <1>2, <1>3, <1>4, <1>5 DEF IsSplit, Divided

Moves(k, x, r, t) == (k \o <<x>>) \o (r \o t) = k \o (<<x>> \o (r \o t))

LEMMA MovesOver ==
    ASSUME NEW k \in Seq(Some), NEW x \in Some, NEW r \in Seq(Some), NEW t \in Seq(Some)
    PROVE  Moves(k, x, r, t)
<1>1. <<x>> \in Seq(Some) /\ r \o t \in Seq(Some)
  BY Joined
<1>2. \A y \in Seq(Some) : \A z \in Seq(Some) : k \o (y \o z) = (k \o y) \o z
  BY Associates
<1> QED BY <1>1, <1>2 DEF Moves

(* What a step of a round changes of its record.                           *)
LEMMA RoundTypes ==
    ASSUME IInv, writer.phase \in {"retest", "isolate"}
    PROVE  /\ writer \in WriterRec /\ writer.parts = <<>> /\ writer.suspects = <<>> /\ retest \in RetestRec
           /\ keep = <<>> /\ Opened = {} /\ held = <<>> /\ retest.bad \in SUBSET Row
           /\ count \in CountRec /\ torn \subseteq Row /\ landed \subseteq Group /\ broken \in BOOLEAN
           /\ (writer.phase = "retest" => retest.work = <<>>) /\ (writer.phase = "isolate" => retest.todo = <<>>)
           /\ Tokens(Line, spool \ Opened, landed, torn) /\ UNION landed \subseteq Past /\ Line \in Seq(Some)
<1>1. writer.parts = <<>> /\ writer.suspects = <<>> /\ keep = <<>> /\ Opened = {} /\ held = <<>>
  BY RoundNow DEF IInv, Phases
<1>2. writer \in WriterRec /\ retest \in RetestRec /\ retest.bad \in SUBSET Row
  BY HandsFacts DEF IInv, Types, WriterType
<1>3. UNION landed \subseteq Past
  BY DEF Past
<1> QED BY <1>1, <1>2, <1>3, LineType DEF IInv, Types, DiskType, Phases

LEMMA RetestStep == IInv /\ Retest => IInv'
<1> SUFFICES ASSUME IInv, Retest PROVE IInv'
  OBVIOUS
<1>1. writer.phase = "retest" /\ retest.todo # <<>> /\ writer' = writer /\ torn' = torn
  BY DEF Retest
<1>2. PICK k \in Seq(Group), r \in Seq(Group), t \in Seq(Group) :
        /\ k = retest.kept /\ r = retest.refused /\ t = retest.todo /\ Line = k \o (r \o t)
  BY <1>1, RoundShape DEF IInv
<1>3. PICK x \in Group, tl \in Seq(Group) : x = Head(t) /\ tl = Tail(t) /\ t = <<x>> \o tl
  <2>1. t # <<>>
    BY <1>1, <1>2
  <2>2. Head(t) \in Group /\ Tail(t) \in Seq(Group)
    BY <2>1, SeqFacts
  <2>3. t = <<Head(t)>> \o Tail(t)
    BY <2>1, HeadFirst
  <2> QED BY <2>2, <2>3
<1>4. k \in Seq(Some) /\ r \in Seq(Some) /\ tl \in Seq(Some) /\ x \in Some /\ <<x>> \in Seq(Group) /\ <<x>> \in Seq(Some)
  <2>1. x \in Some
    BY DEF Some
  <2> QED BY <2>1, SomeSeq
<1>5. PICK kr \in Seq(Some) : kr = k \o r
  BY <1>4, Joined
<1>6. Line = kr \o (<<x>> \o tl) /\ Line = k \o (r \o (<<x>> \o tl))
  <2>1. PICK y \in Seq(Some) : y = <<x>> \o tl
    BY <1>4, Joined
  <2>2. k \o (r \o y) = (k \o r) \o y
    BY <1>4, Associates
  <2> QED BY <1>2, <1>3, <1>5, <2>1, <2>2
<1>7. /\ writer \in WriterRec /\ writer.parts = <<>> /\ writer.suspects = <<>> /\ retest \in RetestRec
      /\ keep = <<>> /\ count \in CountRec /\ torn \subseteq Row /\ retest.work = <<>>
      /\ Tokens(Line, spool \ Opened, landed, torn) /\ Line \in Seq(Some)
  BY <1>1, RoundTypes
<1>8. PICK i \in 1..Len(Line) : Line[i] = x
  <2>1. Has(kr \o (<<x>> \o tl), x)
    BY <1>4, AmidHas
  <2> QED BY <1>6, <2>1 DEF Has
<1>9. ASSUME NEW answer, Retested(x, answer)
      PROVE  /\ landed' \subseteq Group /\ UNION landed' \subseteq Past /\ broken' \in BOOLEAN
             /\ Tokens(Line, spool \ Opened, landed', torn)
             /\ UNCHANGED <<queueVars, diskVars, spiller, held, keep>>
  <2>1. Insert(x, answer) /\ UNCHANGED <<queueVars, diskVars, spiller, held, keep>>
    BY <1>9 DEF Retested
  <2>2. landed' \in {landed, landed \cup {x}} /\ broken' \in BOOLEAN
    BY <2>1, InsertFacts DEF IInv, Types
  <2> QED BY <1>1, <1>8, <2>1, <2>2, RoundInsert
<1>10. CASE /\ Retested(x, "ok") /\ retest' = [retest EXCEPT !.todo = tl, !.evidence = TRUE]
            /\ Count("written", x)
  <2>1. /\ retest' \in RetestRec /\ retest'.back = retest.back /\ retest'.work = <<>> /\ retest'.bad = retest.bad
        /\ retest'.kept = k /\ retest'.refused = r /\ retest'.todo = tl
    BY <1>2, <1>7, <1>10 DEF RetestRec
  <2>2. keep' = <<>>
    BY <1>7, <1>9, <1>10
  <2>3. Line' = k \o (r \o tl)
    BY <1>1, <2>1, <2>2, RoundShapeNext
  <2>4. Line' = kr \o tl
    <3>1. k \o (r \o tl) = (k \o r) \o tl
      BY <1>4, Associates
    <3> QED BY <1>5, <2>3, <3>1
  <2>5. /\ Tokens(Line', spool \ Opened, landed', torn') /\ Rows(Line) = Rows(Line') \cup x
    <3>1. Tokens(kr \o (<<x>> \o tl), spool \ Opened, landed', torn)
      BY <1>6, <1>9, <1>10
    <3>2. Tokens(kr \o tl, spool \ Opened, landed', torn) /\ Rows(kr \o (<<x>> \o tl)) = Rows(kr \o tl) \cup x
      BY <1>4, <3>1, AmidLeaves
    <3> QED BY <1>1, <1>6, <2>4, <3>2
  <2>6. count' \in CountRec /\ Counted' = Counted \cup x
    <3>1. x \in SUBSET Row
      BY RowSets
    <3> QED BY <1>7, <1>10, <3>1, CountFacts
  <2> QED BY <1>1, <1>7, <1>9, <1>10, <2>1, <2>5, <2>6, RoundGoesOn
(* The group keeps its place, or joins those that wait.                    *)
<1>11. ASSUME retest' \in RetestRec, retest'.back = retest.back, retest'.work = <<>>, retest'.bad = retest.bad,
              count' = count, NEW answer, Retested(x, answer), Picks(Line', Line), Rows(Line') = Rows(Line)
       PROVE  IInv'
  <2>1. Counted' = Counted
    BY <1>11 DEF Counted
  <2>2. Tokens(Line', spool \ Opened, landed', torn')
    <3>1. Tokens(Line, spool \ Opened, landed', torn)
      BY <1>9, <1>11
    <3> QED BY <1>1, <1>11, <3>1, TokensPicked
  <2> QED BY <1>1, <1>7, <1>9, <1>11, <2>1, <2>2, RoundGoesOn
<1>12. CASE /\ Retested(x, "data") /\ retest' = [retest EXCEPT !.todo = tl, !.refused = Append(r, x)]
            /\ UNCHANGED count
  <2>1. PICK rx \in Seq(Group) : rx = Append(r, x) /\ rx = r \o <<x>>
    BY AppendProperties, AppendIsConcat
  <2>2. /\ retest' \in RetestRec /\ retest'.back = retest.back /\ retest'.work = <<>> /\ retest'.bad = retest.bad
        /\ retest'.kept = k /\ retest'.refused = rx /\ retest'.todo = tl
    BY <1>2, <1>7, <1>12, <2>1 DEF RetestRec
  <2>3. keep' = <<>>
    BY <1>7, <1>9, <1>12
  <2>4. Line' = k \o (rx \o tl)
    BY <1>1, <2>2, <2>3, RoundShapeNext
  <2>5. Line' = Line
    <3>1. r \o (<<x>> \o tl) = (r \o <<x>>) \o tl
      BY <1>4, Associates
    <3> QED BY <1>6, <2>1, <2>4, <3>1
  <2> QED BY <1>7, <1>11, <1>12, <2>2, <2>5, PicksItself
<1>13. CASE /\ Retested(x, "other") /\ retest' = [retest EXCEPT !.todo = tl, !.kept = Append(k, x)]
            /\ UNCHANGED count
  <2>1. PICK kx \in Seq(Group) : kx = Append(k, x) /\ kx = k \o <<x>>
    BY AppendProperties, AppendIsConcat
  <2>2. /\ retest' \in RetestRec /\ retest'.back = retest.back /\ retest'.work = <<>> /\ retest'.bad = retest.bad
        /\ retest'.kept = kx /\ retest'.refused = r /\ retest'.todo = tl
    BY <1>2, <1>7, <1>13, <2>1 DEF RetestRec
  <2>3. keep' = <<>>
    BY <1>7, <1>9, <1>13
  <2>4. Line' = kx \o (r \o tl)
    BY <1>1, <2>2, <2>3, RoundShapeNext
  <2>5. Line' = k \o (<<x>> \o (r \o tl))
    <3>1. Moves(k, x, r, tl)
      BY <1>4, MovesOver
    <3> QED BY <2>1, <2>4, <3>1 DEF Moves
  <2>6. Picks(k \o (<<x>> \o (r \o tl)), k \o (r \o (<<x>> \o tl)))
        /\ Rows(k \o (<<x>> \o (r \o tl))) = Rows(k \o (r \o (<<x>> \o tl)))
    <3>1. PICK one \in Seq(Some) : one = <<x>>
      BY <1>4
    <3>2. Picks(k \o (one \o (r \o tl)), k \o (r \o (one \o tl)))
          /\ Rows(k \o (one \o (r \o tl))) = Rows(k \o (r \o (one \o tl)))
      BY <1>4, PicksSwap
    <3> QED BY <3>1, <3>2
  <2> QED BY <1>6, <1>11, <1>13, <2>2, <2>5, <2>6
<1>14. \/ Retested(x, "ok") /\ retest' = [retest EXCEPT !.todo = tl, !.evidence = TRUE] /\ Count("written", x)
       \/ Retested(x, "data") /\ retest' = [retest EXCEPT !.todo = tl, !.refused = Append(r, x)] /\ UNCHANGED count
       \/ Retested(x, "other") /\ retest' = [retest EXCEPT !.todo = tl, !.kept = Append(k, x)] /\ UNCHANGED count
  BY <1>2, <1>3 DEF Retest
<1> QED BY <1>10, <1>12, <1>13, <1>14

-----------------------------------------------------------------------------
(***************************************************************************)
(* Judging and isolating what was refused in a round.                      *)
(***************************************************************************)
LEMMA JudgeStep == IInv /\ Judge => IInv'
<1> SUFFICES ASSUME IInv, Judge PROVE IInv'
  OBVIOUS
<1>1. /\ writer.phase = "retest" /\ retest.todo = <<>>
      /\ UNCHANGED <<queueVars, diskVars, spiller, storeVars>>
  BY DEF Judge
<1>2. PICK k \in Seq(Group), r \in Seq(Group) :
        k = retest.kept /\ r = retest.refused /\ Line = k \o r
  <2>1. retest.refused \o <<>> = retest.refused /\ retest.kept \in Seq(Group) /\ retest.refused \in Seq(Group)
    BY HandsFacts, ConcatEmptySeq DEF IInv, Types
  <2> QED BY <1>1, <2>1, RoundShape DEF IInv
<1>3. /\ writer \in WriterRec /\ writer.parts = <<>> /\ writer.suspects = <<>> /\ retest \in RetestRec
      /\ keep = <<>> /\ count \in CountRec /\ torn \subseteq Row /\ retest.work = <<>> /\ retest.bad \in SUBSET Row
      /\ landed \subseteq Group /\ broken \in BOOLEAN /\ UNION landed \subseteq Past
      /\ Tokens(Line, spool \ Opened, landed, torn) /\ Line \in Seq(Some)
  BY <1>1, RoundTypes
<1>4. landed' = landed /\ broken' = broken
  BY <1>1 DEF storeVars
<1>5. CASE RoundEnds(retest.kept \o retest.refused, retest.bad) /\ UNCHANGED torn
  <2>1. k \o r \in Seq(Group)
    BY Joined
  <2> QED BY <1>1, <1>2, <1>3, <1>4, <1>5, <2>1, RoundOver
<1>6. ASSUME retest.evidence, retest.refused # <<>>, UNCHANGED <<held, keep, count>>,
             LET rows == Head(retest.refused)
             IN IF Single(rows)
                THEN /\ retest' = [retest EXCEPT !.refused = Tail(@), !.bad = @ \cup rows]
                     /\ UNCHANGED <<writer, torn>>
                ELSE /\ retest' = [retest EXCEPT !.refused = Tail(@), !.work = Halves(rows)]
                     /\ writer' = [writer EXCEPT !.phase = "isolate"]
                     /\ torn' = torn \cup (IF rows \in landed THEN rows ELSE {})
      PROVE  IInv'
  <2>1. PICK x \in Group, tl \in Seq(Group) : x = Head(r) /\ tl = Tail(r) /\ r = <<x>> \o tl
    <3>1. Head(r) \in Group /\ Tail(r) \in Seq(Group)
      BY <1>2, <1>6, SeqFacts
    <3>2. r = <<Head(r)>> \o Tail(r)
      BY <1>2, <1>6, HeadFirst
    <3> QED BY <3>1, <3>2
  <2>2. k \in Seq(Some) /\ tl \in Seq(Some) /\ x \in Some
    <3>1. x \in Some
      BY DEF Some
    <3> QED BY <3>1, SomeSeq
  <2>3. Counted' = Counted /\ keep' = <<>> /\ Line = k \o (<<x>> \o tl)
    BY <1>2, <1>3, <1>6, <2>1 DEF Counted
  <2>4. CASE Single(x)
    <3>1. /\ retest' = [retest EXCEPT !.refused = tl, !.bad = @ \cup x] /\ writer' = writer /\ torn' = torn
      BY <1>2, <1>6, <2>1, <2>4
    <3>2. x \in SUBSET Row
      BY RowSets
    <3>3. /\ retest' \in RetestRec /\ retest'.back = retest.back /\ retest'.work = <<>>
          /\ retest'.bad = retest.bad \cup x
          /\ retest'.kept = k /\ retest'.refused = tl /\ retest'.todo = <<>>
      BY <1>1, <1>2, <1>3, <3>1, <3>2 DEF RetestRec
    <3>4. Line' = k \o tl
      <4>1. Line' = k \o (tl \o <<>>)
        BY <1>1, <2>3, <3>1, <3>3, RoundShapeNext
      <4> QED BY <4>1, ConcatEmptySeq
    <3>5. Tokens(k \o tl, spool \ Opened, landed, torn) /\ Rows(k \o (<<x>> \o tl)) = Rows(k \o tl) \cup x
      BY <1>3, <2>2, <2>3, AmidLeaves
    <3> QED BY <1>1, <1>3, <1>4, <1>6, <2>3, <3>1, <3>3, <3>4, <3>5, RoundGoesOn
  <2>5. CASE ~Single(x)
    <3>1. PICK a \in Piece, b \in Piece :
             /\ Halves(x) = <<a, b>> /\ a.rows \cup b.rows = x /\ a.rows \cap b.rows = {}
             /\ a.rows # x /\ b.rows # x
      BY <2>5, HalvesFacts
    <3>2. PICK w \in Seq(Piece) : w = <<a, b>> /\ Groups(w) = <<a.rows, b.rows>>
      BY TwoGroups
    <3>3. /\ retest' = [retest EXCEPT !.refused = tl, !.work = w] /\ writer' = [writer EXCEPT !.phase = "isolate"]
          /\ torn' = torn \cup (IF x \in landed THEN x ELSE {})
      BY <1>2, <1>6, <2>1, <2>5, <3>1, <3>2
    <3>4. /\ retest' \in RetestRec /\ retest'.back = retest.back /\ retest'.work = w
          /\ retest'.bad = retest.bad /\ retest'.kept = k /\ retest'.refused = tl /\ retest'.todo = <<>>
      BY <1>1, <1>2, <1>3, <3>3 DEF RetestRec
    <3>5. /\ writer' \in WriterRec /\ writer'.phase = "isolate" /\ writer'.parts = <<>> /\ writer'.suspects = <<>>
      BY <1>3, <3>3 DEF WriterRec
    <3>6. Line' = k \o (<<a.rows, b.rows>> \o tl)
      BY <2>3, <3>2, <3>4, <3>5, RoundShapeNext
    <3>7. torn' \subseteq Row /\ torn \subseteq torn' /\ (x \in landed => x \subseteq torn')
      BY <1>3, <3>3, RowSets
    <3>8. Tokens(k \o (<<x>> \o tl), spool \ Opened, landed, torn')
      BY <1>3, <2>3, <3>7, PicksItself, TokensPicked
    <3>9. a.rows \in Some /\ b.rows \in Some
      BY OneGroup
    <3>10. /\ Tokens(k \o (<<a.rows, b.rows>> \o tl), spool \ Opened, landed, torn')
           /\ Rows(k \o (<<a.rows, b.rows>> \o tl)) = Rows(k \o (<<x>> \o tl))
      <4>1. Divided(k, x, a.rows, b.rows, tl, spool \ Opened, landed, torn')
        BY <2>2, <3>1, <3>7, <3>8, <3>9, AmidSplits
      <4> QED BY <4>1 DEF Divided
    <3> QED BY <1>1, <1>3, <1>4, <1>6, <2>3, <3>4, <3>5, <3>6, <3>7, <3>10, RoundGoesOn
  <2> QED BY <2>4, <2>5
<1> QED BY <1>5, <1>6 DEF Judge

(* The line of a round in which pieces w of a group are tried.             *)
Works(k, w, r) ==
    LET x == Head(w).rows
        g == Groups(Tail(w))
    IN /\ Head(w) \in Piece /\ Tail(w) \in Seq(Piece) /\ x \in Group /\ x \in Some /\ g \o r \in Seq(Some)
       /\ k \o (Groups(w) \o r) = k \o (<<x>> \o (g \o r))
       /\ \A q \in Piece : q.rows = x => k \o (Groups(<<q>> \o Tail(w)) \o r) = k \o (<<x>> \o (g \o r))
       /\ \A a, b \in Piece :
            k \o (Groups(<<a, b>> \o Tail(w)) \o r) = k \o (<<a.rows, b.rows>> \o (g \o r))

LEMMA WorksFacts ==
    ASSUME NEW k \in Seq(Group), NEW w \in Seq(Piece), w # <<>>, NEW r \in Seq(Group)
    PROVE  Works(k, w, r)
<1>1. PICK p \in Piece, tl \in Seq(Piece) : p = Head(w) /\ tl = Tail(w) /\ w = <<p>> \o tl
  <2>1. Head(w) \in Piece /\ Tail(w) \in Seq(Piece)
    BY SeqFacts
  <2> QED BY <2>1, HeadFirst
<1>2. PICK g \in Seq(Group) : g = Groups(tl)
  BY GroupsOf
<1>3. g \o r \in Seq(Some) /\ g \in Seq(Some) /\ r \in Seq(Some)
  BY SomeSeq, Joined
<1>4. ASSUME NEW s \in Seq(Piece) PROVE Groups(s \o tl) \o r = Groups(s) \o (g \o r)
  <2>1. PICK gs \in Seq(Some) : gs = Groups(s)
    BY GroupsOf, SomeSeq
  <2>2. Groups(s \o tl) = gs \o g
    BY <1>2, <2>1, GroupsJoined
  <2>3. gs \o (g \o r) = (gs \o g) \o r
    BY <1>3, Associates
  <2> QED BY <2>1, <2>2, <2>3
<1>5. ASSUME NEW q \in Piece PROVE Groups(<<q>> \o tl) \o r = <<q.rows>> \o (g \o r)
  <2>1. <<q>> \in Seq(Piece) /\ Groups(<<q>>) = <<q.rows>>
    BY OneGroup
  <2> QED BY <1>4, <2>1
<1>6. ASSUME NEW a \in Piece, NEW b \in Piece PROVE Groups(<<a, b>> \o tl) \o r = <<a.rows, b.rows>> \o (g \o r)
  <2>1. <<a, b>> \in Seq(Piece) /\ Groups(<<a, b>>) = <<a.rows, b.rows>>
    BY TwoGroups
  <2> QED BY <1>4, <2>1
<1>7. p.rows \in Group /\ p.rows \in Some
  BY OneGroup
<1> QED BY <1>1, <1>2, <1>3, <1>5, <1>6, <1>7 DEF Works

LEMMA FailsOnce == ASSUME NEW p \in Piece PROVE Failed(p) \in Piece /\ Failed(p).rows = p.rows
<1>1. p.fails \in 0..2
  BY DEF Piece
<1>2. (IF p.fails < 2 THEN p.fails + 1 ELSE p.fails) \in 0..2
  BY <1>1
<1> QED BY <1>2 DEF Failed, Piece

LEMMA IsolateStep == IInv /\ Isolate => IInv'
<1> SUFFICES ASSUME IInv, Isolate PROVE IInv'
  OBVIOUS
<1>1. writer.phase = "isolate" /\ retest.work # <<>> /\ writer' = writer
  BY DEF Isolate
<1>2. PICK k \in Seq(Group), r \in Seq(Group), w \in Seq(Piece) :
        k = retest.kept /\ r = retest.refused /\ w = retest.work /\ w # <<>> /\ Line = k \o (Groups(w) \o r)
  BY <1>1, RoundShape DEF IInv
<1>3. /\ writer \in WriterRec /\ writer.parts = <<>> /\ writer.suspects = <<>> /\ retest \in RetestRec
      /\ keep = <<>> /\ count \in CountRec /\ torn \subseteq Row /\ retest.todo = <<>> /\ retest.bad \in SUBSET Row
      /\ Tokens(Line, spool \ Opened, landed, torn) /\ Line \in Seq(Some)
  BY <1>1, RoundTypes
<1>4. PICK p \in Piece, x \in Group, rest \in Seq(Piece), g \in Seq(Group) :
        p = Head(w) /\ x = p.rows /\ rest = Tail(w) /\ g = Groups(rest)
  <2>1. Head(w) \in Piece /\ Tail(w) \in Seq(Piece)
    BY <1>2, SeqFacts
  <2>2. Head(w).rows \in Group /\ Groups(Tail(w)) \in Seq(Group)
    BY <2>1, GroupsOf, OneGroup
  <2> QED BY <2>1, <2>2
<1>5. Works(k, w, r)
  BY <1>2, WorksFacts
<1>6. PICK z \in Seq(Some) : z = g \o r
  BY <1>4, <1>5 DEF Works
<1>7. Line = k \o (<<x>> \o z) /\ k \in Seq(Some) /\ x \in Some /\ x \in SUBSET Row
  BY <1>2, <1>4, <1>5, <1>6, SomeSeq, RowSets DEF Works
<1>8. PICK i \in 1..Len(Line) : Line[i] = x
  <2>1. Has(k \o (<<x>> \o z), x)
    BY <1>7, AmidHas
  <2> QED BY <1>7, <2>1 DEF Has
<1>9. ASSUME NEW answer, Retested(x, answer)
      PROVE  /\ landed' \subseteq Group /\ UNION landed' \subseteq Past /\ broken' \in BOOLEAN
             /\ Tokens(Line, spool \ Opened, landed', torn) /\ keep' = <<>>
             /\ UNCHANGED <<queueVars, diskVars, spiller, held, keep>>
  <2>1. Insert(x, answer) /\ UNCHANGED <<queueVars, diskVars, spiller, held, keep>>
    BY <1>9 DEF Retested
  <2>2. landed' \in {landed, landed \cup {x}} /\ broken' \in BOOLEAN
    BY <2>1, InsertFacts DEF IInv, Types
  <2> QED BY <1>1, <1>3, <1>8, <2>1, <2>2, RoundInsert
(* What all of it keeps: the groups of the line, taken apart or less one.  *)
<1>10. ASSUME NEW answer, Retested(x, answer), NEW v \in Seq(Piece), NEW l \in Seq(Group), NEW bad \in SUBSET Row,
              retest' = [retest EXCEPT !.work = v, !.kept = l, !.bad = bad],
              torn' \subseteq Row, count' \in CountRec, Counted \subseteq Counted',
              NEW line, line = l \o (Groups(v) \o r), Tokens(line, spool \ Opened, landed', torn'),
              Rows(line) \subseteq Rows(Line),
              Rows(Line) \cup retest.bad \subseteq Rows(line) \cup bad \cup Counted'
       PROVE  IInv'
  <2>1. /\ retest' \in RetestRec /\ retest'.back = retest.back /\ retest'.work = v /\ retest'.bad = bad
        /\ retest'.kept = l /\ retest'.refused = r /\ retest'.todo = <<>>
    BY <1>2, <1>3, <1>10 DEF RetestRec
  <2>2. Line' = line
    BY <1>1, <1>9, <1>10, <2>1, RoundShapeNext
  <2> QED BY <1>1, <1>3, <1>9, <1>10, <2>1, <2>2, RoundGoesOn
<1>11. CASE Retested(x, "ok") /\ retest' = [retest EXCEPT !.work = rest] /\ Count("written", x) /\ UNCHANGED torn
  <2>1. count' \in CountRec /\ Counted' = Counted \cup x
    BY <1>3, <1>7, <1>11, CountFacts
  <2>2. Tokens(k \o (<<x>> \o z), spool \ Opened, landed', torn)
    BY <1>7, <1>9, <1>11
  <2>3. Tokens(k \o z, spool \ Opened, landed', torn) /\ Rows(k \o (<<x>> \o z)) = Rows(k \o z) \cup x
    BY <1>7, <2>2, AmidLeaves
  <2>4. PICK line : line = k \o (Groups(rest) \o r)
    OBVIOUS
  <2>5. retest' = [retest EXCEPT !.work = rest, !.kept = k, !.bad = retest.bad]
    BY <1>2, <1>3, <1>11 DEF RetestRec
  <2> QED BY <1>3, <1>4, <1>6, <1>7, <1>10, <1>11, <2>1, <2>3, <2>4, <2>5
<1>12. CASE /\ Retested(x, "other") /\ retest' = [retest EXCEPT !.kept = k \o Groups(w), !.work = <<>>]
            /\ UNCHANGED <<count, torn>>
  <2>1. PICK gw \in Seq(Group) : gw = Groups(w)
    BY GroupsOf
  <2>2. PICK l \in Seq(Group) : l = k \o gw
    BY Joined
  <2>3. PICK v \in Seq(Piece) : v = <<>>
    BY NoGroups
  <2>4. l \o (Groups(v) \o r) = Line
    <3>1. gw \in Seq(Some) /\ r \in Seq(Some)
      BY SomeSeq
    <3>2. k \o (gw \o r) = (k \o gw) \o r
      BY <1>7, <3>1, Associates
    <3>3. Groups(v) \o r = r
      BY <2>3, NoGroups, ConcatEmptySeq
    <3> QED BY <1>2, <2>1, <2>2, <3>2, <3>3
  <2>5. PICK line : line = l \o (Groups(v) \o r)
    OBVIOUS
  <2>6. retest' = [retest EXCEPT !.work = v, !.kept = l, !.bad = retest.bad]
    BY <1>3, <1>12, <2>1, <2>2, <2>3 DEF RetestRec
  <2>7. Counted' = Counted
    BY <1>12 DEF Counted
  <2> QED BY <1>3, <1>9, <1>10, <1>12, <2>4, <2>5, <2>6, <2>7
<1>13. ASSUME /\ Retested(x, "data") /\ UNCHANGED count
              /\ retest' = [retest EXCEPT
                   !.work = IF p.fails = 0 THEN <<Failed(p)>> \o rest
                            ELSE IF Single(p.rows) THEN rest ELSE Halves(p.rows) \o rest,
                   !.bad = IF p.fails > 0 /\ Single(p.rows) THEN @ \cup p.rows ELSE @]
              /\ torn' = torn \cup (IF p.fails > 0 /\ ~Single(p.rows) /\ p.rows \in landed' THEN p.rows ELSE {})
       PROVE  IInv'
  <2>1. Counted' = Counted /\ (p.fails # 0 <=> p.fails > 0)
    <3>1. p.fails \in 0..2
      BY DEF Piece
    <3> QED BY <1>13, <3>1 DEF Counted
  <2>2. CASE p.fails = 0
    <3>1. PICK f \in Piece : f = Failed(p) /\ f.rows = x
      BY <1>4, FailsOnce
    <3>2. PICK v \in Seq(Piece) : v = <<f>> \o rest
      BY OneGroup, Joined
    <3>3. retest' = [retest EXCEPT !.work = v, !.kept = k, !.bad = retest.bad] /\ torn' = torn
      <4>1. retest' = [retest EXCEPT !.work = v, !.bad = retest.bad] /\ torn' = torn
        BY <1>13, <2>1, <2>2, <3>1, <3>2
      <4> QED BY <1>2, <1>3, <4>1 DEF RetestRec
    <3>4. k \o (Groups(v) \o r) = Line
      BY <1>4, <1>5, <1>6, <1>7, <3>1, <3>2 DEF Works
    <3>5. PICK line : line = k \o (Groups(v) \o r)
      OBVIOUS
    <3>6. /\ Retested(x, "data") /\ count' \in CountRec /\ Counted \subseteq Counted'
          /\ torn' \subseteq Row /\ retest.bad \in SUBSET Row
      BY <1>3, <1>13, <2>1, <3>3
    <3>7. Tokens(line, spool \ Opened, landed', torn') /\ line = Line
      BY <1>9, <3>3, <3>4, <3>5, <3>6
    <3>8. /\ Rows(line) \subseteq Rows(Line)
          /\ Rows(Line) \cup retest.bad \subseteq Rows(line) \cup retest.bad \cup Counted'
      BY <3>7
    <3> QED BY <1>10, <3>3, <3>5, <3>6, <3>7, <3>8
  <2>3. CASE p.fails # 0 /\ Single(p.rows)
    <3>1. retest' = [retest EXCEPT !.work = rest, !.kept = k, !.bad = retest.bad \cup x] /\ torn' = torn
      <4>1. retest' = [retest EXCEPT !.work = rest, !.bad = retest.bad \cup x] /\ torn' = torn
        BY <1>4, <1>13, <2>1, <2>3
      <4> QED BY <1>2, <1>3, <4>1 DEF RetestRec
    <3>2. Tokens(k \o (<<x>> \o z), spool \ Opened, landed', torn)
      BY <1>7, <1>9, <1>13
    <3>3. Tokens(k \o z, spool \ Opened, landed', torn) /\ Rows(k \o (<<x>> \o z)) = Rows(k \o z) \cup x
      BY <1>7, <3>2, AmidLeaves
    <3>4. PICK line : line = k \o (Groups(rest) \o r)
      OBVIOUS
    <3>5. line = k \o z /\ retest.bad \cup x \in SUBSET Row
      BY <1>3, <1>4, <1>6, <1>7, <3>4
    <3>6. /\ Tokens(line, spool \ Opened, landed', torn') /\ Rows(line) \subseteq Rows(Line)
          /\ Rows(Line) \cup retest.bad \subseteq Rows(line) \cup (retest.bad \cup x) \cup Counted'
      BY <1>7, <3>1, <3>3, <3>5
    <3> QED BY <1>3, <1>10, <1>13, <2>1, <3>1, <3>4, <3>5, <3>6
  <2>4. CASE p.fails # 0 /\ ~Single(p.rows)
    <3>1. PICK a \in Piece, b \in Piece :
             /\ Halves(x) = <<a, b>> /\ a.rows \cup b.rows = x /\ a.rows \cap b.rows = {}
             /\ a.rows # x /\ b.rows # x
      BY <1>4, <2>4, HalvesFacts
    <3>2. PICK v \in Seq(Piece) : v = <<a, b>> \o rest
      BY TwoGroups, Joined
    <3>3. /\ retest' = [retest EXCEPT !.work = v, !.kept = k, !.bad = retest.bad]
          /\ torn' = torn \cup (IF x \in landed' THEN x ELSE {})
      <4>1. /\ retest' = [retest EXCEPT !.work = v, !.bad = retest.bad]
            /\ torn' = torn \cup (IF x \in landed' THEN x ELSE {})
        BY <1>4, <1>13, <2>1, <2>4, <3>1, <3>2
      <4> QED BY <1>2, <1>3, <4>1 DEF RetestRec
    <3>4. k \o (Groups(v) \o r) = k \o (<<a.rows, b.rows>> \o z)
      BY <1>4, <1>5, <1>6, <3>2 DEF Works
    <3>5. torn' \subseteq Row /\ torn \subseteq torn' /\ (x \in landed' => x \subseteq torn')
      BY <1>3, <1>7, <3>3
    <3>6. Tokens(k \o (<<x>> \o z), spool \ Opened, landed', torn')
      BY <1>3, <1>7, <1>9, <1>13, <3>5, PicksItself, TokensPicked
    <3>7. Divided(k, x, a.rows, b.rows, z, spool \ Opened, landed', torn')
      <4>1. a.rows \in Some /\ b.rows \in Some
        BY OneGroup
      <4> QED BY <1>7, <3>1, <3>5, <3>6, <4>1, AmidSplits
    <3>8. PICK line : line = k \o (Groups(v) \o r)
      OBVIOUS
    <3>9. Tokens(line, spool \ Opened, landed', torn') /\ Rows(line) = Rows(Line)
      BY <1>7, <3>4, <3>7, <3>8 DEF Divided
    <3> QED BY <1>3, <1>10, <1>13, <2>1, <3>3, <3>5, <3>8, <3>9
  <2> QED BY <2>1, <2>2, <2>3, <2>4
<1>14. \/ Retested(x, "ok") /\ retest' = [retest EXCEPT !.work = rest] /\ Count("written", x) /\ UNCHANGED torn
       \/ /\ Retested(x, "other") /\ retest' = [retest EXCEPT !.kept = k \o Groups(w), !.work = <<>>]
          /\ UNCHANGED <<count, torn>>
       \/ /\ Retested(x, "data") /\ UNCHANGED count
          /\ retest' = [retest EXCEPT
               !.work = IF p.fails = 0 THEN <<Failed(p)>> \o rest
                        ELSE IF Single(p.rows) THEN rest ELSE Halves(p.rows) \o rest,
               !.bad = IF p.fails > 0 /\ Single(p.rows) THEN @ \cup p.rows ELSE @]
          /\ torn' = torn \cup (IF p.fails > 0 /\ ~Single(p.rows) /\ p.rows \in landed' THEN p.rows ELSE {})
  BY <1>2, <1>4 DEF Isolate
<1> QED BY <1>11, <1>12, <1>13, <1>14

LEMMA IsolatedStep == IInv /\ Isolated => IInv'
<1> SUFFICES ASSUME IInv, Isolated PROVE IInv'
  OBVIOUS
<1>1. /\ writer.phase = "isolate" /\ retest.work = <<>>
      /\ UNCHANGED <<queueVars, diskVars, spiller, storeVars, torn>>
  BY DEF Isolated
<1>2. /\ writer \in WriterRec /\ writer.parts = <<>> /\ writer.suspects = <<>> /\ retest \in RetestRec
      /\ keep = <<>> /\ count \in CountRec /\ torn \subseteq Row /\ retest.todo = <<>>
      /\ landed \subseteq Group /\ broken \in BOOLEAN /\ UNION landed \subseteq Past
      /\ Tokens(Line, spool \ Opened, landed, torn)
  BY <1>1, RoundTypes
<1>3. PICK k \in Seq(Group), r \in Seq(Group) :
        k = retest.kept /\ r = retest.refused /\ Line = k \o r
  <2>1. PICK r \in Seq(Group) : r = retest.refused
    BY HandsFacts DEF IInv, Types
  <2>2. Groups(retest.work) \o r = r
    BY <1>1, NoGroups, ConcatEmptySeq
  <2> QED BY <1>1, <2>1, <2>2, RoundShape DEF IInv
<1>4. landed' = landed /\ broken' = broken /\ torn' = torn
  BY <1>1 DEF storeVars
<1>5. CASE stop
  <2>1. k \o r \in Seq(Group)
    BY Joined
  <2>2. RoundEnds(k \o r, retest.bad)
    BY <1>3, <1>5 DEF Isolated
  <2> QED BY <1>1, <1>2, <1>3, <1>4, <2>1, <2>2, RoundOver
<1>6. CASE ~stop
  <2>1. writer' = [writer EXCEPT !.phase = "retest"] /\ UNCHANGED <<retest, held, keep, count>>
    BY <1>6 DEF Isolated
  <2>2. /\ writer' \in WriterRec /\ writer'.phase = "retest" /\ writer'.parts = <<>> /\ writer'.suspects = <<>>
    BY <1>2, <2>1 DEF WriterRec
  <2>3. Line' = Line
    <3>1. Line' = k \o (r \o <<>>)
      BY <1>1, <1>2, <1>3, <2>1, <2>2, RoundShapeNext
    <3> QED BY <1>3, <3>1, ConcatEmptySeq
  <2>4. Counted' = Counted
    BY <2>1 DEF Counted
  <2> QED BY <1>1, <1>2, <1>4, <2>1, <2>2, <2>3, <2>4, RoundGoesOn
<1> QED BY <1>5, <1>6

LEMMA RetestStoppedStep == IInv /\ RetestStopped => IInv'
<1> SUFFICES ASSUME IInv, RetestStopped PROVE IInv'
  OBVIOUS
<1>1. /\ writer.phase \in {"retest", "isolate"} /\ UNCHANGED <<queueVars, diskVars, spiller, broken, spent, torn>>
      /\ RoundEnds(retest.kept \o Groups(retest.work) \o retest.refused \o retest.todo, retest.bad)
  BY DEF RetestStopped
<1>2. PICK k \in Seq(Group), r \in Seq(Group), w \in Seq(Piece), t \in Seq(Group) :
        /\ k = retest.kept /\ r = retest.refused /\ w = retest.work /\ t = retest.todo
        /\ Line = k \o Groups(w) \o r \o t
  <2>1. Line = retest.kept \o Groups(retest.work) \o retest.refused \o retest.todo
    BY <1>1 DEF Line
  <2> QED BY <2>1, HandsFacts DEF IInv, Types
<1>3. k \o Groups(w) \o r \o t \in Seq(Group)
  <2>1. Groups(w) \in Seq(Group)
    BY GroupsOf
  <2>2. k \o Groups(w) \in Seq(Group)
    BY <2>1, Joined
  <2>3. k \o Groups(w) \o r \in Seq(Group)
    BY <2>2, Joined
  <2> QED BY <2>3, Joined
<1>4. /\ landed \subseteq Group /\ broken \in BOOLEAN /\ UNION landed \subseteq Past
      /\ Tokens(Line, spool \ Opened, landed, torn)
  BY <1>1, RoundTypes
<1>5. PICK x \in Group : landed' \in {landed, landed \cup {x}} /\ Has(Line, x)
  <2>1. CASE /\ writer.phase = "retest" /\ t # <<>>
             /\ landed' \in {landed} \cup (IF CanLand(Head(t)) THEN {landed \cup {Head(t)}} ELSE {})
    <3>1. PICK x \in Group, tl \in Seq(Group) : x = Head(t) /\ tl = Tail(t) /\ t = <<x>> \o tl
      <4>1. Head(t) \in Group /\ Tail(t) \in Seq(Group)
        BY <2>1, SeqFacts
      <4> QED BY <2>1, <4>1, HeadFirst
    <3>2. k \in Seq(Some) /\ r \in Seq(Some) /\ tl \in Seq(Some) /\ x \in Some
      <4>1. x \in Some
        BY DEF Some
      <4> QED BY <4>1, SomeSeq
    <3>3. Line = k \o (r \o t)
      BY <1>2, <2>1, RoundShape DEF IInv
    <3>4. PICK kr \in Seq(Some) : kr = k \o r
      BY <3>2, Joined
    <3>5. k \o (r \o t) = (k \o r) \o t
      BY <3>2, SomeSeq, Associates
    <3>6. Has(kr \o (<<x>> \o tl), x)
      BY <3>2, AmidHas
    <3> QED BY <2>1, <3>1, <3>3, <3>4, <3>5, <3>6
  <2>2. CASE /\ writer.phase = "isolate" /\ w # <<>>
             /\ landed' \in {landed} \cup (IF CanLand(w[1].rows) THEN {landed \cup {w[1].rows}} ELSE {})
    <3>1. Works(k, w, r)
      BY <2>2, WorksFacts
    <3>2. PICK x \in Group, z \in Seq(Some) : x = Head(w).rows /\ z = Groups(Tail(w)) \o r
      BY <3>1 DEF Works
    <3>3. Head(w) = w[1]
      BY <2>2, SeqFacts
    <3>4. Line = k \o (<<x>> \o z)
      <4>1. Line = k \o (Groups(w) \o r)
        BY <1>2, <2>2, RoundShape DEF IInv
      <4> QED BY <3>1, <3>2, <4>1 DEF Works
    <3>5. Has(k \o (<<x>> \o z), x)
      <4>1. k \in Seq(Some) /\ x \in Some
        BY SomeSeq DEF Some
      <4> QED BY <4>1, AmidHas
    <3> QED BY <2>2, <3>2, <3>3, <3>4, <3>5
  <2> QED BY <1>2, <2>1, <2>2 DEF RetestStopped
<1>6. /\ landed' \subseteq Group /\ UNION landed' \subseteq Past /\ Tokens(Line, spool \ Opened, landed', torn)
  <2>1. PICK i \in 1..Len(Line) : Line[i] = x
    BY <1>5 DEF Has
  <2> QED BY <1>1, <1>5, <2>1, RoundInsert
<1>7. broken' \in BOOLEAN /\ torn' = torn /\ UNCHANGED <<queueVars, diskVars, spiller>>
  BY <1>1, <1>4
<1> QED BY <1>1, <1>2, <1>3, <1>6, <1>7, RoundOver

-----------------------------------------------------------------------------
(***************************************************************************)
(* The writer ends.                                                        *)
(***************************************************************************)
LEMMA EndsNow ==
    ASSUME IInv, writer.phase \in {"take", "deliver"}, closed,
           UNCHANGED <<queueVars, spool, temps, spiller, retest, broken, count, torn>>,
           inflight' \in {inflight, {}}, writer' \in WriterRec, writer'.phase = "end", writer'.parts = <<>>,
           writer'.suspects = <<>>, keep' \in Seq(Chore), held' = <<>>, Replaced', landed' \subseteq Group,
           UNION landed' \subseteq Past, Rows(Line') \subseteq Past, UNION Opened' \subseteq Past,
           Rows(Line) \subseteq Rows(Line') \cup UNION spool,
           Tokens(Line', spool \ Opened', landed', torn)
    PROVE  IInv'
<1>1. Types'
  <2>1. QueueType' /\ SpillerType' /\ DiskType'
    BY DEF IInv, Types, QueueType, SpillerType, DiskType, queueVars
  <2>2. WriterType'
    BY EmptySeq DEF IInv, Types, WriterType
  <2> QED BY <2>1, <2>2 DEF Types
<1>2. Phases'
  BY DEF IInv, Phases, queueVars
<1>3. Pieces'
  BY DEF Pieces
<1>4. Counted' = Counted
  BY DEF Counted
<1>5. Safe \subseteq Safe'
  BY <1>4 DEF Safe
<1>6. UNION spool' \subseteq Past
  BY DEF Past
<1>7. Ages' /\ Balance'
  BY <1>5, <1>6, AgesKept, BalanceKept DEF IInv, queueVars
<1> QED BY <1>1, <1>2, <1>3, <1>7 DEF IInv

LEMMA Flip ==
    ASSUME NEW b \in Seq(Some), NEW c \in Seq(Some)
    PROVE  Picks(c \o b, b \o c) /\ Rows(c \o b) = Rows(b \o c)
<1>1. PICK e \in Seq(Some) : e = <<>>
  BY NoGroups
<1>2. Picks(e \o (c \o (b \o e)), e \o (b \o (c \o e))) /\ Rows(e \o (c \o (b \o e))) = Rows(e \o (b \o (c \o e)))
  BY PicksSwap
<1>3. b \o e = b /\ c \o e = c
  BY <1>1, ConcatEmptySeq
<1>4. e \o (c \o b) = c \o b /\ e \o (b \o c) = b \o c
  <2>1. c \o b \in Seq(Some) /\ b \o c \in Seq(Some)
    BY Joined
  <2> QED BY <1>1, <2>1, ConcatEmptySeq
<1> QED BY <1>2, <1>3, <1>4

(* What the writer keeps when parts of a segment are left: the parts, the  *)
(* segment to be dropped, and what was held.                               *)
Keeps(k, G, b) ==
    /\ k[Len(G) + 1].do = "drop" /\ k[Len(G) + 1].rows = b
    /\ \A i \in DOMAIN k : i # Len(G) + 1 => k[i].do = "write"
    /\ \A i \in 1..Len(G) : i \in DOMAIN k /\ k[i].do = "write" /\ k[i].rows = G[i]
    /\ Len(G) + 1 \in DOMAIN k /\ Len(G) \in Nat /\ DOMAIN k \subseteq Nat \ {0}

LEMMA KeepsFacts ==
    ASSUME NEW G \in Seq(Group), NEW b \in Group, NEW h \in Seq(Group),
           NEW d, d = [do |-> "drop", rows |-> b]
    PROVE  /\ Writes(G) \o <<d>> \in Seq(Chore) /\ ChoresOf(Writes(G) \o <<d>>) = G \o <<{}>>
           /\ Keeps((Writes(G) \o <<d>>) \o Writes(h), G, b)
<1>1. PICK w \in Seq(Chore) :
        /\ w = Writes(G) /\ ChoresOf(w) = G /\ Len(w) = Len(G)
        /\ \A i \in 1..Len(G) : w[i].do = "write" /\ w[i].rows = G[i]
  <2>1. /\ Writes(G) \in Seq(Chore) /\ ChoresOf(Writes(G)) = G /\ Len(Writes(G)) = Len(G)
        /\ \A i \in 1..Len(G) : Writes(G)[i].do = "write" /\ Writes(G)[i].rows = G[i]
    BY WritesFacts
  <2> QED BY <2>1
<1>2. PICK v \in Seq(Chore) :
        v = Writes(h) /\ Len(v) = Len(h) /\ \A i \in 1..Len(h) : v[i].do = "write"
  <2>1. /\ Writes(h) \in Seq(Chore) /\ Len(Writes(h)) = Len(h)
        /\ \A i \in 1..Len(h) : Writes(h)[i].do = "write"
    BY WritesFacts
  <2> QED BY <2>1
<1>3. PICK o \in Seq(Chore) : o = <<d>> /\ Len(o) = 1 /\ 1 \in 1..Len(o) /\ o[1] = d /\ d.do = "drop" /\ d.rows = b
  <2>1. d \in Chore /\ d.do = "drop" /\ d.rows = b
    BY DEF Chore
  <2>2. <<d>> \in Seq(Chore) /\ Len(<<d>>) = 1 /\ <<d>>[1] = d
    BY <2>1
  <2>3. PICK o \in Seq(Chore) : o = <<d>>
    BY <2>2
  <2>4. Len(o) = 1 /\ o[1] = d /\ 1 \in 1..1
    BY <2>2, <2>3
  <2>5. 1 \in 1..Len(o)
    BY <2>4
  <2> QED BY <2>1, <2>3, <2>4, <2>5
<1>4. PICK f \in Seq(Chore) :
        /\ f = w \o o /\ Len(f) = Len(w) + 1 /\ \A i \in 1..Len(w) : f[i] = w[i]
        /\ f[Len(w) + 1] = d
  <2>1. /\ w \o o \in Seq(Chore) /\ Len(w \o o) = Len(w) + Len(o)
        /\ \A i \in 1..Len(w) : (w \o o)[i] = w[i]
        /\ \A i \in 1..Len(o) : (w \o o)[Len(w) + i] = o[i]
    BY Joined
  <2> QED BY <1>3, <2>1
<1>5. ChoresOf(f) = G \o <<{}>>
  <2>1. ChoresOf(f) = ChoresOf(w) \o ChoresOf(o)
    BY <1>4, ChoresJoined
  <2>2. ChoresOf(o) = <<{}>>
    <3>1. /\ ChoresOf(o) \in Seq(Some) /\ Len(ChoresOf(o)) = 1 /\ ChoresOf(o)[1] = {}
      <4>1. /\ ChoresOf(o) \in Seq(Some) /\ Len(ChoresOf(o)) = Len(o)
            /\ \A i \in 1..Len(o) : ChoresOf(o)[i] = IF o[i].do = "write" THEN o[i].rows ELSE {}
        BY ChoreFacts
      <4> QED BY <1>3, <4>1
    <3>2. <<{}>> \in Seq(Some) /\ Len(<<{}>>) = 1 /\ <<{}>>[1] = {}
      BY DEF Some
    <3> QED BY <3>1, <3>2, SeqEqual
  <2> QED BY <1>1, <2>1, <2>2
<1>6. PICK k \in Seq(Chore) :
        /\ k = f \o v /\ DOMAIN k = 1..Len(f) + Len(v) /\ \A i \in 1..Len(f) : k[i] = f[i]
        /\ \A i \in 1..Len(v) : k[Len(f) + i] = v[i]
  <2>1. /\ f \o v \in Seq(Chore) /\ DOMAIN (f \o v) = 1..Len(f) + Len(v)
        /\ \A i \in 1..Len(f) : (f \o v)[i] = f[i]
        /\ \A i \in 1..Len(v) : (f \o v)[Len(f) + i] = v[i]
    BY Joined
  <2> QED BY <2>1
<1>7. Len(G) \in Nat /\ Len(v) \in Nat
  BY SeqFacts
<1>8. Keeps(k, G, b)
  <2>1. k[Len(G) + 1].do = "drop" /\ k[Len(G) + 1].rows = b
    BY <1>1, <1>3, <1>4, <1>6, <1>7
  <2>2. ASSUME NEW i \in DOMAIN k, i # Len(G) + 1 PROVE k[i].do = "write"
    <3>1. CASE i <= Len(G)
      BY <1>1, <1>4, <1>6, <1>7, <3>1
    <3>2. CASE ~(i <= Len(G))
      <4>1. i - Len(f) \in 1..Len(v) /\ i = Len(f) + (i - Len(f))
        <5>1. Len(f) = Len(G) + 1 /\ i \in 1..Len(f) + Len(v)
          BY <1>1, <1>4, <1>6
        <5> QED BY <1>7, <2>2, <3>2, <5>1
      <4> QED BY <1>2, <1>6, <4>1
    <3> QED BY <3>1, <3>2
  <2>3. ASSUME NEW i \in 1..Len(G) PROVE i \in DOMAIN k /\ k[i].do = "write" /\ k[i].rows = G[i]
    BY <1>1, <1>4, <1>6, <1>7
  <2>4. Len(G) + 1 \in DOMAIN k /\ DOMAIN k \subseteq Nat \ {0}
    BY <1>1, <1>4, <1>6, <1>7
  <2> QED BY <1>7, <2>1, <2>2, <2>3, <2>4 DEF Keeps
<1> QED BY <1>1, <1>2, <1>3, <1>4, <1>5, <1>6, <1>8

LEMMA InterruptedStep == IInv /\ Interrupted => IInv'
<1> SUFFICES ASSUME IInv, Interrupted PROVE IInv'
  OBVIOUS
<1>1. /\ writer.phase = "deliver" /\ writer.parts # <<>> /\ stop
      /\ UNCHANGED <<queueVars, spool, temps, spiller, retest, broken, spent, count, torn>>
      /\ inflight' = IF Whole(Remaining) THEN {} ELSE inflight
      /\ landed' \in {landed} \cup
           (IF CanLand(Head(writer.parts).rows) THEN {landed \cup {Head(writer.parts).rows}} ELSE {})
  BY DEF Interrupted
<1>2. PICK b \in Group, h \in Seq(Group), s \in Seq(Piece), ps \in Seq(Piece), x \in Group :
        b = writer.batch /\ h = held /\ s = writer.suspects /\ ps = writer.parts /\ x = Head(ps).rows
  <2>1. Head(writer.parts).rows \in Group
    <3>1. Head(writer.parts) \in Piece
      BY <1>1, HandsFacts, SeqFacts DEF IInv, Types
    <3> QED BY <3>1 DEF Piece
  <2> QED BY <1>1, <2>1, HandsFacts DEF IInv, Types, Pieces
<1>3. PICK G \in Seq(Group) : G = Groups(Remaining) /\ Line = h \o G /\ Len(G) = Len(Remaining)
                              /\ \A i \in 1..Len(G) : G[i] = Remaining[i].rows
  <2>1. PICK R \in Seq(Piece) : R = s \o ps /\ Remaining = R
    BY <1>2, Joined DEF Remaining
  <2>2. Groups(R) \in Seq(Group) /\ Len(Groups(R)) = Len(R) /\ \A i \in 1..Len(R) : Groups(R)[i] = R[i].rows
    BY GroupsOf
  <2>3. Line = h \o Groups(R)
    BY <1>1, <1>2, <2>1, LineDeliver
  <2> QED BY <2>1, <2>2, <2>3
<1>4. h \in Seq(Some) /\ G \in Seq(Some) /\ Rows(Line) = Rows(h) \cup Rows(G)
  BY <1>3, SomeSeq, RowsJoined
<1>5. /\ closed /\ Tokens(Line, spool \ Opened, landed, torn) /\ landed \subseteq Group
      /\ Opened = (IF writer.disk THEN {b} ELSE {})
      /\ Apart(G, {}) /\ (\A i \in DOMAIN G : G[i] \subseteq b)
      /\ writer.disk => inflight = b /\ b \in spool /\ b \subseteq Rows(G) \cup Counted
  <2>1. b # {}
    BY DEF Group
  <2> QED BY <1>1, <1>2, <1>3, <2>1 DEF IInv, Phases, Types, DiskType, Opened, Pieces
<1>6. /\ landed' \subseteq Group /\ UNION landed' \subseteq Past /\ Tokens(Line, spool \ Opened, landed', torn)
  <2>1. PICK j, k : j = Len(s) + 1 /\ k = Len(h) + Len(s) + 1
    OBVIOUS
  <2>2. Trial(h, s, ps, j, k)
    BY <1>1, <1>2, <2>1, TrialFacts
  <2>3. k \in 1..Len(Line) /\ Line[k] = x
    BY <1>2, <1>3, <2>2 DEF Trial, Remaining
  <2>4. k \in DOMAIN Line
    <3>1. DOMAIN Line = 1..Len(Line)
      BY LineType, SeqFacts DEF IInv
    <3> QED BY <2>3, <3>1
  <2>5. Tokens(Line, spool \ Opened, landed \cup {x}, torn)
    BY <1>5, <2>3, <2>4, TokensLanded
  <2>6. x \subseteq Rows(Line)
    BY <2>3, <2>4, RowsOf
  <2>7. landed' \in {landed, landed \cup {x}}
    BY <1>1, <1>2
  <2> QED BY <1>5, <2>5, <2>6, <2>7 DEF Past
<1>7. Rows(Line) \subseteq Past /\ UNION spool \subseteq Past /\ UNION Opened \subseteq Past
  BY DEF Past
<1>8. Whole(Remaining) => G = <<b>>
  <2>1. ASSUME Whole(Remaining) PROVE G = <<b>>
    <3>1. Len(G) = 1 /\ G[1] = b
      BY <1>2, <1>3, <2>1 DEF Whole
    <3>2. <<b>> \in Seq(Group) /\ Len(<<b>>) = 1 /\ <<b>>[1] = b
      OBVIOUS
    <3> QED BY <3>1, <3>2, SeqEqual
  <2> QED BY <2>1
<1>9. ASSUME NEW first \in Seq(Chore), Ends(first, h), Replaced', UNION Opened' \subseteq Past,
             Rows(Line') \subseteq Past, Rows(Line) \subseteq Rows(Line') \cup UNION spool,
             Tokens(Line', spool \ Opened', landed', torn)
      PROVE  IInv'
  <2>1. /\ writer' \in WriterRec /\ writer'.phase = "end" /\ writer'.parts = <<>> /\ writer'.suspects = <<>>
        /\ keep' \in Seq(Chore) /\ held' = <<>>
    BY <1>9, EndsFacts
  <2>2. inflight' \in {inflight, {}}
    BY <1>1
  <2> QED BY <1>1, <1>5, <1>6, <1>9, <2>1, <2>2, EndsNow
<1>10. CASE Whole(Remaining) /\ writer.disk
  <2>1. PICK e \in Seq(Chore) : e = <<>> /\ Ends(e, h) /\ \A i \in 1..Len(e) : e[i].do = "write"
    <3>1. Ends(<<>>, held) /\ <<>> \in Seq(Chore) /\ \A i \in 1..Len(<<>>) : <<>>[i].do = "write"
      BY <1>10, EmptySeq DEF Interrupted
    <3> QED BY <1>2, <3>1
  <2>2. Opened' = {} /\ Replaced' /\ Line' = h
    <3>1. Opened' = {} /\ Replaced' /\ Line' = ChoresOf(e) \o h
      BY <2>1, EndsFacts
    <3>2. ChoresOf(e) \in Seq(Some) /\ Len(ChoresOf(e)) = 0
      BY <2>1, ChoreFacts, EmptySeq
    <3> QED BY <1>4, <3>1, <3>2, EmptySeq, ConcatEmptySeq
  <2>3. PICK k : k = Len(h) + 1 /\ Amid(h, b, <<>>, k)
    BY <1>4, NoGroups, Middle DEF Some
  <2>4. PICK L \in Seq(Some) : L = Line /\ k \in 1..Len(L) /\ L[k] = b /\ Without(L, k) = h
    <3>1. <<b>> \o <<>> = <<b>> /\ h \o <<>> = h
      BY ConcatEmptySeq
    <3>2. Line = h \o (<<b>> \o <<>>)
      BY <1>3, <1>8, <1>10, <3>1
    <3> QED BY <2>3, <3>1, <3>2 DEF Amid
  <2>5. Tokens(h, (spool \ {b}) \cup {b}, landed', torn)
    <3>1. Tokens(L, spool \ {b}, landed', torn)
      BY <1>5, <1>6, <1>10, <2>4
    <3> QED BY <2>4, <3>1, TokensToDisk
  <2>6. (spool \ {b}) \cup {b} = spool \ Opened' /\ b \in spool
    BY <1>5, <1>10, <2>2
  <2>7. Rows(Line) = Rows(h) \cup b
    BY <2>4, WithoutFacts
  <2>8. UNION Opened' \subseteq Past
    BY <2>2
  <2> QED BY <1>7, <1>9, <2>1, <2>2, <2>5, <2>6, <2>7, <2>8
<1>11. CASE ~writer.disk
  <2>1. PICK w \in Seq(Chore) : w = Writes(G) /\ Ends(w, h) /\ \A i \in 1..Len(w) : w[i].do = "write"
    <3>1. /\ Writes(G) \in Seq(Chore) /\ Len(Writes(G)) = Len(G)
          /\ \A i \in 1..Len(G) : Writes(G)[i].do = "write"
      BY WritesFacts
    <3>2. Writes(G) \o <<>> = Writes(G)
      BY <3>1, ConcatEmptySeq
    <3>3. Ends(Writes(G), held)
      BY <1>2, <1>3, <1>8, <1>11, <3>2 DEF Interrupted
    <3> QED BY <1>2, <3>1, <3>3
  <2>2. Opened' = {} /\ Replaced' /\ Line' = G \o h
    <3>1. Opened' = {} /\ Replaced' /\ Line' = ChoresOf(w) \o h
      BY <2>1, EndsFacts
    <3> QED BY <2>1, <3>1, WritesFacts
  <2>3. Picks(G \o h, h \o G) /\ Rows(G \o h) = Rows(h \o G)
    BY <1>4, Flip
  <2>4. Tokens(Line', spool \ Opened', landed', torn)
    BY <1>3, <1>5, <1>6, <1>11, <2>2, <2>3, TokensPicked
  <2> QED BY <1>3, <1>7, <1>9, <2>1, <2>2, <2>3, <2>4
<1>12. CASE ~Whole(Remaining) /\ writer.disk
  <2>1. PICK d : d = [do |-> "drop", rows |-> b]
    OBVIOUS
  <2>2. PICK first \in Seq(Chore) : first = Writes(G) \o <<d>> /\ ChoresOf(first) = G \o <<{}>>
                                    /\ Keeps(first \o Writes(h), G, b)
    BY <2>1, KeepsFacts
  <2>3. Ends(first, h)
    BY <1>2, <1>3, <1>12, <2>1, <2>2 DEF Interrupted
  <2>4. /\ keep' = first \o Writes(h) /\ Line' = (G \o <<{}>>) \o h /\ writer'.phase = "end"
    BY <2>2, <2>3, EndsFacts
  <2>5. Keeps(keep', G, b)
    BY <2>2, <2>4
  <2>6. PICK n : n = Len(G) + 1 /\ n \in DOMAIN keep' /\ keep'[n].do = "drop" /\ keep'[n].rows = b
    BY <2>5 DEF Keeps
  <2>7. \A i \in DOMAIN keep' : keep'[i].do = "drop" => i = n
    BY <2>5, <2>6 DEF Keeps
  <2>8. Opened' = {b}
    <3>1. Opened' = {keep'[i].rows : i \in {k \in DOMAIN keep' : keep'[k].do = "drop"}}
      BY <2>4 DEF Opened
    <3> QED BY <2>6, <2>7, <3>1
  <2>9. \A j \in 1..Len(G) : G[j] # b
    <3>1. SUFFICES ASSUME NEW j \in 1..Len(G), G[j] = b PROVE FALSE
      OBVIOUS
    <3>2. DOMAIN G = 1..Len(G) /\ Len(G) \in Nat /\ b # {}
      BY SeqFacts DEF Group
    <3>3. Len(G) # 1
      <4>1. SUFFICES ASSUME Len(G) = 1 PROVE Whole(Remaining)
        BY <1>12
      <4>2. j = 1 /\ Len(Remaining) = 1
        BY <1>3, <4>1
      <4>3. Remaining[1].rows = b
        BY <1>3, <3>1, <4>1, <4>2
      <4> QED BY <1>2, <4>2, <4>3 DEF Whole
    <3>4. PICK i \in 1..Len(G) : i # j
      <4>1. 1 \in 1..Len(G) /\ 2 \in 1..Len(G)
        BY <3>1, <3>2, <3>3
      <4> QED BY <4>1
    <3>5. G[i] \subseteq b /\ G[i] \cap G[j] \subseteq {} /\ G[i] # {}
      <4>1. G[i] \in Group
        BY SeqFacts
      <4> QED BY <1>5, <3>2, <3>4, <4>1 DEF Apart, Group
    <3> QED BY <3>1, <3>5
  <2>10. Replaced'
    <3>1. \A j \in 1..n - 1 : keep'[j].rows # b
      <4>1. n - 1 = Len(G)
        BY <2>5, <2>6 DEF Keeps
      <4> QED BY <2>5, <2>9, <4>1 DEF Keeps
    <3>2. ASSUME NEW r \in b, r \notin Counted PROVE \E j \in 1..n : r \in Chores'[j]
      <4>1. PICK j \in DOMAIN G : r \in G[j]
        BY <1>5, <1>12, <3>2, RowsOf
      <4>2. j \in 1..Len(G)
        BY <4>1, SeqFacts
      <4>3. j \in DOMAIN keep' /\ keep'[j].do = "write" /\ keep'[j].rows = G[j] /\ j \in 1..n
        BY <2>5, <2>6, <4>2 DEF Keeps
      <4> QED BY <4>1, <4>3 DEF Chores, ChoresOf
    <3>3. Counted' = Counted
      BY <1>1 DEF Counted
    <3>4. ASSUME NEW i \in DOMAIN keep', keep'[i].do = "drop"
          PROVE  /\ \A j \in DOMAIN keep' : keep'[j].do = "drop" => i = j
                 /\ \A j \in 1..i - 1 : keep'[j].rows # keep'[i].rows
                 /\ \A r \in keep'[i].rows :
                      \/ \E j \in 1..i : r \in Chores'[j]
                      \/ \E q \in spool' : q # keep'[i].rows /\ r \in q
                      \/ r \in Counted'
      <4>1. i = n /\ keep'[i].rows = b
        BY <2>6, <2>7, <3>4
      <4> QED BY <2>7, <3>1, <3>2, <3>3, <4>1
    <3> QED BY <3>4 DEF Replaced
  <2>11. PICK z \in Seq(Some) : z = <<{}>>
    <3>1. {} \in Some
      BY DEF Some
    <3>2. <<{}>> \in Seq(Some)
      BY <3>1
    <3> QED BY <3>2
  <2>12. PICK Gz \in Seq(Some) : Gz = G \o z
    BY <1>4, Joined
  <2>13. Picks(Gz \o h, h \o Gz) /\ Rows(Gz \o h) = Rows(h \o Gz)
    BY <1>4, Flip
  <2>14. h \o Gz = Line \o <<{}>>
    BY <1>3, <1>4, <2>11, <2>12, Associates
  <2>15. Tokens(Line \o <<{}>>, spool \ Opened, landed', torn)
    <3>1. {} \in Some /\ Line \in Seq(Some)
      BY LineType DEF Some, IInv
    <3> QED BY <1>6, <3>1, TokensJoined
  <2>16. Tokens(Line', spool \ Opened', landed', torn)
    <3>1. Opened' = Opened
      BY <1>5, <1>12, <2>8
    <3> QED BY <2>4, <2>11, <2>12, <2>13, <2>14, <2>15, <3>1, TokensPicked
  <2>17. Rows(Line') = Rows(Line)
    <3>1. Line \in Seq(Some)
      BY LineType DEF IInv
    <3>2. Rows(Line \o z) = Rows(Line) \cup Rows(z)
      BY <3>1, RowsJoined
    <3>3. Rows(z) = {}
      BY <2>11, RowsOf
    <3> QED BY <2>4, <2>11, <2>12, <2>13, <2>14, <3>2, <3>3
  <2>18. UNION Opened' \subseteq Past
    BY <1>5, <1>7, <1>12, <2>8
  <2> QED BY <1>7, <1>9, <2>3, <2>10, <2>16, <2>17, <2>18
<1> QED BY <1>10, <1>11, <1>12

LEMMA Persists ==
    ASSUME IInv, writer.phase \in {"end", "commit"}, UNCHANGED <<queueVars, spiller, held, retest, storeVars, torn>>,
           writer' \in WriterRec, writer'.phase \in {"end", "commit"}, writer'.parts = <<>>, writer'.suspects = <<>>,
           keep' \in Seq(Chore), writer'.phase = "commit" => keep' # <<>> /\ keep'[1].do = "write",
           DiskType', Replaced', UNION spool' \subseteq Past, Rows(Line') \subseteq Past, Opened' \subseteq Opened,
           Safe \subseteq Safe', Tokens(Line', spool' \ Opened', landed, torn)
    PROVE  IInv'
<1>1. Types'
  <2>1. QueueType' /\ SpillerType'
    BY DEF IInv, Types, QueueType, SpillerType, queueVars
  <2>2. WriterType'
    BY DEF IInv, Types, WriterType
  <2> QED BY <2>1, <2>2 DEF Types
<1>2. Phases'
  BY DEF IInv, Phases, queueVars
<1>3. Pieces'
  BY DEF Pieces
<1>4. landed' = landed /\ torn' = torn
  BY DEF storeVars
<1>5. UNION landed' \subseteq Past /\ UNION Opened' \subseteq Past
  BY <1>4 DEF Past
<1>6. Ages' /\ Balance'
  BY <1>5, AgesKept, BalanceKept DEF IInv, queueVars
<1>7. Tokens(Line', spool' \ Opened', landed', torn')
  BY <1>4
<1> QED BY <1>1, <1>2, <1>3, <1>6, <1>7 DEF IInv

LEMMA EndTypes ==
    ASSUME IInv, writer.phase \in {"end", "commit"}
    PROVE  /\ writer \in WriterRec /\ writer.parts = <<>> /\ writer.suspects = <<>> /\ keep \in Seq(Chore)
           /\ Line = ChoresOf(keep) /\ Line \in Seq(Some) /\ Chores = ChoresOf(keep)
           /\ Opened = {keep[i].rows : i \in {k \in DOMAIN keep : keep[k].do = "drop"}}
           /\ Tokens(Line, spool \ Opened, landed, torn) /\ Rows(Line) \subseteq Past /\ UNION spool \subseteq Past
<1>1. writer \in WriterRec /\ writer.parts = <<>> /\ writer.suspects = <<>> /\ keep \in Seq(Chore)
  BY DEF IInv, Types, WriterType, Phases
<1>2. Line = ChoresOf(keep) /\ Line \in Seq(Some)
  BY LineDeliver, LineType DEF IInv
<1>3. Opened = {keep[i].rows : i \in {k \in DOMAIN keep : keep[k].do = "drop"}}
  BY DEF Opened
<1>4. Rows(Line) \subseteq Past /\ UNION spool \subseteq Past
  BY DEF Past
<1> QED BY <1>1, <1>2, <1>3, <1>4 DEF IInv, Chores

(* A group is on disk or counted, and its chore is done.                   *)
LEMMA ChoreGone ==
    ASSUME IInv, writer.phase \in {"end", "commit"}, keep # <<>>, keep[1].do = "write", writer'.phase = "end",
           keep' = Tail(keep), Counted \subseteq Counted',
           \A g \in spool \cup {keep[1].rows} : g \in spool' \/ g \subseteq Counted'
    PROVE  /\ Line' = Without(Line, 1) /\ 1 \in 1..Len(Line) /\ Line[1] = keep[1].rows /\ keep[1].rows \in Group
           /\ Opened' = Opened /\ Replaced' /\ keep' \in Seq(Chore)
<1>1. PICK k \in Seq(Chore) : k = keep /\ Line = ChoresOf(k) /\ Chores = ChoresOf(k)
  BY EndTypes
<1>2. PICK m \in Seq(Chore) : m = keep' /\ m = Tail(k)
  BY <1>1, SeqFacts
<1>3. /\ Len(k) \in Nat /\ DOMAIN k = 1..Len(k) /\ Len(m) = Len(k) - 1 /\ DOMAIN m = 1..Len(m)
      /\ \A i \in 1..Len(k) - 1 : m[i] = k[i + 1]
  BY <1>1, <1>2, SeqFacts
<1>4. /\ ChoresOf(m) = Without(ChoresOf(k), 1) /\ 1 \in 1..Len(ChoresOf(k)) /\ k[1] \in Chore
      /\ ChoresOf(k)[1] = k[1].rows
  BY <1>1, <1>2, ChoreDone
<1>5. Line' = ChoresOf(m) /\ Chores' = ChoresOf(m)
  BY <1>2 DEF Line, Chores
<1>6. Opened' = Opened
  <2>1. Opened' = {m[i].rows : i \in {j \in DOMAIN m : m[j].do = "drop"}}
    BY <1>2 DEF Opened
  <2>2. Opened = {k[i].rows : i \in {j \in DOMAIN k : k[j].do = "drop"}}
    BY <1>1, EndTypes
  <2>3. ASSUME NEW i \in DOMAIN m, m[i].do = "drop"
        PROVE  \E j \in DOMAIN k : k[j].do = "drop" /\ k[j].rows = m[i].rows
    <3>1. i + 1 \in DOMAIN k /\ k[i + 1] = m[i]
      BY <1>3
    <3> QED BY <2>3, <3>1
  <2>4. ASSUME NEW j \in DOMAIN k, k[j].do = "drop"
        PROVE  \E i \in DOMAIN m : m[i].do = "drop" /\ m[i].rows = k[j].rows
    <3>1. j # 1
      BY <1>1, <2>4
    <3>2. j - 1 \in DOMAIN m /\ m[j - 1] = k[(j - 1) + 1] /\ (j - 1) + 1 = j
      BY <1>3, <3>1
    <3> QED BY <2>4, <3>2
  <2> QED BY <2>1, <2>2, <2>3, <2>4
<1>7. ASSUME NEW i \in DOMAIN m, m[i].do = "drop"
      PROVE  /\ \A j \in DOMAIN m : m[j].do = "drop" => i = j
             /\ \A j \in 1..i - 1 : m[j].rows # m[i].rows
             /\ \A r \in m[i].rows :
                  \/ \E j \in 1..i : r \in ChoresOf(m)[j]
                  \/ \E s \in spool' : s # m[i].rows /\ r \in s
                  \/ r \in Counted'
  <2>1. PICK n \in DOMAIN k : n = i + 1 /\ k[n] = m[i] /\ k[n].do = "drop" /\ n \in Nat /\ i \in Nat /\ i > 0
    BY <1>3, <1>7
  <2>2. /\ \A j \in DOMAIN k : k[j].do = "drop" => n = j
        /\ \A j \in 1..n - 1 : k[j].rows # k[n].rows
        /\ \A r \in k[n].rows :
             \/ \E j \in 1..n : r \in ChoresOf(k)[j]
             \/ \E s \in spool : s # k[n].rows /\ r \in s
             \/ r \in Counted
    BY <1>1, <2>1 DEF IInv, Replaced
  <2>3. ASSUME NEW j \in DOMAIN m, m[j].do = "drop" PROVE i = j
    <3>1. j + 1 \in DOMAIN k /\ k[j + 1] = m[j] /\ j \in Nat
      BY <1>3
    <3> QED BY <2>1, <2>2, <2>3, <3>1
  <2>4. ASSUME NEW j \in 1..i - 1 PROVE m[j].rows # m[i].rows
    <3>1. j + 1 \in 1..n - 1 /\ k[j + 1] = m[j]
      BY <1>3, <2>1
    <3> QED BY <2>1, <2>2, <3>1
  <2>5. ASSUME NEW r \in m[i].rows
        PROVE  \/ \E j \in 1..i : r \in ChoresOf(m)[j]
               \/ \E s \in spool' : s # m[i].rows /\ r \in s
               \/ r \in Counted'
    <3>1. CASE \E j \in 1..n : r \in ChoresOf(k)[j]
      <4>1. PICK j \in 1..n : r \in ChoresOf(k)[j]
        BY <3>1
      <4>2. CASE j = 1
        <5>1. r \in k[1].rows /\ k[1].rows # m[i].rows
          <6>1. 1 \in 1..n - 1
            BY <2>1
          <6> QED BY <1>4, <2>1, <2>2, <4>1, <4>2, <6>1
        <5> QED BY <1>1, <5>1
      <4>3. CASE j # 1
        <5>1. PICK l \in 1..i : j = l + 1
          <6>1. j - 1 \in 1..i /\ j = (j - 1) + 1
            BY <2>1, <4>3
          <6> QED BY <6>1
        <5>2. ChoresOf(m)[l] = ChoresOf(k)[j]
          <6>1. l \in 1..Len(m) /\ j \in 1..Len(k) /\ m[l] = k[j]
            BY <1>3, <2>1, <5>1
          <6>2. ChoresOf(m)[l] = IF m[l].do = "write" THEN m[l].rows ELSE {}
            BY <6>1, ChoreFacts
          <6>3. ChoresOf(k)[j] = IF k[j].do = "write" THEN k[j].rows ELSE {}
            BY <6>1, ChoreFacts
          <6> QED BY <6>1, <6>2, <6>3
        <5> QED BY <4>1, <5>1, <5>2
      <4> QED BY <4>2, <4>3
    <3>2. CASE \E s \in spool : s # k[n].rows /\ r \in s
      BY <2>1, <3>2
    <3>3. CASE r \in Counted
      BY <3>3
    <3> QED BY <2>1, <2>2, <2>5, <3>1, <3>2, <3>3
  <2> QED BY <2>3, <2>4, <2>5
<1>8. Replaced'
  <2>1. ASSUME NEW i \in DOMAIN keep', keep'[i].do = "drop"
        PROVE  /\ \A j \in DOMAIN keep' : keep'[j].do = "drop" => i = j
               /\ \A j \in 1..i - 1 : keep'[j].rows # keep'[i].rows
               /\ \A r \in keep'[i].rows :
                    \/ \E j \in 1..i : r \in Chores'[j]
                    \/ \E s \in spool' : s # keep'[i].rows /\ r \in s
                    \/ r \in Counted'
    <3>1. i \in DOMAIN m /\ m[i].do = "drop"
      BY <1>2, <2>1
    <3> QED BY <1>2, <1>5, <1>7, <3>1
  <2> QED BY <2>1 DEF Replaced
<1>9. k[1].rows \in Group
  BY <1>4 DEF Chore
<1> QED BY <1>1, <1>2, <1>4, <1>5, <1>6, <1>8, <1>9

LEMMA PersistWritesStep == IInv /\ PersistWrites => IInv'
<1> SUFFICES ASSUME IInv, PersistWrites PROVE IInv'
  OBVIOUS
<1>1. /\ writer.phase = "end" /\ keep # <<>> /\ keep[1].do = "write"
      /\ UNCHANGED <<queueVars, spool, inflight, spiller, held, retest, storeVars, torn>>
  BY DEF PersistWrites
<1>2. /\ writer \in WriterRec /\ writer.parts = <<>> /\ writer.suspects = <<>> /\ keep \in Seq(Chore)
      /\ Line = ChoresOf(keep) /\ Line \in Seq(Some)
      /\ Tokens(Line, spool \ Opened, landed, torn) /\ Rows(Line) \subseteq Past /\ UNION spool \subseteq Past
  BY <1>1, EndTypes
<1>3. PICK b \in Group : b = keep[1].rows
  <2>1. keep[1] \in Chore
    BY <1>1, <1>2, ChoreDone
  <2> QED BY <2>1 DEF Chore
<1>4. CASE HasSpool
  <2>1. /\ temps' = temps \cup {b} /\ writer' = [writer EXCEPT !.phase = "commit"] /\ UNCHANGED <<keep, count>>
    BY <1>3, <1>4 DEF PersistWrites
  <2>2. writer' \in WriterRec /\ writer'.phase = "commit" /\ writer'.parts = <<>> /\ writer'.suspects = <<>>
    BY <1>2, <2>1 DEF WriterRec
  <2>3. DiskType'
    BY <1>1, <2>1 DEF IInv, Types, DiskType, storeVars
  <2>4. Line' = Line /\ Chores' = Chores /\ Counted' = Counted /\ Opened' = Opened
    BY <1>1, <2>1, <2>2 DEF Line, Chores, Counted, Opened
  <2>5. Replaced'
    BY <1>1, <2>1, <2>4 DEF IInv, Replaced
  <2>6. Safe \subseteq Safe'
    BY <1>1, <2>4 DEF Safe
  <2> QED BY <1>1, <1>2, <2>1, <2>2, <2>3, <2>4, <2>5, <2>6, Persists
<1>5. CASE ~HasSpool
  <2>1. Count("dropped", b) /\ keep' = Tail(keep) /\ UNCHANGED <<temps, writer>>
    BY <1>3, <1>5 DEF PersistWrites
  <2>2. count' \in CountRec /\ Counted' = Counted \cup b
    BY <2>1, CountFacts, RowSets DEF IInv, Types, DiskType
  <2>3. /\ Line' = Without(Line, 1) /\ 1 \in 1..Len(Line) /\ Line[1] = b
        /\ Opened' = Opened /\ Replaced' /\ keep' \in Seq(Chore)
    <3>1. \A g \in spool \cup {keep[1].rows} : g \in spool' \/ g \subseteq Counted'
      BY <1>1, <1>3, <2>2
    <3> QED BY <1>1, <1>3, <2>1, <2>2, <3>1, ChoreGone
  <2>4. Picks(Line', Line) /\ Rows(Line) = Rows(Line') \cup b
    BY <1>2, <2>3, WithoutFacts
  <2>5. Tokens(Line', spool' \ Opened', landed, torn)
    BY <1>1, <1>2, <2>3, <2>4, TokensPicked
  <2>6. DiskType'
    BY <1>1, <2>1, <2>2 DEF IInv, Types, DiskType, storeVars
  <2>7. Safe \subseteq Safe'
    BY <1>1, <2>2, <2>4 DEF Safe
  <2> QED BY <1>1, <1>2, <2>1, <2>3, <2>4, <2>5, <2>6, <2>7, Persists
<1> QED BY <1>4, <1>5

LEMMA PersistCommitsStep == IInv /\ PersistCommits => IInv'
<1> SUFFICES ASSUME IInv, PersistCommits PROVE IInv'
  OBVIOUS
<1>1. /\ writer.phase = "commit" /\ Commits(keep[1].rows) /\ keep' = Tail(keep)
      /\ writer' = [writer EXCEPT !.phase = "end"] /\ keep # <<>> /\ keep[1].do = "write"
      /\ UNCHANGED <<queueVars, inflight, spiller, held, retest, storeVars, torn>>
  BY DEF PersistCommits, IInv, Phases
<1>2. /\ writer \in WriterRec /\ writer.parts = <<>> /\ writer.suspects = <<>> /\ keep \in Seq(Chore)
      /\ Line = ChoresOf(keep) /\ Line \in Seq(Some)
      /\ Tokens(Line, spool \ Opened, landed, torn) /\ Rows(Line) \subseteq Past /\ UNION spool \subseteq Past
  BY <1>1, EndTypes
<1>3. PICK b \in Group : b = keep[1].rows
  <2>1. keep[1] \in Chore
    BY <1>1, <1>2, ChoreDone
  <2> QED BY <2>1 DEF Chore
<1>4. writer' \in WriterRec /\ writer'.phase = "end" /\ writer'.parts = <<>> /\ writer'.suspects = <<>>
  BY <1>1, <1>2 DEF WriterRec
<1>5. /\ spool' \subseteq spool \cup {b} /\ temps' \subseteq temps
      /\ inflight \in spool => inflight \in spool'
      /\ count' \in CountRec /\ Counted \subseteq Counted'
      /\ \A g \in spool \cup {b} : g \in spool' \/ g \subseteq Counted'
  BY <1>1, <1>3, CommitsFacts DEF IInv, Types
<1>6. /\ Line' = Without(Line, 1) /\ 1 \in 1..Len(Line) /\ Line[1] = b
      /\ Opened' = Opened /\ Replaced' /\ keep' \in Seq(Chore)
  BY <1>1, <1>3, <1>4, <1>5, ChoreGone
<1>7. Line' \in Seq(Some) /\ Rows(Line) = Rows(Line') \cup b
  BY <1>2, <1>6, WithoutFacts
<1>8. Tokens(Line', spool' \ Opened', landed, torn)
  <2>1. Tokens(Line', (spool \ Opened) \cup {b}, landed, torn)
    BY <1>2, <1>6, TokensToDisk
  <2>2. spool' \ Opened' \subseteq (spool \ Opened) \cup {b}
    BY <1>5, <1>6
  <2> QED BY <1>7, <2>1, <2>2, PicksItself, TokensPicked
<1>9. DiskType'
  BY <1>1, <1>5 DEF IInv, Types, DiskType, storeVars
<1>10. UNION spool' \subseteq Past
  BY <1>2, <1>5, <1>7
<1>11. Safe \subseteq Safe'
  <2>1. UNION (spool \cup {b}) \subseteq (UNION spool') \cup Counted'
    BY <1>5
  <2>2. retest'.bad = retest.bad
    BY <1>1
  <2> QED BY <1>5, <1>7, <2>1, <2>2 DEF Safe
<1>12. Rows(Line') \subseteq Past /\ Opened' \subseteq Opened
  BY <1>2, <1>6, <1>7
<1> QED BY <1>1, <1>4, <1>6, <1>8, <1>9, <1>10, <1>11, <1>12, Persists

LEMMA SupersedeStep == IInv /\ Supersede => IInv'
<1> SUFFICES ASSUME IInv, Supersede PROVE IInv'
  OBVIOUS
<1>1. /\ writer.phase = "end" /\ keep # <<>> /\ keep[1].do = "drop"
      /\ spool' = spool \ {keep[1].rows} /\ inflight' = {} /\ keep' = Tail(keep)
      /\ UNCHANGED <<queueVars, temps, spiller, writer, held, retest, storeVars, count, torn>>
  BY DEF Supersede
<1>2. /\ writer \in WriterRec /\ writer.parts = <<>> /\ writer.suspects = <<>> /\ keep \in Seq(Chore)
      /\ Line = ChoresOf(keep) /\ Line \in Seq(Some) /\ Chores = Line
      /\ Opened = {keep[i].rows : i \in {j \in DOMAIN keep : keep[j].do = "drop"}}
      /\ Tokens(Line, spool \ Opened, landed, torn) /\ Rows(Line) \subseteq Past /\ UNION spool \subseteq Past
  BY <1>1, EndTypes
<1>3. /\ ChoresOf(Tail(keep)) = Without(ChoresOf(keep), 1) /\ 1 \in 1..Len(ChoresOf(keep)) /\ keep[1] \in Chore
      /\ ChoresOf(keep)[1] = {}
  BY <1>1, <1>2, ChoreDone
<1>4. /\ Len(keep) \in Nat /\ DOMAIN keep = 1..Len(keep) /\ Len(keep) > 0 /\ keep' \in Seq(Chore)
      /\ DOMAIN keep' = 1..Len(keep) - 1 /\ \A i \in 1..Len(keep) - 1 : keep'[i] = keep[i + 1]
  <2>1. Tail(keep) \in Seq(Chore) /\ Len(Tail(keep)) = Len(keep) - 1 /\ Len(keep) \in Nat /\ Len(keep) # 0
    BY <1>1, <1>2, SeqFacts
  <2> QED BY <1>1, <1>2, <2>1, SeqFacts
<1>5. /\ \A j \in DOMAIN keep : keep[j].do = "drop" => j = 1
      /\ \A r \in keep[1].rows :
           (\E j \in 1..1 : r \in Chores[j]) \/ (\E s \in spool : s # keep[1].rows /\ r \in s) \/ r \in Counted
  <2>1. 1 \in DOMAIN keep
    BY <1>4
  <2> QED BY <1>1, <2>1 DEF IInv, Replaced
<1>6. \A i \in DOMAIN keep' : keep'[i].do # "drop"
  <2>1. SUFFICES ASSUME NEW i \in DOMAIN keep', keep'[i].do = "drop" PROVE FALSE
    OBVIOUS
  <2>2. i + 1 \in DOMAIN keep /\ keep[i + 1] = keep'[i] /\ i + 1 # 1
    BY <1>4
  <2> QED BY <1>5, <2>1, <2>2
<1>7. Opened' = {} /\ Replaced' /\ Opened = {keep[1].rows}
  <2>1. Opened' = {keep'[i].rows : i \in {j \in DOMAIN keep' : keep'[j].do = "drop"}}
    BY <1>1 DEF Opened
  <2>2. 1 \in DOMAIN keep
    BY <1>4
  <2> QED BY <1>1, <1>2, <1>5, <1>6, <2>1, <2>2 DEF Replaced
<1>8. Line' = Without(Line, 1) /\ 1 \in 1..Len(Line) /\ Line[1] = {}
  BY <1>1, <1>2, <1>3 DEF Line, Chores
<1>9. Picks(Line', Line) /\ Rows(Line) = Rows(Line')
  <2>1. Picks(Without(Line, 1), Line) /\ Rows(Line) = Rows(Without(Line, 1)) \cup Line[1]
    BY <1>2, <1>8, WithoutFacts
  <2> QED BY <1>8, <2>1
<1>10. Tokens(Line', spool' \ Opened', landed, torn)
  <2>1. spool' \ Opened' = spool \ Opened
    BY <1>1, <1>7
  <2> QED BY <1>2, <1>9, <2>1, TokensPicked
<1>11. DiskType'
  BY <1>1 DEF IInv, Types, DiskType, storeVars
<1>12. UNION spool' \subseteq Past /\ Rows(Line') \subseteq Past /\ Opened' \subseteq Opened
  BY <1>1, <1>2, <1>7, <1>9
<1>13. Safe \subseteq Safe'
  <2>1. Counted' = Counted /\ retest'.bad = retest.bad
    BY <1>1 DEF Counted
  <2>2. keep[1].rows \subseteq (UNION spool') \cup Counted
    BY <1>1, <1>2, <1>5, <1>8
  <2>3. UNION spool \subseteq (UNION spool') \cup keep[1].rows
    BY <1>1
  <2> QED BY <1>9, <2>1, <2>2, <2>3 DEF Safe
<1> QED BY <1>1, <1>2, <1>4, <1>7, <1>10, <1>11, <1>12, <1>13, Persists

-----------------------------------------------------------------------------
(***************************************************************************)
(* What moves between the queue, the disk and the writer.                  *)
(***************************************************************************)
(* What is sealed is apart from all that left the queue before it.         *)
LEMMA SealedApart ==
    ASSUME Types, Ages
    PROVE  /\ Apart(sealed, {})
           /\ \A i \in DOMAIN sealed : sealed[i] \in Group /\ sealed[i] \cap Past = {}
<1>1. Len(sealed) \in Nat /\ DOMAIN sealed = 1..Len(sealed) /\ \A i \in 1..Len(sealed) : sealed[i] \in Group
  BY SeqFacts DEF Types, QueueType
<1>2. \A i \in DOMAIN sealed : sealed[i] \subseteq Nat
  BY <1>1 DEF Group, Row
<1>3. ASSUME NEW i \in DOMAIN sealed, NEW j \in DOMAIN sealed, j < i PROVE sealed[i] \cap sealed[j] = {}
  <2>1. \A q \in sealed[i] : \A r \in sealed[j] : r < q
    BY <1>3 DEF Ages
  <2> QED BY <1>2, <2>1
<1>4. Apart(sealed, {})
  <2>1. ASSUME NEW i \in DOMAIN sealed, NEW j \in DOMAIN sealed, i # j PROVE sealed[i] \cap sealed[j] \subseteq {}
    <3>1. i < j \/ j < i
      BY <1>1, <2>1
    <3> QED BY <1>3, <3>1
  <2> QED BY <2>1 DEF Apart
<1>5. ASSUME NEW i \in DOMAIN sealed PROVE sealed[i] \cap Past = {}
  <2>1. \A q \in sealed[i] : \A r \in Past : r < q
    BY DEF Ages
  <2> QED BY <1>2, <2>1
<1> QED BY <1>1, <1>4, <1>5

LEMMA DrainStep == IInv /\ Drain => IInv'
<1> SUFFICES ASSUME IInv, Drain PROVE IInv'
  OBVIOUS
<1>1. /\ writer.phase = "end" /\ keep = <<>> /\ keep' = Writes(sealed) /\ sealed' = <<>>
      /\ IF sealed = <<>> THEN writer' = [writer EXCEPT !.phase = "done"] ELSE UNCHANGED writer
      /\ UNCHANGED <<taken, pending, closed, stop, diskVars, spiller, held, retest, storeVars, count, torn>>
  BY DEF Drain
<1>2. PICK S \in Seq(Group) : S = sealed
  BY DEF IInv, Types, QueueType
<1>3. /\ writer \in WriterRec /\ writer.parts = <<>> /\ writer.suspects = <<>>
      /\ Opened = {keep[i].rows : i \in {k \in DOMAIN keep : keep[k].do = "drop"}}
      /\ Line = ChoresOf(keep) /\ UNION spool \subseteq Past
  BY <1>1, EndTypes
<1>4. /\ writer' \in WriterRec /\ writer'.phase = (IF S = <<>> THEN "done" ELSE "end")
      /\ writer'.parts = <<>> /\ writer'.suspects = <<>>
  BY <1>1, <1>2, <1>3 DEF WriterRec
<1>5. Rows(Line) = {} /\ Opened = {}
  <2>1. DOMAIN keep = {} /\ keep \in Seq(Chore)
    BY <1>1, EmptySeq
  <2>2. ChoresOf(keep) \in Seq(Some) /\ Len(ChoresOf(keep)) = 0
    BY <1>1, <2>1, ChoreFacts, EmptySeq
  <2>3. ChoresOf(keep) = <<>>
    BY <2>2, EmptySeq
  <2>4. Rows(<<>>) = {}
    BY RowsOf
  <2> QED BY <1>3, <2>1, <2>3, <2>4
<1>6. PICK w \in Seq(Chore) : w = keep' /\ ChoresOf(w) = S /\ \A i \in DOMAIN w : w[i].do = "write"
  <2>1. PICK w \in Seq(Chore) : w = Writes(S) /\ ChoresOf(w) = S /\ Len(w) = Len(S)
                                /\ \A i \in 1..Len(S) : w[i].do = "write"
    <3>1. /\ Writes(S) \in Seq(Chore) /\ ChoresOf(Writes(S)) = S /\ Len(Writes(S)) = Len(S)
          /\ \A i \in 1..Len(S) : Writes(S)[i].do = "write"
      BY WritesFacts
    <3> QED BY <3>1
  <2>2. DOMAIN w = 1..Len(S)
    BY <2>1, SeqFacts
  <2> QED BY <1>1, <1>2, <2>1, <2>2
<1>7. Line' = S
  <2>1. Line' = ChoresOf(keep')
    BY <1>4 DEF Line, Chores
  <2> QED BY <1>6, <2>1
<1>8. Opened' = {} /\ Replaced' /\ Pieces'
  <2>1. Opened' = {keep'[i].rows : i \in {k \in DOMAIN keep' : keep'[k].do = "drop"}}
    BY <1>4 DEF Opened
  <2> QED BY <1>4, <1>6, <2>1 DEF Replaced, Pieces
<1>9. Types'
  <2>1. QueueType'
    BY <1>1, NoGroups DEF IInv, Types, QueueType
  <2>2. SpillerType' /\ DiskType'
    BY <1>1 DEF IInv, Types, SpillerType, DiskType, diskVars, storeVars
  <2>3. WriterType'
    BY <1>1, <1>4, <1>6 DEF IInv, Types, WriterType
  <2> QED BY <2>1, <2>2, <2>3 DEF Types
<1>10. Phases'
  <2>1. S = <<>> => keep' = <<>>
    <3>1. Len(S) = 0 => Len(Writes(S)) = 0 /\ Writes(S) \in Seq(Chore)
      BY WritesFacts
    <3> QED BY <1>1, <1>2, <3>1, EmptySeq
  <2> QED BY <1>1, <1>4, <2>1 DEF IInv, Phases
<1>11. spool' = spool /\ landed' = landed /\ torn' = torn /\ Counted' = Counted /\ retest'.bad = retest.bad
  BY <1>1 DEF diskVars, storeVars, Counted
<1>12. Past' = Past \cup Rows(S)
  BY <1>5, <1>7, <1>8, <1>11 DEF Past
<1>13. Ages'
  <2>1. \A r \in Past' : r <= taken' - pending'
    <3>1. ASSUME NEW r \in Rows(S) PROVE r <= taken - pending
      <4>1. PICK i \in DOMAIN S : r \in S[i]
        BY <3>1, RowsOf
      <4> QED BY <1>2, <4>1 DEF IInv, Ages
    <3> QED BY <1>1, <1>12, <3>1 DEF IInv, Ages
  <2>2. DOMAIN sealed' = {}
    BY <1>1, EmptySeq
  <2> QED BY <2>1, <2>2 DEF Ages
<1>14. Balance'
  <2>1. Safe' = Safe \cup Rows(S)
    BY <1>5, <1>7, <1>11 DEF Safe
  <2>2. 1..taken \subseteq ((taken - pending + 1)..taken) \cup Rows(sealed) \cup Safe
    BY DEF IInv, Balance
  <2>3. 1..taken' \subseteq ((taken' - pending' + 1)..taken') \cup Rows(sealed') \cup Safe'
    BY <1>1, <1>2, <2>1, <2>2
  <2> QED BY <2>3 DEF Balance
<1>15. Tokens(Line', spool' \ Opened', landed', torn')
  <2>1. Apart(S, {}) /\ \A i \in DOMAIN S : S[i] \cap Past = {}
    BY <1>2, SealedApart DEF IInv
  <2>2. \A s \in spool : s \subseteq Past
    BY DEF Past
  <2>3. \A d \in landed : d \subseteq Past
    BY DEF Past
  <2>4. Tokens(Line, spool \ Opened, landed, torn)
    BY DEF IInv
  <2>5. Tokens(S, spool, landed, torn)
    <3>1. Apart(S, torn)
      BY <2>1 DEF Apart
    <3>2. \A s \in spool, i \in DOMAIN S : s \cap S[i] \subseteq torn
      BY <2>1, <2>2
    <3>3. \A i \in DOMAIN S, d \in landed : S[i] # d => S[i] \cap d \subseteq torn
      BY <2>1, <2>3
    <3> QED BY <1>5, <2>4, <3>1, <3>2, <3>3 DEF Tokens
  <2>6. spool' \ Opened' = spool
    BY <1>8, <1>11
  <2> QED BY <1>7, <1>11, <2>5, <2>6
<1> QED BY <1>8, <1>9, <1>10, <1>13, <1>14, <1>15 DEF IInv

LEMMA OneOf ==
    ASSUME NEW b \in Group
    PROVE  /\ <<b>> \in Seq(Group) /\ <<b>> \in Seq(Some) /\ DOMAIN <<b>> = {1} /\ <<b>>[1] = b
           /\ Rows(<<b>>) = b
<1>1. b \in Some
  BY DEF Some
<1>2. <<b>> \in Seq(Group) /\ <<b>> \in Seq(Some) /\ DOMAIN <<b>> = {1} /\ <<b>>[1] = b
  BY <1>1
<1>3. PICK one : one = <<b>> /\ DOMAIN one = {1} /\ one[1] = b
  BY <1>2
<1>4. Rows(one) = b
  BY <1>3, RowsOf
<1> QED BY <1>2, <1>3, <1>4

(* The oldest batch leaves the queue.                                      *)
LEMMA HeadLeaves ==
    ASSUME Types, Ages, sealed # <<>>, sealed' = Tail(sealed), taken' = taken, pending' = pending
    PROVE  /\ Head(sealed) \in Group /\ Head(sealed) \cap Past = {} /\ sealed' \in Seq(Group)
           /\ Rows(sealed) = Head(sealed) \cup Rows(sealed')
           /\ (Past' \subseteq Past \cup Head(sealed) => Ages')
           /\ (Balance /\ Safe \cup Head(sealed) \subseteq Safe' => Balance')
<1>1. PICK S \in Seq(Group), T \in Seq(Group), b \in Group :
         /\ S = sealed /\ T = Tail(S) /\ b = Head(S) /\ b = S[1] /\ Len(T) = Len(S) - 1
         /\ \A i \in 1..Len(S) - 1 : T[i] = S[i + 1]
  <2>1. sealed \in Seq(Group)
    BY DEF Types, QueueType
  <2>2. /\ Head(sealed) = sealed[1] /\ Head(sealed) \in Group /\ Tail(sealed) \in Seq(Group)
        /\ Len(Tail(sealed)) = Len(sealed) - 1
        /\ \A i \in 1..Len(sealed) - 1 : Tail(sealed)[i] = sealed[i + 1]
    BY <2>1, SeqFacts
  <2> QED BY <2>1, <2>2
<1>2. /\ Len(S) \in Nat /\ Len(S) > 0 /\ DOMAIN S = 1..Len(S) /\ DOMAIN T = 1..Len(S) - 1
  <2>1. Len(S) \in Nat /\ Len(S) # 0 /\ DOMAIN S = 1..Len(S) /\ DOMAIN T = 1..Len(T)
    BY <1>1, SeqFacts
  <2> QED BY <1>1, <2>1
<1>3. b \cap Past = {}
  <2>1. 1 \in DOMAIN S
    BY <1>2
  <2> QED BY <1>1, <2>1, SealedApart
<1>4. Rows(S) = b \cup Rows(T)
  <2>1. S = <<b>> \o T
    BY <1>1, HeadFirst
  <2>2. PICK one \in Seq(Group) : one = <<b>> /\ Rows(one) = b
    <3>1. <<b>> \in Seq(Group) /\ Rows(<<b>>) = b
      BY OneOf
    <3> QED BY <3>1
  <2>4. Rows(one \o T) = Rows(one) \cup Rows(T)
    BY RowsJoined
  <2> QED BY <2>1, <2>2, <2>4
<1>5. ASSUME Past' \subseteq Past \cup b PROVE Ages'
  <2>1. /\ \A r \in Past : r <= taken - pending
        /\ \A i \in DOMAIN S : \A q \in S[i] :
             /\ q <= taken - pending
             /\ \A r \in Past : r < q
             /\ \A j \in DOMAIN S : j < i => \A r \in S[j] : r < q
    BY <1>1 DEF Ages
  <2>2. 1 \in DOMAIN S
    BY <1>2
  <2>3. \A r \in Past' : r <= taken - pending
    BY <1>1, <1>5, <2>1, <2>2
  <2>4. ASSUME NEW i \in DOMAIN T, NEW q \in T[i]
        PROVE  /\ q <= taken - pending
               /\ \A r \in Past' : r < q
               /\ \A j \in DOMAIN T : j < i => \A r \in T[j] : r < q
    <3>1. PICK n \in DOMAIN S : n = i + 1 /\ T[i] = S[n] /\ 1 < n
      BY <1>1, <1>2
    <3>2. \A r \in b : r < q
      BY <1>1, <2>1, <2>2, <2>4, <3>1
    <3>3. ASSUME NEW j \in DOMAIN T, j < i, NEW r \in T[j] PROVE r < q
      <4>1. j + 1 \in DOMAIN S /\ T[j] = S[j + 1] /\ j + 1 < n
        BY <1>1, <1>2, <3>1, <3>3
      <4> QED BY <2>1, <2>4, <3>1, <3>3, <4>1
    <3>4. q <= taken - pending /\ \A r \in Past : r < q
      BY <2>1, <2>4, <3>1
    <3> QED BY <1>5, <3>2, <3>3, <3>4
  <2>5. sealed' = T
    BY <1>1
  <2> QED BY <2>3, <2>4, <2>5 DEF Ages
<1>6. ASSUME Balance, Safe \cup b \subseteq Safe' PROVE Balance'
  <2>1. 1..taken \subseteq ((taken - pending + 1)..taken) \cup Rows(sealed) \cup Safe
    BY <1>6 DEF Balance
  <2>2. 1..taken' \subseteq ((taken' - pending' + 1)..taken') \cup Rows(sealed') \cup Safe'
    BY <1>1, <1>4, <1>6, <2>1
  <2> QED BY <2>2 DEF Balance
<1> QED BY <1>1, <1>3, <1>4, <1>5, <1>6

(* The writer takes a batch in hand.                                       *)
LEMMA Takes ==
    ASSUME IInv, writer.phase \in {"look", "take"}, NEW b \in Group, NEW disk \in BOOLEAN, Delivering(b, disk),
           held' = held, keep' = <<>>, disk => inflight' = b
    PROVE  /\ writer' \in WriterRec /\ writer'.phase = "deliver"
           /\ Line' = Line \o <<b>> /\ Rows(Line') = Rows(Line) \cup b
           /\ Opened' = (IF disk THEN {b} ELSE {}) /\ Pieces' /\ Replaced'
<1>1. PICK p \in Piece : p = Part(b) /\ p.rows = b
  <2>1. Part(b) \in Piece /\ Part(b).rows = b
    BY DEF Part, Piece
  <2> QED BY <2>1
<1>2. PICK ps \in Seq(Piece) : ps = <<p>> /\ Groups(ps) = <<b>>
  BY <1>1, OneGroup
<1>3. /\ writer' \in WriterRec /\ writer'.phase = "deliver" /\ writer'.batch = b /\ writer'.disk = disk
      /\ writer'.parts = ps /\ writer'.suspects = <<>>
  <2>1. writer' = [Looking EXCEPT !.phase = "deliver", !.batch = b, !.disk = disk, !.parts = ps]
    BY <1>1, <1>2 DEF Delivering
  <2>2. Looking \in WriterRec
    BY AtRest
  <2> QED BY <2>1, <2>2 DEF Looking, WriterRec
<1>4. Line = held /\ held \in Seq(Some)
  BY NothingInHand DEF IInv
<1>5. /\ Line' = held' \o Groups(Remaining') /\ Remaining' = <<>> \o ps
      /\ Opened' = (IF disk THEN {b} ELSE {}) /\ Replaced'
  BY <1>3, DeliversNext
<1>6. Remaining' = ps
  BY <1>5, ConcatEmptySeq
<1>7. Line' = Line \o <<b>>
  BY <1>2, <1>4, <1>5, <1>6
<1>8. PICK one \in Seq(Some) : one = <<b>> /\ DOMAIN one = {1} /\ one[1] = b /\ Rows(one) = b
  <2>1. <<b>> \in Seq(Some) /\ DOMAIN <<b>> = {1} /\ <<b>>[1] = b /\ Rows(<<b>>) = b
    BY OneOf
  <2> QED BY <2>1
<1>9. Rows(one) = b
  BY <1>8
<1>10. Rows(Line') = Rows(Line) \cup b
  <2>1. PICK L \in Seq(Some) : L = Line
    BY <1>4
  <2>2. Rows(L \o one) = Rows(L) \cup Rows(one)
    BY RowsJoined
  <2> QED BY <1>7, <1>8, <2>1, <2>2
<1>11. Pieces'
  <2>1. Groups(Remaining') = one
    BY <1>2, <1>6, <1>8
  <2>2. Apart(one, {}) /\ \A i \in DOMAIN one : one[i] \subseteq b
    BY <1>8 DEF Apart
  <2>3. b \subseteq Rows(one)
    BY <1>9
  <2> QED BY <1>3, <2>1, <2>2, <2>3 DEF Pieces
<1> QED BY <1>3, <1>5, <1>7, <1>10, <1>11

LEMMA NextSegmentStep == IInv /\ NextSegment => IInv'
<1> SUFFICES ASSUME IInv, NextSegment PROVE IInv'
  OBVIOUS
<1>1. /\ writer.phase = "look" /\ spool # {} /\ inflight' = Oldest(spool) /\ Delivering(Oldest(spool), TRUE)
      /\ UNCHANGED <<queueVars, spool, temps, spiller, held, retest, keep, storeVars, count, torn>>
  BY DEF NextSegment
<1>2. PICK b \in Group : b = Oldest(spool) /\ b \in spool
  <2>1. spool \in SUBSET Group
    BY DEF IInv, Types, DiskType
  <2> QED BY <1>1, <2>1, OldestFacts
<1>3. Line \in Seq(Some) /\ Opened = {} /\ keep = <<>>
  BY <1>1, NothingInHand, LineType DEF IInv
<1>4. /\ writer' \in WriterRec /\ writer'.phase = "deliver"
      /\ Line' = Line \o <<b>> /\ Rows(Line') = Rows(Line) \cup b
      /\ Opened' = {b} /\ Pieces' /\ Replaced'
  <2>1. Delivering(b, TRUE) /\ inflight' = b /\ keep' = <<>> /\ held' = held
    BY <1>1, <1>2, <1>3
  <2> QED BY <1>1, <2>1, Takes
<1>5. Tokens(Line, spool, landed, torn)
  BY <1>3 DEF IInv
<1>6. Tokens(Line \o <<b>>, spool \ {b}, landed, torn)
  <2>1. Tokens(Line, spool \ {b}, landed, torn)
    BY <1>3, <1>5, PicksItself, TokensPicked
  <2>2. \A i \in DOMAIN Line : Line[i] \cap b \subseteq torn
    BY <1>2, <1>5 DEF Tokens
  <2>3. \A s \in spool \ {b} : s \cap b \subseteq torn
    BY <1>2, <1>5 DEF Tokens
  <2>4. \A d \in landed : b # d => b \cap d \subseteq torn
    BY <1>2, <1>5 DEF Tokens
  <2>5. b \in Some
    BY DEF Some
  <2> QED BY <1>3, <2>1, <2>2, <2>3, <2>4, <2>5, TokensJoined
<1>7. Types'
  <2>1. QueueType' /\ SpillerType'
    BY <1>1 DEF IInv, Types, QueueType, SpillerType, queueVars
  <2>2. DiskType'
    BY <1>1, <1>2 DEF IInv, Types, DiskType, storeVars
  <2>3. WriterType'
    BY <1>1, <1>4 DEF IInv, Types, WriterType
  <2> QED BY <2>1, <2>2, <2>3 DEF Types
<1>8. Phases'
  BY <1>1, <1>3, <1>4 DEF IInv, Phases, queueVars
<1>9. spool' = spool /\ landed' = landed /\ torn' = torn /\ Counted' = Counted /\ retest'.bad = retest.bad
  BY <1>1 DEF storeVars, Counted
<1>10. Safe \subseteq Safe'
  BY <1>4, <1>9 DEF Safe
<1>11. /\ UNION spool' \subseteq Past /\ Rows(Line') \subseteq Past /\ UNION landed' \subseteq Past
       /\ UNION Opened' \subseteq Past
  BY <1>2, <1>4, <1>9 DEF Past
<1>12. Ages' /\ Balance'
  BY <1>1, <1>10, <1>11, AgesKept, BalanceKept DEF IInv, queueVars
<1> QED BY <1>4, <1>6, <1>7, <1>8, <1>9, <1>12 DEF IInv

(* Only the writer's own account of where it is changes.                   *)
LEMMA LooksOn ==
    ASSUME IInv, writer.phase \in {"look", "take"}, writer' \in WriterRec, writer'.phase \in {"look", "take"},
           writer'.parts = <<>>, writer'.suspects = <<>>,
           UNCHANGED <<queueVars, diskVars, spiller, held, retest, keep, storeVars, count, torn>>
    PROVE  IInv'
<1>1. Line = held /\ Opened = {} /\ keep = <<>> /\ held \in Seq(Group)
  BY NothingInHand, HandsFacts DEF IInv, Types
<1>2. Line' = held' /\ Opened' = {} /\ Pieces' /\ Replaced'
  BY <1>1, LooksNext
<1>3. Types'
  <2>1. QueueType' /\ SpillerType' /\ DiskType'
    BY DEF IInv, Types, QueueType, SpillerType, DiskType, queueVars, diskVars, storeVars
  <2>2. WriterType'
    BY DEF IInv, Types, WriterType
  <2> QED BY <2>1, <2>2 DEF Types
<1>4. Phases'
  BY DEF IInv, Phases, queueVars
<1>5. spool' = spool /\ landed' = landed /\ torn' = torn /\ Counted' = Counted /\ retest'.bad = retest.bad
  BY DEF diskVars, storeVars, Counted
<1>6. Safe \subseteq Safe'
  BY <1>1, <1>2, <1>5 DEF Safe
<1>7. /\ UNION spool' \subseteq Past /\ Rows(Line') \subseteq Past /\ UNION landed' \subseteq Past
      /\ UNION Opened' \subseteq Past
  BY <1>1, <1>2, <1>5 DEF Past
<1>8. Ages' /\ Balance'
  BY <1>6, <1>7, AgesKept, BalanceKept DEF IInv, queueVars
<1>9. Tokens(Line', spool' \ Opened', landed', torn')
  BY <1>1, <1>2, <1>5 DEF IInv
<1> QED BY <1>2, <1>3, <1>4, <1>8, <1>9 DEF IInv

LEMMA SpoolSeenEmptyStep == IInv /\ SpoolSeenEmpty => IInv'
<1> SUFFICES ASSUME IInv, SpoolSeenEmpty PROVE IInv'
  OBVIOUS
<1>1. /\ writer.phase = "look" /\ writer' = [writer EXCEPT !.phase = "take"]
      /\ UNCHANGED <<queueVars, diskVars, spiller, held, retest, keep, storeVars, count, torn>>
  BY DEF SpoolSeenEmpty
<1>2. writer' \in WriterRec /\ writer'.phase = "take" /\ writer'.parts = <<>> /\ writer'.suspects = <<>>
  BY <1>1 DEF IInv, Types, Phases, WriterType, WriterRec
<1> QED BY <1>1, <1>2, LooksOn

LEMMA TakeMemoryStep == IInv /\ TakeMemory => IInv'
<1> SUFFICES ASSUME IInv, TakeMemory PROVE IInv'
  OBVIOUS
<1>1. /\ writer.phase = "take" /\ UNCHANGED <<taken, pending, closed, stop, diskVars, spiller, storeVars, count, torn>>
  BY DEF TakeMemory
<1>2. Line = held /\ Opened = {} /\ keep = <<>> /\ held \in Seq(Group) /\ Line \in Seq(Some) /\ retest.bad = {}
  BY <1>1, NothingInHand, HandsFacts, LineType DEF IInv, Types
<1>3. Tokens(Line, spool, landed, torn)
  BY <1>2 DEF IInv
<1>4. spool' = spool /\ landed' = landed /\ torn' = torn /\ Counted' = Counted
  BY <1>1 DEF diskVars, storeVars, Counted
<1>5. CASE writer' = Looking /\ UNCHANGED <<sealed, held, retest, keep>>
  <2>1. writer' \in WriterRec /\ writer'.phase = "look" /\ writer'.parts = <<>> /\ writer'.suspects = <<>>
    BY <1>5, AtRest DEF Looking
  <2> QED BY <1>1, <1>5, <2>1, LooksOn DEF queueVars
<1>6. CASE /\ sealed # <<>> /\ sealed' = Tail(sealed) /\ Delivering(Head(sealed), FALSE)
           /\ UNCHANGED <<held, retest, keep>>
  <2>1. PICK b \in Group :
          /\ b = Head(sealed) /\ b \cap Past = {} /\ sealed' \in Seq(Group)
          /\ Rows(sealed) = b \cup Rows(sealed')
          /\ (Past' \subseteq Past \cup b => Ages')
          /\ (Balance /\ Safe \cup b \subseteq Safe' => Balance')
    <3>1. /\ Head(sealed) \in Group /\ Head(sealed) \cap Past = {} /\ sealed' \in Seq(Group)
          /\ Rows(sealed) = Head(sealed) \cup Rows(sealed')
          /\ (Past' \subseteq Past \cup Head(sealed) => Ages')
          /\ (Balance /\ Safe \cup Head(sealed) \subseteq Safe' => Balance')
      BY <1>1, <1>6, HeadLeaves DEF IInv
    <3> QED BY <3>1
  <2>2. /\ writer' \in WriterRec /\ writer'.phase = "deliver"
        /\ Line' = Line \o <<b>> /\ Rows(Line') = Rows(Line) \cup b
        /\ Opened' = {} /\ Pieces' /\ Replaced'
    <3>1. Delivering(b, FALSE) /\ keep' = <<>> /\ held' = held
      BY <1>2, <1>6, <2>1
    <3> QED BY <1>1, <3>1, Takes
  <2>3. Tokens(Line \o <<b>>, spool, landed, torn)
    <3>1. \A i \in DOMAIN Line : Line[i] \cap b \subseteq torn
      <4>1. \A i \in DOMAIN Line : Line[i] \subseteq Past
        BY RowsOf DEF Past
      <4> QED BY <2>1, <4>1
    <3>2. \A s \in spool : s \cap b \subseteq torn
      BY <2>1 DEF Past
    <3>3. \A d \in landed : b # d => b \cap d \subseteq torn
      BY <2>1 DEF Past
    <3>4. b \in Some
      BY DEF Some
    <3> QED BY <1>2, <1>3, <3>1, <3>2, <3>3, <3>4, TokensJoined
  <2>4. Types'
    <3>1. QueueType'
      BY <1>1, <2>1 DEF IInv, Types, QueueType
    <3>2. SpillerType' /\ DiskType'
      BY <1>1 DEF IInv, Types, SpillerType, DiskType, diskVars, storeVars
    <3>3. WriterType'
      BY <1>6, <2>2 DEF IInv, Types, WriterType
    <3> QED BY <3>1, <3>2, <3>3 DEF Types
  <2>5. Phases'
    BY <1>1, <1>2, <1>6, <2>2 DEF IInv, Phases
  <2>6. Past' \subseteq Past \cup b
    BY <1>4, <2>2 DEF Past
  <2>7. Safe \cup b \subseteq Safe'
    BY <1>4, <1>6, <2>2 DEF Safe
  <2>8. Tokens(Line', spool' \ Opened', landed', torn')
    BY <1>4, <2>2, <2>3
  <2> QED BY <2>1, <2>2, <2>4, <2>5, <2>6, <2>7, <2>8 DEF IInv
<1>7. CASE /\ ~stop /\ StartRetest(FALSE, IF Finished THEN "end" ELSE "look") /\ UNCHANGED <<sealed, keep>>
  <2>1. PICK back \in {"look", "end"} : StartRetest(FALSE, back) /\ (back = "end" => closed)
    <3>1. (IF Finished THEN "end" ELSE "look") \in {"look", "end"}
      OBVIOUS
    <3> QED BY <1>7, <3>1 DEF Finished
  <2>2. /\ writer' \in WriterRec /\ retest' \in RetestRec /\ held' = <<>>
        /\ writer'.phase = "retest" /\ writer'.parts = <<>> /\ writer'.suspects = <<>>
        /\ retest'.work = <<>> /\ retest'.bad = {} /\ retest'.back = back
        /\ Line' = held /\ Opened' = {} /\ Pieces' /\ Replaced'
    BY <1>2, <1>7, <2>1, RoundBegins
  <2>3. Types'
    <3>1. QueueType' /\ SpillerType' /\ DiskType'
      BY <1>1, <1>7 DEF IInv, Types, QueueType, SpillerType, DiskType, diskVars, storeVars
    <3>2. WriterType'
      BY <1>2, <1>7, <2>2, NoGroups, EmptySeq DEF WriterType
    <3> QED BY <3>1, <3>2 DEF Types
  <2>4. Phases'
    BY <1>1, <1>2, <1>7, <2>1, <2>2 DEF IInv, Phases
  <2>5. Safe \subseteq Safe'
    BY <1>2, <1>4, <2>2 DEF Safe
  <2>6. /\ UNION spool' \subseteq Past /\ Rows(Line') \subseteq Past /\ UNION landed' \subseteq Past
        /\ UNION Opened' \subseteq Past
    BY <1>2, <1>4, <2>2 DEF Past
  <2>7. Ages' /\ Balance'
    BY <1>1, <1>7, <2>5, <2>6, AgesKept, BalanceKept DEF IInv
  <2>8. Tokens(Line', spool' \ Opened', landed', torn')
    BY <1>2, <1>3, <1>4, <2>2
  <2> QED BY <2>2, <2>3, <2>4, <2>7, <2>8 DEF IInv
<1>8. CASE (stop \/ (Finished /\ held = <<>>)) /\ Ends(<<>>, held) /\ UNCHANGED <<sealed, retest>>
  <2>1. PICK e \in Seq(Chore), h \in Seq(Group) :
          e = <<>> /\ h = held /\ Ends(e, h) /\ \A i \in 1..Len(e) : e[i].do = "write"
    <3>1. <<>> \in Seq(Chore) /\ \A i \in 1..Len(<<>>) : <<>>[i].do = "write"
      BY EmptySeq
    <3> QED BY <1>2, <1>8, <3>1
  <2>2. /\ writer' \in WriterRec /\ writer'.phase = "end" /\ writer'.parts = <<>> /\ writer'.suspects = <<>>
        /\ keep' \in Seq(Chore) /\ held' = <<>> /\ Line' = ChoresOf(e) \o h /\ Opened' = {} /\ Replaced'
    BY <2>1, EndsFacts
  <2>3. Line' = Line
    <3>1. ChoresOf(e) \in Seq(Some) /\ Len(ChoresOf(e)) = 0
      BY <2>1, ChoreFacts, EmptySeq
    <3> QED BY <1>2, <2>1, <2>2, <3>1, EmptySeq, ConcatEmptySeq
  <2>4. closed
    BY <1>8 DEF IInv, Phases, Finished
  <2>5. /\ landed' \subseteq Group /\ UNION landed' \subseteq Past /\ Rows(Line') \subseteq Past
        /\ UNION Opened' \subseteq Past
    BY <1>4, <2>2, <2>3 DEF IInv, Types, DiskType, Past
  <2>6. Tokens(Line', spool \ Opened', landed', torn)
    BY <1>3, <1>4, <2>2, <2>3
  <2>7. UNCHANGED <<queueVars, spool, temps, spiller, retest, broken, count, torn>> /\ inflight' \in {inflight, {}}
    BY <1>1, <1>8 DEF queueVars, diskVars, storeVars
  <2> QED BY <1>1, <2>2, <2>3, <2>4, <2>5, <2>6, <2>7, EndsNow
<1> QED BY <1>5, <1>6, <1>7, <1>8 DEF TakeMemory

(* The writer has in hand what it had, and more rows may be counted.       *)
LEMMA CountGrows ==
    ASSUME UNCHANGED <<writerVars, inflight, landed, torn>>, Counted \subseteq Counted',
           \A g \in spool : g \in spool' \/ g \subseteq Counted'
    PROVE  /\ Line' = Line /\ Opened' = Opened /\ (Pieces => Pieces') /\ (Replaced => Replaced')
           /\ (spool' = spool => Past' = Past) /\ landed' = landed /\ torn' = torn /\ retest'.bad = retest.bad
<1>1. writer' = writer /\ held' = held /\ retest' = retest /\ keep' = keep
  BY DEF writerVars
<1>2. Line' = Line /\ Opened' = Opened /\ Chores' = Chores
  BY <1>1 DEF Line, Opened, Chores, Remaining
<1>3. Pieces => Pieces'
  BY <1>1 DEF Pieces, Remaining
<1>4. Replaced => Replaced'
  <2>1. ASSUME Replaced, NEW i \in DOMAIN keep, keep[i].do = "drop"
        PROVE  /\ \A j \in DOMAIN keep : keep[j].do = "drop" => i = j
               /\ \A j \in 1..i - 1 : keep[j].rows # keep[i].rows
               /\ \A r \in keep[i].rows :
                    \/ \E j \in 1..i : r \in Chores[j]
                    \/ \E s \in spool' : s # keep[i].rows /\ r \in s
                    \/ r \in Counted'
    <3>1. /\ \A j \in DOMAIN keep : keep[j].do = "drop" => i = j
          /\ \A j \in 1..i - 1 : keep[j].rows # keep[i].rows
          /\ \A r \in keep[i].rows :
               \/ \E j \in 1..i : r \in Chores[j]
               \/ \E s \in spool : s # keep[i].rows /\ r \in s
               \/ r \in Counted
      BY <2>1 DEF Replaced
    <3> QED BY <3>1
  <2> QED BY <1>1, <1>2, <2>1 DEF Replaced
<1> QED BY <1>1, <1>2, <1>3, <1>4 DEF Past

LEMMA SpillerCommitsStep == IInv /\ SpillerCommits => IInv'
<1> SUFFICES ASSUME IInv, SpillerCommits PROVE IInv'
  OBVIOUS
<1>1. /\ spiller.phase = "commit" /\ spiller' = [spiller EXCEPT !.phase = "look", !.batch = {}]
      /\ UNCHANGED <<taken, pending, closed, stop, inflight, writerVars, storeVars, torn>>
  BY DEF SpillerCommits
<1>2. SpillerType'
  BY <1>1 DEF IInv, Types, SpillerType
<1>3. writer' = writer /\ held' = held /\ retest' = retest /\ keep' = keep
  BY <1>1 DEF writerVars
<1>4. CASE sealed # <<>> /\ Head(sealed) = spiller.batch /\ Commits(spiller.batch) /\ sealed' = Tail(sealed)
  <2>1. PICK b \in Group :
          /\ b = Head(sealed) /\ b \cap Past = {} /\ sealed' \in Seq(Group)
          /\ Rows(sealed) = b \cup Rows(sealed')
          /\ (Past' \subseteq Past \cup b => Ages')
          /\ (Balance /\ Safe \cup b \subseteq Safe' => Balance')
    <3>1. /\ Head(sealed) \in Group /\ Head(sealed) \cap Past = {} /\ sealed' \in Seq(Group)
          /\ Rows(sealed) = Head(sealed) \cup Rows(sealed')
          /\ (Past' \subseteq Past \cup Head(sealed) => Ages')
          /\ (Balance /\ Safe \cup Head(sealed) \subseteq Safe' => Balance')
      BY <1>1, <1>4, HeadLeaves DEF IInv
    <3> QED BY <3>1
  <2>2. /\ spool' \subseteq spool \cup {b} /\ temps' \subseteq temps
        /\ inflight \in spool => inflight \in spool'
        /\ count' \in CountRec /\ Counted \subseteq Counted'
        /\ \A g \in spool \cup {b} : g \in spool' \/ g \subseteq Counted'
    BY <1>4, <2>1, CommitsFacts DEF IInv, Types
  <2>3. /\ Line' = Line /\ Opened' = Opened /\ Pieces' /\ Replaced' /\ landed' = landed /\ torn' = torn
        /\ retest'.bad = retest.bad
    <3>1. \A g \in spool : g \in spool' \/ g \subseteq Counted'
      BY <2>2
    <3>2. UNCHANGED <<writerVars, inflight, landed, torn>>
      BY <1>1 DEF storeVars
    <3> QED BY <2>2, <3>1, <3>2, CountGrows DEF IInv
  <2>4. Types'
    <3>1. QueueType'
      BY <1>1, <2>1 DEF IInv, Types, QueueType
    <3>2. DiskType'
      BY <1>1, <2>2 DEF IInv, Types, DiskType, storeVars
    <3>3. WriterType'
      BY <1>3 DEF IInv, Types, WriterType
    <3> QED BY <1>2, <3>1, <3>2, <3>3 DEF Types
  <2>5. Phases'
    BY <1>1, <1>3, <1>4 DEF IInv, Phases
  <2>6. Past' \subseteq Past \cup b
    BY <2>2, <2>3 DEF Past
  <2>7. Safe \cup b \subseteq Safe'
    <3>1. UNION (spool \cup {b}) \subseteq (UNION spool') \cup Counted'
      BY <2>2
    <3> QED BY <2>2, <2>3, <3>1 DEF Safe
  <2>8. Tokens(Line', spool' \ Opened', landed', torn')
    <3>1. Line \in Seq(Some) /\ Tokens(Line, spool \ Opened, landed, torn) /\ b \in Some
      BY LineType DEF IInv, Some
    <3>2. \A i \in DOMAIN Line : Line[i] \cap b \subseteq torn
      <4>1. \A i \in DOMAIN Line : Line[i] \subseteq Past
        BY RowsOf DEF Past
      <4> QED BY <2>1, <4>1
    <3>3. \A s \in spool \ Opened : s \cap b \subseteq torn
      BY <2>1 DEF Past
    <3>4. \A d \in landed : b # d => b \cap d \subseteq torn
      BY <2>1 DEF Past
    <3>5. Tokens(Line, (spool \ Opened) \cup {b}, landed, torn)
      BY <3>1, <3>2, <3>3, <3>4, TokensJoined
    <3>6. spool' \ Opened' \subseteq (spool \ Opened) \cup {b}
      BY <2>2, <2>3
    <3> QED BY <2>3, <3>1, <3>5, <3>6, PicksItself, TokensPicked
  <2> QED BY <2>1, <2>3, <2>4, <2>5, <2>6, <2>7, <2>8 DEF IInv
<1>5. CASE temps' = temps \ {spiller.batch} /\ UNCHANGED <<spool, sealed, count>>
  <2>1. Types'
    <3>1. QueueType' /\ WriterType'
      BY <1>1, <1>3, <1>5 DEF IInv, Types, QueueType, WriterType
    <3>2. DiskType'
      BY <1>1, <1>5 DEF IInv, Types, DiskType, storeVars
    <3> QED BY <1>2, <3>1, <3>2 DEF Types
  <2> QED BY <1>1, <1>5, <2>1, Frame DEF storeVars
<1> QED BY <1>4, <1>5 DEF SpillerCommits

-----------------------------------------------------------------------------
(***************************************************************************)
(* Rows arrive and batches are sealed.                                     *)
(***************************************************************************)
LEMMA Division ==
    ASSUME NEW d \in Nat, NEW B \in Nat \ {0}
    PROVE  d = B * (d \div B) + (d % B) /\ d % B \in 0..B - 1 /\ d \div B \in Nat
OBVIOUS

LEMMA Multiples ==
    ASSUME NEW i \in Nat, NEW j \in Nat, NEW B \in Nat \ {0}
    PROVE  /\ i <= j => i * B <= j * B
           /\ i * B < j * B => i < j
           /\ i * B \in Nat /\ (i + 1) * B = i * B + B
OBVIOUS

LEMMA Bucket ==
    ASSUME NEW d \in Nat, NEW q \in Nat, NEW B \in Nat \ {0}, d < q * B
    PROVE  \E i \in 1..q : (i - 1) * B <= d /\ d < i * B
<1>1. PICK k \in Nat : d = B * k + (d % B) /\ d % B \in 0..B - 1
  BY Division
<1>2. k * B <= d /\ d < (k + 1) * B
  BY <1>1
<1>3. k < q
  BY <1>2
<1>4. k + 1 \in 1..q /\ (k + 1) - 1 = k
  BY <1>3
<1> QED BY <1>2, <1>4

LEMMA Differences ==
    ASSUME NEW t \in Nat, NEW p \in Nat, p <= t
    PROVE  t - p \in Nat
OBVIOUS

LEMMA Below ==
    ASSUME NEW P \in SUBSET Nat, NEW low \in Nat, NEW q \in Nat, \A r \in P : r <= low, low < q
    PROVE  \A r \in P : r < q
OBVIOUS

LEMMA Shifted ==
    ASSUME NEW n \in Nat, NEW m \in Nat, n <= m, NEW j \in 1..m - n
    PROVE  j \in Nat /\ n + j \in 1..m
OBVIOUS

LEMMA Thirds ==
    ASSUME NEW low \in Nat, NEW top \in Nat, low <= top, NEW u \in Nat, NEW r \in 1..u
    PROVE  r <= low \/ r \in (low + 1)..top \/ r \in (top + 1)..u
OBVIOUS

(* What has passed the queue are rows. *)
LEMMA PastRows == ASSUME Types PROVE Past \subseteq Row
<1>1. Line \in Seq(Some) /\ spool \subseteq Group /\ landed \subseteq Group /\ Opened \subseteq Group \cup {{}}
  <2>1. Line \in Seq(Some) /\ spool \subseteq Group /\ landed \subseteq Group
    BY LineType DEF Types, DiskType
  <2>2. Opened \subseteq Group \cup {{}}
    <3>1. writer.batch \in Group \cup {{}} /\ keep \in Seq(Chore)
      BY HandsFacts DEF Types
    <3>2. \A i \in DOMAIN keep : keep[i].rows \in Group
      <4>1. \A i \in DOMAIN keep : keep[i] \in Chore
        BY <3>1, SeqFacts
      <4> QED BY <4>1 DEF Chore
    <3> QED BY <3>1, <3>2 DEF Opened
  <2> QED BY <2>1, <2>2
<1>2. Rows(Line) \subseteq Row
  <2>1. \A i \in DOMAIN Line : Line[i] \in Group \cup {{}}
    BY <1>1, SeqFacts DEF Some
  <2> QED BY <2>1, RowsOf, RowSets
<1>3. UNION spool \subseteq Row /\ UNION landed \subseteq Row /\ UNION Opened \subseteq Row
  BY <1>1, RowSets
<1> QED BY <1>2, <1>3 DEF Past

(* Batches F that are sealed join the queue, whose n oldest are dropped.   *)
Grows(F, n) ==
    /\ sealed' = SubSeq(sealed \o F, n + 1, Len(sealed \o F))
    /\ taken' \in 0..MaxRows /\ taken <= taken' /\ pending' \in 0..(BatchSize - 1) /\ pending' <= taken'
    /\ taken - pending <= taken' - pending' /\ (taken - pending + 1)..(taken' - pending') \subseteq Rows(F)
    /\ \A i \in DOMAIN F : \A q \in F[i] :
         /\ taken - pending < q /\ q <= taken' - pending'
         /\ \A j \in DOMAIN F : j < i => \A r \in F[j] : r < q
    /\ count' \in CountRec /\ Counted \subseteq Counted' /\ Rows(SubSeq(sealed \o F, 1, n)) \subseteq Counted'
    /\ closed' \in BOOLEAN /\ (closed' => pending' = 0) /\ stop' = stop /\ SpillerType'
    /\ UNCHANGED <<diskVars, writerVars, landed, broken, torn>>

LEMMA QueueGrows ==
    ASSUME IInv, ~closed, NEW F \in Seq(Group), NEW n \in 0..Len(sealed \o F), Grows(F, n)
    PROVE  IInv'
<1>1. PICK S \in Seq(Group) : S = sealed
  BY DEF IInv, Types, QueueType
<1>2. PICK all \in Seq(Group) :
        /\ all = S \o F /\ DOMAIN all = 1..Len(S) + Len(F) /\ Len(all) = Len(S) + Len(F)
        /\ \A i \in 1..Len(S) : all[i] = S[i]
        /\ \A i \in 1..Len(F) : all[Len(S) + i] = F[i]
  <2>1. /\ S \o F \in Seq(Group) /\ DOMAIN (S \o F) = 1..Len(S) + Len(F) /\ Len(S \o F) = Len(S) + Len(F)
        /\ \A i \in 1..Len(S) : (S \o F)[i] = S[i]
        /\ \A i \in 1..Len(F) : (S \o F)[Len(S) + i] = F[i]
    BY Joined
  <2> QED BY <2>1
<1>3. /\ Len(S) \in Nat /\ DOMAIN S = 1..Len(S) /\ Len(F) \in Nat /\ DOMAIN F = 1..Len(F)
      /\ \A i \in 1..Len(all) : all[i] \in Group
  BY SeqFacts
<1>4. PICK t \in Nat, p \in Nat, u \in Nat, v \in Nat :
        t = taken /\ p = pending /\ u = taken' /\ v = pending' /\ p <= t /\ v <= u /\ t <= u /\ t - p <= u - v
  <2>1. taken \in Nat /\ pending \in Nat /\ pending <= taken
    BY DEF IInv, Types, QueueType
  <2>2. taken' \in Nat /\ pending' \in Nat /\ pending' <= taken' /\ taken <= taken'
        /\ taken - pending <= taken' - pending'
    BY DEF Grows
  <2> QED BY <2>1, <2>2
<1>n. n \in Nat /\ n <= Len(all)
  BY <1>1, <1>2
<1>5. PICK T \in Seq(Group) :
        /\ T = SubSeq(all, n + 1, Len(all)) /\ T = sealed' /\ DOMAIN T = 1..Len(all) - n
        /\ \A i \in 1..Len(all) - n : T[i] = all[n + i]
  <2>2. /\ SubSeq(all, n + 1, Len(all)) \in Seq(Group)
        /\ Len(SubSeq(all, n + 1, Len(all))) = Len(all) - n
        /\ \A i \in 1..Len(all) - n : SubSeq(all, n + 1, Len(all))[i] = all[n + i]
    BY <1>2, <1>3, <1>n, SubSeqProperties
  <2>3. DOMAIN SubSeq(all, n + 1, Len(all)) = 1..Len(all) - n
    BY <2>2, SeqFacts
  <2> QED BY <1>1, <1>2, <2>2, <2>3 DEF Grows
<1>6. PICK D \in Seq(Group) :
        /\ D = SubSeq(all, 1, n) /\ DOMAIN D = 1..n /\ \A i \in 1..n : D[i] = all[i]
  <2>2. /\ SubSeq(all, 1, n) \in Seq(Group) /\ Len(SubSeq(all, 1, n)) = n
        /\ \A i \in 1..n : SubSeq(all, 1, n)[i] = all[i]
    BY <1>2, <1>3, <1>n, SubSeqProperties
  <2>3. DOMAIN SubSeq(all, 1, n) = 1..n
    BY <2>2, SeqFacts
  <2> QED BY <2>2, <2>3
<1>7. Rows(all) \subseteq Rows(D) \cup Rows(T)
  <2>1. ASSUME NEW r \in Rows(all) PROVE r \in Rows(D) \cup Rows(T)
    <3>1. PICK i \in 1..Len(all) : r \in all[i]
      BY <1>2, <2>1, RowsOf
    <3>2. CASE i <= n
      <4>1. i \in 1..n
        BY <3>2
      <4> QED BY <1>6, <3>1, <4>1, RowsOf
    <3>3. CASE ~(i <= n)
      <4>1. i - n \in 1..Len(all) - n /\ n + (i - n) = i
        BY <1>n, <1>2, <1>3, <3>3
      <4> QED BY <1>5, <3>1, <4>1, RowsOf
    <3> QED BY <3>2, <3>3
  <2> QED BY <2>1
<1>8. Rows(all) = Rows(S) \cup Rows(F)
  BY <1>2, RowsJoined
<1>9. /\ Line' = Line /\ Opened' = Opened /\ Pieces' /\ Replaced' /\ Past' = Past /\ landed' = landed /\ torn' = torn
      /\ retest'.bad = retest.bad /\ spool' = spool
  <2>1. /\ spool' = spool /\ inflight' = inflight /\ UNCHANGED <<writerVars, inflight, landed, torn>>
        /\ Counted \subseteq Counted'
    BY DEF diskVars, Grows
  <2> QED BY <2>1, CountGrows DEF IInv
<1>10. Types'
  <2>1. QueueType'
    BY <1>5 DEF IInv, Types, QueueType, Grows
  <2>2. DiskType' /\ WriterType' /\ SpillerType'
    BY DEF IInv, Types, DiskType, WriterType, diskVars, writerVars, Grows
  <2> QED BY <2>1, <2>2 DEF Types
<1>11. Phases'
  BY DEF IInv, Phases, writerVars, Grows
<1>12. /\ \A r \in Past : r <= taken - pending
       /\ \A i \in DOMAIN S : \A q \in S[i] :
            /\ q <= taken - pending
            /\ \A r \in Past : r < q
            /\ \A j \in DOMAIN S : j < i => \A r \in S[j] : r < q
  BY <1>1 DEF IInv, Ages
<1>13. PICK low \in Nat, top \in Nat : low = taken - pending /\ top = taken' - pending' /\ low <= top
                                                   /\ low = t - p /\ top = u - v
  <2>1. t - p \in Nat /\ u - v \in Nat
    BY <1>4, Differences
  <2> QED BY <1>4, <2>1
<1>a. /\ \A i \in DOMAIN F : \A q \in F[i] : low < q /\ q <= top /\ \A j \in DOMAIN F : j < i => \A r \in F[j] : r < q
      /\ (low + 1)..top \subseteq Rows(F) /\ Rows(D) \subseteq Counted' /\ Counted \subseteq Counted'
  BY <1>1, <1>2, <1>6, <1>13 DEF Grows
<1>14. Past \subseteq Nat /\ \A i \in 1..Len(all) : all[i] \subseteq Nat
  <2>1. Past \subseteq Row
    BY PastRows DEF IInv
  <2> QED BY <1>3, <2>1, RowSets DEF Row
<1>15. ASSUME NEW i \in 1..Len(all), NEW q \in all[i]
       PROVE  /\ q <= top
              /\ \A r \in Past : r < q
              /\ \A j \in 1..Len(all) : j < i => \A r \in all[j] : r < q
  <2>1. q \in Nat
    BY <1>14, <1>15
  <2>2. CASE i <= Len(S)
    <3>1. i \in DOMAIN S /\ q \in S[i] /\ \A j \in 1..Len(all) : j < i => j \in DOMAIN S /\ all[j] = S[j]
      BY <1>2, <1>3, <1>15, <2>2
    <3>2. /\ q <= low /\ \A r \in Past : r < q
          /\ \A j \in DOMAIN S : j < i => \A r \in S[j] : r < q
      BY <1>12, <1>13, <3>1
    <3>3. q <= top
      BY <1>13, <2>1, <3>2
    <3> QED BY <3>1, <3>2, <3>3
  <2>3. CASE ~(i <= Len(S))
    <3>1. PICK k \in DOMAIN F : i = Len(S) + k /\ q \in F[k]
      <4>1. i - Len(S) \in 1..Len(F) /\ i = Len(S) + (i - Len(S))
        BY <1>2, <1>3, <2>3
      <4> QED BY <1>2, <1>3, <1>15, <4>1
    <3>2. low < q /\ q <= top /\ \A j \in DOMAIN F : j < k => \A r \in F[j] : r < q
      BY <1>a, <3>1
    <3>3. \A r \in Past : r < q
      <4>1. Past \in SUBSET Nat /\ \A r \in Past : r <= low
        BY <1>12, <1>13, <1>14
      <4> QED BY <2>1, <3>2, <4>1, Below
    <3>4. ASSUME NEW j \in 1..Len(all), j < i, NEW r \in all[j] PROVE r < q
      <4>1. r \in Nat
        BY <1>14, <3>4
      <4>2. CASE j <= Len(S)
        <5>1. j \in DOMAIN S /\ r \in S[j]
          BY <1>2, <1>3, <3>4, <4>2
        <5>2. r <= low
          BY <1>12, <1>13, <5>1
        <5> QED BY <1>13, <2>1, <3>2, <4>1, <5>2
      <4>3. CASE ~(j <= Len(S))
        <5>1. j - Len(S) \in DOMAIN F /\ j - Len(S) < k /\ j = Len(S) + (j - Len(S))
          <6>1. j \in 1..Len(S) + Len(F) /\ j < Len(S) + k /\ k \in 1..Len(F)
            BY <1>2, <1>3, <3>1, <3>4
          <6> QED BY <1>3, <4>3, <6>1
        <5>2. r \in F[j - Len(S)]
          BY <1>2, <1>3, <3>4, <5>1
        <5> QED BY <3>2, <5>1, <5>2
      <4> QED BY <4>2, <4>3
    <3> QED BY <3>2, <3>3, <3>4
  <2> QED BY <2>2, <2>3
<1>16. Ages'
  <2>1. \A r \in Past' : r <= taken' - pending'
    BY <1>9, <1>12, <1>13, <1>14
  <2>2. ASSUME NEW i \in DOMAIN T, NEW q \in T[i]
        PROVE  /\ q <= taken' - pending'
               /\ \A r \in Past' : r < q
               /\ \A j \in DOMAIN T : j < i => \A r \in T[j] : r < q
    <3>1. \A j \in DOMAIN T : j \in Nat /\ n + j \in 1..Len(all) /\ T[j] = all[n + j]
      <4>1. PICK m \in Nat : m = Len(all)
        BY <1>2, <1>3
      <4> QED BY <1>5, <1>n, <4>1, Shifted
    <3>2. \A j \in DOMAIN T : j < i => n + j < n + i
      BY <1>n, <3>1
    <3> QED BY <1>9, <1>13, <1>15, <2>2, <3>1, <3>2
  <2>3. sealed' = T
    BY <1>5
  <2> QED BY <2>1, <2>2, <2>3 DEF Ages
<1>17. Balance'
  <2>1. 1..t \subseteq ((low + 1)..t) \cup Rows(S) \cup Safe
    BY <1>1, <1>4, <1>13 DEF IInv, Balance
  <2>2. Safe' = Safe \cup Counted'
    BY <1>9, <1>a DEF Safe
  <2>3. Rows(S) \subseteq Rows(T) \cup Counted' /\ Rows(F) \subseteq Rows(T) \cup Counted'
    BY <1>7, <1>8, <1>a
  <2>4. ASSUME NEW r \in 1..u PROVE r \in ((top + 1)..u) \cup Rows(T) \cup Safe'
    <3>1. CASE r <= low
      <4>1. r \in 1..t /\ r \notin (low + 1)..t
        BY <1>4, <1>13, <3>1
      <4> QED BY <2>1, <2>2, <2>3, <4>1
    <3>2. CASE r \in (low + 1)..top
      BY <1>a, <2>2, <2>3, <3>2
    <3>3. CASE r \in (top + 1)..u
      BY <3>3
    <3> QED BY <1>13, <3>1, <3>2, <3>3, Thirds
  <2>5. 1..taken' \subseteq ((taken' - pending' + 1)..taken') \cup Rows(sealed') \cup Safe'
    BY <1>4, <1>5, <1>13, <2>4
  <2> QED BY <2>5 DEF Balance
<1>18. Tokens(Line', spool' \ Opened', landed', torn')
  BY <1>9 DEF IInv
<1> QED BY <1>9, <1>10, <1>11, <1>16, <1>17, <1>18 DEF IInv

LEMMA Sizings ==
    ASSUME FlowAssumption
    PROVE  /\ BatchSize \in Nat \ {0} /\ MaxRows \in Nat /\ Sizes \subseteq Nat \ {0}
BY DEF FlowAssumption

LEMMA FilledFacts ==
    ASSUME FlowAssumption, NEW m \in Nat, NEW low \in Nat, low = taken - pending, NEW top \in Nat,
           top = low + (m \div BatchSize) * BatchSize
    PROVE  /\ Filled(m) \in Seq(Group) /\ (low + 1)..top \subseteq Rows(Filled(m))
           /\ \A i \in DOMAIN Filled(m) : \A q \in Filled(m)[i] :
                /\ low < q /\ q <= top
                /\ \A j \in DOMAIN Filled(m) : j < i => \A r \in Filled(m)[j] : r < q
<1>1. PICK B \in Nat \ {0}, d \in Nat : B = BatchSize /\ d = m \div B
  <2>1. m \div BatchSize \in Nat /\ BatchSize \in Nat \ {0}
    BY Sizings, Division
  <2> QED BY <2>1
<1>2. PICK F : F = Filled(m) /\ F = [i \in 1..d |-> (low + (i - 1) * B + 1)..(low + i * B)]
  BY <1>1 DEF Filled
<1>3. DOMAIN F = 1..d /\ \A i \in 1..d : F[i] = (low + (i - 1) * B + 1)..(low + i * B)
  BY <1>2
<1>4. ASSUME NEW i \in 1..d
      PROVE  /\ F[i] \in Group /\ F[i] \subseteq (low + 1)..top
             /\ \A j \in 1..d : j < i => \A q \in F[i], r \in F[j] : r < q
  <2>1. PICK a \in Nat, z \in Nat :
          a = low + (i - 1) * B /\ z = low + i * B /\ z = a + B /\ low <= a /\ z <= top
    <3>1. i - 1 \in Nat /\ (i - 1) * B \in Nat /\ ((i - 1) + 1) * B = (i - 1) * B + B /\ (i - 1) + 1 = i
      BY Multiples
    <3>2. i * B <= d * B /\ i * B \in Nat
      BY Multiples
    <3> QED BY <1>1, <3>1, <3>2
  <2>2. F[i] = (a + 1)..z
    BY <1>3, <2>1
  <2>3. (a + 1)..z \subseteq Row /\ a + 1 \in (a + 1)..z /\ (a + 1)..z \subseteq (low + 1)..top
    BY <2>1 DEF Row
  <2>4. IsFiniteSet((a + 1)..z)
    BY <2>1, FS_Interval
  <2>5. ASSUME NEW j \in 1..d, j < i, NEW q \in F[i], NEW r \in F[j] PROVE r < q
    <3>1. j \in Nat /\ i - 1 \in Nat /\ j <= i - 1
      BY <2>5
    <3>2. j * B <= (i - 1) * B /\ j * B \in Nat /\ (i - 1) * B \in Nat
      BY <3>1, Multiples
    <3>3. r \in (low + (j - 1) * B + 1)..(low + j * B)
      BY <1>3, <2>5
    <3>4. r <= low + j * B /\ r \in Int
      <4>1. (j - 1) \in Nat /\ (j - 1) * B \in Nat
        BY Multiples
      <4> QED BY <3>2, <3>3, <4>1
    <3>5. q >= a + 1 /\ q \in Int
      BY <2>1, <2>2, <2>5
    <3> QED BY <2>1, <3>2, <3>4, <3>5
  <2> QED BY <2>2, <2>3, <2>4, <2>5 DEF Group
<1>5. F \in Seq(Group)
  <2>1. \A i \in 1..d : F[i] \in Group
    BY <1>4
  <2>2. F = [i \in 1..d |-> F[i]]
    BY <1>2, <1>3
  <2>3. F \in [1..d -> Group]
    BY <2>1, <2>2
  <2>4. [1..d -> Group] \in {[1..n -> Group] : n \in Nat}
    BY <1>1
  <2>5. [1..d -> Group] \subseteq Seq(Group)
    <3>1. UNION {[1..n -> Group] : n \in Nat} = Seq(Group)
      BY SeqDef
    <3>2. \A x \in [1..d -> Group] : x \in UNION {[1..n -> Group] : n \in Nat}
      BY <2>4, Zenon
    <3> QED BY <3>1, <3>2, Zenon
  <2> QED BY <2>3, <2>5
<1>6. ASSUME NEW r \in (low + 1)..top PROVE r \in Rows(F)
  <2>1. PICK e \in Nat : e = r - low - 1
    BY <1>6
  <2>2. e < d * B /\ r = low + e + 1
    BY <1>1, <1>6, <2>1
  <2>3. PICK i \in 1..d : (i - 1) * B <= e /\ e < i * B
    BY <2>2, Bucket
  <2>4. r \in (low + (i - 1) * B + 1)..(low + i * B)
    <3>1. (i - 1) * B \in Nat /\ i * B \in Nat
      BY Multiples
    <3> QED BY <2>2, <2>3, <3>1
  <2> QED BY <1>3, <2>4, RowsOf
<1>7. ASSUME NEW i \in DOMAIN F, NEW q \in F[i]
      PROVE  low < q /\ q <= top /\ \A j \in DOMAIN F : j < i => \A r \in F[j] : r < q
  <2>1. q \in (low + 1)..top
    BY <1>3, <1>4, <1>7
  <2>2. low < q /\ q <= top
    BY <2>1
  <2> QED BY <1>3, <1>4, <1>7, <2>2
<1> QED BY <1>2, <1>5, <1>6, <1>7

LEMMA AddStep ==
    ASSUME FlowAssumption, IInv, NEW n \in Sizes, Add(n)
    PROVE  IInv'
<1>1. PICK t \in Nat, p \in Nat, c \in Nat, B \in Nat \ {0} :
        t = taken /\ p = pending /\ p <= t /\ c = n /\ B = BatchSize /\ t + c <= MaxRows
  <2>1. BatchSize \in Nat \ {0} /\ n \in Nat
    BY Sizings
  <2>2. taken \in Nat /\ pending \in Nat /\ pending <= taken
    BY <2>1 DEF IInv, Types, QueueType
  <2> QED BY <2>1, <2>2 DEF Add
<1>2. PICK m \in Nat, low \in Nat, top \in Nat, rest \in 0..(B - 1) :
        /\ m = pending + n /\ rest = (pending + n) % BatchSize /\ low = taken - pending
        /\ top = low + (m \div BatchSize) * BatchSize /\ top = (t + c) - rest /\ low <= top /\ rest <= t + c
  <2>1. PICK m \in Nat, low \in Nat : m = p + c /\ low = t - p
    BY <1>1, Differences
  <2>2. PICK d \in Nat, rest \in 0..(B - 1) : d = m \div B /\ rest = m % B /\ m = B * d + rest
    <3>1. m \div B \in Nat /\ m % B \in 0..(B - 1) /\ m = B * (m \div B) + (m % B)
      BY Division
    <3> QED BY <3>1
  <2>3. PICK e \in Nat : e = d * B /\ e = B * d
    BY Multiples
  <2>4. low + e = (t + c) - rest /\ low <= low + e /\ rest <= t + c /\ low + e \in Nat
    BY <1>1, <2>1, <2>2, <2>3
  <2> QED BY <1>1, <2>1, <2>2, <2>3, <2>4
<1>3. PICK F \in Seq(Group) :
        /\ F = Filled(pending + n) /\ (low + 1)..top \subseteq Rows(F)
        /\ \A i \in DOMAIN F : \A q \in F[i] :
             /\ low < q /\ q <= top
             /\ \A j \in DOMAIN F : j < i => \A r \in F[j] : r < q
  <2>1. /\ Filled(m) \in Seq(Group) /\ (low + 1)..top \subseteq Rows(Filled(m))
        /\ \A i \in DOMAIN Filled(m) : \A q \in Filled(m)[i] :
             /\ low < q /\ q <= top
             /\ \A j \in DOMAIN Filled(m) : j < i => \A r \in Filled(m)[j] : r < q
    <3>1. m \in Nat /\ low \in Nat /\ top \in Nat /\ low = taken - pending
          /\ top = low + (m \div BatchSize) * BatchSize
      BY <1>2
    <3> QED BY <3>1, FilledFacts
  <2> QED BY <1>2, <2>1
<1>4. PICK all \in Seq(Group) : all = sealed \o F
  BY Joined DEF IInv, Types, QueueType
<1>5. PICK s \in 0..Len(all) :
        /\ taken' = taken + n /\ pending' = rest /\ sealed' = SubSeq(all, s + 1, Len(all))
        /\ Count("dropped", Rows(SubSeq(all, 1, s)))
        /\ spiller' = [spiller EXCEPT !.wake = @ \/ (HasSpool /\ MemRecords(all, rest) > CapRecords)]
  <2>1. PICK K : K = {k \in 0..Len(all) :
                        k = Len(all) \/ MemRecords(SubSeq(all, k + 1, Len(all)), rest) <= HardLimit}
    OBVIOUS
  <2>2. Len(all) \in Nat
    BY SeqFacts
  <2>3. K \in SUBSET Nat /\ Len(all) \in K /\ K \subseteq 0..Len(all)
    BY <2>1, <2>2
  <2>4. Min(K) \in K
    BY <2>3, LeastRow
  <2> QED BY <1>2, <1>3, <1>4, <2>1, <2>3, <2>4 DEF Add
<1>6. UNCHANGED <<closed, stop, diskVars, writerVars, storeVars, torn>> /\ ~closed
  BY DEF Add
<1>7. PICK D \in Seq(Group) : D = SubSeq(all, 1, s)
  <2>1. /\ Len(all) \in Nat /\ \A i \in 1..Len(all) : all[i] \in Group
    BY SeqFacts
  <2>2. s \in Int /\ \A i \in 1..s : all[i] \in Group
    BY <2>1
  <2>3. SubSeq(all, 1, s) \in Seq(Group)
    BY <2>2, SubSeqProperties
  <2> QED BY <2>3
<1>8. count' \in CountRec /\ Counted' = Counted \cup Rows(D)
  <2>1. Rows(D) \in SUBSET Row
    <3>1. \A i \in DOMAIN D : D[i] \in SUBSET Row
      BY SeqFacts, RowSets
    <3> QED BY <3>1, RowsOf
  <2> QED BY <1>5, <1>7, <2>1, CountFacts DEF IInv, Types, DiskType
<1>9. SpillerType'
  <2>1. (spiller.wake \/ (HasSpool /\ MemRecords(all, rest) > CapRecords)) \in BOOLEAN
    OBVIOUS
  <2>2. PICK wake \in BOOLEAN : spiller' = [spiller EXCEPT !.wake = wake]
    BY <1>5, <2>1
  <2> QED BY <2>2 DEF IInv, Types, SpillerType
<1>10. Grows(F, s)
  <2>1. /\ taken' = t + c /\ pending' = rest /\ taken' - pending' = top /\ taken - pending = low
    BY <1>1, <1>2, <1>5
  <2>2. taken' \in 0..MaxRows /\ taken <= taken' /\ pending' \in 0..(BatchSize - 1) /\ pending' <= taken'
    BY <1>1, <1>2, <2>1, Sizings
  <2>3. closed' \in BOOLEAN /\ ~closed' /\ stop' = stop /\ UNCHANGED <<diskVars, writerVars, landed, broken, torn>>
    BY <1>6 DEF IInv, Types, QueueType, storeVars
  <2>4. sealed' = SubSeq(sealed \o F, s + 1, Len(sealed \o F)) /\ Rows(SubSeq(sealed \o F, 1, s)) \subseteq Counted'
    BY <1>4, <1>5, <1>7, <1>8
  <2> QED BY <1>2, <1>3, <1>8, <1>9, <2>1, <2>2, <2>3, <2>4 DEF Grows
<1> QED BY <1>4, <1>6, <1>10, QueueGrows

(* What is pending becomes a batch.                                        *)
LEMMA Seals ==
    ASSUME FlowAssumption, IInv, ~closed, sealed' = Sealing, pending' = 0, taken' = taken, stop' = stop,
           closed' \in BOOLEAN, UNCHANGED <<diskVars, spiller, writerVars, landed, broken, count, torn>>
    PROVE  IInv'
<1>1. PICK t \in Nat, p \in Nat, low \in Nat, B \in Nat \ {0} :
        t = taken /\ p = pending /\ p <= t /\ low = t - p /\ B = BatchSize /\ t <= MaxRows
  <2>1. BatchSize \in Nat \ {0} /\ MaxRows \in Nat
    BY Sizings
  <2>2. taken \in Nat /\ pending \in Nat /\ pending <= taken /\ taken <= MaxRows
    BY <2>1 DEF IInv, Types, QueueType
  <2> QED BY <2>1, <2>2, Differences
<1>2. PICK F \in Seq(Group) :
        /\ Sealing = sealed \o F /\ Rows(F) = (low + 1)..t
        /\ \A i \in DOMAIN F : F[i] = (low + 1)..t /\ \A j \in DOMAIN F : ~(j < i)
  <2>1. CASE p = 0
    <3>1. (low + 1)..t = {}
      BY <1>1, <2>1
    <3>2. Sealing = sealed \o <<>>
      BY <1>1, <2>1, ConcatEmptySeq DEF Sealing, IInv, Types, QueueType
    <3>3. <<>> \in Seq(Group) /\ DOMAIN <<>> = {} /\ Rows(<<>>) = {}
      BY EmptySeq, RowsOf
    <3> QED BY <3>1, <3>2, <3>3
  <2>2. CASE p # 0
    <3>1. PICK g \in Group : g = (low + 1)..t
      <4>1. (low + 1)..t \subseteq Row /\ t \in (low + 1)..t
        BY <1>1, <2>2 DEF Row
      <4>2. IsFiniteSet((low + 1)..t)
        <5>1. low + 1 \in Int /\ t \in Int
          BY <1>1
        <5> QED BY <5>1, FS_Interval
      <4> QED BY <4>1, <4>2 DEF Group
    <3>2. <<g>> \in Seq(Group) /\ DOMAIN <<g>> = {1} /\ <<g>>[1] = g /\ Rows(<<g>>) = g
      BY OneOf
    <3>3. Sealing = Append(sealed, g)
      BY <1>1, <2>2, <3>1 DEF Sealing
    <3>4. Append(sealed, g) = sealed \o <<g>>
      BY <3>1, AppendIsConcat DEF IInv, Types, QueueType
    <3>5. PICK F \in Seq(Group) : F = <<g>>
      BY <3>2
    <3>6. \A i \in DOMAIN F : F[i] = g /\ \A j \in DOMAIN F : ~(j < i)
      BY <3>2, <3>5
    <3> QED BY <3>1, <3>2, <3>3, <3>4, <3>5, <3>6
  <2> QED BY <2>1, <2>2
<1>3. PICK all \in Seq(Group) : all = sealed \o F
  BY Joined DEF IInv, Types, QueueType
<1>4. 0 \in 0..Len(all) /\ SubSeq(all, 0 + 1, Len(all)) = all /\ SubSeq(all, 1, 0) = <<>>
  <2>1. Len(all) \in Nat
    BY SeqFacts
  <2>2. SubSeq(all, 1, 0) = <<>>
    BY SubSeqEmpty
  <2>3. SubSeq(all, 1, Len(all)) = all
    <3>1. PICK m \in Nat : m = Len(all) /\ \A i \in 1..m : all[i] \in Group
      BY SeqFacts
    <3>2. /\ SubSeq(all, 1, m) \in Seq(Group) /\ Len(SubSeq(all, 1, m)) = IF 1 <= m THEN m - 1 + 1 ELSE 0
          /\ \A i \in 1..m - 1 + 1 : SubSeq(all, 1, m)[i] = all[1 + i - 1]
      BY <3>1, SubSeqProperties
    <3>3. PICK T \in Seq(Group) :
            /\ T = SubSeq(all, 1, m) /\ Len(T) = (IF 1 <= m THEN m - 1 + 1 ELSE 0)
            /\ \A i \in 1..m - 1 + 1 : T[i] = all[1 + i - 1]
      BY <3>2
    <3>4. Len(T) = m /\ \A i \in 1..m : T[i] = all[i]
      <4>1. m - 1 + 1 = m /\ \A i \in 1..m : 1 + i - 1 = i
        OBVIOUS
      <4>2. (IF 1 <= m THEN m ELSE 0) = m
        OBVIOUS
      <4> QED BY <3>3, <4>1, <4>2
    <3> QED BY <3>1, <3>3, <3>4, SeqEqual
  <2> QED BY <2>1, <2>2, <2>3
<1>5. Grows(F, 0)
  <2>1. /\ taken' = t /\ pending' = 0 /\ taken' - pending' = t /\ taken - pending = low /\ low <= t /\ taken <= taken'
        /\ taken' \in 0..MaxRows /\ pending' \in 0..(BatchSize - 1) /\ pending' <= taken'
    BY <1>1, Sizings
  <2>2. SpillerType' /\ count' \in CountRec /\ Counted' = Counted
    BY DEF IInv, Types, SpillerType, DiskType, Counted
  <2>3. Rows(SubSeq(all, 1, 0)) = {}
    <3>1. DOMAIN SubSeq(all, 1, 0) = {}
      BY <1>4
    <3> QED BY <3>1, RowsOf
  <2>4. \A i \in DOMAIN F : \A q \in F[i] :
          low < q /\ q <= t /\ \A j \in DOMAIN F : j < i => \A r \in F[j] : r < q
    BY <1>2
  <2>5. (low + 1)..t \subseteq Rows(F) /\ sealed' = SubSeq(all, 0 + 1, Len(all))
    BY <1>2, <1>3, <1>4
  <2> QED BY <1>3, <2>1, <2>2, <2>3, <2>4, <2>5 DEF Grows
<1> QED BY <1>3, <1>4, <1>5, QueueGrows

LEMMA SealDueStep == FlowAssumption /\ IInv /\ SealDue => IInv'
<1> SUFFICES ASSUME FlowAssumption, IInv, SealDue PROVE IInv'
  OBVIOUS
<1>1. closed' \in BOOLEAN
  BY DEF SealDue, IInv, Types, QueueType
<1> QED BY <1>1, Seals DEF SealDue, storeVars

LEMMA CloseStep == FlowAssumption /\ IInv /\ Close => IInv'
BY Seals DEF Close

-----------------------------------------------------------------------------
(***************************************************************************)
(* Starting, stopping and a kill.                                          *)
(***************************************************************************)
LEMMA FreshTypes ==
    ASSUME FlowAssumption, IInv, Started, UNCHANGED <<taken, spool, landed, broken>>,
           count' \in CountRec, torn' \in SUBSET Row
    PROVE  Types' /\ Phases'
<1>1. <<>> \in Seq(Group) /\ <<>> \in Seq(Chore) /\ Looking \in WriterRec /\ NoRetest \in RetestRec
  BY EmptySeq, AtRest
<1>2. WriterType'
  BY <1>1 DEF WriterType, Started
<1>3. QueueType'
  <2>1. BatchSize \in Nat \ {0} /\ taken \in 0..MaxRows /\ taken \in Nat
    BY Sizings DEF IInv, Types, QueueType
  <2>2. pending' = 0 /\ taken' = taken /\ sealed' = <<>> /\ closed' = FALSE /\ stop' = FALSE
    BY DEF Started
  <2>3. 0 \in 0..(BatchSize - 1) /\ 0 <= taken
    BY <2>1
  <2> QED BY <1>1, <2>1, <2>2, <2>3 DEF QueueType
<1>4. DiskType' /\ SpillerType'
  BY DEF IInv, Types, DiskType, SpillerType, Started, NotSpilling
<1>5. Phases'
  BY DEF Phases, Started, Looking, NoRetest
<1> QED BY <1>2, <1>3, <1>4, <1>5 DEF Types

(* What starts from the disk alone, whatever the end was.                  *)
LEMMA Fresh ==
    ASSUME FlowAssumption, IInv, Started, UNCHANGED <<taken, spool, landed, broken>>,
           count' \in CountRec, torn' \in SUBSET Row, torn \subseteq torn',
           1..taken \subseteq OnDisk \cup Counted',
           \A s, t \in spool : s # t => s \cap t \subseteq torn',
           \A s \in spool, h \in landed : s # h => s \cap h \subseteq torn'
    PROVE  IInv'
<1>1. Types' /\ Phases'
  BY FreshTypes
<1>2. Line' = <<>> /\ Opened' = {} /\ Pieces' /\ Replaced'
  <2>1. writer' = Looking /\ held' = <<>> /\ keep' = <<>>
    BY DEF Started
  <2>2. writer'.phase = "look" /\ writer'.parts = <<>> /\ writer'.suspects = <<>>
    BY <2>1 DEF Looking
  <2>3. held' \in Seq(Group)
    BY <2>1, EmptySeq
  <2>4. Line' = held' /\ Opened' = {} /\ Pieces' /\ Replaced'
    BY <2>1, <2>2, <2>3, LooksNext
  <2> QED BY <2>1, <2>4
<1>3. Rows(Line') = {} /\ DOMAIN Line' = {}
  <2>1. DOMAIN Line' = {}
    BY <1>2
  <2> QED BY <2>1, RowsOf
<1>4. taken' = taken /\ pending' = 0 /\ sealed' = <<>> /\ spool' = spool /\ landed' = landed
  BY DEF Started
<1>5. Ages'
  <2>1. PICK t \in Nat, p \in Nat : t = taken /\ p = pending /\ p <= t
    BY Sizings DEF IInv, Types, QueueType
  <2>2. UNION spool \in SUBSET Row /\ UNION landed \in SUBSET Row
    BY RowSets DEF IInv, Types, DiskType
  <2>3. \A r \in Past : r <= t - p
    BY <2>1 DEF IInv, Ages
  <2>4. Past' = (UNION spool) \cup (UNION landed)
    BY <1>2, <1>3, <1>4 DEF Past
  <2>5. \A r \in Past' : r \in Nat /\ r <= t - p
    BY <2>2, <2>3, <2>4 DEF Past, Row
  <2>6. \A r \in Past' : r <= t - 0
    BY <2>1, <2>5
  <2>7. DOMAIN sealed' = {}
    BY <1>4
  <2> QED BY <1>4, <2>1, <2>6, <2>7 DEF Ages
<1>6. Balance'
  <2>1. Safe' = OnDisk \cup Counted'
    <3>1. retest'.bad = {}
      BY DEF Started, NoRetest
    <3> QED BY <1>3, <1>4, <3>1 DEF Safe, OnDisk
  <2> QED BY <1>4, <2>1 DEF Balance
<1>7. Tokens(Line', spool' \ Opened', landed', torn')
  <2>1. \A g, h \in landed : g # h => g \cap h \subseteq torn
    BY DEF IInv, Tokens
  <2>2. Tokens(Line', spool, landed, torn')
    BY <1>3, <2>1 DEF Tokens, Apart
  <2> QED BY <1>2, <1>4, <2>2
<1> QED BY <1>1, <1>2, <1>5, <1>6, <1>7 DEF IInv

LEMMA RestartStep == FlowAssumption /\ IInv /\ Restart => IInv'
<1> SUFFICES ASSUME FlowAssumption, IInv, Restart PROVE IInv'
  OBVIOUS
<1>1. /\ writer.phase = "done" /\ Started
      /\ UNCHANGED <<taken, spool, landed, broken, count, torn>>
  BY DEF Restart, storeVars
<1>2. closed /\ pending = 0 /\ sealed = <<>> /\ keep = <<>> /\ retest.bad = {}
  BY <1>1 DEF IInv, Phases
<1>3. Rows(Line) = {} /\ Opened = {}
  <2>1. Line = Chores
    BY <1>1 DEF Line
  <2>2. DOMAIN Line = {} /\ DOMAIN keep = {}
    BY <1>2, <2>1 DEF Chores, ChoresOf
  <2>3. Rows(Line) = {}
    BY <2>2, RowsOf
  <2> QED BY <1>1, <2>2, <2>3 DEF Opened
<1>4. 1..taken \subseteq OnDisk \cup Counted
  <2>1. taken \in Nat
    BY Sizings DEF IInv, Types, QueueType
  <2>2. (taken - pending + 1)..taken = {}
    BY <1>2, <2>1
  <2>3. Rows(sealed) = {}
    <3>1. DOMAIN sealed = {}
      BY <1>2
    <3> QED BY <3>1, RowsOf
  <2> QED BY <1>2, <1>3, <2>2, <2>3 DEF IInv, Balance, Safe, OnDisk
<1>5. Counted' = Counted
  BY <1>1 DEF Counted
<1>6. /\ \A s, t \in spool : s # t => s \cap t \subseteq torn
      /\ \A s \in spool, h \in landed : s # h => s \cap h \subseteq torn
  <2>1. spool \ Opened = spool
    BY <1>3
  <2> QED BY <2>1 DEF IInv, Tokens
<1>7. count' \in CountRec /\ torn' \in SUBSET Row /\ torn' = torn
  BY <1>1 DEF IInv, Types, DiskType
<1> QED BY <1>1, <1>4, <1>5, <1>6, <1>7, Fresh

(* What the line holds, by the phase of the writer. *)
LEMMA LineRows ==
    ASSUME Types, Phases
    PROVE  /\ writer.phase \in {"look", "take", "deliver"} =>
                Rows(Line) = Rows(held) \cup (Rows(Groups(writer.suspects)) \cup Rows(Groups(writer.parts)))
           /\ writer.phase \in {"retest", "isolate"} =>
                Rows(Line) = Rows(retest.kept) \cup
                               (Rows(Groups(retest.work)) \cup (Rows(retest.refused) \cup Rows(retest.todo)))
<1>1. /\ writer.parts \in Seq(Piece) /\ writer.suspects \in Seq(Piece) /\ held \in Seq(Group)
      /\ retest.kept \in Seq(Group) /\ retest.refused \in Seq(Group) /\ retest.todo \in Seq(Group)
      /\ retest.work \in Seq(Piece)
  BY HandsFacts DEF Types
<1>2. CASE writer.phase \in {"look", "take", "deliver"}
  <2>1. PICK a \in Seq(Group), b \in Seq(Group) : a = Groups(writer.suspects) /\ b = Groups(writer.parts)
    BY <1>1, GroupsOf
  <2>2. Line = held \o (a \o b)
    BY <1>1, <1>2, <2>1, LineDeliver, GroupsJoined
  <2>3. Rows(Line) = Rows(held) \cup (Rows(a) \cup Rows(b))
    <3>1. PICK c \in Seq(Group) : c = a \o b /\ Rows(c) = Rows(a) \cup Rows(b)
      <4>1. a \o b \in Seq(Group) /\ Rows(a \o b) = Rows(a) \cup Rows(b)
        BY Joined, RowsJoined
      <4> QED BY <4>1
    <3>2. Rows(held \o c) = Rows(held) \cup Rows(c)
      BY <1>1, RowsJoined
    <3> QED BY <2>2, <3>1, <3>2
  <2> QED BY <1>2, <2>1, <2>3
<1>3. CASE writer.phase \in {"retest", "isolate"}
  <2>1. PICK b \in Seq(Some) : b = Groups(retest.work)
    BY <1>1, GroupsOf, SomeSeq
  <2>2. Line = retest.kept \o (b \o (retest.refused \o retest.todo))
    BY <1>3, <2>1, RoundNow
  <2>3. retest.kept \in Seq(Some) /\ retest.refused \in Seq(Some) /\ retest.todo \in Seq(Some)
    BY <1>1, SomeSeq
  <2>4. Rows(Line) = Rows(retest.kept) \cup (Rows(b) \cup (Rows(retest.refused) \cup Rows(retest.todo)))
    BY <2>2, <2>3, RowsOfFour
  <2> QED BY <1>3, <2>1, <2>4
<1> QED BY <1>2, <1>3

(* The line is in memory, and memory holds rows. *)
LEMMA LineMemory ==
    ASSUME Types, Phases
    PROVE  Rows(Line) \cup Rows(sealed) \cup ((taken - pending + 1)..taken) \cup retest.bad \subseteq InMemory
<1>1. writer.phase \in {"look", "take", "deliver", "retest", "isolate", "end", "commit", "done"}
  BY HandsFacts DEF Types
<1>2. CASE writer.phase \in {"look", "take", "deliver"}
  BY <1>2, LineRows DEF InMemory
<1>3. CASE writer.phase \in {"retest", "isolate"}
  BY <1>3, LineRows DEF InMemory
<1>4. CASE writer.phase \in {"end", "commit", "done"}
  <2>1. Line = Chores
    BY <1>4 DEF Line
  <2>2. Rows(Chores) \subseteq Rows(Groups(keep))
    <3>1. ASSUME NEW r \in Rows(Chores) PROVE r \in Rows(Groups(keep))
      <4>1. PICK i \in DOMAIN Chores : r \in Chores[i]
        BY <3>1, RowsOf
      <4>2. i \in DOMAIN keep /\ r \in keep[i].rows
        BY <4>1 DEF Chores, ChoresOf
      <4>3. i \in DOMAIN Groups(keep) /\ r \in Groups(keep)[i]
        BY <4>2 DEF Groups
      <4> QED BY <4>3, RowsOf
    <3> QED BY <3>1
  <2> QED BY <2>1, <2>2 DEF InMemory
<1> QED BY <1>1, <1>2, <1>3, <1>4 DEF InMemory

LEMMA MemoryRows ==
    ASSUME FlowAssumption, Types
    PROVE  InMemory \in SUBSET Row
<1>1. /\ writer.parts \in Seq(Piece) /\ writer.suspects \in Seq(Piece) /\ held \in Seq(Group) /\ keep \in Seq(Chore)
      /\ retest.kept \in Seq(Group) /\ retest.refused \in Seq(Group) /\ retest.todo \in Seq(Group)
      /\ retest.work \in Seq(Piece) /\ retest.bad \in SUBSET Row
  BY HandsFacts DEF Types
<1>2. ASSUME NEW s \in Seq(Group) PROVE Rows(s) \in SUBSET Row
  <2>1. \A i \in DOMAIN s : s[i] \in SUBSET Row
    BY SeqFacts, RowSets
  <2> QED BY <2>1, RowsOf
<1>3. ASSUME NEW s \in Seq(Piece) PROVE Rows(Groups(s)) \in SUBSET Row
  BY <1>2, GroupsOf
<1>4. Rows(Groups(keep)) \in SUBSET Row
  <2>1. \A i \in DOMAIN keep : keep[i] \in Chore
    BY <1>1, SeqFacts
  <2>2. \A i \in DOMAIN Groups(keep) : Groups(keep)[i] \in SUBSET Row
    BY <2>1, RowSets DEF Chore, Groups
  <2> QED BY <2>2, RowsOf
<1>5. (taken - pending + 1)..taken \in SUBSET Row
  <2>1. PICK t \in Nat, p \in Nat : t = taken /\ p = pending /\ p <= t
    BY Sizings DEF Types, QueueType
  <2>2. (t - p + 1)..t \in SUBSET Row
    BY <2>1 DEF Row
  <2> QED BY <2>1, <2>2
<1>6. Rows(sealed) \in SUBSET Row
  BY <1>2 DEF Types, QueueType
<1>7. /\ Rows(held) \in SUBSET Row /\ Rows(retest.todo) \in SUBSET Row /\ Rows(retest.kept) \in SUBSET Row
      /\ Rows(retest.refused) \in SUBSET Row
  BY <1>1, <1>2
<1>8. /\ Rows(Groups(writer.parts)) \in SUBSET Row /\ Rows(Groups(writer.suspects)) \in SUBSET Row
      /\ Rows(Groups(retest.work)) \in SUBSET Row
  BY <1>1, <1>3
<1> QED BY <1>1, <1>4, <1>5, <1>6, <1>7, <1>8 DEF InMemory

(* What a kill takes is counted as perished, and every row of a segment    *)
(* that stands under another token too is torn.                            *)
LEMMA CrashStep == FlowAssumption /\ IInv /\ Crash => IInv'
<1> SUFFICES ASSUME FlowAssumption, IInv, Crash PROVE IInv'
  OBVIOUS
<1>1. /\ Started /\ UNCHANGED <<taken, spool, landed, broken>>
      /\ Count("perished", InMemory \ OnDisk) /\ torn' = torn \cup Overlaps
  BY DEF Crash
<1>2. InMemory \ OnDisk \in SUBSET Row
  BY MemoryRows DEF IInv
<1>3. count' \in CountRec /\ Counted' = Counted \cup (InMemory \ OnDisk)
  BY <1>1, <1>2, CountFacts DEF IInv, Types, DiskType
<1>4. 1..taken \subseteq OnDisk \cup Counted'
  <2>1. 1..taken \subseteq InMemory \cup OnDisk \cup Counted
    BY LineMemory DEF IInv, Balance, Safe, OnDisk
  <2> QED BY <1>3, <2>1
<1>5. Overlaps \in SUBSET Row
  <2>1. Overlaps \subseteq UNION spool
    BY DEF Overlaps
  <2>2. UNION spool \in SUBSET Row
    BY RowSets DEF IInv, Types, DiskType
  <2> QED BY <2>1, <2>2
<1>6. torn' \in SUBSET Row /\ torn \subseteq torn'
  BY <1>1, <1>5 DEF IInv, Types, DiskType
<1>7. \A s \in spool, t \in spool \cup landed : s # t => s \cap t \subseteq Overlaps
  BY DEF Overlaps
<1>8. /\ \A s, t \in spool : s # t => s \cap t \subseteq torn'
      /\ \A s \in spool, h \in landed : s # h => s \cap h \subseteq torn'
  BY <1>1, <1>7
<1> QED BY <1>1, <1>3, <1>4, <1>6, <1>8, Fresh

-----------------------------------------------------------------------------
(***************************************************************************)
(* The invariant, and what follows from it.                                *)
(***************************************************************************)
LEMMA InitIInv == FlowAssumption /\ Init => IInv
<1> SUFFICES ASSUME FlowAssumption, Init PROVE IInv
  OBVIOUS
<1>1. Types
  <2>1. <<>> \in Seq(Group) /\ <<>> \in Seq(Chore) /\ Looking \in WriterRec /\ NoRetest \in RetestRec
    BY EmptySeq, AtRest
  <2>2. 0 \in 0..MaxRows /\ 0 \in 0..(BatchSize - 1) /\ 0 <= 0
    BY Sizings
  <2>3. QueueType
    BY <2>1, <2>2 DEF Init, QueueType
  <2>4. DiskType /\ SpillerType
    BY DEF Init, DiskType, SpillerType, NotSpilling, CountRec
  <2>5. WriterType
    BY <2>1 DEF Init, WriterType
  <2> QED BY <2>3, <2>4, <2>5 DEF Types
<1>2. Phases
  BY DEF Init, Phases, Looking, NoRetest
<1>3. writer.phase = "look" /\ held = <<>> /\ keep = <<>>
  BY DEF Init, Looking
<1>4. Line = <<>> /\ Opened = {}
  BY <1>1, <1>2, <1>3, NothingInHand
<1>5. Rows(Line) = {} /\ DOMAIN Line = {}
  <2>1. DOMAIN Line = {}
    BY <1>4
  <2> QED BY <2>1, RowsOf
<1>6. Pieces /\ Replaced
  BY <1>3 DEF Pieces, Replaced
<1>7. Past = {} /\ DOMAIN sealed = {} /\ spool = {} /\ landed = {}
  BY <1>4, <1>5 DEF Past, Init
<1>8. Ages /\ Balance
  BY <1>7 DEF Ages, Balance, Init
<1>9. Tokens(Line, spool \ Opened, landed, torn)
  BY <1>5, <1>7 DEF Tokens, Apart
<1> QED BY <1>1, <1>2, <1>6, <1>8, <1>9 DEF IInv

LEMMA StutterStep == IInv /\ UNCHANGED vars => IInv'
<1> SUFFICES ASSUME IInv, UNCHANGED vars PROVE IInv'
  OBVIOUS
<1>1. UNCHANGED <<queueVars, diskVars, spiller, writerVars, storeVars, count, torn>>
  BY DEF vars
<1>2. Types'
  BY <1>1 DEF IInv, Types, QueueType, DiskType, SpillerType, WriterType, queueVars, diskVars, writerVars, storeVars
<1> QED BY <1>1, <1>2, Frame DEF queueVars, diskVars, storeVars

LEMMA WriterStep == IInv /\ Writer => IInv'
BY NextSegmentStep, SpoolSeenEmptyStep, TakeMemoryStep, AcceptStep, TryLaterStep, RefusedStep, SecondTriesStep,
   DeliveredStep, InterruptedStep, RetestStep, JudgeStep, IsolateStep, IsolatedStep, RetestStoppedStep,
   PersistWritesStep, PersistCommitsStep, SupersedeStep, DrainStep
   DEF Writer

LEMMA NextStep == FlowAssumption /\ IInv /\ [Next]_vars => IInv'
BY AddStep, SealDueStep, CloseStep, DeadlinePassesStep, SpillerStarts, SpillerCommitsStep, WriterStep, BreakStep,
   RestartStep, CrashStep, StutterStep
   DEF Next, Spiller

(* The inductive invariant holds in every reachable state.                 *)
THEOREM Inductive == Spec => []IInv
BY InitIInv, NextStep, FlowAssumption, PTL DEF Spec

(* Every row the collector received is in memory, in a segment, or counted *)
(* as written, dropped, rejected or lost in a kill, for any sizes of the   *)
(* queue, the spool and the datagrams and any number of faults.            *)
THEOREM RowsAccounted == Spec => []Accounted
<1>1. IInv => Accounted
  <2> SUFFICES ASSUME IInv PROVE Accounted
    OBVIOUS
  <2>1. 1..taken \subseteq InMemory \cup OnDisk \cup Counted
    BY LineMemory DEF IInv, Balance, Safe, OnDisk
  <2>2. Counted \subseteq UNION {count[how] : how \in DOMAIN count}
    <3>1. {"written", "dropped", "rejected", "perished"} \subseteq DOMAIN count
      BY DEF IInv, Types, DiskType, CountRec
    <3> QED BY <3>1 DEF Counted
  <2> QED BY <2>1, <2>2 DEF Accounted
<1> QED BY <1>1, Inductive, PTL

(* ClickHouse stores a row under one deduplication token only, unless a    *)
(* kill or a refused part that had been stored tore it: a stop and a       *)
(* restart alone never insert a row twice.                                 *)
THEOREM StoredUnderOneToken == Spec => []StoredOnce
<1>1. IInv => StoredOnce
  BY DEF IInv, Tokens, StoredOnce
<1> QED BY <1>1, Inductive, PTL

-----------------------------------------------------------------------------
(* An older batch has the smaller first row. *)
LEMMA OlderFirst ==
    ASSUME NEW g \in Group, NEW h \in Group, \A r \in g : \A q \in h : r < q
    PROVE  Min(g) <= Min(h)
<1>1. Min(g) \in g /\ Min(h) \in h /\ Min(g) \in Nat /\ Min(h) \in Nat
  BY GroupFacts DEF Row
<1> QED BY <1>1

LEMMA OldestNext ==
    ASSUME IInv, Next, writer.phase # "deliver", writer'.phase = "deliver"
    PROVE  NextSegment \/ (TakeMemory /\ spool = {} /\ sealed # <<>> /\ sealed' = Tail(sealed)
                                      /\ writer'.batch = Head(sealed))
<1>1. ASSUME TakeMemory
      PROVE  spool = {} /\ sealed # <<>> /\ sealed' = Tail(sealed) /\ writer'.batch = Head(sealed)
  <2>1. /\ \A evidence, back : ~StartRetest(evidence, back)
        /\ \A first, groups : ~Ends(first, groups)
        /\ writer' # Looking
    <3>1. ASSUME NEW evidence, NEW back, StartRetest(evidence, back) PROVE FALSE
      <4>1. writer' = [Looking EXCEPT !.phase = "retest"]
        BY <3>1, Zenon DEF StartRetest
      <4> QED BY <4>1 DEF Looking
    <3>2. ASSUME NEW first, NEW groups, Ends(first, groups) PROVE FALSE
      <4>1. writer' = [Looking EXCEPT !.phase = "end"]
        BY <3>2, Zenon DEF Ends
      <4> QED BY <4>1 DEF Looking
    <3>3. writer' # Looking
      BY DEF Looking
    <3> QED BY <3>1, <3>2, <3>3, Zenon
  <2>2. ~RetryDisk /\ sealed # <<>> /\ sealed' = Tail(sealed) /\ Delivering(Head(sealed), FALSE)
    BY <1>1, <2>1, Zenon DEF TakeMemory
  <2>3. writer'.batch = Head(sealed)
    BY <2>2 DEF Delivering, Looking
  <2> QED BY <2>2, <2>3 DEF RetryDisk
<1>2. ASSUME UNCHANGED writer PROVE FALSE
  BY <1>2
<1>3. ~(\E n \in Sizes : Add(n)) /\ ~SealDue /\ ~Close /\ ~DeadlinePasses /\ ~Spiller /\ ~Break /\ ~Repair
  BY <1>2 DEF Add, SealDue, Close, DeadlinePasses, Spiller, SpillerWakes, SpillerPicks, SpillerWrites, SpillerCommits,
              Break, Repair, writerVars
<1>4. ~Restart /\ ~Crash
  BY DEF Restart, Crash, Started, Looking
<1>5. ~Accept /\ ~TryLater /\ ~Refused /\ ~SecondTries /\ ~Delivered /\ ~Interrupted
  BY DEF Accept, TryLater, Refused, Trying, SecondTries, Delivered, Interrupted
<1>6. ~SpoolSeenEmpty /\ ~PersistWrites /\ ~PersistCommits /\ ~Supersede /\ ~Drain
  <2>1. writer \in WriterRec
    BY DEF IInv, Types, WriterType
  <2> QED BY <1>2, <2>1 DEF WriterRec, SpoolSeenEmpty, PersistWrites, PersistCommits, Supersede, Drain
<1>7. ~Retest /\ ~Judge /\ ~Isolate /\ ~Isolated /\ ~RetestStopped
  <2>1. writer \in WriterRec
    BY DEF IInv, Types, WriterType
  <2>2. ASSUME NEW groups, NEW bad, RoundEnds(groups, bad) PROVE FALSE
    BY <2>2 DEF RoundEnds, Ends, Looking
  <2> QED BY <1>2, <2>1, <2>2 DEF WriterRec, Retest, Judge, Isolate, Isolated, RetestStopped
<1> QED BY <1>1, <1>3, <1>4, <1>5, <1>6, <1>7 DEF Next, Writer

LEMMA OldestStep ==
    ASSUME IInv, Next, writer.phase # "deliver", writer'.phase = "deliver"
    PROVE  \A s \in spool' \cup {sealed'[i] : i \in DOMAIN sealed'} : Min(writer'.batch) <= Min(s)
<1>1. /\ spool \subseteq Group /\ sealed \in Seq(Group)
      /\ \A i \in DOMAIN sealed : sealed[i] \in Group
  BY SeqFacts DEF IInv, Types, DiskType, QueueType
<1>2. CASE NextSegment
  <2>1. spool # {} /\ writer'.batch = Oldest(spool) /\ spool' = spool /\ sealed' = sealed
    BY <1>2 DEF NextSegment, Delivering, Looking, queueVars
  <2>2. Oldest(spool) \in spool /\ \A g \in spool : Min(Oldest(spool)) <= Min(g)
    BY <1>1, <2>1, OldestFacts
  <2>3. ASSUME NEW i \in DOMAIN sealed PROVE Min(Oldest(spool)) <= Min(sealed[i])
    <3>1. Oldest(spool) \in Group /\ sealed[i] \in Group
      BY <1>1, <2>2
    <3>2. \A r \in Oldest(spool) : \A q \in sealed[i] : r < q
      BY <2>2 DEF IInv, Ages, Past
    <3> QED BY <3>1, <3>2, OlderFirst
  <2> QED BY <2>1, <2>2, <2>3
<1>3. CASE TakeMemory /\ spool = {} /\ sealed # <<>> /\ sealed' = Tail(sealed) /\ writer'.batch = Head(sealed)
  <2>1. spool' = {}
    BY <1>3 DEF TakeMemory, diskVars
  <2>2. /\ Len(sealed) \in Nat /\ Len(sealed) # 0 /\ DOMAIN sealed = 1..Len(sealed) /\ Head(sealed) = sealed[1]
        /\ Tail(sealed) \in Seq(Group) /\ Len(Tail(sealed)) = Len(sealed) - 1
        /\ \A i \in 1..Len(sealed) - 1 : Tail(sealed)[i] = sealed[i + 1]
    BY <1>1, <1>3, SeqFacts
  <2>3. DOMAIN Tail(sealed) = 1..Len(sealed) - 1
    BY <2>2, SeqFacts
  <2>4. ASSUME NEW i \in 1..Len(sealed) - 1 PROVE Min(Head(sealed)) <= Min(Tail(sealed)[i])
    <3>1. 1 \in DOMAIN sealed /\ i + 1 \in DOMAIN sealed /\ 1 < i + 1
      BY <2>2
    <3>2. \A q \in sealed[i + 1] : \A r \in sealed[1] : r < q
      BY <3>1 DEF IInv, Ages
    <3>3. sealed[1] \in Group /\ sealed[i + 1] \in Group
      BY <1>1, <3>1
    <3>4. Min(sealed[1]) <= Min(sealed[i + 1])
      BY <3>2, <3>3, OlderFirst
    <3> QED BY <2>2, <3>4
  <2> QED BY <1>3, <2>1, <2>3, <2>4
<1> QED BY <1>2, <1>3, OldestNext

(* The writer takes the oldest batch there is, a segment or one in memory, *)
(* whatever the spiller moved to disk between its two looks at the spool.  *)
THEOREM OldestTaken == Spec => NextIsOldest
<1>1. IInv /\ [Next]_vars
      => [writer.phase # "deliver" /\ writer'.phase = "deliver"
          => \A s \in spool' \cup {sealed'[i] : i \in DOMAIN sealed'} : Min(writer'.batch) <= Min(s)]_vars
  BY OldestStep
<1> QED BY <1>1, Inductive, PTL DEF Spec, NextIsOldest

-----------------------------------------------------------------------------
(* Everything that left the queue, or waits in it, was received. *)
LEMMA Received ==
    ASSUME IInv
    PROVE  /\ taken \in Nat /\ Past \subseteq 1..taken /\ Rows(sealed) \subseteq 1..taken
           /\ writer.phase \in {"end", "commit"} /\ keep # <<>> /\ keep[1].do = "write" => keep[1].rows \subseteq 1..taken
<1>1. PICK t \in Nat, p \in Nat : t = taken /\ p = pending /\ p <= t
  <2>1. taken \in Nat /\ pending \in Nat /\ pending <= taken
    BY Sizings, FlowAssumption DEF IInv, Types, QueueType
  <2> QED BY <2>1
<1>2. ASSUME NEW r \in Row, r <= t - p PROVE r \in 1..t
  BY <1>1, <1>2 DEF Row
<1>3. Past \subseteq 1..t
  <2>1. \A r \in Past : r \in Row /\ r <= t - p
    BY <1>1, PastRows DEF IInv, Ages
  <2> QED BY <1>2, <2>1
<1>4. Rows(sealed) \subseteq 1..t
  <2>1. \A i \in DOMAIN sealed : sealed[i] \in SUBSET Row
    BY SeqFacts, RowSets DEF IInv, Types, QueueType
  <2>2. \A r \in Rows(sealed) : r \in Row /\ r <= t - p
    BY <1>1, <2>1, RowsOf DEF IInv, Ages
  <2> QED BY <1>2, <2>2
<1>5. ASSUME writer.phase \in {"end", "commit"}, keep # <<>>, keep[1].do = "write" PROVE keep[1].rows \subseteq Past
  <2>1. Line = Chores
    BY <1>5 DEF Line
  <2>2. keep \in Seq(Chore)
    BY HandsFacts DEF IInv, Types
  <2>3. Len(keep) \in Nat /\ Len(keep) # 0
    BY <1>5, <2>2, SeqFacts
  <2>4. 1 \in 1..Len(keep)
    BY <2>3
  <2>5. 1 \in DOMAIN ChoresOf(keep) /\ ChoresOf(keep)[1] = keep[1].rows
    BY <1>5, <2>2, <2>4, ChoreFacts
  <2> QED BY <2>1, <2>5, RowsOf DEF Past, Chores
<1> QED BY <1>1, <1>3, <1>4, <1>5

LEMMA FiledStep ==
    ASSUME IInv, Filed, [Next]_vars
    PROVE  Filed'
<1>1. taken \in Nat /\ Rows(sealed) \subseteq 1..taken
  BY Received
<1>2. spiller \in [phase : {"idle", "look", "write", "commit"}, batch : Group \cup {{}}, wake : BOOLEAN]
  BY DEF IInv, Types, SpillerType
<1>3. CASE \E n \in Sizes : Add(n)
  <2>1. PICK n \in Sizes : Add(n)
    BY <1>3
  <2>2. n \in Nat /\ taken' = taken + n /\ temps' = temps
    BY <2>1, Sizings, FlowAssumption DEF Add, diskVars
  <2>3. PICK wake : spiller' = [spiller EXCEPT !.wake = wake]
    BY <2>1 DEF Add
  <2>4. spiller'.batch = spiller.batch
    BY <1>2, <2>3
  <2>5. 1..taken \subseteq 1..taken'
    BY <1>1, <2>2
  <2> QED BY <2>2, <2>4, <2>5 DEF Filed, Filing
<1>4. CASE SpillerWakes \/ SpillerPicks \/ SpillerWrites
  <2>1. taken' = taken
    BY <1>4 DEF SpillerWakes, SpillerPicks, SpillerWrites, queueVars
  <2>2. sealed # <<>> => Head(sealed) \subseteq Rows(sealed)
    <3>1. ASSUME sealed # <<>> PROVE 1 \in DOMAIN sealed /\ Head(sealed) = sealed[1]
      <4>1. sealed \in Seq(Group)
        BY DEF IInv, Types, QueueType
      <4>2. Len(sealed) \in Nat /\ Len(sealed) # 0 /\ DOMAIN sealed = 1..Len(sealed) /\ Head(sealed) = sealed[1]
        BY <3>1, <4>1, SeqFacts
      <4> QED BY <4>2
    <3> QED BY <3>1, RowsOf
  <2>3. CASE SpillerWakes
    BY <1>2, <2>1, <2>3 DEF SpillerWakes, Filed, Filing, diskVars
  <2>4. CASE SpillerPicks
    <3>1. spiller'.batch = {} \/ (sealed # <<>> /\ spiller'.batch = Head(sealed))
      BY <1>2, <2>4 DEF SpillerPicks
    <3>2. temps' = temps
      BY <2>4 DEF SpillerPicks, diskVars
    <3> QED BY <1>1, <2>1, <2>2, <3>1, <3>2 DEF Filed, Filing
  <2>5. CASE SpillerWrites
    BY <1>2, <2>1, <2>5 DEF SpillerWrites, Filed, Filing
  <2> QED BY <1>4, <2>3, <2>4, <2>5
<1>5. CASE SpillerCommits
  <2>1. taken' = taken /\ spiller'.batch = {} /\ temps' = temps \ {spiller.batch}
    BY <1>2, <1>5 DEF SpillerCommits, Commits
  <2> QED BY <2>1 DEF Filed, Filing
<1>6. CASE PersistWrites \/ PersistCommits
  <2>1. taken' = taken /\ spiller' = spiller
    BY <1>6 DEF PersistWrites, PersistCommits, queueVars
  <2>2. CASE PersistWrites
    <3>1. keep[1].rows \subseteq 1..taken
      BY <2>2, Received DEF PersistWrites
    <3>2. temps' = temps \cup {keep[1].rows} \/ temps' = temps
      BY <2>2 DEF PersistWrites
    <3> QED BY <2>1, <3>1, <3>2 DEF Filed, Filing
  <2>3. CASE PersistCommits
    <3>1. temps' = temps \ {keep[1].rows}
      BY <2>3 DEF PersistCommits, Commits
    <3> QED BY <2>1, <3>1 DEF Filed, Filing
  <2> QED BY <1>6, <2>2, <2>3
<1>7. CASE Restart \/ Crash
  <2>1. taken' = taken /\ temps' = {} /\ spiller'.batch = {}
    BY <1>7 DEF Restart, Crash, Started, NotSpilling
  <2> QED BY <2>1 DEF Filed, Filing
<1>8. ASSUME UNCHANGED <<taken, temps, spiller>> PROVE Filed'
  BY <1>8 DEF Filed, Filing
<1>9. CASE SealDue \/ Close \/ DeadlinePasses \/ Break \/ Repair \/ UNCHANGED vars
  BY <1>8, <1>9 DEF SealDue, Close, DeadlinePasses, Break, Repair, vars, queueVars, diskVars
<1>10. CASE NextSegment \/ SpoolSeenEmpty \/ TakeMemory
  BY <1>8, <1>10 DEF NextSegment, SpoolSeenEmpty, TakeMemory, queueVars, diskVars
<1>11. CASE Accept \/ TryLater \/ Refused \/ SecondTries \/ Delivered \/ Interrupted
  BY <1>8, <1>11 DEF Accept, TryLater, Refused, Trying, SecondTries, Delivered, Interrupted, queueVars
<1>12. CASE Retest \/ Judge \/ Isolate \/ Isolated \/ RetestStopped
  <2>1. CASE Retest
    BY <1>8, <2>1 DEF Retest, Retested, queueVars, diskVars
  <2>2. CASE Isolate
    BY <1>8, <2>2 DEF Isolate, Retested, queueVars, diskVars
  <2>3. CASE Judge \/ Isolated \/ RetestStopped
    BY <1>8, <2>3 DEF Judge, Isolated, RetestStopped, queueVars, diskVars
  <2> QED BY <1>12, <2>1, <2>2, <2>3
<1>13. CASE Supersede \/ Drain
  BY <1>8, <1>13 DEF Supersede, Drain, queueVars, diskVars
<1> QED BY <1>3, <1>4, <1>5, <1>6, <1>7, <1>9, <1>10, <1>11, <1>12, <1>13 DEF Next, Spiller, Writer

LEMMA TypesHold == IInv /\ Filed => TypeOK
<1> SUFFICES ASSUME IInv, Filed PROVE TypeOK
  OBVIOUS
<1>1. taken \in Nat /\ Past \subseteq 1..taken /\ Rows(sealed) \subseteq 1..taken
  BY Received
<1>2. Rows(held) \cup Rows(Groups(writer.parts)) \cup Rows(Groups(writer.suspects)) \cup Rows(Groups(retest.work))
      \subseteq Rows(Line)
  <2>1. Rows(<<>>) = {} /\ Rows(Groups(<<>>)) = {}
    <3>1. DOMAIN <<>> = {} /\ DOMAIN Groups(<<>>) = {}
      BY NoGroups
    <3> QED BY <3>1, RowsOf
  <2>2. /\ writer.phase # "deliver" => writer.parts = <<>> /\ writer.suspects = <<>>
        /\ writer.phase # "isolate" => retest.work = <<>>
        /\ writer.phase \notin {"look", "take", "deliver"} => held = <<>>
    BY DEF IInv, Phases
  <2> QED BY <2>1, <2>2, LineRows DEF IInv
<1>3. Rows(Line) \cup (UNION spool) \cup (UNION landed) \cup (UNION temps) \subseteq 1..taken
  BY <1>1 DEF Past, Filed, Filing
<1>4. /\ writer.parts \in Seq(Piece) /\ writer.suspects \in Seq(Piece) /\ held \in Seq(Group)
      /\ retest.work \in Seq(Piece) /\ sealed \in Seq(Group)
      /\ writer.phase \in {"look", "take", "deliver", "retest", "isolate", "end", "commit", "done"}
  BY HandsFacts DEF IInv, Types, QueueType
<1>5. ASSUME NEW s \in Seq(Group), Rows(s) \subseteq 1..taken, NEW i \in DOMAIN s
      PROVE  s[i] \in (SUBSET (1..taken)) \ {{}}
  <2>1. s[i] \in Group
    BY SeqFacts
  <2>2. s[i] \subseteq 1..taken
    BY <1>5, RowsOf
  <2> QED BY <2>1, <2>2 DEF Group
<1>6. ASSUME NEW s \in Seq(Piece), Rows(Groups(s)) \subseteq 1..taken, NEW i \in DOMAIN s
      PROVE  s[i] \in [rows : SUBSET (1..taken), fails : 0..2, retested : BOOLEAN]
  <2>1. s[i] \in Piece
    BY SeqFacts
  <2>2. s[i].rows \subseteq 1..taken
    <3>1. i \in DOMAIN Groups(s) /\ Groups(s)[i] = s[i].rows
      BY DEF Groups
    <3> QED BY <1>6, <3>1, RowsOf
  <2> QED BY <2>1, <2>2 DEF Piece
<1>7. /\ \A i \in DOMAIN sealed : sealed[i] \in (SUBSET (1..taken)) \ {{}}
      /\ \A i \in DOMAIN held : held[i] \in (SUBSET (1..taken)) \ {{}}
  BY <1>1, <1>2, <1>3, <1>4, <1>5
<1>8. /\ \A i \in DOMAIN writer.parts :
           writer.parts[i] \in [rows : SUBSET (1..taken), fails : 0..2, retested : BOOLEAN]
      /\ \A i \in DOMAIN writer.suspects :
           writer.suspects[i] \in [rows : SUBSET (1..taken), fails : 0..2, retested : BOOLEAN]
      /\ \A i \in DOMAIN retest.work :
           retest.work[i] \in [rows : SUBSET (1..taken), fails : 0..2, retested : BOOLEAN]
  BY <1>2, <1>3, <1>4, <1>6
<1>9. spool \cup temps \cup landed \subseteq (SUBSET (1..taken)) \ {{}}
  <2>1. spool \cup temps \cup landed \subseteq Group
    BY DEF IInv, Types, DiskType
  <2> QED BY <1>3, <2>1 DEF Group
<1>10. /\ taken \in 0..MaxRows /\ pending \in 0..(BatchSize - 1) /\ closed \in BOOLEAN /\ stop \in BOOLEAN
       /\ inflight \in spool \cup {{}} /\ broken \in BOOLEAN /\ spiller.phase \in {"idle", "look", "write", "commit"}
  BY DEF IInv, Types, QueueType, DiskType, SpillerType
<1> QED BY <1>4, <1>7, <1>8, <1>9, <1>10, Zenon DEF TypeOK

(* Every variable keeps its type: what is in memory, on disk or stored is  *)
(* made of rows that were received, and every part counts its failures.    *)
THEOREM TypeCorrect == Spec => []TypeOK
<1>1. Init => Filed
  BY DEF Init, Filed, Filing, NotSpilling
<1>2. IInv /\ Filed /\ [Next]_vars => Filed'
  BY FiledStep
<1>3. Spec => []Filed
  BY <1>1, <1>2, Inductive, PTL DEF Spec
<1> QED BY <1>3, Inductive, TypesHold, PTL
=============================================================================
