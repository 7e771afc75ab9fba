------------------------ MODULE SensorDelivery_proofs ------------------------
(***************************************************************************)
(* Proofs about the result spool of a sensor and about its delivery to the *)
(* controller: modules SensorSpool and SensorDelivery.                     *)
(***************************************************************************)
EXTENDS SensorDelivery, FiniteSetTheorems, TLAPS

(***************************************************************************)
(* The replay of the control log, frame by frame.                          *)
(***************************************************************************)
Blank == [dead |-> {}, dropped |-> 0, inflight |-> {}, sequence |-> 0]

Replays(state, log) ==
    state = [i \in 0..Len(log) |-> IF i = 0 THEN Blank ELSE ApplyControlEvent(state[i - 1], log[i])]

(* The states after each frame of a log exist.                             *)
LEMMA ReplayExists ==
    ASSUME NEW S, NEW log \in Seq(S)
    PROVE  \E state : Replays(state, log)
<1> DEFINE Upto(k) == \E state : state = [i \in 0..k |-> IF i = 0 THEN Blank
                                                         ELSE ApplyControlEvent(state[i - 1], log[i])]
           less == {p \in Nat \X Nat : p[1] < p[2]}
           bad == {k \in Nat : ~Upto(k)}
<1>1. IsWellFoundedOn(less, Nat)
  BY NatLessThanWellFounded DEF OpToRel
<1>2. SUFFICES ASSUME bad # {} PROVE FALSE
  <2>1. Len(log) \in Nat
    OBVIOUS
  <2>2. Upto(Len(log))
    BY <1>2, <2>1
  <2> QED BY <2>2 DEF Replays
<1>3. PICK k \in bad : \A j \in bad : ~(<<j, k>> \in less)
  <2> HIDE DEF less, bad
  <2>1. bad \subseteq Nat
    BY DEF bad
  <2> QED BY <1>1, <1>2, <2>1, WFMin
<1>4. Upto(0)
  <2> DEFINE s == [i \in 0..0 |-> Blank]
  <2>1. s = [i \in 0..0 |-> IF i = 0 THEN Blank ELSE ApplyControlEvent(s[i - 1], log[i])]
    OBVIOUS
  <2> QED BY <2>1
<1>5. k \in Nat /\ ~Upto(k) /\ k # 0
  BY <1>4
<1>6. k - 1 \in Nat /\ <<k - 1, k>> \in less
  BY <1>5
<1>7. Upto(k - 1)
  BY <1>3, <1>6
<1>8. PICK s : s = [i \in 0..(k - 1) |-> IF i = 0 THEN Blank ELSE ApplyControlEvent(s[i - 1], log[i])]
  BY <1>7
<1> DEFINE t == [i \in 0..k |-> IF i = k THEN ApplyControlEvent(s[k - 1], log[k]) ELSE s[i]]
<1>9. ASSUME NEW i \in 0..k
      PROVE  t[i] = IF i = 0 THEN Blank ELSE ApplyControlEvent(t[i - 1], log[i])
  <2>1. CASE i = k
    <3>1. t[k - 1] = s[k - 1]
      BY <1>5
    <3> QED BY <2>1, <3>1, <1>5
  <2>2. CASE i # k /\ i # 0
    <3>1. i \in 0..(k - 1) /\ i - 1 \in 0..k /\ i - 1 # k
      BY <2>2, <1>5
    <3>2. t[i] = s[i] /\ t[i - 1] = s[i - 1]
      BY <3>1, <2>2
    <3>3. s[i] = IF i = 0 THEN Blank ELSE ApplyControlEvent(s[i - 1], log[i])
      BY <1>8, <3>1
    <3> QED BY <3>2, <3>3
  <2>3. CASE i = 0
    BY <2>3, <1>5, <1>8
  <2> QED BY <2>1, <2>2, <2>3
<1>10. t = [i \in 0..k |-> IF i = 0 THEN Blank ELSE ApplyControlEvent(t[i - 1], log[i])]
  <2> DEFINE u == [i \in 0..k |-> IF i = 0 THEN Blank ELSE ApplyControlEvent(t[i - 1], log[i])]
  <2>1. \A i \in 0..k : t[i] = u[i]
    BY <1>9
  <2> QED BY <2>1
<1> QED BY <1>5, <1>10

(* What the log says is what its last frame makes of the frames before it. *)
LEMMA ReplayStep ==
    ASSUME NEW S, NEW log \in Seq(S), NEW e \in S
    PROVE  Replayed(Append(log, e)) = ApplyControlEvent(Replayed(log), e)
<1> DEFINE longer == Append(log, e)
           n == Len(log)
<1>1. /\ longer \in Seq(S) /\ n \in Nat /\ Len(longer) = n + 1
      /\ longer[n + 1] = e /\ \A i \in 1..n : longer[i] = log[i]
  OBVIOUS
<1>2. PICK f : Replays(f, log) /\ Replayed(log) = f[n]
  BY ReplayExists DEF Replayed, Replays, Blank
<1>3. PICK g : Replays(g, longer) /\ Replayed(longer) = g[n + 1]
  <2>1. \E state : Replays(state, longer)
    BY ReplayExists, <1>1
  <2> QED BY <2>1, <1>1 DEF Replayed, Replays, Blank
<1> HIDE DEF longer, n
<1>4. \A i \in 0..n : f[i] = IF i = 0 THEN Blank ELSE ApplyControlEvent(f[i - 1], log[i])
  BY <1>2 DEF Replays, n
<1>5. \A i \in 0..(n + 1) : g[i] = IF i = 0 THEN Blank ELSE ApplyControlEvent(g[i - 1], longer[i])
  BY <1>3, <1>1 DEF Replays
<1> DEFINE less == {p \in Nat \X Nat : p[1] < p[2]}
           bad == {k \in 0..n : f[k] # g[k]}
<1>6. bad = {}
  <2> SUFFICES ASSUME bad # {} PROVE FALSE
    OBVIOUS
  <2>1. IsWellFoundedOn(less, Nat)
    BY NatLessThanWellFounded DEF OpToRel
  <2>2. bad \subseteq Nat
    BY <1>1
  <2>3. PICK k \in bad : \A j \in bad : ~(<<j, k>> \in less)
    <3> HIDE DEF less, bad
    <3> QED BY <2>1, <2>2, WFMin
  <2>4. k \in 0..n /\ f[k] # g[k]
    OBVIOUS
  <2>5. k # 0
    BY <1>4, <1>5, <1>1, <2>4
  <2>6. k - 1 \in 0..n /\ <<k - 1, k>> \in less
    BY <2>4, <2>5, <1>1
  <2>7. f[k - 1] = g[k - 1]
    BY <2>3, <2>6
  <2>8. log[k] = longer[k]
    BY <1>1, <2>4, <2>5
  <2>9. f[k] = ApplyControlEvent(f[k - 1], log[k])
    BY <1>4, <2>4, <2>5
  <2>10. g[k] = ApplyControlEvent(g[k - 1], longer[k])
    BY <1>5, <2>4, <2>5, <1>1
  <2> QED BY <2>4, <2>7, <2>8, <2>9, <2>10
<1>7. f[n] = g[n]
  BY <1>6, <1>1
<1>8. g[n + 1] = ApplyControlEvent(g[n], e)
  BY <1>5, <1>1
<1> QED BY <1>2, <1>3, <1>7, <1>8 DEF longer

LEMMA ReplayOfNothing == Replayed(<<>>) = Blank
<1>1. PICK f : Replays(f, <<>>) /\ Replayed(<<>>) = f[0]
  <2>1. <<>> \in Seq({}) /\ Len(<<>>) = 0
    OBVIOUS
  <2>2. \E state : Replays(state, <<>>)
    BY ReplayExists, <2>1
  <2> QED BY <2>1, <2>2 DEF Replayed, Replays, Blank
<1> QED BY <1>1 DEF Replays

LEMMA ReplayOfOne ==
    ASSUME NEW e
    PROVE  Replayed(<<e>>) = ApplyControlEvent(Blank, e)
<1>1. <<>> \in Seq({e}) /\ e \in {e} /\ Append(<<>>, e) = <<e>>
  OBVIOUS
<1> QED BY <1>1, ReplayStep, ReplayOfNothing

-----------------------------------------------------------------------------
(***************************************************************************)
(* What holds of the directory at every durable write: f are its segments, *)
(* r those a crash may bring back, R what the control log says, E the      *)
(* results that entered and A those acknowledged.                          *)
(***************************************************************************)
Left(f, R) == Found(f) \ R.dead

(* Segments hold distinct results, and the one each is named for; what a   *)
(* crash brings back is dead.                                              *)
Segments(f, r, R, E) ==
    /\ \A s \in DOMAIN f : s \in f[s] /\ f[s] \subseteq E
    /\ \A s \in DOMAIN r : s \in r[s] /\ r[s] \subseteq E /\ r[s] \subseteq R.dead
    /\ \A s, t \in DOMAIN f : s # t => f[s] \cap f[t] = {}
    /\ \A s, t \in DOMAIN r : s # t => r[s] \cap r[t] = {}
    /\ \A s \in DOMAIN f, t \in DOMAIN r : f[s] \cap r[t] = {}

(* The log, or else a segment, knows the number of every result.           *)
Numbers(f, R, E) ==
    /\ E \subseteq Records /\ R.dead \subseteq E
    /\ R.sequence \in 0..MaxRecords /\ R.dead \subseteq 1..R.sequence
    /\ E \subseteq (1..R.sequence) \cup Found(f)

Whole(f, R, batch) == batch # {} => \E s \in DOMAIN f : batch \subseteq f[s] \ R.dead

Counted(f, R, E, A) ==
    /\ A \subseteq E /\ Left(f, R) \cap A = {}
    /\ R.dropped = Cardinality(E \ (Left(f, R) \cup A))

Directory(f, r, R, E, A) ==
    Segments(f, r, R, E) /\ Numbers(f, R, E) /\ Whole(f, R, R.inflight) /\ Counted(f, R, E, A)

LEMMA InFound ==
    ASSUME NEW f, NEW n
    PROVE  n \in Found(f) <=> \E s \in DOMAIN f : n \in f[s]
BY DEF Found

LEMMA NothingFound ==
    /\ DOMAIN <<>> = {}
    /\ Found(<<>>) = {}
<1>1. DOMAIN <<>> = {}
  OBVIOUS
<1> QED BY <1>1 DEF Found

LEMMA RecordSets ==
    ASSUME NEW S, S \subseteq Records
    PROVE  IsFiniteSet(S) /\ Cardinality(S) \in Nat
<1>1. MaxRecords \in Nat
  BY SpoolAssumption
<1>2. IsFiniteSet(1..MaxRecords)
  BY <1>1, FS_Interval
<1> QED BY <1>2, FS_Subset, FS_CardinalityType DEF Records

LEMMA OneMore ==
    ASSUME NEW S, S \subseteq Records, NEW T, T \subseteq Records, S \cap T = {}
    PROVE  Cardinality(S \cup T) = Cardinality(S) + Cardinality(T)
<1>1. IsFiniteSet(S) /\ IsFiniteSet(T) /\ Cardinality(S) \in Nat /\ Cardinality(T) \in Nat
  BY RecordSets
<1>2. Cardinality(S \cap T) = 0
  BY FS_EmptySet
<1>3. Cardinality(S \cup T) = Cardinality(S) + Cardinality(T) - Cardinality(S \cap T)
  BY <1>1, FS_Union
<1> QED BY <1>1, <1>2, <1>3

LEMMA LeftIsIn ==
    ASSUME NEW f, NEW r, NEW R, NEW E, Segments(f, r, R, E)
    PROVE  Found(f) \subseteq E /\ Left(f, R) \subseteq E
BY InFound DEF Segments, Left

(* Results end, or a batch is frozen: nothing but the log changes.         *)
LEMMA EndingKeeps ==
    ASSUME NEW f, NEW r, NEW R, NEW E, NEW A, Directory(f, r, R, E, A),
           NEW refs, refs \subseteq Left(f, R),
           NEW R2, NEW A2,
           R2.dead = R.dead \cup refs,
           R2.sequence \in R.sequence..MaxRecords, Found(f) \subseteq 1..R2.sequence,
           Whole(f, R2, R2.inflight),
           \/ A2 = A /\ R2.dropped = R.dropped + Cardinality(refs)
           \/ A2 = A \cup refs /\ R2.dropped = R.dropped
    PROVE  Directory(f, r, R2, E, A2)
<1> USE DEF Directory
<1>0. MaxRecords \in Nat /\ R.sequence \in 0..MaxRecords
  BY SpoolAssumption DEF Numbers
<1>1. Found(f) \subseteq E /\ Left(f, R) \subseteq E
  BY LeftIsIn
<1>2. Segments(f, r, R2, E)
  BY DEF Segments
<1>3. Numbers(f, R2, E)
  <2>1. R2.dead \subseteq E /\ R2.sequence \in 0..MaxRecords
    BY <1>0, <1>1 DEF Numbers
  <2>2. R2.dead \subseteq 1..R2.sequence
    BY <1>0 DEF Numbers, Left
  <2>3. E \subseteq (1..R2.sequence) \cup Found(f)
    BY <1>0 DEF Numbers
  <2> QED BY <2>1, <2>2, <2>3 DEF Numbers
<1>4. Counted(f, R2, E, A2)
  <2> DEFINE lost == E \ (Left(f, R) \cup A)
             now == E \ (Left(f, R2) \cup A2)
  <2>1. Left(f, R2) = Left(f, R) \ refs
    BY DEF Left
  <2>2. A2 \subseteq E /\ Left(f, R2) \cap A2 = {}
    BY <2>1, <1>1 DEF Counted
  <2>3. CASE A2 = A \cup refs /\ R2.dropped = R.dropped
    <3>1. now = lost
      BY <2>1, <2>3
    <3> QED BY <2>2, <2>3, <3>1 DEF Counted
  <2>4. CASE A2 = A /\ R2.dropped = R.dropped + Cardinality(refs)
    <3>1. refs \cap A = {} /\ refs \subseteq E
      BY <1>1 DEF Counted
    <3>2. now = lost \cup refs /\ lost \cap refs = {}
      BY <2>1, <2>4, <3>1
    <3>3. lost \subseteq Records /\ refs \subseteq Records
      BY <3>1 DEF Numbers
    <3>4. Cardinality(lost \cup refs) = Cardinality(lost) + Cardinality(refs)
      BY <3>2, <3>3, OneMore
    <3> QED BY <2>2, <2>4, <3>2, <3>4 DEF Counted
  <2> QED BY <2>3, <2>4
<1> QED BY <1>2, <1>3, <1>4

(* A snapshot replaces the log, and syncs the directory.                   *)
LEMMA SnapshotKeeps ==
    ASSUME NEW f, NEW r, NEW R, NEW E, NEW A, Directory(f, r, R, E, A),
           NEW R2, R2.dead = Found(f) \ Left(f, R), R2.dropped = R.dropped, R2.inflight = R.inflight,
           R2.sequence \in R.sequence..MaxRecords, Found(f) \subseteq 1..R2.sequence
    PROVE  Directory(f, <<>>, R2, E, A)
<1> USE DEF Directory
<1>0. MaxRecords \in Nat /\ R.sequence \in 0..MaxRecords
  BY SpoolAssumption DEF Numbers
<1>1. Found(f) \subseteq E /\ Left(f, R) \subseteq E
  BY LeftIsIn
<1>2. Left(f, R2) = Left(f, R)
  BY DEF Left
<1>3. Segments(f, <<>>, R2, E)
  BY NothingFound DEF Segments
<1>4. Numbers(f, R2, E)
  BY <1>0, <1>1 DEF Numbers
<1>5. Whole(f, R2, R2.inflight)
  BY InFound DEF Whole, Left
<1>6. Counted(f, R2, E, A)
  BY <1>2 DEF Counted
<1> QED BY <1>3, <1>4, <1>5, <1>6

(* A result for which there is no room enters and is counted at once.      *)
LEMMA RejectingKeeps ==
    ASSUME NEW f, NEW r, NEW R, NEW E, NEW A, Directory(f, r, R, E, A),
           NEW n \in Records, n \notin E, R.sequence <= n,
           NEW R2, R2.dead = R.dead, R2.dropped = R.dropped + 1, R2.inflight = R.inflight, R2.sequence = n
    PROVE  Directory(f, r, R2, E \cup {n}, A)
<1> USE DEF Directory
<1>0. MaxRecords \in Nat /\ R.sequence \in 0..MaxRecords /\ n \in 1..MaxRecords
  BY SpoolAssumption DEF Numbers, Records
<1>1. Found(f) \subseteq E /\ Left(f, R) \subseteq E
  BY LeftIsIn
<1>2. Left(f, R2) = Left(f, R)
  BY DEF Left
<1>3. Segments(f, r, R2, E \cup {n})
  BY DEF Segments
<1>4. Numbers(f, R2, E \cup {n})
  BY <1>0 DEF Numbers
<1>5. Whole(f, R2, R2.inflight)
  BY DEF Whole
<1>6. Counted(f, R2, E \cup {n}, A)
  <2> DEFINE lost == E \ (Left(f, R) \cup A)
             now == (E \cup {n}) \ (Left(f, R2) \cup A)
  <2>1. A \subseteq E
    BY DEF Counted
  <2>2. now = lost \cup {n} /\ lost \cap {n} = {}
    BY <2>1, <1>1, <1>2
  <2>3. lost \subseteq Records /\ {n} \subseteq Records
    BY DEF Numbers
  <2>4. Cardinality(lost \cup {n}) = Cardinality(lost) + 1
    <3>1. Cardinality({n}) = 1
      BY FS_Singleton
    <3> HIDE DEF lost
    <3>2. Cardinality(lost \cup {n}) = Cardinality(lost) + Cardinality({n})
      BY <2>2, <2>3, OneMore
    <3> QED BY <3>1, <3>2
  <2> QED BY <1>2, <2>1, <2>2, <2>4 DEF Counted
<1> QED BY <1>3, <1>4, <1>5, <1>6

(* A new result is added to a segment, or starts one.                      *)
Extended(f, name, n, f2) ==
    /\ DOMAIN f2 = DOMAIN f \cup {name}
    /\ f2[name] = (IF name \in DOMAIN f THEN f[name] ELSE {}) \cup {n}
    /\ \A s \in DOMAIN f \ {name} : f2[s] = f[s]

LEMMA AppendingFinds ==
    ASSUME NEW f, NEW name, NEW n, NEW f2, Extended(f, name, n, f2), NEW R, n \notin R.dead
    PROVE  Left(f2, R) = Left(f, R) \cup {n} /\ Found(f2) = Found(f) \cup {n}
<1>1. Found(f2) = Found(f) \cup {n}
  BY InFound DEF Extended
<1> QED BY <1>1 DEF Left

LEMMA AppendingKeeps ==
    ASSUME NEW f, NEW r, NEW R, NEW E, NEW A, Directory(f, r, R, E, A),
           NEW n \in Records, n \notin E,
           NEW name \in DOMAIN f \cup {n},
           NEW f2, Extended(f, name, n, f2)
    PROVE  Directory(f2, r, R, E \cup {n}, A)
<1> USE DEF Directory, Extended
<1>1. Found(f) \subseteq E /\ Left(f, R) \subseteq E
  BY LeftIsIn
<1>2. Found(f2) = Found(f) \cup {n}
  BY InFound
<1>3. Left(f2, R) = Left(f, R) \cup {n}
  BY <1>2 DEF Left, Numbers
<1>4. Segments(f2, r, R, E \cup {n})
  <2>1. \A s \in DOMAIN f2 : s \in f2[s] /\ f2[s] \subseteq E \cup {n}
    BY DEF Segments
  <2>2. \A s, t \in DOMAIN f2 : s # t => f2[s] \cap f2[t] = {}
    BY DEF Segments
  <2>3. \A s \in DOMAIN f2, t \in DOMAIN r : f2[s] \cap r[t] = {}
    BY DEF Segments
  <2> QED BY <2>1, <2>2, <2>3 DEF Segments
<1>5. Numbers(f2, R, E \cup {n})
  BY <1>2 DEF Numbers
<1>6. Whole(f2, R, R.inflight)
  BY DEF Whole
<1>7. Counted(f2, R, E \cup {n}, A)
  <2>1. A \subseteq E /\ Left(f, R) \cap A = {}
    BY DEF Counted
  <2>2. (E \cup {n}) \ (Left(f2, R) \cup A) = E \ (Left(f, R) \cup A)
    BY <2>1, <1>1, <1>3
  <2>3. Left(f2, R) \cap A = {}
    BY <2>1, <1>3
  <2> QED BY <2>1, <2>2, <2>3 DEF Counted
<1> QED BY <1>2, <1>3, <1>4, <1>5, <1>6, <1>7

(* Segments without queued results are removed.                            *)
Moved(f, r, gone, f2, r2) ==
    /\ DOMAIN f2 = DOMAIN f \ gone /\ \A s \in DOMAIN f \ gone : f2[s] = f[s]
    /\ DOMAIN r2 = DOMAIN r \cup gone
    /\ \A s \in DOMAIN r2 : r2[s] = IF s \in gone THEN f[s] ELSE r[s]

LEMMA RemovingKeeps ==
    ASSUME NEW f, NEW r, NEW R, NEW E, NEW A, Directory(f, r, R, E, A),
           NEW gone, gone \subseteq DOMAIN f, \A s \in gone : f[s] \cap Left(f, R) = {},
           NEW f2, NEW r2, Moved(f, r, gone, f2, r2)
    PROVE  /\ Directory(f2, r2, R, E, A)
           /\ Left(f2, R) = Left(f, R) /\ Found(f2) \subseteq Found(f)
<1> USE DEF Directory, Moved
<1>1. \A s \in gone : f[s] \subseteq R.dead
  BY InFound DEF Left
<1>2. Left(f2, R) = Left(f, R)
  BY <1>1, InFound DEF Left
<1>3. Segments(f2, r2, R, E)
  BY <1>1 DEF Segments
<1>4. Numbers(f2, R, E)
  BY <1>1, InFound DEF Numbers
<1>5. Whole(f2, R, R.inflight)
  BY <1>1 DEF Whole
<1>6. Counted(f2, R, E, A)
  BY <1>2 DEF Counted
<1>7. Found(f2) \subseteq Found(f)
  BY InFound
<1> QED BY <1>2, <1>3, <1>4, <1>5, <1>6, <1>7

(* The directory is synced: no segment comes back. *)
LEMMA SyncKeeps ==
    ASSUME NEW f, NEW r, NEW R, NEW E, NEW A, Directory(f, r, R, E, A)
    PROVE  Directory(f, <<>>, R, E, A)
BY NothingFound DEF Directory, Segments

(* After a crash some removed segments are back.                           *)
Restored(f, r, back) == [s \in DOMAIN f \cup back |-> IF s \in back THEN r[s] ELSE f[s]]

LEMMA CrashingKeeps ==
    ASSUME NEW f, NEW r, NEW R, NEW E, NEW A, Directory(f, r, R, E, A),
           NEW back \in SUBSET DOMAIN r, NEW f2, f2 = Restored(f, r, back)
    PROVE  Directory(f2, <<>>, R, E, A) /\ Left(f2, R) = Left(f, R)
<1> USE DEF Directory, Restored
<1>1. \A s \in back : s \notin DOMAIN f
  BY DEF Segments
<1>2. /\ \A s \in DOMAIN f : s \in DOMAIN f2 /\ f2[s] = f[s]
      /\ \A s \in back : s \in DOMAIN f2 /\ f2[s] = r[s]
      /\ \A s \in DOMAIN f2 : s \in DOMAIN f \/ s \in back
  BY <1>1
<1> HIDE DEF Found
<1>3. \A n \in Found(f2) : n \in Found(f) \/ n \in R.dead
  BY <1>2, InFound DEF Segments
<1>4. Found(f) \subseteq Found(f2)
  BY <1>2, InFound
<1>5. Left(f2, R) = Left(f, R)
  BY <1>3, <1>4 DEF Left
<1>6. Segments(f2, <<>>, R, E)
  <2>1. \A s \in DOMAIN f2 : s \in f2[s] /\ f2[s] \subseteq E
    BY <1>2 DEF Segments
  <2>2. \A s, t \in DOMAIN f2 : s # t => f2[s] \cap f2[t] = {}
    BY <1>2 DEF Segments
  <2> QED BY <2>1, <2>2, NothingFound DEF Segments
<1>7. Numbers(f2, R, E)
  BY <1>4 DEF Numbers
<1>8. Whole(f2, R, R.inflight)
  BY <1>2 DEF Whole
<1>9. Counted(f2, R, E, A)
  BY <1>5 DEF Counted
<1> QED BY <1>5, <1>6, <1>7, <1>8, <1>9

-----------------------------------------------------------------------------
(***************************************************************************)
(* The inductive invariant: the directory is whole, an open spool holds in *)
(* memory what opening its directory would recover, and a call that has    *)
(* still to queue its result holds a number no result entered under.       *)
(***************************************************************************)
Ops == {"snapshot", "inflight", "ack", "poison", "drop"}
LogEvents ==
    [op : Ops, refs : SUBSET Records, batch : SUBSET Records, dropped : Nat, sequence : 0..MaxRecords]

Told == Replayed(control)

SpoolStates ==
    [phase : {"closed", "opening", "open"}, live : SUBSET Records, active : 0..MaxRecords,
     inflight : SUBSET Records, dropped : Nat, sequence : 0..MaxRecords]

MemoryShape ==
    /\ spool \in SpoolStates
    /\ spool.active # 0 => spool.active \in DOMAIN files
    /\ spool.phase = "closed" => spool.live = {}

Remembered ==
    spool.phase # "closed" =>
      /\ spool.live = Left(files, Told)
      /\ spool.inflight = Told.inflight /\ spool.dropped = Told.dropped
      /\ Told.sequence <= spool.sequence /\ Found(files) \subseteq 1..spool.sequence

CallShape(todo, size, n, E) ==
    /\ todo \in Seq(StepNames) /\ size \in Nat
    /\ \A i \in 1..Len(todo) :
         /\ todo[i] \in {"append", "return"} => i = Len(todo)
         /\ todo[i] = "reject" => todo = <<"reject", "compact">>
         /\ todo[i] = "reclaim" => i < Len(todo)
         /\ todo[i] \in {"append", "reject"} => size # 0
         /\ size # 0 /\ todo[i] \in {"capacity", "append", "reject"} => n \in Records /\ n \notin E

CallInv ==
    /\ call = [todo |-> call.todo, size |-> call.size]
    /\ CallShape(call.todo, call.size, spool.sequence, entered)

DiskInv == control \in Seq(LogEvents) /\ Directory(files, removed, Told, entered, acked)

SpoolInv == DiskInv /\ MemoryShape /\ Remembered /\ CallInv

-----------------------------------------------------------------------------
(***************************************************************************)
(* The steps of a call.                                                    *)
(***************************************************************************)
LEMMA NoCallShape ==
    ASSUME NEW n, NEW E
    PROVE  CallShape(<<>>, 0, n, E)
BY DEF CallShape

LEMMA LongTail ==
    ASSUME NEW S, NEW s \in Seq(S), Len(s) > 1
    PROVE  Tail(s) \in Seq(S) /\ Tail(s) # <<>>
<1>1. Tail(s) \in Seq(S) /\ Len(Tail(s)) = Len(s) - 1
  OBVIOUS
<1>2. Len(Tail(s)) # 0
  BY <1>1
<1>3. Len(<<>>) = 0
  OBVIOUS
<1> QED BY <1>1, <1>2, <1>3

LEMMA CallTail ==
    ASSUME NEW todo, NEW size, NEW n, NEW E, CallShape(todo, size, n, E), todo # <<>>
    PROVE  CallShape(Tail(todo), size, n, E)
<1>1. /\ Tail(todo) \in Seq(StepNames) /\ Len(Tail(todo)) = Len(todo) - 1
      /\ \A i \in 1..Len(Tail(todo)) : i + 1 \in 1..Len(todo) /\ Tail(todo)[i] = todo[i + 1]
  BY DEF CallShape
<1>2. ASSUME NEW i \in 1..Len(Tail(todo))
      PROVE  Tail(todo)[i] # "reject"
  <2>1. SUFFICES ASSUME todo[i + 1] = "reject" PROVE FALSE
    BY <1>1
  <2>2. todo = <<"reject", "compact">>
    BY <1>1, <2>1 DEF CallShape
  <2>3. i + 1 = 2
    BY <1>1, <2>2
  <2> QED BY <2>1, <2>2, <2>3
<1> DEFINE rest == Tail(todo)
<1>3. ASSUME NEW i \in 1..Len(rest)
      PROVE  /\ rest[i] \in {"append", "return"} => i = Len(rest)
             /\ rest[i] = "reclaim" => i < Len(rest)
             /\ rest[i] = "append" => size # 0
             /\ size # 0 /\ rest[i] \in {"capacity", "append"} => n \in Records /\ n \notin E
  <2> HIDE DEF rest
  <2>1. PICK j \in 1..Len(todo) : j = i + 1 /\ rest[i] = todo[j]
    BY <1>1 DEF rest
  <2>2. Len(rest) = Len(todo) - 1
    BY <1>1 DEF rest
  <2> QED BY <2>1, <2>2 DEF CallShape
<1>4. size \in Nat
  BY DEF CallShape
<1> HIDE DEF rest
<1>5. rest \in Seq(StepNames) /\ \A i \in 1..Len(rest) : rest[i] # "reject"
  BY <1>1, <1>2 DEF rest
<1>6. CallShape(rest, size, n, E)
  BY <1>3, <1>4, <1>5 DEF CallShape
<1> QED BY <1>6 DEF rest

LEMMA CallSkips ==
    ASSUME NEW todo, NEW size, NEW n, NEW E, CallShape(todo, size, n, E),
           todo # <<>>, Head(todo) = "reclaim"
    PROVE  CallShape(Tail(Tail(todo)), size, n, E)
<1>1. Len(todo) > 1
  BY DEF CallShape
<1>2. CallShape(Tail(todo), size, n, E)
  BY CallTail
<1>3. Tail(todo) # <<>>
  <2>1. todo \in Seq(StepNames)
    BY DEF CallShape
  <2> QED BY <1>1, <2>1, LongTail
<1> QED BY <1>2, <1>3, CallTail

(* What is left empty is cleaned up before the call goes on. *)
LEMMA CallCleansUp ==
    ASSUME NEW todo, NEW size, NEW n, NEW E, CallShape(todo, size, n, E),
           todo # <<>>, Head(todo) \in {"age", "capacity"}
    PROVE  CallShape(Cleanup \o todo, size, n, E)
<1> DEFINE longer == Cleanup \o todo
<1>1. /\ longer \in Seq(StepNames) /\ Len(todo) \in Nat \ {0} /\ Len(longer) = Len(todo) + 3
      /\ longer[1] = "reclaim" /\ longer[2] = "sync" /\ longer[3] = "compact"
      /\ \A i \in 1..Len(todo) : longer[i + 3] = todo[i]
  BY DEF CallShape, Cleanup, StepNames
<1>2. \A i \in 1..Len(todo) : todo[i] # "reject"
  BY DEF CallShape
<1>3. ASSUME NEW i \in 1..Len(longer)
      PROVE  /\ longer[i] \in {"append", "return"} => i = Len(longer)
             /\ longer[i] # "reject"
             /\ longer[i] = "reclaim" => i < Len(longer)
             /\ longer[i] = "append" => size # 0
             /\ size # 0 /\ longer[i] \in {"capacity", "append"} => n \in Records /\ n \notin E
  <2> HIDE DEF longer
  <2>1. CASE i \in 1..3
    BY <2>1, <1>1
  <2>2. CASE i \notin 1..3
    <3>1. PICK j \in 1..Len(todo) : j = i - 3
      BY <2>2, <1>1
    <3>2. longer[i] = todo[j]
      BY <3>1, <1>1
    <3> QED BY <3>1, <3>2, <1>1, <1>2 DEF CallShape
  <2> QED BY <2>1, <2>2
<1> HIDE DEF longer
<1>4. CallShape(longer, size, n, E)
  BY <1>1, <1>3 DEF CallShape
<1> QED BY <1>4 DEF longer

LEMMA CallShapes ==
    ASSUME NEW n, NEW E
    PROVE  /\ CallShape(Cleanup, 0, n, E)
           /\ CallShape(<<"compact">>, 0, n, E)
           /\ CallShape(Enforce \o <<"freeze", "compact", "return">>, 0, n, E)
           /\ CallShape(<<"reclaim", "sync", "select">> \o Enforce \o <<"compact", "return">>, 0, n, E)
           /\ \A size \in Nat : CallShape(<<"compact">>, size, n, E)
           /\ \A size \in Nat : CallShape(<<>>, size, n, E)
           /\ \A size \in Nat : size # 0 /\ n \in Records /\ n \notin E =>
                CallShape(Enforce \o <<"append">>, size, n, E) /\ CallShape(<<"reject", "compact">>, size, n, E)
<1>1. CallShape(Cleanup, 0, n, E)
  BY DEF CallShape, Cleanup, StepNames
<1>2. \A size \in Nat : CallShape(<<"compact">>, size, n, E)
  BY DEF CallShape, StepNames
<1>3. CallShape(Enforce \o <<"freeze", "compact", "return">>, 0, n, E)
  <2> DEFINE todo == Enforce \o <<"freeze", "compact", "return">>
  <2>1. /\ todo \in Seq(StepNames) /\ Len(todo) = 6
        /\ todo[1] = "age" /\ todo[2] = "compact" /\ todo[3] = "capacity"
        /\ todo[4] = "freeze" /\ todo[5] = "compact" /\ todo[6] = "return"
    BY DEF Enforce, StepNames
  <2> HIDE DEF todo
  <2>2. CallShape(todo, 0, n, E)
    BY <2>1 DEF CallShape
  <2> QED BY <2>2 DEF todo
<1>4. CallShape(<<"reclaim", "sync", "select">> \o Enforce \o <<"compact", "return">>, 0, n, E)
  <2> DEFINE todo == <<"reclaim", "sync", "select">> \o Enforce \o <<"compact", "return">>
  <2>1. /\ todo \in Seq(StepNames) /\ Len(todo) = 8
        /\ todo[1] = "reclaim" /\ todo[2] = "sync" /\ todo[3] = "select"
        /\ todo[4] = "age" /\ todo[5] = "compact" /\ todo[6] = "capacity"
        /\ todo[7] = "compact" /\ todo[8] = "return"
    BY DEF Enforce, StepNames
  <2> HIDE DEF todo
  <2>2. CallShape(todo, 0, n, E)
    BY <2>1 DEF CallShape
  <2> QED BY <2>2 DEF todo
<1>5. ASSUME NEW size \in Nat, size # 0, n \in Records, n \notin E
      PROVE  CallShape(Enforce \o <<"append">>, size, n, E) /\ CallShape(<<"reject", "compact">>, size, n, E)
  <2> DEFINE todo == Enforce \o <<"append">>
  <2>1. /\ todo \in Seq(StepNames) /\ Len(todo) = 4
        /\ todo[1] = "age" /\ todo[2] = "compact" /\ todo[3] = "capacity" /\ todo[4] = "append"
    BY DEF Enforce, StepNames
  <2> HIDE DEF todo
  <2>2. CallShape(todo, size, n, E)
    BY <1>5, <2>1 DEF CallShape
  <2>3. CallShape(<<"reject", "compact">>, size, n, E)
    BY <1>5 DEF CallShape, StepNames
  <2> QED BY <2>2, <2>3 DEF todo
<1>6. \A size \in Nat : CallShape(<<>>, size, n, E)
  BY DEF CallShape
<1> QED BY <1>1, <1>2, <1>3, <1>4, <1>5, <1>6

-----------------------------------------------------------------------------
(***************************************************************************)
(* Each action keeps the invariant.                                        *)
(***************************************************************************)
LEMMA InvFacts ==
    ASSUME SpoolInv
    PROVE  /\ Found(files) \subseteq entered /\ entered \subseteq Records /\ Told.dropped \in Nat
           /\ MaxRecords \in Nat /\ spool.sequence \in 0..MaxRecords /\ spool.active \in 0..MaxRecords
           /\ Told.sequence \in 0..MaxRecords
           /\ spool.dropped \in Nat /\ spool.live \subseteq Records /\ spool.inflight \subseteq Records
<1>1. Directory(files, removed, Told, entered, acked) /\ spool \in SpoolStates
  BY DEF SpoolInv, DiskInv, MemoryShape
<1>2. Found(files) \subseteq entered
  BY <1>1, LeftIsIn DEF Directory
<1>3. entered \subseteq Records /\ Told.sequence \in 0..MaxRecords
  BY <1>1 DEF Directory, Numbers
<1>4. entered \ (Left(files, Told) \cup acked) \subseteq Records
  BY <1>3
<1>5. Told.dropped \in Nat
  <2> DEFINE lost == entered \ (Left(files, Told) \cup acked)
  <2>1. Told.dropped = Cardinality(lost)
    BY <1>1 DEF Directory, Counted
  <2>2. Cardinality(lost) \in Nat
    BY <1>4, RecordSets
  <2> QED BY <2>1, <2>2
<1>6. MaxRecords \in Nat
  BY SpoolAssumption
<1> QED BY <1>1, <1>2, <1>3, <1>5, <1>6 DEF SpoolStates

(* An event is logged after the others. *)
LEMMA Logged ==
    ASSUME control \in Seq(LogEvents), NEW event \in LogEvents, control' = Append(control, event)
    PROVE  control' \in Seq(LogEvents) /\ Told' = ApplyControlEvent(Told, event)
<1>1. Told' = Replayed(control')
  BY DEF Told
<1>2. Replayed(Append(control, event)) = ApplyControlEvent(Replayed(control), event)
  BY ReplayStep
<1> QED BY <1>1, <1>2 DEF Told

LEMMA MaxOfTwo ==
    ASSUME NEW a \in Int, NEW b \in Int, a <= b
    PROVE  Max({a, b}) = b
BY DEF Max

(* A drop, an acknowledgement, a rejection or a manifest, on the disk and  *)
(* in memory at once.                                                      *)
LEMMA LoggingKeeps ==
    ASSUME SpoolInv, spool.phase # "closed",
           NEW op \in Ops \ {"snapshot"}, NEW refs, refs \subseteq spool.live,
           NEW batch, batch \subseteq Records, NEW dropped \in Nat,
           control' = Append(control, Event(op, refs, batch, dropped)),
           files' = files, removed' = removed, entered' = entered,
           spool' \in SpoolStates, spool'.phase = spool.phase, spool'.sequence = spool.sequence,
           spool'.active \in {0, spool.active}, spool'.live = spool.live \ refs,
           spool'.dropped = spool.dropped + dropped,
           spool'.inflight = CASE op = "inflight" -> batch
                               [] op \in {"ack", "poison"} /\ batch = spool.inflight -> {}
                               [] OTHER -> spool.inflight,
           spool'.inflight # {} => \E s \in DOMAIN files : spool'.inflight \subseteq files[s] \cap spool'.live,
           \/ acked' = acked /\ dropped = Cardinality(refs)
           \/ acked' = acked \cup refs /\ dropped = 0
    PROVE  (DiskInv /\ MemoryShape /\ Remembered)'
<1> DEFINE R == Told
           event == Event(op, refs, batch, dropped)
<1>1. /\ control \in Seq(LogEvents) /\ Directory(files, removed, R, entered, acked)
      /\ spool.live = Left(files, R) /\ spool.inflight = R.inflight /\ spool.dropped = R.dropped
      /\ R.sequence <= spool.sequence /\ Found(files) \subseteq 1..spool.sequence
  BY DEF SpoolInv, DiskInv, Remembered
<1>2. /\ R.dropped \in Nat /\ MaxRecords \in Nat /\ spool.sequence \in 0..MaxRecords
      /\ R.sequence \in 0..MaxRecords /\ spool.live \subseteq Records
  BY InvFacts
<1>3. event \in LogEvents
  BY <1>2 DEF Event, LogEvents, Ops
<1>4. control' \in Seq(LogEvents) /\ Told' = ApplyControlEvent(R, event)
  BY <1>1, <1>3, Logged
<1>5. /\ Told'.dead = R.dead \cup refs /\ Told'.dropped = R.dropped + dropped
      /\ Told'.inflight = spool'.inflight /\ Told'.sequence = spool.sequence
  <2>1. Max({R.sequence, spool.sequence}) = spool.sequence
    <3> HIDE DEF R, event
    <3>1. R.sequence \in Int /\ spool.sequence \in Int /\ R.sequence <= spool.sequence
      BY <1>1, <1>2
    <3> QED BY <3>1, MaxOfTwo
  <2>2. /\ event.op = op /\ event.refs = refs /\ event.batch = batch
        /\ event.dropped = dropped /\ event.sequence = spool.sequence
    BY DEF Event
  <2> HIDE DEF event, R
  <2>3. op # "snapshot" /\ op \in {"inflight", "ack", "poison", "drop"}
    BY DEF Ops
  <2>4. Told'.dead = R.dead \cup refs /\ Told'.dropped = R.dropped + dropped /\ Told'.sequence = spool.sequence
    BY <1>4, <2>1, <2>2, <2>3 DEF ApplyControlEvent
  <2>5. Told'.inflight = CASE op = "inflight" -> batch
                           [] op \in {"ack", "poison"} /\ batch = R.inflight -> {}
                           [] OTHER -> R.inflight
    BY <1>4, <2>2, <2>3 DEF ApplyControlEvent
  <2>6. Told'.inflight = spool'.inflight
    BY <1>1, <2>5
  <2> QED BY <2>4, <2>6
<1> HIDE DEF R, event
<1>6. Left(files, Told') = spool'.live
  BY <1>1, <1>5 DEF Left
<1>7. Directory(files, removed, Told', entered, acked')
  <2>1. Whole(files, Told', Told'.inflight)
    <3>1. \A s \in DOMAIN files : files[s] \cap Left(files, Told') \subseteq files[s] \ Told'.dead
      BY DEF Left
    <3> QED BY <1>5, <1>6, <3>1 DEF Whole
  <2>2. refs \subseteq Left(files, R)
    BY <1>1
  <2>3. Told'.sequence \in R.sequence..MaxRecords /\ Found(files) \subseteq 1..Told'.sequence
    BY <1>1, <1>2, <1>5
  <2>4. \/ acked' = acked /\ Told'.dropped = R.dropped + Cardinality(refs)
        \/ acked' = acked \cup refs /\ Told'.dropped = R.dropped
    BY <1>2, <1>5
  <2> QED BY <1>1, <1>5, <2>1, <2>2, <2>3, <2>4, EndingKeeps
<1>8. DiskInv'
  BY <1>4, <1>7 DEF DiskInv
<1>9. MemoryShape'
  BY DEF MemoryShape, SpoolInv
<1>10. Remembered'
  BY <1>1, <1>2, <1>5, <1>6 DEF Remembered
<1> QED BY <1>8, <1>9, <1>10

(* The disk and the memory stay as they are, up to the phase, the segment  *)
(* that is active and the numbers given out.                               *)
LEMMA QuietKeeps ==
    ASSUME SpoolInv, files' = files, control' = control, removed' = removed \/ removed' = <<>>,
           entered' = entered, acked' = acked
    PROVE  DiskInv' /\ Told' = Told /\ Found(files') = Found(files)
<1>1. Told' = Told
  BY DEF Told
<1>2. Directory(files, removed', Told, entered, acked)
  BY SyncKeeps DEF SpoolInv, DiskInv
<1>3. Directory(files', removed', Told', entered', acked')
  BY <1>1, <1>2
<1> QED BY <1>1, <1>3 DEF SpoolInv, DiskInv

LEMMA Continues ==
    ASSUME SpoolInv, NEW todo, Continue(todo),
           spool'.sequence = spool.sequence, entered' = entered,
           CallShape(todo, call.size, spool.sequence, entered)
    PROVE  CallInv'
<1>1. call'.todo = todo /\ call'.size = call.size /\ call' = [todo |-> todo, size |-> call.size]
  BY DEF Continue, SpoolInv, CallInv
<1> QED BY <1>1 DEF CallInv

LEMMA GoesOn ==
    ASSUME SpoolInv, call.todo # <<>>, Done, spool'.sequence = spool.sequence, entered' = entered
    PROVE  CallInv'
<1>1. CallShape(Tail(call.todo), call.size, spool.sequence, entered)
  BY CallTail DEF SpoolInv, CallInv
<1> QED BY <1>1, Continues DEF Done

LEMMA Calls ==
    ASSUME NEW todo, NEW size, call' = [todo |-> todo, size |-> size],
           CallShape(todo, size, spool'.sequence, entered')
    PROVE  CallInv'
BY DEF CallInv

(* The batch in flight is queued, and lies in one segment. *)
LEMMA InFlightIsWhole ==
    ASSUME SpoolInv, spool.phase # "closed"
    PROVE  /\ spool.inflight \subseteq spool.live
           /\ spool.inflight # {} => \E s \in DOMAIN files : spool.inflight \subseteq files[s] \cap spool.live
<1>1. /\ spool.live = Left(files, Told) /\ spool.inflight = Told.inflight
      /\ Whole(files, Told, Told.inflight)
  BY DEF SpoolInv, Remembered, DiskInv, Directory
<1>2. \A s \in DOMAIN files : files[s] \ Told.dead \subseteq files[s] \cap Left(files, Told)
  BY InFound DEF Left
<1> QED BY <1>1, <1>2 DEF Whole

LEMMA EnqueueKeeps == SpoolInv /\ (\E kind \in Kinds : Enqueue(kind)) => SpoolInv'
<1> SUFFICES ASSUME SpoolInv, NEW kind \in Kinds, Enqueue(kind) PROVE SpoolInv'
  OBVIOUS
<1> USE DEF Enqueue
<1>1. /\ spool.phase # "closed" /\ spool.sequence < MaxRecords
      /\ files' = files /\ removed' = removed /\ control' = control /\ entered' = entered /\ acked' = acked
      /\ spool' = [spool EXCEPT !.sequence = @ + 1]
  BY DEF Ready, disk, history
<1>2. MaxRecords \in Nat /\ spool.sequence \in 0..MaxRecords /\ spool \in SpoolStates
  BY InvFacts DEF SpoolInv, MemoryShape
<1>3. spool' \in SpoolStates /\ spool'.sequence = spool.sequence + 1 /\ spool'.phase = spool.phase /\ spool'.active = spool.active
      /\ spool'.live = spool.live /\ spool'.inflight = spool.inflight /\ spool'.dropped = spool.dropped
  <2>1. spool.sequence + 1 \in 0..MaxRecords
    BY <1>1, <1>2
  <2> QED BY <1>1, <1>2, <2>1 DEF SpoolStates
<1>4. DiskInv' /\ Told' = Told /\ Found(files') = Found(files)
  BY <1>1, QuietKeeps
<1>5. MemoryShape'
  BY <1>1, <1>3 DEF SpoolInv, MemoryShape
<1>6. Remembered'
  <2>1. Told.sequence \in 0..MaxRecords
    BY InvFacts
  <2>2. /\ spool.live = Left(files, Told) /\ spool.inflight = Told.inflight /\ spool.dropped = Told.dropped
        /\ Told.sequence <= spool.sequence /\ Found(files) \subseteq 1..spool.sequence
    BY <1>1 DEF SpoolInv, Remembered
  <2>3. Left(files', Told') = Left(files, Told)
    BY <1>1, <1>4
  <2>4. Told'.sequence <= spool'.sequence /\ Found(files') \subseteq 1..spool'.sequence
    BY <2>1, <2>2, <1>2, <1>3, <1>4
  <2> QED BY <2>2, <2>3, <2>4, <1>3, <1>4 DEF Remembered
<1>7. CallInv'
  <2>1. kind.size \in Nat /\ kind.size # 0
    BY SpoolAssumption
  <2>2. spool'.sequence \in Records
    BY <1>1, <1>2, <1>3 DEF Records
  <2>3. spool'.sequence \notin entered
    <3>1. entered \subseteq (1..Told.sequence) \cup Found(files) /\ Told.sequence \in 0..MaxRecords
      BY DEF SpoolInv, DiskInv, Directory, Numbers
    <3>2. Told.sequence <= spool.sequence /\ Found(files) \subseteq 1..spool.sequence
      BY <1>1 DEF SpoolInv, Remembered
    <3> QED BY <3>1, <3>2, <1>2, <1>3
  <2>4. CallShape(Enforce \o <<"append">>, kind.size, spool'.sequence, entered')
    BY <2>1, <2>2, <2>3, <1>1, CallShapes
  <2> QED BY <2>4, Calls
<1> QED BY <1>4, <1>5, <1>6, <1>7 DEF SpoolInv

LEMMA NextBatchKeeps == SpoolInv /\ NextBatch => SpoolInv'
<1> SUFFICES ASSUME SpoolInv, NextBatch PROVE SpoolInv'
  OBVIOUS
<1> USE DEF NextBatch
<1>1. /\ files' = files /\ removed' = removed /\ control' = control /\ entered' = entered /\ acked' = acked
      /\ spool' = spool
  BY DEF disk, history
<1>2. DiskInv' /\ Told' = Told
  BY <1>1, QuietKeeps
<1>3. MemoryShape' /\ Remembered'
  BY <1>1, <1>2 DEF SpoolInv, MemoryShape, Remembered
<1>4. CallInv'
  BY CallShapes, Calls
<1> QED BY <1>2, <1>3, <1>4 DEF SpoolInv

(* What Ack and DropInflight do to the memory. *)
LEMMA AckKeeps == SpoolInv /\ Ack => SpoolInv'
<1> SUFFICES ASSUME SpoolInv, Ack PROVE SpoolInv'
  OBVIOUS
<1> USE DEF Ack
<1>1. /\ spool.phase # "closed" /\ held = spool.inflight
      /\ files' = files /\ removed' = removed /\ entered' = entered /\ acked' = acked \cup held
      /\ control' = Append(control, Event("ack", held, held, 0))
      /\ spool' = [spool EXCEPT !.live = @ \ held, !.inflight = {}]
      /\ call' = [todo |-> Cleanup, size |-> 0]
  BY DEF Ready, Log, End
<1>2. spool \in SpoolStates /\ held \subseteq spool.live /\ held \subseteq Records
  BY <1>1, InvFacts, InFlightIsWhole DEF SpoolInv, MemoryShape
<1>3. /\ spool' \in SpoolStates /\ spool'.phase = spool.phase /\ spool'.sequence = spool.sequence
      /\ spool'.active = spool.active /\ spool'.live = spool.live \ held /\ spool'.dropped = spool.dropped + 0
      /\ spool'.inflight = {}
  <2>1. spool.live \ held \in SUBSET Records /\ {} \in SUBSET Records /\ spool.dropped + 0 \in Nat
    BY <1>2 DEF SpoolStates
  <2>2. spool' \in SpoolStates
    BY <1>1, <1>2, <2>1 DEF SpoolStates
  <2> QED BY <1>1, <1>2, <2>2 DEF SpoolStates
<1>4. spool'.inflight = CASE "ack" = "inflight" -> held
                          [] "ack" \in {"ack", "poison"} /\ held = spool.inflight -> {}
                          [] OTHER -> spool.inflight
  BY <1>1, <1>3
<1>5. (DiskInv /\ MemoryShape /\ Remembered)'
  <2>1. "ack" \in Ops \ {"snapshot"}
    BY DEF Ops
  <2> QED BY <2>1, <1>1, <1>2, <1>3, <1>4, LoggingKeeps
<1>6. CallInv'
  BY <1>1, CallShapes, Calls
<1> QED BY <1>5, <1>6 DEF SpoolInv

LEMMA DropInflightKeeps == SpoolInv /\ DropInflight => SpoolInv'
<1> SUFFICES ASSUME SpoolInv, DropInflight PROVE SpoolInv'
  OBVIOUS
<1> USE DEF DropInflight
<1>1. /\ spool.phase # "closed" /\ held = spool.inflight /\ Cardinality(held) = 1
      /\ files' = files /\ removed' = removed /\ entered' = entered /\ acked' = acked
      /\ control' = Append(control, Event("poison", held, held, 1))
      /\ spool' = [spool EXCEPT !.live = @ \ held, !.inflight = {}, !.dropped = @ + 1]
      /\ call' = [todo |-> Cleanup, size |-> 0]
  BY DEF Ready, Log, history
<1>2. spool \in SpoolStates /\ held \subseteq spool.live /\ held \subseteq Records
  BY <1>1, InvFacts, InFlightIsWhole DEF SpoolInv, MemoryShape
<1>3. /\ spool' \in SpoolStates /\ spool'.phase = spool.phase /\ spool'.sequence = spool.sequence
      /\ spool'.active = spool.active /\ spool'.live = spool.live \ held /\ spool'.dropped = spool.dropped + 1
      /\ spool'.inflight = {}
  <2>1. spool.live \ held \in SUBSET Records /\ {} \in SUBSET Records /\ spool.dropped + 1 \in Nat
    BY <1>2 DEF SpoolStates
  <2>2. spool' \in SpoolStates
    BY <1>1, <1>2, <2>1 DEF SpoolStates
  <2> QED BY <1>1, <1>2, <2>2 DEF SpoolStates
<1>4. spool'.inflight = CASE "poison" = "inflight" -> held
                          [] "poison" \in {"ack", "poison"} /\ held = spool.inflight -> {}
                          [] OTHER -> spool.inflight
  BY <1>1, <1>3
<1>5. (DiskInv /\ MemoryShape /\ Remembered)'
  <2>1. "poison" \in Ops \ {"snapshot"}
    BY DEF Ops
  <2> QED BY <2>1, <1>1, <1>2, <1>3, <1>4, LoggingKeeps
<1>6. CallInv'
  BY <1>1, CallShapes, Calls
<1> QED BY <1>5, <1>6 DEF SpoolInv

LEMMA SplitInflightKeeps == SpoolInv /\ SplitInflight => SpoolInv'
<1> SUFFICES ASSUME SpoolInv, SplitInflight PROVE SpoolInv'
  OBVIOUS
<1> USE DEF SplitInflight
<1> DEFINE half == Half(held)
<1>1. /\ spool.phase # "closed" /\ held = spool.inflight
      /\ files' = files /\ removed' = removed /\ entered' = entered /\ acked' = acked
      /\ control' = Append(control, Event("inflight", {}, half, 0))
      /\ spool' = [spool EXCEPT !.inflight = half]
      /\ call' = [todo |-> <<"compact">>, size |-> 0]
  BY DEF Ready, Log, history
<1>2. half \subseteq held
  BY DEF Half, First
<1> HIDE DEF half
<1>3. spool \in SpoolStates /\ held \subseteq spool.live /\ held \subseteq Records
  BY <1>1, InvFacts, InFlightIsWhole DEF SpoolInv, MemoryShape
<1>4. /\ spool' \in SpoolStates /\ spool'.phase = spool.phase /\ spool'.sequence = spool.sequence
      /\ spool'.active = spool.active /\ spool'.live = spool.live \ {} /\ spool'.dropped = spool.dropped + 0
      /\ spool'.inflight = half
  BY <1>1, <1>2, <1>3 DEF SpoolStates
<1>5. spool'.inflight = CASE "inflight" = "inflight" -> half
                          [] "inflight" \in {"ack", "poison"} /\ half = spool.inflight -> {}
                          [] OTHER -> spool.inflight
  BY <1>4
<1>6. spool'.inflight # {} => \E s \in DOMAIN files : spool'.inflight \subseteq files[s] \cap spool'.live
  BY <1>1, <1>2, <1>4, InFlightIsWhole
<1>7. (DiskInv /\ MemoryShape /\ Remembered)'
  <2>1. "inflight" \in Ops \ {"snapshot"} /\ {} \subseteq spool.live /\ half \subseteq Records
    BY <1>2, <1>3 DEF Ops
  <2>2. Cardinality({}) = 0
    BY FS_EmptySet
  <2>3. acked' = acked /\ 0 = Cardinality({})
    BY <1>1, <2>2
  <2>4. 0 \in Nat
    OBVIOUS
  <2>5. spool'.active \in {0, spool.active}
    BY <1>4
  <2> QED BY <2>1, <2>3, <2>4, <2>5, <1>1, <1>4, <1>5, <1>6, LoggingKeeps
<1>8. CallInv'
  BY <1>1, CallShapes, Calls
<1> QED BY <1>7, <1>8 DEF SpoolInv

-----------------------------------------------------------------------------
(* Sets of sequence numbers have a least and a greatest one. *)
LEMMA LeastRecord ==
    ASSUME NEW S \in SUBSET Nat, S # {}
    PROVE  Min(S) \in S /\ \A n \in S : Min(S) <= n
<1> DEFINE less == {p \in Nat \X Nat : p[1] < p[2]}
<1>1. IsWellFoundedOn(less, Nat)
  BY NatLessThanWellFounded DEF OpToRel
<1> HIDE DEF less
<1>2. PICK m \in S : \A n \in S : ~(<<n, m>> \in less)
  BY <1>1, WFMin
<1>3. ASSUME NEW n \in S PROVE m <= n
  <2>1. m \in Nat /\ n \in Nat /\ (n < m => <<n, m>> \in less)
    BY DEF less
  <2> QED BY <1>2, <2>1
<1> QED BY <1>3 DEF Min

LEMMA GreatestRecord ==
    ASSUME NEW top \in Nat, NEW S \in SUBSET (0..top), S # {}
    PROVE  Max(S) \in S /\ \A n \in S : n <= Max(S)
<1> DEFINE D == {top - n : n \in S}
<1>1. D \in SUBSET Nat /\ D # {}
  <2>1. \A n \in S : top - n \in Nat
    OBVIOUS
  <2>2. \E n \in S : top - n \in D
    OBVIOUS
  <2> QED BY <2>1, <2>2
<1>2. PICK d \in D : \A e \in D : d <= e
  <2> HIDE DEF D
  <2> QED BY <1>1, LeastRecord
<1>3. PICK m \in S : d = top - m
  OBVIOUS
<1>4. ASSUME NEW n \in S PROVE n <= m
  <2>1. top - n \in D
    OBVIOUS
  <2>2. d <= top - n
    BY <1>2, <2>1
  <2> QED BY <2>2, <1>3
<1> QED BY <1>4 DEF Max

LEMMA SegmentHolds ==
    ASSUME NEW n \in Found(files)
    PROVE  SegmentOf(n) \in DOMAIN files /\ n \in files[SegmentOf(n)]
<1>1. \E s \in DOMAIN files : n \in files[s]
  BY InFound
<1> QED BY <1>1 DEF SegmentOf

LEMMA SegmentIsOne ==
    ASSUME SpoolInv, NEW s \in DOMAIN files, NEW n \in files[s]
    PROVE  SegmentOf(n) = s
<1>1. n \in Found(files)
  BY InFound
<1>2. \A t \in DOMAIN files : t # s => files[s] \cap files[t] = {}
  BY DEF SpoolInv, DiskInv, Directory, Segments
<1> QED BY <1>1, <1>2, SegmentHolds

(* The records of a drop are queued, and not in flight. *)
LEMMA DropKeeps ==
    ASSUME SpoolInv, spool.phase # "closed", call.todo # <<>>, Head(call.todo) \in {"age", "capacity"},
           NEW refs, refs \subseteq spool.live, refs \cap spool.inflight = {}, Drop(refs),
           files' = files, removed' = removed, entered' = entered, acked' = acked
    PROVE  SpoolInv'
<1> DEFINE count == Cardinality(refs)
<1>1. spool \in SpoolStates /\ refs \subseteq Records
  BY InvFacts DEF SpoolInv, MemoryShape
<1>2. count \in Nat
  BY <1>1, RecordSets
<1>3. /\ control' = Append(control, Event("drop", refs, {}, count))
      /\ spool' = [spool EXCEPT !.live = @ \ refs, !.dropped = @ + count]
      /\ Continue(Cleanup \o call.todo)
  BY DEF Drop, Log
<1>4. /\ spool' \in SpoolStates /\ spool'.phase = spool.phase /\ spool'.sequence = spool.sequence
      /\ spool'.active = spool.active /\ spool'.live = spool.live \ refs /\ spool'.dropped = spool.dropped + count
      /\ spool'.inflight = spool.inflight
  <2> HIDE DEF count
  <2>1. spool.live \ refs \in SUBSET Records /\ spool.dropped + count \in Nat
    BY <1>1, <1>2 DEF SpoolStates
  <2>2. spool' \in SpoolStates
    BY <1>1, <1>3, <2>1 DEF SpoolStates
  <2> QED BY <1>1, <1>3, <2>2 DEF SpoolStates
<1>5. spool'.inflight = CASE "drop" = "inflight" -> {}
                          [] "drop" \in {"ack", "poison"} /\ {} = spool.inflight -> {}
                          [] OTHER -> spool.inflight
  BY <1>4
<1>6. spool'.inflight # {} => \E s \in DOMAIN files : spool'.inflight \subseteq files[s] \cap spool'.live
  BY <1>4, InFlightIsWhole
<1>7. (DiskInv /\ MemoryShape /\ Remembered)'
  <2>1. "drop" \in Ops \ {"snapshot"} /\ {} \subseteq Records /\ spool'.active \in {0, spool.active}
    BY <1>4 DEF Ops
  <2>2. acked' = acked /\ count = Cardinality(refs)
    OBVIOUS
  <2> HIDE DEF count
  <2> QED BY <2>1, <2>2, <1>2, <1>3, <1>4, <1>5, <1>6, LoggingKeeps
<1>8. CallInv'
  <2>1. CallShape(Cleanup \o call.todo, call.size, spool.sequence, entered)
    BY CallCleansUp DEF SpoolInv, CallInv
  <2> QED BY <2>1, <1>3, <1>4, Continues
<1> QED BY <1>7, <1>8 DEF SpoolInv

(* A step that only takes itself off the list. *)
LEMMA SkipKeeps ==
    ASSUME SpoolInv, call.todo # <<>>, Done,
           files' = files, control' = control, removed' = removed \/ removed' = <<>>,
           spool' = spool, entered' = entered, acked' = acked
    PROVE  SpoolInv'
<1>1. DiskInv' /\ Told' = Told
  BY QuietKeeps
<1>2. MemoryShape' /\ Remembered'
  BY <1>1 DEF SpoolInv, MemoryShape, Remembered
<1>3. CallInv'
  BY GoesOn
<1> QED BY <1>1, <1>2, <1>3 DEF SpoolInv

LEMMA EnforceAgeKeeps == SpoolInv /\ EnforceAge => SpoolInv'
<1> SUFFICES ASSUME SpoolInv, EnforceAge PROVE SpoolInv'
  OBVIOUS
<1>1. /\ spool.phase # "closed" /\ call.todo # <<>> /\ Head(call.todo) = "age"
      /\ files' = files /\ removed' = removed /\ entered' = entered /\ acked' = acked
      /\ IF Expired # {} THEN Drop(Expired) ELSE Done /\ UNCHANGED <<control, spool>>
  BY DEF EnforceAge, At, history
<1>2. CASE Expired # {}
  <2>1. Expired \subseteq spool.live /\ Expired \cap spool.inflight = {}
    BY DEF Expired
  <2> QED BY <1>1, <1>2, <2>1, DropKeeps
<1>3. CASE Expired = {}
  BY <1>1, <1>3, SkipKeeps
<1> QED BY <1>2, <1>3

LEMMA VictimsAreSpare ==
    ASSUME SpoolInv, spool.phase # "closed", Evictable # {}
    PROVE  Victims \subseteq spool.live /\ Victims \cap spool.inflight = {}
<1> DEFINE e == Min(Evictable)
<1>1. spool.live = Left(files, Told) /\ spool.live \subseteq Records /\ spool.inflight \subseteq Records
  BY InvFacts DEF SpoolInv, Remembered
<1>2. Evictable \in SUBSET Nat
  BY <1>1 DEF Evictable, Records
<1>3. e \in Evictable
  BY <1>2, LeastRecord
<1> HIDE DEF e
<1>4. e \in Found(files) /\ SegmentOf(e) \notin Protected
  BY <1>1, <1>3 DEF Evictable, Left
<1>5. SegmentOf(e) \in DOMAIN files
  BY <1>4, SegmentHolds
<1>6. ASSUME spool.inflight # {} PROVE files[SegmentOf(e)] \cap spool.inflight = {}
  <2>1. PICK s \in DOMAIN files : spool.inflight \subseteq files[s]
    BY <1>6, InFlightIsWhole
  <2>2. Min(spool.inflight) \in spool.inflight
    <3>1. spool.inflight \in SUBSET Nat
      BY <1>1 DEF Records
    <3> QED BY <3>1, <1>6, LeastRecord
  <2>3. SegmentOf(Min(spool.inflight)) = s
    BY <2>1, <2>2, SegmentIsOne
  <2>4. SegmentOf(e) # s
    BY <1>4, <1>6, <2>3 DEF Protected
  <2> QED BY <1>5, <2>1, <2>4 DEF SpoolInv, DiskInv, Directory, Segments
<1> QED BY <1>6 DEF Victims, e

LEMMA EnsureCapacityKeeps == SpoolInv /\ EnsureCapacity => SpoolInv'
<1> SUFFICES ASSUME SpoolInv, EnsureCapacity PROVE SpoolInv'
  OBVIOUS
<1> DEFINE rest == IF call.size = 0 THEN Tail(call.todo) ELSE <<"reject", "compact">>
<1>1. /\ spool.phase # "closed" /\ call.todo # <<>> /\ Head(call.todo) = "capacity"
      /\ files' = files /\ removed' = removed /\ entered' = entered /\ acked' = acked
  BY DEF EnsureCapacity, At, history
<1>2. \/ Done /\ control' = control /\ spool' = spool
      \/ Evictable # {} /\ Drop(Victims)
      \/ Continue(rest) /\ control' = control /\ spool' = spool
  BY DEF EnsureCapacity
<1>3. CASE Done /\ control' = control /\ spool' = spool
  BY <1>1, <1>3, SkipKeeps
<1>4. CASE Evictable # {} /\ Drop(Victims)
  BY <1>1, <1>4, VictimsAreSpare, DropKeeps
<1>5. CASE Continue(rest) /\ control' = control /\ spool' = spool
  <2>1. DiskInv' /\ Told' = Told
    BY <1>1, <1>5, QuietKeeps
  <2>2. MemoryShape' /\ Remembered'
    BY <1>1, <1>5, <2>1 DEF SpoolInv, MemoryShape, Remembered
  <2>3. CallShape(call.todo, call.size, spool.sequence, entered)
    BY DEF SpoolInv, CallInv
  <2>4. CallShape(rest, call.size, spool.sequence, entered)
    <3>1. CASE call.size = 0
      BY <3>1, <2>3, <1>1, CallTail
    <3>2. CASE call.size # 0
      <4>1. call.todo \in Seq(StepNames) /\ 1 \in 1..Len(call.todo) /\ call.todo[1] = "capacity"
        BY <1>1, <2>3 DEF CallShape
      <4>2. call.size \in Nat /\ spool.sequence \in Records /\ spool.sequence \notin entered
        BY <3>2, <4>1, <2>3 DEF CallShape
      <4> QED BY <3>2, <4>2, CallShapes
    <3> QED BY <3>1, <3>2
  <2>5. CallInv'
    <3> HIDE DEF rest
    <3> QED BY <1>1, <1>5, <2>4, Continues
  <2> QED BY <2>1, <2>2, <2>5 DEF SpoolInv
<1> QED BY <1>2, <1>3, <1>4, <1>5

LEMMA RecordRejectedKeeps == SpoolInv /\ RecordRejected => SpoolInv'
<1> SUFFICES ASSUME SpoolInv, RecordRejected PROVE SpoolInv'
  OBVIOUS
<1> DEFINE n == spool.sequence
           event == Event("drop", {}, {}, 1)
           R == Told
<1>1. /\ spool.phase # "closed" /\ call.todo # <<>> /\ Head(call.todo) = "reject"
      /\ files' = files /\ removed' = removed /\ entered' = entered \cup {n} /\ acked' = acked
      /\ control' = Append(control, event) /\ spool' = [spool EXCEPT !.dropped = @ + 1] /\ Done
  BY DEF RecordRejected, At, Log
<1>2. CallShape(call.todo, call.size, n, entered)
  BY DEF SpoolInv, CallInv
<1>3. call.todo = <<"reject", "compact">> /\ call.size \in Nat /\ n \in Records /\ n \notin entered
  <2>1. call.todo \in Seq(StepNames) /\ 1 \in 1..Len(call.todo) /\ call.todo[1] = "reject"
    BY <1>1, <1>2 DEF CallShape
  <2> QED BY <2>1, <1>2 DEF CallShape
<1>4. /\ control \in Seq(LogEvents) /\ Directory(files, removed, R, entered, acked)
      /\ spool.live = Left(files, R) /\ spool.inflight = R.inflight /\ spool.dropped = R.dropped
      /\ R.sequence <= n /\ Found(files) \subseteq 1..n
  BY <1>1 DEF SpoolInv, DiskInv, Remembered
<1>5. n \in 0..MaxRecords /\ R.sequence \in 0..MaxRecords /\ MaxRecords \in Nat /\ spool.dropped \in Nat
  BY InvFacts
<1>6. event \in LogEvents
  BY <1>5 DEF Event, LogEvents, Ops
<1>7. control' \in Seq(LogEvents) /\ Told' = ApplyControlEvent(R, event)
  BY <1>1, <1>4, <1>6, Logged
<1>8. /\ Told'.dead = R.dead /\ Told'.dropped = R.dropped + 1
      /\ Told'.inflight = R.inflight /\ Told'.sequence = n
  <2>1. /\ event.op = "drop" /\ event.refs = {} /\ event.batch = {}
        /\ event.dropped = 1 /\ event.sequence = n
    BY DEF Event
  <2> HIDE DEF event, R, n
  <2>2. Max({R.sequence, n}) = n
    <3>1. R.sequence \in Int /\ n \in Int /\ R.sequence <= n
      BY <1>4, <1>5
    <3> QED BY <3>1, MaxOfTwo
  <2> QED BY <1>7, <2>1, <2>2 DEF ApplyControlEvent
<1>9. /\ spool' \in SpoolStates /\ spool'.phase = spool.phase /\ spool'.sequence = n
      /\ spool'.active = spool.active /\ spool'.live = spool.live /\ spool'.dropped = spool.dropped + 1
      /\ spool'.inflight = spool.inflight
  <2>1. spool \in SpoolStates
    BY DEF SpoolInv, MemoryShape
  <2> QED BY <2>1, <1>1 DEF SpoolStates
<1> HIDE DEF n, event, R
<1>10. Directory(files, removed, Told', entered \cup {n}, acked)
  BY <1>3, <1>4, <1>8, RejectingKeeps
<1>11. DiskInv'
  BY <1>1, <1>7, <1>10 DEF DiskInv
<1>12. MemoryShape'
  BY <1>1, <1>9 DEF MemoryShape, SpoolInv
<1>13. Left(files, Told') = Left(files, R)
  BY <1>8 DEF Left
<1>14. Remembered'
  BY <1>1, <1>4, <1>5, <1>8, <1>9, <1>13 DEF Remembered
<1>15. CallInv'
  <2>1. Tail(call.todo) = <<"compact">>
    BY <1>3
  <2>2. call' = [todo |-> <<"compact">>, size |-> call.size]
    BY <1>1, <2>1 DEF Done, Continue, SpoolInv, CallInv
  <2>3. CallShape(<<"compact">>, call.size, spool'.sequence, entered')
    BY <1>3, CallShapes
  <2> QED BY <2>2, <2>3, Calls
<1> QED BY <1>11, <1>12, <1>14, <1>15 DEF SpoolInv

LEMMA AppendRecordKeeps == SpoolInv /\ AppendRecord => SpoolInv'
<1> SUFFICES ASSUME SpoolInv, AppendRecord PROVE SpoolInv'
  OBVIOUS
<1> DEFINE n == spool.sequence
           name == SegmentFor(n)
           records == (IF name \in DOMAIN files THEN files[name] ELSE {}) \cup {n}
           active == IF Bytes(records) >= SegmentTarget THEN 0 ELSE name
<1>1. /\ n = spool.sequence /\ name = SegmentFor(n)
      /\ records = (IF name \in DOMAIN files THEN files[name] ELSE {}) \cup {n}
      /\ active \in {0, name}
      /\ files' = [s \in DOMAIN files \cup {name} |-> IF s = name THEN records ELSE files[s]]
      /\ removed' = removed \/ removed' = <<>>
      /\ spool' = [spool EXCEPT !.live = @ \cup {n}, !.active = active]
      /\ entered' = entered \cup {n}
  BY DEF AppendRecord
<1> HIDE DEF n, name, records, active
<1>2. /\ spool.phase # "closed" /\ call.todo # <<>> /\ Head(call.todo) = "append" /\ Done
      /\ control' = control /\ acked' = acked
  BY DEF AppendRecord, At
<1>3. CallShape(call.todo, call.size, n, entered)
  BY <1>1 DEF SpoolInv, CallInv
<1>4. call.todo \in Seq(StepNames) /\ Len(call.todo) = 1 /\ call.size \in Nat /\ n \in Records /\ n \notin entered
  <2>1. call.todo \in Seq(StepNames) /\ 1 \in 1..Len(call.todo) /\ call.todo[1] = "append"
    BY <1>2, <1>3 DEF CallShape
  <2> QED BY <2>1, <1>3 DEF CallShape
<1>5. name \in DOMAIN files \/ name = n
  BY <1>1 DEF SegmentFor, SpoolInv, MemoryShape
<1>6. /\ Directory(files, removed, Told, entered, acked)
      /\ spool.live = Left(files, Told) /\ spool.inflight = Told.inflight /\ spool.dropped = Told.dropped
      /\ Told.sequence <= n /\ Found(files) \subseteq 1..n
  BY <1>1, <1>2 DEF SpoolInv, DiskInv, Remembered
<1>7. n \in 0..MaxRecords /\ MaxRecords \in Nat /\ spool.active \in 0..MaxRecords /\ spool \in SpoolStates
  BY <1>1, InvFacts DEF SpoolInv, MemoryShape
<1>8. name \in 0..MaxRecords
  BY <1>1, <1>7 DEF SegmentFor
<1>9. /\ DOMAIN files' = DOMAIN files \cup {name}
      /\ files'[name] = (IF name \in DOMAIN files THEN files[name] ELSE {}) \cup {n}
      /\ \A s \in DOMAIN files \ {name} : files'[s] = files[s]
  BY <1>1
<1>10. /\ Directory(files', removed', Told, entered \cup {n}, acked)
       /\ Left(files', Told) = Left(files, Told) \cup {n} /\ Found(files') = Found(files) \cup {n}
  <2>1. PICK f2, r2 : f2 = files' /\ r2 = removed' /\ (r2 = removed \/ r2 = <<>>)
    BY <1>1
  <2>2. /\ Directory(f2, r2, Told, entered \cup {n}, acked)
        /\ Left(f2, Told) = Left(files, Told) \cup {n} /\ Found(f2) = Found(files) \cup {n}
    <3> HIDE DEF Told
    <3>1. Extended(files, name, n, f2)
      BY <1>9, <2>1 DEF Extended
    <3>2. name \in DOMAIN files \cup {n}
      BY <1>5
    <3>3. n \in Records /\ n \notin entered /\ Directory(files, removed, Told, entered, acked)
      BY <1>4, <1>6
    <3>4. Directory(f2, r2, Told, entered \cup {n}, acked)
      <4>1. Directory(f2, removed, Told, entered \cup {n}, acked)
        BY <3>1, <3>2, <3>3, AppendingKeeps
      <4> QED BY <4>1, <2>1, SyncKeeps
    <3>5. n \notin Told.dead
      BY <3>3 DEF Directory, Numbers
    <3>6. Left(f2, Told) = Left(files, Told) \cup {n} /\ Found(f2) = Found(files) \cup {n}
      BY <3>1, <3>5, AppendingFinds
    <3> QED BY <3>4, <3>6
  <2> QED BY <2>1, <2>2
<1>11. Told' = Told
  BY <1>2 DEF Told
<1>12. DiskInv'
  BY <1>1, <1>2, <1>10, <1>11 DEF DiskInv, SpoolInv
<1>13. /\ spool' \in SpoolStates /\ spool'.phase = spool.phase /\ spool'.sequence = n
       /\ spool'.active = active /\ spool'.live = spool.live \cup {n} /\ spool'.dropped = spool.dropped
       /\ spool'.inflight = spool.inflight
  <2>1. spool.live \cup {n} \in SUBSET Records /\ active \in 0..MaxRecords
    BY <1>1, <1>4, <1>7, <1>8 DEF SpoolStates
  <2>2. spool' \in SpoolStates
    BY <1>1, <1>7, <2>1 DEF SpoolStates
  <2> QED BY <1>1, <1>7, <2>2 DEF SpoolStates
<1>14. MemoryShape'
  BY <1>1, <1>2, <1>9, <1>13 DEF MemoryShape
<1>15. Remembered'
  <2>1. Left(files', Told') = spool'.live
    BY <1>6, <1>10, <1>11, <1>13
  <2>2. Found(files') \subseteq 1..spool'.sequence
    BY <1>4, <1>6, <1>7, <1>10, <1>13 DEF Records
  <2> QED BY <1>6, <1>11, <1>13, <2>1, <2>2 DEF Remembered
<1>16. CallInv'
  <2>1. Tail(call.todo) \in Seq(StepNames) /\ Len(Tail(call.todo)) = 0
    BY <1>2, <1>4
  <2>2. call' = [todo |-> Tail(call.todo), size |-> call.size]
    BY <1>2 DEF Done, Continue, SpoolInv, CallInv
  <2>3. CallShape(Tail(call.todo), call.size, spool'.sequence, entered')
    BY <1>4, <2>1 DEF CallShape
  <2> QED BY <2>2, <2>3, Calls
<1> QED BY <1>12, <1>14, <1>15, <1>16 DEF SpoolInv

LEMMA OldestIsWhole ==
    ASSUME SpoolInv, spool.phase # "closed", spool.live # {}
    PROVE  \E s \in DOMAIN files : Oldest \subseteq files[s] \cap spool.live
<1> DEFINE first == Min(spool.live)
<1>1. spool.live = Left(files, Told) /\ spool.live \subseteq Records
  BY InvFacts DEF SpoolInv, Remembered
<1>2. first \in spool.live
  <2>1. spool.live \in SUBSET Nat
    BY <1>1 DEF Records
  <2> QED BY <2>1, LeastRecord
<1>3. SegmentOf(first) \in DOMAIN files
  BY <1>1, <1>2, SegmentHolds DEF Left
<1>4. Oldest \subseteq files[SegmentOf(first)] \cap spool.live
  BY DEF Oldest, First
<1> QED BY <1>3, <1>4

LEMMA FreezeKeeps == SpoolInv /\ Freeze => SpoolInv'
<1> SUFFICES ASSUME SpoolInv, Freeze PROVE SpoolInv'
  OBVIOUS
<1>1. /\ spool.phase # "closed" /\ call.todo # <<>> /\ Done
      /\ files' = files /\ removed' = removed /\ entered' = entered /\ acked' = acked
  BY DEF Freeze, At, history
<1>2. CASE spool.inflight # {} \/ spool.live = {}
  <2>1. control' = control /\ spool' = spool
    BY <1>2 DEF Freeze
  <2> QED BY <1>1, <2>1, SkipKeeps
<1>3. CASE spool.inflight = {} /\ spool.live # {}
  <2>1. PICK batch, active :
          /\ batch = Oldest /\ active \in {0, spool.active}
          /\ control' = Append(control, Event("inflight", {}, batch, 0))
          /\ spool' = [spool EXCEPT !.inflight = batch, !.active = active]
    BY <1>3 DEF Freeze, Log, ActiveBeside
  <2>2. PICK s \in DOMAIN files : batch \subseteq files[s] \cap spool.live
    BY <1>1, <1>3, <2>1, OldestIsWhole
  <2>3. batch \subseteq Records /\ spool \in SpoolStates
    BY <2>2, InvFacts DEF SpoolInv, MemoryShape
  <2>4. /\ spool' \in SpoolStates /\ spool'.phase = spool.phase /\ spool'.sequence = spool.sequence
        /\ spool'.active \in {0, spool.active} /\ spool'.live = spool.live \ {}
        /\ spool'.dropped = spool.dropped + 0 /\ spool'.inflight = batch
    <3>1. active \in 0..MaxRecords
      BY <2>1, <2>3, InvFacts
    <3>2. spool' \in SpoolStates
      BY <2>1, <2>3, <3>1 DEF SpoolStates
    <3> QED BY <2>1, <2>3, <3>2 DEF SpoolStates
  <2>5. spool'.inflight = CASE "inflight" = "inflight" -> batch
                            [] "inflight" \in {"ack", "poison"} /\ batch = spool.inflight -> {}
                            [] OTHER -> spool.inflight
    BY <2>4
  <2>6. spool'.inflight # {} => \E o \in DOMAIN files : spool'.inflight \subseteq files[o] \cap spool'.live
    BY <2>2, <2>4
  <2>7. (DiskInv /\ MemoryShape /\ Remembered)'
    <3>1. "inflight" \in Ops \ {"snapshot"} /\ {} \subseteq spool.live /\ 0 \in Nat
      BY DEF Ops
    <3>2. acked' = acked /\ 0 = Cardinality({})
      BY <1>1, FS_EmptySet
    <3> QED BY <3>1, <3>2, <1>1, <2>1, <2>3, <2>4, <2>5, <2>6, LoggingKeeps
  <2>8. CallInv'
    BY <1>1, <2>4, GoesOn
  <2> QED BY <2>7, <2>8 DEF SpoolInv
<1> QED BY <1>2, <1>3

LEMMA ReturnKeeps == SpoolInv /\ Return => SpoolInv'
<1> SUFFICES ASSUME SpoolInv, Return PROVE SpoolInv'
  OBVIOUS
<1>1. /\ spool.phase # "closed" /\ call.todo # <<>> /\ Done
      /\ files' = files /\ removed' = removed /\ control' = control /\ entered' = entered /\ acked' = acked
      /\ spool' = [spool EXCEPT !.phase = "open"]
  BY DEF Return, At, disk, history
<1>2. DiskInv' /\ Told' = Told /\ Found(files') = Found(files)
  BY <1>1, QuietKeeps
<1>3. /\ spool' \in SpoolStates /\ spool'.sequence = spool.sequence /\ spool'.phase = "open"
      /\ spool'.active = spool.active /\ spool'.live = spool.live /\ spool'.dropped = spool.dropped
      /\ spool'.inflight = spool.inflight
  <2>1. spool \in SpoolStates
    BY DEF SpoolInv, MemoryShape
  <2> QED BY <1>1, <2>1 DEF SpoolStates
<1>4. MemoryShape' /\ Remembered'
  BY <1>1, <1>2, <1>3 DEF SpoolInv, MemoryShape, Remembered
<1>5. CallInv'
  BY <1>1, <1>3, GoesOn
<1> QED BY <1>2, <1>4, <1>5 DEF SpoolInv

LEMMA ReclaimEmptySegmentsKeeps == SpoolInv /\ ReclaimEmptySegments => SpoolInv'
<1> SUFFICES ASSUME SpoolInv, ReclaimEmptySegments PROVE SpoolInv'
  OBVIOUS
<1>1. PICK gone, active, rest :
        /\ gone = Empty /\ active = (IF spool.active \in gone THEN 0 ELSE spool.active)
        /\ rest = (IF gone = {} THEN Tail(Tail(call.todo)) ELSE Tail(call.todo))
        /\ files' = [s \in DOMAIN files \ gone |-> files[s]]
        /\ removed' = [s \in DOMAIN removed \cup gone |-> IF s \in gone THEN files[s] ELSE removed[s]]
        /\ spool' = [spool EXCEPT !.active = active]
        /\ Continue(rest)
  BY DEF ReclaimEmptySegments, Only
<1>2. /\ spool.phase # "closed" /\ call.todo # <<>> /\ Head(call.todo) = "reclaim"
      /\ control' = control /\ entered' = entered /\ acked' = acked
  BY DEF ReclaimEmptySegments, At, history
<1>3. /\ Directory(files, removed, Told, entered, acked)
      /\ spool.live = Left(files, Told) /\ spool.inflight = Told.inflight /\ spool.dropped = Told.dropped
      /\ Told.sequence <= spool.sequence /\ Found(files) \subseteq 1..spool.sequence
  BY <1>2 DEF SpoolInv, DiskInv, Remembered
<1>4. gone \subseteq DOMAIN files /\ \A s \in gone : files[s] \cap Left(files, Told) = {}
  BY <1>1, <1>3 DEF Empty
<1>5. /\ Directory(files', removed', Told, entered, acked)
      /\ Left(files', Told) = Left(files, Told) /\ Found(files') \subseteq Found(files)
  <2>1. PICK f2, r2 : f2 = files' /\ r2 = removed'
    OBVIOUS
  <2>2. DOMAIN f2 = DOMAIN files \ gone /\ \A s \in DOMAIN files \ gone : f2[s] = files[s]
    BY <1>1, <2>1
  <2>3. DOMAIN r2 = DOMAIN removed \cup gone
    BY <1>1, <2>1
  <2>4. \A s \in DOMAIN r2 : r2[s] = IF s \in gone THEN files[s] ELSE removed[s]
    BY <1>1, <2>1
  <2>5. Moved(files, removed, gone, f2, r2)
    BY <2>2, <2>3, <2>4 DEF Moved
  <2>6. /\ Directory(f2, r2, Told, entered, acked)
        /\ Left(f2, Told) = Left(files, Told) /\ Found(f2) \subseteq Found(files)
    BY <1>3, <1>4, <2>5, RemovingKeeps
  <2> QED BY <2>1, <2>6
<1>6. Told' = Told
  BY <1>2 DEF Told
<1>7. DiskInv'
  BY <1>2, <1>5, <1>6 DEF DiskInv, SpoolInv
<1>8. /\ spool' \in SpoolStates /\ spool'.phase = spool.phase /\ spool'.sequence = spool.sequence
      /\ spool'.active = active /\ spool'.live = spool.live /\ spool'.dropped = spool.dropped
      /\ spool'.inflight = spool.inflight
  <2>1. spool \in SpoolStates /\ active \in 0..MaxRecords
    BY <1>1, InvFacts DEF SpoolInv, MemoryShape
  <2> QED BY <1>1, <2>1 DEF SpoolStates
<1>9. MemoryShape'
  BY <1>1, <1>8 DEF SpoolInv, MemoryShape
<1>10. Remembered'
  BY <1>3, <1>5, <1>6, <1>8 DEF Remembered
<1>11. CallInv'
  <2>1. CallShape(call.todo, call.size, spool.sequence, entered)
    BY DEF SpoolInv, CallInv
  <2>2. CallShape(rest, call.size, spool.sequence, entered)
    BY <1>1, <1>2, <2>1, CallTail, CallSkips
  <2> QED BY <1>1, <1>2, <1>8, <2>2, Continues
<1> QED BY <1>7, <1>9, <1>10, <1>11 DEF SpoolInv

LEMMA SyncDirectoryKeeps == SpoolInv /\ SyncDirectory => SpoolInv'
<1> SUFFICES ASSUME SpoolInv, SyncDirectory PROVE SpoolInv'
  OBVIOUS
<1>1. /\ call.todo # <<>> /\ Done /\ files' = files /\ removed' = <<>> /\ control' = control
      /\ spool' = spool /\ entered' = entered /\ acked' = acked
  BY DEF SyncDirectory, At, history
<1> QED BY <1>1, SkipKeeps

LEMMA MaybeCompactControlKeeps == SpoolInv /\ MaybeCompactControl => SpoolInv'
<1> SUFFICES ASSUME SpoolInv, MaybeCompactControl PROVE SpoolInv'
  OBVIOUS
<1> DEFINE event == Snapshot
           R == Told
<1>1. /\ spool.phase # "closed" /\ call.todo # <<>> /\ Done
      /\ files' = files /\ spool' = spool /\ entered' = entered /\ acked' = acked
      /\ \/ control' = <<event>> /\ removed' = <<>>
         \/ control' = control /\ removed' = removed
  BY DEF MaybeCompactControl, At, history
<1>2. CASE control' = control /\ removed' = removed
  BY <1>1, <1>2, SkipKeeps
<1>3. CASE control' = <<event>> /\ removed' = <<>>
  <2>1. /\ Directory(files, removed, R, entered, acked)
        /\ spool.live = Left(files, R) /\ spool.inflight = R.inflight /\ spool.dropped = R.dropped
        /\ R.sequence <= spool.sequence /\ Found(files) \subseteq 1..spool.sequence
    BY <1>1 DEF SpoolInv, DiskInv, Remembered
  <2>2. /\ spool.sequence \in 0..MaxRecords /\ R.sequence \in 0..MaxRecords /\ MaxRecords \in Nat
        /\ spool.dropped \in Nat /\ spool.inflight \subseteq Records /\ Found(files) \subseteq Records
    BY InvFacts
  <2>3. event \in LogEvents
    BY <2>2 DEF Snapshot, Event, LogEvents, Ops
  <2>4. control' \in Seq(LogEvents) /\ Told' = ApplyControlEvent(Blank, event)
    BY <1>3, <2>3, ReplayOfOne DEF Told
  <2>5. /\ Told'.dead = Found(files) \ Left(files, R) /\ Told'.dropped = R.dropped
        /\ Told'.inflight = R.inflight /\ Told'.sequence = spool.sequence
    <3>1. /\ event.op = "snapshot" /\ event.refs = Found(files) \ spool.live /\ event.batch = spool.inflight
          /\ event.dropped = spool.dropped /\ event.sequence = spool.sequence
      BY DEF Snapshot, Event
    <3> HIDE DEF event, R
    <3>2. Max({0, spool.sequence}) = spool.sequence
      BY <2>2, MaxOfTwo
    <3> QED BY <2>1, <2>4, <3>1, <3>2 DEF ApplyControlEvent, Blank
  <2> HIDE DEF event, R
  <2>6. Directory(files, <<>>, Told', entered, acked)
    <3>1. Told'.sequence \in R.sequence..MaxRecords /\ Found(files) \subseteq 1..Told'.sequence
      BY <2>1, <2>2, <2>5
    <3> QED BY <2>1, <2>5, <3>1, SnapshotKeeps
  <2>7. DiskInv'
    BY <1>1, <1>3, <2>4, <2>6 DEF DiskInv
  <2>8. Left(files, Told') = Left(files, R)
    BY <2>5 DEF Left
  <2>9. MemoryShape' /\ Remembered'
    BY <1>1, <2>1, <2>2, <2>5, <2>8 DEF SpoolInv, MemoryShape, Remembered
  <2>10. CallInv'
    BY <1>1, GoesOn
  <2> QED BY <2>7, <2>9, <2>10 DEF SpoolInv
<1> QED BY <1>1, <1>2, <1>3

LEMMA SelectActiveSegmentKeeps == SpoolInv /\ SelectActiveSegment => SpoolInv'
<1> SUFFICES ASSUME SpoolInv, SelectActiveSegment PROVE SpoolInv'
  OBVIOUS
<1> DEFINE room == {s \in DOMAIN files : s \notin Empty /\ Bytes(files[s]) < SegmentTarget}
           newest == CHOOSE s \in room : \A o \in room : Max(files[o]) <= Max(files[s])
           active == IF room = {} \/ newest \in Protected THEN 0 ELSE newest
<1>1. /\ spool.phase # "closed" /\ call.todo # <<>> /\ Done
      /\ files' = files /\ removed' = removed /\ control' = control /\ entered' = entered /\ acked' = acked
      /\ spool' = [spool EXCEPT !.active = active]
  BY DEF SelectActiveSegment, At, disk, history
<1>2. ASSUME room # {} PROVE newest \in room
  <2> DEFINE tops == {Max(files[o]) : o \in room}
  <2>1. ASSUME NEW o \in room PROVE Max(files[o]) \in 0..MaxRecords
    <3>1. o \in files[o] /\ files[o] \subseteq Records /\ MaxRecords \in Nat
      BY InvFacts DEF SpoolInv, DiskInv, Directory, Segments
    <3>2. files[o] \in SUBSET (0..MaxRecords) /\ files[o] # {}
      BY <3>1 DEF Records
    <3>3. Max(files[o]) \in files[o]
      BY <3>1, <3>2, GreatestRecord
    <3> QED BY <3>2, <3>3
  <2>2. tops \in SUBSET (0..MaxRecords) /\ tops # {} /\ MaxRecords \in Nat
    BY <2>1, <1>2, InvFacts
  <2>3. Max(tops) \in tops /\ \A n \in tops : n <= Max(tops)
    <3> HIDE DEF tops
    <3> QED BY <2>2, GreatestRecord
  <2>4. PICK s \in room : Max(tops) = Max(files[s])
    BY <2>3
  <2>5. \A o \in room : Max(files[o]) <= Max(files[s])
    BY <2>3, <2>4
  <2> HIDE DEF room
  <2> QED BY <2>4, <2>5
<1>3. active = 0 \/ active \in DOMAIN files
  BY <1>2
<1> HIDE DEF active
<1>4. active \in 0..MaxRecords
  <2>1. \A s \in DOMAIN files : s \in Records
    BY InvFacts DEF SpoolInv, DiskInv, Directory, Segments
  <2> QED BY <1>3, <2>1, InvFacts DEF Records
<1>5. DiskInv' /\ Told' = Told /\ Found(files') = Found(files)
  BY <1>1, QuietKeeps
<1>6. /\ spool' \in SpoolStates /\ spool'.sequence = spool.sequence /\ spool'.phase = spool.phase
      /\ spool'.active = active /\ spool'.live = spool.live /\ spool'.dropped = spool.dropped
      /\ spool'.inflight = spool.inflight
  <2>1. spool \in SpoolStates
    BY DEF SpoolInv, MemoryShape
  <2> QED BY <1>1, <1>4, <2>1 DEF SpoolStates
<1>7. MemoryShape' /\ Remembered'
  BY <1>1, <1>3, <1>5, <1>6 DEF SpoolInv, MemoryShape, Remembered
<1>8. CallInv'
  BY <1>1, <1>6, GoesOn
<1> QED BY <1>5, <1>7, <1>8 DEF SpoolInv

LEMMA ClosedShape ==
    /\ Closed \in SpoolStates /\ Closed.phase = "closed" /\ Closed.active = 0 /\ Closed.live = {}
    /\ NoCall.todo = <<>> /\ NoCall.size = 0 /\ NoCall = [todo |-> <<>>, size |-> 0]
BY SpoolAssumption DEF Closed, NoCall, SpoolStates

LEMMA FailsKeeps == SpoolInv /\ Fails => SpoolInv'
<1> SUFFICES ASSUME SpoolInv, Fails PROVE SpoolInv'
  OBVIOUS
<1>1. /\ files' = files /\ removed' = removed /\ control' = control /\ entered' = entered /\ acked' = acked
      /\ call' = NoCall /\ (spool' = Closed \/ spool' = spool)
  BY DEF Fails, disk, history
<1>2. DiskInv' /\ Told' = Told
  BY <1>1, QuietKeeps
<1>3. MemoryShape' /\ Remembered'
  BY <1>1, <1>2, ClosedShape DEF SpoolInv, MemoryShape, Remembered
<1>4. CallInv'
  BY <1>1, ClosedShape, NoCallShape, Calls
<1> QED BY <1>2, <1>3, <1>4 DEF SpoolInv

LEMMA StutterKeeps ==
    ASSUME SpoolInv, files' = files, removed' = removed, control' = control, entered' = entered,
           acked' = acked, call' = call, spool' = spool
    PROVE  SpoolInv'
<1>1. DiskInv' /\ Told' = Told
  BY QuietKeeps
<1> QED BY <1>1 DEF SpoolInv, MemoryShape, Remembered, CallInv

LEMMA CrashKeeps == SpoolInv /\ Crash => SpoolInv'
<1> SUFFICES ASSUME SpoolInv, Crash PROVE SpoolInv'
  OBVIOUS
<1>1. /\ removed' = <<>> /\ control' = control /\ entered' = entered /\ acked' = acked
      /\ call' = NoCall /\ spool' = Closed
  BY DEF Crash, history
<1>2. PICK back \in SUBSET DOMAIN removed : files' = Restored(files, removed, back)
  BY DEF Crash, Restored
<1>3. Told' = Told
  BY <1>1 DEF Told
<1>4. Directory(files', <<>>, Told, entered, acked)
  <2>1. Directory(files, removed, Told, entered, acked)
    BY DEF SpoolInv, DiskInv
  <2> QED BY <1>2, <2>1, CrashingKeeps
<1>5. DiskInv'
  BY <1>1, <1>3, <1>4 DEF SpoolInv, DiskInv
<1>6. MemoryShape' /\ Remembered'
  BY <1>1, ClosedShape DEF MemoryShape, Remembered
<1>7. CallInv'
  BY <1>1, ClosedShape, NoCallShape, Calls
<1> QED BY <1>5, <1>6, <1>7 DEF SpoolInv

(* What opening finds in a directory. *)
LEMMA Recovers ==
    ASSUME NEW f, NEW r, NEW A, Directory(f, r, Told, entered, A)
    PROVE  /\ Recovered(f) \in SpoolStates
           /\ Recovered(f).phase = "opening" /\ Recovered(f).active = 0
           /\ Recovered(f).live = Left(f, Told)
           /\ Recovered(f).inflight = Told.inflight /\ Recovered(f).dropped = Told.dropped
           /\ Told.sequence <= Recovered(f).sequence /\ Found(f) \subseteq 1..Recovered(f).sequence
           /\ \A n \in entered : n <= Recovered(f).sequence
<1> DEFINE S == Found(f) \cup {Told.sequence}
<1>1. /\ Found(f) \subseteq Records /\ Told.sequence \in 0..MaxRecords /\ MaxRecords \in Nat
      /\ entered \subseteq (1..Told.sequence) \cup Found(f) /\ entered \subseteq Records
  BY LeftIsIn, SpoolAssumption DEF Directory, Numbers
<1>2. S \in SUBSET (0..MaxRecords) /\ S # {}
  BY <1>1 DEF Records
<1>3. Max(S) \in S /\ \A n \in S : n <= Max(S)
  <2> HIDE DEF S
  <2> QED BY <1>1, <1>2, GreatestRecord
<1>4. Max(S) \in 0..MaxRecords /\ Told.sequence <= Max(S) /\ Found(f) \subseteq 1..Max(S)
  <2>1. Max(S) \in 0..MaxRecords /\ Told.sequence <= Max(S)
    BY <1>2, <1>3
  <2>2. \A n \in Found(f) : n \in 1..Max(S)
    BY <1>1, <1>3, <2>1 DEF Records
  <2> QED BY <2>1, <2>2
<1>5. \A n \in entered : n <= Max(S)
  BY <1>1, <1>3, <1>4
<1>6. Recovered(f) = [phase |-> "opening", live |-> Left(f, Told), active |-> 0,
                      inflight |-> Told.inflight, dropped |-> Told.dropped, sequence |-> Max(S)]
  BY DEF Recovered, Told, Left
<1>7. Left(f, Told) \subseteq Records /\ Told.inflight \subseteq Records /\ Told.dropped \in Nat
  <2>1. Left(f, Told) \subseteq Records
    BY <1>1 DEF Left
  <2>2. Told.inflight \subseteq Records
    BY <1>1, InFound DEF Directory, Whole
  <2>3. Told.dropped \in Nat
    <3> DEFINE lost == entered \ (Left(f, Told) \cup A)
    <3>1. Told.dropped = Cardinality(lost) /\ lost \subseteq Records
      BY <1>1 DEF Directory, Counted
    <3> HIDE DEF lost
    <3> QED BY <3>1, RecordSets
  <2> QED BY <2>1, <2>2, <2>3
<1> HIDE DEF S
<1>8. Recovered(f) \in SpoolStates
  <2>1. Left(f, Told) \in SUBSET Records /\ Told.inflight \in SUBSET Records /\ 0 \in 0..MaxRecords
    BY <1>1, <1>7
  <2> QED BY <1>4, <1>6, <1>7, <2>1 DEF SpoolStates
<1> QED BY <1>4, <1>5, <1>6, <1>8

LEMMA OpenKeeps == SpoolInv /\ Open => SpoolInv'
<1> SUFFICES ASSUME SpoolInv, Open PROVE SpoolInv'
  OBVIOUS
<1>1. /\ files' = files /\ removed' = removed /\ control' = control /\ entered' = entered /\ acked' = acked
      /\ spool' = Recovered(files)
      /\ call' = [todo |-> <<"reclaim", "sync", "select">> \o Enforce \o <<"compact", "return">>, size |-> 0]
  BY DEF Open, disk, history
<1>2. DiskInv' /\ Told' = Told
  BY <1>1, QuietKeeps
<1>3. Directory(files, removed, Told, entered, acked)
  BY DEF SpoolInv, DiskInv
<1>4. /\ spool' \in SpoolStates /\ spool'.active = 0 /\ spool'.live = Left(files, Told)
      /\ spool'.phase # "closed"
      /\ spool'.inflight = Told.inflight /\ spool'.dropped = Told.dropped
      /\ Told.sequence <= spool'.sequence /\ Found(files) \subseteq 1..spool'.sequence
  BY <1>1, <1>3, Recovers
<1>5. MemoryShape'
  BY <1>4 DEF MemoryShape
<1>6. Remembered'
  BY <1>1, <1>2, <1>4 DEF Remembered
<1>7. CallInv'
  BY <1>1, CallShapes, Calls
<1> QED BY <1>2, <1>5, <1>6, <1>7 DEF SpoolInv

LEMMA InitKeeps == Init => SpoolInv
<1> SUFFICES ASSUME Init PROVE SpoolInv
  OBVIOUS
<1>1. /\ files = <<>> /\ removed = <<>> /\ control = <<>> /\ spool = Closed /\ call = NoCall
      /\ entered = {} /\ acked = {}
  BY DEF Init
<1>2. Told = Blank
  BY <1>1, ReplayOfNothing DEF Told
<1>3. control \in Seq(LogEvents)
  BY <1>1
<1>4. DOMAIN files = {} /\ Found(files) = {} /\ DOMAIN removed = {}
  BY <1>1, NothingFound
<1>5. Segments(files, removed, Told, entered) /\ Whole(files, Told, Told.inflight)
  BY <1>2, <1>4 DEF Segments, Whole, Blank
<1>6. Numbers(files, Told, entered)
  <2>1. MaxRecords \in Nat
    BY SpoolAssumption
  <2> QED BY <1>1, <1>2, <2>1 DEF Numbers, Blank
<1>7. Counted(files, Told, entered, acked)
  BY <1>1, <1>2, <1>4, FS_EmptySet DEF Counted, Left, Blank
<1>8. MemoryShape /\ Remembered
  BY <1>1, ClosedShape DEF MemoryShape, Remembered
<1>9. CallInv
  BY <1>1, ClosedShape, NoCallShape DEF CallInv
<1> QED BY <1>3, <1>5, <1>6, <1>7, <1>8, <1>9 DEF SpoolInv, DiskInv, Directory

LEMMA NextKeeps == SpoolInv /\ [Next]_vars => SpoolInv'
<1> SUFFICES ASSUME SpoolInv, [Next]_vars PROVE SpoolInv'
  OBVIOUS
<1>1. CASE Age
  BY <1>1, StutterKeeps DEF Age, disk, history
<1>2. CASE UNCHANGED vars
  BY <1>2, StutterKeeps DEF vars
<1>3. CASE Steps
  BY <1>3, EnforceAgeKeeps, EnsureCapacityKeeps, RecordRejectedKeeps, AppendRecordKeeps, FreezeKeeps,
     ReturnKeeps, ReclaimEmptySegmentsKeeps, SyncDirectoryKeeps, MaybeCompactControlKeeps,
     SelectActiveSegmentKeeps DEF Steps
<1>4. CASE (\E kind \in Kinds : Enqueue(kind)) \/ NextBatch \/ Ack \/ SplitInflight \/ DropInflight \/ Open
  BY <1>4, EnqueueKeeps, NextBatchKeeps, AckKeeps, SplitInflightKeeps, DropInflightKeeps, OpenKeeps
<1>5. CASE Fails \/ Crash
  BY <1>5, FailsKeeps, CrashKeeps
<1> QED BY <1>1, <1>2, <1>3, <1>4, <1>5 DEF Next

(* The invariant the theorems below rest on. *)
LEMMA SpoolIsSound == Spec => []SpoolInv
BY InitKeeps, NextKeeps, PTL DEF Spec

-----------------------------------------------------------------------------
(***************************************************************************)
(* What the runs check of the spool.                                       *)
(***************************************************************************)
LEMMA LeftoverFacts ==
    ASSUME SpoolInv, NEW segments \in Leftovers
    PROVE  /\ Directory(segments, <<>>, Told, entered, acked)
           /\ Left(segments, Told) = Left(files, Told)
<1>1. PICK back \in SUBSET DOMAIN removed : segments = Restored(files, removed, back)
  BY DEF Leftovers, Restored
<1>2. Directory(files, removed, Told, entered, acked)
  BY DEF SpoolInv, DiskInv
<1> QED BY <1>1, <1>2, CrashingKeeps

LEMMA SpoolInvIsOpenable == SpoolInv => Openable
<1> SUFFICES ASSUME SpoolInv, NEW segments \in Leftovers
             PROVE  /\ Valid(Recovered(segments), segments)
                    /\ \A s, t \in DOMAIN segments : s # t => segments[s] \cap segments[t] = {}
  BY DEF Openable
<1>1. Directory(segments, <<>>, Told, entered, acked)
  BY LeftoverFacts
<1>2. Recovered(segments).live = Left(segments, Told) /\ Recovered(segments).inflight = Told.inflight
  BY <1>1, Recovers
<1>3. Whole(segments, Told, Told.inflight)
  BY <1>1 DEF Directory
<1>4. \A s \in DOMAIN segments : segments[s] \ Told.dead \subseteq Left(segments, Told)
  BY InFound DEF Left
<1>5. Valid(Recovered(segments), segments)
  BY <1>2, <1>3, <1>4 DEF Valid, Whole
<1>6. \A s, t \in DOMAIN segments : s # t => segments[s] \cap segments[t] = {}
  BY <1>1 DEF Directory, Segments
<1> QED BY <1>5, <1>6

(* Openable, for any number of results, segments, restarts and faults:     *)
(* whenever the process dies, Open accepts what it left behind.            *)
THEOREM EveryDirectoryOpens == Spec => []Openable
BY SpoolIsSound, SpoolInvIsOpenable, PTL

LEMMA SpoolInvResumes == SpoolInv => RestartResumes
<1> SUFFICES ASSUME SpoolInv, NEW segments \in Leftovers, NEW state, state = Recovered(segments)
             PROVE  /\ spool.phase # "closed" => /\ state.live = spool.live
                                                 /\ state.inflight = spool.inflight
                                                 /\ state.dropped = spool.dropped
                    /\ \A n \in entered : n <= state.sequence
  BY DEF RestartResumes
<1>1. /\ Directory(segments, <<>>, Told, entered, acked)
      /\ Left(segments, Told) = Left(files, Told)
  BY LeftoverFacts
<1>2. /\ state.live = Left(segments, Told) /\ state.inflight = Told.inflight /\ state.dropped = Told.dropped
      /\ \A n \in entered : n <= state.sequence
  BY <1>1, Recovers
<1> QED BY <1>1, <1>2 DEF SpoolInv, Remembered

(* RestartResumes: at every durable write the directory recovers to what   *)
(* the process holds in memory, and no accepted number is given out again. *)
THEOREM RestartsShowNothing == Spec => []RestartResumes
BY SpoolIsSound, SpoolInvResumes, PTL

LEMMA SpoolInvCounts == SpoolInv => LossIsCounted
<1> SUFFICES ASSUME SpoolInv PROVE LossIsCounted
  OBVIOUS
<1>1. Counted(files, Told, entered, acked)
  BY DEF SpoolInv, DiskInv, Directory
<1>2. CASE spool.phase = "closed"
  BY <1>2 DEF LossIsCounted, SpoolInv, MemoryShape
<1>3. CASE spool.phase # "closed"
  <2>1. spool.live = Left(files, Told) /\ spool.dropped = Told.dropped
    BY <1>3 DEF SpoolInv, Remembered
  <2> QED BY <1>1, <2>1 DEF LossIsCounted, Counted
<1> QED BY <1>2, <1>3

(* LossIsCounted: what entered the spool is queued, acknowledged or        *)
(* counted as dropped, exactly once.                                       *)
THEOREM NoSilentLoss == Spec => []LossIsCounted
BY SpoolIsSound, SpoolInvCounts, PTL


-----------------------------------------------------------------------------
(***************************************************************************)
(* The steps a call has still to do, beside those it may add on its way.   *)
(***************************************************************************)
Has(names, todo) == \E i \in 1..Len(todo) : todo[i] \in names
Others(names) == names \cap {"reclaim", "sync", "compact", "reject"} = {}

LEMMA TailHas ==
    ASSUME NEW names, NEW todo \in Seq(StepNames), todo # <<>>, Has(names, Tail(todo))
    PROVE  Has(names, todo)
<1>1. /\ Len(Tail(todo)) = Len(todo) - 1
      /\ \A i \in 1..Len(Tail(todo)) : i + 1 \in 1..Len(todo) /\ Tail(todo)[i] = todo[i + 1]
  OBVIOUS
<1> QED BY <1>1 DEF Has

LEMMA CleanupHas ==
    ASSUME NEW names, Others(names), NEW todo \in Seq(StepNames), Has(names, Cleanup \o todo)
    PROVE  Has(names, todo)
<1> DEFINE longer == Cleanup \o todo
<1>1. /\ Len(todo) \in Nat /\ Len(longer) = Len(todo) + 3
      /\ longer[1] = "reclaim" /\ longer[2] = "sync" /\ longer[3] = "compact"
      /\ \A i \in 1..Len(todo) : longer[i + 3] = todo[i]
  BY DEF Cleanup
<1> HIDE DEF longer
<1>2. PICK i \in 1..Len(longer) : longer[i] \in names
  BY DEF Has, longer
<1>3. i \notin 1..3
  BY <1>1, <1>2 DEF Others
<1>4. PICK j \in 1..Len(todo) : j = i - 3
  BY <1>1, <1>2, <1>3
<1>5. longer[i] = todo[j]
  BY <1>1, <1>4
<1> QED BY <1>2, <1>5 DEF Has

(* No step gives a call such a step that did not have it.                  *)
LEMMA StepsHave ==
    ASSUME NEW names, Others(names), SpoolInv, Steps, Has(names, call'.todo)
    PROVE  Has(names, call.todo)
<1>1. /\ call.todo \in Seq(StepNames) /\ call = [todo |-> call.todo, size |-> call.size]
      /\ CallShape(call.todo, call.size, spool.sequence, entered)
  BY DEF SpoolInv, CallInv, CallShape
<1>2. call.todo # <<>>
  BY DEF Steps, EnforceAge, EnsureCapacity, RecordRejected, AppendRecord, Freeze, Return,
         ReclaimEmptySegments, SyncDirectory, MaybeCompactControl, SelectActiveSegment, At
<1>3. CASE Done
  <2>1. call'.todo = Tail(call.todo)
    BY <1>1, <1>3 DEF Done, Continue
  <2> QED BY <1>1, <1>2, <2>1, TailHas
<1>4. CASE Continue(Cleanup \o call.todo)
  <2>1. call'.todo = Cleanup \o call.todo
    BY <1>1, <1>4 DEF Continue
  <2> QED BY <1>1, <2>1, CleanupHas
<1>5. CASE Continue(<<"reject", "compact">>)
  <2>1. call'.todo = <<"reject", "compact">>
    BY <1>1, <1>5 DEF Continue
  <2>2. ~Has(names, <<"reject", "compact">>)
    BY DEF Has, Others
  <2> QED BY <2>1, <2>2
<1>6. CASE Continue(Tail(Tail(call.todo))) /\ Head(call.todo) = "reclaim"
  <2>1. call'.todo = Tail(Tail(call.todo))
    BY <1>1, <1>6 DEF Continue
  <2>2. Tail(call.todo) \in Seq(StepNames) /\ Tail(call.todo) # <<>>
    <3>1. Len(call.todo) > 1
      BY <1>1, <1>2, <1>6 DEF CallShape
    <3> QED BY <1>1, <3>1, LongTail
  <2>3. Has(names, Tail(call.todo))
    BY <2>1, <2>2, TailHas
  <2> QED BY <1>1, <1>2, <2>3, TailHas
<1>7. Done \/ Continue(Cleanup \o call.todo) \/ Continue(<<"reject", "compact">>)
      \/ (Continue(Tail(Tail(call.todo))) /\ Head(call.todo) = "reclaim")
  BY DEF Steps, EnforceAge, EnsureCapacity, RecordRejected, AppendRecord, Freeze, Return, Done, Drop,
         ReclaimEmptySegments, SyncDirectory, MaybeCompactControl, SelectActiveSegment, At
<1> QED BY <1>3, <1>4, <1>5, <1>6, <1>7

-----------------------------------------------------------------------------
(***************************************************************************)
(* The order of results, as long as one process chose the segments: the    *)
(* segments follow each other, and only the last one is written to.        *)
(***************************************************************************)
Sorted(f) == \A s, t \in DOMAIN f : s < t => \A m \in f[s], n \in f[t] : m < n

Chosen ==
    /\ spool.phase # "open" => DOMAIN files = {}
    /\ Sorted(files)
    /\ spool.active # 0 => \A s \in DOMAIN files : s <= spool.active

Chooses ==
    /\ spool.phase = "open" => ~Has({"select"}, call.todo)
    /\ spool.phase = "opening" => ~Has({"append"}, call.todo)

OrderInv ==
    /\ spent \in [restarts : Nat, faults : Nat]
    /\ spent.restarts = 0 => Chosen /\ Chooses

(* Where no segment changes and none becomes active. *)
LEMMA ChosenKept ==
    ASSUME Chosen, DOMAIN files' \subseteq DOMAIN files, \A s \in DOMAIN files' : files'[s] = files[s],
           spool'.active \in {0, spool.active},
           spool'.phase = spool.phase \/ spool'.phase = "open" \/ DOMAIN files = {}
    PROVE  Chosen'
BY DEF Chosen, Sorted

LEMMA StepsChoose ==
    ASSUME SpoolInv, Chooses, Steps, spool'.phase = spool.phase
    PROVE  Chooses'
<1>1. Others({"select"}) /\ Others({"append"})
  BY DEF Others
<1> QED BY <1>1, StepsHave DEF Chooses

LEMMA AppendChosen ==
    ASSUME SpoolInv, Chosen, Chooses, AppendRecord
    PROVE  Chosen' /\ spool'.phase = spool.phase
<1> DEFINE n == spool.sequence
           name == SegmentFor(n)
           records == (IF name \in DOMAIN files THEN files[name] ELSE {}) \cup {n}
           active == IF Bytes(records) >= SegmentTarget THEN 0 ELSE name
<1>1. /\ n = spool.sequence /\ name = SegmentFor(n) /\ active \in {0, name}
      /\ records = (IF name \in DOMAIN files THEN files[name] ELSE {}) \cup {n}
      /\ files' = [s \in DOMAIN files \cup {name} |-> IF s = name THEN records ELSE files[s]]
      /\ spool' = [spool EXCEPT !.live = @ \cup {n}, !.active = active]
  BY DEF AppendRecord
<1> HIDE DEF n, name, records, active
<1>2. /\ spool.phase # "closed" /\ call.todo # <<>> /\ Head(call.todo) = "append"
      /\ CallShape(call.todo, call.size, n, entered) /\ spool \in SpoolStates
  BY <1>1 DEF AppendRecord, At, SpoolInv, CallInv, MemoryShape
<1>3. call.todo \in Seq(StepNames) /\ 1 \in 1..Len(call.todo) /\ call.todo[1] = "append"
  BY <1>2 DEF CallShape
<1>4. n \in Records /\ n \notin entered
  BY <1>2, <1>3 DEF CallShape
<1>5. Has({"append"}, call.todo)
  BY <1>3 DEF Has
<1>6. spool.phase = "open"
  BY <1>2, <1>5 DEF Chooses, SpoolStates
<1>7. spool'.phase = "open" /\ spool'.active = active
  BY <1>1, <1>2, <1>6 DEF SpoolStates
<1>8. Found(files) \subseteq 1..n /\ Found(files) \subseteq entered /\ DOMAIN files \subseteq Found(files)
  <2>1. Directory(files, removed, Told, entered, acked)
    BY DEF SpoolInv, DiskInv
  <2>2. \A s \in DOMAIN files : s \in Found(files)
    BY <2>1, InFound DEF Directory, Segments
  <2> QED BY <1>1, <1>2, <2>2, InvFacts DEF SpoolInv, Remembered
<1>9. \A m \in Found(files) : m \in Nat /\ m < n
  BY <1>4, <1>8 DEF Records
<1>10. /\ name = n \/ name \in DOMAIN files
       /\ \A s \in DOMAIN files : s <= name /\ s \in Nat
  <2>1. name = n \/ (name = spool.active /\ spool.active # 0)
    BY <1>1 DEF SegmentFor
  <2> QED BY <2>1, <1>8, <1>9 DEF Chosen, SpoolInv, MemoryShape
<1>11. /\ DOMAIN files' = DOMAIN files \cup {name} /\ files'[name] = records
       /\ \A s \in DOMAIN files \ {name} : files'[s] = files[s]
  BY <1>1
<1>12. \A s \in DOMAIN files : \A m \in files[s] : m < n
  BY <1>9, InFound
<1>13. ASSUME NEW s \in DOMAIN files', NEW t \in DOMAIN files', s < t,
              NEW m \in files'[s], NEW k \in files'[t]
       PROVE  m < k
  <2>1. s # name
    BY <1>10, <1>11, <1>13, <1>4 DEF Records
  <2>2. s \in DOMAIN files /\ m \in files[s]
    BY <1>11, <2>1
  <2>3. CASE k = n
    BY <1>12, <2>2, <2>3
  <2>4. CASE k # n
    <3>1. t \in DOMAIN files /\ k \in files[t]
      BY <1>1, <1>11, <2>4
    <3> QED BY <1>13, <2>2, <3>1 DEF Chosen, Sorted
  <2> QED BY <2>3, <2>4
<1>14. active # 0 => \A s \in DOMAIN files' : s <= active
  <2>1. name \in Nat
    BY <1>4, <1>10 DEF Records
  <2> QED BY <1>1, <1>10, <1>11, <2>1
<1> QED BY <1>6, <1>7, <1>13, <1>14 DEF Chosen, Sorted

LEMMA SelectChosen ==
    ASSUME SpoolInv, Chosen, Chooses, SelectActiveSegment
    PROVE  Chosen' /\ spool'.phase = spool.phase
<1>1. /\ spool.phase # "closed" /\ call.todo # <<>> /\ Head(call.todo) = "select" /\ files' = files
      /\ CallShape(call.todo, call.size, spool.sequence, entered) /\ spool \in SpoolStates
  BY DEF SelectActiveSegment, At, disk, SpoolInv, CallInv, MemoryShape
<1>2. call.todo \in Seq(StepNames) /\ 1 \in 1..Len(call.todo) /\ call.todo[1] = "select"
  BY <1>1 DEF CallShape
<1>3. Has({"select"}, call.todo)
  BY <1>2 DEF Has
<1>4. DOMAIN files = {}
  BY <1>1, <1>3 DEF Chosen, Chooses
<1>5. PICK active : spool' = [spool EXCEPT !.active = active]
  BY DEF SelectActiveSegment
<1>6. spool'.phase = spool.phase
  BY <1>1, <1>5 DEF SpoolStates
<1> QED BY <1>1, <1>4, <1>6 DEF Chosen, Sorted

LEMMA ReturnChosen ==
    ASSUME SpoolInv, Chosen, Return
    PROVE  Chosen' /\ Chooses'
<1>1. /\ call.todo # <<>> /\ Head(call.todo) = "return" /\ Done /\ files' = files
      /\ spool' = [spool EXCEPT !.phase = "open"]
      /\ CallShape(call.todo, call.size, spool.sequence, entered) /\ spool \in SpoolStates
      /\ call = [todo |-> call.todo, size |-> call.size]
  BY DEF Return, At, disk, SpoolInv, CallInv, MemoryShape
<1>2. call.todo \in Seq(StepNames) /\ 1 \in 1..Len(call.todo) /\ call.todo[1] = "return"
  BY <1>1 DEF CallShape
<1>3. Len(call.todo) = 1
  BY <1>1, <1>2 DEF CallShape
<1>4. call'.todo = Tail(call.todo) /\ Len(Tail(call.todo)) = 0
  BY <1>1, <1>2, <1>3 DEF Done, Continue
<1>5. \A names : ~Has(names, call'.todo)
  BY <1>4 DEF Has
<1>6. spool'.phase = "open" /\ spool'.active = spool.active
  BY <1>1 DEF SpoolStates
<1>7. Chosen'
  BY <1>1, <1>6, ChosenKept
<1> QED BY <1>5, <1>6, <1>7 DEF Chooses

LEMMA StepsOrder ==
    ASSUME SpoolInv, Chosen, Chooses, Steps
    PROVE  Chosen' /\ Chooses'
<1>1. CASE Return
  BY <1>1, ReturnChosen
<1>2. CASE AppendRecord
  BY <1>2, AppendChosen, StepsChoose
<1>3. CASE SelectActiveSegment
  BY <1>3, SelectChosen, StepsChoose
<1>4. CASE EnforceAge \/ EnsureCapacity \/ RecordRejected \/ Freeze \/ SyncDirectory \/ MaybeCompactControl
  <2>1. spool \in SpoolStates /\ files' = files
    BY <1>4 DEF SpoolInv, MemoryShape, EnforceAge, EnsureCapacity, RecordRejected, Freeze,
         SyncDirectory, MaybeCompactControl
  <2>2. spool'.phase = spool.phase /\ spool'.active \in {0, spool.active}
    BY <1>4, <2>1 DEF SpoolStates, EnforceAge, EnsureCapacity, RecordRejected, Freeze, Drop,
         ActiveBeside, SyncDirectory, MaybeCompactControl
  <2> QED BY <2>1, <2>2, ChosenKept, StepsChoose
<1>5. CASE ReclaimEmptySegments
  <2>1. files' = Only(DOMAIN files \ Empty) /\ spool \in SpoolStates
        /\ spool' = [spool EXCEPT !.active = IF @ \in Empty THEN 0 ELSE @]
    BY <1>5 DEF ReclaimEmptySegments, SpoolInv, MemoryShape
  <2>2. DOMAIN files' \subseteq DOMAIN files /\ \A s \in DOMAIN files' : files'[s] = files[s]
    BY <2>1 DEF Only
  <2>3. spool'.phase = spool.phase /\ spool'.active \in {0, spool.active}
    BY <2>1 DEF SpoolStates
  <2> QED BY <2>2, <2>3, ChosenKept, StepsChoose
<1> QED BY <1>1, <1>2, <1>3, <1>4, <1>5 DEF Steps

(* Calls begin without a choice of segments, and opening without a result. *)
LEMMA CallsChoose ==
    /\ ~Has({"select"}, Enforce \o <<"append">>)
    /\ ~Has({"select"}, Enforce \o <<"freeze", "compact", "return">>)
    /\ ~Has({"select"}, Cleanup)
    /\ ~Has({"append"}, <<"reclaim", "sync", "select">> \o Enforce \o <<"compact", "return">>)
    /\ \A names : ~Has(names, <<>>)
    /\ ~Has({"select"}, <<"compact">>)
BY DEF Has, Enforce, Cleanup

LEMMA OrderStep ==
    ASSUME SpoolInv, Chosen, Chooses, [Next]_vars, ~Crash
    PROVE  Chosen' /\ Chooses'
<1>1. spool \in SpoolStates
  BY DEF SpoolInv, MemoryShape
<1>2. CASE \E kind \in Kinds : Enqueue(kind)
  <2>1. spool.phase = "open" /\ files' = files /\ call'.todo = Enforce \o <<"append">>
    BY <1>2 DEF Enqueue, Ready, disk
  <2>2. spool'.phase = "open" /\ spool'.active = spool.active
    BY <1>1, <1>2, <2>1 DEF Enqueue, SpoolStates
  <2> QED BY <2>1, <2>2, CallsChoose, ChosenKept DEF Chooses
<1>3. CASE NextBatch
  BY <1>3, CallsChoose, ChosenKept DEF NextBatch, Ready, Chooses, disk
<1>4. CASE Ack \/ SplitInflight \/ DropInflight
  <2>1. spool.phase = "open" /\ files' = files /\ call'.todo \in {Cleanup, <<"compact">>}
    BY <1>4 DEF Ack, End, SplitInflight, DropInflight, Ready
  <2>2. spool'.phase = "open" /\ spool'.active = spool.active
    BY <1>1, <1>4, <2>1 DEF Ack, End, SplitInflight, DropInflight, SpoolStates
  <2> QED BY <2>1, <2>2, CallsChoose, ChosenKept DEF Chooses
<1>5. CASE Open
  <2>1. /\ DOMAIN files = {} /\ files' = files /\ spool'.phase = "opening" /\ spool'.active = 0
        /\ call'.todo = <<"reclaim", "sync", "select">> \o Enforce \o <<"compact", "return">>
    BY <1>5 DEF Open, Chosen, disk, Recovered
  <2> QED BY <2>1, CallsChoose, ChosenKept DEF Chooses
<1>6. CASE Steps
  BY <1>6, StepsOrder
<1>7. CASE Fails
  <2>1. files' = files /\ call'.todo = <<>>
    BY <1>7 DEF Fails, NoCall, disk
  <2>2. CASE spool.phase = "opening"
    <3>1. spool' = Closed /\ DOMAIN files = {}
      BY <1>7, <2>2 DEF Fails, Chosen
    <3> QED BY <2>1, <3>1, ChosenKept, ClosedShape, CallsChoose DEF Chooses
  <2>3. CASE spool.phase # "opening"
    <3>1. spool' = spool
      BY <1>7, <2>3 DEF Fails
    <3> QED BY <2>1, <3>1, ChosenKept, CallsChoose DEF Chooses
  <2> QED BY <2>2, <2>3
<1>8. CASE Age \/ UNCHANGED vars
  <2>1. files' = files /\ spool' = spool /\ call' = call
    BY <1>8 DEF Age, vars, disk
  <2> QED BY <2>1, ChosenKept DEF Chooses
<1> QED BY <1>2, <1>3, <1>4, <1>5, <1>6, <1>7, <1>8 DEF Next

(* A batch is the oldest results of its path. *)
LEMMA FreezesTheOldest ==
    ASSUME SpoolInv, Chosen, Freeze
    PROVE  TakesOldest
<1> SUFFICES ASSUME spool.phase = "open", spool.inflight = {},
                    NEW m \in spool'.inflight, NEW n \in spool.live,
                    n < m, kinds[n].path = kinds[m].path
             PROVE  n \in spool'.inflight
  BY DEF TakesOldest
<1> DEFINE first == Min(spool.live)
           s == SegmentOf(first)
           waiting == {k \in files[s] \cap spool.live : k >= first /\ kinds[k].path = kinds[first].path}
<1>1. spool \in SpoolStates /\ spool.live = Left(files, Told) /\ spool.live \subseteq Records
  BY InvFacts DEF SpoolInv, MemoryShape, Remembered
<1>2. spool'.inflight = First(Limit, waiting)
  <2>1. spool.live # {}
    OBVIOUS
  <2>2. PICK active : spool' = [spool EXCEPT !.inflight = Oldest, !.active = active]
    BY <2>1 DEF Freeze
  <2>3. Oldest = First(Limit, waiting)
    BY DEF Oldest
  <2> QED BY <1>1, <2>2, <2>3 DEF SpoolStates
<1>3. first \in spool.live /\ \A k \in spool.live : first <= k
  <2>1. spool.live \in SUBSET Nat
    BY <1>1 DEF Records
  <2> QED BY <2>1, LeastRecord
<1>4. s \in DOMAIN files /\ first \in files[s]
  BY <1>1, <1>3, SegmentHolds DEF Left
<1>5. m \in waiting /\ Cardinality({k \in waiting : k < m}) < Limit
  BY <1>2 DEF First
<1>6. n \in waiting
  <2>1. PICK t \in DOMAIN files : n \in files[t]
    BY <1>1, InFound DEF Left
  <2>2. s \in Records /\ t \in Records
    <3>1. Directory(files, removed, Told, entered, acked)
      BY DEF SpoolInv, DiskInv
    <3>2. \A d \in DOMAIN files : d \in Found(files)
      BY <3>1, InFound DEF Directory, Segments
    <3> QED BY <1>4, <2>1, <3>2, InvFacts
  <2>3. first <= n /\ first \in Nat /\ n \in Nat /\ m \in Nat
    BY <1>1, <1>3, <1>5 DEF Records
  <2>4. ~(t < s)
    BY <1>4, <2>1, <2>3 DEF Chosen, Sorted
  <2>5. ~(s < t)
    BY <1>4, <1>5, <2>1, <2>3 DEF Chosen, Sorted
  <2>6. t = s
    BY <2>2, <2>4, <2>5 DEF Records
  <2> QED BY <1>5, <2>1, <2>3, <2>6
<1> HIDE DEF first, s
<1>7. Cardinality({k \in waiting : k < n}) <= Cardinality({k \in waiting : k < m})
  <2>1. waiting \subseteq Records
    BY <1>1
  <2>2. {k \in waiting : k < n} \subseteq {k \in waiting : k < m}
    BY <1>1, <1>5, <2>1 DEF Records
  <2>3. IsFiniteSet({k \in waiting : k < m})
    BY <2>1, RecordSets
  <2> QED BY <2>2, <2>3, FS_Subset
<1>8. Cardinality({k \in waiting : k < n}) < Limit
  <2>1. {k \in waiting : k < n} \subseteq Records /\ {k \in waiting : k < m} \subseteq Records
    BY <1>1
  <2>2. Cardinality({k \in waiting : k < n}) \in Nat /\ Cardinality({k \in waiting : k < m}) \in Nat
    BY <2>1, RecordSets
  <2> QED BY <1>5, <1>7, <2>2, SpoolAssumption
<1> QED BY <1>2, <1>6, <1>8 DEF First

LEMMA OthersTakeNone ==
    ASSUME SpoolInv, [Next]_vars, ~Freeze
    PROVE  TakesOldest
<1> SUFFICES ASSUME spool.phase = "open", spool.inflight = {} PROVE spool'.inflight = {}
  BY DEF TakesOldest
<1>1. spool \in SpoolStates
  BY DEF SpoolInv, MemoryShape
<1>2. ~SplitInflight /\ ~Open
  BY FS_EmptySet DEF SplitInflight, Open
<1>3. CASE (\E kind \in Kinds : Enqueue(kind)) \/ NextBatch \/ Ack \/ DropInflight
  BY <1>1, <1>3 DEF Enqueue, NextBatch, Ack, End, DropInflight, SpoolStates
<1>4. CASE Steps
  BY <1>1, <1>4 DEF Steps, EnforceAge, EnsureCapacity, RecordRejected, AppendRecord, Return, Drop,
       ReclaimEmptySegments, SyncDirectory, MaybeCompactControl, SelectActiveSegment, SpoolStates
<1>5. CASE Fails \/ Age \/ Crash \/ UNCHANGED vars
  BY <1>5 DEF Fails, Age, Crash, vars, Closed
<1> QED BY <1>2, <1>3, <1>4, <1>5 DEF Next

LEMMA OrderNextKeeps ==
    SpoolInv /\ OrderInv /\ [Next]_vars => OrderInv' /\ (spent.restarts = 0 => TakesOldest)
<1> SUFFICES ASSUME SpoolInv, OrderInv, [Next]_vars
             PROVE  OrderInv' /\ (spent.restarts = 0 => TakesOldest)
  OBVIOUS
<1>1. spent' = spent \/ Spend("faults") \/ Spend("restarts")
  BY DEF Next, Enqueue, NextBatch, Ack, SplitInflight, DropInflight, Open, Steps, Fails, Age, Crash, vars,
         EnforceAge, EnsureCapacity, RecordRejected, AppendRecord, Freeze, Return,
         ReclaimEmptySegments, SyncDirectory, MaybeCompactControl, SelectActiveSegment
<1>2. spent \in [restarts : Nat, faults : Nat]
  BY DEF OrderInv
<1>3. spent' \in [restarts : Nat, faults : Nat] /\ spent'.restarts >= spent.restarts
  BY <1>1, <1>2 DEF Spend
<1>4. Crash => spent'.restarts = spent.restarts + 1
  BY <1>2 DEF Crash, Spend
<1>5. spent'.restarts = 0 => spent.restarts = 0 /\ ~Crash
  BY <1>2, <1>3, <1>4
<1>6. OrderInv'
  BY <1>3, <1>5, OrderStep DEF OrderInv
<1>7. ASSUME spent.restarts = 0 PROVE TakesOldest
  BY <1>7, FreezesTheOldest, OthersTakeNone DEF OrderInv
<1> QED BY <1>6, <1>7

(* OldestFirstUntilRestart, for any sizes, limits and bounds: until the    *)
(* process restarts a batch is the oldest results of its path, although    *)
(* segments are closed early, deleted, evicted or written to again.        *)
THEOREM OldestGoFirst == Spec => OldestFirstUntilRestart
<1>1. Init => OrderInv
  <2> SUFFICES ASSUME Init PROVE OrderInv
    OBVIOUS
  <2>1. /\ files = <<>> /\ DOMAIN files = {} /\ spool = Closed /\ call = NoCall
        /\ spent \in [restarts : Nat, faults : Nat]
    BY NothingFound DEF Init
  <2> QED BY <2>1, ClosedShape DEF OrderInv, Chosen, Chooses, Sorted
<1>2. SpoolInv /\ OrderInv /\ [Next]_vars => OrderInv'
  BY OrderNextKeeps
<1>3. SpoolInv /\ OrderInv /\ [Next]_vars => [spent.restarts = 0 => TakesOldest]_vars
  BY OrderNextKeeps
<1> QED BY <1>1, <1>2, <1>3, SpoolIsSound, PTL DEF Spec, OldestFirstUntilRestart

-----------------------------------------------------------------------------
(***************************************************************************)
(* What a step of the spool means to its users: the results queued, the    *)
(* batch in flight and the count of dropped ones, read from the disk.      *)
(***************************************************************************)
Queued == Left(files, Told)
InFlight == Told.inflight
Lost == Told.dropped

Same == Queued' = Queued /\ InFlight' = InFlight /\ Lost' = Lost /\ entered' = entered
Enters(n) ==
    /\ n \in Records \ entered /\ entered' = entered \cup {n} /\ InFlight' = InFlight
    /\ \/ Queued' = Queued \cup {n} /\ Lost' = Lost
       \/ Queued' = Queued /\ Lost' = Lost + 1
Drops(refs) ==
    /\ refs \subseteq Queued /\ refs # {} /\ refs \cap InFlight = {}
    /\ Queued' = Queued \ refs /\ Lost' = Lost + Cardinality(refs)
    /\ InFlight' = InFlight /\ entered' = entered
Freezes ==
    InFlight = {} /\ Queued' = Queued /\ Lost' = Lost /\ entered' = entered

LEMMA WhatIsOpen ==
    ASSUME SpoolInv, spool.phase # "closed"
    PROVE  spool.live = Queued /\ spool.inflight = InFlight /\ spool.dropped = Lost
BY DEF SpoolInv, Remembered, Queued, InFlight, Lost

LEMMA OpenedMeans ==
    ASSUME SpoolInv', spool'.phase # "closed"
    PROVE  spool'.live = Queued' /\ spool'.inflight = InFlight' /\ spool'.dropped = Lost'
BY DEF SpoolInv, Remembered, Queued, InFlight, Lost

LEMMA QueueFacts ==
    ASSUME SpoolInv
    PROVE  /\ Queued \subseteq entered /\ entered \subseteq Records /\ InFlight \subseteq Queued
           /\ Lost \in Nat
<1>1. Directory(files, removed, Told, entered, acked)
  BY DEF SpoolInv, DiskInv
<1>2. Queued \subseteq entered
  BY <1>1, LeftIsIn DEF Directory, Queued
<1>3. InFlight \subseteq Queued
  BY <1>1, InFound DEF Directory, Whole, InFlight, Queued, Left
<1> QED BY <1>2, <1>3, InvFacts DEF Lost

LEMMA QuietMeans ==
    ASSUME SpoolInv, files' = files, control' = control, entered' = entered
    PROVE  Same
BY DEF Same, Queued, InFlight, Lost, Told

LEMMA CrashMeans == SpoolInv /\ Crash => Same
<1> SUFFICES ASSUME SpoolInv, Crash PROVE Same
  OBVIOUS
<1>1. PICK back \in SUBSET DOMAIN removed : files' = Restored(files, removed, back)
  BY DEF Crash, Restored
<1>2. Directory(files, removed, Told, entered, acked)
  BY DEF SpoolInv, DiskInv
<1>3. Left(files', Told) = Left(files, Told)
  BY <1>1, <1>2, CrashingKeeps
<1>4. control' = control /\ entered' = entered
  BY DEF Crash, history
<1>5. Told' = Told
  BY <1>4 DEF Told
<1> QED BY <1>3, <1>4, <1>5 DEF Same, Queued, InFlight, Lost

(* What was dropped: something, and not of the batch in flight. *)
LEMMA DropMeans ==
    ASSUME SpoolInv, SpoolInv', spool.phase # "closed", NEW refs, Drop(refs), refs # {},
           refs \subseteq spool.live, refs \cap spool.inflight = {}, entered' = entered
    PROVE  Drops(refs)
<1>1. /\ spool'.phase = spool.phase /\ spool'.live = spool.live \ refs
      /\ spool'.inflight = spool.inflight /\ spool'.dropped = spool.dropped + Cardinality(refs)
  BY DEF Drop, SpoolInv, MemoryShape, SpoolStates
<1>2. spool.live = Queued /\ spool.inflight = InFlight /\ spool.dropped = Lost
  BY WhatIsOpen
<1>3. spool'.live = Queued' /\ spool'.inflight = InFlight' /\ spool'.dropped = Lost'
  BY <1>1, OpenedMeans
<1> QED BY <1>1, <1>2, <1>3 DEF Drops

(* Victims are something. *)
LEMMA VictimsExist ==
    ASSUME SpoolInv, spool.phase # "closed", Evictable # {}
    PROVE  Victims # {}
<1>1. spool.live = Left(files, Told) /\ spool.live \subseteq Records
  BY InvFacts DEF SpoolInv, Remembered
<1>2. Evictable \in SUBSET Nat
  BY <1>1 DEF Evictable, Records
<1>3. Min(Evictable) \in Evictable
  BY <1>2, LeastRecord
<1>4. Min(Evictable) \in Found(files) /\ Min(Evictable) \in spool.live
  BY <1>1, <1>3 DEF Evictable, Left
<1> QED BY <1>4, SegmentHolds DEF Victims

LEMMA StepsMean ==
    SpoolInv /\ SpoolInv' /\ Steps =>
      Same \/ (\E n \in Records : Enters(n)) \/ (\E refs : Drops(refs)) \/ Freezes
<1> SUFFICES ASSUME SpoolInv, SpoolInv', Steps
             PROVE  Same \/ (\E n \in Records : Enters(n)) \/ (\E refs : Drops(refs)) \/ Freezes
  OBVIOUS
<1>1. spool \in SpoolStates
  BY DEF SpoolInv, MemoryShape
<1>2. CASE EnforceAge
  <2>1. spool.phase # "closed" /\ files' = files /\ entered' = entered
    BY <1>2 DEF EnforceAge, At, history
  <2>2. CASE Expired # {}
    <3>1. Expired \subseteq spool.live /\ Expired \cap spool.inflight = {} /\ Drop(Expired)
      BY <1>2, <2>2 DEF Expired, EnforceAge
    <3> QED BY <2>1, <2>2, <3>1, DropMeans
  <2>3. CASE Expired = {}
    BY <1>2, <2>1, <2>3, QuietMeans DEF EnforceAge
  <2> QED BY <2>2, <2>3
<1>3. CASE EnsureCapacity
  <2>1. spool.phase # "closed" /\ files' = files /\ entered' = entered
    BY <1>3 DEF EnsureCapacity, At, history
  <2>2. control' = control \/ (Evictable # {} /\ Drop(Victims))
    BY <1>3 DEF EnsureCapacity
  <2>3. CASE control' = control
    BY <2>1, <2>3, QuietMeans
  <2>4. CASE Evictable # {} /\ Drop(Victims)
    <3>1. Victims \subseteq spool.live /\ Victims \cap spool.inflight = {} /\ Victims # {}
      BY <2>1, <2>4, VictimsAreSpare, VictimsExist
    <3> QED BY <2>1, <2>4, <3>1, DropMeans
  <2> QED BY <2>2, <2>3, <2>4
<1>4. CASE RecordRejected
  <2> DEFINE n == spool.sequence
  <2>1. /\ spool.phase # "closed" /\ call.todo # <<>> /\ Head(call.todo) = "reject"
        /\ entered' = entered \cup {n} /\ spool' = [spool EXCEPT !.dropped = @ + 1]
    BY <1>4 DEF RecordRejected, At
  <2>2. n \in Records /\ n \notin entered
    <3>1. CallShape(call.todo, call.size, n, entered)
      BY DEF SpoolInv, CallInv
    <3>2. call.todo \in Seq(StepNames) /\ 1 \in 1..Len(call.todo) /\ call.todo[1] = "reject"
      BY <2>1, <3>1 DEF CallShape
    <3> QED BY <3>1, <3>2 DEF CallShape
  <2>3. /\ spool'.phase = spool.phase /\ spool'.live = spool.live
        /\ spool'.inflight = spool.inflight /\ spool'.dropped = spool.dropped + 1
    BY <1>1, <2>1 DEF SpoolStates
  <2>4. Queued' = Queued /\ InFlight' = InFlight /\ Lost' = Lost + 1
    BY <2>1, <2>3, WhatIsOpen, OpenedMeans
  <2> QED BY <2>1, <2>2, <2>4 DEF Enters
<1>5. CASE AppendRecord
  <2> DEFINE n == spool.sequence
  <2>1. /\ spool.phase # "closed" /\ call.todo # <<>> /\ Head(call.todo) = "append"
        /\ entered' = entered \cup {n}
    BY <1>5 DEF AppendRecord, At
  <2>2. n \in Records /\ n \notin entered
    <3>1. CallShape(call.todo, call.size, n, entered)
      BY DEF SpoolInv, CallInv
    <3>2. call.todo \in Seq(StepNames) /\ 1 \in 1..Len(call.todo) /\ call.todo[1] = "append"
      BY <2>1, <3>1 DEF CallShape
    <3> QED BY <3>1, <3>2 DEF CallShape
  <2>3. PICK active : spool' = [spool EXCEPT !.live = @ \cup {n}, !.active = active]
    BY <1>5 DEF AppendRecord
  <2>4. /\ spool'.phase = spool.phase /\ spool'.live = spool.live \cup {n}
        /\ spool'.inflight = spool.inflight /\ spool'.dropped = spool.dropped
    BY <1>1, <2>3 DEF SpoolStates
  <2>5. Queued' = Queued \cup {n} /\ InFlight' = InFlight /\ Lost' = Lost
    BY <2>1, <2>4, WhatIsOpen, OpenedMeans
  <2> QED BY <2>1, <2>2, <2>5 DEF Enters
<1>6. CASE Freeze
  <2>1. spool.phase # "closed" /\ files' = files /\ entered' = entered
    BY <1>6 DEF Freeze, At, history
  <2>2. CASE spool.inflight # {} \/ spool.live = {}
    BY <1>6, <2>1, <2>2, QuietMeans DEF Freeze
  <2>3. CASE spool.inflight = {} /\ spool.live # {}
    <3>1. PICK active : spool' = [spool EXCEPT !.inflight = Oldest, !.active = active]
      BY <1>6, <2>3 DEF Freeze
    <3>2. spool'.phase = spool.phase /\ spool'.live = spool.live /\ spool'.dropped = spool.dropped
      BY <1>1, <3>1 DEF SpoolStates
    <3>3. InFlight = {} /\ Queued' = Queued /\ Lost' = Lost
      BY <2>1, <2>3, <3>2, WhatIsOpen, OpenedMeans
    <3> QED BY <2>1, <3>3 DEF Freezes
  <2> QED BY <2>2, <2>3
<1>7. CASE Return \/ SyncDirectory \/ SelectActiveSegment
  BY <1>7, QuietMeans DEF Return, SyncDirectory, SelectActiveSegment, disk, history
<1>8. CASE ReclaimEmptySegments \/ MaybeCompactControl
  <2>1. spool.phase # "closed" /\ entered' = entered
    BY <1>8 DEF ReclaimEmptySegments, MaybeCompactControl, At, history
  <2>2. /\ spool'.phase = spool.phase /\ spool'.live = spool.live
        /\ spool'.inflight = spool.inflight /\ spool'.dropped = spool.dropped
    <3>1. CASE MaybeCompactControl
      BY <3>1 DEF MaybeCompactControl
    <3>2. CASE ReclaimEmptySegments
      <4>1. PICK active : spool' = [spool EXCEPT !.active = active]
        BY <3>2 DEF ReclaimEmptySegments
      <4> QED BY <1>1, <4>1 DEF SpoolStates
    <3> QED BY <1>8, <3>1, <3>2
  <2>3. Same
    BY <2>1, <2>2, WhatIsOpen, OpenedMeans DEF Same
  <2> QED BY <2>3
<1> QED BY <1>2, <1>3, <1>4, <1>5, <1>6, <1>7, <1>8 DEF Steps

-----------------------------------------------------------------------------
(***************************************************************************)
(* The delivery.  A batch that is underway is the one in flight in the     *)
(* spool, or it is done with at the controller: completed, or rejected     *)
(* for good; and what was applied waits in flight for its acknowledgement. *)
(***************************************************************************)
Bad(batch) == \E n \in batch : kinds[n].bad

Known(batch) == batch # {} /\ batch \subseteq entered

LedgerInv ==
    /\ applied \in [Records -> {0, 1}] /\ stored \in [Records -> Nat]
    /\ \A n \in Records : applied[n] = 1 => n \in entered
    /\ \A batch \in ledger : Known(batch) /\ ~Bad(batch) /\ \A n \in batch : applied[n] = 1
    /\ \A n \in Queued : applied[n] = 1 => n \in InFlight /\ InFlight \in ledger

LateInv ==
    /\ \A batch \in late : Known(batch) /\ (batch \in ledger \/ Bad(batch) \/ batch = InFlight)
    /\ unanswered # {} => unanswered = InFlight

(* The uploader holds the batch in flight, or none; a call that is to give *)
(* it a batch has taken the one before.                                    *)
Asks(todo) == Has({"freeze", "return"}, todo)

HeldInv ==
    held # {} =>
      /\ spool.phase = "open" /\ held = InFlight
      /\ ~Asks(call.todo)

UploadInv ==
    /\ upload \in {"idle", "asking", "posted", "accepted", "refused"}
    /\ upload \in {"idle", "asking"} => wire = {}
    /\ upload \in {"posted", "accepted", "refused"} => wire = held /\ wire # {}
    /\ upload = "accepted" => wire \in ledger
    /\ upload = "refused" => Bad(wire)
    /\ upload \in {"accepted", "refused"} => unanswered = {}

DeliveryInv ==
    /\ SpoolInv /\ DOMAIN kinds = Records
    /\ LedgerInv /\ LateInv /\ HeldInv /\ UploadInv

(***************************************************************************)
(* What the steps of the spool leave alone.                                *)
(***************************************************************************)
KindsKept == DOMAIN kinds' = Records /\ \A n \in entered : kinds'[n] = kinds[n]

LEMMA BadKept ==
    ASSUME KindsKept, NEW batch, batch \subseteq entered
    PROVE  Bad(batch)' <=> Bad(batch)
BY DEF KindsKept, Bad

LEMMA LedgerKept ==
    ASSUME DeliveryInv, SpoolInv', KindsKept, applied' = applied, ledger' = ledger,
           stored' = stored \/ stored' \in [Records -> Nat],
           Same \/ (\E n \in Records : Enters(n)) \/ (\E refs : Drops(refs)) \/ Freezes
    PROVE  LedgerInv'
<1> USE DEF DeliveryInv
<1>1. /\ applied \in [Records -> {0, 1}] /\ \A n \in Records : applied[n] = 1 => n \in entered
      /\ \A n \in Queued : applied[n] = 1 => n \in InFlight /\ InFlight \in ledger
  BY DEF LedgerInv
<1>2. entered \subseteq entered'
  BY DEF Same, Enters, Drops, Freezes
<1>3. \A n \in Records : applied'[n] = 1 => n \in entered'
  BY <1>1, <1>2
<1>4. ASSUME NEW batch \in ledger
      PROVE  Known(batch)' /\ ~Bad(batch)' /\ \A n \in batch : applied'[n] = 1
  <2>1. Known(batch) /\ ~Bad(batch) /\ \A n \in batch : applied[n] = 1
    BY DEF LedgerInv
  <2>2. ~Bad(batch)'
    BY <2>1, BadKept DEF Known
  <2> QED BY <1>2, <2>1, <2>2 DEF Known
<1>5. ASSUME NEW n \in Queued', applied'[n] = 1
      PROVE  n \in InFlight' /\ InFlight' \in ledger'
  <2>1. CASE Same
    BY <1>1, <1>5, <2>1 DEF Same
  <2>2. CASE \E m \in Records : Enters(m)
    <3>1. PICK m \in Records : Enters(m)
      BY <2>2
    <3>2. n # m
      BY <1>1, <1>5, <3>1 DEF Enters
    <3> QED BY <1>1, <1>5, <3>1, <3>2 DEF Enters
  <2>3. CASE \E refs : Drops(refs)
    BY <1>1, <1>5, <2>3 DEF Drops
  <2>4. CASE Freezes
    BY <1>1, <1>5, <2>4 DEF Freezes
  <2> QED BY <2>1, <2>2, <2>3, <2>4
<1>6. stored' \in [Records -> Nat]
  BY DEF LedgerInv
<1> QED BY <1>1, <1>3, <1>4, <1>5, <1>6 DEF LedgerInv

LEMMA LateKept ==
    ASSUME DeliveryInv, KindsKept, ledger \subseteq ledger', entered \subseteq entered',
           InFlight' = InFlight \/ InFlight = {},
           late' \subseteq late, unanswered' = unanswered \/ unanswered' = {}
    PROVE  LateInv'
<1> USE DEF DeliveryInv
<1>1. ASSUME NEW batch \in late'
      PROVE  Known(batch)' /\ (batch \in ledger' \/ Bad(batch)' \/ batch = InFlight')
  <2>1. Known(batch) /\ (batch \in ledger \/ Bad(batch) \/ batch = InFlight)
    BY <1>1 DEF LateInv
  <2>2. Bad(batch)' <=> Bad(batch)
    BY <2>1, BadKept DEF Known
  <2> QED BY <2>1, <2>2 DEF Known
<1>2. unanswered' # {} => unanswered' = InFlight'
  BY DEF LateInv
<1> QED BY <1>1, <1>2 DEF LateInv

LEMMA UploadKept ==
    ASSUME DeliveryInv, KindsKept, upload' = upload, wire' = wire, ledger' = ledger,
           unanswered' = unanswered, held' = held \/ held = {}
    PROVE  UploadInv'
<1> USE DEF DeliveryInv
<1>1. wire # {} => wire = held /\ wire = InFlight
  BY DEF UploadInv, HeldInv
<1>2. wire \subseteq entered
  BY <1>1, QueueFacts
<1>3. Bad(wire) => Bad(wire)'
  BY <1>2 DEF KindsKept, Bad
<1> QED BY <1>1, <1>3 DEF UploadInv

-----------------------------------------------------------------------------
(***************************************************************************)
(* Each action of the delivery keeps the invariant.                        *)
(***************************************************************************)
LEMMA DeliveryInitKeeps == DeliveryInit => DeliveryInv
<1> SUFFICES ASSUME DeliveryInit PROVE DeliveryInv
  OBVIOUS
<1> USE DEF DeliveryInit
<1>1. SpoolInv
  BY InitKeeps
<1>2. /\ DOMAIN kinds = Records /\ held = {} /\ entered = {} /\ files = <<>>
      /\ upload = "idle" /\ wire = {} /\ late = {} /\ ledger = {}
      /\ applied = [n \in Records |-> 0] /\ stored = [n \in Records |-> 0] /\ unanswered = {}
  BY DEF Init
<1>3. Queued = {}
  BY <1>1, <1>2, QueueFacts
<1> QED BY <1>1, <1>2, <1>3 DEF DeliveryInv, LedgerInv, LateInv, HeldInv, UploadInv

LEMMA SpoolStepKeeps ==
    ASSUME DeliveryInv, SpoolStep, UNCHANGED deliveryVars
    PROVE  /\ DeliveryInv'
           /\ Same \/ (\E n \in Records : Enters(n)) \/ (\E refs : Drops(refs)) \/ Freezes
<1> USE DEF DeliveryInv
<1>1. /\ upload' = upload /\ wire' = wire /\ late' = late /\ ledger' = ledger
      /\ applied' = applied /\ stored' = stored /\ unanswered' = unanswered
  BY DEF deliveryVars
<1>2. SpoolInv'
  <2>1. [Next]_vars
    BY DEF SpoolStep, Next
  <2> QED BY <2>1, NextKeeps
<1>3. KindsKept
  <2>1. CASE \E kind \in Kinds : Enqueue(kind)
    <3>1. PICK kind \in Kinds : kinds' = [kinds EXCEPT ![spool.sequence + 1] = kind] /\ spool.phase # "closed"
      BY <2>1 DEF Enqueue, Ready
    <3>2. \A n \in entered : n # spool.sequence + 1
      <4>1. entered \subseteq (1..Told.sequence) \cup Found(files) /\ Told.sequence \in 0..MaxRecords
        BY DEF SpoolInv, DiskInv, Directory, Numbers
      <4>2. Told.sequence <= spool.sequence /\ Found(files) \subseteq 1..spool.sequence
        BY <3>1 DEF SpoolInv, Remembered
      <4>3. spool.sequence \in 0..MaxRecords /\ MaxRecords \in Nat
        BY InvFacts
      <4> QED BY <4>1, <4>2, <4>3
    <3>3. \A n \in entered : n \in Records
      BY InvFacts
    <3> QED BY <3>1, <3>2, <3>3 DEF KindsKept
  <2>2. CASE kinds' = kinds
    BY <2>2 DEF KindsKept
  <2>3. kinds' = kinds \/ \E kind \in Kinds : Enqueue(kind)
    BY DEF SpoolStep, Open, Steps, Fails, Age, EnforceAge, EnsureCapacity, RecordRejected, AppendRecord,
           Freeze, Return, ReclaimEmptySegments, SyncDirectory, MaybeCompactControl, SelectActiveSegment
  <2> QED BY <2>1, <2>2, <2>3
<1>4. CASE Steps
  <2>1. Same \/ (\E n \in Records : Enters(n)) \/ (\E refs : Drops(refs)) \/ Freezes
    BY <1>2, <1>4, StepsMean
  <2>2. entered \subseteq entered' /\ (InFlight' = InFlight \/ InFlight = {})
    BY <2>1 DEF Same, Enters, Drops, Freezes
  <2>3. LedgerInv' /\ LateInv'
    BY <1>1, <1>3, <1>2, <2>1, <2>2, LedgerKept, LateKept
  <2>4. CASE Return
    <3>1. /\ call.todo # <<>> /\ Head(call.todo) = "return" /\ Done /\ control' = control /\ files' = files
          /\ held' = (IF spool.phase = "open" THEN spool.inflight ELSE {}) /\ spool.phase # "closed"
          /\ spool' = [spool EXCEPT !.phase = "open"]
      BY <2>4 DEF Return, At, disk
    <3>2. /\ call.todo \in Seq(StepNames) /\ CallShape(call.todo, call.size, spool.sequence, entered)
          /\ call = [todo |-> call.todo, size |-> call.size]
      BY DEF SpoolInv, CallInv, CallShape
    <3>3. 1 \in 1..Len(call.todo) /\ call.todo[1] = "return"
      BY <3>1, <3>2
    <3>4. Len(call.todo) = 1 /\ held = {}
      <4>1. Asks(call.todo)
        BY <3>3 DEF Asks, Has
      <4> QED BY <3>2, <3>3, <4>1 DEF CallShape, HeldInv
    <3>5. ~Asks(call'.todo)
      <4>1. call'.todo = Tail(call.todo)
        BY <3>1, <3>2 DEF Done, Continue
      <4>2. Len(Tail(call.todo)) = 0
        BY <3>1, <3>2, <3>4
      <4> QED BY <4>1, <4>2 DEF Asks, Has
    <3>6. spool'.phase = "open" /\ InFlight' = InFlight /\ spool.inflight = InFlight
      <4>1. spool \in SpoolStates
        BY DEF SpoolInv, MemoryShape
      <4>2. spool'.phase = "open"
        BY <3>1, <4>1 DEF SpoolStates
      <4>3. InFlight' = InFlight
        BY <3>1 DEF InFlight, Told
      <4> QED BY <3>1, <4>2, <4>3, WhatIsOpen
    <3>7. HeldInv'
      BY <3>1, <3>5, <3>6 DEF HeldInv
    <3>8. UploadInv'
      BY <1>1, <1>3, <3>4, UploadKept
    <3> QED BY <1>2, <1>3, <2>1, <2>3, <3>7, <3>8 DEF KindsKept
  <2>5. CASE ~Return
    <3>1. held' = held
      BY <1>4, <2>5 DEF Steps, EnforceAge, EnsureCapacity, RecordRejected, AppendRecord,
           Freeze, ReclaimEmptySegments, SyncDirectory, MaybeCompactControl, SelectActiveSegment
    <3>2. spool'.phase = spool.phase
      <4>1. spool \in SpoolStates
        BY DEF SpoolInv, MemoryShape
      <4> QED BY <4>1, <1>4, <2>5 DEF Steps, EnforceAge, EnsureCapacity, RecordRejected, AppendRecord, Drop,
           Freeze, ReclaimEmptySegments, SyncDirectory, MaybeCompactControl, SelectActiveSegment, SpoolStates
    <3>3. HeldInv'
      <4>1. Others({"freeze", "return"})
        BY DEF Others
      <4>2. Asks(call'.todo) => Asks(call.todo)
        BY <1>4, <4>1, StepsHave DEF Asks
      <4> QED BY <2>2, <3>1, <3>2, <4>2 DEF HeldInv
    <3>4. UploadInv'
      BY <1>1, <1>3, <3>1, UploadKept
    <3> QED BY <1>2, <1>3, <2>1, <2>3, <3>3, <3>4 DEF KindsKept
  <2> QED BY <2>4, <2>5
<1>5. CASE (\E kind \in Kinds : Enqueue(kind)) \/ Open \/ Fails \/ Age
  <2>1. Same
    BY <1>5, QuietMeans DEF Enqueue, Open, Fails, Age, disk, history
  <2>2. LedgerInv' /\ LateInv'
    <3>1. entered \subseteq entered' /\ (InFlight' = InFlight \/ InFlight = {})
      BY <2>1 DEF Same
    <3> QED BY <1>1, <1>2, <1>3, <2>1, <3>1, LedgerKept, LateKept
  <2>3. held' = held
    BY <1>5 DEF Enqueue, Open, Fails, Age
  <2>4. UploadInv'
    BY <1>1, <1>3, <2>3, UploadKept
  <2>5. HeldInv'
    <3>1. CASE \E kind \in Kinds : Enqueue(kind)
      <4>1. PICK size : call' = [todo |-> Enforce \o <<"append">>, size |-> size]
        BY <3>1 DEF Enqueue
      <4>2. spool'.phase = spool.phase
        BY <3>1 DEF Enqueue, SpoolInv, MemoryShape, SpoolStates
      <4>3. ~Asks(Enforce \o <<"append">>)
        BY DEF Asks, Has, Enforce
      <4> QED BY <2>1, <2>3, <4>1, <4>2, <4>3 DEF HeldInv, Same
    <3>2. CASE Open
      BY <2>3, <3>2 DEF Open, HeldInv
    <3>3. CASE Fails
      <4>1. ~Asks(call'.todo)
        BY <3>3 DEF Fails, NoCall, Asks, Has
      <4>2. spool.phase = "open" => spool'.phase = "open"
        BY <3>3 DEF Fails
      <4> QED BY <2>1, <2>3, <4>1, <4>2 DEF HeldInv, Same
    <3>4. CASE Age
      BY <2>1, <2>3, <3>4 DEF HeldInv, Same, Age
    <3> QED BY <1>5, <3>1, <3>2, <3>3, <3>4
  <2> QED BY <1>2, <1>3, <2>1, <2>2, <2>4, <2>5 DEF KindsKept
<1> QED BY <1>4, <1>5 DEF SpoolStep

LEMMA AskKeeps ==
    ASSUME DeliveryInv, Ask
    PROVE  DeliveryInv' /\ Same
<1> USE DEF DeliveryInv, Ask
<1>1. /\ upload = "idle" /\ upload' = "asking" /\ held' = {} /\ kinds' = kinds
      /\ wire' = wire /\ late' = late /\ ledger' = ledger /\ applied' = applied /\ stored' = stored /\ unanswered' = unanswered
  BY DEF NextBatch
<1>2. SpoolInv' /\ Same
  BY NextBatchKeeps, QuietMeans DEF NextBatch, disk, history
<1>3. KindsKept
  BY <1>1 DEF KindsKept
<1>4. LedgerInv' /\ LateInv'
  <2>1. entered \subseteq entered' /\ (InFlight' = InFlight \/ InFlight = {})
    BY <1>2 DEF Same
  <2> QED BY <1>1, <1>2, <1>3, <2>1, LedgerKept, LateKept
<1>5. HeldInv' /\ UploadInv'
  BY <1>1 DEF HeldInv, UploadInv
<1> QED BY <1>2, <1>3, <1>4, <1>5 DEF KindsKept

(* The spool does not move. *)
LEMMA Still ==
    ASSUME DeliveryInv, UNCHANGED vars
    PROVE  /\ SpoolInv' /\ Same /\ KindsKept /\ HeldInv'
           /\ held' = held /\ entered' = entered /\ InFlight' = InFlight /\ Queued' = Queued
<1> USE DEF DeliveryInv
<1>1. /\ kinds' = kinds /\ files' = files /\ removed' = removed /\ control' = control /\ spool' = spool
      /\ call' = call /\ held' = held /\ entered' = entered /\ acked' = acked
  BY DEF vars
<1>2. SpoolInv' /\ Same /\ KindsKept
  BY <1>1, StutterKeeps, QuietMeans DEF KindsKept
<1>3. HeldInv'
  BY <1>1, <1>2 DEF HeldInv, Same
<1> QED BY <1>1, <1>2, <1>3 DEF Same

LEMMA PostKeeps ==
    ASSUME DeliveryInv, Post
    PROVE  DeliveryInv' /\ Same /\ (upload' = "posted" /\ unanswered # {} => wire' = unanswered)
<1> USE DEF DeliveryInv, Post
<1>1. SpoolInv' /\ Same /\ KindsKept /\ HeldInv' /\ held' = held /\ entered' = entered /\ InFlight' = InFlight
  BY Still
<1>2. LedgerInv'
  BY <1>1, LedgerKept
<1>3. CASE held = {}
  <2>1. LateInv'
    BY <1>1, <1>3, LateKept
  <2>2. UploadInv' /\ upload' # "posted"
    BY <1>1, <1>3 DEF UploadInv
  <2> QED BY <1>1, <1>2, <2>1, <2>2 DEF KindsKept
<1>4. CASE held # {}
  <2>1. upload' = "posted" /\ wire' = held /\ unanswered' = held /\ held = InFlight
    BY <1>4 DEF HeldInv
  <2>2. LateInv'
    <3>1. ASSUME NEW batch \in late'
          PROVE  Known(batch)' /\ (batch \in ledger' \/ Bad(batch)' \/ batch = InFlight')
      <4>1. Known(batch) /\ (batch \in ledger \/ Bad(batch) \/ batch = InFlight)
        BY <3>1 DEF LateInv
      <4>2. Bad(batch)' <=> Bad(batch)
        BY <1>1, <4>1, BadKept DEF Known
      <4> QED BY <1>1, <4>1, <4>2 DEF Known
    <3> QED BY <1>1, <2>1, <3>1 DEF LateInv
  <2>3. UploadInv'
    BY <1>1, <1>4, <2>1 DEF UploadInv
  <2>4. unanswered # {} => wire' = unanswered
    BY <2>1 DEF LateInv
  <2> QED BY <1>1, <1>2, <2>2, <2>3, <2>4 DEF KindsKept
<1> QED BY <1>3, <1>4

LEMMA InsertCounts ==
    ASSUME NEW rows, Insert(rows), stored \in [Records -> Nat]
    PROVE  stored' \in [Records -> Nat]
BY DEF Insert

(* The controller handles a batch, of now or of then: nothing happens, or  *)
(* it is the batch in flight, and applied for the first time, or undone    *)
(* but for some of its telemetry.                                          *)
Applies(batch) ==
    /\ batch # {} /\ batch \subseteq Queued /\ \A n \in batch : applied[n] = 0
    /\ applied' = [n \in Records |-> IF n \in batch THEN 1 ELSE applied[n]]
    /\ Insert(batch)

Stores(rows) ==
    /\ rows # {} /\ rows \subseteq Queued /\ \A n \in rows : applied[n] = 0
    /\ applied' = applied
    /\ Insert(rows)

Handles ==
    \/ applied' = applied /\ stored' = stored
    \/ \E batch : Applies(batch)
    \/ \E rows : Stores(rows)

LEMMA IngestKeeps ==
    ASSUME DeliveryInv, UNCHANGED vars, NEW batch, Ingest(batch), Known(batch),
           batch \in ledger \/ Bad(batch) \/ batch = InFlight,
           late' \subseteq late, unanswered' = unanswered \/ unanswered' = {}
    PROVE  /\ LedgerInv' /\ LateInv' /\ ledger \subseteq ledger'
           /\ Accepts(batch) => batch \in ledger'
           /\ ~Accepts(batch) => Bad(batch)
           /\ (applied' = applied /\ stored' = stored) \/ Applies(batch)
<1> USE DEF DeliveryInv
<1>1. SpoolInv' /\ Same /\ KindsKept /\ entered' = entered /\ InFlight' = InFlight /\ Queued' = Queued
  BY Still
<1>2. /\ applied \in [Records -> {0, 1}] /\ stored \in [Records -> Nat]
      /\ \A n \in Records : applied[n] = 1 => n \in entered
      /\ \A n \in Queued : applied[n] = 1 => n \in InFlight /\ InFlight \in ledger
      /\ InFlight \subseteq Queued /\ Queued \subseteq entered /\ entered \subseteq Records
  BY QueueFacts DEF LedgerInv
<1>3. ~Accepts(batch) => Bad(batch)
  BY DEF Accepts, Bad
<1>4. CASE ~(Accepts(batch) /\ batch \notin ledger)
  <2>1. ledger' = ledger /\ applied' = applied /\ stored' = stored
    BY <1>4 DEF Ingest
  <2>2. LedgerInv' /\ LateInv'
    BY <1>1, <1>2, <2>1, LedgerKept, LateKept
  <2> QED BY <1>3, <1>4, <2>1, <2>2
<1>5. CASE Accepts(batch) /\ batch \notin ledger
  <2>1. ~Bad(batch)
    BY <1>5 DEF Accepts, Bad
  <2>2. batch = InFlight /\ batch # {}
    BY <1>5, <2>1 DEF Known
  <2>3. ASSUME NEW n \in batch PROVE n \in Records /\ applied[n] = 0
    BY <1>2, <1>5, <2>2
  <2>4. ledger' = ledger \cup {batch}
    BY <1>5 DEF Ingest
  <2>5. applied' = [n \in Records |-> IF n \in batch THEN 1 ELSE applied[n]]
    <3>1. applied' = [n \in Records |-> applied[n] + IF n \in batch THEN 1 ELSE 0]
      BY <1>5 DEF Ingest
    <3>2. ASSUME NEW n \in Records
          PROVE  applied[n] + (IF n \in batch THEN 1 ELSE 0) = IF n \in batch THEN 1 ELSE applied[n]
      <4>1. applied[n] \in {0, 1}
        BY <1>2
      <4> QED BY <2>3, <4>1
    <3> QED BY <3>1, <3>2
  <2>6. Applies(batch) /\ stored' \in [Records -> Nat]
    <3>1. Insert(batch)
      BY <1>5 DEF Ingest
    <3> QED BY <1>2, <2>2, <2>3, <2>5, <3>1, InsertCounts DEF Applies
  <2>7. LedgerInv'
    <3>1. applied' \in [Records -> {0, 1}]
      BY <1>2, <2>5
    <3>2. \A n \in Records : applied'[n] = 1 => n \in entered'
      BY <1>1, <1>2, <2>2, <2>5
    <3>3. ASSUME NEW b \in ledger'
          PROVE  Known(b)' /\ ~Bad(b)' /\ \A n \in b : applied'[n] = 1
      <4>1. Known(b) /\ ~Bad(b) /\ b \subseteq Records
        BY <1>2, <2>1, <2>4 DEF LedgerInv, Known
      <4>2. Known(b)' /\ ~Bad(b)'
        BY <1>1, <4>1, BadKept DEF Known
      <4>3. \A n \in b : applied'[n] = 1
        <5>1. CASE b = batch
          BY <2>5, <4>1, <5>1
        <5>2. CASE b \in ledger
          BY <2>5, <4>1, <5>2 DEF LedgerInv
        <5> QED BY <2>4, <5>1, <5>2
      <4> QED BY <4>2, <4>3
    <3>4. \A n \in Queued' : applied'[n] = 1 => n \in InFlight' /\ InFlight' \in ledger'
      BY <1>1, <1>2, <2>2, <2>4, <2>5
    <3> QED BY <2>6, <3>1, <3>2, <3>3, <3>4 DEF LedgerInv
  <2>8. LateInv'
    BY <1>1, <2>4, LateKept
  <2> QED BY <1>3, <2>4, <2>6, <2>7, <2>8
<1> QED BY <1>4, <1>5

LEMMA RollBackKeeps ==
    ASSUME DeliveryInv, UNCHANGED vars, NEW batch, RollBack(batch), Known(batch),
           batch \in ledger \/ Bad(batch) \/ batch = InFlight,
           late' \subseteq late, unanswered' = unanswered
    PROVE  LedgerInv' /\ LateInv' /\ \E rows : Stores(rows)
<1> USE DEF DeliveryInv
<1>1. SpoolInv' /\ Same /\ KindsKept /\ entered' = entered /\ InFlight' = InFlight
  BY Still
<1>2. /\ applied \in [Records -> {0, 1}] /\ stored \in [Records -> Nat]
      /\ \A n \in Queued : applied[n] = 1 => InFlight \in ledger
      /\ InFlight \subseteq Queued /\ Queued \subseteq entered /\ entered \subseteq Records
  BY QueueFacts DEF LedgerInv
<1>3. Accepts(batch) /\ batch \notin ledger /\ ledger' = ledger /\ applied' = applied
  BY DEF RollBack
<1>4. batch = InFlight
  BY <1>3 DEF Accepts, Bad
<1>5. PICK rows \in (SUBSET batch) \ {{}} : Insert(rows)
  BY DEF RollBack
<1>6. ASSUME NEW n \in rows PROVE applied[n] = 0
  BY <1>2, <1>3, <1>4, <1>5
<1>7. Stores(rows)
  <2>1. rows \subseteq batch /\ rows # {}
    BY <1>5
  <2> QED BY <1>2, <1>3, <1>4, <1>5, <1>6, <2>1 DEF Stores
<1>8. LedgerInv' /\ LateInv'
  <2>1. stored' \in [Records -> Nat]
    BY <1>2, <1>5, InsertCounts
  <2> QED BY <1>1, <1>3, <2>1, LedgerKept, LateKept
<1> QED BY <1>7, <1>8

LEMMA AnswerKeeps ==
    ASSUME DeliveryInv, Answer
    PROVE  DeliveryInv' /\ Same /\ Handles
<1> USE DEF DeliveryInv, Answer
<1>1. SpoolInv' /\ Same /\ KindsKept /\ HeldInv' /\ held' = held /\ entered' = entered /\ InFlight' = InFlight
  BY Still
<1>2. wire = held /\ wire # {} /\ wire = InFlight
  BY DEF UploadInv, HeldInv
<1>3. Known(wire)
  BY <1>2, QueueFacts DEF Known
<1>4. PICK batch : batch = wire
  OBVIOUS
<1>5. /\ LedgerInv' /\ LateInv' /\ ledger \subseteq ledger'
      /\ Accepts(batch) => batch \in ledger'
      /\ ~Accepts(batch) => Bad(batch)
      /\ (applied' = applied /\ stored' = stored) \/ Applies(batch)
  BY <1>2, <1>3, <1>4, IngestKeeps
<1>6. UploadInv'
  <2>1. wire' = wire /\ upload' \in {"accepted", "refused"}
        /\ (upload' = "accepted" => Accepts(batch)) /\ (upload' = "refused" => ~Accepts(batch))
    BY <1>4
  <2>2. Bad(batch) => Bad(batch)'
    BY <1>1, <1>3, <1>4, BadKept DEF Known
  <2>3. Bad(wire)' <=> Bad(batch)'
    BY <1>4, <2>1 DEF Bad
  <2> QED BY <1>1, <1>2, <1>4, <1>5, <2>1, <2>2, <2>3 DEF UploadInv
<1> QED BY <1>1, <1>5, <1>6 DEF KindsKept, Handles

LEMMA CommitFailsKeeps ==
    ASSUME DeliveryInv, CommitFails
    PROVE  DeliveryInv' /\ Same /\ Handles
<1> USE DEF DeliveryInv, CommitFails
<1>1. SpoolInv' /\ Same /\ KindsKept /\ HeldInv'
  BY Still
<1>2. wire # {} /\ wire = InFlight /\ Known(wire)
  BY QueueFacts DEF UploadInv, HeldInv, Known
<1>3. PICK batch : batch = wire
  OBVIOUS
<1>4. LedgerInv' /\ LateInv' /\ \E rows : Stores(rows)
  BY <1>2, <1>3, RollBackKeeps
<1>5. UploadInv'
  BY DEF UploadInv
<1> QED BY <1>1, <1>4, <1>5 DEF KindsKept, Handles

LEMMA IngestLateKeeps ==
    ASSUME DeliveryInv, IngestLate
    PROVE  DeliveryInv' /\ Same /\ Handles
<1> USE DEF DeliveryInv, IngestLate
<1>1. SpoolInv' /\ Same /\ KindsKept /\ HeldInv' /\ held' = held /\ entered' = entered /\ InFlight' = InFlight
  BY Still
<1>2. PICK batch \in late : (Ingest(batch) \/ RollBack(batch)) /\ late' = late \ {batch}
  OBVIOUS
<1>3. Known(batch) /\ (batch \in ledger \/ Bad(batch) \/ batch = InFlight)
  BY DEF LateInv
<1>4. LedgerInv' /\ LateInv' /\ ledger \subseteq ledger' /\ Handles
  <2>1. late' \subseteq late
    BY <1>2
  <2>2. CASE Ingest(batch)
    BY <1>3, <2>1, <2>2, IngestKeeps DEF Handles
  <2>3. CASE RollBack(batch)
    BY <1>3, <2>1, <2>3, RollBackKeeps DEF Handles, RollBack
  <2> QED BY <1>2, <2>2, <2>3
<1>5. UploadInv'
  <2>1. wire # {} => wire = InFlight
    BY DEF UploadInv, HeldInv
  <2>2. Bad(wire) => Bad(wire)'
    BY <1>1, <2>1, QueueFacts DEF KindsKept, Bad
  <2> QED BY <1>1, <1>4, <2>2 DEF UploadInv
<1> QED BY <1>1, <1>4, <1>5 DEF KindsKept

(* A request nobody waits for any more may still be handled. *)
LEMMA LetGo ==
    ASSUME DeliveryInv, SpoolInv', KindsKept, Same, ledger' = ledger, applied' = applied,
           stored' = stored, unanswered' = unanswered, late' \subseteq late \cup ({wire} \ {{}})
    PROVE  LedgerInv' /\ LateInv'
<1> USE DEF DeliveryInv
<1>1. LedgerInv'
  BY LedgerKept
<1>2. entered' = entered /\ InFlight' = InFlight
  BY DEF Same
<1>3. wire # {} => Known(wire) /\ wire = InFlight
  BY QueueFacts DEF UploadInv, HeldInv, Known
<1>4. ASSUME NEW batch \in late'
      PROVE  Known(batch)' /\ (batch \in ledger' \/ Bad(batch)' \/ batch = InFlight')
  <2>1. Known(batch) /\ (batch \in ledger \/ Bad(batch) \/ batch = InFlight)
    BY <1>3, <1>4 DEF LateInv
  <2>2. Bad(batch)' <=> Bad(batch)
    BY <2>1, BadKept DEF Known
  <2> QED BY <1>2, <2>1, <2>2 DEF Known
<1> QED BY <1>1, <1>2, <1>4 DEF LateInv

LEMMA TimeOutKeeps ==
    ASSUME DeliveryInv, TimeOut
    PROVE  DeliveryInv' /\ Same
<1> USE DEF DeliveryInv, TimeOut
<1>1. SpoolInv' /\ Same /\ KindsKept /\ HeldInv'
  BY Still
<1>2. late' \subseteq late \cup ({wire} \ {{}})
  BY DEF UploadInv
<1>3. LedgerInv' /\ LateInv'
  BY <1>1, <1>2, LetGo
<1>4. UploadInv'
  BY DEF UploadInv
<1> QED BY <1>1, <1>3, <1>4 DEF KindsKept

LEMMA SettleFailsKeeps ==
    ASSUME DeliveryInv, SettleFails
    PROVE  DeliveryInv' /\ Same
<1> USE DEF DeliveryInv, SettleFails
<1>1. /\ kinds' = kinds /\ files' = files /\ removed' = removed /\ control' = control /\ spool' = spool
      /\ call' = call /\ held' = held /\ entered' = entered /\ acked' = acked
  BY DEF disk, history
<1>2. SpoolInv' /\ Same /\ KindsKept
  BY <1>1, StutterKeeps, QuietMeans DEF KindsKept
<1>3. HeldInv'
  BY <1>1, <1>2 DEF HeldInv, Same
<1>4. LedgerInv' /\ LateInv'
  BY <1>2, LetGo
<1>5. UploadInv'
  BY DEF UploadInv
<1> QED BY <1>2, <1>3, <1>4, <1>5 DEF KindsKept

LEMMA RestartKeeps ==
    ASSUME DeliveryInv, Restart
    PROVE  DeliveryInv' /\ Same
<1> USE DEF DeliveryInv, Restart
<1>1. SpoolInv' /\ Same
  BY CrashKeeps, CrashMeans
<1>2. KindsKept /\ held' = {}
  BY DEF Crash, KindsKept
<1>3. LedgerInv' /\ LateInv'
  <2>1. late' \subseteq late \cup ({wire} \ {{}})
    OBVIOUS
  <2> QED BY <1>1, <1>2, <2>1, LetGo
<1>4. HeldInv' /\ UploadInv'
  BY <1>2 DEF HeldInv, UploadInv
<1> QED BY <1>1, <1>2, <1>3, <1>4 DEF KindsKept

(* A batch is settled: acknowledged once it was applied, split, or dropped *)
(* if it was not.                                                          *)
Settles ==
    \/ Queued' \subseteq Queued /\ (\A n \in Queued \ Queued' : applied[n] = 1) /\ Lost' = Lost
    \/ /\ \E n \in Queued : applied[n] = 0 /\ Queued' = Queued \ {n}
       /\ Lost' = Lost + 1

LEMMA SettleKeeps ==
    ASSUME DeliveryInv, Settle
    PROVE  DeliveryInv' /\ entered' = entered /\ Settles
<1> USE DEF DeliveryInv
<1>1. /\ upload \in {"accepted", "refused"} /\ upload' = "idle" /\ wire' = {} /\ late' = late
      /\ ledger' = ledger /\ applied' = applied /\ stored' = stored /\ unanswered' = unanswered
  BY DEF Settle
<1>2. /\ wire = held /\ wire # {} /\ held = InFlight /\ held = spool.inflight /\ spool.phase = "open"
      /\ spool.live = Queued /\ spool.dropped = Lost /\ InFlight \subseteq Queued
      /\ Queued \subseteq entered /\ entered \subseteq Records
  BY <1>1, WhatIsOpen, QueueFacts DEF UploadInv, HeldInv
<1>3. /\ applied \in [Records -> {0, 1}] /\ stored \in [Records -> Nat]
      /\ \A n \in Queued : applied[n] = 1 => n \in InFlight /\ InFlight \in ledger
      /\ \A batch \in ledger : ~Bad(batch) /\ \A n \in batch : applied[n] = 1
  BY DEF LedgerInv
<1>4. spool \in SpoolStates
  BY DEF SpoolInv, MemoryShape
<1>5. upload = "accepted" => InFlight \in ledger /\ Ack
  BY <1>2 DEF UploadInv, Settle
<1>6. upload = "refused" => Bad(InFlight) /\ InFlight \notin ledger /\ (SplitInflight \/ DropInflight)
  BY <1>2, <1>3 DEF UploadInv, Settle
<1>7. Ack \/ SplitInflight \/ DropInflight
  BY <1>1, <1>5, <1>6
<1>8. SpoolInv' /\ KindsKept /\ held' = {} /\ entered' = entered
  BY <1>7, AckKeeps, SplitInflightKeeps, DropInflightKeeps
     DEF Ack, End, SplitInflight, DropInflight, history, KindsKept
<1>9. spool'.phase = "open"
  BY <1>2, <1>4, <1>7 DEF Ack, End, SplitInflight, DropInflight, SpoolStates
<1>10. spool'.live = Queued' /\ spool'.inflight = InFlight' /\ spool'.dropped = Lost'
  BY <1>8, <1>9, OpenedMeans
<1> DEFINE Waits == \A n \in Queued' : applied'[n] = 1 => n \in InFlight' /\ InFlight' \in ledger'
<1>11. ASSUME upload = "accepted" PROVE Settles /\ Waits
  <2>1. spool'.live = spool.live \ held /\ spool'.inflight = {} /\ spool'.dropped = spool.dropped
    BY <1>4, <1>5, <1>11 DEF Ack, End, SpoolStates
  <2>2. Queued' = Queued \ InFlight /\ InFlight' = {} /\ Lost' = Lost
    BY <1>2, <1>10, <2>1
  <2>3. \A n \in InFlight : applied[n] = 1
    BY <1>3, <1>5, <1>11
  <2> QED BY <1>1, <1>3, <2>2, <2>3 DEF Settles
<1>12. ASSUME upload = "refused" PROVE Settles /\ Waits
  <2>1. \A n \in Queued : applied[n] # 1
    BY <1>3, <1>6, <1>12
  <2>2. CASE SplitInflight
    <3>1. spool'.live = spool.live /\ spool'.dropped = spool.dropped
      BY <1>4, <2>2 DEF SplitInflight, SpoolStates
    <3>2. Queued' = Queued /\ Lost' = Lost
      BY <1>2, <1>10, <3>1
    <3> QED BY <1>1, <2>1, <3>2 DEF Settles
  <2>3. CASE DropInflight
    <3>1. /\ spool'.live = spool.live \ held /\ spool'.dropped = spool.dropped + 1 /\ Cardinality(held) = 1
      BY <1>4, <2>3 DEF DropInflight, SpoolStates
    <3>2. Queued' = Queued \ held /\ Lost' = Lost + 1 /\ held \subseteq Queued
      BY <1>2, <1>10, <3>1
    <3>3. PICK n : held = {n}
      <4>1. IsFiniteSet(held) /\ Cardinality(held) = 1
        BY <1>2, <3>1, RecordSets
      <4> QED BY <4>1, FS_Singleton
    <3>4. n \in Queued /\ applied[n] = 0
      BY <1>2, <1>3, <2>1, <3>2, <3>3
    <3> QED BY <1>1, <2>1, <3>2, <3>3, <3>4 DEF Settles
  <2> QED BY <1>6, <1>12, <2>2, <2>3
<1>13. Settles /\ Waits
  BY <1>1, <1>11, <1>12
<1>14. LedgerInv'
  <2>1. \A n \in Records : applied'[n] = 1 => n \in entered'
    BY <1>1, <1>8 DEF LedgerInv
  <2>2. ASSUME NEW batch \in ledger
        PROVE  Known(batch)' /\ ~Bad(batch)' /\ \A n \in batch : applied'[n] = 1
    <3>1. Known(batch) /\ ~Bad(batch) /\ \A n \in batch : applied[n] = 1
      BY DEF LedgerInv
    <3>2. ~Bad(batch)'
      BY <1>8, <3>1, BadKept DEF Known
    <3> QED BY <1>1, <1>8, <3>1, <3>2 DEF Known
  <2> QED BY <1>1, <1>3, <1>13, <2>1, <2>2 DEF LedgerInv
<1>15. LateInv'
  <2>1. ASSUME NEW batch \in late
        PROVE  Known(batch)' /\ (batch \in ledger' \/ Bad(batch)')
    <3>1. Known(batch) /\ (batch \in ledger \/ Bad(batch))
      BY <1>1, <1>5, <1>6 DEF LateInv
    <3>2. Bad(batch)' <=> Bad(batch)
      BY <1>8, <3>1, BadKept DEF Known
    <3> QED BY <1>1, <1>8, <3>1, <3>2 DEF Known
  <2>2. unanswered' = {}
    BY <1>1 DEF UploadInv
  <2> QED BY <1>1, <2>1, <2>2 DEF LateInv
<1>16. HeldInv' /\ UploadInv'
  BY <1>1, <1>8 DEF HeldInv, UploadInv
<1> QED BY <1>8, <1>13, <1>14, <1>15, <1>16 DEF KindsKept

-----------------------------------------------------------------------------
(***************************************************************************)
(* The delivery implements ResultDelivery.                                 *)
(***************************************************************************)
DeliveryEffect ==
    \/ /\ Same \/ (\E n \in Records : Enters(n)) \/ (\E refs : Drops(refs)) \/ Freezes
       /\ applied' = applied /\ stored' = stored
    \/ Same /\ Handles
    \/ Settles /\ applied' = applied /\ stored' = stored /\ entered' = entered

(* Every step keeps the invariant, and posts again what was not answered.  *)
LEMMA DeliveryNextKeeps ==
    DeliveryInv /\ [DeliveryNext]_allVars =>
      /\ DeliveryInv' /\ DeliveryEffect
      /\ (upload # "posted" /\ upload' = "posted" /\ unanswered # {} => wire' = unanswered)
<1> SUFFICES ASSUME DeliveryInv, [DeliveryNext]_allVars
             PROVE  /\ DeliveryInv' /\ DeliveryEffect
                    /\ (upload # "posted" /\ upload' = "posted" /\ unanswered # {} => wire' = unanswered)
  OBVIOUS
<1>1. CASE SpoolStep /\ UNCHANGED deliveryVars
  <2>1. upload' = upload /\ applied' = applied /\ stored' = stored
    BY <1>1 DEF deliveryVars
  <2> QED BY <1>1, <2>1, SpoolStepKeeps DEF DeliveryEffect
<1>2. CASE Ask
  BY <1>2, AskKeeps DEF Ask, DeliveryEffect
<1>3. CASE Post
  BY <1>3, PostKeeps DEF Post, DeliveryEffect
<1>4. CASE Answer
  BY <1>4, AnswerKeeps DEF Answer, DeliveryEffect
<1>5. CASE IngestLate
  BY <1>5, IngestLateKeeps DEF IngestLate, DeliveryEffect
<1>6. CASE TimeOut \/ CommitFails
  BY <1>6, TimeOutKeeps, CommitFailsKeeps DEF TimeOut, CommitFails, DeliveryEffect
<1>7. CASE Settle
  BY <1>7, SettleKeeps DEF Settle, DeliveryEffect
<1>8. CASE SettleFails
  BY <1>8, SettleFailsKeeps DEF SettleFails, DeliveryEffect
<1>9. CASE Restart
  BY <1>9, RestartKeeps DEF Restart, DeliveryEffect
<1>10. CASE UNCHANGED allVars
  <2>1. UNCHANGED vars /\ UNCHANGED deliveryVars
    BY <1>10 DEF allVars
  <2>2. SpoolInv' /\ Same /\ KindsKept /\ HeldInv' /\ held' = held
    BY <2>1, Still
  <2>3. /\ upload' = upload /\ wire' = wire /\ late' = late /\ ledger' = ledger
        /\ applied' = applied /\ stored' = stored /\ unanswered' = unanswered
    BY <2>1 DEF deliveryVars
  <2>4. LedgerInv' /\ LateInv'
    BY <2>2, <2>3, LetGo
  <2>5. UploadInv'
    BY <2>2, <2>3, UploadKept
  <2> QED BY <2>2, <2>3, <2>4, <2>5 DEF DeliveryInv, DeliveryEffect, KindsKept
<1> QED BY <1>1, <1>2, <1>3, <1>4, <1>5, <1>6, <1>7, <1>8, <1>9, <1>10 DEF DeliveryNext

(* The invariant of the delivery; the spool's is one of its parts. *)
LEMMA DeliveryIsSound == DeliverySpec => []DeliveryInv
<1>1. DeliveryInv /\ [DeliveryNext]_allVars => DeliveryInv'
  BY DeliveryNextKeeps
<1> QED BY <1>1, DeliveryInitKeeps, PTL DEF DeliverySpec

(* PostedAgainUnchanged: until a batch is answered the same one is posted  *)
(* again, whatever the spool did in between, restarts included.            *)
THEOREM RetriesAreTheSame == DeliverySpec => PostedAgainUnchanged
<1>1. DeliveryInv /\ [DeliveryNext]_allVars =>
        [upload # "posted" /\ upload' = "posted" /\ unanswered # {} => wire' = unanswered]_allVars
  BY DeliveryNextKeeps
<1> QED BY <1>1, DeliveryIsSound, PTL DEF DeliverySpec, PostedAgainUnchanged


(* What became of every result, by what is queued and what was applied.    *)
WhatBecame ==
    [n \in Records |->
       IF applied[n] = 1 THEN "applied" ELSE IF n \notin entered THEN "new"
       ELSE IF n \in Queued THEN "queued" ELSE "dropped"]

Fates == [n \in Records |-> Fate(n)]

FateShape == Fates = WhatBecame /\ Spooled.dropped = Lost

LEMMA FateIs == DeliveryInv => FateShape
<1> SUFFICES ASSUME DeliveryInv PROVE FateShape
  OBVIOUS
<1>1. SpoolInv /\ applied \in [Records -> {0, 1}]
  BY DEF DeliveryInv, LedgerInv
<1>2. Spooled.live = Queued /\ Spooled.dropped = Lost
  <2>1. CASE spool.phase = "closed"
    <3>1. Directory(files, removed, Told, entered, acked)
      BY <1>1 DEF SpoolInv, DiskInv
    <3>2. Recovered(files).live = Left(files, Told) /\ Recovered(files).dropped = Told.dropped
      BY <3>1, Recovers
    <3> QED BY <2>1, <3>2 DEF Spooled, Queued, Lost
  <2>2. CASE spool.phase # "closed"
    BY <1>1, <2>2, WhatIsOpen DEF Spooled
  <2> QED BY <2>1, <2>2
<1>3. ASSUME NEW n \in Records
      PROVE  Fate(n) = WhatBecame[n]
  <2>1. applied[n] \in {0, 1} /\ ~(applied[n] > 1)
    BY <1>1
  <2>2. Fate(n) = IF applied[n] = 1 THEN "applied" ELSE IF n \notin entered THEN "new"
                  ELSE IF n \in Spooled.live THEN "queued" ELSE "dropped"
    BY <2>1 DEF Fate
  <2> QED BY <1>2, <2>2 DEF WhatBecame
<1>4. Fates = WhatBecame
  BY <1>3 DEF Fates, WhatBecame
<1> QED BY <1>2, <1>4 DEF FateShape

(* What a step does to the fates is a step of the promise, or nothing.     *)
Turned(batch, which) == WhatBecame' = [n \in Records |-> IF n \in batch THEN which ELSE WhatBecame[n]]
Holds(batch, which) == batch \subseteq Records /\ \A n \in batch : WhatBecame[n] = which

Begins(n) ==
    /\ stored' = stored
    /\ \/ Turned({n}, "queued") /\ Lost' = Lost
       \/ Turned({n}, "dropped") /\ Lost' = Lost + 1

Ends(batch) ==
    \/ Turned(batch, "applied") /\ Insert(batch) /\ Lost' = Lost
    \/ Turned(batch, "dropped") /\ stored' = stored /\ Lost' = Lost + Cardinality(batch)
    \/ WhatBecame' = WhatBecame /\ Insert(batch) /\ Lost' = Lost

LEMMA EffectTurns ==
    ASSUME DeliveryInv, DeliveryInv', DeliveryEffect
    PROVE  \/ WhatBecame' = WhatBecame /\ stored' = stored /\ Lost' = Lost
           \/ \E n \in Records : Holds({n}, "new") /\ Begins(n)
           \/ \E batch \in SUBSET Records : batch # {} /\ Holds(batch, "queued") /\ Ends(batch)
<1>1. /\ Queued \subseteq entered /\ entered \subseteq Records /\ InFlight \subseteq Queued
      /\ applied \in [Records -> {0, 1}]
      /\ \A n \in Records : applied[n] = 1 => n \in entered
      /\ \A n \in Queued : applied[n] = 1 => n \in InFlight
  BY QueueFacts DEF DeliveryInv, LedgerInv
<1>2. \A n \in Queued : applied[n] = 0 => WhatBecame[n] = "queued"
  BY <1>1 DEF WhatBecame
<1>3. CASE Same /\ applied' = applied /\ stored' = stored
  BY <1>3 DEF Same, WhatBecame
<1>4. CASE Freezes /\ applied' = applied /\ stored' = stored
  BY <1>4 DEF Freezes, WhatBecame
<1>5. ASSUME NEW n \in Records, Enters(n), applied' = applied, stored' = stored
      PROVE  Holds({n}, "new") /\ Begins(n)
  <2>1. n \notin entered /\ applied[n] = 0 /\ n \notin Queued /\ entered' = entered \cup {n}
    BY <1>1, <1>5 DEF Enters
  <2>2. Holds({n}, "new")
    BY <2>1 DEF Holds, WhatBecame
  <2>3. CASE Queued' = Queued \cup {n} /\ Lost' = Lost
    <3>1. Turned({n}, "queued")
      BY <1>5, <2>1, <2>3 DEF Turned, WhatBecame
    <3> QED BY <1>5, <2>2, <2>3, <3>1 DEF Begins
  <2>4. CASE Queued' = Queued /\ Lost' = Lost + 1
    <3>1. Turned({n}, "dropped")
      BY <1>5, <2>1, <2>4 DEF Turned, WhatBecame
    <3> QED BY <1>5, <2>2, <2>4, <3>1 DEF Begins
  <2> QED BY <1>5, <2>3, <2>4 DEF Enters
<1>6. ASSUME NEW refs, Drops(refs), applied' = applied, stored' = stored
      PROVE  refs \in SUBSET Records /\ refs # {} /\ Holds(refs, "queued") /\ Ends(refs)
  <2>1. /\ refs \subseteq Queued /\ refs # {} /\ Queued' = Queued \ refs /\ entered' = entered
        /\ Lost' = Lost + Cardinality(refs)
        /\ \A n \in refs : applied[n] = 0
    BY <1>1, <1>6 DEF Drops
  <2>2. Turned(refs, "dropped")
    BY <1>1, <1>6, <2>1 DEF Turned, WhatBecame
  <2> QED BY <1>1, <1>2, <1>6, <2>1, <2>2 DEF Holds, Ends
<1>7. ASSUME Same, NEW batch, Applies(batch)
      PROVE  batch \in SUBSET Records /\ batch # {} /\ Holds(batch, "queued") /\ Ends(batch)
  <2>1. Queued' = Queued /\ entered' = entered /\ Lost' = Lost
    BY <1>7 DEF Same
  <2>2. Turned(batch, "applied")
    BY <1>7, <2>1 DEF Turned, WhatBecame, Applies
  <2> QED BY <1>1, <1>2, <1>7, <2>1, <2>2 DEF Holds, Applies, Ends
<1>8. ASSUME Same, NEW rows, Stores(rows)
      PROVE  rows \in SUBSET Records /\ rows # {} /\ Holds(rows, "queued") /\ Ends(rows)
  <2>1. Queued' = Queued /\ entered' = entered /\ Lost' = Lost
    BY <1>8 DEF Same
  <2>2. WhatBecame' = WhatBecame
    BY <1>8, <2>1 DEF WhatBecame, Stores
  <2> QED BY <1>1, <1>2, <1>8, <2>1, <2>2 DEF Holds, Stores, Ends
<1>9. CASE /\ Queued' \subseteq Queued /\ (\A n \in Queued \ Queued' : applied[n] = 1) /\ Lost' = Lost
           /\ applied' = applied /\ stored' = stored /\ entered' = entered
  BY <1>9 DEF WhatBecame
<1>10. ASSUME NEW n \in Queued, applied[n] = 0, Queued' = Queued \ {n}, Lost' = Lost + 1,
              applied' = applied, stored' = stored, entered' = entered
       PROVE  {n} \in SUBSET Records /\ {n} # {} /\ Holds({n}, "queued") /\ Ends({n})
  <2>1. Turned({n}, "dropped")
    BY <1>1, <1>10 DEF Turned, WhatBecame
  <2>2. Cardinality({n}) = 1
    BY FS_Singleton
  <2> QED BY <1>1, <1>2, <1>10, <2>1, <2>2 DEF Holds, Ends
<1> HIDE DEF Same, Enters, Drops, Freezes, Applies, Stores, Holds, Turned, Begins, Ends
<1>11. CASE /\ Same \/ (\E n \in Records : Enters(n)) \/ (\E refs : Drops(refs)) \/ Freezes
            /\ applied' = applied /\ stored' = stored
  BY <1>3, <1>4, <1>5, <1>6, <1>11
<1>12. CASE Same /\ Handles
  BY <1>3, <1>7, <1>8, <1>12 DEF Handles
<1>13. CASE Settles /\ applied' = applied /\ stored' = stored /\ entered' = entered
  BY <1>9, <1>10, <1>13 DEF Settles
<1> QED BY <1>11, <1>12, <1>13 DEF DeliveryEffect

LEMMA DeliveryStep ==
    DeliveryInv /\ [DeliveryNext]_allVars /\ FateShape /\ FateShape' =>
      [Promise!Next]_<<Fates, stored, Spooled.dropped>>
<1> SUFFICES ASSUME DeliveryInv, [DeliveryNext]_allVars, FateShape, FateShape'
             PROVE  [Promise!Next]_<<Fates, stored, Spooled.dropped>>
  OBVIOUS
<1>1. DeliveryInv' /\ DeliveryEffect
  BY DeliveryNextKeeps
<1>2. /\ Fates = WhatBecame /\ Spooled.dropped = Lost
      /\ Fates' = WhatBecame' /\ Spooled'.dropped = Lost'
  BY DEF FateShape
<1>3. ASSUME NEW batch, NEW which, Holds(batch, which)
      PROVE  batch \subseteq Promise!In(which)
  BY <1>2, <1>3 DEF Promise!In, Holds, Fates
<1>4. ASSUME NEW batch, NEW which, Turned(batch, which)
      PROVE  Promise!Turn(batch, which)
  BY <1>2, <1>4 DEF Promise!Turn, Turned, Fates
<1>5. CASE WhatBecame' = WhatBecame /\ stored' = stored /\ Lost' = Lost
  BY <1>2, <1>5
<1>6. ASSUME NEW n \in Records, Holds({n}, "new"), Begins(n)
      PROVE  Promise!Enqueue(n) \/ Promise!Reject(n)
  BY <1>2, <1>3, <1>4, <1>6 DEF Promise!Enqueue, Promise!Reject, Begins
<1>7. ASSUME NEW batch \in SUBSET Records, batch # {}, Holds(batch, "queued"), Ends(batch)
      PROVE  Promise!Store(batch) \/ Promise!Apply(batch) \/ Promise!Drop(batch)
  <2>1. batch \subseteq Promise!In("queued")
    BY <1>3, <1>7
  <2>2. CASE Turned(batch, "applied") /\ Insert(batch) /\ Lost' = Lost
    BY <1>2, <1>4, <1>7, <2>1, <2>2 DEF Promise!Apply, Promise!Insert, Insert
  <2>3. CASE Turned(batch, "dropped") /\ stored' = stored /\ Lost' = Lost + Cardinality(batch)
    <3>1. Promise!Turn(batch, "dropped")
      BY <1>4, <2>3
    <3>2. Spooled'.dropped = Spooled.dropped + Promise!Cardinality(batch)
      BY <1>2, <2>3 DEF Promise!Cardinality, Cardinality
    <3> QED BY <1>7, <2>1, <2>3, <3>1, <3>2 DEF Promise!Drop
  <2>4. CASE WhatBecame' = WhatBecame /\ Insert(batch) /\ Lost' = Lost
    <3>1. UNCHANGED <<[n \in Records |-> Fate(n)], Spooled.dropped>>
      BY <1>2, <2>4 DEF Fates
    <3>2. Promise!Insert(batch)
      BY <2>4 DEF Promise!Insert, Insert
    <3> QED BY <1>7, <2>1, <3>1, <3>2 DEF Promise!Store
  <2> QED BY <1>7, <2>2, <2>3, <2>4 DEF Ends
<1>8. (WhatBecame' = WhatBecame /\ stored' = stored /\ Lost' = Lost) \/ Promise!Next
  BY <1>1, <1>6, <1>7, EffectTurns DEF Promise!Next
<1> QED BY <1>5, <1>8

(* ImplementsResultDelivery: uploader, directory, log and ledger together  *)
(* keep the promise of ResultDelivery.  A result is queued or refused when *)
(* it is handed over, and applied at most once and never after it was      *)
(* counted as lost.  Its telemetry is inserted when it is applied, and     *)
(* before then by every attempt whose commit failed, but never after: a    *)
(* crash, a restart, a retry or a request that arrives late changes        *)
(* nothing else the promise is about.                                      *)
THEOREM DeliveryKeepsThePromise == DeliverySpec => ImplementsResultDelivery
<1>1. DeliveryInit => Promise!Init
  <2> SUFFICES ASSUME DeliveryInit PROVE Promise!Init
    OBVIOUS
  <2>1. FateShape /\ SpoolInv
    BY DeliveryInitKeeps, FateIs DEF DeliveryInv
  <2>2. /\ applied = [n \in Records |-> 0] /\ stored = [n \in Records |-> 0]
        /\ entered = {} /\ control = <<>>
    BY DEF DeliveryInit, Init
  <2>3. WhatBecame = [n \in Records |-> "new"]
    BY <2>2 DEF WhatBecame
  <2>4. Lost = 0
    BY <2>2, ReplayOfNothing DEF Lost, Told, Blank
  <2> QED BY <2>1, <2>2, <2>3, <2>4 DEF Promise!Init, FateShape, Fates
<1>2. DeliveryInv => FateShape
  BY FateIs
<1>3. DeliveryInv /\ [DeliveryNext]_allVars /\ FateShape /\ FateShape' =>
        [Promise!Next]_<<Fates, stored, Spooled.dropped>>
  BY DeliveryStep
<1> QED
  BY <1>1, <1>2, <1>3, DeliveryIsSound, PTL DEF DeliverySpec, ImplementsResultDelivery, Promise!Spec, Fates

=============================================================================
