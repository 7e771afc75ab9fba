---------------------- MODULE SensorAuthorization_proofs ----------------------
(***************************************************************************)
(* Proofs about SensorAuthorization: whatever the loops, the bounds and    *)
(* the number of rejections, failures and restarts.                        *)
(***************************************************************************)
EXTENDS SensorAuthorization, TLAPS

(* A request of the current epoch has not been overtaken by a rejection.   *)
EpochTellsOvertaken ==
    \A l \in Loops : requests[l].phase # "idle" /\ requests[l].epoch = epoch => ~overtaken[l]

(* An accepted config request that was not overtaken vouches.              *)
AcceptedVouches ==
    \A l \in Recovery : requests[l].phase = "ok" /\ ~overtaken[l] => standing # "rejected"

(* A rejection whose write succeeded is in the file and in the document    *)
(* other updates write back.                                               *)
RejectionIsKept == standing = "rejected" /\ ~unsaved => stored /\ current

IInv == TypeOK /\ EpochTellsOvertaken /\ AcceptedVouches /\ RejectionIsKept /\ ProbingIsVouched

LEMMA InitIInv == Init => IInv
<1> SUFFICES ASSUME Init PROVE IInv
  OBVIOUS
<1>1. requests \in [Loops -> [phase : Phases, epoch : Nat, startedBlocked : BOOLEAN]]
  BY DEF Init, NoRequest, Phases
<1>2. spent \in [rejections : Nat, faults : Nat, restarts : Nat] /\ overtaken \in [Loops -> BOOLEAN]
  BY DEF Init
<1>3. \A l \in Loops : requests[l].epoch <= epoch
  <2> SUFFICES ASSUME NEW l \in Loops PROVE requests[l].epoch <= epoch
    OBVIOUS
  <2>1. requests[l].epoch = 0 /\ epoch = 0
    BY DEF Init, NoRequest
  <2> QED BY <2>1, SMT
<1>4. granted \in BOOLEAN /\ blocked \in BOOLEAN /\ current \in BOOLEAN /\ stored \in BOOLEAN
  BY DEF Init
<1>5. unsaved \in BOOLEAN /\ lost \in BOOLEAN /\ epoch \in Nat /\ standing = "new"
  BY DEF Init
<1>6. TypeOK
  BY <1>1, <1>2, <1>3, <1>4, <1>5 DEF TypeOK
<1>7. EpochTellsOvertaken /\ AcceptedVouches /\ RejectionIsKept /\ ProbingIsVouched
  BY AuthorizationAssumption
     DEF Init, NoRequest, EpochTellsOvertaken, AcceptedVouches, RejectionIsKept, ProbingIsVouched
<1> QED BY <1>6, <1>7 DEF IInv

(* A rejection overtakes every request in flight.                          *)
LEMMA RejectionKeepsIInv ==
    ASSUME IInv, NEW l \in Loops, ObserveRejection(l)
    PROVE  IInv'
<1> USE DEF IInv, ObserveRejection, Finish, NoRequest, Phases
<1>0. PICK spent1 \in {spent, [spent EXCEPT !["faults"] = @ + 1]} : spent' = spent1
  BY DEF SavesRejection, Persisted, PersistFails, Spend
<1>1. stored' \in BOOLEAN /\ current' \in BOOLEAN /\ unsaved' \in BOOLEAN
  BY DEF SavesRejection, Persisted, PersistFails, TypeOK
<1>2. TypeOK'
  <2>1. spent' \in [rejections : Nat, faults : Nat, restarts : Nat]
    BY <1>0 DEF TypeOK
  <2>2. requests' \in [Loops -> [phase : Phases, epoch : Nat, startedBlocked : BOOLEAN]]
    BY DEF TypeOK
  <2>3. epoch' \in Nat /\ overtaken' \in [Loops -> BOOLEAN]
    BY DEF TypeOK
  <2>4. granted' \in BOOLEAN /\ blocked' \in BOOLEAN /\ lost' \in BOOLEAN /\ standing' = "rejected"
    BY DEF TypeOK
  <2>5. \A k \in Loops : requests'[k].epoch <= epoch'
    BY DEF TypeOK
  <2> QED BY <1>1, <2>1, <2>2, <2>3, <2>4, <2>5 DEF TypeOK
<1>3. EpochTellsOvertaken'
  BY DEF EpochTellsOvertaken, TypeOK
<1>4. AcceptedVouches'
  BY AuthorizationAssumption DEF AcceptedVouches, TypeOK
<1>5. RejectionIsKept'
  BY DEF RejectionIsKept, SavesRejection, Persisted, PersistFails, TypeOK
<1>6. ProbingIsVouched'
  BY DEF ProbingIsVouched
<1> QED BY <1>2, <1>3, <1>4, <1>5, <1>6

(* A recovery is by a request of the current epoch: it vouches.            *)
LEMMA RecoveryKeepsIInv ==
    ASSUME IInv, NEW l \in Loops, ObserveRecovery(l)
    PROVE  IInv'
<1> USE DEF IInv, ObserveRecovery, Finish, NoRequest, Phases, history
<1>1. standing # "rejected"
  BY DEF Recovers, EpochTellsOvertaken, AcceptedVouches, TypeOK
<1>2. PICK spent1 \in {spent, [spent EXCEPT !["faults"] = @ + 1]} : spent' = spent1
  BY DEF Persisted, PersistFails, Spend
<1>3. stored' \in BOOLEAN /\ current' \in BOOLEAN /\ blocked' \in BOOLEAN
  BY DEF Persisted, PersistFails, TypeOK
<1>4. TypeOK'
  BY <1>2, <1>3 DEF TypeOK
<1>5. EpochTellsOvertaken'
  BY DEF EpochTellsOvertaken, TypeOK
<1>6. AcceptedVouches'
  BY AuthorizationAssumption DEF AcceptedVouches, TypeOK
<1>7. RejectionIsKept' /\ ProbingIsVouched'
  BY <1>1 DEF RejectionIsKept, ProbingIsVouched
<1> QED BY <1>4, <1>5, <1>6, <1>7

LEMMA StepKeepsIInv == IInv /\ [Next]_vars => IInv'
<1> SUFFICES ASSUME IInv, [Next]_vars PROVE IInv'
  OBVIOUS
<1> USE DEF IInv, stateVars, history
<1>1. CASE Administer
  BY <1>1 DEF Administer, TypeOK, EpochTellsOvertaken, AcceptedVouches, RejectionIsKept, ProbingIsVouched
<1>2. CASE OtherUpdate
  BY <1>2 DEF OtherUpdate, TypeOK, EpochTellsOvertaken, AcceptedVouches, RejectionIsKept, ProbingIsVouched
<1>3. CASE Restart
  BY <1>3, AuthorizationAssumption
     DEF Restart, Spend, NoRequest, Phases, TypeOK, EpochTellsOvertaken, AcceptedVouches,
         RejectionIsKept, ProbingIsVouched
<1>4. ASSUME NEW l \in Loops, Step(l) PROVE IInv'
  <2> USE DEF NoRequest, Phases
  <2>1. CASE Begin(l)
    BY <2>1, AuthorizationAssumption
       DEF Begin, Capture, TypeOK, EpochTellsOvertaken, AcceptedVouches, RejectionIsKept, ProbingIsVouched
  <2>2. CASE Accept(l)
    BY <2>2, AuthorizationAssumption
       DEF Accept, TypeOK, EpochTellsOvertaken, AcceptedVouches, RejectionIsKept, ProbingIsVouched
  <2>3. CASE Reject(l)
    BY <2>3, AuthorizationAssumption
       DEF Reject, Spend, TypeOK, EpochTellsOvertaken, AcceptedVouches, RejectionIsKept, ProbingIsVouched
  <2>4. CASE Fail(l)
    BY <2>4, AuthorizationAssumption
       DEF Fail, TypeOK, EpochTellsOvertaken, AcceptedVouches, RejectionIsKept, ProbingIsVouched
  <2>5. CASE ObserveRejection(l)
    BY <2>5, RejectionKeepsIInv
  <2>6. CASE ObserveRecovery(l)
    BY <2>6, RecoveryKeepsIInv
  <2>7. CASE ObserveNothing(l)
    BY <2>7, AuthorizationAssumption
       DEF ObserveNothing, Finish, TypeOK, EpochTellsOvertaken, AcceptedVouches, RejectionIsKept,
           ProbingIsVouched
  <2>8. CASE Discard(l)
    BY <2>8, AuthorizationAssumption
       DEF Discard, Spend, Finish, TypeOK, EpochTellsOvertaken, AcceptedVouches, RejectionIsKept,
           ProbingIsVouched
  <2> QED BY <1>4, <2>1, <2>2, <2>3, <2>4, <2>5, <2>6, <2>7, <2>8 DEF Step, Observe
<1>5. CASE UNCHANGED vars
  BY <1>5 DEF vars, TypeOK, EpochTellsOvertaken, AcceptedVouches, RejectionIsKept, ProbingIsVouched
<1> QED BY <1>1, <1>2, <1>3, <1>4, <1>5 DEF Next

(* The inductive invariant holds in every reachable state.                 *)
THEOREM Inductive == Spec => []IInv
BY InitIInv, StepKeepsIInv, PTL DEF Spec

(* Every variable keeps its type, for any set of loops and any bounds.     *)
THEOREM TypeCorrect == Spec => []TypeOK
BY Inductive, PTL DEF IInv

(* runtimeAuthorization.Observe: after a rejection, probes resume only     *)
(* once the controller accepted a config request begun after it, or when a *)
(* restart lost the block.                                                 *)
THEOREM ProbingVouched == Spec => []ProbingIsVouched
BY Inductive, PTL DEF IInv

(* Only a failed state write can make a restart forget the rejection.      *)
THEOREM BlockStored == Spec => []BlockIsStored
<1>1. IInv => BlockIsStored
  BY DEF IInv, TypeOK, RejectionIsKept, BlockIsStored
<1> QED BY <1>1, Inductive, PTL
=============================================================================
