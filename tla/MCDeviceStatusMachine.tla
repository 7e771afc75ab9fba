------------------------ MODULE MCDeviceStatusMachine ------------------------
(* Instances of DeviceStatusMachine for TLC.                               *)
EXTENDS DeviceStatusMachine

Base == [degConfirm |-> 2, degWindow |-> 3, degClear |-> 2, downConfirm |-> 2, sensorDownConfirm |-> 1,
         upConfirm |-> 2, flapDetection |-> TRUE, flapWindow |-> 5, flapStart |-> 3, flapStop |-> 1,
         flapStable |-> 2, rtt |-> 2, rttClear |-> 1, loss |-> 2, lossClear |-> 1]

(* Confirmation counts above one; an edit that shrinks the window and the  *)
(* counts.  The flap window is too short for any history to build up.    *)
Confirming == [Base EXCEPT !.flapWindow = 1, !.flapStable = 1]
ConfirmPolicies ==
    {Confirming, [Confirming EXCEPT !.degConfirm = 1, !.degWindow = 2, !.downConfirm = 1, !.upConfirm = 1]}

(* Every check confirms, so changes come fast enough to flap; an edit that *)
(* switches flap detection off and on.                                     *)
Quick == [Base EXCEPT !.degConfirm = 1, !.degWindow = 1, !.degClear = 1, !.downConfirm = 1, !.upConfirm = 1]
FlapPolicies == {Quick, [Quick EXCEPT !.flapDetection = FALSE]}

AnySample ==
    {[responding |-> FALSE, rtt |-> 0, loss |-> 3], [responding |-> TRUE, rtt |-> 3, loss |-> 0],
     [responding |-> TRUE, rtt |-> 1, loss |-> 2], [responding |-> TRUE, rtt |-> 1, loss |-> 1]}
PlainSample == {m \in AnySample : m.responding => m.rtt = 3 \/ m.loss = 1}

ConfirmingAndFlapping ==
    {[policies |-> ConfirmPolicies, samples |-> AnySample, deltas |-> {1, 4}, maxTime |-> 8, histLen |-> 3],
     [policies |-> FlapPolicies, samples |-> PlainSample, deltas |-> {-4, 1, 2}, maxTime |-> 5, histLen |-> 1]}
=============================================================================
