------------------------ MODULE MCSensorAuthorization ------------------------
(* Instances of SensorAuthorization for TLC.                               *)
EXTENDS SensorAuthorization, TLC

CONSTANTS heartbeat, config, upload
=============================================================================
