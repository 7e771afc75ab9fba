---------------------------- MODULE MCDeviceAlerts ----------------------------
(* DeviceAlerts for TLC. *)
EXTENDS DeviceAlerts
=============================================================================
