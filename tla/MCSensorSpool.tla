---------------------------- MODULE MCSensorSpool ----------------------------
(* Instances of SensorSpool for TLC.                                       *)
EXTENDS SensorSpool

Result(path, size, bad) == [path |-> path, size |-> size, bad |-> bad]

(* Two endpoints, results of different sizes.                              *)
TwoPaths == {Result("ping", 1, FALSE), Result("snmp", 2, FALSE)}
=============================================================================
