--------------------------- MODULE MCSensorDelivery ---------------------------
(* Instances of SensorDelivery for TLC.                                    *)
EXTENDS SensorDelivery

Result(path, size, bad) == [path |-> path, size |-> size, bad |-> bad]

(* One endpoint, good and bad results; two segments are enough.            *)
GoodAndBad == {Result("ping", 1, FALSE), Result("ping", 1, TRUE)}
=============================================================================
