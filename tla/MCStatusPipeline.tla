--------------------------- MODULE MCStatusPipeline ---------------------------
(* Instances of StatusPipeline for TLC.                                    *)
EXTENDS StatusPipeline, TLC

CONSTANTS d1, s1, s2, central, none

(* At most one thing goes wrong: a failing call, a crash or a write of a   *)
(* sensor that the poller has not seen.                                    *)
OneUpset == spent.writes + spent.faults + spent.crashes <= 1
=============================================================================
