--------------------------- MODULE MCHostInserts ---------------------------
(* Instances of HostInserts for TLC.                                       *)
EXTENDS HostInserts
=============================================================================
