----------------------------- MODULE MCNcmJobs -----------------------------
(* Instances of NcmJobs for TLC.                                           *)
EXTENDS NcmJobs

RunningAndStartup == <<"running", "startup">>
=============================================================================
