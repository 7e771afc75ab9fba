--------------------------- MODULE MCFlowDelivery ---------------------------
(* Instances of FlowDelivery for TLC; the bounds are in the .cfg files.    *)
EXTENDS FlowDelivery
=============================================================================
