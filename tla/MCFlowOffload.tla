--------------------------- MODULE MCFlowOffload ---------------------------
(* Values for FlowOffload: two megaflows of one port, served by one of two *)
(* offload threads; the other takes part in the flush of the port only.    *)
EXTENDS FlowOffload, TLC
CONSTANTS m1, m2, t1, t2, a
ThreadOfMega == [m \in {m1, m2} |-> t1]
PortOfMega == [m \in {m1, m2} |-> a]
=============================================================================
