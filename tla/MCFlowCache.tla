---------------------------- MODULE MCFlowCache ----------------------------
(* Values for FlowCache: two microflows of the port, a match for one of    *)
(* them and a match for both, which the simple match table takes.          *)
EXTENDS FlowCache

CONSTANTS k1, k2
KeySet == {k1, k2}
MegaSet == {{k1}, {k1, k2}}
SimpleSet == {{k1, k2}}
=============================================================================
