------------------------------ MODULE MCOvsCp ------------------------------
(* Values for the constants of OvsCp.                                      *)
EXTENDS OvsCp

CONSTANTS n1, n2, c1, c2, c3, c4, p1

TwoNic == {n1, n2}
OneNic == {n1}
FourCp == {c1, c2, c3, c4}
OnePmd == {p1}
BothRoles == {"cq", "yy"}
AnyFailure == {"pool", "rings", "inRing", "outRing"}
FromPeer == [cq |-> {[cp_flag |-> "REPATH", path |-> 1]},
             yy |-> {[cp_flag |-> "PROBE", path |-> 0], [cp_flag |-> "REPATH_ACK", path |-> 0]}]
=============================================================================
