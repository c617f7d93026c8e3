---------------------------- MODULE MCPmdReload ----------------------------
(* Values for the constants of PmdReload: two cores of one NUMA node and   *)
(* one of another, two ports on the first node; the second queue of port 1 *)
(* is pinned to core 1.                                                    *)
EXTENDS PmdReload

Cores == {0, 1, 2}
Nodes == [c \in {0, 1, 2} |-> IF c = 2 THEN 1 ELSE 0]
PortNodes == [p \in {1, 2} |-> 0]
PinOne == [q \in Rxq |-> IF q = <<1, 1>> THEN 1 ELSE NoCore]
TxqLimits == [p \in {1, 2} |-> p + 1]
CycleBounds == [q \in Rxq |-> IF q = <<1, 1>> THEN 0 ELSE IF q = <<2, 1>> THEN 2 ELSE 1]
TwoPorts == {1, 2}
SomeMasks == {{0, 1}, {1}, {0, 2}}
AnyIso == {TRUE, FALSE}
RequestBounds == [p \in {1, 2} |-> 4 - p]
=============================================================================
