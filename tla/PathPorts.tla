----------------------------- MODULE PathPorts -----------------------------
(***************************************************************************)
(* The UDP ports that stand for paths: the underlay routes a packet by its *)
(* destination port.  No state.                                            *)
(***************************************************************************)
EXTENDS Integers

CONSTANTS
  PATH_NB,          \* number of paths
  DST_PORT_PATH_1   \* UDP port of the first path

ASSUME PathPortsAssumption ==
  /\ PATH_NB \in Nat \ {0} /\ PATH_NB <= 256
  /\ DST_PORT_PATH_1 \in Nat \ {0}

Paths == 0 .. (PATH_NB - 1)

(* encode_probe_pkt takes the 1-based number of the path.                  *)
ProbePort(path_id) == DST_PORT_PATH_1 - 1 + path_id

(* encode_repath_pkt and encode_repath_ack_pkt take opt_path_id as it is.  *)
RepathPort(opt_path_id) == DST_PORT_PATH_1 - 1 + opt_path_id

(* The receiver stores the difference in a uint8_t.                        *)
PathOfPort(port) == (port - DST_PORT_PATH_1) % 256
=============================================================================
