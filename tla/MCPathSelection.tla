------------------------- MODULE MCPathSelection -------------------------
(* Small values for PathSelection: three paths, MOD 32 for 2^64, the       *)
(* offset and the initial entry in the same order as the code's.           *)
EXTENDS PathSelection
AllPaths == Paths
SkewBehind == -3
==========================================================================
