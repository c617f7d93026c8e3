----------------------------- MODULE MCRepathCp -----------------------------
(* Two hosts for RepathCp, named as in run.sh and README.md: cq is started *)
(* with -s 1, yy with -s 0.                                                *)
EXTENDS RepathCp
CONSTANTS cq, yy
TwoHosts == {cq, yy}
CqSends == {cq}
NoSenders == {}
TsOnly == {"TS"}
TsAndOther == {"TS", "OTHER"}
AlwaysRepath == {"repath"}
AlwaysStay == {"stay"}
RepathOrTrap == {"repath", "trap"}
=============================================================================
