------------------------------ MODULE MCMeter ------------------------------
(* Small values for Meter: Thousand is 3, so that a bucket of rate 2 and   *)
(* burst 1 has a fill time that is rounded, 3 ms hold two of them.         *)
EXTENDS Meter, TLC
CONSTANTS t1, t2
TwoThreads == {t1, t2}
AnyThread == Permutations(TwoThreads)
Band(r, s) == [rate |-> r, burst |-> s]
SomeConfigs ==
  {[pktps |-> TRUE, bands |-> <<Band(2, 1), Band(1, 1)>>],
   [pktps |-> FALSE, bands |-> <<Band(2, 1)>>]}
=============================================================================
