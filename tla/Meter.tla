------------------------------- MODULE Meter -------------------------------
(***************************************************************************)
(* A meter of the userspace datapath (dpif-netdev.c): token buckets that   *)
(* several threads draw from under the lock of the meter, each with the    *)
(* time at which it received its packets, while the main thread sets and   *)
(* deletes the meter.                                                      *)
(*                                                                         *)
(* Time is in ms, a bucket in 1/1000 packets or in bits.  The code drains  *)
(* a bucket at once if all packets fit, takes bucket / 1000 of them if     *)
(* they count alike, and goes through them else: this comes to going       *)
(* through them in each case.  A deleted meter is freed by RCU once no     *)
(* thread refers to it.  Which band counts a packet is left out.           *)
(***************************************************************************)
EXTENDS Integers, Sequences

CONSTANTS
  Thread,     \* threads that execute actions
  Configs,    \* [pktps, bands]: OFPMF13_PKTPS and the [rate, burst] of each band
  Sizes,      \* packet sizes in bits
  MaxBatch,   \* NETDEV_MAX_BURST
  Thousand,   \* 1000: ms in a second, 1/1000 packets in a packet
  MaxTime,    \* bound: ms
  MaxSets     \* bound: how often the meter is set

Bands == [rate : Nat \ {0}, burst : Nat \ {0}]

ASSUME MeterAssumption ==
  /\ \A c \in Configs : c.pktps \in BOOLEAN /\ c.bands \in Seq(Bands)
  /\ Sizes \subseteq Nat /\ MaxBatch \in Nat /\ Thousand \in Nat \ {0}
  /\ MaxTime \in Nat /\ MaxSets \in Nat

VARIABLES
  clock,
  meter,      \* the meters made so far
  cur,        \* the one dp->meters has now, 0 if none
  setting,    \* the meter to attach when the old one is gone, 0 if none
  th,         \* [now, m]: ctx.now and the meter of a thread with packets, or Idle
  ghost,      \* for each meter: [latest, ideal, level], see Ideal and Level
  wronged     \* ghost: a band dropped packets an ideal bucket had room for

vars == <<clock, meter, cur, setting, th, ghost, wronged>>

Idle == [now |-> -1, m |-> 0]
Batches == UNION {[1 .. k -> Sizes] : k \in 1 .. MaxBatch}

Least(a, b) == IF a <= b THEN a ELSE b
Most(a, b) == IF a >= b THEN a ELSE b

Init ==
  /\ clock = 0 /\ meter = <<>> /\ cur = 0 /\ setting = 0 /\ th = [t \in Thread |-> Idle]
  /\ ghost = <<>> /\ wronged = FALSE

-----------------------------------------------------------------------------
(* The arithmetic of one band.                                             *)

Capacity(band) == band.burst * Thousand

(* How long filling a band's bucket takes, rounded down.                   *)
FillTime(band) == Capacity(band) \div band.rate

(* meter->max_delta_t: the longest of the bands.                           *)
(* Mutant: the shortest.                                                   *)
MinDelta(bands) ==
  CHOOSE d \in {FillTime(bands[b]) : b \in DOMAIN bands} :
    \A b \in DOMAIN bands : d <= FillTime(bands[b])

MaxDelta(bands) ==
  CHOOSE d \in {FillTime(bands[b]) : b \in DOMAIN bands} :
    \A b \in DOMAIN bands : d >= FillTime(bands[b])

(* delta_t: no time passes for a thread that comes late to the lock.       *)
(* Mutant: the difference is taken as unsigned, a large one if negative.   *)
DeltaUnsigned(mt, now) ==
  IF now < mt.used THEN MaxDelta(mt.cfg.bands)
  ELSE Least(now - mt.used, MaxDelta(mt.cfg.bands))

Delta(mt, now) == Least(Most(now - mt.used, 0), MaxDelta(mt.cfg.bands))

Refill(bucket, band, delta) == Least(bucket + delta * band.rate, Capacity(band))

(* What is left in a bucket after each packet of those costs.              *)
Drain(bucket, costs) ==
  LET left[i \in 0 .. Len(costs)] ==
        IF i = 0 THEN bucket
        ELSE IF left[i - 1] >= costs[i] THEN left[i - 1] - costs[i] ELSE left[i - 1]
  IN left

Exceeding(left, costs) == {i \in DOMAIN costs : left[i - 1] < costs[i]}

Total(costs) ==
  LET sum[i \in 0 .. Len(costs)] == IF i = 0 THEN 0 ELSE sum[i - 1] + costs[i]
  IN sum[Len(costs)]

-----------------------------------------------------------------------------
(* Two buckets to compare with.                                            *)

(* A burst less a rate, as FillTime is rounded down.                       *)
Promised(band) == Most(Capacity(band) - band.rate + 1, 0)

(* The ideal bucket counts true time, never twice and however long it was. *)
Ideal(m, b, now) ==
  LET band == meter[m].cfg.bands[b] IN
  Least(ghost[m].ideal[b] + Most(now - ghost[m].latest, 0) * band.rate, Promised(band))

(* What has passed since some call, less the rate over the time since      *)
(* then, for the call that makes this most.                                *)
Level(m, b, now) ==
  Most(ghost[m].level[b] - Most(now - meter[m].used, 0) * meter[m].cfg.bands[b].rate, 0)

-----------------------------------------------------------------------------
(* The main thread: dpif_netdev_meter_set makes the meter with full        *)
(* buckets, takes the old one from dp->meters and puts the new one there,  *)
(* which threads that look it up see as two steps.                         *)
MeterSet(c) ==
  /\ setting = 0 /\ Len(meter) < MaxSets
  /\ meter' = Append(meter, [cfg |-> c, used |-> clock,
                             bucket |-> [b \in DOMAIN c.bands |-> Capacity(c.bands[b])]])
  /\ ghost' = Append(ghost, [latest |-> clock, level |-> [b \in DOMAIN c.bands |-> 0],
                             ideal |-> [b \in DOMAIN c.bands |-> Promised(c.bands[b])]])
  /\ cur' = 0 /\ setting' = Len(meter')
  /\ UNCHANGED <<clock, th, wronged>>

Attach ==
  /\ setting # 0 /\ cur' = setting /\ setting' = 0
  /\ UNCHANGED <<clock, meter, th, ghost, wronged>>

(* dpif_netdev_meter_del.                                                  *)
MeterDel ==
  /\ setting = 0 /\ cur # 0 /\ cur' = 0
  /\ UNCHANGED <<clock, meter, setting, th, ghost, wronged>>

Tick ==
  /\ clock < MaxTime /\ clock' = clock + 1
  /\ UNCHANGED <<meter, cur, setting, th, ghost, wronged>>

-----------------------------------------------------------------------------
(* A thread that executes a meter action.                                  *)

(* The packets come in, and ctx.now is set.                                *)
Receive(t) ==
  /\ th[t] = Idle /\ th' = [th EXCEPT ![t].now = clock]
  /\ UNCHANGED <<clock, meter, cur, setting, ghost, wronged>>

(* dp_netdev_run_meter up to the lock: packets pass if there is no meter.  *)
Lookup(t) ==
  /\ th[t] # Idle /\ th[t].m = 0
  /\ th' = [th EXCEPT ![t] = IF cur = 0 THEN Idle ELSE [@ EXCEPT !.m = cur]]
  /\ UNCHANGED <<clock, meter, cur, setting, ghost, wronged>>

(* The rest, under the lock.                                               *)
RunMeter(t) ==
  LET m == th[t].m
      now == th[t].now
      mt == meter[m]
      bands == mt.cfg.bands
  IN
  /\ m # 0
  /\ \E sizes \in Batches :
       LET costs == [i \in DOMAIN sizes |-> IF mt.cfg.pktps THEN Thousand ELSE sizes[i]]
           left == [b \in DOMAIN bands |->
                      Drain(Refill(mt.bucket[b], bands[b], Delta(mt, now)), costs)]
           over == [b \in DOMAIN bands |-> Exceeding(left[b], costs)]
           dropped == UNION {over[b] : b \in DOMAIN bands}
           sent == Total([i \in DOMAIN costs |-> IF i \in dropped THEN 0 ELSE costs[i]])
           room == [b \in DOMAIN bands |-> Ideal(m, b, now) - Total(costs)]
       IN
       /\ meter' = [meter EXCEPT ![m].used = now,
                                 ![m].bucket = [b \in DOMAIN bands |-> left[b][Len(costs)]]]
       /\ ghost' = [ghost EXCEPT ![m] =
                      [latest |-> Most(@.latest, now),
                       ideal  |-> [b \in DOMAIN bands |-> Most(room[b], 0)],
                       level  |-> [b \in DOMAIN bands |-> Level(m, b, now) + sent]]]
       /\ wronged' = (wronged \/ \E b \in DOMAIN bands : over[b] # {} /\ room[b] >= 0)
  /\ th' = [th EXCEPT ![t] = Idle]
  /\ UNCHANGED <<clock, cur, setting>>

-----------------------------------------------------------------------------
Next ==
  \/ Tick \/ Attach \/ MeterDel \/ \E c \in Configs : MeterSet(c)
  \/ \E t \in Thread : Receive(t) \/ Lookup(t) \/ RunMeter(t)

Spec == Init /\ [][Next]_vars

-----------------------------------------------------------------------------
(* No band lets through more than its burst and its rate over time, from   *)
(* whichever call on.  The time between two calls counts for each pair of  *)
(* calls: when a thread comes to the lock with an earlier now than the one *)
(* before it, some time counts twice.                                      *)
RateKept ==
  \A m \in DOMAIN meter : \A b \in DOMAIN meter[m].bucket :
    ghost[m].level[b] <= Capacity(meter[m].cfg.bands[b])

(* A sender that stays below what is Promised, and the rate, loses nothing *)
(* to a band, however long it pauses, whatever the other bands are and     *)
(* however threads race.                                                   *)
WithinRatePasses == ~wronged
=============================================================================
