--------------------------- MODULE RepathCpProofs ---------------------------
(***************************************************************************)
(* Proofs about RepathCp for any sizes of pool, rings, bursts and          *)
(* descriptor queues: capacities, mbuf accounting, that a pool which       *)
(* covers all the places that hold mbufs is exhausted only by leaks, and   *)
(* that every acknowledgement answers a REPATH of its own.                 *)
(***************************************************************************)
EXTENDS RepathCp, OnePathCheck, FiniteSetTheorems, SequenceTheorems, TLAPS

-----------------------------------------------------------------------------
(* Lengths of the results of the ring operations.                          *)

LEMMA MinOfTwo ==
  \A a, b \in Int :
         /\ Min({a, b}) \in {a, b}
         /\ Min({a, b}) <= a /\ Min({a, b}) <= b
<1> TAKE a, b \in Int
<1>1. \E x \in {a, b} : \A y \in {a, b} : x =< y
  OBVIOUS
<1> QED
  BY <1>1 DEF Min

(* The ring takes a prefix of the burst, all of it unless the ring is full *)
(* afterwards.                                                             *)
LEMMA EnqueueLen ==
  ASSUME NEW S, NEW ring \in Seq(S), NEW s \in Seq(S), Len(ring) <= RingSize
  PROVE  /\ Enqueue(ring, s) \in Seq(S)
         /\ Len(ring) <= Len(Enqueue(ring, s))
         /\ Len(Enqueue(ring, s)) <= RingSize
         /\ Len(Enqueue(ring, s)) <= Len(ring) + Len(s)
         /\ Len(Enqueue(ring, s)) < Len(ring) + Len(s) => Full(Enqueue(ring, s))
<1> DEFINE n == Min({Len(s), RingSize - Len(ring)})
<1>1. RingSize \in Nat /\ Len(s) \in Nat /\ Len(ring) \in Nat
  BY SizesAssumption
<1>2. /\ n \in {Len(s), RingSize - Len(ring)}
      /\ n <= Len(s) /\ n <= RingSize - Len(ring)
  <2>1. RingSize - Len(ring) \in Int /\ Len(s) \in Int
    BY <1>1
  <2> QED
    BY <2>1, MinOfTwo, Zenon
<1>3. n \in Nat
  BY <1>1, <1>2
<1> HIDE DEF n
<1>4. SubSeq(s, 1, n) \in Seq(S) /\ Len(SubSeq(s, 1, n)) = n
  BY <1>2, <1>3
<1>5. ring \o SubSeq(s, 1, n) \in Seq(S) /\ Len(ring \o SubSeq(s, 1, n)) = Len(ring) + n
  BY <1>4, ConcatProperties
<1>6. Enqueue(ring, s) = ring \o SubSeq(s, 1, n)
  BY DEF Enqueue, n
<1>7. n = Len(s) \/ Len(ring) + n = RingSize
  BY <1>1, <1>2
<1> QED
  BY <1>1, <1>2, <1>3, <1>5, <1>6, <1>7 DEF Full

(* A burst takes at most BURST_SIZE from the front and leaves the rest.    *)
LEMMA BurstSplits ==
  ASSUME NEW S, NEW ring \in Seq(S)
  PROVE  /\ Burst(ring) \in Seq(S) /\ AfterBurst(ring) \in Seq(S)
         /\ Len(Burst(ring)) <= BURST_SIZE
         /\ Len(Burst(ring)) + Len(AfterBurst(ring)) = Len(ring)
<1> DEFINE n == BurstLen(ring)
<1>1. BURST_SIZE \in Nat /\ Len(ring) \in Nat
  BY SizesAssumption
<1>2. n \in Nat /\ n <= Len(ring) /\ n <= BURST_SIZE
  <2>1. n \in {Len(ring), BURST_SIZE} /\ n <= Len(ring) /\ n <= BURST_SIZE
    <3>1. Len(ring) \in Int /\ BURST_SIZE \in Int
      BY <1>1
    <3> QED
      BY <3>1, MinOfTwo, Zenon DEF BurstLen
  <2> QED
    BY <1>1, <2>1
<1> HIDE DEF n
<1>3. SubSeq(ring, 1, n) \in Seq(S) /\ Len(SubSeq(ring, 1, n)) = n
  BY <1>2
<1>4. /\ SubSeq(ring, n + 1, Len(ring)) \in Seq(S)
      /\ Len(SubSeq(ring, n + 1, Len(ring))) = Len(ring) - n
  BY <1>2
<1>5. Burst(ring) = SubSeq(ring, 1, n) /\ AfterBurst(ring) = SubSeq(ring, n + 1, Len(ring))
  BY DEF Burst, AfterBurst, n
<1>6. n + (Len(ring) - n) = Len(ring)
  BY <1>1, <1>2
<1> HIDE DEF n
<1> QED
  BY <1>2, <1>3, <1>4, <1>5, <1>6

LEMMA RemoveAtLen ==
  ASSUME NEW S, NEW s \in Seq(S), NEW k \in 1 .. Len(s)
  PROVE  RemoveAt(s, k) \in Seq(S) /\ Len(RemoveAt(s, k)) = Len(s) - 1
<1>1. SubSeq(s, 1, k - 1) \in Seq(S) /\ Len(SubSeq(s, 1, k - 1)) = k - 1
  OBVIOUS
<1>2. SubSeq(s, k + 1, Len(s)) \in Seq(S) /\ Len(SubSeq(s, k + 1, Len(s))) = Len(s) - k
  OBVIOUS
<1>3. /\ RemoveAt(s, k) \in Seq(S)
      /\ Len(RemoveAt(s, k)) = Len(SubSeq(s, 1, k - 1)) + Len(SubSeq(s, k + 1, Len(s)))
  BY <1>1, <1>2, ConcatProperties, Zenon DEF RemoveAt
<1>4. Len(RemoveAt(s, k)) = (k - 1) + (Len(s) - k)
  BY <1>1, <1>2, <1>3, Zenon
<1>5. Len(s) \in Nat /\ k \in Int
  OBVIOUS
<1>6. (k - 1) + (Len(s) - k) = Len(s) - 1
  BY <1>5
<1> QED
  BY <1>3, <1>4, <1>6, Zenon

(* The split of send_mbuf by what rte_eth_tx_burst takes.                  *)
LEMMA PrefixSplits ==
  ASSUME NEW S, NEW s \in Seq(S), NEW n \in 0 .. Len(s)
  PROVE  /\ SubSeq(s, 1, n) \in Seq(S) /\ SubSeq(s, n + 1, Len(s)) \in Seq(S)
         /\ Len(SubSeq(s, 1, n)) = n /\ Len(SubSeq(s, n + 1, Len(s))) = Len(s) - n
  OBVIOUS

LEMMA PeerInHost ==
  ASSUME NEW h \in Host
  PROVE  Peer(h) \in Host
  BY TwoHostsAssumption DEF Peer

(* Every packet the program or its surroundings make is a Packet.          *)
LEMMA PacketTypes ==
  /\ \A kind \in Kinds : Pkt(kind, DST_PORT_PATH_1) \in Packet
  /\ \A n \in 1 .. PATH_NB : Pkt("PROBE", ProbePort(n)) \in Packet
  /\ \A h \in Host : opt_path_id[h] \in Paths =>
       RepathPkt(h) \in Packet /\ RepathAckPkt(h) \in Packet
<1> USE PathPortsAssumption
<1>1. 0 \in Paths /\ DST_PORT_PATH_1 \in Ports
  BY DEF Paths, Ports
<1>2. \A n \in 1 .. PATH_NB : ProbePort(n) \in Ports
  BY DEF ProbePort, Ports
<1>3. \A p \in Paths : RepathPort(p) \in Ports
  BY DEF RepathPort, Ports, Paths
<1> QED
  BY <1>1, <1>2, <1>3 DEF Pkt, RepathPkt, RepathAckPkt, Packet, Kinds

-----------------------------------------------------------------------------
(* One step of the accounting, action by action.                           *)

IInv == TypeOK /\ MbufsConserved

(* Host h gains no mbuf, and loses some only into a full ring.             *)
AccountedAt(h) ==
  /\ free'[h] + Held(h)' <= free[h] + Held(h)
  /\ free'[h] + Held(h)' < free[h] + Held(h) =>
       Full(inRing'[h]) \/ Full(outRing'[h])
Accounted == \A h \in Host : AccountedAt(h)

(* The step leaves what the other host holds alone.                        *)
Others(h) ==
  \A g \in Host \ {h} :
    /\ free'[g] = free[g] /\ rxq'[g] = rxq[g] /\ inRing'[g] = inRing[g]
    /\ outRing'[g] = outRing[g] /\ txHand'[g] = txHand[g] /\ txq'[g] = txq[g]
    /\ encoded'[g] = encoded[g] /\ burst'[g] = burst[g]

(* The queues are sequences of packets and their lengths natural numbers.  *)
LEMMA Queues ==
  ASSUME TypeOK, NEW g \in Host
  PROVE  /\ rxq[g] \in Seq(Packet) /\ inRing[g] \in Seq(Packet)
         /\ outRing[g] \in Seq(Packet) /\ txHand[g] \in Seq(Packet)
         /\ txq[g] \in Seq(Packet) /\ encoded[g] \in Seq(Packet)
         /\ burst[g] \in Seq(Packet) /\ wire[g] \in Seq(Packet)
  BY DEF TypeOK, QueueTypes

LEMMA Lengths ==
  ASSUME TypeOK, NEW g \in Host
  PROVE  /\ free[g] \in Nat /\ Len(rxq[g]) \in Nat /\ Len(inRing[g]) \in Nat
         /\ Len(outRing[g]) \in Nat /\ Len(txHand[g]) \in Nat /\ Len(txq[g]) \in Nat
         /\ Len(encoded[g]) \in Nat /\ Len(burst[g]) \in Nat /\ Len(wire[g]) \in Nat
<1>1. free \in [Host -> 0 .. NumMbufs]
  BY DEF TypeOK, ScalarTypes
<1>2. free[g] \in 0 .. NumMbufs
  BY <1>1
<1>3. free[g] \in Nat
  BY <1>2, SizesAssumption
<1> QED
  BY <1>3, Queues, LenProperties

LEMMA Total ==
  ASSUME TypeOK, NEW g \in Host
  PROVE  /\ Held(g) \in Nat /\ free[g] + Held(g) \in Nat
         /\ Len(txq[g]) <= Held(g) /\ Len(burst[g]) <= Held(g)
<1> DEFINE f == free[g]  a == Len(rxq[g])  b == Len(inRing[g])
           c == Len(outRing[g])  d == Len(txHand[g])  e == Len(txq[g])
           n == Len(encoded[g])  m == Len(burst[g])
<1>1. Held(g) = a + b + c + d + e + n + m
  BY Zenon DEF Held
<1>2. /\ f \in Nat /\ a \in Nat /\ b \in Nat /\ c \in Nat /\ d \in Nat
      /\ e \in Nat /\ n \in Nat /\ m \in Nat
  BY Lengths
<1> HIDE DEF f, a, b, c, d, e, n, m
<1>3. /\ a + b + c + d + e + n + m \in Nat /\ f + (a + b + c + d + e + n + m) \in Nat
      /\ e <= a + b + c + d + e + n + m /\ m <= a + b + c + d + e + n + m
  BY <1>2, SMT
<1> QED
  BY <1>1, <1>3, Zenon DEF f, e, m

(* What an mbuf that is freed was held by leaves room in the pool for it.  *)
LEMMA Room ==
  ASSUME IInv, NEW g \in Host
  PROVE  /\ free[g] + Len(txq[g]) <= NumMbufs
         /\ free[g] + Len(burst[g]) <= NumMbufs
<1> DEFINE f == free[g]  s == Held(g)  e == Len(txq[g])  m == Len(burst[g])
<1>1. /\ s \in Nat /\ e <= s /\ m <= s
  BY Total DEF IInv
<1>2. f \in Nat /\ e \in Nat /\ m \in Nat
  BY Lengths DEF IInv
<1>3. NumMbufs - f - s >= 0
  BY Zenon DEF IInv, MbufsConserved, Leaked
<1> HIDE DEF f, s, e, m
<1>4. f + e <= NumMbufs /\ f + m <= NumMbufs
  BY <1>1, <1>2, <1>3, SizesAssumption
<1> QED
  BY <1>4 DEF f, e, m

LEMMA AccountedIfEqual ==
  ASSUME TypeOK, NEW h \in Host, free'[h] + Held(h)' = free[h] + Held(h)
  PROVE  AccountedAt(h)
<1>1. free[h] + Held(h) \in Nat
  BY Total
<1> HIDE DEF Held
<1>2. \A x \in Nat : x <= x /\ ~ (x < x)
  OBVIOUS
<1> QED
  BY <1>1, <1>2, Zenon DEF AccountedAt

LEMMA AccountedByHost ==
  ASSUME TypeOK, NEW h \in Host, Others(h), AccountedAt(h)
  PROVE  Accounted
<1> SUFFICES ASSUME NEW g \in Host \ {h} PROVE AccountedAt(g)
  BY DEF Accounted
<1>1. free'[g] + Held(g)' = free[g] + Held(g)
  BY Zenon DEF Others, Held
<1> QED
  BY <1>1, AccountedIfEqual

LEMMA AccountedIfUnchanged ==
  ASSUME TypeOK, UNCHANGED <<free, rxq, inRing, outRing, txHand, txq, encoded, burst>>
  PROVE  Accounted
<1> SUFFICES ASSUME NEW g \in Host PROVE AccountedAt(g)
  BY DEF Accounted
<1>1. free'[g] + Held(g)' = free[g] + Held(g)
  BY Zenon DEF Held
<1> QED
  BY <1>1, AccountedIfEqual

-----------------------------------------------------------------------------
(* The network and the NICs.                                               *)

LEMMA ArriveStep ==
  ASSUME IInv, NEW h \in Host, NEW kind \in Kinds, Arrive(h, kind)
  PROVE  TypeOK' /\ Accounted
<1> DEFINE w == Append(wire[h], Pkt(kind, DST_PORT_PATH_1))
<1>1. w \in Seq(Packet) /\ Len(w) = Len(wire[h]) + 1 /\ Len(w) <= MaxWire
  <2>1. Pkt(kind, DST_PORT_PATH_1) \in Packet /\ wire[h] \in Seq(Packet)
    BY PacketTypes, Queues DEF IInv
  <2>2. Len(wire[h]) < MaxWire /\ MaxWire \in Nat
    BY SizesAssumption DEF Arrive
  <2> QED
    BY <2>1, <2>2, AppendProperties
<1>2. /\ wire' = [wire EXCEPT ![h] = w]
      /\ arrivals < MaxArrive /\ arrivals' = arrivals + 1
      /\ UNCHANGED <<proc, free, rxq, inRing, outRing, txHand, txq, encoded, burst,
                     handled, opt_path_id, timer, repaths, acks, verdict>>
  BY DEF Arrive, nicVars, mainVars, probeVars, statsVars
<1> HIDE DEF w
<1>0. proc' \in [Host -> Procs]
  BY <1>2, Zenon DEF IInv, TypeOK
<1>3. ScalarTypes'
  <2>1. arrivals \in 0 .. MaxArrive
    BY DEF IInv, TypeOK, ScalarTypes
  <2>2. arrivals' \in 0 .. MaxArrive
    BY <1>2, <2>1, SizesAssumption
  <2> QED
    BY <1>2, <2>2 DEF IInv, TypeOK, ScalarTypes
<1>4. QueueTypes'
  BY <1>1, <1>2 DEF IInv, TypeOK, QueueTypes
<1>5. Capacities'
  BY <1>1, <1>2 DEF IInv, TypeOK, QueueTypes, Capacities
<1>6. Accounted
  BY <1>2, AccountedIfUnchanged, Zenon DEF IInv, TypeOK
<1> QED
  BY <1>0, <1>3, <1>4, <1>5, <1>6, Zenon DEF TypeOK

LEMMA NetLoseStep ==
  ASSUME IInv, NEW h \in Host, NEW k \in 1 .. Len(wire[h]), NetLose(h, k)
  PROVE  TypeOK' /\ Accounted
<1> DEFINE w == RemoveAt(wire[h], k)
<1>1. w \in Seq(Packet) /\ Len(w) <= MaxWire
  <2>1. wire[h] \in Seq(Packet) /\ Len(wire[h]) <= MaxWire /\ Len(wire[h]) \in Nat
    BY Queues, Lengths DEF IInv, TypeOK, Capacities
  <2>2. w \in Seq(Packet) /\ Len(w) = Len(wire[h]) - 1
    BY <2>1, RemoveAtLen
  <2> HIDE DEF w
  <2> QED
    BY <2>1, <2>2, SizesAssumption
<1>2. /\ wire' = [wire EXCEPT ![h] = w]
      /\ UNCHANGED <<proc, free, rxq, inRing, outRing, txHand, txq, encoded, burst,
                     handled, opt_path_id, timer, arrivals, repaths, acks, verdict>>
  BY DEF NetLose, nicVars, mainVars, probeVars, statsVars
<1> HIDE DEF w
<1>3. proc' \in [Host -> Procs]
  BY <1>2, Zenon DEF IInv, TypeOK
<1>4. ScalarTypes'
  BY <1>2 DEF IInv, TypeOK, ScalarTypes
<1>5. QueueTypes'
  BY <1>1, <1>2 DEF IInv, TypeOK, QueueTypes
<1>6. Capacities'
  BY <1>1, <1>2 DEF IInv, TypeOK, QueueTypes, Capacities
<1>7. Accounted
  BY <1>2, AccountedIfUnchanged, Zenon DEF IInv, TypeOK
<1> QED
  BY <1>3, <1>4, <1>5, <1>6, <1>7, Zenon DEF TypeOK

LEMMA NicReceiveStep ==
  ASSUME IInv, NEW h \in Host, NEW k \in 1 .. Len(wire[h]), NicReceive(h, k)
  PROVE  TypeOK' /\ Accounted
<1> DEFINE w == RemoveAt(wire[h], k)
           r == Append(rxq[h], wire[h][k])
<1>1. /\ wire[h] \in Seq(Packet) /\ Len(wire[h]) <= MaxWire /\ Len(wire[h]) \in Nat
      /\ rxq[h] \in Seq(Packet) /\ Len(rxq[h]) \in Nat /\ free[h] \in Nat
  BY Queues, Lengths DEF IInv, TypeOK, Capacities
<1>2. w \in Seq(Packet) /\ Len(w) <= MaxWire
  <2>1. w \in Seq(Packet) /\ Len(w) = Len(wire[h]) - 1
    BY <1>1, RemoveAtLen
  <2> HIDE DEF w
  <2> QED
    BY <1>1, <2>1, SizesAssumption
<1>3. r \in Seq(Packet) /\ Len(r) = Len(rxq[h]) + 1
  <2>1. wire[h][k] \in Packet
    BY <1>1, ElementOfSeq
  <2> QED
    BY <1>1, <2>1, AppendProperties
<1>4. /\ wire' = [wire EXCEPT ![h] = w]
      /\ UNCHANGED <<proc, inRing, outRing, txHand, txq, encoded, burst, handled,
                     opt_path_id, timer, arrivals, repaths, acks, verdict>>
  BY DEF NicReceive, mainVars, probeVars, statsVars
<1>5. CASE free[h] > 0 /\ Len(rxq[h]) < RxDesc
  <2>1. rxq' = [rxq EXCEPT ![h] = r] /\ free' = [free EXCEPT ![h] = free[h] - 1]
    BY <1>5 DEF NicReceive
  <2> HIDE DEF w, r
  <2>2. proc' \in [Host -> Procs]
    BY <1>4, Zenon DEF IInv, TypeOK
  <2>3. ScalarTypes'
    <3>1. free' \in [Host -> 0 .. NumMbufs]
      <4>1. free \in [Host -> 0 .. NumMbufs]
        BY DEF IInv, TypeOK, ScalarTypes
      <4>2. free[h] - 1 \in 0 .. NumMbufs
        BY <1>5, <4>1, SizesAssumption
      <4> QED
        BY <2>1, <4>1, <4>2
    <3> QED
      BY <1>4, <3>1 DEF IInv, TypeOK, ScalarTypes
  <2>4. QueueTypes'
    BY <1>2, <1>3, <1>4, <2>1 DEF IInv, TypeOK, QueueTypes
  <2>5. Capacities'
    <3>1. Len(r) <= RxDesc
      BY <1>1, <1>3, <1>5, SizesAssumption
    <3> QED
      BY <1>2, <1>4, <2>1, <3>1 DEF IInv, TypeOK, QueueTypes, Capacities
  <2>6. Accounted
    <3>1. free'[h] + Held(h)' = free[h] + Held(h)
      <4>0. free'[h] = free[h] - 1 /\ rxq'[h] = r
        BY <2>1 DEF IInv, TypeOK, ScalarTypes, QueueTypes
      <4>1. /\ free'[h] + 1 = free[h] /\ free'[h] \in Nat
            /\ Len(rxq'[h]) = Len(rxq[h]) + 1 /\ Len(rxq'[h]) \in Nat
        BY <1>1, <1>3, <1>5, <4>0
      <4>2. /\ Len(inRing[h]) \in Nat /\ Len(outRing[h]) \in Nat
            /\ Len(txHand[h]) \in Nat /\ Len(txq[h]) \in Nat
            /\ Len(encoded[h]) \in Nat /\ Len(burst[h]) \in Nat
        BY Lengths DEF IInv
      <4>3. /\ inRing'[h] = inRing[h] /\ outRing'[h] = outRing[h]
            /\ txHand'[h] = txHand[h] /\ txq'[h] = txq[h]
            /\ encoded'[h] = encoded[h] /\ burst'[h] = burst[h]
        BY <1>4
      <4> DEFINE f == free[h]  a == Len(rxq[h])  b == Len(inRing[h])
                 c == Len(outRing[h])  d == Len(txHand[h])  e == Len(txq[h])
                 n == Len(encoded[h])  m == Len(burst[h])
                 f1 == free'[h]  a1 == Len(rxq'[h])
      <4>4. /\ Held(h) = a + b + c + d + e + n + m
            /\ Held(h)' = a1 + b + c + d + e + n + m
        BY <4>3, Zenon DEF Held
      <4>5. /\ f \in Nat /\ a \in Nat /\ b \in Nat /\ c \in Nat /\ d \in Nat
            /\ e \in Nat /\ n \in Nat /\ m \in Nat
            /\ f1 \in Nat /\ a1 \in Nat /\ f1 + 1 = f /\ a1 = a + 1
        BY <1>1, <4>1, <4>2
      <4> HIDE DEF f, a, b, c, d, e, n, m, f1, a1
      <4>6. f1 + (a1 + b + c + d + e + n + m) = f + (a + b + c + d + e + n + m)
        BY <4>5, SMT
      <4> QED
        BY <4>4, <4>6, Zenon DEF f, f1
    <3>2. Others(h)
      BY <1>4, <2>1 DEF Others, IInv, TypeOK, ScalarTypes, QueueTypes
    <3> QED
      BY <3>1, <3>2, AccountedIfEqual, AccountedByHost DEF IInv
  <2> QED
    BY <2>2, <2>3, <2>4, <2>5, <2>6, Zenon DEF TypeOK
<1>6. CASE ~ (free[h] > 0 /\ Len(rxq[h]) < RxDesc)
  <2>1. UNCHANGED <<rxq, free>>
    BY <1>6 DEF NicReceive
  <2> HIDE DEF w, r
  <2>2. proc' \in [Host -> Procs]
    BY <1>4, Zenon DEF IInv, TypeOK
  <2>3. ScalarTypes'
    BY <1>4, <2>1 DEF IInv, TypeOK, ScalarTypes
  <2>4. QueueTypes'
    BY <1>2, <1>4, <2>1 DEF IInv, TypeOK, QueueTypes
  <2>5. Capacities'
    BY <1>2, <1>4, <2>1 DEF IInv, TypeOK, QueueTypes, Capacities
  <2>6. Accounted
    BY <1>4, <2>1, AccountedIfUnchanged, Zenon DEF IInv, TypeOK
  <2> QED
    BY <2>2, <2>3, <2>4, <2>5, <2>6, Zenon DEF TypeOK
<1> QED
  BY <1>5, <1>6

LEMMA NicTransmitStep ==
  ASSUME IInv, NEW h \in Host, NicTransmit(h)
  PROVE  TypeOK' /\ Accounted
<1> DEFINE p == Peer(h)
           w == Append(wire[p], Head(txq[h]))
           t == Tail(txq[h])
<1>1. /\ p \in Host /\ wire[p] \in Seq(Packet) /\ Len(wire[p]) < MaxWire
      /\ txq[h] \in Seq(Packet) /\ txq[h] # <<>> /\ Len(txq[h]) <= TxDesc
  BY PeerInHost, Queues DEF IInv, TypeOK, Capacities, NicTransmit
<1>2. t \in Seq(Packet) /\ Len(t) + 1 = Len(txq[h]) /\ Len(t) <= TxDesc
  <2>1. t \in Seq(Packet) /\ Len(t) = Len(txq[h]) - 1 /\ Len(txq[h]) \in Nat
    BY <1>1, HeadTailProperties, LenProperties
  <2> HIDE DEF t
  <2> QED
    BY <1>1, <2>1, SizesAssumption
<1>3. w \in Seq(Packet) /\ Len(w) <= MaxWire
  <2>1. Head(txq[h]) \in Packet /\ Len(wire[p]) \in Nat
    BY <1>1, HeadTailProperties, LenProperties
  <2>2. w \in Seq(Packet) /\ Len(w) = Len(wire[p]) + 1
    BY <1>1, <2>1, AppendProperties
  <2> HIDE DEF w
  <2> QED
    BY <1>1, <2>1, <2>2, SizesAssumption
<1>4. /\ wire' = [wire EXCEPT ![p] = w] /\ txq' = [txq EXCEPT ![h] = t]
      /\ free' = [free EXCEPT ![h] = free[h] + 1]
      /\ UNCHANGED <<proc, rxq, inRing, outRing, txHand, encoded, burst, handled,
                     opt_path_id, timer, arrivals, repaths, acks, verdict>>
  BY DEF NicTransmit, mainVars, probeVars, statsVars
<1> HIDE DEF w, t, p
<1>5. proc' \in [Host -> Procs]
  BY <1>4, Zenon DEF IInv, TypeOK
<1>6. ScalarTypes'
  <2>1. free \in [Host -> 0 .. NumMbufs]
    BY DEF IInv, TypeOK, ScalarTypes
  <2>2. free[h] + Len(txq[h]) <= NumMbufs
    BY Room
  <2>3. free[h] + 1 \in 0 .. NumMbufs
    <3>1. free[h] \in Nat /\ Len(t) \in Nat
      BY <1>2, Lengths, LenProperties DEF IInv
    <3> QED
      BY <1>2, <2>2, <3>1, SizesAssumption
  <2>4. free' \in [Host -> 0 .. NumMbufs]
    BY <1>4, <2>1, <2>3
  <2> QED
    BY <1>4, <2>4 DEF IInv, TypeOK, ScalarTypes
<1>7. QueueTypes'
  BY <1>1, <1>2, <1>3, <1>4 DEF IInv, TypeOK, QueueTypes
<1>8. Capacities'
  BY <1>1, <1>2, <1>3, <1>4 DEF IInv, TypeOK, QueueTypes, Capacities
<1>9. free'[h] + Held(h)' = free[h] + Held(h)
  <2>1. /\ free'[h] = free[h] + 1 /\ txq'[h] = t
        /\ rxq'[h] = rxq[h] /\ inRing'[h] = inRing[h] /\ outRing'[h] = outRing[h]
        /\ txHand'[h] = txHand[h] /\ encoded'[h] = encoded[h] /\ burst'[h] = burst[h]
    BY <1>4 DEF IInv, TypeOK, ScalarTypes, QueueTypes
  <2> DEFINE f == free[h]  a == Len(rxq[h])  b == Len(inRing[h])
             c == Len(outRing[h])  d == Len(txHand[h])  e == Len(txq[h])
             n == Len(encoded[h])  m == Len(burst[h])
             f1 == free'[h]  e1 == Len(t)
  <2>2. /\ Held(h) = a + b + c + d + e + n + m
        /\ Held(h)' = a + b + c + d + e1 + n + m
    BY <2>1, Zenon DEF Held
  <2>3. /\ f \in Nat /\ a \in Nat /\ b \in Nat /\ c \in Nat /\ d \in Nat
        /\ e \in Nat /\ n \in Nat /\ m \in Nat
        /\ e1 \in Nat /\ e1 + 1 = e /\ f1 = f + 1
    BY <1>2, <2>1, Lengths, LenProperties DEF IInv
  <2> HIDE DEF f, a, b, c, d, e, n, m, f1, e1
  <2>4. f1 + (a + b + c + d + e1 + n + m) = f + (a + b + c + d + e + n + m)
    BY <2>3, SMT
  <2> QED
    BY <2>2, <2>4, Zenon DEF f, f1
<1>10. Others(h)
  BY <1>4 DEF Others, IInv, TypeOK, ScalarTypes, QueueTypes
<1>11. Accounted
  BY <1>9, <1>10, AccountedIfEqual, AccountedByHost DEF IInv
<1> QED
  BY <1>5, <1>6, <1>7, <1>8, <1>11, Zenon DEF TypeOK

-----------------------------------------------------------------------------
(* The main lcore.                                                         *)

LEMMA MainRxStep ==
  ASSUME IInv, NEW h \in Host, MainRx(h)
  PROVE  TypeOK' /\ Accounted
<1> DEFINE x == Burst(rxq[h])
           r == AfterBurst(rxq[h])
           q == Enqueue(inRing[h], x)
<1>1. /\ rxq[h] \in Seq(Packet) /\ Len(rxq[h]) <= RxDesc /\ Len(rxq[h]) \in Nat
      /\ inRing[h] \in Seq(Packet) /\ Len(inRing[h]) <= RingSize
  BY Queues, Lengths DEF IInv, TypeOK, Capacities
<1>2. x \in Seq(Packet) /\ r \in Seq(Packet) /\ Len(x) + Len(r) = Len(rxq[h])
  BY <1>1, BurstSplits
<1> HIDE DEF x, r
<1>3. /\ q \in Seq(Packet) /\ Len(q) <= RingSize /\ Len(q) <= Len(inRing[h]) + Len(x)
      /\ Len(q) < Len(inRing[h]) + Len(x) => Full(q)
  BY <1>1, <1>2, EnqueueLen
<1>4. /\ rxq' = [rxq EXCEPT ![h] = r] /\ inRing' = [inRing EXCEPT ![h] = q]
      /\ UNCHANGED <<proc, free, outRing, txHand, txq, encoded, burst, handled,
                     opt_path_id, timer, wire, arrivals, repaths, acks, verdict>>
  BY DEF MainRx, mainVars, probeVars, statsVars, netVars, x, r
<1> HIDE DEF q
<1>5. proc' \in [Host -> Procs]
  BY <1>4, Zenon DEF IInv, TypeOK
<1>6. ScalarTypes'
  BY <1>4 DEF IInv, TypeOK, ScalarTypes
<1>7. QueueTypes'
  BY <1>2, <1>3, <1>4 DEF IInv, TypeOK, QueueTypes
<1>8. Capacities'
  <2>1. Len(r) <= RxDesc
    <3>1. Len(r) \in Nat /\ Len(x) \in Nat
      BY <1>2, LenProperties
    <3> QED
      BY <1>1, <1>2, <3>1, SizesAssumption
  <2> QED
    BY <1>2, <1>3, <1>4, <2>1 DEF IInv, TypeOK, QueueTypes, Capacities
<1>9. AccountedAt(h)
  <2>1. /\ rxq'[h] = r /\ inRing'[h] = q /\ free'[h] = free[h]
        /\ outRing'[h] = outRing[h] /\ txHand'[h] = txHand[h] /\ txq'[h] = txq[h]
        /\ encoded'[h] = encoded[h] /\ burst'[h] = burst[h]
    BY <1>4 DEF IInv, TypeOK, ScalarTypes, QueueTypes
  <2> DEFINE f == free[h]  a == Len(rxq[h])  b == Len(inRing[h])
             c == Len(outRing[h])  d == Len(txHand[h])  e == Len(txq[h])
             n == Len(encoded[h])  m == Len(burst[h])
             a1 == Len(r)  b1 == Len(q)  y == Len(x)
             old == a + b + c + d + e + n + m
             new == a1 + b1 + c + d + e + n + m
  <2>2. Held(h) = old /\ Held(h)' = new /\ free'[h] = f
    BY <2>1, Zenon DEF Held
  <2>3. /\ f \in Nat /\ a \in Nat /\ b \in Nat /\ c \in Nat /\ d \in Nat
        /\ e \in Nat /\ n \in Nat /\ m \in Nat
        /\ a1 \in Nat /\ b1 \in Nat /\ y \in Nat /\ y + a1 = a /\ b1 <= b + y
    BY <1>2, <1>3, Lengths, LenProperties DEF IInv
  <2>4. b1 < b + y => Full(inRing'[h])
    BY <1>3, <2>1
  <2> HIDE DEF f, a, b, c, d, e, n, m, a1, b1, y
  <2>5. f + new <= f + old /\ (f + new < f + old => b1 < b + y)
    BY <2>3, SMT
  <2> HIDE DEF old, new
  <2> QED
    BY <2>2, <2>4, <2>5, Zenon DEF AccountedAt, f
<1>10. Others(h)
  BY <1>4 DEF Others, IInv, TypeOK, ScalarTypes, QueueTypes
<1>11. Accounted
  BY <1>9, <1>10, AccountedByHost DEF IInv
<1> QED
  BY <1>5, <1>6, <1>7, <1>8, <1>11, Zenon DEF TypeOK

LEMMA MainTxDequeueStep ==
  ASSUME IInv, NEW h \in Host, MainTxDequeue(h)
  PROVE  TypeOK' /\ Accounted
<1> DEFINE x == Burst(outRing[h])
           r == AfterBurst(outRing[h])
<1>1. /\ outRing[h] \in Seq(Packet) /\ Len(outRing[h]) <= RingSize
      /\ Len(outRing[h]) \in Nat /\ Len(txHand[h]) = 0
  BY Queues, Lengths DEF IInv, TypeOK, Capacities, MainTxDequeue
<1>2. /\ x \in Seq(Packet) /\ r \in Seq(Packet)
      /\ Len(x) <= BURST_SIZE /\ Len(x) + Len(r) = Len(outRing[h])
  BY <1>1, BurstSplits
<1>3. /\ outRing' = [outRing EXCEPT ![h] = r] /\ txHand' = [txHand EXCEPT ![h] = x]
      /\ UNCHANGED <<proc, free, rxq, inRing, txq, encoded, burst, handled,
                     opt_path_id, timer, wire, arrivals, repaths, acks, verdict>>
  BY DEF MainTxDequeue, nicVars, probeVars, statsVars, netVars
<1> HIDE DEF x, r
<1>4. proc' \in [Host -> Procs]
  BY <1>3, Zenon DEF IInv, TypeOK
<1>5. ScalarTypes'
  BY <1>3 DEF IInv, TypeOK, ScalarTypes
<1>6. QueueTypes'
  BY <1>2, <1>3 DEF IInv, TypeOK, QueueTypes
<1>7. Capacities'
  <2>1. Len(r) <= RingSize
    <3>1. Len(r) \in Nat /\ Len(x) \in Nat
      BY <1>2, LenProperties
    <3> QED
      BY <1>1, <1>2, <3>1, SizesAssumption
  <2> QED
    BY <1>2, <1>3, <2>1 DEF IInv, TypeOK, QueueTypes, Capacities
<1>8. free'[h] + Held(h)' = free[h] + Held(h)
  <2>1. /\ outRing'[h] = r /\ txHand'[h] = x /\ free'[h] = free[h]
        /\ rxq'[h] = rxq[h] /\ inRing'[h] = inRing[h] /\ txq'[h] = txq[h]
        /\ encoded'[h] = encoded[h] /\ burst'[h] = burst[h]
    BY <1>3 DEF IInv, TypeOK, ScalarTypes, QueueTypes
  <2> DEFINE f == free[h]  a == Len(rxq[h])  b == Len(inRing[h])
             c == Len(outRing[h])  d == Len(txHand[h])  e == Len(txq[h])
             n == Len(encoded[h])  m == Len(burst[h])
             c1 == Len(r)  d1 == Len(x)
  <2>2. /\ Held(h) = a + b + c + d + e + n + m
        /\ Held(h)' = a + b + c1 + d1 + e + n + m /\ free'[h] = f
    BY <2>1, Zenon DEF Held
  <2>3. /\ f \in Nat /\ a \in Nat /\ b \in Nat /\ c \in Nat /\ d = 0
        /\ e \in Nat /\ n \in Nat /\ m \in Nat
        /\ c1 \in Nat /\ d1 \in Nat /\ d1 + c1 = c
    BY <1>1, <1>2, Lengths, LenProperties DEF IInv
  <2> HIDE DEF f, a, b, c, d, e, n, m, c1, d1
  <2>4. f + (a + b + c1 + d1 + e + n + m) = f + (a + b + c + d + e + n + m)
    BY <2>3, SMT
  <2> QED
    BY <2>2, <2>4, Zenon DEF f
<1>9. Others(h)
  BY <1>3 DEF Others, IInv, TypeOK, ScalarTypes, QueueTypes
<1>10. Accounted
  BY <1>8, <1>9, AccountedIfEqual, AccountedByHost DEF IInv
<1> QED
  BY <1>4, <1>5, <1>6, <1>7, <1>10, Zenon DEF TypeOK

LEMMA MainTxSendStep ==
  ASSUME IInv, NEW h \in Host, MainTxSend(h)
  PROVE  TypeOK' /\ Accounted
<1> DEFINE taken == Min({Len(txHand[h]), TxDesc - Len(txq[h])})
           t == txq[h] \o SubSeq(txHand[h], 1, taken)
           r == SubSeq(txHand[h], taken + 1, Len(txHand[h]))
<1>1. /\ txHand[h] \in Seq(Packet) /\ Len(txHand[h]) <= BURST_SIZE
      /\ txq[h] \in Seq(Packet) /\ Len(txHand[h]) \in Nat /\ Len(txq[h]) \in Nat
      /\ TxDesc \in Nat /\ BURST_SIZE \in Nat
  BY Queues, Lengths, SizesAssumption DEF IInv, TypeOK, Capacities
<1>2. /\ txq' = [txq EXCEPT ![h] = t] /\ txHand' = [txHand EXCEPT ![h] = r]
      /\ taken > 0
      /\ UNCHANGED <<proc, free, rxq, inRing, outRing, encoded, burst, handled,
                     opt_path_id, timer, wire, arrivals, repaths, acks, verdict>>
  BY DEF MainTxSend, probeVars, statsVars, netVars
<1>3. /\ taken \in {Len(txHand[h]), TxDesc - Len(txq[h])}
      /\ taken <= Len(txHand[h]) /\ taken <= TxDesc - Len(txq[h])
  <2>1. Len(txHand[h]) \in Int /\ TxDesc - Len(txq[h]) \in Int
    BY <1>1
  <2> QED
    BY <2>1, MinOfTwo, Zenon
<1> HIDE DEF taken
<1>4. taken \in 0 .. Len(txHand[h]) /\ Len(txq[h]) + taken <= TxDesc
  BY <1>1, <1>2, <1>3
<1>5. /\ SubSeq(txHand[h], 1, taken) \in Seq(Packet)
      /\ Len(SubSeq(txHand[h], 1, taken)) = taken
      /\ r \in Seq(Packet) /\ Len(r) = Len(txHand[h]) - taken
  BY <1>1, <1>4, PrefixSplits
<1>6. t \in Seq(Packet) /\ Len(t) = Len(txq[h]) + taken
  BY <1>1, <1>5, ConcatProperties
<1> HIDE DEF t, r
<1>7. proc' \in [Host -> Procs]
  BY <1>2, Zenon DEF IInv, TypeOK
<1>8. ScalarTypes'
  BY <1>2 DEF IInv, TypeOK, ScalarTypes
<1>9. QueueTypes'
  BY <1>2, <1>5, <1>6 DEF IInv, TypeOK, QueueTypes
<1>10. Capacities'
  <2>1. Len(r) <= BURST_SIZE /\ Len(t) <= TxDesc
    BY <1>1, <1>4, <1>5, <1>6
  <2> QED
    BY <1>2, <2>1 DEF IInv, TypeOK, QueueTypes, Capacities
<1>11. free'[h] + Held(h)' = free[h] + Held(h)
  <2>1. /\ txHand'[h] = r /\ txq'[h] = t /\ free'[h] = free[h]
        /\ rxq'[h] = rxq[h] /\ inRing'[h] = inRing[h] /\ outRing'[h] = outRing[h]
        /\ encoded'[h] = encoded[h] /\ burst'[h] = burst[h]
    BY <1>2 DEF IInv, TypeOK, ScalarTypes, QueueTypes
  <2> DEFINE f == free[h]  a == Len(rxq[h])  b == Len(inRing[h])
             c == Len(outRing[h])  d == Len(txHand[h])  e == Len(txq[h])
             n == Len(encoded[h])  m == Len(burst[h])
             d1 == Len(r)  e1 == Len(t)
  <2>2. /\ Held(h) = a + b + c + d + e + n + m
        /\ Held(h)' = a + b + c + d1 + e1 + n + m /\ free'[h] = f
    BY <2>1, Zenon DEF Held
  <2>3. /\ f \in Nat /\ a \in Nat /\ b \in Nat /\ c \in Nat /\ d \in Nat
        /\ e \in Nat /\ n \in Nat /\ m \in Nat /\ taken \in Int
        /\ d1 = d - taken /\ e1 = e + taken
    BY <1>4, <1>5, <1>6, Lengths DEF IInv
  <2> HIDE DEF f, a, b, c, d, e, n, m, d1, e1
  <2>4. f + (a + b + c + d1 + e1 + n + m) = f + (a + b + c + d + e + n + m)
    BY <2>3, SMT
  <2> QED
    BY <2>2, <2>4, Zenon DEF f
<1>12. Others(h)
  BY <1>2 DEF Others, IInv, TypeOK, ScalarTypes, QueueTypes
<1>13. Accounted
  BY <1>11, <1>12, AccountedIfEqual, AccountedByHost DEF IInv
<1> QED
  BY <1>7, <1>8, <1>9, <1>10, <1>13, Zenon DEF TypeOK

-----------------------------------------------------------------------------
(* The worker of a sender.                                                 *)

LEMMA EndStep ==
  ASSUME IInv, NEW h \in Host, Exit(h) \/ HandleTsTrap(h)
  PROVE  TypeOK' /\ Accounted
<1>1. /\ \/ proc' = [proc EXCEPT ![h] = "exited"]
         \/ proc' = [proc EXCEPT ![h] = "trapped"]
      /\ UNCHANGED <<free, rxq, inRing, outRing, txHand, txq, encoded, burst, handled,
                     opt_path_id, timer, wire, arrivals, repaths, acks, verdict>>
  BY DEF Exit, HandleTsTrap, nicVars, mainVars, probeVars, statsVars, netVars
<1>2. proc' \in [Host -> Procs]
  BY <1>1 DEF IInv, TypeOK, Procs
<1>3. ScalarTypes'
  BY <1>1 DEF IInv, TypeOK, ScalarTypes
<1>4. QueueTypes'
  BY <1>1 DEF IInv, TypeOK, QueueTypes
<1>5. Capacities'
  BY <1>1 DEF IInv, TypeOK, QueueTypes, Capacities
<1>6. Accounted
  BY <1>1, AccountedIfUnchanged, Zenon DEF IInv, TypeOK
<1> QED
  BY <1>2, <1>3, <1>4, <1>5, <1>6, Zenon DEF TypeOK

LEMMA ProbeEncodeStep ==
  ASSUME IInv, NEW h \in Host, ProbeEncode(h)
  PROVE  TypeOK' /\ Accounted
<1>1. CASE free[h] = 0
  BY <1>1, EndStep DEF ProbeEncode
<1>2. CASE free[h] # 0
  <2> DEFINE x == Append(encoded[h], Pkt("PROBE", ProbePort(Len(encoded[h]) + 1)))
  <2>1. /\ encoded[h] \in Seq(Packet) /\ Len(encoded[h]) \in Nat
        /\ Len(encoded[h]) < PATH_NB /\ free[h] \in Nat
    BY Queues, Lengths DEF IInv, ProbeEncode
  <2>2. x \in Seq(Packet) /\ Len(x) = Len(encoded[h]) + 1 /\ Len(x) <= PATH_NB
    <3>1. Len(encoded[h]) + 1 \in 1 .. PATH_NB /\ PATH_NB \in Nat
      BY <2>1, PathPortsAssumption
    <3>2. Pkt("PROBE", ProbePort(Len(encoded[h]) + 1)) \in Packet
      BY <3>1, PacketTypes, Zenon
    <3> QED
      BY <2>1, <3>1, <3>2, AppendProperties
  <2>3. /\ encoded' = [encoded EXCEPT ![h] = x]
        /\ free' = [free EXCEPT ![h] = free[h] - 1]
        /\ UNCHANGED <<proc, rxq, inRing, outRing, txHand, txq, burst, handled,
                       opt_path_id, timer, wire, arrivals, repaths, acks, verdict>>
    BY <1>2 DEF ProbeEncode, nicVars, mainVars, statsVars, netVars
  <2> HIDE DEF x
  <2>4. proc' \in [Host -> Procs]
    BY <2>3, Zenon DEF IInv, TypeOK
  <2>5. ScalarTypes'
    <3>1. free \in [Host -> 0 .. NumMbufs]
      BY DEF IInv, TypeOK, ScalarTypes
    <3>2. free[h] - 1 \in 0 .. NumMbufs
      BY <1>2, <3>1, SizesAssumption
    <3>3. free' \in [Host -> 0 .. NumMbufs]
      BY <2>3, <3>1, <3>2
    <3> QED
      BY <2>3, <3>3 DEF IInv, TypeOK, ScalarTypes
  <2>6. QueueTypes'
    BY <2>2, <2>3 DEF IInv, TypeOK, QueueTypes
  <2>7. Capacities'
    BY <2>2, <2>3 DEF IInv, TypeOK, QueueTypes, Capacities
  <2>8. free'[h] + Held(h)' = free[h] + Held(h)
    <3>1. /\ free'[h] = free[h] - 1 /\ encoded'[h] = x
          /\ rxq'[h] = rxq[h] /\ inRing'[h] = inRing[h] /\ outRing'[h] = outRing[h]
          /\ txHand'[h] = txHand[h] /\ txq'[h] = txq[h] /\ burst'[h] = burst[h]
      BY <2>3 DEF IInv, TypeOK, ScalarTypes, QueueTypes
    <3> DEFINE f == free[h]  a == Len(rxq[h])  b == Len(inRing[h])
               c == Len(outRing[h])  d == Len(txHand[h])  e == Len(txq[h])
               n == Len(encoded[h])  m == Len(burst[h])
               f1 == free'[h]  n1 == Len(x)
    <3>2. /\ Held(h) = a + b + c + d + e + n + m
          /\ Held(h)' = a + b + c + d + e + n1 + m
      BY <3>1, Zenon DEF Held
    <3>3. /\ f \in Nat /\ a \in Nat /\ b \in Nat /\ c \in Nat /\ d \in Nat
          /\ e \in Nat /\ n \in Nat /\ m \in Nat /\ f1 = f - 1 /\ n1 = n + 1
      BY <2>2, <3>1, Lengths DEF IInv
    <3> HIDE DEF f, a, b, c, d, e, n, m, f1, n1
    <3>4. f1 + (a + b + c + d + e + n1 + m) = f + (a + b + c + d + e + n + m)
      BY <3>3, SMT
    <3> QED
      BY <3>2, <3>4, Zenon DEF f, f1
  <2>9. Others(h)
    BY <2>3 DEF Others, IInv, TypeOK, ScalarTypes, QueueTypes
  <2>10. Accounted
    BY <2>8, <2>9, AccountedIfEqual, AccountedByHost DEF IInv
  <2> QED
    BY <2>4, <2>5, <2>6, <2>7, <2>10, Zenon DEF TypeOK
<1> QED
  BY <1>1, <1>2

LEMMA ProbeEnqueueStep ==
  ASSUME IInv, NEW h \in Host, ProbeEnqueue(h)
  PROVE  TypeOK' /\ Accounted
<1> DEFINE q == Enqueue(outRing[h], encoded[h])
<1>1. /\ encoded[h] \in Seq(Packet) /\ outRing[h] \in Seq(Packet)
      /\ Len(outRing[h]) <= RingSize
  BY Queues DEF IInv, TypeOK, Capacities
<1>2. /\ q \in Seq(Packet) /\ Len(q) <= RingSize
      /\ Len(q) <= Len(outRing[h]) + Len(encoded[h])
      /\ Len(q) < Len(outRing[h]) + Len(encoded[h]) => Full(q)
  BY <1>1, EnqueueLen
<1>3. /\ outRing' = [outRing EXCEPT ![h] = q] /\ encoded' = [encoded EXCEPT ![h] = <<>>]
      /\ UNCHANGED <<proc, free, rxq, inRing, txHand, txq, burst, handled,
                     opt_path_id, timer, wire, arrivals, repaths, acks, verdict>>
  BY DEF ProbeEnqueue, nicVars, mainVars, statsVars, netVars
<1> HIDE DEF q
<1>4. proc' \in [Host -> Procs]
  BY <1>3, Zenon DEF IInv, TypeOK
<1>5. ScalarTypes'
  BY <1>3 DEF IInv, TypeOK, ScalarTypes
<1>6. QueueTypes'
  BY <1>2, <1>3 DEF IInv, TypeOK, QueueTypes
<1>7. Capacities'
  <2>1. Len(<<>>) = 0 /\ 0 <= PATH_NB
    BY PathPortsAssumption
  <2> QED
    BY <1>2, <1>3, <2>1 DEF IInv, TypeOK, QueueTypes, Capacities
<1>8. AccountedAt(h)
  <2>1. /\ outRing'[h] = q /\ encoded'[h] = <<>> /\ free'[h] = free[h]
        /\ rxq'[h] = rxq[h] /\ inRing'[h] = inRing[h] /\ txHand'[h] = txHand[h]
        /\ txq'[h] = txq[h] /\ burst'[h] = burst[h]
    BY <1>3 DEF IInv, TypeOK, ScalarTypes, QueueTypes
  <2> DEFINE f == free[h]  a == Len(rxq[h])  b == Len(inRing[h])
             c == Len(outRing[h])  d == Len(txHand[h])  e == Len(txq[h])
             n == Len(encoded[h])  m == Len(burst[h])
             c1 == Len(q)  n1 == Len(<<>>)
             old == a + b + c + d + e + n + m
             new == a + b + c1 + d + e + n1 + m
  <2>2. Held(h) = old /\ Held(h)' = new /\ free'[h] = f
    BY <2>1, Zenon DEF Held
  <2>3. /\ f \in Nat /\ a \in Nat /\ b \in Nat /\ c \in Nat /\ d \in Nat
        /\ e \in Nat /\ n \in Nat /\ m \in Nat
        /\ c1 \in Nat /\ n1 = 0 /\ c1 <= c + n
    BY <1>2, Lengths, LenProperties DEF IInv
  <2>4. c1 < c + n => Full(outRing'[h])
    BY <1>2, <2>1
  <2> HIDE DEF f, a, b, c, d, e, n, m, c1, n1
  <2>5. f + new <= f + old /\ (f + new < f + old => c1 < c + n)
    BY <2>3, SMT
  <2> HIDE DEF old, new
  <2> QED
    BY <2>2, <2>4, <2>5, Zenon DEF AccountedAt, f
<1>9. Others(h)
  BY <1>3 DEF Others, IInv, TypeOK, ScalarTypes, QueueTypes
<1>10. Accounted
  BY <1>8, <1>9, AccountedByHost DEF IInv
<1> QED
  BY <1>4, <1>5, <1>6, <1>7, <1>10, Zenon DEF TypeOK

-----------------------------------------------------------------------------
(* The worker of a receiver.                                               *)

LEMMA TimerCbStep ==
  ASSUME IInv, NEW h \in Host, TimerCb(h)
  PROVE  TypeOK' /\ Accounted
<1>1. /\ timer' = [timer EXCEPT ![h] = "0.1 s"]
      /\ UNCHANGED <<proc, free, rxq, inRing, outRing, txHand, txq, encoded, burst,
                     handled, opt_path_id, wire, arrivals, repaths, acks, verdict>>
  BY DEF TimerCb, nicVars, mainVars, probeVars, netVars
<1>2. proc' \in [Host -> Procs]
  BY <1>1, Zenon DEF IInv, TypeOK
<1>3. ScalarTypes'
  BY <1>1 DEF IInv, TypeOK, ScalarTypes
<1>4. QueueTypes'
  BY <1>1 DEF IInv, TypeOK, QueueTypes
<1>5. Capacities'
  BY <1>1 DEF IInv, TypeOK, QueueTypes, Capacities
<1>6. Accounted
  BY <1>1, AccountedIfUnchanged, Zenon DEF IInv, TypeOK
<1> QED
  BY <1>2, <1>3, <1>4, <1>5, <1>6, Zenon DEF TypeOK

LEMMA StatsDequeueStep ==
  ASSUME IInv, NEW h \in Host, StatsDequeue(h)
  PROVE  TypeOK' /\ Accounted
<1> DEFINE x == Burst(inRing[h])
           r == AfterBurst(inRing[h])
<1>1. /\ inRing[h] \in Seq(Packet) /\ Len(inRing[h]) <= RingSize
      /\ Len(inRing[h]) \in Nat /\ Len(burst[h]) = 0
  BY Queues, Lengths DEF IInv, TypeOK, Capacities, StatsDequeue
<1>2. /\ x \in Seq(Packet) /\ r \in Seq(Packet)
      /\ Len(x) <= BURST_SIZE /\ Len(x) + Len(r) = Len(inRing[h])
  BY <1>1, BurstSplits
<1>3. /\ inRing' = [inRing EXCEPT ![h] = r] /\ burst' = [burst EXCEPT ![h] = x]
      /\ UNCHANGED <<proc, free, rxq, outRing, txHand, txq, encoded, handled,
                     opt_path_id, timer, wire, arrivals, repaths, acks, verdict>>
  BY DEF StatsDequeue, nicVars, mainVars, probeVars, netVars
<1> HIDE DEF x, r
<1>4. proc' \in [Host -> Procs]
  BY <1>3, Zenon DEF IInv, TypeOK
<1>5. ScalarTypes'
  BY <1>3 DEF IInv, TypeOK, ScalarTypes
<1>6. QueueTypes'
  BY <1>2, <1>3 DEF IInv, TypeOK, QueueTypes
<1>7. Capacities'
  <2>0. Len(r) \in Nat /\ Len(x) \in Nat
    BY <1>2, LenProperties
  <2>1. Len(r) <= RingSize
    BY <1>1, <1>2, <2>0, SizesAssumption
  <2>2. handled[h] \in Nat /\ handled[h] <= Len(burst[h])
    BY DEF IInv, TypeOK, ScalarTypes, Capacities
  <2>3. handled[h] <= Len(x)
    BY <1>1, <2>0, <2>2
  <2> QED
    BY <1>2, <1>3, <2>1, <2>3 DEF IInv, TypeOK, QueueTypes, Capacities
<1>8. free'[h] + Held(h)' = free[h] + Held(h)
  <2>1. /\ inRing'[h] = r /\ burst'[h] = x /\ free'[h] = free[h]
        /\ rxq'[h] = rxq[h] /\ outRing'[h] = outRing[h] /\ txHand'[h] = txHand[h]
        /\ txq'[h] = txq[h] /\ encoded'[h] = encoded[h]
    BY <1>3 DEF IInv, TypeOK, ScalarTypes, QueueTypes
  <2> DEFINE f == free[h]  a == Len(rxq[h])  b == Len(inRing[h])
             c == Len(outRing[h])  d == Len(txHand[h])  e == Len(txq[h])
             n == Len(encoded[h])  m == Len(burst[h])
             b1 == Len(r)  m1 == Len(x)
  <2>2. /\ Held(h) = a + b + c + d + e + n + m
        /\ Held(h)' = a + b1 + c + d + e + n + m1 /\ free'[h] = f
    BY <2>1, Zenon DEF Held
  <2>3. /\ f \in Nat /\ a \in Nat /\ b \in Nat /\ c \in Nat /\ d \in Nat
        /\ e \in Nat /\ n \in Nat /\ m = 0
        /\ b1 \in Nat /\ m1 \in Nat /\ m1 + b1 = b
    BY <1>1, <1>2, Lengths, LenProperties DEF IInv
  <2> HIDE DEF f, a, b, c, d, e, n, m, b1, m1
  <2>4. f + (a + b1 + c + d + e + n + m1) = f + (a + b + c + d + e + n + m)
    BY <2>3, SMT
  <2> QED
    BY <2>2, <2>4, Zenon DEF f
<1>9. Others(h)
  BY <1>3 DEF Others, IInv, TypeOK, ScalarTypes, QueueTypes
<1>10. Accounted
  BY <1>8, <1>9, AccountedIfEqual, AccountedByHost DEF IInv
<1> QED
  BY <1>4, <1>5, <1>6, <1>7, <1>10, Zenon DEF TypeOK

(* A dispatched packet is within the burst, and so is the next index.      *)
LEMMA DispatchIndex ==
  ASSUME IInv, NEW h \in Host, handled[h] < Len(burst[h])
  PROVE  handled[h] + 1 \in Nat /\ handled[h] + 1 <= Len(burst[h])
<1>1. handled[h] \in Nat /\ Len(burst[h]) \in Nat
  BY Lengths DEF IInv, TypeOK, ScalarTypes
<1> QED
  BY <1>1

(* A handler that encodes nothing.                                         *)
LEMMA QuietStep ==
  ASSUME IInv, NEW h \in Host, handled[h] < Len(burst[h]),
         handled' = [handled EXCEPT ![h] = handled[h] + 1],
         UNCHANGED <<proc, free, rxq, inRing, outRing, txHand, txq, encoded, burst,
                     wire, arrivals, verdict>>,
         opt_path_id' \in [Host -> Paths],
         timer' \in [Host -> {"stopped", "2 s", "0.1 s"}],
         repaths' \in [Host -> Nat], acks' \in [Host -> Nat]
  PROVE  TypeOK' /\ Accounted
<1>1. handled[h] + 1 \in Nat /\ handled[h] + 1 <= Len(burst[h])
  BY DispatchIndex
<1>2. proc' \in [Host -> Procs]
  BY Zenon DEF IInv, TypeOK
<1>3. ScalarTypes'
  BY <1>1 DEF IInv, TypeOK, ScalarTypes
<1>4. QueueTypes'
  BY DEF IInv, TypeOK, QueueTypes
<1>5. Capacities'
  BY <1>1 DEF IInv, TypeOK, ScalarTypes, QueueTypes, Capacities
<1>6. Accounted
  BY AccountedIfUnchanged, Zenon DEF IInv, TypeOK
<1> QED
  BY <1>2, <1>3, <1>4, <1>5, <1>6, Zenon DEF TypeOK

(* A handler that encodes a packet and enqueues it.                        *)
Replies(h, x) ==
  /\ free[h] > 0 /\ handled[h] < Len(burst[h])
  /\ Reply(h, x)
  /\ handled' = [handled EXCEPT ![h] = handled[h] + 1]
  /\ UNCHANGED <<rxq, inRing, txHand, txq, encoded, burst, verdict, opt_path_id, wire,
                 arrivals>>
  /\ timer' \in [Host -> {"stopped", "2 s", "0.1 s"}]
  /\ repaths' \in [Host -> Nat] /\ acks' \in [Host -> Nat]

LEMMA ReplyStep ==
  ASSUME IInv, NEW h \in Host, NEW x \in Packet, Replies(h, x)
  PROVE  TypeOK' /\ Accounted
<1> DEFINE q == Enqueue(outRing[h], <<x>>)
<1>1. outRing[h] \in Seq(Packet) /\ Len(outRing[h]) <= RingSize
  BY Queues DEF IInv, TypeOK, Capacities
<1>2. /\ q \in Seq(Packet) /\ Len(q) <= RingSize /\ Len(q) <= Len(outRing[h]) + 1
      /\ Len(q) < Len(outRing[h]) + 1 => Full(q)
  <2>1. <<x>> \in Seq(Packet) /\ Len(<<x>>) = 1
    OBVIOUS
  <2> QED
    BY <1>1, <2>1, EnqueueLen
<1>3. /\ outRing' = [outRing EXCEPT ![h] = q]
      /\ free' = [free EXCEPT ![h] = free[h] - 1]
      /\ handled' = [handled EXCEPT ![h] = handled[h] + 1]
      /\ UNCHANGED <<proc, rxq, inRing, txHand, txq, encoded, burst, opt_path_id, wire,
                     arrivals, verdict>>
      /\ timer' \in [Host -> {"stopped", "2 s", "0.1 s"}]
      /\ repaths' \in [Host -> Nat] /\ acks' \in [Host -> Nat]
  BY DEF Reply, Replies
<1> HIDE DEF q
<1>4. handled[h] + 1 \in Nat /\ handled[h] + 1 <= Len(burst[h])
  BY DispatchIndex DEF Replies
<1>5. proc' \in [Host -> Procs]
  BY <1>3, Zenon DEF IInv, TypeOK
<1>6. ScalarTypes'
  <2>1. free \in [Host -> 0 .. NumMbufs]
    BY DEF IInv, TypeOK, ScalarTypes
  <2>2. free[h] - 1 \in 0 .. NumMbufs
    <3>1. free[h] > 0
      BY DEF Replies
    <3> QED
      BY <2>1, <3>1, SizesAssumption
  <2>3. free' \in [Host -> 0 .. NumMbufs]
    BY <1>3, <2>1, <2>2
  <2> QED
    BY <1>3, <1>4, <2>3 DEF IInv, TypeOK, ScalarTypes
<1>7. QueueTypes'
  BY <1>2, <1>3 DEF IInv, TypeOK, QueueTypes
<1>8. Capacities'
  BY <1>2, <1>3, <1>4 DEF IInv, TypeOK, ScalarTypes, QueueTypes, Capacities
<1>9. AccountedAt(h)
  <2>1. /\ outRing'[h] = q /\ free'[h] = free[h] - 1
        /\ rxq'[h] = rxq[h] /\ inRing'[h] = inRing[h] /\ txHand'[h] = txHand[h]
        /\ txq'[h] = txq[h] /\ encoded'[h] = encoded[h] /\ burst'[h] = burst[h]
    BY <1>3 DEF IInv, TypeOK, ScalarTypes, QueueTypes
  <2> DEFINE f == free[h]  a == Len(rxq[h])  b == Len(inRing[h])
             c == Len(outRing[h])  d == Len(txHand[h])  e == Len(txq[h])
             n == Len(encoded[h])  m == Len(burst[h])
             f1 == free'[h]  c1 == Len(q)
             old == a + b + c + d + e + n + m
             new == a + b + c1 + d + e + n + m
  <2>2. Held(h) = old /\ Held(h)' = new
    BY <2>1, Zenon DEF Held
  <2>3. /\ f \in Nat /\ a \in Nat /\ b \in Nat /\ c \in Nat /\ d \in Nat
        /\ e \in Nat /\ n \in Nat /\ m \in Nat
        /\ f1 = f - 1 /\ c1 \in Nat /\ c1 <= c + 1
    BY <1>2, <2>1, Lengths, LenProperties DEF IInv
  <2>4. c1 < c + 1 => Full(outRing'[h])
    BY <1>2, <2>1
  <2> HIDE DEF f, a, b, c, d, e, n, m, f1, c1
  <2>5. f1 + new <= f + old /\ (f1 + new < f + old => c1 < c + 1)
    BY <2>3, SMT
  <2> HIDE DEF old, new
  <2> QED
    BY <2>2, <2>4, <2>5, Zenon DEF AccountedAt, f, f1
<1>10. Others(h)
  BY <1>3 DEF Others, IInv, TypeOK, ScalarTypes, QueueTypes
<1>11. Accounted
  BY <1>9, <1>10, AccountedByHost DEF IInv
<1> QED
  BY <1>5, <1>6, <1>7, <1>8, <1>11, Zenon DEF TypeOK

LEMMA HandleProbeStep ==
  ASSUME IInv, NEW h \in Host, HandleProbe(h)
  PROVE  TypeOK' /\ Accounted
<1>1. PICK p \in Paths : opt_path_id' = [opt_path_id EXCEPT ![h] = p]
  BY DEF HandleProbe
<1>2. /\ handled[h] < Len(burst[h])
      /\ handled' = [handled EXCEPT ![h] = handled[h] + 1]
      /\ UNCHANGED <<proc, free, rxq, inRing, outRing, txHand, txq, encoded, burst,
                     timer, wire, arrivals, repaths, acks, verdict>>
  BY DEF HandleProbe, Dispatch, mainVars, probeVars, netVars
<1>3. opt_path_id' \in [Host -> Paths]
  BY <1>1 DEF IInv, TypeOK, ScalarTypes
<1>4. /\ timer' \in [Host -> {"stopped", "2 s", "0.1 s"}]
      /\ repaths' \in [Host -> Nat] /\ acks' \in [Host -> Nat]
  BY <1>2 DEF IInv, TypeOK, ScalarTypes
<1> QED
  BY <1>2, <1>3, <1>4, QuietStep

LEMMA HandleRepathStep ==
  ASSUME IInv, NEW h \in Host, HandleRepath(h)
  PROVE  TypeOK' /\ Accounted
<1>1. RepathAckPkt(h) \in Packet
  BY PacketTypes DEF IInv, TypeOK, ScalarTypes
<1>2. timer' = [timer EXCEPT ![h] = "2 s"] /\ UNCHANGED <<repaths, acks>>
  BY DEF HandleRepath
<1>3. /\ timer' \in [Host -> {"stopped", "2 s", "0.1 s"}]
      /\ repaths' \in [Host -> Nat] /\ acks' \in [Host -> Nat]
  BY <1>2 DEF IInv, TypeOK, ScalarTypes
<1>4. Replies(h, RepathAckPkt(h))
  BY <1>3 DEF HandleRepath, Replies, Dispatch, mainVars, probeVars, netVars
<1> QED
  BY <1>1, <1>4, ReplyStep

LEMMA HandleRepathAckStep ==
  ASSUME IInv, NEW h \in Host, HandleRepathAck(h)
  PROVE  TypeOK' /\ Accounted
<1>1. /\ handled[h] < Len(burst[h])
      /\ handled' = [handled EXCEPT ![h] = handled[h] + 1]
      /\ timer' = [timer EXCEPT ![h] = "stopped"]
      /\ acks' = [acks EXCEPT ![h] = acks[h] + 1]
      /\ UNCHANGED <<proc, free, rxq, inRing, outRing, txHand, txq, encoded, burst,
                     opt_path_id, wire, arrivals, repaths, verdict>>
  BY DEF HandleRepathAck, Dispatch, mainVars, probeVars, netVars
<1>2. /\ timer' \in [Host -> {"stopped", "2 s", "0.1 s"}]
      /\ repaths' \in [Host -> Nat] /\ opt_path_id' \in [Host -> Paths]
  BY <1>1 DEF IInv, TypeOK, ScalarTypes
<1>3. acks' \in [Host -> Nat]
  <2>1. acks \in [Host -> Nat]
    BY DEF IInv, TypeOK, ScalarTypes
  <2>2. acks[h] + 1 \in Nat
    BY <2>1
  <2> QED
    BY <1>1, <2>1, <2>2
<1> QED
  BY <1>1, <1>2, <1>3, QuietStep

LEMMA HandleTsRepathStep ==
  ASSUME IInv, NEW h \in Host, HandleTsRepath(h)
  PROVE  TypeOK' /\ Accounted
<1>1. RepathPkt(h) \in Packet
  BY PacketTypes DEF IInv, TypeOK, ScalarTypes
<1>2. /\ repaths' = [repaths EXCEPT ![h] = repaths[h] + 1]
      /\ UNCHANGED <<timer, acks>>
  BY DEF HandleTsRepath
<1>3. timer' \in [Host -> {"stopped", "2 s", "0.1 s"}] /\ acks' \in [Host -> Nat]
  BY <1>2 DEF IInv, TypeOK, ScalarTypes
<1>4. repaths' \in [Host -> Nat]
  <2>1. repaths \in [Host -> Nat]
    BY DEF IInv, TypeOK, ScalarTypes
  <2>2. repaths[h] + 1 \in Nat
    BY <2>1
  <2> QED
    BY <1>2, <2>1, <2>2
<1>5. Replies(h, RepathPkt(h))
  BY <1>3, <1>4 DEF HandleTsRepath, Replies, Dispatch, mainVars, probeVars, netVars
<1> QED
  BY <1>1, <1>5, ReplyStep

LEMMA HandleTsStayStep ==
  ASSUME IInv, NEW h \in Host, HandleTsStay(h)
  PROVE  TypeOK' /\ Accounted
<1>1. /\ handled[h] < Len(burst[h])
      /\ handled' = [handled EXCEPT ![h] = handled[h] + 1]
      /\ UNCHANGED <<proc, free, rxq, inRing, outRing, txHand, txq, encoded, burst,
                     verdict, opt_path_id, timer, wire, arrivals, repaths, acks>>
  BY DEF HandleTsStay, Dispatch, mainVars, probeVars, netVars
<1>2. /\ timer' \in [Host -> {"stopped", "2 s", "0.1 s"}]
      /\ repaths' \in [Host -> Nat] /\ acks' \in [Host -> Nat]
      /\ opt_path_id' \in [Host -> Paths]
  BY <1>1 DEF IInv, TypeOK, ScalarTypes
<1> QED
  BY <1>1, <1>2, QuietStep

LEMMA HandleOtherStep ==
  ASSUME IInv, NEW h \in Host, HandleOther(h)
  PROVE  TypeOK' /\ Accounted
<1>1. /\ handled[h] < Len(burst[h])
      /\ handled' = [handled EXCEPT ![h] = handled[h] + 1]
      /\ UNCHANGED <<proc, free, rxq, inRing, outRing, txHand, txq, encoded, burst,
                     opt_path_id, timer, wire, arrivals, repaths, acks, verdict>>
  BY DEF HandleOther, Dispatch, mainVars, probeVars, netVars
<1>2. /\ timer' \in [Host -> {"stopped", "2 s", "0.1 s"}]
      /\ repaths' \in [Host -> Nat] /\ acks' \in [Host -> Nat]
      /\ opt_path_id' \in [Host -> Paths]
  BY <1>1 DEF IInv, TypeOK, ScalarTypes
<1> QED
  BY <1>1, <1>2, QuietStep

LEMMA StatsFreeStep ==
  ASSUME IInv, NEW h \in Host, StatsFree(h)
  PROVE  TypeOK' /\ Accounted
<1>1. /\ free' = [free EXCEPT ![h] = free[h] + Len(burst[h])]
      /\ burst' = [burst EXCEPT ![h] = <<>>] /\ handled' = [handled EXCEPT ![h] = 0]
      /\ UNCHANGED <<proc, rxq, inRing, outRing, txHand, txq, encoded, opt_path_id,
                     timer, wire, arrivals, repaths, acks, verdict>>
  BY DEF StatsFree, nicVars, mainVars, probeVars, netVars
<1>2. proc' \in [Host -> Procs]
  BY <1>1, Zenon DEF IInv, TypeOK
<1>3. ScalarTypes'
  <2>1. free \in [Host -> 0 .. NumMbufs]
    BY DEF IInv, TypeOK, ScalarTypes
  <2>2. free[h] + Len(burst[h]) \in 0 .. NumMbufs
    <3>1. free[h] \in Nat /\ Len(burst[h]) \in Nat
      BY Lengths DEF IInv
    <3>2. free[h] + Len(burst[h]) <= NumMbufs
      BY Room
    <3> QED
      BY <3>1, <3>2, SizesAssumption
  <2>3. free' \in [Host -> 0 .. NumMbufs]
    BY <1>1, <2>1, <2>2
  <2> QED
    BY <1>1, <2>3 DEF IInv, TypeOK, ScalarTypes
<1>4. QueueTypes'
  BY <1>1 DEF IInv, TypeOK, QueueTypes
<1>5. Capacities'
  <2>1. Len(<<>>) = 0 /\ 0 <= BURST_SIZE /\ 0 <= 0
    BY SizesAssumption
  <2>2. burst \in [Host -> Seq(Packet)] /\ handled \in [Host -> Nat]
    BY DEF IInv, TypeOK, ScalarTypes, QueueTypes
  <2>3. ASSUME NEW g \in Host
        PROVE  Len(burst'[g]) <= BURST_SIZE /\ handled'[g] <= Len(burst'[g])
    <3>1. CASE g = h
      <4>1. burst'[g] = <<>> /\ handled'[g] = 0
        BY <1>1, <2>2, <3>1
      <4> QED
        BY <2>1, <4>1, Zenon
    <3>2. CASE g # h
      <4>1. burst'[g] = burst[g] /\ handled'[g] = handled[g]
        BY <1>1, <2>2, <3>2
      <4> QED
        BY <4>1, Zenon DEF IInv, TypeOK, Capacities
    <3> QED
      BY <3>1, <3>2
  <2> QED
    BY <1>1, <2>3, Zenon DEF IInv, TypeOK, Capacities
<1>6. free'[h] + Held(h)' = free[h] + Held(h)
  <2>1. /\ free'[h] = free[h] + Len(burst[h]) /\ burst'[h] = <<>>
        /\ rxq'[h] = rxq[h] /\ inRing'[h] = inRing[h] /\ outRing'[h] = outRing[h]
        /\ txHand'[h] = txHand[h] /\ txq'[h] = txq[h] /\ encoded'[h] = encoded[h]
    BY <1>1 DEF IInv, TypeOK, ScalarTypes, QueueTypes
  <2> DEFINE f == free[h]  a == Len(rxq[h])  b == Len(inRing[h])
             c == Len(outRing[h])  d == Len(txHand[h])  e == Len(txq[h])
             n == Len(encoded[h])  m == Len(burst[h])
             f1 == free'[h]  m1 == Len(<<>>)
  <2>2. /\ Held(h) = a + b + c + d + e + n + m
        /\ Held(h)' = a + b + c + d + e + n + m1
    BY <2>1, Zenon DEF Held
  <2>3. /\ f \in Nat /\ a \in Nat /\ b \in Nat /\ c \in Nat /\ d \in Nat
        /\ e \in Nat /\ n \in Nat /\ m \in Nat /\ m1 = 0 /\ f1 = f + m
    BY <2>1, Lengths DEF IInv
  <2> HIDE DEF f, a, b, c, d, e, n, m, f1, m1
  <2>4. f1 + (a + b + c + d + e + n + m1) = f + (a + b + c + d + e + n + m)
    BY <2>3, SMT
  <2> QED
    BY <2>2, <2>4, Zenon DEF f, f1
<1>7. Others(h)
  BY <1>1 DEF Others, IInv, TypeOK, ScalarTypes, QueueTypes
<1>8. Accounted
  BY <1>6, <1>7, AccountedIfEqual, AccountedByHost DEF IInv
<1> QED
  BY <1>2, <1>3, <1>4, <1>5, <1>8, Zenon DEF TypeOK

-----------------------------------------------------------------------------
(* All steps together.                                                     *)

LEMMA StepAccounted ==
  ASSUME IInv, [Next]_vars
  PROVE  TypeOK' /\ Accounted
<1>1. CASE UNCHANGED vars
  <2>1. UNCHANGED <<proc, free, rxq, inRing, outRing, txHand, txq, encoded, burst,
                    handled, opt_path_id, timer, wire, arrivals, repaths, acks, verdict>>
    BY <1>1 DEF vars
  <2>2. Accounted
    BY <2>1, AccountedIfUnchanged, Zenon DEF IInv
  <2>3. TypeOK'
    BY <2>1 DEF IInv, TypeOK, ScalarTypes, QueueTypes, Capacities
  <2> QED
    BY <2>2, <2>3
<1>2. CASE Next
  <2>1. PICK h \in Host : Main(h) \/ LcoreProbe(h) \/ LcoreStats(h) \/ Network(h)
    BY <1>2 DEF Next
  <2>2. CASE Main(h)
    BY <2>2, MainRxStep, MainTxDequeueStep, MainTxSendStep DEF Main
  <2>3. CASE LcoreProbe(h)
    BY <2>3, ProbeEncodeStep, ProbeEnqueueStep DEF LcoreProbe
  <2>4. CASE LcoreStats(h)
    <3>1. CASE HandlerExit(h)
      BY <3>1, EndStep DEF HandlerExit
    <3> QED
      BY <2>4, <3>1, TimerCbStep, StatsDequeueStep, HandleProbeStep, HandleRepathStep,
         HandleRepathAckStep, HandleTsRepathStep, HandleTsStayStep, EndStep,
         HandleOtherStep, StatsFreeStep
         DEF LcoreStats
  <2>5. CASE Network(h)
    BY <2>5, KindsAssumption, ArriveStep, NicReceiveStep, NetLoseStep, NicTransmitStep
       DEF Network
  <2> QED
    BY <2>1, <2>2, <2>3, <2>4, <2>5
<1> QED
  BY <1>1, <1>2

(* Only the exit ends a process, and it finds the pool empty.              *)
LEMMA ExitFindsPoolEmpty ==
  ASSUME TypeOK, [Next]_vars, NEW g \in Host,
         proc[g] # "exited", proc'[g] = "exited"
  PROVE  free'[g] = 0
<1>1. proc' # proc
  OBVIOUS
<1>2. PICK h \in Host : Exit(h) \/ HandleTsTrap(h)
  <2>1. Next
    BY <1>1 DEF vars
  <2>2. PICK h \in Host : Main(h) \/ LcoreProbe(h) \/ LcoreStats(h) \/ Network(h)
    BY <2>1 DEF Next
  <2>3. CASE Main(h)
    BY <1>1, <2>3, Zenon DEF Main, MainRx, MainTxDequeue, MainTxSend
  <2>4. CASE LcoreProbe(h)
    BY <1>1, <2>4, Zenon DEF LcoreProbe, ProbeEncode, ProbeEnqueue
  <2>5. CASE LcoreStats(h)
    BY <1>1, <2>5, Zenon DEF LcoreStats, TimerCb, StatsDequeue, HandleProbe, HandleRepath,
       HandleRepathAck, HandleTsRepath, HandleTsStay, HandleOther, HandlerExit, StatsFree, Reply
  <2>6. CASE Network(h)
    BY <1>1, <2>6, Zenon DEF Network, Arrive, NicReceive, NetLose, NicTransmit
  <2> QED
    BY <2>2, <2>3, <2>4, <2>5, <2>6
<1>3. proc \in [Host -> Procs]
  BY Zenon DEF TypeOK
<1>4. g = h
  BY <1>2, <1>3 DEF Exit, HandleTsTrap
<1>5. CASE Exit(h)
  BY <1>4, <1>5 DEF Exit
<1>6. CASE HandleTsTrap(h)
  <2>1. proc'[h] = "trapped"
    BY <1>3, <1>6 DEF HandleTsTrap
  <2> QED
    BY <1>4, <2>1
<1> QED
  BY <1>2, <1>5, <1>6

(* An empty pool that covers all the places has leaked.                    *)
LEMMA EmptyPoolLeaked ==
  ASSUME PoolCovers, TypeOK, NEW g \in Host, free[g] = 0
  PROVE  Leaked(g) > 0
<1> DEFINE a == Len(rxq[g])  b == Len(inRing[g])
           c == Len(outRing[g])  d == Len(txHand[g])  e == Len(txq[g])
           n == Len(encoded[g])  m == Len(burst[g])
<1>1. Leaked(g) = NumMbufs - 0 - (a + b + c + d + e + n + m)
  BY Zenon DEF Leaked, Held
<1>2. /\ a \in Nat /\ b \in Nat /\ c \in Nat /\ d \in Nat
      /\ e \in Nat /\ n \in Nat /\ m \in Nat
  BY Lengths
<1>3. /\ a <= RxDesc /\ b <= RingSize /\ c <= RingSize /\ d <= BURST_SIZE
      /\ e <= TxDesc /\ n <= PATH_NB /\ m <= BURST_SIZE
  BY Zenon DEF TypeOK, Capacities
<1> HIDE DEF a, b, c, d, e, n, m
<1>4. NumMbufs - 0 - (a + b + c + d + e + n + m) > 0
  BY <1>2, <1>3, SizesAssumption, PathPortsAssumption DEF PoolCovers
<1> QED
  BY <1>1, <1>4, Zenon

(* Both facts for the next state.                                          *)
HeldNat == \A x \in Host : Held(x) \in Nat /\ free[x] \in Nat
EmptyLeaked == \A x \in Host : free[x] = 0 => Leaked(x) > 0

LEMMA HeldNatNext == TypeOK' => HeldNat'
<1>1. TypeOK => HeldNat
  BY Total, Lengths DEF HeldNat
<1> QED
  BY <1>1, PTL

LEMMA EmptyLeakedNext ==
  ASSUME PoolCovers
  PROVE  TypeOK' => EmptyLeaked'
<1>1. TypeOK => EmptyLeaked
  BY EmptyPoolLeaked DEF EmptyLeaked
<1> QED
  BY <1>1, PTL

(* What is lost stays lost, and only a full ring loses more.               *)
LEMMA LeakStep ==
  ASSUME TypeOK, TypeOK', Accounted, NEW g \in Host
  PROVE  /\ Leaked(g) \in Int /\ Leaked(g)' \in Int
         /\ Leaked(g)' >= Leaked(g)
         /\ Leaked(g)' > Leaked(g) => Full(inRing'[g]) \/ Full(outRing'[g])
<1> DEFINE f == free[g]  s == Held(g)  f1 == free'[g]  s1 == Held(g)'
<1>1. f \in Nat /\ s \in Nat
  BY Lengths, Total
<1>2. f1 \in Nat /\ s1 \in Nat
  <2>1. HeldNat'
    BY HeldNatNext
  <2> QED
    BY <2>1, Zenon DEF HeldNat
<1>3. Leaked(g) = NumMbufs - f - s /\ Leaked(g)' = NumMbufs - f1 - s1
  BY Zenon DEF Leaked
<1>4. f1 + s1 <= f + s /\ (f1 + s1 < f + s => Full(inRing'[g]) \/ Full(outRing'[g]))
  BY Zenon DEF Accounted, AccountedAt
<1> DEFINE full == Full(inRing'[g]) \/ Full(outRing'[g])
<1> HIDE DEF f, s, f1, s1, full
<1>5. /\ NumMbufs - f - s \in Int /\ NumMbufs - f1 - s1 \in Int
      /\ NumMbufs - f1 - s1 >= NumMbufs - f - s
      /\ NumMbufs - f1 - s1 > NumMbufs - f - s => f1 + s1 < f + s
  BY <1>1, <1>2, <1>4, SizesAssumption
<1> QED
  BY <1>3, <1>4, <1>5, Zenon DEF full

-----------------------------------------------------------------------------
(* The theorems.                                                           *)

LEMMA InitInv == Init => IInv
<1> SUFFICES ASSUME Init PROVE IInv
  OBVIOUS
<1>1. proc \in [Host -> Procs]
  BY DEF Init, Procs
<1>2. ScalarTypes
  <2>1. 0 \in Paths
    BY PathPortsAssumption DEF Paths
  <2> QED
    BY <2>1, SizesAssumption DEF Init, ScalarTypes
<1>3. QueueTypes
  BY DEF Init, QueueTypes
<1>4. Capacities
  <2>1. Len(<<>>) = 0 /\ 0 \in Nat
    OBVIOUS
  <2> QED
    BY <2>1, SizesAssumption, PathPortsAssumption DEF Init, Capacities
<1>5. TypeOK
  BY <1>1, <1>2, <1>3, <1>4, Zenon DEF TypeOK
<1>6. ASSUME NEW g \in Host PROVE Leaked(g) >= 0
  <2>1. Leaked(g) = NumMbufs - NumMbufs - (Len(<<>>) + Len(<<>>) + Len(<<>>) + Len(<<>>)
                                           + Len(<<>>) + Len(<<>>) + Len(<<>>))
    BY DEF Init, Leaked, Held
  <2>2. Len(<<>>) = 0
    OBVIOUS
  <2> QED
    BY <2>1, <2>2, SizesAssumption
<1> QED
  BY <1>5, <1>6, Zenon DEF IInv, MbufsConserved

LEMMA NextInv == IInv /\ [Next]_vars => IInv'
<1> SUFFICES ASSUME IInv, [Next]_vars PROVE IInv'
  OBVIOUS
<1>1. TypeOK' /\ Accounted
  BY StepAccounted
<1>2. ASSUME NEW g \in Host PROVE Leaked(g)' >= 0
  <2>1. Leaked(g) \in Int /\ Leaked(g)' \in Int /\ Leaked(g)' >= Leaked(g)
    BY <1>1, LeakStep DEF IInv
  <2>2. Leaked(g) >= 0
    BY Zenon DEF IInv, MbufsConserved
  <2> DEFINE x == Leaked(g)  y == Leaked(g)'
  <2> HIDE DEF x, y
  <2>3. x \in Int /\ y \in Int /\ y >= x /\ x >= 0
    BY <2>1, <2>2, Zenon DEF x, y
  <2>4. y >= 0
    BY <2>3
  <2> QED
    BY <2>4 DEF y
<1>3. MbufsConserved'
  BY <1>2, Zenon DEF MbufsConserved
<1> QED
  BY <1>1, <1>3, Zenon DEF IInv

(* IInv is inductive: capacities and accounting need each other, since an  *)
(* mbuf goes back to the pool only because it was counted as held.         *)
THEOREM SpecIInv == Spec => []IInv
  BY InitInv, NextInv, PTL DEF Spec

(* Types and capacities hold for every size of pool, rings, bursts and     *)
(* descriptor queues: no queue outgrows its array, and the dispatch loop   *)
(* of lcore_stats stays within bufs[].                                     *)
THEOREM SpecTypeOK == Spec => []TypeOK
<1>1. IInv => TypeOK
  BY DEF IInv
<1> QED
  BY <1>1, SpecIInv, PTL

(* No mbuf is freed twice, or freed while a ring or a descriptor queue     *)
(* refers to it (lines 480-481).                                           *)
THEOREM SpecMbufsConserved == Spec => []MbufsConserved
<1>1. IInv => MbufsConserved
  BY DEF IInv
<1> QED
  BY <1>1, SpecIInv, PTL

(* The only step that loses an mbuf is an enqueue into a ring it fills     *)
(* (lines 323, 342, 400, 553).                                             *)
THEOREM SpecLeakOnlyWhenRingFull == Spec => LeakOnlyWhenRingFull
<1> DEFINE A == \A h \in Host :
                  /\ Leaked(h)' >= Leaked(h)
                  /\ Leaked(h)' > Leaked(h) => Full(inRing'[h]) \/ Full(outRing'[h])
<1>1. IInv /\ [Next]_vars => [A]_vars
  <2> SUFFICES ASSUME IInv, [Next]_vars PROVE A
    OBVIOUS
  <2>1. TypeOK /\ TypeOK' /\ Accounted
    BY StepAccounted DEF IInv
  <2> QED
    BY <2>1, LeakStep
<1> HIDE DEF A
<1>2. Spec => [][A]_vars
  BY <1>1, SpecIInv, PTL DEF Spec
<1> QED
  BY <1>2 DEF LeakOnlyWhenRingFull, A

(* With a pool larger than all the places that can hold mbufs together, a  *)
(* process exits in the encoders (line 195) only after a full ring has     *)
(* lost mbufs for good.                                                    *)
THEOREM SpecExitOnlyAfterLeak ==
  ASSUME PoolCovers
  PROVE  Spec => []ExitOnlyAfterLeak
<1>1. Init => ExitOnlyAfterLeak
  BY DEF Init, ExitOnlyAfterLeak
<1>2. IInv /\ ExitOnlyAfterLeak /\ [Next]_vars => ExitOnlyAfterLeak'
  <2> SUFFICES ASSUME IInv, ExitOnlyAfterLeak, [Next]_vars, NEW g \in Host,
                      proc'[g] = "exited"
               PROVE  Leaked(g)' > 0
    BY Zenon DEF ExitOnlyAfterLeak
  <2>1. TypeOK /\ TypeOK' /\ Accounted
    BY StepAccounted DEF IInv
  <2>2. CASE proc[g] # "exited"
    <3>1. free'[g] = 0
      BY <2>1, <2>2, ExitFindsPoolEmpty
    <3>2. EmptyLeaked'
      BY <2>1, EmptyLeakedNext
    <3> QED
      BY <3>1, <3>2, Zenon DEF EmptyLeaked
  <2>3. CASE proc[g] = "exited"
    <3>1. Leaked(g) > 0
      BY <2>3, Zenon DEF ExitOnlyAfterLeak
    <3>2. Leaked(g) \in Int /\ Leaked(g)' \in Int /\ Leaked(g)' >= Leaked(g)
      BY <2>1, LeakStep
    <3> DEFINE x == Leaked(g)  y == Leaked(g)'
    <3> HIDE DEF x, y
    <3>3. x \in Int /\ y \in Int /\ y >= x /\ x > 0
      BY <3>1, <3>2, Zenon DEF x, y
    <3>4. y > 0
      BY <3>3
    <3> QED
      BY <3>4 DEF y
  <2> QED
    BY <2>2, <2>3
<1> QED
  BY <1>1, <1>2, SpecIInv, PTL DEF Spec

-----------------------------------------------------------------------------
(* How many packets of a kind a queue holds.                               *)

Of(q, kind) == {i \in DOMAIN q : q[i].kind = kind}

(* The count is a natural number.                                          *)
LEMMA CountNat ==
  ASSUME NEW S, NEW q \in Seq(S), NEW kind
  PROVE  /\ IsFiniteSet(Of(q, kind)) /\ CountKind(q, kind) = Cardinality(Of(q, kind))
         /\ CountKind(q, kind) \in Nat
<1>1. Len(q) \in Nat /\ DOMAIN q = 1 .. Len(q)
  BY LenProperties
<1>2. IsFiniteSet(1 .. Len(q))
  <2>1. 1 \in Int /\ Len(q) \in Int
    BY <1>1
  <2> QED
    BY <2>1, FS_Interval
<1>3. Of(q, kind) \in SUBSET (1 .. Len(q))
  BY <1>1, Zenon DEF Of
<1>4. IsFiniteSet(Of(q, kind))
  BY <1>2, <1>3, FS_Subset
<1> QED
  BY <1>4, FS_CardinalityType, Zenon DEF CountKind, Of

(* Counts of two queues one behind the other add up: the positions in the  *)
(* second one are moved by the length of the first.                        *)
LEMMA CountConcat ==
  ASSUME NEW S, NEW q \in Seq(S), NEW r \in Seq(S), NEW kind
  PROVE  CountKind(q \o r, kind) = CountKind(q, kind) + CountKind(r, kind)
<1> DEFINE n == Len(q)
           f == [j \in Of(r, kind) |-> n + j]
           T == {n + j : j \in Of(r, kind)}
<1>1. /\ n \in Nat /\ Len(r) \in Nat /\ DOMAIN q = 1 .. n /\ DOMAIN r = 1 .. Len(r)
      /\ q \o r \in Seq(S) /\ Len(q \o r) = n + Len(r) /\ DOMAIN (q \o r) = 1 .. n + Len(r)
  BY LenProperties, ConcatProperties
<1>2. \A i \in 1 .. n + Len(r) : (q \o r)[i] = IF i <= n THEN q[i] ELSE r[i - n]
  BY ConcatProperties
<1> HIDE DEF n
<1>3. /\ IsFiniteSet(Of(q, kind)) /\ CountKind(q, kind) = Cardinality(Of(q, kind))
      /\ IsFiniteSet(Of(r, kind)) /\ CountKind(r, kind) = Cardinality(Of(r, kind))
      /\ CountKind(q \o r, kind) = Cardinality(Of(q \o r, kind))
  BY <1>1, CountNat
<1>4. Of(q, kind) \subseteq 1 .. n /\ Of(r, kind) \subseteq 1 .. Len(r)
  BY <1>1, Zenon DEF Of
<1>5. f \in Bijection(Of(r, kind), T)
  <2>1. f \in Injection(Of(r, kind), T)
    <3>1. f \in [Of(r, kind) -> T]
      BY Zenon
    <3>2. \A a, b \in Of(r, kind) : f[a] = f[b] => a = b
      BY <1>1, <1>4
    <3> QED
      BY <3>1, <3>2, Zenon DEF Injection, IsInjective
  <2>2. \A t \in T : \E a \in Of(r, kind) : f[a] = t
    BY Zenon
  <2>3. f \in Surjection(Of(r, kind), T)
    BY <2>1, <2>2, Zenon DEF Surjection, Injection
  <2> QED
    BY <2>1, <2>3, Zenon DEF Bijection
<1>6. IsFiniteSet(T) /\ Cardinality(T) = Cardinality(Of(r, kind))
  BY <1>3, <1>5, FS_Bijection, Zenon DEF ExistsBijection
<1>7. Of(q \o r, kind) = Of(q, kind) \cup T
  <2>1. ASSUME NEW i \in Of(q \o r, kind) PROVE i \in Of(q, kind) \cup T
    <3>1. i \in 1 .. n + Len(r) /\ (q \o r)[i].kind = kind
      BY <1>1, Zenon DEF Of
    <3>2. CASE i <= n
      <4>1. i \in DOMAIN q /\ (q \o r)[i] = q[i]
        BY <1>1, <1>2, <3>1, <3>2
      <4> QED
        BY <3>1, <4>1, Zenon DEF Of
    <3>3. CASE ~ (i <= n)
      <4>1. i - n \in DOMAIN r /\ (q \o r)[i] = r[i - n] /\ i = n + (i - n)
        BY <1>1, <1>2, <3>1, <3>3
      <4>2. i - n \in Of(r, kind)
        BY <3>1, <4>1, Zenon DEF Of
      <4> QED
        BY <4>1, <4>2, Zenon
    <3> QED
      BY <3>2, <3>3
  <2>2. ASSUME NEW i \in Of(q, kind) PROVE i \in Of(q \o r, kind)
    <3>1. i \in 1 .. n /\ q[i].kind = kind
      BY <1>1, Zenon DEF Of
    <3>2. i \in 1 .. n + Len(r) /\ (q \o r)[i] = q[i]
      BY <1>1, <1>2, <3>1
    <3> QED
      BY <1>1, <3>1, <3>2, Zenon DEF Of
  <2>3. ASSUME NEW j \in Of(r, kind) PROVE n + j \in Of(q \o r, kind)
    <3>1. j \in 1 .. Len(r) /\ r[j].kind = kind
      BY <1>1, Zenon DEF Of
    <3>2. n + j \in 1 .. n + Len(r) /\ (q \o r)[n + j] = r[j]
      BY <1>1, <1>2, <3>1
    <3> QED
      BY <1>1, <3>1, <3>2, Zenon DEF Of
  <2> QED
    BY <2>1, <2>2, <2>3
<1>8. Of(q, kind) \cap T = {}
  BY <1>1, <1>4
<1> HIDE DEF T
<1>9. Cardinality(Of(q, kind) \cup T) =
        Cardinality(Of(q, kind)) + Cardinality(T) - Cardinality(Of(q, kind) \cap T)
  BY <1>3, <1>6, FS_Union
<1>10. Cardinality(Of(q, kind) \cap T) = 0
  BY <1>8, FS_EmptySet
<1>11. Cardinality(Of(q, kind)) \in Nat /\ Cardinality(T) \in Nat
  BY <1>3, <1>6, FS_CardinalityType
<1> QED
  BY <1>3, <1>6, <1>7, <1>9, <1>10, <1>11

(* No packet, and one.                                                     *)
LEMMA CountEmpty == ASSUME NEW kind PROVE CountKind(<<>>, kind) = 0
<1>1. {i \in DOMAIN <<>> : <<>>[i].kind = kind} = {}
  OBVIOUS
<1> QED
  BY <1>1, FS_EmptySet DEF CountKind

One(m, kind) == IF m.kind = kind THEN 1 ELSE 0

LEMMA CountOne ==
  ASSUME NEW m, NEW kind
  PROVE  CountKind(<<m>>, kind) = One(m, kind)
<1>1. {i \in DOMAIN <<m>> : <<m>>[i].kind = kind} = IF m.kind = kind THEN {1} ELSE {}
  OBVIOUS
<1> QED
  BY <1>1, FS_EmptySet, FS_Singleton DEF CountKind, One

(* A packet behind a queue counts if it is of the kind.                    *)
LEMMA CountAppend ==
  ASSUME NEW S, NEW q \in Seq(S), NEW m \in S, NEW kind
  PROVE  CountKind(Append(q, m), kind) = CountKind(q, kind) + One(m, kind)
<1>1. Append(q, m) = q \o <<m>> /\ <<m>> \in Seq(S)
  BY AppendIsConcat
<1>2. CountKind(q \o <<m>>, kind) = CountKind(q, kind) + CountKind(<<m>>, kind)
  BY <1>1, CountConcat
<1> QED
  BY <1>1, <1>2, CountOne, Zenon

(* Parting a queue parts its packets.                                      *)
LEMMA CountParts ==
  ASSUME NEW S, NEW q \in Seq(S), NEW n \in 0 .. Len(q), NEW kind
  PROVE  CountKind(SubSeq(q, 1, n), kind) + CountKind(SubSeq(q, n + 1, Len(q)), kind)
           = CountKind(q, kind)
<1>1. SubSeq(q, 1, n) \in Seq(S) /\ SubSeq(q, n + 1, Len(q)) \in Seq(S)
  BY PrefixSplits
<1>2. SubSeq(q, 1, n) \o SubSeq(q, n + 1, Len(q)) = q
  <2>1. Len(q) \in Nat /\ 1 \in 1 .. Len(q) + 1 /\ n \in 1 - 1 .. Len(q) /\ Len(q) \in n .. Len(q)
    BY LenProperties
  <2> QED
    BY <2>1, ConcatAdjacentSubSeq, SubSeqFull
<1>3. CountKind(SubSeq(q, 1, n) \o SubSeq(q, n + 1, Len(q)), kind) =
        CountKind(SubSeq(q, 1, n), kind) + CountKind(SubSeq(q, n + 1, Len(q)), kind)
  BY <1>1, CountConcat
<1> QED
  BY <1>2, <1>3, Zenon

(* What is left behind a packet.                                           *)
LEMMA CountRest ==
  ASSUME NEW S, NEW q \in Seq(S), NEW i \in 1 .. Len(q), NEW kind
  PROVE  CountKind(SubSeq(q, i, Len(q)), kind) =
           One(q[i], kind) + CountKind(SubSeq(q, i + 1, Len(q)), kind)
<1>1. q[i] \in S /\ <<q[i]>> \in Seq(S) /\ SubSeq(q, i + 1, Len(q)) \in Seq(S)
  OBVIOUS
<1>2. SubSeq(q, i, Len(q)) = <<q[i]>> \o SubSeq(q, i + 1, Len(q))
  BY LenProperties, SubSeqRecursiveFirst
<1>3. CountKind(<<q[i]>> \o SubSeq(q, i + 1, Len(q)), kind) =
        CountKind(<<q[i]>>, kind) + CountKind(SubSeq(q, i + 1, Len(q)), kind)
  BY <1>1, CountConcat
<1> QED
  BY <1>2, <1>3, CountOne, Zenon

(* The first packet and the rest.                                          *)
LEMMA CountTail ==
  ASSUME NEW S, NEW q \in Seq(S), q # <<>>, NEW kind
  PROVE  CountKind(q, kind) = One(Head(q), kind) + CountKind(Tail(q), kind)
<1>1. Len(q) \in Nat /\ 1 \in 1 .. Len(q) /\ 1 + 1 = 2 /\ Head(q) = q[1]
  OBVIOUS
<1>2. Tail(q) = SubSeq(q, 2, Len(q)) /\ SubSeq(q, 1, Len(q)) = q
  BY TailIsSubSeq, SubSeqFull
<1>3. CountKind(SubSeq(q, 1, Len(q)), kind) =
        One(q[1], kind) + CountKind(SubSeq(q, 1 + 1, Len(q)), kind)
  BY <1>1, CountRest
<1> QED
  BY <1>1, <1>2, <1>3, Zenon

(* A packet taken out of the middle, as the network does.                  *)
LEMMA CountRemoveAt ==
  ASSUME NEW S, NEW q \in Seq(S), NEW k \in 1 .. Len(q), NEW kind
  PROVE  CountKind(q, kind) = One(q[k], kind) + CountKind(RemoveAt(q, k), kind)
<1> DEFINE a == SubSeq(q, 1, k - 1)
           b == SubSeq(q, k + 1, Len(q))
<1>1. /\ Len(q) \in Nat /\ k - 1 \in 0 .. Len(q) /\ (k - 1) + 1 = k
      /\ a \in Seq(S) /\ b \in Seq(S)
  OBVIOUS
<1>2. CountKind(a, kind) + CountKind(SubSeq(q, k, Len(q)), kind) = CountKind(q, kind)
  <2>1. CountKind(SubSeq(q, 1, k - 1), kind) + CountKind(SubSeq(q, (k - 1) + 1, Len(q)), kind)
          = CountKind(q, kind)
    BY <1>1, CountParts
  <2> QED
    BY <1>1, <2>1, Zenon
<1>3. CountKind(SubSeq(q, k, Len(q)), kind) = One(q[k], kind) + CountKind(b, kind)
  BY CountRest
<1>4. CountKind(RemoveAt(q, k), kind) = CountKind(a, kind) + CountKind(b, kind)
  BY <1>1, CountConcat, Zenon DEF RemoveAt
<1>5. CountKind(a, kind) \in Nat /\ CountKind(b, kind) \in Nat /\ One(q[k], kind) \in Nat
  BY <1>1, CountNat DEF One
<1> DEFINE x == CountKind(a, kind)  y == CountKind(b, kind)  z == One(q[k], kind)
<1> HIDE DEF x, y, z, a, b
<1>6. x + (z + y) = z + (x + y)
  BY <1>5 DEF x, y, z
<1> QED
  BY <1>2, <1>3, <1>4, <1>6, Zenon DEF x, y, z

(* A ring takes at most what is put.                                       *)
LEMMA CountEnqueue ==
  ASSUME NEW S, NEW ring \in Seq(S), NEW s \in Seq(S), Len(ring) <= RingSize, NEW kind
  PROVE  /\ CountKind(Enqueue(ring, s), kind) \in Nat
         /\ CountKind(Enqueue(ring, s), kind) <= CountKind(ring, kind) + CountKind(s, kind)
<1> DEFINE n == Min({Len(s), RingSize - Len(ring)})
<1>1. Len(s) \in Nat /\ Len(ring) \in Nat /\ RingSize - Len(ring) \in Nat
  BY SizesAssumption
<1>2. n \in 0 .. Len(s)
  <2>1. n \in {Len(s), RingSize - Len(ring)} /\ n <= Len(s)
    <3>1. RingSize - Len(ring) \in Int /\ Len(s) \in Int
      BY <1>1
    <3> QED
      BY <3>1, MinOfTwo, Zenon
  <2> QED
    BY <1>1, <2>1
<1> DEFINE a == SubSeq(s, 1, n)
           b == SubSeq(s, n + 1, Len(s))
<1> HIDE DEF n
<1>3. a \in Seq(S) /\ b \in Seq(S)
  BY <1>2, PrefixSplits
<1>4. CountKind(a, kind) + CountKind(b, kind) = CountKind(s, kind)
  BY <1>2, CountParts
<1>5. Enqueue(ring, s) = ring \o a /\ ring \o a \in Seq(S)
  BY <1>3, ConcatProperties DEF Enqueue, n
<1> HIDE DEF a, b
<1>6. CountKind(ring \o a, kind) = CountKind(ring, kind) + CountKind(a, kind)
  BY <1>3, CountConcat
<1>7. /\ CountKind(a, kind) \in Nat /\ CountKind(b, kind) \in Nat /\ CountKind(s, kind) \in Nat
      /\ CountKind(ring, kind) \in Nat /\ CountKind(ring \o a, kind) \in Nat
  BY <1>3, <1>5, CountNat
<1> QED
  BY <1>4, <1>5, <1>6, <1>7

(* A burst is parted from a queue.                                         *)
LEMMA CountBurst ==
  ASSUME NEW S, NEW ring \in Seq(S), NEW kind
  PROVE  CountKind(Burst(ring), kind) + CountKind(AfterBurst(ring), kind)
           = CountKind(ring, kind)
<1> DEFINE n == BurstLen(ring)
<1>1. n \in 0 .. Len(ring)
  <2>1. Len(ring) \in Int /\ BURST_SIZE \in Int /\ Len(ring) \in Nat /\ BURST_SIZE \in Nat
    BY SizesAssumption
  <2>2. n \in {Len(ring), BURST_SIZE} /\ n <= Len(ring)
    BY <2>1, MinOfTwo, Zenon DEF BurstLen
  <2> QED
    BY <2>1, <2>2
<1> HIDE DEF n
<1>2. CountKind(SubSeq(ring, 1, n), kind) + CountKind(SubSeq(ring, n + 1, Len(ring)), kind)
        = CountKind(ring, kind)
  BY <1>1, CountParts
<1> QED
  BY <1>2, Zenon DEF Burst, AfterBurst, n

-----------------------------------------------------------------------------
(* The packets that ask and that acknowledge, on their way.                *)

Asked == {"REPATH", "REPATH_ACK"}

(* On the host that encodes them, and from the wire to the handlers of the *)
(* other one.                                                              *)
Sent(h, kind) ==
  CountKind(outRing[h], kind) + CountKind(txHand[h], kind) + CountKind(txq[h], kind)
Coming(h, kind) ==
  CountKind(wire[h], kind) + CountKind(rxq[h], kind)
  + CountKind(inRing[h], kind) + CountKind(Unhandled(h), kind)

(* lcore_probe encodes nothing but probes.                                 *)
NoneEncoded == \A h \in Host : \A kind \in Asked : CountKind(encoded[h], kind) = 0

(* There are two hosts, each the peer of the other.                        *)
LEMMA PeerOfPeer ==
  ASSUME NEW h \in Host
  PROVE  Peer(h) # h /\ Peer(Peer(h)) = h /\ \A g \in Host : g = h \/ g = Peer(h)
<1>1. PICK g \in Host : Host \ {h} = {g}
  BY TwoHostsAssumption
<1>2. g # h /\ \A x \in Host : x = h \/ x = g
  BY <1>1
<1>3. Peer(h) = g
  BY <1>1, <1>2 DEF Peer
<1>4. Peer(g) = h
  BY <1>1, <1>2 DEF Peer
<1> QED
  BY <1>2, <1>3, <1>4

(* What lcore_stats has still to dispatch is a queue of packets.           *)
LEMMA UnhandledQueue ==
  ASSUME TypeOK, NEW h \in Host
  PROVE  /\ Unhandled(h) \in Seq(Packet) /\ handled[h] \in Nat
         /\ handled[h] <= Len(burst[h])
<1>1. burst[h] \in Seq(Packet) /\ handled[h] \in Nat /\ handled[h] <= Len(burst[h])
  BY Queues DEF TypeOK, ScalarTypes, Capacities
<1>2. handled[h] \in 0 .. Len(burst[h])
  BY <1>1
<1>3. SubSeq(burst[h], handled[h] + 1, Len(burst[h])) \in Seq(Packet)
  BY <1>1, <1>2, PrefixSplits
<1> QED
  BY <1>1, <1>3, Zenon DEF Unhandled

(* All the counts of a host are natural numbers.                           *)
LEMMA Counts ==
  ASSUME TypeOK, NEW h \in Host, NEW kind
  PROVE  /\ CountKind(outRing[h], kind) \in Nat /\ CountKind(txHand[h], kind) \in Nat
         /\ CountKind(txq[h], kind) \in Nat /\ CountKind(wire[h], kind) \in Nat
         /\ CountKind(rxq[h], kind) \in Nat /\ CountKind(inRing[h], kind) \in Nat
         /\ CountKind(Unhandled(h), kind) \in Nat
<1>1. /\ outRing[h] \in Seq(Packet) /\ txHand[h] \in Seq(Packet) /\ txq[h] \in Seq(Packet)
      /\ wire[h] \in Seq(Packet) /\ rxq[h] \in Seq(Packet) /\ inRing[h] \in Seq(Packet)
      /\ Unhandled(h) \in Seq(Packet)
  BY Queues, UnhandledQueue, Zenon
<1> QED
  BY <1>1, CountNat

CountsAdd ==
  \A h \in Host : \A kind \in Asked :
    /\ Sent(h, kind) \in Nat /\ Coming(h, kind) \in Nat
    /\ UnderWay(h, kind) = Sent(h, kind) + Coming(Peer(h), kind)

(* What is under way is what one host has to send and what comes to the    *)
(* other.                                                                  *)
LEMMA CountsTyped == TypeOK => CountsAdd
<1> SUFFICES ASSUME TypeOK, NEW h \in Host, NEW kind \in Asked
             PROVE  /\ Sent(h, kind) \in Nat /\ Coming(h, kind) \in Nat
                    /\ UnderWay(h, kind) = Sent(h, kind) + Coming(Peer(h), kind)
  BY DEF CountsAdd
<1> DEFINE g == Peer(h)
           o == CountKind(outRing[h], kind)  t == CountKind(txHand[h], kind)
           q == CountKind(txq[h], kind)
           w == CountKind(wire[g], kind)  r == CountKind(rxq[g], kind)
           i == CountKind(inRing[g], kind)  u == CountKind(Unhandled(g), kind)
<1>1. /\ o \in Nat /\ t \in Nat /\ q \in Nat /\ w \in Nat /\ r \in Nat
      /\ i \in Nat /\ u \in Nat
  BY Counts, PeerInHost
<1>2. /\ Sent(h, kind) = o + t + q /\ Coming(g, kind) = w + r + i + u
      /\ UnderWay(h, kind) = o + t + q + w + r + i + u
  BY Zenon DEF Sent, Coming, UnderWay
<1>3. Coming(h, kind) \in Nat
  <2> DEFINE a == CountKind(wire[h], kind)  b == CountKind(rxq[h], kind)
             c == CountKind(inRing[h], kind)  d == CountKind(Unhandled(h), kind)
  <2>1. a \in Nat /\ b \in Nat /\ c \in Nat /\ d \in Nat
    BY Counts
  <2>2. Coming(h, kind) = a + b + c + d
    BY Zenon DEF Coming
  <2> HIDE DEF a, b, c, d
  <2> QED
    BY <2>1, <2>2
<1> HIDE DEF o, t, q, w, r, i, u
<1>4. o + t + q \in Nat /\ o + t + q + w + r + i + u = (o + t + q) + (w + r + i + u)
  BY <1>1
<1> QED
  BY <1>2, <1>3, <1>4, Zenon DEF g

(* And so it is in the next state.                                         *)
LEMMA CountsNext == TypeOK' => CountsAdd'
  BY CountsTyped, PTL

(* A step that leaves one side of a host alone.                            *)
SentKept(h) == outRing'[h] = outRing[h] /\ txHand'[h] = txHand[h] /\ txq'[h] = txq[h]
ComingKept(h) ==
  /\ wire'[h] = wire[h] /\ rxq'[h] = rxq[h] /\ inRing'[h] = inRing[h]
  /\ burst'[h] = burst[h] /\ handled'[h] = handled[h]

(* Its counts are kept.                                                    *)
LEMMA KeptCounts ==
  ASSUME NEW h, NEW kind
  PROVE  /\ SentKept(h) => Sent(h, kind)' = Sent(h, kind)
         /\ ComingKept(h) => Coming(h, kind)' = Coming(h, kind)
  BY Zenon DEF SentKept, ComingKept, Sent, Coming, Unhandled

(* A host handles or loses the given numbers of packets, and encodes at    *)
(* most the given numbers; the other host does nothing.                    *)
Effect(h, taken, made) ==
  \A kind \in Asked :
    /\ Coming(h, kind)' + taken[kind] <= Coming(h, kind)
    /\ Sent(h, kind)' <= Sent(h, kind) + made[kind]
    /\ Coming(Peer(h), kind)' = Coming(Peer(h), kind)
    /\ Sent(Peer(h), kind)' = Sent(Peer(h), kind)

None == [kind \in Asked |-> 0]
Just(k) == [kind \in Asked |-> IF kind = k THEN 1 ELSE 0]

(* A dispatched packet is handled, whatever the handler does.              *)
LEMMA DispatchCounts ==
  ASSUME TypeOK, NEW h \in Host, handled[h] < Len(burst[h]),
         handled'[h] = handled[h] + 1, burst'[h] = burst[h], wire'[h] = wire[h],
         rxq'[h] = rxq[h], inRing'[h] = inRing[h], NEW kind
  PROVE  Coming(h, kind)' + One(Current(h), kind) = Coming(h, kind)
<1> DEFINE n == handled[h] + 1
           a == CountKind(wire[h], kind)  b == CountKind(rxq[h], kind)
           c == CountKind(inRing[h], kind)  d == CountKind(Unhandled(h), kind)
           e == CountKind(SubSeq(burst[h], n + 1, Len(burst[h])), kind)
           m == One(Current(h), kind)
<1>1. burst[h] \in Seq(Packet) /\ n \in 1 .. Len(burst[h])
  <2>1. burst[h] \in Seq(Packet) /\ handled[h] \in Nat /\ Len(burst[h]) \in Nat
    BY Queues, UnhandledQueue, Lengths
  <2> QED
    BY <2>1
<1>2. d = m + e
  BY <1>1, CountRest, Zenon DEF Unhandled, Current
<1>3. e \in Nat
  <2>1. n \in 0 .. Len(burst[h])
    BY <1>1
  <2>2. SubSeq(burst[h], n + 1, Len(burst[h])) \in Seq(Packet)
    BY <1>1, <2>1, PrefixSplits
  <2> QED
    BY <2>2, CountNat
<1>4. a \in Nat /\ b \in Nat /\ c \in Nat /\ d \in Nat /\ m \in Nat
  BY Counts DEF One
<1>5. Coming(h, kind) = a + b + c + d /\ Coming(h, kind)' = a + b + c + e
  BY Zenon DEF Coming, Unhandled
<1> HIDE DEF a, b, c, d, e, m
<1>6. a + b + c + e + m = a + b + c + d
  BY <1>2, <1>3, <1>4
<1> QED
  BY <1>5, <1>6, Zenon DEF m

(* The out ring takes at most the packets put into it.                     *)
LEMMA OutRingTakes ==
  ASSUME TypeOK, NEW h \in Host, NEW s \in Seq(Packet),
         outRing'[h] = Enqueue(outRing[h], s), txHand'[h] = txHand[h], txq'[h] = txq[h],
         NEW kind
  PROVE  Sent(h, kind)' <= Sent(h, kind) + CountKind(s, kind)
<1> DEFINE o == CountKind(outRing[h], kind)  t == CountKind(txHand[h], kind)
           q == CountKind(txq[h], kind)  y == CountKind(s, kind)
           x == CountKind(Enqueue(outRing[h], s), kind)
<1>1. outRing[h] \in Seq(Packet) /\ Len(outRing[h]) <= RingSize
  BY Queues DEF TypeOK, Capacities
<1>2. x \in Nat /\ x <= o + y
  BY <1>1, CountEnqueue
<1>3. o \in Nat /\ t \in Nat /\ q \in Nat /\ y \in Nat
  BY Counts, CountNat
<1>4. Sent(h, kind) = o + t + q /\ Sent(h, kind)' = x + t + q
  BY Zenon DEF Sent
<1> HIDE DEF o, t, q, y, x
<1>5. x + t + q <= o + t + q + y
  BY <1>2, <1>3
<1> QED
  BY <1>4, <1>5, Zenon DEF y

(* The queues of the other host stay as they are.                          *)
PeerKept(h) == SentKept(Peer(h)) /\ ComingKept(Peer(h))

(* A step that does nothing but pass packets on, or lose some.             *)
LEMMA NothingNew ==
  ASSUME TypeOK, TypeOK', NEW h \in Host, PeerKept(h),
         ComingKept(h) \/ \A kind \in Asked : Coming(h, kind)' <= Coming(h, kind),
         SentKept(h) \/ \A kind \in Asked : Sent(h, kind)' <= Sent(h, kind)
  PROVE  Effect(h, None, None)
<1>1. CountsAdd /\ CountsAdd'
  BY CountsTyped, CountsNext
<1> SUFFICES ASSUME NEW kind \in Asked
             PROVE  /\ Coming(h, kind)' + None[kind] <= Coming(h, kind)
                    /\ Sent(h, kind)' <= Sent(h, kind) + None[kind]
                    /\ Coming(Peer(h), kind)' = Coming(Peer(h), kind)
                    /\ Sent(Peer(h), kind)' = Sent(Peer(h), kind)
  BY Zenon DEF Effect
<1>2. /\ Coming(Peer(h), kind)' = Coming(Peer(h), kind)
      /\ Sent(Peer(h), kind)' = Sent(Peer(h), kind)
  BY KeptCounts, Zenon DEF PeerKept
<1> DEFINE a == Coming(h, kind)  a1 == Coming(h, kind)'
           b == Sent(h, kind)  b1 == Sent(h, kind)'
<1>3. a \in Nat /\ a1 \in Nat /\ b \in Nat /\ b1 \in Nat
  BY <1>1, Zenon DEF CountsAdd
<1>6. (a1 = a \/ a1 <= a) /\ (b1 = b \/ b1 <= b)
  BY KeptCounts, Zenon
<1>4. None[kind] = 0
  BY DEF None
<1> HIDE DEF a, a1, b, b1
<1>5. a1 + 0 <= a /\ b1 <= b + 0
  BY <1>3, <1>6
<1> QED
  BY <1>2, <1>4, <1>5, Zenon DEF a, a1, b, b1

(* The network and the NICs, and nothing that asks comes from elsewhere.   *)
LEMMA ArriveEffect ==
  ASSUME TypeOK, TypeOK', NEW h \in Host, NEW k \in Kinds \ Asked, Arrive(h, k)
  PROVE  Effect(h, None, None) /\ UNCHANGED <<encoded, repaths, acks>>
<1> DEFINE m == Pkt(k, DST_PORT_PATH_1)
<1>1. /\ wire' = [wire EXCEPT ![h] = Append(wire[h], m)]
      /\ UNCHANGED <<rxq, inRing, outRing, txHand, txq, encoded, burst, handled,
                     repaths, acks>>
  BY DEF Arrive, nicVars, mainVars, probeVars, statsVars
<1>2. m \in Packet /\ m.kind = k
  BY PacketTypes DEF Pkt
<1> HIDE DEF m
<1>3. wire'[h] = Append(wire[h], m) /\ wire'[Peer(h)] = wire[Peer(h)]
  BY <1>1, PeerOfPeer, PeerInHost DEF TypeOK, QueueTypes
<1>4. PeerKept(h) /\ SentKept(h)
  BY <1>1, <1>3, Zenon DEF PeerKept, SentKept, ComingKept
<1>5. ASSUME NEW kind \in Asked PROVE Coming(h, kind)' <= Coming(h, kind)
  <2> DEFINE a == CountKind(wire[h], kind)  b == CountKind(rxq[h], kind)
             c == CountKind(inRing[h], kind)  d == CountKind(Unhandled(h), kind)
             a1 == CountKind(Append(wire[h], m), kind)
  <2>1. a1 = a + One(m, kind)
    BY <1>2, Queues, CountAppend
  <2>2. One(m, kind) = 0
    BY <1>2 DEF One
  <2>3. Coming(h, kind) = a + b + c + d /\ Coming(h, kind)' = a1 + b + c + d
    BY <1>1, <1>3, Zenon DEF Coming, Unhandled
  <2>4. a \in Nat /\ b \in Nat /\ c \in Nat /\ d \in Nat
    BY Counts
  <2> HIDE DEF a, b, c, d, a1
  <2>5. a1 + b + c + d <= a + b + c + d
    BY <2>1, <2>2, <2>4
  <2> QED
    BY <2>3, <2>5, Zenon
<1> QED
  BY <1>1, <1>4, <1>5, NothingNew

(* A packet leaves the wire, for the descriptors or for good.              *)
LEMMA NicReceiveEffect ==
  ASSUME TypeOK, TypeOK', NEW h \in Host, NEW k \in 1 .. Len(wire[h]), NicReceive(h, k)
  PROVE  Effect(h, None, None) /\ UNCHANGED <<encoded, repaths, acks>>
<1> DEFINE m == wire[h][k]
           w == RemoveAt(wire[h], k)
<1>1. /\ wire' = [wire EXCEPT ![h] = w]
      /\ rxq' = [rxq EXCEPT ![h] = Append(rxq[h], m)] \/ rxq' = rxq
      /\ UNCHANGED <<inRing, outRing, txHand, txq, encoded, burst, handled, repaths, acks>>
  BY DEF NicReceive, mainVars, probeVars, statsVars
<1>2. /\ wire[h] \in Seq(Packet) /\ rxq[h] \in Seq(Packet) /\ m \in Packet
      /\ w \in Seq(Packet)
  <2>1. wire[h] \in Seq(Packet) /\ rxq[h] \in Seq(Packet)
    BY Queues
  <2>2. w \in Seq(Packet)
    BY <2>1, RemoveAtLen
  <2> QED
    BY <2>1, <2>2
<1> HIDE DEF w
<1>3. /\ wire'[h] = w /\ wire'[Peer(h)] = wire[Peer(h)] /\ rxq'[Peer(h)] = rxq[Peer(h)]
      /\ rxq'[h] = Append(rxq[h], m) \/ rxq'[h] = rxq[h]
  BY <1>1, PeerOfPeer, PeerInHost DEF TypeOK, QueueTypes
<1>4. PeerKept(h) /\ SentKept(h)
  BY <1>1, <1>3, Zenon DEF PeerKept, SentKept, ComingKept
<1>5. ASSUME NEW kind \in Asked PROVE Coming(h, kind)' <= Coming(h, kind)
  <2> DEFINE a == CountKind(wire[h], kind)  b == CountKind(rxq[h], kind)
             c == CountKind(inRing[h], kind)  d == CountKind(Unhandled(h), kind)
             a1 == CountKind(w, kind)  b1 == CountKind(rxq'[h], kind)  y == One(m, kind)
  <2>1. a = y + a1
    BY <1>2, CountRemoveAt DEF w
  <2>2. b1 = b + y \/ b1 = b
    <3>1. CountKind(Append(rxq[h], m), kind) = b + y
      BY <1>2, CountAppend
    <3> QED
      BY <1>3, <3>1, Zenon
  <2>3. Coming(h, kind) = a + b + c + d /\ Coming(h, kind)' = a1 + b1 + c + d
    BY <1>1, <1>3, Zenon DEF Coming, Unhandled
  <2>4. a1 \in Nat /\ b \in Nat /\ c \in Nat /\ d \in Nat /\ y \in Nat
    BY <1>2, Counts, CountNat DEF One
  <2> HIDE DEF a, b, c, d, a1, b1, y
  <2>5. a1 + b1 + c + d <= a + b + c + d
    BY <2>1, <2>2, <2>4
  <2> QED
    BY <2>3, <2>5, Zenon
<1> QED
  BY <1>1, <1>4, <1>5, NothingNew

(* A packet is lost.                                                       *)
LEMMA NetLoseEffect ==
  ASSUME TypeOK, TypeOK', NEW h \in Host, NEW k \in 1 .. Len(wire[h]), NetLose(h, k)
  PROVE  Effect(h, None, None) /\ UNCHANGED <<encoded, repaths, acks>>
<1> DEFINE m == wire[h][k]
           w == RemoveAt(wire[h], k)
<1>1. /\ wire' = [wire EXCEPT ![h] = w]
      /\ UNCHANGED <<rxq, inRing, outRing, txHand, txq, encoded, burst, handled,
                     repaths, acks>>
  BY DEF NetLose, nicVars, mainVars, probeVars, statsVars
<1>2. wire[h] \in Seq(Packet) /\ w \in Seq(Packet)
  BY Queues, RemoveAtLen
<1> HIDE DEF w
<1>3. wire'[h] = w /\ wire'[Peer(h)] = wire[Peer(h)]
  BY <1>1, PeerOfPeer, PeerInHost DEF TypeOK, QueueTypes
<1>4. PeerKept(h) /\ SentKept(h)
  BY <1>1, <1>3, Zenon DEF PeerKept, SentKept, ComingKept
<1>5. ASSUME NEW kind \in Asked PROVE Coming(h, kind)' <= Coming(h, kind)
  <2> DEFINE a == CountKind(wire[h], kind)  b == CountKind(rxq[h], kind)
             c == CountKind(inRing[h], kind)  d == CountKind(Unhandled(h), kind)
             a1 == CountKind(w, kind)  y == One(m, kind)
  <2>1. a = y + a1
    BY <1>2, CountRemoveAt DEF w
  <2>2. Coming(h, kind) = a + b + c + d /\ Coming(h, kind)' = a1 + b + c + d
    BY <1>1, <1>3, Zenon DEF Coming, Unhandled
  <2>3. a1 \in Nat /\ b \in Nat /\ c \in Nat /\ d \in Nat /\ y \in Nat
    BY <1>2, Counts, CountNat DEF One
  <2> HIDE DEF a, b, c, d, a1, y
  <2>4. a1 + b + c + d <= a + b + c + d
    BY <2>1, <2>3
  <2> QED
    BY <2>2, <2>4, Zenon
<1> QED
  BY <1>1, <1>4, <1>5, NothingNew

(* A transmitted packet changes sides, and no more are under way.          *)
LEMMA NicTransmitEffect ==
  ASSUME TypeOK, TypeOK', NEW h \in Host, NicTransmit(h)
  PROVE  /\ \A g \in Host : \A kind \in Asked : UnderWay(g, kind)' = UnderWay(g, kind)
         /\ UNCHANGED <<encoded, repaths, acks>>
<1> DEFINE m == Head(txq[h])
           p == Peer(h)
<1>1. /\ wire' = [wire EXCEPT ![p] = Append(wire[p], m)]
      /\ txq' = [txq EXCEPT ![h] = Tail(txq[h])] /\ txq[h] # <<>>
      /\ UNCHANGED <<rxq, inRing, outRing, txHand, encoded, burst, handled, repaths, acks>>
  BY DEF NicTransmit, mainVars, probeVars, statsVars
<1>2. /\ p \in Host /\ p # h /\ Peer(p) = h
      /\ txq[h] \in Seq(Packet) /\ wire[p] \in Seq(Packet) /\ m \in Packet
      /\ Tail(txq[h]) \in Seq(Packet)
  <2>1. txq[h] \in Seq(Packet) /\ p \in Host /\ p # h /\ Peer(p) = h
    BY Queues, PeerInHost, PeerOfPeer
  <2> QED
    BY <1>1, <2>1, Queues, HeadTailProperties
<1> HIDE DEF m, p
<1>3. /\ wire'[p] = Append(wire[p], m) /\ wire'[h] = wire[h]
      /\ txq'[h] = Tail(txq[h]) /\ txq'[p] = txq[p]
  BY <1>1, <1>2 DEF TypeOK, QueueTypes
<1>4. ASSUME NEW kind \in Asked
      PROVE  UnderWay(h, kind)' = UnderWay(h, kind) /\ UnderWay(p, kind)' = UnderWay(p, kind)
  <2>1. SentKept(p) /\ ComingKept(h)
    BY <1>1, <1>3, Zenon DEF SentKept, ComingKept
  <2>2. UnderWay(p, kind)' = UnderWay(p, kind)
    <3>1. Sent(p, kind)' = Sent(p, kind) /\ Coming(h, kind)' = Coming(h, kind)
      BY <2>1, KeptCounts
    <3>2. CountsAdd /\ CountsAdd'
      BY CountsTyped, CountsNext
    <3>3. /\ UnderWay(p, kind) = Sent(p, kind) + Coming(h, kind)
          /\ UnderWay(p, kind)' = Sent(p, kind)' + Coming(h, kind)'
      BY <1>2, <3>2, Zenon DEF CountsAdd
    <3> QED
      BY <3>1, <3>3, Zenon
  <2> DEFINE o == CountKind(outRing[h], kind)  t == CountKind(txHand[h], kind)
             q == CountKind(txq[h], kind)
             w == CountKind(wire[p], kind)  r == CountKind(rxq[p], kind)
             i == CountKind(inRing[p], kind)  u == CountKind(Unhandled(p), kind)
             q1 == CountKind(Tail(txq[h]), kind)
             w1 == CountKind(Append(wire[p], m), kind)  y == One(m, kind)
  <2>3. q = y + q1 /\ w1 = w + y
    BY <1>1, <1>2, CountTail, CountAppend DEF m
  <2>4. /\ UnderWay(h, kind) = o + t + q + w + r + i + u
        /\ UnderWay(h, kind)' = o + t + q1 + w1 + r + i + u
    BY <1>1, <1>3, Zenon DEF UnderWay, Unhandled, p
  <2>5. /\ o \in Nat /\ t \in Nat /\ q1 \in Nat /\ w \in Nat /\ r \in Nat
        /\ i \in Nat /\ u \in Nat /\ y \in Nat
    BY <1>2, Counts, CountNat DEF One
  <2> HIDE DEF o, t, q, w, r, i, u, q1, w1, y
  <2>6. o + t + q1 + w1 + r + i + u = o + t + q + w + r + i + u
    BY <2>3, <2>5
  <2> QED
    BY <2>2, <2>4, <2>6, Zenon
<1> QED
  BY <1>1, <1>4, PeerOfPeer, Zenon DEF p

(* The main lcore.                                                         *)
LEMMA MainRxEffect ==
  ASSUME TypeOK, TypeOK', NEW h \in Host, MainRx(h)
  PROVE  Effect(h, None, None) /\ UNCHANGED <<encoded, repaths, acks>>
<1> DEFINE x == Burst(rxq[h])
           e == AfterBurst(rxq[h])
           n == Enqueue(inRing[h], x)
<1>1. /\ rxq' = [rxq EXCEPT ![h] = e] /\ inRing' = [inRing EXCEPT ![h] = n]
      /\ UNCHANGED <<outRing, txHand, txq, wire, encoded, burst, handled, repaths, acks>>
  BY DEF MainRx, mainVars, probeVars, statsVars, netVars
<1>2. /\ rxq[h] \in Seq(Packet) /\ inRing[h] \in Seq(Packet) /\ Len(inRing[h]) <= RingSize
      /\ x \in Seq(Packet) /\ e \in Seq(Packet)
  <2>1. rxq[h] \in Seq(Packet) /\ inRing[h] \in Seq(Packet) /\ Len(inRing[h]) <= RingSize
    BY Queues DEF TypeOK, Capacities
  <2> QED
    BY <2>1, BurstSplits
<1> HIDE DEF x, e, n
<1>3. /\ rxq'[h] = e /\ rxq'[Peer(h)] = rxq[Peer(h)]
      /\ inRing'[h] = n /\ inRing'[Peer(h)] = inRing[Peer(h)]
  BY <1>1, PeerOfPeer, PeerInHost DEF TypeOK, QueueTypes
<1>4. PeerKept(h) /\ SentKept(h)
  BY <1>1, <1>3, Zenon DEF PeerKept, SentKept, ComingKept
<1>5. ASSUME NEW kind \in Asked PROVE Coming(h, kind)' <= Coming(h, kind)
  <2> DEFINE a == CountKind(wire[h], kind)  b == CountKind(rxq[h], kind)
             c == CountKind(inRing[h], kind)  d == CountKind(Unhandled(h), kind)
             b1 == CountKind(e, kind)  c1 == CountKind(n, kind)  y == CountKind(x, kind)
  <2>1. y + b1 = b
    BY <1>2, CountBurst DEF x, e
  <2>2. c1 \in Nat /\ c1 <= c + y
    BY <1>2, CountEnqueue DEF n
  <2>3. Coming(h, kind) = a + b + c + d /\ Coming(h, kind)' = a + b1 + c1 + d
    BY <1>1, <1>3, Zenon DEF Coming, Unhandled
  <2>4. a \in Nat /\ b1 \in Nat /\ c \in Nat /\ d \in Nat /\ y \in Nat
    BY <1>2, Counts, CountNat
  <2> HIDE DEF a, b, c, d, b1, c1, y
  <2>5. a + b1 + c1 + d <= a + b + c + d
    BY <2>1, <2>2, <2>4
  <2> QED
    BY <2>3, <2>5, Zenon
<1> QED
  BY <1>1, <1>4, <1>5, NothingNew

(* From the out ring to send_mbuf.                                         *)
LEMMA MainTxDequeueEffect ==
  ASSUME TypeOK, TypeOK', NEW h \in Host, MainTxDequeue(h)
  PROVE  Effect(h, None, None) /\ UNCHANGED <<encoded, repaths, acks>>
<1> DEFINE x == Burst(outRing[h])
           e == AfterBurst(outRing[h])
<1>1. /\ txHand' = [txHand EXCEPT ![h] = x] /\ outRing' = [outRing EXCEPT ![h] = e]
      /\ txHand[h] = <<>>
      /\ UNCHANGED <<rxq, inRing, txq, wire, encoded, burst, handled, repaths, acks>>
  BY DEF MainTxDequeue, nicVars, probeVars, statsVars, netVars
<1>2. outRing[h] \in Seq(Packet) /\ x \in Seq(Packet) /\ e \in Seq(Packet)
  BY Queues, BurstSplits
<1> HIDE DEF x, e
<1>3. /\ txHand'[h] = x /\ txHand'[Peer(h)] = txHand[Peer(h)]
      /\ outRing'[h] = e /\ outRing'[Peer(h)] = outRing[Peer(h)]
  BY <1>1, PeerOfPeer, PeerInHost DEF TypeOK, QueueTypes
<1>4. PeerKept(h) /\ ComingKept(h)
  BY <1>1, <1>3, Zenon DEF PeerKept, SentKept, ComingKept
<1>5. ASSUME NEW kind \in Asked PROVE Sent(h, kind)' <= Sent(h, kind)
  <2> DEFINE o == CountKind(outRing[h], kind)  t == CountKind(txHand[h], kind)
             q == CountKind(txq[h], kind)
             o1 == CountKind(e, kind)  t1 == CountKind(x, kind)
  <2>1. t1 + o1 = o
    BY <1>2, CountBurst DEF x, e
  <2>2. Sent(h, kind) = o + t + q /\ Sent(h, kind)' = o1 + t1 + q
    BY <1>1, <1>3, Zenon DEF Sent
  <2>3. o1 \in Nat /\ t1 \in Nat /\ t \in Nat /\ q \in Nat
    BY <1>2, Counts, CountNat
  <2> HIDE DEF o, t, q, o1, t1
  <2>4. o1 + t1 + q <= o + t + q
    BY <2>1, <2>3
  <2> QED
    BY <2>2, <2>4, Zenon
<1> QED
  BY <1>1, <1>4, <1>5, NothingNew

(* From send_mbuf to the descriptors, as many as the NIC takes.            *)
LEMMA MainTxSendEffect ==
  ASSUME TypeOK, TypeOK', NEW h \in Host, MainTxSend(h)
  PROVE  Effect(h, None, None) /\ UNCHANGED <<encoded, repaths, acks>>
<1> DEFINE k == Min({Len(txHand[h]), TxDesc - Len(txq[h])})
           x == SubSeq(txHand[h], 1, k)
           e == SubSeq(txHand[h], k + 1, Len(txHand[h]))
<1>1. /\ txq' = [txq EXCEPT ![h] = txq[h] \o x] /\ txHand' = [txHand EXCEPT ![h] = e]
      /\ k > 0
      /\ UNCHANGED <<rxq, inRing, outRing, wire, encoded, burst, handled, repaths, acks>>
  BY DEF MainTxSend, probeVars, statsVars, netVars
<1>2. /\ txHand[h] \in Seq(Packet) /\ txq[h] \in Seq(Packet)
      /\ Len(txHand[h]) \in Nat /\ Len(txq[h]) \in Nat
  BY Queues, Lengths
<1>3. k \in 0 .. Len(txHand[h])
  <2>1. Len(txHand[h]) \in Int /\ TxDesc - Len(txq[h]) \in Int
    BY <1>2, SizesAssumption
  <2>2. k \in {Len(txHand[h]), TxDesc - Len(txq[h])} /\ k <= Len(txHand[h])
    BY <2>1, MinOfTwo, Zenon
  <2> HIDE DEF k
  <2> QED
    BY <1>1, <1>2, <2>1, <2>2
<1> HIDE DEF k
<1>4. x \in Seq(Packet) /\ e \in Seq(Packet)
  BY <1>2, <1>3, PrefixSplits
<1>5. /\ txHand'[h] = e /\ txHand'[Peer(h)] = txHand[Peer(h)]
      /\ txq'[h] = txq[h] \o x /\ txq'[Peer(h)] = txq[Peer(h)]
  <2> HIDE DEF x, e
  <2> QED
    BY <1>1, PeerOfPeer, PeerInHost DEF TypeOK, QueueTypes
<1>6. PeerKept(h) /\ ComingKept(h)
  BY <1>1, <1>5, Zenon DEF PeerKept, SentKept, ComingKept
<1>7. ASSUME NEW kind \in Asked PROVE Sent(h, kind)' <= Sent(h, kind)
  <2> DEFINE o == CountKind(outRing[h], kind)  t == CountKind(txHand[h], kind)
             q == CountKind(txq[h], kind)
             t1 == CountKind(e, kind)  q1 == CountKind(txq[h] \o x, kind)
             y == CountKind(x, kind)
  <2>1. y + t1 = t
    BY <1>2, <1>3, CountParts
  <2>2. q1 = q + y
    BY <1>2, <1>4, CountConcat
  <2>3. Sent(h, kind) = o + t + q /\ Sent(h, kind)' = o + t1 + q1
    BY <1>1, <1>5, Zenon DEF Sent
  <2>4. o \in Nat /\ t1 \in Nat /\ q \in Nat /\ y \in Nat
    BY <1>2, <1>4, Counts, CountNat
  <2> HIDE DEF o, t, q, t1, q1, y
  <2>5. o + t1 + q1 <= o + t + q
    BY <2>1, <2>2, <2>4
  <2> QED
    BY <2>3, <2>5, Zenon
<1> QED
  BY <1>1, <1>6, <1>7, NothingNew

(* Ends of the process, the timer, and a probe that is encoded.            *)
LEMMA StillEffect ==
  ASSUME TypeOK, TypeOK', NEW h \in Host,
         UNCHANGED <<rxq, inRing, outRing, txHand, txq, wire, burst, handled>>
  PROVE  Effect(h, None, None)
<1>1. PeerKept(h) /\ SentKept(h) /\ ComingKept(h)
  BY Zenon DEF PeerKept, SentKept, ComingKept
<1> QED
  BY <1>1, NothingNew

(* The end of a process moves no packet.                                   *)
LEMMA EndEffect ==
  ASSUME TypeOK, TypeOK', NEW h \in Host, Exit(h) \/ HandleTsTrap(h)
  PROVE  Effect(h, None, None) /\ UNCHANGED <<encoded, repaths, acks>>
<1>1. UNCHANGED <<rxq, inRing, outRing, txHand, txq, wire, burst, handled, encoded,
                  repaths, acks>>
  BY DEF Exit, HandleTsTrap, nicVars, mainVars, probeVars, statsVars, netVars
<1> QED
  BY <1>1, StillEffect

(* Nor does timer_cb.                                                      *)
LEMMA TimerCbEffect ==
  ASSUME TypeOK, TypeOK', NEW h \in Host, TimerCb(h)
  PROVE  Effect(h, None, None) /\ UNCHANGED <<encoded, repaths, acks>>
<1>1. UNCHANGED <<rxq, inRing, outRing, txHand, txq, wire, burst, handled, encoded,
                  repaths, acks>>
  BY DEF TimerCb, nicVars, mainVars, probeVars, netVars
<1> QED
  BY <1>1, StillEffect

(* The worker of a sender.                                                 *)
LEMMA ProbeEncodeEffect ==
  ASSUME TypeOK, TypeOK', NoneEncoded, NEW h \in Host, ProbeEncode(h)
  PROVE  Effect(h, None, None) /\ NoneEncoded' /\ UNCHANGED <<repaths, acks>>
<1>1. CASE free[h] = 0
  <2>1. Exit(h)
    BY <1>1 DEF ProbeEncode
  <2>2. Effect(h, None, None) /\ UNCHANGED <<encoded, repaths, acks>>
    BY <2>1, EndEffect
  <2> QED
    BY <2>2 DEF NoneEncoded
<1>2. CASE free[h] # 0
  <2> DEFINE m == Pkt("PROBE", ProbePort(Len(encoded[h]) + 1))
  <2>1. /\ encoded' = [encoded EXCEPT ![h] = Append(encoded[h], m)]
        /\ Len(encoded[h]) < PATH_NB
        /\ UNCHANGED <<rxq, inRing, outRing, txHand, txq, wire, burst, handled, repaths, acks>>
    BY <1>2 DEF ProbeEncode, nicVars, mainVars, statsVars, netVars
  <2>2. Effect(h, None, None)
    BY <2>1, StillEffect
  <2>3. m \in Packet /\ m.kind = "PROBE" /\ encoded[h] \in Seq(Packet)
    <3>1. encoded[h] \in Seq(Packet) /\ Len(encoded[h]) \in Nat
      BY Queues, Lengths
    <3>2. Len(encoded[h]) + 1 \in 1 .. PATH_NB
      BY <2>1, <3>1, PathPortsAssumption
    <3> QED
      BY <3>1, <3>2, PacketTypes DEF Pkt
  <2> HIDE DEF m
  <2>4. ASSUME NEW g \in Host, NEW kind \in Asked PROVE CountKind(encoded'[g], kind) = 0
    <3>1. CASE g = h
      <4>1. encoded'[g] = Append(encoded[h], m)
        BY <2>1, <3>1 DEF TypeOK, QueueTypes
      <4>2. CountKind(Append(encoded[h], m), kind) = CountKind(encoded[h], kind) + One(m, kind)
        BY <2>3, CountAppend
      <4>3. CountKind(encoded[h], kind) = 0 /\ One(m, kind) = 0
        BY <2>3 DEF NoneEncoded, One, Asked
      <4> QED
        BY <4>1, <4>2, <4>3
    <3>2. CASE g # h
      <4>1. encoded'[g] = encoded[g]
        BY <2>1, <3>2 DEF TypeOK, QueueTypes
      <4> QED
        BY <4>1, Zenon DEF NoneEncoded
    <3> QED
      BY <3>1, <3>2
  <2> QED
    BY <2>1, <2>2, <2>4, Zenon DEF NoneEncoded
<1> QED
  BY <1>1, <1>2

(* A round of probes in the out ring adds nothing that asks.               *)
LEMMA ProbeEnqueueEffect ==
  ASSUME TypeOK, TypeOK', NoneEncoded, NEW h \in Host, ProbeEnqueue(h)
  PROVE  Effect(h, None, None) /\ NoneEncoded' /\ UNCHANGED <<repaths, acks>>
<1> DEFINE n == Enqueue(outRing[h], encoded[h])
<1>1. /\ outRing' = [outRing EXCEPT ![h] = n] /\ encoded' = [encoded EXCEPT ![h] = <<>>]
      /\ UNCHANGED <<rxq, inRing, txHand, txq, wire, burst, handled, repaths, acks>>
  BY DEF ProbeEnqueue, nicVars, mainVars, statsVars, netVars
<1> HIDE DEF n
<1>2. /\ outRing'[h] = n /\ outRing'[Peer(h)] = outRing[Peer(h)]
      /\ \A g \in Host : encoded'[g] = encoded[g] \/ encoded'[g] = <<>>
  BY <1>1, PeerOfPeer, PeerInHost DEF TypeOK, QueueTypes
<1>3. PeerKept(h) /\ ComingKept(h)
  BY <1>1, <1>2, Zenon DEF PeerKept, SentKept, ComingKept
<1>4. ASSUME NEW kind \in Asked PROVE Sent(h, kind)' <= Sent(h, kind)
  <2>1. encoded[h] \in Seq(Packet)
    BY Queues
  <2>2. Sent(h, kind)' <= Sent(h, kind) + CountKind(encoded[h], kind)
    BY <1>1, <1>2, <2>1, OutRingTakes DEF n
  <2>3. CountKind(encoded[h], kind) = 0
    BY Zenon DEF NoneEncoded
  <2>4. Sent(h, kind) \in Nat
    BY CountsTyped DEF CountsAdd
  <2> DEFINE a == Sent(h, kind)  a1 == Sent(h, kind)'
  <2>5. a1 <= a + 0 /\ a \in Nat
    BY <2>2, <2>3, <2>4, Zenon
  <2> HIDE DEF a, a1
  <2>6. a1 <= a
    BY <2>5
  <2> QED
    BY <2>6 DEF a, a1
<1>5. NoneEncoded'
  BY <1>2, CountEmpty, Zenon DEF NoneEncoded
<1> QED
  BY <1>1, <1>3, <1>4, <1>5, NothingNew

(* The worker of a receiver.                                               *)
LEMMA StatsDequeueEffect ==
  ASSUME TypeOK, TypeOK', NEW h \in Host, StatsDequeue(h)
  PROVE  Effect(h, None, None) /\ UNCHANGED <<encoded, repaths, acks>>
<1> DEFINE x == Burst(inRing[h])
           e == AfterBurst(inRing[h])
<1>1. /\ burst' = [burst EXCEPT ![h] = x] /\ inRing' = [inRing EXCEPT ![h] = e]
      /\ burst[h] = <<>>
      /\ UNCHANGED <<rxq, outRing, txHand, txq, wire, encoded, handled, repaths, acks>>
  BY DEF StatsDequeue, nicVars, mainVars, probeVars, netVars
<1>2. inRing[h] \in Seq(Packet) /\ x \in Seq(Packet) /\ e \in Seq(Packet)
  BY Queues, BurstSplits
<1> HIDE DEF x, e
<1>3. /\ burst'[h] = x /\ burst'[Peer(h)] = burst[Peer(h)]
      /\ inRing'[h] = e /\ inRing'[Peer(h)] = inRing[Peer(h)]
  BY <1>1, PeerOfPeer, PeerInHost DEF TypeOK, QueueTypes
<1>4. PeerKept(h) /\ SentKept(h)
  BY <1>1, <1>3, Zenon DEF PeerKept, SentKept, ComingKept
<1>5. handled[h] = 0
  <2>1. handled[h] \in Nat /\ handled[h] <= Len(<<>>)
    BY <1>1, UnhandledQueue
  <2> QED
    BY <2>1
<1>6. Unhandled(h)' = x
  <2>1. Unhandled(h)' = SubSeq(burst'[h], handled'[h] + 1, Len(burst'[h]))
    BY Zenon DEF Unhandled
  <2>2. burst'[h] = x /\ handled'[h] + 1 = 1
    BY <1>1, <1>3, <1>5
  <2> QED
    BY <1>2, <2>1, <2>2, SubSeqFull
<1>7. ASSUME NEW kind \in Asked PROVE Coming(h, kind)' <= Coming(h, kind)
  <2> DEFINE a == CountKind(wire[h], kind)  b == CountKind(rxq[h], kind)
             c == CountKind(inRing[h], kind)  d == CountKind(Unhandled(h), kind)
             c1 == CountKind(e, kind)  y == CountKind(x, kind)
  <2>1. y + c1 = c
    BY <1>2, CountBurst DEF x, e
  <2>2. Coming(h, kind) = a + b + c + d /\ Coming(h, kind)' = a + b + c1 + y
    BY <1>1, <1>3, <1>6, Zenon DEF Coming
  <2>3. a \in Nat /\ b \in Nat /\ c1 \in Nat /\ d \in Nat /\ y \in Nat
    BY <1>2, Counts, CountNat
  <2> HIDE DEF a, b, c, d, c1, y
  <2>4. a + b + c1 + y <= a + b + c + d
    BY <2>1, <2>3
  <2> QED
    BY <2>2, <2>4, Zenon
<1> QED
  BY <1>1, <1>4, <1>7, NothingNew

(* The burst is freed when all of it has been dispatched.                  *)
LEMMA StatsFreeEffect ==
  ASSUME TypeOK, TypeOK', NEW h \in Host, StatsFree(h)
  PROVE  Effect(h, None, None) /\ UNCHANGED <<encoded, repaths, acks>>
<1>1. /\ burst' = [burst EXCEPT ![h] = <<>>] /\ handled' = [handled EXCEPT ![h] = 0]
      /\ UNCHANGED <<rxq, inRing, outRing, txHand, txq, wire, encoded, repaths, acks>>
  BY DEF StatsFree, nicVars, mainVars, probeVars, netVars
<1>2. /\ burst'[h] = <<>> /\ burst'[Peer(h)] = burst[Peer(h)]
      /\ handled'[h] = 0 /\ handled'[Peer(h)] = handled[Peer(h)]
  BY <1>1, PeerOfPeer, PeerInHost DEF TypeOK, QueueTypes, ScalarTypes
<1>3. PeerKept(h) /\ SentKept(h)
  BY <1>1, <1>2, Zenon DEF PeerKept, SentKept, ComingKept
<1>4. Unhandled(h)' = <<>>
  <2>1. Unhandled(h)' = SubSeq(burst'[h], handled'[h] + 1, Len(burst'[h]))
    BY Zenon DEF Unhandled
  <2>2. Len(<<>>) = 0 /\ 0 + 1 = 1 /\ 1 \in Int /\ 0 \in Int /\ 0 < 1
    OBVIOUS
  <2>3. SubSeq(<<>>, 1, 0) = <<>>
    BY <2>2, SubSeqEmpty
  <2> QED
    BY <1>2, <2>1, <2>2, <2>3, Zenon
<1>5. ASSUME NEW kind \in Asked PROVE Coming(h, kind)' <= Coming(h, kind)
  <2> DEFINE a == CountKind(wire[h], kind)  b == CountKind(rxq[h], kind)
             c == CountKind(inRing[h], kind)  d == CountKind(Unhandled(h), kind)
  <2>1. Coming(h, kind) = a + b + c + d /\ Coming(h, kind)' = a + b + c + 0
    BY <1>1, <1>4, CountEmpty, Zenon DEF Coming
  <2>2. a \in Nat /\ b \in Nat /\ c \in Nat /\ d \in Nat
    BY Counts
  <2> HIDE DEF a, b, c, d
  <2>3. a + b + c + 0 <= a + b + c + d
    BY <2>2
  <2> QED
    BY <2>1, <2>3, Zenon
<1> QED
  BY <1>1, <1>3, <1>5, NothingNew

(* A handler takes the packet it is called for, and makes those it puts    *)
(* into the out ring.                                                      *)
Takes(h) == [kind \in Asked |-> One(Current(h), kind)]
Makes(s) == [kind \in Asked |-> CountKind(s, kind)]

(* One handled packet, and what was made for it.                           *)
LEMMA HandlerEffect ==
  ASSUME TypeOK, NEW h \in Host, NEW s \in Seq(Packet),
         handled[h] < Len(burst[h]),
         handled' = [handled EXCEPT ![h] = handled[h] + 1],
         UNCHANGED <<rxq, inRing, txHand, txq, wire, burst>>,
         \/ outRing' = [outRing EXCEPT ![h] = Enqueue(outRing[h], s)]
         \/ outRing' = outRing /\ s = <<>>
  PROVE  Effect(h, Takes(h), Makes(s))
<1>1. /\ handled'[h] = handled[h] + 1 /\ handled'[Peer(h)] = handled[Peer(h)]
      /\ \/ outRing'[h] = Enqueue(outRing[h], s)
         \/ outRing'[h] = outRing[h] /\ s = <<>>
      /\ outRing'[Peer(h)] = outRing[Peer(h)]
  BY PeerOfPeer, PeerInHost DEF TypeOK, ScalarTypes, QueueTypes
<1>2. PeerKept(h)
  BY <1>1, Zenon DEF PeerKept, SentKept, ComingKept
<1> SUFFICES ASSUME NEW kind \in Asked
             PROVE  /\ Coming(h, kind)' + One(Current(h), kind) <= Coming(h, kind)
                    /\ Sent(h, kind)' <= Sent(h, kind) + CountKind(s, kind)
                    /\ Coming(Peer(h), kind)' = Coming(Peer(h), kind)
                    /\ Sent(Peer(h), kind)' = Sent(Peer(h), kind)
  BY Zenon DEF Effect, Takes, Makes
<1>3. /\ Coming(Peer(h), kind)' = Coming(Peer(h), kind)
      /\ Sent(Peer(h), kind)' = Sent(Peer(h), kind)
  BY <1>2, KeptCounts, Zenon DEF PeerKept
<1>4. Sent(h, kind) \in Nat /\ Coming(h, kind) \in Nat
  BY CountsTyped DEF CountsAdd
<1>5. Coming(h, kind)' + One(Current(h), kind) <= Coming(h, kind)
  <2>1. Coming(h, kind)' + One(Current(h), kind) = Coming(h, kind)
    BY <1>1, DispatchCounts
  <2> DEFINE a == Coming(h, kind)
  <2>2. a \in Nat
    BY <1>4
  <2> HIDE DEF a
  <2>3. a <= a
    BY <2>2
  <2> QED
    BY <2>1, <2>3, Zenon DEF a
<1>6. Sent(h, kind)' <= Sent(h, kind) + CountKind(s, kind)
  <2>1. CASE outRing'[h] = Enqueue(outRing[h], s)
    BY <2>1, OutRingTakes
  <2>2. CASE outRing'[h] = outRing[h] /\ s = <<>>
    <3>1. Sent(h, kind)' = Sent(h, kind)
      BY <2>2, Zenon DEF Sent
    <3>2. CountKind(s, kind) = 0
      BY <2>2, CountEmpty
    <3> DEFINE a == Sent(h, kind)
    <3>3. a \in Nat
      BY <1>4
    <3> HIDE DEF a
    <3>4. a <= a + 0
      BY <3>3
    <3> QED
      BY <3>1, <3>2, <3>4, Zenon DEF a
  <2> QED
    BY <1>1, <2>1, <2>2
<1> QED
  BY <1>3, <1>5, <1>6, Zenon

(* What the handlers take and make.                                        *)
LEMMA TakesOf ==
  ASSUME NEW h \in Host, NEW k, Current(h).kind = k
  PROVE  /\ k \in Asked => Takes(h) = Just(k)
         /\ k \notin Asked => Takes(h) = None
  BY DEF Takes, Just, None, One

(* Nothing made, and one packet made.                                      *)
LEMMA Made ==
  /\ Makes(<<>>) = None
  /\ \A m \in Packet : m.kind \in Asked => Makes(<<m>>) = Just(m.kind)
<1>1. Makes(<<>>) = None
  BY CountEmpty DEF Makes, None
<1>2. ASSUME NEW m \in Packet PROVE Makes(<<m>>) = Just(m.kind)
  <2>1. \A kind \in Asked : CountKind(<<m>>, kind) = One(m, kind)
    BY CountOne
  <2>2. \A kind \in Asked : One(m, kind) = IF kind = m.kind THEN 1 ELSE 0
    BY DEF One
  <2> QED
    BY <2>1, <2>2, Zenon DEF Makes, Just
<1> QED
  BY <1>1, <1>2

(* Handlers that answer nothing.                                           *)
LEMMA SilentEffect ==
  ASSUME TypeOK, NEW h \in Host, HandleProbe(h) \/ HandleTsStay(h) \/ HandleOther(h)
  PROVE  Effect(h, None, None) /\ UNCHANGED <<encoded, repaths, acks>>
<1>1. /\ handled[h] < Len(burst[h])
      /\ handled' = [handled EXCEPT ![h] = handled[h] + 1]
      /\ Current(h).kind \in {"PROBE", "TS", "OTHER"}
      /\ UNCHANGED <<rxq, inRing, txHand, txq, wire, burst, outRing, encoded, repaths, acks>>
  BY DEF HandleProbe, HandleTsStay, HandleOther, Dispatch, mainVars, probeVars, netVars
<1>2. Takes(h) = None
  BY <1>1, TakesOf DEF Asked
<1>3. Effect(h, Takes(h), Makes(<<>>))
  <2>1. <<>> \in Seq(Packet)
    OBVIOUS
  <2> QED
    BY <1>1, <2>1, HandlerEffect
<1> QED
  BY <1>1, <1>2, <1>3, Made

(* A REPATH is taken, and at most its acknowledgement made.                *)
LEMMA HandleRepathEffect ==
  ASSUME TypeOK, NEW h \in Host, HandleRepath(h)
  PROVE  Effect(h, Just("REPATH"), Just("REPATH_ACK")) /\ UNCHANGED <<encoded, repaths, acks>>
<1> DEFINE m == RepathAckPkt(h)
<1>1. /\ handled[h] < Len(burst[h])
      /\ handled' = [handled EXCEPT ![h] = handled[h] + 1]
      /\ outRing' = [outRing EXCEPT ![h] = Enqueue(outRing[h], <<m>>)]
      /\ Current(h).kind = "REPATH"
      /\ UNCHANGED <<rxq, inRing, txHand, txq, wire, burst, encoded, repaths, acks>>
  BY DEF HandleRepath, Reply, Dispatch, mainVars, probeVars, netVars
<1>2. m \in Packet /\ m.kind = "REPATH_ACK"
  BY PacketTypes DEF TypeOK, ScalarTypes, RepathAckPkt, Pkt
<1> HIDE DEF m
<1>3. Effect(h, Takes(h), Makes(<<m>>))
  <2>1. <<m>> \in Seq(Packet)
    BY <1>2
  <2> QED
    BY <1>1, <2>1, HandlerEffect
<1>4. Takes(h) = Just("REPATH") /\ Makes(<<m>>) = Just("REPATH_ACK")
  BY <1>1, <1>2, TakesOf, Made DEF Asked
<1> QED
  BY <1>1, <1>3, <1>4

(* An acknowledgement is taken, and counted.                               *)
LEMMA HandleRepathAckEffect ==
  ASSUME TypeOK, NEW h \in Host, HandleRepathAck(h)
  PROVE  /\ Effect(h, Just("REPATH_ACK"), None) /\ UNCHANGED <<encoded, repaths>>
         /\ acks' = [acks EXCEPT ![h] = acks[h] + 1]
<1>1. /\ handled[h] < Len(burst[h])
      /\ handled' = [handled EXCEPT ![h] = handled[h] + 1]
      /\ acks' = [acks EXCEPT ![h] = acks[h] + 1]
      /\ Current(h).kind = "REPATH_ACK"
      /\ UNCHANGED <<rxq, inRing, txHand, txq, wire, burst, outRing, encoded, repaths>>
  BY DEF HandleRepathAck, Dispatch, mainVars, probeVars, netVars
<1>2. Effect(h, Takes(h), Makes(<<>>))
  <2>1. <<>> \in Seq(Packet)
    OBVIOUS
  <2> QED
    BY <1>1, <2>1, HandlerEffect
<1>3. Takes(h) = Just("REPATH_ACK")
  BY <1>1, TakesOf DEF Asked
<1> QED
  BY <1>1, <1>2, <1>3, Made

(* A REPATH is made, and counted, even if the ring had no room.            *)
LEMMA HandleTsRepathEffect ==
  ASSUME TypeOK, NEW h \in Host, HandleTsRepath(h)
  PROVE  /\ Effect(h, None, Just("REPATH")) /\ UNCHANGED <<encoded, acks>>
         /\ repaths' = [repaths EXCEPT ![h] = repaths[h] + 1]
<1> DEFINE m == RepathPkt(h)
<1>1. /\ handled[h] < Len(burst[h])
      /\ handled' = [handled EXCEPT ![h] = handled[h] + 1]
      /\ outRing' = [outRing EXCEPT ![h] = Enqueue(outRing[h], <<m>>)]
      /\ repaths' = [repaths EXCEPT ![h] = repaths[h] + 1]
      /\ Current(h).kind = "TS"
      /\ UNCHANGED <<rxq, inRing, txHand, txq, wire, burst, encoded, acks>>
  BY DEF HandleTsRepath, Reply, Dispatch, mainVars, probeVars, netVars
<1>2. m \in Packet /\ m.kind = "REPATH"
  BY PacketTypes DEF TypeOK, ScalarTypes, RepathPkt
<1> HIDE DEF m
<1>3. Effect(h, Takes(h), Makes(<<m>>))
  <2>1. <<m>> \in Seq(Packet)
    BY <1>2
  <2> QED
    BY <1>1, <2>1, HandlerEffect
<1>4. Takes(h) = None /\ Makes(<<m>>) = Just("REPATH")
  BY <1>1, <1>2, TakesOf, Made DEF Asked
<1> QED
  BY <1>1, <1>3, <1>4

(* The balance of requests and answers.                                    *)
(* The balance is kept by a step of host h which makes no acknowledgement  *)
(* without taking a REPATH, and which counts what it makes and takes.      *)
LEMMA Balanced ==
  ASSUME TypeOK, TypeOK', AcksAnswerRepaths, NEW h \in Host,
         NEW taken \in [Asked -> {0, 1}], NEW made \in [Asked -> {0, 1}],
         Effect(h, taken, made),
         made["REPATH_ACK"] <= taken["REPATH"],
         acks'[h] + made["REPATH"] + repaths[h] <= acks[h] + taken["REPATH_ACK"] + repaths'[h],
         acks'[Peer(h)] = acks[Peer(h)], repaths'[Peer(h)] = repaths[Peer(h)]
  PROVE  AcksAnswerRepaths'
<1> DEFINE g == Peer(h)
<1>1. g \in Host /\ Peer(g) = h /\ \A x \in Host : x = h \/ x = g
  BY PeerInHost, PeerOfPeer
<1>2. CountsAdd /\ CountsAdd'
  BY CountsTyped, CountsNext
<1>3. /\ acks[h] \in Nat /\ repaths[h] \in Nat /\ acks'[h] \in Nat /\ repaths'[h] \in Nat
      /\ acks[g] \in Nat /\ repaths[g] \in Nat
  BY <1>1 DEF TypeOK, ScalarTypes
<1>4. "REPATH" \in Asked /\ "REPATH_ACK" \in Asked
  BY DEF Asked
<1> HIDE DEF g
<1>5. ASSUME NEW kind \in Asked
      PROVE  /\ UnderWay(h, kind) \in Nat /\ UnderWay(g, kind) \in Nat
             /\ UnderWay(h, kind)' \in Nat /\ UnderWay(g, kind)' \in Nat
             /\ UnderWay(h, kind)' <= UnderWay(h, kind) + made[kind]
             /\ UnderWay(g, kind)' + taken[kind] <= UnderWay(g, kind)
  <2> DEFINE a == Sent(h, kind)  a1 == Sent(h, kind)'
             b == Coming(h, kind)  b1 == Coming(h, kind)'
             c == Sent(g, kind)  c1 == Sent(g, kind)'
             d == Coming(g, kind)  d1 == Coming(g, kind)'
             i == made[kind]  o == taken[kind]
  <2>1. /\ a \in Nat /\ b \in Nat /\ c \in Nat /\ d \in Nat
        /\ a1 \in Nat /\ b1 \in Nat /\ c1 \in Nat /\ d1 \in Nat
    BY <1>1, <1>2, Zenon DEF CountsAdd
  <2>2. i \in Nat /\ o \in Nat
    BY SMT
  <2>3. b1 + o <= b /\ a1 <= a + i /\ d1 = d /\ c1 = c
    BY Zenon DEF Effect, g
  <2>4. /\ UnderWay(h, kind) = a + d /\ UnderWay(h, kind)' = a1 + d1
        /\ UnderWay(g, kind) = c + b /\ UnderWay(g, kind)' = c1 + b1
    BY <1>1, <1>2, Zenon DEF CountsAdd, g
  <2> HIDE DEF a, a1, b, b1, c, c1, d, d1, i, o
  <2>5. /\ a + d \in Nat /\ c + b \in Nat /\ a1 + d1 \in Nat /\ c1 + b1 \in Nat
        /\ a1 + d1 <= a + d + i /\ c1 + b1 + o <= c + b
    BY <2>1, <2>2, <2>3
  <2> QED
    BY <2>4, <2>5, Zenon DEF i, o
<1>6. acks'[h] + UnderWay(g, "REPATH_ACK")' + UnderWay(h, "REPATH")' <= repaths'[h]
  <2> DEFINE a == acks[h]  a1 == acks'[h]  r == repaths[h]  r1 == repaths'[h]
             x == UnderWay(g, "REPATH_ACK")  x1 == UnderWay(g, "REPATH_ACK")'
             y == UnderWay(h, "REPATH")  y1 == UnderWay(h, "REPATH")'
             i == made["REPATH"]  o == taken["REPATH_ACK"]
  <2>1. a + x + y <= r
    BY Zenon DEF AcksAnswerRepaths, g
  <2>2. /\ x \in Nat /\ x1 \in Nat /\ y \in Nat /\ y1 \in Nat
        /\ y1 <= y + i /\ x1 + o <= x
    BY <1>4, <1>5
  <2>3. i \in Nat /\ o \in Nat
    BY <1>4, SMT
  <2>4. a1 + i + r <= a + o + r1
    OBVIOUS
  <2> HIDE DEF a, a1, r, r1, x, x1, y, y1, i, o
  <2>5. a \in Nat /\ a1 \in Nat /\ r \in Nat /\ r1 \in Nat
    BY <1>3 DEF a, a1, r, r1
  <2>6. a1 + x1 + y1 <= r1
    BY <2>1, <2>2, <2>3, <2>4, <2>5
  <2> QED
    BY <2>6 DEF a1, x1, y1, r1
<1>7. acks'[g] + UnderWay(h, "REPATH_ACK")' + UnderWay(g, "REPATH")' <= repaths'[g]
  <2> DEFINE a == acks[g]  r == repaths[g]
             x == UnderWay(h, "REPATH_ACK")  x1 == UnderWay(h, "REPATH_ACK")'
             y == UnderWay(g, "REPATH")  y1 == UnderWay(g, "REPATH")'
             i == made["REPATH_ACK"]  o == taken["REPATH"]
  <2>1. a + x + y <= r
    BY <1>1, Zenon DEF AcksAnswerRepaths
  <2>2. /\ x \in Nat /\ x1 \in Nat /\ y \in Nat /\ y1 \in Nat
        /\ x1 <= x + i /\ y1 + o <= y
    BY <1>4, <1>5
  <2>3. i \in Nat /\ o \in Nat
    BY <1>4, SMT
  <2>4. i <= o
    OBVIOUS
  <2> HIDE DEF a, r, x, x1, y, y1, i, o
  <2>5. a \in Nat /\ r \in Nat
    BY <1>3 DEF a, r
  <2>6. a + x1 + y1 <= r
    BY <2>1, <2>2, <2>3, <2>4, <2>5
  <2>7. acks'[g] = a /\ repaths'[g] = r
    BY DEF a, r, g
  <2> QED
    BY <2>6, <2>7, Zenon DEF x1, y1
<1> QED
  BY <1>1, <1>6, <1>7, Zenon DEF AcksAnswerRepaths, g

(* In particular by a step that makes and takes nothing.                   *)
LEMMA QuietBalanced ==
  ASSUME TypeOK, TypeOK', AcksAnswerRepaths, NEW h \in Host,
         Effect(h, None, None), UNCHANGED <<repaths, acks>>
  PROVE  AcksAnswerRepaths'
<1>1. None \in [Asked -> {0, 1}] /\ None["REPATH"] = 0 /\ None["REPATH_ACK"] = 0
  BY DEF None, Asked
<1>2. acks[h] \in Nat /\ repaths[h] \in Nat
  BY DEF TypeOK, ScalarTypes
<1>3. /\ None["REPATH_ACK"] <= None["REPATH"]
      /\ acks'[h] + None["REPATH"] + repaths[h] <= acks[h] + None["REPATH_ACK"] + repaths'[h]
  BY <1>1, <1>2
<1> QED
  BY <1>1, <1>3, Balanced

(* The invariant: what is encoded for lcore_probe is needed, since it goes *)
(* into the same out ring.                                                 *)
AnswersInv == NoneEncoded /\ AcksAnswerRepaths

(* No packet is anywhere at first.                                         *)
LEMMA AnswersInit == Init => AnswersInv
<1> SUFFICES ASSUME Init PROVE AnswersInv
  OBVIOUS
<1>1. NoneEncoded
  BY CountEmpty DEF Init, NoneEncoded
<1>2. ASSUME NEW h \in Host, NEW kind \in Asked PROVE UnderWay(h, kind) = 0
  <2>1. Peer(h) \in Host
    BY PeerInHost
  <2>2. Unhandled(Peer(h)) = <<>>
    <3>1. burst[Peer(h)] = <<>> /\ handled[Peer(h)] = 0
      BY <2>1 DEF Init
    <3>2. Len(<<>>) = 0 /\ 0 + 1 = 1 /\ 1 \in Int /\ 0 \in Int /\ 0 < 1
      OBVIOUS
    <3>3. SubSeq(<<>>, 1, 0) = <<>>
      BY <3>2, SubSeqEmpty
    <3> QED
      BY <3>1, <3>2, <3>3, Zenon DEF Unhandled
  <2>3. /\ outRing[h] = <<>> /\ txHand[h] = <<>> /\ txq[h] = <<>> /\ wire[Peer(h)] = <<>>
        /\ rxq[Peer(h)] = <<>> /\ inRing[Peer(h)] = <<>>
    BY <2>1 DEF Init
  <2>4. UnderWay(h, kind) = 0 + 0 + 0 + 0 + 0 + 0 + 0
    BY <2>2, <2>3, CountEmpty, Zenon DEF UnderWay
  <2> QED
    BY <2>4
<1>3. AcksAnswerRepaths
  <2> SUFFICES ASSUME NEW h \in Host
               PROVE  acks[h] + UnderWay(Peer(h), "REPATH_ACK") + UnderWay(h, "REPATH")
                        <= repaths[h]
    BY DEF AcksAnswerRepaths
  <2>1. UnderWay(Peer(h), "REPATH_ACK") = 0 /\ UnderWay(h, "REPATH") = 0
    BY <1>2, PeerInHost DEF Asked
  <2>2. acks[h] = 0 /\ repaths[h] = 0
    BY DEF Init
  <2>3. 0 + 0 + 0 <= 0
    OBVIOUS
  <2> QED
    BY <2>1, <2>2, <2>3, Zenon
<1> QED
  BY <1>1, <1>3 DEF AnswersInv

(* The three handlers that matter.                                         *)
LEMMA HandlersBalanced ==
  ASSUME TypeOK, TypeOK', AcksAnswerRepaths, NEW h \in Host,
         HandleRepath(h) \/ HandleRepathAck(h) \/ HandleTsRepath(h)
  PROVE  AcksAnswerRepaths' /\ UNCHANGED encoded
<1>1. /\ None \in [Asked -> {0, 1}] /\ \A k \in Asked : Just(k) \in [Asked -> {0, 1}]
      /\ None["REPATH"] = 0 /\ None["REPATH_ACK"] = 0
      /\ Just("REPATH")["REPATH"] = 1 /\ Just("REPATH")["REPATH_ACK"] = 0
      /\ Just("REPATH_ACK")["REPATH"] = 0 /\ Just("REPATH_ACK")["REPATH_ACK"] = 1
      /\ "REPATH" \in Asked /\ "REPATH_ACK" \in Asked
  BY DEF None, Just, Asked
<1>2. /\ acks[h] \in Nat /\ repaths[h] \in Nat /\ acks \in [Host -> Nat]
      /\ repaths \in [Host -> Nat] /\ Peer(h) \in Host /\ Peer(h) # h
  BY PeerInHost, PeerOfPeer DEF TypeOK, ScalarTypes
<1>3. CASE HandleRepath(h)
  <2>1. /\ Effect(h, Just("REPATH"), Just("REPATH_ACK"))
        /\ UNCHANGED <<encoded, repaths, acks>>
    BY <1>3, HandleRepathEffect
  <2>2. /\ Just("REPATH_ACK")["REPATH_ACK"] <= Just("REPATH")["REPATH"]
        /\ acks'[h] + Just("REPATH_ACK")["REPATH"] + repaths[h]
             <= acks[h] + Just("REPATH")["REPATH_ACK"] + repaths'[h]
    BY <1>1, <1>2, <2>1
  <2> QED
    BY <1>1, <2>1, <2>2, Balanced
<1>4. CASE HandleRepathAck(h)
  <2>1. /\ Effect(h, Just("REPATH_ACK"), None) /\ UNCHANGED <<encoded, repaths>>
        /\ acks' = [acks EXCEPT ![h] = acks[h] + 1]
    BY <1>4, HandleRepathAckEffect
  <2>2. acks'[h] = acks[h] + 1 /\ acks'[Peer(h)] = acks[Peer(h)] /\ repaths' = repaths
    BY <1>2, <2>1
  <2>3. /\ None["REPATH_ACK"] <= Just("REPATH_ACK")["REPATH"]
        /\ acks'[h] + None["REPATH"] + repaths[h]
             <= acks[h] + Just("REPATH_ACK")["REPATH_ACK"] + repaths'[h]
    BY <1>1, <1>2, <2>2
  <2> QED
    BY <1>1, <2>1, <2>2, <2>3, Balanced
<1>5. CASE HandleTsRepath(h)
  <2>1. /\ Effect(h, None, Just("REPATH")) /\ UNCHANGED <<encoded, acks>>
        /\ repaths' = [repaths EXCEPT ![h] = repaths[h] + 1]
    BY <1>5, HandleTsRepathEffect
  <2>2. /\ repaths'[h] = repaths[h] + 1 /\ repaths'[Peer(h)] = repaths[Peer(h)]
        /\ acks' = acks
    BY <1>2, <2>1
  <2>3. /\ Just("REPATH")["REPATH_ACK"] <= None["REPATH"]
        /\ acks'[h] + Just("REPATH")["REPATH"] + repaths[h]
             <= acks[h] + None["REPATH_ACK"] + repaths'[h]
    BY <1>1, <1>2, <2>2
  <2> QED
    BY <1>1, <2>1, <2>2, <2>3, Balanced
<1> QED
  BY <1>3, <1>4, <1>5

(* Every step keeps the invariant.                                         *)
LEMMA AnswersNext ==
  ASSUME Arriving \cap Asked = {}, TypeOK, TypeOK', AnswersInv, [Next]_vars
  PROVE  AnswersInv'
<1>1. NoneEncoded /\ AcksAnswerRepaths
  BY DEF AnswersInv
<1>2. UNCHANGED encoded => NoneEncoded'
  BY <1>1 DEF NoneEncoded
<1>3. CASE UNCHANGED vars
  <2>1. UNCHANGED <<rxq, inRing, outRing, txHand, txq, wire, burst, handled, encoded,
                    repaths, acks>>
    BY <1>3 DEF vars
  <2>2. AcksAnswerRepaths'
    BY <1>1, <2>1 DEF AcksAnswerRepaths, UnderWay, Unhandled
  <2> QED
    BY <1>2, <2>1, <2>2 DEF AnswersInv
<1>4. CASE Next
  <2>1. PICK h \in Host : Main(h) \/ LcoreProbe(h) \/ LcoreStats(h) \/ Network(h)
    BY <1>4 DEF Next
  <2>2. Effect(h, None, None) /\ UNCHANGED <<encoded, repaths, acks>> => AnswersInv'
    BY <1>1, <1>2, QuietBalanced DEF AnswersInv
  <2>3. CASE Main(h)
    BY <2>2, <2>3, MainRxEffect, MainTxDequeueEffect, MainTxSendEffect DEF Main
  <2>4. CASE LcoreProbe(h)
    <3>1. Effect(h, None, None) /\ NoneEncoded' /\ UNCHANGED <<repaths, acks>>
      BY <1>1, <2>4, ProbeEncodeEffect, ProbeEnqueueEffect DEF LcoreProbe
    <3> QED
      BY <1>1, <3>1, QuietBalanced DEF AnswersInv
  <2>5. CASE LcoreStats(h)
    <3>1. CASE HandleRepath(h) \/ HandleRepathAck(h) \/ HandleTsRepath(h)
      BY <1>1, <1>2, <3>1, HandlersBalanced DEF AnswersInv
    <3>2. CASE HandlerExit(h) \/ HandleTsTrap(h)
      BY <2>2, <3>2, EndEffect DEF HandlerExit
    <3>3. CASE HandleProbe(h) \/ HandleTsStay(h) \/ HandleOther(h)
      BY <2>2, <3>3, SilentEffect
    <3>4. CASE TimerCb(h) \/ StatsDequeue(h) \/ StatsFree(h)
      BY <2>2, <3>4, TimerCbEffect, StatsDequeueEffect, StatsFreeEffect
    <3> QED
      BY <2>5, <3>1, <3>2, <3>3, <3>4 DEF LcoreStats
  <2>6. CASE Network(h)
    <3>1. CASE \E k \in Arriving : Arrive(h, k)
      <4>1. PICK k \in Arriving : Arrive(h, k)
        BY <3>1
      <4>2. k \in Kinds \ Asked
        BY KindsAssumption
      <4> QED
        BY <2>2, <4>1, <4>2, ArriveEffect
    <3>2. CASE \E k \in 1 .. Len(wire[h]) : NicReceive(h, k) \/ NetLose(h, k)
      BY <2>2, <3>2, NicReceiveEffect, NetLoseEffect
    <3>3. CASE NicTransmit(h)
      <4>1. /\ \A g \in Host : \A kind \in Asked : UnderWay(g, kind)' = UnderWay(g, kind)
            /\ UNCHANGED <<encoded, repaths, acks>>
        BY <3>3, NicTransmitEffect
      <4>2. AcksAnswerRepaths'
        <5> SUFFICES ASSUME NEW g \in Host
                     PROVE  acks'[g] + UnderWay(Peer(g), "REPATH_ACK")' + UnderWay(g, "REPATH")'
                              <= repaths'[g]
          BY Zenon DEF AcksAnswerRepaths
        <5>1. /\ UnderWay(Peer(g), "REPATH_ACK")' = UnderWay(Peer(g), "REPATH_ACK")
              /\ UnderWay(g, "REPATH")' = UnderWay(g, "REPATH")
          BY <4>1, PeerInHost DEF Asked
        <5>2. acks[g] + UnderWay(Peer(g), "REPATH_ACK") + UnderWay(g, "REPATH") <= repaths[g]
          BY <1>1, Zenon DEF AcksAnswerRepaths
        <5> QED
          BY <4>1, <5>1, <5>2, Zenon
      <4> QED
        BY <1>2, <4>1, <4>2 DEF AnswersInv
    <3> QED
      BY <2>6, <3>1, <3>2, <3>3 DEF Network
  <2> QED
    BY <2>1, <2>3, <2>4, <2>5, <2>6
<1> QED
  BY <1>3, <1>4

(* If nobody else sends REPATHs or acknowledgements, every acknowledgement *)
(* under way or handled answers a REPATH of its own, whatever the network  *)
(* loses or reorders and however full the rings are (the dispatch of       *)
(* lcore_stats, lines 457-468, and hopa_cp_repath_pkt_progress).           *)
THEOREM SpecAcksAnswerRepaths ==
  ASSUME Arriving \cap Asked = {}
  PROVE  Spec => []AcksAnswerRepaths
<1>1. IInv /\ IInv' /\ AnswersInv /\ [Next]_vars => AnswersInv'
  BY AnswersNext DEF IInv
<1>2. AnswersInv => AcksAnswerRepaths
  BY DEF AnswersInv
<1> QED
  BY <1>1, <1>2, AnswersInit, SpecIInv, PTL DEF Spec

-----------------------------------------------------------------------------
(* The along-path check of the process, for every word size and every      *)
(* rounding of the threshold: what it says never changes.                  *)

(* One call: its bounds enclose the current delay, and its answer is the   *)
(* verdict on the record it leaves behind.                                 *)
LEMMA CheckStep ==
  ASSUME RecordOK, NEW d \in Word, Check(d)
  PROVE  CheckInv'
<1>1. info.cur_dt \in Word /\ Word \subseteq Int
  BY DEF RecordOK, Info, Word
<1>2. /\ max_dt' \in Word /\ min_dt' \in Word
      /\ min_dt' <= info.cur_dt /\ info.cur_dt <= max_dt'
  <2>1. max_dt \in Word /\ min_dt \in Word
    BY DEF RecordOK
  <2>2. max_dt' = WiderMax /\ min_dt' = WiderMin
    BY DEF Check
  <2> DEFINE c == info.cur_dt
  <2>3. c \in Word
    BY <1>1
  <2>4. /\ max_dt' = (IF c > max_dt THEN c ELSE max_dt)
        /\ min_dt' = (IF c < min_dt THEN c ELSE min_dt)
    BY <2>2 DEF WiderMax, WiderMin
  <2> HIDE DEF c
  <2>5. /\ max_dt' \in Word /\ min_dt' \in Word
        /\ min_dt' <= c /\ c <= max_dt'
    BY <2>1, <2>3, <2>4, SMT DEF Word
  <2> QED
    BY <2>5 DEF c
<1>3. info' = info /\ traps' = traps
  BY DEF Check
<1>4. Verdict(min_dt', max_dt') \in Answers
  BY DEF Verdict, Answers
<1>5. said' = Verdict(min_dt', max_dt') /\ delay' \in Word /\ before' \subseteq Word
  BY DEF Check, RecordOK
<1>6. RecordOK'
  BY <1>2, <1>3, <1>4, <1>5 DEF RecordOK
<1>7. Bracket'
  BY <1>2, <1>3 DEF Bracket
<1>8. SaidIsVerdict'
  BY <1>3, <1>5, Zenon DEF SaidIsVerdict, Verdict, delta_t
<1> QED
  BY <1>6, <1>7, <1>8 DEF CheckInv

(* A second call finds the bounds as wide as they get.                     *)
LEMMA CheckAgain ==
  ASSUME CheckInv, NEW d \in Word, Check(d), said # "none"
  PROVE  said' = said
<1>1. info.cur_dt \in Int /\ max_dt \in Int /\ min_dt \in Int
  BY DEF CheckInv, RecordOK, Info, Word
<1>2. min_dt <= info.cur_dt /\ info.cur_dt <= max_dt
  BY DEF CheckInv, Bracket
<1>3. max_dt' = max_dt /\ min_dt' = min_dt
  BY <1>1, <1>2 DEF Check, WiderMax, WiderMin
<1>4. said' = Verdict(min_dt, max_dt)
  BY <1>3, Zenon DEF Check
<1> QED
  BY <1>4 DEF CheckInv, SaidIsVerdict

(* CheckInv is inductive: it holds whatever malloc returned, and each call *)
(* re-establishes it.                                                      *)
THEOREM CheckInvariance == CheckSpec => []CheckInv
<1>1. CheckInit => CheckInv
  BY DEF CheckInit, CheckInv, RecordOK, Bracket, SaidIsVerdict
<1>2. CheckInv /\ [CheckNext]_checkVars => CheckInv'
  <2> SUFFICES ASSUME CheckInv, [CheckNext]_checkVars PROVE CheckInv'
    OBVIOUS
  <2>1. CASE CheckNext
    BY <2>1, CheckStep DEF CheckInv, CheckNext
  <2>2. CASE UNCHANGED checkVars
    BY <2>2 DEF checkVars, CheckInv, RecordOK, Bracket, SaidIsVerdict, Verdict, delta_t
  <2> QED
    BY <2>1, <2>2
<1> QED
  BY <1>1, <1>2, PTL DEF CheckSpec

(* Once one_path_check has answered, it gives the same answer to every     *)
(* data packet (lines 346-371): no packet writes the fields it reads.      *)
THEOREM CheckedOnce == CheckSpec => VerdictNeverChanges
<1>1. CheckInv /\ [CheckNext]_checkVars => [said # "none" => said' = said]_checkVars
  BY CheckAgain DEF CheckNext
<1> QED
  BY <1>1, CheckInvariance, PTL DEF CheckSpec, VerdictNeverChanges
=============================================================================
