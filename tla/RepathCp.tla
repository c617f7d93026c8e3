------------------------------ MODULE RepathCp ------------------------------
(***************************************************************************)
(* The stand-alone control plane, repath_cp/src/hopa_cp.c, on two hosts    *)
(* joined by a network.  Each process has two lcores: main (main: NIC rx   *)
(* to the in ring, out ring to NIC tx) and a worker, lcore_probe on a      *)
(* sender and lcore_stats on a receiver.  The lcores share only the two    *)
(* rings and the mbuf pool.                                                *)
(*                                                                         *)
(* An mbuf is counted, not named: free[h] is what the pool of h has left,  *)
(* Held(h) what rings, descriptors and locals of h refer to, and the rest  *)
(* is lost for good.  The choice of opt_path_id by the PROBE handler is    *)
(* PathSelection's; here a PROBE may lead to any path.                     *)
(***************************************************************************)
EXTENDS PathPorts, SequencesExt

CONSTANTS
  Host,         \* the two hosts
  Senders,      \* hosts started with -s 1; the others are receivers
  Verdicts,     \* what one_path_check may say in a process (OnePathCheck)
  NumMbufs,     \* NUM_MBUFS
  RingSize,     \* usable slots of a ring
  BURST_SIZE,
  RxDesc,       \* rx descriptors of the port
  TxDesc,       \* tx descriptors of the port
  Lossy,        \* the network may lose packets
  Arriving,     \* kinds of packets that reach a host from elsewhere
  Paced,        \* the pause between rounds of probes outlasts their sending
  MaxArrive,    \* bound: how many of them
  MaxWire       \* bound: packets on the way to a host

ASSUME TwoHostsAssumption ==
  /\ Senders \subseteq Host
  /\ \A h \in Host : \E g \in Host : Host \ {h} = {g}

ASSUME FlagsAssumption == Lossy \in BOOLEAN /\ Paced \in BOOLEAN

ASSUME SizesAssumption ==
  /\ NumMbufs \in Nat /\ RingSize \in Nat /\ BURST_SIZE \in Nat \ {0}
  /\ RxDesc \in Nat /\ TxDesc \in Nat /\ MaxArrive \in Nat /\ MaxWire \in Nat

VARIABLES
  proc,         \* the process: "up", or ended by rte_exit or a division by 0
  verdict,      \* what one_path_check says: the same at every call
  free,         \* mbufs left in mbuf_pool
  rxq,          \* received by the NIC, not yet polled
  inRing,       \* hopa_in_ring
  outRing,      \* hopa_out_ring
  txHand,       \* send_mbuf[offset ..] of main
  txq,          \* given to the NIC, not yet on the wire
  encoded,      \* mbufs[] of lcore_probe
  burst,        \* bufs[] of lcore_stats
  handled,      \* how many of them the first loop has dispatched
  opt_path_id,
  timer,        \* retran_timer: "stopped", or armed with 2 s or 0.1 s
  wire,         \* packets on their way to a host
  arrivals,     \* packets that came from elsewhere so far
  repaths,      \* ghost: REPATHs a host has encoded
  acks          \* ghost: REPATH_ACKs it has handled

mainVars == <<txHand>>
probeVars == <<encoded>>
statsVars == <<burst, handled, verdict, opt_path_id, timer, repaths, acks>>
nicVars == <<rxq, txq>>
netVars == <<wire, arrivals>>
vars == <<proc, free, rxq, inRing, outRing, txHand, txq, encoded, burst, handled,
          verdict, opt_path_id, timer, wire, arrivals, repaths, acks>>

Procs == {"up", "exited", "trapped"}
Up(h) == proc[h] = "up"

Peer(h) == CHOOSE g \in Host : g # h

(* A packet: its kind, and for those this program encodes, the port.       *)
Ports == DST_PORT_PATH_1 - 1 .. DST_PORT_PATH_1 + PATH_NB - 1
Kinds == {"PROBE", "REPATH", "REPATH_ACK", "TS", "OTHER"}

ASSUME KindsAssumption ==
  Arriving \subseteq Kinds /\ Verdicts \subseteq {"repath", "stay", "trap"}

Packet == [kind : Kinds, port : Ports, repath_id : Paths]
Pkt(kind, port) == [kind |-> kind, port |-> port, repath_id |-> 0]

(* Mutant: a ring without a limit.                                         *)
EnqueueAll(ring, s) == ring \o s

(* rte_ring_*_enqueue_burst: what fits goes in, the caller ignores how     *)
(* much that was.                                                          *)
Enqueue(ring, s) ==
  ring \o SubSeq(s, 1, Min({Len(s), RingSize - Len(ring)}))

(* rte_ring_*_dequeue_burst of up to BURST_SIZE.                           *)
BurstLen(ring) == Min({Len(ring), BURST_SIZE})
Burst(ring) == SubSeq(ring, 1, BurstLen(ring))
AfterBurst(ring) == SubSeq(ring, BurstLen(ring) + 1, Len(ring))

Held(h) == Len(rxq[h]) + Len(inRing[h]) + Len(outRing[h]) + Len(txHand[h])
           + Len(txq[h]) + Len(encoded[h]) + Len(burst[h])
Leaked(h) == NumMbufs - free[h] - Held(h)

-----------------------------------------------------------------------------
Init ==
  /\ proc = [h \in Host |-> "up"]
  /\ verdict \in [Host -> Verdicts]
  /\ free = [h \in Host |-> NumMbufs]
  /\ rxq = [h \in Host |-> <<>>] /\ txq = [h \in Host |-> <<>>]
  /\ inRing = [h \in Host |-> <<>>] /\ outRing = [h \in Host |-> <<>>]
  /\ txHand = [h \in Host |-> <<>>]
  /\ encoded = [h \in Host |-> <<>>]
  /\ burst = [h \in Host |-> <<>>] /\ handled = [h \in Host |-> 0]
  /\ opt_path_id = [h \in Host |-> 0]
  /\ timer = [h \in Host |-> "stopped"]
  /\ wire = [h \in Host |-> <<>>]
  /\ arrivals = 0
  /\ repaths = [h \in Host |-> 0] /\ acks = [h \in Host |-> 0]

-----------------------------------------------------------------------------
(* The network and the NICs.                                               *)

(* A packet of another program reaches h: a data packet with a timestamp   *)
(* for the along-path check, or one this program does not know.            *)
Arrive(h, kind) ==
  /\ arrivals < MaxArrive
  /\ Len(wire[h]) < MaxWire
  /\ wire' = [wire EXCEPT ![h] = Append(@, Pkt(kind, DST_PORT_PATH_1))]
  /\ arrivals' = arrivals + 1
  /\ UNCHANGED <<proc, free, inRing, outRing, nicVars, mainVars, probeVars, statsVars>>

(* The paths have different delays: any packet may arrive next.  It takes  *)
(* an mbuf of the pool; without one or without a descriptor the NIC drops  *)
(* it.                                                                     *)
NicReceive(h, k) ==
  /\ Up(h)
  /\ wire' = [wire EXCEPT ![h] = RemoveAt(@, k)]
  /\ IF free[h] > 0 /\ Len(rxq[h]) < RxDesc
     THEN /\ rxq' = [rxq EXCEPT ![h] = Append(@, wire[h][k])]
          /\ free' = [free EXCEPT ![h] = @ - 1]
     ELSE UNCHANGED <<rxq, free>>
  /\ UNCHANGED <<proc, inRing, outRing, txq, arrivals, mainVars, probeVars, statsVars>>

NetLose(h, k) ==
  /\ Lossy
  /\ wire' = [wire EXCEPT ![h] = RemoveAt(@, k)]
  /\ UNCHANGED <<proc, free, inRing, outRing, nicVars, arrivals, mainVars, probeVars, statsVars>>

(* The NIC sends the next packet and frees its mbuf.                       *)
NicTransmit(h) ==
  /\ Up(h)
  /\ txq[h] # <<>>
  /\ Len(wire[Peer(h)]) < MaxWire
  /\ wire' = [wire EXCEPT ![Peer(h)] = Append(@, Head(txq[h]))]
  /\ txq' = [txq EXCEPT ![h] = Tail(@)]
  /\ free' = [free EXCEPT ![h] = @ + 1]
  /\ UNCHANGED <<proc, inRing, outRing, rxq, arrivals, mainVars, probeVars, statsVars>>

-----------------------------------------------------------------------------
(* The main lcore.                                                         *)

(* rte_eth_rx_burst, then rte_ring_sp_enqueue_burst of all of it.          *)
MainRx(h) ==
  /\ Up(h) /\ txHand[h] = <<>>
  /\ rxq[h] # <<>>
  /\ rxq' = [rxq EXCEPT ![h] = AfterBurst(@)]
  /\ inRing' = [inRing EXCEPT ![h] = Enqueue(@, Burst(rxq[h]))]
  /\ UNCHANGED <<proc, free, outRing, txq, mainVars, probeVars, statsVars, netVars>>

MainTxDequeue(h) ==
  /\ Up(h) /\ txHand[h] = <<>>
  /\ outRing[h] # <<>>
  /\ txHand' = [txHand EXCEPT ![h] = Burst(outRing[h])]
  /\ outRing' = [outRing EXCEPT ![h] = AfterBurst(@)]
  /\ UNCHANGED <<proc, free, inRing, nicVars, probeVars, statsVars, netVars>>

(* Mutant: what rte_eth_tx_burst does not take is forgotten.               *)
MainTxSendOnce(h) ==
  LET n == Min({Len(txHand[h]), TxDesc - Len(txq[h])})
  IN  /\ Up(h) /\ n > 0
      /\ txq' = [txq EXCEPT ![h] = @ \o SubSeq(txHand[h], 1, n)]
      /\ txHand' = [txHand EXCEPT ![h] = <<>>]
      /\ UNCHANGED <<proc, free, inRing, outRing, rxq, probeVars, statsVars, netVars>>

(* One rte_eth_tx_burst of the while loop; offset moves by what it took.   *)
MainTxSend(h) ==
  LET n == Min({Len(txHand[h]), TxDesc - Len(txq[h])})
  IN  /\ Up(h) /\ n > 0
      /\ txq' = [txq EXCEPT ![h] = @ \o SubSeq(txHand[h], 1, n)]
      /\ txHand' = [txHand EXCEPT ![h] = SubSeq(@, n + 1, Len(@))]
      /\ UNCHANGED <<proc, free, inRing, outRing, rxq, probeVars, statsVars, netVars>>

-----------------------------------------------------------------------------
(* The worker of a sender: lcore_probe.                                    *)

(* rte_pktmbuf_alloc fails: rte_exit ends both lcores.                     *)
Exit(h) ==
  /\ free[h] = 0
  /\ proc' = [proc EXCEPT ![h] = "exited"]
  /\ UNCHANGED <<free, inRing, outRing, nicVars, mainVars, probeVars, statsVars, netVars>>

ProbeEncode(h) ==
  /\ Up(h) /\ h \in Senders
  /\ Len(encoded[h]) < PATH_NB
  /\ Paced /\ encoded[h] = <<>> => outRing[h] = <<>> /\ txHand[h] = <<>>
  /\ IF free[h] = 0 THEN Exit(h) ELSE
       /\ encoded' = [encoded EXCEPT ![h] =
                        Append(@, Pkt("PROBE", ProbePort(Len(@) + 1)))]
       /\ free' = [free EXCEPT ![h] = @ - 1]
       /\ UNCHANGED <<proc, inRing, outRing, nicVars, mainVars, statsVars, netVars>>

ProbeEnqueue(h) ==
  /\ Up(h)
  /\ Len(encoded[h]) = PATH_NB
  /\ outRing' = [outRing EXCEPT ![h] = Enqueue(@, encoded[h])]
  /\ encoded' = [encoded EXCEPT ![h] = <<>>]
  /\ UNCHANGED <<proc, free, inRing, nicVars, mainVars, statsVars, netVars>>

-----------------------------------------------------------------------------
(* The worker of a receiver: lcore_stats.                                  *)

(* rte_timer_manage finds retran_timer expired: timer_cb re-arms it.       *)
TimerCb(h) ==
  /\ Up(h) /\ burst[h] = <<>>
  /\ timer[h] # "stopped"
  /\ timer' = [timer EXCEPT ![h] = "0.1 s"]
  /\ UNCHANGED <<proc, free, inRing, outRing, nicVars, mainVars, probeVars, netVars,
                 burst, handled, verdict, opt_path_id, repaths, acks>>

StatsDequeue(h) ==
  /\ Up(h) /\ h \notin Senders /\ burst[h] = <<>>
  /\ inRing[h] # <<>>
  /\ burst' = [burst EXCEPT ![h] = Burst(inRing[h])]
  /\ inRing' = [inRing EXCEPT ![h] = AfterBurst(@)]
  /\ UNCHANGED <<proc, free, outRing, nicVars, mainVars, probeVars, netVars,
                 handled, verdict, opt_path_id, timer, repaths, acks>>

(* The packet the first for loop is at.                                    *)
Current(h) == burst[h][handled[h] + 1]

(* The loop dispatches on it and goes on to the next one.                  *)
Dispatch(h, kind) ==
  /\ Up(h)
  /\ handled[h] < Len(burst[h])
  /\ Current(h).kind = kind
  /\ handled' = [handled EXCEPT ![h] = @ + 1]
  /\ UNCHANGED <<rxq, txq, inRing, mainVars, probeVars, netVars, burst, verdict>>

(* A packet encoded by a handler goes to the out ring.                     *)
Reply(h, m) ==
  /\ free' = [free EXCEPT ![h] = @ - 1]
  /\ outRing' = [outRing EXCEPT ![h] = Enqueue(@, <<m>>)]
  /\ UNCHANGED proc

(* The REPATH that asks for the best path, and its acknowledgement.        *)
RepathPkt(h) == [kind |-> "REPATH", port |-> RepathPort(opt_path_id[h]),
                 repath_id |-> opt_path_id[h]]
RepathAckPkt(h) == Pkt("REPATH_ACK", RepathPort(opt_path_id[h]))

(* hopa_cp_probe_pkt_progress                                              *)
HandleProbe(h) ==
  /\ Dispatch(h, "PROBE")
  /\ \E p \in Paths : opt_path_id' = [opt_path_id EXCEPT ![h] = p]
  /\ UNCHANGED <<proc, free, outRing, timer, repaths, acks>>

(* Mutant: while the timer runs a REPATH is taken for a duplicate.         *)
HandleRepathOnce(h) ==
  /\ free[h] > 0
  /\ Dispatch(h, "REPATH")
  /\ IF timer[h] = "stopped" THEN Reply(h, RepathAckPkt(h))
                             ELSE UNCHANGED <<proc, free, outRing>>
  /\ timer' = [timer EXCEPT ![h] = "2 s"]
  /\ UNCHANGED <<opt_path_id, repaths, acks>>

(* hopa_cp_repath_pkt_progress                                             *)
HandleRepath(h) ==
  /\ free[h] > 0
  /\ Dispatch(h, "REPATH")
  /\ Reply(h, RepathAckPkt(h))
  /\ timer' = [timer EXCEPT ![h] = "2 s"]
  /\ UNCHANGED <<opt_path_id, repaths, acks>>

(* Mutant: the handler frees the packet, as does the loop after it.        *)
HandleRepathAckFree(h) ==
  /\ Dispatch(h, "REPATH_ACK")
  /\ timer' = [timer EXCEPT ![h] = "stopped"]
  /\ acks' = [acks EXCEPT ![h] = @ + 1]
  /\ free' = [free EXCEPT ![h] = @ + 1]
  /\ UNCHANGED <<proc, outRing, opt_path_id, repaths>>

(* Mutant: an ACK is acknowledged like a REPATH.                           *)
HandleRepathAckReply(h) ==
  /\ free[h] > 0
  /\ Dispatch(h, "REPATH_ACK")
  /\ Reply(h, RepathAckPkt(h))
  /\ timer' = [timer EXCEPT ![h] = "stopped"]
  /\ acks' = [acks EXCEPT ![h] = @ + 1]
  /\ UNCHANGED <<opt_path_id, repaths>>

(* hopa_cp_repath_ack_pkt_progress                                         *)
HandleRepathAck(h) ==
  /\ Dispatch(h, "REPATH_ACK")
  /\ timer' = [timer EXCEPT ![h] = "stopped"]
  /\ acks' = [acks EXCEPT ![h] = @ + 1]
  /\ UNCHANGED <<proc, free, outRing, opt_path_id, repaths>>

(* hopa_dp_ts_pkt_progress: the check asks for another path, or not.       *)
HandleTsRepath(h) ==
  /\ verdict[h] = "repath"
  /\ free[h] > 0
  /\ Dispatch(h, "TS")
  /\ Reply(h, RepathPkt(h))
  /\ repaths' = [repaths EXCEPT ![h] = @ + 1]
  /\ UNCHANGED <<opt_path_id, timer, acks>>

HandleTsStay(h) ==
  /\ verdict[h] = "stay"
  /\ Dispatch(h, "TS")
  /\ UNCHANGED <<proc, free, outRing, opt_path_id, timer, repaths, acks>>

(* The check divides by a time difference of 0 (lines 361 and 365).        *)
HandleTsTrap(h) ==
  /\ verdict[h] = "trap"
  /\ Up(h)
  /\ handled[h] < Len(burst[h])
  /\ Current(h).kind = "TS"
  /\ proc' = [proc EXCEPT ![h] = "trapped"]
  /\ UNCHANGED <<free, inRing, outRing, nicVars, mainVars, probeVars, statsVars, netVars>>

(* No handler: not UDP, another source port, an unknown flag or cp_flag.   *)
HandleOther(h) ==
  /\ Dispatch(h, "OTHER")
  /\ UNCHANGED <<proc, free, outRing, opt_path_id, timer, repaths, acks>>

(* Encoding the reply finds the pool empty.                                *)
HandlerExit(h) ==
  /\ Up(h)
  /\ handled[h] < Len(burst[h])
  /\ \/ Current(h).kind = "REPATH"
     \/ Current(h).kind = "TS" /\ verdict[h] = "repath"
  /\ Exit(h)

(* Mutant: the loop stops one short of nb_rx.                              *)
StatsFreeButLast(h) ==
  /\ Up(h) /\ burst[h] # <<>>
  /\ handled[h] = Len(burst[h])
  /\ free' = [free EXCEPT ![h] = @ + Len(burst[h]) - 1]
  /\ burst' = [burst EXCEPT ![h] = <<>>]
  /\ handled' = [handled EXCEPT ![h] = 0]
  /\ UNCHANGED <<proc, inRing, outRing, nicVars, mainVars, probeVars, netVars,
                 verdict, opt_path_id, timer, repaths, acks>>

(* The second for loop: rte_pktmbuf_free of the whole burst.               *)
StatsFree(h) ==
  /\ Up(h) /\ burst[h] # <<>>
  /\ handled[h] = Len(burst[h])
  /\ free' = [free EXCEPT ![h] = @ + Len(burst[h])]
  /\ burst' = [burst EXCEPT ![h] = <<>>]
  /\ handled' = [handled EXCEPT ![h] = 0]
  /\ UNCHANGED <<proc, inRing, outRing, nicVars, mainVars, probeVars, netVars,
                 verdict, opt_path_id, timer, repaths, acks>>

-----------------------------------------------------------------------------
Main(h) == MainRx(h) \/ MainTxDequeue(h) \/ MainTxSend(h)

LcoreProbe(h) == ProbeEncode(h) \/ ProbeEnqueue(h)

LcoreStats(h) ==
  \/ TimerCb(h)
  \/ StatsDequeue(h)
  \/ HandleProbe(h)
  \/ HandleRepath(h)
  \/ HandleRepathAck(h)
  \/ HandleTsRepath(h)
  \/ HandleTsStay(h)
  \/ HandleTsTrap(h)
  \/ HandleOther(h)
  \/ HandlerExit(h)
  \/ StatsFree(h)

Network(h) ==
  \/ \E kind \in Arriving : Arrive(h, kind)
  \/ \E k \in 1 .. Len(wire[h]) : NicReceive(h, k)
  \/ \E k \in 1 .. Len(wire[h]) : NetLose(h, k)
  \/ NicTransmit(h)

Next == \E h \in Host : Main(h) \/ LcoreProbe(h) \/ LcoreStats(h) \/ Network(h)

Spec == Init /\ [][Next]_vars

(* Both lcores poll for ever, and the main loop alternates rx and tx, so   *)
(* each of its parts gets its turn; the NIC keeps sending, and a packet    *)
(* the network keeps offering is received in the end.                      *)
Receives(h) == \E k \in 1 .. Len(wire[h]) : NicReceive(h, k)
StatsStep(h) == StatsDequeue(h) \/ HandleProbe(h) \/ HandleRepath(h) \/ HandleRepathAck(h)
                \/ HandleTsRepath(h) \/ HandleTsStay(h) \/ HandleTsTrap(h)
                \/ HandleOther(h) \/ HandlerExit(h) \/ StatsFree(h)
Fairness ==
  \A h \in Host :
    /\ SF_vars(MainRx(h)) /\ SF_vars(MainTxDequeue(h)) /\ WF_vars(MainTxSend(h))
    /\ WF_vars(LcoreProbe(h)) /\ WF_vars(StatsStep(h))
    /\ WF_vars(NicTransmit(h)) /\ WF_vars(Receives(h))

FairSpec == Spec /\ Fairness

-----------------------------------------------------------------------------
ScalarTypes ==
  /\ verdict \in [Host -> Verdicts]
  /\ free \in [Host -> 0 .. NumMbufs]
  /\ handled \in [Host -> Nat]
  /\ opt_path_id \in [Host -> Paths]
  /\ timer \in [Host -> {"stopped", "2 s", "0.1 s"}]
  /\ arrivals \in 0 .. MaxArrive
  /\ repaths \in [Host -> Nat] /\ acks \in [Host -> Nat]

QueueTypes ==
  /\ rxq \in [Host -> Seq(Packet)] /\ txq \in [Host -> Seq(Packet)]
  /\ inRing \in [Host -> Seq(Packet)] /\ outRing \in [Host -> Seq(Packet)]
  /\ txHand \in [Host -> Seq(Packet)] /\ encoded \in [Host -> Seq(Packet)]
  /\ burst \in [Host -> Seq(Packet)] /\ wire \in [Host -> Seq(Packet)]

Capacities ==
  \A h \in Host :
    /\ Len(rxq[h]) <= RxDesc /\ Len(txq[h]) <= TxDesc
    /\ Len(inRing[h]) <= RingSize /\ Len(outRing[h]) <= RingSize
    /\ Len(txHand[h]) <= BURST_SIZE /\ Len(burst[h]) <= BURST_SIZE
    /\ Len(encoded[h]) <= PATH_NB /\ Len(wire[h]) <= MaxWire
    /\ handled[h] <= Len(burst[h])

(* Types and capacities: no ring or descriptor queue grows past its size,  *)
(* and the dispatch loop stays within the burst.                           *)
TypeOK == proc \in [Host -> Procs] /\ ScalarTypes /\ QueueTypes /\ Capacities

(* An mbuf is freed once, and not while a ring or a descriptor refers to   *)
(* it: what is free and what is held never exceed the pool (lines 480-481, *)
(* the handlers and the NIC).                                              *)
MbufsConserved == \A h \in Host : Leaked(h) >= 0

Full(ring) == Len(ring) = RingSize

(* The one way to lose an mbuf is a full ring: lines 323, 342, 400 and 553 *)
(* ignore how many packets the ring took.  And what is lost stays lost.    *)
LeakOnlyWhenRingFull ==
  [][\A h \in Host :
       /\ Leaked(h)' >= Leaked(h)
       /\ Leaked(h)' > Leaked(h) =>
            Full(inRing'[h]) \/ Full(outRing'[h])]_vars

(* The pool covers all the places that hold mbufs.                         *)
PoolCovers == NumMbufs > RxDesc + TxDesc + 2 * RingSize + 2 * BURST_SIZE + PATH_NB

(* With such a pool the process does not run out of mbufs and exit (line   *)
(* 195) unless full rings have lost some before.                           *)
ExitOnlyAfterLeak == \A h \in Host : proc[h] = "exited" => Leaked(h) > 0

(* The packets of a kind between the handlers of h and those of its peer.  *)
CountKind(q, kind) == Cardinality({i \in DOMAIN q : q[i].kind = kind})
Unhandled(h) == SubSeq(burst[h], handled[h] + 1, Len(burst[h]))
UnderWay(h, kind) ==
  CountKind(outRing[h], kind) + CountKind(txHand[h], kind) + CountKind(txq[h], kind)
  + CountKind(wire[Peer(h)], kind) + CountKind(rxq[Peer(h)], kind)
  + CountKind(inRing[Peer(h)], kind) + CountKind(Unhandled(Peer(h)), kind)

(* Every acknowledgement, under way or handled, answers a REPATH of its    *)
(* own: none is invented, acknowledged in turn or answered twice.          *)
AcksAnswerRepaths ==
  \A h \in Host :
    acks[h] + UnderWay(Peer(h), "REPATH_ACK") + UnderWay(h, "REPATH") <= repaths[h]

(* Every REPATH a host encodes is acknowledged to it, when the network     *)
(* loses nothing and both hosts run lcore_stats (README.md, 4).            *)
RepathAcked ==
  \A h \in Host, n \in 1 .. MaxArrive : repaths[h] >= n ~> acks[h] >= n

(* Once no more packets come, every mbuf returns to the pool.              *)
AllReclaimed == <>[](\A h \in Host : free[h] = NumMbufs)
=============================================================================
