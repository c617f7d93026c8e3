------------------------------- MODULE OvsCp -------------------------------
(***************************************************************************)
(* The control plane inside ovs-vswitchd, one host: hopa_cp_init on the    *)
(* main thread, the two threads it creates, and the two places where PMD   *)
(* threads meet them: netdev_dpdk_rxq_recv appends what waits in the out   *)
(* ring to a batch received from port pf1hpf, dp_netdev_recirculate copies *)
(* the headers of CP packets into the in ring.                             *)
(*                                                                         *)
(* An mbuf is named, because the appending copies one mbuf structure over  *)
(* another: home[m] is its pool field, nic[m] says how often m is in the   *)
(* pool of the NIC, and cp is the ring of pointers inside hopa_cp_mp.  The *)
(* caches that PMD threads keep in front of a pool are left out.           *)
(***************************************************************************)
EXTENDS FiniteSets, SequencesExt

CONSTANTS
  NicMbuf,      \* mbufs made for the pool of the NIC
  CpMbuf,       \* mbufs made for hopa_cp_mp
  NULL,
  Pmd,          \* PMD threads; all of them recirculate
  Poller,       \* the one that polls the only rx queue of pf1hpf
  Roles,        \* "cq" probes, "yy" sends REPATH 2
  PATH_NB,
  Burst,        \* NETDEV_MAX_BURST, also the length of the two global arrays
  OutSize,      \* usable slots of hopa_cp_out_ring
  InSize,       \* usable slots of hopa_cp_in_ring
  MaxBehind,    \* rounds that may wait for a PMD thread that keeps up
  HeapHdrs,     \* headers for which the DPDK heap has room
  MayFail,      \* allocations of hopa_cp_init that may fail
  Arriving,     \* per role, the headers that CP packets from the peer may carry
  MaxRounds,    \* bound: rounds of the send thread
  MaxArrive     \* bound: CP packets from the peer

(* What there are of mbufs, threads, roles and failures, and sizes.        *)
ASSUME SetsAssumption ==
  /\ NULL \notin NicMbuf \cup CpMbuf /\ NicMbuf \cap CpMbuf = {}
  /\ IsFiniteSet(NicMbuf) /\ IsFiniteSet(CpMbuf)
  /\ NULL \notin [inRing : BOOLEAN, outRing : BOOLEAN]
  /\ Poller \in Pmd /\ Roles \subseteq {"cq", "yy"}
  /\ MayFail \subseteq {"pool", "rings", "inRing", "outRing"}
  /\ PATH_NB \in Nat \ {0} /\ Burst \in Nat /\ OutSize \in Nat /\ InSize \in Nat
  /\ MaxBehind \in Nat /\ HeapHdrs \in Nat

(* What waits for a PMD thread that keeps up with the pause of 2 s (5 s on *)
(* yy) between rounds fits an array of Burst pointers.                     *)
ASSUME PacedAssumption == MaxBehind * PATH_NB <= Burst

(* The out ring has room for it and hopa_cp_mp an mbuf for each packet,    *)
(* and for each of as many that the PMD thread has taken: 32 packets at    *)
(* most, 1023 slots and 8191 mbufs in the code.                            *)
ASSUME RoomAssumption ==
  /\ MaxBehind * PATH_NB <= OutSize
  /\ 2 * MaxBehind * PATH_NB <= Cardinality(CpMbuf)

(* The heap has room for the headers in the in ring, for those that the    *)
(* progress thread has taken and for those of a batch.                     *)
ASSUME HeapAssumption == InSize + Burst + Min({InSize, Burst}) <= HeapHdrs

Mbuf == NicMbuf \cup CpMbuf
Slots == 1 .. Burst

VARIABLES
  role,
  init,               \* what hopa_cp_init does next
  failed,             \* its allocations that failed
  rings,              \* m_hopa_cp_in_out_ring: NULL, or which rings exist
  outRing, inRing,
  mbufs,              \* mbufs[] of hopa_cp_send
  hopa_cp_hdrs,       \* of hopa_cp_progress: dequeued, not yet handled
  best_path_id,
  pmd,                \* per PMD thread: where it is and its locals
  slot,               \* batch->packets[] of the PMD thread that polls pf1hpf
  hopa_cp_send_mbuf,
  hopa_cp_recv_cp_hdr,
  nic,                \* copies of a pointer in the pool of the NIC
  cp,                 \* the pointers in hopa_cp_mp, first in first out
  heap,               \* headers for which the DPDK heap has room left
  home,               \* mbuf->pool
  crashed,            \* the process is gone, and why
  rounds, arrivals,   \* bounds
  late,               \* ghost: a round began though the PMD thread was behind
  leaked,             \* ghost: headers that the full in ring refused
  injected,           \* ghost: pointers appended to batches
  handled             \* ghost: headers handled

ringVars == <<outRing, inRing>>
cpVars == <<mbufs, hopa_cp_hdrs, best_path_id, handled, rounds, late>>
initVars == <<role, init, failed, rings>>
poolVars == <<nic, cp, home, heap>>
pmdVars == <<pmd, slot, hopa_cp_send_mbuf, hopa_cp_recv_cp_hdr, arrivals, leaked,
             injected>>
vars == <<ringVars, cpVars, initVars, poolVars, pmdVars, crashed>>

Idle == [pc |-> "idle", nb_cp |-> 0, nb_rx |-> 0, i |-> 0, todo |-> <<>>]

(* A header: what it asks for.                                             *)
Header == [cp_flag : {"PROBE", "REPATH", "REPATH_ACK"}, path : 0 .. PATH_NB - 1]

(* The peer's packets carry headers.                                       *)
ASSUME ArrivingAssumption == \A r \in Roles : Arriving[r] \subseteq Header

-----------------------------------------------------------------------------
(* The batch is a local of the polling thread that nothing initialises: a  *)
(* slot holds the pointer of an earlier batch that used the same stack, or *)
(* no pointer at all, see RxAppend.                                        *)
Init ==
  /\ role \in Roles
  /\ init = "pool" /\ failed = {} /\ rings = NULL
  /\ outRing = <<>> /\ inRing = <<>>
  /\ mbufs = <<>> /\ hopa_cp_hdrs = <<>> /\ best_path_id = 0
  /\ pmd = [p \in Pmd |-> Idle]
  /\ slot \in [Slots -> NicMbuf]
  /\ hopa_cp_send_mbuf = [i \in Slots |-> NULL]
  /\ hopa_cp_recv_cp_hdr = [i \in Slots |-> NULL]
  /\ nic = [m \in Mbuf |-> IF m \in NicMbuf THEN 1 ELSE 0]
  /\ cp = <<>>
  /\ home = [m \in Mbuf |-> IF m \in NicMbuf THEN "nic" ELSE "cp"]
  /\ heap = HeapHdrs /\ late = FALSE /\ leaked = 0
  /\ crashed = "no"
  /\ rounds = 0 /\ arrivals = 0 /\ injected = <<>> /\ handled = <<>>

Up == crashed = "no"

(* An access through a null or a wild pointer, or beyond an array's end.   *)
Crash(why) == crashed' = why /\ UNCHANGED <<ringVars, cpVars, initVars, poolVars, pmdVars>>

-----------------------------------------------------------------------------
(* The main thread: hopa_cp_init, one assignment that others can see a     *)
(* step.  A failure is logged and passed over.                             *)

InitPool ==
  /\ Up /\ init = "pool"
  /\ init' = "rings"
  /\ \/ /\ cp' = SetToSeq(CpMbuf)
        /\ UNCHANGED failed
     \/ /\ "pool" \in MayFail
        /\ failed' = failed \cup {"pool"}
        /\ UNCHANGED cp
  /\ UNCHANGED <<role, rings, ringVars, cpVars, nic, home, heap, pmdVars, crashed>>

(* rte_malloc publishes the structure before memset has cleared it; memory *)
(* of the DPDK heap is zero when it is handed out.                         *)
InitRings ==
  /\ Up /\ init = "rings"
  /\ \/ /\ rings' = [inRing |-> FALSE, outRing |-> FALSE]
        /\ init' = "inRing"
        /\ UNCHANGED <<failed, crashed>>
     \/ /\ "rings" \in MayFail          \* memset on NULL
        /\ failed' = failed \cup {"rings"} /\ crashed' = "null"
        /\ UNCHANGED <<init, rings>>
  /\ UNCHANGED <<role, ringVars, cpVars, poolVars, pmdVars>>

InitRing(r, next) ==
  /\ Up /\ init = r
  /\ init' = next
  /\ \/ rings' = [rings EXCEPT ![r] = TRUE] /\ UNCHANGED failed
     \/ r \in MayFail /\ failed' = failed \cup {r} /\ UNCHANGED rings
  /\ UNCHANGED <<role, ringVars, cpVars, poolVars, pmdVars, crashed>>

(* Mutant: the threads are created before the rings.                       *)
ThreadsEarly == init # "pool"

(* Both threads run once pthread_create has returned.                      *)
Threads == init = "done"

InitThreads ==
  /\ Up /\ init = "threads"
  /\ init' = "done"
  /\ UNCHANGED <<role, failed, rings, ringVars, cpVars, poolVars, pmdVars, crashed>>

Exists(r) == IF rings = NULL THEN FALSE ELSE rings[r]

-----------------------------------------------------------------------------
(* hopa_cp_send.                                                           *)

RoundLen == IF role = "cq" THEN PATH_NB ELSE 1

(* The encoders: an mbuf from hopa_cp_mp, or NULL.  After its pause the    *)
(* thread goes on whether or not the last round has been polled.           *)
Encode ==
  /\ Up /\ Threads
  /\ Len(mbufs) < RoundLen
  /\ mbufs = <<>> => rounds < MaxRounds
  /\ late' = (late \/ (mbufs = <<>> /\ Len(outRing) + RoundLen > MaxBehind * PATH_NB))
  /\ IF cp # <<>>
     THEN mbufs' = Append(mbufs, Head(cp)) /\ cp' = Tail(cp)
     ELSE mbufs' = Append(mbufs, NULL) /\ UNCHANGED cp
  /\ UNCHANGED <<hopa_cp_hdrs, best_path_id, handled, rounds, initVars, ringVars,
                 nic, home, heap, pmdVars, crashed>>

(* What fits of s goes into the ring; the callers do not look at the rest. *)
Put(ring, s, size) == ring \o SubSeq(s, 1, Min({Len(s), size - Len(ring)}))

(* rte_ring_mp_enqueue_burst of the round.                                 *)
Enqueue ==
  /\ Up /\ Threads
  /\ Len(mbufs) = RoundLen
  /\ IF Exists("outRing")
     THEN /\ outRing' = Put(outRing, mbufs, OutSize)
          /\ mbufs' = <<>> /\ rounds' = rounds + 1
          /\ UNCHANGED <<inRing, hopa_cp_hdrs, best_path_id, handled, late, initVars,
                         poolVars, pmdVars, crashed>>
     ELSE Crash("null")

-----------------------------------------------------------------------------
(* hopa_cp_progress.                                                       *)

Dequeue ==
  /\ Up /\ Threads
  /\ hopa_cp_hdrs = <<>>
  /\ IF Exists("inRing")
     THEN LET n == Min({Len(inRing), Burst})
          IN  /\ n > 0
              /\ hopa_cp_hdrs' = SubSeq(inRing, 1, n)
              /\ inRing' = SubSeq(inRing, n + 1, Len(inRing))
              /\ UNCHANGED <<outRing, mbufs, best_path_id, handled, rounds, late, initVars,
                             poolVars, pmdVars, crashed>>
     ELSE Crash("null")

(* The dispatch of one header and rte_free.  A PROBE enters the table of   *)
(* delays and may lead to any choice (PathSelection); the acknowledgement  *)
(* of a REPATH is commented out and the handler of an ACK is empty.        *)
Handle ==
  /\ Up /\ hopa_cp_hdrs # <<>>
  /\ LET h == Head(hopa_cp_hdrs)
     IN  /\ \/ h.cp_flag = "PROBE" /\ best_path_id' \in 0 .. PATH_NB - 1
            \/ h.cp_flag = "REPATH" /\ best_path_id' = h.path
            \/ h.cp_flag = "REPATH_ACK" /\ UNCHANGED best_path_id
         /\ handled' = Append(handled, h)
  /\ hopa_cp_hdrs' = Tail(hopa_cp_hdrs) /\ heap' = heap + 1
  /\ UNCHANGED <<mbufs, rounds, late, initVars, ringVars, nic, cp, home, pmdVars, crashed>>

-----------------------------------------------------------------------------
(* netdev_dpdk_rxq_recv on pf1hpf, by the one thread that polls it.        *)

Me == pmd[Poller]
Step(r) == pmd' = [pmd EXCEPT ![Poller] = r]

(* Read how many wait.  More than Burst would make the room for the NIC,   *)
(* a uint16_t, negative and overrun both arrays.                           *)
RxCount ==
  /\ Up /\ Me.pc = "idle"
  /\ LET n == IF Exists("outRing") THEN Len(outRing) ELSE 0
     IN  IF n > Burst THEN Crash("overrun")
         ELSE /\ Step([Me EXCEPT !.pc = "rx", !.nb_cp = n])
              /\ UNCHANGED <<slot, hopa_cp_send_mbuf, hopa_cp_recv_cp_hdr, arrivals,
                             leaked, injected, ringVars, cpVars, initVars, poolVars, crashed>>

(* Mutant: nothing from the NIC ends the poll before the ring is looked at.*)
RxBurstEarly ==
  /\ Up /\ Me.pc = "rx"
  /\ \E n \in 0 .. Burst - Me.nb_cp :
       \E f \in [1 .. n -> Mbuf] :
         /\ \A i \in 1 .. n : Cardinality({j \in 1 .. n : f[j] = f[i]}) <= nic[f[i]]
         /\ slot' = [i \in Slots |-> IF i <= n THEN f[i] ELSE slot[i]]
         /\ nic' = [m \in Mbuf |-> nic[m] - Cardinality({i \in 1 .. n : f[i] = m})]
         /\ Step(IF n = 0 THEN Idle
                 ELSE [Me EXCEPT !.pc = IF Me.nb_cp > 0 THEN "dequeue" ELSE "process",
                                 !.nb_rx = n])
  /\ UNCHANGED <<hopa_cp_send_mbuf, hopa_cp_recv_cp_hdr, arrivals, leaked, injected,
                 ringVars, cpVars, initVars, cp, home, heap, crashed>>

(* rte_eth_rx_burst of what room is left: the NIC fills slots from its     *)
(* pool.  The driver resets the mbuf but for its pool field.               *)
RxBurst ==
  /\ Up /\ Me.pc = "rx"
  /\ \E n \in 0 .. Burst - Me.nb_cp :
       \E f \in [1 .. n -> Mbuf] :
         /\ \A i \in 1 .. n : Cardinality({j \in 1 .. n : f[j] = f[i]}) <= nic[f[i]]
         /\ slot' = [i \in Slots |-> IF i <= n THEN f[i] ELSE slot[i]]
         /\ nic' = [m \in Mbuf |-> nic[m] - Cardinality({i \in 1 .. n : f[i] = m})]
         /\ Step(IF Me.nb_cp > 0 THEN [Me EXCEPT !.pc = "dequeue", !.nb_rx = n]
                 ELSE IF n > 0 THEN [Me EXCEPT !.pc = "process", !.nb_rx = n]
                 ELSE Idle)
  /\ UNCHANGED <<hopa_cp_send_mbuf, hopa_cp_recv_cp_hdr, arrivals, leaked, injected,
                 ringVars, cpVars, initVars, cp, home, heap, crashed>>

(* Mutant: all that wait by now are taken, not the nb_cp counted before.   *)
RxDequeueAll ==
  /\ Up /\ Me.pc = "dequeue"
  /\ LET n == Min({Len(outRing), Burst})
     IN  /\ hopa_cp_send_mbuf' = [i \in Slots |-> IF i <= n THEN outRing[i]
                                                  ELSE hopa_cp_send_mbuf[i]]
         /\ outRing' = SubSeq(outRing, n + 1, Len(outRing))
  /\ Step([Me EXCEPT !.pc = "append"])
  /\ UNCHANGED <<inRing, slot, hopa_cp_recv_cp_hdr, arrivals, leaked, injected, cpVars,
                 initVars, poolVars, crashed>>

(* rte_ring_sc_dequeue_burst of the number counted before.                 *)
RxDequeue ==
  /\ Up /\ Me.pc = "dequeue"
  /\ LET n == Min({Len(outRing), Me.nb_cp})
     IN  /\ hopa_cp_send_mbuf' = [i \in Slots |-> IF i <= n THEN outRing[i]
                                                  ELSE hopa_cp_send_mbuf[i]]
         /\ outRing' = SubSeq(outRing, n + 1, Len(outRing))
  /\ Step([Me EXCEPT !.pc = "append"])
  /\ UNCHANGED <<inRing, slot, hopa_cp_recv_cp_hdr, arrivals, leaked, injected, cpVars,
                 initVars, poolVars, crashed>>

(* Mutant: nb_rx is not raised by nb_cp, so the batch ends before them.    *)
RxAppendUncounted ==
  /\ Up /\ Me.pc = "append"
  /\ injected' = Append(injected, hopa_cp_send_mbuf[Me.i + 1])
  /\ Step(IF Me.i + 1 < Me.nb_cp THEN [Me EXCEPT !.i = @ + 1]
          ELSE [Me EXCEPT !.pc = "process", !.i = 0])
  /\ UNCHANGED <<slot, hopa_cp_send_mbuf, hopa_cp_recv_cp_hdr, arrivals, leaked, poolVars,
                 ringVars, cpVars, initVars, crashed>>

(* A turn of the loop: batch->packets[i + nb_rx]->mbuf =                   *)
(* *hopa_cp_send_mbuf[i].  The structure, pool field and all, is copied    *)
(* over the mbuf an earlier batch left in the slot, or, when none did,     *)
(* through whatever the slot holds.  The mbuf that was dequeued is in no   *)
(* pool any more.                                                          *)
RxAppend ==
  /\ Up /\ Me.pc = "append"
  /\ LET m == hopa_cp_send_mbuf[Me.i + 1] IN
     IF m = NULL THEN Crash("null")
     ELSE \/ Crash("wild")
          \/ /\ home' = [home EXCEPT ![slot[Me.nb_rx + Me.i + 1]] = home[m]]
             /\ injected' = Append(injected, m)
             /\ Step(IF Me.i + 1 < Me.nb_cp THEN [Me EXCEPT !.i = @ + 1]
                     ELSE [Me EXCEPT !.pc = "process", !.i = 0, !.nb_rx = @ + Me.nb_cp])
             /\ UNCHANGED <<slot, hopa_cp_send_mbuf, hopa_cp_recv_cp_hdr, arrivals, leaked,
                            nic, cp, heap, ringVars, cpVars, initVars, crashed>>

(* The datapath ends with every packet of the batch: it is dropped, or     *)
(* sent and freed when the NIC is done.  Its mbuf goes to its pool field's *)
(* pool, in an order that is left open.                                    *)
Batch == [i \in 1 .. Me.nb_rx |-> slot[i]]
Times(m, s) == Cardinality({i \in DOMAIN s : s[i] = m})

Process ==
  /\ Up /\ Me.pc = "process"
  /\ nic' = [m \in Mbuf |-> nic[m] + IF home[m] = "nic" THEN Times(m, Batch) ELSE 0]
  /\ LET back == SetToSeq({i \in 1 .. Me.nb_rx : home[slot[i]] = "cp"})
     IN  cp' = cp \o [j \in DOMAIN back |-> slot[back[j]]]
  /\ Step(Idle)
  /\ UNCHANGED <<slot, hopa_cp_send_mbuf, hopa_cp_recv_cp_hdr, arrivals, leaked, injected,
                 home, heap, ringVars, cpVars, initVars, crashed>>

-----------------------------------------------------------------------------
(* dp_netdev_recirculate, by any PMD thread, for a batch whose CP packets  *)
(* carry the headers hs.                                                   *)

RecircBegin(p) ==
  /\ Up /\ pmd[p].pc = "idle" /\ Exists("inRing")
  /\ \E hs \in BoundedSeq(Arriving[role], Burst) :
       /\ hs # <<>> /\ arrivals + Len(hs) <= MaxArrive
       /\ arrivals' = arrivals + Len(hs)
       /\ pmd' = [pmd EXCEPT ![p] = [Idle EXCEPT !.pc = "recirc", !.todo = hs]]
  /\ UNCHANGED <<slot, hopa_cp_send_mbuf, hopa_cp_recv_cp_hdr, leaked, injected, ringVars,
                 cpVars, initVars, poolVars, crashed>>

(* Copy one header to memory of the heap, whose address goes to the global *)
(* array; that rte_malloc gave NULL is not noticed.                        *)
RecircCopy(p) ==
  /\ Up /\ pmd[p].pc = "recirc" /\ pmd[p].todo # <<>>
  /\ IF heap = 0 THEN Crash("heap")
     ELSE /\ heap' = heap - 1
          /\ hopa_cp_recv_cp_hdr' = [hopa_cp_recv_cp_hdr EXCEPT
                                       ![pmd[p].nb_cp + 1] = Head(pmd[p].todo)]
          /\ pmd' = [pmd EXCEPT ![p].todo = Tail(@), ![p].nb_cp = @ + 1]
          /\ UNCHANGED <<slot, hopa_cp_send_mbuf, arrivals, leaked, injected, ringVars, cpVars,
                         initVars, nic, cp, home, crashed>>

(* rte_ring_sp_enqueue_burst; a header that does not fit is never freed.   *)
RecircEnqueue(p) ==
  /\ Up /\ pmd[p].pc = "recirc" /\ pmd[p].todo = <<>>
  /\ inRing' = Put(inRing, [i \in 1 .. pmd[p].nb_cp |-> hopa_cp_recv_cp_hdr[i]], InSize)
  /\ leaked' = leaked + pmd[p].nb_cp - (Len(inRing') - Len(inRing))
  /\ pmd' = [pmd EXCEPT ![p] = Idle]
  /\ UNCHANGED <<outRing, slot, hopa_cp_send_mbuf, hopa_cp_recv_cp_hdr, arrivals, injected,
                 cpVars, initVars, poolVars, crashed>>

-----------------------------------------------------------------------------
Main == InitPool \/ InitRings \/ InitRing("inRing", "outRing")
        \/ InitRing("outRing", "threads") \/ InitThreads
Rx == RxCount \/ RxBurst \/ RxDequeue \/ RxAppend \/ Process
Recirc(p) == RecircBegin(p) \/ RecircCopy(p) \/ RecircEnqueue(p)

Next ==
  \/ Main
  \/ Encode \/ Enqueue
  \/ Dequeue \/ Handle
  \/ Rx
  \/ \E p \in Pmd : Recirc(p)

Spec == Init /\ [][Next]_vars

(* The threads are loops without a blocking call but the pauses, and the   *)
(* polling thread comes back to every port.                                *)
FairSpec ==
  /\ Spec
  /\ WF_vars(Main) /\ WF_vars(Encode \/ Enqueue) /\ WF_vars(Dequeue) /\ WF_vars(Handle)
  /\ SF_vars(RxCount) /\ WF_vars(RxBurst) /\ WF_vars(RxDequeue) /\ WF_vars(RxAppend)
  /\ WF_vars(Process)
  /\ \A p \in Pmd : WF_vars(RecircCopy(p)) /\ WF_vars(RecircEnqueue(p))

-----------------------------------------------------------------------------
(* Types, and no ring or array holds more than it has room for.            *)
TypeOK ==
  /\ role \in Roles
  /\ init \in {"pool", "rings", "inRing", "outRing", "threads", "done"}
  /\ failed \subseteq MayFail
  /\ outRing \in BoundedSeq(Mbuf \cup {NULL}, OutSize)
  /\ inRing \in BoundedSeq(Header, InSize)
  /\ Len(mbufs) <= RoundLen /\ Len(hopa_cp_hdrs) <= Burst
  /\ best_path_id \in 0 .. PATH_NB - 1
  /\ \A p \in Pmd : pmd[p].nb_cp + pmd[p].nb_rx <= 2 * Burst /\ pmd[p].nb_rx <= Burst
  /\ slot \in [Slots -> Mbuf]
  /\ nic \in [Mbuf -> Nat] /\ cp \in Seq(Mbuf)
  /\ home \in [Mbuf -> {"nic", "cp"}]
  /\ heap \in Nat /\ leaked \in Nat /\ late \in BOOLEAN
  /\ crashed \in {"no", "null", "overrun", "wild", "heap"}

(* The order in which hopa_cp_init publishes the structure, makes the      *)
(* rings and creates the threads, and the checks in the datapath, protect  *)
(* every thread from a ring that is not there, whatever order they run in; *)
(* as long as the polling thread keeps up, no mbuf is missing and no count *)
(* is beyond the arrays; and every header is given back to the heap but    *)
(* for those the full in ring refused.  So each crash has its cause.  With *)
(* a second thread that recirculates, headers are lost in the array.  The  *)
(* wild pointer is beyond any of this.                                     *)
CrashHasCause ==
  /\ crashed = "null" => failed # {} \/ late
  /\ crashed = "overrun" => late
  /\ crashed = "heap" => leaked > 0 \/ Pmd # {Poller}

(* Pointers in the places between both pools: each counts.                 *)
InPools == FoldFunction(+, 0, nic) + Len(cp)
NonNull(s) == Cardinality({i \in DOMAIN s : s[i] # NULL})
Outstanding ==
  NonNull(mbufs) + NonNull(outRing)
  + CASE Me.pc = "dequeue" -> Me.nb_rx
      [] Me.pc = "append" -> Me.nb_rx + Me.nb_cp
      [] Me.pc = "process" -> Me.nb_rx
      [] OTHER -> 0

(* Whatever the copying does to single mbufs, the number of pointers is    *)
(* kept: each CP packet appended to a batch costs one pointer and gives    *)
(* back one, so nothing leaks from both pools together as long as the      *)
(* polling thread keeps up.  The types and the capacities come first.      *)
PointersConserved ==
  /\ TypeOK
  /\ crashed = "no" /\ failed = {} /\ init # "pool" /\ ~late =>
       InPools + Outstanding = Cardinality(Mbuf)

OutChannel == INSTANCE CpChannel WITH
  Item <- Mbuf \cup {NULL}, Capacity <- OutSize, Round <- PATH_NB,
  waiting <- (IF Me.pc = "append"
              THEN [j \in 1 .. Me.nb_cp - Me.i |-> hopa_cp_send_mbuf[Me.i + j]]
              ELSE <<>>) \o outRing,
  got <- injected
InChannel == INSTANCE CpChannel WITH
  Item <- Header, Capacity <- InSize, Round <- Burst,
  waiting <- hopa_cp_hdrs \o inRing, got <- handled

(* The out ring is a CpChannel for pointers: hopa_cp_send puts, the poll   *)
(* of pf1hpf gets, the count being read before the receive notwithstanding.*)
(* The in ring is one for headers: the recirculating thread puts, the      *)
(* handlers get, one at a time and in the order of the packets.            *)
ImplementsChannels == OutChannel!Spec /\ InChannel!Spec

(* What reached a ring gets into a batch, or is handled, and if the        *)
(* polling thread kept up that is every round, unless the process is gone. *)
AllDelivered ==
  <>[](crashed # "no" \/ /\ outRing = <<>> /\ mbufs = <<>> /\ inRing = <<>>
                         /\ hopa_cp_hdrs = <<>>
                         /\ late \/ Len(injected) = MaxRounds * RoundLen)

(* The datapath owns the packets of a batch (dpif-netdev.c:8846): an mbuf  *)
(* that a batch, the out ring or the send thread refers to is in no pool.  *)
SingleOwner ==
  crashed = "no" =>
    \A m \in Mbuf :
      nic[m] + Times(m, cp) + Times(m, outRing) + Times(m, mbufs)
      + (IF Me.pc = "process" THEN Times(m, Batch) ELSE 0) <= 1
=============================================================================
