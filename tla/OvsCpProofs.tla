---------------------------- MODULE OvsCpProofs ----------------------------
(***************************************************************************)
(* Proofs about OvsCp: its types and capacities, what it takes for the     *)
(* process to be gone, and that each direction between the control plane   *)
(* threads and the datapath is a CpChannel.                                *)
(*                                                                         *)
(* The hard part is the pool.  The datapath copies one mbuf structure over *)
(* another, and the one that was dequeued is in no pool any more; it is    *)
(* the one whose structure was overwritten that comes back.  So nothing    *)
(* can be said of single mbufs, but Homed says where the pointers that     *)
(* come back go, and Stocked that there are as many as ever.  The last     *)
(* part counts the pointers of both pools exactly; it first shows, by      *)
(* induction over finite sets, that the fold in InPools adds them up.      *)
(***************************************************************************)
EXTENDS OvsCp, FiniteSetTheorems, SequenceTheorems, WellFoundedInduction, TLAPS

(* The most packets that wait for the PMD thread when a round is made.     *)
Behind == MaxBehind * PATH_NB

(* A PMD thread: where it is, and its locals.                              *)
Thread == [pc : {"idle", "rx", "dequeue", "append", "process", "recirc"},
           nb_cp : Nat, nb_rx : Nat, i : Nat, todo : Seq(Header)]

(* The types of all variables.                                             *)
Typed ==
  /\ role \in Roles /\ failed \subseteq MayFail
  /\ init \in {"pool", "rings", "inRing", "outRing", "threads", "done"}
  /\ rings \in {NULL} \cup [inRing : BOOLEAN, outRing : BOOLEAN]
  /\ outRing \in Seq(Mbuf \cup {NULL}) /\ inRing \in Seq(Header)
  /\ mbufs \in Seq(Mbuf \cup {NULL}) /\ hopa_cp_hdrs \in Seq(Header)
  /\ best_path_id \in 0 .. PATH_NB - 1 /\ handled \in Seq(Header)
  /\ slot \in [Slots -> Mbuf] /\ hopa_cp_send_mbuf \in [Slots -> Mbuf \cup {NULL}]
  /\ hopa_cp_recv_cp_hdr \in [Slots -> Header \cup {NULL}] /\ injected \in Seq(Mbuf)
  /\ nic \in [Mbuf -> Nat] /\ cp \in Seq(Mbuf) /\ home \in [Mbuf -> {"nic", "cp"}]
  /\ crashed \in {"no", "null", "overrun", "wild", "heap"} /\ late \in BOOLEAN
  /\ pmd \in [Pmd -> Thread]

(* Only one thread ever polls pf1hpf. A thread that recirculates has room  *)
(* in the global array for what it still has to copy, and what it has      *)
(* copied are headers, whichever thread wrote them there: the array has no *)
(* lock, and every PMD thread writes to it (dpif-netdev.c).                *)
CopiesOf(p) ==
  /\ pmd[p].pc = "idle" => pmd[p] = Idle
  /\ p # Poller => pmd[p].pc \in {"idle", "recirc"}
  /\ pmd[p].pc = "recirc" =>
       /\ pmd[p].nb_cp + Len(pmd[p].todo) <= Burst /\ pmd[p].nb_rx = 0
       /\ \A j \in 1 .. pmd[p].nb_cp : hopa_cp_recv_cp_hdr[j] \in Header
Copies == \A p \in Pmd : CopiesOf(p)

(* The number of waiting packets that netdev_dpdk_rxq_recv reads before it *)
(* receives from the NIC is still there when it dequeues: only this thread *)
(* takes from the out ring. The receive leaves room for them.              *)
Polls ==
  /\ Me.pc \in {"rx", "dequeue"} =>
       Me.i = 0 /\ Me.nb_cp <= Len(outRing) /\ Me.nb_rx + Me.nb_cp <= Burst
  /\ Me.pc \in {"dequeue", "append"} => Me.nb_cp > 0
  /\ ~late /\ Me.pc \in {"rx", "dequeue", "append", "process"} => Me.nb_cp <= Behind
  /\ Me.pc = "append" => Me.i < Me.nb_cp /\ Me.nb_rx + Me.nb_cp <= Burst
  /\ Me.pc = "process" => Me.nb_cp <= Me.nb_rx /\ Me.nb_rx <= Burst

(* The capacities. As long as the polling thread keeps up, the ring has    *)
(* room for a round when it is started, and so it has until the round is   *)
(* enqueued: no enqueue of a round is cut.                                 *)
Fits ==
  /\ Len(outRing) <= OutSize
  /\ Len(mbufs) <= RoundLen
  /\ ~late => Len(outRing) <= Behind
  /\ ~late /\ mbufs # <<>> => Len(outRing) + RoundLen <= Behind
  /\ Len(inRing) <= InSize /\ Len(hopa_cp_hdrs) <= Burst

(* What hopa_cp_init has published, as far as it has come.                 *)
Made ==
  /\ init \in {"inRing", "outRing", "threads", "done"} => rings # NULL
  /\ failed = {} /\ init \in {"outRing", "threads", "done"} => rings.inRing
  /\ failed = {} /\ init \in {"threads", "done"} => rings.outRing

(* An mbuf whose pool field says hopa_cp_mp.                               *)
OfCp(m) == m = NULL \/ home[m] = "cp"
(* The pool fields, which the copying overwrites: an mbuf made for         *)
(* hopa_cp_mp never gets another one, every pointer in that pool, in the   *)
(* round, in the out ring and in the array names such an mbuf, and the     *)
(* slots that the copying has filled do when it is done.                   *)
Homed ==
  /\ \A m \in CpMbuf : OfCp(m)
  /\ \A j \in 1 .. Len(cp) : OfCp(cp[j])
  /\ \A j \in 1 .. Len(mbufs) : OfCp(mbufs[j])
  /\ \A j \in 1 .. Len(outRing) : OfCp(outRing[j])
  /\ Me.pc = "append" =>
       /\ \A j \in Me.i + 1 .. Me.nb_cp : OfCp(hopa_cp_send_mbuf[j])
       /\ \A j \in Me.nb_rx + 1 .. Me.nb_rx + Me.i : OfCp(slot[j])
  /\ Me.pc = "process" => \A j \in Me.nb_rx - Me.nb_cp + 1 .. Me.nb_rx : OfCp(slot[j])

(* Packets the PMD thread has taken from the ring and not ended yet.       *)
Taken == IF Me.pc \in {"append", "process"} THEN Me.nb_cp ELSE 0
(* hopa_cp_mp, the round, the ring and the batch together never hold fewer *)
(* pointers than were made for the pool. With the room that RoomAssumption *)
(* states, the pool is never empty when an encoder asks, so no NULL gets   *)
(* into the ring.                                                          *)
Stocked ==
  failed = {} /\ ~late =>
    /\ init # "pool" => Len(cp) + Len(mbufs) + Len(outRing) + Taken >= Cardinality(CpMbuf)
    /\ \A j \in 1 .. Len(mbufs) : mbufs[j] # NULL
    /\ \A j \in 1 .. Len(outRing) : outRing[j] # NULL
    /\ Me.pc = "append" => \A j \in Me.i + 1 .. Me.nb_cp : hopa_cp_send_mbuf[j] # NULL

(* A null pointer has its cause, and so has a count beyond the arrays.     *)
Caused ==
  /\ crashed = "null" => failed # {} \/ late
  /\ crashed = "overrun" => late

(* The inductive invariant.                                                *)
Inv == Typed /\ Copies /\ Polls /\ Fits /\ Made /\ Homed /\ Stocked /\ Caused

-----------------------------------------------------------------------------
(* The minimum of the library, for two numbers.                            *)
LEMMA MinOfTwo ==
  \A a, b \in Int :
         /\ Min({a, b}) \in {a, b}
         /\ Min({a, b}) <= a /\ Min({a, b}) <= b
<1> TAKE a, b \in Int
<1>1. \E x \in {a, b} : \A y \in {a, b} : x =< y
  OBVIOUS
<1> QED
  BY <1>1 DEF Min

(* What the assumptions on the sizes say of Behind.                        *)
LEMMA Sizes ==
  /\ Behind \in Nat /\ Behind <= Burst /\ Behind <= OutSize
  /\ 2 * Behind <= Cardinality(CpMbuf) /\ Cardinality(CpMbuf) \in Nat
<1>1. MaxBehind \in Nat /\ PATH_NB \in Nat
  BY SetsAssumption
<1>2. Behind \in Nat
  BY <1>1 DEF Behind
<1>3. 2 * MaxBehind * PATH_NB = 2 * Behind
  BY <1>1 DEF Behind
<1>4. Cardinality(CpMbuf) \in Nat
  BY SetsAssumption, FS_CardinalityType
<1> QED
  BY <1>2, <1>3, <1>4, PacedAssumption, RoomAssumption DEF Behind

(* A round has a packet, and one for each path at most.                    *)
LEMMA RoundLenNat == RoundLen \in Nat /\ RoundLen >= 1 /\ RoundLen <= PATH_NB
  BY SetsAssumption DEF RoundLen

(* An enqueue keeps a prefix: all of it, or as much as fills the ring.     *)
LEMMA PutSplits ==
  ASSUME NEW S, NEW ring \in Seq(S), NEW s \in Seq(S), NEW size \in Nat, Len(ring) <= size
  PROVE  \E k \in 0 .. Len(s) :
           /\ Put(ring, s, size) = ring \o SubSeq(s, 1, k)
           /\ k = Len(s) \/ Len(ring) + k = size
           /\ Len(ring) + k <= size
<1> DEFINE n == Min({Len(s), size - Len(ring)})
<1>1. size - Len(ring) \in Int /\ Len(s) \in Int
  OBVIOUS
<1>2. n \in {Len(s), size - Len(ring)} /\ n <= Len(s) /\ n <= size - Len(ring)
  BY <1>1, MinOfTwo, Zenon
<1> HIDE DEF n
<1>3. n \in 0 .. Len(s) /\ Len(ring) + n <= size /\ (n = Len(s) \/ Len(ring) + n = size)
  BY <1>1, <1>2
<1>4. Put(ring, s, size) = ring \o SubSeq(s, 1, n)
  BY DEF Put, n
<1> QED
  BY <1>3, <1>4

(* A sequence with a prefix of another behind it.                          *)
LEMMA Prefixed ==
  ASSUME NEW S, NEW r \in Seq(S), NEW s \in Seq(S), NEW k \in 0 .. Len(s)
  PROVE  /\ r \o SubSeq(s, 1, k) \in Seq(S)
         /\ Len(r \o SubSeq(s, 1, k)) = Len(r) + k
         /\ \A j \in 1 .. Len(r) + k :
              (r \o SubSeq(s, 1, k))[j] = IF j <= Len(r) THEN r[j] ELSE s[j - Len(r)]
<1>1. SubSeq(s, 1, k) \in Seq(S) /\ Len(SubSeq(s, 1, k)) = k
  OBVIOUS
<1>2. \A j \in 1 .. k : SubSeq(s, 1, k)[j] = s[j]
  OBVIOUS
<1> DEFINE t == SubSeq(s, 1, k)
<1> HIDE DEF t
<1>3. t \in Seq(S) /\ Len(t) = k /\ \A j \in 1 .. k : t[j] = s[j]
  BY <1>1, <1>2 DEF t
<1>4. /\ r \o t \in Seq(S) /\ Len(r \o t) = Len(r) + Len(t)
      /\ \A j \in 1 .. Len(r) + Len(t) :
           (r \o t)[j] = IF j <= Len(r) THEN r[j] ELSE t[j - Len(r)]
  BY <1>3, ConcatProperties
<1>5. \A j \in 1 .. Len(r) + k : ~(j <= Len(r)) => t[j - Len(r)] = s[j - Len(r)]
  BY <1>3
<1> QED
  BY <1>3, <1>4, <1>5 DEF t

(* What a dequeue of n leaves in a ring.                                   *)
LEMMA Suffix ==
  ASSUME NEW S, NEW s \in Seq(S), NEW n \in 0 .. Len(s)
  PROVE  /\ SubSeq(s, n + 1, Len(s)) \in Seq(S)
         /\ Len(SubSeq(s, n + 1, Len(s))) = Len(s) - n
         /\ \A j \in 1 .. Len(s) - n : SubSeq(s, n + 1, Len(s))[j] = s[n + j]
  OBVIOUS

(* Append, element by element.                                             *)
LEMMA Appended ==
  ASSUME NEW S, NEW s \in Seq(S), NEW e \in S
  PROVE  /\ Append(s, e) \in Seq(S) /\ Len(Append(s, e)) = Len(s) + 1
         /\ \A j \in 1 .. Len(s) + 1 : Append(s, e)[j] = IF j <= Len(s) THEN s[j] ELSE e
  OBVIOUS

(* Head and Tail, element by element.                                      *)
LEMMA Tailed ==
  ASSUME NEW S, NEW s \in Seq(S), s # <<>>
  PROVE  /\ Tail(s) \in Seq(S) /\ Len(Tail(s)) = Len(s) - 1 /\ Len(s) > 0
         /\ Head(s) = s[1] /\ Head(s) \in S
         /\ \A j \in 1 .. Len(s) - 1 : Tail(s)[j] = s[j + 1]
  OBVIOUS

(* Sequences of at most n elements.                                        *)
LEMMA Bounded ==
  ASSUME NEW S, NEW s \in Seq(S), NEW n \in Nat, Len(s) <= n
  PROVE  s \in BoundedSeq(S, n)
<1>1. s \in [1 .. Len(s) -> S] /\ Len(s) \in 0 .. n
  OBVIOUS
<1> QED
  BY <1>1 DEF BoundedSeq, SeqOf

(* Putting behind a part puts behind the whole.                            *)
LEMMA PutBehind ==
  \A S : \A s, t, u \in Seq(S) : s \o (t \o u) = (s \o t) \o u
<1> TAKE S
<1> TAKE s, t, u \in Seq(S)
<1> QED
  BY ConcatAssociative, SMTT(30)

(* SetToSeq gives every element of a finite set one place.                 *)
LEMMA SeqOfSet ==
  ASSUME NEW S, IsFiniteSet(S)
  PROVE  /\ SetToSeq(S) \in Seq(S) /\ Len(SetToSeq(S)) = Cardinality(S)
         /\ Cardinality(S) \in Nat
<1> DEFINE n == Cardinality(S)
<1>1. n \in Nat
  BY FS_CardinalityType
<1>2. ExistsBijection(1 .. n, S)
  BY FS_CardinalityType DEF n
<1>3. PICK f \in Bijection(1 .. n, S) : TRUE
  BY <1>2 DEF ExistsBijection
<1>4. f \in [1 .. n -> S] /\ IsInjective(f)
  BY <1>3 DEF Bijection, Injection, IsInjective
<1>5. SetToSeq(S) \in [1 .. n -> S]
  BY <1>4, Zenon DEF SetToSeq
<1> HIDE DEF n
<1> DEFINE q == SetToSeq(S)
<1>6. q \in [1 .. n -> S]
  BY <1>5
<1> HIDE DEF q
<1>7. q \in Seq(S) /\ Len(q) = n
  BY <1>1, <1>6
<1> QED
  BY <1>7, <1>1 DEF q, n

-----------------------------------------------------------------------------

(* A step of the poll changes the polling thread only.                     *)
LEMMA MeStep ==
  ASSUME pmd \in [Pmd -> Thread], NEW r \in Thread, Step(r)
  PROVE  /\ Me' = r /\ pmd' \in [Pmd -> Thread]
         /\ \A p \in Pmd \ {Poller} : pmd'[p] = pmd[p]
<1>1. Poller \in Pmd
  BY SetsAssumption
<1> QED
  BY <1>1 DEF Step, Me

(* The polling thread is one.                                              *)
LEMMA MeThread ==
  ASSUME pmd \in [Pmd -> Thread]
  PROVE  Me \in Thread
  BY SetsAssumption DEF Me

(* An idle thread is one.                                                  *)
LEMMA IdleThread == Idle \in Thread
  BY DEF Idle, Thread

(* What the steps of the poll do to the thread.                            *)
LEMMA CountEffect ==
  ASSUME Typed, Copies, RxCount, crashed' = "no"
  PROVE  /\ pmd' \in [Pmd -> Thread] /\ \A p \in Pmd \ {Poller} : pmd'[p] = pmd[p]
         /\ Me.pc = "idle" /\ Me'.pc = "rx" /\ Me'.nb_rx = 0 /\ Me'.i = 0
         /\ Me'.nb_cp = IF Exists("outRing") THEN Len(outRing) ELSE 0
         /\ UNCHANGED <<slot, hopa_cp_send_mbuf, hopa_cp_recv_cp_hdr, arrivals, injected,
                        ringVars, cpVars, initVars, poolVars, crashed>>
<1>1. Me \in Thread /\ pmd \in [Pmd -> Thread]
  BY MeThread DEF Typed
<1>2. Me = Idle
  BY SetsAssumption DEF Copies, CopiesOf, RxCount, Me
<1> DEFINE n == IF Exists("outRing") THEN Len(outRing) ELSE 0
           r == [Me EXCEPT !.pc = "rx", !.nb_cp = n]
<1>3. n \in Nat
  BY DEF Typed
<1>4. Step(r) /\ UNCHANGED <<slot, hopa_cp_send_mbuf, hopa_cp_recv_cp_hdr, arrivals,
                             injected, ringVars, cpVars, initVars, poolVars, crashed>>
  BY DEF RxCount, Crash, Up
<1> HIDE DEF n
<1>5. r \in Thread /\ r.pc = "rx" /\ r.nb_rx = 0 /\ r.i = 0 /\ r.nb_cp = n
  BY <1>1, <1>2, <1>3 DEF Thread, Idle
<1> HIDE DEF r
<1>6. /\ Me' = r /\ pmd' \in [Pmd -> Thread]
      /\ \A p \in Pmd \ {Poller} : pmd'[p] = pmd[p]
  BY <1>1, <1>4, <1>5, MeStep
<1>7. Me.pc = "idle"
  BY DEF RxCount
<1> QED
  BY <1>4, <1>5, <1>6, <1>7 DEF n

(* A receive from the NIC fills no more slots than the count left.         *)
LEMMA BurstEffect ==
  ASSUME Typed, RxBurst
  PROVE  /\ pmd' \in [Pmd -> Thread] /\ \A p \in Pmd \ {Poller} : pmd'[p] = pmd[p]
         /\ Me.pc = "rx" /\ slot' \in [Slots -> Mbuf] /\ nic' \in [Mbuf -> Nat]
         /\ \/ Me' = Idle
            \/ /\ Me'.pc = "process" /\ Me.nb_cp = 0 /\ Me'.nb_rx \in 0 .. Burst
               /\ Me'.nb_cp = Me.nb_cp /\ Me'.i = Me.i
            \/ /\ Me'.pc = "dequeue" /\ Me.nb_cp > 0
               /\ Me'.nb_rx \in 0 .. Burst - Me.nb_cp
               /\ Me'.nb_cp = Me.nb_cp /\ Me'.i = Me.i
         /\ UNCHANGED <<hopa_cp_send_mbuf, hopa_cp_recv_cp_hdr, arrivals, injected, ringVars,
                        cpVars, initVars, cp, home, crashed>>
<1>1. Me \in Thread /\ pmd \in [Pmd -> Thread] /\ slot \in [Slots -> Mbuf]
  BY MeThread DEF Typed
<1>a. PICK n \in 0 .. Burst - Me.nb_cp : \E f \in [1 .. n -> Mbuf] :
         /\ \A i \in 1 .. n : Cardinality({j \in 1 .. n : f[j] = f[i]}) <= nic[f[i]]
         /\ slot' = [i \in Slots |-> IF i <= n THEN f[i] ELSE slot[i]]
         /\ nic' = [m \in Mbuf |-> nic[m] - Cardinality({i \in 1 .. n : f[i] = m})]
         /\ Step(IF Me.nb_cp > 0 THEN [Me EXCEPT !.pc = "dequeue", !.nb_rx = n]
                 ELSE IF n > 0 THEN [Me EXCEPT !.pc = "process", !.nb_rx = n]
                 ELSE Idle)
  BY DEF RxBurst
<1>2. PICK f \in [1 .. n -> Mbuf] :
         /\ \A i \in 1 .. n : Cardinality({j \in 1 .. n : f[j] = f[i]}) <= nic[f[i]]
         /\ slot' = [i \in Slots |-> IF i <= n THEN f[i] ELSE slot[i]]
         /\ nic' = [m \in Mbuf |-> nic[m] - Cardinality({i \in 1 .. n : f[i] = m})]
         /\ Step(IF Me.nb_cp > 0 THEN [Me EXCEPT !.pc = "dequeue", !.nb_rx = n]
                 ELSE IF n > 0 THEN [Me EXCEPT !.pc = "process", !.nb_rx = n]
                 ELSE Idle)
  BY <1>a
<1>3. n \in Nat /\ Burst \in Nat /\ Me.nb_cp \in Nat /\ n <= Burst - Me.nb_cp
  BY <1>1, SetsAssumption DEF Thread
<1>4. slot' \in [Slots -> Mbuf]
  BY <1>1, <1>2, <1>3 DEF Slots
<1>5. nic' \in [Mbuf -> Nat]
  <2> SUFFICES ASSUME NEW m \in Mbuf
               PROVE  nic[m] - Cardinality({i \in 1 .. n : f[i] = m}) \in Nat
    BY <1>2
  <2> DEFINE K == {i \in 1 .. n : f[i] = m}
  <2>1. nic[m] \in Nat
    BY DEF Typed
  <2>2. IsFiniteSet(1 .. n)
    BY <1>3, FS_Interval
  <2>3. IsFiniteSet(K) /\ Cardinality(K) \in Nat
    BY <2>2, FS_Subset, FS_CardinalityType
  <2>4. CASE K = {}
    <3>1. Cardinality(K) = 0
      BY <2>4, FS_EmptySet
    <3> HIDE DEF K
    <3> QED
      BY <2>1, <3>1 DEF K
  <2>5. CASE K # {}
    <3>1. PICK i \in 1 .. n : f[i] = m
      BY <2>5
    <3>2. Cardinality({j \in 1 .. n : f[j] = f[i]}) <= nic[f[i]]
      BY <1>2
    <3>3. Cardinality(K) <= nic[m]
      BY <3>1, <3>2
    <3> HIDE DEF K
    <3> QED
      BY <2>1, <2>3, <3>3 DEF K
  <2> QED
    BY <2>4, <2>5
<1>6. CASE Me.nb_cp > 0
  <2> DEFINE r == [Me EXCEPT !.pc = "dequeue", !.nb_rx = n]
  <2>1. r \in Thread /\ r.pc = "dequeue" /\ r.nb_rx = n /\ r.nb_cp = Me.nb_cp /\ r.i = Me.i
    BY <1>1, <1>3 DEF Thread
  <2>2. Step(r)
    BY <1>2, <1>6
  <2> HIDE DEF r
  <2>3. Me' = r /\ pmd' \in [Pmd -> Thread] /\ \A p \in Pmd \ {Poller} : pmd'[p] = pmd[p]
    BY <1>1, <2>1, <2>2, MeStep
  <2> QED
    BY <1>3, <1>4, <1>5, <1>6, <2>1, <2>3 DEF RxBurst
<1>7. CASE ~(Me.nb_cp > 0) /\ n > 0
  <2> DEFINE r == [Me EXCEPT !.pc = "process", !.nb_rx = n]
  <2>1. r \in Thread /\ r.pc = "process" /\ r.nb_rx = n /\ r.nb_cp = Me.nb_cp /\ r.i = Me.i
    BY <1>1, <1>3 DEF Thread
  <2>2. Step(r)
    BY <1>2, <1>7
  <2> HIDE DEF r
  <2>3. Me' = r /\ pmd' \in [Pmd -> Thread] /\ \A p \in Pmd \ {Poller} : pmd'[p] = pmd[p]
    BY <1>1, <2>1, <2>2, MeStep
  <2>4. Me.nb_cp = 0 /\ n \in 0 .. Burst
    BY <1>3, <1>7
  <2> QED
    BY <1>4, <1>5, <2>1, <2>3, <2>4 DEF RxBurst
<1>8. CASE ~(Me.nb_cp > 0) /\ ~(n > 0)
  <2>1. Step(Idle)
    BY <1>2, <1>8
  <2>2. Me' = Idle /\ pmd' \in [Pmd -> Thread] /\ \A p \in Pmd \ {Poller} : pmd'[p] = pmd[p]
    BY <1>1, <2>1, MeStep, IdleThread
  <2> QED
    BY <1>4, <1>5, <2>2 DEF RxBurst
<1> QED
  BY <1>6, <1>7, <1>8

(* The nb_cp counted before are still there.                               *)
LEMMA DequeueEffect ==
  ASSUME Typed, Polls, RxDequeue
  PROVE  /\ pmd' \in [Pmd -> Thread] /\ \A p \in Pmd \ {Poller} : pmd'[p] = pmd[p]
         /\ Me.pc = "dequeue" /\ Me'.pc = "append"
         /\ Me'.nb_cp = Me.nb_cp /\ Me'.nb_rx = Me.nb_rx /\ Me'.i = Me.i /\ Me.i = 0
         /\ Me.nb_cp \in 1 .. Len(outRing) /\ Me.nb_rx \in Nat /\ Me.nb_cp <= Burst
         /\ outRing' = SubSeq(outRing, Me.nb_cp + 1, Len(outRing))
         /\ hopa_cp_send_mbuf' \in [Slots -> Mbuf \cup {NULL}]
         /\ \A j \in 1 .. Me.nb_cp : hopa_cp_send_mbuf'[j] = outRing[j]
         /\ UNCHANGED <<inRing, slot, hopa_cp_recv_cp_hdr, arrivals, injected, cpVars,
                        initVars, poolVars, crashed>>
<1>1. Me \in Thread /\ pmd \in [Pmd -> Thread] /\ outRing \in Seq(Mbuf \cup {NULL})
  BY MeThread DEF Typed
<1>2. /\ Me.pc = "dequeue" /\ Me.i = 0 /\ Me.nb_cp <= Len(outRing) /\ Me.nb_cp > 0
      /\ Me.nb_rx + Me.nb_cp <= Burst /\ Me.nb_cp \in Nat /\ Me.nb_rx \in Nat
  BY <1>1 DEF Polls, RxDequeue, Thread
<1>3. Min({Len(outRing), Me.nb_cp}) = Me.nb_cp
  <2>1. Len(outRing) \in Int /\ Me.nb_cp \in Int
    BY <1>1, <1>2
  <2>2. LET n == Min({Len(outRing), Me.nb_cp})
        IN  n \in {Len(outRing), Me.nb_cp} /\ n <= Len(outRing) /\ n <= Me.nb_cp
    BY <2>1, MinOfTwo, Zenon
  <2> QED
    BY <1>2, <2>1, <2>2
<1>4. /\ hopa_cp_send_mbuf' = [i \in Slots |-> IF i <= Me.nb_cp THEN outRing[i]
                                                ELSE hopa_cp_send_mbuf[i]]
      /\ outRing' = SubSeq(outRing, Me.nb_cp + 1, Len(outRing))
      /\ Step([Me EXCEPT !.pc = "append"])
  BY <1>3 DEF RxDequeue
<1>5. Burst \in Nat /\ Me.nb_cp <= Burst
  BY <1>2, SetsAssumption
<1>6. \A j \in 1 .. Len(outRing) : outRing[j] \in Mbuf \cup {NULL}
  BY <1>1
<1>7. hopa_cp_send_mbuf' \in [Slots -> Mbuf \cup {NULL}]
  <2>1. hopa_cp_send_mbuf \in [Slots -> Mbuf \cup {NULL}]
    BY DEF Typed
  <2>2. ASSUME NEW i \in Slots, i <= Me.nb_cp
        PROVE  outRing[i] \in Mbuf \cup {NULL}
    <3>1. i \in 1 .. Len(outRing)
      BY <1>1, <1>2, <1>5, <2>2 DEF Slots
    <3> QED
      BY <1>6, <3>1
  <2> QED
    BY <1>4, <2>1, <2>2
<1>8. \A j \in 1 .. Me.nb_cp : hopa_cp_send_mbuf'[j] = outRing[j]
  BY <1>2, <1>4, <1>5 DEF Slots
<1> DEFINE r == [Me EXCEPT !.pc = "append"]
<1>9. /\ r \in Thread /\ r.pc = "append" /\ r.nb_cp = Me.nb_cp /\ r.nb_rx = Me.nb_rx
      /\ r.i = Me.i
  BY <1>1 DEF Thread
<1> HIDE DEF r
<1>10. Me' = r /\ pmd' \in [Pmd -> Thread] /\ \A p \in Pmd \ {Poller} : pmd'[p] = pmd[p]
  BY <1>1, <1>4, <1>9, MeStep DEF r
<1>11. Me.nb_cp \in 1 .. Len(outRing)
  BY <1>1, <1>2
<1> QED
  BY <1>2, <1>4, <1>5, <1>7, <1>8, <1>9, <1>10, <1>11 DEF RxDequeue

(* A turn of the copying loop, one that finds an mbuf.                     *)
LEMMA AppendEffect ==
  ASSUME Typed, Polls, RxAppend, crashed' = "no"
  PROVE  /\ pmd' \in [Pmd -> Thread] /\ \A p \in Pmd \ {Poller} : pmd'[p] = pmd[p]
         /\ Me.pc = "append" /\ Me.i \in Nat /\ Me.nb_cp \in Nat /\ Me.nb_rx \in Nat
         /\ Me.i < Me.nb_cp /\ Me'.nb_cp = Me.nb_cp
         /\ \/ Me'.pc = "append" /\ Me'.i = Me.i + 1 /\ Me'.nb_rx = Me.nb_rx
               /\ Me.i + 1 < Me.nb_cp
            \/ Me'.pc = "process" /\ Me.i + 1 = Me.nb_cp /\ Me'.nb_rx = Me.nb_rx + Me.nb_cp
               /\ Me'.i = 0
         /\ Me.i + 1 \in Slots /\ Me.nb_rx + Me.i + 1 \in Slots
         /\ hopa_cp_send_mbuf[Me.i + 1] \in Mbuf
         /\ home' = [home EXCEPT ![slot[Me.nb_rx + Me.i + 1]] =
                                   home[hopa_cp_send_mbuf[Me.i + 1]]]
         /\ injected' = Append(injected, hopa_cp_send_mbuf[Me.i + 1])
         /\ UNCHANGED <<slot, hopa_cp_send_mbuf, hopa_cp_recv_cp_hdr, arrivals, nic, cp,
                        ringVars, cpVars, initVars, crashed>>
<1>1. Me \in Thread /\ pmd \in [Pmd -> Thread]
  BY MeThread DEF Typed
<1>2. /\ Me.pc = "append" /\ Me.i \in Nat /\ Me.nb_cp \in Nat /\ Me.nb_rx \in Nat
      /\ Me.i < Me.nb_cp /\ Me.nb_rx + Me.nb_cp <= Burst
  BY <1>1 DEF Polls, RxAppend, Thread
<1>3. Burst \in Nat
  BY SetsAssumption
<1>4. Me.i + 1 \in Slots /\ Me.nb_rx + Me.i + 1 \in Slots
  BY <1>2, <1>3 DEF Slots
<1> DEFINE m == hopa_cp_send_mbuf[Me.i + 1]
           r == IF Me.i + 1 < Me.nb_cp THEN [Me EXCEPT !.i = @ + 1]
                ELSE [Me EXCEPT !.pc = "process", !.i = 0, !.nb_rx = @ + Me.nb_cp]
<1>5. crashed = "no" /\ m # NULL
  BY DEF RxAppend, Crash, Up
<1>6. m \in Mbuf
  BY <1>4, <1>5 DEF Typed
<1>7. /\ home' = [home EXCEPT ![slot[Me.nb_rx + Me.i + 1]] = home[m]]
      /\ injected' = Append(injected, m) /\ Step(r)
      /\ UNCHANGED <<slot, hopa_cp_send_mbuf, hopa_cp_recv_cp_hdr, arrivals, nic, cp,
                     ringVars, cpVars, initVars, crashed>>
  BY <1>5 DEF RxAppend, Crash
<1> HIDE DEF m
<1>8. /\ r \in Thread /\ r.nb_cp = Me.nb_cp
      /\ \/ r.pc = "append" /\ r.i = Me.i + 1 /\ r.nb_rx = Me.nb_rx /\ Me.i + 1 < Me.nb_cp
         \/ r.pc = "process" /\ Me.i + 1 = Me.nb_cp /\ r.nb_rx = Me.nb_rx + Me.nb_cp /\ r.i = 0
  <2>1. CASE Me.i + 1 < Me.nb_cp
    <3>1. r = [Me EXCEPT !.i = @ + 1]
      BY <2>1
    <3>2. Me.i + 1 \in Nat /\ r = [Me EXCEPT !.i = Me.i + 1]
      BY <1>2, <3>1
    <3> HIDE DEF r
    <3>3. r \in Thread
      BY <1>1, <3>2 DEF Thread
    <3>4. /\ r.nb_cp = Me.nb_cp /\ r.pc = Me.pc /\ r.nb_rx = Me.nb_rx
          /\ r.i = Me.i + 1
      BY <1>1, <3>2 DEF Thread
    <3> QED
      BY <1>2, <2>1, <3>3, <3>4
  <2>2. CASE ~(Me.i + 1 < Me.nb_cp)
    <3>1. r = [Me EXCEPT !.pc = "process", !.i = 0, !.nb_rx = @ + Me.nb_cp]
      BY <2>2
    <3>2. Me.i + 1 = Me.nb_cp
      BY <1>2, <2>2
    <3>3. /\ Me.nb_rx + Me.nb_cp \in Nat
          /\ r = [Me EXCEPT !.pc = "process", !.i = 0, !.nb_rx = Me.nb_rx + Me.nb_cp]
      BY <1>2, <3>1
    <3> HIDE DEF r
    <3>4. r \in Thread
      BY <1>1, <3>3 DEF Thread
    <3>5. /\ r.nb_cp = Me.nb_cp /\ r.pc = "process" /\ r.nb_rx = Me.nb_rx + Me.nb_cp
          /\ r.i = 0
      BY <1>1, <3>3 DEF Thread
    <3> QED
      BY <3>2, <3>4, <3>5
  <2> QED
    BY <2>1, <2>2
<1> HIDE DEF r
<1>9. Me' = r /\ pmd' \in [Pmd -> Thread] /\ \A p \in Pmd \ {Poller} : pmd'[p] = pmd[p]
  BY <1>1, <1>7, <1>8, MeStep
<1> QED
  BY <1>2, <1>4, <1>6, <1>7, <1>8, <1>9 DEF m

(* Every slot whose mbuf is of hopa_cp_mp gives a pointer back.            *)
LEMMA ProcessEffect ==
  ASSUME Typed, Polls, Process
  PROVE  /\ pmd' \in [Pmd -> Thread] /\ \A p \in Pmd \ {Poller} : pmd'[p] = pmd[p]
         /\ Me.pc = "process" /\ Me' = Idle
         /\ Me.nb_cp \in Nat /\ Me.nb_rx \in Nat /\ Me.nb_cp <= Me.nb_rx /\ Me.nb_rx <= Burst
         /\ nic' \in [Mbuf -> Nat] /\ cp' \in Seq(Mbuf)
         /\ Len(cp') = Len(cp) + Cardinality({i \in 1 .. Me.nb_rx : home[slot[i]] = "cp"})
         /\ \A j \in 1 .. Len(cp) : cp'[j] = cp[j]
         /\ \A j \in Len(cp) + 1 .. Len(cp') : home[cp'[j]] = "cp"
         /\ UNCHANGED <<slot, hopa_cp_send_mbuf, hopa_cp_recv_cp_hdr, arrivals, injected, home,
                        ringVars, cpVars, initVars, crashed>>
<1>1. Me \in Thread /\ pmd \in [Pmd -> Thread] /\ cp \in Seq(Mbuf) /\ slot \in [Slots -> Mbuf]
  BY MeThread DEF Typed
<1>2. /\ Me.pc = "process" /\ Me.nb_cp \in Nat /\ Me.nb_rx \in Nat /\ Me.nb_cp <= Me.nb_rx
      /\ Me.nb_rx <= Burst
  BY <1>1 DEF Polls, Process, Thread
<1>3. Me' = Idle /\ pmd' \in [Pmd -> Thread] /\ \A p \in Pmd \ {Poller} : pmd'[p] = pmd[p]
  BY <1>1, MeStep, IdleThread DEF Process
<1>4. nic' \in [Mbuf -> Nat]
  <2> SUFFICES ASSUME NEW m \in Mbuf
               PROVE  nic[m] + (IF home[m] = "nic" THEN Times(m, Batch) ELSE 0) \in Nat
    BY DEF Process
  <2>1. nic[m] \in Nat
    BY DEF Typed
  <2>2. Times(m, Batch) \in Nat
    <3>1. IsFiniteSet(DOMAIN Batch)
      BY <1>2, FS_Interval DEF Batch
    <3> QED
      BY <3>1, FS_Subset, FS_CardinalityType DEF Times
  <2> QED
    BY <2>1, <2>2
<1> DEFINE B == {i \in 1 .. Me.nb_rx : home[slot[i]] = "cp"}
           back == SetToSeq(B)
           t == [j \in DOMAIN back |-> slot[back[j]]]
<1>5. cp' = cp \o t
  BY DEF Process
<1>6. IsFiniteSet(B)
  <2>1. IsFiniteSet(1 .. Me.nb_rx)
    BY <1>2, FS_Interval
  <2> QED
    BY <2>1, FS_Subset
<1>7. back \in Seq(B) /\ Len(back) = Cardinality(B) /\ Cardinality(B) \in Nat
  BY <1>6, SeqOfSet
<1>8. \A k \in B : k \in Slots /\ home[slot[k]] = "cp" /\ slot[k] \in Mbuf
  BY <1>1, <1>2, SetsAssumption DEF Slots
<1> HIDE DEF B, back
<1>9. /\ t \in Seq(Mbuf) /\ Len(t) = Cardinality(B)
      /\ \A j \in 1 .. Len(t) : home[t[j]] = "cp"
  <2>1. \A j \in 1 .. Len(back) : back[j] \in B
    BY <1>7
  <2>2. DOMAIN back = 1 .. Len(back) /\ Len(back) \in Nat
    BY <1>7
  <2>3. t \in [1 .. Len(back) -> Mbuf]
    BY <1>8, <2>1, <2>2
  <2>4. \A j \in 1 .. Len(back) : home[t[j]] = "cp"
    BY <1>8, <2>1, <2>2
  <2> HIDE DEF t
  <2> QED
    BY <1>7, <2>2, <2>3, <2>4
<1> HIDE DEF t
<1>10. /\ cp' \in Seq(Mbuf) /\ Len(cp') = Len(cp) + Len(t)
       /\ \A j \in 1 .. Len(cp) + Len(t) :
            cp'[j] = IF j <= Len(cp) THEN cp[j] ELSE t[j - Len(cp)]
  BY <1>1, <1>5, <1>9, ConcatProperties
<1>11. Len(cp) \in Nat /\ Len(t) \in Nat
  BY <1>1, <1>9
<1>12. \A j \in 1 .. Len(cp) : cp'[j] = cp[j]
  BY <1>10, <1>11
<1>13. \A j \in Len(cp) + 1 .. Len(cp') : home[cp'[j]] = "cp"
  <2> SUFFICES ASSUME NEW j \in Len(cp) + 1 .. Len(cp')
               PROVE  home[cp'[j]] = "cp"
    OBVIOUS
  <2>1. j - Len(cp) \in 1 .. Len(t) /\ j \in 1 .. Len(cp) + Len(t) /\ ~(j <= Len(cp))
    BY <1>10, <1>11
  <2>2. cp'[j] = t[j - Len(cp)]
    BY <1>10, <2>1
  <2> QED
    BY <1>9, <2>1, <2>2
<1>14. UNCHANGED <<slot, hopa_cp_send_mbuf, hopa_cp_recv_cp_hdr, arrivals, injected, home,
                   ringVars, cpVars, initVars, crashed>>
  BY DEF Process
<1> QED
  BY <1>2, <1>3, <1>4, <1>9, <1>10, <1>12, <1>13, <1>14 DEF B

-----------------------------------------------------------------------------
(* A null or wild pointer or an overrun ends the process, and nothing else *)
(* changes.                                                                *)
Crashes ==
  /\ crashed' \in {"null", "overrun", "wild", "heap"}
  /\ UNCHANGED <<ringVars, cpVars, initVars, poolVars, pmdVars>>

(* A step crashes, is one of hopa_cp_init, or leaves the process up.       *)
LEMMA NextCases ==
  ASSUME Next
  PROVE  /\ crashed = "no"
         /\ \/ /\ Crashes
               /\ Enqueue \/ Dequeue \/ RxCount \/ RxAppend \/ \E p \in Pmd : RecircCopy(p)
            \/ Main
            \/ /\ crashed' = "no"
               /\ \/ Encode \/ Enqueue \/ Dequeue \/ Handle
                  \/ RxCount \/ RxBurst \/ RxDequeue \/ RxAppend \/ Process
                  \/ \E p \in Pmd : RecircBegin(p) \/ RecircCopy(p) \/ RecircEnqueue(p)
<1>1. CASE Main
  BY <1>1 DEF Main, InitPool, InitRings, InitRing, InitThreads, Up
<1>2. CASE Encode \/ Handle \/ RxBurst \/ RxDequeue \/ Process
  BY <1>2 DEF Encode, Handle, RxBurst, RxDequeue, Process, Up
<1>3. CASE Enqueue
  BY <1>3 DEF Enqueue, Up, Crash, Crashes
<1>4. CASE Dequeue
  BY <1>4 DEF Dequeue, Up, Crash, Crashes
<1>5. CASE RxCount
  BY <1>5 DEF RxCount, Up, Crash, Crashes
<1>6. CASE RxAppend
  BY <1>6 DEF RxAppend, Up, Crash, Crashes
<1>7. CASE \E p \in Pmd : Recirc(p)
  BY <1>7 DEF Recirc, RecircBegin, RecircCopy, RecircEnqueue, Up, Crash, Crashes
<1> QED
  BY <1>1, <1>2, <1>3, <1>4, <1>5, <1>6, <1>7 DEF Next, Rx

(* So does a step of the poll.                                             *)
LEMMA RxCases ==
  ASSUME Rx
  PROVE  \/ Crashes
         \/ /\ crashed' = "no"
            /\ RxCount \/ RxBurst \/ RxDequeue \/ RxAppend \/ Process
<1>1. CASE RxBurst \/ RxDequeue \/ Process
  BY <1>1 DEF RxBurst, RxDequeue, Process, Up
<1>2. CASE RxCount
  BY <1>2 DEF RxCount, Up, Crash, Crashes
<1>3. CASE RxAppend
  BY <1>3 DEF RxAppend, Up, Crash, Crashes
<1> QED
  BY <1>1, <1>2, <1>3 DEF Rx

(* Everything an invariant is about but what hopa_cp_init makes.           *)
LEMMA MainFrame ==
  ASSUME Main
  PROVE  UNCHANGED <<role, ringVars, cpVars, nic, home, pmdVars>>
  BY DEF Main, InitPool, InitRings, InitRing, InitThreads, poolVars

(* An encoder adds one mbuf of the pool to the round, or NULL.             *)
LEMMA SenderEffect ==
  ASSUME Typed, Encode
  PROVE  /\ \/ cp # <<>> /\ mbufs' = Append(mbufs, Head(cp)) /\ cp' = Tail(cp)
            \/ cp = <<>> /\ mbufs' = Append(mbufs, NULL) /\ cp' = cp
         /\ init = "done" /\ Len(mbufs) < RoundLen
         /\ late' \in BOOLEAN /\ (late => late')
         /\ ~late' /\ mbufs = <<>> => Len(outRing) + RoundLen <= Behind
         /\ UNCHANGED <<ringVars, hopa_cp_hdrs, best_path_id, handled, initVars, nic, home,
                        pmdVars, crashed>>
<1>1. /\ late' = (late \/ (mbufs = <<>> /\ Len(outRing) + RoundLen > Behind))
      /\ Len(outRing) \in Nat /\ Behind \in Nat /\ late \in BOOLEAN
  <2>1. late' = (late \/ (mbufs = <<>> /\ Len(outRing) + RoundLen > Behind))
    BY DEF Encode, Behind
  <2>2. Len(outRing) \in Nat /\ Behind \in Nat /\ late \in BOOLEAN
    BY Sizes DEF Typed
  <2> QED
    BY <2>1, <2>2
<1>2. late' \in BOOLEAN /\ (late => late')
  <2> DEFINE b == mbufs = <<>> /\ Len(outRing) + RoundLen > Behind
  <2>1. late' = (late \/ b)
    BY <1>1
  <2> HIDE DEF b
  <2>2. CASE late = TRUE
    BY <2>1, <2>2, Zenon
  <2>3. CASE late = FALSE
    <3>1. CASE b
      BY <2>1, <2>3, <3>1, Zenon
    <3>2. CASE ~b
      BY <2>1, <2>3, <3>2, Zenon
    <3> QED
      BY <3>1, <3>2
  <2> QED
    BY <1>1, <2>2, <2>3
<1>3. ~late' /\ mbufs = <<>> => Len(outRing) + RoundLen <= Behind
  <2>1. ~late' /\ mbufs = <<>> => ~(Len(outRing) + RoundLen > Behind)
    BY <1>1, Zenon
  <2>2. ~(Len(outRing) + RoundLen > Behind) => Len(outRing) + RoundLen <= Behind
    BY <1>1, RoundLenNat
  <2> QED
    BY <2>1, <2>2
<1>4. /\ \/ cp # <<>> /\ mbufs' = Append(mbufs, Head(cp)) /\ cp' = Tail(cp)
         \/ cp = <<>> /\ mbufs' = Append(mbufs, NULL) /\ cp' = cp
      /\ init = "done" /\ Len(mbufs) < RoundLen
      /\ UNCHANGED <<ringVars, hopa_cp_hdrs, best_path_id, handled, initVars, nic, home,
                     pmdVars, crashed>>
  BY DEF Encode, Threads
<1> QED
  BY <1>2, <1>3, <1>4, Zenon

(* The ring takes a prefix of the round.                                   *)
LEMMA EnqueueEffect ==
  ASSUME Typed, Fits, Enqueue, crashed' = "no"
  PROVE  /\ outRing' \in Seq(Mbuf \cup {NULL}) /\ Len(mbufs) = RoundLen
         /\ \E k \in 0 .. Len(mbufs) :
              /\ k = Len(mbufs) \/ Len(outRing) + k = OutSize
              /\ outRing' = outRing \o SubSeq(mbufs, 1, k)
              /\ Len(outRing') = Len(outRing) + k
              /\ \A j \in 1 .. Len(outRing) + k :
                   outRing'[j] = IF j <= Len(outRing) THEN outRing[j] ELSE mbufs[j - Len(outRing)]
         /\ Len(outRing') <= OutSize
         /\ mbufs' = <<>> /\ init = "done"
         /\ UNCHANGED <<inRing, hopa_cp_hdrs, best_path_id, handled, late, initVars, poolVars,
                        pmdVars, crashed>>
<1>1. /\ outRing' = Put(outRing, mbufs, OutSize) /\ mbufs' = <<>> /\ init = "done"
      /\ Len(mbufs) = RoundLen
      /\ UNCHANGED <<inRing, hopa_cp_hdrs, best_path_id, handled, late, initVars, poolVars,
                     pmdVars, crashed>>
  BY DEF Enqueue, Crash, Up, Threads
<1>2. outRing \in Seq(Mbuf \cup {NULL}) /\ mbufs \in Seq(Mbuf \cup {NULL})
  BY DEF Typed
<1>3. Len(outRing) <= OutSize /\ OutSize \in Nat
  BY SetsAssumption DEF Fits
<1>4. PICK k \in 0 .. Len(mbufs) :
        /\ Put(outRing, mbufs, OutSize) = outRing \o SubSeq(mbufs, 1, k)
        /\ k = Len(mbufs) \/ Len(outRing) + k = OutSize
        /\ Len(outRing) + k <= OutSize
  BY <1>2, <1>3, PutSplits
<1>5. /\ outRing' \in Seq(Mbuf \cup {NULL}) /\ Len(outRing') = Len(outRing) + k
      /\ \A j \in 1 .. Len(outRing) + k :
           outRing'[j] = IF j <= Len(outRing) THEN outRing[j] ELSE mbufs[j - Len(outRing)]
  BY <1>1, <1>2, <1>4, Prefixed
<1>6. Len(outRing') <= OutSize
  BY <1>4, <1>5
<1> QED
  BY <1>1, <1>4, <1>5, <1>6

(* As long as the polling thread keeps up, all of it.                      *)
LEMMA EnqueueWhole ==
  ASSUME Typed, Fits, Enqueue, crashed' = "no", ~late
  PROVE  /\ outRing' \in Seq(Mbuf \cup {NULL}) /\ Len(outRing') = Len(outRing) + RoundLen
         /\ Len(mbufs) = RoundLen /\ mbufs # <<>>
         /\ \A j \in 1 .. Len(outRing) + RoundLen :
              outRing'[j] = IF j <= Len(outRing) THEN outRing[j] ELSE mbufs[j - Len(outRing)]
         /\ mbufs' = <<>> /\ init = "done"
         /\ UNCHANGED <<inRing, hopa_cp_hdrs, best_path_id, handled, late, initVars, poolVars,
                        pmdVars, crashed>>
<1>1. PICK k \in 0 .. Len(mbufs) :
        /\ k = Len(mbufs) \/ Len(outRing) + k = OutSize
        /\ Len(outRing') = Len(outRing) + k
        /\ \A j \in 1 .. Len(outRing) + k :
             outRing'[j] = IF j <= Len(outRing) THEN outRing[j] ELSE mbufs[j - Len(outRing)]
  BY EnqueueEffect
<1>2. Len(mbufs) = RoundLen /\ outRing \in Seq(Mbuf \cup {NULL}) /\ mbufs \in Seq(Mbuf \cup {NULL})
  BY EnqueueEffect DEF Typed
<1>3. mbufs # <<>>
  BY <1>2, RoundLenNat
<1>4. Len(outRing) + RoundLen <= OutSize
  BY <1>2, <1>3, Sizes, SetsAssumption, RoundLenNat DEF Fits
<1>5. k = RoundLen
  BY <1>1, <1>2, <1>4, SetsAssumption, RoundLenNat
<1> QED
  BY <1>1, <1>2, <1>3, <1>5, EnqueueEffect

(* Once the polling thread has been behind, that stays said.               *)
LEMMA LateStays ==
  ASSUME Typed, Next
  PROVE  late => late'
<1>1. CASE Encode
  BY <1>1, SenderEffect
<1>2. CASE ~Encode
  <2>1. UNCHANGED late
    BY <1>2 DEF Next, Main, InitPool, InitRings, InitRing, InitThreads, Enqueue, Dequeue, Handle, Rx,
                RxCount, RxBurst, RxDequeue, RxAppend, Process, Recirc, RecircBegin, RecircCopy,
                RecircEnqueue, Crash, cpVars
  <2> QED
    BY <2>1
<1> QED
  BY <1>1, <1>2

(* The progress thread takes at least one header, and at most a burst.     *)
LEMMA DequeueHdrs ==
  ASSUME Typed, Dequeue, crashed' = "no"
  PROVE  \E n \in 1 .. Len(inRing) :
           /\ n <= Burst /\ hopa_cp_hdrs = <<>>
           /\ hopa_cp_hdrs' = SubSeq(inRing, 1, n)
           /\ inRing' = SubSeq(inRing, n + 1, Len(inRing))
           /\ UNCHANGED <<outRing, mbufs, best_path_id, handled, rounds, late, initVars, poolVars,
                          pmdVars, crashed>>
<1> DEFINE n == Min({Len(inRing), Burst})
<1>1. /\ n > 0 /\ hopa_cp_hdrs = <<>>
      /\ hopa_cp_hdrs' = SubSeq(inRing, 1, n)
      /\ inRing' = SubSeq(inRing, n + 1, Len(inRing))
      /\ UNCHANGED <<outRing, mbufs, best_path_id, handled, rounds, late, initVars, poolVars,
                     pmdVars, crashed>>
  BY DEF Dequeue, Crash, Up
<1>2. Len(inRing) \in Nat /\ Burst \in Nat
  BY SetsAssumption DEF Typed
<1>3. n \in {Len(inRing), Burst} /\ n <= Len(inRing) /\ n <= Burst
  <2>1. Len(inRing) \in Int /\ Burst \in Int
    BY <1>2
  <2> QED
    BY <2>1, MinOfTwo, Zenon
<1> HIDE DEF n
<1>4. n \in 1 .. Len(inRing)
  BY <1>1, <1>2, <1>3
<1> QED
  BY <1>1, <1>3, <1>4

(* The dispatch takes the first header and chooses a path there is.        *)
LEMMA HandleEffect ==
  ASSUME Typed, Handle
  PROVE  /\ hopa_cp_hdrs # <<>> /\ hopa_cp_hdrs' = Tail(hopa_cp_hdrs)
         /\ handled' = Append(handled, Head(hopa_cp_hdrs))
         /\ best_path_id' \in 0 .. PATH_NB - 1
         /\ UNCHANGED <<mbufs, rounds, late, initVars, ringVars, nic, cp, home, pmdVars, crashed>>
<1>1. Head(hopa_cp_hdrs) \in Header
  BY DEF Typed, Handle
<1>2. best_path_id' \in 0 .. PATH_NB - 1
  BY <1>1 DEF Typed, Handle, Header
<1> QED
  BY <1>2 DEF Handle

(* A recirculation starts from an idle thread with headers to copy.        *)
LEMMA BeginEffect ==
  ASSUME Typed, NEW p \in Pmd, RecircBegin(p)
  PROVE  \E hs \in Seq(Header) :
           /\ Len(hs) <= Burst /\ pmd[p].pc = "idle"
           /\ pmd' = [pmd EXCEPT ![p] = [Idle EXCEPT !.pc = "recirc", !.todo = hs]]
           /\ [Idle EXCEPT !.pc = "recirc", !.todo = hs] \in Thread
           /\ UNCHANGED <<slot, hopa_cp_send_mbuf, hopa_cp_recv_cp_hdr, injected, ringVars,
                          cpVars, initVars, poolVars, crashed>>
<1>1. PICK hs \in BoundedSeq(Arriving[role], Burst) :
        pmd' = [pmd EXCEPT ![p] = [Idle EXCEPT !.pc = "recirc", !.todo = hs]]
  BY DEF RecircBegin
<1>2. Arriving[role] \subseteq Header
  BY ArrivingAssumption DEF Typed
<1>3. PICK n \in 0 .. Burst : hs \in [1 .. n -> Arriving[role]]
  BY <1>1 DEF BoundedSeq, SeqOf
<1>4. n \in Nat /\ hs \in [1 .. n -> Header]
  BY <1>2, <1>3, SetsAssumption
<1>5. hs \in Seq(Header) /\ Len(hs) <= Burst
  BY <1>3, <1>4
<1>6. [Idle EXCEPT !.pc = "recirc", !.todo = hs] \in Thread
  BY <1>5 DEF Idle, Thread
<1> QED
  BY <1>1, <1>5, <1>6 DEF RecircBegin

(* A copied header moves from the batch to the global array.               *)
LEMMA CopyEffect ==
  ASSUME Typed, Copies, NEW p \in Pmd, RecircCopy(p), crashed' = "no"
  PROVE  /\ pmd' \in [Pmd -> Thread] /\ \A q \in Pmd \ {p} : pmd'[q] = pmd[q]
         /\ pmd[p].pc = "recirc" /\ pmd'[p].pc = "recirc"
         /\ pmd'[p].nb_cp = pmd[p].nb_cp + 1 /\ pmd'[p].nb_rx = pmd[p].nb_rx
         /\ pmd[p].todo # <<>> /\ pmd'[p].todo = Tail(pmd[p].todo)
         /\ pmd[p].nb_cp + 1 \in Slots /\ Head(pmd[p].todo) \in Header
         /\ hopa_cp_recv_cp_hdr' = [hopa_cp_recv_cp_hdr EXCEPT
                                      ![pmd[p].nb_cp + 1] = Head(pmd[p].todo)]
         /\ UNCHANGED <<slot, hopa_cp_send_mbuf, arrivals, injected, ringVars, cpVars,
                        initVars, nic, cp, home, crashed>>
<1>1. pmd \in [Pmd -> Thread] /\ pmd[p] \in Thread
  BY DEF Typed
<1>2. /\ pmd[p].pc = "recirc" /\ pmd[p].todo # <<>> /\ pmd[p].todo \in Seq(Header)
      /\ pmd[p].nb_cp \in Nat
  BY <1>1 DEF RecircCopy, Thread
<1>a. heap # 0
  BY DEF RecircCopy, Crash, Up
<1> DEFINE r == [pmd[p] EXCEPT !.todo = Tail(@), !.nb_cp = @ + 1]
<1>3. pmd' = [pmd EXCEPT ![p] = r]
  BY <1>1, <1>a DEF RecircCopy
<1>4. Tail(pmd[p].todo) \in Seq(Header) /\ Head(pmd[p].todo) \in Header /\ Len(pmd[p].todo) > 0
  BY <1>2
<1>5. /\ r \in Thread /\ r.pc = "recirc" /\ r.nb_cp = pmd[p].nb_cp + 1
      /\ r.nb_rx = pmd[p].nb_rx /\ r.todo = Tail(pmd[p].todo)
  <2>1. r = [pmd[p] EXCEPT !.todo = Tail(pmd[p].todo), !.nb_cp = pmd[p].nb_cp + 1]
    OBVIOUS
  <2>2. pmd[p].nb_cp + 1 \in Nat
    BY <1>2
  <2> HIDE DEF r
  <2>3. r \in Thread
    BY <1>1, <1>4, <2>1, <2>2 DEF Thread
  <2>4. /\ r.pc = pmd[p].pc /\ r.nb_cp = pmd[p].nb_cp + 1
        /\ r.nb_rx = pmd[p].nb_rx /\ r.todo = Tail(pmd[p].todo)
    BY <1>1, <2>1 DEF Thread
  <2> QED
    BY <1>2, <2>3, <2>4
<1> HIDE DEF r
<1>6. pmd' \in [Pmd -> Thread] /\ pmd'[p] = r /\ \A q \in Pmd \ {p} : pmd'[q] = pmd[q]
  BY <1>1, <1>3, <1>5
<1>7. pmd[p].nb_cp + Len(pmd[p].todo) <= Burst
  BY <1>2 DEF Copies, CopiesOf
<1>8. pmd[p].nb_cp + 1 \in Slots
  BY <1>2, <1>4, <1>7, SetsAssumption DEF Slots
<1> QED
  BY <1>a, <1>2, <1>4, <1>5, <1>6, <1>8 DEF RecircCopy

(* The enqueue of the copied headers keeps a prefix of them.               *)
LEMMA RecircEffect ==
  ASSUME Typed, Copies, Fits, NEW p \in Pmd, RecircEnqueue(p)
  PROVE  /\ pmd' = [pmd EXCEPT ![p] = Idle] /\ pmd[p].pc = "recirc"
         /\ \E s \in Seq(Header) : \E k \in 0 .. Len(s) :
              /\ Len(s) = pmd[p].nb_cp /\ Len(s) <= Burst
              /\ inRing' = inRing \o SubSeq(s, 1, k)
              /\ k = Len(s) \/ Len(inRing) + k = InSize
              /\ Len(inRing) + k <= InSize
         /\ UNCHANGED <<outRing, slot, hopa_cp_send_mbuf, hopa_cp_recv_cp_hdr, arrivals,
                        injected, cpVars, initVars, poolVars, crashed>>
<1>1. pmd[p] \in Thread /\ inRing \in Seq(Header)
  BY DEF Typed
<1> DEFINE s == [i \in 1 .. pmd[p].nb_cp |-> hopa_cp_recv_cp_hdr[i]]
<1>2. pmd[p].pc = "recirc" /\ inRing' = Put(inRing, s, InSize)
  BY DEF RecircEnqueue
<1>3. /\ pmd[p].nb_cp \in Nat /\ pmd[p].nb_cp <= Burst
      /\ \A j \in 1 .. pmd[p].nb_cp : hopa_cp_recv_cp_hdr[j] \in Header
  <2>1. pmd[p].nb_cp \in Nat /\ pmd[p].todo \in Seq(Header)
    BY <1>1 DEF Thread
  <2> QED
    BY <1>2, <2>1, SetsAssumption DEF Copies, CopiesOf
<1>4. s \in Seq(Header) /\ Len(s) = pmd[p].nb_cp
  <2>1. s \in [1 .. pmd[p].nb_cp -> Header]
    BY <1>3
  <2> HIDE DEF s
  <2> QED
    BY <1>3, <2>1
<1> HIDE DEF s
<1>5. InSize \in Nat /\ Len(inRing) <= InSize
  BY SetsAssumption DEF Fits
<1>6. PICK k \in 0 .. Len(s) :
         /\ Put(inRing, s, InSize) = inRing \o SubSeq(s, 1, k)
         /\ k = Len(s) \/ Len(inRing) + k = InSize
         /\ Len(inRing) + k <= InSize
  BY <1>1, <1>4, <1>5, PutSplits
<1>7. /\ pmd' = [pmd EXCEPT ![p] = Idle]
      /\ UNCHANGED <<outRing, slot, hopa_cp_send_mbuf, hopa_cp_recv_cp_hdr, arrivals,
                     injected, cpVars, initVars, poolVars, crashed>>
  BY DEF RecircEnqueue
<1> QED
  BY <1>2, <1>3, <1>4, <1>6, <1>7

(* It takes no more headers than were copied.                              *)
LEMMA RecircLength ==
  ASSUME Typed, Copies, Fits, NEW p \in Pmd, RecircEnqueue(p)
  PROVE  /\ Len(inRing') \in Nat /\ Len(inRing') <= Len(inRing) + pmd[p].nb_cp
         /\ pmd[p].nb_cp \in Nat
<1>1. PICK s \in Seq(Header) :
        \E k \in 0 .. Len(s) : Len(s) = pmd[p].nb_cp /\ inRing' = inRing \o SubSeq(s, 1, k)
  BY RecircEffect
<1>0. PICK k \in 0 .. Len(s) : Len(s) = pmd[p].nb_cp /\ inRing' = inRing \o SubSeq(s, 1, k)
  BY <1>1
<1>2. inRing \in Seq(Header)
  BY DEF Typed
<1>3. Len(inRing') = Len(inRing) + k
  BY <1>0, <1>2, Prefixed
<1> QED
  BY <1>0, <1>2, <1>3

-----------------------------------------------------------------------------
(* hopa_cp_init keeps the types and publishes in its order.                *)
LEMMA MainTyped ==
  ASSUME Typed, Made, Main
  PROVE  Typed' /\ Made'
<1>1. UNCHANGED <<role, ringVars, cpVars, nic, home, pmdVars>>
  BY MainFrame
<1>2. /\ outRing' \in Seq(Mbuf \cup {NULL}) /\ inRing' \in Seq(Header) /\ role' \in Roles
      /\ mbufs' \in Seq(Mbuf \cup {NULL}) /\ hopa_cp_hdrs' \in Seq(Header)
      /\ best_path_id' \in 0 .. PATH_NB - 1 /\ handled' \in Seq(Header)
      /\ slot' \in [Slots -> Mbuf] /\ hopa_cp_send_mbuf' \in [Slots -> Mbuf \cup {NULL}]
      /\ hopa_cp_recv_cp_hdr' \in [Slots -> Header \cup {NULL}] /\ injected' \in Seq(Mbuf)
      /\ nic' \in [Mbuf -> Nat] /\ home' \in [Mbuf -> {"nic", "cp"}] /\ pmd' \in [Pmd -> Thread]
      /\ late' \in BOOLEAN
  BY <1>1 DEF Typed, ringVars, cpVars, pmdVars
<1>3. cp' \in Seq(Mbuf)
  <2>1. SetToSeq(CpMbuf) \in Seq(Mbuf)
    <3>1. SetToSeq(CpMbuf) \in Seq(CpMbuf)
      BY SetsAssumption, SeqOfSet
    <3> QED
      BY <3>1 DEF Mbuf
  <2> QED
    BY <2>1 DEF Typed, Main, InitPool, InitRings, InitRing, InitThreads, poolVars
<1>4. /\ failed' \subseteq MayFail /\ crashed' \in {"no", "null", "overrun", "wild", "heap"}
      /\ init' \in {"pool", "rings", "inRing", "outRing", "threads", "done"}
      /\ rings' \in {NULL} \cup [inRing : BOOLEAN, outRing : BOOLEAN]
      /\ Made'
  <2>1. CASE InitPool
    BY <2>1 DEF InitPool, Typed, Made
  <2>2. CASE InitRings
    <3>1. [inRing |-> FALSE, outRing |-> FALSE] \in [inRing : BOOLEAN, outRing : BOOLEAN]
      OBVIOUS
    <3>2. [inRing |-> FALSE, outRing |-> FALSE] # NULL
      BY <3>1, SetsAssumption
    <3> QED
      BY <2>2, <3>1, <3>2 DEF InitRings, Typed, Made
  <2>3. CASE InitRing("inRing", "outRing")
    <3>1. rings \in [inRing : BOOLEAN, outRing : BOOLEAN]
      BY <2>3 DEF InitRing, Typed, Made
    <3>2. /\ [rings EXCEPT !["inRing"] = TRUE] \in [inRing : BOOLEAN, outRing : BOOLEAN]
          /\ [rings EXCEPT !["inRing"] = TRUE].inRing = TRUE
      BY <3>1
    <3>3. [rings EXCEPT !["inRing"] = TRUE] # NULL
      BY <3>2, SetsAssumption
    <3> QED
      BY <2>3, <3>1, <3>2, <3>3 DEF InitRing, Typed, Made
  <2>4. CASE InitRing("outRing", "threads")
    <3>1. rings \in [inRing : BOOLEAN, outRing : BOOLEAN]
      BY <2>4 DEF InitRing, Typed, Made
    <3>2. /\ [rings EXCEPT !["outRing"] = TRUE] \in [inRing : BOOLEAN, outRing : BOOLEAN]
          /\ [rings EXCEPT !["outRing"] = TRUE].outRing = TRUE
          /\ [rings EXCEPT !["outRing"] = TRUE].inRing = rings.inRing
      BY <3>1
    <3>3. [rings EXCEPT !["outRing"] = TRUE] # NULL
      BY <3>2, SetsAssumption
    <3> QED
      BY <2>4, <3>1, <3>2, <3>3 DEF InitRing, Typed, Made
  <2>5. CASE InitThreads
    BY <2>5 DEF InitThreads, Typed, Made
  <2> QED
    BY <2>1, <2>2, <2>3, <2>4, <2>5 DEF Main
<1> QED
  BY <1>2, <1>3, <1>4 DEF Typed

(* No thread but the main one changes what hopa_cp_init made.              *)
LEMMA MadeKept ==
  ASSUME Inv, Next
  PROVE  Made'
<1>1. CASE Main
  BY <1>1, MainTyped DEF Inv
<1>2. CASE ~Main
  <2>1. UNCHANGED initVars
    BY <1>2 DEF Next, Encode, Enqueue, Dequeue, Handle, Rx, RxCount, RxBurst, RxDequeue,
                RxAppend, Process, Recirc, RecircBegin, RecircCopy, RecircEnqueue, Crash
  <2> QED
    BY <2>1 DEF Inv, Made, initVars
<1> QED
  BY <1>1, <1>2

(* Every step keeps the types.                                             *)
LEMMA TypedKept ==
  ASSUME Inv, Next
  PROVE  Typed'
<1> USE DEF ringVars, cpVars, initVars, poolVars, pmdVars
<1>a. Typed /\ Copies /\ Polls /\ Fits /\ Made
  BY DEF Inv
<1>b. crashed = "no"
  BY NextCases
<1>1. CASE Crashes
  BY <1>a, <1>1 DEF Typed, Crashes
<1>2. CASE Main
  BY <1>a, <1>2, MainTyped
<1>3. CASE Encode
  <2>1. /\ \/ cp # <<>> /\ mbufs' = Append(mbufs, Head(cp)) /\ cp' = Tail(cp)
           \/ cp = <<>> /\ mbufs' = Append(mbufs, NULL) /\ cp' = cp
        /\ late' \in BOOLEAN
        /\ UNCHANGED <<ringVars, hopa_cp_hdrs, best_path_id, handled, initVars, nic, home,
                       pmdVars, crashed>>
    BY <1>a, <1>3, SenderEffect
  <2>2. mbufs \in Seq(Mbuf \cup {NULL}) /\ cp \in Seq(Mbuf)
    BY <1>a DEF Typed
  <2>3. mbufs' \in Seq(Mbuf \cup {NULL}) /\ cp' \in Seq(Mbuf)
    <3>1. CASE cp = <<>>
      BY <2>1, <2>2, <3>1, Appended
    <3>2. CASE cp # <<>>
      <4>1. Head(cp) \in Mbuf /\ Tail(cp) \in Seq(Mbuf)
        BY <2>2, <3>2
      <4> QED
        BY <2>1, <2>2, <3>2, <4>1, Appended
    <3> QED
      BY <3>1, <3>2
  <2> QED
    BY <1>a, <2>1, <2>3 DEF Typed
<1>4. CASE Enqueue /\ crashed' = "no"
  <2>1. /\ outRing' \in Seq(Mbuf \cup {NULL}) /\ mbufs' = <<>>
        /\ UNCHANGED <<inRing, hopa_cp_hdrs, best_path_id, handled, late, initVars, poolVars,
                       pmdVars, crashed>>
    BY <1>a, <1>4, EnqueueEffect
  <2>2. mbufs' \in Seq(Mbuf \cup {NULL})
    BY <2>1
  <2> QED
    BY <1>a, <2>1, <2>2 DEF Typed
<1>5. CASE Dequeue /\ crashed' = "no"
  <2>1. PICK n \in 1 .. Len(inRing) :
           /\ hopa_cp_hdrs' = SubSeq(inRing, 1, n)
           /\ inRing' = SubSeq(inRing, n + 1, Len(inRing))
           /\ UNCHANGED <<outRing, mbufs, best_path_id, handled, rounds, late, initVars, poolVars,
                          pmdVars, crashed>>
    BY <1>a, <1>5, DequeueHdrs
  <2>2. inRing \in Seq(Header)
    BY <1>a DEF Typed
  <2>3. inRing' \in Seq(Header) /\ hopa_cp_hdrs' \in Seq(Header)
    BY <2>1, <2>2
  <2> QED
    BY <1>a, <2>1, <2>3 DEF Typed
<1>6. CASE Handle
  <2>1. /\ hopa_cp_hdrs # <<>> /\ hopa_cp_hdrs' = Tail(hopa_cp_hdrs)
        /\ handled' = Append(handled, Head(hopa_cp_hdrs))
        /\ best_path_id' \in 0 .. PATH_NB - 1
        /\ UNCHANGED <<mbufs, late, initVars, ringVars, nic, cp, home, pmdVars, crashed>>
    BY <1>a, <1>6, HandleEffect
  <2>2. hopa_cp_hdrs \in Seq(Header) /\ handled \in Seq(Header)
    BY <1>a DEF Typed
  <2>3. hopa_cp_hdrs' \in Seq(Header) /\ handled' \in Seq(Header)
    BY <2>1, <2>2
  <2> QED
    BY <1>a, <2>1, <2>3 DEF Typed
<1>7. CASE RxCount /\ crashed' = "no"
  BY <1>a, <1>7, CountEffect DEF Typed
<1>8. CASE RxBurst
  BY <1>a, <1>8, BurstEffect DEF Typed
<1>9. CASE RxDequeue
  <2>1. /\ Me.nb_cp \in 1 .. Len(outRing)
        /\ outRing' = SubSeq(outRing, Me.nb_cp + 1, Len(outRing))
        /\ hopa_cp_send_mbuf' \in [Slots -> Mbuf \cup {NULL}] /\ pmd' \in [Pmd -> Thread]
        /\ UNCHANGED <<inRing, slot, hopa_cp_recv_cp_hdr, arrivals, injected, cpVars,
                       initVars, poolVars, crashed>>
    BY <1>a, <1>9, DequeueEffect
  <2>2. outRing \in Seq(Mbuf \cup {NULL})
    BY <1>a DEF Typed
  <2>3. outRing' \in Seq(Mbuf \cup {NULL})
    BY <2>1, <2>2
  <2> QED
    BY <1>a, <2>1, <2>3 DEF Typed
<1>10. CASE RxAppend /\ crashed' = "no"
  <2>1. /\ pmd' \in [Pmd -> Thread]
        /\ Me.i + 1 \in Slots /\ Me.nb_rx + Me.i + 1 \in Slots
        /\ hopa_cp_send_mbuf[Me.i + 1] \in Mbuf
        /\ home' = [home EXCEPT ![slot[Me.nb_rx + Me.i + 1]] =
                                  home[hopa_cp_send_mbuf[Me.i + 1]]]
        /\ injected' = Append(injected, hopa_cp_send_mbuf[Me.i + 1])
        /\ UNCHANGED <<slot, hopa_cp_send_mbuf, hopa_cp_recv_cp_hdr, arrivals, nic, cp,
                       ringVars, cpVars, initVars, crashed>>
    BY <1>a, <1>10, AppendEffect
  <2>2. home' \in [Mbuf -> {"nic", "cp"}] /\ injected' \in Seq(Mbuf)
    BY <1>a, <2>1 DEF Typed
  <2> QED
    BY <1>a, <2>1, <2>2 DEF Typed
<1>11. CASE Process
  BY <1>a, <1>11, ProcessEffect DEF Typed
<1>12. ASSUME NEW p \in Pmd, RecircBegin(p)
       PROVE  Typed'
  <2>1. PICK hs \in Seq(Header) :
           /\ pmd' = [pmd EXCEPT ![p] = [Idle EXCEPT !.pc = "recirc", !.todo = hs]]
           /\ [Idle EXCEPT !.pc = "recirc", !.todo = hs] \in Thread
           /\ UNCHANGED <<slot, hopa_cp_send_mbuf, hopa_cp_recv_cp_hdr, injected, ringVars,
                          cpVars, initVars, poolVars, crashed>>
    BY <1>a, <1>12, BeginEffect
  <2>2. pmd' \in [Pmd -> Thread]
    BY <1>a, <2>1 DEF Typed
  <2> QED
    BY <1>a, <2>1, <2>2 DEF Typed
<1>13. ASSUME NEW p \in Pmd, RecircCopy(p), crashed' = "no"
       PROVE  Typed'
  <2>1. /\ pmd' \in [Pmd -> Thread]
        /\ pmd[p].nb_cp + 1 \in Slots /\ Head(pmd[p].todo) \in Header
        /\ hopa_cp_recv_cp_hdr' = [hopa_cp_recv_cp_hdr EXCEPT
                                     ![pmd[p].nb_cp + 1] = Head(pmd[p].todo)]
        /\ UNCHANGED <<slot, hopa_cp_send_mbuf, arrivals, injected, ringVars, cpVars,
                       initVars, nic, cp, home, crashed>>
    BY <1>a, <1>13, CopyEffect
  <2>2. hopa_cp_recv_cp_hdr' \in [Slots -> Header \cup {NULL}]
    BY <1>a, <2>1 DEF Typed
  <2> QED
    BY <1>a, <2>1, <2>2 DEF Typed
<1>14. ASSUME NEW p \in Pmd, RecircEnqueue(p)
       PROVE  Typed'
  <2>1. /\ pmd' = [pmd EXCEPT ![p] = Idle]
        /\ \E s \in Seq(Header) : \E k \in 0 .. Len(s) :
              inRing' = inRing \o SubSeq(s, 1, k)
        /\ UNCHANGED <<outRing, slot, hopa_cp_send_mbuf, hopa_cp_recv_cp_hdr, arrivals,
                       injected, cpVars, initVars, poolVars, crashed>>
    BY <1>a, <1>14, RecircEffect
  <2>2. pmd' \in [Pmd -> Thread] /\ inRing \in Seq(Header)
    BY <1>a, <2>1, IdleThread DEF Typed
  <2>3. inRing' \in Seq(Header)
    BY <2>1, <2>2, Prefixed
  <2> QED
    BY <1>a, <2>1, <2>2, <2>3 DEF Typed
<1> QED
  BY <1>1, <1>2, <1>3, <1>4, <1>5, <1>6, <1>7, <1>8, <1>9, <1>10, <1>11, <1>12, <1>13,
     <1>14, NextCases

(* Threads that do not move keep their part, if the array does not lose headers. *)
LEMMA CopiesKept ==
  ASSUME Inv, Next
  PROVE  Copies'
<1> USE DEF ringVars, cpVars, initVars, poolVars, pmdVars
<1>a. Typed /\ Copies /\ Polls /\ Fits /\ Made
  BY DEF Inv
<1>b. Poller \in Pmd /\ Burst \in Nat
  BY SetsAssumption
<1>c. ASSUME \A p \in Pmd \ {Poller} : pmd'[p] = pmd[p], CopiesOf(Poller)',
             UNCHANGED hopa_cp_recv_cp_hdr
      PROVE  Copies'
  BY <1>a, <1>c DEF Copies, CopiesOf
<1>1. CASE UNCHANGED <<pmd, hopa_cp_recv_cp_hdr>>
  BY <1>a, <1>1 DEF Copies, CopiesOf
<1>2. CASE RxCount /\ crashed' = "no"
  <2>1. /\ \A p \in Pmd \ {Poller} : pmd'[p] = pmd[p]
        /\ Me'.pc = "rx"
        /\ UNCHANGED hopa_cp_recv_cp_hdr
    BY <1>a, <1>2, CountEffect
  <2>2. CopiesOf(Poller)'
    BY <2>1 DEF CopiesOf, Me
  <2> QED
    BY <1>c, <2>1, <2>2
<1>3. CASE RxBurst
  <2>1. /\ \A p \in Pmd \ {Poller} : pmd'[p] = pmd[p]
        /\ Me' = Idle \/ Me'.pc = "process" \/ Me'.pc = "dequeue"
        /\ UNCHANGED hopa_cp_recv_cp_hdr
    BY <1>a, <1>3, BurstEffect
  <2>2. CopiesOf(Poller)'
    <3>1. pmd'[Poller] = Me'
      BY DEF Me
    <3>2. Me' = Idle => Me'.pc = "idle"
      BY DEF Idle
    <3> QED
      BY <2>1, <3>1, <3>2 DEF CopiesOf
  <2> QED
    BY <1>c, <2>1, <2>2
<1>4. CASE RxDequeue
  <2>1. /\ \A p \in Pmd \ {Poller} : pmd'[p] = pmd[p]
        /\ Me'.pc = "append"
        /\ UNCHANGED hopa_cp_recv_cp_hdr
    BY <1>a, <1>4, DequeueEffect
  <2>2. CopiesOf(Poller)'
    BY <2>1 DEF CopiesOf, Me
  <2> QED
    BY <1>c, <2>1, <2>2
<1>5. CASE RxAppend /\ crashed' = "no"
  <2>1. /\ \A p \in Pmd \ {Poller} : pmd'[p] = pmd[p]
        /\ Me'.pc = "append" \/ Me'.pc = "process"
        /\ UNCHANGED hopa_cp_recv_cp_hdr
    BY <1>a, <1>5, AppendEffect
  <2>2. CopiesOf(Poller)'
    BY <2>1 DEF CopiesOf, Me
  <2> QED
    BY <1>c, <2>1, <2>2
<1>6. CASE Process
  <2>1. /\ \A p \in Pmd \ {Poller} : pmd'[p] = pmd[p]
        /\ Me' = Idle
        /\ UNCHANGED hopa_cp_recv_cp_hdr
    BY <1>a, <1>6, ProcessEffect
  <2>2. CopiesOf(Poller)'
    <3>1. pmd'[Poller] = Me'
      BY DEF Me
    <3>2. Me' = Idle => Me'.pc = "idle"
      BY DEF Idle
    <3> QED
      BY <2>1, <3>1, <3>2 DEF CopiesOf
  <2> QED
    BY <1>c, <2>1, <2>2
<1>7. ASSUME NEW p \in Pmd, RecircBegin(p)
      PROVE  Copies'
  <2> SUFFICES ASSUME NEW q \in Pmd
               PROVE  CopiesOf(q)'
    BY DEF Copies
  <2>1. PICK hs \in Seq(Header) :
           /\ Len(hs) <= Burst
           /\ pmd' = [pmd EXCEPT ![p] = [Idle EXCEPT !.pc = "recirc", !.todo = hs]]
           /\ UNCHANGED hopa_cp_recv_cp_hdr
    BY <1>a, <1>7, BeginEffect
  <2>2. pmd \in [Pmd -> Thread]
    BY <1>a DEF Typed
  <2>3. CASE q = p
    <3>1. /\ pmd'[q].pc = "recirc" /\ pmd'[q].todo = hs /\ pmd'[q].nb_cp = 0
          /\ pmd'[q].nb_rx = 0
      BY <2>1, <2>2, <2>3 DEF Idle
    <3> QED
      BY <2>1, <3>1 DEF CopiesOf
  <2>4. CASE q # p
    BY <1>a, <2>1, <2>2, <2>4 DEF Copies, CopiesOf
  <2> QED
    BY <2>3, <2>4
<1>8. ASSUME NEW p \in Pmd, RecircCopy(p), crashed' = "no"
      PROVE  Copies'
  <2> SUFFICES ASSUME NEW q \in Pmd
               PROVE  CopiesOf(q)'
    BY DEF Copies
  <2>1. /\ pmd' \in [Pmd -> Thread] /\ \A r \in Pmd \ {p} : pmd'[r] = pmd[r]
        /\ pmd[p].pc = "recirc" /\ pmd'[p].pc = "recirc"
        /\ pmd'[p].nb_cp = pmd[p].nb_cp + 1 /\ pmd'[p].nb_rx = pmd[p].nb_rx
        /\ pmd[p].todo # <<>> /\ pmd'[p].todo = Tail(pmd[p].todo)
        /\ pmd[p].nb_cp + 1 \in Slots /\ Head(pmd[p].todo) \in Header
        /\ hopa_cp_recv_cp_hdr' = [hopa_cp_recv_cp_hdr EXCEPT
                                     ![pmd[p].nb_cp + 1] = Head(pmd[p].todo)]
    BY <1>a, <1>8, CopyEffect
  <2>2. hopa_cp_recv_cp_hdr \in [Slots -> Header \cup {NULL}] /\ pmd[p] \in Thread
    BY <1>a DEF Typed
  <2>3. \A j : /\ hopa_cp_recv_cp_hdr[j] \in Header => hopa_cp_recv_cp_hdr'[j] \in Header
               /\ j = pmd[p].nb_cp + 1 => hopa_cp_recv_cp_hdr'[j] \in Header
    BY <2>1, <2>2
  <2>4. CASE q = p
    <3>1. pmd[p].todo \in Seq(Header) /\ pmd[p].nb_cp \in Nat
      BY <2>2 DEF Thread
    <3>2. Len(Tail(pmd[p].todo)) = Len(pmd[p].todo) - 1 /\ Len(pmd[p].todo) \in Nat
      BY <2>1, <3>1
    <3>3. /\ pmd[p].nb_cp + Len(pmd[p].todo) <= Burst /\ pmd[p].nb_rx = 0
          /\ \A j \in 1 .. pmd[p].nb_cp : hopa_cp_recv_cp_hdr[j] \in Header
      BY <1>a, <2>1 DEF Copies, CopiesOf
    <3>4. \A j \in 1 .. pmd[p].nb_cp + 1 : hopa_cp_recv_cp_hdr'[j] \in Header
      BY <2>3, <3>1, <3>3
    <3>5. pmd'[p].nb_cp + Len(pmd'[p].todo) <= Burst
      BY <1>b, <2>1, <3>1, <3>2, <3>3
    <3>6. /\ pmd'[p].pc = "recirc" /\ pmd'[p].nb_rx = 0
          /\ \A j \in 1 .. pmd'[p].nb_cp : hopa_cp_recv_cp_hdr'[j] \in Header
      BY <2>1, <3>3, <3>4
    <3> QED
      BY <2>4, <3>5, <3>6 DEF CopiesOf
  <2>5. CASE q # p
    BY <1>a, <2>1, <2>3, <2>5 DEF Copies, CopiesOf
  <2> QED
    BY <2>4, <2>5
<1>9. ASSUME NEW p \in Pmd, RecircEnqueue(p)
      PROVE  Copies'
  <2> SUFFICES ASSUME NEW q \in Pmd
               PROVE  CopiesOf(q)'
    BY DEF Copies
  <2>1. pmd' = [pmd EXCEPT ![p] = Idle] /\ UNCHANGED hopa_cp_recv_cp_hdr
    BY <1>a, <1>9, RecircEffect
  <2>2. pmd \in [Pmd -> Thread]
    BY <1>a DEF Typed
  <2>3. CASE q = p
    BY <2>1, <2>2, <2>3 DEF CopiesOf, Idle
  <2>4. CASE q # p
    BY <1>a, <2>1, <2>2, <2>4 DEF Copies, CopiesOf
  <2> QED
    BY <2>3, <2>4
<1>10. CASE Main
  BY <1>1, <1>10, MainFrame
<1>11. CASE Crashes
  BY <1>1, <1>11 DEF Crashes
<1>12. CASE Encode \/ Handle
  BY <1>1, <1>12 DEF Encode, Handle
<1>13. CASE Enqueue /\ crashed' = "no"
  BY <1>1, <1>13, <1>a, EnqueueEffect
<1>14. CASE Dequeue /\ crashed' = "no"
  BY <1>1, <1>14, <1>a, DequeueHdrs
<1> QED
  BY <1>2, <1>3, <1>4, <1>5, <1>6, <1>7, <1>8, <1>9, <1>10, <1>11, <1>12, <1>13, <1>14,
     NextCases

(* Every step keeps the count of the poll good.                            *)
LEMMA PollsKept ==
  ASSUME Inv, Next
  PROVE  Polls'
<1> USE DEF ringVars, cpVars, initVars, poolVars, pmdVars
<1>a. Typed /\ Copies /\ Polls /\ Fits /\ Made
  BY DEF Inv
<1>b. /\ Poller \in Pmd /\ Burst \in Nat /\ Behind \in Nat /\ Behind <= Burst
      /\ Me \in Thread /\ pmd \in [Pmd -> Thread] /\ outRing \in Seq(Mbuf \cup {NULL})
      /\ Me.nb_cp \in Nat /\ Me.nb_rx \in Nat /\ Me.i \in Nat /\ Len(outRing) \in Nat
  <2>1. Me \in Thread /\ pmd \in [Pmd -> Thread] /\ outRing \in Seq(Mbuf \cup {NULL})
    BY <1>a, MeThread DEF Typed
  <2> QED
    BY <2>1, SetsAssumption, Sizes DEF Thread
<1>l. late => late'
  BY <1>a, LateStays
<1>c. CASE UNCHANGED <<Me, outRing>>
  BY <1>a, <1>c, <1>l DEF Polls
<1>1. CASE RxCount /\ crashed' = "no"
  <2>1. /\ Me'.pc = "rx" /\ Me'.nb_rx = 0 /\ Me'.i = 0
        /\ Me'.nb_cp = IF Exists("outRing") THEN Len(outRing) ELSE 0
        /\ UNCHANGED outRing
    BY <1>a, <1>1, CountEffect
  <2>2. Me'.nb_cp \in Nat /\ Me'.nb_cp <= Len(outRing)
    BY <1>b, <2>1
  <2>3. Me'.nb_cp <= Burst
    <3>1. ~((IF Exists("outRing") THEN Len(outRing) ELSE 0) > Burst)
      BY <1>1 DEF RxCount, Crash
    <3> QED
      BY <1>b, <2>1, <3>1, SetsAssumption
  <2>4. ~late' => Me'.nb_cp <= Behind
    BY <1>a, <1>b, <1>1, <2>2, CountEffect DEF Fits
  <2> QED
    BY <2>1, <2>2, <2>3, <2>4 DEF Polls
<1>2. CASE RxBurst
  <2>1. /\ Me.pc = "rx" /\ UNCHANGED outRing
        /\ \/ Me' = Idle
           \/ /\ Me'.pc = "process" /\ Me.nb_cp = 0 /\ Me'.nb_rx \in 0 .. Burst
              /\ Me'.nb_cp = Me.nb_cp /\ Me'.i = Me.i
           \/ /\ Me'.pc = "dequeue" /\ Me.nb_cp > 0
              /\ Me'.nb_rx \in 0 .. Burst - Me.nb_cp
              /\ Me'.nb_cp = Me.nb_cp /\ Me'.i = Me.i
    BY <1>a, <1>2, BurstEffect
  <2>2. CASE Me' = Idle
    BY <2>2 DEF Polls, Idle
  <2>3. CASE Me' # Idle
    BY <1>a, <1>b, <1>l, <2>1, <2>3 DEF Polls
  <2> QED
    BY <2>2, <2>3
<1>3. CASE RxDequeue
  <2>1. /\ Me.pc = "dequeue" /\ Me'.pc = "append" /\ Me.i = 0
        /\ Me'.nb_cp = Me.nb_cp /\ Me'.nb_rx = Me.nb_rx /\ Me'.i = Me.i
    BY <1>a, <1>3, DequeueEffect
  <2> QED
    BY <1>a, <1>b, <1>l, <2>1 DEF Polls
<1>4. CASE RxAppend /\ crashed' = "no"
  <2>1. /\ Me.pc = "append" /\ Me'.nb_cp = Me.nb_cp
        /\ \/ Me'.pc = "append" /\ Me'.i = Me.i + 1 /\ Me'.nb_rx = Me.nb_rx
              /\ Me.i + 1 < Me.nb_cp
           \/ Me'.pc = "process" /\ Me.i + 1 = Me.nb_cp /\ Me'.nb_rx = Me.nb_rx + Me.nb_cp
    BY <1>a, <1>4, AppendEffect
  <2> QED
    BY <1>a, <1>b, <1>l, <2>1 DEF Polls
<1>5. CASE Process
  <2>1. Me' = Idle
    BY <1>a, <1>5, ProcessEffect
  <2> QED
    BY <2>1 DEF Polls, Idle
<1>6. ASSUME NEW p \in Pmd, RecircBegin(p) \/ RecircCopy(p) \/ RecircEnqueue(p), crashed' = "no"
      PROVE  Polls'
  <2>1. /\ UNCHANGED outRing /\ pmd[p].pc \in {"idle", "recirc"}
        /\ pmd'[p].pc \in {"idle", "recirc"} /\ \A q \in Pmd \ {p} : pmd'[q] = pmd[q]
    <3>1. CASE RecircBegin(p)
      <4>1. /\ pmd[p].pc = "idle" /\ UNCHANGED outRing
            /\ \E hs : pmd' = [pmd EXCEPT ![p] = [Idle EXCEPT !.pc = "recirc", !.todo = hs]]
        BY <1>a, <3>1, BeginEffect
      <4> QED
        BY <1>b, <4>1 DEF Idle
    <3>2. CASE RecircCopy(p)
      <4>1. /\ \A q \in Pmd \ {p} : pmd'[q] = pmd[q]
            /\ pmd[p].pc = "recirc"
            /\ pmd'[p].pc = "recirc" /\ UNCHANGED outRing
        BY <1>a, <1>6, <3>2, CopyEffect
      <4> QED
        BY <4>1
    <3>3. CASE RecircEnqueue(p)
      BY <1>a, <1>b, <3>3, RecircEffect DEF Idle
    <3> QED
      BY <1>6, <3>1, <3>2, <3>3
  <2>2. CASE p = Poller
    <3>1. Me'.pc \in {"idle", "recirc"}
      BY <2>1, <2>2 DEF Me
    <3> QED
      BY <3>1 DEF Polls
  <2>3. CASE p # Poller
    <3>1. Me' = Me
      BY <1>b, <2>1, <2>3 DEF Me
    <3> QED
      BY <1>c, <2>1, <3>1
  <2> QED
    BY <2>2, <2>3
<1>7. CASE Main
  BY <1>c, <1>7, MainFrame DEF Me
<1>8. CASE Crashes
  BY <1>c, <1>8 DEF Crashes, Me
<1>9. CASE Encode \/ Handle
  BY <1>c, <1>9 DEF Encode, Handle, Me
<1>10. CASE Enqueue /\ crashed' = "no"
  <2>1. /\ \E k \in 0 .. Len(mbufs) : Len(outRing') = Len(outRing) + k
        /\ UNCHANGED pmdVars
    BY <1>a, <1>10, EnqueueEffect
  <2>2. Len(outRing') >= Len(outRing) /\ Len(outRing') \in Nat
    BY <1>b, <2>1
  <2>3. Me' = Me
    BY <2>1 DEF Me
  <2> QED
    BY <1>a, <1>b, <1>l, <2>2, <2>3 DEF Polls
<1>11. CASE Dequeue /\ crashed' = "no"
  BY <1>c, <1>11, <1>a, DequeueHdrs DEF Me
<1> QED
  BY <1>1, <1>2, <1>3, <1>4, <1>5, <1>6, <1>7, <1>8, <1>9, <1>10, <1>11, NextCases

(* Every step keeps room for a round that is being made.                   *)
LEMMA FitsKept ==
  ASSUME Inv, Next
  PROVE  Fits'
<1> USE DEF ringVars, cpVars, initVars, poolVars, pmdVars
<1>a. Typed /\ Copies /\ Polls /\ Fits /\ Made
  BY DEF Inv
<1>b. /\ outRing \in Seq(Mbuf \cup {NULL}) /\ mbufs \in Seq(Mbuf \cup {NULL})
      /\ inRing \in Seq(Header) /\ hopa_cp_hdrs \in Seq(Header)
      /\ Burst \in Nat /\ Behind \in Nat /\ InSize \in Nat
  BY <1>a, SetsAssumption, Sizes DEF Typed
<1>c. role' = role => RoundLen' = RoundLen
  BY DEF RoundLen
<1>l. late => late'
  BY <1>a, LateStays
<1>d. CASE UNCHANGED <<role, outRing, mbufs, inRing, hopa_cp_hdrs>>
  BY <1>a, <1>d, <1>l DEF Fits, RoundLen
<1>1. CASE Main
  BY <1>d, <1>1, MainFrame
<1>2. CASE Crashes
  BY <1>d, <1>2 DEF Crashes
<1>3. CASE RxCount /\ crashed' = "no"
  BY <1>d, <1>3, <1>a, CountEffect
<1>4. CASE RxBurst
  BY <1>d, <1>4, <1>a, BurstEffect
<1>5. CASE RxAppend /\ crashed' = "no"
  BY <1>d, <1>5, <1>a, AppendEffect
<1>6. CASE Process
  BY <1>d, <1>6, <1>a, ProcessEffect
<1>7. CASE Encode
  <2>1. /\ mbufs' = Append(mbufs, Head(cp)) \/ mbufs' = Append(mbufs, NULL)
        /\ Len(mbufs) < RoundLen /\ (~late' /\ mbufs = <<>> => Len(outRing) + RoundLen <= Behind)
        /\ UNCHANGED <<role, outRing, inRing, hopa_cp_hdrs>>
    BY <1>a, <1>7, SenderEffect
  <2>2. Len(mbufs') = Len(mbufs) + 1 /\ Len(mbufs) \in Nat
    BY <1>b, <2>1
  <2>3. Len(mbufs') <= RoundLen
    <3> HIDE DEF ringVars, cpVars, initVars, poolVars, pmdVars
    <3> QED
      BY <2>1, <2>2, RoundLenNat
  <2>4. ~late' => Len(outRing) + RoundLen <= Behind
    BY <1>a, <1>l, <2>1 DEF Fits
  <2> QED
    BY <1>a, <1>c, <1>l, <2>1, <2>3, <2>4 DEF Fits
<1>8. CASE Enqueue /\ crashed' = "no"
  <2>1. /\ Len(outRing') <= OutSize /\ mbufs' = <<>>
        /\ UNCHANGED <<role, inRing, hopa_cp_hdrs>>
    BY <1>a, <1>8, EnqueueEffect
  <2>2. Len(mbufs') = 0
    BY <2>1
  <2>3. ~late' => Len(outRing') <= Behind
    BY <1>a, <1>l, <1>8, EnqueueWhole DEF Fits
  <2> QED
    BY <1>a, <1>c, <2>1, <2>2, <2>3, RoundLenNat DEF Fits
<1>9. CASE Dequeue /\ crashed' = "no"
  <2>1. PICK n \in 1 .. Len(inRing) :
           /\ n <= Burst /\ hopa_cp_hdrs' = SubSeq(inRing, 1, n)
           /\ inRing' = SubSeq(inRing, n + 1, Len(inRing))
           /\ UNCHANGED <<role, outRing, mbufs>>
    BY <1>a, <1>9, DequeueHdrs
  <2>2. Len(hopa_cp_hdrs') = n /\ Len(inRing') = Len(inRing) - n /\ Len(inRing) \in Nat
    BY <1>b, <2>1
  <2>3. Len(hopa_cp_hdrs') <= Burst /\ Len(inRing') <= InSize
    BY <1>a, <1>b, <2>1, <2>2 DEF Fits
  <2> QED
    BY <1>a, <1>c, <1>l, <2>1, <2>3 DEF Fits
<1>10. CASE Handle
  <2>1. /\ hopa_cp_hdrs # <<>> /\ hopa_cp_hdrs' = Tail(hopa_cp_hdrs)
        /\ UNCHANGED <<role, outRing, mbufs, inRing>>
    BY <1>a, <1>10, HandleEffect
  <2>2. Len(hopa_cp_hdrs') = Len(hopa_cp_hdrs) - 1 /\ Len(hopa_cp_hdrs) \in Nat
    BY <1>b, <2>1
  <2>3. Len(hopa_cp_hdrs') <= Burst
    BY <1>a, <1>b, <2>2 DEF Fits
  <2> QED
    BY <1>a, <1>c, <1>l, <2>1, <2>3 DEF Fits
<1>11. CASE RxDequeue
  <2>1. /\ Me.nb_cp \in 1 .. Len(outRing)
        /\ outRing' = SubSeq(outRing, Me.nb_cp + 1, Len(outRing))
        /\ UNCHANGED <<role, mbufs, inRing, hopa_cp_hdrs>>
    BY <1>a, <1>11, DequeueEffect
  <2>2. Len(outRing') = Len(outRing) - Me.nb_cp /\ Len(outRing) \in Nat
    BY <1>b, <2>1
  <2>3. Len(outRing') <= Len(outRing) /\ Len(outRing') \in Nat
    BY <2>1, <2>2
  <2>4. /\ Len(outRing') <= OutSize /\ (~late' => Len(outRing') <= Behind)
        /\ ~late' /\ mbufs # <<>> => Len(outRing') + RoundLen <= Behind
    BY <1>a, <1>b, <1>l, <2>2, <2>3, RoundLenNat, SetsAssumption DEF Fits
  <2> QED
    BY <1>a, <1>c, <1>l, <2>1, <2>4 DEF Fits
<1>12. ASSUME NEW p \in Pmd, RecircBegin(p)
       PROVE  Fits'
  BY <1>d, <1>12, <1>a, BeginEffect
<1>13. ASSUME NEW p \in Pmd, RecircCopy(p), crashed' = "no"
       PROVE  Fits'
  BY <1>d, <1>13, <1>a, CopyEffect
<1>14. ASSUME NEW p \in Pmd, RecircEnqueue(p)
       PROVE  Fits'
  <2>a. PICK s \in Seq(Header) : \E k \in 0 .. Len(s) :
          inRing' = inRing \o SubSeq(s, 1, k) /\ Len(inRing) + k <= InSize
    BY <1>a, <1>14, RecircEffect
  <2>1. PICK k \in 0 .. Len(s) :
          inRing' = inRing \o SubSeq(s, 1, k) /\ Len(inRing) + k <= InSize
    BY <2>a
  <2>2. UNCHANGED <<role, outRing, mbufs, hopa_cp_hdrs>>
    BY <1>14 DEF RecircEnqueue
  <2>3. Len(inRing') <= InSize
    BY <1>b, <2>1, Prefixed
  <2> QED
    BY <1>a, <1>c, <1>l, <2>2, <2>3 DEF Fits
<1> QED
  BY <1>1, <1>2, <1>3, <1>4, <1>5, <1>6, <1>7, <1>8, <1>9, <1>10, <1>11, <1>12, <1>13,
     <1>14, NextCases

(* An mbuf that belongs to hopa_cp_mp is not copied over with one that     *)
(* does not.                                                               *)
LEMMA HomeKept ==
  ASSUME Inv, Next, NEW m \in Mbuf \cup {NULL}, OfCp(m)
  PROVE  m = NULL \/ home'[m] = "cp"
<1> USE DEF ringVars, cpVars, initVars, poolVars, pmdVars
<1>1. CASE RxAppend /\ crashed' = "no"
  <2>a. Typed /\ Polls /\ Homed
    BY DEF Inv
  <2>1. /\ Me.pc = "append" /\ Me.i \in Nat /\ Me.nb_cp \in Nat /\ Me.i < Me.nb_cp
        /\ Me.nb_rx + Me.i + 1 \in Slots
        /\ hopa_cp_send_mbuf[Me.i + 1] \in Mbuf
        /\ home' = [home EXCEPT ![slot[Me.nb_rx + Me.i + 1]] =
                                  home[hopa_cp_send_mbuf[Me.i + 1]]]
    BY <1>1, <2>a, AppendEffect
  <2>2. Me.i + 1 \in Me.i + 1 .. Me.nb_cp
    BY <2>1
  <2>3. OfCp(hopa_cp_send_mbuf[Me.i + 1])
    BY <2>a, <2>1, <2>2 DEF Homed
  <2>4. home[hopa_cp_send_mbuf[Me.i + 1]] = "cp"
    BY <2>1, <2>3, SetsAssumption DEF OfCp, Mbuf
  <2>5. home \in [Mbuf -> {"nic", "cp"}]
    BY <2>a DEF Typed
  <2> QED
    BY <2>1, <2>4, <2>5 DEF OfCp
<1>2. CASE ~(RxAppend /\ crashed' = "no")
  <2>1. home' = home
    BY <1>2, NextCases DEF Main, InitPool, InitRings, InitRing, InitThreads, Encode, Enqueue,
      Dequeue, Handle, RxCount, RxBurst, RxDequeue, Process, RecircBegin, RecircCopy,
      RecircEnqueue, Crash, Crashes
  <2> QED
    BY <2>1 DEF OfCp
<1> QED
  BY <1>1, <1>2

(* Homed, but for the batch of the polling thread.                         *)
HomedPools ==
  /\ \A m \in CpMbuf : OfCp(m)
  /\ \A j \in 1 .. Len(cp) : OfCp(cp[j])
  /\ \A j \in 1 .. Len(mbufs) : OfCp(mbufs[j])
  /\ \A j \in 1 .. Len(outRing) : OfCp(outRing[j])
(* Homed, for the batch of the polling thread.                             *)
HomedBatch ==
  /\ Me.pc = "append" =>
       /\ \A j \in Me.i + 1 .. Me.nb_cp : OfCp(hopa_cp_send_mbuf[j])
       /\ \A j \in Me.nb_rx + 1 .. Me.nb_rx + Me.i : OfCp(slot[j])
  /\ Me.pc = "process" => \A j \in Me.nb_rx - Me.nb_cp + 1 .. Me.nb_rx : OfCp(slot[j])

(* Every step keeps the pool fields of what is in the pool, the round and  *)
(* the ring.                                                               *)
LEMMA HomedPoolsKept ==
  ASSUME Inv, Next
  PROVE  HomedPools'
<1> USE DEF ringVars, cpVars, initVars, poolVars, pmdVars
<1> DEFINE H(m) == m = NULL \/ home'[m] = "cp"
<1>a. Typed /\ Copies /\ Polls /\ Fits /\ Made /\ Homed
  BY DEF Inv
<1>b. /\ outRing \in Seq(Mbuf \cup {NULL}) /\ mbufs \in Seq(Mbuf \cup {NULL})
      /\ cp \in Seq(Mbuf)
  BY <1>a DEF Typed
<1>c. /\ \A m \in CpMbuf : H(m)
      /\ \A j \in 1 .. Len(cp) : H(cp[j])
      /\ \A j \in 1 .. Len(mbufs) : H(mbufs[j])
      /\ \A j \in 1 .. Len(outRing) : H(outRing[j])
  <2>1. \A m \in Mbuf \cup {NULL} : OfCp(m) => H(m)
    BY HomeKept
  <2>2. /\ \A m \in CpMbuf : m \in Mbuf /\ OfCp(m)
        /\ \A j \in 1 .. Len(cp) : cp[j] \in Mbuf /\ OfCp(cp[j])
        /\ \A j \in 1 .. Len(mbufs) : mbufs[j] \in Mbuf \cup {NULL} /\ OfCp(mbufs[j])
        /\ \A j \in 1 .. Len(outRing) : outRing[j] \in Mbuf \cup {NULL} /\ OfCp(outRing[j])
    BY <1>a, <1>b DEF Homed, Mbuf
  <2> HIDE DEF H
  <2> QED
    BY <2>1, <2>2
<1>d. ASSUME /\ \A j \in 1 .. Len(cp') : H(cp'[j])
             /\ \A j \in 1 .. Len(mbufs') : H(mbufs'[j])
             /\ \A j \in 1 .. Len(outRing') : H(outRing'[j])
      PROVE  HomedPools'
  BY <1>c, <1>d DEF HomedPools, OfCp
<1> HIDE DEF H
<1>e. CASE UNCHANGED <<cp, mbufs, outRing>>
  BY <1>c, <1>d, <1>e
<1>1. CASE Main
  <2>1. UNCHANGED <<mbufs, outRing>>
    BY <1>1, MainFrame
  <2>2. CASE InitPool /\ cp' # cp
    <3>1. cp' = SetToSeq(CpMbuf)
      BY <2>2 DEF InitPool
    <3>2. cp' \in Seq(CpMbuf)
      BY <3>1, SetsAssumption, SeqOfSet
    <3>3. \A j \in 1 .. Len(cp') : cp'[j] \in CpMbuf
      BY <3>2
    <3> QED
      BY <1>c, <1>d, <2>1, <3>3
  <2>3. CASE ~(InitPool /\ cp' # cp)
    <3>1. cp' = cp
      BY <1>1, <2>3 DEF Main, InitRings, InitRing, InitThreads
    <3> QED
      BY <1>e, <2>1, <3>1
  <2> QED
    BY <2>2, <2>3
<1>2. CASE Encode
  <2>1. /\ \/ cp # <<>> /\ mbufs' = Append(mbufs, Head(cp)) /\ cp' = Tail(cp)
           \/ cp = <<>> /\ mbufs' = Append(mbufs, NULL) /\ cp' = cp
        /\ UNCHANGED outRing
    BY <1>a, <1>2, SenderEffect
  <2>2. H(NULL)
    BY DEF H
  <2>3. CASE cp # <<>>
    <3>1. /\ Head(cp) = cp[1] /\ Head(cp) \in Mbuf /\ Len(cp) > 0 /\ Len(cp) \in Nat
          /\ Len(Tail(cp)) = Len(cp) - 1
          /\ \A j \in 1 .. Len(cp) - 1 : Tail(cp)[j] = cp[j + 1]
      BY <1>b, <2>3, Tailed
    <3>2. /\ Len(mbufs') = Len(mbufs) + 1 /\ Len(mbufs) \in Nat
          /\ \A j \in 1 .. Len(mbufs) + 1 :
               mbufs'[j] = IF j <= Len(mbufs) THEN mbufs[j] ELSE cp[1]
      BY <1>b, <2>1, <2>3, <3>1, Appended
    <3>3. \A j \in 1 .. Len(cp') : H(cp'[j])
      BY <1>c, <2>1, <2>3, <3>1
    <3>4. \A j \in 1 .. Len(mbufs') : H(mbufs'[j])
      BY <1>c, <3>1, <3>2
    <3> QED
      BY <1>c, <1>d, <2>1, <3>3, <3>4
  <2>4. CASE cp = <<>>
    <3>1. /\ Len(mbufs') = Len(mbufs) + 1 /\ Len(mbufs) \in Nat
          /\ \A j \in 1 .. Len(mbufs) + 1 :
               mbufs'[j] = IF j <= Len(mbufs) THEN mbufs[j] ELSE NULL
      BY <1>b, <2>1, <2>4, Appended
    <3>2. \A j \in 1 .. Len(mbufs') : H(mbufs'[j])
      BY <1>c, <2>2, <3>1
    <3> QED
      BY <1>c, <1>d, <2>1, <2>4, <3>2
  <2> QED
    BY <2>3, <2>4
<1>3. CASE Enqueue /\ crashed' = "no"
  <2>1. PICK k \in 0 .. Len(mbufs) :
          /\ Len(outRing') = Len(outRing) + k
          /\ \A j \in 1 .. Len(outRing) + k :
               outRing'[j] = IF j <= Len(outRing) THEN outRing[j] ELSE mbufs[j - Len(outRing)]
          /\ mbufs' = <<>> /\ UNCHANGED cp
    BY <1>a, <1>3, EnqueueEffect
  <2>2. Len(outRing) \in Nat /\ Len(mbufs) \in Nat /\ Len(mbufs') = 0
    BY <1>b, <2>1
  <2>3. \A j \in 1 .. Len(outRing') : H(outRing'[j])
    <3> SUFFICES ASSUME NEW j \in 1 .. Len(outRing) + k
                 PROVE  H(outRing'[j])
      BY <2>1
    <3>1. CASE j <= Len(outRing)
      <4>1. outRing'[j] = outRing[j] /\ j \in 1 .. Len(outRing)
        BY <2>1, <2>2, <3>1
      <4> QED
        BY <1>c, <4>1
    <3>2. CASE ~(j <= Len(outRing))
      <4>1. outRing'[j] = mbufs[j - Len(outRing)]
        BY <2>1, <3>2
      <4>2. j - Len(outRing) \in 1 .. Len(mbufs)
        BY <2>1, <2>2, <3>2
      <4> QED
        BY <1>c, <4>1, <4>2
    <3> QED
      BY <3>1, <3>2
  <2>4. \A j \in 1 .. Len(mbufs') : H(mbufs'[j])
    BY <2>2
  <2> QED
    BY <1>c, <1>d, <2>1, <2>3, <2>4
<1>4. CASE RxDequeue
  <2>1. /\ Me.nb_cp \in 1 .. Len(outRing)
        /\ outRing' = SubSeq(outRing, Me.nb_cp + 1, Len(outRing)) /\ UNCHANGED <<cp, mbufs>>
    BY <1>a, <1>4, DequeueEffect
  <2>2. /\ Len(outRing') = Len(outRing) - Me.nb_cp /\ Len(outRing) \in Nat
        /\ \A j \in 1 .. Len(outRing) - Me.nb_cp : outRing'[j] = outRing[Me.nb_cp + j]
    <3>1. Me.nb_cp \in 0 .. Len(outRing) /\ Len(outRing) \in Nat
      BY <1>b, <2>1
    <3> QED
      BY <1>b, <2>1, <3>1, Suffix
  <2>3. \A j \in 1 .. Len(outRing') : H(outRing'[j])
    <3> SUFFICES ASSUME NEW j \in 1 .. Len(outRing')
                 PROVE  H(outRing'[j])
      OBVIOUS
    <3>1. Me.nb_cp + j \in 1 .. Len(outRing) /\ j \in 1 .. Len(outRing) - Me.nb_cp
      BY <2>1, <2>2
    <3> QED
      BY <1>c, <2>2, <3>1
  <2> QED
    BY <1>c, <1>d, <2>1, <2>3
<1>5. CASE Process
  <2>1. /\ Len(cp') = Len(cp) + Cardinality({i \in 1 .. Me.nb_rx : home[slot[i]] = "cp"})
        /\ \A j \in 1 .. Len(cp) : cp'[j] = cp[j]
        /\ \A j \in Len(cp) + 1 .. Len(cp') : home[cp'[j]] = "cp"
        /\ UNCHANGED <<home, mbufs, outRing>>
        /\ cp' \in Seq(Mbuf)
    BY <1>a, <1>5, ProcessEffect
  <2>2. Len(cp) \in Nat /\ Len(cp') \in Nat
    BY <1>b, <2>1
  <2>3. \A j \in 1 .. Len(cp') : j \in 1 .. Len(cp) \/ j \in Len(cp) + 1 .. Len(cp')
    BY <2>2
  <2>4. \A j \in 1 .. Len(cp') : H(cp'[j])
    BY <1>c, <2>1, <2>3 DEF H
  <2> QED
    BY <1>c, <1>d, <2>1, <2>4
<1>6. CASE Dequeue /\ crashed' = "no"
  BY <1>a, <1>e, <1>6, DequeueHdrs
<1>7. CASE Handle
  BY <1>a, <1>e, <1>7, HandleEffect
<1>8. CASE RxCount /\ crashed' = "no"
  BY <1>a, <1>e, <1>8, CountEffect
<1>9. CASE RxBurst
  BY <1>a, <1>e, <1>9, BurstEffect
<1>10. CASE RxAppend /\ crashed' = "no"
  BY <1>a, <1>e, <1>10, AppendEffect
<1>11. CASE \E p \in Pmd : RecircBegin(p) \/ RecircCopy(p) \/ RecircEnqueue(p)
  BY <1>e, <1>11 DEF RecircBegin, RecircCopy, RecircEnqueue, Crash
<1>12. CASE Crashes
  BY <1>e, <1>12 DEF Crashes
<1> QED
  BY <1>1, <1>2, <1>3, <1>4, <1>5, <1>6, <1>7, <1>8, <1>9, <1>10, <1>11, <1>12, NextCases

(* Another thread's step, or the main thread's.                            *)
LEMMA MeFrame ==
  ASSUME Inv, Next, ~Rx
  PROVE  /\ Me' = Me \/ (Me'.pc \in {"idle", "recirc"} /\ Me.pc \in {"idle", "recirc"})
         /\ UNCHANGED <<slot, hopa_cp_send_mbuf, injected>>
<1> USE DEF ringVars, cpVars, initVars, poolVars, pmdVars
<1>a. Typed /\ Copies /\ Polls /\ Fits /\ Made /\ pmd \in [Pmd -> Thread] /\ Poller \in Pmd
  BY SetsAssumption DEF Inv, Typed
<1>1. CASE UNCHANGED pmdVars
  BY <1>1 DEF Me
<1>2. ASSUME NEW p \in Pmd, RecircBegin(p)
      PROVE  /\ UNCHANGED <<slot, hopa_cp_send_mbuf, injected>> /\ pmd[p].pc = "idle"
             /\ pmd'[p].pc = "recirc" /\ \A q \in Pmd \ {p} : pmd'[q] = pmd[q]
  <2>1. /\ pmd[p].pc = "idle" /\ UNCHANGED <<slot, hopa_cp_send_mbuf, injected>>
        /\ \E hs : pmd' = [pmd EXCEPT ![p] = [Idle EXCEPT !.pc = "recirc", !.todo = hs]]
    BY <1>a, <1>2, BeginEffect
  <2> QED
    BY <1>a, <2>1 DEF Idle
<1>3. ASSUME NEW p \in Pmd, RecircCopy(p), crashed' = "no"
      PROVE  /\ UNCHANGED <<slot, hopa_cp_send_mbuf, injected>> /\ pmd[p].pc = "recirc"
             /\ pmd'[p].pc = "recirc" /\ \A q \in Pmd \ {p} : pmd'[q] = pmd[q]
  BY <1>a, <1>3, CopyEffect
<1>4. ASSUME NEW p \in Pmd, RecircEnqueue(p)
      PROVE  /\ UNCHANGED <<slot, hopa_cp_send_mbuf, injected>> /\ pmd[p].pc = "recirc"
             /\ pmd'[p].pc = "idle" /\ \A q \in Pmd \ {p} : pmd'[q] = pmd[q]
  <2>1. /\ pmd[p].pc = "recirc" /\ UNCHANGED <<slot, hopa_cp_send_mbuf, injected>>
        /\ pmd' = [pmd EXCEPT ![p] = Idle]
    BY <1>a, <1>4, RecircEffect
  <2> QED
    BY <1>a, <2>1 DEF Idle
<1>5. CASE \E p \in Pmd : Recirc(p)
  <2>1. PICK p \in Pmd : Recirc(p)
    BY <1>5
  <2>2. /\ UNCHANGED <<slot, hopa_cp_send_mbuf, injected>>
        /\ pmd[p].pc \in {"idle", "recirc"} /\ pmd'[p].pc \in {"idle", "recirc"}
        /\ \A q \in Pmd \ {p} : pmd'[q] = pmd[q]
    <3>1. CASE RecircCopy(p) /\ crashed' # "no"
      <4>1. pmd[p].pc = "recirc" /\ UNCHANGED pmdVars
        BY <3>1 DEF RecircCopy, Crash, Up
      <4> QED
        BY <4>1
    <3>2. CASE ~(RecircCopy(p) /\ crashed' # "no")
      BY <1>2, <1>3, <1>4, <2>1, <3>2 DEF Recirc
    <3> QED
      BY <3>1, <3>2
  <2> QED
    BY <1>a, <2>2 DEF Me
<1>6. CASE Main
  BY <1>1, <1>6, MainFrame
<1>7. CASE Encode \/ Enqueue \/ Dequeue \/ Handle
  BY <1>1, <1>7 DEF Encode, Enqueue, Dequeue, Handle, Crash
<1> QED
  BY <1>5, <1>6, <1>7 DEF Next

(* Every step keeps the pool fields of the mbufs of the batch.             *)
LEMMA HomedBatchKept ==
  ASSUME Inv, Next
  PROVE  HomedBatch'
<1> USE DEF ringVars, cpVars, initVars, poolVars, pmdVars
<1> DEFINE H(m) == m = NULL \/ home'[m] = "cp"
<1>a. Typed /\ Copies /\ Polls /\ Fits /\ Made /\ Homed
  BY DEF Inv
<1>b. /\ Me \in Thread /\ slot \in [Slots -> Mbuf] /\ Burst \in Nat
      /\ hopa_cp_send_mbuf \in [Slots -> Mbuf \cup {NULL}]
      /\ outRing \in Seq(Mbuf \cup {NULL})
      /\ Me.nb_cp \in Nat /\ Me.nb_rx \in Nat /\ Me.i \in Nat
  <2>1. Me \in Thread
    BY <1>a, MeThread DEF Typed
  <2> QED
    BY <1>a, <2>1, SetsAssumption DEF Typed, Thread
<1>c. \A m \in Mbuf \cup {NULL} : OfCp(m) => H(m)
  BY HomeKept
<1>d. /\ Me.pc = "append" =>
           /\ \A j \in Me.i + 1 .. Me.nb_cp : H(hopa_cp_send_mbuf[j])
           /\ \A j \in Me.nb_rx + 1 .. Me.nb_rx + Me.i : H(slot[j])
      /\ Me.pc = "process" => \A j \in Me.nb_rx - Me.nb_cp + 1 .. Me.nb_rx : H(slot[j])
  <2> HIDE DEF H
  <2>1. ASSUME Me.pc = "append"
        PROVE  /\ \A j \in Me.i + 1 .. Me.nb_cp : H(hopa_cp_send_mbuf[j])
               /\ \A j \in Me.nb_rx + 1 .. Me.nb_rx + Me.i : H(slot[j])
    <3>1. Me.i < Me.nb_cp /\ Me.nb_rx + Me.nb_cp <= Burst
      BY <1>a, <2>1 DEF Polls
    <3>2. /\ \A j \in Me.i + 1 .. Me.nb_cp : j \in Slots
          /\ \A j \in Me.nb_rx + 1 .. Me.nb_rx + Me.i : j \in Slots
      BY <1>b, <3>1 DEF Slots
    <3> QED
      BY <1>a, <1>b, <1>c, <2>1, <3>2 DEF Homed
  <2>2. ASSUME Me.pc = "process"
        PROVE  \A j \in Me.nb_rx - Me.nb_cp + 1 .. Me.nb_rx : H(slot[j])
    <3>1. Me.nb_cp <= Me.nb_rx /\ Me.nb_rx <= Burst
      BY <1>a, <2>2 DEF Polls
    <3>2. \A j \in Me.nb_rx - Me.nb_cp + 1 .. Me.nb_rx : j \in Slots
      BY <1>b, <3>1 DEF Slots
    <3> QED
      BY <1>a, <1>b, <1>c, <2>2, <3>2 DEF Homed
  <2> QED
    BY <2>1, <2>2
<1>e. ASSUME /\ Me'.pc = "append" =>
                  /\ \A j \in Me'.i + 1 .. Me'.nb_cp : H(hopa_cp_send_mbuf'[j])
                  /\ \A j \in Me'.nb_rx + 1 .. Me'.nb_rx + Me'.i : H(slot'[j])
             /\ Me'.pc = "process" =>
                  \A j \in Me'.nb_rx - Me'.nb_cp + 1 .. Me'.nb_rx : H(slot'[j])
      PROVE  HomedBatch'
  BY <1>e DEF HomedBatch, OfCp
<1> HIDE DEF H
<1>f. CASE UNCHANGED <<Me, slot, hopa_cp_send_mbuf>>
  BY <1>d, <1>e, <1>f
<1>1. CASE ~Rx
  <2>1. /\ Me' = Me \/ Me'.pc \in {"idle", "recirc"}
        /\ UNCHANGED <<slot, hopa_cp_send_mbuf>>
    BY <1>1, MeFrame
  <2> QED
    BY <1>e, <1>f, <2>1
<1>2. CASE Crashes
  BY <1>f, <1>2 DEF Crashes, Me
<1>3. CASE RxCount /\ crashed' = "no"
  BY <1>a, <1>e, <1>3, CountEffect
<1>4. CASE RxBurst
  <2>1. \/ Me' = Idle
        \/ Me'.pc = "process" /\ Me.nb_cp = 0 /\ Me'.nb_rx \in 0 .. Burst /\ Me'.nb_cp = Me.nb_cp
        \/ Me'.pc = "dequeue"
    BY <1>a, <1>4, BurstEffect
  <2>2. Me' = Idle => Me'.pc = "idle"
    BY DEF Idle
  <2>3. Me'.pc = "process" => Me'.nb_rx - Me'.nb_cp + 1 .. Me'.nb_rx = {}
    BY <1>b, <2>1, <2>2
  <2> QED
    BY <1>e, <2>1, <2>2, <2>3
<1>5. CASE RxDequeue
  <2>1. /\ Me'.pc = "append" /\ Me'.nb_cp = Me.nb_cp /\ Me'.nb_rx = Me.nb_rx
        /\ Me'.i = 0 /\ Me.nb_cp \in 1 .. Len(outRing)
        /\ \A j \in 1 .. Me.nb_cp : hopa_cp_send_mbuf'[j] = outRing[j]
    BY <1>a, <1>5, DequeueEffect
  <2>2. \A j \in 1 .. Len(outRing) : OfCp(outRing[j]) /\ outRing[j] \in Mbuf \cup {NULL}
    BY <1>a, <1>b DEF Homed
  <2>3. \A j \in 1 .. Me.nb_cp : H(hopa_cp_send_mbuf'[j])
    BY <1>b, <1>c, <2>1, <2>2
  <2>4. Me'.nb_rx + 1 .. Me'.nb_rx + Me'.i = {}
    BY <1>b, <2>1
  <2> QED
    BY <1>e, <2>1, <2>3, <2>4
<1>6. CASE RxAppend /\ crashed' = "no"
  <2>1. /\ Me.pc = "append" /\ Me.i < Me.nb_cp /\ Me'.nb_cp = Me.nb_cp
        /\ \/ Me'.pc = "append" /\ Me'.i = Me.i + 1 /\ Me'.nb_rx = Me.nb_rx
              /\ Me.i + 1 < Me.nb_cp
           \/ Me'.pc = "process" /\ Me.i + 1 = Me.nb_cp /\ Me'.nb_rx = Me.nb_rx + Me.nb_cp
              /\ Me'.i = 0
        /\ Me.i + 1 \in Slots /\ Me.nb_rx + Me.i + 1 \in Slots
        /\ hopa_cp_send_mbuf[Me.i + 1] \in Mbuf
        /\ home' = [home EXCEPT ![slot[Me.nb_rx + Me.i + 1]] =
                                  home[hopa_cp_send_mbuf[Me.i + 1]]]
        /\ UNCHANGED <<slot, hopa_cp_send_mbuf>>
    BY <1>a, <1>6, AppendEffect
  <2>2. home[hopa_cp_send_mbuf[Me.i + 1]] = "cp"
    <3>1. Me.i + 1 \in Me.i + 1 .. Me.nb_cp
      BY <1>b, <2>1
    <3>2. OfCp(hopa_cp_send_mbuf[Me.i + 1])
      BY <1>a, <2>1, <3>1 DEF Homed
    <3> QED
      BY <2>1, <3>2, SetsAssumption DEF OfCp, Mbuf
  <2>3. H(slot[Me.nb_rx + Me.i + 1])
    <3>1. slot[Me.nb_rx + Me.i + 1] \in Mbuf /\ home \in [Mbuf -> {"nic", "cp"}]
      BY <1>a, <1>b, <2>1 DEF Typed
    <3> QED
      BY <2>1, <2>2, <3>1 DEF H
  <2>4. \A j \in Me.nb_rx + 1 .. Me.nb_rx + Me.i + 1 : H(slot[j])
    <3>1. \A j \in Me.nb_rx + 1 .. Me.nb_rx + Me.i + 1 :
            j = Me.nb_rx + Me.i + 1 \/ j \in Me.nb_rx + 1 .. Me.nb_rx + Me.i
      BY <1>b
    <3> QED
      BY <1>d, <2>1, <2>3, <3>1
  <2>5. CASE Me'.pc = "append"
    <3>1. /\ Me'.i + 1 .. Me'.nb_cp \subseteq Me.i + 1 .. Me.nb_cp
          /\ Me'.nb_rx + 1 .. Me'.nb_rx + Me'.i = Me.nb_rx + 1 .. Me.nb_rx + Me.i + 1
      BY <1>b, <2>1, <2>5
    <3> QED
      BY <1>d, <1>e, <2>1, <2>4, <2>5, <3>1
  <2>6. CASE Me'.pc = "process"
    <3>1. Me'.nb_rx - Me'.nb_cp + 1 .. Me'.nb_rx = Me.nb_rx + 1 .. Me.nb_rx + Me.i + 1
      <4>1. /\ Me'.nb_cp = Me.nb_cp /\ Me'.nb_rx = Me.nb_rx + Me.nb_cp
            /\ Me.i + 1 = Me.nb_cp
        BY <2>1, <2>6
      <4>2. Me'.nb_rx - Me'.nb_cp + 1 = Me.nb_rx + 1
        BY <1>b, <4>1
      <4>3. Me'.nb_rx = Me.nb_rx + Me.i + 1
        BY <1>b, <4>1
      <4> QED
        BY <4>2, <4>3
    <3> QED
      BY <1>e, <2>1, <2>4, <2>6, <3>1
  <2> QED
    BY <2>1, <2>5, <2>6
<1>7. CASE Process
  <2>1. Me' = Idle
    BY <1>a, <1>7, ProcessEffect
  <2>2. Me'.pc = "idle"
    BY <2>1 DEF Idle
  <2> QED
    BY <1>e, <2>2
<1> QED
  BY <1>1, <1>2, <1>3, <1>4, <1>5, <1>6, <1>7, RxCases

(* Both together.                                                          *)
LEMMA HomedKept ==
  ASSUME Inv, Next
  PROVE  Homed'
  BY HomedPoolsKept, HomedBatchKept DEF Homed, HomedPools, HomedBatch

(* Pointers of hopa_cp_mp in the places between.                           *)
Stock == Len(cp) + Len(mbufs) + Len(outRing) + Taken

(* The count of the pointers is one.                                       *)
LEMMA StockNat ==
  ASSUME Typed
  PROVE  /\ Len(cp) \in Nat /\ Len(mbufs) \in Nat /\ Len(outRing) \in Nat /\ Taken \in Nat
         /\ Me.nb_cp \in Nat
<1>1. Me \in Thread
  BY MeThread DEF Typed
<1>2. Me.nb_cp \in Nat
  BY <1>1 DEF Thread
<1> QED
  BY <1>2 DEF Typed, Taken

(* No step after the making of the pool loses a pointer: the end of a      *)
(* batch gives one back for each slot the copying filled, as Homed says.   *)
LEMMA StockKept ==
  ASSUME Inv, Next, failed' = {}, init # "pool", ~late'
  PROVE  Stock' >= Cardinality(CpMbuf)
<1> USE DEF ringVars, cpVars, initVars, poolVars, pmdVars
<1>a. Typed /\ Copies /\ Polls /\ Fits /\ Made /\ Homed /\ Stocked /\ Typed'
  BY TypedKept DEF Inv
<1>b. failed = {}
  BY NextCases DEF Main, InitPool, InitRings, InitRing, InitThreads, Encode, Enqueue,
      Dequeue, Handle, RxCount, RxBurst, RxDequeue, RxAppend, Process, RecircBegin, RecircCopy,
      RecircEnqueue, Crash, Crashes
<1>l. ~late
  BY <1>a, LateStays
<1>c. /\ Stock >= Cardinality(CpMbuf) /\ Cardinality(CpMbuf) \in Nat
      /\ \A j \in 1 .. Len(mbufs) : mbufs[j] # NULL
  BY <1>a, <1>b, <1>l, Sizes DEF Stocked, Stock
<1>d. /\ Len(cp) \in Nat /\ Len(mbufs) \in Nat /\ Len(outRing) \in Nat /\ Taken \in Nat
      /\ Len(cp') \in Nat /\ Len(mbufs') \in Nat /\ Len(outRing') \in Nat /\ Taken' \in Nat
      /\ Me.nb_cp \in Nat
      /\ Stock = Len(cp) + Len(mbufs) + Len(outRing) + Taken
      /\ Stock' = Len(cp') + Len(mbufs') + Len(outRing') + Taken'
  <2>1. /\ Len(cp) \in Nat /\ Len(mbufs) \in Nat /\ Len(outRing) \in Nat /\ Taken \in Nat
        /\ Me.nb_cp \in Nat
    BY <1>a, StockNat
  <2>2. /\ Len(cp') \in Nat /\ Len(mbufs') \in Nat /\ Len(outRing') \in Nat /\ Taken' \in Nat
    <3>1. Me' \in Thread
      BY <1>a, SetsAssumption DEF Typed, Me
    <3>2. Me'.nb_cp \in Nat
      BY <3>1 DEF Thread
    <3> QED
      <4>1. Len(cp') \in Nat /\ Len(mbufs') \in Nat /\ Len(outRing') \in Nat
        BY <1>a DEF Typed
      <4> QED
        BY <3>2, <4>1 DEF Taken
  <2> QED
    BY <2>1, <2>2 DEF Stock
<1>e. outRing \in Seq(Mbuf \cup {NULL}) /\ mbufs \in Seq(Mbuf \cup {NULL}) /\ cp \in Seq(Mbuf)
  BY <1>a DEF Typed
<1>f. CASE UNCHANGED <<cp, mbufs, outRing, Taken>>
  BY <1>c, <1>f DEF Stock
<1>1. CASE ~Rx
  <2>1. Taken' = Taken
    BY <1>1, MeFrame DEF Taken
  <2>2. CASE Main
    <3>1. UNCHANGED <<mbufs, outRing>>
      BY <2>2, MainFrame
    <3>2. cp' = cp
      BY <2>2 DEF Main, InitPool, InitRings, InitRing, InitThreads
    <3> QED
      BY <1>f, <2>1, <3>1, <3>2
  <2>3. CASE Encode
    <3>1. /\ \/ cp # <<>> /\ mbufs' = Append(mbufs, Head(cp)) /\ cp' = Tail(cp)
             \/ cp = <<>> /\ mbufs' = Append(mbufs, NULL) /\ cp' = cp
          /\ UNCHANGED outRing
      BY <1>a, <2>3, SenderEffect
    <3>2. Len(cp') + Len(mbufs') >= Len(cp) + Len(mbufs)
      <4>1. CASE cp = <<>>
        <5>1. Len(mbufs') = Len(mbufs) + 1 /\ cp' = cp
          BY <1>e, <3>1, <4>1, Appended
        <5> QED
          BY <1>d, <5>1
      <4>2. CASE cp # <<>>
        <5>1. Len(cp') = Len(cp) - 1 /\ Head(cp) \in Mbuf
          BY <1>e, <3>1, <4>2, Tailed
        <5>2. Len(mbufs') = Len(mbufs) + 1
          BY <1>e, <3>1, <4>2, <5>1, Appended
        <5> QED
          BY <1>d, <5>1, <5>2
      <4> QED
        BY <4>1, <4>2
    <3> QED
      BY <1>c, <1>d, <2>1, <3>1, <3>2
  <2>4. CASE Enqueue /\ crashed' = "no"
    <3>1. /\ Len(outRing') = Len(outRing) + RoundLen /\ Len(mbufs) = RoundLen
          /\ UNCHANGED cp /\ mbufs' = <<>>
      BY <1>a, <1>l, <2>4, EnqueueWhole
    <3>2. Len(outRing') + Len(mbufs') = Len(outRing) + Len(mbufs)
      BY <1>d, <3>1
    <3> QED
      BY <1>c, <1>d, <2>1, <3>1, <3>2
  <2>5. CASE Dequeue /\ crashed' = "no"
    BY <1>a, <1>f, <2>1, <2>5, DequeueHdrs
  <2>6. CASE Handle
    BY <1>a, <1>f, <2>1, <2>6, HandleEffect
  <2>7. CASE \E p \in Pmd : RecircBegin(p) \/ RecircCopy(p) \/ RecircEnqueue(p)
    BY <1>f, <2>1, <2>7 DEF RecircBegin, RecircCopy, RecircEnqueue, Crash
  <2>8. CASE Crashes
    BY <1>f, <2>1, <2>8 DEF Crashes
  <2> QED
    BY <1>1, <2>2, <2>3, <2>4, <2>5, <2>6, <2>7, <2>8, NextCases DEF Rx
<1>2. CASE Crashes
  BY <1>f, <1>2 DEF Crashes, Taken, Me
<1>3. CASE RxCount /\ crashed' = "no"
  <2>1. Me.pc = "idle" /\ Me'.pc = "rx" /\ UNCHANGED <<cp, mbufs, outRing>>
    BY <1>a, <1>3, CountEffect
  <2> QED
    BY <1>f, <2>1 DEF Taken
<1>4. CASE RxBurst
  <2>1. /\ Me.pc = "rx" /\ UNCHANGED <<cp, mbufs, outRing>>
        /\ \/ Me' = Idle
           \/ Me'.pc = "process" /\ Me'.nb_cp = 0
           \/ Me'.pc = "dequeue"
    BY <1>a, <1>4, BurstEffect
  <2>2. Me' = Idle => Me'.pc = "idle"
    BY DEF Idle
  <2>3. Taken = 0 /\ Taken' = 0
    BY <2>1, <2>2 DEF Taken
  <2> QED
    BY <1>f, <2>1, <2>3
<1>5. CASE RxDequeue
  <2>1. /\ Me.pc = "dequeue" /\ Me'.pc = "append" /\ Me'.nb_cp = Me.nb_cp
        /\ Me.nb_cp \in 1 .. Len(outRing)
        /\ outRing' = SubSeq(outRing, Me.nb_cp + 1, Len(outRing))
        /\ UNCHANGED <<cp, mbufs>>
    BY <1>a, <1>5, DequeueEffect
  <2>2. Len(outRing') = Len(outRing) - Me.nb_cp
    BY <1>e, <2>1, Suffix
  <2>3. Taken = 0 /\ Taken' = Me.nb_cp
    BY <2>1 DEF Taken
  <2>4. cp' = cp /\ mbufs' = mbufs
    BY <2>1
  <2>5. Stock' = Len(cp) + Len(mbufs) + (Len(outRing) - Me.nb_cp) + Me.nb_cp
    BY <1>d, <2>2, <2>3, <2>4
  <2>6. Stock' = Stock
    <3>1. PICK a \in Nat, b \in Nat, c \in Nat :
            a = Len(cp) /\ b = Len(mbufs) /\ c = Len(outRing)
      BY <1>d
    <3>2. PICK d \in Nat : d = Me.nb_cp
      BY <2>1
    <3>3. Stock' = a + b + (c - d) + d
      BY <2>5, <3>1, <3>2
    <3>4. a + b + (c - d) + d = a + b + c + 0
      OBVIOUS
    <3>5. Stock = a + b + c + 0
      BY <2>3, <3>1 DEF Stock
    <3> QED
      BY <3>3, <3>4, <3>5
  <2> QED
    BY <1>c, <2>6
<1>6. CASE RxAppend /\ crashed' = "no"
  <2>1. /\ Me.pc = "append" /\ Me'.nb_cp = Me.nb_cp /\ Me'.pc \in {"append", "process"}
        /\ UNCHANGED <<cp, mbufs, outRing>>
    BY <1>a, <1>6, AppendEffect
  <2> QED
    BY <1>f, <2>1 DEF Taken
<1>7. CASE Process
  <2> DEFINE B == {i \in 1 .. Me.nb_rx : home[slot[i]] = "cp"}
  <2>1. /\ Me.pc = "process" /\ Me' = Idle /\ Me.nb_cp \in Nat /\ Me.nb_rx \in Nat
        /\ Me.nb_cp <= Me.nb_rx /\ Me.nb_rx <= Burst
        /\ Len(cp') = Len(cp) + Cardinality(B)
        /\ UNCHANGED <<mbufs, outRing>>
    BY <1>a, <1>7, ProcessEffect
  <2>2. \A j \in Me.nb_rx - Me.nb_cp + 1 .. Me.nb_rx : j \in B
    <3> SUFFICES ASSUME NEW j \in Me.nb_rx - Me.nb_cp + 1 .. Me.nb_rx
                 PROVE  j \in B
      OBVIOUS
    <3>1. j \in 1 .. Me.nb_rx /\ j \in Slots
      BY <2>1, SetsAssumption DEF Slots
    <3>2. OfCp(slot[j]) /\ slot[j] \in Mbuf
      BY <1>a, <2>1, <3>1 DEF Homed, Typed
    <3> QED
      BY <3>1, <3>2, SetsAssumption DEF OfCp, Mbuf
  <2>3. IsFiniteSet(1 .. Me.nb_rx)
    <3>1. 1 \in Int /\ Me.nb_rx \in Int
      BY <2>1
    <3> QED
      BY <3>1, FS_Interval
  <2>4. IsFiniteSet(B) /\ Cardinality(B) \in Nat
    BY <2>3, FS_Subset, FS_CardinalityType
  <2> HIDE DEF B
  <2>5. /\ Cardinality(Me.nb_rx - Me.nb_cp + 1 .. Me.nb_rx) = Me.nb_cp
    <3> DEFINE a == Me.nb_rx - Me.nb_cp + 1
    <3>1. a \in Int /\ Me.nb_rx \in Int
      BY <2>1
    <3>2. Cardinality(a .. Me.nb_rx) = IF a > Me.nb_rx THEN 0 ELSE Me.nb_rx - a + 1
      BY <3>1, FS_Interval
    <3>3. (IF a > Me.nb_rx THEN 0 ELSE Me.nb_rx - a + 1) = Me.nb_cp
      BY <2>1
    <3> QED
      BY <3>2, <3>3
  <2>6. Me.nb_cp <= Cardinality(B)
    <3>1. Me.nb_rx - Me.nb_cp + 1 .. Me.nb_rx \in SUBSET B
      BY <2>2
    <3>2. Cardinality(Me.nb_rx - Me.nb_cp + 1 .. Me.nb_rx) <= Cardinality(B)
      BY <2>4, <3>1, FS_Subset
    <3> QED
      BY <2>5, <3>2
  <2>7. Taken = Me.nb_cp /\ Taken' = 0
    <3>1. Me'.pc = "idle"
      BY <2>1 DEF Idle
    <3> QED
      BY <2>1, <3>1 DEF Taken
  <2>8. Stock' >= Stock /\ Stock \in Nat /\ Stock' \in Nat
    <3>1. PICK u \in Nat : u = Len(cp)
      BY <1>d
    <3>2. PICK v \in Nat : v = Len(mbufs)
      BY <1>d
    <3>3. PICK x \in Nat : x = Len(outRing)
      BY <1>d
    <3>4. PICK w \in Nat : w = Cardinality(B)
      BY <2>4
    <3>5. PICK d \in Nat : d = Me.nb_cp /\ d <= w
      BY <2>1, <2>6, <3>4
    <3>6. Len(cp') = u + w /\ Len(mbufs') = v /\ Len(outRing') = x
      BY <2>1, <3>1, <3>2, <3>3, <3>4
    <3>7. Stock = u + v + x + d
      BY <1>d, <2>7, <3>1, <3>2, <3>3, <3>5
    <3>8. Stock' = u + w + v + x + 0
      BY <1>d, <2>7, <3>6
    <3>9. /\ u + w + v + x + 0 >= u + v + x + d
          /\ u + v + x + d \in Nat /\ u + w + v + x + 0 \in Nat
      BY <3>5
    <3> QED
      BY <3>7, <3>8, <3>9
  <2> QED
    BY <1>c, <1>d, <2>8
<1> QED
  BY <1>1, <1>2, <1>3, <1>4, <1>5, <1>6, <1>7, RxCases

(* The part of Stocked that speaks of NULL.                                *)
NoNulls ==
  /\ \A j \in 1 .. Len(mbufs) : mbufs[j] # NULL
  /\ \A j \in 1 .. Len(outRing) : outRing[j] # NULL
  /\ Me.pc = "append" => \A j \in Me.i + 1 .. Me.nb_cp : hopa_cp_send_mbuf[j] # NULL

(* An encoder finds an mbuf, and no other step makes a NULL.               *)
LEMMA NoNullsKept ==
  ASSUME Inv, Next, failed = {}, ~late'
  PROVE  NoNulls'
<1> USE DEF ringVars, cpVars, initVars, poolVars, pmdVars
<1>a. Typed /\ Copies /\ Polls /\ Fits /\ Made /\ Homed /\ Stocked
  BY DEF Inv
<1>b. /\ outRing \in Seq(Mbuf \cup {NULL}) /\ mbufs \in Seq(Mbuf \cup {NULL}) /\ cp \in Seq(Mbuf)
      /\ Len(cp) \in Nat /\ Len(mbufs) \in Nat /\ Len(outRing) \in Nat
  BY <1>a DEF Typed
<1>l. ~late
  BY <1>a, LateStays
<1>c. NoNulls
  BY <1>a, <1>l DEF Stocked, NoNulls
<1>d. Me \in Thread /\ Me.nb_cp \in Nat /\ Me.i \in Nat
  <2>1. Me \in Thread
    BY <1>a, MeThread DEF Typed
  <2> QED
    BY <2>1 DEF Thread
<1>e. CASE UNCHANGED <<mbufs, outRing, hopa_cp_send_mbuf>> /\ (Me' = Me \/ Me'.pc # "append")
  BY <1>c, <1>e DEF NoNulls
<1>f. CASE UNCHANGED <<mbufs, outRing>> /\ ~Rx
  BY <1>e, <1>f, MeFrame
<1>1. CASE Encode
  <2>1. /\ \/ cp # <<>> /\ mbufs' = Append(mbufs, Head(cp)) /\ cp' = Tail(cp)
           \/ cp = <<>> /\ mbufs' = Append(mbufs, NULL) /\ cp' = cp
        /\ init = "done" /\ Len(mbufs) < RoundLen
        /\ ~late' /\ mbufs = <<>> => Len(outRing) + RoundLen <= Behind
        /\ UNCHANGED <<outRing, hopa_cp_send_mbuf, pmd>>
    BY <1>a, <1>1, SenderEffect
  <2>2. cp # <<>>
    <3> SUFFICES ASSUME cp = <<>>
                 PROVE  FALSE
      OBVIOUS
    <3>1. Len(cp) + Len(mbufs) + Len(outRing) + Taken >= Cardinality(CpMbuf)
      BY <1>a, <1>l, <2>1 DEF Stocked
    <3>2. Len(outRing) + RoundLen <= Behind
      BY <1>a, <1>l, <2>1 DEF Fits
    <3>3. Taken <= Behind /\ Taken \in Nat
      BY <1>a, <1>d, <1>l, Sizes DEF Polls, Taken
    <3>4. Len(cp) = 0
      OBVIOUS
    <3> QED
      BY <1>b, <2>1, <3>1, <3>2, <3>3, <3>4, Sizes, RoundLenNat
  <2>3. Head(cp) \in Mbuf /\ Head(cp) # NULL
    BY <1>b, <2>2, Tailed, SetsAssumption DEF Mbuf
  <2>4. /\ Len(mbufs') = Len(mbufs) + 1
        /\ \A j \in 1 .. Len(mbufs) + 1 :
             mbufs'[j] = IF j <= Len(mbufs) THEN mbufs[j] ELSE Head(cp)
    BY <1>b, <2>1, <2>2, <2>3, Appended
  <2>5. \A j \in 1 .. Len(mbufs') : mbufs'[j] # NULL
    BY <1>b, <1>c, <2>3, <2>4 DEF NoNulls
  <2> QED
    BY <1>c, <2>1, <2>5 DEF NoNulls, Me
<1>2. CASE Enqueue /\ crashed' = "no"
  <2>1. /\ Len(outRing') = Len(outRing) + RoundLen /\ Len(mbufs) = RoundLen
        /\ \A j \in 1 .. Len(outRing) + RoundLen :
             outRing'[j] = IF j <= Len(outRing) THEN outRing[j] ELSE mbufs[j - Len(outRing)]
        /\ mbufs' = <<>> /\ UNCHANGED <<hopa_cp_send_mbuf, pmd>>
    BY <1>a, <1>l, <1>2, EnqueueWhole
  <2>2. \A j \in 1 .. Len(outRing') : outRing'[j] # NULL
    <3> SUFFICES ASSUME NEW j \in 1 .. Len(outRing) + RoundLen
                 PROVE  outRing'[j] # NULL
      BY <2>1
    <3>1. CASE j <= Len(outRing)
      <4>1. outRing'[j] = outRing[j] /\ j \in 1 .. Len(outRing)
        BY <1>b, <2>1, <3>1
      <4> QED
        BY <1>c, <4>1 DEF NoNulls
    <3>2. CASE ~(j <= Len(outRing))
      <4>1. outRing'[j] = mbufs[j - Len(outRing)]
        BY <2>1, <3>2
      <4>2. j - Len(outRing) \in 1 .. Len(mbufs)
        BY <1>b, <2>1, <3>2, RoundLenNat
      <4> QED
        BY <1>c, <4>1, <4>2 DEF NoNulls
    <3> QED
      BY <3>1, <3>2
  <2>3. Len(mbufs') = 0
    BY <2>1
  <2> QED
    BY <1>c, <2>1, <2>2, <2>3 DEF NoNulls, Me
<1>3. CASE RxDequeue
  <2>1. /\ Me'.pc = "append" /\ Me'.nb_cp = Me.nb_cp /\ Me'.i = 0
        /\ Me.nb_cp \in 1 .. Len(outRing)
        /\ outRing' = SubSeq(outRing, Me.nb_cp + 1, Len(outRing))
        /\ \A j \in 1 .. Me.nb_cp : hopa_cp_send_mbuf'[j] = outRing[j]
        /\ UNCHANGED mbufs
    BY <1>a, <1>3, DequeueEffect
  <2>2. /\ Len(outRing') = Len(outRing) - Me.nb_cp
        /\ \A j \in 1 .. Len(outRing) - Me.nb_cp : outRing'[j] = outRing[Me.nb_cp + j]
    BY <1>b, <2>1, Suffix
  <2>3. \A j \in 1 .. Len(outRing') : outRing'[j] # NULL
    <3> SUFFICES ASSUME NEW j \in 1 .. Len(outRing')
                 PROVE  outRing'[j] # NULL
      OBVIOUS
    <3>1. Me.nb_cp + j \in 1 .. Len(outRing) /\ j \in 1 .. Len(outRing) - Me.nb_cp
      <4>1. /\ Me.nb_cp \in 1 .. Len(outRing) /\ Len(outRing') = Len(outRing) - Me.nb_cp
            /\ Len(outRing) \in Nat
        BY <1>b, <2>1, <2>2
      <4> QED
        BY <4>1
    <3> QED
      BY <1>c, <2>2, <3>1 DEF NoNulls
  <2>4. \A j \in Me'.i + 1 .. Me'.nb_cp : hopa_cp_send_mbuf'[j] # NULL
    BY <1>b, <1>c, <1>d, <2>1 DEF NoNulls
  <2> QED
    BY <1>c, <2>1, <2>3, <2>4 DEF NoNulls
<1>4. CASE RxAppend /\ crashed' = "no"
  <2>1. /\ Me.pc = "append" /\ Me'.nb_cp = Me.nb_cp
        /\ \/ Me'.pc = "append" /\ Me'.i = Me.i + 1
           \/ Me'.pc = "process"
        /\ UNCHANGED <<mbufs, outRing, hopa_cp_send_mbuf>>
    BY <1>a, <1>4, AppendEffect
  <2>2. Me'.pc = "append" => Me'.i + 1 .. Me'.nb_cp \subseteq Me.i + 1 .. Me.nb_cp
    BY <1>d, <2>1
  <2> QED
    BY <1>c, <2>1, <2>2 DEF NoNulls
<1>5. CASE RxCount /\ crashed' = "no"
  BY <1>a, <1>e, <1>5, CountEffect
<1>6. CASE RxBurst
  <2>1. Me' = Idle => Me'.pc = "idle"
    BY DEF Idle
  <2> QED
    BY <1>a, <1>e, <1>6, <2>1, BurstEffect
<1>7. CASE Process
  <2>1. Me'.pc = "idle"
    BY <1>a, <1>7, ProcessEffect DEF Idle
  <2> QED
    BY <1>a, <1>e, <1>7, <2>1, ProcessEffect
<1>8. CASE Main /\ ~Rx
  BY <1>f, <1>8, MainFrame
<1>9. CASE (Dequeue \/ Handle) /\ ~Rx
  BY <1>f, <1>9 DEF Dequeue, Handle, Crash
<1>10. CASE (\E p \in Pmd : RecircBegin(p) \/ RecircCopy(p) \/ RecircEnqueue(p)) /\ ~Rx
  BY <1>f, <1>10 DEF RecircBegin, RecircCopy, RecircEnqueue, Crash
<1>11. CASE Crashes
  BY <1>e, <1>11 DEF Crashes, Me
<1>12. CASE Rx
  BY <1>3, <1>4, <1>5, <1>6, <1>7, <1>11, <1>12, RxCases
<1> QED
  BY <1>1, <1>2, <1>8, <1>9, <1>10, <1>11, <1>12, NextCases DEF Rx

(* Both together.                                                          *)
LEMMA StockedKept ==
  ASSUME Inv, Next
  PROVE  Stocked'
<1> USE DEF ringVars, cpVars, initVars, poolVars, pmdVars
<1>a. Typed /\ Copies /\ Polls /\ Fits /\ Made /\ Homed /\ Stocked /\ Typed'
  BY TypedKept DEF Inv
<1> SUFFICES ASSUME failed' = {}, ~late'
             PROVE  /\ init' # "pool" => Stock' >= Cardinality(CpMbuf)
                    /\ NoNulls'
  BY DEF Stocked, Stock, NoNulls
<1>1. failed = {}
  BY NextCases DEF Main, InitPool, InitRings, InitRing, InitThreads, Encode, Enqueue,
      Dequeue, Handle, RxCount, RxBurst, RxDequeue, RxAppend, Process, RecircBegin, RecircCopy,
      RecircEnqueue, Crash, Crashes
<1>2. NoNulls'
  BY <1>1, NoNullsKept
<1>3. CASE init # "pool"
  BY <1>2, <1>3, StockKept
<1>4. CASE init = "pool" /\ init' = "pool"
  BY <1>2, <1>4
<1>5. CASE init = "pool" /\ init' # "pool"
  <2>1. InitPool
    BY <1>5, NextCases DEF Main, InitRings, InitRing, InitThreads, Encode, Enqueue,
      Dequeue, Handle, RxCount, RxBurst, RxDequeue, RxAppend, Process, RecircBegin, RecircCopy,
      RecircEnqueue, Crash, Crashes
  <2>2. cp' = SetToSeq(CpMbuf) /\ UNCHANGED <<mbufs, outRing>>
    <3>1. failed' # failed \cup {"pool"}
      OBVIOUS
    <3> QED
      BY <2>1, <3>1 DEF InitPool
  <2>3. Len(cp') = Cardinality(CpMbuf) /\ Cardinality(CpMbuf) \in Nat
    BY <2>2, SetsAssumption, SeqOfSet
  <2>4. /\ Len(mbufs') \in Nat /\ Len(outRing') \in Nat /\ Taken' \in Nat
    <3>1. Me' \in Thread
      BY <1>a, SetsAssumption DEF Typed, Me
    <3>2. Me'.nb_cp \in Nat
      BY <3>1 DEF Thread
    <3>3. Taken' \in Nat
      BY <3>2 DEF Taken
    <3>4. mbufs' \in Seq(Mbuf \cup {NULL}) /\ outRing' \in Seq(Mbuf \cup {NULL})
      BY <1>a DEF Typed
    <3> QED
      BY <3>3, <3>4
  <2>5. Stock' = Len(cp') + Len(mbufs') + Len(outRing') + Taken'
    BY DEF Stock
  <2>6. Stock' >= Cardinality(CpMbuf)
    BY <2>3, <2>4, <2>5
  <2> QED
    BY <1>2, <2>6
<1> QED
  BY <1>3, <1>4, <1>5

(* Where the process could be gone.                                        *)
LEMMA CausedKept ==
  ASSUME Inv, Next
  PROVE  Caused'
<1> USE DEF ringVars, cpVars, initVars, poolVars, pmdVars
<1>a. Typed /\ Copies /\ Polls /\ Fits /\ Made /\ Homed /\ Stocked
  BY DEF Inv
<1>b. crashed = "no"
  BY NextCases
<1>1. CASE Main
  BY <1>1, <1>b DEF Main, InitPool, InitRings, InitRing, InitThreads, Caused
<1>2. CASE crashed' = "no"
  BY <1>2 DEF Caused
<1>3. CASE Crashes /\ Enqueue
  <2>1. crashed' = "null"
    BY <1>b, <1>3 DEF Enqueue, Crash, Crashes
  <2>2. failed = {} => Exists("outRing")
    BY <1>a, <1>3 DEF Made, Enqueue, Threads, Exists, Typed
  <2>3. failed # {}
    BY <1>b, <1>3, <2>2 DEF Enqueue, Crashes
  <2> QED
    BY <1>3, <2>1, <2>3 DEF Crashes, Caused
<1>4. CASE Crashes /\ Dequeue
  <2>1. crashed' = "null"
    BY <1>b, <1>4 DEF Dequeue, Crash, Crashes
  <2>2. failed = {} => Exists("inRing")
    BY <1>a, <1>4 DEF Made, Dequeue, Threads, Exists, Typed
  <2>3. failed # {}
    BY <1>b, <1>4, <2>2 DEF Dequeue, Crashes
  <2> QED
    BY <1>4, <2>1, <2>3 DEF Crashes, Caused
<1>5. CASE Crashes /\ RxCount
  <2>1. crashed' = "overrun"
    BY <1>b, <1>5 DEF RxCount, Crash, Crashes
  <2>2. late
    <3> SUFFICES ASSUME ~late
                 PROVE  FALSE
      OBVIOUS
    <3>1. Len(outRing) <= Behind /\ Len(outRing) \in Nat
      BY <1>a DEF Fits, Typed
    <3>2. ~((IF Exists("outRing") THEN Len(outRing) ELSE 0) > Burst)
      BY <3>1, Sizes, SetsAssumption
    <3> QED
      BY <1>b, <1>5, <3>2 DEF RxCount, Crashes
  <2> QED
    BY <1>5, <2>1, <2>2 DEF Crashes, Caused
<1>6. CASE Crashes /\ RxAppend
  <2>1. CASE hopa_cp_send_mbuf[Me.i + 1] = NULL
    <3>1. Me.pc = "append"
      BY <1>6 DEF RxAppend
    <3>2. Me.i < Me.nb_cp /\ Me.i \in Nat /\ Me.nb_cp \in Nat
      <4>1. Me \in Thread
        BY <1>a, MeThread DEF Typed
      <4> QED
        BY <1>a, <3>1, <4>1 DEF Polls, Thread
    <3>3. Me.i + 1 \in Me.i + 1 .. Me.nb_cp
      BY <3>2
    <3>4. failed # {} \/ late
      BY <1>a, <2>1, <3>1, <3>3 DEF Stocked
    <3>5. crashed' = "null"
      BY <1>6, <2>1 DEF RxAppend, Crash
    <3> QED
      BY <1>6, <3>4, <3>5 DEF Crashes, Caused
  <2>2. CASE hopa_cp_send_mbuf[Me.i + 1] # NULL
    <3>1. crashed' = "wild"
      BY <1>b, <1>6, <2>2 DEF RxAppend, Crash, Crashes
    <3> QED
      BY <3>1 DEF Caused
  <2> QED
    BY <2>1, <2>2
<1>7. ASSUME Crashes, NEW p \in Pmd, RecircCopy(p)
      PROVE  Caused'
  <2>1. crashed' = "heap"
    BY <1>b, <1>7 DEF RecircCopy, Crash, Crashes
  <2> QED
    BY <2>1 DEF Caused
<1> QED
  BY <1>1, <1>2, <1>3, <1>4, <1>5, <1>6, <1>7, NextCases

(* The invariant holds at first.                                           *)
LEMMA InitInv ==
  ASSUME Init
  PROVE  Inv
<1> USE DEF Init
<1>1. Me = Idle /\ pmd \in [Pmd -> Thread]
  BY SetsAssumption, IdleThread DEF Me
<1>2. Me.pc = "idle"
  BY <1>1 DEF Idle
<1>3. Typed
  <2>1. 0 \in 0 .. PATH_NB - 1
    BY SetsAssumption
  <2>2. slot \in [Slots -> Mbuf] /\ nic \in [Mbuf -> Nat] /\ home \in [Mbuf -> {"nic", "cp"}]
    BY DEF Mbuf
  <2>3. late \in BOOLEAN /\ crashed \in {"no", "null", "overrun", "wild", "heap"}
    OBVIOUS
  <2> QED
    BY <1>1, <2>1, <2>2, <2>3 DEF Typed
<1>4. Copies
  BY DEF Copies, CopiesOf, Idle
<1>5. Polls
  BY <1>2 DEF Polls
<1>6. Fits
  BY Sizes, RoundLenNat, SetsAssumption DEF Fits
<1>7. Made
  BY DEF Made
<1>8. Homed
  <2>1. \A m \in CpMbuf : home[m] = "cp"
    BY SetsAssumption DEF Mbuf
  <2> QED
    BY <1>2, <2>1 DEF Homed, OfCp
<1>9. Stocked
  BY <1>2 DEF Stocked
<1> QED
  BY <1>3, <1>4, <1>5, <1>6, <1>7, <1>8, <1>9 DEF Inv, Caused

(* The invariant holds for every number of paths, mbufs and PMD threads,   *)
(* every size of the rings and the batch within the assumptions, and for   *)
(* both roles.                                                             *)
THEOREM Invariance == Spec => []Inv
<1>1. Init => Inv
  BY InitInv
<1>2. Inv /\ [Next]_vars => Inv'
  <2>1. ASSUME Inv, Next
        PROVE  Inv'
    BY <2>1, TypedKept, CopiesKept, PollsKept, FitsKept, MadeKept, HomedKept, StockedKept,
       CausedKept DEF Inv
  <2>2. ASSUME Inv, UNCHANGED vars
        PROVE  Inv'
    BY <2>2 DEF Inv, Typed, Copies, CopiesOf, Polls, Fits, Made, Homed, Stocked, OfCp, Me,
       Taken, RoundLen, Caused, vars, ringVars, cpVars, initVars, poolVars,
       pmdVars
  <2> QED
    BY <2>1, <2>2
<1> QED
  BY <1>1, <1>2, PTL DEF Spec

(* The memory of the headers. With one thread that recirculates, every     *)
(* header that was copied is in the array, in the ring, with the progress  *)
(* thread, given back, or one of those the full ring refused. So none is   *)
(* missing unless one was refused, and HeapAssumption leaves room.         *)
Copied == IF Me.pc = "recirc" THEN Me.nb_cp ELSE 0
Heaped ==
  /\ heap \in Nat /\ leaked \in Nat
  /\ Pmd = {Poller} =>
       /\ heap + Len(inRing) + Len(hopa_cp_hdrs) + Copied + leaked = HeapHdrs
       /\ Len(hopa_cp_hdrs) <= InSize /\ Len(hopa_cp_hdrs) <= Burst
  /\ crashed = "heap" => leaked > 0 \/ Pmd # {Poller}

(* What the heap invariant speaks of is made of numbers.                   *)
LEMMA HeapNats ==
  ASSUME Typed
  PROVE  /\ Len(inRing) \in Nat /\ Len(hopa_cp_hdrs) \in Nat /\ Copied \in Nat
         /\ InSize \in Nat /\ Burst \in Nat /\ HeapHdrs \in Nat
         /\ Me \in Thread /\ Me.nb_cp \in Nat
<1>1. Me \in Thread
  BY MeThread DEF Typed
<1> QED
  BY <1>1, SetsAssumption DEF Typed, Thread, Copied

(* Only when a header has been lost can the heap be empty for a copy.      *)
LEMMA HeapLeft ==
  ASSUME Inv, Heaped, NEW p \in Pmd, RecircCopy(p), heap = 0, Pmd = {Poller}
  PROVE  leaked > 0
<1>1. /\ Me.pc = "recirc" /\ Me.todo # <<>> /\ Copied = Me.nb_cp
  BY DEF RecircCopy, Copied, Me
<1>2. Me.nb_cp + Len(Me.todo) <= Burst
  BY <1>1 DEF Inv, Copies, CopiesOf, Me
<1>3. Len(Me.todo) \in Nat \ {0}
  BY <1>1, HeapNats DEF Inv, Thread
<1>4. Len(inRing) <= InSize
  BY DEF Inv, Fits
<1>5. Min({InSize, Burst}) \in {InSize, Burst} /\ InSize + Burst + Min({InSize, Burst}) <= HeapHdrs
  <2>1. InSize \in Int /\ Burst \in Int
    BY SetsAssumption
  <2>2. Min({InSize, Burst}) \in {InSize, Burst}
    BY <2>1, MinOfTwo, Zenon
  <2> QED
    BY <2>2, HeapAssumption
<1>6. Len(hopa_cp_hdrs) <= Min({InSize, Burst})
  BY <1>5 DEF Heaped
<1> QED
  BY <1>1, <1>2, <1>3, <1>4, <1>5, <1>6, HeapNats DEF Inv, Heaped

LEMMA HeapedKept ==
  ASSUME Inv, Heaped, Next
  PROVE  Heaped'
<1> USE DEF ringVars, cpVars, initVars, poolVars, pmdVars
<1>a. Typed /\ Copies /\ Polls /\ Fits
  BY DEF Inv
<1>b. /\ Len(inRing) \in Nat /\ Len(hopa_cp_hdrs) \in Nat /\ Copied \in Nat
      /\ InSize \in Nat /\ Burst \in Nat /\ HeapHdrs \in Nat /\ Me.nb_cp \in Nat
      /\ heap \in Nat /\ leaked \in Nat
  BY <1>a, HeapNats DEF Heaped
<1>c. crashed = "no"
  BY NextCases
<1>d. ASSUME UNCHANGED <<inRing, hopa_cp_hdrs, heap, leaked, Copied>>, crashed' # "heap"
      PROVE  Heaped'
  BY <1>d DEF Heaped
<1>1. CASE Main \/ Encode
  <2>1. UNCHANGED <<inRing, hopa_cp_hdrs, heap, leaked, pmd>> /\ crashed' # "heap"
    BY <1>1, <1>c DEF Main, InitPool, InitRings, InitRing, InitThreads, Encode
  <2> QED
    BY <1>d, <2>1 DEF Copied, Me
<1>2. CASE Enqueue /\ crashed' = "no"
  <2>1. UNCHANGED <<inRing, hopa_cp_hdrs, heap, leaked, pmd>>
    BY <1>2, <1>c DEF Enqueue, Crash
  <2> QED
    BY <1>d, <1>2, <2>1 DEF Copied, Me
<1>3. CASE Dequeue /\ crashed' = "no"
  <2>1. PICK n \in 1 .. Len(inRing) :
          /\ n <= Burst /\ hopa_cp_hdrs = <<>>
          /\ hopa_cp_hdrs' = SubSeq(inRing, 1, n)
          /\ inRing' = SubSeq(inRing, n + 1, Len(inRing))
          /\ UNCHANGED <<poolVars, pmdVars, crashed>>
    BY <1>a, <1>3, DequeueHdrs
  <2>2. Len(hopa_cp_hdrs') = n /\ Len(inRing') = Len(inRing) - n /\ Len(hopa_cp_hdrs) = 0
    BY <1>a, <2>1 DEF Typed
  <2>3. Len(inRing) <= InSize
    BY <1>a DEF Fits
  <2>4. Copied' = Copied
    BY <2>1 DEF Copied, Me
  <2> QED
    BY <1>3, <1>b, <2>1, <2>2, <2>3, <2>4 DEF Heaped
<1>4. CASE Handle
  <2>1. /\ hopa_cp_hdrs # <<>> /\ hopa_cp_hdrs' = Tail(hopa_cp_hdrs)
        /\ UNCHANGED <<inRing, leaked, pmd, crashed>> /\ heap' = heap + 1
    BY <1>4 DEF Handle
  <2>2. Len(hopa_cp_hdrs') = Len(hopa_cp_hdrs) - 1 /\ Len(hopa_cp_hdrs) > 0
    BY <1>a, <2>1 DEF Typed
  <2>3. Copied' = Copied
    BY <2>1 DEF Copied, Me
  <2> QED
    BY <1>b, <1>c, <2>1, <2>2, <2>3 DEF Heaped
<1>5. CASE (RxCount \/ RxAppend) /\ crashed' = "no"
  <2>1. UNCHANGED <<inRing, hopa_cp_hdrs, heap, leaked>>
    BY <1>5, <1>c DEF RxCount, RxAppend, Crash
  <2>2. Copied = 0 /\ Copied' = 0
    BY <1>a, <1>5, CountEffect, AppendEffect DEF Copied
  <2> QED
    BY <1>d, <1>5, <2>1, <2>2
<1>6. CASE RxBurst
  <2>1. UNCHANGED <<inRing, hopa_cp_hdrs, heap, leaked, crashed>>
    BY <1>6 DEF RxBurst
  <2>2. Copied = 0 /\ Copied' = 0
    BY <1>a, <1>6, BurstEffect DEF Copied, Idle
  <2> QED
    BY <1>d, <1>c, <2>1, <2>2
<1>7. CASE RxDequeue \/ Process
  <2>1. UNCHANGED <<inRing, hopa_cp_hdrs, heap, leaked, crashed>>
    BY <1>7 DEF RxDequeue, Process
  <2>2. Copied = 0 /\ Copied' = 0
    BY <1>a, <1>7, DequeueEffect, ProcessEffect DEF Copied, Idle
  <2> QED
    BY <1>d, <1>c, <2>1, <2>2
<1>8. ASSUME NEW p \in Pmd, RecircBegin(p)
      PROVE  Heaped'
  <2>1. UNCHANGED <<inRing, hopa_cp_hdrs, heap, leaked, crashed>>
    BY <1>8 DEF RecircBegin
  <2>2. PICK hs \in Seq(Header) :
          /\ pmd[p].pc = "idle"
          /\ pmd' = [pmd EXCEPT ![p] = [Idle EXCEPT !.pc = "recirc", !.todo = hs]]
    BY <1>a, <1>8, BeginEffect
  <2>3. CASE p = Poller
    <3>1. Me.pc = "idle" /\ Me' = [Idle EXCEPT !.pc = "recirc", !.todo = hs]
      BY <1>a, <2>2, <2>3 DEF Typed, Me
    <3>2. Copied = 0 /\ Copied' = 0
      BY <3>1 DEF Copied, Idle
    <3> QED
      BY <1>d, <1>c, <2>1, <3>2
  <2>4. CASE p # Poller
    <3>1. Me' = Me
      BY <1>a, <2>2, <2>4, SetsAssumption DEF Typed, Me
    <3> QED
      BY <1>d, <1>c, <2>1, <3>1 DEF Copied
  <2> QED
    BY <2>3, <2>4
<1>9. ASSUME NEW p \in Pmd, RecircCopy(p), crashed' = "no"
      PROVE  Heaped'
  <2>1. UNCHANGED <<inRing, hopa_cp_hdrs, leaked>> /\ heap # 0 /\ heap' = heap - 1
    BY <1>9 DEF RecircCopy, Crash
  <2>2. Pmd = {Poller} => Copied' = Copied + 1
    BY <1>a, <1>9, CopyEffect DEF Copied, Me
  <2> QED
    BY <1>b, <1>9, <2>1, <2>2 DEF Heaped
<1>10. ASSUME NEW p \in Pmd, RecircCopy(p), Crashes
       PROVE  Heaped'
  <2>1. UNCHANGED <<inRing, hopa_cp_hdrs, heap, leaked, pmd>>
    BY <1>10 DEF Crashes
  <2>2. heap = 0
    BY <1>10, <1>c DEF RecircCopy, Crashes
  <2>3. Pmd = {Poller} => leaked > 0
    BY <1>10, <2>2, HeapLeft
  <2> QED
    BY <2>1, <2>3 DEF Heaped, Copied, Me
<1>11. ASSUME NEW p \in Pmd, RecircEnqueue(p)
       PROVE  Heaped'
  <2>1. /\ UNCHANGED <<hopa_cp_hdrs, heap, crashed>> /\ pmd' = [pmd EXCEPT ![p] = Idle]
        /\ pmd[p].pc = "recirc"
        /\ leaked' = leaked + pmd[p].nb_cp - (Len(inRing') - Len(inRing))
    BY <1>11 DEF RecircEnqueue
  <2>2. /\ Len(inRing') \in Nat /\ Len(inRing') <= Len(inRing) + pmd[p].nb_cp
        /\ pmd[p].nb_cp \in Nat
    BY <1>a, <1>11, RecircLength
  <2>3. leaked' \in Nat
    BY <1>b, <2>1, <2>2
  <2>4. Pmd = {Poller} => Copied = pmd[p].nb_cp /\ Copied' = 0
    BY <1>a, <2>1 DEF Copied, Me, Idle, Typed
  <2>5. ASSUME Pmd = {Poller}
        PROVE  heap' + Len(inRing') + Len(hopa_cp_hdrs') + Copied' + leaked' = HeapHdrs
    <3> DEFINE c == pmd[p].nb_cp
               n == Len(inRing')
               o == Len(inRing)
               h == Len(hopa_cp_hdrs)
    <3>1. heap + o + h + c + leaked = HeapHdrs
      BY <2>4, <2>5 DEF Heaped
    <3>2. /\ heap' = heap /\ Len(hopa_cp_hdrs') = h /\ Copied' = 0
          /\ leaked' = leaked + c - (n - o)
      BY <2>1, <2>4, <2>5
    <3>3. c \in Nat /\ n \in Nat /\ o \in Nat /\ h \in Nat
      BY <1>b, <2>2
    <3> HIDE DEF c, n, o, h
    <3>4. heap + n + h + 0 + (leaked + c - (n - o)) = HeapHdrs
      BY <1>b, <3>1, <3>3
    <3> QED
      BY <3>2, <3>4 DEF n, h
  <2>6. crashed' # "heap" /\ hopa_cp_hdrs' = hopa_cp_hdrs /\ heap' = heap
    BY <1>c, <2>1
  <2> QED
    BY <1>b, <2>3, <2>5, <2>6 DEF Heaped
<1>12. CASE Crashes /\ (Enqueue \/ Dequeue \/ RxCount \/ RxAppend)
  <2>1. UNCHANGED <<inRing, hopa_cp_hdrs, heap, leaked, pmd>>
    BY <1>12 DEF Crashes
  <2>2. crashed' # "heap"
    BY <1>12, <1>c DEF Enqueue, Dequeue, RxCount, RxAppend, Crash, Crashes
  <2> QED
    BY <1>d, <2>1, <2>2 DEF Copied, Me
<1> QED
  BY <1>1, <1>2, <1>3, <1>4, <1>5, <1>6, <1>7, <1>8, <1>9, <1>10, <1>11, <1>12, NextCases

LEMMA Heaping == Spec => []Heaped
<1>1. Init => Heaped
  BY SetsAssumption DEF Init, Heaped, Copied, Me, Idle
<1>2. Inv /\ Heaped /\ [Next]_vars => Heaped'
  <2>1. ASSUME Heaped, UNCHANGED vars
        PROVE  Heaped'
    BY <2>1 DEF Heaped, Copied, Me, vars, ringVars, cpVars, poolVars, pmdVars
  <2> QED
    BY <2>1, HeapedKept
<1> QED
  BY <1>1, <1>2, Invariance, PTL DEF Spec

(* Why the process can be gone. A null pointer takes an allocation that    *)
(* failed in hopa_cp_init, or a send thread that went on though the        *)
(* polling thread was behind: no thread is early for the rings             *)
(* (dpif-netdev.c and netdev-dpdk.c look first), and no encoder that is    *)
(* polled in time finds hopa_cp_mp empty. A count beyond the arrays takes  *)
(* the latter. With one thread that recirculates, an empty heap takes a    *)
(* header that the full in ring refused.                                   *)
THEOREM CrashCauses == Spec => []CrashHasCause
<1>1. Inv /\ Heaped => CrashHasCause
  BY DEF Inv, Caused, Heaped, CrashHasCause
<1> QED
  BY <1>1, Invariance, Heaping, PTL

(* TypeOK, with the capacities of both rings and of both arrays: netdev.h  *)
(* gives a batch 32 packets, and no interleaving needs more.               *)
THEOREM Types == Spec => []TypeOK
<1>1. ASSUME Inv, Heaped
      PROVE  TypeOK
  <2>0. Typed /\ Copies /\ Polls /\ Fits /\ Burst \in Nat /\ InSize \in Nat /\ OutSize \in Nat
    BY <1>1, SetsAssumption DEF Inv
  <2>1. outRing \in BoundedSeq(Mbuf \cup {NULL}, OutSize)
    <3>1. Len(outRing) <= OutSize /\ outRing \in Seq(Mbuf \cup {NULL})
      BY <2>0 DEF Fits, Typed
    <3> QED
      BY <2>0, <3>1, Bounded
  <2>2. inRing \in BoundedSeq(Header, InSize)
    <3>1. Len(inRing) <= InSize /\ inRing \in Seq(Header)
      BY <2>0 DEF Fits, Typed
    <3> QED
      BY <2>0, <3>1, Bounded
  <2>3. ASSUME NEW p \in Pmd
        PROVE  pmd[p].nb_cp + pmd[p].nb_rx <= 2 * Burst /\ pmd[p].nb_rx <= Burst
    <3>1. /\ pmd[p].nb_cp \in Nat /\ pmd[p].nb_rx \in Nat
          /\ pmd[p].pc \in {"idle", "rx", "dequeue", "append", "process", "recirc"}
      BY <2>0 DEF Typed, Thread
    <3>2. CASE pmd[p].pc = "idle"
      <4>1. pmd[p].nb_cp = 0 /\ pmd[p].nb_rx = 0
        BY <2>0, <3>2 DEF Copies, CopiesOf, Idle
      <4> QED
        BY <2>0, <4>1
    <3>3. CASE pmd[p].pc = "recirc"
      <4>1. pmd[p].nb_cp + Len(pmd[p].todo) <= Burst /\ pmd[p].nb_rx = 0
        BY <2>0, <3>3 DEF Copies, CopiesOf
      <4>2. Len(pmd[p].todo) \in Nat
        BY <2>0 DEF Typed, Thread
      <4> QED
        BY <2>0, <3>1, <4>1, <4>2
    <3>4. CASE pmd[p].pc \in {"rx", "dequeue", "append", "process"}
      <4>1. pmd[p] = Me
        BY <2>0, <3>4 DEF Copies, CopiesOf, Me
      <4>2. \/ Me.nb_rx + Me.nb_cp <= Burst
            \/ Me.nb_cp <= Me.nb_rx /\ Me.nb_rx <= Burst
        BY <2>0, <3>4, <4>1 DEF Polls
      <4> QED
        BY <2>0, <3>1, <4>1, <4>2
    <3> QED
      BY <3>1, <3>2, <3>3, <3>4
  <2>4. Len(mbufs) <= RoundLen /\ Len(hopa_cp_hdrs) <= Burst
    BY <2>0 DEF Fits
  <2> QED
    BY <1>1, <2>0, <2>1, <2>2, <2>3, <2>4 DEF TypeOK, Typed, Heaped
<1> QED
  BY <1>1, Invariance, Heaping, PTL

-----------------------------------------------------------------------------
(* The mbufs of the array that no batch holds yet, and all that wait.      *)
InHand ==
  IF Me.pc = "append" THEN [j \in 1 .. Me.nb_cp - Me.i |-> hopa_cp_send_mbuf[Me.i + j]]
  ELSE <<>>
(* What waits on either way, wherever it is.                               *)
OutWaiting == InHand \o outRing
InWaiting == hopa_cp_hdrs \o inRing

(* Taking the first item is getting one.                                   *)
LEMMA GetOne ==
  ASSUME NEW S, NEW w \in Seq(S), w # <<>>, NEW G, NEW g \in Seq(G), Head(w) \in G
  PROVE  /\ 1 \in 1 .. Len(w) /\ Tail(w) = SubSeq(w, 1 + 1, Len(w))
         /\ Append(g, Head(w)) = g \o SubSeq(w, 1, 1)
<1>1. Len(w) \in Nat /\ Len(w) > 0
  BY Tailed
<1>2. Tail(w) = SubSeq(w, 2, Len(w))
  BY TailIsSubSeq
<1>3. SubSeq(w, 1, 1) = <<Head(w)>>
  <2>1. SubSeq(w, 1, 1) \in Seq(S) /\ Len(SubSeq(w, 1, 1)) = 1 /\ SubSeq(w, 1, 1)[1] = w[1]
    BY <1>1
  <2>2. <<Head(w)>> \in Seq(S) /\ Len(<<Head(w)>>) = 1 /\ <<Head(w)>>[1] = w[1]
    BY Tailed
  <2>3. \A j \in 1 .. 1 : SubSeq(w, 1, 1)[j] = <<Head(w)>>[j]
    BY <2>1, <2>2
  <2> QED
    BY <2>1, <2>2, <2>3, SeqEqual
<1>4. Append(g, Head(w)) = g \o <<Head(w)>>
  BY AppendIsConcat
<1>5. 1 \in 1 .. Len(w) /\ 1 + 1 = 2
  BY <1>1
<1> QED
  BY <1>2, <1>3, <1>4, <1>5

(* The first item of two sequences is the first of the first one.          *)
LEMMA FirstOfTwo ==
  ASSUME NEW S, NEW s \in Seq(S), NEW t \in Seq(S), s # <<>>
  PROVE  /\ s \o t \in Seq(S) /\ s \o t # <<>>
         /\ Head(s \o t) = Head(s) /\ Tail(s \o t) = Tail(s) \o t
<1>1. /\ s \o t \in Seq(S) /\ Len(s \o t) = Len(s) + Len(t)
      /\ \A j \in 1 .. Len(s) + Len(t) :
           (s \o t)[j] = IF j <= Len(s) THEN s[j] ELSE t[j - Len(s)]
  BY ConcatProperties
<1>2. /\ Tail(s) \in Seq(S) /\ Len(Tail(s)) = Len(s) - 1 /\ Len(s) > 0 /\ Head(s) = s[1]
      /\ \A j \in 1 .. Len(s) - 1 : Tail(s)[j] = s[j + 1]
  BY Tailed
<1>3. /\ Tail(s) \o t \in Seq(S) /\ Len(Tail(s) \o t) = Len(Tail(s)) + Len(t)
      /\ \A j \in 1 .. Len(Tail(s)) + Len(t) :
           (Tail(s) \o t)[j] = IF j <= Len(Tail(s)) THEN Tail(s)[j] ELSE t[j - Len(Tail(s))]
  BY <1>2, ConcatProperties
<1>4. Len(s) \in Nat /\ Len(t) \in Nat
  OBVIOUS
<1>5. s \o t # <<>>
  BY <1>1, <1>2, <1>4
<1> DEFINE w == s \o t
<1>6. /\ Tail(w) \in Seq(S) /\ Len(Tail(w)) = Len(w) - 1 /\ Head(w) = w[1]
      /\ \A j \in 1 .. Len(w) - 1 : Tail(w)[j] = w[j + 1]
  BY <1>1, <1>5, Tailed
<1>7. Len(Tail(w)) = Len(Tail(s) \o t)
  BY <1>1, <1>2, <1>3, <1>4, <1>6
<1>8. ASSUME NEW j \in 1 .. Len(Tail(w))
      PROVE  Tail(w)[j] = (Tail(s) \o t)[j]
  <2>1. j \in 1 .. Len(s) + Len(t) - 1 /\ j + 1 \in 1 .. Len(s) + Len(t)
    BY <1>1, <1>2, <1>4, <1>6
  <2>2. Tail(w)[j] = IF j + 1 <= Len(s) THEN s[j + 1] ELSE t[j + 1 - Len(s)]
    BY <1>1, <1>6, <2>1
  <2>3. j \in 1 .. Len(Tail(s)) + Len(t)
    BY <1>2, <1>4, <2>1
  <2>4. (Tail(s) \o t)[j] = IF j <= Len(Tail(s)) THEN Tail(s)[j] ELSE t[j - Len(Tail(s))]
    BY <1>3, <2>3
  <2>5. CASE j + 1 <= Len(s)
    <3>1. j <= Len(Tail(s)) /\ Tail(s)[j] = s[j + 1]
      BY <1>2, <1>4, <2>1, <2>5
    <3> QED
      BY <2>2, <2>4, <2>5, <3>1
  <2>6. CASE ~(j + 1 <= Len(s))
    <3>1. ~(j <= Len(Tail(s))) /\ j - Len(Tail(s)) = j + 1 - Len(s)
      BY <1>2, <1>4, <2>1, <2>6
    <3> QED
      BY <2>2, <2>4, <2>6, <3>1
  <2> QED
    BY <2>5, <2>6
<1> HIDE DEF w
<1>9. Tail(w) = Tail(s) \o t
  BY <1>3, <1>6, <1>7, <1>8, SeqEqual
<1>10. Head(w) = Head(s)
  BY <1>1, <1>2, <1>4, <1>6 DEF w
<1> QED
  BY <1>1, <1>5, <1>9, <1>10 DEF w

-----------------------------------------------------------------------------
(* What waits on the way out, element by element.                          *)
LEMMA InHandTyped ==
  ASSUME Inv
  PROVE  /\ InHand \in Seq(Mbuf \cup {NULL}) /\ outRing \in Seq(Mbuf \cup {NULL})
         /\ Me.pc = "append" =>
              /\ Len(InHand) = Me.nb_cp - Me.i /\ InHand # <<>>
              /\ \A j \in 1 .. Me.nb_cp - Me.i : InHand[j] = hopa_cp_send_mbuf[Me.i + j]
<1>1. outRing \in Seq(Mbuf \cup {NULL})
  BY DEF Inv, Typed
<1>2. CASE Me.pc # "append"
  BY <1>1, <1>2 DEF InHand
<1>3. CASE Me.pc = "append"
  <2>1. Me \in Thread
    BY MeThread DEF Inv, Typed
  <2>2. /\ Me.i \in Nat /\ Me.nb_cp \in Nat /\ Me.nb_rx \in Nat /\ Me.i < Me.nb_cp
        /\ Me.nb_rx + Me.nb_cp <= Burst
    BY <1>3, <2>1 DEF Inv, Polls, Thread
  <2>3. \A j \in 1 .. Me.nb_cp - Me.i : Me.i + j \in Slots
    BY <2>2, SetsAssumption DEF Slots
  <2>4. InHand = [j \in 1 .. Me.nb_cp - Me.i |-> hopa_cp_send_mbuf[Me.i + j]]
    BY <1>3 DEF InHand
  <2>5. InHand \in [1 .. Me.nb_cp - Me.i -> Mbuf \cup {NULL}]
    BY <2>3, <2>4 DEF Inv, Typed
  <2>6. Me.nb_cp - Me.i \in Nat /\ Me.nb_cp - Me.i > 0
    BY <2>2
  <2>7. InHand \in Seq(Mbuf \cup {NULL}) /\ Len(InHand) = Me.nb_cp - Me.i
    BY <2>5, <2>6
  <2>8. InHand # <<>>
    BY <2>6, <2>7
  <2> QED
    BY <1>1, <2>4, <2>7, <2>8
<1> QED
  BY <1>2, <1>3

(* The dequeue only moves what waits from the ring to the array.           *)
LEMMA DequeueStutters ==
  ASSUME Inv, RxDequeue
  PROVE  UNCHANGED <<OutWaiting, injected>>
<1> DEFINE S == Mbuf \cup {NULL}
           n == Me.nb_cp
<1>0. Typed /\ Polls
  BY DEF Inv
<1>1. /\ Me.pc = "dequeue" /\ Me'.pc = "append" /\ Me'.nb_cp = n /\ Me'.i = 0
      /\ n \in 1 .. Len(outRing) /\ UNCHANGED injected
      /\ outRing' = SubSeq(outRing, n + 1, Len(outRing))
      /\ \A j \in 1 .. n : hopa_cp_send_mbuf'[j] = outRing[j]
  BY <1>0, DequeueEffect
<1>2. outRing \in Seq(S) /\ Len(outRing) \in Nat
  BY <1>0 DEF Typed
<1>3. InHand = <<>> /\ InHand' = [j \in 1 .. n - 0 |-> hopa_cp_send_mbuf'[0 + j]]
  BY <1>1 DEF InHand
<1> HIDE DEF n, S
<1>4. n \in Nat /\ n - 0 = n /\ n <= Len(outRing) /\ 1 <= n
  BY <1>1, <1>2
<1>5. InHand' = [j \in 1 .. n |-> outRing[j]]
  <2>1. \A j \in 1 .. n : hopa_cp_send_mbuf'[0 + j] = outRing[j]
    BY <1>1, <1>4
  <2> QED
    BY <1>3, <1>4, <2>1
<1>6. InHand' = SubSeq(outRing, 1, n)
  BY <1>2, <1>4, <1>5
<1>7. SubSeq(outRing, 1, n) \o SubSeq(outRing, n + 1, Len(outRing)) = outRing
  <2>1. SubSeq(outRing, 1, n) \o SubSeq(outRing, n + 1, Len(outRing))
          = SubSeq(outRing, 1, Len(outRing))
    BY <1>2, <1>4, ConcatAdjacentSubSeq
  <2> QED
    BY <1>2, <2>1, SubSeqFull
<1>8. OutWaiting = outRing
  BY <1>2, <1>3, ConcatEmptySeq DEF OutWaiting
<1> QED
  BY <1>1, <1>6, <1>7, <1>8 DEF OutWaiting

(* A turn of the copying loop hands over the first that waits.             *)
LEMMA AppendGets ==
  ASSUME Inv, RxAppend, crashed' = "no"
  PROVE  /\ OutWaiting \in Seq(Mbuf \cup {NULL}) /\ OutWaiting # <<>>
         /\ Head(OutWaiting) \in Mbuf
         /\ OutWaiting' = Tail(OutWaiting) /\ injected' = Append(injected, Head(OutWaiting))
<1> DEFINE S == Mbuf \cup {NULL}
<1>0. Typed /\ Polls
  BY DEF Inv
<1>1. /\ Me.pc = "append" /\ Me.i \in Nat /\ Me.nb_cp \in Nat /\ Me.i < Me.nb_cp
      /\ Me'.nb_cp = Me.nb_cp
      /\ \/ Me'.pc = "append" /\ Me'.i = Me.i + 1
         \/ Me'.pc = "process" /\ Me.i + 1 = Me.nb_cp
      /\ hopa_cp_send_mbuf[Me.i + 1] \in Mbuf
      /\ injected' = Append(injected, hopa_cp_send_mbuf[Me.i + 1])
      /\ hopa_cp_send_mbuf' = hopa_cp_send_mbuf /\ outRing' = outRing
  BY <1>0, AppendEffect DEF ringVars
<1>2. /\ InHand \in Seq(S) /\ outRing \in Seq(S)
      /\ Len(InHand) = Me.nb_cp - Me.i /\ InHand # <<>>
      /\ \A j \in 1 .. Me.nb_cp - Me.i : InHand[j] = hopa_cp_send_mbuf[Me.i + j]
  BY <1>1, InHandTyped
<1> HIDE DEF S
<1>3. Head(InHand) = hopa_cp_send_mbuf[Me.i + 1]
  <2>1. 1 \in 1 .. Me.nb_cp - Me.i
    BY <1>1
  <2> QED
    BY <1>2, <2>1, Tailed
<1>4. /\ Tail(InHand) \in Seq(S) /\ Len(Tail(InHand)) = Me.nb_cp - Me.i - 1
      /\ \A j \in 1 .. Me.nb_cp - Me.i - 1 : Tail(InHand)[j] = InHand[j + 1]
  BY <1>2, Tailed
<1>5. /\ Me.i \in Nat /\ Me.nb_cp \in Nat /\ Me.i < Me.nb_cp
      /\ Me.nb_cp - Me.i - 1 \in Nat /\ Me.nb_cp - (Me.i + 1) = Me.nb_cp - Me.i - 1
      /\ \A j \in 1 .. Me.nb_cp - Me.i - 1 :
           j + 1 \in 1 .. Me.nb_cp - Me.i /\ Me.i + (j + 1) = Me.i + 1 + j
  <2>1. Me.i \in Nat /\ Me.nb_cp \in Nat /\ Me.i < Me.nb_cp
    BY <1>1
  <2> QED
    BY <2>1
<1>6. InHand' = Tail(InHand)
  <2>1. CASE Me'.pc = "process" /\ Me.i + 1 = Me.nb_cp
    <3>1. InHand' = <<>>
      BY <2>1 DEF InHand
    <3>2. Me.nb_cp - Me.i - 1 = 0
      BY <1>5, <2>1
    <3>3. Len(Tail(InHand)) = 0
      BY <1>4, <3>2
    <3>4. Tail(InHand) = <<>>
      <4>1. Tail(InHand) \in Seq(S)
        BY <1>4
      <4> QED
        BY <3>3, <4>1, EmptySeq
    <3> QED
      BY <3>1, <3>4
  <2>2. CASE Me'.pc = "append" /\ Me'.i = Me.i + 1
    <3> DEFINE n == Me.nb_cp - Me.i - 1
               f == [j \in 1 .. n |-> hopa_cp_send_mbuf[Me.i + 1 + j]]
    <3>1. InHand' = f
      <4>1. InHand' = [j \in 1 .. Me.nb_cp - (Me.i + 1) |-> hopa_cp_send_mbuf[Me.i + 1 + j]]
        BY <1>1, <2>2 DEF InHand
      <4> QED
        BY <1>5, <4>1
    <3>2. \A j \in 1 .. n : Tail(InHand)[j] = hopa_cp_send_mbuf[Me.i + 1 + j]
      BY <1>2, <1>4, <1>5
    <3>3. n \in Nat /\ Len(Tail(InHand)) = n /\ Tail(InHand) \in Seq(S)
      BY <1>4, <1>5
    <3>4. \A j \in 1 .. n : Tail(InHand)[j] = f[j]
      BY <3>2
    <3>5. \A j \in 1 .. n : Tail(InHand)[j] \in S
      <4> HIDE DEF n
      <4> QED
        BY <3>3
    <3>6. f \in Seq(S) /\ Len(f) = n
      <4>1. f \in [1 .. n -> S]
        BY <3>4, <3>5
      <4> HIDE DEF f, n
      <4> QED
        BY <3>3, <4>1
    <3> HIDE DEF f, n
    <3>7. Tail(InHand) = f
      BY <3>3, <3>4, <3>6, SeqEqual
    <3> QED
      BY <3>1, <3>7
  <2> QED
    BY <1>1, <2>1, <2>2
<1>7. /\ OutWaiting \in Seq(S) /\ OutWaiting # <<>>
      /\ Head(OutWaiting) = Head(InHand) /\ Tail(OutWaiting) = Tail(InHand) \o outRing
  BY <1>2, FirstOfTwo DEF OutWaiting
<1> QED
  BY <1>1, <1>3, <1>6, <1>7 DEF OutWaiting, S

(* The round is put behind what waits, or as much of it as fills the ring. *)
LEMMA EnqueuePuts ==
  ASSUME Inv, Enqueue, crashed' = "no"
  PROVE  /\ mbufs \in Seq(Mbuf \cup {NULL}) /\ Len(mbufs) <= PATH_NB
         /\ \E k \in 0 .. Len(mbufs) :
              /\ k = Len(mbufs) \/ Len(OutWaiting) + k >= OutSize
              /\ OutWaiting' = OutWaiting \o SubSeq(mbufs, 1, k)
         /\ injected' = injected
<1> DEFINE S == Mbuf \cup {NULL}
<1>0. Typed /\ Fits /\ mbufs \in Seq(S)
  BY DEF Inv, Typed
<1>1. PICK k \in 0 .. Len(mbufs) :
        /\ k = Len(mbufs) \/ Len(outRing) + k = OutSize
        /\ outRing' = outRing \o SubSeq(mbufs, 1, k) /\ Len(mbufs) = RoundLen
        /\ UNCHANGED pmdVars
  BY <1>0, EnqueueEffect
<1>2. InHand' = InHand /\ injected' = injected
  BY <1>1 DEF pmdVars, InHand, Me
<1>3. InHand \in Seq(S) /\ outRing \in Seq(S)
  BY InHandTyped
<1> HIDE DEF S
<1> DEFINE t == SubSeq(mbufs, 1, k)
<1>4. t \in Seq(S)
  BY <1>0
<1> HIDE DEF t
<1>5. Len(mbufs) <= PATH_NB
  BY <1>1, RoundLenNat
<1>6. InHand \o (outRing \o t) = (InHand \o outRing) \o t
  BY <1>3, <1>4, PutBehind
<1>7. OutWaiting' = OutWaiting \o SubSeq(mbufs, 1, k)
  <2>1. OutWaiting' = InHand \o (outRing \o t)
    BY <1>1, <1>2 DEF OutWaiting, t
  <2> QED
    BY <1>6, <2>1 DEF OutWaiting, t
<1>8. k = Len(mbufs) \/ Len(OutWaiting) + k >= OutSize
  <2>1. /\ Len(OutWaiting) = Len(InHand) + Len(outRing) /\ Len(InHand) \in Nat
        /\ Len(outRing) \in Nat
    BY <1>3 DEF OutWaiting
  <2> QED
    BY <1>1, <2>1, SetsAssumption
<1> QED
  BY <1>0, <1>2, <1>5, <1>7, <1>8 DEF S

(* No other step is seen.                                                  *)
LEMMA OutStutters ==
  ASSUME Inv, Next, Enqueue \/ RxDequeue \/ RxAppend => Crashes
  PROVE  UNCHANGED <<OutWaiting, injected>>
<1> USE DEF ringVars, cpVars, initVars, poolVars, pmdVars
<1>a. Typed /\ Copies /\ Polls /\ Fits /\ Made
  BY DEF Inv
<1>1. CASE Crashes
  BY <1>1 DEF Crashes, OutWaiting, InHand, Me
<1>2. CASE ~Rx /\ ~Crashes
  <2>1. /\ Me' = Me \/ (Me'.pc \in {"idle", "recirc"} /\ Me.pc \in {"idle", "recirc"})
        /\ UNCHANGED <<slot, hopa_cp_send_mbuf, injected>>
    BY <1>2, MeFrame
  <2>2. InHand' = InHand
    BY <2>1 DEF InHand
  <2>3. outRing' = outRing
    BY <1>2, MainFrame DEF Next, Encode, Dequeue, Handle, Recirc, RecircBegin, RecircCopy,
       RecircEnqueue, Crash
  <2> QED
    BY <2>1, <2>2, <2>3 DEF OutWaiting
<1>3. CASE Rx /\ ~Crashes
  <2>0. crashed' = "no" /\ (RxCount \/ RxBurst \/ Process)
    BY <1>3, RxCases
  <2>1. CASE RxCount
    <3>1. Me.pc = "idle" /\ Me'.pc = "rx" /\ UNCHANGED <<outRing, injected>>
      BY <1>a, <2>0, <2>1, CountEffect
    <3> QED
      BY <3>1 DEF OutWaiting, InHand
  <2>2. CASE RxBurst
    <3>1. /\ Me.pc = "rx" /\ (Me' = Idle \/ Me'.pc = "process" \/ Me'.pc = "dequeue")
          /\ UNCHANGED <<outRing, injected>>
      BY <1>a, <2>2, BurstEffect
    <3>2. Me.pc = "rx" /\ Me'.pc # "append"
      BY <3>1 DEF Idle
    <3> QED
      BY <3>1, <3>2 DEF OutWaiting, InHand
  <2>3. CASE Process
    <3>1. Me.pc = "process" /\ Me' = Idle
      BY <1>a, <2>3, ProcessEffect
    <3>2. Me'.pc = "idle" /\ UNCHANGED <<outRing, injected>>
      BY <2>3, <3>1 DEF Idle, Process
    <3> QED
      BY <3>1, <3>2 DEF OutWaiting, InHand
  <2> QED
    BY <2>0, <2>1, <2>2, <2>3
<1> QED
  BY <1>1, <1>2, <1>3

(* Every step puts to the channel, gets from it, or is not seen.           *)
LEMMA OutStep ==
  ASSUME Inv, Next
  PROVE  OutChannel!Next \/ UNCHANGED <<OutWaiting, injected>>
<1>1. CASE Enqueue \/ RxDequeue \/ RxAppend => Crashes
  BY <1>1, OutStutters
<1>2. CASE Enqueue /\ ~Crashes
  <2>1. crashed' = "no"
    BY <1>2 DEF Enqueue, Crash, Crashes, Up
  <2>2. PICK s \in Seq(Mbuf \cup {NULL}) :
          /\ Len(s) <= PATH_NB
          /\ \E k \in 0 .. Len(s) :
               /\ k = Len(s) \/ Len(OutWaiting) + k >= OutSize
               /\ OutWaiting' = OutWaiting \o SubSeq(s, 1, k)
          /\ injected' = injected
    BY <1>2, <2>1, EnqueuePuts
  <2>3. PATH_NB \in Nat
    BY SetsAssumption
  <2>4. s \in OutChannel!BoundedSeq(Mbuf \cup {NULL}, PATH_NB)
    <3>1. s \in BoundedSeq(Mbuf \cup {NULL}, PATH_NB)
      BY <2>2, <2>3, Bounded
    <3> QED
      BY <3>1 DEF BoundedSeq, SeqOf, OutChannel!BoundedSeq, OutChannel!SeqOf
  <2>6. OutChannel!Put(s)
    BY <2>2 DEF OutChannel!Put, OutWaiting, InHand
  <2> QED
    BY <2>4, <2>6 DEF OutChannel!Next
<1>3. CASE RxDequeue
  BY <1>3, DequeueStutters
<1>4. CASE RxAppend /\ ~Crashes
  <2>1. crashed' = "no"
    BY <1>4 DEF RxAppend, Crash, Crashes, Up
  <2>2. /\ OutWaiting \in Seq(Mbuf \cup {NULL}) /\ OutWaiting # <<>>
        /\ Head(OutWaiting) \in Mbuf
        /\ OutWaiting' = Tail(OutWaiting) /\ injected' = Append(injected, Head(OutWaiting))
    BY <1>4, <2>1, AppendGets
  <2>3. injected \in Seq(Mbuf)
    BY DEF Inv, Typed
  <2>4. /\ 1 \in 1 .. Len(OutWaiting)
        /\ OutWaiting' = SubSeq(OutWaiting, 1 + 1, Len(OutWaiting))
        /\ injected' = injected \o SubSeq(OutWaiting, 1, 1)
    BY <2>2, <2>3, GetOne
  <2>5. OutChannel!Get(1)
    BY <2>4 DEF OutChannel!Get, OutWaiting, InHand
  <2>6. 1 \in 1 .. Len(OutWaiting)
    BY <2>4
  <2> QED
    BY <2>5, <2>6 DEF OutChannel!Next, OutWaiting, InHand
<1> QED
  BY <1>1, <1>2, <1>3, <1>4

-----------------------------------------------------------------------------
(* Headers that the PMD threads put; what does not fit is gone.            *)
LEMMA RecircPuts ==
  ASSUME Inv, NEW p \in Pmd, RecircEnqueue(p)
  PROVE  InChannel!Next
<1>0. Typed /\ Copies /\ Fits /\ hopa_cp_hdrs \in Seq(Header) /\ inRing \in Seq(Header)
  BY DEF Inv, Typed
<1>a. PICK s \in Seq(Header) : \E k \in 0 .. Len(s) :
         /\ Len(s) <= Burst
         /\ inRing' = inRing \o SubSeq(s, 1, k)
         /\ k = Len(s) \/ Len(inRing) + k = InSize
  BY <1>0, RecircEffect
<1>1. PICK k \in 0 .. Len(s) :
         /\ Len(s) <= Burst
         /\ inRing' = inRing \o SubSeq(s, 1, k)
         /\ k = Len(s) \/ Len(inRing) + k = InSize
  BY <1>a
<1>2. UNCHANGED cpVars
  BY DEF RecircEnqueue
<1> DEFINE t == SubSeq(s, 1, k)
<1>3. t \in Seq(Header)
  OBVIOUS
<1> HIDE DEF t
<1>4. hopa_cp_hdrs \o (inRing \o t) = (hopa_cp_hdrs \o inRing) \o t
  <2>1. hopa_cp_hdrs \in Seq(Header) /\ inRing \in Seq(Header)
    BY <1>0
  <2> QED
    BY <1>3, <2>1, PutBehind
<1>5. InWaiting' = InWaiting \o SubSeq(s, 1, k) /\ handled' = handled
  BY <1>1, <1>2, <1>4 DEF InWaiting, cpVars, t
<1>6. Len(InWaiting) = Len(hopa_cp_hdrs) + Len(inRing)
  BY <1>0, ConcatProperties DEF InWaiting
<1>7. k = Len(s) \/ Len(InWaiting) + k >= InSize
  <2>1. Len(hopa_cp_hdrs) \in Nat /\ Len(inRing) \in Nat /\ k \in Int /\ InSize \in Nat
    BY <1>0, SetsAssumption
  <2> QED
    BY <1>1, <1>6, <2>1
<1>8. InChannel!Put(s)
  BY <1>5, <1>7 DEF InChannel!Put, InWaiting
<1>9. s \in InChannel!BoundedSeq(Header, Burst)
  <2>1. s \in BoundedSeq(Header, Burst)
    BY <1>1, SetsAssumption, Bounded
  <2> QED
    BY <2>1 DEF BoundedSeq, SeqOf, InChannel!BoundedSeq, InChannel!SeqOf
<1> QED
  BY <1>8, <1>9 DEF InChannel!Next

(* A header handled is the first that waits.                               *)
LEMMA HandleGets ==
  ASSUME Inv, Handle
  PROVE  InChannel!Next
<1>0. /\ Typed /\ hopa_cp_hdrs \in Seq(Header) /\ inRing \in Seq(Header)
      /\ handled \in Seq(Header)
  BY DEF Inv, Typed
<1>1. /\ hopa_cp_hdrs # <<>> /\ hopa_cp_hdrs' = Tail(hopa_cp_hdrs) /\ inRing' = inRing
      /\ handled' = Append(handled, Head(hopa_cp_hdrs))
  BY <1>0, HandleEffect DEF ringVars
<1>2. /\ InWaiting \in Seq(Header) /\ InWaiting # <<>>
      /\ Head(InWaiting) = Head(hopa_cp_hdrs)
      /\ Tail(InWaiting) = Tail(hopa_cp_hdrs) \o inRing
  BY <1>0, <1>1, FirstOfTwo DEF InWaiting
<1>3. Head(InWaiting) \in Header
  BY <1>2, Tailed
<1>4. /\ 1 \in 1 .. Len(InWaiting) /\ Tail(InWaiting) = SubSeq(InWaiting, 1 + 1, Len(InWaiting))
      /\ Append(handled, Head(InWaiting)) = handled \o SubSeq(InWaiting, 1, 1)
  BY <1>0, <1>2, <1>3, GetOne
<1>5. InWaiting' = Tail(InWaiting) /\ handled' = Append(handled, Head(InWaiting))
  BY <1>1, <1>2 DEF InWaiting
<1>6. InChannel!Get(1)
  BY <1>4, <1>5 DEF InChannel!Get, InWaiting
<1> QED
  BY <1>4, <1>6 DEF InChannel!Next, InWaiting

(* A dequeue only moves headers from the ring to the array.                *)
LEMMA DequeueHdrsStutters ==
  ASSUME Inv, Dequeue, crashed' = "no"
  PROVE  UNCHANGED <<InWaiting, handled>>
<1>0. Typed /\ inRing \in Seq(Header)
  BY DEF Inv, Typed
<1>1. PICK n \in 1 .. Len(inRing) :
           /\ hopa_cp_hdrs = <<>>
           /\ hopa_cp_hdrs' = SubSeq(inRing, 1, n)
           /\ inRing' = SubSeq(inRing, n + 1, Len(inRing))
           /\ handled' = handled
  BY <1>0, DequeueHdrs
<1>2. SubSeq(inRing, 1, n) \o SubSeq(inRing, n + 1, Len(inRing)) = inRing
  <2>1. SubSeq(inRing, 1, n) \o SubSeq(inRing, n + 1, Len(inRing))
          = SubSeq(inRing, 1, Len(inRing))
    BY <1>0, ConcatAdjacentSubSeq
  <2> QED
    BY <1>0, <2>1, SubSeqFull
<1>3. InWaiting = inRing
  BY <1>0, <1>1, ConcatEmptySeq DEF InWaiting
<1> QED
  BY <1>1, <1>2, <1>3 DEF InWaiting

(* The same for the headers on their way in.                               *)
LEMMA InStep ==
  ASSUME Inv, Next
  PROVE  InChannel!Next \/ UNCHANGED <<InWaiting, handled>>
<1> USE DEF ringVars, cpVars
<1>1. CASE Crashes
  BY <1>1 DEF Crashes, InWaiting
<1>2. CASE Main
  BY <1>2, MainFrame DEF InWaiting
<1>3. CASE Encode \/ Enqueue
  BY <1>3 DEF Encode, Enqueue, Crash, InWaiting
<1>4. CASE Dequeue /\ crashed' = "no"
  BY <1>4, DequeueHdrsStutters
<1>5. CASE Handle
  BY <1>5, HandleGets
<1>6. CASE RxCount \/ RxBurst \/ RxDequeue \/ RxAppend \/ Process
  BY <1>6 DEF RxCount, RxBurst, RxDequeue, RxAppend, Process, Crash, InWaiting
<1>7. CASE \E p \in Pmd : RecircBegin(p) \/ RecircCopy(p)
  BY <1>7 DEF RecircBegin, RecircCopy, Crash, InWaiting
<1>8. CASE \E p \in Pmd : RecircEnqueue(p)
  BY <1>8, RecircPuts
<1> QED
  BY <1>1, <1>2, <1>3, <1>4, <1>5, <1>6, <1>7, <1>8, NextCases

(* Both rings, with the arrays in front of them, are queues: the packets   *)
(* of hopa_cp_send get into batches once each and in order, and the        *)
(* headers the PMD threads put are handled once each and in order, but for *)
(* those that a full in ring refused.                                      *)
THEOREM Channels == Spec => ImplementsChannels
<1>1. Init => OutChannel!Init /\ InChannel!Init
  <2> SUFFICES ASSUME Init
               PROVE  OutChannel!Init /\ InChannel!Init
    OBVIOUS
  <2>1. Me.pc # "append"
    BY SetsAssumption DEF Init, Me, Idle
  <2>2. <<>> \o <<>> = <<>>
    OBVIOUS
  <2> QED
    BY <2>1, <2>2 DEF Init, OutChannel!Init, InChannel!Init
<1>2. Inv /\ [Next]_vars => [OutChannel!Next]_<<OutWaiting, injected>>
  <2>1. ASSUME Inv, Next
        PROVE  OutChannel!Next \/ UNCHANGED <<OutWaiting, injected>>
    BY <2>1, OutStep
  <2>2. ASSUME UNCHANGED vars
        PROVE  UNCHANGED <<OutWaiting, injected>>
    BY <2>2 DEF vars, ringVars, pmdVars, OutWaiting, InHand, Me
  <2> QED
    BY <2>1, <2>2
<1>3. Inv /\ [Next]_vars => [InChannel!Next]_<<InWaiting, handled>>
  <2>1. ASSUME Inv, Next
        PROVE  InChannel!Next \/ UNCHANGED <<InWaiting, handled>>
    BY <2>1, InStep
  <2>2. ASSUME UNCHANGED vars
        PROVE  UNCHANGED <<InWaiting, handled>>
    BY <2>2 DEF vars, ringVars, cpVars, InWaiting
  <2> QED
    BY <2>1, <2>2
<1>4. Spec => OutChannel!Spec
  BY <1>1, <1>2, Invariance, PTL DEF Spec, OutChannel!Spec, OutWaiting, InHand
<1>5. Spec => InChannel!Spec
  BY <1>1, <1>3, Invariance, PTL DEF Spec, InChannel!Spec, InWaiting
<1> QED
  BY <1>4, <1>5 DEF ImplementsChannels

-----------------------------------------------------------------------------
(* Induction, for a set of numbers.                                        *)
LEMMA AllNat ==
  ASSUME NEW S, 0 \in S, \A n \in Nat : n \in S => n + 1 \in S
  PROVE  Nat \subseteq S
<1> DEFINE T == Nat \ S
           R == OpToRel(<, Nat)
<1> SUFFICES ASSUME T # {}
             PROVE  FALSE
  OBVIOUS
<1>1. IsWellFoundedOn(R, Nat)
  BY NatLessThanWellFounded
<1>a. \A x, y \in Nat : x < y => <<x, y>> \in R
  BY DEF OpToRel
<1>2. T \subseteq Nat
  OBVIOUS
<1> HIDE DEF R
<1> HIDE DEF T
<1>3. PICK x \in T : \A y \in T : ~ (<<y, x>> \in R)
  BY <1>1, <1>2, WFMin
<1> USE DEF T
<1>4. x # 0 /\ x \in Nat
  BY <1>3
<1>5. x - 1 \in Nat /\ x - 1 < x /\ (x - 1) + 1 = x
  BY <1>4
<1>6. x - 1 \in S
  BY <1>a, <1>3, <1>4, <1>5
<1> QED
  BY <1>3, <1>5, <1>6

(* One pair for each copy that f counts of the members of s.               *)
Tally(f, s) == {x \in s \X Nat : x[2] \in 1 .. f[x[1]]}

(* The pairs of one member are as many as f says.                          *)
LEMMA TallyOne ==
  ASSUME NEW f, NEW x, f[x] \in Nat
  PROVE  IsFiniteSet(Tally(f, {x})) /\ Cardinality(Tally(f, {x})) = f[x]
<1> DEFINE A == 1 .. f[x]
           g == [i \in A |-> <<x, i>>]
<1>1. IsFiniteSet(A) /\ Cardinality(A) = f[x]
  <2>1. PICK n \in Nat : n = f[x]
    OBVIOUS
  <2>2. 1 \in Int /\ n \in Int
    OBVIOUS
  <2>3. IsFiniteSet(1 .. n) /\ Cardinality(1 .. n) = IF 1 > n THEN 0 ELSE n - 1 + 1
    BY <2>2, FS_Interval
  <2>4. (IF 1 > n THEN 0 ELSE n - 1 + 1) = n
    OBVIOUS
  <2> QED
    BY <2>1, <2>3, <2>4
<1>2. g \in Bijection(A, Tally(f, {x}))
  <2>1. g \in [A -> Tally(f, {x})]
    BY DEF Tally
  <2>2. IsInjective(g)
    BY DEF IsInjective
  <2>3. \A t \in Tally(f, {x}) : \E s \in A : g[s] = t
    BY DEF Tally
  <2> QED
    BY <2>1, <2>2, <2>3 DEF Bijection, Injection, Surjection
<1> QED
  BY <1>1, <1>2, FS_Bijection DEF ExistsBijection

(* Splitting off one member.                                               *)
LEMMA TallySplit ==
  ASSUME NEW f, NEW s, NEW x \in s, f[x] \in Nat, IsFiniteSet(Tally(f, s \ {x}))
  PROVE  /\ IsFiniteSet(Tally(f, s))
         /\ Cardinality(Tally(f, s)) = Cardinality(Tally(f, s \ {x})) + f[x]
<1> DEFINE A == Tally(f, s \ {x})
           B == Tally(f, {x})
<1>1. IsFiniteSet(B) /\ Cardinality(B) = f[x]
  BY TallyOne
<1>2. Tally(f, s) = A \cup B /\ A \cap B = {}
  BY DEF Tally
<1> HIDE DEF A, B
<1>3. IsFiniteSet(A)
  BY DEF A
<1>4. Cardinality(A) \in Nat /\ Cardinality(B) \in Nat
  BY <1>1, <1>3, FS_CardinalityType
<1>5. Cardinality(A \cap B) = 0
  BY <1>2, FS_EmptySet
<1>6. /\ IsFiniteSet(A \cup B)
      /\ Cardinality(A \cup B) = Cardinality(A) + Cardinality(B) - Cardinality(A \cap B)
  BY <1>1, <1>3, FS_Union
<1>7. Cardinality(A \cup B) = Cardinality(A) + f[x]
  BY <1>1, <1>4, <1>5, <1>6
<1> QED
  BY <1>2, <1>6, <1>7 DEF A

(* Induction over the number of members, for a set of finite sets.         *)
LEMMA AllFinite ==
  ASSUME NEW D, IsFiniteSet(D), NEW P, {} \in P,
         \A s \in SUBSET D : s # {} /\ (\A x \in s : s \ {x} \in P) => s \in P
  PROVE  SUBSET D \subseteq P
<1> DEFINE S == {n \in Nat : \A s \in SUBSET D : Cardinality(s) = n => s \in P}
<1>0. \A s \in SUBSET D : IsFiniteSet(s) /\ Cardinality(s) \in Nat
  BY FS_Subset, FS_CardinalityType
<1>1. 0 \in S
  <2> SUFFICES ASSUME NEW s \in SUBSET D, Cardinality(s) = 0
               PROVE  s \in P
    OBVIOUS
  <2>1. s = {}
    BY <1>0, FS_EmptySet
  <2> QED
    BY <2>1
<1>2. ASSUME NEW n \in Nat, n \in S
      PROVE  n + 1 \in S
  <2> SUFFICES ASSUME NEW s \in SUBSET D, Cardinality(s) = n + 1
               PROVE  s \in P
    BY <1>2
  <2>1. s # {}
    <3> SUFFICES ASSUME s = {}
                 PROVE  FALSE
      OBVIOUS
    <3>1. Cardinality(s) = 0
      BY FS_EmptySet
    <3> QED
      BY <3>1
  <2>2. ASSUME NEW x \in s
        PROVE  s \ {x} \in P
    <3>1. s \ {x} \in SUBSET D /\ Cardinality(s \ {x}) = Cardinality(s) - 1
      BY <1>0, FS_RemoveElement
    <3>2. Cardinality(s \ {x}) = n
      BY <3>1
    <3> QED
      BY <1>2, <3>1, <3>2
  <2> QED
    BY <2>1, <2>2
<1> HIDE DEF S
<1>3. Nat \subseteq S
  BY <1>1, <1>2, AllNat
<1> QED
  BY <1>0, <1>3 DEF S

(* The tally of a finite set of numbers is finite.                         *)
LEMMA TallyFinite ==
  ASSUME NEW D, IsFiniteSet(D), NEW f, \A x \in D : f[x] \in Nat
  PROVE  /\ \A s \in SUBSET D : IsFiniteSet(Tally(f, s)) /\ Cardinality(Tally(f, s)) \in Nat
         /\ Cardinality(Tally(f, {})) = 0
         /\ \A s \in SUBSET D : \A x \in s :
              Cardinality(Tally(f, s)) = Cardinality(Tally(f, s \ {x})) + f[x]
<1> DEFINE P == {s \in SUBSET D : IsFiniteSet(Tally(f, s))}
<1>1. Tally(f, {}) = {}
  BY DEF Tally
<1>2. {} \in P
  BY <1>1, FS_EmptySet
<1>3. ASSUME NEW s \in SUBSET D, s # {}, \A x \in s : s \ {x} \in P
      PROVE  s \in P
  <2>1. PICK x \in s : TRUE
    BY <1>3
  <2> QED
    BY <1>3, <2>1, TallySplit
<1> HIDE DEF P
<1>4. SUBSET D \subseteq P
  BY <1>2, <1>3, AllFinite
<1>5. \A s \in SUBSET D : IsFiniteSet(Tally(f, s))
  BY <1>4 DEF P
<1>6. ASSUME NEW s \in SUBSET D, NEW x \in s
      PROVE  Cardinality(Tally(f, s)) = Cardinality(Tally(f, s \ {x})) + f[x]
  <2>1. s \ {x} \in SUBSET D /\ f[x] \in Nat
    OBVIOUS
  <2> QED
    BY <2>1, <1>5, TallySplit
<1> QED
  BY <1>1, <1>5, <1>6, FS_CardinalityType, FS_EmptySet

(* The fold of the library adds up what the tally counts.                  *)
LEMMA FoldTallies ==
  ASSUME NEW D, IsFiniteSet(D), NEW f, \A x \in D : f[x] \in Nat
  PROVE  FoldFunctionOnSet(+, 0, f, D) = Cardinality(Tally(f, D))
<1> DEFINE g == [s \in SUBSET D |-> Cardinality(Tally(f, s))]
           Rec(it) == it = [s \in SUBSET D |->
                              IF s = {} THEN 0
                              ELSE LET x == CHOOSE y \in s : TRUE
                                   IN  f[x] + it[s \ {x}]]
           it == CHOOSE h : Rec(h)
<1>1. /\ \A s \in SUBSET D : Cardinality(Tally(f, s)) \in Nat
      /\ Cardinality(Tally(f, {})) = 0
      /\ \A s \in SUBSET D : \A x \in s :
           Cardinality(Tally(f, s)) = Cardinality(Tally(f, s \ {x})) + f[x]
  BY TallyFinite
<1>2. Rec(g)
  <2> SUFFICES ASSUME NEW s \in SUBSET D, s # {}
               PROVE  g[s] = LET x == CHOOSE y \in s : TRUE IN  f[x] + g[s \ {x}]
    BY <1>1
  <2> DEFINE x == CHOOSE y \in s : TRUE
  <2>1. x \in s
    OBVIOUS
  <2> HIDE DEF x
  <2>2. g[s] = g[s \ {x}] + f[x] /\ g[s \ {x}] \in Nat /\ f[x] \in Nat
    BY <1>1, <2>1
  <2>3. g[s] = f[x] + g[s \ {x}]
    BY <2>2
  <2> QED
    BY <2>3 DEF x
<1>3. Rec(it)
  BY <1>2
<1>4. FoldFunctionOnSet(+, 0, f, D) = it[D]
  BY DEF FoldFunctionOnSet, MapThenFoldSet
<1> HIDE DEF it
<1> DEFINE P == {s \in SUBSET D : it[s] = Cardinality(Tally(f, s))}
<1>5. {} \in P
  BY <1>1, <1>3
<1>6. ASSUME NEW s \in SUBSET D, s # {}, \A x \in s : s \ {x} \in P
      PROVE  s \in P
  <2> DEFINE x == CHOOSE y \in s : TRUE
  <2>1. x \in s
    BY <1>6
  <2>2. it[s] = f[x] + it[s \ {x}]
    BY <1>3, <1>6
  <2> HIDE DEF x
  <2>3. it[s \ {x}] = Cardinality(Tally(f, s \ {x})) /\ f[x] \in Nat
    BY <1>6, <2>1
  <2>4. /\ Cardinality(Tally(f, s)) = Cardinality(Tally(f, s \ {x})) + f[x]
        /\ Cardinality(Tally(f, s \ {x})) \in Nat
    BY <1>1, <2>1
  <2> QED
    BY <2>2, <2>3, <2>4
<1> HIDE DEF P
<1>7. SUBSET D \subseteq P
  BY <1>5, <1>6, AllFinite
<1> QED
  BY <1>4, <1>7 DEF P

(* The tally of a sum of two functions.                                    *)
LEMMA TallyPlus ==
  ASSUME NEW D, IsFiniteSet(D), NEW f, NEW g, NEW h,
         \A x \in D : f[x] \in Nat /\ g[x] \in Nat /\ h[x] = f[x] + g[x]
  PROVE  Cardinality(Tally(h, D)) = Cardinality(Tally(f, D)) + Cardinality(Tally(g, D))
<1> DEFINE W(k, s) == Cardinality(Tally(k, s))
           P == {s \in SUBSET D : W(h, s) = W(f, s) + W(g, s)}
<1>0. \A x \in D : h[x] \in Nat
  OBVIOUS
<1>1. /\ \A s \in SUBSET D : W(f, s) \in Nat
      /\ W(f, {}) = 0
      /\ \A s \in SUBSET D : \A x \in s : W(f, s) = W(f, s \ {x}) + f[x]
  BY TallyFinite
<1>2. /\ \A s \in SUBSET D : W(g, s) \in Nat
      /\ W(g, {}) = 0
      /\ \A s \in SUBSET D : \A x \in s : W(g, s) = W(g, s \ {x}) + g[x]
  BY TallyFinite
<1>3. /\ \A s \in SUBSET D : W(h, s) \in Nat
      /\ W(h, {}) = 0
      /\ \A s \in SUBSET D : \A x \in s : W(h, s) = W(h, s \ {x}) + h[x]
  BY <1>0, TallyFinite
<1> HIDE DEF W
<1>4. {} \in P
  BY <1>1, <1>2, <1>3
<1>5. ASSUME NEW s \in SUBSET D, s # {}, \A x \in s : s \ {x} \in P
      PROVE  s \in P
  <2>1. PICK x \in s : TRUE
    BY <1>5
  <2>2. W(h, s \ {x}) = W(f, s \ {x}) + W(g, s \ {x})
    BY <1>5, <2>1
  <2>3. s \ {x} \in SUBSET D
    OBVIOUS
  <2>4. W(f, s \ {x}) \in Nat /\ W(g, s \ {x}) \in Nat /\ f[x] \in Nat /\ g[x] \in Nat
    BY <1>1, <1>2, <2>3
  <2>5. W(h, s) = W(h, s \ {x}) + f[x] + g[x]
    BY <1>3, <2>2, <2>4
  <2>6. W(f, s) = W(f, s \ {x}) + f[x] /\ W(g, s) = W(g, s \ {x}) + g[x]
    BY <1>1, <1>2
  <2>7. W(h, s) = W(f, s) + W(g, s)
    BY <2>2, <2>4, <2>5, <2>6
  <2> QED
    BY <2>7
<1> HIDE DEF P
<1>6. D \in P
  BY <1>4, <1>5, AllFinite
<1> QED
  BY <1>6 DEF P, W

(* Counting what each value has in a list counts the list.                 *)
LEMMA TallyTimes ==
  ASSUME NEW D, IsFiniteSet(D), NEW I, IsFiniteSet(I), NEW s, \A i \in I : s[i] \in D
  PROVE  /\ \A m \in D : Cardinality({i \in I : s[i] = m}) \in Nat
         /\ Cardinality(Tally([m \in D |-> Cardinality({i \in I : s[i] = m})], D))
              = Cardinality(I)
<1> DEFINE C(B) == [m \in D |-> Cardinality({i \in B : s[i] = m})]
           P == {B \in SUBSET I : Cardinality(Tally(C(B), D)) = Cardinality(B)}
<1>0. \A B \in SUBSET I : \A m \in D : C(B)[m] \in Nat
  BY FS_Subset, FS_CardinalityType
<1>1. {} \in P
  <2>1. \A m \in D : C({})[m] = 0
    BY FS_EmptySet
  <2>2. Tally(C({}), D) = {}
    BY <2>1 DEF Tally
  <2> QED
    BY <2>2
<1>2. ASSUME NEW B \in SUBSET I, B # {}, \A x \in B : B \ {x} \in P
      PROVE  B \in P
  <2>1. PICK x \in B : TRUE
    BY <1>2
  <2> DEFINE e == [m \in D |-> IF m = s[x] THEN 1 ELSE 0]
  <2>2. B \ {x} \in SUBSET I /\ s[x] \in D
    OBVIOUS
  <2>3. Cardinality(Tally(e, D)) = 1
    <3>1. Tally(e, D) = {<<s[x], 1>>}
      BY <2>2 DEF Tally
    <3> QED
      BY <3>1, FS_Singleton
  <2>4. ASSUME NEW m \in D
        PROVE  C(B)[m] = C(B \ {x})[m] + e[m]
    <3> DEFINE U == {i \in B : s[i] = m}
    <3>1. IsFiniteSet(U)
      BY FS_Subset
    <3>2. {i \in B \ {x} : s[i] = m} = U \ {x}
      OBVIOUS
    <3>3. Cardinality(U \ {x}) = IF x \in U THEN Cardinality(U) - 1 ELSE Cardinality(U)
      BY <3>1, FS_RemoveElement
    <3>4. Cardinality(U) \in Nat
      BY <3>1, FS_CardinalityType
    <3>5. x \in U <=> m = s[x]
      OBVIOUS
    <3>6. C(B)[m] = Cardinality(U) /\ C(B \ {x})[m] = Cardinality(U \ {x})
      BY <3>2
    <3> HIDE DEF U, C
    <3> QED
      BY <3>3, <3>4, <3>5, <3>6
  <2>5. \A m \in D : C(B \ {x})[m] \in Nat /\ e[m] \in Nat
    BY <1>0, <2>2
  <2> HIDE DEF C, e
  <2>6. Cardinality(Tally(C(B), D)) = Cardinality(Tally(C(B \ {x}), D)) + Cardinality(Tally(e, D))
    BY <2>4, <2>5, TallyPlus
  <2>7. Cardinality(Tally(C(B \ {x}), D)) = Cardinality(B \ {x})
    BY <1>2, <2>1
  <2>8. IsFiniteSet(B) /\ Cardinality(B) \in Nat
    BY FS_Subset, FS_CardinalityType
  <2>9. Cardinality(B \ {x}) = Cardinality(B) - 1
    BY <2>8, FS_RemoveElement
  <2>10. Cardinality(Tally(C(B), D)) = Cardinality(B)
    BY <2>3, <2>6, <2>7, <2>8, <2>9
  <2> QED
    BY <2>10
<1>3. SUBSET I \subseteq P
  <2> HIDE DEF P
  <2> QED
    BY <1>1, <1>2, AllFinite
<1>4. I \in P
  BY <1>3
<1> QED
  BY <1>0, <1>4

(* Before hopa_cp_mp is made, the pool of the NIC is the only one there    *)
(* is: no ring, no encoder and no batch has an mbuf of the other.          *)
Fresh ==
  init = "pool" =>
    /\ rings = NULL /\ cp = <<>> /\ mbufs = <<>> /\ outRing = <<>>
    /\ Me.pc \in {"idle", "rx", "process"} /\ Me.nb_cp = 0
    /\ \A m \in CpMbuf : nic[m] = 0
    /\ \A m \in NicMbuf : home[m] = "nic"
    /\ \A i \in Slots : slot[i] \in NicMbuf

(* What the batch of the polling thread holds.                             *)
Held == CASE Me.pc = "dequeue" -> Me.nb_rx
          [] Me.pc = "append" -> Me.nb_rx + Me.nb_cp
          [] Me.pc = "process" -> Me.nb_rx
          [] OTHER -> 0
(* Pointers in both pools, in the round, in the out ring and in the batch. *)
Pooled == Cardinality(Tally(nic, Mbuf))
Pointers == Pooled + Len(cp) + Len(mbufs) + Len(outRing) + Held
(* There are as many as mbufs were made, as long as no round is cut.       *)
Counted ==
  failed = {} /\ ~late => Pointers = Cardinality(IF init = "pool" THEN NicMbuf ELSE Mbuf)

(* There are finitely many mbufs, so the pool of the NIC can be counted.   *)
LEMMA NicTally ==
  ASSUME Typed
  PROVE  /\ IsFiniteSet(Mbuf) /\ Cardinality(Tally(nic, Mbuf)) \in Nat
         /\ FoldFunction(+, 0, nic) = Cardinality(Tally(nic, Mbuf))
<1>1. IsFiniteSet(Mbuf)
  <2>1. IsFiniteSet(NicMbuf) /\ IsFiniteSet(CpMbuf)
    BY SetsAssumption
  <2> QED
    BY <2>1, FS_Union DEF Mbuf
<1>2. \A m \in Mbuf : nic[m] \in Nat
  BY DEF Typed
<1>3. Mbuf \in SUBSET Mbuf
  OBVIOUS
<1>4. \A s \in SUBSET Mbuf : Cardinality(Tally(nic, s)) \in Nat
  BY <1>1, <1>2, TallyFinite
<1>5. DOMAIN nic = Mbuf
  BY DEF Typed
<1>6. FoldFunctionOnSet(+, 0, nic, Mbuf) = Cardinality(Tally(nic, Mbuf))
  BY <1>1, <1>2, FoldTallies
<1> QED
  BY <1>1, <1>3, <1>4, <1>5, <1>6 DEF FoldFunction

(* A receive takes from the pool of the NIC what the batch then holds.     *)
LEMMA BurstPointers ==
  ASSUME Typed, RxBurst
  PROVE  /\ Cardinality(Tally(nic, Mbuf)) = Cardinality(Tally(nic', Mbuf)) + Held'
         /\ \A m \in Mbuf : nic'[m] <= nic[m]
         /\ \A i \in Slots : slot'[i] = slot[i] \/ nic[slot'[i]] > 0
<1>1. Me \in Thread /\ pmd \in [Pmd -> Thread] /\ slot \in [Slots -> Mbuf]
  BY MeThread DEF Typed
<1>a. PICK n \in 0 .. Burst - Me.nb_cp : \E f \in [1 .. n -> Mbuf] :
         /\ \A i \in 1 .. n : Cardinality({j \in 1 .. n : f[j] = f[i]}) <= nic[f[i]]
         /\ slot' = [i \in Slots |-> IF i <= n THEN f[i] ELSE slot[i]]
         /\ nic' = [m \in Mbuf |-> nic[m] - Cardinality({i \in 1 .. n : f[i] = m})]
         /\ Step(IF Me.nb_cp > 0 THEN [Me EXCEPT !.pc = "dequeue", !.nb_rx = n]
                 ELSE IF n > 0 THEN [Me EXCEPT !.pc = "process", !.nb_rx = n]
                 ELSE Idle)
  BY DEF RxBurst
<1>2. PICK f \in [1 .. n -> Mbuf] :
         /\ \A i \in 1 .. n : Cardinality({j \in 1 .. n : f[j] = f[i]}) <= nic[f[i]]
         /\ slot' = [i \in Slots |-> IF i <= n THEN f[i] ELSE slot[i]]
         /\ nic' = [m \in Mbuf |-> nic[m] - Cardinality({i \in 1 .. n : f[i] = m})]
         /\ Step(IF Me.nb_cp > 0 THEN [Me EXCEPT !.pc = "dequeue", !.nb_rx = n]
                 ELSE IF n > 0 THEN [Me EXCEPT !.pc = "process", !.nb_rx = n]
                 ELSE Idle)
  BY <1>a
<1>3. n \in Nat /\ Burst \in Nat /\ Me.nb_cp \in Nat
  BY <1>1, SetsAssumption DEF Thread
<1>m. IsFiniteSet(Mbuf)
  BY NicTally
<1> DEFINE t == [m \in Mbuf |-> Cardinality({i \in 1 .. n : f[i] = m})]
<1>4. IsFiniteSet(1 .. n) /\ Cardinality(1 .. n) = n
  <2>1. 1 \in Int /\ n \in Int
    BY <1>3
  <2>2. IsFiniteSet(1 .. n) /\ Cardinality(1 .. n) = IF 1 > n THEN 0 ELSE n - 1 + 1
    BY <2>1, FS_Interval
  <2> QED
    BY <1>3, <2>2
<1>5. /\ \A m \in Mbuf : t[m] \in Nat
      /\ Cardinality(Tally(t, Mbuf)) = n
  <2>1. \A i \in 1 .. n : f[i] \in Mbuf
    OBVIOUS
  <2> DEFINE I == 1 .. n
  <2>2. IsFiniteSet(I) /\ \A i \in I : f[i] \in Mbuf
    BY <1>4, <2>1
  <2>3. Cardinality(I) = n
    BY <1>4
  <2>4. t = [m \in Mbuf |-> Cardinality({i \in I : f[i] = m})]
    OBVIOUS
  <2> HIDE DEF I, t
  <2>5. /\ \A m \in Mbuf : Cardinality({i \in I : f[i] = m}) \in Nat
        /\ Cardinality(Tally([m \in Mbuf |-> Cardinality({i \in I : f[i] = m})], Mbuf))
             = Cardinality(I)
    BY <1>m, <2>2, TallyTimes
  <2> QED
    BY <2>3, <2>4, <2>5
<1>6. \A m \in Mbuf : nic'[m] = nic[m] - t[m]
  BY <1>2
<1> HIDE DEF t
<1>7. nic \in [Mbuf -> Nat] /\ nic' \in [Mbuf -> Nat]
  BY BurstEffect DEF Typed
<1>8. \A m \in Mbuf : nic'[m] \in Nat /\ t[m] \in Nat /\ nic[m] = nic'[m] + t[m] /\ nic'[m] <= nic[m]
  BY <1>5, <1>6, <1>7
<1>9. Cardinality(Tally(nic, Mbuf)) = Cardinality(Tally(nic', Mbuf)) + n
  BY <1>m, <1>5, <1>8, TallyPlus
<1>10. \A i \in Slots : slot'[i] = slot[i] \/ nic[slot'[i]] > 0
  <2> SUFFICES ASSUME NEW i \in Slots, i <= n
               PROVE  nic[slot'[i]] > 0
    BY <1>2
  <2>1. slot'[i] = f[i] /\ i \in 1 .. n
    BY <1>2, <1>3 DEF Slots
  <2> DEFINE K == {j \in 1 .. n : f[j] = f[i]}
  <2>2. IsFiniteSet(K) /\ i \in K
    BY <1>4, <2>1, FS_Subset
  <2>3. Cardinality(K) \in Nat /\ Cardinality(K) # 0
    BY <2>2, FS_CardinalityType, FS_EmptySet
  <2>4. Cardinality(K) <= nic[f[i]]
    BY <1>2, <2>1
  <2>5. nic[f[i]] \in Nat
    BY <1>7, <2>1
  <2> HIDE DEF K
  <2> QED
    BY <2>1, <2>3, <2>4, <2>5
<1>11. Held' = n
  <2>1. CASE Me.nb_cp > 0
    <3> DEFINE r == [Me EXCEPT !.pc = "dequeue", !.nb_rx = n]
    <3>1. r \in Thread /\ r.pc = "dequeue" /\ r.nb_rx = n
      BY <1>1, <1>3 DEF Thread
    <3>2. Step(r)
      BY <1>2, <2>1
    <3> HIDE DEF r
    <3>3. Me' = r
      BY <1>1, <3>1, <3>2, MeStep
    <3> QED
      BY <3>1, <3>3 DEF Held
  <2>2. CASE ~(Me.nb_cp > 0) /\ n > 0
    <3> DEFINE r == [Me EXCEPT !.pc = "process", !.nb_rx = n]
    <3>1. r \in Thread /\ r.pc = "process" /\ r.nb_rx = n
      BY <1>1, <1>3 DEF Thread
    <3>2. Step(r)
      BY <1>2, <2>2
    <3> HIDE DEF r
    <3>3. Me' = r
      BY <1>1, <3>1, <3>2, MeStep
    <3> QED
      BY <3>1, <3>3 DEF Held
  <2>3. CASE ~(Me.nb_cp > 0) /\ ~(n > 0)
    <3>1. Me' = Idle /\ n = 0
      BY <1>1, <1>2, <1>3, <2>3, MeStep, IdleThread
    <3>2. Idle.pc = "idle"
      BY DEF Idle
    <3> QED
      BY <3>1, <3>2 DEF Held
  <2> QED
    BY <2>1, <2>2, <2>3
<1> QED
  BY <1>8, <1>9, <1>10, <1>11

(* The end of a batch gives every mbuf it holds to one of the pools.       *)
LEMMA ProcessPointers ==
  ASSUME Typed, Polls, Process
  PROVE  /\ Cardinality(Tally(nic', Mbuf)) + Len(cp')
              = Cardinality(Tally(nic, Mbuf)) + Len(cp) + Me.nb_rx
         /\ \A m \in Mbuf : home[m] = "cp" => nic'[m] = nic[m]
         /\ (\A i \in Slots : home[slot[i]] = "nic") => Len(cp') = Len(cp)
<1>1. slot \in [Slots -> Mbuf] /\ nic \in [Mbuf -> Nat] /\ home \in [Mbuf -> {"nic", "cp"}]
  BY DEF Typed
<1> DEFINE A == {i \in 1 .. Me.nb_rx : home[slot[i]] = "nic"}
           B == {i \in 1 .. Me.nb_rx : home[slot[i]] = "cp"}
           t == [m \in Mbuf |-> Cardinality({i \in A : slot[i] = m})]
<1>2. /\ Me.nb_rx \in Nat /\ Me.nb_rx <= Burst /\ Len(cp') = Len(cp) + Cardinality(B)
      /\ cp' \in Seq(Mbuf) /\ cp \in Seq(Mbuf) /\ nic' \in [Mbuf -> Nat]
  BY ProcessEffect DEF Typed
<1>3. 1 .. Me.nb_rx \subseteq Slots
  BY <1>2, SetsAssumption DEF Slots
<1>4. IsFiniteSet(1 .. Me.nb_rx) /\ Cardinality(1 .. Me.nb_rx) = Me.nb_rx
  <2>1. 1 \in Int /\ Me.nb_rx \in Int
    BY <1>2
  <2>2. /\ IsFiniteSet(1 .. Me.nb_rx)
        /\ Cardinality(1 .. Me.nb_rx) = IF 1 > Me.nb_rx THEN 0 ELSE Me.nb_rx - 1 + 1
    BY <2>1, FS_Interval
  <2> QED
    BY <1>2, <2>2
<1>5. /\ IsFiniteSet(A) /\ Cardinality(A) \in Nat /\ IsFiniteSet(B) /\ Cardinality(B) \in Nat
  BY <1>4, FS_Subset, FS_CardinalityType
<1>6. Cardinality(A) + Cardinality(B) = Me.nb_rx
  <2>1. A \cup B = 1 .. Me.nb_rx /\ A \cap B = {}
    BY <1>1, <1>3
  <2> HIDE DEF A, B
  <2>2. Cardinality(A \cap B) = 0
    BY <2>1, FS_EmptySet
  <2>3. Cardinality(A \cup B) = Cardinality(A) + Cardinality(B) - Cardinality(A \cap B)
    BY <1>5, FS_Union
  <2>4. Cardinality(A \cup B) = Me.nb_rx
    BY <1>4, <2>1
  <2> QED
    BY <1>2, <1>5, <2>2, <2>3, <2>4
<1>7. IsFiniteSet(Mbuf) /\ Cardinality(Tally(nic, Mbuf)) \in Nat
  BY NicTally
<1>8. (\A m \in Mbuf : t[m] \in Nat) /\ Cardinality(Tally(t, Mbuf)) = Cardinality(A)
  <2>1. \A i \in A : slot[i] \in Mbuf
    BY <1>1, <1>3
  <2>2. /\ \A m \in Mbuf : Cardinality({i \in A : slot[i] = m}) \in Nat
        /\ Cardinality(Tally(t, Mbuf)) = Cardinality(A)
    <3> HIDE DEF A
    <3> QED
      BY <1>5, <1>7, <2>1, TallyTimes
  <2> QED
    BY <2>2
<1>9. ASSUME NEW m \in Mbuf
      PROVE  nic'[m] = nic[m] + t[m] /\ (home[m] = "cp" => t[m] = 0)
  <2>1. nic'[m] = nic[m] + IF home[m] = "nic" THEN Times(m, Batch) ELSE 0
    BY DEF Process
  <2>2. CASE home[m] = "nic"
    <3>1. Times(m, Batch) = Cardinality({i \in 1 .. Me.nb_rx : slot[i] = m})
      <4>1. DOMAIN Batch = 1 .. Me.nb_rx /\ \A i \in 1 .. Me.nb_rx : Batch[i] = slot[i]
        BY DEF Batch
      <4>2. {i \in DOMAIN Batch : Batch[i] = m} = {i \in 1 .. Me.nb_rx : slot[i] = m}
        BY <4>1
      <4> QED
        BY <4>2 DEF Times
    <3>2. {i \in 1 .. Me.nb_rx : slot[i] = m} = {i \in A : slot[i] = m}
      BY <2>2
    <3> QED
      BY <2>1, <2>2, <3>1, <3>2
  <2>3. CASE home[m] = "cp"
    <3>1. {i \in A : slot[i] = m} = {}
      BY <2>3
    <3>2. t[m] = 0
      BY <3>1, FS_EmptySet
    <3> QED
      BY <2>1, <2>3, <3>2
  <2> QED
    BY <1>1, <2>2, <2>3
<1>10. Cardinality(Tally(nic', Mbuf)) = Cardinality(Tally(nic, Mbuf)) + Cardinality(A)
  <2>1. \A m \in Mbuf : nic[m] \in Nat /\ t[m] \in Nat /\ nic'[m] = nic[m] + t[m]
    BY <1>1, <1>8, <1>9
  <2> HIDE DEF t
  <2> QED
    BY <1>7, <1>8, <2>1, TallyPlus
<1>11. Cardinality(Tally(nic, Mbuf)) \in Nat /\ Len(cp) \in Nat
  BY <1>2, <1>7
<1>12. (\A i \in Slots : home[slot[i]] = "nic") => Len(cp') = Len(cp)
  <2> SUFFICES ASSUME \A i \in Slots : home[slot[i]] = "nic"
               PROVE  Len(cp') = Len(cp)
    OBVIOUS
  <2>1. B = {}
    BY <1>3
  <2> HIDE DEF B
  <2>2. Cardinality(B) = 0
    BY <2>1, FS_EmptySet
  <2> QED
    BY <1>2, <1>11, <2>2
<1> HIDE DEF A, B, t
<1>13. \A m \in Mbuf : home[m] = "cp" => nic'[m] = nic[m]
  BY <1>1, <1>9
<1>14. Cardinality(Tally(nic', Mbuf)) + Len(cp')
              = Cardinality(Tally(nic, Mbuf)) + Len(cp) + Me.nb_rx
  BY <1>2, <1>5, <1>6, <1>10, <1>11 DEF B
<1> QED
  BY <1>12, <1>13, <1>14

(* Until the pool is made nothing of hopa_cp_mp is anywhere.               *)
LEMMA FreshKept ==
  ASSUME Inv, Fresh, Next
  PROVE  Fresh'
<1> USE DEF ringVars, cpVars, initVars, poolVars, pmdVars
<1> SUFFICES ASSUME init' = "pool"
             PROVE  Fresh'
  BY DEF Fresh
<1>a. Typed /\ Copies /\ Polls /\ Fits /\ Homed
  BY DEF Inv
<1>b. init = "pool" /\ ~Main
  BY DEF Next, Main, InitPool, InitRings, InitRing, InitThreads, Encode, Enqueue,
         Dequeue, Handle, Rx, RxCount, RxBurst, RxDequeue, RxAppend, Process, Recirc,
         RecircBegin, RecircCopy, RecircEnqueue, Crash
<1>c. /\ rings = NULL /\ cp = <<>> /\ mbufs = <<>> /\ outRing = <<>>
      /\ Me.pc \in {"idle", "rx", "process"} /\ Me.nb_cp = 0
      /\ \A m \in CpMbuf : nic[m] = 0
      /\ \A m \in NicMbuf : home[m] = "nic"
      /\ \A i \in Slots : slot[i] \in NicMbuf
  BY <1>b DEF Fresh
<1>d. ~Exists("inRing") /\ ~Exists("outRing")
  BY <1>c DEF Exists
<1>e. CASE UNCHANGED <<rings, cp, mbufs, outRing, nic, home, slot, Me>>
  BY <1>c, <1>e DEF Fresh
<1>f. Idle.pc = "idle" /\ Idle.nb_cp = 0
  BY DEF Idle
<1>g. ~Encode /\ ~Enqueue /\ ~RxDequeue /\ ~RxAppend
  BY <1>b, <1>c DEF Encode, Enqueue, Threads, RxDequeue, RxAppend
<1>1. CASE RxCount /\ crashed' = "no"
  <2>1. /\ Me'.pc = "rx" /\ Me'.nb_cp = 0
        /\ UNCHANGED <<rings, cp, mbufs, outRing, nic, home, slot>>
    BY <1>a, <1>d, <1>1, CountEffect
  <2> QED
    BY <1>c, <2>1 DEF Fresh
<1>2. CASE RxBurst
  <2>1. /\ Me' = Idle \/ (Me'.pc = "process" /\ Me'.nb_cp = Me.nb_cp)
        /\ UNCHANGED <<rings, cp, mbufs, outRing, home>>
        /\ slot' \in [Slots -> Mbuf] /\ nic' \in [Mbuf -> Nat]
    <3>1. ~(Me.nb_cp > 0)
      BY <1>c
    <3> QED
      BY <1>a, <1>2, <3>1, BurstEffect
  <2>2. /\ \A m \in Mbuf : nic'[m] <= nic[m]
        /\ \A i \in Slots : slot'[i] = slot[i] \/ nic[slot'[i]] > 0
    BY <1>a, <1>2, BurstPointers
  <2>3. \A m \in CpMbuf : nic'[m] = 0
    <3> SUFFICES ASSUME NEW m \in CpMbuf
                 PROVE  nic'[m] = 0
      OBVIOUS
    <3>1. nic'[m] \in Nat /\ nic'[m] <= nic[m] /\ nic[m] = 0
      BY <1>c, <2>1, <2>2 DEF Mbuf
    <3> QED
      BY <3>1
  <2>4. \A i \in Slots : slot'[i] \in NicMbuf
    <3> SUFFICES ASSUME NEW i \in Slots, slot'[i] \notin NicMbuf
                 PROVE  FALSE
      OBVIOUS
    <3>1. slot'[i] \in CpMbuf
      BY <2>1 DEF Mbuf
    <3>2. nic[slot'[i]] > 0
      BY <1>c, <2>2
    <3>3. nic[slot'[i]] = 0
      BY <1>c, <3>1
    <3> QED
      BY <3>2, <3>3
  <2> QED
    BY <1>c, <1>f, <2>1, <2>3, <2>4 DEF Fresh
<1>3. CASE Process
  <2>1. /\ Me' = Idle /\ UNCHANGED <<rings, mbufs, outRing, home, slot>>
        /\ cp' \in Seq(Mbuf) /\ nic' \in [Mbuf -> Nat]
    BY <1>a, <1>3, ProcessEffect
  <2>2. /\ \A m \in Mbuf : home[m] = "cp" => nic'[m] = nic[m]
        /\ (\A i \in Slots : home[slot[i]] = "nic") => Len(cp') = Len(cp)
    BY <1>a, <1>3, ProcessPointers
  <2>3. \A m \in CpMbuf : home[m] = "cp" /\ m \in Mbuf
    BY <1>a, SetsAssumption DEF Homed, OfCp, Mbuf
  <2>4. Len(cp') = 0
    BY <1>c, <2>2
  <2>5. cp' = <<>>
    BY <2>1, <2>4
  <2> QED
    BY <1>c, <1>f, <2>1, <2>2, <2>3, <2>5 DEF Fresh
<1>4. CASE Crashes
  BY <1>e, <1>4 DEF Crashes, Me
<1>5. CASE (Dequeue \/ Handle) /\ crashed' = "no"
  BY <1>c, <1>e, <1>5 DEF Dequeue, Handle, Crash, Me
<1>6. CASE (\E p \in Pmd : RecircBegin(p) \/ RecircCopy(p) \/ RecircEnqueue(p)) /\ crashed' = "no"
  <2>1. PICK p \in Pmd : RecircCopy(p) \/ RecircEnqueue(p)
    BY <1>d, <1>6 DEF RecircBegin
  <2>2. pmd[p].pc = "recirc"
    BY <2>1 DEF RecircCopy, RecircEnqueue
  <2>3. p # Poller
    BY <1>c, <2>2 DEF Me
  <2>4. UNCHANGED <<rings, cp, mbufs, outRing, nic, home, slot>> /\ Me' = Me
    <3>1. UNCHANGED <<rings, cp, mbufs, outRing, nic, home, slot>>
      BY <1>6, <2>1 DEF RecircCopy, RecircEnqueue, Crash
    <3>2. pmd'[Poller] = pmd[Poller]
      <4>1. Poller \in Pmd \ {p}
        BY <2>3, SetsAssumption
      <4>2. CASE RecircCopy(p)
        BY <1>a, <1>6, <4>1, <4>2, CopyEffect
      <4>3. CASE RecircEnqueue(p)
        <5>1. pmd' = [pmd EXCEPT ![p] = Idle]
          BY <4>3 DEF RecircEnqueue
        <5> QED
          BY <1>a, <4>1, <5>1 DEF Typed
      <4> QED
        BY <2>1, <4>2, <4>3
    <3> QED
      BY <3>1, <3>2 DEF Me
  <2> QED
    BY <1>e, <2>4
<1> QED
  BY <1>b, <1>g, <1>1, <1>2, <1>3, <1>4, <1>5, <1>6, NextCases

(* A count that a crash and every step of another thread leaves alone.     *)
LEMMA PointersNat ==
  ASSUME Typed
  PROVE  /\ Pooled \in Nat /\ Len(cp) \in Nat /\ Len(mbufs) \in Nat
         /\ Len(outRing) \in Nat /\ Held \in Nat
<1>1. Me.nb_cp \in Nat /\ Me.nb_rx \in Nat
  <2>1. Me \in Thread
    BY MeThread DEF Typed
  <2> QED
    BY <2>1 DEF Thread
<1>2. Held \in Nat
  BY <1>1 DEF Held
<1>3. Len(cp) \in Nat /\ Len(mbufs) \in Nat /\ Len(outRing) \in Nat
  BY DEF Typed
<1> QED
  BY <1>2, <1>3, NicTally DEF Pooled

(* The same after a step.                                                  *)
LEMMA PointersNatNext ==
  ASSUME Typed'
  PROVE  /\ Pooled' \in Nat /\ Len(cp') \in Nat
         /\ Len(mbufs') \in Nat /\ Len(outRing') \in Nat /\ Held' \in Nat
<1>1. Me'.nb_cp \in Nat /\ Me'.nb_rx \in Nat
  <2>1. Me' \in Thread
    BY SetsAssumption DEF Typed, Me
  <2> QED
    BY <2>1 DEF Thread
<1>2. Held' \in Nat
  BY <1>1 DEF Held
<1>3. Len(cp') \in Nat /\ Len(mbufs') \in Nat /\ Len(outRing') \in Nat
  BY DEF Typed
<1>4. IsFiniteSet(Mbuf) /\ \A m \in Mbuf : nic'[m] \in Nat
  <2>1. IsFiniteSet(NicMbuf) /\ IsFiniteSet(CpMbuf)
    BY SetsAssumption
  <2>2. IsFiniteSet(Mbuf)
    BY <2>1, FS_Union DEF Mbuf
  <2> QED
    BY <2>2 DEF Typed
<1>5. \A s \in SUBSET Mbuf : Cardinality(Tally(nic', s)) \in Nat
  BY <1>4, TallyFinite
<1>6. Mbuf \in SUBSET Mbuf
  OBVIOUS
<1> QED
  BY <1>2, <1>3, <1>5, <1>6 DEF Pooled

(* No step loses or makes a pointer, but the one that makes hopa_cp_mp.    *)
LEMMA CountedKept ==
  ASSUME Inv, Fresh, Counted, Next
  PROVE  Counted'
<1> USE DEF ringVars, cpVars, initVars, poolVars, pmdVars
<1> SUFFICES ASSUME failed' = {}, ~late'
             PROVE  Pointers' = Cardinality(IF init' = "pool" THEN NicMbuf ELSE Mbuf)
  BY DEF Counted
<1>a. Typed /\ Copies /\ Polls /\ Fits /\ Homed /\ Stocked /\ Typed'
  BY TypedKept DEF Inv
<1>b. failed = {}
  BY NextCases DEF Main, InitPool, InitRings, InitRing, InitThreads, Encode, Enqueue,
      Dequeue, Handle, RxCount, RxBurst, RxDequeue, RxAppend, Process, RecircBegin, RecircCopy,
      RecircEnqueue, Crash, Crashes
<1>l. ~late
  BY <1>a, LateStays
<1>c. Pointers = Cardinality(IF init = "pool" THEN NicMbuf ELSE Mbuf)
  BY <1>b, <1>l DEF Counted
<1>d. /\ Pooled \in Nat /\ Len(cp) \in Nat /\ Len(mbufs) \in Nat
      /\ Len(outRing) \in Nat /\ Held \in Nat
      /\ Pooled' \in Nat /\ Len(cp') \in Nat /\ Len(mbufs') \in Nat
      /\ Len(outRing') \in Nat /\ Held' \in Nat
  BY <1>a, PointersNat, PointersNatNext
<1>e. outRing \in Seq(Mbuf \cup {NULL}) /\ mbufs \in Seq(Mbuf \cup {NULL}) /\ cp \in Seq(Mbuf)
  BY <1>a DEF Typed
<1>f. CASE init' = init /\ Pointers' = Pointers
  BY <1>c, <1>f
<1>g. CASE UNCHANGED <<init, nic, cp, mbufs, outRing, Held>>
  <2>1. Pointers' = Pointers
    BY <1>g DEF Pointers, Pooled
  <2> QED
    BY <1>c, <1>g, <2>1
<1>1. CASE ~Rx
  <2>1. Held' = Held
    <3>1. Me' = Me \/ (Me'.pc \in {"idle", "recirc"} /\ Me.pc \in {"idle", "recirc"})
      BY <1>1, MeFrame
    <3> QED
      BY <3>1 DEF Held
  <2>2. CASE Main
    <3>1. UNCHANGED <<nic, mbufs, outRing>>
      BY <2>2, MainFrame
    <3>2. CASE InitPool
      <4>1. init = "pool" /\ init' # "pool" /\ cp' = SetToSeq(CpMbuf)
        BY <1>b, <3>2 DEF InitPool
      <4>2. Len(cp') = Cardinality(CpMbuf) /\ Len(cp) = 0 /\ Cardinality(CpMbuf) \in Nat
        BY <4>1, SetsAssumption, SeqOfSet DEF Fresh
      <4>3. Cardinality(Mbuf) = Cardinality(NicMbuf) + Cardinality(CpMbuf)
        <5>1. IsFiniteSet(NicMbuf) /\ IsFiniteSet(CpMbuf) /\ NicMbuf \cap CpMbuf = {}
          BY SetsAssumption
        <5>2. Cardinality(NicMbuf) \in Nat /\ Cardinality(NicMbuf \cap CpMbuf) = 0
          BY <5>1, FS_CardinalityType, FS_EmptySet
        <5>3. Cardinality(NicMbuf \cup CpMbuf)
                = Cardinality(NicMbuf) + Cardinality(CpMbuf) - Cardinality(NicMbuf \cap CpMbuf)
          BY <5>1, FS_Union
        <5> QED
          BY <4>2, <5>2, <5>3 DEF Mbuf
      <4>4. Pointers = Cardinality(NicMbuf)
        BY <1>c, <4>1
      <4>5. Pointers' = Pointers + Cardinality(CpMbuf)
        BY <1>d, <2>1, <3>1, <4>2 DEF Pointers, Pooled
      <4> QED
        BY <4>1, <4>3, <4>4, <4>5
    <3>3. CASE ~InitPool
      <4>1. cp' = cp /\ init # "pool" /\ init' # "pool"
        BY <2>2, <3>3 DEF Main, InitRings, InitRing, InitThreads
      <4>2. Pointers' = Pointers
        BY <2>1, <3>1, <4>1 DEF Pointers, Pooled
      <4> QED
        BY <1>c, <4>1, <4>2
    <3> QED
      BY <3>2, <3>3
  <2>3. CASE Encode
    <3>1. /\ \/ cp # <<>> /\ mbufs' = Append(mbufs, Head(cp)) /\ cp' = Tail(cp)
             \/ cp = <<>> /\ mbufs' = Append(mbufs, NULL) /\ cp' = cp
          /\ UNCHANGED <<outRing, nic, init>>
      BY <1>a, <2>3, SenderEffect
    <3>2. cp # <<>>
      <4> SUFFICES ASSUME cp = <<>>
                   PROVE  FALSE
        OBVIOUS
      <4>1. \A j \in 1 .. Len(mbufs') : mbufs'[j] # NULL
        BY <1>b, NoNullsKept DEF NoNulls
      <4>2. mbufs' = Append(mbufs, NULL) /\ NULL \in Mbuf \cup {NULL}
        BY <3>1
      <4>3. Len(mbufs') = Len(mbufs) + 1 /\ mbufs'[Len(mbufs) + 1] = NULL
        BY <1>e, <4>2
      <4>4. Len(mbufs) + 1 \in 1 .. Len(mbufs')
        BY <1>d, <4>3
      <4> QED
        BY <4>1, <4>3, <4>4
    <3>3. Len(cp') = Len(cp) - 1 /\ Head(cp) \in Mbuf
      BY <1>e, <3>1, <3>2, Tailed
    <3>4. Len(mbufs') = Len(mbufs) + 1
      BY <1>e, <3>1, <3>2, <3>3, Appended
    <3>5. Pointers' = Pointers
      BY <1>d, <2>1, <3>1, <3>3, <3>4 DEF Pointers, Pooled
    <3> QED
      BY <1>f, <3>1, <3>5
  <2>4. CASE Enqueue /\ crashed' = "no"
    <3>1. /\ Len(outRing') = Len(outRing) + RoundLen /\ Len(mbufs) = RoundLen
          /\ UNCHANGED <<cp, nic, init>> /\ mbufs' = <<>>
      BY <1>a, <1>l, <2>4, EnqueueWhole
    <3>2. Len(mbufs') = 0
      BY <3>1
    <3>3. Pointers' = Pointers
      BY <1>d, <2>1, <3>1, <3>2 DEF Pointers, Pooled
    <3> QED
      BY <1>f, <3>1, <3>3
  <2>5. CASE (Dequeue \/ Handle) /\ crashed' = "no"
    BY <1>g, <2>1, <2>5 DEF Dequeue, Handle, Crash
  <2>6. CASE \E p \in Pmd : RecircBegin(p) \/ RecircCopy(p) \/ RecircEnqueue(p)
    BY <1>g, <2>1, <2>6 DEF RecircBegin, RecircCopy, RecircEnqueue, Crash
  <2>7. CASE Crashes
    BY <1>g, <2>1, <2>7 DEF Crashes
  <2> QED
    BY <1>1, <2>2, <2>3, <2>4, <2>5, <2>6, <2>7, NextCases DEF Rx
<1>2. CASE Crashes
  BY <1>g, <1>2 DEF Crashes, Held, Me
<1>3. CASE RxCount /\ crashed' = "no"
  <2>1. Me.pc = "idle" /\ Me'.pc = "rx" /\ UNCHANGED <<init, nic, cp, mbufs, outRing>>
    BY <1>a, <1>3, CountEffect
  <2> QED
    BY <1>g, <2>1 DEF Held
<1>4. CASE RxBurst
  <2>1. Me.pc = "rx" /\ UNCHANGED <<init, cp, mbufs, outRing>>
    BY <1>4 DEF RxBurst
  <2>2. Pooled = Pooled' + Held'
    BY <1>a, <1>4, BurstPointers DEF Pooled
  <2>3. Held = 0
    BY <2>1 DEF Held
  <2>4. Len(cp') = Len(cp) /\ Len(mbufs') = Len(mbufs) /\ Len(outRing') = Len(outRing)
    BY <2>1
  <2>5. Pointers' = Pointers
    <3> DEFINE h == Held'
               q == Pooled'
    <3>1. h \in Nat /\ q \in Nat /\ Pooled = q + h
      BY <1>d, <2>2
    <3>2. Pointers' = q + Len(cp) + Len(mbufs) + Len(outRing) + h
      BY <2>4 DEF Pointers
    <3> HIDE DEF h, q
    <3> QED
      BY <1>d, <2>3, <3>1, <3>2 DEF Pointers
  <2> QED
    BY <1>f, <2>1, <2>5
<1>5. CASE RxDequeue
  <2>1. /\ Me.pc = "dequeue" /\ Me'.pc = "append" /\ Me'.nb_cp = Me.nb_cp
        /\ Me'.nb_rx = Me.nb_rx /\ Me.nb_rx \in Nat
        /\ Me.nb_cp \in 1 .. Len(outRing)
        /\ outRing' = SubSeq(outRing, Me.nb_cp + 1, Len(outRing))
        /\ UNCHANGED <<init, nic, cp, mbufs>>
    BY <1>a, <1>5, DequeueEffect
  <2>2. Len(outRing') = Len(outRing) - Me.nb_cp
    BY <1>e, <2>1, Suffix
  <2>3. Held = Me.nb_rx /\ Held' = Me.nb_rx + Me.nb_cp
    BY <2>1 DEF Held
  <2>4. Len(outRing') + Held' = Len(outRing) + Held
    <3>1. PICK a \in Nat : a = Len(outRing)
      BY <1>d
    <3>2. PICK c \in Nat : c = Me.nb_cp /\ c <= a
      BY <2>1, <3>1
    <3>3. PICK r \in Nat : r = Me.nb_rx
      BY <2>1
    <3>4. Len(outRing') = a - c /\ Held = r /\ Held' = r + c
      BY <2>2, <2>3, <3>1, <3>2, <3>3
    <3>5. (a - c) + (r + c) = a + r
      OBVIOUS
    <3> QED
      BY <3>1, <3>4, <3>5
  <2>5. nic' = nic /\ cp' = cp /\ mbufs' = mbufs
    BY <2>1
  <2>6. /\ Pooled' = Pooled
        /\ Len(cp') = Len(cp) /\ Len(mbufs') = Len(mbufs)
    BY <2>5 DEF Pooled
  <2>7. Pointers' = Pointers
    BY <1>d, <2>4, <2>6 DEF Pointers
  <2> QED
    BY <1>f, <2>1, <2>7
<1>6. CASE RxAppend /\ crashed' = "no"
  <2>1. /\ Me.pc = "append" /\ Me'.nb_cp = Me.nb_cp
        /\ \/ Me'.pc = "append" /\ Me'.nb_rx = Me.nb_rx
           \/ Me'.pc = "process" /\ Me'.nb_rx = Me.nb_rx + Me.nb_cp
        /\ UNCHANGED <<init, nic, cp, mbufs, outRing>>
    BY <1>a, <1>6, AppendEffect
  <2>2. Held' = Held
    BY <2>1 DEF Held
  <2> QED
    BY <1>g, <2>1, <2>2
<1>7. CASE Process
  <2>1. Me.pc = "process" /\ Me' = Idle /\ UNCHANGED <<init, mbufs, outRing>>
    BY <1>a, <1>7, ProcessEffect
  <2>2. Pooled' + Len(cp')
          = Pooled + Len(cp) + Me.nb_rx
    BY <1>a, <1>7, ProcessPointers DEF Pooled
  <2>3. Held = Me.nb_rx /\ Held' = 0
    BY <2>1 DEF Held, Idle
  <2>4. Pooled' + Len(cp')
          = Pooled + Len(cp) + Held
    BY <2>2, <2>3
  <2>5. mbufs' = mbufs /\ outRing' = outRing
    BY <2>1
  <2>6. Pointers' = Pointers
    <3> HIDE DEF Held
    <3>1. Len(mbufs') = Len(mbufs) /\ Len(outRing') = Len(outRing)
      BY <2>5
    <3>2. \A a, b, c, d, e, f, g \in Nat : a + b = c + d + e => a + b + f + g + 0 = c + d + f + g + e
      OBVIOUS
    <3>3. Pooled' + Len(cp') + Len(mbufs) + Len(outRing) + 0
            = Pooled + Len(cp) + Len(mbufs) + Len(outRing) + Held
      BY <1>d, <2>4, <3>2
    <3> QED
      BY <2>3, <3>1, <3>3 DEF Pointers
  <2> QED
    BY <1>f, <2>1, <2>6
<1> QED
  BY <1>1, <1>2, <1>3, <1>4, <1>5, <1>6, <1>7, RxCases

(* The pool of the NIC starts with the mbufs made for it.                  *)
LEMMA InitCounted ==
  ASSUME Init
  PROVE  Fresh /\ Counted
<1> USE DEF Init
<1>1. Me = Idle
  BY SetsAssumption DEF Me
<1>2. Me.pc = "idle" /\ Me.nb_cp = 0
  BY <1>1 DEF Idle
<1>3. Fresh
  BY <1>2, SetsAssumption DEF Fresh, Mbuf
<1>4. Pooled = Cardinality(NicMbuf)
  <2> DEFINE s == [m \in NicMbuf |-> m]
             t == [m \in Mbuf |-> Cardinality({i \in NicMbuf : s[i] = m})]
  <2>1. IsFiniteSet(Mbuf) /\ IsFiniteSet(NicMbuf) /\ \A i \in NicMbuf : s[i] \in Mbuf
    BY SetsAssumption, FS_Union DEF Mbuf
  <2>2. Cardinality(Tally(t, Mbuf)) = Cardinality(NicMbuf)
    <3> HIDE DEF s
    <3> QED
      BY <2>1, TallyTimes
  <2>3. ASSUME NEW m \in Mbuf
        PROVE  t[m] = nic[m]
    <3>1. CASE m \in NicMbuf
      <4>1. {i \in NicMbuf : s[i] = m} = {m}
        BY <3>1
      <4> QED
        BY <3>1, <4>1, FS_Singleton
    <3>2. CASE m \notin NicMbuf
      <4>1. {i \in NicMbuf : s[i] = m} = {}
        BY <3>2
      <4> QED
        BY <3>2, <4>1, FS_EmptySet
    <3> QED
      BY <3>1, <3>2
  <2>4. nic = t
    <3> HIDE DEF s
    <3>1. DOMAIN nic = Mbuf
      OBVIOUS
    <3> QED
      BY <2>3, <3>1
  <2> QED
    BY <2>2, <2>4 DEF Pooled
<1>5. Len(cp) = 0 /\ Len(mbufs) = 0 /\ Len(outRing) = 0 /\ Held = 0
  BY <1>2 DEF Held
<1>6. Cardinality(NicMbuf) \in Nat
  BY SetsAssumption, FS_CardinalityType
<1>7. Counted
  BY <1>4, <1>5, <1>6 DEF Counted, Pointers
<1> QED
  BY <1>3, <1>7

(* Until an allocation of hopa_cp_init fails or the polling thread is      *)
(* behind, the pointers in both pools, in the round, in the out ring and   *)
(* in the batch are as many as mbufs were made.                            *)
LEMMA Counting == Spec => [](Fresh /\ Counted)
<1>1. Init => Fresh /\ Counted
  BY InitCounted
<1>2. Inv /\ (Fresh /\ Counted) /\ [Next]_vars => (Fresh /\ Counted)'
  <2>1. ASSUME Inv, Fresh, Counted, Next
        PROVE  (Fresh /\ Counted)'
    BY <2>1, FreshKept, CountedKept
  <2>2. ASSUME Fresh, Counted, UNCHANGED vars
        PROVE  (Fresh /\ Counted)'
    BY <2>2 DEF Fresh, Counted, Pointers, Held, Me, vars, ringVars, cpVars, initVars,
       poolVars, pmdVars, Pooled
  <2> QED
    BY <2>1, <2>2
<1> QED
  BY <1>1, <1>2, Invariance, PTL DEF Spec

(* Counting what is not NULL counts all of a list that has no NULL.        *)
LEMMA AllNonNull ==
  ASSUME NEW S, NEW s \in Seq(S), \A j \in 1 .. Len(s) : s[j] # NULL
  PROVE  NonNull(s) = Len(s)
<1>1. Len(s) \in Nat /\ DOMAIN s = 1 .. Len(s)
  OBVIOUS
<1>2. {i \in DOMAIN s : s[i] # NULL} = 1 .. Len(s)
  BY <1>1
<1>3. Cardinality(1 .. Len(s)) = Len(s)
  <2>1. 1 \in Int /\ Len(s) \in Int
    BY <1>1
  <2>2. Cardinality(1 .. Len(s)) = IF 1 > Len(s) THEN 0 ELSE Len(s) - 1 + 1
    BY <2>1, FS_Interval
  <2> QED
    BY <1>1, <2>2
<1> QED
  BY <1>2, <1>3 DEF NonNull

(* However the copying in netdev_dpdk_rxq_recv shifts pool fields from one *)
(* mbuf to another, each packet that hopa_cp_send puts costs the pools one *)
(* pointer and its batch gives one back: nothing leaks from both pools     *)
(* together, for any number of mbufs, paths and packets, as long as the    *)
(* polling thread keeps up and no allocation has failed.                   *)
THEOREM Conserved == Spec => []PointersConserved
<1>1. ASSUME Inv, Counted, TypeOK
      PROVE  PointersConserved
  <2> SUFFICES ASSUME failed = {}, ~late, init # "pool"
               PROVE  InPools + Outstanding = Cardinality(Mbuf)
    BY <1>1 DEF PointersConserved
  <2>1. Typed /\ Stocked
    BY <1>1 DEF Inv
  <2>2. NonNull(mbufs) = Len(mbufs) /\ NonNull(outRing) = Len(outRing)
    BY <2>1, AllNonNull DEF Stocked, Typed
  <2>3. FoldFunction(+, 0, nic) = Pooled
    BY <2>1, NicTally DEF Pooled
  <2>4. Pointers = Cardinality(Mbuf)
    BY <1>1 DEF Counted
  <2>5. /\ Pooled \in Nat /\ Len(cp) \in Nat /\ Len(mbufs) \in Nat
        /\ Len(outRing) \in Nat /\ Held \in Nat
    BY <2>1, PointersNat
  <2>6. InPools = Pooled + Len(cp)
    BY <2>3 DEF InPools
  <2>7. Outstanding = Len(mbufs) + Len(outRing) + Held
    BY <2>2 DEF Outstanding, Held
  <2> QED
    BY <2>4, <2>5, <2>6, <2>7 DEF Pointers
<1> QED
  BY <1>1, Invariance, Counting, Types, PTL
=============================================================================
